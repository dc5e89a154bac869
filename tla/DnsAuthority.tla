----------------------------- MODULE DnsAuthority ------------------------------
(***************************************************************************)
(* What clients are told of the records: over JSON-RPC, by code, and over  *)
(* DNS, through the authority of the zone and the request handler in       *)
(* front of it.                                                            *)
(***************************************************************************)
EXTENDS DnsRecords

\* Types lookup does not return on request.
Blocked ==
  {Type(v) : v \in {"SS58", "ORIGIN", "ANY", "AXFR", "IXFR", "OPT", "TSIG",
                    "SIG", "RRSIG", "NSEC", "NSEC3", "NSEC3PARAM", "DNSKEY",
                    "CDNSKEY", "CDS", "DS"}}

Anchors == {Type("SS58"), Type("ORIGIN")}

\* Mutant of LookupRecords: SS58 and ORIGIN only when they are asked for.
LookupAsked(m, asked) ==
  {<<t, records[m][t]>> :
     t \in {u \in (asked \ (Blocked \ Anchors)) \cap Types : records[m][u] # Absent}}

\* lookup: SS58 and ORIGIN always, and what is asked for.  An Unknown type
\* nobody has set has no record.
LookupRecords(m, asked) ==
  {<<t, records[m][t]>> :
     t \in {u \in (Anchors \cup (asked \ Blocked)) \cap Types : records[m][u] # Absent}}

\* lookup_by_name: a name that cannot be parsed is the zero node, which has
\* no records.
LookupByName(q, asked) ==
  IF NodeOf[q] \in Nodes THEN LookupRecords(NodeOf[q], asked) ELSE {}

\* pns_lookup and pns_lookupByName: codes are cut to 16 bits.
RpcLookup(q, codes) ==
  {<<ToCode(ToHickory(r[1])), r[2]>> :
     r \in LookupByName(q, {FromHickory(OfCode(c % 65536)) : c \in codes})}

-----------------------------------------------------------------------------
(* The authority of the zone.                                              *)

\* is_polkadot_only
PolkadotOnly == {Type(v) : v \in Range(PrivateVariants) \ {"RPC"}}

\* The reading a type needs of its content.
Needs == [A |-> "v4 bytes", AAAA |-> "v6 bytes", CNAME |-> "name",
          NS |-> "name", MX |-> "mx", SRV |-> "srv"]

\* What an RPC record is served as.
RpcServedAs(content) ==
  IF "v4" \in content THEN {"A"}
  ELSE IF "v6" \in content THEN {"AAAA"}
  ELSE IF "name" \in content THEN {"CNAME"} ELSE {}

\* pns_record_to_dns: the types of the records made of one stored record,
\* for a query of type h; none, or one.
PnsRecordToDns(t, content, h) ==
  IF t \in PolkadotOnly THEN {}
  ELSE IF t[1] \in DOMAIN Needs
    THEN IF Needs[t[1]] \in content THEN {t} ELSE {}
  ELSE IF t = Type("TXT") THEN {t}
  ELSE IF t = Type("RPC")
    THEN {Type(v) : v \in {w \in RpcServedAs(content) : h \in {Type(w), Type("ANY")}}}
  ELSE {ToHickory(t)} \cap (IF h = Type("ANY") THEN {ToHickory(t)} ELSE {h})

\* An answer: a response and the records, each with the type it is stored under.
Answer(response, found) == [response |-> response, found |-> found]

Found(found) ==
  IF found = {} THEN Answer("NameExists", {}) ELSE Answer("NoError", found)

\* The apex of the zone has an SOA and an NS record that nobody stores.
LookupApex(h) ==
  Found({<<Type(v), Type(v)>> :
           v \in {w \in {"SOA", "NS"} :
                    \/ h = Type(w)
                    \/ w = "SOA" /\ h = Type("ANY")}})

\* lookup of BlockChainAuthority.  A name has at most one CNAME, so the cap
\* on their number is not reached.
AuthorityLookup(q, h) ==
  LET raw == LookupByName(q, IF h = Type("ANY") THEN AllTypes ELSE {FromHickory(h)})
  IN  CASE NodeOf[q] = "apex" -> LookupApex(h)
        [] NodeOf[q] = "outside" -> Answer("NXDomain", {})
        [] NodeOf[q] \notin {"apex", "outside"} /\ h = Type("SOA") ->
             Answer("NameExists", {})
        [] NodeOf[q] \notin {"apex", "outside"} /\ h # Type("SOA") ->
             IF raw = {} THEN Answer("NXDomain", {})
             ELSE Found(UNION {{<<d, r[1]>> : d \in PnsRecordToDns(r[1], r[2], h)} :
                                 r \in raw})

\* handle_request refuses ANY before it asks the authority.
HandleQuery(q, code) ==
  IF OfCode(code) = Type("ANY") THEN Answer("NotImp", {})
  ELSE AuthorityLookup(q, OfCode(code))

-----------------------------------------------------------------------------
(* What clients may rely on.                                               *)

\* The negative cache keeps names, not types: NXDOMAIN for one type of query
\* must mean that the name has no record of any type, whatever was stored,
\* overwritten and cleared.
NxMeansNoRecords ==
  \A q \in QueryNames, code \in QueryCodes :
    HandleQuery(q, code).response = "NXDomain" /\ NodeOf[q] \in Nodes
      => records[NodeOf[q]] = NoRecords

\* What comes back under the codes of SS58 and ORIGIN was written by the
\* chain, although set_record accepts Unknown(65280) and Unknown(65290).
AnchorsAreTheChains ==
  \A q \in QueryNames, c \in QueryCodes :
    \A r \in RpcLookup(q, {c}) : r[1] \in {65280, 65290} => r[2] = Managed

\* What an owner has stored under a variant of the enum comes back under the
\* code of that variant, and as it was stored.
StoredIsRetrievable ==
  \A q \in QueryNames : NodeOf[q] \in Names =>
    \A t \in (Settable \cap AllTypes) \ Blocked :
      LET code == ToCode(ToHickory(t)) IN
      records[NodeOf[q]][t] # Absent =>
        {r \in RpcLookup(q, {code}) : r[1] = code} = {<<code, records[NodeOf[q]][t]>>}

=============================================================================
