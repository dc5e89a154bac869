---------------------------- MODULE NameDataProofs -----------------------------
(***************************************************************************)
(* What the chain keeps about a name, component by component: its records, *)
(* the texts it is spelled with, and its token in the nft ledger.          *)
(*                                                                         *)
(* Records, for every set of types, contents and queries: the codes of the *)
(* types round trip, what is stored comes back, the anchors are the        *)
(* chain's, and a name is denied only if it has no records.                *)
(*                                                                         *)
(* Texts, for every alphabet and every set of texts: a name that is held   *)
(* is found by the spellings of its text and by no other text, and no      *)
(* spelling of a reserved name is registered.                              *)
(*                                                                         *)
(* The ledger, for any number of accounts, tokens and classes: its         *)
(* invariants become inductive together with two facts.  Identifiers not   *)
(* given out have no class, and the base token is never owned by anybody   *)
(* but the owner of class 0.                                               *)
(***************************************************************************)
EXTENDS NftLedger, PnsLabels, DnsAuthority, FiniteSetTheorems, TLAPS

-----------------------------------------------------------------------------
(* The conversions between types and codes.                                *)

\* The variants both enums have, and the pallets' own.
Standard == DOMAIN StandardCode
Private == Range(PrivateVariants)

\* The names of the variants that both enums have.
LEMMA StandardNames ==
  Standard = {"ZERO", "A", "NS", "CNAME", "SOA", "NULL", "PTR", "HINFO", "MX",
              "TXT", "SIG", "KEY", "AAAA", "SRV", "NAPTR", "OPT", "DS", "SSHFP",
              "RRSIG", "NSEC", "DNSKEY", "NSEC3", "NSEC3PARAM", "TLSA", "CDS",
              "CDNSKEY", "OPENPGPKEY", "CSYNC", "SVCB", "HTTPS", "TSIG", "IXFR",
              "AXFR", "ANY", "CAA", "ANAME"}
  BY DEF Standard, StandardCode

\* The codes of the pallets' own variants.
IsPrivateCode(c) == 65279 < c /\ c < 65293

\* Their codes have 16 bits and none is among the pallets' own.
LEMMA StandardCodes ==
  ASSUME NEW v \in Standard
  PROVE  /\ StandardCode[v] \in Nat /\ StandardCode[v] < 65536
         /\ ~IsPrivateCode(StandardCode[v])
  <1>1. StandardCode[v] \in
          {0, 1, 2, 5, 6, 10, 12, 13, 15, 16, 24, 25, 28, 33, 35, 41, 43, 44, 46, 47,
           48, 50, 51, 52, 59, 60, 61, 62, 64, 65, 250, 251, 252, 255, 257, 65305}
    BY StandardNames DEF StandardCode
  <1> QED
    BY <1>1 DEF IsPrivateCode

\* No two of them share a code.
LEMMA StandardInjective ==
  ASSUME NEW v \in Standard, NEW w \in Standard, StandardCode[v] = StandardCode[w]
  PROVE  v = w
  BY StandardNames DEF StandardCode

\* The pallets have 13 variants of their own.
LEMMA PrivateDomain == DOMAIN PrivateVariants = 1..13
  BY DEF PrivateVariants

\* All 13 are different.
LEMMA PrivateInjective ==
  ASSUME NEW i \in 1..13, NEW j \in 1..13, PrivateVariants[i] = PrivateVariants[j]
  PROVE  i = j
  BY DEF PrivateVariants

\* A variant is of one kind only, and Unknown is of neither.
LEMMA PrivateApart ==
  /\ Private \cap Standard = {}
  /\ "Unknown" \notin Private
  /\ "Unknown" \notin Standard
  BY StandardNames, PrivateDomain DEF PrivateVariants, Private, Range

\* The code of a type, and the type of a code, as clients use them.
CodeOf(t) == ToCode(ToHickory(t))
TypeOf(code) == FromHickory(OfCode(code))

\* A variant of the pallets' own and its code.
LEMMA PrivateCode ==
  ASSUME NEW i \in 1..13
  PROVE  /\ CodeOf(Type(PrivateVariants[i])) = 65279 + i
         /\ TypeOf(65279 + i) = Type(PrivateVariants[i])
  <1> DEFINE v == PrivateVariants[i]
             c == 65279 + i
  <1>1. v \in Private
    BY PrivateDomain DEF Private, Range
  <1>2. (CHOOSE j \in DOMAIN PrivateVariants : PrivateVariants[j] = v) = i
    BY PrivateDomain, PrivateInjective
  <1>3. Type(v)[1] = v
    BY DEF Type
  <1> HIDE DEF v
  <1>4. ToHickory(Type(v)) = Unknown(FirstPrivate - 1 + i)
    BY <1>1, <1>2, <1>3 DEF ToHickory, Private
  <1>5. FirstPrivate - 1 + i = c
    BY DEF FirstPrivate
  <1>6. Unknown(c)[1] = "Unknown" /\ Unknown(c)[2] = c
    BY DEF Unknown
  <1>7. CodeOf(Type(v)) = c
    BY <1>4, <1>5, <1>6 DEF CodeOf, ToCode
  <1>8. OfCode(c) = Unknown(c)
    <2>1. IsPrivateCode(c)
      BY DEF IsPrivateCode
    <2>2. \A w \in DOMAIN StandardCode : StandardCode[w] # c
      BY <2>1, StandardCodes DEF Standard
    <2>3. c \notin Range(StandardCode)
      BY <2>2 DEF Range
    <2> QED
      BY <2>3 DEF OfCode
  <1>9. TypeOf(c) = Type(v)
    <2>1. c + 1 - FirstPrivate = i
      BY DEF FirstPrivate
    <2> HIDE DEF c
    <2>2. IsPrivate(Unknown(c)) /\ PrivateVariant(Unknown(c)) = v
      BY <1>6, <2>1, PrivateDomain DEF IsPrivate, PrivateVariant, v
    <2> QED
      BY <1>8, <2>2 DEF TypeOf, FromHickory
  <1> QED
    BY <1>7, <1>9 DEF v

\* A variant both enums have and its code.
LEMMA StandardTypeCode ==
  ASSUME NEW v \in Standard
  PROVE  /\ CodeOf(Type(v)) = StandardCode[v]
         /\ TypeOf(StandardCode[v]) = Type(v)
  <1>1. Type(v)[1] = v /\ v \notin Private /\ v # "Unknown"
    BY PrivateApart DEF Type
  <1>2. ToHickory(Type(v)) = Type(v)
    BY <1>1 DEF ToHickory, Private
  <1>3. CodeOf(Type(v)) = StandardCode[v]
    BY <1>1, <1>2 DEF CodeOf, ToCode
  <1>4. (CHOOSE w \in DOMAIN StandardCode : StandardCode[w] = StandardCode[v]) = v
    BY StandardInjective DEF Standard
  <1>5. StandardCode[v] \in Range(StandardCode)
    BY DEF Range, Standard
  <1>6. OfCode(StandardCode[v]) = Type(v)
    BY <1>4, <1>5 DEF OfCode
  <1>7. FromHickory(Type(v)) = Type(v)
    BY <1>1 DEF FromHickory, IsPrivate
  <1> QED
    BY <1>3, <1>6, <1>7 DEF TypeOf

\* The types RecordType::all() lists are the variants of the two kinds.
LEMMA TwoKinds ==
  ASSUME NEW t \in AllTypes
  PROVE  (\E v \in Standard : t = Type(v)) \/ (\E i \in 1..13 : t = Type(PrivateVariants[i]))
  <1>1. PICK v \in Standard \cup Private : t = Type(v)
    BY DEF AllTypes, Standard, Private
  <1>2. CASE v \in Private
    BY <1>1, <1>2, PrivateDomain DEF Private, Range
  <1> QED
    BY <1>1, <1>2

\* Every variant of the enum has a code of 16 bits and comes back from it: no
\* two variants share a code.
THEOREM CodesRoundTrip ==
  \A t \in AllTypes : CodeOf(t) \in Nat /\ CodeOf(t) < 65536 /\ TypeOf(CodeOf(t)) = t
  <1> SUFFICES ASSUME NEW t \in AllTypes
               PROVE  CodeOf(t) \in Nat /\ CodeOf(t) < 65536 /\ TypeOf(CodeOf(t)) = t
    OBVIOUS
  <1>1. ASSUME NEW v \in Standard, t = Type(v)
        PROVE  CodeOf(t) \in Nat /\ CodeOf(t) < 65536 /\ TypeOf(CodeOf(t)) = t
    BY <1>1, StandardTypeCode, StandardCodes
  <1>2. ASSUME NEW i \in 1..13, t = Type(PrivateVariants[i])
        PROVE  CodeOf(t) \in Nat /\ CodeOf(t) < 65536 /\ TypeOf(CodeOf(t)) = t
    <2>1. CodeOf(t) = 65279 + i /\ TypeOf(65279 + i) = t
      BY <1>2, PrivateCode
    <2>2. 65279 + i \in Nat /\ 65279 + i < 65536
      OBVIOUS
    <2> QED
      BY <2>1, <2>2
  <1> QED
    BY <1>1, <1>2, TwoKinds

\* A code comes back from the type it is read as.
LEMMA CodeBack ==
  ASSUME NEW c \in Nat
  PROVE  CodeOf(TypeOf(c)) = c
  <1>1. CASE c \in Range(StandardCode)
    <2>1. PICK v \in Standard : StandardCode[v] = c
      BY <1>1 DEF Range, Standard
    <2> QED
      BY <2>1, StandardTypeCode
  <1>2. CASE IsPrivateCode(c)
    <2>1. PICK i \in 1..13 : c = 65279 + i
      <3>1. c - 65279 \in 1..13 /\ c = 65279 + (c - 65279)
        BY <1>2 DEF IsPrivateCode
      <3> QED
        BY <3>1
    <2> QED
      BY <2>1, PrivateCode
  <1>3. CASE c \notin Range(StandardCode) /\ ~IsPrivateCode(c)
    <2>1. OfCode(c) = Unknown(c) /\ Unknown(c)[1] = "Unknown" /\ Unknown(c)[2] = c
      BY <1>3 DEF OfCode, Unknown
    <2>2. c + 1 - FirstPrivate \notin DOMAIN PrivateVariants
      BY <1>3, PrivateDomain DEF FirstPrivate, IsPrivateCode
    <2>3. TypeOf(c) = Unknown(c)
      BY <2>1, <2>2 DEF TypeOf, FromHickory, IsPrivate
    <2>4. ToHickory(Unknown(c)) = Unknown(c)
      BY <2>1, PrivateApart DEF ToHickory, Private
    <2> QED
      BY <2>1, <2>3, <2>4 DEF CodeOf, ToCode
  <1> QED
    BY <1>1, <1>2, <1>3

\* The anchors are types, and their codes are read as them.
LEMMA AnchorCodes ==
  /\ Type("SS58") \in AllTypes /\ CodeOf(Type("SS58")) = 65280
  /\ Type("ORIGIN") \in AllTypes /\ CodeOf(Type("ORIGIN")) = 65290
  /\ TypeOf(65280) = Type("SS58") /\ TypeOf(65290) = Type("ORIGIN")
  <1>1. PrivateVariants[1] = "SS58" /\ PrivateVariants[11] = "ORIGIN"
    BY DEF PrivateVariants
  <1>2. "SS58" \in Private /\ "ORIGIN" \in Private
    BY <1>1, PrivateDomain DEF Private, Range
  <1>3. /\ CodeOf(Type("SS58")) = 65279 + 1 /\ TypeOf(65279 + 1) = Type("SS58")
        /\ CodeOf(Type("ORIGIN")) = 65279 + 11 /\ TypeOf(65279 + 11) = Type("ORIGIN")
    <2>1. 1 \in 1..13 /\ 11 \in 1..13
      OBVIOUS
    <2> QED
      BY <1>1, <2>1, PrivateCode
  <1>4. 65279 + 1 = 65280 /\ 65279 + 11 = 65290
    OBVIOUS
  <1> QED
    BY <1>2, <1>3, <1>4 DEF AllTypes, Private


-----------------------------------------------------------------------------
(* What is stored.                                                         *)

SS58 == Type("SS58")
ORIGIN == Type("ORIGIN")

\* The records of one node.
Record == [Types -> {Absent, Managed} \cup Contents]

\* The anchors of a record are the chain's, and without either there is nothing.
Anchored(r) ==
  /\ r[SS58] \in {Absent, Managed}
  /\ r[ORIGIN] \in {Absent, Managed}
  /\ r[SS58] = Absent /\ r[ORIGIN] = Absent => r = NoRecords

\* Only a name with an ORIGIN record has an owner who may write.
RecInv ==
  /\ records \in [Nodes -> Record]
  /\ writable \subseteq Names
  /\ \A m \in Nodes : Anchored(records[m])
  /\ \A n \in writable : records[n][ORIGIN] = Managed

\* SS58 and ORIGIN are two types records are stored under.
LEMMA AnchorsAreTypes == SS58 \in Types /\ ORIGIN \in Types /\ SS58 # ORIGIN
  <1>1. SS58 # ORIGIN
    BY DEF SS58, ORIGIN, Type
  <1> QED
    BY <1>1, AnchorCodes DEF SS58, ORIGIN, Types

\* Nothing an owner can write looks like a record of the chain, or like none.
LEMMA AbsentIsNotManaged ==
  Absent # Managed /\ Absent \notin Contents /\ Managed \notin Contents
  BY DnsRecordsAssumption DEF Absent, Managed, Readings

\* The records the chain writes when a name changes hands.
LEMMA ChainRecords ==
  /\ NoRecords \in Record /\ Anchored(NoRecords)
  /\ WithAnchors(NoRecords) \in Record /\ Anchored(WithAnchors(NoRecords))
  /\ WithAnchors(NoRecords)[ORIGIN] = Managed
  /\ [NoRecords EXCEPT ![ORIGIN] = Managed] \in Record
  /\ Anchored([NoRecords EXCEPT ![ORIGIN] = Managed])
  /\ [NoRecords EXCEPT ![ORIGIN] = Managed][ORIGIN] = Managed
  <1>1. NoRecords \in Record /\ \A t \in Types : NoRecords[t] = Absent
    BY DEF NoRecords, Record
  <1> DEFINE w == WithAnchors(NoRecords)
             o == [NoRecords EXCEPT ![ORIGIN] = Managed]
  <1>2. w \in Record /\ w[SS58] = Managed /\ w[ORIGIN] = Managed
    BY <1>1, AnchorsAreTypes DEF WithAnchors, Record, SS58, ORIGIN
  <1>3. o \in Record /\ o[SS58] = Absent /\ o[ORIGIN] = Managed
    BY <1>1, AnchorsAreTypes DEF Record
  <1> HIDE DEF w, o
  <1>4. Anchored(NoRecords)
    BY <1>1, AnchorsAreTypes DEF Anchored
  <1>5. Anchored(w) /\ Anchored(o)
    BY <1>2, <1>3, AbsentIsNotManaged DEF Anchored
  <1> QED
    BY <1>1, <1>2, <1>3, <1>4, <1>5 DEF w, o

\* A name that changes hands keeps the invariant.
LEMMA HandOverKeeps ==
  ASSUME RecInv, NEW n \in Names, NEW r \in Record, Anchored(r), HandOver(n, r),
         \/ r[ORIGIN] = Managed /\ writable' = writable \cup {n}
         \/ writable' = writable \ {n}
  PROVE  RecInv'
  <1>1. \A m \in Nodes : records'[m] =
          IF m = n THEN r ELSE IF m \in Children(n) THEN NoRecords ELSE records[m]
    BY DEF HandOver
  <1>2. records' \in [Nodes -> Record]
    <2>1. \A m \in Nodes : records[m] \in Record
      BY DEF RecInv
    <2> QED
      BY <2>1, ChainRecords DEF HandOver
  <1>3. writable' \subseteq Names
    BY DEF RecInv
  <1>4. \A m \in Nodes : Anchored(records'[m])
    BY <1>1, ChainRecords DEF RecInv
  <1>5. ASSUME NEW m \in writable'
        PROVE  records'[m][ORIGIN] = Managed
    <2>1. m \in Names /\ m \in Nodes /\ m \notin Children(n)
      BY <1>3, DnsRecordsAssumption DEF Nodes, Children
    <2>2. CASE m = n
      BY <1>1, <2>1, <2>2
    <2>3. CASE m # n
      BY <1>1, <2>1, <2>3 DEF RecInv
    <2> QED
      BY <2>2, <2>3
  <1> QED
    BY <1>2, <1>3, <1>4, <1>5 DEF RecInv, Anchored

\* So does a change of the records of one node.
LEMMA OneWritten ==
  ASSUME RecInv, NEW k \in Nodes, NEW r \in Record, Anchored(r),
         records' = [records EXCEPT ![k] = r], UNCHANGED writable,
         k \in writable => r[ORIGIN] = Managed
  PROVE  RecInv'
  <1>1. /\ records' \in [Nodes -> Record]
        /\ \A m \in Nodes : records'[m] = IF m = k THEN r ELSE records[m]
    BY DEF RecInv
  <1>2. \A m \in Nodes : Anchored(records'[m])
    BY <1>1 DEF RecInv
  <1>3. \A m \in writable : records'[m][ORIGIN] = Managed
    BY <1>1 DEF RecInv, Nodes
  <1> QED
    BY <1>1, <1>2, <1>3 DEF RecInv, Anchored

\* accept_offered_name writes the anchors again.
LEMMA GiftKeeps ==
  ASSUME RecInv, NEW n \in Names, GiftAccepted(n)
  PROVE  RecInv'
  <1> DEFINE r == WithAnchors(records[n])
  <1>1. n \in Nodes /\ records[n] \in Record
    BY DEF RecInv, Nodes
  <1>2. records' = [records EXCEPT ![n] = r] /\ UNCHANGED writable
    BY DEF GiftAccepted
  <1>3. r \in Record /\ r[SS58] = Managed /\ r[ORIGIN] = Managed
    BY <1>1, AnchorsAreTypes DEF WithAnchors, Record, SS58, ORIGIN
  <1> HIDE DEF r
  <1>4. Anchored(r)
    BY <1>3, AbsentIsNotManaged DEF Anchored
  <1> QED
    BY <1>1, <1>2, <1>3, <1>4, OneWritten

\* A subname that is accepted gets its SS58 record.
LEMMA AcceptedKeeps ==
  ASSUME RecInv, NEW s \in Subs, Accepted(s)
  PROVE  RecInv'
  <1> DEFINE r == [records[s] EXCEPT ![SS58] = Managed]
  <1>1. s \in Nodes /\ records[s] \in Record /\ s \notin writable
    BY DnsRecordsAssumption DEF RecInv, Nodes
  <1>2. records' = [records EXCEPT ![s] = r] /\ UNCHANGED writable
    BY DEF Accepted, SS58
  <1>3. r \in Record /\ r[SS58] = Managed /\ r[ORIGIN] = records[s][ORIGIN]
    BY <1>1, AnchorsAreTypes DEF Record
  <1>4. records[s][ORIGIN] \in {Absent, Managed}
    BY <1>1 DEF RecInv, Anchored
  <1> HIDE DEF r
  <1>5. Anchored(r)
    BY <1>3, <1>4, AbsentIsNotManaged DEF Anchored
  <1> QED
    BY <1>1, <1>2, <1>3, <1>5, OneWritten

\* set_record leaves the anchors alone, and ORIGIN is there: so the records
\* it writes to are never without an anchor.
LEMMA SetRecordKeeps ==
  ASSUME RecInv, NEW n \in Names, NEW t \in Settable, NEW c \in Contents \cup {Absent},
         SetRecord(n, t, c)
  PROVE  RecInv'
  <1> DEFINE r == [records[n] EXCEPT ![t] = c]
  <1>1. /\ n \in Nodes /\ records[n] \in Record /\ t \in Types
        /\ n \in writable /\ t # SS58 /\ t # ORIGIN
    BY DEF RecInv, Nodes, Types, SetRecord, Protected, SS58, ORIGIN
  <1>2. records' = [records EXCEPT ![n] = r] /\ UNCHANGED writable
    BY DEF SetRecord
  <1>3. r \in Record /\ r[SS58] = records[n][SS58] /\ r[ORIGIN] = records[n][ORIGIN]
    BY <1>1, AnchorsAreTypes DEF Record
  <1>4. records[n][SS58] \in {Absent, Managed} /\ records[n][ORIGIN] = Managed
    BY <1>1 DEF RecInv, Anchored
  <1> HIDE DEF r
  <1>5. Anchored(r)
    BY <1>3, <1>4, AbsentIsNotManaged DEF Anchored
  <1> QED
    BY <1>1, <1>2, <1>3, <1>4, <1>5, OneWritten

\* Nothing is stored at genesis, and every operation keeps the invariant.
LEMMA RecInvariance == RecSpec => []RecInv
  <1>1. RecInit => RecInv
    <2> SUFFICES ASSUME RecInit
                 PROVE  RecInv
      OBVIOUS
    <2>1. records \in [Nodes -> Record] /\ \A m \in Nodes : records[m] = NoRecords
      BY ChainRecords DEF RecInit
    <2> QED
      BY <2>1, ChainRecords DEF RecInit, RecInv
  <1>2. RecInv /\ [RecNext]_recVars => RecInv'
    <2> SUFFICES ASSUME RecInv, [RecNext]_recVars
                 PROVE  RecInv'
      OBVIOUS
    <2>1. CASE UNCHANGED recVars
      BY <2>1 DEF recVars, RecInv, Anchored
    <2>2. ASSUME NEW n \in Names, Given(n) \/ Redeemed(n)
          PROVE  RecInv'
      <3>1. CASE Given(n)
        BY <3>1, ChainRecords, HandOverKeeps DEF Given
      <3>2. CASE Redeemed(n)
        <4>1. /\ HandOver(n, [NoRecords EXCEPT ![ORIGIN] = Managed])
              /\ writable' = writable \cup {n}
          BY <3>2 DEF Redeemed, ORIGIN
        <4> QED
          BY <4>1, ChainRecords, HandOverKeeps
      <3> QED
        BY <2>2, <3>1, <3>2
    <2>3. ASSUME NEW n \in Names, Released(n)
          PROVE  RecInv'
      BY <2>3, ChainRecords, HandOverKeeps DEF Released
    <2>4. ASSUME NEW n \in Names, Lapse(n)
          PROVE  RecInv'
      BY <2>4 DEF Lapse, RecInv, Anchored
    <2>5. ASSUME NEW n \in Names, Renewed(n)
          PROVE  RecInv'
      <3>1. n \in Nodes /\ records[n][ORIGIN] # Absent
        BY <2>5 DEF Renewed, Nodes, ORIGIN
      <3>2. records[n][ORIGIN] = Managed
        BY <3>1 DEF RecInv, Anchored
      <3> QED
        BY <2>5, <3>2 DEF Renewed, RecInv, Anchored
    <2>6. ASSUME NEW s \in Subs, Dropped(s)
          PROVE  RecInv'
      <3>1. s \in Nodes /\ s \notin writable
        BY DnsRecordsAssumption DEF RecInv, Nodes
      <3> QED
        BY <2>6, <3>1, ChainRecords, OneWritten DEF Dropped
    <2> QED
      BY <2>1, <2>2, <2>3, <2>4, <2>5, <2>6, GiftKeeps, AcceptedKeeps, SetRecordKeeps
         DEF RecNext
  <1> QED
    BY <1>1, <1>2, PTL DEF RecSpec

-----------------------------------------------------------------------------
(* What is answered.                                                       *)

\* What a lookup finds: stored records of the anchors and of the types asked for.
LEMMA Looked ==
  ASSUME NEW m, NEW asked, NEW r
  PROVE  r \in LookupRecords(m, asked) <=>
           \E t \in (Anchors \cup (asked \ Blocked)) \cap Types :
             records[m][t] # Absent /\ r = <<t, records[m][t]>>
  BY DEF LookupRecords

\* What comes back over JSON-RPC when these types are asked for.
RpcAsked(q, asked) == {<<CodeOf(x[1]), x[2]>> : x \in LookupByName(q, asked)}

\* A code is cut to 16 bits and read as a type.
LEMMA RpcForm ==
  ASSUME NEW q, NEW c
  PROVE  RpcLookup(q, {c}) = RpcAsked(q, {TypeOf(c % 65536)})
  <1>1. \A codes : RpcLookup(q, codes) = RpcAsked(q, {TypeOf(d % 65536) : d \in codes})
    BY DEF RpcLookup, RpcAsked, CodeOf, TypeOf
  <1>2. {TypeOf(d % 65536) : d \in {c}} = {TypeOf(c % 65536)}
    OBVIOUS
  <1> QED
    BY <1>1, <1>2

\* r comes back from m over JSON-RPC when type a is asked for.
RpcGives(m, a, r) ==
  \E t \in (Anchors \cup ({a} \ Blocked)) \cap Types :
    records[m][t] # Absent /\ r = <<CodeOf(t), records[m][t]>>

\* What comes back are stored records under their codes.
LEMMA AskedGives ==
  ASSUME NEW q, NodeOf[q] \in Nodes, NEW a, NEW r
  PROVE  r \in RpcAsked(q, {a}) <=> RpcGives(NodeOf[q], a, r)
  <1> DEFINE m == NodeOf[q]
             found == LookupRecords(m, {a})
  <1>1. LookupByName(q, {a}) = found
    BY DEF LookupByName
  <1> HIDE DEF m, found
  <1>2. r \in RpcAsked(q, {a}) <=> \E x \in found : r = <<CodeOf(x[1]), x[2]>>
    BY <1>1 DEF RpcAsked
  <1>3. \A x : x \in found <=>
          \E t \in (Anchors \cup ({a} \ Blocked)) \cap Types :
            records[m][t] # Absent /\ x = <<t, records[m][t]>>
    BY Looked DEF found
  <1>4. \A t : <<t, records[m][t]>>[1] = t /\ <<t, records[m][t]>>[2] = records[m][t]
    OBVIOUS
  <1>5. ASSUME NEW x \in found, r = <<CodeOf(x[1]), x[2]>>
        PROVE  RpcGives(m, a, r)
    <2>1. PICK t \in (Anchors \cup ({a} \ Blocked)) \cap Types :
            records[m][t] # Absent /\ x = <<t, records[m][t]>>
      BY <1>3
    <2>2. r = <<CodeOf(t), records[m][t]>>
      BY <1>4, <1>5, <2>1
    <2> QED
      BY <2>1, <2>2 DEF RpcGives
  <1>6. ASSUME RpcGives(m, a, r)
        PROVE  \E x \in found : r = <<CodeOf(x[1]), x[2]>>
    <2>1. PICK t \in (Anchors \cup ({a} \ Blocked)) \cap Types :
            records[m][t] # Absent /\ r = <<CodeOf(t), records[m][t]>>
      BY <1>6 DEF RpcGives
    <2> DEFINE x == <<t, records[m][t]>>
    <2>2. x \in found
      BY <1>3, <2>1
    <2>3. x[1] = t /\ x[2] = records[m][t]
      OBVIOUS
    <2> HIDE DEF x
    <2> QED
      BY <2>1, <2>2, <2>3
  <1>7. r \in RpcAsked(q, {a}) <=> RpcGives(m, a, r)
    BY <1>2, <1>5, <1>6
  <1> QED
    BY <1>7 DEF m

\* What comes back over JSON-RPC for one code.
LEMMA RpcLooked ==
  ASSUME NEW q, NodeOf[q] \in Nodes, NEW c, NEW r
  PROVE  r \in RpcLookup(q, {c}) <=> RpcGives(NodeOf[q], TypeOf(c % 65536), r)
  <1> DEFINE a == TypeOf(c % 65536)
  <1>1. RpcLookup(q, {c}) = RpcAsked(q, {a})
    BY RpcForm
  <1> HIDE DEF a
  <1>2. r \in RpcAsked(q, {a}) <=> RpcGives(NodeOf[q], a, r)
    BY AskedGives
  <1>3. r \in RpcLookup(q, {c}) <=> RpcGives(NodeOf[q], a, r)
    BY <1>1, <1>2
  <1> QED
    BY <1>3 DEF a

\* Without a node there is nothing to find.
LEMMA RpcNothing ==
  ASSUME NEW q, NodeOf[q] \notin Nodes, NEW c
  PROVE  RpcLookup(q, {c}) = {}
  BY DEF RpcLookup, LookupByName

\* The anchors come with every lookup and cannot be asked for.
LEMMA AnchorSet == Anchors = {SS58, ORIGIN} /\ Anchors \subseteq Blocked
  <1>1. Anchors = {SS58, ORIGIN}
    BY DEF Anchors, SS58, ORIGIN
  <1>2. SS58 \in Blocked /\ ORIGIN \in Blocked
    BY DEF Blocked, SS58, ORIGIN
  <1> QED
    BY <1>1, <1>2

\* What clients get under the codes of SS58 and ORIGIN was written by the
\* chain (set_record, pns_lookup).
THEOREM AnchorsAlwaysTheChains == RecSpec => []AnchorsAreTheChains
  <1>1. RecInv => AnchorsAreTheChains
    <2> SUFFICES ASSUME RecInv, NEW q \in QueryNames, NEW c \in QueryCodes,
                        NEW r \in RpcLookup(q, {c}), r[1] \in {65280, 65290}
                 PROVE  r[2] = Managed
      BY DEF AnchorsAreTheChains
    <2> DEFINE m == NodeOf[q]
               k == c % 65536
    <2>1. m \in Nodes
      BY RpcNothing
    <2>2. PICK t \in (Anchors \cup ({TypeOf(k)} \ Blocked)) \cap Types :
            records[m][t] # Absent /\ r = <<CodeOf(t), records[m][t]>>
      BY <2>1, RpcLooked DEF RpcGives
    <2>3. k \in Nat
      <3>1. c \in Nat
        BY DnsRecordsAssumption
      <3> QED
        BY <3>1
    <2> HIDE DEF m, k
    <2>4. r[1] = CodeOf(t) /\ r[2] = records[m][t]
      BY <2>2
    <2>5. t \in {SS58, ORIGIN}
      <3>1. CASE t = TypeOf(k) /\ t \notin Blocked
        <4>1. k \in {65280, 65290}
          BY <2>3, <2>4, <3>1, CodeBack
        <4>2. t \in {SS58, ORIGIN}
          BY <3>1, <4>1, AnchorCodes DEF SS58, ORIGIN
        <4> QED
          BY <4>2
      <3> QED
        BY <2>2, <3>1, AnchorSet
    <2>6. records[m][SS58] \in {Absent, Managed} /\ records[m][ORIGIN] \in {Absent, Managed}
      BY <2>1 DEF RecInv, Anchored
    <2> QED
      BY <2>2, <2>4, <2>5, <2>6
  <1> QED
    BY <1>1, RecInvariance, PTL

\* What is stored under a variant comes back under its code, and nothing else
\* does (pns_lookup, the conversions between the enums and the codes).
THEOREM StoredAlwaysRetrievable == RecSpec => []StoredIsRetrievable
  <1>1. StoredIsRetrievable
    <2> SUFFICES ASSUME NEW q \in QueryNames, NodeOf[q] \in Names,
                        NEW t \in (Settable \cap AllTypes) \ Blocked,
                        records[NodeOf[q]][t] # Absent
                 PROVE  {r \in RpcLookup(q, {CodeOf(t)}) : r[1] = CodeOf(t)} =
                          {<<CodeOf(t), records[NodeOf[q]][t]>>}
      BY DEF StoredIsRetrievable, CodeOf
    <2> DEFINE m == NodeOf[q]
               code == CodeOf(t)
               stored == <<code, records[m][t]>>
    <2>1. m \in Nodes /\ t \in Types /\ t \notin Blocked
      BY DEF Nodes, Types
    <2>2. code \in Nat /\ code < 65536 /\ TypeOf(code) = t
      BY CodesRoundTrip
    <2> HIDE DEF m, code, stored
    <2>3. code % 65536 = code
      BY <2>2
    <2>4. \A r : r \in RpcLookup(q, {code}) <=> RpcGives(m, t, r)
      <3>1. TypeOf(code % 65536) = t
        BY <2>2, <2>3
      <3> QED
        BY <2>1, <3>1, RpcLooked DEF m
    <2>5. stored \in RpcLookup(q, {code}) /\ stored[1] = code
      BY <2>1, <2>4 DEF stored, code, m, RpcGives
    <2>6. ASSUME NEW r \in RpcLookup(q, {code}), r[1] = code
          PROVE  r = stored
      <3>1. PICK u \in (Anchors \cup ({t} \ Blocked)) \cap Types :
              r = <<CodeOf(u), records[m][u]>>
        <4>1. RpcGives(m, t, r)
          BY <2>4
        <4> QED
          BY <4>1 DEF RpcGives
      <3>2. CodeOf(u) = code
        BY <2>6, <3>1
      <3>3. u \in AllTypes
        BY AnchorSet, AnchorCodes DEF SS58, ORIGIN
      <3>4. u = t
        BY <2>2, <3>2, <3>3, CodesRoundTrip
      <3> QED
        BY <3>1, <3>4 DEF stored, code
    <2>7. {r \in RpcLookup(q, {code}) : r[1] = code} = {stored}
      BY <2>5, <2>6
    <2> QED
      BY <2>7 DEF stored, code, m
  <1> QED
    BY <1>1, PTL

\* The authority denies a name in the zone only when its lookup finds nothing.
LEMMA DeniedFindsNothing ==
  ASSUME NEW q, NodeOf[q] \in Nodes, NEW h, AuthorityLookup(q, h).response = "NXDomain"
  PROVE  \E asked : LookupRecords(NodeOf[q], asked) = {}
  <1> DEFINE asked == IF h = Type("ANY") THEN AllTypes ELSE {FromHickory(h)}
             raw == LookupByName(q, asked)
             found == UNION {{<<d, r[1]>> : d \in PnsRecordToDns(r[1], r[2], h)} : r \in raw}
  <1>1. NodeOf[q] \notin {"apex", "outside"}
    BY DnsRecordsAssumption
  <1>2. AuthorityLookup(q, h) = IF h = Type("SOA") THEN Answer("NameExists", {})
                                ELSE IF raw = {} THEN Answer("NXDomain", {})
                                ELSE Found(found)
    BY <1>1, Zenon DEF AuthorityLookup
  <1> HIDE DEF found, asked
  <1>3. Answer("NameExists", {}).response = "NameExists"
    BY DEF Answer
  <1>4. Found(found).response \in {"NameExists", "NoError"}
    BY DEF Found, Answer
  <1>5. raw = {}
    BY <1>2, <1>3, <1>4
  <1> QED
    BY <1>5 DEF LookupByName

\* NXDOMAIN for any type of query means that the name has no record of any
\* type (lookup of BlockChainAuthority, which the negative cache relies on).
THEOREM NxAlwaysMeansNoRecords == RecSpec => []NxMeansNoRecords
  <1>1. RecInv => NxMeansNoRecords
    <2> SUFFICES ASSUME RecInv, NEW q \in QueryNames, NEW code \in QueryCodes,
                        HandleQuery(q, code).response = "NXDomain", NodeOf[q] \in Nodes
                 PROVE  records[NodeOf[q]] = NoRecords
      BY DEF NxMeansNoRecords
    <2> DEFINE m == NodeOf[q]
    <2>1. AuthorityLookup(q, OfCode(code)).response = "NXDomain"
      <3>1. Answer("NotImp", {}).response # "NXDomain"
        BY DEF Answer
      <3> QED
        BY <3>1 DEF HandleQuery
    <2>2. PICK asked : LookupRecords(m, asked) = {}
      BY <2>1, DeniedFindsNothing
    <2>3. records[m][SS58] = Absent /\ records[m][ORIGIN] = Absent
      <3>1. ASSUME NEW a \in {SS58, ORIGIN}
            PROVE  records[m][a] = Absent
        <4>1. a \in (Anchors \cup (asked \ Blocked)) \cap Types
          BY AnchorSet, AnchorsAreTypes
        <4>2. <<a, records[m][a]>> \notin LookupRecords(m, asked)
          BY <2>2
        <4> QED
          BY <4>1, <4>2, Looked
      <3> QED
        BY <3>1
    <2> QED
      BY <2>3 DEF RecInv, Anchored
  <1> QED
    BY <1>1, RecInvariance, PTL

-----------------------------------------------------------------------------
(* Texts.                                                                  *)

\* A sequence is a function on the numbers up to its length.
LEMMA SeqLength ==
  ASSUME NEW S, NEW s \in Seq(S)
  PROVE  Len(s) \in Nat /\ DOMAIN s = 1..Len(s) /\ s \in [1..Len(s) -> S]
  OBVIOUS

\* Sequences with the same items are the same.
LEMMA SeqSame ==
  ASSUME NEW S, NEW s \in Seq(S), NEW u \in Seq(S), Len(s) = Len(u),
         \A i \in 1..Len(s) : s[i] = u[i]
  PROVE  s = u
  <1>1. s = [i \in 1..Len(s) |-> s[i]] /\ u = [i \in 1..Len(s) |-> u[i]]
    BY SeqLength
  <1> QED
    BY <1>1

\* The items of a sequence that one more is appended to.
LEMMA SeqAppended ==
  ASSUME NEW S, NEW s \in Seq(S), NEW e \in S
  PROVE  /\ Append(s, e) \in Seq(S) /\ Len(Append(s, e)) = Len(s) + 1
         /\ Append(s, e)[Len(s) + 1] = e
         /\ \A i \in 1..Len(s) : Append(s, e)[i] = s[i]
  OBVIOUS

\* The items of one sequence followed by another.
LEMMA SeqJoined ==
  ASSUME NEW S, NEW s \in Seq(S), NEW u \in Seq(S)
  PROVE  /\ s \o u \in Seq(S) /\ Len(s \o u) = Len(s) + Len(u)
         /\ \A i \in 1..(Len(s) + Len(u)) :
              (s \o u)[i] = IF i <= Len(s) THEN s[i] ELSE u[i - Len(s)]
  OBVIOUS

\* The items of a part of a sequence.
LEMMA SeqPart ==
  ASSUME NEW S, NEW s \in Seq(S), NEW a \in 1..(Len(s) + 1), NEW b \in 0..Len(s)
  PROVE  /\ SubSeq(s, a, b) \in Seq(S)
         /\ Len(SubSeq(s, a, b)) = IF a <= b THEN b - a + 1 ELSE 0
         /\ \A i \in 1..(b - a + 1) : SubSeq(s, a, b)[i] = s[a + i - 1]
  OBVIOUS

\* Lower case changes characters in place.
LEMMA LowerText ==
  ASSUME NEW t \in Seq(Chars)
  PROVE  /\ DOMAIN t = 1..Len(t)
         /\ Len(t) \in Nat
         /\ DOMAIN Lower(t) = 1..Len(t)
         /\ \A i \in 1..Len(t) : t[i] \in Chars /\ Lower(t)[i] = ToLower[t[i]]
  BY SeqLength DEF Lower

\* Two spellings of one text: the same length, and position by position
\* characters with the same lower case.
LEMMA SameLower ==
  ASSUME NEW t \in Seq(Chars), NEW u \in Seq(Chars)
  PROVE  Lower(t) = Lower(u) <=>
           /\ Len(t) = Len(u)
           /\ \A i \in 1..Len(t) : ToLower[t[i]] = ToLower[u[i]]
  <1>1. ASSUME Lower(t) = Lower(u)
        PROVE  /\ Len(t) = Len(u)
               /\ \A i \in 1..Len(t) : ToLower[t[i]] = ToLower[u[i]]
    <2>1. 1..Len(t) = 1..Len(u)
      BY <1>1, LowerText
    <2>2. Len(t) = Len(u)
      BY <2>1, LowerText
    <2>3. \A i \in 1..Len(t) : ToLower[t[i]] = ToLower[u[i]]
      BY <1>1, <2>2, LowerText
    <2> QED
      BY <2>2, <2>3
  <1>2. ASSUME Len(t) = Len(u),
               \A i \in 1..Len(t) : ToLower[t[i]] = ToLower[u[i]]
        PROVE  Lower(t) = Lower(u)
    <2>1. DOMAIN t = 1..Len(t) /\ DOMAIN u = 1..Len(t)
      BY <1>2, LowerText
    <2> QED
      BY <1>2, <2>1 DEF Lower
  <1> QED
    BY <1>1, <1>2

\* Spellings of a label are labels, and hash to the same.
LEMMA HashSpellings ==
  ASSUME NEW t \in Seq(Chars), NEW u \in Seq(Chars), Lower(t) = Lower(u)
  PROVE  HashLabel(t) = HashLabel(u)
  <1>1. /\ Len(t) = Len(u)
        /\ \A i \in 1..Len(t) : ToLower[t[i]] = ToLower[u[i]]
    BY SameLower
  <1>2. /\ DOMAIN t = 1..Len(t) /\ DOMAIN u = 1..Len(t)
        /\ \A i \in 1..Len(t) : t[i] \in Chars /\ u[i] \in Chars
    BY <1>1, LowerText
  <1>3. \A i \in 1..Len(t) : t[i] \in Alphanumeric <=> u[i] \in Alphanumeric
    BY <1>1, <1>2, LabelsAssumption
  <1>4. ValidateLabel(t) <=> ValidateLabel(u)
    BY <1>1, <1>2, <1>3 DEF ValidateLabel
  <1> QED
    BY <1>4 DEF HashLabel

\* The part of a text between two positions.
LEMMA PartOfText ==
  ASSUME NEW t \in Seq(Chars), NEW a \in 1..(Len(t) + 1), NEW b \in 0..Len(t)
  PROVE  /\ SubSeq(t, a, b) \in Seq(Chars)
         /\ Len(SubSeq(t, a, b)) = IF a <= b THEN b - a + 1 ELSE 0
         /\ \A i \in 1..(b - a + 1) : SubSeq(t, a, b)[i] = t[a + i - 1]
  BY SeqPart

\* The part of a text before the position of a dot.
LEMMA BeforeDot ==
  ASSUME NEW t \in Seq(Chars), NEW d \in 1..Len(t)
  PROVE  /\ SubSeq(t, 1, d - 1) \in Seq(Chars)
         /\ Len(SubSeq(t, 1, d - 1)) = d - 1
         /\ \A i \in 1..(d - 1) : SubSeq(t, 1, d - 1)[i] = t[i]
  <1> DEFINE v == SubSeq(t, 1, d - 1)
  <1>1. Len(t) \in Nat
    BY SeqLength
  <1>2. 1 \in 1..(Len(t) + 1) /\ d - 1 \in 0..Len(t)
    BY <1>1
  <1>3. /\ v \in Seq(Chars)
        /\ Len(v) = IF 1 <= d - 1 THEN (d - 1) - 1 + 1 ELSE 0
        /\ \A i \in 1..((d - 1) - 1 + 1) : v[i] = t[1 + i - 1]
    BY <1>2, PartOfText
  <1> HIDE DEF v
  <1>4. /\ v \in Seq(Chars) /\ Len(v) = d - 1
        /\ \A i \in 1..(d - 1) : v[i] = t[i]
    BY <1>1, <1>3
  <1> QED
    BY <1>4 DEF v

\* The part of a text after the position of a dot.
LEMMA AfterDot ==
  ASSUME NEW t \in Seq(Chars), NEW d \in 1..Len(t)
  PROVE  /\ SubSeq(t, d + 1, Len(t)) \in Seq(Chars)
         /\ Len(SubSeq(t, d + 1, Len(t))) = Len(t) - d
         /\ \A i \in 1..(Len(t) - d) : SubSeq(t, d + 1, Len(t))[i] = t[d + i]
  <1> DEFINE v == SubSeq(t, d + 1, Len(t))
  <1>1. Len(t) \in Nat
    BY SeqLength
  <1>2. d + 1 \in 1..(Len(t) + 1) /\ Len(t) \in 0..Len(t)
    BY <1>1
  <1>3. /\ v \in Seq(Chars)
        /\ Len(v) = IF d + 1 <= Len(t) THEN Len(t) - (d + 1) + 1 ELSE 0
        /\ \A i \in 1..(Len(t) - (d + 1) + 1) : v[i] = t[(d + 1) + i - 1]
    BY <1>2, PartOfText
  <1> HIDE DEF v
  <1>4. /\ v \in Seq(Chars) /\ Len(v) = Len(t) - d
        /\ \A i \in 1..(Len(t) - d) : v[i] = t[d + i]
    BY <1>1, <1>3
  <1> QED
    BY <1>4 DEF v

\* The same part of two spellings: spellings of one text.
LEMMA SpellingsOfPart ==
  ASSUME NEW t \in Seq(Chars), NEW u \in Seq(Chars), Lower(t) = Lower(u),
         NEW a \in 1..(Len(t) + 1), NEW b \in 0..Len(t)
  PROVE  HashLabel(SubSeq(t, a, b)) = HashLabel(SubSeq(u, a, b))
  <1> DEFINE v == SubSeq(t, a, b)
             w == SubSeq(u, a, b)
  <1>1. /\ Len(t) = Len(u) /\ Len(t) \in Nat
        /\ \A i \in 1..Len(t) : ToLower[t[i]] = ToLower[u[i]]
    BY SameLower, SeqLength
  <1>2. /\ v \in Seq(Chars) /\ w \in Seq(Chars)
        /\ Len(v) = (IF a <= b THEN b - a + 1 ELSE 0) /\ Len(w) = Len(v)
        /\ \A i \in 1..(b - a + 1) : v[i] = t[a + i - 1] /\ w[i] = u[a + i - 1]
    BY <1>1, PartOfText
  <1>3. ASSUME NEW i \in 1..Len(v)
        PROVE  ToLower[v[i]] = ToLower[w[i]]
    <2>1. i \in 1..(b - a + 1) /\ a + i - 1 \in 1..Len(t)
      BY <1>1, <1>2
    <2> QED
      BY <1>1, <1>2, <2>1
  <1> HIDE DEF v, w
  <1>4. Lower(v) = Lower(w)
    BY <1>2, <1>3, SameLower
  <1>5. HashLabel(v) = HashLabel(w)
    BY <1>2, <1>4, HashSpellings
  <1> QED
    BY <1>5 DEF v, w

\* Where a text is split.
Split(t) == CHOOSE i \in FirstDot(t) : TRUE

\* The nodes of subnames with a label of S under names with a label of D.
SubNodes(D, S) == {EncodeWithNode(EncodeWithNode(BaseNode, d), s) : d \in D, s \in S}

\* The node of a subname is the pair of the two labels.
LEMMA SubNode ==
  ASSUME NEW d, NEW s
  PROVE  EncodeWithNode(EncodeWithNode(BaseNode, d), s) = <<d, s>>
  <1>1. Append(<<>>, d) = <<d>>
    OBVIOUS
  <1>2. Append(<<d>>, s) = <<d, s>>
    <2> DEFINE T == {d, s}
               p == Append(<<d>>, s)
               q == <<d, s>>
    <2>1. <<d>> \in Seq(T) /\ q \in Seq(T) /\ s \in T
      OBVIOUS
    <2>2. Len(<<d>>) = 1 /\ <<d>>[1] = d
      OBVIOUS
    <2>3. Len(q) = 2 /\ q[1] = d /\ q[2] = s
      OBVIOUS
    <2> HIDE DEF T
    <2>4. p \in Seq(T) /\ Len(p) = 2 /\ p[1] = d /\ p[2] = s
      BY <2>1, <2>2, SeqAppended
    <2> HIDE DEF p, q
    <2>5. \A i \in 1..Len(p) : p[i] = q[i]
      BY <2>3, <2>4
    <2>6. p = q
      BY <2>1, <2>3, <2>4, <2>5, SeqSame
    <2> QED
      BY <2>6 DEF p, q
  <1> QED
    BY <1>1, <1>2 DEF EncodeWithNode, BaseNode

\* The members of SubNodes are the pairs of a label of each set.
LEMMA SubNodesOf ==
  ASSUME NEW D, NEW S, NEW x
  PROVE  x \in SubNodes(D, S) <=> \E d \in D, s \in S : x = <<d, s>>
  <1>1. \A d, s : EncodeWithNode(EncodeWithNode(BaseNode, d), s) = <<d, s>>
    BY SubNode
  <1>2. x \in SubNodes(D, S) <=>
          \E d \in D, s \in S : x = EncodeWithNode(EncodeWithNode(BaseNode, d), s)
    BY DEF SubNodes
  <1> QED
    BY <1>1, <1>2

\* parse_name_to_node, as the proofs use it.
LEMMA ParseForm ==
  ASSUME NEW t
  PROVE  /\ FirstDot(t) = {} =>
              ParseNameToNode(t) = {EncodeWithNode(BaseNode, l) : l \in HashLabel(t)}
         /\ FirstDot(t) # {} =>
              ParseNameToNode(t) =
                SubNodes(HashLabel(SubSeq(t, Split(t) + 1, Len(t))),
                         HashLabel(SubSeq(t, 1, Split(t) - 1)))
  BY DEF ParseNameToNode, Split, SubNodes

\* A text parses to the same as its spellings.
LEMMA ParseSpellings ==
  ASSUME NEW t \in Seq(Chars), NEW u \in Seq(Chars), Lower(t) = Lower(u)
  PROVE  ParseNameToNode(t) = ParseNameToNode(u)
  <1> DEFINE d == Split(t)
  <1>1. /\ Len(t) = Len(u) /\ Len(t) \in Nat
        /\ \A i \in 1..Len(t) : ToLower[t[i]] = ToLower[u[i]]
    BY SameLower, SeqLength
  <1>2. /\ DOMAIN t = 1..Len(t) /\ DOMAIN u = 1..Len(t)
        /\ \A i \in 1..Len(t) : t[i] \in Chars /\ u[i] \in Chars
    BY <1>1, LowerText
  <1>3. \A i \in 1..Len(t) : t[i] = "." <=> u[i] = "."
    BY <1>1, <1>2, LabelsAssumption
  <1>4. FirstDot(t) = FirstDot(u)
    BY <1>2, <1>3 DEF FirstDot
  <1>5. HashLabel(t) = HashLabel(u)
    BY HashSpellings
  <1>6. CASE FirstDot(t) = {}
    BY <1>4, <1>5, <1>6, ParseForm
  <1>7. CASE FirstDot(t) # {}
    <2>1. d \in FirstDot(t) /\ Split(u) = d
      BY <1>4, <1>7 DEF Split
    <2>2. d \in FirstDot(t)
      BY <2>1
    <2>3. d \in 1..Len(t)
      BY <1>2, <2>2 DEF FirstDot
    <2> HIDE DEF d
    <2>4. HashLabel(SubSeq(t, 1, d - 1)) = HashLabel(SubSeq(u, 1, d - 1))
      <3>1. 1 \in 1..(Len(t) + 1) /\ d - 1 \in 0..Len(t)
        BY <1>1, <2>3
      <3> QED
        BY <3>1, SpellingsOfPart
    <2>5. HashLabel(SubSeq(t, d + 1, Len(t))) = HashLabel(SubSeq(u, d + 1, Len(t)))
      <3>1. d + 1 \in 1..(Len(t) + 1) /\ Len(t) \in 0..Len(t)
        BY <1>1, <2>3
      <3> QED
        BY <3>1, SpellingsOfPart
    <2>6. ParseNameToNode(t) = SubNodes(HashLabel(SubSeq(t, d + 1, Len(t))),
                                        HashLabel(SubSeq(t, 1, d - 1)))
      BY <1>7, ParseForm DEF d
    <2>7. ParseNameToNode(u) = SubNodes(HashLabel(SubSeq(u, d + 1, Len(u))),
                                        HashLabel(SubSeq(u, 1, d - 1)))
      BY <1>4, <1>7, <2>1, ParseForm
    <2> QED
      BY <1>1, <2>4, <2>5, <2>6, <2>7
  <1> QED
    BY <1>6, <1>7

\* A node that a text parses to: the lower case of the label, or of the
\* labels on both sides of the first dot.
LEMMA ParsedNode ==
  ASSUME NEW t \in Seq(Chars), NEW x \in ParseNameToNode(t)
  PROVE  \/ x = <<Lower(t)>> /\ ValidateLabel(t)
         \/ \E d \in 1..Len(t) :
              /\ t[d] = "."
              /\ x = <<Lower(SubSeq(t, d + 1, Len(t))), Lower(SubSeq(t, 1, d - 1))>>
  <1> DEFINE d == Split(t)
  <1>1. DOMAIN t = 1..Len(t) /\ Len(t) \in Nat
    BY LowerText
  <1>2. CASE FirstDot(t) = {}
    <2>1. x \in {EncodeWithNode(BaseNode, l) : l \in HashLabel(t)}
      BY <1>2, ParseForm
    <2>2. x = Append(<<>>, Lower(t)) /\ ValidateLabel(t)
      BY <2>1 DEF HashLabel, EncodeWithNode, BaseNode
    <2> QED
      BY <2>2
  <1>3. CASE FirstDot(t) # {}
    <2>1. d \in 1..Len(t) /\ t[d] = "."
      <3>1. d \in FirstDot(t)
        BY <1>3 DEF Split
      <3> QED
        BY <1>1, <3>1 DEF FirstDot
    <2>2. x \in SubNodes(HashLabel(SubSeq(t, d + 1, Len(t))),
                         HashLabel(SubSeq(t, 1, d - 1)))
      BY <1>3, ParseForm
    <2> HIDE DEF d
    <2>3. PICK l \in HashLabel(SubSeq(t, d + 1, Len(t))),
               s \in HashLabel(SubSeq(t, 1, d - 1)) : x = <<l, s>>
      BY <2>2, SubNodesOf
    <2>4. l = Lower(SubSeq(t, d + 1, Len(t))) /\ s = Lower(SubSeq(t, 1, d - 1))
      BY DEF HashLabel
    <2> QED
      BY <2>1, <2>3, <2>4
  <1> QED
    BY <1>2, <1>3

\* Texts that parse to one node are spellings of each other.
LEMMA ParsedAlike ==
  ASSUME NEW t \in Seq(Chars), NEW u \in Seq(Chars), NEW x,
         x \in ParseNameToNode(t), x \in ParseNameToNode(u)
  PROVE  Lower(t) = Lower(u)
  <1>1. CASE x = <<Lower(t)>>
    <2>1. Len(x) = 1 /\ x[1] = Lower(t)
      BY <1>1
    <2>2. \A a, b : x # <<a, b>>
      BY <2>1
    <2>3. x = <<Lower(u)>>
      BY <2>2, ParsedNode
    <2> QED
      BY <2>1, <2>3
  <1>2. ASSUME NEW d \in 1..Len(t), t[d] = ".",
               x = <<Lower(SubSeq(t, d + 1, Len(t))), Lower(SubSeq(t, 1, d - 1))>>
        PROVE  Lower(t) = Lower(u)
    <2>1. Len(x) = 2
      BY <1>2
    <2>2. PICK e \in 1..Len(u) :
            /\ u[e] = "."
            /\ x = <<Lower(SubSeq(u, e + 1, Len(u))), Lower(SubSeq(u, 1, e - 1))>>
      <3>1. x # <<Lower(u)>>
        BY <2>1
      <3> QED
        BY <3>1, ParsedNode
    <2> DEFINE td == SubSeq(t, d + 1, Len(t))
               ts == SubSeq(t, 1, d - 1)
               ud == SubSeq(u, e + 1, Len(u))
               us == SubSeq(u, 1, e - 1)
    <2>3. Lower(td) = Lower(ud) /\ Lower(ts) = Lower(us)
      BY <1>2, <2>2
    <2>4. Len(t) \in Nat /\ Len(u) \in Nat
      BY LowerText
    <2>5. /\ td \in Seq(Chars) /\ Len(td) = Len(t) - d
          /\ \A i \in 1..(Len(t) - d) : td[i] = t[d + i]
      BY AfterDot
    <2>6. /\ ts \in Seq(Chars) /\ Len(ts) = d - 1
          /\ \A i \in 1..(d - 1) : ts[i] = t[i]
      BY BeforeDot
    <2>7. /\ ud \in Seq(Chars) /\ Len(ud) = Len(u) - e
          /\ \A i \in 1..(Len(u) - e) : ud[i] = u[e + i]
      BY AfterDot
    <2>8. /\ us \in Seq(Chars) /\ Len(us) = e - 1
          /\ \A i \in 1..(e - 1) : us[i] = u[i]
      BY BeforeDot
    <2> HIDE DEF td, ts, ud, us
    <2>9. d = e /\ Len(t) = Len(u)
      <3>1. Len(td) = Len(ud) /\ Len(ts) = Len(us)
        BY <2>3, <2>5, <2>6, <2>7, <2>8, SameLower
      <3>2. Len(t) - d = Len(u) - e /\ d - 1 = e - 1
        BY <2>5, <2>6, <2>7, <2>8, <3>1
      <3> QED
        BY <2>4, <3>2
    <2>10. ASSUME NEW i \in 1..Len(t)
           PROVE  ToLower[t[i]] = ToLower[u[i]]
      <3>1. CASE i < d
        <4>1. i \in 1..(d - 1)
          BY <2>4, <3>1
        <4>2. ToLower[ts[i]] = ToLower[us[i]]
          BY <2>3, <2>6, <2>8, <4>1, SameLower
        <4>3. ts[i] = t[i] /\ us[i] = u[i]
          BY <2>6, <2>8, <2>9, <4>1
        <4> QED
          BY <4>2, <4>3
      <3>2. CASE i = d
        BY <1>2, <2>2, <2>9, <3>2
      <3>3. CASE i > d
        <4>1. i - d \in 1..(Len(t) - d) /\ d + (i - d) = i
          BY <2>4, <3>3
        <4>2. ToLower[td[i - d]] = ToLower[ud[i - d]]
          BY <2>3, <2>5, <2>7, <4>1, SameLower
        <4>3. td[i - d] = t[i]
          BY <2>5, <4>1
        <4>4. i - d \in 1..(Len(u) - e) /\ e + (i - d) = i
          BY <2>9, <4>1
        <4>5. ud[i - d] = u[e + (i - d)]
          BY <2>7, <4>4
        <4>6. ud[i - d] = u[i]
          BY <4>4, <4>5
        <4> QED
          BY <4>2, <4>3, <4>6
      <3> QED
        BY <2>4, <3>1, <3>2, <3>3
    <2> QED
      BY <2>9, <2>10, SameLower
  <1> QED
    BY <1>1, <1>2, ParsedNode

\* So a node that one text parses to is found by its spellings alone.
LEMMA NodeOfSpellings ==
  ASSUME NEW t \in Seq(Chars), NEW u \in Seq(Chars), NEW x \in ParseNameToNode(u)
  PROVE  x \in ParseNameToNode(t) <=> Lower(t) = Lower(u)
  BY ParseSpellings, ParsedAlike

\* The text of a subname, two labels with a dot between them, parses to the
\* node of the second with the first under it.
LEMMA SubnameParses ==
  ASSUME NEW t \in Seq(Chars), NEW u \in Seq(Chars),
         ValidateLabel(t), ValidateLabel(u)
  PROVE  /\ t \o <<".">> \o u \in Seq(Chars)
         /\ <<Lower(u), Lower(t)>> \in ParseNameToNode(t \o <<".">> \o u)
  <1> DEFINE v == t \o <<".">>
             w == v \o u
             k == Len(t) + 1
  <1>1. /\ Len(t) \in Nat /\ Len(u) \in Nat
        /\ DOMAIN t = 1..Len(t) /\ DOMAIN u = 1..Len(u)
    BY SeqLength
  <1>2. <<".">> \in Seq(Chars) /\ Len(<<".">>) = 1 /\ <<".">>[1] = "."
    BY LabelsAssumption
  <1>3. /\ v \in Seq(Chars) /\ Len(v) = k
        /\ \A i \in 1..Len(t) : v[i] = t[i]
        /\ v[k] = "."
    <2>1. /\ v \in Seq(Chars) /\ Len(v) = Len(t) + 1
          /\ \A i \in 1..(Len(t) + 1) :
               v[i] = IF i <= Len(t) THEN t[i] ELSE <<".">>[i - Len(t)]
      BY <1>2, SeqJoined
    <2>2. k \in 1..(Len(t) + 1) /\ ~(k <= Len(t)) /\ k - Len(t) = 1
      BY <1>1
    <2>3. v[k] = "."
      BY <1>2, <2>1, <2>2
    <2> QED
      BY <1>1, <2>1, <2>3
  <1> HIDE DEF v
  <1>4. /\ w \in Seq(Chars) /\ Len(w) = k + Len(u)
        /\ \A i \in 1..k : w[i] = v[i]
        /\ \A i \in 1..Len(u) : w[k + i] = u[i]
    <2>1. /\ w \in Seq(Chars) /\ Len(w) = k + Len(u)
          /\ \A i \in 1..(k + Len(u)) : w[i] = IF i <= k THEN v[i] ELSE u[i - k]
      <3>1. /\ w \in Seq(Chars) /\ Len(w) = Len(v) + Len(u)
            /\ \A i \in 1..(Len(v) + Len(u)) :
                 w[i] = IF i <= Len(v) THEN v[i] ELSE u[i - Len(v)]
        BY <1>3, SeqJoined
      <3> HIDE DEF w, k
      <3> QED
        BY <1>3, <3>1
    <2>2. \A i \in 1..k : i \in 1..(k + Len(u)) /\ i <= k
      BY <1>1
    <2>3. \A i \in 1..Len(u) : k + i \in 1..(k + Len(u)) /\ ~(k + i <= k) /\ (k + i) - k = i
      BY <1>1
    <2> HIDE DEF w, k
    <2> QED
      BY <2>1, <2>2, <2>3
  <1> HIDE DEF w
  <1>5. DOMAIN w = 1..(k + Len(u)) /\ k \in 1..(k + Len(u)) /\ k \in Nat
    BY <1>1, <1>4, SeqLength
  <1>6. /\ \A i \in 1..Len(t) : t[i] # "."
        /\ \A i \in 1..Len(u) : u[i] # "."
    BY <1>1, LabelsAssumption DEF ValidateLabel
  <1>7. FirstDot(w) = {k}
    <2>1. w[k] = "."
      BY <1>1, <1>3, <1>4
    <2>2. ASSUME NEW i \in 1..(k + Len(u)), i # k
          PROVE  w[i] # "."
      <3>1. CASE i < k
        BY <1>1, <1>3, <1>4, <1>6, <3>1
      <3>2. CASE i > k
        <4>1. i - k \in 1..Len(u) /\ k + (i - k) = i
          BY <1>1, <3>2
        <4> QED
          BY <1>4, <1>6, <4>1
      <3> QED
        BY <1>1, <2>2, <3>1, <3>2
    <2> QED
      BY <1>5, <2>1, <2>2 DEF FirstDot
  <1>8. Split(w) = k
    BY <1>7 DEF Split
  <1>9. SubSeq(w, 1, k - 1) = t
    <2>1. k \in 1..Len(w) /\ k - 1 = Len(t)
      BY <1>1, <1>4
    <2>2. /\ SubSeq(w, 1, k - 1) \in Seq(Chars)
          /\ Len(SubSeq(w, 1, k - 1)) = Len(t)
          /\ \A i \in 1..Len(t) : SubSeq(w, 1, k - 1)[i] = w[i]
      BY <1>4, <2>1, BeforeDot
    <2>3. \A i \in 1..Len(t) : w[i] = t[i]
      BY <1>1, <1>3, <1>4
    <2> HIDE DEF k
    <2> QED
      BY <2>2, <2>3, SeqSame
  <1>10. SubSeq(w, k + 1, Len(w)) = u
    <2>1. k \in 1..Len(w) /\ Len(w) - k = Len(u)
      BY <1>1, <1>4
    <2>2. /\ SubSeq(w, k + 1, Len(w)) \in Seq(Chars)
          /\ Len(SubSeq(w, k + 1, Len(w))) = Len(u)
          /\ \A i \in 1..Len(u) : SubSeq(w, k + 1, Len(w))[i] = w[k + i]
      BY <1>4, <2>1, AfterDot
    <2> HIDE DEF k
    <2> QED
      BY <1>4, <2>2, SeqSame
  <1>11. HashLabel(t) = {Lower(t)} /\ HashLabel(u) = {Lower(u)}
    BY DEF HashLabel
  <1>12. ParseNameToNode(w) = SubNodes({Lower(u)}, {Lower(t)})
    <2>1. FirstDot(w) # {}
      BY <1>7
    <2> QED
      BY <1>8, <1>9, <1>10, <1>11, <2>1, ParseForm
  <1>13. <<Lower(u), Lower(t)>> \in ParseNameToNode(w)
    BY <1>12, SubNodesOf
  <1> QED
    BY <1>4, <1>13 DEF w, v

\* A label, which has no dot, parses to a name.
LEMMA NameParses ==
  ASSUME NEW t \in Seq(Chars), ValidateLabel(t)
  PROVE  ParseNameToNode(t) = {<<Lower(t)>>}
  <1>1. DOMAIN t = 1..Len(t) /\ \A i \in 1..Len(t) : t[i] # "."
    BY SeqLength, LabelsAssumption DEF ValidateLabel
  <1>2. FirstDot(t) = {}
    BY <1>1 DEF FirstDot
  <1>3. HashLabel(t) = {Lower(t)}
    BY DEF HashLabel
  <1>4. ParseNameToNode(t) = {EncodeWithNode(BaseNode, l) : l \in {Lower(t)}}
    BY <1>2, <1>3, ParseForm
  <1>5. EncodeWithNode(BaseNode, Lower(t)) = <<Lower(t)>>
    BY DEF EncodeWithNode, BaseNode
  <1> QED
    BY <1>4, <1>5

\* What Label::new gives for a text.
LEMMA NewLabel ==
  ASSUME NEW t, NEW l \in LabelNew(t)
  PROVE  /\ ValidateLabel(t) /\ l = Lower(t)
         /\ EncodeWithNode(BaseNode, l) = <<Lower(t)>>
  <1>1. CheckLabel(t) /\ l = Lower(t)
    BY DEF LabelNew
  <1>2. Append(<<>>, l) = <<l>>
    OBVIOUS
  <1> QED
    BY <1>1, <1>2 DEF CheckLabel, ValidateLabel, EncodeWithNode, BaseNode

-----------------------------------------------------------------------------
(* Names held and names reserved.                                          *)

\* Every name that is held was asked for with a text that parses to it, and
\* what the reserved texts parse to is reserved.
LabelsInv ==
  /\ \A h \in held : h.text \in Seq(Chars) /\ h.node \in ParseNameToNode(h.text)
  /\ \A t \in banned : t \in Seq(Chars) /\ ParseNameToNode(t) \subseteq reserved

\* A name that is given keeps the invariant if its text parses to it.
LEMMA HoldKeeps ==
  ASSUME LabelsInv, NEW node, NEW text \in Seq(Chars), Hold(node, text),
         node \in ParseNameToNode(text)
  PROVE  LabelsInv'
  <1> DEFINE new == [node |-> node, text |-> text]
  <1>1. held' = held \cup {new} /\ reserved' = reserved /\ banned' = banned
    BY DEF Hold
  <1>2. new.text = text /\ new.node = node
    OBVIOUS
  <1> HIDE DEF new
  <1> QED
    BY <1>1, <1>2 DEF LabelsInv

\* What is held anew has the node and the text it was given with.
LEMMA HoldAdds ==
  ASSUME NEW node, NEW text, Hold(node, text), NEW h \in held' \ held
  PROVE  h.node = node /\ h.text = text
  <1>1. h = [node |-> node, text |-> text]
    BY DEF Hold
  <1> QED
    BY <1>1

\* A label is its own text: register stores what it parses to.
LEMMA RegisterKeeps ==
  ASSUME LabelsInv, NEW t \in Texts, Register(t)
  PROVE  LabelsInv'
  <1>1. PICK l \in LabelNew(t) : Hold(EncodeWithNode(BaseNode, l), t)
    BY DEF Register
  <1>2. ValidateLabel(t) /\ EncodeWithNode(BaseNode, l) = <<Lower(t)>>
    BY NewLabel
  <1>3. t \in Seq(Chars)
    BY LabelsAssumption
  <1>4. <<Lower(t)>> \in ParseNameToNode(t)
    BY <1>2, <1>3, NameParses
  <1> QED
    BY <1>1, <1>2, <1>3, <1>4, HoldKeeps

\* The text of a canonical name, which has one label, is that label.
LEMMA OfferKeeps ==
  ASSUME LabelsInv, NEW h \in held, NEW t \in Texts, OfferSubdomain(h, t)
  PROVE  LabelsInv'
  <1>1. /\ h.text \in Seq(Chars) /\ h.node \in ParseNameToNode(h.text)
        /\ t \in Seq(Chars)
    BY LabelsAssumption DEF LabelsInv
  <1>2. h.node = <<Lower(h.text)>> /\ ValidateLabel(h.text)
    <2>1. Len(h.node) = 1
      BY DEF OfferSubdomain
    <2>2. \A a, b : h.node # <<a, b>>
      BY <2>1
    <2> QED
      BY <1>1, <2>2, ParsedNode
  <1>3. PICK l \in LabelNew(t) : Hold(EncodeWithNode(h.node, l), t \o <<".">> \o h.text)
    BY DEF OfferSubdomain
  <1>4. ValidateLabel(t) /\ l = Lower(t)
    BY NewLabel
  <1>5. EncodeWithNode(h.node, l) = <<Lower(h.text), Lower(t)>>
    <2>1. EncodeWithNode(BaseNode, Lower(h.text)) = h.node
      BY <1>2 DEF EncodeWithNode, BaseNode
    <2> QED
      BY <1>4, <2>1, SubNode
  <1>6. /\ t \o <<".">> \o h.text \in Seq(Chars)
        /\ <<Lower(h.text), Lower(t)>> \in ParseNameToNode(t \o <<".">> \o h.text)
    BY <1>1, <1>2, <1>4, SubnameParses
  <1> QED
    BY <1>3, <1>5, <1>6, HoldKeeps

\* add_reserved reserves what the text parses to.
LEMMA AddReservedKeeps ==
  ASSUME LabelsInv, NEW t \in Texts, AddReserved(t)
  PROVE  LabelsInv'
  <1>1. PICK l \in LabelNew(t) :
          /\ reserved' = reserved \cup {EncodeWithNode(BaseNode, l)}
          /\ banned' = banned \cup {t}
          /\ UNCHANGED held
    BY DEF AddReserved
  <1>2. ValidateLabel(t) /\ EncodeWithNode(BaseNode, l) = <<Lower(t)>>
    BY NewLabel
  <1>3. t \in Seq(Chars)
    BY LabelsAssumption
  <1>4. ParseNameToNode(t) = {<<Lower(t)>>}
    BY <1>2, <1>3, NameParses
  <1> QED
    BY <1>1, <1>2, <1>3, <1>4 DEF LabelsInv

\* remove_reserved takes out one node.  A reserved text that parses to it is
\* a spelling of the text it was called with, and no longer banned.
LEMMA RemoveReservedKeeps ==
  ASSUME LabelsInv, NEW t \in Texts, RemoveReserved(t)
  PROVE  LabelsInv'
  <1>1. PICK l \in LabelNew(t) :
          /\ reserved' = reserved \ {EncodeWithNode(BaseNode, l)}
          /\ banned' = {u \in banned : Lower(u) # Lower(t)}
          /\ UNCHANGED held
    BY DEF RemoveReserved
  <1>2. ValidateLabel(t) /\ EncodeWithNode(BaseNode, l) = <<Lower(t)>>
    BY NewLabel
  <1>3. t \in Seq(Chars)
    BY LabelsAssumption
  <1>4. <<Lower(t)>> \in ParseNameToNode(t)
    BY <1>2, <1>3, NameParses
  <1>5. ASSUME NEW u \in banned'
        PROVE  u \in Seq(Chars) /\ ParseNameToNode(u) \subseteq reserved'
    <2>1. u \in Seq(Chars) /\ ParseNameToNode(u) \subseteq reserved
      BY <1>1 DEF LabelsInv
    <2>2. <<Lower(t)>> \notin ParseNameToNode(u)
      BY <1>1, <1>3, <1>4, <2>1, NodeOfSpellings
    <2> QED
      BY <1>1, <1>2, <2>1, <2>2
  <1> QED
    BY <1>1, <1>5 DEF LabelsInv

\* Genesis establishes the invariant and every call keeps it.
LEMMA LabelsInvariance == LabelsSpec => []LabelsInv
  <1>1. LabelsInit => LabelsInv
    BY LabelsAssumption DEF LabelsInit, LabelsInv
  <1>2. LabelsInv /\ [LabelsNext]_labelVars => LabelsInv'
    <2> SUFFICES ASSUME LabelsInv, [LabelsNext]_labelVars
                 PROVE  LabelsInv'
      OBVIOUS
    <2>1. CASE UNCHANGED labelVars
      BY <2>1 DEF labelVars, LabelsInv
    <2>2. ASSUME NEW t \in Texts, AddReserved(t) \/ RemoveReserved(t) \/ Register(t)
          PROVE  LabelsInv'
      BY <2>2, AddReservedKeeps, RemoveReservedKeeps, RegisterKeeps
    <2>3. ASSUME NEW h \in held, NEW t \in Texts, OfferSubdomain(h, t)
          PROVE  LabelsInv'
      BY <2>3, OfferKeeps
    <2> QED
      BY <2>1, <2>2, <2>3 DEF LabelsNext
  <1> QED
    BY <1>1, <1>2, PTL DEF LabelsSpec

\* Every name that was registered or offered through Label is found by every
\* spelling of its text, and by no other text (registrar.rs, parse_name_to_node).
THEOREM HeldNamesAlwaysResolve == LabelsSpec => []HeldNamesResolve
  <1>1. LabelsInv => HeldNamesResolve
    <2> SUFFICES ASSUME LabelsInv, NEW h \in held,
                        NEW t \in Texts \cup {g.text : g \in held}
                 PROVE  h.node \in ParseNameToNode(t) <=> Lower(t) = Lower(h.text)
      BY DEF HeldNamesResolve
    <2>1. t \in Seq(Chars)
      BY LabelsAssumption DEF LabelsInv
    <2>2. h.text \in Seq(Chars) /\ h.node \in ParseNameToNode(h.text)
      BY DEF LabelsInv
    <2> QED
      BY <2>1, <2>2, NodeOfSpellings
  <1> QED
    BY <1>1, LabelsInvariance, PTL

\* No spelling of a reserved name is registered until it is unreserved.
THEOREM ReservedAlways == LabelsSpec => ReservedInEverySpelling
  <1> DEFINE Unreserved ==
        \A h \in held' \ held :
          Len(h.node) = 1 => \A t \in banned : Lower(t) # Lower(h.text)
  <1>1. LabelsInv /\ [LabelsNext]_labelVars => [Unreserved]_labelVars
    <2> SUFFICES ASSUME LabelsInv, LabelsNext
                 PROVE  Unreserved
      OBVIOUS
    <2>1. ASSUME NEW t \in Texts, AddReserved(t) \/ RemoveReserved(t)
          PROVE  Unreserved
      BY <2>1 DEF AddReserved, RemoveReserved
    <2>2. ASSUME NEW t \in Texts, Register(t)
          PROVE  Unreserved
      <3>1. PICK l \in LabelNew(t) :
              /\ EncodeWithNode(BaseNode, l) \notin reserved
              /\ Hold(EncodeWithNode(BaseNode, l), t)
        BY <2>2 DEF Register
      <3>2. ValidateLabel(t) /\ EncodeWithNode(BaseNode, l) = <<Lower(t)>>
        BY NewLabel
      <3>3. t \in Seq(Chars)
        BY LabelsAssumption
      <3>4. <<Lower(t)>> \in ParseNameToNode(t)
        BY <3>2, <3>3, NameParses
      <3>5. ASSUME NEW u \in banned
            PROVE  Lower(u) # Lower(t)
        <4>1. u \in Seq(Chars) /\ ParseNameToNode(u) \subseteq reserved
          BY DEF LabelsInv
        <4>2. <<Lower(t)>> \notin ParseNameToNode(u)
          BY <3>1, <3>2, <4>1
        <4> QED
          BY <3>3, <3>4, <4>1, <4>2, NodeOfSpellings
      <3>6. \A h \in held' \ held : h.text = t
        BY <3>1, HoldAdds
      <3> QED
        BY <3>5, <3>6
    <2>3. ASSUME NEW h \in held, NEW t \in Texts, OfferSubdomain(h, t)
          PROVE  Unreserved
      <3>1. PICK l \in LabelNew(t) :
              Hold(EncodeWithNode(h.node, l), t \o <<".">> \o h.text)
        BY <2>3 DEF OfferSubdomain
      <3>2. \A g \in held' \ held : g.node = EncodeWithNode(h.node, l)
        BY <3>1, HoldAdds
      <3>3. Len(EncodeWithNode(h.node, l)) # 1
        <4>1. PICK a : h.node = <<a>>
          <5>1. h.text \in Seq(Chars) /\ h.node \in ParseNameToNode(h.text)
            BY DEF LabelsInv
          <5>2. \A x, y : h.node # <<x, y>>
            BY <2>3 DEF OfferSubdomain
          <5> QED
            BY <5>1, <5>2, ParsedNode
        <4>2. EncodeWithNode(BaseNode, a) = h.node
          BY <4>1 DEF EncodeWithNode, BaseNode
        <4>3. EncodeWithNode(h.node, l) = <<a, l>>
          BY <4>2, SubNode
        <4> QED
          BY <4>3
      <3> QED
        BY <3>2, <3>3
    <2> QED
      BY <2>1, <2>2, <2>3 DEF LabelsNext
  <1> QED
    BY <1>1, LabelsInvariance, PTL DEF LabelsSpec, ReservedInEverySpelling

-----------------------------------------------------------------------------
(* The ledger.                                                             *)

UnusedClasses == \A c \in ClassIds : c >= nextClassId => classOwner[c] = NULL

BaseWithClass == tokens[0][BaseToken] \in {NULL, classOwner[0]}

LedgerInv ==
  /\ LedgerTypeOK
  /\ OwnerIndexExact
  /\ IssuanceExact
  /\ OneOfficial
  /\ UnusedClasses
  /\ BaseWithClass

-----------------------------------------------------------------------------
(* Counting tokens.                                                        *)

\* The tokens of a class are finitely many.
LEMMA IssuedFinite ==
  ASSUME NEW c \in ClassIds
  PROVE  /\ IsFiniteSet(Issued(c))
         /\ Cardinality(Issued(c)) \in Nat
         /\ Cardinality(Issued(c)) = 0 <=> Issued(c) = {}
<1>1. IsFiniteSet(Issued(c))
  BY LedgerAssumption, FS_Subset DEF Issued
<1> QED BY <1>1, FS_CardinalityType, FS_EmptySet

\* Giving an absent token an owner adds one to the count of its class.
LEMMA IssuedMint ==
  ASSUME LedgerTypeOK,
         NEW c \in ClassIds, NEW t \in TokenIds, NEW a \in Accounts,
         tokens[c][t] = NULL,
         tokens' = [tokens EXCEPT ![c][t] = a]
  PROVE  /\ Cardinality(Issued(c)') = Cardinality(Issued(c)) + 1
         /\ \A d \in ClassIds \ {c} : Issued(d)' = Issued(d)
<1>1. Issued(c)' = Issued(c) \cup {t}
  BY LedgerAssumption DEF Issued, LedgerTypeOK, OptAccount
<1>2. t \notin Issued(c)
  BY DEF Issued
<1>3. \A d \in ClassIds \ {c} : Issued(d)' = Issued(d)
  BY DEF Issued, LedgerTypeOK
<1> QED BY <1>1, <1>2, <1>3, IssuedFinite, FS_AddElement

\* Removing a token takes one from the count of its class.
LEMMA IssuedBurn ==
  ASSUME LedgerTypeOK,
         NEW c \in ClassIds, NEW t \in TokenIds,
         tokens[c][t] # NULL,
         tokens' = [tokens EXCEPT ![c][t] = NULL]
  PROVE  /\ Cardinality(Issued(c)') = Cardinality(Issued(c)) - 1
         /\ \A d \in ClassIds \ {c} : Issued(d)' = Issued(d)
<1>1. Issued(c)' = Issued(c) \ {t}
  BY DEF Issued, LedgerTypeOK
<1>2. t \in Issued(c)
  BY DEF Issued
<1>3. \A d \in ClassIds \ {c} : Issued(d)' = Issued(d)
  BY DEF Issued, LedgerTypeOK
<1> QED BY <1>1, <1>2, <1>3, IssuedFinite, FS_RemoveElement

\* Moving a token between accounts leaves every count alone.
LEMMA IssuedTransfer ==
  ASSUME LedgerTypeOK,
         NEW c \in ClassIds, NEW t \in TokenIds,
         NEW from \in Accounts, NEW to \in Accounts,
         NftTransfer(from, to, c, t)
  PROVE  \A d \in ClassIds : Issued(d)' = Issued(d)
BY LedgerAssumption DEF Issued, LedgerTypeOK, OptAccount, NftTransfer

-----------------------------------------------------------------------------
(* Each operation of the pallet preserves the index and the totals.        *)

\* Minting an absent token of an existing class.
LEMMA MintKeeps ==
  ASSUME LedgerTypeOK, OwnerIndexExact, IssuanceExact,
         NEW a \in Accounts, NEW c \in ClassIds, NEW t \in TokenIds,
         tokens[c][t] = NULL,
         Mint(a, c, t)
  PROVE  /\ OwnerIndexExact'
         /\ IssuanceExact'
         /\ totalIssuance' \in [ClassIds -> 0 .. MaxTotal]
         /\ tokens' \in [ClassIds -> [TokenIds -> OptAccount]]
         /\ tokensByOwner' \in SUBSET (Accounts \X ClassIds \X TokenIds)
<1>1. OwnerIndexExact'
  <2> SUFFICES ASSUME NEW b \in Accounts, NEW d \in ClassIds, NEW u \in TokenIds
               PROVE  <<b, d, u>> \in tokensByOwner' <=> tokens'[d][u] = b
    BY DEF OwnerIndexExact
  <2>1. <<b, d, u>> \in tokensByOwner <=> tokens[d][u] = b
    BY DEF OwnerIndexExact
  <2>2. <<b, d, u>> \in tokensByOwner'
          <=> <<b, d, u>> \in tokensByOwner \/ (b = a /\ d = c /\ u = t)
    BY DEF Mint
  <2>3. tokens'[d][u] = IF d = c /\ u = t THEN a ELSE tokens[d][u]
    BY DEF LedgerTypeOK, Mint
  <2> QED BY <2>1, <2>2, <2>3, LedgerAssumption
<1>2. /\ Cardinality(Issued(c)') = Cardinality(Issued(c)) + 1
      /\ \A d \in ClassIds \ {c} : Issued(d)' = Issued(d)
  BY IssuedMint DEF Mint
<1>3. /\ totalIssuance[c] \in Nat
      /\ totalIssuance' = [totalIssuance EXCEPT ![c] = totalIssuance[c] + 1]
      /\ totalIssuance[c] + 1 <= MaxTotal
      /\ totalIssuance \in [ClassIds -> 0 .. MaxTotal]
      /\ classOwner' = classOwner
      /\ classOwner[c] # NULL
  BY LedgerAssumption DEF LedgerTypeOK, Mint
<1>4. IssuanceExact'
  BY <1>2, <1>3 DEF IssuanceExact
<1>5. totalIssuance' \in [ClassIds -> 0 .. MaxTotal]
  BY <1>3, LedgerAssumption
<1>6. /\ tokens' \in [ClassIds -> [TokenIds -> OptAccount]]
      /\ tokensByOwner' \in SUBSET (Accounts \X ClassIds \X TokenIds)
  BY DEF LedgerTypeOK, Mint, OptAccount
<1> QED BY <1>1, <1>4, <1>5, <1>6

\* Transferring a token.
LEMMA TransferKeeps ==
  ASSUME LedgerTypeOK, OwnerIndexExact,
         NEW from \in Accounts, NEW to \in Accounts,
         NEW c \in ClassIds, NEW t \in TokenIds,
         NftTransfer(from, to, c, t)
  PROVE  /\ OwnerIndexExact'
         /\ tokens' \in [ClassIds -> [TokenIds -> OptAccount]]
         /\ tokensByOwner' \in SUBSET (Accounts \X ClassIds \X TokenIds)
         /\ tokens'[c][t] = to
         /\ \A d \in ClassIds, u \in TokenIds :
              <<d, u>> # <<c, t>> => tokens'[d][u] = tokens[d][u]
<1>1. CASE from = to
  BY <1>1 DEF LedgerTypeOK, OwnerIndexExact, NftTransfer
<1>2. CASE from # to
  <2>1. /\ tokens[c][t] = from
        /\ tokens' = [tokens EXCEPT ![c][t] = to]
        /\ tokensByOwner' = (tokensByOwner \ {<<from, c, t>>}) \cup {<<to, c, t>>}
    BY <1>2 DEF NftTransfer
  <2>2. \A d \in ClassIds, u \in TokenIds :
          tokens'[d][u] = IF d = c /\ u = t THEN to ELSE tokens[d][u]
    BY <2>1 DEF LedgerTypeOK
  <2>3. OwnerIndexExact'
    <3> SUFFICES ASSUME NEW b \in Accounts, NEW d \in ClassIds, NEW u \in TokenIds
                 PROVE  <<b, d, u>> \in tokensByOwner' <=> tokens'[d][u] = b
      BY DEF OwnerIndexExact
    <3>1. <<b, d, u>> \in tokensByOwner <=> tokens[d][u] = b
      BY DEF OwnerIndexExact
    <3>2. <<b, d, u>> \in tokensByOwner'
            <=> \/ <<b, d, u>> \in tokensByOwner /\ ~(b = from /\ d = c /\ u = t)
                \/ b = to /\ d = c /\ u = t
      BY <2>1
    <3> QED BY <2>1, <2>2, <3>1, <3>2
  <2>4. tokens' \in [ClassIds -> [TokenIds -> OptAccount]]
    BY <2>1 DEF LedgerTypeOK, OptAccount
  <2>5. tokensByOwner' \in SUBSET (Accounts \X ClassIds \X TokenIds)
    BY <2>1 DEF LedgerTypeOK
  <2> QED BY <2>2, <2>3, <2>4, <2>5
<1> QED BY <1>1, <1>2

\* Burning a token.
LEMMA BurnKeeps ==
  ASSUME LedgerTypeOK, OwnerIndexExact, IssuanceExact,
         NEW a \in Accounts, NEW c \in ClassIds, NEW t \in TokenIds,
         NftBurn(a, c, t)
  PROVE  /\ OwnerIndexExact'
         /\ IssuanceExact'
         /\ totalIssuance' \in [ClassIds -> 0 .. MaxTotal]
         /\ tokens' \in [ClassIds -> [TokenIds -> OptAccount]]
         /\ tokensByOwner' \in SUBSET (Accounts \X ClassIds \X TokenIds)
<1>1. OwnerIndexExact'
  <2> SUFFICES ASSUME NEW b \in Accounts, NEW d \in ClassIds, NEW u \in TokenIds
               PROVE  <<b, d, u>> \in tokensByOwner' <=> tokens'[d][u] = b
    BY DEF OwnerIndexExact
  <2>1. <<b, d, u>> \in tokensByOwner <=> tokens[d][u] = b
    BY DEF OwnerIndexExact
  <2>2. <<b, d, u>> \in tokensByOwner'
          <=> <<b, d, u>> \in tokensByOwner /\ ~(b = a /\ d = c /\ u = t)
    BY DEF NftBurn
  <2>3. tokens'[d][u] = IF d = c /\ u = t THEN NULL ELSE tokens[d][u]
    <3>1. /\ tokens \in [ClassIds -> [TokenIds -> OptAccount]]
          /\ tokens' = [tokens EXCEPT ![c][t] = NULL]
      BY DEF LedgerTypeOK, NftBurn
    <3> QED BY <3>1
  <2>4. tokens[c][t] = a
    BY DEF NftBurn
  <2> QED BY <2>1, <2>2, <2>3, <2>4, LedgerAssumption
<1>2. /\ Cardinality(Issued(c)') = Cardinality(Issued(c)) - 1
      /\ \A d \in ClassIds \ {c} : Issued(d)' = Issued(d)
  BY IssuedBurn, LedgerAssumption DEF NftBurn
<1>3. /\ totalIssuance[c] \in 0 .. MaxTotal
      /\ totalIssuance' = [totalIssuance EXCEPT ![c] = totalIssuance[c] - 1]
      /\ totalIssuance[c] >= 1
      /\ totalIssuance \in [ClassIds -> 0 .. MaxTotal]
      /\ classOwner' = classOwner
      /\ classOwner[c] # NULL
  BY LedgerAssumption DEF LedgerTypeOK, NftBurn
<1>4. IssuanceExact'
  BY <1>2, <1>3 DEF IssuanceExact
<1>5. totalIssuance' \in [ClassIds -> 0 .. MaxTotal]
  BY <1>3, LedgerAssumption
<1>6. /\ tokens' \in [ClassIds -> [TokenIds -> OptAccount]]
      /\ tokensByOwner' \in SUBSET (Accounts \X ClassIds \X TokenIds)
  BY DEF LedgerTypeOK, NftBurn, OptAccount
<1> QED BY <1>1, <1>4, <1>5, <1>6

-----------------------------------------------------------------------------
(* The inductive invariant.                                                *)

\* The empty ledger genesis starts from satisfies the invariant.
LEMMA LedgerInitInv == LedgerInit => LedgerInv
<1> SUFFICES ASSUME LedgerInit PROVE LedgerInv
  OBVIOUS
<1>0. 0 \in ClassIds /\ 0 \in 0 .. MaxTotal
  BY LedgerAssumption DEF ClassIds
<1>1. LedgerTypeOK
  BY <1>0 DEF LedgerInit, LedgerTypeOK, OptAccount
<1>2. OwnerIndexExact /\ OneOfficial /\ UnusedClasses
  BY LedgerAssumption
     DEF LedgerInit, OwnerIndexExact, OneOfficial, UnusedClasses
<1>3. \A c \in ClassIds : Issued(c) = {}
  BY DEF LedgerInit, Issued
<1>4. IssuanceExact
  BY <1>3, FS_EmptySet DEF LedgerInit, IssuanceExact
<1>5. BaseWithClass
  BY LedgerAssumption DEF LedgerInit, BaseWithClass, ClassIds
<1> QED BY <1>1, <1>2, <1>4, <1>5 DEF LedgerInv

\* Every step of genesis and of the registry preserves the invariant.
LEMMA LedgerStepInv == LedgerInv /\ [LedgerNext]_ledgerVars => LedgerInv'
<1> SUFFICES ASSUME LedgerInv, [LedgerNext]_ledgerVars PROVE LedgerInv'
  OBVIOUS
<1> USE DEF LedgerInv
<1>0. 0 \in ClassIds /\ BaseToken \in TokenIds
  BY LedgerAssumption DEF ClassIds
<1>1. ASSUME NEW a \in Accounts, GenesisClass(a) PROVE LedgerInv'
  <2>1. /\ nextClassId \in ClassIds
        /\ nextClassId + 1 \in ClassIds
        /\ nextClassId' = nextClassId + 1
        /\ classOwner' = [classOwner EXCEPT ![nextClassId] = a]
        /\ totalIssuance' = [totalIssuance EXCEPT ![nextClassId] = 0]
        /\ UNCHANGED <<running, official, tokens, tokensByOwner>>
        /\ ~running
    BY <1>1, LedgerAssumption
       DEF GenesisClass, CreateClass, LedgerTypeOK, ClassIds
  <2>2. LedgerTypeOK'
    BY <2>1, LedgerAssumption DEF LedgerTypeOK, OptAccount
  <2>3. OwnerIndexExact' /\ OneOfficial'
    BY <2>1 DEF OwnerIndexExact, OneOfficial
  <2>4. classOwner[nextClassId] = NULL /\ Issued(nextClassId) = {}
    BY <2>1, LedgerAssumption DEF UnusedClasses, IssuanceExact, ClassIds
  <2>5. \A c \in ClassIds : Issued(c)' = Issued(c)
    BY <2>1 DEF Issued
  <2>6. IssuanceExact'
    BY <2>1, <2>4, <2>5, LedgerAssumption, FS_EmptySet
       DEF IssuanceExact, LedgerTypeOK
  <2>7. UnusedClasses'
    BY <2>1 DEF UnusedClasses, LedgerTypeOK, ClassIds
  <2>8. BaseWithClass'
    BY <1>0, <2>1, <2>4 DEF BaseWithClass, LedgerTypeOK, Issued
  <2> QED BY <2>2, <2>3, <2>6, <2>7, <2>8
<1>2. ASSUME NEW a \in Accounts, NEW c \in ClassIds, NEW t \in TokenIds,
             GenesisMint(a, c, t)
      PROVE  LedgerInv'
  <2>1. /\ tokens[c][t] = NULL
        /\ Mint(a, c, t)
        /\ c = 0 => t = BaseToken /\ a = classOwner[0]
        /\ UNCHANGED <<running, official>>
        /\ ~running
    BY <1>2 DEF GenesisMint
  <2>2. /\ OwnerIndexExact'
        /\ IssuanceExact'
        /\ LedgerTypeOK'
    BY <2>1, MintKeeps DEF LedgerTypeOK, Mint
  <2>3. OneOfficial' /\ UnusedClasses'
    BY <2>1 DEF OneOfficial, UnusedClasses, Mint
  <2>4. BaseWithClass'
    BY <1>0, <2>1 DEF BaseWithClass, LedgerTypeOK, Mint
  <2> QED BY <2>2, <2>3, <2>4
<1>3. CASE FinishGenesis
  <2>1. LedgerTypeOK'
    BY <1>0, <1>3 DEF FinishGenesis, LedgerTypeOK
  <2>2. OwnerIndexExact' /\ UnusedClasses' /\ BaseWithClass'
    BY <1>3 DEF FinishGenesis, OwnerIndexExact, UnusedClasses, BaseWithClass
  <2>3. IssuanceExact'
    BY <1>3 DEF FinishGenesis, IssuanceExact, Issued
  <2>4. OneOfficial'
    BY <1>3 DEF FinishGenesis, OneOfficial, BaseWithClass
  <2> QED BY <2>1, <2>2, <2>3, <2>4
<1>4. ASSUME NEW to \in Accounts, NEW t \in TokenIds \ {BaseToken},
             NEW from \in Accounts,
             NftTransfer(from, to, 0, t),
             UNCHANGED <<running, official, classOwner>>
      PROVE  LedgerInv'
  <2>0. /\ OwnerIndexExact'
        /\ tokens' \in [ClassIds -> [TokenIds -> OptAccount]]
        /\ tokensByOwner' \in SUBSET (Accounts \X ClassIds \X TokenIds)
        /\ \A d \in ClassIds, u \in TokenIds :
             <<d, u>> # <<0, t>> => tokens'[d][u] = tokens[d][u]
    BY <1>0, <1>4, TransferKeeps
  <2>t. UNCHANGED <<nextClassId, totalIssuance, running, official, classOwner>>
    BY <1>4 DEF NftTransfer
  <2>1. /\ OwnerIndexExact'
        /\ LedgerTypeOK'
        /\ tokens'[0][BaseToken] = tokens[0][BaseToken]
    <3>1. LedgerTypeOK'
      BY <2>0, <2>t DEF LedgerTypeOK
    <3>2. <<0, BaseToken>> # <<0, t>>
      OBVIOUS
    <3> QED BY <1>0, <2>0, <3>1, <3>2
  <2>2. IssuanceExact'
    BY <1>0, <1>4, IssuedTransfer DEF IssuanceExact, NftTransfer
  <2>3. OneOfficial' /\ UnusedClasses' /\ BaseWithClass'
    BY <1>4, <2>1
       DEF OneOfficial, UnusedClasses, BaseWithClass, NftTransfer
  <2> QED BY <2>1, <2>2, <2>3
<1>5. ASSUME NEW to \in Accounts, NEW t \in TokenIds, RegistryMint(to, t)
      PROVE  LedgerInv'
  <2>1. t # BaseToken
    BY <1>5 DEF RegistryMint
  <2>2. CASE tokens[0][t] = NULL
    <3>1. Mint(to, 0, t) /\ UNCHANGED <<running, official>>
      BY <1>5, <2>2 DEF RegistryMint
    <3>2. OwnerIndexExact' /\ IssuanceExact' /\ LedgerTypeOK'
      BY <1>0, <2>2, <3>1, MintKeeps DEF LedgerTypeOK, Mint
    <3>3. tokens'[0][BaseToken] = tokens[0][BaseToken]
      BY <1>0, <2>1, <3>1 DEF LedgerTypeOK, Mint
    <3>4. OneOfficial' /\ UnusedClasses' /\ BaseWithClass'
      BY <3>1, <3>3 DEF OneOfficial, UnusedClasses, BaseWithClass, Mint
    <3> QED BY <3>2, <3>4
  <2>3. CASE tokens[0][t] # NULL
    BY <1>0, <1>4, <1>5, <2>1, <2>3
       DEF RegistryMint, LedgerTypeOK, OptAccount
  <2> QED BY <2>2, <2>3
<1>6. ASSUME NEW from \in Accounts, NEW to \in Accounts, NEW t \in TokenIds,
             RegistryTransfer(from, to, t)
      PROVE  LedgerInv'
  BY <1>4, <1>6 DEF RegistryTransfer
<1>7. ASSUME NEW a \in Accounts, NEW t \in TokenIds, RegistryBurn(a, t)
      PROVE  LedgerInv'
  <2>1. NftBurn(a, 0, t) /\ t # BaseToken /\ UNCHANGED <<running, official>>
    BY <1>7 DEF RegistryBurn
  <2>2. OwnerIndexExact' /\ IssuanceExact' /\ LedgerTypeOK'
    BY <1>0, <2>1, BurnKeeps DEF LedgerTypeOK, NftBurn
  <2>3. tokens'[0][BaseToken] = tokens[0][BaseToken]
    BY <1>0, <2>1 DEF LedgerTypeOK, NftBurn
  <2>4. OneOfficial' /\ UnusedClasses' /\ BaseWithClass'
    BY <2>1, <2>3 DEF OneOfficial, UnusedClasses, BaseWithClass, NftBurn
  <2> QED BY <2>2, <2>4
<1>8. ASSUME NEW a \in Accounts, RegistrySetOfficial(a) PROVE LedgerInv'
  <2>1. /\ running /\ running' = running
        /\ official \in Accounts
        /\ official' = a
        /\ NftTransfer(official, a, 0, BaseToken)
        /\ classOwner[0] = official
        /\ classOwner' = [classOwner EXCEPT ![0] = a]
    BY <1>0, <1>8, LedgerAssumption
       DEF RegistrySetOfficial, OneOfficial, LedgerTypeOK, OptAccount
  <2>2. /\ OwnerIndexExact'
        /\ tokens' \in [ClassIds -> [TokenIds -> OptAccount]]
        /\ tokensByOwner' \in SUBSET (Accounts \X ClassIds \X TokenIds)
        /\ tokens'[0][BaseToken] = a
    BY <1>0, <2>1, TransferKeeps
  <2>3. classOwner' \in [ClassIds -> OptAccount]
        /\ classOwner'[0] = a
        /\ \A c \in ClassIds : classOwner'[c] = NULL <=> classOwner[c] = NULL
    BY <1>0, <2>1, LedgerAssumption DEF LedgerTypeOK, OptAccount
  <2>4. LedgerTypeOK'
    BY <2>1, <2>2, <2>3 DEF LedgerTypeOK, OptAccount, NftTransfer
  <2>5. IssuanceExact'
    <3>1. \A c \in ClassIds : Issued(c)' = Issued(c)
      BY <1>0, <2>1, IssuedTransfer
    <3>2. totalIssuance' = totalIssuance
      BY <2>1 DEF NftTransfer
    <3> QED BY <2>3, <3>1, <3>2 DEF IssuanceExact
  <2>6. OneOfficial' /\ BaseWithClass'
    BY <2>1, <2>2, <2>3, LedgerAssumption DEF OneOfficial, BaseWithClass
  <2>7. UnusedClasses'
    BY <2>1, <2>3 DEF UnusedClasses, NftTransfer
  <2> QED BY <2>2, <2>4, <2>5, <2>6, <2>7
<1>9. CASE UNCHANGED ledgerVars
  <2>1. LedgerTypeOK' /\ OwnerIndexExact'
    BY <1>9 DEF ledgerVars, LedgerTypeOK, OwnerIndexExact
  <2>2. IssuanceExact'
    BY <1>9 DEF ledgerVars, IssuanceExact, Issued
  <2>3. OneOfficial' /\ UnusedClasses' /\ BaseWithClass'
    BY <1>9 DEF ledgerVars, OneOfficial, UnusedClasses, BaseWithClass
  <2> QED BY <2>1, <2>2, <2>3
<1> QED
  BY <1>1, <1>2, <1>3, <1>5, <1>6, <1>7, <1>8, <1>9 DEF LedgerNext

\* TokensByOwner always agrees with Tokens, whatever the registry does.
THEOREM OwnerIndexAlways == LedgerSpec => []OwnerIndexExact
<1>1. LedgerInv => OwnerIndexExact
  BY DEF LedgerInv
<1> QED BY LedgerInitInv, LedgerStepInv, <1>1, PTL DEF LedgerSpec

\* total_issuance always is the number of tokens, and the class of a token
\* always exists, so burning a token never fails.
THEOREM IssuanceAlways == LedgerSpec => []IssuanceExact
<1>1. LedgerInv => IssuanceExact
  BY DEF LedgerInv
<1> QED BY LedgerInitInv, LedgerStepInv, <1>1, PTL DEF LedgerSpec

\* The official account always owns class 0 and the base token.
THEOREM OfficialAlways == LedgerSpec => []OneOfficial
<1>1. LedgerInv => OneOfficial
  BY DEF LedgerInv
<1> QED BY LedgerInitInv, LedgerStepInv, <1>1, PTL DEF LedgerSpec

=============================================================================
