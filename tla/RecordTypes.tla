------------------------------ MODULE RecordTypes ------------------------------
(***************************************************************************)
(* Record types: the pallets' enum, the DNS library's enum, and the codes  *)
(* on the wire.  A type is a pair in both enums: <<"A", 0>> for the        *)
(* variant A, <<"Unknown", x>> for Unknown(x).                             *)
(***************************************************************************)
EXTENDS Naturals, Sequences, Functions

Type(v) == <<v, 0>>
Unknown(x) == <<"Unknown", x>>

\* The variants both enums have, with the codes of the DNS library.
StandardCode ==
  [ZERO |-> 0, A |-> 1, NS |-> 2, CNAME |-> 5, SOA |-> 6, NULL |-> 10,
   PTR |-> 12, HINFO |-> 13, MX |-> 15, TXT |-> 16, SIG |-> 24, KEY |-> 25,
   AAAA |-> 28, SRV |-> 33, NAPTR |-> 35, OPT |-> 41, DS |-> 43, SSHFP |-> 44,
   RRSIG |-> 46, NSEC |-> 47, DNSKEY |-> 48, NSEC3 |-> 50, NSEC3PARAM |-> 51,
   TLSA |-> 52, CDS |-> 59, CDNSKEY |-> 60, OPENPGPKEY |-> 61, CSYNC |-> 62,
   SVCB |-> 64, HTTPS |-> 65, TSIG |-> 250, IXFR |-> 251, AXFR |-> 252,
   ANY |-> 255, CAA |-> 257, ANAME |-> 65305]

\* The pallets' own variants have the private use codes from 65280 on.
PrivateVariants ==
  <<"SS58", "RPC", "VALIDATOR", "PARA", "PROXY", "PUBKEY1", "AVATAR",
    "CONTRACT", "PUBKEY2", "PUBKEY3", "ORIGIN", "IPFS", "CONTENT">>

FirstPrivate == 65280

\* RecordType::all()
AllTypes == {Type(v) : v \in DOMAIN StandardCode \cup Range(PrivateVariants)}

\* Mutant of ToHickory: the private use codes start one too late.
ToHickoryOffByOne(t) ==
  IF t[1] \in Range(PrivateVariants)
    THEN Unknown(FirstPrivate
                   + CHOOSE i \in DOMAIN PrivateVariants : PrivateVariants[i] = t[1])
    ELSE t

\* From<codec_type::RecordType> for RecordType
ToHickory(t) ==
  IF t[1] \in Range(PrivateVariants)
    THEN Unknown(FirstPrivate - 1
                   + CHOOSE i \in DOMAIN PrivateVariants : PrivateVariants[i] = t[1])
    ELSE t

IsPrivate(h) ==
  h[1] = "Unknown" /\ h[2] + 1 - FirstPrivate \in DOMAIN PrivateVariants

PrivateVariant(h) == PrivateVariants[h[2] + 1 - FirstPrivate]

\* Into<codec_type::RecordType> for RecordType, for the types it knows: the
\* code panics on a type only the DNS library has.
FromHickory(h) == IF IsPrivate(h) THEN Type(PrivateVariant(h)) ELSE h

\* The DNS library's conversions from and to a code.
OfCode(code) ==
  IF code \in Range(StandardCode)
    THEN Type(CHOOSE v \in DOMAIN StandardCode : StandardCode[v] = code)
    ELSE Unknown(code)

ToCode(h) == IF h[1] = "Unknown" THEN h[2] ELSE StandardCode[h[1]]

=============================================================================
