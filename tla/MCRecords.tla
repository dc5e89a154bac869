------------------------------- MODULE MCRecords -------------------------------
(* Finite instances of DnsAuthority. *)
EXTENDS DnsAuthority, TLC

CONSTANTS n1, s1

MCParent == s1 :> n1

\* Every arm of pns_record_to_dns, a blocked type, and three Unknown types:
\* one nobody knows and two with the code of a variant.
MCSettable ==
  {Type(v) : v \in {"A", "AAAA", "TXT", "CAA", "RPC", "VALIDATOR", "SS58", "ORIGIN"}}
    \cup {Unknown(65400), Unknown(65290), Unknown(1)}

\* An address, the text of one (which is a name, too), and bytes that are neither.
MCContents == {{"v4 bytes"}, {"v6 bytes"}, {"v4", "name"}, {}}

MCQueryCodes ==
  {1, 6, 16, 28, 255, 257, 65280, 65281, 65282, 65290, 65400, 65537}

MCNodeOf == [q \in QueryNames |->
  CASE q = "alice.dot." -> n1
    [] q = "sub.alice.dot." -> s1
    [] q = "dot." -> "apex"
    [] q = "alice.com." -> "outside"
    [] q = "a.sub.alice.dot." -> "unparsed"]

=============================================================================
