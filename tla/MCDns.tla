--------------------------------- MODULE MCDns ---------------------------------
(* Finite instances of DnsServer. *)
EXTENDS DnsServer

CONSTANTS r1, r2, r3, d1, net1

\* All requests come from one subnet, so that they share its penalty.
MCSource == [r \in Requests |-> net1]

\* The second strike blocks for longer than the first.
MCBackoff == <<1, 2, 2>>

=============================================================================
