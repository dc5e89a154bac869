------------------------------- MODULE MCAuction -------------------------------
(* Finite instances of NameAuction. *)
EXTENDS NameAuction

CONSTANTS b1, b2, n1, n2

=============================================================================
