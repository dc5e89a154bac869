------------------------------- MODULE MCReaders -------------------------------
(* Finite instances of PnsReaders. *)
EXTENDS PnsReaders, TLC

CONSTANTS root, u1, u2, n1, r1, h1

MCParent == <<>>

=============================================================================
