--------------------------------- MODULE MCPns ---------------------------------
(* Finite instances of Pns. *)
EXTENDS PnsViews, TLC

CONSTANTS root, u1, u2, u3, n1, n2, s1, s2

\* Two subnames under the first name only.
MCParent == s1 :> n1 @@ s2 :> n1

\* A subname under the first name only.
MCParentOne == s1 :> n1

\* Genesis is told apart from the others; nothing tells the others apart.
UserSymmetry == Permutations(Accounts \ {Genesis})

=============================================================================
