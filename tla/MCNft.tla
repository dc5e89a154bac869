--------------------------------- MODULE MCNft ---------------------------------
(* Finite instances of NftLedger. *)
EXTENDS NftLedger, TLC

CONSTANTS a1, a2, a3, base, n1, n2, n3

\* Nothing tells the accounts apart, nor the names below the base node.
NftSymmetry == Permutations(Accounts) \cup Permutations(TokenIds \ {BaseToken})

=============================================================================
