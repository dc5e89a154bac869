------------------------------- MODULE MCLabels --------------------------------
(* Finite instances of PnsLabels. *)
EXTENDS PnsLabels, TLC

CONSTANT TextLen  \* length of the longest text

\* "-" stands for every character or byte that a label may not have.
MCToLower == "a" :> "a" @@ "A" :> "a" @@ "b" :> "b" @@ "-" :> "-" @@ "." :> "."

MCTexts == UNION {[1..n -> DOMAIN MCToLower] : n \in 0..TextLen}

\* Nothing, a spelling of a name, a subname and something illegal.
MCGenesisNames == {{}, {<<"A">>}, {<<"a", "A">>, <<"b", ".", "A">>, <<"-">>}}

=============================================================================
