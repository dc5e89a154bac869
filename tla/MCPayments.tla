------------------------------ MODULE MCPayments -------------------------------
(* Finite instances of PnsPayments. *)
EXTENDS PnsPayments, TLC

CONSTANTS root, u1, u2, n1, n2, s1

\* A subname under the first name.
MCParent == s1 :> n1

\* u1 can pay for anything once or twice, u2 begins with nothing and the
\* third account can just afford the dearer name.
MCFree == root :> 2 @@ u1 :> 4 @@ u2 :> 0

\* Two tiers; the label of n2 is longer than the table.
MCLabelLen == n1 :> 1 @@ n2 :> 4
MCGenesisPrices == <<2, 1>>
MCPriceLists == {<<2, 1>>, <<1, 1>>}
MCRentLists == {<<1>>}

=============================================================================
