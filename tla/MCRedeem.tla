-------------------------------- MODULE MCRedeem --------------------------------
(* Finite instances of PnsRedeem. *)
EXTENDS PnsRedeem, TLC

CONSTANTS root, u1, u2, n1, n2, s1

MCParent == s1 :> n1

\* Two ranges that share a nonce, and one that is empty.
MCMintRanges == {<<1, 2>>, <<2, 2>>}
MCGenesisRedeems == <<0, 1>>

\* A code for n1 that lasts longer than a lease may, one for any name, one
\* that lasts no time and one that another account than the official signed.
MCCodes == {[name |-> n1, duration |-> 9, nonce |-> 0, signer |-> root]}
MCAnyCodes == {[duration |-> 1, nonce |-> 1, signer |-> root],
               [duration |-> 0, nonce |-> 2, signer |-> root],
               [duration |-> 1, nonce |-> 2, signer |-> u1]}
MCLabelLength == n1 :> 11 @@ n2 :> 8

=============================================================================
