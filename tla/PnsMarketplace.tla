---------------------------- MODULE PnsMarketplace ----------------------------
(***************************************************************************)
(* The marketplace pallet: listings of canonical names, and buying a       *)
(* listed name for oneself or as a gift.  The transfer of the price and    *)
(* the burning of the protocol fee either both succeed or the call fails;  *)
(* PnsPayments has the balances.                                           *)
(***************************************************************************)
EXTENDS PnsRegistrar

CreateListing(a, expiresAt) ==
  /\ expiresAt > now
  /\ primary[a] # NULL
  /\ listings[primary[a]] = NULL
  /\ listings' = [listings EXCEPT
                    ![primary[a]] = [seller |-> a, expiresAt |-> expiresAt]]
  /\ UNCHANGED <<now, leaseVars, subVars, recordVars, adminVars, primary,
                 offeredNames>>

\* The listing of the caller's canonical name, whoever created it.
CancelListing(a) ==
  /\ primary[a] # NULL
  /\ listings[primary[a]] # NULL
  /\ listings' = [listings EXCEPT ![primary[a]] = NULL]
  /\ UNCHANGED <<now, leaseVars, subVars, recordVars, adminVars, primary,
                 offeredNames>>

\* The checks buy_name makes before money changes hands.
CanBuy(buyer, n) ==
  /\ listings[n] # NULL
  /\ buyer # listings[n].seller
  /\ listings[n].expiresAt > now
  /\ listings[n].seller = owner[n]

\* buy_name without a recipient.  Its own clear_records_except_ss58 and
\* update_ss58 repeat what do_transfer has just done.
BuyName(buyer, n) ==
  /\ CanBuy(buyer, n)
  /\ listings' = [listings EXCEPT ![n] = NULL]
  /\ TransferName(listings[n].seller, buyer, n)
  /\ UNCHANGED <<now, adminVars>>

\* buy_name with a recipient.
BuyNameFor(buyer, recipient, n) ==
  /\ CanBuy(buyer, n)
  /\ listings' = [listings EXCEPT ![n] = NULL]
  /\ recipient # buyer
  /\ recipient # listings[n].seller
  /\ OfferBoughtName(listings[n].seller, recipient, n)
  /\ UNCHANGED <<now, adminVars>>

=============================================================================
