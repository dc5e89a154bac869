----------------------------- MODULE PnsRegistrar -----------------------------
(***************************************************************************)
(* The registrar pallet: leases on names, the canonical name of an account *)
(* and the calls users make.  A call that returns an error changes         *)
(* nothing, so each action is the call's successful path and its guards    *)
(* are the checks on that path.  Paying the fee may fail, which is the     *)
(* action not being taken; PnsPayments has the balances.                   *)
(***************************************************************************)
EXTENDS PnsRegistry

AddReserved(n) ==
  /\ reserved' = reserved \cup {n}
  /\ UNCHANGED <<now, leaseVars, subVars, recordVars, official, baseOwner,
                 primary, offeredNames, listings>>

RemoveReserved(n) ==
  /\ reserved' = reserved \ {n}
  /\ UNCHANGED <<now, leaseVars, subVars, recordVars, official, baseOwner,
                 primary, offeredNames, listings>>

-----------------------------------------------------------------------------
(* register, for `to`, after its reject_offer step has burned the gifted   *)
(* names in B and revoked the subname offers in R.                         *)

\* The one-name test, which runs after the reject_offer step.
MayTakeNameAfter(to, B) ==
  /\ ~(primary[to] # NULL /\ primary[to] \notin B /\ StillValid(primary[to]))
  /\ HeldWithout(SubtreeOf(B))[to] \subseteq {g \in B : owner[g] = to}

\* OwnerToPrimaryName: the previous owner loses n if it is their canonical
\* name, and n becomes the canonical name of `to`.
PrimaryAfterMint(to, n, B) ==
  [a \in Accounts |->
     IF a = to THEN n
     ELSE IF ~IsFresh(n, B) /\ a = owner[n] /\ primary[a] = n THEN NULL
     ELSE primary[a]]

RegisterAfter(to, n, B, R) ==
  /\ n \notin reserved
  /\ MayTakeNameAfter(to, B)
  /\ MintSubname(to, n, B, R)
  /\ expire' = [m \in Names |->
                  IF m = n THEN now + Duration
                  ELSE IF m \in B THEN NULL ELSE expire[m]]
  /\ primary' = PrimaryAfterMint(to, n, B)
  /\ offeredNames' = [m \in Names |-> IF m \in B THEN NULL ELSE offeredNames[m]]
  /\ UNCHANGED <<now, adminVars, listings>>

\* register with no reject_offer.  The caller only pays.
Register(to, n) == RegisterAfter(to, n, {}, {})

\* register, rejecting the gifted name g: its token is burned first.
RegisterRejectingName(caller, to, n, g) ==
  /\ offeredNames[g] = caller
  /\ CanBurn(caller, g)
  /\ RegisterAfter(to, n, {g}, {})

\* register, rejecting the subname offer s: the offer is revoked first.
RegisterRejectingSubname(caller, to, n, s) ==
  /\ CanRevokePendingOffer(s, caller)
  /\ RegisterAfter(to, n, {}, {s})

\* renew extends the lease of the caller's canonical name.
Renew(a) ==
  /\ primary[a] # NULL
  /\ StillValid(primary[a])
  /\ expire' = [expire EXCEPT ![primary[a]] = now + Duration]
  /\ UNCHANGED <<now, owner, origin, children, subVars, recordVars, adminVars,
                 primary, offeredNames, listings>>

\* transfer hands over the caller's canonical name.
Transfer(who, to) ==
  /\ primary[who] # NULL
  /\ MayTakeName(to)
  /\ DoTransfer(who, to, primary[who])
  /\ primary' = [primary EXCEPT ![who] = NULL, ![to] = primary[who]]
  /\ UNCHANGED <<now, adminVars, offeredNames, listings>>

\* release_name burns the caller's canonical name.
ReleaseName(a) ==
  /\ primary[a] # NULL
  /\ DoBurn(a, primary[a])
  /\ primary' = [primary EXCEPT ![a] = NULL]
  /\ UNCHANGED <<now, adminVars, offeredNames, listings>>

-----------------------------------------------------------------------------
(* Subdomains.  The parent is the caller's canonical name.                 *)

OfferSubdomain(a, s, target) ==
  /\ primary[a] = Parent[s]
  /\ Useable(Parent[s])
  /\ OfferSubname(Parent[s], s, target, Capacity)
  /\ UNCHANGED <<now, owner, expire, origin, recordVars, adminVars, primary,
                 offeredNames, listings>>

AcceptSubdomain(a, s) ==
  /\ Useable(Parent[s])
  /\ AcceptSubnameOffer(s, a)
  /\ ss58' = Ss58After({}, s, a)
  /\ UNCHANGED <<now, owner, expire, origin, dns, texts, adminVars, primary,
                 offeredNames, listings>>

RejectSubdomain(a, s) ==
  /\ RejectSubnameOffer(s, a)
  /\ UNCHANGED <<now, owner, expire, origin, recordVars, adminVars, primary,
                 offeredNames, listings>>

RevokeSubdomain(a, s) ==
  /\ primary[a] = Parent[s]
  /\ RevokeSubname(Parent[s], s)
  /\ UNCHANGED <<now, owner, expire, origin, dns, texts, adminVars, primary,
                 offeredNames, listings>>

ReleaseSubdomain(a, s) ==
  /\ ReleaseSubname(s, a)
  /\ UNCHANGED <<now, owner, expire, origin, dns, texts, adminVars, primary,
                 offeredNames, listings>>

-----------------------------------------------------------------------------
(* Names bought on the marketplace.                                        *)

\* accept_offered_name does not look at the token: the offer alone decides.
AcceptOfferedName(a, n) ==
  /\ offeredNames[n] = a
  /\ Useable(n)
  /\ MayTakeName(a)
  /\ offeredNames' = [offeredNames EXCEPT ![n] = NULL]
  /\ primary' = [primary EXCEPT ![a] = n]
  /\ ss58' = Ss58After({}, n, a)
  /\ UNCHANGED <<now, leaseVars, subVars, dns, texts, adminVars, listings>>

\* The seller's entry goes if n is still their canonical name.
PrimaryWithout(from, n) ==
  [primary EXCEPT ![from] = IF @ = n THEN NULL ELSE @]

\* transfer_name
TransferName(from, to, n) ==
  /\ MayTakeName(to)
  /\ DoTransfer(from, to, n)
  /\ primary' = [PrimaryWithout(from, n) EXCEPT ![to] = n]
  /\ UNCHANGED offeredNames

\* offer_bought_name: the token moves at once, the canonical name only when
\* the recipient accepts.
OfferBoughtName(seller, recipient, n) ==
  /\ offeredNames[n] = NULL
  /\ MayTakeName(recipient)
  /\ DoTransfer(seller, recipient, n)
  /\ primary' = PrimaryWithout(seller, n)
  /\ offeredNames' = [offeredNames EXCEPT ![n] = recipient]

=============================================================================
