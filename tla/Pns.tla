---------------------------------- MODULE Pns ----------------------------------
(***************************************************************************)
(* The name system as the runtime runs it: the calls of the registrar,     *)
(* registry, resolver and marketplace pallets in any order by any account, *)
(* over a clock that only moves forward.  Each call is one extrinsic and   *)
(* therefore one step.                                                     *)
(***************************************************************************)
EXTENDS PnsMarketplace

CONSTANTS
  Officials,       \* accounts set_official may be called with
  Reservable,      \* names add_reserved may be called with
  Described,       \* names whose owners write records and texts
  ListingExpiries, \* expiry times a listing may be given
  GiftRecipients   \* accounts names are bought for

ASSUME InputsAssumption ==
  /\ Officials \subseteq Accounts
  /\ Reservable \subseteq Names
  /\ Described \subseteq Names
  /\ ListingExpiries \subseteq Nat
  /\ GiftRecipients \subseteq Accounts

\* The timestamp inherent.
Tick ==
  /\ now < MaxTime
  /\ now' = now + 1
  /\ UNCHANGED <<leaseVars, subVars, recordVars, adminVars, primary,
                 offeredNames, listings>>

LeaseCall ==
  \/ \E to \in Accounts, n \in Names : Register(to, n)
  \/ \E caller, to \in Accounts, n, g \in Names :
        RegisterRejectingName(caller, to, n, g)
  \/ \E caller, to \in Accounts, n \in Names, s \in Subs :
        RegisterRejectingSubname(caller, to, n, s)
  \/ \E a \in Accounts : Renew(a)
  \/ \E who, to \in Accounts : Transfer(who, to)
  \/ \E a \in Accounts : ReleaseName(a)
  \/ \E a \in Accounts, n \in Names : Burn(a, n)
  \/ \E a \in Accounts, n \in Names : AcceptOfferedName(a, n)

SubdomainCall ==
  \/ \E a, target \in Accounts, s \in Subs : OfferSubdomain(a, s, target)
  \/ \E a \in Accounts, s \in Subs : AcceptSubdomain(a, s)
  \/ \E a \in Accounts, s \in Subs : RejectSubdomain(a, s)
  \/ \E a \in Accounts, s \in Subs : RevokeSubdomain(a, s)
  \/ \E a \in Accounts, s \in Subs : ReleaseSubdomain(a, s)

MarketCall ==
  \/ \E a \in Accounts, t \in ListingExpiries : CreateListing(a, t)
  \/ \E a \in Accounts : CancelListing(a)
  \/ \E buyer \in Accounts, n \in Names : BuyName(buyer, n)
  \/ \E buyer \in Accounts, recipient \in GiftRecipients, n \in Names :
        BuyNameFor(buyer, recipient, n)

RecordCall ==
  \/ \E a \in Accounts, n \in Described : SetRecord(a, n)
  \/ \E a \in Accounts, n \in Described : SetText(a, n)

ManagerCall ==
  \/ \E a \in Officials : SetOfficial(a)
  \/ \E n \in Reservable : AddReserved(n)
  \/ \E n \in Reservable : RemoveReserved(n)

Next ==
  \/ LeaseCall
  \/ SubdomainCall
  \/ MarketCall
  \/ RecordCall
  \/ ManagerCall
  \/ Tick

Spec == Init /\ [][Next]_vars

=============================================================================
