----------------------------- MODULE PnsProperties -----------------------------
(***************************************************************************)
(* What the name system promises, over the composition in Pns.             *)
(***************************************************************************)
EXTENDS Pns

-----------------------------------------------------------------------------
(* Agreement between the storage items of different pallets.               *)

\* The NFT ledger (nft), the lease (registrar) and the trace to the base node
\* (registry) are written by three pallets; a name has all three or none,
\* and a name without them has no subnames, records or texts left either.
LeaseConsistent ==
  \A n \in Names :
    /\ owner[n] # NULL <=> expire[n] # NULL
    /\ owner[n] # NULL <=> origin[n] = "Root"
    /\ owner[n] = NULL =>
         /\ subNames[n] = {}
         /\ children[n] = 0
         /\ dns[n] = NULL
         /\ texts[n] = NULL

\* SubNames lists exactly the subnames that have a SubnameRecord, under the
\* parent the record names, so clear_subnames and revoke never miss one and
\* never leave an orphan.
SubtreeConsistent ==
  \A s \in Subs :
    /\ \A n \in Names : s \in subNames[n] <=> HasRecord(s) /\ n = Parent[s]
    /\ HasRecord(s) => subnameRecords[s].parent = Parent[s]

\* The children counter in the token, which offer_subname compares with the
\* capacity, is the number of subnames, through every order of offers,
\* revocations, releases and wholesale clearing.  sub_children never fails.
ChildrenExact ==
  \A n \in Names :
    /\ children[n] = Cardinality(subNames[n])
    /\ children[n] <= Capacity

\* The two per-account indexes say the same as the records: an offer is in
\* OfferedToAccount of its target while it is Offered, a subname is in
\* AccountToSubnames of its target while it is Active, and nowhere else.
IndexExact ==
  \A a \in Accounts, s \in Subs :
    /\ s \in offeredToAccount[a] <=> IsTarget(a, s) /\ InState(s, "Offered")
    /\ s \in accountToSubnames[a] <=> IsTarget(a, s) /\ InState(s, "Active")

-----------------------------------------------------------------------------
(* One name per account.                                                   *)

\* A gift its owner has not accepted.
Pending(n) == offeredNames[n] # NULL /\ offeredNames[n] = owner[n]

\* The names an account holds: leases still owned, gifts aside, and subnames.
HeldNames(a) == {n \in Names : owner[n] = a /\ StillValid(n) /\ ~Pending(n)}
HeldSubs(a) == {s \in Subs : IsTarget(a, s) /\ InState(s, "Active")}

\* An account that owns a name in its lease or grace period, with no gift
\* to accept, finds it in OwnerToPrimaryName: renew, transfer and release
\* reach every name.
OwnerIndexed ==
  \A n \in Names :
    owner[n] # NULL /\ StillValid(n) /\ ~Pending(n) => primary[owner[n]] = n

\* However names are registered, transferred, sold, given and accepted, no
\* account ever holds two names, two subnames, or a name and a subname.
OneNamePerAccount ==
  \A a \in Accounts : \A m, n \in HeldNames(a) \cup HeldSubs(a) : m = n

-----------------------------------------------------------------------------
(* What a name resolves to.                                                *)

\* A subname resolves to the account that accepted it, for as long as it is
\* Active; offers, rejections and dropped subnames resolve to nobody.
SubnamesResolveToHolder ==
  \A s \in Subs :
    ss58[s] = IF InState(s, "Active") THEN subnameRecords[s].target ELSE NULL

\* No record written by an earlier owner survives a change of owner, so
\* nobody receives a name that still points at its last owner's services.
RecordsWrittenByOwner == \A n \in Names : dns[n] \in {NULL, owner[n]}

-----------------------------------------------------------------------------
(* What a step may do.                                                     *)

\* Whenever a name leaves its owner, whichever call does it, the step that
\* moves the token also empties the subtree, resets the counter, drops the
\* records and repoints SS58: no subname of the old owner is ever live under
\* the new one.
CleanHandover ==
  [][\A n \in Names :
       owner'[n] # owner[n] =>
         /\ subNames'[n] = {}
         /\ children'[n] = 0
         /\ dns'[n] = NULL
         /\ ss58'[n] = owner'[n]
         /\ \A s \in Subs : Parent[s] = n => subnameRecords'[s] = NULL]_vars

\* A name stops resolving to its owner in one way only: the account a gift of
\* it was bought for accepts after the token has gone to somebody else, and
\* becomes what the name resolves to.  No order of registrations, take-overs,
\* transfers, sales and burns does it without such a gift.
DivertedByOldGiftOnly ==
  [][\A n \in Names :
       ss58[n] = owner[n] /\ ss58'[n] # owner'[n] =>
         /\ offeredNames[n] \notin {NULL, owner[n]}
         /\ AcceptOfferedName(offeredNames[n], n)
         /\ ss58'[n] = offeredNames[n]]_vars

-----------------------------------------------------------------------------
(* The lease contract.                                                     *)

Lease ==
  INSTANCE NameLease
    WITH Holders <- Accounts, FirstTerms <- {Duration}, Term <- Duration,
         clock <- now, holder <- owner, until <- expire

\* The steps in which account a parts with name n: calls that a signs, and the
\* sale of a listing of which a is the seller.
PartsWith(a, n) ==
  \/ Burn(a, n)
  \/ primary[a] = n /\ ReleaseName(a)
  \/ primary[a] = n /\ \E to \in Accounts : Transfer(a, to)
  \/ \E to \in Accounts, m \in Names : RegisterRejectingName(a, to, m, n)
  \/ /\ listings[n] # NULL /\ listings[n].seller = a
     /\ \E buyer \in Accounts \ {a} :
          \/ BuyName(buyer, n)
          \/ \E recipient \in GiftRecipients : BuyNameFor(buyer, recipient, n)

\* Until a lease has lapsed it ends or changes hands by its holder's doing.
\* Anything else can only leave the name with its holder for longer.
HolderDecides ==
  \A n \in Names :
    /\ owner[n] # NULL /\ ~Registrable(n)
    /\ owner'[n] # owner[n] \/ expire'[n] # expire[n]
    => \/ PartsWith(owner[n], n)
       \/ owner'[n] = owner[n] /\ expire[n] <= expire'[n]

\* The pallets together implement the lease contract: a name moves, ends or
\* is extended only when NameLease allows, and until the lease has lapsed only
\* its holder can part with it, whatever stale entries of OwnerToPrimaryName,
\* OfferedNames and Listings other accounts call with.
LeaseContract == Lease!LeaseSpec /\ [][HolderDecides]_vars

-----------------------------------------------------------------------------
(* What documents and comments say and the code does not keep.             *)

\* "The SS58 record is protected - only the name owner can set it, and it
\* cannot be overwritten by anyone else": a name in its lease or grace period
\* resolves to its owner.  An account whose gift was burned or lapsed before
\* it accepted can accept when somebody else has registered the name.
NamesResolveToOwner ==
  \A n \in Names : StillValid(n) => ss58[n] = owner[n]

\* "Expired canonical name - remove the stale entry so the owner can register
\* anew" (register): an account whose canonical name has lapsed, and which
\* holds no subname, passes the one-name test.  The lapsed name itself is
\* still in AccountToSubnames, so the next check refuses.
LapsedOwnerMayRegister ==
  \A a \in Accounts :
    primary[a] # NULL /\ ~StillValid(primary[a]) /\ HeldSubs(a) = {}
      => MayTakeName(a)

=============================================================================
