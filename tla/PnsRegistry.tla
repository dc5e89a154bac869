------------------------------ MODULE PnsRegistry ------------------------------
(***************************************************************************)
(* The registry pallet over the NFT ledger: minting, moving and burning a  *)
(* name together with its subtree, and the life of a subname offer.        *)
(*                                                                         *)
(* mint_subname is only called with the base node as parent, so names      *)
(* always trace to Root and the legacy branch for subnames that are tokens *)
(* is unreachable; subnames live in SubnameRecords only.                   *)
(***************************************************************************)
EXTENDS PnsResolvers

-----------------------------------------------------------------------------
(* Dropping a set D of subnames: the record goes, and so does the index    *)
(* entry its state says it has.                                            *)

HasRecord(s) == subnameRecords[s] # NULL
IsTarget(a, s) == HasRecord(s) /\ subnameRecords[s].target = a
InState(s, st) == HasRecord(s) /\ subnameRecords[s].state = st

RecordsWithout(D) ==
  [s \in Subs |-> IF s \in D THEN NULL ELSE subnameRecords[s]]

\* Mutant of OfferedWithout: the pending-offer index is left alone.
OfferedKept(D) == offeredToAccount

OfferedWithout(D) ==
  [a \in Accounts |->
     offeredToAccount[a] \ {s \in D : IsTarget(a, s) /\ ~InState(s, "Active")}]

HeldWithout(D) ==
  [a \in Accounts |->
     accountToSubnames[a] \ {s \in D : IsTarget(a, s) /\ InState(s, "Active")}]

SubtreeOf(C) == UNION {subNames[n] : n \in C}

\* Mutant of ClearSubnames: the SubNames prefix is not cleared.
ClearSubnamesKeepingPrefix(C) ==
  /\ subnameRecords' = RecordsWithout(SubtreeOf(C))
  /\ offeredToAccount' = OfferedWithout(SubtreeOf(C))
  /\ children' = [n \in Names |-> IF n \in C THEN 0 ELSE children[n]]
  /\ UNCHANGED subNames

\* clear_subnames on every name in C, except for AccountToSubnames and the
\* records, which its callers go on to change.
ClearSubnames(C) ==
  /\ subnameRecords' = RecordsWithout(SubtreeOf(C))
  /\ offeredToAccount' = OfferedWithout(SubtreeOf(C))
  /\ subNames' = [n \in Names |-> IF n \in C THEN {} ELSE subNames[n]]
  /\ children' = [n \in Names |-> IF n \in C THEN 0 ELSE children[n]]

\* sub_children: the parent's token must be there, and its counter above zero.
CanSubChildren(n) == owner[n] # NULL /\ children[n] > 0

-----------------------------------------------------------------------------
(* do_burn.  The clean-up does not touch OwnerToPrimaryName, OfferedNames  *)
(* or Listings.                                                            *)

CanBurn(a, n) == owner[n] = a /\ origin[n] # NULL

DoBurn(a, n) ==
  /\ CanBurn(a, n)
  /\ ClearSubnames({n})
  /\ accountToSubnames' = [HeldWithout(subNames[n]) EXCEPT ![a] = @ \ {n}]
  /\ expire' = [expire EXCEPT ![n] = NULL]
  /\ origin' = [origin EXCEPT ![n] = NULL]
  /\ ss58' = Ss58Without({n} \cup subNames[n])
  /\ dns' = DnsWithout({n})
  /\ texts' = TextsWithout({n})
  /\ owner' = [owner EXCEPT ![n] = NULL]

\* The burn extrinsic.
Burn(a, n) ==
  /\ DoBurn(a, n)
  /\ UNCHANGED <<now, adminVars, primary, offeredNames, listings>>

-----------------------------------------------------------------------------
(* do_transfer.  AccountToSubnames keeps the name under the account it was *)
(* minted to; Texts stay with the name.                                    *)

\* Mutant of CanTransfer: any token will do.
CanTransferAny(from, n) == owner[n] # NULL /\ origin[n] = "Root" /\ Renewable(n)

CanTransfer(from, n) == owner[n] = from /\ origin[n] = "Root" /\ Renewable(n)

DoTransfer(from, to, n) ==
  /\ CanTransfer(from, n)
  /\ ClearSubnames({n})
  /\ accountToSubnames' = HeldWithout(subNames[n])
  /\ owner' = [owner EXCEPT ![n] = to]
  /\ ss58' = Ss58After(subNames[n], n, to)
  /\ dns' = DnsWithout({n})
  /\ UNCHANGED <<expire, origin, texts>>

-----------------------------------------------------------------------------
(* mint_subname under the base node, in the call that has already burned   *)
(* the names in B and revoked the subname offers in R (register's          *)
(* reject_offer; both are empty otherwise).  A name with no token is       *)
(* minted; one whose lease has lapsed is taken over and wiped.             *)

IsFresh(n, B) == owner[n] = NULL \/ n \in B

CanMint(to, n, B) ==
  /\ baseOwner = official
  /\ to # baseOwner
  /\ IsFresh(n, B) \/ Registrable(n)

\* Mutant of Wiped: a lapsed name is taken over as it is.
WipedBurnedOnly(n, B) == B

\* The names whose subtree and records go.
Wiped(n, B) == IF IsFresh(n, B) THEN B ELSE B \cup {n}

MintSubname(to, n, B, R) ==
  LET C == Wiped(n, B)
      D == SubtreeOf(C) \cup R
  IN
  /\ CanMint(to, n, B)
  /\ subnameRecords' = RecordsWithout(D)
  /\ offeredToAccount' = OfferedWithout(D)
  /\ subNames' = [m \in Names |-> IF m \in C THEN {} ELSE subNames[m] \ R]
  /\ children' = [m \in Names |->
                    IF m \in B \cup {n} THEN 0
                    ELSE children[m] - Cardinality({s \in R : Parent[s] = m})]
  /\ accountToSubnames' =
       [a \in Accounts |->
          (HeldWithout(D)[a] \ {m \in C : owner[m] = a})
            \cup (IF a = to THEN {n} ELSE {})]
  /\ owner' = [m \in Names |->
                 IF m = n THEN to ELSE IF m \in B THEN NULL ELSE owner[m]]
  /\ origin' = [m \in Names |->
                  IF m = n THEN "Root" ELSE IF m \in B THEN NULL ELSE origin[m]]
  /\ ss58' = Ss58After(C \cup SubtreeOf(C), n, to)
  /\ dns' = DnsWithout(C)
  /\ texts' = TextsWithout(C)

-----------------------------------------------------------------------------
(* Subname offers.                                                         *)

\* Mutant of OfferSubname: one offer more than the capacity.
OfferSubnameOverCapacity(parent, s, to, capacity) ==
  /\ origin[parent] = "Root"
  /\ to # owner[parent]
  /\ ~HasRecord(s)
  /\ owner[parent] # NULL
  /\ children[parent] <= capacity
  /\ children' = [children EXCEPT ![parent] = @ + 1]
  /\ subnameRecords' =
       [subnameRecords EXCEPT
          ![s] = [parent |-> parent, target |-> to, state |-> "Offered"]]
  /\ offeredToAccount' = [offeredToAccount EXCEPT ![to] = @ \cup {s}]
  /\ subNames' = [subNames EXCEPT ![parent] = @ \cup {s}]
  /\ UNCHANGED accountToSubnames

OfferSubname(parent, s, to, capacity) ==
  /\ origin[parent] = "Root"
  /\ to # owner[parent]
  /\ ~HasRecord(s)
  /\ owner[parent] # NULL
  /\ children[parent] < capacity
  /\ children' = [children EXCEPT ![parent] = @ + 1]
  /\ subnameRecords' =
       [subnameRecords EXCEPT
          ![s] = [parent |-> parent, target |-> to, state |-> "Offered"]]
  /\ offeredToAccount' = [offeredToAccount EXCEPT ![to] = @ \cup {s}]
  /\ subNames' = [subNames EXCEPT ![parent] = @ \cup {s}]
  /\ UNCHANGED accountToSubnames

AcceptSubnameOffer(s, a) ==
  /\ MayTakeName(a)
  /\ InState(s, "Offered")
  /\ IsTarget(a, s)
  /\ subnameRecords' = [subnameRecords EXCEPT ![s].state = "Active"]
  /\ offeredToAccount' = [offeredToAccount EXCEPT ![a] = @ \ {s}]
  /\ accountToSubnames' = [accountToSubnames EXCEPT ![a] = @ \cup {s}]
  /\ UNCHANGED <<subNames, children>>

RejectSubnameOffer(s, a) ==
  /\ InState(s, "Offered")
  /\ IsTarget(a, s)
  /\ subnameRecords' = [subnameRecords EXCEPT ![s].state = "Rejected"]
  /\ offeredToAccount' = [offeredToAccount EXCEPT ![a] = @ \ {s}]
  /\ UNCHANGED <<subNames, children, accountToSubnames>>

\* Mutant of DropSubname: the SubNames entry stays.
DropSubnameKeepingChild(parent, s) ==
  /\ CanSubChildren(parent)
  /\ subnameRecords' = RecordsWithout({s})
  /\ offeredToAccount' = OfferedWithout({s})
  /\ accountToSubnames' = HeldWithout({s})
  /\ children' = [children EXCEPT ![parent] = @ - 1]
  /\ UNCHANGED subNames

\* The part revoke_subname and release_subname share.
DropSubname(parent, s) ==
  /\ CanSubChildren(parent)
  /\ subnameRecords' = RecordsWithout({s})
  /\ offeredToAccount' = OfferedWithout({s})
  /\ accountToSubnames' = HeldWithout({s})
  /\ subNames' = [subNames EXCEPT ![parent] = @ \ {s}]
  /\ children' = [children EXCEPT ![parent] = @ - 1]

\* Mutant of RevokeSubname: the record is read, not taken, and the counter is
\* decremented unchecked.
RevokeSubnameTwice(parent, s) ==
  /\ HasRecord(s)
  /\ subnameRecords[s].parent = parent
  /\ offeredToAccount' = OfferedWithout({s})
  /\ accountToSubnames' = HeldWithout({s})
  /\ subNames' = [subNames EXCEPT ![parent] = @ \ {s}]
  /\ children' = [children EXCEPT ![parent] = @ - 1]
  /\ UNCHANGED <<subnameRecords, ss58>>

RevokeSubname(parent, s) ==
  /\ HasRecord(s)
  /\ subnameRecords[s].parent = parent
  /\ DropSubname(parent, s)
  /\ ss58' = IF InState(s, "Active") THEN Ss58Without({s}) ELSE ss58

\* Mutant of ReleaseSubname: the released subname still resolves.
ReleaseSubnameKeepingRecords(s, a) ==
  /\ InState(s, "Active")
  /\ IsTarget(a, s)
  /\ DropSubname(subnameRecords[s].parent, s)
  /\ UNCHANGED ss58

ReleaseSubname(s, a) ==
  /\ InState(s, "Active")
  /\ IsTarget(a, s)
  /\ DropSubname(subnameRecords[s].parent, s)
  /\ ss58' = Ss58Without({s})

\* revoke_pending_offer_for_target, as a guard: MintSubname does the rest.
CanRevokePendingOffer(s, a) ==
  /\ InState(s, "Offered")
  /\ IsTarget(a, s)
  /\ CanSubChildren(subnameRecords[s].parent)

-----------------------------------------------------------------------------

\* set_official moves the base token from the old official account.
SetOfficial(a) ==
  /\ baseOwner = official
  /\ official' = a
  /\ baseOwner' = a
  /\ UNCHANGED <<now, leaseVars, subVars, recordVars, reserved, primary,
                 offeredNames, listings>>

=============================================================================
