----------------------------- MODULE PnsIndexProofs -----------------------------
(***************************************************************************)
(* Type correctness of Pns, for any accounts, names, durations and bounds, *)
(* and the agreement of the per-account indexes with the subname records.  *)
(*                                                                         *)
(* The children counter is a natural number only because a counter is      *)
(* decremented for the parent whose counter was checked: that the record   *)
(* names the parent the subname is hashed with has to be carried along.    *)
(*                                                                         *)
(* Given well-typed storage, IndexExact is inductive by itself.  Most      *)
(* calls change the three tables in one way only, by dropping a set of     *)
(* subnames, so that case is proved once (DropIndex) and each call is      *)
(* shown to be an instance of it.                                          *)
(***************************************************************************)
EXTENDS PnsProperties, TLAPS, FiniteSetTheorems

RecordParents ==
  \A s \in Subs : HasRecord(s) => subnameRecords[s].parent = Parent[s]

TypeInv == TypeOK /\ RecordParents

\* The genesis state is well typed.
LEMMA InitType == Init => TypeInv
  BY AccountsAssumption, NodesAssumption, NumbersAssumption
     DEF Init, TypeInv, TypeOK, RecordParents, HasRecord, OptAccount, Nodes

\* Dropping subnames keeps the tables well typed and adds no record.
LEMMA DropType ==
  ASSUME TypeOK, NEW D \in SUBSET Subs
  PROVE  /\ RecordsWithout(D) \in [Subs -> SubnameRecord \cup {NULL}]
         /\ OfferedWithout(D) \in [Accounts -> SUBSET Subs]
         /\ HeldWithout(D) \in [Accounts -> SUBSET Nodes]
         /\ \A s \in Subs : RecordsWithout(D)[s] # NULL =>
              RecordsWithout(D)[s] = subnameRecords[s]
  BY DEF TypeOK, RecordsWithout, OfferedWithout, HeldWithout

\* Repointing an SS58 record keeps it well typed.
LEMMA Ss58Type ==
  ASSUME TypeOK, NEW W \in SUBSET Nodes, NEW m \in Nodes, NEW a \in Accounts
  PROVE  Ss58After(W, m, a) \in [Nodes -> OptAccount]
  BY DEF TypeOK, Ss58After, OptAccount

\* Wiping records and texts keeps them well typed.
LEMMA WipeType ==
  ASSUME TypeOK, NEW W \in SUBSET Nodes
  PROVE  /\ Ss58Without(W) \in [Nodes -> OptAccount]
         /\ DnsWithout(W) \in [Names -> OptAccount]
         /\ TextsWithout(W) \in [Names -> OptAccount]
  BY DEF TypeOK, Ss58Without, DnsWithout, TextsWithout, OptAccount

\* A subtree is a set of subnames.
LEMMA SubtreeType ==
  ASSUME TypeOK, NEW C \in SUBSET Names
  PROVE  SubtreeOf(C) \in SUBSET Subs
  BY DEF TypeOK, SubtreeOf

-----------------------------------------------------------------------------
(* The registry operations.                                                *)

\* The tables ClearSubnames writes.
LEMMA ClearSubnamesType ==
  ASSUME TypeInv, NEW C \in SUBSET Names, ClearSubnames(C)
  PROVE  /\ subnameRecords' \in [Subs -> SubnameRecord \cup {NULL}]
         /\ offeredToAccount' \in [Accounts -> SUBSET Subs]
         /\ subNames' \in [Names -> SUBSET Subs]
         /\ children' \in [Names -> Nat]
         /\ RecordParents'
  <1>1. SubtreeOf(C) \in SUBSET Subs
    BY SubtreeType DEF TypeInv
  <1>2. /\ subnameRecords' \in [Subs -> SubnameRecord \cup {NULL}]
        /\ offeredToAccount' \in [Accounts -> SUBSET Subs]
        /\ \A s \in Subs : subnameRecords'[s] # NULL =>
             subnameRecords'[s] = subnameRecords[s]
    BY <1>1, DropType DEF TypeInv, ClearSubnames
  <1>3. RecordParents'
    BY <1>2 DEF TypeInv, RecordParents, HasRecord
  <1> QED
    BY <1>2, <1>3 DEF TypeInv, TypeOK, ClearSubnames

\* What do_burn writes is well typed.
LEMMA DoBurnType ==
  ASSUME TypeInv, NEW a \in Accounts, NEW n \in Names, DoBurn(a, n),
         now' \in Nat, baseOwner' \in Accounts, official' \in Accounts,
         reserved' \in SUBSET Names,
         primary' \in [Accounts -> Names \cup {NULL}],
         offeredNames' \in [Names -> OptAccount],
         listings' \in [Names -> Listing \cup {NULL}]
  PROVE  TypeInv'
  <1>1. /\ subnameRecords' \in [Subs -> SubnameRecord \cup {NULL}]
        /\ offeredToAccount' \in [Accounts -> SUBSET Subs]
        /\ subNames' \in [Names -> SUBSET Subs]
        /\ children' \in [Names -> Nat]
        /\ RecordParents'
    BY ClearSubnamesType DEF DoBurn
  <1>2. subNames[n] \in SUBSET Subs /\ {n} \cup subNames[n] \in SUBSET Nodes
    BY DEF TypeInv, TypeOK, Nodes
  <1>3. accountToSubnames' \in [Accounts -> SUBSET Nodes]
    BY <1>2, DropType DEF TypeInv, DoBurn
  <1>4. /\ ss58' \in [Nodes -> OptAccount]
        /\ dns' \in [Names -> OptAccount]
        /\ texts' \in [Names -> OptAccount]
    <2>1. /\ ss58' = Ss58Without({n} \cup subNames[n])
          /\ dns' = DnsWithout({n})
          /\ texts' = TextsWithout({n})
      BY DEF DoBurn
    <2>2. {n} \cup subNames[n] \in SUBSET Nodes /\ {n} \in SUBSET Nodes
      BY DEF TypeInv, TypeOK, Nodes
    <2> QED
      BY <2>1, <2>2, WipeType DEF TypeInv
  <1>5. /\ owner' \in [Names -> OptAccount]
        /\ origin' \in [Names -> {"Root", NULL}]
        /\ expire' \in [Names -> Nat \cup {NULL}]
    BY DEF TypeInv, TypeOK, DoBurn, OptAccount
  <1> QED
    BY <1>1, <1>3, <1>4, <1>5 DEF TypeInv, TypeOK

\* What do_transfer writes is well typed.
LEMMA DoTransferType ==
  ASSUME TypeInv, NEW from \in Accounts, NEW to \in Accounts, NEW n \in Names,
         DoTransfer(from, to, n),
         now' \in Nat, baseOwner' \in Accounts, official' \in Accounts,
         reserved' \in SUBSET Names,
         primary' \in [Accounts -> Names \cup {NULL}],
         offeredNames' \in [Names -> OptAccount],
         listings' \in [Names -> Listing \cup {NULL}]
  PROVE  TypeInv'
  <1>1. /\ subnameRecords' \in [Subs -> SubnameRecord \cup {NULL}]
        /\ offeredToAccount' \in [Accounts -> SUBSET Subs]
        /\ subNames' \in [Names -> SUBSET Subs]
        /\ children' \in [Names -> Nat]
        /\ RecordParents'
    BY ClearSubnamesType DEF DoTransfer
  <1>2. subNames[n] \in SUBSET Subs /\ subNames[n] \in SUBSET Nodes /\ n \in Nodes
    BY DEF TypeInv, TypeOK, Nodes
  <1>3. accountToSubnames' \in [Accounts -> SUBSET Nodes]
    BY <1>2, DropType DEF TypeInv, DoTransfer
  <1>4. ss58' \in [Nodes -> OptAccount]
    <2>1. ss58' = Ss58After(subNames[n], n, to)
      BY DEF DoTransfer
    <2> QED
      BY <2>1, <1>2, Ss58Type DEF TypeInv
  <1>5. dns' \in [Names -> OptAccount]
    <2>1. dns' = DnsWithout({n}) /\ {n} \in SUBSET Nodes
      BY <1>2 DEF DoTransfer
    <2> QED
      BY <2>1, WipeType DEF TypeInv
  <1>6. /\ owner' \in [Names -> OptAccount]
        /\ origin' \in [Names -> {"Root", NULL}]
        /\ expire' \in [Names -> Nat \cup {NULL}]
        /\ texts' \in [Names -> OptAccount]
    BY DEF TypeInv, TypeOK, DoTransfer, OptAccount
  <1> QED
    BY <1>1, <1>3, <1>4, <1>5, <1>6 DEF TypeInv, TypeOK

\* What revoking the offers in R takes off the counters: one from the counter
\* of the parent that was checked, and nothing from the others.
LEMMA RevokedCount ==
  ASSUME TypeInv, NEW R \in SUBSET Subs, NEW m \in Names,
         R = {} \/ \E s \in Subs, a \in Accounts :
                     R = {s} /\ CanRevokePendingOffer(s, a)
  PROVE  children[m] - Cardinality({s \in R : Parent[s] = m}) \in Nat
  <1>1. children[m] \in Nat
    BY DEF TypeInv, TypeOK
  <1>2. CASE {s \in R : Parent[s] = m} = {}
    BY <1>1, <1>2, FS_EmptySet
  <1>3. CASE {s \in R : Parent[s] = m} # {}
    <2>1. PICK s \in Subs, a \in Accounts : R = {s} /\ CanRevokePendingOffer(s, a)
      BY <1>3
    <2>2. {r \in R : Parent[r] = m} = {s} /\ Parent[s] = m
      BY <1>3, <2>1
    <2>3. Cardinality({r \in R : Parent[r] = m}) = 1
      BY <2>2, FS_Singleton
    <2>4. subnameRecords[s].parent = m
      BY <2>1, <2>2 DEF TypeInv, RecordParents, CanRevokePendingOffer, InState
    <2>5. children[m] > 0
      BY <2>1, <2>4 DEF CanRevokePendingOffer, CanSubChildren
    <2> QED
      BY <1>1, <2>3, <2>5
  <1> QED
    BY <1>2, <1>3

\* What register writes, rejected offers included, is well typed; the counter of
\* the rejected offer's parent was checked to be above zero.
LEMMA RegisterType ==
  ASSUME TypeInv, NEW to \in Accounts, NEW n \in Names,
         NEW B \in SUBSET Names, NEW R \in SUBSET Subs,
         R = {} \/ \E s \in Subs, a \in Accounts :
                     R = {s} /\ CanRevokePendingOffer(s, a),
         RegisterAfter(to, n, B, R)
  PROVE  TypeInv'
  <1> DEFINE C == Wiped(n, B)
             D == SubtreeOf(C) \cup R
  <1>1. MintSubname(to, n, B, R)
    BY DEF RegisterAfter
  <1>2. C \in SUBSET Names /\ C \in SUBSET Nodes /\ n \in Nodes
    BY DEF Wiped, Nodes
  <1>3. /\ D \in SUBSET Subs
        /\ C \cup SubtreeOf(C) \in SUBSET Nodes
    BY <1>2, SubtreeType DEF TypeInv, Nodes
  <1> HIDE DEF C
  <1>4. /\ subnameRecords' = RecordsWithout(D)
        /\ offeredToAccount' = OfferedWithout(D)
        /\ ss58' = Ss58After(C \cup SubtreeOf(C), n, to)
        /\ dns' = DnsWithout(C)
        /\ texts' = TextsWithout(C)
    BY <1>1 DEF MintSubname, C
  <1> HIDE DEF D
  <1>5. /\ subnameRecords' \in [Subs -> SubnameRecord \cup {NULL}]
        /\ offeredToAccount' \in [Accounts -> SUBSET Subs]
        /\ \A s \in Subs : subnameRecords'[s] # NULL =>
             subnameRecords'[s] = subnameRecords[s]
    BY <1>3, <1>4, DropType DEF TypeInv
  <1>6. RecordParents'
    BY <1>5 DEF TypeInv, RecordParents, HasRecord
  <1>7. /\ ss58' \in [Nodes -> OptAccount]
        /\ dns' \in [Names -> OptAccount]
        /\ texts' \in [Names -> OptAccount]
    <2>1. ss58' \in [Nodes -> OptAccount]
      BY <1>2, <1>3, <1>4, Ss58Type, Zenon DEF TypeInv
    <2>2. /\ dns' \in [Names -> OptAccount]
          /\ texts' \in [Names -> OptAccount]
      BY <1>2, <1>4, WipeType, Zenon DEF TypeInv
    <2> QED
      BY <2>1, <2>2
  <1>8. children' \in [Names -> Nat]
    <2>1. children' = [m \in Names |->
                         IF m \in B \cup {n} THEN 0
                         ELSE children[m] - Cardinality({s \in R : Parent[s] = m})]
      BY <1>1 DEF MintSubname
    <2>2. \A m \in Names :
            children[m] - Cardinality({s \in R : Parent[s] = m}) \in Nat
      BY RevokedCount, Zenon
    <2> QED
      BY <2>1, <2>2
  <1>9. subNames' \in [Names -> SUBSET Subs]
    BY <1>1 DEF MintSubname, TypeInv, TypeOK
  <1>10. accountToSubnames' \in [Accounts -> SUBSET Nodes]
    <2>1. HeldWithout(D) \in [Accounts -> SUBSET Nodes]
      BY <1>3, DropType DEF TypeInv
    <2>2. accountToSubnames' =
            [a \in Accounts |->
               (HeldWithout(D)[a] \ {m \in C : owner[m] = a})
                 \cup (IF a = to THEN {n} ELSE {})]
      BY <1>1 DEF MintSubname, C, D
    <2> QED
      BY <1>2, <2>1, <2>2
  <1>11. /\ owner' \in [Names -> OptAccount]
         /\ origin' \in [Names -> {"Root", NULL}]
    BY <1>1 DEF MintSubname, TypeInv, TypeOK, OptAccount
  <1>12. expire' \in [Names -> Nat \cup {NULL}]
    <2>1. now \in Nat /\ expire \in [Names -> Nat \cup {NULL}]
      BY Zenon DEF TypeInv, TypeOK
    <2>2. now + Duration \in Nat
      BY <2>1, NumbersAssumption
    <2>3. expire' = [m \in Names |-> IF m = n THEN now + Duration
                                    ELSE IF m \in B THEN NULL ELSE expire[m]]
      BY Zenon DEF RegisterAfter
    <2> QED
      BY <2>1, <2>2, <2>3
  <1>13. /\ primary' \in [Accounts -> Names \cup {NULL}]
         /\ offeredNames' \in [Names -> OptAccount]
    BY DEF RegisterAfter, PrimaryAfterMint, TypeInv, TypeOK, OptAccount
  <1>14. /\ now' \in Nat /\ baseOwner' \in Accounts /\ official' \in Accounts
         /\ reserved' \in SUBSET Names
         /\ listings' \in [Names -> Listing \cup {NULL}]
    BY DEF RegisterAfter, adminVars, TypeInv, TypeOK
  <1> QED
    BY <1>5, <1>6, <1>7, <1>8, <1>9, <1>10, <1>11, <1>12, <1>13, <1>14
       DEF TypeInv, TypeOK

\* accept and reject change the state of a record and leave its parent alone.
LEMMA StateType ==
  ASSUME TypeOK, RecordParents, NEW s \in Subs, NEW st \in SubnameState,
         subnameRecords[s] # NULL,
         subnameRecords' = [subnameRecords EXCEPT ![s].state = st]
  PROVE  /\ subnameRecords' \in [Subs -> SubnameRecord \cup {NULL}]
         /\ RecordParents'
  <1>1. /\ subnameRecords \in [Subs -> SubnameRecord \cup {NULL}]
        /\ subnameRecords[s] \in SubnameRecord
    BY DEF TypeOK
  <1> DEFINE new == [subnameRecords[s] EXCEPT !.state = st]
  <1>2. new \in SubnameRecord /\ new.parent = subnameRecords[s].parent
    BY <1>1 DEF SubnameRecord
  <1>3. subnameRecords' = [subnameRecords EXCEPT ![s] = new]
    OBVIOUS
  <1> HIDE DEF new
  <1>4. subnameRecords' \in [Subs -> SubnameRecord \cup {NULL}]
    BY <1>1, <1>2, <1>3
  <1>5. RecordParents'
    BY <1>1, <1>2, <1>3 DEF RecordParents, HasRecord
  <1> QED
    BY <1>4, <1>5

\* What revoke_subname and release_subname write is well typed: sub_children has
\* checked the counter it decrements.
LEMMA DropSubnameType ==
  ASSUME TypeInv, NEW parent \in Names, NEW s \in Subs, DropSubname(parent, s)
  PROVE  /\ subnameRecords' \in [Subs -> SubnameRecord \cup {NULL}]
         /\ offeredToAccount' \in [Accounts -> SUBSET Subs]
         /\ accountToSubnames' \in [Accounts -> SUBSET Nodes]
         /\ subNames' \in [Names -> SUBSET Subs]
         /\ children' \in [Names -> Nat]
         /\ RecordParents'
  <1>1. /\ subnameRecords' \in [Subs -> SubnameRecord \cup {NULL}]
        /\ offeredToAccount' \in [Accounts -> SUBSET Subs]
        /\ accountToSubnames' \in [Accounts -> SUBSET Nodes]
        /\ \A r \in Subs : subnameRecords'[r] # NULL =>
             subnameRecords'[r] = subnameRecords[r]
    BY DropType DEF TypeInv, DropSubname
  <1>2. RecordParents'
    BY <1>1 DEF TypeInv, RecordParents, HasRecord
  <1>3. subNames' \in [Names -> SUBSET Subs]
    BY DEF TypeInv, TypeOK, DropSubname
  <1>4. children' \in [Names -> Nat]
    BY DEF TypeInv, TypeOK, DropSubname, CanSubChildren
  <1> QED
    BY <1>1, <1>2, <1>3, <1>4

-----------------------------------------------------------------------------
(* The calls.                                                              *)

\* Registrations, transfers, burns, renewals and accepted gifts keep TypeInv.
LEMMA LeaseCallType == TypeInv /\ LeaseCall => TypeInv'
  <1> SUFFICES ASSUME TypeInv, LeaseCall PROVE TypeInv'
    OBVIOUS
  <1>1. CASE \E to \in Accounts, n \in Names : Register(to, n)
    BY <1>1, RegisterType DEF Register
  <1>2. CASE \E caller, to \in Accounts, n, g \in Names :
               RegisterRejectingName(caller, to, n, g)
    BY <1>2, RegisterType DEF RegisterRejectingName
  <1>3. CASE \E caller, to \in Accounts, n \in Names, s \in Subs :
               RegisterRejectingSubname(caller, to, n, s)
    BY <1>3, RegisterType DEF RegisterRejectingSubname
  <1>4. CASE \E a \in Accounts : Renew(a)
    <2>1. PICK a \in Accounts : Renew(a)
      BY <1>4
    <2>2. expire' \in [Names -> Nat \cup {NULL}]
      <3>1. /\ expire \in [Names -> Nat \cup {NULL}]
            /\ primary \in [Accounts -> Names \cup {NULL}]
            /\ now \in Nat
        BY Zenon DEF TypeInv, TypeOK
      <3>2. now + Duration \in Nat
        BY <3>1, NumbersAssumption
      <3>3. primary[a] \in Names
        BY <2>1, <3>1 DEF Renew
      <3> QED BY <2>1, <3>1, <3>2, <3>3 DEF Renew
    <2> QED
      BY <2>1, <2>2 DEF Renew, TypeInv, TypeOK, RecordParents, HasRecord,
                        subVars, recordVars, adminVars
  <1>5. CASE \E who, to \in Accounts : Transfer(who, to)
    <2>1. PICK who \in Accounts, to \in Accounts : Transfer(who, to)
      BY <1>5
    <2>2. primary[who] \in Names
      BY <2>1 DEF Transfer, TypeInv, TypeOK
    <2>3. /\ primary' \in [Accounts -> Names \cup {NULL}]
          /\ now' \in Nat /\ baseOwner' \in Accounts /\ official' \in Accounts
          /\ reserved' \in SUBSET Names
          /\ offeredNames' \in [Names -> OptAccount]
          /\ listings' \in [Names -> Listing \cup {NULL}]
      BY <2>1, <2>2 DEF Transfer, TypeInv, TypeOK, adminVars
    <2> QED
      BY <2>1, <2>2, <2>3, DoTransferType DEF Transfer
  <1>6. CASE \E a \in Accounts : ReleaseName(a)
    <2>1. PICK a \in Accounts : ReleaseName(a)
      BY <1>6
    <2>2. primary[a] \in Names
      BY <2>1 DEF ReleaseName, TypeInv, TypeOK
    <2>3. /\ primary' \in [Accounts -> Names \cup {NULL}]
          /\ now' \in Nat /\ baseOwner' \in Accounts /\ official' \in Accounts
          /\ reserved' \in SUBSET Names
          /\ offeredNames' \in [Names -> OptAccount]
          /\ listings' \in [Names -> Listing \cup {NULL}]
      BY <2>1 DEF ReleaseName, TypeInv, TypeOK, adminVars
    <2> QED
      BY <2>1, <2>2, <2>3, DoBurnType DEF ReleaseName
  <1>7. CASE \E a \in Accounts, n \in Names : Burn(a, n)
    <2>1. PICK a \in Accounts, n \in Names : Burn(a, n)
      BY <1>7
    <2>2. /\ primary' \in [Accounts -> Names \cup {NULL}]
          /\ now' \in Nat /\ baseOwner' \in Accounts /\ official' \in Accounts
          /\ reserved' \in SUBSET Names
          /\ offeredNames' \in [Names -> OptAccount]
          /\ listings' \in [Names -> Listing \cup {NULL}]
      BY <2>1 DEF Burn, TypeInv, TypeOK, adminVars
    <2> QED
      BY <2>1, <2>2, DoBurnType DEF Burn
  <1>8. CASE \E a \in Accounts, n \in Names : AcceptOfferedName(a, n)
    <2>1. PICK a \in Accounts, n \in Names : AcceptOfferedName(a, n)
      BY <1>8
    <2>2. ss58' \in [Nodes -> OptAccount]
      <3>1. ss58' = Ss58After({}, n, a) /\ n \in Nodes
        BY <2>1 DEF AcceptOfferedName, Nodes
      <3> QED
        BY <3>1, Ss58Type DEF TypeInv
    <2>3. /\ offeredNames' \in [Names -> OptAccount]
          /\ primary' \in [Accounts -> Names \cup {NULL}]
      BY <2>1 DEF AcceptOfferedName, TypeInv, TypeOK, OptAccount
    <2> QED
      BY <2>1, <2>2, <2>3
         DEF AcceptOfferedName, TypeInv, TypeOK, RecordParents, HasRecord,
             leaseVars, subVars, adminVars
  <1> QED
    BY <1>1, <1>2, <1>3, <1>4, <1>5, <1>6, <1>7, <1>8 DEF LeaseCall

\* A step that leaves the tokens and the subname tables alone, and leaves every
\* other item alone or well typed, keeps TypeInv.
LEMMA OutsideType ==
  ASSUME TypeInv, UNCHANGED <<leaseVars, subVars>>,
         UNCHANGED now \/ now' \in Nat,
         UNCHANGED official \/ official' \in Accounts,
         UNCHANGED baseOwner \/ baseOwner' \in Accounts,
         UNCHANGED reserved \/ reserved' \in SUBSET Names,
         UNCHANGED dns \/ dns' \in [Names -> OptAccount],
         UNCHANGED texts \/ texts' \in [Names -> OptAccount],
         UNCHANGED listings \/ listings' \in [Names -> Listing \cup {NULL}],
         UNCHANGED <<ss58, primary, offeredNames>>
  PROVE  TypeInv'
  <1>1. /\ now' \in Nat /\ official' \in Accounts /\ baseOwner' \in Accounts
        /\ reserved' \in SUBSET Names
    BY Zenon DEF TypeInv, TypeOK
  <1>2. /\ dns' \in [Names -> OptAccount]
        /\ texts' \in [Names -> OptAccount]
        /\ listings' \in [Names -> Listing \cup {NULL}]
    BY Zenon DEF TypeInv, TypeOK
  <1>3. UNCHANGED <<owner, expire, origin, children, subNames, accountToSubnames,
                    subnameRecords, offeredToAccount>>
    BY DEF leaseVars, subVars
  <1>4. RecordParents'
    BY <1>3 DEF TypeInv, RecordParents, HasRecord
  <1> QED
    BY <1>1, <1>2, <1>3, <1>4, Zenon DEF TypeInv, TypeOK

\* So does a step on subnames that keeps their tables well typed.
LEMMA SubdomainType ==
  ASSUME TypeInv, RecordParents',
         UNCHANGED <<now, owner, expire, origin, dns, texts, adminVars, primary,
                     offeredNames, listings>>,
         children' \in [Names -> Nat],
         subNames' \in [Names -> SUBSET Subs],
         accountToSubnames' \in [Accounts -> SUBSET Nodes],
         subnameRecords' \in [Subs -> SubnameRecord \cup {NULL}],
         offeredToAccount' \in [Accounts -> SUBSET Subs],
         UNCHANGED ss58 \/ ss58' \in [Nodes -> OptAccount]
  PROVE  TypeInv'
  <1>1. ss58' \in [Nodes -> OptAccount]
    BY Zenon DEF TypeInv, TypeOK
  <1>2. UNCHANGED <<now, owner, expire, origin, dns, texts, official, baseOwner,
                    reserved, primary, offeredNames, listings>>
    BY DEF adminVars
  <1> QED
    BY <1>1, <1>2, Zenon DEF TypeInv, TypeOK

\* The calls on subnames keep TypeInv.
LEMMA SubdomainCallType == TypeInv /\ SubdomainCall => TypeInv'
  <1> SUFFICES ASSUME TypeInv, SubdomainCall PROVE TypeInv'
    OBVIOUS
  <1>1. CASE \E a, target \in Accounts, s \in Subs : OfferSubdomain(a, s, target)
    <2>1. PICK a \in Accounts, target \in Accounts, s \in Subs :
                 OfferSubdomain(a, s, target)
      BY <1>1
    <2>2. Parent[s] \in Names /\ OfferSubname(Parent[s], s, target, Capacity)
      BY <2>1, NodesAssumption DEF OfferSubdomain
    <2>3. /\ children' \in [Names -> Nat]
          /\ offeredToAccount' \in [Accounts -> SUBSET Subs]
          /\ subNames' \in [Names -> SUBSET Subs]
          /\ accountToSubnames' \in [Accounts -> SUBSET Nodes]
      <3>1. /\ children \in [Names -> Nat]
            /\ offeredToAccount \in [Accounts -> SUBSET Subs]
            /\ subNames \in [Names -> SUBSET Subs]
            /\ accountToSubnames \in [Accounts -> SUBSET Nodes]
        BY Zenon DEF TypeInv, TypeOK
      <3>2. children' \in [Names -> Nat]
        <4>1. /\ Parent[s] \in Names
              /\ children' = [children EXCEPT ![Parent[s]] = children[Parent[s]] + 1]
          BY <2>2 DEF OfferSubname
        <4>2. children[Parent[s]] + 1 \in Nat
          BY <3>1, <4>1
        <4> QED BY <3>1, <4>1, <4>2
      <3>3. offeredToAccount' \in [Accounts -> SUBSET Subs]
        BY <2>2, <3>1 DEF OfferSubname
      <3>4. /\ subNames' \in [Names -> SUBSET Subs]
            /\ accountToSubnames' \in [Accounts -> SUBSET Nodes]
        BY <2>2, <3>1 DEF OfferSubname
      <3> QED BY <3>2, <3>3, <3>4
    <2>4. subnameRecords' \in [Subs -> SubnameRecord \cup {NULL}]
      BY <2>2 DEF OfferSubname, TypeInv, TypeOK, SubnameRecord, SubnameState
    <2>5. RecordParents'
      BY <2>2 DEF OfferSubname, TypeInv, TypeOK, RecordParents, HasRecord
    <2> QED
      BY <2>1, <2>3, <2>4, <2>5, SubdomainType DEF OfferSubdomain, recordVars
  <1>2. CASE \E a \in Accounts, s \in Subs : AcceptSubdomain(a, s)
    <2>1. PICK a \in Accounts, s \in Subs : AcceptSubdomain(a, s)
      BY <1>2
    <2>2. AcceptSubnameOffer(s, a) /\ s \in Nodes
      BY <2>1 DEF AcceptSubdomain, Nodes
    <2>3. /\ children' \in [Names -> Nat]
          /\ offeredToAccount' \in [Accounts -> SUBSET Subs]
          /\ subNames' \in [Names -> SUBSET Subs]
          /\ accountToSubnames' \in [Accounts -> SUBSET Nodes]
      BY <2>2 DEF AcceptSubnameOffer, TypeInv, TypeOK
    <2>4. /\ subnameRecords' \in [Subs -> SubnameRecord \cup {NULL}]
          /\ RecordParents'
      <3>1. subnameRecords' = [subnameRecords EXCEPT ![s].state = "Active"]
        BY <2>2 DEF AcceptSubnameOffer
      <3>2. subnameRecords[s] # NULL
        BY <2>2 DEF AcceptSubnameOffer, InState, HasRecord
      <3> QED
        BY <3>1, <3>2, StateType, Zenon DEF TypeInv, SubnameState
    <2>5. ss58' \in [Nodes -> OptAccount]
      <3>1. ss58' = Ss58After({}, s, a)
        BY <2>1 DEF AcceptSubdomain
      <3> QED
        BY <3>1, <2>2, Ss58Type DEF TypeInv
    <2> QED
      BY <2>1, <2>3, <2>4, <2>5, SubdomainType DEF AcceptSubdomain
  <1>3. CASE \E a \in Accounts, s \in Subs : RejectSubdomain(a, s)
    <2>1. PICK a \in Accounts, s \in Subs : RejectSubdomain(a, s)
      BY <1>3
    <2>2. RejectSubnameOffer(s, a)
      BY <2>1 DEF RejectSubdomain
    <2>3. /\ children' \in [Names -> Nat]
          /\ offeredToAccount' \in [Accounts -> SUBSET Subs]
          /\ subNames' \in [Names -> SUBSET Subs]
          /\ accountToSubnames' \in [Accounts -> SUBSET Nodes]
      BY <2>2 DEF RejectSubnameOffer, TypeInv, TypeOK
    <2>4. /\ subnameRecords' \in [Subs -> SubnameRecord \cup {NULL}]
          /\ RecordParents'
      <3>1. subnameRecords' = [subnameRecords EXCEPT ![s].state = "Rejected"]
        BY <2>2 DEF RejectSubnameOffer
      <3>2. subnameRecords[s] # NULL
        BY <2>2 DEF RejectSubnameOffer, InState, HasRecord
      <3> QED
        BY <3>1, <3>2, StateType, Zenon DEF TypeInv, SubnameState
    <2> QED
      BY <2>1, <2>3, <2>4, SubdomainType DEF RejectSubdomain, recordVars
  <1>4. CASE \E a \in Accounts, s \in Subs : RevokeSubdomain(a, s)
    <2>1. PICK a \in Accounts, s \in Subs : RevokeSubdomain(a, s)
      BY <1>4
    <2>2. Parent[s] \in Names /\ DropSubname(Parent[s], s)
      BY <2>1, NodesAssumption, Zenon DEF RevokeSubdomain, RevokeSubname
    <2>3. ss58' \in [Nodes -> OptAccount]
      <3>1. s \in Nodes /\ TypeOK
        BY DEF Nodes, TypeInv
      <3>2. ss58' = ss58 \/ ss58' = Ss58Without({s})
        BY <2>1 DEF RevokeSubdomain, RevokeSubname
      <3>3. ss58 \in [Nodes -> OptAccount]
        BY <3>1, Zenon DEF TypeOK
      <3> QED BY <3>1, <3>2, <3>3, WipeType
    <2> QED
      BY <2>1, <2>2, <2>3, DropSubnameType, SubdomainType DEF RevokeSubdomain
  <1>5. CASE \E a \in Accounts, s \in Subs : ReleaseSubdomain(a, s)
    <2>1. PICK a \in Accounts, s \in Subs : ReleaseSubdomain(a, s)
      BY <1>5
    <2>2. subnameRecords[s].parent = Parent[s]
      BY <2>1, Zenon
         DEF ReleaseSubdomain, ReleaseSubname, InState, TypeInv, RecordParents
    <2>3. Parent[s] \in Names /\ DropSubname(Parent[s], s)
      BY <2>1, <2>2, NodesAssumption, Zenon DEF ReleaseSubdomain, ReleaseSubname
    <2>4. ss58' \in [Nodes -> OptAccount]
      <3>1. s \in Nodes /\ TypeOK
        BY DEF Nodes, TypeInv
      <3>2. ss58' = ss58 \/ ss58' = Ss58Without({s})
        BY <2>1 DEF ReleaseSubdomain, ReleaseSubname
      <3>3. ss58 \in [Nodes -> OptAccount]
        BY <3>1, Zenon DEF TypeOK
      <3> QED BY <3>1, <3>2, <3>3, WipeType
    <2> QED
      BY <2>1, <2>3, <2>4, DropSubnameType, SubdomainType DEF ReleaseSubdomain
  <1> QED
    BY <1>1, <1>2, <1>3, <1>4, <1>5 DEF SubdomainCall

\* Listings and purchases keep TypeInv.
LEMMA MarketCallType == TypeInv /\ MarketCall => TypeInv'
  <1> SUFFICES ASSUME TypeInv, MarketCall PROVE TypeInv'
    OBVIOUS
  <1>1. CASE \E a \in Accounts, t \in ListingExpiries : CreateListing(a, t)
    <2>1. PICK a \in Accounts, t \in ListingExpiries : CreateListing(a, t)
      BY <1>1
    <2>2. [seller |-> a, expiresAt |-> t] \in Listing
      BY InputsAssumption DEF Listing
    <2>3. listings' \in [Names -> Listing \cup {NULL}]
      BY <2>1, <2>2 DEF CreateListing, TypeInv, TypeOK
    <2> QED
      BY <2>1, <2>3, OutsideType DEF CreateListing, recordVars, adminVars
  <1>2. CASE \E a \in Accounts : CancelListing(a)
    <2>1. PICK a \in Accounts : CancelListing(a)
      BY <1>2
    <2>2. listings' \in [Names -> Listing \cup {NULL}]
      BY <2>1 DEF CancelListing, TypeInv, TypeOK
    <2> QED
      BY <2>1, <2>2, OutsideType DEF CancelListing, recordVars, adminVars
  <1>3. CASE \E buyer \in Accounts, n \in Names : BuyName(buyer, n)
    <2>1. PICK buyer \in Accounts, n \in Names : BuyName(buyer, n)
      BY <1>3
    <2>2. listings[n].seller \in Accounts
      BY <2>1 DEF BuyName, CanBuy, TypeInv, TypeOK, Listing
    <2>3. /\ primary' \in [Accounts -> Names \cup {NULL}]
          /\ now' \in Nat /\ baseOwner' \in Accounts /\ official' \in Accounts
          /\ reserved' \in SUBSET Names
          /\ offeredNames' \in [Names -> OptAccount]
          /\ listings' \in [Names -> Listing \cup {NULL}]
      <3>1. /\ primary \in [Accounts -> Names \cup {NULL}]
            /\ now \in Nat /\ baseOwner \in Accounts /\ official \in Accounts
            /\ reserved \in SUBSET Names
            /\ offeredNames \in [Names -> OptAccount]
            /\ listings \in [Names -> Listing \cup {NULL}]
        BY Zenon DEF TypeInv, TypeOK
      <3> QED
        BY <2>1, <2>2, <3>1
           DEF BuyName, TransferName, PrimaryWithout, adminVars
    <2> QED
      BY <2>1, <2>2, <2>3, DoTransferType DEF BuyName, TransferName
  <1>4. CASE \E buyer \in Accounts, recipient \in GiftRecipients, n \in Names :
               BuyNameFor(buyer, recipient, n)
    <2>1. PICK buyer \in Accounts, recipient \in GiftRecipients, n \in Names :
                 BuyNameFor(buyer, recipient, n)
      BY <1>4
    <2>2. listings[n].seller \in Accounts /\ recipient \in Accounts
      BY <2>1, InputsAssumption DEF BuyNameFor, CanBuy, TypeInv, TypeOK, Listing
    <2>3. /\ primary' \in [Accounts -> Names \cup {NULL}]
          /\ now' \in Nat /\ baseOwner' \in Accounts /\ official' \in Accounts
          /\ reserved' \in SUBSET Names
          /\ offeredNames' \in [Names -> OptAccount]
          /\ listings' \in [Names -> Listing \cup {NULL}]
      BY <2>1, <2>2 DEF BuyNameFor, OfferBoughtName, PrimaryWithout, TypeInv,
                        TypeOK, adminVars, OptAccount
    <2> QED
      BY <2>1, <2>2, <2>3, DoTransferType DEF BuyNameFor, OfferBoughtName
  <1> QED
    BY <1>1, <1>2, <1>3, <1>4 DEF MarketCall

\* Record writes, manager calls and the clock keep TypeInv.
LEMMA OtherCallType ==
  TypeInv /\ (RecordCall \/ ManagerCall \/ Tick \/ UNCHANGED vars) => TypeInv'
  <1> SUFFICES ASSUME TypeInv,
                      RecordCall \/ ManagerCall \/ Tick \/ UNCHANGED vars
               PROVE  TypeInv'
    OBVIOUS
  <1>1. CASE \E a \in Accounts, n \in Described : SetRecord(a, n)
    <2>1. PICK a \in Accounts, n \in Described : SetRecord(a, n)
      BY <1>1
    <2>2. dns' \in [Names -> OptAccount]
      <3>1. dns' = [dns EXCEPT ![n] = a]
        BY <2>1 DEF SetRecord
      <3>2. dns \in [Names -> OptAccount] /\ a \in OptAccount
        BY DEF TypeInv, TypeOK, OptAccount
      <3> QED
        BY <3>1, <3>2, Zenon
    <2> QED
      BY <2>1, <2>2, OutsideType DEF SetRecord, adminVars
  <1>2. CASE \E a \in Accounts, n \in Described : SetText(a, n)
    <2>1. PICK a \in Accounts, n \in Described : SetText(a, n)
      BY <1>2
    <2>2. texts' \in [Names -> OptAccount]
      <3>1. texts' = [texts EXCEPT ![n] = a]
        BY <2>1 DEF SetText
      <3>2. texts \in [Names -> OptAccount] /\ a \in OptAccount
        BY DEF TypeInv, TypeOK, OptAccount
      <3> QED
        BY <3>1, <3>2
    <2> QED
      BY <2>1, <2>2, OutsideType DEF SetText, adminVars
  <1>3. CASE \E a \in Officials : SetOfficial(a)
    <2>1. PICK a \in Accounts : SetOfficial(a)
      BY <1>3, InputsAssumption
    <2> QED
      BY <2>1, OutsideType DEF SetOfficial, recordVars
  <1>4. CASE \E n \in Reservable : AddReserved(n) \/ RemoveReserved(n)
    <2>1. PICK n \in Names : AddReserved(n) \/ RemoveReserved(n)
      BY <1>4, InputsAssumption
    <2>2. reserved' \in SUBSET Names
      <3>1. reserved' = reserved \cup {n} \/ reserved' = reserved \ {n}
        BY <2>1, Zenon DEF AddReserved, RemoveReserved
      <3>2. reserved \in SUBSET Names
        BY DEF TypeInv, TypeOK
      <3> QED
        BY <3>1, <3>2, Zenon
    <2> QED
      BY <2>1, <2>2, OutsideType DEF AddReserved, RemoveReserved, recordVars
  <1>5. CASE Tick
    <2>1. now' \in Nat
      BY <1>5 DEF Tick, TypeInv, TypeOK
    <2> QED
      BY <1>5, <2>1, OutsideType DEF Tick, recordVars, adminVars
  <1>6. CASE UNCHANGED vars
    BY <1>6, OutsideType DEF vars, recordVars, adminVars
  <1> QED
    BY <1>1, <1>2, <1>3, <1>4, <1>5, <1>6 DEF RecordCall, ManagerCall

\* Every step keeps TypeInv.
LEMMA StepType == TypeInv /\ [Next]_vars => TypeInv'
  BY LeaseCallType, SubdomainCallType, MarketCallType, OtherCallType DEF Next

\* Every step of every call keeps the storage well typed and every subname
\* record under the parent it is hashed with.
THEOREM TypeInvariance == Spec => []TypeInv
  BY InitType, StepType, PTL DEF Spec

\* The storage items always have the types they are declared with; in
\* particular sub_children never takes a counter below zero.
THEOREM TypeCorrect == Spec => []TypeOK
  <1>1. TypeInv => TypeOK
    BY DEF TypeInv
  <1> QED
    BY TypeInvariance, <1>1, PTL

-----------------------------------------------------------------------------
(* The per-account indexes of subnames.                                    *)

\* The step drops the subnames in D and does nothing else to subnames; what
\* it does to the canonical names in AccountToSubnames is left open.
DropsSubs(D) ==
  /\ subnameRecords' = RecordsWithout(D)
  /\ offeredToAccount' = OfferedWithout(D)
  /\ \A a \in Accounts, s \in Subs :
       s \in accountToSubnames'[a] <=> s \in HeldWithout(D)[a]

\* Dropping subnames keeps the indexes exact, because an entry is removed
\* exactly where the record's target and state say there is one.
LEMMA DropIndex ==
  ASSUME TypeInv, IndexExact, NEW D \in SUBSET Subs, DropsSubs(D)
  PROVE  IndexExact' /\ \A a \in Accounts : HeldSubs(a)' \subseteq HeldSubs(a)
  <1>1. \A s \in Subs : /\ s \in D => subnameRecords'[s] = NULL
                        /\ s \notin D => subnameRecords'[s] = subnameRecords[s]
    BY DEF DropsSubs, RecordsWithout
  <1>2. \A a \in Accounts, s \in Subs :
          s \in offeredToAccount'[a] <=>
            /\ s \in offeredToAccount[a]
            /\ ~(s \in D /\ IsTarget(a, s) /\ ~InState(s, "Active"))
    BY DEF DropsSubs, OfferedWithout
  <1>3. \A a \in Accounts, s \in Subs :
          s \in accountToSubnames'[a] <=>
            /\ s \in accountToSubnames[a]
            /\ ~(s \in D /\ IsTarget(a, s) /\ InState(s, "Active"))
    BY DEF DropsSubs, HeldWithout
  <1>4. \A a \in Accounts, s \in Subs :
          s \in offeredToAccount'[a] <=> IsTarget(a, s)' /\ InState(s, "Offered")'
    BY <1>1, <1>2 DEF IndexExact, IsTarget, InState, HasRecord
  <1>5. \A a \in Accounts, s \in Subs :
          s \in accountToSubnames'[a] <=> IsTarget(a, s)' /\ InState(s, "Active")'
    BY <1>1, <1>3 DEF IndexExact, IsTarget, InState, HasRecord
  <1>6. \A a \in Accounts : HeldSubs(a)' \subseteq HeldSubs(a)
    BY <1>1 DEF HeldSubs, IsTarget, InState, HasRecord
  <1> QED
    BY <1>4, <1>5, <1>6 DEF IndexExact

\* Registering, burning, transferring and dropping a subname are such steps.
LEMMA RegisterDrops ==
  ASSUME TypeInv, NEW to \in Accounts, NEW n \in Names,
         NEW B \in SUBSET Names, NEW R \in SUBSET Subs,
         RegisterAfter(to, n, B, R)
  PROVE  /\ SubtreeOf(Wiped(n, B)) \cup R \in SUBSET Subs
         /\ DropsSubs(SubtreeOf(Wiped(n, B)) \cup R)
  <1> DEFINE C == Wiped(n, B)
             D == SubtreeOf(C) \cup R
  <1>1. C \in SUBSET Names
    BY DEF Wiped
  <1>2. D \in SUBSET Subs
    BY <1>1, SubtreeType DEF TypeInv
  <1>3. /\ subnameRecords' = RecordsWithout(D)
        /\ offeredToAccount' = OfferedWithout(D)
        /\ accountToSubnames' =
             [a \in Accounts |->
                (HeldWithout(D)[a] \ {m \in C : owner[m] = a})
                  \cup (IF a = to THEN {n} ELSE {})]
    BY DEF RegisterAfter, MintSubname
  <1> HIDE DEF C, D
  <1>4. \A a \in Accounts, s \in Subs :
          s \in accountToSubnames'[a] <=> s \in HeldWithout(D)[a]
    BY <1>1, <1>3, NodesAssumption
  <1> QED
    BY <1>2, <1>3, <1>4 DEF C, D, DropsSubs

\* The subtree clear_subnames walks for a single name is its SubNames entry.
LEMMA SubtreeOfOne ==
  ASSUME TypeInv, NEW n \in Names
  PROVE  SubtreeOf({n}) = subNames[n] /\ subNames[n] \in SUBSET Subs
  BY DEF SubtreeOf, TypeInv, TypeOK

\* do_burn drops the subnames of the burned name and no others.
LEMMA BurnDrops ==
  ASSUME TypeInv, NEW a \in Accounts, NEW n \in Names, DoBurn(a, n)
  PROVE  DropsSubs(subNames[n]) /\ subNames[n] \in SUBSET Subs
  <1>1. SubtreeOf({n}) = subNames[n] /\ subNames[n] \in SUBSET Subs
    BY SubtreeOfOne
  <1>2. HeldWithout(subNames[n]) \in [Accounts -> SUBSET Nodes]
    BY <1>1, DropType DEF TypeInv
  <1>3. accountToSubnames' = [HeldWithout(subNames[n]) EXCEPT ![a] = @ \ {n}]
    BY DEF DoBurn
  <1>4. \A b \in Accounts, s \in Subs :
          s \in accountToSubnames'[b] <=> s \in HeldWithout(subNames[n])[b]
    BY <1>2, <1>3, NodesAssumption
  <1> QED
    BY <1>1, <1>4 DEF DoBurn, ClearSubnames, DropsSubs

\* do_transfer drops the subnames of the transferred name and no others.
LEMMA TransferDrops ==
  ASSUME TypeInv, NEW from \in Accounts, NEW to \in Accounts, NEW n \in Names,
         DoTransfer(from, to, n)
  PROVE  DropsSubs(subNames[n]) /\ subNames[n] \in SUBSET Subs
  BY SubtreeOfOne DEF DoTransfer, ClearSubnames, DropsSubs

\* revoke_subname and release_subname drop the one subname.
LEMMA DropSubnameDrops ==
  ASSUME TypeInv, NEW parent \in Names, NEW s \in Subs, DropSubname(parent, s)
  PROVE  DropsSubs({s}) /\ {s} \in SUBSET Subs
  BY DEF DropSubname, DropsSubs

-----------------------------------------------------------------------------
(* The calls.  Along with IndexExact, each is shown to give no account an  *)
(* Active subname except by that account's own accept_subdomain.           *)

NoSubsAdded == \A a \in Accounts : HeldSubs(a)' \subseteq HeldSubs(a)

OnlyAcceptAdds ==
  NoSubsAdded \/ \E a \in Accounts, s \in Subs :
                   /\ AcceptSubdomain(a, s)
                   /\ HeldSubs(a)' \subseteq HeldSubs(a) \cup {s}
                   /\ \A b \in Accounts \ {a} : HeldSubs(b)' \subseteq HeldSubs(b)

\* A step that leaves the three tables alone keeps IndexExact.
LEMMA KeepIndex ==
  ASSUME IndexExact, UNCHANGED <<subnameRecords, accountToSubnames, offeredToAccount>>
  PROVE  IndexExact' /\ NoSubsAdded
  BY DEF IndexExact, NoSubsAdded, HeldSubs, IsTarget, InState, HasRecord

\* Registrations, transfers, burns, renewals and accepted gifts keep the indexes
\* exact and add no Active subname.
LEMMA LeaseCallIndex ==
  ASSUME TypeInv, IndexExact, LeaseCall
  PROVE  IndexExact' /\ NoSubsAdded
  <1>1. CASE \E to \in Accounts, n \in Names, B \in SUBSET Names, R \in SUBSET Subs :
               RegisterAfter(to, n, B, R)
    BY <1>1, RegisterDrops, DropIndex DEF NoSubsAdded
  <1>2. CASE \E a \in Accounts, n \in Names : DoBurn(a, n)
    BY <1>2, BurnDrops, DropIndex DEF NoSubsAdded
  <1>3. CASE \E who, to \in Accounts : Transfer(who, to)
    <2>1. PICK who \in Accounts, to \in Accounts : Transfer(who, to)
      BY <1>3
    <2>2. primary[who] \in Names /\ DoTransfer(who, to, primary[who])
      BY <2>1 DEF Transfer, TypeInv, TypeOK
    <2> QED
      BY <2>2, TransferDrops, DropIndex DEF NoSubsAdded
  <1>4. CASE UNCHANGED subVars
    BY <1>4, KeepIndex DEF subVars
  <1>5. ASSUME NEW to \in Accounts, NEW n \in Names, Register(to, n)
        PROVE  \E B \in SUBSET Names, R \in SUBSET Subs : RegisterAfter(to, n, B, R)
    BY <1>5 DEF Register
  <1>6. ASSUME NEW caller \in Accounts, NEW to \in Accounts, NEW n \in Names,
               NEW g \in Names, RegisterRejectingName(caller, to, n, g)
        PROVE  \E B \in SUBSET Names, R \in SUBSET Subs : RegisterAfter(to, n, B, R)
    BY <1>6 DEF RegisterRejectingName
  <1>7. ASSUME NEW caller \in Accounts, NEW to \in Accounts, NEW n \in Names,
               NEW s \in Subs, RegisterRejectingSubname(caller, to, n, s)
        PROVE  \E B \in SUBSET Names, R \in SUBSET Subs : RegisterAfter(to, n, B, R)
    BY <1>7 DEF RegisterRejectingSubname
  <1>8. ASSUME NEW a \in Accounts, ReleaseName(a)
        PROVE  \E n \in Names : DoBurn(a, n)
    BY <1>8 DEF ReleaseName, TypeInv, TypeOK
  <1>9. ASSUME NEW a \in Accounts, NEW n \in Names, Burn(a, n)
        PROVE  DoBurn(a, n)
    BY <1>9 DEF Burn
  <1>10. ASSUME NEW a \in Accounts, Renew(a)
         PROVE  UNCHANGED subVars
    BY <1>10 DEF Renew
  <1>11. ASSUME NEW a \in Accounts, NEW n \in Names, AcceptOfferedName(a, n)
         PROVE  UNCHANGED subVars
    BY <1>11 DEF AcceptOfferedName
  <1> QED
    BY <1>1, <1>2, <1>3, <1>4, <1>5, <1>6, <1>7, <1>8, <1>9, <1>10, <1>11
       DEF LeaseCall

\* Offers, acceptances, rejections, revocations and releases keep the indexes
\* exact: each moves the entry when it changes the state of the record.
LEMMA SubdomainCallIndex ==
  ASSUME TypeInv, IndexExact, SubdomainCall
  PROVE  IndexExact' /\ OnlyAcceptAdds
  <1>1. CASE \E a, target \in Accounts, s \in Subs : OfferSubdomain(a, s, target)
    <2>1. PICK a \in Accounts, target \in Accounts, s \in Subs :
                 OfferSubdomain(a, s, target)
      BY <1>1
    <2>2. /\ subnameRecords' =
               [subnameRecords EXCEPT
                  ![s] = [parent |-> Parent[s], target |-> target, state |-> "Offered"]]
          /\ offeredToAccount' = [offeredToAccount EXCEPT ![target] = @ \cup {s}]
          /\ UNCHANGED accountToSubnames
          /\ subnameRecords[s] = NULL
      BY <2>1 DEF OfferSubdomain, OfferSubname, HasRecord
    <2>3. /\ subnameRecords'[s].target = target
          /\ subnameRecords'[s].state = "Offered"
          /\ subnameRecords'[s] # NULL
          /\ \A r \in Subs \ {s} : subnameRecords'[r] = subnameRecords[r]
      <3>1. [parent |-> Parent[s], target |-> target, state |-> "Offered"] # NULL
        BY RecordAssumption, NodesAssumption DEF SubnameRecord, SubnameState
      <3> QED
        BY <2>2, <3>1 DEF TypeInv, TypeOK
    <2>4. \A b \in Accounts, r \in Subs :
            r \in offeredToAccount'[b] <=>
              r \in offeredToAccount[b] \/ (r = s /\ b = target)
      BY <2>2 DEF TypeInv, TypeOK
    <2>5. IndexExact'
      BY <2>2, <2>3, <2>4 DEF IndexExact, IsTarget, InState, HasRecord
    <2>6. NoSubsAdded
      BY <2>2, <2>3 DEF NoSubsAdded, HeldSubs, IsTarget, InState, HasRecord
    <2> QED
      BY <2>5, <2>6 DEF OnlyAcceptAdds
  <1>2. CASE \E a \in Accounts, s \in Subs : AcceptSubdomain(a, s)
    <2>1. PICK a \in Accounts, s \in Subs : AcceptSubdomain(a, s)
      BY <1>2
    <2>2. /\ subnameRecords' = [subnameRecords EXCEPT ![s].state = "Active"]
          /\ offeredToAccount' = [offeredToAccount EXCEPT ![a] = @ \ {s}]
          /\ accountToSubnames' = [accountToSubnames EXCEPT ![a] = @ \cup {s}]
          /\ subnameRecords[s] \in SubnameRecord
          /\ subnameRecords[s].target = a
          /\ subnameRecords[s].state = "Offered"
      BY <2>1 DEF AcceptSubdomain, AcceptSubnameOffer, InState, IsTarget,
                  HasRecord, TypeInv, TypeOK
    <2>3. /\ subnameRecords'[s].target = a
          /\ subnameRecords'[s].state = "Active"
          /\ subnameRecords'[s] # NULL
          /\ \A r \in Subs \ {s} : subnameRecords'[r] = subnameRecords[r]
      BY <2>2, RecordAssumption DEF TypeInv, TypeOK, SubnameRecord, SubnameState
    <2>4. \A b \in Accounts, r \in Subs :
            /\ r \in offeredToAccount'[b] <=>
                 r \in offeredToAccount[b] /\ ~(r = s /\ b = a)
            /\ r \in accountToSubnames'[b] <=>
                 r \in accountToSubnames[b] \/ (r = s /\ b = a)
      BY <2>2 DEF TypeInv, TypeOK
    <2>5. IndexExact'
      BY <2>2, <2>3, <2>4 DEF IndexExact, IsTarget, InState, HasRecord
    <2>6. /\ HeldSubs(a)' \subseteq HeldSubs(a) \cup {s}
          /\ \A b \in Accounts \ {a} : HeldSubs(b)' \subseteq HeldSubs(b)
      BY <2>3 DEF HeldSubs, IsTarget, InState, HasRecord
    <2> QED
      BY <2>1, <2>5, <2>6 DEF OnlyAcceptAdds, NoSubsAdded
  <1>3. CASE \E a \in Accounts, s \in Subs : RejectSubdomain(a, s)
    <2>1. PICK a \in Accounts, s \in Subs : RejectSubdomain(a, s)
      BY <1>3
    <2>2. /\ subnameRecords' = [subnameRecords EXCEPT ![s].state = "Rejected"]
          /\ offeredToAccount' = [offeredToAccount EXCEPT ![a] = @ \ {s}]
          /\ UNCHANGED accountToSubnames
          /\ subnameRecords[s] \in SubnameRecord
          /\ subnameRecords[s].target = a
          /\ subnameRecords[s].state = "Offered"
      BY <2>1 DEF RejectSubdomain, RejectSubnameOffer, InState, IsTarget,
                  HasRecord, TypeInv, TypeOK
    <2>3. /\ subnameRecords'[s].target = a
          /\ subnameRecords'[s].state = "Rejected"
          /\ subnameRecords'[s] # NULL
          /\ \A r \in Subs \ {s} : subnameRecords'[r] = subnameRecords[r]
      BY <2>2, RecordAssumption DEF TypeInv, TypeOK, SubnameRecord, SubnameState
    <2>4. \A b \in Accounts, r \in Subs :
            r \in offeredToAccount'[b] <=>
              r \in offeredToAccount[b] /\ ~(r = s /\ b = a)
      BY <2>2 DEF TypeInv, TypeOK
    <2>5. IndexExact'
      BY <2>2, <2>3, <2>4 DEF IndexExact, IsTarget, InState, HasRecord
    <2> QED
      BY <2>3, <2>5 DEF OnlyAcceptAdds, NoSubsAdded, HeldSubs, IsTarget, InState, HasRecord
  <1>4. CASE \E a \in Accounts, s \in Subs : RevokeSubdomain(a, s)
    <2>1. PICK a \in Accounts, s \in Subs : RevokeSubdomain(a, s)
      BY <1>4
    <2>2. Parent[s] \in Names /\ DropSubname(Parent[s], s)
      BY <2>1, NodesAssumption DEF RevokeSubdomain, RevokeSubname
    <2> QED
      BY <2>2, DropSubnameDrops, DropIndex DEF OnlyAcceptAdds, NoSubsAdded
  <1>5. CASE \E a \in Accounts, s \in Subs : ReleaseSubdomain(a, s)
    <2>1. PICK a \in Accounts, s \in Subs : ReleaseSubdomain(a, s)
      BY <1>5
    <2>2. subnameRecords[s].parent = Parent[s]
      BY <2>1 DEF ReleaseSubdomain, ReleaseSubname, InState, TypeInv, RecordParents
    <2>3. Parent[s] \in Names /\ DropSubname(Parent[s], s)
      BY <2>1, <2>2, NodesAssumption DEF ReleaseSubdomain, ReleaseSubname
    <2> QED
      BY <2>3, DropSubnameDrops, DropIndex DEF OnlyAcceptAdds, NoSubsAdded
  <1> QED
    BY <1>1, <1>2, <1>3, <1>4, <1>5 DEF SubdomainCall

\* Listings and purchases keep the indexes exact and add no Active subname.
LEMMA MarketCallIndex ==
  ASSUME TypeInv, IndexExact, MarketCall
  PROVE  IndexExact' /\ NoSubsAdded
  <1>1. CASE \E from, to \in Accounts, n \in Names : DoTransfer(from, to, n)
    BY <1>1, TransferDrops, DropIndex DEF NoSubsAdded
  <1>2. CASE UNCHANGED subVars
    BY <1>2, KeepIndex DEF subVars
  <1>3. ASSUME NEW buyer \in Accounts, NEW n \in Names, BuyName(buyer, n)
        PROVE  \E from, to \in Accounts : DoTransfer(from, to, n)
    <2>1. listings[n].seller \in Accounts
      BY <1>3 DEF BuyName, CanBuy, TypeInv, TypeOK, Listing
    <2> QED
      BY <1>3, <2>1 DEF BuyName, TransferName
  <1>4. ASSUME NEW buyer \in Accounts, NEW recipient \in GiftRecipients,
               NEW n \in Names, BuyNameFor(buyer, recipient, n)
        PROVE  \E from, to \in Accounts : DoTransfer(from, to, n)
    <2>1. listings[n].seller \in Accounts /\ recipient \in Accounts
      BY <1>4, InputsAssumption DEF BuyNameFor, CanBuy, TypeInv, TypeOK, Listing
    <2> QED
      BY <1>4, <2>1 DEF BuyNameFor, OfferBoughtName
  <1>5. ASSUME NEW a \in Accounts, NEW t \in ListingExpiries, CreateListing(a, t)
        PROVE  UNCHANGED subVars
    BY <1>5 DEF CreateListing
  <1>6. ASSUME NEW a \in Accounts, CancelListing(a)
        PROVE  UNCHANGED subVars
    BY <1>6 DEF CancelListing
  <1> QED
    BY <1>1, <1>2, <1>3, <1>4, <1>5, <1>6 DEF MarketCall

\* Record writes, manager calls and the clock do not touch subnames.
LEMMA OtherCallIndex ==
  ASSUME IndexExact, RecordCall \/ ManagerCall \/ Tick \/ UNCHANGED vars
  PROVE  IndexExact' /\ NoSubsAdded
  <1>1. UNCHANGED subVars
    BY DEF RecordCall, ManagerCall, SetRecord, SetText, SetOfficial, AddReserved,
           RemoveReserved, Tick, vars
  <1> QED
    BY <1>1, KeepIndex DEF subVars

\* Every step keeps the indexes exact.
LEMMA StepIndex ==
  ASSUME TypeInv, IndexExact, [Next]_vars
  PROVE  IndexExact'
  BY LeaseCallIndex, SubdomainCallIndex, MarketCallIndex, OtherCallIndex DEF Next

\* At genesis the indexes and the records are empty.
LEMMA InitIndex == Init => IndexExact
  BY DEF Init, IndexExact, IsTarget, InState, HasRecord

\* OfferedToAccount and AccountToSubnames list, for every account and at every
\* moment, exactly the subnames the records say are offered to and held by it.
THEOREM IndexesExact == Spec => []IndexExact
  <1>1. TypeInv /\ IndexExact /\ [Next]_vars => IndexExact'
    BY StepIndex
  <1> QED
    BY TypeInvariance, InitIndex, <1>1, PTL DEF Spec

=============================================================================
