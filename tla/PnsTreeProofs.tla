----------------------------- MODULE PnsTreeProofs -----------------------------
(***************************************************************************)
(* The tables of the pallets agree: the token, the lease and the trace of  *)
(* a name come and go together, SubNames lists what SubnameRecords holds,  *)
(* the children counter counts it, and records follow owners.              *)
(*                                                                         *)
(* The three agreements hold each other up.  A registration of a free name *)
(* resets its counter and leaves its SubNames alone, which is right only   *)
(* because a free name has no subnames (LeaseConsistent); revoking an      *)
(* offer decrements the counter of the name that lists it only because     *)
(* the lists follow the records (SubtreeConsistent).  So the invariant is  *)
(* their conjunction, TreeInv.  The refinement of NameLease and the rule   *)
(* of one name per account follow.                                         *)
(***************************************************************************)
EXTENDS PnsIndexProofs

TreeInv == SubtreeConsistent /\ ChildrenExact /\ LeaseConsistent

-----------------------------------------------------------------------------
(* What a step can be.  Many calls differ in their checks and in which     *)
(* index they update, and do the same to the tables; every later proof     *)
(* takes the cases of this section.                                        *)

\* What register's reject_offer step has established about the names it burned
\* and the offers it revoked.
Rejected(B, R) ==
  /\ B = {} \/ \E g \in Names : B = {g} /\ owner[g] \in Accounts
  /\ R = {} \/ \E s \in Subs : /\ R = {s}
                               /\ InState(s, "Offered")
                               /\ CanSubChildren(Parent[s])

RegisterStep(to, n, B, R) == Rejected(B, R) /\ RegisterAfter(to, n, B, R)

BurnStep(a, n) ==
  /\ DoBurn(a, n)
  /\ UNCHANGED <<now, offeredNames>>
  /\ \A b \in Accounts : primary'[b] = primary[b] \/ (b = a /\ primary[b] = n)

HandOverStep(from, to, n) ==
  /\ DoTransfer(from, to, n)
  /\ MayTakeName(to)
  /\ UNCHANGED now
  /\ \A b \in Accounts : \/ primary'[b] = primary[b]
                         \/ b = from /\ primary[b] = n
                         \/ b = to

IdleStep ==
  /\ UNCHANGED <<leaseVars, subVars, recordVars, primary, offeredNames>>
  /\ now' = now \/ now' = now + 1

StepKind ==
  \/ \E to \in Accounts, n \in Names, B \in SUBSET Names, R \in SUBSET Subs :
        RegisterStep(to, n, B, R)
  \/ \E a \in Accounts, n \in Names : BurnStep(a, n)
  \/ \E from, to \in Accounts, n \in Names : HandOverStep(from, to, n)
  \/ \E a \in Accounts : Renew(a)
  \/ \E a \in Accounts, n \in Names : AcceptOfferedName(a, n)
  \/ SubdomainCall
  \/ \E a \in Accounts, n \in Names : SetRecord(a, n)
  \/ \E a \in Accounts, n \in Names : SetText(a, n)
  \/ IdleStep

\* register, with and without reject_offer, is one kind of step.
LEMMA RegisterKind ==
  ASSUME TypeInv,
         \/ \E to \in Accounts, n \in Names : Register(to, n)
         \/ \E caller, to \in Accounts, n, g \in Names :
               RegisterRejectingName(caller, to, n, g)
         \/ \E caller, to \in Accounts, n \in Names, s \in Subs :
               RegisterRejectingSubname(caller, to, n, s)
  PROVE  \E to \in Accounts, n \in Names, B \in SUBSET Names, R \in SUBSET Subs :
            RegisterStep(to, n, B, R)
  <1>1. ASSUME NEW to \in Accounts, NEW n \in Names, Register(to, n)
        PROVE  RegisterStep(to, n, {}, {})
    BY <1>1 DEF Register, RegisterStep, Rejected
  <1>2. ASSUME NEW caller \in Accounts, NEW to \in Accounts, NEW n \in Names,
               NEW g \in Names, RegisterRejectingName(caller, to, n, g)
        PROVE  RegisterStep(to, n, {g}, {})
    BY <1>2 DEF RegisterRejectingName, CanBurn, RegisterStep, Rejected
  <1>3. ASSUME NEW caller \in Accounts, NEW to \in Accounts, NEW n \in Names,
               NEW s \in Subs, RegisterRejectingSubname(caller, to, n, s)
        PROVE  RegisterStep(to, n, {}, {s})
    <2>1. /\ InState(s, "Offered")
          /\ CanSubChildren(subnameRecords[s].parent)
          /\ RegisterAfter(to, n, {}, {s})
      BY <1>3 DEF RegisterRejectingSubname, CanRevokePendingOffer
    <2>2. subnameRecords[s].parent = Parent[s]
      BY <2>1 DEF InState, TypeInv, RecordParents
    <2> QED
      BY <2>1, <2>2 DEF RegisterStep, Rejected
  <1>4. CASE \E to \in Accounts, n \in Names : Register(to, n)
    BY <1>1, <1>4
  <1>5. CASE \E caller, to \in Accounts, n, g \in Names :
               RegisterRejectingName(caller, to, n, g)
    <2>1. PICK caller \in Accounts, to \in Accounts, n \in Names, g \in Names :
                 RegisterRejectingName(caller, to, n, g)
      BY <1>5
    <2>2. {g} \in SUBSET Names /\ {} \in SUBSET Subs
      OBVIOUS
    <2>3. RegisterStep(to, n, {g}, {})
      BY <2>1, <1>2
    <2> QED
      BY <2>2, <2>3
  <1>6. CASE \E caller, to \in Accounts, n \in Names, s \in Subs :
               RegisterRejectingSubname(caller, to, n, s)
    <2>1. PICK caller \in Accounts, to \in Accounts, n \in Names, s \in Subs :
                 RegisterRejectingSubname(caller, to, n, s)
      BY <1>6
    <2>2. {} \in SUBSET Names /\ {s} \in SUBSET Subs
      OBVIOUS
    <2>3. RegisterStep(to, n, {}, {s})
      BY <2>1, <1>3
    <2> QED
      BY <2>2, <2>3
  <1> QED
    BY <1>4, <1>5, <1>6

\* The calls on leases.
LEMMA LeaseCallKind ==
  ASSUME TypeInv, LeaseCall
  PROVE  StepKind
  <1>1. ASSUME NEW a \in Accounts, ReleaseName(a)
        PROVE  primary[a] \in Names /\ BurnStep(a, primary[a])
    <2>1. primary[a] \in Names /\ primary \in [Accounts -> Names \cup {NULL}]
      BY <1>1 DEF ReleaseName, TypeInv, TypeOK
    <2> QED
      BY <1>1, <2>1 DEF ReleaseName, BurnStep
  <1>2. ASSUME NEW a \in Accounts, NEW n \in Names, Burn(a, n)
        PROVE  BurnStep(a, n)
    BY <1>2 DEF Burn, BurnStep
  <1>3. ASSUME NEW who \in Accounts, NEW to \in Accounts, Transfer(who, to)
        PROVE  primary[who] \in Names /\ HandOverStep(who, to, primary[who])
    <2>1. primary[who] \in Names /\ primary \in [Accounts -> Names \cup {NULL}]
      BY <1>3 DEF Transfer, TypeInv, TypeOK
    <2> QED
      BY <1>3, <2>1 DEF Transfer, HandOverStep
  <1> QED
    BY <1>1, <1>2, <1>3, RegisterKind DEF LeaseCall, StepKind

\* The calls on listings.
LEMMA MarketCallKind ==
  ASSUME TypeInv, MarketCall
  PROVE  StepKind
  <1>1. ASSUME NEW buyer \in Accounts, NEW n \in Names, BuyName(buyer, n)
        PROVE  listings[n].seller \in Accounts /\ HandOverStep(listings[n].seller, buyer, n)
    <2>1. listings[n].seller \in Accounts /\ primary \in [Accounts -> Names \cup {NULL}]
      BY <1>1 DEF BuyName, CanBuy, TypeInv, TypeOK, Listing
    <2>2. /\ MayTakeName(buyer)
          /\ DoTransfer(listings[n].seller, buyer, n)
          /\ primary' = [PrimaryWithout(listings[n].seller, n) EXCEPT ![buyer] = n]
          /\ UNCHANGED now
      BY <1>1 DEF BuyName, TransferName
    <2> QED
      BY <2>1, <2>2 DEF PrimaryWithout, HandOverStep
  <1>2. ASSUME NEW buyer \in Accounts, NEW recipient \in GiftRecipients, NEW n \in Names,
               BuyNameFor(buyer, recipient, n)
        PROVE  /\ listings[n].seller \in Accounts
               /\ recipient \in Accounts
               /\ HandOverStep(listings[n].seller, recipient, n)
    <2>1. /\ listings[n].seller \in Accounts
          /\ recipient \in Accounts
          /\ primary \in [Accounts -> Names \cup {NULL}]
      BY <1>2, InputsAssumption DEF BuyNameFor, CanBuy, TypeInv, TypeOK, Listing
    <2>2. /\ MayTakeName(recipient)
          /\ DoTransfer(listings[n].seller, recipient, n)
          /\ primary' = PrimaryWithout(listings[n].seller, n)
          /\ UNCHANGED now
      BY <1>2 DEF BuyNameFor, OfferBoughtName
    <2> QED
      BY <2>1, <2>2 DEF PrimaryWithout, HandOverStep
  <1>3. ASSUME NEW a \in Accounts, NEW t \in ListingExpiries, CreateListing(a, t)
        PROVE  IdleStep
    BY <1>3 DEF CreateListing, IdleStep
  <1>4. ASSUME NEW a \in Accounts, CancelListing(a)
        PROVE  IdleStep
    BY <1>4 DEF CancelListing, IdleStep
  <1> QED
    BY <1>1, <1>2, <1>3, <1>4 DEF MarketCall, StepKind

\* The remaining calls, the clock and stuttering.
LEMMA OtherCallKind ==
  ASSUME RecordCall \/ ManagerCall \/ Tick \/ UNCHANGED vars
  PROVE  StepKind
  <1>1. CASE RecordCall
    BY <1>1, InputsAssumption DEF RecordCall, StepKind
  <1>2. CASE ManagerCall
    <2>1. IdleStep
      BY <1>2 DEF ManagerCall, SetOfficial, AddReserved, RemoveReserved, IdleStep
    <2> QED
      BY <2>1 DEF StepKind
  <1>3. CASE Tick \/ UNCHANGED vars
    <2>1. IdleStep
      BY <1>3 DEF Tick, vars, IdleStep
    <2> QED
      BY <2>1 DEF StepKind
  <1> QED
    BY <1>1, <1>2, <1>3

\* Every step is of one of the kinds.
LEMMA StepKinds ==
  ASSUME TypeInv, [Next]_vars
  PROVE  StepKind
  BY LeaseCallKind, MarketCallKind, OtherCallKind DEF Next, StepKind

-----------------------------------------------------------------------------
(* Dropping subnames.                                                      *)

\* The step drops the subtrees of the names in C, and the subnames in R.
DropsTree(C, R) ==
  /\ \A s \in Subs :
       subnameRecords'[s] = IF s \in SubtreeOf(C) \cup R THEN NULL ELSE subnameRecords[s]
  /\ \A m \in Names : subNames'[m] = IF m \in C THEN {} ELSE subNames[m] \ R
  /\ \A m \in Names :
       children'[m] = IF m \in C THEN 0
                      ELSE children[m] - Cardinality({s \in R : Parent[s] = m})

\* At most one subname is revoked by itself, and it has a record.
Revocable(R) == R = {} \/ \E s \in Subs : R = {s} /\ HasRecord(s)

\* The lists lose what the records lose.
LEMMA DropSubtree ==
  ASSUME TypeInv, SubtreeConsistent,
         NEW C \in SUBSET Names, NEW R \in SUBSET Subs, DropsTree(C, R)
  PROVE  SubtreeConsistent'
  <1>1. \A s \in Subs : s \in SubtreeOf(C) <=> HasRecord(s) /\ Parent[s] \in C
    BY NodesAssumption DEF SubtreeOf, SubtreeConsistent
  <1>2. \A s \in Subs : HasRecord(s)' <=> HasRecord(s) /\ Parent[s] \notin C /\ s \notin R
    BY <1>1 DEF DropsTree, HasRecord
  <1>3. \A s \in Subs : HasRecord(s)' => subnameRecords'[s] = subnameRecords[s]
    BY DEF DropsTree, HasRecord
  <1>4. \A s \in Subs, m \in Names :
          s \in subNames'[m] <=> m \notin C /\ s \in subNames[m] /\ s \notin R
    BY DEF DropsTree
  <1>5. \A s \in Subs, m \in Names :
          s \in subNames[m] <=> HasRecord(s) /\ m = Parent[s]
    BY DEF SubtreeConsistent
  <1>6. \A s \in Subs, m \in Names :
          s \in subNames'[m] <=> HasRecord(s)' /\ m = Parent[s]
    BY <1>2, <1>4, <1>5
  <1>7. \A s \in Subs : HasRecord(s)' => subnameRecords'[s].parent = Parent[s]
    BY <1>2, <1>3 DEF SubtreeConsistent
  <1> QED
    BY <1>6, <1>7 DEF SubtreeConsistent

\* The subnames listed under a name are finitely many, and so counted.
LEMMA SubNamesFinite ==
  ASSUME TypeInv, NEW m \in Names
  PROVE  IsFiniteSet(subNames[m]) /\ Cardinality(subNames[m]) \in Nat
  <1>1. subNames[m] \in SUBSET Subs
    BY DEF TypeInv, TypeOK
  <1>2. IsFiniteSet(subNames[m])
    BY <1>1, NodesAssumption, FS_Subset
  <1> QED
    BY <1>2, FS_CardinalityType

\* The counters lose what the lists lose.
LEMMA DropChildren ==
  ASSUME TypeInv, SubtreeConsistent, ChildrenExact,
         NEW C \in SUBSET Names, NEW R \in SUBSET Subs, Revocable(R), DropsTree(C, R)
  PROVE  ChildrenExact'
  <1> SUFFICES ASSUME NEW m \in Names
               PROVE  children'[m] = Cardinality(subNames'[m]) /\ children'[m] <= Capacity
    BY DEF ChildrenExact
  <1>1. /\ children[m] = Cardinality(subNames[m])
        /\ children[m] <= Capacity
        /\ children[m] \in Nat
        /\ IsFiniteSet(subNames[m])
    BY SubNamesFinite DEF ChildrenExact
  <1>2. CASE m \in C
    <2>1. children'[m] = 0 /\ subNames'[m] = {}
      BY <1>2 DEF DropsTree
    <2> QED
      BY <2>1, FS_EmptySet, NumbersAssumption
  <1>3. CASE m \notin C
    <2>1. /\ children'[m] = children[m] - Cardinality({s \in R : Parent[s] = m})
          /\ subNames'[m] = subNames[m] \ R
      BY <1>3 DEF DropsTree
    <2>2. CASE {s \in R : Parent[s] = m} = {}
      <3>1. subNames[m] \ R = subNames[m]
        BY <2>2 DEF SubtreeConsistent, TypeInv, TypeOK
      <3>2. Cardinality({s \in R : Parent[s] = m}) = 0
        BY <2>2, FS_EmptySet, Zenon
      <3>3. children'[m] = children[m] - 0
        BY <2>1, <3>2, Zenon
      <3>4. children'[m] = children[m]
        BY <3>3, <1>1
      <3> QED
        BY <2>1, <3>1, <3>4, <1>1, Zenon
    <2>3. CASE {s \in R : Parent[s] = m} # {}
      <3>1. PICK s \in Subs : R = {s} /\ HasRecord(s) /\ Parent[s] = m
        BY <2>3 DEF Revocable
      <3>2. s \in subNames[m] /\ {r \in R : Parent[r] = m} = {s}
        BY <3>1 DEF SubtreeConsistent
      <3>3. Cardinality({s}) = 1
        BY FS_Singleton
      <3>4. Cardinality(subNames[m] \ {s}) = Cardinality(subNames[m]) - 1
        BY <3>2, <1>1, FS_RemoveElement
      <3>5. children'[m] = children[m] - 1 /\ subNames'[m] = subNames[m] \ {s}
        BY <2>1, <3>1, <3>2, <3>3
      <3> QED
        BY <3>4, <3>5, <1>1, NumbersAssumption
    <2> QED
      BY <2>2, <2>3
  <1> QED
    BY <1>2, <1>3

\* register drops the subtrees of the names it burns or takes over, and the
\* offer it revokes: the counter of a name that was free was zero already.
LEMMA RegisterTree ==
  ASSUME TypeInv, TreeInv, NEW to \in Accounts, NEW n \in Names,
         NEW B \in SUBSET Names, NEW R \in SUBSET Subs, RegisterStep(to, n, B, R)
  PROVE  /\ Wiped(n, B) \in SUBSET Names
         /\ Revocable(R)
         /\ DropsTree(Wiped(n, B), R)
  <1> DEFINE C == Wiped(n, B)
             Gone(m) == {s \in R : Parent[s] = m}
  <1>1. C \in SUBSET Names /\ B \subseteq C /\ C \subseteq B \cup {n}
    BY DEF Wiped
  <1>2. n \notin C => owner[n] = NULL
    BY DEF Wiped, IsFresh
  <1>3. /\ subnameRecords' = RecordsWithout(SubtreeOf(C) \cup R)
        /\ subNames' = [m \in Names |-> IF m \in C THEN {} ELSE subNames[m] \ R]
        /\ children' = [m \in Names |->
                          IF m \in B \cup {n} THEN 0
                          ELSE children[m] - Cardinality(Gone(m))]
    BY DEF RegisterStep, RegisterAfter, MintSubname
  <1>4. Revocable(R)
    BY DEF RegisterStep, Rejected, Revocable, InState
  <1>5. \A m \in Names : owner[m] = NULL => Gone(m) = {}
    BY DEF RegisterStep, Rejected, CanSubChildren
  <1> HIDE DEF C, Gone
  <1>6. \A m \in Names :
          children'[m] = IF m \in C THEN 0 ELSE children[m] - Cardinality(Gone(m))
    <2> SUFFICES ASSUME NEW m \in Names
                 PROVE  children'[m] =
                          IF m \in C THEN 0 ELSE children[m] - Cardinality(Gone(m))
      OBVIOUS
    <2>1. CASE m = n /\ n \notin C
      <3>1. children[n] = 0 /\ Gone(n) = {}
        BY <1>2, <1>5, <2>1 DEF TreeInv, LeaseConsistent
      <3>2. Cardinality(Gone(n)) = 0
        BY <3>1, FS_EmptySet
      <3> QED
        BY <1>3, <2>1, <3>1, <3>2
    <2>2. CASE ~(m = n /\ n \notin C)
      BY <1>1, <1>3, <2>2
    <2> QED
      BY <2>1, <2>2
  <1>7. \A s \in Subs :
          subnameRecords'[s] = IF s \in SubtreeOf(C) \cup R THEN NULL ELSE subnameRecords[s]
    BY <1>3 DEF RecordsWithout
  <1>8. \A m \in Names : subNames'[m] = IF m \in C THEN {} ELSE subNames[m] \ R
    BY <1>3
  <1>9. DropsTree(C, R)
    BY <1>6, <1>7, <1>8 DEF DropsTree, Gone
  <1> QED
    BY <1>1, <1>4, <1>9 DEF C

\* clear_subnames: on one name in do_burn and do_transfer, on none or one in a
\* mint.
LEMMA ClearTree ==
  ASSUME TypeInv, NEW C \in SUBSET Names, ClearSubnames(C)
  PROVE  Revocable({}) /\ DropsTree(C, {})
  <1>1. \A s \in Subs :
          subnameRecords'[s] =
            IF s \in SubtreeOf(C) \cup {} THEN NULL ELSE subnameRecords[s]
    BY DEF ClearSubnames, RecordsWithout
  <1>2. \A m \in Names : subNames'[m] = IF m \in C THEN {} ELSE subNames[m] \ {}
    BY DEF ClearSubnames
  <1>3. \A m \in Names : {s \in {} : Parent[s] = m} = {}
    OBVIOUS
  <1>4. \A m \in Names : Cardinality({s \in {} : Parent[s] = m}) = 0
    BY <1>3, FS_EmptySet, Zenon
  <1>5. \A m \in Names : children'[m] = IF m \in C THEN 0 ELSE children[m] - 0
    BY DEF ClearSubnames, TypeInv, TypeOK
  <1>6. \A m \in Names :
          children'[m] = IF m \in C THEN 0
                         ELSE children[m] - Cardinality({s \in {} : Parent[s] = m})
    BY <1>4, <1>5, Zenon
  <1> QED
    BY <1>1, <1>2, <1>6 DEF DropsTree, Revocable

\* revoke_subname and release_subname: only the parent lists the subname.
LEMMA DropSubnameTree ==
  ASSUME TypeInv, SubtreeConsistent, NEW s \in Subs, HasRecord(s),
         DropSubname(Parent[s], s)
  PROVE  Revocable({s}) /\ DropsTree({}, {s})
  <1>1. /\ subNames \in [Names -> SUBSET Subs]
        /\ children \in [Names -> Nat]
        /\ Parent[s] \in Names
    BY NodesAssumption DEF TypeInv, TypeOK
  <1>2. /\ subnameRecords' = RecordsWithout({s})
        /\ subNames' = [subNames EXCEPT ![Parent[s]] = @ \ {s}]
        /\ children' = [children EXCEPT ![Parent[s]] = @ - 1]
    BY DEF DropSubname
  <1>3. \A m \in Names : m # Parent[s] => s \notin subNames[m]
    BY DEF SubtreeConsistent
  <1>4. \A r \in Subs :
          subnameRecords'[r] =
            IF r \in SubtreeOf({}) \cup {s} THEN NULL ELSE subnameRecords[r]
    BY <1>2 DEF RecordsWithout, SubtreeOf
  <1>5. \A m \in Names : subNames'[m] = IF m \in {} THEN {} ELSE subNames[m] \ {s}
    BY <1>1, <1>2, <1>3
  <1>6. \A m \in Names :
          children'[m] = IF m \in {} THEN 0
                         ELSE children[m] - Cardinality({r \in {s} : Parent[r] = m})
    <2> SUFFICES ASSUME NEW m \in Names
                 PROVE  children'[m] =
                          children[m] - Cardinality({r \in {s} : Parent[r] = m})
      OBVIOUS
    <2>1. CASE m = Parent[s]
      <3>1. {r \in {s} : Parent[r] = m} = {s}
        BY <2>1
      <3>2. Cardinality({r \in {s} : Parent[r] = m}) = 1
        BY <3>1, FS_Singleton, Zenon
      <3>3. children'[m] = children[m] - 1
        BY <1>1, <1>2, <2>1
      <3> QED
        BY <3>2, <3>3, Zenon
    <2>2. CASE m # Parent[s]
      <3>1. {r \in {s} : Parent[r] = m} = {}
        BY <2>2
      <3>2. Cardinality({r \in {s} : Parent[r] = m}) = 0
        BY <3>1, FS_EmptySet, Zenon
      <3>3. children'[m] = children[m] - 0
        BY <1>1, <1>2, <2>2
      <3> QED
        BY <3>2, <3>3, Zenon
    <2> QED
      BY <2>1, <2>2
  <1> QED
    BY <1>4, <1>5, <1>6 DEF DropsTree, Revocable

-----------------------------------------------------------------------------
(* The invariant, one kind of step at a time.                              *)

\* What a step may do to a name: leave it leased, free it and everything
\* under it, or keep its three entries and add nothing to a free one.
LeasedAfter(m) == owner'[m] # NULL /\ expire'[m] # NULL /\ origin'[m] = "Root"

FreedAfter(m) ==
  /\ owner'[m] = NULL /\ expire'[m] = NULL /\ origin'[m] # "Root"
  /\ subNames'[m] = {} /\ dns'[m] = NULL /\ texts'[m] = NULL

KeptAfter(m) ==
  /\ owner'[m] = owner[m] /\ expire'[m] = expire[m] /\ origin'[m] = origin[m]
  /\ owner[m] = NULL => /\ subNames'[m] \subseteq subNames[m]
                        /\ dns'[m] \in {NULL, dns[m]}
                        /\ texts'[m] \in {NULL, texts[m]}

\* A step that does one of these to every name keeps LeaseConsistent.
LEMMA LeaseFromCases ==
  ASSUME LeaseConsistent, ChildrenExact',
         \A m \in Names : LeasedAfter(m) \/ FreedAfter(m) \/ KeptAfter(m)
  PROVE  LeaseConsistent'
  <1> SUFFICES ASSUME NEW m \in Names
               PROVE  /\ owner'[m] # NULL <=> expire'[m] # NULL
                      /\ owner'[m] # NULL <=> origin'[m] = "Root"
                      /\ owner'[m] = NULL =>
                           /\ subNames'[m] = {}
                           /\ children'[m] = 0
                           /\ dns'[m] = NULL
                           /\ texts'[m] = NULL
    BY DEF LeaseConsistent
  <1>1. subNames'[m] = {} => children'[m] = 0
    BY FS_EmptySet DEF ChildrenExact
  <1>2. CASE LeasedAfter(m)
    BY <1>2 DEF LeasedAfter
  <1>3. CASE FreedAfter(m)
    BY <1>1, <1>3 DEF FreedAfter
  <1>4. CASE KeptAfter(m)
    BY <1>1, <1>4 DEF KeptAfter, LeaseConsistent
  <1> QED
    BY <1>2, <1>3, <1>4

\* register leases n, frees the burned name and keeps the others.
LEMMA RegisterKeepsTree ==
  ASSUME TypeInv, TreeInv, NEW to \in Accounts, NEW n \in Names,
         NEW B \in SUBSET Names, NEW R \in SUBSET Subs, RegisterStep(to, n, B, R)
  PROVE  TreeInv'
  <1> DEFINE C == Wiped(n, B)
  <1>1. SubtreeConsistent' /\ ChildrenExact'
    BY RegisterTree, DropSubtree, DropChildren DEF TreeInv
  <1>2. /\ owner' = [m \in Names |->
                       IF m = n THEN to ELSE IF m \in B THEN NULL ELSE owner[m]]
        /\ origin' = [m \in Names |->
                        IF m = n THEN "Root" ELSE IF m \in B THEN NULL ELSE origin[m]]
        /\ expire' = [m \in Names |->
                        IF m = n THEN now + Duration
                        ELSE IF m \in B THEN NULL ELSE expire[m]]
        /\ subNames' = [m \in Names |-> IF m \in C THEN {} ELSE subNames[m] \ R]
        /\ dns' = DnsWithout(C)
        /\ texts' = TextsWithout(C)
    BY DEF RegisterStep, RegisterAfter, MintSubname
  <1>3. B \subseteq C
    BY DEF Wiped
  <1>4. now + Duration # NULL /\ to # NULL /\ NULL # "Root"
    <2>1. now \in Nat
      BY DEF TypeInv, TypeOK
    <2> QED
      BY <2>1, AccountsAssumption, NumbersAssumption, RecordAssumption
  <1> HIDE DEF C
  <1>5. ASSUME NEW m \in Names
        PROVE  LeasedAfter(m) \/ FreedAfter(m) \/ KeptAfter(m)
    <2>1. CASE m = n
      BY <1>2, <1>4, <2>1 DEF LeasedAfter
    <2>2. CASE m # n /\ m \in B
      BY <1>2, <1>3, <1>4, <2>2 DEF FreedAfter, DnsWithout, TextsWithout
    <2>3. CASE m # n /\ m \notin B
      BY <1>2, <2>3 DEF KeptAfter, DnsWithout, TextsWithout
    <2> QED
      BY <2>1, <2>2, <2>3
  <1> QED
    BY <1>1, <1>5, LeaseFromCases DEF TreeInv

\* do_burn frees the name.
LEMMA BurnKeepsTree ==
  ASSUME TypeInv, TreeInv, NEW a \in Accounts, NEW n \in Names, DoBurn(a, n)
  PROVE  TreeInv'
  <1>1. /\ ClearSubnames({n})
        /\ expire' = [expire EXCEPT ![n] = NULL]
        /\ origin' = [origin EXCEPT ![n] = NULL]
        /\ owner' = [owner EXCEPT ![n] = NULL]
        /\ dns' = DnsWithout({n})
        /\ texts' = TextsWithout({n})
    BY DEF DoBurn
  <1>2. SubtreeConsistent' /\ ChildrenExact'
    <2>1. {n} \in SUBSET Names
      OBVIOUS
    <2> QED
      BY <1>1, <2>1, ClearTree, DropSubtree, DropChildren DEF TreeInv
  <1>3. /\ owner \in [Names -> OptAccount]
        /\ expire \in [Names -> Nat \cup {NULL}]
        /\ origin \in [Names -> {"Root", NULL}]
    BY DEF TypeInv, TypeOK
  <1>4. \A m \in Names : subNames'[m] = IF m = n THEN {} ELSE subNames[m]
    BY <1>1 DEF ClearSubnames
  <1>5. ASSUME NEW m \in Names
        PROVE  FreedAfter(m) \/ KeptAfter(m)
    <2>1. CASE m = n
      BY <1>1, <1>3, <1>4, <2>1, RecordAssumption DEF FreedAfter, DnsWithout, TextsWithout
    <2>2. CASE m # n
      BY <1>1, <1>3, <1>4, <2>2 DEF KeptAfter, DnsWithout, TextsWithout
    <2> QED
      BY <2>1, <2>2
  <1> QED
    BY <1>2, <1>5, LeaseFromCases DEF TreeInv

\* do_transfer keeps the name leased.
LEMMA HandOverKeepsTree ==
  ASSUME TypeInv, TreeInv, NEW from \in Accounts, NEW to \in Accounts,
         NEW n \in Names, DoTransfer(from, to, n)
  PROVE  TreeInv'
  <1>1. /\ ClearSubnames({n})
        /\ owner' = [owner EXCEPT ![n] = to]
        /\ dns' = DnsWithout({n})
        /\ UNCHANGED <<expire, origin, texts>>
        /\ origin[n] = "Root" /\ expire[n] # NULL
    BY DEF DoTransfer, CanTransfer, Renewable
  <1>2. SubtreeConsistent' /\ ChildrenExact'
    <2>1. {n} \in SUBSET Names
      OBVIOUS
    <2> QED
      BY <1>1, <2>1, ClearTree, DropSubtree, DropChildren DEF TreeInv
  <1>3. owner \in [Names -> OptAccount]
    BY DEF TypeInv, TypeOK
  <1>4. \A m \in Names : subNames'[m] = IF m = n THEN {} ELSE subNames[m]
    BY <1>1 DEF ClearSubnames
  <1>5. ASSUME NEW m \in Names
        PROVE  LeasedAfter(m) \/ KeptAfter(m)
    <2>1. CASE m = n
      BY <1>1, <1>3, <2>1, AccountsAssumption DEF LeasedAfter
    <2>2. CASE m # n
      BY <1>1, <1>3, <1>4, <2>2 DEF KeptAfter, DnsWithout
    <2> QED
      BY <2>1, <2>2
  <1> QED
    BY <1>2, <1>5, LeaseFromCases DEF TreeInv

\* A step that leaves the subname tables and the records of free names alone,
\* and neither starts nor ends a lease.
LEMMA LeaseKeepsTree ==
  ASSUME TreeInv, UNCHANGED <<owner, origin, children, subNames, subnameRecords>>,
         \A m \in Names : /\ expire'[m] # NULL <=> expire[m] # NULL
                          /\ owner[m] = NULL => /\ dns'[m] = dns[m]
                                                /\ texts'[m] = texts[m]
  PROVE  TreeInv'
  <1>1. SubtreeConsistent'
    BY DEF TreeInv, SubtreeConsistent, HasRecord
  <1>2. ChildrenExact'
    BY DEF TreeInv, ChildrenExact
  <1>3. LeaseConsistent'
    BY DEF TreeInv, LeaseConsistent
  <1> QED
    BY <1>1, <1>2, <1>3 DEF TreeInv

\* renew writes the lease of a name that has one.
LEMMA RenewKeepsTree ==
  ASSUME TypeInv, TreeInv, NEW a \in Accounts, Renew(a)
  PROVE  TreeInv'
  <1>1. /\ now \in Nat
        /\ expire \in [Names -> Nat \cup {NULL}]
        /\ primary \in [Accounts -> Names \cup {NULL}]
    BY DEF TypeInv, TypeOK
  <1>2. /\ primary[a] # NULL
        /\ expire[primary[a]] # NULL
        /\ expire' = [expire EXCEPT ![primary[a]] = now + Duration]
        /\ UNCHANGED <<owner, origin, children, subNames, subnameRecords, dns, texts>>
    BY DEF Renew, StillValid, subVars, recordVars
  <1>3. now + Duration # NULL
    BY <1>1, NumbersAssumption
  <1>4. \A m \in Names : expire'[m] # NULL <=> expire[m] # NULL
    BY <1>1, <1>2, <1>3
  <1> QED
    BY <1>2, <1>4, LeaseKeepsTree

\* Only the owner of a name writes its records and texts, so a free name gets none.
LEMMA RecordKeepsTree ==
  ASSUME TypeInv, TreeInv, NEW a \in Accounts, NEW n \in Names,
         SetRecord(a, n) \/ SetText(a, n)
  PROVE  TreeInv'
  <1>1. owner[n] # NULL
    BY AccountsAssumption DEF SetRecord, SetText, CheckNodeUseable
  <1>2. UNCHANGED <<owner, origin, children, expire, subNames, subnameRecords>>
    BY DEF SetRecord, SetText, leaseVars, subVars
  <1>3. dns \in [Names -> OptAccount] /\ texts \in [Names -> OptAccount]
    BY DEF TypeInv, TypeOK
  <1>4. \A m \in Names : m # n => dns'[m] = dns[m] /\ texts'[m] = texts[m]
    BY <1>3 DEF SetRecord, SetText
  <1> QED
    BY <1>1, <1>2, <1>4, LeaseKeepsTree

\* offer_subname enters the new subname everywhere, within the capacity.
LEMMA OfferKeepsTree ==
  ASSUME TypeInv, TreeInv, NEW a \in Accounts, NEW s \in Subs, NEW target \in Accounts,
         OfferSubdomain(a, s, target)
  PROVE  TreeInv'
  <1> DEFINE p == Parent[s]
             rec == [parent |-> p, target |-> target, state |-> "Offered"]
  <1>1. /\ p \in Names
        /\ children \in [Names -> Nat]
        /\ subNames \in [Names -> SUBSET Subs]
        /\ subnameRecords \in [Subs -> SubnameRecord \cup {NULL}]
    BY NodesAssumption DEF TypeInv, TypeOK
  <1>2. /\ owner[p] # NULL
        /\ ~HasRecord(s)
        /\ children[p] < Capacity
        /\ children' = [children EXCEPT ![p] = @ + 1]
        /\ subnameRecords' = [subnameRecords EXCEPT ![s] = rec]
        /\ subNames' = [subNames EXCEPT ![p] = @ \cup {s}]
        /\ UNCHANGED <<owner, expire, origin, dns, texts>>
    BY DEF OfferSubdomain, OfferSubname, recordVars
  <1>3. rec # NULL /\ rec.parent = p
    <2>1. rec \in SubnameRecord
      BY <1>1 DEF SubnameRecord, SubnameState
    <2>2. rec.parent = p
      OBVIOUS
    <2> HIDE DEF rec
    <2> QED
      BY <2>1, <2>2, RecordAssumption
  <1> HIDE DEF p, rec
  <1>4. /\ subnameRecords'[s] = rec
        /\ \A r \in Subs : r # s => subnameRecords'[r] = subnameRecords[r]
    BY <1>1, <1>2
  <1>5. \A r \in Subs, m \in Names :
          r \in subNames'[m] <=> r \in subNames[m] \/ (r = s /\ m = p)
    BY <1>1, <1>2
  <1>6. \A r \in Subs : HasRecord(r)' <=> HasRecord(r) \/ r = s
    BY <1>3, <1>4 DEF HasRecord
  <1>7. SubtreeConsistent'
    <2>1. \A r \in Subs, m \in Names :
            r \in subNames[m] <=> HasRecord(r) /\ m = Parent[r]
      BY DEF TreeInv, SubtreeConsistent
    <2>2. \A r \in Subs, m \in Names :
            r \in subNames'[m] <=> HasRecord(r)' /\ m = Parent[r]
      BY <1>2, <1>5, <1>6, <2>1 DEF p
    <2>3. \A r \in Subs : HasRecord(r)' => subnameRecords'[r].parent = Parent[r]
      BY <1>3, <1>4, <1>6 DEF p, TreeInv, SubtreeConsistent
    <2> QED
      BY <2>2, <2>3 DEF SubtreeConsistent
  <1>8. ChildrenExact'
    <2> SUFFICES ASSUME NEW m \in Names
                 PROVE  /\ children'[m] = Cardinality(subNames'[m])
                        /\ children'[m] <= Capacity
      BY DEF ChildrenExact
    <2>1. /\ children[m] = Cardinality(subNames[m])
          /\ children[m] <= Capacity
          /\ IsFiniteSet(subNames[m])
      BY SubNamesFinite DEF TreeInv, ChildrenExact
    <2>2. CASE m = p
      <3>1. s \notin subNames[p]
        BY <1>1, <1>2 DEF TreeInv, SubtreeConsistent
      <3>2. Cardinality(subNames[p] \cup {s}) = Cardinality(subNames[p]) + 1
        BY <2>1, <2>2, <3>1, FS_AddElement
      <3>3. children'[p] = children[p] + 1 /\ subNames'[p] = subNames[p] \cup {s}
        BY <1>1, <1>2
      <3>4. children'[p] <= Capacity
        BY <1>1, <1>2, <3>3, NumbersAssumption
      <3> QED
        BY <2>1, <2>2, <3>2, <3>3, <3>4
    <2>3. CASE m # p
      BY <1>1, <1>2, <2>1, <2>3
    <2> QED
      BY <2>2, <2>3
  <1>9. \A m \in Names : LeasedAfter(m) \/ FreedAfter(m) \/ KeptAfter(m)
    <2>1. \A m \in Names : owner[m] = NULL => subNames'[m] = subNames[m]
      BY <1>1, <1>2
    <2> QED
      BY <1>2, <2>1 DEF KeptAfter
  <1> QED
    BY <1>7, <1>8, <1>9, LeaseFromCases DEF TreeInv

\* Accepting and rejecting change the state of a record and nothing else here.
LEMMA AnswerKeepsTree ==
  ASSUME TypeInv, TreeInv, NEW a \in Accounts, NEW s \in Subs,
         AcceptSubdomain(a, s) \/ RejectSubdomain(a, s)
  PROVE  TreeInv'
  <1>1. /\ subnameRecords \in [Subs -> SubnameRecord \cup {NULL}]
        /\ HasRecord(s)
        /\ UNCHANGED <<owner, origin, expire, children, subNames, dns, texts>>
    BY DEF AcceptSubdomain, AcceptSubnameOffer, RejectSubdomain, RejectSubnameOffer,
           InState, recordVars, TypeInv, TypeOK
  <1>2. \/ subnameRecords' = [subnameRecords EXCEPT ![s].state = "Active"]
        \/ subnameRecords' = [subnameRecords EXCEPT ![s].state = "Rejected"]
    BY DEF AcceptSubdomain, AcceptSubnameOffer, RejectSubdomain, RejectSubnameOffer
  <1>3. subnameRecords[s] \in SubnameRecord
    BY <1>1 DEF HasRecord
  <1>4. \A r \in Subs : r # s => subnameRecords'[r] = subnameRecords[r]
    BY <1>1, <1>2
  <1>5. subnameRecords'[s] # NULL /\ subnameRecords'[s].parent = subnameRecords[s].parent
    <2>1. \/ subnameRecords'[s] = [subnameRecords[s] EXCEPT !.state = "Active"]
          \/ subnameRecords'[s] = [subnameRecords[s] EXCEPT !.state = "Rejected"]
      BY <1>1, <1>2
    <2> QED
      BY <1>3, <2>1, RecordAssumption DEF SubnameRecord, SubnameState
  <1>6. SubtreeConsistent'
    BY <1>1, <1>4, <1>5 DEF TreeInv, SubtreeConsistent, HasRecord
  <1>7. ChildrenExact' /\ LeaseConsistent'
    BY <1>1 DEF TreeInv, ChildrenExact, LeaseConsistent
  <1> QED
    BY <1>6, <1>7 DEF TreeInv

\* Revoking and releasing drop one subname.
LEMMA DropKeepsTree ==
  ASSUME TypeInv, TreeInv, NEW a \in Accounts, NEW s \in Subs,
         RevokeSubdomain(a, s) \/ ReleaseSubdomain(a, s)
  PROVE  TreeInv'
  <1>1. HasRecord(s) /\ DropSubname(subnameRecords[s].parent, s)
    BY DEF RevokeSubdomain, RevokeSubname, ReleaseSubdomain, ReleaseSubname, InState
  <1>2. DropSubname(Parent[s], s)
    BY <1>1 DEF TypeInv, RecordParents
  <1>3. SubtreeConsistent' /\ ChildrenExact'
    BY <1>1, <1>2, DropSubnameTree, DropSubtree, DropChildren DEF TreeInv
  <1>4. UNCHANGED <<owner, expire, origin, dns, texts>>
    BY DEF RevokeSubdomain, ReleaseSubdomain
  <1>5. \A m \in Names : subNames'[m] \subseteq subNames[m]
    <2>1. subNames' = [subNames EXCEPT ![Parent[s]] = @ \ {s}]
      BY <1>2 DEF DropSubname
    <2>2. subNames \in [Names -> SUBSET Subs]
      BY DEF TypeInv, TypeOK
    <2> QED
      BY <2>1, <2>2
  <1>6. \A m \in Names : LeasedAfter(m) \/ FreedAfter(m) \/ KeptAfter(m)
    BY <1>4, <1>5 DEF KeptAfter
  <1> QED
    BY <1>3, <1>6, LeaseFromCases DEF TreeInv

\* The calls on subdomains.
LEMMA SubdomainKeepsTree ==
  ASSUME TypeInv, TreeInv, SubdomainCall
  PROVE  TreeInv'
  BY OfferKeepsTree, AnswerKeepsTree, DropKeepsTree DEF SubdomainCall

\* Every step keeps the tables in agreement.
LEMMA StepTree ==
  ASSUME TypeInv, TreeInv, [Next]_vars
  PROVE  TreeInv'
  <1>1. ASSUME NEW a \in Accounts, NEW n \in Names, BurnStep(a, n)
        PROVE  TreeInv'
    BY <1>1, BurnKeepsTree DEF BurnStep
  <1>2. ASSUME NEW from \in Accounts, NEW to \in Accounts, NEW n \in Names,
               HandOverStep(from, to, n)
        PROVE  TreeInv'
    BY <1>2, HandOverKeepsTree DEF HandOverStep
  <1>3. ASSUME NEW a \in Accounts, NEW n \in Names, AcceptOfferedName(a, n)
        PROVE  TreeInv'
    BY <1>3, LeaseKeepsTree DEF AcceptOfferedName, leaseVars, subVars
  <1>4. ASSUME IdleStep
        PROVE  TreeInv'
    BY <1>4, LeaseKeepsTree DEF IdleStep, leaseVars, subVars, recordVars
  <1> QED
    BY <1>1, <1>2, <1>3, <1>4, StepKinds, RegisterKeepsTree, RenewKeepsTree,
       SubdomainKeepsTree, RecordKeepsTree
       DEF StepKind

\* At genesis nothing is registered.
LEMMA InitTree == Init => TreeInv
  <1> SUFFICES ASSUME Init
               PROVE  TreeInv
    OBVIOUS
  <1>1. SubtreeConsistent
    BY DEF Init, SubtreeConsistent, HasRecord
  <1>2. ChildrenExact
    BY FS_EmptySet, NumbersAssumption DEF Init, ChildrenExact
  <1>3. LeaseConsistent
    BY RecordAssumption DEF Init, LeaseConsistent
  <1> QED
    BY <1>1, <1>2, <1>3 DEF TreeInv

\* The tables agree at every moment.
THEOREM TreeInvariance == Spec => []TreeInv
  <1>1. TypeInv /\ TreeInv /\ [Next]_vars => TreeInv'
    BY StepTree
  <1> QED
    BY TypeInvariance, InitTree, <1>1, PTL DEF Spec

\* The token, the lease and the trace of a name are there together or not at
\* all, and a free name has no subnames, records or texts.
THEOREM LeaseAlways == Spec => []LeaseConsistent
  BY TreeInvariance, PTL DEF TreeInv

\* SubNames lists exactly the subnames with a record, under the parent the
\* record names.
THEOREM SubtreeAlways == Spec => []SubtreeConsistent
  BY TreeInvariance, PTL DEF TreeInv

\* The children counter is the number of subnames and within the capacity.
THEOREM ChildrenAlways == Spec => []ChildrenExact
  BY TreeInvariance, PTL DEF TreeInv

-----------------------------------------------------------------------------
(* Handing over a name.                                                    *)

HandoverClean ==
  \A n \in Names :
    owner'[n] # owner[n] =>
      /\ subNames'[n] = {}
      /\ children'[n] = 0
      /\ dns'[n] = NULL
      /\ ss58'[n] = owner'[n]
      /\ \A s \in Subs : Parent[s] = n => subnameRecords'[s] = NULL

\* Where the list of a name is empty after a step, its counter is zero and no
\* record is left under it.
LEMMA HandoverFromList ==
  ASSUME TreeInv',
         \A m \in Names : owner'[m] # owner[m] =>
           subNames'[m] = {} /\ dns'[m] = NULL /\ ss58'[m] = owner'[m]
  PROVE  HandoverClean
  <1> SUFFICES ASSUME NEW m \in Names, owner'[m] # owner[m]
               PROVE  /\ subNames'[m] = {}
                      /\ children'[m] = 0
                      /\ dns'[m] = NULL
                      /\ ss58'[m] = owner'[m]
                      /\ \A s \in Subs : Parent[s] = m => subnameRecords'[s] = NULL
    BY DEF HandoverClean
  <1>1. subNames'[m] = {} /\ dns'[m] = NULL /\ ss58'[m] = owner'[m]
    OBVIOUS
  <1>2. children'[m] = 0
    BY <1>1, FS_EmptySet DEF TreeInv, ChildrenExact
  <1>3. \A s \in Subs : Parent[s] = m => subnameRecords'[s] = NULL
    BY <1>1 DEF TreeInv, SubtreeConsistent, HasRecord
  <1> QED
    BY <1>1, <1>2, <1>3

\* register wipes what it burns or takes over; what it mints had nothing.
LEMMA RegisterHandover ==
  ASSUME TypeInv, TreeInv, TreeInv', NEW to \in Accounts, NEW n \in Names,
         NEW B \in SUBSET Names, NEW R \in SUBSET Subs, RegisterStep(to, n, B, R)
  PROVE  HandoverClean
  <1> DEFINE C == Wiped(n, B)
             W == C \cup SubtreeOf(C)
  <1>1. /\ owner' = [m \in Names |->
                       IF m = n THEN to ELSE IF m \in B THEN NULL ELSE owner[m]]
        /\ subNames' = [m \in Names |-> IF m \in C THEN {} ELSE subNames[m] \ R]
        /\ dns' = DnsWithout(C)
        /\ ss58' = Ss58After(W, n, to)
    BY DEF RegisterStep, RegisterAfter, MintSubname
  <1>2. B \subseteq C /\ (n \notin C => owner[n] = NULL) /\ C \subseteq W
    BY DEF Wiped, IsFresh
  <1> HIDE DEF C, W
  <1>3. ASSUME NEW m \in Names, owner'[m] # owner[m]
        PROVE  subNames'[m] = {} /\ dns'[m] = NULL /\ ss58'[m] = owner'[m]
    <2>1. m = n \/ m \in B
      BY <1>1, <1>3
    <2>2. m \in Nodes
      BY DEF Nodes
    <2>3. CASE m \in C
      BY <1>1, <1>2, <2>1, <2>2, <2>3 DEF DnsWithout, Ss58After
    <2>4. CASE m \notin C
      <3>1. m = n /\ subNames[n] = {} /\ dns[n] = NULL
        BY <1>2, <2>1, <2>4 DEF TreeInv, LeaseConsistent
      <3> QED
        BY <1>1, <2>2, <2>4, <3>1 DEF DnsWithout, Ss58After
    <2> QED
      BY <2>3, <2>4
  <1> QED
    BY <1>3, HandoverFromList

\* Every step that moves a token cleans up under it.
LEMMA StepHandover ==
  ASSUME TypeInv, TreeInv, TreeInv', [Next]_vars
  PROVE  HandoverClean
  <1>1. ASSUME NEW a \in Accounts, NEW n \in Names, BurnStep(a, n)
        PROVE  HandoverClean
    <2>1. /\ owner' = [owner EXCEPT ![n] = NULL]
          /\ subNames' = [m \in Names |-> IF m \in {n} THEN {} ELSE subNames[m]]
          /\ dns' = DnsWithout({n})
          /\ ss58' = Ss58Without({n} \cup subNames[n])
      BY <1>1 DEF BurnStep, DoBurn, ClearSubnames
    <2>2. owner \in [Names -> OptAccount] /\ n \in Nodes
      BY DEF TypeInv, TypeOK, Nodes
    <2>3. \A m \in Names : owner'[m] # owner[m] =>
            subNames'[m] = {} /\ dns'[m] = NULL /\ ss58'[m] = owner'[m]
      BY <2>1, <2>2 DEF DnsWithout, Ss58Without
    <2> QED
      BY <2>3, HandoverFromList
  <1>2. ASSUME NEW from \in Accounts, NEW to \in Accounts, NEW n \in Names,
               HandOverStep(from, to, n)
        PROVE  HandoverClean
    <2>1. /\ owner' = [owner EXCEPT ![n] = to]
          /\ subNames' = [m \in Names |-> IF m \in {n} THEN {} ELSE subNames[m]]
          /\ dns' = DnsWithout({n})
          /\ ss58' = Ss58After(subNames[n], n, to)
      BY <1>2 DEF HandOverStep, DoTransfer, ClearSubnames
    <2>2. owner \in [Names -> OptAccount] /\ n \in Nodes
      BY DEF TypeInv, TypeOK, Nodes
    <2>3. \A m \in Names : owner'[m] # owner[m] =>
            subNames'[m] = {} /\ dns'[m] = NULL /\ ss58'[m] = owner'[m]
      BY <2>1, <2>2 DEF DnsWithout, Ss58After
    <2> QED
      BY <2>3, HandoverFromList
  <1>3. ASSUME UNCHANGED owner
        PROVE  HandoverClean
    BY <1>3 DEF HandoverClean
  <1>4. SubdomainCall => UNCHANGED owner
    BY DEF SubdomainCall, OfferSubdomain, AcceptSubdomain, RejectSubdomain,
           RevokeSubdomain, ReleaseSubdomain
  <1>5. \A a \in Accounts, n \in Names :
          AcceptOfferedName(a, n) \/ SetRecord(a, n) \/ SetText(a, n) => UNCHANGED owner
    BY DEF AcceptOfferedName, SetRecord, SetText, leaseVars
  <1>6. \A a \in Accounts : Renew(a) => UNCHANGED owner
    BY DEF Renew
  <1>7. IdleStep => UNCHANGED owner
    BY DEF IdleStep, leaseVars
  <1> QED
    BY <1>1, <1>2, <1>3, <1>4, <1>5, <1>6, <1>7, StepKinds, RegisterHandover
       DEF StepKind

\* Whichever call moves a token, and to whom, the same step empties the
\* subtree, resets the counter, drops the records and repoints SS58.
THEOREM HandoverAlwaysClean == Spec => CleanHandover
  <1>1. TypeInv /\ TreeInv /\ TreeInv' /\ [Next]_vars => HandoverClean
    BY StepHandover
  <1> QED
    BY TypeInvariance, TreeInvariance, <1>1, PTL DEF Spec, CleanHandover, HandoverClean

-----------------------------------------------------------------------------
(* The refinement of NameLease.  Clock, holder and term of the contract    *)
(* are now, owner and expire.  Two facts carry it: a name has an owner     *)
(* exactly while it has a lease (LeaseConsistent), for renew and transfer  *)
(* look at the lease and the contract at the holder; and no lease runs     *)
(* past one term from now (TermInv), for a renewal may not shorten it.     *)

TermInv == \A n \in Names : expire[n] # NULL => expire[n] <= now + Duration

\* A step keeps TermInv if it gives out whole terms only.
LEMMA TermFromCases ==
  ASSUME TypeInv, TermInv, now' = now \/ now' = now + 1,
         \A n \in Names : expire'[n] \in {expire[n], NULL, now + Duration}
  PROVE  TermInv'
  <1> SUFFICES ASSUME NEW n \in Names, expire'[n] # NULL
               PROVE  expire'[n] <= now' + Duration
    BY DEF TermInv
  <1>1. now \in Nat /\ Duration \in Nat /\ expire[n] \in Nat \cup {NULL}
    BY NumbersAssumption DEF TypeInv, TypeOK
  <1>2. expire'[n] \in Nat /\ expire'[n] <= now + Duration
    <2>0. now + Duration \in Nat /\ now + Duration <= now + Duration
      BY <1>1
    <2>1. CASE expire'[n] = now + Duration
      BY <2>0, <2>1
    <2>2. CASE expire'[n] = expire[n]
      <3>1. expire[n] # NULL
        BY <2>2
      <3>2. expire[n] <= now + Duration
        BY <3>1 DEF TermInv
      <3> QED
        BY <1>1, <2>2, <3>1, <3>2
    <2>3. expire'[n] = expire[n] \/ expire'[n] = now + Duration
      OBVIOUS
    <2> QED
      BY <2>1, <2>2, <2>3
  <1> QED
    BY <1>1, <1>2

\* The calls other than register, renew and burns leave the leases alone.
LEMMA LeasesAlone ==
  /\ SubdomainCall => UNCHANGED <<now, owner, expire>>
  /\ \A a \in Accounts, n \in Names :
       AcceptOfferedName(a, n) \/ SetRecord(a, n) \/ SetText(a, n)
         => UNCHANGED <<now, owner, expire>>
  <1>1. SubdomainCall => UNCHANGED <<now, owner, expire>>
    BY DEF SubdomainCall, OfferSubdomain, AcceptSubdomain, RejectSubdomain,
           RevokeSubdomain, ReleaseSubdomain
  <1>2. \A a \in Accounts, n \in Names :
          AcceptOfferedName(a, n) \/ SetRecord(a, n) \/ SetText(a, n)
            => UNCHANGED <<now, owner, expire>>
    BY DEF AcceptOfferedName, SetRecord, SetText, leaseVars
  <1> QED
    BY <1>1, <1>2

\* Each kind of step, seen through the refinement mapping.
LEMMA RegisterTakes ==
  ASSUME TypeInv, TreeInv, NEW to \in Accounts, NEW n \in Names,
         NEW B \in SUBSET Names, NEW R \in SUBSET Subs, RegisterStep(to, n, B, R)
  PROVE  /\ Lease!LeaseNext
         /\ UNCHANGED now
         /\ \A m \in Names : expire'[m] \in {expire[m], NULL, now + Duration}
  <1>1. /\ owner' = [m \in Names |->
                       IF m = n THEN to ELSE IF m \in B THEN NULL ELSE owner[m]]
        /\ expire' = [m \in Names |->
                        IF m = n THEN now + Duration
                        ELSE IF m \in B THEN NULL ELSE expire[m]]
        /\ UNCHANGED now
        /\ IsFresh(n, B) \/ Registrable(n)
    BY DEF RegisterStep, RegisterAfter, MintSubname, CanMint
  <1>2. B = {} \/ \E g \in Names : B = {g} /\ owner[g] # NULL
    BY AccountsAssumption DEF RegisterStep, Rejected
  <1>3. owner[n] = NULL \/ n \in B \/ (owner[n] # NULL /\ now > expire[n] + Grace)
    BY <1>1 DEF IsFresh, Registrable
  <1>4. Lease!Take(n, to, B)
    BY <1>1, <1>2, <1>3 DEF Lease!Take, Lease!Held, Lease!Lapsed
  <1>5. Lease!LeaseNext
    BY <1>2, <1>4 DEF Lease!LeaseNext
  <1>6. \A m \in Names : expire'[m] \in {expire[m], NULL, now + Duration}
    BY <1>1
  <1> QED
    BY <1>1, <1>5, <1>6

\* Burning a name gives up its lease.
LEMMA BurnDropsLease ==
  ASSUME TypeInv, NEW a \in Accounts, NEW n \in Names, BurnStep(a, n)
  PROVE  /\ Lease!LeaseNext
         /\ UNCHANGED now
         /\ \A m \in Names : expire'[m] \in {expire[m], NULL, now + Duration}
  <1>1. /\ owner[n] # NULL
        /\ owner' = [owner EXCEPT ![n] = NULL]
        /\ expire' = [expire EXCEPT ![n] = NULL]
        /\ UNCHANGED now
    BY AccountsAssumption DEF BurnStep, DoBurn, CanBurn
  <1>2. Lease!LeaseNext
    BY <1>1 DEF Lease!LeaseNext, Lease!Drop, Lease!Held
  <1>3. expire \in [Names -> Nat \cup {NULL}]
    BY DEF TypeInv, TypeOK
  <1> QED
    BY <1>1, <1>2, <1>3

\* do_transfer gives the lease with its remaining time.
LEMMA HandOverGives ==
  ASSUME TypeInv, NEW from \in Accounts, NEW to \in Accounts, NEW n \in Names,
         HandOverStep(from, to, n)
  PROVE  Lease!LeaseNext /\ UNCHANGED <<now, expire>>
  <1>1. /\ owner[n] # NULL
        /\ now < expire[n] + Grace
        /\ owner' = [owner EXCEPT ![n] = to]
        /\ UNCHANGED <<now, expire>>
    BY AccountsAssumption DEF HandOverStep, DoTransfer, CanTransfer, Renewable
  <1> QED
    BY <1>1 DEF Lease!LeaseNext, Lease!Give, Lease!Held

\* renew extends a lease that is held and has not lapsed.
LEMMA RenewExtends ==
  ASSUME TypeInv, TreeInv, TermInv, NEW a \in Accounts, Renew(a)
  PROVE  /\ Lease!LeaseNext
         /\ UNCHANGED now
         /\ \A m \in Names : expire'[m] \in {expire[m], NULL, now + Duration}
  <1>1. /\ primary[a] # NULL
        /\ StillValid(primary[a])
        /\ expire' = [expire EXCEPT ![primary[a]] = now + Duration]
        /\ UNCHANGED <<now, owner>>
    BY DEF Renew
  <1>2. /\ now \in Nat
        /\ expire \in [Names -> Nat \cup {NULL}]
        /\ primary[a] \in Names
    BY <1>1 DEF TypeInv, TypeOK
  <1>3. /\ owner[primary[a]] # NULL
        /\ expire[primary[a]] <= now + Duration
        /\ now <= expire[primary[a]] + Grace
        /\ expire[primary[a]] \in Nat
    BY <1>1, <1>2 DEF StillValid, TreeInv, LeaseConsistent, TermInv
  <1>4. ~(now > expire[primary[a]] + Grace)
    <2>1. expire[primary[a]] + Grace \in Nat
      BY <1>3, NumbersAssumption
    <2> QED
      BY <1>2, <1>3, <2>1
  <1>5. Lease!Extend(primary[a])
    BY <1>1, <1>3, <1>4 DEF Lease!Extend, Lease!Held, Lease!Lapsed
  <1>6. Lease!LeaseNext
    BY <1>2, <1>5 DEF Lease!LeaseNext
  <1> QED
    BY <1>1, <1>2, <1>6

\* Every step is a step of the contract or leaves its variables alone, and no
\* lease comes to run past one term.
LEMMA StepLease ==
  ASSUME TypeInv, TreeInv, TermInv, [Next]_vars
  PROVE  [Lease!LeaseNext]_(Lease!leaseState) /\ TermInv'
  <1> DEFINE Allowed == /\ [Lease!LeaseNext]_(Lease!leaseState)
                        /\ now' = now \/ now' = now + 1
                        /\ \A m \in Names :
                             expire'[m] \in {expire[m], NULL, now + Duration}
  <1>1. ASSUME NEW from \in Accounts, NEW to \in Accounts, NEW n \in Names,
               HandOverStep(from, to, n)
        PROVE  Allowed
    BY <1>1, HandOverGives
  <1>2. ASSUME UNCHANGED <<now, owner, expire>>
        PROVE  Allowed
    BY <1>2 DEF Lease!leaseState
  <1>3. ASSUME IdleStep
        PROVE  Allowed
    <2>1. UNCHANGED <<owner, expire>> /\ (now' = now \/ now' = now + 1)
      BY <1>3 DEF IdleStep, leaseVars
    <2> QED
      BY <2>1 DEF Lease!leaseState, Lease!LeaseNext, Lease!Advance
  <1>4. ASSUME NEW to \in Accounts, NEW n \in Names, NEW B \in SUBSET Names,
               NEW R \in SUBSET Subs, RegisterStep(to, n, B, R)
        PROVE  Allowed
    BY <1>4, RegisterTakes
  <1>5. ASSUME NEW a \in Accounts, NEW n \in Names, BurnStep(a, n)
        PROVE  Allowed
    BY <1>5, BurnDropsLease
  <1>6. ASSUME NEW a \in Accounts, Renew(a)
        PROVE  Allowed
    BY <1>6, RenewExtends
  <1> HIDE DEF Allowed
  <1>7. Allowed
    BY <1>1, <1>2, <1>3, <1>4, <1>5, <1>6, StepKinds, LeasesAlone DEF StepKind
  <1> QED
    BY <1>7, TermFromCases DEF Allowed

\* Who decides.  register touches the leases of the name it registers, free or
\* lapsed, and of the gift it rejects, which the caller must own.
LEMMA RegisterDecides ==
  ASSUME \/ \E to \in Accounts, n \in Names : Register(to, n)
         \/ \E caller, to \in Accounts, n, g \in Names :
               RegisterRejectingName(caller, to, n, g)
         \/ \E caller, to \in Accounts, n \in Names, s \in Subs :
               RegisterRejectingSubname(caller, to, n, s)
  PROVE  HolderDecides
  <1>1. ASSUME NEW to \in Accounts, NEW n \in Names, NEW B \in SUBSET Names,
               NEW R \in SUBSET Subs, RegisterAfter(to, n, B, R)
        PROVE  \A m \in Names :
                 \/ m \in B
                 \/ owner[m] = NULL \/ Registrable(m)
                 \/ owner'[m] = owner[m] /\ expire'[m] = expire[m]
    BY <1>1 DEF RegisterAfter, MintSubname, CanMint, IsFresh
  <1>2. ASSUME NEW to \in Accounts, NEW n \in Names, Register(to, n)
        PROVE  HolderDecides
    <2>1. RegisterAfter(to, n, {}, {}) /\ {} \in SUBSET Names /\ {} \in SUBSET Subs
      BY <1>2 DEF Register
    <2> QED
      BY <1>1, <2>1 DEF HolderDecides
  <1>3. ASSUME NEW caller \in Accounts, NEW to \in Accounts, NEW n \in Names,
               NEW s \in Subs, RegisterRejectingSubname(caller, to, n, s)
        PROVE  HolderDecides
    <2>1. RegisterAfter(to, n, {}, {s}) /\ {} \in SUBSET Names /\ {s} \in SUBSET Subs
      BY <1>3 DEF RegisterRejectingSubname
    <2> QED
      BY <1>1, <2>1 DEF HolderDecides
  <1>4. ASSUME NEW caller \in Accounts, NEW to \in Accounts, NEW n \in Names,
               NEW g \in Names, RegisterRejectingName(caller, to, n, g)
        PROVE  HolderDecides
    <2>1. RegisterAfter(to, n, {g}, {}) /\ {g} \in SUBSET Names /\ {} \in SUBSET Subs
      BY <1>4 DEF RegisterRejectingName
    <2>2. PartsWith(owner[g], g)
      BY <1>4 DEF RegisterRejectingName, CanBurn, PartsWith
    <2> QED
      BY <1>1, <2>1, <2>2 DEF HolderDecides
  <1> QED
    BY <1>2, <1>3, <1>4

\* burn, release_name, transfer and the sales touch the lease of a token the
\* caller or the seller owns.
LEMMA TokenDecides ==
  ASSUME TypeInv,
         \/ \E a \in Accounts, n \in Names : Burn(a, n)
         \/ \E a \in Accounts : ReleaseName(a)
         \/ \E who, to \in Accounts : Transfer(who, to)
         \/ \E buyer \in Accounts, n \in Names : BuyName(buyer, n)
         \/ \E buyer \in Accounts, recipient \in GiftRecipients, n \in Names :
               BuyNameFor(buyer, recipient, n)
  PROVE  HolderDecides
  <1> DEFINE Parted(n) == /\ PartsWith(owner[n], n)
                          /\ \A m \in Names \ {n} : /\ owner'[m] = owner[m]
                                                    /\ expire'[m] = expire[m]
  <1>0. owner \in [Names -> OptAccount] /\ expire \in [Names -> Nat \cup {NULL}]
    BY DEF TypeInv, TypeOK
  <1>1. ASSUME NEW n \in Names, NEW a \in Accounts, DoBurn(a, n)
        PROVE  /\ owner[n] = a
               /\ \A m \in Names \ {n} : owner'[m] = owner[m] /\ expire'[m] = expire[m]
    BY <1>0, <1>1 DEF DoBurn, CanBurn
  <1>2. ASSUME NEW n \in Names, NEW from \in Accounts, NEW to \in Accounts,
               DoTransfer(from, to, n)
        PROVE  /\ owner[n] = from
               /\ \A m \in Names \ {n} : owner'[m] = owner[m] /\ expire'[m] = expire[m]
    BY <1>0, <1>2 DEF DoTransfer, CanTransfer
  <1>3. ASSUME NEW a \in Accounts, NEW n \in Names, Burn(a, n)
        PROVE  Parted(n)
    BY <1>1, <1>3 DEF Burn, PartsWith
  <1>4. ASSUME NEW a \in Accounts, ReleaseName(a)
        PROVE  primary[a] \in Names /\ Parted(primary[a])
    <2>1. primary[a] \in Names /\ DoBurn(a, primary[a])
      BY <1>4 DEF ReleaseName, TypeInv, TypeOK
    <2> QED
      BY <1>1, <1>4, <2>1 DEF PartsWith
  <1>5. ASSUME NEW who \in Accounts, NEW to \in Accounts, Transfer(who, to)
        PROVE  primary[who] \in Names /\ Parted(primary[who])
    <2>1. primary[who] \in Names /\ DoTransfer(who, to, primary[who])
      BY <1>5 DEF Transfer, TypeInv, TypeOK
    <2> QED
      BY <1>2, <1>5, <2>1 DEF PartsWith
  <1>6. ASSUME NEW buyer \in Accounts, NEW n \in Names, BuyName(buyer, n)
        PROVE  Parted(n)
    <2>1. /\ listings[n] # NULL
          /\ listings[n].seller = owner[n]
          /\ buyer # owner[n]
          /\ DoTransfer(listings[n].seller, buyer, n)
      BY <1>6 DEF BuyName, CanBuy, TransferName
    <2>2. listings[n].seller \in Accounts
      BY <2>1 DEF TypeInv, TypeOK, Listing
    <2> QED
      BY <1>2, <1>6, <2>1, <2>2 DEF PartsWith
  <1>7. ASSUME NEW buyer \in Accounts, NEW recipient \in GiftRecipients, NEW n \in Names,
               BuyNameFor(buyer, recipient, n)
        PROVE  Parted(n)
    <2>1. /\ listings[n] # NULL
          /\ listings[n].seller = owner[n]
          /\ buyer # owner[n]
          /\ DoTransfer(listings[n].seller, recipient, n)
      BY <1>7 DEF BuyNameFor, CanBuy, OfferBoughtName
    <2>2. listings[n].seller \in Accounts /\ recipient \in Accounts
      BY <2>1, InputsAssumption DEF TypeInv, TypeOK, Listing
    <2> QED
      BY <1>2, <1>7, <2>1, <2>2 DEF PartsWith
  <1> HIDE DEF Parted
  <1>8. \E n \in Names : Parted(n)
    BY <1>3, <1>4, <1>5, <1>6, <1>7
  <1> QED
    BY <1>8 DEF Parted, HolderDecides

\* renew leaves every name with its holder, for no shorter a time.
LEMMA RenewDecides ==
  ASSUME TypeInv, TermInv, NEW a \in Accounts, Renew(a)
  PROVE  HolderDecides
  <1>1. /\ primary[a] \in Names
        /\ expire \in [Names -> Nat \cup {NULL}]
        /\ StillValid(primary[a])
        /\ expire' = [expire EXCEPT ![primary[a]] = now + Duration]
        /\ UNCHANGED owner
    BY DEF Renew, TypeInv, TypeOK
  <1>2. expire[primary[a]] <= now + Duration
    BY <1>1 DEF StillValid, TermInv
  <1> QED
    BY <1>1, <1>2 DEF HolderDecides

\* Until a lease has lapsed only its holder parts with it.
LEMMA StepDecides ==
  ASSUME TypeInv, TermInv, [Next]_vars
  PROVE  HolderDecides
  <1>1. CASE UNCHANGED <<owner, expire>>
    BY <1>1 DEF HolderDecides
  <1>2. CASE LeaseCall
    BY <1>1, <1>2, RegisterDecides, TokenDecides, RenewDecides, LeasesAlone
       DEF LeaseCall
  <1>3. CASE MarketCall
    <2>1. ASSUME \/ \E a \in Accounts, t \in ListingExpiries : CreateListing(a, t)
                 \/ \E a \in Accounts : CancelListing(a)
          PROVE  UNCHANGED <<owner, expire>>
      BY <2>1 DEF CreateListing, CancelListing, leaseVars
    <2> QED
      BY <1>1, <1>3, <2>1, TokenDecides DEF MarketCall
  <1>4. CASE SubdomainCall
    BY <1>1, <1>4, LeasesAlone
  <1>5. CASE RecordCall \/ ManagerCall \/ Tick \/ UNCHANGED vars
    <2>1. UNCHANGED <<owner, expire>>
      BY <1>5 DEF RecordCall, SetRecord, SetText, ManagerCall, SetOfficial, AddReserved,
                  RemoveReserved, Tick, leaseVars, vars
    <2> QED
      BY <1>1, <2>1
  <1> QED
    BY <1>2, <1>3, <1>4, <1>5 DEF Next

\* At genesis no lease runs, and the contract is in its initial state.
LEMMA InitLease == Init => Lease!LeaseInit /\ TermInv
  BY DEF Init, Lease!LeaseInit, TermInv

\* The pallets together implement NameLease, and the holder decides: whatever
\* state the indexes are in, a name is taken, given, dropped and extended only
\* as the contract allows, and before it has lapsed only its holder's call, or
\* the sale the holder listed it for, ends or moves the lease.
THEOREM ImplementsLease == Spec => LeaseContract
  <1>1. TypeInv /\ TreeInv /\ TermInv /\ [Next]_vars
          => [Lease!LeaseNext]_(Lease!leaseState) /\ TermInv'
    BY StepLease
  <1>2. TypeInv /\ TermInv /\ [Next]_vars => [HolderDecides]_vars
    BY StepDecides
  <1> QED
    BY TypeInvariance, TreeInvariance, InitLease, <1>1, <1>2, PTL
       DEF Spec, LeaseContract, Lease!LeaseSpec

-----------------------------------------------------------------------------
(* One name per account.  The calls do not look at who owns what, they ask *)
(* OwnerToPrimaryName and AccountToSubnames, either of which may hold      *)
(* entries for names the account no longer has.  What makes the answers    *)
(* safe is the converse, that nothing held is missing from them:           *)
(* OwnerIndexed for names and IndexExact for subnames.  With those two, an *)
(* account that passes the one-name test holds nothing.                    *)

OneNameInv == OwnerIndexed /\ OneNamePerAccount

\* An account holds no more than it did.
HoldsNoMore(a) ==
  HeldSubs(a)' \subseteq HeldSubs(a) /\ HeldNames(a)' \subseteq HeldNames(a)

\* Two names held by one account are the same: both are its canonical name.
LEMMA HeldNamesUnique ==
  ASSUME TypeInv, OwnerIndexed, NEW a \in Accounts
  PROVE  \A m \in HeldNames(a) : primary[a] = m
  BY AccountsAssumption DEF OwnerIndexed, HeldNames

\* An account without a valid canonical name holds no name; one with nothing
\* in AccountToSubnames holds no subname.
LEMMA TakerHoldsNothing ==
  ASSUME TypeInv, IndexExact, OwnerIndexed, NEW a \in Accounts, MayTakeName(a)
  PROVE  HeldNames(a) = {} /\ HeldSubs(a) = {}
  <1>1. HeldNames(a) = {}
    BY HeldNamesUnique, NodesAssumption
       DEF MayTakeName, HasValidCanonicalName, HeldNames
  <1>2. HeldSubs(a) = {}
    BY DEF MayTakeName, HasActiveSubname, IndexExact, HeldSubs
  <1> QED
    BY <1>1, <1>2

\* If every account either holds no more than before, or holds no subname, or
\* holds one subname and no name, then no account comes to hold two.
LEMMA OneNameFromCases ==
  ASSUME TypeInv', OwnerIndexed', OneNamePerAccount,
         \A a \in Accounts :
            \/ HoldsNoMore(a)
            \/ HeldSubs(a)' = {}
            \/ HeldNames(a)' = {} /\ \E s \in Subs : HeldSubs(a)' \subseteq {s}
  PROVE  OneNamePerAccount'
  <1> SUFFICES ASSUME NEW a \in Accounts,
                      NEW m \in (HeldNames(a) \cup HeldSubs(a))',
                      NEW n \in (HeldNames(a) \cup HeldSubs(a))'
               PROVE  m = n
    BY DEF OneNamePerAccount
  <1>1. CASE HoldsNoMore(a)
    BY <1>1 DEF HoldsNoMore, OneNamePerAccount
  <1>2. CASE HeldSubs(a)' = {}
    <2>1. \A k \in HeldNames(a)' : primary'[a] = k
      BY AccountsAssumption DEF OwnerIndexed, HeldNames
    <2> QED
      BY <1>2, <2>1
  <1>3. CASE HeldNames(a)' = {} /\ \E s \in Subs : HeldSubs(a)' \subseteq {s}
    BY <1>3
  <1> QED
    BY <1>1, <1>2, <1>3

\* A lease that is not being registered anew is still valid after a step only
\* if it was before.
LEMMA ValidBefore ==
  ASSUME TypeInv, NEW n \in Names,
         \/ UNCHANGED <<now, expire>>
         \/ UNCHANGED expire /\ now' \in Nat /\ now' >= now
         \/ StillValid(n),
         StillValid(n)'
  PROVE  StillValid(n)
  <1>1. now \in Nat /\ Grace \in Nat /\ expire[n] \in Nat \cup {NULL}
    BY NumbersAssumption DEF TypeInv, TypeOK
  <1>2. CASE UNCHANGED <<now, expire>>
    BY <1>2 DEF StillValid
  <1>3. CASE UNCHANGED expire /\ now' \in Nat /\ now' >= now
    <2>1. expire[n] # NULL /\ now' <= expire[n] + Grace
      BY <1>3 DEF StillValid
    <2>2. now <= expire[n] + Grace
      BY <1>1, <1>3, <2>1
    <2> QED
      BY <2>1, <2>2 DEF StillValid
  <1> QED
    BY <1>2, <1>3

\* A step keeps the invariant if everything held after it is its holder's
\* canonical name, and nobody holds more except in the ways listed.
LEMMA OneNameStep ==
  ASSUME TypeInv', OneNameInv,
         \A a \in Accounts : \A m \in HeldNames(a)' : primary'[a] = m,
         \A a \in Accounts :
            \/ HoldsNoMore(a)
            \/ HeldSubs(a)' = {}
            \/ HeldNames(a)' = {} /\ \E s \in Subs : HeldSubs(a)' \subseteq {s}
  PROVE  OneNameInv'
  <1>1. OwnerIndexed'
    <2> SUFFICES ASSUME NEW n \in Names, (owner[n] # NULL /\ StillValid(n) /\ ~Pending(n))'
                 PROVE  primary'[owner'[n]] = n
      BY DEF OwnerIndexed
    <2>1. owner' \in [Names -> OptAccount]
      BY DEF TypeInv, TypeOK
    <2>2. PICK a \in Accounts : owner'[n] = a
      BY <2>1 DEF OptAccount
    <2>3. n \in HeldNames(a)'
      BY <2>2 DEF HeldNames
    <2> QED
      BY <2>2, <2>3
  <1>2. OneNamePerAccount'
    BY <1>1, OneNameFromCases DEF OneNameInv
  <1> QED
    BY <1>1, <1>2 DEF OneNameInv

\* A step in which names are only lost: release_name, burn, the passing of
\* time, and every call that leaves leases alone.
LEMMA ShrinkOneName ==
  ASSUME TypeInv, TypeInv', OneNameInv, NoSubsAdded,
         NEW P \in SUBSET Names,
         \A n \in Names \ P : /\ owner'[n] = owner[n]
                              /\ offeredNames'[n] = offeredNames[n]
                              /\ StillValid(n)' => StillValid(n),
         \A n \in P : owner'[n] = NULL,
         \A a \in Accounts : primary'[a] = primary[a] \/ primary[a] \in P
  PROVE  OneNameInv'
  <1>1. \A a \in Accounts : /\ HeldNames(a)' \subseteq HeldNames(a)
                            /\ HeldNames(a)' \cap P = {}
    <2> SUFFICES ASSUME NEW a \in Accounts, NEW m \in HeldNames(a)'
                 PROVE  m \in HeldNames(a) /\ m \notin P
      OBVIOUS
    <2>1. m \in Names /\ owner'[m] = a /\ StillValid(m)' /\ ~Pending(m)'
      BY DEF HeldNames
    <2>2. m \notin P
      BY <2>1, AccountsAssumption
    <2>3. owner[m] = a /\ StillValid(m) /\ ~Pending(m)
      BY <2>1, <2>2 DEF Pending
    <2> QED
      BY <2>1, <2>2, <2>3 DEF HeldNames
  <1>2. \A a \in Accounts : \A m \in HeldNames(a)' : primary'[a] = m
    <2> SUFFICES ASSUME NEW a \in Accounts, NEW m \in HeldNames(a)'
                 PROVE  primary'[a] = m
      OBVIOUS
    <2>1. m \in HeldNames(a) /\ m \notin P
      BY <1>1
    <2>2. primary[a] = m
      BY <2>1, HeldNamesUnique DEF OneNameInv
    <2> QED
      BY <2>1, <2>2
  <1>3. \A a \in Accounts : HoldsNoMore(a)
    BY <1>1 DEF HoldsNoMore, NoSubsAdded
  <1> QED
    BY <1>2, <1>3, OneNameStep

\* The same when no name is lost either.
LEMMA KeepOneName ==
  ASSUME TypeInv, TypeInv', OneNameInv, NoSubsAdded,
         UNCHANGED <<owner, offeredNames, primary>>,
         \A n \in Names : StillValid(n)' => StillValid(n)
  PROVE  OneNameInv'
  <1> DEFINE P == {}
  <1>1. /\ P \in SUBSET Names
        /\ \A n \in Names \ P : /\ owner'[n] = owner[n]
                                /\ offeredNames'[n] = offeredNames[n]
                                /\ StillValid(n)' => StillValid(n)
        /\ \A n \in P : owner'[n] = NULL
        /\ \A a \in Accounts : primary'[a] = primary[a] \/ primary[a] \in P
    OBVIOUS
  <1> HIDE DEF P
  <1> QED
    BY <1>1, ShrinkOneName

\* register: the one-name test comes after the reject_offer step, so it is
\* judged on what the account has left by then.
LEMMA RegisterOneName ==
  ASSUME TypeInv, TypeInv', IndexExact, IndexExact', OneNameInv, NoSubsAdded,
         NEW to \in Accounts, NEW n \in Names,
         NEW B \in SUBSET Names, NEW R \in SUBSET Subs,
         RegisterAfter(to, n, B, R)
  PROVE  OneNameInv'
  <1>1. /\ owner' = [m \in Names |->
                       IF m = n THEN to ELSE IF m \in B THEN NULL ELSE owner[m]]
        /\ expire' = [m \in Names |->
                        IF m = n THEN now + Duration
                        ELSE IF m \in B THEN NULL ELSE expire[m]]
        /\ offeredNames' = [m \in Names |-> IF m \in B THEN NULL ELSE offeredNames[m]]
        /\ UNCHANGED now
    BY DEF RegisterAfter, MintSubname
  <1>2. \A a \in Accounts : \A m \in HeldNames(a)' \ {n} : m \in HeldNames(a) \ B
    BY <1>1, AccountsAssumption DEF HeldNames, Pending, StillValid
  <1>3. \A a \in Accounts \ {to} : n \notin HeldNames(a)'
    BY <1>1 DEF HeldNames
  <1>4. HeldNames(to)' \subseteq {n}
    <2> SUFFICES ASSUME NEW m \in HeldNames(to)', m # n
                 PROVE  FALSE
      OBVIOUS
    <2>1. m \in HeldNames(to) \ B
      BY <1>2
    <2>2. primary[to] = m /\ StillValid(m) /\ m # NULL
      BY <2>1, HeldNamesUnique, NodesAssumption DEF OneNameInv, HeldNames
    <2> QED
      BY <2>1, <2>2 DEF RegisterAfter, MayTakeNameAfter
  <1>5. HeldSubs(to)' = {}
    <2> DEFINE D == SubtreeOf(Wiped(n, B)) \cup R
    <2>1. SubtreeOf(B) \subseteq D
      BY DEF SubtreeOf, Wiped
    <2>2. DropsSubs(D)
      BY RegisterDrops
    <2> SUFFICES ASSUME NEW s \in HeldSubs(to)'
                 PROVE  FALSE
      OBVIOUS
    <2>3. s \in Subs /\ s \in accountToSubnames'[to]
      BY DEF HeldSubs, IndexExact
    <2>4. s \in HeldWithout(D)[to]
      BY <2>2, <2>3 DEF DropsSubs
    <2>5. s \in HeldWithout(SubtreeOf(B))[to]
      BY <2>1, <2>4 DEF HeldWithout
    <2>6. s \in B
      BY <2>5 DEF RegisterAfter, MayTakeNameAfter
    <2> QED
      BY <2>3, <2>6, NodesAssumption
  <1>6. \A a \in Accounts : primary'[a] = IF a = to THEN n
                                          ELSE IF primary[a] = n THEN primary'[a]
                                          ELSE primary[a]
    BY DEF RegisterAfter, PrimaryAfterMint
  <1>7. \A a \in Accounts : \A m \in HeldNames(a)' : primary'[a] = m
    <2> SUFFICES ASSUME NEW a \in Accounts, NEW m \in HeldNames(a)'
                 PROVE  primary'[a] = m
      OBVIOUS
    <2>1. CASE a = to
      BY <1>4, <1>6, <2>1
    <2>2. CASE a # to
      <3>1. m # n /\ m \in HeldNames(a)
        BY <1>2, <1>3, <2>2
      <3>2. primary[a] = m
        BY <3>1, HeldNamesUnique DEF OneNameInv
      <3> QED
        BY <1>6, <2>2, <3>1, <3>2
    <2> QED
      BY <2>1, <2>2
  <1>8. \A a \in Accounts \ {to} : HoldsNoMore(a)
    BY <1>2, <1>3 DEF HoldsNoMore, NoSubsAdded
  <1> QED
    BY <1>5, <1>7, <1>8, OneNameStep

\* transfer, a purchase and a gift: the receiver passed the one-name test and
\* so held nothing; the giver loses at most the entry for this name; and the
\* name becomes the receiver's canonical name unless it is a gift to accept.
LEMMA HandOverOneName ==
  ASSUME TypeInv, TypeInv', IndexExact, OneNameInv, NoSubsAdded,
         NEW from \in Accounts, NEW to \in Accounts, NEW n \in Names,
         MayTakeName(to), DoTransfer(from, to, n), UNCHANGED now,
         \A m \in Names \ {n} : offeredNames'[m] = offeredNames[m],
         \A a \in Accounts \ {to} : primary'[a] = primary[a] \/ primary[a] = n,
         primary'[to] = n \/ Pending(n)'
  PROVE  OneNameInv'
  <1>1. owner' = [owner EXCEPT ![n] = to] /\ UNCHANGED expire
    BY DEF DoTransfer
  <1>2. HeldNames(to) = {} /\ HeldSubs(to) = {}
    BY TakerHoldsNothing DEF OneNameInv
  <1>3. \A a \in Accounts : HeldNames(a)' \ {n} \subseteq HeldNames(a)
    BY <1>1 DEF HeldNames, Pending, StillValid, TypeInv, TypeOK
  <1>4. \A a \in Accounts \ {to} : n \notin HeldNames(a)'
    BY <1>1 DEF HeldNames, TypeInv, TypeOK
  <1>5. \A a \in Accounts : \A m \in HeldNames(a)' : primary'[a] = m
    <2>1. ASSUME NEW m \in HeldNames(to)'
          PROVE  m = n
      <3>1. HeldNames(to)' \ {n} \subseteq {}
        BY <1>2, <1>3
      <3> QED
        BY <3>1
    <2>2. \A m \in HeldNames(to)' : primary'[to] = m
      <3>1. \A m \in HeldNames(to)' : ~Pending(m)'
        BY DEF HeldNames
      <3> QED
        BY <2>1, <3>1
    <2>3. ASSUME NEW a \in Accounts \ {to}, NEW m \in HeldNames(a)'
          PROVE  primary'[a] = m
      <3>1. m # n /\ m \in HeldNames(a)
        BY <1>3, <1>4
      <3>2. primary[a] = m
        BY <3>1, HeldNamesUnique DEF OneNameInv
      <3> QED
        BY <3>1, <3>2
    <2>4. \A a \in Accounts \ {to} : \A m \in HeldNames(a)' : primary'[a] = m
      BY <2>3
    <2> QED
      BY <2>2, <2>4
  <1>6. HeldSubs(to)' = {}
    BY <1>2 DEF NoSubsAdded
  <1>7. \A a \in Accounts \ {to} : HoldsNoMore(a)
    BY <1>3, <1>4 DEF HoldsNoMore, NoSubsAdded
  <1> QED
    BY <1>5, <1>6, <1>7, OneNameStep

\* accept_offered_name: if the token is still with the recipient the name
\* becomes theirs, and they held nothing; if not, its owner already counted as
\* holding it.
LEMMA AcceptOneName ==
  ASSUME TypeInv, TypeInv', IndexExact, OneNameInv, NoSubsAdded,
         NEW a \in Accounts, NEW n \in Names, AcceptOfferedName(a, n)
  PROVE  OneNameInv'
  <1>1. /\ offeredNames[n] = a
        /\ MayTakeName(a)
        /\ offeredNames' = [offeredNames EXCEPT ![n] = NULL]
        /\ primary' = [primary EXCEPT ![a] = n]
        /\ UNCHANGED <<now, owner, expire>>
    BY DEF AcceptOfferedName, leaseVars
  <1>2. HeldNames(a) = {} /\ HeldSubs(a) = {}
    BY <1>1, TakerHoldsNothing DEF OneNameInv
  <1>3. HeldNames(a)' \subseteq {n}
    BY <1>1, <1>2 DEF HeldNames, Pending, StillValid, TypeInv, TypeOK
  <1>4. \A b \in Accounts \ {a} : HeldNames(b)' \subseteq HeldNames(b)
    BY <1>1 DEF HeldNames, Pending, StillValid, TypeInv, TypeOK
  <1>5. primary'[a] = n /\ \A b \in Accounts \ {a} : primary'[b] = primary[b]
    BY <1>1 DEF TypeInv, TypeOK
  <1>6. \A b \in Accounts : \A m \in HeldNames(b)' : primary'[b] = m
    <2> SUFFICES ASSUME NEW b \in Accounts, NEW m \in HeldNames(b)'
                 PROVE  primary'[b] = m
      OBVIOUS
    <2>1. CASE b = a
      BY <1>3, <1>5, <2>1
    <2>2. CASE b # a
      <3>1. m \in HeldNames(b) /\ primary'[b] = primary[b]
        BY <1>4, <1>5, <2>2
      <3> QED
        BY <3>1, HeldNamesUnique DEF OneNameInv
    <2> QED
      BY <2>1, <2>2
  <1>7. HeldSubs(a)' = {}
    BY <1>2 DEF NoSubsAdded
  <1>8. \A b \in Accounts \ {a} : HoldsNoMore(b)
    BY <1>4 DEF HoldsNoMore, NoSubsAdded
  <1> QED
    BY <1>6, <1>7, <1>8, OneNameStep

\* Every call of LeaseCall keeps the invariant.
LEMMA LeaseCallOneName ==
  ASSUME TypeInv, TypeInv', IndexExact, OneNameInv, LeaseCall
  PROVE  OneNameInv'
  <1>0. IndexExact' /\ NoSubsAdded
    BY LeaseCallIndex
  <1>1. ASSUME NEW to \in Accounts, NEW n \in Names, Register(to, n)
        PROVE  OneNameInv'
    BY <1>0, <1>1, RegisterOneName DEF Register
  <1>2. ASSUME NEW caller \in Accounts, NEW to \in Accounts, NEW n \in Names,
               NEW g \in Names, RegisterRejectingName(caller, to, n, g)
        PROVE  OneNameInv'
    BY <1>0, <1>2, RegisterOneName DEF RegisterRejectingName
  <1>3. ASSUME NEW caller \in Accounts, NEW to \in Accounts, NEW n \in Names,
               NEW s \in Subs, RegisterRejectingSubname(caller, to, n, s)
        PROVE  OneNameInv'
    BY <1>0, <1>3, RegisterOneName DEF RegisterRejectingSubname
  <1>4. ASSUME NEW a \in Accounts, Renew(a)
        PROVE  OneNameInv'
    <2>1. /\ StillValid(primary[a]) /\ primary[a] \in Names
          /\ expire' = [expire EXCEPT ![primary[a]] = now + Duration]
          /\ UNCHANGED <<now, owner, offeredNames, primary>>
      BY <1>4 DEF Renew, TypeInv, TypeOK
    <2>2. \A n \in Names : StillValid(n)' => StillValid(n)
      BY <2>1 DEF StillValid, TypeInv, TypeOK
    <2> QED
      BY <1>0, <2>1, <2>2, KeepOneName
  <1>5. ASSUME NEW who \in Accounts, NEW to \in Accounts, Transfer(who, to)
        PROVE  OneNameInv'
    <2> DEFINE n == primary[who]
    <2>1. n \in Names /\ MayTakeName(to) /\ DoTransfer(who, to, n)
      BY <1>5 DEF Transfer, TypeInv, TypeOK
    <2>2. /\ primary' = [primary EXCEPT ![who] = NULL, ![to] = primary[who]]
          /\ UNCHANGED <<now, offeredNames>>
      BY <1>5 DEF Transfer
    <2>3. /\ primary'[to] = n
          /\ \A a \in Accounts \ {to} : primary'[a] = primary[a] \/ primary[a] = n
      BY <2>2 DEF TypeInv, TypeOK
    <2> QED
      BY <1>0, <2>1, <2>2, <2>3, HandOverOneName
  <1>6. ASSUME NEW a \in Accounts, NEW n \in Names, DoBurn(a, n),
               UNCHANGED <<now, offeredNames>>,
               \A b \in Accounts : primary'[b] = primary[b] \/ primary[b] = n
        PROVE  OneNameInv'
    <2>1. /\ owner'[n] = NULL
          /\ \A m \in Names \ {n} : /\ owner'[m] = owner[m]
                                    /\ StillValid(m)' => StillValid(m)
      BY <1>6 DEF DoBurn, StillValid, TypeInv, TypeOK
    <2>2. {n} \in SUBSET Names
      OBVIOUS
    <2> QED
      BY <1>0, <1>6, <2>1, <2>2, ShrinkOneName
  <1>7. ASSUME NEW a \in Accounts, ReleaseName(a)
        PROVE  OneNameInv'
    <2>1. /\ primary[a] \in Names
          /\ DoBurn(a, primary[a])
          /\ UNCHANGED <<now, offeredNames>>
          /\ primary' = [primary EXCEPT ![a] = NULL]
      BY <1>7 DEF ReleaseName, TypeInv, TypeOK
    <2>2. \A b \in Accounts : primary'[b] = primary[b] \/ primary[b] = primary[a]
      BY <2>1 DEF TypeInv, TypeOK
    <2> QED
      BY <1>6, <2>1, <2>2
  <1>8. ASSUME NEW a \in Accounts, NEW n \in Names, Burn(a, n)
        PROVE  OneNameInv'
    BY <1>6, <1>8 DEF Burn
  <1>9. ASSUME NEW a \in Accounts, NEW n \in Names, AcceptOfferedName(a, n)
        PROVE  OneNameInv'
    BY <1>0, <1>9, AcceptOneName
  <1> QED
    BY <1>1, <1>2, <1>3, <1>4, <1>5, <1>7, <1>8, <1>9 DEF LeaseCall

\* Subdomain calls leave names alone; accept_subdomain gives one subname to an
\* account that passed the one-name test.
LEMMA SubdomainCallOneName ==
  ASSUME TypeInv, TypeInv', IndexExact, OneNameInv, SubdomainCall
  PROVE  OneNameInv'
  <1>1. OnlyAcceptAdds
    BY SubdomainCallIndex
  <1>2. UNCHANGED <<now, owner, expire, offeredNames, primary>>
    BY DEF SubdomainCall, OfferSubdomain, AcceptSubdomain, RejectSubdomain,
           RevokeSubdomain, ReleaseSubdomain
  <1>3. \A n \in Names : StillValid(n)' => StillValid(n)
    BY <1>2 DEF StillValid
  <1>4. CASE NoSubsAdded
    BY <1>2, <1>3, <1>4, KeepOneName
  <1>5. CASE \E a \in Accounts, s \in Subs :
               /\ AcceptSubdomain(a, s)
               /\ HeldSubs(a)' \subseteq HeldSubs(a) \cup {s}
               /\ \A b \in Accounts \ {a} : HeldSubs(b)' \subseteq HeldSubs(b)
    <2>1. PICK a \in Accounts, s \in Subs :
               /\ AcceptSubdomain(a, s)
               /\ HeldSubs(a)' \subseteq HeldSubs(a) \cup {s}
               /\ \A b \in Accounts \ {a} : HeldSubs(b)' \subseteq HeldSubs(b)
      BY <1>5
    <2>2. HeldNames(a) = {} /\ HeldSubs(a) = {}
      BY <2>1, TakerHoldsNothing
         DEF AcceptSubdomain, AcceptSubnameOffer, OneNameInv
    <2>3. \A b \in Accounts : HeldNames(b)' = HeldNames(b)
      BY <1>2 DEF HeldNames, Pending, StillValid
    <2>4. \A b \in Accounts : \A m \in HeldNames(b)' : primary'[b] = m
      <3> SUFFICES ASSUME NEW b \in Accounts, NEW m \in HeldNames(b)'
                   PROVE  primary'[b] = m
        OBVIOUS
      <3>1. m \in HeldNames(b) /\ primary'[b] = primary[b]
        BY <1>2, <2>3
      <3> QED
        BY <3>1, HeldNamesUnique DEF OneNameInv
    <2>5. HeldNames(a)' = {} /\ HeldSubs(a)' \subseteq {s}
      BY <2>1, <2>2, <2>3
    <2>6. \A b \in Accounts \ {a} : HoldsNoMore(b)
      BY <2>1, <2>3 DEF HoldsNoMore
    <2> QED
      BY <2>4, <2>5, <2>6, OneNameStep
  <1> QED
    BY <1>1, <1>4, <1>5 DEF OnlyAcceptAdds

\* Marketplace calls: listings hold nothing, purchases are hand-overs.
LEMMA MarketCallOneName ==
  ASSUME TypeInv, TypeInv', IndexExact, OneNameInv, MarketCall
  PROVE  OneNameInv'
  <1>0. NoSubsAdded
    BY MarketCallIndex
  <1>1. ASSUME UNCHANGED <<now, leaseVars, primary, offeredNames>>
        PROVE  OneNameInv'
    BY <1>0, <1>1, KeepOneName DEF StillValid, leaseVars
  <1>2. ASSUME NEW a \in Accounts, NEW t \in ListingExpiries, CreateListing(a, t)
        PROVE  OneNameInv'
    BY <1>1, <1>2 DEF CreateListing
  <1>3. ASSUME NEW a \in Accounts, CancelListing(a)
        PROVE  OneNameInv'
    BY <1>1, <1>3 DEF CancelListing
  <1>4. ASSUME NEW buyer \in Accounts, NEW n \in Names, BuyName(buyer, n)
        PROVE  OneNameInv'
    <2> DEFINE seller == listings[n].seller
    <2>1. seller \in Accounts
      BY <1>4 DEF BuyName, CanBuy, TypeInv, TypeOK, Listing
    <2>2. /\ MayTakeName(buyer)
          /\ DoTransfer(seller, buyer, n)
          /\ primary' = [PrimaryWithout(seller, n) EXCEPT ![buyer] = n]
          /\ UNCHANGED <<now, offeredNames>>
      BY <1>4 DEF BuyName, TransferName
    <2> HIDE DEF seller
    <2>3. /\ primary'[buyer] = n
          /\ \A a \in Accounts \ {buyer} : primary'[a] = primary[a] \/ primary[a] = n
      BY <2>1, <2>2 DEF PrimaryWithout, TypeInv, TypeOK
    <2> QED
      BY <1>0, <2>1, <2>2, <2>3, HandOverOneName
  <1>5. ASSUME NEW buyer \in Accounts, NEW recipient \in GiftRecipients,
               NEW n \in Names, BuyNameFor(buyer, recipient, n)
        PROVE  OneNameInv'
    <2> DEFINE seller == listings[n].seller
    <2>1. seller \in Accounts /\ recipient \in Accounts
      BY <1>5, InputsAssumption DEF BuyNameFor, CanBuy, TypeInv, TypeOK, Listing
    <2>2. /\ MayTakeName(recipient)
          /\ DoTransfer(seller, recipient, n)
          /\ primary' = PrimaryWithout(seller, n)
          /\ offeredNames' = [offeredNames EXCEPT ![n] = recipient]
          /\ UNCHANGED now
      BY <1>5 DEF BuyNameFor, OfferBoughtName
    <2> HIDE DEF seller
    <2>3. /\ \A a \in Accounts : primary'[a] = primary[a] \/ primary[a] = n
          /\ \A m \in Names \ {n} : offeredNames'[m] = offeredNames[m]
      BY <2>1, <2>2 DEF PrimaryWithout, TypeInv, TypeOK
    <2>4. Pending(n)'
      BY <2>1, <2>2, AccountsAssumption DEF Pending, DoTransfer, TypeInv, TypeOK
    <2> QED
      BY <1>0, <2>1, <2>2, <2>3, <2>4, HandOverOneName
  <1> QED
    BY <1>2, <1>3, <1>4, <1>5 DEF MarketCall

\* The other calls leave names alone, and time only ends leases.
LEMMA OtherCallOneName ==
  ASSUME TypeInv, TypeInv', IndexExact, OneNameInv,
         RecordCall \/ ManagerCall \/ Tick \/ UNCHANGED vars
  PROVE  OneNameInv'
  <1>1. /\ UNCHANGED <<owner, expire, offeredNames, primary>>
        /\ now' = now \/ now' = now + 1
    <2>1. CASE RecordCall
      BY <2>1 DEF RecordCall, SetRecord, SetText, leaseVars
    <2>2. CASE ManagerCall
      BY <2>2 DEF ManagerCall, SetOfficial, AddReserved, RemoveReserved, leaseVars
    <2>3. CASE Tick
      BY <2>3 DEF Tick, leaseVars
    <2>4. CASE UNCHANGED vars
      BY <2>4 DEF vars, leaseVars
    <2> QED BY <2>1, <2>2, <2>3, <2>4
  <1>2. now' \in Nat /\ now' >= now
    <2>1. now \in Nat
      BY DEF TypeInv, TypeOK
    <2> QED BY <1>1, <2>1
  <1>3. \A n \in Names : StillValid(n)' => StillValid(n)
    BY <1>1, <1>2, ValidBefore
  <1> QED
    BY <1>1, <1>3, OtherCallIndex, KeepOneName

\* Every step keeps one name per account.
LEMMA StepOneName ==
  ASSUME TypeInv, TypeInv', IndexExact, OneNameInv, [Next]_vars
  PROVE  OneNameInv'
  BY LeaseCallOneName, SubdomainCallOneName, MarketCallOneName, OtherCallOneName
     DEF Next

\* Nobody holds anything at genesis.
LEMMA InitOneName == Init => OneNameInv
  BY DEF Init, OneNameInv, OwnerIndexed, OneNamePerAccount, HeldNames, HeldSubs,
         StillValid, IsTarget, HasRecord

\* OwnerToPrimaryName finds every lease that is held, and no account ever
\* holds two names, two subnames or one of each, in any order of
\* registrations, transfers, sales, gifts, acceptances and lapses.
THEOREM OneName == Spec => [](OwnerIndexed /\ OneNamePerAccount)
  <1>1. TypeInv /\ TypeInv' /\ IndexExact /\ OneNameInv /\ [Next]_vars => OneNameInv'
    BY StepOneName
  <1> QED
    BY TypeInvariance, IndexesExact, InitOneName, <1>1, PTL DEF Spec, OneNameInv

\* Every lease that is held and not a pending gift is its owner's canonical
\* name in OwnerToPrimaryName, where renew, transfer and release look for it.
THEOREM OwnersIndexed == Spec => []OwnerIndexed
  BY OneName, PTL

=============================================================================
