----------------------------- MODULE PnsResolveProofs -----------------------------
(***************************************************************************)
(* What names and subnames resolve to, and what the runtime API shows.     *)
(*                                                                         *)
(* Subnames resolve to their holders, records belong to owners and a free  *)
(* name resolves to nobody: each is kept by every step once the tables     *)
(* agree (PnsTreeProofs).  A name does not always resolve to its owner;    *)
(* each step but one moves SS58 record and token together, and that one is *)
(* the acceptance of a gift whose token has gone to somebody else.  The    *)
(* views then follow from the invariants without looking at a step.        *)
(***************************************************************************)
EXTENDS PnsTreeProofs, PnsReaders

-----------------------------------------------------------------------------
(* What a name resolves to.                                                *)

\* The invariants about one name; one that nobody owns resolves to nobody.
NameResolved(n) ==
  /\ dns[n] \in {NULL, owner[n]}
  /\ owner[n] = NULL => ss58[n] = NULL

NamesInv == \A n \in Names : NameResolved(n)

\* The step points the name at its owner, or leaves owner and SS58 record alone.
Follows(n) ==
  \/ ss58'[n] = owner'[n]
  \/ ss58'[n] = ss58[n] /\ owner'[n] = owner[n]

NamesFollow == \A n \in Names : Follows(n)

-----------------------------------------------------------------------------
(* Subnames.                                                               *)

\* A step that drops the subnames in D, with their SS58 record if they have one.
LEMMA DropResolve ==
  ASSUME SubnamesResolveToHolder, NEW D \in SUBSET Subs,
         \A s \in Subs :
           IF s \in D THEN subnameRecords'[s] = NULL /\ ss58'[s] = NULL
           ELSE subnameRecords'[s] = subnameRecords[s] /\ ss58'[s] = ss58[s]
  PROVE  SubnamesResolveToHolder'
  <1> SUFFICES ASSUME NEW s \in Subs
               PROVE  ss58'[s] = IF InState(s, "Active")' THEN subnameRecords'[s].target
                                 ELSE NULL
    BY DEF SubnamesResolveToHolder
  <1>1. CASE s \in D
    BY <1>1 DEF InState, HasRecord
  <1>2. CASE s \notin D
    BY <1>2 DEF SubnamesResolveToHolder, InState, HasRecord
  <1> QED
    BY <1>1, <1>2

\* register: the revoked offer had no SS58 record.
LEMMA RegisterSubnames ==
  ASSUME TypeInv, SubnamesResolveToHolder, NEW to \in Accounts, NEW n \in Names,
         NEW B \in SUBSET Names, NEW R \in SUBSET Subs, RegisterStep(to, n, B, R)
  PROVE  SubnamesResolveToHolder'
  <1> DEFINE C == Wiped(n, B)
             T == SubtreeOf(C)
             D == T \cup R
  <1>1. C \in SUBSET Names
    BY DEF Wiped
  <1>2. T \in SUBSET Subs
    BY <1>1, SubtreeType DEF TypeInv
  <1>3. subnameRecords' = RecordsWithout(D) /\ ss58' = Ss58After(C \cup T, n, to)
    BY DEF RegisterStep, RegisterAfter, MintSubname
  <1>4. \A s \in R : ss58[s] = NULL
    <2>1. \A s \in R : InState(s, "Offered")
      BY DEF RegisterStep, Rejected
    <2> QED
      BY <2>1 DEF SubnamesResolveToHolder, InState
  <1> HIDE DEF C, T
  <1>5. ASSUME NEW s \in Subs
        PROVE  IF s \in D THEN subnameRecords'[s] = NULL /\ ss58'[s] = NULL
               ELSE subnameRecords'[s] = subnameRecords[s] /\ ss58'[s] = ss58[s]
    <2>1. s \in Nodes /\ s # n /\ s \notin C
      BY <1>1, NodesAssumption DEF Nodes
    <2>2. ss58'[s] = IF s \in T THEN NULL ELSE ss58[s]
      BY <1>3, <2>1 DEF Ss58After
    <2>3. subnameRecords'[s] = IF s \in D THEN NULL ELSE subnameRecords[s]
      BY <1>3 DEF RecordsWithout
    <2> QED
      BY <1>4, <2>2, <2>3
  <1> QED
    BY <1>2, <1>5, DropResolve

\* do_burn and do_transfer clear the SS58 records of the subtree they drop.
LEMMA ClearSubnamesResolve ==
  ASSUME TypeInv, SubnamesResolveToHolder, NEW n \in Names, ClearSubnames({n}),
         \A s \in Subs : ss58'[s] = IF s \in subNames[n] THEN NULL ELSE ss58[s]
  PROVE  SubnamesResolveToHolder'
  <1>1. SubtreeOf({n}) = subNames[n] /\ subNames[n] \in SUBSET Subs
    BY SubtreeOfOne
  <1>2. subnameRecords' = RecordsWithout(subNames[n])
    BY <1>1 DEF ClearSubnames
  <1>3. \A s \in Subs :
          IF s \in subNames[n] THEN subnameRecords'[s] = NULL /\ ss58'[s] = NULL
          ELSE subnameRecords'[s] = subnameRecords[s] /\ ss58'[s] = ss58[s]
    BY <1>2 DEF RecordsWithout
  <1> QED
    BY <1>1, <1>3, DropResolve

\* The calls on subdomains: only an accepted subname resolves, and it stops to
\* when it is dropped.
LEMMA SubdomainSubnames ==
  ASSUME TypeInv, SubnamesResolveToHolder, SubdomainCall
  PROVE  SubnamesResolveToHolder'
  <1>1. /\ subnameRecords \in [Subs -> SubnameRecord \cup {NULL}]
        /\ ss58 \in [Nodes -> OptAccount]
        /\ Subs \subseteq Nodes
    BY DEF TypeInv, TypeOK, Nodes
  <1>2. ASSUME NEW a \in Accounts, NEW target \in Accounts, NEW s \in Subs,
               OfferSubdomain(a, s, target)
        PROVE  SubnamesResolveToHolder'
    <2>1. /\ ~HasRecord(s)
          /\ subnameRecords' =
               [subnameRecords EXCEPT
                  ![s] = [parent |-> Parent[s], target |-> target, state |-> "Offered"]]
          /\ UNCHANGED ss58
      BY <1>2 DEF OfferSubdomain, OfferSubname, recordVars
    <2>2. /\ subnameRecords'[s].state = "Offered"
          /\ \A r \in Subs : r # s => subnameRecords'[r] = subnameRecords[r]
      BY <1>1, <2>1
    <2>3. ss58[s] = NULL
      BY <2>1 DEF SubnamesResolveToHolder, InState
    <2> QED
      BY <2>1, <2>2, <2>3 DEF SubnamesResolveToHolder, InState, HasRecord
  <1>3. ASSUME NEW a \in Accounts, NEW s \in Subs, AcceptSubdomain(a, s)
        PROVE  SubnamesResolveToHolder'
    <2>1. /\ HasRecord(s) /\ subnameRecords[s].target = a
          /\ subnameRecords' = [subnameRecords EXCEPT ![s].state = "Active"]
          /\ ss58' = Ss58After({}, s, a)
      BY <1>3 DEF AcceptSubdomain, AcceptSubnameOffer, IsTarget
    <2>2. subnameRecords[s] \in SubnameRecord
      BY <1>1, <2>1 DEF HasRecord
    <2>3. /\ subnameRecords'[s].target = a
          /\ subnameRecords'[s].state = "Active"
          /\ subnameRecords'[s] # NULL
          /\ \A r \in Subs : r # s => subnameRecords'[r] = subnameRecords[r]
      BY <1>1, <2>1, <2>2, RecordAssumption DEF SubnameRecord, SubnameState
    <2>4. ss58'[s] = a /\ \A r \in Subs : r # s => ss58'[r] = ss58[r]
      BY <1>1, <2>1 DEF Ss58After
    <2> QED
      BY <2>3, <2>4 DEF SubnamesResolveToHolder, InState, HasRecord
  <1>4. ASSUME NEW a \in Accounts, NEW s \in Subs, RejectSubdomain(a, s)
        PROVE  SubnamesResolveToHolder'
    <2>1. /\ InState(s, "Offered")
          /\ subnameRecords' = [subnameRecords EXCEPT ![s].state = "Rejected"]
          /\ UNCHANGED ss58
      BY <1>4 DEF RejectSubdomain, RejectSubnameOffer, recordVars
    <2>2. subnameRecords[s] \in SubnameRecord /\ ss58[s] = NULL
      BY <1>1, <2>1 DEF SubnamesResolveToHolder, InState, HasRecord
    <2>3. /\ subnameRecords'[s].state = "Rejected"
          /\ \A r \in Subs : r # s => subnameRecords'[r] = subnameRecords[r]
      BY <1>1, <2>1, <2>2 DEF SubnameRecord
    <2> QED
      BY <2>1, <2>2, <2>3 DEF SubnamesResolveToHolder, InState, HasRecord
  <1>5. ASSUME NEW a \in Accounts, NEW s \in Subs,
               RevokeSubdomain(a, s) \/ ReleaseSubdomain(a, s)
        PROVE  SubnamesResolveToHolder'
    <2>1. /\ subnameRecords' = RecordsWithout({s})
          /\ ss58' = Ss58Without({s}) \/ (ss58' = ss58 /\ ~InState(s, "Active"))
      BY <1>5 DEF RevokeSubdomain, RevokeSubname, ReleaseSubdomain, ReleaseSubname,
                  DropSubname
    <2>2. \A r \in Subs :
            subnameRecords'[r] = IF r \in {s} THEN NULL ELSE subnameRecords[r]
      BY <2>1 DEF RecordsWithout
    <2>3. \A r \in Subs : ss58'[r] = IF r \in {s} THEN NULL ELSE ss58[r]
      BY <1>1, <2>1 DEF Ss58Without, SubnamesResolveToHolder
    <2>4. {s} \in SUBSET Subs
      OBVIOUS
    <2> QED
      BY <2>2, <2>3, <2>4, DropResolve
  <1> QED
    BY <1>2, <1>3, <1>4, <1>5 DEF SubdomainCall

-----------------------------------------------------------------------------
(* Names.                                                                  *)

\* A name whose token and SS58 record a step leaves alone.
LEMMA KeptResolved ==
  ASSUME NEW m \in Names, NameResolved(m),
         owner'[m] = owner[m], ss58'[m] = ss58[m],
         dns'[m] \in {NULL, dns[m], owner[m]}
  PROVE  NameResolved(m)' /\ Follows(m)
  BY DEF NameResolved, Follows

\* register points the name at its new owner and clears the rejected gift.
LEMMA RegisterNames ==
  ASSUME TypeInv, NamesInv, NEW to \in Accounts, NEW n \in Names,
         NEW B \in SUBSET Names, NEW R \in SUBSET Subs, RegisterStep(to, n, B, R)
  PROVE  NamesInv' /\ NamesFollow
  <1> DEFINE C == Wiped(n, B)
             T == SubtreeOf(C)
  <1>1. /\ C \in SUBSET Names /\ B \subseteq C /\ C \subseteq B \cup {n}
        /\ n \notin C => owner[n] = NULL
    BY DEF Wiped, IsFresh
  <1>2. T \in SUBSET Subs
    BY <1>1, SubtreeType DEF TypeInv
  <1>3. /\ owner' = [m \in Names |->
                       IF m = n THEN to ELSE IF m \in B THEN NULL ELSE owner[m]]
        /\ ss58' = Ss58After(C \cup T, n, to)
        /\ dns' = DnsWithout(C)
    BY DEF RegisterStep, RegisterAfter, MintSubname
  <1> HIDE DEF C, T
  <1> SUFFICES ASSUME NEW m \in Names
               PROVE  NameResolved(m)' /\ Follows(m)
    BY DEF NamesInv, NamesFollow
  <1>4. m \in Nodes /\ m \notin T /\ NameResolved(m)
    BY <1>2, NodesAssumption DEF Nodes, NamesInv
  <1>5. CASE m = n
    <2>1. owner'[m] = to /\ ss58'[m] = to /\ to # NULL
      BY <1>3, <1>4, <1>5, AccountsAssumption DEF Ss58After
    <2>2. dns'[m] = NULL
      <3>1. CASE n \in C
        BY <1>3, <1>5, <3>1 DEF DnsWithout
      <3>2. CASE n \notin C
        BY <1>1, <1>3, <1>4, <1>5, <3>2 DEF DnsWithout, NameResolved
      <3> QED
        BY <3>1, <3>2
    <2> QED
      BY <2>1, <2>2 DEF NameResolved, Follows
  <1>6. CASE m # n /\ m \in B
    <2>1. owner'[m] = NULL /\ ss58'[m] = NULL /\ dns'[m] = NULL
      BY <1>1, <1>3, <1>4, <1>6 DEF Ss58After, DnsWithout
    <2> QED
      BY <2>1 DEF NameResolved, Follows
  <1>7. CASE m # n /\ m \notin B
    <2>1. owner'[m] = owner[m] /\ ss58'[m] = ss58[m] /\ dns'[m] = dns[m]
      BY <1>1, <1>3, <1>4, <1>7 DEF Ss58After, DnsWithout
    <2> QED
      BY <1>4, <2>1, KeptResolved
  <1> QED
    BY <1>5, <1>6, <1>7

\* do_burn frees the name and all it resolved to.
LEMMA BurnNames ==
  ASSUME TypeInv, NamesInv, NEW a \in Accounts, NEW n \in Names, BurnStep(a, n)
  PROVE  NamesInv' /\ NamesFollow
  <1>1. /\ owner' = [owner EXCEPT ![n] = NULL]
        /\ ss58' = Ss58Without({n} \cup subNames[n])
        /\ dns' = DnsWithout({n})
    BY DEF BurnStep, DoBurn
  <1>2. owner \in [Names -> OptAccount] /\ subNames[n] \in SUBSET Subs
    BY DEF TypeInv, TypeOK
  <1> SUFFICES ASSUME NEW m \in Names
               PROVE  NameResolved(m)' /\ Follows(m)
    BY DEF NamesInv, NamesFollow
  <1>3. m \in Nodes /\ m \notin subNames[n] /\ NameResolved(m)
    BY <1>2, NodesAssumption DEF Nodes, NamesInv
  <1>4. CASE m = n
    <2>1. owner'[m] = NULL /\ ss58'[m] = NULL /\ dns'[m] = NULL
      BY <1>1, <1>2, <1>3, <1>4 DEF Ss58Without, DnsWithout
    <2> QED
      BY <2>1 DEF NameResolved, Follows
  <1>5. CASE m # n
    <2>1. owner'[m] = owner[m] /\ ss58'[m] = ss58[m] /\ dns'[m] = dns[m]
      BY <1>1, <1>2, <1>3, <1>5 DEF Ss58Without, DnsWithout
    <2> QED
      BY <1>3, <2>1, KeptResolved
  <1> QED
    BY <1>4, <1>5

\* do_transfer points the name at the recipient.
LEMMA HandOverNames ==
  ASSUME TypeInv, NamesInv, NEW from \in Accounts, NEW to \in Accounts,
         NEW n \in Names, HandOverStep(from, to, n)
  PROVE  NamesInv' /\ NamesFollow
  <1>1. /\ owner' = [owner EXCEPT ![n] = to]
        /\ ss58' = Ss58After(subNames[n], n, to)
        /\ dns' = DnsWithout({n})
    BY DEF HandOverStep, DoTransfer
  <1>2. owner \in [Names -> OptAccount] /\ subNames[n] \in SUBSET Subs
    BY DEF TypeInv, TypeOK
  <1> SUFFICES ASSUME NEW m \in Names
               PROVE  NameResolved(m)' /\ Follows(m)
    BY DEF NamesInv, NamesFollow
  <1>3. m \in Nodes /\ m \notin subNames[n] /\ NameResolved(m)
    BY <1>2, NodesAssumption DEF Nodes, NamesInv
  <1>4. CASE m = n
    <2>1. owner'[m] = to /\ ss58'[m] = to /\ dns'[m] = NULL /\ to # NULL
      BY <1>1, <1>2, <1>3, <1>4, AccountsAssumption DEF Ss58After, DnsWithout
    <2> QED
      BY <2>1 DEF NameResolved, Follows
  <1>5. CASE m # n
    <2>1. owner'[m] = owner[m] /\ ss58'[m] = ss58[m] /\ dns'[m] = dns[m]
      BY <1>1, <1>2, <1>3, <1>5 DEF Ss58After, DnsWithout
    <2> QED
      BY <1>3, <2>1, KeptResolved
  <1> QED
    BY <1>4, <1>5

\* accept_offered_name repoints a name somebody owns; it has a lease.
LEMMA AcceptNames ==
  ASSUME TypeInv, TreeInv, NamesInv, NEW a \in Accounts, NEW n \in Names,
         AcceptOfferedName(a, n)
  PROVE  NamesInv'
  <1>1. /\ expire[n] # NULL
        /\ ss58' = Ss58After({}, n, a)
        /\ UNCHANGED <<owner, dns>>
    BY DEF AcceptOfferedName, Useable, leaseVars
  <1> SUFFICES ASSUME NEW m \in Names
               PROVE  NameResolved(m)'
    BY DEF NamesInv
  <1>2. m \in Nodes /\ NameResolved(m)
    BY DEF Nodes, NamesInv
  <1>3. CASE m = n
    BY <1>1, <1>2, <1>3 DEF TreeInv, LeaseConsistent, NameResolved
  <1>4. CASE m # n
    <2>1. ss58'[m] = ss58[m]
      BY <1>1, <1>2, <1>4 DEF Ss58After
    <2> QED
      BY <1>1, <1>2, <2>1, KeptResolved
  <1> QED
    BY <1>3, <1>4

\* renew leaves token and records alone.
LEMMA RenewNames ==
  ASSUME NamesInv, NEW a \in Accounts, Renew(a)
  PROVE  NamesInv' /\ NamesFollow
  <1>1. UNCHANGED <<owner, ss58, dns>>
    BY DEF Renew, recordVars
  <1> QED
    BY <1>1, KeptResolved DEF NamesInv, NamesFollow

\* The calls on subdomains repoint subnames only.
LEMMA SubdomainNames ==
  ASSUME TypeInv, NamesInv, SubdomainCall
  PROVE  NamesInv' /\ NamesFollow
  <1>1. UNCHANGED <<owner, dns>>
    BY DEF SubdomainCall, OfferSubdomain, AcceptSubdomain, RejectSubdomain,
           RevokeSubdomain, ReleaseSubdomain, recordVars
  <1>2. \/ UNCHANGED ss58
        \/ \E s \in Subs : ss58' = Ss58Without({s})
        \/ \E a \in Accounts, s \in Subs : ss58' = Ss58After({}, s, a)
    BY DEF SubdomainCall, OfferSubdomain, AcceptSubdomain, RejectSubdomain,
           RevokeSubdomain, RevokeSubname, ReleaseSubdomain, ReleaseSubname, recordVars
  <1>3. \A m \in Names : ss58'[m] = ss58[m]
    BY <1>2, NodesAssumption DEF Ss58Without, Ss58After, Nodes
  <1> QED
    BY <1>1, <1>3, KeptResolved DEF NamesInv, NamesFollow

\* Records are written by the owner.
LEMMA RecordNames ==
  ASSUME TypeInv, NamesInv, NEW a \in Accounts, NEW n \in Names,
         SetRecord(a, n) \/ SetText(a, n)
  PROVE  NamesInv' /\ NamesFollow
  <1>1. /\ owner[n] = a
        /\ dns' = [dns EXCEPT ![n] = a] \/ dns' = dns
        /\ UNCHANGED <<owner, ss58>>
    BY DEF SetRecord, SetText, CheckNodeUseable, leaseVars
  <1>2. \A m \in Names : dns'[m] \in {NULL, dns[m], owner[m]}
    BY <1>1 DEF TypeInv, TypeOK
  <1> QED
    BY <1>1, <1>2, KeptResolved DEF NamesInv, NamesFollow

-----------------------------------------------------------------------------
(* Every step.                                                             *)

ResolveInv == SubnamesResolveToHolder /\ NamesInv

\* Steps that leave the subnames and the SS58 records alone.
LEMMA KeepSubnames ==
  ASSUME SubnamesResolveToHolder, UNCHANGED subnameRecords,
         \A s \in Subs : ss58'[s] = ss58[s]
  PROVE  SubnamesResolveToHolder'
  BY DEF SubnamesResolveToHolder, InState, HasRecord

\* Burning and transferring a name.
LEMMA MoveResolve ==
  ASSUME TypeInv, ResolveInv, NEW n \in Names,
         \/ \E a \in Accounts : BurnStep(a, n)
         \/ \E from, to \in Accounts : HandOverStep(from, to, n)
  PROVE  ResolveInv'
  <1>1. ClearSubnames({n})
    BY DEF BurnStep, DoBurn, HandOverStep, DoTransfer
  <1>2. \/ ss58' = Ss58Without({n} \cup subNames[n])
        \/ \E to \in Accounts : ss58' = Ss58After(subNames[n], n, to)
    BY DEF BurnStep, DoBurn, HandOverStep, DoTransfer
  <1>3. \A s \in Subs : ss58'[s] = IF s \in subNames[n] THEN NULL ELSE ss58[s]
    BY <1>2, NodesAssumption DEF Ss58Without, Ss58After, Nodes
  <1>4. SubnamesResolveToHolder'
    BY <1>1, <1>3, ClearSubnamesResolve DEF ResolveInv
  <1> QED
    BY <1>4, BurnNames, HandOverNames DEF ResolveInv

\* Every step keeps what nodes resolve to.
LEMMA StepResolve ==
  ASSUME TypeInv, TreeInv, ResolveInv, [Next]_vars
  PROVE  ResolveInv'
  <1>1. ASSUME NEW to \in Accounts, NEW n \in Names, NEW B \in SUBSET Names,
               NEW R \in SUBSET Subs, RegisterStep(to, n, B, R)
        PROVE  ResolveInv'
    BY <1>1, RegisterSubnames, RegisterNames DEF ResolveInv
  <1>2. ASSUME NEW a \in Accounts, NEW n \in Names, BurnStep(a, n)
        PROVE  ResolveInv'
    BY <1>2, MoveResolve
  <1>3. ASSUME NEW from \in Accounts, NEW to \in Accounts, NEW n \in Names,
               HandOverStep(from, to, n)
        PROVE  ResolveInv'
    BY <1>3, MoveResolve
  <1>4. ASSUME NEW a \in Accounts, Renew(a)
        PROVE  ResolveInv'
    <2>1. UNCHANGED <<subnameRecords, ss58>>
      BY <1>4 DEF Renew, subVars, recordVars
    <2> QED
      BY <1>4, <2>1, KeepSubnames, RenewNames DEF ResolveInv
  <1>5. ASSUME NEW a \in Accounts, NEW n \in Names, AcceptOfferedName(a, n)
        PROVE  ResolveInv'
    <2>1. UNCHANGED subnameRecords /\ ss58' = Ss58After({}, n, a)
      BY <1>5 DEF AcceptOfferedName, subVars
    <2>2. \A s \in Subs : ss58'[s] = ss58[s]
      BY <2>1, NodesAssumption DEF Ss58After, Nodes
    <2> QED
      BY <1>5, <2>1, <2>2, KeepSubnames, AcceptNames DEF ResolveInv
  <1>6. ASSUME NEW a \in Accounts, NEW n \in Names, SetRecord(a, n) \/ SetText(a, n)
        PROVE  ResolveInv'
    <2>1. UNCHANGED <<subnameRecords, ss58>>
      BY <1>6 DEF SetRecord, SetText, subVars
    <2> QED
      BY <1>6, <2>1, KeepSubnames, RecordNames DEF ResolveInv
  <1>7. ASSUME IdleStep
        PROVE  ResolveInv'
    <2>1. UNCHANGED <<subnameRecords, owner, ss58, dns>>
      BY <1>7 DEF IdleStep, leaseVars, subVars, recordVars
    <2>2. NamesInv'
      BY <2>1, KeptResolved DEF ResolveInv, NamesInv
    <2> QED
      BY <2>1, <2>2, KeepSubnames DEF ResolveInv
  <1> QED
    BY <1>1, <1>2, <1>3, <1>4, <1>5, <1>6, <1>7, StepKinds, SubdomainSubnames,
       SubdomainNames
       DEF StepKind, ResolveInv

\* At genesis nothing resolves.
LEMMA InitResolve == Init => ResolveInv
  <1> SUFFICES ASSUME Init
               PROVE  ResolveInv
    OBVIOUS
  <1>1. SubnamesResolveToHolder
    BY DEF Init, SubnamesResolveToHolder, InState, HasRecord, Nodes
  <1>2. NamesInv
    BY DEF Init, NamesInv, NameResolved, Nodes
  <1> QED
    BY <1>1, <1>2 DEF ResolveInv

\* What nodes resolve to is right at every moment.
THEOREM ResolveInvariance == Spec => []ResolveInv
  <1>1. TypeInv /\ TreeInv /\ ResolveInv /\ [Next]_vars => ResolveInv'
    BY StepResolve
  <1> QED
    BY TypeInvariance, TreeInvariance, InitResolve, <1>1, PTL DEF Spec

\* A subname resolves to its target exactly while it is Active.
THEOREM SubnamesResolve == Spec => []SubnamesResolveToHolder
  BY ResolveInvariance, PTL DEF ResolveInv

\* No record written by an earlier owner is left on a name.
THEOREM RecordsByOwner == Spec => []RecordsWrittenByOwner
  <1>1. ResolveInv => RecordsWrittenByOwner
    BY DEF ResolveInv, NamesInv, NameResolved, RecordsWrittenByOwner
  <1> QED
    BY ResolveInvariance, <1>1, PTL

\* Every step but the acceptance of a gift keeps SS58 record and owner together.
LEMMA StepFollows ==
  ASSUME TypeInv, TreeInv, NamesInv, [Next]_vars
  PROVE  NamesFollow \/ \E a \in Accounts, n \in Names : AcceptOfferedName(a, n)
  <1>1. ASSUME IdleStep
        PROVE  NamesFollow
    <2>1. UNCHANGED <<owner, ss58>>
      BY <1>1 DEF IdleStep, leaseVars, recordVars
    <2> QED
      BY <2>1 DEF NamesFollow, Follows
  <1> QED
    BY <1>1, StepKinds, RegisterNames, BurnNames, HandOverNames, RenewNames,
       SubdomainNames, RecordNames
       DEF StepKind

\* Accepting a gift diverts a name only if its token is somebody else's.
LEMMA AcceptDiverts ==
  ASSUME NEW a \in Accounts, NEW g \in Names, AcceptOfferedName(a, g),
         NEW n \in Names, ss58[n] = owner[n], ss58'[n] # owner'[n]
  PROVE  /\ offeredNames[n] \notin {NULL, owner[n]}
         /\ AcceptOfferedName(offeredNames[n], n)
         /\ ss58'[n] = offeredNames[n]
  <1>1. /\ offeredNames[g] = a
        /\ ss58' = Ss58After({}, g, a)
        /\ UNCHANGED owner
    BY DEF AcceptOfferedName, leaseVars
  <1>2. ss58'[n] = IF n = g THEN a ELSE ss58[n]
    BY <1>1 DEF Ss58After, Nodes
  <1> QED
    BY <1>1, <1>2, AccountsAssumption

\* A name stops resolving to its owner only when the account it was once
\* bought for accepts it after the token has gone to somebody else.
THEOREM OldGiftsAloneDivert == Spec => DivertedByOldGiftOnly
  <1> DEFINE Diverted == \A n \in Names :
                           ss58[n] = owner[n] /\ ss58'[n] # owner'[n] =>
                             /\ offeredNames[n] \notin {NULL, owner[n]}
                             /\ AcceptOfferedName(offeredNames[n], n)
                             /\ ss58'[n] = offeredNames[n]
  <1>1. ASSUME TypeInv, TreeInv, ResolveInv, [Next]_vars
        PROVE  Diverted
    <2>1. CASE NamesFollow
      BY <2>1 DEF NamesFollow, Follows
    <2>2. CASE \E a \in Accounts, g \in Names : AcceptOfferedName(a, g)
      BY <2>2, AcceptDiverts
    <2> QED
      BY <1>1, <2>1, <2>2, StepFollows DEF ResolveInv
  <1>2. TypeInv /\ TreeInv /\ ResolveInv /\ [Next]_vars => [Diverted]_vars
    BY <1>1
  <1> QED
    BY TypeInvariance, TreeInvariance, ResolveInvariance, <1>2, PTL
       DEF Spec, DivertedByOldGiftOnly

-----------------------------------------------------------------------------
(* The views of the runtime API.                                           *)

\* A dashboard with every entry of the indexes shows all that is held: a valid
\* name is canonical or a gift still to be accepted, and the subname indexes
\* are exact.
THEOREM DashboardComplete == Spec => []PortfolioComplete
  <1>1. ASSUME IndexExact, OwnerIndexed
        PROVE  PortfolioComplete
    <2> SUFFICES ASSUME NEW a \in Accounts
                 PROVE  /\ \A n \in Names : owner[n] = a /\ StillValid(n) =>
                             n = primary[a] \/ offeredNames[n] = a
                        /\ \A s \in Subs :
                             subnameRecords[s] # NULL /\ subnameRecords[s].target = a =>
                               /\ subnameRecords[s].state = "Active" =>
                                    s \in accountToSubnames[a]
                               /\ subnameRecords[s].state = "Offered" =>
                                    s \in offeredToAccount[a]
      BY DEF PortfolioComplete, AccountDashboard, GetSubname
    <2>1. \A n \in Names : owner[n] = a /\ StillValid(n) =>
            n = primary[a] \/ offeredNames[n] = a
      BY <1>1, AccountsAssumption DEF OwnerIndexed, Pending
    <2>2. \A s \in Subs :
            subnameRecords[s] # NULL /\ subnameRecords[s].target = a =>
              /\ subnameRecords[s].state = "Active" => s \in accountToSubnames[a]
              /\ subnameRecords[s].state = "Offered" => s \in offeredToAccount[a]
      BY <1>1 DEF IndexExact, IsTarget, InState, HasRecord
    <2> QED
      BY <2>1, <2>2
  <1>2. OneNameInv /\ IndexExact => PortfolioComplete
    BY <1>1 DEF OneNameInv
  <1> QED
    BY OneName, IndexesExact, <1>2, PTL DEF OneNameInv

\* A name without a lease cannot be looked up: the tables agree that it is free,
\* its subtree is empty, and neither it nor its subnames resolve.
THEOREM UnlistedSilent == Spec => []UnlistedNamesAreSilent
  <1>1. ASSUME TreeInv, ResolveInv, IndexExact
        PROVE  UnlistedNamesAreSilent
    <2> SUFFICES ASSUME NEW n \in Names, expire[n] = NULL
                 PROVE  /\ GetInfo(n) = NULL /\ ResolveName(n) = NULL
                        /\ Lookup(n) = {}
                        /\ \A s \in Subs : Parent[s] = n =>
                             /\ GetSubname(s) = NULL
                             /\ Lookup(s) = {}
                             /\ \A a \in Accounts :
                                  s \notin AccountDashboard(a).subnames
                                             \cup AccountDashboard(a).pendingSubnameOffers
      BY DEF UnlistedNamesAreSilent, AllInfos
    <2>1. owner[n] = NULL /\ subNames[n] = {} /\ dns[n] = NULL
      BY <1>1 DEF TreeInv, LeaseConsistent
    <2>2. ss58[n] = NULL
      BY <1>1, <2>1 DEF ResolveInv, NamesInv, NameResolved
    <2>3. GetInfo(n) = NULL /\ ResolveName(n) = NULL /\ Lookup(n) = {}
      BY <2>1, <2>2 DEF GetInfo, ResolveName, Lookup
    <2>4. ASSUME NEW s \in Subs, Parent[s] = n
          PROVE  /\ GetSubname(s) = NULL
                 /\ Lookup(s) = {}
                 /\ \A a \in Accounts :
                      s \notin AccountDashboard(a).subnames
                                 \cup AccountDashboard(a).pendingSubnameOffers
      <3>1. subnameRecords[s] = NULL
        BY <1>1, <2>1, <2>4 DEF TreeInv, SubtreeConsistent, HasRecord
      <3>2. ss58[s] = NULL /\ s \notin Names
        BY <1>1, <3>1, NodesAssumption
           DEF ResolveInv, SubnamesResolveToHolder, InState, HasRecord
      <3>3. \A a \in Accounts : s \notin accountToSubnames[a] /\ s \notin offeredToAccount[a]
        BY <1>1, <3>1 DEF IndexExact, IsTarget, HasRecord
      <3> QED
        BY <3>1, <3>2, <3>3 DEF GetSubname, Lookup, AccountDashboard
    <2> QED
      BY <2>3, <2>4
  <1>2. TreeInv /\ ResolveInv /\ IndexExact => UnlistedNamesAreSilent
    BY <1>1
  <1> QED
    BY TreeInvariance, ResolveInvariance, IndexesExact, <1>2, PTL

-----------------------------------------------------------------------------
(* Clients that read while blocks arrive.                                  *)

\* Requests were made at blocks there are, and blocks stay as they are.
ReadInv ==
  /\ \E S : chain \in Seq(S)
  /\ Len(chain) >= 1
  /\ request = [r \in Readers |-> request[r]]
  /\ reply = [r \in Readers |-> reply[r]]
  /\ \A r \in Readers : request[r] # NULL => request[r].at \in 1..Len(chain)
  /\ RpcStampsHold

\* A new block leaves the blocks before it as they were.
LEMMA SealKeepsReads ==
  ASSUME ReadInv, SealBlock
  PROVE  ReadInv'
  <1>1. PICK S : chain \in Seq(S)
    BY DEF ReadInv
  <1> DEFINE T == S \cup {Views}
  <1>2. chain \in Seq(T) /\ Views \in T
    BY <1>1
  <1>3. chain' = Append(chain, Views) /\ request' = request /\ reply' = reply
    BY DEF SealBlock
  <1> HIDE DEF T
  <1>4. /\ chain' \in Seq(T)
        /\ Len(chain') = Len(chain) + 1
        /\ \A b \in 1..Len(chain) : chain'[b] = chain[b]
        /\ Len(chain) \in Nat
    <2> DEFINE v == Views
    <2>1. v \in T /\ chain' = Append(chain, v)
      BY <1>2, <1>3
    <2> HIDE DEF v
    <2> QED
      BY <1>2, <2>1
  <1>5. ASSUME NEW r \in RpcReaders, reply[r] # NULL
        PROVE  /\ reply[r].at \in 1..Len(chain')
               /\ chain'[reply[r].at][reply[r].name][reply[r].view] = reply[r].value
    <2>1. /\ reply[r].at \in 1..Len(chain)
          /\ chain[reply[r].at][reply[r].name][reply[r].view] = reply[r].value
      BY <1>5 DEF ReadInv, RpcStampsHold, StampHolds
    <2>2. reply[r].at \in 1..Len(chain')
      <3>1. 1..Len(chain) \subseteq 1..Len(chain')
        BY <1>4
      <3> QED
        BY <2>1, <3>1
    <2>3. chain'[reply[r].at] = chain[reply[r].at]
      BY <1>4, <2>1
    <2> QED
      BY <2>1, <2>2, <2>3
  <1>6. RpcStampsHold'
    BY <1>3, <1>5 DEF RpcStampsHold, StampHolds
  <1> QED
    BY <1>3, <1>4, <1>6 DEF ReadInv

\* A request is made at the best block.
LEMMA ReadBestKeepsReads ==
  ASSUME ReadInv, NEW r \in Readers, NEW n \in Names, NEW view, ReadBest(r, n, view)
  PROVE  ReadInv'
  <1>1. /\ request' = [request EXCEPT
                         ![r] = [name |-> n, view |-> view, at |-> Len(chain)]]
        /\ chain' = chain /\ reply' = reply
    BY DEF ReadBest
  <1>2. /\ request' = [q \in Readers |-> request'[q]]
        /\ request'[r].at = Len(chain)
        /\ \A q \in Readers : q # r => request'[q] = request[q]
    BY <1>1 DEF ReadInv
  <1>3. Len(chain) \in 1..Len(chain)
    BY DEF ReadInv
  <1>4. RpcStampsHold'
    BY <1>1 DEF ReadInv, RpcStampsHold, StampHolds
  <1> QED
    BY <1>1, <1>2, <1>3, <1>4 DEF ReadInv

\* An answer of either server leaves the requests of the others alone.
LEMMA AnsweredKeeps ==
  ASSUME ReadInv, NEW r \in Readers, NEW stamp, Answered(r, stamp)
  PROVE  /\ chain' = chain /\ request[r] # NULL
         /\ request' = [q \in Readers |-> request'[q]]
         /\ reply' = [q \in Readers |-> reply'[q]]
         /\ \A q \in Readers : request'[q] # NULL => request'[q] = request[q]
         /\ \A q \in Readers : q # r => reply'[q] = reply[q]
         /\ reply'[r] # NULL =>
              reply'[r] = [name |-> request[r].name, view |-> request[r].view,
                           value |-> chain[request[r].at][request[r].name][request[r].view],
                           at |-> stamp]
  BY DEF ReadInv, Answered

\* The fields of an answer.
LEMMA ReplyFields ==
  ASSUME NEW name, NEW view, NEW value, NEW at, NEW answer,
         answer = [name |-> name, view |-> view, value |-> value, at |-> at]
  PROVE  answer.name = name /\ answer.view = view /\ answer.value = value /\ answer.at = at
  OBVIOUS

\* An answer keeps what a step of a reader has to keep, if its stamp holds.
LEMMA AnswerKeepsReads ==
  ASSUME ReadInv, NEW r \in Readers, NEW stamp, Answered(r, stamp),
         r \in RpcReaders => stamp = request[r].at
  PROVE  ReadInv'
  <1>1. /\ chain' = chain /\ request[r] # NULL
        /\ request' = [q \in Readers |-> request'[q]]
        /\ reply' = [q \in Readers |-> reply'[q]]
        /\ \A q \in Readers : request'[q] # NULL => request'[q] = request[q]
        /\ \A q \in Readers : q # r => reply'[q] = reply[q]
    BY AnsweredKeeps
  <1>2. ASSUME NEW q \in RpcReaders
        PROVE  StampHolds(q)'
    <2>1. CASE q # r
      BY <1>1, <1>2, <2>1 DEF ReadInv, RpcStampsHold, StampHolds, Readers
    <2>2. CASE q = r
      <3> SUFFICES ASSUME reply'[r] # NULL
                   PROVE  /\ reply'[r].at \in 1..Len(chain)
                          /\ chain[reply'[r].at][reply'[r].name][reply'[r].view]
                               = reply'[r].value
        BY <1>1, <2>2 DEF StampHolds
      <3>1. reply'[r] = [name |-> request[r].name, view |-> request[r].view,
                         value |-> chain[request[r].at][request[r].name][request[r].view],
                         at |-> request[r].at]
        BY <1>2, <2>2, AnsweredKeeps
      <3>2. request[r].at \in 1..Len(chain)
        BY <1>1 DEF ReadInv
      <3> DEFINE name == request[r].name
                 view == request[r].view
                 at == request[r].at
                 value == chain[at][name][view]
                 answer == reply'[r]
      <3>3. answer = [name |-> name, view |-> view, value |-> value, at |-> at]
        BY <3>1
      <3>4. at \in 1..Len(chain) /\ value = chain[at][name][view]
        BY <3>2
      <3> HIDE DEF name, view, at, value, answer
      <3>5. answer.name = name /\ answer.view = view /\ answer.value = value /\ answer.at = at
        BY <3>3, ReplyFields
      <3>6. answer.at \in 1..Len(chain) /\ chain[answer.at][answer.name][answer.view] = answer.value
        BY <3>4, <3>5
      <3> QED
        BY <3>6 DEF answer
    <2> QED
      BY <2>1, <2>2
  <1>3. RpcStampsHold'
    BY <1>2 DEF RpcStampsHold
  <1> QED
    BY <1>1, <1>3 DEF ReadInv

\* What the JSON-RPC server stamps on a record or a listing is a block that
\* held it: the request keeps the block it asked for, and no block changes
\* once it is there.
THEOREM StampsHold == ReadersSpec => []RpcStampsHold
  <1>1. ReadersInit => ReadInv
    <2> SUFFICES ASSUME ReadersInit
                 PROVE  ReadInv
      OBVIOUS
    <2> DEFINE v == Views
    <2>1. chain = <<v>>
      BY DEF ReadersInit
    <2> HIDE DEF v
    <2>2. chain \in Seq({v}) /\ Len(chain) = 1
      BY <2>1
    <2>3. /\ request = [r \in Readers |-> NULL]
          /\ reply = [r \in Readers |-> NULL]
      BY DEF ReadersInit
    <2>4. RpcStampsHold
      BY <2>3 DEF RpcStampsHold, StampHolds, Readers
    <2> QED
      BY <2>2, <2>3, <2>4 DEF ReadInv
  <1>2. ReadInv /\ [ReadersNext]_<<vars, readerVars>> => ReadInv'
    <2> SUFFICES ASSUME ReadInv, [ReadersNext]_<<vars, readerVars>>
                 PROVE  ReadInv'
      OBVIOUS
    <2>1. CASE UNCHANGED readerVars
      BY <2>1 DEF readerVars, ReadInv, RpcStampsHold, StampHolds
    <2>2. ASSUME NEW r \in RpcReaders, RpcAnswer(r)
          PROVE  ReadInv'
      BY <2>2, AnswerKeepsReads DEF RpcAnswer, Readers
    <2>3. ASSUME NEW r \in HttpReaders, HttpAnswer(r)
          PROVE  ReadInv'
      BY <2>3, AnswerKeepsReads, ReadersAssumption DEF HttpAnswer, Readers
    <2>4. ASSUME NEW r \in Readers, NEW n \in Names, NEW view, ReadBest(r, n, view)
          PROVE  ReadInv'
      BY <2>4, ReadBestKeepsReads
    <2> QED
      BY <2>1, <2>2, <2>3, <2>4, SealKeepsReads DEF ReadersNext, Readers
  <1>3. ReadInv => RpcStampsHold
    BY DEF ReadInv
  <1> QED
    BY <1>1, <1>2, <1>3, PTL DEF ReadersSpec

=============================================================================
