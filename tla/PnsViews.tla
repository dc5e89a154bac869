------------------------------- MODULE PnsViews --------------------------------
(***************************************************************************)
(* What the runtime API shows of the name system's storage: the record of  *)
(* a name, its listing, its DNS records, and the dashboard of an account.  *)
(* Fields a view copies unread (capacity, fee, price) are left out; a name *)
(* is its node, as PnsLabels has it.                                       *)
(***************************************************************************)
EXTENDS PnsProperties

\* get_info: nothing for a gift that waits to be accepted,
\* nor for a name whose lease has ended.
GetInfo(n) ==
  IF offeredNames[n] = NULL /\ expire[n] # NULL /\ now < expire[n] /\ owner[n] # NULL
    THEN [owner |-> owner[n], expire |-> expire[n], forSale |-> listings[n] # NULL]
    ELSE NULL

\* resolve_name repeats the checks of get_info for the node of a label.
ResolveName(n) == GetInfo(n)

\* get_listing: the entry as it is, whether or not it can still be bought.
GetListing(n) == listings[n]

\* lookup and lookup_by_name: which records a node has.  Neither the lease
\* nor a pending gift is looked at.
Lookup(m) ==
  (IF ss58[m] # NULL THEN {"SS58"} ELSE {})
    \cup (IF m \in Names /\ dns[m] # NULL THEN {"owner's"} ELSE {})

\* all: every lease there is, ended or not.
AllInfos == {n \in Names : expire[n] # NULL}

\* get_subname
GetSubname(s) == subnameRecords[s]

\* Mutant of AccountDashboard: gifts that wait are not shown.
DashboardWithoutGifts(a) ==
  [primaryName |-> primary[a],
   subnames |-> accountToSubnames[a],
   pendingSubnameOffers |-> offeredToAccount[a],
   pendingNameOffers |-> {}]

\* account_dashboard
AccountDashboard(a) ==
  [primaryName |-> primary[a],
   subnames |-> accountToSubnames[a],
   pendingSubnameOffers |-> offeredToAccount[a],
   pendingNameOffers |-> {n \in Names : offeredNames[n] = a}]

-----------------------------------------------------------------------------
(* What the views promise.                                                 *)

\* "The complete name portfolio for an account": what an account owns within
\* lease and grace, holds as a subname or was offered is on its dashboard,
\* although the dashboard reads four indexes and neither tokens nor records.
PortfolioComplete ==
  \A a \in Accounts :
    LET d == AccountDashboard(a) IN
    /\ \A n \in Names : owner[n] = a /\ StillValid(n) =>
         n \in {d.primaryName} \cup d.pendingNameOffers
    /\ \A s \in Subs : GetSubname(s) # NULL /\ GetSubname(s).target = a =>
         /\ GetSubname(s).state = "Active" => s \in d.subnames
         /\ GetSubname(s).state = "Offered" => s \in d.pendingSubnameOffers

\* A name that all() does not return cannot be looked up: get_info,
\* resolve_name and lookup find nothing, and its subnames have no record, no
\* DNS record and no place on anybody's dashboard.  The name itself may still
\* be the listing, the primaryName or the pending offer of an account that
\* had it: burn leaves those three indexes alone.
UnlistedNamesAreSilent ==
  \A n \in Names \ AllInfos :
    /\ GetInfo(n) = NULL /\ ResolveName(n) = NULL
    /\ Lookup(n) = {}
    /\ \A s \in Subs : Parent[s] = n =>
         /\ GetSubname(s) = NULL
         /\ Lookup(s) = {}
         /\ \A a \in Accounts :
              s \notin AccountDashboard(a).subnames
                         \cup AccountDashboard(a).pendingSubnameOffers

=============================================================================
