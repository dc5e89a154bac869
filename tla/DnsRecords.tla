------------------------------ MODULE DnsRecords -------------------------------
(***************************************************************************)
(* Records by type, as the chain and the owners store them.  Who owns a    *)
(* name is left to PnsResolvers: a name is known here by whether somebody  *)
(* may write its records.                                                  *)
(*                                                                         *)
(* A content is the set of readings that succeed on its bytes.             *)
(***************************************************************************)
EXTENDS RecordTypes, FiniteSets

CONSTANTS
  Names,       \* nodes of canonical names
  Subs,        \* nodes of subnames
  Parent,      \* Parent[s]: the name a subname hangs under
  QueryNames,  \* names in queries
  NodeOf,      \* NodeOf[q]: its node, or "apex", "outside" or "unparsed"
  Settable,    \* types set_record may be called with
  Contents,    \* contents set_record may be called with
  MaxSet,      \* bound on the records an owner keeps on a name
  QueryCodes   \* record type codes clients ask for

Nodes == Names \cup Subs
Types == AllTypes \cup Settable

\* "v4 bytes" and "v6 bytes" have the length of an address; the other
\* readings are of a text.
Readings == {"v4 bytes", "v6 bytes", "v4", "v6", "name", "mx", "srv"}

\* What the chain writes, and the empty content that stands for no record.
Managed == {"managed"}
Absent == {"absent"}

ASSUME DnsRecordsAssumption ==
  /\ Parent \in [Subs -> Names]
  /\ Names \cap Subs = {}
  /\ Nodes \cap {"apex", "outside", "unparsed"} = {}
  /\ QueryCodes \subseteq Nat
  /\ Contents \subseteq SUBSET Readings
  /\ NodeOf \in [QueryNames -> Nodes \cup {"apex", "outside", "unparsed"}]

VARIABLES
  records,  \* Records[node][type]
  writable  \* names whose owner passes check_node_useable

recVars == <<records, writable>>

NoRecords == [t \in Types |-> Absent]

\* The genesis presets of the runtime register no name.
RecInit ==
  /\ records = [m \in Nodes |-> NoRecords]
  /\ writable = {}

-----------------------------------------------------------------------------
(* What is written.                                                        *)

\* set_ss58_record and set_origin_record.
WithAnchors(r) ==
  [r EXCEPT ![Type("SS58")] = Managed, ![Type("ORIGIN")] = Managed]

Children(n) == {s \in Subs : Parent[s] = n}

\* The chain writes r for n, after clear_subnames.
HandOver(n, r) ==
  records' = [m \in Nodes |->
                IF m = n THEN r ELSE IF m \in Children(n) THEN NoRecords ELSE records[m]]

\* register after clear_all_records, and every transfer after
\* clear_records_except_ss58.
Given(n) ==
  /\ HandOver(n, WithAnchors(NoRecords))
  /\ writable' = writable \cup {n}

\* for_redeem_code writes ORIGIN and no SS58.
Redeemed(n) ==
  /\ HandOver(n, [NoRecords EXCEPT ![Type("ORIGIN")] = Managed])
  /\ writable' = writable \cup {n}

\* accept_offered_name clears nothing.
GiftAccepted(n) ==
  /\ n \in writable
  /\ records' = [records EXCEPT ![n] = WithAnchors(@)]
  /\ UNCHANGED writable

\* release_name: clear_all_records on the name and on its subnames.
Released(n) ==
  /\ HandOver(n, NoRecords)
  /\ writable' = writable \ {n}

\* The lease ends, and nothing is cleared; it can be renewed.
Lapse(n) ==
  /\ writable' = writable \ {n}
  /\ UNCHANGED records

Renewed(n) ==
  /\ records[n][Type("ORIGIN")] # Absent
  /\ writable' = writable \cup {n}
  /\ UNCHANGED records

\* A subname is accepted: it has an SS58 record and nobody may write others.
Accepted(s) ==
  /\ records[Parent[s]][Type("ORIGIN")] # Absent
  /\ records' = [records EXCEPT ![s][Type("SS58")] = Managed]
  /\ UNCHANGED writable

\* A subname is revoked or released: clear_all_records.
Dropped(s) ==
  /\ records' = [records EXCEPT ![s] = NoRecords]
  /\ UNCHANGED writable

\* Mutant of Protected: ORIGIN can be set.
ProtectedSs58Only == {Type("SS58")}

Protected == {Type("SS58"), Type("ORIGIN")}

SetRecord(n, t, content) ==
  /\ t \notin Protected
  /\ n \in writable
  /\ \/ records[n][t] # Absent
     \/ Cardinality({u \in Settable \ Protected : records[n][u] # Absent}) < MaxSet
  /\ records' = [records EXCEPT ![n][t] = content]
  /\ UNCHANGED writable

RecNext ==
  \/ \E n \in Names :
        \/ Given(n) \/ Redeemed(n) \/ GiftAccepted(n)
        \/ Released(n) \/ Lapse(n) \/ Renewed(n)
  \/ \E s \in Subs : Accepted(s) \/ Dropped(s)
  \/ \E n \in Names, t \in Settable, c \in Contents \cup {Absent} :
        SetRecord(n, t, c)

RecSpec == RecInit /\ [][RecNext]_recVars

=============================================================================
