------------------------------- MODULE NameLease -------------------------------
(***************************************************************************)
(* What the name system promises about ownership, with the pallets and     *)
(* their indexes out of sight.  A name is free or is held by one account   *)
(* until a date.  While it is held, and through the grace period after     *)
(* that date, it can be handed on, given up or extended, but not taken;    *)
(* from then on it can be taken.  Who may do each of these is not said     *)
(* here: calls and their signers are what the contract hides, and          *)
(* HolderDecides of PnsProperties adds it.                                 *)
(***************************************************************************)
EXTENDS Naturals

CONSTANTS
  Holders, Names, NULL,
  FirstTerms,  \* how long a new lease may last
  Term,        \* how long a renewed lease lasts
  Grace

VARIABLES clock, holder, until

leaseState == <<clock, holder, until>>

LeaseInit ==
  /\ clock = 0
  /\ holder = [n \in Names |-> NULL]
  /\ until = [n \in Names |-> NULL]

Held(n) == holder[n] # NULL
Lapsed(n) == Held(n) /\ clock > until[n] + Grace

\* An account takes a name that is free, lapsed, or given up in the same
\* step.  At most one name is given up, and its lease has no other effect.
Take(n, a, given) ==
  /\ \A g \in given : Held(g)
  /\ ~Held(n) \/ Lapsed(n) \/ n \in given
  /\ holder' = [m \in Names |->
                  IF m = n THEN a ELSE IF m \in given THEN NULL ELSE holder[m]]
  /\ \E d \in FirstTerms :
       until' = [m \in Names |->
                   IF m = n THEN clock + d
                   ELSE IF m \in given THEN NULL ELSE until[m]]
  /\ UNCHANGED clock

\* A lease changes hands with its remaining time, while it can be renewed.
Give(n, a) ==
  /\ Held(n)
  /\ clock < until[n] + Grace
  /\ holder' = [holder EXCEPT ![n] = a]
  /\ UNCHANGED <<clock, until>>

\* A lease is given up, or what is left of it after it has lapsed.
Drop(n) ==
  /\ Held(n)
  /\ holder' = [holder EXCEPT ![n] = NULL]
  /\ until' = [until EXCEPT ![n] = NULL]
  /\ UNCHANGED clock

\* A renewal never shortens the lease and never revives a lapsed one.
Extend(n) ==
  /\ Held(n)
  /\ ~Lapsed(n)
  /\ until[n] <= clock + Term
  /\ until' = [until EXCEPT ![n] = clock + Term]
  /\ UNCHANGED <<clock, holder>>

Advance ==
  /\ clock' = clock + 1
  /\ UNCHANGED <<holder, until>>

LeaseNext ==
  \/ \E n \in Names, a \in Holders : Take(n, a, {})
  \/ \E n, g \in Names, a \in Holders : Take(n, a, {g})
  \/ \E n \in Names, a \in Holders : Give(n, a)
  \/ \E n \in Names : Drop(n)
  \/ \E n \in Names : Extend(n)
  \/ Advance

LeaseSpec == LeaseInit /\ [][LeaseNext]_leaseState

=============================================================================
