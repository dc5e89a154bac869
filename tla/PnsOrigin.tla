------------------------------- MODULE PnsOrigin -------------------------------
(***************************************************************************)
(* The origin pallet: the accounts that are managers, and whether the      *)
(* registrar is open.  The registrar's mock puts it next to the redeem     *)
(* codes; the production runtime has root as the only manager and an open  *)
(* registrar.                                                              *)
(***************************************************************************)
EXTENDS PnsProperties

CONSTANTS
  GenesisOrigins,   \* managers at genesis
  OriginCandidates  \* accounts set_origin may be called with

ASSUME OriginAssumption ==
  GenesisOrigins \subseteq Accounts /\ OriginCandidates \subseteq Accounts

VARIABLES
  origins,          \* Origins
  isRegistrarOpen   \* IsRegistrarOpen

originVars == <<origins, isRegistrarOpen>>

OriginInit ==
  /\ origins = GenesisOrigins
  /\ isRegistrarOpen = TRUE

\* try_origin
EnsureManager(m) == m \in origins

SetRegistrarOpen(m, open) ==
  /\ EnsureManager(m)
  /\ isRegistrarOpen' = open
  /\ UNCHANGED origins

OriginsAfter(a, approved) ==
  IF approved THEN origins \cup {a} ELSE origins \ {a}

\* set_origin: a manager may remove any manager, itself included.
SetOrigin(m, a, approved) ==
  /\ EnsureManager(m)
  /\ origins' = OriginsAfter(a, approved)
  /\ UNCHANGED isRegistrarOpen

SetOriginForRoot(a, approved) ==
  /\ origins' = OriginsAfter(a, approved)
  /\ UNCHANGED isRegistrarOpen

OriginCall ==
  \/ \E m \in Accounts, open \in BOOLEAN : SetRegistrarOpen(m, open)
  \/ \E m \in Accounts, a \in OriginCandidates, approved \in BOOLEAN :
        SetOrigin(m, a, approved)
  \/ \E a \in OriginCandidates, approved \in BOOLEAN :
        SetOriginForRoot(a, approved)

=============================================================================
