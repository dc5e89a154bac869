------------------------------ MODULE PnsStorage ------------------------------
(***************************************************************************)
(* The on-chain storage of the Polkadot Name System: the NFT ledger that   *)
(* says who owns a name, the registry's subname tables, the registrar's    *)
(* leases and canonical names, and the resolver's records.  The pallets    *)
(* are modelled by PnsResolvers, PnsRegistry, PnsRegistrar and             *)
(* PnsMarketplace; Pns puts them together.                                 *)
(*                                                                         *)
(* Abstractions.                                                           *)
(*  - A namehash is an element of Names (labels under the base node) or of *)
(*    Subs (labels under a name).  Parent[s] is the name s is hashed with; *)
(*    hashing is taken to be injective.                                    *)
(*  - An absent storage entry is NULL.                                     *)
(*  - RegistrarInfo is reduced to its expiry: its capacity is only ever    *)
(*    written as DefaultCapacity, and the fee, label length and block      *)
(*    number do not guard anything.                                        *)
(*  - A record or a text is reduced to the account that wrote it; the      *)
(*    chain-managed ORIGIN record is left to DnsRecords.                   *)
(*  - A listing is reduced to its seller and its expiry.                   *)
(*  - The base node's own token is baseOwner.  Its children counter, the   *)
(*    TokensByOwner index and the class totals are left to NftLedger:      *)
(*    nothing here reads them.                                             *)
(***************************************************************************)
EXTENDS Naturals, FiniteSets

CONSTANTS
  Accounts,         \* account identifiers
  Names,            \* nodes of canonical names (label.dot)
  Subs,             \* nodes of subnames (sub.label.dot)
  Parent,           \* Parent[s]: the canonical name a subname hangs under
  NULL,             \* an absent storage entry
  Genesis,          \* the account that is official at genesis
  GenesisReserved,  \* names reserved at genesis
  Duration,         \* MaxRegistrationDuration
  Grace,            \* GracePeriod
  Capacity,         \* DefaultCapacity
  MaxTime           \* bound on the chain's clock

ASSUME AccountsAssumption == Genesis \in Accounts /\ NULL \notin Accounts

ASSUME NodesAssumption ==
  /\ Names \cap Subs = {}
  /\ NULL \notin Names
  /\ Parent \in [Subs -> Names]
  /\ GenesisReserved \subseteq Names
  /\ IsFiniteSet(Subs)

ASSUME NumbersAssumption ==
  /\ Duration \in Nat \ {0}
  /\ Grace \in Nat
  /\ Capacity \in Nat
  /\ MaxTime \in Nat
  /\ NULL \notin Nat

Nodes == Names \cup Subs

SubnameState == {"Offered", "Active", "Rejected"}
SubnameRecord == [parent : Names, target : Accounts, state : SubnameState]

Listing == [seller : Accounts, expiresAt : Nat]

ASSUME RecordAssumption ==
  NULL \notin SubnameRecord /\ NULL \notin Listing /\ NULL # "Root"

VARIABLES
  now,               \* Timestamp::now()
  \* nft
  owner,             \* Tokens[n].owner, NULL when there is no token
  children,          \* Tokens[n].data.children
  baseOwner,         \* Tokens[BaseNode].owner
  \* registry
  origin,            \* RuntimeOrigin[n]
  subNames,          \* SubNames: name -> its subnames
  accountToSubnames, \* AccountToSubnames: account -> nodes
  subnameRecords,    \* SubnameRecords
  offeredToAccount,  \* OfferedToAccount: account -> subnames
  official,          \* Official
  \* registrar
  expire,            \* RegistrarInfos[n].expire, NULL when there is no info
  reserved,          \* ReservedList
  primary,           \* OwnerToPrimaryName
  offeredNames,      \* OfferedNames[n].recipient
  \* resolvers
  ss58,              \* Records[node][SS58]
  dns,               \* author of the other Records of a name
  texts,             \* author of the Texts of a name
  \* marketplace
  listings           \* Listings

leaseVars == <<owner, expire, origin, children>>
subVars == <<subNames, accountToSubnames, subnameRecords, offeredToAccount>>
recordVars == <<ss58, dns, texts>>
adminVars == <<official, baseOwner, reserved>>

vars == <<now, leaseVars, subVars, recordVars, adminVars, primary, offeredNames,
          listings>>

OptAccount == Accounts \cup {NULL}

\* Every storage item holds a value of its declared type: in particular the
\* unsigned children counter never goes below zero.
TypeOK ==
  /\ now \in Nat
  /\ owner \in [Names -> OptAccount]
  /\ children \in [Names -> Nat]
  /\ baseOwner \in Accounts
  /\ origin \in [Names -> {"Root", NULL}]
  /\ subNames \in [Names -> SUBSET Subs]
  /\ accountToSubnames \in [Accounts -> SUBSET Nodes]
  /\ subnameRecords \in [Subs -> SubnameRecord \cup {NULL}]
  /\ offeredToAccount \in [Accounts -> SUBSET Subs]
  /\ official \in Accounts
  /\ expire \in [Names -> Nat \cup {NULL}]
  /\ reserved \in SUBSET Names
  /\ primary \in [Accounts -> Names \cup {NULL}]
  /\ offeredNames \in [Names -> OptAccount]
  /\ ss58 \in [Nodes -> OptAccount]
  /\ dns \in [Names -> OptAccount]
  /\ texts \in [Names -> OptAccount]
  /\ listings \in [Names -> Listing \cup {NULL}]

\* The genesis presets: the base token and Official go to the same account, no
\* name is registered, the reserved names are listed.
Init ==
  /\ now = 0
  /\ owner = [n \in Names |-> NULL]
  /\ children = [n \in Names |-> 0]
  /\ baseOwner = Genesis
  /\ origin = [n \in Names |-> NULL]
  /\ subNames = [n \in Names |-> {}]
  /\ accountToSubnames = [a \in Accounts |-> {}]
  /\ subnameRecords = [s \in Subs |-> NULL]
  /\ offeredToAccount = [a \in Accounts |-> {}]
  /\ official = Genesis
  /\ expire = [n \in Names |-> NULL]
  /\ reserved = GenesisReserved
  /\ primary = [a \in Accounts |-> NULL]
  /\ offeredNames = [n \in Names |-> NULL]
  /\ ss58 = [m \in Nodes |-> NULL]
  /\ dns = [n \in Names |-> NULL]
  /\ texts = [n \in Names |-> NULL]
  /\ listings = [n \in Names |-> NULL]

-----------------------------------------------------------------------------
(* Expiry.  A lease is useable until expire, renewable and owned through   *)
(* expire + Grace, and open to others after that.                          *)

\* The still_valid test of register, transfer, accept_offered_name, ...
StillValid(n) == expire[n] # NULL /\ now <= expire[n] + Grace

\* Mutant of Registrable: the grace period is forgotten.
RegistrableAtExpiry(n) == expire[n] # NULL /\ now > expire[n]

\* check_expires_registrable
Registrable(n) == expire[n] # NULL /\ now > expire[n] + Grace

\* check_expires_renewable
Renewable(n) == expire[n] # NULL /\ now < expire[n] + Grace

\* check_expires_useable
Useable(n) == expire[n] # NULL /\ now < expire[n]

\* Mutant of HasValidCanonicalName: a name in its grace period does not count.
HasUseableCanonicalName(a) == primary[a] # NULL /\ Useable(primary[a])

\* has_valid_canonical_name: decided by OwnerToPrimaryName, not by the token.
HasValidCanonicalName(a) == primary[a] # NULL /\ StillValid(primary[a])

\* has_active_subname: despite its name it counts canonical names too, since
\* mint_subname enters those into AccountToSubnames.
HasActiveSubname(a) == accountToSubnames[a] # {}

\* Mutant of MayTakeName: only the index is consulted.
MayTakeNameByIndex(a) == ~HasActiveSubname(a)

\* The one-name test on an account that is about to receive a name.
MayTakeName(a) == ~HasValidCanonicalName(a) /\ ~HasActiveSubname(a)

=============================================================================
