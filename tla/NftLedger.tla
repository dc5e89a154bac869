------------------------------- MODULE NftLedger -------------------------------
(***************************************************************************)
(* The nft pallet: classes of tokens, the owner of a token, the index of   *)
(* an account's tokens and the class totals; and how the registry drives   *)
(* it.  Genesis builds the ledger with create_class and mint, after which  *)
(* the registry mints, moves and burns tokens of class 0.                  *)
(*                                                                         *)
(* Metadata and token data are left out: the bound on metadata is zero and *)
(* every caller passes none, and the children counter is part of           *)
(* PnsStorage.                                                             *)
(***************************************************************************)
EXTENDS Naturals, FiniteSets

CONSTANTS
  Accounts,   \* account identifiers
  TokenIds,   \* namehashes
  BaseToken,  \* the token of the top-level domain
  NULL,       \* an absent storage entry
  MaxClass,   \* the largest ClassId
  MaxTotal    \* the largest TotalId

ASSUME LedgerAssumption ==
  /\ NULL \notin Accounts
  /\ IsFiniteSet(TokenIds)
  /\ BaseToken \in TokenIds
  /\ MaxClass \in Nat \ {0}
  /\ MaxTotal \in Nat \ {0}

VARIABLES
  running,        \* genesis is over and blocks are being built
  nextClassId,    \* NextClassId
  classOwner,     \* Classes[c].owner, NULL when there is no class
  totalIssuance,  \* Classes[c].total_issuance
  tokens,         \* Tokens[c][t].owner, NULL when there is no token
  tokensByOwner,  \* TokensByOwner: the keys <<account, class, token>>
  official        \* registry's Official

ledgerVars == <<running, nextClassId, classOwner, totalIssuance, tokens,
                tokensByOwner, official>>

ClassIds == 0 .. MaxClass
OptAccount == Accounts \cup {NULL}

\* Every storage item of the ledger holds a value of its declared type.
LedgerTypeOK ==
  /\ running \in BOOLEAN
  /\ nextClassId \in ClassIds
  /\ classOwner \in [ClassIds -> OptAccount]
  /\ totalIssuance \in [ClassIds -> 0 .. MaxTotal]
  /\ tokens \in [ClassIds -> [TokenIds -> OptAccount]]
  /\ tokensByOwner \in SUBSET (Accounts \X ClassIds \X TokenIds)
  /\ official \in OptAccount

LedgerInit ==
  /\ running = FALSE
  /\ nextClassId = 0
  /\ classOwner = [c \in ClassIds |-> NULL]
  /\ totalIssuance = [c \in ClassIds |-> 0]
  /\ tokens = [c \in ClassIds |-> [t \in TokenIds |-> NULL]]
  /\ tokensByOwner = {}
  /\ official = NULL

-----------------------------------------------------------------------------
(* The operations of the pallet.                                           *)

\* create_class: the next identifier must itself be representable.
CreateClass(a) ==
  /\ nextClassId + 1 <= MaxClass
  /\ nextClassId' = nextClassId + 1
  /\ classOwner' = [classOwner EXCEPT ![nextClassId] = a]
  /\ totalIssuance' = [totalIssuance EXCEPT ![nextClassId] = 0]
  /\ UNCHANGED <<tokens, tokensByOwner>>

\* mint does not look whether the token is there already.
Mint(a, c, t) ==
  /\ classOwner[c] # NULL
  /\ totalIssuance[c] + 1 <= MaxTotal
  /\ totalIssuance' = [totalIssuance EXCEPT ![c] = @ + 1]
  /\ tokens' = [tokens EXCEPT ![c][t] = a]
  /\ tokensByOwner' = tokensByOwner \cup {<<a, c, t>>}
  /\ UNCHANGED <<nextClassId, classOwner>>

\* Mutant of NftTransfer: the index entry of the old owner stays.
NftTransferKeepingEntry(from, to, c, t) ==
  /\ tokens[c][t] = from
  /\ tokens' = [tokens EXCEPT ![c][t] = to]
  /\ tokensByOwner' = tokensByOwner \cup {<<to, c, t>>}
  /\ UNCHANGED <<nextClassId, totalIssuance>>

\* transfer: handing a token to its owner changes nothing.
NftTransfer(from, to, c, t) ==
  /\ tokens[c][t] = from
  /\ IF from = to
     THEN UNCHANGED <<tokens, tokensByOwner>>
     ELSE /\ tokens' = [tokens EXCEPT ![c][t] = to]
          /\ tokensByOwner' = (tokensByOwner \ {<<from, c, t>>})
                                \cup {<<to, c, t>>}
  /\ UNCHANGED <<nextClassId, totalIssuance>>

\* burn: it fails when the class is missing or its total is zero.
NftBurn(a, c, t) ==
  /\ tokens[c][t] = a
  /\ classOwner[c] # NULL
  /\ totalIssuance[c] >= 1
  /\ totalIssuance' = [totalIssuance EXCEPT ![c] = @ - 1]
  /\ tokens' = [tokens EXCEPT ![c][t] = NULL]
  /\ tokensByOwner' = tokensByOwner \ {<<a, c, t>>}
  /\ UNCHANGED <<nextClassId, classOwner>>

-----------------------------------------------------------------------------
(* Genesis.  The configured tokens of a class are distinct; class 0 starts *)
(* with the base token, which goes to the owner of the class.              *)

GenesisClass(a) ==
  /\ ~running
  /\ CreateClass(a)
  /\ UNCHANGED <<running, official>>

GenesisMint(a, c, t) ==
  /\ ~running
  /\ tokens[c][t] = NULL
  /\ c = 0 => t = BaseToken /\ a = classOwner[0]
  /\ Mint(a, c, t)
  /\ UNCHANGED <<running, official>>

\* The presets, and initial_registry, give class 0, its base token and
\* Official to one account.
FinishGenesis ==
  /\ ~running
  /\ tokens[0][BaseToken] # NULL
  /\ official' = tokens[0][BaseToken]
  /\ running' = TRUE
  /\ UNCHANGED <<nextClassId, classOwner, totalIssuance, tokens, tokensByOwner>>

-----------------------------------------------------------------------------
(* The registry.  It works on class 0, and only on tokens with an entry in *)
(* RuntimeOrigin, which the base token never has.                          *)

\* Mutant of RegistryMint: a name that has a token is minted again.
RegistryMintAgain(to, t) ==
  /\ running
  /\ t # BaseToken
  /\ tokens[0][BaseToken] = official
  /\ to # official
  /\ Mint(to, 0, t)
  /\ UNCHANGED <<running, official>>

\* mint_subname under the base node: mint when there is no token, transfer
\* from its owner when there is one.
RegistryMint(to, t) ==
  /\ running
  /\ t # BaseToken
  /\ tokens[0][BaseToken] = official
  /\ to # official
  /\ IF tokens[0][t] = NULL
     THEN Mint(to, 0, t)
     ELSE NftTransfer(tokens[0][t], to, 0, t) /\ UNCHANGED classOwner
  /\ UNCHANGED <<running, official>>

\* do_transfer
RegistryTransfer(from, to, t) ==
  /\ running
  /\ t # BaseToken
  /\ NftTransfer(from, to, 0, t)
  /\ UNCHANGED <<running, official, classOwner>>

\* do_burn, and the burning of tokens by clear_subnames
RegistryBurn(a, t) ==
  /\ running
  /\ t # BaseToken
  /\ NftBurn(a, 0, t)
  /\ UNCHANGED <<running, official>>

\* Mutant of RegistrySetOfficial: the class keeps its owner.
RegistrySetOfficialKeepingClass(a) ==
  /\ running
  /\ NftTransfer(official, a, 0, BaseToken)
  /\ official' = a
  /\ UNCHANGED <<running, classOwner>>

\* set_official
RegistrySetOfficial(a) ==
  /\ running
  /\ NftTransfer(official, a, 0, BaseToken)
  /\ official' = a
  /\ classOwner' = [classOwner EXCEPT ![0] = IF @ = NULL THEN NULL ELSE a]
  /\ UNCHANGED running

LedgerNext ==
  \/ \E a \in Accounts : GenesisClass(a)
  \/ \E a \in Accounts, c \in ClassIds, t \in TokenIds : GenesisMint(a, c, t)
  \/ FinishGenesis
  \/ \E to \in Accounts, t \in TokenIds : RegistryMint(to, t)
  \/ \E from, to \in Accounts, t \in TokenIds : RegistryTransfer(from, to, t)
  \/ \E a \in Accounts, t \in TokenIds : RegistryBurn(a, t)
  \/ \E a \in Accounts : RegistrySetOfficial(a)

LedgerSpec == LedgerInit /\ [][LedgerNext]_ledgerVars

-----------------------------------------------------------------------------
(* What the ledger keeps.                                                  *)

\* is_owner and NFT::balance go by TokensByOwner, everything else by Tokens;
\* through any sequence of mints, take-overs, transfers and burns the two say
\* the same of every account, class and token.
OwnerIndexExact ==
  \A a \in Accounts, c \in ClassIds, t \in TokenIds :
    <<a, c, t>> \in tokensByOwner <=> tokens[c][t] = a

Issued(c) == {t \in TokenIds : tokens[c][t] # NULL}

\* total_issuance is the number of tokens of the class, and a token's class
\* exists: burn, whose error clear_subnames ignores, never fails on a token
\* that is there.
IssuanceExact ==
  \A c \in ClassIds :
    /\ totalIssuance[c] = Cardinality(Issued(c))
    /\ Issued(c) # {} => classOwner[c] # NULL

\* After genesis the official account, the owner of the base token and the
\* owner of class 0 are one account, so mint_subname's owner check passes.
OneOfficial ==
  running => /\ official # NULL
             /\ tokens[0][BaseToken] = official
             /\ classOwner[0] = official

=============================================================================
