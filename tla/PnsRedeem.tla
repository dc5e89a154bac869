------------------------------- MODULE PnsRedeem -------------------------------
(***************************************************************************)
(* Redeem codes.  A manager mints nonces; the official account signs codes *)
(* over a nonce, a duration and possibly a name; whoever has a code        *)
(* redeems it for an account, which gets the name without paying.  The     *)
(* composition is that of the registrar's mock: no marketplace, managers   *)
(* from the origin pallet, a registrar that can be closed.                 *)
(*                                                                         *)
(* The codes that were handed out are a constant set.  A code names the    *)
(* account that signed it, and is good while that account is official.     *)
(***************************************************************************)
EXTENDS PnsOrigin, FiniteSetsExt

CONSTANTS
  GenesisRedeems,  \* <<start, end>> of the nonces made at genesis
  MintRanges,      \* <<start, end>> mint_redeem may be called with
  MaxNonce,        \* the largest nonce, u32::MAX
  Codes,           \* codes for a name: [name, duration, nonce, signer]
  AnyCodes,        \* codes for any name: [duration, nonce, signer]
  LabelLength      \* LabelLength[n]: the length of the label of n

ASSUME RedeemAssumption ==
  /\ GenesisRedeems \in Nat \X Nat
  /\ MintRanges \subseteq Nat \X Nat
  /\ Codes \subseteq [name : Names, duration : Nat, nonce : Nat, signer : Accounts]
  /\ AnyCodes \subseteq [duration : Nat, nonce : Nat, signer : Accounts]
  /\ LabelLength \in [Names -> Nat]

VARIABLE redeems  \* Redeems: the nonces that can be used

redeemVars == <<vars, originVars, redeems>>

\* Genesis leaves out the end of the range, mint_redeem does not.
RedeemInit ==
  /\ Init
  /\ OriginInit
  /\ redeems = GenesisRedeems[1] .. (GenesisRedeems[2] - 1)

\* mint_redeem.  Its loop counts past `end`, which must not be the largest
\* nonce.
MintRedeem(m, start, end) ==
  /\ EnsureManager(m)
  /\ start < end
  /\ end < MaxNonce
  /\ redeems' = redeems \cup start .. end
  /\ UNCHANGED <<vars, originVars>>

-----------------------------------------------------------------------------
(* for_redeem_code: register without the fee, the reserved list, the       *)
(* pending offers and the SS58 record.                                     *)

\* Mutant of LeaseTerm: the duration in the code is taken as it is.
LeaseTermUncapped(duration) == duration

\* MaxRegistrationDuration caps the duration of the code.
LeaseTerm(duration) == Min({duration, Duration})

\* Mutant of MayRedeemFor: a subname does not count.
MayRedeemForPrimary(to) == ~HasValidCanonicalName(to)

\* The one-name test.
MayRedeemFor(to) == MayTakeName(to)

ForRedeemCode(to, n, duration) ==
  LET C == Wiped(n, {}) IN
  /\ LeaseTerm(duration) > 0
  /\ MayRedeemFor(to)
  /\ CanMint(to, n, {})
  /\ ClearSubnames(C)
  /\ accountToSubnames' =
       [a \in Accounts |->
          (HeldWithout(SubtreeOf(C))[a] \ {m \in C : owner[m] = a})
            \cup (IF a = to THEN {n} ELSE {})]
  /\ owner' = [owner EXCEPT ![n] = to]
  /\ origin' = [origin EXCEPT ![n] = "Root"]
  /\ expire' = [expire EXCEPT ![n] = now + LeaseTerm(duration)]
  /\ primary' = PrimaryAfterMint(to, n, {})
  /\ ss58' = Ss58Without(C \cup SubtreeOf(C))
  /\ dns' = DnsWithout(C)
  /\ texts' = TextsWithout(C)
  /\ UNCHANGED <<now, adminVars, offeredNames, listings>>

\* Mutant of UseNonce: the nonce stays good.
UseNonceAgain(nonce) == nonce \in redeems /\ UNCHANGED redeems

\* The nonce must be there and goes.
UseNonce(nonce) == nonce \in redeems /\ redeems' = redeems \ {nonce}

\* name_redeem, by any signed account.
NameRedeem(who, to, code) ==
  /\ UseNonce(code.nonce)
  /\ code.signer = official
  /\ ForRedeemCode(to, code.name, code.duration)
  /\ UNCHANGED originVars

\* is_registrable: MIN_REGISTRABLE_LEN is 1.
IsRegistrable(n) == LabelLength[n] >= 1

\* name_redeem_any, by any signed account.
NameRedeemAny(who, to, n, code) ==
  /\ UseNonce(code.nonce)
  /\ IsRegistrable(n)
  /\ code.signer = official
  /\ ForRedeemCode(to, n, code.duration)
  /\ UNCHANGED originVars

RedeemCall ==
  \/ \E m \in Accounts, r \in MintRanges : MintRedeem(m, r[1], r[2])
  \/ \E who, to \in Accounts, code \in Codes : NameRedeem(who, to, code)
  \/ \E who, to \in Accounts, n \in Names, code \in AnyCodes :
        NameRedeemAny(who, to, n, code)

-----------------------------------------------------------------------------
(* The composition.                                                        *)

\* is_open
IsOpen == isRegistrarOpen

\* The calls that ask whether the registrar is open: register, renew,
\* transfer and offer_subdomain.
OpenCall ==
  /\ IsOpen
  /\ \/ \E to \in Accounts, n \in Names : Register(to, n)
     \/ \E caller, to \in Accounts, n \in Names, s \in Subs :
           RegisterRejectingSubname(caller, to, n, s)
     \/ \E a \in Accounts : Renew(a)
     \/ \E who, to \in Accounts : Transfer(who, to)
     \/ \E a, target \in Accounts, s \in Subs : OfferSubdomain(a, s, target)

\* The calls that do not.
OwnerCall ==
  \/ \E a \in Accounts : ReleaseName(a)
  \/ \E a \in Accounts, n \in Names : Burn(a, n)
  \/ \E a \in Accounts, s \in Subs : AcceptSubdomain(a, s)
  \/ \E a \in Accounts, s \in Subs : RejectSubdomain(a, s)
  \/ \E a \in Accounts, s \in Subs : RevokeSubdomain(a, s)
  \/ \E a \in Accounts, s \in Subs : ReleaseSubdomain(a, s)

RedeemNext ==
  \/ /\ OpenCall \/ OwnerCall \/ Tick
     /\ UNCHANGED <<originVars, redeems>>
  \/ /\ \E m \in Accounts : EnsureManager(m)
     /\ ManagerCall
     /\ UNCHANGED <<originVars, redeems>>
  \/ OriginCall /\ UNCHANGED <<vars, redeems>>
  \/ RedeemCall

RedeemSpec == RedeemInit /\ [][RedeemNext]_redeemVars

-----------------------------------------------------------------------------
(* What holds with redeem codes.                                           *)

RedeemedLease ==
  INSTANCE NameLease
    WITH Holders <- Accounts, FirstTerms <- 1 .. Duration, Term <- Duration,
         clock <- now, holder <- owner, until <- expire

\* With redeem codes, closed registrars and changing managers too, a name
\* moves, ends or is extended only as the lease contract allows, and before it
\* has lapsed only by its holder's call; a redeemed lease is at most as long as
\* a registered one.
RedeemedLeaseContract == RedeemedLease!LeaseSpec /\ [][HolderDecides]_vars

\* Name n got a lease in this step: a holder, who has it as canonical name,
\* for a time that begins now.
BeginsLease(n) ==
  /\ owner[n] = NULL \/ Registrable(n)
  /\ owner'[n] # NULL /\ primary'[owner'[n]] = n
  /\ Useable(n)'

\* While the registrar is closed a lease begins or is extended only against
\* a nonce, one nonce for one name; and a nonce that goes, goes alone and
\* leaves one name that was free or lapsed with a new lease, and every other
\* name with the holder and the expiry it had.
ClosedLeasesCostNonces ==
  [][LET leased == {n \in Names : expire'[n] # expire[n] /\ expire'[n] # NULL}
     IN  /\ ~isRegistrarOpen /\ leased # {} =>
              /\ Cardinality(leased) = 1
              /\ redeems' \subseteq redeems
              /\ Cardinality(redeems \ redeems') = 1
         /\ ~(redeems \subseteq redeems') =>
              /\ \E nonce \in redeems : redeems' = redeems \ {nonce}
              /\ \E n \in Names :
                   /\ BeginsLease(n)
                   /\ \A m \in Names \ {n} :
                        owner'[m] = owner[m] /\ expire'[m] = expire[m]
    ]_redeemVars

=============================================================================
