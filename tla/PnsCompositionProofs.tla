------------------------- MODULE PnsCompositionProofs -------------------------
(***************************************************************************)
(* The two compositions around the pallets of Pns, each for any value of   *)
(* its constants.                                                          *)
(*                                                                         *)
(* Payments: any accounts, balances, tables of prices and any rate of the  *)
(* protocol fee.  A price can be looked up only for a label that is not    *)
(* empty, and asked of a buyer only for a name that is listed: both are    *)
(* kept by the calls and have to be carried along with the balances        *)
(* (PayInv).  The calls with payments add no behaviour to Pns.             *)
(*                                                                         *)
(* Redeem codes: any codes and ranges of nonces, any managers.  Redeeming  *)
(* is no call of Pns, for it asks neither the reserved list nor the price  *)
(* and may give less than a term; so the invariants of Pns are shown once  *)
(* more, for that one step, and hold together as RedeemInv.                *)
(***************************************************************************)
EXTENDS PnsPayments, PnsRedeem, PnsTreeProofs, FiniteSums

PayTypes ==
  /\ free \in [Accounts -> Nat]
  /\ burned \in Nat
  /\ basePrice \in PriceLists
  /\ asked \in [Names -> AskPrices \cup {NULL}]

\* A lease is on a label that is not empty, and a listing has its price.
Priced ==
  \A n \in Names : /\ expire[n] # NULL => LabelLen[n] > 0
                   /\ listings[n] # NULL => asked[n] \in AskPrices

PayInv == PayTypes /\ Priced /\ MoneyConserved

-----------------------------------------------------------------------------
(* The calls with payments are calls of Pns.                               *)

\* A step of PnsPayments is a step of Pns or leaves its storage alone.
LEMMA PayStepIsStep ==
  ASSUME [PayNext]_payVars
  PROVE  [Next]_vars
  <1>1. ASSUME NEW caller \in Accounts, NEW to \in Accounts, NEW n \in Names,
               PaidRegister(caller, to, n)
        PROVE  Next
    BY <1>1 DEF PaidRegister, Next, LeaseCall
  <1>2. ASSUME NEW a \in Accounts, PaidRenew(a)
        PROVE  Next
    BY <1>2 DEF PaidRenew, Next, LeaseCall
  <1>3. ASSUME NEW a \in Accounts, NEW price \in AskPrices, NEW t \in ListingExpiries,
               PaidListing(a, price, t)
        PROVE  Next
    BY <1>3 DEF PaidListing, Next, MarketCall
  <1>4. ASSUME NEW buyer \in Accounts, NEW n \in Names, PaidSale(buyer, n)
        PROVE  Next
    BY <1>4 DEF PaidSale, Next, MarketCall
  <1>5. CASE UnpaidCall
    BY <1>5 DEF UnpaidCall, Next, LeaseCall, MarketCall
  <1>6. CASE OracleCall
    BY <1>6 DEF OracleCall, SetBasePrice, SetRentPrice, SetExchangeRate
  <1>7. CASE UNCHANGED payVars
    BY <1>7 DEF payVars
  <1> QED
    BY <1>1, <1>2, <1>3, <1>4, <1>5, <1>6, <1>7 DEF PayNext

\* Joining the calls with their payments adds no behaviour to Pns, so that
\* whatever holds of Pns holds of PnsPayments.
THEOREM PaymentsImplementPns == PaySpec => Spec
  <1>1. PayInit => Init
    BY DEF PayInit
  <1>2. [PayNext]_payVars => [Next]_vars
    BY PayStepIsStep
  <1> QED
    BY <1>1, <1>2, PTL DEF PaySpec, Spec

-----------------------------------------------------------------------------
(* Prices.                                                                 *)

\* registration_fee finds a price for every label that is not empty.
LEMMA FeeIsPrice ==
  ASSUME PayTypes, NEW len \in Nat, len > 0
  PROVE  RegistrationFee(len) \in Nat
  <1> DEFINE k == Len(basePrice)
  <1>1. basePrice \in Seq(Nat) /\ basePrice # <<>>
    BY PaymentsAssumption DEF PayTypes
  <1>2. k \in Nat /\ k > 0
    BY <1>1
  <1> HIDE DEF k
  <1>3. Min({len, k}) = IF len <= k THEN len ELSE k
    BY <1>2 DEF Min
  <1>4. Min({len, k}) \in 1..k
    BY <1>2, <1>3
  <1> QED
    BY <1>1, <1>4 DEF RegistrationFee, k

\* The protocol fee is a natural number.
LEMMA ProtocolFeeType == \A price \in Nat : ProtocolFee(price) \in Nat
  <1> SUFFICES ASSUME NEW price \in Nat
               PROVE  ProtocolFee(price) \in Nat
    OBVIOUS
  <1>1. FeeScale \in Nat /\ FeeScale > 0 /\ FeeBps \in Nat
    BY PaymentsAssumption
  <1> DEFINE p == price * FeeBps
  <1>2. p \in Nat
    BY <1>1
  <1> HIDE DEF p
  <1>3. p \div FeeScale \in Nat
    BY <1>1, <1>2
  <1> QED
    BY <1>3 DEF ProtocolFee, p

-----------------------------------------------------------------------------
(* Moving money.                                                           *)

\* A balance and what was burned, after one account paid.
LEMMA BurnKeepsTotal ==
  ASSUME PayTypes, NEW who \in Accounts, NEW amount \in Nat, BurnFrom(who, amount)
  PROVE  /\ free' \in [Accounts -> Nat] /\ burned' \in Nat
         /\ burned' = burned + amount
         /\ \A a \in Accounts : free'[a] <= free[a]
         /\ SumFunction(free') + burned' = SumFunction(free) + burned
  <1>1. /\ amount = 0 \/ free[who] >= amount + Deposit
        /\ free' = [free EXCEPT ![who] = @ - amount]
        /\ burned' = burned + amount
    BY DEF BurnFrom, KeepsAlive
  <1>2. free \in [Accounts -> Nat] /\ burned \in Nat /\ free[who] \in Nat
    BY DEF PayTypes
  <1>3. free[who] - amount \in Nat
    BY <1>1, <1>2, PaymentsAssumption
  <1>4. free' \in [Accounts -> Nat]
    BY <1>1, <1>2, <1>3
  <1>5. /\ free'[who] = free[who] - amount
        /\ \A a \in Accounts : a # who => free'[a] = free[a]
    BY <1>1, <1>2
  <1>6. /\ SumFunction(free) \in Int
        /\ SumFunction(free') = SumFunction(free) + (free'[who] - free[who])
    <2>1. free \in [Accounts -> Int] /\ free' \in [Accounts -> Int] /\ IsFiniteSet(Accounts)
      BY <1>2, <1>4, PaymentsAssumption
    <2> QED
      BY <1>5, <2>1, SumChange
  <1>7. SumFunction(free') + burned' = SumFunction(free) + burned
    BY <1>1, <1>2, <1>5, <1>6
  <1>8. \A a \in Accounts : free'[a] <= free[a]
    BY <1>2, <1>5
  <1> QED
    BY <1>1, <1>2, <1>4, <1>7, <1>8

\* The balances and what was burned, after a sale between two accounts.
LEMMA SettleKeepsTotal ==
  ASSUME PayTypes, NEW buyer \in Accounts, NEW seller \in Accounts, buyer # seller,
         NEW price \in Nat, Settle(buyer, seller, price)
  PROVE  /\ free' \in [Accounts -> Nat] /\ burned' \in Nat
         /\ free'[buyer] = free[buyer] - price
         /\ free'[seller] = free[seller] + price - ProtocolFee(price)
         /\ \A a \in Accounts : a # buyer /\ a # seller => free'[a] = free[a]
         /\ SumFunction(free') + burned' = SumFunction(free) + burned
  <1> DEFINE fee == ProtocolFee(price)
             mid == [free EXCEPT ![buyer] = @ - price]
  <1>1. /\ price = 0 \/ free[buyer] >= price + Deposit
        /\ fee = 0 \/ free[seller] + price >= fee + Deposit
        /\ free' = [free EXCEPT ![buyer] = @ - price, ![seller] = @ + price - fee]
        /\ burned' = burned + fee
    BY DEF Settle, KeepsAlive
  <1>2. fee \in Nat /\ Deposit \in Nat
    BY ProtocolFeeType, PaymentsAssumption
  <1> HIDE DEF fee
  <1>3. /\ free \in [Accounts -> Nat] /\ burned \in Nat
        /\ free[buyer] \in Nat /\ free[seller] \in Nat
    BY DEF PayTypes
  <1>4. free[buyer] - price \in Nat /\ free[seller] + price - fee \in Nat
    BY <1>1, <1>2, <1>3
  <1>5. /\ free'[buyer] = free[buyer] - price
        /\ free'[seller] = free[seller] + price - fee
        /\ \A a \in Accounts : a # buyer /\ a # seller => free'[a] = free[a]
        /\ free' \in [Accounts -> Nat]
    BY <1>1, <1>3, <1>4
  <1>6. /\ mid \in [Accounts -> Nat]
        /\ mid[buyer] = free[buyer] - price
        /\ mid[seller] = free[seller]
        /\ \A a \in Accounts : a # buyer => mid[a] = free[a]
        /\ \A a \in Accounts : a # seller => free'[a] = mid[a]
    BY <1>3, <1>4, <1>5
  <1> HIDE DEF mid
  <1>7. /\ free \in [Accounts -> Int] /\ mid \in [Accounts -> Int]
        /\ free' \in [Accounts -> Int] /\ IsFiniteSet(Accounts)
    BY <1>3, <1>5, <1>6, PaymentsAssumption
  <1>8. /\ SumFunction(free) \in Int
        /\ SumFunction(mid) = SumFunction(free) + (mid[buyer] - free[buyer])
    BY <1>6, <1>7, SumChange
  <1>9. /\ SumFunction(mid) \in Int
        /\ SumFunction(free') = SumFunction(mid) + (free'[seller] - mid[seller])
    BY <1>6, <1>7, SumChange
  <1>10. SumFunction(free') + burned' = SumFunction(free) + burned
    BY <1>1, <1>2, <1>3, <1>5, <1>6, <1>8, <1>9
  <1>11. burned' \in Nat
    BY <1>1, <1>2, <1>3
  <1> QED
    BY <1>5, <1>10, <1>11 DEF fee

-----------------------------------------------------------------------------
(* One lemma per kind of call: what it does to the balances, to the leases *)
(* and to the listings.                                                    *)

\* The step conditions of LeasesArePaid and GainsAreSales.
LeasePaid ==
  \A n \in Names :
    expire'[n] \notin {NULL, expire[n]} =>
      \E payer \in Accounts :
        /\ burned' - burned = RegistrationFee(LabelLen[n])
        /\ free' = [free EXCEPT ![payer] = @ - RegistrationFee(LabelLen[n])]

GainSold ==
  \A a \in Accounts :
    free'[a] > free[a] =>
      \E n \in Names :
        /\ owner[n] = a /\ owner'[n] # a
        /\ listings[n] # NULL /\ listings'[n] = NULL
        /\ free'[a] - free[a] = asked[n] - ProtocolFee(asked[n])
        /\ \E buyer \in Accounts : free[buyer] - free'[buyer] = asked[n]

\* A lease that a step begins is on a label that is not empty, and a listing
\* it creates has a price.
PricedStep ==
  \A n \in Names : /\ expire'[n] \notin {NULL, expire[n]} => LabelLen[n] > 0
                   /\ listings'[n] # NULL => asked'[n] \in AskPrices

\* The names priced after a step.
LEMMA PricedAfter == Priced /\ PricedStep => Priced'
  BY DEF Priced, PricedStep

\* What the five kinds of calls have to keep.
Paid == PayTypes' /\ PricedStep /\ MoneyConserved' /\ LeasePaid /\ GainSold

\* Where no balance grows there is nothing to ask about sales.
LEMMA NoGain ==
  ASSUME PayTypes, free' \in [Accounts -> Nat], \A a \in Accounts : free'[a] <= free[a]
  PROVE  GainSold
  <1> SUFFICES ASSUME NEW a \in Accounts
               PROVE  ~(free'[a] > free[a])
    BY DEF GainSold
  <1>1. free[a] \in Nat /\ free'[a] \in Nat
    BY DEF PayTypes
  <1> QED
    BY <1>1

\* The fee of a lease is burned from the balance of one account.
LEMMA BurnIsPaid ==
  ASSUME PayInv, NEW who \in Accounts, NEW n \in Names, LabelLen[n] > 0,
         BurnFrom(who, RegistrationFee(LabelLen[n])),
         UNCHANGED <<basePrice, asked, listings>>,
         \A m \in Names : m # n => expire'[m] \in {NULL, expire[m]}
  PROVE  Paid
  <1> DEFINE fee == RegistrationFee(LabelLen[n])
  <1>1. PayTypes /\ Priced /\ MoneyConserved /\ LabelLen[n] \in Nat
    BY PaymentsAssumption DEF PayInv
  <1>2. fee \in Nat
    BY <1>1, FeeIsPrice
  <1>3. BurnFrom(who, fee)
    OBVIOUS
  <1>4. free' = [free EXCEPT ![who] = @ - fee]
    BY <1>3 DEF BurnFrom
  <1> HIDE DEF fee
  <1>5. /\ free' \in [Accounts -> Nat] /\ burned' \in Nat
        /\ burned' = burned + fee
        /\ \A a \in Accounts : free'[a] <= free[a]
        /\ SumFunction(free') + burned' = SumFunction(free) + burned
    BY <1>1, <1>2, <1>3, BurnKeepsTotal
  <1>6. PayTypes'
    BY <1>1, <1>5 DEF PayTypes
  <1>7. PricedStep
    BY <1>1 DEF PricedStep, Priced
  <1>8. MoneyConserved'
    BY <1>1, <1>5 DEF MoneyConserved
  <1>9. LeasePaid
    <2>1. burned' - burned = fee
      BY <1>1, <1>2, <1>5 DEF PayTypes
    <2> SUFFICES ASSUME NEW m \in Names, expire'[m] \notin {NULL, expire[m]}
                 PROVE  m = n
      BY <1>4, <2>1 DEF LeasePaid, fee
    <2> QED
      OBVIOUS
  <1>10. GainSold
    BY <1>1, <1>5, NoGain
  <1> QED
    BY <1>6, <1>7, <1>8, <1>9, <1>10 DEF Paid

\* register burns the price from its caller, who need not be who gets the
\* name, with and without an offer that it rejects.
LEMMA RegisterIsPaid ==
  ASSUME PayInv, NEW caller \in Accounts, NEW to \in Accounts,
         NEW n \in Names, PaidRegister(caller, to, n)
  PROVE  Paid
  <1>1. /\ LabelLen[n] > 0
        /\ BurnFrom(caller, RegistrationFee(LabelLen[n]))
        /\ UNCHANGED <<basePrice, asked>>
    BY DEF PaidRegister, Charge, oracleVars
  <1>2. PICK B \in SUBSET Names, R \in SUBSET Subs : RegisterAfter(to, n, B, R)
    <2>1. CASE Register(to, n)
      BY <2>1 DEF Register
    <2>2. ASSUME NEW g \in Names, RegisterRejectingName(caller, to, n, g)
          PROVE  {g} \in SUBSET Names /\ RegisterAfter(to, n, {g}, {})
      BY <2>2 DEF RegisterRejectingName
    <2>3. ASSUME NEW s \in Subs, RegisterRejectingSubname(caller, to, n, s)
          PROVE  {s} \in SUBSET Subs /\ RegisterAfter(to, n, {}, {s})
      BY <2>3 DEF RegisterRejectingSubname
    <2> QED
      BY <2>1, <2>2, <2>3 DEF PaidRegister
  <1>3. /\ expire' = [m \in Names |->
                        IF m = n THEN now + Duration
                        ELSE IF m \in B THEN NULL ELSE expire[m]]
        /\ UNCHANGED listings
    BY <1>2 DEF RegisterAfter
  <1>4. \A m \in Names : m # n => expire'[m] \in {NULL, expire[m]}
    BY <1>3
  <1> QED
    BY <1>1, <1>3, <1>4, BurnIsPaid

\* renew burns the price of the canonical name of its caller.
LEMMA RenewIsPaid ==
  ASSUME TypeInv, PayInv, NEW a \in Accounts, PaidRenew(a)
  PROVE  Paid
  <1> DEFINE n == primary[a]
  <1>1. /\ n # NULL /\ expire[n] # NULL
        /\ expire' = [expire EXCEPT ![n] = now + Duration]
        /\ UNCHANGED listings
        /\ BurnFrom(a, RegistrationFee(LabelLen[n]))
        /\ UNCHANGED <<basePrice, asked>>
    BY DEF PaidRenew, Renew, StillValid, oracleVars
  <1>2. n \in Names /\ expire \in [Names -> Nat \cup {NULL}]
    BY <1>1 DEF TypeInv, TypeOK
  <1> HIDE DEF n
  <1>3. LabelLen[n] > 0
    BY <1>1, <1>2 DEF PayInv, Priced
  <1>4. \A m \in Names : m # n => expire'[m] \in {NULL, expire[m]}
    BY <1>1, <1>2
  <1> QED
    BY <1>1, <1>2, <1>3, <1>4, BurnIsPaid

\* A step that moves no money, begins no lease and creates no listing without
\* a price.
LEMMA MovesNoMoney ==
  ASSUME PayInv, UNCHANGED <<free, burned>>, basePrice' \in PriceLists,
         asked' \in [Names -> AskPrices \cup {NULL}],
         \A n \in Names : /\ expire'[n] \in {NULL, expire[n]}
                          /\ listings'[n] # NULL => asked'[n] \in AskPrices
  PROVE  Paid
  <1>1. PayTypes /\ MoneyConserved
    BY DEF PayInv
  <1>2. PayTypes'
    BY <1>1 DEF PayTypes
  <1>3. PricedStep
    BY DEF PricedStep
  <1>4. MoneyConserved'
    BY <1>1 DEF MoneyConserved
  <1>5. LeasePaid
    BY DEF LeasePaid
  <1>6. GainSold
    <2>1. \A a \in Accounts : free'[a] <= free[a]
      BY <1>1 DEF PayTypes
    <2> QED
      BY <1>1, <1>2, <2>1, NoGain DEF PayTypes
  <1> QED
    BY <1>2, <1>3, <1>4, <1>5, <1>6 DEF Paid

\* create_listing gives the listing its price.
LEMMA ListingIsPriced ==
  ASSUME TypeInv, PayInv, NEW a \in Accounts, NEW price \in AskPrices,
         NEW t \in ListingExpiries, PaidListing(a, price, t)
  PROVE  Paid
  <1> DEFINE n == primary[a]
             entry == [seller |-> a, expiresAt |-> t]
  <1>1. /\ n # NULL
        /\ listings' = [listings EXCEPT ![n] = entry]
        /\ asked' = [asked EXCEPT ![n] = price]
        /\ UNCHANGED <<expire, free, burned, basePrice>>
    BY DEF PaidListing, CreateListing, leaseVars, oracleVars
  <1>2. n \in Names /\ listings \in [Names -> Listing \cup {NULL}]
    BY <1>1 DEF TypeInv, TypeOK
  <1> HIDE DEF n, entry
  <1>3. asked \in [Names -> AskPrices \cup {NULL}] /\ basePrice' \in PriceLists
    BY <1>1 DEF PayInv, PayTypes
  <1>4. asked' \in [Names -> AskPrices \cup {NULL}]
    BY <1>1, <1>2, <1>3
  <1>5. ASSUME NEW m \in Names, listings'[m] # NULL
        PROVE  asked'[m] \in AskPrices
    <2>1. CASE m = n
      BY <1>1, <1>2, <1>3, <2>1
    <2>2. CASE m # n
      BY <1>1, <1>2, <1>3, <1>5, <2>2 DEF PayInv, Priced
    <2> QED
      BY <2>1, <2>2
  <1> QED
    BY <1>1, <1>3, <1>4, <1>5, MovesNoMoney

\* The calls that move no money begin no lease and create no listing.
LEMMA UnpaidIsPriced ==
  ASSUME TypeInv, PayInv, UnpaidCall
  PROVE  Paid
  <1>1. /\ expire \in [Names -> Nat \cup {NULL}]
        /\ listings \in [Names -> Listing \cup {NULL}]
        /\ primary \in [Accounts -> Names \cup {NULL}]
    BY DEF TypeInv, TypeOK
  <1> DEFINE Small == \A n \in Names : /\ expire'[n] \in {NULL, expire[n]}
                                       /\ listings'[n] \in {NULL, listings[n]}
  <1>2. ASSUME NEW who \in Accounts, NEW to \in Accounts, Transfer(who, to)
        PROVE  Small
    BY <1>2 DEF Transfer, DoTransfer
  <1>3. ASSUME NEW a \in Accounts, ReleaseName(a)
        PROVE  Small
    BY <1>1, <1>3 DEF ReleaseName, DoBurn
  <1>4. ASSUME NEW a \in Accounts, CancelListing(a)
        PROVE  Small
    BY <1>1, <1>4 DEF CancelListing, leaseVars
  <1>5. ASSUME NEW a \in Accounts, NEW n \in Names, Burn(a, n)
        PROVE  Small
    BY <1>1, <1>5 DEF Burn, DoBurn
  <1>6. ASSUME NEW a \in Accounts, NEW n \in Names, AcceptOfferedName(a, n)
        PROVE  Small
    BY <1>6 DEF AcceptOfferedName, leaseVars
  <1>7. SubdomainCall \/ Tick => Small
    BY DEF SubdomainCall, OfferSubdomain, AcceptSubdomain, RejectSubdomain,
           RevokeSubdomain, ReleaseSubdomain, Tick, leaseVars
  <1> HIDE DEF Small
  <1>8. Small
    BY <1>2, <1>3, <1>4, <1>5, <1>6, <1>7 DEF UnpaidCall
  <1>9. /\ asked' = [n \in Names |-> IF listings'[n] = NULL THEN NULL ELSE asked[n]]
        /\ UNCHANGED <<free, burned, basePrice>>
    BY DEF UnpaidCall, oracleVars
  <1>10. asked \in [Names -> AskPrices \cup {NULL}] /\ basePrice' \in PriceLists
    BY <1>9 DEF PayInv, PayTypes
  <1>11. asked' \in [Names -> AskPrices \cup {NULL}]
    BY <1>9, <1>10
  <1>12. ASSUME NEW n \in Names, listings'[n] # NULL
         PROVE  asked'[n] \in AskPrices
    BY <1>8, <1>9, <1>12 DEF Small, PayInv, Priced
  <1>13. \A n \in Names : expire'[n] \in {NULL, expire[n]}
    BY <1>8 DEF Small
  <1> QED
    BY <1>9, <1>10, <1>11, <1>12, <1>13, MovesNoMoney

\* buy_name: the seller had the token, which goes to the buyer or to whom the
\* name is given, and is paid by the buyer.
LEMMA SaleIsPaid ==
  ASSUME TypeInv, PayInv, NEW buyer \in Accounts, NEW n \in Names, PaidSale(buyer, n)
  PROVE  Paid
  <1> DEFINE seller == listings[n].seller
             price == asked[n]
             Sold == /\ CanBuy(buyer, n)
                     /\ listings' = [listings EXCEPT ![n] = NULL]
                     /\ UNCHANGED expire
                     /\ \E to \in Accounts :
                          to # seller /\ owner' = [owner EXCEPT ![n] = to]
  <1>1. Sold
    <2>1. CASE BuyName(buyer, n)
      BY <2>1 DEF BuyName, TransferName, DoTransfer, CanBuy
    <2>2. ASSUME NEW recipient \in GiftRecipients, BuyNameFor(buyer, recipient, n)
          PROVE  Sold
      BY <2>2, InputsAssumption DEF BuyNameFor, OfferBoughtName, DoTransfer
    <2> QED
      BY <2>1, <2>2 DEF PaidSale
  <1>2. /\ Settle(buyer, seller, price)
        /\ asked' = [asked EXCEPT ![n] = NULL]
        /\ UNCHANGED basePrice
    BY DEF PaidSale, oracleVars
  <1>3. /\ listings \in [Names -> Listing \cup {NULL}]
        /\ owner \in [Names -> OptAccount]
    BY DEF TypeInv, TypeOK
  <1>4. /\ listings[n] # NULL /\ buyer # seller /\ owner[n] = seller
        /\ seller \in Accounts
    BY <1>1, <1>3 DEF CanBuy, Listing
  <1>5. /\ PayTypes /\ MoneyConserved
        /\ \A m \in Names : listings[m] # NULL => asked[m] \in AskPrices
    BY DEF PayInv, Priced
  <1>6. price \in Nat
    BY <1>4, <1>5, PaymentsAssumption
  <1>7. price = asked[n] /\ owner'[n] # seller
    BY <1>1, <1>3
  <1> HIDE DEF seller, price
  <1>8. /\ free' \in [Accounts -> Nat] /\ burned' \in Nat
        /\ free'[buyer] = free[buyer] - price
        /\ free'[seller] = free[seller] + price - ProtocolFee(price)
        /\ \A a \in Accounts : a # buyer /\ a # seller => free'[a] = free[a]
        /\ SumFunction(free') + burned' = SumFunction(free) + burned
    BY <1>2, <1>4, <1>5, <1>6, SettleKeepsTotal
  <1>9. PayTypes'
    <2>1. asked \in [Names -> AskPrices \cup {NULL}] /\ basePrice \in PriceLists
      BY <1>5 DEF PayTypes
    <2> QED
      BY <1>2, <1>8, <2>1 DEF PayTypes
  <1>10. PricedStep
    <2>1. asked \in [Names -> AskPrices \cup {NULL}]
      BY <1>5 DEF PayTypes
    <2> QED
      BY <1>1, <1>2, <1>3, <1>5, <2>1 DEF PricedStep
  <1>11. MoneyConserved'
    BY <1>5, <1>8 DEF MoneyConserved
  <1>12. LeasePaid
    BY <1>1 DEF LeasePaid
  <1>13. GainSold
    <2>1. free \in [Accounts -> Nat] /\ ProtocolFee(price) \in Nat
      BY <1>5, <1>6, ProtocolFeeType DEF PayTypes
    <2>2. ASSUME NEW a \in Accounts, free'[a] > free[a]
          PROVE  a = seller
      <3>1. free[a] \in Nat /\ free[buyer] \in Nat
        BY <2>1
      <3>2. a # buyer
        BY <1>6, <1>8, <2>2, <3>1
      <3>3. free'[a] # free[a]
        BY <2>2, <3>1
      <3> QED
        BY <1>8, <3>2, <3>3
    <2>3. free'[seller] - free[seller] = price - ProtocolFee(price)
      <3>1. free[seller] \in Nat
        BY <1>4, <2>1
      <3>2. free'[seller] = free[seller] + price - ProtocolFee(price)
        BY <1>8
      <3> QED
        BY <1>6, <2>1, <3>1, <3>2
    <2>4. free[buyer] - free'[buyer] = price
      <3>1. free[buyer] \in Nat
        BY <2>1
      <3>2. free'[buyer] = free[buyer] - price
        BY <1>8
      <3> QED
        BY <1>6, <3>1, <3>2
    <2>5. listings'[n] = NULL
      BY <1>1, <1>3
    <2> QED
      BY <1>4, <1>7, <2>2, <2>3, <2>4, <2>5 DEF GainSold
  <1> QED
    BY <1>9, <1>10, <1>11, <1>12, <1>13 DEF Paid

\* The calls on the tables of prices, and a step that does nothing.
LEMMA TablesArePriced ==
  ASSUME PayInv, OracleCall \/ UNCHANGED payVars
  PROVE  Paid
  <1> DEFINE NamesAlone == /\ UNCHANGED <<free, burned, asked, expire, listings>>
                           /\ basePrice' \in PriceLists \/ UNCHANGED basePrice
  <1>1. NamesAlone
    <2>1. ASSUME NEW prices \in PriceLists, SetBasePrice(prices)
          PROVE  NamesAlone
      BY <2>1 DEF SetBasePrice, vars, leaseVars
    <2>2. ASSUME NEW prices \in RentLists, SetRentPrice(prices)
          PROVE  NamesAlone
      BY <2>2 DEF SetRentPrice, vars, leaseVars
    <2>3. ASSUME NEW rate \in Rates, SetExchangeRate(rate)
          PROVE  NamesAlone
      BY <2>3 DEF SetExchangeRate, vars, leaseVars
    <2>4. CASE UNCHANGED payVars
      BY <2>4 DEF payVars, moneyVars, oracleVars, vars, leaseVars
    <2> QED
      BY <2>1, <2>2, <2>3, <2>4 DEF OracleCall
  <1>2. /\ asked \in [Names -> AskPrices \cup {NULL}] /\ basePrice \in PriceLists
        /\ \A n \in Names : listings[n] # NULL => asked[n] \in AskPrices
    BY DEF PayInv, PayTypes, Priced
  <1>3. /\ asked' \in [Names -> AskPrices \cup {NULL}] /\ basePrice' \in PriceLists
        /\ \A n \in Names : /\ expire'[n] \in {NULL, expire[n]}
                            /\ listings'[n] # NULL => asked'[n] \in AskPrices
    BY <1>1, <1>2
  <1> HIDE DEF NamesAlone
  <1>4. UNCHANGED <<free, burned>>
    BY <1>1 DEF NamesAlone
  <1> QED
    BY <1>3, <1>4, MovesNoMoney

-----------------------------------------------------------------------------
(* The theorems.                                                           *)

\* Every step.
LEMMA EveryStepPaid ==
  ASSUME TypeInv, PayInv, [PayNext]_payVars
  PROVE  Paid /\ PayInv'
  <1>1. Paid
    BY RegisterIsPaid, RenewIsPaid, ListingIsPriced, SaleIsPaid, UnpaidIsPriced,
       TablesArePriced DEF PayNext
  <1> QED
    BY <1>1, PricedAfter DEF Paid, PayInv

\* At genesis nothing is burned and no name has a price.
LEMMA PayInitial == PayInit => PayInv
  <1> SUFFICES ASSUME PayInit
               PROVE  PayInv
    OBVIOUS
  <1>1. PayTypes
    BY PaymentsAssumption DEF PayInit, PayTypes
  <1>2. Priced
    BY DEF PayInit, Init, Priced
  <1>3. MoneyConserved
    <2>1. SumFunction(InitialFree) \in Int
      BY PaymentsAssumption, SumType DEF SumFunction
    <2> QED
      BY <2>1 DEF PayInit, MoneyConserved
  <1> QED
    BY <1>1, <1>2, <1>3 DEF PayInv

\* Balances, prices and listings agree at every moment.
THEOREM PayInvariance == PaySpec => []PayInv
  <1>1. TypeInv /\ PayInv /\ [PayNext]_payVars => PayInv'
    BY EveryStepPaid
  <1> QED
    BY PaymentsImplementPns, TypeInvariance, PayInitial, <1>1, PTL
       DEF PaySpec

\* Whatever register, renew and buy_name do, the balances and what was burned
\* add up to what there was at genesis.
THEOREM MoneyAlwaysConserved == PaySpec => []MoneyConserved
  <1>1. PayInv => MoneyConserved
    BY DEF PayInv
  <1> QED
    BY PayInvariance, <1>1, PTL

\* A lease begins, and is extended, only against the price of the table in
\* force, burned from the balance of one account and no other.
THEOREM LeasesAlwaysPaid == PaySpec => LeasesArePaid
  <1>1. TypeInv /\ PayInv /\ [PayNext]_payVars => LeasePaid
    BY EveryStepPaid DEF Paid
  <1> QED
    BY PaymentsImplementPns, TypeInvariance, PayInvariance, <1>1, PTL
       DEF PaySpec, LeasesArePaid, LeasePaid

\* The only way to a higher balance is to have sold a listed name one owned,
\* for the price asked less the protocol fee.
THEOREM GainsAlwaysSales == PaySpec => GainsAreSales
  <1>1. TypeInv /\ PayInv /\ [PayNext]_payVars => GainSold
    BY EveryStepPaid DEF Paid
  <1> QED
    BY PaymentsImplementPns, TypeInvariance, PayInvariance, <1>1, PTL
       DEF PaySpec, GainsAreSales, GainSold

-----------------------------------------------------------------------------
(* Redeem codes.                                                           *)

\* A code gives a lease of some length, and of at most a whole term.
LEMMA LeaseTermBounds ==
  ASSUME NEW d \in Nat, LeaseTerm(d) > 0
  PROVE  LeaseTerm(d) \in 1 .. Duration
  <1>1. Duration \in Nat
    BY NumbersAssumption
  <1>2. \E x \in {d, Duration} : \A y \in {d, Duration} : x <= y
    BY <1>1
  <1>3. LeaseTerm(d) \in {d, Duration} /\ \A y \in {d, Duration} : LeaseTerm(d) <= y
    BY <1>2 DEF LeaseTerm, Min
  <1> QED
    BY <1>1, <1>3

\* The numbers a redeemed lease rests on.
LEMMA RedeemNumbers ==
  ASSUME TypeInv, NEW d \in Nat, LeaseTerm(d) > 0
  PROVE  /\ now \in Nat
         /\ now + LeaseTerm(d) \in Nat
         /\ now + LeaseTerm(d) # NULL
         /\ now < now + LeaseTerm(d)
         /\ now + LeaseTerm(d) <= now + Duration
  <1>1. now \in Nat
    BY DEF TypeInv, TypeOK
  <1>2. Duration \in Nat /\ NULL \notin Nat
    BY NumbersAssumption
  <1> DEFINE t == LeaseTerm(d)
  <1>3. t \in 1 .. Duration
    BY LeaseTermBounds
  <1> HIDE DEF t
  <1>4. now + t \in Nat /\ now < now + t /\ now + t <= now + Duration
    BY <1>1, <1>2, <1>3
  <1> QED
    BY <1>1, <1>2, <1>4 DEF t

\* The subtrees a mint wipes.
LEMMA WipedType ==
  ASSUME TypeInv, NEW n \in Names
  PROVE  /\ Wiped(n, {}) \in SUBSET Names
         /\ SubtreeOf(Wiped(n, {})) \in SUBSET Subs
         /\ owner[n] # NULL => n \in Wiped(n, {})
         /\ \A m \in Wiped(n, {}) : m = n
  <1>1. Wiped(n, {}) \in SUBSET Names
    BY DEF Wiped
  <1>2. SubtreeOf(Wiped(n, {})) \in SUBSET Subs
    BY <1>1, SubtreeType DEF TypeInv
  <1> QED
    BY <1>1, <1>2 DEF Wiped, IsFresh

\* What for_redeem_code does to the lease and to OwnerToPrimaryName.
LeasesTo(to, n, d) ==
  /\ owner'[n] = to /\ expire'[n] = now + LeaseTerm(d) /\ origin'[n] = "Root"
  /\ \A m \in Names : m # n => /\ owner'[m] = owner[m]
                               /\ expire'[m] = expire[m]
                               /\ origin'[m] = origin[m]
  /\ LeaseTerm(d) > 0
  /\ now' = now /\ offeredNames' = offeredNames
  /\ primary'[to] = n
  /\ \A a \in Accounts : a # to => primary'[a] = primary[a] \/ primary[a] = n

\* for_redeem_code leases n to the account, and no other name.
LEMMA RedeemLease ==
  ASSUME TypeInv, NEW to \in Accounts, NEW n \in Names, NEW d \in Nat,
         ForRedeemCode(to, n, d)
  PROVE  LeasesTo(to, n, d)
  <1>1. /\ owner' = [owner EXCEPT ![n] = to]
        /\ origin' = [origin EXCEPT ![n] = "Root"]
        /\ expire' = [expire EXCEPT ![n] = now + LeaseTerm(d)]
        /\ primary' = PrimaryAfterMint(to, n, {})
        /\ LeaseTerm(d) > 0
        /\ now' = now /\ offeredNames' = offeredNames
    BY DEF ForRedeemCode
  <1>2. /\ owner \in [Names -> OptAccount]
        /\ origin \in [Names -> {"Root", NULL}]
        /\ expire \in [Names -> Nat \cup {NULL}]
    BY DEF TypeInv, TypeOK
  <1>3. /\ primary'[to] = n
        /\ \A a \in Accounts : a # to => primary'[a] = primary[a] \/ primary[a] = n
    BY <1>1 DEF PrimaryAfterMint
  <1>4. /\ owner'[n] = to /\ expire'[n] = now + LeaseTerm(d) /\ origin'[n] = "Root"
        /\ \A m \in Names : m # n => /\ owner'[m] = owner[m]
                                     /\ expire'[m] = expire[m]
                                     /\ origin'[m] = origin[m]
    BY <1>1, <1>2
  <1> QED
    BY <1>1, <1>3, <1>4 DEF LeasesTo

\* What for_redeem_code writes is well typed.
LEMMA RedeemType ==
  ASSUME TypeInv, NEW to \in Accounts, NEW n \in Names, NEW d \in Nat,
         ForRedeemCode(to, n, d)
  PROVE  TypeInv'
  <1> DEFINE C == Wiped(n, {})
             D == SubtreeOf(C)
  <1>1. C \in SUBSET Names /\ D \in SUBSET Subs
    BY WipedType
  <1>2. /\ ClearSubnames(C)
        /\ accountToSubnames' =
             [a \in Accounts |->
                (HeldWithout(D)[a] \ {m \in C : owner[m] = a})
                  \cup (IF a = to THEN {n} ELSE {})]
        /\ ss58' = Ss58Without(C \cup D)
        /\ dns' = DnsWithout(C)
        /\ texts' = TextsWithout(C)
    BY DEF ForRedeemCode
  <1>3. /\ owner' = [owner EXCEPT ![n] = to]
        /\ origin' = [origin EXCEPT ![n] = "Root"]
        /\ expire' = [expire EXCEPT ![n] = now + LeaseTerm(d)]
        /\ primary' = PrimaryAfterMint(to, n, {})
        /\ LeaseTerm(d) > 0
        /\ UNCHANGED <<now, adminVars, offeredNames, listings>>
    BY DEF ForRedeemCode
  <1> HIDE DEF C, D
  <1>4. /\ subnameRecords' \in [Subs -> SubnameRecord \cup {NULL}]
        /\ offeredToAccount' \in [Accounts -> SUBSET Subs]
        /\ subNames' \in [Names -> SUBSET Subs]
        /\ children' \in [Names -> Nat]
        /\ RecordParents'
    BY <1>1, <1>2, ClearSubnamesType
  <1>5. C \in SUBSET Nodes /\ C \cup D \in SUBSET Nodes /\ n \in Nodes
    BY <1>1 DEF Nodes
  <1>6. /\ ss58' \in [Nodes -> OptAccount]
        /\ dns' \in [Names -> OptAccount]
        /\ texts' \in [Names -> OptAccount]
    BY <1>2, <1>5, WipeType, Zenon DEF TypeInv
  <1>7. accountToSubnames' \in [Accounts -> SUBSET Nodes]
    <2>1. HeldWithout(D) \in [Accounts -> SUBSET Nodes]
      BY <1>1, DropType DEF TypeInv
    <2> QED
      BY <1>2, <1>5, <2>1
  <1>8. owner' \in [Names -> OptAccount] /\ origin' \in [Names -> {"Root", NULL}]
    BY <1>3 DEF TypeInv, TypeOK, OptAccount
  <1>9. expire' \in [Names -> Nat \cup {NULL}]
    <2>1. expire \in [Names -> Nat \cup {NULL}]
      BY DEF TypeInv, TypeOK
    <2>2. now + LeaseTerm(d) \in Nat
      BY <1>3, RedeemNumbers
    <2> QED
      BY <1>3, <2>1, <2>2
  <1>10. primary' \in [Accounts -> Names \cup {NULL}]
    BY <1>3 DEF PrimaryAfterMint, TypeInv, TypeOK
  <1>11. /\ now' \in Nat /\ baseOwner' \in Accounts /\ official' \in Accounts
         /\ reserved' \in SUBSET Names
         /\ offeredNames' \in [Names -> OptAccount]
         /\ listings' \in [Names -> Listing \cup {NULL}]
    BY <1>3 DEF adminVars, TypeInv, TypeOK
  <1> QED
    BY <1>4, <1>6, <1>7, <1>8, <1>9, <1>10, <1>11 DEF TypeInv, TypeOK

\* for_redeem_code drops the subnames of the name it takes over and no others.
LEMMA RedeemDrops ==
  ASSUME TypeInv, IndexExact, NEW to \in Accounts, NEW n \in Names, NEW d \in Nat,
         ForRedeemCode(to, n, d)
  PROVE  IndexExact' /\ NoSubsAdded
  <1> DEFINE C == Wiped(n, {})
             D == SubtreeOf(C)
  <1>1. C \in SUBSET Names /\ D \in SUBSET Subs
    BY WipedType
  <1>2. /\ subnameRecords' = RecordsWithout(D)
        /\ offeredToAccount' = OfferedWithout(D)
        /\ accountToSubnames' =
             [a \in Accounts |->
                (HeldWithout(D)[a] \ {m \in C : owner[m] = a})
                  \cup (IF a = to THEN {n} ELSE {})]
    BY DEF ForRedeemCode, ClearSubnames
  <1> HIDE DEF C, D
  <1>3. \A a \in Accounts, s \in Subs :
          s \in accountToSubnames'[a] <=> s \in HeldWithout(D)[a]
    BY <1>1, <1>2, NodesAssumption
  <1>4. DropsSubs(D)
    BY <1>2, <1>3 DEF DropsSubs
  <1> QED
    BY <1>1, <1>4, DropIndex DEF NoSubsAdded

\* for_redeem_code leases n and keeps the other names.
LEMMA RedeemKeepsTree ==
  ASSUME TypeInv, TreeInv, NEW to \in Accounts, NEW n \in Names, NEW d \in Nat,
         ForRedeemCode(to, n, d)
  PROVE  TreeInv'
  <1> DEFINE C == Wiped(n, {})
  <1>0. LeasesTo(to, n, d)
    BY RedeemLease
  <1>1. C \in SUBSET Names
    BY WipedType
  <1>2. ClearSubnames(C) /\ dns' = DnsWithout(C) /\ texts' = TextsWithout(C)
    BY DEF ForRedeemCode
  <1> HIDE DEF C
  <1>3. SubtreeConsistent' /\ ChildrenExact'
    BY <1>1, <1>2, ClearTree, DropSubtree, DropChildren DEF TreeInv
  <1>4. \A m \in Names : /\ subNames'[m] \subseteq subNames[m]
                         /\ dns'[m] \in {NULL, dns[m]}
                         /\ texts'[m] \in {NULL, texts[m]}
    BY <1>2 DEF ClearSubnames, DnsWithout, TextsWithout
  <1>5. LeasedAfter(n)
    <2>1. /\ owner'[n] = to /\ expire'[n] = now + LeaseTerm(d) /\ origin'[n] = "Root"
          /\ LeaseTerm(d) > 0
      BY <1>0 DEF LeasesTo
    <2>2. now + LeaseTerm(d) # NULL
      BY <2>1, RedeemNumbers
    <2> QED
      BY <2>1, <2>2, AccountsAssumption DEF LeasedAfter
  <1>6. \A m \in Names : m # n => KeptAfter(m)
    <2>1. \A m \in Names : m # n => /\ owner'[m] = owner[m]
                                    /\ expire'[m] = expire[m]
                                    /\ origin'[m] = origin[m]
      BY <1>0 DEF LeasesTo
    <2> QED
      BY <1>4, <2>1 DEF KeptAfter
  <1> QED
    BY <1>3, <1>5, <1>6, LeaseFromCases DEF TreeInv

\* An account a code is redeemed for passed the one-name test, so it held
\* nothing and now holds the redeemed name.
LEMMA RedeemOneName ==
  ASSUME TypeInv, TypeInv', IndexExact, OneNameInv,
         NEW to \in Accounts, NEW n \in Names, NEW d \in Nat, ForRedeemCode(to, n, d)
  PROVE  OneNameInv'
  <1>0. LeasesTo(to, n, d)
    BY RedeemLease
  <1>1. NoSubsAdded
    BY RedeemDrops
  <1>2. HeldNames(to) = {} /\ HeldSubs(to) = {}
    <2>1. MayTakeName(to)
      BY DEF ForRedeemCode, MayRedeemFor
    <2> QED
      BY <2>1, TakerHoldsNothing DEF OneNameInv
  <1>3. \A a \in Accounts : HeldNames(a)' \ {n} \subseteq HeldNames(a)
    BY <1>0 DEF LeasesTo, HeldNames, Pending, StillValid
  <1>4. \A a \in Accounts \ {to} : n \notin HeldNames(a)'
    BY <1>0 DEF LeasesTo, HeldNames
  <1>5. \A a \in Accounts : \A m \in HeldNames(a)' : primary'[a] = m
    <2>1. \A m \in HeldNames(to)' : primary'[to] = m
      BY <1>0, <1>2, <1>3 DEF LeasesTo
    <2>2. ASSUME NEW a \in Accounts \ {to}, NEW m \in HeldNames(a)'
          PROVE  primary'[a] = m
      <3>1. primary'[a] = primary[a] \/ primary[a] = n
        BY <1>0 DEF LeasesTo
      <3>2. m # n /\ m \in HeldNames(a)
        BY <1>3, <1>4
      <3>3. primary[a] = m
        BY <3>2, HeldNamesUnique DEF OneNameInv
      <3> QED
        BY <3>1, <3>2, <3>3
    <2>3. \A a \in Accounts \ {to} : \A m \in HeldNames(a)' : primary'[a] = m
      BY <2>2
    <2> QED
      BY <2>1, <2>3
  <1>6. HeldSubs(to)' = {}
    BY <1>1, <1>2 DEF NoSubsAdded
  <1>7. \A a \in Accounts \ {to} : HoldsNoMore(a)
    BY <1>1, <1>3, <1>4 DEF HoldsNoMore, NoSubsAdded
  <1> QED
    BY <1>5, <1>6, <1>7, OneNameStep

\* Redeeming a code takes a name that is free or lapsed, for at most a term.
LEMMA RedeemTakes ==
  ASSUME TypeInv, TermInv, NEW to \in Accounts, NEW n \in Names, NEW d \in Nat,
         ForRedeemCode(to, n, d)
  PROVE  RedeemedLease!LeaseNext /\ TermInv'
  <1>1. /\ owner' = [owner EXCEPT ![n] = to]
        /\ expire' = [expire EXCEPT ![n] = now + LeaseTerm(d)]
        /\ now' = now
        /\ owner[n] = NULL \/ Registrable(n)
    BY DEF ForRedeemCode, CanMint, IsFresh
  <1>2. owner \in [Names -> OptAccount] /\ expire \in [Names -> Nat \cup {NULL}]
    BY DEF TypeInv, TypeOK
  <1>3. LeaseTerm(d) \in 1 .. Duration
    <2>1. LeaseTerm(d) > 0
      BY DEF ForRedeemCode
    <2> QED
      BY <2>1, LeaseTermBounds
  <1>4. owner' = [m \in Names |-> IF m = n THEN to ELSE IF m \in {} THEN NULL ELSE owner[m]]
    BY <1>1, <1>2
  <1>5. expire' = [m \in Names |-> IF m = n THEN now + LeaseTerm(d)
                                   ELSE IF m \in {} THEN NULL ELSE expire[m]]
    BY <1>1, <1>2
  <1>6. owner[n] = NULL \/ (owner[n] # NULL /\ now > expire[n] + Grace)
    BY <1>1 DEF Registrable
  <1>7. RedeemedLease!Take(n, to, {})
    BY <1>1, <1>3, <1>4, <1>5, <1>6
       DEF RedeemedLease!Take, RedeemedLease!Held, RedeemedLease!Lapsed
  <1>8. RedeemedLease!LeaseNext
    BY <1>7 DEF RedeemedLease!LeaseNext
  <1>9. TermInv'
    <2>1. LeasesTo(to, n, d)
      BY RedeemLease
    <2>2. LeaseTerm(d) > 0
      BY <2>1 DEF LeasesTo
    <2>3. now + LeaseTerm(d) <= now + Duration
      BY <2>2, RedeemNumbers
    <2> QED
      BY <2>1, <2>3 DEF LeasesTo, TermInv
  <1> QED
    BY <1>8, <1>9

\* and leaves every lease alone that is held and has not lapsed.
LEMMA RedeemDecides ==
  ASSUME TypeInv, NEW to \in Accounts, NEW n \in Names, NEW d \in Nat,
         ForRedeemCode(to, n, d)
  PROVE  HolderDecides
  <1>1. owner[n] = NULL \/ Registrable(n)
    BY DEF ForRedeemCode, CanMint, IsFresh
  <1>2. \A m \in Names \ {n} : owner'[m] = owner[m] /\ expire'[m] = expire[m]
    BY DEF ForRedeemCode, TypeInv, TypeOK
  <1> QED
    BY <1>1, <1>2 DEF HolderDecides

-----------------------------------------------------------------------------
(* The composition with redeem codes: every step is a call of Pns, or      *)
(* for_redeem_code, or one of the origin pallet that touches no name.      *)

RedeemInv == TypeInv /\ IndexExact /\ TreeInv /\ OneNameInv /\ TermInv

\* A step redeems a code.
Redeems(to, n, d, nonce) == ForRedeemCode(to, n, d) /\ UseNonce(nonce)

\* The calls that go on while the registrar is closed, in the tables of Pns.
ClosedCall == OwnerCall \/ ManagerCall \/ Tick \/ UNCHANGED vars

\* What a step can be.
LEMMA RedeemSteps ==
  ASSUME [RedeemNext]_redeemVars
  PROVE  \/ IsOpen /\ OpenCall /\ UNCHANGED redeems
         \/ ClosedCall /\ redeems \subseteq redeems'
         \/ \E to \in Accounts, n \in Names, d, nonce \in Nat : Redeems(to, n, d, nonce)
  <1>1. ASSUME NEW who \in Accounts, NEW to \in Accounts, NEW code \in Codes,
               NameRedeem(who, to, code)
        PROVE  \E n \in Names, d, nonce \in Nat : Redeems(to, n, d, nonce)
    <2>1. code.name \in Names /\ code.duration \in Nat /\ code.nonce \in Nat
      BY RedeemAssumption
    <2> QED
      BY <1>1, <2>1 DEF NameRedeem, Redeems
  <1>2. ASSUME NEW who \in Accounts, NEW to \in Accounts, NEW n \in Names,
               NEW code \in AnyCodes, NameRedeemAny(who, to, n, code)
        PROVE  \E d, nonce \in Nat : Redeems(to, n, d, nonce)
    <2>1. code.duration \in Nat /\ code.nonce \in Nat
      BY RedeemAssumption
    <2> QED
      BY <1>2, <2>1 DEF NameRedeemAny, Redeems
  <1>3. ASSUME NEW m, NEW start, NEW end, MintRedeem(m, start, end)
        PROVE  ClosedCall /\ redeems \subseteq redeems'
    BY <1>3 DEF MintRedeem, ClosedCall
  <1>4. CASE RedeemCall
    BY <1>1, <1>2, <1>3, <1>4 DEF RedeemCall
  <1>5. CASE OriginCall /\ UNCHANGED <<vars, redeems>>
    BY <1>5 DEF ClosedCall
  <1>6. CASE (OpenCall \/ OwnerCall \/ Tick) /\ UNCHANGED redeems
    BY <1>6 DEF ClosedCall, OpenCall
  <1>7. CASE ManagerCall /\ UNCHANGED redeems
    BY <1>7 DEF ClosedCall
  <1>8. CASE UNCHANGED redeemVars
    BY <1>8 DEF redeemVars, ClosedCall
  <1> QED
    BY <1>4, <1>5, <1>6, <1>7, <1>8 DEF RedeemNext

\* A step that redeems no code is a step of Pns.
LEMMA OtherStepIsStep ==
  ASSUME OpenCall \/ ClosedCall
  PROVE  [Next]_vars
  BY DEF OpenCall, ClosedCall, OwnerCall, Next, LeaseCall, SubdomainCall

\* A lease for a whole term is one of those a code may give.
LEMMA LeaseIsRedeemedLease ==
  ASSUME [Lease!LeaseNext]_(Lease!leaseState)
  PROVE  [RedeemedLease!LeaseNext]_(RedeemedLease!leaseState)
  <1>1. Duration \in 1 .. Duration
    BY NumbersAssumption
  <1>2. ASSUME NEW n \in Names, NEW a \in Accounts, NEW given, Lease!Take(n, a, given)
        PROVE  RedeemedLease!Take(n, a, given)
    BY <1>1, <1>2 DEF Lease!Take, Lease!Held, Lease!Lapsed,
                      RedeemedLease!Take, RedeemedLease!Held, RedeemedLease!Lapsed
  <1>3. ASSUME NEW n \in Names
        PROVE  /\ \A a \in Accounts : Lease!Give(n, a) => RedeemedLease!Give(n, a)
               /\ Lease!Drop(n) => RedeemedLease!Drop(n)
               /\ Lease!Extend(n) => RedeemedLease!Extend(n)
    BY DEF Lease!Give, Lease!Drop, Lease!Extend, Lease!Held, Lease!Lapsed,
           RedeemedLease!Give, RedeemedLease!Drop, RedeemedLease!Extend,
           RedeemedLease!Held, RedeemedLease!Lapsed
  <1>4. Lease!Advance => RedeemedLease!Advance
    BY DEF Lease!Advance, RedeemedLease!Advance
  <1>5. Lease!LeaseNext => RedeemedLease!LeaseNext
    BY <1>2, <1>3, <1>4 DEF Lease!LeaseNext, RedeemedLease!LeaseNext
  <1>6. UNCHANGED Lease!leaseState => UNCHANGED RedeemedLease!leaseState
    BY DEF Lease!leaseState, RedeemedLease!leaseState
  <1> QED
    BY <1>5, <1>6

\* Every step keeps the invariant and is a step of the lease contract.
LEMMA RedeemStep ==
  ASSUME RedeemInv, [RedeemNext]_redeemVars
  PROVE  /\ RedeemInv'
         /\ [RedeemedLease!LeaseNext]_(RedeemedLease!leaseState)
         /\ HolderDecides
  <1> DEFINE Allowed == /\ RedeemInv'
                        /\ [RedeemedLease!LeaseNext]_(RedeemedLease!leaseState)
                        /\ HolderDecides
  <1>1. TypeInv /\ IndexExact /\ TreeInv /\ OneNameInv /\ TermInv
    BY DEF RedeemInv
  <1>2. ASSUME [Next]_vars
        PROVE  Allowed
    <2>1. TypeInv'
      BY <1>1, <1>2, StepType
    <2>2. IndexExact' /\ TreeInv'
      BY <1>1, <1>2, StepIndex, StepTree
    <2>3. OneNameInv'
      BY <1>1, <1>2, <2>1, StepOneName
    <2>4. TermInv' /\ [Lease!LeaseNext]_(Lease!leaseState)
      BY <1>1, <1>2, StepLease
    <2>5. HolderDecides
      BY <1>1, <1>2, StepDecides
    <2> QED
      BY <2>1, <2>2, <2>3, <2>4, <2>5, LeaseIsRedeemedLease DEF RedeemInv
  <1>3. ASSUME NEW to \in Accounts, NEW n \in Names, NEW d \in Nat, ForRedeemCode(to, n, d)
        PROVE  Allowed
    <2>1. TypeInv'
      BY <1>1, <1>3, RedeemType
    <2>2. IndexExact' /\ TreeInv'
      BY <1>1, <1>3, RedeemDrops, RedeemKeepsTree
    <2>3. OneNameInv'
      BY <1>1, <1>3, <2>1, RedeemOneName
    <2>4. TermInv' /\ RedeemedLease!LeaseNext
      BY <1>1, <1>3, RedeemTakes
    <2>5. HolderDecides
      BY <1>1, <1>3, RedeemDecides
    <2> QED
      BY <2>1, <2>2, <2>3, <2>4, <2>5 DEF RedeemInv
  <1> HIDE DEF Allowed
  <1>4. Allowed
    BY <1>2, <1>3, RedeemSteps, OtherStepIsStep DEF Redeems
  <1> QED
    BY <1>4 DEF Allowed

\* Genesis is that of Pns, with nonces that no table of a name knows of.
LEMMA RedeemInitial == RedeemInit => RedeemInv /\ RedeemedLease!LeaseInit
  <1> SUFFICES ASSUME RedeemInit
               PROVE  RedeemInv /\ RedeemedLease!LeaseInit
    OBVIOUS
  <1>1. Init
    BY DEF RedeemInit
  <1>2. RedeemInv
    BY <1>1, InitType, InitIndex, InitTree, InitOneName, InitLease DEF RedeemInv
  <1>3. RedeemedLease!LeaseInit
    BY <1>1 DEF Init, RedeemedLease!LeaseInit
  <1> QED
    BY <1>2, <1>3

\* With redeem codes, closed registrars and changing managers too the tables
\* agree, leases end within a term and nobody holds two names.
THEOREM RedeemInvariance == RedeemSpec => []RedeemInv
  <1>1. RedeemInit => RedeemInv
    BY RedeemInitial
  <1>2. RedeemInv /\ [RedeemNext]_redeemVars => RedeemInv'
    BY RedeemStep
  <1> QED
    BY <1>1, <1>2, PTL DEF RedeemSpec

\* No account comes to two names by redeeming a code, whatever it holds, has
\* been offered or has let lapse: for_redeem_code asks what register asks.
THEOREM RedeemersHoldOneName == RedeemSpec => []OneNamePerAccount
  <1>1. RedeemInv => OneNamePerAccount
    BY DEF RedeemInv, OneNameInv
  <1> QED
    BY RedeemInvariance, <1>1, PTL

\* The registrar with redeem codes implements the lease contract in which a
\* lease begins with any part of a term, and no code touches a lease that is
\* held and has not lapsed: it ends or moves by its holder's call only.
THEOREM RedeemsImplementLease == RedeemSpec => RedeemedLeaseContract
  <1>1. RedeemInit => RedeemedLease!LeaseInit
    BY RedeemInitial
  <1>2. RedeemInv /\ [RedeemNext]_redeemVars
          => /\ [RedeemedLease!LeaseNext]_(RedeemedLease!leaseState)
             /\ [HolderDecides]_vars
    BY RedeemStep
  <1> QED
    BY RedeemInvariance, <1>1, <1>2, PTL
       DEF RedeemSpec, RedeemedLeaseContract, RedeemedLease!LeaseSpec

-----------------------------------------------------------------------------
(* What a lease costs while the registrar is closed.                       *)

\* The names a step leases or whose lease it extends.
Leased == {n \in Names : expire'[n] # expire[n] /\ expire'[n] # NULL}

NoncesSpent ==
  /\ ~isRegistrarOpen /\ Leased # {} =>
       /\ Cardinality(Leased) = 1
       /\ redeems' \subseteq redeems
       /\ Cardinality(redeems \ redeems') = 1
  /\ ~(redeems \subseteq redeems') =>
       /\ \E nonce \in redeems : redeems' = redeems \ {nonce}
       /\ \E n \in Names :
            /\ BeginsLease(n)
            /\ \A m \in Names \ {n} : owner'[m] = owner[m] /\ expire'[m] = expire[m]

\* The calls a closed registrar takes, codes aside, begin and extend no lease.
LEMMA ClosedLeasesNothing ==
  ASSUME TypeInv, ClosedCall
  PROVE  Leased = {}
  <1>1. ASSUME NEW a \in Accounts, NEW n, DoBurn(a, n)
        PROVE  \A m \in Names : expire'[m] \in {expire[m], NULL}
    BY <1>1 DEF DoBurn, TypeInv, TypeOK
  <1>2. SubdomainCall => UNCHANGED expire
    BY LeasesAlone
  <1>3. OwnerCall => \A m \in Names : expire'[m] \in {expire[m], NULL}
    BY <1>1, <1>2 DEF OwnerCall, ReleaseName, Burn, SubdomainCall
  <1>4. ManagerCall \/ Tick \/ UNCHANGED vars => UNCHANGED expire
    BY DEF ManagerCall, SetOfficial, AddReserved, RemoveReserved, Tick, vars, leaseVars
  <1>5. \A m \in Names : expire'[m] \in {expire[m], NULL}
    BY <1>3, <1>4 DEF ClosedCall
  <1> QED
    BY <1>5 DEF Leased

\* A redeemed code leases its one name, now, and uses up one nonce.
LEMMA RedeemSpends ==
  ASSUME TypeInv, NEW to \in Accounts, NEW n \in Names, NEW d \in Nat, NEW nonce \in Nat,
         Redeems(to, n, d, nonce)
  PROVE  NoncesSpent
  <1>1. ForRedeemCode(to, n, d) /\ nonce \in redeems /\ redeems' = redeems \ {nonce}
    BY DEF Redeems, UseNonce
  <1>2. redeems' \subseteq redeems /\ redeems \ redeems' = {nonce}
    BY <1>1
  <1>3. Cardinality(redeems \ redeems') = 1
    BY <1>2, FS_Singleton
  <1>4. Leased # {} => Leased = {n}
    <2>1. LeasesTo(to, n, d)
      BY <1>1, RedeemLease
    <2>2. \A m \in Names : m # n => expire'[m] = expire[m]
      BY <2>1 DEF LeasesTo
    <2> QED
      BY <2>2 DEF Leased
  <1>5. Leased # {} => Cardinality(Leased) = 1
    BY <1>4, FS_Singleton
  <1>6. BeginsLease(n)
    <2>1. /\ expire'[n] = now + LeaseTerm(d) /\ now' = now
          /\ primary'[to] = n /\ LeaseTerm(d) > 0
      <3>1. LeasesTo(to, n, d)
        BY <1>1, RedeemLease
      <3> QED
        BY <3>1 DEF LeasesTo
    <2>2. now + LeaseTerm(d) # NULL /\ now < now + LeaseTerm(d)
      BY <2>1, RedeemNumbers
    <2>3. Useable(n)'
      BY <2>1, <2>2 DEF Useable
    <2>4. owner[n] = NULL \/ Registrable(n)
      BY <1>1 DEF ForRedeemCode, CanMint, IsFresh
    <2>5. owner'[n] = to /\ to # NULL
      BY <1>1, AccountsAssumption DEF ForRedeemCode, TypeInv, TypeOK
    <2> QED
      BY <2>1, <2>3, <2>4, <2>5 DEF BeginsLease
  <1>7. \A m \in Names \ {n} : owner'[m] = owner[m] /\ expire'[m] = expire[m]
    BY <1>1 DEF ForRedeemCode, TypeInv, TypeOK
  <1> QED
    BY <1>1, <1>2, <1>3, <1>5, <1>6, <1>7 DEF NoncesSpent

\* Every step pays for its leases.
LEMMA RedeemStepSpends ==
  ASSUME TypeInv, [RedeemNext]_redeemVars
  PROVE  NoncesSpent
  <1>1. ASSUME IsOpen, UNCHANGED redeems
        PROVE  NoncesSpent
    BY <1>1 DEF NoncesSpent, IsOpen
  <1>2. ASSUME ClosedCall, redeems \subseteq redeems'
        PROVE  NoncesSpent
    BY <1>2, ClosedLeasesNothing DEF NoncesSpent
  <1> QED
    BY <1>1, <1>2, RedeemSteps, RedeemSpends

\* While the registrar is closed a lease begins or is extended only against
\* one nonce, which goes in the same step; and a nonce that goes, goes alone and
\* for the one name whose lease begins, while every other lease stays as it is.
\* This needs no more of the storage than its types.
THEOREM ClosedLeasesAlwaysCost == RedeemSpec => ClosedLeasesCostNonces
  <1>1. RedeemInv /\ [RedeemNext]_redeemVars => NoncesSpent
    BY RedeemStepSpends DEF RedeemInv
  <1> QED
    BY RedeemInvariance, <1>1, PTL
       DEF RedeemSpec, ClosedLeasesCostNonces, NoncesSpent, Leased

=============================================================================
