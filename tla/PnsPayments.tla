------------------------------ MODULE PnsPayments ------------------------------
(***************************************************************************)
(* What names cost.  The price oracle's table sets the fee of registering  *)
(* and renewing, which is burned; a buyer pays the seller, out of whose    *)
(* proceeds the protocol fee is burned.  Each call of Pns that moves money *)
(* is joined here with its payment: a payment that fails fails the call.   *)
(* The resolver's and the managers' calls neither move money nor touch     *)
(* what the payments read, and are left out.                               *)
(*                                                                         *)
(* The clock counts blocks: one timestamp inherent per block.              *)
(***************************************************************************)
EXTENDS PnsProperties, FiniteSetsExt, Functions, Integers, Sequences

CONSTANTS
  InitialFree,    \* InitialFree[a]: the balance of a at genesis
  Deposit,        \* the existential deposit
  LabelLen,       \* LabelLen[n]: the length of the label of n
  GenesisPrices,  \* BasePrice at genesis; the code has 11 tiers
  PriceLists,     \* tables set_base_price may be called with
  RentLists,      \* tables set_rent_price may be called with
  Rates,          \* rates set_exchange_rate may be called with
  AskPrices,      \* prices a listing may ask
  FeeBps,         \* ProtocolFeeBps, parts of FeeScale
  FeeScale        \* 10_000

ASSUME PaymentsAssumption ==
  /\ IsFiniteSet(Accounts)
  /\ InitialFree \in [Accounts -> Nat]
  /\ Deposit \in Nat \ {0}
  /\ LabelLen \in [Names -> Nat]
  /\ PriceLists \subseteq Seq(Nat) \ {<<>>}
  /\ GenesisPrices \in PriceLists
  /\ RentLists \subseteq Seq(Nat)
  /\ Rates \subseteq Nat
  /\ AskPrices \subseteq Nat
  /\ FeeScale \in Nat \ {0}
  /\ FeeBps \in 0 .. FeeScale

VARIABLES
  free,          \* the free balance of each account
  burned,        \* what was withdrawn and dropped
  basePrice,     \* BasePrice
  rentPrice,     \* RentPrice
  exchangeRate,  \* ExchangeRate
  asked,         \* Listings[n].price
  registerFee,   \* RegistrarInfos[n].register_fee
  lastBlock      \* RegistrarInfos[n].last_block

oracleVars == <<basePrice, rentPrice, exchangeRate>>
infoVars == <<registerFee, lastBlock>>
moneyVars == <<free, burned, oracleVars, asked, infoVars>>
payVars == <<vars, moneyVars>>

PayInit ==
  /\ Init
  /\ free = InitialFree
  /\ burned = 0
  /\ basePrice = GenesisPrices
  /\ rentPrice = <<>>
  /\ exchangeRate = 1
  /\ asked = [n \in Names |-> NULL]
  /\ registerFee = [n \in Names |-> NULL]
  /\ lastBlock = [n \in Names |-> NULL]

-----------------------------------------------------------------------------
(* The price oracle.                                                       *)

SetBasePrice(prices) ==
  /\ basePrice' = prices
  /\ UNCHANGED <<vars, free, burned, rentPrice, exchangeRate, asked, infoVars>>

\* Nothing reads the rent price,
SetRentPrice(prices) ==
  /\ rentPrice' = prices
  /\ UNCHANGED <<vars, free, burned, basePrice, exchangeRate, asked, infoVars>>

\* nor the exchange rate.
SetExchangeRate(rate) ==
  /\ exchangeRate' = rate
  /\ UNCHANGED <<vars, free, burned, basePrice, rentPrice, asked, infoVars>>

\* registration_fee: the last tier is for all longer labels.
RegistrationFee(len) == basePrice[Min({len, Len(basePrice)})]

-----------------------------------------------------------------------------
(* Moving money.                                                           *)

\* ExistenceRequirement::KeepAlive.  Paying nothing always succeeds.
KeepsAlive(balance, amount) == amount = 0 \/ balance >= amount + Deposit

\* Mutant of BurnFrom: the subtraction saturates instead of failing.
BurnSaturating(who, amount) ==
  /\ free' = [free EXCEPT ![who] = IF @ >= amount THEN @ - amount ELSE 0]
  /\ burned' = burned + amount

\* withdraw, and drop what was withdrawn.
BurnFrom(who, amount) ==
  /\ KeepsAlive(free[who], amount)
  /\ free' = [free EXCEPT ![who] = @ - amount]
  /\ burned' = burned + amount

\* The protocol fee: rounded down.
ProtocolFee(price) == (price * FeeBps) \div FeeScale

\* Mutant of Settle: the fee comes on top of the price.
SettleOnTop(buyer, seller, price) ==
  /\ KeepsAlive(free[buyer], price + ProtocolFee(price))
  /\ free' = [free EXCEPT ![buyer] = @ - price - ProtocolFee(price),
                          ![seller] = @ + price]
  /\ burned' = burned + ProtocolFee(price)

\* buy_name: the seller receives the price, then pays the fee out of it.
Settle(buyer, seller, price) ==
  /\ KeepsAlive(free[buyer], price)
  /\ price = 0 \/ free[seller] + price >= Deposit
  /\ KeepsAlive(free[seller] + price, ProtocolFee(price))
  /\ free' = [free EXCEPT ![buyer] = @ - price,
                          ![seller] = @ + price - ProtocolFee(price)]
  /\ burned' = burned + ProtocolFee(price)

-----------------------------------------------------------------------------
(* The calls that move money.                                              *)

\* What is stored about a name goes with its RegistrarInfo.
Kept(f) == [n \in Names |-> IF expire'[n] = NULL THEN NULL ELSE f[n]]

\* The RegistrarInfo of a new lease.
Charge(caller, n) ==
  /\ BurnFrom(caller, RegistrationFee(LabelLen[n]))
  /\ registerFee' = [Kept(registerFee) EXCEPT
                       ![n] = RegistrationFee(LabelLen[n])]
  /\ lastBlock' = [Kept(lastBlock) EXCEPT ![n] = now]

\* register: the caller pays, whoever gets the name.
PaidRegister(caller, to, n) ==
  /\ \/ Register(to, n)
     \/ \E g \in Names : RegisterRejectingName(caller, to, n, g)
     \/ \E s \in Subs : RegisterRejectingSubname(caller, to, n, s)
  /\ LabelLen[n] > 0
  /\ Charge(caller, n)
  /\ UNCHANGED <<oracleVars, asked>>

\* Mutant of PaidRenew: the fee paid at registration is charged again.
RenewAtOldPrice(a) ==
  /\ Renew(a)
  /\ BurnFrom(a, registerFee[primary[a]])
  /\ UNCHANGED <<oracleVars, asked, infoVars>>

\* renew: the price is today's; register_fee and last_block stay.
PaidRenew(a) ==
  /\ Renew(a)
  /\ BurnFrom(a, RegistrationFee(LabelLen[primary[a]]))
  /\ UNCHANGED <<oracleVars, asked, infoVars>>

PaidListing(a, price, t) ==
  /\ CreateListing(a, t)
  /\ asked' = [asked EXCEPT ![primary[a]] = price]
  /\ UNCHANGED <<free, burned, oracleVars, infoVars>>

PaidSale(buyer, n) ==
  /\ \/ BuyName(buyer, n)
     \/ \E recipient \in GiftRecipients : BuyNameFor(buyer, recipient, n)
  /\ Settle(buyer, listings[n].seller, asked[n])
  /\ asked' = [asked EXCEPT ![n] = NULL]
  /\ UNCHANGED <<oracleVars, infoVars>>

\* The calls that move no money.
UnpaidCall ==
  /\ \/ \E who, to \in Accounts : Transfer(who, to)
     \/ \E a \in Accounts : ReleaseName(a) \/ CancelListing(a)
     \/ \E a \in Accounts, n \in Names : Burn(a, n) \/ AcceptOfferedName(a, n)
     \/ SubdomainCall
     \/ Tick
  /\ asked' = [n \in Names |-> IF listings'[n] = NULL THEN NULL ELSE asked[n]]
  /\ registerFee' = Kept(registerFee)
  /\ lastBlock' = Kept(lastBlock)
  /\ UNCHANGED <<free, burned, oracleVars>>

OracleCall ==
  \/ \E prices \in PriceLists : SetBasePrice(prices)
  \/ \E prices \in RentLists : SetRentPrice(prices)
  \/ \E rate \in Rates : SetExchangeRate(rate)

PayNext ==
  \/ \E caller, to \in Accounts, n \in Names : PaidRegister(caller, to, n)
  \/ \E a \in Accounts : PaidRenew(a)
  \/ \E a \in Accounts, price \in AskPrices, t \in ListingExpiries :
        PaidListing(a, price, t)
  \/ \E buyer \in Accounts, n \in Names : PaidSale(buyer, n)
  \/ UnpaidCall
  \/ OracleCall

PaySpec == PayInit /\ [][PayNext]_payVars

-----------------------------------------------------------------------------
(* What holds.                                                             *)

\* Money is neither made nor lost: whatever register, renew and buy_name do,
\* the balances and what was burned add up to what there was.
MoneyConserved == SumFunction(free) + burned = SumFunction(InitialFree)

\* A lease that begins or is extended burns the price the table holds then,
\* whatever was paid for it before, out of the balance of one account, whose
\* other moneys and everybody else's stay.  Who that account must be is not
\* part of it: register lets anyone pay, and renew goes by the canonical name
\* of the caller, which need not be the owner.
LeasesArePaid ==
  [][\A n \in Names :
       expire'[n] \notin {NULL, expire[n]} =>
         \E payer \in Accounts :
           /\ burned' - burned = RegistrationFee(LabelLen[n])
           /\ free' = [free EXCEPT ![payer] = @ - RegistrationFee(LabelLen[n])]
    ]_payVars

\* A balance grows only by selling: the seller had the token and a listing
\* at that price, no longer has the token, and is left with price - fee, to
\* the unit; the rest of what the buyer paid is burned.
GainsAreSales ==
  [][\A a \in Accounts :
       free'[a] > free[a] =>
         \E n \in Names :
           /\ owner[n] = a /\ owner'[n] # a
           /\ listings[n] # NULL /\ listings'[n] = NULL
           /\ free'[a] - free[a] = asked[n] - ProtocolFee(asked[n])
           /\ \E buyer \in Accounts : free[buyer] - free'[buyer] = asked[n]
    ]_payVars

=============================================================================
