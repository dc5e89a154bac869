----------------------------- MODULE AuctionProofs -----------------------------
(***************************************************************************)
(* The candle auction, for any bidders, names, amounts and any lengths of  *)
(* the ending period and of a sample.                                      *)
(*                                                                         *)
(* A name's auction touches nothing of another name but the bidders'       *)
(* balances, so what is kept is stated and proved name by name (NodeInv).  *)
(* Only the sum behind ReservesExact looks at all names.                   *)
(***************************************************************************)
EXTENDS NameAuction, FiniteSums

\* The types of the storage items; `reserved` may be read as an integer, that
\* it is never negative follows from ReservesExact.
AuctionTypes ==
  /\ block \in 0..MaxBlock /\ known \in Nat
  /\ todo \in SUBSET Nodes /\ ongoing \in SUBSET Nodes
  /\ started \in [Nodes -> Nat \cup {NULL}]
  /\ winning \in [Nodes -> [Samples -> WinnerData \cup {NULL}]]
  /\ reservedAmounts \in [Nodes -> [Bidders -> Nat]]
  /\ free \in [Bidders -> Nat]
  /\ reserved \in [Bidders -> Int]
  /\ proceeds \in Nat
  /\ holder \in [Nodes -> Bidders \cup {NULL}]

\* When an auction started: it is ongoing, ends by MaxBlock, is looked at only
\* in later blocks, and its name is nobody's.
Times(n) ==
  started[n] # NULL =>
    /\ n \in ongoing
    /\ started[n] <= block
    /\ started[n] + EndingPeriod <= MaxBlock
    /\ n \in todo => started[n] < block
    /\ holder[n] = NULL

-----------------------------------------------------------------------------
(* Samples.                                                                *)

\* Blocks are divided into samples in order, and no sample is skipped.
LEMMA SampleFacts ==
  /\ Sample(0) = 0
  /\ \A d \in Nat : Sample(d) \in Nat
  /\ \A c, d \in Nat : c <= d => Sample(c) <= Sample(d)
  /\ \A d \in Nat : Sample(d + 1) <= Sample(d) + 1
<1> DEFINE L == SampleLength
<1>1. L \in Nat /\ L > 0
  BY AuctionAssumption
<1> HIDE DEF L
<1>2. ASSUME NEW d \in Nat
      PROVE  /\ d \div L \in Nat
             /\ L * (d \div L) <= d
             /\ d < L * (d \div L) + L
  BY <1>1
<1>3. \A d \in Nat : Sample(d) = d \div L
  BY DEF Sample, L
<1>4. 0 \div L = 0
  BY <1>1
<1>5. ASSUME NEW c \in Nat, NEW d \in Nat, c <= d
      PROVE  c \div L <= d \div L
  BY <1>1, <1>2, <1>5
<1>6. ASSUME NEW d \in Nat
      PROVE  (d + 1) \div L <= (d \div L) + 1
  BY <1>1, <1>2
<1> QED BY <1>2, <1>3, <1>4, <1>5, <1>6

\* The blocks of the ending period are in Samples.
LEMMA SamplesFacts ==
  /\ 0 \in Samples
  /\ \A d \in 0 .. EndingPeriod - 1 : Sample(d) \in Samples
  /\ \A o \in Samples : o \in Nat /\ (o > 0 => o - 1 \in Samples)
<1>1. EndingPeriod \in Nat /\ EndingPeriod - 1 \in Nat
  BY AuctionAssumption
<1>2. Sample(EndingPeriod - 1) \in Nat
  BY <1>1, SampleFacts
<1>3. \A d \in 0 .. EndingPeriod - 1 :
        d \in Nat /\ Sample(d) \in Nat /\ Sample(d) <= Sample(EndingPeriod - 1)
  BY <1>1, SampleFacts
<1> QED BY <1>2, <1>3 DEF Samples

\* How many blocks count of an auction that has run for d.
Passed(d) == IF d <= EndingPeriod - 1 THEN d ELSE EndingPeriod - 1

\* What Elapsed computes.
LEMMA PassedIsMin == \A d \in Int : Min({d, EndingPeriod - 1}) = Passed(d)
<1> SUFFICES ASSUME NEW d \in Int PROVE Min({d, EndingPeriod - 1}) = Passed(d)
  OBVIOUS
<1> DEFINE e == EndingPeriod - 1
<1>1. e \in Int
  BY AuctionAssumption
<1> HIDE DEF e
<1>2. Min({d, e}) = IF d <= e THEN d ELSE e
  BY <1>1 DEF Min
<1> QED BY <1>2 DEF Passed, e

-----------------------------------------------------------------------------
(* Types and times.                                                        *)

\* A running auction has run for a natural number of blocks, one at least
\* when the hook has still to look at it.
LEMMA RunsFor ==
  ASSUME AuctionTypes, NEW n \in Nodes, Times(n), started[n] # NULL
  PROVE  /\ started[n] \in Nat /\ block \in Nat
         /\ Duration(n) \in Nat
         /\ n \in todo => Duration(n) >= 1
         /\ Elapsed(n) = Passed(Duration(n) - (IF n \in todo THEN 1 ELSE 0))
         /\ Elapsed(n) \in 0 .. EndingPeriod - 1
<1>1. started[n] \in Nat /\ block \in Nat
  BY AuctionAssumption DEF AuctionTypes
<1>2. started[n] <= block /\ (n \in todo => started[n] < block)
  BY DEF Times
<1>3. Duration(n) \in Nat /\ (n \in todo => Duration(n) >= 1)
  BY <1>1, <1>2 DEF Duration
<1> DEFINE d == Duration(n) - (IF n \in todo THEN 1 ELSE 0)
<1>4. d \in Nat
  BY <1>3
<1>5. Elapsed(n) = Passed(d)
  BY <1>4, PassedIsMin DEF Elapsed
<1> HIDE DEF d
<1>6. Passed(d) \in 0 .. EndingPeriod - 1
  BY <1>4, AuctionAssumption DEF Passed
<1> QED BY <1>1, <1>3, <1>5, <1>6 DEF d

\* The sample a bid or the hook writes is one of the samples.
LEMMA OffsetInSamples ==
  ASSUME AuctionTypes, NEW n \in Nodes, Times(n), ~InVrfDelay(n)
  PROVE  Offset(n) \in Samples
<1>1. CASE started[n] = NULL
  BY <1>1, SamplesFacts DEF Offset
<1>2. CASE started[n] # NULL
  <2>1. Duration(n) \in Nat /\ ~(Duration(n) >= EndingPeriod)
    BY <1>2, RunsFor DEF InVrfDelay
  <2>2. Duration(n) \in 0 .. EndingPeriod - 1
    BY <2>1, AuctionAssumption
  <2> QED BY <1>2, <2>2, SamplesFacts DEF Offset
<1> QED BY <1>1, <1>2

\* The bid to beat is a bid, if there is one.
LEMMA CurrentType ==
  ASSUME AuctionTypes, NEW n \in Nodes, Offset(n) \in Samples
  PROVE  CurrentWinning(n) \in WinnerData \cup {NULL}
<1> DEFINE o == Offset(n)
<1>1. o \in Samples /\ (o # 0 => o - 1 \in Samples)
  BY SamplesFacts
<1> HIDE DEF o
<1>2. CurrentWinning(n) = IF winning[n][o] # NULL \/ o = 0
                          THEN winning[n][o] ELSE winning[n][o - 1]
  BY DEF CurrentWinning, o
<1> QED BY <1>1, <1>2 DEF AuctionTypes

\* Reserving keeps the types: no more is reserved than is free.
LEMMA ReserveType ==
  ASSUME AuctionTypes, NEW a \in Bidders, NEW n \in Nodes, NEW amount \in Amounts,
         ReserveFor(a, n, amount)
  PROVE  /\ free' \in [Bidders -> Nat]
         /\ reserved' \in [Bidders -> Int]
         /\ reservedAmounts' \in [Nodes -> [Bidders -> Nat]]
<1> DEFINE r == reservedAmounts[n][a]
<1>1. amount \in Nat /\ r \in Nat /\ free[a] \in Nat /\ reserved[a] \in Int
  BY AuctionAssumption DEF AuctionTypes
<1>2. CASE amount >= r
  <2>1. /\ free[a] >= amount - r
        /\ free' = [free EXCEPT ![a] = @ - (amount - r)]
        /\ reserved' = [reserved EXCEPT ![a] = @ + (amount - r)]
        /\ reservedAmounts' = [reservedAmounts EXCEPT ![n][a] = amount]
    BY <1>2 DEF ReserveFor
  <2> HIDE DEF r
  <2>2. free[a] - (amount - r) \in Nat /\ reserved[a] + (amount - r) \in Int
    BY <1>1, <1>2, <2>1
  <2>3. free' \in [Bidders -> Nat] /\ reserved' \in [Bidders -> Int]
    BY <2>1, <2>2 DEF AuctionTypes
  <2>4. reservedAmounts' \in [Nodes -> [Bidders -> Nat]]
    BY <1>1, <2>1 DEF AuctionTypes
  <2> QED BY <2>3, <2>4
<1>3. CASE ~(amount >= r)
  BY <1>3 DEF ReserveFor, AuctionTypes
<1> QED BY <1>2, <1>3

\* Settling keeps the types: the winner pays out of what is free.
LEMMA SettleType ==
  ASSUME AuctionTypes, NEW n \in Nodes, NEW bid \in WinnerData, Settle(n, bid)
  PROVE  /\ free' \in [Bidders -> Nat]
         /\ reserved' \in [Bidders -> Int]
         /\ reservedAmounts' \in [Nodes -> [Bidders -> Nat]]
         /\ proceeds' \in Nat
         /\ holder' \in [Nodes -> Bidders \cup {NULL}]
<1> DEFINE back == [a \in Bidders |-> free[a] + reservedAmounts[n][a]]
<1>1. bid.bidder \in Bidders /\ bid.amount \in Nat
  BY DEF WinnerData
<1>2. back \in [Bidders -> Nat]
  BY DEF AuctionTypes
<1>3. /\ reservedAmounts' = [reservedAmounts EXCEPT ![n] = NoReserves]
      /\ reserved' = [a \in Bidders |-> reserved[a] - reservedAmounts[n][a]]
      /\ IF back[bid.bidder] >= bid.amount + ExistentialDeposit
         THEN /\ free' = [back EXCEPT ![bid.bidder] = @ - bid.amount]
              /\ proceeds' = proceeds + bid.amount
              /\ Mint(n, bid.bidder)
         ELSE free' = back /\ UNCHANGED <<proceeds, holder>>
  BY DEF Settle
<1>4. NoReserves \in [Bidders -> Nat]
  BY DEF NoReserves
<1>5. reservedAmounts' \in [Nodes -> [Bidders -> Nat]]
  BY <1>3, <1>4 DEF AuctionTypes
<1>6. reserved' \in [Bidders -> Int]
  <2>1. \A a \in Bidders : reserved[a] \in Int /\ reservedAmounts[n][a] \in Nat
    BY DEF AuctionTypes
  <2>2. \A a \in Bidders : reserved[a] - reservedAmounts[n][a] \in Int
    BY <2>1
  <2> QED BY <1>3, <2>2
<1> HIDE DEF back
<1>7. free' \in [Bidders -> Nat] /\ proceeds' \in Nat
  <2>1. CASE back[bid.bidder] >= bid.amount + ExistentialDeposit
    <3>1. ExistentialDeposit \in Nat /\ back[bid.bidder] \in Nat /\ proceeds \in Nat
      BY <1>1, <1>2, AuctionAssumption DEF AuctionTypes
    <3>2. back[bid.bidder] - bid.amount \in Nat /\ proceeds + bid.amount \in Nat
      BY <1>1, <2>1, <3>1
    <3> QED BY <1>2, <1>3, <2>1, <3>2
  <2>2. CASE ~(back[bid.bidder] >= bid.amount + ExistentialDeposit)
    BY <1>2, <1>3, <2>2 DEF AuctionTypes
  <2> QED BY <2>1, <2>2
<1>8. holder' \in [Nodes -> Bidders \cup {NULL}]
  <2>1. holder' = holder \/ holder' = [holder EXCEPT ![n] = bid.bidder]
    BY <1>3 DEF Mint
  <2> QED BY <1>1, <2>1 DEF AuctionTypes
<1> QED BY <1>5, <1>6, <1>7, <1>8

\* What a bid writes into the samples of its name.
LEMMA BidSample ==
  ASSUME AuctionTypes, NEW n \in Nodes, Times(n), ~InVrfDelay(n),
         NEW a \in Bidders, NEW amount \in Amounts,
         winning' = [winning EXCEPT
                       ![n][Offset(n)] = [bidder |-> a, amount |-> amount]]
  PROVE  /\ winning' \in [Nodes -> [Samples -> WinnerData \cup {NULL}]]
         /\ \A m \in Nodes : m # n => winning'[m] = winning[m]
         /\ winning'[n][Offset(n)] = [bidder |-> a, amount |-> amount]
         /\ \A o \in Samples : o # Offset(n) => winning'[n][o] = winning[n][o]
<1> DEFINE bid == [bidder |-> a, amount |-> amount]
           i == Offset(n)
<1>1. bid \in WinnerData
  BY AuctionAssumption DEF WinnerData
<1>2. i \in Samples
  BY OffsetInSamples
<1>3. winning' = [winning EXCEPT ![n] = [winning[n] EXCEPT ![i] = bid]]
  BY DEF AuctionTypes
<1>4. winning \in [Nodes -> [Samples -> WinnerData \cup {NULL}]]
  BY DEF AuctionTypes
<1> HIDE DEF bid, i
<1>5. [winning[n] EXCEPT ![i] = bid] \in [Samples -> WinnerData \cup {NULL}]
  BY <1>1, <1>2, <1>4
<1>6. /\ winning' \in [Nodes -> [Samples -> WinnerData \cup {NULL}]]
      /\ \A m \in Nodes : m # n => winning'[m] = winning[m]
      /\ winning'[n] = [winning[n] EXCEPT ![i] = bid]
  BY <1>3, <1>4, <1>5
<1>7. winning'[n][i] = bid /\ \A o \in Samples : o # i => winning'[n][o] = winning[n][o]
  BY <1>2, <1>4, <1>6
<1> QED BY <1>6, <1>7 DEF bid, i

\* What the hook writes into the samples of a name it visits.
LEMMA CarryFacts ==
  ASSUME AuctionTypes, NEW n \in Nodes, Times(n), InEndingPeriod(n), CarrySample(n)
  PROVE  /\ winning' \in [Nodes -> [Samples -> WinnerData \cup {NULL}]]
         /\ \A m \in Nodes : m # n => winning'[m] = winning[m]
         /\ winning'[n][Offset(n)] =
              IF winning[n][Offset(n)] = NULL THEN CurrentWinning(n)
                                              ELSE winning[n][Offset(n)]
         /\ \A o \in Samples : o # Offset(n) => winning'[n][o] = winning[n][o]
<1> DEFINE i == Offset(n)
           bid == IF winning[n][i] = NULL THEN CurrentWinning(n) ELSE winning[n][i]
<1>1. Duration(n) \in Nat /\ Duration(n) < EndingPeriod /\ EndingPeriod \in Nat
  BY RunsFor, AuctionAssumption DEF InEndingPeriod
<1>2. i \in Samples
  <2>1. ~InVrfDelay(n)
    BY <1>1 DEF InVrfDelay
  <2> QED BY <2>1, OffsetInSamples
<1>3. winning \in [Nodes -> [Samples -> WinnerData \cup {NULL}]]
  BY DEF AuctionTypes
<1>4. bid \in WinnerData \cup {NULL}
  BY <1>2, <1>3, CurrentType
<1>5. winning' = [winning EXCEPT ![n] = [winning[n] EXCEPT ![i] = bid]]
  BY <1>2, <1>3 DEF CarrySample
<1> HIDE DEF bid, i
<1>6. [winning[n] EXCEPT ![i] = bid] \in [Samples -> WinnerData \cup {NULL}]
  BY <1>2, <1>3, <1>4
<1>7. /\ winning' \in [Nodes -> [Samples -> WinnerData \cup {NULL}]]
      /\ \A m \in Nodes : m # n => winning'[m] = winning[m]
      /\ winning'[n] = [winning[n] EXCEPT ![i] = bid]
  BY <1>3, <1>5, <1>6
<1>8. winning'[n][i] = bid /\ \A o \in Samples : o # i => winning'[n][o] = winning[n][o]
  BY <1>2, <1>3, <1>7
<1> QED BY <1>7, <1>8 DEF bid, i

\* The offset drawn at the end is in the ending period.
LEMMA DrawnSample ==
  \A raw \in 0 .. EndingPeriod - 1 :
    raw % EndingPeriod \in 0 .. EndingPeriod - 1 /\ Sample(raw % EndingPeriod) \in Samples
<1>1. EndingPeriod \in Nat /\ EndingPeriod > 0
  BY AuctionAssumption
<1>2. \A raw \in 0 .. EndingPeriod - 1 : raw % EndingPeriod \in 0 .. EndingPeriod - 1
  BY <1>1
<1> QED BY <1>2, SamplesFacts

\* Every step keeps the types.
LEMMA TypesStep ==
  ASSUME AuctionTypes, \A n \in Nodes : Times(n), [AuctionNext]_auctionVars
  PROVE  AuctionTypes'
<1>1. ASSUME NEW a \in Bidders, NEW n \in Nodes, NEW amount \in Amounts,
             HandleBid(a, n, amount)
      PROVE  AuctionTypes'
  <2>1. winning' \in [Nodes -> [Samples -> WinnerData \cup {NULL}]]
    BY <1>1, BidSample DEF HandleBid
  <2>2. /\ free' \in [Bidders -> Nat] /\ reserved' \in [Bidders -> Int]
        /\ reservedAmounts' \in [Nodes -> [Bidders -> Nat]]
    BY <1>1, ReserveType DEF HandleBid
  <2>3. /\ started' \in [Nodes -> Nat \cup {NULL}]
        /\ ongoing' \in SUBSET Nodes
    <3>1. block \in Nat
      BY AuctionAssumption DEF AuctionTypes
    <3> QED BY <1>1, <3>1 DEF HandleBid, NewAuction, AuctionTypes
  <2>4. UNCHANGED <<block, known, todo, proceeds, holder>>
    BY <1>1 DEF HandleBid
  <2> QED BY <2>1, <2>2, <2>3, <2>4 DEF AuctionTypes
<1>2. CASE NewBlock
  <2>1. block' \in 0..MaxBlock /\ todo' \in SUBSET Nodes
    BY <1>2, AuctionAssumption DEF NewBlock, AuctionTypes
  <2>2. UNCHANGED <<known, ongoing, started, winning, reservedAmounts, free, reserved,
                    proceeds, holder>>
    BY <1>2 DEF NewBlock, moneyVars
  <2> QED BY <2>1, <2>2 DEF AuctionTypes
<1>3. ASSUME NEW n \in Nodes, VisitRunning(n) PROVE AuctionTypes'
  <2>1. winning' \in [Nodes -> [Samples -> WinnerData \cup {NULL}]]
    <3>1. CASE InEndingPeriod(n)
      BY <1>3, <3>1, CarryFacts DEF VisitRunning
    <3>2. CASE ~InEndingPeriod(n)
      BY <1>3, <3>2 DEF VisitRunning, AuctionTypes
    <3> QED BY <3>1, <3>2
  <2>2. UNCHANGED <<block, known, ongoing, started, reservedAmounts, free, reserved,
                    proceeds, holder>> /\ todo' = todo \ {n}
    BY <1>3 DEF VisitRunning, moneyVars
  <2> QED BY <2>1, <2>2 DEF AuctionTypes
<1>4. ASSUME NEW n \in Nodes, NEW raw \in 0 .. EndingPeriod - 1, VisitEnded(n, raw)
      PROVE  AuctionTypes'
  <2> DEFINE bid == winning[n][Sample(raw % EndingPeriod)]
  <2>1. bid \in WinnerData \cup {NULL}
    BY DrawnSample DEF AuctionTypes
  <2>2. /\ started' = [started EXCEPT ![n] = NULL]
        /\ winning' = [winning EXCEPT ![n] = NoSamples]
        /\ IF bid = NULL THEN UNCHANGED <<reservedAmounts, moneyVars, leased, holder>>
                         ELSE Settle(n, bid)
        /\ todo' = todo \ {n}
        /\ UNCHANGED <<block, known, ongoing>>
    BY <1>4 DEF VisitEnded
  <2> HIDE DEF bid
  <2>3. started' \in [Nodes -> Nat \cup {NULL}]
    BY <2>2 DEF AuctionTypes
  <2>4. winning' \in [Nodes -> [Samples -> WinnerData \cup {NULL}]]
    <3>1. NoSamples \in [Samples -> WinnerData \cup {NULL}]
      BY DEF NoSamples
    <3> QED BY <2>2, <3>1 DEF AuctionTypes
  <2>5. /\ free' \in [Bidders -> Nat]
        /\ reserved' \in [Bidders -> Int]
        /\ reservedAmounts' \in [Nodes -> [Bidders -> Nat]]
        /\ proceeds' \in Nat
        /\ holder' \in [Nodes -> Bidders \cup {NULL}]
    <3>1. CASE bid = NULL
      BY <2>2, <3>1 DEF AuctionTypes, moneyVars
    <3>2. CASE bid # NULL
      BY <2>1, <2>2, <3>2, SettleType
    <3> QED BY <3>1, <3>2
  <2> QED BY <2>2, <2>3, <2>4, <2>5 DEF AuctionTypes
<1>5. CASE Reseed
  <2>1. block \in Nat
    BY AuctionAssumption DEF AuctionTypes
  <2> QED BY <1>5, <2>1 DEF Reseed, moneyVars, AuctionTypes
<1>6. CASE UNCHANGED auctionVars
  BY <1>6 DEF auctionVars, moneyVars, AuctionTypes
<1> QED BY <1>1, <1>2, <1>3, <1>4, <1>5, <1>6 DEF AuctionNext, Visit

\* Every step keeps the times: a block is no earlier than the one before, and
\* no auction that is running starts again.
LEMMA TimesStep ==
  ASSUME AuctionTypes, \A n \in Nodes : Times(n), [AuctionNext]_auctionVars
  PROVE  \A n \in Nodes : Times(n)'
<1> SUFFICES ASSUME NEW m \in Nodes, started'[m] # NULL
             PROVE  /\ m \in ongoing'
                    /\ started'[m] <= block'
                    /\ started'[m] + EndingPeriod <= MaxBlock
                    /\ m \in todo' => started'[m] < block'
                    /\ holder'[m] = NULL
  BY DEF Times
<1>t. /\ block \in Nat /\ MaxBlock \in Nat /\ block <= MaxBlock
      /\ EndingPeriod \in Nat /\ EndingPeriod > 0
      /\ started \in [Nodes -> Nat \cup {NULL}]
      /\ holder \in [Nodes -> Bidders \cup {NULL}]
  BY AuctionAssumption DEF AuctionTypes
<1>m. started[m] # NULL =>
        /\ started[m] \in Nat
        /\ m \in ongoing
        /\ started[m] <= block
        /\ started[m] + EndingPeriod <= MaxBlock
        /\ m \in todo => started[m] < block
        /\ holder[m] = NULL
  BY <1>t DEF Times
<1>1. ASSUME NEW a \in Bidders, NEW n \in Nodes, NEW amount \in Amounts,
             HandleBid(a, n, amount)
      PROVE  /\ m \in ongoing'
             /\ started'[m] <= block'
             /\ started'[m] + EndingPeriod <= MaxBlock
             /\ m \in todo' => started'[m] < block'
             /\ holder'[m] = NULL
  <2>1. /\ todo = {} /\ todo' = todo /\ block' = block /\ holder' = holder
        /\ holder[n] = NULL
        /\ IF started[n] = NULL THEN NewAuction(n, amount)
                                ELSE UNCHANGED <<started, ongoing>>
    BY <1>1 DEF HandleBid
  <2>2. CASE started[n] = NULL
    <3>1. /\ block + EndingPeriod <= MaxBlock
          /\ started' = [started EXCEPT ![n] = block]
          /\ ongoing' = ongoing \cup {n}
      BY <2>1, <2>2 DEF NewAuction
    <3>2. IF m = n THEN started'[m] = block ELSE started'[m] = started[m]
      BY <1>t, <3>1
    <3> QED BY <1>t, <1>m, <2>1, <3>1, <3>2
  <2>3. CASE started[n] # NULL
    BY <1>m, <2>1, <2>3
  <2> QED BY <2>2, <2>3
<1>2. CASE NewBlock
  BY <1>2, <1>t, <1>m DEF NewBlock
<1>3. ASSUME NEW n \in Nodes, VisitRunning(n)
      PROVE  /\ started' = started /\ block' = block /\ holder' = holder
             /\ ongoing' = ongoing /\ todo' \subseteq todo
  BY <1>3 DEF VisitRunning
<1>4. ASSUME NEW n \in Nodes, NEW raw \in 0 .. EndingPeriod - 1, VisitEnded(n, raw)
      PROVE  /\ started'[m] = started[m] /\ block' = block /\ holder'[m] = holder[m]
             /\ ongoing' = ongoing /\ todo' \subseteq todo
  <2> DEFINE bid == winning[n][Sample(raw % EndingPeriod)]
  <2>1. /\ started' = [started EXCEPT ![n] = NULL]
        /\ IF bid = NULL THEN UNCHANGED <<reservedAmounts, moneyVars, leased, holder>>
                         ELSE Settle(n, bid)
        /\ block' = block /\ ongoing' = ongoing /\ todo' \subseteq todo
    BY <1>4 DEF VisitEnded
  <2> HIDE DEF bid
  <2>2. m # n /\ started'[m] = started[m]
    BY <1>t, <2>1
  <2>3. holder' = holder \/ holder' = [holder EXCEPT ![n] = bid.bidder]
    BY <2>1 DEF Settle, Mint
  <2> QED BY <1>t, <2>1, <2>2, <2>3
<1>5. ASSUME Reseed \/ UNCHANGED auctionVars
      PROVE  /\ started' = started /\ block' = block /\ holder' = holder
             /\ ongoing' = ongoing /\ todo' \subseteq todo
  BY <1>5 DEF Reseed, auctionVars
<1> QED BY <1>1, <1>2, <1>3, <1>4, <1>5, <1>m DEF AuctionNext, Visit

-----------------------------------------------------------------------------
(* One name's auction.                                                     *)

\* WinnerForEverySample and WinningBidsReserved of one name.
Led(n) ==
  \A o \in Samples :
    winning[n][o] # NULL <=> started[n] # NULL /\ o <= Sample(Elapsed(n))

Backed(n) ==
  started[n] # NULL =>
    /\ \A a \in Bidders :
         reservedAmounts[n][a] <= winning[n][Sample(Elapsed(n))].amount
    /\ \A o \in Samples : winning[n][o] # NULL =>
         winning[n][o].amount <= reservedAmounts[n][winning[n][o].bidder]
    /\ \A o \in Samples : winning[n][o] # NULL /\ o > 0 =>
         winning[n][o - 1].amount <= winning[n][o].amount

NodeInv(n) ==
  /\ Led(n)
  /\ Backed(n)
  /\ started[n] = NULL => reservedAmounts[n] = NoReserves

\* A step that leaves a name's auction where it is.
LEMMA StillNode ==
  ASSUME NEW n \in Nodes, NodeInv(n),
         started'[n] = started[n], winning'[n] = winning[n],
         reservedAmounts'[n] = reservedAmounts[n],
         started[n] # NULL => Sample(Elapsed(n)') = Sample(Elapsed(n))
  PROVE  NodeInv(n)'
BY DEF NodeInv, Led, Backed

\* What Elapsed is after a step.
LEMMA ElapsedAfter ==
  ASSUME AuctionTypes', NEW n \in Nodes, started'[n] # NULL
  PROVE  Elapsed(n)' = Passed(block' - started'[n] - (IF n \in todo' THEN 1 ELSE 0))
<1>1. block' \in Nat /\ started'[n] \in Nat
  BY AuctionAssumption DEF AuctionTypes
<1> DEFINE d == block' - started'[n] - (IF n \in todo' THEN 1 ELSE 0)
<1>2. d \in Int
  BY <1>1
<1>3. Elapsed(n)' = Min({d, EndingPeriod - 1})
  BY DEF Elapsed, Duration
<1> HIDE DEF d
<1>4. Elapsed(n)' = Passed(d)
  BY <1>2, <1>3, PassedIsMin
<1> QED BY <1>4 DEF d

\* Within a block, time stands still for a name the hook has not visited.
LEMMA ElapsedStill ==
  ASSUME block' = block, NEW n \in Nodes, started'[n] = started[n],
         n \in todo' <=> n \in todo
  PROVE  Elapsed(n)' = Elapsed(n)
BY DEF Elapsed, Duration

\* A new block adds a block to every auction and puts it before the hook; at
\* the bound of the block number all auctions have ended.
LEMMA NewBlockNode ==
  ASSUME AuctionTypes, AuctionTypes', NEW n \in Nodes, Times(n), NodeInv(n), NewBlock
  PROVE  NodeInv(n)'
<1>1. /\ todo = {} /\ todo' = ongoing
      /\ block' = IF block < MaxBlock THEN block + 1 ELSE block
      /\ started' = started /\ winning' = winning /\ reservedAmounts' = reservedAmounts
  BY DEF NewBlock
<1>2. ASSUME started[n] # NULL PROVE Elapsed(n)' = Elapsed(n)
  <2>1. /\ block \in Nat /\ MaxBlock \in Nat /\ block <= MaxBlock
        /\ EndingPeriod \in Nat /\ started[n] \in Nat
        /\ started[n] + EndingPeriod <= MaxBlock /\ n \in todo'
    BY <1>1, <1>2, AuctionAssumption DEF AuctionTypes, Times
  <2>2. Elapsed(n) = Passed(block - started[n])
    BY <1>1, <1>2, <2>1, RunsFor DEF Duration
  <2>3. Elapsed(n)' = Passed(block' - started[n] - 1)
    BY <1>1, <1>2, <2>1, ElapsedAfter
  <2>4. CASE block < MaxBlock
    <3>1. block' - started[n] - 1 = block - started[n]
      BY <1>1, <2>1, <2>4
    <3> QED BY <2>2, <2>3, <3>1
  <2>5. CASE ~(block < MaxBlock)
    <3>1. /\ block - started[n] >= EndingPeriod
          /\ block' - started[n] - 1 >= EndingPeriod - 1
          /\ block - started[n] \in Int /\ block' - started[n] - 1 \in Int
      BY <1>1, <2>1, <2>5
    <3>2. Passed(block - started[n]) = EndingPeriod - 1
      BY <2>1, <3>1 DEF Passed
    <3>3. Passed(block' - started[n] - 1) = EndingPeriod - 1
      BY <2>1, <3>1 DEF Passed
    <3> QED BY <2>2, <2>3, <3>2, <3>3
  <2> QED BY <2>4, <2>5
<1> QED BY <1>1, <1>2, StillNode

\* The hook visits an auction that goes on: the sample that begins, if one
\* does, is led by the leader of the one before.
LEMMA RunningNode ==
  ASSUME AuctionTypes, AuctionTypes', NEW n \in Nodes, Times(n), NodeInv(n),
         VisitRunning(n)
  PROVE  NodeInv(n)'
<1> DEFINE D == Duration(n)
           i == Sample(D)
           p == Sample(D - 1)
<1>1. /\ n \in todo /\ n \notin todo' /\ block' = block
      /\ started' = started /\ reservedAmounts' = reservedAmounts
      /\ IF InEndingPeriod(n) THEN CarrySample(n) ELSE UNCHANGED winning
  BY DEF VisitRunning
<1>2. CASE started[n] = NULL
  BY <1>1, <1>2, StillNode DEF InEndingPeriod
<1>3. CASE started[n] # NULL
  <2>1. /\ D \in Nat /\ D >= 1 /\ EndingPeriod \in Nat
        /\ Elapsed(n) = Passed(D - 1)
    BY <1>1, <1>3, RunsFor, AuctionAssumption
  <2>2. Elapsed(n)' = Passed(D)
    <3>1. Elapsed(n)' = Passed(block' - started'[n] - 0)
      BY <1>1, <1>3, ElapsedAfter
    <3>2. block' - started'[n] - 0 = D
      <4>1. block' - started'[n] = D
        BY <1>1 DEF Duration
      <4> QED BY <2>1, <4>1
    <3> QED BY <3>1, <3>2
  <2>3. CASE D >= EndingPeriod
    <3>1. Passed(D - 1) = EndingPeriod - 1 /\ Passed(D) = EndingPeriod - 1
      BY <2>1, <2>3 DEF Passed
    <3>2. winning' = winning
      BY <1>1, <2>1, <2>3 DEF InEndingPeriod
    <3> QED BY <1>1, <2>1, <2>2, <3>1, <3>2, StillNode
  <2>4. CASE ~(D >= EndingPeriod)
    <3>1. Elapsed(n) = D - 1 /\ Elapsed(n)' = D
      BY <2>1, <2>2, <2>4 DEF Passed
    <3>2. InEndingPeriod(n) /\ Offset(n) = i
      BY <1>3, <2>1, <2>4 DEF InEndingPeriod, Offset
    <3>3. /\ D - 1 \in 0 .. EndingPeriod - 1 /\ D \in 0 .. EndingPeriod - 1
          /\ D - 1 \in Nat /\ (D - 1) + 1 = D
      BY <2>1, <2>4
    <3>4. i \in Samples /\ p \in Samples
      BY <3>3, SamplesFacts
    <3>5. i \in Nat /\ p \in Nat /\ p <= i /\ i <= p + 1
      BY <3>3, SampleFacts
    <3> HIDE DEF i, p, D
    <3>6. /\ winning'[n][i] = IF winning[n][i] = NULL THEN CurrentWinning(n)
                                                      ELSE winning[n][i]
          /\ \A o \in Samples : o # i => winning'[n][o] = winning[n][o]
      BY <1>1, <3>2, CarryFacts
    <3>7. CurrentWinning(n) = IF winning[n][i] # NULL \/ i = 0
                              THEN winning[n][i] ELSE winning[n][i - 1]
      BY <3>2 DEF CurrentWinning
    <3>8. \A o \in Samples : winning[n][o] # NULL <=> o <= p
      BY <1>3, <3>1 DEF NodeInv, Led, p
    <3>9. Sample(Elapsed(n)) = p /\ Sample(Elapsed(n)') = i
      BY <3>1 DEF i, p
    <3>10. CASE i = p
      <4>1. \A o \in Samples : winning'[n][o] = winning[n][o]
        BY <3>4, <3>5, <3>6, <3>8, <3>10
      <4>2. winning'[n] = winning[n]
        <5>1. /\ winning[n] \in [Samples -> WinnerData \cup {NULL}]
              /\ winning'[n] \in [Samples -> WinnerData \cup {NULL}]
          BY DEF AuctionTypes
        <5> QED BY <4>1, <5>1
      <4> QED BY <1>1, <3>9, <3>10, <4>2, StillNode
    <3>11. CASE i = p + 1
      <4>1. winning[n][i] = NULL /\ winning'[n][i] = winning[n][p] /\ winning[n][p] # NULL
        BY <3>4, <3>5, <3>6, <3>7, <3>8, <3>11
      <4>2. \A o \in Samples : o \in Nat /\ (winning'[n][o] # NULL <=> o <= i)
        BY <3>4, <3>5, <3>6, <3>8, <3>11, <4>1, SamplesFacts
      <4>3. Led(n)'
        BY <1>1, <1>3, <3>9, <4>2 DEF Led
      <4>b. /\ \A a \in Bidders : reservedAmounts[n][a] <= winning[n][p].amount
            /\ \A o \in Samples : winning[n][o] # NULL =>
                 winning[n][o].amount <= reservedAmounts[n][winning[n][o].bidder]
            /\ \A o \in Samples : winning[n][o] # NULL /\ o > 0 =>
                 winning[n][o - 1].amount <= winning[n][o].amount
        BY <1>3, <3>9 DEF NodeInv, Backed
      <4>4. \A a \in Bidders : reservedAmounts[n][a] <= winning'[n][i].amount
        BY <4>1, <4>b
      <4>5. ASSUME NEW o \in Samples, winning'[n][o] # NULL
            PROVE  winning'[n][o].amount <= reservedAmounts[n][winning'[n][o].bidder]
        BY <3>4, <3>6, <4>1, <4>5, <4>b
      <4>6. ASSUME NEW o \in Samples, winning'[n][o] # NULL, o > 0
            PROVE  winning'[n][o - 1].amount <= winning'[n][o].amount
        <5>1. o \in Nat /\ o <= i /\ o - 1 \in Samples
          BY <4>2, <4>6, SamplesFacts
        <5>2. CASE o = i
          <6>1. o - 1 = p /\ o - 1 # i
            BY <3>5, <3>11, <5>2
          <6>2. winning'[n][o - 1] = winning[n][p] /\ winning'[n][o] = winning[n][p]
            BY <3>4, <3>6, <4>1, <5>2, <6>1
          <6>3. winning[n][p].amount \in Nat
            BY <3>4, <4>1 DEF AuctionTypes, WinnerData
          <6> QED BY <6>2, <6>3
        <5>3. CASE o # i
          <6>1. o - 1 # i
            BY <3>5, <5>1
          <6> QED BY <3>6, <4>6, <4>b, <5>1, <5>3, <6>1
        <5> QED BY <5>2, <5>3
      <4>7. Backed(n)'
        BY <1>1, <3>9, <4>4, <4>5, <4>6 DEF Backed
      <4> QED BY <1>1, <1>3, <4>3, <4>7 DEF NodeInv
    <3> QED BY <3>5, <3>10, <3>11
  <2> QED BY <2>3, <2>4
<1> QED BY <1>2, <1>3

\* A bid reserves for its bidder and name only.  That it is higher than every
\* reserve for the name is what makes the amount reserved the amount bid.
LEMMA ReserveFacts ==
  ASSUME AuctionTypes, NEW a \in Bidders, NEW n \in Nodes, NEW amount \in Amounts,
         ReserveFor(a, n, amount), amount >= reservedAmounts[n][a]
  PROVE  /\ reservedAmounts'[n][a] = amount
         /\ \A b \in Bidders : b # a => reservedAmounts'[n][b] = reservedAmounts[n][b]
         /\ \A m \in Nodes : m # n => reservedAmounts'[m] = reservedAmounts[m]
         /\ reserved'[a] = reserved[a] + (amount - reservedAmounts[n][a])
         /\ \A b \in Bidders : b # a => reserved'[b] = reserved[b]
<1>1. /\ reserved' = [reserved EXCEPT ![a] = @ + (amount - reservedAmounts[n][a])]
      /\ reservedAmounts' = [reservedAmounts EXCEPT ![n][a] = amount]
  BY DEF ReserveFor
<1>2. /\ reservedAmounts \in [Nodes -> [Bidders -> Nat]]
      /\ reserved \in [Bidders -> Int]
  BY DEF AuctionTypes
<1>3. reservedAmounts' =
        [reservedAmounts EXCEPT ![n] = [reservedAmounts[n] EXCEPT ![a] = amount]]
  BY <1>1, <1>2
<1>4. /\ reservedAmounts'[n] = [reservedAmounts[n] EXCEPT ![a] = amount]
      /\ \A m \in Nodes : m # n => reservedAmounts'[m] = reservedAmounts[m]
  BY <1>2, <1>3
<1>5. reservedAmounts[n] \in [Bidders -> Nat]
  BY <1>2
<1> QED BY <1>1, <1>2, <1>4, <1>5

\* A bid that is taken is above every reserve made for its name.
LEMMA HighestBid ==
  ASSUME AuctionTypes, NEW a \in Bidders, NEW n \in Nodes, NEW amount \in Amounts,
         Times(n), NodeInv(n), HandleBid(a, n, amount)
  PROVE  /\ \A b \in Bidders : amount >= reservedAmounts[n][b]
         /\ started[n] # NULL =>
              /\ Elapsed(n) = Duration(n) /\ Offset(n) = Sample(Elapsed(n))
              /\ winning[n][Offset(n)].amount \in Nat
              /\ amount > winning[n][Offset(n)].amount
<1>t. amount \in Nat /\ \A b \in Bidders : reservedAmounts[n][b] \in Nat
  BY AuctionAssumption DEF AuctionTypes
<1>1. CASE started[n] = NULL
  <2>1. reservedAmounts[n] = NoReserves
    BY <1>1 DEF NodeInv
  <2>2. \A b \in Bidders : reservedAmounts[n][b] = 0
    BY <2>1 DEF NoReserves
  <2> QED BY <1>1, <1>t, <2>2
<1>2. CASE started[n] # NULL
  <2> DEFINE i == Offset(n)
  <2>1. todo = {} /\ ~InVrfDelay(n) /\ Higher(n, amount)
    BY DEF HandleBid
  <2>2. /\ Duration(n) \in Nat /\ ~(Duration(n) >= EndingPeriod) /\ EndingPeriod \in Nat
        /\ Elapsed(n) = Passed(Duration(n))
    BY <1>2, <2>1, RunsFor, AuctionAssumption DEF InVrfDelay
  <2>3. Elapsed(n) = Duration(n) /\ i = Sample(Elapsed(n))
    BY <1>2, <2>2 DEF Passed, Offset
  <2>4. i \in Samples /\ i \in Nat
    BY <2>1, OffsetInSamples, SamplesFacts
  <2>5. winning[n][i] # NULL
    BY <1>2, <2>3, <2>4 DEF NodeInv, Led
  <2>6. winning[n][i] \in WinnerData /\ winning[n][i].amount \in Nat
    BY <2>4, <2>5 DEF AuctionTypes, WinnerData
  <2>7. CurrentWinning(n) = winning[n][i]
    BY <2>5 DEF CurrentWinning
  <2>8. amount > winning[n][i].amount
    BY <2>1, <2>5, <2>7 DEF Higher
  <2>9. \A b \in Bidders : reservedAmounts[n][b] <= winning[n][i].amount
    BY <1>2, <2>3 DEF NodeInv, Backed
  <2> HIDE DEF i
  <2>10. \A b \in Bidders : amount >= reservedAmounts[n][b]
    BY <1>t, <2>6, <2>8, <2>9
  <2> QED BY <2>3, <2>6, <2>8, <2>10 DEF i
<1> QED BY <1>1, <1>2

\* A number is not below itself.
LEMMA NatReflexive ==
  ASSUME NEW x \in Nat
  PROVE  x >= x
OBVIOUS

\* A bid leads the sample of its block and is reserved.
LEMMA BidNode ==
  ASSUME AuctionTypes, AuctionTypes', NEW a \in Bidders, NEW n \in Nodes,
         NEW amount \in Amounts, Times(n), NodeInv(n), HandleBid(a, n, amount)
  PROVE  NodeInv(n)'
<1> DEFINE i == Offset(n)
<1>1. /\ todo = {} /\ todo' = todo /\ block' = block /\ ~InVrfDelay(n)
      /\ ReserveFor(a, n, amount)
      /\ winning' = [winning EXCEPT ![n][i] = [bidder |-> a, amount |-> amount]]
  BY DEF HandleBid
<1>2. i \in Samples /\ i \in Nat
  BY <1>1, OffsetInSamples, SamplesFacts
<1>3. started'[n] # NULL
  <2>1. started \in [Nodes -> Nat \cup {NULL}] /\ block \in Nat
    BY AuctionAssumption DEF AuctionTypes
  <2>2. IF started[n] = NULL THEN NewAuction(n, amount)
                             ELSE UNCHANGED <<started, ongoing>>
    BY DEF HandleBid
  <2> QED BY <2>1, <2>2, NullAssumption DEF NewAuction
<1>4. Sample(Elapsed(n)') = i
  <2>1. CASE started[n] = NULL
    <3>1. started' = [started EXCEPT ![n] = block]
      BY <2>1 DEF HandleBid, NewAuction
    <3>2. started'[n] = block /\ block \in Nat
      BY <3>1, AuctionAssumption DEF AuctionTypes
    <3>3. Elapsed(n)' = Passed(block' - started'[n] - 0)
      BY <1>1, <1>3, ElapsedAfter
    <3>4. block' - started'[n] - 0 = 0
      BY <1>1, <3>2
    <3>5. Passed(0) = 0
      BY AuctionAssumption DEF Passed
    <3>6. i = 0
      BY <2>1 DEF Offset
    <3> QED BY <3>3, <3>4, <3>5, <3>6, SampleFacts
  <2>2. CASE started[n] # NULL
    <3>1. started' = started
      BY <2>2 DEF HandleBid
    <3>2. Elapsed(n)' = Elapsed(n)
      BY <1>1, <3>1, ElapsedStill
    <3> QED BY <2>2, <3>2, HighestBid
  <2> QED BY <2>1, <2>2
<1>5. /\ winning'[n][i].amount = amount /\ winning'[n][i].bidder = a
      /\ winning'[n][i] # NULL
      /\ \A o \in Samples : o # i => winning'[n][o] = winning[n][o]
  <2>1. [bidder |-> a, amount |-> amount] \in WinnerData
    BY AuctionAssumption DEF WinnerData
  <2>2. /\ winning'[n][i] = [bidder |-> a, amount |-> amount]
        /\ \A o \in Samples : o # i => winning'[n][o] = winning[n][o]
    BY <1>1, BidSample
  <2>3. winning'[n][i] # NULL
    BY <2>1, <2>2, NullAssumption
  <2>4. winning'[n][i].amount = amount /\ winning'[n][i].bidder = a
    BY <2>2
  <2> QED BY <2>2, <2>3, <2>4
<1>6. /\ reservedAmounts'[n][a] = amount
      /\ \A b \in Bidders : b # a => reservedAmounts'[n][b] = reservedAmounts[n][b]
  BY <1>1, HighestBid, ReserveFacts
<1>7. /\ amount \in Nat
      /\ \A b \in Bidders : reservedAmounts[n][b] \in Nat /\ amount >= reservedAmounts[n][b]
  BY HighestBid, AuctionAssumption DEF AuctionTypes
<1>8. \A o \in Samples : o \in Nat /\ (winning[n][o] # NULL => o <= i /\ started[n] # NULL)
  <2>1. CASE started[n] = NULL
    BY <2>1, SamplesFacts DEF NodeInv, Led
  <2>2. CASE started[n] # NULL
    <3>1. i = Sample(Elapsed(n))
      BY <2>2, HighestBid
    <3> QED BY <2>2, <3>1, SamplesFacts DEF NodeInv, Led
  <2> QED BY <2>1, <2>2
<1>9. \A o \in Samples : o < i => winning[n][o] # NULL
  <2>1. CASE started[n] = NULL
    <3>1. i = 0
      BY <2>1 DEF Offset
    <3> QED BY <3>1, SamplesFacts
  <2>2. CASE started[n] # NULL
    <3>1. i = Sample(Elapsed(n))
      BY <2>2, HighestBid
    <3> QED BY <1>2, <2>2, <3>1, SamplesFacts DEF NodeInv, Led
  <2> QED BY <2>1, <2>2
<1>10. started[n] # NULL => /\ winning[n][i].amount \in Nat
                            /\ amount > winning[n][i].amount
                            /\ winning[n][i] # NULL
  <2>1. started[n] # NULL => i = Sample(Elapsed(n))
    BY HighestBid
  <2> QED BY <1>2, <2>1, HighestBid DEF NodeInv, Led
<1> HIDE DEF i
<1>11. Led(n)'
  <2>1. \A o \in Samples : winning'[n][o] # NULL <=> o <= i
    BY <1>2, <1>5, <1>8, <1>9
  <2> QED BY <1>3, <1>4, <2>1 DEF Led
<1>12. \A b \in Bidders : reservedAmounts'[n][b] <= winning'[n][i].amount
  BY <1>5, <1>6, <1>7
<1>13. ASSUME NEW o \in Samples, winning'[n][o] # NULL
       PROVE  winning'[n][o].amount <= reservedAmounts'[n][winning'[n][o].bidder]
  <2>1. CASE o = i
    BY <1>5, <1>6, <1>7, <2>1
  <2>2. CASE o # i
    <3>1. winning'[n][o] = winning[n][o] /\ started[n] # NULL
      BY <1>5, <1>8, <1>13, <2>2
    <3>2. winning[n][o].amount <= reservedAmounts[n][winning[n][o].bidder]
      BY <1>13, <3>1 DEF NodeInv, Backed
    <3>3. winning[n][o].amount \in Nat /\ winning[n][o].bidder \in Bidders
      BY <1>13, <3>1 DEF AuctionTypes, WinnerData
    <3>4. ASSUME NEW b \in Bidders
          PROVE  /\ reservedAmounts[n][b] \in Nat /\ reservedAmounts'[n][b] \in Nat
                 /\ reservedAmounts'[n][b] >= reservedAmounts[n][b]
      <4>1. reservedAmounts[n][b] \in Nat /\ amount \in Nat /\ amount >= reservedAmounts[n][b]
        BY <1>7
      <4>2. reservedAmounts'[n][b] \in {amount, reservedAmounts[n][b]}
        BY <1>6
      <4>3. CASE reservedAmounts'[n][b] = amount
        BY <4>1, <4>3
      <4>4. CASE reservedAmounts'[n][b] = reservedAmounts[n][b]
        BY <4>1, <4>4, NatReflexive
      <4> QED BY <4>2, <4>3, <4>4
    <3>5. winning[n][o].amount <= reservedAmounts'[n][winning[n][o].bidder]
      BY <3>2, <3>3, <3>4
    <3> QED BY <3>1, <3>5
  <2> QED BY <2>1, <2>2
<1>14. ASSUME NEW o \in Samples, winning'[n][o] # NULL, o > 0
       PROVE  winning'[n][o - 1].amount <= winning'[n][o].amount
  <2>1. o \in Nat /\ o - 1 \in Samples /\ o <= i
    BY <1>2, <1>5, <1>8, <1>14, SamplesFacts
  <2>2. winning'[n][o - 1] = winning[n][o - 1] /\ started[n] # NULL
    BY <1>2, <1>5, <1>8, <1>9, <2>1, <1>14
  <2>3. CASE o # i
    <3>1. winning'[n][o] = winning[n][o]
      BY <1>5, <2>3
    <3> QED BY <1>14, <2>2, <3>1 DEF NodeInv, Backed
  <2>4. CASE o = i
    <3>1. winning[n][i - 1].amount <= winning[n][i].amount
      BY <1>2, <1>10, <1>14, <2>2, <2>4 DEF NodeInv, Backed
    <3>2. winning[n][i - 1].amount \in Nat
      <4>1. winning[n][i - 1] # NULL /\ i - 1 \in Samples
        BY <1>2, <1>9, <2>1, <2>4
      <4> QED BY <4>1 DEF AuctionTypes, WinnerData
    <3> QED BY <1>5, <1>7, <1>10, <2>2, <2>4, <3>1, <3>2
  <2> QED BY <2>3, <2>4
<1>15. Backed(n)'
  BY <1>4, <1>12, <1>13, <1>14 DEF Backed
<1> QED BY <1>3, <1>11, <1>15 DEF NodeInv

\* Whatever offset is drawn, there is a bid to settle.
LEMMA DrawnBid ==
  ASSUME AuctionTypes, NEW n \in Nodes, NEW raw \in 0 .. EndingPeriod - 1,
         Times(n), NodeInv(n), VisitEnded(n, raw)
  PROVE  /\ started[n] # NULL
         /\ Sample(raw % EndingPeriod) \in Samples
         /\ winning[n][Sample(raw % EndingPeriod)] \in WinnerData
         /\ Settle(n, winning[n][Sample(raw % EndingPeriod)])
<1> DEFINE q == raw % EndingPeriod
           o == Sample(q)
<1>1. n \in todo /\ started[n] # NULL /\ Duration(n) >= EndingPeriod
  BY DEF VisitEnded, MayEnd, InVrfDelay
<1>2. /\ Duration(n) \in Nat /\ EndingPeriod \in Nat
      /\ Elapsed(n) = Passed(Duration(n) - 1)
  BY <1>1, RunsFor, AuctionAssumption
<1>3. Elapsed(n) = EndingPeriod - 1
  BY <1>1, <1>2 DEF Passed
<1>4. q \in 0 .. EndingPeriod - 1 /\ o \in Samples
  BY DrawnSample
<1> HIDE DEF q
<1>5. o <= Sample(Elapsed(n))
  BY <1>2, <1>3, <1>4, SampleFacts
<1>6. winning[n][o] # NULL
  BY <1>1, <1>4, <1>5 DEF NodeInv, Led
<1>7. winning[n][o] \in WinnerData
  BY <1>4, <1>6 DEF AuctionTypes
<1>8. Settle(n, winning[n][o])
  BY <1>6 DEF VisitEnded, q
<1> QED BY <1>1, <1>4, <1>7, <1>8 DEF q

\* What the end of an auction leaves of it.
LEMMA EndFacts ==
  ASSUME AuctionTypes, NEW n \in Nodes, NEW raw \in 0 .. EndingPeriod - 1,
         Times(n), NodeInv(n), VisitEnded(n, raw)
  PROVE  /\ started'[n] = NULL /\ winning'[n] = NoSamples
         /\ reservedAmounts'[n] = NoReserves
         /\ \A m \in Nodes : m # n => /\ started'[m] = started[m]
                                      /\ winning'[m] = winning[m]
                                      /\ reservedAmounts'[m] = reservedAmounts[m]
                                      /\ m \in todo' <=> m \in todo
         /\ block' = block
         /\ \A a \in Bidders : reserved'[a] = reserved[a] - reservedAmounts[n][a]
<1> DEFINE bid == winning[n][Sample(raw % EndingPeriod)]
<1>1. /\ started' = [started EXCEPT ![n] = NULL]
      /\ winning' = [winning EXCEPT ![n] = NoSamples]
      /\ todo' = todo \ {n} /\ block' = block
  BY DEF VisitEnded
<1>2. Settle(n, bid)
  BY DrawnBid
<1> HIDE DEF bid
<1>3. /\ reservedAmounts' = [reservedAmounts EXCEPT ![n] = NoReserves]
      /\ reserved' = [a \in Bidders |-> reserved[a] - reservedAmounts[n][a]]
  BY <1>2 DEF Settle
<1>4. /\ DOMAIN started = Nodes /\ DOMAIN winning = Nodes
      /\ DOMAIN reservedAmounts = Nodes
  BY DEF AuctionTypes
<1> QED BY <1>1, <1>3, <1>4

\* An auction that has ended leaves neither leaders nor reserves.
LEMMA EndNode ==
  ASSUME AuctionTypes, NEW n \in Nodes, NEW raw \in 0 .. EndingPeriod - 1,
         Times(n), NodeInv(n), VisitEnded(n, raw)
  PROVE  NodeInv(n)'
<1>1. started'[n] = NULL /\ winning'[n] = NoSamples /\ reservedAmounts'[n] = NoReserves
  BY EndFacts
<1> QED BY <1>1 DEF NodeInv, Led, Backed, NoSamples, NoReserves

\* Every step keeps what is kept of a name, its own steps and those of others.
LEMMA NodeStep ==
  ASSUME AuctionTypes, AuctionTypes', \A n \in Nodes : Times(n) /\ NodeInv(n),
         [AuctionNext]_auctionVars
  PROVE  \A n \in Nodes : NodeInv(n)'
<1> SUFFICES ASSUME NEW m \in Nodes PROVE NodeInv(m)'
  OBVIOUS
<1>1. ASSUME NEW a \in Bidders, NEW n \in Nodes, NEW amount \in Amounts,
             HandleBid(a, n, amount)
      PROVE  NodeInv(m)'
  <2>1. CASE m = n
    BY <1>1, <2>1, BidNode
  <2>2. CASE m # n
    <3>1. /\ todo' = todo /\ block' = block /\ ~InVrfDelay(n) /\ ReserveFor(a, n, amount)
          /\ winning' = [winning EXCEPT
                           ![n][Offset(n)] = [bidder |-> a, amount |-> amount]]
      BY <1>1 DEF HandleBid
    <3>2. started'[m] = started[m]
      BY <1>1, <2>2 DEF HandleBid, NewAuction, AuctionTypes
    <3>3. winning'[m] = winning[m]
      BY <2>2, <3>1, BidSample
    <3>4. reservedAmounts'[m] = reservedAmounts[m]
      BY <1>1, <2>2, <3>1, HighestBid, ReserveFacts
    <3>5. Elapsed(m)' = Elapsed(m)
      BY <3>1, <3>2, ElapsedStill
    <3> QED BY <3>2, <3>3, <3>4, <3>5, StillNode
  <2> QED BY <2>1, <2>2
<1>2. CASE NewBlock
  BY <1>2, NewBlockNode
<1>3. ASSUME NEW n \in Nodes, VisitRunning(n) PROVE NodeInv(m)'
  <2>1. CASE m = n
    BY <1>3, <2>1, RunningNode
  <2>2. CASE m # n
    <3>1. /\ block' = block /\ started' = started /\ reservedAmounts' = reservedAmounts
          /\ todo' = todo \ {n}
      BY <1>3 DEF VisitRunning
    <3>2. winning'[m] = winning[m]
      BY <1>3, <2>2, CarryFacts DEF VisitRunning
    <3>3. Elapsed(m)' = Elapsed(m)
      BY <2>2, <3>1, ElapsedStill
    <3> QED BY <3>1, <3>2, <3>3, StillNode
  <2> QED BY <2>1, <2>2
<1>4. ASSUME NEW n \in Nodes, NEW raw \in 0 .. EndingPeriod - 1, VisitEnded(n, raw)
      PROVE  NodeInv(m)'
  <2>1. CASE m = n
    BY <1>4, <2>1, EndNode
  <2>2. CASE m # n
    <3>1. /\ started'[m] = started[m] /\ winning'[m] = winning[m]
          /\ reservedAmounts'[m] = reservedAmounts[m]
          /\ m \in todo' <=> m \in todo
          /\ block' = block
      BY <1>4, <2>2, EndFacts
    <3>2. Elapsed(m)' = Elapsed(m)
      BY <3>1, ElapsedStill
    <3> QED BY <3>1, <3>2, StillNode
  <2> QED BY <2>1, <2>2
<1>5. CASE Reseed \/ UNCHANGED auctionVars
  <2>1. UNCHANGED <<block, todo, started, winning, reservedAmounts>>
    BY <1>5 DEF Reseed, auctionVars
  <2>2. Elapsed(m)' = Elapsed(m)
    BY <2>1, ElapsedStill
  <2> QED BY <2>1, <2>2, StillNode
<1> QED BY <1>1, <1>2, <1>3, <1>4, <1>5 DEF AuctionNext, Visit

-----------------------------------------------------------------------------
(* The reserves of an account, over all names.                             *)

Recorded(a) == [n \in Nodes |-> reservedAmounts[n][a]]

SumsExact == \A a \in Bidders : reserved[a] = SumFunction(Recorded(a))

\* A step that changes what is recorded for one account and name by as much as
\* the currency's reserve keeps the account's sum exact.
LEMMA SumKept ==
  ASSUME AuctionTypes, AuctionTypes', NEW a \in Bidders, NEW n \in Nodes,
         reserved[a] = SumFunction(Recorded(a)),
         \A m \in Nodes : m # n => reservedAmounts'[m][a] = reservedAmounts[m][a],
         reserved'[a] = reserved[a] + (reservedAmounts'[n][a] - reservedAmounts[n][a])
  PROVE  reserved'[a] = SumFunction(Recorded(a)')
<1> DEFINE f == Recorded(a)
           g == Recorded(a)'
<1>1. f \in [Nodes -> Int] /\ g \in [Nodes -> Int]
  BY DEF AuctionTypes, Recorded
<1>2. /\ \A m \in Nodes : m # n => g[m] = f[m]
      /\ f[n] = reservedAmounts[n][a] /\ g[n] = reservedAmounts'[n][a]
  BY DEF Recorded
<1>3. IsFiniteSet(Nodes)
  BY AuctionAssumption
<1> HIDE DEF f, g
<1>4. SumFunction(g) = SumFunction(f) + (g[n] - f[n])
  BY <1>1, <1>2, <1>3, SumChange
<1> QED BY <1>2, <1>4 DEF f, g

\* A step that changes nothing of an account's reserves keeps its sum.
LEMMA SumStill ==
  ASSUME NEW a \in Bidders, reserved[a] = SumFunction(Recorded(a)),
         \A m \in Nodes : reservedAmounts'[m][a] = reservedAmounts[m][a],
         reserved'[a] = reserved[a]
  PROVE  reserved'[a] = SumFunction(Recorded(a)')
<1>1. Recorded(a)' = Recorded(a)
  BY DEF Recorded
<1> QED BY <1>1

\* Taking the whole of an amount changes it to nothing.
LEMMA TakeIsChange ==
  ASSUME NEW x \in Int, NEW y \in Int, NEW z, z = 0
  PROVE  x - y = x + (z - y)
OBVIOUS

\* Every step keeps the sums: a bid adds to both sides, and the end of an
\* auction takes from both sides what was recorded for its name.
LEMMA SumsStep ==
  ASSUME AuctionTypes, AuctionTypes', \A n \in Nodes : Times(n) /\ NodeInv(n),
         SumsExact, [AuctionNext]_auctionVars
  PROVE  SumsExact'
<1> SUFFICES ASSUME NEW b \in Bidders PROVE reserved'[b] = SumFunction(Recorded(b)')
  BY DEF SumsExact
<1>0. reserved[b] = SumFunction(Recorded(b))
  BY DEF SumsExact
<1>1. ASSUME NEW a \in Bidders, NEW n \in Nodes, NEW amount \in Amounts,
             HandleBid(a, n, amount)
      PROVE  reserved'[b] = SumFunction(Recorded(b)')
  <2>1. /\ reservedAmounts'[n][a] = amount
        /\ \A c \in Bidders : c # a => reservedAmounts'[n][c] = reservedAmounts[n][c]
        /\ \A m \in Nodes : m # n => reservedAmounts'[m] = reservedAmounts[m]
        /\ reserved'[a] = reserved[a] + (amount - reservedAmounts[n][a])
        /\ \A c \in Bidders : c # a => reserved'[c] = reserved[c]
    BY <1>1, HighestBid, ReserveFacts DEF HandleBid
  <2>2. CASE b = a
    BY <1>0, <2>1, <2>2, SumKept
  <2>3. CASE b # a
    <3>1. \A m \in Nodes : reservedAmounts'[m][b] = reservedAmounts[m][b]
      BY <2>1, <2>3
    <3> QED BY <1>0, <2>1, <2>3, <3>1, SumStill
  <2> QED BY <2>2, <2>3
<1>2. ASSUME NEW n \in Nodes, NEW raw \in 0 .. EndingPeriod - 1, VisitEnded(n, raw)
      PROVE  reserved'[b] = SumFunction(Recorded(b)')
  <2>1. /\ reservedAmounts'[n] = NoReserves
        /\ \A m \in Nodes : m # n => reservedAmounts'[m] = reservedAmounts[m]
        /\ reserved'[b] = reserved[b] - reservedAmounts[n][b]
    BY <1>2, EndFacts
  <2>2. reservedAmounts'[n][b] = 0
    BY <2>1 DEF NoReserves
  <2>3. reserved[b] \in Int /\ reservedAmounts[n][b] \in Int
    BY DEF AuctionTypes
  <2>4. reserved'[b] = reserved[b] + (reservedAmounts'[n][b] - reservedAmounts[n][b])
    <3>1. reserved'[b] = reserved[b] - reservedAmounts[n][b]
      BY <2>1
    <3> QED BY <2>2, <2>3, <3>1, TakeIsChange
  <2>5. \A m \in Nodes : m # n => reservedAmounts'[m][b] = reservedAmounts[m][b]
    BY <2>1
  <2> QED BY <1>0, <2>4, <2>5, SumKept
<1>3. ASSUME UNCHANGED <<reservedAmounts, reserved>>
      PROVE  reserved'[b] = SumFunction(Recorded(b)')
  BY <1>0, <1>3, SumStill
<1>4. ASSUME NEW n \in Nodes, NewBlock \/ VisitRunning(n) \/ Reseed \/ UNCHANGED auctionVars
      PROVE  UNCHANGED <<reservedAmounts, reserved>>
  BY <1>4 DEF NewBlock, VisitRunning, Reseed, auctionVars, moneyVars
<1>5. ASSUME NewBlock \/ Reseed \/ UNCHANGED auctionVars
      PROVE  UNCHANGED <<reservedAmounts, reserved>>
  BY <1>5 DEF NewBlock, Reseed, auctionVars, moneyVars
<1> QED BY <1>1, <1>2, <1>3, <1>4, <1>5 DEF AuctionNext, Visit

-----------------------------------------------------------------------------
(* What the auction keeps.                                                 *)

AuctionInv ==
  /\ AuctionTypes
  /\ \A n \in Nodes : Times(n) /\ NodeInv(n)
  /\ SumsExact

\* Nothing is running, bid or reserved at the start.
LEMMA AuctionInitial ==
  ASSUME AuctionInit PROVE AuctionInv
<1>1. AuctionTypes
  BY AuctionAssumption DEF AuctionInit, AuctionTypes, NoSamples, NoReserves
<1>2. \A n \in Nodes : Times(n) /\ NodeInv(n)
  BY DEF AuctionInit, Times, NodeInv, Led, Backed, NoSamples
<1>3. ASSUME NEW a \in Bidders PROVE reserved[a] = SumFunction(Recorded(a))
  <2>1. reserved[a] = 0 /\ Recorded(a) = [n \in Nodes |-> 0]
    BY DEF AuctionInit, Recorded, NoReserves
  <2>2. SumFunction([n \in Nodes |-> 0]) = 0
    BY AuctionAssumption, SumZero
  <2> QED BY <2>1, <2>2
<1> QED BY <1>1, <1>2, <1>3 DEF AuctionInv, SumsExact

\* The invariants of the auction hold together.
THEOREM AuctionInvariance == AuctionSpec => []AuctionInv
<1>1. AuctionInit => AuctionInv
  BY AuctionInitial
<1>2. ASSUME AuctionInv, [AuctionNext]_auctionVars PROVE AuctionInv'
  <2>1. AuctionTypes'
    BY <1>2, TypesStep DEF AuctionInv
  <2>2. \A n \in Nodes : Times(n)'
    BY <1>2, TimesStep DEF AuctionInv
  <2>3. \A n \in Nodes : NodeInv(n)'
    BY <1>2, <2>1, NodeStep DEF AuctionInv
  <2>4. SumsExact'
    BY <1>2, <2>1, SumsStep DEF AuctionInv
  <2> QED BY <2>1, <2>2, <2>3, <2>4 DEF AuctionInv
<1> QED BY <1>1, <1>2, PTL DEF AuctionSpec

\* on_initialize always finds the winner it expects, and every offset that
\* check_auction_end may draw has a bid.
THEOREM WinnerAlways == AuctionSpec => []WinnerForEverySample
<1>1. AuctionInv => WinnerForEverySample
  BY DEF AuctionInv, NodeInv, Led, WinnerForEverySample
<1> QED BY <1>1, AuctionInvariance, PTL

\* Whoever leads a sample has reserved the bid, and nobody more than the
\* leading bid: handle_bid never skips a reserve.
THEOREM BidsReserved == AuctionSpec => []WinningBidsReserved
<1>1. AuctionInv => WinningBidsReserved
  BY DEF AuctionInv, NodeInv, Backed, WinningBidsReserved
<1> QED BY <1>1, AuctionInvariance, PTL

\* The currency holds back for an account the sum of what ReservedAmounts has
\* for it, for any number of auctions at a time.
THEOREM ReservesAlwaysExact == AuctionSpec => []ReservesExact
<1>1. AuctionInv => ReservesExact
  BY DEF AuctionInv, NodeInv, SumsExact, Recorded, ReservesExact
<1> QED BY <1>1, AuctionInvariance, PTL

\* manage_auction_end gives a lease and a token to a name that nobody has, at
\* the end of its auction, when a bidder who led a sample has just paid that
\* bid, and the token to no other account.
THEOREM MintedOnlyAgainstPayment == AuctionSpec => MintedAgainstPayment
<1>1. ASSUME AuctionInv, [AuctionNext]_auctionVars, NEW m \in Nodes,
             holder'[m] # holder[m] \/ m \in leased' \ leased
      PROVE  /\ holder[m] = NULL
             /\ started[m] # NULL /\ started'[m] = NULL
             /\ m \in leased'
             /\ \E o \in Samples :
                  /\ holder'[m] \in {winning[m][o].bidder, NULL}
                  /\ proceeds' = proceeds + winning[m][o].amount
  <2>1. PICK n \in Nodes, raw \in 0 .. EndingPeriod - 1 : VisitEnded(n, raw)
    BY <1>1 DEF AuctionNext, HandleBid, NewBlock, Visit, VisitRunning, Reseed,
                auctionVars, moneyVars
  <2> DEFINE o == Sample(raw % EndingPeriod)
             bid == winning[n][o]
  <2>2. AuctionTypes /\ Times(n) /\ NodeInv(n)
    BY <1>1 DEF AuctionInv
  <2>3. started[n] # NULL /\ started'[n] = NULL /\ o \in Samples /\ Settle(n, bid)
    BY <2>1, <2>2, DrawnBid, EndFacts
  <2> HIDE DEF bid
  <2>4. \/ holder' = holder /\ leased' = leased
        \/ /\ proceeds' = proceeds + bid.amount
           /\ leased' = leased \cup {n}
           /\ holder' = holder \/ holder' = [holder EXCEPT ![n] = bid.bidder]
    BY <2>3 DEF Settle, Mint
  <2>5. holder[n] = NULL
    BY <2>2, <2>3 DEF Times
  <2>6. /\ m = n /\ n \in leased' /\ proceeds' = proceeds + bid.amount
        /\ holder'[m] \in {bid.bidder, NULL}
    BY <1>1, <2>2, <2>4, <2>5 DEF AuctionTypes
  <2> QED BY <2>3, <2>5, <2>6 DEF bid
<1>2. AuctionInv /\ [AuctionNext]_auctionVars =>
        [\A n \in Nodes : holder'[n] # holder[n] \/ n \in leased' \ leased =>
           /\ holder[n] = NULL
           /\ started[n] # NULL /\ started'[n] = NULL
           /\ n \in leased'
           /\ \E o \in Samples :
                /\ holder'[n] \in {winning[n][o].bidder, NULL}
                /\ proceeds' = proceeds + winning[n][o].amount]_auctionVars
  BY <1>1
<1> QED BY <1>2, AuctionInvariance, PTL DEF AuctionSpec, MintedAgainstPayment

=============================================================================
