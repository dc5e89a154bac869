------------------------------ MODULE NameAuction ------------------------------
(***************************************************************************)
(* The candle auction of auction.rs: bids reserve money, every block of    *)
(* the ending period belongs to a sample, each sample remembers who was    *)
(* winning, and randomness that became known after the end picks the       *)
(* sample that decides.  The file is complete but lib.rs does not include  *)
(* it yet.                                                                 *)
(*                                                                         *)
(* on_initialize runs over the ongoing auctions one by one before the      *)
(* block's bids; `todo` holds those it has not come to.  It is not         *)
(* transactional, so what it did before an error stays: a winner may have  *)
(* paid, and the name a lease, when the minting of its token fails.        *)
(*                                                                         *)
(* The block number is bounded.  At MaxBlock further blocks are built      *)
(* under the same number, and no auction starts that could not end by it.  *)
(***************************************************************************)
EXTENDS Naturals, FiniteSets, FiniteSetsExt, Functions

CONSTANTS
  Bidders,              \* accounts
  Nodes,                \* names that are auctionable
  Amounts,              \* amounts that are bid
  Funds,                \* what an account starts with
  ExistentialDeposit,   \* what KeepAlive leaves in an account
  MinimalAuctionPrice,
  EndingPeriod,         \* blocks an auction lasts
  SampleLength,         \* blocks of a sample
  MaxBlock,             \* bound on the block number
  NULL

ASSUME AuctionAssumption ==
  /\ Amounts \subseteq Nat
  /\ {Funds, ExistentialDeposit, MinimalAuctionPrice, MaxBlock} \subseteq Nat
  /\ {EndingPeriod, SampleLength} \subseteq Nat \ {0}
  /\ IsFiniteSet(Nodes)

\* What is kept of the bid that wins a sample.
WinnerData == [bidder : Bidders, amount : Nat]

ASSUME NullAssumption ==
  NULL \notin Nat /\ NULL \notin Bidders /\ NULL \notin WinnerData

VARIABLES
  block,            \* block_number()
  known,            \* the block since which the randomness has been known
  todo,             \* auctions on_initialize has still to look at
  ongoing,          \* OngoingAuctions
  started,          \* AuctionInfo
  winning,          \* Winning: node -> sample -> bid
  reservedAmounts,  \* ReservedAmounts
  free, reserved,   \* the currency's balances of an account
  proceeds,         \* the balance of the official account
  leased,           \* names for_auction_set_expires gave a lease
  holder            \* who a name was minted to

moneyVars == <<free, reserved, proceeds>>
auctionVars == <<block, known, todo, ongoing, started, winning,
                 reservedAmounts, moneyVars, leased, holder>>

Sample(blocks) == blocks \div SampleLength
Samples == 0 .. Sample(EndingPeriod - 1)
NoSamples == [o \in Samples |-> NULL]
NoReserves == [a \in Bidders |-> 0]

AuctionInit ==
  /\ block = 0
  /\ known = 0
  /\ todo = {}
  /\ ongoing = {}
  /\ started = [n \in Nodes |-> NULL]
  /\ winning = [n \in Nodes |-> NoSamples]
  /\ reservedAmounts = [n \in Nodes |-> NoReserves]
  /\ free = [a \in Bidders |-> Funds]
  /\ reserved = NoReserves
  /\ proceeds = 0
  /\ leased = {}
  /\ holder = [n \in Nodes |-> NULL]

-----------------------------------------------------------------------------
(* auction_status.  Bids start an auction in the current block, so the     *)
(* StartingPeriod it also knows is never seen.                             *)

Duration(n) == block - started[n]
InEndingPeriod(n) == started[n] # NULL /\ Duration(n) < EndingPeriod
InVrfDelay(n) == started[n] # NULL /\ Duration(n) >= EndingPeriod
Offset(n) == IF started[n] = NULL THEN 0 ELSE Sample(Duration(n))

\* The bid to beat: that of this sample or else of the one before.
CurrentWinning(n) ==
  LET o == Offset(n) IN
  IF winning[n][o] # NULL \/ o = 0 THEN winning[n][o] ELSE winning[n][o - 1]

-----------------------------------------------------------------------------
(* bid and handle_bid.  A bid that is not higher than the current one      *)
(* succeeds and changes nothing.                                           *)

\* do_new_auction
NewAuction(n, amount) ==
  /\ amount > MinimalAuctionPrice
  /\ block + EndingPeriod <= MaxBlock
  /\ started' = [started EXCEPT ![n] = block]
  /\ ongoing' = ongoing \cup {n}

\* Mutant of ReserveFor: the whole bid is reserved, on top of earlier ones.
ReserveAgain(a, n, amount) ==
  /\ free[a] >= amount
  /\ free' = [free EXCEPT ![a] = @ - amount]
  /\ reserved' = [reserved EXCEPT ![a] = @ + amount]
  /\ reservedAmounts' = [reservedAmounts EXCEPT ![n][a] = amount]

\* Only what the bidder has not reserved for this name yet is reserved.
ReserveFor(a, n, amount) ==
  LET additional == amount - reservedAmounts[n][a] IN
  IF amount >= reservedAmounts[n][a]
  THEN /\ free[a] >= additional
       /\ free' = [free EXCEPT ![a] = @ - additional]
       /\ reserved' = [reserved EXCEPT ![a] = @ + additional]
       /\ reservedAmounts' = [reservedAmounts EXCEPT ![n][a] = amount]
  ELSE UNCHANGED <<free, reserved, reservedAmounts>>

\* Mutant of Higher: any bid replaces the one before.
HigherOrNot(n, amount) == TRUE

Higher(n, amount) ==
  CurrentWinning(n) # NULL => amount > CurrentWinning(n).amount

HandleBid(a, n, amount) ==
  /\ todo = {}
  /\ holder[n] = NULL
  /\ ~InVrfDelay(n)
  /\ IF started[n] = NULL THEN NewAuction(n, amount)
                          ELSE UNCHANGED <<started, ongoing>>
  /\ Higher(n, amount)
  /\ ReserveFor(a, n, amount)
  /\ winning' = [winning EXCEPT
                   ![n][Offset(n)] = [bidder |-> a, amount |-> amount]]
  /\ UNCHANGED <<block, known, todo, proceeds, leased, holder>>

-----------------------------------------------------------------------------
(* on_initialize.                                                          *)

NewBlock ==
  /\ todo = {}
  /\ block' = IF block < MaxBlock THEN block + 1 ELSE block
  /\ todo' = ongoing
  /\ UNCHANGED <<known, ongoing, started, winning, reservedAmounts, moneyVars,
                 leased, holder>>

\* Mutant of CarrySample: a sample without a bid stays empty.
CarryNoSample(n) == UNCHANGED winning

\* A sample that begins takes over the winner of the one before, which the
\* code expects to be there.
CarrySample(n) ==
  winning' = [winning EXCEPT
                ![n][Offset(n)] = IF @ = NULL THEN CurrentWinning(n) ELSE @]

\* The randomness is good when it was not known before the auction ended.
MayEnd(n) == InVrfDelay(n) /\ started[n] + EndingPeriod <= known

VisitRunning(n) ==
  /\ n \in todo
  /\ ~MayEnd(n)
  /\ IF InEndingPeriod(n) THEN CarrySample(n) ELSE UNCHANGED winning
  /\ todo' = todo \ {n}
  /\ UNCHANGED <<block, known, ongoing, started, reservedAmounts, moneyVars,
                 leased, holder>>

\* Registry::mint, whose error the hook drops.
Mint(n, a) == holder' \in {[holder EXCEPT ![n] = a], holder}

\* Mutant of Settle: only the winner's money is released.
SettleWinnerOnly(n, bid) ==
  LET back == [free EXCEPT ![bid.bidder] = @ + reservedAmounts[n][bid.bidder]]
  IN
  /\ reservedAmounts' = [reservedAmounts EXCEPT ![n][bid.bidder] = 0]
  /\ reserved' = [reserved EXCEPT
                    ![bid.bidder] = @ - reservedAmounts[n][bid.bidder]]
  /\ IF back[bid.bidder] >= bid.amount + ExistentialDeposit
     THEN /\ free' = [back EXCEPT ![bid.bidder] = @ - bid.amount]
          /\ proceeds' = proceeds + bid.amount
          /\ leased' = leased \cup {n}
          /\ Mint(n, bid.bidder)
     ELSE free' = back /\ UNCHANGED <<proceeds, leased, holder>>

\* Mutant of Settle: a failed payment does not stop the minting.
SettleUnpaid(n, bid) ==
  LET back == [a \in Bidders |-> free[a] + reservedAmounts[n][a]] IN
  /\ reservedAmounts' = [reservedAmounts EXCEPT ![n] = NoReserves]
  /\ reserved' = [a \in Bidders |-> reserved[a] - reservedAmounts[n][a]]
  /\ leased' = leased \cup {n}
  /\ Mint(n, bid.bidder)
  /\ IF back[bid.bidder] >= bid.amount + ExistentialDeposit
     THEN /\ free' = [back EXCEPT ![bid.bidder] = @ - bid.amount]
          /\ proceeds' = proceeds + bid.amount
     ELSE free' = back /\ UNCHANGED proceeds

\* manage_auction_end: everybody's reserve is released, the winner pays, the
\* name gets its lease and then its token.  A payment that fails ends it.
Settle(n, bid) ==
  LET back == [a \in Bidders |-> free[a] + reservedAmounts[n][a]] IN
  /\ reservedAmounts' = [reservedAmounts EXCEPT ![n] = NoReserves]
  /\ reserved' = [a \in Bidders |-> reserved[a] - reservedAmounts[n][a]]
  /\ IF back[bid.bidder] >= bid.amount + ExistentialDeposit
     THEN /\ free' = [back EXCEPT ![bid.bidder] = @ - bid.amount]
          /\ proceeds' = proceeds + bid.amount
          /\ leased' = leased \cup {n}
          /\ Mint(n, bid.bidder)
     ELSE free' = back /\ UNCHANGED <<proceeds, leased, holder>>

\* check_auction_end: the auction goes; without a winner nothing is settled.
VisitEnded(n, raw) ==
  LET bid == winning[n][Sample(raw % EndingPeriod)] IN
  /\ n \in todo
  /\ MayEnd(n)
  /\ started' = [started EXCEPT ![n] = NULL]
  /\ winning' = [winning EXCEPT ![n] = NoSamples]
  /\ IF bid = NULL THEN UNCHANGED <<reservedAmounts, moneyVars, leased, holder>>
                   ELSE Settle(n, bid)
  /\ todo' = todo \ {n}
  /\ UNCHANGED <<block, known, ongoing>>

\* The randomness source learns a new seed.
Reseed ==
  /\ known' = block
  /\ UNCHANGED <<block, todo, ongoing, started, winning, reservedAmounts,
                 moneyVars, leased, holder>>

Visit(n) ==
  \/ VisitRunning(n)
  \/ \E raw \in 0 .. EndingPeriod - 1 : VisitEnded(n, raw)

AuctionNext ==
  \/ \E a \in Bidders, n \in Nodes, amount \in Amounts : HandleBid(a, n, amount)
  \/ NewBlock
  \/ \E n \in Nodes : Visit(n)
  \/ Reseed

AuctionSpec == AuctionInit /\ [][AuctionNext]_auctionVars

\* Blocks keep coming, a block runs its hook to the end, and the randomness
\* source keeps learning new seeds.
FairAuction ==
  /\ AuctionSpec
  /\ WF_auctionVars(NewBlock)
  /\ WF_auctionVars(\E n \in Nodes : Visit(n))
  /\ WF_auctionVars(Reseed)

-----------------------------------------------------------------------------
(* What the auction keeps.                                                 *)

\* The blocks of the ending period whose hook has run.
Elapsed(n) ==
  Min({Duration(n) - (IF n \in todo THEN 1 ELSE 0), EndingPeriod - 1})

\* A running auction has a winner for every sample so far and for none to
\* come: the expect("Winning data not found!") of on_initialize never fires,
\* and whatever offset the randomness picks, there is a bid to settle.
WinnerForEverySample ==
  \A n \in Nodes : \A o \in Samples :
    winning[n][o] # NULL <=> started[n] # NULL /\ o <= Sample(Elapsed(n))

\* The latest sample is led by the highest bidder, nobody has reserved more
\* for the name than the leading bid, and whoever leads a sample has still
\* reserved that bid: the subtraction in handle_bid never skips a reserve.
\* It does not make the bid payable: the transfer must leave the existential
\* deposit behind, which a bid of everything an account has does not.
WinningBidsReserved ==
  \A n \in Nodes : started[n] # NULL =>
    /\ \A a \in Bidders :
         reservedAmounts[n][a] <= winning[n][Sample(Elapsed(n))].amount
    /\ \A o \in Samples : winning[n][o] # NULL =>
         winning[n][o].amount <= reservedAmounts[n][winning[n][o].bidder]
    /\ \A o \in Samples : winning[n][o] # NULL /\ o > 0 =>
         winning[n][o - 1].amount <= winning[n][o].amount

\* What the currency holds back for an account is what the auctions it bids
\* in have recorded, and a name without an auction has nothing recorded.
ReservesExact ==
  /\ \A a \in Bidders :
       reserved[a] = SumFunction([n \in Nodes |-> reservedAmounts[n][a]])
  /\ \A n \in Nodes : started[n] = NULL => reservedAmounts[n] = NoReserves

\* A name gets a lease or a token only against payment of a bid of its own,
\* in the step that ends its auction, and never a token without a lease.  The
\* token goes to the bidder; if minting fails nobody gets it, and the payment
\* is not undone.
MintedAgainstPayment ==
  [][\A n \in Nodes : holder'[n] # holder[n] \/ n \in leased' \ leased =>
       /\ holder[n] = NULL
       /\ started[n] # NULL /\ started'[n] = NULL
       /\ n \in leased'
       /\ \E o \in Samples :
            /\ holder'[n] \in {winning[n][o].bidder, NULL}
            /\ proceeds' = proceeds + winning[n][o].amount]_auctionVars

\* Every auction comes to an end, and with it every reserve made for it.
AuctionsEnd ==
  \A n \in Nodes :
    started[n] # NULL ~> started[n] = NULL /\ reservedAmounts[n] = NoReserves

=============================================================================
