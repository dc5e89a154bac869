# Verification of the Polkadot Name System

TLA+ models of the PNS pallets as the runtime composes them and of the DNS
server that runs beside the node, TLC runs on small instances, and TLAPS proofs
for every value of the constants.

## The system

| Part | State | Operations | Module |
|---|---|---|---|
| nft | `Tokens`, `TokensByOwner`, class totals | mint, transfer, burn, called by the registry | NftLedger; owner and children counter in PnsStorage |
| registry | `RuntimeOrigin`, `SubNames`, `AccountToSubnames`, `SubnameRecords`, `OfferedToAccount`, `Official` | `mint_subname`, `do_transfer`, `do_burn`, `clear_subnames`, subname offers, `burn`, `set_official` | PnsRegistry |
| registrar | `RegistrarInfos`, `ReservedList`, `OwnerToPrimaryName`, `OfferedNames` | register (with its three forms of `reject_offer`), renew, transfer, release, subdomain calls, `accept_offered_name`, reserved names | PnsRegistrar |
| resolvers | `Records`, `Texts` | `set_record`, `set_text`, SS58 writes, clearing | PnsResolvers |
| marketplace | `Listings` | create, cancel, buy, buy as a gift | PnsMarketplace |
| runtime | the pallets over one clock | any call, by any account, in any order | Pns |
| price oracle, payments | balances, prices | fees burned by register and renew, sales | PnsPayments |
| redeem codes, origin | nonces, managers, the open flag | `mint_redeem`, `name_redeem`, `name_redeem_any`, manager calls | PnsRedeem, PnsOrigin |
| auction | auctions, reserves | bid, sample, end, settle | NameAuction |
| labels | none | from a text to a node, in two ways | PnsLabels |
| record types | none | conversions between two enums and the codes | RecordTypes |
| runtime API, JSON-RPC, HTTP | the best block | views, reading and stamping | PnsViews, PnsReaders |
| lookup, DNS authority | `Records` by type | what clients are told | DnsRecords, DnsAuthority |
| DNS server | in-flight counter, penalty, first-seen and negative caches, bloom filter, response queue | `handle_request` | DnsServer |

The registrar drives the registry, the registry drives the nft ledger and the
resolver's chain-managed records, and the marketplace drives the registrar. The
same fact is stored several times: who owns a name is in `Tokens`,
`OwnerToPrimaryName`, `AccountToSubnames` and the SS58 record; a subname is in
four tables of the registry and counted in its parent's token. Every call keeps
these copies in step by hand, and leases end without any call running. Whether
some order of calls makes the copies disagree is what the pallet modules ask.
The DNS server is concurrent: requests share counters and caches that are read
and written in separate steps.

## Modules

- `PnsStorage`: all storage items as variables, `Init` (the genesis preset), the
  type invariant, the four expiry comparisons and the one-name test.
- `PnsResolvers`, `PnsRegistry`, `PnsRegistrar`, `PnsMarketplace`: one action per
  call. A call that returns an error changes nothing, so an action is the
  successful path and its guards are the checks on that path.
- `Pns`: the composition. Each extrinsic is one step.
- `NameLease`: the abstract contract: a name is free or held until a date; until
  the grace period is over it can be handed on, given up or extended, but not
  taken. It hides who calls. `HolderDecides` in `PnsProperties` adds that: before
  the lease has lapsed it ends or moves only by a call its holder signed, or by
  the sale of the holder's listing. `LeaseContract` is both together.
- `PnsProperties`: what the system promises.
- `NftLedger`: the ledger alone, from genesis on, with its owner index, its
  totals and the official account.
- `PnsPayments`: `Pns` with balances; every call that pays is the call of `Pns`
  conjoined with its payment. A fee that cannot be paid disables the call. The
  resolver's and the managers' calls move no money and are left out.
- `PnsOrigin`, `PnsRedeem`: the composition of the registrar's mock runtime, in
  which redeem codes and a closable registrar stand beside registration. Register,
  renew, transfer and `offer_subdomain` ask whether the registrar is open
  (`OpenCall`); the other calls of owners and holders do not (`OwnerCall`).
- `NameAuction`: `auction.rs`, which `lib.rs` does not include. Lease and token are
  given out after the payment, and minting the token may fail without undoing it.
- `PnsViews`: the runtime API's methods as operators over the storage of `Pns`.
  `PnsReaders`: a server that asks for the best block and then reads the state at
  it while blocks arrive.
- `PnsLabels`: texts as sequences over a few characters; `Label` and
  `parse_name_to_node` side by side.
- `RecordTypes`: the conversion tables. `DnsRecords`: who writes records of which
  type. `DnsAuthority`: lookup, JSON-RPC by code, and the DNS answers.
- `DnsServer`: requests as processes; a step touches one shared item.
- `PnsIndexProofs`, `PnsTreeProofs`, `PnsResolveProofs`, `PnsCompositionProofs`
  (payments and redeem codes), `AuctionProofs`, `NameDataProofs` (the ledger, texts,
  record types and records), `DnsProofs` (the server): theorems, and the inductive
  invariants they rest on. `FiniteSums`: lemmas about sums over finite sets.
- `MCPns`, `MCNft`, `MCPayments`, `MCRedeem`, `MCAuction`, `MCReaders`,
  `MCLabels`, `MCRecords`, `MCDns`: finite instances.

A definition named in a comment as a mutant is a deliberately wrong variant of
the definition below it, and is not used by the specification.

Abstractions. In `Pns` node hashes are model values and hashing is injective; a
lease is its expiry; a record is the account that wrote it; an absent entry is
`NULL`. Money, labels and record types each have a module of their own that keeps
what they need and drops the rest: `DnsRecords` knows a name by whether somebody
may write its records, and a content by the readings (an IPv4 address, a name)
that succeed on its bytes. Events and weights are left out. In `DnsServer` times
are remaining lives counted down by `Tick`, so no clock needs a bound.

## Runs

| Run | Instance | Shows |
|---|---|---|
| leases | 3 accounts, 2 names (one reserved at genesis), 2 subnames, capacity 1, duration 2, grace 1, time to 4; official account, reserved names and records change | subname tables, children counter, indexes and SS58 records of subnames agree; records never outlive their writer's ownership; a name without a lease cannot be looked up |
| market | 4 accounts, 2 names, 1 subname, duration 1, grace 1, time to 3, listings and gifts | one name per account, primary-name index, clean handover, the lease contract and who decides; only an old gift diverts what a name resolves to; the dashboard misses nothing |
| ledger | 3 accounts, 4 tokens, 2 classes, totals to 3 | owner index, totals and official account stay exact, up to the largest total |
| payments | 3 accounts, 2 names, 1 subname, 2 price tiers, duration 1, grace 0, time to 2 | money is conserved, every lease is paid for at the price of the moment, balances grow by sales only |
| redeem_codes | 3 accounts, 2 names (one reserved), 1 subname, duration 1, grace 1, time to 3 | the lease contract and one name per account with redeem codes; a closed registrar leases only against nonces, and a nonce buys one new lease and touches no other |
| auction | 2 bidders, 2 names, ending period 3, samples of 2, blocks to 6 | samples have winners, winning bids are reserved, reserves add up, lease and token are given out against payment; auctions end |
| read_stamps | blocks arriving during a request | an answer over JSON-RPC is that of the block stamped on it |
| spelling | texts of up to 3 of 5 characters, labels of up to 2 | names resolve, and stay reserved, in every spelling |
| dns_answers | 1 name, 1 subname, 11 types, 12 codes, 2 records at once | NXDOMAIN means no records at all; codes 65280 and 65290 carry what the chain wrote; what is stored comes back |
| dns | 3 requests, 1 name, 1 subnet, room for 2 | admission counter, response queue, two-query negative cache, what can cut a penalty short; every request and every stale negative answer ends |
| lapsed_owner | 3 accounts, 2 names, 1 subname | a violation: see the next section |
| old_gift | the instance of market | a violation: see the next section |

Bounds. The leases instance lets a name be registered, lapse, be taken over and
be renewed within `MaxTime`; two names allow an account to get a second one. Its
three accounts are a parent's owner, a holder of subnames and the official account,
which cannot register; in market four are seller, buyer, recipient and the official
account. Capacity 1 with two subnames of one name makes the limit bind. Where the
official account does not change the others are interchangeable, hence the symmetry
sets (used with safety properties only). In `dns` the third request meets the cap, an entry of the
negative cache can be hit again after time has passed, and a second strike falls
into the life of the first; `Saturation` is 1, because no answer depends on the
bloom filter. `MaxTime` bounds the chain's clock in the guard of `Tick`; a
bounded chain may stop when every lease has run out, so the pallet runs do not
check for deadlock. The DNS, ledger and auction runs do. `spelling` has labels
below, at and above the longest length, and texts with no, one and two dots; the
code's 63 is scaled to 2. `dns_answers` has a type for the A, AAAA, TXT, RPC and
fall-through arms of `pns_record_to_dns`, both chain-managed types, and Unknown
types with and without the code of a named one; two records at once show one
beside another. CNAME, NS, MX and SRV differ from A only in what they need of
the content.

Fairness. The pallet specification has none: users owe no calls. `DnsFairSpec`
assumes weak fairness of each handler (the executor polls ready tasks, and the
lookup has a 100 ms timeout), of both branches of the queue task's `select!`, and
of the passing of time. Arrivals, evictions and blocks are not fair. `FairAuction`
assumes that blocks keep coming, that a block runs its hook to the end and that
the randomness keeps learning new seeds. Nobody owes a bid.

### Where the code and its documents differ

The run `lapsed_owner` checks a comment of `register` (registrar.rs:397), "remove
the stale entry so the owner can register anew", and finds it violated: the lapsed
name is still in `AccountToSubnames`, so the next check refuses.

The run `old_gift` checks a sentence of STORAGE_AND_RPC.md:100, "The SS58 record
(65280) is protected — only the name owner can set it, and it cannot be overwritten
by anyone else", as `NamesResolveToOwner`, and finds it violated: a name is bought as
a gift, burned or left to lapse by its recipient and registered by somebody else;
`accept_offered_name` then asks for the `OfferedNames` entry and the lease only, and
points SS58 and the recipient's canonical name at a name whose token the recipient
does not have. `DivertedByOldGiftOnly` (run market, and proved) says that this is
the only way.

The properties of the passing runs are stated so that they hold with what the code
does.

These further statements differ from the code the models translate. No run of
the project checks them; each follows from the definitions that model the call.

| Statement | Where | What the code does |
|---|---|---|
| `AccountToSubnames` lists what an account holds | registry.rs:72, STORAGE_AND_RPC.md:142 | a transfer leaves the name under the account it was minted to |
| only the owner of the parent offers subnames | registrar.rs:588 | the call goes by `OwnerToPrimaryName`, which `burn` leaves in place |
| the recipient of an offered name holds its token | registrar.rs:352 | the entry survives a burn and a take-over |
| subnames are cleared when the parent expires | src/README.md:173 | they are cleared by the next call that mints, moves or burns the name |
| a stale listing cannot be bought | pns-marketplace/src/lib.rs:150 | it is good again if the seller registers the name a second time |
| a bloom filter is always active | dns_server.rs:78 | the insertion that saturates the primary leaves both filters empty |
| penalties back off exponentially | dns_server.rs:180 | a concurrent strike that read an older count shortens the block |
| reserved names cannot be registered | registrar.rs:288 | a redeem code gives one out |
| codes for any name take long names only | redeem_code.rs:233 | one character is enough |
| redeem calls are for managers | redeem_code.rs:26 | only `mint_redeem` asks |
| `last_block` is that of the last registration or renewal | pns-types/src/lib.rs:65 | `renew` does not write it |
| only the current owner renews | registrar.rs:473 | the call goes by `OwnerToPrimaryName`: a former owner with a stale entry renews the lease of the new one, and pays for it. `LeasesArePaid` therefore does not say who pays |
| a gift does not resolve before it is accepted | pns-types/src/lib.rs:109 | `lookup` does not look at `OfferedNames` |
| `get_listing` shows active listings | STORAGE_AND_RPC.md:209 | it shows expired and stale ones, of names that were burned too; `primaryName` and the pending offers of a dashboard also outlive a burn |
| the dashboard lists subnames | pns-types/src/lib.rs:127 | canonical names are in the same index |
| a record says at which block it was read | pns-types/src/lib.rs:34 | the HTTP server leaves block zero |
| the RPC record is served as A, AAAA or CNAME | authority.rs:33 | a query fetches its own type only, and ANY is refused |
| `register` is for names longer than 10 | registrar.rs:322 | one character is enough |

## Proofs

Each proof module states the inductive invariant it needs, one lemma per kind of
step, and the theorems at its end. The invariants were model-checked on the
instances of the runs before they were proved.

### The pallets

For all constants that satisfy the named assumptions of `PnsStorage` and `Pns`:
subnames are finitely many, `NULL` is outside every type, the inputs are of their
types. The invariants build on one another in the order of this list.

- `TypeCorrect`: `Spec => []TypeOK`. The invariant is not inductive by itself:
  a call takes the parent of a subname sometimes from the caller and sometimes
  from the record, so it is strengthened by `RecordParents` (a record names the
  parent its node was hashed with).
- `IndexesExact`: `Spec => []IndexExact`, inductive given the types. Lemmas say
  what dropping a set of subnames does to the two indexes; each call is then a
  drop, an offer, an acceptance or a rejection.
- `LeaseAlways`, `SubtreeAlways`, `ChildrenAlways`: token, lease, trace, list of
  subnames, records and counter agree. None of the three is inductive alone: the
  counter is decremented for a name that lists the subname only because lists
  follow the records, and a burnt name leaves no orphan only because records name
  their parents. Their conjunction `TreeInv` is. `StepKinds` first reduces the
  calls to nine kinds of steps, of which every later proof takes the cases.
- `HandoverAlwaysClean`: `Spec => CleanHandover`, an action property, from
  `TreeInv` before and after the step.
- `ImplementsLease`: `Spec => LeaseContract`: every step of the pallets is a step
  of `NameLease` or leaves clock, holder and term alone. A renewal may not
  shorten a lease, so `TermInv` adds that no lease runs past one term from now.
  For `HolderDecides` each call that moves or burns a token has its guard on the
  owner cited, and each that mints its guard on the lease; the indexes play no part.
- `OneName`, `OwnersIndexed`: `Spec => [](OwnerIndexed /\ OneNamePerAccount)`. That
  no account holds two names follows from every held name being the holder's
  canonical name; that it holds no subname besides needs `IndexExact`, because the
  one-name test looks at `AccountToSubnames` and not at the records.
- `SubnamesResolve`, `RecordsByOwner`: what SS58 and DNS records say. They share
  `ResolveInv`, which adds that a name nobody owns resolves to nobody.
- `OldGiftsAloneDivert`: `Spec => DivertedByOldGiftOnly`. Every call but
  `accept_offered_name` points a name at its owner or leaves SS58 record and owner
  alone (`Follows`); that one repoints SS58 without a look at the token.
- `DashboardComplete`, `UnlistedSilent`: the views of the runtime API, from the
  invariants above.
- `StampsHold`: `ReadersSpec => []RpcStampsHold`. A block that is there never
  changes, and a request keeps the block it asked for (`ReadInv`).

### Payments

For all constants that satisfy `PaymentsAssumption` besides: finitely many
accounts, tables of prices that are not empty, a protocol fee of at most all.

- `PaymentsImplementPns`: `PaySpec => Spec`. What is proved of `Pns` holds with
  payments.
- `MoneyAlwaysConserved`, `LeasesAlwaysPaid`, `GainsAlwaysSales`. That a fee can be
  looked up, and a price be charged, has to be carried along: a lease is on a
  label that is not empty, and a listing has a price (`PayInv`).

Conservation is about sums over a finite set of accounts. `FiniteSums` proves that
changing a function at one point changes its sum by the difference. The induction
over the set it needs is done by a smallest counterexample, since the library's
induction theorems cannot be used with the installed provers.

### Redeem codes

For all constants that satisfy `OriginAssumption` and `RedeemAssumption` besides
those of `Pns`: any codes, ranges of nonces and managers.

- `RedeemInvariance`: `RedeemSpec => []RedeemInv`. Unlike a call with its payment,
  redeeming is no call of `Pns`: it does not ask the reserved list, writes no SS58
  record and may give less than a term. `RedeemInv` is the conjunction of the
  types, `IndexExact`, `TreeInv`, one name per account and `TermInv`; the steps that
  redeem nothing are steps of `Pns` and keep it by the lemmas above, and
  `ForRedeemCode` gets a lemma for each conjunct.
- `RedeemersHoldOneName`: `RedeemSpec => []OneNamePerAccount`, part of `RedeemInv`.
- `RedeemsImplementLease`: `RedeemSpec => RedeemedLeaseContract`. A redeemed lease
  takes a name that is free or past its grace period, for a part of a term that is
  not empty and not more than the whole (`LeaseTermBounds`); every other step is
  one of the narrower contract of `ImplementsLease`. `HolderDecides` holds as there,
  since a code takes no name that is held and has not lapsed.
- `ClosedLeasesAlwaysCost`: `RedeemSpec => ClosedLeasesCostNonces`, an action
  property that needs only the types: of the calls a closed registrar takes, none
  but the two that use up a nonce writes a lease; and those two write one lease,
  of a name that was free or lapsed, and no other.

### The auction

For all constants that satisfy `AuctionAssumption` and `NullAssumption`: names are
finitely many, periods are not zero.

- `WinnerAlways`, `BidsReserved`: the invariant `NodeInv` of each auction says that
  the samples up to the one of the last block visited have winners, and that the
  leading bid is the highest reserve. Its proof has the arithmetic of blocks and
  samples as lemmas (`SampleFacts`, `ElapsedAfter`).
- `ReservesAlwaysExact`: what is reserved from an account is the sum of what its
  auctions recorded, with `FiniteSums`.
- `MintedOnlyAgainstPayment`: an action property, from the same invariants. The
  token goes to the bidder who paid, or to nobody when minting fails.

### The ledger

For all constants of `NftLedger`:

- `OwnerIndexAlways`, `IssuanceAlways`, `OfficialAlways`: `TokensByOwner` is the
  inverse of `Tokens`, the totals count the tokens, and there is one official
  account. They share one inductive invariant, which adds the types, that
  identifiers not given out have no class, and that nobody but the owner of
  class 0 owns the base token.

### Texts

For all constants that satisfy `LabelsAssumption`: any set of characters with any
map to lower case that keeps the dot, and what is alphanumeric, apart from the
rest; any texts over it, of any length.

- `HeldNamesAlwaysResolve`: `LabelsSpec => []HeldNamesResolve`. The invariant
  `LabelsInv` says of each name given that its text parses to it, and of each text
  put on the reserved list that what it parses to is there. Parsing splits at the
  first dot, labels are lower-cased: the lemmas say where the split of a text is,
  that lower case moves no dot (so all spellings have one split), and that a text
  accepted by `Label` parses to the node `Label` gives (`NameParses`,
  `SubnameParses`). Both are defined without recursion, so no induction is needed.
- `ReservedAlways`: `LabelsSpec => ReservedInEverySpelling`, an action property from
  the same invariant: a registered label has the node of every other spelling of
  it, and `register` asks the list for that node.

### Record types and records

For all constants that satisfy `DnsRecordsAssumption`: any names and subnames (apart
from each other and from the three outcomes of parsing that are no node), any
contents, any types an owner may try to set, any codes a client may ask for.

- `CodesRoundTrip`: the variants of the enum have pairwise different 16-bit codes,
  and each is read back from its code. It is proved from the tables as they are.
- `StoredAlwaysRetrievable`: `RecSpec => []StoredIsRetrievable`, which follows from
  the round trip in every state: what the client's code selects is the variant the
  record was stored under, and the anchors returned besides have other codes.
- `AnchorsAlwaysTheChains`: `RecSpec => []AnchorsAreTheChains`. `RecInv` carries the
  types, that SS58 and ORIGIN hold nothing an owner wrote, that a node without
  either has no records at all, and that a name whose owner may write has an
  ORIGIN record.
- `NxAlwaysMeansNoRecords`: `RecSpec => []NxMeansNoRecords`. A lookup always asks for
  the two anchors too, so one that finds nothing found no anchor, and by `RecInv`
  there is no record of any type.

### The DNS server

For all constants of `DnsServer` (`DnsAssumption`: the backoffs do not fall from
strike to strike and lie within the penalty cache's time to live, there is a name to ask for, requests are finitely
many):

- `NegativeConfirmedTwiceAlways`: `DnsSpec => []NegativeConfirmedTwice`. The cache
  entry alone says nothing of the requests on their way to it. `LookupsBehind`
  adds that a request that found a name absent, and an entry of `first_seen`, each
  stand for a lookup of their own, so that any two of them for a name stand for
  two. Most steps are `Quiet` and handled by one lemma.
- `BlocksAlwaysRunOut`: `DnsSpec => BlocksRunOut`, an action property. `PenaltyInv`
  carries that an entry outlives its block and that the block is no longer than
  the strikes earn; so a strike counted from the entry as it is never shortens it,
  and only one counted from an older entry can.
- `WaitersQueuedAlways`: `DnsSpec => []WaitersQueued`. The lemmas say what appending
  to the channel, taking from it and cutting the queue do to who stands in line.
- `AdmissionExactAlways`: `DnsSpec => []AdmissionExact`, by counting the requests
  that enter and leave; a tick wakes only requests that wait, which is
  `WaitersQueued`.

### Only model-checked

Every safety property of the passing runs has a theorem. What is left is

- liveness (`AuctionsEnd`, `RequestsEnd`, `StaleNegativeEnds`): fairness is outside
  what the prover handles.

## Not modelled

- Choosing CPU cores, starting and configuring the servers, metrics, node
  service: start-up code around libraries, without state of its own.
- A record type that only the DNS library knows makes the conversion panic
  (`ddns.rs:120`); the panic ends a task of the library and is outside the model.
- Rate limiters and caches (libraries) admit, refuse and evict at will.
- `record_penalty` takes the time before it reads the cache; the model takes it
  when it writes. The function does not wait in between.
- Failures inside the runtime API: no view returns an error.
- Minting below a subname, and `Label`'s unused constructors: no call reaches them.
- The template pallet, which has nothing to do with names. The framework pallets
  are external.

The comment above `check_label` lists the hyphen among the legal characters, and
`validate_label` says there are none; both functions refuse it and the model
follows them.
