------------------------------- MODULE DnsServer -------------------------------
(***************************************************************************)
(* The DNS server that runs beside the node: requests handled concurrently *)
(* by HardenedHandler::handle_request over shared counters, caches and the *)
(* response queue.                                                         *)
(*                                                                         *)
(* A request is a process; a step of it touches one shared item, so that   *)
(* a cache read and the write that depends on it are separate steps.       *)
(*                                                                         *)
(* Abstractions.                                                           *)
(*  - Times are remaining lives, counted down by Tick, and the age of a    *)
(*    queued request, counted up to MinWait.                               *)
(*  - The rate limiters (a library) admit or refuse at will.               *)
(*  - The caches (a library) may evict an entry at any time.               *)
(*  - Three or more strikes have the same effect and are counted as three. *)
(*  - A bloom filter is the set of names put into it; metrics and the      *)
(*    contents of answers are left out.                                    *)
(***************************************************************************)
EXTENDS Naturals, Sequences, FiniteSets

CONSTANTS
  Requests,     \* handler invocations that may run at the same time
  Domains,      \* queried names
  Subnets,      \* /24 source networks
  Source,       \* Source[r]: the subnet request r comes from
  MaxInflight,  \* max_inflight
  MinWait,      \* min_response_ms
  FirstTtl,     \* time to live of first_seen
  NegTtl,       \* time to live of neg_cache
  PenaltyTtl,   \* time to live of penalty_cache
  Backoff,      \* Backoff[i]: how long the i-th strike blocks a subnet
  Saturation    \* saturation_count of the bloom filter

ASSUME DnsAssumption ==
  /\ Source \in [Requests -> Subnets]
  /\ IsFiniteSet(Requests)
  /\ Domains # {}
  /\ {MaxInflight, MinWait, FirstTtl, NegTtl, PenaltyTtl, Saturation}
       \subseteq Nat \ {0}
  /\ Backoff \in [1..3 -> 1..PenaltyTtl]
  /\ Backoff[1] <= Backoff[2] /\ Backoff[2] <= Backoff[3]

VARIABLES
  pc,          \* where a request is in handle_request, "idle" before and after
  qname,       \* the name it asks for
  age,         \* time since it took its timestamp in ResponseQueue::wait
  readStrikes, \* the strikes record_penalty has read
  inflight,    \* the concurrent-query counter
  strikes,     \* penalty_cache: strikes of a subnet, 0 when absent
  blockedFor,  \* penalty_cache: time until blocked_until
  penaltyFor,  \* penalty_cache: remaining life of the entry
  firstFor,    \* first_seen: remaining life, 0 when absent
  negFor,      \* neg_cache: remaining life, 0 when absent
  channel,     \* the channel from wait() to the queue task
  queue,       \* the queue task's VecDeque
  bloom,       \* the two filters and primary_count
  zone,        \* names that have records at the best block
  absences     \* history: lookups that found a name absent, counted to 2

cacheVars == <<strikes, blockedFor, penaltyFor, firstFor, negFor>>
queueVars == <<channel, queue>>
dnsVars == <<pc, qname, age, readStrikes, inflight, cacheVars, queueVars, bloom,
             zone, absences>>

\* Holding an InFlightGuard.
Guarded == {"admitted", "strike", "unlimited", "checked", "missed", "stamped",
            "waiting", "lookup", "absent", "first", "second", "promoted",
            "recorded", "leaving"}

DnsInit ==
  /\ pc = [r \in Requests |-> "idle"]
  /\ qname \in [Requests -> {CHOOSE d \in Domains : TRUE}]
  /\ age = [r \in Requests |-> 0]
  /\ readStrikes = [r \in Requests |-> 0]
  /\ inflight = 0
  /\ strikes = [s \in Subnets |-> 0]
  /\ blockedFor = [s \in Subnets |-> 0]
  /\ penaltyFor = [s \in Subnets |-> 0]
  /\ firstFor = [d \in Domains |-> 0]
  /\ negFor = [d \in Domains |-> 0]
  /\ channel = <<>>
  /\ queue = <<>>
  /\ bloom = [primary |-> {}, secondary |-> {}, count |-> 0]
  /\ zone = {}
  /\ absences = [d \in Domains |-> 0]

\* Request r goes on from one point of the handler to the next.
Goto(r, from, to) == pc[r] = from /\ pc' = [pc EXCEPT ![r] = to]

-----------------------------------------------------------------------------
(* Admission.                                                              *)

localVars == <<qname, age, readStrikes>>

\* Mutant of Begin: the comparison lets one more in.
BeginOneMore(r, d) ==
  /\ Goto(r, "idle", IF inflight > MaxInflight THEN "over" ELSE "admitted")
  /\ qname' = [qname EXCEPT ![r] = d]
  /\ inflight' = inflight + 1
  /\ UNCHANGED <<age, readStrikes, cacheVars, queueVars, bloom, zone, absences>>

\* fetch_add, and the comparison of the value it returned.
Begin(r, d) ==
  /\ Goto(r, "idle", IF inflight >= MaxInflight THEN "over" ELSE "admitted")
  /\ qname' = [qname EXCEPT ![r] = d]
  /\ inflight' = inflight + 1
  /\ UNCHANGED <<age, readStrikes, cacheVars, queueVars, bloom, zone, absences>>

\* The handler returns: fetch_sub by the refused request itself, or by the
\* InFlightGuard of an admitted one.
Leave(r) ==
  /\ Goto(r, pc[r], "idle")
  /\ pc[r] \in {"over", "leaving"}
  /\ inflight' = inflight - 1
  /\ qname' = [qname EXCEPT ![r] = CHOOSE d \in Domains : TRUE]
  /\ age' = [age EXCEPT ![r] = 0]
  /\ readStrikes' = [readStrikes EXCEPT ![r] = 0]
  /\ UNCHANGED <<cacheVars, queueVars, bloom, zone, absences>>

\* Steps 2 to 4: an ANY query, or refused by a source or response limiter.
RefuseEarly(r) ==
  /\ Goto(r, "admitted", "leaving")
  /\ UNCHANGED <<localVars, inflight, cacheVars, queueVars, bloom, zone, absences>>

\* Step 5: refused by the zone limiter; record_penalty reads the cache.
ZoneLimited(r) ==
  /\ Goto(r, "admitted", "strike")
  /\ readStrikes' = [readStrikes EXCEPT ![r] = strikes[Source[r]]]
  /\ UNCHANGED <<qname, age, inflight, cacheVars, queueVars, bloom, zone, absences>>

\* Mutant of RecordPenalty: an entry that is there keeps its time to live.
RecordPenaltyInPlace(r) ==
  LET n == IF readStrikes[r] = 3 THEN 3 ELSE readStrikes[r] + 1 IN
  /\ Goto(r, "strike", "leaving")
  /\ strikes' = [strikes EXCEPT ![Source[r]] = n]
  /\ blockedFor' = [blockedFor EXCEPT ![Source[r]] = Backoff[n]]
  /\ penaltyFor' = [penaltyFor EXCEPT ![Source[r]] = IF @ > 0 THEN @ ELSE PenaltyTtl]
  /\ UNCHANGED <<localVars, inflight, firstFor, negFor, queueVars, bloom, zone,
                 absences>>

\* record_penalty writes one strike more than it has read.
RecordPenalty(r) ==
  LET n == IF readStrikes[r] = 3 THEN 3 ELSE readStrikes[r] + 1 IN
  /\ Goto(r, "strike", "leaving")
  /\ strikes' = [strikes EXCEPT ![Source[r]] = n]
  /\ blockedFor' = [blockedFor EXCEPT ![Source[r]] = Backoff[n]]
  /\ penaltyFor' = [penaltyFor EXCEPT ![Source[r]] = PenaltyTtl]
  /\ UNCHANGED <<localVars, inflight, firstFor, negFor, queueVars, bloom, zone,
                 absences>>

PassLimits(r) ==
  /\ Goto(r, "admitted", "unlimited")
  /\ UNCHANGED <<localVars, inflight, cacheVars, queueVars, bloom, zone, absences>>

\* Step 5a, is_penalised.
PenaltyCheck(r) ==
  /\ Goto(r, "unlimited",
          IF blockedFor[Source[r]] > 0 THEN "leaving" ELSE "checked")
  /\ UNCHANGED <<localVars, inflight, cacheVars, queueVars, bloom, zone, absences>>

\* Mutant of NegativeCheck: a hit prolongs the entry (time to idle).
NegativeCheckProlonging(r) ==
  /\ Goto(r, "checked", IF negFor[qname[r]] > 0 THEN "leaving" ELSE "missed")
  /\ negFor' = [negFor EXCEPT ![qname[r]] = IF @ > 0 THEN NegTtl ELSE 0]
  /\ UNCHANGED <<localVars, inflight, strikes, blockedFor, penaltyFor, firstFor,
                 queueVars, bloom, zone, absences>>

\* Steps 6 and 7: a hit is answered with NXDOMAIN at once.  The result of the
\* bloom filter's check is not used.
NegativeCheck(r) ==
  /\ Goto(r, "checked", IF negFor[qname[r]] > 0 THEN "leaving" ELSE "missed")
  /\ UNCHANGED <<localVars, inflight, cacheVars, queueVars, bloom, zone, absences>>

\* Steps 9 and 10: the storage limiter, or a label that is too long.
RefuseLate(r) ==
  /\ Goto(r, "missed", "leaving")
  /\ UNCHANGED <<localVars, inflight, cacheVars, queueVars, bloom, zone, absences>>

-----------------------------------------------------------------------------
(* The response queue.  The timestamp is taken before the entry is sent,   *)
(* so entries of concurrent requests may be queued out of time order.      *)

Stamp(r) ==
  /\ Goto(r, "missed", "stamped")
  /\ UNCHANGED <<localVars, inflight, cacheVars, queueVars, bloom, zone, absences>>

\* Mutant of Send: a full channel loses the entry, and the request waits on.
SendBounded(r) ==
  /\ Goto(r, "stamped", "waiting")
  /\ channel' = IF channel = <<>> THEN <<r>> ELSE channel
  /\ UNCHANGED <<localVars, inflight, cacheVars, queue, bloom, zone, absences>>

Send(r) ==
  /\ Goto(r, "stamped", "waiting")
  /\ channel' = Append(channel, r)
  /\ UNCHANGED <<localVars, inflight, cacheVars, queue, bloom, zone, absences>>

QueueRecv ==
  /\ channel # <<>>
  /\ queue' = Append(queue, Head(channel))
  /\ channel' = Tail(channel)
  /\ UNCHANGED <<pc, localVars, inflight, cacheVars, bloom, zone, absences>>

\* The first k entries of the queue are old enough.
Ready(k) == \A i \in 1..k : age[queue[i]] >= MinWait

\* The length of what an interval tick takes off the front.
Due == CHOOSE k \in 0..Len(queue) :
              /\ Ready(k)
              /\ \A j \in 0..Len(queue) : Ready(j) => j <= k

\* Mutant of QueueTick: the front is signalled and stays in the queue.
QueueTickKeeping ==
  /\ Due > 0
  /\ pc' = [r \in Requests |->
              IF \E i \in 1..Due : queue[i] = r THEN "lookup" ELSE pc[r]]
  /\ UNCHANGED <<localVars, inflight, cacheVars, channel, queue, bloom, zone,
                 absences>>

\* One tick of the interval, when it releases anything.
QueueTick ==
  /\ Due > 0
  /\ pc' = [r \in Requests |->
              IF \E i \in 1..Due : queue[i] = r THEN "lookup" ELSE pc[r]]
  /\ queue' = SubSeq(queue, Due + 1, Len(queue))
  /\ UNCHANGED <<localVars, inflight, cacheVars, channel, bloom, zone, absences>>

-----------------------------------------------------------------------------
(* The lookup and the two-query admission to the negative cache.           *)

\* Step 8: the authority answers from the best block; NXDOMAIN when the name
\* has no records there.
Lookup(r) ==
  LET d == qname[r] IN
  /\ Goto(r, "lookup", IF d \in zone THEN "leaving" ELSE "absent")
  /\ absences' = [absences EXCEPT
                    ![d] = IF d \notin zone /\ @ < 2 THEN @ + 1 ELSE @]
  /\ UNCHANGED <<localVars, inflight, cacheVars, queueVars, bloom, zone>>

\* 100 ms have passed, or the runtime API failed: nothing is cached.
LookupFails(r) ==
  /\ Goto(r, "lookup", "leaving")
  /\ UNCHANGED <<localVars, inflight, cacheVars, queueVars, bloom, zone, absences>>

\* Mutant of FirstSeenCheck: one absent answer is enough.
FirstSeenSkipped(r) ==
  /\ Goto(r, "absent", "second")
  /\ UNCHANGED <<localVars, inflight, cacheVars, queueVars, bloom, zone, absences>>

FirstSeenCheck(r) ==
  /\ Goto(r, "absent", IF firstFor[qname[r]] > 0 THEN "second" ELSE "first")
  /\ UNCHANGED <<localVars, inflight, cacheVars, queueVars, bloom, zone, absences>>

FirstSeenInsert(r) ==
  /\ Goto(r, "first", "leaving")
  /\ firstFor' = [firstFor EXCEPT ![qname[r]] = FirstTtl]
  /\ UNCHANGED <<localVars, inflight, strikes, blockedFor, penaltyFor, negFor,
                 queueVars, bloom, zone, absences>>

Promote(r) ==
  /\ Goto(r, "second", "promoted")
  /\ negFor' = [negFor EXCEPT ![qname[r]] = NegTtl]
  /\ UNCHANGED <<localVars, inflight, strikes, blockedFor, penaltyFor, firstFor,
                 queueVars, bloom, zone, absences>>

\* DoubleBloom::set.  At saturation the filters change places and the one
\* that was just written is cleared.
BloomSet(b, d) ==
  IF b.count + 1 >= Saturation
  THEN [primary |-> b.secondary, secondary |-> {}, count |-> 0]
  ELSE [b EXCEPT !.primary = @ \cup {d}, !.count = @ + 1]

RecordInBloom(r) ==
  /\ Goto(r, "promoted", "recorded")
  /\ bloom' = BloomSet(bloom, qname[r])
  /\ UNCHANGED <<localVars, inflight, cacheVars, queueVars, zone, absences>>

FirstSeenInvalidate(r) ==
  /\ Goto(r, "recorded", "leaving")
  /\ firstFor' = [firstFor EXCEPT ![qname[r]] = 0]
  /\ UNCHANGED <<localVars, inflight, strikes, blockedFor, penaltyFor, negFor,
                 queueVars, bloom, zone, absences>>

-----------------------------------------------------------------------------
(* Time, eviction and the chain.                                           *)

Less(t) == IF t = 0 THEN 0 ELSE t - 1

\* A penalty entry that has lived its life is gone, strikes, block and all.
Tick ==
  /\ age' = [r \in Requests |->
               IF pc[r] \in {"stamped", "waiting"} /\ age[r] < MinWait
               THEN age[r] + 1 ELSE age[r]]
  /\ blockedFor' = [s \in Subnets |->
                      IF penaltyFor[s] <= 1 THEN 0 ELSE Less(blockedFor[s])]
  /\ penaltyFor' = [s \in Subnets |-> Less(penaltyFor[s])]
  /\ strikes' = [s \in Subnets |-> IF penaltyFor[s] <= 1 THEN 0 ELSE strikes[s]]
  /\ firstFor' = [d \in Domains |-> Less(firstFor[d])]
  /\ negFor' = [d \in Domains |-> Less(negFor[d])]
  /\ UNCHANGED <<pc, qname, readStrikes, inflight, queueVars, bloom, zone, absences>>

\* A full cache drops an entry of its choice.
Evict ==
  /\ \/ \E d \in Domains :
          /\ negFor' = [negFor EXCEPT ![d] = 0]
          /\ UNCHANGED <<strikes, blockedFor, penaltyFor, firstFor>>
     \/ \E d \in Domains :
          /\ firstFor' = [firstFor EXCEPT ![d] = 0]
          /\ UNCHANGED <<strikes, blockedFor, penaltyFor, negFor>>
     \/ \E s \in Subnets :
          /\ strikes' = [strikes EXCEPT ![s] = 0]
          /\ blockedFor' = [blockedFor EXCEPT ![s] = 0]
          /\ penaltyFor' = [penaltyFor EXCEPT ![s] = 0]
          /\ UNCHANGED <<firstFor, negFor>>
  /\ UNCHANGED <<pc, localVars, inflight, queueVars, bloom, zone, absences>>

\* A new best block gives a name its first record, or takes its last.
NewBlock ==
  /\ \E d \in Domains : zone' \in {zone \cup {d}, zone \ {d}}
  /\ UNCHANGED <<pc, localVars, inflight, cacheVars, queueVars, bloom, absences>>

\* The steps of handle_request after its first.
Handle(r) ==
  \/ Leave(r)
  \/ RefuseEarly(r)
  \/ ZoneLimited(r)
  \/ RecordPenalty(r)
  \/ PassLimits(r)
  \/ PenaltyCheck(r)
  \/ NegativeCheck(r)
  \/ RefuseLate(r)
  \/ Stamp(r)
  \/ Send(r)
  \/ Lookup(r)
  \/ LookupFails(r)
  \/ FirstSeenCheck(r)
  \/ FirstSeenInsert(r)
  \/ Promote(r)
  \/ RecordInBloom(r)
  \/ FirstSeenInvalidate(r)

DnsNext ==
  \/ \E r \in Requests, d \in Domains : Begin(r, d)
  \/ \E r \in Requests : Handle(r)
  \/ QueueRecv
  \/ QueueTick
  \/ Tick
  \/ Evict
  \/ NewBlock

DnsSpec == DnsInit /\ [][DnsNext]_dnsVars

\* The executor polls every task that is ready, select! takes either branch
\* of the queue task, and time passes.  Clients, evictions and blocks owe
\* nothing.
DnsFairness ==
  /\ \A r \in Requests : WF_dnsVars(Handle(r))
  /\ WF_dnsVars(QueueRecv)
  /\ WF_dnsVars(QueueTick)
  /\ WF_dnsVars(Tick)

DnsFairSpec == DnsSpec /\ DnsFairness

-----------------------------------------------------------------------------
(* Properties.                                                             *)

Counted == {r \in Requests : pc[r] # "idle"}

\* The in-flight counter is the number of requests inside the handler, however
\* arrivals and departures interleave, and no more than max_inflight get past
\* the cap although the counter itself may overshoot.
AdmissionExact ==
  /\ inflight = Cardinality(Counted)
  /\ Cardinality({r \in Requests : pc[r] \in Guarded}) <= MaxInflight

\* A request that waits is in the channel or the queue exactly once, and
\* nobody else is: no wake-up is lost and none is sent to a request that has
\* moved on.
WaitersQueued ==
  LET line == channel \o queue IN
  /\ \A r \in Requests :
       (pc[r] = "waiting") <=> (\E i \in 1..Len(line) : line[i] = r)
  /\ \A i, j \in 1..Len(line) : line[i] = line[j] => i = j

\* A name gets into the negative cache only after two lookups have found it
\* absent, also when the lookups run at the same time and the first-seen
\* entry expires, is evicted or is invalidated between its read and its use.
NegativeConfirmedTwice ==
  \A d \in Domains : negFor[d] > 0 => absences[d] = 2

\* A request of subnet s writes a strike counted from fewer strikes than the
\* subnet has by now: others were recorded since record_penalty read them.
StaleStrike(s) ==
  \E r \in Requests :
    /\ pc[r] = "strike" /\ pc'[r] = "leaving"
    /\ Source[r] = s
    /\ readStrikes[r] < strikes[s]

\* The block of a subnet runs out with time and is never cut short, except in
\* two ways: the cache evicts the entry, or record_penalty, which reads and
\* writes it in two steps, overwrites it with a strike that was counted
\* before others were.  In particular the time to live of the entry ends no
\* block, and a strike that lost no race never shortens the one that is
\* running.
BlocksRunOut ==
  [][\A s \in Subnets :
       blockedFor'[s] < blockedFor[s] =>
         \/ Tick /\ blockedFor'[s] = blockedFor[s] - 1
         \/ Evict /\ penaltyFor'[s] = 0
         \/ StaleStrike(s)]_dnsVars

\* Every request that enters handle_request leaves it, and gives its place in
\* the in-flight count back, however many others wait in the queue.
RequestsEnd ==
  \A r \in Requests : pc[r] # "idle" ~> pc[r] = "idle"

\* Once a name has records for good, the server stops answering NXDOMAIN for
\* it from the negative cache, however often it is asked, and also if lookups
\* that began before the records were there put it into the cache afterwards.
StaleNegativeEnds ==
  \A d \in Domains : <>[](d \in zone) => <>[](negFor[d] = 0)

=============================================================================
