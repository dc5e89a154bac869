------------------------------- MODULE DnsProofs -------------------------------
(***************************************************************************)
(* The DNS server, for every number of requests, names, subnets and every  *)
(* length of the caches' lives: a name is negatively cached only after two *)
(* lookups, the block of a subnet is cut short only by eviction or a lost  *)
(* race, whoever waits is in the tick queue, and the requests in flight    *)
(* are counted exactly.                                                    *)
(***************************************************************************)
EXTENDS DnsServer, FiniteSetTheorems, TLAPS

\* The items of a sequence that one more is appended to.
LEMMA SeqAppended ==
  ASSUME NEW S, NEW s \in Seq(S), NEW e \in S
  PROVE  /\ Append(s, e) \in Seq(S) /\ Len(Append(s, e)) = Len(s) + 1
         /\ Append(s, e)[Len(s) + 1] = e
         /\ \A i \in 1..Len(s) : Append(s, e)[i] = s[i]
  OBVIOUS

\* The types of the items the arguments below are about.
CacheTypes ==
  /\ pc \in [Requests -> Guarded \cup {"idle", "over"}]
  /\ qname \in [Requests -> Domains]
  /\ readStrikes \in [Requests -> 0..3]
  /\ strikes \in [Subnets -> 0..3]
  /\ blockedFor \in [Subnets -> Nat]
  /\ penaltyFor \in [Subnets -> Nat]
  /\ firstFor \in [Domains -> Nat]
  /\ negFor \in [Domains -> Nat]
  /\ absences \in [Domains -> 0..2]

\* Request r has found its name absent and not yet used what it knows.
Knows(r) == pc[r] \in {"absent", "first"}

\* Why two lookups stand behind an entry of the negative cache.  A request
\* that knows, and an entry of first_seen, each stand for one lookup of their
\* own, so any two of them for a name stand for two lookups.
LookupsBehind ==
  /\ \A r \in Requests : Knows(r) => absences[qname[r]] >= 1
  /\ \A d \in Domains : firstFor[d] > 0 => absences[d] >= 1
  /\ \A r \in Requests :
       Knows(r) /\ firstFor[qname[r]] > 0 => absences[qname[r]] = 2
  /\ \A r, q \in Requests :
       r # q /\ Knows(r) /\ Knows(q) /\ qname[r] = qname[q] => absences[qname[r]] = 2
  /\ \A r \in Requests : pc[r] = "second" => absences[qname[r]] = 2
  /\ NegativeConfirmedTwice

\* A penalty entry lives at least as long as its block, and the block is no
\* longer than the strikes of the entry earn.
PenaltyInv ==
  \A s \in Subnets :
    /\ blockedFor[s] <= penaltyFor[s]
    /\ blockedFor[s] > 0 => strikes[s] > 0 /\ blockedFor[s] <= Backoff[strikes[s]]

-----------------------------------------------------------------------------

\* Less counts down to zero and no further.
LEMMA LessFacts ==
  \A n \in Nat : Less(n) \in Nat /\ (Less(n) > 0 => n > 1 /\ Less(n) = n - 1)
BY DEF Less

\* A step changes the items of the caches as their types say.
LEMMA CacheTypesStep ==
  ASSUME CacheTypes, [DnsNext]_dnsVars PROVE CacheTypes'
<1>1. ASSUME NEW r \in Requests, NEW d \in Domains, Begin(r, d) PROVE CacheTypes'
  BY <1>1 DEF CacheTypes, Begin, Goto, Guarded, cacheVars
<1>2. ASSUME NEW r \in Requests, Leave(r) PROVE CacheTypes'
  <2>1. (CHOOSE d \in Domains : TRUE) \in Domains
    BY DEF CacheTypes
  <2> QED BY <1>2, <2>1 DEF CacheTypes, Leave, Goto, Guarded, cacheVars
<1>3. ASSUME NEW r \in Requests,
             RefuseEarly(r) \/ PassLimits(r) \/ PenaltyCheck(r) \/ NegativeCheck(r)
               \/ RefuseLate(r) \/ Stamp(r) \/ Send(r) \/ LookupFails(r)
               \/ FirstSeenCheck(r) \/ RecordInBloom(r)
      PROVE CacheTypes'
  BY <1>3 DEF CacheTypes, RefuseEarly, PassLimits, PenaltyCheck, NegativeCheck,
       RefuseLate, Stamp, Send, LookupFails, FirstSeenCheck, RecordInBloom, Goto,
       Guarded, cacheVars, localVars
<1>4. ASSUME NEW r \in Requests, ZoneLimited(r) PROVE CacheTypes'
  BY <1>4, DnsAssumption DEF CacheTypes, ZoneLimited, Goto, Guarded, cacheVars
<1>5. ASSUME NEW r \in Requests, RecordPenalty(r) PROVE CacheTypes'
  <2> DEFINE n == IF readStrikes[r] = 3 THEN 3 ELSE readStrikes[r] + 1
  <2>1. n \in 1..3 /\ n \in 0..3 /\ Backoff[n] \in Nat /\ PenaltyTtl \in Nat
    BY DnsAssumption DEF CacheTypes
  <2> HIDE DEF n
  <2>2. /\ strikes' = [strikes EXCEPT ![Source[r]] = n]
        /\ blockedFor' = [blockedFor EXCEPT ![Source[r]] = Backoff[n]]
        /\ penaltyFor' = [penaltyFor EXCEPT ![Source[r]] = PenaltyTtl]
    BY <1>5 DEF RecordPenalty, n
  <2>3. /\ strikes' \in [Subnets -> 0..3]
        /\ blockedFor' \in [Subnets -> Nat]
        /\ penaltyFor' \in [Subnets -> Nat]
    <3>1. strikes' \in [Subnets -> 0..3]
      BY <2>1, <2>2 DEF CacheTypes
    <3>2. blockedFor' \in [Subnets -> Nat]
      BY <2>1, <2>2 DEF CacheTypes
    <3>3. penaltyFor' \in [Subnets -> Nat]
      BY <2>1, <2>2 DEF CacheTypes
    <3> QED BY <3>1, <3>2, <3>3
  <2>4. pc' \in [Requests -> Guarded \cup {"idle", "over"}]
    BY <1>5 DEF CacheTypes, RecordPenalty, Goto, Guarded
  <2>5. UNCHANGED <<qname, readStrikes, firstFor, negFor, absences>>
    BY <1>5 DEF RecordPenalty, localVars
  <2> QED BY <2>3, <2>4, <2>5 DEF CacheTypes
<1>6. ASSUME NEW r \in Requests, Lookup(r) PROVE CacheTypes'
  <2>1. absences' \in [Domains -> 0..2]
    BY <1>6 DEF CacheTypes, Lookup
  <2>2. pc' \in [Requests -> Guarded \cup {"idle", "over"}]
    BY <1>6 DEF CacheTypes, Lookup, Goto, Guarded
  <2>3. UNCHANGED <<qname, readStrikes, cacheVars>>
    BY <1>6 DEF Lookup, localVars
  <2> QED BY <2>1, <2>2, <2>3 DEF CacheTypes, cacheVars
<1>7. ASSUME NEW r \in Requests,
             FirstSeenInsert(r) \/ Promote(r) \/ FirstSeenInvalidate(r)
      PROVE CacheTypes'
  <2>1. FirstTtl \in Nat /\ NegTtl \in Nat
    BY DnsAssumption
  <2> QED
    BY <1>7, <2>1 DEF CacheTypes, FirstSeenInsert, Promote, FirstSeenInvalidate,
         Goto, Guarded, localVars
<1>8. CASE QueueRecv
  BY <1>8 DEF CacheTypes, QueueRecv, cacheVars, localVars
<1>9. CASE QueueTick
  BY <1>9 DEF CacheTypes, QueueTick, Guarded, cacheVars, localVars
<1>10. CASE Tick
  <2>1. pc' = pc /\ qname' = qname /\ readStrikes' = readStrikes /\ absences' = absences
    BY <1>10 DEF Tick
  <2>2. strikes' \in [Subnets -> 0..3]
    BY <1>10 DEF Tick, CacheTypes
  <2>3. blockedFor' \in [Subnets -> Nat] /\ penaltyFor' \in [Subnets -> Nat]
    BY <1>10, LessFacts DEF Tick, CacheTypes
  <2>4. firstFor' \in [Domains -> Nat] /\ negFor' \in [Domains -> Nat]
    BY <1>10, LessFacts DEF Tick, CacheTypes
  <2> QED BY <2>1, <2>2, <2>3, <2>4 DEF CacheTypes
<1>11. CASE Evict
  BY <1>11 DEF CacheTypes, Evict, localVars
<1>12. CASE NewBlock
  BY <1>12 DEF CacheTypes, NewBlock, cacheVars, localVars
<1>13. CASE UNCHANGED dnsVars
  BY <1>13 DEF CacheTypes, dnsVars, cacheVars
<1> QED
  BY <1>1, <1>2, <1>3, <1>4, <1>5, <1>6, <1>7, <1>8, <1>9, <1>10, <1>11, <1>12,
     <1>13 DEF DnsNext, Handle

-----------------------------------------------------------------------------
(* The negative cache.                                                     *)

\* A step that looks nothing up, and in which nobody learns anything and no
\* entry appears in first_seen or the negative cache.
Quiet ==
  /\ absences' = absences
  /\ \A r \in Requests :
       pc'[r] \in {"absent", "first", "second"} => pc'[r] = pc[r] /\ qname'[r] = qname[r]
  /\ \A d \in Domains : firstFor'[d] > 0 => firstFor[d] > 0
  /\ \A d \in Domains : negFor'[d] > 0 => negFor[d] > 0

\* The lookups behind the caches stay behind them in a quiet step.
LEMMA QuietStep ==
  ASSUME CacheTypes, LookupsBehind, Quiet PROVE LookupsBehind'
BY DEF CacheTypes, LookupsBehind, Quiet, Knows, NegativeConfirmedTwice

\* Every step keeps the lookups behind the caches: a lookup is counted when it
\* is made, and first_seen and the negative cache are written by requests that
\* know.
LEMMA LookupsBehindStep ==
  ASSUME CacheTypes, CacheTypes', LookupsBehind, [DnsNext]_dnsVars
  PROVE  LookupsBehind'
<1>1. ASSUME NEW r \in Requests, NEW d \in Domains, Begin(r, d) PROVE Quiet
  BY <1>1 DEF CacheTypes, Quiet, Begin, Goto, cacheVars
<1>2. ASSUME NEW r \in Requests, Leave(r) PROVE Quiet
  BY <1>2 DEF CacheTypes, Quiet, Leave, Goto, cacheVars
<1>3. ASSUME NEW r \in Requests,
             RefuseEarly(r) \/ ZoneLimited(r) \/ PassLimits(r) \/ PenaltyCheck(r)
               \/ NegativeCheck(r) \/ RefuseLate(r) \/ Stamp(r) \/ Send(r)
               \/ LookupFails(r) \/ RecordInBloom(r)
      PROVE Quiet
  <2>1. CASE RefuseEarly(r) \/ ZoneLimited(r) \/ PassLimits(r)
    BY <2>1 DEF CacheTypes, Quiet, RefuseEarly, ZoneLimited, PassLimits, Goto,
         cacheVars, localVars
  <2>2. CASE PenaltyCheck(r) \/ NegativeCheck(r) \/ RefuseLate(r) \/ Stamp(r)
    BY <2>2 DEF CacheTypes, Quiet, PenaltyCheck, NegativeCheck, RefuseLate, Stamp, Goto,
         cacheVars, localVars
  <2>3. CASE Send(r) \/ LookupFails(r) \/ RecordInBloom(r)
    BY <2>3 DEF CacheTypes, Quiet, Send, LookupFails, RecordInBloom, Goto, cacheVars,
         localVars
  <2> QED BY <1>3, <2>1, <2>2, <2>3
<1>4. ASSUME NEW r \in Requests, RecordPenalty(r) PROVE Quiet
  BY <1>4 DEF CacheTypes, Quiet, RecordPenalty, Goto, localVars
<1>5. ASSUME NEW r \in Requests, FirstSeenInvalidate(r) PROVE Quiet
  BY <1>5 DEF CacheTypes, Quiet, FirstSeenInvalidate, Goto, localVars
<1>6. ASSUME QueueRecv PROVE Quiet
  BY <1>6 DEF CacheTypes, Quiet, QueueRecv, cacheVars, localVars
<1>7. ASSUME QueueTick PROVE Quiet
  BY <1>7 DEF CacheTypes, Quiet, QueueTick, cacheVars, localVars
<1>8. ASSUME Tick PROVE Quiet
  <2>1. absences' = absences /\ pc' = pc /\ qname' = qname
    BY <1>8 DEF Tick
  <2>2. \A d \in Domains : /\ firstFor'[d] > 0 => firstFor[d] > 0
                           /\ negFor'[d] > 0 => negFor[d] > 0
    BY <1>8, LessFacts DEF Tick, CacheTypes
  <2> QED BY <2>1, <2>2 DEF Quiet
<1>9. ASSUME Evict PROVE Quiet
  BY <1>9 DEF CacheTypes, Quiet, Evict, localVars
<1>10. ASSUME NewBlock PROVE Quiet
  BY <1>10 DEF CacheTypes, Quiet, NewBlock, cacheVars, localVars
<1>11. ASSUME UNCHANGED dnsVars PROVE Quiet
  BY <1>11 DEF Quiet, dnsVars, cacheVars
<1>12. ASSUME NEW r \in Requests, Lookup(r) PROVE LookupsBehind'
  <2>1. UNCHANGED <<qname, firstFor, negFor>>
    BY <1>12 DEF Lookup, localVars, cacheVars
  <2>2. \A d \in Domains : absences'[d] >= absences[d]
    BY <1>12 DEF Lookup, CacheTypes
  <2>3. \A q \in Requests : q # r => pc'[q] = pc[q]
    BY <1>12 DEF Lookup, Goto, CacheTypes
  <2>4. pc'[r] \in {"leaving", "absent"}
    BY <1>12 DEF Lookup, Goto, CacheTypes
  <2>5. pc'[r] = "absent" =>
          /\ absences'[qname[r]] >= 1
          /\ absences[qname[r]] >= 1 => absences'[qname[r]] = 2
    BY <1>12 DEF Lookup, Goto, CacheTypes
  <2>t. /\ qname \in [Requests -> Domains]
        /\ \A d \in Domains : absences[d] \in 0..2 /\ absences'[d] \in 0..2
    BY DEF CacheTypes
  <2>6. \A d \in Domains : absences[d] = 2 => absences'[d] = 2
    BY <2>t, <2>2
  <2>k. \A q \in Requests : q # r /\ Knows(q)' => Knows(q)
    BY <2>3 DEF Knows
  <2>r. Knows(r)' => pc'[r] = "absent"
    BY <2>4 DEF Knows
  <2>l. \A q \in Requests : Knows(q) => absences[qname[q]] >= 1
    BY DEF LookupsBehind
  <2>7. \A q \in Requests : Knows(q)' => absences'[qname[q]] >= 1
    <3> SUFFICES ASSUME NEW q \in Requests, Knows(q)'
                 PROVE  absences'[qname[q]] >= 1
      OBVIOUS
    <3>1. CASE q = r
      BY <3>1, <2>r, <2>5
    <3>2. CASE q # r
      <4>1. qname[q] \in Domains /\ absences[qname[q]] >= 1
        BY <3>2, <2>k, <2>l, <2>t
      <4> QED BY <4>1, <2>2, <2>t
    <3> QED BY <3>1, <3>2
  <2>8. \A d \in Domains : firstFor[d] > 0 => absences'[d] >= 1
    <3>1. \A d \in Domains : firstFor[d] > 0 => absences[d] >= 1
      BY DEF LookupsBehind
    <3> QED BY <3>1, <2>2, <2>t
  <2>9. \A q \in Requests :
          Knows(q)' /\ firstFor[qname[q]] > 0 => absences'[qname[q]] = 2
    BY <2>3, <2>4, <2>5, <2>6 DEF CacheTypes, LookupsBehind, Knows
  <2>10. \A p, q \in Requests :
           p # q /\ Knows(p)' /\ Knows(q)' /\ qname[p] = qname[q]
             => absences'[qname[p]] = 2
    BY <2>3, <2>4, <2>5, <2>6 DEF CacheTypes, LookupsBehind, Knows
  <2>11. \A q \in Requests : pc'[q] = "second" => absences'[qname[q]] = 2
    BY <2>3, <2>4, <2>6 DEF CacheTypes, LookupsBehind
  <2>12. \A d \in Domains : negFor[d] > 0 => absences'[d] = 2
    BY <2>6 DEF LookupsBehind, NegativeConfirmedTwice
  <2> QED
    BY <2>1, <2>7, <2>8, <2>9, <2>10, <2>11, <2>12
       DEF LookupsBehind, NegativeConfirmedTwice
<1>13. ASSUME NEW r \in Requests, FirstSeenCheck(r) PROVE LookupsBehind'
  <2>1. UNCHANGED <<qname, firstFor, negFor, absences>>
    BY <1>13 DEF FirstSeenCheck, localVars, cacheVars
  <2>2. \A q \in Requests : q # r => pc'[q] = pc[q]
    BY <1>13 DEF FirstSeenCheck, Goto, CacheTypes
  <2>3. /\ pc[r] = "absent"
        /\ pc'[r] \in {"second", "first"}
        /\ pc'[r] = "second" => firstFor[qname[r]] > 0
    BY <1>13 DEF FirstSeenCheck, Goto, CacheTypes
  <2>4. \A q \in Requests : Knows(q)' => Knows(q)
    BY <2>2, <2>3 DEF Knows
  <2>5. Knows(r) /\ (\A q \in Requests :
                       pc'[q] = "second" => pc[q] = "second" \/ q = r)
    BY <2>2, <2>3 DEF Knows
  <2>6. \A q \in Requests : pc'[q] = "second" => absences[qname[q]] = 2
    BY <2>3, <2>5 DEF LookupsBehind
  <2>7. NegativeConfirmedTwice'
    BY <2>1 DEF LookupsBehind, NegativeConfirmedTwice
  <2> QED
    BY <2>1, <2>4, <2>6, <2>7 DEF LookupsBehind
<1>14. ASSUME NEW r \in Requests, FirstSeenInsert(r) PROVE LookupsBehind'
  <2>1. UNCHANGED <<qname, negFor, absences>>
    BY <1>14 DEF FirstSeenInsert, localVars
  <2>2. \A q \in Requests : q # r => pc'[q] = pc[q]
    BY <1>14 DEF FirstSeenInsert, Goto, CacheTypes
  <2>3. pc[r] = "first" /\ pc'[r] = "leaving"
    BY <1>14 DEF FirstSeenInsert, Goto, CacheTypes
  <2>4. \A d \in Domains : d # qname[r] => firstFor'[d] = firstFor[d]
    BY <1>14 DEF FirstSeenInsert, CacheTypes
  <2>5. \A q \in Requests : qname[q] \in Domains
    BY DEF CacheTypes
  <2>6. Knows(r) /\ (\A q \in Requests : Knows(q)' => Knows(q) /\ q # r)
    BY <2>2, <2>3 DEF Knows
  <2>7. \A q \in Requests : Knows(q)' => absences[qname[q]] >= 1
    BY <2>6 DEF LookupsBehind
  <2>8. \A d \in Domains : firstFor'[d] > 0 => absences[d] >= 1
    BY <2>4, <2>6 DEF LookupsBehind
  <2>9. \A q \in Requests :
          Knows(q)' /\ firstFor'[qname[q]] > 0 => absences[qname[q]] = 2
    BY <2>4, <2>5, <2>6 DEF LookupsBehind
  <2>10. \A p, q \in Requests :
           p # q /\ Knows(p)' /\ Knows(q)' /\ qname[p] = qname[q]
             => absences[qname[p]] = 2
    BY <2>6 DEF LookupsBehind
  <2>11. \A q \in Requests : pc'[q] = "second" => absences[qname[q]] = 2
    BY <2>2, <2>3 DEF LookupsBehind
  <2>12. NegativeConfirmedTwice
    BY DEF LookupsBehind
  <2> QED
    BY <2>1, <2>7, <2>8, <2>9, <2>10, <2>11, <2>12
       DEF LookupsBehind, NegativeConfirmedTwice
<1>15. ASSUME NEW r \in Requests, Promote(r) PROVE LookupsBehind'
  <2>1. UNCHANGED <<qname, firstFor, absences>>
    BY <1>15 DEF Promote, localVars
  <2>2. \A q \in Requests : q # r => pc'[q] = pc[q]
    BY <1>15 DEF Promote, Goto, CacheTypes
  <2>3. pc[r] = "second" /\ pc'[r] = "promoted"
    BY <1>15 DEF Promote, Goto, CacheTypes
  <2>4. \A d \in Domains : d # qname[r] => negFor'[d] = negFor[d]
    BY <1>15 DEF Promote, CacheTypes
  <2>5. \A q \in Requests :
          /\ Knows(q)' => Knows(q)
          /\ pc'[q] = "second" => pc[q] = "second"
    BY <2>2, <2>3 DEF Knows
  <2>6. NegativeConfirmedTwice'
    <3>1. absences[qname[r]] = 2 /\ NegativeConfirmedTwice
      BY <2>3 DEF LookupsBehind
    <3> QED BY <2>1, <2>4, <3>1 DEF NegativeConfirmedTwice
  <2>7. \A q \in Requests :
          /\ Knows(q)' => absences[qname[q]] >= 1
          /\ pc'[q] = "second" => absences[qname[q]] = 2
    BY <2>5 DEF LookupsBehind
  <2>8. \A q \in Requests :
          Knows(q)' /\ firstFor[qname[q]] > 0 => absences[qname[q]] = 2
    BY <2>5 DEF LookupsBehind
  <2>9. \A p, q \in Requests :
          p # q /\ Knows(p)' /\ Knows(q)' /\ qname[p] = qname[q]
            => absences[qname[p]] = 2
    BY <2>5 DEF LookupsBehind
  <2> QED
    BY <2>1, <2>6, <2>7, <2>8, <2>9 DEF LookupsBehind
<1> QED
  BY <1>1, <1>2, <1>3, <1>4, <1>5, <1>6, <1>7, <1>8, <1>9, <1>10, <1>11, <1>12,
     <1>13, <1>14, <1>15, QuietStep DEF DnsNext, Handle

\* The caches start empty.
LEMMA CachesInit ==
  ASSUME DnsInit PROVE CacheTypes /\ LookupsBehind /\ PenaltyInv
<1>1. CacheTypes
  <2>1. (CHOOSE d \in Domains : TRUE) \in Domains
    BY DnsAssumption
  <2>2. qname \in [Requests -> Domains]
    BY <2>1 DEF DnsInit
  <2> QED BY <2>2 DEF DnsInit, CacheTypes, Guarded
<1>2. LookupsBehind
  BY DEF DnsInit, LookupsBehind, Knows, NegativeConfirmedTwice
<1>3. PenaltyInv
  BY DEF DnsInit, PenaltyInv
<1> QED BY <1>1, <1>2, <1>3

\* However many requests run and whatever expires or is evicted between their
\* steps, handle_request puts a name into neg_cache only after two lookups
\* have found it absent.
THEOREM NegativeConfirmedTwiceAlways == DnsSpec => []NegativeConfirmedTwice
<1>1. DnsInit => CacheTypes /\ LookupsBehind
  BY CachesInit
<1>2. CacheTypes /\ LookupsBehind /\ [DnsNext]_dnsVars
        => CacheTypes' /\ LookupsBehind'
  BY CacheTypesStep, LookupsBehindStep
<1>3. LookupsBehind => NegativeConfirmedTwice
  BY DEF LookupsBehind
<1> QED BY <1>1, <1>2, <1>3, PTL DEF DnsSpec

-----------------------------------------------------------------------------
(* The penalty cache.                                                      *)

\* Only record_penalty, time and eviction touch the penalty cache.
LEMMA PenaltyTouched ==
  ASSUME [DnsNext]_dnsVars
  PROVE  \/ UNCHANGED <<strikes, blockedFor, penaltyFor>>
         \/ \E r \in Requests : RecordPenalty(r)
         \/ Tick
         \/ Evict
<1>1. ASSUME NEW r \in Requests, Handle(r), ~RecordPenalty(r)
      PROVE  UNCHANGED <<strikes, blockedFor, penaltyFor>>
  BY <1>1 DEF Handle, Leave, RefuseEarly, ZoneLimited, PassLimits, PenaltyCheck,
       NegativeCheck, RefuseLate, Stamp, Send, Lookup, LookupFails, FirstSeenCheck,
       FirstSeenInsert, Promote, RecordInBloom, FirstSeenInvalidate, cacheVars
<1>2. ASSUME \/ \E r \in Requests, d \in Domains : Begin(r, d)
             \/ QueueRecv \/ QueueTick \/ NewBlock \/ UNCHANGED dnsVars
      PROVE  UNCHANGED <<strikes, blockedFor, penaltyFor>>
  BY <1>2 DEF Begin, QueueRecv, QueueTick, NewBlock, dnsVars, cacheVars
<1> QED
  BY <1>1, <1>2 DEF DnsNext

\* Every step keeps an entry alive for as long as its block, and the block
\* within what the entry's strikes earn.
LEMMA PenaltyStep ==
  ASSUME CacheTypes, PenaltyInv, [DnsNext]_dnsVars
  PROVE  PenaltyInv'
<1>1. ASSUME UNCHANGED <<strikes, blockedFor, penaltyFor>>
      PROVE  PenaltyInv'
  BY <1>1 DEF PenaltyInv
<1>2. ASSUME NEW r \in Requests, RecordPenalty(r) PROVE PenaltyInv'
  <2> DEFINE n == IF readStrikes[r] = 3 THEN 3 ELSE readStrikes[r] + 1
  <2>1. n \in 1..3 /\ Backoff[n] \in 1..PenaltyTtl /\ PenaltyTtl \in Nat
    BY DnsAssumption DEF CacheTypes
  <2> HIDE DEF n
  <2>2. /\ strikes' = [strikes EXCEPT ![Source[r]] = n]
        /\ blockedFor' = [blockedFor EXCEPT ![Source[r]] = Backoff[n]]
        /\ penaltyFor' = [penaltyFor EXCEPT ![Source[r]] = PenaltyTtl]
    BY <1>2 DEF RecordPenalty, n
  <2> QED
    BY <2>1, <2>2 DEF CacheTypes, PenaltyInv
<1>3. CASE Tick
  <2> SUFFICES ASSUME NEW s \in Subnets
               PROVE  /\ blockedFor'[s] <= penaltyFor'[s]
                      /\ blockedFor'[s] > 0 =>
                           strikes'[s] > 0 /\ blockedFor'[s] <= Backoff[strikes'[s]]
    BY DEF PenaltyInv
  <2>1. /\ blockedFor'[s] = IF penaltyFor[s] <= 1 THEN 0 ELSE Less(blockedFor[s])
        /\ penaltyFor'[s] = Less(penaltyFor[s])
        /\ strikes'[s] = IF penaltyFor[s] <= 1 THEN 0 ELSE strikes[s]
    BY <1>3 DEF Tick
  <2>2. blockedFor[s] \in Nat /\ penaltyFor[s] \in Nat /\ strikes[s] \in 0..3
    BY DEF CacheTypes
  <2>3. /\ blockedFor[s] <= penaltyFor[s]
        /\ blockedFor[s] > 0 => strikes[s] \in 1..3 /\ blockedFor[s] <= Backoff[strikes[s]]
    BY <2>2 DEF PenaltyInv
  <2>4. strikes[s] \in 1..3 => Backoff[strikes[s]] \in Nat
    BY DnsAssumption
  <2> QED
    BY <2>1, <2>2, <2>3, <2>4 DEF Less
<1>4. CASE Evict
  <2>1. CASE strikes' = strikes /\ blockedFor' = blockedFor /\ penaltyFor' = penaltyFor
    BY <2>1 DEF PenaltyInv
  <2>2. ASSUME NEW s \in Subnets, strikes' = [strikes EXCEPT ![s] = 0],
               blockedFor' = [blockedFor EXCEPT ![s] = 0],
               penaltyFor' = [penaltyFor EXCEPT ![s] = 0]
        PROVE  PenaltyInv'
    BY <2>2 DEF CacheTypes, PenaltyInv
  <2> QED BY <1>4, <2>1, <2>2 DEF Evict
<1> QED
  BY <1>1, <1>2, <1>3, <1>4, PenaltyTouched

\* What a step does to a block: if it gets shorter, the step is the passing of
\* time, an eviction, or a strike counted from fewer strikes than there are.
LEMMA BlockStep ==
  ASSUME CacheTypes, PenaltyInv, [DnsNext]_dnsVars, NEW s \in Subnets,
         blockedFor'[s] < blockedFor[s]
  PROVE  \/ Tick /\ blockedFor'[s] = blockedFor[s] - 1
         \/ Evict /\ penaltyFor'[s] = 0
         \/ StaleStrike(s)
<1>1. /\ blockedFor[s] \in Nat /\ penaltyFor[s] \in Nat /\ strikes[s] \in 1..3
      /\ blockedFor[s] <= penaltyFor[s] /\ blockedFor[s] <= Backoff[strikes[s]]
  <2>1. blockedFor[s] \in Nat /\ blockedFor'[s] \in Nat
    BY CacheTypesStep DEF CacheTypes
  <2>2. blockedFor[s] > 0
    BY <2>1
  <2> QED BY <2>2 DEF CacheTypes, PenaltyInv
<1>2. ASSUME NEW r \in Requests, RecordPenalty(r) PROVE StaleStrike(s)
  <2> DEFINE n == IF readStrikes[r] = 3 THEN 3 ELSE readStrikes[r] + 1
  <2>1. readStrikes[r] \in 0..3 /\ n \in 1..3 /\ readStrikes[r] <= n
    BY DEF CacheTypes
  <2>2. /\ pc[r] = "strike" /\ pc'[r] = "leaving"
        /\ blockedFor' = [blockedFor EXCEPT ![Source[r]] = Backoff[n]]
    BY <1>2 DEF RecordPenalty, Goto, CacheTypes
  <2>3. Source[r] = s /\ blockedFor'[s] = Backoff[n]
    BY <1>1, <2>2 DEF CacheTypes
  <2> HIDE DEF n
  <2>4. \A i, j \in 1..3 : i <= j => Backoff[i] \in Nat /\ Backoff[i] <= Backoff[j]
    <3>1. Backoff[1] \in Nat /\ Backoff[2] \in Nat /\ Backoff[3] \in Nat
      BY DnsAssumption
    <3>2. Backoff[1] <= Backoff[2] /\ Backoff[2] <= Backoff[3]
      BY DnsAssumption
    <3>3. \A i \in 1..3 : i = 1 \/ i = 2 \/ i = 3
      OBVIOUS
    <3> QED BY <3>1, <3>2, <3>3
  <2>5. Backoff[n] < Backoff[strikes[s]]
    BY <1>1, <2>1, <2>3, <2>4
  <2>6. n < strikes[s]
    BY <1>1, <2>1, <2>4, <2>5
  <2>7. readStrikes[r] < strikes[s]
    BY <1>1, <2>1, <2>6
  <2> QED BY <2>2, <2>3, <2>7 DEF StaleStrike
<1>3. ASSUME Tick PROVE blockedFor'[s] = blockedFor[s] - 1
  <2>1. blockedFor'[s] = IF penaltyFor[s] <= 1 THEN 0 ELSE Less(blockedFor[s])
    BY <1>3 DEF Tick
  <2> QED BY <1>1, <2>1 DEF Less
<1>4. ASSUME Evict PROVE penaltyFor'[s] = 0
  <2>1. PICK t \in Subnets : /\ blockedFor' = [blockedFor EXCEPT ![t] = 0]
                             /\ penaltyFor' = [penaltyFor EXCEPT ![t] = 0]
    BY <1>1, <1>4 DEF Evict
  <2>2. t = s
    BY <1>1, <2>1 DEF CacheTypes
  <2> QED BY <2>1, <2>2 DEF CacheTypes
<1> QED BY <1>1, <1>2, <1>3, <1>4, PenaltyTouched

\* The block record_penalty gives a subnet runs out with time, for every
\* backoff that does not decrease and stays within penalty_cache's time to
\* live: only an eviction or a strike that was counted too early, by a request
\* that ran at the same time, ever shortens it.
THEOREM BlocksAlwaysRunOut == DnsSpec => BlocksRunOut
<1>1. DnsInit => CacheTypes /\ PenaltyInv
  BY CachesInit
<1>2. CacheTypes /\ PenaltyInv /\ [DnsNext]_dnsVars => CacheTypes' /\ PenaltyInv'
  BY CacheTypesStep, PenaltyStep
<1>3. CacheTypes /\ PenaltyInv /\ [DnsNext]_dnsVars =>
        [\A s \in Subnets :
           blockedFor'[s] < blockedFor[s] =>
             \/ Tick /\ blockedFor'[s] = blockedFor[s] - 1
             \/ Evict /\ penaltyFor'[s] = 0
             \/ StaleStrike(s)]_dnsVars
  BY BlockStep
<1> QED BY <1>1, <1>2, <1>3, PTL DEF DnsSpec, BlocksRunOut

-----------------------------------------------------------------------------
(* The response queue.                                                     *)

InLine(q, r) == \E i \in 1..Len(q) : q[i] = r
NoneTwice(q) == \A i, j \in 1..Len(q) : q[i] = q[j] => i = j

\* WaitersQueued, with the channel and the queue told apart.
QueueInv ==
  /\ channel \in Seq(Requests) /\ queue \in Seq(Requests)
  /\ NoneTwice(channel) /\ NoneTwice(queue)
  /\ \A r \in Requests : ~(InLine(channel, r) /\ InLine(queue, r))
  /\ \A r \in Requests :
       pc[r] = "waiting" <=> InLine(channel, r) \/ InLine(queue, r)

\* What an append does to who is in line.
LEMMA AppendLine ==
  ASSUME NEW q \in Seq(Requests), NEW r \in Requests, NoneTwice(q), ~InLine(q, r)
  PROVE  /\ Append(q, r) \in Seq(Requests)
         /\ NoneTwice(Append(q, r))
         /\ \A p \in Requests : InLine(Append(q, r), p) <=> InLine(q, p) \/ p = r
<1>1. /\ Append(q, r) \in Seq(Requests)
      /\ Len(Append(q, r)) = Len(q) + 1
      /\ \A i \in 1..Len(q) : Append(q, r)[i] = q[i]
      /\ Append(q, r)[Len(q) + 1] = r
  BY SeqAppended
<1>2. Len(q) \in Nat
  OBVIOUS
<1>3. NoneTwice(Append(q, r))
  BY <1>1, <1>2 DEF NoneTwice, InLine
<1>4. ASSUME NEW p \in Requests
      PROVE  InLine(Append(q, r), p) <=> InLine(q, p) \/ p = r
  <2>1. ASSUME InLine(q, p) PROVE InLine(Append(q, r), p)
    BY <1>1, <1>2, <2>1 DEF InLine
  <2>2. InLine(Append(q, r), r)
    <3>1. Len(q) + 1 \in 1..Len(Append(q, r))
      BY <1>1, <1>2
    <3> QED BY <1>1, <3>1 DEF InLine
  <2>3. ASSUME InLine(Append(q, r), p) PROVE InLine(q, p) \/ p = r
    BY <1>1, <1>2, <2>3 DEF InLine
  <2> QED BY <2>1, <2>2, <2>3
<1> QED BY <1>1, <1>3, <1>4

\* Taking k off the front leaves those further behind.
LEMMA CutLine ==
  ASSUME NEW q \in Seq(Requests), NEW k \in 1..Len(q), NoneTwice(q)
  PROVE  /\ SubSeq(q, k + 1, Len(q)) \in Seq(Requests)
         /\ NoneTwice(SubSeq(q, k + 1, Len(q)))
         /\ \A p \in Requests :
              InLine(SubSeq(q, k + 1, Len(q)), p) <=>
                InLine(q, p) /\ ~(\E i \in 1..k : q[i] = p)
<1> DEFINE s == SubSeq(q, k + 1, Len(q))
<1>1. Len(q) \in Nat /\ k \in Nat /\ k <= Len(q)
  OBVIOUS
<1>2. /\ s \in Seq(Requests)
      /\ Len(s) = Len(q) - k
      /\ \A i \in 1..(Len(q) - k) : s[i] = q[k + i]
  BY <1>1
<1> HIDE DEF s
<1>3. NoneTwice(s)
  BY <1>1, <1>2 DEF NoneTwice
<1>4. ASSUME NEW p \in Requests, InLine(s, p)
      PROVE  InLine(q, p) /\ ~(\E i \in 1..k : q[i] = p)
  <2>1. PICK i \in 1..(Len(q) - k) : s[i] = p
    BY <1>2, <1>4 DEF InLine
  <2>2. k + i \in 1..Len(q) /\ q[k + i] = p /\ k + i > k
    BY <1>1, <1>2, <2>1
  <2> QED BY <1>1, <2>2 DEF InLine, NoneTwice
<1>5. ASSUME NEW p \in Requests, InLine(q, p), ~(\E i \in 1..k : q[i] = p)
      PROVE  InLine(s, p)
  <2>1. PICK i \in 1..Len(q) : q[i] = p
    BY <1>5 DEF InLine
  <2>2. i - k \in 1..(Len(q) - k) /\ k + (i - k) = i
    BY <1>1, <1>5, <2>1
  <2>3. s[i - k] = p
    BY <1>2, <2>1, <2>2
  <2> QED BY <1>2, <2>2, <2>3 DEF InLine
<1> QED BY <1>2, <1>3, <1>4, <1>5 DEF s

\* An interval tick takes a part of the queue off its front: there is a
\* longest part whose entries are old enough.
LEMMA DueRange ==
  ASSUME QueueInv PROVE Due \in 0..Len(queue)
<1>1. Len(queue) \in Nat
  BY DEF QueueInv
<1> DEFINE Parts == {j \in 0..Len(queue) : Ready(j)}
           Left == {Len(queue) - j : j \in Parts}
<1>2. Left \subseteq Nat /\ Left # {}
  <2>1. 0 \in Parts
    BY <1>1 DEF Ready
  <2> HIDE DEF Parts
  <2>2. Parts \subseteq 0..Len(queue)
    BY DEF Parts
  <2> QED BY <1>1, <2>1, <2>2
<1> HIDE DEF Parts
<1>3. PICK x \in Left : \A y \in Left : ~(<<y, x>> \in OpToRel(<, Nat))
  <2> HIDE DEF Left
  <2> QED BY <1>2, NatLessThanWellFounded, WFMin, Zenon
<1>4. PICK k \in Parts : x = Len(queue) - k
  OBVIOUS
<1>5. \A j \in Parts : j \in 0..Len(queue) /\ Ready(j)
  BY DEF Parts
<1>6. ASSUME NEW j \in Parts, j > k PROVE FALSE
  <2> DEFINE y == Len(queue) - j
  <2>1. y \in Left /\ y \in Nat /\ x \in Nat /\ y < x
    BY <1>1, <1>4, <1>5, <1>6
  <2> HIDE DEF y, Left
  <2>2. <<y, x>> \in OpToRel(<, Nat)
    BY <2>1 DEF OpToRel
  <2> QED BY <1>3, <2>1, <2>2
<1>7. k \in 0..Len(queue) /\ Ready(k)
  BY <1>5
<1>8. \A j \in 0..Len(queue) : Ready(j) => j <= k
  <2>1. \A j \in 0..Len(queue) : Ready(j) => j \in Parts
    BY DEF Parts
  <2> QED BY <1>1, <1>6, <1>7, <2>1
<1> QED BY <1>7, <1>8 DEF Due

\* A step that leaves the channel, the queue and who waits alone.
LEMMA KeepQueue ==
  ASSUME QueueInv, UNCHANGED queueVars,
         \A r \in Requests : pc'[r] = "waiting" <=> pc[r] = "waiting"
  PROVE  QueueInv'
<1>1. channel' = channel /\ queue' = queue
  BY DEF queueVars
<1> QED BY <1>1 DEF QueueInv, InLine, NoneTwice

\* A request that sends its entry waits, and was nowhere in line before.
LEMMA SendQueue ==
  ASSUME CacheTypes, QueueInv, NEW r \in Requests, Send(r)
  PROVE  QueueInv'
<1>1. /\ pc[r] = "stamped" /\ pc'[r] = "waiting"
      /\ \A p \in Requests : p # r => pc'[p] = pc[p]
      /\ channel' = Append(channel, r) /\ queue' = queue
  BY DEF CacheTypes, Send, Goto
<1>2. ~InLine(channel, r) /\ ~InLine(queue, r)
  BY <1>1 DEF QueueInv
<1>3. /\ channel' \in Seq(Requests)
      /\ NoneTwice(channel')
      /\ \A p \in Requests : InLine(channel', p) <=> InLine(channel, p) \/ p = r
  BY <1>1, <1>2, AppendLine DEF QueueInv
<1> QED BY <1>1, <1>2, <1>3 DEF QueueInv

\* The queue task moves the entry at the front of the channel to its queue.
LEMMA RecvQueue ==
  ASSUME QueueInv, QueueRecv
  PROVE  QueueInv'
<1> DEFINE r == Head(channel)
<1>1. /\ channel # <<>> /\ pc' = pc
      /\ queue' = Append(queue, r) /\ channel' = Tail(channel)
  BY DEF QueueRecv
<1>2. channel \in Seq(Requests) /\ queue \in Seq(Requests)
  BY DEF QueueInv
<1>3. Len(channel) \in Nat /\ Len(channel) >= 1 /\ r = channel[1] /\ r \in Requests
  BY <1>1, <1>2
<1>4. channel' = SubSeq(channel, 1 + 1, Len(channel))
  BY <1>1, <1>2, <1>3
<1> HIDE DEF r
<1>5. 1 \in 1..Len(channel) /\ NoneTwice(channel) /\ NoneTwice(queue)
  BY <1>3 DEF QueueInv
<1>6. /\ channel' \in Seq(Requests)
      /\ NoneTwice(channel')
      /\ \A p \in Requests : InLine(channel', p) <=>
           InLine(channel, p) /\ ~(\E i \in 1..1 : channel[i] = p)
  BY <1>2, <1>4, <1>5, CutLine
<1>7. \A p \in Requests : (\E i \in 1..1 : channel[i] = p) <=> p = r
  BY <1>3
<1>8. InLine(channel, r) /\ ~InLine(queue, r)
  BY <1>3, <1>5 DEF QueueInv, InLine
<1>9. /\ queue' \in Seq(Requests)
      /\ NoneTwice(queue')
      /\ \A p \in Requests : InLine(queue', p) <=> InLine(queue, p) \/ p = r
  BY <1>1, <1>2, <1>3, <1>5, <1>8, AppendLine
<1>10. \A p \in Requests : ~(InLine(channel', p) /\ InLine(queue', p))
  BY <1>6, <1>7, <1>9 DEF QueueInv
<1>11. \A p \in Requests :
         pc'[p] = "waiting" <=> InLine(channel', p) \/ InLine(queue', p)
  BY <1>1, <1>6, <1>7, <1>8, <1>9 DEF QueueInv
<1> QED BY <1>6, <1>9, <1>10, <1>11 DEF QueueInv

\* Whom an interval tick wakes was waiting, and is in line no more.
LEMMA TickQueue ==
  ASSUME QueueInv, QueueTick
  PROVE  /\ QueueInv'
         /\ \A r \in Requests : pc'[r] # pc[r] => pc[r] = "waiting" /\ pc'[r] = "lookup"
<1> DEFINE k == Due
           Woken(r) == \E i \in 1..k : queue[i] = r
<1>1. /\ k > 0
      /\ pc' = [r \in Requests |-> IF Woken(r) THEN "lookup" ELSE pc[r]]
      /\ queue' = SubSeq(queue, k + 1, Len(queue))
      /\ channel' = channel
  BY DEF QueueTick
<1>2. k \in 0..Len(queue) /\ Len(queue) \in Nat
  BY DueRange DEF QueueInv
<1> HIDE DEF k
<1>3. k \in 1..Len(queue) /\ queue \in Seq(Requests) /\ NoneTwice(queue)
  BY <1>1, <1>2 DEF QueueInv
<1>4. /\ queue' \in Seq(Requests)
      /\ NoneTwice(queue')
      /\ \A r \in Requests : InLine(queue', r) <=> InLine(queue, r) /\ ~Woken(r)
  BY <1>1, <1>3, CutLine
<1>5. \A r \in Requests : Woken(r) => InLine(queue, r)
  BY <1>2 DEF InLine
<1>6. \A r \in Requests : pc'[r] = IF Woken(r) THEN "lookup" ELSE pc[r]
  BY <1>1
<1> HIDE DEF Woken
<1>8. \A r \in Requests :
        pc'[r] = "waiting" <=> InLine(channel', r) \/ InLine(queue', r)
  BY <1>1, <1>4, <1>5, <1>6 DEF QueueInv
<1>9. QueueInv'
  BY <1>1, <1>4, <1>8 DEF QueueInv
<1> QED BY <1>5, <1>6, <1>9 DEF QueueInv

\* Every step keeps the line as it should be.
LEMMA QueueStep ==
  ASSUME CacheTypes, QueueInv, [DnsNext]_dnsVars
  PROVE  QueueInv'
<1>1. ASSUME NEW r \in Requests, NEW d \in Domains, Begin(r, d) PROVE QueueInv'
  <2>1. UNCHANGED queueVars /\ \A p \in Requests : pc'[p] = "waiting" <=> pc[p] = "waiting"
    BY <1>1 DEF CacheTypes, Begin, Goto
  <2> QED BY <2>1, KeepQueue
<1>2. ASSUME NEW r \in Requests, Handle(r), ~Send(r) PROVE QueueInv'
  <2>1. UNCHANGED queueVars /\ \A p \in Requests : pc'[p] = "waiting" <=> pc[p] = "waiting"
    <3>1. CASE Leave(r) \/ RefuseEarly(r) \/ ZoneLimited(r) \/ RecordPenalty(r)
                 \/ PassLimits(r)
      BY <3>1 DEF CacheTypes, Leave, RefuseEarly, ZoneLimited, RecordPenalty,
           PassLimits, Goto
    <3>2. CASE PenaltyCheck(r) \/ NegativeCheck(r) \/ RefuseLate(r) \/ Stamp(r)
      BY <3>2 DEF CacheTypes, PenaltyCheck, NegativeCheck, RefuseLate, Stamp, Goto
    <3>3. CASE Lookup(r) \/ LookupFails(r) \/ FirstSeenCheck(r) \/ FirstSeenInsert(r)
      BY <3>3 DEF CacheTypes, Lookup, LookupFails, FirstSeenCheck, FirstSeenInsert, Goto
    <3>4. CASE Promote(r) \/ RecordInBloom(r) \/ FirstSeenInvalidate(r)
      BY <3>4 DEF CacheTypes, Promote, RecordInBloom, FirstSeenInvalidate, Goto
    <3> QED BY <1>2, <3>1, <3>2, <3>3, <3>4 DEF Handle
  <2> QED BY <2>1, KeepQueue
<1>3. ASSUME Tick \/ Evict \/ NewBlock \/ UNCHANGED dnsVars PROVE QueueInv'
  <2>1. UNCHANGED queueVars /\ pc' = pc
    <3>1. CASE Tick
      BY <3>1 DEF Tick
    <3>2. CASE Evict
      BY <3>2 DEF Evict
    <3>3. CASE NewBlock
      BY <3>3 DEF NewBlock
    <3>4. CASE UNCHANGED dnsVars
      BY <3>4 DEF dnsVars
    <3> QED BY <1>3, <3>1, <3>2, <3>3, <3>4
  <2> QED BY <2>1, KeepQueue
<1> QED
  BY <1>1, <1>2, <1>3, SendQueue, RecvQueue, TickQueue DEF DnsNext

\* QueueInv says what WaitersQueued says of the two sequences laid end to end.
LEMMA QueueInvImplies ==
  ASSUME QueueInv PROVE WaitersQueued
<1> DEFINE line == channel \o queue
           m == Len(channel)
           k == Len(queue)
<1>1. /\ m \in Nat /\ k \in Nat
      /\ Len(line) = m + k
      /\ \A i \in 1..m + k : line[i] = IF i <= m THEN channel[i] ELSE queue[i - m]
  BY DEF QueueInv
<1>2. \A i \in 1..m : channel[i] \in Requests /\ i \in 1..m + k /\ line[i] = channel[i]
  BY <1>1 DEF QueueInv
<1>3. \A i \in 1..k : queue[i] \in Requests /\ m + i \in 1..m + k /\ line[m + i] = queue[i]
  BY <1>1 DEF QueueInv
<1>4. \A i \in 1..m + k : i \in 1..m \/ (i - m \in 1..k /\ line[i] = queue[i - m])
  BY <1>1
<1> HIDE DEF line, m, k
<1>5. ASSUME NEW r \in Requests
      PROVE  (\E i \in 1..Len(line) : line[i] = r) <=> InLine(channel, r) \/ InLine(queue, r)
  <2>1. Len(line) = m + k
    BY <1>1
  <2>2. InLine(channel, r) <=> \E i \in 1..m : channel[i] = r
    BY DEF InLine, m
  <2>3. InLine(queue, r) <=> \E i \in 1..k : queue[i] = r
    BY DEF InLine, k
  <2>4. ASSUME NEW i \in 1..m + k, line[i] = r PROVE InLine(channel, r) \/ InLine(queue, r)
    <3>1. CASE i \in 1..m
      BY <1>2, <2>2, <2>4, <3>1
    <3>2. CASE i - m \in 1..k /\ line[i] = queue[i - m]
      BY <2>3, <2>4, <3>2
    <3> QED BY <1>4, <2>4, <3>1, <3>2
  <2>5. ASSUME InLine(channel, r) PROVE \E i \in 1..m + k : line[i] = r
    BY <1>2, <2>2, <2>5
  <2>6. ASSUME InLine(queue, r) PROVE \E i \in 1..m + k : line[i] = r
    BY <1>3, <2>3, <2>6
  <2> QED BY <2>1, <2>4, <2>5, <2>6
<1>6. ASSUME NEW i \in 1..m + k, NEW j \in 1..m + k, line[i] = line[j] PROVE i = j
  <2>1. CASE i \in 1..m /\ j \in 1..m
    BY <1>2, <1>6, <2>1 DEF QueueInv, NoneTwice, m
  <2>2. CASE i \in 1..m /\ j \notin 1..m
    <3>1. channel[i] = queue[j - m] /\ j - m \in 1..k /\ channel[i] \in Requests
      BY <1>2, <1>4, <1>6, <2>2
    <3>2. InLine(channel, channel[i]) /\ InLine(queue, channel[i])
      BY <2>2, <3>1 DEF InLine, m, k
    <3> QED BY <3>1, <3>2 DEF QueueInv
  <2>3. CASE i \notin 1..m /\ j \in 1..m
    <3>1. channel[j] = queue[i - m] /\ i - m \in 1..k /\ channel[j] \in Requests
      BY <1>2, <1>4, <1>6, <2>3
    <3>2. InLine(channel, channel[j]) /\ InLine(queue, channel[j])
      BY <2>3, <3>1 DEF InLine, m, k
    <3> QED BY <3>1, <3>2 DEF QueueInv
  <2>4. CASE i \notin 1..m /\ j \notin 1..m
    <3>1. queue[i - m] = queue[j - m] /\ i - m \in 1..k /\ j - m \in 1..k
      BY <1>4, <1>6, <2>4
    <3>2. i - m = j - m
      BY <3>1 DEF QueueInv, NoneTwice, k
    <3> QED BY <1>1, <3>2
  <2> QED BY <2>1, <2>2, <2>3, <2>4
<1> QED BY <1>1, <1>5, <1>6 DEF QueueInv, WaitersQueued, line

\* Nobody waits and nothing is queued at the start.
LEMMA QueueInit ==
  ASSUME DnsInit PROVE QueueInv
BY DEF DnsInit, QueueInv, InLine, NoneTwice

\* Whatever the order in which handlers send, the task receives and intervals
\* tick, exactly the requests that wait in ResponseQueue::wait are in the
\* channel or the queue, each once.
THEOREM WaitersQueuedAlways == DnsSpec => []WaitersQueued
<1>1. DnsInit => CacheTypes /\ QueueInv
  BY CachesInit, QueueInit
<1>2. CacheTypes /\ QueueInv /\ [DnsNext]_dnsVars => CacheTypes' /\ QueueInv'
  BY CacheTypesStep, QueueStep
<1>3. QueueInv => WaitersQueued
  BY QueueInvImplies
<1> QED BY <1>1, <1>2, <1>3, PTL DEF DnsSpec

-----------------------------------------------------------------------------
(* Admission.                                                              *)

Admitted == {r \in Requests : pc[r] \in Guarded}

\* The requests inside the handler, admitted or not, can be counted.
LEMMA CountsAreNat ==
  /\ IsFiniteSet(Counted) /\ IsFiniteSet(Admitted)
  /\ Cardinality(Counted) \in Nat /\ Cardinality(Admitted) \in Nat
  /\ Cardinality(Admitted) <= Cardinality(Counted)
<1>1. /\ Counted \subseteq Requests /\ Admitted \subseteq Requests
      /\ Admitted \subseteq Counted
  BY DEF Counted, Admitted, Guarded
<1>2. IsFiniteSet(Counted) /\ IsFiniteSet(Admitted)
  BY <1>1, DnsAssumption, FS_Subset
<1> QED BY <1>1, <1>2, FS_CardinalityType, FS_Subset

\* A step in which nobody enters or leaves.
LEMMA KeepAdmission ==
  ASSUME AdmissionExact, inflight' = inflight,
         \A r \in Requests : /\ pc'[r] = "idle" <=> pc[r] = "idle"
                             /\ pc'[r] \in Guarded <=> pc[r] \in Guarded
  PROVE  AdmissionExact'
<1>1. Counted' = Counted /\ Admitted' = Admitted
  BY DEF Counted, Admitted
<1>2. Cardinality(Counted') = Cardinality(Counted) /\ Cardinality(Admitted') = Cardinality(Admitted)
  BY <1>1
<1> QED BY <1>2 DEF AdmissionExact, Admitted

\* A request that enters is counted; it is admitted only while fewer than
\* max_inflight are inside.
LEMMA BeginAdmission ==
  ASSUME CacheTypes, AdmissionExact, NEW r \in Requests, NEW d \in Domains, Begin(r, d)
  PROVE  AdmissionExact'
<1>1. /\ pc[r] = "idle"
      /\ pc'[r] = IF inflight >= MaxInflight THEN "over" ELSE "admitted"
      /\ \A p \in Requests : p # r => pc'[p] = pc[p]
      /\ inflight' = inflight + 1
  BY DEF CacheTypes, Begin, Goto
<1>2. r \notin Counted /\ Counted' = Counted \cup {r}
  BY <1>1 DEF Counted
<1>3. Cardinality(Counted') = Cardinality(Counted) + 1
  BY <1>2, CountsAreNat, FS_AddElement
<1>4. inflight = Cardinality(Counted) /\ Cardinality(Admitted) <= MaxInflight
  BY DEF AdmissionExact, Admitted
<1>5. inflight' = Cardinality(Counted')
  BY <1>1, <1>3, <1>4
<1>6. Cardinality(Admitted') <= MaxInflight
  <2>1. CASE inflight >= MaxInflight
    <3>1. Admitted' = Admitted
      BY <1>1, <2>1 DEF Admitted, Guarded
    <3>2. Cardinality(Admitted') = Cardinality(Admitted)
      BY <3>1
    <3> QED BY <1>4, <3>2
  <2>2. CASE ~(inflight >= MaxInflight)
    <3>1. Admitted' \subseteq Counted' /\ IsFiniteSet(Counted')
      BY <1>2, CountsAreNat, FS_AddElement DEF Counted, Admitted, Guarded
    <3>2. /\ Cardinality(Admitted') <= Cardinality(Counted')
          /\ Cardinality(Admitted') \in Nat
      BY <3>1, FS_Subset, FS_CardinalityType
    <3>3. MaxInflight \in Nat /\ Cardinality(Counted) \in Nat
      BY DnsAssumption, CountsAreNat
    <3> QED BY <1>3, <1>4, <2>2, <3>2, <3>3
  <2> QED BY <2>1, <2>2
<1> QED BY <1>5, <1>6 DEF AdmissionExact, Admitted

\* A request that leaves gives its place back.
LEMMA LeaveAdmission ==
  ASSUME CacheTypes, AdmissionExact, NEW r \in Requests, Leave(r)
  PROVE  AdmissionExact'
<1>1. /\ pc[r] # "idle" /\ pc'[r] = "idle"
      /\ \A p \in Requests : p # r => pc'[p] = pc[p]
      /\ inflight' = inflight - 1
  BY DEF CacheTypes, Leave, Goto
<1>2. r \in Counted /\ Counted' = Counted \ {r}
  BY <1>1 DEF Counted
<1>3. Cardinality(Counted') = Cardinality(Counted) - 1
  BY <1>2, CountsAreNat, FS_RemoveElement
<1>4. Admitted' \subseteq Admitted
  BY <1>1 DEF Admitted, Guarded
<1>5. Cardinality(Admitted') <= Cardinality(Admitted) /\ Cardinality(Admitted') \in Nat
  BY <1>4, CountsAreNat, FS_Subset, FS_CardinalityType
<1>6. /\ inflight = Cardinality(Counted) /\ Cardinality(Admitted) <= MaxInflight
      /\ MaxInflight \in Nat /\ Cardinality(Admitted) \in Nat
  BY CountsAreNat, DnsAssumption DEF AdmissionExact, Admitted
<1>7. inflight' = Cardinality(Counted') /\ Cardinality(Admitted') <= MaxInflight
  BY <1>1, <1>3, <1>5, <1>6
<1> QED BY <1>7 DEF AdmissionExact, Admitted

\* Every step keeps the count exact; an interval tick because it wakes nobody
\* but requests that wait.
LEMMA AdmissionStep ==
  ASSUME CacheTypes, QueueInv, AdmissionExact, [DnsNext]_dnsVars
  PROVE  AdmissionExact'
<1>1. ASSUME NEW r \in Requests, Handle(r), ~Leave(r) PROVE AdmissionExact'
  <2> DEFINE Still == /\ inflight' = inflight
                      /\ \A p \in Requests :
                           /\ pc'[p] = "idle" <=> pc[p] = "idle"
                           /\ pc'[p] \in Guarded <=> pc[p] \in Guarded
  <2>1. pc \in [Requests -> Guarded \cup {"idle", "over"}]
    BY DEF CacheTypes
  <2>2. ASSUME RefuseEarly(r) \/ ZoneLimited(r) \/ RecordPenalty(r) \/ PassLimits(r)
        PROVE  Still
    BY <2>1, <2>2 DEF RefuseEarly, ZoneLimited, RecordPenalty, PassLimits, Goto, Guarded
  <2>3. ASSUME PenaltyCheck(r) \/ NegativeCheck(r) \/ RefuseLate(r) \/ Stamp(r)
        PROVE  Still
    BY <2>1, <2>3 DEF PenaltyCheck, NegativeCheck, RefuseLate, Stamp, Goto, Guarded
  <2>4. ASSUME Send(r) \/ Lookup(r) \/ LookupFails(r) \/ FirstSeenCheck(r)
        PROVE  Still
    BY <2>1, <2>4 DEF Send, Lookup, LookupFails, FirstSeenCheck, Goto, Guarded
  <2>5. ASSUME FirstSeenInsert(r) \/ Promote(r) \/ RecordInBloom(r) \/ FirstSeenInvalidate(r)
        PROVE  Still
    BY <2>1, <2>5 DEF FirstSeenInsert, Promote, RecordInBloom, FirstSeenInvalidate,
         Goto, Guarded
  <2> HIDE DEF Still
  <2>6. Still
    BY <1>1, <2>2, <2>3, <2>4, <2>5 DEF Handle
  <2> QED BY <2>6, KeepAdmission DEF Still
<1>2. ASSUME QueueTick PROVE AdmissionExact'
  <2>1. inflight' = inflight
    BY <1>2 DEF QueueTick
  <2>2. \A p \in Requests : /\ pc'[p] = "idle" <=> pc[p] = "idle"
                            /\ pc'[p] \in Guarded <=> pc[p] \in Guarded
    BY <1>2, TickQueue DEF Guarded
  <2> QED BY <2>1, <2>2, KeepAdmission
<1>3. ASSUME QueueRecv \/ Tick \/ Evict \/ NewBlock \/ UNCHANGED dnsVars
      PROVE  AdmissionExact'
  <2>1. inflight' = inflight /\ pc' = pc
    BY <1>3 DEF QueueRecv, Tick, Evict, NewBlock, dnsVars
  <2> QED BY <2>1, KeepAdmission
<1> QED BY <1>1, <1>2, <1>3, BeginAdmission, LeaveAdmission DEF DnsNext

\* Nobody is inside at the start.
LEMMA AdmissionInit ==
  ASSUME DnsInit PROVE AdmissionExact
<1>1. Counted = {} /\ Admitted = {} /\ inflight = 0
  BY DEF DnsInit, Counted, Admitted, Guarded
<1>2. Cardinality(Counted) = 0 /\ Cardinality(Admitted) = 0 /\ MaxInflight \in Nat
  BY <1>1, FS_EmptySet, DnsAssumption
<1> QED BY <1>1, <1>2 DEF AdmissionExact, Admitted

\* For any number of concurrent requests, the counter handle_request adds to
\* and its guards subtract from is the number of requests inside, and no more
\* than max_inflight of them got past the comparison.
THEOREM AdmissionExactAlways == DnsSpec => []AdmissionExact
<1>1. DnsInit => CacheTypes /\ QueueInv /\ AdmissionExact
  BY CachesInit, QueueInit, AdmissionInit
<1>2. CacheTypes /\ QueueInv /\ AdmissionExact /\ [DnsNext]_dnsVars
        => CacheTypes' /\ QueueInv' /\ AdmissionExact'
  BY CacheTypesStep, QueueStep, AdmissionStep
<1> QED BY <1>1, <1>2, PTL DEF DnsSpec

=============================================================================
