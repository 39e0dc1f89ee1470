------------------------- MODULE CachedFeed_proofs -------------------------
(***************************************************************************)
(* Proofs about CachedFeed, for any number of versions and outages.        *)
(***************************************************************************)
EXTENDS CachedFeed, TLAPS

First == calls["first"]
Polled == calls["poll"]
Version == 0..MaxVersion

-----------------------------------------------------------------------------
(* The inductive invariant.                                                *)

\* Nothing is ahead of the server.
Bounded(c) ==
    /\ c.cached \in Version => c.cached <= version
    /\ c.fresh \in Version => c.fresh <= version
    /\ c.response <= version

BoundInv ==
    /\ cache <= version /\ shown <= version
    /\ Bounded(First) /\ Bounded(Polled)

\* A poll and the first request are under way together only if they say so.
OverlapInv ==
    /\ ~ready => First = Idle /\ Polled = Idle /\ ~timer /\ shown = 0
    /\ First # Idle /\ ~First.overlaps => Polled = Idle
    /\ Polled # Idle /\ ~Polled.overlaps => First = Idle

\* While the first request is alone and the network works: the page shows what
\* came from the cache, if anything, and the fresh answer, unless it is cut off,
\* is at least as new as all the cache holds.
FirstInv ==
    First # Idle /\ ~First.overlaps /\ ~First.fallback =>
        /\ First.cached # Off => First.response = 0
        /\ First.cached # Off /\ First.freshContentPending => shown = 0
        /\ First.fresh # Off => First.freshContentPending /\ shown = First.response
        /\ First.fresh \in Version /\ First.fresh # 0 =>
             /\ cache <= First.fresh /\ First.response <= First.fresh
             /\ First.cached \in Version => First.cached <= First.fresh

\* A poll that is alone brings what is not older, and one that falls back on the
\* cache fails only without a cache.
PollInv ==
    Polled # Idle /\ ~Polled.overlaps =>
        /\ Polled.fresh \in Version /\ Polled.fresh # 0 /\ ~Polled.fallback =>
             Polled.fresh >= shown
        /\ Polled.fresh = 0 /\ Polled.fallback /\ Polled.through => cache = 0

IInv == TypeOK /\ BoundInv /\ OverlapInv /\ FirstInv /\ PollInv

-----------------------------------------------------------------------------
(* Facts about requests.                                                   *)

LEMMA ConstantFacts ==
    /\ MaxVersion \in Nat /\ MaxVersion >= 1 /\ MaxOutages \in Nat
    /\ Off # Sent /\ Off \notin Version /\ Sent \notin Version
    /\ \A v \in Version : v \in Answer
    /\ Off \in Answer /\ Sent \in Answer /\ Answer = Version \cup {Off, Sent}
BY FeedAssumption DEF Version, Answer

LEMMA IdleFacts ==
    /\ Idle \in Call /\ Idle.cached = Off /\ Idle.fresh = Off /\ Idle.response = 0
    /\ Idle.overlaps = FALSE /\ Idle.fallback = FALSE
BY FeedAssumption DEF Idle, Call, Answer

LEMMA CallFacts ==
    ASSUME NEW c \in Call
    PROVE  /\ c.cached \in Answer /\ c.fresh \in Answer /\ c.response \in Version
           /\ c.through \in BOOLEAN /\ c.fallback \in BOOLEAN
           /\ c.freshContentPending \in BOOLEAN /\ c.overlaps \in BOOLEAN
           /\ c.cached # Off \/ c.fresh # Off => c # Idle
BY IdleFacts DEF Call, Version

\* A step changes one request, or none.
LEMMA UpdateFirst ==
    ASSUME TypeOK, NEW r \in Call, calls' = [calls EXCEPT !["first"] = r]
    PROVE  calls' \in [Source -> Call] /\ First' = r /\ Polled' = Polled
BY DEF TypeOK, First, Polled, Source

LEMMA UpdatePolled ==
    ASSUME TypeOK, NEW r \in Call, calls' = [calls EXCEPT !["poll"] = r]
    PROVE  calls' \in [Source -> Call] /\ Polled' = r /\ First' = First
BY DEF TypeOK, First, Polled, Source

LEMMA InitInv == Init => IInv
<1> SUFFICES ASSUME Init PROVE IInv
  OBVIOUS
<1>1. First = Idle /\ Polled = Idle /\ calls \in [Source -> Call]
  BY IdleFacts DEF Init, First, Polled, Source
<1>2. cache \in {0, 1} /\ version = 1 /\ shown = 0 /\ ~timer
  BY DEF Init
<1>3. TypeOK
  <2>1. {online, controlled, ready, timer, broken} \subseteq BOOLEAN
    BY DEF Init
  <2>2. outages \in 0..MaxOutages /\ version \in 1..MaxVersion /\ cache \in 0..MaxVersion
        /\ shown \in 0..MaxVersion
    BY <1>2, ConstantFacts DEF Init
  <2> QED BY <1>1, <1>2, <2>1, <2>2 DEF TypeOK
<1>4. BoundInv
  BY <1>1, <1>2, ConstantFacts, IdleFacts DEF BoundInv, Bounded
<1>5. OverlapInv /\ FirstInv /\ PollInv
  BY <1>1, <1>2 DEF Init, OverlapInv, FirstInv, PollInv
<1> QED BY <1>3, <1>4, <1>5 DEF IInv

-----------------------------------------------------------------------------
(* The steps.                                                              *)

LEMMA TypeFacts ==
    ASSUME IInv
    PROVE  /\ TypeOK /\ First \in Call /\ Polled \in Call
           /\ cache \in Version /\ shown \in Version
           /\ version \in Version /\ version >= 1
           /\ BoundInv /\ OverlapInv /\ FirstInv /\ PollInv
BY ConstantFacts DEF IInv, TypeOK, First, Polled, Source, Version

\* What happens to the world, or stops the timer.
LEMMA WorldStep ==
    ASSUME IInv, TypeOK', version' >= version, UNCHANGED <<cache, calls, shown, ready>>,
           timer' => timer
    PROVE  IInv'
<1>1. First' = First /\ Polled' = Polled
  BY DEF First, Polled
<1>2. version' \in Version
  BY ConstantFacts DEF TypeOK, Version
<1>3. BoundInv'
  BY <1>1, <1>2, TypeFacts, CallFacts, ConstantFacts DEF BoundInv, Bounded, Version
<1>4. OverlapInv' /\ FirstInv' /\ PollInv'
  BY <1>1, TypeFacts DEF OverlapInv, FirstInv, PollInv
<1> QED BY <1>3, <1>4 DEF IInv

LEMMA ReadyStep == ASSUME IInv, Ready PROVE IInv'
<1> DEFINE call == [through |-> controlled, fallback |-> FALSE,
                    cached |-> IF controlled THEN Sent ELSE Off, fresh |-> Sent,
                    freshContentPending |-> TRUE, response |-> 0, overlaps |-> FALSE]
<1>1. /\ ~ready /\ ready' = TRUE /\ timer' = TRUE
      /\ calls' = [calls EXCEPT !["first"] = call]
      /\ UNCHANGED <<online, outages, controlled, version, cache, shown, broken>>
  BY DEF Ready, world
<1>2. First = Idle /\ Polled = Idle /\ shown = 0
  BY <1>1, TypeFacts DEF OverlapInv
<1>3. call \in Call
  BY TypeFacts, ConstantFacts DEF Call, TypeOK
<1>4. calls' \in [Source -> Call] /\ First' = call /\ Polled' = Idle
  BY <1>1, <1>2, <1>3, TypeFacts, UpdateFirst
<1>5. TypeOK'
  BY <1>1, <1>4, TypeFacts DEF TypeOK, Polled
<1>6. BoundInv'
  BY <1>1, <1>2, <1>4, TypeFacts, IdleFacts, ConstantFacts DEF BoundInv, Bounded, Version
<1>7. OverlapInv' /\ PollInv'
  BY <1>1, <1>4 DEF OverlapInv, PollInv
<1>8. FirstInv'
  BY <1>1, <1>2, <1>4, ConstantFacts DEF FirstInv
<1> QED BY <1>5, <1>6, <1>7, <1>8 DEF IInv

LEMMA PollStep == ASSUME IInv, Poll PROVE IInv'
<1> PICK overlaps \in BOOLEAN : overlaps = (First # Idle)
  OBVIOUS
<1> DEFINE first == [First EXCEPT !.overlaps = overlaps]
           poll == [Idle EXCEPT !.through = controlled, !.fresh = Sent, !.overlaps = overlaps]
<1>1. /\ timer /\ timer' = FALSE
      /\ calls' = [calls EXCEPT !["first"].overlaps = overlaps, !["poll"] = poll]
      /\ UNCHANGED <<online, outages, controlled, version, cache, shown, ready, broken>>
  BY Zenon DEF Poll, First, world
<1>2. first \in Call /\ poll \in Call
  <2>1. first \in Call
    BY TypeFacts DEF Call
  <2>2. controlled \in BOOLEAN
    BY TypeFacts DEF TypeOK
  <2> QED BY <2>1, <2>2, IdleFacts, ConstantFacts DEF Call
<1>3. /\ calls' \in [Source -> Call] /\ First' = first /\ Polled' = poll
  BY <1>1, <1>2, TypeFacts DEF TypeOK, First, Polled, Source
<1>4. /\ first.overlaps = overlaps /\ first.cached = First.cached /\ first.fresh = First.fresh
      /\ first.response = First.response
      /\ poll.overlaps = overlaps /\ poll.cached = Off /\ poll.fresh = Sent /\ poll.response = 0
  BY TypeFacts DEF Call, Idle
<1>5. First = Idle => first = Idle
  <2> SUFFICES ASSUME First = Idle PROVE first = Idle
    OBVIOUS
  <2>1. overlaps = First.overlaps
    BY IdleFacts
  <2>2. [First EXCEPT !.overlaps = First.overlaps] = First
    BY TypeFacts DEF Call
  <2> QED BY <2>1, <2>2
<1> HIDE DEF first, poll
<1>6. ready /\ ready'
  BY <1>1, TypeFacts DEF OverlapInv
<1>7. TypeOK'
  BY <1>1, <1>3, TypeFacts DEF TypeOK
<1>8. BoundInv'
  BY <1>1, <1>3, <1>4, TypeFacts, ConstantFacts DEF BoundInv, Bounded, Version
<1>9. OverlapInv' /\ FirstInv'
  BY <1>3, <1>4, <1>5, <1>6 DEF OverlapInv, FirstInv
<1>10. PollInv'
  BY <1>3, <1>4, ConstantFacts DEF PollInv, Version
<1> QED BY <1>7, <1>8, <1>9, <1>10 DEF IInv

\* What the answers of the worker and the server do to the first request.
LEMMA FirstStep ==
    ASSUME IInv, NEW r \in Call, calls' = [calls EXCEPT !["first"] = r],
           First # Idle, r.overlaps = First.overlaps,
           UNCHANGED <<world, cache, shown, poller>>,
           r.cached \in Version => r.cached <= version,
           r.fresh \in Version => r.fresh <= version,
           r.response = First.response,
           ~r.fallback /\ ~r.overlaps =>
              /\ ~First.fallback
              /\ r.cached # Off => First.cached # Off
              /\ r.fresh # Off => First.fresh # Off
              /\ r.freshContentPending = First.freshContentPending
              /\ r.fresh \in Version /\ r.fresh # 0 =>
                   /\ cache <= r.fresh /\ r.response <= r.fresh
                   /\ r.cached \in Version => r.cached <= r.fresh
    PROVE  IInv'
<1>1. calls' \in [Source -> Call] /\ First' = r /\ Polled' = Polled
  BY TypeFacts, UpdateFirst
<1>2. UNCHANGED <<online, outages, controlled, version, cache, shown, ready, timer, broken>>
  BY DEF world, poller
<1>3. TypeOK'
  BY <1>1, <1>2, TypeFacts DEF TypeOK, Polled
<1>4. BoundInv'
  BY <1>1, <1>2, TypeFacts DEF BoundInv, Bounded
<1>5. OverlapInv'
  BY <1>1, <1>2, TypeFacts DEF OverlapInv
<1>6. FirstInv'
  BY <1>1, <1>2, TypeFacts DEF FirstInv
<1>7. PollInv'
  BY <1>1, <1>2, TypeFacts DEF PollInv
<1> QED BY <1>3, <1>4, <1>5, <1>6, <1>7 DEF IInv

LEMMA PolledStep ==
    ASSUME IInv, NEW r \in Call, calls' = [calls EXCEPT !["poll"] = r],
           Polled # Idle, r.overlaps = Polled.overlaps,
           UNCHANGED <<world, cache, shown, poller>>,
           r.cached \in Version => r.cached <= version,
           r.fresh \in Version => r.fresh <= version,
           r.response = Polled.response,
           ~r.overlaps =>
              /\ r.fresh \in Version /\ r.fresh # 0 /\ ~r.fallback => r.fresh >= shown
              /\ r.fresh = 0 /\ r.fallback /\ r.through => cache = 0
    PROVE  IInv'
<1>1. calls' \in [Source -> Call] /\ Polled' = r /\ First' = First
  BY TypeFacts, UpdatePolled
<1>2. UNCHANGED <<online, outages, controlled, version, cache, shown, ready, timer, broken>>
  BY DEF world, poller
<1>3. ~timer /\ ready
  BY TypeFacts DEF TypeOK, Polled, OverlapInv
<1>4. TypeOK'
  BY <1>1, <1>2, <1>3, TypeFacts DEF TypeOK
<1>5. BoundInv'
  BY <1>1, <1>2, TypeFacts DEF BoundInv, Bounded
<1>6. OverlapInv'
  BY <1>1, <1>2, <1>3, TypeFacts DEF OverlapInv
<1>7. FirstInv' /\ PollInv'
  BY <1>1, <1>2, TypeFacts DEF FirstInv, PollInv
<1> QED BY <1>4, <1>5, <1>6, <1>7 DEF IInv

\* The cached answer of the worker.
LEMMA ReadCacheStep == ASSUME IInv, NEW s \in Source, ReadCache(s) PROVE IInv'
<1>1. /\ calls[s].cached = Sent
      /\ calls' = [calls EXCEPT ![s] = [calls[s] EXCEPT !.cached = cache]]
      /\ UNCHANGED <<world, cache, shown, poller>>
  BY DEF ReadCache
<1>2. CASE s = "first"
  <2> DEFINE r == [First EXCEPT !.cached = cache]
  <2>1. First.cached = Sent /\ calls' = [calls EXCEPT !["first"] = r]
    BY <1>1, <1>2, Zenon DEF First
  <2>2. /\ r \in Call /\ r.cached = cache /\ r.fresh = First.fresh /\ r.response = First.response
        /\ r.overlaps = First.overlaps /\ r.fallback = First.fallback
        /\ r.freshContentPending = First.freshContentPending
    BY TypeFacts, ConstantFacts DEF Call
  <2> HIDE DEF r
  <2>3. First # Idle /\ First.cached # Off
    BY <2>1, TypeFacts, CallFacts, ConstantFacts
  <2>4. cache <= version /\ (r.fresh \in Version => r.fresh <= version)
    BY <2>2, TypeFacts DEF BoundInv, Bounded
  <2>5. ~r.fallback /\ ~r.overlaps /\ r.fresh \in Version /\ r.fresh # 0 =>
           cache <= r.fresh /\ r.response <= r.fresh
    BY <2>2, <2>3, TypeFacts DEF FirstInv
  <2> QED BY <1>1, <2>1, <2>2, <2>3, <2>4, <2>5, FirstStep
<1>3. CASE s = "poll"
  <2> DEFINE r == [Polled EXCEPT !.cached = cache]
  <2>1. Polled.cached = Sent /\ calls' = [calls EXCEPT !["poll"] = r]
    BY <1>1, <1>3, Zenon DEF Polled
  <2>2. /\ r \in Call /\ r.cached = cache /\ r.fresh = Polled.fresh /\ r.response = Polled.response
        /\ r.overlaps = Polled.overlaps /\ r.fallback = Polled.fallback
        /\ r.through = Polled.through
    BY TypeFacts, ConstantFacts DEF Call
  <2> HIDE DEF r
  <2>3. Polled # Idle
    BY <2>1, TypeFacts, CallFacts, ConstantFacts
  <2>4. cache <= version /\ (r.fresh \in Version => r.fresh <= version)
    BY <2>2, TypeFacts DEF BoundInv, Bounded
  <2>5. ~r.overlaps =>
           /\ r.fresh \in Version /\ r.fresh # 0 /\ ~r.fallback => r.fresh >= shown
           /\ r.fresh = 0 /\ r.fallback /\ r.through => cache = 0
    BY <2>2, <2>3, TypeFacts DEF PollInv
  <2> QED BY <1>1, <2>1, <2>2, <2>3, <2>4, <2>5, PolledStep
<1> QED BY <1>2, <1>3 DEF Source

\* A fresh answer, which is as new as anything.
LEMMA ServerStep == ASSUME IInv, NEW s \in Source, ServerAnswers(s) PROVE IInv'
<1>1. /\ calls[s].fresh = Sent
      /\ calls' = [calls EXCEPT ![s] = [calls[s] EXCEPT !.fresh = version]]
      /\ UNCHANGED <<world, cache, shown, poller>>
  BY DEF ServerAnswers
<1>2. CASE s = "first"
  <2> DEFINE r == [First EXCEPT !.fresh = version]
  <2>1. First.fresh = Sent /\ calls' = [calls EXCEPT !["first"] = r]
    BY <1>1, <1>2, Zenon DEF First
  <2>2. /\ r \in Call /\ r.fresh = version /\ r.cached = First.cached /\ r.response = First.response
        /\ r.overlaps = First.overlaps /\ r.fallback = First.fallback
        /\ r.freshContentPending = First.freshContentPending
    BY TypeFacts, ConstantFacts DEF Call
  <2> HIDE DEF r
  <2>3. First # Idle /\ First.fresh # Off
    BY <2>1, TypeFacts, CallFacts, ConstantFacts
  <2>4. /\ cache <= version /\ r.response <= version /\ version <= version
        /\ r.cached \in Version => r.cached <= version
    BY <2>2, TypeFacts DEF BoundInv, Bounded, Version
  <2> QED BY <1>1, <2>1, <2>2, <2>3, <2>4, FirstStep
<1>3. CASE s = "poll"
  <2> DEFINE r == [Polled EXCEPT !.fresh = version]
  <2>1. Polled.fresh = Sent /\ calls' = [calls EXCEPT !["poll"] = r]
    BY <1>1, <1>3, Zenon DEF Polled
  <2>2. /\ r \in Call /\ r.fresh = version /\ r.cached = Polled.cached /\ r.response = Polled.response
        /\ r.overlaps = Polled.overlaps
    BY TypeFacts, ConstantFacts DEF Call
  <2> HIDE DEF r
  <2>3. Polled # Idle
    BY <2>1, TypeFacts, CallFacts, ConstantFacts
  <2>4. /\ version >= shown /\ version # 0 /\ version <= version
        /\ r.cached \in Version => r.cached <= version
    BY <2>2, TypeFacts DEF BoundInv, Bounded, Version
  <2> QED BY <1>1, <2>1, <2>2, <2>3, <2>4, PolledStep
<1> QED BY <1>2, <1>3 DEF Source

\* The network fails: from the cache, or nothing.
LEMMA FailStep == ASSUME IInv, NEW s \in Source, Fail(s) PROVE IInv'
<1> DEFINE answer(c) == IF c.through THEN cache ELSE 0
           failed(c) == [c EXCEPT !.fresh = answer(c), !.fallback = TRUE]
<1>1. /\ calls[s].fresh = Sent
      /\ calls' = [calls EXCEPT ![s] = failed(calls[s])]
      /\ UNCHANGED <<world, cache, shown, poller>>
  <2>1. calls \in [Source -> Call]
    BY TypeFacts DEF TypeOK
  <2> QED BY <2>1 DEF Fail, Call
<1>2. \A c \in Call :
         /\ failed(c) \in Call /\ failed(c).fresh = answer(c) /\ failed(c).fallback = TRUE
         /\ failed(c).cached = c.cached /\ failed(c).response = c.response
         /\ failed(c).overlaps = c.overlaps /\ failed(c).through = c.through
         /\ answer(c) <= version
  <2> SUFFICES ASSUME NEW c \in Call
               PROVE  /\ failed(c) \in Call /\ failed(c).fresh = answer(c)
                      /\ failed(c).fallback = TRUE
                      /\ failed(c).cached = c.cached /\ failed(c).response = c.response
                      /\ failed(c).overlaps = c.overlaps /\ failed(c).through = c.through
                      /\ answer(c) <= version
    OBVIOUS
  <2>1. answer(c) \in Version /\ answer(c) <= version
    BY TypeFacts, ConstantFacts DEF BoundInv, Version
  <2>2. answer(c) \in Answer
    BY <2>1, ConstantFacts
  <2> HIDE DEF answer
  <2> QED BY <2>1, <2>2 DEF Call
<1>3. CASE s = "first"
  <2> DEFINE r == failed(First)
  <2>1. First.fresh # Off /\ calls' = [calls EXCEPT !["first"] = r]
    BY <1>1, <1>3, ConstantFacts, Zenon DEF First
  <2>2. /\ r \in Call /\ r.fresh <= version /\ r.fallback = TRUE /\ r.cached = First.cached
        /\ r.response = First.response /\ r.overlaps = First.overlaps
    BY <1>2, TypeFacts
  <2> HIDE DEF r
  <2>3. First # Idle
    BY <2>1, TypeFacts, CallFacts
  <2>4. r.cached \in Version => r.cached <= version
    BY <2>2, TypeFacts DEF BoundInv, Bounded
  <2> QED BY <1>1, <2>1, <2>2, <2>3, <2>4, FirstStep
<1>4. CASE s = "poll"
  <2> DEFINE r == failed(Polled)
  <2>1. Polled.fresh # Off /\ calls' = [calls EXCEPT !["poll"] = r]
    BY <1>1, <1>4, ConstantFacts, Zenon DEF Polled
  <2>2. /\ r \in Call /\ r.fresh <= version /\ r.fallback = TRUE /\ r.cached = Polled.cached
        /\ r.response = Polled.response /\ r.overlaps = Polled.overlaps
        /\ r.fresh = 0 /\ r.through => cache = 0
    BY <1>2, TypeFacts
  <2> HIDE DEF r
  <2>3. Polled # Idle
    BY <2>1, TypeFacts, CallFacts
  <2>4. r.cached \in Version => r.cached <= version
    BY <2>2, TypeFacts DEF BoundInv, Bounded
  <2> QED BY <1>1, <2>1, <2>2, <2>3, <2>4, PolledStep
<1> QED BY <1>3, <1>4 DEF Source

\* An answer is cut off: the page gets none.
LEMMA CutOffStep == ASSUME IInv, NEW s \in Source, CutOff(s) PROVE IInv'
<1>1. /\ calls[s].fresh \in Version /\ calls[s].fresh # 0 /\ ~calls[s].fallback
      /\ calls' = [calls EXCEPT ![s] = [calls[s] EXCEPT !.fresh = 0]]
      /\ UNCHANGED <<world, cache, shown, poller>>
  BY ConstantFacts DEF CutOff, Version
<1>2. 0 \in Version /\ 0 \in Answer /\ 0 <= version
  BY TypeFacts, ConstantFacts DEF Version
<1>3. CASE s = "first"
  <2> DEFINE r == [First EXCEPT !.fresh = 0]
  <2>1. First.fresh \in Version /\ calls' = [calls EXCEPT !["first"] = r]
    BY <1>1, <1>3, Zenon DEF First
  <2>2. /\ r \in Call /\ r.fresh = 0 /\ r.cached = First.cached /\ r.response = First.response
        /\ r.overlaps = First.overlaps /\ r.fallback = First.fallback
        /\ r.freshContentPending = First.freshContentPending
    BY <1>2, TypeFacts DEF Call
  <2> HIDE DEF r
  <2>3. First # Idle /\ First.fresh # Off
    BY <2>1, TypeFacts, CallFacts, ConstantFacts
  <2>4. r.cached \in Version => r.cached <= version
    BY <2>2, TypeFacts DEF BoundInv, Bounded
  <2> QED BY <1>1, <1>2, <2>1, <2>2, <2>3, <2>4, FirstStep
<1>4. CASE s = "poll"
  <2> DEFINE r == [Polled EXCEPT !.fresh = 0]
  <2>1. /\ Polled.fresh \in Version /\ ~Polled.fallback
        /\ calls' = [calls EXCEPT !["poll"] = r]
    BY <1>1, <1>4, Zenon DEF Polled
  <2>2. /\ r \in Call /\ r.fresh = 0 /\ r.cached = Polled.cached /\ r.response = Polled.response
        /\ r.overlaps = Polled.overlaps /\ r.fallback = Polled.fallback
    BY <1>2, TypeFacts DEF Call
  <2> HIDE DEF r
  <2>3. Polled # Idle
    BY <2>1, TypeFacts, CallFacts, ConstantFacts
  <2>4. r.cached \in Version => r.cached <= version
    BY <2>2, TypeFacts DEF BoundInv, Bounded
  <2> QED BY <1>1, <1>2, <2>1, <2>2, <2>3, <2>4, PolledStep
<1> QED BY <1>3, <1>4 DEF Source

LEMMA SettleFacts ==
    ASSUME NEW c \in Call
    PROVE  /\ Settle(c) \in Call
           /\ Settle(c) # Idle => Settle(c) = c /\ (c.cached # Off \/ c.fresh # Off)
           /\ Bounded(c) /\ version >= 0 => Bounded(Settle(c))
BY IdleFacts, ConstantFacts DEF Settle, Bounded

\* A page handles an answer for the first request: polls, if there are any, overlap
\* with it and say so.
LEMMA HandleStep ==
    ASSUME IInv, First # Idle, NEW r \in Call, calls' = [calls EXCEPT !["first"] = Settle(r)],
           UNCHANGED <<world, poller>>, cache' \in Version, shown' \in Version,
           cache' <= version, shown' <= version, Bounded(r),
           r.overlaps = First.overlaps, r.fallback = First.fallback,
           (r.cached # Off \/ r.fresh # Off) /\ ~First.overlaps /\ ~First.fallback =>
              /\ r.cached # Off => r.response = 0
              /\ r.cached # Off /\ r.freshContentPending => shown' = 0
              /\ r.fresh # Off => r.freshContentPending /\ shown' = r.response
              /\ r.fresh \in Version /\ r.fresh # 0 =>
                   /\ cache' <= r.fresh /\ r.response <= r.fresh
                   /\ r.cached \in Version => r.cached <= r.fresh
    PROVE  IInv'
<1>1. Settle(r) \in Call
  BY SettleFacts
<1>2. calls' \in [Source -> Call] /\ First' = Settle(r) /\ Polled' = Polled
  BY <1>1, TypeFacts, UpdateFirst
<1>3. UNCHANGED <<online, outages, controlled, version, ready, timer, broken>>
  BY DEF world, poller
<1>4. TypeOK'
  BY <1>2, <1>3, TypeFacts DEF TypeOK, Polled, Version
<1>5. BoundInv'
  <2>1. version >= 0
    BY TypeFacts, ConstantFacts DEF Version
  <2>2. Bounded(Settle(r)) /\ Bounded(Polled)
    BY <2>1, SettleFacts, TypeFacts DEF BoundInv
  <2> QED BY <1>2, <1>3, <2>2 DEF BoundInv, Bounded
<1>6. Polled = Idle \/ (First.overlaps /\ Polled.overlaps)
  <2>1. CASE Polled = Idle
    BY <2>1
  <2>2. CASE Polled # Idle
    <3>1. First.overlaps
      BY <2>2, TypeFacts DEF OverlapInv
    <3>2. Polled.overlaps
      BY <2>2, TypeFacts DEF OverlapInv
    <3> QED BY <3>1, <3>2
  <2> QED BY <2>1, <2>2
<1>7. ready
  BY TypeFacts DEF OverlapInv
<1>8. Settle(r) # Idle => Settle(r) = r /\ (r.cached # Off \/ r.fresh # Off)
  BY SettleFacts
<1>9. OverlapInv'
  BY <1>2, <1>3, <1>6, <1>7, <1>8 DEF OverlapInv
<1>10. FirstInv'
  BY <1>2, <1>8 DEF FirstInv
<1>11. PollInv'
  BY <1>2, <1>6 DEF PollInv
<1> QED BY <1>4, <1>5, <1>9, <1>10, <1>11 DEF IInv

LEMMA LoadCachedStep == ASSUME IInv, LoadCached PROVE IInv'
<1>1. /\ First.cached \in Version /\ First # Idle /\ First.cached # Off
      /\ UNCHANGED <<world, cache, poller>>
  BY TypeFacts, CallFacts, ConstantFacts DEF LoadCached, First
<1>2. CASE First.cached # 0 /\ First.freshContentPending
  <2> DEFINE r == [First EXCEPT !.cached = Off, !.response = First.cached]
  <2>1. shown' = First.cached /\ calls' = [calls EXCEPT !["first"] = Settle(r)]
    BY <1>2 DEF LoadCached, First
  <2>2. /\ r \in Call /\ r.cached = Off /\ r.response = First.cached /\ r.fresh = First.fresh
        /\ r.freshContentPending = First.freshContentPending
        /\ r.overlaps = First.overlaps /\ r.fallback = First.fallback
    BY <1>1, TypeFacts, ConstantFacts DEF Call, Version
  <2> HIDE DEF r
  <2>3. Bounded(r) /\ shown' <= version
    BY <1>1, <2>1, <2>2, TypeFacts, ConstantFacts DEF BoundInv, Bounded
  <2>4. ~First.overlaps /\ ~First.fallback /\ First.fresh \in Version /\ First.fresh # 0 =>
           cache <= First.fresh /\ First.cached <= First.fresh
    BY <1>1, TypeFacts DEF FirstInv
  <2>5. cache' = cache /\ cache' \in Version /\ cache' <= version
    BY <1>1, TypeFacts DEF BoundInv
  <2>6. /\ r.cached # Off => r.response = 0
        /\ r.cached # Off /\ r.freshContentPending => shown' = 0
        /\ r.fresh # Off => r.freshContentPending /\ shown' = r.response
        /\ r.cached \in Version => r.cached <= r.fresh
    BY <1>2, <2>1, <2>2, ConstantFacts
  <2>7. ~First.overlaps /\ ~First.fallback /\ r.fresh \in Version /\ r.fresh # 0 =>
           cache' <= r.fresh /\ r.response <= r.fresh
    BY <2>2, <2>4, <2>5
  <2>8. shown' \in Version /\ UNCHANGED <<world, poller>>
    BY <1>1, <2>1
  <2> QED BY <1>1, <2>1, <2>2, <2>3, <2>5, <2>6, <2>7, <2>8, HandleStep
<1>3. CASE ~(First.cached # 0 /\ First.freshContentPending)
  <2> DEFINE r == [First EXCEPT !.cached = Off]
  <2>1. shown' = shown /\ calls' = [calls EXCEPT !["first"] = Settle(r)]
    BY <1>3 DEF LoadCached, First
  <2>2. /\ r \in Call /\ r.cached = Off /\ r.response = First.response /\ r.fresh = First.fresh
        /\ r.freshContentPending = First.freshContentPending
        /\ r.overlaps = First.overlaps /\ r.fallback = First.fallback
    BY <1>1, TypeFacts, ConstantFacts DEF Call, Version
  <2> HIDE DEF r
  <2>3. Bounded(r) /\ shown' <= version /\ shown' \in Version
    BY <1>1, <2>1, <2>2, TypeFacts, ConstantFacts DEF BoundInv, Bounded
  <2>4. ~First.overlaps /\ ~First.fallback =>
           /\ First.fresh # Off => First.freshContentPending /\ shown = First.response
           /\ First.fresh \in Version /\ First.fresh # 0 =>
                cache <= First.fresh /\ First.response <= First.fresh
    BY <1>1, TypeFacts DEF FirstInv
  <2>5. cache' = cache /\ cache' \in Version /\ cache' <= version
    BY <1>1, TypeFacts DEF BoundInv
  <2> QED BY <1>1, <2>1, <2>2, <2>3, <2>4, <2>5, ConstantFacts, HandleStep
<1> QED BY <1>2, <1>3

LEMMA CachedFacts ==
    ASSUME IInv, NEW c \in Call, c.fresh \in Version, Bounded(c)
    PROVE  Cached(c) \in Version /\ Cached(c) <= version
BY TypeFacts DEF Cached, Bounded, BoundInv

LEMMA LoadFreshStep == ASSUME IInv, LoadFresh PROVE IInv'
<1>1. /\ First.fresh \in Version /\ First # Idle /\ First.fresh # Off
      /\ cache' = Cached(First) /\ UNCHANGED <<world, poller>>
  BY TypeFacts, CallFacts, ConstantFacts DEF LoadFresh, First
<1>2. cache' \in Version /\ cache' <= version
  BY <1>1, TypeFacts, CachedFacts DEF BoundInv
<1>3. ~First.overlaps /\ ~First.fallback =>
         /\ First.cached # Off => First.response = 0
         /\ First.cached # Off /\ First.freshContentPending => shown = 0
  BY <1>1, TypeFacts DEF FirstInv
<1>4. CASE First.fresh # 0 /\ First.fresh # First.response
  <2> DEFINE r == [First EXCEPT !.fresh = Off, !.freshContentPending = FALSE]
  <2>1. shown' = First.fresh /\ calls' = [calls EXCEPT !["first"] = Settle(r)]
    BY <1>4 DEF LoadFresh, First
  <2>2. /\ r \in Call /\ r.cached = First.cached /\ r.response = First.response /\ r.fresh = Off
        /\ r.freshContentPending = FALSE
        /\ r.overlaps = First.overlaps /\ r.fallback = First.fallback
    BY TypeFacts, ConstantFacts DEF Call
  <2> HIDE DEF r
  <2>3. Bounded(r) /\ shown' <= version
    BY <1>1, <2>1, <2>2, TypeFacts, ConstantFacts DEF BoundInv, Bounded
  <2> QED BY <1>1, <1>2, <1>3, <2>1, <2>2, <2>3, ConstantFacts, HandleStep
<1>5. CASE ~(First.fresh # 0 /\ First.fresh # First.response)
  <2> DEFINE r == [First EXCEPT !.fresh = Off]
  <2>1. shown' = shown /\ calls' = [calls EXCEPT !["first"] = Settle(r)]
    BY <1>5 DEF LoadFresh, First
  <2>2. /\ r \in Call /\ r.cached = First.cached /\ r.response = First.response /\ r.fresh = Off
        /\ r.freshContentPending = First.freshContentPending
        /\ r.overlaps = First.overlaps /\ r.fallback = First.fallback
    BY TypeFacts, ConstantFacts DEF Call
  <2> HIDE DEF r
  <2>3. Bounded(r) /\ shown' <= version /\ shown' \in Version
    BY <2>1, <2>2, TypeFacts, ConstantFacts DEF BoundInv, Bounded
  <2> QED BY <1>1, <1>2, <1>3, <2>1, <2>2, <2>3, ConstantFacts, HandleStep
<1> QED BY <1>4, <1>5

LEMMA LoadPollStep == ASSUME IInv, LoadPoll PROVE IInv'
<1>1. /\ Polled.fresh \in Version /\ Polled # Idle
      /\ cache' = Cached(Polled) /\ calls' = [calls EXCEPT !["poll"] = Idle]
      /\ shown' = IF Polled.fresh = 0 THEN shown ELSE Polled.fresh
      /\ timer' = (Polled.fresh # 0) /\ broken' = (broken \/ Polled.fresh = 0)
      /\ UNCHANGED <<online, outages, controlled, version, ready>>
  BY TypeFacts, CallFacts, ConstantFacts DEF LoadPoll, Polled, world
<1>2. cache' \in Version /\ cache' <= version
  BY <1>1, TypeFacts, CachedFacts DEF BoundInv
<1>3. shown' \in Version /\ shown' <= version
  BY <1>1, TypeFacts DEF BoundInv, Bounded
<1>4. calls' \in [Source -> Call] /\ Polled' = Idle /\ First' = First
  BY <1>1, TypeFacts, IdleFacts, UpdatePolled
<1>5. ready /\ (First = Idle \/ First.overlaps)
  BY <1>1, TypeFacts, CallFacts DEF OverlapInv
<1>6. TypeOK'
  <2>1. timer' \in BOOLEAN /\ broken' \in BOOLEAN
    BY <1>1
  <2> QED BY <1>1, <1>2, <1>3, <1>4, <2>1, TypeFacts DEF TypeOK, Polled, Version
<1>7. BoundInv'
  <2>1. Bounded(Idle)
    BY IdleFacts, ConstantFacts, TypeFacts DEF Bounded, Version
  <2> QED BY <1>1, <1>2, <1>3, <1>4, <2>1, TypeFacts DEF BoundInv, Bounded
<1>8. OverlapInv' /\ FirstInv' /\ PollInv'
  BY <1>1, <1>4, <1>5 DEF OverlapInv, FirstInv, PollInv
<1> QED BY <1>6, <1>7, <1>8 DEF IInv

LEMMA StepInv == IInv /\ [Next]_vars => IInv'
<1> SUFFICES ASSUME IInv, [Next]_vars PROVE IInv'
  OBVIOUS
<1>0. TypeOK
  BY TypeFacts
<1>1. CASE Disconnect
  <2>1. /\ online' = FALSE /\ outages < MaxOutages /\ outages' = outages + 1
        /\ UNCHANGED <<controlled, version, cache, calls, shown, ready, timer, broken>>
    BY <1>1 DEF Disconnect, poller
  <2>2. TypeOK'
    <3>1. outages' \in 0..MaxOutages
      BY <1>0, <2>1, ConstantFacts DEF TypeOK
    <3>2. {online', controlled', ready', timer', broken'} \subseteq BOOLEAN
      BY <1>0, <2>1 DEF TypeOK
    <3>3. /\ version' \in 1..MaxVersion /\ cache' \in 0..MaxVersion
          /\ calls' \in [Source -> Call] /\ shown' \in 0..MaxVersion
          /\ timer' => calls'["poll"] = Idle
      BY <1>0, <2>1 DEF TypeOK
    <3> QED BY <3>1, <3>2, <3>3 DEF TypeOK
  <2> QED BY <1>0, <2>1, <2>2, WorldStep DEF TypeOK
<1>2. CASE Connect
  <2>1. /\ online' = TRUE
        /\ UNCHANGED <<outages, controlled, version, cache, calls, shown, ready, timer, broken>>
    BY <1>2 DEF Connect, poller
  <2>2. TypeOK'
    BY <1>0, <2>1 DEF TypeOK
  <2> QED BY <1>0, <2>1, <2>2, WorldStep DEF TypeOK
<1>3. CASE Publish
  <2>1. /\ version < MaxVersion /\ version' = version + 1
        /\ UNCHANGED <<online, outages, controlled, cache, calls, shown, ready, timer, broken>>
    BY <1>3 DEF Publish, poller
  <2>2. TypeOK'
    BY <1>0, <2>1, ConstantFacts DEF TypeOK
  <2> QED BY <1>0, <2>1, <2>2, WorldStep DEF TypeOK
<1>4. CASE Claim
  <2>1. /\ controlled' = TRUE
        /\ UNCHANGED <<online, outages, version, cache, calls, shown, ready, timer, broken>>
    BY <1>4 DEF Claim, poller
  <2>2. TypeOK'
    BY <1>0, <2>1 DEF TypeOK
  <2> QED BY <1>0, <2>1, <2>2, WorldStep DEF TypeOK
<1>5. CASE Detach
  <2>1. /\ timer' = FALSE /\ broken' = TRUE
        /\ UNCHANGED <<online, outages, controlled, version, cache, calls, shown, ready>>
    BY <1>5 DEF Detach, world
  <2>2. TypeOK'
    BY <1>0, <2>1 DEF TypeOK
  <2> QED BY <1>0, <2>1, <2>2, WorldStep DEF TypeOK
<1>6. CASE UNCHANGED vars
  <2>1. UNCHANGED <<online, outages, controlled, version, cache, calls, shown, ready, timer,
                    broken>>
    BY <1>6 DEF vars, world, poller
  <2>2. TypeOK'
    BY <1>0, <2>1 DEF TypeOK
  <2> QED BY <1>0, <2>1, <2>2, WorldStep DEF TypeOK
<1> QED BY <1>1, <1>2, <1>3, <1>4, <1>5, <1>6, ReadyStep, PollStep, ReadCacheStep, ServerStep,
           FailStep, CutOffStep, LoadCachedStep, LoadFreshStep, LoadPollStep DEF Next

LEMMA Inductive == Spec => []IInv
BY InitInv, StepInv, PTL DEF Spec

-----------------------------------------------------------------------------
(* The theorems.                                                           *)

\* Every variable keeps its type; in particular the timer is never set while a
\* poll is under way.
THEOREM TypeCorrect == Spec => []TypeOK
<1>1. IInv => TypeOK
  BY DEF IInv
<1> QED BY <1>1, Inductive, PTL

\* The page never goes back to older posts, but for polls that overlap with the
\* first request and answers from the cache when the network fails.
THEOREM NeverBack == Spec => NoStepBack
<1> DEFINE Excused == \E s \in Source : calls[s].overlaps \/ calls[s].fallback
<1>1. ASSUME IInv, [Next]_vars, shown' < shown PROVE Excused
  <2>0. shown \in Version /\ shown \in Nat
    BY <1>1, TypeFacts, ConstantFacts DEF Version
  <2> SUFFICES ASSUME ~First.overlaps, ~First.fallback, ~Polled.overlaps, ~Polled.fallback
               PROVE  FALSE
    BY DEF First, Polled, Source
  <2>1. CASE LoadCached
    <3>1. First.cached \in Version /\ First # Idle /\ First.cached # Off
      BY <1>1, <2>1, TypeFacts, CallFacts, ConstantFacts DEF LoadCached, First
    <3>2. shown' = shown \/ (First.freshContentPending /\ shown' = First.cached)
      <4>1. CASE First.cached # 0 /\ First.freshContentPending
        BY <2>1, <4>1 DEF LoadCached, First
      <4>2. CASE ~(First.cached # 0 /\ First.freshContentPending)
        BY <2>1, <4>2 DEF LoadCached, First
      <4> QED BY <4>1, <4>2
    <3>3. First.freshContentPending => shown = 0
      BY <1>1, <3>1, TypeFacts DEF FirstInv
    <3> QED BY <1>1, <2>0, <3>1, <3>2, <3>3, ConstantFacts DEF Version
  <2>2. CASE LoadFresh
    <3>1. First.fresh \in Version /\ First # Idle /\ First.fresh # Off
      BY <1>1, <2>2, TypeFacts, CallFacts, ConstantFacts DEF LoadFresh, First
    <3>2. shown' = shown \/ (First.fresh # 0 /\ shown' = First.fresh)
      BY <2>2 DEF LoadFresh, First
    <3>3. First.fresh # 0 => shown <= First.fresh
      BY <1>1, <3>1, TypeFacts DEF FirstInv
    <3> QED BY <1>1, <2>0, <3>1, <3>2, <3>3, ConstantFacts DEF Version
  <2>3. CASE LoadPoll
    <3>1. Polled.fresh \in Version /\ Polled # Idle
      BY <1>1, <2>3, TypeFacts, CallFacts, ConstantFacts DEF LoadPoll, Polled
    <3>2. shown' = shown \/ (Polled.fresh # 0 /\ shown' = Polled.fresh)
      BY <2>3 DEF LoadPoll, Polled
    <3>3. Polled.fresh # 0 => Polled.fresh >= shown
      BY <1>1, <3>1, TypeFacts DEF PollInv
    <3> QED BY <1>1, <2>0, <3>1, <3>2, <3>3, ConstantFacts DEF Version
  <2>4. CASE shown' = shown
    BY <1>1, <2>0, <2>4
  <2>5. CASE Disconnect \/ Connect \/ Publish \/ Claim \/ Ready \/ Poll \/ Detach
    BY <2>4, <2>5 DEF Disconnect, Connect, Publish, Claim, Ready, Poll, Detach
  <2>6. CASE \E s \in Source : ReadCache(s) \/ ServerAnswers(s) \/ Fail(s) \/ CutOff(s)
    BY <2>4, <2>6 DEF ReadCache, ServerAnswers, Fail, CutOff
  <2>7. CASE UNCHANGED vars
    BY <2>4, <2>7 DEF vars
  <2> QED BY <1>1, <2>1, <2>2, <2>3, <2>5, <2>6, <2>7 DEF Next
<1>2. IInv /\ [Next]_vars => [shown' < shown => Excused]_vars
  BY <1>1
<1> QED BY <1>2, Inductive, PTL DEF Spec, NoStepBack

\* Once the feed is cached, a poll that gets no answer from the network does not
\* end the chain of polls; one whose answer is cut off after its headers does.
THEOREM Survives == Spec => OutageSurvived
<1> DEFINE Excused == \/ timer
                      \/ ~calls["poll"].fallback
                      \/ ~calls["poll"].through
                      \/ cache = 0
                      \/ calls["poll"].overlaps
<1>1. ASSUME IInv, [Next]_vars, broken', ~broken PROVE Excused
  <2> SUFFICES ASSUME ~timer, Polled.fallback, Polled.through, cache # 0, ~Polled.overlaps PROVE FALSE
    BY DEF Polled
  <2>1. CASE LoadPoll
    <3>1. Polled.fresh = 0 /\ Polled # Idle
      BY <1>1, <2>1, TypeFacts, CallFacts, ConstantFacts DEF LoadPoll, Polled
    <3> QED BY <1>1, <3>1, TypeFacts DEF PollInv
  <2>2. CASE Detach
    BY <2>2 DEF Detach
  <2>3. CASE UNCHANGED broken
    BY <1>1, <2>3
  <2>4. CASE Disconnect \/ Connect \/ Publish \/ Claim \/ Ready \/ Poll \/ LoadCached \/ LoadFresh
    BY <2>3, <2>4 DEF Disconnect, Connect, Publish, Claim, Ready, Poll, LoadCached, LoadFresh, poller
  <2>5. CASE \E s \in Source : ReadCache(s) \/ ServerAnswers(s) \/ Fail(s) \/ CutOff(s)
    BY <2>3, <2>5 DEF ReadCache, ServerAnswers, Fail, CutOff, poller
  <2>6. CASE UNCHANGED vars
    BY <2>3, <2>6 DEF vars, poller
  <2> QED BY <1>1, <2>1, <2>2, <2>4, <2>5, <2>6 DEF Next
<1>2. IInv /\ [Next]_vars => [broken' /\ ~broken => Excused]_vars
  BY <1>1
<1> QED BY <1>2, Inductive, PTL DEF Spec, OutageSurvived

=============================================================================
