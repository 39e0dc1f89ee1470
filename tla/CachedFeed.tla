------------------------------ MODULE CachedFeed ------------------------------
(***************************************************************************)
(* The social feed of a page, through the service worker's cache           *)
(* A first request by cacheThenNetwork (helper/request.js) asks for the    *)
(* cached and the fresh answer at once; elements/social-poller.html then   *)
(* polls.  When a worker controls the page it answers the first from the   *)
(* cache and the others from the network, or from the cache when the       *)
(* network fails (sw-toolbox/cache-then-network.js).                       *)
(*                                                                         *)
(* Answers arrive in any order, the network goes away, and a worker may    *)
(* claim the page at any time (service-worker-registration.js).            *)
(***************************************************************************)
EXTENDS Naturals

CONSTANTS
    Off, Sent,   \* states of a request
    MaxVersion,  \* bound: versions of the feed
    MaxOutages   \* bound: times the network goes away

ASSUME FeedAssumption ==
    /\ MaxVersion \in Nat \ {0}
    /\ MaxOutages \in Nat
    /\ Off # Sent
    /\ {Off, Sent} \cap (0..MaxVersion) = {}

VARIABLES
    online,      \* the network
    outages,     \* how often it has gone away
    controlled,  \* navigator.serviceWorker.controller is set
    version,     \* server: the version of the feed
    cache,       \* the version in the worker's cache, 0 for none
    calls,       \* the page's requests
    shown,       \* the version the page shows, 0 for none
    ready,       \* the poller is there
    timer,       \* _updateSocialPostsTimeout is set
    broken       \* history: the chain of polls was cut by an error or detached()

world == <<online, outages, controlled, version>>
poller == <<ready, timer, broken>>
vars == <<world, cache, calls, shown, poller>>

\* Requests of the page: by cacheThenNetwork, and by updateSocialPosts.
Source == {"first", "poll"}

\* cached, fresh: not sent, on the way there, or the answer on its way back,
\* which is 0 if it is empty or an error.  fallback: no answer came from the
\* network, and the worker that got the request looks into its cache.  response
\* is cachedResponse.
\* overlaps (history): a poll was sent before the first request was complete.
Answer == {Off, Sent} \cup 0..MaxVersion
Call ==
    [through : BOOLEAN, fallback : BOOLEAN, cached : Answer, fresh : Answer,
     freshContentPending : BOOLEAN, response : 0..MaxVersion, overlaps : BOOLEAN]

Idle == [through |-> FALSE, fallback |-> FALSE, cached |-> Off, fresh |-> Off,
         freshContentPending |-> FALSE, response |-> 0, overlaps |-> FALSE]

TypeOK ==
    /\ outages \in 0..MaxOutages
    /\ version \in 1..MaxVersion
    /\ cache \in 0..MaxVersion
    /\ calls \in [Source -> Call]
    /\ shown \in 0..MaxVersion
    /\ {online, controlled, ready, timer, broken} \subseteq BOOLEAN
    /\ timer => calls["poll"] = Idle

\* An earlier visit has left a worker and maybe a cached feed, or nothing.
Init ==
    /\ online = TRUE
    /\ outages = 0
    /\ controlled \in BOOLEAN
    /\ version = 1
    /\ cache \in IF controlled THEN {0, 1} ELSE {0}
    /\ calls = [s \in Source |-> Idle]
    /\ shown = 0
    /\ ready = FALSE /\ timer = FALSE /\ broken = FALSE

Disconnect ==
    /\ online
    /\ outages < MaxOutages
    /\ online' = FALSE
    /\ outages' = outages + 1
    /\ UNCHANGED <<controlled, version, cache, calls, shown, poller>>

Connect ==
    /\ ~online
    /\ online' = TRUE
    /\ UNCHANGED <<outages, controlled, version, cache, calls, shown, poller>>

Publish ==
    /\ version < MaxVersion
    /\ version' = version + 1
    /\ UNCHANGED <<online, outages, controlled, cache, calls, shown, poller>>

\* register(), and the worker that is activated claims the page.
Claim ==
    /\ ~controlled
    /\ controlled' = TRUE
    /\ UNCHANGED <<online, outages, version, cache, calls, shown, poller>>

-----------------------------------------------------------------------------
\* ready() of the poller: cacheThenNetwork, and the timer of the first poll.
Ready ==
    /\ ~ready
    /\ ready' = TRUE
    /\ timer' = TRUE
    /\ calls' = [calls EXCEPT !["first"] =
                   [through |-> controlled, fallback |-> FALSE,
                    cached |-> IF controlled THEN Sent ELSE Off, fresh |-> Sent,
                    freshContentPending |-> TRUE, response |-> 0, overlaps |-> FALSE]]
    /\ UNCHANGED <<world, cache, shown, broken>>

\* Mutant: setInterval instead of setTimeout.
PollEvery ==
    /\ timer
    /\ UNCHANGED timer
    /\ LET overlaps == calls["first"] # Idle IN
       calls' = [calls EXCEPT
         !["first"].overlaps = overlaps,
         !["poll"] = [Idle EXCEPT !.through = controlled, !.fresh = Sent, !.overlaps = overlaps]]
    /\ UNCHANGED <<world, cache, shown, ready, broken>>

\* The timer fires: updateSocialPosts.
Poll ==
    /\ timer
    /\ timer' = FALSE
    /\ LET overlaps == calls["first"] # Idle IN
       calls' = [calls EXCEPT
         !["first"].overlaps = overlaps,
         !["poll"] = [Idle EXCEPT !.through = controlled, !.fresh = Sent, !.overlaps = overlaps]]
    /\ UNCHANGED <<world, cache, shown, ready, broken>>

\* detached() clears the timer, but not the request under way.
Detach ==
    /\ ready
    /\ timer
    /\ timer' = FALSE
    /\ broken' = TRUE
    /\ UNCHANGED <<world, cache, calls, shown, ready>>

\* cacheOnly: the worker answers from the cache, or with an empty response.
ReadCache(s) ==
    /\ calls[s].cached = Sent
    /\ calls' = [calls EXCEPT ![s].cached = cache]
    /\ UNCHANGED <<world, cache, shown, poller>>

ServerAnswers(s) ==
    /\ calls[s].fresh = Sent
    /\ online
    /\ calls' = [calls EXCEPT ![s].fresh = version]
    /\ UNCHANGED <<world, cache, shown, poller>>

\* Mutant: networkOnly.
FailNetworkOnly(s) ==
    /\ calls[s].fresh = Sent
    /\ ~online
    /\ calls' = [calls EXCEPT ![s].fresh = 0, ![s].fallback = TRUE]
    /\ UNCHANGED <<world, cache, shown, poller>>

\* No answer: networkFirst falls back on the cache.  A server error has the same
\* effects.
Fail(s) ==
    /\ calls[s].fresh = Sent
    /\ ~online
    /\ calls' = [calls EXCEPT
         ![s].fresh = IF calls[s].through THEN cache ELSE 0,
         ![s].fallback = TRUE]
    /\ UNCHANGED <<world, cache, shown, poller>>

\* The connection is lost after the headers of the answer: networkFirst has
\* returned the response by then, so that the request fails in the page, with
\* or without a worker, and nothing is cached.
CutOff(s) ==
    /\ calls[s].fresh \in 1..MaxVersion
    /\ ~calls[s].fallback
    /\ ~online
    /\ calls' = [calls EXCEPT ![s].fresh = 0]
    /\ UNCHANGED <<world, cache, shown, poller>>

Settle(c) == IF c.cached = Off /\ c.fresh = Off THEN Idle ELSE c

\* Mutant: a cached answer is shown whenever it comes.
LoadCachedLate ==
    LET c == calls["first"] IN
    /\ c.cached \notin {Off, Sent}
    /\ IF c.cached # 0
       THEN /\ shown' = c.cached
            /\ calls' = [calls EXCEPT !["first"] =
                           Settle([c EXCEPT !.cached = Off, !.response = c.cached])]
       ELSE /\ calls' = [calls EXCEPT !["first"] = Settle([c EXCEPT !.cached = Off])]
            /\ UNCHANGED shown
    /\ UNCHANGED <<world, cache, poller>>

\* cachedXhr.onload.
LoadCached ==
    LET c == calls["first"] IN
    /\ c.cached \notin {Off, Sent}
    /\ IF c.cached # 0 /\ c.freshContentPending
       THEN /\ shown' = c.cached
            /\ calls' = [calls EXCEPT !["first"] =
                           Settle([c EXCEPT !.cached = Off, !.response = c.cached])]
       ELSE /\ calls' = [calls EXCEPT !["first"] = Settle([c EXCEPT !.cached = Off])]
            /\ UNCHANGED shown
    /\ UNCHANGED <<world, cache, poller>>

\* The worker caches what came from the network on its way to the page.
Cached(c) == IF c.through /\ ~c.fallback /\ c.fresh # 0 THEN c.fresh ELSE cache

\* freshXhr.onload, or an error that nobody handles.
LoadFresh ==
    LET c == calls["first"] IN
    /\ c.fresh \notin {Off, Sent}
    /\ cache' = Cached(c)
    /\ IF c.fresh # 0 /\ c.fresh # c.response
       THEN /\ shown' = c.fresh
            /\ calls' = [calls EXCEPT !["first"] =
                           Settle([c EXCEPT !.fresh = Off, !.freshContentPending = FALSE])]
       ELSE /\ calls' = [calls EXCEPT !["first"] = Settle([c EXCEPT !.fresh = Off])]
            /\ UNCHANGED shown
    /\ UNCHANGED <<world, poller>>

\* Mutant: the timer is set again only when there are new posts.
LoadPollOfNews ==
    LET c == calls["poll"] IN
    /\ c.fresh \notin {Off, Sent}
    /\ cache' = Cached(c)
    /\ calls' = [calls EXCEPT !["poll"] = Idle]
    /\ shown' = IF c.fresh = 0 THEN shown ELSE c.fresh
    /\ timer' = (shown' # shown)
    /\ broken' = (broken \/ c.fresh = 0)
    /\ UNCHANGED <<world, ready>>

\* xhr.onload of a poll.  An error ends the chain of polls.
LoadPoll ==
    LET c == calls["poll"] IN
    /\ c.fresh \notin {Off, Sent}
    /\ cache' = Cached(c)
    /\ calls' = [calls EXCEPT !["poll"] = Idle]
    /\ shown' = IF c.fresh = 0 THEN shown ELSE c.fresh
    /\ timer' = (c.fresh # 0)
    /\ broken' = (broken \/ c.fresh = 0)
    /\ UNCHANGED <<world, ready>>

-----------------------------------------------------------------------------
Next ==
    \/ Disconnect \/ Connect \/ Publish \/ Claim
    \/ Ready \/ Poll \/ Detach \/ LoadCached \/ LoadFresh \/ LoadPoll
    \/ \E s \in Source : ReadCache(s) \/ ServerAnswers(s) \/ Fail(s) \/ CutOff(s)

Spec == Init /\ [][Next]_vars

\* The network comes back, timers fire, and requests are answered or fail.
Fairness ==
    /\ WF_vars(Connect)
    /\ WF_vars(Ready) /\ WF_vars(Poll)
    /\ WF_vars(LoadCached) /\ WF_vars(LoadFresh) /\ WF_vars(LoadPoll)
    /\ \A s \in Source : WF_vars(ReadCache(s)) /\ WF_vars(ServerAnswers(s) \/ Fail(s))

FairSpec == Spec /\ Fairness

-----------------------------------------------------------------------------
(* Properties                                                              *)

\* The page goes back to older posts only when a poll was sent before the first
\* request was complete, or when an answer comes from the cache because the
\* network failed: a late cached answer never replaces the fresh one, and a
\* cached answer never passes for a fresh one.
NoStepBack ==
    [][shown' < shown =>
         \E s \in Source : calls[s].overlaps \/ calls[s].fallback]_vars

\* The page catches up with the feed unless an error or detached() has cut the
\* chain of polls.
CatchesUp == <>[](shown = version) \/ <>broken

\* Once a worker has cached the feed, a poll that gets no answer from the network
\* does not end the chain of polls, since the worker answers it: only detached()
\* ends the chain, or an answer that is cut off after its headers, or a poll that
\* no worker or cache serves or that was sent before the first request had filled
\* the cache.
OutageSurvived ==
    [][broken' /\ ~broken =>
         \/ timer
         \/ ~calls["poll"].fallback
         \/ ~calls["poll"].through
         \/ cache = 0
         \/ calls["poll"].overlaps]_vars
=============================================================================
