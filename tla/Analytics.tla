------------------------------ MODULE Analytics ------------------------------
(***************************************************************************)
(* Hits of a page on their way to the analytics server                     *)
(*                                                                         *)
(* scripts/analytics.js queues what is tracked until the custom dimensions *)
(* are set, or until a timeout; the library that it loads from the server  *)
(* (analytics.js of Google Analytics, external) runs the commands it is    *)
(* given in their order.  scripts/bootstrap.js tracks promises that stay   *)
(* rejected for a while.  A worker that controls the page passes hits on,  *)
(* queues in IndexedDB those that fail, and replays the queue whenever its *)
(* script starts (sw-toolbox/offline-analytics.js).                        *)
(*                                                                         *)
(* The browser stops and starts workers, installs a new version of the     *)
(* script beside the active one (sw-toolbox and sw-precache skip the       *)
(* waiting state), and may kill a worker in the middle of its work.        *)
(***************************************************************************)
EXTENDS Naturals, SequencesExt, FiniteSets

CONSTANTS
    Ping,        \* hits, each with a URL of its own
    First,       \* the hit of the initial page view
    Page,        \* paths
    Home,        \* the path at the start
    Dimension,   \* requiredDimensions
    SignedIn,    \* the one that only google-signin can set
    None,
    Versions,    \* bound: versions of the service worker script
    MaxKills,    \* bound: workers killed
    MaxOutages,  \* bound: times the network goes away
    MaxFaults    \* bound: errors of IndexedDB

ASSUME AnalyticsAssumption ==
    /\ None \notin (1..Versions) \cup Page \cup Ping \cup Dimension
    /\ None \notin [page : Page, complete : BOOLEAN]
    /\ IsFiniteSet(Dimension)
    /\ First \in Ping
    /\ Home \in Page
    /\ SignedIn \in Dimension
    /\ Versions \in Nat \ {0}
    /\ {MaxKills, MaxOutages, MaxFaults} \subseteq Nat

VARIABLES
    online,      \* the network
    path,        \* location.pathname
    readyState,  \* readyState_ is resolved
    timeout,     \* READY_STATE_TIMEOUT_: set or fired
    waiting,     \* what is tracked and waits for readyState_
    commands,    \* commands the library has not run yet; it may never be loaded
    dimensions,  \* dimensions set on the tracker
    page,        \* page of the tracker
    hits,        \* of each ping: None, or what the hit says
    unhandledRejections,
    logTimer,    \* logRejectionTimeoutId is set
    state,       \* of each worker: new, installing, active or redundant
    running,     \* workers whose script runs
    controller,  \* navigator.serviceWorker.controller of the page
    fetches,     \* pings on their way, with the worker that handles them or None
    writes,      \* queueFailedAnalyticsRequest under way, by worker
    replays,     \* fetches of replayQueuedAnalyticsRequests under way
    queue,       \* IndexedDB: the pings to replay
    delivered,   \* pings at the analytics server: never, once, or 2 for more
    used,        \* how much of each bound has been used
    tracked,     \* history: of each ping, the path when it was tracked, or None
    handled,     \* history: rejections handled after all
    lost,        \* history: pings lost with a worker or an error, or sent without one
    expired,     \* history: pings given up
    repeatable   \* history: pings whose answer, or deletion, went missing

tracker == <<path, readyState, timeout, waiting, commands, dimensions, page, hits, tracked>>
rejections == <<unhandledRejections, logTimer, handled>>
lifecycle == <<state, running, controller>>
queues == <<fetches, writes, replays, queue, delivered, lost, expired, repeatable>>
vars == <<online, tracker, rejections, lifecycle, queues, used>>

Worker == 1..Versions

\* ga('set', dimension), or ga('set', 'page') if there is one and ga('send').
Command ==
    [dimension : Dimension, ping : {None}, page : {None}] \cup
    [dimension : {None}, ping : Ping, page : Page \cup {None}]

SetDimension(d) == [dimension |-> d, ping |-> None, page |-> None]
Send(p, to) == [dimension |-> None, ping |-> p, page |-> to]

Replay == [worker : Worker, ping : Ping, answered : BOOLEAN]

TypeOK ==
    /\ {online, readyState, timeout, logTimer} \subseteq BOOLEAN
    /\ {path, page} \subseteq Page
    /\ waiting \in Seq(Command) /\ commands \in Seq(Command)
    /\ readyState => waiting = <<>>
    /\ dimensions \subseteq Dimension
    /\ hits \in [Ping -> {None} \cup [page : Page, complete : BOOLEAN]]
    /\ tracked \in [Ping -> Page \cup {None}]
    /\ unhandledRejections \in Seq(Ping)
    /\ state \in [Worker -> {"new", "installing", "active", "redundant"}]
    /\ running \subseteq Worker
    /\ controller \in Worker \cup {None}
    /\ fetches \subseteq (Worker \cup {None}) \X Ping
    /\ writes \subseteq Worker \X Ping
    /\ replays \subseteq Replay
    /\ delivered \in [Ping -> 0..2]
    /\ used \in [{"kills", "outages", "faults"} -> Nat]
    /\ UNION {queue, handled, lost, expired, repeatable} \subseteq Ping

\* An earlier visit has left an active worker, or none.  The constructor sets the
\* online status, the permission and the status of the worker, and tracks the
\* initial page view.
Init ==
    /\ online = TRUE
    /\ path = Home /\ page = Home
    /\ readyState = FALSE /\ timeout = TRUE
    /\ waiting = <<Send(First, None)>>
    /\ \E order \in SetToSeqs(Dimension \ {SignedIn}) :
         commands = [i \in DOMAIN order |-> SetDimension(order[i])]
    /\ dimensions = {}
    /\ hits = [p \in Ping |-> None]
    /\ tracked = [p \in Ping |-> IF p = First THEN Home ELSE None]
    /\ unhandledRejections = <<>> /\ logTimer = FALSE /\ handled = {}
    /\ \E w \in {1, None} :
         /\ state = [v \in Worker |-> IF v = w THEN "active" ELSE "new"]
         /\ controller = w
    /\ running = {} /\ fetches = {} /\ writes = {} /\ replays = {} /\ queue = {}
    /\ delivered = [p \in Ping |-> 0]
    /\ used = [b \in {"kills", "outages", "faults"} |-> 0]
    /\ lost = {} /\ expired = {} /\ repeatable = {}

Use(bound, max) ==
    /\ used[bound] < max
    /\ used' = [used EXCEPT ![bound] = @ + 1]

\* What the library and the page do leaves the workers alone.
WorkersUnchanged ==
    UNCHANGED <<online, lifecycle, writes, replays, queue, delivered, used,
                lost, expired, repeatable>>

Disconnect ==
    /\ online
    /\ Use("outages", MaxOutages)
    /\ online' = FALSE
    /\ UNCHANGED <<tracker, rejections, lifecycle, queues>>

Connect ==
    /\ ~online
    /\ online' = TRUE
    /\ UNCHANGED <<tracker, rejections, lifecycle, queues, used>>

-----------------------------------------------------------------------------
(* The page                                                                *)

Unused(p) == tracked[p] = None /\ p \notin Range(unhandledRejections) \cup handled

\* Mutant: everything waits until the state resolves, even after that.
TrackAndWait(calls) == waiting' = waiting \o calls /\ UNCHANGED commands

\* What is tracked waits for readyState_ (waitForTrackerReady) and goes out in order.
Track(calls) ==
    IF readyState THEN commands' = commands \o calls /\ UNCHANGED waiting
                  ELSE waiting' = waiting \o calls /\ UNCHANGED commands

\* Mutant: the page is set at once, not when the page view is sent.
TrackPageViewAtOnce(p) ==
    /\ Unused(p)
    /\ \E to \in Page \ {path} :
         /\ path' = to
         /\ page' = to
         /\ Track(<<Send(p, None)>>)
         /\ tracked' = [tracked EXCEPT ![p] = to]
    /\ WorkersUnchanged
    /\ UNCHANGED <<readyState, timeout, dimensions, hits, rejections, fetches>>

\* The router has changed the path.
TrackPageView(p) ==
    /\ Unused(p)
    /\ \E to \in Page \ {path} :
         /\ path' = to
         /\ Track(<<Send(p, to)>>)
         /\ tracked' = [tracked EXCEPT ![p] = to]
    /\ WorkersUnchanged
    /\ UNCHANGED <<readyState, timeout, dimensions, page, hits, rejections, fetches>>

\* trackEvent, trackSocial, and trackPerf for each of its two hits.
TrackEvent(p) ==
    /\ Unused(p)
    /\ Track(<<Send(p, None)>>)
    /\ tracked' = [tracked EXCEPT ![p] = path]
    /\ WorkersUnchanged
    /\ UNCHANGED <<path, readyState, timeout, dimensions, page, hits, rejections, fetches>>

\* google-signin has looked whether the user is signed in.
UpdateTracker ==
    /\ SignedIn \notin dimensions
    /\ SetDimension(SignedIn) \notin Range(commands)
    /\ commands' = Append(commands, SetDimension(SignedIn))
    /\ WorkersUnchanged
    /\ UNCHANGED <<path, readyState, timeout, waiting, dimensions, page, hits,
                   tracked, rejections, fetches>>

\* What waits is handed to the library, before anything tracked later.
Resolve(rest, later) ==
    /\ readyState' = TRUE
    /\ waiting' = <<>>
    /\ commands' = rest \o waiting \o later

\* The timer of initTrackerReadyState, which also tracks that it has fired if
\* there is a ping left.
ReadyTimeout ==
    /\ timeout
    /\ timeout' = FALSE
    /\ IF \E p \in Ping : Unused(p)
       THEN \E p \in Ping :
              /\ Unused(p)
              /\ Resolve(commands, <<Send(p, None)>>)
              /\ tracked' = [tracked EXCEPT ![p] = path]
       ELSE Resolve(commands, <<>>) /\ UNCHANGED tracked
    /\ WorkersUnchanged
    /\ UNCHANGED <<path, dimensions, page, hits, rejections, fetches>>

\* The callback of updateTracker.
RunSet ==
    /\ commands # <<>>
    /\ Head(commands).dimension # None
    /\ dimensions' = dimensions \cup {Head(commands).dimension}
    /\ IF Dimension \subseteq dimensions'
       THEN Resolve(Tail(commands), <<>>)
       ELSE commands' = Tail(commands) /\ UNCHANGED <<readyState, waiting>>
    /\ WorkersUnchanged
    /\ UNCHANGED <<path, timeout, page, hits, tracked, rejections, fetches>>

\* The request goes through the worker that controls the page, which it starts.
RunSend ==
    /\ commands # <<>>
    /\ controller \in running \cup {None}
    /\ LET c == Head(commands) IN
         /\ c.ping # None
         /\ page' = IF c.page = None THEN page ELSE c.page
         /\ hits' = [hits EXCEPT ![c.ping] =
                       [page |-> page', complete |-> Dimension \subseteq dimensions]]
         /\ fetches' = fetches \cup {<<controller, c.ping>>}
    /\ commands' = Tail(commands)
    /\ WorkersUnchanged
    /\ UNCHANGED <<path, readyState, timeout, waiting, dimensions, tracked, rejections>>

\* The unhandledrejection event.
Reject(p) ==
    /\ Unused(p)
    /\ unhandledRejections' = Append(unhandledRejections, p)
    /\ logTimer' = TRUE
    /\ WorkersUnchanged
    /\ UNCHANGED <<tracker, handled, fetches>>

\* The rejectionhandled event.
RejectionHandled(p) ==
    /\ \E i \in DOMAIN unhandledRejections :
         /\ unhandledRejections[i] = p
         /\ unhandledRejections' = RemoveAt(unhandledRejections, i)
    /\ handled' = handled \cup {p}
    /\ WorkersUnchanged
    /\ UNCHANGED <<tracker, logTimer, fetches>>

TrackRejections ==
    /\ Track([i \in DOMAIN unhandledRejections |-> Send(unhandledRejections[i], None)])
    /\ tracked' = [p \in Ping |-> IF p \in Range(unhandledRejections) THEN path ELSE tracked[p]]

\* Mutant: nothing is reported before the ready state, and the timer is not set again.
LogRejectedPromisesIfReady ==
    /\ logTimer
    /\ IF readyState
       THEN TrackRejections /\ unhandledRejections' = <<>>
       ELSE UNCHANGED <<waiting, commands, tracked, unhandledRejections>>
    /\ logTimer' = FALSE
    /\ WorkersUnchanged
    /\ UNCHANGED <<path, readyState, timeout, dimensions, page, hits, handled, fetches>>

LogRejectedPromises ==
    /\ logTimer
    /\ TrackRejections
    /\ unhandledRejections' = <<>>
    /\ logTimer' = FALSE
    /\ WorkersUnchanged
    /\ UNCHANGED <<path, readyState, timeout, dimensions, page, hits, handled, fetches>>

-----------------------------------------------------------------------------
(* Life of the workers.  A script that starts replays the queue.           *)

\* Mutant: an entry is taken out of the queue before it is sent.
TakeQueued(w) ==
    /\ running' = running \cup {w}
    /\ replays' = replays \cup [worker : {w}, ping : queue, answered : {FALSE}]
    /\ queue' = {}
    /\ UNCHANGED <<repeatable, used>>

\* Mutant: the queue is replayed when a worker is installed, not when it starts.
ReplayAtInstall(w) ==
    LET queued == {p \in queue : state[w] = "new"} IN
    /\ running' = running \cup {w}
    /\ replays' = replays \cup [worker : {w}, ping : queued, answered : {FALSE}]
    /\ repeatable' = repeatable \cup (queued \cap {r.ping : r \in replays})
    /\ UNCHANGED <<queue, used>>

\* replayQueuedAnalyticsRequests; nothing is sent if the queue cannot be read.
StartScript(w) ==
    /\ running' = running \cup {w}
    /\ \/ /\ replays' = replays \cup [worker : {w}, ping : queue, answered : {FALSE}]
          /\ repeatable' = repeatable \cup (queue \cap {r.ping : r \in replays})
          /\ UNCHANGED used
       \/ /\ Use("faults", MaxFaults)
          /\ UNCHANGED <<replays, repeatable>>
    /\ UNCHANGED queue

Start(w) ==
    /\ state[w] = "active"
    /\ w \notin running
    /\ StartScript(w)
    /\ UNCHANGED <<online, state, controller, tracker, rejections, fetches, writes, delivered,
                   lost, expired>>

\* register(), or an update the browser finds by itself.  The script runs to be
\* installed.
Install(w) ==
    /\ state[w] = "new"
    /\ online
    /\ \A v \in Worker : state[v] # "installing" /\ (v < w => state[v] # "new")
    /\ state' = [state EXCEPT ![w] = "installing"]
    /\ StartScript(w)
    /\ UNCHANGED <<online, controller, tracker, rejections, fetches, writes, delivered,
                   lost, expired>>

\* The browser stops a worker that is idle, or kills one that is not.
Busy(w) ==
    \/ \E p \in Ping : <<w, p>> \in fetches \cup writes
    \/ \E r \in replays : r.worker = w

StopScript(w) ==
    /\ running' = running \ {w}
    /\ lost' = lost \cup {p \in Ping : <<w, p>> \in fetches \cup writes}
    /\ fetches' = {x \in fetches : x[1] # w}
    /\ writes' = {x \in writes : x[1] # w}
    /\ repeatable' = repeatable \cup {r.ping : r \in {r \in replays : r.worker = w}}
    /\ replays' = {r \in replays : r.worker # w}
    /\ UNCHANGED <<online, controller, tracker, rejections, queue, delivered, expired>>

Stop(w) ==
    /\ w \in running
    /\ state[w] # "installing"
    /\ ~Busy(w)
    /\ StopScript(w)
    /\ UNCHANGED <<state, used>>

Kill(w) ==
    /\ w \in running
    /\ Busy(w)
    /\ Use("kills", MaxKills)
    /\ state' = IF state[w] = "installing" THEN [state EXCEPT ![w] = "redundant"] ELSE state
    /\ StopScript(w)

\* The new worker takes over from the old one and claims the page.
Activate(w) ==
    /\ state[w] = "installing"
    /\ state' = [v \in Worker |->
                   CASE v = w -> "active"
                     [] state[v] = "active" -> "redundant"
                     [] OTHER -> state[v]]
    /\ controller' = w
    /\ UNCHANGED <<online, running, tracker, rejections, queues, used>>

\* A file the worker is to cache cannot be fetched.
InstallFails(w) ==
    /\ state[w] = "installing"
    /\ ~online
    /\ state' = [state EXCEPT ![w] = "redundant"]
    /\ UNCHANGED <<online, running, controller, tracker, rejections, queues, used>>

-----------------------------------------------------------------------------
(* The way to the server                                                   *)

Deliver(p) == delivered' = [delivered EXCEPT ![p] = IF @ = 0 THEN 1 ELSE 2]

PingAnswered(w, p) ==
    /\ <<w, p>> \in fetches
    /\ online
    /\ fetches' = fetches \ {<<w, p>>}
    /\ Deliver(p)
    /\ UNCHANGED <<online, lifecycle, tracker, rejections, writes, replays, queue, lost, expired,
                   repeatable, used>>

\* It may have reached the server.  The worker answers the page without waiting
\* for queueFailedAnalyticsRequest.
PingFails(w, p) ==
    /\ <<w, p>> \in fetches
    /\ ~online
    /\ fetches' = fetches \ {<<w, p>>}
    /\ \/ Deliver(p) /\ repeatable' = repeatable \cup {p}
       \/ UNCHANGED <<delivered, repeatable>>
    /\ IF w = None
       THEN lost' = lost \cup {p} /\ UNCHANGED writes
       ELSE writes' = writes \cup {<<w, p>>} /\ UNCHANGED lost
    /\ UNCHANGED <<online, lifecycle, tracker, rejections, replays, queue, expired, used>>

\* The put is done, or fails: nobody handles that.
StoreQueued(w, p) ==
    /\ <<w, p>> \in writes
    /\ writes' = writes \ {<<w, p>>}
    /\ \/ queue' = queue \cup {p} /\ UNCHANGED <<lost, used>>
       \/ Use("faults", MaxFaults) /\ lost' = lost \cup {p} /\ UNCHANGED queue
    /\ UNCHANGED <<online, lifecycle, tracker, rejections, fetches, replays, delivered,
                   expired, repeatable>>

ReplayAnswered(r) ==
    /\ r \in replays
    /\ ~r.answered
    /\ online
    /\ replays' = (replays \ {r}) \cup {[r EXCEPT !.answered = TRUE]}
    /\ Deliver(r.ping)
    /\ UNCHANGED <<online, lifecycle, tracker, rejections, fetches, writes, queue, lost, expired,
                   repeatable, used>>

\* The delete is done, or fails: the ping will be replayed again.
DeleteReplayed(r) ==
    /\ r \in replays
    /\ r.answered
    /\ replays' = replays \ {r}
    /\ \/ queue' = queue \ {r.ping} /\ UNCHANGED <<repeatable, used>>
       \/ /\ Use("faults", MaxFaults)
          /\ repeatable' = repeatable \cup {r.ping}
          /\ UNCHANGED queue
    /\ UNCHANGED <<online, lifecycle, tracker, rejections, fetches, writes, delivered, lost,
                   expired>>

\* It may have reached the server.  It is given up when its timeDelta is more than
\* EXPIRATION_TIME_DELTA, which may be so or not, and when it can be deleted.
ReplayFails(r) ==
    /\ r \in replays
    /\ ~r.answered
    /\ ~online
    /\ replays' = replays \ {r}
    /\ \/ Deliver(r.ping) /\ repeatable' = repeatable \cup {r.ping}
       \/ UNCHANGED <<delivered, repeatable>>
    /\ \/ queue' = queue \ {r.ping} /\ expired' = expired \cup {r.ping}
       \/ UNCHANGED <<queue, expired>>
    /\ UNCHANGED <<online, lifecycle, tracker, rejections, fetches, writes, lost, used>>

-----------------------------------------------------------------------------
Tracking ==
    \/ ReadyTimeout \/ UpdateTracker \/ RunSet \/ RunSend \/ LogRejectedPromises
    \/ \E p \in Ping :
         TrackPageView(p) \/ TrackEvent(p) \/ Reject(p) \/ RejectionHandled(p)

Lifecycle(w) == Start(w) \/ Install(w) \/ Stop(w) \/ Kill(w)

\* What a worker has under way.
Work(w) ==
    \/ Activate(w) \/ InstallFails(w)
    \/ \E p \in Ping : PingAnswered(w, p) \/ PingFails(w, p) \/ StoreQueued(w, p)
    \/ \E r \in replays :
         r.worker = w /\ (ReplayAnswered(r) \/ DeleteReplayed(r) \/ ReplayFails(r))

Delivery ==
    \/ \E p \in Ping : PingAnswered(None, p) \/ PingFails(None, p)
    \/ \E w \in Worker : Work(w)

Next ==
    \/ Disconnect \/ Connect
    \/ Tracking
    \/ \E w \in Worker : Lifecycle(w)
    \/ Delivery

Spec == Init /\ [][Next]_vars

\* Timers fire, the network comes back, and requests are answered or fail.  The
\* library runs its commands once it is loaded, which nothing guarantees.  The
\* browser stops workers that are idle, and starts the active one again for the
\* requests of a page.
Fairness ==
    /\ WF_vars(Connect)
    /\ WF_vars(ReadyTimeout) /\ WF_vars(LogRejectedPromises)
    /\ \A w \in Worker : WF_vars(Start(w) \/ Stop(w)) /\ WF_vars(Work(w))

FairSpec == Spec /\ Fairness

-----------------------------------------------------------------------------
(* Properties                                                              *)

\* A hit is attributed to the page on which it was tracked, although it waits
\* for the ready state and the library while the user moves on; and a hit without
\* the required dimensions leaves only after the timeout.
HitsFaithful ==
    \A p \in Ping :
      hits[p] # None => hits[p].page = tracked[p] /\ (hits[p].complete \/ ~timeout)

\* A hit that failed is never dropped in silence: what the library has sent has
\* reached the server, is on its way, is being queued or is in the queue, unless
\* the worker was killed before it was in the queue or the queue failed, there was
\* no worker, or it was given up after a day.  A hit is counted twice only when an
\* answer was lost with the network or the worker, when the queue failed to delete
\* it, or when two workers replayed the queue at once.
HitsAccounted ==
    \A p \in Ping :
      /\ hits[p] # None =>
           \/ delivered[p] > 0
           \/ p \in lost \cup expired \cup queue
           \/ \E w \in Worker \cup {None} : <<w, p>> \in fetches \cup writes
      /\ delivered[p] > 1 => p \in repeatable

\* A promise that stays rejected is reported.
RejectionsReported == unhandledRejections # <<>> ~> unhandledRejections = <<>>

\* The queue drains: what is in it is sent or given up as workers come and go.
QueueDrains == queue # {} ~> queue = {}
=============================================================================
