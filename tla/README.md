# Verification of the Google I/O 2016 web app

TLA+ specifications of the parts of this repository whose correctness depends
on the order of events: the back end on App Engine (`backend/`, Go) and the web
app (`app/`, JavaScript and Polymer elements). Each specification is checked by
TLC on small instances. The safety properties are also proved with TLAPS for every
value of the constants - any number of requests, users, devices, pages, failures;
section 4 says how.

Paths below are relative to the repository (`src/` in `PROJECT.json`).

## 1. The system

| Component | State | Operations | Interacts with |
|---|---|---|---|
| **Schedule synchronisation** (`backend/handler.go` syncEventData, serveSchedule; `db.go`; `cache.go`; `schedule.go` fetch and diff) | datastore: EventData and Changes entities; memcache: one copy of the latest entity per key of a sharded set, counter `sync:gcs` | sync (cron, every 30 minutes, or a push from storage), read, cache fill, store, invalidate | reads the manifest in Cloud Storage; adds notify-subscribers tasks |
| **Notification pipeline** (`handler.go` handleNotify*, `async.go`, `push.go`, `db.go`) | tasks in the queue; per user in Firebase: notifications enabled, push subscriptions, sessions in the schedule | fan out to shards, users, subscriptions; remove dead subscriptions | fed by the synchronisation and the clock; users change the data meanwhile |
| **Clock** (`handler.go` handleClock, `db.go` storeNextSessions, filterNextSessions) | datastore: kindNext entities, one per session and kind already announced | run every minute: find, filter, store, notify | reads the latest event data; feeds the pipeline |
| **Offline writes** (`app/scripts/helper/firebase.js`, `simple-db.js`, `schedule.js` saveSession) | IndexedDB store of queued operations; sets of the Firebase client; the clock offset | toggle, queue, set, answer, dequeue, replay after sign-in | Firebase with `firebase-security-rules.json`; other devices of the user |
| **Sign-in and sign-out** (`auth.js`, `firebase.js` auth, unAuth, `google-signin.html`) | Google user, Firebase reference and session, who waits for a sign-in, listeners, IndexedDB cache of reads, the saved sessions on the page | sign in, sign out, wait for sign-in, replay cached reads, listen | everything that needs a user; other devices of the user |
| **Cached requests, social poller** (`request.js`, `sw-toolbox/cache-then-network.js`, `social-poller.html`) | service worker cache, requests in flight, the timer of the next poll | cached answer, fresh answer, poll | service worker life cycle, `social.go` |
| **Analytics** (`analytics.js`, `bootstrap.js`, `sw-toolbox/offline-analytics.js`, `service-worker-registration.js`) | what waits for the dimensions, commands of the library, rejected promises, IndexedDB queue of pings | track, set dimension, time out, send, queue, replay, expire | router and sign-in (page and status), service worker life cycle |
| **Router** (`router.js`, `page-animation.js`, `elements.js`, `a11y.js`) | start, current and end state; history; selected page, subpage, tabs, focus | click, back and forward, page and subpage transitions | lazy pages |
| **Countdown timer** (`elements/countdown-timer/`, `io-home-page.html`) | the bands of digits, two loops of animation frames, the intro, fades | frame, play, pause, resize, mouse, scroll, detach | page transitions, visibility |
| **Notification settings** (`io-notification-widget.html`) | check box, permission, Propel subscription, Firebase flag | status changes from Propel and from Firebase, click | every device of the user through the flag |
| **Deletion of inactive users** (`wipeout.go`) | Firebase users and data | list, delete data, delete user | users who come back |
| **Surveys** (`survey.go`, `handler.go` submit*, `io-survey.html`) | flag in Firebase, task | validate, flag, enqueue, submit with retries | EventPoint |
| **Social feed** (`social.go`) | memcache entries | fetch by goroutines, merge, sort, cut | Twitter |
| **Schedule computations** (`schedule.go`, `push.go`) | none | slurp, diff, upcoming, unique, thumbnails, merge and filter changes | used by all of the above |
| **Push messages** (`sw-toolbox/push-notifications.js`) | cached schedule | show; patch the cached schedule | pipeline |
| Server, templates, configuration, debug handlers, build, live page, other pages | none that outlives a request or page view | | |

What is hard, by component, and which property is about it, is the list of
hazards in `PROJECT.json`. In short:

- *Synchronisation.* Requests interleave at each call to memcache, datastore and
  storage; memcache takes no part in transactions, may drop anything, and keeps
  the lock for ever; transactions run again; an instance dies anywhere.
  Correct means: one sync at a time, each manifest stored once and in order,
  the changes stored are those between successive versions, nothing uncommitted
  is seen or announced, and the last manifest is eventually stored and served.
- *Pipeline.* Tasks run at least once, in any order, in parallel; some errors
  make a task run again and others are dropped. Correct means: whoever a change
  concerns is told, nobody else is, and copies are bounded.
- *Offline writes.* Closed pages, lost answers, repeated sets, several devices
  and wrong clocks. Correct means: the last toggle wins, and no toggle is lost.
- *Sign-in*: four answers that arrive after the user has signed out or somebody
  else has signed in; failures that look like success. Correct means: the page
  shows the schedule of its user and of nobody else, and who waits is served.
- *Cached requests*: answers in any order, a network that goes away, a worker
  that takes over the page. Correct means: never back to older posts without a
  reason, and the page catches up.
- *Analytics*: hits wait in three places, each emptied by somebody else. Correct
  means: a hit says what was true when it was tracked, none is lost in silence
  or counted twice without a cause, and no queue is stuck.
- *Router*: transitions that overlap share one state. Correct means: when they
  are over, everything that shows where the user is agrees.
- *Countdown*: four reasons to interrupt two loops. Correct means: the digits
  spell the time, what is shown is drawn, nothing else is.

## 2. Modules

### EventData, ScheduleSync, ChangeFeed

`EventData` holds the values: a version of the schedule reduced to which
sessions it has and whether their compared fields are equal, the committed
entities as a log (the position is the key and the etag), and the difference of
two versions (`Changed` is `diffEventData`: only sessions in both versions).

`ScheduleSync` is the handlers. A request is a process with a program counter;
its steps are the calls at which another request can run:

| Action | Code |
|---|---|
| `StartSync`, `Unlock` | `cache.inc` and `cache.deleteMulti` of `sync:gcs` in syncEventData |
| `ReadCache`, `QueryLatest`, `FillCache` | getLatestEventData: memcache, query, cacheEventData |
| `Fetch` | fetchEventData with If-Modified-Since |
| `StoreEventData` | the buffered Put and the invalidation of every key, at once |
| `Commit`, `Conflict`, `Abort` | the end of runInTransaction: all of entity, changes and task, another attempt, or nothing |
| `StartRead`, `Reply` | serveSchedule |
| `Crash`, `Expire`, `EvictLock`, `Publish` | lost instances, memcache, a new manifest |

The variables `cache` and `lock` are memcache, `log`, `changes` and `tasks` the
datastore and the queue; `old`, `new`, `seen` and `attempt` are the local
variables of a request and its transaction. `lockLost`, `tainted` and `floor`
are history variables: they are read by properties only, and say whether
memcache dropped the lock while it was held, whether a cache fill raced with a
store (or the invalidation failed), and what was stored when a read began.

`ChangeFeed` is the abstract specification: a log of versions in which a
version, its difference with an older one and the notification appear in one
step. `ScheduleSync` implements it (`ImplementsFeed`).

### NotifyPipeline

The three task handlers. The queue is a set of tasks; a task carries the number
of its executions, its stage and the work left in its loop. `NotifyShard` is the
loop of handleNotifySubscribers; `NoSessions`, `ListUsersWithPush`,
`ListAllUserSessions` and `NotifyUser` are handleNotifyShard; `GetUserPushInfo`,
`NotifySubscription` and `DeleteSubscription` are handleNotifyUser; `GiveUp` is
the look at taskRetryCount they all begin with, `Return` their 2xx answer,
`Crash` a lost instance, `ChangeData` the users. An error that answers 500 runs
the task again (`RunAgain`), one that is logged drops what it was about, which
the history variable `lost` records. An execution adds each task
at most once, so the numbers of the executions a task comes from identify it:
copies of a task are different members of the set.

### OfflineWrites

A device with one page, its IndexedDB, and the Firebase client. `page` is how
far auth() has got, and `Authed` is isAuthed(): on a device in `Returning`,
auth() may find the Firebase session of an earlier page as soon as it has made
firebaseRef (`Remember`), and toggles are then set before this page has the
offset of its clock. `idb` is the queue of requests to IndexedDB, which serves
them in order; `sets` and `answers` are the sets of the Firebase client and
their answers. `Toggle` is toggleSession with _setFirebaseUserData (queue only,
without authorization), `QueueOperation`, `DequeueOperation` and `ReplayQueue`
are the three uses of the store, `Answer` the two handlers of the promise of
set(). `Valid` is the rule of my_sessions: a newer timestamp than the stored
one, at most 10 minutes ahead of the server. `Close` loses the page with what
it had not written; sets that had left may still arrive (`DeliverLate`).

### AuthSession

A page, from its opening on; an earlier page may have left the Firebase session
of a user, or the cached reads, or both, and the data may have changed since or
have been deleted with the user (`"gone"`, `backend/wipeout.go`).

| Action | Code |
|---|---|
| `LoadAuth`, `SignIn`, `LoadUserInfo` | google-signin: onLoadAuth, handleSignIn, and the answer of loadUserInfo, which reads `currentUser` again and fires signin-change |
| `SetClockOffset`, `Authorize`, `Bumped` | the three answers auth() waits for; each ends in `Continue` or, when something failed, in `EndFlow`, the last `then` of the signin-change handler |
| `SignOut` | handleSignOut with unAuth, which throws when `getAuth()` is null |
| `LoadSchedule`, `Serve` | schedulePromise; the requests to the READS store in order, each with what follows it: a replay, a clear, the registration of the listeners, or wrappedCallback and sessionUpdatesCallback (`Shown`) |
| `ChangeData`, `Notify` | another device; child_added and child_changed |
| `SaveSurvey` | saveSurvey, which waits in waitForSignedIn |

`former` and `rejected` are history: who was signed out in the middle of
something, and whether somebody who waited was served without a session
(`WaitersAreSignedIn` is its negation, what the comments of the code promise;
`OnlyFaultsReject` is what holds).

### CachedFeed

`calls` holds the two requests a page may have under way: the first by
cacheThenNetwork, with its two XHRs (`cached`, `fresh`), and a poll. `ReadCache`
is the worker's cacheOnly, `ServerAnswers` and `Fail` its networkFirst (or the
network itself when no worker controls the page), `CutOff` an answer whose body is
lost after networkFirst has returned its headers, so that the request fails in
the page with a worker as without. `LoadCached`, `LoadFresh` and
`LoadPoll` are the three `onload` handlers. Posts are versions: `shown`, `cache` and
`version` compare what the page, the worker and the server have.

### Analytics

Three queues in a row: `waiting` (waitForTrackerReady), `commands` (of the
external library, in order) and `queue` (IndexedDB). `RunSet`, `RunSend` and
`ReadyTimeout` empty the first two; `PingAnswered`, `PingFails`, `StoreQueued`
are handleAnalyticsCollectionRequest and queueFailedAnalyticsRequest;
`StartScript`, `ReplayAnswered`, `DeleteReplayed`, `ReplayFails` are
replayQueuedAnalyticsRequests, which runs whenever a worker's script starts:
`Start` (for an event) and `Install`. `Stop`, `Kill`, `Activate` and
`InstallFails` are the life cycle that the browser and sw-precache give the
worker. IndexedDB may fail in each of its uses: the queue is then not read
(`StartScript`), the ping is not written, which nobody handles (`StoreQueued`), or
not deleted, and sent again later (`DeleteReplayed`). `Reject`, `RejectionHandled`, `LogRejectedPromises` are bootstrap.js.

### Navigation

A navigation adds a member to `transitions` and leaves the others under way: the
code has no lock. `Navigate` is navigate() with the start of the transition;
`SelectPage` and `SelectSubpage` are what follows the exit animation
(LazyPages.selected, state.current, updateUIstate with pushState),
`PageTransitionDone` and `SubpageTransitionDone` what follows the enter animation.
All of them read the shared `end`, as the code does. `PageTransitionFails` is the
catch path: a hash that gives no selector makes updateUIstate throw after the page
has been selected. `FirstRender` is the end of the first animation.

An address is a page, a hash and, for a session whose details are open, its id. A
hash is whatever a user may type: the name of a section, an anchor of the page, or
one that querySelector refuses (outside `Selectable`). Navigations come from `Click`,
`Popstate` and `FollowHash` (a link or a hash that the browser follows). The rest
happens behind the router's back:

| Action | Code |
|---|---|
| `ScrollToFaq` | replaceState with the anchor of a question (`io-faq-page.html:317`) |
| `OpenSession`, `CloseSession` | pushState and replaceState for the details of a session (`io-session-details.html:404-447`) |
| `SelectTab` | the drawer and the logo set selectedPage, and onClick leaves the click to the browser: with ctrl or meta, or on the external item (`router.js:61-75`, `layout_full.html:285-298`) |

A page outside `Template` is one that links name and lazy-pages has no template for
(`form`, `io-faq-page.html:101`): it is selected, and `stamped` stays the page that
was left. `failed` and `astray` are history: a page transition failed and none has
ended since; a tab was selected without a navigation, or a navigation came back to the
page that a transition was leaving, and no tab and no link to another page has been
followed since.

### CountdownTimer

The methods of Core are operators on a record (`CheckTime`, `OnFrame`, `Play`,
`Pause`, ...); `cores` has one or two of them, as the element's
show-current-time says. `frames` counts the animation frames that are asked for
and not yet served, that is the loops; a band is the digit it shows. `Tick` is
TweenMax with its lazy rendering: the tweens of the last move begin, and overwrite
the former ones, after those had their own last tick. `PageScroll` and
`EnableCountdown` are the home page's scroll handler and its debounced
start(), before which frames may have been served or not. The units of time are constants, so that an instance can go through
changes of all digits in a few steps.

### Refinement

`ScheduleSync` has `Feed == INSTANCE ChangeFeed WITH log <- log, changes <-
changes, tasks <- tasks` and `ImplementsFeed == Feed!Spec`: what is in the
datastore and in the task queue is the abstract state, everything else (memcache,
the lock, the requests and their attempts) is hidden.

Each `MC` module gives instances for TLC. Definitions named *Mutant* in the
comment above them are faulty variants of the definition that follows; nothing
uses them in the specifications. They show that each property depends on the
code it is about.

## 3. Runs

| Run | Question | Bounds | Result |
|---|---|---|---|
| `sync` | lock, order, exact changes, committed and recent data; the last manifest is stored unless a dead request left the lock, and no key keeps an older one; implements ChangeFeed | 2 syncs, 1 reader, 2 keys (one shared), 1 session with 2 values, 2 manifests, 1 fault, 1 crash, 2 attempts | holds |
| `sync_missed_change` | every change between successive versions is stored, although a fill of the cache may race with a store | 1 sync, 1 reader, 1 key, 3 manifests | **violated** |
| `sync_stuck` | the last manifest is stored although an instance dies | 1 sync, 1 crash | **violated** |
| `writes` | last toggle wins; unanswered operations stay queued; the database settles | 2 devices (one with a fast clock, one that Firebase remembers), 1 session, 2 toggles, 1 lost connection, 1 closed page, 1 error | holds |
| `writes_lost` | what the comment of the queue promises | 2 devices, 2 toggles, 1 closed page | **violated** |
| `notify` | who is told and how often, and that nobody is forgotten | 1 user of 1 of 2 shards, 2 subscriptions, 2 sessions, 1 error, 1 crash, 1 change by the user | holds |
| `account` | whose schedule is shown; who waits for a sign-in is served, and by nobody only after a failed call | 2 users in 2 databases, 1 session, 2 sign-ins, any number of sign-outs, 1 survey, 1 change, 1 failed call | holds |
| `waiters_rejected` | what the comments of waitForSignedIn and auth() promise | the same | **violated** |
| `feed` | no step back; catches up; survives requests without an answer | 3 versions, 2 outages, with and without a worker | holds |
| `analytics` | hits are faithful and accounted for; reports and the queue go on | 2 hits, 2 pages, 2 dimensions, 2 versions of the worker, 1 outage, 1 kill, 1 error of IndexedDB | holds |
| `navigation` | page, section, address, tabs and focus agree | 3 pages (one with 2 sections, one with anchors, one without a template), 4 hashes (one that is no selector), 1 session, 3 navigations, sessions opened up to 2 entries of the history | holds |
| `countdown` | digits, loops, drawing | 8 bands with binary digits, times around a change of days and around the target, 3 actions of the user | holds |

Why the bounds are enough for what the runs ask. Two syncs and one reader are
the actors of every race on the lock and the cache, since each involves at most
two requests and one key, and two keys tell an invalidation of all keys from
one of the own key; two manifests are an old version and a new one, which is all that
liveness needs. A third, to lose a change between two others, is in
`sync_missed_change`, and the theorems below remove the bounds for all the safety of
ScheduleSync. For the pipeline, one task per (user, notification)
and the independence of users mean that races exist only between copies of the
same task, the user, and the loops that add tasks and go through subscriptions,
which have length two. An error and a crash exhaust the retries (`MaxTaskRetry`
is 0 in the run, so the second repetition gives up). For the writes, a replay, a
set in flight and a newer toggle of the same session on the same or another device are
the conflicting parties; different sessions only share the order of replays.
For the account, the second sign-in meets every state of the first one, sign-outs
come before, between and after them, and each user has a database of their own,
since in one database the sessions replace each other and less can go wrong.
For the feed, an outage in each of the two requests, and posts that are newer
than the cached ones and than the first fresh ones, are all there is to
order; either may fail a request or cut off its answer. For analytics, a hit in the queue and one that is on its way are the
conflicting parties, and two versions of the worker replay at once. Three
navigations are two transitions that overlap, from a state another one left, and a
kind of page for each way a page can treat its address and its template. For
the countdown, `Minute = 3`, `Hour = 6`, `Day = 12` and `Base = 2` make every
column change and overflow within the times of the instance; any pair of
interruptions, and a third that meets what they left, fits the bound on the user.

Deadlock is checked in the runs of ScheduleSync and Analytics; in the others the
users and the environment may stop (bounds used up), which is not an error.

### Violations

They are listed as findings in `PROJECT.json` with the lines and comments they
contradict. They weaken the properties that hold, which name the
condition under which they do: `~tainted` and `~lockLost` in `StoredOnce`,
`FeedFaithful` and `ReadsMostRecent`, `exposed` in `LastToggleWins`. Other
exceptions in the properties are behaviours of the code that a reader may not
expect. Comments promise more than the first two leave:

- `LastToggleWins`, `misdated`: a toggle made before the offset of the clock is
  known is dated with the local clock, and its replay keeps that date
  (`firebase.js:389`), although the offset "is used to replay offline operations
  accurately" (`firebase.js:32-34`). Without this exception `LastToggleWins` is violated
  by a device with a fast clock and two toggles, with no failure at all.
- `OnlyFaultsReject`, a failed call: auth() catches the failure of the
  authorization, so who waits is served without a session (`firebase.js:92`),
  although the promise "fulfills when auth is successful" (`firebase.js:70`) and
  waitForSignedIn's is "resolved after the user has signed in" (`auth.js:84`):
  `WaitersAreSignedIn` is violated (run `waiters_rejected`).
- `OwnSchedule`, `former`: after a sign-out in the middle of a sign-in or of a
  change, the page may show the sessions of the user who left: unAuth()
  clears before the callback shows, or throws at `getAuth().uid`
  (`firebase.js:104`); loadUserInfo's answer signs in again who has signed out
  (`google-signin.html:191`). A cached session that was deleted since (`"gone"`) stays
  on the page, since no listener tells of it (`schedule.js:198`).
- `CatchesUp`, `broken`: an error ends the polls of a page for good
  (`social-poller.html:82`). `OutageSurvived` says when the worker prevents that: when
  the request gets no answer at all. One that is cut off after its headers ends the polls
  although the feed is cached. `NoStepBack`, `overlaps`: a poll does not wait for
  the first request.
- `HitsAccounted`, `lost`: a failed ping is lost if the worker is killed before
  the write, for which the handler does not wait (`offline-analytics.js:74`), or if
  the write fails.
- `ViewAgrees`, hashes: under a hash that names no section, as anchors and mistyped
  hashes do not, the links to sections do nothing, since runSubpageTransition
  wants both sections (`router.js:219`). A hash that gives no selector makes
  updateUIstate throw (`router.js:135`): the address stays that of the page before,
  and a page that is opened under one never enables its tabs (`elements.js:39`).
- `TabsEnabled` and `FocusFollows`, `failed`: such a transition sends no
  page-transition-done (`router.js:198-201`); the next one repairs it. A page without a
  template has no focus to take.
- `TabsAgree`, `astray`: a click on the drawer or the logo that the browser handles has
  selected its tab already (`router.js:61-75`), which then shows a page that is not there;
  and after a navigation to another page and back to the one that is being left, before it
  is, the tabs may show the other (`router.js:262-268`).
- `OneLoop`, `pauses`: pause() leaves the requested frame, and play() before that
  frame adds a loop, so the same canvas is drawn twice per frame
  (`countdown-timer.js:163`). `DrawnWhileShown`, `overtaken`: the mouse moves back
  in the last frame of a fade, and the canvas that is shown stands still until
  the next move; `revived`: a debounced start() on a page that was left.
  `ShowsTheTime`, `threw`: at the target, between two readings of the clock, the
  digits are negative, and with a hundred days to go there is no digit: the frame
  throws and its loop ends. The countdown mode is not used by any page of this
  commit (io-live.html is not embedded), the clock of the home page is.

### Fairness

`ScheduleSync`: a running request makes progress and ends
(App Engine's deadlines), cron starts syncs every 30 minutes
(`backend/cron.yaml.template:8-10`), and memcache entries expire after an hour
(`db.go:216`). Nothing is assumed of crashes, faults, evictions and publications,
which are bounded instead. `OfflineWrites`: the user reopens the app, signs in
and gets connected again ("Reload this page while online to apply it",
`schedule.js:349`), IndexedDB and Firebase serve their requests. `AuthSession`:
Firebase answers or fails; nothing is assumed of the users, so a sign-in may
never come, and `WaitersServed` starts from one under way. `CachedFeed`: the
network comes back, the timer of the poll fires, requests are answered or fail.
`Analytics`: the two timers fire, the network comes back, requests and IndexedDB
answer, and the browser stops idle workers and starts the active one for the
next request; the library may never be loaded. Weak fairness
is enough: no action a property needs is disabled for ever by one that repeats.
`NotifyPipeline`, `Navigation` and `CountdownTimer` have no liveness property: with
bounded failures each behaviour of the pipeline ends and `NobodyForgotten` is about
the states in which the queue is empty, `ViewAgrees` is about those in which the
transitions are over, and animations may be suspended by the browser at any time.

## 4. Proofs

`ScheduleSync_proofs` proves, for all values of the constants allowed by
`AbsentAssumption` and `RequestAssumption` (finite or not):

| Theorem | Statement |
|---|---|
| `TypeCorrect` | `Spec => []TypeOK` |
| `CommittedOnly` | `Spec => []ServedIsCommitted` |
| `OneSyncAtATime` | `Spec => []MutualExclusion` |
| `StoredInOrder` | `Spec => []StoredOnce` |
| `ExactFeed` | `Spec => []FeedFaithful` |
| `ReadsRecent` | `Spec => []ReadsMostRecent` |
| `NotifiedStored` | `Spec => []NotifiedAreStored` |
| `Implements` | `Spec => ImplementsFeed` |

The argument is one inductive invariant, `IInv`. None of the properties is
inductive alone. That one request holds the lock needs the counter to be above
zero while it does (`LockInv`). That versions are stored once needs every value
which can become the old version of a sync to be the last entity: the entries
of memcache and the local variables of the requests between the read and the
commit, and that the cache is empty between invalidation and commit
(`FreshInv`); this in turn needs mutual exclusion, since another sync could
otherwise store in between. `FetchedInv` keeps what Fetch tested until Commit
uses it, with the same old version. `FeedFaithful` then follows for the new
entry from `FreshInv`, and for the older ones because `log` and `changes` only
grow and a change names a version that exists (`ChangeInv`). `Implements` maps
`Commit` to `Store` and every other step to a stutter, using `FetchedInv` for
the guard of `Store`; the log is the refinement mapping.

`ReadsRecent` has an invariant of its own, `RInv`, since its exception (a fill of the
cache that raced with a store) differs from that of the others: an entry of the cache
is the last version (`CacheInv`), a request about to fill the cache has read what was
a newest version then (`FillInv`), and what a reader has found is at least what was stored when
it began (`ReadInv`).

`Navigation_proofs` proves, for all values of the constants allowed by
`NavigationAssumption` (any pages, of which any have a template, any sections in those
that have one, any hashes, and any number of navigations):

| Theorem | Statement |
|---|---|
| `TypeCorrect` | `Spec => []TypeOK` |
| `ViewsAgree` | `Spec => []ViewAgrees` |
| `TabsShowPage` | `Spec => []TabsAgree` |
| `TabsStayEnabled` | `Spec => []TabsEnabled` |
| `FocusOnPage` | `Spec => []FocusFollows` |

The properties speak of the states in which the transitions are over; the
inductive invariant says what holds meanwhile: each disagreement is the business
of a transition under way. The page may differ from the state and the destination
only while a page transition plays its exit animation (`StateInv`: a subpage
transition that ends in between sets the state to a destination on another page, which
the page transition then selects), the address only while any exit animation plays
or the state's hash is no selector (`AddressInv`), the tabs show where the last navigation
went unless they are astray (`TabsInv`), and they are disabled, or the focus is elsewhere,
only during a page transition or after one that failed (`DoneInv`, `FocusInv`).
`BeginStep` and `ChangeOne` are the
lemmas that a step leaves the other transitions alone; `Pushed` and `Replaced` say what
the session history is afterwards, and `OutsideStep` and `AddressStep` that what happens
behind the router's back leaves the page and the section of the address as they are, or
gives it a hash that names none.

`CachedFeed_proofs` proves, for all values of the constants allowed by
`FeedAssumption` (any numbers of versions and outages; the two states of a request
that has no answer are not versions):

| Theorem | Statement |
|---|---|
| `TypeCorrect` | `Spec => []TypeOK` |
| `NeverBack` | `Spec => NoStepBack` |
| `Survives` | `Spec => OutageSurvived` |

Both action properties say what cannot happen when an answer is handled, so the
inductive invariant says what an answer under way can be, compared with what the
page shows and the worker holds. Nothing is ahead of the server (`BoundInv`);
a poll and the first request are under way together only if both are marked
(`OverlapInv`). While the first request is alone and the network works, a cached
answer that may still be shown meets an empty page, and the fresh answer is at
least as new as the cache and as the cached answer (`FirstInv`). A poll that is
alone brings nothing older than what is shown, and gets nothing from the worker only if
the cache is empty or its answer was cut off (`PollInv`): nobody else writes the cache
while it is alone.
`FirstStep`, `PolledStep` and `HandleStep` are the lemmas for the three kinds of
step: an answer to either request, and its handling by the page.

`OfflineWrites_proofs` proves, for all values of the constants allowed by
`DeviceAssumption` (any devices, of which Firebase may remember any, any clocks and
bounds, finitely many sessions):

| Theorem | Statement |
|---|---|
| `TypeCorrect` | `Spec => []TypeOK` |
| `UnansweredStaysQueued` | `Spec => []UnansweredIsQueued` |
| `LastToggleReached` | `Spec => []LastToggleWins` |

The invariant follows a toggle through the three places where a device keeps it: the
requests to IndexedDB, which are served in order, what is stored, and the sets of the
Firebase client. Unless two operations on a session overlap, none follows
another before the answer, and only the delete of an operation follows it
(`Alone`); so an operation is stored until it is answered, and what is deleted has
reached the database (`Saved`). What is queued before the authorization goes first
(`Staged`), and the answers are those of the first sets (`Answered`). `DateInv`
says that no well-dated write anywhere is newer than the last toggle, so that the rule of
Firebase cannot prefer another one, and `LastInv` that the last toggle is in the database,
or is what IndexedDB will hold when its requests are done, or, if operations
overlap, is still to be set. With nothing under way, only the first is left.

`NotifyPipeline_proofs` proves, for all values of the constants allowed by
`PipelineAssumption` (the shards are distinct; finitely many users and
subscriptions, since a task goes through all of them):

| Theorem | Statement |
|---|---|
| `TypeCorrect` | `Spec => []TypeOK` |
| `CopiesAreBounded` | `Spec => []BoundedCopies` |
| `OnlyTheConcerned` | `Spec => []OnlyConcerned` |
| `NobodyIsForgotten` | `Spec => []NobodyForgotten` |

A task *leads* to a delivery if it makes it when nothing fails. Copies are counted
with a potential: for each delivery, the copies that were sent and the tasks
that lead to it are together at most one more than the instances lost
(`CopiesInv`). A step of a task moves one unit - from the loop to the new task, from
the subscription to the copy sent - and only a crash, which leaves a task to run from its
beginning although it has added others, adds one. The same notion proves the other side:
a delivery that somebody wants has been made, was lost in a call that is not
retried, or a task leads to it (`CoverInv`). `TaskInv` says of a task that there is
nothing twice in its loop, and of what it is about that its user wants it, or has changed the data
meanwhile. The lemmas `TaskStep` and `QueueStep` say once what a step that replaces one task, or
also adds one, must see to.

`AuthSession_proofs` proves, for all values of the constants allowed by
`AuthAssumption` (any users, each in one of any databases, any sessions):

| Theorem | Statement |
|---|---|
| `TypeCorrect` | `Spec => []TypeOK` |
| `OwnScheduleShown` | `Spec => []OwnSchedule` |
| `WaitersRejected` | `Spec => []OnlyFaultsReject` |

That nothing is shown of anybody else is an invariant over everything that may still lead to a
change of what is shown: sign-ins, Firebase sessions, listeners, writes in the queue
(`KnownInv`), and cached reads that a replay will find, unless a request that
clears them comes first (`ReplayInv`). A sign-in that nobody has interrupted goes on
in the database of its user (`FlowInv`), which is also why who waits for it finds a session
unless a call has failed. That
everything is shown at rest takes three more facts. Devices switch an entry of
my_sessions and never remove it, so what was once read, told or shown has an entry still, but
for what was deleted before the page was opened (`DataInv`). What a listener was told is shown, or the last write of the
queue about that session will show it (`ListenerInv`). And a sign-in is under way or has come as
far as its listeners, or the request that registers them (`ProgressInv`).

The proof corrected the model: the first version of the property excused only users with a sign-in
or a write under way at the sign-out. A third sign-in refutes that: an authorization
that arrives late leaves its session in another database, where the next sign-out
does not end it, so that `former` has to keep whoever still has a Firebase session
or a listener. Two sign-ins, the bound of the run, do not get that far.

`Analytics_proofs` proves, for all values of the constants allowed by
`AnalyticsAssumption` (any pages, pings, finitely many dimensions, any number of
versions, outages, kills and errors of IndexedDB):

| Theorem | Statement |
|---|---|
| `TypeCorrect` | `Spec => []TypeOK` |
| `HitsAreFaithful` | `Spec => []HitsFaithful` |
| `HitsAreAccounted` | `Spec => []HitsAccounted` |

The invariant has a part for the page and one for the worker. `PageInv`: the commands of the
library followed by what waits for the dimensions are one sequence (`OrderInv`);
run in order it takes the tracker from the page it is on to the page where
the user is (`LeadsTo`), and past each hit on the page it was tracked on (`Faithful`), so
it does not matter when the library runs which part of it. A hit reaches the library only when
the ready state is resolved, by the last dimension or the timeout (`ReadyInv`). `KeptInv`: a ping
that was sent is in one place - fetched, about to be written, in the queue - or has been
delivered, or is among those `HitsAccounted` names (`Place`); and one that was delivered is
under way no more, unless an answer went missing, or a worker died or IndexedDB failed before
it was deleted (`Sole`).

`CountdownTimer_proofs` proves, for all values of the constants allowed by
`TimerAssumption` (any date and clock, units of time that divide each other and whose
numbers have two digits, as 60, 3600 and 86400 do in decimals):

| Theorem | Statement |
|---|---|
| `TypeCorrect` | `Spec => []TypeOK` |
| `TimeIsShown` | `Spec => []ShowsTheTime` |
| `OneLoopEach` | `Spec => []OneLoop` |
| `DrawnWhenShown` | `Spec => []DrawnWhileShown` |

The invariant has a part for each Core, `Sound`, and one for the element. A Core compares its numbers
with the last ones column by column, so what it leaves alone must be right already:
between frames the bands spell the last numbers (`Settled`), before the first frame they are those of
CreateBands, but for the O of an intro (`FirstDigits`), and `Prepared` is what ChangeNumbers needs of
either. The icons belong to a Core that shows the current time, or whose countdown has ended
(`Ending`), and as long as it has not, every digit exists but that of hundreds of days (`Valid`): so a frame
throws in the cases `ShowsTheTime` names only (`ThrewInv`). A Core that plays has asked for at
most one frame more than it was paused, a paused one for at most as many, and one that plays
without a frame has thrown (`LoopInv`). `FadeInv` says that the fade TweenMax will run last is that of
the last move of the mouse, so a fade that ends pauses the canvas that is shown only if it
was overtaken (`PlayInv`).

Only checked by TLC: liveness (TLAPS has no support for fairness and ENABLED) and the
four runs that expect a violation.

## 5. Not modelled, and the plan

Not modelled: rendering, styles, wording, debug handlers, authentication tokens,
templates, configuration, build scripts. In ScheduleSync, the content of
sessions beyond equality and the speakers, videos and tags (they are compared and
stored by the same code and notify nobody). Of the parts with state:

- the clock (handleClock) is one datastore transaction around filter, store
  and task, so its runs are serialised by the datastore; its task is an
  input of NotifyPipeline;
- the notification widget depends on Propel, a component the repository only
  installs; its effects on the data are `ChangeData` of NotifyPipeline;
- the deletion of users and the submission of surveys are calls without shared
  state in this repository; the handler of the social feed keeps only a cache of
  what Twitter can tell again;
- updateSessionCache of the service worker needs sessions in a push message, which
  no sender of this commit puts there, and offline-session-updates.js handles a
  route that no page requests any more;
- sign-outs in OfflineWrites: clearCachedUpdates (`firebase.js:117`) empties the queue
  of operations there, with what was never sent; AuthSession has the sign-out and not the
  queue;
- in Navigation, the tabs of the sections (selectedSubpage, set with the section by the
  same statements), search parameters (the filters of the schedule change only them,
  `io-schedule.html:644`), and a first page without a template. The details of a session
  open and close at any time, where the code wants a click or a deep link;
- in CachedFeed, the handler of the feed serves versions that never go back: two refreshes
  that overlap may store the older result last (`social.go:57-127`), an entry evicted from
  memcache is served as `null`, and the answers may be a minute old (max-age);
- users deleted while they use the app: AuthSession has those deleted before;
- in ScheduleSync, `Fetch` is one step, where fetchEventData gets the manifest and then its
  files (`schedule.go:162-196`): a manifest that names files of two publications is not
  represented. `Changed` is inequality of what is compared, where compareSessions
  (`schedule.go:423-473`) leaves out the times of a session that is over, and looks at
  its video only then, and only for one that is no longer live;
- io-live.html is not embedded by any page of this commit;
- the pure functions of schedule.go and push.go other than the difference and
  the filters parse and format.

Their hazards are in `PROJECT.json` with a note.

Next: nothing is left of the plan of theorems. What could still be modelled are the
filters of the schedule page (`generateFilters` of schedule.js, io-schedule.html) and the
hazards without a property that `PROJECT.json` lists.
