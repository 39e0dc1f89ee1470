----------------------------- MODULE AuthSession -----------------------------
(***************************************************************************)
(* Sign-in and sign-out in a page of the web app: google-signin.html fires *)
(* signin-change, scripts/helper/auth.js reacts with auth() or unAuth() of *)
(* IOFirebase and serves those who wait for a sign-in, and the schedule of *)
(* the user (schedule.js) is read from IndexedDB at first and then kept up *)
(* to date by listeners on Firebase.                                       *)
(*                                                                         *)
(* A sign-in takes four answers: the profile, the clock offset, Firebase's *)
(* authorization, and the bump of the last activity with the replay.  The  *)
(* user may sign out, and another one sign in, before any of them.  Writes *)
(* to the READS store are served in order; what follows each one is run    *)
(* with it.  (OfflineWrites is about the UPDATES store.)                   *)
(***************************************************************************)
EXTENDS Naturals, Sequences, SequencesExt, FiniteSets

CONSTANTS
    User,
    Shard,        \* Firebase databases
    ShardOf,      \* _selectShard: the database of a user
    Session,
    None,
    MaxSignIns,   \* bound: sign-ins
    MaxSurveys,   \* bound: surveys submitted
    MaxChanges,   \* bound: sessions toggled on other devices
    MaxFaults     \* bound: calls that fail

ASSUME AuthAssumption ==
    /\ ShardOf \in [User -> Shard]
    /\ None \notin User \cup Shard
    /\ {MaxSignIns, MaxSurveys, MaxChanges, MaxFaults} \subseteq Nat

\* my_sessions/<id>: no entry, or its in_schedule.
Value == {"none", "in", "out"}

VARIABLES
    google,      \* who is signed in with Google (gapi.auth2)
    person,      \* currentUser of google-signin, who signed in last
    profiles,    \* calls of loadUserInfo without an answer
    ref,         \* firebaseRef
    session,     \* Firebase: getAuth() of each database
    flows,       \* calls of auth() under way
    pending,     \* pendingResolutions: how many surveys wait
    schedule,    \* "loading" or "loaded": schedulePromise
    loads,       \* what waits for the schedule: "cached" and "live"
    requests,    \* requests to the READS store under way
    reads,       \* the READS store
    listeners,   \* pairs of user and database
    seen,        \* what a listener has been told
    saved,       \* app.savedSessions: by whose data a session is shown
    data,        \* Firebase: my_sessions of each user, or "gone": deleted with the
                 \* user (backend/wipeout.go) since an earlier page cached it
    used,        \* how much of each bound has been used
    former,      \* history: users signed out in the middle of something
    rejected     \* history: a survey that waited found nobody signed in

account == <<google, person, profiles>>
page == <<schedule, loads>>
store == <<requests, reads>>
watch == <<listeners, seen>>
vars == <<account, ref, session, flows, pending, page, store, watch, saved,
          data, used, former, rejected>>

Flow == [n : 1..MaxSignIns, token : User, stage : {"offset", "authorize", "bump"},
         at : Shard \cup {None}]
Request == [kind : {"put"}, user : User, key : Session, value : Value]
             \cup [kind : {"clear", "listen", "replay"}]

TypeOK ==
    /\ google \in User \cup {None}
    /\ person \in User \cup {None}
    /\ profiles \subseteq [n : 1..MaxSignIns, token : User]
    /\ ref \in Shard \cup {None}
    /\ session \in [Shard -> User \cup {None}]
    /\ flows \subseteq Flow
    /\ pending \in Nat
    /\ schedule \in {"loading", "loaded"}
    /\ loads \in Seq({"cached", "live"})
    /\ requests \in Seq(Request)
    /\ reads \in [User \X Session -> Value]
    /\ listeners \subseteq User \X Shard
    /\ seen \in [User \X Shard \X Session -> Value]
    /\ saved \in [Session -> User \cup {None}]
    /\ data \in [User -> [Session -> Value \cup {"gone"}]]
    /\ used \in [{"signins", "surveys", "changes", "faults"} -> Nat]
    /\ former \subseteq User
    /\ rejected \in BOOLEAN

Nobody == [s \in Session |-> None]
NoReads == [k \in User \X Session |-> "none"]

\* A page opens; an earlier page may have left the session of a user, and cached
\* reads, of which Firebase may have been changed since, or deleted.  The user
\* need not be signed in with Google any more.
Init ==
    /\ google \in User \cup {None}
    /\ person = None
    /\ profiles = {}
    /\ ref = None
    /\ \E u \in User, left \in BOOLEAN :
         /\ session = [d \in Shard |-> IF left /\ d = ShardOf[u] THEN u ELSE None]
         /\ reads \in {NoReads} \cup
              {[NoReads EXCEPT ![<<u, s>>] = "in"] : s \in Session}
         /\ former = IF google # u /\ (left \/ reads # NoReads) THEN {u} ELSE {}
    /\ flows = {}
    /\ pending = 0
    /\ schedule = "loading"
    /\ loads = <<"cached">>
    /\ requests = <<>>
    /\ listeners = {}
    /\ seen = [x \in User \X Shard \X Session |-> "none"]
    /\ saved = Nobody
    /\ data \in [User -> [Session -> Value \cup {"gone"}]]
    /\ \A u \in User, s \in Session :
         IF reads[<<u, s>>] = "in" THEN data[u][s] # "none" ELSE data[u][s] \in {"none", "in"}
    /\ used = [b \in {"signins", "surveys", "changes", "faults"} |-> 0]
    /\ rejected = FALSE

Use(bound, max) ==
    /\ used[bound] < max
    /\ used' = [used EXCEPT ![bound] = @ + 1]

\* isAuthed and getTokenResponse, of a database and the sessions.
Authed(r, ses) == r # None /\ ses[r] # None

-----------------------------------------------------------------------------
(* google-signin.html.                                                     *)

\* handleSignIn and loadUserInfo.
HandleSignIn(u) ==
    /\ Use("signins", MaxSignIns)
    /\ person' = u
    /\ profiles' = profiles \cup {[n |-> used'["signins"], token |-> u]}

\* onLoadAuth: someone is signed in already.
LoadAuth ==
    /\ google # None /\ person = None
    /\ HandleSignIn(google)
    /\ UNCHANGED <<google, ref, session, flows, pending, page, store, watch,
                   saved, data, former, rejected>>

SignIn(u) ==
    /\ google = None
    /\ google' = u
    /\ HandleSignIn(u)
    /\ UNCHANGED <<ref, session, flows, pending, page, store, watch, saved, data,
                   former, rejected>>

\* The profile arrives, after which auth() begins: with the token of this
\* sign-in, but with the identifier of the last one.
LoadUserInfo(p) ==
    /\ profiles' = profiles \ {p}
    /\ \/ /\ ref' = ShardOf[person]
          /\ flows' = flows \cup {[n |-> p.n, token |-> p.token, stage |-> "offset",
                                   at |-> None]}
          /\ UNCHANGED used
       \/ /\ IF google = None THEN UNCHANGED used ELSE Use("faults", MaxFaults)
          /\ UNCHANGED <<ref, flows>>
    /\ UNCHANGED <<google, person, session, pending, page, store, watch, saved,
                   data, former, rejected>>

-----------------------------------------------------------------------------
(* auth() of firebase.js and the signin-change handler of auth.js.         *)

\* The last then(): all who wait are served, whether or not auth() failed.
\* Their surveys are sent with the uid of getAuth().
EndFlow(f) ==
    /\ flows' = flows \ {f}
    /\ pending' = 0
    /\ rejected' = (rejected \/ (pending > 0 /\ ~Authed(ref, session') /\ f.token \notin former))

Continue(f, stage, at) ==
    /\ flows' = (flows \ {f}) \cup {[f EXCEPT !.stage = stage, !.at = at]}
    /\ UNCHANGED <<pending, rejected>>

\* Mutant: those who wait are served before Firebase has answered.
ServeAtOnce(f) ==
    /\ f.stage = "offset"
    /\ UNCHANGED session
    /\ EndFlow(f)
    /\ UNCHANGED <<account, ref, page, store, watch, saved, data, used, former>>

\* The clock offset arrives; firebaseRef is read again.
SetClockOffset(f) ==
    /\ f.stage = "offset"
    /\ UNCHANGED session
    /\ IF ref = None THEN EndFlow(f) ELSE Continue(f, "authorize", ref)
    /\ UNCHANGED <<account, ref, page, store, watch, saved, data, used, former>>

\* Mutant: auth() does not catch the failure of the authorization.
AuthorizeOrThrow(f) ==
    /\ f.stage = "authorize"
    /\ \/ /\ session' = [session EXCEPT ![f.at] = f.token]
          /\ IF Authed(ref, session') THEN Continue(f, "bump", f.at) ELSE EndFlow(f)
          /\ UNCHANGED used
       \/ /\ Use("faults", MaxFaults)
          /\ flows' = flows \ {f}
          /\ UNCHANGED <<session, pending, rejected>>
    /\ UNCHANGED <<account, ref, page, store, watch, saved, data, former>>

\* Firebase answers.  The callbacks and the bump need firebaseRef.
Authorize(f) ==
    /\ f.stage = "authorize"
    /\ \/ /\ session' = [session EXCEPT ![f.at] = f.token]
          /\ IF Authed(ref, session') THEN Continue(f, "bump", f.at) ELSE EndFlow(f)
          /\ UNCHANGED used
       \/ /\ Use("faults", MaxFaults)
          /\ UNCHANGED session
          /\ EndFlow(f)
    /\ UNCHANGED <<account, ref, page, store, watch, saved, data, former>>

\* Mutant: the request is named for the caller.
LoadByName(kind) == [kind |-> kind]

\* _loadUserSchedule, when the schedule is there: cached reads are replayed,
\* or cleared before the listeners are registered.
Load(kind) == [kind |-> IF kind = "cached" THEN "replay" ELSE "listen"]

\* _bumpLastActivityTimestamp and _replayQueuedOperations end; loadUserSchedule.
Bumped(f) ==
    /\ f.stage = "bump"
    /\ \/ /\ IF schedule = "loaded"
             THEN requests' = Append(requests, Load("live")) /\ UNCHANGED loads
             ELSE loads' = Append(loads, "live") /\ UNCHANGED requests
          /\ UNCHANGED used
       \/ /\ IF session[f.at] = f.token THEN Use("faults", MaxFaults) ELSE UNCHANGED used
          /\ UNCHANGED <<requests, loads>>
    /\ UNCHANGED session
    /\ EndFlow(f)
    /\ UNCHANGED <<account, ref, schedule, reads, watch, saved, data, former>>

\* resolveSchedulePromise.
LoadSchedule ==
    /\ schedule = "loading"
    /\ schedule' = "loaded"
    /\ requests' = requests \o [i \in DOMAIN loads |-> Load(loads[i])]
    /\ loads' = <<>>
    /\ UNCHANGED <<account, ref, session, flows, pending, reads, watch, saved,
                   data, used, former, rejected>>

\* History: those for whom a sign-in, or a change of what is shown, is under way.
UnderWay ==
    {p.token : p \in profiles} \cup {f.token : f \in flows}
      \cup {r.user : r \in {r \in ToSet(requests) : r.kind = "put"}}
      \cup {u \in User : /\ [kind |-> "replay"] \in ToSet(requests)
                         /\ \E s \in Session : reads[<<u, s>>] # "none"}

\* handleSignOut and unAuth, which fails at getAuth().uid when Firebase has not
\* authorized the user yet.
SignOut ==
    /\ google # None /\ person # None
    /\ google' = None
    /\ \/ /\ ref # None /\ session[ref] = None
          /\ UNCHANGED <<ref, session, listeners, requests, saved>>
          /\ former' = former \cup {google}
       \/ /\ \/ /\ ref = None
                /\ UNCHANGED <<ref, session, listeners>>
             \/ /\ Authed(ref, session)
                /\ listeners' = listeners \ {<<session[ref], ref>>}
                /\ session' = [session EXCEPT ![ref] = None]
                /\ ref' = None
          /\ requests' = Append(requests, [kind |-> "clear"])
          /\ saved' = Nobody
          /\ former' = UnderWay \cup {l[1] : l \in listeners'}
                         \cup ({session'[d] : d \in Shard} \ {None})
    /\ UNCHANGED <<person, profiles, flows, pending, page, reads, seen, data,
                   used, rejected>>

-----------------------------------------------------------------------------
(* The listeners and the READS store.                                      *)

\* toggleSession of another device of the user; nothing removes an entry while
\* the page is open.
ChangeData(u, s) ==
    /\ Use("changes", MaxChanges)
    /\ data' = [data EXCEPT ![u][s] = IF @ = "in" THEN "out" ELSE "in"]
    /\ UNCHANGED <<account, ref, session, flows, pending, page, store, watch,
                   saved, former, rejected>>

\* What Firebase has at my_sessions/<s> of the user in a database.
Current(u, d, s) ==
    IF d = ShardOf[u] /\ data[u][s] # "gone" THEN data[u][s] ELSE "none"

\* The listener of the user in a database has something to be told.
Due(u, d, s) ==
    /\ <<u, d>> \in listeners
    /\ session[d] = u
    /\ seen[<<u, d, s>>] # Current(u, d, s)

\* child_added and child_changed: wrappedCallback begins with a write.
Notify(u, d, s) ==
    /\ Due(u, d, s)
    /\ seen' = [seen EXCEPT ![<<u, d, s>>] = Current(u, d, s)]
    /\ requests' = Append(requests, [kind |-> "put", user |-> u, key |-> s,
                                     value |-> Current(u, d, s)])
    /\ UNCHANGED <<account, ref, session, flows, pending, page, reads, listeners,
                   saved, data, used, former, rejected>>

\* Mutant: a session is never removed.
ShownForEver(shown, u, value) ==
    IF value = "in" /\ shown = None THEN u ELSE shown

\* sessionUpdatesCallback.
Shown(shown, u, value) ==
    CASE value = "in" /\ shown = None -> u
      [] value = "out" -> None
      [] OTHER -> shown

Serve ==
    /\ requests # <<>>
    /\ requests' = Tail(requests)
    /\ LET r == Head(requests) IN
         \/ /\ r.kind = "put"
            /\ reads' = [reads EXCEPT ![<<r.user, r.key>>] = r.value]
            /\ saved' = [saved EXCEPT ![r.key] = Shown(@, r.user, r.value)]
            /\ UNCHANGED watch
         \/ /\ r.kind = "replay"
            /\ saved' = [s \in Session |->
                  LET held == {u \in User : reads[<<u, s>>] # "none"}
                  IN  IF held = {} THEN saved[s]
                      ELSE LET u == CHOOSE u \in held : TRUE
                           IN  Shown(saved[s], u, reads[<<u, s>>])]
            /\ UNCHANGED <<reads, watch>>
         \/ /\ r.kind = "clear"
            /\ reads' = NoReads
            /\ UNCHANGED <<saved, watch>>
         \/ /\ r.kind = "listen"
            /\ reads' = NoReads
            /\ IF Authed(ref, session)
               THEN /\ listeners' = listeners \cup {<<session[ref], ref>>}
                    /\ seen' = [x \in DOMAIN seen |->
                                  IF x[1] = session[ref] /\ x[2] = ref THEN "none"
                                  ELSE seen[x]]
               ELSE UNCHANGED watch
            /\ UNCHANGED saved
    /\ UNCHANGED <<account, ref, session, flows, pending, page, data, used,
                   former, rejected>>

-----------------------------------------------------------------------------
\* saveSurvey and waitForSignedIn.
SaveSurvey ==
    /\ Use("surveys", MaxSurveys)
    /\ pending' = IF Authed(ref, session) THEN pending ELSE pending + 1
    /\ UNCHANGED <<account, ref, session, flows, page, store, watch, saved, data,
                   former, rejected>>

Next ==
    \/ LoadAuth
    \/ \E u \in User : SignIn(u)
    \/ SignOut
    \/ \E p \in profiles : LoadUserInfo(p)
    \/ \E f \in flows : SetClockOffset(f) \/ Authorize(f) \/ Bumped(f)
    \/ LoadSchedule
    \/ Serve
    \/ \E u \in User, s \in Session :
         ChangeData(u, s) \/ \E d \in Shard : Notify(u, d, s)
    \/ SaveSurvey

Spec == Init /\ [][Next]_vars

\* Firebase answers, or fails; nothing is assumed of the users.
Fairness == WF_vars(\E f \in flows : SetClockOffset(f) \/ Authorize(f) \/ Bumped(f))

FairSpec == Spec /\ Fairness

-----------------------------------------------------------------------------
(* Properties.                                                             *)

Quiet ==
    /\ flows = {} /\ profiles = {} /\ requests = <<>> /\ schedule = "loaded"
    /\ google # None /\ person # None
    /\ ~\E u \in User, s \in Session, d \in Shard : Due(u, d, s)

\* The page shows nobody's schedule but that of the user who is signed in, and
\* when everything has been answered all of it, over sign-ins and sign-outs that
\* overlap, replays of the cache and changes on other devices -- except what is
\* left of a user who was signed out in the middle of a sign-in or of a change
\* (unAuth clears before the callback shows, or fails), or whose cached reads
\* an earlier page left, and unless a call failed.  A cached session that has
\* been deleted since stays: no listener tells of it.
OwnSchedule ==
    /\ \A s \in Session : saved[s] \in former \cup {google, None}
    /\ Quiet /\ former = {} /\ used["faults"] = 0 =>
        \A s \in Session :
          data[google][s] # "gone" => (saved[s] # None <=> data[google][s] = "in")

\* A survey that waited for a sign-in is sent by a signed-in user, unless that
\* user was signed out meanwhile: what waitForSignedIn (auth.js) and auth()
\* (firebase.js) promise.
WaitersAreSignedIn == ~rejected

\* A survey that waited is sent with nobody signed in only when a call of a
\* sign-in has failed: whatever else overlaps, who waits is served after
\* Firebase has authorized a user.
OnlyFaultsReject == rejected => used["faults"] > 0

\* Whoever waits is served by any sign-in that is under way, whatever fails in
\* it and whoever signs out or in meanwhile.
WaitersServed == pending > 0 /\ flows # {} ~> pending = 0

=============================================================================
