--------------------------- MODULE NotifyPipeline ---------------------------
(***************************************************************************)
(* Notification of the users about changed sessions, as tasks of the App   *)
(* Engine task queue: handleNotifySubscribers, handleNotifyShard and       *)
(* handleNotifyUser (backend/handler.go) with the helpers that enqueue the *)
(* tasks (async.go), select what a user is told (push.go) and read and     *)
(* change the user's data in Firebase (db.go).                             *)
(*                                                                         *)
(* The queue runs a task until its handler answers 2xx, so a task whose    *)
(* instance dies, or whose handler answers 500, runs again from the start. *)
(* Tasks run in parallel and in any order; every call of a handler to the  *)
(* queue, to Firebase or to a push service is a step.  ("all" is left out: *)
(* it only makes a shard list its users when no session changed.)          *)
(***************************************************************************)
EXTENDS Integers, Sequences, SequencesExt, FiniteSets

CONSTANTS
    User,
    Shards,       \* config.Firebase.Shards, a sequence
    ShardOf,      \* the Firebase shard with the data of a user
    Key,          \* of a push subscription (crc32 of its endpoint)
    Session,
    Payloads,     \* the changes to notify of: the Update of each session
    None,
    MaxTaskRetry, \* maxTaskRetry (10)
    MaxErrors,    \* bound: calls that fail and subscriptions refused
    MaxCrashes,   \* bound: instances lost while they run a task
    MaxChanges    \* bound: changes the users make to their data

\* In the order of userNotifications.
UpdateOrder == <<"details", "soon", "start", "video", "survey">>
Update == ToSet(UpdateOrder)

ASSUME PipelineAssumption ==
    /\ Shards \in Seq(ToSet(Shards)) /\ IsInjective(Shards)
    /\ ShardOf \in [User -> ToSet(Shards)]
    /\ IsFiniteSet(User) /\ IsFiniteSet(Key)
    /\ Payloads \subseteq UNION {[D -> Update] : D \in SUBSET Session}
    /\ {MaxTaskRetry, MaxErrors, MaxCrashes, MaxChanges} \subseteq Nat
    /\ None \notin User \cup ToSet(Shards) \cup Update

VARIABLES
    changes,  \* the payload of the notify-subscribers task
    enabled,  \* Firebase: users/<uid>/web_notifications_enabled
    subs,     \* Firebase: users/<uid>/web_push_subscriptions
    booked,   \* Firebase: data/<uid>/my_sessions that are in_schedule
    tasks,    \* the tasks in the queue
    sent,     \* how often a subscription was sent a notification (201)
    used,     \* how much of each bound has been used
    lost,     \* history: notifications dropped after an error
    changed   \* history: users who changed their data

data == <<enabled, subs, booked>>
vars == <<changes, data, tasks, sent, used, lost, changed>>

Delivery == User \X Key \X Update

\* runs is how many executions of the task have ended without a 2xx.  An
\* execution adds a task at most once, so the executions that a task comes
\* from (by their numbers) tell it from the copies of it.
Task ==
    [from  : Seq(Nat),
     kind  : {"subscribers", "shard", "user"},
     shard : ToSet(Shards) \cup {None},
     user  : User \cup {None},
     note  : Update \cup {None},
     runs  : Nat,
     stage : {"shards", "users", "sessions", "notify", "info", "send", "delete"},
     users : SUBSET User,
     todo  : Seq(ToSet(Shards)) \cup Seq(User \X Update) \cup Seq(Key)]

FirstStage == [subscribers |-> "shards", shard |-> "users", user |-> "info"]
FirstWork(kind) == IF kind = "subscribers" THEN Shards ELSE <<>>

NewTask(from, kind, shard, user, note) ==
    [from |-> from, kind |-> kind, shard |-> shard, user |-> user,
     note |-> note, runs |-> 0, stage |-> FirstStage[kind], users |-> {},
     todo |-> FirstWork(kind)]

-----------------------------------------------------------------------------
TypeOK ==
    /\ changes \in Payloads
    /\ enabled \in [User -> BOOLEAN]
    /\ subs \in [User -> SUBSET Key]
    /\ booked \in [User -> SUBSET Session]
    /\ tasks \subseteq Task
    /\ sent \in [Delivery -> Nat]
    /\ used \in [{"errors", "crashes", "changes"} -> Nat]
    /\ lost \subseteq Delivery
    /\ changed \subseteq User

Init ==
    /\ changes \in Payloads
    /\ enabled \in [User -> BOOLEAN]
    /\ subs \in [User -> SUBSET Key]
    /\ booked \in [User -> SUBSET Session]
    /\ tasks = {NewTask(<<>>, "subscribers", None, None, None)}
    /\ sent = [x \in Delivery |-> 0]
    /\ used = [b \in {"errors", "crashes", "changes"} |-> 0]
    /\ lost = {}
    /\ changed = {}

Use(bound, max) ==
    /\ used[bound] < max
    /\ used' = [used EXCEPT ![bound] = @ + 1]

\* The task goes on at the given stage with the given work.
Goto(t, stage, todo) ==
    tasks' = (tasks \ {t}) \cup {[t EXCEPT !.stage = stage, !.todo = todo]}

\* The handler answers 2xx; and 500, or not at all.
Finish(t) == tasks' = tasks \ {t}
RunAgain(t) ==
    tasks' = (tasks \ {t}) \cup
        {[t EXCEPT !.runs = @ + 1, !.stage = FirstStage[t.kind], !.users = {},
                   !.todo = FirstWork(t.kind)]}

\* The first item of the work is done, and the tasks were added.
Advance(t, added) ==
    tasks' = (tasks \ {t}) \cup {[t EXCEPT !.todo = Tail(@)]} \cup added

UsersOf(shard) == {u \in User : ShardOf[u] = shard}

\* Everything a task could still lead to.
Targets(t) ==
    CASE t.kind = "subscribers" -> Delivery
      [] t.kind = "shard" -> UsersOf(t.shard) \X Key \X Update
      [] t.kind = "user" -> {t.user} \X Key \X {t.note}

Lose(deliveries) == lost' = lost \cup deliveries

-----------------------------------------------------------------------------
\* taskRetryCount, which is -1 in the first execution: all handlers begin
\* with a look at it.
Retried(t) == t.runs - 1

GiveUp(t) ==
    /\ Retried(t) > MaxTaskRetry
    /\ Finish(t)
    /\ Lose(Targets(t))
    /\ UNCHANGED <<changes, data, sent, used, changed>>

\* The end of the loop of a handler.
Return(t) ==
    /\ t.stage \in {"shards", "notify", "send"}
    /\ t.todo = <<>>
    /\ Finish(t)
    /\ UNCHANGED <<changes, data, sent, used, lost, changed>>

\* The instance dies, before or after any of the calls: the queue runs the
\* task again.
Crash(t) ==
    /\ Use("crashes", MaxCrashes)
    /\ RunAgain(t)
    /\ UNCHANGED <<changes, data, sent, lost, changed>>

-----------------------------------------------------------------------------
\* Mutant: the handler answers 500 when a shard's task cannot be added.
NotifyShardOrFail(t) ==
    /\ t.stage = "shards"
    /\ t.todo # <<>>
    /\ \/ /\ Advance(t, {NewTask(Append(t.from, t.runs), "shard", Head(t.todo), None, None)})
          /\ UNCHANGED used
       \/ /\ Use("errors", MaxErrors)
          /\ RunAgain(t)
    /\ UNCHANGED <<changes, data, sent, lost, changed>>

(* handleNotifySubscribers: a task for each shard; an error is logged.     *)
NotifyShard(t) ==
    /\ t.stage = "shards"
    /\ t.todo # <<>>
    /\ LET shard == Head(t.todo) IN
         \/ /\ Advance(t, {NewTask(Append(t.from, t.runs), "shard", shard, None, None)})
            /\ UNCHANGED <<used, lost>>
         \/ /\ Use("errors", MaxErrors)
            /\ Advance(t, {})
            /\ Lose(UsersOf(shard) \X Key \X Update)
    /\ UNCHANGED <<changes, data, sent, changed>>

-----------------------------------------------------------------------------
(* handleNotifyShard: two queries, which answer 500 when they fail, and a  *)
(* task for each notification of each user.                                *)

\* Mutant: users are told of every change.
NotesOfAll(sessions) == {changes[s] : s \in DOMAIN changes}

\* filterUserChanges and userNotifications.
Notes(sessions) ==
    {changes[s] : s \in DOMAIN changes \cap sessions}
      \cup ({"survey"} \cap {changes[s] : s \in DOMAIN changes})

\* The users are served one after the other, each in the order of the updates.
Rank(n) == CHOOSE k \in DOMAIN UpdateOrder : UpdateOrder[k] = n
InOrder(work) ==
    \A i, j \in DOMAIN work : i < j /\ work[i][1] = work[j][1] =>
        /\ Rank(work[i][2]) < Rank(work[j][2])
        /\ \A k \in i..j : work[k][1] = work[i][1]

\* Nothing is done when no session has changed.
NoSessions(t) ==
    /\ t.stage = "users"
    /\ DOMAIN changes = {}
    /\ Finish(t)
    /\ UNCHANGED <<changes, data, sent, used, lost, changed>>

ListUsersWithPush(t) ==
    /\ t.stage = "users"
    /\ DOMAIN changes # {}
    /\ \/ /\ tasks' = (tasks \ {t}) \cup
               {[t EXCEPT !.stage = "sessions",
                          !.users = {u \in UsersOf(t.shard) : enabled[u]}]}
          /\ UNCHANGED used
       \/ /\ Use("errors", MaxErrors)
          /\ RunAgain(t)
    /\ UNCHANGED <<changes, data, sent, lost, changed>>

ListAllUserSessions(t) ==
    /\ t.stage = "sessions"
    /\ \/ /\ \E work \in SetToSeqs({x \in t.users \X Update : x[2] \in Notes(booked[x[1]])}) :
               InOrder(work) /\ Goto(t, "notify", work)
          /\ UNCHANGED used
       \/ /\ Use("errors", MaxErrors)
          /\ RunAgain(t)
    /\ UNCHANGED <<changes, data, sent, lost, changed>>

\* Mutant: the user and the shard, both strings, are swapped in the call.
NotifyUserSwapped(t) ==
    /\ t.stage = "notify"
    /\ t.todo # <<>>
    /\ LET u == Head(t.todo)[1]
           n == Head(t.todo)[2]
       IN  Advance(t, {NewTask(Append(t.from, t.runs), "user", u, ShardOf[u], n)})
    /\ UNCHANGED <<changes, data, sent, used, lost, changed>>

\* notifyUserAsync; "TODO: handle this error case".
NotifyUser(t) ==
    /\ t.stage = "notify"
    /\ t.todo # <<>>
    /\ LET u == Head(t.todo)[1]
           n == Head(t.todo)[2]
       IN  \/ /\ Advance(t, {NewTask(Append(t.from, t.runs), "user", ShardOf[u], u, n)})
              /\ UNCHANGED <<used, lost>>
           \/ /\ Use("errors", MaxErrors)
              /\ Advance(t, {})
              /\ Lose({u} \X Key \X {n})
    /\ UNCHANGED <<changes, data, sent, changed>>

-----------------------------------------------------------------------------
(* handleNotifyUser: a push message to each subscription of the user.      *)
GetUserPushInfo(t) ==
    /\ t.stage = "info"
    /\ LET u == t.user IN
         \/ /\ enabled[u]
            /\ \E order \in SetToSeqs(subs[u]) : Goto(t, "send", order)
            /\ UNCHANGED <<used, lost>>
         \/ /\ ~enabled[u]
            /\ Finish(t)
            /\ UNCHANGED <<used, lost>>
         \/ /\ Use("errors", MaxErrors)
            /\ Finish(t)
            /\ Lose(Targets(t))
    /\ UNCHANGED <<changes, data, sent, changed>>

Sending(t) == <<t.user, Head(t.todo), t.note>>

\* Mutant: the loop ends at the first subscription that fails.
StopAtFailure(t) ==
    /\ t.stage = "send"
    /\ t.todo # <<>>
    /\ \/ /\ sent' = [sent EXCEPT ![Sending(t)] = @ + 1]
          /\ Advance(t, {})
          /\ UNCHANGED <<used, lost>>
       \/ /\ Use("errors", MaxErrors)
          /\ Goto(t, "send", <<>>)
          /\ Lose({Sending(t)})
          /\ UNCHANGED sent
    /\ UNCHANGED <<changes, data, changed>>

\* notifySubscription: 201; 4xx or an invalid subscription, to be removed;
\* an error to be retried, which is logged.
NotifySubscription(t) ==
    /\ t.stage = "send"
    /\ t.todo # <<>>
    /\ \/ /\ sent' = [sent EXCEPT ![Sending(t)] = @ + 1]
          /\ Advance(t, {})
          /\ UNCHANGED <<used, lost>>
       \/ /\ Use("errors", MaxErrors)
          /\ Goto(t, "delete", t.todo)
          /\ Lose({Sending(t)})
          /\ UNCHANGED sent
       \/ /\ Use("errors", MaxErrors)
          /\ Advance(t, {})
          /\ Lose({Sending(t)})
          /\ UNCHANGED sent
    /\ UNCHANGED <<changes, data, changed>>

\* Its error is ignored.
DeleteSubscription(t) ==
    /\ t.stage = "delete"
    /\ Goto(t, "send", Tail(t.todo))
    /\ \/ /\ subs' = [subs EXCEPT ![t.user] = @ \ {Head(t.todo)}]
          /\ UNCHANGED used
       \/ Use("errors", MaxErrors) /\ UNCHANGED subs
    /\ UNCHANGED <<changes, enabled, booked, sent, lost, changed>>

-----------------------------------------------------------------------------
(* The users change what the app stores in Firebase.                       *)
ChangeData(u) ==
    /\ Use("changes", MaxChanges)
    /\ \/ /\ enabled' = [enabled EXCEPT ![u] = ~@]
          /\ UNCHANGED <<subs, booked>>
       \/ /\ \E k \in Key \ subs[u] : subs' = [subs EXCEPT ![u] = @ \cup {k}]
          /\ UNCHANGED <<enabled, booked>>
       \/ /\ \E s \in Session :
               booked' = [booked EXCEPT ![u] = IF s \in @ THEN @ \ {s} ELSE @ \cup {s}]
          /\ UNCHANGED <<enabled, subs>>
    /\ changed' = changed \cup {u}
    /\ UNCHANGED <<changes, tasks, sent, lost>>

-----------------------------------------------------------------------------
Handle(t) ==
    \/ NotifyShard(t)
    \/ NoSessions(t) \/ ListUsersWithPush(t) \/ ListAllUserSessions(t) \/ NotifyUser(t)
    \/ GetUserPushInfo(t) \/ NotifySubscription(t) \/ DeleteSubscription(t)
    \/ Return(t)

Next ==
    \/ \E t \in tasks :
         \/ Retried(t) <= MaxTaskRetry /\ Handle(t)
         \/ GiveUp(t)
         \/ Crash(t)
    \/ \E u \in User : ChangeData(u)

Spec == Init /\ [][Next]_vars

-----------------------------------------------------------------------------
(* Properties.                                                             *)

\* A subscription gets the same notification once, and once more at most for
\* each execution of a task that was interrupted: neither the errors that
\* make a task run again nor those that do not repeat a notification.
BoundedCopies == \A x \in Delivery : sent[x] <= 1 + used["crashes"]

\* A user who leaves the settings and the schedule alone is told only when
\* notifications are enabled, and only of changes to the sessions in the
\* schedule, or of the survey.
OnlyConcerned ==
    \A u \in User \ changed, k \in Key, n \in Update :
        sent[<<u, k, n>>] > 0 =>
            /\ enabled[u]
            /\ \E s \in DOMAIN changes :
                 changes[s] = n /\ (n = "survey" \/ s \in booked[u])

Concerned(x) ==
    /\ enabled[x[1]]
    /\ x[2] \in subs[x[1]]
    /\ \E s \in DOMAIN changes :
         changes[s] = x[3] /\ (x[3] = "survey" \/ s \in booked[x[1]])

\* When the queue is empty, every subscription of a user whom a change
\* concerns got the notification, over interrupted and repeated tasks, unless
\* a call that the code does not retry failed for it, the retries ran out, or
\* the user changed the data meanwhile.
NobodyForgotten ==
    tasks = {} =>
        \A x \in Delivery :
            Concerned(x) /\ x[1] \notin changed => sent[x] > 0 \/ x \in lost

=============================================================================
