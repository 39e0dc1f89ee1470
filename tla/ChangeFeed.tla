----------------------------- MODULE ChangeFeed -----------------------------
(***************************************************************************)
(* What the schedule back end promises to the readers of its datastore and *)
(* of its task queue, without requests, memcache, locks or transactions:   *)
(* versions are only ever added, and a version, its difference with an     *)
(* older version and the notification of that difference appear together.  *)
(* (That the older version is the previous one is what the code intends;   *)
(* ScheduleSync says when it is.)                                          *)
(***************************************************************************)
EXTENDS EventData

CONSTANT MaxVersion     \* bound: manifests published

VARIABLES log, changes, tasks

vars == <<log, changes, tasks>>

Init ==
    /\ log = <<>>
    /\ changes = <<>>
    /\ tasks = <<>>

Store(base, e) ==
    LET c == Change(Len(log) + 1, DataOf(log, base), e.data) IN
    /\ e.ts > Modified(log, base)
    /\ ~IsEmpty(e.data)
    /\ log' = Append(log, e)
    /\ \/ /\ DOMAIN c.sessions # {}
          /\ changes' = Append(changes, c)
          /\ tasks' = Append(tasks, c)
       \/ /\ DOMAIN c.sessions = {}
          /\ UNCHANGED changes
          /\ UNCHANGED tasks

Next ==
    \E base \in 0..Len(log), e \in [ts : 1..MaxVersion, data : Content] :
        Store(base, e)

Spec == Init /\ [][Next]_vars

=============================================================================
