----------------------- MODULE NotifyPipeline_proofs -----------------------
(***************************************************************************)
(* Proofs about NotifyPipeline, for any users, shards, subscriptions and   *)
(* changed sessions, and any number of errors, crashes and changes.        *)
(***************************************************************************)
EXTENDS NotifyPipeline, FiniteSetTheorems, FunctionTheorems, TLAPS

-----------------------------------------------------------------------------
(* The inductive invariant.                                                *)

\* A change concerns user u, who is to get the notification n of it.
Wanted(u, n) ==
    \E s \in DOMAIN changes : changes[s] = n /\ (n = "survey" \/ s \in booked[u])

\* What the execution of a task has before it, of each kind of task; nothing twice.
Shaped(t) ==
    /\ IsInjective(t.todo)
    /\ t.kind = "subscribers" =>
         t.stage = "shards" /\ t.todo \in Seq(ToSet(Shards))
    /\ t.kind = "shard" =>
         /\ t.stage \in {"users", "sessions", "notify"}
         /\ t.shard \in ToSet(Shards) /\ t.users \subseteq UsersOf(t.shard)
         /\ t.todo \in Seq(UsersOf(t.shard) \X Update)
    /\ t.kind = "user" =>
         /\ t.stage \in {"info", "send", "delete"}
         /\ t.user \in User /\ t.note \in Update
         /\ t.todo \in Seq(Key) /\ (t.stage = "delete" => t.todo # <<>>)

\* It is about what a user who changed nothing wants to know.
Told(t) ==
    /\ t.kind = "shard" /\ t.stage = "notify" =>
         \A i \in DOMAIN t.todo : t.todo[i][1] \in changed \/ Wanted(t.todo[i][1], t.todo[i][2])
    /\ t.kind = "shard" /\ t.stage = "sessions" =>
         \A u \in UsersOf(t.shard) \ changed : enabled[u] => u \in t.users
    /\ t.kind = "user" /\ t.user \notin changed =>
         /\ Wanted(t.user, t.note)
         /\ t.stage # "info" => enabled[t.user]

TaskInv ==
    \A t \in tasks :
        /\ Shaped(t) /\ Told(t)
        /\ t.stage = "delete" => Sending(t) \in lost

\* If it goes on without an error, the task leads to the delivery x.
Leads(t, x) ==
    \/ t.kind = "subscribers" /\ ShardOf[x[1]] \in Range(t.todo)
    \/ /\ t.kind = "shard" /\ t.shard = ShardOf[x[1]]
       /\ \/ t.stage \in {"users", "sessions"}
          \/ t.stage = "notify" /\ <<x[1], x[3]>> \in Range(t.todo)
    \/ /\ t.kind = "user" /\ t.user = x[1] /\ t.note = x[3]
       /\ t.stage = "info" \/ x[2] \in Range(t.todo)

Leading(ts, x) == {t \in ts : Leads(t, x)}

\* As many copies of a notification as were sent and may still be.
CopiesInv ==
    /\ IsFiniteSet(tasks)
    /\ \A x \in Delivery : sent[x] + Cardinality(Leading(tasks, x)) <= 1 + used["crashes"]

\* What a user wants to know was sent, has been given up or is on its way.
CoverInv ==
    \A x \in Delivery : Concerned(x) /\ x[1] \notin changed =>
        sent[x] > 0 \/ x \in lost \/ Leading(tasks, x) # {}

IInv == TypeOK /\ TaskInv /\ OnlyConcerned /\ CopiesInv /\ CoverInv

-----------------------------------------------------------------------------
(* Lemmas about sequences and counts.                                      *)

LEMMA TailFacts ==
    ASSUME NEW S, NEW s \in Seq(S), s # <<>>, IsInjective(s)
    PROVE  /\ Tail(s) \in Seq(S) /\ Head(s) \in S /\ IsInjective(Tail(s))
           /\ Range(s) = {Head(s)} \cup Range(Tail(s)) /\ Head(s) \notin Range(Tail(s))
<1>1. /\ Tail(s) \in Seq(S) /\ Head(s) \in S /\ Head(s) = s[1] /\ 1 \in DOMAIN s
      /\ DOMAIN s = 1..Len(s) /\ Len(s) \in Nat /\ DOMAIN Tail(s) = 1..(Len(s) - 1)
      /\ \A i \in DOMAIN Tail(s) : i \in Nat /\ i + 1 \in DOMAIN s /\ i + 1 # 1 /\ Tail(s)[i] = s[i + 1]
  OBVIOUS
<1>2. \A i \in DOMAIN s : i = 1 \/ \E j \in DOMAIN Tail(s) : i = j + 1
  <2>1. \A i \in DOMAIN s : i # 1 => i - 1 \in DOMAIN Tail(s) /\ i = (i - 1) + 1
    BY <1>1
  <2> QED BY <2>1
<1>3. IsInjective(Tail(s))
  <2> SUFFICES ASSUME NEW i \in DOMAIN Tail(s), NEW j \in DOMAIN Tail(s), Tail(s)[i] = Tail(s)[j]
               PROVE  i = j
    BY DEF IsInjective
  <2>1. i + 1 = j + 1
    BY <1>1 DEF IsInjective
  <2> QED BY <1>1, <2>1
<1>4. Head(s) \notin Range(Tail(s))
  <2> SUFFICES ASSUME NEW i \in DOMAIN Tail(s), Tail(s)[i] = Head(s) PROVE FALSE
    BY DEF Range
  <2> QED BY <1>1 DEF IsInjective
<1>5. Range(s) = {Head(s)} \cup Range(Tail(s))
  <2>1. \A i \in DOMAIN s : s[i] \in {Head(s)} \cup Range(Tail(s))
    BY <1>1, <1>2 DEF Range
  <2>2. \A i \in DOMAIN Tail(s) : Tail(s)[i] \in Range(s)
    BY <1>1 DEF Range
  <2>3. Head(s) \in Range(s)
    BY <1>1 DEF Range
  <2>4. Range(s) \subseteq {Head(s)} \cup Range(Tail(s))
    BY <2>1 DEF Range
  <2>5. Range(Tail(s)) \subseteq Range(s)
    BY <2>2 DEF Range
  <2> QED BY <2>3, <2>4, <2>5
<1> QED BY <1>1, <1>3, <1>4, <1>5

\* The sequences of SetToSeqs have each member once.
LEMMA SetToSeqsFacts ==
    ASSUME NEW S, IsFiniteSet(S), NEW s \in SetToSeqs(S)
    PROVE  s \in Seq(S) /\ IsInjective(s) /\ Range(s) = S
<1>1. PICK n : n = Cardinality(S) /\ n \in Nat
  BY FS_CardinalityType
<1>2. s \in [1..n -> S] /\ \A i, j \in 1..n : i # j => s[i] # s[j]
  BY <1>1 DEF SetToSeqs
<1>3. s \in Injection(1..n, S) /\ IsInjective(s)
  BY <1>2 DEF Injection, IsInjective
<1>4. Cardinality(1..n) = n
  BY <1>1, FS_Interval
<1>5. s \in Surjection(1..n, S)
  BY <1>1, <1>3, <1>4, FS_Injection
<1>6. Range(s) = S
  BY <1>2, <1>5 DEF Surjection, Range
<1>7. s \in Seq(S)
  BY <1>1, <1>2
<1> QED BY <1>3, <1>6, <1>7

LEMMA UpdateFacts ==
    /\ Update = {"details", "soon", "start", "video", "survey"}
    /\ IsFiniteSet(Update)
<1>1. Update = {"details", "soon", "start", "video", "survey"}
  <2>1. DOMAIN UpdateOrder = 1..5
    BY DEF UpdateOrder
  <2>2. \A x : x \in Update <=> \E i \in 1..5 : x = UpdateOrder[i]
    BY <2>1 DEF Update, ToSet
  <2>3. /\ UpdateOrder[1] = "details" /\ UpdateOrder[2] = "soon" /\ UpdateOrder[3] = "start"
        /\ UpdateOrder[4] = "video" /\ UpdateOrder[5] = "survey"
    BY DEF UpdateOrder
  <2>4. \A i : i \in 1..5 <=> i = 1 \/ i = 2 \/ i = 3 \/ i = 4 \/ i = 5
    OBVIOUS
  <2> QED BY <2>2, <2>3, <2>4
<1>2. IsFiniteSet({"details"} \cup {"soon"} \cup {"start"} \cup {"video"} \cup {"survey"})
  <2>1. IsFiniteSet({"details"} \cup {"soon"})
    BY FS_Singleton, FS_Union
  <2>2. IsFiniteSet({"details"} \cup {"soon"} \cup {"start"})
    BY <2>1, FS_AddElement
  <2>3. IsFiniteSet({"details"} \cup {"soon"} \cup {"start"} \cup {"video"})
    BY <2>2, FS_AddElement
  <2> QED BY <2>3, FS_AddElement
<1>3. {"details", "soon", "start", "video", "survey"}
        = {"details"} \cup {"soon"} \cup {"start"} \cup {"video"} \cup {"survey"}
  OBVIOUS
<1> QED BY <1>1, <1>2, <1>3

\* Of the tasks that a step puts in the place of one, at most one leads to x.
LEMMA CountFacts ==
    ASSUME NEW ts, IsFiniteSet(ts), NEW t \in ts, NEW added, NEW us, us = (ts \ {t}) \cup added,
           NEW x, \A a, b \in added : Leads(a, x) /\ Leads(b, x) => a = b
    PROVE  /\ Cardinality(Leading(ts, x)) \in Nat /\ Cardinality(Leading(us, x)) \in Nat
           /\ Cardinality(Leading(us, x)) <= Cardinality(Leading(ts, x)) + 1
           /\ (\A a \in added : Leads(a, x) => Leads(t, x)) =>
                Cardinality(Leading(us, x)) <= Cardinality(Leading(ts, x))
           /\ Leads(t, x) /\ (\A a \in added : ~Leads(a, x)) =>
                Cardinality(Leading(us, x)) + 1 <= Cardinality(Leading(ts, x))
<1> DEFINE C == Leading(ts, x)
           D == Leading(us, x)
<1>1. IsFiniteSet(C) /\ Cardinality(C) \in Nat
  BY FS_Subset, FS_CardinalityType DEF Leading
<1>2. /\ IsFiniteSet(C \ {t}) /\ Cardinality(C \ {t}) \in Nat
      /\ Cardinality(C \ {t}) = IF t \in C THEN Cardinality(C) - 1 ELSE Cardinality(C)
  BY <1>1, FS_RemoveElement, FS_CardinalityType
<1>3. t \in C <=> Leads(t, x)
  BY DEF Leading
<1>4. CASE \A a \in added : ~Leads(a, x)
  <2>1. D \subseteq C \ {t}
    BY <1>4 DEF Leading
  <2>2. Cardinality(D) \in Nat /\ Cardinality(D) <= Cardinality(C \ {t})
    BY <1>2, <2>1, FS_Subset, FS_CardinalityType
  <2> HIDE DEF C, D
  <2>3. /\ Cardinality(C) \in Nat /\ Cardinality(D) \in Nat
        /\ Cardinality(D) <= Cardinality(C)
        /\ t \in C => Cardinality(D) + 1 <= Cardinality(C)
    BY <1>1, <1>2, <2>2
  <2> QED BY <1>3, <1>4, <2>3 DEF C, D
<1>5. ASSUME NEW b \in added, Leads(b, x)
      PROVE  /\ Cardinality(D) \in Nat /\ Cardinality(D) <= Cardinality(C) + 1
             /\ Leads(t, x) => Cardinality(D) <= Cardinality(C)
  <2>1. D \subseteq (C \ {t}) \cup {b}
    BY <1>5 DEF Leading
  <2>2. /\ IsFiniteSet((C \ {t}) \cup {b})
        /\ Cardinality((C \ {t}) \cup {b}) =
             IF b \in C \ {t} THEN Cardinality(C \ {t}) ELSE Cardinality(C \ {t}) + 1
    BY <1>2, FS_AddElement
  <2>3. Cardinality(D) \in Nat /\ Cardinality(D) <= Cardinality((C \ {t}) \cup {b})
    BY <2>1, <2>2, FS_Subset, FS_CardinalityType
  <2>4. Cardinality((C \ {t}) \cup {b}) <= Cardinality(C \ {t}) + 1
    BY <1>2, <2>2
  <2> HIDE DEF C, D
  <2> QED BY <1>1, <1>2, <1>3, <2>2, <2>3, <2>4
<1>6. CASE \E b \in added : Leads(b, x)
  <2>1. PICK b \in added : Leads(b, x)
    BY <1>6
  <2>2. /\ Cardinality(D) \in Nat /\ Cardinality(D) <= Cardinality(C) + 1
        /\ Leads(t, x) => Cardinality(D) <= Cardinality(C)
    BY <1>5, <2>1
  <2> HIDE DEF C, D
  <2> QED BY <1>1, <2>1, <2>2 DEF C, D
<1> QED BY <1>4, <1>6

-----------------------------------------------------------------------------
(* Lemmas about tasks.                                                     *)

LEMMA TypeFacts ==
    ASSUME TypeOK, NEW t \in tasks
    PROVE  /\ t \in Task
           /\ t.from \in Seq(Nat) /\ t.kind \in {"subscribers", "shard", "user"}
           /\ t.shard \in ToSet(Shards) \cup {None} /\ t.user \in User \cup {None}
           /\ t.note \in Update \cup {None} /\ t.runs \in Nat
           /\ t.stage \in {"shards", "users", "sessions", "notify", "info", "send", "delete"}
           /\ t.users \subseteq User
           /\ Append(t.from, t.runs) \in Seq(Nat)
BY DEF TypeOK, Task

\* The task of an execution that has gone on.
LEMMA GoneOn ==
    ASSUME NEW t \in Task,
           NEW stage \in {"shards", "users", "sessions", "notify", "info", "send", "delete"},
           NEW users \in SUBSET User,
           NEW todo \in Seq(ToSet(Shards)) \cup Seq(User \X Update) \cup Seq(Key),
           NEW runs \in Nat, NEW a,
           \/ a = [t EXCEPT !.runs = runs, !.stage = stage, !.users = users, !.todo = todo]
           \/ a = [t EXCEPT !.stage = stage, !.todo = todo] /\ users = t.users /\ runs = t.runs
           \/ a = [t EXCEPT !.todo = todo] /\ users = t.users /\ runs = t.runs /\ stage = t.stage
           \/ a = [t EXCEPT !.stage = stage, !.users = users] /\ todo = t.todo /\ runs = t.runs
    PROVE  /\ a \in Task
           /\ a.from = t.from /\ a.kind = t.kind /\ a.shard = t.shard /\ a.user = t.user
           /\ a.note = t.note /\ a.runs = runs /\ a.stage = stage /\ a.users = users /\ a.todo = todo
BY DEF Task

\* The three kinds of new tasks.
LEMMA SubscribersTask ==
    \A a : a = NewTask(<<>>, "subscribers", None, None, None) =>
        /\ a \in Task /\ a.kind = "subscribers" /\ a.users = {}
        /\ a.stage = "shards" /\ a.todo = Shards
BY PipelineAssumption DEF Task, NewTask, FirstStage, FirstWork

LEMMA ShardTask ==
    ASSUME NEW from \in Seq(Nat), NEW shard \in ToSet(Shards)
    PROVE  \A a : a = NewTask(from, "shard", shard, None, None) =>
               /\ a \in Task /\ a.kind = "shard" /\ a.shard = shard /\ a.users = {}
               /\ a.stage = "users" /\ a.todo = <<>>
BY DEF Task, NewTask, FirstStage, FirstWork

LEMMA UserTask ==
    ASSUME NEW from \in Seq(Nat), NEW shard \in ToSet(Shards), NEW u \in User, NEW n \in Update
    PROVE  \A a : a = NewTask(from, "user", shard, u, n) =>
               /\ a \in Task /\ a.kind = "user" /\ a.user = u /\ a.note = n
               /\ a.stage = "info" /\ a.todo = <<>>
BY DEF Task, NewTask, FirstStage, FirstWork

\* Nothing before it, or what every execution begins with.
LEMMA Beginning ==
    ASSUME NEW a, a.todo = IF a.kind = "subscribers" THEN Shards ELSE <<>>,
           a.kind = "subscribers" => a.stage = "shards",
           a.kind = "shard" => a.stage = "users" /\ a.shard \in ToSet(Shards) /\ a.users = {},
           a.kind = "user" => a.stage = "info" /\ a.user \in User /\ a.note \in Update
    PROVE  Shaped(a)
BY PipelineAssumption DEF Shaped, IsInjective

-----------------------------------------------------------------------------
(* The initial states, and the steps of the users.                         *)

LEMMA InitInv == Init => IInv
<1> SUFFICES ASSUME Init PROVE IInv
  OBVIOUS
<1>1. PICK a : a = NewTask(<<>>, "subscribers", None, None, None)
  OBVIOUS
<1>2. a \in Task /\ a.kind = "subscribers" /\ a.stage = "shards" /\ a.todo = Shards /\ tasks = {a}
  BY <1>1, SubscribersTask DEF Init
<1>3. TypeOK
  BY <1>2 DEF Init, TypeOK
<1>4. TaskInv
  BY <1>2, Beginning DEF TaskInv, Told
<1>5. OnlyConcerned
  BY DEF Init, OnlyConcerned, Delivery
<1>6. CopiesInv
  <2>1. IsFiniteSet(tasks)
    BY <1>2, FS_Singleton
  <2> SUFFICES ASSUME NEW x \in Delivery
               PROVE  sent[x] + Cardinality(Leading(tasks, x)) <= 1 + used["crashes"]
    BY <2>1 DEF CopiesInv
  <2>2. Leading(tasks, x) \subseteq {a}
    BY <1>2 DEF Leading
  <2>3. IsFiniteSet({a}) /\ Cardinality({a}) = 1
    BY FS_Singleton
  <2>4. Cardinality(Leading(tasks, x)) \in Nat /\ Cardinality(Leading(tasks, x)) <= 1
    BY <2>2, <2>3, FS_Subset, FS_CardinalityType
  <2>5. sent[x] = 0 /\ used["crashes"] = 0
    BY DEF Init
  <2> QED BY <2>4, <2>5
<1>7. CoverInv
  <2> SUFFICES ASSUME NEW x \in Delivery PROVE Leads(a, x)
    BY <1>2 DEF CoverInv, Leading
  <2>1. ShardOf[x[1]] \in ToSet(Shards)
    BY PipelineAssumption DEF Delivery
  <2> QED BY <1>2, <2>1 DEF Leads, ToSet, Range
<1> QED BY <1>3, <1>4, <1>5, <1>6, <1>7 DEF IInv

LEMMA ChangeDataStep == ASSUME IInv, NEW u \in User, ChangeData(u) PROVE IInv'
<1>1. /\ changed' = changed \cup {u} /\ UNCHANGED <<changes, tasks, sent, lost>>
      /\ \A v \in User \ {u} : enabled'[v] = enabled[v] /\ subs'[v] = subs[v] /\ booked'[v] = booked[v]
      /\ used' \in [{"errors", "crashes", "changes"} -> Nat] /\ used'["crashes"] = used["crashes"]
      /\ enabled' \in [User -> BOOLEAN] /\ subs' \in [User -> SUBSET Key]
      /\ booked' \in [User -> SUBSET Session]
  <2>1. used' \in [{"errors", "crashes", "changes"} -> Nat] /\ used'["crashes"] = used["crashes"]
    BY DEF ChangeData, Use, IInv, TypeOK
  <2>2. /\ \A v \in User \ {u} : enabled'[v] = enabled[v]
        /\ enabled' \in [User -> BOOLEAN]
    BY DEF ChangeData, IInv, TypeOK
  <2>3. /\ \A v \in User \ {u} : subs'[v] = subs[v]
        /\ subs' \in [User -> SUBSET Key]
    BY DEF ChangeData, IInv, TypeOK
  <2>4. /\ \A v \in User \ {u} : booked'[v] = booked[v]
        /\ booked' \in [User -> SUBSET Session]
    BY DEF ChangeData, IInv, TypeOK
  <2> QED BY <2>1, <2>2, <2>3, <2>4 DEF ChangeData
<1>2. TypeOK'
  BY <1>1 DEF IInv, TypeOK
<1>3. \A v \in User \ changed' : \A n : Wanted(v, n)' <=> Wanted(v, n)
  BY <1>1 DEF Wanted
<1>4. TaskInv'
  <2> SUFFICES ASSUME NEW t \in tasks PROVE Told(t)'
    BY <1>1 DEF IInv, TaskInv, Sending
  <2>1. Shaped(t) /\ Told(t)
    BY DEF IInv, TaskInv
  <2>2. t.kind = "shard" => \A i \in DOMAIN t.todo : t.todo[i][1] \in User
    BY <2>1 DEF Shaped, UsersOf
  <2>3. t.kind = "user" => t.user \in User
    BY <2>1 DEF Shaped
  <2>4. \A v \in UsersOf(t.shard) \ changed' : v \in UsersOf(t.shard) \ changed /\ enabled'[v] = enabled[v]
    BY <1>1 DEF UsersOf
  <2>5. t.kind = "shard" /\ t.stage = "sessions" =>
          \A v \in UsersOf(t.shard) \ changed' : enabled'[v] => v \in t.users
    BY <2>1, <2>4 DEF Told
  <2>6. t.kind = "shard" /\ t.stage = "notify" =>
          \A i \in DOMAIN t.todo : t.todo[i][1] \in changed' \/ Wanted(t.todo[i][1], t.todo[i][2])'
    BY <1>1, <1>3, <2>1, <2>2 DEF Told
  <2>7. t.kind = "user" /\ t.user \notin changed' =>
          Wanted(t.user, t.note)' /\ (t.stage # "info" => enabled'[t.user])
    BY <1>1, <1>3, <2>1, <2>3 DEF Told
  <2> QED BY <2>5, <2>6, <2>7 DEF Told, UsersOf
<1>5. OnlyConcerned'
  BY <1>1 DEF IInv, OnlyConcerned
<1>6. CopiesInv'
  BY <1>1 DEF IInv, CopiesInv
<1>7. CoverInv'
  BY <1>1 DEF IInv, CoverInv, Concerned, Delivery
<1> QED BY <1>2, <1>4, <1>5, <1>6, <1>7 DEF IInv

-----------------------------------------------------------------------------
(* The steps of a task.                                                    *)

\* A task that may be in the queue after the step.
Fits(a) ==
    /\ a \in Task /\ Shaped(a) /\ Told(a)
    /\ a.stage = "delete" => Sending(a) \in lost'

\* What a step of task t, which puts the tasks added in its place, does to the
\* copies of x: it leads no further than t did, unless it crashed; it sends x
\* and leads there no more; or it gives x up.
Accounted(t, added, x) ==
    /\ \A a, b \in added : Leads(a, x) /\ Leads(b, x) => a = b
    /\ \/ /\ sent'[x] = sent[x]
          /\ \/ \A a \in added : Leads(a, x) => Leads(t, x)
             \/ used'["crashes"] = used["crashes"] + 1
       \/ /\ sent'[x] = sent[x] + 1 /\ Leads(t, x) /\ \A a \in added : ~Leads(a, x)
          /\ x[1] \notin changed => enabled[x[1]] /\ Wanted(x[1], x[3])
    /\ Leads(t, x) /\ Concerned(x) /\ x[1] \notin changed =>
         sent'[x] > 0 \/ x \in lost' \/ \E a \in added : Leads(a, x)

LEMMA TaskStep ==
    ASSUME IInv, NEW t \in tasks, NEW added, IsFiniteSet(added),
           tasks' = (tasks \ {t}) \cup added,
           UNCHANGED <<changes, enabled, booked, changed>>,
           subs' \in [User -> SUBSET Key], \A u \in User : subs'[u] \subseteq subs[u],
           lost \subseteq lost', lost' \subseteq Delivery,
           used' \in [{"errors", "crashes", "changes"} -> Nat],
           used["crashes"] <= used'["crashes"],
           sent' \in [Delivery -> Nat],
           \A a \in added : Fits(a), \A x \in Delivery : Accounted(t, added, x)
    PROVE  IInv'
<1> USE DEF Fits, Accounted
<1>1. TypeOK'
  BY DEF IInv, TypeOK
<1>2. \A u, n : Wanted(u, n)' <=> Wanted(u, n)
  BY DEF Wanted
<1>3. TaskInv'
  <2>1. \A a : Told(a)' <=> Told(a)
    BY <1>2 DEF Told
  <2> QED BY <2>1 DEF IInv, TaskInv, Sending
<1>4. OnlyConcerned'
  <2> SUFFICES ASSUME NEW u \in User \ changed, NEW k \in Key, NEW n \in Update, sent'[<<u, k, n>>] > 0
               PROVE  enabled[u] /\ Wanted(u, n)
    BY <1>2 DEF OnlyConcerned, Wanted
  <2>1. PICK x : x = <<u, k, n>>
    OBVIOUS
  <2>2. x \in Delivery /\ x[1] = u /\ x[3] = n
    BY <2>1 DEF Delivery
  <2>3. CASE sent'[x] = sent[x]
    BY <2>1, <2>3 DEF IInv, OnlyConcerned, Wanted
  <2>4. CASE x[1] \notin changed => enabled[x[1]] /\ Wanted(x[1], x[3])
    BY <2>2, <2>4
  <2> QED BY <2>2, <2>3, <2>4
<1>5. CopiesInv'
  <2>1. IsFiniteSet(tasks')
    <3>1. IsFiniteSet(tasks \ {t})
      BY FS_RemoveElement DEF IInv, CopiesInv
    <3> QED BY <3>1, FS_Union
  <2> SUFFICES ASSUME NEW x \in Delivery
               PROVE  sent'[x] + Cardinality(Leading(tasks', x)) <= 1 + used'["crashes"]
    BY <2>1 DEF CopiesInv, Leading, Leads
  <2>2. /\ Cardinality(Leading(tasks, x)) \in Nat /\ Cardinality(Leading(tasks', x)) \in Nat
        /\ Cardinality(Leading(tasks', x)) <= Cardinality(Leading(tasks, x)) + 1
        /\ (\A a \in added : Leads(a, x) => Leads(t, x)) =>
             Cardinality(Leading(tasks', x)) <= Cardinality(Leading(tasks, x))
        /\ Leads(t, x) /\ (\A a \in added : ~Leads(a, x)) =>
             Cardinality(Leading(tasks', x)) + 1 <= Cardinality(Leading(tasks, x))
    <3>1. PICK us : us = tasks'
      OBVIOUS
    <3>2. IsFiniteSet(tasks) /\ us = (tasks \ {t}) \cup added
      BY <3>1 DEF IInv, CopiesInv
    <3>3. \A a, b \in added : Leads(a, x) /\ Leads(b, x) => a = b
      OBVIOUS
    <3>4. /\ Cardinality(Leading(tasks, x)) \in Nat /\ Cardinality(Leading(us, x)) \in Nat
          /\ Cardinality(Leading(us, x)) <= Cardinality(Leading(tasks, x)) + 1
          /\ (\A a \in added : Leads(a, x) => Leads(t, x)) =>
               Cardinality(Leading(us, x)) <= Cardinality(Leading(tasks, x))
          /\ Leads(t, x) /\ (\A a \in added : ~Leads(a, x)) =>
               Cardinality(Leading(us, x)) + 1 <= Cardinality(Leading(tasks, x))
      BY <3>2, <3>3, CountFacts
    <3> QED BY <3>1, <3>4
  <2>3. /\ sent[x] + Cardinality(Leading(tasks, x)) <= 1 + used["crashes"]
        /\ sent[x] \in Nat /\ sent'[x] \in Nat /\ used["crashes"] \in Nat /\ used'["crashes"] \in Nat
    BY DEF IInv, CopiesInv, TypeOK
  <2>4. CASE sent'[x] = sent[x] /\ \A a \in added : Leads(a, x) => Leads(t, x)
    BY <2>2, <2>3, <2>4
  <2>5. CASE sent'[x] = sent[x] /\ used'["crashes"] = used["crashes"] + 1
    BY <2>2, <2>3, <2>5
  <2>6. CASE sent'[x] = sent[x] + 1 /\ Leads(t, x) /\ \A a \in added : ~Leads(a, x)
    BY <2>2, <2>3, <2>6
  <2> QED BY <2>4, <2>5, <2>6
<1>6. CoverInv'
  <2> SUFFICES ASSUME NEW x \in Delivery, Concerned(x)', x[1] \notin changed
               PROVE  sent'[x] > 0 \/ x \in lost' \/ \E s \in tasks' : Leads(s, x)
    BY DEF CoverInv, Leading, Leads
  <2>1. Concerned(x)
    BY DEF Concerned, Delivery
  <2>2. CASE sent[x] > 0
    BY <2>2 DEF IInv, TypeOK
  <2>3. CASE x \in lost
    BY <2>3
  <2>4. ASSUME NEW s \in tasks, Leads(s, x)
        PROVE  sent'[x] > 0 \/ x \in lost' \/ \E r \in tasks' : Leads(r, x)
    BY <2>1, <2>4
  <2> QED BY <2>1, <2>2, <2>3, <2>4 DEF IInv, CoverInv, Leading
<1> QED BY <1>1, <1>3, <1>4, <1>5, <1>6 DEF IInv

\* The same for the steps that do not touch the data of the users.
LEMMA QueueStep ==
    ASSUME IInv, NEW t \in tasks, NEW added, IsFiniteSet(added),
           tasks' = (tasks \ {t}) \cup added,
           UNCHANGED <<changes, data, changed>>,
           lost' = lost \/ (\E gone \in SUBSET Delivery : Lose(gone)),
           \/ used' = used \/ Use("errors", MaxErrors) \/ Use("crashes", MaxCrashes),
           sent' \in [Delivery -> Nat],
           \A a \in added : Fits(a), \A x \in Delivery : Accounted(t, added, x)
    PROVE  IInv'
<1>1. UNCHANGED <<changes, enabled, booked, changed>> /\ subs' = subs
  BY DEF data
<1>2. subs' \in [User -> SUBSET Key] /\ \A u \in User : subs'[u] \subseteq subs[u]
  BY <1>1 DEF IInv, TypeOK
<1>3. lost \subseteq lost' /\ lost' \subseteq Delivery
  BY DEF Lose, IInv, TypeOK
<1>4. /\ used' \in [{"errors", "crashes", "changes"} -> Nat]
      /\ used["crashes"] <= used'["crashes"]
  BY DEF Use, IInv, TypeOK
<1> QED BY <1>1, <1>2, <1>3, <1>4, TaskStep

\* What is known of a task before its step.
LEMMA Before ==
    ASSUME IInv, NEW t \in tasks
    PROVE  /\ t \in Task /\ Shaped(t) /\ Told(t) /\ (t.stage = "delete" => Sending(t) \in lost)
           /\ t.kind \in {"subscribers", "shard", "user"}
           /\ Append(t.from, t.runs) \in Seq(Nat) /\ t.runs \in Nat /\ t.users \in SUBSET User
           /\ t.todo \in Seq(ToSet(Shards)) \cup Seq(User \X Update) \cup Seq(Key)
           /\ sent \in [Delivery -> Nat]
           /\ t.stage = "shards" => t.kind = "subscribers"
           /\ t.stage \in {"users", "sessions", "notify"} => t.kind = "shard"
           /\ t.stage \in {"info", "send", "delete"} => t.kind = "user"
<1>1. TypeOK /\ TaskInv
  BY DEF IInv
<1>2. Shaped(t) /\ Told(t) /\ (t.stage = "delete" => Sending(t) \in lost)
  BY <1>1 DEF TaskInv
<1>3. /\ t \in Task /\ t.kind \in {"subscribers", "shard", "user"}
      /\ Append(t.from, t.runs) \in Seq(Nat) /\ t.runs \in Nat /\ t.users \in SUBSET User
  BY <1>1, TypeFacts
<1>4. /\ t.todo \in Seq(ToSet(Shards)) \cup Seq(User \X Update) \cup Seq(Key)
      /\ sent \in [Delivery -> Nat]
  BY <1>1, <1>3 DEF Task, TypeOK
<1> QED BY <1>2, <1>3, <1>4 DEF Shaped

LEMMA PairFinite == \A b, c : IsFiniteSet({b, c})
<1> SUFFICES ASSUME NEW b, NEW c PROVE IsFiniteSet({b, c})
  OBVIOUS
<1>1. {b, c} = {b} \cup {c}
  OBVIOUS
<1>2. IsFiniteSet({b})
  BY FS_Singleton
<1>3. IsFiniteSet({b} \cup {c})
  BY <1>2, FS_AddElement
<1> QED BY <1>1, <1>3

\* The task with the first item of its work done.
Ahead(t) == [t EXCEPT !.todo = Tail(@)]

LEMMA Advanced ==
    ASSUME IInv, NEW t \in tasks, t.todo # <<>>, t.stage \in {"shards", "notify", "send"},
           NEW b, b = Ahead(t)
    PROVE  /\ Fits(b)
           /\ b.kind = t.kind /\ b.shard = t.shard /\ b.user = t.user /\ b.note = t.note
           /\ b.stage = t.stage /\ b.users = t.users /\ b.todo = Tail(t.todo)
           /\ Range(t.todo) = {Head(t.todo)} \cup Range(b.todo) /\ Head(t.todo) \notin Range(b.todo)
<1>1. /\ t \in Task /\ Shaped(t) /\ Told(t) /\ t.kind \in {"subscribers", "shard", "user"}
      /\ t.runs \in Nat /\ t.users \in SUBSET User
  BY Before
<1>2. /\ t.kind = "subscribers" => t.todo \in Seq(ToSet(Shards))
      /\ t.kind = "shard" => t.todo \in Seq(UsersOf(t.shard) \X Update)
      /\ t.kind = "user" => t.todo \in Seq(Key)
      /\ IsInjective(t.todo)
  BY <1>1 DEF Shaped
<1>3. /\ IsInjective(Tail(t.todo))
      /\ Range(t.todo) = {Head(t.todo)} \cup Range(Tail(t.todo)) /\ Head(t.todo) \notin Range(Tail(t.todo))
  BY <1>1, <1>2, TailFacts
<1>4. /\ t.kind = "subscribers" => Tail(t.todo) \in Seq(ToSet(Shards))
      /\ t.kind = "shard" => Tail(t.todo) \in Seq(UsersOf(t.shard) \X Update)
      /\ t.kind = "user" => Tail(t.todo) \in Seq(Key)
  BY <1>2, TailFacts
<1>5. Tail(t.todo) \in Seq(ToSet(Shards)) \cup Seq(User \X Update) \cup Seq(Key)
  <2>1. Seq(UsersOf(t.shard) \X Update) \subseteq Seq(User \X Update)
    BY DEF UsersOf
  <2> QED BY <1>1, <1>4, <2>1
<1>6. PICK todo : todo = Tail(t.todo)
  OBVIOUS
<1>7. /\ b \in Task
      /\ b.kind = t.kind /\ b.shard = t.shard /\ b.user = t.user /\ b.note = t.note
      /\ b.stage = t.stage /\ b.users = t.users /\ b.todo = Tail(t.todo)
  BY <1>1, <1>5, <1>6 DEF Task, Ahead
<1>8. Shaped(b)
  BY <1>1, <1>3, <1>4, <1>7 DEF Shaped
<1>9. Told(b)
  <2>1. \A i \in DOMAIN b.todo : \E j \in DOMAIN t.todo : b.todo[i] = t.todo[j]
    <3>1. todo = b.todo /\ Range(todo) \subseteq Range(t.todo)
      BY <1>3, <1>6, <1>7
    <3>2. \A i \in DOMAIN todo : todo[i] \in Range(todo)
      BY DEF Range
    <3>3. \A y \in Range(t.todo) : \E j \in DOMAIN t.todo : y = t.todo[j]
      BY DEF Range
    <3> QED BY <3>1, <3>2, <3>3
  <2> QED BY <1>1, <1>7, <2>1 DEF Told
<1> QED BY <1>3, <1>7, <1>8, <1>9 DEF Fits

-----------------------------------------------------------------------------
(* The steps of the three handlers.                                        *)

LEMMA NotifyShardStep == ASSUME IInv, NEW t \in tasks, NotifyShard(t) PROVE IInv'
<1>1. /\ t.stage = "shards" /\ t.todo # <<>> /\ t.kind = "subscribers" /\ Shaped(t)
      /\ Append(t.from, t.runs) \in Seq(Nat) /\ sent \in [Delivery -> Nat]
      /\ UNCHANGED <<changes, data, sent, changed>>
  BY Before DEF NotifyShard
<1>2. PICK b, shard, from : /\ b = Ahead(t) /\ shard = Head(t.todo)
                            /\ from = Append(t.from, t.runs)
  OBVIOUS
<1>3. /\ Fits(b) /\ b.kind = "subscribers"
      /\ Range(t.todo) = {shard} \cup Range(b.todo) /\ shard \notin Range(b.todo)
  <2>1. t.stage \in {"shards", "notify", "send"} /\ b = Ahead(t)
    BY <1>1, <1>2
  <2>2. /\ Fits(b) /\ b.kind = t.kind
        /\ Range(t.todo) = {Head(t.todo)} \cup Range(b.todo) /\ Head(t.todo) \notin Range(b.todo)
    BY <1>1, <2>1, Advanced
  <2> QED BY <1>1, <1>2, <2>2
<1>4. shard \in ToSet(Shards)
  BY <1>1, <1>2, TailFacts DEF Shaped
<1>5. \A x : /\ Leads(t, x) <=> ShardOf[x[1]] = shard \/ ShardOf[x[1]] \in Range(b.todo)
             /\ Leads(b, x) <=> ShardOf[x[1]] \in Range(b.todo)
  BY <1>1, <1>3 DEF Leads
<1>6. \A x \in Delivery : sent'[x] = sent[x]
  BY <1>1
<1>7. ASSUME UNCHANGED <<used, lost>>,
             Advance(t, {NewTask(Append(t.from, t.runs), "shard", shard, None, None)})
      PROVE  IInv'
  <2>1. PICK c : c = NewTask(from, "shard", shard, None, None)
    OBVIOUS
  <2>2. c \in Task /\ c.kind = "shard" /\ c.shard = shard /\ c.users = {} /\ c.stage = "users" /\ c.todo = <<>>
    <3>1. from \in Seq(Nat)
      BY <1>1, <1>2
    <3> QED BY <1>4, <2>1, <3>1, ShardTask
  <2>3. Fits(c)
    BY <1>4, <2>2, Beginning DEF Fits, Told
  <2>4. PICK added : added = {b, c}
    OBVIOUS
  <2>5. tasks' = (tasks \ {t}) \cup added /\ IsFiniteSet(added)
    BY <1>2, <1>7, <2>1, <2>4, PairFinite DEF Advance, Ahead
  <2>6. \A x : Leads(c, x) <=> ShardOf[x[1]] = shard
    BY <2>2 DEF Leads
  <2>7. \A x \in Delivery : Accounted(t, added, x)
    BY <1>3, <1>5, <1>6, <2>4, <2>6 DEF Accounted
  <2> QED BY <1>1, <1>3, <1>7, <2>3, <2>4, <2>5, <2>7, QueueStep
<1>8. ASSUME Use("errors", MaxErrors), Advance(t, {}), Lose(UsersOf(shard) \X Key \X Update)
      PROVE  IInv'
  <2>1. tasks' = (tasks \ {t}) \cup {b} /\ IsFiniteSet({b})
    BY <1>2, <1>8, FS_Singleton DEF Advance, Ahead
  <2>2. UsersOf(shard) \X Key \X Update \in SUBSET Delivery
    BY DEF UsersOf, Delivery
  <2>3. \A x \in Delivery : ShardOf[x[1]] = shard => x \in lost'
    BY <1>8 DEF Lose, UsersOf, Delivery
  <2>4. \A x \in Delivery : Accounted(t, {b}, x)
    BY <1>5, <1>6, <2>3 DEF Accounted
  <2> QED BY <1>1, <1>3, <1>8, <2>1, <2>2, <2>4, QueueStep
<1> QED BY <1>2, <1>7, <1>8 DEF NotifyShard

LEMMA NoSessionsStep == ASSUME IInv, NEW t \in tasks, NoSessions(t) PROVE IInv'
<1>1. /\ tasks' = (tasks \ {t}) \cup {} /\ IsFiniteSet({}) /\ sent' \in [Delivery -> Nat]
      /\ UNCHANGED <<changes, data, sent, used, lost, changed>>
  BY Before, FS_EmptySet DEF NoSessions, Finish
<1>2. \A x \in Delivery : Accounted(t, {}, x)
  BY <1>1 DEF NoSessions, Accounted, Concerned
<1> QED BY <1>1, <1>2, QueueStep

LEMMA ReturnStep == ASSUME IInv, NEW t \in tasks, Return(t) PROVE IInv'
<1>1. /\ tasks' = (tasks \ {t}) \cup {} /\ IsFiniteSet({}) /\ sent' \in [Delivery -> Nat]
      /\ UNCHANGED <<changes, data, sent, used, lost, changed>>
  BY Before, FS_EmptySet DEF Return, Finish
<1>2. Range(t.todo) = {} /\ t.stage \in {"shards", "notify", "send"}
  BY DEF Return, Range
<1>3. \A x : ~Leads(t, x)
  BY <1>2, Before DEF Leads
<1>4. \A x \in Delivery : Accounted(t, {}, x)
  BY <1>1, <1>3 DEF Accounted
<1> QED BY <1>1, <1>4, QueueStep

LEMMA GiveUpStep == ASSUME IInv, NEW t \in tasks, GiveUp(t) PROVE IInv'
<1>1. /\ tasks' = (tasks \ {t}) \cup {} /\ IsFiniteSet({}) /\ sent' \in [Delivery -> Nat]
      /\ UNCHANGED <<changes, data, sent, used, changed>> /\ Lose(Targets(t))
  BY Before, FS_EmptySet DEF GiveUp, Finish
<1>2. Targets(t) \in SUBSET Delivery /\ \A x \in Delivery : Leads(t, x) => x \in Targets(t)
  BY Before DEF Targets, Shaped, UsersOf, Leads, Delivery
<1>3. \A x \in Delivery : Accounted(t, {}, x)
  BY <1>1, <1>2 DEF Accounted, Lose
<1> QED BY <1>1, <1>2, <1>3, QueueStep

\* A task of a shard that begins again, or goes on, before it lists anything.
LEMMA ShardAgain ==
    ASSUME IInv, NEW t \in tasks, t.stage \in {"users", "sessions"}, RunAgain(t),
           Use("errors", MaxErrors), UNCHANGED <<changes, data, sent, lost, changed>>
    PROVE  IInv'
<1>1. /\ t \in Task /\ Shaped(t) /\ t.kind = "shard" /\ sent \in [Delivery -> Nat] /\ t.runs \in Nat
  BY Before
<1>2. PICK b, runs : /\ b = [t EXCEPT !.runs = @ + 1, !.stage = FirstStage[t.kind], !.users = {},
                                      !.todo = FirstWork(t.kind)]
                     /\ runs = t.runs + 1
  OBVIOUS
<1>3. b = [t EXCEPT !.runs = runs, !.stage = "users", !.users = {}, !.todo = <<>>]
  BY <1>1, <1>2 DEF FirstStage, FirstWork
<1>4. b \in Task /\ b.kind = "shard" /\ b.shard = t.shard /\ b.stage = "users" /\ b.users = {} /\ b.todo = <<>>
  <2>1. PICK todo : todo = <<>>
    OBVIOUS
  <2>2. runs \in Nat /\ todo \in Seq(Key)
    BY <1>1, <1>2, <2>1
  <2>3. b = [t EXCEPT !.runs = runs, !.stage = "users", !.users = {}, !.todo = todo]
    BY <1>3, <2>1
  <2>4. /\ b \in Task /\ b.kind = t.kind /\ b.shard = t.shard /\ b.stage = "users" /\ b.users = {}
        /\ b.todo = todo
    BY <1>1, <2>2, <2>3 DEF Task
  <2> QED BY <1>1, <2>1, <2>4
<1>5. Fits(b)
  BY <1>1, <1>4, Beginning DEF Fits, Told, Shaped
<1>6. \A x : Leads(b, x) <=> Leads(t, x)
  BY <1>1, <1>4 DEF Leads
<1>7. \A x \in Delivery : Accounted(t, {b}, x)
  BY <1>6 DEF Accounted
<1>8. tasks' = (tasks \ {t}) \cup {b} /\ IsFiniteSet({b})
  BY <1>2, FS_Singleton DEF RunAgain
<1> QED BY <1>1, <1>5, <1>7, <1>8, QueueStep

LEMMA ListUsersWithPushStep == ASSUME IInv, NEW t \in tasks, ListUsersWithPush(t) PROVE IInv'
<1>1. /\ t \in Task /\ Shaped(t) /\ t.kind = "shard" /\ sent \in [Delivery -> Nat]
      /\ t.stage = "users" /\ UNCHANGED <<changes, data, sent, lost, changed>>
  BY Before DEF ListUsersWithPush
<1>2. ASSUME UNCHANGED used,
             tasks' = (tasks \ {t}) \cup
               {[t EXCEPT !.stage = "sessions", !.users = {u \in UsersOf(t.shard) : enabled[u]}]}
      PROVE  IInv'
  <2>1. PICK b, users : /\ b = [t EXCEPT !.stage = "sessions",
                                         !.users = {u \in UsersOf(t.shard) : enabled[u]}]
                        /\ users = {u \in UsersOf(t.shard) : enabled[u]}
    OBVIOUS
  <2>2. users \in SUBSET UsersOf(t.shard) /\ users \in SUBSET User
    BY <2>1 DEF UsersOf
  <2>3. b = [t EXCEPT !.stage = "sessions", !.users = users]
    BY <2>1
  <2>4. /\ b \in Task /\ b.kind = "shard" /\ b.shard = t.shard /\ b.stage = "sessions" /\ b.users = users
        /\ b.todo = t.todo
    BY <1>1, <2>2, <2>3 DEF Task
  <2>5. Shaped(b)
    BY <1>1, <2>2, <2>4 DEF Shaped
  <2>6. Fits(b)
    BY <2>1, <2>4, <2>5 DEF Fits, Told
  <2>7. \A x : Leads(b, x) <=> Leads(t, x)
    BY <1>1, <2>4 DEF Leads
  <2>8. \A x \in Delivery : Accounted(t, {b}, x)
    BY <1>1, <2>7 DEF Accounted
  <2>9. tasks' = (tasks \ {t}) \cup {b} /\ IsFiniteSet({b})
    BY <1>2, <2>1, FS_Singleton
  <2> QED BY <1>1, <1>2, <2>6, <2>8, <2>9, QueueStep
<1>3. ASSUME Use("errors", MaxErrors), RunAgain(t) PROVE IInv'
  BY <1>1, <1>3, ShardAgain
<1> QED BY <1>2, <1>3 DEF ListUsersWithPush

\* What is selected for a user is what the user wants to know.
LEMMA NotesFacts ==
    \A u, n : n \in Notes(booked[u]) <=> Wanted(u, n)
BY DEF Notes, Wanted

LEMMA ListAllUserSessionsStep == ASSUME IInv, NEW t \in tasks, ListAllUserSessions(t) PROVE IInv'
<1>1. /\ t \in Task /\ Shaped(t) /\ Told(t) /\ t.kind = "shard" /\ sent \in [Delivery -> Nat]
      /\ t.users \in SUBSET User /\ t.stage = "sessions"
      /\ UNCHANGED <<changes, data, sent, lost, changed>>
  BY Before DEF ListAllUserSessions
<1>2. ASSUME NEW work \in SetToSeqs({x \in t.users \X Update : x[2] \in Notes(booked[x[1]])}),
             UNCHANGED used, Goto(t, "notify", work)
      PROVE  IInv'
  <2>1. PICK wanted : wanted = {x \in t.users \X Update : x[2] \in Notes(booked[x[1]])}
    OBVIOUS
  <2>2. t.users \subseteq UsersOf(t.shard) /\ UsersOf(t.shard) \subseteq User
    BY <1>1 DEF Shaped, UsersOf
  <2>3. IsFiniteSet(wanted)
    <3>1. IsFiniteSet(t.users)
      BY <1>1, PipelineAssumption, FS_Subset
    <3>2. IsFiniteSet(t.users \X Update)
      BY <3>1, UpdateFacts, FS_Product
    <3> QED BY <2>1, <3>2, FS_Subset
  <2>4. work \in Seq(wanted) /\ IsInjective(work) /\ Range(work) = wanted
    BY <1>2, <2>1, <2>3, SetToSeqsFacts
  <2>5. work \in Seq(UsersOf(t.shard) \X Update) /\ work \in Seq(User \X Update)
    <3>1. wanted \subseteq UsersOf(t.shard) \X Update /\ wanted \subseteq User \X Update
      BY <2>1, <2>2
    <3> QED BY <2>4, <3>1
  <2>6. PICK b : b = [t EXCEPT !.stage = "notify", !.todo = work]
    OBVIOUS
  <2>7. /\ b \in Task /\ b.kind = "shard" /\ b.shard = t.shard /\ b.stage = "notify"
        /\ b.users = t.users /\ b.todo = work
    BY <1>1, <2>5, <2>6 DEF Task
  <2>8. Shaped(b)
    BY <1>1, <2>4, <2>5, <2>7 DEF Shaped
  <2>9. \A u \in t.users, n \in Update : <<u, n>> \in wanted <=> Wanted(u, n)
    BY <2>1, NotesFacts
  <2>10. \A i \in DOMAIN work : Wanted(work[i][1], work[i][2])
    <3>1. \A i \in DOMAIN work : work[i] \in wanted
      BY <2>4 DEF Range
    <3>2. \A y \in wanted : Wanted(y[1], y[2])
      BY <2>1, NotesFacts
    <3> QED BY <3>1, <3>2
  <2>11. Fits(b)
    BY <2>7, <2>8, <2>10 DEF Fits, Told
  <2>12. \A x : /\ Leads(t, x) <=> t.shard = ShardOf[x[1]]
                /\ Leads(b, x) <=> t.shard = ShardOf[x[1]] /\ <<x[1], x[3]>> \in wanted
    BY <1>1, <2>4, <2>7 DEF Leads
  <2>13. ASSUME NEW x \in Delivery, Leads(t, x), Concerned(x), x[1] \notin changed
         PROVE  Leads(b, x)
    <3>1. x[1] \in UsersOf(t.shard) /\ x[3] \in Update /\ enabled[x[1]] /\ Wanted(x[1], x[3])
      BY <2>12, <2>13 DEF Delivery, UsersOf, Concerned, Wanted
    <3>2. x[1] \in t.users
      BY <1>1, <2>13, <3>1 DEF Told
    <3> QED BY <2>9, <2>12, <2>13, <3>1, <3>2
  <2>14. \A x \in Delivery : Accounted(t, {b}, x)
    BY <1>1, <2>12, <2>13 DEF Accounted
  <2>15. tasks' = (tasks \ {t}) \cup {b} /\ IsFiniteSet({b})
    BY <1>2, <2>6, FS_Singleton DEF Goto
  <2> QED BY <1>1, <1>2, <2>11, <2>14, <2>15, QueueStep
<1>3. ASSUME Use("errors", MaxErrors), RunAgain(t) PROVE IInv'
  BY <1>1, <1>3, ShardAgain
<1> QED BY <1>2, <1>3 DEF ListAllUserSessions

LEMMA NotifyUserStep == ASSUME IInv, NEW t \in tasks, NotifyUser(t) PROVE IInv'
<1>1. /\ t.stage = "notify" /\ t.todo # <<>> /\ t.kind = "shard" /\ Shaped(t) /\ Told(t)
      /\ Append(t.from, t.runs) \in Seq(Nat) /\ sent \in [Delivery -> Nat]
      /\ UNCHANGED <<changes, data, sent, changed>>
  BY Before DEF NotifyUser
<1>2. PICK b, u, n, from : /\ b = Ahead(t) /\ u = Head(t.todo)[1] /\ n = Head(t.todo)[2]
                           /\ from = Append(t.from, t.runs)
  OBVIOUS
<1>3. /\ Fits(b) /\ b.kind = "shard" /\ b.stage = "notify" /\ b.shard = t.shard
      /\ Range(t.todo) = {Head(t.todo)} \cup Range(b.todo) /\ Head(t.todo) \notin Range(b.todo)
  <2>1. t.stage \in {"shards", "notify", "send"} /\ b = Ahead(t)
    BY <1>1, <1>2
  <2>2. /\ Fits(b) /\ b.kind = t.kind /\ b.stage = t.stage /\ b.shard = t.shard
        /\ Range(t.todo) = {Head(t.todo)} \cup Range(b.todo) /\ Head(t.todo) \notin Range(b.todo)
    BY <1>1, <2>1, Advanced
  <2> QED BY <1>1, <2>2
<1>4. /\ Head(t.todo) = <<u, n>> /\ u \in UsersOf(t.shard) /\ n \in Update
      /\ u \in User /\ ShardOf[u] = t.shard /\ ShardOf[u] \in ToSet(Shards)
  <2>1. t.todo \in Seq(UsersOf(t.shard) \X Update) /\ IsInjective(t.todo) /\ t.shard \in ToSet(Shards)
    BY <1>1 DEF Shaped
  <2>2. Head(t.todo) \in UsersOf(t.shard) \X Update
    BY <1>1, <2>1, TailFacts
  <2> QED BY <1>2, <2>1, <2>2 DEF UsersOf
<1>5. u \in changed \/ Wanted(u, n)
  <2>1. Head(t.todo) \in Range(t.todo)
    BY <1>3
  <2>2. PICK i \in DOMAIN t.todo : t.todo[i] = Head(t.todo)
    BY <2>1 DEF Range
  <2>3. t.todo[i][1] = u /\ t.todo[i][2] = n
    BY <1>2, <2>2
  <2> QED BY <1>1, <2>3 DEF Told
<1>6. \A x : /\ Leads(t, x) <=> t.shard = ShardOf[x[1]]
                   /\ ((x[1] = u /\ x[3] = n) \/ <<x[1], x[3]>> \in Range(b.todo))
             /\ Leads(b, x) <=> t.shard = ShardOf[x[1]] /\ <<x[1], x[3]>> \in Range(b.todo)
  BY <1>1, <1>3, <1>4 DEF Leads
<1>7. <<u, n>> \notin Range(b.todo) /\ \A x \in Delivery : sent'[x] = sent[x]
  BY <1>1, <1>3, <1>4
<1>8. ASSUME UNCHANGED <<used, lost>>,
             Advance(t, {NewTask(Append(t.from, t.runs), "user", ShardOf[u], u, n)})
      PROVE  IInv'
  <2>1. PICK c, shard : c = NewTask(from, "user", shard, u, n) /\ shard = ShardOf[u]
    OBVIOUS
  <2>2. c \in Task /\ c.kind = "user" /\ c.user = u /\ c.note = n /\ c.stage = "info" /\ c.todo = <<>>
    <3>1. from \in Seq(Nat) /\ shard \in ToSet(Shards)
      BY <1>1, <1>2, <1>4, <2>1
    <3> QED BY <1>4, <2>1, <3>1, UserTask
  <2>3. Fits(c)
    BY <1>4, <1>5, <2>2, Beginning DEF Fits, Told
  <2>4. PICK added : added = {b, c}
    OBVIOUS
  <2>5. tasks' = (tasks \ {t}) \cup added /\ IsFiniteSet(added)
    BY <1>2, <1>8, <2>1, <2>4, PairFinite DEF Advance, Ahead
  <2>6. \A x : Leads(c, x) <=> x[1] = u /\ x[3] = n
    BY <2>2 DEF Leads
  <2>7. \A x \in Delivery : Accounted(t, added, x)
    <3> SUFFICES ASSUME NEW x \in Delivery PROVE Accounted(t, added, x)
      OBVIOUS
    <3>1. CASE x[1] = u /\ x[3] = n
      <4>1. Leads(t, x) /\ ~Leads(b, x) /\ Leads(c, x)
        BY <1>4, <1>6, <1>7, <2>6, <3>1
      <4> QED BY <1>7, <2>4, <4>1 DEF Accounted
    <3>2. CASE ~(x[1] = u /\ x[3] = n)
      <4>1. ~Leads(c, x) /\ (Leads(t, x) <=> Leads(b, x))
        BY <1>6, <2>6, <3>2
      <4> QED BY <1>7, <2>4, <4>1 DEF Accounted
    <3> QED BY <3>1, <3>2
  <2> QED BY <1>1, <1>3, <1>8, <2>3, <2>4, <2>5, <2>7, QueueStep
<1>9. ASSUME Use("errors", MaxErrors), Advance(t, {}), Lose({u} \X Key \X {n})
      PROVE  IInv'
  <2>1. tasks' = (tasks \ {t}) \cup {b} /\ IsFiniteSet({b})
    BY <1>2, <1>9, FS_Singleton DEF Advance, Ahead
  <2>2. {u} \X Key \X {n} \in SUBSET Delivery
    BY <1>4 DEF Delivery
  <2>3. \A x \in Delivery : x[1] = u /\ x[3] = n => x \in lost'
    BY <1>9 DEF Lose, Delivery
  <2>4. \A x \in Delivery : Accounted(t, {b}, x)
    BY <1>6, <1>7, <2>3 DEF Accounted
  <2> QED BY <1>1, <1>3, <1>9, <2>1, <2>2, <2>4, QueueStep
<1> QED BY <1>2, <1>8, <1>9 DEF NotifyUser

LEMMA GetUserPushInfoStep == ASSUME IInv, NEW t \in tasks, GetUserPushInfo(t) PROVE IInv'
<1>1. /\ t.stage = "info" /\ t.kind = "user" /\ t \in Task /\ Shaped(t) /\ Told(t)
      /\ sent \in [Delivery -> Nat] /\ UNCHANGED <<changes, data, sent, changed>>
  BY Before DEF GetUserPushInfo
<1>2. t.user \in User /\ t.note \in Update /\ subs[t.user] \in SUBSET Key
  BY <1>1 DEF Shaped, IInv, TypeOK
<1>3. \A x : Leads(t, x) <=> t.user = x[1] /\ t.note = x[3]
  BY <1>1 DEF Leads
<1>4. ASSUME enabled[t.user], NEW order \in SetToSeqs(subs[t.user]), Goto(t, "send", order),
             UNCHANGED <<used, lost>>
      PROVE  IInv'
  <2>1. order \in Seq(Key) /\ IsInjective(order) /\ Range(order) = subs[t.user]
    <3>1. PICK keys : keys = subs[t.user]
      OBVIOUS
    <3>2. IsFiniteSet(keys)
      BY <1>2, <3>1, PipelineAssumption, FS_Subset
    <3>3. order \in Seq(keys) /\ IsInjective(order) /\ Range(order) = keys
      BY <1>4, <3>1, <3>2, SetToSeqsFacts
    <3> QED BY <1>2, <3>1, <3>3
  <2>2. PICK b : b = [t EXCEPT !.stage = "send", !.todo = order]
    OBVIOUS
  <2>3. /\ b \in Task /\ b.kind = "user" /\ b.user = t.user /\ b.note = t.note
        /\ b.stage = "send" /\ b.todo = order
    BY <1>1, <2>1, <2>2 DEF Task
  <2>4. Shaped(b)
    BY <1>2, <2>1, <2>3 DEF Shaped
  <2>5. Fits(b)
    BY <1>1, <1>4, <2>3, <2>4 DEF Fits, Told
  <2>6. \A x : Leads(b, x) <=> t.user = x[1] /\ t.note = x[3] /\ x[2] \in subs[t.user]
    BY <2>1, <2>3 DEF Leads
  <2>7. \A x \in Delivery : Accounted(t, {b}, x)
    BY <1>1, <1>3, <2>6 DEF Accounted, Concerned
  <2>8. tasks' = (tasks \ {t}) \cup {b} /\ IsFiniteSet({b})
    BY <1>4, <2>2, FS_Singleton DEF Goto
  <2> QED BY <1>1, <1>4, <2>5, <2>7, <2>8, QueueStep
<1>5. tasks' = tasks \ {t} => tasks' = (tasks \ {t}) \cup {} /\ IsFiniteSet({})
  BY FS_EmptySet
<1>6. ASSUME ~enabled[t.user], Finish(t), UNCHANGED <<used, lost>>
      PROVE  IInv'
  <2>1. \A x \in Delivery : Accounted(t, {}, x)
    BY <1>1, <1>3, <1>6 DEF Accounted, Concerned
  <2> QED BY <1>1, <1>5, <1>6, <2>1, QueueStep DEF Finish
<1>7. ASSUME Use("errors", MaxErrors), Finish(t), Lose(Targets(t))
      PROVE  IInv'
  <2>1. Targets(t) \in SUBSET Delivery /\ \A x \in Delivery : Leads(t, x) => x \in Targets(t)
    BY <1>1, <1>2, <1>3 DEF Targets, Delivery
  <2>2. \A x \in Delivery : Accounted(t, {}, x)
    BY <1>1, <1>7, <2>1 DEF Accounted, Lose
  <2> QED BY <1>1, <1>5, <1>7, <2>1, <2>2, QueueStep DEF Finish
<1> QED BY <1>4, <1>6, <1>7 DEF GetUserPushInfo

\* The task of a user leads to the delivery it is at, and to those after it.
LEMMA SendingFacts ==
    ASSUME IInv, NEW t \in tasks, t.stage \in {"send", "delete"}, t.todo # <<>>
    PROVE  /\ Sending(t) \in Delivery /\ IsInjective(Tail(t.todo)) /\ Tail(t.todo) \in Seq(Key)
           /\ Sending(t)[1] = t.user /\ Sending(t)[2] = Head(t.todo) /\ Sending(t)[3] = t.note
           /\ Head(t.todo) \notin Range(Tail(t.todo))
           /\ Leads(t, Sending(t))
           /\ \A x \in Delivery : Leads(t, x) <=>
                \/ x = Sending(t)
                \/ x[1] = t.user /\ x[3] = t.note /\ x[2] \in Range(Tail(t.todo))
<1>1. t.kind = "user" /\ Shaped(t)
  BY Before
<1>2. t.user \in User /\ t.note \in Update /\ t.todo \in Seq(Key) /\ IsInjective(t.todo)
  BY <1>1 DEF Shaped
<1>3. /\ Tail(t.todo) \in Seq(Key) /\ Head(t.todo) \in Key /\ IsInjective(Tail(t.todo))
      /\ Range(t.todo) = {Head(t.todo)} \cup Range(Tail(t.todo))
      /\ Head(t.todo) \notin Range(Tail(t.todo))
  BY <1>2, TailFacts
<1>4. /\ Sending(t) \in Delivery
      /\ Sending(t)[1] = t.user /\ Sending(t)[2] = Head(t.todo) /\ Sending(t)[3] = t.note
      /\ \A x \in Delivery : x[1] = t.user /\ x[2] = Head(t.todo) /\ x[3] = t.note => x = Sending(t)
  BY <1>2, <1>3 DEF Sending, Delivery
<1>5. \A x : Leads(t, x) <=> t.user = x[1] /\ t.note = x[3] /\ x[2] \in Range(t.todo)
  BY <1>1 DEF Leads
<1> QED BY <1>3, <1>4, <1>5

LEMMA NotifySubscriptionStep == ASSUME IInv, NEW t \in tasks, NotifySubscription(t) PROVE IInv'
<1>1. /\ t.stage = "send" /\ t.todo # <<>> /\ t.kind = "user" /\ t \in Task /\ Shaped(t) /\ Told(t)
      /\ sent \in [Delivery -> Nat] /\ UNCHANGED <<changes, data, changed>>
  BY Before DEF NotifySubscription
<1>2. PICK b, y : b = Ahead(t) /\ y = Sending(t)
  OBVIOUS
<1>3. /\ Fits(b) /\ b.kind = "user" /\ b.stage = "send" /\ b.user = t.user /\ b.note = t.note
      /\ b.todo = Tail(t.todo)
  <2>1. t.stage \in {"shards", "notify", "send"} /\ b = Ahead(t)
    BY <1>1, <1>2
  <2>2. /\ Fits(b) /\ b.kind = t.kind /\ b.stage = t.stage /\ b.user = t.user /\ b.note = t.note
        /\ b.todo = Tail(t.todo)
    BY <1>1, <2>1, Advanced
  <2> QED BY <1>1, <2>2
<1>4. /\ y \in Delivery /\ y[1] = t.user /\ y[2] = Head(t.todo) /\ y[3] = t.note /\ Leads(t, y)
      /\ Head(t.todo) \notin Range(b.todo)
      /\ \A x \in Delivery : Leads(t, x) <=>
           x = y \/ (x[1] = t.user /\ x[3] = t.note /\ x[2] \in Range(b.todo))
  BY <1>1, <1>2, <1>3, SendingFacts
<1>5. \A x : Leads(b, x) <=> x[1] = t.user /\ x[3] = t.note /\ x[2] \in Range(b.todo)
  BY <1>3 DEF Leads
<1>6. ~Leads(b, y) /\ \A x \in Delivery : x # y => (Leads(b, x) <=> Leads(t, x))
  BY <1>4, <1>5
<1>7. Advance(t, {}) => tasks' = (tasks \ {t}) \cup {b} /\ IsFiniteSet({b})
  BY <1>2, FS_Singleton DEF Advance, Ahead
<1>8. ASSUME sent' = [sent EXCEPT ![Sending(t)] = @ + 1], Advance(t, {}), UNCHANGED <<used, lost>>
      PROVE  IInv'
  <2>1. sent' = [sent EXCEPT ![y] = sent[y] + 1]
    BY <1>2, <1>8
  <2>2. /\ sent' \in [Delivery -> Nat] /\ sent'[y] = sent[y] + 1 /\ sent'[y] > 0
        /\ \A x \in Delivery : x # y => sent'[x] = sent[x]
    BY <1>1, <1>4, <2>1
  <2>3. y[1] \notin changed => enabled[y[1]] /\ Wanted(y[1], y[3])
    BY <1>1, <1>4 DEF Told
  <2>4. \A x \in Delivery : Accounted(t, {b}, x)
    <3> SUFFICES ASSUME NEW x \in Delivery PROVE Accounted(t, {b}, x)
      OBVIOUS
    <3>1. CASE x = y
      BY <1>4, <1>6, <2>2, <2>3, <3>1 DEF Accounted
    <3>2. CASE x # y
      BY <1>6, <2>2, <3>2 DEF Accounted
    <3> QED BY <3>1, <3>2
  <2> QED BY <1>1, <1>3, <1>7, <1>8, <2>2, <2>4, QueueStep
<1>9. {y} \in SUBSET Delivery /\ (Lose({Sending(t)}) => Lose({y}) /\ y \in lost')
  BY <1>2, <1>4 DEF Lose
<1>10. ASSUME Use("errors", MaxErrors), Goto(t, "delete", t.todo), Lose({Sending(t)}), UNCHANGED sent
       PROVE  IInv'
  <2>1. PICK c : c = [t EXCEPT !.stage = "delete", !.todo = t.todo]
    OBVIOUS
  <2>2. /\ c \in Task /\ c.kind = "user" /\ c.user = t.user /\ c.note = t.note
        /\ c.stage = "delete" /\ c.todo = t.todo
    BY <1>1, <2>1 DEF Task
  <2>3. Shaped(c) /\ Told(c)
    BY <1>1, <2>2 DEF Shaped, Told
  <2>4. Sending(c) = y
    BY <1>2, <2>2 DEF Sending
  <2>5. Fits(c)
    BY <1>9, <1>10, <2>2, <2>3, <2>4 DEF Fits
  <2>6. \A x : Leads(c, x) <=> Leads(t, x)
    BY <1>1, <2>2 DEF Leads
  <2>7. \A x \in Delivery : Accounted(t, {c}, x)
    BY <1>10, <2>6 DEF Accounted
  <2>8. tasks' = (tasks \ {t}) \cup {c} /\ IsFiniteSet({c})
    BY <1>10, <2>1, FS_Singleton DEF Goto
  <2> QED BY <1>1, <1>9, <1>10, <2>5, <2>7, <2>8, QueueStep
<1>11. ASSUME Use("errors", MaxErrors), Advance(t, {}), Lose({Sending(t)}), UNCHANGED sent
       PROVE  IInv'
  <2>1. \A x \in Delivery : Accounted(t, {b}, x)
    BY <1>6, <1>9, <1>11 DEF Accounted
  <2> QED BY <1>1, <1>3, <1>7, <1>9, <1>11, <2>1, QueueStep
<1> QED BY <1>8, <1>10, <1>11 DEF NotifySubscription

LEMMA DeleteSubscriptionStep == ASSUME IInv, NEW t \in tasks, DeleteSubscription(t) PROVE IInv'
<1>1. /\ t.stage = "delete" /\ t.kind = "user" /\ t \in Task /\ Shaped(t) /\ Told(t)
      /\ t.todo # <<>> /\ sent \in [Delivery -> Nat] /\ Sending(t) \in lost
      /\ UNCHANGED <<changes, enabled, booked, sent, lost, changed>>
  BY Before DEF DeleteSubscription, Shaped
<1>2. PICK b, y, todo : /\ b = [t EXCEPT !.stage = "send", !.todo = Tail(t.todo)]
                        /\ y = Sending(t) /\ todo = Tail(t.todo)
  OBVIOUS
<1>3. /\ todo \in Seq(Key) /\ IsInjective(todo)
      /\ \A x \in Delivery : Leads(t, x) <=>
           x = y \/ (x[1] = t.user /\ x[3] = t.note /\ x[2] \in Range(todo))
  BY <1>1, <1>2, SendingFacts
<1>4. /\ b \in Task /\ b.kind = "user" /\ b.user = t.user /\ b.note = t.note
      /\ b.stage = "send" /\ b.todo = todo
  <2>1. b = [t EXCEPT !.stage = "send", !.todo = todo]
    BY <1>2
  <2> QED BY <1>1, <1>3, <2>1 DEF Task
<1>5. Fits(b)
  BY <1>1, <1>3, <1>4 DEF Fits, Shaped, Told
<1>6. \A x : Leads(b, x) <=> x[1] = t.user /\ x[3] = t.note /\ x[2] \in Range(todo)
  BY <1>4 DEF Leads
<1>7. \A x \in Delivery : Accounted(t, {b}, x)
  <2>1. y \in lost'
    BY <1>1, <1>2
  <2> QED BY <1>1, <1>3, <1>6, <2>1 DEF Accounted
<1>8. tasks' = (tasks \ {t}) \cup {b} /\ IsFiniteSet({b})
  BY <1>2, FS_Singleton DEF DeleteSubscription, Goto
<1>9. subs' \in [User -> SUBSET Key] /\ \A u \in User : subs'[u] \subseteq subs[u]
  BY DEF DeleteSubscription, IInv, TypeOK
<1>10. /\ used' \in [{"errors", "crashes", "changes"} -> Nat]
       /\ used["crashes"] <= used'["crashes"]
  BY DEF DeleteSubscription, Use, IInv, TypeOK
<1>11. lost \subseteq lost' /\ lost' \subseteq Delivery
  BY <1>1 DEF IInv, TypeOK
<1> QED BY <1>1, <1>5, <1>7, <1>8, <1>9, <1>10, <1>11, TaskStep

LEMMA CrashStep == ASSUME IInv, NEW t \in tasks, Crash(t) PROVE IInv'
<1>1. /\ t \in Task /\ Shaped(t) /\ Told(t) /\ t.kind \in {"subscribers", "shard", "user"}
      /\ t.runs \in Nat /\ sent \in [Delivery -> Nat]
      /\ UNCHANGED <<changes, data, sent, lost, changed>> /\ Use("crashes", MaxCrashes)
  BY Before DEF Crash
<1>2. PICK b, runs, stage, todo :
          /\ b = [t EXCEPT !.runs = @ + 1, !.stage = FirstStage[t.kind], !.users = {},
                           !.todo = FirstWork(t.kind)]
          /\ runs = t.runs + 1 /\ stage = FirstStage[t.kind] /\ todo = FirstWork(t.kind)
  OBVIOUS
<1>3. /\ runs \in Nat
      /\ t.kind = "subscribers" => stage = "shards" /\ todo = Shards
      /\ t.kind = "shard" => stage = "users" /\ todo = <<>>
      /\ t.kind = "user" => stage = "info" /\ todo = <<>>
  BY <1>1, <1>2 DEF FirstStage, FirstWork
<1>4. /\ stage \in {"shards", "users", "sessions", "notify", "info", "send", "delete"}
      /\ todo \in Seq(ToSet(Shards)) \cup Seq(User \X Update) \cup Seq(Key)
  <2>1. Shards \in Seq(ToSet(Shards))
    BY PipelineAssumption
  <2>2. todo = <<>> => todo \in Seq(Key)
    OBVIOUS
  <2>3. CASE t.kind = "subscribers"
    BY <1>3, <2>1, <2>3
  <2>4. CASE t.kind \in {"shard", "user"}
    BY <1>3, <2>2, <2>4
  <2> QED BY <1>1, <2>3, <2>4
<1>5. /\ b \in Task /\ b.kind = t.kind /\ b.shard = t.shard /\ b.user = t.user /\ b.note = t.note
      /\ b.stage = stage /\ b.users = {} /\ b.todo = todo
  <2>1. b = [t EXCEPT !.runs = runs, !.stage = stage, !.users = {}, !.todo = todo]
    BY <1>1, <1>2
  <2> QED BY <1>1, <1>3, <1>4, <2>1 DEF Task
<1>6. Shaped(b)
  BY <1>1, <1>3, <1>5, Beginning DEF Shaped
<1>7. Fits(b)
  BY <1>1, <1>3, <1>5, <1>6 DEF Fits, Told
<1>8. \A x \in Delivery : Leads(t, x) => Leads(b, x)
  <2>1. \A x \in Delivery : ShardOf[x[1]] \in Range(Shards)
    BY PipelineAssumption DEF Delivery, ToSet, Range
  <2> QED BY <1>1, <1>3, <1>5, <2>1 DEF Leads
<1>9. used'["crashes"] = used["crashes"] + 1
  BY <1>1 DEF Use, IInv, TypeOK
<1>10. \A x \in Delivery : Accounted(t, {b}, x)
  BY <1>1, <1>8, <1>9 DEF Accounted
<1>11. tasks' = (tasks \ {t}) \cup {b} /\ IsFiniteSet({b})
  BY <1>2, FS_Singleton DEF Crash, RunAgain
<1> QED BY <1>1, <1>7, <1>10, <1>11, QueueStep

-----------------------------------------------------------------------------
(* The theorems.                                                           *)

LEMMA Inductive == IInv /\ [Next]_vars => IInv'
<1> SUFFICES ASSUME IInv, [Next]_vars PROVE IInv'
  OBVIOUS
<1>1. CASE UNCHANGED vars
  <2>1. UNCHANGED <<changes, enabled, subs, booked, tasks, sent, used, lost, changed>>
    BY <1>1 DEF vars, data
  <2>2. TypeOK' /\ OnlyConcerned'
    BY <2>1 DEF IInv, TypeOK, OnlyConcerned
  <2>3. CopiesInv' /\ CoverInv'
    BY <2>1 DEF IInv, CopiesInv, CoverInv, Concerned
  <2>4. TaskInv'
    BY <2>1 DEF IInv, TaskInv, Told, Wanted, Sending
  <2> QED BY <2>2, <2>3, <2>4 DEF IInv
<1>2. ASSUME NEW t \in tasks, Handle(t) PROVE IInv'
  <2>1. CASE NotifyShard(t)
    BY <2>1, NotifyShardStep
  <2>2. CASE NoSessions(t)
    BY <2>2, NoSessionsStep
  <2>3. CASE ListUsersWithPush(t)
    BY <2>3, ListUsersWithPushStep
  <2>4. CASE ListAllUserSessions(t)
    BY <2>4, ListAllUserSessionsStep
  <2>5. CASE NotifyUser(t)
    BY <2>5, NotifyUserStep
  <2>6. CASE GetUserPushInfo(t)
    BY <2>6, GetUserPushInfoStep
  <2>7. CASE NotifySubscription(t)
    BY <2>7, NotifySubscriptionStep
  <2>8. CASE DeleteSubscription(t)
    BY <2>8, DeleteSubscriptionStep
  <2>9. CASE Return(t)
    BY <2>9, ReturnStep
  <2> QED BY <1>2, <2>1, <2>2, <2>3, <2>4, <2>5, <2>6, <2>7, <2>8, <2>9 DEF Handle
<1>3. ASSUME NEW t \in tasks, GiveUp(t) \/ Crash(t) PROVE IInv'
  BY <1>3, GiveUpStep, CrashStep
<1>4. ASSUME NEW u \in User, ChangeData(u) PROVE IInv'
  BY <1>4, ChangeDataStep
<1> QED BY <1>1, <1>2, <1>3, <1>4 DEF Next

LEMMA Invariance == Spec => []IInv
<1>1. Init => IInv
  BY InitInv
<1>2. IInv /\ [Next]_vars => IInv'
  BY Inductive
<1> QED BY <1>1, <1>2, PTL DEF Spec

\* The tasks of the queue, the data in Firebase and the bookkeeping stay what
\* Task and TypeOK say, over any sequence of failures and repetitions.
THEOREM TypeCorrect == Spec => []TypeOK
<1>1. IInv => TypeOK
  BY DEF IInv
<1> QED BY <1>1, Invariance, PTL

\* A task that runs again (handleNotifyShard answers 500, or its instance is
\* lost) adds at most one copy of a notification, and only when an instance was
\* lost: there are never more copies of it than one for each lost instance and
\* one more.
THEOREM CopiesAreBounded == Spec => []BoundedCopies
<1>1. IInv => BoundedCopies
  <2> SUFFICES ASSUME IInv, NEW x \in Delivery PROVE sent[x] <= 1 + used["crashes"]
    BY DEF BoundedCopies
  <2>1. /\ IsFiniteSet(tasks) /\ Leading(tasks, x) \subseteq tasks
        /\ sent[x] + Cardinality(Leading(tasks, x)) <= 1 + used["crashes"]
    BY DEF IInv, CopiesInv, Leading
  <2>2. Cardinality(Leading(tasks, x)) \in Nat
    BY <2>1, FS_Subset, FS_CardinalityType
  <2>3. sent[x] \in Nat /\ used["crashes"] \in Nat
    BY DEF IInv, TypeOK
  <2> QED BY <2>1, <2>2, <2>3
<1> QED BY <1>1, Invariance, PTL

\* Users are told only of what concerns them: filterUserChanges and
\* userNotifications, read at two different times by two kinds of task, never
\* let anything else through.
THEOREM OnlyTheConcerned == Spec => []OnlyConcerned
<1>1. IInv => OnlyConcerned
  BY DEF IInv
<1> QED BY <1>1, Invariance, PTL

\* When the queue is empty nobody was forgotten, for any number of shards,
\* users, failures and lost instances: what a user wants to know was sent, was
\* lost in a call that the code does not retry, or its task was given up.
THEOREM NobodyIsForgotten == Spec => []NobodyForgotten
<1>1. IInv => NobodyForgotten
  <2> SUFFICES ASSUME IInv, tasks = {}, NEW x \in Delivery, Concerned(x), x[1] \notin changed
               PROVE  sent[x] > 0 \/ x \in lost
    BY DEF NobodyForgotten
  <2>1. Leading(tasks, x) = {}
    BY DEF Leading
  <2> QED BY <2>1 DEF IInv, CoverInv
<1> QED BY <1>1, Invariance, PTL

=============================================================================
