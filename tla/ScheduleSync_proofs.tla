------------------------ MODULE ScheduleSync_proofs ------------------------
(***************************************************************************)
(* Proofs about ScheduleSync for any number of requests, memcache keys,    *)
(* sessions and faults.                                                    *)
(***************************************************************************)
EXTENDS ScheduleSync, TLAPS

-----------------------------------------------------------------------------
(* The inductive invariant.                                                *)

LockInv ==
    ~lockLost =>
        /\ \A p, q \in Syncer : Holding(p) /\ Holding(q) => p = q
        /\ (\E p \in Syncer : Holding(p)) => lock # 0

\* The keys that requests hold are those of committed entities.
KeyInv ==
    /\ TypeOK
    /\ ServedIsCommitted

\* A sync about to store has fetched something newer than its old version.
FetchedInv ==
    \A p \in Syncer : pc[p] \in {"store", "commit"} =>
        /\ new[p] \in Entity
        /\ new[p].ts <= MaxVersion
        /\ new[p].ts > Modified(log, old[p])
        /\ ~IsEmpty(new[p].data)

\* Without a lost lock or an outdated cache, everything that can serve as the
\* old version of a sync is the last one.
FreshInv ==
    ~lockLost /\ ~tainted =>
        /\ \A k \in Shard : cache[k] \in {0, Len(log)}
        /\ \A p \in Syncer :
             pc[p] \in {"fill", "fetch", "store", "commit"} => old[p] = Len(log)
        /\ \A p \in Syncer, k \in Shard : pc[p] = "commit" => cache[k] = 0

ChangeInv == \A n \in 1..Len(changes) : changes[n].ver \in 1..Len(log)

IInv ==
    /\ KeyInv
    /\ src.ts <= MaxVersion
    /\ LockInv
    /\ FetchedInv
    /\ FreshInv
    /\ ChangeInv
    /\ StoredOnce
    /\ FeedFaithful

-----------------------------------------------------------------------------
(* Facts about the values.                                                 *)

LEMMA NewestType == \A i \in Newest(log) : log \in Seq(Entity) => i \in 0..Len(log)
  BY DEF Newest

LEMMA ChangeType ==
    ASSUME NEW id \in Nat, NEW a \in Content, NEW b \in Content
    PROVE  Change(id, a, b) \in ChangeRecord
<1>1. \A s \in Changed(a, b) : b[s] \in Value
  BY DEF Changed, Content
<1>2. Changed(a, b) \in SUBSET Session
  BY DEF Changed
<1>3. [s \in Changed(a, b) |-> b[s]] \in [Changed(a, b) -> Value]
  BY <1>1
<1>4. QED
  BY <1>2, <1>3 DEF Change, ChangeRecord

LEMMA DataType ==
    ASSUME log \in Seq(Entity), NEW id \in 0..Len(log)
    PROVE  DataOf(log, id) \in Content /\ Modified(log, id) \in Nat
<1>1. CASE id = 0
  BY <1>1 DEF DataOf, Modified, Content
<1>2. CASE id # 0
  <2>1. log[id] \in Entity
    BY <1>2
  <2>2. QED
    BY <1>2, <2>1 DEF DataOf, Modified, Entity
<1>3. QED
  BY <1>1, <1>2

-----------------------------------------------------------------------------
(* Type correctness.                                                       *)

LEMMA TypeInit == Init => KeyInv
<1> SUFFICES ASSUME Init PROVE KeyInv
  OBVIOUS
<1>1. src \in Entity
  BY DEF Init, Entity
<1>2. log \in Seq(Entity) /\ changes \in Seq(ChangeRecord) /\ tasks \in Seq(ChangeRecord)
  BY DEF Init
<1>3. cache \in [Shard -> 0..Len(log)] /\ old \in [Request -> 0..Len(log)]
  BY DEF Init
<1>4. seen \in [Syncer -> Nat \cup {NotRead}] /\ used \in [{"reads", "faults", "crashes"} -> Nat]
  BY DEF Init
<1>5. lock \in 0..2 /\ attempt \in [Syncer -> Nat] /\ floor \in [Reader -> Nat]
  BY DEF Init
<1>6. new \in [Syncer -> Entity \cup {NoData}]
  BY DEF Init
<1>7. pc \in [Request -> InTransaction \cup {"idle", "unlock", "reply"}]
  BY DEF Init, InTransaction
<1>8. QED
  <2>1. TypeOK
    BY <1>1, <1>2, <1>3, <1>4, <1>5, <1>6, <1>7 DEF Init, TypeOK
  <2>2. QED
    BY <2>1, <1>3 DEF Init, KeyInv, ServedIsCommitted

LEMMA TypeStep == KeyInv /\ FetchedInv /\ [Next]_vars => KeyInv'
<1> SUFFICES ASSUME KeyInv, FetchedInv, [Next]_vars PROVE KeyInv'
  OBVIOUS
<1> USE RequestAssumption DEF KeyInv, TypeOK, ServedIsCommitted, Request, InTransaction
<1>1. CASE Publish
  BY <1>1 DEF Publish, Entity
<1>2. ASSUME NEW k \in Shard, Expire(k) PROVE KeyInv'
  BY <1>2 DEF Expire
<1>3. CASE EvictLock
  BY <1>3 DEF EvictLock, Fault
<1>4. ASSUME NEW p \in Request, ReadCache(p) PROVE KeyInv'
  <2>1. \/ pc' = [pc EXCEPT ![p] = AfterLatest(p)]
        \/ pc' = [pc EXCEPT ![p] = "query"]
    BY <1>4, Zenon DEF ReadCache, Goto
  <2>2. old' = old \/ old' = [old EXCEPT ![p] = cache[ShardOf[p]]]
    BY <1>4, Zenon DEF ReadCache
  <2>3. UNCHANGED <<src, log, changes, tasks, cache, lock, new, seen, attempt,
                    used, lockLost, tainted, floor>>
    BY <1>4, Zenon DEF ReadCache
  <2>4. QED
    BY <2>1, <2>2, <2>3 DEF AfterLatest
<1>5. ASSUME NEW p \in Request, QueryLatest(p) PROVE KeyInv'
  <2>1. PICK i \in Newest(log) :
          /\ old' = [old EXCEPT ![p] = i]
          /\ Goto(p, IF i = 0 THEN AfterLatest(p) ELSE "fill")
    BY <1>5 DEF QueryLatest
  <2>2. i \in 0..Len(log)
    BY NewestType
  <2>3. pc' \in [Request -> InTransaction \cup {"idle", "unlock", "reply"}]
    BY <2>1 DEF Goto, AfterLatest
  <2>4. seen' \in [Syncer -> Nat \cup {NotRead}]
    BY <1>5 DEF QueryLatest
  <2>5. UNCHANGED <<src, log, changes, tasks, cache, lock, new, attempt, used,
                    lockLost, tainted, floor>>
    BY <1>5 DEF QueryLatest
  <2>6. QED
    BY <2>1, <2>2, <2>3, <2>4, <2>5
<1>6. ASSUME NEW p \in Request, FillCache(p) PROVE KeyInv'
  BY <1>6 DEF FillCache, Goto, AfterLatest
<1>7. ASSUME NEW r \in Reader, StartRead(r) PROVE KeyInv'
  BY <1>7 DEF StartRead, Goto
<1>8. ASSUME NEW r \in Reader, Reply(r) PROVE KeyInv'
  BY <1>8 DEF Reply, Finish, Goto, Restart
<1>9. ASSUME NEW p \in Syncer, StartSync(p) PROVE KeyInv'
  <2>1. pc' = pc \/ pc' = [pc EXCEPT ![p] = "cache"]
    BY <1>9, Zenon DEF StartSync, Goto
  <2>2. attempt' = attempt \/ attempt' = [attempt EXCEPT ![p] = 1]
    BY <1>9, Zenon DEF StartSync
  <2>3. lock' \in {1, 2}
    BY <1>9 DEF StartSync
  <2>4. UNCHANGED <<src, log, changes, tasks, cache, old, new, seen, used,
                    lockLost, tainted, floor>>
    BY <1>9, Zenon DEF StartSync
  <2>5. pc' \in [Request -> InTransaction \cup {"idle", "unlock", "reply"}]
    BY <2>1
  <2>6. attempt' \in [Syncer -> Nat]
    BY <2>2
  <2>7. QED
    BY <2>3, <2>4, <2>5, <2>6
<1>10. ASSUME NEW p \in Syncer, Fetch(p) PROVE KeyInv'
  <2>1. \/ pc' = [pc EXCEPT ![p] = "store"]
        \/ pc' = [pc EXCEPT ![p] = "unlock"]
    BY <1>10, Zenon DEF Fetch, Goto
  <2>2. new' = [new EXCEPT ![p] = src] \/ new' = [new EXCEPT ![p] = NoData]
    BY <1>10, Zenon DEF Fetch, Restart
  <2>3. old' = old \/ old' = [old EXCEPT ![p] = 0]
    BY <1>10, Zenon DEF Fetch, Restart
  <2>4. seen' = seen \/ seen' = [seen EXCEPT ![p] = NotRead]
    BY <1>10, Zenon DEF Fetch, Restart
  <2>5. UNCHANGED <<src, log, changes, tasks, cache, lock, attempt, used,
                    lockLost, tainted, floor>>
    BY <1>10, Zenon DEF Fetch
  <2>6. pc' \in [Request -> InTransaction \cup {"idle", "unlock", "reply"}]
    BY <2>1
  <2>7. /\ old' \in [Request -> Nat]
        /\ \A q \in Request : old'[q] \in 0..Len(log)
    <3>1. CASE old' = old
      BY <3>1
    <3>2. CASE old' = [old EXCEPT ![p] = 0]
      BY <3>2
    <3>3. QED
      BY <2>3, <3>1, <3>2, Zenon
  <2>8. new' \in [Syncer -> Entity \cup {NoData}]
    BY <2>2
  <2>9. seen' \in [Syncer -> Nat \cup {NotRead}]
    BY <2>4
  <2>10. QED
    BY <2>5, <2>6, <2>7, <2>8, <2>9
<1>11. ASSUME NEW p \in Syncer, StoreEventData(p) PROVE KeyInv'
  <2>1. pc' = [pc EXCEPT ![p] = "commit"]
    BY <1>11 DEF StoreEventData, Goto
  <2>2. cache' = cache \/ cache' = [k \in Shard |-> 0]
    BY <1>11, Zenon DEF StoreEventData
  <2>3. used' \in [{"reads", "faults", "crashes"} -> Nat]
    BY <1>11 DEF StoreEventData, Fault
  <2>4. tainted' \in BOOLEAN
    BY <1>11 DEF StoreEventData
  <2>5. UNCHANGED <<src, log, changes, tasks, lock, old, new, seen, attempt,
                    lockLost, floor>>
    BY <1>11, Zenon DEF StoreEventData
  <2>6. cache' \in [Shard -> Nat] /\ \A k \in Shard : cache'[k] \in 0..Len(log)
    BY <2>2
  <2>7. pc' \in [Request -> InTransaction \cup {"idle", "unlock", "reply"}]
    BY <2>1
  <2>8. QED
    BY <2>3, <2>4, <2>5, <2>6, <2>7
<1>12. ASSUME NEW p \in Syncer, Commit(p) PROVE KeyInv'
  <2> DEFINE c == Change(Len(log) + 1, DataOf(log, old[p]), new[p].data)
  <2>1. new[p] \in Entity /\ new[p].data \in Content
    BY <1>12 DEF Commit, FetchedInv, Entity
  <2>2. c \in ChangeRecord
    BY <2>1, ChangeType, DataType
  <2>3. log' \in Seq(Entity) /\ Len(log') = Len(log) + 1
    BY <1>12, <2>1 DEF Commit
  <2>4. changes' \in Seq(ChangeRecord) /\ tasks' \in Seq(ChangeRecord)
    <3>1. CASE DOMAIN c.sessions = {}
      BY <1>12, <3>1 DEF Commit
    <3>2. CASE DOMAIN c.sessions # {}
      <4>1. changes' = Append(changes, c) /\ tasks' = Append(tasks, c)
        BY <1>12, <3>2 DEF Commit
      <4>2. QED
        <5> HIDE DEF c
        <5>1. QED
          BY <2>2, <4>1
    <3>3. QED
      BY <3>1, <3>2, Zenon
  <2>5. cache' \in [Shard -> 0..Len(log')] /\ old' \in [Request -> 0..Len(log')]
    BY <1>12, <2>3 DEF Commit, Restart
  <2>6. QED
    BY <1>12, <2>3, <2>4, <2>5 DEF Commit, Goto, Restart
<1>13. ASSUME NEW p \in Syncer, Conflict(p) PROVE KeyInv'
  <2>1. used' \in [{"reads", "faults", "crashes"} -> Nat]
    BY <1>13 DEF Conflict, Fault
  <2>2. attempt' \in [Syncer -> Nat]
    BY <1>13 DEF Conflict
  <2>3. pc' \in [Request -> InTransaction \cup {"idle", "unlock", "reply"}]
    BY <1>13 DEF Conflict, Goto
  <2>4. /\ old' \in [Request -> 0..Len(log)]
        /\ new' \in [Syncer -> Entity \cup {NoData}]
        /\ seen' \in [Syncer -> Nat \cup {NotRead}]
    BY <1>13 DEF Conflict, Restart
  <2>5. UNCHANGED <<src, log, changes, tasks, cache, lock, lockLost, tainted, floor>>
    BY <1>13 DEF Conflict
  <2>6. old' \in [Request -> Nat] /\ (\A q \in Request : old[q] \in 0..Len(log))'
    BY <2>4, <2>5
  <2>7. TypeOK'
    BY <2>1, <2>2, <2>3, <2>4, <2>5, <2>6
  <2>8. ServedIsCommitted'
    BY <2>5, <2>6
  <2>9. QED
    BY <2>7, <2>8
<1>14. ASSUME NEW p \in Syncer, Abort(p) PROVE KeyInv'
  BY <1>14 DEF Abort, Goto, Fault, Restart
<1>15. ASSUME NEW p \in Syncer, Unlock(p) PROVE KeyInv'
  BY <1>15 DEF Unlock, CrashFault, Finish, Goto, Restart
<1>16. ASSUME NEW p \in Request, Crash(p) PROVE KeyInv'
  BY <1>16 DEF Crash, CrashFault, Finish, Goto, Restart
<1>17. CASE UNCHANGED vars
  BY <1>17 DEF vars
<1>18. QED
  BY <1>1, <1>2, <1>3, <1>4, <1>5, <1>6, <1>7, <1>8, <1>9, <1>10, <1>11,
     <1>12, <1>13, <1>14, <1>15, <1>16, <1>17
  DEF Next, GetLatest, Sync

-----------------------------------------------------------------------------
(* What a sync is about to store is newer than its old version.            *)

BaseInv == KeyInv /\ src.ts <= MaxVersion /\ FetchedInv

LEMMA BaseInit == Init => BaseInv
<1> SUFFICES ASSUME Init PROVE BaseInv
  OBVIOUS
<1>1. KeyInv
  BY TypeInit
<1>2. src.ts <= MaxVersion
  BY RequestAssumption DEF Init
<1>3. FetchedInv
  BY DEF Init, FetchedInv, Request
<1>4. QED
  BY <1>1, <1>2, <1>3 DEF BaseInv

\* The versions that requests hold keep their dates when the log grows.
LEMMA DateKept ==
    ASSUME KeyInv, NEW e \in Entity, log' = Append(log, e), NEW i \in 0..Len(log)
    PROVE  Modified(log', i) = Modified(log, i)
  BY DEF KeyInv, TypeOK, Modified

\* The syncs that are about to store are left alone.
FetchedKept ==
    \A q \in Syncer : pc'[q] \in {"store", "commit"} =>
        /\ pc[q] \in {"store", "commit"}
        /\ new'[q] = new[q]
        /\ old'[q] = old[q]
        /\ Modified(log', old[q]) = Modified(log, old[q])

LEMMA FetchedFrame == FetchedInv /\ FetchedKept => FetchedInv'
  BY DEF FetchedInv, FetchedKept

LEMMA FetchedStep == BaseInv /\ [Next]_vars => FetchedInv'
<1> SUFFICES ASSUME BaseInv, [Next]_vars PROVE FetchedInv'
  OBVIOUS
<1> USE RequestAssumption DEF Request
<1>0. KeyInv /\ FetchedInv /\ TypeOK
  BY DEF BaseInv, KeyInv
<1>1. CASE UNCHANGED <<log, pc, old, new>>
  BY <1>0, <1>1 DEF FetchedInv
<1>2. ASSUME NEW p \in Request, GetLatest(p) PROVE FetchedKept
  <2>1. pc[p] \in {"cache", "query", "fill"}
    BY <1>2 DEF GetLatest, ReadCache, QueryLatest, FillCache
  <2>2. UNCHANGED <<log, new>>
    BY <1>2 DEF GetLatest, ReadCache, QueryLatest, FillCache
  <2>3. \A q \in Syncer \ {p} : pc'[q] = pc[q] /\ old'[q] = old[q]
    BY <1>0, <1>2 DEF GetLatest, ReadCache, QueryLatest, FillCache, Goto, TypeOK
  <2>4. pc'[p] \in {"query", "fill", "fetch", "reply"}
    BY <1>0, <1>2 DEF GetLatest, ReadCache, QueryLatest, FillCache, Goto,
                      AfterLatest, TypeOK
  <2>5. QED
    BY <2>1, <2>2, <2>3, <2>4 DEF FetchedKept
<1>3. ASSUME NEW p \in Request, Crash(p) \/ (p \in Syncer /\ Unlock(p)) \/ Reply(p)
      PROVE  FetchedKept
  <2>1. Finish(p) /\ UNCHANGED log
    BY <1>3 DEF Crash, Unlock, Reply
  <2>2. QED
    BY <1>0, <2>1 DEF Finish, Restart, Goto, FetchedKept, TypeOK
<1>4. ASSUME NEW r \in Reader, StartRead(r) PROVE FetchedKept
  BY <1>0, <1>4 DEF StartRead, Goto, FetchedKept, TypeOK
<1>5. ASSUME NEW p \in Syncer, StartSync(p) PROVE FetchedKept
  <2>1. pc' = pc \/ pc' = [pc EXCEPT ![p] = "cache"]
    BY <1>5, Zenon DEF StartSync, Goto
  <2>2. UNCHANGED <<log, old, new>>
    BY <1>5, Zenon DEF StartSync
  <2>3. QED
    BY <1>0, <2>1, <2>2 DEF FetchedKept, TypeOK
<1>6. ASSUME NEW p \in Syncer, Fetch(p) PROVE FetchedInv'
  <2>1. UNCHANGED <<src, log>>
    BY <1>6, Zenon DEF Fetch
  <2>2. CASE pc' = [pc EXCEPT ![p] = "store"]
    <3>1. pc'[p] # "unlock"
      BY <1>0, <2>2 DEF TypeOK
    <3>2. /\ src.ts > Modified(log, old[p])
          /\ ~IsEmpty(src.data)
          /\ new' = [new EXCEPT ![p] = src]
          /\ old' = old
      BY <1>0, <1>6, <3>1 DEF Fetch, Goto, TypeOK
    <3>3. QED
      BY <1>0, <2>1, <2>2, <3>2 DEF BaseInv, FetchedInv, TypeOK
  <2>3. CASE pc' = [pc EXCEPT ![p] = "unlock"]
    <3>1. pc'[p] # "store"
      BY <1>0, <2>3 DEF TypeOK
    <3>2. Restart(p)
      BY <1>0, <1>6, <3>1 DEF Fetch, Goto, TypeOK
    <3>3. FetchedKept
      BY <1>0, <2>1, <2>3, <3>2 DEF Restart, FetchedKept, TypeOK
    <3>4. QED
      BY <1>0, <3>3, FetchedFrame
  <2>4. QED
    BY <1>6, <2>2, <2>3 DEF Fetch, Goto
<1>7. ASSUME NEW p \in Syncer, StoreEventData(p) PROVE FetchedKept
  BY <1>0, <1>7 DEF StoreEventData, Goto, FetchedKept, TypeOK
<1>8. ASSUME NEW p \in Syncer, Commit(p) PROVE FetchedKept
  <2>1. /\ new[p] \in Entity
        /\ log' = Append(log, new[p])
        /\ Goto(p, "unlock")
        /\ Restart(p)
    BY <1>0, <1>8 DEF Commit, FetchedInv
  <2>2. \A q \in Syncer : Modified(log', old[q]) = Modified(log, old[q])
    BY <1>0, <2>1, DateKept DEF KeyInv, ServedIsCommitted
  <2>3. QED
    BY <1>0, <2>1, <2>2 DEF Goto, Restart, FetchedKept, TypeOK
<1>9. ASSUME NEW p \in Syncer, Conflict(p) \/ Abort(p) PROVE FetchedKept
  <2>1. pc'[p] \in {"cache", "unlock"} /\ \A q \in Syncer \ {p} : pc'[q] = pc[q]
    BY <1>0, <1>9 DEF Conflict, Abort, Goto, TypeOK
  <2>2. Restart(p) /\ UNCHANGED log
    BY <1>9 DEF Conflict, Abort
  <2>3. QED
    BY <1>0, <2>1, <2>2 DEF Restart, FetchedKept, TypeOK
<1>10. CASE Publish \/ (\E k \in Shard : Expire(k)) \/ EvictLock \/ UNCHANGED vars
  BY <1>1, <1>10 DEF Publish, Expire, EvictLock, vars
<1>11. QED
  BY <1>0, <1>2, <1>3, <1>4, <1>5, <1>6, <1>7, <1>8, <1>9, <1>10, FetchedFrame
  DEF Next, Sync

LEMMA BaseStep == BaseInv /\ [Next]_vars => BaseInv'
<1> SUFFICES ASSUME BaseInv, [Next]_vars PROVE BaseInv'
  OBVIOUS
<1>1. KeyInv'
  BY TypeStep DEF BaseInv
<1>2. FetchedInv'
  BY FetchedStep
<1>3. (src.ts <= MaxVersion)'
  <2>1. src' = src \/ (src.ts < MaxVersion /\ src'.ts = src.ts + 1)
    BY DEF Next, Publish, Expire, EvictLock, GetLatest, ReadCache, QueryLatest,
           FillCache, Crash, StartRead, Reply, StartSync, Sync, Fetch,
           StoreEventData, Commit, Conflict, Abort, Unlock, vars
  <2>2. QED
    BY <2>1, RequestAssumption DEF BaseInv, KeyInv, TypeOK, Entity
<1>4. QED
  BY <1>1, <1>2, <1>3 DEF BaseInv

\* Every variable keeps its type in every reachable state of the spec.
THEOREM TypeCorrect == Spec => []TypeOK
<1>1. BaseInv => TypeOK
  BY DEF BaseInv, KeyInv
<1>2. QED
  BY BaseInit, BaseStep, <1>1, PTL DEF Spec

\* No request is ever served, takes as its old version, or leaves in
\* memcache, event data that no transaction committed.
THEOREM CommittedOnly == Spec => []ServedIsCommitted
<1>1. BaseInv => ServedIsCommitted
  BY DEF BaseInv, KeyInv
<1>2. QED
  BY BaseInit, BaseStep, <1>1, PTL DEF Spec

-----------------------------------------------------------------------------
(* Mutual exclusion.                                                       *)

\* No request begins to hold the lock, and the lock stays.
HoldersKept ==
    /\ \A q \in Syncer : Holding(q)' => Holding(q)
    /\ lock # 0 => lock' # 0
    /\ lockLost => lockLost'

LEMMA LockFrame == LockInv /\ HoldersKept => LockInv'
  BY DEF LockInv, HoldersKept

LEMMA LockStep == TypeOK /\ LockInv /\ [Next]_vars => LockInv'
<1> SUFFICES ASSUME TypeOK, LockInv, [Next]_vars PROVE LockInv'
  OBVIOUS
<1> USE RequestAssumption DEF Request
<1>1. CASE Publish \/ (\E k \in Shard : Expire(k)) \/ UNCHANGED vars
  <2>1. UNCHANGED <<lock, pc, lockLost>>
    BY <1>1 DEF Publish, Expire, vars
  <2>2. QED
    BY <2>1 DEF LockInv, Holding
<1>2. CASE EvictLock
  <2>1. pc' = pc /\ lockLost' = (lockLost \/ \E q \in Syncer : Holding(q))
    BY <1>2 DEF EvictLock
  <2>2. QED
    BY <2>1 DEF LockInv, Holding
<1>3. ASSUME NEW p \in Request, GetLatest(p) PROVE HoldersKept
  <2>1. pc[p] \in {"cache", "query", "fill"}
    BY <1>3 DEF GetLatest, ReadCache, QueryLatest, FillCache
  <2>2. UNCHANGED <<lock, lockLost>>
    BY <1>3 DEF GetLatest, ReadCache, QueryLatest, FillCache
  <2>3. \A q \in Syncer \ {p} : pc'[q] = pc[q]
    BY <1>3 DEF GetLatest, ReadCache, QueryLatest, FillCache, Goto, TypeOK
  <2>4. QED
    BY <2>1, <2>2, <2>3 DEF HoldersKept, Holding, InTransaction
<1>4. ASSUME NEW p \in Request, Crash(p) PROVE HoldersKept
  BY <1>4 DEF Crash, Finish, Goto, HoldersKept, Holding, InTransaction, TypeOK
<1>5. ASSUME NEW r \in Reader, StartRead(r) \/ Reply(r) PROVE HoldersKept
  BY <1>5 DEF StartRead, Reply, Finish, Goto, HoldersKept, Holding, TypeOK
<1>6. ASSUME NEW p \in Syncer, StartSync(p) PROVE LockInv'
  <2>1. CASE lock = 0
    <3>1. pc' = [pc EXCEPT ![p] = "cache"] /\ lock' = 1
      BY <1>6, <2>1 DEF StartSync, Goto
    <3>2. lockLost' = lockLost
      BY <1>6, Zenon DEF StartSync
    <3>3. ~lockLost => \A q \in Syncer : ~Holding(q)
      BY <2>1 DEF LockInv
    <3>4. \A q \in Syncer \ {p} : pc'[q] = pc[q]
      BY <3>1 DEF TypeOK
    <3>5. ~lockLost => \A q \in Syncer \ {p} : ~Holding(q)'
      BY <3>3, <3>4 DEF Holding
    <3>6. QED
      BY <3>1, <3>2, <3>5 DEF LockInv
  <2>2. CASE lock # 0
    <3>1. UNCHANGED <<pc, lockLost>> /\ lock' = 2
      BY <1>6, <2>2, Zenon DEF StartSync
    <3>2. QED
      BY <3>1 DEF LockInv, Holding
  <2>3. QED
    BY <2>1, <2>2
<1>7. ASSUME NEW p \in Syncer,
             Fetch(p) \/ StoreEventData(p) \/ Commit(p) \/ Conflict(p) \/ Abort(p)
      PROVE  HoldersKept
  <2>1. Holding(p)
    BY <1>7 DEF Fetch, StoreEventData, Commit, Conflict, Abort, Holding, InTransaction
  <2>2. UNCHANGED <<lock, lockLost>>
    BY <1>7 DEF Fetch, StoreEventData, Commit, Conflict, Abort
  <2>3. \A q \in Syncer \ {p} : pc'[q] = pc[q]
    BY <1>7 DEF Fetch, StoreEventData, Commit, Conflict, Abort, Goto, TypeOK
  <2>4. QED
    BY <2>1, <2>2, <2>3 DEF HoldersKept, Holding
<1>8. ASSUME NEW p \in Syncer, Unlock(p) PROVE LockInv'
  <2>1. Holding(p)
    BY <1>8 DEF Unlock, Holding
  <2>2. pc' = [pc EXCEPT ![p] = "idle"] /\ lockLost' = lockLost
    BY <1>8 DEF Unlock, Finish, Goto
  <2>3. \A q \in Syncer \ {p} : pc'[q] = pc[q]
    BY <2>2 DEF TypeOK
  <2>4. ~Holding(p)'
    BY <2>2 DEF Holding, InTransaction, TypeOK
  <2>5. ~lockLost => \A q \in Syncer : ~Holding(q)'
    BY <2>1, <2>3, <2>4 DEF LockInv, Holding
  <2>6. QED
    BY <2>2, <2>5 DEF LockInv
<1>9. QED
  BY <1>1, <1>2, <1>3, <1>4, <1>5, <1>6, <1>7, <1>8, LockFrame DEF Next, Sync

\* One sync at a time, for any number of requests, retries and crashes, as
\* long as memcache keeps the counter: the only way to lose it is an eviction.
THEOREM OneSyncAtATime == Spec => []MutualExclusion
<1> DEFINE Inv == BaseInv /\ LockInv
<1>1. Init => Inv
  <2>1. Init => LockInv
    BY DEF Init, LockInv, Holding, InTransaction, Request
  <2>2. QED
    BY <2>1, BaseInit
<1>2. Inv /\ [Next]_vars => Inv'
  BY BaseStep, LockStep DEF BaseInv, KeyInv
<1>3. Inv => MutualExclusion
  BY DEF LockInv, MutualExclusion
<1>4. QED
  BY <1>1, <1>2, <1>3, PTL DEF Spec

-----------------------------------------------------------------------------
(* Versions are stored once, in order, with their changes.                 *)

Clean == ~lockLost /\ ~tainted

\* With the dates in order, the query returns the last entity.
LEMMA NewestIsLast ==
    ASSUME log \in Seq(Entity), NEW i \in Newest(log),
           \A j, k \in 1..Len(log) : j < k => log[j].ts < log[k].ts
    PROVE  i = Len(log)
<1>1. CASE log = <<>>
  BY <1>1 DEF Newest
<1>2. CASE log # <<>>
  <2>1. Len(log) \in 1..Len(log) /\ i \in 1..Len(log)
    BY <1>2 DEF Newest
  <2>2. log[Len(log)].ts <= log[i].ts
    BY <1>2, <2>1 DEF Newest
  <2>3. log[Len(log)].ts \in Nat /\ log[i].ts \in Nat
    <3>1. log[Len(log)] \in Entity /\ log[i] \in Entity
      BY <2>1
    <3>2. QED
      BY <3>1 DEF Entity
  <2>4. ~(i < Len(log))
    BY <2>1, <2>2, <2>3
  <2>5. QED
    BY <2>1, <2>4
<1>3. QED
  BY <1>1, <1>2

\* What may serve as an old version stays the last one: the log and the
\* caches are left alone and no sync gets a new old version.
FreshKept ==
    /\ Clean' => Clean
    /\ UNCHANGED <<log, cache>>
    /\ \A q \in Syncer : pc'[q] \in {"fill", "fetch", "store", "commit"} =>
         pc[q] \in {"fill", "fetch", "store", "commit"} /\ old'[q] = old[q]
    /\ \A q \in Syncer : pc'[q] = "commit" => pc[q] = "commit"

LEMMA FreshFrame == FreshInv /\ FreshKept => FreshInv'
  BY DEF FreshInv, FreshKept, Clean

LEMMA FreshStep == BaseInv /\ LockInv /\ FreshInv /\ StoredOnce /\ [Next]_vars => FreshInv'
<1> SUFFICES ASSUME BaseInv, LockInv, FreshInv, StoredOnce, [Next]_vars PROVE FreshInv'
  OBVIOUS
<1> USE RequestAssumption DEF Request
<1>0. TypeOK /\ KeyInv
  BY DEF BaseInv, KeyInv
<1>1. CASE Publish \/ UNCHANGED vars
  BY <1>1 DEF Publish, vars, FreshInv
<1>2. ASSUME NEW k \in Shard, Expire(k) PROVE FreshInv'
  BY <1>0, <1>2 DEF Expire, FreshInv, TypeOK
<1>3. CASE EvictLock
  BY <1>3 DEF EvictLock, FreshInv
<1>4. ASSUME NEW p \in Request, ReadCache(p) PROVE FreshInv'
  <2>1. UNCHANGED <<log, cache, lockLost, tainted>>
    BY <1>4, Zenon DEF ReadCache
  <2>2. CASE cache[ShardOf[p]] = 0
    <3>1. pc' = [pc EXCEPT ![p] = "query"] /\ old' = old
      BY <1>4, <2>2 DEF ReadCache, Goto
    <3>2. FreshKept
      BY <1>0, <2>1, <3>1 DEF FreshKept, Clean, TypeOK
    <3>3. QED
      BY <3>2, FreshFrame
  <2>3. CASE cache[ShardOf[p]] # 0
    <3>1. old' = [old EXCEPT ![p] = cache[ShardOf[p]]]
      BY <1>4, <2>3 DEF ReadCache
    <3>2. pc' = [pc EXCEPT ![p] = AfterLatest(p)]
      BY <1>4, <2>3 DEF ReadCache, Goto
    <3>3. Clean => cache[ShardOf[p]] = Len(log)
      BY <2>3 DEF Clean, FreshInv
    <3>4. \A q \in Syncer : pc'[q] = "commit" => pc[q] = "commit"
      BY <1>0, <3>2 DEF AfterLatest, TypeOK
    <3>5. \A q \in Syncer : pc'[q] \in {"fill", "fetch", "store", "commit"} =>
            q = p \/ pc[q] \in {"fill", "fetch", "store", "commit"}
      BY <1>0, <3>2 DEF TypeOK
    <3>6. QED
      BY <1>0, <2>1, <3>1, <3>3, <3>4, <3>5 DEF FreshInv, Clean, TypeOK
  <2>4. QED
    BY <2>2, <2>3
<1>5. ASSUME NEW p \in Request, QueryLatest(p) PROVE FreshInv'
  <2>1. UNCHANGED <<log, cache, lockLost, tainted>>
    BY <1>5 DEF QueryLatest
  <2>2. PICK i \in Newest(log) :
          /\ old' = [old EXCEPT ![p] = i]
          /\ Goto(p, IF i = 0 THEN AfterLatest(p) ELSE "fill")
    BY <1>5 DEF QueryLatest
  <2>3. Clean => i = Len(log)
    BY <1>0, NewestIsLast DEF Clean, StoredOnce, TypeOK
  <2>4. \A q \in Syncer : pc'[q] = "commit" => pc[q] = "commit"
    BY <1>0, <2>2 DEF AfterLatest, Goto, TypeOK
  <2>5. QED
    BY <1>0, <2>1, <2>2, <2>3, <2>4 DEF FreshInv, Clean, Goto, TypeOK
<1>6. ASSUME NEW p \in Request, FillCache(p) PROVE FreshInv'
  <2>1. /\ UNCHANGED <<log, old, lockLost>>
        /\ cache' = [cache EXCEPT ![ShardOf[p]] = old[p]]
        /\ tainted' = (\/ tainted
                       \/ old[p] # Len(log)
                       \/ \E q \in Syncer : pc[q] = "commit")
        /\ pc[p] = "fill"
        /\ pc' = [pc EXCEPT ![p] = AfterLatest(p)]
    BY <1>6 DEF FillCache, Goto
  <2>2. \A q \in Syncer : pc'[q] = "commit" => pc[q] = "commit"
    BY <1>0, <2>1 DEF AfterLatest, TypeOK
  <2>3. \A q \in Syncer : pc'[q] \in {"fill", "fetch", "store", "commit"} =>
          pc[q] \in {"fill", "fetch", "store", "commit"}
    BY <1>0, <2>1 DEF TypeOK
  <2>4. QED
    BY <1>0, <2>1, <2>2, <2>3 DEF FreshInv, TypeOK
<1>7. ASSUME NEW p \in Request, Crash(p) \/ (p \in Syncer /\ Unlock(p)) \/ Reply(p)
      PROVE  FreshKept
  <2>1. Finish(p) /\ UNCHANGED <<log, cache, lockLost, tainted>>
    BY <1>7 DEF Crash, Unlock, Reply
  <2>2. QED
    BY <1>0, <2>1 DEF Finish, Restart, Goto, FreshKept, Clean, TypeOK
<1>8. ASSUME NEW r \in Reader, StartRead(r) PROVE FreshKept
  BY <1>0, <1>8 DEF StartRead, Goto, FreshKept, Clean, TypeOK
<1>9. ASSUME NEW p \in Syncer, StartSync(p) PROVE FreshKept
  <2>1. pc' = pc \/ pc' = [pc EXCEPT ![p] = "cache"]
    BY <1>9, Zenon DEF StartSync, Goto
  <2>2. UNCHANGED <<log, cache, old, lockLost, tainted>>
    BY <1>9, Zenon DEF StartSync
  <2>3. QED
    BY <1>0, <2>1, <2>2 DEF FreshKept, Clean, TypeOK
<1>10. ASSUME NEW p \in Syncer, Fetch(p) PROVE FreshKept
  <2>1. UNCHANGED <<log, cache, lockLost, tainted>>
    BY <1>10, Zenon DEF Fetch
  <2>2. \/ pc' = [pc EXCEPT ![p] = "store"] /\ old' = old
        \/ pc' = [pc EXCEPT ![p] = "unlock"] /\ old' = [old EXCEPT ![p] = 0]
    BY <1>10, Zenon DEF Fetch, Goto, Restart
  <2>3. pc[p] = "fetch"
    BY <1>10 DEF Fetch
  <2>4. QED
    BY <1>0, <2>1, <2>2, <2>3 DEF FreshKept, Clean, TypeOK
<1>11. ASSUME NEW p \in Syncer, StoreEventData(p) PROVE FreshInv'
  <2>1. /\ pc[p] = "store"
        /\ pc' = [pc EXCEPT ![p] = "commit"]
        /\ UNCHANGED <<log, old, lockLost>>
        /\ tainted' \/ (tainted' = tainted /\ cache' = [k \in Shard |-> 0])
    BY <1>11 DEF StoreEventData, Goto
  <2>2. QED
    BY <1>0, <2>1 DEF FreshInv, TypeOK
<1>12. ASSUME NEW p \in Syncer, Commit(p) PROVE FreshInv'
  <2>1. /\ pc[p] = "commit"
        /\ pc' = [pc EXCEPT ![p] = "unlock"]
        /\ UNCHANGED <<cache, lockLost, tainted>>
    BY <1>12 DEF Commit, Goto
  <2>2. ~lockLost => \A q \in Syncer \ {p} : ~Holding(q)
    BY <2>1 DEF LockInv, Holding, InTransaction
  <2>3. \A q \in Syncer \ {p} : pc'[q] = pc[q]
    BY <1>0, <2>1 DEF TypeOK
  <2>4. pc'[p] = "unlock"
    BY <1>0, <2>1 DEF TypeOK
  <2>5. ~lockLost => \A q \in Syncer : pc'[q] \notin {"fill", "fetch", "store", "commit"}
    BY <2>2, <2>3, <2>4 DEF Holding, InTransaction
  <2>6. ~lockLost /\ ~tainted => \A k \in Shard : cache[k] = 0
    BY <2>1 DEF FreshInv
  <2>7. QED
    BY <2>1, <2>5, <2>6 DEF FreshInv
<1>13. ASSUME NEW p \in Syncer, Conflict(p) \/ Abort(p) PROVE FreshKept
  <2>1. pc'[p] \in {"cache", "unlock"} /\ \A q \in Syncer \ {p} : pc'[q] = pc[q]
    BY <1>0, <1>13 DEF Conflict, Abort, Goto, TypeOK
  <2>2. Restart(p) /\ UNCHANGED <<log, cache, lockLost, tainted>>
    BY <1>13 DEF Conflict, Abort
  <2>3. QED
    BY <1>0, <2>1, <2>2 DEF Restart, FreshKept, Clean, TypeOK
<1>14. QED
  BY <1>1, <1>2, <1>3, <1>4, <1>5, <1>6, <1>7, <1>8, <1>9, <1>10, <1>11,
     <1>12, <1>13, FreshFrame
  DEF Next, GetLatest, Sync

\* What a commit does while the cache and the lock can be relied upon.
LEMMA CleanCommit ==
    ASSUME BaseInv, FreshInv, Clean, NEW p \in Syncer, Commit(p)
    PROVE  /\ old[p] = Len(log)
           /\ new[p] \in Entity
           /\ new[p].ts > Modified(log, Len(log))
           /\ log' = Append(log, new[p])
<1>1. pc[p] = "commit" /\ log' = Append(log, new[p])
  BY DEF Commit
<1>2. QED
  BY <1>1 DEF BaseInv, FetchedInv, FreshInv, Clean

LEMMA OnlyCommitStores ==
    TypeOK /\ [Next]_vars =>
        \/ UNCHANGED <<log, changes, tasks>> /\ (Clean' => Clean)
        \/ \E p \in Syncer : Commit(p)
<1> SUFFICES ASSUME TypeOK, [Next]_vars,
                    ~(\E p \in Syncer : Commit(p))
             PROVE  UNCHANGED <<log, changes, tasks>> /\ (Clean' => Clean)
  OBVIOUS
<1>1. UNCHANGED <<log, changes, tasks>>
  BY Zenon DEF Next, Publish, Expire, EvictLock, GetLatest, ReadCache,
     QueryLatest, FillCache, Crash, StartRead, Reply, StartSync, Sync, Fetch,
     StoreEventData, Conflict, Abort, Unlock, vars
<1>2. Clean' => Clean
  <2>1. (lockLost' = lockLost \/ lockLost' = (lockLost \/ \E q \in Syncer : Holding(q)))
    BY Zenon DEF Next, Publish, Expire, EvictLock, GetLatest, ReadCache,
       QueryLatest, FillCache, Crash, StartRead, Reply, StartSync, Sync, Fetch,
       StoreEventData, Conflict, Abort, Unlock, vars
  <2>2. \/ tainted' = tainted
        \/ tainted'
        \/ \E q \in Request : tainted' = (\/ tainted
                                          \/ old[q] # Len(log)
                                          \/ \E r \in Syncer : pc[r] = "commit")
    BY Zenon DEF Next, Publish, Expire, EvictLock, GetLatest, ReadCache,
       QueryLatest, FillCache, Crash, StartRead, Reply, StartSync, Sync, Fetch,
       StoreEventData, Conflict, Abort, Unlock, vars
  <2>3. QED
    BY <2>1, <2>2 DEF Clean
<1>3. QED
  BY <1>1, <1>2

LEMMA StoredStep == BaseInv /\ FreshInv /\ StoredOnce /\ [Next]_vars => StoredOnce'
<1> SUFFICES ASSUME BaseInv, FreshInv, StoredOnce, [Next]_vars PROVE StoredOnce'
  OBVIOUS
<1>0. TypeOK
  BY DEF BaseInv, KeyInv
<1>1. CASE UNCHANGED <<log, changes, tasks>> /\ (Clean' => Clean)
  BY <1>1 DEF StoredOnce, Clean
<1>2. ASSUME NEW p \in Syncer, Commit(p), Clean'
      PROVE  \A i, j \in 1..Len(log') : i < j => log'[i].ts < log'[j].ts
  <2>1. Clean
    BY <1>2 DEF Commit, Clean
  <2>2. /\ new[p] \in Entity
        /\ new[p].ts > Modified(log, Len(log))
        /\ log' = Append(log, new[p])
    BY <1>2, <2>1, CleanCommit
  <2>3. \A i \in 1..Len(log) : log[i].ts \in Nat
    <3>1. \A i \in 1..Len(log) : log[i] \in Entity
      BY <1>0 DEF TypeOK
    <3>2. QED
      BY <3>1 DEF Entity
  <2>4. \A i \in 1..Len(log) : log[i].ts <= Modified(log, Len(log))
    <3>1. SUFFICES ASSUME NEW i \in 1..Len(log)
                   PROVE  log[i].ts <= log[Len(log)].ts
      BY <1>0 DEF Modified, TypeOK
    <3>2. Len(log) \in 1..Len(log)
      BY <1>0 DEF TypeOK
    <3>3. i < Len(log) => log[i].ts < log[Len(log)].ts
      BY <2>1, <3>2 DEF StoredOnce, Clean
    <3>4. log[i].ts \in Nat /\ log[Len(log)].ts \in Nat
      BY <2>3, <3>2
    <3>5. QED
      BY <3>2, <3>3, <3>4
  <2>5. new[p].ts \in Nat /\ Modified(log, Len(log)) \in Nat
    <3>1. new[p].ts \in Nat
      BY <2>2 DEF Entity
    <3>2. Len(log) # 0 => Len(log) \in 1..Len(log)
      BY <1>0 DEF TypeOK
    <3>3. QED
      BY <2>3, <3>1, <3>2 DEF Modified
  <2>6. \A i \in 1..Len(log) : log[i].ts < new[p].ts
    BY <2>2, <2>3, <2>4, <2>5
  <2>7. QED
    BY <1>0, <2>1, <2>2, <2>6 DEF StoredOnce, Clean, TypeOK
<1>3. QED
  BY <1>0, <1>1, <1>2, OnlyCommitStores DEF StoredOnce, Clean

LEMMA ChangeStep == BaseInv /\ ChangeInv /\ [Next]_vars => ChangeInv'
<1> SUFFICES ASSUME BaseInv, ChangeInv, [Next]_vars PROVE ChangeInv'
  OBVIOUS
<1>0. TypeOK
  BY DEF BaseInv, KeyInv
<1>1. CASE UNCHANGED <<log, changes, tasks>>
  BY <1>1 DEF ChangeInv
<1>2. ASSUME NEW p \in Syncer, Commit(p) PROVE ChangeInv'
  <2> DEFINE c == Change(Len(log) + 1, DataOf(log, old[p]), new[p].data)
  <2>1. Len(log') = Len(log) + 1
    BY <1>0, <1>2 DEF Commit, TypeOK
  <2>2. c.ver = Len(log) + 1
    BY DEF Change
  <2>3. changes' = changes \/ changes' = Append(changes, c)
    BY <1>2, Zenon DEF Commit
  <2>4. QED
    <3> HIDE DEF c
    <3>1. CASE changes' = changes
      BY <1>0, <2>1, <3>1 DEF ChangeInv, TypeOK
    <3>2. CASE changes' = Append(changes, c)
      BY <1>0, <2>1, <2>2, <3>2 DEF ChangeInv, TypeOK
    <3>3. QED
      BY <2>3, <3>1, <3>2
<1>3. QED
  BY <1>0, <1>1, <1>2, OnlyCommitStores

LEMMA FeedStep ==
    BaseInv /\ FreshInv /\ ChangeInv /\ FeedFaithful /\ [Next]_vars => FeedFaithful'
<1> SUFFICES ASSUME BaseInv, FreshInv, ChangeInv, FeedFaithful, [Next]_vars
             PROVE  FeedFaithful'
  OBVIOUS
<1>0. TypeOK
  BY DEF BaseInv, KeyInv
<1>1. CASE UNCHANGED <<log, changes, tasks>> /\ (Clean' => Clean)
  BY <1>1 DEF FeedFaithful, FeedFaithfulAt, Announced, Clean
<1>2. ASSUME NEW p \in Syncer, Commit(p), Clean', NEW i \in 2..Len(log'), NEW s \in Session
      PROVE  s \in Changed(log'[i - 1].data, log'[i].data) <=> Announced(i, s)'
  <2> DEFINE c == Change(Len(log) + 1, DataOf(log, old[p]), new[p].data)
  <2>1. Clean
    BY <1>2 DEF Commit, Clean
  <2>2. /\ old[p] = Len(log)
        /\ log' = Append(log, new[p])
    BY <1>2, <2>1, CleanCommit
  <2>3. \/ DOMAIN c.sessions = {} /\ changes' = changes
        \/ DOMAIN c.sessions # {} /\ changes' = Append(changes, c)
    BY <1>2, Zenon DEF Commit
  <2>4. c.ver = Len(log) + 1
    BY DEF Change
  <2>5. /\ DOMAIN c.sessions = Changed(DataOf(log, old[p]), new[p].data)
        /\ \A t \in DOMAIN c.sessions : c.sessions[t] = new[p].data[t]
    BY DEF Change
  <2>6. CASE i <= Len(log)
    <3>1. log'[i - 1] = log[i - 1] /\ log'[i] = log[i]
      BY <1>0, <2>2, <2>6 DEF TypeOK
    <3>2. s \in Changed(log[i - 1].data, log[i].data) <=> Announced(i, s)
      BY <2>1, <2>6 DEF FeedFaithful, FeedFaithfulAt, Clean
    <3>3. Announced(i, s)' <=> Announced(i, s)
      <4> HIDE DEF c
      <4>1. CASE changes' = changes
        BY <3>1, <4>1 DEF Announced
      <4>2. CASE changes' = Append(changes, c)
        <5>1. /\ Len(changes') = Len(changes) + 1
              /\ changes'[Len(changes) + 1] = c
              /\ \A n \in 1..Len(changes) : changes'[n] = changes[n]
          BY <1>0, <4>2 DEF TypeOK
        <5>2. c.ver # i
          BY <1>0, <2>4, <2>6 DEF TypeOK
        <5>3. ASSUME NEW n \in 1..Len(changes'), changes'[n].ver = i
              PROVE  n \in 1..Len(changes)
          BY <1>0, <5>1, <5>2, <5>3 DEF TypeOK
        <5>4. 1..Len(changes) \subseteq 1..Len(changes')
          BY <1>0, <5>1 DEF TypeOK
        <5>5. QED
          BY <3>1, <5>1, <5>3, <5>4 DEF Announced
      <4>3. QED
        BY <2>3, <4>1, <4>2
    <3>4. QED
      BY <3>1, <3>2, <3>3
  <2>7. CASE i = Len(log) + 1
    <3>1. log'[i - 1] = log[Len(log)] /\ log'[i] = new[p] /\ Len(log) # 0
      BY <1>0, <2>2, <2>7 DEF TypeOK
    <3>2. DataOf(log, old[p]) = log'[i - 1].data
      BY <2>2, <3>1 DEF DataOf
    <3>3. DOMAIN c.sessions = Changed(log'[i - 1].data, log'[i].data)
      BY <2>5, <3>1, <3>2
    <3>4. \A n \in 1..Len(changes) : changes[n].ver # i
      BY <1>0, <2>7 DEF ChangeInv, TypeOK
    <3>5. Announced(i, s)' <=> s \in DOMAIN c.sessions
      <4> HIDE DEF c
      <4>1. CASE DOMAIN c.sessions = {} /\ changes' = changes
        BY <3>4, <4>1 DEF Announced
      <4>2. CASE DOMAIN c.sessions # {} /\ changes' = Append(changes, c)
        <5>1. /\ Len(changes') = Len(changes) + 1
              /\ changes'[Len(changes) + 1] = c
              /\ \A n \in 1..Len(changes) : changes'[n] = changes[n]
          BY <1>0, <4>2 DEF TypeOK
        <5>2. \A n \in 1..Len(changes) : changes'[n].ver # i
          BY <3>4, <5>1
        <5>3. c.ver = i /\ \A t \in DOMAIN c.sessions : c.sessions[t] = log'[i].data[t]
          BY <2>4, <2>5, <2>7, <3>1
        <5>4. Len(changes) + 1 \in 1..Len(changes')
          BY <1>0, <5>1 DEF TypeOK
        <5>5. ASSUME NEW n \in 1..Len(changes'), changes'[n].ver = i
              PROVE  changes'[n] = c
          BY <1>0, <5>1, <5>2, <5>5 DEF TypeOK
        <5>6. QED
          BY <5>1, <5>3, <5>4, <5>5 DEF Announced
      <4>3. QED
        BY <2>3, <4>1, <4>2
    <3>6. QED
      BY <3>3, <3>5
  <2>8. QED
    BY <1>0, <2>2, <2>6, <2>7 DEF TypeOK
<1>3. QED
  BY <1>0, <1>1, <1>2, OnlyCommitStores DEF FeedFaithful, FeedFaithfulAt, Clean

-----------------------------------------------------------------------------
(* The invariant and the theorems that follow from it.                     *)

LEMMA InvInit == Init => IInv
<1> SUFFICES ASSUME Init PROVE IInv
  OBVIOUS
<1>1. BaseInv
  BY BaseInit
<1>2. LockInv
  BY DEF Init, LockInv, Holding, InTransaction, Request
<1>3. FreshInv
  BY DEF Init, FreshInv, Request
<1>4. ChangeInv /\ StoredOnce /\ FeedFaithful
  BY DEF Init, ChangeInv, StoredOnce, FeedFaithful
<1>5. QED
  BY <1>1, <1>2, <1>3, <1>4 DEF IInv, BaseInv

LEMMA InvStep == IInv /\ [Next]_vars => IInv'
<1> SUFFICES ASSUME IInv, [Next]_vars PROVE IInv'
  OBVIOUS
<1>1. BaseInv /\ TypeOK
  BY DEF IInv, BaseInv, KeyInv
<1>2. BaseInv'
  BY <1>1, BaseStep
<1>3. LockInv' /\ FreshInv' /\ ChangeInv' /\ StoredOnce' /\ FeedFaithful'
  BY <1>1, LockStep, FreshStep, ChangeStep, StoredStep, FeedStep DEF IInv
<1>4. QED
  BY <1>2, <1>3 DEF IInv, BaseInv

\* Every version is stored once and in order, unless memcache lost the lock
\* or served an outdated version.
THEOREM StoredInOrder == Spec => []StoredOnce
<1>1. IInv => StoredOnce
  BY DEF IInv
<1>2. QED
  BY InvInit, InvStep, <1>1, PTL DEF Spec

\* Under the same condition the feed of changes is exact.
THEOREM ExactFeed == Spec => []FeedFaithful
<1>1. IInv => FeedFaithful
  BY DEF IInv
<1>2. QED
  BY InvInit, InvStep, <1>1, PTL DEF Spec

\* Every notification task stems from a committed Changes entity.
THEOREM NotifiedStored == Spec => []NotifiedAreStored
<1> DEFINE TaskInv == tasks = changes
           Inv == BaseInv /\ ChangeInv /\ TaskInv
<1>1. Init => Inv
  BY BaseInit DEF Init, ChangeInv
<1>2. Inv /\ [Next]_vars => Inv'
  <2> SUFFICES ASSUME Inv, [Next]_vars PROVE Inv'
    OBVIOUS
  <2>1. TaskInv'
    <3>1. CASE UNCHANGED <<log, changes, tasks>>
      BY <3>1
    <3>2. ASSUME NEW p \in Syncer, Commit(p) PROVE TaskInv'
      <4> DEFINE c == Change(Len(log) + 1, DataOf(log, old[p]), new[p].data)
      <4>1. \/ UNCHANGED <<changes, tasks>>
            \/ changes' = Append(changes, c) /\ tasks' = Append(tasks, c)
        BY <3>2, Zenon DEF Commit
      <4>2. QED
        <5> HIDE DEF c
        <5>1. QED
          BY <4>1
    <3>3. QED
      BY <3>1, <3>2, OnlyCommitStores DEF BaseInv, KeyInv
  <2>2. QED
    BY <2>1, BaseStep, ChangeStep
<1>3. Inv => NotifiedAreStored
  BY DEF ChangeInv, NotifiedAreStored
<1>4. QED
  BY <1>1, <1>2, <1>3, PTL DEF Spec

-----------------------------------------------------------------------------
(* What readers are served.                                                *)

\* As long as no fill raced with a store, memcache holds nothing but the last
\* entity, which is then a newest one (versions may be stored out of order when
\* the lock is lost), and nothing between the invalidation and the commit.
CacheInv ==
    ~tainted =>
        /\ \A k \in Shard : cache[k] # 0 => cache[k] = Len(log) /\ cache[k] \in Newest(log)
        /\ \A p \in Syncer, k \in Shard : pc[p] = "commit" => cache[k] = 0

\* What a request is about to cache was a newest entity when it was read.
FillInv ==
    \A p \in Request : pc[p] = "fill" =>
        old[p] \in 1..Len(log) /\ (old[p] = Len(log) => old[p] \in Newest(log))

ReadInv ==
    \A r \in Reader :
        /\ floor[r] \in 0..Len(log)
        /\ ~tainted /\ pc[r] \in {"fill", "reply"} =>
             \A i \in 1..floor[r] : Modified(log, old[r]) >= log[i].ts

RInv == CacheInv /\ FillInv /\ ReadInv

\* What the steps that neither read nor write the cache leave alone.
ReadKept ==
    /\ UNCHANGED <<log, cache, tainted>>
    /\ \A p \in Request : pc'[p] = "fill" => pc[p] = "fill" /\ old'[p] = old[p]
    /\ \A p \in Syncer : pc'[p] = "commit" => pc[p] = "commit"
    /\ \A r \in Reader :
         /\ floor'[r] \in {0, floor[r], Len(log)}
         /\ pc'[r] \in {"fill", "reply"} =>
              pc[r] \in {"fill", "reply"} /\ old'[r] = old[r] /\ floor'[r] = floor[r]

LEMMA ReadFrame == TypeOK /\ RInv /\ ReadKept => RInv'
<1> SUFFICES ASSUME TypeOK, RInv, ReadKept PROVE RInv'
  OBVIOUS
<1>1. CacheInv'
  BY DEF RInv, CacheInv, ReadKept
<1>2. FillInv'
  BY DEF RInv, FillInv, ReadKept
<1>3. ASSUME NEW r \in Reader
      PROVE  /\ floor'[r] \in 0..Len(log')
             /\ ~tainted' /\ pc'[r] \in {"fill", "reply"} =>
                  \A i \in 1..floor'[r] : Modified(log', old'[r]) >= log'[i].ts
  <2>1. log' = log /\ tainted' = tainted /\ Len(log) \in Nat /\ floor[r] \in 0..Len(log)
    BY DEF RInv, ReadInv, ReadKept, TypeOK
  <2>2. floor'[r] \in 0..Len(log)
    BY <2>1 DEF ReadKept
  <2>3. pc'[r] \in {"fill", "reply"} =>
          pc[r] \in {"fill", "reply"} /\ old'[r] = old[r] /\ floor'[r] = floor[r]
    BY DEF ReadKept
  <2> QED BY <2>1, <2>2, <2>3 DEF RInv, ReadInv
<1>4. ReadInv'
  BY <1>3 DEF ReadInv
<1> QED BY <1>1, <1>2, <1>4 DEF RInv

LEMMA NewestFacts ==
    ASSUME log \in Seq(Entity), NEW i \in Newest(log)
    PROVE  /\ i \in 0..Len(log) /\ (i = 0 <=> log = <<>>)
           /\ Modified(log, i) \in Nat
           /\ \A j \in 1..Len(log) : Modified(log, i) >= log[j].ts
<1>1. CASE log = <<>>
  BY <1>1 DEF Newest, Modified
<1>2. CASE log # <<>>
  <2>1. i \in 1..Len(log) /\ \A j \in 1..Len(log) : log[j].ts <= log[i].ts
    BY <1>2 DEF Newest
  <2>2. \A j \in 1..Len(log) : log[j] \in Entity
    OBVIOUS
  <2> QED BY <1>2, <2>1, <2>2 DEF Modified, Entity
<1> QED BY <1>1, <1>2

LEMMA ReadStep == BaseInv /\ RInv /\ [Next]_vars => RInv'
<1> SUFFICES ASSUME BaseInv, RInv, [Next]_vars PROVE RInv'
  OBVIOUS
<1> USE RequestAssumption DEF Request
<1>0. TypeOK /\ KeyInv
  BY DEF BaseInv, KeyInv
<1>1. CASE Publish \/ EvictLock \/ UNCHANGED vars
  <2>1. UNCHANGED <<log, cache, tainted, pc, old, floor>>
    BY <1>1 DEF Publish, EvictLock, vars
  <2> QED BY <1>0, <2>1, ReadFrame DEF ReadKept
<1>2. ASSUME NEW k \in Shard, Expire(k) PROVE RInv'
  <2>1. cache' = [cache EXCEPT ![k] = 0] /\ UNCHANGED <<log, tainted, pc, old, floor>>
    BY <1>2 DEF Expire
  <2>2. CacheInv'
    BY <1>0, <2>1 DEF RInv, CacheInv, TypeOK
  <2> QED BY <2>1, <2>2 DEF RInv, FillInv, ReadInv
<1>3. ASSUME NEW p \in Request, ReadCache(p) PROVE RInv'
  <2>1. pc[p] = "cache" /\ UNCHANGED <<log, cache, tainted, floor>>
    BY <1>3, Zenon DEF ReadCache
  <2>2. CASE cache[ShardOf[p]] = 0
    <3>1. pc' = [pc EXCEPT ![p] = "query"] /\ old' = old
      BY <1>3, <2>2 DEF ReadCache, Goto
    <3>2. ReadKept
      BY <1>0, <2>1, <3>1 DEF ReadKept, TypeOK
    <3> QED BY <1>0, <3>2, ReadFrame
  <2>3. CASE cache[ShardOf[p]] # 0
    <3>1. /\ old' = [old EXCEPT ![p] = cache[ShardOf[p]]]
          /\ pc' = [pc EXCEPT ![p] = AfterLatest(p)]
      BY <1>3, <2>3 DEF ReadCache, Goto
    <3>2. CacheInv' /\ FillInv'
      BY <1>0, <2>1, <3>1 DEF AfterLatest, RInv, CacheInv, FillInv, TypeOK
    <3>3. ASSUME NEW r \in Reader, ~tainted, pc'[r] \in {"fill", "reply"}, NEW i \in 1..floor[r]
          PROVE  Modified(log, old'[r]) >= log[i].ts
      <4>1. CASE r = p
        <5>1. old'[r] = cache[ShardOf[p]] /\ cache[ShardOf[p]] \in Newest(log)
          BY <1>0, <2>3, <3>1, <3>3, <4>1 DEF RInv, CacheInv, TypeOK
        <5>2. i \in 1..Len(log)
          BY <1>0 DEF RInv, ReadInv, TypeOK
        <5> QED BY <1>0, <5>1, <5>2, NewestFacts DEF TypeOK
      <4>2. CASE r # p
        BY <1>0, <3>1, <3>3, <4>2 DEF RInv, ReadInv, TypeOK
      <4> QED BY <4>1, <4>2
    <3> QED BY <2>1, <3>2, <3>3 DEF RInv, ReadInv
  <2> QED BY <2>2, <2>3
<1>4. ASSUME NEW p \in Request, QueryLatest(p) PROVE RInv'
  <2>1. UNCHANGED <<log, cache, tainted, floor>> /\ pc[p] = "query"
    BY <1>4 DEF QueryLatest
  <2>2. PICK n \in Newest(log) :
          /\ old' = [old EXCEPT ![p] = n]
          /\ pc' = [pc EXCEPT ![p] = IF n = 0 THEN AfterLatest(p) ELSE "fill"]
    BY <1>4 DEF QueryLatest, Goto
  <2>3. n \in 0..Len(log) /\ \A j \in 1..Len(log) : Modified(log, n) >= log[j].ts
    BY <1>0, NewestFacts DEF TypeOK
  <2>4. CacheInv'
    BY <1>0, <2>1, <2>2 DEF AfterLatest, RInv, CacheInv, TypeOK
  <2>5. FillInv'
    BY <1>0, <2>1, <2>2, <2>3 DEF AfterLatest, RInv, FillInv, TypeOK
  <2>6. ReadInv'
    BY <1>0, <2>1, <2>2, <2>3 DEF RInv, ReadInv, TypeOK
  <2> QED BY <2>4, <2>5, <2>6 DEF RInv
<1>5. ASSUME NEW p \in Request, FillCache(p) PROVE RInv'
  <2>1. /\ UNCHANGED <<log, old, floor>>
        /\ cache' = [cache EXCEPT ![ShardOf[p]] = old[p]]
        /\ tainted' = (\/ tainted
                       \/ old[p] # Len(log)
                       \/ \E q \in Syncer : pc[q] = "commit")
        /\ pc[p] = "fill"
        /\ pc' = [pc EXCEPT ![p] = AfterLatest(p)]
    BY <1>5 DEF FillCache, Goto
  <2>2. \A q \in Syncer : pc'[q] = "commit" => pc[q] = "commit"
    BY <1>0, <2>1 DEF AfterLatest, TypeOK
  <2>3. old[p] = Len(log) => old[p] \in Newest(log)
    BY <2>1 DEF RInv, FillInv
  <2>4. CacheInv'
    BY <1>0, <2>1, <2>2, <2>3 DEF RInv, CacheInv, TypeOK
  <2>5. FillInv' /\ ReadInv'
    BY <1>0, <2>1 DEF AfterLatest, RInv, FillInv, ReadInv, TypeOK
  <2> QED BY <2>4, <2>5 DEF RInv
<1>6. ASSUME NEW p \in Request, Crash(p) \/ (p \in Syncer /\ Unlock(p)) \/ Reply(p)
      PROVE  ReadKept
  <2>1. Finish(p) /\ UNCHANGED <<log, cache, tainted>>
    BY <1>6 DEF Crash, Unlock, Reply
  <2> QED BY <1>0, <2>1 DEF Finish, Restart, Goto, ReadKept, TypeOK
<1>7. ASSUME NEW r \in Reader, StartRead(r) PROVE ReadKept
  BY <1>0, <1>7 DEF StartRead, Goto, ReadKept, TypeOK
<1>8. ASSUME NEW p \in Syncer, StartSync(p) PROVE ReadKept
  <2>1. pc' = pc \/ pc' = [pc EXCEPT ![p] = "cache"]
    BY <1>8, Zenon DEF StartSync, Goto
  <2>2. UNCHANGED <<log, cache, old, tainted, floor>>
    BY <1>8, Zenon DEF StartSync
  <2> QED BY <1>0, <2>1, <2>2 DEF ReadKept, TypeOK
<1>9. ASSUME NEW p \in Syncer, Fetch(p) \/ Conflict(p) \/ Abort(p) PROVE ReadKept
  <2>1. UNCHANGED <<log, cache, tainted, floor>>
    BY <1>9, Zenon DEF Fetch, Conflict, Abort
  <2>2. \/ pc' = [pc EXCEPT ![p] = "store"] \/ pc' = [pc EXCEPT ![p] = "unlock"]
        \/ pc' = [pc EXCEPT ![p] = "cache"]
    BY <1>9, Zenon DEF Fetch, Conflict, Abort, Goto
  <2>3. old' = old \/ old' = [old EXCEPT ![p] = 0]
    BY <1>9, Zenon DEF Fetch, Conflict, Abort, Restart
  <2> QED BY <1>0, <2>1, <2>2, <2>3 DEF ReadKept, TypeOK
<1>10. ASSUME NEW p \in Syncer, StoreEventData(p) PROVE RInv'
  <2>1. /\ pc' = [pc EXCEPT ![p] = "commit"] /\ UNCHANGED <<log, old, floor>>
        /\ tainted' \/ (tainted' = tainted /\ cache' = [k \in Shard |-> 0])
        /\ tainted => tainted'
    BY <1>10 DEF StoreEventData, Goto
  <2>2. CacheInv'
    BY <1>0, <2>1 DEF RInv, CacheInv, TypeOK
  <2>3. FillInv' /\ ReadInv'
    BY <1>0, <2>1 DEF RInv, FillInv, ReadInv, TypeOK
  <2> QED BY <2>2, <2>3 DEF RInv
<1>11. ASSUME NEW p \in Syncer, Commit(p) PROVE RInv'
  <2>1. /\ pc[p] = "commit" /\ pc' = [pc EXCEPT ![p] = "unlock"]
        /\ log' = Append(log, new[p]) /\ old' = [old EXCEPT ![p] = 0]
        /\ UNCHANGED <<cache, tainted, floor>>
    BY <1>11 DEF Commit, Goto, Restart
  <2>2. /\ new[p] \in Entity /\ Len(log') = Len(log) + 1 /\ Len(log) \in Nat
        /\ \A i \in 1..Len(log) : log'[i] = log[i]
    BY <1>0, <2>1 DEF BaseInv, FetchedInv, TypeOK
  <2>3. CacheInv'
    BY <1>0, <2>1 DEF RInv, CacheInv, TypeOK
  <2>4. FillInv'
    BY <1>0, <2>1, <2>2 DEF RInv, FillInv, TypeOK
  <2>5. ReadInv'
    <3>1. \A r \in Reader : old'[r] = old[r] /\ pc'[r] = pc[r] /\ old[r] \in 0..Len(log)
      BY <1>0, <2>1 DEF KeyInv, ServedIsCommitted, TypeOK
    <3>2. \A r \in Reader : Modified(log', old'[r]) = Modified(log, old[r])
      BY <2>2, <3>1 DEF Modified
    <3> QED BY <1>0, <2>1, <2>2, <3>1, <3>2 DEF RInv, ReadInv, TypeOK
  <2> QED BY <2>3, <2>4, <2>5 DEF RInv
<1> QED
  BY <1>0, <1>1, <1>2, <1>3, <1>4, <1>5, <1>6, <1>7, <1>8, <1>9, <1>10, <1>11, ReadFrame
     DEF Next, GetLatest, Sync

\* A reader is served event data as recent as what was stored when it began, for
\* any number of readers, syncs and instances, unless a fill raced with a store;
\* even when the lock is lost and versions are stored out of order.
THEOREM ReadsRecent == Spec => []ReadsMostRecent
<1>1. Init => BaseInv /\ RInv
  BY BaseInit DEF Init, RInv, CacheInv, FillInv, ReadInv, Request
<1>2. BaseInv /\ RInv /\ [Next]_vars => (BaseInv /\ RInv)'
  BY BaseStep, ReadStep
<1>3. RInv => ReadsMostRecent
  BY DEF RInv, ReadInv, ReadsMostRecent
<1> QED BY <1>1, <1>2, <1>3, PTL DEF Spec


-----------------------------------------------------------------------------
(* Refinement.                                                             *)

LEMMA FeedInit == Init => Feed!Init
  BY DEF Init, Feed!Init

\* The instance has its own copy of the operators of EventData.
LEMMA SameOperators ==
    /\ Feed!Content = Content
    /\ \A i, a, b : Feed!Change(i, a, b) = Change(i, a, b)
    /\ \A l, i : Feed!DataOf(l, i) = DataOf(l, i) /\ Feed!Modified(l, i) = Modified(l, i)
    /\ \A d : Feed!IsEmpty(d) = IsEmpty(d)
<1>1. \A a, b : Feed!Changed(a, b) = Changed(a, b)
  BY DEF Changed, Feed!Changed
<1>2. \A i, a, b : Feed!Change(i, a, b) = Change(i, a, b)
  BY <1>1 DEF Change, Feed!Change
<1>3. QED
  BY <1>2 DEF Content, Feed!Content, DataOf, Feed!DataOf, Modified,
     Feed!Modified, IsEmpty, Feed!IsEmpty

LEMMA FeedNext == BaseInv /\ [Next]_vars => [Feed!Next]_(Feed!vars)
<1> SUFFICES ASSUME BaseInv, [Next]_vars PROVE [Feed!Next]_(Feed!vars)
  OBVIOUS
<1>0. TypeOK /\ ServedIsCommitted /\ FetchedInv
  BY DEF BaseInv, KeyInv
<1>1. CASE UNCHANGED <<log, changes, tasks>>
  BY <1>1 DEF Feed!vars
<1>2. ASSUME NEW p \in Syncer, Commit(p) PROVE Feed!Next
  <2>1. pc[p] = "commit" /\ old[p] \in 0..Len(log)
    BY <1>0, <1>2 DEF Commit, ServedIsCommitted, Request
  <2>2. /\ new[p] \in Entity
        /\ new[p].ts <= MaxVersion
        /\ new[p].ts > Modified(log, old[p])
        /\ ~IsEmpty(new[p].data)
    BY <1>0, <2>1 DEF FetchedInv
  <2>3. new[p] \in [ts : 1..MaxVersion, data : Content]
    BY <2>2, RequestAssumption DEF Entity
  <2>4. Feed!Store(old[p], new[p])
    <3> DEFINE c == Change(Len(log) + 1, DataOf(log, old[p]), new[p].data)
    <3>1. \/ /\ DOMAIN c.sessions # {}
             /\ changes' = Append(changes, c)
             /\ tasks' = Append(tasks, c)
          \/ /\ DOMAIN c.sessions = {}
             /\ UNCHANGED changes
             /\ UNCHANGED tasks
      BY <1>2, Zenon DEF Commit
    <3>2. log' = Append(log, new[p])
      BY <1>2 DEF Commit
    <3>3. QED
      BY <2>2, <3>1, <3>2, SameOperators, Zenon DEF Feed!Store
  <2>5. QED
    BY <2>1, <2>3, <2>4, SameOperators, Zenon DEF Feed!Next
<1>3. QED
  BY <1>0, <1>1, <1>2, OnlyCommitStores

\* The synchronisation implements the abstract feed of versions and changes:
\* whatever requests, memcache and transactions do, what a reader of the
\* datastore and of the queue sees is a sequence of complete stores.
THEOREM Implements == Spec => ImplementsFeed
<1>1. ImplementsFeed <=> Feed!Spec
  BY DEF ImplementsFeed
<1>2. QED
  BY <1>1, BaseInit, BaseStep, FeedInit, FeedNext, PTL DEF Spec, Feed!Spec

=============================================================================
