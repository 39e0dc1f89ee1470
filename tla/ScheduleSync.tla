---------------------------- MODULE ScheduleSync ----------------------------
(***************************************************************************)
(* Synchronisation of the event schedule: the handlers syncEventData and   *)
(* serveSchedule (backend/handler.go), getLatestEventData, storeEventData  *)
(* and storeChanges (backend/db.go) and the sharded memcache they share    *)
(* (backend/cache.go).                                                     *)
(*                                                                         *)
(* Each request is a process.  The steps between which another request can *)
(* run are the calls to memcache, to the datastore and to the storage that *)
(* holds the manifest.  A datastore transaction reads the state of its     *)
(* first query, buffers its writes and its task, and applies them together *)
(* at commit, unless the entity group it has read has changed.  Memcache   *)
(* takes no part in the transaction: its calls take effect at once.        *)
(***************************************************************************)
EXTENDS EventData, FiniteSets

CONSTANTS
    Syncer,       \* requests of /sync/gcs
    Reader,       \* requests that only call getLatestEventData
    Shard,        \* allCachedEventDataKeys
    ShardOf,      \* the cachedEventDataKey of the instance serving a request
    NoData,       \* nothing fetched (a nil *eventData)
    NotRead,      \* the transaction has not queried the datastore
    MaxAttempts,  \* attempts of datastore.RunInTransaction (3)
    MaxVersion,   \* bound: manifests published
    MaxReads,     \* bound: requests started by readers
    MaxFaults,    \* bound: errors of memcache, datastore and storage
    MaxCrashes    \* bound: instances lost, or a lock that could not be deleted

ASSUME RequestAssumption ==
    /\ Syncer \cap Reader = {}
    /\ ShardOf \in [Syncer \cup Reader -> Shard]
    /\ NoData \notin Entity
    /\ NotRead \notin Nat
    /\ MaxAttempts \in Nat \ {0}
    /\ MaxVersion \in Nat \ {0}
    /\ {MaxReads, MaxFaults, MaxCrashes} \subseteq Nat

VARIABLES
    src,        \* the published manifest with the files it lists
    log,        \* committed EventData entities
    changes,    \* committed Changes entities
    tasks,      \* notify-subscribers tasks added to the queue
    cache,      \* memcache: entity cached under each key, 0 when there is none
    lock,       \* memcache: the counter sync:gcs, 0 when there is none
    pc,         \* where each request is
    old,        \* oldData of a request: an entity
    new,        \* newData of a sync
    seen,       \* length of the log when the transaction queried it
    attempt,    \* attempts of the transaction so far
    used,       \* how much of each bound has been used
    lockLost,   \* history: memcache dropped the lock while it was held
    tainted,    \* history: a fill raced with a store, or deleteMulti failed
    floor       \* history: entities that were committed when a read began

vars == <<src, log, changes, tasks, cache, lock, pc, old, new, seen, attempt,
          used, lockLost, tainted, floor>>

Request == Syncer \cup Reader

\* The requests between cache.inc(syncGCSCacheKey) = 1 and its deleteMulti.
InTransaction == {"cache", "query", "fill", "fetch", "store", "commit"}
Holding(p) == p \in Syncer /\ pc[p] \in InTransaction \cup {"unlock"}

-----------------------------------------------------------------------------
TypeOK ==
    /\ src \in Entity
    /\ log \in Seq(Entity)
    /\ changes \in Seq(ChangeRecord)
    /\ tasks \in Seq(ChangeRecord)
    /\ cache \in [Shard -> Nat]
    /\ lock \in 0..2
    /\ pc \in [Request -> InTransaction \cup {"idle", "unlock", "reply"}]
    /\ old \in [Request -> Nat]
    /\ new \in [Syncer -> Entity \cup {NoData}]
    /\ seen \in [Syncer -> Nat \cup {NotRead}]
    /\ attempt \in [Syncer -> Nat]
    /\ used \in [{"reads", "faults", "crashes"} -> Nat]
    /\ lockLost \in BOOLEAN
    /\ tainted \in BOOLEAN
    /\ floor \in [Reader -> Nat]

Init ==
    /\ src \in [ts : {1}, data : Content]
    /\ log = <<>>
    /\ changes = <<>>
    /\ tasks = <<>>
    /\ cache = [k \in Shard |-> 0]
    /\ lock = 0
    /\ pc = [p \in Request |-> "idle"]
    /\ old = [p \in Request |-> 0]
    /\ new = [p \in Syncer |-> NoData]
    /\ seen = [p \in Syncer |-> NotRead]
    /\ attempt = [p \in Syncer |-> 0]
    /\ used = [b \in {"reads", "faults", "crashes"} |-> 0]
    /\ lockLost = FALSE
    /\ tainted = FALSE
    /\ floor = [r \in Reader |-> 0]

Goto(p, label) == pc' = [pc EXCEPT ![p] = label]

\* The variables of the function that a transaction runs start afresh.
Restart(p) ==
    /\ old' = [old EXCEPT ![p] = 0]
    /\ new' = IF p \in Syncer THEN [new EXCEPT ![p] = NoData] ELSE new
    /\ seen' = IF p \in Syncer THEN [seen EXCEPT ![p] = NotRead] ELSE seen

\* The request is over and its variables are gone.
Finish(p) ==
    /\ Goto(p, "idle")
    /\ Restart(p)
    /\ attempt' = IF p \in Syncer THEN [attempt EXCEPT ![p] = 0] ELSE attempt
    /\ floor' = IF p \in Reader THEN [floor EXCEPT ![p] = 0] ELSE floor

Fault ==
    /\ used["faults"] < MaxFaults
    /\ used' = [used EXCEPT !["faults"] = @ + 1]

CrashFault ==
    /\ used["crashes"] < MaxCrashes
    /\ used' = [used EXCEPT !["crashes"] = @ + 1]

-----------------------------------------------------------------------------
(* The outside: a new manifest is uploaded together with its files.        *)
Publish ==
    /\ src.ts < MaxVersion
    /\ src' \in [ts : {src.ts + 1}, data : Content]
    /\ UNCHANGED <<log, changes, tasks, cache, lock, pc, old, new, seen,
                   attempt, used, lockLost, tainted, floor>>

\* Mutant: entries are cached without an expiration.
NeverExpire(k) == FALSE

(* Memcache drops an entry: it expired (1 hour) or was evicted.            *)
Expire(k) ==
    /\ cache[k] # 0
    /\ cache' = [cache EXCEPT ![k] = 0]
    /\ UNCHANGED <<src, log, changes, tasks, lock, pc, old, new, seen,
                   attempt, used, lockLost, tainted, floor>>

(* Memcache drops the lock, which has no expiry: eviction or a flush.      *)
EvictLock ==
    /\ lock # 0
    /\ Fault
    /\ lock' = 0
    /\ lockLost' = (lockLost \/ \E p \in Syncer : Holding(p))
    /\ UNCHANGED <<src, log, changes, tasks, cache, pc, old, new, seen,
                   attempt, tainted, floor>>

-----------------------------------------------------------------------------
(* getLatestEventData, called by a sync in its transaction or by a reader. *)

AfterLatest(p) == IF p \in Syncer THEN "fetch" ELSE "reply"

\* getCachedEventData; an error of memcache is a miss, which Expire covers.
ReadCache(p) ==
    /\ pc[p] = "cache"
    /\ \/ /\ cache[ShardOf[p]] # 0
          /\ old' = [old EXCEPT ![p] = cache[ShardOf[p]]]
          /\ Goto(p, AfterLatest(p))
       \/ /\ cache[ShardOf[p]] = 0
          /\ Goto(p, "query")
          /\ UNCHANGED old
    /\ UNCHANGED <<src, log, changes, tasks, cache, lock, new, seen, attempt,
                   used, lockLost, tainted, floor>>

\* Nothing is cached when the query returns no entity.
QueryLatest(p) ==
    /\ pc[p] = "query"
    /\ \E i \in Newest(log) :
         /\ old' = [old EXCEPT ![p] = i]
         /\ Goto(p, IF i = 0 THEN AfterLatest(p) ELSE "fill")
    /\ seen' = IF p \in Syncer THEN [seen EXCEPT ![p] = Len(log)] ELSE seen
    /\ UNCHANGED <<src, log, changes, tasks, cache, lock, new, attempt, used,
                   lockLost, tainted, floor>>

\* cacheEventData, under the key of this instance only.
FillCache(p) ==
    /\ pc[p] = "fill"
    /\ cache' = [cache EXCEPT ![ShardOf[p]] = old[p]]
    /\ tainted' = (\/ tainted
                   \/ old[p] # Len(log)
                   \/ \E q \in Syncer : pc[q] = "commit")
    /\ Goto(p, AfterLatest(p))
    /\ UNCHANGED <<src, log, changes, tasks, lock, old, new, seen, attempt,
                   used, lockLost, floor>>

-----------------------------------------------------------------------------
(* serveSchedule and the other readers of the latest event data.           *)
StartRead(r) ==
    /\ pc[r] = "idle"
    /\ used["reads"] < MaxReads
    /\ used' = [used EXCEPT !["reads"] = @ + 1]
    /\ floor' = [floor EXCEPT ![r] = Len(log)]
    /\ Goto(r, "cache")
    /\ UNCHANGED <<src, log, changes, tasks, cache, lock, old, new, seen,
                   attempt, lockLost, tainted>>

\* 200 with the entity and its etag, or 304 when the client has that etag:
\* the client ends up with entity old[r] either way.
Reply(r) ==
    /\ pc[r] = "reply"
    /\ Finish(r)
    /\ UNCHANGED <<src, log, changes, tasks, cache, lock, used, lockLost,
                   tainted>>

-----------------------------------------------------------------------------
(* syncEventData.                                                          *)

\* Mutant: a refused request deletes the lock on its way out.
RefusedUnlocks(p) ==
    /\ pc[p] = "idle"
    /\ \/ lock = 0 /\ lock' = 1 /\ Goto(p, "cache")
       \/ lock # 0 /\ lock' = 0 /\ UNCHANGED pc
    /\ attempt' = [attempt EXCEPT ![p] = 1]
    /\ UNCHANGED <<src, log, changes, tasks, cache, old, new, seen, used,
                   lockLost, tainted, floor>>

\* cache.inc: a request that reads a count above 1 returns at once, and has
\* incremented the counter; 2 stands for every count above 1.
StartSync(p) ==
    /\ pc[p] = "idle"
    /\ \/ /\ lock = 0
          /\ lock' = 1
          /\ Goto(p, "cache")
          /\ attempt' = [attempt EXCEPT ![p] = 1]
       \/ /\ lock # 0
          /\ lock' = 2
          /\ UNCHANGED pc
          /\ UNCHANGED attempt
    /\ UNCHANGED <<src, log, changes, tasks, cache, old, new, seen, used,
                   lockLost, tainted, floor>>

\* fetchEventData with If-Modified-Since: oldData.modified.
Fetch(p) ==
    /\ pc[p] = "fetch"
    /\ \/ /\ src.ts > Modified(log, old[p])
          /\ ~IsEmpty(src.data)
          /\ new' = [new EXCEPT ![p] = src]
          /\ Goto(p, "store")
          /\ UNCHANGED old
          /\ UNCHANGED seen
       \/ /\ src.ts <= Modified(log, old[p]) \/ IsEmpty(src.data)
          /\ Goto(p, "unlock")
          /\ Restart(p)
    /\ UNCHANGED <<src, log, changes, tasks, cache, lock, attempt, used,
                   lockLost, tainted, floor>>

\* Mutant: only the key of this instance is deleted.
ClearOwnKey(p) ==
    /\ pc[p] = "store"
    /\ Goto(p, "commit")
    /\ cache' = [cache EXCEPT ![ShardOf[p]] = 0]
    /\ UNCHANGED <<src, log, changes, tasks, lock, old, new, seen, attempt,
                   used, lockLost, tainted, floor>>

\* Mutant: the new version is cached instead of the old one being deleted.
WriteThrough(p) ==
    /\ pc[p] = "store"
    /\ Goto(p, "commit")
    /\ cache' = [k \in Shard |-> Len(log) + 1]
    /\ UNCHANGED <<src, log, changes, tasks, lock, old, new, seen, attempt,
                   used, lockLost, tainted, floor>>

\* Mutant: the task is added to the queue at once, not by the transaction.
NotifyAtOnce(p) ==
    /\ pc[p] = "store"
    /\ Goto(p, "commit")
    /\ cache' = [k \in Shard |-> 0]
    /\ tasks' = Append(tasks, Change(Len(log) + 1, DataOf(log, old[p]), new[p].data))
    /\ UNCHANGED <<src, log, changes, lock, old, new, seen, attempt, used,
                   lockLost, tainted, floor>>

\* storeEventData: the Put is buffered, the keys are deleted from memcache
\* now; an error of deleteMulti is ignored.
StoreEventData(p) ==
    /\ pc[p] = "store"
    /\ Goto(p, "commit")
    /\ \/ /\ cache' = [k \in Shard |-> 0]
          /\ UNCHANGED used
          /\ UNCHANGED tainted
       \/ /\ Fault
          /\ tainted' = TRUE
          /\ UNCHANGED cache
    /\ UNCHANGED <<src, log, changes, tasks, lock, old, new, seen, attempt,
                   lockLost, floor>>

\* Mutant: the versions are swapped in the call of diffEventData.
DiffBackwards(p) ==
    /\ pc[p] = "commit"
    /\ log' = Append(log, new[p])
    /\ LET c == Change(Len(log) + 1, new[p].data, DataOf(log, old[p])) IN
         IF DOMAIN c.sessions # {}
         THEN changes' = Append(changes, c) /\ tasks' = Append(tasks, c)
         ELSE UNCHANGED <<changes, tasks>>
    /\ Goto(p, "unlock")
    /\ Restart(p)
    /\ UNCHANGED <<src, cache, lock, attempt, used, lockLost, tainted, floor>>

\* Mutant: only the sessions that changed are stored.
StoreDifference(p) ==
    /\ pc[p] = "commit"
    /\ LET c == Change(Len(log) + 1, DataOf(log, old[p]), new[p].data) IN
         log' = Append(log, [new[p] EXCEPT !.data = c.sessions])
    /\ Goto(p, "unlock")
    /\ Restart(p)
    /\ UNCHANGED <<src, changes, tasks, cache, lock, attempt, used, lockLost,
                   tainted, floor>>

\* Mutant: subscribers are notified of empty changes too.
NotifyAlways(p) ==
    /\ pc[p] = "commit"
    /\ log' = Append(log, new[p])
    /\ LET c == Change(Len(log) + 1, DataOf(log, old[p]), new[p].data) IN
         changes' = Append(changes, c) /\ tasks' = Append(tasks, c)
    /\ Goto(p, "unlock")
    /\ Restart(p)
    /\ UNCHANGED <<src, cache, lock, attempt, used, lockLost, tainted, floor>>

\* The rest of the function and the commit: the entity, and with a difference
\* that is not empty the Changes entity and the task, become visible at once.
Commit(p) ==
    /\ pc[p] = "commit"
    /\ seen[p] \in {NotRead, Len(log)}
    /\ log' = Append(log, new[p])
    /\ LET c == Change(Len(log) + 1, DataOf(log, old[p]), new[p].data) IN
         \/ /\ DOMAIN c.sessions # {}
            /\ changes' = Append(changes, c)
            /\ tasks' = Append(tasks, c)
         \/ /\ DOMAIN c.sessions = {}
            /\ UNCHANGED changes
            /\ UNCHANGED tasks
    /\ Goto(p, "unlock")
    /\ Restart(p)
    /\ UNCHANGED <<src, cache, lock, attempt, used, lockLost, tainted, floor>>

\* ErrConcurrentTransaction: the function runs again from its start.  The
\* datastore may report one for a group this transaction has only written.
Conflict(p) ==
    /\ pc[p] = "commit"
    /\ \/ seen[p] \notin {NotRead, Len(log)} /\ UNCHANGED used
       \/ Fault
    /\ \/ /\ attempt[p] < MaxAttempts
          /\ attempt' = [attempt EXCEPT ![p] = @ + 1]
          /\ Goto(p, "cache")
       \/ /\ attempt[p] >= MaxAttempts
          /\ Goto(p, "unlock")
          /\ UNCHANGED attempt
    /\ Restart(p)
    /\ UNCHANGED <<src, log, changes, tasks, cache, lock, lockLost, tainted,
                   floor>>

\* A call inside the transaction returns an error: nothing is committed.
Abort(p) ==
    /\ pc[p] \in {"query", "fetch", "store", "commit"}
    /\ Fault
    /\ Goto(p, "unlock")
    /\ Restart(p)
    /\ UNCHANGED <<src, log, changes, tasks, cache, lock, attempt, lockLost,
                   tainted, floor>>

\* Mutant: the counter is decremented instead of deleted.
UnlockDecrements(p) ==
    /\ pc[p] = "unlock"
    /\ Finish(p)
    /\ lock' = IF lock = 0 THEN 0 ELSE lock - 1
    /\ UNCHANGED <<src, log, changes, tasks, cache, used, lockLost, tainted>>

\* cache.deleteMulti of the lock; its error is only logged.
Unlock(p) ==
    /\ pc[p] = "unlock"
    /\ Finish(p)
    /\ \/ lock' = 0 /\ UNCHANGED used
       \/ CrashFault /\ UNCHANGED lock
    /\ UNCHANGED <<src, log, changes, tasks, cache, lockLost, tainted>>

\* The instance dies, or the request exceeds its deadline: what it had
\* buffered is lost and memcache stays as it is.
Crash(p) ==
    /\ pc[p] # "idle"
    /\ CrashFault
    /\ Finish(p)
    /\ UNCHANGED <<src, log, changes, tasks, cache, lock, lockLost, tainted>>

-----------------------------------------------------------------------------
GetLatest(p) == ReadCache(p) \/ QueryLatest(p) \/ FillCache(p)

Sync(p) ==
    \/ Fetch(p) \/ StoreEventData(p) \/ Commit(p) \/ Conflict(p) \/ Abort(p)
    \/ Unlock(p)

Next ==
    \/ Publish
    \/ \E k \in Shard : Expire(k)
    \/ EvictLock
    \/ \E p \in Request : GetLatest(p) \/ Crash(p)
    \/ \E r \in Reader : StartRead(r) \/ Reply(r)
    \/ \E p \in Syncer : StartSync(p) \/ Sync(p)

Spec == Init /\ [][Next]_vars

\* A request that runs makes progress, cron starts a sync every 30 minutes,
\* an entry of memcache expires after an hour.
Fairness ==
    /\ \A p \in Syncer : WF_vars(StartSync(p)) /\ WF_vars(Sync(p))
    /\ \A p \in Request : WF_vars(GetLatest(p))
    /\ \A r \in Reader : WF_vars(Reply(r))
    /\ \A k \in Shard : WF_vars(Expire(k))

FairSpec == Spec /\ Fairness

-----------------------------------------------------------------------------
(* Properties.                                                             *)

\* The counter sync:gcs admits one sync at a time, whatever requests crash,
\* retry or return early, as long as memcache keeps the counter.
MutualExclusion ==
    ~lockLost => \A p, q \in Syncer : Holding(p) /\ Holding(q) => p = q

\* Each manifest is stored (hence announced) at most once and never after a
\* newer one, over retries, crashes and refused syncs, when the lock holds
\* and no reader put an outdated entity into the cache.
StoredOnce ==
    ~lockLost /\ ~tainted =>
        \A i, j \in 1..Len(log) : i < j => log[i].ts < log[j].ts

Announced(i, s) ==
    \E n \in 1..Len(changes) :
        /\ changes[n].ver = i
        /\ s \in DOMAIN changes[n].sessions
        /\ changes[n].sessions[s] = log[i].data[s]

\* The feed of changes is exactly what happened between successive stored
\* versions: each session that changed from one to the next is announced
\* with its new value, and nothing else is.
FeedFaithfulAt(i) ==
    \A s \in Session :
        s \in Changed(log[i - 1].data, log[i].data) <=> Announced(i, s)

FeedFaithful ==
    ~lockLost /\ ~tainted => \A i \in 2..Len(log) : FeedFaithfulAt(i)

\* The comment of syncEventData without the two conditions: the changes
\* between a version and the previous one are stored.
EveryChangeStored == \A i \in 2..Len(log) : FeedFaithfulAt(i)

\* No subscriber is told of a change that is not in the datastore: a task
\* exists only for a transaction that committed.
NotifiedAreStored ==
    \A n \in 1..Len(tasks) :
        /\ tasks[n].ver \in 1..Len(log)
        /\ \E m \in 1..Len(changes) : changes[m] = tasks[n]

\* What a request is served, or takes as its old version, has been committed:
\* uncommitted event data never leaves its transaction through memcache.
ServedIsCommitted ==
    /\ \A k \in Shard : cache[k] \in 0..Len(log)
    /\ \A p \in Request : old[p] \in 0..Len(log)

\* getLatestEventData "fetches most recent version": a reader is served event
\* data as recent as what was stored when its request began, unless a fill of
\* the cache raced with a store.
ReadsMostRecent ==
    ~tainted =>
        \A r \in Reader : pc[r] = "reply" =>
            \A i \in 1..floor[r] : Modified(log, old[r]) >= log[i].ts

LastIsStored == IsEmpty(src.data) \/ \A i \in Newest(log) : Modified(log, i) = src.ts

\* An instance died before it unlocked: the counter is set and nobody will delete it.
Abandoned == used["crashes"] > 0 /\ lock > 0 /\ \A p \in Syncer : ~Holding(p)

\* Cron syncs every 30 minutes: once the publisher stops, its last manifest gets
\* stored.
Converges == <>[]LastIsStored

\* It does over conflicts, errors, crashes and an evicted lock, unless an instance that
\* died has left the lock set for ever.
ConvergesUnlessAbandoned == <>[]LastIsStored \/ <>[]Abandoned

\* Once the publisher stops, no instance keeps serving an outdated version
\* from its key for ever.
CacheConverges ==
    <>[](IsEmpty(src.data)
         \/ \A k \in Shard : cache[k] = 0 \/ log[cache[k]].ts = src.ts)

-----------------------------------------------------------------------------
\* What the synchronisation promises to those who read its results.
Feed == INSTANCE ChangeFeed WITH log <- log, changes <- changes, tasks <- tasks
ImplementsFeed == Feed!Spec

=============================================================================
