--------------------------- MODULE OfflineWrites ---------------------------
(***************************************************************************)
(* Writes of the web app to the user's Firebase data, online and offline:  *)
(* app/scripts/helper/firebase.js (toggleSession, _setFirebaseData and the *)
(* replay of queued operations) with the rules that the database applies   *)
(* to my_sessions (firebase-security-rules.json).                          *)
(*                                                                         *)
(* A device is a browser with the app in one tab.  Its IndexedDB survives  *)
(* the page; the Firebase client, with the sets it has not got an answer   *)
(* for, and the promises waiting for them do not.  IndexedDB serves the    *)
(* requests of a page in order, and the Firebase client sends its sets in  *)
(* order and again after a reconnection.                                   *)
(***************************************************************************)
EXTENDS Integers, Sequences, SequencesExt, FiniteSets

CONSTANTS
    Device,
    Returning,   \* devices on which Firebase may remember the user of an earlier page
    Key,         \* data/<uid>/my_sessions/<session>
    NoKey,       \* of a request for all the entries
    NoWrite,     \* no entry, no data
    Skew,        \* local clock minus server clock of each device
    Window,      \* how far in the future the rules accept a timestamp
    MaxToggles,  \* bound: sessions added to or removed from the schedule
    MaxDrops,    \* bound: connections lost
    MaxCloses,   \* bound: pages closed
    MaxFaults    \* bound: errors of IndexedDB and of the calls of auth()

ASSUME DeviceAssumption ==
    /\ Returning \subseteq Device
    /\ Skew \in [Device -> Int]
    /\ Window \in Nat \ {0}
    /\ {MaxToggles, MaxDrops, MaxCloses, MaxFaults} \subseteq Nat
    /\ IsFiniteSet(Key) /\ NoKey \notin Key
    /\ NoWrite \notin [at : Nat, timestamp : Int]

VARIABLES
    now,         \* the server's clock; the toggles so far
    server,      \* the database
    late,        \* sets that left a page which is gone
    page,        \* how far the page of each device has got
    remembered,  \* auth() has begun, and Firebase remembers the user
    online,      \* whether the Firebase client is connected
    clockOffset,
    updates,     \* IndexedDB store firebase-updates: the queued operations
    idb,         \* requests to IndexedDB that are not done
    sets,        \* sets of the Firebase client without an answer
    answers,     \* the answers on their way, for the first of the sets
    used,        \* how much of each bound has been used
    last,        \* history: the last toggle of each session
    overlapping, \* history: keys with two operations at once in this page
    unsaved,     \* history: keys of an operation that missed IndexedDB
    exposed,     \* history: keys of overlapping operations when a page closed
    misdated     \* history: keys of an operation with a wrong timestamp

pageVars == <<page, remembered, online, clockOffset>>
history == <<last, overlapping, unsaved, exposed, misdated>>
vars == <<now, server, late, pageVars, updates, idb, sets, answers, used, history>>

\* A toggle is identified by the time it was made at.
Write == [at : Nat, timestamp : Int]
Operation == [kind : {"store", "set", "replay"}, key : Key, value : Write]
Request ==
    Operation \cup [kind : {"delete", "scan"}, key : Key \cup {NoKey}, value : {NoWrite}]

\* isAuthed(): firebaseRef is there, and authorized by this page or an earlier one.
Authed(d) ==
    \/ page[d] \in {"bump", "replay", "ready"}
    \/ page[d] \in {"cached", "clock"} /\ remembered[d]

-----------------------------------------------------------------------------
TypeOK ==
    /\ now \in Nat
    /\ server \in [Key -> Write \cup {NoWrite}]
    /\ late \subseteq [key : Key, value : Write]
    /\ page \in [Device -> {"closed", "offline", "cached", "clock", "bump",
                           "replay", "ready"}]
    /\ remembered \in [Device -> BOOLEAN]
    /\ online \in [Device -> BOOLEAN]
    /\ clockOffset \in [Device -> Int]
    /\ updates \in [Device -> [Key -> Write \cup {NoWrite}]]
    /\ idb \in [Device -> Seq(Request)]
    /\ sets \in [Device -> Seq(Operation)]
    /\ answers \in [Device -> Seq(BOOLEAN)]
    /\ used \in [{"drops", "closes", "faults"} -> Nat]
    /\ last \in [Key -> Write \cup {NoWrite}]
    /\ overlapping \in [Device -> SUBSET Key]
    /\ {unsaved, exposed, misdated} \subseteq SUBSET Key

Init ==
    /\ now = 0
    /\ server = [k \in Key |-> NoWrite]
    /\ late = {}
    /\ page = [d \in Device |-> "closed"]
    /\ remembered = [d \in Device |-> FALSE]
    /\ online = [d \in Device |-> FALSE]
    /\ clockOffset = [d \in Device |-> 0]
    /\ updates = [d \in Device |-> [k \in Key |-> NoWrite]]
    /\ idb = [d \in Device |-> <<>>]
    /\ sets = [d \in Device |-> <<>>]
    /\ answers = [d \in Device |-> <<>>]
    /\ used = [b \in {"drops", "closes", "faults"} |-> 0]
    /\ last = [k \in Key |-> NoWrite]
    /\ overlapping = [d \in Device |-> {}]
    /\ unsaved = {}
    /\ exposed = {}
    /\ misdated = {}

Use(bound, max) ==
    /\ used[bound] < max
    /\ used' = [used EXCEPT ![bound] = @ + 1]

Goto(d, stage) == page' = [page EXCEPT ![d] = stage]

\* The keys with an operation of _setFirebaseData under way.
KeysOf(requests) == {r.key : r \in requests}
UnderWay(d) ==
    KeysOf({r \in ToSet(idb[d]) : r.kind \in {"set", "replay"}} \cup ToSet(sets[d]))

-----------------------------------------------------------------------------
(* The page: opened with a cached user, then auth().                       *)

\* A page opened without a network has no means to sign in.
Open(d) ==
    /\ page[d] = "closed"
    /\ \/ Goto(d, "cached") /\ online' = [online EXCEPT ![d] = TRUE]
       \/ Goto(d, "offline") /\ UNCHANGED online
    /\ UNCHANGED <<now, server, late, remembered, clockOffset, updates, idb, sets,
                   answers, used, history>>

\* "Reload this page while online to apply it."
Reload(d) ==
    /\ page[d] = "offline"
    /\ idb[d] = <<>>
    /\ Goto(d, "cached")
    /\ online' = [online EXCEPT ![d] = TRUE]
    /\ UNCHANGED <<now, server, late, remembered, clockOffset, updates, idb, sets,
                   answers, used, history>>

\* auth() begins, with a firebaseRef that is authorized already: the session of an
\* earlier page.
Remember(d) ==
    /\ d \in Returning
    /\ page[d] = "cached"
    /\ ~remembered[d]
    /\ remembered' = [remembered EXCEPT ![d] = TRUE]
    /\ UNCHANGED <<now, server, late, page, online, clockOffset, updates, idb, sets,
                   answers, used, history>>

\* _setClockOffset
SetClockOffset(d) ==
    /\ page[d] = "cached"
    /\ online[d]
    /\ clockOffset' = [clockOffset EXCEPT ![d] = -Skew[d]]
    /\ Goto(d, "clock")
    /\ UNCHANGED <<now, server, late, remembered, online, updates, idb, sets, answers,
                   used, history>>

\* authWithOAuthToken; when it fails the error is caught and the user may
\* try to sign in again.
Authenticate(d) ==
    /\ page[d] = "clock"
    /\ online[d]
    /\ \/ Goto(d, "bump") /\ UNCHANGED used
       \/ Goto(d, "cached") /\ Use("faults", MaxFaults)
    /\ UNCHANGED <<now, server, late, remembered, online, clockOffset, updates, idb, sets,
                   answers, history>>

\* Mutant: nothing is replayed after a sign-in.
SkipReplay(d) ==
    /\ page[d] = "bump"
    /\ online[d]
    /\ Goto(d, "ready")
    /\ UNCHANGED <<now, server, late, remembered, online, clockOffset, updates, idb, sets,
                   answers, used, history>>

\* _bumpLastActivityTimestamp and the first step of _replayQueuedOperations,
\* which a failure of the former skips.
BumpLastActivity(d) ==
    /\ page[d] = "bump"
    /\ online[d]
    /\ \/ /\ Goto(d, "replay")
          /\ idb' = [idb EXCEPT ![d] =
                       Append(@, [kind |-> "scan", key |-> NoKey, value |-> NoWrite])]
          /\ UNCHANGED used
       \/ /\ Goto(d, "ready")
          /\ Use("faults", MaxFaults)
          /\ UNCHANGED idb
    /\ UNCHANGED <<now, server, late, remembered, online, clockOffset, updates, sets,
                   answers, history>>

-----------------------------------------------------------------------------
(* toggleSession and _setFirebaseUserData: queue, then set when authorized. *)
Toggle(d, k) ==
    LET w == [at |-> now + 1, timestamp |-> now + 1 + Skew[d] + clockOffset[d]]
    IN  /\ page[d] # "closed"
        /\ now < MaxToggles
        /\ now' = now + 1
        /\ idb' = [idb EXCEPT ![d] =
                     Append(@, [kind |-> IF Authed(d) THEN "set" ELSE "store",
                                key |-> k, value |-> w])]
        /\ overlapping' = [overlapping EXCEPT ![d] = @ \cup ({k} \cap UnderWay(d))]
        /\ last' = [last EXCEPT ![k] = w]
        /\ misdated' = IF w.timestamp = w.at THEN misdated ELSE misdated \cup {k}
        /\ UNCHANGED <<server, late, pageVars, updates, sets, answers, used,
                       unsaved, exposed>>

\* Mutant: an operation is queued only while the page is not authorized.
QueueOffline(d) ==
    /\ idb[d] # <<>>
    /\ LET r == Head(idb[d]) IN
         \/ /\ r.kind = "store"
            /\ updates' = [updates EXCEPT ![d][r.key] = r.value]
            /\ UNCHANGED sets
         \/ /\ r.kind \in {"set", "replay"}
            /\ sets' = [sets EXCEPT ![d] = Append(@, r)]
            /\ UNCHANGED updates
    /\ idb' = [idb EXCEPT ![d] = Tail(@)]
    /\ UNCHANGED <<now, server, late, pageVars, answers, used, history>>

\* The put of _queueOperation is done; an error of it is caught.  Then the
\* value is set, unless the page has only the cached user.
QueueOperation(d) ==
    /\ idb[d] # <<>>
    /\ LET r == Head(idb[d]) IN
         /\ r.kind \in {"store", "set", "replay"}
         /\ \/ /\ updates' = [updates EXCEPT ![d][r.key] = r.value]
               /\ UNCHANGED <<used, unsaved>>
            \/ /\ Use("faults", MaxFaults)
               /\ unsaved' = unsaved \cup {r.key}
               /\ UNCHANGED updates
         /\ \/ r.kind = "store" /\ UNCHANGED sets
            \/ r.kind # "store" /\ sets' = [sets EXCEPT ![d] = Append(@, r)]
    /\ idb' = [idb EXCEPT ![d] = Tail(@)]
    /\ UNCHANGED <<now, server, late, pageVars, answers, last,
                   overlapping, exposed, misdated>>

\* The delete of _dequeueOperation is done; an error of it is caught.
DequeueOperation(d) ==
    /\ idb[d] # <<>>
    /\ Head(idb[d]).kind = "delete"
    /\ \/ /\ updates' = [updates EXCEPT ![d][Head(idb[d]).key] = NoWrite]
          /\ UNCHANGED used
       \/ /\ Use("faults", MaxFaults)
          /\ UNCHANGED updates
    /\ idb' = [idb EXCEPT ![d] = Tail(@)]
    /\ UNCHANGED <<now, server, late, pageVars, sets, answers, history>>

\* Mutant: deleted entries are replayed too.
ReplayAll(d) ==
    /\ idb[d] # <<>>
    /\ Head(idb[d]).kind = "scan"
    /\ \E order \in SetToSeqs(Key) :
         idb' = [idb EXCEPT ![d] =
                   Tail(@) \o [i \in DOMAIN order |->
                      [kind |-> "replay", key |-> order[i], value |-> updates[d][order[i]]]]]
    /\ Goto(d, "ready")
    /\ UNCHANGED <<now, server, late, remembered, online, clockOffset, updates, sets,
                   answers, used, history>>

\* _replayQueuedOperations has read the queue and calls _setFirebaseData for
\* each entry, in any order, which queues the value again.
ReplayQueue(d) ==
    /\ idb[d] # <<>>
    /\ Head(idb[d]).kind = "scan"
    /\ LET queued == {k \in Key : updates[d][k] # NoWrite} IN
         /\ \E order \in SetToSeqs(queued) :
              idb' = [idb EXCEPT ![d] =
                        Tail(@) \o [i \in DOMAIN order |->
                           [kind |-> "replay", key |-> order[i],
                            value |-> updates[d][order[i]]]]]
         /\ overlapping' = [overlapping EXCEPT ![d] = @ \cup (queued \cap UnderWay(d))]
    /\ Goto(d, "ready")
    /\ UNCHANGED <<now, server, late, remembered, online, clockOffset, updates, sets,
                   answers, used, last, unsaved, exposed, misdated>>

-----------------------------------------------------------------------------
(* Firebase.                                                               *)

\* Mutant: the rule does not compare with the timestamp it replaces.
ValidUnlessFuture(k, w) == w.timestamp < now + Window

\* The rule of my_sessions/$session_id.
Valid(k, w) ==
    /\ server[k] # NoWrite => w.timestamp > server[k].timestamp
    /\ w.timestamp < now + Window

Store(k, w) ==
    server' = IF Valid(k, w) THEN [server EXCEPT ![k] = w] ELSE server

\* The server gets the first set it has not answered yet.
Deliver(d) ==
    /\ online[d]
    /\ Len(answers[d]) < Len(sets[d])
    /\ LET r == sets[d][Len(answers[d]) + 1] IN
         /\ Store(r.key, r.value)
         /\ answers' = [answers EXCEPT ![d] = Append(@, Valid(r.key, r.value))]
    /\ UNCHANGED <<now, late, pageVars, updates, idb, sets, used, history>>

\* The promise of a set is fulfilled or rejected; _setFirebaseData dequeues
\* the operation in both cases, and saveSession announces a retry in one.
Answer(d) ==
    /\ answers[d] # <<>>
    /\ LET r == Head(sets[d]) IN
         /\ idb' = [idb EXCEPT ![d] =
                      Append(@, [kind |-> "delete", key |-> r.key, value |-> NoWrite])]
    /\ sets' = [sets EXCEPT ![d] = Tail(@)]
    /\ answers' = [answers EXCEPT ![d] = Tail(@)]
    /\ UNCHANGED <<now, server, late, pageVars, updates, used, last,
                   overlapping, unsaved, exposed, misdated>>

\* goOnline and the network.
Connect(d) ==
    /\ page[d] \notin {"closed", "offline"}
    /\ ~online[d]
    /\ online' = [online EXCEPT ![d] = TRUE]
    /\ UNCHANGED <<now, server, late, page, remembered, clockOffset, updates, idb, sets,
                   answers, used, history>>

\* goOffline or a failure: answers are lost and sets will be sent again.
Disconnect(d) ==
    /\ online[d]
    /\ Use("drops", MaxDrops)
    /\ online' = [online EXCEPT ![d] = FALSE]
    /\ answers' = [answers EXCEPT ![d] = <<>>]
    /\ UNCHANGED <<now, server, late, page, remembered, clockOffset, updates, idb, sets,
                   history>>

\* The page is closed or crashes; the first of its sets may still arrive.
Close(d) ==
    /\ page[d] # "closed"
    /\ Use("closes", MaxCloses)
    /\ Goto(d, "closed")
    /\ remembered' = [remembered EXCEPT ![d] = FALSE]
    /\ online' = [online EXCEPT ![d] = FALSE]
    /\ clockOffset' = [clockOffset EXCEPT ![d] = 0]
    /\ \E n \in Len(answers[d])..Len(sets[d]) :
         /\ n > Len(answers[d]) => online[d]
         /\ late' = late \cup {[key |-> sets[d][i].key, value |-> sets[d][i].value] :
                              i \in Len(answers[d]) + 1 .. n}
    /\ unsaved' = unsaved \cup
         KeysOf({r \in ToSet(idb[d]) : r.kind \in {"store", "set"}})
    /\ exposed' = exposed \cup overlapping[d]
    /\ overlapping' = [overlapping EXCEPT ![d] = {}]
    /\ idb' = [idb EXCEPT ![d] = <<>>]
    /\ sets' = [sets EXCEPT ![d] = <<>>]
    /\ answers' = [answers EXCEPT ![d] = <<>>]
    /\ UNCHANGED <<now, server, updates, last, misdated>>

DeliverLate(s) ==
    /\ Store(s.key, s.value)
    /\ late' = late \ {s}
    /\ UNCHANGED <<now, pageVars, updates, idb, sets, answers, used, history>>

-----------------------------------------------------------------------------
ServeIndexedDB(d) == QueueOperation(d) \/ DequeueOperation(d) \/ ReplayQueue(d)

Next ==
    \/ \E d \in Device :
         \/ Open(d) \/ Reload(d) \/ Remember(d) \/ SetClockOffset(d)
         \/ Authenticate(d) \/ BumpLastActivity(d)
         \/ \E k \in Key : Toggle(d, k)
         \/ ServeIndexedDB(d)
         \/ Deliver(d) \/ Answer(d)
         \/ Connect(d) \/ Disconnect(d) \/ Close(d)
    \/ \E s \in late : DeliverLate(s)

Spec == Init /\ [][Next]_vars

\* The user comes back and signs in, connections and IndexedDB work again.
Fairness ==
    /\ \A d \in Device :
         /\ WF_vars(Open(d)) /\ WF_vars(Reload(d)) /\ WF_vars(Connect(d))
         /\ WF_vars(SetClockOffset(d)) /\ WF_vars(Authenticate(d))
         /\ WF_vars(BumpLastActivity(d)) /\ WF_vars(ServeIndexedDB(d))
         /\ WF_vars(Deliver(d)) /\ WF_vars(Answer(d))
    /\ WF_vars(\E s \in late : DeliverLate(s))

FairSpec == Spec /\ Fairness

-----------------------------------------------------------------------------
(* Properties.                                                             *)

Quiet ==
    /\ late = {}
    /\ \A d \in Device :
         /\ idb[d] = <<>> /\ sets[d] = <<>>
         /\ \A k \in Key : updates[d][k] = NoWrite

Settled(k) == last[k] # NoWrite => server[k] = last[k]

\* Once nothing is queued or under way, the database holds the last toggle
\* the user made of each session, on whichever device and whatever was
\* resent, replayed, delayed or interrupted -- except the sessions whose
\* toggle missed IndexedDB, overlapped with another one in a page that was
\* closed, or was dated with a clock that was not corrected: a replay keeps the
\* date, so clockOffset does not do all that its comment says.
LastToggleWins ==
    Quiet => \A k \in Key \ (unsaved \cup exposed \cup misdated) : Settled(k)

\* An operation that has no answer yet can be replayed by the next page: it
\* is in IndexedDB until it is answered, unless another one of the same page
\* has the same key, or an operation of that key missed IndexedDB.
UnansweredIsQueued ==
    \A d \in Device : \A i \in DOMAIN sets[d] :
        LET r == sets[d][i] IN
        r.key \notin overlapping[d] \cup unsaved => updates[d][r.key] = r.value

\* Without errors, the database eventually holds the last toggle for good.
Settles ==
    \A k \in Key : <>[](\/ used["faults"] > 0
                       \/ k \in unsaved \cup exposed \cup misdated
                       \/ Settled(k))

\* The comment of _queueOperation: an operation that is queued will be
\* eventually performed.
QueuedIsPerformed == Quiet => \A k \in Key \ (unsaved \cup misdated) : Settled(k)

=============================================================================
