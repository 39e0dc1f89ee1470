----------------------------- MODULE EventData -----------------------------
(***************************************************************************)
(* The values the schedule back end works on: versions of the event data   *)
(* as backend/db.go stores them and the difference between two versions as *)
(* backend/schedule.go computes it.  The content of a version is reduced   *)
(* to what the difference distinguishes: which sessions it contains, and   *)
(* whether the compared fields of a session are the same (one Value).      *)
(***************************************************************************)
EXTENDS Naturals, Sequences

CONSTANTS
    Session,    \* session IDs
    Value,      \* what compareSessions sees of a session
    Absent      \* not a Value: the session is not in that version

ASSUME AbsentAssumption == Absent \notin Value

Content == [Session -> Value \cup {Absent}]

\* An EventData entity: ts is the Last-Modified time of the manifest.
Entity == [ts : Nat \ {0}, data : Content]

IsEmpty(data) == \A s \in Session : data[s] = Absent

\* The committed entities form a log; an entity's position in it is its key
\* (and, hashed, its etag).  0 is the eventData{} returned when there is none.
Modified(log, id) == IF id = 0 THEN 0 ELSE log[id].ts
DataOf(log, id) == IF id = 0 THEN [s \in Session |-> Absent] ELSE log[id].data

\* The keys that the query Order("-ts").Limit(1) may return.
Newest(log) ==
    IF log = <<>> THEN {0}
    ELSE {i \in 1..Len(log) : \A j \in 1..Len(log) : log[j].ts <= log[i].ts}

\* diffEventData: only sessions that exist in both versions are compared.
Changed(a, b) ==
    {s \in Session : a[s] # Absent /\ b[s] # Absent /\ a[s] # b[s]}

\* A Changes entity (and the payload of a notify-subscribers task): the
\* entity it was computed for and the new values of the changed sessions.
ChangeRecord == [ver : Nat, sessions : UNION {[D -> Value] : D \in SUBSET Session}]
Change(id, a, b) == [ver |-> id, sessions |-> [s \in Changed(a, b) |-> b[s]]]

=============================================================================
