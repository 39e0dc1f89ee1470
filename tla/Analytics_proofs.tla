-------------------------- MODULE Analytics_proofs --------------------------
(***************************************************************************)
(* Proofs about Analytics, for any pings, pages and dimensions, versions   *)
(* of the worker, outages and killed workers.                              *)
(***************************************************************************)
EXTENDS Analytics, FiniteSetTheorems, SequenceTheorems, TLAPS

-----------------------------------------------------------------------------
(* What waits in the page.                                                 *)

\* The tracker that has page pg when it starts with the commands s has page x
\* after n of them.
LeadsTo(s, n, pg, x) ==
    \/ x = pg /\ \A k \in 1..n : s[k].page = None
    \/ \E j \in 1..n : /\ s[j].page = x /\ x # None
                       /\ \A k \in 1..n : j < k => s[k].page = None

\* Each hit of the commands s will have the page t it was tracked on.
Faithful(t, s, pg) ==
    \A i \in DOMAIN s : s[i].ping # None => LeadsTo(s, i, pg, t[s[i].ping])

\* It occurs once among them, and was not sent before.
Once(s) == \A i, j \in DOMAIN s : s[i].ping = s[j].ping /\ s[i].ping # None => i = j

Fresh(t, h, s) ==
    \A i \in DOMAIN s : s[i].ping # None => t[s[i].ping] # None /\ h[s[i].ping] = None

\* The commands s take the tracker from page pg to the page where the user is.
Orderly(t, h, s, pg, to) ==
    LeadsTo(s, Len(s), pg, to) /\ Faithful(t, s, pg) /\ Once(s) /\ Fresh(t, h, s)

OrderInv == Orderly(tracked, hits, commands \o waiting, page, path)

RejectionInv ==
    /\ \A i, j \in DOMAIN unhandledRejections :
         unhandledRejections[i] = unhandledRejections[j] => i = j
    /\ \A i \in DOMAIN unhandledRejections : tracked[unhandledRejections[i]] = None

\* The library gets hits only when the state is resolved, which the timeout or
\* the last dimension does.
ReadyInv ==
    /\ \A i \in DOMAIN commands : commands[i].ping # None => readyState
    /\ readyState => ~timeout \/ Dimension \subseteq dimensions

HitInv ==
    \A p \in Ping : hits[p] # None =>
        /\ tracked[p] # None /\ hits[p].page = tracked[p]
        /\ hits[p].complete \/ ~timeout

PageInv == OrderInv /\ RejectionInv /\ ReadyInv /\ HitInv

-----------------------------------------------------------------------------
(* What is on its way to the server.                                       *)

Fetched(p) == \E w \in Worker \cup {None} : <<w, p>> \in fetches
Written(p) == \E w \in Worker : <<w, p>> \in writes
Replayed(p) == \E r \in replays : r.ping = p

\* A ping that was sent is in one place, and only then.
Place(p) ==
    /\ \A v, w \in Worker \cup {None} : <<v, p>> \in fetches /\ <<w, p>> \in fetches => v = w
    /\ \A v, w \in Worker : <<v, p>> \in writes /\ <<w, p>> \in writes => v = w
    /\ Fetched(p) => ~Written(p) /\ p \notin queue /\ ~Replayed(p)
    /\ Written(p) => p \notin queue /\ ~Replayed(p)
    /\ hits[p] = None =>
         delivered[p] = 0 /\ ~Fetched(p) /\ ~Written(p) /\ p \notin queue /\ ~Replayed(p)
    /\ hits[p] # None =>
         delivered[p] > 0 \/ p \in lost \cup expired \cup queue \/ Fetched(p) \/ Written(p)
    /\ \A r \in replays : r.ping = p /\ r.answered => delivered[p] > 0

\* A ping that has arrived is not sent again: it is not under way and, if it is
\* still in the queue, about to be deleted.
Sole(p) ==
    /\ delivered[p] <= 1
    /\ \A r, s \in replays : r.ping = p /\ s.ping = p => r = s
    /\ delivered[p] > 0 => /\ ~Fetched(p) /\ ~Written(p)
                           /\ \A r \in replays : r.ping = p => r.answered
                           /\ p \in queue => Replayed(p)

Kept(p) == Place(p) /\ (p \notin repeatable => Sole(p))

KeptInv == \A p \in Ping : Kept(p)

IInv == TypeOK /\ PageInv /\ KeptInv

-----------------------------------------------------------------------------
(* Lemmas about sequences.                                                 *)

LEMMA ConcatFacts ==
    ASSUME NEW S, NEW s \in Seq(S), NEW t \in Seq(S)
    PROVE  /\ s \o t \in Seq(S)
           /\ Len(s \o t) = Len(s) + Len(t)
           /\ \A i \in DOMAIN s : (s \o t)[i] = s[i]
           /\ \A i \in DOMAIN t : (s \o t)[Len(s) + i] = t[i]
           /\ \A i \in DOMAIN (s \o t) :
                i \in DOMAIN s \/ \E j \in DOMAIN t : i = Len(s) + j
<1>1. Len(s) \in Nat /\ Len(t) \in Nat /\ DOMAIN s = 1..Len(s) /\ DOMAIN t = 1..Len(t)
  OBVIOUS
<1>2. s \o t \in Seq(S) /\ Len(s \o t) = Len(s) + Len(t) /\ DOMAIN (s \o t) = 1..Len(s) + Len(t)
  OBVIOUS
<1>3. \A i \in DOMAIN s : (s \o t)[i] = s[i]
  BY <1>1
<1>4. \A i \in DOMAIN t : (s \o t)[Len(s) + i] = t[i]
  BY <1>1
<1>5. ASSUME NEW i \in DOMAIN (s \o t), i \notin DOMAIN s PROVE \E j \in DOMAIN t : i = Len(s) + j
  <2>1. i - Len(s) \in DOMAIN t /\ i = Len(s) + (i - Len(s))
    BY <1>1, <1>2, <1>5
  <2> QED BY <2>1
<1> QED BY <1>2, <1>3, <1>4, <1>5

LEMMA TailFacts ==
    ASSUME NEW S, NEW s \in Seq(S), s # <<>>
    PROVE  /\ Tail(s) \in Seq(S) /\ Head(s) \in S /\ Head(s) = s[1] /\ 1 \in DOMAIN s
           /\ Len(Tail(s)) \in Nat /\ Len(s) = Len(Tail(s)) + 1
           /\ \A i \in DOMAIN Tail(s) : i + 1 \in DOMAIN s /\ Tail(s)[i] = s[i + 1]
OBVIOUS

LEMMA AppendFacts ==
    ASSUME NEW S, NEW s \in Seq(S), NEW e \in S
    PROVE  /\ Append(s, e) \in Seq(S) /\ <<e>> \in Seq(S)
           /\ Append(s, e) = s \o <<e>> /\ DOMAIN <<e>> = {1} /\ <<e>>[1] = e
OBVIOUS

LEMMA RemoveFacts ==
    ASSUME NEW S, NEW s \in Seq(S), NEW i \in DOMAIN s
    PROVE  /\ RemoveAt(s, i) \in Seq(S)
           /\ \A j \in DOMAIN RemoveAt(s, i) :
                /\ j < i => j \in DOMAIN s /\ RemoveAt(s, i)[j] = s[j]
                /\ j >= i => j + 1 \in DOMAIN s /\ RemoveAt(s, i)[j] = s[j + 1]
<1>1. Len(s) \in Nat /\ DOMAIN s = 1..Len(s) /\ i \in 1..Len(s)
  OBVIOUS
<1>a. /\ SubSeq(s, 1, i - 1) \in Seq(S) /\ Len(SubSeq(s, 1, i - 1)) = i - 1
      /\ \A j \in 1..i - 1 : SubSeq(s, 1, i - 1)[j] = s[j]
  BY <1>1
<1>b. /\ SubSeq(s, i + 1, Len(s)) \in Seq(S) /\ Len(SubSeq(s, i + 1, Len(s))) = Len(s) - i
      /\ \A j \in 1..Len(s) - i : SubSeq(s, i + 1, Len(s))[j] = s[i + j]
  BY <1>1
<1>2. PICK a : /\ a = SubSeq(s, 1, i - 1) /\ a \in Seq(S) /\ Len(a) = i - 1
               /\ \A j \in 1..i - 1 : a[j] = s[j]
  BY <1>a, Zenon
<1>3. PICK b : /\ b = SubSeq(s, i + 1, Len(s)) /\ b \in Seq(S) /\ Len(b) = Len(s) - i
               /\ \A j \in 1..Len(s) - i : b[j] = s[i + j]
  BY <1>b, Zenon
<1>4. RemoveAt(s, i) = a \o b
  BY <1>2, <1>3 DEF RemoveAt
<1>5. /\ a \o b \in Seq(S) /\ Len(a \o b) = Len(a) + Len(b)
      /\ \A j \in DOMAIN a : (a \o b)[j] = a[j]
      /\ \A j \in DOMAIN b : (a \o b)[Len(a) + j] = b[j]
  <2>1. a \in Seq(S) /\ b \in Seq(S)
    BY <1>2, <1>3
  <2>2. a \o b \in Seq(S)
    BY <2>1
  <2>3. Len(a \o b) = Len(a) + Len(b)
    BY <2>1
  <2>4. \A j \in DOMAIN a : (a \o b)[j] = a[j]
    BY <2>1
  <2>5. \A j \in DOMAIN b : (a \o b)[Len(a) + j] = b[j]
    BY <2>1, ConcatFacts
  <2> QED BY <2>2, <2>3, <2>4, <2>5
<1>6. DOMAIN a = 1..i - 1 /\ DOMAIN b = 1..Len(s) - i /\ DOMAIN (a \o b) = 1..Len(s) - 1
  BY <1>1, <1>2, <1>3, <1>5
<1>7. ASSUME NEW j \in 1..Len(s) - 1, j < i PROVE (a \o b)[j] = s[j]
  <2>1. j \in 1..i - 1
    BY <1>1, <1>7
  <2> QED BY <1>2, <1>5, <1>6, <2>1
<1>8. ASSUME NEW j \in 1..Len(s) - 1, j >= i PROVE (a \o b)[j] = s[j + 1]
  <2>1. PICK k \in 1..Len(s) - i : i + k = j + 1 /\ Len(a) + k = j
    <3>1. j + 1 - i \in 1..Len(s) - i /\ i + (j + 1 - i) = j + 1 /\ Len(a) + (j + 1 - i) = j
      BY <1>1, <1>2, <1>8
    <3> QED BY <3>1
  <2>2. (a \o b)[Len(a) + k] = b[k] /\ b[k] = s[i + k]
    BY <1>3, <1>5, <1>6
  <2> QED BY <2>1, <2>2
<1>9. \A j \in 1..Len(s) - 1 : (j < i => j \in DOMAIN s) /\ (j >= i => j + 1 \in DOMAIN s)
  BY <1>1
<1> QED BY <1>4, <1>5, <1>6, <1>7, <1>8, <1>9

-----------------------------------------------------------------------------
(* Types.                                                                  *)

LEMMA CommandFacts ==
    /\ <<>> \in Seq(Command)
    /\ None \notin Page /\ None \notin Ping /\ None \notin Dimension /\ None \notin Worker
    /\ \A d \in Dimension :
         /\ SetDimension(d) \in Command
         /\ SetDimension(d).dimension = d /\ SetDimension(d).ping = None
         /\ SetDimension(d).page = None
    /\ \A p \in Ping, x \in Page \cup {None} :
         /\ Send(p, x) \in Command
         /\ Send(p, x).dimension = None /\ Send(p, x).ping = p /\ Send(p, x).page = x
    /\ \A c \in Command :
         /\ c.ping \in Ping \cup {None} /\ c.page \in Page \cup {None}
         /\ c.dimension \in Dimension \cup {None}
         /\ c.dimension # None => c.ping = None /\ c.page = None
         /\ c.ping = None <=> c.dimension # None
BY AnalyticsAssumption DEF Command, SetDimension, Send, Worker

LEMMA InitType == Init => TypeOK
<1> SUFFICES ASSUME Init PROVE TypeOK
  OBVIOUS
<1> USE AnalyticsAssumption
<1>1. waiting \in Seq(Command)
  BY CommandFacts, AppendFacts DEF Init
<1>2. commands \in Seq(Command)
  <2> DEFINE D == Dimension \ {SignedIn}
  <2>1. Cardinality(D) \in Nat
    BY FS_Subset, FS_CardinalityType
  <2>2. PICK order \in SetToSeqs(D) : commands = [i \in DOMAIN order |-> SetDimension(order[i])]
    BY DEF Init
  <2>3. order \in [1..Cardinality(D) -> D]
    BY DEF SetToSeqs
  <2>4. commands \in [1..Cardinality(D) -> Command]
    BY <2>2, <2>3, CommandFacts
  <2>5. PICK n \in Nat : commands \in [1..n -> Command]
    BY <2>1, <2>4
  <2> QED BY <2>5
<1>3. hits \in [Ping -> {None} \cup [page : Page, complete : BOOLEAN]]
  BY DEF Init
<1>4. tracked \in [Ping -> Page \cup {None}] /\ delivered \in [Ping -> 0..2]
      /\ used \in [{"kills", "outages", "faults"} -> Nat] /\ unhandledRejections \in Seq(Ping)
  BY DEF Init
<1>5. /\ state \in [Worker -> {"new", "installing", "active", "redundant"}]
      /\ controller \in Worker \cup {None}
  <2>1. PICK w \in {1, None} : /\ state = [v \in Worker |-> IF v = w THEN "active" ELSE "new"]
                               /\ controller = w
    BY DEF Init
  <2> QED BY <2>1 DEF Worker
<1> QED BY <1>1, <1>2, <1>3, <1>4, <1>5 DEF Init, TypeOK

LEMMA TrackType ==
    ASSUME TypeOK, NEW calls \in Seq(Command), Track(calls)
    PROVE  /\ waiting' \in Seq(Command) /\ commands' \in Seq(Command)
           /\ readyState => waiting' = <<>>
<1>1. waiting \in Seq(Command) /\ commands \in Seq(Command) /\ (readyState => waiting = <<>>)
  BY DEF TypeOK
<1>2. CASE readyState /\ commands' = commands \o calls /\ waiting' = waiting
  BY <1>1, <1>2
<1>3. CASE ~readyState /\ waiting' = waiting \o calls /\ commands' = commands
  BY <1>1, <1>3
<1> QED BY <1>2, <1>3 DEF Track

LEMMA ResolveType ==
    ASSUME TypeOK, NEW rest \in Seq(Command), NEW later \in Seq(Command), Resolve(rest, later)
    PROVE  /\ readyState' \in BOOLEAN
           /\ waiting' \in Seq(Command) /\ commands' \in Seq(Command)
           /\ readyState' => waiting' = <<>>
BY ConcatFacts DEF TypeOK, Resolve

LEMMA RejectionCalls ==
    ASSUME TypeOK
    PROVE  LET calls == [i \in DOMAIN unhandledRejections |-> Send(unhandledRejections[i], None)]
           IN  /\ calls \in Seq(Command) /\ DOMAIN calls = DOMAIN unhandledRejections
               /\ \A i \in DOMAIN calls :
                    /\ unhandledRejections[i] \in Ping
                    /\ calls[i].ping = unhandledRejections[i] /\ calls[i].page = None
<1>1. PICK n \in Nat : DOMAIN unhandledRejections = 1..n /\ unhandledRejections \in [1..n -> Ping]
  BY DEF TypeOK
<1> DEFINE calls == [i \in DOMAIN unhandledRejections |-> Send(unhandledRejections[i], None)]
<1>2. calls \in [1..n -> Command]
  BY <1>1, CommandFacts
<1>3. calls \in Seq(Command)
  BY <1>2
<1> QED BY <1>1, <1>2, <1>3, CommandFacts

\* What the page does.
LEMMA TrackingType == TypeOK /\ Tracking => TypeOK'
<1> SUFFICES ASSUME TypeOK, Tracking PROVE TypeOK'
  OBVIOUS
<1> USE CommandFacts
<1>1. CASE ReadyTimeout
  <2>1. PICK later \in Seq(Command) : Resolve(commands, later)
    <3>1. \A p \in Ping : <<Send(p, None)>> \in Seq(Command)
      BY AppendFacts
    <3>2. CASE Resolve(commands, <<>>)
      BY <3>2
    <3>3. ASSUME NEW p \in Ping, Resolve(commands, <<Send(p, None)>>)
          PROVE  \E later \in Seq(Command) : Resolve(commands, later)
      BY <3>1, <3>3
    <3> QED BY <1>1, <3>2, <3>3 DEF ReadyTimeout
  <2>2. /\ readyState' \in BOOLEAN
        /\ waiting' \in Seq(Command) /\ commands' \in Seq(Command)
        /\ readyState' => waiting' = <<>>
    BY <2>1, ResolveType DEF TypeOK
  <2>3. tracked' \in [Ping -> Page \cup {None}]
    <3>1. \A p \in Ping : [tracked EXCEPT ![p] = path] \in [Ping -> Page \cup {None}]
      BY DEF TypeOK
    <3>2. tracked' = tracked \/ \E p \in Ping : tracked' = [tracked EXCEPT ![p] = path]
      BY <1>1 DEF ReadyTimeout
    <3>3. tracked \in [Ping -> Page \cup {None}]
      BY DEF TypeOK
    <3> QED BY <3>1, <3>2, <3>3
  <2> QED BY <1>1, <2>2, <2>3
        DEF ReadyTimeout, TypeOK, WorkersUnchanged, lifecycle, rejections
<1>2. CASE UpdateTracker
  <2>1. commands' \in Seq(Command)
    BY <1>2, AppendFacts, AnalyticsAssumption DEF UpdateTracker, TypeOK
  <2> QED BY <1>2, <2>1 DEF UpdateTracker, TypeOK, WorkersUnchanged, lifecycle, rejections
<1>3. CASE RunSet
  <2>1. Head(commands) \in Command /\ Tail(commands) \in Seq(Command)
    BY <1>3, TailFacts DEF RunSet, TypeOK
  <2>2. dimensions' \subseteq Dimension
    BY <1>3, <2>1 DEF RunSet, TypeOK
  <2>3. /\ readyState' \in BOOLEAN
        /\ waiting' \in Seq(Command) /\ commands' \in Seq(Command)
        /\ readyState' => waiting' = <<>>
    <3>1. CASE Resolve(Tail(commands), <<>>)
      BY <2>1, <3>1, ResolveType
    <3>2. CASE commands' = Tail(commands) /\ UNCHANGED <<readyState, waiting>>
      BY <2>1, <3>2 DEF TypeOK
    <3> QED BY <1>3, <3>1, <3>2 DEF RunSet
  <2> QED BY <1>3, <2>2, <2>3 DEF RunSet, TypeOK, WorkersUnchanged, lifecycle, rejections
<1>4. CASE RunSend
  <2>1. Head(commands) \in Command /\ Tail(commands) \in Seq(Command)
    BY <1>4, TailFacts DEF RunSend, TypeOK
  <2>2. Head(commands).ping \in Ping /\ page' \in Page
    BY <1>4, <2>1 DEF RunSend, TypeOK
  <2>3. hits' \in [Ping -> {None} \cup [page : Page, complete : BOOLEAN]]
    BY <1>4, <2>2 DEF RunSend, TypeOK
  <2>4. fetches' \subseteq (Worker \cup {None}) \X Ping
    BY <1>4, <2>2 DEF RunSend, TypeOK
  <2> QED BY <1>4, <2>1, <2>2, <2>3, <2>4
        DEF RunSend, TypeOK, WorkersUnchanged, lifecycle, rejections
<1>5. CASE LogRejectedPromises
  <2>1. waiting' \in Seq(Command) /\ commands' \in Seq(Command) /\ (readyState => waiting' = <<>>)
    BY <1>5, RejectionCalls, TrackType DEF LogRejectedPromises, TrackRejections
  <2>2. tracked' \in [Ping -> Page \cup {None}]
    BY <1>5 DEF LogRejectedPromises, TrackRejections, TypeOK
  <2>3. unhandledRejections' \in Seq(Ping)
    BY <1>5 DEF LogRejectedPromises
  <2> QED BY <1>5, <2>1, <2>2, <2>3
        DEF LogRejectedPromises, TypeOK, WorkersUnchanged, lifecycle
<1>6. ASSUME NEW p \in Ping, TrackPageView(p) PROVE TypeOK'
  <2>1. \A x \in Page : <<Send(p, x)>> \in Seq(Command)
    BY AppendFacts
  <2>2. waiting' \in Seq(Command) /\ commands' \in Seq(Command) /\ (readyState => waiting' = <<>>)
    BY <1>6, <2>1, TrackType DEF TrackPageView
  <2>3. path' \in Page /\ tracked' \in [Ping -> Page \cup {None}]
    BY <1>6 DEF TrackPageView, TypeOK
  <2> QED BY <1>6, <2>2, <2>3 DEF TrackPageView, TypeOK, WorkersUnchanged, lifecycle, rejections
<1>7. ASSUME NEW p \in Ping, TrackEvent(p) PROVE TypeOK'
  <2>1. <<Send(p, None)>> \in Seq(Command)
    BY AppendFacts
  <2>2. waiting' \in Seq(Command) /\ commands' \in Seq(Command) /\ (readyState => waiting' = <<>>)
    BY <1>7, <2>1, TrackType DEF TrackEvent
  <2>3. tracked' \in [Ping -> Page \cup {None}]
    BY <1>7 DEF TrackEvent, TypeOK
  <2> QED BY <1>7, <2>2, <2>3 DEF TrackEvent, TypeOK, WorkersUnchanged, lifecycle, rejections
<1>8. ASSUME NEW p \in Ping, Reject(p) PROVE TypeOK'
  <2>1. unhandledRejections' \in Seq(Ping)
    BY <1>8 DEF Reject, TypeOK
  <2> QED BY <1>8, <2>1 DEF Reject, TypeOK, WorkersUnchanged, lifecycle, tracker
<1>9. ASSUME NEW p \in Ping, RejectionHandled(p) PROVE TypeOK'
  <2>1. unhandledRejections' \in Seq(Ping)
    BY <1>9, RemoveFacts DEF RejectionHandled, TypeOK
  <2> QED BY <1>9, <2>1 DEF RejectionHandled, TypeOK, WorkersUnchanged, lifecycle, tracker
<1> QED BY <1>1, <1>2, <1>3, <1>4, <1>5, <1>6, <1>7, <1>8, <1>9 DEF Tracking

\* What the workers do.
LEMMA StartType ==
    ASSUME TypeOK, NEW w \in Worker, StartScript(w)
    PROVE  /\ running' \subseteq Worker /\ replays' \subseteq Replay
           /\ queue' \subseteq Ping /\ repeatable' \subseteq Ping
           /\ used' \in [{"kills", "outages", "faults"} -> Nat]
<1>1. queue \subseteq Ping /\ repeatable \subseteq Ping
  BY DEF TypeOK
<1>2. [worker : {w}, ping : queue, answered : {FALSE}] \subseteq Replay
  BY <1>1 DEF Replay
<1>3. used' \in [{"kills", "outages", "faults"} -> Nat]
  <2>1. used \in [{"kills", "outages", "faults"} -> Nat]
    BY DEF TypeOK
  <2>2. used' = used \/ used' = [used EXCEPT !["faults"] = @ + 1]
    BY DEF StartScript, Use
  <2> QED BY <2>1, <2>2
<1> QED BY <1>1, <1>2, <1>3 DEF StartScript, TypeOK

LEMMA StopType ==
    ASSUME TypeOK, NEW w \in Worker, StopScript(w)
    PROVE  /\ running' \subseteq Worker /\ replays' \subseteq Replay
           /\ fetches' \subseteq (Worker \cup {None}) \X Ping /\ writes' \subseteq Worker \X Ping
           /\ lost' \subseteq Ping /\ repeatable' \subseteq Ping
<1>1. replays \subseteq Replay /\ lost \subseteq Ping /\ repeatable \subseteq Ping
  BY DEF TypeOK
<1>2. \A r \in replays : r.ping \in Ping
  BY <1>1 DEF Replay
<1> QED BY <1>1, <1>2 DEF StopScript, TypeOK

LEMMA LifecycleType == ASSUME TypeOK, NEW w \in Worker, Lifecycle(w) PROVE TypeOK'
<1>1. CASE Start(w)
  BY <1>1, StartType DEF Start, TypeOK, tracker, rejections
<1>2. CASE Install(w)
  <2>1. state' \in [Worker -> {"new", "installing", "active", "redundant"}]
    BY <1>2 DEF Install, TypeOK
  <2> QED BY <1>2, <2>1, StartType DEF Install, TypeOK, tracker, rejections
<1>3. CASE Stop(w)
  BY <1>3, StopType DEF Stop, StopScript, TypeOK, tracker, rejections
<1>4. CASE Kill(w)
  <2>1. state' \in [Worker -> {"new", "installing", "active", "redundant"}]
    BY <1>4 DEF Kill, TypeOK
  <2>2. used' \in [{"kills", "outages", "faults"} -> Nat]
    BY <1>4 DEF Kill, Use, TypeOK
  <2>3. StopScript(w)
    BY <1>4 DEF Kill
  <2> QED BY <2>1, <2>2, <2>3, StopType DEF StopScript, TypeOK, tracker, rejections
<1> QED BY <1>1, <1>2, <1>3, <1>4 DEF Lifecycle

LEMMA DeliverType ==
    ASSUME TypeOK, NEW p \in Ping, Deliver(p)
    PROVE  delivered' \in [Ping -> 0..2]
BY DEF TypeOK, Deliver

LEMMA DeliveryType == TypeOK /\ Delivery => TypeOK'
<1> SUFFICES ASSUME TypeOK, Delivery PROVE TypeOK'
  OBVIOUS
<1> USE DEF lifecycle, tracker, rejections, queues
<1>1. ASSUME NEW w \in Worker, Activate(w) \/ InstallFails(w) PROVE TypeOK'
  <2>1. state' \in [Worker -> {"new", "installing", "active", "redundant"}]
    BY <1>1 DEF Activate, InstallFails, TypeOK
  <2> QED BY <1>1, <2>1 DEF Activate, InstallFails, TypeOK
<1>2. ASSUME NEW w \in Worker \cup {None}, NEW p \in Ping, PingAnswered(w, p) PROVE TypeOK'
  BY <1>2, DeliverType DEF PingAnswered, TypeOK
<1>3. ASSUME NEW w \in Worker \cup {None}, NEW p \in Ping, PingFails(w, p) PROVE TypeOK'
  <2>1. delivered' \in [Ping -> 0..2] /\ repeatable' \subseteq Ping
    BY <1>3, DeliverType DEF PingFails, TypeOK
  <2>2. writes' \subseteq Worker \X Ping /\ lost' \subseteq Ping
    BY <1>3 DEF PingFails, TypeOK
  <2> QED BY <1>3, <2>1, <2>2 DEF PingFails, TypeOK
<1>4. ASSUME NEW w \in Worker, NEW p \in Ping, StoreQueued(w, p) PROVE TypeOK'
  <2>1. used' \in [{"kills", "outages", "faults"} -> Nat]
    BY <1>4 DEF StoreQueued, Use, TypeOK
  <2>2. queue' \subseteq Ping /\ lost' \subseteq Ping
    BY <1>4 DEF StoreQueued, TypeOK
  <2> QED BY <1>4, <2>1, <2>2 DEF StoreQueued, TypeOK
<1>5. ASSUME NEW r \in replays, ReplayAnswered(r) \/ DeleteReplayed(r) \/ ReplayFails(r)
      PROVE  TypeOK'
  <2>1. r \in Replay /\ r.ping \in Ping /\ replays \subseteq Replay
    BY DEF TypeOK, Replay
  <2>2. CASE ReplayAnswered(r)
    <3>1. [r EXCEPT !.answered = TRUE] \in Replay
      BY <2>1 DEF Replay
    <3> QED BY <2>1, <2>2, <3>1, DeliverType DEF ReplayAnswered, TypeOK
  <2>3. CASE DeleteReplayed(r)
    <3>1. used' \in [{"kills", "outages", "faults"} -> Nat]
      BY <2>3 DEF DeleteReplayed, Use, TypeOK
    <3>2. queue' \subseteq Ping /\ repeatable' \subseteq Ping
      BY <2>1, <2>3 DEF DeleteReplayed, TypeOK
    <3> QED BY <2>3, <3>1, <3>2 DEF DeleteReplayed, TypeOK
  <2>4. CASE ReplayFails(r)
    <3>1. delivered' \in [Ping -> 0..2] /\ repeatable' \subseteq Ping
      BY <2>1, <2>4, DeliverType DEF ReplayFails, TypeOK
    <3>2. queue' \subseteq Ping /\ expired' \subseteq Ping
      BY <2>1, <2>4 DEF ReplayFails, TypeOK
    <3> QED BY <2>1, <2>4, <3>1, <3>2 DEF ReplayFails, TypeOK
  <2> QED BY <1>5, <2>2, <2>3, <2>4
<1> QED BY <1>1, <1>2, <1>3, <1>4, <1>5 DEF Delivery, Work

LEMMA NetworkType == TypeOK /\ (Disconnect \/ Connect \/ UNCHANGED vars) => TypeOK'
<1> USE DEF TypeOK, vars, lifecycle, tracker, rejections, queues
<1>1. TypeOK /\ Disconnect => TypeOK'
  <2> SUFFICES ASSUME TypeOK, Disconnect PROVE TypeOK'
    OBVIOUS
  <2>1. used' \in [{"kills", "outages", "faults"} -> Nat]
    BY DEF Disconnect, Use
  <2> QED BY <2>1 DEF Disconnect
<1>2. TypeOK /\ Connect => TypeOK'
  BY DEF Connect
<1>3. TypeOK /\ UNCHANGED vars => TypeOK'
  OBVIOUS
<1> QED BY <1>1, <1>2, <1>3

LEMMA TypeStep == TypeOK /\ [Next]_vars => TypeOK'
BY TrackingType, LifecycleType, DeliveryType, NetworkType DEF Next

\* Every variable keeps its type: what waits is nothing once the ready state is
\* resolved, and the counters and sets hold what they should.
THEOREM TypeCorrect == Spec => []TypeOK
BY InitType, TypeStep, PTL DEF Spec

-----------------------------------------------------------------------------
(* Lemmas about what the commands do to the page of the tracker.           *)

LEMMA LeadsToConcat ==
    ASSUME NEW s \in Seq(Command), NEW t \in Seq(Command), NEW pg, NEW m \in Page, NEW x,
           NEW n \in 0..Len(t), LeadsTo(s, Len(s), pg, m), LeadsTo(t, n, m, x)
    PROVE  LeadsTo(s \o t, Len(s) + n, pg, x)
<1>1. /\ Len(s) \in Nat /\ Len(t) \in Nat /\ DOMAIN s = 1..Len(s) /\ DOMAIN t = 1..Len(t)
      /\ \A i \in 1..Len(s) : (s \o t)[i] = s[i]
      /\ \A i \in 1..n : (s \o t)[Len(s) + i] = t[i]
  BY ConcatFacts
<1>2. \A k \in 1..(Len(s) + n) : k \in 1..Len(s) \/ \E i \in 1..n : k = Len(s) + i
  <2>1. \A k \in 1..(Len(s) + n) : k \notin 1..Len(s) => k - Len(s) \in 1..n /\ k = Len(s) + (k - Len(s))
    BY <1>1
  <2> QED BY <2>1
<1>3. CASE \E j \in 1..n : /\ t[j].page = x /\ x # None
                           /\ \A k \in 1..n : j < k => t[k].page = None
  <2>1. PICK j \in 1..n : /\ t[j].page = x /\ x # None
                          /\ \A k \in 1..n : j < k => t[k].page = None
    BY <1>3
  <2>2. Len(s) + j \in 1..(Len(s) + n) /\ (s \o t)[Len(s) + j].page = x
    BY <1>1, <2>1
  <2>3. ASSUME NEW k \in 1..(Len(s) + n), Len(s) + j < k PROVE (s \o t)[k].page = None
    <3>0. k \notin 1..Len(s)
      BY <1>1, <2>3
    <3>1. PICK i \in 1..n : k = Len(s) + i
      BY <1>2, <3>0
    <3>2. j < i
      BY <1>1, <2>3, <3>1
    <3> QED BY <1>1, <2>1, <3>1, <3>2
  <2> QED BY <2>1, <2>2, <2>3 DEF LeadsTo
<1>4. CASE x = m /\ \A k \in 1..n : t[k].page = None
  <2>1. CASE m = pg /\ \A k \in 1..Len(s) : s[k].page = None
    <3>1. \A k \in 1..(Len(s) + n) : (s \o t)[k].page = None
      BY <1>1, <1>2, <1>4, <2>1
    <3> QED BY <1>4, <2>1, <3>1 DEF LeadsTo
  <2>2. CASE \E j \in 1..Len(s) : /\ s[j].page = m /\ m # None
                                  /\ \A k \in 1..Len(s) : j < k => s[k].page = None
    <3>1. PICK j \in 1..Len(s) : /\ s[j].page = m /\ m # None
                                 /\ \A k \in 1..Len(s) : j < k => s[k].page = None
      BY <2>2
    <3>2. j \in 1..(Len(s) + n) /\ (s \o t)[j].page = x
      BY <1>1, <1>4, <3>1
    <3>3. ASSUME NEW k \in 1..(Len(s) + n), j < k PROVE (s \o t)[k].page = None
      BY <1>1, <1>2, <1>4, <3>1, <3>3
    <3> QED BY <1>4, <3>1, <3>2, <3>3 DEF LeadsTo
  <2> QED BY <2>1, <2>2 DEF LeadsTo
<1> QED BY <1>3, <1>4 DEF LeadsTo

LEMMA LeadsToPrefix ==
    ASSUME NEW s \in Seq(Command), NEW t \in Seq(Command), NEW pg, NEW x,
           NEW n \in 0..Len(s), LeadsTo(s, n, pg, x)
    PROVE  LeadsTo(s \o t, n, pg, x)
<1>1. \A i \in 1..n : (s \o t)[i] = s[i]
  OBVIOUS
<1> QED BY <1>1 DEF LeadsTo

LEMMA LeadsToTail ==
    ASSUME NEW s \in Seq(Command), s # <<>>, NEW pg, NEW x, NEW n \in Nat, n + 1 \in DOMAIN s,
           LeadsTo(s, n + 1, pg, x)
    PROVE  LeadsTo(Tail(s), n, IF s[1].page = None THEN pg ELSE s[1].page, x)
<1>1. \A i \in 1..n : i + 1 \in 1..n + 1 /\ Tail(s)[i] = s[i + 1]
  OBVIOUS
<1>2. CASE x = pg /\ \A k \in 1..n + 1 : s[k].page = None
  BY <1>1, <1>2 DEF LeadsTo
<1>3. CASE \E j \in 1..n + 1 : /\ s[j].page = x /\ x # None
                               /\ \A k \in 1..n + 1 : j < k => s[k].page = None
  <2>1. PICK j \in 1..n + 1 : /\ s[j].page = x /\ x # None
                              /\ \A k \in 1..n + 1 : j < k => s[k].page = None
    BY <1>3
  <2>2. CASE j = 1
    BY <1>1, <2>1, <2>2 DEF LeadsTo
  <2>3. CASE j # 1
    <3>1. PICK i \in 1..n : j = i + 1
      <4>1. j - 1 \in 1..n /\ j = (j - 1) + 1
        BY <2>3
      <4> QED BY <4>1
    <3>2. Tail(s)[i].page = x /\ \A k \in 1..n : i < k => Tail(s)[k].page = None
      BY <1>1, <2>1, <3>1
    <3> QED BY <2>1, <3>2 DEF LeadsTo
  <2> QED BY <2>2, <2>3
<1> QED BY <1>2, <1>3 DEF LeadsTo

LEMMA LeadsToFirst ==
    ASSUME NEW s \in Seq(Command), s # <<>>, NEW pg, NEW x, LeadsTo(s, 1, pg, x)
    PROVE  x = IF s[1].page = None THEN pg ELSE s[1].page
BY DEF LeadsTo

\* What is tracked last is sent last, on the page where the user was.
LEMMA OrderlyTrack ==
    ASSUME NEW t, NEW h, NEW s \in Seq(Command), NEW pg, NEW m \in Page, NEW to, NEW u,
           NEW calls \in Seq(Command),
           Orderly(t, h, s, pg, m),
           LeadsTo(calls, Len(calls), m, to), Once(calls),
           \A i \in DOMAIN calls : calls[i].ping # None =>
               /\ t[calls[i].ping] = None /\ h[calls[i].ping] = None /\ u[calls[i].ping] # None
               /\ LeadsTo(calls, i, m, u[calls[i].ping]),
           \A i \in DOMAIN s : s[i].ping # None /\ t[s[i].ping] # None => u[s[i].ping] = t[s[i].ping]
    PROVE  Orderly(u, h, s \o calls, pg, to)
<1> DEFINE q == s \o calls
<1>1. /\ Len(s) \in Nat /\ DOMAIN s = 1..Len(s) /\ Len(calls) \in Nat /\ DOMAIN calls = 1..Len(calls)
      /\ Len(q) = Len(s) + Len(calls)
      /\ \A i \in DOMAIN s : q[i] = s[i]
      /\ \A i \in DOMAIN calls : q[Len(s) + i] = calls[i]
      /\ \A i \in DOMAIN q : i \in DOMAIN s \/ \E j \in DOMAIN calls : i = Len(s) + j
  BY ConcatFacts
<1>2. LeadsTo(q, Len(q), pg, to)
  BY <1>1, LeadsToConcat DEF Orderly
<1>3. Faithful(u, q, pg)
  <2> SUFFICES ASSUME NEW i \in DOMAIN q, q[i].ping # None
               PROVE  LeadsTo(q, i, pg, u[q[i].ping])
    BY DEF Faithful
  <2>1. CASE i \in DOMAIN s
    <3>1. LeadsTo(s, i, pg, t[s[i].ping]) /\ t[s[i].ping] # None
      BY <1>1, <2>1 DEF Orderly, Faithful, Fresh
    <3>2. LeadsTo(q, i, pg, t[s[i].ping])
      BY <1>1, <2>1, <3>1, LeadsToPrefix
    <3> QED BY <1>1, <2>1, <3>1, <3>2
  <2>2. ASSUME NEW j \in DOMAIN calls, i = Len(s) + j PROVE LeadsTo(q, i, pg, u[q[i].ping])
    <3>1. LeadsTo(calls, j, m, u[calls[j].ping]) /\ j \in 0..Len(calls)
      BY <1>1, <2>2
    <3>2. LeadsTo(q, Len(s) + j, pg, u[calls[j].ping])
      BY <3>1, LeadsToConcat DEF Orderly
    <3> QED BY <1>1, <2>2, <3>2
  <2> QED BY <1>1, <2>1, <2>2
<1>4. Once(q)
  <2> SUFFICES ASSUME NEW i \in DOMAIN q, NEW j \in DOMAIN q, q[i].ping = q[j].ping, q[i].ping # None
               PROVE  i = j
    BY DEF Once
  <2>1. CASE i \in DOMAIN s /\ j \in DOMAIN s
    BY <1>1, <2>1 DEF Orderly, Once
  <2>2. ASSUME NEW k \in DOMAIN s, NEW l \in DOMAIN calls PROVE ~(s[k].ping = calls[l].ping /\ s[k].ping # None)
    BY DEF Orderly, Fresh
  <2>3. ASSUME NEW k \in DOMAIN calls, NEW l \in DOMAIN calls, i = Len(s) + k, j = Len(s) + l PROVE i = j
    BY <1>1, <2>3 DEF Once
  <2> QED BY <1>1, <2>1, <2>2, <2>3
<1>5. Fresh(u, h, q)
  <2> SUFFICES ASSUME NEW i \in DOMAIN q, q[i].ping # None
               PROVE  u[q[i].ping] # None /\ h[q[i].ping] = None
    BY DEF Fresh
  <2>1. CASE i \in DOMAIN s
    BY <1>1, <2>1 DEF Orderly, Fresh
  <2>2. CASE \E j \in DOMAIN calls : i = Len(s) + j
    BY <1>1, <2>2
  <2> QED BY <1>1, <2>1, <2>2
<1> QED BY <1>2, <1>3, <1>4, <1>5 DEF Orderly

\* A command that runs is the first one; the page it sets is the one the rest starts from.
LEMMA OrderlyTail ==
    ASSUME NEW t, NEW h, NEW s \in Seq(Command), s # <<>>, NEW pg, NEW to, NEW g,
           Orderly(t, h, s, pg, to),
           \A p \in Ping : p # s[1].ping => g[p] = h[p]
    PROVE  Orderly(t, g, Tail(s), IF s[1].page = None THEN pg ELSE s[1].page, to)
<1>1. /\ Tail(s) \in Seq(Command) /\ 1 \in DOMAIN s
      /\ Len(Tail(s)) \in Nat /\ Len(s) = Len(Tail(s)) + 1
      /\ \A i \in DOMAIN Tail(s) : /\ i \in Nat /\ i + 1 \in DOMAIN s /\ i + 1 # 1
                                   /\ Tail(s)[i] = s[i + 1]
  BY TailFacts
<1>2. LeadsTo(Tail(s), Len(Tail(s)), IF s[1].page = None THEN pg ELSE s[1].page, to)
  <2>1. Len(Tail(s)) + 1 \in DOMAIN s
    BY <1>1
  <2> QED BY <1>1, <2>1, LeadsToTail DEF Orderly
<1>3. Faithful(t, Tail(s), IF s[1].page = None THEN pg ELSE s[1].page)
  <2> SUFFICES ASSUME NEW i \in DOMAIN Tail(s), Tail(s)[i].ping # None
               PROVE  LeadsTo(Tail(s), i, IF s[1].page = None THEN pg ELSE s[1].page, t[Tail(s)[i].ping])
    BY DEF Faithful
  <2>1. LeadsTo(s, i + 1, pg, t[s[i + 1].ping])
    BY <1>1 DEF Orderly, Faithful
  <2> QED BY <1>1, <2>1, LeadsToTail
<1>4. Once(Tail(s))
  <2> SUFFICES ASSUME NEW i \in DOMAIN Tail(s), NEW j \in DOMAIN Tail(s),
                      Tail(s)[i].ping = Tail(s)[j].ping, Tail(s)[i].ping # None
               PROVE  i = j
    BY DEF Once
  <2>1. i + 1 = j + 1
    BY <1>1 DEF Orderly, Once
  <2> QED BY <1>1, <2>1
<1>5. Fresh(t, g, Tail(s))
  <2> SUFFICES ASSUME NEW i \in DOMAIN Tail(s), Tail(s)[i].ping # None
               PROVE  t[Tail(s)[i].ping] # None /\ g[Tail(s)[i].ping] = None
    BY DEF Fresh
  <2>1. Tail(s)[i].ping = s[i + 1].ping /\ s[i + 1].ping # s[1].ping
    BY <1>1 DEF Orderly, Once
  <2>2. s[i + 1].ping \in Ping
    BY <1>1, <2>1, CommandFacts
  <2> QED BY <1>1, <2>1, <2>2 DEF Orderly, Fresh
<1> QED BY <1>2, <1>3, <1>4, <1>5 DEF Orderly

\* A dimension may be set at any time.
LEMMA OrderlyInsert ==
    ASSUME NEW t, NEW h, NEW s \in Seq(Command), NEW w \in Seq(Command), NEW pg, NEW to,
           NEW d \in Dimension, Orderly(t, h, s \o w, pg, to)
    PROVE  Orderly(t, h, Append(s, SetDimension(d)) \o w, pg, to)
<1> DEFINE e == SetDimension(d)
           a == s \o w
           q == Append(s, e) \o w
<1>1. /\ Len(s) \in Nat /\ Len(w) \in Nat /\ Len(a) = Len(s) + Len(w) /\ Len(q) = Len(s) + 1 + Len(w)
      /\ DOMAIN a = 1..Len(s) + Len(w) /\ DOMAIN q = 1..Len(s) + 1 + Len(w)
  BY CommandFacts
<1>2. /\ e.ping = None /\ e.page = None
      /\ q[Len(s) + 1] = e
      /\ \A i \in 1..Len(s) : q[i] = a[i]
      /\ \A i \in Len(s) + 1..Len(s) + Len(w) : q[i + 1] = a[i]
  BY CommandFacts
<1>3. Orderly(t, h, a, pg, to)
  OBVIOUS
<1> HIDE DEF e, a, q
\* Where a command that is not the new one was.
<1>4. \A i \in DOMAIN q : i # Len(s) + 1 =>
        \E j \in DOMAIN a : q[i] = a[j] /\ i = IF j <= Len(s) THEN j ELSE j + 1
  <2> SUFFICES ASSUME NEW i \in DOMAIN q, i # Len(s) + 1
               PROVE  \E j \in DOMAIN a : q[i] = a[j] /\ i = IF j <= Len(s) THEN j ELSE j + 1
    OBVIOUS
  <2>1. CASE i <= Len(s)
    BY <1>1, <1>2, <2>1
  <2>2. CASE i > Len(s)
    <3>1. PICK j : j = i - 1
      OBVIOUS
    <3>2. j \in Len(s) + 1..Len(s) + Len(w) /\ i = j + 1
      BY <1>1, <2>2, <3>1
    <3> QED BY <1>1, <1>2, <3>2
  <2> QED BY <1>1, <2>1, <2>2
<1>5. ASSUME NEW j \in 0..Len(a), NEW i \in Nat, (j <= Len(s) /\ i = j) \/ (j >= Len(s) /\ i = j + 1),
             NEW x, LeadsTo(a, j, pg, x)
      PROVE  LeadsTo(q, i, pg, x)
  <2>1. \A k \in 1..i : k # Len(s) + 1 =>
          \E l \in 1..j : q[k] = a[l] /\ k = IF l <= Len(s) THEN l ELSE l + 1
    <3> SUFFICES ASSUME NEW k \in 1..i, k # Len(s) + 1
                 PROVE  \E l \in 1..j : q[k] = a[l] /\ k = IF l <= Len(s) THEN l ELSE l + 1
      OBVIOUS
    <3>1. k \in DOMAIN q
      BY <1>1, <1>5
    <3>2. PICK l \in DOMAIN a : q[k] = a[l] /\ k = IF l <= Len(s) THEN l ELSE l + 1
      BY <1>4, <3>1
    <3>3. l \in 1..j
      BY <1>1, <1>5, <3>2
    <3> QED BY <3>2, <3>3
  <2>2. CASE x = pg /\ \A k \in 1..j : a[k].page = None
    <3>1. \A k \in 1..i : q[k].page = None
      BY <1>2, <2>1, <2>2
    <3> QED BY <2>2, <3>1 DEF LeadsTo
  <2>3. CASE \E l \in 1..j : /\ a[l].page = x /\ x # None
                             /\ \A k \in 1..j : l < k => a[k].page = None
    <3>1. PICK l \in 1..j : /\ a[l].page = x /\ x # None
                            /\ \A k \in 1..j : l < k => a[k].page = None
      BY <2>3
    <3>2. PICK n : n = IF l <= Len(s) THEN l ELSE l + 1
      OBVIOUS
    <3>3. n \in 1..i /\ q[n] = a[l]
      BY <1>1, <1>2, <1>5, <3>1, <3>2
    <3>4. ASSUME NEW k \in 1..i, n < k PROVE q[k].page = None
      <4>1. CASE k = Len(s) + 1
        BY <1>2, <4>1
      <4>2. CASE k # Len(s) + 1
        <5>1. PICK m \in 1..j : q[k] = a[m] /\ k = IF m <= Len(s) THEN m ELSE m + 1
          BY <2>1, <4>2
        <5>2. l < m
          BY <1>1, <3>1, <3>2, <3>4, <5>1
        <5> QED BY <3>1, <5>1, <5>2
      <4> QED BY <4>1, <4>2
    <3> QED BY <3>1, <3>3, <3>4 DEF LeadsTo
  <2> QED BY <1>5, <2>2, <2>3 DEF LeadsTo
<1>6. LeadsTo(q, Len(q), pg, to)
  <2>1. PICK j : j = Len(a)
    OBVIOUS
  <2>2. LeadsTo(a, j, pg, to) /\ j \in 0..Len(a) /\ Len(q) = j + 1 /\ j >= Len(s)
    BY <1>1, <1>3, <2>1 DEF Orderly
  <2> QED BY <1>1, <1>5, <2>2
<1>7. ASSUME NEW i \in DOMAIN q, q[i].ping # None
      PROVE  /\ \E j \in DOMAIN a : q[i] = a[j] /\ i = IF j <= Len(s) THEN j ELSE j + 1
             /\ LeadsTo(q, i, pg, t[q[i].ping])
             /\ t[q[i].ping] # None /\ h[q[i].ping] = None
  <2>1. i # Len(s) + 1
    BY <1>2, <1>7
  <2>2. PICK j \in DOMAIN a : q[i] = a[j] /\ i = IF j <= Len(s) THEN j ELSE j + 1
    BY <1>4, <2>1
  <2>3. LeadsTo(a, j, pg, t[a[j].ping]) /\ t[a[j].ping] # None /\ h[a[j].ping] = None
    BY <1>3, <1>7, <2>2 DEF Orderly, Faithful, Fresh
  <2>4. j \in 0..Len(a)
    BY <1>1
  <2>5. LeadsTo(q, i, pg, t[q[i].ping])
    <3>1. PICK x : x = t[a[j].ping]
      OBVIOUS
    <3>2. LeadsTo(a, j, pg, x)
      BY <2>3, <3>1
    <3>3. i \in Nat /\ ((j <= Len(s) /\ i = j) \/ (j >= Len(s) /\ i = j + 1))
      BY <1>1, <2>2
    <3>4. LeadsTo(q, i, pg, x)
      BY <1>5, <2>4, <3>2, <3>3
    <3> QED BY <2>2, <3>1, <3>4
  <2> QED BY <2>2, <2>3, <2>5
<1>8. Once(q)
  <2> SUFFICES ASSUME NEW i \in DOMAIN q, NEW j \in DOMAIN q, q[i].ping = q[j].ping, q[i].ping # None
               PROVE  i = j
    BY DEF Once
  <2>1. PICK k \in DOMAIN a : q[i] = a[k] /\ i = IF k <= Len(s) THEN k ELSE k + 1
    BY <1>7
  <2>2. PICK l \in DOMAIN a : q[j] = a[l] /\ j = IF l <= Len(s) THEN l ELSE l + 1
    BY <1>7
  <2>3. k = l
    BY <1>3, <2>1, <2>2 DEF Orderly, Once
  <2> QED BY <2>1, <2>2, <2>3
<1>9. Orderly(t, h, q, pg, to)
  BY <1>6, <1>7, <1>8 DEF Orderly, Faithful, Fresh
<1> QED BY <1>9 DEF q, e

-----------------------------------------------------------------------------
(* The page keeps its part of the invariant.                               *)

LEMMA PlainCommands ==
    ASSUME NEW s \in Seq(Command), NEW pg, \A i \in DOMAIN s : s[i].page = None
    PROVE  \A n \in 0..Len(s) : LeadsTo(s, n, pg, pg)
BY DEF LeadsTo

LEMMA InitPage == Init => PageInv
<1> SUFFICES ASSUME Init PROVE PageInv
  OBVIOUS
<1>1. TypeOK
  BY InitType
<1>2. commands \in Seq(Command) /\ waiting = <<Send(First, None)>> /\ path = Home /\ page = Home
      /\ First \in Ping /\ Home \in Page /\ None \notin Ping /\ None \notin Page
  BY <1>1, AnalyticsAssumption DEF TypeOK, Init
<1>3. \A i \in DOMAIN commands : commands[i].ping = None /\ commands[i].page = None
  <2> DEFINE D == Dimension \ {SignedIn}
  <2>1. PICK order \in SetToSeqs(D) : commands = [i \in DOMAIN order |-> SetDimension(order[i])]
    BY DEF Init
  <2> QED BY <2>1 DEF SetDimension
<1>4. /\ waiting \in Seq(Command) /\ Len(waiting) = 1 /\ DOMAIN waiting = {1}
      /\ waiting[1].ping = First /\ waiting[1].page = None
  BY <1>1, <1>2, CommandFacts DEF TypeOK
<1>5. PICK t : t = [p \in Ping |-> None]
  OBVIOUS
<1>6. Orderly(t, hits, commands, page, path)
  <2>1. LeadsTo(commands, Len(commands), Home, Home)
    <3>1. Len(commands) \in 0..Len(commands)
      BY <1>2
    <3> QED BY <1>2, <1>3, <3>1, PlainCommands
  <2> QED BY <1>2, <1>3, <2>1 DEF Orderly, Faithful, Once, Fresh
<1>7. LeadsTo(waiting, 1, path, path)
  BY <1>4 DEF LeadsTo
<1>8. Once(waiting)
  BY <1>4 DEF Once
<1>9. t[First] = None /\ hits[First] = None /\ tracked[First] = path /\ tracked[First] # None
  BY <1>2, <1>5 DEF Init
<1>10. OrderInv
  <2>1. \A i \in DOMAIN commands : commands[i].ping = None
    BY <1>3
  <2>2. \A i \in DOMAIN waiting : waiting[i].ping # None =>
               /\ t[waiting[i].ping] = None /\ hits[waiting[i].ping] = None
               /\ tracked[waiting[i].ping] # None
               /\ LeadsTo(waiting, i, path, tracked[waiting[i].ping])
    BY <1>4, <1>7, <1>9
  <2>3. Orderly(tracked, hits, commands \o waiting, page, path)
    BY <1>2, <1>4, <1>6, <1>7, <1>8, <2>1, <2>2, OrderlyTrack
  <2> QED BY <2>3 DEF OrderInv
<1>11. RejectionInv /\ ReadyInv /\ HitInv
  <2>1. unhandledRejections = <<>> /\ readyState = FALSE /\ \A p \in Ping : hits[p] = None
    BY DEF Init
  <2> QED BY <1>3, <2>1 DEF RejectionInv, ReadyInv, HitInv
<1> QED BY <1>10, <1>11 DEF PageInv

LEMMA PageFrame ==
    ASSUME PageInv, UNCHANGED <<tracker, rejections>>
    PROVE  PageInv'
<1>1. UNCHANGED <<path, readyState, timeout, waiting, commands, dimensions, page, hits, tracked,
                  unhandledRejections>>
  BY DEF tracker, rejections
<1> QED BY <1>1 DEF PageInv, OrderInv, RejectionInv, ReadyInv, HitInv

\* Something new is tracked.
LEMMA TrackOrder ==
    ASSUME TypeOK, PageInv, NEW calls \in Seq(Command),
           commands' \o waiting' = (commands \o waiting) \o calls,
           UNCHANGED <<page, hits>>, path' \in Page,
           LeadsTo(calls, Len(calls), path, path'), Once(calls),
           \A i \in DOMAIN calls :
               /\ calls[i].ping \in Ping /\ tracked[calls[i].ping] = None
               /\ tracked'[calls[i].ping] \in Page
               /\ LeadsTo(calls, i, path, tracked'[calls[i].ping]),
           \A p \in Ping : tracked[p] # None => tracked'[p] = tracked[p],
           timeout' => timeout
    PROVE  OrderInv' /\ HitInv'
<1>1. PICK s : s = commands \o waiting
  OBVIOUS
<1>2. s \in Seq(Command) /\ path \in Page
  BY <1>1, ConcatFacts DEF TypeOK
<1>3. Orderly(tracked, hits, s, page, path)
  BY <1>1 DEF PageInv, OrderInv
<1>4. \A i \in DOMAIN calls : hits[calls[i].ping] = None /\ tracked'[calls[i].ping] # None
  BY CommandFacts DEF PageInv, HitInv
<1>5. \A i \in DOMAIN s : s[i].ping # None /\ tracked[s[i].ping] # None =>
        tracked'[s[i].ping] = tracked[s[i].ping]
  BY <1>2, CommandFacts
<1>6. Orderly(tracked', hits, s \o calls, page, path')
  BY <1>2, <1>3, <1>4, <1>5, OrderlyTrack
<1> QED BY <1>1, <1>6 DEF OrderInv, HitInv, PageInv

LEMMA OneCall ==
    ASSUME NEW c \in Command, NEW pg, c.ping # None
    PROVE  /\ <<c>> \in Seq(Command) /\ Len(<<c>>) = 1 /\ DOMAIN <<c>> = {1} /\ <<c>>[1] = c
           /\ Once(<<c>>)
           /\ \A x : (IF c.page = None THEN x = pg ELSE x = c.page) => LeadsTo(<<c>>, 1, pg, x)
<1>1. <<c>> \in Seq(Command) /\ Len(<<c>>) = 1 /\ DOMAIN <<c>> = {1} /\ <<c>>[1] = c
  OBVIOUS
<1>2. Once(<<c>>)
  BY <1>1 DEF Once
<1>3. ASSUME NEW x, IF c.page = None THEN x = pg ELSE x = c.page PROVE LeadsTo(<<c>>, 1, pg, x)
  BY <1>1, <1>3 DEF LeadsTo
<1> QED BY <1>1, <1>2, <1>3

LEMMA NoCall ==
    ASSUME NEW pg
    PROVE  /\ <<>> \in Seq(Command) /\ Once(<<>>) /\ LeadsTo(<<>>, Len(<<>>), pg, pg)
           /\ DOMAIN <<>> = {}
BY DEF Once, LeadsTo

\* What Track appends is at the end of what is still to be sent.
LEMMA TrackAppends ==
    ASSUME TypeOK, PageInv, NEW calls \in Seq(Command), Track(calls), UNCHANGED readyState,
           UNCHANGED <<timeout, dimensions>>
    PROVE  commands' \o waiting' = (commands \o waiting) \o calls /\ ReadyInv'
<1>1. commands \in Seq(Command) /\ waiting \in Seq(Command) /\ (readyState => waiting = <<>>)
  BY DEF TypeOK
<1>2. commands' \o waiting' = (commands \o waiting) \o calls
  <2>1. CASE readyState
    <3>1. commands' = commands \o calls /\ waiting' = <<>> /\ waiting = <<>>
      BY <1>1, <2>1 DEF Track
    <3>2. (commands \o calls) \o <<>> = commands \o calls /\ commands \o <<>> = commands
      BY <1>1, ConcatEmptySeq
    <3> QED BY <3>1, <3>2
  <2>2. CASE ~readyState
    <3>1. commands' = commands /\ waiting' = waiting \o calls
      BY <2>2 DEF Track
    <3>2. (commands \o waiting) \o calls = commands \o (waiting \o calls)
      BY <1>1, ConcatAssociative
    <3> QED BY <3>1, <3>2
  <2> QED BY <2>1, <2>2
<1>3. ReadyInv'
  <2>1. CASE readyState
    BY <2>1 DEF PageInv, ReadyInv
  <2>2. CASE ~readyState
    BY <2>2 DEF PageInv, ReadyInv, Track
  <2> QED BY <2>1, <2>2
<1> QED BY <1>2, <1>3

\* A rejection is not a hit until it is reported.
LEMMA RejectionFrame ==
    ASSUME TypeOK, PageInv, UNCHANGED unhandledRejections,
           \A p \in Ping : p \in Range(unhandledRejections) => tracked'[p] = tracked[p]
    PROVE  RejectionInv'
<1>1. \A i \in DOMAIN unhandledRejections :
        unhandledRejections[i] \in Ping /\ unhandledRejections[i] \in Range(unhandledRejections)
  BY DEF TypeOK, Range
<1> QED BY <1>1 DEF PageInv, RejectionInv

\* One hit is tracked, on the page where the user is now.
LEMMA TrackOne ==
    ASSUME TypeOK, PageInv, NEW p \in Ping, Unused(p), NEW c \in Command, c.ping = p, Track(<<c>>),
           path' \in Page, IF c.page = None THEN path' = path ELSE path' = c.page,
           tracked' = [tracked EXCEPT ![p] = path'],
           UNCHANGED <<readyState, timeout, dimensions, page, hits, rejections>>
    PROVE  PageInv'
<1>1. UNCHANGED <<readyState, timeout, dimensions, page, hits, unhandledRejections>> /\ p # None
  BY CommandFacts DEF rejections
<1>2. /\ <<c>> \in Seq(Command) /\ Len(<<c>>) = 1 /\ DOMAIN <<c>> = {1} /\ <<c>>[1] = c
      /\ Once(<<c>>) /\ LeadsTo(<<c>>, 1, path, path')
  BY <1>1, OneCall
<1>3. /\ tracked[p] = None /\ p \notin Range(unhandledRejections) /\ tracked'[p] = path'
      /\ \A q \in Ping : q # p => tracked'[q] = tracked[q]
  BY DEF Unused, TypeOK
<1>4. commands' \o waiting' = (commands \o waiting) \o <<c>> /\ ReadyInv'
  BY <1>1, <1>2, TrackAppends
<1>5. OrderInv' /\ HitInv'
  <2>1. \A i \in DOMAIN <<c>> :
               /\ <<c>>[i].ping \in Ping /\ tracked[<<c>>[i].ping] = None
               /\ tracked'[<<c>>[i].ping] \in Page
               /\ LeadsTo(<<c>>, i, path, tracked'[<<c>>[i].ping])
    BY <1>2, <1>3
  <2>2. LeadsTo(<<c>>, Len(<<c>>), path, path')
    BY <1>2
  <2>3. \A q \in Ping : tracked[q] # None => tracked'[q] = tracked[q]
    BY <1>3
  <2>4. UNCHANGED <<page, hits>> /\ (timeout' => timeout) /\ path' \in Page
    BY <1>1
  <2>5. <<c>> \in Seq(Command) /\ Once(<<c>>)
    BY <1>2
  <2> QED BY <1>4, <2>1, <2>2, <2>3, <2>4, <2>5, TrackOrder
<1>6. RejectionInv'
  BY <1>1, <1>3, RejectionFrame
<1> QED BY <1>4, <1>5, <1>6 DEF PageInv

LEMMA TrackPageViewStep == ASSUME TypeOK, PageInv, NEW p \in Ping, TrackPageView(p) PROVE PageInv'
<1>1. PICK to \in Page \ {path} : /\ path' = to /\ Track(<<Send(p, to)>>)
                                  /\ tracked' = [tracked EXCEPT ![p] = to]
  BY DEF TrackPageView
<1>2. PICK c : c = Send(p, to)
  OBVIOUS
<1>3. c \in Command /\ c.ping = p /\ c.page = to /\ to # None
  BY <1>2, CommandFacts
<1> QED BY <1>1, <1>2, <1>3, TrackOne DEF TrackPageView

LEMMA TrackEventStep == ASSUME TypeOK, PageInv, NEW p \in Ping, TrackEvent(p) PROVE PageInv'
<1>1. PICK c : c = Send(p, None)
  OBVIOUS
<1>2. c \in Command /\ c.ping = p /\ c.page = None
  BY <1>1, CommandFacts
<1> QED BY <1>1, <1>2, TrackOne DEF TrackEvent, TypeOK

\* The queue of what waits is handed over.
LEMMA ReadyTimeoutStep == ASSUME TypeOK, PageInv, ReadyTimeout PROVE PageInv'
<1>1. /\ UNCHANGED <<path, page, hits, dimensions, unhandledRejections>> /\ timeout' = FALSE
      /\ path \in Page /\ commands \in Seq(Command) /\ waiting \in Seq(Command)
  BY DEF ReadyTimeout, rejections, TypeOK
<1>2. PICK later \in Seq(Command) :
        /\ Resolve(commands, later)
        /\ Once(later) /\ LeadsTo(later, Len(later), path, path)
        /\ \A i \in DOMAIN later :
             /\ later[i].ping \in Ping /\ tracked[later[i].ping] = None
             /\ tracked'[later[i].ping] \in Page
             /\ LeadsTo(later, i, path, tracked'[later[i].ping])
        /\ \A q \in Ping : /\ tracked[q] # None => tracked'[q] = tracked[q]
                           /\ q \in Range(unhandledRejections) => tracked'[q] = tracked[q]
  <2>1. CASE Resolve(commands, <<>>) /\ UNCHANGED tracked
    BY <2>1, NoCall
  <2>2. ASSUME NEW p \in Ping, Unused(p), Resolve(commands, <<Send(p, None)>>),
               tracked' = [tracked EXCEPT ![p] = path]
        PROVE  \E later \in Seq(Command) :
                 /\ Resolve(commands, later)
                 /\ Once(later) /\ LeadsTo(later, Len(later), path, path)
                 /\ \A i \in DOMAIN later :
                      /\ later[i].ping \in Ping /\ tracked[later[i].ping] = None
                      /\ tracked'[later[i].ping] \in Page
                      /\ LeadsTo(later, i, path, tracked'[later[i].ping])
                 /\ \A q \in Ping : /\ tracked[q] # None => tracked'[q] = tracked[q]
                                    /\ q \in Range(unhandledRejections) => tracked'[q] = tracked[q]
    <3>1. PICK c : c = Send(p, None)
      OBVIOUS
    <3>2. c \in Command /\ c.ping = p /\ c.page = None /\ p # None
      BY <3>1, CommandFacts
    <3>3. /\ <<c>> \in Seq(Command) /\ Len(<<c>>) = 1 /\ DOMAIN <<c>> = {1} /\ <<c>>[1] = c
          /\ Once(<<c>>) /\ LeadsTo(<<c>>, 1, path, path)
      BY <3>2, OneCall
    <3>4. /\ tracked[p] = None /\ p \notin Range(unhandledRejections) /\ tracked'[p] = path
          /\ \A q \in Ping : q # p => tracked'[q] = tracked[q]
      BY <2>2 DEF Unused, TypeOK
    <3>5. \A i \in DOMAIN <<c>> :
             /\ <<c>>[i].ping \in Ping /\ tracked[<<c>>[i].ping] = None
             /\ tracked'[<<c>>[i].ping] \in Page
             /\ LeadsTo(<<c>>, i, path, tracked'[<<c>>[i].ping])
      BY <1>1, <3>2, <3>3, <3>4
    <3>6. Resolve(commands, <<c>>) /\ LeadsTo(<<c>>, Len(<<c>>), path, path)
      BY <2>2, <3>1, <3>3
    <3> QED BY <3>3, <3>4, <3>5, <3>6
  <2> QED BY <2>1, <2>2 DEF ReadyTimeout
<1>3. commands' \o waiting' = (commands \o waiting) \o later /\ readyState' = TRUE
  <2>1. commands' = (commands \o waiting) \o later /\ waiting' = <<>> /\ readyState' = TRUE
    BY <1>2 DEF Resolve
  <2>2. (commands \o waiting) \o later \in Seq(Command)
    BY <1>1, <1>2, ConcatFacts
  <2> QED BY <2>1, <2>2, ConcatEmptySeq
<1>4. OrderInv' /\ HitInv'
  BY <1>1, <1>2, <1>3, TrackOrder
<1>5. RejectionInv'
  BY <1>1, <1>2, RejectionFrame
<1>6. ReadyInv'
  BY <1>1, <1>3 DEF ReadyInv
<1> QED BY <1>4, <1>5, <1>6 DEF PageInv

LEMMA LogStep == ASSUME TypeOK, PageInv, LogRejectedPromises PROVE PageInv'
<1>1. PICK calls : calls = [i \in DOMAIN unhandledRejections |-> Send(unhandledRejections[i], None)]
  OBVIOUS
<1>2. /\ calls \in Seq(Command) /\ DOMAIN calls = DOMAIN unhandledRejections
      /\ \A i \in DOMAIN calls :
           /\ unhandledRejections[i] \in Ping /\ unhandledRejections[i] \in Range(unhandledRejections)
           /\ calls[i].ping = unhandledRejections[i] /\ calls[i].page = None
  BY <1>1, RejectionCalls DEF Range
<1>3. /\ Track(calls) /\ unhandledRejections' = <<>>
      /\ tracked' = [p \in Ping |-> IF p \in Range(unhandledRejections) THEN path ELSE tracked[p]]
      /\ UNCHANGED <<path, readyState, timeout, dimensions, page, hits>> /\ path \in Page
  BY <1>1 DEF LogRejectedPromises, TrackRejections, TypeOK
<1>4. commands' \o waiting' = (commands \o waiting) \o calls /\ ReadyInv'
  BY <1>2, <1>3, TrackAppends
<1>5. Once(calls)
  BY <1>2 DEF Once, PageInv, RejectionInv
<1>6. \A n \in 0..Len(calls) : LeadsTo(calls, n, path, path)
  BY <1>2, PlainCommands
<1>7. \A i \in DOMAIN calls :
               /\ calls[i].ping \in Ping /\ tracked[calls[i].ping] = None
               /\ tracked'[calls[i].ping] = path /\ i \in 0..Len(calls)
  BY <1>2, <1>3 DEF PageInv, RejectionInv
<1>8. \A p \in Ping : tracked[p] # None => tracked'[p] = tracked[p]
  <2>1. \A p \in Range(unhandledRejections) : tracked[p] = None
    BY <1>2 DEF Range, PageInv, RejectionInv
  <2> QED BY <1>3, <2>1
<1>9. OrderInv' /\ HitInv'
  <2>1. LeadsTo(calls, Len(calls), path, path')
    BY <1>2, <1>3, <1>6
  <2>2. \A i \in DOMAIN calls :
               /\ calls[i].ping \in Ping /\ tracked[calls[i].ping] = None
               /\ tracked'[calls[i].ping] \in Page
               /\ LeadsTo(calls, i, path, tracked'[calls[i].ping])
    BY <1>3, <1>6, <1>7
  <2> QED BY <1>2, <1>3, <1>4, <1>5, <1>8, <2>1, <2>2, TrackOrder
<1>10. RejectionInv'
  BY <1>3 DEF RejectionInv
<1> QED BY <1>4, <1>9, <1>10 DEF PageInv

LEMMA RejectSteps ==
    ASSUME TypeOK, PageInv, NEW p \in Ping, Reject(p) \/ RejectionHandled(p)
    PROVE  PageInv'
<1>1. UNCHANGED tracker
  BY DEF Reject, RejectionHandled
<1>2. OrderInv' /\ ReadyInv' /\ HitInv'
  BY <1>1 DEF tracker, PageInv, OrderInv, ReadyInv, HitInv
<1>3. RejectionInv'
  <2> DEFINE u == unhandledRejections
  <2>1. CASE Reject(p)
    <3>1. u \in Seq(Ping) /\ u' = Append(u, p) /\ tracked' = tracked /\ tracked[p] = None
          /\ \A i \in DOMAIN u : u[i] # p
      BY <1>1, <2>1 DEF Reject, Unused, Range, tracker, TypeOK
    <3>2. \A i \in DOMAIN u' : (u'[i] = p /\ i = Len(u) + 1) \/ (i \in DOMAIN u /\ u'[i] = u[i])
      BY <3>1
    <3> QED BY <3>1, <3>2 DEF PageInv, RejectionInv
  <2>2. CASE RejectionHandled(p)
    <3>1. PICK k \in DOMAIN u : u' = RemoveAt(u, k)
      BY <2>2 DEF RejectionHandled
    <3>2. /\ u \in Seq(Ping) /\ tracked' = tracked /\ k \in Nat
          /\ \A i \in DOMAIN u' : /\ i \in Nat
                                  /\ i < k => i \in DOMAIN u /\ u'[i] = u[i]
                                  /\ i >= k => i + 1 \in DOMAIN u /\ u'[i] = u[i + 1]
      BY <1>1, <3>1, RemoveFacts DEF tracker, TypeOK
    <3>3. \A i, j \in DOMAIN u : u[i] = u[j] => i = j
      BY DEF PageInv, RejectionInv
    <3>4. ASSUME NEW i \in DOMAIN u', NEW j \in DOMAIN u', u'[i] = u'[j] PROVE i = j
      <4>1. CASE i < k /\ j < k
        BY <3>2, <3>3, <3>4, <4>1
      <4>2. CASE i >= k /\ j >= k
        <5>1. i + 1 = j + 1
          BY <3>2, <3>3, <3>4, <4>2
        <5> QED BY <3>2, <5>1
      <4>3. CASE i < k /\ j >= k
        <5>1. i = j + 1
          BY <3>2, <3>3, <3>4, <4>3
        <5> QED BY <3>2, <4>3, <5>1
      <4>4. CASE i >= k /\ j < k
        <5>1. i + 1 = j
          BY <3>2, <3>3, <3>4, <4>4
        <5> QED BY <3>2, <4>4, <5>1
      <4> QED BY <3>2, <4>1, <4>2, <4>3, <4>4
    <3>5. \A i \in DOMAIN u' : tracked'[u'[i]] = None
      <4>1. \A i \in DOMAIN u' : i < k \/ i >= k
        BY <3>2
      <4> QED BY <3>2, <4>1 DEF PageInv, RejectionInv
    <3> QED BY <3>4, <3>5 DEF RejectionInv
  <2> QED BY <2>1, <2>2
<1> QED BY <1>2, <1>3 DEF PageInv

LEMMA UpdateTrackerStep == ASSUME TypeOK, PageInv, UpdateTracker PROVE PageInv'
<1>1. /\ commands' = Append(commands, SetDimension(SignedIn))
      /\ UNCHANGED <<path, readyState, timeout, waiting, dimensions, page, hits, tracked,
                     unhandledRejections>>
      /\ SignedIn \in Dimension
  BY AnalyticsAssumption DEF UpdateTracker, rejections
<1>2. commands \in Seq(Command) /\ waiting \in Seq(Command)
  BY DEF TypeOK
<1>3. OrderInv'
  <2>1. Orderly(tracked, hits, commands \o waiting, page, path)
    BY DEF PageInv, OrderInv
  <2>2. Orderly(tracked, hits, Append(commands, SetDimension(SignedIn)) \o waiting, page, path)
    BY <1>1, <1>2, <2>1, OrderlyInsert
  <2> QED BY <1>1, <2>2 DEF OrderInv
<1>4. ReadyInv'
  <2>1. \A i \in DOMAIN commands' :
          commands'[i].ping = None \/ (i \in DOMAIN commands /\ commands'[i] = commands[i])
    BY <1>1, <1>2, CommandFacts
  <2> QED BY <1>1, <2>1 DEF PageInv, ReadyInv
<1> QED BY <1>1, <1>3, <1>4 DEF PageInv, RejectionInv, HitInv

LEMMA TailConcat ==
    ASSUME NEW S, NEW s \in Seq(S), s # <<>>, NEW t \in Seq(S)
    PROVE  s \o t # <<>> /\ (s \o t)[1] = s[1] /\ Tail(s \o t) = Tail(s) \o t
<1>1. s \o t \in Seq(S) /\ s \o t # <<>> /\ (s \o t)[1] = s[1]
  OBVIOUS
<1>2. Tail(s \o t) \in Seq(S) /\ Tail(s) \o t \in Seq(S) /\ Len(Tail(s \o t)) = Len(Tail(s) \o t)
  BY <1>1
<1>3. \A i \in 1..Len(Tail(s \o t)) : Tail(s \o t)[i] = (Tail(s) \o t)[i]
  BY <1>1
<1> QED BY <1>2, <1>3, SeqEqual

\* What the library has run is the first command.
LEMMA RunOrder ==
    ASSUME TypeOK, PageInv, commands # <<>>, UNCHANGED <<path, tracked>>,
           commands' \o waiting' = Tail(commands) \o waiting,
           page' = IF Head(commands).page = None THEN page ELSE Head(commands).page,
           \A p \in Ping : p # Head(commands).ping => hits'[p] = hits[p]
    PROVE  /\ OrderInv'
           /\ Head(commands).ping # None =>
                /\ Head(commands).ping \in Ping
                /\ tracked[Head(commands).ping] # None /\ hits[Head(commands).ping] = None
                /\ tracked[Head(commands).ping] = page'
<1>1. PICK s : s = commands \o waiting
  OBVIOUS
<1>2. /\ commands \in Seq(Command) /\ waiting \in Seq(Command) /\ s \in Seq(Command) /\ s # <<>>
      /\ Head(commands) = commands[1] /\ s[1] = commands[1] /\ commands[1] \in Command /\ 1 \in DOMAIN s
      /\ Tail(s) = Tail(commands) \o waiting
  <2>1. commands \in Seq(Command) /\ waiting \in Seq(Command)
    BY DEF TypeOK
  <2>2. s \in Seq(Command) /\ s # <<>> /\ s[1] = commands[1] /\ Tail(s) = Tail(commands) \o waiting
    BY <1>1, <2>1, TailConcat, ConcatFacts
  <2> QED BY <2>1, <2>2, TailFacts
<1>3. Orderly(tracked, hits, s, page, path)
  BY <1>1 DEF PageInv, OrderInv
<1>4. Orderly(tracked, hits', Tail(s), IF s[1].page = None THEN page ELSE s[1].page, path)
  BY <1>2, <1>3, OrderlyTail
<1>5. OrderInv'
  BY <1>2, <1>4 DEF OrderInv
<1>6. ASSUME commands[1].ping # None
      PROVE  /\ tracked[commands[1].ping] # None /\ hits[commands[1].ping] = None
             /\ LeadsTo(s, 1, page, tracked[commands[1].ping])
  BY <1>2, <1>3, <1>6 DEF Orderly, Faithful, Fresh
<1>7. ASSUME commands[1].ping # None PROVE tracked[commands[1].ping] = page'
  <2>1. tracked[commands[1].ping] = IF s[1].page = None THEN page ELSE s[1].page
    BY <1>2, <1>6, <1>7, LeadsToFirst
  <2> QED BY <1>2, <2>1
<1> QED BY <1>2, <1>5, <1>6, <1>7, CommandFacts

LEMMA RunSetStep == ASSUME TypeOK, PageInv, RunSet PROVE PageInv'
<1>1. /\ commands # <<>> /\ Head(commands).dimension # None
      /\ dimensions' = dimensions \cup {Head(commands).dimension}
      /\ UNCHANGED <<path, timeout, page, hits, tracked, unhandledRejections>>
  BY DEF RunSet, rejections
<1>2. /\ commands \in Seq(Command) /\ waiting \in Seq(Command) /\ Tail(commands) \in Seq(Command)
      /\ \A i \in DOMAIN Tail(commands) : i + 1 \in DOMAIN commands /\ Tail(commands)[i] = commands[i + 1]
      /\ Head(commands).page = None /\ Head(commands).ping = None
  BY <1>1, TailFacts, CommandFacts DEF TypeOK
<1>3. /\ commands' \o waiting' = Tail(commands) \o waiting
      /\ \/ readyState' /\ Dimension \subseteq dimensions'
         \/ readyState' = readyState /\ commands' = Tail(commands)
  <2>1. CASE Dimension \subseteq dimensions' /\ Resolve(Tail(commands), <<>>)
    <3>1. commands' = (Tail(commands) \o waiting) \o <<>> /\ waiting' = <<>> /\ readyState'
      BY <2>1 DEF Resolve
    <3>2. Tail(commands) \o waiting \in Seq(Command)
      BY <1>2, ConcatFacts
    <3> QED BY <2>1, <3>1, <3>2, ConcatEmptySeq
  <2>2. CASE commands' = Tail(commands) /\ UNCHANGED <<readyState, waiting>>
    BY <2>2
  <2> QED BY <2>1, <2>2 DEF RunSet
<1>4. OrderInv'
  BY <1>1, <1>2, <1>3, RunOrder
<1>5. ReadyInv'
  <2>1. CASE readyState' /\ Dimension \subseteq dimensions'
    BY <2>1 DEF ReadyInv
  <2>2. CASE readyState' = readyState /\ commands' = Tail(commands)
    BY <1>1, <1>2, <2>2 DEF PageInv, ReadyInv
  <2> QED BY <1>3, <2>1, <2>2
<1> QED BY <1>1, <1>4, <1>5 DEF PageInv, RejectionInv, HitInv

LEMMA RunSendStep == ASSUME TypeOK, PageInv, RunSend PROVE PageInv'
<1>1. PICK p : p = Head(commands).ping
  OBVIOUS
<1>2. /\ commands # <<>> /\ p # None /\ commands' = Tail(commands)
      /\ page' = IF Head(commands).page = None THEN page ELSE Head(commands).page
      /\ hits' = [hits EXCEPT ![p] = [page |-> page', complete |-> Dimension \subseteq dimensions]]
      /\ UNCHANGED <<path, readyState, timeout, waiting, dimensions, tracked, unhandledRejections>>
  BY <1>1 DEF RunSend, rejections
<1>3. /\ commands \in Seq(Command) /\ Head(commands) = commands[1] /\ 1 \in DOMAIN commands
      /\ \A i \in DOMAIN Tail(commands) : i + 1 \in DOMAIN commands /\ Tail(commands)[i] = commands[i + 1]
  BY <1>2, TailFacts DEF TypeOK
<1>4. hits \in [Ping -> {None} \cup [page : Page, complete : BOOLEAN]]
  BY DEF TypeOK
<1>5. /\ OrderInv'
      /\ p \in Ping /\ tracked[p] # None /\ hits[p] = None /\ tracked[p] = page'
  <2>1. \A q \in Ping : q # p => hits'[q] = hits[q]
    BY <1>2, <1>4
  <2> QED BY <1>1, <1>2, <2>1, RunOrder
<1>6. readyState /\ (~timeout \/ Dimension \subseteq dimensions)
  BY <1>1, <1>2, <1>3 DEF PageInv, ReadyInv
<1>7. HitInv'
  <2>1. hits'[p].page = page' /\ (hits'[p].complete \/ ~timeout)
    BY <1>2, <1>4, <1>5, <1>6
  <2>2. \A q \in Ping : q # p => hits'[q] = hits[q]
    BY <1>2, <1>4
  <2> QED BY <1>2, <1>5, <2>1, <2>2 DEF PageInv, HitInv
<1>8. ReadyInv'
  BY <1>2, <1>3 DEF PageInv, ReadyInv
<1> QED BY <1>2, <1>5, <1>7, <1>8 DEF PageInv, RejectionInv

-----------------------------------------------------------------------------
(* A ping that was sent keeps its place.                                   *)

\* A step is not about ping p.
Elsewhere(p) ==
    /\ hits'[p] = hits[p] /\ delivered'[p] = delivered[p]
    /\ p \in queue' <=> p \in queue
    /\ lost \subseteq lost' /\ expired \subseteq expired' /\ repeatable \subseteq repeatable'
    /\ \A w \in Worker \cup {None} : <<w, p>> \in fetches' <=> <<w, p>> \in fetches
    /\ \A w \in Worker : <<w, p>> \in writes' <=> <<w, p>> \in writes
    /\ \A r : r \in replays' /\ r.ping = p <=> r \in replays /\ r.ping = p

LEMMA CountFacts == TypeOK => \A p \in Ping : delivered[p] \in 0..2
<1>1. TypeOK => delivered \in [Ping -> 0..2]
  BY DEF TypeOK
<1> QED BY <1>1

LEMMA KeptElsewhere == ASSUME NEW p \in Ping, Kept(p), Elsewhere(p) PROVE Kept(p)'
<1>1. /\ Fetched(p)' <=> Fetched(p)
      /\ Written(p)' <=> Written(p)
      /\ Replayed(p)' <=> Replayed(p)
  BY DEF Elsewhere, Fetched, Written, Replayed
<1>2. Place(p)'
  BY <1>1 DEF Kept, Place, Elsewhere
<1>3. p \notin repeatable' => Sole(p)'
  BY <1>1 DEF Kept, Sole, Elsewhere
<1> QED BY <1>2, <1>3 DEF Kept

LEMMA KeptFrame ==
    ASSUME KeptInv, UNCHANGED <<hits, queues>>
    PROVE  KeptInv'
BY DEF queues, KeptInv, Kept, Place, Sole, Fetched, Written, Replayed

LEMMA InitKept == Init => KeptInv
BY DEF Init, KeptInv, Kept, Place, Sole, Fetched, Written, Replayed

LEMMA RunSendKept == ASSUME TypeOK, PageInv, KeptInv, RunSend PROVE KeptInv'
<1>1. PICK p : p = Head(commands).ping
  OBVIOUS
<1>2. /\ p # None /\ fetches' = fetches \cup {<<controller, p>>}
      /\ hits' = [hits EXCEPT ![p] = [page |-> page', complete |-> Dimension \subseteq dimensions]]
      /\ UNCHANGED <<writes, replays, queue, delivered, lost, expired, repeatable>>
  BY <1>1 DEF RunSend, WorkersUnchanged
<1>3. p \in Ping /\ hits[p] = None /\ controller \in Worker \cup {None} /\ page' \in Page
  <2>1. /\ UNCHANGED <<path, tracked>>
        /\ commands # <<>> /\ commands' \o waiting' = Tail(commands) \o waiting
        /\ page' = IF Head(commands).page = None THEN page ELSE Head(commands).page
    BY DEF RunSend
  <2>2. \A q \in Ping : q # p => hits'[q] = hits[q]
    BY <1>2 DEF TypeOK
  <2>3. p \in Ping /\ hits[p] = None /\ tracked[p] # None /\ tracked[p] = page'
    BY <1>1, <1>2, <2>1, <2>2, RunOrder
  <2> QED BY <2>3 DEF TypeOK
<1>4. hits'[p] # None
  <2>1. [page |-> page', complete |-> Dimension \subseteq dimensions] \in [page : Page, complete : BOOLEAN]
    BY <1>3
  <2>2. hits'[p] = [page |-> page', complete |-> Dimension \subseteq dimensions]
    BY <1>2, <1>3 DEF TypeOK
  <2> QED BY <2>1, <2>2, AnalyticsAssumption
<1>5. Kept(p)'
  <2>1. delivered[p] = 0 /\ ~Fetched(p) /\ ~Written(p) /\ p \notin queue /\ ~Replayed(p)
    BY <1>3 DEF KeptInv, Kept, Place
  <2>2. /\ Fetched(p)'
        /\ \A v \in Worker \cup {None} : <<v, p>> \in fetches' => v = controller
    BY <1>2, <1>3, <2>1 DEF Fetched
  <2>3. ~Written(p)' /\ p \notin queue' /\ ~Replayed(p)' /\ delivered'[p] = 0
    BY <1>2, <2>1 DEF Written, Replayed
  <2>4. Place(p)'
    BY <1>4, <2>2, <2>3 DEF Place, Written, Replayed
  <2>5. Sole(p)'
    BY <2>3 DEF Sole, Replayed
  <2> QED BY <2>4, <2>5 DEF Kept
<1>6. ASSUME NEW q \in Ping, q # p PROVE Kept(q)'
  <2>1. Elsewhere(q)
    BY <1>2, <1>6 DEF Elsewhere, TypeOK
  <2> QED BY <2>1, KeptElsewhere DEF KeptInv
<1> QED BY <1>5, <1>6 DEF KeptInv

LEMMA StartKept ==
    ASSUME KeptInv, TypeOK, NEW w \in Worker, StartScript(w),
           UNCHANGED <<hits, fetches, writes, delivered, lost, expired>>
    PROVE  KeptInv'
<1>1. SUFFICES ASSUME NEW p \in Ping PROVE Kept(p)'
  BY DEF KeptInv
<1>3. Kept(p)
  BY DEF KeptInv
<1>6. CASE UNCHANGED <<queue, replays, repeatable>>
  <2>1. Elsewhere(p)
    BY <1>6 DEF Elsewhere
  <2> QED BY <1>3, <2>1, KeptElsewhere
<1> SUFFICES ASSUME ~UNCHANGED <<queue, replays, repeatable>> PROVE Kept(p)'
  BY <1>6
<1>2. /\ replays' = replays \cup [worker : {w}, ping : queue, answered : {FALSE}]
      /\ repeatable' = repeatable \cup (queue \cap {r.ping : r \in replays})
      /\ queue' = queue
  BY DEF StartScript
<1>4. CASE p \notin queue
  <2>1. \A r \in [worker : {w}, ping : queue, answered : {FALSE}] : r.ping # p
    BY <1>4
  <2>2. \A r : r \in replays' /\ r.ping = p <=> r \in replays /\ r.ping = p
    BY <1>2, <2>1
  <2>3. Elsewhere(p)
    BY <1>2, <2>2 DEF Elsewhere
  <2> QED BY <1>3, <2>3, KeptElsewhere
<1>5. CASE p \in queue
  <2> DEFINE n == [worker |-> w, ping |-> p, answered |-> FALSE]
  <2>1. \A r \in [worker : {w}, ping : queue, answered : {FALSE}] :
          /\ ~r.answered
          /\ r.ping = p => r = n
    <3> SUFFICES ASSUME NEW r \in [worker : {w}, ping : queue, answered : {FALSE}]
                 PROVE  ~r.answered /\ (r.ping = p => r = n)
      OBVIOUS
    <3>1. r = [worker |-> r.worker, ping |-> r.ping, answered |-> r.answered]
          /\ r.worker = w /\ r.answered = FALSE
      OBVIOUS
    <3> QED BY <3>1
  <2>2. ~Fetched(p) /\ ~Written(p) /\ hits[p] # None
    BY <1>3, <1>5 DEF Kept, Place
  <2>3. ~Fetched(p)' /\ ~Written(p)'
    BY <2>2 DEF Fetched, Written
  <2>4. \A r \in replays' : r.ping = p /\ r.answered => delivered'[p] > 0
    BY <1>2, <1>3, <2>1 DEF Kept, Place
  <2>5. Place(p)'
    BY <1>2, <1>5, <2>2, <2>3, <2>4 DEF Place, Fetched, Written
  <2>6. ASSUME p \notin repeatable' PROVE Sole(p)'
    <3>1. p \notin repeatable /\ ~Replayed(p)
      BY <1>2, <1>5, <2>6 DEF Replayed
    <3>2. delivered[p] = 0
      BY <1>3, <1>5, <3>1 DEF Kept, Sole, TypeOK
    <3>3. \A r \in replays' : r.ping = p => r = n
      BY <1>2, <2>1, <3>1 DEF Replayed
    <3> HIDE DEF n
    <3> QED BY <3>2, <3>3 DEF Sole
  <2> QED BY <2>5, <2>6 DEF Kept
<1> QED BY <1>4, <1>5

LEMMA StopKept ==
    ASSUME KeptInv, TypeOK, NEW w \in Worker, StopScript(w)
    PROVE  KeptInv'
<1>1. SUFFICES ASSUME NEW p \in Ping PROVE Kept(p)'
  BY DEF KeptInv
<1>2. /\ lost' = lost \cup {q \in Ping : <<w, q>> \in fetches \cup writes}
      /\ \A v \in Worker \cup {None} : <<v, p>> \in fetches' <=> <<v, p>> \in fetches /\ v # w
      /\ \A v \in Worker : <<v, p>> \in writes' <=> <<v, p>> \in writes /\ v # w
      /\ \A r : r \in replays' <=> r \in replays /\ r.worker # w
      /\ repeatable' = repeatable \cup {r.ping : r \in {r \in replays : r.worker = w}}
      /\ UNCHANGED <<hits, queue, delivered, expired>>
  BY DEF StopScript, tracker
<1>3. Kept(p)
  BY DEF KeptInv
<1>4. /\ Fetched(p)' => Fetched(p)
      /\ Written(p)' => Written(p)
      /\ Replayed(p)' => Replayed(p)
  BY <1>2 DEF Fetched, Written, Replayed
<1>5. Fetched(p) \/ Written(p) => Fetched(p)' \/ Written(p)' \/ p \in lost'
  BY <1>2 DEF Fetched, Written
<1>6. Place(p)'
  <2>1. /\ \A v, x \in Worker \cup {None} : <<v, p>> \in fetches' /\ <<x, p>> \in fetches' => v = x
        /\ \A v, x \in Worker : <<v, p>> \in writes' /\ <<x, p>> \in writes' => v = x
    BY <1>2, <1>3 DEF Kept, Place
  <2>2. /\ Fetched(p)' => ~Written(p)' /\ p \notin queue' /\ ~Replayed(p)'
        /\ Written(p)' => p \notin queue' /\ ~Replayed(p)'
        /\ hits'[p] = None => /\ delivered'[p] = 0 /\ ~Fetched(p)' /\ ~Written(p)'
                              /\ p \notin queue' /\ ~Replayed(p)'
    BY <1>2, <1>3, <1>4 DEF Kept, Place
  <2>3. hits'[p] # None => \/ delivered'[p] > 0 \/ p \in lost' \cup expired' \cup queue'
                           \/ Fetched(p)' \/ Written(p)'
    BY <1>2, <1>3, <1>5 DEF Kept, Place
  <2>4. \A r \in replays' : r.ping = p /\ r.answered => delivered'[p] > 0
    BY <1>2, <1>3 DEF Kept, Place
  <2> QED BY <2>1, <2>2, <2>3, <2>4 DEF Place
<1>7. ASSUME p \notin repeatable' PROVE Sole(p)'
  <2>1. p \notin repeatable /\ \A r : r \in replays' /\ r.ping = p <=> r \in replays /\ r.ping = p
    BY <1>2, <1>7
  <2>2. Replayed(p)' <=> Replayed(p)
    BY <2>1 DEF Replayed
  <2> QED BY <1>2, <1>3, <1>4, <2>1, <2>2 DEF Kept, Sole
<1> QED BY <1>6, <1>7 DEF Kept

LEMMA AnsweredKept ==
    ASSUME KeptInv, TypeOK, NEW w \in Worker \cup {None}, NEW p \in Ping, PingAnswered(w, p)
    PROVE  KeptInv'
<1>1. /\ <<w, p>> \in fetches /\ fetches' = fetches \ {<<w, p>>}
      /\ delivered' = [delivered EXCEPT ![p] = IF @ = 0 THEN 1 ELSE 2]
      /\ UNCHANGED <<hits, writes, replays, queue, lost, expired, repeatable>>
  BY DEF PingAnswered, Deliver, tracker
<1>2. Kept(p) /\ Fetched(p)
  BY <1>1 DEF KeptInv, Fetched
<1>3. ~Written(p) /\ p \notin queue /\ ~Replayed(p) /\ hits[p] # None
      /\ \A v \in Worker \cup {None} : <<v, p>> \in fetches => v = w
  BY <1>1, <1>2 DEF Kept, Place
<1>4. ~Fetched(p)' /\ ~Written(p)' /\ p \notin queue' /\ ~Replayed(p)' /\ hits'[p] # None
      /\ delivered'[p] > 0 /\ (delivered[p] = 0 => delivered'[p] = 1)
  <2>1. delivered'[p] > 0 /\ (delivered[p] = 0 => delivered'[p] = 1)
    BY <1>1 DEF TypeOK
  <2>2. ~Fetched(p)'
    BY <1>1, <1>3 DEF Fetched
  <2> QED BY <1>1, <1>3, <2>1, <2>2 DEF Written, Replayed
<1>5. Place(p)'
  BY <1>4 DEF Place, Fetched, Written, Replayed
<1>6. p \notin repeatable' => Sole(p)'
  <2>1. p \notin repeatable => delivered[p] = 0
    BY <1>2, CountFacts DEF Kept, Sole
  <2> QED BY <1>1, <1>4, <2>1 DEF Sole, Replayed
<1>7. ASSUME NEW q \in Ping, q # p PROVE Kept(q)'
  <2>1. Elsewhere(q)
    BY <1>1, <1>7 DEF Elsewhere, TypeOK
  <2> QED BY <2>1, KeptElsewhere DEF KeptInv
<1> QED BY <1>5, <1>6, <1>7 DEF KeptInv, Kept

LEMMA FailsKept ==
    ASSUME KeptInv, TypeOK, NEW w \in Worker \cup {None}, NEW p \in Ping, PingFails(w, p)
    PROVE  KeptInv'
<1>1. /\ <<w, p>> \in fetches /\ fetches' = fetches \ {<<w, p>>}
      /\ UNCHANGED <<hits, replays, queue, expired>>
      /\ lost \subseteq lost' /\ repeatable \subseteq repeatable'
      /\ \/ w = None /\ p \in lost' /\ writes' = writes
         \/ w \in Worker /\ writes' = writes \cup {<<w, p>>}
      /\ \A q \in Ping : q # p => delivered'[q] = delivered[q]
      /\ delivered'[p] \in Nat
      /\ (p \notin repeatable' => delivered'[p] = delivered[p]) /\ (delivered[p] > 0 => delivered'[p] > 0)
  BY DEF PingFails, Deliver, tracker, TypeOK
<1>2. Kept(p) /\ Fetched(p)
  BY <1>1 DEF KeptInv, Fetched
<1>3. ~Written(p) /\ p \notin queue /\ ~Replayed(p) /\ hits[p] # None
      /\ \A v \in Worker \cup {None} : <<v, p>> \in fetches => v = w
  BY <1>1, <1>2 DEF Kept, Place
<1>4. ~Fetched(p)' /\ p \notin queue' /\ ~Replayed(p)' /\ hits'[p] # None
  BY <1>1, <1>3 DEF Fetched, Replayed
<1>5. /\ \A v \in Worker : <<v, p>> \in writes' => v = w
      /\ Written(p)' \/ p \in lost'
  BY <1>1, <1>3 DEF Written
<1>6. Place(p)'
  BY <1>4, <1>5 DEF Place, Fetched, Replayed
<1>7. p \notin repeatable' => Sole(p)'
  <2>1. p \notin repeatable => delivered[p] = 0
    BY <1>2, CountFacts DEF Kept, Sole
  <2> QED BY <1>1, <1>4, <2>1 DEF Sole, Replayed
<1>8. ASSUME NEW q \in Ping, q # p PROVE Kept(q)'
  <2>1. Elsewhere(q)
    BY <1>1, <1>8 DEF Elsewhere, TypeOK
  <2> QED BY <2>1, KeptElsewhere DEF KeptInv
<1> QED BY <1>6, <1>7, <1>8 DEF KeptInv, Kept

LEMMA StoreKept ==
    ASSUME KeptInv, TypeOK, NEW w \in Worker, NEW p \in Ping, StoreQueued(w, p)
    PROVE  KeptInv'
<1>1. /\ <<w, p>> \in writes /\ writes' = writes \ {<<w, p>>}
      /\ \/ queue' = queue \cup {p} /\ lost' = lost
         \/ lost' = lost \cup {p} /\ queue' = queue
      /\ UNCHANGED <<hits, fetches, replays, delivered, expired, repeatable>>
  BY DEF StoreQueued, tracker
<1>2. Kept(p) /\ Written(p)
  BY <1>1 DEF KeptInv, Written
<1>3. ~Fetched(p) /\ ~Replayed(p) /\ hits[p] # None
      /\ \A v \in Worker : <<v, p>> \in writes => v = w
  BY <1>1, <1>2 DEF Kept, Place
<1>4. ~Fetched(p)' /\ ~Written(p)' /\ p \in lost' \cup queue' /\ ~Replayed(p)' /\ hits'[p] # None
  BY <1>1, <1>3 DEF Fetched, Written, Replayed
<1>5. Place(p)'
  BY <1>4 DEF Place, Fetched, Written, Replayed
<1>6. p \notin repeatable' => Sole(p)'
  <2>1. p \notin repeatable => delivered[p] = 0
    BY <1>2, CountFacts DEF Kept, Sole
  <2> QED BY <1>1, <1>4, <2>1 DEF Sole, Replayed
<1>7. ASSUME NEW q \in Ping, q # p PROVE Kept(q)'
  <2>1. Elsewhere(q)
    BY <1>1, <1>7 DEF Elsewhere, TypeOK
  <2> QED BY <2>1, KeptElsewhere DEF KeptInv
<1> QED BY <1>5, <1>6, <1>7 DEF KeptInv, Kept

LEMMA ReplayAnsweredKept ==
    ASSUME KeptInv, TypeOK, NEW r \in replays, ReplayAnswered(r)
    PROVE  KeptInv'
<1>1. PICK p : p = r.ping
  OBVIOUS
<1>2. PICK n : n = [r EXCEPT !.answered = TRUE]
  OBVIOUS
<1>3. r \in Replay /\ p \in Ping /\ n.ping = p /\ n.answered
  BY <1>1, <1>2 DEF TypeOK, Replay
<1>4. /\ ~r.answered /\ replays' = (replays \ {r}) \cup {n}
      /\ delivered' = [delivered EXCEPT ![p] = IF @ = 0 THEN 1 ELSE 2]
      /\ UNCHANGED <<hits, fetches, writes, queue, lost, expired, repeatable>>
  BY <1>1, <1>2 DEF ReplayAnswered, Deliver, tracker
<1>5. Kept(p) /\ Replayed(p)
  BY <1>1, <1>3 DEF KeptInv, Replayed
<1>6. ~Fetched(p) /\ ~Written(p) /\ hits[p] # None
  BY <1>5 DEF Kept, Place
<1>7. delivered'[p] > 0 /\ (delivered[p] = 0 => delivered'[p] = 1)
  BY <1>3, <1>4 DEF TypeOK
<1>8. ~Fetched(p)' /\ ~Written(p)' /\ Replayed(p)' /\ hits'[p] # None
  BY <1>3, <1>4, <1>6 DEF Fetched, Written, Replayed
<1>9. Place(p)'
  BY <1>7, <1>8 DEF Place, Fetched, Written
<1>10. ASSUME p \notin repeatable' PROVE Sole(p)'
  <2>1. /\ delivered[p] = 0
        /\ \A s \in replays : s.ping = p => s = r
    BY <1>1, <1>3, <1>4, <1>5, <1>10 DEF Kept, Sole, TypeOK
  <2>2. \A s \in replays' : s.ping = p => s = n
    BY <1>4, <2>1
  <2> QED BY <1>3, <1>7, <1>8, <2>1, <2>2 DEF Sole
<1>11. ASSUME NEW q \in Ping, q # p PROVE Kept(q)'
  <2>1. \A s : s \in replays' /\ s.ping = q <=> s \in replays /\ s.ping = q
    BY <1>1, <1>3, <1>4, <1>11
  <2>2. Elsewhere(q)
    BY <1>4, <1>11, <2>1 DEF Elsewhere, TypeOK
  <2> QED BY <2>2, KeptElsewhere DEF KeptInv
<1> QED BY <1>9, <1>10, <1>11 DEF KeptInv, Kept

LEMMA DeleteKept ==
    ASSUME KeptInv, TypeOK, NEW r \in replays, DeleteReplayed(r)
    PROVE  KeptInv'
<1>1. PICK p : p = r.ping
  OBVIOUS
<1>2. p \in Ping
  BY <1>1 DEF TypeOK, Replay
<1>3. /\ r.answered /\ replays' = replays \ {r}
      /\ \/ queue' = queue \ {p} /\ repeatable' = repeatable
         \/ queue' = queue /\ repeatable' = repeatable \cup {p}
      /\ UNCHANGED <<hits, fetches, writes, delivered, lost, expired>>
  BY <1>1 DEF DeleteReplayed, tracker
<1>4. Kept(p) /\ Replayed(p)
  BY <1>1, <1>2 DEF KeptInv, Replayed
<1>5. ~Fetched(p) /\ ~Written(p) /\ hits[p] # None /\ delivered[p] > 0
  BY <1>1, <1>3, <1>4 DEF Kept, Place
<1>6. ~Fetched(p)' /\ ~Written(p)' /\ hits'[p] # None /\ delivered'[p] > 0
  BY <1>3, <1>5 DEF Fetched, Written
<1>7. Place(p)'
  BY <1>6 DEF Place, Fetched, Written
<1>8. ASSUME p \notin repeatable' PROVE Sole(p)'
  <2>1. delivered'[p] <= 1 /\ p \notin queue' /\ \A s \in replays' : s.ping # p
    BY <1>1, <1>3, <1>4, <1>8 DEF Kept, Sole
  <2> QED BY <1>6, <2>1 DEF Sole
<1>9. ASSUME NEW q \in Ping, q # p PROVE Kept(q)'
  <2>1. \A s : s \in replays' /\ s.ping = q <=> s \in replays /\ s.ping = q
    BY <1>1, <1>3, <1>9
  <2>2. Elsewhere(q)
    BY <1>3, <1>9, <2>1 DEF Elsewhere
  <2> QED BY <2>2, KeptElsewhere DEF KeptInv
<1> QED BY <1>7, <1>8, <1>9 DEF KeptInv, Kept

LEMMA ReplayFailsKept ==
    ASSUME KeptInv, TypeOK, NEW r \in replays, ReplayFails(r)
    PROVE  KeptInv'
<1>1. PICK p : p = r.ping
  OBVIOUS
<1>2. p \in Ping
  BY <1>1 DEF TypeOK, Replay
<1>3. /\ ~r.answered /\ replays' = replays \ {r}
      /\ UNCHANGED <<hits, fetches, writes, lost>>
      /\ repeatable \subseteq repeatable' /\ expired \subseteq expired'
      /\ p \in queue => p \in queue' \cup expired'
      /\ queue' \subseteq queue
      /\ \A q \in Ping : q # p => delivered'[q] = delivered[q] /\ (q \in queue <=> q \in queue')
      /\ (p \notin repeatable' => delivered'[p] = delivered[p]) /\ (delivered[p] > 0 => delivered'[p] > 0)
  <2>1. /\ repeatable \subseteq repeatable'
        /\ \A q \in Ping : q # p => delivered'[q] = delivered[q]
        /\ (p \notin repeatable' => delivered'[p] = delivered[p]) /\ (delivered[p] > 0 => delivered'[p] > 0)
    BY <1>1, <1>2 DEF ReplayFails, Deliver, TypeOK
  <2>2. /\ expired \subseteq expired' /\ queue' \subseteq queue
        /\ p \in queue => p \in queue' \cup expired'
        /\ \A q \in Ping : q # p => (q \in queue <=> q \in queue')
    BY <1>1, <1>2 DEF ReplayFails
  <2> QED BY <2>1, <2>2 DEF ReplayFails, tracker
<1>4. Kept(p) /\ Replayed(p)
  BY <1>1, <1>2 DEF KeptInv, Replayed
<1>5. ~Fetched(p) /\ ~Written(p) /\ hits[p] # None
  BY <1>4 DEF Kept, Place
<1>6. ~Fetched(p)' /\ ~Written(p)' /\ hits'[p] # None
  BY <1>3, <1>5 DEF Fetched, Written
<1>7. delivered'[p] > 0 \/ p \in lost' \cup expired' \cup queue'
  BY <1>3, <1>4, <1>5 DEF Kept, Place
<1>8. \A s \in replays' : s.ping = p /\ s.answered => delivered'[p] > 0
  BY <1>3, <1>4 DEF Kept, Place
<1>9. Place(p)'
  BY <1>6, <1>7, <1>8 DEF Place, Fetched, Written
<1>10. ASSUME p \notin repeatable' PROVE Sole(p)'
  <2>1. delivered'[p] = 0
    BY <1>1, <1>2, <1>3, <1>4, <1>10 DEF Kept, Sole, TypeOK
  <2>2. \A s \in replays' : s.ping # p
    BY <1>1, <1>3, <1>4, <1>10 DEF Kept, Sole
  <2> QED BY <2>1, <2>2 DEF Sole
<1>11. ASSUME NEW q \in Ping, q # p PROVE Kept(q)'
  <2>1. \A s : s \in replays' /\ s.ping = q <=> s \in replays /\ s.ping = q
    BY <1>1, <1>3, <1>11
  <2>2. Elsewhere(q)
    BY <1>3, <1>11, <2>1 DEF Elsewhere
  <2> QED BY <2>2, KeptElsewhere DEF KeptInv
<1> QED BY <1>9, <1>10, <1>11 DEF KeptInv, Kept

-----------------------------------------------------------------------------
(* The invariant is inductive.                                             *)

LEMMA TrackingStep == IInv /\ Tracking => PageInv' /\ KeptInv'
<1> SUFFICES ASSUME TypeOK, PageInv, KeptInv, Tracking PROVE PageInv' /\ KeptInv'
  BY DEF IInv
<1>1. CASE ReadyTimeout
  <2>1. UNCHANGED <<hits, queues>>
    BY <1>1 DEF ReadyTimeout, WorkersUnchanged, queues
  <2> QED BY <1>1, <2>1, ReadyTimeoutStep, KeptFrame
<1>2. CASE UpdateTracker
  <2>1. UNCHANGED <<hits, queues>>
    BY <1>2 DEF UpdateTracker, WorkersUnchanged, queues
  <2> QED BY <1>2, <2>1, UpdateTrackerStep, KeptFrame
<1>3. CASE RunSet
  <2>1. UNCHANGED <<hits, queues>>
    BY <1>3 DEF RunSet, WorkersUnchanged, queues
  <2> QED BY <1>3, <2>1, RunSetStep, KeptFrame
<1>4. CASE RunSend
  BY <1>4, RunSendStep, RunSendKept
<1>5. CASE LogRejectedPromises
  <2>1. UNCHANGED <<hits, queues>>
    BY <1>5 DEF LogRejectedPromises, WorkersUnchanged, queues
  <2> QED BY <1>5, <2>1, LogStep, KeptFrame
<1>6. ASSUME NEW p \in Ping, TrackPageView(p) PROVE PageInv' /\ KeptInv'
  <2>1. UNCHANGED <<hits, queues>>
    BY <1>6 DEF TrackPageView, WorkersUnchanged, queues
  <2> QED BY <1>6, <2>1, TrackPageViewStep, KeptFrame
<1>7. ASSUME NEW p \in Ping, TrackEvent(p) PROVE PageInv' /\ KeptInv'
  <2>1. UNCHANGED <<hits, queues>>
    BY <1>7 DEF TrackEvent, WorkersUnchanged, queues
  <2> QED BY <1>7, <2>1, TrackEventStep, KeptFrame
<1>8. ASSUME NEW p \in Ping, Reject(p) \/ RejectionHandled(p) PROVE PageInv' /\ KeptInv'
  <2>1. UNCHANGED <<hits, queues>>
    BY <1>8 DEF Reject, RejectionHandled, WorkersUnchanged, queues, tracker
  <2> QED BY <1>8, <2>1, RejectSteps, KeptFrame
<1> QED BY <1>1, <1>2, <1>3, <1>4, <1>5, <1>6, <1>7, <1>8 DEF Tracking

LEMMA LifecycleStep == ASSUME IInv, NEW w \in Worker, Lifecycle(w) PROVE PageInv' /\ KeptInv'
<1> USE DEF IInv
<1>1. PageInv'
  <2>1. UNCHANGED <<tracker, rejections>>
    BY DEF Lifecycle, Start, Install, Stop, Kill, StopScript
  <2> QED BY <2>1, PageFrame
<1>2. CASE Start(w) \/ Install(w)
  <2>1. StartScript(w) /\ UNCHANGED <<hits, fetches, writes, delivered, lost, expired>>
    BY <1>2 DEF Start, Install, tracker
  <2> QED BY <1>1, <2>1, StartKept
<1>3. CASE Stop(w) \/ Kill(w)
  <2>1. StopScript(w)
    BY <1>3 DEF Stop, Kill
  <2> QED BY <1>1, <2>1, StopKept
<1> QED BY <1>2, <1>3 DEF Lifecycle

LEMMA DeliveryStep == IInv /\ Delivery => PageInv' /\ KeptInv'
<1> SUFFICES ASSUME IInv, Delivery PROVE PageInv' /\ KeptInv'
  OBVIOUS
<1> USE DEF IInv
<1>1. PageInv'
  <2>1. UNCHANGED <<tracker, rejections>>
    BY DEF Delivery, Work, Activate, InstallFails, PingAnswered, PingFails, StoreQueued,
           ReplayAnswered, DeleteReplayed, ReplayFails
  <2> QED BY <2>1, PageFrame
<1>2. ASSUME NEW w \in Worker, Activate(w) \/ InstallFails(w) PROVE KeptInv'
  <2>1. UNCHANGED <<hits, queues>>
    BY <1>2 DEF Activate, InstallFails, tracker
  <2> QED BY <2>1, KeptFrame
<1>3. ASSUME NEW w \in Worker \cup {None}, NEW p \in Ping, PingAnswered(w, p) \/ PingFails(w, p)
      PROVE  KeptInv'
  BY <1>3, AnsweredKept, FailsKept
<1>4. ASSUME NEW w \in Worker, NEW p \in Ping, StoreQueued(w, p) PROVE KeptInv'
  BY <1>4, StoreKept
<1>5. ASSUME NEW r \in replays, ReplayAnswered(r) \/ DeleteReplayed(r) \/ ReplayFails(r) PROVE KeptInv'
  BY <1>5, ReplayAnsweredKept, DeleteKept, ReplayFailsKept
<1> QED BY <1>1, <1>2, <1>3, <1>4, <1>5 DEF Delivery, Work

LEMMA NetworkStep == IInv /\ (Disconnect \/ Connect \/ UNCHANGED vars) => PageInv' /\ KeptInv'
<1> SUFFICES ASSUME IInv, Disconnect \/ Connect \/ UNCHANGED vars PROVE PageInv' /\ KeptInv'
  OBVIOUS
<1>1. UNCHANGED <<tracker, rejections, hits, queues>>
  BY DEF Disconnect, Connect, vars, tracker
<1> QED BY <1>1, PageFrame, KeptFrame DEF IInv

LEMMA Inductive == Spec => []IInv
<1>1. Init => IInv
  BY InitType, InitPage, InitKept DEF IInv
<1>2. IInv /\ [Next]_vars => IInv'
  <2> SUFFICES ASSUME IInv, [Next]_vars PROVE IInv'
    OBVIOUS
  <2>1. TypeOK'
    BY TypeStep DEF IInv
  <2>2. PageInv' /\ KeptInv'
    BY TrackingStep, LifecycleStep, DeliveryStep, NetworkStep DEF Next
  <2> QED BY <2>1, <2>2 DEF IInv
<1> QED BY <1>1, <1>2, PTL DEF Spec

-----------------------------------------------------------------------------
(* Theorems.                                                               *)

\* A hit says the page where it was tracked, however long the commands waited
\* and wherever the user went meanwhile; one that lacks a required dimension has
\* waited for the timeout.
THEOREM HitsAreFaithful == Spec => []HitsFaithful
<1>1. IInv => HitsFaithful
  BY DEF IInv, PageInv, HitInv, HitsFaithful
<1> QED BY <1>1, Inductive, PTL

\* What was sent is never dropped in silence, through failures, restarts and updates of
\* the worker, but for the exceptions of the property: no worker, one killed before its
\* write, an error of the queue, or a day gone by.  It arrives twice only when an answer
\* or a deletion went missing, or two workers replayed the queue at once.
THEOREM HitsAreAccounted == Spec => []HitsAccounted
<1>1. IInv => HitsAccounted
  <2> SUFFICES ASSUME IInv, NEW p \in Ping
               PROVE  /\ hits[p] # None =>
                           \/ delivered[p] > 0
                           \/ p \in lost \cup expired \cup queue
                           \/ \E w \in Worker \cup {None} : <<w, p>> \in fetches \cup writes
                      /\ delivered[p] > 1 => p \in repeatable
    BY DEF HitsAccounted
  <2>1. Kept(p)
    BY DEF IInv, KeptInv
  <2>2. hits[p] # None => delivered[p] > 0 \/ p \in lost \cup expired \cup queue \/ Fetched(p) \/ Written(p)
    BY <2>1 DEF Kept, Place
  <2>3. delivered[p] > 1 => p \in repeatable
    BY <2>1, CountFacts DEF Kept, Sole, IInv
  <2> QED BY <2>2, <2>3 DEF Fetched, Written
<1> QED BY <1>1, Inductive, PTL

=============================================================================
