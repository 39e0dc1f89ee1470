----------------------- MODULE OfflineWrites_proofs -----------------------
(***************************************************************************)
(* Proofs about OfflineWrites, for any devices, sessions and clocks, and   *)
(* any number of toggles, closed pages, lost connections and errors.       *)
(***************************************************************************)
EXTENDS OfflineWrites, FiniteSetTheorems, FunctionTheorems, TLAPS

-----------------------------------------------------------------------------
(* The inductive invariant.                                                *)

Excused == unsaved \cup exposed \cup misdated

\* Of the writes of a key that was dated well, none is newer than the last toggle l.
Dated(l, w) ==
    w # NoWrite => l # NoWrite /\ w.at <= l.at /\ w.timestamp = w.at

DateInv ==
    \A k \in Key \ misdated :
        /\ last[k] # NoWrite => last[k].at <= now
        /\ Dated(last[k], last[k]) /\ Dated(last[k], server[k])
        /\ \A s \in late : s.key = k => Dated(last[k], s.value)
        /\ \A d \in Device :
             /\ Dated(last[k], updates[d][k])
             /\ \A i \in DOMAIN idb[d] : idb[d][i].key = k => Dated(last[k], idb[d][i].value)
             /\ \A i \in DOMAIN sets[d] : sets[d][i].key = k => Dated(last[k], sets[d][i].value)

\* The database has the write, or a newer one, if s is what it has.
Reached(s, w) == s # NoWrite /\ w.at <= s.at

\* The answers are those of the first sets.
Answered(d) ==
    /\ Len(answers[d]) <= Len(sets[d])
    /\ \A i \in 1..Len(answers[d]) :
         sets[d][i].key \notin misdated => Reached(server[sets[d][i].key], sets[d][i].value)

\* Nothing is set before a page is authorized; what it has only queued until then
\* goes to IndexedDB before everything else.
Staged(d) ==
    /\ ~Authed(d) =>
         /\ sets[d] = <<>> /\ overlapping[d] = {}
         /\ \A i \in DOMAIN idb[d] : idb[d][i].kind = "store"
    /\ \A i, j \in DOMAIN idb[d] :
         idb[d][j].kind = "store" =>
           /\ i < j => idb[d][i].kind = "store"
           /\ idb[d][i].kind # "replay"

\* The requests q and the sets s of a page, for a key without two operations at
\* once: nothing follows an operation until it is answered, and a delete follows
\* only the operation it belongs to.
Alone(q, s, k) ==
    /\ \A i, j \in DOMAIN q :
         i < j /\ q[i].key = k /\ q[j].key = k =>
             q[i].kind \notin {"set", "replay"} /\ q[j].kind # "delete"
    /\ \A i \in DOMAIN q, j \in DOMAIN s : q[i].key = k => s[j].key # k
    /\ \A i, j \in DOMAIN s : s[i].key = k /\ s[j].key = k => i = j

\* Such an operation is in IndexedDB until it is answered, and so is what a page
\* deletes or replays, unless it has reached the database.
Saved(d, k) ==
    /\ \A i \in DOMAIN sets[d] : sets[d][i].key = k => updates[d][k] = sets[d][i].value
    /\ k \notin misdated => \A i \in DOMAIN idb[d] :
         /\ idb[d][i].kind = "delete" /\ idb[d][i].key = k =>
              updates[d][k] = NoWrite \/ Reached(server[k], updates[d][k])
         /\ idb[d][i].kind = "replay" /\ idb[d][i].key = k =>
              updates[d][k] = idb[d][i].value \/ Reached(server[k], idb[d][i].value)

DeviceInv(d) ==
    /\ Answered(d) /\ Staged(d)
    /\ \A k \in Key \ overlapping[d] : Alone(idb[d], sets[d], k)
    /\ \A k \in Key \ (overlapping[d] \cup unsaved) : Saved(d, k)

\* When the requests q are done, IndexedDB will hold w.
Finally(q, u, k, w) ==
    \/ u = w /\ \A i \in DOMAIN q : q[i].key # k
    \/ \E i \in DOMAIN q : /\ q[i].key = k /\ q[i].value = w
                           /\ \A j \in DOMAIN q : i < j => q[j].key # k

\* The write is an operation of the page that has not reached the database.
Pending(q, s, a, k, w) ==
    \/ \E i \in DOMAIN q : /\ q[i].kind \in {"set", "replay"}
                           /\ q[i].key = k /\ q[i].value = w
    \/ \E i \in DOMAIN s : i > Len(a) /\ s[i].key = k /\ s[i].value = w

Kept(d, k, w) ==
    IF k \in overlapping[d]
    THEN Pending(idb[d], sets[d], answers[d], k, w)
    ELSE Finally(idb[d], updates[d][k], k, w)

\* The last toggle has reached the database or will.
LastInv ==
    \A k \in Key \ Excused :
        last[k] # NoWrite => server[k] = last[k] \/ \E d \in Device : Kept(d, k, last[k])

IInv == TypeOK /\ DateInv /\ (\A d \in Device : DeviceInv(d)) /\ LastInv

-----------------------------------------------------------------------------
(* Facts about requests and sequences.                                     *)

LEMMA WriteFacts ==
    /\ NoWrite \notin Write /\ NoKey \notin Key
    /\ \A r \in Request : r.kind \in {"store", "set", "replay"} => r \in Operation
    /\ \A r \in Request : r.kind \in {"store", "set", "replay", "delete", "scan"}
    /\ \A r \in Request : r.kind \in {"delete", "scan"} => r.value = NoWrite
    /\ \A r \in Operation : r \in Request /\ r.key \in Key /\ r.value \in Write
    /\ \A k \in Key : [kind |-> "delete", key |-> k, value |-> NoWrite] \in Request
    /\ [kind |-> "scan", key |-> NoKey, value |-> NoWrite] \in Request
    /\ \A c \in {"store", "set", "replay"}, k \in Key, w \in Write :
         [kind |-> c, key |-> k, value |-> w] \in Operation
BY DeviceAssumption DEF Request, Operation, Write

LEMMA TailFacts ==
    ASSUME NEW S, NEW q \in Seq(S), q # <<>>
    PROVE  /\ Tail(q) \in Seq(S) /\ Len(Tail(q)) = Len(q) - 1
           /\ Len(q) \in Nat /\ Len(q) >= 1 /\ DOMAIN q = 1..Len(q)
           /\ Head(q) = q[1] /\ q[1] \in S /\ 1 \in DOMAIN q
           /\ DOMAIN Tail(q) = 1..(Len(q) - 1)
           /\ \A i \in DOMAIN Tail(q) : i + 1 \in DOMAIN q /\ Tail(q)[i] = q[i + 1]
           /\ \A i \in DOMAIN q : i # 1 => i - 1 \in DOMAIN Tail(q) /\ Tail(q)[i - 1] = q[i]
OBVIOUS

LEMMA AppendFacts ==
    ASSUME NEW S, NEW q \in Seq(S), NEW e \in S
    PROVE  /\ Append(q, e) \in Seq(S) /\ Len(Append(q, e)) = Len(q) + 1
           /\ Len(q) \in Nat /\ DOMAIN q = 1..Len(q)
           /\ DOMAIN Append(q, e) = 1..(Len(q) + 1)
           /\ \A i \in DOMAIN q : i \in DOMAIN Append(q, e) /\ Append(q, e)[i] = q[i]
           /\ Append(q, e)[Len(q) + 1] = e
OBVIOUS

LEMMA ConcatFacts ==
    ASSUME NEW S, NEW q \in Seq(S), NEW p \in Seq(S)
    PROVE  /\ q \o p \in Seq(S) /\ Len(q) \in Nat /\ Len(p) \in Nat
           /\ DOMAIN q = 1..Len(q) /\ DOMAIN p = 1..Len(p)
           /\ DOMAIN (q \o p) = 1..(Len(q) + Len(p))
           /\ \A i \in DOMAIN q : i \in DOMAIN (q \o p) /\ (q \o p)[i] = q[i]
           /\ \A i \in DOMAIN p : /\ Len(q) + i \in DOMAIN (q \o p)
                                  /\ (q \o p)[Len(q) + i] = p[i]
           /\ \A i \in DOMAIN (q \o p) : i \in DOMAIN q \/ i - Len(q) \in DOMAIN p
OBVIOUS

LEMMA TypeFacts ==
    ASSUME IInv, NEW d \in Device
    PROVE  /\ idb[d] \in Seq(Request) /\ Len(idb[d]) \in Nat /\ DOMAIN idb[d] = 1..Len(idb[d])
           /\ sets[d] \in Seq(Operation) /\ Len(sets[d]) \in Nat /\ DOMAIN sets[d] = 1..Len(sets[d])
           /\ answers[d] \in Seq(BOOLEAN) /\ Len(answers[d]) \in Nat
           /\ updates[d] \in [Key -> Write \cup {NoWrite}]
           /\ \A i \in DOMAIN idb[d] : idb[d][i] \in Request
           /\ \A i \in DOMAIN sets[d] : sets[d][i] \in Operation
           /\ overlapping[d] \subseteq Key
BY DEF IInv, TypeOK

-----------------------------------------------------------------------------
(* What a step leaves alone.                                               *)

\* The database never goes back.
Grows == \A k \in Key \ misdated, w \in Write : Reached(server[k], w) => Reached(server'[k], w)

Same(e) ==
    UNCHANGED <<idb[e], sets[e], answers[e], updates[e], overlapping[e]>>

LEMMA SameDevice ==
    ASSUME IInv, NEW e \in Device, Same(e), Authed(e) => Authed(e)',
           Grows, unsaved \subseteq unsaved', misdated \subseteq misdated'
    PROVE  DeviceInv(e)'
<1>1. DeviceInv(e)
  BY DEF IInv
<1>2. Answered(e)'
  <2>1. Answered(e) /\ sets'[e] = sets[e] /\ answers'[e] = answers[e]
    BY <1>1 DEF DeviceInv, Same
  <2>2. ASSUME NEW i \in 1..Len(answers[e]), sets[e][i].key \notin misdated'
        PROVE  Reached(server'[sets[e][i].key], sets[e][i].value)
    <3>1. i \in DOMAIN sets[e]
      BY <2>1, TypeFacts DEF Answered
    <3>2. sets[e][i].key \in Key \ misdated /\ sets[e][i].value \in Write
      BY <2>2, <3>1, TypeFacts, WriteFacts
    <3> QED BY <2>1, <3>2 DEF Answered, Grows
  <2> QED BY <2>1, <2>2 DEF Answered
<1>3. Staged(e)'
  BY <1>1 DEF DeviceInv, Staged, Same
<1>4. \A k \in Key \ overlapping'[e] : Alone(idb[e], sets[e], k)'
  BY <1>1 DEF DeviceInv, Alone, Same
<1>5. \A k \in Key \ (overlapping'[e] \cup unsaved') : Saved(e, k)'
  <2> SUFFICES ASSUME NEW k \in Key \ (overlapping'[e] \cup unsaved') PROVE Saved(e, k)'
    OBVIOUS
  <2>1. Saved(e, k) /\ UNCHANGED <<idb[e], sets[e], updates[e]>>
    BY <1>1 DEF DeviceInv, Same
  <2>2. \A w \in Write : k \notin misdated' /\ Reached(server[k], w) => Reached(server'[k], w)
    BY DEF Grows
  <2>3. updates[e][k] \in Write \cup {NoWrite}
    BY TypeFacts
  <2>4. \A i \in DOMAIN idb[e] : idb[e][i].kind = "replay" => idb[e][i].value \in Write
    BY TypeFacts, WriteFacts
  <2> QED BY <2>1, <2>2, <2>3, <2>4 DEF Saved
<1> QED BY <1>2, <1>3, <1>4, <1>5 DEF DeviceInv, Same

LEMMA SameKept ==
    ASSUME NEW e \in Device, Same(e), NEW k, NEW w
    PROVE  Kept(e, k, w) <=> Kept(e, k, w)'
BY DEF Same, Kept, Finally, Pending

\* A step of one device that is not a toggle.
LEMMA LocalStep ==
    ASSUME IInv, NEW d \in Device, TypeOK', DateInv', DeviceInv(d)', UNCHANGED last, Grows,
           \A e \in Device \ {d} : Same(e) /\ (Authed(e) => Authed(e)'),
           unsaved \subseteq unsaved', exposed \subseteq exposed', misdated \subseteq misdated',
           \A k \in Key \ Excused' : last[k] # NoWrite =>
              /\ server[k] = last[k] => server'[k] = last[k]
              /\ Kept(d, k, last[k]) => server'[k] = last[k] \/ Kept(d, k, last[k])'
    PROVE  IInv'
<1>1. \A e \in Device : DeviceInv(e)'
  BY SameDevice
<1>2. ASSUME NEW k \in Key \ Excused', last[k] # NoWrite
      PROVE  server'[k] = last[k] \/ \E e \in Device : Kept(e, k, last[k])'
  <2>1. k \in Key \ Excused
    BY DEF Excused
  <2>2. server[k] = last[k] \/ \E e \in Device : Kept(e, k, last[k])
    BY <1>2, <2>1 DEF IInv, LastInv
  <2>3. \A e \in Device \ {d} : Kept(e, k, last[k]) => Kept(e, k, last[k])'
    BY SameKept
  <2> QED BY <1>2, <2>2, <2>3
<1>3. LastInv'
  BY <1>2 DEF LastInv
<1> QED BY <1>1, <1>3 DEF IInv

\* A value that something in the system holds for a key.
Known(k, w) ==
    \/ w = NoWrite \/ w = server[k]
    \/ \E s \in late : s.key = k /\ s.value = w
    \/ \E d \in Device :
         \/ updates[d][k] = w
         \/ \E i \in DOMAIN idb[d] : idb[d][i].key = k /\ idb[d][i].value = w
         \/ \E i \in DOMAIN sets[d] : sets[d][i].key = k /\ sets[d][i].value = w

\* A step that only moves values keeps the dates.
LEMMA DateStep ==
    ASSUME IInv, NEW d \in Device, UNCHANGED <<now, last, misdated>>,
           \A e \in Device \ {d} : UNCHANGED <<updates[e], idb[e], sets[e]>>,
           \A k \in Key : Known(k, server'[k]) /\ Known(k, updates'[d][k]),
           \A s \in late' : Known(s.key, s.value),
           \A i \in DOMAIN idb'[d] : Known(idb'[d][i].key, idb'[d][i].value),
           \A i \in DOMAIN sets'[d] : Known(sets'[d][i].key, sets'[d][i].value)
    PROVE  DateInv'
<1>1. \A k \in Key \ misdated : \A w : Known(k, w) => Dated(last[k], w)
  BY DEF IInv, DateInv, Known, Dated
<1> SUFFICES ASSUME NEW k \in Key \ misdated
             PROVE  /\ last[k] # NoWrite => last[k].at <= now
                    /\ Dated(last[k], last[k]) /\ Dated(last[k], server'[k])
                    /\ \A s \in late' : s.key = k => Dated(last[k], s.value)
                    /\ \A e \in Device :
                         /\ Dated(last[k], updates'[e][k])
                         /\ \A i \in DOMAIN idb'[e] :
                              idb'[e][i].key = k => Dated(last[k], idb'[e][i].value)
                         /\ \A i \in DOMAIN sets'[e] :
                              sets'[e][i].key = k => Dated(last[k], sets'[e][i].value)
  BY DEF DateInv
<1>2. (last[k] # NoWrite => last[k].at <= now) /\ Dated(last[k], last[k])
  BY DEF IInv, DateInv
<1>3. \A e \in Device \ {d} :
        /\ Dated(last[k], updates'[e][k])
        /\ \A i \in DOMAIN idb'[e] : idb'[e][i].key = k => Dated(last[k], idb'[e][i].value)
        /\ \A i \in DOMAIN sets'[e] : sets'[e][i].key = k => Dated(last[k], sets'[e][i].value)
  BY DEF IInv, DateInv
<1> QED BY <1>1, <1>2, <1>3

-----------------------------------------------------------------------------
(* The steps.                                                              *)

LEMMA InitInv == Init => IInv
<1> SUFFICES ASSUME Init PROVE IInv
  OBVIOUS
<1>1. TypeOK
  BY DeviceAssumption DEF Init, TypeOK
<1>2. DateInv
  BY DEF Init, DateInv, Dated
<1>3. \A d \in Device : DeviceInv(d)
  BY DEF Init, DeviceInv, Answered, Staged, Alone, Saved
<1>4. LastInv
  BY DEF Init, LastInv
<1> QED BY <1>1, <1>2, <1>3, <1>4 DEF IInv

\* The connection and the progress of the page.
LEMMA PageStep ==
    ASSUME IInv, TypeOK', UNCHANGED <<now, server, late, updates, idb, sets, history>>,
           answers' = answers \/ (\E d \in Device : answers' = [answers EXCEPT ![d] = <<>>]),
           \A d \in Device : Authed(d) => Authed(d)'
    PROVE  IInv'
<1>0. UNCHANGED <<last, overlapping, unsaved, exposed, misdated>>
  BY DEF history
<1>1. DateInv'
  BY <1>0 DEF IInv, DateInv, Dated
<1>2. \A d \in Device : answers'[d] = answers[d] \/ answers'[d] = <<>>
  BY DEF IInv, TypeOK
<1>3. ASSUME NEW d \in Device PROVE DeviceInv(d)'
  <2>1. DeviceInv(d)
    BY DEF IInv
  <2>2. Answered(d)'
    BY <1>0, <1>2, <2>1, TypeFacts DEF DeviceInv, Answered, Reached
  <2>3. Staged(d)'
    BY <1>0, <2>1 DEF DeviceInv, Staged
  <2> QED BY <1>0, <2>1, <2>2, <2>3 DEF DeviceInv, Alone, Saved, Reached
<1>4. \A d \in Device, k \in Key, w \in Write : Kept(d, k, w) => Kept(d, k, w)'
  <2> SUFFICES ASSUME NEW d \in Device, NEW k \in Key, NEW w \in Write, Kept(d, k, w)
               PROVE  Kept(d, k, w)'
    OBVIOUS
  <2>1. Len(answers'[d]) <= Len(answers[d]) /\ Len(answers'[d]) \in Nat
    BY <1>2, TypeFacts
  <2>2. Pending(idb[d], sets[d], answers[d], k, w) => Pending(idb[d], sets[d], answers[d], k, w)'
    BY <2>1, TypeFacts DEF Pending
  <2> QED BY <1>0, <2>2 DEF Kept, Finally
<1>5. LastInv'
  BY <1>0, <1>4 DEF IInv, LastInv, TypeOK, Excused
<1> QED BY <1>1, <1>3, <1>5 DEF IInv

LEMMA ToggleStep == ASSUME IInv, NEW d \in Device, NEW k \in Key, Toggle(d, k) PROVE IInv'
<1> PICK w : w = [at |-> now + 1, timestamp |-> now + 1 + Skew[d] + clockOffset[d]]
  OBVIOUS
<1> PICK c : c = IF Authed(d) THEN "set" ELSE "store"
  OBVIOUS
<1> PICK r : r = [kind |-> c, key |-> k, value |-> w]
  OBVIOUS
<1>1. /\ now' = now + 1 /\ idb' = [idb EXCEPT ![d] = Append(@, r)]
      /\ overlapping' = [overlapping EXCEPT ![d] = @ \cup ({k} \cap UnderWay(d))]
      /\ last' = [last EXCEPT ![k] = w]
      /\ misdated' = IF w.timestamp = w.at THEN misdated ELSE misdated \cup {k}
      /\ UNCHANGED <<server, late, page, remembered, online, clockOffset, updates, sets, answers, used,
                     unsaved, exposed>>
  BY DEF Toggle, pageVars
<1>2. w \in Write /\ w # NoWrite /\ w.at = now + 1 /\ now \in Nat
  <2>1. Skew[d] \in Int /\ clockOffset[d] \in Int /\ now \in Nat
    BY DeviceAssumption DEF IInv, TypeOK
  <2> QED BY <2>1, WriteFacts DEF Write
<1>3. c \in {"store", "set"} /\ r \in Operation /\ r \in Request
  BY <1>2, WriteFacts
<1>4. /\ r.kind = c /\ r.key = k /\ r.value = w
      /\ Authed(d) => c = "set"
      /\ ~Authed(d) => c = "store"
  OBVIOUS
<1>5. idb'[d] \in Seq(Request) /\ \A e \in Device \ {d} : idb'[e] = idb[e]
  BY <1>1, <1>3, AppendFacts DEF IInv, TypeOK
<1>6. TypeOK'
  <2>1. idb' \in [Device -> Seq(Request)]
    BY <1>1, <1>3, AppendFacts DEF IInv, TypeOK
  <2>2. overlapping' \in [Device -> SUBSET Key] /\ misdated' \subseteq Key
    BY <1>1 DEF IInv, TypeOK
  <2>3. last' \in [Key -> Write \cup {NoWrite}]
    BY <1>1, <1>2 DEF IInv, TypeOK
  <2> QED BY <1>1, <1>2, <2>1, <2>2, <2>3 DEF IInv, TypeOK
<1>7. /\ DOMAIN idb'[d] = 1..(Len(idb[d]) + 1) /\ idb'[d][Len(idb[d]) + 1] = r
      /\ \A i \in DOMAIN idb[d] : i \in DOMAIN idb'[d] /\ idb'[d][i] = idb[d][i]
      /\ DOMAIN idb[d] = 1..Len(idb[d]) /\ Len(idb[d]) \in Nat
  BY <1>1, <1>3, TypeFacts, AppendFacts DEF IInv, TypeOK
<1>8. DateInv'
  <2> SUFFICES ASSUME NEW h \in Key \ misdated'
               PROVE  /\ last'[h] # NoWrite => last'[h].at <= now'
                      /\ Dated(last'[h], last'[h]) /\ Dated(last'[h], server'[h])
                      /\ \A s \in late' : s.key = h => Dated(last'[h], s.value)
                      /\ \A e \in Device :
                           /\ Dated(last'[h], updates'[e][h])
                           /\ \A i \in DOMAIN idb'[e] :
                                idb'[e][i].key = h => Dated(last'[h], idb'[e][i].value)
                           /\ \A i \in DOMAIN sets'[e] :
                                sets'[e][i].key = h => Dated(last'[h], sets'[e][i].value)
    BY DEF DateInv
  <2>1. h \in Key \ misdated /\ last'[h] = IF h = k THEN w ELSE last[h]
    BY <1>1 DEF IInv, TypeOK
  <2>2. h = k => w.timestamp = w.at
    BY <1>1
  <2>3. \A x \in Write \cup {NoWrite} : Dated(last[h], x) => Dated(last'[h], x)
    BY <1>1, <1>2, <2>1 DEF IInv, DateInv, Dated, TypeOK, Write
  <2>4. h = k => Dated(last'[h], w)
    BY <1>2, <2>1, <2>2 DEF Dated
  <2>5. last'[h] # NoWrite => last'[h].at <= now'
    BY <1>1, <1>2, <2>1 DEF IInv, DateInv, TypeOK, Write
  <2>6. Dated(last'[h], last'[h]) /\ Dated(last'[h], server'[h])
    BY <1>1, <2>1, <2>3, <2>4 DEF IInv, DateInv, TypeOK
  <2>7. \A s \in late' : s.key = h => Dated(last'[h], s.value)
    BY <1>1, <2>1, <2>3 DEF IInv, DateInv, TypeOK
  <2>8. \A e \in Device : Dated(last'[h], updates'[e][h])
    BY <1>1, <2>1, <2>3, TypeFacts DEF IInv, DateInv
  <2>9. \A e \in Device : \A i \in DOMAIN idb'[e] : idb'[e][i].key = h => Dated(last'[h], idb'[e][i].value)
    <3> SUFFICES ASSUME NEW e \in Device, NEW i \in DOMAIN idb'[e], idb'[e][i].key = h
                 PROVE  Dated(last'[h], idb'[e][i].value)
      OBVIOUS
    <3>1. CASE i \in DOMAIN idb[e] /\ idb'[e][i] = idb[e][i]
      <4>1. Dated(last[h], idb[e][i].value)
        BY <2>1, <3>1 DEF IInv, DateInv
      <4>2. idb[e][i].value \in Write \cup {NoWrite}
        BY <3>1, TypeFacts, WriteFacts DEF Request
      <4> QED BY <2>3, <3>1, <4>1, <4>2
    <3>2. CASE e = d /\ i = Len(idb[d]) + 1
      BY <1>4, <1>7, <2>4, <3>2
    <3> QED BY <1>5, <1>7, <3>1, <3>2
  <2>10. \A e \in Device : \A i \in DOMAIN sets'[e] : sets'[e][i].key = h => Dated(last'[h], sets'[e][i].value)
    BY <1>1, <2>1, <2>3, TypeFacts, WriteFacts DEF IInv, DateInv
  <2> QED BY <2>5, <2>6, <2>7, <2>8, <2>9, <2>10
<1>9. \A h \in Key : \A x : Reached(server[h], x) <=> Reached(server'[h], x)
  BY <1>1 DEF Reached
<1>10. \A e \in Device : Authed(e) <=> Authed(e)'
  BY <1>1 DEF Authed
<1>11. DeviceInv(d)'
  <2>1. DeviceInv(d)
    BY DEF IInv
  <2>2. overlapping'[d] = overlapping[d] \cup ({k} \cap UnderWay(d))
    BY <1>1 DEF IInv, TypeOK
  <2>3. Answered(d)'
    BY <1>1, <1>9, <2>1, TypeFacts, WriteFacts DEF DeviceInv, Answered
  <2>4. k \in UnderWay(d) => Authed(d)
    BY <2>1 DEF DeviceInv, Staged, UnderWay, KeysOf, ToSet
  <2>5. Staged(d)'
    <3>1. ~Authed(d)' => /\ sets'[d] = <<>> /\ overlapping'[d] = {}
                         /\ \A i \in DOMAIN idb'[d] : idb'[d][i].kind = "store"
      BY <1>1, <1>4, <1>7, <1>10, <2>1, <2>2, <2>4 DEF DeviceInv, Staged
    <3>2. ASSUME NEW i \in DOMAIN idb'[d], NEW j \in DOMAIN idb'[d], idb'[d][j].kind = "store"
          PROVE  (i < j => idb'[d][i].kind = "store") /\ idb'[d][i].kind # "replay"
      <4>1. CASE j \in DOMAIN idb[d] /\ i \in DOMAIN idb[d]
        BY <1>7, <2>1, <3>2, <4>1 DEF DeviceInv, Staged
      <4>2. CASE j = Len(idb[d]) + 1
        <5>1. ~Authed(d)
          BY <1>4, <1>7, <3>2, <4>2
        <5> QED BY <1>10, <3>1, <5>1
      <4>3. CASE j \in DOMAIN idb[d] /\ i = Len(idb[d]) + 1
        BY <1>3, <1>4, <1>7, <4>3
      <4> QED BY <1>7, <4>1, <4>2, <4>3
    <3> QED BY <3>1, <3>2 DEF Staged
  <2>6. ASSUME NEW h \in Key \ overlapping'[d] PROVE Alone(idb'[d], sets'[d], h)
    <3>1. Alone(idb[d], sets[d], h) /\ sets'[d] = sets[d]
      BY <1>1, <2>1, <2>2 DEF DeviceInv
    <3>2. CASE h # k
      BY <1>4, <1>7, <3>1, <3>2 DEF Alone
    <3>3. CASE h = k
      <4>1. k \notin UnderWay(d)
        BY <2>2, <2>6, <3>3
      <4>2. /\ \A i \in DOMAIN idb[d] : idb[d][i].key = k => idb[d][i].kind \notin {"set", "replay"}
            /\ \A i \in DOMAIN sets[d] : sets[d][i].key # k
        BY <4>1 DEF UnderWay, KeysOf, ToSet
      <4> QED BY <1>3, <1>4, <1>7, <3>1, <3>3, <4>2 DEF Alone
    <3> QED BY <3>2, <3>3
  <2>7. ASSUME NEW h \in Key \ (overlapping'[d] \cup unsaved') PROVE Saved(d, h)'
    <3>1. Saved(d, h) /\ sets'[d] = sets[d] /\ updates'[d] = updates[d] /\ misdated \subseteq misdated'
      BY <1>1, <2>1, <2>2 DEF DeviceInv
    <3>2. h \notin misdated' => h \notin misdated
      BY <3>1
    <3>3. \A i \in DOMAIN idb'[d] : i \notin DOMAIN idb[d] => idb'[d][i].kind \in {"set", "store"}
      BY <1>3, <1>4, <1>7
    <3>4. server' = server
      BY <1>1
    <3> QED BY <1>7, <3>1, <3>2, <3>3, <3>4 DEF Saved
  <2> QED BY <2>3, <2>5, <2>6, <2>7 DEF DeviceInv
<1>12. \A e \in Device \ {d} : DeviceInv(e)'
  <2>1. Grows /\ unsaved \subseteq unsaved' /\ misdated \subseteq misdated'
    BY <1>1, <1>9 DEF Grows
  <2>2. \A e \in Device \ {d} : Same(e)
    BY <1>1, <1>5 DEF IInv, TypeOK, Same
  <2> QED BY <1>10, <2>1, <2>2, SameDevice
<1>13. LastInv'
  <2> SUFFICES ASSUME NEW h \in Key \ Excused', last'[h] # NoWrite
               PROVE  server'[h] = last'[h] \/ \E e \in Device : Kept(e, h, last[h])'
    BY DEF LastInv
  <2>1. h \in Key \ Excused
    BY <1>1 DEF Excused
  <2>2. CASE h # k
    <3>1. last'[h] = last[h]
      BY <1>1, <2>2 DEF IInv, TypeOK
    <3>2. server[h] = last[h] \/ \E e \in Device : Kept(e, h, last[h])
      BY <2>1, <3>1 DEF IInv, LastInv
    <3>3. \A e \in Device : Kept(e, h, last[h]) => Kept(e, h, last[h])'
      <4> SUFFICES ASSUME NEW e \in Device, Kept(e, h, last[h]) PROVE Kept(e, h, last[h])'
        OBVIOUS
      <4>1. CASE e # d
        BY <1>1, <1>5, <3>1, <4>1 DEF IInv, TypeOK, Kept, Finally, Pending
      <4>2. CASE e = d
        <5>1. h \in overlapping'[d] <=> h \in overlapping[d]
          BY <1>1, <2>2 DEF IInv, TypeOK
        <5>2. Pending(idb[d], sets[d], answers[d], h, last[h]) =>
                Pending(idb'[d], sets'[d], answers'[d], h, last'[h])
          BY <1>1, <1>7, <3>1 DEF Pending
        <5>3. Finally(idb[d], updates[d][h], h, last[h]) =>
                Finally(idb'[d], updates'[d][h], h, last'[h])
          BY <1>1, <1>4, <1>7, <2>2, <3>1 DEF Finally
        <5> QED BY <4>2, <5>1, <5>2, <5>3 DEF Kept
      <4> QED BY <4>1, <4>2
    <3> QED BY <1>1, <3>1, <3>2, <3>3
  <2>3. CASE h = k
    <3>1. last'[h] = w
      BY <1>1, <2>3 DEF IInv, TypeOK
    <3>2. Finally(idb'[d], updates'[d][h], h, w)
      BY <1>4, <1>7, <2>3 DEF Finally
    <3>3. k \in overlapping'[d] => Authed(d)
      <4>1. Staged(d)
        BY DEF IInv, DeviceInv
      <4>2. overlapping'[d] = overlapping[d] \cup ({k} \cap UnderWay(d))
        BY <1>1 DEF IInv, TypeOK
      <4> QED BY <4>1, <4>2 DEF Staged, UnderWay, KeysOf, ToSet
    <3>4. Authed(d) => Pending(idb'[d], sets'[d], answers'[d], h, w)
      BY <1>4, <1>7, <2>3 DEF Pending
    <3> QED BY <2>3, <3>1, <3>2, <3>3, <3>4 DEF Kept
  <2> QED BY <2>2, <2>3
<1> QED BY <1>6, <1>8, <1>11, <1>12, <1>13 DEF IInv

LEMMA QueueStep == ASSUME IInv, NEW d \in Device, QueueOperation(d) PROVE IInv'
<1> PICK r : r = Head(idb[d])
  OBVIOUS
<1>1. /\ idb[d] # <<>> /\ r.kind \in {"store", "set", "replay"}
      /\ idb' = [idb EXCEPT ![d] = Tail(@)]
      /\ \/ updates' = [updates EXCEPT ![d][r.key] = r.value] /\ UNCHANGED <<used, unsaved>>
         \/ /\ used' = [used EXCEPT !["faults"] = @ + 1]
            /\ unsaved' = unsaved \cup {r.key} /\ UNCHANGED updates
      /\ sets' = IF r.kind = "store" THEN sets ELSE [sets EXCEPT ![d] = Append(@, r)]
      /\ UNCHANGED <<now, server, late, page, remembered, online, clockOffset, answers, last, overlapping,
                     exposed, misdated>>
  BY DEF QueueOperation, Use, pageVars
<1>2. /\ idb'[d] = Tail(idb[d]) /\ Tail(idb[d]) \in Seq(Request)
      /\ DOMAIN idb[d] = 1..Len(idb[d]) /\ Len(idb[d]) \in Nat /\ 1 \in DOMAIN idb[d]
      /\ idb[d][1] = r
      /\ \A i \in DOMAIN idb'[d] : i + 1 \in DOMAIN idb[d] /\ idb'[d][i] = idb[d][i + 1] /\ i \in Nat \ {0}
      /\ \A i \in DOMAIN idb[d] : i # 1 => i - 1 \in DOMAIN idb'[d] /\ idb'[d][i - 1] = idb[d][i]
  BY <1>1, TypeFacts, TailFacts DEF IInv, TypeOK
<1>3. r \in Operation /\ r.key \in Key /\ r.value \in Write
  BY <1>1, <1>2, TypeFacts, WriteFacts
<1>4. /\ sets'[d] \in Seq(Operation)
      /\ DOMAIN sets[d] = 1..Len(sets[d]) /\ Len(sets[d]) \in Nat
      /\ DOMAIN sets'[d] = IF r.kind = "store" THEN DOMAIN sets[d] ELSE 1..(Len(sets[d]) + 1)
      /\ \A i \in DOMAIN sets[d] : i \in DOMAIN sets'[d] /\ sets'[d][i] = sets[d][i]
      /\ r.kind # "store" => sets'[d][Len(sets[d]) + 1] = r
      /\ Len(sets'[d]) >= Len(sets[d])
  BY <1>1, <1>3, TypeFacts, AppendFacts DEF IInv, TypeOK
<1>5. /\ updates'[d] = updates[d] \/ updates'[d] = [updates[d] EXCEPT ![r.key] = r.value]
      /\ r.key \notin unsaved' => updates'[d] = [updates[d] EXCEPT ![r.key] = r.value]
      /\ unsaved \subseteq unsaved' /\ unsaved' \subseteq Key
      /\ updates' \in [Device -> [Key -> Write \cup {NoWrite}]]
  <2>1. updates \in [Device -> [Key -> Write \cup {NoWrite}]] /\ unsaved \subseteq Key
    BY DEF IInv, TypeOK
  <2>2. CASE updates' = [updates EXCEPT ![d][r.key] = r.value] /\ UNCHANGED unsaved
    <3>1. updates' = [updates EXCEPT ![d] = [updates[d] EXCEPT ![r.key] = r.value]]
      BY <2>2
    <3>2. [updates[d] EXCEPT ![r.key] = r.value] \in [Key -> Write \cup {NoWrite}]
      BY <1>3, <2>1
    <3> QED BY <2>1, <2>2, <3>1, <3>2
  <2>3. CASE unsaved' = unsaved \cup {r.key} /\ UNCHANGED updates
    BY <1>3, <2>1, <2>3
  <2> QED BY <1>1, <2>2, <2>3
<1>6. TypeOK'
  <2>1. idb' \in [Device -> Seq(Request)] /\ sets' \in [Device -> Seq(Operation)]
    BY <1>1, <1>2, <1>3, AppendFacts DEF IInv, TypeOK
  <2>2. used' \in [{"drops", "closes", "faults"} -> Nat]
    BY <1>1 DEF IInv, TypeOK
  <2> QED BY <1>1, <1>5, <2>1, <2>2 DEF IInv, TypeOK
<1>7. \A e \in Device \ {d} : Same(e) /\ (Authed(e) => Authed(e)')
  BY <1>1 DEF Same, Authed, IInv, TypeOK
<1>8. DateInv'
  <2>1. Known(r.key, r.value)
    BY <1>2 DEF Known
  <2>2. \A k \in Key : Known(k, server'[k]) /\ Known(k, updates'[d][k])
    <3>1. \A k \in Key : Known(k, updates[d][k]) /\ Known(k, server[k])
      BY DEF Known
    <3>2. \A k \in Key : updates'[d][k] = updates[d][k] \/ (k = r.key /\ updates'[d][k] = r.value)
      BY <1>3, <1>5, TypeFacts
    <3> QED BY <1>1, <2>1, <3>1, <3>2
  <2>3. \A s \in late' : Known(s.key, s.value)
    BY <1>1 DEF Known
  <2>4. \A i \in DOMAIN idb'[d] : Known(idb'[d][i].key, idb'[d][i].value)
    BY <1>2 DEF Known
  <2>5. \A i \in DOMAIN sets'[d] : Known(sets'[d][i].key, sets'[d][i].value)
    <3> SUFFICES ASSUME NEW i \in DOMAIN sets'[d] PROVE Known(sets'[d][i].key, sets'[d][i].value)
      OBVIOUS
    <3>1. CASE i \in DOMAIN sets[d]
      BY <1>4, <3>1 DEF Known
    <3>2. CASE i \notin DOMAIN sets[d]
      BY <1>4, <2>1, <3>2
    <3> QED BY <3>1, <3>2
  <2>6. \A e \in Device \ {d} : UNCHANGED <<updates[e], idb[e], sets[e]>>
    BY <1>7 DEF Same
  <2> QED BY <1>1, <2>2, <2>3, <2>4, <2>5, <2>6, DateStep
<1>9. DeviceInv(d)'
  <2>1. DeviceInv(d)
    BY DEF IInv
  <2>2. Answered(d)'
    <3>1. \A i \in 1..Len(answers[d]) : i \in DOMAIN sets[d]
      BY <1>4, <2>1, TypeFacts DEF DeviceInv, Answered
    <3> QED BY <1>1, <1>4, <2>1, <3>1, TypeFacts DEF DeviceInv, Answered, Reached
  <2>3. Staged(d)'
    <3>1. ~Authed(d)' => ~Authed(d) /\ r.kind = "store"
      BY <1>1, <1>2, <2>1 DEF Authed, DeviceInv, Staged
    <3> QED BY <1>1, <1>2, <2>1, <3>1 DEF DeviceInv, Staged
  <2>4. ASSUME NEW k \in Key \ overlapping'[d] PROVE Alone(idb'[d], sets'[d], k)
    <3>1. Alone(idb[d], sets[d], k)
      BY <1>1, <2>1 DEF DeviceInv
    <3>2. \A i \in DOMAIN idb'[d], j \in DOMAIN idb'[d] :
            i < j /\ idb'[d][i].key = k /\ idb'[d][j].key = k =>
               idb'[d][i].kind \notin {"set", "replay"} /\ idb'[d][j].kind # "delete"
      BY <1>2, <3>1 DEF Alone
    <3>3. \A i \in DOMAIN idb'[d], j \in DOMAIN sets'[d] : idb'[d][i].key = k => sets'[d][j].key # k
      <4> SUFFICES ASSUME NEW i \in DOMAIN idb'[d], NEW j \in DOMAIN sets'[d], idb'[d][i].key = k,
                          sets'[d][j].key = k
                   PROVE  FALSE
        OBVIOUS
      <4>1. i + 1 \in DOMAIN idb[d] /\ idb[d][i + 1].key = k /\ 1 < i + 1
        BY <1>2
      <4>2. j \notin DOMAIN sets[d] => r.kind # "store" /\ r.key = k
        BY <1>4
      <4>3. j \notin DOMAIN sets[d]
        BY <1>4, <3>1, <4>1 DEF Alone
      <4> QED BY <1>1, <1>2, <3>1, <4>1, <4>2, <4>3 DEF Alone
    <3>4. \A i, j \in DOMAIN sets'[d] : sets'[d][i].key = k /\ sets'[d][j].key = k => i = j
      <4> SUFFICES ASSUME NEW i \in DOMAIN sets'[d], NEW j \in DOMAIN sets'[d],
                          sets'[d][i].key = k, sets'[d][j].key = k
                   PROVE  i = j
        OBVIOUS
      <4>1. r.kind # "store" /\ r.key = k => \A n \in DOMAIN sets[d] : sets[d][n].key # k
        BY <1>2, <3>1 DEF Alone
      <4>2. \A n \in DOMAIN sets'[d] \ DOMAIN sets[d] :
              n = Len(sets[d]) + 1 /\ r.kind # "store" /\ sets'[d][n] = r
        BY <1>4
      <4>3. CASE i \in DOMAIN sets[d] /\ j \in DOMAIN sets[d]
        BY <1>4, <3>1, <4>3 DEF Alone
      <4> QED BY <1>4, <4>1, <4>2, <4>3
    <3> QED BY <3>2, <3>3, <3>4 DEF Alone
  <2>5. ASSUME NEW k \in Key \ (overlapping'[d] \cup unsaved') PROVE Saved(d, k)'
    <3>1. Saved(d, k) /\ Alone(idb[d], sets[d], k) /\ Staged(d)
      BY <1>1, <1>5, <2>1, <2>5 DEF DeviceInv
    <3>2. updates'[d][k] = IF k = r.key THEN r.value ELSE updates[d][k]
      BY <1>3, <1>5, <2>5, TypeFacts
    <3>6. \A i, j \in DOMAIN idb[d] :
            i < j /\ idb[d][i].key = k /\ idb[d][j].key = k =>
               idb[d][i].kind \notin {"set", "replay"} /\ idb[d][j].kind # "delete"
      BY <3>1 DEF Alone
    <3>7. \A i \in DOMAIN sets[d] : k = r.key => sets[d][i].key # k
      BY <1>2, <3>1 DEF Alone
    <3>3. \A i \in DOMAIN sets'[d] : sets'[d][i].key = k => updates'[d][k] = sets'[d][i].value
      <4> SUFFICES ASSUME NEW i \in DOMAIN sets'[d], sets'[d][i].key = k
                   PROVE  updates'[d][k] = sets'[d][i].value
        OBVIOUS
      <4>1. CASE i \in DOMAIN sets[d]
        BY <1>4, <3>1, <3>2, <3>7, <4>1 DEF Saved
      <4>2. CASE i \notin DOMAIN sets[d]
        BY <1>4, <3>2, <4>2
      <4> QED BY <4>1, <4>2
    <3>4. ASSUME k = r.key
          PROVE  \A i \in DOMAIN idb'[d] : idb'[d][i].key = k => idb'[d][i].kind \notin {"delete", "replay"}
      <4> SUFFICES ASSUME NEW i \in DOMAIN idb'[d], idb'[d][i].key = k
                   PROVE  idb'[d][i].kind \notin {"delete", "replay"}
        OBVIOUS
      <4>1. /\ i + 1 \in DOMAIN idb[d] /\ 1 < i + 1 /\ idb[d][i + 1] = idb'[d][i]
            /\ idb[d][1].key = k /\ idb[d][1] = r /\ 1 \in DOMAIN idb[d]
        BY <1>2, <3>4
      <4>2. r.kind = "store" /\ idb'[d][i].kind # "delete"
        BY <1>1, <3>6, <4>1
      <4>3. idb[d][i + 1].kind # "replay"
        BY <3>1, <4>1, <4>2 DEF Staged
      <4> QED BY <4>1, <4>2, <4>3
    <3>5. CASE k # r.key
      <4>1. updates'[d][k] = updates[d][k] /\ server' = server /\ misdated' = misdated
        BY <1>1, <3>2, <3>5
      <4>2. ASSUME k \notin misdated, NEW i \in DOMAIN idb'[d], idb'[d][i].key = k
            PROVE  /\ idb'[d][i].kind = "delete" =>
                        updates[d][k] = NoWrite \/ Reached(server[k], updates[d][k])
                   /\ idb'[d][i].kind = "replay" =>
                        updates[d][k] = idb'[d][i].value \/ Reached(server[k], idb'[d][i].value)
        BY <1>2, <3>1, <4>2 DEF Saved
      <4> QED BY <3>3, <4>1, <4>2 DEF Saved, Reached
    <3> QED BY <3>3, <3>4, <3>5 DEF Saved
  <2> QED BY <2>2, <2>3, <2>4, <2>5 DEF DeviceInv
<1>10. ASSUME NEW k \in Key \ Excused', NEW w \in Write, Kept(d, k, w) PROVE Kept(d, k, w)'
  <2>1. updates'[d][k] = IF k = r.key THEN r.value ELSE updates[d][k]
    BY <1>3, <1>5, TypeFacts DEF Excused
  <2>2. CASE k \in overlapping[d]
    <3>1. Pending(idb[d], sets[d], answers[d], k, w)
      BY <1>10, <2>2 DEF Kept
    <3>2. CASE \E i \in DOMAIN sets[d] : i > Len(answers[d]) /\ sets[d][i].key = k /\ sets[d][i].value = w
      BY <1>1, <1>4, <2>2, <3>2 DEF Kept, Pending
    <3>3. ASSUME NEW i \in DOMAIN idb[d], idb[d][i].kind \in {"set", "replay"},
                 idb[d][i].key = k, idb[d][i].value = w
          PROVE  Kept(d, k, w)'
      <4>1. CASE i = 1
        <5>1. Len(sets[d]) + 1 \in DOMAIN sets'[d] /\ sets'[d][Len(sets[d]) + 1] = r
          BY <1>1, <1>2, <1>4, <3>3, <4>1
        <5>2. Len(sets[d]) + 1 > Len(answers[d])
          BY TypeFacts DEF IInv, DeviceInv, Answered
        <5> QED BY <1>1, <1>2, <2>2, <3>3, <4>1, <5>1, <5>2 DEF Kept, Pending
      <4>2. CASE i # 1
        BY <1>1, <1>2, <2>2, <3>3, <4>2 DEF Kept, Pending
      <4> QED BY <4>1, <4>2
    <3> QED BY <3>1, <3>2, <3>3 DEF Pending
  <2>3. CASE k \notin overlapping[d]
    <3>1. Finally(idb[d], updates[d][k], k, w)
      BY <1>10, <2>3 DEF Kept
    <3>2. Finally(idb'[d], updates'[d][k], k, w)
      <4>1. CASE updates[d][k] = w /\ \A i \in DOMAIN idb[d] : idb[d][i].key # k
        BY <1>2, <2>1, <4>1 DEF Finally
      <4>2. ASSUME NEW i \in DOMAIN idb[d], idb[d][i].key = k, idb[d][i].value = w,
                   \A j \in DOMAIN idb[d] : i < j => idb[d][j].key # k
            PROVE  Finally(idb'[d], updates'[d][k], k, w)
        <5>1. CASE i = 1
          <6>1. \A j \in DOMAIN idb'[d] : idb'[d][j].key # k
            BY <1>2, <4>2, <5>1
          <6> QED BY <1>2, <2>1, <4>2, <5>1, <6>1 DEF Finally
        <5>2. CASE i # 1
          <6>1. \A j \in DOMAIN idb'[d] : i - 1 < j => idb'[d][j].key # k
            BY <1>2, <4>2
          <6> QED BY <1>2, <4>2, <5>2, <6>1 DEF Finally
        <5> QED BY <5>1, <5>2
      <4> QED BY <3>1, <4>1, <4>2 DEF Finally
    <3> QED BY <1>1, <2>3, <3>2 DEF Kept
  <2> QED BY <2>2, <2>3
<1>11. \A k \in Key \ Excused' : last[k] # NoWrite => last[k] \in Write
  BY DEF IInv, TypeOK
<1> QED BY <1>1, <1>5, <1>6, <1>7, <1>8, <1>9, <1>10, <1>11, LocalStep DEF Grows

LEMMA DequeueStep == ASSUME IInv, NEW d \in Device, DequeueOperation(d) PROVE IInv'
<1> PICK r : r = Head(idb[d])
  OBVIOUS
<1>1. /\ idb[d] # <<>> /\ r.kind = "delete"
      /\ idb' = [idb EXCEPT ![d] = Tail(@)]
      /\ \/ updates' = [updates EXCEPT ![d][r.key] = NoWrite] /\ UNCHANGED used
         \/ used' = [used EXCEPT !["faults"] = @ + 1] /\ UNCHANGED updates
      /\ UNCHANGED <<now, server, late, page, remembered, online, clockOffset, sets, answers, last,
                     overlapping, unsaved, exposed, misdated>>
  BY DEF DequeueOperation, Use, pageVars, history
<1>2. /\ idb'[d] = Tail(idb[d]) /\ Tail(idb[d]) \in Seq(Request)
      /\ DOMAIN idb[d] = 1..Len(idb[d]) /\ Len(idb[d]) \in Nat /\ 1 \in DOMAIN idb[d]
      /\ idb[d][1] = r /\ r.value = NoWrite
      /\ \A i \in DOMAIN idb'[d] : i + 1 \in DOMAIN idb[d] /\ idb'[d][i] = idb[d][i + 1] /\ i \in Nat \ {0}
      /\ \A i \in DOMAIN idb[d] : i # 1 => i - 1 \in DOMAIN idb'[d] /\ idb'[d][i - 1] = idb[d][i]
  BY <1>1, TypeFacts, TailFacts, WriteFacts DEF IInv, TypeOK
<1>3. /\ updates' \in [Device -> [Key -> Write \cup {NoWrite}]]
      /\ \A k \in Key : updates'[d][k] = updates[d][k] \/ (k = r.key /\ updates'[d][k] = NoWrite)
  <2>1. updates \in [Device -> [Key -> Write \cup {NoWrite}]]
    BY DEF IInv, TypeOK
  <2>2. CASE updates' = [updates EXCEPT ![d][r.key] = NoWrite]
    <3>1. updates' = [updates EXCEPT ![d] = [updates[d] EXCEPT ![r.key] = NoWrite]]
      BY <2>2
    <3>2. [updates[d] EXCEPT ![r.key] = NoWrite] \in [Key -> Write \cup {NoWrite}]
      BY <2>1
    <3> QED BY <2>1, <2>2, <3>1, <3>2
  <2> QED BY <1>1, <2>1, <2>2
<1>6. TypeOK'
  <2>1. idb' \in [Device -> Seq(Request)]
    BY <1>1, <1>2 DEF IInv, TypeOK
  <2>2. used' \in [{"drops", "closes", "faults"} -> Nat]
    BY <1>1 DEF IInv, TypeOK
  <2> QED BY <1>1, <1>3, <2>1, <2>2 DEF IInv, TypeOK
<1>7. \A e \in Device \ {d} : Same(e) /\ (Authed(e) => Authed(e)')
  BY <1>1 DEF Same, Authed, IInv, TypeOK
<1>8. DateInv'
  <2>1. \A k \in Key : Known(k, server'[k]) /\ Known(k, updates'[d][k])
    BY <1>1, <1>3 DEF Known
  <2>2. \A s \in late' : Known(s.key, s.value)
    BY <1>1 DEF Known
  <2>3. \A i \in DOMAIN idb'[d] : Known(idb'[d][i].key, idb'[d][i].value)
    BY <1>2 DEF Known
  <2>4. \A i \in DOMAIN sets'[d] : Known(sets'[d][i].key, sets'[d][i].value)
    BY <1>1 DEF Known
  <2>5. \A e \in Device \ {d} : UNCHANGED <<updates[e], idb[e], sets[e]>>
    BY <1>7 DEF Same
  <2> QED BY <1>1, <2>1, <2>2, <2>3, <2>4, <2>5, DateStep
<1>9. DeviceInv(d)'
  <2>1. DeviceInv(d)
    BY DEF IInv
  <2>2. Answered(d)'
    BY <1>1, <2>1 DEF DeviceInv, Answered
  <2>3. Staged(d)'
    <3>1. ~Authed(d)' <=> ~Authed(d)
      BY <1>1 DEF Authed
    <3> QED BY <1>1, <1>2, <2>1, <3>1 DEF DeviceInv, Staged
  <2>4. ASSUME NEW k \in Key \ overlapping'[d] PROVE Alone(idb'[d], sets'[d], k)
    <3>1. Alone(idb[d], sets[d], k)
      BY <1>1, <2>1 DEF DeviceInv
    <3> QED BY <1>1, <1>2, <3>1 DEF Alone
  <2>5. ASSUME NEW k \in Key \ (overlapping'[d] \cup unsaved') PROVE Saved(d, k)'
    <3>1. Saved(d, k) /\ Alone(idb[d], sets[d], k)
      BY <1>1, <2>1, <2>5 DEF DeviceInv
    <3>2. CASE updates'[d][k] = updates[d][k]
      BY <1>1, <1>2, <3>1, <3>2 DEF Saved, Reached
    <3>3. CASE k = r.key /\ updates'[d][k] = NoWrite
      <4>1. \A i \in DOMAIN sets'[d] : sets'[d][i].key # k
        BY <1>1, <1>2, <3>1, <3>3 DEF Alone
      <4>2. ASSUME k \notin misdated, NEW i \in DOMAIN idb'[d], idb'[d][i].kind = "replay",
                   idb'[d][i].key = k
            PROVE  Reached(server'[k], idb'[d][i].value)
        <5>1. /\ i + 1 \in DOMAIN idb[d] /\ idb[d][i + 1] = idb'[d][i]
              /\ 1 \in DOMAIN idb[d] /\ idb[d][1] = r
          BY <1>2, <4>2
        <5>2. idb[d][i + 1].value # NoWrite
          BY <4>2, <5>1, TypeFacts, WriteFacts
        <5>3. updates[d][k] = idb[d][i + 1].value \/ Reached(server[k], idb[d][i + 1].value)
          BY <3>1, <4>2, <5>1 DEF Saved
        <5>4. updates[d][k] = NoWrite \/ Reached(server[k], updates[d][k])
          BY <1>1, <3>1, <3>3, <4>2, <5>1 DEF Saved
        <5> QED BY <1>1, <5>1, <5>2, <5>3, <5>4
      <4> QED BY <1>1, <3>3, <4>1, <4>2 DEF Saved
    <3> QED BY <1>3, <3>2, <3>3
  <2> QED BY <2>2, <2>3, <2>4, <2>5 DEF DeviceInv
<1>10. ASSUME NEW k \in Key, NEW w \in Write, Kept(d, k, w) PROVE Kept(d, k, w)'
  <2>1. CASE k \in overlapping[d]
    <3>1. Pending(idb[d], sets[d], answers[d], k, w)
      BY <1>10, <2>1 DEF Kept
    <3>2. \A i \in DOMAIN idb[d] : idb[d][i].kind \in {"set", "replay"} => i # 1
      BY <1>1, <1>2
    <3>3. Pending(idb'[d], sets[d], answers[d], k, w)
      BY <1>2, <3>1, <3>2 DEF Pending
    <3> QED BY <1>1, <2>1, <3>3 DEF Kept
  <2>2. CASE k \notin overlapping[d]
    <3>1. Finally(idb[d], updates[d][k], k, w)
      BY <1>10, <2>2 DEF Kept
    <3>2. CASE updates[d][k] = w /\ \A i \in DOMAIN idb[d] : idb[d][i].key # k
      <4>1. updates'[d][k] = w /\ \A i \in DOMAIN idb'[d] : idb'[d][i].key # k
        BY <1>2, <1>3, <3>2
      <4> QED BY <1>1, <2>2, <4>1 DEF Kept, Finally
    <3>3. ASSUME NEW i \in DOMAIN idb[d], idb[d][i].key = k, idb[d][i].value = w,
                 \A j \in DOMAIN idb[d] : i < j => idb[d][j].key # k
          PROVE  Kept(d, k, w)'
      <4>1. i # 1
        BY <1>2, <3>3, WriteFacts
      <4>2. \A j \in DOMAIN idb'[d] : i - 1 < j => idb'[d][j].key # k
        BY <1>2, <3>3
      <4> QED BY <1>1, <1>2, <2>2, <3>3, <4>1, <4>2 DEF Kept, Finally
    <3> QED BY <3>1, <3>2, <3>3 DEF Finally
  <2> QED BY <2>1, <2>2
<1>11. \A k \in Key : last[k] # NoWrite => last[k] \in Write
  BY DEF IInv, TypeOK
<1> QED BY <1>1, <1>6, <1>7, <1>8, <1>9, <1>10, <1>11, LocalStep DEF Grows, Excused

LEMMA BumpStep == ASSUME IInv, NEW d \in Device, BumpLastActivity(d) PROVE IInv'
<1> PICK r : r = [kind |-> "scan", key |-> NoKey, value |-> NoWrite]
  OBVIOUS
<1>0. r \in Request /\ r.kind = "scan" /\ r.key \notin Key /\ r.value = NoWrite
  BY WriteFacts
<1>1. ASSUME Goto(d, "ready"), Use("faults", MaxFaults), UNCHANGED idb PROVE IInv'
  <2>1. TypeOK'
    BY <1>1 DEF BumpLastActivity, Goto, Use, IInv, TypeOK, history
  <2>2. \A e \in Device : Authed(e) => Authed(e)'
    <3>1. UNCHANGED remembered
      BY DEF BumpLastActivity
    <3> QED BY <1>1, <3>1 DEF Goto, Authed, IInv, TypeOK
  <2> QED BY <1>1, <2>1, <2>2, PageStep DEF BumpLastActivity
<1>2. ASSUME page' = [page EXCEPT ![d] = "replay"], idb' = [idb EXCEPT ![d] = Append(@, r)],
             UNCHANGED used
      PROVE  IInv'
  <2>1. /\ page[d] = "bump"
        /\ UNCHANGED <<now, server, late, remembered, online, clockOffset, updates, sets, answers, last,
                       overlapping, unsaved, exposed, misdated>>
    BY DEF BumpLastActivity, history
  <2>2. /\ idb'[d] \in Seq(Request)
        /\ DOMAIN idb'[d] = 1..(Len(idb[d]) + 1) /\ idb'[d][Len(idb[d]) + 1] = r
        /\ \A i \in DOMAIN idb[d] : i \in DOMAIN idb'[d] /\ idb'[d][i] = idb[d][i]
        /\ DOMAIN idb[d] = 1..Len(idb[d]) /\ Len(idb[d]) \in Nat
    BY <1>0, <1>2, TypeFacts, AppendFacts DEF IInv, TypeOK
  <2>3. TypeOK'
    BY <1>2, <2>1, <2>2 DEF IInv, TypeOK
  <2>4. /\ \A e \in Device \ {d} : Same(e) /\ (Authed(e) => Authed(e)')
        /\ Authed(d) /\ Authed(d)'
    BY <1>2, <2>1 DEF Same, Authed, IInv, TypeOK
  <2>5. DateInv'
    <3>1. \A k \in Key : Known(k, server'[k]) /\ Known(k, updates'[d][k])
      BY <2>1 DEF Known
    <3>2. \A s \in late' : Known(s.key, s.value)
      BY <2>1 DEF Known
    <3>3. \A i \in DOMAIN idb'[d] : Known(idb'[d][i].key, idb'[d][i].value)
      BY <1>0, <2>2 DEF Known
    <3>4. \A i \in DOMAIN sets'[d] : Known(sets'[d][i].key, sets'[d][i].value)
      BY <2>1 DEF Known
    <3>5. \A e \in Device \ {d} : UNCHANGED <<updates[e], idb[e], sets[e]>>
      BY <2>4 DEF Same
    <3> QED BY <2>1, <3>1, <3>2, <3>3, <3>4, <3>5, DateStep
  <2>6. DeviceInv(d)'
    <3>1. DeviceInv(d)
      BY DEF IInv
    <3>2. Answered(d)'
      BY <2>1, <3>1 DEF DeviceInv, Answered
    <3>3. Staged(d)'
      BY <1>0, <2>2, <2>4, <3>1 DEF DeviceInv, Staged
    <3>4. ASSUME NEW k \in Key \ overlapping'[d] PROVE Alone(idb'[d], sets'[d], k)
      <4>1. Alone(idb[d], sets[d], k) /\ sets' = sets
        BY <2>1, <3>1 DEF DeviceInv
      <4>2. \A i \in DOMAIN idb'[d] : idb'[d][i].key = k => i \in DOMAIN idb[d]
        BY <1>0, <2>2
      <4> QED BY <2>2, <4>1, <4>2 DEF Alone
    <3>5. ASSUME NEW k \in Key \ (overlapping'[d] \cup unsaved') PROVE Saved(d, k)'
      <4>1. Saved(d, k)
        BY <2>1, <3>1, <3>5 DEF DeviceInv
      <4> QED BY <1>0, <2>1, <2>2, <4>1 DEF Saved, Reached
    <3> QED BY <3>2, <3>3, <3>4, <3>5 DEF DeviceInv
  <2>7. ASSUME NEW k \in Key, NEW w \in Write, Kept(d, k, w) PROVE Kept(d, k, w)'
    <3>1. Pending(idb[d], sets[d], answers[d], k, w) => Pending(idb'[d], sets[d], answers[d], k, w)
      BY <2>2 DEF Pending
    <3>2. Finally(idb[d], updates[d][k], k, w) => Finally(idb'[d], updates[d][k], k, w)
      <4>1. \A i \in DOMAIN idb'[d] : idb'[d][i].key = k => i \in DOMAIN idb[d]
        BY <1>0, <2>2
      <4> QED BY <2>2, <4>1 DEF Finally
    <3> QED BY <2>1, <2>7, <3>1, <3>2 DEF Kept
  <2>8. \A k \in Key : last[k] # NoWrite => last[k] \in Write
    BY DEF IInv, TypeOK
  <2> QED BY <2>1, <2>3, <2>4, <2>5, <2>6, <2>7, <2>8, LocalStep DEF Grows, Excused
<1> QED BY <1>1, <1>2 DEF BumpLastActivity, Goto

LEMMA MinorStep ==
    ASSUME IInv, NEW d \in Device,
           \/ Open(d) \/ Reload(d) \/ Remember(d) \/ SetClockOffset(d) \/ Authenticate(d)
           \/ Connect(d) \/ Disconnect(d)
    PROVE  IInv'
<1>1. /\ UNCHANGED <<now, server, late, updates, idb, sets, history>>
      /\ answers' = answers \/ answers' = [answers EXCEPT ![d] = <<>>]
  BY DEF Open, Reload, Remember, SetClockOffset, Authenticate, Connect, Disconnect
<1>2. \A e \in Device : Authed(e) => Authed(e)'
  BY DEF Open, Reload, Remember, SetClockOffset, Authenticate, Connect, Disconnect, Goto, Authed, IInv, TypeOK
<1>3. TypeOK'
  <2>1. online' \in [Device -> BOOLEAN] /\ remembered' \in [Device -> BOOLEAN]
    BY DEF Open, Reload, Remember, SetClockOffset, Authenticate, Connect, Disconnect, IInv, TypeOK
  <2>2. /\ page' \in [Device -> {"closed", "offline", "cached", "clock", "bump", "replay", "ready"}]
        /\ used' \in [{"drops", "closes", "faults"} -> Nat]
    <3>1. used' = used \/ \E b \in {"drops", "faults"} : used' = [used EXCEPT ![b] = @ + 1]
      BY DEF Open, Reload, Remember, SetClockOffset, Authenticate, Connect, Disconnect, Use
    <3>2. \/ page' = page
          \/ \E stage \in {"offline", "cached", "clock", "bump"} : page' = [page EXCEPT ![d] = stage]
      BY DEF Open, Reload, Remember, SetClockOffset, Authenticate, Connect, Disconnect, Goto
    <3>3. used' \in [{"drops", "closes", "faults"} -> Nat]
      <4>1. used \in [{"drops", "closes", "faults"} -> Nat]
        BY DEF IInv, TypeOK
      <4>2. ASSUME NEW b \in {"drops", "faults"}, used' = [used EXCEPT ![b] = @ + 1]
            PROVE  used' \in [{"drops", "closes", "faults"} -> Nat]
        BY <4>1, <4>2
      <4> QED BY <3>1, <4>1, <4>2
    <3> QED BY <3>2, <3>3 DEF IInv, TypeOK
  <2>3. clockOffset' \in [Device -> Int]
    BY DeviceAssumption
       DEF Open, Reload, Remember, SetClockOffset, Authenticate, Connect, Disconnect, IInv, TypeOK
  <2>4. answers' \in [Device -> Seq(BOOLEAN)]
    <3>1. answers \in [Device -> Seq(BOOLEAN)] /\ <<>> \in Seq(BOOLEAN)
      BY DEF IInv, TypeOK
    <3> QED BY <1>1, <3>1
  <2> QED BY <1>1, <2>1, <2>2, <2>3, <2>4 DEF IInv, TypeOK, history
<1> QED BY <1>1, <1>2, <1>3, PageStep

\* What the rule rejects is not newer than what it would replace.
LEMMA StoreFacts ==
    ASSUME IInv, NEW k \in Key, NEW w \in Write, w.at <= now \/ k \in misdated,
           Dated(last[k], w) \/ k \in misdated, Store(k, w)
    PROVE  /\ server' \in [Key -> Write \cup {NoWrite}]
           /\ \A h \in Key : server'[h] = server[h] \/ (h = k /\ server'[h] = w)
           /\ \A h \in Key \ misdated, x \in Write : Reached(server[h], x) => Reached(server'[h], x)
           /\ k \notin misdated => Reached(server'[k], w)
           /\ \A h \in Key \ misdated :
                last[h] # NoWrite /\ server[h] = last[h] => server'[h] = last[h]
<1>1. server \in [Key -> Write \cup {NoWrite}] /\ now \in Nat /\ Window \in Nat /\ Window > 0
  BY DeviceAssumption DEF IInv, TypeOK
<1>2. server' \in [Key -> Write \cup {NoWrite}]
  BY <1>1 DEF Store
<1>3. \A h \in Key : server'[h] = server[h] \/ (h = k /\ server'[h] = w)
  BY <1>1 DEF Store
<1>4. ASSUME k \notin misdated
      PROVE  /\ Reached(server'[k], w)
             /\ \A x \in Write : Reached(server[k], x) => Reached(server'[k], x)
  <2>1. w # NoWrite /\ w.at \in Nat /\ w.timestamp = w.at /\ w.at <= now
    BY <1>4, WriteFacts DEF Dated, Write
  <2>2. server[k] # NoWrite => server[k].at \in Nat /\ server[k].timestamp = server[k].at
    BY <1>1, <1>4 DEF IInv, DateInv, Dated, Write
  <2>3. CASE Valid(k, w)
    <3>1. server'[k] = w
      BY <1>1, <2>3 DEF Store
    <3>2. server[k] # NoWrite => server[k].at <= w.at
      BY <2>1, <2>2, <2>3 DEF Valid
    <3> QED BY <2>1, <2>2, <3>1, <3>2 DEF Reached, Write
  <2>4. CASE ~Valid(k, w)
    <3>1. server' = server
      BY <2>4 DEF Store
    <3>2. w.timestamp < now + Window
      BY <1>1, <2>1
    <3>3. server[k] # NoWrite /\ w.at <= server[k].at
      BY <2>1, <2>2, <2>4, <3>2 DEF Valid
    <3> QED BY <3>1, <3>3 DEF Reached
  <2> QED BY <2>3, <2>4
<1>5. ASSUME k \notin misdated, last[k] # NoWrite, server[k] = last[k] PROVE server'[k] = last[k]
  <2>1. /\ last[k] \in Write /\ last[k].timestamp = last[k].at
        /\ w.at <= last[k].at /\ w.timestamp = w.at /\ last[k].at \in Nat /\ w.at \in Nat
    BY <1>5, WriteFacts DEF IInv, TypeOK, DateInv, Dated, Write
  <2>2. ~Valid(k, w)
    BY <1>5, <2>1 DEF Valid
  <2> QED BY <1>5, <2>2 DEF Store
<1> QED BY <1>2, <1>3, <1>4, <1>5

LEMMA ReachedLast ==
    ASSUME IInv, NEW k \in Key \ misdated, NEW s \in Write \cup {NoWrite}, Dated(last[k], s),
           Reached(s, last[k]), last[k] # NoWrite
    PROVE  s = last[k]
<1>1. last[k] \in Write /\ last[k].timestamp = last[k].at
  BY DEF IInv, TypeOK, DateInv, Dated
<1>2. s \in Write /\ s.at = last[k].at /\ s.timestamp = last[k].timestamp
  BY <1>1 DEF Reached, Dated, Write
<1> QED BY <1>1, <1>2 DEF Write

LEMMA LateStep == ASSUME IInv, NEW s \in late, DeliverLate(s) PROVE IInv'
<1>1. /\ Store(s.key, s.value) /\ late' = late \ {s}
      /\ UNCHANGED <<now, page, remembered, online, clockOffset, updates, idb, sets, answers, used, last,
                     overlapping, unsaved, exposed, misdated>>
  BY DEF DeliverLate, pageVars, history
<1>2. s.key \in Key /\ s.value \in Write
  BY DEF IInv, TypeOK
<1>3. s.key \in misdated \/ (Dated(last[s.key], s.value) /\ s.value.at <= now)
  <2> SUFFICES ASSUME s.key \notin misdated PROVE Dated(last[s.key], s.value) /\ s.value.at <= now
    OBVIOUS
  <2>1. Dated(last[s.key], s.value)
    BY <1>2 DEF IInv, DateInv
  <2>2. last[s.key] # NoWrite /\ last[s.key].at <= now /\ s.value.at <= last[s.key].at
    BY <1>2, <2>1, WriteFacts DEF IInv, DateInv, Dated
  <2> QED BY <1>2, <2>1, <2>2 DEF IInv, TypeOK, Write
<1>4. /\ server' \in [Key -> Write \cup {NoWrite}]
      /\ \A h \in Key : server'[h] = server[h] \/ (h = s.key /\ server'[h] = s.value)
      /\ \A h \in Key \ misdated, x \in Write : Reached(server[h], x) => Reached(server'[h], x)
      /\ \A h \in Key \ misdated :
                last[h] # NoWrite /\ server[h] = last[h] => server'[h] = last[h]
  BY <1>1, <1>2, <1>3, StoreFacts
<1>5. TypeOK'
  BY <1>1, <1>4 DEF IInv, TypeOK
<1>6. DateInv'
  <2>1. \A k \in Key \ misdated : Dated(last[k], server'[k])
    BY <1>4, <1>3 DEF IInv, DateInv
  <2> QED BY <1>1, <2>1 DEF IInv, DateInv, Dated
<1>7. \A e \in Device : DeviceInv(e)'
  BY <1>1, <1>4, SameDevice DEF Same, Grows, Authed
<1>8. LastInv'
  <2>1. \A e \in Device : Same(e)
    BY <1>1 DEF Same
  <2>2. \A e \in Device, k \in Key, w \in Write : Kept(e, k, w) => Kept(e, k, w)'
    BY <2>1, SameKept
  <2>3. \A k \in Key : last[k] # NoWrite => last[k] \in Write
    BY DEF IInv, TypeOK
  <2> QED BY <1>1, <1>4, <2>2, <2>3 DEF IInv, LastInv, Excused
<1> QED BY <1>5, <1>6, <1>7, <1>8 DEF IInv

LEMMA DeliverStep == ASSUME IInv, NEW d \in Device, Deliver(d) PROVE IInv'
<1> PICK n : n = Len(answers[d]) + 1
  OBVIOUS
<1> PICK r : r = sets[d][n]
  OBVIOUS
<1> PICK v : v = Valid(r.key, r.value)
  OBVIOUS
<1>1. /\ Len(answers[d]) < Len(sets[d])
      /\ Store(r.key, r.value) /\ answers' = [answers EXCEPT ![d] = Append(@, v)]
      /\ UNCHANGED <<now, late, page, remembered, online, clockOffset, updates, idb, sets, used, last,
                     overlapping, unsaved, exposed, misdated>>
  BY DEF Deliver, pageVars, history
<1>2. /\ n \in DOMAIN sets[d] /\ n = Len(answers[d]) + 1 /\ r = sets[d][n]
      /\ r \in Operation /\ r.key \in Key /\ r.value \in Write
  BY <1>1, TypeFacts, WriteFacts
<1>3. r.key \in misdated \/ (Dated(last[r.key], r.value) /\ r.value.at <= now)
  <2> SUFFICES ASSUME r.key \notin misdated PROVE Dated(last[r.key], r.value) /\ r.value.at <= now
    OBVIOUS
  <2>1. Dated(last[r.key], r.value)
    BY <1>2 DEF IInv, DateInv
  <2>2. last[r.key] # NoWrite /\ last[r.key].at <= now /\ r.value.at <= last[r.key].at
    BY <1>2, <2>1, WriteFacts DEF IInv, DateInv, Dated
  <2> QED BY <1>2, <2>1, <2>2 DEF IInv, TypeOK, Write
<1>4. /\ server' \in [Key -> Write \cup {NoWrite}]
      /\ \A h \in Key : server'[h] = server[h] \/ (h = r.key /\ server'[h] = r.value)
      /\ \A h \in Key \ misdated, x \in Write : Reached(server[h], x) => Reached(server'[h], x)
      /\ r.key \notin misdated => Reached(server'[r.key], r.value)
      /\ \A h \in Key \ misdated :
                last[h] # NoWrite /\ server[h] = last[h] => server'[h] = last[h]
  BY <1>1, <1>2, <1>3, StoreFacts
<1>5. v \in BOOLEAN
  BY DEF Valid
<1>6. /\ answers'[d] = Append(answers[d], v) /\ Len(answers'[d]) = n /\ answers'[d] \in Seq(BOOLEAN)
      /\ answers' \in [Device -> Seq(BOOLEAN)]
  BY <1>1, <1>2, <1>5, TypeFacts, AppendFacts DEF IInv, TypeOK
<1>7. TypeOK'
  BY <1>1, <1>4, <1>6 DEF IInv, TypeOK
<1>8. \A e \in Device \ {d} : Same(e) /\ (Authed(e) => Authed(e)')
  BY <1>1 DEF Same, Authed, IInv, TypeOK
<1>9. DateInv'
  <2>1. \A k \in Key \ misdated : Dated(last[k], server'[k])
    BY <1>4, <1>3 DEF IInv, DateInv
  <2> QED BY <1>1, <2>1 DEF IInv, DateInv, Dated
<1>10. DeviceInv(d)'
  <2>1. DeviceInv(d)
    BY DEF IInv
  <2>2. Answered(d)'
    <3>1. n <= Len(sets[d])
      BY <1>2, TypeFacts
    <3>2. ASSUME NEW i \in 1..n, sets[d][i].key \notin misdated
          PROVE  Reached(server'[sets[d][i].key], sets[d][i].value)
      <4>1. i \in DOMAIN sets[d] /\ sets[d][i].key \in Key /\ sets[d][i].value \in Write
        BY <3>1, TypeFacts, WriteFacts
      <4>2. CASE i = n
        BY <1>2, <1>4, <3>2, <4>2
      <4>3. CASE i # n
        <5>1. i \in 1..Len(answers[d])
          BY <1>2, <4>3, TypeFacts
        <5> QED BY <1>4, <2>1, <3>2, <4>1, <5>1 DEF DeviceInv, Answered
      <4> QED BY <4>2, <4>3
    <3> QED BY <1>1, <1>6, <3>1, <3>2 DEF Answered
  <2>3. Staged(d)'
    BY <1>1, <2>1 DEF DeviceInv, Staged, Authed
  <2>4. ASSUME NEW k \in Key \ overlapping'[d] PROVE Alone(idb'[d], sets'[d], k)
    BY <1>1, <2>1 DEF DeviceInv
  <2>5. ASSUME NEW k \in Key \ (overlapping'[d] \cup unsaved') PROVE Saved(d, k)'
    <3>1. Saved(d, k)
      BY <1>1, <2>1 DEF DeviceInv
    <3>2. updates[d][k] \in Write \cup {NoWrite}
      BY TypeFacts
    <3>3. \A i \in DOMAIN idb[d] : idb[d][i].kind = "replay" => idb[d][i].value \in Write
      BY TypeFacts, WriteFacts
    <3> QED BY <1>1, <1>4, <3>1, <3>2, <3>3 DEF Saved
  <2> QED BY <2>2, <2>3, <2>4, <2>5 DEF DeviceInv
<1>11. ASSUME NEW k \in Key \ Excused', last[k] # NoWrite, Kept(d, k, last[k])
       PROVE  server'[k] = last[k] \/ Kept(d, k, last[k])'
  <2>1. k \notin misdated
    BY <1>1 DEF Excused
  <2>2. CASE k \notin overlapping[d]
    BY <1>1, <1>11, <2>2 DEF Kept, Finally
  <2>3. CASE k \in overlapping[d]
    <3>1. Pending(idb[d], sets[d], answers[d], k, last[k])
      BY <1>11, <2>3 DEF Kept
    <3>2. CASE k = r.key /\ r.value = last[k]
      <4>1. Reached(server'[k], last[k]) /\ Dated(last[k], server'[k])
            /\ server'[k] \in Write \cup {NoWrite}
        BY <1>1, <1>2, <1>4, <1>9, <2>1, <3>2 DEF DateInv
      <4> QED BY <1>11, <2>1, <4>1, ReachedLast
    <3>3. CASE ~(k = r.key /\ r.value = last[k])
      <4>1. Pending(idb[d], sets[d], answers'[d], k, last[k])
        <5>1. \A i \in DOMAIN sets[d] :
                i > Len(answers[d]) /\ sets[d][i].key = k /\ sets[d][i].value = last[k] => i > n
          BY <1>2, <3>3, TypeFacts
        <5> QED BY <1>6, <3>1, <5>1 DEF Pending
      <4> QED BY <1>1, <2>3, <4>1 DEF Kept
    <3> QED BY <3>2, <3>3
  <2> QED BY <2>2, <2>3
<1>12. Grows /\ \A k \in Key \ Excused' : k \in Key \ misdated
  BY <1>1, <1>4 DEF Grows, Excused
<1> QED BY <1>1, <1>4, <1>7, <1>8, <1>9, <1>10, <1>11, <1>12, LocalStep

LEMMA AnswerStep == ASSUME IInv, NEW d \in Device, Answer(d) PROVE IInv'
<1> PICK s : s = Head(sets[d])
  OBVIOUS
<1> PICK r : r = [kind |-> "delete", key |-> s.key, value |-> NoWrite]
  OBVIOUS
<1>1. /\ answers[d] # <<>>
      /\ idb' = [idb EXCEPT ![d] = Append(@, r)]
      /\ sets' = [sets EXCEPT ![d] = Tail(@)] /\ answers' = [answers EXCEPT ![d] = Tail(@)]
      /\ UNCHANGED <<now, server, late, page, remembered, online, clockOffset, updates, used, last,
                     overlapping, unsaved, exposed, misdated>>
  BY DEF Answer, pageVars
<1>2. DeviceInv(d)
  BY DEF IInv
<1>3. /\ sets[d] # <<>> /\ Len(answers[d]) <= Len(sets[d]) /\ 1 \in 1..Len(answers[d])
      /\ answers'[d] = Tail(answers[d]) /\ Tail(answers[d]) \in Seq(BOOLEAN)
      /\ Len(answers'[d]) = Len(answers[d]) - 1
  <2>1. Len(answers[d]) <= Len(sets[d])
    BY <1>2 DEF DeviceInv, Answered
  <2>2. Len(answers[d]) >= 1 /\ Len(answers[d]) \in Nat
    BY <1>1, TypeFacts, TailFacts
  <2> QED BY <1>1, <2>1, <2>2, TypeFacts, TailFacts DEF IInv, TypeOK
<1>4. /\ sets'[d] = Tail(sets[d]) /\ Tail(sets[d]) \in Seq(Operation) /\ sets[d][1] = s
      /\ 1 \in DOMAIN sets[d] /\ Len(sets'[d]) = Len(sets[d]) - 1
      /\ \A i \in DOMAIN sets'[d] : i + 1 \in DOMAIN sets[d] /\ sets'[d][i] = sets[d][i + 1] /\ i \in Nat \ {0}
      /\ \A i \in DOMAIN sets[d] : i # 1 => i - 1 \in DOMAIN sets'[d] /\ sets'[d][i - 1] = sets[d][i]
  BY <1>1, <1>3, TypeFacts, TailFacts DEF IInv, TypeOK
<1>5. s \in Operation /\ s.key \in Key /\ s.value \in Write /\ r \in Request
  BY <1>4, TypeFacts, WriteFacts
<1>6. /\ idb'[d] \in Seq(Request) /\ DOMAIN idb'[d] = 1..(Len(idb[d]) + 1)
      /\ idb'[d][Len(idb[d]) + 1] = r
      /\ \A i \in DOMAIN idb[d] : i \in DOMAIN idb'[d] /\ idb'[d][i] = idb[d][i]
      /\ DOMAIN idb[d] = 1..Len(idb[d]) /\ Len(idb[d]) \in Nat
      /\ \A i \in DOMAIN idb'[d] : i \notin DOMAIN idb[d] => i = Len(idb[d]) + 1
  BY <1>1, <1>5, TypeFacts, AppendFacts DEF IInv, TypeOK
<1>7. TypeOK'
  BY <1>1, <1>3, <1>4, <1>6 DEF IInv, TypeOK
<1>8. /\ \A e \in Device \ {d} : Same(e) /\ (Authed(e) => Authed(e)')
      /\ Authed(d) /\ Authed(d)'
  <2>1. Authed(d)
    BY <1>2, <1>3 DEF DeviceInv, Staged
  <2> QED BY <1>1, <2>1 DEF Same, Authed, IInv, TypeOK
<1>9. DateInv'
  <2>1. \A k \in Key : Known(k, server'[k]) /\ Known(k, updates'[d][k])
    BY <1>1 DEF Known
  <2>2. \A t \in late' : Known(t.key, t.value)
    BY <1>1 DEF Known
  <2>3. \A i \in DOMAIN idb'[d] : Known(idb'[d][i].key, idb'[d][i].value)
    BY <1>6 DEF Known
  <2>4. \A i \in DOMAIN sets'[d] : Known(sets'[d][i].key, sets'[d][i].value)
    BY <1>4 DEF Known
  <2>5. \A e \in Device \ {d} : UNCHANGED <<updates[e], idb[e], sets[e]>>
    BY <1>8 DEF Same
  <2> QED BY <1>1, <2>1, <2>2, <2>3, <2>4, <2>5, DateStep
<1>10. s.key \notin misdated => Reached(server[s.key], s.value)
  BY <1>2, <1>3, <1>4 DEF DeviceInv, Answered
<1>11. DeviceInv(d)'
  <2>2. Answered(d)'
    <3>1. Len(answers'[d]) <= Len(sets'[d])
      BY <1>3, <1>4, TypeFacts
    <3>2. ASSUME NEW i \in 1..Len(answers'[d]), sets'[d][i].key \notin misdated
          PROVE  Reached(server[sets'[d][i].key], sets'[d][i].value)
      <4>1. i + 1 \in 1..Len(answers[d]) /\ i \in DOMAIN sets'[d]
        BY <1>3, <1>4, <3>1, TypeFacts
      <4> QED BY <1>2, <1>4, <3>2, <4>1 DEF DeviceInv, Answered
    <3> QED BY <1>1, <3>1, <3>2 DEF Answered
  <2>3. Staged(d)'
    BY <1>2, <1>6, <1>8 DEF DeviceInv, Staged
  <2>4. ASSUME NEW k \in Key \ overlapping'[d] PROVE Alone(idb'[d], sets'[d], k)
    <3>1. Alone(idb[d], sets[d], k)
      BY <1>1, <1>2 DEF DeviceInv
    <3>2. k = s.key => /\ \A i \in DOMAIN idb[d] : idb[d][i].key # k
                       /\ \A i \in DOMAIN sets'[d] : sets'[d][i].key # k
      BY <1>4, <3>1 DEF Alone
    <3>3. k # s.key => \A i \in DOMAIN idb'[d] : idb'[d][i].key = k => i \in DOMAIN idb[d]
      BY <1>6
    <3>4. \A i \in DOMAIN idb'[d], j \in DOMAIN idb'[d] :
            i < j /\ idb'[d][i].key = k /\ idb'[d][j].key = k =>
               idb'[d][i].kind \notin {"set", "replay"} /\ idb'[d][j].kind # "delete"
      BY <1>6, <3>1, <3>2, <3>3 DEF Alone
    <3>5. \A i \in DOMAIN idb'[d], j \in DOMAIN sets'[d] : idb'[d][i].key = k => sets'[d][j].key # k
      <4> SUFFICES ASSUME NEW i \in DOMAIN idb'[d], NEW j \in DOMAIN sets'[d], idb'[d][i].key = k
                   PROVE  sets'[d][j].key # k
        OBVIOUS
      <4>1. CASE k = s.key
        BY <3>2, <4>1
      <4>2. CASE k # s.key
        <5>1. i \in DOMAIN idb[d] /\ idb[d][i].key = k
          BY <1>6, <3>3, <4>2
        <5> QED BY <1>4, <3>1, <5>1 DEF Alone
      <4> QED BY <4>1, <4>2
    <3>6. \A i, j \in DOMAIN sets'[d] : sets'[d][i].key = k /\ sets'[d][j].key = k => i = j
      BY <1>4, <3>1 DEF Alone
    <3> QED BY <3>4, <3>5, <3>6 DEF Alone
  <2>5. ASSUME NEW k \in Key \ (overlapping'[d] \cup unsaved') PROVE Saved(d, k)'
    <3>1. Saved(d, k)
      BY <1>1, <1>2, <2>5 DEF DeviceInv
    <3>2. \A i \in DOMAIN sets'[d] : sets'[d][i].key = k => updates'[d][k] = sets'[d][i].value
      BY <1>1, <1>4, <3>1 DEF Saved
    <3>3. k = s.key => updates[d][k] = s.value
      BY <1>4, <3>1 DEF Saved
    <3>4. ASSUME k \notin misdated, NEW i \in DOMAIN idb'[d], idb'[d][i].key = k
          PROVE  /\ idb'[d][i].kind = "delete" =>
                      updates[d][k] = NoWrite \/ Reached(server[k], updates[d][k])
                 /\ idb'[d][i].kind = "replay" =>
                      updates[d][k] = idb'[d][i].value \/ Reached(server[k], idb'[d][i].value)
      <4>1. CASE i \in DOMAIN idb[d]
        BY <1>6, <3>1, <3>4, <4>1 DEF Saved
      <4>2. CASE i \notin DOMAIN idb[d]
        BY <1>6, <1>10, <3>3, <3>4, <4>2
      <4> QED BY <4>1, <4>2
    <3> QED BY <1>1, <3>2, <3>4 DEF Saved
  <2> QED BY <2>2, <2>3, <2>4, <2>5 DEF DeviceInv
<1>12. ASSUME NEW k \in Key \ Excused', last[k] # NoWrite, Kept(d, k, last[k])
       PROVE  server'[k] = last[k] \/ Kept(d, k, last[k])'
  <2>1. CASE k \in overlapping[d]
    <3>1. Pending(idb[d], sets[d], answers[d], k, last[k])
      BY <1>12, <2>1 DEF Kept
    <3>2. \A i \in DOMAIN sets[d] : i > Len(answers[d]) => /\ i - 1 \in DOMAIN sets'[d]
                                                           /\ i - 1 > Len(answers'[d])
                                                           /\ sets'[d][i - 1] = sets[d][i]
      BY <1>3, <1>4, TypeFacts
    <3>3. Pending(idb'[d], sets'[d], answers'[d], k, last[k])
      BY <1>6, <3>1, <3>2 DEF Pending
    <3> QED BY <1>1, <2>1, <3>3 DEF Kept
  <2>2. CASE k \notin overlapping[d] /\ k # s.key
    <3>1. Finally(idb[d], updates[d][k], k, last[k])
      BY <1>12, <2>2 DEF Kept
    <3>2. \A i \in DOMAIN idb'[d] : idb'[d][i].key = k => i \in DOMAIN idb[d]
      BY <1>6, <2>2
    <3>3. Finally(idb'[d], updates[d][k], k, last[k])
      BY <1>6, <3>1, <3>2 DEF Finally
    <3> QED BY <1>1, <2>2, <3>3 DEF Kept
  <2>3. CASE k \notin overlapping[d] /\ k = s.key
    <3>1. Finally(idb[d], updates[d][k], k, last[k])
      BY <1>12, <2>3 DEF Kept
    <3>2. Alone(idb[d], sets[d], k) /\ Saved(d, k) /\ k \notin misdated
      BY <1>1, <1>2, <2>3 DEF DeviceInv, Excused
    <3>3. \A i \in DOMAIN idb[d] : idb[d][i].key # k
      BY <1>4, <2>3, <3>2 DEF Alone
    <3>4. updates[d][k] = last[k]
      BY <3>1, <3>3 DEF Finally
    <3>5. Reached(server[k], last[k])
      BY <1>4, <1>10, <2>3, <3>2, <3>4 DEF Saved
    <3>6. Dated(last[k], server[k]) /\ server[k] \in Write \cup {NoWrite}
      BY <3>2 DEF IInv, DateInv, TypeOK
    <3> QED BY <1>1, <1>12, <3>2, <3>5, <3>6, ReachedLast
  <2> QED BY <2>1, <2>2, <2>3
<1> QED BY <1>1, <1>7, <1>8, <1>9, <1>11, <1>12, LocalStep DEF Grows

LEMMA CloseStep == ASSUME IInv, NEW d \in Device, Close(d) PROVE IInv'
<1> PICK n \in Len(answers[d])..Len(sets[d]) :
        late' = late \cup {[key |-> sets[d][i].key, value |-> sets[d][i].value] :
                              i \in Len(answers[d]) + 1 .. n}
  BY DEF Close
<1>1. /\ page' = [page EXCEPT ![d] = "closed"]
      /\ remembered' = [remembered EXCEPT ![d] = FALSE]
      /\ online' = [online EXCEPT ![d] = FALSE] /\ clockOffset' = [clockOffset EXCEPT ![d] = 0]
      /\ used' = [used EXCEPT !["closes"] = @ + 1]
      /\ unsaved' = unsaved \cup KeysOf({r \in ToSet(idb[d]) : r.kind \in {"store", "set"}})
      /\ exposed' = exposed \cup overlapping[d]
      /\ overlapping' = [overlapping EXCEPT ![d] = {}]
      /\ idb' = [idb EXCEPT ![d] = <<>>] /\ sets' = [sets EXCEPT ![d] = <<>>]
      /\ answers' = [answers EXCEPT ![d] = <<>>]
      /\ UNCHANGED <<now, server, updates, last, misdated>>
  BY DEF Close, Goto, Use
<1>2. /\ idb'[d] = <<>> /\ sets'[d] = <<>> /\ answers'[d] = <<>> /\ overlapping'[d] = {}
      /\ ~Authed(d)'
  BY <1>1 DEF IInv, TypeOK, Authed
<1>3. /\ unsaved' \subseteq Key
      /\ \A i \in DOMAIN idb[d] : idb[d][i].kind \in {"store", "set"} => idb[d][i].key \in unsaved'
  <2>1. \A i \in DOMAIN idb[d] : idb[d][i] \in ToSet(idb[d])
    BY DEF ToSet
  <2>2. \A r \in ToSet(idb[d]) : r.kind \in {"store", "set"} => r.key \in Key
    BY TypeFacts, WriteFacts DEF ToSet
  <2>3. unsaved \subseteq Key
    BY DEF IInv, TypeOK
  <2> QED BY <1>1, <2>1, <2>2, <2>3 DEF KeysOf
<1>4. \A s \in late' : /\ s \in [key : Key, value : Write]
                       /\ Known(s.key, s.value)
  <2>1. \A i \in Len(answers[d]) + 1 .. n : i \in DOMAIN sets[d]
    BY TypeFacts
  <2>2. \A i \in DOMAIN sets[d] : sets[d][i].key \in Key /\ sets[d][i].value \in Write
    BY TypeFacts, WriteFacts
  <2>3. \A s \in late : s \in [key : Key, value : Write]
    BY DEF IInv, TypeOK
  <2>4. \A s \in late : Known(s.key, s.value)
    BY DEF Known
  <2>5. \A i \in DOMAIN sets[d] : Known(sets[d][i].key, sets[d][i].value)
    BY DEF Known
  <2> QED BY <2>1, <2>2, <2>3, <2>4, <2>5
<1>5. TypeOK'
  <2>1. /\ idb' \in [Device -> Seq(Request)] /\ sets' \in [Device -> Seq(Operation)]
        /\ answers' \in [Device -> Seq(BOOLEAN)]
    BY <1>1 DEF IInv, TypeOK
  <2>2. used' \in [{"drops", "closes", "faults"} -> Nat] /\ exposed' \subseteq Key
    BY <1>1 DEF IInv, TypeOK
  <2>3. late' \subseteq [key : Key, value : Write]
    BY <1>4
  <2> QED BY <1>1, <1>3, <2>1, <2>2, <2>3 DEF IInv, TypeOK
<1>6. \A e \in Device \ {d} : Same(e) /\ (Authed(e) => Authed(e)')
  BY <1>1 DEF Same, Authed, IInv, TypeOK
<1>7. DateInv'
  <2>1. \A k \in Key : Known(k, server'[k]) /\ Known(k, updates'[d][k])
    BY <1>1 DEF Known
  <2>2. \A e \in Device \ {d} : UNCHANGED <<updates[e], idb[e], sets[e]>>
    BY <1>6 DEF Same
  <2>3. DOMAIN idb'[d] = {} /\ DOMAIN sets'[d] = {}
    BY <1>2
  <2> QED BY <1>1, <1>4, <2>1, <2>2, <2>3, DateStep
<1>8. DeviceInv(d)'
  BY <1>2 DEF DeviceInv, Answered, Staged, Alone, Saved
<1>9. ASSUME NEW k \in Key \ Excused', last[k] # NoWrite, Kept(d, k, last[k])
      PROVE  server'[k] = last[k] \/ Kept(d, k, last[k])'
  <2>1. k \notin overlapping[d] \cup unsaved' \cup unsaved \cup misdated
    BY <1>1 DEF Excused
  <2>2. Finally(idb[d], updates[d][k], k, last[k])
    BY <1>9, <2>1 DEF Kept
  <2>3. CASE updates[d][k] = last[k]
    BY <1>1, <1>2, <2>3 DEF Kept, Finally
  <2>4. ASSUME NEW i \in DOMAIN idb[d], idb[d][i].key = k, idb[d][i].value = last[k],
               updates[d][k] # last[k]
        PROVE  server'[k] = last[k]
    <3>1. idb[d][i].kind = "replay"
      BY <1>3, <1>9, <2>1, <2>4, TypeFacts, WriteFacts
    <3>2. Saved(d, k)
      BY <2>1 DEF IInv, DeviceInv
    <3>3. Reached(server[k], last[k])
      BY <2>1, <2>4, <3>1, <3>2 DEF Saved
    <3>4. Dated(last[k], server[k]) /\ server[k] \in Write \cup {NoWrite}
      BY <2>1 DEF IInv, DateInv, TypeOK
    <3> QED BY <1>1, <1>9, <2>1, <3>3, <3>4, ReachedLast
  <2> QED BY <2>2, <2>3, <2>4 DEF Finally
<1> QED BY <1>1, <1>5, <1>6, <1>7, <1>8, <1>9, LocalStep DEF Grows

\* An order of a finite set is a sequence that has each element once.
LEMMA OrderFacts ==
    ASSUME NEW S, IsFiniteSet(S), NEW order \in SetToSeqs(S)
    PROVE  /\ order \in Seq(S)
           /\ \A i, j \in DOMAIN order : order[i] = order[j] => i = j
           /\ \A x \in S : \E i \in DOMAIN order : order[i] = x
<1> PICK n : n = Cardinality(S)
  OBVIOUS
<1>1. n \in Nat
  BY FS_CardinalityType
<1>2. order \in [1..n -> S] /\ \A i, j \in 1..n : i # j => order[i] # order[j]
  BY DEF SetToSeqs
<1>3. order \in Injection(1..n, S)
  BY <1>2, Fun_IsInj
<1>4. Cardinality(1..n) = n
  BY <1>1, FS_Interval
<1>5. order \in Surjection(1..n, S)
  BY <1>3, <1>4, FS_Injection
<1>6. \A x \in S : \E i \in 1..n : order[i] = x
  BY <1>5, Fun_SurjectionProperties
<1> QED BY <1>1, <1>2, <1>6

LEMMA ReplayStep == ASSUME IInv, NEW d \in Device, ReplayQueue(d) PROVE IInv'
<1>a. PICK queued : queued = {k \in Key : updates[d][k] # NoWrite}
  OBVIOUS
<1>b. PICK order \in SetToSeqs(queued) :
        idb' = [idb EXCEPT ![d] =
                  Tail(@) \o [i \in DOMAIN order |->
                     [kind |-> "replay", key |-> order[i], value |-> updates[d][order[i]]]]]
  BY <1>a DEF ReplayQueue
<1>c. PICK p : p = [i \in DOMAIN order |->
                     [kind |-> "replay", key |-> order[i], value |-> updates[d][order[i]]]]
  OBVIOUS
<1>e. PICK m : m = Len(Tail(idb[d]))
  OBVIOUS
<1>1. /\ idb[d] # <<>> /\ Head(idb[d]).kind = "scan"
      /\ idb' = [idb EXCEPT ![d] = Tail(@) \o p]
      /\ overlapping' = [overlapping EXCEPT ![d] = @ \cup (queued \cap UnderWay(d))]
      /\ page' = [page EXCEPT ![d] = "ready"]
      /\ UNCHANGED <<now, server, late, remembered, online, clockOffset, updates, sets, answers, used, last,
                     unsaved, exposed, misdated>>
  BY <1>a, <1>b, <1>c DEF ReplayQueue, Goto
<1>2. queued \subseteq Key /\ IsFiniteSet(queued)
  BY <1>a, DeviceAssumption, FS_Subset
<1>3. /\ order \in Seq(queued) /\ \A i, j \in DOMAIN order : order[i] = order[j] => i = j
      /\ \A k \in queued : \E i \in DOMAIN order : order[i] = k
  BY <1>b, <1>2, OrderFacts
<1>4. \A i \in DOMAIN order : order[i] \in queued /\ p[i] \in Request /\ p[i].key = order[i]
                              /\ p[i].kind = "replay" /\ p[i].value = updates[d][order[i]]
  <2> SUFFICES ASSUME NEW i \in DOMAIN order
               PROVE  order[i] \in queued /\ p[i] \in Request /\ p[i].key = order[i]
                      /\ p[i].kind = "replay" /\ p[i].value = updates[d][order[i]]
    OBVIOUS
  <2>1. order[i] \in queued
    BY <1>3
  <2>2. updates[d][order[i]] \in Write
    BY <1>a, <1>2, <2>1, TypeFacts
  <2>3. p[i] = [kind |-> "replay", key |-> order[i], value |-> updates[d][order[i]]]
    BY <1>c
  <2> QED BY <1>2, <2>1, <2>2, <2>3, WriteFacts
<1>5. p \in Seq(Request) /\ DOMAIN p = DOMAIN order
  <2>1. DOMAIN order = 1..Len(order) /\ Len(order) \in Nat
    BY <1>3
  <2>2. p \in [1..Len(order) -> Request]
    BY <1>c, <1>4, <2>1
  <2> QED BY <2>1, <2>2
<1>6. /\ Tail(idb[d]) \in Seq(Request) /\ DOMAIN Tail(idb[d]) = 1..m /\ m \in Nat
      /\ 1 \in DOMAIN idb[d] /\ idb[d][1] = Head(idb[d]) /\ DOMAIN idb[d] = 1..Len(idb[d])
      /\ Len(idb[d]) \in Nat /\ idb[d][1].value = NoWrite /\ idb[d][1].kind = "scan"
      /\ \A i \in 1..m : i + 1 \in DOMAIN idb[d] /\ Tail(idb[d])[i] = idb[d][i + 1]
      /\ \A i \in DOMAIN idb[d] : i # 1 => i - 1 \in 1..m /\ Tail(idb[d])[i - 1] = idb[d][i]
  BY <1>e, <1>1, TypeFacts, TailFacts, WriteFacts
<1>7. /\ idb'[d] \in Seq(Request) /\ DOMAIN idb'[d] \subseteq Nat \ {0}
      /\ \A i \in 1..m : i \in DOMAIN idb'[d] /\ idb'[d][i] = idb[d][i + 1]
      /\ \A i \in DOMAIN idb[d] : i # 1 => i - 1 \in DOMAIN idb'[d] /\ idb'[d][i - 1] = idb[d][i]
      /\ \A i \in DOMAIN order : m + i \in DOMAIN idb'[d] /\ idb'[d][m + i] = p[i]
      /\ \A i \in DOMAIN idb'[d] : i \in 1..m \/ (i > m /\ i - m \in DOMAIN order)
  <2>1. idb'[d] = Tail(idb[d]) \o p
    BY <1>1 DEF IInv, TypeOK
  <2>2. /\ idb'[d] \in Seq(Request) /\ DOMAIN idb'[d] = 1..(m + Len(p)) /\ Len(p) \in Nat
        /\ DOMAIN p = 1..Len(p)
        /\ \A i \in 1..m : i \in DOMAIN idb'[d] /\ idb'[d][i] = Tail(idb[d])[i]
        /\ \A i \in DOMAIN p : m + i \in DOMAIN idb'[d] /\ idb'[d][m + i] = p[i]
    <3>1. Tail(idb[d]) \in Seq(Request) /\ p \in Seq(Request) /\ m = Len(Tail(idb[d]))
      BY <1>e, <1>5, <1>6
    <3>2. /\ Tail(idb[d]) \o p \in Seq(Request)
          /\ DOMAIN (Tail(idb[d]) \o p) = 1..(m + Len(p)) /\ Len(p) \in Nat
          /\ DOMAIN p = 1..Len(p) /\ DOMAIN Tail(idb[d]) = 1..m
          /\ \A i \in DOMAIN Tail(idb[d]) : /\ i \in DOMAIN (Tail(idb[d]) \o p)
                                          /\ (Tail(idb[d]) \o p)[i] = Tail(idb[d])[i]
          /\ \A i \in DOMAIN p : /\ m + i \in DOMAIN (Tail(idb[d]) \o p)
                               /\ (Tail(idb[d]) \o p)[m + i] = p[i]
      BY <3>1, ConcatFacts
    <3> QED BY <2>1, <3>2
  <2>3. \A i \in DOMAIN idb'[d] : i \in 1..m \/ (i > m /\ i - m \in DOMAIN order)
    BY <1>5, <1>6, <2>2
  <2> QED BY <1>5, <1>6, <2>2, <2>3
<1>8. /\ \A i \in DOMAIN idb'[d] : i > m => /\ idb'[d][i].kind = "replay" /\ idb'[d][i].key \in queued
                                           /\ idb'[d][i].value = updates[d][idb'[d][i].key]
      /\ \A i, j \in DOMAIN idb'[d] : i > m /\ j > m /\ idb'[d][i].key = idb'[d][j].key => i = j
      /\ \A k \in queued : \E i \in DOMAIN idb'[d] : i > m /\ idb'[d][i].key = k
  <2>1. \A i \in DOMAIN idb'[d] : i > m => i - m \in DOMAIN order /\ idb'[d][i] = p[i - m]
    <3> SUFFICES ASSUME NEW i \in DOMAIN idb'[d], i > m
                 PROVE  i - m \in DOMAIN order /\ idb'[d][i] = p[i - m]
      OBVIOUS
    <3>1. i - m \in DOMAIN order
      BY <1>6, <1>7
    <3>2. i = m + (i - m)
      BY <1>6, <1>7
    <3> QED BY <1>7, <3>1, <3>2
  <2>2. ASSUME NEW i \in DOMAIN idb'[d], NEW j \in DOMAIN idb'[d], i > m, j > m,
               idb'[d][i].key = idb'[d][j].key
        PROVE  i = j
    <3>1. order[i - m] = order[j - m] /\ i - m \in DOMAIN order /\ j - m \in DOMAIN order
      BY <1>4, <2>1, <2>2
    <3>2. i - m = j - m
      BY <1>3, <3>1
    <3> QED BY <1>6, <1>7, <3>2
  <2>3. ASSUME NEW k \in queued PROVE \E i \in DOMAIN idb'[d] : i > m /\ idb'[d][i].key = k
    <3>1. PICK i \in DOMAIN order : order[i] = k
      BY <1>3
    <3>2. m + i \in DOMAIN idb'[d] /\ idb'[d][m + i].key = k
      BY <1>4, <1>7, <3>1
    <3>3. i \in Nat \ {0}
      BY <1>3
    <3> QED BY <1>6, <3>2, <3>3
  <2> QED BY <1>4, <2>1, <2>2, <2>3
<1>9. DeviceInv(d) /\ (\A j \in DOMAIN idb[d] : idb[d][j].kind # "store") /\ Authed(d)
  <2>1. DeviceInv(d)
    BY DEF IInv
  <2>2. Staged(d)
    BY <2>1 DEF DeviceInv
  <2>3. ASSUME NEW j \in DOMAIN idb[d] PROVE idb[d][j].kind # "store"
    <3>1. j = 1 \/ 1 < j
      BY <1>6
    <3> QED BY <1>6, <2>2, <3>1 DEF Staged
  <2>4. Authed(d)
    BY <1>6, <2>2 DEF Staged
  <2> QED BY <2>1, <2>3, <2>4
<1>10. overlapping'[d] = overlapping[d] \cup (queued \cap UnderWay(d)) /\ overlapping'[d] \subseteq Key
  BY <1>1, <1>2 DEF IInv, TypeOK
<1>11. TypeOK'
  BY <1>1, <1>7, <1>10 DEF IInv, TypeOK
<1>12. \A e \in Device \ {d} : Same(e) /\ (Authed(e) => Authed(e)')
  BY <1>1 DEF Same, Authed, IInv, TypeOK
<1>13. DateInv'
  <2>1. \A k \in Key : Known(k, server'[k]) /\ Known(k, updates'[d][k])
    BY <1>1 DEF Known
  <2>2. \A t \in late' : Known(t.key, t.value)
    BY <1>1 DEF Known
  <2>3. \A i \in DOMAIN idb'[d] : Known(idb'[d][i].key, idb'[d][i].value)
    <3>1. \A i \in DOMAIN idb[d] : Known(idb[d][i].key, idb[d][i].value)
      BY DEF Known
    <3>2. \A k \in queued : Known(k, updates[d][k])
      BY DEF Known
    <3> SUFFICES ASSUME NEW i \in DOMAIN idb'[d] PROVE Known(idb'[d][i].key, idb'[d][i].value)
      OBVIOUS
    <3>3. CASE i \in 1..m
      BY <1>6, <1>7, <3>1, <3>3
    <3>4. CASE i > m
      BY <1>8, <3>2, <3>4
    <3> QED BY <1>7, <3>3, <3>4
  <2>4. \A i \in DOMAIN sets'[d] : Known(sets'[d][i].key, sets'[d][i].value)
    BY <1>1 DEF Known
  <2>5. \A e \in Device \ {d} : UNCHANGED <<updates[e], idb[e], sets[e]>>
    BY <1>12 DEF Same
  <2> QED BY <1>1, <2>1, <2>2, <2>3, <2>4, <2>5, DateStep
<1>14. \A k \in Key \ UnderWay(d) :
         /\ \A i \in DOMAIN idb[d] : idb[d][i].key = k => idb[d][i].kind \notin {"set", "replay"}
         /\ \A i \in DOMAIN sets[d] : sets[d][i].key # k
  BY DEF UnderWay, KeysOf, ToSet
<1>15. DeviceInv(d)'
  <2>1. Answered(d)'
    BY <1>1, <1>9 DEF DeviceInv, Answered, Reached
  <2>2. Staged(d)'
    <3>1. Authed(d)'
      BY <1>1 DEF Authed, IInv, TypeOK
    <3>2. \A i \in DOMAIN idb'[d] : idb'[d][i].kind # "store"
      <4> SUFFICES ASSUME NEW i \in DOMAIN idb'[d] PROVE idb'[d][i].kind # "store"
        OBVIOUS
      <4>1. CASE i \in 1..m
        <5>1. i + 1 \in DOMAIN idb[d] /\ idb'[d][i] = idb[d][i + 1]
          BY <1>6, <1>7, <4>1
        <5> QED BY <1>9, <5>1
      <4>2. CASE i > m
        BY <1>8, <4>2
      <4> QED BY <1>7, <4>1, <4>2
    <3> QED BY <3>1, <3>2 DEF Staged
  <2>3. ASSUME NEW k \in Key \ overlapping'[d] PROVE Alone(idb'[d], sets'[d], k)
    <3>1. Alone(idb[d], sets[d], k) /\ (k \in queued => k \in Key \ UnderWay(d))
      BY <1>9, <1>10 DEF DeviceInv
    <3>2. ASSUME NEW i \in DOMAIN idb'[d], NEW j \in DOMAIN idb'[d],
                 i < j, idb'[d][i].key = k, idb'[d][j].key = k
          PROVE  idb'[d][i].kind \notin {"set", "replay"} /\ idb'[d][j].kind # "delete"
      <4>1. CASE j \in 1..m
        <5>1. /\ i + 1 \in DOMAIN idb[d] /\ idb[d][i + 1] = idb'[d][i]
              /\ j + 1 \in DOMAIN idb[d] /\ idb[d][j + 1] = idb'[d][j] /\ i + 1 < j + 1
          <6>1. i \in Nat \ {0} /\ j \in Nat \ {0}
            BY <1>7
          <6>2. i \in 1..m
            BY <1>6, <3>2, <4>1, <6>1
          <6> QED BY <1>6, <1>7, <3>2, <4>1, <6>1, <6>2
        <5> QED BY <3>1, <3>2, <5>1 DEF Alone
      <4>2. CASE j > m
        <5>1. i \in 1..m /\ k \in queued /\ idb'[d][j].kind = "replay"
          BY <1>7, <1>8, <3>2, <4>2
        <5>2. i + 1 \in DOMAIN idb[d] /\ idb[d][i + 1] = idb'[d][i]
          BY <1>6, <1>7, <5>1
        <5> QED BY <1>14, <3>1, <3>2, <5>1, <5>2
      <4> QED BY <1>6, <1>7, <4>1, <4>2
    <3>3. ASSUME NEW i \in DOMAIN idb'[d], NEW j \in DOMAIN sets[d], idb'[d][i].key = k
          PROVE  sets[d][j].key # k
      <4>1. CASE i \in 1..m
        <5>1. i + 1 \in DOMAIN idb[d] /\ idb[d][i + 1].key = k
          BY <1>6, <1>7, <3>3, <4>1
        <5> QED BY <3>1, <5>1 DEF Alone
      <4>2. CASE i > m
        BY <1>8, <1>14, <3>1, <3>3, <4>2
      <4> QED BY <1>7, <4>1, <4>2
    <3>4. sets' = sets /\ \A i, j \in DOMAIN sets[d] : sets[d][i].key = k /\ sets[d][j].key = k => i = j
      BY <1>1, <3>1 DEF Alone
    <3> QED BY <3>2, <3>3, <3>4 DEF Alone
  <2>4. ASSUME NEW k \in Key \ (overlapping'[d] \cup unsaved') PROVE Saved(d, k)'
    <3>1. Saved(d, k)
      BY <1>1, <1>9, <1>10, <2>4 DEF DeviceInv
    <3>2. ASSUME k \notin misdated, NEW i \in DOMAIN idb'[d], idb'[d][i].key = k
          PROVE  /\ idb'[d][i].kind = "delete" =>
                      updates[d][k] = NoWrite \/ Reached(server[k], updates[d][k])
                 /\ idb'[d][i].kind = "replay" =>
                      updates[d][k] = idb'[d][i].value \/ Reached(server[k], idb'[d][i].value)
      <4>1. CASE i \in 1..m
        <5>1. i + 1 \in DOMAIN idb[d] /\ idb[d][i + 1] = idb'[d][i]
          BY <1>6, <1>7, <4>1
        <5> QED BY <3>1, <3>2, <5>1 DEF Saved
      <4>2. CASE i > m
        BY <1>8, <3>2, <4>2
      <4> QED BY <1>7, <4>1, <4>2
    <3> QED BY <1>1, <3>1, <3>2 DEF Saved
  <2> QED BY <2>1, <2>2, <2>3, <2>4 DEF DeviceInv
<1>16. ASSUME NEW k \in Key \ Excused', NEW w \in Write, Kept(d, k, w) PROVE Kept(d, k, w)'
  <2>1. CASE k \in overlapping[d]
    <3>1. Pending(idb[d], sets[d], answers[d], k, w)
      BY <1>16, <2>1 DEF Kept
    <3>2. Pending(idb'[d], sets[d], answers[d], k, w)
      BY <1>6, <1>7, <3>1 DEF Pending
    <3> QED BY <1>1, <1>10, <2>1, <3>2 DEF Kept
  <2>2. ASSUME k \notin overlapping[d], updates[d][k] = w, k \in queued PROVE Kept(d, k, w)'
    <3>1. PICK i \in DOMAIN idb'[d] : i > m /\ idb'[d][i].key = k
      BY <1>8, <2>2
    <3>2. idb'[d][i].value = w /\ idb'[d][i].kind = "replay"
      BY <1>8, <2>2, <3>1
    <3>3. \A j \in DOMAIN idb'[d] : i < j => idb'[d][j].key # k
      <4> SUFFICES ASSUME NEW j \in DOMAIN idb'[d], i < j, idb'[d][j].key = k PROVE FALSE
        OBVIOUS
      <4>1. j > m
        BY <1>6, <1>7, <3>1
      <4> QED BY <1>7, <1>8, <3>1, <4>1
    <3> QED BY <1>1, <3>1, <3>2, <3>3 DEF Kept, Pending, Finally
  <2>3. ASSUME k \notin overlapping[d], NEW i \in DOMAIN idb[d], idb[d][i].key = k, idb[d][i].value = w,
               \A j \in DOMAIN idb[d] : i < j => idb[d][j].key # k,
               updates[d][k] # w \/ k \notin queued
        PROVE  Kept(d, k, w)'
    <3>1. i # 1 /\ idb[d][i].kind \in {"set", "replay"}
      BY <1>6, <1>9, <2>3, TypeFacts, WriteFacts
    <3>2. i - 1 \in DOMAIN idb'[d] /\ idb'[d][i - 1] = idb[d][i] /\ i - 1 \in 1..m
      BY <1>6, <1>7, <3>1
    <3>3. CASE k \in overlapping'[d]
      BY <1>1, <2>3, <3>1, <3>2, <3>3 DEF Kept, Pending
    <3>4. CASE k \notin overlapping'[d]
      <4>1. k \notin queued
        <5>1. k \in UnderWay(d)
          BY <1>14, <2>3, <3>1
        <5> QED BY <1>10, <3>4, <5>1
      <4>2. \A j \in DOMAIN idb'[d] : i - 1 < j => idb'[d][j].key # k
        <5> SUFFICES ASSUME NEW j \in DOMAIN idb'[d], i - 1 < j, idb'[d][j].key = k PROVE FALSE
          OBVIOUS
        <5>1. j \in 1..m
          BY <1>7, <1>8, <4>1
        <5>2. j + 1 \in DOMAIN idb[d] /\ idb[d][j + 1].key = k
          BY <1>6, <1>7, <5>1
        <5>3. i < j + 1
          BY <1>6, <5>1
        <5> QED BY <2>3, <5>2, <5>3
      <4> QED BY <2>3, <3>2, <3>4, <4>2 DEF Kept, Finally
    <3> QED BY <3>3, <3>4
  <2>4. CASE k \notin overlapping[d]
    <3>1. Finally(idb[d], updates[d][k], k, w)
      BY <1>16, <2>4 DEF Kept
    <3>2. updates[d][k] = w => k \in queued
      BY <1>a, WriteFacts
    <3> QED BY <2>2, <2>3, <2>4, <3>1, <3>2 DEF Finally
  <2> QED BY <2>1, <2>4
<1>17. \A k \in Key : last[k] # NoWrite => last[k] \in Write
  BY DEF IInv, TypeOK
<1> QED BY <1>1, <1>11, <1>12, <1>13, <1>15, <1>16, <1>17, LocalStep DEF Grows

-----------------------------------------------------------------------------
(* The theorems.                                                           *)

LEMMA Inductive == Spec => []IInv
<1>1. ASSUME IInv, [Next]_vars PROVE IInv'
  <2>1. ASSUME NEW d \in Device,
               \/ Open(d) \/ Reload(d) \/ Remember(d) \/ SetClockOffset(d) \/ Authenticate(d)
               \/ Connect(d) \/ Disconnect(d)
        PROVE  IInv'
    BY <1>1, <2>1, MinorStep
  <2>2. ASSUME NEW d \in Device, BumpLastActivity(d) PROVE IInv'
    BY <1>1, <2>2, BumpStep
  <2>3. ASSUME NEW d \in Device, NEW k \in Key, Toggle(d, k) PROVE IInv'
    BY <1>1, <2>3, ToggleStep
  <2>4. ASSUME NEW d \in Device, ServeIndexedDB(d) PROVE IInv'
    BY <1>1, <2>4, QueueStep, DequeueStep, ReplayStep DEF ServeIndexedDB
  <2>5. ASSUME NEW d \in Device, Deliver(d) PROVE IInv'
    BY <1>1, <2>5, DeliverStep
  <2>6. ASSUME NEW d \in Device, Answer(d) PROVE IInv'
    BY <1>1, <2>6, AnswerStep
  <2>7. ASSUME NEW d \in Device, Close(d) PROVE IInv'
    BY <1>1, <2>7, CloseStep
  <2>8. ASSUME NEW s \in late, DeliverLate(s) PROVE IInv'
    BY <1>1, <2>8, LateStep
  <2>9. CASE UNCHANGED vars
    <3>1. UNCHANGED <<now, server, late, updates, idb, sets, history>> /\ answers' = answers
      BY <2>9 DEF vars
    <3>2. TypeOK' /\ \A d \in Device : Authed(d) => Authed(d)'
      BY <1>1, <2>9 DEF vars, pageVars, history, IInv, TypeOK, Authed
    <3> QED BY <1>1, <3>1, <3>2, PageStep
  <2> QED BY <1>1, <2>1, <2>2, <2>3, <2>4, <2>5, <2>6, <2>7, <2>8, <2>9 DEF Next
<1> QED BY InitInv, <1>1, PTL DEF Spec

\* The variables keep the types that IndexedDB, the Firebase client and the database
\* give them; answers never outnumber the sets they are for.
THEOREM TypeCorrect == Spec => []TypeOK
<1>1. IInv => TypeOK
  BY DEF IInv
<1> QED BY <1>1, Inductive, PTL

\* Whatever is sent again, replayed or interrupted, an operation that has no answer
\* yet is in IndexedDB, for the next page to replay (_setFirebaseData and
\* _queueOperation), but for the exceptions the property names.
THEOREM UnansweredStaysQueued == Spec => []UnansweredIsQueued
<1>1. ASSUME IInv PROVE UnansweredIsQueued
  <2> SUFFICES ASSUME NEW d \in Device, NEW i \in DOMAIN sets[d],
                      sets[d][i].key \notin overlapping[d] \cup unsaved
               PROVE  updates[d][sets[d][i].key] = sets[d][i].value
    BY DEF UnansweredIsQueued
  <2>1. sets[d][i].key \in Key
    BY <1>1, TypeFacts, WriteFacts
  <2>2. Saved(d, sets[d][i].key)
    BY <1>1, <2>1 DEF IInv, DeviceInv
  <2> QED BY <2>2 DEF Saved
<1> QED BY <1>1, Inductive, PTL

\* For any devices, clocks, connections, crashes and errors: when nothing is queued or
\* under way any more, the database holds the last toggle, in real time, of each session
\* that is neither in unsaved (an operation of it missed IndexedDB), nor in exposed (two
\* operations of it were under way when a page closed), nor in misdated (an operation of
\* it was dated by a clock not corrected yet).
THEOREM LastToggleReached == Spec => []LastToggleWins
<1>1. ASSUME IInv PROVE LastToggleWins
  <2> SUFFICES ASSUME Quiet, NEW k \in Key \ (unsaved \cup exposed \cup misdated),
                      last[k] # NoWrite
               PROVE  server[k] = last[k]
    BY DEF LastToggleWins, Settled
  <2>1. server[k] = last[k] \/ \E d \in Device : Kept(d, k, last[k])
    BY <1>1 DEF IInv, LastInv, Excused
  <2>2. ASSUME NEW d \in Device PROVE ~Kept(d, k, last[k])
    <3>1. idb[d] = <<>> /\ sets[d] = <<>> /\ updates[d][k] = NoWrite
      BY DEF Quiet
    <3> QED BY <3>1 DEF Kept, Finally, Pending
  <2> QED BY <2>1, <2>2
<1> QED BY <1>1, Inductive, PTL

=============================================================================
