------------------------- MODULE AuthSession_proofs -------------------------
(***************************************************************************)
(* Proofs about AuthSession, for any users, databases and sessions, and    *)
(* any number of sign-ins, surveys, changes and failures.                  *)
(***************************************************************************)
EXTENDS AuthSession, TLAPS

-----------------------------------------------------------------------------
(* The inductive invariant.                                                *)

\* Who may have something to do with what goes on.
Known == former \cup {google}

IsPut(r) == r.kind = "put"
Clears(r) == r.kind \in {"clear", "listen"}

\* A request has its place, a flow its database.
FormInv ==
    /\ \A f \in flows : f.stage # "offset" => f.at \in Shard
    /\ schedule = "loaded" => loads = <<>>
    /\ person = None => profiles = {} /\ flows = {} /\ ref = None
    /\ google # None => person \in {google, None}

\* Nothing is done or shown for anybody else.
KnownInv ==
    /\ \A p \in profiles : p.token \in Known
    /\ \A f \in flows : f.token \in Known
    /\ \A d \in Shard : session[d] \in Known \cup {None}
    /\ \A l \in listeners : l[1] \in Known
    /\ \A i \in DOMAIN requests : IsPut(requests[i]) => requests[i].user \in Known
    /\ \A s \in Session : saved[s] \in Known \cup {None}

\* What a replay will find, unless something clears it before.
ReadsKnown == \A u \in User, s \in Session : reads[<<u, s>>] # "none" => u \in Known
ReplayInv ==
    /\ \A i \in DOMAIN requests :
         requests[i].kind = "replay" /\ (\A j \in 1..(i - 1) : ~Clears(requests[j])) => ReadsKnown
    /\ "cached" \in Range(loads) /\ (\A j \in DOMAIN requests : ~Clears(requests[j])) => ReadsKnown

\* A sign-in that nobody has interrupted goes to the database of its user.
FlowInv ==
    \A f \in flows : f.token \notin former =>
        /\ ref = ShardOf[google]
        /\ f.stage # "offset" => f.at = ref
        /\ f.stage = "bump" => session[ref] # None

\* Only what Firebase has, or had for an earlier page, is shown now or later.
DataInv ==
    /\ \A u \in User, s \in Session : reads[<<u, s>>] = "in" => data[u][s] # "none"
    /\ \A i \in DOMAIN requests : IsPut(requests[i]) =>
         requests[i].value # "none" /\ data[requests[i].user][requests[i].key] # "none"
    /\ \A s \in Session : saved[s] # None => data[saved[s]][s] # "none"
    /\ \A u \in User, d \in Shard, s \in Session :
         seen[<<u, d, s>>] # "none" => d = ShardOf[u] /\ data[u][s] \in {"in", "out"}

\* What a listener was told is shown, or will be by the last write of it.
Puts(u, s) == {i \in DOMAIN requests :
                 IsPut(requests[i]) /\ requests[i].user = u /\ requests[i].key = s}
Passed(u, s, value) ==
    \/ /\ Puts(u, s) = {}
       /\ saved[s] # None <=> value = "in"
       /\ reads[<<u, s>>] \in {"none", value}
    \/ \E i \in Puts(u, s) : requests[i].value = value /\ \A j \in Puts(u, s) : j <= i

\* Nobody was signed out in the middle of anything.
ListenerInv ==
    former = {} =>
        /\ \A d \in Shard : session[d] # None => d = ShardOf[google]
        /\ \A l \in listeners : session[l[2]] = l[1]
        /\ \A l \in listeners, s \in Session :
             seen[<<l[1], l[2], s>>] # "none" => Passed(l[1], s, seen[<<l[1], l[2], s>>])

\* A sign-in is under way or has come to its end.
Arrived ==
    /\ ref = ShardOf[google] /\ session[ref] = google
    /\ \/ "live" \in Range(loads)
       \/ \E i \in DOMAIN requests : requests[i].kind = "listen"
       \/ <<google, ref>> \in listeners
ProgressInv ==
    former = {} /\ google # None /\ person # None /\ used["faults"] = 0 =>
        profiles # {} \/ flows # {} \/ Arrived

IInv ==
    /\ TypeOK /\ FormInv /\ KnownInv /\ ReplayInv /\ FlowInv /\ DataInv
    /\ ListenerInv /\ ProgressInv /\ OnlyFaultsReject

-----------------------------------------------------------------------------
(* Sequences of requests.                                                  *)

LEMMA AppendFacts ==
    ASSUME NEW S, NEW s \in Seq(S), NEW r \in S, NEW t, t = Append(s, r)
    PROVE  /\ t \in Seq(S) /\ Len(s) \in Nat /\ DOMAIN s = 1..Len(s) /\ DOMAIN t = 1..(Len(s) + 1)
           /\ DOMAIN t = DOMAIN s \cup {Len(s) + 1} /\ Len(s) + 1 \notin DOMAIN s
           /\ t[Len(s) + 1] = r /\ \A i \in DOMAIN s : t[i] = s[i]
OBVIOUS

LEMMA ConcatFacts ==
    ASSUME NEW S, NEW s \in Seq(S), NEW r \in Seq(S), NEW t, t = s \o r
    PROVE  /\ t \in Seq(S) /\ Len(s) \in Nat /\ Len(r) \in Nat
           /\ DOMAIN s = 1..Len(s) /\ DOMAIN r = 1..Len(r) /\ DOMAIN t = 1..(Len(s) + Len(r))
           /\ \A i \in DOMAIN s : i \in DOMAIN t /\ t[i] = s[i]
           /\ \A i \in DOMAIN t \ DOMAIN s : i - Len(s) \in DOMAIN r /\ t[i] = r[i - Len(s)]
           /\ \A i \in DOMAIN r : i + Len(s) \in DOMAIN t \ DOMAIN s /\ t[i + Len(s)] = r[i]
OBVIOUS

LEMMA TailFacts ==
    ASSUME NEW S, NEW s \in Seq(S), s # <<>>, NEW t, t = Tail(s)
    PROVE  /\ t \in Seq(S) /\ Head(s) \in S /\ Head(s) = s[1] /\ 1 \in DOMAIN s
           /\ \A i \in DOMAIN t : i \in Nat /\ i >= 1 /\ i + 1 \in DOMAIN s /\ t[i] = s[i + 1]
           /\ \A i \in DOMAIN s : i \in Nat /\ (i = 1 \/ (i > 1 /\ i - 1 \in DOMAIN t /\ t[i - 1] = s[i]))
OBVIOUS

\* The kinds of requests, which their fields tell apart.
LEMMA RequestFacts ==
    ASSUME NEW r \in Request
    PROVE  /\ r.kind \in {"put", "clear", "listen", "replay"}
           /\ IsPut(r) => r.user \in User /\ r.key \in Session /\ r.value \in Value
           /\ ~IsPut(r) => r = [kind |-> r.kind]
BY DEF Request, IsPut

LEMMA NewRequests ==
    /\ [kind |-> "clear"] \in Request /\ [kind |-> "listen"] \in Request
    /\ [kind |-> "replay"] \in Request
    /\ \A u \in User, s \in Session, v \in Value :
         [kind |-> "put", user |-> u, key |-> s, value |-> v] \in Request
BY DEF Request

LEMMA LoadFacts ==
    ASSUME NEW kind \in {"cached", "live"}
    PROVE  /\ Load(kind) \in Request
           /\ Load(kind).kind \in {"replay", "listen"}
           /\ kind = "live" => Load(kind).kind = "listen"
           /\ Load(kind).kind = "replay" => kind = "cached"
BY NewRequests DEF Load

\* The requests that LoadSchedule makes of the loads.
LEMMA LoadsFacts ==
    ASSUME NEW s \in Seq({"cached", "live"}), NEW r, r = [i \in DOMAIN s |-> Load(s[i])]
    PROVE  /\ r \in Seq(Request) /\ DOMAIN r = DOMAIN s /\ \A i \in DOMAIN s : r[i] = Load(s[i])
<1>1. PICK n \in Nat : s \in [1..n -> {"cached", "live"}]
  OBVIOUS
<1>2. r \in [1..n -> Request]
  BY <1>1, LoadFacts
<1> QED BY <1>1, <1>2

-----------------------------------------------------------------------------
(* Types.                                                                  *)

LEMMA InitType == Init => TypeOK
<1> SUFFICES ASSUME Init PROVE TypeOK
  OBVIOUS
<1>1. /\ google \in User \cup {None} /\ person \in User \cup {None} /\ profiles = {} /\ ref = None
      /\ flows = {} /\ pending \in Nat /\ schedule = "loading" /\ requests = <<>> /\ listeners = {}
      /\ data \in [User -> [Session -> Value \cup {"gone"}]] /\ rejected = FALSE
  BY DEF Init
<1>2. /\ session \in [Shard -> User \cup {None}] /\ former \subseteq User
      /\ reads \in [User \X Session -> Value]
  <2>1. NoReads \in [User \X Session -> Value]
    BY DEF NoReads, Value
  <2>2. PICK u \in User, left \in BOOLEAN :
          /\ session = [d \in Shard |-> IF left /\ d = ShardOf[u] THEN u ELSE None]
          /\ reads \in {NoReads} \cup
               {[NoReads EXCEPT ![<<u, s>>] = "in"] : s \in Session}
          /\ former = IF google # u /\ (left \/ reads # NoReads) THEN {u} ELSE {}
    BY DEF Init
  <2>3. session \in [Shard -> User \cup {None}] /\ former \subseteq User
    BY <2>2
  <2>4. "in" \in Value
    BY DEF Value
  <2>5. reads \in [User \X Session -> Value]
    BY <2>1, <2>2, <2>4
  <2> QED BY <2>3, <2>5
<1>3. seen \in [User \X Shard \X Session -> Value] /\ saved \in [Session -> User \cup {None}]
  BY DEF Init, Nobody, Value
<1>4. used \in [{"signins", "surveys", "changes", "faults"} -> Nat]
  BY DEF Init
<1>5. loads \in Seq({"cached", "live"}) /\ requests \in Seq(Request)
  <2>1. <<"cached">> \in Seq({"cached", "live"}) /\ <<>> \in Seq(Request)
    OBVIOUS
  <2>2. loads = <<"cached">> /\ requests = <<>>
    BY DEF Init
  <2> QED BY <2>1, <2>2
<1> QED BY <1>1, <1>2, <1>3, <1>4, <1>5 DEF TypeOK

LEMMA UseFacts ==
    ASSUME TypeOK, NEW bound \in {"signins", "surveys", "changes", "faults"},
           NEW max \in Nat, Use(bound, max)
    PROVE  /\ used' \in [{"signins", "surveys", "changes", "faults"} -> Nat]
           /\ used'[bound] \in 1..max
           /\ bound = "faults" => used'["faults"] > 0
           /\ bound # "faults" => used'["faults"] = used["faults"]
BY DEF Use, TypeOK

\* What the type says of the elements of the sets and sequences.
LEMMA TypeFacts ==
    ASSUME TypeOK
    PROVE  /\ \A p \in profiles : p.n \in 1..MaxSignIns /\ p.token \in User
           /\ \A f \in flows : /\ f \in Flow /\ f.n \in 1..MaxSignIns /\ f.token \in User
                               /\ f.stage \in {"offset", "authorize", "bump"}
                               /\ f.at \in Shard \cup {None}
           /\ \A l \in listeners : l[1] \in User /\ l[2] \in Shard /\ l = <<l[1], l[2]>>
           /\ requests \in Seq(Request) /\ loads \in Seq({"cached", "live"})
           /\ \A i \in DOMAIN requests : requests[i] \in Request
           /\ \A i \in DOMAIN requests : IsPut(requests[i]) =>
                /\ requests[i].user \in User /\ requests[i].key \in Session
                /\ requests[i].value \in Value
           /\ \A u \in User, s \in Session : reads[<<u, s>>] \in Value /\ data[u][s] \in Value \cup {"gone"}
           /\ \A s \in Session : saved[s] \in User \cup {None}
           /\ \A d \in Shard : session[d] \in User \cup {None}
           /\ used["signins"] \in Nat /\ used["faults"] \in Nat
           /\ None \notin User /\ None \notin Shard /\ ShardOf \in [User -> Shard]
<1>1. /\ requests \in Seq(Request) /\ loads \in Seq({"cached", "live"})
      /\ \A i \in DOMAIN requests : requests[i] \in Request
  BY DEF TypeOK
<1>2. \A i \in DOMAIN requests : IsPut(requests[i]) =>
        requests[i].user \in User /\ requests[i].key \in Session /\ requests[i].value \in Value
  BY <1>1, RequestFacts
<1>3. /\ \A p \in profiles : p.n \in 1..MaxSignIns /\ p.token \in User
      /\ \A f \in flows : /\ f \in Flow /\ f.n \in 1..MaxSignIns /\ f.token \in User
                          /\ f.stage \in {"offset", "authorize", "bump"}
                          /\ f.at \in Shard \cup {None}
  BY DEF TypeOK, Flow
<1>4. /\ \A l \in listeners : l[1] \in User /\ l[2] \in Shard /\ l = <<l[1], l[2]>>
      /\ \A s \in Session : saved[s] \in User \cup {None}
      /\ \A d \in Shard : session[d] \in User \cup {None}
      /\ used["signins"] \in Nat /\ used["faults"] \in Nat
  BY DEF TypeOK
<1>5. \A u \in User, s \in Session : reads[<<u, s>>] \in Value /\ data[u][s] \in Value \cup {"gone"}
  BY DEF TypeOK
<1> QED BY <1>1, <1>2, <1>3, <1>4, <1>5, AuthAssumption

LEMMA InitInv == Init => IInv
<1> SUFFICES ASSUME Init PROVE IInv
  OBVIOUS
<1>1. TypeOK
  BY InitType
<1>2. /\ flows = {} /\ profiles = {} /\ listeners = {} /\ requests = <<>> /\ DOMAIN requests = {}
      /\ person = None /\ ref = None /\ schedule = "loading" /\ rejected = FALSE
      /\ used["faults"] = 0 /\ \A s \in Session : saved[s] = None
  <2>1. /\ flows = {} /\ profiles = {} /\ listeners = {} /\ requests = <<>>
        /\ person = None /\ ref = None /\ schedule = "loading" /\ rejected = FALSE
    BY DEF Init
  <2>2. used["faults"] = 0
    BY DEF Init
  <2>3. \A s \in Session : saved[s] = None
    BY DEF Init, Nobody
  <2>4. DOMAIN requests = {}
    BY <2>1
  <2> QED BY <2>1, <2>2, <2>3, <2>4
<1>3. PICK u \in User, left \in BOOLEAN :
        /\ session = [d \in Shard |-> IF left /\ d = ShardOf[u] THEN u ELSE None]
        /\ reads \in {NoReads} \cup
             {[NoReads EXCEPT ![<<u, s>>] = "in"] : s \in Session}
        /\ former = IF google # u /\ (left \/ reads # NoReads) THEN {u} ELSE {}
  BY DEF Init
<1>4. \A v \in User, s \in Session : reads[<<v, s>>] # "none" => reads # NoReads /\ v = u
  BY <1>3 DEF NoReads
<1>5. left \/ reads # NoReads => u \in Known
  BY <1>3 DEF Known
<1>6. FormInv
  BY <1>2 DEF FormInv
<1>7. KnownInv
  BY <1>2, <1>3, <1>5 DEF KnownInv
<1>8. ReplayInv
  BY <1>2, <1>4, <1>5 DEF ReplayInv, ReadsKnown
<1>9. FlowInv
  BY <1>2 DEF FlowInv
<1>10. DataInv
  <2>1. \A v \in User, s \in Session : (reads[<<v, s>>] = "in") => (data[v][s] # "none")
    BY DEF Init
  <2>2. \A v \in User, d \in Shard, s \in Session : seen[<<v, d, s>>] = "none"
    BY DEF Init
  <2> QED BY <1>2, <2>1, <2>2 DEF DataInv
<1>11. ListenerInv
  BY <1>2, <1>3 DEF ListenerInv
<1>12. ProgressInv /\ OnlyFaultsReject
  BY <1>2 DEF ProgressInv, OnlyFaultsReject
<1> QED BY <1>1, <1>6, <1>7, <1>8, <1>9, <1>10, <1>11, <1>12 DEF IInv

-----------------------------------------------------------------------------
(* What most steps leave alone.                                            *)

LEMMA DataKept ==
    ASSUME DataInv, UNCHANGED <<reads, requests, data, saved, seen>>
    PROVE  DataInv'
<1>1. reads' = reads /\ requests' = requests /\ data' = data /\ saved' = saved /\ seen' = seen
  OBVIOUS
<1>2. (\A u \in User, s \in Session : reads[<<u, s>>] = "in" => data[u][s] # "none")'
  BY <1>1 DEF DataInv
<1>3. (\A i \in DOMAIN requests : IsPut(requests[i]) =>
         requests[i].value # "none" /\ data[requests[i].user][requests[i].key] # "none")'
  BY <1>1 DEF DataInv
<1>4. (\A s \in Session : saved[s] # None => data[saved[s]][s] # "none")'
  BY <1>1 DEF DataInv
<1>5. (\A u \in User, d \in Shard, s \in Session :
         seen[<<u, d, s>>] # "none" => d = ShardOf[u] /\ data[u][s] \in {"in", "out"})'
  BY <1>1 DEF DataInv
<1> QED BY <1>2, <1>3, <1>4, <1>5 DEF DataInv

-----------------------------------------------------------------------------
(* Sign-in.                                                                *)

\* LoadAuth and SignIn.
LEMMA HandleSignInStep ==
    ASSUME IInv, NEW u \in User, HandleSignIn(u), google' = u,
           (google = u /\ person = None) \/ google = None,
           UNCHANGED <<ref, session, flows, pending, page, store, watch, saved, data,
                       former, rejected>>
    PROVE  IInv'
<1> DEFINE signed == [n |-> used'["signins"], token |-> u]
<1>1. /\ UNCHANGED <<ref, session, flows, pending, schedule, loads, requests, reads, listeners, seen,
                     saved, data, former, rejected>>
      /\ google' = u /\ person' = u /\ profiles' = profiles \cup {signed}
  BY DEF HandleSignIn, page, store, watch
<1>2. TypeOK
  BY DEF IInv
<1>3. /\ used' \in [{"signins", "surveys", "changes", "faults"} -> Nat]
      /\ used'["signins"] \in 1..MaxSignIns /\ used'["faults"] = used["faults"]
  BY <1>2, UseFacts, AuthAssumption DEF HandleSignIn
<1>4. TypeOK'
  BY <1>1, <1>2, <1>3 DEF TypeOK
<1>5. \A v \in User : v \in Known => v \in Known'
  BY <1>1, AuthAssumption DEF Known
<1>6. FormInv'
  BY <1>1, AuthAssumption DEF FormInv, IInv
<1>7. KnownInv'
  <2>1. u \in Known'
    BY <1>1 DEF Known
  <2>4. \A p \in profiles' : p.token \in Known'
    <3>1. \A p \in profiles : p.token \in Known'
      BY <1>2, <1>5, TypeFacts DEF KnownInv, IInv
    <3>2. signed.token \in Known'
      BY <2>1
    <3> HIDE DEF signed
    <3> QED BY <1>1, <3>1, <3>2
  <2>2. /\ \A f \in flows : f.token \in Known'
        /\ \A l \in listeners : l[1] \in Known'
        /\ \A i \in DOMAIN requests : IsPut(requests[i]) => requests[i].user \in Known'
    BY <1>1, <1>2, <1>5, <2>1, TypeFacts DEF KnownInv, IInv
  <2>3. /\ \A d \in Shard : session[d] \in Known' \cup {None}
        /\ \A s \in Session : saved[s] \in Known' \cup {None}
    BY <1>1, <1>2, <1>5, TypeFacts DEF KnownInv, IInv
  <2> QED BY <1>1, <2>2, <2>3, <2>4 DEF KnownInv
<1>8. ReplayInv'
  <2>1. ReadsKnown => ReadsKnown'
    BY <1>1, <1>5 DEF ReadsKnown
  <2> QED BY <1>1, <2>1 DEF ReplayInv, IInv
<1>9. google = None \/ flows = {}
  BY DEF FormInv, IInv
<1>10. FlowInv'
  <2>1. \A f \in flows : f.token \in former
    BY <1>2, <1>9, TypeFacts DEF KnownInv, Known, IInv
  <2> QED BY <1>1, <2>1 DEF FlowInv
<1>11. DataInv'
  BY <1>1, DataKept DEF IInv
<1>12. ListenerInv'
  <2>1. \A v \in User, s \in Session, value \in Value : Passed(v, s, value)' <=> Passed(v, s, value)
    BY <1>1 DEF Passed, Puts
  <2>2. CASE google = u
    <3>1. \A l \in listeners, s \in Session : l[1] \in User /\ seen[<<l[1], l[2], s>>] \in Value
      BY <1>2, TypeFacts DEF TypeOK
    <3> QED BY <1>1, <2>1, <2>2, <3>1 DEF ListenerInv, IInv
  <2>3. CASE google = None
    <3>1. former = {} => listeners = {} /\ \A d \in Shard : session[d] = None
      BY <1>2, <2>3, TypeFacts DEF KnownInv, Known, IInv
    <3> QED BY <1>1, <3>1 DEF ListenerInv
  <2> QED BY <2>2, <2>3
<1>13. ProgressInv'
  BY <1>1 DEF ProgressInv
<1>14. OnlyFaultsReject'
  BY <1>1, <1>3 DEF OnlyFaultsReject, IInv
<1> QED BY <1>4, <1>6, <1>7, <1>8, <1>10, <1>11, <1>12, <1>13, <1>14 DEF IInv

-----------------------------------------------------------------------------
(* The steps of a sign-in, up to the loading of the schedule.              *)

\* What a step of auth() must see to; the schedule is not concerned.
LEMMA FlowStep ==
    ASSUME IInv, TypeOK',
           UNCHANGED <<google, person, schedule, loads, requests, reads, listeners, seen, saved,
                       data, former>>,
           profiles' \subseteq profiles,
           \A f \in flows' : f.token \in Known /\ (f.stage # "offset" => f.at \in Shard),
           person = None => flows' = {} /\ ref' = None,
           \A d \in Shard : session'[d] \in Known \cup {None},
           former = {} => \A d \in Shard : /\ session'[d] # None => d = ShardOf[google]
                                           /\ session[d] # None => session'[d] = session[d],
           FlowInv', ProgressInv', OnlyFaultsReject'
    PROVE  IInv'
<1>1. Known' = Known
  BY DEF Known
<1>2. TypeOK
  BY DEF IInv
<1>3. FormInv'
  BY DEF FormInv, IInv
<1>4. KnownInv'
  <2>1. /\ \A p \in profiles' : p.token \in Known
        /\ \A l \in listeners' : l[1] \in Known
    BY DEF KnownInv, IInv
  <2>2. /\ \A i \in DOMAIN requests' : IsPut(requests'[i]) => requests'[i].user \in Known
        /\ \A s \in Session : saved'[s] \in Known \cup {None}
    BY DEF KnownInv, IInv
  <2> QED BY <1>1, <2>1, <2>2 DEF KnownInv
<1>5. ReplayInv'
  <2>1. ReadsKnown' <=> ReadsKnown
    BY <1>1 DEF ReadsKnown
  <2> QED BY <2>1 DEF ReplayInv, IInv
<1>6. DataInv'
  BY DataKept DEF IInv
<1>7. ListenerInv'
  <2>1. \A v, s, value : Passed(v, s, value)' <=> Passed(v, s, value)
    BY DEF Passed, Puts
  <2>2. former = {} => \A l \in listeners : session'[l[2]] = l[1]
    <3>1. \A l \in listeners : l[1] \in User /\ l[2] \in Shard
      BY <1>2, TypeFacts
    <3>2. former = {} => \A l \in listeners : session[l[2]] = l[1]
      BY DEF ListenerInv, IInv
    <3> QED BY <3>1, <3>2, AuthAssumption
  <2> QED BY <2>1, <2>2 DEF ListenerInv, IInv
<1> QED BY <1>3, <1>4, <1>5, <1>6, <1>7 DEF IInv

\* A sign-in that nobody has interrupted is that of the user who is signed in.
LEMMA Undisturbed ==
    ASSUME IInv, NEW f \in flows, f.token \notin former
    PROVE  /\ google = f.token /\ google \in User /\ person = google
           /\ ref = ShardOf[google] /\ ref \in Shard /\ ref # None
<1>1. f.token \in User /\ f.token \in Known /\ person # None
  BY TypeFacts DEF IInv, KnownInv, FormInv
<1>2. google = f.token
  BY <1>1 DEF Known
<1> QED BY <1>1, <1>2, AuthAssumption DEF IInv, FormInv, FlowInv

LEMMA LoadUserInfoStep == ASSUME IInv, NEW p \in profiles, LoadUserInfo(p) PROVE IInv'
<1>1. /\ UNCHANGED <<google, person, schedule, loads, requests, reads, listeners, seen, saved,
                     data, former, session, pending, rejected>>
      /\ profiles' = profiles \ {p}
  BY DEF LoadUserInfo, page, store, watch
<1>2. TypeOK /\ person # None /\ person \in User /\ p.token \in User /\ p.n \in 1..MaxSignIns
      /\ p.token \in Known
  BY TypeFacts DEF IInv, FormInv, KnownInv, TypeOK
<1>3. google # None => person = google
  BY <1>2 DEF IInv, FormInv
<1>4. \A d \in Shard : session'[d] \in Known \cup {None}
  BY <1>1 DEF IInv, KnownInv
<1>5. former = {} => \A d \in Shard : /\ session'[d] # None => d = ShardOf[google]
                                      /\ session[d] # None => session'[d] = session[d]
  BY <1>1 DEF IInv, ListenerInv
<1>6. ASSUME ref' = ShardOf[person], UNCHANGED used,
             flows' = flows \cup {[n |-> p.n, token |-> p.token, stage |-> "offset", at |-> None]}
      PROVE  IInv'
  <2>1. PICK g : g = [n |-> p.n, token |-> p.token, stage |-> "offset", at |-> None]
    OBVIOUS
  <2>2. g \in Flow /\ g.token = p.token /\ g.stage = "offset" /\ flows' = flows \cup {g}
    BY <1>2, <1>6, <2>1 DEF Flow
  <2>3. TypeOK'
    BY <1>1, <1>2, <1>6, <2>2, AuthAssumption DEF TypeOK
  <2>4. \A f \in flows' : f.token \in Known /\ (f.stage # "offset" => f.at \in Shard)
    BY <1>2, <2>2 DEF IInv, KnownInv, FormInv
  <2>5. FlowInv'
    <3> SUFFICES ASSUME NEW f \in flows', f.token \notin former
                 PROVE  /\ ref' = ShardOf[google]
                        /\ f.stage # "offset" => f.at = ref'
                        /\ f.stage = "bump" => session[ref'] # None
      BY <1>1 DEF FlowInv
    <3>1. google # None /\ person = google
      <4>1. f.token \in User
        BY <1>2, <2>2, TypeFacts
      <4> QED BY <1>3, <2>4, <4>1, AuthAssumption DEF Known
    <3>2. CASE f = g
      BY <1>6, <2>2, <3>1, <3>2
    <3>3. CASE f \in flows
      BY <1>6, <3>1, <3>3 DEF IInv, FlowInv
    <3> QED BY <2>2, <3>2, <3>3
  <2>6. ProgressInv' /\ OnlyFaultsReject'
    BY <1>1, <1>6, <2>2 DEF ProgressInv, OnlyFaultsReject, IInv
  <2> QED BY <1>1, <1>2, <1>4, <1>5, <2>3, <2>4, <2>5, <2>6, FlowStep
<1>7. ASSUME IF google = None THEN UNCHANGED used ELSE Use("faults", MaxFaults),
             UNCHANGED <<ref, flows>>
      PROVE  IInv'
  <2>1. /\ used' \in [{"signins", "surveys", "changes", "faults"} -> Nat]
        /\ google # None => used'["faults"] > 0
        /\ used'["faults"] >= used["faults"] /\ used["faults"] \in Nat
    <3>1. used["faults"] \in Nat /\ used \in [{"signins", "surveys", "changes", "faults"} -> Nat]
      BY <1>2 DEF TypeOK
    <3>2. CASE google = None
      BY <1>7, <3>1, <3>2
    <3>3. CASE google # None
      <4>1. Use("faults", MaxFaults)
        BY <1>7, <3>3
      <4> QED BY <3>1, <4>1 DEF Use
    <3> QED BY <3>2, <3>3
  <2>2. TypeOK'
    BY <1>1, <1>2, <1>7, <2>1 DEF TypeOK
  <2>3. \A f \in flows' : f.token \in Known /\ (f.stage # "offset" => f.at \in Shard)
    BY <1>7 DEF IInv, KnownInv, FormInv
  <2>4. FlowInv'
    BY <1>1, <1>7 DEF FlowInv, IInv
  <2>5. ProgressInv'
    BY <1>1, <2>1 DEF ProgressInv
  <2>6. OnlyFaultsReject'
    BY <1>1, <2>1 DEF OnlyFaultsReject, IInv
  <2> QED BY <1>1, <1>2, <1>4, <1>5, <2>2, <2>3, <2>4, <2>5, <2>6, FlowStep
<1> QED BY <1>6, <1>7 DEF LoadUserInfo

LEMMA SetClockOffsetStep == ASSUME IInv, NEW f \in flows, SetClockOffset(f) PROVE IInv'
<1>1. /\ UNCHANGED <<google, person, profiles, ref, schedule, loads, requests, reads, listeners, seen,
                     saved, data, former, session, used>>
      /\ f.stage = "offset"
  BY DEF SetClockOffset, account, page, store, watch
<1>2. TypeOK /\ f.token \in Known /\ person # None
  BY DEF IInv, KnownInv, FormInv
<1>3. \A d \in Shard : session'[d] \in Known \cup {None}
  BY <1>1 DEF IInv, KnownInv
<1>4. former = {} => \A d \in Shard : /\ session'[d] # None => d = ShardOf[google]
                                      /\ session[d] # None => session'[d] = session[d]
  BY <1>1 DEF IInv, ListenerInv
<1>5. ASSUME ref = None, EndFlow(f) PROVE IInv'
  <2>1. f.token \in former
    BY <1>5, Undisturbed
  <2>2. flows' = flows \ {f} /\ pending' = 0 /\ rejected' = rejected
    BY <1>2, <1>5, <2>1 DEF EndFlow, TypeOK
  <2>3. TypeOK'
    BY <1>1, <1>2, <2>2 DEF TypeOK
  <2>4. \A g \in flows' : g.token \in Known /\ (g.stage # "offset" => g.at \in Shard)
    BY <2>2 DEF IInv, KnownInv, FormInv
  <2>5. FlowInv' /\ ProgressInv' /\ OnlyFaultsReject'
    BY <1>1, <2>1, <2>2 DEF FlowInv, ProgressInv, OnlyFaultsReject, IInv
  <2> QED BY <1>1, <1>2, <1>3, <1>4, <2>3, <2>4, <2>5, FlowStep
<1>6. ASSUME ref # None, Continue(f, "authorize", ref) PROVE IInv'
  <2>1. PICK g : g = [f EXCEPT !.stage = "authorize", !.at = ref]
    OBVIOUS
  <2>2. ref \in Shard
    BY <1>2, <1>6 DEF TypeOK
  <2>3. g \in Flow /\ g.token = f.token /\ g.stage = "authorize" /\ g.at = ref
    <3>1. f \in Flow
      BY <1>2, TypeFacts
    <3> QED BY <2>1, <2>2, <3>1 DEF Flow
  <2>4. flows' = (flows \ {f}) \cup {g} /\ pending' = pending /\ rejected' = rejected
    BY <1>6, <2>1 DEF Continue
  <2>5. TypeOK'
    BY <1>1, <1>2, <2>3, <2>4 DEF TypeOK
  <2>6. \A h \in flows' : h.token \in Known /\ (h.stage # "offset" => h.at \in Shard)
    BY <1>2, <2>2, <2>3, <2>4 DEF IInv, KnownInv, FormInv
  <2>7. FlowInv'
    BY <1>1, <2>3, <2>4 DEF FlowInv, IInv
  <2>8. ProgressInv' /\ OnlyFaultsReject'
    BY <1>1, <2>4 DEF ProgressInv, OnlyFaultsReject, IInv
  <2> QED BY <1>1, <1>2, <1>3, <1>4, <2>5, <2>6, <2>7, <2>8, FlowStep
<1> QED BY <1>5, <1>6 DEF SetClockOffset

LEMMA AuthorizeStep == ASSUME IInv, NEW f \in flows, Authorize(f) PROVE IInv'
<1>1. /\ UNCHANGED <<google, person, profiles, ref, schedule, loads, requests, reads, listeners, seen,
                     saved, data, former>>
      /\ f.stage = "authorize"
  BY DEF Authorize, account, page, store, watch
<1>2. TypeOK /\ f.token \in Known /\ person # None /\ f.at \in Shard /\ f.token \in User /\ f.token # None
  <2>1. TypeOK /\ f.token \in Known /\ person # None /\ f.at \in Shard
    BY <1>1 DEF IInv, KnownInv, FormInv
  <2>2. f.token \in User
    BY <2>1, TypeFacts
  <2> QED BY <2>1, <2>2, AuthAssumption
<1>3. f.token \notin former => f.at = ref /\ google = f.token /\ ref = ShardOf[google] /\ ref \in Shard /\ ref # None
  BY <1>1, Undisturbed DEF IInv, FlowInv
<1>4. ASSUME session' = [session EXCEPT ![f.at] = f.token], UNCHANGED used,
             IF Authed(ref, session') THEN Continue(f, "bump", f.at) ELSE EndFlow(f)
      PROVE  IInv'
  <2>1. /\ session' \in [Shard -> User \cup {None}] /\ session'[f.at] = f.token
        /\ \A d \in Shard : d # f.at => session'[d] = session[d]
    BY <1>2, <1>4 DEF TypeOK
  <2>2. \A d \in Shard : session'[d] \in Known \cup {None}
    BY <1>2, <2>1 DEF IInv, KnownInv
  <2>3. former = {} => \A d \in Shard : /\ session'[d] # None => d = ShardOf[google]
                                        /\ session[d] # None => session'[d] = session[d]
    <3> SUFFICES ASSUME former = {}, NEW d \in Shard
                 PROVE  /\ session'[d] # None => d = ShardOf[google]
                        /\ session[d] # None => session'[d] = session[d]
      OBVIOUS
    <3>1. /\ session[d] # None => d = ShardOf[google]
          /\ session[d] \in {google, None}
      BY DEF IInv, ListenerInv, KnownInv, Known
    <3> QED BY <1>3, <2>1, <3>1
  <2>4. f.token \notin former => Authed(ref, session')
    BY <1>2, <1>3, <2>1 DEF Authed
  <2>5. PICK g : g = [f EXCEPT !.stage = "bump", !.at = f.at]
    OBVIOUS
  <2>6. g \in Flow /\ g.token = f.token /\ g.stage = "bump" /\ g.at = f.at
    <3>1. f \in Flow
      BY <1>2, TypeFacts
    <3> QED BY <2>5, <3>1 DEF Flow
  <2>7. /\ rejected' = rejected /\ pending' \in Nat
        /\ \/ flows' = flows \ {f} /\ f.token \in former
           \/ flows' = (flows \ {f}) \cup {g}
    <3>1. CASE Authed(ref, session')
      BY <1>2, <1>4, <2>5, <3>1 DEF Continue, TypeOK
    <3>2. CASE ~Authed(ref, session')
      BY <1>2, <1>4, <2>4, <3>2 DEF EndFlow, TypeOK
    <3> QED BY <3>1, <3>2
  <2>8. TypeOK'
    BY <1>1, <1>2, <1>4, <2>1, <2>6, <2>7 DEF TypeOK
  <2>9. \A h \in flows' : h.token \in Known /\ (h.stage # "offset" => h.at \in Shard)
    BY <1>2, <2>6, <2>7 DEF IInv, KnownInv, FormInv
  <2>10. FlowInv'
    <3> SUFFICES ASSUME NEW h \in flows', h.token \notin former
                 PROVE  /\ ref = ShardOf[google]
                        /\ h.stage # "offset" => h.at = ref
                        /\ h.stage = "bump" => session'[ref] # None
      BY <1>1 DEF FlowInv
    <3>1. CASE h = g
      BY <1>2, <1>3, <2>1, <2>6, <3>1
    <3>2. CASE h \in flows
      <4>1. /\ ref = ShardOf[google] /\ ref \in Shard
            /\ h.stage # "offset" => h.at = ref
            /\ h.stage = "bump" => session[ref] # None
        BY <3>2, Undisturbed DEF IInv, FlowInv
      <4>2. session'[ref] = session[ref] \/ session'[ref] = f.token
        BY <2>1, <4>1
      <4> QED BY <1>2, <4>1, <4>2
    <3> QED BY <2>7, <3>1, <3>2
  <2>11. ProgressInv'
    <3>1. former = {} => g \in flows'
      BY <2>7
    <3> QED BY <1>1, <3>1 DEF ProgressInv
  <2>12. OnlyFaultsReject'
    BY <1>4, <2>7 DEF OnlyFaultsReject, IInv
  <2> QED BY <1>1, <1>2, <2>2, <2>3, <2>8, <2>9, <2>10, <2>11, <2>12, FlowStep
<1>5. ASSUME Use("faults", MaxFaults), UNCHANGED session, EndFlow(f) PROVE IInv'
  <2>1. used' \in [{"signins", "surveys", "changes", "faults"} -> Nat] /\ used'["faults"] > 0
    BY <1>2, <1>5, UseFacts, AuthAssumption
  <2>2. flows' = flows \ {f} /\ pending' = 0 /\ rejected' \in BOOLEAN
    BY <1>2, <1>5 DEF EndFlow, TypeOK
  <2>3. TypeOK'
    BY <1>1, <1>2, <1>5, <2>1, <2>2 DEF TypeOK
  <2>4. \A h \in flows' : h.token \in Known /\ (h.stage # "offset" => h.at \in Shard)
    BY <2>2 DEF IInv, KnownInv, FormInv
  <2>5. FlowInv'
    BY <1>1, <1>5, <2>2 DEF FlowInv, IInv
  <2>6. ProgressInv' /\ OnlyFaultsReject'
    BY <1>1, <2>1 DEF ProgressInv, OnlyFaultsReject
  <2>7. \A d \in Shard : session'[d] \in Known \cup {None}
    BY <1>5 DEF IInv, KnownInv
  <2>8. former = {} => \A d \in Shard : /\ session'[d] # None => d = ShardOf[google]
                                        /\ session[d] # None => session'[d] = session[d]
    BY <1>5 DEF IInv, ListenerInv
  <2> QED BY <1>1, <1>2, <2>3, <2>4, <2>5, <2>6, <2>7, <2>8, FlowStep
<1> QED BY <1>4, <1>5 DEF Authorize

\* The requests have become more, but no writes.
LEMMA Extended ==
    ASSUME \A i \in DOMAIN requests : i \in DOMAIN requests' /\ requests'[i] = requests[i],
           \A i \in DOMAIN requests' \ DOMAIN requests : ~IsPut(requests'[i]),
           DataInv, UNCHANGED <<reads, saved, seen, data>>
    PROVE  /\ \A i \in DOMAIN requests' : IsPut(requests'[i]) =>
                i \in DOMAIN requests /\ requests'[i] = requests[i]
           /\ \A u, s : Puts(u, s)' = Puts(u, s)
           /\ \A u, s, value : Passed(u, s, value)' <=> Passed(u, s, value)
           /\ DataInv'
<1>1. \A i \in DOMAIN requests' : IsPut(requests'[i]) =>
        i \in DOMAIN requests /\ requests'[i] = requests[i]
  OBVIOUS
<1>2. ASSUME NEW u, NEW s PROVE Puts(u, s)' = Puts(u, s)
  <2>1. \A i : i \in Puts(u, s)' <=> i \in Puts(u, s)
    BY <1>1 DEF Puts, IsPut
  <2> QED BY <2>1 DEF Puts
<1>3. ASSUME NEW u, NEW s, NEW value PROVE Passed(u, s, value)' <=> Passed(u, s, value)
  <2>1. \A i \in Puts(u, s) : requests'[i] = requests[i]
    BY DEF Puts
  <2>2. Puts(u, s)' = Puts(u, s)
    BY <1>2
  <2> HIDE DEF Puts
  <2> QED BY <2>1, <2>2 DEF Passed
<1>4. DataInv'
  <2>1. (\A u \in User, s \in Session : reads[<<u, s>>] = "in" => data[u][s] # "none")'
    BY DEF DataInv
  <2>2. \A i \in DOMAIN requests' : IsPut(requests'[i]) =>
           requests'[i].value # "none" /\ data'[requests'[i].user][requests'[i].key] # "none"
    BY <1>1 DEF DataInv
  <2>3. (\A s \in Session : saved[s] # None => data[saved[s]][s] # "none")'
    BY DEF DataInv
  <2>4. (\A u \in User, d \in Shard, s \in Session :
           seen[<<u, d, s>>] # "none" => d = ShardOf[u] /\ data[u][s] \in {"in", "out"})'
    BY DEF DataInv
  <2> QED BY <2>1, <2>2, <2>3, <2>4 DEF DataInv
<1> QED BY <1>1, <1>2, <1>3, <1>4

\* What a step must see to that makes requests other than writes.
LEMMA ScheduleStep ==
    ASSUME IInv, TypeOK',
           UNCHANGED <<google, person, profiles, ref, session, reads, listeners, seen, saved, data,
                       former>>,
           flows' \subseteq flows, schedule' = "loaded" => loads' = <<>>,
           \A i \in DOMAIN requests : i \in DOMAIN requests' /\ requests'[i] = requests[i],
           \A i \in DOMAIN requests' \ DOMAIN requests :
               /\ ~IsPut(requests'[i]) /\ \A j \in DOMAIN requests : j \in 1..(i - 1)
               /\ requests'[i].kind = "replay" => "cached" \in Range(loads),
           "cached" \in Range(loads') => "cached" \in Range(loads),
           ProgressInv', OnlyFaultsReject'
    PROVE  IInv'
<1>1. Known' = Known /\ (ReadsKnown' <=> ReadsKnown)
  BY DEF Known, ReadsKnown
<1>2. TypeOK /\ DataInv
  BY DEF IInv
<1>3. /\ \A i \in DOMAIN requests' : IsPut(requests'[i]) =>
           i \in DOMAIN requests /\ requests'[i] = requests[i]
      /\ \A u, s, value : Passed(u, s, value)' <=> Passed(u, s, value)
      /\ DataInv'
  BY <1>2, Extended
<1>4. FormInv'
  BY DEF FormInv, IInv
<1>5. KnownInv'
  <2>1. /\ \A p \in profiles' : p.token \in Known
        /\ \A f \in flows' : f.token \in Known
        /\ \A l \in listeners' : l[1] \in Known
    BY DEF KnownInv, IInv
  <2>2. /\ \A i \in DOMAIN requests' : IsPut(requests'[i]) => requests'[i].user \in Known
        /\ \A d \in Shard : session'[d] \in Known \cup {None}
        /\ \A s \in Session : saved'[s] \in Known \cup {None}
    BY <1>3 DEF KnownInv, IInv
  <2> QED BY <1>1, <2>1, <2>2 DEF KnownInv
<1>6. ReplayInv'
  <2>1. ASSUME NEW i \in DOMAIN requests', requests'[i].kind = "replay",
               \A j \in 1..(i - 1) : ~Clears(requests'[j])
        PROVE  ReadsKnown
    <3>1. CASE i \in DOMAIN requests
      <4>1. \A j \in 1..(i - 1) : j \in DOMAIN requests
        BY <1>2, <3>1 DEF TypeOK
      <4>2. \A j \in 1..(i - 1) : ~Clears(requests[j])
        BY <2>1, <4>1
      <4> QED BY <2>1, <3>1, <4>2 DEF ReplayInv, IInv
    <3>2. CASE i \notin DOMAIN requests
      <4>1. "cached" \in Range(loads) /\ \A j \in DOMAIN requests : j \in 1..(i - 1)
        BY <2>1, <3>2
      <4>2. \A j \in DOMAIN requests : ~Clears(requests[j])
        BY <2>1, <4>1
      <4> QED BY <4>1, <4>2 DEF ReplayInv, IInv
    <3> QED BY <3>1, <3>2
  <2>2. ASSUME "cached" \in Range(loads'), \A j \in DOMAIN requests' : ~Clears(requests'[j])
        PROVE  ReadsKnown
    <3>1. "cached" \in Range(loads) /\ \A j \in DOMAIN requests : ~Clears(requests[j])
      BY <2>2
    <3> QED BY <3>1 DEF ReplayInv, IInv
  <2> QED BY <1>1, <2>1, <2>2 DEF ReplayInv
<1>7. FlowInv'
  BY DEF FlowInv, IInv
<1>8. ListenerInv'
  BY <1>3 DEF ListenerInv, IInv
<1> QED BY <1>3, <1>4, <1>5, <1>6, <1>7, <1>8 DEF IInv

LEMMA BumpedStep == ASSUME IInv, NEW f \in flows, Bumped(f) PROVE IInv'
<1>1. /\ UNCHANGED <<google, person, profiles, ref, schedule, reads, listeners, seen, saved, data,
                     former, session>>
      /\ f.stage = "bump" /\ flows' = flows \ {f} /\ pending' = 0
      /\ rejected' = (rejected \/ (pending > 0 /\ ~Authed(ref, session') /\ f.token \notin former))
  BY DEF Bumped, EndFlow, account, watch
<1>2. TypeOK /\ f.token \in Known /\ person # None
  BY DEF IInv, KnownInv, FormInv
<1>3. f.token \notin former =>
        /\ google = f.token /\ ref = ShardOf[google] /\ f.at = ref /\ ref # None /\ session[ref] # None
        /\ ref \in Shard
  BY <1>1, Undisturbed DEF IInv, FlowInv
<1>4. rejected' = rejected
  BY <1>1, <1>2, <1>3 DEF Authed, TypeOK
<1>5. former = {} => google = f.token /\ ref = ShardOf[google] /\ session[ref] = google /\ f.at = ref
  <2>1. former = {} => session[ref] \in {google, None}
    BY <1>3 DEF IInv, KnownInv, Known
  <2> QED BY <1>3, <2>1
<1>6. ASSUME UNCHANGED used,
             \/ schedule = "loaded" /\ requests' = Append(requests, Load("live")) /\ UNCHANGED loads
             \/ schedule # "loaded" /\ loads' = Append(loads, "live") /\ UNCHANGED requests
      PROVE  IInv'
  <2>1. /\ requests \in Seq(Request) /\ loads \in Seq({"cached", "live"})
    BY <1>2 DEF TypeOK
  <2>2. CASE schedule = "loaded" /\ requests' = Append(requests, Load("live")) /\ UNCHANGED loads
    <3>1. PICK r : r = Load("live")
      OBVIOUS
    <3>2. r \in Request /\ r.kind = "listen"
      BY <3>1, NewRequests DEF Load
    <3>3. /\ requests' \in Seq(Request) /\ Len(requests) \in Nat /\ DOMAIN requests = 1..Len(requests)
          /\ DOMAIN requests' = DOMAIN requests \cup {Len(requests) + 1}
          /\ requests'[Len(requests) + 1] = r /\ \A i \in DOMAIN requests : requests'[i] = requests[i]
      BY <2>1, <2>2, <3>1, <3>2, AppendFacts
    <3>4. TypeOK'
      BY <1>1, <1>2, <1>4, <1>6, <2>2, <3>3 DEF TypeOK
    <3>5. \A i \in DOMAIN requests' \ DOMAIN requests :
            /\ ~IsPut(requests'[i]) /\ \A j \in DOMAIN requests : j \in 1..(i - 1)
            /\ requests'[i].kind = "replay" => "cached" \in Range(loads)
      BY <3>2, <3>3 DEF IsPut
    <3>6. ProgressInv'
      <4>1. \E i \in DOMAIN requests' : requests'[i].kind = "listen"
        BY <3>2, <3>3
      <4> QED BY <1>1, <1>5, <4>1 DEF ProgressInv, Arrived
    <3>7. OnlyFaultsReject' /\ (schedule' = "loaded" => loads' = <<>>)
      BY <1>1, <1>4, <1>6, <2>2 DEF OnlyFaultsReject, IInv, FormInv
    <3> QED BY <1>1, <2>2, <3>3, <3>4, <3>5, <3>6, <3>7, ScheduleStep
  <2>3. CASE schedule # "loaded" /\ loads' = Append(loads, "live") /\ UNCHANGED requests
    <3>1. PICK kind : kind = "live"
      OBVIOUS
    <3>2. kind \in {"cached", "live"} /\ loads' = Append(loads, kind)
      BY <2>3, <3>1
    <3>3. /\ loads' \in Seq({"cached", "live"})
          /\ DOMAIN loads' = DOMAIN loads \cup {Len(loads) + 1}
          /\ loads'[Len(loads) + 1] = kind /\ \A i \in DOMAIN loads : loads'[i] = loads[i]
      BY <2>1, <3>2, AppendFacts
    <3>4. TypeOK'
      BY <1>1, <1>2, <1>4, <1>6, <2>3, <3>3 DEF TypeOK
    <3>5. "live" \in Range(loads') /\ ("cached" \in Range(loads') => "cached" \in Range(loads))
      BY <3>1, <3>3 DEF Range
    <3>6. ProgressInv'
      BY <1>1, <1>5, <3>5 DEF ProgressInv, Arrived
    <3>7. OnlyFaultsReject' /\ (schedule' = "loaded" => loads' = <<>>)
      BY <1>1, <1>4, <1>6, <2>3 DEF OnlyFaultsReject, IInv
    <3> QED BY <1>1, <2>3, <3>4, <3>5, <3>6, <3>7, ScheduleStep
  <2> QED BY <1>6, <2>2, <2>3
<1>7. ASSUME UNCHANGED <<requests, loads>>,
             IF session[f.at] = f.token THEN Use("faults", MaxFaults) ELSE UNCHANGED used
      PROVE  IInv'
  <2>1. /\ used' \in [{"signins", "surveys", "changes", "faults"} -> Nat]
        /\ session[f.at] = f.token => used'["faults"] > 0
        /\ used["faults"] > 0 => used'["faults"] > 0
    <3>1. used["faults"] \in Nat /\ used \in [{"signins", "surveys", "changes", "faults"} -> Nat]
      BY <1>2 DEF TypeOK
    <3>2. CASE session[f.at] # f.token
      BY <1>7, <3>1, <3>2
    <3>3. CASE session[f.at] = f.token
      <4>1. Use("faults", MaxFaults)
        BY <1>7, <3>3
      <4> QED BY <3>1, <4>1 DEF Use
    <3> QED BY <3>2, <3>3
  <2>2. TypeOK'
    BY <1>1, <1>2, <1>4, <1>7, <2>1 DEF TypeOK
  <2>3. ProgressInv'
    BY <1>1, <1>5, <2>1 DEF ProgressInv, TypeOK
  <2>4. OnlyFaultsReject'
    BY <1>2, <1>4, <2>1 DEF OnlyFaultsReject, IInv, TypeOK
  <2>5. schedule' = "loaded" => loads' = <<>>
    BY <1>1, <1>7 DEF IInv, FormInv
  <2> QED BY <1>1, <1>7, <2>2, <2>3, <2>4, <2>5, ScheduleStep
<1> QED BY <1>6, <1>7 DEF Bumped

LEMMA LoadScheduleStep == ASSUME IInv, LoadSchedule PROVE IInv'
<1>1. /\ UNCHANGED <<google, person, profiles, ref, session, flows, pending, reads, listeners, seen,
                     saved, data, used, former, rejected>>
      /\ schedule' = "loaded" /\ loads' = <<>>
      /\ requests' = requests \o [i \in DOMAIN loads |-> Load(loads[i])]
  BY DEF LoadSchedule, account, watch
<1>2. TypeOK /\ requests \in Seq(Request) /\ loads \in Seq({"cached", "live"})
  BY DEF IInv, TypeOK
<1>3. PICK made : made = [i \in DOMAIN loads |-> Load(loads[i])]
  OBVIOUS
<1>4. /\ made \in Seq(Request) /\ DOMAIN made = DOMAIN loads
      /\ \A i \in DOMAIN loads : made[i] = Load(loads[i]) /\ loads[i] \in {"cached", "live"}
  BY <1>2, <1>3, LoadsFacts
<1>5. /\ requests' \in Seq(Request) /\ Len(requests) \in Nat /\ Len(made) \in Nat
      /\ DOMAIN requests = 1..Len(requests) /\ DOMAIN requests' = 1..(Len(requests) + Len(made))
      /\ \A i \in DOMAIN requests : i \in DOMAIN requests' /\ requests'[i] = requests[i]
      /\ \A i \in DOMAIN requests' \ DOMAIN requests :
           i - Len(requests) \in DOMAIN made /\ requests'[i] = made[i - Len(requests)]
      /\ \A i \in DOMAIN made : i + Len(requests) \in DOMAIN requests' \ DOMAIN requests
                                /\ requests'[i + Len(requests)] = made[i]
  <2>1. requests' = requests \o made
    BY <1>1, <1>3
  <2> QED BY <1>2, <1>4, <2>1, ConcatFacts
<1>6. TypeOK'
  <2>1. <<>> \in Seq({"cached", "live"})
    OBVIOUS
  <2> QED BY <1>1, <1>2, <1>5, <2>1 DEF TypeOK
<1>7. ASSUME NEW i \in DOMAIN requests' \ DOMAIN requests
      PROVE  /\ ~IsPut(requests'[i]) /\ \A j \in DOMAIN requests : j \in 1..(i - 1)
             /\ requests'[i].kind = "replay" => "cached" \in Range(loads)
  <2>1. PICK k \in DOMAIN loads : requests'[i] = Load(loads[k]) /\ loads[k] \in {"cached", "live"}
    BY <1>4, <1>5
  <2>2. /\ requests'[i].kind \in {"replay", "listen"}
        /\ requests'[i].kind = "replay" => loads[k] = "cached"
    BY <2>1, LoadFacts
  <2>3. requests'[i].kind = "replay" => "cached" \in Range(loads)
    BY <2>1, <2>2 DEF Range
  <2>4. \A j \in DOMAIN requests : j \in 1..(i - 1)
    BY <1>5
  <2> QED BY <2>2, <2>3, <2>4 DEF IsPut
<1>8. Range(loads') = {}
  BY <1>1 DEF Range
<1>9. "live" \in Range(loads) => \E i \in DOMAIN requests' : requests'[i].kind = "listen"
  <2> SUFFICES ASSUME NEW k \in DOMAIN loads, loads[k] = "live"
               PROVE  \E i \in DOMAIN requests' : requests'[i].kind = "listen"
    BY DEF Range
  <2>1. Load(loads[k]).kind = "listen"
    BY LoadFacts
  <2> QED BY <1>4, <1>5, <2>1
<1>10. ProgressInv'
  <2>1. Arrived => Arrived'
    BY <1>1, <1>5, <1>9 DEF Arrived
  <2> QED BY <1>1, <2>1 DEF ProgressInv, IInv
<1>11. OnlyFaultsReject'
  BY <1>1 DEF OnlyFaultsReject, IInv
<1> QED BY <1>1, <1>5, <1>6, <1>7, <1>8, <1>10, <1>11, ScheduleStep

LEMMA LoadAuthStep == ASSUME IInv, LoadAuth PROVE IInv'
<1>1. google \in User
  BY DEF LoadAuth, IInv, TypeOK
<1> QED BY <1>1, HandleSignInStep DEF LoadAuth

LEMMA SignInStep == ASSUME IInv, NEW u \in User, SignIn(u) PROVE IInv'
BY HandleSignInStep DEF SignIn

-----------------------------------------------------------------------------
(* Sign-out.                                                               *)

\* All that goes on is under way, as SignOut notes it.
LEMMA UnderWayFacts ==
    ASSUME TypeOK
    PROVE  /\ UnderWay \subseteq User
           /\ \A p \in profiles : p.token \in UnderWay
           /\ \A f \in flows : f.token \in UnderWay
           /\ \A i \in DOMAIN requests : IsPut(requests[i]) => requests[i].user \in UnderWay
           /\ \A i \in DOMAIN requests, u \in User, s \in Session :
                requests[i].kind = "replay" /\ reads[<<u, s>>] # "none" => u \in UnderWay
<1>1. /\ \A p \in profiles : p.token \in UnderWay /\ p.token \in User
      /\ \A f \in flows : f.token \in UnderWay /\ f.token \in User
  BY TypeFacts DEF UnderWay
<1>2. \A i \in DOMAIN requests : requests[i] \in ToSet(requests)
  BY DEF ToSet
<1>3. \A r \in ToSet(requests) : r.kind = "put" => r.user \in User
  BY TypeFacts DEF ToSet, IsPut
<1>4. \A i \in DOMAIN requests : IsPut(requests[i]) => requests[i].user \in UnderWay
  BY <1>2 DEF UnderWay, IsPut
<1>5. ASSUME NEW i \in DOMAIN requests, requests[i].kind = "replay"
      PROVE  [kind |-> "replay"] \in ToSet(requests)
  <2>1. requests[i] = [kind |-> "replay"]
    BY <1>5, TypeFacts, RequestFacts DEF IsPut
  <2> QED BY <1>2, <2>1
<1>6. \A i \in DOMAIN requests, u \in User, s \in Session :
        requests[i].kind = "replay" /\ reads[<<u, s>>] # "none" => u \in UnderWay
  BY <1>5 DEF UnderWay
<1>7. UnderWay \subseteq User
  BY <1>1, <1>3 DEF UnderWay
<1> QED BY <1>1, <1>4, <1>6, <1>7

LEMMA SignOutStep == ASSUME IInv, SignOut PROVE IInv'
<1>1. /\ UNCHANGED <<person, profiles, flows, pending, schedule, loads, reads, seen, data, used, rejected>>
      /\ google # None /\ person # None /\ google' = None
  BY DEF SignOut, page
<1>2. TypeOK /\ google \in User /\ requests \in Seq(Request)
  BY <1>1 DEF IInv, TypeOK
<1>3. FormInv'
  BY <1>1 DEF FormInv, IInv
<1>4. ProgressInv' /\ OnlyFaultsReject'
  BY <1>1 DEF ProgressInv, OnlyFaultsReject, IInv
<1>5. ASSUME UNCHANGED <<ref, session, listeners, requests, saved>>, former' = former \cup {google}
      PROVE  IInv'
  <2>1. Known' = Known \cup {None} /\ former' # {}
    BY <1>1, <1>5 DEF Known
  <2>2. TypeOK'
    BY <1>1, <1>2, <1>5 DEF TypeOK
  <2>3. KnownInv'
    <3>1. /\ \A p \in profiles' : p.token \in Known'
          /\ \A f \in flows' : f.token \in Known'
          /\ \A l \in listeners' : l[1] \in Known'
      BY <1>1, <1>5, <2>1 DEF KnownInv, IInv
    <3>2. /\ \A d \in Shard : session'[d] \in Known' \cup {None}
          /\ \A i \in DOMAIN requests' : IsPut(requests'[i]) => requests'[i].user \in Known'
          /\ \A s \in Session : saved'[s] \in Known' \cup {None}
      BY <1>5, <2>1 DEF KnownInv, IInv
    <3> QED BY <3>1, <3>2 DEF KnownInv
  <2>4. ReplayInv'
    <3>1. ReadsKnown => ReadsKnown'
      BY <1>1, <2>1 DEF ReadsKnown
    <3> QED BY <1>1, <1>5, <3>1 DEF ReplayInv, IInv
  <2>5. FlowInv'
    <3>1. \A f \in flows : f.token \in former'
      BY <1>2, <1>5, TypeFacts DEF KnownInv, Known, IInv
    <3> QED BY <1>1, <3>1 DEF FlowInv
  <2>6. DataInv'
    BY <1>1, <1>5, DataKept DEF IInv
  <2>7. ListenerInv'
    BY <2>1 DEF ListenerInv
  <2> QED BY <1>3, <1>4, <2>2, <2>3, <2>4, <2>5, <2>6, <2>7 DEF IInv
<1>6. ASSUME \/ ref = None /\ UNCHANGED <<ref, session, listeners>>
             \/ /\ Authed(ref, session)
                /\ listeners' = listeners \ {<<session[ref], ref>>}
                /\ session' = [session EXCEPT ![ref] = None]
                /\ ref' = None,
             requests' = Append(requests, [kind |-> "clear"]), saved' = Nobody,
             former' = UnderWay \cup {l[1] : l \in listeners'}
                         \cup ({session'[d] : d \in Shard} \ {None})
      PROVE  IInv'
  <2>1. /\ ref' \in Shard \cup {None} /\ listeners' \subseteq listeners
        /\ session' \in [Shard -> User \cup {None}]
    BY <1>2, <1>6 DEF TypeOK
  <2>2. PICK clear : clear = [kind |-> "clear"]
    OBVIOUS
  <2>3. clear \in Request /\ clear.kind = "clear"
    BY <2>2, NewRequests
  <2>4. /\ requests' \in Seq(Request) /\ Len(requests) \in Nat
        /\ DOMAIN requests' = DOMAIN requests \cup {Len(requests) + 1}
        /\ requests'[Len(requests) + 1] = clear /\ \A i \in DOMAIN requests : requests'[i] = requests[i]
    BY <1>2, <1>6, <2>2, <2>3, AppendFacts
  <2>5. /\ \A l \in listeners' : l[1] \in former'
        /\ \A d \in Shard : session'[d] \in former' \cup {None}
        /\ UnderWay \subseteq former'
    BY <1>6
  <2>6. TypeOK'
    <3>1. former' \subseteq User
      <4>1. UnderWay \subseteq User /\ \A l \in listeners' : l[1] \in User
        BY <1>2, <2>1, UnderWayFacts, TypeFacts
      <4>2. {session'[d] : d \in Shard} \ {None} \subseteq User
        BY <2>1
      <4> QED BY <1>6, <4>1, <4>2
    <3>2. saved' \in [Session -> User \cup {None}] /\ listeners' \subseteq User \X Shard
      BY <1>2, <1>6, <2>1 DEF Nobody, TypeOK
    <3> QED BY <1>1, <1>2, <2>1, <2>4, <3>1, <3>2 DEF TypeOK
  <2>7. former' \subseteq Known'
    BY DEF Known
  <2>8. KnownInv'
    <3>1. /\ \A p \in profiles' : p.token \in Known'
          /\ \A f \in flows' : f.token \in Known'
          /\ \A l \in listeners' : l[1] \in Known'
      BY <1>1, <1>2, <2>5, <2>7, UnderWayFacts
    <3>2. \A d \in Shard : session'[d] \in Known' \cup {None}
      BY <2>5, <2>7
    <3>3. \A i \in DOMAIN requests' : IsPut(requests'[i]) => requests'[i].user \in Known'
      BY <1>2, <2>3, <2>4, <2>5, <2>7, UnderWayFacts DEF IsPut
    <3>4. \A s \in Session : saved'[s] \in Known' \cup {None}
      BY <1>6 DEF Nobody
    <3> QED BY <3>1, <3>2, <3>3, <3>4 DEF KnownInv
  <2>9. ReplayInv'
    <3>1. ASSUME NEW i \in DOMAIN requests', requests'[i].kind = "replay" PROVE ReadsKnown'
      <4>1. i \in DOMAIN requests /\ requests[i].kind = "replay"
        BY <2>3, <2>4, <3>1
      <4>2. \A u \in User, s \in Session : reads'[<<u, s>>] # "none" => u \in Known'
        BY <1>1, <1>2, <2>5, <2>7, <4>1, UnderWayFacts
      <4> QED BY <4>2 DEF ReadsKnown
    <3>2. \E j \in DOMAIN requests' : Clears(requests'[j])
      BY <2>3, <2>4 DEF Clears
    <3> QED BY <3>1, <3>2 DEF ReplayInv
  <2>10. FlowInv'
    <3>1. \A f \in flows : f.token \in former'
      BY <1>2, <2>5, UnderWayFacts
    <3> QED BY <1>1, <3>1 DEF FlowInv
  <2>11. DataInv'
    <3>1. (\A u \in User, s \in Session : reads[<<u, s>>] = "in" => data[u][s] # "none")'
      BY <1>1 DEF DataInv, IInv
    <3>2. \A i \in DOMAIN requests' : IsPut(requests'[i]) =>
            requests'[i].value # "none" /\ data'[requests'[i].user][requests'[i].key] # "none"
      BY <1>1, <2>3, <2>4 DEF DataInv, IInv, IsPut
    <3>3. (\A s \in Session : saved[s] # None => data[saved[s]][s] # "none")'
      BY <1>6 DEF Nobody
    <3>4. (\A u \in User, d \in Shard, s \in Session :
             seen[<<u, d, s>>] # "none" => d = ShardOf[u] /\ data[u][s] \in {"in", "out"})'
      BY <1>1 DEF DataInv, IInv
    <3> QED BY <3>1, <3>2, <3>3, <3>4 DEF DataInv
  <2>12. ListenerInv'
    BY <2>5 DEF ListenerInv
  <2> QED BY <1>3, <1>4, <2>6, <2>8, <2>9, <2>10, <2>11, <2>12 DEF IInv
<1> QED BY <1>5, <1>6 DEF SignOut

-----------------------------------------------------------------------------
(* Changes on other devices and surveys.                                   *)

LEMMA ChangeDataStep ==
    ASSUME IInv, NEW u \in User, NEW s \in Session, ChangeData(u, s) PROVE IInv'
<1>1. /\ UNCHANGED <<google, person, profiles, ref, session, flows, pending, schedule, loads, requests,
                     reads, listeners, seen, saved, former, rejected>>
      /\ data' = [data EXCEPT ![u][s] = IF @ = "in" THEN "out" ELSE "in"]
  BY DEF ChangeData, account, page, store, watch
<1>2. TypeOK
  BY DEF IInv
<1>3. /\ used' \in [{"signins", "surveys", "changes", "faults"} -> Nat]
      /\ used'["faults"] = used["faults"]
  BY <1>2, UseFacts, AuthAssumption DEF ChangeData
<1>4. /\ data' \in [User -> [Session -> Value \cup {"gone"}]]
      /\ \A v \in User, t \in Session :
           data[v][t] \in {"in", "out"} => data'[v][t] \in {"in", "out"}
      /\ \A v \in User, t \in Session : data[v][t] # "none" => data'[v][t] # "none"
  BY <1>1, <1>2 DEF TypeOK, Value
<1>5. TypeOK'
  BY <1>1, <1>2, <1>3, <1>4 DEF TypeOK
<1>6. Known' = Known
  BY <1>1 DEF Known
<1>7. FormInv' /\ FlowInv'
  BY <1>1 DEF FormInv, FlowInv, IInv
<1>8. KnownInv'
  <2>1. /\ \A p \in profiles' : p.token \in Known
        /\ \A f \in flows' : f.token \in Known
        /\ \A l \in listeners' : l[1] \in Known
    BY <1>1 DEF KnownInv, IInv
  <2>2. /\ \A d \in Shard : session'[d] \in Known \cup {None}
        /\ \A i \in DOMAIN requests' : IsPut(requests'[i]) => requests'[i].user \in Known
        /\ \A t \in Session : saved'[t] \in Known \cup {None}
    BY <1>1 DEF KnownInv, IInv
  <2> QED BY <1>6, <2>1, <2>2 DEF KnownInv
<1>9. ReplayInv'
  <2>1. ReadsKnown' <=> ReadsKnown
    BY <1>1, <1>6 DEF ReadsKnown
  <2> QED BY <1>1, <2>1 DEF ReplayInv, IInv
<1>10. DataInv'
  <2>1. (\A v \in User, t \in Session : reads[<<v, t>>] = "in" => data[v][t] # "none")'
    BY <1>1, <1>4 DEF DataInv, IInv
  <2>2. \A i \in DOMAIN requests' : IsPut(requests'[i]) =>
          requests'[i].value # "none" /\ data'[requests'[i].user][requests'[i].key] # "none"
    BY <1>1, <1>2, <1>4, TypeFacts DEF DataInv, IInv
  <2>3. (\A t \in Session : saved[t] # None => data[saved[t]][t] # "none")'
    BY <1>1, <1>2, <1>4, TypeFacts DEF DataInv, IInv
  <2>4. (\A v \in User, d \in Shard, t \in Session :
           seen[<<v, d, t>>] # "none" => d = ShardOf[v] /\ data[v][t] \in {"in", "out"})'
    BY <1>1, <1>4 DEF DataInv, IInv
  <2> QED BY <2>1, <2>2, <2>3, <2>4 DEF DataInv
<1>11. ListenerInv'
  <2>1. \A v, t, value : Passed(v, t, value)' <=> Passed(v, t, value)
    BY <1>1 DEF Passed, Puts
  <2> QED BY <1>1, <2>1 DEF ListenerInv, IInv
<1>12. ProgressInv' /\ OnlyFaultsReject'
  BY <1>1, <1>3 DEF ProgressInv, Arrived, OnlyFaultsReject, IInv
<1> QED BY <1>5, <1>7, <1>8, <1>9, <1>10, <1>11, <1>12 DEF IInv

LEMMA SaveSurveyStep == ASSUME IInv, SaveSurvey PROVE IInv'
<1>1. UNCHANGED <<google, person, profiles, ref, session, flows, schedule, loads, requests,
                  reads, listeners, seen, saved, data, former, rejected>>
  BY DEF SaveSurvey, account, page, store, watch
<1>2. TypeOK /\ pending' \in Nat
  BY DEF SaveSurvey, IInv, TypeOK
<1>3. /\ used' \in [{"signins", "surveys", "changes", "faults"} -> Nat]
      /\ used'["faults"] = used["faults"]
  BY <1>2, UseFacts, AuthAssumption DEF SaveSurvey
<1>4. TypeOK'
  BY <1>1, <1>2, <1>3 DEF TypeOK
<1>5. FlowInv'
  BY <1>1 DEF FlowInv, IInv
<1>6. ProgressInv' /\ OnlyFaultsReject'
  BY <1>1, <1>3 DEF ProgressInv, Arrived, OnlyFaultsReject, IInv
<1>7. /\ \A f \in flows' : f.token \in Known /\ (f.stage # "offset" => f.at \in Shard)
      /\ person = None => flows' = {} /\ ref' = None
  BY <1>1 DEF IInv, KnownInv, FormInv
<1>8. /\ \A d \in Shard : session'[d] \in Known \cup {None}
      /\ former = {} => \A d \in Shard : /\ session'[d] # None => d = ShardOf[google]
                                         /\ session[d] # None => session'[d] = session[d]
  BY <1>1 DEF IInv, KnownInv, ListenerInv
<1> QED BY <1>1, <1>4, <1>5, <1>6, <1>7, <1>8, FlowStep

-----------------------------------------------------------------------------
(* The listeners.                                                          *)

LEMMA NotifyStep ==
    ASSUME IInv, NEW u \in User, NEW s \in Session, NEW d \in Shard, Notify(u, d, s) PROVE IInv'
<1>1. /\ UNCHANGED <<google, person, profiles, ref, session, flows, pending, schedule, loads, reads,
                     listeners, saved, data, used, former, rejected>>
      /\ seen' = [seen EXCEPT ![<<u, d, s>>] = Current(u, d, s)]
      /\ requests' = Append(requests, [kind |-> "put", user |-> u, key |-> s,
                                       value |-> Current(u, d, s)])
      /\ <<u, d>> \in listeners /\ seen[<<u, d, s>>] # Current(u, d, s)
  BY DEF Notify, Due, account, page
<1>2. TypeOK /\ u \in Known /\ requests \in Seq(Request)
  BY <1>1 DEF IInv, TypeOK, KnownInv
<1>3. /\ d = ShardOf[u] /\ Current(u, d, s) = data[u][s]
      /\ data[u][s] # "none" /\ data[u][s] \in Value /\ data[u][s] \in {"in", "out"}
  <2>1. /\ seen[<<u, d, s>>] # "none" => d = ShardOf[u] /\ data[u][s] \in {"in", "out"}
        /\ data[u][s] \in {"none", "in", "out", "gone"}
    <3>1. seen[<<u, d, s>>] # "none" => d = ShardOf[u] /\ data[u][s] \in {"in", "out"}
      BY DEF IInv, DataInv
    <3>2. data[u][s] \in {"none", "in", "out", "gone"}
      BY <1>2, TypeFacts DEF Value
    <3> QED BY <3>1, <3>2
  <2>2. CASE d = ShardOf[u] /\ data[u][s] # "gone"
    <3>1. Current(u, d, s) = data[u][s]
      BY <2>2 DEF Current
    <3> QED BY <1>1, <2>1, <2>2, <3>1 DEF Value
  <2>3. CASE ~(d = ShardOf[u] /\ data[u][s] # "gone")
    <3>1. Current(u, d, s) = "none"
      BY <2>3 DEF Current
    <3> QED BY <1>1, <2>1, <2>3, <3>1
  <2> QED BY <2>2, <2>3
<1>4. PICK r : r = [kind |-> "put", user |-> u, key |-> s, value |-> data[u][s]]
  OBVIOUS
<1>5. r \in Request /\ IsPut(r) /\ r.user = u /\ r.key = s /\ r.value = data[u][s]
  BY <1>3, <1>4, NewRequests DEF IsPut
<1>6. /\ requests' \in Seq(Request) /\ Len(requests) \in Nat /\ DOMAIN requests = 1..Len(requests)
      /\ DOMAIN requests' = DOMAIN requests \cup {Len(requests) + 1}
      /\ Len(requests) + 1 \notin DOMAIN requests
      /\ requests'[Len(requests) + 1] = r /\ \A i \in DOMAIN requests : requests'[i] = requests[i]
  <2>1. requests' = Append(requests, r)
    BY <1>1, <1>3, <1>4
  <2> QED BY <1>2, <1>5, <2>1, AppendFacts
<1>7. /\ seen' \in [User \X Shard \X Session -> Value]
      /\ seen'[<<u, d, s>>] = data[u][s]
      /\ \A v \in User, e \in Shard, t \in Session :
           <<v, e, t>> # <<u, d, s>> => seen'[<<v, e, t>>] = seen[<<v, e, t>>]
  BY <1>1, <1>2, <1>3 DEF TypeOK
<1>8. TypeOK'
  BY <1>1, <1>2, <1>6, <1>7 DEF TypeOK
<1>9. Known' = Known
  BY <1>1 DEF Known
<1>10. FormInv' /\ FlowInv'
  BY <1>1 DEF FormInv, FlowInv, IInv
<1>11. KnownInv'
  <2>1. /\ \A p \in profiles' : p.token \in Known
        /\ \A f \in flows' : f.token \in Known
        /\ \A l \in listeners' : l[1] \in Known
    BY <1>1 DEF KnownInv, IInv
  <2>2. /\ \A e \in Shard : session'[e] \in Known \cup {None}
        /\ \A t \in Session : saved'[t] \in Known \cup {None}
    BY <1>1 DEF KnownInv, IInv
  <2>3. \A i \in DOMAIN requests' : IsPut(requests'[i]) => requests'[i].user \in Known
    BY <1>2, <1>5, <1>6 DEF KnownInv, IInv
  <2> QED BY <1>9, <2>1, <2>2, <2>3 DEF KnownInv
<1>12. ReplayInv'
  <2>1. ReadsKnown' <=> ReadsKnown
    BY <1>1, <1>9 DEF ReadsKnown
  <2>2. ASSUME NEW i \in DOMAIN requests', requests'[i].kind = "replay",
               \A j \in 1..(i - 1) : ~Clears(requests'[j])
        PROVE  ReadsKnown
    <3>1. i \in DOMAIN requests /\ requests[i].kind = "replay"
      BY <1>5, <1>6, <2>2 DEF IsPut
    <3>2. \A j \in 1..(i - 1) : j \in DOMAIN requests
      BY <1>6, <3>1
    <3>3. \A j \in 1..(i - 1) : ~Clears(requests[j])
      BY <1>6, <2>2, <3>2
    <3> QED BY <3>1, <3>3 DEF ReplayInv, IInv
  <2>3. ASSUME "cached" \in Range(loads'), \A j \in DOMAIN requests' : ~Clears(requests'[j])
        PROVE  ReadsKnown
    <3>1. "cached" \in Range(loads) /\ \A j \in DOMAIN requests : ~Clears(requests[j])
      BY <1>1, <1>6, <2>3
    <3> QED BY <3>1 DEF ReplayInv, IInv
  <2> QED BY <2>1, <2>2, <2>3 DEF ReplayInv
<1>13. DataInv'
  <2>1. (\A v \in User, t \in Session : reads[<<v, t>>] = "in" => data[v][t] # "none")'
    BY <1>1 DEF DataInv, IInv
  <2>2. \A i \in DOMAIN requests' : IsPut(requests'[i]) =>
          requests'[i].value # "none" /\ data'[requests'[i].user][requests'[i].key] # "none"
    BY <1>1, <1>3, <1>5, <1>6 DEF DataInv, IInv
  <2>3. (\A t \in Session : saved[t] # None => data[saved[t]][t] # "none")'
    BY <1>1 DEF DataInv, IInv
  <2>4. \A v \in User, e \in Shard, t \in Session :
          seen'[<<v, e, t>>] # "none" => e = ShardOf[v] /\ data'[v][t] \in {"in", "out"}
    BY <1>1, <1>3, <1>7 DEF DataInv, IInv
  <2> QED BY <2>1, <2>2, <2>3, <2>4 DEF DataInv
<1>14. ListenerInv'
  <2> SUFFICES ASSUME former = {}
               PROVE  /\ \A e \in Shard : session[e] # None => e = ShardOf[google]
                      /\ \A l \in listeners : session[l[2]] = l[1]
                      /\ \A l \in listeners, t \in Session :
                           seen'[<<l[1], l[2], t>>] # "none" =>
                              Passed(l[1], t, seen[<<l[1], l[2], t>>])'
    BY <1>1 DEF ListenerInv
  <2>1. ASSUME NEW l \in listeners, NEW t \in Session, seen'[<<l[1], l[2], t>>] # "none"
        PROVE  Passed(l[1], t, seen[<<l[1], l[2], t>>])'
    <3>1. l[1] \in User /\ l[2] \in Shard
      BY <1>2, TypeFacts
    <3>2. CASE l[1] = u /\ t = s
      <4>1. l[2] = d
        BY <1>3, <1>7, <2>1, <3>1, <3>2 DEF DataInv, IInv
      <4>2. Len(requests) + 1 \in Puts(u, s)'
        BY <1>5, <1>6 DEF Puts
      <4>3. \A j \in Puts(u, s)' : j <= Len(requests) + 1
        BY <1>6 DEF Puts
      <4>4. requests'[Len(requests) + 1].value = seen'[<<l[1], l[2], t>>]
        BY <1>5, <1>6, <1>7, <3>2, <4>1
      <4> HIDE DEF Puts
      <4> QED BY <3>2, <4>2, <4>3, <4>4 DEF Passed
    <3>3. CASE ~(l[1] = u /\ t = s)
      <4>1. seen'[<<l[1], l[2], t>>] = seen[<<l[1], l[2], t>>]
        BY <1>7, <3>1, <3>3
      <4>2. Puts(l[1], t)' = Puts(l[1], t) /\ \A i \in Puts(l[1], t) : requests'[i] = requests[i]
        <5>1. \A i : i \in Puts(l[1], t)' <=> i \in Puts(l[1], t)
          BY <1>5, <1>6, <3>3 DEF Puts
        <5>2. \A i \in Puts(l[1], t) : requests'[i] = requests[i]
          BY <1>6 DEF Puts
        <5> QED BY <5>1, <5>2 DEF Puts
      <4>3. Passed(l[1], t, seen[<<l[1], l[2], t>>])
        BY <2>1, <4>1 DEF ListenerInv, IInv
      <4> HIDE DEF Puts
      <4> QED BY <1>1, <4>1, <4>2, <4>3 DEF Passed
    <3> QED BY <3>2, <3>3
  <2> QED BY <2>1 DEF ListenerInv, IInv
<1>15. ProgressInv'
  <2>1. Arrived => Arrived'
    BY <1>1, <1>6 DEF Arrived
  <2> QED BY <1>1, <2>1 DEF ProgressInv, IInv
<1>16. OnlyFaultsReject'
  BY <1>1 DEF OnlyFaultsReject, IInv
<1> QED BY <1>8, <1>10, <1>11, <1>12, <1>13, <1>14, <1>15, <1>16 DEF IInv

-----------------------------------------------------------------------------
(* The READS store.                                                        *)

\* When the first request has been served, what the others will show is shown.
LEMMA PassedStep ==
    ASSUME requests \in Seq(Request), requests # <<>>, requests' = Tail(requests),
           NEW u, NEW s, NEW value, Passed(u, s, value),
           Puts(u, s) = {} /\ (saved[s] # None <=> value = "in") /\ reads[<<u, s>>] \in {"none", value}
             => (saved'[s] # None <=> value = "in") /\ reads'[<<u, s>>] \in {"none", value},
           1 \in Puts(u, s) /\ requests[1].value = value
             => (saved'[s] # None <=> value = "in") /\ reads'[<<u, s>>] \in {"none", value}
    PROVE  Passed(u, s, value)'
<1>1. /\ \A i \in DOMAIN requests' : i \in Nat /\ i >= 1 /\ i + 1 \in DOMAIN requests
                                     /\ requests'[i] = requests[i + 1]
      /\ \A i \in DOMAIN requests : i \in Nat /\ (i = 1 \/ (i > 1 /\ i - 1 \in DOMAIN requests'
                                                           /\ requests'[i - 1] = requests[i]))
  BY TailFacts
<1>2. \A i \in Puts(u, s)' : i \in Nat /\ i >= 1 /\ i + 1 \in Puts(u, s) /\ requests'[i] = requests[i + 1]
  BY <1>1 DEF Puts
<1>3. \A i \in Puts(u, s) : i \in Nat /\ (i = 1 \/ (i > 1 /\ i - 1 \in Puts(u, s)'
                                                   /\ requests'[i - 1] = requests[i]))
  BY <1>1 DEF Puts
<1>4. CASE Puts(u, s) = {} /\ (saved[s] # None <=> value = "in") /\ reads[<<u, s>>] \in {"none", value}
  <2>1. Puts(u, s)' = {}
    BY <1>2, <1>4
  <2> QED BY <1>4, <2>1 DEF Passed
<1>5. CASE \E i \in Puts(u, s) : requests[i].value = value /\ \A j \in Puts(u, s) : j <= i
  <2>1. PICK i \in Puts(u, s) : requests[i].value = value /\ \A j \in Puts(u, s) : j <= i
    BY <1>5
  <2>2. CASE i = 1
    <3>1. Puts(u, s)' = {}
      BY <1>2, <2>1, <2>2
    <3> QED BY <2>1, <2>2, <3>1 DEF Passed
  <2>3. CASE i # 1
    <3>1. i \in Nat /\ i - 1 \in Puts(u, s)' /\ requests'[i - 1].value = value
      BY <1>3, <2>1, <2>3
    <3>2. \A j \in Puts(u, s)' : j <= i - 1
      BY <1>2, <2>1, <3>1
    <3> QED BY <3>1, <3>2 DEF Passed
  <2> QED BY <2>2, <2>3
<1> QED BY <1>4, <1>5 DEF Passed

\* What a served request must see to.
LEMMA ServedStep ==
    ASSUME IInv, TypeOK', requests # <<>>, requests' = Tail(requests),
           UNCHANGED <<google, person, profiles, ref, session, flows, schedule, loads, data, used,
                       former, rejected>>,
           NEW r \in Request, r = requests[1],
           r.kind = "listen" /\ Arrived /\ google # None => <<google, ref>> \in listeners',
           Clears(r) => ReadsKnown', ~Clears(r) /\ ReadsKnown => ReadsKnown',
           \A u \in User, s \in Session : reads'[<<u, s>>] = "in" => data[u][s] # "none",
           \A s \in Session : saved'[s] \in Known \cup {None},
           \A s \in Session : saved'[s] # None => data[saved'[s]][s] # "none",
           \A u \in User, d \in Shard, s \in Session :
               seen'[<<u, d, s>>] # "none" => seen'[<<u, d, s>>] = seen[<<u, d, s>>],
           listeners \subseteq listeners',
           \A l \in listeners' \ listeners :
               /\ l[1] \in Known /\ l[2] \in Shard /\ l[1] = session[l[2]]
               /\ \A s \in Session : seen'[<<l[1], l[2], s>>] = "none",
           former = {} => \A u \in Known \cap User, s \in Session :
               /\ Puts(u, s) = {} =>
                    /\ \/ saved'[s] = saved[s]
                       \/ (saved'[s] # None <=> reads[<<u, s>>] = "in") /\ reads[<<u, s>>] # "none"
                    /\ reads'[<<u, s>>] \in {"none", reads[<<u, s>>]}
               /\ 1 \in Puts(u, s) =>
                    (saved'[s] # None <=> r.value = "in") /\ reads'[<<u, s>>] = r.value
    PROVE  IInv'
<1>1. Known' = Known /\ TypeOK /\ requests \in Seq(Request)
  BY DEF Known, IInv, TypeOK
<1>2. /\ \A i \in DOMAIN requests' : i \in Nat /\ i >= 1 /\ i + 1 \in DOMAIN requests
                                     /\ requests'[i] = requests[i + 1]
      /\ \A i \in DOMAIN requests : i \in Nat /\ (i = 1 \/ (i > 1 /\ i - 1 \in DOMAIN requests'
                                                           /\ requests'[i - 1] = requests[i]))
  BY <1>1, TailFacts
<1>3. FormInv' /\ FlowInv'
  BY DEF FormInv, FlowInv, IInv
<1>4. KnownInv'
  <2>1. /\ \A p \in profiles' : p.token \in Known
        /\ \A f \in flows' : f.token \in Known
        /\ \A d \in Shard : session'[d] \in Known \cup {None}
    BY DEF KnownInv, IInv
  <2>2. \A l \in listeners' : l[1] \in Known
    BY DEF KnownInv, IInv
  <2>3. \A i \in DOMAIN requests' : IsPut(requests'[i]) => requests'[i].user \in Known
    BY <1>2 DEF KnownInv, IInv
  <2> QED BY <1>1, <2>1, <2>2, <2>3 DEF KnownInv
<1>5. ReplayInv'
  <2>1. ASSUME NEW i \in DOMAIN requests', requests'[i].kind = "replay",
               \A j \in 1..(i - 1) : ~Clears(requests'[j])
        PROVE  ReadsKnown'
    <3>1. i \in Nat /\ i >= 1 /\ i + 1 \in DOMAIN requests /\ requests[i + 1].kind = "replay"
      BY <1>2, <2>1
    <3>2. ASSUME ~Clears(r), NEW j \in 1..((i + 1) - 1) PROVE ~Clears(requests[j])
      <4>1. CASE j = 1
        BY <3>2, <4>1
      <4>2. CASE j # 1
        <5>1. j \in DOMAIN requests
          BY <1>1, <3>1, <3>2
        <5>2. j - 1 \in 1..(i - 1) /\ requests'[j - 1] = requests[j]
          BY <1>2, <3>1, <3>2, <4>2, <5>1
        <5> QED BY <2>1, <5>2
      <4> QED BY <4>1, <4>2
    <3>3. ~Clears(r) => ReadsKnown
      BY <3>1, <3>2 DEF ReplayInv, IInv
    <3> QED BY <3>3
  <2>2. ASSUME "cached" \in Range(loads'), \A j \in DOMAIN requests' : ~Clears(requests'[j])
        PROVE  ReadsKnown'
    <3>1. ~Clears(r) => \A j \in DOMAIN requests : ~Clears(requests[j])
      BY <1>2, <2>2
    <3>2. ~Clears(r) => ReadsKnown
      BY <2>2, <3>1 DEF ReplayInv, IInv
    <3> QED BY <3>2
  <2> QED BY <2>1, <2>2 DEF ReplayInv
<1>6. DataInv'
  <2>1. \A i \in DOMAIN requests' : IsPut(requests'[i]) =>
          requests'[i].value # "none" /\ data'[requests'[i].user][requests'[i].key] # "none"
    BY <1>2 DEF DataInv, IInv
  <2>2. \A u \in User, d \in Shard, s \in Session :
          seen'[<<u, d, s>>] # "none" => d = ShardOf[u] /\ data'[u][s] \in {"in", "out"}
    BY DEF DataInv, IInv
  <2> QED BY <2>1, <2>2 DEF DataInv
<1>7. ListenerInv'
  <2> SUFFICES ASSUME former = {}
               PROVE  /\ \A d \in Shard : session[d] # None => d = ShardOf[google]
                      /\ \A l \in listeners' : session[l[2]] = l[1]
                      /\ \A l \in listeners', s \in Session :
                           seen'[<<l[1], l[2], s>>] # "none" =>
                              Passed(l[1], s, seen[<<l[1], l[2], s>>])'
    BY DEF ListenerInv
  <2>1. ASSUME NEW l \in listeners', NEW s \in Session, seen'[<<l[1], l[2], s>>] # "none"
        PROVE  Passed(l[1], s, seen[<<l[1], l[2], s>>])'
                 /\ seen'[<<l[1], l[2], s>>] = seen[<<l[1], l[2], s>>]
    <3>1. l \in listeners
      BY <2>1
    <3>2. l[1] \in User /\ l[2] \in Shard /\ l[1] \in Known
      BY <1>1, <3>1, TypeFacts DEF KnownInv, IInv
    <3>3. PICK value : value = seen[<<l[1], l[2], s>>]
      OBVIOUS
    <3>4. value = seen'[<<l[1], l[2], s>>] /\ value # "none"
      BY <2>1, <3>2, <3>3
    <3>5. Passed(l[1], s, value)
      BY <3>1, <3>3, <3>4 DEF ListenerInv, IInv
    <3>6. /\ Puts(l[1], s) = {} /\ (saved[s] # None <=> value = "in")
                                /\ reads[<<l[1], s>>] \in {"none", value}
          => (saved'[s] # None <=> value = "in") /\ reads'[<<l[1], s>>] \in {"none", value}
      BY <3>2
    <3>7. 1 \in Puts(l[1], s) /\ requests[1].value = value
          => (saved'[s] # None <=> value = "in") /\ reads'[<<l[1], s>>] \in {"none", value}
      BY <3>2
    <3>8. Passed(l[1], s, value)'
      BY <1>1, <3>5, <3>6, <3>7, PassedStep
    <3> QED BY <3>3, <3>4, <3>8
  <2> QED BY <2>1 DEF ListenerInv, IInv
<1>8. ProgressInv'
  <2>1. Arrived /\ google # None => Arrived'
    <3> SUFFICES ASSUME Arrived, google # None PROVE Arrived'
      OBVIOUS
    <3>1. CASE \E i \in DOMAIN requests : requests[i].kind = "listen"
      <4>1. PICK i \in DOMAIN requests : requests[i].kind = "listen"
        BY <3>1
      <4>2. i = 1 => <<google, ref>> \in listeners'
        BY <4>1
      <4>3. i # 1 => \E j \in DOMAIN requests' : requests'[j].kind = "listen"
        BY <1>2, <4>1
      <4> QED BY <4>2, <4>3 DEF Arrived
    <3> QED BY <3>1 DEF Arrived
  <2> QED BY <2>1 DEF ProgressInv, IInv
<1>9. OnlyFaultsReject'
  BY DEF OnlyFaultsReject, IInv
<1> QED BY <1>3, <1>4, <1>5, <1>6, <1>7, <1>8, <1>9 DEF IInv

LEMMA ShownFacts ==
    ASSUME NEW u \in User, NEW shown \in User \cup {None}, NEW value \in Value
    PROVE  /\ Shown(shown, u, value) \in {shown, u, None}
           /\ Shown(shown, u, value) \notin {shown, None} => value = "in"
           /\ value # "none" => (Shown(shown, u, value) # None <=> value = "in")
BY AuthAssumption DEF Shown, Value

LEMMA ServePut ==
    ASSUME IInv, requests # <<>>, requests' = Tail(requests),
           NEW r \in Request, r = requests[1], r.kind = "put",
           reads' = [reads EXCEPT ![<<r.user, r.key>>] = r.value],
           saved' = [saved EXCEPT ![r.key] = Shown(@, r.user, r.value)],
           UNCHANGED <<google, person, profiles, ref, session, flows, pending, schedule, loads, listeners,
                       seen, data, used, former, rejected>>
    PROVE  IInv'
<1>1. TypeOK /\ requests \in Seq(Request) /\ requests' \in Seq(Request) /\ 1 \in DOMAIN requests
  <2>1. TypeOK /\ requests \in Seq(Request)
    BY DEF IInv, TypeOK
  <2> QED BY <2>1, TailFacts
<1>2. /\ r.user \in User /\ r.key \in Session /\ r.value \in Value /\ r.value # "none"
      /\ r.user \in Known /\ data[r.user][r.key] # "none" /\ IsPut(r) /\ ~Clears(r)
  <2>1. IsPut(r) /\ ~Clears(r)
    BY DEF IsPut, Clears
  <2> QED BY <1>1, <2>1, RequestFacts DEF IInv, KnownInv, DataInv
<1>3. PICK shown : shown = Shown(saved[r.key], r.user, r.value)
  OBVIOUS
<1>4. saved[r.key] \in User \cup {None} /\ saved[r.key] \in Known \cup {None}
      /\ (saved[r.key] # None => data[saved[r.key]][r.key] # "none")
  BY <1>1, <1>2 DEF TypeOK, IInv, KnownInv, DataInv
<1>5. /\ shown \in {saved[r.key], r.user, None} /\ (shown # None <=> r.value = "in")
      /\ shown \in User \cup {None}
  BY <1>2, <1>3, <1>4, AuthAssumption DEF Shown, Value
<1>6. saved' = [saved EXCEPT ![r.key] = shown]
  BY <1>3
<1>7. /\ saved' \in [Session -> User \cup {None}] /\ saved'[r.key] = shown
      /\ \A s \in Session : s # r.key => saved'[s] = saved[s]
  BY <1>1, <1>2, <1>5, <1>6 DEF TypeOK
<1>8. /\ reads' \in [User \X Session -> Value] /\ reads'[<<r.user, r.key>>] = r.value
      /\ \A u \in User, s \in Session :
           <<u, s>> # <<r.user, r.key>> => reads'[<<u, s>>] = reads[<<u, s>>]
  BY <1>1, <1>2 DEF TypeOK
<1>9. TypeOK'
  BY <1>1, <1>7, <1>8 DEF TypeOK
<1>10. ReadsKnown => ReadsKnown'
  BY <1>2, <1>8 DEF ReadsKnown, Known
<1>11. \A u \in User, s \in Session : reads'[<<u, s>>] = "in" => data[u][s] # "none"
  BY <1>2, <1>8 DEF IInv, DataInv
<1>12. \A s \in Session : saved'[s] \in Known \cup {None} /\ (saved'[s] # None => data[saved'[s]][s] # "none")
  BY <1>2, <1>4, <1>5, <1>7 DEF IInv, KnownInv, DataInv
<1>13. ASSUME former = {}, NEW u \in Known \cap User, NEW s \in Session
       PROVE  /\ Puts(u, s) = {} => saved'[s] = saved[s] /\ reads'[<<u, s>>] = reads[<<u, s>>]
              /\ 1 \in Puts(u, s) => (saved'[s] # None <=> r.value = "in") /\ reads'[<<u, s>>] = r.value
  <2>1. u = r.user
    BY <1>2, <1>13 DEF Known
  <2>2. 1 \in Puts(u, s) <=> s = r.key
    BY <1>1, <1>2, <2>1 DEF Puts
  <2> QED BY <1>5, <1>7, <1>8, <2>1, <2>2
<1> QED BY <1>2, <1>9, <1>10, <1>11, <1>12, <1>13, ServedStep

LEMMA ServeReplay ==
    ASSUME IInv, requests # <<>>, requests' = Tail(requests),
           NEW r \in Request, r = requests[1], r.kind = "replay",
           saved' = [s \in Session |->
              LET held == {u \in User : reads[<<u, s>>] # "none"}
              IN  IF held = {} THEN saved[s]
                  ELSE LET u == CHOOSE u \in held : TRUE
                       IN  Shown(saved[s], u, reads[<<u, s>>])],
           UNCHANGED <<google, person, profiles, ref, session, flows, pending, schedule, loads, reads,
                       listeners, seen, data, used, former, rejected>>
    PROVE  IInv'
<1>1. TypeOK /\ requests \in Seq(Request) /\ requests' \in Seq(Request) /\ 1 \in DOMAIN requests
  <2>1. TypeOK /\ requests \in Seq(Request)
    BY DEF IInv, TypeOK
  <2> QED BY <2>1, TailFacts
<1>2. ReadsKnown
  <2>1. \A j \in 1..(1 - 1) : ~Clears(requests[j])
    OBVIOUS
  <2> QED BY <1>1, <2>1 DEF IInv, ReplayInv
<1>3. ASSUME NEW s \in Session
      PROVE  \/ saved'[s] = saved[s] /\ \A u \in User : reads[<<u, s>>] = "none"
             \/ \E u \in User : reads[<<u, s>>] # "none" /\ saved'[s] = Shown(saved[s], u, reads[<<u, s>>])
  <2>1. PICK held : held = {u \in User : reads[<<u, s>>] # "none"}
    OBVIOUS
  <2>2. saved'[s] = IF held = {} THEN saved[s]
                    ELSE Shown(saved[s], CHOOSE u \in held : TRUE, reads[<<CHOOSE u \in held : TRUE, s>>])
    BY <2>1
  <2>3. CASE held = {}
    BY <2>1, <2>2, <2>3
  <2>4. CASE held # {}
    <3>1. PICK u : u = CHOOSE w \in held : TRUE
      OBVIOUS
    <3>2. u \in held
      BY <2>4, <3>1
    <3> QED BY <2>1, <2>2, <2>4, <3>1, <3>2
  <2> QED BY <2>3, <2>4
<1>4. ASSUME NEW s \in Session
      PROVE  /\ saved'[s] \in User \cup {None} /\ saved'[s] \in Known \cup {None}
             /\ saved'[s] # None => data[saved'[s]][s] # "none"
  <2>1. /\ saved[s] \in User \cup {None} /\ saved[s] \in Known \cup {None}
        /\ saved[s] # None => data[saved[s]][s] # "none"
    BY <1>1 DEF TypeOK, IInv, KnownInv, DataInv
  <2>2. ASSUME NEW u \in User, reads[<<u, s>>] # "none", saved'[s] = Shown(saved[s], u, reads[<<u, s>>])
        PROVE  /\ saved'[s] \in User \cup {None} /\ saved'[s] \in Known \cup {None}
               /\ saved'[s] # None => data[saved'[s]][s] # "none"
    <3>1. u \in Known /\ reads[<<u, s>>] \in Value
      BY <1>1, <1>2, <2>2, TypeFacts DEF ReadsKnown
    <3>2. /\ saved'[s] \in {saved[s], u, None}
          /\ saved'[s] \notin {saved[s], None} => reads[<<u, s>>] = "in"
      BY <2>1, <2>2, <3>1, ShownFacts
    <3>3. reads[<<u, s>>] = "in" => data[u][s] # "none"
      BY DEF IInv, DataInv
    <3> QED BY <2>1, <3>1, <3>2, <3>3
  <2> QED BY <1>3, <2>1, <2>2
<1>5. TypeOK'
  <2>1. saved' \in [Session -> User \cup {None}]
    BY <1>4
  <2> QED BY <1>1, <2>1 DEF TypeOK
<1>6. ~Clears(r) /\ (ReadsKnown => ReadsKnown') /\ ~IsPut(r)
  BY DEF Clears, ReadsKnown, Known, IsPut
<1>7. \A u \in User, s \in Session : reads'[<<u, s>>] = "in" => data[u][s] # "none"
  BY DEF IInv, DataInv
<1>8. ASSUME former = {}, NEW u \in Known \cap User, NEW s \in Session
      PROVE  \/ saved'[s] = saved[s]
             \/ (saved'[s] # None <=> reads[<<u, s>>] = "in") /\ reads[<<u, s>>] # "none"
  <2>1. ASSUME NEW v \in User, reads[<<v, s>>] # "none", saved'[s] = Shown(saved[s], v, reads[<<v, s>>])
        PROVE  (saved'[s] # None <=> reads[<<u, s>>] = "in") /\ reads[<<u, s>>] # "none"
    <3>1. v = u
      BY <1>2, <1>8, <2>1 DEF ReadsKnown, Known
    <3>2. saved[s] \in User \cup {None} /\ reads[<<u, s>>] \in Value
      BY <1>1, TypeFacts
    <3> QED BY <2>1, <3>1, <3>2, ShownFacts
  <2> QED BY <1>3, <2>1
<1>9. \A u, s : 1 \notin Puts(u, s)
  BY <1>6 DEF Puts
<1> QED BY <1>4, <1>5, <1>6, <1>7, <1>8, <1>9, ServedStep

LEMMA ServeClear ==
    ASSUME IInv, requests # <<>>, requests' = Tail(requests),
           NEW r \in Request, r = requests[1], r.kind = "clear", reads' = NoReads,
           UNCHANGED <<google, person, profiles, ref, session, flows, pending, schedule, loads, listeners,
                       seen, saved, data, used, former, rejected>>
    PROVE  IInv'
<1>1. TypeOK /\ requests' \in Seq(Request)
  <2>1. TypeOK /\ requests \in Seq(Request)
    BY DEF IInv, TypeOK
  <2> QED BY <2>1, TailFacts
<1>2. reads' \in [User \X Session -> Value] /\ \A u \in User, s \in Session : reads'[<<u, s>>] = "none"
  BY DEF NoReads, Value
<1>3. TypeOK'
  BY <1>1, <1>2 DEF TypeOK
<1>4. /\ ReadsKnown' /\ r.kind # "listen" /\ Clears(r) /\ \A u, s : 1 \notin Puts(u, s)
      /\ \A u \in User, s \in Session : reads'[<<u, s>>] = "in" => data[u][s] # "none"
  BY <1>2 DEF ReadsKnown, Clears, Puts, IsPut
<1>5. \A s \in Session : saved'[s] \in Known \cup {None} /\ (saved'[s] # None => data[saved'[s]][s] # "none")
  BY DEF IInv, KnownInv, DataInv
<1> QED BY <1>2, <1>3, <1>4, <1>5, ServedStep

LEMMA ServeListen ==
    ASSUME IInv, requests # <<>>, requests' = Tail(requests),
           NEW r \in Request, r = requests[1], r.kind = "listen", reads' = NoReads,
           IF Authed(ref, session)
           THEN /\ listeners' = listeners \cup {<<session[ref], ref>>}
                /\ seen' = [x \in DOMAIN seen |->
                              IF x[1] = session[ref] /\ x[2] = ref THEN "none" ELSE seen[x]]
           ELSE UNCHANGED watch,
           UNCHANGED <<google, person, profiles, ref, session, flows, pending, schedule, loads, saved,
                       data, used, former, rejected>>
    PROVE  IInv'
<1>1. TypeOK /\ requests' \in Seq(Request)
  <2>1. TypeOK /\ requests \in Seq(Request)
    BY DEF IInv, TypeOK
  <2> QED BY <2>1, TailFacts
<1>2. reads' \in [User \X Session -> Value] /\ \A u \in User, s \in Session : reads'[<<u, s>>] = "none"
  BY DEF NoReads, Value
<1>3. /\ ReadsKnown' /\ Clears(r) /\ \A u, s : 1 \notin Puts(u, s)
      /\ \A u \in User, s \in Session : reads'[<<u, s>>] = "in" => data[u][s] # "none"
  BY <1>2 DEF ReadsKnown, Clears, Puts, IsPut
<1>4. \A s \in Session : saved'[s] \in Known \cup {None} /\ (saved'[s] # None => data[saved'[s]][s] # "none")
  BY DEF IInv, KnownInv, DataInv
<1>5. Arrived /\ google # None => Authed(ref, session)
  BY <1>1, AuthAssumption DEF Arrived, Authed, TypeOK
<1>6. CASE Authed(ref, session)
  <2>1. ref \in Shard /\ session[ref] \in User /\ session[ref] \in Known
    BY <1>1, <1>6 DEF Authed, TypeOK, IInv, KnownInv
  <2>2. PICK l : l = <<session[ref], ref>>
    OBVIOUS
  <2>3. /\ l[1] = session[ref] /\ l[2] = ref /\ listeners' = listeners \cup {l}
        /\ seen' = [x \in DOMAIN seen |->
                      IF x[1] = session[ref] /\ x[2] = ref THEN "none" ELSE seen[x]]
    BY <1>6, <2>2
  <2>4. /\ seen' \in [User \X Shard \X Session -> Value]
        /\ \A u \in User, d \in Shard, s \in Session :
             seen'[<<u, d, s>>] = IF u = session[ref] /\ d = ref THEN "none" ELSE seen[<<u, d, s>>]
    <3>1. seen \in [User \X Shard \X Session -> Value] /\ DOMAIN seen = User \X Shard \X Session
      BY <1>1 DEF TypeOK
    <3> QED BY <2>3, <3>1 DEF Value
  <2>5. TypeOK'
    BY <1>1, <1>2, <2>1, <2>2, <2>3, <2>4 DEF TypeOK
  <2>6. \A u \in User, d \in Shard, s \in Session :
          seen'[<<u, d, s>>] # "none" => seen'[<<u, d, s>>] = seen[<<u, d, s>>]
    BY <2>4
  <2>7. \A k \in listeners' \ listeners :
          /\ k[1] \in Known /\ k[2] \in Shard /\ k[1] = session[k[2]]
          /\ \A s \in Session : seen'[<<k[1], k[2], s>>] = "none"
    BY <2>1, <2>3, <2>4
  <2>8. listeners \subseteq listeners' /\ (Arrived => <<google, ref>> \in listeners')
    BY <2>2, <2>3 DEF Arrived
  <2> QED BY <1>2, <1>3, <1>4, <2>5, <2>6, <2>7, <2>8, ServedStep
<1>7. CASE ~Authed(ref, session)
  <2>1. listeners' = listeners /\ seen' = seen
    BY <1>7 DEF watch
  <2>2. TypeOK'
    BY <1>1, <1>2, <2>1 DEF TypeOK
  <2> QED BY <1>2, <1>3, <1>4, <1>5, <1>7, <2>1, <2>2, ServedStep
<1> QED BY <1>6, <1>7

LEMMA ServeStep == ASSUME IInv, Serve PROVE IInv'
<1>1. PICK r : r = Head(requests)
  OBVIOUS
<1>2. /\ UNCHANGED <<google, person, profiles, ref, session, flows, pending, schedule, loads, data, used,
                     former, rejected>>
      /\ requests # <<>> /\ requests' = Tail(requests)
  BY DEF Serve, account, page
<1>3. r \in Request /\ r = requests[1]
  <2>1. requests \in Seq(Request)
    BY DEF IInv, TypeOK
  <2> QED BY <1>1, <1>2, <2>1, TailFacts
<1>4. \/ /\ r.kind = "put"
         /\ reads' = [reads EXCEPT ![<<r.user, r.key>>] = r.value]
         /\ saved' = [saved EXCEPT ![r.key] = Shown(@, r.user, r.value)]
         /\ UNCHANGED watch
      \/ /\ r.kind = "replay"
         /\ saved' = [s \in Session |->
               LET held == {u \in User : reads[<<u, s>>] # "none"}
               IN  IF held = {} THEN saved[s]
                   ELSE LET u == CHOOSE u \in held : TRUE
                        IN  Shown(saved[s], u, reads[<<u, s>>])]
         /\ UNCHANGED <<reads, watch>>
      \/ /\ r.kind = "clear"
         /\ reads' = NoReads
         /\ UNCHANGED <<saved, watch>>
      \/ /\ r.kind = "listen"
         /\ reads' = NoReads
         /\ IF Authed(ref, session)
            THEN /\ listeners' = listeners \cup {<<session[ref], ref>>}
                 /\ seen' = [x \in DOMAIN seen |->
                               IF x[1] = session[ref] /\ x[2] = ref THEN "none" ELSE seen[x]]
            ELSE UNCHANGED watch
         /\ UNCHANGED saved
  BY <1>1 DEF Serve
<1>5. CASE r.kind = "put"
  BY <1>2, <1>3, <1>4, <1>5, ServePut DEF watch
<1>6. CASE r.kind = "replay"
  BY <1>2, <1>3, <1>4, <1>6, ServeReplay DEF watch
<1>7. CASE r.kind = "clear"
  BY <1>2, <1>3, <1>4, <1>7, ServeClear DEF watch
<1>8. CASE r.kind = "listen"
  BY <1>2, <1>3, <1>4, <1>8, ServeListen
<1> QED BY <1>4, <1>5, <1>6, <1>7, <1>8

-----------------------------------------------------------------------------
(* The theorems.                                                           *)

LEMMA Inductive == IInv /\ [Next]_vars => IInv'
<1> SUFFICES ASSUME IInv, [Next]_vars PROVE IInv'
  OBVIOUS
<1>1. CASE LoadAuth
  BY <1>1, LoadAuthStep
<1>2. CASE \E u \in User : SignIn(u)
  BY <1>2, SignInStep
<1>3. CASE SignOut
  BY <1>3, SignOutStep
<1>4. CASE \E p \in profiles : LoadUserInfo(p)
  BY <1>4, LoadUserInfoStep
<1>5. CASE \E f \in flows : SetClockOffset(f) \/ Authorize(f) \/ Bumped(f)
  BY <1>5, SetClockOffsetStep, AuthorizeStep, BumpedStep
<1>6. CASE LoadSchedule
  BY <1>6, LoadScheduleStep
<1>7. CASE Serve
  BY <1>7, ServeStep
<1>8. CASE \E u \in User, s \in Session : ChangeData(u, s)
  BY <1>8, ChangeDataStep
<1>9. CASE \E u \in User, s \in Session, d \in Shard : Notify(u, d, s)
  BY <1>9, NotifyStep
<1>10. CASE SaveSurvey
  BY <1>10, SaveSurveyStep
<1>11. CASE UNCHANGED vars
  <2>1. UNCHANGED <<google, person, profiles, ref, session, flows, pending, schedule, loads, requests,
                    reads, listeners, seen, saved, data, used, former, rejected>>
    BY <1>11 DEF vars, account, page, store, watch
  <2>2. TypeOK' /\ FlowInv' /\ ProgressInv' /\ OnlyFaultsReject'
    BY <2>1 DEF IInv, TypeOK, FlowInv, ProgressInv, Arrived, OnlyFaultsReject
  <2>3. /\ \A f \in flows' : f.token \in Known /\ (f.stage # "offset" => f.at \in Shard)
        /\ person = None => flows' = {} /\ ref' = None
        /\ \A d \in Shard : session'[d] \in Known \cup {None}
        /\ former = {} => \A d \in Shard : /\ session'[d] # None => d = ShardOf[google]
                                           /\ session[d] # None => session'[d] = session[d]
    BY <2>1 DEF IInv, KnownInv, FormInv, ListenerInv
  <2> QED BY <2>1, <2>2, <2>3, FlowStep
<1> QED BY <1>1, <1>2, <1>3, <1>4, <1>5, <1>6, <1>7, <1>8, <1>9, <1>10, <1>11 DEF Next

LEMMA Invariance == Spec => []IInv
BY InitInv, Inductive, PTL DEF Spec

\* Every variable keeps its type, with sign-ins and sign-outs in any order.
THEOREM TypeCorrect == Spec => []TypeOK
<1>1. IInv => TypeOK
  BY DEF IInv
<1> QED BY <1>1, Invariance, PTL

\* What the invariant says of a page at rest that nobody was signed out of in
\* the middle of something: all is shown that the user has, and nothing else.
LEMMA AtRest ==
    ASSUME IInv, Quiet, former = {}, used["faults"] = 0, NEW s \in Session
    PROVE  data[google][s] # "gone" => (saved[s] # None <=> data[google][s] = "in")
<1> SUFFICES ASSUME data[google][s] # "gone" PROVE saved[s] # None <=> data[google][s] = "in"
  OBVIOUS
<1>1. /\ flows = {} /\ profiles = {} /\ requests = <<>> /\ schedule = "loaded"
      /\ google # None /\ person # None /\ TypeOK /\ loads = <<>>
  BY DEF Quiet, IInv, FormInv
<1>2. google \in User /\ data[google][s] \in Value
  BY <1>1, TypeFacts DEF TypeOK
<1>3. DOMAIN requests = {} /\ DOMAIN loads = {}
  BY <1>1
<1>4. ref = ShardOf[google] /\ session[ref] = google /\ <<google, ref>> \in listeners /\ ref \in Shard
  <2>1. Arrived
    BY <1>1 DEF IInv, ProgressInv
  <2>2. "live" \notin Range(loads) /\ ~\E i \in DOMAIN requests : requests[i].kind = "listen"
    BY <1>3 DEF Range
  <2> QED BY <1>2, <2>1, <2>2, AuthAssumption DEF Arrived
<1>5. seen[<<google, ref, s>>] = data[google][s]
  BY <1>2, <1>4 DEF Quiet, Due, Current
<1>6. CASE data[google][s] = "none"
  <2>1. saved[s] \in {google, None} /\ (saved[s] # None => data[saved[s]][s] # "none")
    BY DEF IInv, KnownInv, Known, DataInv
  <2> QED BY <1>6, <2>1
<1>7. CASE data[google][s] # "none"
  <2>1. PICK l \in listeners : l = <<google, ref>>
    BY <1>4
  <2>2. l[1] = google /\ l[2] = ref /\ seen[<<l[1], l[2], s>>] = data[google][s]
    BY <1>5, <2>1
  <2>3. Passed(google, s, data[google][s])
    BY <1>7, <2>2 DEF IInv, ListenerInv
  <2>4. Puts(google, s) = {}
    BY <1>3 DEF Puts
  <2> QED BY <2>3, <2>4 DEF Passed
<1> QED BY <1>6, <1>7

\* OwnSchedule: the page shows nobody's sessions but those of the user who is
\* signed in, and at rest all of them, but for those that were deleted after an
\* earlier page had cached them; for any users and databases.
THEOREM OwnScheduleShown == Spec => []OwnSchedule
<1>1. IInv => \A s \in Session : saved[s] \in former \cup {google, None}
  BY DEF IInv, KnownInv, Known
<1>2. IInv => (Quiet /\ former = {} /\ used["faults"] = 0 =>
                \A s \in Session :
                  data[google][s] # "gone" => (saved[s] # None <=> data[google][s] = "in"))
  BY AtRest
<1>3. IInv => OwnSchedule
  BY <1>1, <1>2 DEF OwnSchedule
<1> QED BY <1>3, Invariance, PTL

\* OnlyFaultsReject: a survey that waited is sent by nobody only when a call of a
\* sign-in has failed, or its user was signed out.
THEOREM WaitersRejected == Spec => []OnlyFaultsReject
<1>1. IInv => OnlyFaultsReject
  BY DEF IInv
<1> QED BY <1>1, Invariance, PTL

=============================================================================
