------------------------- MODULE Navigation_proofs -------------------------
(***************************************************************************)
(* Proofs about Navigation, for any pages, addresses and number of         *)
(* navigations.                                                            *)
(***************************************************************************)
EXTENDS Navigation, SequenceTheorems, TLAPS

-----------------------------------------------------------------------------
(* The inductive invariant.  Between transitions, everything agrees; during *)
(* them, each disagreement is the business of one that is under way.       *)

Exit == \E n \in DOMAIN transitions : transitions[n].phase = "exit"
PageTransition == \E n \in DOMAIN transitions : transitions[n].kind = "page"

\* Until a page transition has selected its page, it may be another one; then the
\* page and the section are those of the state.
StateInv ==
    \/ PageExit
    \/ /\ selected = end.page /\ selected = current.page
       /\ HasSection(current) => subpage = Subpage(current)

\* The addresses show the same page, and the same section if both name one.
Agree(g, h) == g.page = h.page /\ (HasSection(g) /\ HasSection(h) => Subpage(g) = Subpage(h))

\* The address is ahead of the state only while an exit animation plays, or behind it
\* after one that failed.
AddressInv == Exit \/ ~Queryable(current) \/ Agree(location, current)

TabsInv == selectedPage = end.page \/ astray

DoneInv == firstRender = "over" => pageTransitionDone \/ PageTransition \/ failed

FocusInv ==
    /\ isInitialPage => focused = None
    /\ PageTransition \/ failed \/ selected \notin Template \/ focused \in {selected, None}

IInv == TypeOK /\ StateInv /\ AddressInv /\ TabsInv /\ DoneInv /\ FocusInv

-----------------------------------------------------------------------------
(* Facts about addresses and transitions.                                  *)

\* An address that names a section can be queried for; parseUrl returns a hash or nothing.
LEMMA Addresses ==
    ASSUME NEW h \in Href
    PROVE  /\ h.page \in Page
           /\ Subpage(h) \in Hash \cup {None}
           /\ HasSection(h) => Queryable(h)
           /\ h = [page |-> h.page, hash |-> h.hash, detail |-> h.detail]
           /\ h.hash \in Hash \cup {None} /\ h.detail \in Detail \cup {None}
<1>1. /\ h.page \in Page /\ h.hash \in Hash \cup {None} /\ h.detail \in Detail \cup {None}
      /\ h = [page |-> h.page, hash |-> h.hash, detail |-> h.detail]
  BY DEF Href
<1>2. Subpages[h.page] \subseteq Hash /\ Subpages[h.page] \subseteq Selectable
      /\ DefaultSubpage[h.page] \in Hash \cup {None}
  BY <1>1, NavigationAssumption
<1>3. Subpage(h) \in Hash \cup {None} /\ (HasSection(h) => Queryable(h))
  BY <1>1, <1>2 DEF Subpage, HasSection, Queryable
<1> QED BY <1>1, <1>3

\* An address is added after the one that is shown.
LEMMA Pushed ==
    ASSUME entries \in Seq(Href), entry \in DOMAIN entries, NEW h \in Href, Push(h)
    PROVE  entries' \in Seq(Href) /\ entry' \in DOMAIN entries' /\ location' = h
<1> DEFINE kept == SubSeq(entries, 1, entry)
<1>1. entries' = Append(kept, h) /\ entry' = entry + 1 /\ entry \in 1..Len(entries)
  BY DEF Push
<1>2. \A i \in 1..entry : entries[i] \in Href
  BY <1>1
<1>3. kept \in Seq(Href) /\ Len(kept) = entry
  BY <1>1, <1>2, SubSeqProperties
<1> HIDE DEF kept
<1>4. /\ Append(kept, h) \in Seq(Href)
      /\ Len(Append(kept, h)) = entry + 1
      /\ Append(kept, h)[entry + 1] = h
  BY <1>3, AppendProperties
<1>5. entry' \in 1..Len(entries')
  BY <1>1, <1>4
<1>6. entries' \in Seq(Href) /\ location' = h
  BY <1>1, <1>4 DEF location
<1> QED BY <1>5, <1>6

\* The address that is shown is replaced.
LEMMA Replaced ==
    ASSUME entries \in Seq(Href), entry \in DOMAIN entries, NEW h \in Href, Replace(h)
    PROVE  entries' \in Seq(Href) /\ entry' \in DOMAIN entries' /\ location' = h
<1>1. entries' = [entries EXCEPT ![entry] = h] /\ entry' = entry /\ entry \in 1..Len(entries)
  BY DEF Replace
<1>2. /\ entries' \in Seq(Href) /\ Len(entries') = Len(entries) /\ entries'[entry] = h
  BY <1>1, ExceptSeq
<1>3. entry' \in 1..Len(entries')
  BY <1>1, <1>2
<1> QED BY <1>1, <1>2, <1>3 DEF location

\* updateUIstate leaves the browser at the address of the state.
LEMMA AddressUpdated ==
    ASSUME TypeOK, NEW h \in Href, NEW p, UpdateUIstate(h, p)
    PROVE  entries' \in Seq(Href) /\ entry' \in DOMAIN entries' /\ location' = h
<1>1. entries \in Seq(Href) /\ entry \in 1..Len(entries)
  BY DEF TypeOK
<1>2. CASE h = location
  BY <1>1, <1>2 DEF UpdateUIstate, browser, location
<1>3. CASE h # location
  BY <1>1, <1>3, Pushed DEF UpdateUIstate
<1> QED BY <1>2, <1>3

Transition == [kind : {"page", "subpage", None}, phase : {"exit", "enter", None}]

\* A transition that begins leaves those under way alone.
LEMMA BeginStep ==
    ASSUME TypeOK, navigations + 1 <= MaxNavigations, NEW kind \in {"page", "subpage"},
           Begin(navigations + 1, kind)
    PROVE  /\ transitions' \in [1..MaxNavigations -> Transition]
           /\ \A n \in DOMAIN transitions' : n > navigations + 1 => transitions'[n] = NoTransition
           /\ Exit'
           /\ PageExit => PageExit'
           /\ PageTransition => PageTransition'
           /\ kind = "page" => PageExit' /\ PageTransition'
<1> DEFINE new == navigations + 1
<1>1. /\ navigations \in Nat /\ MaxNavigations \in Nat /\ new \in 1..MaxNavigations
      /\ transitions \in [1..MaxNavigations -> Transition]
      /\ \A n \in 1..MaxNavigations : n > navigations => transitions[n] = NoTransition
  BY NavigationAssumption DEF TypeOK, Transition
<1>2. transitions' = [transitions EXCEPT ![new] = [kind |-> kind, phase |-> "exit"]]
  BY DEF Begin
<1>3. [kind |-> kind, phase |-> "exit"] \in Transition
  BY DEF Transition
<1> HIDE DEF new
<1>4. /\ transitions' \in [1..MaxNavigations -> Transition]
      /\ transitions'[new] = [kind |-> kind, phase |-> "exit"]
      /\ \A n \in 1..MaxNavigations : n # new => transitions'[n] = transitions[n]
  BY <1>1, <1>2, <1>3
<1>5. transitions[new] = NoTransition
  BY <1>1 DEF new
<1>6. \A n \in DOMAIN transitions' : n > navigations + 1 => transitions'[n] = NoTransition
  BY <1>1, <1>4 DEF new
<1>7. Exit' /\ (kind = "page" => PageExit' /\ PageTransition')
  BY <1>1, <1>4 DEF Exit, PageExit, PageTransition, In
<1>8. (PageExit => PageExit') /\ (PageTransition => PageTransition')
  BY <1>1, <1>4, <1>5, NavigationAssumption
     DEF PageExit, PageTransition, In, NoTransition
<1> QED BY <1>4, <1>6, <1>7, <1>8

\* A transition that goes on or ends leaves the others alone.
LEMMA ChangeOne ==
    ASSUME TypeOK, NEW n \in DOMAIN transitions, NEW t \in Transition,
           transitions[n] # NoTransition, transitions' = [transitions EXCEPT ![n] = t]
    PROVE  /\ transitions' \in [1..MaxNavigations -> Transition]
           /\ \A m \in DOMAIN transitions' : m > navigations => transitions'[m] = NoTransition
           /\ transitions'[n] = t
           /\ \A m \in DOMAIN transitions : m # n => transitions'[m] = transitions[m]
<1>1. /\ transitions \in [1..MaxNavigations -> Transition] /\ n \in 1..MaxNavigations
      /\ \A m \in 1..MaxNavigations : m > navigations => transitions[m] = NoTransition
  BY DEF TypeOK, Transition
<1>2. /\ transitions' \in [1..MaxNavigations -> Transition]
      /\ transitions'[n] = t
      /\ \A m \in 1..MaxNavigations : m # n => transitions'[m] = transitions[m]
  BY <1>1
<1>3. \A m \in 1..MaxNavigations : m > navigations => transitions'[m] = NoTransition
  <2> SUFFICES ASSUME NEW m \in 1..MaxNavigations, m > navigations
               PROVE  transitions'[m] = NoTransition
    OBVIOUS
  <2>1. m # n
    BY <1>1
  <2> QED BY <1>1, <1>2, <2>1
<1> QED BY <1>1, <1>2, <1>3

-----------------------------------------------------------------------------
(* The initial states and the steps.                                       *)

LEMMA InitInv == Init => IInv
<1> SUFFICES ASSUME Init PROVE IInv
  OBVIOUS
<1>1. PICK h \in Href : entries = <<h>> /\ h.page \in Template
  BY DEF Init
<1>2. /\ entry = 1 /\ location = h /\ current = h /\ end = h
      /\ entries \in Seq(Href) /\ entry \in DOMAIN entries
  BY <1>1 DEF Init, location
<1>3. TypeOK
  <2>1. transitions \in [1..MaxNavigations -> Transition]
    BY DEF Init, NoTransition, Transition
  <2>2. \A n \in DOMAIN transitions : n > navigations => transitions[n] = NoTransition
    BY DEF Init
  <2>3. selected \in Page /\ stamped \in Template /\ stamped = selected /\ selectedPage \in Page
    BY <1>1, <1>2, Addresses DEF Init
  <2>4. subpage \in Subpages[selected] \cup {None}
    BY DEF Init
  <2>5. navigations \in 0..MaxNavigations
    BY NavigationAssumption DEF Init
  <2>6. firstRender \in {"playing", "over", "failed"}
    BY DEF Init
  <2> QED BY <1>2, <2>1, <2>2, <2>3, <2>4, <2>5, <2>6 DEF TypeOK, Init, Transition
<1>4. StateInv /\ AddressInv /\ TabsInv /\ DoneInv /\ FocusInv
  BY <1>2 DEF Init, StateInv, AddressInv, TabsInv, DoneInv, FocusInv, Agree, HasSection
<1> QED BY <1>3, <1>4 DEF IInv

\* The part of a step that a link and the history have in common.
LEMMA NavigateStep ==
    ASSUME IInv, NEW h \in Href, NEW tab \in BOOLEAN, Navigate(h, tab),
           entries' \in Seq(Href), entry' \in DOMAIN entries', location' \in {location, h}
    PROVE  IInv'
<1> DEFINE stays == h.page = current.page
           bothExist == {Subpage(current), Subpage(h)} \subseteq Subpages[selected]
<1>1. /\ navigations + 1 <= MaxNavigations /\ navigations' = navigations + 1
      /\ end' = h /\ current' = current /\ selected' = selected /\ stamped' = stamped
      /\ subpage' = subpage /\ firstRender' = firstRender
      /\ selectedPage' = IF stays /\ ~tab THEN selectedPage ELSE h.page
      /\ astray' = (stays /\ ~tab /\ (astray \/ PageExit))
  BY DEF Navigate, page
<1>2. \/ ~stays /\ Begin(navigations + 1, "page") /\ FireStart
      \/ /\ stays /\ Subpage(h) # Subpage(current) /\ bothExist
         /\ Begin(navigations + 1, "subpage") /\ UNCHANGED done
      \/ /\ stays /\ (Subpage(h) = Subpage(current) \/ ~bothExist)
         /\ UNCHANGED <<transitions, done>>
  BY DEF Navigate
<1> HIDE DEF stays, bothExist
<1>3. /\ TypeOK /\ current \in Href /\ selected \in Page
      /\ navigations \in 0..MaxNavigations /\ MaxNavigations \in Nat
  BY NavigationAssumption DEF IInv, TypeOK
<1>4. /\ transitions' \in [1..MaxNavigations -> Transition]
      /\ \A n \in DOMAIN transitions' : n > navigations' => transitions'[n] = NoTransition
      /\ (Exit => Exit') /\ (PageExit => PageExit') /\ (PageTransition => PageTransition')
      /\ ~stays => PageExit' /\ Exit' /\ PageTransition'
      /\ stays => Exit' \/ Subpage(h) = Subpage(current) \/ ~bothExist
  <2>1. CASE ~stays /\ Begin(navigations + 1, "page")
    BY <1>1, <1>3, <2>1, BeginStep
  <2>2. CASE stays /\ Begin(navigations + 1, "subpage")
    BY <1>1, <1>3, <2>2, BeginStep
  <2>3. CASE /\ stays /\ (Subpage(h) = Subpage(current) \/ ~bothExist)
             /\ UNCHANGED transitions
    <3>1. \A n \in DOMAIN transitions' : n > navigations' => transitions'[n] = NoTransition
      BY <1>1, <1>3, <2>3 DEF TypeOK
    <3>2. transitions' \in [1..MaxNavigations -> Transition]
      BY <1>3, <2>3 DEF TypeOK, Transition
    <3> QED BY <2>3, <3>1, <3>2 DEF Exit, PageExit, PageTransition, In
  <2> QED BY <1>2, <2>1, <2>2, <2>3 DEF done
<1>5. /\ {pageTransitionDone', isInitialPage', failed'} \subseteq BOOLEAN
      /\ isInitialPage' = isInitialPage /\ focused' = focused /\ failed' = failed
      /\ stays => pageTransitionDone' = pageTransitionDone
  BY <1>2, <1>3 DEF FireStart, done, TypeOK
<1>6. TypeOK'
  <2>1. selectedPage' \in Page \cup Label /\ astray' \in BOOLEAN
    BY <1>1, <1>3, Addresses DEF TypeOK
  <2>2. /\ subpage \in Subpages[selected] \cup {None} /\ stamped \in Template
        /\ selected \in Template => stamped = selected
        /\ firstRender \in {"playing", "over", "failed"} /\ focused \in Template \cup {None}
    BY <1>3 DEF TypeOK
  <2>3. navigations' \in 0..MaxNavigations
    BY <1>1, <1>3
  <2> QED BY <1>1, <1>3, <1>4, <1>5, <2>1, <2>2, <2>3 DEF TypeOK, Transition
<1>7. StateInv'
  BY <1>1, <1>4 DEF IInv, StateInv, stays, HasSection
<1>8. AddressInv'
  <2>1. CASE Exit' \/ ~Queryable(current)
    BY <1>1, <2>1 DEF AddressInv
  <2>2. CASE ~Exit' /\ Queryable(current)
    <3>1. stays /\ ~Exit /\ (Subpage(h) = Subpage(current) \/ ~bothExist)
      BY <1>4, <2>2
    <3>2. Agree(location, current) /\ selected = current.page
      BY <2>2, <3>1 DEF IInv, AddressInv, StateInv, Exit, PageExit, In
    <3>3. Agree(h, current)
      BY <3>1, <3>2 DEF stays, bothExist, Agree, HasSection
    <3> QED BY <1>1, <3>2, <3>3 DEF AddressInv
  <2> QED BY <2>1, <2>2
<1>9. TabsInv'
  BY <1>1 DEF IInv, TabsInv, StateInv, stays
<1>10. DoneInv'
  BY <1>1, <1>4, <1>5 DEF IInv, DoneInv
<1>11. FocusInv'
  BY <1>1, <1>4, <1>5 DEF IInv, FocusInv
<1> QED BY <1>6, <1>7, <1>8, <1>9, <1>10, <1>11 DEF IInv

\* Pages and users change the address or the tabs without the router.
LEMMA OutsideStep ==
    ASSUME IInv, UNCHANGED <<router, page, done, transitions, navigations, firstRender>>,
           entries' \in Seq(Href), entry' \in DOMAIN entries',
           selectedPage' \in Page \cup Label, astray' \in BOOLEAN, TabsInv', AddressInv'
    PROVE  IInv'
<1>1. /\ current' = current /\ end' = end /\ selected' = selected /\ stamped' = stamped
      /\ subpage' = subpage /\ transitions' = transitions /\ navigations' = navigations
      /\ firstRender' = firstRender /\ UNCHANGED done
  BY DEF router, page
<1>2. TypeOK'
  BY <1>1 DEF IInv, TypeOK, done
<1>3. StateInv' /\ DoneInv' /\ FocusInv'
  BY <1>1 DEF IInv, StateInv, DoneInv, FocusInv, PageExit, PageTransition, In, HasSection, done
<1> QED BY <1>2, <1>3 DEF IInv

\* Once no exit animation plays, the address may be replaced by one that agrees with it.
LEMMA AddressStep ==
    ASSUME IInv, UNCHANGED <<router, transitions>>,
           location.page = selected =>
             Agree(location', location) /\ (HasSection(location') => HasSection(location))
    PROVE  AddressInv'
<1>1. current' = current /\ transitions' = transitions
  BY DEF router
<1>2. CASE Exit \/ ~Queryable(current)
  BY <1>1, <1>2 DEF AddressInv, Exit
<1>3. CASE ~Exit /\ Queryable(current)
  <2>1. Agree(location, current) /\ selected = current.page
    BY <1>3 DEF IInv, AddressInv, StateInv, Exit, PageExit, In
  <2>2. Agree(location', location) /\ (HasSection(location') => HasSection(location))
    BY <2>1 DEF Agree
  <2>3. Agree(location', current)
    BY <2>1, <2>2 DEF Agree, HasSection
  <2> QED BY <1>1, <2>3 DEF AddressInv
<1> QED BY <1>2, <1>3

\* IInv is inductive.
LEMMA StepInv == IInv /\ [Next]_vars => IInv'
<1> SUFFICES ASSUME IInv, [Next]_vars PROVE IInv'
  OBVIOUS
<1>0. /\ TypeOK /\ current \in Href /\ end \in Href /\ selected \in Page
      /\ stamped \in Template /\ selectedPage \in Page \cup Label /\ astray \in BOOLEAN
      /\ entries \in Seq(Href) /\ entry \in DOMAIN entries /\ location \in Href
  BY DEF IInv, TypeOK, location
<1>1. CASE FirstRender
  <2>1. /\ firstRender' = "over" /\ pageTransitionDone' = TRUE /\ isInitialPage' = FALSE
        /\ focused' = IF isInitialPage THEN focused ELSE stamped
        /\ failed' = FALSE
        /\ UNCHANGED <<browser, router, page, tabs, transitions, navigations>>
    BY <1>1 DEF FirstRender, FireDone
  <2>2. focused' \in {stamped, None} /\ (selected \in Template => stamped = selected)
    BY <1>0, <2>1 DEF IInv, FocusInv, TypeOK
  <2>3. TypeOK'
    BY <1>0, <2>1, <2>2 DEF TypeOK, browser, router, page, tabs
  <2>4. StateInv' /\ AddressInv' /\ TabsInv'
    BY <2>1 DEF IInv, StateInv, AddressInv, Agree, TabsInv, PageExit, Exit, In, location,
                browser, router, page, tabs, HasSection
  <2>5. DoneInv' /\ FocusInv'
    BY <2>1, <2>2 DEF DoneInv, FocusInv, page
  <2> QED BY <2>3, <2>4, <2>5 DEF IInv
<1>2. CASE Click
  <2>1. entries' = entries /\ entry' = entry /\ location' = location
    BY <1>2 DEF Click, browser, location
  <2>2. CASE \E p \in Page : \E x \in {None, DefaultSubpage[p]}, tab \in {FALSE, (p \in Label)} :
               Navigate([page |-> p, hash |-> x, detail |-> None], tab)
    <3>1. PICK p \in Page : \E x \in {None, DefaultSubpage[p]}, tab \in {FALSE, (p \in Label)} :
                 Navigate([page |-> p, hash |-> x, detail |-> None], tab)
      BY <2>2
    <3>2. PICK x \in {None, DefaultSubpage[p]}, tab \in {FALSE, (p \in Label)} :
                 Navigate([page |-> p, hash |-> x, detail |-> None], tab)
      BY <3>1
    <3>3. [page |-> p, hash |-> x, detail |-> None] \in Href
      BY NavigationAssumption DEF Href
    <3>4. tab \in BOOLEAN
      <4>1. (p \in Label) \in BOOLEAN /\ FALSE \in BOOLEAN
        OBVIOUS
      <4> QED BY <4>1, Zenon
    <3> QED BY <1>0, <2>1, <3>2, <3>3, <3>4, NavigateStep
  <2>3. CASE \E x \in Subpages[selected] :
               Navigate([page |-> location.page, hash |-> x, detail |-> None], FALSE)
    <3>1. PICK x \in Subpages[selected] :
                 Navigate([page |-> location.page, hash |-> x, detail |-> None], FALSE)
      BY <2>3
    <3>2. [page |-> location.page, hash |-> x, detail |-> None] \in Href
      BY <1>0, Addresses, NavigationAssumption DEF Href
    <3> QED BY <1>0, <2>1, <3>1, <3>2, NavigateStep
  <2> QED BY <1>2, <2>2, <2>3 DEF Click
<1>3. CASE SelectTab
  <2>1. PICK l \in Label : selectedPage' = l
    BY <1>3 DEF SelectTab
  <2>2. /\ astray' = TRUE
        /\ UNCHANGED <<browser, router, page, done, transitions, navigations, firstRender>>
    BY <1>3 DEF SelectTab
  <2>3. TabsInv' /\ AddressInv'
    BY <2>2 DEF IInv, TabsInv, AddressInv, Agree, Exit, location, browser, router
  <2>4. entries' \in Seq(Href) /\ entry' \in DOMAIN entries'
    BY <1>0, <2>2 DEF browser
  <2> QED BY <2>1, <2>2, <2>3, <2>4, OutsideStep
<1>4. CASE Popstate
  <2>1. PICK e \in DOMAIN entries \cap {entry - 1, entry + 1} :
            entry' = e /\ Navigate(entries[e], FALSE)
    BY <1>4 DEF Popstate
  <2>2. entries' = entries /\ entries[e] \in Href /\ location' = entries[e]
    BY <1>0, <1>4, <2>1 DEF Popstate, location
  <2> QED BY <1>0, <2>1, <2>2, NavigateStep
<1>5. CASE FollowHash
  <2>1. PICK x \in Hash \ {location.hash} :
            LET h == [page |-> location.page, hash |-> x, detail |-> None]
            IN  Push(h) /\ Navigate(h, FALSE)
    BY <1>5 DEF FollowHash
  <2> DEFINE h == [page |-> location.page, hash |-> x, detail |-> None]
  <2>2. h \in Href /\ Push(h) /\ Navigate(h, FALSE)
    BY <1>0, <2>1, Addresses DEF Href
  <2> HIDE DEF h
  <2>3. entries' \in Seq(Href) /\ entry' \in DOMAIN entries' /\ location' = h
    BY <1>0, <2>2, Pushed
  <2> QED BY <2>2, <2>3, NavigateStep
<1>6. CASE ScrollToFaq
  <2>1. PICK x \in Selectable \ UNION {Subpages[p] : p \in Page} :
            Replace([page |-> location.page, hash |-> x, detail |-> None])
    BY <1>6 DEF ScrollToFaq
  <2>2. UNCHANGED <<router, page, tabs, done, transitions, navigations, firstRender>>
    BY <1>6 DEF ScrollToFaq
  <2> DEFINE h == [page |-> location.page, hash |-> x, detail |-> None]
  <2>3. h \in Href /\ h.page = location.page /\ ~HasSection(h)
    BY <1>0, <2>1, Addresses, NavigationAssumption DEF Href, HasSection, Subpage
  <2>4. Replace(h)
    BY <2>1
  <2> HIDE DEF h
  <2>5. entries' \in Seq(Href) /\ entry' \in DOMAIN entries' /\ location' = h
    BY <1>0, <2>3, <2>4, Replaced
  <2>6. Agree(location', location) /\ ~HasSection(location')
    BY <2>3, <2>5 DEF Agree
  <2>7. AddressInv'
    BY <2>2, <2>6, AddressStep
  <2>8. TabsInv' /\ selectedPage' \in Page \cup Label /\ astray' \in BOOLEAN
    BY <1>0, <2>2 DEF IInv, TabsInv, tabs, router
  <2> QED BY <2>2, <2>5, <2>7, <2>8, OutsideStep
<1>7. ASSUME selected = Schedule, NEW d \in Detail \cup {None}, 
             entries' \in Seq(Href), entry' \in DOMAIN entries', location' = SessionHref(d),
             UNCHANGED <<router, page, tabs, done, transitions, navigations, firstRender>>
      PROVE  IInv'
  <2>1. /\ SessionHref(d).page = Schedule
        /\ SessionHref(d).hash = Subpage(location)
    BY DEF SessionHref
  <2>2. ASSUME location.page = selected
        PROVE  Agree(location', location) /\ (HasSection(location') => HasSection(location))
    <3>1. location'.page = location.page /\ location'.hash = Subpage(location)
      BY <1>7, <2>1, <2>2
    <3>2. Subpage(location') = Subpage(location)
      BY <3>1 DEF Subpage
    <3> QED BY <3>1, <3>2 DEF Agree, HasSection
  <2>3. AddressInv'
    BY <1>7, <2>2, AddressStep
  <2>4. TabsInv' /\ selectedPage' \in Page \cup Label /\ astray' \in BOOLEAN
    BY <1>0, <1>7 DEF IInv, TabsInv, tabs, router
  <2> QED BY <1>7, <2>3, <2>4, OutsideStep
<1>8. ASSUME NEW d \in Detail \cup {None} PROVE SessionHref(d) \in Href
  BY <1>0, <1>8, Addresses, NavigationAssumption DEF SessionHref, Href
<1>9. CASE OpenSession
  <2>1. PICK d \in Detail : Push(SessionHref(d))
    BY <1>9 DEF OpenSession
  <2>2. /\ selected = Schedule
        /\ UNCHANGED <<router, page, tabs, done, transitions, navigations, firstRender>>
    BY <1>9 DEF OpenSession
  <2>3. entries' \in Seq(Href) /\ entry' \in DOMAIN entries' /\ location' = SessionHref(d)
    BY <1>0, <1>8, <2>1, Pushed
  <2> QED BY <1>7, <2>2, <2>3
<1>10. CASE CloseSession
  <2>1. /\ selected = Schedule /\ Replace(SessionHref(None))
        /\ UNCHANGED <<router, page, tabs, done, transitions, navigations, firstRender>>
    BY <1>10 DEF CloseSession
  <2>2. entries' \in Seq(Href) /\ entry' \in DOMAIN entries' /\ location' = SessionHref(None)
    BY <1>0, <1>8, <2>1, Replaced
  <2> QED BY <1>7, <2>1, <2>2
<1>11. ASSUME NEW n \in DOMAIN transitions, SelectPage(n) PROVE IInv'
  <2>1. /\ transitions[n] = [kind |-> "page", phase |-> "exit"]
        /\ selected' = end.page /\ current' = end /\ end' = end
        /\ stamped' = IF end.page \in Template THEN end.page ELSE stamped
        /\ UpdateUIstate(end, end.page)
        /\ transitions' = [transitions EXCEPT ![n].phase = "enter"]
        /\ UNCHANGED <<navigations, tabs, firstRender, done>>
    BY <1>11 DEF SelectPage, Select, In, Enter
  <2> DEFINE entering == [kind |-> "page", phase |-> "enter"]
  <2>2. transitions' = [transitions EXCEPT ![n] = entering]
    <3>1. [transitions[n] EXCEPT !.phase = "enter"] = entering
      BY <2>1
    <3> QED BY <2>1, <3>1, Zenon
  <2>3. entering \in Transition /\ transitions[n] # NoTransition
    BY <2>1, NavigationAssumption DEF Transition, NoTransition
  <2>4. /\ transitions' \in [1..MaxNavigations -> Transition]
        /\ \A m \in DOMAIN transitions' : m > navigations => transitions'[m] = NoTransition
        /\ transitions'[n] = entering /\ n \in DOMAIN transitions'
    BY <1>0, <2>2, <2>3, ChangeOne DEF TypeOK
  <2>5. PageTransition'
    BY <2>4 DEF PageTransition
  <2>6. entries' \in Seq(Href) /\ entry' \in DOMAIN entries' /\ location' = end
    BY <1>0, <2>1, AddressUpdated
  <2>7. selected' \in Page
    BY <1>0, <2>1, Addresses
  <2>8. /\ subpage' \in Subpages[selected'] \cup {None}
        /\ HasSection(end) => subpage' = Subpage(end)
    <3>1. subpage \in Subpages[selected] \cup {None}
      BY <1>0 DEF TypeOK
    <3> QED BY <2>1, <3>1 DEF UpdateUIstate, HasSection
  <2>9. TypeOK'
    BY <1>0, <2>1, <2>4, <2>6, <2>7, <2>8 DEF TypeOK, Transition, done, tabs
  <2>10. StateInv' /\ AddressInv' /\ TabsInv'
    BY <2>1, <2>6, <2>8 DEF IInv, StateInv, AddressInv, Agree, HasSection, TabsInv, tabs
  <2>11. DoneInv' /\ FocusInv'
    BY <2>1, <2>5 DEF IInv, DoneInv, FocusInv, done
  <2> QED BY <2>9, <2>10, <2>11 DEF IInv
<1>12. ASSUME NEW n \in DOMAIN transitions, PageTransitionFails(n) PROVE IInv'
  <2>1. /\ transitions[n] = [kind |-> "page", phase |-> "exit"]
        /\ selected' = end.page /\ current' = end /\ end' = end
        /\ stamped' = IF end.page \in Template THEN end.page ELSE stamped
        /\ ~Queryable(end)
        /\ subpage' = IF end.page = selected THEN subpage ELSE None
        /\ transitions' = [transitions EXCEPT ![n] = NoTransition]
        /\ failed' = TRUE
        /\ UNCHANGED <<navigations, tabs, firstRender, browser, pageTransitionDone,
                       isInitialPage, focused>>
    BY <1>12 DEF PageTransitionFails, Select, In, Over
  <2>2. NoTransition \in Transition /\ transitions[n] # NoTransition
    BY <2>1, NavigationAssumption DEF Transition, NoTransition
  <2>3. /\ transitions' \in [1..MaxNavigations -> Transition]
        /\ \A m \in DOMAIN transitions' : m > navigations => transitions'[m] = NoTransition
    BY <1>0, <2>1, <2>2, ChangeOne DEF TypeOK
  <2>4. selected' \in Page /\ ~HasSection(end)
    BY <1>0, <2>1, Addresses
  <2>5. TypeOK'
    BY <1>0, <2>1, <2>3, <2>4 DEF TypeOK, Transition, browser, tabs
  <2>6. StateInv' /\ AddressInv' /\ TabsInv'
    BY <2>1, <2>4 DEF IInv, StateInv, AddressInv, HasSection, Queryable, TabsInv, tabs
  <2>7. DoneInv' /\ FocusInv'
    BY <2>1 DEF IInv, DoneInv, FocusInv
  <2> QED BY <2>5, <2>6, <2>7 DEF IInv
<1>13. ASSUME NEW n \in DOMAIN transitions, PageTransitionDone(n) PROVE IInv'
  <2>1. /\ transitions[n] = [kind |-> "page", phase |-> "enter"]
        /\ transitions' = [transitions EXCEPT ![n] = NoTransition]
        /\ pageTransitionDone' = TRUE /\ isInitialPage' = FALSE /\ failed' = FALSE
        /\ focused' = IF isInitialPage THEN focused ELSE stamped
        /\ UNCHANGED <<browser, router, page, tabs, navigations, firstRender>>
    BY <1>13 DEF PageTransitionDone, In, Over, FireDone
  <2>2. NoTransition \in Transition /\ transitions[n] # NoTransition
    BY <2>1, NavigationAssumption DEF Transition, NoTransition
  <2>3. /\ transitions' \in [1..MaxNavigations -> Transition]
        /\ \A m \in DOMAIN transitions' : m > navigations => transitions'[m] = NoTransition
        /\ \A m \in DOMAIN transitions : m # n => transitions'[m] = transitions[m]
        /\ DOMAIN transitions' = DOMAIN transitions
    BY <1>0, <2>1, <2>2, ChangeOne DEF TypeOK
  <2>4. (PageExit => PageExit') /\ (Exit => Exit')
    BY <2>1, <2>3 DEF PageExit, Exit, In
  <2>5. focused' \in {stamped, None} /\ (selected \in Template => stamped = selected)
    BY <1>0, <2>1 DEF IInv, FocusInv, TypeOK
  <2>6. TypeOK'
    BY <1>0, <2>1, <2>3, <2>5 DEF TypeOK, Transition, browser, router, page, tabs
  <2>7. StateInv' /\ AddressInv' /\ TabsInv'
    BY <2>1, <2>4 DEF IInv, StateInv, AddressInv, Agree, HasSection, TabsInv, location, browser,
                      router, page, tabs
  <2>8. DoneInv' /\ FocusInv'
    BY <2>1, <2>5 DEF DoneInv, FocusInv, page
  <2> QED BY <2>6, <2>7, <2>8 DEF IInv
<1>14. ASSUME NEW n \in DOMAIN transitions, SelectSubpage(n) PROVE IInv'
  <2>1. /\ transitions[n] = [kind |-> "subpage", phase |-> "exit"]
        /\ selected' = selected /\ stamped' = stamped /\ current' = end /\ end' = end
        /\ UNCHANGED <<navigations, tabs, firstRender, done>>
    BY <1>14 DEF SelectSubpage, In
  <2>2. /\ transitions' \in [1..MaxNavigations -> Transition]
        /\ \A m \in DOMAIN transitions' : m > navigations => transitions'[m] = NoTransition
        /\ \A m \in DOMAIN transitions : m # n => transitions'[m] = transitions[m]
        /\ DOMAIN transitions' = DOMAIN transitions
    <3> DEFINE entering == [kind |-> "subpage", phase |-> "enter"]
    <3>1. \/ transitions' = [transitions EXCEPT ![n] = entering]
          \/ transitions' = [transitions EXCEPT ![n] = NoTransition]
      <4>1. [transitions[n] EXCEPT !.phase = "enter"] = entering
        BY <2>1
      <4>2. \/ transitions' = [transitions EXCEPT ![n].phase = "enter"]
            \/ transitions' = [transitions EXCEPT ![n] = NoTransition]
        BY <1>14 DEF SelectSubpage, Enter, Over
      <4> QED BY <4>1, <4>2, Zenon
    <3>2. entering \in Transition /\ NoTransition \in Transition /\ transitions[n] # NoTransition
      BY <2>1, NavigationAssumption DEF Transition, NoTransition
    <3> HIDE DEF entering
    <3>3. CASE transitions' = [transitions EXCEPT ![n] = entering]
      BY <1>0, <3>2, <3>3, ChangeOne DEF TypeOK
    <3>4. CASE transitions' = [transitions EXCEPT ![n] = NoTransition]
      BY <1>0, <3>2, <3>4, ChangeOne DEF TypeOK
    <3> QED BY <3>1, <3>3, <3>4
  <2>3. (PageExit => PageExit') /\ (PageTransition => PageTransition')
    BY <2>1, <2>2 DEF PageExit, PageTransition, In
  <2>4. subpage \in Subpages[selected] \cup {None}
    BY <1>0 DEF TypeOK
  <2>5. /\ entries' \in Seq(Href) /\ entry' \in DOMAIN entries'
        /\ subpage' \in Subpages[selected] \cup {None}
        /\ selected = end.page /\ HasSection(end) => subpage' = Subpage(end)
        /\ location' = end \/ ~Queryable(end)
    <3>1. CASE Queryable(end) /\ UpdateUIstate(end, selected)
      <4>1. entries' \in Seq(Href) /\ entry' \in DOMAIN entries' /\ location' = end
        BY <1>0, <3>1, AddressUpdated
      <4>2. /\ subpage' \in Subpages[selected] \cup {None}
            /\ selected = end.page /\ HasSection(end) => subpage' = Subpage(end)
        BY <2>4, <3>1 DEF UpdateUIstate, HasSection
      <4> QED BY <4>1, <4>2
    <3>2. CASE ~Queryable(end) /\ UNCHANGED <<subpage, browser>>
      <4>1. ~HasSection(end)
        BY <1>0, <3>2, Addresses
      <4> QED BY <1>0, <2>4, <3>2, <4>1 DEF browser
    <3> QED BY <1>14, <3>1, <3>2 DEF SelectSubpage
  <2>6. TypeOK'
    BY <1>0, <2>1, <2>2, <2>5 DEF TypeOK, Transition, done, tabs
  <2>7. StateInv'
    BY <2>1, <2>3, <2>5 DEF IInv, StateInv, HasSection
  <2>8. AddressInv'
    BY <2>1, <2>5 DEF AddressInv, Agree, Queryable
  <2>9. TabsInv' /\ DoneInv' /\ FocusInv'
    BY <2>1, <2>3 DEF IInv, TabsInv, DoneInv, FocusInv, done, tabs
  <2> QED BY <2>6, <2>7, <2>8, <2>9 DEF IInv
<1>15. ASSUME NEW n \in DOMAIN transitions, SubpageTransitionDone(n) PROVE IInv'
  <2>1. /\ transitions[n] = [kind |-> "subpage", phase |-> "enter"]
        /\ transitions' = [transitions EXCEPT ![n] = NoTransition]
        /\ UNCHANGED <<browser, router, page, tabs, done, navigations, firstRender>>
    BY <1>15 DEF SubpageTransitionDone, In, Over
  <2>2. NoTransition \in Transition /\ transitions[n] # NoTransition
    BY <2>1, NavigationAssumption DEF Transition, NoTransition
  <2>3. /\ transitions' \in [1..MaxNavigations -> Transition]
        /\ \A m \in DOMAIN transitions' : m > navigations => transitions'[m] = NoTransition
        /\ \A m \in DOMAIN transitions : m # n => transitions'[m] = transitions[m]
        /\ DOMAIN transitions' = DOMAIN transitions
    BY <1>0, <2>1, <2>2, ChangeOne DEF TypeOK
  <2>4. (PageExit => PageExit') /\ (Exit => Exit') /\ (PageTransition => PageTransition')
    BY <2>1, <2>3 DEF PageExit, Exit, PageTransition, In
  <2>5. TypeOK'
    BY <1>0, <2>1, <2>3 DEF TypeOK, Transition, browser, router, page, tabs, done
  <2>6. StateInv' /\ AddressInv' /\ TabsInv'
    BY <2>1, <2>4 DEF IInv, StateInv, AddressInv, Agree, HasSection, TabsInv, location, browser,
                      router, page, tabs
  <2>7. DoneInv' /\ FocusInv'
    BY <2>1, <2>4 DEF IInv, DoneInv, FocusInv, page, done
  <2> QED BY <2>5, <2>6, <2>7 DEF IInv
<1>16. CASE UNCHANGED vars
  <2>1. UNCHANGED <<browser, router, page, tabs, done, transitions, navigations, firstRender>>
    BY <1>16 DEF vars
  <2>2. TypeOK'
    BY <1>0, <2>1 DEF TypeOK, browser, router, page, tabs, done
  <2>3. StateInv' /\ AddressInv' /\ TabsInv'
    BY <2>1 DEF IInv, StateInv, AddressInv, Agree, HasSection, TabsInv, PageExit, Exit, In,
                location, browser, router, page, tabs
  <2>4. DoneInv' /\ FocusInv'
    BY <2>1 DEF IInv, DoneInv, FocusInv, PageTransition, page, done
  <2> QED BY <2>2, <2>3, <2>4 DEF IInv
<1> QED
  BY <1>1, <1>2, <1>3, <1>4, <1>5, <1>6, <1>9, <1>10, <1>11, <1>12, <1>13, <1>14, <1>15, <1>16
     DEF Next

LEMMA Inductive == Spec => []IInv
BY InitInv, StepInv, PTL DEF Spec

-----------------------------------------------------------------------------
(* The theorems.                                                           *)

\* Every variable keeps its type: nothing is selected that is not a page, and no
\* subpage is displayed that is not one of the page.
THEOREM TypeCorrect == Spec => []TypeOK
<1>1. IInv => TypeOK
  BY DEF IInv
<1> QED BY <1>1, Inductive, PTL

\* However many navigations overlap, and although pages change the address as well, page,
\* section and address agree when the transitions are over, unless a hash names no
\* section or a transition failed.
THEOREM ViewsAgree == Spec => []ViewAgrees
<1>1. IInv => ViewAgrees
  <2> SUFFICES ASSUME IInv, Settled
               PROVE  /\ selected = current.page
                      /\ HasSection(current) => subpage = Subpage(current)
                      /\ Queryable(current) => location.page = selected
                      /\ HasSection(current) /\ HasSection(location) => subpage = Subpage(location)
    BY DEF ViewAgrees
  <2>1. ~PageExit /\ ~Exit
    BY NavigationAssumption DEF Settled, PageExit, Exit, In, NoTransition
  <2>2. HasSection(current) => Queryable(current)
    BY Addresses DEF IInv, TypeOK
  <2> QED BY <2>1, <2>2 DEF IInv, StateInv, AddressInv, Agree
<1> QED BY <1>1, Inductive, PTL

\* The tabs show the selected page when the transitions are over, unless a tab was
\* selected without a navigation, or a navigation went back to the page a transition was
\* leaving.
THEOREM TabsShowPage == Spec => []TabsAgree
<1>1. IInv => TabsAgree
  <2> SUFFICES ASSUME IInv, Settled PROVE selectedPage = selected \/ astray
    BY DEF TabsAgree
  <2>1. ~PageExit
    BY NavigationAssumption DEF Settled, PageExit, In, NoTransition
  <2> QED BY <2>1 DEF IInv, StateInv, TabsInv
<1> QED BY <1>1, Inductive, PTL

\* The tabs never stay disabled once no page transition is under way, unless one failed.
THEOREM TabsStayEnabled == Spec => []TabsEnabled
<1>1. IInv => TabsEnabled
  BY DEF IInv, DoneInv, TabsEnabled, NoPageTransition, PageTransition
<1> QED BY <1>1, Inductive, PTL

\* Once no page transition is under way the focus is on the selected page, if it has a
\* template and no transition failed.
THEOREM FocusOnPage == Spec => []FocusFollows
<1>1. IInv => FocusFollows
  BY DEF IInv, DoneInv, FocusInv, FocusFollows, NoPageTransition, PageTransition
<1> QED BY <1>1, Inductive, PTL

=============================================================================
