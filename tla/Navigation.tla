----------------------------- MODULE Navigation -----------------------------
(***************************************************************************)
(* Pages, subpages and the address of the web app                          *)
(*                                                                         *)
(* helper/router.js changes the page in steps: it plays the exit animation *)
(* of the old page (helper/page-animation.js), then selects the new page,  *)
(* updates its state and the address, plays the enter animation and fires  *)
(* page-transition-done (helper/elements.js, helper/a11y.js).  Between the *)
(* steps the user follows other links, or goes back and forward, and the   *)
(* transitions that overlap share the state of the router.  The router is  *)
(* not alone: two pages change the address themselves, and the drawer and  *)
(* the logo select a tab whether or not the click becomes a navigation.    *)
(***************************************************************************)
EXTENDS Naturals, Sequences

CONSTANTS
    Page,
    Template,        \* the pages lazy-pages has a template for
    Subpages,        \* of each page the subpages it has a section for
    DefaultSubpage,  \* IOWA.PAGES: of each page its defaultSubpage, or None
    Hash,            \* the first parts of the hashes: subpages, anchors, whatever users type
    Selectable,      \* those that give a selector (".subpage-" and the hash)
    Detail,          \* what may come with it: the id of a session
    Faq, Schedule,   \* the pages that change the address themselves
    Label,           \* what the drawer and the logo select: pages, and the external "codelabs"
    None,
    MaxNavigations,  \* bound
    MaxEntries       \* bound on the session history, for sessions that are opened

Href == [page : Page, hash : Hash \cup {None}, detail : Detail \cup {None}]

ASSUME NavigationAssumption ==
    /\ Template \subseteq Page /\ {Faq, Schedule} \subseteq Template
    /\ Selectable \subseteq Hash /\ None \notin Hash
    /\ \A p \in Page : Subpages[p] \subseteq Selectable /\ DefaultSubpage[p] \in Subpages[p] \cup {None}
    /\ \A p \in Page \ Template : Subpages[p] = {}
    /\ None \notin {"page", "subpage", "exit", "enter"}
    /\ {MaxNavigations, MaxEntries} \subseteq Nat

VARIABLES
    entries,       \* the session history of the browser: addresses
    entry,         \*   and the one the browser shows
    current,       \* state.current
    end,           \* state.end
    transitions,   \* of each navigation its transition: kind and phase
    navigations,   \* how many there have been
    selected,      \* LazyPages.selected
    stamped,       \* LazyPages.selectedPage: the page whose element was stamped last
    subpage,       \* the section of the page that was selected, or None
    selectedPage,  \* Template.selectedPage, which the tabs and the drawer show
    firstRender,   \* the animation of the first page
    pageTransitionDone,  \* which also enables the tabs
    isInitialPage,
    focused,       \* the page manageFocus() was last called for
    failed,        \* history: a page transition failed and none has ended since
    astray         \* history: a tab was selected without a navigation, or a navigation went
                   \* back to the page a transition was leaving; and since then no tab and
                   \* no link to another page has been followed

browser == <<entries, entry>>
router == <<current, end>>
page == <<selected, stamped, subpage>>
tabs == <<selectedPage, astray>>
done == <<pageTransitionDone, isInitialPage, focused, failed>>
vars == <<browser, router, page, tabs, done, transitions, navigations, firstRender>>

location == entries[entry]
NoTransition == [kind |-> None, phase |-> None]

TypeOK ==
    /\ entries \in Seq(Href)
    /\ entry \in DOMAIN entries
    /\ {current, end} \subseteq Href
    /\ navigations \in 0..MaxNavigations
    /\ transitions \in [1..MaxNavigations ->
         [kind : {"page", "subpage", None}, phase : {"exit", "enter", None}]]
    /\ \A n \in DOMAIN transitions : n > navigations => transitions[n] = NoTransition
    /\ selected \in Page /\ stamped \in Template /\ selectedPage \in Page \cup Label
    /\ selected \in Template => stamped = selected
    /\ subpage \in Subpages[selected] \cup {None}
    /\ firstRender \in {"playing", "over", "failed"}
    /\ {pageTransitionDone, isInitialPage, failed, astray} \subseteq BOOLEAN
    /\ focused \in Template \cup {None}

\* parseUrl.
Subpage(h) == IF h.hash = None THEN DefaultSubpage[h.page] ELSE h.hash

\* querySelector throws for other hashes: "#what's", "#a%20b".
Queryable(h) == h.hash \in Selectable \cup {None}

\* The app has been stamped: Elements.init, onDomBindStamp and Router.init.  The server
\* serves a page under any hash.
Init ==
    /\ entries \in {<<h>> : h \in {h \in Href : h.page \in Template}}
    /\ entry = 1
    /\ current = location /\ end = location
    /\ transitions = [n \in 1..MaxNavigations |-> NoTransition]
    /\ navigations = 0
    /\ selected = location.page /\ stamped = location.page /\ selectedPage = location.page
    /\ subpage = IF Subpage(location) \in Subpages[selected] THEN Subpage(location) ELSE None
    /\ firstRender = IF Queryable(location) THEN "playing" ELSE "failed"
    /\ pageTransitionDone = FALSE
    /\ isInitialPage = TRUE
    /\ focused = None
    /\ failed = FALSE
    /\ astray = FALSE

-----------------------------------------------------------------------------
(* Events                                                                  *)

\* Mutant: the page that takes the focus is the one the tabs show.
FireDoneTab ==
    /\ pageTransitionDone' = TRUE
    /\ isInitialPage' = FALSE
    /\ focused' = IF isInitialPage THEN focused ELSE selectedPage
    /\ failed' = FALSE

\* page-transition-done: the tabs are enabled, and from the second one on the
\* page takes the focus (focusNewPage).
FireDone ==
    /\ pageTransitionDone' = TRUE
    /\ isInitialPage' = FALSE
    /\ focused' = IF isInitialPage THEN focused ELSE stamped
    /\ failed' = FALSE

FireStart == pageTransitionDone' = FALSE /\ UNCHANGED <<isInitialPage, focused, failed>>

\* onPageSelect: the animation of the first page is over.
FirstRender ==
    /\ firstRender = "playing"
    /\ firstRender' = "over"
    /\ FireDone
    /\ UNCHANGED <<browser, router, page, tabs, transitions, navigations>>

Begin(n, kind) == transitions' = [transitions EXCEPT ![n] = [kind |-> kind, phase |-> "exit"]]
In(n, kind, phase) == transitions[n] = [kind |-> kind, phase |-> phase]
PageExit == \E n \in DOMAIN transitions : In(n, "page", "exit")

\* Mutant: only the tabs and the drawer set selectedPage.
NavigateUnbound(h, tab) ==
    LET n == navigations + 1
        stays == h.page = current.page
        bothExist == {Subpage(current), Subpage(h)} \subseteq Subpages[selected] IN
    /\ n <= MaxNavigations
    /\ navigations' = n
    /\ end' = h
    /\ selectedPage' = IF tab THEN h.page ELSE selectedPage
    /\ astray' = (stays /\ ~tab /\ (astray \/ PageExit))
    /\ \/ ~stays /\ Begin(n, "page") /\ FireStart
       \/ /\ stays /\ Subpage(h) # Subpage(current) /\ bothExist
          /\ Begin(n, "subpage") /\ UNCHANGED done
       \/ /\ stays /\ (Subpage(h) = Subpage(current) \/ ~bothExist)
          /\ UNCHANGED <<transitions, done>>
    /\ UNCHANGED <<current, page, firstRender>>

\* Mutant: the start is the address, which popstate has changed already.
NavigateFromLocation(h, tab) ==
    LET n == navigations + 1
        start == location'
        stays == h.page = start.page
        bothExist == {Subpage(start), Subpage(h)} \subseteq Subpages[selected] IN
    /\ n <= MaxNavigations
    /\ navigations' = n
    /\ end' = h
    /\ selectedPage' = IF stays /\ ~tab THEN selectedPage ELSE h.page
    /\ astray' = (stays /\ ~tab /\ (astray \/ PageExit))
    /\ \/ ~stays /\ Begin(n, "page") /\ FireStart
       \/ /\ stays /\ Subpage(h) # Subpage(start) /\ bothExist
          /\ Begin(n, "subpage") /\ UNCHANGED done
       \/ /\ stays /\ (Subpage(h) = Subpage(start) \/ ~bothExist)
          /\ UNCHANGED <<transitions, done>>
    /\ UNCHANGED <<current, page, firstRender>>

\* navigate, with runPageTransition and runSubpageTransition up to the end of their exit
\* animations.  tab: the link belongs to a tab, whose click has set selectedPage.
Navigate(h, tab) ==
    LET n == navigations + 1
        stays == h.page = current.page
        bothExist == {Subpage(current), Subpage(h)} \subseteq Subpages[selected] IN
    /\ n <= MaxNavigations
    /\ navigations' = n
    /\ end' = h
    /\ selectedPage' = IF stays /\ ~tab THEN selectedPage ELSE h.page
    /\ astray' = (stays /\ ~tab /\ (astray \/ PageExit))
    /\ \/ ~stays /\ Begin(n, "page") /\ FireStart
       \/ /\ stays /\ Subpage(h) # Subpage(current) /\ bothExist
          /\ Begin(n, "subpage") /\ UNCHANGED done
       \/ /\ stays /\ (Subpage(h) = Subpage(current) \/ ~bothExist)
          /\ UNCHANGED <<transitions, done>>
    /\ UNCHANGED <<current, page, firstRender>>

Push(h) == entries' = Append(SubSeq(entries, 1, entry), h) /\ entry' = entry + 1
Replace(h) == entries' = [entries EXCEPT ![entry] = h] /\ UNCHANGED entry

\* onClick: a link with data-ajax-link, to a page or, relative to the address, to a
\* subpage of the page that is shown.
Click ==
    /\ UNCHANGED browser
    /\ \/ \E p \in Page : \E x \in {None, DefaultSubpage[p]}, tab \in {FALSE, (p \in Label)} :
            Navigate([page |-> p, hash |-> x, detail |-> None], tab)
       \/ \E x \in Subpages[selected] :
            Navigate([page |-> location.page, hash |-> x, detail |-> None], FALSE)

\* A click on the drawer or the logo that onClick leaves to the browser, which opens the
\* link elsewhere: with ctrl or meta, or on the external item.
SelectTab ==
    /\ \E l \in Label : selectedPage' = l
    /\ astray' = TRUE
    /\ UNCHANGED <<browser, router, page, done, transitions, navigations, firstRender>>

\* Back and forward: popstate.
Popstate ==
    /\ UNCHANGED entries
    /\ \E e \in DOMAIN entries \cap {entry - 1, entry + 1} :
         /\ entry' = e
         /\ Navigate(entries[e], FALSE)

\* A link to a hash that the browser follows (data-subpage-link), or a hash the user types.
FollowHash ==
    \E x \in Hash \ {location.hash} :
      LET h == [page |-> location.page, hash |-> x, detail |-> None] IN
      Push(h) /\ Navigate(h, FALSE)

-----------------------------------------------------------------------------
(* Pages that change the address behind the router's back                  *)

\* scrollToFaq; its links name no subpage.
ScrollToFaq ==
    /\ selected = Faq
    /\ \E x \in Selectable \ UNION {Subpages[p] : p \in Page} :
         Replace([page |-> location.page, hash |-> x, detail |-> None])
    /\ UNCHANGED <<router, page, tabs, done, transitions, navigations, firstRender>>

SessionHref(d) == [page |-> Schedule, hash |-> Subpage(location), detail |-> d]

\* _onSessionDetailsOpen, after a click, a deep link or popstate.
OpenSession ==
    /\ selected = Schedule /\ Len(entries) < MaxEntries
    /\ \E d \in Detail : Push(SessionHref(d))
    /\ UNCHANGED <<router, page, tabs, done, transitions, navigations, firstRender>>

\* _onSessionDetailsClose.
CloseSession ==
    /\ selected = Schedule
    /\ Replace(SessionHref(None))
    /\ UNCHANGED <<router, page, tabs, done, transitions, navigations, firstRender>>

-----------------------------------------------------------------------------
(* Steps of the transitions                                                *)

\* Mutant: the subpage of the old page stays when the new page has none.
UpdateUIstateKept(h, p) ==
    /\ subpage' = IF Subpage(h) \in Subpages[p] THEN Subpage(h) ELSE subpage
    /\ IF h = location THEN UNCHANGED browser ELSE Push(h)

\* updateUIstate, for state.current = h and the page p in the document.
UpdateUIstate(h, p) ==
    /\ subpage' = IF Subpage(h) \in Subpages[p] THEN Subpage(h)
                  ELSE IF p = selected THEN subpage ELSE None
    /\ IF h = location THEN UNCHANGED browser ELSE Push(h)

Enter(n) == transitions' = [transitions EXCEPT ![n].phase = "enter"]
Over(n) == transitions' = [transitions EXCEPT ![n] = NoTransition]

\* The exit animation of runPageTransition is over.
Select(n) ==
    /\ In(n, "page", "exit")
    /\ selected' = end.page
    /\ stamped' = IF end.page \in Template THEN end.page ELSE stamped
    /\ current' = end
    /\ UNCHANGED <<end, navigations, tabs, firstRender>>

SelectPage(n) ==
    /\ Queryable(end)
    /\ Select(n)
    /\ UpdateUIstate(end, end.page)
    /\ Enter(n)
    /\ UNCHANGED done

\* updateUIstate throws: catch reports the error, and page-transition-done is not sent.
PageTransitionFails(n) ==
    /\ ~Queryable(end)
    /\ Select(n)
    /\ subpage' = IF end.page = selected THEN subpage ELSE None
    /\ Over(n)
    /\ failed' = TRUE
    /\ UNCHANGED <<browser, pageTransitionDone, isInitialPage, focused>>

\* Mutant: only the transition of the last navigation ends the page's transition.
PageTransitionDoneIfLast(n) ==
    /\ In(n, "page", "enter")
    /\ Over(n)
    /\ IF n = navigations THEN FireDone ELSE UNCHANGED done
    /\ UNCHANGED <<browser, router, page, tabs, navigations, firstRender>>

\* The enter animation is over.
PageTransitionDone(n) ==
    /\ In(n, "page", "enter")
    /\ Over(n)
    /\ FireDone
    /\ UNCHANGED <<browser, router, page, tabs, navigations, firstRender>>

\* The exit animation of runSubpageTransition is over; there, nothing catches what
\* updateUIstate throws.
SelectSubpage(n) ==
    /\ In(n, "subpage", "exit")
    /\ current' = end
    /\ \/ Queryable(end) /\ UpdateUIstate(end, selected) /\ Enter(n)
       \/ ~Queryable(end) /\ UNCHANGED <<subpage, browser>> /\ Over(n)
    /\ UNCHANGED <<end, selected, stamped, tabs, navigations, firstRender, done>>

SubpageTransitionDone(n) ==
    /\ In(n, "subpage", "enter")
    /\ Over(n)
    /\ UNCHANGED <<browser, router, page, tabs, done, navigations, firstRender>>

Next ==
    \/ FirstRender
    \/ Click \/ SelectTab \/ Popstate \/ FollowHash
    \/ ScrollToFaq \/ OpenSession \/ CloseSession
    \/ \E n \in DOMAIN transitions :
         \/ SelectPage(n) \/ PageTransitionFails(n) \/ PageTransitionDone(n)
         \/ SelectSubpage(n) \/ SubpageTransitionDone(n)

Spec == Init /\ [][Next]_vars

-----------------------------------------------------------------------------
(* Properties                                                              *)

Settled == \A n \in DOMAIN transitions : transitions[n] = NoTransition
NoPageTransition == \A n \in DOMAIN transitions : transitions[n].kind # "page"
HasSection(h) == Subpage(h) \in Subpages[h.page]

\* Whatever overlapped, and although pages change the address as well: when the
\* transitions are over the page shown is that of the router's state, and so is the
\* section, if the page has it; and a reload shows the page and the section again, unless
\* a hash names no section (of the address, or of the state, whose subpage links then do
\* nothing) or the last transition failed for such a hash.
ViewAgrees ==
    Settled =>
      /\ selected = current.page
      /\ HasSection(current) => subpage = Subpage(current)
      /\ Queryable(current) => location.page = selected
      /\ HasSection(current) /\ HasSection(location) => subpage = Subpage(location)

\* The tabs show the page when the transitions are over, unless the user has selected
\* a tab without going there, or went back to the page a transition was leaving:
\* navigate() sets selectedPage only for another page.
TabsAgree == Settled => selectedPage = selected \/ astray

\* The tabs are enabled again when no page transition is under way, unless one failed.
TabsEnabled ==
    firstRender = "over" /\ NoPageTransition => pageTransitionDone \/ failed

\* After any page transition that did not fail, the page that is shown has the focus,
\* unless it has no template: then the page that was left is asked to take it.
FocusFollows ==
    firstRender = "over" /\ NoPageTransition /\ ~failed /\ selected \in Template =>
      focused \in {selected, None}
=============================================================================
