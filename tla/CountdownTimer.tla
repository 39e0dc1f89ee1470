--------------------------- MODULE CountdownTimer ---------------------------
(***************************************************************************)
(* The countdown-timer element (elements/countdown-timer/)                 *)
(*                                                                         *)
(* Without show-current-time it counts down to a date on one canvas.  With *)
(* it, as the home page uses it, there are two: the clock is shown while   *)
(* the mouse is over the element, the logo otherwise, and each has a Core  *)
(* that draws in a loop of animation frames.  The loops are interrupted by *)
(* the visibility of the document, by the mouse, by scrolling (on phones)  *)
(* and by the page being left.  The two Cores are the values of a function *)
(* of records, and their methods are operators on such a record.           *)
(*                                                                         *)
(* A canvas shows eight bands in the shape of a digit or an icon, two for  *)
(* each column; colours, sizes and the animation of a change are left out. *)
(***************************************************************************)
EXTENDS Integers, Sequences

CONSTANTS
    Minute, Hour, Day,   \* in seconds: 60, 3600, 86400
    Base,                \* of the digits: 10
    Target,              \* date, in seconds: the end of the countdown
    Icon, Invalid, None,
    Start,               \* times at which the element may be attached
    Times,               \* bound: the seconds the clock goes through
    MaxUser              \* bound: hides, moves of the mouse, scrolls and resizes

ASSUME TimerAssumption ==
    /\ {Minute, Hour, Day, Base, Target} \subseteq Nat \ {0}
    /\ Hour % Minute = 0 /\ Day % Hour = 0
    /\ {Minute, Hour \div Minute, Day \div Hour} \subseteq 0..(Base * Base)
    /\ Icon # Invalid /\ {Icon, Invalid} \cap 0..(Base - 1) = {}
    /\ None \notin {"created", "running", "started", "open", "finished", "enter", "leave"}
    /\ Start \subseteq Times
    /\ Times \subseteq Nat
    /\ MaxUser \in Nat

VARIABLES
    now,        \* the clock of the browser
    cores,      \* countdownController ("clock") and logoController ("logo")
    width,      \* of the element: below, at or above MOBILE_MAX_BREAKPOINT
    isMobile,
    twofold,    \* showCurrentTime of the element
    attached,
    started,    \* start() has been called
    hidden,     \* document.hidden
    over,       \* the mouse is over the element
    fade,       \* the tweens that the last move of the mouse but one began,
    fresh,      \*   and those that TweenMax has not rendered yet
    scrolling,  \* the debounced start() of _onPageScroll
    used,       \* how much of MaxUser has been used
    overtaken,  \* history: a move came in the last frame of the former fade
    revived     \* history: start() was called after the page was left

element == <<width, isMobile, twofold, attached, started>>
mouse == <<over, fade, fresh>>
history == <<overtaken, revived>>
vars == <<now, cores, element, hidden, mouse, scrolling, used, history>>

Band == 0..7
Digit == 0..(Base - 1)
Shape == Digit \cup {Icon, Invalid}

Core ==
    [showCurrentTime : BOOLEAN, isPlaying : BOOLEAN, frames : Nat,
     intro : {None, "created", "running", "started", "open", "finished"},
     firstRun : BOOLEAN, isCountdownComplete : BOOLEAN, randomizing : BOOLEAN,
     random : {{}, {6, 7}, Band}, needsCanvasReset : BOOLEAN,
     format : {"stacked", "horizontal"}, lastNumbers : Seq(Int),
     shape : [Band -> Shape], oldInvalid : SUBSET Band,
     threw : BOOLEAN, drawn : Nat, pauses : Nat, stale : SUBSET Band]   \* history

TypeOK ==
    /\ now \in Times
    /\ DOMAIN cores = IF twofold THEN {"clock", "logo"} ELSE {"clock"}
    /\ \A c \in DOMAIN cores :
         LET numbers == cores[c].lastNumbers IN
         /\ cores[c] \in Core
         /\ numbers[Len(numbers)] \in -Minute..(Minute - 1)
         /\ numbers[Len(numbers) - 1] \in -(Hour \div Minute)..((Hour \div Minute) - 1)
         /\ numbers[Len(numbers) - 2] \in -(Day \div Hour)..((Day \div Hour) - 1)
    /\ width \in {"below", "at", "above"}
    /\ {isMobile, twofold, attached, started, hidden, over, scrolling,
        overtaken, revived} \subseteq BOOLEAN
    /\ {fade, fresh} \subseteq {"enter", "leave", None}
    /\ used \in 0..MaxUser

-----------------------------------------------------------------------------
(* The columns, and the shapes that spell them.                            *)

\* Mutant: the difference is not reduced by the hours.
UnreducedColumnValues(current, n) ==
    IF current THEN <<(n % Day) \div Hour, (n % Hour) \div Minute, n % Minute>>
    ELSE IF n < Target
    THEN LET left == Target - n - 1
         IN  <<left \div Day, (left % Day) \div Hour, (left % Day) \div Minute, left % Minute>>
    ELSE LET past == n - Target
         IN  <<-1 - (past \div Day), -1 - ((past % Day) \div Hour),
               -1 - ((past % Hour) \div Minute), -1 - (past % Minute)>>

\* A time is in the middle of a second, so of the difference to the target there
\* is a part of a second less, or more if it is past: floor() rounds away from 0.
NextColumnValues(current, n) ==
    IF current THEN <<(n % Day) \div Hour, (n % Hour) \div Minute, n % Minute>>
    ELSE IF n < Target
    THEN LET left == Target - n - 1
         IN  <<left \div Day, (left % Day) \div Hour, (left % Hour) \div Minute, left % Minute>>
    ELSE LET past == n - Target
         IN  <<-1 - (past \div Day), -1 - ((past % Day) \div Hour),
               -1 - ((past % Hour) \div Minute), -1 - (past % Minute)>>

\* digits: there are paths for the ten digits and the icons.  The remainder of a
\* negative number is negative, or 0.
Path(d) == IF d \in Digit THEN d ELSE Invalid
Column(b) == b \div 2 + 1
Spell(numbers, b) ==
    LET n == numbers[Column(b)]
    IN  IF b % 2 = 0 THEN Path(n \div Base)
        ELSE IF n < 0 THEN Path(-((-n) % Base))
        ELSE Path(n % Base)

\* createBands: negative digits become 0, and no seconds are icons.
CreateBands(numbers) ==
    [b \in Band |->
       IF b \in {6, 7} /\ (Len(numbers) = 3 \/ numbers[Len(numbers)] = 0) THEN Icon
       ELSE IF numbers[Column(b)] < 0 THEN 0
       ELSE Spell(numbers, b)]

\* getFormat, for the width when the canvas was reset last.
GetFormat(w) == IF w = "below" THEN "stacked" ELSE "horizontal"
ResetCanvas(k) == [k EXCEPT !.format = GetFormat(width), !.needsCanvasReset = FALSE]

-----------------------------------------------------------------------------
(* Core.                                                                   *)

\* changeShape of the bands in new.  Of oldShape, only whether there is a path for it
\* matters.
ChangeShape(k, new) ==
    [k EXCEPT !.oldInvalid = {b \in Band : IF b \in DOMAIN new THEN k.shape[b] = Invalid
                                                                ELSE b \in @},
              !.shape = [b \in Band |-> IF b \in DOMAIN new THEN new[b] ELSE @[b]],
              !.stale = @ \ DOMAIN new]

\* randomizeBands: an interval, which is never cleared.
RandomizeBands(k, bands) ==
    [ChangeShape(k, [b \in bands |-> Icon]) EXCEPT !.random = bands]

StartRandomizing(k) == [RandomizeBands(k, Band) EXCEPT !.randomizing = TRUE]

\* renderFlat, and the reset of the band of the logo.
RenderFlat(k, next) ==
    LET d == Spell(next, 5)
    IN  [k EXCEPT !.shape[5] = d, !.firstRun = FALSE, !.stale = @ \ {5},
                  !.oldInvalid = IF d = Invalid THEN @ \cup {5} ELSE @ \ {5}]

\* Mutant: the first columns are compared instead of each column.
ChangeIfDaysDiffer(k, next) ==
    LET bands == {b \in Band : /\ Column(b) <= Len(next)
                               /\ k.firstRun \/ k.lastNumbers[1] # next[1]}
    IN  [ChangeShape(k, [b \in bands |-> Spell(next, b)]) EXCEPT
           !.lastNumbers = next, !.firstRun = FALSE]

\* The bands of the columns that differ.
ChangeNumbers(k, next) ==
    LET bands == {b \in Band :
                    /\ Column(b) <= Len(next)
                    /\ k.firstRun \/ k.lastNumbers[Column(b)] # next[Column(b)]}
    IN  [ChangeShape(k, [b \in bands |-> Spell(next, b)]) EXCEPT
           !.lastNumbers = next, !.firstRun = FALSE]

\* checkTime.  The clock is read twice.
CheckTime(k, first, second) ==
    LET ends == ~k.showCurrentTime /\ (k.isCountdownComplete \/ first >= Target)
        next == NextColumnValues(k.showCurrentTime, second)
        k1 == IF ends /\ ~k.isCountdownComplete
              THEN [ResetCanvas(k) EXCEPT !.isCountdownComplete = TRUE] ELSE k
        k2 == IF k1.firstRun /\ k1.showCurrentTime THEN RandomizeBands(k1, {6, 7}) ELSE k1
        k3 == IF isMobile /\ k2.firstRun THEN RenderFlat(k2, next) ELSE k2
    IN  IF k3.randomizing THEN k3
        ELSE IF ends THEN StartRandomizing(k3)
        ELSE ChangeNumbers(k3, next)

\* update() of a band throws when there is no path for one of its shapes.
Throws(k) == k.oldInvalid # {} \/ \E b \in Band : k.shape[b] = Invalid

\* _onIntroFrame.  The circle may be open in this frame; the band below it is
\* then drawn as the O of the logo.
OnIntroFrame(k, open) ==
    LET o == IF k.format = "horizontal" THEN 1 ELSE 5 IN
    CASE k.intro = "created" -> [k EXCEPT !.intro = "running"]
      [] k.intro = "started" /\ open ->
           [k EXCEPT !.intro = "open", !.shape[o] = 0, !.oldInvalid = @ \ {o},
                     !.stale = @ \cup {o}]
      [] k.intro = "finished" -> [k EXCEPT !.intro = None]
      [] OTHER -> k

\* onFrame, for the two readings of the clock; open as in OnIntroFrame.
OnFrame(k, first, second, open) ==
    LET reset == IF k.needsCanvasReset THEN ResetCanvas(k) ELSE k
        checked == [CheckTime(reset, first, second) EXCEPT !.drawn = second] IN
    IF ~k.isPlaying THEN k
    ELSE IF k.intro # None THEN [OnIntroFrame(reset, open) EXCEPT !.frames = @ + 1]
    ELSE IF Throws(checked) THEN [checked EXCEPT !.threw = TRUE]
    ELSE [checked EXCEPT !.frames = @ + 1, !.threw = FALSE]

\* Mutant: play() of a Core that plays begins another loop.
PlayAgain(k) == OnFrame([k EXCEPT !.isPlaying = TRUE], now, now, FALSE)

Play(k) ==
    IF k.isPlaying THEN k ELSE OnFrame([k EXCEPT !.isPlaying = TRUE], now, now, FALSE)

Pause(k) == IF k.isPlaying THEN [k EXCEPT !.isPlaying = FALSE, !.pauses = @ + 1] ELSE k

\* The constructor and setUp.
SetUp(current, intro) ==
    LET numbers == NextColumnValues(current, now)
        bands == CreateBands(numbers) IN
    [showCurrentTime |-> current, isPlaying |-> FALSE, frames |-> 0,
     intro |-> intro, firstRun |-> TRUE, isCountdownComplete |-> now >= Target,
     randomizing |-> FALSE, random |-> {}, needsCanvasReset |-> TRUE,
     format |-> GetFormat(width), lastNumbers |-> numbers,
     shape |-> bands, oldInvalid |-> {b \in Band : bands[b] = Invalid},
     threw |-> FALSE, drawn |-> now, pauses |-> 0, stale |-> {}]

-----------------------------------------------------------------------------
(* The element and its page.                                               *)

\* attached().  The intro runs once in the life of the app (_skipIntro), but the
\* one of the logo always, and it has no end.
Init ==
    /\ now \in Start
    /\ width \in {"below", "at", "above"}
    /\ isMobile = (width # "above")
    /\ twofold \in BOOLEAN
    /\ \E intro \in (IF twofold THEN {None} ELSE {None, "created"}) :
         cores = [c \in IF twofold THEN {"clock", "logo"} ELSE {"clock"} |->
                    IF c = "clock" THEN SetUp(twofold, intro) ELSE SetUp(FALSE, "created")]
    /\ attached = TRUE
    /\ started = FALSE
    /\ hidden = FALSE
    /\ over = FALSE /\ fade = None /\ fresh = None
    /\ scrolling = FALSE
    /\ used = 0
    /\ overtaken = FALSE /\ revived = FALSE

User ==
    /\ used < MaxUser
    /\ used' = used + 1

PlayAll == cores' = [c \in DOMAIN cores |-> Play(cores[c])]
PauseAll == cores' = [c \in DOMAIN cores |-> Pause(cores[c])]

Pass ==
    /\ now + 1 \in Times
    /\ now' = now + 1
    /\ UNCHANGED <<cores, element, hidden, mouse, scrolling, used, history>>

\* The browser calls onFrame; a second may begin while it runs.
Frame(c) ==
    /\ ~hidden
    /\ cores[c].frames > 0
    /\ now' \in {now, now + 1} \cap Times
    /\ \E open \in BOOLEAN :
         cores' = [cores EXCEPT ![c] =
                     OnFrame([cores[c] EXCEPT !.frames = @ - 1], now, now', open)]
    /\ UNCHANGED <<element, hidden, mouse, scrolling, used, history>>

\* The timers of the intro: INTRO_PAUSE, then INTRO_LENGTH for a Core that has it.
IntroTimer(c) ==
    /\ \/ /\ cores[c].intro = "running"
          /\ cores' = [cores EXCEPT ![c].intro = "started"]
       \/ /\ cores[c].intro = "open" /\ ~twofold
          /\ cores' = [cores EXCEPT ![c].intro = "finished"]
    /\ UNCHANGED <<now, element, hidden, mouse, scrolling, used, history>>

\* The interval of randomizeBands.
RandomInterval(c, b) ==
    /\ b \in cores[c].random
    /\ cores' = [cores EXCEPT ![c] = ChangeShape(@, [x \in {b} |-> Icon])]
    /\ UNCHANGED <<now, element, hidden, mouse, scrolling, used, history>>

\* onPageTransitionDone, or startCountdown of io-live.
PageTransitionDone ==
    /\ attached
    /\ started' = TRUE
    /\ overtaken' = FALSE
    /\ PlayAll
    /\ UNCHANGED <<now, width, isMobile, twofold, attached, hidden, mouse, scrolling,
                   used, revived>>

\* onVisibilityChange of each Core.
Hide ==
    /\ ~hidden
    /\ User
    /\ hidden' = TRUE
    /\ IF attached THEN PauseAll ELSE UNCHANGED cores
    /\ UNCHANGED <<now, element, mouse, scrolling, history>>

Show ==
    /\ hidden
    /\ hidden' = FALSE
    /\ IF attached THEN PlayAll /\ overtaken' = FALSE ELSE UNCHANGED <<cores, overtaken>>
    /\ UNCHANGED <<now, element, mouse, scrolling, used, revived>>

Resize ==
    /\ User
    /\ \E w \in {"below", "at", "above"} \ {width} : width' = w
    /\ cores' = IF attached
                THEN [c \in DOMAIN cores |-> [cores[c] EXCEPT !.needsCanvasReset = TRUE]]
                ELSE cores
    /\ UNCHANGED <<now, isMobile, twofold, attached, started, hidden, mouse, scrolling, history>>

\* onMouseEnter and onMouseLeave.
Move(enters) ==
    LET shown == IF enters THEN "clock" ELSE "logo" IN
    /\ twofold /\ attached /\ ~hidden
    /\ over = ~enters
    /\ fresh = None
    /\ User
    /\ over' = enters
    /\ cores' = [cores EXCEPT ![shown] = Play(@)]
    /\ fresh' = IF enters THEN "enter" ELSE "leave"
    /\ overtaken' = FALSE
    /\ UNCHANGED <<now, element, hidden, fade, scrolling, revived>>

\* A tick of TweenMax: the tweens under way may end, and pause the canvas they
\* have hidden; then those of the last move begin, and overwrite the others.
Tick ==
    /\ ~hidden
    /\ {fade, fresh} # {None}
    /\ \E ends \in {FALSE, fade # None} :
         /\ cores' = CASE ends /\ fade = "enter" -> [cores EXCEPT !["logo"] = Pause(@)]
                       [] ends /\ fade = "leave" -> [cores EXCEPT !["clock"] = Pause(@)]
                       [] OTHER -> cores
         /\ fade' = IF fresh # None THEN fresh ELSE IF ends THEN None ELSE fade
         /\ overtaken' = (overtaken \/ (ends /\ fresh # None))
    /\ fresh' = None
    /\ UNCHANGED <<now, over, element, hidden, scrolling, used, revived>>

\* _onPageScroll of the home page, on a phone.
PageScroll ==
    /\ twofold /\ attached /\ ~hidden
    /\ User
    /\ PauseAll
    /\ scrolling' = TRUE
    /\ UNCHANGED <<now, element, hidden, mouse, history>>

\* Its debounced start(), 250 ms after the last scroll: frames may have passed in
\* between, but need not, since a hidden document or a busy one gets none.  The page
\* may have been left.
EnableCountdown ==
    /\ scrolling
    /\ scrolling' = FALSE
    /\ started' = TRUE
    /\ overtaken' = FALSE
    /\ revived' = ~attached
    /\ PlayAll
    /\ UNCHANGED <<now, width, isMobile, twofold, attached, hidden, mouse, used>>

\* Mutant: only the countdownController is paused.
DetachClock ==
    /\ attached
    /\ attached' = FALSE
    /\ cores' = [cores EXCEPT !["clock"] = Pause(@)]
    /\ UNCHANGED <<now, width, isMobile, twofold, started, hidden, mouse, scrolling,
                   used, history>>

\* detached(), which removes the listeners.
Detach ==
    /\ attached
    /\ attached' = FALSE
    /\ PauseAll
    /\ UNCHANGED <<now, width, isMobile, twofold, started, hidden, mouse, scrolling,
                   used, history>>

Next ==
    \/ Pass
    \/ \E c \in DOMAIN cores : Frame(c) \/ IntroTimer(c) \/ \E b \in Band : RandomInterval(c, b)
    \/ PageTransitionDone
    \/ Hide
    \/ Show
    \/ Resize
    \/ \E enters \in BOOLEAN : Move(enters)
    \/ Tick
    \/ PageScroll
    \/ EnableCountdown
    \/ Detach

Spec == Init /\ [][Next]_vars

-----------------------------------------------------------------------------
(* Properties.                                                             *)

Clock == cores["clock"]
Shown == IF twofold /\ ~over THEN "logo" ELSE "clock"

\* The columns that are compared from frame to frame never leave a band behind:
\* after a frame of the clock the bands spell the time of that frame, and the
\* icons move only after the end of the countdown.  There are two exceptions, both
\* on mobile widths: the icons of a countdown that was set up in a full minute
\* stay until the seconds change, and so does the O of an intro that was drawn in
\* the horizontal format, because only the band of the stacked format is reset.
ShowsTheTime ==
    LET spelled == NextColumnValues(Clock.showCurrentTime, Clock.drawn) IN
    /\ Clock.randomizing => ~twofold /\ now >= Target
    /\ Clock.threw => /\ ~twofold
                      /\ \/ Clock.drawn >= Target
                         \/ Clock.shape[0] = Invalid \/ 0 \in Clock.oldInvalid
    /\ (~Clock.firstRun /\ ~Clock.randomizing) =>
         \A b \in Band :
            \/ Clock.shape[b] = (IF Column(b) > Len(spelled) THEN Icon ELSE Spell(spelled, b))
            \/ isMobile /\ b \in {6, 7} /\ Clock.shape[b] = Icon /\ spelled[Len(spelled)] = 0
            \/ isMobile /\ b \in Clock.stale \ {5}

\* Loops: however start(), visibility, mouse and scrolls interleave, a Core draws in
\* one loop of frames, and each time it was paused adds at most one: the frame that
\* was asked for before the pause is not cancelled, and goes on if play() comes first.
OneLoop == \A c \in DOMAIN cores : cores[c].frames <= 1 + cores[c].pauses

\* Once the timer is started, whoever looks at it sees the canvas that is shown
\* being drawn, over hidden documents, fades that overlap and scrolls, and nothing
\* draws on when the page is left.  The exceptions: the mouse moved in the frame that
\* ended the former fade, which then paused the canvas that is shown again; the
\* countdown has a digit that does not exist (a hundred days to go, or the
\* target passed between the two readings of the clock); and the page was left
\* within the 250 ms after a scroll.
DrawnWhileShown ==
    /\ (attached /\ started /\ ~hidden /\ ~scrolling /\ fade = None /\ fresh = None) =>
         \/ cores[Shown].isPlaying /\ cores[Shown].frames > 0
         \/ overtaken
         \/ Clock.threw
    /\ ~attached => revived \/ \A c \in DOMAIN cores : ~cores[c].isPlaying
=============================================================================
