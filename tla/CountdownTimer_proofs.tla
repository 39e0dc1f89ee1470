----------------------- MODULE CountdownTimer_proofs -----------------------
(***************************************************************************)
(* Proofs about CountdownTimer, for any units of time with two digits, any *)
(* date, clock and actions of the user.                                    *)
(***************************************************************************)
EXTENDS CountdownTimer, TLAPS

-----------------------------------------------------------------------------
(* Numbers and digits.                                                     *)

LEMMA DivFacts ==
    ASSUME NEW n \in Nat, NEW m \in Nat \ {0}
    PROVE  n % m \in 0..(m - 1) /\ n \div m \in Nat
OBVIOUS

\* What is left of a unit has fewer parts than the unit.
LEMMA PartFacts ==
    ASSUME NEW n \in Nat, NEW m \in Nat \ {0}, NEW u \in Nat \ {0}, u % m = 0
    PROVE  (n % u) \div m \in 0..((u \div m) - 1) /\ u \div m \in Nat \ {0}
<1>1. n % u \in 0..(u - 1) /\ u \div m \in Nat /\ (n % u) \div m \in Nat
  BY DivFacts
<1>2. (n % u) \div m < u \div m
  BY <1>1
<1> QED BY <1>1, <1>2

\* A number below the square of the base has two digits.
LEMMA DigitFacts ==
    ASSUME NEW n \in Nat
    PROVE  n % Base \in Digit /\ (n < Base * Base => n \div Base \in Digit)
<1>1. Base \in Nat \ {0}
  BY TimerAssumption
<1>2. n % Base \in 0..(Base - 1) /\ n \div Base \in Nat
  BY <1>1, DivFacts
<1>3. n < Base * Base => n \div Base < Base
  BY <1>1
<1> QED BY <1>1, <1>2, <1>3 DEF Digit

LEMMA ShapeFacts ==
    /\ Icon \in Shape /\ 0 \in Shape /\ Icon # Invalid /\ Invalid \notin Digit /\ 0 \in Digit
    /\ \A d : Path(d) \in Shape /\ (d \in Digit => Path(d) = d)
    /\ \A numbers, b : Spell(numbers, b) \in Shape
<1>1. Icon \in Shape /\ 0 \in Shape /\ Icon # Invalid /\ Invalid \notin Digit /\ 0 \in Digit
  BY TimerAssumption DEF Shape, Digit
<1>2. \A d : Path(d) \in Shape /\ (d \in Digit => Path(d) = d)
  BY DEF Path, Shape
<1>3. \A numbers, b : Spell(numbers, b) \in Shape
  BY <1>2 DEF Spell
<1> QED BY <1>1, <1>2, <1>3

\* The ranges of the last columns, as TypeOK has them.
Ranged(numbers) ==
    /\ numbers[Len(numbers)] \in -Minute..(Minute - 1)
    /\ numbers[Len(numbers) - 1] \in -(Hour \div Minute)..((Hour \div Minute) - 1)
    /\ numbers[Len(numbers) - 2] \in -(Day \div Hour)..((Day \div Hour) - 1)

LEMMA NumbersFacts ==
    ASSUME NEW current \in BOOLEAN, NEW n \in Nat, NEW next, next = NextColumnValues(current, n)
    PROVE  /\ next \in Seq(Int) /\ Len(next) = (IF current THEN 3 ELSE 4) /\ Ranged(next)
           /\ current \/ n < Target => \A i \in 1..Len(next) :
                next[i] \in Nat /\ (i > 1 \/ current => next[i] < Base * Base)
           /\ ~(current \/ n < Target) => \A i \in 1..Len(next) : next[i] < 0
<1>1. /\ Minute \in Nat \ {0} /\ Hour \in Nat \ {0} /\ Day \in Nat \ {0} /\ Base \in Nat \ {0}
      /\ Target \in Nat /\ Base * Base \in Nat
      /\ Hour % Minute = 0 /\ Day % Hour = 0
      /\ Minute <= Base * Base /\ Hour \div Minute <= Base * Base /\ Day \div Hour <= Base * Base
  BY TimerAssumption
<1>2. PICK minutes \in Nat \ {0}, hours \in Nat \ {0}, square \in Nat :
        /\ minutes = Hour \div Minute /\ hours = Day \div Hour /\ square = Base * Base
        /\ Minute <= square /\ minutes <= square /\ hours <= square
  BY <1>1, PartFacts
<1>3. \A t \in Nat : /\ (t % Day) \div Hour \in 0..(hours - 1)
                     /\ (t % Hour) \div Minute \in 0..(minutes - 1)
                     /\ t % Minute \in 0..(Minute - 1) /\ t \div Day \in Nat
  BY <1>1, <1>2, PartFacts, DivFacts
<1>4. CASE current
  <2>1. PICK h \in 0..(hours - 1), m \in 0..(minutes - 1), s \in 0..(Minute - 1) :
          next = <<h, m, s>>
    BY <1>3, <1>4 DEF NextColumnValues
  <2>2. next \in Seq(Int) /\ Len(next) = 3 /\ next[1] = h /\ next[2] = m /\ next[3] = s
    BY <2>1
  <2>3. Ranged(next)
    BY <1>1, <1>2, <2>2 DEF Ranged
  <2>4. \A i \in 1..Len(next) : next[i] \in Nat /\ next[i] < square
    BY <1>1, <1>2, <2>2
  <2> QED BY <1>2, <1>4, <2>2, <2>3, <2>4
<1>5. CASE ~current /\ n < Target
  <2>1. Target - n - 1 \in Nat
    BY <1>1, <1>5
  <2>2. PICK d \in Nat, h \in 0..(hours - 1), m \in 0..(minutes - 1), s \in 0..(Minute - 1) :
          next = <<d, h, m, s>>
    BY <1>3, <1>5, <2>1 DEF NextColumnValues
  <2>3. /\ next \in Seq(Int) /\ Len(next) = 4
        /\ next[1] = d /\ next[2] = h /\ next[3] = m /\ next[4] = s
    BY <2>2
  <2>4. Ranged(next)
    BY <1>1, <1>2, <2>3 DEF Ranged
  <2>5. \A i \in 1..Len(next) : next[i] \in Nat /\ (i > 1 => next[i] < square)
    BY <1>1, <1>2, <2>3
  <2> QED BY <1>2, <1>5, <2>3, <2>4, <2>5
<1>6. CASE ~current /\ ~(n < Target)
  <2>1. n - Target \in Nat
    BY <1>1, <1>6
  <2>2. PICK d \in Nat, h \in 0..(hours - 1), m \in 0..(minutes - 1), s \in 0..(Minute - 1) :
          next = <<-1 - d, -1 - h, -1 - m, -1 - s>>
    BY <1>3, <1>6, <2>1 DEF NextColumnValues
  <2>3. /\ next \in Seq(Int) /\ Len(next) = 4
        /\ next[1] = -1 - d /\ next[2] = -1 - h /\ next[3] = -1 - m /\ next[4] = -1 - s
    BY <2>2
  <2>4. Ranged(next)
    BY <1>1, <1>2, <2>3 DEF Ranged
  <2>5. \A i \in 1..Len(next) : next[i] < 0
    BY <1>1, <1>2, <2>3
  <2> QED BY <1>6, <2>3, <2>4, <2>5
<1> QED BY <1>4, <1>5, <1>6

-----------------------------------------------------------------------------
(* The methods of Core.                                                    *)

\* The fields that have to do with the loop of frames.
SameLoop(k, r) ==
    /\ r.isPlaying = k.isPlaying /\ r.frames = k.frames /\ r.pauses = k.pauses
    /\ r.threw = k.threw /\ r.intro = k.intro /\ r.showCurrentTime = k.showCurrentTime

\* A Core that asks for another frame.
LEMMA FramesFact ==
    ASSUME NEW k \in Core, NEW n \in Nat
    PROVE  [k EXCEPT !.frames = n] \in Core
BY DEF Core

LEMMA ChangeShapeFacts ==
    ASSUME NEW k \in Core, NEW new, DOMAIN new \subseteq Band, \A b \in DOMAIN new : new[b] \in Shape,
           NEW r, r = ChangeShape(k, new)
    PROVE  /\ r \in Core /\ SameLoop(k, r)
           /\ r.firstRun = k.firstRun /\ r.isCountdownComplete = k.isCountdownComplete
           /\ r.randomizing = k.randomizing /\ r.random = k.random
           /\ r.lastNumbers = k.lastNumbers /\ r.drawn = k.drawn
           /\ r.stale = k.stale \ DOMAIN new
           /\ \A b \in Band :
                /\ r.shape[b] = IF b \in DOMAIN new THEN new[b] ELSE k.shape[b]
                /\ b \in r.oldInvalid <=>
                     IF b \in DOMAIN new THEN k.shape[b] = Invalid ELSE b \in k.oldInvalid
BY DEF ChangeShape, Core, SameLoop

\* The fields that say what is drawn.
SameBands(k, r) ==
    /\ r.shape = k.shape /\ r.oldInvalid = k.oldInvalid /\ r.stale = k.stale
    /\ r.lastNumbers = k.lastNumbers /\ r.drawn = k.drawn /\ r.random = k.random
    /\ r.randomizing = k.randomizing /\ r.firstRun = k.firstRun

LEMMA ResetFacts ==
    ASSUME NEW k \in Core, NEW r, r = ResetCanvas(k)
    PROVE  /\ r \in Core /\ SameLoop(k, r) /\ SameBands(k, r)
           /\ r.isCountdownComplete = k.isCountdownComplete
BY DEF ResetCanvas, GetFormat, Core, SameLoop, SameBands

LEMMA RandomizeFacts ==
    ASSUME NEW k \in Core, NEW bands \in {{6, 7}, Band}, NEW r, r = RandomizeBands(k, bands)
    PROVE  /\ r \in Core /\ SameLoop(k, r) /\ r.random = bands
           /\ r.firstRun = k.firstRun /\ r.isCountdownComplete = k.isCountdownComplete
           /\ r.randomizing = k.randomizing /\ r.lastNumbers = k.lastNumbers /\ r.drawn = k.drawn
           /\ r.stale = k.stale \ bands
           /\ \A b \in Band : /\ r.shape[b] = IF b \in bands THEN Icon ELSE k.shape[b]
                              /\ b \in r.oldInvalid <=>
                                   IF b \in bands THEN k.shape[b] = Invalid ELSE b \in k.oldInvalid
<1>1. PICK new : new = [b \in bands |-> Icon]
  OBVIOUS
<1>2. /\ DOMAIN new = bands /\ bands \in SUBSET Band
      /\ \A b \in bands : new[b] = Icon /\ new[b] \in Shape
  BY <1>1, ShapeFacts DEF Band
<1>3. PICK q : q = ChangeShape(k, new)
  OBVIOUS
<1>4. /\ q \in Core /\ SameLoop(k, q)
      /\ q.firstRun = k.firstRun /\ q.isCountdownComplete = k.isCountdownComplete
      /\ q.randomizing = k.randomizing /\ q.random = k.random
      /\ q.lastNumbers = k.lastNumbers /\ q.drawn = k.drawn
      /\ q.stale = k.stale \ DOMAIN new
      /\ \A b \in Band :
           /\ q.shape[b] = IF b \in DOMAIN new THEN new[b] ELSE k.shape[b]
           /\ b \in q.oldInvalid <=>
                IF b \in DOMAIN new THEN k.shape[b] = Invalid ELSE b \in k.oldInvalid
  <2>1. DOMAIN new \subseteq Band /\ \A b \in DOMAIN new : new[b] \in Shape
    BY <1>2
  <2> QED BY <1>3, <2>1, ChangeShapeFacts
<1>5. r = [q EXCEPT !.random = bands]
  BY <1>1, <1>3 DEF RandomizeBands
<1>6. /\ r \in Core /\ SameLoop(q, r) /\ r.random = bands
      /\ r.firstRun = q.firstRun /\ r.isCountdownComplete = q.isCountdownComplete
      /\ r.randomizing = q.randomizing /\ r.lastNumbers = q.lastNumbers /\ r.drawn = q.drawn
      /\ r.stale = q.stale /\ r.shape = q.shape /\ r.oldInvalid = q.oldInvalid
  BY <1>4, <1>5 DEF Core, SameLoop
<1> QED BY <1>2, <1>4, <1>6 DEF SameLoop

LEMMA StartRandomizingFacts ==
    ASSUME NEW k \in Core, NEW r, r = StartRandomizing(k)
    PROVE  /\ r \in Core /\ SameLoop(k, r) /\ r.random = Band /\ r.randomizing = TRUE
           /\ r.lastNumbers = k.lastNumbers /\ r.drawn = k.drawn /\ r.stale \subseteq k.stale
           /\ r.isCountdownComplete = k.isCountdownComplete
<1>1. PICK q : q = RandomizeBands(k, Band)
  OBVIOUS
<1>2. /\ q \in Core /\ SameLoop(k, q) /\ q.random = Band
      /\ q.lastNumbers = k.lastNumbers /\ q.drawn = k.drawn /\ q.stale \subseteq k.stale
      /\ q.isCountdownComplete = k.isCountdownComplete
  BY <1>1, RandomizeFacts
<1>3. r = [q EXCEPT !.randomizing = TRUE]
  BY <1>1 DEF StartRandomizing
<1>4. r \in Core
  BY <1>2, <1>3 DEF Core
<1>5. /\ SameLoop(q, r) /\ r.random = q.random /\ r.randomizing = TRUE
      /\ r.lastNumbers = q.lastNumbers /\ r.drawn = q.drawn /\ r.stale = q.stale
      /\ r.isCountdownComplete = q.isCountdownComplete
  BY <1>2, <1>3 DEF Core, SameLoop
<1> QED BY <1>2, <1>4, <1>5 DEF SameLoop

Flattened(k, next, r) ==
    /\ r \in Core /\ SameLoop(k, r)
    /\ r.firstRun = FALSE /\ r.isCountdownComplete = k.isCountdownComplete
    /\ r.randomizing = k.randomizing /\ r.random = k.random
    /\ r.lastNumbers = k.lastNumbers /\ r.drawn = k.drawn /\ r.stale = k.stale \ {5}
    /\ \A b \in Band : /\ r.shape[b] = IF b = 5 THEN Spell(next, 5) ELSE k.shape[b]
                       /\ b \in r.oldInvalid <=>
                            IF b = 5 THEN Spell(next, 5) = Invalid ELSE b \in k.oldInvalid

LEMMA RenderFlatFacts ==
    ASSUME NEW k \in Core, NEW next, NEW r, r = RenderFlat(k, next)
    PROVE  Flattened(k, next, r)
<1>1. Spell(next, 5) \in Shape /\ 5 \in Band
  BY ShapeFacts DEF Band
<1>2. PICK d \in Shape : d = Spell(next, 5)
  BY <1>1
<1>3. PICK shape : shape = [k.shape EXCEPT ![5] = d]
  OBVIOUS
<1>4. PICK invalid : invalid = IF d = Invalid THEN k.oldInvalid \cup {5} ELSE k.oldInvalid \ {5}
  OBVIOUS
<1>5. k.shape \in [Band -> Shape] /\ k.oldInvalid \subseteq Band /\ k.stale \subseteq Band
  BY DEF Core
<1>6. /\ shape \in [Band -> Shape] /\ \A b \in Band : shape[b] = IF b = 5 THEN d ELSE k.shape[b]
      /\ invalid \subseteq Band
      /\ \A b \in Band : b \in invalid <=> IF b = 5 THEN d = Invalid ELSE b \in k.oldInvalid
  BY <1>1, <1>3, <1>4, <1>5
<1>7. r = [k EXCEPT !.shape = shape, !.firstRun = FALSE, !.stale = @ \ {5}, !.oldInvalid = invalid]
  BY <1>2, <1>3, <1>4 DEF RenderFlat
<1>8. r \in Core
  BY <1>5, <1>6, <1>7 DEF Core
<1>9. /\ SameLoop(k, r)
      /\ r.firstRun = FALSE /\ r.isCountdownComplete = k.isCountdownComplete
      /\ r.randomizing = k.randomizing /\ r.random = k.random
      /\ r.lastNumbers = k.lastNumbers /\ r.drawn = k.drawn /\ r.stale = k.stale \ {5}
      /\ r.shape = shape /\ r.oldInvalid = invalid
  BY <1>7 DEF Core, SameLoop
<1> QED BY <1>2, <1>6, <1>8, <1>9 DEF Flattened

\* The bands that ChangeNumbers draws.
Differ(k, next) ==
    {b \in Band : /\ Column(b) <= Len(next)
                  /\ k.firstRun \/ k.lastNumbers[Column(b)] # next[Column(b)]}

Changed(k, next, r) ==
    /\ r \in Core /\ SameLoop(k, r)
    /\ r.firstRun = FALSE /\ r.isCountdownComplete = k.isCountdownComplete
    /\ r.randomizing = k.randomizing /\ r.random = k.random
    /\ r.lastNumbers = next /\ r.drawn = k.drawn /\ r.stale = k.stale \ Differ(k, next)
    /\ \A b \in Band :
         /\ r.shape[b] = IF b \in Differ(k, next) THEN Spell(next, b) ELSE k.shape[b]
         /\ b \in r.oldInvalid <=>
              IF b \in Differ(k, next) THEN k.shape[b] = Invalid ELSE b \in k.oldInvalid

LEMMA ChangeNumbersFacts ==
    ASSUME NEW k \in Core, NEW next \in Seq(Int), NEW r, r = ChangeNumbers(k, next)
    PROVE  Changed(k, next, r)
<1>1. PICK bands : bands = Differ(k, next)
  OBVIOUS
<1>2. PICK new : new = [b \in bands |-> Spell(next, b)]
  OBVIOUS
<1>3. PICK q : q = ChangeShape(k, new)
  OBVIOUS
<1>7. DOMAIN new = bands /\ bands \subseteq Band /\ \A b \in bands : new[b] = Spell(next, b) /\ new[b] \in Shape
  BY <1>1, <1>2, ShapeFacts DEF Differ
<1>4. /\ q \in Core /\ SameLoop(k, q)
      /\ q.firstRun = k.firstRun /\ q.isCountdownComplete = k.isCountdownComplete
      /\ q.randomizing = k.randomizing /\ q.random = k.random
      /\ q.lastNumbers = k.lastNumbers /\ q.drawn = k.drawn
      /\ q.stale = k.stale \ DOMAIN new
      /\ \A b \in Band :
           /\ q.shape[b] = IF b \in DOMAIN new THEN new[b] ELSE k.shape[b]
           /\ b \in q.oldInvalid <=>
                IF b \in DOMAIN new THEN k.shape[b] = Invalid ELSE b \in k.oldInvalid
  BY <1>3, <1>7, ChangeShapeFacts
<1>5. r = [q EXCEPT !.lastNumbers = next, !.firstRun = FALSE]
  BY <1>1, <1>2, <1>3 DEF ChangeNumbers, Differ
<1>6. /\ r \in Core /\ SameLoop(q, r) /\ r.lastNumbers = next /\ r.firstRun = FALSE
      /\ r.isCountdownComplete = q.isCountdownComplete
      /\ r.randomizing = q.randomizing /\ r.random = q.random /\ r.drawn = q.drawn
      /\ r.stale = q.stale /\ r.shape = q.shape /\ r.oldInvalid = q.oldInvalid
  BY <1>4, <1>5 DEF Core, SameLoop
<1> QED BY <1>1, <1>4, <1>6, <1>7 DEF SameLoop, Changed

-----------------------------------------------------------------------------
(* What a Core draws.                                                      *)

\* The bands spell the numbers, but for what only happens on mobile widths.
Spells(k, numbers, mobile) ==
    \A b \in Band :
        \/ k.shape[b] = (IF Column(b) > Len(numbers) THEN Icon ELSE Spell(numbers, b))
        \/ mobile /\ b \in {6, 7} /\ k.shape[b] = Icon /\ numbers[Len(numbers)] = 0
        \/ mobile /\ b \in k.stale \ {5}

\* Of a Core before its first digits, between two frames, and for good.
FirstDigits(k) ==
    k.firstRun /\ ~k.randomizing =>
        /\ k.random = {}
        /\ \A b \in Band \ k.stale : k.shape[b] = CreateBands(k.lastNumbers)[b]
Settled(k, mobile) ==
    /\ ~k.randomizing => k.lastNumbers = NextColumnValues(k.showCurrentTime, k.drawn)
    /\ ~k.firstRun /\ ~k.randomizing => Spells(k, k.lastNumbers, mobile)
Ending(k, t) ==
    /\ k.randomizing => ~k.showCurrentTime /\ k.drawn >= Target
    /\ k.isCountdownComplete /\ ~k.showCurrentTime => t >= Target
    /\ k.random = {6, 7} => k.showCurrentTime
    /\ k.random = Band => k.randomizing

\* Before the target every digit exists, but that of the hundreds of days.
Valid(k) ==
    k.showCurrentTime \/ k.drawn < Target =>
        \A b \in Band : k.showCurrentTime \/ b # 0 => k.shape[b] # Invalid /\ b \notin k.oldInvalid

DrawnInv(k, t, mobile) ==
    /\ k \in Core /\ Ranged(k.lastNumbers) /\ Len(k.lastNumbers) = (IF k.showCurrentTime THEN 3 ELSE 4)
    /\ k.drawn <= t /\ k.stale \subseteq {1, 5}
    /\ k.intro # None => k.firstRun
    /\ FirstDigits(k) /\ Settled(k, mobile) /\ Ending(k, t) /\ Valid(k)

ThrewInv(k) ==
    k.threw => /\ ~k.showCurrentTime /\ k.intro = None
               /\ k.drawn >= Target \/ k.shape[0] = Invalid \/ 0 \in k.oldInvalid

LEMMA ColumnFacts ==
    /\ \A b \in Band : Column(b) \in 1..4 /\ b \in Nat
    /\ \A b \in Band : /\ Column(b) <= 3 <=> b \notin {6, 7}
                       /\ Column(b) = 1 <=> b \in {0, 1}
                       /\ Column(b) = 4 <=> b \in {6, 7}
    /\ 5 \in Band /\ 1 \in Band /\ 0 \in Band /\ 6 \in Band /\ 7 \in Band
BY DEF Band, Column

\* How the numbers are spelled depends on the number of the column alone.
LEMMA SpellFacts ==
    ASSUME NEW b \in Band, NEW p, NEW q, p[Column(b)] = q[Column(b)]
    PROVE  Spell(p, b) = Spell(q, b)
BY DEF Spell

LEMMA ValidFacts ==
    ASSUME NEW current \in BOOLEAN, NEW n \in Nat, NEW next, next = NextColumnValues(current, n),
           current \/ n < Target, NEW b \in Band, Column(b) <= Len(next), current \/ b # 0
    PROVE  Spell(next, b) # Invalid
<1>0. Len(next) \in {3, 4} /\ Column(b) \in 1..4 /\ (Column(b) = 1 => b \in {0, 1})
  BY ColumnFacts, NumbersFacts
<1>1. Column(b) \in 1..Len(next) /\ b \in 0..7 /\ (Column(b) = 1 => b \in {0, 1})
  BY <1>0 DEF Band
<1>2. PICK v : v = next[Column(b)]
  OBVIOUS
<1>3. v \in Nat /\ (Column(b) > 1 \/ current => v < Base * Base)
  BY <1>1, <1>2, NumbersFacts
<1>4. v % Base \in Digit /\ (v < Base * Base => v \div Base \in Digit)
  BY <1>3, DigitFacts
<1>5. CASE b % 2 = 0
  <2>1. v < Base * Base
    BY <1>1, <1>3, <1>5, ColumnFacts
  <2>2. Spell(next, b) = Path(v \div Base)
    BY <1>2, <1>5 DEF Spell
  <2> QED BY <1>4, <2>1, <2>2, ShapeFacts
<1>6. CASE b % 2 # 0
  <2>1. Spell(next, b) = Path(v % Base)
    BY <1>2, <1>3, <1>6 DEF Spell
  <2> QED BY <1>4, <2>1, ShapeFacts
<1> QED BY <1>5, <1>6

LEMMA CreateFacts ==
    ASSUME NEW current \in BOOLEAN, NEW n \in Nat, NEW numbers, numbers = NextColumnValues(current, n),
           NEW b \in Band
    PROVE  /\ CreateBands(numbers)[b] \in Shape
           /\ (current \/ n < Target) /\ (current \/ b # 0) => CreateBands(numbers)[b] # Invalid
           /\ (current \/ n < Target) =>
                \/ Column(b) <= Len(numbers) /\ CreateBands(numbers)[b] = Spell(numbers, b)
                \/ /\ b \in {6, 7} /\ CreateBands(numbers)[b] = Icon
                   /\ Len(numbers) = 3 \/ numbers[Len(numbers)] = 0
<1>1. Len(numbers) = (IF current THEN 3 ELSE 4) /\ Column(b) \in 1..4
  BY NumbersFacts, ColumnFacts
<1>2. CreateBands(numbers)[b] = IF b \in {6, 7} /\ (Len(numbers) = 3 \/ numbers[Len(numbers)] = 0) THEN Icon
                                ELSE IF numbers[Column(b)] < 0 THEN 0
                                ELSE Spell(numbers, b)
  BY DEF CreateBands
<1>3. CASE b \in {6, 7} /\ (Len(numbers) = 3 \/ numbers[Len(numbers)] = 0)
  BY <1>2, <1>3, ShapeFacts
<1>4. CASE ~(b \in {6, 7} /\ (Len(numbers) = 3 \/ numbers[Len(numbers)] = 0))
  <2>1. Column(b) <= Len(numbers)
    BY <1>1, <1>4, ColumnFacts
  <2>2. current \/ n < Target => numbers[Column(b)] \in Nat
    <3>1. current \/ n < Target => \A i \in 1..Len(numbers) : numbers[i] \in Nat
      BY NumbersFacts
    <3>2. Column(b) \in 1..Len(numbers)
      BY <1>1, <2>1
    <3> QED BY <3>1, <3>2
  <2>3. current \/ n < Target => CreateBands(numbers)[b] = Spell(numbers, b)
    <3>1. current \/ n < Target => ~(numbers[Column(b)] < 0)
      BY <2>2
    <3> QED BY <1>2, <1>4, <3>1
  <2>4. (current \/ n < Target) /\ (current \/ b # 0) => Spell(numbers, b) # Invalid
    BY <2>1, ValidFacts
  <2> QED BY <1>2, <1>4, <2>1, <2>3, <2>4, ShapeFacts
<1> QED BY <1>3, <1>4

\* The passing of time disturbs nothing.
LEMMA Later ==
    ASSUME NEW k, NEW t \in Nat, NEW u \in Nat, t <= u, NEW mobile, DrawnInv(k, t, mobile)
    PROVE  DrawnInv(k, u, mobile)
<1>1. k.drawn \in Nat /\ Target \in Nat
  BY TimerAssumption DEF DrawnInv, Core
<1> QED BY <1>1 DEF DrawnInv, Ending

\* ResetCanvas, and whatever touches only the loop.
LEMMA Undrawn ==
    ASSUME NEW k, NEW t, NEW mobile, DrawnInv(k, t, mobile), NEW r \in Core,
           SameBands(k, r), r.isCountdownComplete = k.isCountdownComplete,
           r.showCurrentTime = k.showCurrentTime, r.intro # None => k.intro # None
    PROVE  DrawnInv(r, t, mobile)
<1>1. FirstDigits(r) /\ Settled(r, mobile) /\ Ending(r, t) /\ Valid(r)
  BY DEF DrawnInv, FirstDigits, Settled, Ending, Valid, Spells, SameBands
<1> QED BY <1>1 DEF DrawnInv, SameBands

\* What ChangeNumbers finds: the bands that it leaves alone are right.
Prepared(k, next, u, mobile) ==
    /\ \A b \in Band \ Differ(k, next) :
         \/ k.shape[b] = (IF Column(b) > Len(next) THEN Icon ELSE Spell(next, b))
         \/ mobile /\ b \in {6, 7} /\ k.shape[b] = Icon /\ next[Len(next)] = 0
         \/ mobile /\ b \in k.stale \ {5}
    /\ k.showCurrentTime \/ u < Target =>
         \A b \in Band : k.showCurrentTime \/ b # 0 => k.shape[b] # Invalid /\ b \notin k.oldInvalid

Reads(current, n, next) == next = NextColumnValues(current, n)

LEMMA ChangedFacts ==
    ASSUME NEW k \in Core, NEW u \in Nat, NEW mobile,
           NEW next, Reads(k.showCurrentTime, u, next), Prepared(k, next, u, mobile),
           ~k.randomizing, k.stale \subseteq {1, 5}, k.intro = None,
           k.isCountdownComplete /\ ~k.showCurrentTime => u >= Target,
           k.random = {6, 7} => k.showCurrentTime, k.random # Band,
           NEW r, r = [ChangeNumbers(k, next) EXCEPT !.drawn = u]
    PROVE  DrawnInv(r, u, mobile) /\ SameLoop(k, r)
<1>1. /\ k.showCurrentTime \in BOOLEAN /\ next \in Seq(Int) /\ Ranged(next)
      /\ Len(next) = IF k.showCurrentTime THEN 3 ELSE 4
  <2>1. k.showCurrentTime \in BOOLEAN
    BY DEF Core
  <2> QED BY <2>1, NumbersFacts DEF Reads
<1>2. PICK c : c = ChangeNumbers(k, next)
  OBVIOUS
<1>0. Changed(k, next, c)
  BY <1>1, <1>2, ChangeNumbersFacts
<1>3. /\ c \in Core /\ SameLoop(k, c)
      /\ c.firstRun = FALSE /\ c.isCountdownComplete = k.isCountdownComplete
      /\ c.randomizing = k.randomizing /\ c.random = k.random
      /\ c.lastNumbers = next /\ c.drawn = k.drawn /\ c.stale = k.stale \ Differ(k, next)
      /\ \A b \in Band :
           /\ c.shape[b] = IF b \in Differ(k, next) THEN Spell(next, b) ELSE k.shape[b]
           /\ b \in c.oldInvalid <=>
                IF b \in Differ(k, next) THEN k.shape[b] = Invalid ELSE b \in k.oldInvalid
  BY <1>0 DEF Changed
<1>4. r = [c EXCEPT !.drawn = u]
  BY <1>2
<1>5. r \in Core
  BY <1>3, <1>4 DEF Core
<1>6. /\ SameLoop(c, r) /\ r.firstRun = c.firstRun /\ r.isCountdownComplete = c.isCountdownComplete
      /\ r.randomizing = c.randomizing /\ r.random = c.random /\ r.lastNumbers = c.lastNumbers
      /\ r.drawn = u /\ r.stale = c.stale /\ r.shape = c.shape /\ r.oldInvalid = c.oldInvalid
  BY <1>3, <1>4 DEF Core, SameLoop
<1>7. SameLoop(k, r)
  BY <1>3, <1>6 DEF SameLoop
<1>8. r.showCurrentTime = k.showCurrentTime /\ r.intro = None
  BY <1>7 DEF SameLoop
<1>9. Spells(r, next, mobile)
  <2> SUFFICES ASSUME NEW b \in Band
      PROVE  \/ r.shape[b] = (IF Column(b) > Len(next) THEN Icon ELSE Spell(next, b))
             \/ mobile /\ b \in {6, 7} /\ r.shape[b] = Icon /\ next[Len(next)] = 0
             \/ mobile /\ b \in r.stale \ {5}
    BY DEF Spells
  <2>1. CASE b \in Differ(k, next)
    <3>1. r.shape[b] = Spell(next, b) /\ Column(b) <= Len(next)
      BY <1>3, <1>6, <2>1 DEF Differ
    <3>2. ~(Column(b) > Len(next))
      BY <1>1, <3>1, ColumnFacts
    <3> QED BY <3>1, <3>2
  <2>2. CASE b \notin Differ(k, next)
    <3>1. r.shape[b] = k.shape[b] /\ (b \in r.stale <=> b \in k.stale)
      BY <1>3, <1>6, <2>2
    <3> QED BY <2>2, <3>1 DEF Prepared
  <2> QED BY <2>1, <2>2
<1>10. Valid(r)
  <2> SUFFICES ASSUME k.showCurrentTime \/ u < Target, NEW b \in Band, k.showCurrentTime \/ b # 0
      PROVE  r.shape[b] # Invalid /\ b \notin r.oldInvalid
    BY <1>6, <1>8 DEF Valid
  <2>1. k.shape[b] # Invalid /\ b \notin k.oldInvalid
    BY DEF Prepared
  <2>2. Column(b) <= Len(next) => Spell(next, b) # Invalid
    BY <1>1, ValidFacts DEF Reads
  <2>3. b \in Differ(k, next) => Column(b) <= Len(next)
    BY DEF Differ
  <2> QED BY <1>3, <1>6, <2>1, <2>2, <2>3
<1>11. FirstDigits(r)
  BY <1>3, <1>6 DEF FirstDigits
<1>12. Settled(r, mobile)
  BY <1>3, <1>6, <1>8, <1>9 DEF Settled, Reads
<1>13. Ending(r, u)
  BY <1>3, <1>6, <1>8 DEF Ending
<1>14. u <= u /\ r.stale \subseteq {1, 5}
  BY <1>3, <1>6
<1> QED BY <1>1, <1>3, <1>5, <1>6, <1>7, <1>8, <1>10, <1>11, <1>12, <1>13, <1>14 DEF DrawnInv

\* A Core that has drawn digits.
LEMMA PreparedLater ==
    ASSUME NEW k, NEW t \in Nat, NEW u \in Nat, t <= u, NEW mobile, DrawnInv(k, t, mobile),
           ~k.randomizing, ~k.firstRun, k.showCurrentTime \/ t < Target,
           NEW next, next = NextColumnValues(k.showCurrentTime, u)
    PROVE  Prepared(k, next, u, mobile)
<1>1. /\ k \in Core /\ k.showCurrentTime \in BOOLEAN /\ k.drawn \in Nat /\ k.drawn <= t
      /\ Target \in Nat
  BY TimerAssumption DEF DrawnInv, Core
<1>2. k.lastNumbers = NextColumnValues(k.showCurrentTime, k.drawn) /\ Spells(k, k.lastNumbers, mobile)
  BY DEF DrawnInv, Settled
<1>3. Len(next) = Len(k.lastNumbers) /\ Len(next) = (IF k.showCurrentTime THEN 3 ELSE 4)
  BY <1>1, <1>2, NumbersFacts
<1>4. ASSUME NEW b \in Band \ Differ(k, next)
      PROVE  \/ k.shape[b] = (IF Column(b) > Len(next) THEN Icon ELSE Spell(next, b))
             \/ mobile /\ b \in {6, 7} /\ k.shape[b] = Icon /\ next[Len(next)] = 0
             \/ mobile /\ b \in k.stale \ {5}
  <2>1. \/ k.shape[b] = (IF Column(b) > Len(next) THEN Icon ELSE Spell(k.lastNumbers, b))
        \/ mobile /\ b \in {6, 7} /\ k.shape[b] = Icon /\ k.lastNumbers[Len(next)] = 0
        \/ mobile /\ b \in k.stale \ {5}
    BY <1>2, <1>3 DEF Spells
  <2>2. Column(b) \in 1..4 /\ (b \in {6, 7} => Column(b) = 4)
    BY ColumnFacts
  <2>3. CASE Column(b) > Len(next)
    <3>1. Len(next) = 3 /\ k.showCurrentTime
      BY <1>3, <2>2, <2>3
    <3>2. ~(mobile /\ b \in {6, 7} /\ k.shape[b] = Icon) \/ k.shape[b] = Icon
      OBVIOUS
    <3> QED BY <2>1, <2>3, <3>2
  <2>4. CASE ~(Column(b) > Len(next))
    <3>1. Column(b) <= Len(next)
      BY <1>3, <2>2, <2>4
    <3>2. k.lastNumbers[Column(b)] = next[Column(b)]
      BY <1>4, <3>1 DEF Differ
    <3>3. Spell(k.lastNumbers, b) = Spell(next, b)
      BY <3>2, SpellFacts
    <3>4. b \in {6, 7} => Column(b) = Len(next)
      BY <1>3, <2>2, <3>1
    <3> QED BY <2>1, <2>4, <3>2, <3>3, <3>4
  <2> QED BY <2>3, <2>4
<1>5. k.showCurrentTime \/ k.drawn < Target
  BY <1>1
<1>6. \A b \in Band : k.showCurrentTime \/ b # 0 => k.shape[b] # Invalid /\ b \notin k.oldInvalid
  BY <1>5 DEF DrawnInv, Valid
<1> QED BY <1>4, <1>6 DEF Prepared

\* The icons of the seconds, which the current time does not show.
Iconed(k, q) ==
    /\ q \in Core /\ SameLoop(k, q)
    /\ q.firstRun = k.firstRun /\ q.isCountdownComplete = k.isCountdownComplete
    /\ q.randomizing = k.randomizing /\ q.lastNumbers = k.lastNumbers /\ q.drawn = k.drawn
    /\ q.stale = k.stale /\ q.random = IF k.showCurrentTime THEN {6, 7} ELSE k.random
    /\ \A b \in Band :
         /\ q.shape[b] = IF k.showCurrentTime /\ b \in {6, 7} THEN Icon ELSE k.shape[b]
         /\ b \in q.oldInvalid => k.shape[b] = Invalid \/ b \in k.oldInvalid

LEMMA IconedFacts ==
    ASSUME NEW k \in Core, k.stale \subseteq {1, 5}, NEW q,
           q = IF k.showCurrentTime THEN RandomizeBands(k, {6, 7}) ELSE k
    PROVE  Iconed(k, q)
<1>1. CASE k.showCurrentTime
  <2>1. q = RandomizeBands(k, {6, 7})
    BY <1>1
  <2>2. /\ q \in Core /\ SameLoop(k, q) /\ q.random = {6, 7}
        /\ q.firstRun = k.firstRun /\ q.isCountdownComplete = k.isCountdownComplete
        /\ q.randomizing = k.randomizing /\ q.lastNumbers = k.lastNumbers /\ q.drawn = k.drawn
        /\ q.stale = k.stale \ {6, 7}
        /\ \A b \in Band : /\ q.shape[b] = IF b \in {6, 7} THEN Icon ELSE k.shape[b]
                           /\ b \in q.oldInvalid <=>
                                IF b \in {6, 7} THEN k.shape[b] = Invalid ELSE b \in k.oldInvalid
    BY <2>1, RandomizeFacts
  <2>3. q.stale = k.stale
    BY <2>2
  <2> QED BY <1>1, <2>2, <2>3 DEF Iconed
<1>2. CASE ~k.showCurrentTime
  BY <1>2 DEF Iconed, SameLoop
<1> QED BY <1>1, <1>2

\* What is left of the bands that CreateBands made.
LEMMA PreparedFirst ==
    ASSUME NEW k, NEW t \in Nat, NEW u \in Nat, t <= u, NEW mobile, DrawnInv(k, t, mobile),
           k.firstRun, ~k.randomizing, k.showCurrentTime \/ t < Target,
           NEW next, Reads(k.showCurrentTime, u, next), NEW q, Iconed(k, q)
    PROVE  /\ Prepared(q, next, u, mobile)
           /\ mobile => \A f : f = RenderFlat(q, next) => Prepared(f, next, u, mobile)
<1>1. /\ k \in Core /\ k.showCurrentTime \in BOOLEAN /\ k.drawn \in Nat /\ k.drawn <= t
      /\ Target \in Nat /\ q \in Core /\ q.showCurrentTime = k.showCurrentTime /\ q.firstRun
      /\ q.lastNumbers = k.lastNumbers /\ q.stale = k.stale /\ k.stale \subseteq {1, 5}
  BY TimerAssumption DEF DrawnInv, Core, Iconed, SameLoop
<1>2. k.lastNumbers = NextColumnValues(k.showCurrentTime, k.drawn)
  BY DEF DrawnInv, Settled
<1>3. \A b \in Band \ k.stale : k.shape[b] = CreateBands(k.lastNumbers)[b]
  BY DEF DrawnInv, FirstDigits
<1>4. Len(next) = Len(k.lastNumbers) /\ Len(next) = (IF k.showCurrentTime THEN 3 ELSE 4)
  <2>1. Len(k.lastNumbers) = IF k.showCurrentTime THEN 3 ELSE 4
    BY DEF DrawnInv
  <2>2. Len(next) = IF k.showCurrentTime THEN 3 ELSE 4
    BY <1>1, NumbersFacts DEF Reads
  <2> QED BY <2>1, <2>2
<1>5. k.showCurrentTime \/ k.drawn < Target
  BY <1>1
<1>6. \A b \in Band : k.showCurrentTime \/ b # 0 => k.shape[b] # Invalid /\ b \notin k.oldInvalid
  BY <1>5 DEF DrawnInv, Valid
<1>7. \A b \in Band : k.showCurrentTime \/ b # 0 => q.shape[b] # Invalid /\ b \notin q.oldInvalid
  BY <1>6, ShapeFacts DEF Iconed
<1>8. ASSUME NEW b \in Band, Column(b) > Len(next)
      PROVE  q.shape[b] = Icon /\ b # 5
  <2>1. Column(b) \in 1..4 /\ (Column(b) = 4 <=> b \in {6, 7}) /\ (b = 5 => b \notin {6, 7})
    BY ColumnFacts
  <2>2. k.showCurrentTime /\ b \in {6, 7}
    BY <1>4, <1>8, <2>1
  <2> QED BY <2>1, <2>2 DEF Iconed
<1>9. Prepared(q, next, u, mobile)
  <2>1. ASSUME NEW b \in Band \ Differ(q, next)
        PROVE  q.shape[b] = (IF Column(b) > Len(next) THEN Icon ELSE Spell(next, b))
    <3>1. ~(Column(b) <= Len(next))
      BY <1>1, <2>1 DEF Differ
    <3>2. Column(b) > Len(next)
      BY <1>4, <3>1, ColumnFacts
    <3> QED BY <1>8, <3>2
  <2>2. q.showCurrentTime \/ u < Target =>
         \A b \in Band : q.showCurrentTime \/ b # 0 => q.shape[b] # Invalid /\ b \notin q.oldInvalid
    BY <1>1, <1>7
  <2> QED BY <2>1, <2>2 DEF Prepared
<1>10. ASSUME mobile, NEW f, f = RenderFlat(q, next)
       PROVE  Prepared(f, next, u, mobile)
  <2>1. /\ f \in Core /\ SameLoop(q, f) /\ f.firstRun = FALSE
        /\ f.lastNumbers = q.lastNumbers /\ f.stale = q.stale \ {5}
        /\ \A b \in Band : /\ f.shape[b] = IF b = 5 THEN Spell(next, 5) ELSE q.shape[b]
                           /\ b \in f.oldInvalid <=>
                                IF b = 5 THEN Spell(next, 5) = Invalid ELSE b \in q.oldInvalid
    <3>1. Flattened(q, next, f)
      BY <1>1, <1>10, RenderFlatFacts
    <3> QED BY <3>1 DEF Flattened
  <2>2. f.showCurrentTime = k.showCurrentTime
    BY <1>1, <2>1 DEF SameLoop
  <2>3. ASSUME NEW b \in Band \ Differ(f, next)
        PROVE  \/ f.shape[b] = (IF Column(b) > Len(next) THEN Icon ELSE Spell(next, b))
               \/ mobile /\ b \in {6, 7} /\ f.shape[b] = Icon /\ next[Len(next)] = 0
               \/ mobile /\ b \in f.stale \ {5}
    <3>1. CASE Column(b) > Len(next)
      BY <1>8, <2>1, <3>1
    <3>2. CASE ~(Column(b) > Len(next)) /\ b = 5
      BY <2>1, <3>2
    <3>3. CASE ~(Column(b) > Len(next)) /\ b # 5 /\ b \in k.stale
      BY <1>1, <1>10, <2>1, <3>3
    <3>4. CASE ~(Column(b) > Len(next)) /\ b # 5 /\ b \notin k.stale
      <4>1. Column(b) <= Len(next)
        BY <1>4, <3>4, ColumnFacts
      <4>2. k.lastNumbers[Column(b)] = next[Column(b)]
        BY <1>1, <2>1, <2>3, <4>1 DEF Differ
      <4>3. Spell(k.lastNumbers, b) = Spell(next, b)
        BY <4>2, SpellFacts
      <4>4. \/ CreateBands(k.lastNumbers)[b] = Spell(k.lastNumbers, b)
            \/ /\ b \in {6, 7} /\ CreateBands(k.lastNumbers)[b] = Icon
               /\ Len(k.lastNumbers) = 3 \/ k.lastNumbers[Len(k.lastNumbers)] = 0
        BY <1>1, <1>2, <1>5, CreateFacts
      <4>5. k.shape[b] = CreateBands(k.lastNumbers)[b]
        BY <1>3, <3>4
      <4>6. b \in {6, 7} => Column(b) = 4
        BY ColumnFacts
      <4>7. b \in {6, 7} => Len(next) = 4 /\ ~k.showCurrentTime
        BY <1>4, <4>1, <4>6
      <4>8. f.shape[b] = k.shape[b]
        <5>1. f.shape[b] = q.shape[b]
          BY <2>1, <3>4
        <5>2. q.shape[b] = k.shape[b]
          BY <4>7 DEF Iconed
        <5> QED BY <5>1, <5>2
      <4>9. b \in {6, 7} => k.lastNumbers[Len(k.lastNumbers)] = next[Len(next)]
        BY <1>4, <4>2, <4>6, <4>7
      <4>10. b \in {6, 7} => Len(k.lastNumbers) # 3
        BY <1>4, <4>7
      <4> QED BY <1>10, <3>4, <4>3, <4>4, <4>5, <4>8, <4>9, <4>10
    <3> QED BY <3>1, <3>2, <3>3, <3>4
  <2>4. ASSUME k.showCurrentTime \/ u < Target, NEW b \in Band, k.showCurrentTime \/ b # 0
        PROVE  f.shape[b] # Invalid /\ b \notin f.oldInvalid
    <3>1. 5 \in Band /\ Column(5) <= Len(next)
      <4>1. 5 \in Band /\ Column(5) <= 3
        BY ColumnFacts
      <4>2. Column(5) \in 1..4
        BY <4>1, ColumnFacts
      <4> QED BY <1>4, <4>1, <4>2
    <3>2. Spell(next, 5) # Invalid
      BY <1>1, <2>4, <3>1, ValidFacts DEF Reads
    <3> QED BY <1>7, <2>1, <2>4, <3>2
  <2>5. f.showCurrentTime \/ u < Target =>
         \A b \in Band : f.showCurrentTime \/ b # 0 => f.shape[b] # Invalid /\ b \notin f.oldInvalid
    BY <2>2, <2>4
  <2> QED BY <2>3, <2>5 DEF Prepared
<1> QED BY <1>9, <1>10

\* The end of the countdown: from then on there are only icons.
Ended(k, r) ==
    /\ r \in Core /\ SameLoop(k, r) /\ r.randomizing = TRUE
    /\ r.lastNumbers = k.lastNumbers /\ r.drawn = k.drawn /\ r.stale \subseteq k.stale
    /\ r.random = k.random \/ r.random = Band

LEMMA EndedFacts ==
    ASSUME NEW k, NEW t \in Nat, NEW u \in Nat, t <= u, NEW mobile, DrawnInv(k, t, mobile),
           k.intro = None, ~k.showCurrentTime, u >= Target,
           NEW c, Ended(k, c), NEW r, r = [c EXCEPT !.drawn = u]
    PROVE  DrawnInv(r, u, mobile) /\ SameLoop(k, r)
<1>1. /\ c \in Core /\ c.randomizing = TRUE /\ c.intro = None /\ c.showCurrentTime = k.showCurrentTime
      /\ c.lastNumbers = k.lastNumbers /\ c.stale \subseteq k.stale
      /\ c.random = k.random \/ c.random = Band
  BY DEF Ended, SameLoop
<1>2. r \in Core
  BY <1>1 DEF Core
<1>3. /\ SameLoop(c, r) /\ r.randomizing = TRUE /\ r.random = c.random
      /\ r.lastNumbers = c.lastNumbers /\ r.drawn = u /\ r.stale = c.stale
  BY <1>1 DEF Core, SameLoop
<1>4. SameLoop(k, r)
  BY <1>3 DEF SameLoop, Ended
<1>5. r.showCurrentTime = k.showCurrentTime /\ r.intro = None
  BY <1>1, <1>3 DEF SameLoop
<1>6. Target \in Nat /\ ~(u < Target) /\ u <= u
  BY TimerAssumption
<1>7. Ranged(k.lastNumbers) /\ Len(k.lastNumbers) = 4 /\ k.stale \subseteq {1, 5} /\ Ending(k, t)
  BY DEF DrawnInv
<1>8. {6, 7} # Band
  <2>1. 0 \in Band /\ 0 \notin {6, 7}
    BY DEF Band
  <2> QED BY <2>1
<1>9. Ending(r, u)
  BY <1>1, <1>3, <1>5, <1>7, <1>8 DEF Ending
<1>10. FirstDigits(r) /\ Settled(r, mobile) /\ Valid(r)
  BY <1>3, <1>5, <1>6 DEF FirstDigits, Settled, Valid
<1> QED BY <1>1, <1>2, <1>3, <1>4, <1>5, <1>6, <1>7, <1>9, <1>10 DEF DrawnInv

\* The end can be noticed in a frame before its digits are drawn.
LEMMA EndsFacts ==
    ASSUME NEW k \in Core, ~k.showCurrentTime, NEW next, NEW mobile \in BOOLEAN,
           NEW k1, k1 = (IF ~k.isCountdownComplete
                         THEN [ResetCanvas(k) EXCEPT !.isCountdownComplete = TRUE] ELSE k),
           NEW k3, k3 = (IF mobile /\ k1.firstRun THEN RenderFlat(k1, next) ELSE k1),
           NEW c, c = IF k3.randomizing THEN k3 ELSE StartRandomizing(k3)
    PROVE  Ended(k, c)
<1>1. /\ k1 \in Core /\ SameLoop(k, k1) /\ k1.random = k.random
      /\ k1.lastNumbers = k.lastNumbers /\ k1.drawn = k.drawn /\ k1.stale = k.stale
  <2>1. CASE k.isCountdownComplete
    BY <2>1 DEF SameLoop
  <2>2. CASE ~k.isCountdownComplete
    <3>1. PICK q : q = ResetCanvas(k)
      OBVIOUS
    <3>2. q \in Core /\ SameLoop(k, q) /\ SameBands(k, q)
      BY <3>1, ResetFacts
    <3>3. k1 = [q EXCEPT !.isCountdownComplete = TRUE]
      BY <2>2, <3>1
    <3>4. /\ k1 \in Core /\ SameLoop(q, k1) /\ k1.random = q.random
          /\ k1.lastNumbers = q.lastNumbers /\ k1.drawn = q.drawn /\ k1.stale = q.stale
      BY <3>2, <3>3 DEF Core, SameLoop
    <3> QED BY <3>2, <3>4 DEF SameLoop, SameBands
  <2> QED BY <2>1, <2>2
<1>2. /\ k3 \in Core /\ SameLoop(k1, k3) /\ k3.random = k1.random
      /\ k3.lastNumbers = k1.lastNumbers /\ k3.drawn = k1.drawn /\ k3.stale \subseteq k1.stale
  <2>1. CASE mobile /\ k1.firstRun
    <3>1. k3 = RenderFlat(k1, next)
      BY <2>1
    <3>2. Flattened(k1, next, k3)
      BY <1>1, <3>1, RenderFlatFacts
    <3> QED BY <3>2 DEF Flattened
  <2>2. CASE ~(mobile /\ k1.firstRun)
    <3>1. k3 = k1
      BY <2>2
    <3> QED BY <1>1, <3>1 DEF SameLoop
  <2> QED BY <2>1, <2>2
<1>3. /\ c \in Core /\ SameLoop(k3, c) /\ c.randomizing = TRUE
      /\ c.random = k3.random \/ c.random = Band
      /\ c.lastNumbers = k3.lastNumbers /\ c.drawn = k3.drawn /\ c.stale \subseteq k3.stale
  <2>1. CASE k3.randomizing
    <3>1. k3.randomizing = TRUE
      BY <1>2, <2>1 DEF Core
    <3> QED BY <1>2, <2>1, <3>1 DEF SameLoop
  <2>2. CASE ~k3.randomizing
    <3>1. c = StartRandomizing(k3)
      BY <2>2
    <3> QED BY <1>2, <3>1, StartRandomizingFacts
  <2> QED BY <2>1, <2>2
<1>4. SameLoop(k, c)
  BY <1>1, <1>2, <1>3 DEF SameLoop
<1> QED BY <1>1, <1>2, <1>3, <1>4 DEF Ended

LEMMA CheckTimeFacts ==
    ASSUME NEW k, NEW t \in Nat, NEW u \in Nat, t <= u, isMobile \in BOOLEAN,
           DrawnInv(k, t, isMobile), k.intro = None,
           NEW r, r = [CheckTime(k, t, u) EXCEPT !.drawn = u]
    PROVE  DrawnInv(r, u, isMobile) /\ SameLoop(k, r)
<1>1. /\ k \in Core /\ k.showCurrentTime \in BOOLEAN /\ k.isCountdownComplete \in BOOLEAN
      /\ k.randomizing \in BOOLEAN /\ k.drawn \in Nat /\ k.drawn <= t /\ Target \in Nat
      /\ k.stale \subseteq {1, 5} /\ Ending(k, t)
  BY TimerAssumption DEF DrawnInv, Core
<1>2. PICK next : next = NextColumnValues(k.showCurrentTime, u)
  OBVIOUS
<1>3. Reads(k.showCurrentTime, u, next)
  BY <1>2 DEF Reads
<1>4. PICK c : c = CheckTime(k, t, u)
  OBVIOUS
<1>5. r = [c EXCEPT !.drawn = u]
  BY <1>4
<1>6. CASE ~k.showCurrentTime /\ (k.isCountdownComplete \/ t >= Target)
  <2>1. u >= Target
    BY <1>1, <1>6 DEF Ending
  <2>2. PICK k1 : k1 = (IF ~k.isCountdownComplete
                        THEN [ResetCanvas(k) EXCEPT !.isCountdownComplete = TRUE] ELSE k)
    OBVIOUS
  <2>3. PICK k3 : k3 = (IF isMobile /\ k1.firstRun THEN RenderFlat(k1, next) ELSE k1)
    OBVIOUS
  <2>4. k1.showCurrentTime = k.showCurrentTime
    <3>1. CASE ~k.isCountdownComplete
      <4>1. PICK q : q = ResetCanvas(k)
        OBVIOUS
      <4>2. q \in Core /\ q.showCurrentTime = k.showCurrentTime
        BY <1>1, <4>1, ResetFacts DEF SameLoop
      <4>3. k1 = [q EXCEPT !.isCountdownComplete = TRUE]
        BY <2>2, <3>1, <4>1
      <4> QED BY <4>2, <4>3 DEF Core
    <3> QED BY <2>2, <3>1
  <2>5. c = IF k3.randomizing THEN k3 ELSE StartRandomizing(k3)
    BY <1>2, <1>4, <1>6, <2>2, <2>3, <2>4 DEF CheckTime
  <2>6. Ended(k, c)
    BY <1>1, <1>6, <2>2, <2>3, <2>5, EndsFacts
  <2> QED BY <1>5, <1>6, <2>1, <2>6, EndedFacts
<1>7. CASE ~(~k.showCurrentTime /\ (k.isCountdownComplete \/ t >= Target))
  <2>1. k.showCurrentTime \/ t < Target
    BY <1>1, <1>7
  <2>2. ~k.randomizing /\ (k.showCurrentTime \/ ~k.isCountdownComplete)
    BY <1>1, <1>7 DEF Ending
  <2>3. k.random # Band
    BY <1>1, <2>2 DEF Ending
  <2>4. {6, 7} # Band
    <3>1. 0 \in Band /\ 0 \notin {6, 7}
      BY DEF Band
    <3> QED BY <3>1
  <2>5. CASE ~k.firstRun
    <3>1. Prepared(k, next, u, isMobile)
      BY <1>2, <2>1, <2>2, <2>5, PreparedLater
    <3>2. c = ChangeNumbers(k, next)
      BY <1>2, <1>4, <1>7, <2>2, <2>5 DEF CheckTime
    <3>3. r = [ChangeNumbers(k, next) EXCEPT !.drawn = u]
      BY <1>5, <3>2
    <3>4. /\ k.isCountdownComplete /\ ~k.showCurrentTime => u >= Target
          /\ k.random = {6, 7} => k.showCurrentTime
      BY <1>1, <2>2 DEF Ending
    <3> QED BY <1>1, <1>3, <2>2, <2>3, <3>1, <3>3, <3>4, ChangedFacts
  <2>6. CASE k.firstRun
    <3>1. PICK q : q = IF k.showCurrentTime THEN RandomizeBands(k, {6, 7}) ELSE k
      OBVIOUS
    <3>2. Iconed(k, q)
      BY <1>1, <3>1, IconedFacts
    <3>3. /\ q \in Core /\ q.firstRun /\ ~q.randomizing /\ q.stale \subseteq {1, 5} /\ q.intro = None
          /\ q.showCurrentTime = k.showCurrentTime
          /\ q.isCountdownComplete /\ ~q.showCurrentTime => u >= Target
          /\ q.random = {6, 7} => q.showCurrentTime
          /\ q.random # Band
      <4>1. /\ q \in Core /\ q.firstRun /\ ~q.randomizing /\ q.stale \subseteq {1, 5} /\ q.intro = None
            /\ q.showCurrentTime = k.showCurrentTime /\ q.isCountdownComplete = k.isCountdownComplete
            /\ q.random = IF k.showCurrentTime THEN {6, 7} ELSE k.random
        BY <1>1, <2>2, <2>6, <3>2 DEF Iconed, SameLoop
      <4> QED BY <1>1, <2>2, <2>3, <2>4, <4>1 DEF Ending
    <3>4. /\ Prepared(q, next, u, isMobile)
          /\ isMobile => \A f : f = RenderFlat(q, next) => Prepared(f, next, u, isMobile)
      BY <1>3, <2>1, <2>2, <2>6, <3>2, PreparedFirst
    <3>5. SameLoop(k, q)
      BY <3>2 DEF Iconed
    <3>6. CASE ~isMobile
      <4>1. c = ChangeNumbers(q, next)
        BY <1>2, <1>4, <1>7, <2>2, <2>6, <3>1, <3>3, <3>6 DEF CheckTime
      <4>2. r = [ChangeNumbers(q, next) EXCEPT !.drawn = u]
        BY <1>5, <4>1
      <4>3. Reads(q.showCurrentTime, u, next)
        BY <1>3, <3>3
      <4>4. DrawnInv(r, u, isMobile) /\ SameLoop(q, r)
        BY <3>3, <3>4, <4>2, <4>3, ChangedFacts
      <4> QED BY <3>5, <4>4 DEF SameLoop
    <3>7. CASE isMobile
      <4>1. PICK f : f = RenderFlat(q, next)
        OBVIOUS
      <4>2. Flattened(q, next, f)
        BY <3>3, <4>1, RenderFlatFacts
      <4>3. /\ f \in Core /\ SameLoop(q, f) /\ ~f.randomizing /\ f.stale \subseteq {1, 5} /\ f.intro = None
            /\ f.showCurrentTime = k.showCurrentTime
            /\ f.isCountdownComplete /\ ~f.showCurrentTime => u >= Target
            /\ f.random = {6, 7} => f.showCurrentTime
            /\ f.random # Band
        BY <3>3, <4>2 DEF Flattened, SameLoop
      <4>4. c = ChangeNumbers(f, next)
        BY <1>2, <1>4, <1>7, <2>2, <2>6, <3>1, <3>3, <3>7, <4>1, <4>3 DEF CheckTime
      <4>5. r = [ChangeNumbers(f, next) EXCEPT !.drawn = u]
        BY <1>5, <4>4
      <4>6. Reads(f.showCurrentTime, u, next)
        BY <1>3, <4>3
      <4>7. Prepared(f, next, u, isMobile)
        BY <3>4, <3>7, <4>1
      <4>8. DrawnInv(r, u, isMobile) /\ SameLoop(f, r)
        BY <4>3, <4>5, <4>6, <4>7, ChangedFacts
      <4>9. SameLoop(k, f)
        BY <3>5, <4>3 DEF SameLoop
      <4> QED BY <4>8, <4>9 DEF SameLoop
    <3> QED BY <3>6, <3>7
  <2> QED BY <2>5, <2>6
<1> QED BY <1>6, <1>7

-----------------------------------------------------------------------------
(* The frames.                                                             *)

CoreInv(k, t, mobile) == DrawnInv(k, t, mobile) /\ ThrewInv(k)

\* The intro of the logo, which has no end.
Unending == {"created", "running", "started", "open"}

\* What a frame may change of the loop.
Framed(k, r) ==
    /\ r.isPlaying = k.isPlaying /\ r.pauses = k.pauses /\ r.showCurrentTime = k.showCurrentTime
    /\ k.intro \in Unending => r.intro \in Unending
    /\ r.frames = k.frames \/ r.frames = k.frames + 1
    /\ ~k.isPlaying => r.frames = k.frames
    /\ k.isPlaying => r.frames = k.frames + 1 \/ r.threw

LEMMA ThrowsFacts ==
    ASSUME NEW k, NEW t, NEW mobile, DrawnInv(k, t, mobile), Throws(k)
    PROVE  ~k.showCurrentTime /\ (k.drawn >= Target \/ k.shape[0] = Invalid \/ 0 \in k.oldInvalid)
<1>1. /\ k.oldInvalid \subseteq Band /\ k.drawn \in Nat /\ Target \in Nat /\ Valid(k)
  BY TimerAssumption DEF DrawnInv, Core
<1>2. PICK b \in Band : b \in k.oldInvalid \/ k.shape[b] = Invalid
  BY <1>1 DEF Throws
<1> QED BY <1>1, <1>2 DEF Valid

LEMMA OnIntroFrameFacts ==
    ASSUME NEW k, NEW t, NEW mobile, DrawnInv(k, t, mobile), k.intro # None, NEW open \in BOOLEAN,
           NEW r, r = OnIntroFrame(k, open)
    PROVE  /\ DrawnInv(r, t, mobile)
           /\ r.isPlaying = k.isPlaying /\ r.pauses = k.pauses /\ r.frames = k.frames
           /\ r.threw = k.threw /\ r.showCurrentTime = k.showCurrentTime
           /\ k.intro \in Unending => r.intro \in Unending
<1>1. k \in Core /\ None \notin Unending \cup {"finished"}
  BY TimerAssumption DEF DrawnInv, Unending
<1>2. CASE k.intro = "started" /\ open
  <2>1. PICK o \in {1, 5} : o = IF k.format = "horizontal" THEN 1 ELSE 5
    OBVIOUS
  <2>2. PICK shape : shape = [k.shape EXCEPT ![o] = 0]
    OBVIOUS
  <2>3. PICK invalid : invalid = k.oldInvalid \ {o}
    OBVIOUS
  <2>4. r = [k EXCEPT !.intro = "open", !.shape = shape, !.oldInvalid = invalid,
                      !.stale = @ \cup {o}]
    BY <1>2, <2>1, <2>2, <2>3 DEF OnIntroFrame
  <2>5. k.shape \in [Band -> Shape] /\ k.oldInvalid \subseteq Band /\ k.stale \subseteq Band /\ o \in Band
    BY <1>1, <2>1, ColumnFacts DEF Core
  <2>6. /\ shape \in [Band -> Shape] /\ invalid \subseteq Band
        /\ \A b \in Band : shape[b] = IF b = o THEN 0 ELSE k.shape[b]
    BY <2>2, <2>3, <2>5, ShapeFacts
  <2>7. r \in Core
    <3>1. PICK stale \in SUBSET Band : stale = k.stale \cup {o}
      BY <2>5
    <3>2. r = [k EXCEPT !.intro = "open", !.shape = shape, !.oldInvalid = invalid, !.stale = stale]
      BY <2>4, <3>1
    <3> QED BY <1>1, <2>6, <3>2 DEF Core
  <2>8. /\ r.isPlaying = k.isPlaying /\ r.pauses = k.pauses /\ r.frames = k.frames
        /\ r.threw = k.threw /\ r.showCurrentTime = k.showCurrentTime /\ r.intro = "open"
        /\ r.shape = shape /\ r.oldInvalid = invalid /\ r.stale = k.stale \cup {o}
        /\ r.lastNumbers = k.lastNumbers /\ r.drawn = k.drawn /\ r.random = k.random
        /\ r.randomizing = k.randomizing /\ r.firstRun = k.firstRun
        /\ r.isCountdownComplete = k.isCountdownComplete
    BY <1>1, <2>4 DEF Core
  <2>9. k.firstRun /\ k.stale \subseteq {1, 5} /\ k.drawn <= t
    BY DEF DrawnInv
  <2>10. FirstDigits(r)
    <3> SUFFICES ASSUME ~k.randomizing
        PROVE  /\ k.random = {}
               /\ \A b \in Band \ r.stale : r.shape[b] = CreateBands(k.lastNumbers)[b]
      BY <2>8 DEF FirstDigits
    <3>1. k.random = {} /\ \A b \in Band \ k.stale : k.shape[b] = CreateBands(k.lastNumbers)[b]
      BY <2>9 DEF DrawnInv, FirstDigits
    <3> QED BY <2>6, <2>8, <3>1
  <2>11. Settled(r, mobile)
    BY <2>8, <2>9 DEF DrawnInv, Settled
  <2>12. Ending(r, t)
    BY <2>8 DEF DrawnInv, Ending
  <2>13. Valid(r)
    <3> SUFFICES ASSUME k.showCurrentTime \/ k.drawn < Target, NEW b \in Band, k.showCurrentTime \/ b # 0
        PROVE  shape[b] # Invalid /\ b \notin invalid
      BY <2>8 DEF Valid
    <3>1. k.shape[b] # Invalid /\ b \notin k.oldInvalid
      BY DEF DrawnInv, Valid
    <3>2. 0 # Invalid
      BY ShapeFacts
    <3> QED BY <2>3, <2>6, <3>1, <3>2
  <2>14. DrawnInv(r, t, mobile)
    BY <2>1, <2>7, <2>8, <2>9, <2>10, <2>11, <2>12, <2>13 DEF DrawnInv
  <2> QED BY <2>8, <2>14 DEF Unending
<1>3. CASE ~(k.intro = "started" /\ open)
  <2>1. PICK i : /\ i \in {None} \cup Unending \cup {"finished"}
                 /\ r = [k EXCEPT !.intro = i] /\ (k.intro \in Unending => i \in Unending)
    <3>1. CASE k.intro = "created"
      BY <3>1 DEF OnIntroFrame, Unending
    <3>2. CASE k.intro = "finished"
      BY <3>2 DEF OnIntroFrame, Unending
    <3>3. CASE k.intro \notin {"created", "finished"}
      <4>1. r = k
        BY <1>3, <3>3 DEF OnIntroFrame
      <4>2. k = [k EXCEPT !.intro = k.intro] /\ k.intro \in {None} \cup Unending \cup {"finished"}
        BY <1>1 DEF Core, Unending
      <4> QED BY <4>1, <4>2
    <3> QED BY <3>1, <3>2, <3>3
  <2>2. r \in Core
    <3>1. i \in {None, "created", "running", "started", "open", "finished"}
      BY <2>1 DEF Unending
    <3>2. r = [k EXCEPT !.intro = i]
      BY <2>1
    <3> QED BY <1>1, <3>1, <3>2 DEF Core
  <2>3. /\ r.isPlaying = k.isPlaying /\ r.pauses = k.pauses /\ r.frames = k.frames
        /\ r.threw = k.threw /\ r.showCurrentTime = k.showCurrentTime /\ SameBands(k, r)
        /\ r.isCountdownComplete = k.isCountdownComplete /\ r.intro = i
    BY <1>1, <2>1 DEF Core, SameBands
  <2>4. DrawnInv(r, t, mobile)
    BY <2>2, <2>3, Undrawn
  <2> QED BY <2>1, <2>3, <2>4
<1> QED BY <1>2, <1>3

LEMMA OnFrameFacts ==
    ASSUME NEW k, NEW t \in Nat, NEW u \in Nat, t <= u, isMobile \in BOOLEAN,
           CoreInv(k, t, isMobile), NEW open \in BOOLEAN, NEW r, r = OnFrame(k, t, u, open)
    PROVE  CoreInv(r, u, isMobile) /\ Framed(k, r)
<1>1. /\ k \in Core /\ k.frames \in Nat /\ k.isPlaying \in BOOLEAN /\ DrawnInv(k, t, isMobile) /\ ThrewInv(k)
      /\ None \notin Unending
  BY TimerAssumption DEF CoreInv, DrawnInv, Core, Unending
<1>2. PICK q : q = IF k.needsCanvasReset THEN ResetCanvas(k) ELSE k
  OBVIOUS
<1>3. q \in Core /\ SameLoop(k, q) /\ SameBands(k, q) /\ q.isCountdownComplete = k.isCountdownComplete
  <2>1. CASE k.needsCanvasReset
    BY <1>1, <1>2, <2>1, ResetFacts
  <2>2. CASE ~k.needsCanvasReset
    <3>1. q = k
      BY <1>2, <2>2
    <3> QED BY <1>1, <3>1 DEF SameLoop, SameBands
  <2> QED BY <2>1, <2>2
<1>4. DrawnInv(q, t, isMobile) /\ q.intro = k.intro
  <2>1. q.showCurrentTime = k.showCurrentTime /\ q.intro = k.intro
    BY <1>3 DEF SameLoop
  <2> QED BY <1>1, <1>3, <2>1, Undrawn
<1>5. CASE ~k.isPlaying
  <2>1. r = k
    BY <1>5 DEF OnFrame
  <2>2. DrawnInv(r, u, isMobile)
    BY <1>1, <2>1, Later
  <2> QED BY <1>1, <1>5, <2>1, <2>2 DEF CoreInv, Framed
<1>6. CASE k.isPlaying /\ k.intro # None
  <2>1. PICK p : p = OnIntroFrame(q, open)
    OBVIOUS
  <2>2. /\ DrawnInv(p, t, isMobile)
        /\ p.isPlaying = q.isPlaying /\ p.pauses = q.pauses /\ p.frames = q.frames
        /\ p.threw = q.threw /\ p.showCurrentTime = q.showCurrentTime
        /\ q.intro \in Unending => p.intro \in Unending
    BY <1>4, <1>6, <2>1, OnIntroFrameFacts
  <2>3. r = [p EXCEPT !.frames = p.frames + 1]
    BY <1>2, <1>6, <2>1 DEF OnFrame
  <2>4. p \in Core /\ p.frames = k.frames /\ ~p.threw
    BY <1>1, <1>3, <1>6, <2>2 DEF DrawnInv, SameLoop, ThrewInv
  <2>5. r \in Core
    <3>1. p.frames + 1 \in Nat
      BY <1>1, <2>4
    <3> QED BY <2>3, <2>4, <3>1, FramesFact
  <2>6. /\ SameBands(p, r) /\ r.isCountdownComplete = p.isCountdownComplete /\ r.intro = p.intro
        /\ r.isPlaying = p.isPlaying /\ r.pauses = p.pauses /\ r.showCurrentTime = p.showCurrentTime
        /\ r.threw = p.threw /\ r.frames = k.frames + 1
    BY <2>3, <2>4 DEF Core, SameBands
  <2>7. DrawnInv(p, u, isMobile)
    BY <2>2, Later
  <2>8. DrawnInv(r, u, isMobile)
    BY <2>5, <2>6, <2>7, Undrawn
  <2>9. ThrewInv(r)
    BY <2>4, <2>6 DEF ThrewInv
  <2>10. Framed(k, r)
    BY <1>3, <1>6, <2>2, <2>6 DEF Framed, SameLoop
  <2> QED BY <2>8, <2>9, <2>10 DEF CoreInv
<1>7. CASE k.isPlaying /\ k.intro = None
  <2>1. PICK c : c = [CheckTime(q, t, u) EXCEPT !.drawn = u]
    OBVIOUS
  <2>2. DrawnInv(c, u, isMobile) /\ SameLoop(q, c)
    BY <1>4, <1>7, <2>1, CheckTimeFacts
  <2>3. c \in Core /\ c.frames = k.frames /\ c.intro = None /\ SameLoop(k, c)
    BY <1>3, <1>7, <2>2 DEF DrawnInv, SameLoop
  <2>4. CASE Throws(c)
    <3>1. r = [c EXCEPT !.threw = TRUE]
      BY <1>2, <1>7, <2>1, <2>4 DEF OnFrame
    <3>2. r \in Core
      BY <2>3, <3>1 DEF Core
    <3>3. /\ SameBands(c, r) /\ r.isCountdownComplete = c.isCountdownComplete /\ r.intro = c.intro
          /\ r.isPlaying = c.isPlaying /\ r.pauses = c.pauses /\ r.showCurrentTime = c.showCurrentTime
          /\ r.threw = TRUE /\ r.frames = c.frames
      BY <2>3, <3>1 DEF Core, SameBands
    <3>4. DrawnInv(r, u, isMobile)
      BY <2>2, <3>2, <3>3, Undrawn
    <3>5. ~c.showCurrentTime /\ (c.drawn >= Target \/ c.shape[0] = Invalid \/ 0 \in c.oldInvalid)
      BY <2>2, <2>4, ThrowsFacts
    <3>6. ThrewInv(r)
      BY <2>3, <3>3, <3>5 DEF ThrewInv, SameBands
    <3>7. Framed(k, r)
      BY <1>1, <1>7, <2>3, <3>3 DEF Framed, SameLoop
    <3> QED BY <3>4, <3>6, <3>7 DEF CoreInv
  <2>5. CASE ~Throws(c)
    <3>1. r = [c EXCEPT !.frames = c.frames + 1, !.threw = FALSE]
      BY <1>2, <1>7, <2>1, <2>5 DEF OnFrame
    <3>2. r \in Core
      <4>1. PICK n \in Nat : n = c.frames + 1
        BY <1>1, <2>3
      <4>2. r = [c EXCEPT !.frames = n, !.threw = FALSE]
        BY <3>1, <4>1
      <4> QED BY <2>3, <4>2 DEF Core
    <3>3. /\ SameBands(c, r) /\ r.isCountdownComplete = c.isCountdownComplete /\ r.intro = c.intro
          /\ r.isPlaying = c.isPlaying /\ r.pauses = c.pauses /\ r.showCurrentTime = c.showCurrentTime
          /\ r.threw = FALSE /\ r.frames = c.frames + 1
      BY <2>3, <3>1 DEF Core, SameBands
    <3>4. DrawnInv(r, u, isMobile)
      BY <2>2, <3>2, <3>3, Undrawn
    <3>5. ThrewInv(r)
      BY <3>3 DEF ThrewInv
    <3>6. Framed(k, r)
      BY <1>1, <1>7, <2>3, <3>3 DEF Framed, SameLoop
    <3> QED BY <3>4, <3>5, <3>6 DEF CoreInv
  <2> QED BY <2>4, <2>5
<1> QED BY <1>5, <1>6, <1>7

\* A Core asks for one frame after another, and one more after each pause.
LoopInv(k) ==
    /\ k.frames <= (IF k.isPlaying THEN 1 ELSE 0) + k.pauses
    /\ k.isPlaying => k.frames > 0 \/ k.threw

Sound(k, t, mobile) == CoreInv(k, t, mobile) /\ LoopInv(k)

\* What a Core stays for good.
Kept(k, r) ==
    /\ r.showCurrentTime = k.showCurrentTime
    /\ twofold /\ k.intro \in Unending => r.intro \in Unending

LEMMA FrameFacts ==
    ASSUME NEW k, NEW t \in Nat, NEW u \in Nat, t <= u, isMobile \in BOOLEAN,
           Sound(k, t, isMobile), k.frames > 0, NEW open \in BOOLEAN,
           NEW r, r = OnFrame([k EXCEPT !.frames = @ - 1], t, u, open)
    PROVE  Sound(r, u, isMobile) /\ Kept(k, r) /\ r.isPlaying = k.isPlaying
<1>1. /\ k \in Core /\ k.frames \in Nat /\ k.pauses \in Nat /\ k.isPlaying \in BOOLEAN
      /\ DrawnInv(k, t, isMobile) /\ ThrewInv(k) /\ LoopInv(k)
  BY DEF Sound, CoreInv, DrawnInv, Core
<1>2. PICK n \in Nat : n = k.frames - 1
  BY <1>1
<1>3. PICK q : q = [k EXCEPT !.frames = n]
  OBVIOUS
<1>4. q \in Core
  BY <1>1, <1>3 DEF Core
<1>5. /\ SameBands(k, q) /\ q.isCountdownComplete = k.isCountdownComplete /\ q.intro = k.intro
      /\ q.isPlaying = k.isPlaying /\ q.pauses = k.pauses /\ q.showCurrentTime = k.showCurrentTime
      /\ q.threw = k.threw /\ q.frames = n
  BY <1>1, <1>3 DEF Core, SameBands
<1>6. DrawnInv(q, t, isMobile)
  BY <1>1, <1>4, <1>5, Undrawn
<1>7. ThrewInv(q)
  BY <1>1, <1>5 DEF ThrewInv, SameBands
<1>8. CoreInv(q, t, isMobile)
  BY <1>6, <1>7 DEF CoreInv
<1>9. r = OnFrame(q, t, u, open)
  BY <1>2, <1>3
<1>10. CoreInv(r, u, isMobile) /\ Framed(q, r)
  BY <1>8, <1>9, OnFrameFacts
<1>11. LoopInv(r)
  BY <1>1, <1>2, <1>5, <1>10 DEF Framed, LoopInv
<1> QED BY <1>5, <1>10, <1>11 DEF Sound, Framed, Kept

LEMMA PlayFacts ==
    ASSUME NEW k, now \in Nat, isMobile \in BOOLEAN, Sound(k, now, isMobile), NEW r, r = Play(k)
    PROVE  Sound(r, now, isMobile) /\ Kept(k, r) /\ r.isPlaying
<1>1. /\ k \in Core /\ k.frames \in Nat /\ k.pauses \in Nat /\ k.isPlaying \in BOOLEAN
      /\ DrawnInv(k, now, isMobile) /\ ThrewInv(k) /\ LoopInv(k)
  BY DEF Sound, CoreInv, DrawnInv, Core
<1>2. CASE k.isPlaying
  BY <1>2 DEF Play, Kept
<1>3. CASE ~k.isPlaying
  <2>1. PICK q : q = [k EXCEPT !.isPlaying = TRUE]
    OBVIOUS
  <2>2. q \in Core
    BY <1>1, <2>1 DEF Core
  <2>3. /\ SameBands(k, q) /\ q.isCountdownComplete = k.isCountdownComplete /\ q.intro = k.intro
        /\ q.isPlaying = TRUE /\ q.pauses = k.pauses /\ q.showCurrentTime = k.showCurrentTime
        /\ q.threw = k.threw /\ q.frames = k.frames
    BY <1>1, <2>1 DEF Core, SameBands
  <2>4. DrawnInv(q, now, isMobile)
    BY <1>1, <2>2, <2>3, Undrawn
  <2>5. ThrewInv(q)
    BY <1>1, <2>3 DEF ThrewInv, SameBands
  <2>6. CoreInv(q, now, isMobile)
    BY <2>4, <2>5 DEF CoreInv
  <2>7. r = OnFrame(q, now, now, FALSE)
    BY <1>3, <2>1 DEF Play
  <2>8. now <= now /\ FALSE \in BOOLEAN
    OBVIOUS
  <2>9. CoreInv(r, now, isMobile) /\ Framed(q, r)
    BY <2>6, <2>7, <2>8, OnFrameFacts
  <2>10. LoopInv(r)
    BY <1>1, <1>3, <2>3, <2>9 DEF Framed, LoopInv
  <2> QED BY <2>3, <2>9, <2>10 DEF Sound, Framed, Kept
<1> QED BY <1>2, <1>3

LEMMA PauseFacts ==
    ASSUME NEW k, NEW t, NEW mobile, Sound(k, t, mobile), NEW r, r = Pause(k)
    PROVE  Sound(r, t, mobile) /\ Kept(k, r) /\ ~r.isPlaying
<1>1. /\ k \in Core /\ k.frames \in Nat /\ k.pauses \in Nat /\ k.isPlaying \in BOOLEAN
      /\ DrawnInv(k, t, mobile) /\ ThrewInv(k) /\ LoopInv(k)
  BY DEF Sound, CoreInv, DrawnInv, Core
<1>2. CASE ~k.isPlaying
  BY <1>2 DEF Pause, Kept
<1>3. CASE k.isPlaying
  <2>1. PICK n \in Nat : n = k.pauses + 1
    BY <1>1
  <2>2. r = [k EXCEPT !.isPlaying = FALSE, !.pauses = n]
    BY <1>3, <2>1 DEF Pause
  <2>3. r \in Core
    BY <1>1, <2>2 DEF Core
  <2>4. /\ SameBands(k, r) /\ r.isCountdownComplete = k.isCountdownComplete /\ r.intro = k.intro
        /\ r.isPlaying = FALSE /\ r.pauses = n /\ r.showCurrentTime = k.showCurrentTime
        /\ r.threw = k.threw /\ r.frames = k.frames
    BY <1>1, <2>2 DEF Core, SameBands
  <2>5. DrawnInv(r, t, mobile)
    BY <1>1, <2>3, <2>4, Undrawn
  <2>6. ThrewInv(r)
    BY <1>1, <2>4 DEF ThrewInv, SameBands
  <2>7. LoopInv(r)
    BY <1>1, <1>3, <2>1, <2>4 DEF LoopInv
  <2> QED BY <2>4, <2>5, <2>6, <2>7 DEF Sound, CoreInv, Kept
<1> QED BY <1>2, <1>3

LEMMA IntervalFacts ==
    ASSUME NEW k, NEW t \in Nat, NEW mobile, Sound(k, t, mobile), NEW b \in Band, b \in k.random,
           NEW r, r = ChangeShape(k, [x \in {b} |-> Icon])
    PROVE  Sound(r, t, mobile) /\ Kept(k, r) /\ r.isPlaying = k.isPlaying
<1>1. /\ k \in Core /\ k.random \in {{}, {6, 7}, Band} /\ DrawnInv(k, t, mobile) /\ ThrewInv(k) /\ LoopInv(k)
      /\ Len(k.lastNumbers) = (IF k.showCurrentTime THEN 3 ELSE 4) /\ Ranged(k.lastNumbers)
      /\ k.stale \subseteq {1, 5} /\ k.drawn <= t /\ (k.intro # None => k.firstRun)
      /\ Ending(k, t) /\ Settled(k, mobile) /\ Valid(k)
  BY DEF Sound, CoreInv, DrawnInv, Core
<1>2. PICK new : new = [x \in {b} |-> Icon]
  OBVIOUS
<1>3. DOMAIN new = {b} /\ new[b] = Icon
  BY <1>2
<1>4. DOMAIN new \subseteq Band /\ \A x \in DOMAIN new : new[x] \in Shape
  BY <1>3, ShapeFacts
<1>5. r = ChangeShape(k, new)
  BY <1>2
<1>6. /\ r \in Core /\ SameLoop(k, r)
      /\ r.firstRun = k.firstRun /\ r.isCountdownComplete = k.isCountdownComplete
      /\ r.randomizing = k.randomizing /\ r.random = k.random
      /\ r.lastNumbers = k.lastNumbers /\ r.drawn = k.drawn
      /\ r.stale = k.stale \ DOMAIN new
      /\ \A x \in Band :
           /\ r.shape[x] = IF x \in DOMAIN new THEN new[x] ELSE k.shape[x]
           /\ x \in r.oldInvalid <=>
                IF x \in DOMAIN new THEN k.shape[x] = Invalid ELSE x \in k.oldInvalid
  BY <1>1, <1>4, <1>5, ChangeShapeFacts
<1>7. /\ r.stale = k.stale \ {b}
      /\ \A x \in Band :
           /\ r.shape[x] = IF x = b THEN Icon ELSE k.shape[x]
           /\ x \in r.oldInvalid <=> IF x = b THEN k.shape[x] = Invalid ELSE x \in k.oldInvalid
  BY <1>3, <1>6
<1>8. r.showCurrentTime = k.showCurrentTime /\ r.intro = k.intro /\ r.isPlaying = k.isPlaying
  BY <1>6 DEF SameLoop
<1>9. ~k.randomizing => k.random = {6, 7} /\ k.showCurrentTime
  BY <1>1 DEF Ending
<1>10. FirstDigits(r)
  <2>1. k.firstRun /\ ~k.randomizing => k.random = {}
    BY <1>1 DEF DrawnInv, FirstDigits
  <2> QED BY <1>6, <2>1 DEF FirstDigits
<1>11. Settled(r, mobile)
  <2>1. ~r.firstRun /\ ~r.randomizing => Spells(r, k.lastNumbers, mobile)
    <3> SUFFICES ASSUME ~k.firstRun, ~k.randomizing, NEW x \in Band
        PROVE  \/ r.shape[x] = (IF Column(x) > Len(k.lastNumbers) THEN Icon ELSE Spell(k.lastNumbers, x))
               \/ mobile /\ x \in {6, 7} /\ r.shape[x] = Icon /\ k.lastNumbers[Len(k.lastNumbers)] = 0
               \/ mobile /\ x \in r.stale \ {5}
      BY <1>6 DEF Spells
    <3>1. Spells(k, k.lastNumbers, mobile)
      BY <1>1 DEF Settled
    <3>2. CASE x = b
      <4>1. Column(x) = 4 /\ Len(k.lastNumbers) = 3
        BY <1>1, <1>9, <3>2, ColumnFacts
      <4>2. Column(x) > Len(k.lastNumbers)
        BY <4>1
      <4> QED BY <1>7, <3>2, <4>2
    <3>3. CASE x # b
      <4>1. r.shape[x] = k.shape[x] /\ (x \in r.stale <=> x \in k.stale)
        BY <1>7, <3>3
      <4> QED BY <3>1, <4>1 DEF Spells
    <3> QED BY <3>2, <3>3
  <2>2. ~r.randomizing => r.lastNumbers = NextColumnValues(r.showCurrentTime, r.drawn)
    BY <1>1, <1>6, <1>8 DEF Settled
  <2> QED BY <1>6, <2>1, <2>2 DEF Settled
<1>12. Ending(r, t)
  BY <1>1, <1>6, <1>8 DEF Ending
<1>13. Valid(r)
  <2> SUFFICES ASSUME k.showCurrentTime \/ k.drawn < Target, NEW x \in Band, k.showCurrentTime \/ x # 0
      PROVE  r.shape[x] # Invalid /\ x \notin r.oldInvalid
    BY <1>6, <1>8 DEF Valid
  <2>1. k.shape[x] # Invalid /\ x \notin k.oldInvalid
    BY <1>1 DEF Valid
  <2> QED BY <1>7, <2>1, ShapeFacts
<1>14. DrawnInv(r, t, mobile)
  BY <1>1, <1>6, <1>7, <1>8, <1>10, <1>11, <1>12, <1>13 DEF DrawnInv
<1>15. ThrewInv(r)
  <2> SUFFICES ASSUME k.threw
      PROVE  /\ ~k.showCurrentTime /\ k.intro = None
             /\ k.drawn >= Target
    BY <1>6 DEF ThrewInv, SameLoop
  <2>1. ~k.showCurrentTime /\ k.intro = None
    BY <1>1 DEF ThrewInv
  <2> QED BY <1>1, <1>9, <2>1 DEF Ending
<1>16. LoopInv(r)
  BY <1>1, <1>6 DEF LoopInv, SameLoop
<1> QED BY <1>8, <1>14, <1>15, <1>16 DEF Sound, CoreInv, Kept

LEMMA SetUpFacts ==
    ASSUME NEW current \in BOOLEAN, NEW intro \in {None, "created"}, now \in Nat, NEW mobile,
           NEW r, r = SetUp(current, intro)
    PROVE  Sound(r, now, mobile) /\ ~r.isPlaying /\ r.showCurrentTime = current /\ r.intro = intro
<1>1. PICK numbers : numbers = NextColumnValues(current, now)
  OBVIOUS
<1>2. PICK bands : bands = CreateBands(numbers)
  OBVIOUS
<1>3. PICK invalid : invalid = {b \in Band : bands[b] = Invalid}
  OBVIOUS
<1>4. PICK format \in {"stacked", "horizontal"} : format = GetFormat(width)
  BY DEF GetFormat
<1>5. PICK complete \in BOOLEAN : complete = (now >= Target)
  <2>1. Target \in Nat
    BY TimerAssumption
  <2>2. (now >= Target) \in BOOLEAN
    BY <2>1
  <2> QED BY <2>2, Zenon
<1>6. r = [showCurrentTime |-> current, isPlaying |-> FALSE, frames |-> 0,
           intro |-> intro, firstRun |-> TRUE, isCountdownComplete |-> complete,
           randomizing |-> FALSE, random |-> {}, needsCanvasReset |-> TRUE,
           format |-> format, lastNumbers |-> numbers,
           shape |-> bands, oldInvalid |-> invalid,
           threw |-> FALSE, drawn |-> now, pauses |-> 0, stale |-> {}]
  BY <1>1, <1>2, <1>3, <1>4, <1>5 DEF SetUp
<1>7. numbers \in Seq(Int) /\ Len(numbers) = (IF current THEN 3 ELSE 4) /\ Ranged(numbers)
  BY <1>1, NumbersFacts
<1>8. bands \in [Band -> Shape] /\ invalid \subseteq Band
  <2>1. \A b \in Band : CreateBands(numbers)[b] \in Shape
    BY <1>1, CreateFacts
  <2>2. bands = [b \in Band |-> bands[b]]
    BY <1>2 DEF CreateBands
  <2>3. \A b \in Band : bands[b] \in Shape
    BY <1>2, <2>1
  <2> QED BY <1>3, <2>2, <2>3
<1>9. r \in Core
  BY <1>6, <1>7, <1>8 DEF Core
<1>10. Target \in Nat /\ Band # {} /\ {6, 7} # {} /\ now <= now
  BY TimerAssumption, ColumnFacts
<1>11. FirstDigits(r) /\ Settled(r, mobile)
  BY <1>1, <1>2, <1>6 DEF FirstDigits, Settled
<1>12. Ending(r, now)
  BY <1>5, <1>6, <1>10 DEF Ending
<1>13. Valid(r)
  <2> SUFFICES ASSUME current \/ now < Target, NEW b \in Band, current \/ b # 0
      PROVE  bands[b] # Invalid /\ b \notin invalid
    BY <1>6 DEF Valid
  <2>1. CreateBands(numbers)[b] # Invalid
    BY <1>1, CreateFacts
  <2> QED BY <1>2, <1>3, <2>1
<1>14. DrawnInv(r, now, mobile)
  BY <1>6, <1>7, <1>9, <1>10, <1>11, <1>12, <1>13 DEF DrawnInv
<1>15. ThrewInv(r) /\ LoopInv(r)
  BY <1>6 DEF ThrewInv, LoopInv
<1> QED BY <1>6, <1>14, <1>15 DEF Sound, CoreInv

-----------------------------------------------------------------------------
(* The element.                                                            *)

Scalars ==
    /\ now \in Times
    /\ DOMAIN cores = IF twofold THEN {"clock", "logo"} ELSE {"clock"}
    /\ width \in {"below", "at", "above"}
    /\ isMobile \in BOOLEAN /\ twofold \in BOOLEAN /\ attached \in BOOLEAN /\ started \in BOOLEAN
    /\ hidden \in BOOLEAN /\ over \in BOOLEAN /\ scrolling \in BOOLEAN
    /\ overtaken \in BOOLEAN /\ revived \in BOOLEAN
    /\ fade \in {"enter", "leave", None} /\ fresh \in {"enter", "leave", None}
    /\ used \in 0..MaxUser

\* The clock shows the current time where there is a logo, whose intro has no end.
Kinds ==
    /\ cores["clock"].showCurrentTime = twofold
    /\ twofold => ~cores["logo"].showCurrentTime /\ cores["logo"].intro \in Unending

\* The last move of the mouse began the tweens that TweenMax knows last.
FadeInv ==
    /\ fade # None \/ fresh # None => twofold
    /\ fresh # None => fresh = (IF over THEN "enter" ELSE "leave")
    /\ fresh = None /\ fade # None => fade = (IF over THEN "enter" ELSE "leave")

\* Whatever the fades: what they end has not been shown again, or was overtaken.
PlayInv ==
    /\ attached /\ started /\ ~hidden /\ ~scrolling => cores[Shown].isPlaying \/ overtaken
    /\ ~attached => revived \/ \A c \in DOMAIN cores : ~cores[c].isPlaying

IInv ==
    /\ Scalars /\ Kinds /\ FadeInv /\ PlayInv
    /\ \A c \in DOMAIN cores : Sound(cores[c], now, isMobile)

LEMMA TimeFacts ==
    ASSUME IInv
    PROVE  now \in Nat /\ isMobile \in BOOLEAN
BY TimerAssumption DEF IInv, Scalars

\* What every step does to every Core.
Carried ==
    /\ DOMAIN cores' = DOMAIN cores
    /\ \A c \in DOMAIN cores : Sound(cores'[c], now', isMobile) /\ Kept(cores[c], cores'[c])
SamePlaying == \A c \in DOMAIN cores : cores'[c].isPlaying = cores[c].isPlaying

LEMMA StillSound ==
    ASSUME IInv, now' \in Nat, now <= now', NEW c \in DOMAIN cores
    PROVE  Sound(cores[c], now', isMobile) /\ Kept(cores[c], cores[c])
<1>1. now \in Nat /\ Sound(cores[c], now, isMobile)
  BY TimeFacts DEF IInv
<1>2. DrawnInv(cores[c], now', isMobile)
  BY <1>1, Later DEF Sound, CoreInv
<1> QED BY <1>1, <1>2 DEF Sound, CoreInv, Kept

LEMMA StillFacts ==
    ASSUME IInv, now' \in Nat, now <= now', cores' = cores
    PROVE  Carried /\ SamePlaying
BY StillSound DEF Carried, SamePlaying

LEMMA OneFacts ==
    ASSUME IInv, now' \in Nat, now <= now', NEW c \in DOMAIN cores, NEW r,
           Sound(r, now', isMobile), Kept(cores[c], r), cores' = [cores EXCEPT ![c] = r]
    PROVE  Carried /\ cores'[c] = r /\ \A d \in DOMAIN cores : d # c => cores'[d] = cores[d]
<1>1. /\ DOMAIN cores' = DOMAIN cores /\ cores'[c] = r
      /\ \A d \in DOMAIN cores : d # c => cores'[d] = cores[d]
  OBVIOUS
<1> QED BY <1>1, StillSound DEF Carried

LEMMA PlayAllFacts ==
    ASSUME IInv, now' = now, PlayAll
    PROVE  Carried /\ \A c \in DOMAIN cores : cores'[c].isPlaying
<1>1. DOMAIN cores' = DOMAIN cores /\ \A c \in DOMAIN cores : cores'[c] = Play(cores[c])
  BY DEF PlayAll
<1>2. ASSUME NEW c \in DOMAIN cores
      PROVE  Sound(cores'[c], now', isMobile) /\ Kept(cores[c], cores'[c]) /\ cores'[c].isPlaying
  <2>1. Sound(cores[c], now, isMobile)
    BY DEF IInv
  <2>2. PICK r : r = Play(cores[c])
    OBVIOUS
  <2>3. Sound(r, now, isMobile) /\ Kept(cores[c], r) /\ r.isPlaying
    BY <2>1, <2>2, TimeFacts, PlayFacts
  <2> QED BY <1>1, <2>2, <2>3
<1> QED BY <1>1, <1>2 DEF Carried

LEMMA PauseAllFacts ==
    ASSUME IInv, now' = now, PauseAll
    PROVE  Carried /\ \A c \in DOMAIN cores : ~cores'[c].isPlaying
<1>1. DOMAIN cores' = DOMAIN cores /\ \A c \in DOMAIN cores : cores'[c] = Pause(cores[c])
  BY DEF PauseAll
<1>2. ASSUME NEW c \in DOMAIN cores
      PROVE  Sound(cores'[c], now', isMobile) /\ Kept(cores[c], cores'[c]) /\ ~cores'[c].isPlaying
  <2>1. Sound(cores[c], now, isMobile)
    BY DEF IInv
  <2>2. PICK r : r = Pause(cores[c])
    OBVIOUS
  <2>3. Sound(r, now, isMobile) /\ Kept(cores[c], r) /\ ~r.isPlaying
    BY <2>1, <2>2, PauseFacts
  <2> QED BY <1>1, <2>2, <2>3
<1> QED BY <1>1, <1>2 DEF Carried

\* A change of the fields that no invariant is about.
LEMMA TouchFacts ==
    ASSUME NEW k, NEW t, NEW mobile, Sound(k, t, mobile), NEW r \in Core,
           SameBands(k, r), r.isCountdownComplete = k.isCountdownComplete,
           r.isPlaying = k.isPlaying, r.frames = k.frames, r.pauses = k.pauses, r.threw = k.threw,
           r.showCurrentTime = k.showCurrentTime,
           r.intro = k.intro \/ {k.intro, r.intro} \cap {None} = {},
           twofold /\ k.intro \in Unending => r.intro \in Unending
    PROVE  Sound(r, t, mobile) /\ Kept(k, r) /\ r.isPlaying = k.isPlaying
<1>1. /\ k \in Core /\ DrawnInv(k, t, mobile) /\ ThrewInv(k) /\ LoopInv(k)
  BY DEF Sound, CoreInv, DrawnInv
<1>2. (r.intro = None) = (k.intro = None)
  OBVIOUS
<1>3. DrawnInv(r, t, mobile)
  BY <1>1, <1>2, Undrawn
<1>4. ThrewInv(r)
  BY <1>1, <1>2 DEF ThrewInv, SameBands
<1>5. LoopInv(r)
  BY <1>1 DEF LoopInv
<1> QED BY <1>3, <1>4, <1>5 DEF Sound, CoreInv, Kept

LEMMA ShownFacts ==
    ASSUME IInv
    PROVE  Shown \in DOMAIN cores /\ "clock" \in DOMAIN cores /\ (twofold => "logo" \in DOMAIN cores)
BY DEF IInv, Scalars, Shown

LEMMA PlayKept ==
    ASSUME IInv, DOMAIN cores' = DOMAIN cores, SamePlaying,
           UNCHANGED <<twofold, attached, started, hidden, over, scrolling, overtaken, revived>>
    PROVE  PlayInv'
<1>1. Shown' = Shown /\ Shown \in DOMAIN cores
  BY ShownFacts DEF Shown
<1>2. cores'[Shown].isPlaying = cores[Shown].isPlaying
  BY <1>1 DEF SamePlaying
<1> QED BY <1>1, <1>2 DEF IInv, PlayInv, SamePlaying

LEMMA PassStep ==
    ASSUME IInv, Pass
    PROVE  Carried /\ PlayInv'
<1>1. now' \in Nat /\ now <= now' /\ cores' = cores
  BY TimeFacts DEF Pass
<1>2. Carried /\ SamePlaying
  BY <1>1, StillFacts
<1>3. UNCHANGED <<twofold, attached, started, hidden, over, scrolling, overtaken, revived>>
  BY DEF Pass, element, mouse, history
<1>4. DOMAIN cores' = DOMAIN cores
  BY <1>1
<1> QED BY <1>2, <1>3, <1>4, PlayKept

\* A step of one Core that leaves it playing or not.
LEMMA OneStep ==
    ASSUME IInv, now' \in Nat, now <= now', NEW c \in DOMAIN cores, NEW r,
           Sound(r, now', isMobile), Kept(cores[c], r), r.isPlaying = cores[c].isPlaying,
           cores' = [cores EXCEPT ![c] = r],
           UNCHANGED <<twofold, attached, started, hidden, over, scrolling, overtaken, revived>>
    PROVE  Carried /\ PlayInv'
<1>1. Carried /\ cores'[c] = r /\ \A d \in DOMAIN cores : d # c => cores'[d] = cores[d]
  BY OneFacts
<1>2. SamePlaying
  BY <1>1 DEF SamePlaying
<1>3. DOMAIN cores' = DOMAIN cores
  BY <1>1 DEF Carried
<1> QED BY <1>1, <1>2, <1>3, PlayKept

LEMMA FrameStep ==
    ASSUME IInv, NEW c \in DOMAIN cores, Frame(c)
    PROVE  Carried /\ PlayInv'
<1>1. PICK open \in BOOLEAN :
        cores' = [cores EXCEPT ![c] = OnFrame([cores[c] EXCEPT !.frames = @ - 1], now, now', open)]
  BY DEF Frame
<1>2. /\ now \in Nat /\ now' \in Nat /\ now <= now' /\ isMobile \in BOOLEAN
      /\ cores[c].frames > 0 /\ Sound(cores[c], now, isMobile)
  BY TimeFacts DEF Frame, IInv
<1>3. PICK r : r = OnFrame([cores[c] EXCEPT !.frames = @ - 1], now, now', open)
  OBVIOUS
<1>4. Sound(r, now', isMobile) /\ Kept(cores[c], r) /\ r.isPlaying = cores[c].isPlaying
  BY <1>2, <1>3, FrameFacts
<1>5. cores' = [cores EXCEPT ![c] = r]
  BY <1>1, <1>3
<1>6. UNCHANGED <<twofold, attached, started, hidden, over, scrolling, overtaken, revived>>
  BY DEF Frame, element, mouse, history
<1> QED BY <1>2, <1>4, <1>5, <1>6, OneStep

LEMMA IntroTimerStep ==
    ASSUME IInv, NEW c \in DOMAIN cores, IntroTimer(c)
    PROVE  Carried /\ PlayInv'
<1>1. /\ now' \in Nat /\ now <= now' /\ now' = now /\ Sound(cores[c], now, isMobile)
      /\ UNCHANGED <<twofold, attached, started, hidden, over, scrolling, overtaken, revived>>
  BY TimeFacts DEF IntroTimer, IInv, element, mouse, history
<1>2. cores[c] \in Core
  BY <1>1 DEF Sound, CoreInv, DrawnInv
<1>3. PICK i : /\ i \in {"started", "finished"} /\ cores' = [cores EXCEPT ![c].intro = i]
               /\ cores[c].intro \in {"running", "open"}
               /\ cores[c].intro \in Unending => i \in Unending \/ ~twofold
  BY DEF IntroTimer, Unending
<1>4. PICK r : r = [cores[c] EXCEPT !.intro = i]
  OBVIOUS
<1>5. r \in Core
  <2>1. i \in {None, "created", "running", "started", "open", "finished"}
    BY <1>3
  <2> QED BY <1>2, <1>4, <2>1 DEF Core
<1>6. /\ SameBands(cores[c], r) /\ r.isCountdownComplete = cores[c].isCountdownComplete
      /\ r.isPlaying = cores[c].isPlaying /\ r.frames = cores[c].frames
      /\ r.pauses = cores[c].pauses /\ r.threw = cores[c].threw
      /\ r.showCurrentTime = cores[c].showCurrentTime /\ r.intro = i
  BY <1>2, <1>4 DEF Core, SameBands
<1>7. {cores[c].intro, r.intro} \cap {None} = {}
  BY <1>3, <1>6, TimerAssumption
<1>8. Sound(r, now, isMobile) /\ Kept(cores[c], r) /\ r.isPlaying = cores[c].isPlaying
  <2>1. twofold /\ cores[c].intro \in Unending => r.intro \in Unending
    BY <1>3, <1>6
  <2> QED BY <1>1, <1>5, <1>6, <1>7, <2>1, TouchFacts
<1>9. Sound(r, now', isMobile) /\ cores' = [cores EXCEPT ![c] = r]
  BY <1>1, <1>3, <1>4, <1>8
<1> QED BY <1>1, <1>8, <1>9, OneStep

LEMMA RandomIntervalStep ==
    ASSUME IInv, NEW c \in DOMAIN cores, NEW b \in Band, RandomInterval(c, b)
    PROVE  Carried /\ PlayInv'
<1>1. /\ now \in Nat /\ now' \in Nat /\ now <= now' /\ now' = now /\ Sound(cores[c], now, isMobile)
      /\ b \in cores[c].random
      /\ UNCHANGED <<twofold, attached, started, hidden, over, scrolling, overtaken, revived>>
  BY TimeFacts DEF RandomInterval, IInv, element, mouse, history
<1>2. PICK r : r = ChangeShape(cores[c], [x \in {b} |-> Icon])
  OBVIOUS
<1>3. cores' = [cores EXCEPT ![c] = r]
  BY <1>2 DEF RandomInterval
<1>4. Sound(r, now, isMobile) /\ Kept(cores[c], r) /\ r.isPlaying = cores[c].isPlaying
  BY <1>1, <1>2, IntervalFacts
<1>5. Sound(r, now', isMobile)
  BY <1>1, <1>4
<1> QED BY <1>1, <1>3, <1>4, <1>5, OneStep

\* Two conclusions about what is shown: all play, or nothing has to.
LEMMA AllPlay ==
    ASSUME IInv, DOMAIN cores' = DOMAIN cores, \A c \in DOMAIN cores : cores'[c].isPlaying,
           UNCHANGED <<twofold, over>>, attached' \/ revived'
    PROVE  PlayInv'
<1>1. Shown' \in DOMAIN cores
  BY ShownFacts DEF Shown
<1> QED BY <1>1 DEF PlayInv

LEMMA NonePlays ==
    ASSUME IInv, DOMAIN cores' = DOMAIN cores, \A c \in DOMAIN cores : ~cores'[c].isPlaying,
           hidden' \/ scrolling' \/ ~attached'
    PROVE  PlayInv'
BY DEF PlayInv

LEMMA PageTransitionDoneStep ==
    ASSUME IInv, PageTransitionDone
    PROVE  Carried /\ PlayInv'
<1>1. now' = now /\ PlayAll /\ UNCHANGED <<twofold, over>> /\ attached'
  BY DEF PageTransitionDone, mouse
<1>2. Carried /\ \A c \in DOMAIN cores : cores'[c].isPlaying
  BY <1>1, PlayAllFacts
<1>3. DOMAIN cores' = DOMAIN cores
  BY <1>2 DEF Carried
<1> QED BY <1>1, <1>2, <1>3, AllPlay

LEMMA HideStep ==
    ASSUME IInv, Hide
    PROVE  Carried /\ PlayInv'
<1>1. /\ now' = now /\ hidden' /\ now \in Nat /\ now' \in Nat /\ now <= now'
      /\ UNCHANGED <<twofold, attached, started, over, scrolling, overtaken, revived>>
  BY TimeFacts DEF Hide, element, mouse, history
<1>2. CASE attached
  <2>1. PauseAll
    BY <1>2 DEF Hide
  <2>2. Carried /\ \A c \in DOMAIN cores : ~cores'[c].isPlaying
    BY <1>1, <2>1, PauseAllFacts
  <2>3. DOMAIN cores' = DOMAIN cores
    BY <2>2 DEF Carried
  <2> QED BY <1>1, <2>2, <2>3, NonePlays
<1>3. CASE ~attached
  <2>1. cores' = cores
    BY <1>3 DEF Hide
  <2>2. Carried /\ SamePlaying
    BY <1>1, <2>1, StillFacts
  <2>3. PlayInv'
    BY <1>1, <1>3, <2>1 DEF IInv, PlayInv
  <2> QED BY <2>2, <2>3
<1> QED BY <1>2, <1>3

LEMMA ShowStep ==
    ASSUME IInv, Show
    PROVE  Carried /\ PlayInv'
<1>1. /\ now' = now /\ now \in Nat /\ now' \in Nat /\ now <= now'
      /\ UNCHANGED <<twofold, attached, started, over, scrolling, revived>>
  BY TimeFacts DEF Show, element, mouse
<1>2. CASE attached
  <2>1. PlayAll /\ attached'
    BY <1>1, <1>2 DEF Show
  <2>2. Carried /\ \A c \in DOMAIN cores : cores'[c].isPlaying
    BY <1>1, <2>1, PlayAllFacts
  <2>3. DOMAIN cores' = DOMAIN cores
    BY <2>2 DEF Carried
  <2> QED BY <1>1, <2>1, <2>2, <2>3, AllPlay
<1>3. CASE ~attached
  <2>1. cores' = cores
    BY <1>3 DEF Show
  <2>2. Carried /\ SamePlaying
    BY <1>1, <2>1, StillFacts
  <2>3. PlayInv'
    BY <1>1, <1>3, <2>1 DEF IInv, PlayInv
  <2> QED BY <2>2, <2>3
<1> QED BY <1>2, <1>3

LEMMA ResizeStep ==
    ASSUME IInv, Resize
    PROVE  Carried /\ PlayInv'
<1>1. /\ now' = now /\ now \in Nat /\ now' \in Nat /\ now <= now'
      /\ UNCHANGED <<twofold, attached, started, hidden, over, scrolling, overtaken, revived>>
  BY TimeFacts DEF Resize, mouse, history
<1>2. CASE attached
  <2>1. /\ DOMAIN cores' = DOMAIN cores
        /\ \A c \in DOMAIN cores : cores'[c] = [cores[c] EXCEPT !.needsCanvasReset = TRUE]
    BY <1>2 DEF Resize
  <2>2. ASSUME NEW c \in DOMAIN cores
        PROVE  /\ Sound(cores'[c], now', isMobile) /\ Kept(cores[c], cores'[c])
               /\ cores'[c].isPlaying = cores[c].isPlaying
    <3>1. PICK k : k = cores[c]
      OBVIOUS
    <3>2. PICK r : r = [k EXCEPT !.needsCanvasReset = TRUE]
      OBVIOUS
    <3>3. Sound(k, now, isMobile)
      BY <3>1 DEF IInv
    <3>4. k \in Core
      BY <3>3 DEF Sound, CoreInv, DrawnInv
    <3>5. r \in Core
      BY <3>2, <3>4 DEF Core
    <3>6. /\ SameBands(k, r) /\ r.isCountdownComplete = k.isCountdownComplete
          /\ r.isPlaying = k.isPlaying /\ r.frames = k.frames /\ r.pauses = k.pauses
          /\ r.threw = k.threw /\ r.showCurrentTime = k.showCurrentTime /\ r.intro = k.intro
      BY <3>2, <3>4 DEF Core, SameBands
    <3>7. Sound(r, now, isMobile) /\ Kept(k, r) /\ r.isPlaying = k.isPlaying
      BY <3>3, <3>5, <3>6, TouchFacts
    <3>8. cores'[c] = r
      BY <2>1, <3>1, <3>2
    <3> QED BY <1>1, <3>1, <3>7, <3>8
  <2>3. Carried /\ SamePlaying
    BY <2>1, <2>2 DEF Carried, SamePlaying
  <2> QED BY <1>1, <2>1, <2>3, PlayKept
<1>3. CASE ~attached
  <2>1. cores' = cores
    BY <1>3 DEF Resize
  <2>2. Carried /\ SamePlaying
    BY <1>1, <2>1, StillFacts
  <2> QED BY <1>1, <2>1, <2>2, PlayKept
<1> QED BY <1>2, <1>3

LEMMA MoveStep ==
    ASSUME IInv, NEW enters \in BOOLEAN, Move(enters)
    PROVE  Carried /\ PlayInv'
<1>1. PICK c : c = IF enters THEN "clock" ELSE "logo"
  OBVIOUS
<1>2. /\ now' = now /\ now \in Nat /\ now' \in Nat /\ now <= now' /\ isMobile \in BOOLEAN
      /\ twofold /\ twofold' /\ attached' /\ over' = enters /\ cores' = [cores EXCEPT ![c] = Play(cores[c])]
  BY <1>1, TimeFacts DEF Move, element
<1>3. c \in DOMAIN cores
  BY <1>1, <1>2, ShownFacts
<1>4. PICK r : r = Play(cores[c])
  OBVIOUS
<1>5. Sound(r, now, isMobile) /\ Kept(cores[c], r) /\ r.isPlaying
  <2>1. Sound(cores[c], now, isMobile)
    BY <1>3 DEF IInv
  <2> QED BY <1>2, <1>4, <2>1, PlayFacts
<1>6. Sound(r, now', isMobile) /\ cores' = [cores EXCEPT ![c] = r]
  BY <1>2, <1>4, <1>5
<1>7. Carried /\ cores'[c] = r
  BY <1>2, <1>3, <1>5, <1>6, OneFacts
<1>8. Shown' = c
  BY <1>1, <1>2 DEF Shown
<1>9. PlayInv'
  BY <1>2, <1>5, <1>7, <1>8 DEF PlayInv
<1> QED BY <1>7, <1>9

LEMMA TickStep ==
    ASSUME IInv, Tick
    PROVE  Carried /\ PlayInv' /\ FadeInv'
<1>1. /\ now' = now /\ now \in Nat /\ now' \in Nat /\ now <= now'
      /\ UNCHANGED <<over, twofold, attached, started, hidden, scrolling, revived>>
      /\ fresh' = None /\ None \notin {"enter", "leave"}
  BY TimeFacts, TimerAssumption DEF Tick, element
<1>2. PICK ends \in {FALSE, fade # None} :
        /\ cores' = CASE ends /\ fade = "enter" -> [cores EXCEPT !["logo"] = Pause(@)]
                      [] ends /\ fade = "leave" -> [cores EXCEPT !["clock"] = Pause(@)]
                      [] OTHER -> cores
        /\ fade' = (IF fresh # None THEN fresh ELSE IF ends THEN None ELSE fade)
        /\ overtaken' = (overtaken \/ (ends /\ fresh # None))
  BY DEF Tick
<1>3. FadeInv'
  BY <1>1, <1>2 DEF IInv, FadeInv
<1>4. CASE ~ends
  <2>1. cores' = cores
    BY <1>2, <1>4
  <2>2. Carried /\ SamePlaying
    BY <1>1, <2>1, StillFacts
  <2>3. PlayInv'
    BY <1>1, <1>2, <1>4, <2>1 DEF IInv, PlayInv, Shown
  <2> QED BY <1>3, <2>2, <2>3
<1>5. CASE ends
  <2>1. fade \in {"enter", "leave"} /\ twofold
    BY <1>2, <1>5 DEF IInv, Scalars, FadeInv
  <2>2. PICK c : c = IF fade = "enter" THEN "logo" ELSE "clock"
    OBVIOUS
  <2>3. cores' = [cores EXCEPT ![c] = Pause(cores[c])]
    <3>1. CASE fade = "enter"
      BY <1>2, <1>5, <2>2, <3>1
    <3>2. CASE fade = "leave"
      BY <1>2, <1>5, <2>2, <3>2
    <3> QED BY <2>1, <3>1, <3>2
  <2>4. c \in DOMAIN cores
    BY <2>1, <2>2, ShownFacts
  <2>5. PICK r : r = Pause(cores[c])
    OBVIOUS
  <2>6. Sound(r, now, isMobile) /\ Kept(cores[c], r) /\ ~r.isPlaying
    <3>1. Sound(cores[c], now, isMobile)
      BY <2>4 DEF IInv
    <3> QED BY <2>5, <3>1, PauseFacts
  <2>7. Sound(r, now', isMobile) /\ cores' = [cores EXCEPT ![c] = r]
    BY <1>1, <2>3, <2>5, <2>6
  <2>8. Carried /\ cores'[c] = r /\ \A d \in DOMAIN cores : d # c => cores'[d] = cores[d]
    BY <1>1, <2>4, <2>6, <2>7, OneFacts
  <2>9. fresh = None => Shown # c
    BY <1>1, <2>1, <2>2 DEF IInv, FadeInv, Shown
  <2>10. Shown' = Shown /\ Shown \in DOMAIN cores
    BY <1>1, ShownFacts DEF Shown
  <2>11. attached' /\ started' /\ ~hidden' /\ ~scrolling' => cores'[Shown'].isPlaying \/ overtaken'
    <3>1. CASE fresh # None
      BY <1>2, <1>5, <3>1
    <3>2. CASE fresh = None
      BY <1>1, <1>2, <2>8, <2>9, <2>10, <3>2 DEF IInv, PlayInv
    <3> QED BY <3>1, <3>2
  <2>12. ~attached' => revived' \/ \A d \in DOMAIN cores' : ~cores'[d].isPlaying
    BY <1>1, <2>6, <2>8 DEF IInv, PlayInv, Carried
  <2> QED BY <1>3, <2>8, <2>11, <2>12 DEF PlayInv
<1> QED BY <1>4, <1>5

LEMMA PageScrollStep ==
    ASSUME IInv, PageScroll
    PROVE  Carried /\ PlayInv'
<1>1. now' = now /\ PauseAll /\ scrolling'
  BY DEF PageScroll
<1>2. Carried /\ \A c \in DOMAIN cores : ~cores'[c].isPlaying
  BY <1>1, PauseAllFacts
<1>3. DOMAIN cores' = DOMAIN cores
  BY <1>2 DEF Carried
<1> QED BY <1>1, <1>2, <1>3, NonePlays

LEMMA EnableCountdownStep ==
    ASSUME IInv, EnableCountdown
    PROVE  Carried /\ PlayInv'
<1>1. now' = now /\ PlayAll /\ UNCHANGED <<twofold, over>> /\ (attached' \/ revived')
  BY DEF EnableCountdown, mouse
<1>2. Carried /\ \A c \in DOMAIN cores : cores'[c].isPlaying
  BY <1>1, PlayAllFacts
<1>3. DOMAIN cores' = DOMAIN cores
  BY <1>2 DEF Carried
<1> QED BY <1>1, <1>2, <1>3, AllPlay

LEMMA DetachStep ==
    ASSUME IInv, Detach
    PROVE  Carried /\ PlayInv'
<1>1. now' = now /\ PauseAll /\ ~attached'
  BY DEF Detach
<1>2. Carried /\ \A c \in DOMAIN cores : ~cores'[c].isPlaying
  BY <1>1, PauseAllFacts
<1>3. DOMAIN cores' = DOMAIN cores
  BY <1>2 DEF Carried
<1> QED BY <1>1, <1>2, <1>3, NonePlays

-----------------------------------------------------------------------------
(* The inductive invariant.                                                *)

LEMMA InitInv == Init => IInv
<1> SUFFICES ASSUME Init
    PROVE  IInv
  OBVIOUS
<1>1. now \in Times /\ now \in Nat /\ None \notin Unending /\ "created" \in Unending /\ MaxUser \in Nat
  BY TimerAssumption DEF Init, Unending
<1>2. PICK intro \in {None, "created"} :
        cores = [c \in IF twofold THEN {"clock", "logo"} ELSE {"clock"} |->
                   IF c = "clock" THEN SetUp(twofold, intro) ELSE SetUp(FALSE, "created")]
  BY DEF Init
<1>3. twofold \in BOOLEAN
  BY DEF Init
<1>4. PICK clock : clock = SetUp(twofold, intro)
  OBVIOUS
<1>5. PICK logo : logo = SetUp(FALSE, "created")
  OBVIOUS
<1>6. Sound(clock, now, isMobile) /\ ~clock.isPlaying /\ clock.showCurrentTime = twofold
  BY <1>1, <1>3, <1>4, SetUpFacts
<1>7. /\ Sound(logo, now, isMobile) /\ ~logo.isPlaying /\ logo.showCurrentTime = FALSE
      /\ logo.intro = "created"
  <2>1. FALSE \in BOOLEAN /\ "created" \in {None, "created"}
    OBVIOUS
  <2> QED BY <1>1, <1>5, <2>1, SetUpFacts
<1>8. /\ DOMAIN cores = (IF twofold THEN {"clock", "logo"} ELSE {"clock"})
      /\ cores["clock"] = clock /\ (twofold => cores["logo"] = logo)
  BY <1>2, <1>4, <1>5
<1>9. Scalars
  <2>1. isMobile = (width # "above")
    BY DEF Init
  <2>2. isMobile \in BOOLEAN
    BY <2>1, Zenon
  <2>3. /\ width \in {"below", "at", "above"} /\ attached = TRUE /\ started = FALSE /\ hidden = FALSE
        /\ over = FALSE /\ scrolling = FALSE /\ overtaken = FALSE /\ revived = FALSE
        /\ fade = None /\ fresh = None /\ used = 0
    BY DEF Init
  <2>4. used \in 0..MaxUser
    BY <1>1, <2>3
  <2>5. DOMAIN cores = IF twofold THEN {"clock", "logo"} ELSE {"clock"}
    BY <1>8
  <2> QED BY <1>1, <1>3, <2>2, <2>3, <2>4, <2>5, Zenon DEF Scalars
<1>10. Kinds
  BY <1>1, <1>6, <1>7, <1>8 DEF Kinds
<1>11. FadeInv
  BY DEF Init, FadeInv
<1>12. PlayInv
  BY DEF Init, PlayInv
<1>13. \A c \in DOMAIN cores : Sound(cores[c], now, isMobile)
  BY <1>3, <1>6, <1>7, <1>8
<1> QED BY <1>9, <1>10, <1>11, <1>12, <1>13 DEF IInv

LEMMA StepScalars ==
    ASSUME IInv, Next, DOMAIN cores' = DOMAIN cores
    PROVE  Scalars' /\ UNCHANGED <<isMobile, twofold>>
<1>1. Scalars /\ MaxUser \in Nat
  BY TimerAssumption DEF IInv
<1>2. CASE Pass
  BY <1>1, <1>2 DEF Pass, Scalars, element, mouse, history
<1>3. ASSUME NEW c \in DOMAIN cores, Frame(c) \/ IntroTimer(c) \/ \E b \in Band : RandomInterval(c, b)
      PROVE  Scalars' /\ UNCHANGED <<isMobile, twofold>>
  <2>1. CASE Frame(c)
    BY <1>1, <2>1 DEF Frame, Scalars, element, mouse, history
  <2>2. CASE IntroTimer(c)
    BY <1>1, <2>2 DEF IntroTimer, Scalars, element, mouse, history
  <2>3. ASSUME NEW b \in Band, RandomInterval(c, b)
        PROVE  Scalars' /\ UNCHANGED <<isMobile, twofold>>
    BY <1>1, <2>3 DEF RandomInterval, Scalars, element, mouse, history
  <2> QED BY <1>3, <2>1, <2>2, <2>3
<1>4. CASE PageTransitionDone
  BY <1>1, <1>4 DEF PageTransitionDone, Scalars, mouse
<1>5. CASE Hide
  BY <1>1, <1>5 DEF Hide, User, Scalars, element, mouse, history
<1>6. CASE Show
  BY <1>1, <1>6 DEF Show, Scalars, element, mouse
<1>7. CASE Resize
  BY <1>1, <1>7 DEF Resize, User, Scalars, mouse, history
<1>8. ASSUME NEW enters \in BOOLEAN, Move(enters)
      PROVE  Scalars' /\ UNCHANGED <<isMobile, twofold>>
  <2>1. fresh' \in {"enter", "leave", None} /\ overtaken' \in BOOLEAN /\ over' \in BOOLEAN
    BY <1>8 DEF Move
  <2>2. used' \in 0..MaxUser
    BY <1>1, <1>8 DEF Move, User, Scalars
  <2>3. UNCHANGED <<now, width, isMobile, twofold, attached, started, hidden, fade, scrolling, revived>>
    BY <1>8 DEF Move, element
  <2> QED BY <1>1, <2>1, <2>2, <2>3 DEF Scalars
<1>9. CASE Tick
  <2>1. overtaken' \in BOOLEAN /\ fade' \in {"enter", "leave", None}
    BY <1>1, <1>9 DEF Tick, Scalars
  <2> QED BY <1>1, <1>9, <2>1 DEF Tick, Scalars, element
<1>10. CASE PageScroll
  BY <1>1, <1>10 DEF PageScroll, User, Scalars, element, mouse, history
<1>11. CASE EnableCountdown
  <2>1. revived' \in BOOLEAN
    BY <1>1, <1>11 DEF EnableCountdown, Scalars
  <2> QED BY <1>1, <1>11, <2>1 DEF EnableCountdown, Scalars, mouse
<1>12. CASE Detach
  BY <1>1, <1>12 DEF Detach, Scalars, mouse, history
<1> QED BY <1>2, <1>3, <1>4, <1>5, <1>6, <1>7, <1>8, <1>9, <1>10, <1>11, <1>12 DEF Next

\* Only Move and Tick touch the mouse.
LEMMA StepFade ==
    ASSUME IInv, Next, twofold' = twofold
    PROVE  FadeInv'
<1>1. CASE UNCHANGED mouse
  BY <1>1 DEF IInv, FadeInv, mouse
<1>2. ASSUME NEW enters \in BOOLEAN, Move(enters)
      PROVE  FadeInv'
  <2>1. /\ twofold' /\ over' = enters /\ fresh' = (IF enters THEN "enter" ELSE "leave")
        /\ fresh' # None
    BY <1>2, TimerAssumption DEF Move
  <2> QED BY <2>1 DEF FadeInv
<1>3. CASE Tick
  BY <1>3, TickStep
<1>4. \/ UNCHANGED mouse \/ Tick \/ \E enters \in BOOLEAN : Move(enters)
  BY DEF Next, Pass, Frame, IntroTimer, RandomInterval, PageTransitionDone, Hide, Show, Resize,
         PageScroll, EnableCountdown, Detach
<1> QED BY <1>1, <1>2, <1>3, <1>4

LEMMA StepCores ==
    ASSUME IInv, Next
    PROVE  Carried /\ PlayInv'
<1>1. ASSUME NEW c \in DOMAIN cores, Frame(c) \/ IntroTimer(c) \/ \E b \in Band : RandomInterval(c, b)
      PROVE  Carried /\ PlayInv'
  BY <1>1, FrameStep, IntroTimerStep, RandomIntervalStep
<1>2. ASSUME NEW enters \in BOOLEAN, Move(enters)
      PROVE  Carried /\ PlayInv'
  BY <1>2, MoveStep
<1> QED BY <1>1, <1>2, PassStep, PageTransitionDoneStep, HideStep, ShowStep, ResizeStep, TickStep,
           PageScrollStep, EnableCountdownStep, DetachStep DEF Next

LEMMA StepInv == IInv /\ [Next]_vars => IInv'
<1> SUFFICES ASSUME IInv, [Next]_vars
    PROVE  IInv'
  OBVIOUS
<1>1. CASE Next
  <2>1. Carried /\ PlayInv' /\ DOMAIN cores' = DOMAIN cores
    BY <1>1, StepCores DEF Carried
  <2>2. Scalars' /\ isMobile' = isMobile /\ twofold' = twofold
    BY <1>1, <2>1, StepScalars
  <2>3. FadeInv'
    BY <1>1, <2>2, StepFade
  <2>4. Kinds'
    <3>1. Kept(cores["clock"], cores'["clock"]) /\ (twofold => Kept(cores["logo"], cores'["logo"]))
      BY <2>1, ShownFacts DEF Carried
    <3> QED BY <2>2, <3>1 DEF IInv, Kinds, Kept
  <2>5. \A c \in DOMAIN cores' : Sound(cores'[c], now', isMobile')
    BY <2>1, <2>2 DEF Carried
  <2> QED BY <2>1, <2>2, <2>3, <2>4, <2>5 DEF IInv
<1>2. CASE UNCHANGED vars
  BY <1>2 DEF vars, element, mouse, history, IInv, Scalars, Kinds, FadeInv, PlayInv, Shown
<1> QED BY <1>1, <1>2

LEMMA Inductive == Spec => []IInv
BY InitInv, StepInv, PTL DEF Spec

\* The countdown, whatever its date and however its seconds, frames, moves of the
\* mouse, hides and scrolls interleave: a Core is always one that the code can build,
\* and the last columns of what it compares stay within their units.
THEOREM TypeCorrect == Spec => []TypeOK
<1>1. IInv => TypeOK
  <2> SUFFICES ASSUME IInv
      PROVE  TypeOK
    OBVIOUS
  <2>1. Scalars
    BY DEF IInv
  <2>2. \A c \in DOMAIN cores : cores[c] \in Core /\ Ranged(cores[c].lastNumbers)
    BY DEF IInv, Sound, CoreInv, DrawnInv
  <2> QED BY <2>1, <2>2 DEF Scalars, TypeOK, Ranged
<1> QED BY Inductive, <1>1, PTL

\* After each frame the bands spell the time of that frame, with the exceptions that
\* ShowsTheTime names: what CheckTime leaves alone was right already.
THEOREM TimeIsShown == Spec => []ShowsTheTime
<1>1. IInv => ShowsTheTime
  <2> SUFFICES ASSUME IInv
      PROVE  ShowsTheTime
    OBVIOUS
  <2>1. /\ DrawnInv(Clock, now, isMobile) /\ ThrewInv(Clock)
        /\ Clock.showCurrentTime = twofold /\ now \in Nat /\ Target \in Nat
    BY ShownFacts, TimeFacts, TimerAssumption DEF IInv, Sound, CoreInv, Clock, Kinds
  <2>2. Clock.randomizing => ~twofold /\ now >= Target
    BY <2>1 DEF DrawnInv, Core, Ending
  <2>3. Clock.threw => /\ ~twofold
                       /\ Clock.drawn >= Target \/ Clock.shape[0] = Invalid \/ 0 \in Clock.oldInvalid
    BY <2>1 DEF ThrewInv
  <2>4. ASSUME ~Clock.firstRun, ~Clock.randomizing
        PROVE  /\ Clock.lastNumbers = NextColumnValues(Clock.showCurrentTime, Clock.drawn)
               /\ Spells(Clock, Clock.lastNumbers, isMobile)
    BY <2>1, <2>4 DEF DrawnInv, Settled
  <2> QED BY <2>2, <2>3, <2>4 DEF ShowsTheTime, Spells
<1> QED BY Inductive, <1>1, PTL

\* Each Core draws in one loop, and in at most one more for each time it was paused.
THEOREM OneLoopEach == Spec => []OneLoop
<1>1. IInv => OneLoop
  <2> SUFFICES ASSUME IInv, NEW c \in DOMAIN cores
      PROVE  cores[c].frames <= 1 + cores[c].pauses
    BY DEF OneLoop
  <2>1. cores[c] \in Core /\ LoopInv(cores[c])
    BY DEF IInv, Sound, CoreInv, DrawnInv
  <2>2. cores[c].frames \in Nat /\ cores[c].pauses \in Nat
    BY <2>1 DEF Core
  <2> QED BY <2>1, <2>2 DEF LoopInv
<1> QED BY Inductive, <1>1, PTL

\* Whoever looks at a started timer sees the canvas that is shown being drawn, and
\* nothing draws on when the page is left, with the exceptions of DrawnWhileShown.
THEOREM DrawnWhenShown == Spec => []DrawnWhileShown
<1>1. IInv => DrawnWhileShown
  <2> SUFFICES ASSUME IInv
      PROVE  DrawnWhileShown
    OBVIOUS
  <2>1. LoopInv(cores[Shown]) /\ ThrewInv(cores[Shown])
    BY ShownFacts DEF IInv, Sound, CoreInv
  <2>2. cores[Shown].threw => Shown = "clock"
    <3>1. twofold => cores["logo"].intro # None
      BY TimerAssumption DEF IInv, Kinds, Unending
    <3> QED BY <2>1, <3>1 DEF ThrewInv, Shown
  <2>3. cores[Shown].isPlaying => cores[Shown].frames > 0 \/ Clock.threw
    BY <2>1, <2>2 DEF LoopInv, Clock
  <2> QED BY <2>3 DEF IInv, PlayInv, DrawnWhileShown
<1> QED BY Inductive, <1>1, PTL

=============================================================================
