--------------------------- MODULE NesVideoProofs ---------------------------
(***************************************************************************)
(* What NesVideo promises of a vertical blank and of the frame, for every   *)
(* geometry of the picture, every set of step lengths and every stall.      *)
(*                                                                          *)
(* Each property gets a strengthening of its own that is inductive on top   *)
(* of TypeOK: they speak about disjoint histories.                          *)
(***************************************************************************)
EXTENDS NesVideo, TLAPS

\* The parity that shortens a frame is off after a shortened one.
FrameInv ==
    /\ short.last => ~oddSwap
    /\ ~(short.last /\ short.before)
    /\ crashed => line = -1

\* A blank that was reported has its flag down, and a pending suppression was
\* caused by the last read.
BlankInv ==
    /\ reports > 0 => ~isVblank \/ edgeRead
    /\ reports > 1 => edgeRead
    /\ suppressVbl => lastOnEdge
    /\ lost # "unexplained"

\* An interrupt still pending counts as one to be taken.
NmiInv == nmis + (IF nmiPending THEN 1 ELSE 0) <= 1 + enables

\* Dots from the rise of the flag to the start of the pre-render line, and the
\* dots of them that have passed.
Blank == (PreRender - VblLine) * Dots - 1
Elapsed == (line - VblLine) * Dots + dot - 1

\* A poller takes no interrupt but Reset and no stall, so that a step is shorter
\* than the blank; and as long as the flag is up, this step ends before the flag is due
\* to fall.  Within a step that has polled, the flag is up only on the first dot.
PollInv ==
    guest = "poller" =>
        /\ ~nmiable /\ ~nmiPending /\ stall = 0
        /\ dotsLeft < Blank
        /\ inStep => dotsLeft = 0
        /\ isVblank => /\ 0 <= Elapsed /\ Elapsed + dotsLeft < Blank
                       /\ inStep /\ polled => Elapsed = 0

\* The geometry as the steps below use it.
LEMMA ConstantFacts ==
    /\ Visible \in Nat /\ PreRender \in Nat /\ Dots \in Nat /\ NmiCost \in Nat /\ DmaStall \in Nat
    /\ PreRender > 1 /\ Dots >= 4 /\ Visible >= 1
    /\ Costs \subseteq Nat
BY VideoAssumption DEF VideoAssumption, VblLine

\* The part of TypeOK that arithmetic needs.
LEMMA NumberFacts ==
    TypeOK => /\ line \in -1 .. PreRender /\ dot \in 0 .. Dots - 1
              /\ interruptCycle \in {0, NmiCost} /\ stall \in Nat
              /\ dotsLeft \in Nat /\ reports \in 0 .. 2 /\ nmis \in 0 .. 3 /\ enables \in 0 .. 3
BY DEF TypeOK

\* Every action keeps the types; the beam never leaves the frame.
LEMMA TypeStep == TypeOK /\ [Next]_vars => TypeOK'
<1> SUFFICES ASSUME TypeOK, [Next]_vars PROVE TypeOK'
    OBVIOUS
<1> USE ConstantFacts, NumberFacts
<1>1. CASE BeginStep
  <2>1. nmis' \in 0 .. 3 /\ interruptCycle' \in {0, NmiCost}
    BY <1>1 DEF BeginStep, Capped
  <2> QED BY <1>1, <2>1 DEF TypeOK, BeginStep
<1>2. ASSUME NEW c \in Costs, EndStep(c) PROVE TypeOK'
  <2>1. dotsLeft' \in Nat
    BY <1>2 DEF EndStep
  <2> QED BY <1>2, <2>1 DEF TypeOK, EndStep, ppu, history
<1>3. CASE ReadStatus
  <2>1. reports' \in 0 .. 2
    BY <1>3 DEF ReadStatus, Capped
  <2> QED BY <1>3, <2>1, ZenonT(60) DEF TypeOK, ReadStatus, AtEdge, cpu
<1>4. ASSUME NEW on \in BOOLEAN, WriteControl(on) PROVE TypeOK'
  <2>1. enables' \in 0 .. 3
    BY <1>4 DEF WriteControl, Capped
  <2> QED BY <1>4, <2>1 DEF TypeOK, WriteControl, cpu
<1>5. ASSUME NEW s \in {"none", "sprites", "background"}, WriteMask(s) PROVE TypeOK'
  BY <1>5 DEF TypeOK, WriteMask, cpu, history
<1>6. CASE OamDma
  <2>1. stall' \in Nat
    BY <1>6 DEF OamDma
  <2> QED BY <1>6, <2>1 DEF TypeOK, OamDma, ppu, history
<1>7. CASE RenderOutside
  BY <1>7 DEF TypeOK, RenderOutside, cpu, history
<1>8. CASE PpuStep
  <2> DEFINE next == IF Skips(dot + 1) THEN dot + 1 + 1 ELSE dot + 1
  <2>1. dotsLeft' \in Nat
    <3>1. dotsLeft > 0 /\ dotsLeft' = dotsLeft - 1
      BY <1>8, Zenon DEF PpuStep
    <3> QED BY <3>1
  <2>2. line' \in -1 .. PreRender /\ dot' \in 0 .. Dots - 1
    <3>1. Skips(dot + 1) => dot + 1 = Dots - 2
      BY Zenon DEF Skips, OddFrameDot
    <3>2. next \in 1 .. Dots
      BY <3>1
    <3>3. dot' = (IF next = Dots THEN 0 ELSE next)
      BY <1>8, Zenon DEF PpuStep
    <3>4. line' = (IF next # Dots THEN line ELSE IF line = PreRender THEN 0 ELSE line + 1)
      BY <1>8, Zenon DEF PpuStep
    <3> HIDE DEF next
    <3> QED BY <3>2, <3>3, <3>4
  <2>3. {isVblank, suppressVbl, nmiPending, oddSwap, edgeRead, lastOnEdge}' \subseteq BOOLEAN
    BY <1>8 DEF TypeOK, PpuStep, FlagAfter, SuppressAfter, NmiAfter, OddSwapAfter
  <2>4. reports' \in 0 .. 2 /\ nmis' \in 0 .. 3 /\ enables' \in 0 .. 3
    <3>1. reports' \in {0, reports} /\ nmis' \in {0, nmis} /\ enables' \in {0, enables}
      BY <1>8, Zenon DEF PpuStep
    <3> QED BY <3>1
  <2>5. lost' \in {"no", "after edge", "unexplained"}
    BY <1>8 DEF TypeOK, PpuStep
  <2>6. short' \in [last : BOOLEAN, before : BOOLEAN]
    <3>1. Skips(dot + 1) \in BOOLEAN
      BY DEF TypeOK, Skips, OddFrameDot, Rendering
    <3>2. short.last \in BOOLEAN /\ short \in [last : BOOLEAN, before : BOOLEAN]
      BY DEF TypeOK
    <3>3. short' = IF OddFrameDot(dot + 1) THEN [last |-> Skips(dot + 1), before |-> short.last]
                                           ELSE short
      BY <1>8 DEF PpuStep
    <3> QED BY <3>1, <3>2, <3>3
  <2> QED BY <1>8, <2>1, <2>2, <2>3, <2>4, <2>5, <2>6, ZenonT(60) DEF TypeOK, PpuStep
<1>9. CASE Stopped \/ UNCHANGED vars
  BY <1>9 DEF TypeOK, Stopped, vars, ppu, cpu, history
<1> QED BY <1>1, <1>2, <1>3, <1>4, <1>5, <1>6, <1>7, <1>8, <1>9 DEF Next

\* What a step does to the frame.
LEMMA FrameStep == TypeOK /\ FrameInv /\ [Next]_vars => FrameInv'
<1> SUFFICES ASSUME TypeOK, FrameInv, [Next]_vars PROVE FrameInv'
    OBVIOUS
<1>1. CASE BeginStep \/ (\E c \in Costs : EndStep(c)) \/ ReadStatus \/ OamDma
             \/ (\E on \in BOOLEAN : WriteControl(on))
             \/ (\E s \in {"none", "sprites", "background"} : WriteMask(s))
  BY <1>1 DEF FrameInv, BeginStep, EndStep, ReadStatus, OamDma, WriteControl, WriteMask,
              ppu, cpu, history
<1>2. CASE RenderOutside
  BY <1>2, ConstantFacts, NumberFacts DEF FrameInv, RenderOutside, RendersTile, cpu, history
<1>3. CASE PpuStep
  <2>1. CASE OddFrameDot(dot + 1)
    <3>1. short' = [last |-> Skips(dot + 1), before |-> short.last] /\ oddSwap' = ~oddSwap
      BY <1>3, <2>1 DEF PpuStep, OddSwapAfter
    <3>2. Skips(dot + 1) => oddSwap
      BY DEF Skips
    <3>3. ~crashed'
      BY <1>3 DEF PpuStep
    <3> QED BY <3>1, <3>2, <3>3 DEF FrameInv, TypeOK
  <2>2. CASE ~OddFrameDot(dot + 1)
    BY <1>3, <2>2 DEF FrameInv, PpuStep, OddSwapAfter
  <2> QED BY <2>1, <2>2
<1>4. CASE Stopped \/ UNCHANGED vars
  BY <1>4 DEF FrameInv, Stopped, vars, ppu, history
<1> QED BY <1>1, <1>2, <1>3, <1>4 DEF Next

\* What a step does to the announcement of a blank.
LEMMA BlankStep == TypeOK /\ BlankInv /\ [Next]_vars => BlankInv'
<1> SUFFICES ASSUME TypeOK, BlankInv, [Next]_vars PROVE BlankInv'
    OBVIOUS
<1>1. CASE BeginStep \/ (\E c \in Costs : EndStep(c)) \/ OamDma \/ RenderOutside
             \/ (\E on \in BOOLEAN : WriteControl(on))
             \/ (\E s \in {"none", "sprites", "background"} : WriteMask(s))
  BY <1>1 DEF BlankInv, BeginStep, EndStep, OamDma, RenderOutside, WriteControl, WriteMask,
              ppu, cpu, history
<1>2. CASE ReadStatus
  <2>1. CASE isVblank
    <3>1. /\ reports' = Capped(reports + 1, 2) /\ edgeRead' = (edgeRead \/ AtEdge)
          /\ (isVblank' => AtEdge)
      BY <1>2, <2>1 DEF ReadStatus
    <3>2. reports > 0 => edgeRead
      BY <2>1 DEF BlankInv
    <3>3. reports' > 1 => reports > 0
      BY <3>1, NumberFacts DEF Capped
    <3>4. (suppressVbl' <=> AtEdge) /\ (lastOnEdge' <=> AtEdge) /\ lost' = lost
      BY <1>2 DEF ReadStatus
    <3> QED BY <3>1, <3>2, <3>3, <3>4 DEF BlankInv
  <2>2. CASE ~isVblank
    BY <1>2, <2>2 DEF BlankInv, ReadStatus
  <2> QED BY <2>1, <2>2
<1>3. CASE PpuStep
  <2>1. CASE VblankDue(dot + 1)
    <3>1. isVblank' = (isVblank \/ ~suppressVbl) /\ suppressVbl' = FALSE /\ reports' = 0
      BY <1>3, <2>1 DEF PpuStep, FlagAfter, SuppressAfter, TypeOK
    <3>2. lost' = IF isVblank' THEN "no" ELSE IF lastOnEdge THEN "after edge" ELSE "unexplained"
      BY <1>3, <2>1 DEF PpuStep
    <3>3. ~suppressVbl' /\ reports' = 0
      BY <3>1
    <3>4. lost' # "unexplained"
      BY <3>1, <3>2 DEF BlankInv
    <3> QED BY <3>3, <3>4 DEF BlankInv
  <2>2. CASE ~VblankDue(dot + 1)
    <3>1. isVblank' => isVblank
      BY <1>3, <2>2 DEF PpuStep, FlagAfter
    <3>2. /\ reports' = reports /\ (edgeRead' <=> edgeRead) /\ (lastOnEdge' <=> lastOnEdge)
          /\ (suppressVbl' <=> suppressVbl) /\ lost' = lost
      BY <1>3, <2>2 DEF PpuStep, SuppressAfter
    <3> QED BY <3>1, <3>2 DEF BlankInv
  <2> QED BY <2>1, <2>2
<1>4. CASE Stopped \/ UNCHANGED vars
  BY <1>4 DEF BlankInv, Stopped, vars, ppu, history
<1> QED BY <1>1, <1>2, <1>3, <1>4 DEF Next

\* What a step does to the interrupts taken and still to be taken.
LEMMA NmiStep == TypeOK /\ NmiInv /\ [Next]_vars => NmiInv'
<1> SUFFICES ASSUME TypeOK, NmiInv, [Next]_vars PROVE NmiInv'
    OBVIOUS
<1> USE NumberFacts DEF NmiInv
<1>1. CASE BeginStep
  <2>1. /\ ~nmiPending' /\ enables' = enables
        /\ nmis' = IF nmiPending THEN Capped(nmis + 1, 3) ELSE nmis
    BY <1>1 DEF BeginStep
  <2> QED BY <2>1 DEF Capped
<1>2. ASSUME NEW on \in BOOLEAN, WriteControl(on) PROVE NmiInv'
  <2>1. /\ nmis' = nmis
        /\ enables' = IF ~nmiable /\ on THEN Capped(enables + 1, 3) ELSE enables
        /\ nmiPending' => nmiPending \/ (~nmiable /\ on)
    BY <1>2 DEF WriteControl
  <2> QED BY <2>1 DEF Capped
<1>3. CASE PpuStep
  <2>1. CASE VblankDue(dot + 1)
    <3>1. nmis' = 0 /\ enables' = 0
      BY <1>3, <2>1 DEF PpuStep
    <3> QED BY <3>1
  <2>2. CASE ~VblankDue(dot + 1)
    <3>1. nmis' = nmis /\ enables' = enables /\ (nmiPending' <=> nmiPending)
      BY <1>3, <2>2 DEF PpuStep, NmiAfter
    <3> QED BY <3>1
  <2> QED BY <2>1, <2>2
<1>4. CASE (\E c \in Costs : EndStep(c)) \/ ReadStatus \/ OamDma \/ RenderOutside
             \/ (\E s \in {"none", "sprites", "background"} : WriteMask(s))
             \/ Stopped \/ UNCHANGED vars
  <2>1. UNCHANGED <<nmis, enables, nmiPending>>
    BY <1>4 DEF EndStep, ReadStatus, OamDma, RenderOutside, WriteMask, Stopped, vars,
                ppu, cpu, history
  <2> QED BY <2>1
<1> QED BY <1>1, <1>2, <1>3, <1>4 DEF Next

\* Power-on satisfies the four parts of the invariant.
LEMMA InitFacts == Init => TypeOK /\ FrameInv /\ BlankInv /\ NmiInv
<1> SUFFICES ASSUME Init PROVE TypeOK /\ FrameInv /\ BlankInv /\ NmiInv
    OBVIOUS
<1>1. TypeOK
  <2>1. line \in -1 .. PreRender /\ dot \in 0 .. Dots - 1
    <3>1. line = -1 /\ dot = 0
      BY DEF Init
    <3> QED BY <3>1, ConstantFacts
  <2>2. {isVblank, suppressVbl, nmiable, nmiPending, oddSwap, inStep, crashed, polled,
         answer, edgeRead, lastOnEdge} \subseteq BOOLEAN
    BY DEF Init
  <2>3. interruptCycle \in {0, NmiCost} /\ stall \in Nat
    BY DEF Init
  <2>4. dotsLeft \in Nat /\ reports \in 0 .. 2 /\ nmis \in 0 .. 3 /\ enables \in 0 .. 3
    <3>1. dotsLeft = 0 /\ reports = 0 /\ nmis = 0 /\ enables = 0
      BY DEF Init
    <3> QED BY <3>1
  <2>5. short \in [last : BOOLEAN, before : BOOLEAN]
    BY DEF Init
  <2> QED BY <2>1, <2>2, <2>3, <2>4, <2>5 DEF Init, TypeOK
<1> QED BY <1>1 DEF Init, FrameInv, BlankInv, NmiInv

\* ppu_step_new keeps the beam in the frame, never shortens two frames in a row
\* and renders outside the picture only on the line -1 of power-on, for every
\* geometry.
THEOREM FrameKeepsShape == Spec => []FrameShape
<1>1. Init => TypeOK /\ FrameInv
  BY InitFacts
<1>2. TypeOK /\ FrameInv /\ [Next]_vars => (TypeOK /\ FrameInv)'
  BY TypeStep, FrameStep
<1>3. TypeOK /\ FrameInv => FrameShape
  BY DEF FrameShape, FrameInv
<1> QED BY <1>1, <1>2, <1>3, PTL DEF Spec

\* ppu_r_2002 reports a blank twice, or suppresses one, only through a read on
\* the first dot of a blank, for every geometry and alignment of the CPU.
THEOREM BlanksAnnouncedOnce == Spec => []BlankAnnouncedOnce
<1>1. Init => TypeOK /\ BlankInv
  BY InitFacts
<1>2. TypeOK /\ BlankInv /\ [Next]_vars => (TypeOK /\ BlankInv)'
  BY TypeStep, BlankStep
<1>3. TypeOK /\ BlankInv => BlankAnnouncedOnce
  BY DEF BlankAnnouncedOnce, BlankInv
<1> QED BY <1>1, <1>2, <1>3, PTL DEF Spec

\* Between two vertical blanks NmiInterrupt runs at most once, and once more for
\* each time ppu_w_2000 enables it.
THEOREM InterruptsCounted == Spec => []NmiPerBlank
<1>1. Init => TypeOK /\ NmiInv
  BY InitFacts
<1>2. TypeOK /\ NmiInv /\ [Next]_vars => (TypeOK /\ NmiInv)'
  BY TypeStep, NmiStep
<1>3. TypeOK /\ NmiInv => NmiPerBlank
  BY NumberFacts DEF NmiPerBlank, NmiInv
<1> QED BY <1>1, <1>2, <1>3, PTL DEF Spec

\* The time since the flag was due, dot by dot.
LEMMA BlankFacts ==
    TypeOK => /\ Blank \in Int /\ Elapsed \in Int
              /\ line = PreRender => Elapsed = Blank + dot
              /\ AtEdge => Elapsed = 0
<1> SUFFICES ASSUME TypeOK PROVE /\ Blank \in Int /\ Elapsed \in Int
                                 /\ line = PreRender => Elapsed = Blank + dot
                                 /\ AtEdge => Elapsed = 0
    OBVIOUS
<1>1. line \in Int /\ dot \in Int /\ PreRender \in Int /\ VblLine \in Int /\ Dots \in Int
  BY ConstantFacts, NumberFacts DEF VblLine
<1> DEFINE x == (line - VblLine) * Dots
           y == (PreRender - VblLine) * Dots
<1>2. /\ x \in Int /\ y \in Int /\ Elapsed = x + dot - 1 /\ Blank = y - 1
      /\ line = PreRender => x = y
  BY <1>1 DEF Elapsed, Blank
<1>3. line = VblLine => x = 0
  <2> SUFFICES ASSUME line = VblLine PROVE x = 0
    OBVIOUS
  <2>1. line - VblLine = 0
    BY <1>1
  <2>2. x = 0 * Dots
    BY <2>1
  <2> QED BY <1>1, <2>2
<1> HIDE DEF x, y
<1> QED BY <1>1, <1>2, <1>3 DEF AtEdge

\* A dot outside the pre-render line is one more since the blank began, and the
\* dot that raises the flag is the first.
LEMMA DotPasses ==
    ASSUME TypeOK, PpuStep, line # PreRender
    PROVE  /\ Elapsed' = Elapsed + 1
           /\ VblankDue(dot + 1) => Elapsed' = 0
<1> DEFINE n == dot + 1
<1>1. /\ line \in Int /\ dot \in Int /\ PreRender \in Int /\ VblLine \in Int
      /\ Dots \in Int /\ Dots >= 4
  BY ConstantFacts, NumberFacts DEF VblLine
<1>2. ~Skips(n)
  BY DEF Skips, OddFrameDot
<1>3. /\ dot' = (IF n = Dots THEN 0 ELSE n)
      /\ line' = (IF n # Dots THEN line ELSE line + 1)
  BY <1>2 DEF PpuStep
<1> DEFINE x == (line - VblLine) * Dots
<1>4. x \in Int /\ Elapsed = x + dot - 1
  BY <1>1 DEF Elapsed
<1>5. Elapsed' = Elapsed + 1
  <2>1. CASE n # Dots
    <3>1. Elapsed' = x + n - 1
      BY <1>3, <2>1 DEF Elapsed
    <3> HIDE DEF x
    <3> QED BY <1>1, <1>4, <3>1
  <2>2. CASE n = Dots
    <3>1. Elapsed' = ((line + 1) - VblLine) * Dots + 0 - 1
      BY <1>3, <2>2 DEF Elapsed, VblLine
    <3>2. ((line + 1) - VblLine) * Dots = x + Dots
      BY <1>1
    <3> DEFINE z == ((line + 1) - VblLine) * Dots
    <3>3. z = x + Dots /\ Elapsed' = z + 0 - 1
      BY <3>1, <3>2
    <3> HIDE DEF x, z
    <3> QED BY <1>1, <1>4, <2>2, <3>3
  <2> QED BY <2>1, <2>2
<1>6. VblankDue(n) => Elapsed' = 0
  <2> SUFFICES ASSUME line = VblLine, dot = 0 PROVE Elapsed' = 0
    BY <1>1 DEF VblankDue
  <2>1. x = 0 * Dots
    BY <1>1
  <2>2. x = 0
    BY <1>1, <2>1
  <2> HIDE DEF x
  <2> QED BY <1>1, <1>4, <1>5, <2>2
<1> QED BY <1>5, <1>6

\* What a step does to a poller's chance to see the flag.
LEMMA PollStep == TypeOK /\ PollInv /\ [Next]_vars => PollInv'
<1> SUFFICES ASSUME TypeOK, PollInv, [Next]_vars, guest = "poller" PROVE PollInv'
  <2>1. ASSUME [Next]_vars PROVE guest' = guest
    <3>1. CASE PpuStep
      BY <3>1, Zenon DEF PpuStep
    <3>2. CASE BeginStep \/ (\E c \in Costs : EndStep(c)) \/ ReadStatus \/ OamDma \/ RenderOutside
                 \/ (\E on \in BOOLEAN : WriteControl(on)) \/ Stopped \/ UNCHANGED vars
                 \/ (\E s \in {"none", "sprites", "background"} : WriteMask(s))
      BY <3>2 DEF BeginStep, EndStep, ReadStatus, WriteControl, WriteMask, OamDma, RenderOutside,
                  Stopped, vars, history
    <3> QED BY <2>1, <3>1, <3>2 DEF Next
  <2> QED BY <2>1 DEF PollInv
<1>1. /\ ~nmiable /\ ~nmiPending /\ stall = 0 /\ interruptCycle \in {0, NmiCost}
      /\ dotsLeft < Blank /\ (inStep => dotsLeft = 0)
      /\ isVblank => /\ 0 <= Elapsed /\ Elapsed + dotsLeft < Blank
                     /\ inStep /\ polled => Elapsed = 0
  BY NumberFacts DEF PollInv
<1>2. /\ Blank \in Int /\ Elapsed \in Int /\ dotsLeft \in Nat /\ dot \in Nat
      /\ (line = PreRender => Elapsed = Blank + dot) /\ (AtEdge => Elapsed = 0)
  BY BlankFacts, NumberFacts, ConstantFacts
<1>3. CASE BeginStep
  <2>1. /\ inStep' /\ ~polled' /\ dotsLeft = 0 /\ ~nmiPending'
        /\ UNCHANGED <<line, dot, isVblank, nmiable, stall, dotsLeft>>
    BY <1>1, <1>3 DEF BeginStep, CpuTurn
  <2>2. Elapsed' = Elapsed /\ Blank' = Blank
    BY <2>1 DEF Elapsed, Blank
  <2> QED BY <1>1, <2>1, <2>2 DEF PollInv
<1>4. ASSUME NEW c \in Costs, EndStep(c) PROVE PollInv'
  <2>1. /\ inStep /\ polled /\ dotsLeft = 0 /\ ~inStep' /\ stall' = 0
        /\ dotsLeft' = 3 * (c + interruptCycle + stall)
        /\ UNCHANGED <<line, dot, isVblank, nmiable, nmiPending>>
    BY <1>4 DEF EndStep, CpuTurn, ppu
  <2>2. c \in Nat /\ NmiCost \in Nat /\ 3 * (c + NmiCost) < Blank
    BY ConstantFacts, StepAssumption DEF Blank
  <2>3. dotsLeft' \in Nat /\ dotsLeft' <= 3 * (c + NmiCost)
    BY <1>1, <2>1, <2>2
  <2>4. Elapsed' = Elapsed /\ Blank' = Blank
    BY <2>1 DEF Elapsed, Blank
  <2>5. isVblank => Elapsed = 0
    BY <1>1, <2>1
  <2>6. dotsLeft' < Blank /\ (isVblank => 0 <= Elapsed /\ Elapsed + dotsLeft' < Blank)
    <3>1. dotsLeft' < Blank
      BY <1>2, <2>2, <2>3
    <3>2. isVblank => 0 <= Elapsed /\ Elapsed + dotsLeft' < Blank
      <4> SUFFICES ASSUME isVblank PROVE 0 <= Elapsed /\ Elapsed + dotsLeft' < Blank
        OBVIOUS
      <4>1. Elapsed = 0 /\ dotsLeft' \in Nat
        BY <2>3, <2>5
      <4> QED BY <3>1, <4>1
    <3> QED BY <3>1, <3>2
  <2> QED BY <1>1, <2>1, <2>4, <2>6 DEF PollInv
<1>5. CASE ReadStatus
  <2>1. /\ UNCHANGED <<line, dot, nmiable, nmiPending, inStep, interruptCycle, stall, dotsLeft>>
        /\ (isVblank' => isVblank /\ AtEdge)
    BY <1>5 DEF ReadStatus, cpu
  <2>2. Elapsed' = Elapsed /\ Blank' = Blank
    BY <2>1 DEF Elapsed, Blank
  <2> QED BY <1>1, <1>2, <2>1, <2>2 DEF PollInv
<1>6. CASE PpuStep
  <2>1. /\ dotsLeft > 0 /\ dotsLeft' = dotsLeft - 1 /\ isVblank' = FlagAfter(dot + 1)
        /\ nmiPending' = NmiAfter(dot + 1)
        /\ UNCHANGED <<nmiable, inStep, interruptCycle, stall, polled>>
    BY <1>6 DEF PpuStep
  <2>2. ~inStep' /\ ~nmiPending'
    <3>1. dotsLeft # 0
      BY <1>2, <2>1
    <3> QED BY <1>1, <2>1, <3>1 DEF NmiAfter
  <2>3. dotsLeft' < Blank /\ Blank' = Blank
    BY <1>1, <1>2, <2>1 DEF Blank, VblLine
  <2>4. isVblank' => 0 <= Elapsed' /\ Elapsed' + dotsLeft' < Blank
    <3> SUFFICES ASSUME isVblank' PROVE 0 <= Elapsed' /\ Elapsed' + dotsLeft' < Blank
      OBVIOUS
    <3>1. CASE VblankDue(dot + 1)
      <4>1. line # PreRender
        BY <3>1, VideoAssumption DEF VblankDue, VblLine
      <4>2. Elapsed' = 0
        BY <1>6, <3>1, <4>1, DotPasses
      <4> QED BY <1>1, <1>2, <2>1, <4>2
    <3>2. CASE ~VblankDue(dot + 1)
      <4>1. isVblank
        BY <2>1, <3>2 DEF FlagAfter
      <4>2. 0 <= Elapsed /\ Elapsed + dotsLeft < Blank
        BY <1>1, <4>1
      <4>3. line # PreRender
        BY <1>2, <4>2
      <4>4. Elapsed' = Elapsed + 1
        BY <1>6, <4>3, DotPasses
      <4> QED BY <1>2, <2>1, <4>2, <4>4
    <3> QED BY <3>1, <3>2
  <2> QED BY <1>1, <2>1, <2>2, <2>3, <2>4 DEF PollInv
<1>7. CASE RenderOutside \/ Stopped \/ UNCHANGED vars
             \/ (\E s \in {"none", "sprites", "background"} : WriteMask(s))
  <2>1. UNCHANGED <<line, dot, isVblank, nmiable, nmiPending, inStep, interruptCycle, stall,
                    dotsLeft, polled>>
    BY <1>7 DEF RenderOutside, Stopped, WriteMask, vars, ppu, cpu, history
  <2>2. Elapsed' = Elapsed /\ Blank' = Blank
    BY <2>1 DEF Elapsed, Blank
  <2> QED BY <1>1, <2>1, <2>2 DEF PollInv
<1>8. ~(\E on \in BOOLEAN : WriteControl(on)) /\ ~OamDma
  BY DEF WriteControl, OamDma
<1> QED BY <1>3, <1>4, <1>5, <1>6, <1>7, <1>8 DEF Next

\* A guest that reads $2002 in every step sees every blank that is announced,
\* for every geometry whose blank is longer than a step (ppu_r_2002,
\* ppu_step_new): the flag is never up when the pre-render line begins.
THEOREM PollerSeesBlanks == Spec => []PollerMissesNothing
<1>1. Init => TypeOK /\ PollInv
  <2>1. ASSUME Init PROVE PollInv
    <3>1. Blank > 0
      <4> DEFINE k == PreRender - VblLine
      <4>1. k \in Nat /\ k >= 1 /\ Dots \in Nat /\ Dots >= 4
        BY VideoAssumption DEF VblLine
      <4> HIDE DEF k
      <4>2. k * Dots >= Dots
        BY <4>1
      <4>3. k * Dots \in Int /\ Blank = k * Dots - 1
        BY <4>1 DEF Blank, k
      <4> QED BY <4>1, <4>2, <4>3
    <3>2. /\ ~nmiable /\ ~nmiPending /\ stall = 0 /\ dotsLeft = 0
          /\ ~isVblank
      BY <2>1 DEF Init
    <3> QED BY <3>1, <3>2 DEF PollInv
  <2> QED BY <2>1, InitFacts
<1>2. TypeOK /\ PollInv /\ [Next]_vars => (TypeOK /\ PollInv)'
  BY TypeStep, PollStep
<1>3. TypeOK /\ PollInv => PollerMissesNothing
  <2> SUFFICES ASSUME TypeOK, PollInv, guest = "poller", line = PreRender, dot = 0, isVblank
               PROVE  FALSE
    BY DEF PollerMissesNothing
  <2>1. Elapsed + dotsLeft < Blank /\ dotsLeft \in Nat
    BY NumberFacts DEF PollInv
  <2>2. Elapsed = Blank /\ Blank \in Int
    BY BlankFacts
  <2> QED BY <2>1, <2>2
<1> QED BY <1>1, <1>2, <1>3, PTL DEF Spec
=============================================================================
