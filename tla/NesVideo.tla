------------------------------ MODULE NesVideo ------------------------------
(***************************************************************************)
(* The picture unit of the NES against the CPU loop: NesPpu.ppu_step_new    *)
(* and the registers $2000, $2001 and $2002, the vertical blank flag and    *)
(* its interrupt, NesMemoryBus.Tick and the stall of sprite DMA, and the    *)
(* Step of the CPU backends, which takes a pending interrupt, runs one      *)
(* instruction or one block with all its register accesses, and only then   *)
(* lets the picture unit catch up three dots per cycle.                     *)
(*                                                                          *)
(* The picture is scaled: Visible lines (240), the flag rises on the line   *)
(* after the next (241) and falls on line PreRender (261), a line has Dots  *)
(* dots (341).  Left out: pixels, sprites, scrolling and the open bus.      *)
(***************************************************************************)
EXTENDS Integers

CONSTANTS
    Visible, PreRender, Dots,
    TileDots,   \* dots at whose end eight background pixels are written
    Costs,      \* cycles of an instruction or block
    NmiCost,    \* cycles of NmiInterrupt, and of Reset (7)
    DmaStall,   \* cycles of OamDma (513)
    MaxStall    \* bound: a step with this many stall cycles starts no more DMA

VblLine == Visible + 1

ASSUME VideoAssumption ==
    /\ {Visible, PreRender, Dots, NmiCost, DmaStall} \subseteq Nat \ {0}
    /\ PreRender > VblLine /\ Dots >= 4
    /\ TileDots \subseteq 0 .. Dots - 1
    /\ Costs \subseteq Nat \ {0} /\ MaxStall \in Nat

\* A step ends well before the flag falls: 64 instructions of at most 8 cycles
\* (BlockDetector.DefaultMaxInstructions), and Reset, against 20 lines.
ASSUME StepAssumption ==
    \A c \in Costs : 3 * (c + NmiCost) < (PreRender - VblLine) * Dots - 1

VARIABLES
    line, dot,      \* scanline, ppu_cycles_x
    isVblank, suppressVbl, nmiable, nmiPending,
    show,           \* ShowBackGround, else ShowSprites, else none
    oddSwap,
    inStep,         \* the CPU is between ConsumePpuNmi and Tick
    interruptCycle, \* _interruptCycle
    stall,          \* _pendingStallCycles
    dotsLeft,       \* ppu_remaining
    crashed,        \* an index out of range ended the program
    guest,          \* "any", or "poller": reads $2002 in every step, leaves $2000 and $4014 alone
    polled,         \* history: this step has read $2002
    answer,         \* history: what $2002 last answered
    reports,        \* history: times the current blank was reported (up to 2)
    edgeRead,       \* history: a read in the current blank fell on its first dot
    lastOnEdge,     \* history: the last read since the flag was last due did
    lost,           \* history: "no", or whether the last blank went unannounced "after edge" or "unexplained"
    nmis, enables,  \* history: interrupts taken, times enabled since the flag was last due (up to 3)
    short           \* history: the last frame and the one before were shortened

ppu == <<line, dot, isVblank, suppressVbl, nmiable, nmiPending, show, oddSwap, crashed>>
cpu == <<inStep, interruptCycle, stall, dotsLeft>>
history == <<guest, polled, answer, reports, edgeRead, lastOnEdge, lost, nmis, enables, short>>
vars == <<ppu, cpu, history>>

Capped(n, most) == IF n > most THEN most ELSE n

Init ==
    /\ line = -1 /\ dot = 0
    /\ isVblank = FALSE /\ suppressVbl = FALSE /\ nmiable = FALSE /\ nmiPending = FALSE
    /\ show = "none" /\ oddSwap = FALSE /\ crashed = FALSE
    /\ inStep = FALSE /\ interruptCycle = NmiCost /\ stall = 0 /\ dotsLeft = 0
    /\ guest \in {"any", "poller"}
    /\ polled = FALSE /\ answer = FALSE /\ reports = 0 /\ edgeRead = FALSE
    /\ lastOnEdge = FALSE /\ lost = "no" /\ nmis = 0 /\ enables = 0
    /\ short = [last |-> FALSE, before |-> FALSE]

-----------------------------------------------------------------------------
(* The CPU: Step *)

CpuTurn == dotsLeft = 0 /\ ~crashed

\* ConsumePpuNmi, then NmiInterrupt.
BeginStep ==
    /\ CpuTurn /\ ~inStep
    /\ inStep' = TRUE
    /\ polled' = FALSE
    /\ nmiPending' = FALSE
    /\ interruptCycle' = IF nmiPending THEN NmiCost ELSE interruptCycle
    /\ nmis' = IF nmiPending THEN Capped(nmis + 1, 3) ELSE nmis
    /\ UNCHANGED <<line, dot, isVblank, suppressVbl, nmiable, show, oddSwap, crashed,
                   stall, dotsLeft, guest, answer, reports, edgeRead, lastOnEdge,
                   lost, enables, short>>

\* Mutant of EndStep: both the step and its caller let the picture unit run.
EndStepTwice(cost) ==
    /\ CpuTurn /\ inStep
    /\ guest = "poller" => polled
    /\ dotsLeft' = 6 * (cost + interruptCycle + stall)
    /\ inStep' = FALSE /\ interruptCycle' = 0 /\ stall' = 0
    /\ UNCHANGED <<ppu, history>>

\* StepOne or StepBlock bills its cycles, the interrupt and the stall, then Tick.
EndStep(cost) ==
    /\ CpuTurn /\ inStep
    /\ guest = "poller" => polled
    /\ dotsLeft' = 3 * (cost + interruptCycle + stall)
    /\ inStep' = FALSE /\ interruptCycle' = 0 /\ stall' = 0
    /\ UNCHANGED <<ppu, history>>

AtEdge == dot = 1 /\ line = VblLine

\* Mutant of ReadStatus: the flag is not cleared.
ReadKeepsFlag ==
    /\ CpuTurn /\ inStep
    /\ answer' = isVblank
    /\ IF AtEdge THEN suppressVbl' = TRUE /\ UNCHANGED isVblank
                 ELSE suppressVbl' = FALSE /\ UNCHANGED isVblank
    /\ polled' = TRUE
    /\ reports' = IF isVblank THEN Capped(reports + 1, 2) ELSE reports
    /\ edgeRead' = (edgeRead \/ AtEdge)
    /\ lastOnEdge' = AtEdge
    /\ UNCHANGED <<line, dot, nmiable, nmiPending, show, oddSwap, crashed, cpu, guest,
                   lost, nmis, enables, short>>

\* Mutant of ReadStatus: the flag is cleared before the answer is put together.
ReadAfterClear ==
    /\ CpuTurn /\ inStep
    /\ answer' = (isVblank /\ AtEdge)
    /\ IF AtEdge THEN suppressVbl' = TRUE /\ UNCHANGED isVblank
                 ELSE suppressVbl' = FALSE /\ isVblank' = FALSE
    /\ polled' = TRUE
    /\ reports' = IF isVblank THEN Capped(reports + 1, 2) ELSE reports
    /\ edgeRead' = (edgeRead \/ AtEdge)
    /\ lastOnEdge' = AtEdge
    /\ UNCHANGED <<line, dot, nmiable, nmiPending, show, oddSwap, crashed, cpu, guest,
                   lost, nmis, enables, short>>

\* ppu_r_2002.
ReadStatus ==
    /\ CpuTurn /\ inStep
    /\ answer' = isVblank
    /\ IF AtEdge THEN suppressVbl' = TRUE /\ UNCHANGED isVblank
                 ELSE suppressVbl' = FALSE /\ isVblank' = FALSE
    /\ polled' = TRUE
    /\ reports' = IF isVblank THEN Capped(reports + 1, 2) ELSE reports
    /\ edgeRead' = (edgeRead \/ AtEdge)
    /\ lastOnEdge' = AtEdge
    /\ UNCHANGED <<line, dot, nmiable, nmiPending, show, oddSwap, crashed, cpu, guest,
                   lost, nmis, enables, short>>

\* Mutant of WriteControl: any write with the bit set fires, not the rising edge.
WriteControlLevel(on) ==
    /\ CpuTurn /\ inStep /\ guest = "any"
    /\ nmiable' = on
    /\ nmiPending' = (nmiPending \/ (on /\ isVblank))
    /\ enables' = IF ~nmiable /\ on THEN Capped(enables + 1, 3) ELSE enables
    /\ UNCHANGED <<line, dot, isVblank, suppressVbl, show, oddSwap, crashed, cpu, guest,
                   polled, answer, reports, edgeRead, lastOnEdge, lost, nmis, short>>

\* ppu_w_2000, bit 7.
WriteControl(on) ==
    /\ CpuTurn /\ inStep /\ guest = "any"
    /\ nmiable' = on
    /\ nmiPending' = (nmiPending \/ (~nmiable /\ on /\ isVblank))
    /\ enables' = IF ~nmiable /\ on THEN Capped(enables + 1, 3) ELSE enables
    /\ UNCHANGED <<line, dot, isVblank, suppressVbl, show, oddSwap, crashed, cpu, guest,
                   polled, answer, reports, edgeRead, lastOnEdge, lost, nmis, short>>

\* ppu_w_2001, bits 3 and 4.
WriteMask(s) ==
    /\ CpuTurn /\ inStep
    /\ show' = s
    /\ UNCHANGED <<line, dot, isVblank, suppressVbl, nmiable, nmiPending, oddSwap, crashed,
                   cpu, history>>

\* $4014; a block may hold several of these stores.
OamDma ==
    /\ CpuTurn /\ inStep /\ guest = "any"
    /\ stall < MaxStall
    /\ stall' = stall + DmaStall
    /\ UNCHANGED <<ppu, inStep, interruptCycle, dotsLeft, history>>

-----------------------------------------------------------------------------
(* The picture unit: ppu_step_new *)

Rendering == show # "none"

\* Mutant of RendersTile: without the test for the pre-render line.
RendersTileAnyLine ==
    (line < Visible \/ line = PreRender) /\ dot \in TileDots /\ show = "background"

\* ppu_rendering_tick reaches RenderBGTile.
RendersTile == line < Visible /\ dot \in TileDots /\ show = "background"

\* RenderBGTile writes row "line" of arrays that have Visible rows.
RenderOutside ==
    /\ dotsLeft > 0 /\ ~crashed
    /\ RendersTile /\ line \notin 0 .. Visible - 1
    /\ crashed' = TRUE
    /\ UNCHANGED <<line, dot, isVblank, suppressVbl, nmiable, nmiPending, show, oddSwap,
                   cpu, history>>

\* The flag is due one dot into VblLine; SuppressVbl is used up in any case.
VblankDue(d) == line = VblLine /\ d = 1

FlagAfter(d) ==
    IF VblankDue(d) THEN isVblank \/ ~suppressVbl
    ELSE IF line = PreRender /\ d = 1 THEN FALSE ELSE isVblank

\* Mutant of SuppressAfter: the suppression outlives the blank it was for.
SuppressKept(d) == suppressVbl

SuppressAfter(d) == suppressVbl /\ ~VblankDue(d)

NmiAfter(d) == nmiPending \/ (VblankDue(d) /\ ~suppressVbl /\ nmiable)

\* Mutant of OddFrameDot: at the end of the line.
OddFrameDotLate(d) == line = PreRender /\ d = Dots

\* On the pre-render line every other frame drops a dot while rendering.
OddFrameDot(d) == line = PreRender /\ d = Dots - 2

\* Mutant of OddSwapAfter: the parity follows rendering.
OddSwapIdle(d) == IF OddFrameDot(d) /\ ~Rendering THEN ~oddSwap ELSE oddSwap

OddSwapAfter(d) == IF OddFrameDot(d) THEN ~oddSwap ELSE oddSwap

Skips(d) == OddFrameDot(d) /\ oddSwap /\ Rendering

PpuStep ==
    /\ dotsLeft > 0 /\ ~crashed
    /\ ~(RendersTile /\ line \notin 0 .. Visible - 1)
    /\ dotsLeft' = dotsLeft - 1
    /\ LET d == dot + 1
           next == IF Skips(d) THEN d + 1 ELSE d
       IN  /\ isVblank' = FlagAfter(d)
           /\ nmiPending' = NmiAfter(d)
           /\ suppressVbl' = SuppressAfter(d)
           /\ oddSwap' = OddSwapAfter(d)
           /\ dot' = IF next = Dots THEN 0 ELSE next
           /\ line' = IF next # Dots THEN line
                      ELSE IF line = PreRender THEN 0 ELSE line + 1
           /\ reports' = IF VblankDue(d) THEN 0 ELSE reports
           /\ edgeRead' = (edgeRead /\ ~VblankDue(d))
           /\ lastOnEdge' = (lastOnEdge /\ ~VblankDue(d))
           /\ lost' = IF ~VblankDue(d) THEN lost
                      ELSE IF isVblank' THEN "no"
                      ELSE IF lastOnEdge THEN "after edge" ELSE "unexplained"
           /\ nmis' = IF VblankDue(d) THEN 0 ELSE nmis
           /\ enables' = IF VblankDue(d) THEN 0 ELSE enables
           /\ short' = IF OddFrameDot(d) THEN [last |-> Skips(d), before |-> short.last] ELSE short
    /\ UNCHANGED <<nmiable, show, crashed, inStep, interruptCycle, stall, guest, polled, answer>>

Stopped == crashed /\ UNCHANGED vars

Next ==
    \/ BeginStep
    \/ \E c \in Costs : EndStep(c)
    \/ ReadStatus
    \/ \E on \in BOOLEAN : WriteControl(on)
    \/ \E s \in {"none", "sprites", "background"} : WriteMask(s)
    \/ OamDma
    \/ RenderOutside
    \/ PpuStep
    \/ Stopped

\* The loop of the program runs step after step, and a step ends: a poller's
\* accesses do not go on for ever.
Spec ==
    /\ Init /\ [][Next]_vars
    /\ WF_vars(BeginStep \/ PpuStep \/ RenderOutside)
    /\ WF_vars(\E c \in Costs : EndStep(c)) /\ WF_vars(ReadStatus /\ ~polled)

-----------------------------------------------------------------------------
(* Properties *)

\* Every variable has its type; the beam stays in the frame.
TypeOK ==
    /\ line \in -1 .. PreRender /\ dot \in 0 .. Dots - 1
    /\ {isVblank, suppressVbl, nmiable, nmiPending, oddSwap, inStep, crashed, polled,
        answer, edgeRead, lastOnEdge} \subseteq BOOLEAN
    /\ show \in {"none", "sprites", "background"}
    /\ interruptCycle \in {0, NmiCost} /\ stall \in Nat
    /\ dotsLeft \in Nat
    /\ guest \in {"any", "poller"}
    /\ reports \in 0 .. 2 /\ nmis \in 0 .. 3 /\ enables \in 0 .. 3
    /\ lost \in {"no", "after edge", "unexplained"}
    /\ short \in [last : BOOLEAN, before : BOOLEAN]

\* A blank is announced once.  ppu_r_2002 clears the flag, so one blank is
\* reported twice only if a read fell on its first dot, where the code keeps the
\* flag; and a blank goes unannounced, flag and interrupt, only if the last read
\* since the flag was last due fell on that dot, where the code suppresses.
BlankAnnouncedOnce ==
    /\ reports > 1 => edgeRead
    /\ lost # "unexplained"

\* From one vertical blank to the next the CPU takes at most one interrupt,
\* and one more for each time the guest enables it.
NmiPerBlank == nmis <= 1 + enables

\* ppu_step_new keeps the shape of the frame whenever rendering is switched:
\* the beam stays in it, two frames in a row are never both shortened, and the
\* only line rendered outside the picture is the line -1 of power-on.
FrameShape ==
    /\ TypeOK
    /\ ~(short.last /\ short.before)
    /\ crashed => line = -1

\* A guest that reads $2002 in every step misses no announced blank, although
\* the flag rises and falls only between its steps.
PollerMissesNothing ==
    guest = "poller" /\ line = PreRender /\ dot = 0 => ~isVblank

\* A loop that waits for bit 7 of $2002 always ends, whatever its alignment to
\* the frame and however it switches rendering (unless the program stopped).
PollingEnds == guest = "poller" => []<>(answer \/ crashed)

=============================================================================
