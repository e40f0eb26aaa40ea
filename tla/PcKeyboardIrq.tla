--------------------------- MODULE PcKeyboardIrq ---------------------------
(***************************************************************************)
(* The real-BIOS keyboard path of the PC: the UI thread's InjectScancode    *)
(* and the 8042 FIFO with its IRQ 1 line (PcPortBus), the interrupt         *)
(* controller (Pic8259), the PIT's timer thread, and the emulator thread,   *)
(* which polls the controller before each instruction (PcSystemRunner) and  *)
(* runs the INT 9 handler of the BIOS the repository ships (pcxtbios).      *)
(*                                                                          *)
(* A scancode is the position at which it was injected.  Every lock section *)
(* is one step, and so is the AssertIrq that the code makes after leaving   *)
(* the keyboard lock: that gap is where the threads meet.                   *)
(***************************************************************************)
EXTENDS Integers, Sequences

CONSTANTS
    NumKeys,    \* scancodes the UI thread injects
    FifoCap,    \* capacity of _kbd60Fifo (8)
    MaxTicks    \* timer ticks that assert IRQ 0 during the run

ASSUME KeyboardAssumption ==
    NumKeys \in Nat /\ FifoCap \in Nat \ {0} /\ MaxTicks \in Nat

Key == 1 .. NumKeys

Irq == {0, 1}       \* 0 = timer, 1 = keyboard

VARIABLES
    fifo,       \* _kbd60Fifo
    latch,      \* _kbd60Data: what IN 60h returns; 0 before the first key
    line,       \* _kbd60IrqLine
    obf,        \* bit 0 of _kbd64Status
    bit7,       \* bit 7 of _port61
    imr,        \* masked interrupts
    pending,    \* asserted and not yet delivered
    ui,         \* UI thread: "idle", or "assert" after leaving the lock
    injected,   \* number of scancodes injected so far
    ticks,      \* number of timer ticks so far
    sti,        \* the guest's INT 9 starts with STI, as pcxtbios' does
    emu,        \* emulator thread: "poll", "step", or "assert" inside OUT 61h
    stack,      \* interrupt frames of the guest, innermost last
    reads,      \* history: what IN 60h returned
    stored,     \* history: keys in the order the handler stored them in the BDA
    dropped,    \* history: keys that met a full FIFO
    raced,      \* history: a key was latched while bit 7 was high
    masked      \* history: an assertion of IRQ 1 was ignored as masked

devices == <<fifo, latch, line, obf, bit7>>
pic == <<imr, pending>>
history == <<reads, stored, dropped, raced, masked>>
vars == <<fifo, latch, line, obf, bit7, imr, pending, ui, injected, ticks,
          sti, emu, stack, reads, stored, dropped, raced, masked>>

Frame == [irq : Irq,
          at : {"sti", "in60", "in61", "high", "low", "stuff", "iret"},
          key : 0 .. NumKeys, saved : BOOLEAN]

TypeOK ==
    /\ fifo \in Seq(Key) /\ Len(fifo) <= FifoCap
    /\ latch \in 0 .. NumKeys
    /\ line \in BOOLEAN /\ obf \in BOOLEAN /\ bit7 \in BOOLEAN
    /\ imr \subseteq Irq /\ pending \subseteq Irq
    /\ ui \in {"idle", "assert"}
    /\ injected \in 0 .. NumKeys /\ ticks \in 0 .. MaxTicks
    /\ sti \in BOOLEAN
    /\ emu \in {"poll", "step", "assert"}
    /\ stack \in Seq(Frame)
    /\ reads \in Seq(0 .. NumKeys) /\ stored \in Seq(0 .. NumKeys)
    /\ dropped \subseteq Key
    /\ raced \in BOOLEAN /\ masked \in BOOLEAN

Init ==
    /\ fifo = <<>> /\ latch = 0 /\ line = FALSE /\ obf = FALSE /\ bit7 = FALSE
    /\ imr = {} /\ pending = {}
    /\ ui = "idle" /\ injected = 0 /\ ticks = 0
    /\ sti \in BOOLEAN /\ emu = "poll" /\ stack = <<>>
    /\ reads = <<>> /\ stored = <<>> /\ dropped = {}
    /\ raced = FALSE /\ masked = FALSE

-----------------------------------------------------------------------------
(* Pic8259 *)

\* A masked edge is ignored, not remembered.
AssertIrq(irq) ==
    /\ pending' = IF irq \in imr THEN pending ELSE pending \cup {irq}
    /\ masked' = (masked \/ (irq = 1 /\ irq \in imr))
    /\ UNCHANGED imr

\* Mutant of Deliverable: the scan stops after the first line.
DeliverableFirstOnly == (pending \ imr) \cap {0}

Deliverable == pending \ imr

\* The lowest deliverable line wins; delivering clears its pending bit.
DequeueNextVector == CHOOSE i \in Deliverable : \A j \in Deliverable : i <= j

-----------------------------------------------------------------------------
(* UI thread *)

\* The locked part of InjectScancode: queue the scancode if it fits and, to
\* fire, latch the oldest one and raise the line.
Inject(fits, fire) ==
    /\ ui = "idle" /\ injected < NumKeys
    /\ LET k == injected + 1
           queue == IF fits THEN Append(fifo, k) ELSE fifo
       IN /\ injected' = k
          /\ dropped' = IF fits THEN dropped ELSE dropped \cup {k}
          /\ IF fire
               THEN /\ latch' = Head(queue) /\ fifo' = Tail(queue)
                    /\ line' = TRUE /\ obf' = TRUE /\ ui' = "assert"
                    /\ raced' = (raced \/ bit7)
               ELSE /\ fifo' = queue
                    /\ UNCHANGED <<latch, line, obf, ui, raced>>
    /\ UNCHANGED <<bit7, pic, ticks, sti, emu, stack, reads, stored, masked>>

\* Mutants of InjectScancode: no check of the FIFO's capacity, and no check
\* that the previous scancode was acknowledged.
InjectScancodeUnbounded == Inject(TRUE, ~line)
InjectScancodeUnacked == Inject(Len(fifo) < FifoCap, TRUE)

\* fireIrq is !_kbd60IrqLine && Count > 0; the count is positive there, as the
\* scancode was just queued or the FIFO was full.
InjectScancode == Inject(Len(fifo) < FifoCap, ~line)

\* AssertIrq(1) once the keyboard lock is released.
InjectAssert ==
    /\ ui = "assert" /\ ui' = "idle"
    /\ AssertIrq(1)
    /\ UNCHANGED <<devices, injected, ticks, sti, emu, stack, reads, stored, dropped, raced>>

(* Timer thread *)

OnTick ==
    /\ ticks < MaxTicks /\ ticks' = ticks + 1
    /\ AssertIrq(0)
    /\ UNCHANGED <<devices, ui, injected, sti, emu, stack, reads, stored, dropped, raced>>

-----------------------------------------------------------------------------
(* Emulator thread *)

Top == stack[Len(stack)]

\* Mutant of FlagI: interrupts are enabled again before the key is stored.
FlagIEarly == IF stack = <<>> THEN TRUE ELSE (sti /\ Top.at # "sti") \/ Top.at = "stuff"

\* IF: set in the main program, cleared by DeliverInterrupt until the handler's
\* STI, restored by IRET.
FlagI == IF stack = <<>> THEN TRUE ELSE sti /\ Top.at # "sti"

\* Before each instruction the runner delivers a deliverable interrupt, ...
DeliverInterrupt ==
    /\ emu = "poll" /\ FlagI /\ Deliverable # {}
    /\ stack' = Append(stack, [irq |-> DequeueNextVector, at |-> "sti", key |-> 0, saved |-> FALSE])
    /\ pending' = pending \ {DequeueNextVector}
    /\ UNCHANGED <<devices, imr, ui, injected, ticks, sti, emu, history>>

\* ... and with none it goes on to Step, during which more may be asserted.
PollNothing ==
    /\ emu = "poll" /\ ~(FlagI /\ Deliverable # {})
    /\ emu' = "step"
    /\ UNCHANGED <<devices, pic, ui, injected, ticks, sti, stack, history>>

\* The next instruction of the handler in the innermost frame.
Goto(f) == stack' = [stack EXCEPT ![Len(stack)] = f]

At(irq, at) == emu = "step" /\ stack # <<>> /\ Top.irq = irq /\ Top.at = at

\* STI of either handler; the rest of INT 8 does not concern the keyboard.
IsrEnter ==
    /\ At(0, "sti") \/ At(1, "sti")
    /\ Goto([Top EXCEPT !.at = IF Top.irq = 0 THEN "iret" ELSE "in60"])
    /\ emu' = "poll"
    /\ UNCHANGED <<devices, pic, ui, injected, ticks, sti, history>>

\* IN 60h: the latched byte; the FIFO does not move.
Dequeue60 ==
    /\ At(1, "in60")
    /\ reads' = Append(reads, latch)
    /\ Goto([Top EXCEPT !.at = "in61", !.key = latch])
    /\ emu' = "poll"
    /\ UNCHANGED <<devices, pic, ui, injected, ticks, sti, stored, dropped, raced, masked>>

In61 ==
    /\ At(1, "in61")
    /\ Goto([Top EXCEPT !.at = "high", !.saved = bit7])
    /\ emu' = "poll"
    /\ UNCHANGED <<devices, pic, ui, injected, ticks, sti, history>>

\* OUT 61h with bit 7 set: only a rising edge lowers the line.
AckHigh ==
    /\ At(1, "high")
    /\ bit7' = TRUE
    /\ line' = (line /\ bit7)
    /\ Goto([Top EXCEPT !.at = "low"])
    /\ emu' = "poll"
    /\ UNCHANGED <<fifo, latch, obf, pic, ui, injected, ticks, sti, history>>

\* OUT 61h with the saved value: a falling edge latches scancode n of the
\* FIFO, if there is any, and the emulator thread goes on to signal it.
FallingEdge(n, signal) ==
    /\ At(1, "low")
    /\ bit7' = Top.saved
    /\ IF bit7 /\ ~Top.saved /\ fifo # <<>>
         THEN /\ latch' = fifo[n] /\ fifo' = SubSeq(fifo, 1, n - 1) \o SubSeq(fifo, n + 1, Len(fifo))
              /\ line' = TRUE /\ obf' = TRUE /\ emu' = signal
         ELSE /\ obf' = (obf /\ ~(bit7 /\ ~Top.saved))
              /\ emu' = "poll"
              /\ UNCHANGED <<latch, fifo, line>>
    /\ Goto([Top EXCEPT !.at = "stuff"])
    /\ UNCHANGED <<pic, ui, injected, ticks, sti, history>>

\* Mutants of AckLow: no new edge for the next scancode; the newest first.
AckLowSilent == FallingEdge(1, "poll")
AckLowNewest == FallingEdge(Len(fifo), "assert")

\* The oldest one, whether or not the UI thread raised the line meanwhile.
AckLow == FallingEdge(1, "assert")

\* The AssertIrq(1) of OnPort61Edge, still inside the OUT instruction.
AckAssert ==
    /\ emu = "assert" /\ emu' = "poll"
    /\ AssertIrq(1)
    /\ UNCHANGED <<devices, ui, injected, ticks, sti, stack, reads, stored, dropped, raced>>

\* stuff_keyboard_buffer
StuffKeyboardBuffer ==
    /\ At(1, "stuff")
    /\ stored' = Append(stored, Top.key)
    /\ Goto([Top EXCEPT !.at = "iret"])
    /\ emu' = "poll"
    /\ UNCHANGED <<devices, pic, ui, injected, ticks, sti, reads, dropped, raced, masked>>

\* OUT 20h (which the port bus ignores) and IRET.
Iret ==
    /\ At(0, "iret") \/ At(1, "iret")
    /\ stack' = SubSeq(stack, 1, Len(stack) - 1)
    /\ emu' = "poll"
    /\ UNCHANGED <<devices, pic, ui, injected, ticks, sti, history>>

\* Any other instruction of the main program.
MainStep ==
    /\ emu = "step" /\ stack = <<>>
    /\ emu' = "poll"
    /\ UNCHANGED <<devices, pic, ui, injected, ticks, sti, stack, history>>

\* OUT 21h in the main program.  The code sets the eight lines under the lock one
\* after the other; one step is enough, for an assertion by another thread looks
\* at its own line only, and this thread polls when all of them are set.
SetMask ==
    /\ emu = "step" /\ stack = <<>>
    /\ imr' \in SUBSET Irq
    /\ emu' = "poll"
    /\ UNCHANGED <<devices, pending, ui, injected, ticks, sti, stack, history>>

Emulator ==
    \/ DeliverInterrupt \/ PollNothing
    \/ IsrEnter \/ Dequeue60 \/ In61 \/ AckHigh \/ AckLow \/ AckAssert
    \/ StuffKeyboardBuffer \/ Iret \/ MainStep \/ SetMask

Next == InjectScancode \/ InjectAssert \/ OnTick \/ Emulator

Spec == Init /\ [][Next]_vars

\* The emulator thread keeps running and the UI thread leaves InjectScancode;
\* users need not type, and the timer need not tick.
FairSpec == Spec /\ WF_vars(InjectAssert) /\ WF_vars(Emulator)
-----------------------------------------------------------------------------
(* Properties *)

In(x, s) == \E i \in DOMAIN s : s[i] = x

NonDecreasing(s) == \A i, j \in DOMAIN s : i < j => s[i] <= s[j]

\* Every scancode that fitted in the FIFO is queued, latched or has been read.
NothingLost ==
    \A k \in 1 .. injected :
        k \in dropped \/ In(k, fifo) \/ latch = k \/ In(k, reads)

\* Somebody is still going to acknowledge the scancode behind a raised line:
\* the interrupt is pending or about to be, or a handler has yet to pulse bit 7.
AckInFlight ==
    \/ 1 \in pending \/ ui = "assert" \/ emu = "assert"
    \/ \E i \in DOMAIN stack : stack[i].irq = 1 /\ stack[i].at \in {"sti", "in60", "in61", "high"}

\* The keyboard is not wedged: the line is high only while an acknowledge is
\* still to come.
KeyboardNotStuck == line => AckInFlight

\* InjectScancode can harm the keyboard in one window only, between the two
\* edges of OnPort61Edge's acknowledge pulse: unless a scancode was latched
\* there none is lost, and unless the handler could also be nested (or an edge
\* was dropped as masked) the line is never left high with nobody to lower it.
OnlyThePulseRaces ==
    /\ raced \/ NothingLost
    /\ (sti /\ raced) \/ masked \/ KeyboardNotStuck

\* The INT 9 handler reads scancodes from port 60h in the order InjectScancode
\* received them, whatever the interleaving of the threads and of nested
\* handlers, and unless it re-enables interrupts it also stores them in order.
KeysInOrder == NonDecreasing(reads) /\ (sti \/ NonDecreasing(stored))

\* Scancode k, if it fitted in the FIFO, is read from port 60h, or a later one
\* is.
Served(k) ==
    (injected >= k /\ k \notin dropped) ~> (\E j \in k .. NumKeys : In(j, reads))

\* Barring the wedging race and a dropped edge, a guest that eventually leaves
\* the keyboard unmasked reads every scancode or a later one: the keyboard
\* never stops answering.
EveryKeyServed ==
    [](~(sti /\ raced) /\ ~masked) /\ <>[](imr = {}) => \A k \in Key : Served(k)
=============================================================================
