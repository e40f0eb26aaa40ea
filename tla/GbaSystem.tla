------------------------------ MODULE GbaSystem ------------------------------
(* The Game Boy Advance as GbaSystemRunner runs it: the loop that hands the CPU
   a budget of cycles up to the next display event, the scheduler that counts
   scanlines (GbaScheduler), the DMA channels it triggers (GbaDmaController),
   and the catch-up that ticks the scheduler before an I/O register is read in
   the middle of a compiled block (SyncSchedulerForMmio).

   One thread runs all of it; a Tick may run a DMA transfer, which may read I/O,
   which may call for a Tick again, or write I/O, which may start a transfer
   again, so calls are an explicit stack.  Time is in
   units of four cycles, the cost of the cheapest instruction.  The guest is any
   program: each instruction chooses what it does and what it costs. *)
EXTENDS Integers, Sequences

CONSTANTS HDraw, Line,      \* start of HBlank in a scanline, its length
          Visible, Lines,   \* first line of VBlank, lines of a frame
          Cost,             \* instruction costs (cycles.form)
          Quota,            \* arguments of RunCycles
          NumChannels,      \* DMA channels
          Enables, Targets, \* what the guest writes to DISPSTAT,
          IeWords, IfWords, \* to IE and IF,
          Transfers,        \* to CNT_H of a DMA channel, with the enable bit,
          Copies,           \* and to its SAD, DAD and CNT_L
          MaxCalls          \* bound: a transfer starts another in fewer calls only

Source == {"VBlank", "HBlank", "VCount", "Dma"}
Off == [when |-> "Never", irq |-> FALSE]

ASSUME TimeAssumption ==
    /\ HDraw \in Nat \ {0} /\ Line \in Nat /\ HDraw < Line
    /\ Visible \in Nat \ {0} /\ Lines \in Nat /\ Visible < Lines
    /\ Cost \subseteq Nat \ {0} /\ Quota \subseteq Nat \ {0}
ASSUME DeviceAssumption ==
    /\ NumChannels \in Nat
    /\ Enables \subseteq SUBSET {"VBlank", "HBlank", "VCount"} /\ Targets \subseteq Nat
    /\ IeWords \subseteq SUBSET Source /\ IfWords \subseteq SUBSET Source
    /\ Transfers \subseteq [when : {"Now", "VBlank", "HBlank", "Special"}, irq : BOOLEAN]
    /\ Copies \subseteq [from : {"Memory", "Io"}, to : {"Memory", "Io"}, units : Nat \ {0}]

VARIABLES
    jit,            \* EnableBlockJit was called
    at,             \* where the runner is
    quota, consumed,            \* locals of RunCycles, 0 while it does not run
    budget, stepCycles,         \* its budget and LastStepCycles, 0 between steps
    budgetAtStep, inSync,       \* _budgetAtStep, _inMmioSync
    left,           \* CyclesLeft
    calls,          \* Tick and DMA calls in progress, innermost first
    cyc, line, hbl, \* _cycleInScanline, _scanline, _inHBlank
    enabled, target,            \* DISPSTAT: interrupt enables, VCount target
    ime, ie, iff,    \* interrupt registers
    irqOff,         \* CPSR.I
    halted,         \* CpuHalted
    dma,            \* CNT_H of each channel
    elapsed,        \* history: executed time, modulo a frame
    drift,          \* history: a catch-up ticked time that was already counted
    touched         \* history: this step changed what interrupts are deliverable

runner == <<jit, quota, consumed, budget, stepCycles>>
catchup == <<budgetAtStep, inSync, left>>
display == <<cyc, line, hbl>>
regs == <<enabled, target, ime, ie, irqOff, halted>>
history == <<elapsed, drift, touched>>
vars == <<jit, at, quota, consumed, budget, stepCycles, budgetAtStep, inSync, left,
          calls, cyc, line, hbl, enabled, target, ime, ie, iff, irqOff, halted, dma,
          elapsed, drift, touched>>

Frame == Line * Lines
Position == (line * Line) + cyc
Channel == 0 .. NumChannels - 1
Least(a, b) == IF a < b THEN a ELSE b

TickCall(n, sync) == [fn |-> "Tick", pc |-> "step", rem |-> n, sync |-> sync]
TriggerCall(when, ch) ==
    [fn |-> "Dma", pc |-> "test", when |-> when, ch |-> ch, irq |-> FALSE,
     from |-> "Memory", to |-> "Memory", units |-> 0]

\* ExecuteTransfer of control word w and copy k, whose registers it reads once.
TransferCall(when, ch, w, k) ==
    [fn |-> "Dma", pc |-> "read", when |-> when, ch |-> ch, irq |-> w.irq,
     from |-> k.from, to |-> k.to, units |-> k.units]

Calls ==
    [fn : {"Tick"}, pc : {"step", "roll", "match"}, rem : Nat, sync : BOOLEAN]
    \cup [fn : {"Dma"}, pc : {"test", "read", "write"}, when : {"Now", "VBlank", "HBlank"},
          ch : Nat, irq : BOOLEAN, from : {"Memory", "Io"}, to : {"Memory", "Io"},
          units : Nat]

\* Budgets stay within a step, the position within the frame, and channels hold
\* control words that the guest or a transfer wrote.  Calls have no depth of
\* their own: a transfer that starts another nests as deep as the guest asks.
TypeOK ==
    /\ jit \in BOOLEAN
    /\ at \in {"idle", "done", "trace", "loop", "asleep", "cpu", "read", "busy",
               "stepped", "deliver"}
    /\ quota \in Quota \cup {0} /\ consumed \in Nat /\ stepCycles \in Nat
    /\ budget \in 0 .. Line /\ budgetAtStep \in Int /\ left \in Int
    /\ left <= budgetAtStep
    /\ at \in {"cpu", "read", "busy", "stepped"} => budgetAtStep <= budget
    /\ inSync \in BOOLEAN
    /\ calls \in Seq(Calls)
    /\ cyc \in 0 .. Line /\ line \in 0 .. Lines - 1 /\ hbl \in BOOLEAN
    /\ (calls = <<>> => cyc < Line)
    /\ enabled \in Enables \cup {{}} /\ target \in Targets \cup {0}
    /\ ime \in BOOLEAN /\ ie \in IeWords \cup {{}} /\ iff \subseteq Source
    /\ irqOff \in BOOLEAN /\ halted \in BOOLEAN
    /\ dma \in [Channel -> Transfers \cup {Off}]
    /\ elapsed \in 0 .. Frame - 1 /\ drift \in BOOLEAN /\ touched \in BOOLEAN

Init ==
    /\ jit \in BOOLEAN /\ at = "idle"
    /\ quota = 0 /\ consumed = 0 /\ budget = 0 /\ stepCycles = 0
    /\ budgetAtStep = 0 /\ inSync = FALSE /\ left = 0 /\ calls = <<>>
    /\ cyc = 0 /\ line = 0 /\ hbl = FALSE
    /\ enabled = {} /\ target = 0
    /\ ime = FALSE /\ ie = {} /\ iff = {}
    /\ irqOff \in BOOLEAN       \* CPSR at boot: 0xD3 with a BIOS, 0x1F without
    /\ halted = FALSE
    /\ dma = [ch \in Channel |-> Off]
    /\ elapsed = 0 /\ drift = FALSE /\ touched = FALSE

-----------------------------------------------------------------------------
(* GbaScheduler and GbaDmaController. *)

CyclesUntilNextEvent ==
    IF ~hbl /\ line < Visible /\ cyc < HDraw THEN HDraw - cyc ELSE Line - cyc

Raise(s) == iff' = IF s \in enabled THEN iff \cup {s} ELSE iff

Goto(pc) == [Head(calls) EXCEPT !.pc = pc]

\* Bug: a catch-up in progress is not noticed.
SyncAgain(c, where) ==
    IF budgetAtStep <= left
    THEN calls' = c /\ UNCHANGED <<inSync, drift>>
    ELSE /\ calls' = <<TickCall(budgetAtStep - left, TRUE)>> \o c
         /\ inSync' = TRUE
         /\ drift' = (drift \/ where \notin {"read", "busy"})

\* SyncSchedulerForMmio, called with the calls c still to be finished.  From
\* where: only an instruction in progress has time that is not yet counted.
Sync(c, where) ==
    IF inSync \/ budgetAtStep <= left
    THEN calls' = c /\ UNCHANGED <<inSync, drift>>
    ELSE /\ calls' = <<TickCall(budgetAtStep - left, TRUE)>> \o c
         /\ inSync' = TRUE
         /\ drift' = (drift \/ where \notin {"read", "busy"})

Top(fn, pc) == calls # <<>> /\ Head(calls).fn = fn /\ Head(calls).pc = pc

\* One round of Tick's loop up to the end of the scanline, with EnterHBlank.
TickStep ==
    /\ Top("Tick", "step") /\ Head(calls).rem > 0
    /\ LET n == Least(Head(calls).rem, Line - cyc)
           top == [Goto("roll") EXCEPT !.rem = @ - n]
           enters == ~hbl /\ line < Visible /\ cyc + n >= HDraw
       IN  /\ cyc' = cyc + n
           /\ hbl' = (hbl \/ enters)
           /\ IF enters THEN Raise("HBlank") ELSE UNCHANGED iff
           /\ calls' = (IF enters THEN <<TriggerCall("HBlank", 0)>> ELSE <<>>)
                       \o <<top>> \o Tail(calls)
    /\ UNCHANGED <<at, runner, catchup, line, regs, dma, history>>

\* Bug: the line counter does not wrap.
TickRollOn ==
    /\ Top("Tick", "roll") /\ cyc >= Line
    /\ cyc' = 0 /\ hbl' = FALSE
    /\ line' = line + 1
    /\ calls' = <<Goto("match")>> \o Tail(calls)
    /\ UNCHANGED <<at, runner, catchup, iff, regs, dma, history>>

\* AdvanceScanline up to its VCount comparison.
TickRoll ==
    /\ Top("Tick", "roll") /\ cyc >= Line
    /\ cyc' = 0 /\ hbl' = FALSE
    /\ line' = (line + 1) % Lines
    /\ IF line' = Visible THEN Raise("VBlank") ELSE UNCHANGED iff
    /\ calls' = (IF line' = Visible THEN <<TriggerCall("VBlank", 0)>> ELSE <<>>)
                \o <<Goto("match")>> \o Tail(calls)
    /\ UNCHANGED <<at, runner, catchup, regs, dma, history>>

TickNoRoll ==
    /\ Top("Tick", "roll") /\ cyc < Line
    /\ calls' = <<Goto("step")>> \o Tail(calls)
    /\ UNCHANGED <<at, runner, catchup, display, iff, regs, dma, history>>

TickMatch ==
    /\ Top("Tick", "match")
    /\ IF line = target THEN Raise("VCount") ELSE UNCHANGED iff
    /\ calls' = <<Goto("step")>> \o Tail(calls)
    /\ UNCHANGED <<at, runner, catchup, display, regs, dma, history>>

\* Bug: the catch-up does not rebase the budget.
ReturnNoRebase ==
    /\ Top("Tick", "step") /\ Head(calls).rem = 0
    /\ calls' = Tail(calls)
    /\ inSync' = (inSync /\ ~Head(calls).sync)
    /\ UNCHANGED <<at, runner, budgetAtStep, left, display, iff, regs, dma, history>>

TickReturn ==
    /\ Top("Tick", "step") /\ Head(calls).rem = 0
    /\ calls' = Tail(calls)
    /\ budgetAtStep' = IF Head(calls).sync THEN left ELSE budgetAtStep
    /\ inSync' = (inSync /\ ~Head(calls).sync)
    /\ UNCHANGED <<at, runner, left, display, iff, regs, dma, history>>

\* TriggerOnHBlank and TriggerOnVBlank look at the channels in turn.
DmaStart(k) ==
    /\ Top("Dma", "test")
    /\ LET c == Head(calls)
       IN  /\ c.ch \in Channel /\ dma[c.ch].when = c.when
           /\ calls' = <<TransferCall(c.when, c.ch, dma[c.ch], k)>> \o Tail(calls)
    /\ UNCHANGED <<at, runner, catchup, display, iff, regs, dma, history>>

DmaSkip ==
    /\ Top("Dma", "test")
    /\ LET c == Head(calls)
       IN  /\ c.ch \in Channel => dma[c.ch].when # c.when
           /\ calls' = IF c.ch \in Channel
                       THEN <<TriggerCall(c.when, c.ch + 1)>> \o Tail(calls)
                       ELSE Tail(calls)
    /\ UNCHANGED <<at, runner, catchup, display, iff, regs, dma, history>>

\* A unit is read, which makes the bus catch up if the source is I/O,
DmaRead ==
    /\ Top("Dma", "read") /\ Head(calls).units > 0
    /\ LET c == <<[Goto("write") EXCEPT !.units = @ - 1]>> \o Tail(calls)
       IN  IF Head(calls).from = "Io" THEN Sync(c, at)
           ELSE calls' = c /\ UNCHANGED <<inSync, drift>>
    /\ UNCHANGED <<at, runner, budgetAtStep, left, display, iff, regs, dma,
                   elapsed, touched>>

\* and written, a halfword at a time (a word counts as two units: reading it again
\* would catch up with nothing): to memory or to a register without effect here,
UnitWritten == <<Goto("read")>> \o Tail(calls)

DmaWrite ==
    /\ Top("Dma", "write")
    /\ calls' = UnitWritten
    /\ UNCHANGED <<at, runner, catchup, display, iff, regs, dma, history>>

\* or to an I/O register, as WriteIoHalfword does.
DmaWriteIo == Top("Dma", "write") /\ Head(calls).to = "Io"

DmaWriteIf(w) ==
    /\ DmaWriteIo /\ calls' = UnitWritten
    /\ iff' = iff \ w
    /\ UNCHANGED <<at, runner, catchup, display, regs, dma, history>>

DmaWriteDispstat(e, t) ==
    /\ DmaWriteIo /\ calls' = UnitWritten
    /\ enabled' = e /\ target' = t
    /\ UNCHANGED <<at, runner, catchup, display, ime, ie, irqOff, halted, iff, dma, history>>

DmaWriteIe(e) ==
    /\ DmaWriteIo /\ calls' = UnitWritten
    /\ ie' = e
    /\ UNCHANGED <<at, runner, catchup, display, enabled, target, ime, irqOff, halted, iff,
                   dma, history>>

DmaWriteIme(m) ==
    /\ DmaWriteIo /\ calls' = UnitWritten
    /\ ime' = m
    /\ UNCHANGED <<at, runner, catchup, display, enabled, target, ie, irqOff, halted, iff,
                   dma, history>>

\* OnCntHWrite: only the 0 -> 1 edge of the enable bit starts an immediate
\* transfer.  The code sets no limit to how deep that nests.
StartsNow(ch, w) == dma[ch] = Off /\ w.when = "Now"

DmaWriteCntH(ch, w, k) ==
    /\ DmaWriteIo
    /\ dma' = [dma EXCEPT ![ch] = w]
    /\ IF StartsNow(ch, w)
       THEN /\ Len(calls) < MaxCalls
            /\ calls' = <<TransferCall("Now", ch, w, k)>> \o UnitWritten
       ELSE calls' = UnitWritten
    /\ UNCHANGED <<at, runner, catchup, display, iff, regs, history>>

\* Bug: the channel stays enabled.
DmaEndRearmed ==
    /\ Top("Dma", "read") /\ Head(calls).units = 0
    /\ LET c == Head(calls)
       IN  /\ iff' = IF c.irq THEN iff \cup {"Dma"} ELSE iff
           /\ calls' = IF c.when = "Now"
                       THEN Tail(calls)
                       ELSE <<TriggerCall(c.when, c.ch + 1)>> \o Tail(calls)
    /\ UNCHANGED <<at, runner, catchup, display, regs, dma, history>>

\* The end of ExecuteTransfer: the channel is disabled, whatever the transfer
\* wrote to its CNT_H.  An immediate one returns to OnCntHWrite.
DmaEnd ==
    /\ Top("Dma", "read") /\ Head(calls).units = 0
    /\ LET c == Head(calls)
       IN  /\ dma' = [dma EXCEPT ![c.ch] = Off]
           /\ iff' = IF c.irq THEN iff \cup {"Dma"} ELSE iff
           /\ calls' = IF c.when = "Now"
                       THEN Tail(calls)
                       ELSE <<TriggerCall(c.when, c.ch + 1)>> \o Tail(calls)
    /\ UNCHANGED <<at, runner, catchup, display, regs, history>>

DmaWrites ==
    \/ DmaWrite
    \/ \E w \in IfWords : DmaWriteIf(w)
    \/ \E e \in Enables, t \in Targets : DmaWriteDispstat(e, t)
    \/ \E e \in IeWords : DmaWriteIe(e)
    \/ \E m \in BOOLEAN : DmaWriteIme(m)
    \/ \E ch \in Channel, w \in Transfers \cup {Off}, k \in Copies : DmaWriteCntH(ch, w, k)

Devices ==
    \/ TickStep \/ TickRoll \/ TickNoRoll \/ TickMatch \/ TickReturn
    \/ \E k \in Copies : DmaStart(k)
    \/ DmaSkip \/ DmaRead \/ DmaWrites \/ DmaEnd

-----------------------------------------------------------------------------
(* The guest's instructions: what one does when it starts, then Retire. *)

Quiet(here) == at = here /\ calls = <<>>

Plain ==
    /\ Quiet("cpu") /\ at' = "busy"
    /\ UNCHANGED <<runner, catchup, calls, display, regs, iff, dma, history>>

\* ReadIoByte, ReadIoHalfword, ReadIoWord
ReadIo ==
    /\ Quiet("cpu") /\ at' = "read"
    /\ Sync(<<>>, "read")
    /\ UNCHANGED <<runner, budgetAtStep, left, display, regs, iff, dma, elapsed, touched>>

\* WriteIoByte, WriteIoHalfword: IF is cleared where ones are written.
WriteIf(w) ==
    /\ Quiet("cpu") /\ at' = "busy"
    /\ iff' = iff \ w
    /\ UNCHANGED <<runner, catchup, calls, display, regs, dma, history>>

WriteDispstat(e, t) ==
    /\ Quiet("cpu") /\ at' = "busy"
    /\ enabled' = e /\ target' = t
    /\ UNCHANGED <<runner, catchup, calls, display, ime, ie, irqOff, halted, iff, dma, history>>

\* IE and IME, and CPSR.I by MSR or a return from an exception.
WriteInterruptControl(e, m, i) ==
    /\ Quiet("cpu") /\ at' = "busy"
    /\ ie' = e /\ ime' = m /\ irqOff' = i
    /\ touched' = TRUE
    /\ UNCHANGED <<runner, catchup, calls, display, enabled, target, halted, iff, dma,
                   elapsed, drift>>

\* HALTCNT.  The block goes on.
WriteHaltcnt ==
    /\ Quiet("cpu") /\ at' = "busy"
    /\ halted' = TRUE
    /\ UNCHANGED <<runner, catchup, calls, display, enabled, target, ime, ie, irqOff,
                   iff, dma, history>>

WriteCntH(ch, w, k) ==
    /\ Quiet("cpu") /\ at' = "busy"
    /\ touched' = TRUE
    /\ dma' = [dma EXCEPT ![ch] = w]
    /\ calls' = IF StartsNow(ch, w) THEN <<TransferCall("Now", ch, w, k)>> ELSE <<>>
    /\ UNCHANGED <<runner, catchup, display, regs, iff, elapsed, drift>>

Elapse(n) == elapsed' = IF drift THEN 0 ELSE (elapsed + n) % Frame

\* A compiled block deducts the instruction's cost and goes on unless the budget
\* is used up or the block ends; the interpreter charges four cycles and leaves
\* CyclesLeft alone.
Retire(c, last) ==
    /\ (Quiet("busy") \/ Quiet("read"))
    /\ IF jit
       THEN /\ left' = left - c
            /\ stepCycles' = budget - left'
            /\ at' = IF last \/ left' <= 0 THEN "stepped" ELSE "cpu"
            /\ Elapse(c)
       ELSE /\ stepCycles' = 1 /\ at' = "stepped" /\ Elapse(1)
            /\ UNCHANGED left
    /\ UNCHANGED <<jit, quota, consumed, budget, budgetAtStep, inSync, calls, display,
                   regs, iff, dma, drift, touched>>

\* A block that cannot be compiled: its first byte is skipped.
Undecodable ==
    /\ Quiet("cpu") /\ jit /\ left = budget
    /\ stepCycles' = 1 /\ at' = "stepped" /\ Elapse(1)
    /\ UNCHANGED <<jit, quota, consumed, budget, catchup, calls, display, regs, iff, dma,
                   drift, touched>>

Guest ==
    \/ Plain \/ ReadIo \/ WriteHaltcnt \/ Undecodable
    \/ \E w \in IfWords : WriteIf(w)
    \/ \E e \in Enables, t \in Targets : WriteDispstat(e, t)
    \/ \E e \in IeWords, m, i \in BOOLEAN : WriteInterruptControl(e, m, i)
    \/ \E ch \in Channel, w \in Transfers \cup {Off}, k \in Copies : WriteCntH(ch, w, k)
    \/ \E c \in Cost, last \in BOOLEAN : Retire(c, last)

-----------------------------------------------------------------------------
(* GbaSystemRunner.RunCycles, and its callers. *)

RunCycles(q) ==
    /\ at \in {"idle", "done"} /\ at' = "loop"
    /\ quota' = q
    /\ UNCHANGED <<jit, consumed, budget, stepCycles, catchup, calls, display, regs, iff, dma, history>>

\* After a chunk of cycles the frame trace prints IE, IF and IME, which it reads
\* from the bus.
FrameTrace ==
    /\ at = "done" /\ at' = "trace"
    /\ Sync(<<>>, "trace")
    /\ UNCHANGED <<runner, budgetAtStep, left, display, regs, iff, dma, elapsed, touched>>

FrameTraceEnd ==
    /\ Quiet("trace") /\ at' = "idle"
    /\ UNCHANGED <<runner, catchup, calls, display, regs, iff, dma, history>>

Return ==
    /\ at = "loop" /\ consumed >= quota /\ at' = "done"
    /\ quota' = 0 /\ consumed' = 0
    /\ UNCHANGED <<jit, budget, stepCycles, catchup, calls, display, regs, iff, dma, history>>

SleepTick ==
    /\ at = "loop" /\ consumed < quota /\ halted /\ at' = "asleep"
    /\ calls' = <<TickCall(1, FALSE)>>
    /\ UNCHANGED <<runner, catchup, display, regs, iff, dma, history>>

\* Bug: waking needs IME.
WakeIfDeliverable ==
    /\ Quiet("asleep") /\ at' = "deliver"
    /\ consumed' = consumed + 1 /\ Elapse(1)
    /\ halted' = ~(ime /\ ie \cap iff # {})
    /\ UNCHANGED <<jit, quota, budget, stepCycles, catchup, calls, display, enabled, target,
                   ime, ie, irqOff, iff, dma, drift, touched>>

Wake ==
    /\ Quiet("asleep") /\ at' = "deliver"
    /\ consumed' = consumed + 1 /\ Elapse(1)
    /\ halted' = (ie \cap iff = {})
    /\ UNCHANGED <<jit, quota, budget, stepCycles, catchup, calls, display, enabled, target,
                   ime, ie, irqOff, iff, dma, drift, touched>>

\* Bug: the budget is what is left of the quota.
StartStepWhole ==
    /\ at = "loop" /\ consumed < quota /\ ~halted /\ at' = "cpu"
    /\ budget' = quota - consumed
    /\ left' = budget' /\ budgetAtStep' = budget'
    /\ UNCHANGED <<jit, quota, consumed, stepCycles, inSync, calls, display, regs, iff, dma,
                   history>>

\* At least one instruction may run: the smallest budget is its cost.
StartStep ==
    /\ at = "loop" /\ consumed < quota /\ ~halted /\ at' = "cpu"
    /\ budget' = Least(quota - consumed, CyclesUntilNextEvent)
    /\ left' = budget' /\ budgetAtStep' = budget'
    /\ UNCHANGED <<jit, quota, consumed, stepCycles, inSync, calls, display, regs, iff, dma,
                   history>>

\* The part of the step that no catch-up has ticked.
EndStep ==
    /\ at = "stepped" /\ at' = "deliver"
    /\ LET remainingTicks == stepCycles - (budget - budgetAtStep)
       IN  calls' = IF remainingTicks > 0 THEN <<TickCall(remainingTicks, FALSE)>> ELSE <<>>
    /\ consumed' = consumed + stepCycles
    /\ budget' = 0 /\ stepCycles' = 0 /\ touched' = FALSE
    /\ UNCHANGED <<jit, quota, catchup, display, regs, iff, dma, elapsed, drift>>

Deliverable == ime /\ ie \cap iff # {} /\ ~irqOff

\* Bug: the poll is left out once the quota is used up.
DeliverWithinQuota ==
    /\ Quiet("deliver") /\ at' = "loop"
    /\ irqOff' = (irqOff \/ (Deliverable /\ consumed < quota))
    /\ UNCHANGED <<runner, catchup, calls, display, enabled, target, ime, ie, halted, iff,
                   dma, history>>

\* DeliverIrqIfPending; the registers it swaps are ArmBanks' part.
DeliverIrq ==
    /\ Quiet("deliver") /\ at' = "loop"
    /\ irqOff' = (irqOff \/ Deliverable)
    /\ UNCHANGED <<runner, catchup, calls, display, enabled, target, ime, ie, halted, iff,
                   dma, history>>

Runner ==
    \/ \E q \in Quota : RunCycles(q)
    \/ FrameTrace \/ FrameTraceEnd \/ Return \/ SleepTick \/ Wake
    \/ StartStep \/ EndStep \/ DeliverIrq

Next == Devices \/ Guest \/ Runner

Spec == Init /\ [][Next]_vars

\* One thread runs everything, and its caller keeps asking for more frames.
FairSpec == Spec /\ WF_vars(Next)

-----------------------------------------------------------------------------
(* Properties. *)

\* Between steps, and when an I/O register is read, the display is exactly as
\* far as the time executed so far: no cycle is ticked twice or forgotten,
\* whatever the block caught up with before.  Only under the block JIT can this
\* go wrong, once a DMA transfer of a display event or the frame trace reads I/O
\* after the step has ended (drift).
TimeKept ==
    calls = <<>> /\ at \in {"idle", "done", "loop", "read"} =>
        (drift /\ jit) \/ Position = elapsed

\* A catch-up in the middle of a block reaches no event: it stops short of the
\* next HBlank and line end.
CatchUpCrossesNothing ==
    at \in {"read", "busy"} =>
        \A i \in DOMAIN calls :
            calls[i].fn = "Tick" =>
                /\ cyc + calls[i].rem < Line
                /\ (~hbl /\ line < Visible => cyc + calls[i].rem < HDraw)

\* No catch-up runs inside another, however transfers nest.
CatchUpsDoNotNest ==
    \A i, j \in DOMAIN calls :
        (\A x \in {i, j} : calls[x].fn = "Tick" /\ calls[x].sync) => i = j

\* SyncSchedulerForMmio brings the display to the time executed so far, no
\* further and no less, and a read of I/O thereby neither raises an interrupt
\* nor starts a transfer.
CatchUpExact == TimeKept /\ CatchUpCrossesNothing /\ CatchUpsDoNotNest

\* An instruction runs with a deliverable interrupt waiting only if the block it
\* is in has changed the interrupt registers itself.
PromptInterrupt == Quiet("cpu") /\ Deliverable => touched \/ drift

\* A halted CPU with an enabled display interrupt wakes up, IME set or not, unless
\* a transfer armed before writes the I/O registers: IE, IF and DISPSTAT are then
\* no longer what the CPU went to sleep with.
WakesUp ==
    (at = "loop" /\ halted /\ "VBlank" \in enabled \cap ie) ~> (~halted \/ DmaWriteIo)

\* A channel armed for VBlank is served or reprogrammed, whatever other
\* transfers write to it.
ArmedDmaServed ==
    \A ch \in Channel : (dma[ch].when = "VBlank") ~> (dma[ch].when # "VBlank")
=============================================================================
