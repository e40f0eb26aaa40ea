---------------------------- MODULE HleKeyboard ----------------------------
(***************************************************************************)
(* The keyboard of the HLE BIOS: the ring of keystrokes in the BIOS data    *)
(* area (PcKeyboard), filled by the UI thread, and INT 16h (HleBios), which *)
(* the emulator thread runs when the guest traps into it (PcSystemRunner).  *)
(*                                                                          *)
(* A keystroke is an (ASCII, scancode) pair, here a member of Key.  Ring    *)
(* offsets count entries from BufferStartOffset.  Methods of PcKeyboard     *)
(* hold its lock throughout, so each is one step.                           *)
(***************************************************************************)
EXTENDS Integers, Sequences

CONSTANTS
    Key,        \* keystrokes
    None,       \* no keystroke: (0, 0)
    RingSize    \* entries of the ring (16)

ASSUME RingAssumption == RingSize \in Nat /\ RingSize >= 2 /\ None \notin Key

Slot == 0 .. RingSize - 1

VARIABLES
    head, tail,     \* BDA 41Ah, 41Ch
    ring,           \* BDA 41Eh-43Dh
    irq1,           \* IRQ 1 pending
    cpu,            \* "run", or in the INT 16h trap: "wait", "read", "peek"
    savedZF,        \* ZF in the FLAGS word that INT 16h pushed
    ret             \* last return from INT 16h: [ah, key, zf]

keyboard == <<head, tail, ring>>
vars == <<head, tail, ring, irq1, cpu, savedZF, ret>>

TypeOK ==
    /\ head \in Slot /\ tail \in Slot
    /\ ring \in [Slot -> Key \cup {None}]
    /\ irq1 \in BOOLEAN
    /\ cpu \in {"run", "wait", "read", "peek"}
    /\ savedZF \in BOOLEAN
    /\ ret \in [ah : {0, 1, 2}, key : Key \cup {None}, zf : BOOLEAN]

\* PcKeyboard.Reset, before the guest runs.
Init ==
    /\ head = 0 /\ tail = 0
    /\ ring = [s \in Slot |-> None]
    /\ irq1 = FALSE /\ cpu = "run" /\ savedZF = FALSE
    /\ ret = [ah |-> 2, key |-> None, zf |-> FALSE]

-----------------------------------------------------------------------------
(* PcKeyboard *)

\* Mutant of Advance: the wrap comes one entry late.
AdvanceLate(s) == IF s + 1 > RingSize THEN 0 ELSE s + 1

Advance(s) == IF s + 1 >= RingSize THEN 0 ELSE s + 1

IsEmpty == head = tail

\* Mutant of Full: no entry is kept free.
FullNever == FALSE

Full == Advance(tail) = head

\* A full ring drops the keystroke and asserts nothing.
EnqueueFull == Full /\ UNCHANGED vars

Enqueue(k) ==
    /\ ~Full
    /\ ring' = [ring EXCEPT ![tail] = k]
    /\ tail' = Advance(tail)
    /\ irq1' = TRUE
    /\ UNCHANGED <<head, cpu, savedZF, ret>>

\* What TryPeek returns.
Peek == IF IsEmpty THEN None ELSE ring[head]

-----------------------------------------------------------------------------
(* Emulator thread *)

\* IRQ 1 reaches the HLE's default INT 9, which only returns.  While the guest
\* is in the INT 16h trap IF is clear and nothing is delivered.
DeliverIrq1 ==
    /\ cpu = "run" /\ irq1
    /\ irq1' = FALSE
    /\ UNCHANGED <<keyboard, cpu, savedZF, ret>>

\* The guest executes INT 16h with AH = 0 or 1, ZF being whatever it was.
Int16(ah) ==
    /\ cpu = "run"
    /\ savedZF' \in BOOLEAN
    /\ cpu' = IF ah = 0 THEN "wait" ELSE "peek"
    /\ UNCHANGED <<keyboard, irq1, ret>>

\* Mutants of LeaveWait: the runner waits for the keyboard interrupt to be
\* served, which IF = 0 prevents; it dispatches without looking at the ring.
LeaveWaitOnIrq ==
    /\ cpu = "wait" /\ ~IsEmpty /\ ~irq1 /\ cpu' = "read"
    /\ UNCHANGED <<keyboard, irq1, savedZF, ret>>
LeaveWaitAlways ==
    /\ cpu = "wait" /\ cpu' = "read"
    /\ UNCHANGED <<keyboard, irq1, savedZF, ret>>

\* IsBlockedOnKeyboard parks the CPU until the ring is not empty; the dispatch
\* that follows looks again.
LeaveWait ==
    /\ cpu = "wait" /\ ~IsEmpty
    /\ cpu' = "read"
    /\ UNCHANGED <<keyboard, irq1, savedZF, ret>>

\* SimulateIret pops FLAGS, so the caller's ZF is what it was before INT 16h.
SimulateIret(ah, key) == cpu' = "run" /\ ret' = [ah |-> ah, key |-> key, zf |-> savedZF]

\* AH=00, with TryDequeue
ReadChar ==
    /\ cpu = "read"
    /\ head' = IF IsEmpty THEN head ELSE Advance(head)
    /\ SimulateIret(0, Peek)
    /\ UNCHANGED <<tail, ring, irq1, savedZF>>

\* AH=01.  The handler sets ZF = IsEmpty before SimulateIret replaces it.
PeekChar ==
    /\ cpu = "peek"
    /\ SimulateIret(1, Peek)
    /\ UNCHANGED <<keyboard, irq1, savedZF>>

Emulator == DeliverIrq1 \/ LeaveWait \/ ReadChar \/ PeekChar

Next ==
    \/ EnqueueFull
    \/ \E k \in Key : Enqueue(k)
    \/ \E ah \in {0, 1} : Int16(ah)
    \/ Emulator

Spec == Init /\ [][Next]_vars

\* The emulator thread keeps running; nobody has to type or to call INT 16h.
FairSpec == Spec /\ WF_vars(LeaveWait) /\ WF_vars(ReadChar) /\ WF_vars(PeekChar)
-----------------------------------------------------------------------------
(* Properties *)

\* The blocking read never returns the empty answer (0, 0): what the runner
\* saw of the ring before dispatching still holds when the handler looks.
ReadReturnsKey == ret.ah = 0 => ret.key # None

\* A guest parked in the blocking read gets its key once one was typed.
WaitEnds == (cpu = "wait" /\ ~IsEmpty) ~> (cpu = "run")

\* The queue the ring represents.
Count == IF head <= tail THEN tail - head ELSE tail - head + RingSize

SlotOf(i) == IF head + i - 1 < RingSize THEN head + i - 1 ELSE head + i - 1 - RingSize

Contents == [i \in 1 .. Count |-> ring[SlotOf(i)]]

Queue == INSTANCE KeyQueue WITH Capacity <- RingSize - 1, queue <- Contents

\* The ring is a first-in first-out queue that holds one entry less than it
\* has, whatever the order of the UI thread's and the guest's operations.
ImplementsQueue == Queue!Spec
=============================================================================
