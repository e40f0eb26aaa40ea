----------------------------- MODULE GbBlockJit -----------------------------
(***************************************************************************)
(* The Game Boy core run by its two engines on the same program: one       *)
(* instruction per dispatch (JsonCpu.StepOne), and one compiled block per  *)
(* dispatch (JsonCpu.StepBlock).  A block is what BlockDetector cuts out   *)
(* of the program, lowered by DeferLowering (the delayed IME of EI moves   *)
(* into the following instruction) and compiled by BlockFunctionBuilder,   *)
(* which may leave the block early: on a taken branch, when the cycle      *)
(* budget is used up, or when a store or a "sync" asks for an interrupt    *)
(* poll.  Interrupts are polled between dispatches only.                   *)
(*                                                                         *)
(* Data is abstracted away: an instruction is its effect on PC, IME, HALT  *)
(* and the interrupt request.  The program is any program of ProgSize      *)
(* one-unit instructions; every interleaving of the two engines'           *)
(* bookkeeping is compared after each block, as CpuDiff and                *)
(* VerifiedBlockJitRunner do.                                              *)
(***************************************************************************)
EXTENDS Integers, Sequences

CONSTANTS
    ProgSize,   \* program addresses are 0 .. ProgSize-1 (a bound)
    Cap,        \* instructions per block; also the budget, in M-cycles
    Vector,     \* where the interrupt handler starts
    Follow,     \* blocks may continue at the target of a static jump
    MaxBlocks   \* dispatches explored (a bound)

ASSUME GbBlockJitAssumption ==
    /\ ProgSize \in Nat /\ ProgSize > 1
    /\ Cap \in Nat \ {0}
    /\ Vector \in 0 .. ProgSize-1
    /\ Follow \in BOOLEAN
    /\ MaxBlocks \in Nat

VARIABLES
    prog,     \* the program: address -> instruction
    zero,     \* the flag every conditional branch tests
    jit,      \* the machine driven block by block
    interp,   \* the machine driven instruction by instruction
    jitPath,  \* addresses the last block executed
    intPath,  \* addresses the interpreter executed for that block
    diverged, \* a block hit one of the shapes listed under ShapeDiverges
    blocks    \* dispatches so far

jitVars == <<prog, zero, jit, interp, jitPath, intPath, diverged, blocks>>

Addr == 0 .. ProgSize-1

(* nop: any instruction the engines agree on trivially; bad: an opcode the *)
(* decoder does not know; io: a store to an interrupt-relevant address,    *)
(* which here requests an interrupt; rrb: RR B, encoded CB 18, standing    *)
(* for any data it changes; jp / jcc: jump with a static target.           *)
Instr == [op : {"nop", "bad", "ei", "di", "halt", "io", "reti", "rrb"},
          to : {0}]
           \cup [op : {"jp", "jcc"}, to : Addr]

(* M-cycles charged to the block's budget (the first number of the form).  *)
Cost(op) == CASE op = "jp"   -> 3
              [] op = "jcc"  -> 2
              [] op = "io"   -> 2
              [] op = "rrb"  -> 2
              [] op = "reti" -> 4
              [] OTHER       -> 1

-----------------------------------------------------------------------------
(* The machine: pc, IME, the EI countdown of the interpreter, HALT, an     *)
(* enabled interrupt requested, the stacked return addresses, and a bit of *)
(* register B.                                                             *)
Machine == [pc : Addr, ime : BOOLEAN, ei : 0 .. 2, halted : BOOLEAN,
            irq : BOOLEAN, stk : Seq(Addr), b : BOOLEAN]

(* Mutant: the PC after the last byte of the address space is not wrapped. *)
AfterNoWrap(at) == at + 1

After(at) == (at + 1) % ProgSize

Taken(at) == \/ prog[at].op = "jp"
             \/ prog[at].op = "jcc" /\ zero

(* What the steps of the instruction at `at' do, EI's deferred body apart. *)
Effect(m, at) ==
    LET op   == prog[at].op
        next == IF Taken(at) THEN prog[at].to
                ELSE IF op # "reti" THEN After(at)
                ELSE IF m.stk = <<>> THEN 0 ELSE Head(m.stk)
    IN  [m EXCEPT !.pc     = next,
                  !.ime    = IF op = "di" THEN FALSE ELSE op = "reti" \/ @,
                  !.halted = op = "halt" \/ @,
                  !.irq    = op = "io" \/ @,
                  !.b      = IF op = "rrb" THEN ~@ ELSE @,
                  !.stk    = IF op = "reti" /\ @ # <<>> THEN Tail(@) ELSE @]

(* Poll: a request wakes a halted core; with IME set it is served.         *)
CheckInterrupts(m) ==
    IF ~m.irq THEN m
    ELSE IF ~m.ime THEN [m EXCEPT !.halted = FALSE]
    ELSE [m EXCEPT !.halted = FALSE, !.ime = FALSE, !.irq = FALSE,
                   !.stk = <<m.pc>> \o @, !.pc = Vector]

(* The countdown EI arms; IME is set when it reaches zero.                 *)
TickEiDelay(m) ==
    [m EXCEPT !.ei  = IF @ > 0 THEN @ - 1 ELSE 0,
              !.ime = @ \/ m.ei = 1]

(* One pass of RunCycles' loop in per-instruction mode, core running.      *)
StepOne(m) ==
    LET e == Effect(m, m.pc)
        a == IF prog[m.pc].op = "ei" THEN [e EXCEPT !.ei = 2] ELSE e
    IN  CheckInterrupts(TickEiDelay(a))

(* The interpreter after k further instructions, and the addresses it      *)
(* executed.  A halted core executes nothing.                              *)
Interpret(m, k) ==
    LET run[i \in 0 .. k] ==
          IF i = 0 THEN [m |-> m, path |-> <<>>]
          ELSE IF run[i-1].m.halted THEN run[i-1]
          ELSE [m    |-> StepOne(run[i-1].m),
                path |-> Append(run[i-1].path, run[i-1].m.pc)]
    IN  run[k]

-----------------------------------------------------------------------------
(* Block detection.  An element of a block is an address and whether it is *)
(* a jump the block continues through (its own steps are then not emitted).*)

(* Where the detector thinks an instruction jumps.  It looks at the low    *)
(* byte of the instruction word and at the length: RR B has the word 18    *)
(* and two bytes after the CB prefix is gone, like JR with offset zero.    *)
FollowTarget(at) == CASE prog[at].op = "jp"  -> {prog[at].to}
                      [] prog[at].op = "rrb" -> {After(at)}
                      [] OTHER               -> {}

(* The targets the detector, at its i-th instruction, continues at.        *)
WillFollow(at, i, visited) ==
    IF Follow /\ i < Cap THEN FollowTarget(at) \ visited ELSE {}

(* Mutant: HALT does not end a block.                                      *)
EndsBlockNotHalt(op) == op \in {"jp", "reti"}

EndsBlock(op) == op \in {"jp", "reti", "halt"}

DetectOne(d, i) ==
    LET at == d.pc
        op == prog[at].op
        t  == WillFollow(at, i, d.visited)
        f  == t # {}
    IN  IF op = "bad"
        THEN [d EXCEPT !.done = TRUE,
                       !.seq = IF @ = <<>> THEN <<[at |-> at, followed |-> FALSE]>>
                               ELSE @]
        ELSE [pc      |-> IF f THEN CHOOSE a \in t : TRUE ELSE After(at),
              visited |-> d.visited \cup t,
              seq     |-> Append(d.seq, [at |-> at, followed |-> f]),
              done    |-> EndsBlock(op) /\ ~f]

Detect(start) ==
    LET d[i \in 0 .. Cap] ==
          IF i = 0
          THEN [pc |-> start, visited |-> {start}, seq |-> <<>>, done |-> FALSE]
          ELSE IF d[i-1].done THEN d[i-1] ELSE DetectOne(d[i-1], i)
    IN  d[Cap].seq

-----------------------------------------------------------------------------
(* Lowering and execution of a block.                                      *)

(* The body EI defers is appended to the instruction after it...           *)
DeferredInto(blk, i) == i > 1 /\ prog[blk[i-1].at].op = "ei"

(* ... or, when EI is the last instruction, to the common exit.            *)
DeferredPastEnd(blk) == prog[blk[Len(blk)].at].op = "ei"

(* Mutant: a "sync" step always resumes after its instruction.            *)
SyncFallThrough(b, at) == [b EXCEPT !.m.pc = After(at),
                                    !.pcWritten = TRUE, !.left = TRUE]

(* A "sync" step: keep a PC this instruction wrote, otherwise resume after *)
(* it, and return from the block.                                          *)
Sync(b, at) == [b EXCEPT !.m.pc = IF b.pcWritten THEN @ ELSE After(at),
                         !.pcWritten = TRUE, !.left = TRUE]

(* block_exit: reached by every way out of the block but a sync.           *)
BlockExit(b, blk) ==
    IF DeferredPastEnd(blk)
    THEN Sync([b EXCEPT !.m.ime = TRUE], blk[Len(blk)].at)
    ELSE [b EXCEPT !.left = TRUE]

(* exec: the instruction's own steps, then the bodies deferred into it.    *)
(* A store that asks for a poll returns from the block on the spot.  A     *)
(* followed jump emits nothing.                                            *)
ExecSteps(b, blk, i) ==
    LET at == blk[i].at
        op == prog[at].op
        e  == [b EXCEPT !.m = Effect(b.m, at),
                        !.pcWritten = Taken(at) \/ op = "reti"]
    IN  IF blk[i].followed THEN b
        ELSE IF op = "io" THEN Sync([e EXCEPT !.pcWritten = FALSE], at)
        ELSE IF DeferredInto(blk, i) THEN Sync([e EXCEPT !.m.ime = TRUE], at)
        ELSE e

(* pre, exec, post and the budget check of the i-th instruction.           *)
RunInstr(b, blk, i) ==
    LET at == blk[i].at
        e  == ExecSteps([b EXCEPT !.n = i, !.pcWritten = FALSE], blk, i)
        c  == [e EXCEPT !.cycles = @ - Cost(prog[at].op)]
    IN  IF e.left THEN e
        ELSE IF c.pcWritten THEN BlockExit(c, blk)
        ELSE IF i = Len(blk) THEN BlockExit(c, blk)
        ELSE IF c.cycles <= 0
             THEN BlockExit([c EXCEPT !.m.pc = blk[i+1].at, !.pcWritten = TRUE],
                            blk)
        ELSE c

(* Run the compiled block: what it leaves in the state buffer.             *)
RunBlock(m, blk) ==
    LET run[i \in 0 .. Len(blk)] ==
          IF i = 0
          THEN [m |-> m, n |-> 0, cycles |-> Cap, pcWritten |-> FALSE,
                left |-> FALSE]
          ELSE IF run[i-1].left THEN run[i-1] ELSE RunInstr(run[i-1], blk, i)
    IN  run[Len(blk)]

(* StepBlock: a block that wrote no PC resumes after its last instruction. *)
StepBlock(m, blk) ==
    LET b == RunBlock(m, blk)
    IN  [b EXCEPT !.m.pc = IF b.pcWritten THEN @ ELSE After(blk[Len(blk)].at)]

-----------------------------------------------------------------------------
(* The shapes on which the engines are known to part.                      *)

(* EI ran as i-th of n instructions and its body was not reached, or ran   *)
(* at another point than one instruction later: the block was left right   *)
(* after EI; the next instruction is a store that returns first, a         *)
(* followed jump that emits nothing, or another EI.                        *)
EiMisplaced(blk, n) ==
    \E i \in 1 .. n :
        /\ prog[blk[i].at].op = "ei"
        /\ \/ i = n
           \/ blk[i+1].followed
           \/ prog[blk[i+1].at].op \in {"io", "ei"}

(* The exit of a block whose last instruction is EI sets IME even when the *)
(* block was left before EI was reached.                                   *)
EiAnticipated(blk, n) == DeferredPastEnd(blk) /\ n < Len(blk)

(* The block ends on a followed jump, because its target does not decode:  *)
(* neither the jump nor its target is ever executed.                       *)
JumpSwallowed(blk) == blk[Len(blk)].followed

(* RR B was taken for a followed jump, and its steps were not emitted.     *)
RotateSwallowed(blk, n) ==
    \E i \in 1 .. n : blk[i].followed /\ prog[blk[i].at].op = "rrb"

ShapeDiverges(blk, n) ==
    \/ EiMisplaced(blk, n)
    \/ EiAnticipated(blk, n)
    \/ JumpSwallowed(blk)
    \/ RotateSwallowed(blk, n)

-----------------------------------------------------------------------------
JitInit ==
    /\ prog \in [Addr -> Instr]
    /\ prog[ProgSize-1] = [op |-> "jp", to |-> 0]
    /\ zero \in BOOLEAN
    /\ \E irq \in BOOLEAN :
         jit = [pc |-> 0, ime |-> FALSE, ei |-> 0, halted |-> FALSE,
                irq |-> irq, stk |-> <<>>, b |-> FALSE]
    /\ interp = jit
    /\ jitPath = <<>> /\ intPath = <<>>
    /\ diverged = FALSE
    /\ blocks = 0

(* One block on the JIT, then as many instructions on the interpreter.     *)
VerifyBlock ==
    /\ blocks < MaxBlocks
    /\ ~jit.halted
    /\ ~diverged
    /\ LET blk == Detect(jit.pc)
           b   == StepBlock(jit, blk)
           r   == Interpret(interp, b.n)
       IN  /\ jit' = CheckInterrupts(b.m)
           /\ interp' = r.m
           /\ jitPath' = [i \in 1 .. b.n |-> blk[i].at]
           /\ intPath' = r.path
           /\ diverged' = ShapeDiverges(blk, b.n)
    /\ blocks' = blocks + 1
    /\ UNCHANGED <<prog, zero>>

(* A halted core: the timers raise a request, the poll wakes both engines. *)
Wake ==
    /\ jit.halted /\ interp.halted
    /\ blocks < MaxBlocks
    /\ ~diverged
    /\ jit' = CheckInterrupts([jit EXCEPT !.irq = TRUE])
    /\ interp' = CheckInterrupts([interp EXCEPT !.irq = TRUE])
    /\ jitPath' = <<>> /\ intPath' = <<>>
    /\ blocks' = blocks + 1
    /\ UNCHANGED <<prog, zero, diverged>>

JitNext == VerifyBlock \/ Wake

JitSpec == JitInit /\ [][JitNext]_jitVars

-----------------------------------------------------------------------------
(* Properties *)

(* Outside the named shapes, a block leaves the core exactly as running    *)
(* its instructions one by one with a poll after each: same PC, IME, HALT, *)
(* request and stack, and the same addresses executed in the same order    *)
(* (Lr35902StoreByteEmitter's and SyncEmitter's promise that a block exit  *)
(* "matches per-instr behaviour"): no instruction after an accepted        *)
(* interrupt, a HALT or a taken branch is run, none is skipped.  Even with *)
(* those shapes the core stays well-formed, its PC in the address space.   *)
EnginesAgree ==
    /\ {jit, interp} \subseteq Machine
    /\ ~diverged => jit = interp /\ jitPath = intPath
=============================================================================
