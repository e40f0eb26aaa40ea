---------------------------- MODULE GameBoyProofs ----------------------------
(* The engines of the Game Boy agree.

   The block JIT (GbBlockJit) executes what the instruction-by-instruction loop
   executes, for every program, block limit, interrupt vector and number of
   blocks.  A block is as long as Cap allows, and the detector, the compiled
   block and the interpreter are loops: each is first shown to satisfy its own
   equation, by induction on the index (UpTo, from the least element of a set of
   natural numbers).  Then the machine inside the block is related to the
   interpreter's after the same number of instructions (Related), instruction by
   instruction, and the ways of leaving the block are told apart (Exits,
   Compiled).

   An instruction (GbInstructions) leaves the JSON engine, the same list inside a
   block and LegacyCpu in the same state, for every operand and flag.  Bits and
   carries come first; Match then relates packed flags to LegacyCpu's four, one
   lemma for each kind of instruction keeps it (StepMatch), and the block differs
   only in having been left by its last store (BlockInv).  The decimal results
   follow from the flags an addition or subtraction leaves, digit by digit
   (DecimalInv). *)
EXTENDS GbBlockJit, GbInstructions, WellFoundedInduction, SequenceTheorems, TLAPS

-----------------------------------------------------------------------------
(* Induction.  The blocks are as long as Cap allows, so what a block does is
   shown by induction on the instructions executed.  The principle is used in
   the form of a set that holds every index. *)

\* A non-empty set of natural numbers has a least element.
LEMMA LeastNat ==
  ASSUME NEW T, T \subseteq Nat, T # {}
  PROVE  \E x \in T : \A y \in T : x <= y
<1>1. IsWellFoundedOn(OpToRel(<, Nat), Nat)
  BY NatLessThanWellFounded
<1>2. \E x \in T : \A y \in T : ~ (<<y, x>> \in OpToRel(<, Nat))
  BY <1>1, WFMin, Zenon
<1>3. PICK x \in T : \A y \in T : ~ (<<y, x>> \in OpToRel(<, Nat))
  BY <1>2
<1>4. \A y \in T : ~ (y < x)
  BY <1>3 DEF OpToRel
<1> QED BY <1>4

\* A set that holds 0 and, with an index below k, the next one, holds 0 .. k.
LEMMA UpTo ==
  ASSUME NEW k \in Nat, NEW T, 0 \in T, \A i \in 0 .. k-1 : i \in T => i+1 \in T
  PROVE  \A i \in 0 .. k : i \in T
<1> DEFINE B == {i \in 0 .. k : i \notin T}
<1> SUFFICES ASSUME B # {} PROVE FALSE
  OBVIOUS
<1>1. B \subseteq Nat
  OBVIOUS
<1> HIDE DEF B
<1>2. PICK x \in B : \A y \in B : x <= y
  BY <1>1, LeastNat
<1>3. x \in 0 .. k /\ x # 0
  BY <1>2 DEF B
<1>4. x-1 \in 0 .. k-1 /\ x-1 \notin B
  BY <1>2, <1>3
<1> QED BY <1>2, <1>3, <1>4 DEF B

-----------------------------------------------------------------------------
(* The three loops of GbBlockJit satisfy the equations that define them. *)

\* run is the interpreter's loop over k instructions.
Interpreting(m, k, run) ==
  run = [i \in 0 .. k |->
           IF i = 0 THEN [m |-> m, path |-> <<>>]
           ELSE IF run[i-1].m.halted THEN run[i-1]
           ELSE [m    |-> StepOne(run[i-1].m),
                 path |-> Append(run[i-1].path, run[i-1].m.pc)]]

\* d is the detector's loop, from address at, over k instructions.
Detecting(at, k, d) ==
  d = [i \in 0 .. k |->
         IF i = 0 THEN [pc |-> at, visited |-> {at}, seq |-> <<>>, done |-> FALSE]
         ELSE IF d[i-1].done THEN d[i-1] ELSE DetectOne(d[i-1], i)]

\* run is the passage of a compiled block over its first k elements.
Running(m, blk, k, run) ==
  run = [i \in 0 .. k |->
           IF i = 0 THEN [m |-> m, n |-> 0, cycles |-> Cap, pcWritten |-> FALSE, left |-> FALSE]
           ELSE IF run[i-1].left THEN run[i-1] ELSE RunInstr(run[i-1], blk, i)]

\* The interpreter's loop has a value after every number of instructions.
LEMMA InterpretExists ==
  ASSUME NEW m, NEW k \in Nat
  PROVE  \E run : Interpreting(m, k, run)
<1> DEFINE T == {n \in 0 .. k : \E run : Interpreting(m, n, run)}
<1>1. 0 \in T
  <2> DEFINE r == [i \in 0 .. 0 |-> [m |-> m, path |-> <<>>]]
  <2>1. Interpreting(m, 0, r)
    BY DEF Interpreting
  <2> HIDE DEF r
  <2> QED BY <2>1
<1>2. ASSUME NEW j \in 0 .. k-1, j \in T PROVE j+1 \in T
  <2>1. PICK r : Interpreting(m, j, r)
    BY <1>2
  <2> DEFINE last == IF r[j].m.halted THEN r[j]
                     ELSE [m |-> StepOne(r[j].m), path |-> Append(r[j].path, r[j].m.pc)]
  <2> HIDE DEF last
  <2> DEFINE q == [i \in 0 .. (j+1) |-> IF i = j+1 THEN last ELSE r[i]]
  <2>2. \A i \in 0 .. j : q[i] = r[i]
    OBVIOUS
  <2>3. q[j+1] = last
    OBVIOUS
  <2>4. q = [i \in 0 .. (j+1) |-> q[i]]
    OBVIOUS
  <2> HIDE DEF q
  <2>5. ASSUME NEW i \in 0 .. (j+1)
        PROVE  q[i] = IF i = 0 THEN [m |-> m, path |-> <<>>]
                      ELSE IF q[i-1].m.halted THEN q[i-1]
                      ELSE [m |-> StepOne(q[i-1].m), path |-> Append(q[i-1].path, q[i-1].m.pc)]
    <3>1. CASE i = j+1
      <4>1. i # 0 /\ i-1 = j /\ q[j] = r[j] /\ q[i] = last
        BY <3>1, <2>2, <2>3
      <4> QED BY <3>1, <4>1, Zenon DEF last
    <3>2. CASE i \in 0 .. j
      <4>1. q[i] = r[i] /\ (i # 0 => q[i-1] = r[i-1])
        BY <3>2, <2>2
      <4> QED BY <3>2, <4>1, <2>1, Zenon DEF Interpreting
    <3> QED BY <3>1, <3>2
  <2>6. Interpreting(m, j+1, q)
    BY <2>4, <2>5, Zenon DEF Interpreting
  <2> QED BY <2>6
<1> HIDE DEF T
<1>3. k \in T
  BY <1>1, <1>2, UpTo, k \in 0 .. k
<1> QED BY <1>3 DEF T

\* Interpret is the last value of that loop.
LEMMA InterpretDef ==
  ASSUME NEW m, NEW k \in Nat
  PROVE  \E run : Interpreting(m, k, run) /\ Interpret(m, k) = run[k]
<1> DEFINE Loop == CHOOSE run : Interpreting(m, k, run)
<1>1. Interpreting(m, k, Loop)
  BY InterpretExists
<1>2. Interpret(m, k) = Loop[k]
  BY Zenon DEF Interpret, Interpreting
<1> QED BY <1>1, <1>2

\* The detector's loop has a value after every number of instructions.
LEMMA DetectExists ==
  ASSUME NEW at, NEW k \in Nat
  PROVE  \E d : Detecting(at, k, d)
<1> DEFINE T == {n \in 0 .. k : \E d : Detecting(at, n, d)}
<1>1. 0 \in T
  <2> DEFINE r == [i \in 0 .. 0 |-> [pc |-> at, visited |-> {at}, seq |-> <<>>, done |-> FALSE]]
  <2>1. Detecting(at, 0, r)
    BY DEF Detecting
  <2> HIDE DEF r
  <2> QED BY <2>1
<1>2. ASSUME NEW j \in 0 .. k-1, j \in T PROVE j+1 \in T
  <2>1. PICK r : Detecting(at, j, r)
    BY <1>2
  <2> DEFINE last == IF r[j].done THEN r[j] ELSE DetectOne(r[j], j+1)
  <2> HIDE DEF last
  <2> DEFINE q == [i \in 0 .. (j+1) |-> IF i = j+1 THEN last ELSE r[i]]
  <2>2. \A i \in 0 .. j : q[i] = r[i]
    OBVIOUS
  <2>3. q[j+1] = last
    OBVIOUS
  <2>4. q = [i \in 0 .. (j+1) |-> q[i]]
    OBVIOUS
  <2> HIDE DEF q
  <2>5. ASSUME NEW i \in 0 .. (j+1)
        PROVE  q[i] = IF i = 0 THEN [pc |-> at, visited |-> {at}, seq |-> <<>>, done |-> FALSE]
                      ELSE IF q[i-1].done THEN q[i-1] ELSE DetectOne(q[i-1], i)
    <3>1. CASE i = j+1
      <4>1. i # 0 /\ i-1 = j /\ q[j] = r[j] /\ q[i] = last
        BY <3>1, <2>2, <2>3
      <4> QED BY <3>1, <4>1, Zenon DEF last
    <3>2. CASE i \in 0 .. j
      <4>1. q[i] = r[i] /\ (i # 0 => q[i-1] = r[i-1])
        BY <3>2, <2>2
      <4> QED BY <3>2, <4>1, <2>1, Zenon DEF Detecting
    <3> QED BY <3>1, <3>2
  <2>6. Detecting(at, j+1, q)
    BY <2>4, <2>5, Zenon DEF Detecting
  <2> QED BY <2>6
<1> HIDE DEF T
<1>3. k \in T
  BY <1>1, <1>2, UpTo, k \in 0 .. k
<1> QED BY <1>3 DEF T

\* Detect is what the loop has collected after Cap instructions.
LEMMA DetectDef ==
  ASSUME NEW at
  PROVE  \E d : Detecting(at, Cap, d) /\ Detect(at) = d[Cap].seq
<1> DEFINE Loop == CHOOSE d : Detecting(at, Cap, d)
<1>1. Detecting(at, Cap, Loop)
  BY DetectExists, GbBlockJitAssumption
<1>2. Detect(at) = Loop[Cap].seq
  BY Zenon DEF Detect, Detecting
<1> QED BY <1>1, <1>2

\* The block's code has a value after every number of instructions.
LEMMA RunExists ==
  ASSUME NEW m, NEW blk, NEW k \in Nat
  PROVE  \E run : Running(m, blk, k, run)
<1> DEFINE T == {n \in 0 .. k : \E run : Running(m, blk, n, run)}
<1>1. 0 \in T
  <2> DEFINE r == [i \in 0 .. 0 |-> [m |-> m, n |-> 0, cycles |-> Cap, pcWritten |-> FALSE, left |-> FALSE]]
  <2>1. Running(m, blk, 0, r)
    BY DEF Running
  <2> HIDE DEF r
  <2> QED BY <2>1
<1>2. ASSUME NEW j \in 0 .. k-1, j \in T PROVE j+1 \in T
  <2>1. PICK r : Running(m, blk, j, r)
    BY <1>2
  <2> DEFINE last == IF r[j].left THEN r[j] ELSE RunInstr(r[j], blk, j+1)
  <2> HIDE DEF last
  <2> DEFINE q == [i \in 0 .. (j+1) |-> IF i = j+1 THEN last ELSE r[i]]
  <2>2. \A i \in 0 .. j : q[i] = r[i]
    OBVIOUS
  <2>3. q[j+1] = last
    OBVIOUS
  <2>4. q = [i \in 0 .. (j+1) |-> q[i]]
    OBVIOUS
  <2> HIDE DEF q
  <2>5. ASSUME NEW i \in 0 .. (j+1)
        PROVE  q[i] = IF i = 0 THEN [m |-> m, n |-> 0, cycles |-> Cap, pcWritten |-> FALSE, left |-> FALSE]
                      ELSE IF q[i-1].left THEN q[i-1] ELSE RunInstr(q[i-1], blk, i)
    <3>1. CASE i = j+1
      <4>1. i # 0 /\ i-1 = j /\ q[j] = r[j] /\ q[i] = last
        BY <3>1, <2>2, <2>3
      <4> QED BY <3>1, <4>1, Zenon DEF last
    <3>2. CASE i \in 0 .. j
      <4>1. q[i] = r[i] /\ (i # 0 => q[i-1] = r[i-1])
        BY <3>2, <2>2
      <4> QED BY <3>2, <4>1, <2>1, Zenon DEF Running
    <3> QED BY <3>1, <3>2
  <2>6. Running(m, blk, j+1, q)
    BY <2>4, <2>5, Zenon DEF Running
  <2> QED BY <2>6
<1> HIDE DEF T
<1>3. k \in T
  BY <1>1, <1>2, UpTo, k \in 0 .. k
<1> QED BY <1>3 DEF T

\* RunBlock is its value after the last instruction of the block.
LEMMA RunBlockDef ==
  ASSUME NEW m, NEW blk, Len(blk) \in Nat
  PROVE  \E run : Running(m, blk, Len(blk), run) /\ RunBlock(m, blk) = run[Len(blk)]
<1> DEFINE Loop == CHOOSE run : Running(m, blk, Len(blk), run)
<1>1. Running(m, blk, Len(blk), Loop)
  BY RunExists
<1>2. RunBlock(m, blk) = Loop[Len(blk)]
  BY Zenon DEF RunBlock, Running
<1> QED BY <1>1, <1>2

-----------------------------------------------------------------------------
(* What the detector cuts out of the program. *)

\* The program and the flag that conditional branches test.
ProgramType == prog \in [Addr -> Instr] /\ zero \in BOOLEAN

\* An element of a block; only a jump or RR B can be continued through.
Element == {x \in [at : Addr, followed : BOOLEAN] : x.followed => prog[x.at].op \in {"jp", "rrb"}}

\* Where the code goes on after an element that does not end its block.
Onward(x) == IF x.followed /\ prog[x.at].op = "jp" THEN prog[x.at].to ELSE After(x.at)
GoesOn(x) == x.followed \/ ~EndsBlock(prog[x.at].op)

\* A block of the program that starts at address at.
IsBlock(blk, at) ==
  /\ blk \in Seq(Element)
  /\ Len(blk) > 0
  /\ blk[1].at = at
  /\ \A k \in 1 .. Len(blk)-1 : GoesOn(blk[k]) /\ blk[k+1].at = Onward(blk[k])

\* The detector before its next instruction.
Collecting(d, at) ==
  /\ d \in [pc : Addr, visited : SUBSET Addr, seq : Seq(Element), done : BOOLEAN]
  /\ d.seq = <<>> => d.pc = at /\ ~d.done
  /\ d.seq # <<>> => IsBlock(d.seq, at)
  /\ d.seq # <<>> /\ ~d.done => GoesOn(d.seq[Len(d.seq)]) /\ d.pc = Onward(d.seq[Len(d.seq)])

\* Addresses stay in the program.
LEMMA AfterType == ASSUME NEW at \in Addr PROVE After(at) \in Addr
  BY GbBlockJitAssumption DEF Addr, After

\* Every instruction has a target in the program, used or not.
LEMMA InstrType ==
  ASSUME ProgramType, NEW at \in Addr
  PROVE  /\ prog[at].to \in Addr
         /\ prog[at].op \in {"nop", "bad", "ei", "di", "halt", "io", "reti", "rrb", "jp", "jcc"}
<1>1. 0 \in Addr
  BY GbBlockJitAssumption DEF Addr
<1>2. prog[at] \in Instr
  BY DEF ProgramType
<1> QED BY <1>1, <1>2 DEF Instr

\* One more element at the end of a block.
LEMMA IsBlockAppend ==
  ASSUME NEW at, NEW s, IsBlock(s, at), NEW x \in Element,
         GoesOn(s[Len(s)]), x.at = Onward(s[Len(s)])
  PROVE  IsBlock(Append(s, x), at)
<1> DEFINE k == Len(s)
           t == Append(s, x)
<1>1. s \in Seq(Element) /\ k \in Nat /\ k > 0
  BY DEF IsBlock
<1>2. t \in Seq(Element) /\ Len(t) = k+1 /\ t[k+1] = x /\ \A i \in 1 .. k : t[i] = s[i]
  BY <1>1
<1>3. GoesOn(s[k]) /\ x.at = Onward(s[k])
  OBVIOUS
<1>4. s[1].at = at /\ \A i \in 1 .. k-1 : GoesOn(s[i]) /\ s[i+1].at = Onward(s[i])
  BY DEF IsBlock
<1> HIDE DEF k, t
<1>5. t[1].at = at
  BY <1>1, <1>2, <1>4
<1>6. ASSUME NEW i \in 1 .. Len(t)-1 PROVE GoesOn(t[i]) /\ t[i+1].at = Onward(t[i])
  <2>1. CASE i = k
    BY <2>1, <1>1, <1>2, <1>3
  <2>2. CASE i \in 1 .. k-1
    <3>1. t[i] = s[i] /\ t[i+1] = s[i+1]
      BY <2>2, <1>1, <1>2
    <3> QED BY <2>2, <3>1, <1>4
  <2> QED BY <2>1, <2>2, <1>1, <1>2
<1> QED BY <1>1, <1>2, <1>5, <1>6, Len(t) > 0 DEF IsBlock, t

\* A block of one element.
LEMMA IsBlockSingle ==
  ASSUME NEW x \in Element
  PROVE  IsBlock(<<x>>, x.at)
  BY DEF IsBlock

\* The detector's next instruction.
LEMMA DetectOneStep ==
  ASSUME ProgramType, NEW at, NEW d, Collecting(d, at), ~d.done, NEW i \in Nat
  PROVE  Collecting(DetectOne(d, i), at) /\ DetectOne(d, i).seq # <<>>
<1> DEFINE p == d.pc
           t == WillFollow(p, i, d.visited)
           f == t # {}
           x == [at |-> p, followed |-> f]
           s == d.seq
           r == DetectOne(d, i)
<1>1. p \in Addr /\ s \in Seq(Element) /\ d.visited \in SUBSET Addr
  BY DEF Collecting
<1>2. t \subseteq Addr /\ (f => prog[p].op \in {"jp", "rrb"})
  BY <1>1, InstrType, AfterType DEF WillFollow, FollowTarget
<1>3. \A a \in t : a = IF prog[p].op = "jp" THEN prog[p].to ELSE After(p)
  BY DEF WillFollow, FollowTarget
<1>4. x \in Element
  BY <1>1, <1>2 DEF Element
<1>5. IsBlock(Append(s, x), at)
  <2>1. CASE s = <<>>
    <3>1. Append(s, x) = <<x>> /\ x.at = at
      BY <2>1 DEF Collecting
    <3> QED BY <3>1, <1>4, IsBlockSingle
  <2>2. CASE s # <<>>
    <3>1. IsBlock(s, at) /\ GoesOn(s[Len(s)]) /\ x.at = Onward(s[Len(s)])
      BY <2>2 DEF Collecting
    <3> QED BY <3>1, <1>4, IsBlockAppend
  <2> QED BY <2>1, <2>2
<1>6. CASE prog[p].op = "bad"
  <2>1. ~f
    BY <1>6, <1>2
  <2>2. r = [d EXCEPT !.done = TRUE, !.seq = IF s = <<>> THEN <<x>> ELSE s]
    BY <1>6, <2>1, Zenon DEF DetectOne
  <2> DEFINE z == IF s = <<>> THEN <<x>> ELSE s
  <2>3. IsBlock(z, at)
    <3>1. CASE s = <<>>
      <4>1. z = Append(s, x)
        BY <3>1
      <4> QED BY <4>1, <1>5, Zenon
    <3>2. CASE s # <<>>
      BY <3>2, Zenon DEF Collecting
    <3> QED BY <3>1, <3>2
  <2>4. z \in Seq(Element) /\ z # <<>>
    BY <1>1, <1>4
  <2> HIDE DEF z, r
  <2>5. r \in [pc : Addr, visited : SUBSET Addr, seq : Seq(Element), done : BOOLEAN] /\ r.seq = z /\ r.done
    BY <2>2, <2>4 DEF Collecting, z
  <2> QED BY <2>3, <2>4, <2>5 DEF Collecting, r
<1>7. CASE prog[p].op # "bad"
  <2> DEFINE z == Append(s, x)
             q == IF f THEN CHOOSE a \in t : TRUE ELSE After(p)
             e == EndsBlock(prog[p].op) /\ ~f
  <2>1. r = [pc |-> q, visited |-> d.visited \cup t, seq |-> z, done |-> e]
    BY <1>7, Zenon DEF DetectOne
  <2>2. f => (CHOOSE a \in t : TRUE) \in t
    OBVIOUS
  <2>3. q \in Addr /\ q = Onward(x)
    <3>1. CASE f
      BY <3>1, <2>2, <1>2, <1>3 DEF Onward
    <3>2. CASE ~f
      BY <3>2, <1>1, AfterType DEF Onward
    <3> QED BY <3>1, <3>2
  <2>4. ~e => GoesOn(x)
    BY DEF GoesOn
  <2>5. z \in Seq(Element) /\ z # <<>> /\ z[Len(z)] = x
    BY <1>1, <1>4
  <2>6. d.visited \cup t \in SUBSET Addr /\ e \in BOOLEAN
    BY <1>1, <1>2
  <2> HIDE DEF z, q, e, r
  <2>7. r \in [pc : Addr, visited : SUBSET Addr, seq : Seq(Element), done : BOOLEAN]
        /\ r.pc = q /\ r.seq = z /\ r.done = e
    BY <2>1, <2>3, <2>5, <2>6
  <2> QED BY <1>5, <2>3, <2>4, <2>5, <2>7 DEF Collecting, r, z
<1> QED BY <1>6, <1>7

\* A block starts where the detector was asked to look, is not empty, and each
\* of its instructions but the last goes on at the next one.
LEMMA DetectBlock ==
  ASSUME ProgramType, NEW at \in Addr
  PROVE  IsBlock(Detect(at), at)
<1>1. PICK d : Detecting(at, Cap, d) /\ Detect(at) = d[Cap].seq
  BY DetectDef
<1> DEFINE T == {n \in 0 .. Cap : Collecting(d[n], at) /\ (n > 0 => d[n].seq # <<>>)}
<1>2. 0 \in T
  <2>1. d[0] = [pc |-> at, visited |-> {at}, seq |-> <<>>, done |-> FALSE]
    BY <1>1, GbBlockJitAssumption DEF Detecting
  <2>2. d[0].seq = <<>> /\ d[0].pc = at /\ ~d[0].done /\ 0 \in 0 .. Cap
    BY <2>1, GbBlockJitAssumption
  <2>3. d[0] \in [pc : Addr, visited : SUBSET Addr, seq : Seq(Element), done : BOOLEAN]
    BY <2>1
  <2> QED BY <2>2, <2>3 DEF Collecting
<1>3. ASSUME NEW j \in 0 .. Cap-1, j \in T PROVE j+1 \in T
  <2>1. j+1 \in 0 .. Cap /\ j+1 \in Nat /\ (j+1)-1 = j /\ j+1 # 0
    BY GbBlockJitAssumption
  <2>2. d[j+1] = IF d[j].done THEN d[j] ELSE DetectOne(d[j], j+1)
    BY <2>1, <1>1, Zenon DEF Detecting
  <2>3. CASE d[j].done
    BY <2>1, <2>2, <2>3, <1>3 DEF Collecting
  <2>4. CASE ~d[j].done
    BY <2>1, <2>2, <2>4, <1>3, DetectOneStep
  <2> QED BY <2>3, <2>4
<1> HIDE DEF T
<1>4. Cap \in T
  BY <1>2, <1>3, UpTo, GbBlockJitAssumption, Cap \in 0 .. Cap
<1> QED BY <1>1, <1>4, GbBlockJitAssumption DEF T, Collecting

-----------------------------------------------------------------------------
(* One instruction on the machine. *)

\* Machines that agree on every field are the same.
LEMMA MachineEqual ==
  ASSUME NEW x \in Machine, NEW y \in Machine,
         x.pc = y.pc, x.ime = y.ime, x.ei = y.ei, x.halted = y.halted,
         x.irq = y.irq, x.stk = y.stk, x.b = y.b
  PROVE  x = y
  BY DEF Machine

\* What an instruction does, field by field.
LEMMA EffectFields ==
  ASSUME ProgramType, NEW m \in Machine, NEW at \in Addr
  PROVE  LET e == Effect(m, at)  op == prog[at].op
         IN  /\ e \in Machine
             /\ e.pc = IF Taken(at) THEN prog[at].to
                       ELSE IF op # "reti" THEN After(at)
                       ELSE IF m.stk = <<>> THEN 0 ELSE Head(m.stk)
             /\ e.ime = IF op = "di" THEN FALSE ELSE op = "reti" \/ m.ime
             /\ e.halted = (op = "halt" \/ m.halted)
             /\ e.irq = (op = "io" \/ m.irq)
             /\ e.b = (IF op = "rrb" THEN ~m.b ELSE m.b)
             /\ e.stk = (IF op = "reti" /\ m.stk # <<>> THEN Tail(m.stk) ELSE m.stk)
             /\ e.ei = m.ei
<1> DEFINE op == prog[at].op
           next == IF Taken(at) THEN prog[at].to
                   ELSE IF op # "reti" THEN After(at)
                   ELSE IF m.stk = <<>> THEN 0 ELSE Head(m.stk)
           ime == IF op = "di" THEN FALSE ELSE op = "reti" \/ m.ime
           halted == op = "halt" \/ m.halted
           irq == op = "io" \/ m.irq
           b == IF op = "rrb" THEN ~m.b ELSE m.b
           stk == IF op = "reti" /\ m.stk # <<>> THEN Tail(m.stk) ELSE m.stk
           e == Effect(m, at)
<1>1. e = [m EXCEPT !.pc = next, !.ime = ime, !.halted = halted, !.irq = irq, !.b = b, !.stk = stk]
  BY DEF Effect
<1>2. m.stk \in Seq(Addr) /\ 0 \in Addr
  BY GbBlockJitAssumption DEF Machine, Addr
<1>3. next \in Addr
  BY <1>2, InstrType, AfterType
<1>4. stk \in Seq(Addr)
  BY <1>2
<1>5. {ime, halted, irq, b} \subseteq BOOLEAN
  BY Zenon DEF Machine
<1> HIDE DEF next, ime, halted, irq, b, stk, e
<1>6. /\ e \in Machine /\ e.pc = next /\ e.ime = ime /\ e.halted = halted
      /\ e.irq = irq /\ e.b = b /\ e.stk = stk /\ e.ei = m.ei
  BY <1>1, <1>3, <1>4, <1>5 DEF Machine
<1> QED BY <1>6, Zenon DEF next, ime, halted, irq, b, stk, e

\* A poll keeps the machine well-formed, leaves the EI countdown alone, and
\* serves a request when interrupts are enabled.
LEMMA CheckInterruptsFields ==
  ASSUME NEW m \in Machine
  PROVE  LET r == CheckInterrupts(m)
         IN  r \in Machine /\ r.ei = m.ei /\ ~(r.irq /\ r.ime)
<1>1. <<m.pc>> \o m.stk \in Seq(Addr)
  BY DEF Machine
<1>2. Vector \in Addr
  BY GbBlockJitAssumption DEF Addr
<1> DEFINE s == <<m.pc>> \o m.stk
           r == CheckInterrupts(m)
<1>3. CASE ~m.irq
  BY <1>3 DEF CheckInterrupts, Machine
<1>4. CASE m.irq /\ ~m.ime
  BY <1>4 DEF CheckInterrupts, Machine
<1>5. CASE m.irq /\ m.ime
  <2>1. r = [m EXCEPT !.halted = FALSE, !.ime = FALSE, !.irq = FALSE, !.stk = s, !.pc = Vector]
    BY <1>5 DEF CheckInterrupts
  <2>2. s \in Seq(Addr)
    BY <1>1
  <2> HIDE DEF s, r
  <2>3. r \in Machine /\ r.ei = m.ei /\ ~r.irq
    BY <2>1, <2>2, <1>2 DEF Machine
  <2> QED BY <2>3 DEF r
<1> QED BY <1>3, <1>4, <1>5

\* The EI countdown, field by field.
LEMMA TickFields ==
  ASSUME NEW m \in Machine
  PROVE  LET r == TickEiDelay(m)
         IN  /\ r \in Machine
             /\ r.pc = m.pc /\ r.halted = m.halted /\ r.irq = m.irq /\ r.stk = m.stk /\ r.b = m.b
             /\ r.ei = (IF m.ei > 0 THEN m.ei - 1 ELSE 0)
             /\ r.ime = (m.ime \/ m.ei = 1)
<1> DEFINE ei == IF m.ei > 0 THEN m.ei - 1 ELSE 0
           ime == m.ime \/ m.ei = 1
           r == TickEiDelay(m)
<1>1. r = [m EXCEPT !.ei = ei, !.ime = ime]
  BY DEF TickEiDelay
<1>2. ei \in 0 .. 2
  BY DEF Machine
<1>3. ime \in BOOLEAN
  BY Zenon DEF Machine
<1> HIDE DEF ei, ime, r
<1>4. /\ r \in Machine /\ r.ei = ei /\ r.ime = ime
      /\ r.pc = m.pc /\ r.halted = m.halted /\ r.irq = m.irq /\ r.stk = m.stk /\ r.b = m.b
  BY <1>1, <1>2, <1>3 DEF Machine
<1> QED BY <1>4, Zenon DEF ei, ime, r

\* EI arms the countdown.
Armed(e, at) == IF prog[at].op = "ei" THEN [e EXCEPT !.ei = 2] ELSE e

\* It touches nothing but the countdown.
LEMMA ArmedFields ==
  ASSUME NEW e \in Machine, NEW at
  PROVE  LET r == Armed(e, at)
         IN  /\ r \in Machine
             /\ r.pc = e.pc /\ r.halted = e.halted /\ r.irq = e.irq /\ r.stk = e.stk /\ r.b = e.b
             /\ r.ime = e.ime
             /\ r.ei = (IF prog[at].op = "ei" THEN 2 ELSE e.ei)
  BY DEF Armed, Machine

\* The interpreter's instruction before its poll.
Unpolled(m) == TickEiDelay(Armed(Effect(m, m.pc), m.pc))

\* An instruction of the interpreter is its effect, the countdown and a poll.
LEMMA StepOneDef ==
  ASSUME NEW m
  PROVE  StepOne(m) = CheckInterrupts(Unpolled(m))
  BY DEF StepOne, Unpolled, Armed

\* The interpreter keeps the machine well-formed.
LEMMA StepOneType ==
  ASSUME ProgramType, NEW m \in Machine
  PROVE  Unpolled(m) \in Machine /\ StepOne(m) \in Machine
<1>1. m.pc \in Addr
  BY DEF Machine
<1>2. Effect(m, m.pc) \in Machine
  BY <1>1, EffectFields
<1>3. Armed(Effect(m, m.pc), m.pc) \in Machine
  BY <1>2, ArmedFields
<1>4. Unpolled(m) \in Machine
  BY <1>3, TickFields DEF Unpolled
<1> QED BY <1>4, StepOneDef, CheckInterruptsFields

\* So does any number of its instructions.
LEMMA InterpretType ==
  ASSUME ProgramType, NEW m \in Machine, NEW k \in Nat
  PROVE  Interpret(m, k).m \in Machine
<1>1. PICK r : Interpreting(m, k, r) /\ Interpret(m, k) = r[k]
  BY InterpretDef
<1> DEFINE T == {n \in 0 .. k : r[n].m \in Machine}
<1>2. 0 \in T
  <2>1. r[0] = [m |-> m, path |-> <<>>]
    BY <1>1 DEF Interpreting
  <2> QED BY <2>1
<1>3. ASSUME NEW j \in 0 .. k-1, j \in T PROVE j+1 \in T
  <2>1. j+1 \in 0 .. k /\ (j+1)-1 = j /\ j+1 # 0
    OBVIOUS
  <2>2. r[j+1] = IF r[j].m.halted THEN r[j]
                 ELSE [m |-> StepOne(r[j].m), path |-> Append(r[j].path, r[j].m.pc)]
    BY <2>1, <1>1, Zenon DEF Interpreting
  <2>3. StepOne(r[j].m) \in Machine
    BY <1>3, StepOneType
  <2>4. r[j+1].m \in Machine
    BY <2>2, <2>3, <1>3
  <2> QED BY <2>1, <2>4
<1> HIDE DEF T
<1>4. k \in T
  BY <1>2, <1>3, UpTo, k \in 0 .. k
<1> QED BY <1>1, <1>4 DEF T

-----------------------------------------------------------------------------
(* One instruction inside a compiled block. *)

\* What RunInstr hands from one element to the next.
BlockState == [m : Machine, n : Nat, cycles : Int, pcWritten : BOOLEAN, left : BOOLEAN]

\* A sync writes PC, a deferred EI sets IME.
WithPc(m, pc) == [m EXCEPT !.pc = pc]
WithIme(m) == [m EXCEPT !.ime = TRUE]

\* Writing PC changes nothing else.
LEMMA WithPcFields ==
  ASSUME NEW m \in Machine, NEW pc \in Addr
  PROVE  LET r == WithPc(m, pc)
         IN  /\ r \in Machine /\ r.pc = pc /\ r.ime = m.ime /\ r.ei = m.ei
             /\ r.halted = m.halted /\ r.irq = m.irq /\ r.stk = m.stk /\ r.b = m.b
  BY DEF WithPc, Machine

\* Setting IME changes nothing else.
LEMMA WithImeFields ==
  ASSUME NEW m \in Machine
  PROVE  LET r == WithIme(m)
         IN  /\ r \in Machine /\ r.pc = m.pc /\ r.ime = TRUE /\ r.ei = m.ei
             /\ r.halted = m.halted /\ r.irq = m.irq /\ r.stk = m.stk /\ r.b = m.b
  BY DEF WithIme, Machine

\* A sync leaves the block with a written PC.
LEMMA SyncFields ==
  ASSUME NEW b \in BlockState, NEW at \in Addr
  PROVE  LET r == Sync(b, at)
         IN  /\ r \in BlockState /\ r.left /\ r.pcWritten /\ r.n = b.n
             /\ r.m = WithPc(b.m, IF b.pcWritten THEN b.m.pc ELSE After(at))
<1> DEFINE p == IF b.pcWritten THEN b.m.pc ELSE After(at)
           r == Sync(b, at)
<1>1. p \in Addr
  BY AfterType DEF BlockState, Machine
<1>2. r = [b EXCEPT !.m.pc = p, !.pcWritten = TRUE, !.left = TRUE]
  BY DEF Sync
<1> HIDE DEF p
<1>3. WithPc(b.m, p) \in Machine
  BY <1>1, WithPcFields DEF BlockState
<1>4. r = [b EXCEPT !.m = WithPc(b.m, p), !.pcWritten = TRUE, !.left = TRUE]
  BY <1>2 DEF WithPc, BlockState
<1> DEFINE w == WithPc(b.m, p)
<1> HIDE DEF w, r
<1>5. r = [b EXCEPT !.m = w, !.pcWritten = TRUE, !.left = TRUE] /\ w \in Machine
  BY <1>3, <1>4 DEF w, r
<1>6. r \in BlockState /\ r.left /\ r.pcWritten /\ r.n = b.n /\ r.m = w
  BY <1>5 DEF BlockState
<1> QED BY <1>6, Zenon DEF w, p, r

\* The way out of a block leaves it; what it does to the machine but for the
\* body of a closing EI is nothing.
LEMMA BlockExitFields ==
  ASSUME NEW b \in BlockState, NEW blk \in Seq(Element), Len(blk) > 0
  PROVE  LET r == BlockExit(b, blk)
         IN  /\ r \in BlockState /\ r.left /\ r.n = b.n
             /\ ~DeferredPastEnd(blk) => r.m = b.m /\ r.pcWritten = b.pcWritten
<1> DEFINE last == blk[Len(blk)].at
<1>1. last \in Addr
  BY DEF Element
<1>2. CASE DeferredPastEnd(blk)
  <2> DEFINE c == [b EXCEPT !.m.ime = TRUE]
  <2>1. c = [b EXCEPT !.m = WithIme(b.m)]
    BY DEF WithIme, BlockState
  <2>2. WithIme(b.m) \in Machine
    BY WithImeFields DEF BlockState
  <2> DEFINE w == WithIme(b.m)
  <2>3. c = [b EXCEPT !.m = w] /\ w \in Machine
    BY <2>1, <2>2
  <2> HIDE DEF w, c
  <2>4. c \in BlockState /\ c.n = b.n
    BY <2>3 DEF BlockState
  <2>5. BlockExit(b, blk) = Sync(c, last)
    BY <1>2, Zenon DEF BlockExit, c
  <2> HIDE DEF last
  <2> QED BY <1>1, <1>2, <2>4, <2>5, SyncFields
<1>3. CASE ~DeferredPastEnd(blk)
  BY <1>3 DEF BlockExit, BlockState
<1> QED BY <1>2, <1>3

\* What follows the steps of the i-th instruction: the tests that may leave.
Charged(e, cost) == [e EXCEPT !.cycles = e.cycles - cost]
Redirected(c, pc) == [c EXCEPT !.m.pc = pc, !.pcWritten = TRUE]
AfterSteps(c, blk, i) ==
  IF c.pcWritten THEN BlockExit(c, blk)
  ELSE IF i = Len(blk) THEN BlockExit(c, blk)
  ELSE IF c.cycles <= 0 THEN BlockExit(Redirected(c, blk[i+1].at), blk)
  ELSE c

\* How those tests leave the block, or do not.
Exits(r, m, jumps, blk, i) ==
  /\ r \in BlockState /\ r.n = i
  /\ ~r.left => i < Len(blk) /\ ~jumps /\ r.m = m
  /\ ~DeferredPastEnd(blk) =>
       /\ r.left /\ jumps => r.m = m /\ r.pcWritten
       /\ r.left /\ ~jumps /\ i = Len(blk) => r.m = m /\ ~r.pcWritten
       /\ r.left /\ ~jumps /\ i < Len(blk) => r.m = WithPc(m, blk[i+1].at) /\ r.pcWritten

\* Leaving by a written PC, by the end or by the budget is all AfterSteps does.
LEMMA AfterStepsExits ==
  ASSUME NEW blk \in Seq(Element), NEW i \in 1 .. Len(blk),
         NEW e \in BlockState, ~e.left, e.n = i, NEW cost \in Int
  PROVE  Exits(AfterSteps(Charged(e, cost), blk, i), e.m, e.pcWritten, blk, i)
<1> DEFINE c == Charged(e, cost)
           d == Redirected(c, blk[i+1].at)
           r == AfterSteps(c, blk, i)
<1> SUFFICES Exits(r, e.m, e.pcWritten, blk, i)
  OBVIOUS
<1>1. c \in BlockState /\ c.m = e.m /\ c.pcWritten = e.pcWritten /\ c.n = i /\ ~c.left
  BY DEF BlockState, Charged
<1>2. r = IF c.pcWritten THEN BlockExit(c, blk)
          ELSE IF i = Len(blk) THEN BlockExit(c, blk)
          ELSE IF c.cycles <= 0 THEN BlockExit(d, blk)
          ELSE c
  BY Zenon DEF AfterSteps
<1>3. Len(blk) \in Nat /\ Len(blk) > 0
  OBVIOUS
<1> HIDE DEF c
<1>4. i < Len(blk) => d \in BlockState /\ d.m = WithPc(e.m, blk[i+1].at) /\ d.pcWritten /\ d.n = i
  <2> HAVE i < Len(blk)
  <2>1. blk[i+1].at \in Addr
    BY DEF Element
  <2> DEFINE w == WithPc(c.m, blk[i+1].at)
  <2>2. w \in Machine
    BY <2>1, <1>1, WithPcFields DEF BlockState
  <2>3. d = [c EXCEPT !.m = w, !.pcWritten = TRUE]
    BY <1>1 DEF WithPc, Redirected, BlockState
  <2>4. w = WithPc(e.m, blk[i+1].at)
    BY <1>1
  <2> HIDE DEF w, d
  <2>5. d \in BlockState /\ d.m = w /\ d.pcWritten /\ d.n = i
    BY <2>2, <2>3, <1>1 DEF BlockState
  <2> QED BY <2>4, <2>5
<1> HIDE DEF d, r
<1>5. CASE c.pcWritten
  <2>1. r = BlockExit(c, blk)
    BY <1>2, <1>5
  <2>2. /\ r \in BlockState /\ r.left /\ r.n = i
        /\ ~DeferredPastEnd(blk) => r.m = c.m /\ r.pcWritten = c.pcWritten
    BY <1>1, <1>3, <2>1, BlockExitFields
  <2> QED BY <1>1, <1>3, <1>5, <2>2 DEF Exits
<1>6. CASE ~c.pcWritten /\ i = Len(blk)
  <2>1. r = BlockExit(c, blk)
    BY <1>2, <1>6
  <2>2. /\ r \in BlockState /\ r.left /\ r.n = i
        /\ ~DeferredPastEnd(blk) => r.m = c.m /\ r.pcWritten = c.pcWritten
    BY <1>1, <1>3, <2>1, BlockExitFields
  <2> QED BY <1>1, <1>3, <1>6, <2>2 DEF Exits
<1>7. CASE ~c.pcWritten /\ i < Len(blk) /\ c.cycles <= 0
  <2>1. r = BlockExit(d, blk)
    BY <1>2, <1>3, <1>7
  <2>2. /\ r \in BlockState /\ r.left /\ r.n = i
        /\ ~DeferredPastEnd(blk) => r.m = d.m /\ r.pcWritten = d.pcWritten
    BY <1>4, <1>7, <1>3, <2>1, BlockExitFields
  <2> QED BY <1>1, <1>4, <1>3, <1>7, <2>2 DEF Exits
<1>8. CASE ~c.pcWritten /\ i < Len(blk) /\ ~(c.cycles <= 0)
  <2>1. r = c
    BY <1>2, <1>3, <1>8
  <2> QED BY <1>1, <1>8, <2>1 DEF Exits
<1>9. i = Len(blk) \/ i < Len(blk)
  BY <1>3
<1> QED BY <1>5, <1>6, <1>7, <1>8, <1>9

\* The instruction writes PC itself.
Leaps(at) == Taken(at) \/ prog[at].op = "reti"

\* The four ways an element of a block is compiled: nothing is emitted for it,
\* its store leaves the block, a deferred body leaves it, or neither.
StoreExit(r, m, at) ==
  r.left /\ r.pcWritten /\ r.m = WithPc(Effect(m, at), After(at))

DeferredExit(r, m, at) ==
  /\ r.left /\ r.pcWritten
  /\ r.m = WithPc(WithIme(Effect(m, at)), IF Leaps(at) THEN Effect(m, at).pc ELSE After(at))

\* r is what element i of the block makes of machine m.
Compiled(r, m, blk, i) ==
  LET at == blk[i].at
      op == prog[at].op
  IN  /\ r \in BlockState /\ r.n = i
      /\ blk[i].followed => Exits(r, m, FALSE, blk, i)
      /\ ~blk[i].followed /\ op = "io" => StoreExit(r, m, at)
      /\ ~blk[i].followed /\ op # "io" /\ DeferredInto(blk, i) => DeferredExit(r, m, at)
      /\ ~blk[i].followed /\ op # "io" /\ ~DeferredInto(blk, i) => Exits(r, Effect(m, at), Leaps(at), blk, i)

\* RunInstr is one of the four.
LEMMA RunInstrCompiled ==
  ASSUME ProgramType, NEW blk \in Seq(Element), NEW i \in 1 .. Len(blk),
         NEW b \in BlockState, ~b.left
  PROVE  Compiled(RunInstr(b, blk, i), b.m, blk, i)
<1> DEFINE at == blk[i].at
           op == prog[at].op
           e0 == [b EXCEPT !.n = i, !.pcWritten = FALSE]
           e == ExecSteps(e0, blk, i)
           cost == Cost(op)
           r == RunInstr(b, blk, i)
           m == Effect(b.m, at)
           j == Taken(at) \/ op = "reti"
           e1 == [e0 EXCEPT !.m = Effect(e0.m, at), !.pcWritten = j]
<1>1. blk[i] \in Element /\ at \in Addr
  BY DEF Element
<1>2. cost \in Int
  BY DEF Cost
<1>3. e0 \in BlockState /\ e0.m = b.m /\ ~e0.left /\ e0.n = i /\ ~e0.pcWritten
  <2>1. i \in Nat
    OBVIOUS
  <2> QED BY <2>1 DEF BlockState
<1>4. m \in Machine
  BY <1>1, EffectFields DEF BlockState
<1>5. Leaps(at) \in BOOLEAN
  BY Zenon DEF Leaps, Taken, ProgramType
<1>6. r = IF e.left THEN e ELSE AfterSteps(Charged(e, cost), blk, i)
  BY DEF RunInstr, AfterSteps, Charged, Redirected
<1>7. j = Leaps(at)
  BY Zenon DEF Leaps
<1>8. e = IF blk[i].followed THEN e0
          ELSE IF op = "io" THEN Sync([e1 EXCEPT !.pcWritten = FALSE], at)
          ELSE IF DeferredInto(blk, i) THEN Sync([e1 EXCEPT !.m.ime = TRUE], at)
          ELSE e1
  BY Zenon DEF ExecSteps
<1> HIDE DEF e0, e, cost, r, m, j
<1>9. e1 \in BlockState /\ e1.m = m /\ e1.pcWritten = Leaps(at) /\ e1.n = i /\ ~e1.left
  <2>1. Effect(e0.m, at) = m
    BY <1>3 DEF m
  <2> QED BY <2>1, <1>3, <1>4, <1>5, <1>7 DEF BlockState
<1> HIDE DEF e1
<1>10. CASE blk[i].followed
  <2>1. e = e0
    BY <1>8, <1>10
  <2>2. r = AfterSteps(Charged(e0, cost), blk, i)
    BY <2>1, <1>3, <1>6
  <2>3. Exits(r, e0.m, e0.pcWritten, blk, i)
    BY <2>2, <1>2, <1>3, AfterStepsExits
  <2>4. e0.pcWritten = FALSE
    BY <1>3 DEF BlockState
  <2>5. Exits(r, b.m, FALSE, blk, i)
    BY <2>3, <2>4, <1>3, Zenon
  <2> QED BY <1>10, <2>5 DEF Compiled, Exits, r
<1>11. CASE ~blk[i].followed /\ op = "io"
  <2> DEFINE c == [e1 EXCEPT !.pcWritten = FALSE]
  <2>1. c \in BlockState /\ c.m = m /\ ~c.pcWritten /\ c.n = i
    BY <1>9 DEF BlockState
  <2>2. e = Sync(c, at)
    BY <1>8, <1>11
  <2> HIDE DEF c
  <2>3. e \in BlockState /\ e.left /\ e.pcWritten /\ e.n = i /\ e.m = WithPc(m, After(at))
    BY <2>1, <2>2, <1>1, SyncFields
  <2>4. r = e
    BY <2>3, <1>6
  <2>5. StoreExit(r, b.m, at)
    BY <2>3, <2>4 DEF StoreExit, m
  <2> QED BY <1>11, <2>3, <2>4, <2>5 DEF Compiled, r
<1>12. CASE ~blk[i].followed /\ op # "io" /\ DeferredInto(blk, i)
  <2> DEFINE c == [e1 EXCEPT !.m.ime = TRUE]
             w == WithIme(m)
  <2>1. w \in Machine /\ w.pc = m.pc
    BY <1>4, WithImeFields
  <2>2. c = [e1 EXCEPT !.m = w]
    BY <1>9 DEF WithIme, BlockState
  <2> HIDE DEF c, w
  <2>3. c \in BlockState /\ c.m = w /\ c.pcWritten = Leaps(at) /\ c.n = i
    BY <1>9, <2>1, <2>2 DEF BlockState
  <2>4. e = Sync(c, at)
    BY <1>8, <1>12 DEF c
  <2>5. e \in BlockState /\ e.left /\ e.pcWritten /\ e.n = i
        /\ e.m = WithPc(w, IF c.pcWritten THEN c.m.pc ELSE After(at))
    BY <2>3, <2>4, <1>1, SyncFields
  <2>6. r = e
    BY <2>5, <1>6
  <2>7. e.m = WithPc(w, IF Leaps(at) THEN m.pc ELSE After(at))
    BY <2>1, <2>3, <2>5, Zenon
  <2>8. DeferredExit(r, b.m, at)
    BY <2>5, <2>6, <2>7, Zenon DEF DeferredExit, m, w
  <2> QED BY <1>12, <2>5, <2>6, <2>8 DEF Compiled, r
<1>13. CASE ~blk[i].followed /\ op # "io" /\ ~DeferredInto(blk, i)
  <2>1. e = e1
    BY <1>8, <1>13
  <2>2. r = AfterSteps(Charged(e1, cost), blk, i)
    BY <2>1, <1>9, <1>6
  <2>3. Exits(r, e1.m, e1.pcWritten, blk, i)
    BY <2>2, <1>2, <1>9, AfterStepsExits
  <2>4. Exits(r, m, Leaps(at), blk, i)
    BY <2>3, <1>9, Zenon
  <2> QED BY <1>13, <2>4 DEF Compiled, Exits, r, m
<1> QED BY <1>10, <1>11, <1>12, <1>13

-----------------------------------------------------------------------------
(* The block and the interpreter, instruction by instruction. *)

\* The interpreter's instruction before its poll, field by field.
LEMMA UnpolledFields ==
  ASSUME ProgramType, NEW s \in Machine
  PROVE  LET u == Unpolled(s)
             e == Effect(s, s.pc)
             op == prog[s.pc].op
         IN  /\ u \in Machine
             /\ u.pc = e.pc /\ u.halted = e.halted /\ u.irq = e.irq /\ u.stk = e.stk /\ u.b = e.b
             /\ u.ei = (IF op = "ei" THEN 1 ELSE IF s.ei > 0 THEN s.ei - 1 ELSE 0)
             /\ u.ime = (e.ime \/ (op # "ei" /\ s.ei = 1))
<1> DEFINE at == s.pc
           op == prog[at].op
           e == Effect(s, at)
           a == Armed(e, at)
           u == TickEiDelay(a)
<1>1. at \in Addr /\ s.ei \in 0 .. 2
  BY DEF Machine
<1>2. e \in Machine /\ e.ei = s.ei
  BY <1>1, EffectFields
<1>3. /\ a \in Machine
      /\ a.pc = e.pc /\ a.halted = e.halted /\ a.irq = e.irq /\ a.stk = e.stk /\ a.b = e.b
      /\ a.ime = e.ime
      /\ a.ei = (IF op = "ei" THEN 2 ELSE e.ei)
  BY <1>2, ArmedFields
<1>4. /\ u \in Machine
      /\ u.pc = a.pc /\ u.halted = a.halted /\ u.irq = a.irq /\ u.stk = a.stk /\ u.b = a.b
      /\ u.ei = (IF a.ei > 0 THEN a.ei - 1 ELSE 0)
      /\ u.ime = (a.ime \/ a.ei = 1)
  BY <1>3, TickFields
<1> HIDE DEF e, a, u
<1>5. u.ei = (IF op = "ei" THEN 1 ELSE IF s.ei > 0 THEN s.ei - 1 ELSE 0)
  BY <1>1, <1>2, <1>3, <1>4
<1>6. (a.ei = 1) = (op # "ei" /\ s.ei = 1)
  BY <1>2, <1>3
<1>7. u.ime = (e.ime \/ (op # "ei" /\ s.ei = 1))
  BY <1>3, <1>4, <1>6, Zenon
<1>8. Unpolled(s) = u
  BY DEF Unpolled, u, a, e
<1> QED BY <1>3, <1>4, <1>5, <1>7, <1>8, Zenon DEF e

\* Without a deliverable request the poll of a running core does nothing.
LEMMA QuietPoll ==
  ASSUME NEW m \in Machine, ~m.halted, ~(m.irq /\ m.ime)
  PROVE  CheckInterrupts(m) = m
<1>1. CASE ~m.irq
  BY <1>1 DEF CheckInterrupts
<1>2. CASE m.irq /\ ~m.ime
  <2>1. CheckInterrupts(m) = [m EXCEPT !.halted = FALSE]
    BY <1>2 DEF CheckInterrupts
  <2>2. m.halted = FALSE
    BY DEF Machine
  <2> QED BY <2>1, <2>2 DEF Machine
<1> QED BY <1>1, <1>2

\* The interpreter s is about to execute the i-th instruction of the block in
\* which the compiled code has reached m: they differ in PC, which the code does
\* not keep, and in the countdown that stands for the body deferred into i.
Related(s, m, blk, i) ==
  /\ s \in Machine /\ m \in Machine
  /\ s.pc = blk[i].at
  /\ m.ei = 0 /\ s.ei = IF DeferredInto(blk, i) THEN 1 ELSE 0
  /\ s.ime = m.ime /\ s.irq = m.irq /\ s.stk = m.stk /\ s.b = m.b
  /\ ~s.halted /\ ~m.halted
  /\ ~(s.irq /\ s.ime)

\* What the shapes of ShapeDiverges mean at the i-th instruction.
Regular(blk, i) ==
  /\ DeferredInto(blk, i) => ~blk[i].followed /\ prog[blk[i].at].op \notin {"io", "ei"}
  /\ blk[i].followed => prog[blk[i].at].op = "jp"

\* Effects are the same on related machines.
LEMMA EffectRelated ==
  ASSUME ProgramType, NEW blk \in Seq(Element), NEW i \in 1 .. Len(blk),
         NEW s, NEW m, Related(s, m, blk, i)
  PROVE  LET at == blk[i].at
             e == Effect(m, at)
             x == Effect(s, at)
         IN  /\ at \in Addr /\ e \in Machine /\ e.ei = 0
             /\ x.pc = e.pc /\ x.ime = e.ime /\ x.irq = e.irq /\ x.stk = e.stk /\ x.b = e.b
             /\ x.halted = e.halted /\ x.halted = (prog[at].op = "halt")
<1> DEFINE at == blk[i].at
           op == prog[at].op
           e == Effect(m, at)
           x == Effect(s, at)
<1>1. at \in Addr
  BY DEF Element
<1>2. s \in Machine /\ m \in Machine
  BY DEF Related
<1>3. /\ e \in Machine /\ e.ei = m.ei
      /\ e.pc = IF Taken(at) THEN prog[at].to
                ELSE IF op # "reti" THEN After(at)
                ELSE IF m.stk = <<>> THEN 0 ELSE Head(m.stk)
      /\ e.ime = IF op = "di" THEN FALSE ELSE op = "reti" \/ m.ime
      /\ e.halted = (op = "halt" \/ m.halted)
      /\ e.irq = (op = "io" \/ m.irq)
      /\ e.b = (IF op = "rrb" THEN ~m.b ELSE m.b)
      /\ e.stk = (IF op = "reti" /\ m.stk # <<>> THEN Tail(m.stk) ELSE m.stk)
  BY <1>1, <1>2, EffectFields, Zenon
<1>4. /\ x.pc = IF Taken(at) THEN prog[at].to
                ELSE IF op # "reti" THEN After(at)
                ELSE IF s.stk = <<>> THEN 0 ELSE Head(s.stk)
      /\ x.ime = IF op = "di" THEN FALSE ELSE op = "reti" \/ s.ime
      /\ x.halted = (op = "halt" \/ s.halted)
      /\ x.irq = (op = "io" \/ s.irq)
      /\ x.b = (IF op = "rrb" THEN ~s.b ELSE s.b)
      /\ x.stk = (IF op = "reti" /\ s.stk # <<>> THEN Tail(s.stk) ELSE s.stk)
  BY <1>1, <1>2, EffectFields, Zenon
<1> HIDE DEF at, e, x
<1>5. s.ime = m.ime /\ s.irq = m.irq /\ s.stk = m.stk /\ s.b = m.b /\ s.halted = FALSE /\ m.halted = FALSE
  BY DEF Related, Machine
<1>6. x.pc = e.pc /\ x.ime = e.ime /\ x.irq = e.irq /\ x.stk = e.stk /\ x.b = e.b
  BY <1>3, <1>4, <1>5, Zenon
<1>7. x.halted = (op = "halt") /\ e.halted = (op = "halt")
  BY <1>3, <1>4, <1>5, Zenon
<1>8. e.ei = 0
  BY <1>3 DEF Related
<1> QED BY <1>1, <1>3, <1>6, <1>7, <1>8, Zenon DEF at, e, x

\* What the interpreter does with a regular instruction, before its poll: the
\* effect of the compiled instruction, and the body that EI has deferred to it.
LEMMA UnpolledRelated ==
  ASSUME ProgramType, NEW blk \in Seq(Element), NEW i \in 1 .. Len(blk),
         NEW s, NEW m, Related(s, m, blk, i), Regular(blk, i)
  PROVE  LET op == prog[blk[i].at].op
             u == Unpolled(s)
             e == Effect(m, blk[i].at)
         IN  /\ u \in Machine
             /\ u.pc = e.pc /\ u.halted = e.halted /\ u.irq = e.irq /\ u.stk = e.stk /\ u.b = e.b
             /\ u.ei = IF op = "ei" THEN 1 ELSE 0
             /\ u.ime = (e.ime \/ DeferredInto(blk, i))
<1> DEFINE at == blk[i].at
           op == prog[at].op
           u == Unpolled(s)
           e == Effect(m, at)
           x == Effect(s, at)
<1>1. s \in Machine /\ s.pc = at /\ s.ei = IF DeferredInto(blk, i) THEN 1 ELSE 0
  BY DEF Related
<1>2. /\ x.pc = e.pc /\ x.ime = e.ime /\ x.irq = e.irq /\ x.stk = e.stk /\ x.b = e.b
      /\ x.halted = e.halted
  BY EffectRelated
<1>3. /\ u \in Machine
      /\ u.pc = x.pc /\ u.halted = x.halted /\ u.irq = x.irq /\ u.stk = x.stk /\ u.b = x.b
      /\ u.ei = (IF op = "ei" THEN 1 ELSE IF s.ei > 0 THEN s.ei - 1 ELSE 0)
      /\ u.ime = (x.ime \/ (op # "ei" /\ s.ei = 1))
  BY <1>1, UnpolledFields
<1>4. DeferredInto(blk, i) => op # "ei"
  BY DEF Regular
<1> HIDE DEF at, u, e, x
<1>5. u.ei = IF op = "ei" THEN 1 ELSE 0
  BY <1>1, <1>3
<1>6. (op # "ei" /\ s.ei = 1) = DeferredInto(blk, i)
  BY <1>1, <1>4 DEF DeferredInto
<1> QED BY <1>2, <1>3, <1>5, <1>6, Zenon DEF at, u, e, x

\* As long as the block is not left, the interpreter keeps pace with it.
LEMMA StepInBlock ==
  ASSUME ProgramType, NEW at0, NEW blk, IsBlock(blk, at0), NEW i \in 1 .. Len(blk),
         NEW s, NEW m, Related(s, m, blk, i), Regular(blk, i),
         NEW r, Compiled(r, m, blk, i), ~r.left
  PROVE  i+1 \in 1 .. Len(blk) /\ Related(StepOne(s), r.m, blk, i+1)
<1> DEFINE at == blk[i].at
           op == prog[at].op
           u == Unpolled(s)
           e == Effect(m, at)
<1>1. blk \in Seq(Element) /\ Len(blk) \in Nat
  BY DEF IsBlock
<1>2. at \in Addr /\ blk[i] \in Element
  BY <1>1 DEF Element
<1>3. s \in Machine /\ m \in Machine
  BY DEF Related
<1>4. /\ u \in Machine
      /\ u.pc = e.pc /\ u.halted = e.halted /\ u.irq = e.irq /\ u.stk = e.stk /\ u.b = e.b
      /\ u.ei = IF op = "ei" THEN 1 ELSE 0
      /\ u.ime = (e.ime \/ DeferredInto(blk, i))
  BY <1>1, UnpolledRelated
<1>5. /\ e \in Machine /\ e.ei = 0
      /\ e.pc = IF Taken(at) THEN prog[at].to
                ELSE IF op # "reti" THEN After(at)
                ELSE IF m.stk = <<>> THEN 0 ELSE Head(m.stk)
      /\ e.ime = IF op = "di" THEN FALSE ELSE op = "reti" \/ m.ime
      /\ e.halted = (op = "halt" \/ m.halted)
      /\ e.irq = (op = "io" \/ m.irq)
      /\ e.b = (IF op = "rrb" THEN ~m.b ELSE m.b)
      /\ e.stk = (IF op = "reti" /\ m.stk # <<>> THEN Tail(m.stk) ELSE m.stk)
  BY <1>2, <1>3, EffectFields, Zenon DEF Related
<1>6. op # "io" \/ blk[i].followed
  BY DEF Compiled, StoreExit
<1>7. ~DeferredInto(blk, i)
  BY <1>6 DEF Compiled, DeferredExit, Regular
<1>8. i < Len(blk) /\ i+1 \in 1 .. Len(blk)
  <2>1. i < Len(blk)
    BY <1>6, <1>7 DEF Compiled, Exits
  <2> QED BY <2>1, <1>1
<1>9. GoesOn(blk[i]) /\ blk[i+1].at = Onward(blk[i])
  BY <1>1, <1>8 DEF IsBlock
<1>10. DeferredInto(blk, i+1) = (op = "ei")
  BY <1>1 DEF DeferredInto
<1>11. m.halted = FALSE /\ s.ime = m.ime /\ s.irq = m.irq /\ s.stk = m.stk /\ s.b = m.b /\ ~(m.irq /\ m.ime) /\ m.ei = 0
  BY DEF Related, Machine
<1> HIDE DEF u, e
<1>12. /\ r.m \in Machine /\ r.m.ei = 0 /\ r.m.ime = u.ime /\ r.m.irq = u.irq /\ r.m.stk = u.stk /\ r.m.b = u.b
       /\ ~u.halted /\ ~r.m.halted /\ ~(u.irq /\ u.ime) /\ u.pc = blk[i+1].at
  <2>1. CASE blk[i].followed
    <3>1. op = "jp"
      BY <2>1 DEF Regular
    <3>2. r.m = m
      BY <2>1 DEF Compiled, Exits
    <3>3. e.pc = blk[i+1].at
      BY <3>1, <2>1, <1>5, <1>9 DEF Onward, Taken
    <3>4. e.ime = m.ime /\ e.irq = m.irq /\ e.b = m.b /\ e.stk = m.stk /\ e.halted = FALSE
      BY <3>1, <1>3, <1>5, <1>11 DEF Machine
    <3>5. u.ime = m.ime
      BY <3>4, <1>4, <1>7, <1>3, Zenon DEF Machine
    <3> QED BY <3>2, <3>3, <3>4, <3>5, <1>3, <1>4, <1>11
  <2>2. CASE ~blk[i].followed
    <3>1. r.m = e /\ ~Leaps(at)
      BY <2>2, <1>6, <1>7 DEF Compiled, Exits, e
    <3>2. op # "halt" /\ op # "reti" /\ op # "io" /\ ~Taken(at)
      BY <2>2, <3>1, <1>6, <1>9 DEF GoesOn, EndsBlock, Leaps
    <3>3. e.pc = blk[i+1].at
      BY <3>2, <2>2, <1>5, <1>9 DEF Onward
    <3>4. e.irq = m.irq /\ e.halted = FALSE /\ (e.ime => m.ime)
      BY <3>2, <1>3, <1>5, <1>11 DEF Machine
    <3>5. u.ime = e.ime
      BY <1>4, <1>5, <1>7, Zenon DEF Machine
    <3> QED BY <3>1, <3>3, <3>4, <3>5, <1>4, <1>5, <1>11
  <2> QED BY <2>1, <2>2
<1>13. StepOne(s) = u
  BY <1>4, <1>12, QuietPoll, StepOneDef DEF u
<1>14. u.ei = IF DeferredInto(blk, i+1) THEN 1 ELSE 0
  BY <1>4, <1>10
<1> QED BY <1>4, <1>8, <1>12, <1>13, <1>14 DEF Related

\* Where a block that has been left resumes.
Resume(r, blk) == WithPc(r.m, IF r.pcWritten THEN r.m.pc ELSE After(blk[Len(blk)].at))

\* When the block is left, the interpreter arrives at the same machine.
LEMMA StepOutOfBlock ==
  ASSUME ProgramType, NEW at0, NEW blk, IsBlock(blk, at0), NEW i \in 1 .. Len(blk),
         NEW s, NEW m, Related(s, m, blk, i), Regular(blk, i),
         NEW r, Compiled(r, m, blk, i), r.left,
         prog[blk[i].at].op # "ei", ~DeferredPastEnd(blk), ~JumpSwallowed(blk)
  PROVE  Unpolled(s) = Resume(r, blk)
<1> DEFINE at == blk[i].at
           op == prog[at].op
           u == Unpolled(s)
           e == Effect(m, at)
           last == blk[Len(blk)].at
           p == IF r.pcWritten THEN r.m.pc ELSE After(last)
           w == WithPc(r.m, p)
<1>1. blk \in Seq(Element) /\ Len(blk) \in Nat
  BY DEF IsBlock
<1>2. at \in Addr /\ blk[i] \in Element /\ last \in Addr
  BY <1>1 DEF Element
<1>3. s \in Machine /\ m \in Machine
  BY DEF Related
<1>4. /\ u \in Machine
      /\ u.pc = e.pc /\ u.halted = e.halted /\ u.irq = e.irq /\ u.stk = e.stk /\ u.b = e.b
      /\ u.ei = 0
      /\ u.ime = (e.ime \/ DeferredInto(blk, i))
  BY <1>1, UnpolledRelated
<1>5. /\ e \in Machine /\ e.ei = m.ei
      /\ e.pc = IF Taken(at) THEN prog[at].to
                ELSE IF op # "reti" THEN After(at)
                ELSE IF m.stk = <<>> THEN 0 ELSE Head(m.stk)
      /\ e.ime = IF op = "di" THEN FALSE ELSE op = "reti" \/ m.ime
      /\ e.halted = (op = "halt" \/ m.halted)
      /\ e.irq = (op = "io" \/ m.irq)
      /\ e.b = (IF op = "rrb" THEN ~m.b ELSE m.b)
      /\ e.stk = (IF op = "reti" /\ m.stk # <<>> THEN Tail(m.stk) ELSE m.stk)
  BY <1>2, <1>3, EffectFields, Zenon
<1>6. i < Len(blk) => GoesOn(blk[i]) /\ blk[i+1].at = Onward(blk[i])
  BY <1>1 DEF IsBlock
<1>7. r.m \in Machine /\ p \in Addr
  BY <1>2, AfterType DEF Compiled, BlockState, Machine
<1> HIDE DEF p
<1>8. /\ w \in Machine /\ w.pc = p /\ w.ime = r.m.ime /\ w.ei = r.m.ei
      /\ w.halted = r.m.halted /\ w.irq = r.m.irq /\ w.stk = r.m.stk /\ w.b = r.m.b
  BY <1>7, WithPcFields
<1> HIDE DEF u, e, w
<1> SUFFICES /\ p = u.pc /\ r.m.ime = u.ime /\ r.m.ei = 0
             /\ r.m.halted = u.halted /\ r.m.irq = u.irq /\ r.m.stk = u.stk /\ r.m.b = u.b
  BY <1>4, <1>8, MachineEqual DEF Resume, u, w, p
<1>9. m.halted = FALSE /\ m.ei = 0
  BY DEF Related, Machine
<1>10. e \in Machine
  BY <1>5
<1>11. CASE blk[i].followed
  <2>1. op = "jp" /\ ~DeferredInto(blk, i)
    BY <1>11 DEF Regular
  <2>2. i < Len(blk)
    BY <1>1, <1>11 DEF JumpSwallowed
  <2>3. r.m = WithPc(m, blk[i+1].at) /\ r.pcWritten
    BY <1>11, <2>2 DEF Compiled, Exits
  <2>4. blk[i+1].at = prog[at].to /\ blk[i+1].at \in Addr
    BY <1>6, <1>11, <2>1, <2>2, <1>2, InstrType DEF Onward
  <2>5. /\ r.m.pc = prog[at].to /\ r.m.ime = m.ime /\ r.m.ei = m.ei
        /\ r.m.halted = m.halted /\ r.m.irq = m.irq /\ r.m.stk = m.stk /\ r.m.b = m.b
    BY <2>3, <2>4, <1>3, WithPcFields
  <2>6. p = prog[at].to
    BY <2>3, <2>5 DEF p
  <2>7. e.pc = prog[at].to
    BY <2>1, <1>5 DEF Taken
  <2>8. e.ime = m.ime /\ e.irq = m.irq /\ e.b = m.b /\ e.stk = m.stk /\ e.halted = m.halted
    BY <2>1, <1>3, <1>5 DEF Machine
  <2>9. u.ime = m.ime
    BY <2>1, <2>8, <1>3, <1>4, Zenon DEF Machine
  <2> QED BY <2>5, <2>6, <2>7, <2>8, <2>9, <1>4, <1>9
<1>12. CASE ~blk[i].followed /\ op = "io"
  <2>1. r.pcWritten /\ r.m = WithPc(e, After(at))
    BY <1>12 DEF Compiled, StoreExit, e
  <2>2. ~DeferredInto(blk, i)
    BY <1>12 DEF Regular
  <2>3. /\ r.m.pc = After(at) /\ r.m.ime = e.ime /\ r.m.ei = e.ei
        /\ r.m.halted = e.halted /\ r.m.irq = e.irq /\ r.m.stk = e.stk /\ r.m.b = e.b
    BY <2>1, <1>2, <1>10, AfterType, WithPcFields
  <2>4. p = After(at)
    BY <2>1, <2>3 DEF p
  <2>5. e.pc = After(at)
    BY <1>5, <1>12 DEF Taken
  <2>6. u.ime = e.ime
    BY <1>4, <1>5, <2>2, Zenon DEF Machine
  <2> QED BY <2>3, <2>4, <2>5, <2>6, <1>4, <1>5, <1>9
<1>13. CASE ~blk[i].followed /\ op # "io" /\ DeferredInto(blk, i)
  <2> DEFINE x == WithIme(e)
             q == IF Leaps(at) THEN e.pc ELSE After(at)
  <2>1. r.pcWritten /\ r.m = WithPc(x, q)
    BY <1>13 DEF Compiled, DeferredExit, e
  <2>2. q = e.pc
    BY <1>5 DEF Leaps
  <2>3. /\ x \in Machine /\ x.ime = TRUE /\ x.ei = e.ei
        /\ x.halted = e.halted /\ x.irq = e.irq /\ x.stk = e.stk /\ x.b = e.b
    BY <1>5, WithImeFields
  <2>4. q \in Addr
    BY <2>2, <1>5 DEF Machine
  <2> HIDE DEF x, q
  <2>5. /\ r.m.pc = q /\ r.m.ime = x.ime /\ r.m.ei = x.ei
        /\ r.m.halted = x.halted /\ r.m.irq = x.irq /\ r.m.stk = x.stk /\ r.m.b = x.b
    BY <2>1, <2>3, <2>4, WithPcFields
  <2>6. p = q
    BY <2>1, <2>5 DEF p
  <2>7. u.ime = TRUE
    BY <1>4, <1>13, Zenon
  <2> QED BY <2>2, <2>3, <2>5, <2>6, <2>7, <1>4, <1>5, <1>9
<1>14. CASE ~blk[i].followed /\ op # "io" /\ ~DeferredInto(blk, i)
  <2>1. Exits(r, e, Leaps(at), blk, i)
    BY <1>14 DEF Compiled, e
  <2>2. u.ime = e.ime
    BY <1>4, <1>5, <1>14, Zenon DEF Machine
  <2>3. CASE Leaps(at)
    <3>1. r.m = e /\ r.pcWritten
      BY <2>1, <2>3 DEF Exits
    <3>2. p = e.pc
      BY <3>1 DEF p
    <3> QED BY <3>1, <3>2, <2>2, <1>4, <1>5, <1>9
  <2>4. CASE ~Leaps(at) /\ i = Len(blk)
    <3>1. r.m = e /\ ~r.pcWritten
      BY <2>1, <2>4 DEF Exits
    <3>2. p = e.pc
      BY <3>1, <2>4, <1>5 DEF p, Leaps
    <3> QED BY <3>1, <3>2, <2>2, <1>4, <1>5, <1>9
  <2>5. CASE ~Leaps(at) /\ i < Len(blk)
    <3>1. r.m = WithPc(e, blk[i+1].at) /\ r.pcWritten
      BY <2>1, <2>5 DEF Exits
    <3>2. blk[i+1].at = After(at) /\ After(at) \in Addr
      BY <1>2, <1>6, <1>14, <2>5, AfterType DEF Onward
    <3>3. /\ r.m.pc = After(at) /\ r.m.ime = e.ime /\ r.m.ei = e.ei
          /\ r.m.halted = e.halted /\ r.m.irq = e.irq /\ r.m.stk = e.stk /\ r.m.b = e.b
      BY <3>1, <3>2, <1>10, WithPcFields
    <3>4. p = e.pc
      BY <3>1, <3>3, <2>5, <1>5 DEF p, Leaps
    <3> QED BY <3>3, <3>4, <2>2, <1>4, <1>5, <1>9
  <2> QED BY <2>3, <2>4, <2>5, <1>1
<1> QED BY <1>11, <1>12, <1>13, <1>14

-----------------------------------------------------------------------------
(* A whole block. *)

\* The compiled code has not been left after i instructions, or was left after
\* the n-th of them.
Progress(run, i) ==
  /\ run[i] \in BlockState
  /\ ~run[i].left => \A j \in 0 .. i : ~run[j].left
  /\ run[i].left => /\ run[i].n \in 1 .. i
                    /\ run[i] = run[run[i].n]
                    /\ \A j \in 0 .. (run[i].n - 1) : ~run[j].left

\* A block is left, after an instruction of it, and each instruction up to that
\* one is compiled as Compiled says.
LEMMA BlockLeft ==
  ASSUME ProgramType, NEW at0, NEW blk, IsBlock(blk, at0), NEW m \in Machine,
         NEW run, Running(m, blk, Len(blk), run)
  PROVE  LET b == run[Len(blk)]
         IN  /\ b \in BlockState /\ b.left /\ b.n \in 1 .. Len(blk) /\ run[b.n] = b
             /\ run[0].m = m
             /\ \A j \in 1 .. b.n : /\ Compiled(run[j], run[j-1].m, blk, j)
                                    /\ j < b.n => ~run[j].left
<1> DEFINE k == Len(blk)
           T == {i \in 0 .. k : Progress(run, i)}
<1>1. blk \in Seq(Element) /\ k \in Nat /\ k > 0
  BY DEF IsBlock
<1>2. run[0] = [m |-> m, n |-> 0, cycles |-> Cap, pcWritten |-> FALSE, left |-> FALSE]
  BY <1>1 DEF Running
<1>3. \A i \in 1 .. k : run[i] = IF run[i-1].left THEN run[i-1] ELSE RunInstr(run[i-1], blk, i)
  <2> TAKE i \in 1 .. k
  <2>1. i \in 0 .. k /\ i # 0
    BY <1>1
  <2> QED BY <2>1, Zenon DEF Running
<1> HIDE DEF k
<1>4. 0 \in T
  <2>1. run[0] \in BlockState /\ ~run[0].left
    BY <1>2, GbBlockJitAssumption DEF BlockState
  <2> QED BY <2>1, <1>1 DEF Progress
<1>5. ASSUME NEW i \in 1 .. k, run[i-1] \in BlockState, ~run[i-1].left
      PROVE  Compiled(run[i], run[i-1].m, blk, i)
  <2>1. run[i] = RunInstr(run[i-1], blk, i)
    BY <1>3, <1>5
  <2> QED BY <2>1, <1>1, <1>5, RunInstrCompiled DEF k
<1>6. ASSUME NEW j \in 0 .. k-1, j \in T PROVE j+1 \in T
  <2>1. j+1 \in 1 .. k /\ j+1 \in 0 .. k /\ (j+1)-1 = j
    BY <1>1
  <2>2. Progress(run, j)
    BY <1>6
  <2>3. run[j+1] = IF run[j].left THEN run[j] ELSE RunInstr(run[j], blk, j+1)
    BY <1>3, <2>1, Zenon
  <2>4. CASE run[j].left
    <3>1. run[j+1] = run[j]
      BY <2>3, <2>4
    <3>2. run[j].n \in 1 .. j+1
      BY <2>2, <2>4 DEF Progress
    <3>3. Progress(run, j+1)
      BY <2>2, <2>4, <3>1, <3>2 DEF Progress
    <3> QED BY <2>1, <3>3
  <2>5. CASE ~run[j].left
    <3>1. Compiled(run[j+1], run[j].m, blk, j+1)
      BY <1>5, <2>1, <2>2, <2>5 DEF Progress
    <3>2. run[j+1] \in BlockState /\ run[j+1].n = j+1
      BY <3>1 DEF Compiled
    <3>3. \A h \in 0 .. j : ~run[h].left
      BY <2>2, <2>5 DEF Progress
    <3>4. CASE run[j+1].left
      <4>1. Progress(run, j+1)
        BY <3>2, <3>3, <3>4 DEF Progress
      <4> QED BY <4>1, <2>1
    <3>5. CASE ~run[j+1].left
      <4>1. \A h \in 0 .. j+1 : ~run[h].left
        BY <3>3, <3>5
      <4>2. Progress(run, j+1)
        BY <3>2, <3>5, <4>1 DEF Progress
      <4> QED BY <4>2, <2>1
    <3> QED BY <3>4, <3>5
  <2> QED BY <2>4, <2>5
<1> HIDE DEF T
<1>7. \A i \in 0 .. k : i \in T
  BY <1>1, <1>4, <1>6, UpTo
<1>8. \A i \in 0 .. k : Progress(run, i)
  BY <1>7 DEF T
<1>9. run[k].left
  <2> SUFFICES ASSUME ~run[k].left PROVE FALSE
    OBVIOUS
  <2>1. k \in 1 .. k /\ k-1 \in 0 .. k /\ k \in 0 .. k
    BY <1>1
  <2>2. ~run[k-1].left /\ run[k-1] \in BlockState
    BY <2>1, <1>8 DEF Progress
  <2>3. Compiled(run[k], run[k-1].m, blk, k)
    BY <2>1, <2>2, <1>5
  <2> QED BY <2>3 DEF Compiled, Exits, StoreExit, DeferredExit, k
<1> DEFINE b == run[k]
<1>10. /\ b \in BlockState /\ b.n \in 1 .. k /\ run[b.n] = b
       /\ \A j \in 0 .. (b.n - 1) : ~run[j].left
  BY <1>1, <1>8, <1>9, k \in 0 .. k DEF Progress
<1>11. ASSUME NEW j \in 1 .. b.n
       PROVE  Compiled(run[j], run[j-1].m, blk, j) /\ (j < b.n => ~run[j].left)
  <2>1. b.n \in 1 .. k /\ j \in 1 .. k /\ j-1 \in 0 .. k /\ j-1 \in 0 .. (b.n - 1)
    BY <1>1, <1>10
  <2>2. ~run[j-1].left /\ run[j-1] \in BlockState
    BY <2>1, <1>8, <1>10 DEF Progress
  <2>3. Compiled(run[j], run[j-1].m, blk, j)
    BY <2>1, <2>2, <1>5
  <2>4. j < b.n => j \in 0 .. (b.n - 1)
    BY <2>1
  <2> QED BY <2>3, <2>4, <1>10
<1>12. run[0].m = m
  BY <1>2
<1> HIDE DEF b
<1>13. /\ b \in BlockState /\ b.left /\ b.n \in 1 .. k /\ run[b.n] = b
       /\ run[0].m = m
       /\ \A j \in 1 .. b.n : Compiled(run[j], run[j-1].m, blk, j) /\ (j < b.n => ~run[j].left)
  BY <1>9, <1>10, <1>11, <1>12 DEF b
<1> QED BY <1>13, Zenon DEF b, k

\* The addresses of the first n instructions.
Path(blk, n) == [i \in 1 .. n |-> blk[i].at]

\* The interpreter's path grows by the block's next address.
LEMMA PathAppend ==
  ASSUME NEW blk, NEW j \in Nat
  PROVE  Path(blk, 0) = <<>> /\ Append(Path(blk, j), blk[j+1].at) = Path(blk, j+1)
<1> DEFINE p == Path(blk, j)
           q == Append(p, blk[j+1].at)
           V == {blk[i].at : i \in 1 .. j+1}
<1>1. p \in Seq(V) /\ Len(p) = j /\ \A i \in 1 .. j : p[i] = blk[i].at
  BY DEF Path
<1> QED BY <1>1 DEF Path

\* Outside the shapes, the interpreter is in step with the compiled code until
\* the block is left, and then at the machine the block leaves behind.
LEMMA BlockMatches ==
  ASSUME ProgramType, NEW m \in Machine, m.ei = 0, ~m.halted, ~(m.irq /\ m.ime),
         NEW blk, IsBlock(blk, m.pc),
         NEW run, Running(m, blk, Len(blk), run),
         ~ShapeDiverges(blk, run[Len(blk)].n)
  PROVE  LET b == run[Len(blk)]
             t == Interpret(m, b.n)
         IN  t.m = CheckInterrupts(Resume(b, blk)) /\ Resume(b, blk).ei = 0 /\ t.path = Path(blk, b.n)
<1> DEFINE b == run[Len(blk)]
           n == b.n
<1>1. blk \in Seq(Element) /\ Len(blk) \in Nat /\ Len(blk) > 0
  BY DEF IsBlock
<1>2. /\ b \in BlockState /\ b.left /\ n \in 1 .. Len(blk) /\ run[n] = b
      /\ run[0].m = m
      /\ \A j \in 1 .. n : Compiled(run[j], run[j-1].m, blk, j) /\ (j < n => ~run[j].left)
  BY BlockLeft
<1>3. n \in Nat /\ n > 0 /\ n \in 1 .. Len(blk)
  BY <1>1, <1>2
<1>4. PICK t : Interpreting(m, n, t) /\ Interpret(m, n) = t[n]
  BY <1>3, InterpretDef
<1>5. t[0] = [m |-> m, path |-> <<>>]
  BY <1>3, <1>4 DEF Interpreting
<1>6. \A i \in 1 .. n : t[i] = IF t[i-1].m.halted THEN t[i-1]
                               ELSE [m |-> StepOne(t[i-1].m), path |-> Append(t[i-1].path, t[i-1].m.pc)]
  <2> TAKE i \in 1 .. n
  <2>1. i \in 0 .. n /\ i # 0
    BY <1>3
  <2> QED BY <2>1, <1>4, Zenon DEF Interpreting
<1>7. ~EiMisplaced(blk, n) /\ ~EiAnticipated(blk, n) /\ ~JumpSwallowed(blk) /\ ~RotateSwallowed(blk, n)
  BY Zenon DEF ShapeDiverges
<1> HIDE DEF b, n
<1>8. ASSUME NEW i \in 1 .. n PROVE Regular(blk, i)
  <2>1. i \in 1 .. Len(blk) /\ blk[i] \in Element
    BY <1>1, <1>3
  <2>2. DeferredInto(blk, i) => i-1 \in 1 .. n /\ prog[blk[i-1].at].op = "ei" /\ (i-1)+1 = i
    BY <1>3 DEF DeferredInto
  <2>3. DeferredInto(blk, i) => ~blk[i].followed /\ prog[blk[i].at].op \notin {"io", "ei"}
    BY <2>2, <1>7 DEF EiMisplaced
  <2>4. blk[i].followed => prog[blk[i].at].op # "rrb"
    BY <1>7 DEF RotateSwallowed
  <2> QED BY <2>1, <2>3, <2>4 DEF Regular, Element
<1>9. prog[blk[n].at].op # "ei"
  BY <1>3, <1>7, n \in 1 .. n DEF EiMisplaced
<1>10. ~DeferredPastEnd(blk)
  BY <1>1, <1>3, <1>7, <1>9 DEF EiAnticipated, DeferredPastEnd
<1> DEFINE T == {j \in 0 .. n-1 : Related(t[j].m, run[j].m, blk, j+1) /\ t[j].path = Path(blk, j)}
<1>11. 0 \in T
  <2>1. ~DeferredInto(blk, 1)
    BY DEF DeferredInto
  <2>2. m.pc = blk[1].at
    BY DEF IsBlock
  <2>3. Related(m, m, blk, 1)
    BY <2>1, <2>2 DEF Related
  <2>4. Path(blk, 0) = <<>>
    BY PathAppend
  <2> QED BY <2>3, <2>4, <1>2, <1>3, <1>5
<1>12. ASSUME NEW j \in 0 .. n-2, j \in T PROVE j+1 \in T
  <2>1. j+1 \in 1 .. n /\ j+1 < n /\ (j+1)-1 = j /\ j \in Nat /\ j+1 \in 1 .. Len(blk) /\ j+1 \in 0 .. n-1
    BY <1>3, <1>1
  <2>2. Related(t[j].m, run[j].m, blk, j+1) /\ t[j].path = Path(blk, j)
    BY <1>12
  <2>3. Compiled(run[j+1], run[j].m, blk, j+1) /\ ~run[j+1].left
    BY <1>2, <2>1
  <2>4. Related(StepOne(t[j].m), run[j+1].m, blk, (j+1)+1)
    BY <1>8, <2>1, <2>2, <2>3, StepInBlock
  <2>5. t[j+1] = [m |-> StepOne(t[j].m), path |-> Append(t[j].path, t[j].m.pc)]
    BY <1>6, <2>1, <2>2 DEF Related
  <2>6. t[j].m.pc = blk[j+1].at
    BY <2>2 DEF Related
  <2>7. t[j+1].path = Path(blk, j+1)
    BY <2>1, <2>2, <2>5, <2>6, PathAppend
  <2>8. t[j+1].m = StepOne(t[j].m)
    BY <2>5
  <2> QED BY <2>1, <2>4, <2>7, <2>8
<1> HIDE DEF T
<1>13. n-1 \in T
  <2>1. n-1 \in Nat /\ (n-1)-1 = n-2 /\ n-1 \in 0 .. n-1
    BY <1>3
  <2> DEFINE k == n-1
  <2>2. k \in Nat /\ k-1 = n-2 /\ k \in 0 .. k
    BY <2>1
  <2>3. \A j \in 0 .. k-1 : j \in T => j+1 \in T
    BY <1>12, <2>2
  <2> HIDE DEF k
  <2>4. \A i \in 0 .. k : i \in T
    BY <1>11, <2>2, <2>3, UpTo
  <2>5. k \in T
    BY <2>2, <2>4
  <2> QED BY <2>5 DEF k
<1>14. n-1 \in Nat /\ (n-1)+1 = n /\ n \in 1 .. n
  BY <1>3
<1>15. Related(t[n-1].m, run[n-1].m, blk, n) /\ t[n-1].path = Path(blk, n-1)
  BY <1>13, <1>14 DEF T
<1>16. Compiled(run[n], run[n-1].m, blk, n) /\ run[n].left
  BY <1>2, <1>14
<1>17. Unpolled(t[n-1].m) = Resume(b, blk)
  BY <1>2, <1>3, <1>7, <1>8, <1>9, <1>10, <1>14, <1>15, <1>16, StepOutOfBlock
<1>18. t[n] = [m |-> StepOne(t[n-1].m), path |-> Append(t[n-1].path, t[n-1].m.pc)]
  BY <1>6, <1>14, <1>15 DEF Related
<1>19. t[n].m = CheckInterrupts(Resume(b, blk))
  BY <1>17, <1>18, StepOneDef
<1>20. t[n].path = Path(blk, n)
  <2>1. t[n-1].m.pc = blk[n].at
    BY <1>15 DEF Related
  <2> DEFINE k == n-1
  <2>2. k \in Nat /\ k+1 = n /\ t[k].path = Path(blk, k) /\ t[k].m.pc = blk[k+1].at
    BY <2>1, <1>14, <1>15
  <2>3. t[n].path = Append(t[k].path, t[k].m.pc)
    BY <1>18
  <2> HIDE DEF k
  <2> QED BY <2>2, <2>3, PathAppend
<1>21. Resume(b, blk).ei = 0
  BY <1>1, <1>3, <1>8, <1>9, <1>14, <1>15, <1>17, UnpolledRelated
<1> QED BY <1>4, <1>19, <1>20, <1>21, Zenon DEF b, n

\* What StepBlock yields.
LEMMA StepBlockFields ==
  ASSUME ProgramType, NEW m \in Machine, NEW blk, IsBlock(blk, m.pc)
  PROVE  \E run :
           LET b == run[Len(blk)]
               r == StepBlock(m, blk)
           IN  /\ Running(m, blk, Len(blk), run)
               /\ b \in BlockState /\ b.n \in Nat
               /\ r.n = b.n /\ r.m = Resume(b, blk) /\ r.m \in Machine
<1>1. blk \in Seq(Element) /\ Len(blk) \in Nat /\ Len(blk) > 0
  BY DEF IsBlock
<1>2. PICK run : Running(m, blk, Len(blk), run) /\ RunBlock(m, blk) = run[Len(blk)]
  BY <1>1, RunBlockDef
<1> DEFINE b == run[Len(blk)]
           last == blk[Len(blk)].at
           p == IF b.pcWritten THEN b.m.pc ELSE After(last)
           r == StepBlock(m, blk)
<1>3. b \in BlockState
  BY <1>2, BlockLeft
<1>4. last \in Addr
  BY <1>1 DEF Element
<1>5. r = [b EXCEPT !.m.pc = p]
  BY <1>2, Zenon DEF StepBlock
<1> HIDE DEF b, r
<1>6. p \in Addr
  BY <1>3, <1>4, AfterType DEF BlockState, Machine
<1> DEFINE w == WithPc(b.m, p)
<1>7. w \in Machine
  BY <1>3, <1>6, WithPcFields DEF BlockState
<1>8. w = Resume(b, blk)
  BY DEF Resume
<1>9. r = [b EXCEPT !.m = w]
  BY <1>3, <1>5 DEF WithPc, BlockState
<1> HIDE DEF w
<1>10. r.m = w /\ r.n = b.n /\ b.n \in Nat
  BY <1>3, <1>9 DEF BlockState
<1> QED BY <1>2, <1>3, <1>7, <1>8, <1>10 DEF b, r

-----------------------------------------------------------------------------
(* The invariant of GbBlockJit: between blocks the interpreter has no countdown
   running and no request is left that the poll would have served. *)

JitInv ==
  /\ ProgramType
  /\ jit \in Machine /\ interp \in Machine
  /\ diverged \in BOOLEAN
  /\ ~diverged => /\ jit = interp /\ jitPath = intPath
                  /\ jit.ei = 0 /\ ~(jit.irq /\ jit.ime)

\* Both engines start equal, with nothing pending.
LEMMA JitInvInit == JitInit => JitInv
<1> SUFFICES ASSUME JitInit PROVE JitInv
  OBVIOUS
<1>1. 0 \in Addr
  BY GbBlockJitAssumption DEF Addr
<1>2. ProgramType
  BY DEF JitInit, ProgramType
<1>3. PICK irq \in BOOLEAN :
        jit = [pc |-> 0, ime |-> FALSE, ei |-> 0, halted |-> FALSE, irq |-> irq, stk |-> <<>>, b |-> FALSE]
  BY DEF JitInit
<1>4. jit \in Machine /\ jit.ei = 0 /\ ~jit.ime
  BY <1>1, <1>3 DEF Machine
<1>5. interp = jit /\ diverged = FALSE /\ jitPath = intPath
  BY DEF JitInit
<1> QED BY <1>2, <1>4, <1>5 DEF JitInv

\* A verified block keeps the engines equal or sets diverged.
LEMMA VerifyBlockStep ==
  ASSUME JitInv, VerifyBlock
  PROVE  JitInv'
<1> DEFINE blk == Detect(jit.pc)
           r == StepBlock(jit, blk)
           t == Interpret(interp, r.n)
<1>1. /\ ProgramType /\ jit \in Machine /\ interp \in Machine /\ jit = interp
      /\ jit.ei = 0 /\ ~(jit.irq /\ jit.ime)
  BY DEF JitInv, VerifyBlock
<1>2. ~jit.halted
  BY DEF VerifyBlock
<1>3. jit.pc \in Addr
  BY <1>1 DEF Machine
<1>4. IsBlock(blk, jit.pc)
  BY <1>1, <1>3, DetectBlock
<1>5. /\ jit' = CheckInterrupts(r.m) /\ interp' = t.m
      /\ jitPath' = Path(blk, r.n) /\ intPath' = t.path
      /\ diverged' = ShapeDiverges(blk, r.n)
      /\ prog' = prog /\ zero' = zero
  BY Zenon DEF VerifyBlock, Path
<1> HIDE DEF blk
<1>6. PICK run :
        /\ Running(jit, blk, Len(blk), run)
        /\ run[Len(blk)].n \in Nat
        /\ r.n = run[Len(blk)].n /\ r.m = Resume(run[Len(blk)], blk) /\ r.m \in Machine
  BY <1>1, <1>4, StepBlockFields
<1> HIDE DEF r
<1>7. jit' \in Machine /\ jit'.ei = r.m.ei /\ ~(jit'.irq /\ jit'.ime)
  BY <1>5, <1>6, CheckInterruptsFields
<1>8. interp' \in Machine
  BY <1>1, <1>5, <1>6, InterpretType
<1>9. ProgramType'
  BY <1>1, <1>5 DEF ProgramType, Addr, Instr
<1>10. diverged' \in BOOLEAN
  BY <1>5, Zenon DEF ShapeDiverges
<1>11. ASSUME ~diverged' PROVE jit' = interp' /\ jitPath' = intPath' /\ r.m.ei = 0
  <2>1. ~ShapeDiverges(blk, run[Len(blk)].n)
    BY <1>5, <1>6, <1>11
  <2>2. LET b == run[Len(blk)]
            q == Interpret(jit, b.n)
        IN  q.m = CheckInterrupts(Resume(b, blk)) /\ Resume(b, blk).ei = 0 /\ q.path = Path(blk, b.n)
    BY <2>1, <1>1, <1>2, <1>4, <1>6, BlockMatches
  <2> QED BY <2>2, <1>1, <1>5, <1>6
<1> QED BY <1>7, <1>8, <1>9, <1>10, <1>11 DEF JitInv

\* So does the wake-up of a halted core.
LEMMA WakeStep ==
  ASSUME JitInv, Wake
  PROVE  JitInv'
<1> DEFINE x == [jit EXCEPT !.irq = TRUE]
<1>1. x \in Machine /\ x.ei = jit.ei
  BY DEF JitInv, Machine
<1>2. jit = interp /\ jit.ei = 0 /\ ProgramType
  BY DEF JitInv, Wake
<1>3. /\ jit' = CheckInterrupts(x) /\ interp' = CheckInterrupts(x) /\ jitPath' = intPath'
      /\ prog' = prog /\ zero' = zero /\ diverged' = diverged
  BY <1>2 DEF Wake
<1> HIDE DEF x
<1>4. jit' \in Machine /\ jit'.ei = 0 /\ ~(jit'.irq /\ jit'.ime)
  BY <1>1, <1>2, <1>3, CheckInterruptsFields
<1>5. ProgramType'
  BY <1>2, <1>3 DEF ProgramType, Addr, Instr
<1> QED BY <1>3, <1>4, <1>5 DEF JitInv

\* The invariant is inductive.
LEMMA JitInvStep == JitInv /\ [JitNext]_jitVars => JitInv'
<1> SUFFICES ASSUME JitInv, [JitNext]_jitVars PROVE JitInv'
  OBVIOUS
<1>1. CASE VerifyBlock
  BY <1>1, VerifyBlockStep
<1>2. CASE Wake
  BY <1>2, WakeStep
<1>3. CASE UNCHANGED jitVars
  BY <1>3 DEF jitVars, JitInv, ProgramType, Addr, Instr, Machine
<1> QED BY <1>1, <1>2, <1>3 DEF JitNext

\* Outside the named shapes, a compiled block leaves the core where the
\* instruction-by-instruction loop does, and has executed the same addresses,
\* whatever the program, its length, the block limit and the interrupt vector.
THEOREM JitAgrees == JitSpec => []EnginesAgree
<1>1. JitInv => EnginesAgree
  BY DEF JitInv, EnginesAgree
<1> QED BY <1>1, JitInvInit, JitInvStep, PTL DEF JitSpec

-----------------------------------------------------------------------------
(* One instruction in three engines.  Bytes, bits and flags first. *)

\* Byte and Word reduce to their widths.
LEMMA Reduced ==
  ASSUME NEW x \in Int
  PROVE  Byte(x) \in B8 /\ Word(x) \in B16
  BY DEF Byte, Word, B8, B16

\* A number below 2^16 is a word.
LEMMA InWord ==
  ASSUME NEW w \in Nat, w < 65536
  PROVE  w \in B16
<1>1. w % 65536 = w
  OBVIOUS
<1> QED BY <1>1, Reduced DEF Word

\* The bits of a word, one by one.
LEMMA BitOf ==
  ASSUME NEW x \in Nat
  PROVE  /\ Bit(x, 0) = (x \div 1) % 2
         /\ Bit(x, 1) = (x \div 2) % 2
         /\ Bit(x, 2) = (x \div 4) % 2
         /\ Bit(x, 3) = (x \div 8) % 2
         /\ Bit(x, 4) = (x \div 16) % 2
         /\ Bit(x, 5) = (x \div 32) % 2
         /\ Bit(x, 6) = (x \div 64) % 2
         /\ Bit(x, 7) = (x \div 128) % 2
         /\ Bit(x, 8) = (x \div 256) % 2
         /\ Bit(x, 9) = (x \div 512) % 2
         /\ Bit(x, 10) = (x \div 1024) % 2
         /\ Bit(x, 11) = (x \div 2048) % 2
         /\ Bit(x, 12) = (x \div 4096) % 2
         /\ Bit(x, 13) = (x \div 8192) % 2
         /\ Bit(x, 14) = (x \div 16384) % 2
         /\ Bit(x, 15) = (x \div 32768) % 2
<1>1. Bit(x, 0) = (x \div 1) % 2
  BY 2^0 = 1 DEF Bit
<1>2. Bit(x, 1) = (x \div 2) % 2
  BY 2^1 = 2 DEF Bit
<1>3. Bit(x, 2) = (x \div 4) % 2
  BY 2^2 = 4 DEF Bit
<1>4. Bit(x, 3) = (x \div 8) % 2
  BY 2^3 = 8 DEF Bit
<1>5. Bit(x, 4) = (x \div 16) % 2
  BY 2^4 = 16 DEF Bit
<1>6. Bit(x, 5) = (x \div 32) % 2
  BY 2^5 = 32 DEF Bit
<1>7. Bit(x, 6) = (x \div 64) % 2
  BY 2^6 = 64 DEF Bit
<1>8. Bit(x, 7) = (x \div 128) % 2
  BY 2^7 = 128 DEF Bit
<1>9. Bit(x, 8) = (x \div 256) % 2
  BY 2^8 = 256 DEF Bit
<1>10. Bit(x, 9) = (x \div 512) % 2
  BY 2^9 = 512 DEF Bit
<1>11. Bit(x, 10) = (x \div 1024) % 2
  BY 2^10 = 1024 DEF Bit
<1>12. Bit(x, 11) = (x \div 2048) % 2
  BY 2^11 = 2048 DEF Bit
<1>13. Bit(x, 12) = (x \div 4096) % 2
  BY 2^12 = 4096 DEF Bit
<1>14. Bit(x, 13) = (x \div 8192) % 2
  BY 2^13 = 8192 DEF Bit
<1>15. Bit(x, 14) = (x \div 16384) % 2
  BY 2^14 = 16384 DEF Bit
<1>16. Bit(x, 15) = (x \div 32768) % 2
  BY 2^15 = 32768 DEF Bit
<1> QED BY <1>1, <1>2, <1>3, <1>4, <1>5, <1>6, <1>7, <1>8, <1>9, <1>10, <1>11, <1>12, <1>13, <1>14, <1>15, <1>16

\* The power of two that a bit number stands for.
LEMMA PowerType ==
  ASSUME NEW k \in 0..15
  PROVE  2^k \in Nat \ {0}
<1>1. CASE k = 0
  BY <1>1, 2^0 = 1
<1>2. CASE k = 1
  BY <1>2, 2^1 = 2
<1>3. CASE k = 2
  BY <1>3, 2^2 = 4
<1>4. CASE k = 3
  BY <1>4, 2^3 = 8
<1>5. CASE k = 4
  BY <1>5, 2^4 = 16
<1>6. CASE k = 5
  BY <1>6, 2^5 = 32
<1>7. CASE k = 6
  BY <1>7, 2^6 = 64
<1>8. CASE k = 7
  BY <1>8, 2^7 = 128
<1>9. CASE k = 8
  BY <1>9, 2^8 = 256
<1>10. CASE k = 9
  BY <1>10, 2^9 = 512
<1>11. CASE k = 10
  BY <1>11, 2^10 = 1024
<1>12. CASE k = 11
  BY <1>12, 2^11 = 2048
<1>13. CASE k = 12
  BY <1>13, 2^12 = 4096
<1>14. CASE k = 13
  BY <1>14, 2^13 = 8192
<1>15. CASE k = 14
  BY <1>15, 2^14 = 16384
<1>16. CASE k = 15
  BY <1>16, 2^15 = 32768
<1> QED BY <1>1, <1>2, <1>3, <1>4, <1>5, <1>6, <1>7, <1>8, <1>9, <1>10, <1>11, <1>12, <1>13, <1>14, <1>15, <1>16

\* A bit is 0 or 1.
LEMMA BitType ==
  ASSUME NEW x \in Nat, NEW k \in 0..15
  PROVE  Bit(x, k) \in {0, 1}
<1> DEFINE p == 2^k
           q == x \div p
<1>1. p \in Nat \ {0}
  BY PowerType
<1> HIDE DEF p
<1>2. q \in Nat
  BY <1>1
<1> HIDE DEF q
<1>3. q % 2 \in {0, 1}
  BY <1>2
<1> QED BY <1>3 DEF Bit, q, p

\* F is the sum of its four flags.
LEMMA FlagBits ==
  ASSUME NEW z \in {0, 1}, NEW n \in {0, 1}, NEW h \in {0, 1}, NEW c \in {0, 1}
  PROVE  LET f == StoreFlags(z, n, h, c)
         IN  /\ f \in AllFlags /\ f \in B8
             /\ Bit(f, Z) = z /\ Bit(f, N) = n /\ Bit(f, H) = h /\ Bit(f, C) = c
             /\ \A x \in {0, 1} : /\ WithBit(f, Z, x) = StoreFlags(x, n, h, c)
                                  /\ WithBit(f, N, x) = StoreFlags(z, x, h, c)
                                  /\ WithBit(f, H, x) = StoreFlags(z, n, x, c)
                                  /\ WithBit(f, C, x) = StoreFlags(z, n, h, x)
<1> DEFINE f == StoreFlags(z, n, h, c)
<1>0. 2^4 = 16 /\ 2^5 = 32 /\ 2^6 = 64 /\ 2^7 = 128
  OBVIOUS
<1>1. f = 128 * z + 64 * n + 32 * h + 16 * c /\ f \in B8
  BY DEF StoreFlags, B8
<1>2. f \in AllFlags
  <2>1. f = 16 * (8 * z + 4 * n + 2 * h + c) /\ 8 * z + 4 * n + 2 * h + c \in 0..15
    BY <1>1
  <2> QED BY <2>1 DEF AllFlags
<1>3. f \div 128 = z /\ f \div 64 = 2 * z + n /\ f \div 32 = 4 * z + 2 * n + h /\ f \div 16 = 8 * z + 4 * n +
        2 * h + c
  BY <1>1
<1>4. Bit(f, Z) = z /\ Bit(f, N) = n /\ Bit(f, H) = h /\ Bit(f, C) = c
  BY <1>3, <1>0 DEF Bit, Z, N, H, C
<1> HIDE DEF f
<1>5. ASSUME NEW x \in {0, 1}
      PROVE  /\ WithBit(f, Z, x) = StoreFlags(x, n, h, c)
             /\ WithBit(f, N, x) = StoreFlags(z, x, h, c)
             /\ WithBit(f, H, x) = StoreFlags(z, n, x, c)
             /\ WithBit(f, C, x) = StoreFlags(z, n, h, x)
  <2>1. /\ WithBit(f, Z, x) = f + (x - z) * 128 /\ WithBit(f, N, x) = f + (x - n) * 64
        /\ WithBit(f, H, x) = f + (x - h) * 32 /\ WithBit(f, C, x) = f + (x - c) * 16
    BY <1>4, <1>0 DEF WithBit, Z, N, H, C
  <2> QED BY <2>1, <1>1 DEF StoreFlags
<1> QED BY <1>1, <1>2, <1>4, <1>5 DEF f

\* A value of F is made of four flags.
LEMMA FlagsOf ==
  ASSUME NEW f \in AllFlags
  PROVE  /\ f \in B8
         /\ \E z, n, h, c \in {0, 1} : f = StoreFlags(z, n, h, c)
<1>1. PICK q \in 0..15 : f = 16 * q
  BY DEF AllFlags
<1> DEFINE z == q \div 8
           n == (q \div 4) % 2
           h == (q \div 2) % 2
           c == q % 2
<1>2. z \in {0, 1} /\ n \in {0, 1} /\ h \in {0, 1} /\ c \in {0, 1} /\ q = 8 * z + 4 * n + 2 * h + c
  OBVIOUS
<1> HIDE DEF z, n, h, c
<1>3. f = StoreFlags(z, n, h, c)
  BY <1>1, <1>2 DEF StoreFlags
<1> QED BY <1>1, <1>2, <1>3 DEF B8

\* Changing a bit of a byte leaves a byte.
LEMMA WithBitType ==
  ASSUME NEW x \in B8, NEW k \in 0..7, NEW v \in {0, 1}
  PROVE  WithBit(x, k, v) \in B8
<1>1. CASE k = 0
  <2>1. WithBit(x, 0, v) = x + (v - ((x \div 1) % 2)) * 1
    BY 2^0 = 1 DEF WithBit, Bit
  <2>2. x + (v - ((x \div 1) % 2)) * 1 \in 0..255
    BY DEF B8
  <2> QED BY <2>1, <2>2, <1>1 DEF B8
<1>2. CASE k = 1
  <2>1. WithBit(x, 1, v) = x + (v - ((x \div 2) % 2)) * 2
    BY 2^1 = 2 DEF WithBit, Bit
  <2>2. x + (v - ((x \div 2) % 2)) * 2 \in 0..255
    BY DEF B8
  <2> QED BY <2>1, <2>2, <1>2 DEF B8
<1>3. CASE k = 2
  <2>1. WithBit(x, 2, v) = x + (v - ((x \div 4) % 2)) * 4
    BY 2^2 = 4 DEF WithBit, Bit
  <2>2. x + (v - ((x \div 4) % 2)) * 4 \in 0..255
    BY DEF B8
  <2> QED BY <2>1, <2>2, <1>3 DEF B8
<1>4. CASE k = 3
  <2>1. WithBit(x, 3, v) = x + (v - ((x \div 8) % 2)) * 8
    BY 2^3 = 8 DEF WithBit, Bit
  <2>2. x + (v - ((x \div 8) % 2)) * 8 \in 0..255
    BY DEF B8
  <2> QED BY <2>1, <2>2, <1>4 DEF B8
<1>5. CASE k = 4
  <2>1. WithBit(x, 4, v) = x + (v - ((x \div 16) % 2)) * 16
    BY 2^4 = 16 DEF WithBit, Bit
  <2>2. x + (v - ((x \div 16) % 2)) * 16 \in 0..255
    BY DEF B8
  <2> QED BY <2>1, <2>2, <1>5 DEF B8
<1>6. CASE k = 5
  <2>1. WithBit(x, 5, v) = x + (v - ((x \div 32) % 2)) * 32
    BY 2^5 = 32 DEF WithBit, Bit
  <2>2. x + (v - ((x \div 32) % 2)) * 32 \in 0..255
    BY DEF B8
  <2> QED BY <2>1, <2>2, <1>6 DEF B8
<1>7. CASE k = 6
  <2>1. WithBit(x, 6, v) = x + (v - ((x \div 64) % 2)) * 64
    BY 2^6 = 64 DEF WithBit, Bit
  <2>2. x + (v - ((x \div 64) % 2)) * 64 \in 0..255
    BY DEF B8
  <2> QED BY <2>1, <2>2, <1>7 DEF B8
<1>8. CASE k = 7
  <2>1. WithBit(x, 7, v) = x + (v - ((x \div 128) % 2)) * 128
    BY 2^7 = 128 DEF WithBit, Bit
  <2>2. x + (v - ((x \div 128) % 2)) * 128 \in 0..255
    BY DEF B8
  <2> QED BY <2>1, <2>2, <1>8 DEF B8
<1> QED BY <1>1, <1>2, <1>3, <1>4, <1>5, <1>6, <1>7, <1>8

\* Shifting out one bit.
LEMMA ShiftOut ==
  ASSUME NEW q \in Nat
  PROVE  q \div 2 \in Nat /\ q % 2 = q - 2 * (q \div 2)
  OBVIOUS

\* A word is the sum of its bits.
LEMMA WordBits ==
  ASSUME NEW x \in B16
  PROVE  x = Bit(x, 0) + 2 * Bit(x, 1) + 4 * Bit(x, 2) + 8 * Bit(x, 3) + 16 * Bit(x, 4) + 32 * Bit(x, 5) +
           64 * Bit(x, 6) + 128 * Bit(x, 7) + 256 * Bit(x, 8) + 512 * Bit(x, 9) + 1024 * Bit(x, 10) +
           2048 * Bit(x, 11) + 4096 * Bit(x, 12) + 8192 * Bit(x, 13) + 16384 * Bit(x, 14) + 32768 * Bit(x, 15)
<1> DEFINE q0 == x
           q1 == q0 \div 2
           q2 == q1 \div 2
           q3 == q2 \div 2
           q4 == q3 \div 2
           q5 == q4 \div 2
           q6 == q5 \div 2
           q7 == q6 \div 2
           q8 == q7 \div 2
           q9 == q8 \div 2
           q10 == q9 \div 2
           q11 == q10 \div 2
           q12 == q11 \div 2
           q13 == q12 \div 2
           q14 == q13 \div 2
           q15 == q14 \div 2
           q16 == q15 \div 2
<1> HIDE DEF q0, q1, q2, q3, q4, q5, q6, q7, q8, q9, q10, q11, q12, q13, q14, q15, q16
<1>1. x \in Nat
  BY DEF B16
<1>2. q0 \in Nat
  BY DEF B16, q0
<1>3. q1 \in Nat
  BY <1>2 DEF q1
<1>4. q2 \in Nat
  BY <1>3 DEF q2
<1>5. q3 \in Nat
  BY <1>4 DEF q3
<1>6. q4 \in Nat
  BY <1>5 DEF q4
<1>7. q5 \in Nat
  BY <1>6 DEF q5
<1>8. q6 \in Nat
  BY <1>7 DEF q6
<1>9. q7 \in Nat
  BY <1>8 DEF q7
<1>10. q8 \in Nat
  BY <1>9 DEF q8
<1>11. q9 \in Nat
  BY <1>10 DEF q9
<1>12. q10 \in Nat
  BY <1>11 DEF q10
<1>13. q11 \in Nat
  BY <1>12 DEF q11
<1>14. q12 \in Nat
  BY <1>13 DEF q12
<1>15. q13 \in Nat
  BY <1>14 DEF q13
<1>16. q14 \in Nat
  BY <1>15 DEF q14
<1>17. q15 \in Nat
  BY <1>16 DEF q15
<1>18. q16 \in Nat
  BY <1>17 DEF q16
<1>19. q0 = x \div 1
  BY <1>1 DEF q0
<1>20. q1 = x \div 2
  BY <1>1, <1>19 DEF q1
<1>21. q2 = x \div 4
  BY <1>1, <1>20 DEF q2
<1>22. q3 = x \div 8
  BY <1>1, <1>21 DEF q3
<1>23. q4 = x \div 16
  BY <1>1, <1>22 DEF q4
<1>24. q5 = x \div 32
  BY <1>1, <1>23 DEF q5
<1>25. q6 = x \div 64
  BY <1>1, <1>24 DEF q6
<1>26. q7 = x \div 128
  BY <1>1, <1>25 DEF q7
<1>27. q8 = x \div 256
  BY <1>1, <1>26 DEF q8
<1>28. q9 = x \div 512
  BY <1>1, <1>27 DEF q9
<1>29. q10 = x \div 1024
  BY <1>1, <1>28 DEF q10
<1>30. q11 = x \div 2048
  BY <1>1, <1>29 DEF q11
<1>31. q12 = x \div 4096
  BY <1>1, <1>30 DEF q12
<1>32. q13 = x \div 8192
  BY <1>1, <1>31 DEF q13
<1>33. q14 = x \div 16384
  BY <1>1, <1>32 DEF q14
<1>34. q15 = x \div 32768
  BY <1>1, <1>33 DEF q15
<1>35. q16 = x \div 65536
  BY <1>1, <1>34 DEF q16
<1>36. q0 % 2 = q0 - 2 * q1
  BY <1>2, ShiftOut DEF q1
<1>37. Bit(x, 0) = q0 % 2
  BY <1>19, 2^0 = 1 DEF Bit
<1>38. Bit(x, 0) = q0 - 2 * q1
  BY <1>36, <1>37
<1>39. q1 % 2 = q1 - 2 * q2
  BY <1>3, ShiftOut DEF q2
<1>40. Bit(x, 1) = q1 % 2
  BY <1>20, 2^1 = 2 DEF Bit
<1>41. Bit(x, 1) = q1 - 2 * q2
  BY <1>39, <1>40
<1>42. q2 % 2 = q2 - 2 * q3
  BY <1>4, ShiftOut DEF q3
<1>43. Bit(x, 2) = q2 % 2
  BY <1>21, 2^2 = 4 DEF Bit
<1>44. Bit(x, 2) = q2 - 2 * q3
  BY <1>42, <1>43
<1>45. q3 % 2 = q3 - 2 * q4
  BY <1>5, ShiftOut DEF q4
<1>46. Bit(x, 3) = q3 % 2
  BY <1>22, 2^3 = 8 DEF Bit
<1>47. Bit(x, 3) = q3 - 2 * q4
  BY <1>45, <1>46
<1>48. q4 % 2 = q4 - 2 * q5
  BY <1>6, ShiftOut DEF q5
<1>49. Bit(x, 4) = q4 % 2
  BY <1>23, 2^4 = 16 DEF Bit
<1>50. Bit(x, 4) = q4 - 2 * q5
  BY <1>48, <1>49
<1>51. q5 % 2 = q5 - 2 * q6
  BY <1>7, ShiftOut DEF q6
<1>52. Bit(x, 5) = q5 % 2
  BY <1>24, 2^5 = 32 DEF Bit
<1>53. Bit(x, 5) = q5 - 2 * q6
  BY <1>51, <1>52
<1>54. q6 % 2 = q6 - 2 * q7
  BY <1>8, ShiftOut DEF q7
<1>55. Bit(x, 6) = q6 % 2
  BY <1>25, 2^6 = 64 DEF Bit
<1>56. Bit(x, 6) = q6 - 2 * q7
  BY <1>54, <1>55
<1>57. q7 % 2 = q7 - 2 * q8
  BY <1>9, ShiftOut DEF q8
<1>58. Bit(x, 7) = q7 % 2
  BY <1>26, 2^7 = 128 DEF Bit
<1>59. Bit(x, 7) = q7 - 2 * q8
  BY <1>57, <1>58
<1>60. q8 % 2 = q8 - 2 * q9
  BY <1>10, ShiftOut DEF q9
<1>61. Bit(x, 8) = q8 % 2
  BY <1>27, 2^8 = 256 DEF Bit
<1>62. Bit(x, 8) = q8 - 2 * q9
  BY <1>60, <1>61
<1>63. q9 % 2 = q9 - 2 * q10
  BY <1>11, ShiftOut DEF q10
<1>64. Bit(x, 9) = q9 % 2
  BY <1>28, 2^9 = 512 DEF Bit
<1>65. Bit(x, 9) = q9 - 2 * q10
  BY <1>63, <1>64
<1>66. q10 % 2 = q10 - 2 * q11
  BY <1>12, ShiftOut DEF q11
<1>67. Bit(x, 10) = q10 % 2
  BY <1>29, 2^10 = 1024 DEF Bit
<1>68. Bit(x, 10) = q10 - 2 * q11
  BY <1>66, <1>67
<1>69. q11 % 2 = q11 - 2 * q12
  BY <1>13, ShiftOut DEF q12
<1>70. Bit(x, 11) = q11 % 2
  BY <1>30, 2^11 = 2048 DEF Bit
<1>71. Bit(x, 11) = q11 - 2 * q12
  BY <1>69, <1>70
<1>72. q12 % 2 = q12 - 2 * q13
  BY <1>14, ShiftOut DEF q13
<1>73. Bit(x, 12) = q12 % 2
  BY <1>31, 2^12 = 4096 DEF Bit
<1>74. Bit(x, 12) = q12 - 2 * q13
  BY <1>72, <1>73
<1>75. q13 % 2 = q13 - 2 * q14
  BY <1>15, ShiftOut DEF q14
<1>76. Bit(x, 13) = q13 % 2
  BY <1>32, 2^13 = 8192 DEF Bit
<1>77. Bit(x, 13) = q13 - 2 * q14
  BY <1>75, <1>76
<1>78. q14 % 2 = q14 - 2 * q15
  BY <1>16, ShiftOut DEF q15
<1>79. Bit(x, 14) = q14 % 2
  BY <1>33, 2^14 = 16384 DEF Bit
<1>80. Bit(x, 14) = q14 - 2 * q15
  BY <1>78, <1>79
<1>81. q15 % 2 = q15 - 2 * q16
  BY <1>17, ShiftOut DEF q16
<1>82. Bit(x, 15) = q15 % 2
  BY <1>34, 2^15 = 32768 DEF Bit
<1>83. Bit(x, 15) = q15 - 2 * q16
  BY <1>81, <1>82
<1>84. q16 = 0
  BY <1>35 DEF B16
<1>85. q0 = Bit(x, 0) + 2 * Bit(x, 1) + 4 * Bit(x, 2) + 8 * Bit(x, 3) + 16 * q4 /\ Bit(x, 0) \in Int /\
         Bit(x, 1) \in Int /\ Bit(x, 2) \in Int /\ Bit(x, 3) \in Int
  BY <1>2, <1>3, <1>4, <1>5, <1>6, <1>38, <1>41, <1>44, <1>47
<1>86. q4 = Bit(x, 4) + 2 * Bit(x, 5) + 4 * Bit(x, 6) + 8 * Bit(x, 7) + 16 * q8 /\ Bit(x, 4) \in Int /\
         Bit(x, 5) \in Int /\ Bit(x, 6) \in Int /\ Bit(x, 7) \in Int
  BY <1>6, <1>7, <1>8, <1>9, <1>10, <1>50, <1>53, <1>56, <1>59
<1>87. q8 = Bit(x, 8) + 2 * Bit(x, 9) + 4 * Bit(x, 10) + 8 * Bit(x, 11) + 16 * q12 /\ Bit(x, 8) \in Int /\
         Bit(x, 9) \in Int /\ Bit(x, 10) \in Int /\ Bit(x, 11) \in Int
  BY <1>10, <1>11, <1>12, <1>13, <1>14, <1>62, <1>65, <1>68, <1>71
<1>88. q12 = Bit(x, 12) + 2 * Bit(x, 13) + 4 * Bit(x, 14) + 8 * Bit(x, 15) + 16 * q16 /\ Bit(x, 12) \in Int /\
         Bit(x, 13) \in Int /\ Bit(x, 14) \in Int /\ Bit(x, 15) \in Int
  BY <1>14, <1>15, <1>16, <1>17, <1>18, <1>74, <1>77, <1>80, <1>83
<1>89. q0 = x
  BY DEF q0
<1> QED BY <1>85, <1>86, <1>87, <1>88, <1>84, <1>89, <1>6, <1>10, <1>14

\* And works bit by bit.
LEMMA AndBits ==
  ASSUME NEW x, NEW y
  PROVE  And(x, y) = BothSet(Bit(x, 0), Bit(y, 0)) + 2 * BothSet(Bit(x, 1), Bit(y, 1)) +
           4 * BothSet(Bit(x, 2), Bit(y, 2)) + 8 * BothSet(Bit(x, 3), Bit(y, 3)) +
           16 * BothSet(Bit(x, 4), Bit(y, 4)) + 32 * BothSet(Bit(x, 5), Bit(y, 5)) +
           64 * BothSet(Bit(x, 6), Bit(y, 6)) + 128 * BothSet(Bit(x, 7), Bit(y, 7)) +
           256 * BothSet(Bit(x, 8), Bit(y, 8)) + 512 * BothSet(Bit(x, 9), Bit(y, 9)) +
           1024 * BothSet(Bit(x, 10), Bit(y, 10)) + 2048 * BothSet(Bit(x, 11), Bit(y, 11)) +
           4096 * BothSet(Bit(x, 12), Bit(y, 12)) + 8192 * BothSet(Bit(x, 13), Bit(y, 13)) +
           16384 * BothSet(Bit(x, 14), Bit(y, 14)) + 32768 * BothSet(Bit(x, 15), Bit(y, 15))
<1> DEFINE b0 == BothSet(Bit(x, 0), Bit(y, 0))
           b1 == BothSet(Bit(x, 1), Bit(y, 1))
           b2 == BothSet(Bit(x, 2), Bit(y, 2))
           b3 == BothSet(Bit(x, 3), Bit(y, 3))
           b4 == BothSet(Bit(x, 4), Bit(y, 4))
           b5 == BothSet(Bit(x, 5), Bit(y, 5))
           b6 == BothSet(Bit(x, 6), Bit(y, 6))
           b7 == BothSet(Bit(x, 7), Bit(y, 7))
           b8 == BothSet(Bit(x, 8), Bit(y, 8))
           b9 == BothSet(Bit(x, 9), Bit(y, 9))
           b10 == BothSet(Bit(x, 10), Bit(y, 10))
           b11 == BothSet(Bit(x, 11), Bit(y, 11))
           b12 == BothSet(Bit(x, 12), Bit(y, 12))
           b13 == BothSet(Bit(x, 13), Bit(y, 13))
           b14 == BothSet(Bit(x, 14), Bit(y, 14))
           b15 == BothSet(Bit(x, 15), Bit(y, 15))
<1>1. b0 \in Int /\ b1 \in Int /\ b2 \in Int /\ b3 \in Int /\ b4 \in Int /\ b5 \in Int /\ b6 \in Int /\
        b7 \in Int /\ b8 \in Int /\ b9 \in Int /\ b10 \in Int /\ b11 \in Int /\ b12 \in Int /\ b13 \in Int /\
        b14 \in Int /\ b15 \in Int
  BY DEF BothSet, Num
<1>2. And(x, y) = 2^0 * b0 + 2^1 * b1 + 2^2 * b2 + 2^3 * b3 + 2^4 * b4 + 2^5 * b5 + 2^6 * b6 + 2^7 * b7 +
        2^8 * b8 + 2^9 * b9 + 2^10 * b10 + 2^11 * b11 + 2^12 * b12 + 2^13 * b13 + 2^14 * b14 + 2^15 * b15
  BY DEF And, BitByBit
<1>3. 2^0 = 1 /\ 2^1 = 2 /\ 2^2 = 4 /\ 2^3 = 8 /\ 2^4 = 16 /\ 2^5 = 32 /\ 2^6 = 64 /\ 2^7 = 128 /\ 2^8 = 256 /\
        2^9 = 512 /\ 2^10 = 1024 /\ 2^11 = 2048 /\ 2^12 = 4096 /\ 2^13 = 8192 /\ 2^14 = 16384 /\ 2^15 = 32768
  OBVIOUS
<1> HIDE DEF b0, b1, b2, b3, b4, b5, b6, b7, b8, b9, b10, b11, b12, b13, b14, b15
<1>4. And(x, y) = 1 * b0 + 2 * b1 + 4 * b2 + 8 * b3 + 16 * b4 + 32 * b5 + 64 * b6 + 128 * b7 + 256 * b8 +
        512 * b9 + 1024 * b10 + 2048 * b11 + 4096 * b12 + 8192 * b13 + 16384 * b14 + 32768 * b15
  BY <1>2, <1>3
<1>5. And(x, y) = b0 + 2 * b1 + 4 * b2 + 8 * b3 + 16 * b4 + 32 * b5 + 64 * b6 + 128 * b7 + 256 * b8 + 512 * b9 +
        1024 * b10 + 2048 * b11 + 4096 * b12 + 8192 * b13 + 16384 * b14 + 32768 * b15
  BY <1>1, <1>4
<1> QED BY <1>5 DEF b0, b1, b2, b3, b4, b5, b6, b7, b8, b9, b10, b11, b12, b13, b14, b15

\* Or works bit by bit.
LEMMA OrBits ==
  ASSUME NEW x, NEW y
  PROVE  Or(x, y) = AnySet(Bit(x, 0), Bit(y, 0)) + 2 * AnySet(Bit(x, 1), Bit(y, 1)) +
           4 * AnySet(Bit(x, 2), Bit(y, 2)) + 8 * AnySet(Bit(x, 3), Bit(y, 3)) +
           16 * AnySet(Bit(x, 4), Bit(y, 4)) + 32 * AnySet(Bit(x, 5), Bit(y, 5)) +
           64 * AnySet(Bit(x, 6), Bit(y, 6)) + 128 * AnySet(Bit(x, 7), Bit(y, 7)) +
           256 * AnySet(Bit(x, 8), Bit(y, 8)) + 512 * AnySet(Bit(x, 9), Bit(y, 9)) +
           1024 * AnySet(Bit(x, 10), Bit(y, 10)) + 2048 * AnySet(Bit(x, 11), Bit(y, 11)) +
           4096 * AnySet(Bit(x, 12), Bit(y, 12)) + 8192 * AnySet(Bit(x, 13), Bit(y, 13)) +
           16384 * AnySet(Bit(x, 14), Bit(y, 14)) + 32768 * AnySet(Bit(x, 15), Bit(y, 15))
<1> DEFINE b0 == AnySet(Bit(x, 0), Bit(y, 0))
           b1 == AnySet(Bit(x, 1), Bit(y, 1))
           b2 == AnySet(Bit(x, 2), Bit(y, 2))
           b3 == AnySet(Bit(x, 3), Bit(y, 3))
           b4 == AnySet(Bit(x, 4), Bit(y, 4))
           b5 == AnySet(Bit(x, 5), Bit(y, 5))
           b6 == AnySet(Bit(x, 6), Bit(y, 6))
           b7 == AnySet(Bit(x, 7), Bit(y, 7))
           b8 == AnySet(Bit(x, 8), Bit(y, 8))
           b9 == AnySet(Bit(x, 9), Bit(y, 9))
           b10 == AnySet(Bit(x, 10), Bit(y, 10))
           b11 == AnySet(Bit(x, 11), Bit(y, 11))
           b12 == AnySet(Bit(x, 12), Bit(y, 12))
           b13 == AnySet(Bit(x, 13), Bit(y, 13))
           b14 == AnySet(Bit(x, 14), Bit(y, 14))
           b15 == AnySet(Bit(x, 15), Bit(y, 15))
<1>1. b0 \in Int /\ b1 \in Int /\ b2 \in Int /\ b3 \in Int /\ b4 \in Int /\ b5 \in Int /\ b6 \in Int /\
        b7 \in Int /\ b8 \in Int /\ b9 \in Int /\ b10 \in Int /\ b11 \in Int /\ b12 \in Int /\ b13 \in Int /\
        b14 \in Int /\ b15 \in Int
  BY DEF AnySet, Num
<1>2. Or(x, y) = 2^0 * b0 + 2^1 * b1 + 2^2 * b2 + 2^3 * b3 + 2^4 * b4 + 2^5 * b5 + 2^6 * b6 + 2^7 * b7 +
        2^8 * b8 + 2^9 * b9 + 2^10 * b10 + 2^11 * b11 + 2^12 * b12 + 2^13 * b13 + 2^14 * b14 + 2^15 * b15
  BY DEF Or, BitByBit
<1>3. 2^0 = 1 /\ 2^1 = 2 /\ 2^2 = 4 /\ 2^3 = 8 /\ 2^4 = 16 /\ 2^5 = 32 /\ 2^6 = 64 /\ 2^7 = 128 /\ 2^8 = 256 /\
        2^9 = 512 /\ 2^10 = 1024 /\ 2^11 = 2048 /\ 2^12 = 4096 /\ 2^13 = 8192 /\ 2^14 = 16384 /\ 2^15 = 32768
  OBVIOUS
<1> HIDE DEF b0, b1, b2, b3, b4, b5, b6, b7, b8, b9, b10, b11, b12, b13, b14, b15
<1>4. Or(x, y) = 1 * b0 + 2 * b1 + 4 * b2 + 8 * b3 + 16 * b4 + 32 * b5 + 64 * b6 + 128 * b7 + 256 * b8 +
        512 * b9 + 1024 * b10 + 2048 * b11 + 4096 * b12 + 8192 * b13 + 16384 * b14 + 32768 * b15
  BY <1>2, <1>3
<1>5. Or(x, y) = b0 + 2 * b1 + 4 * b2 + 8 * b3 + 16 * b4 + 32 * b5 + 64 * b6 + 128 * b7 + 256 * b8 + 512 * b9 +
        1024 * b10 + 2048 * b11 + 4096 * b12 + 8192 * b13 + 16384 * b14 + 32768 * b15
  BY <1>1, <1>4
<1> QED BY <1>5 DEF b0, b1, b2, b3, b4, b5, b6, b7, b8, b9, b10, b11, b12, b13, b14, b15

\* Xor works bit by bit.
LEMMA XorBits ==
  ASSUME NEW x, NEW y
  PROVE  Xor(x, y) = OneSet(Bit(x, 0), Bit(y, 0)) + 2 * OneSet(Bit(x, 1), Bit(y, 1)) +
           4 * OneSet(Bit(x, 2), Bit(y, 2)) + 8 * OneSet(Bit(x, 3), Bit(y, 3)) +
           16 * OneSet(Bit(x, 4), Bit(y, 4)) + 32 * OneSet(Bit(x, 5), Bit(y, 5)) +
           64 * OneSet(Bit(x, 6), Bit(y, 6)) + 128 * OneSet(Bit(x, 7), Bit(y, 7)) +
           256 * OneSet(Bit(x, 8), Bit(y, 8)) + 512 * OneSet(Bit(x, 9), Bit(y, 9)) +
           1024 * OneSet(Bit(x, 10), Bit(y, 10)) + 2048 * OneSet(Bit(x, 11), Bit(y, 11)) +
           4096 * OneSet(Bit(x, 12), Bit(y, 12)) + 8192 * OneSet(Bit(x, 13), Bit(y, 13)) +
           16384 * OneSet(Bit(x, 14), Bit(y, 14)) + 32768 * OneSet(Bit(x, 15), Bit(y, 15))
<1> DEFINE b0 == OneSet(Bit(x, 0), Bit(y, 0))
           b1 == OneSet(Bit(x, 1), Bit(y, 1))
           b2 == OneSet(Bit(x, 2), Bit(y, 2))
           b3 == OneSet(Bit(x, 3), Bit(y, 3))
           b4 == OneSet(Bit(x, 4), Bit(y, 4))
           b5 == OneSet(Bit(x, 5), Bit(y, 5))
           b6 == OneSet(Bit(x, 6), Bit(y, 6))
           b7 == OneSet(Bit(x, 7), Bit(y, 7))
           b8 == OneSet(Bit(x, 8), Bit(y, 8))
           b9 == OneSet(Bit(x, 9), Bit(y, 9))
           b10 == OneSet(Bit(x, 10), Bit(y, 10))
           b11 == OneSet(Bit(x, 11), Bit(y, 11))
           b12 == OneSet(Bit(x, 12), Bit(y, 12))
           b13 == OneSet(Bit(x, 13), Bit(y, 13))
           b14 == OneSet(Bit(x, 14), Bit(y, 14))
           b15 == OneSet(Bit(x, 15), Bit(y, 15))
<1>1. b0 \in Int /\ b1 \in Int /\ b2 \in Int /\ b3 \in Int /\ b4 \in Int /\ b5 \in Int /\ b6 \in Int /\
        b7 \in Int /\ b8 \in Int /\ b9 \in Int /\ b10 \in Int /\ b11 \in Int /\ b12 \in Int /\ b13 \in Int /\
        b14 \in Int /\ b15 \in Int
  BY DEF OneSet, Num
<1>2. Xor(x, y) = 2^0 * b0 + 2^1 * b1 + 2^2 * b2 + 2^3 * b3 + 2^4 * b4 + 2^5 * b5 + 2^6 * b6 + 2^7 * b7 +
        2^8 * b8 + 2^9 * b9 + 2^10 * b10 + 2^11 * b11 + 2^12 * b12 + 2^13 * b13 + 2^14 * b14 + 2^15 * b15
  BY DEF Xor, BitByBit
<1>3. 2^0 = 1 /\ 2^1 = 2 /\ 2^2 = 4 /\ 2^3 = 8 /\ 2^4 = 16 /\ 2^5 = 32 /\ 2^6 = 64 /\ 2^7 = 128 /\ 2^8 = 256 /\
        2^9 = 512 /\ 2^10 = 1024 /\ 2^11 = 2048 /\ 2^12 = 4096 /\ 2^13 = 8192 /\ 2^14 = 16384 /\ 2^15 = 32768
  OBVIOUS
<1> HIDE DEF b0, b1, b2, b3, b4, b5, b6, b7, b8, b9, b10, b11, b12, b13, b14, b15
<1>4. Xor(x, y) = 1 * b0 + 2 * b1 + 4 * b2 + 8 * b3 + 16 * b4 + 32 * b5 + 64 * b6 + 128 * b7 + 256 * b8 +
        512 * b9 + 1024 * b10 + 2048 * b11 + 4096 * b12 + 8192 * b13 + 16384 * b14 + 32768 * b15
  BY <1>2, <1>3
<1>5. Xor(x, y) = b0 + 2 * b1 + 4 * b2 + 8 * b3 + 16 * b4 + 32 * b5 + 64 * b6 + 128 * b7 + 256 * b8 + 512 * b9 +
        1024 * b10 + 2048 * b11 + 4096 * b12 + 8192 * b13 + 16384 * b14 + 32768 * b15
  BY <1>1, <1>4
<1> QED BY <1>5 DEF b0, b1, b2, b3, b4, b5, b6, b7, b8, b9, b10, b11, b12, b13, b14, b15

\* A byte has no high bits.
LEMMA HighBits ==
  ASSUME NEW x \in B8
  PROVE  /\ Bit(x, 8) = 0
         /\ Bit(x, 9) = 0
         /\ Bit(x, 10) = 0
         /\ Bit(x, 11) = 0
         /\ Bit(x, 12) = 0
         /\ Bit(x, 13) = 0
         /\ Bit(x, 14) = 0
         /\ Bit(x, 15) = 0
<1>1. Bit(x, 8) = 0
  BY x \div 256 = 0, 2^8 = 256 DEF Bit, B8
<1>2. Bit(x, 9) = 0
  BY x \div 512 = 0, 2^9 = 512 DEF Bit, B8
<1>3. Bit(x, 10) = 0
  BY x \div 1024 = 0, 2^10 = 1024 DEF Bit, B8
<1>4. Bit(x, 11) = 0
  BY x \div 2048 = 0, 2^11 = 2048 DEF Bit, B8
<1>5. Bit(x, 12) = 0
  BY x \div 4096 = 0, 2^12 = 4096 DEF Bit, B8
<1>6. Bit(x, 13) = 0
  BY x \div 8192 = 0, 2^13 = 8192 DEF Bit, B8
<1>7. Bit(x, 14) = 0
  BY x \div 16384 = 0, 2^14 = 16384 DEF Bit, B8
<1>8. Bit(x, 15) = 0
  BY x \div 32768 = 0, 2^15 = 32768 DEF Bit, B8
<1> QED BY <1>1, <1>2, <1>3, <1>4, <1>5, <1>6, <1>7, <1>8

\* And of two bytes is a byte.
LEMMA AndByte ==
  ASSUME NEW x \in B8, NEW y \in B8
  PROVE  And(x, y) \in B8
<1> DEFINE b0 == BothSet(Bit(x, 0), Bit(y, 0))
           b1 == BothSet(Bit(x, 1), Bit(y, 1))
           b2 == BothSet(Bit(x, 2), Bit(y, 2))
           b3 == BothSet(Bit(x, 3), Bit(y, 3))
           b4 == BothSet(Bit(x, 4), Bit(y, 4))
           b5 == BothSet(Bit(x, 5), Bit(y, 5))
           b6 == BothSet(Bit(x, 6), Bit(y, 6))
           b7 == BothSet(Bit(x, 7), Bit(y, 7))
           b8 == BothSet(Bit(x, 8), Bit(y, 8))
           b9 == BothSet(Bit(x, 9), Bit(y, 9))
           b10 == BothSet(Bit(x, 10), Bit(y, 10))
           b11 == BothSet(Bit(x, 11), Bit(y, 11))
           b12 == BothSet(Bit(x, 12), Bit(y, 12))
           b13 == BothSet(Bit(x, 13), Bit(y, 13))
           b14 == BothSet(Bit(x, 14), Bit(y, 14))
           b15 == BothSet(Bit(x, 15), Bit(y, 15))
<1>1. b0 \in {0, 1} /\ b1 \in {0, 1} /\ b2 \in {0, 1} /\ b3 \in {0, 1} /\ b4 \in {0, 1} /\ b5 \in {0, 1} /\
        b6 \in {0, 1} /\ b7 \in {0, 1}
  BY DEF BothSet, Num
<1>2. b8 = 0 /\ b9 = 0 /\ b10 = 0 /\ b11 = 0 /\ b12 = 0 /\ b13 = 0 /\ b14 = 0 /\ b15 = 0
  BY HighBits DEF BothSet, Num
<1>3. And(x, y) = b0 + 2 * b1 + 4 * b2 + 8 * b3 + 16 * b4 + 32 * b5 + 64 * b6 + 128 * b7 + 256 * b8 + 512 * b9 +
        1024 * b10 + 2048 * b11 + 4096 * b12 + 8192 * b13 + 16384 * b14 + 32768 * b15
  BY AndBits
<1> HIDE DEF b0, b1, b2, b3, b4, b5, b6, b7, b8, b9, b10, b11, b12, b13, b14, b15
<1>4. And(x, y) = b0 + 2 * b1 + 4 * b2 + 8 * b3 + 16 * b4 + 32 * b5 + 64 * b6 + 128 * b7
  BY <1>1, <1>2, <1>3
<1> QED BY <1>1, <1>4 DEF B8

\* Or of two bytes is a byte.
LEMMA OrByte ==
  ASSUME NEW x \in B8, NEW y \in B8
  PROVE  Or(x, y) \in B8
<1> DEFINE b0 == AnySet(Bit(x, 0), Bit(y, 0))
           b1 == AnySet(Bit(x, 1), Bit(y, 1))
           b2 == AnySet(Bit(x, 2), Bit(y, 2))
           b3 == AnySet(Bit(x, 3), Bit(y, 3))
           b4 == AnySet(Bit(x, 4), Bit(y, 4))
           b5 == AnySet(Bit(x, 5), Bit(y, 5))
           b6 == AnySet(Bit(x, 6), Bit(y, 6))
           b7 == AnySet(Bit(x, 7), Bit(y, 7))
           b8 == AnySet(Bit(x, 8), Bit(y, 8))
           b9 == AnySet(Bit(x, 9), Bit(y, 9))
           b10 == AnySet(Bit(x, 10), Bit(y, 10))
           b11 == AnySet(Bit(x, 11), Bit(y, 11))
           b12 == AnySet(Bit(x, 12), Bit(y, 12))
           b13 == AnySet(Bit(x, 13), Bit(y, 13))
           b14 == AnySet(Bit(x, 14), Bit(y, 14))
           b15 == AnySet(Bit(x, 15), Bit(y, 15))
<1>1. b0 \in {0, 1} /\ b1 \in {0, 1} /\ b2 \in {0, 1} /\ b3 \in {0, 1} /\ b4 \in {0, 1} /\ b5 \in {0, 1} /\
        b6 \in {0, 1} /\ b7 \in {0, 1}
  BY DEF AnySet, Num
<1>2. b8 = 0 /\ b9 = 0 /\ b10 = 0 /\ b11 = 0 /\ b12 = 0 /\ b13 = 0 /\ b14 = 0 /\ b15 = 0
  BY HighBits DEF AnySet, Num
<1>3. Or(x, y) = b0 + 2 * b1 + 4 * b2 + 8 * b3 + 16 * b4 + 32 * b5 + 64 * b6 + 128 * b7 + 256 * b8 + 512 * b9 +
        1024 * b10 + 2048 * b11 + 4096 * b12 + 8192 * b13 + 16384 * b14 + 32768 * b15
  BY OrBits
<1> HIDE DEF b0, b1, b2, b3, b4, b5, b6, b7, b8, b9, b10, b11, b12, b13, b14, b15
<1>4. Or(x, y) = b0 + 2 * b1 + 4 * b2 + 8 * b3 + 16 * b4 + 32 * b5 + 64 * b6 + 128 * b7
  BY <1>1, <1>2, <1>3
<1> QED BY <1>1, <1>4 DEF B8

\* Xor of two bytes is a byte.
LEMMA XorByte ==
  ASSUME NEW x \in B8, NEW y \in B8
  PROVE  Xor(x, y) \in B8
<1> DEFINE b0 == OneSet(Bit(x, 0), Bit(y, 0))
           b1 == OneSet(Bit(x, 1), Bit(y, 1))
           b2 == OneSet(Bit(x, 2), Bit(y, 2))
           b3 == OneSet(Bit(x, 3), Bit(y, 3))
           b4 == OneSet(Bit(x, 4), Bit(y, 4))
           b5 == OneSet(Bit(x, 5), Bit(y, 5))
           b6 == OneSet(Bit(x, 6), Bit(y, 6))
           b7 == OneSet(Bit(x, 7), Bit(y, 7))
           b8 == OneSet(Bit(x, 8), Bit(y, 8))
           b9 == OneSet(Bit(x, 9), Bit(y, 9))
           b10 == OneSet(Bit(x, 10), Bit(y, 10))
           b11 == OneSet(Bit(x, 11), Bit(y, 11))
           b12 == OneSet(Bit(x, 12), Bit(y, 12))
           b13 == OneSet(Bit(x, 13), Bit(y, 13))
           b14 == OneSet(Bit(x, 14), Bit(y, 14))
           b15 == OneSet(Bit(x, 15), Bit(y, 15))
<1>1. b0 \in {0, 1} /\ b1 \in {0, 1} /\ b2 \in {0, 1} /\ b3 \in {0, 1} /\ b4 \in {0, 1} /\ b5 \in {0, 1} /\
        b6 \in {0, 1} /\ b7 \in {0, 1}
  BY DEF OneSet, Num
<1>2. b8 = 0 /\ b9 = 0 /\ b10 = 0 /\ b11 = 0 /\ b12 = 0 /\ b13 = 0 /\ b14 = 0 /\ b15 = 0
  BY HighBits DEF OneSet, Num
<1>3. Xor(x, y) = b0 + 2 * b1 + 4 * b2 + 8 * b3 + 16 * b4 + 32 * b5 + 64 * b6 + 128 * b7 + 256 * b8 + 512 * b9 +
        1024 * b10 + 2048 * b11 + 4096 * b12 + 8192 * b13 + 16384 * b14 + 32768 * b15
  BY XorBits
<1> HIDE DEF b0, b1, b2, b3, b4, b5, b6, b7, b8, b9, b10, b11, b12, b13, b14, b15
<1>4. Xor(x, y) = b0 + 2 * b1 + 4 * b2 + 8 * b3 + 16 * b4 + 32 * b5 + 64 * b6 + 128 * b7
  BY <1>1, <1>2, <1>3
<1> QED BY <1>1, <1>4 DEF B8

\* The bits of an exclusive or.
LEMMA XorBit ==
  ASSUME NEW x, NEW y
  PROVE  /\ Xor(x, y) \in B16
         /\ Bit(Xor(x, y), 4) = OneSet(Bit(x, 4), Bit(y, 4))
         /\ Bit(Xor(x, y), 8) = OneSet(Bit(x, 8), Bit(y, 8))
<1> DEFINE b0 == OneSet(Bit(x, 0), Bit(y, 0))
           b1 == OneSet(Bit(x, 1), Bit(y, 1))
           b2 == OneSet(Bit(x, 2), Bit(y, 2))
           b3 == OneSet(Bit(x, 3), Bit(y, 3))
           b4 == OneSet(Bit(x, 4), Bit(y, 4))
           b5 == OneSet(Bit(x, 5), Bit(y, 5))
           b6 == OneSet(Bit(x, 6), Bit(y, 6))
           b7 == OneSet(Bit(x, 7), Bit(y, 7))
           b8 == OneSet(Bit(x, 8), Bit(y, 8))
           b9 == OneSet(Bit(x, 9), Bit(y, 9))
           b10 == OneSet(Bit(x, 10), Bit(y, 10))
           b11 == OneSet(Bit(x, 11), Bit(y, 11))
           b12 == OneSet(Bit(x, 12), Bit(y, 12))
           b13 == OneSet(Bit(x, 13), Bit(y, 13))
           b14 == OneSet(Bit(x, 14), Bit(y, 14))
           b15 == OneSet(Bit(x, 15), Bit(y, 15))
           w == Xor(x, y)
<1>1. b0 \in {0, 1}
  BY DEF OneSet, Num
<1>2. b1 \in {0, 1}
  BY DEF OneSet, Num
<1>3. b2 \in {0, 1}
  BY DEF OneSet, Num
<1>4. b3 \in {0, 1}
  BY DEF OneSet, Num
<1>5. b4 \in {0, 1}
  BY DEF OneSet, Num
<1>6. b5 \in {0, 1}
  BY DEF OneSet, Num
<1>7. b6 \in {0, 1}
  BY DEF OneSet, Num
<1>8. b7 \in {0, 1}
  BY DEF OneSet, Num
<1>9. b8 \in {0, 1}
  BY DEF OneSet, Num
<1>10. b9 \in {0, 1}
  BY DEF OneSet, Num
<1>11. b10 \in {0, 1}
  BY DEF OneSet, Num
<1>12. b11 \in {0, 1}
  BY DEF OneSet, Num
<1>13. b12 \in {0, 1}
  BY DEF OneSet, Num
<1>14. b13 \in {0, 1}
  BY DEF OneSet, Num
<1>15. b14 \in {0, 1}
  BY DEF OneSet, Num
<1>16. b15 \in {0, 1}
  BY DEF OneSet, Num
<1>17. w = b0 + 2 * b1 + 4 * b2 + 8 * b3 + 16 * b4 + 32 * b5 + 64 * b6 + 128 * b7 + 256 * b8 + 512 * b9 +
         1024 * b10 + 2048 * b11 + 4096 * b12 + 8192 * b13 + 16384 * b14 + 32768 * b15
  BY XorBits
<1> HIDE DEF b0, b1, b2, b3, b4, b5, b6, b7, b8, b9, b10, b11, b12, b13, b14, b15, w
<1> DEFINE lo == b0 + 2 * b1 + 4 * b2 + 8 * b3  mid == b5 + 2 * b6 + 4 * b7  hi == b9 + 2 * b10 + 4 * b11 +
  8 * b12 + 16 * b13 + 32 * b14 + 64 * b15
<1>18. lo \in 0..15
  BY <1>1, <1>2, <1>3, <1>4
<1>19. mid \in 0..7
  BY <1>6, <1>7, <1>8
<1>20. hi \in 0..127
  BY <1>10, <1>11, <1>12, <1>13, <1>14, <1>15, <1>16
<1>21. w = lo + 16 * b4 + 32 * mid + 256 * b8 + 512 * hi
  BY <1>1, <1>2, <1>3, <1>4, <1>5, <1>6, <1>7, <1>8, <1>9, <1>10, <1>11, <1>12, <1>13, <1>14, <1>15, <1>16, <1>17
<1> HIDE DEF lo, mid, hi
<1> DEFINE u == mid + 8 * b8 + 16 * hi
           lo8 == lo + 16 * b4 + 32 * mid
<1>22. u \in Nat /\ w = lo + 16 * (b4 + 2 * u)
  BY <1>18, <1>19, <1>20, <1>21, <1>5, <1>9
<1>23. lo8 \in 0..255 /\ w = lo8 + 256 * (b8 + 2 * hi)
  BY <1>18, <1>19, <1>20, <1>21, <1>5, <1>9
<1> HIDE DEF u, lo8
<1>24. w \in B16
  <2> DEFINE e == b8 + 2 * hi
  <2>1. e \in 0..255
    BY <1>9, <1>20
  <2>2. w = lo8 + 256 * e /\ lo8 \in 0..255
    BY <1>23
  <2> HIDE DEF e
  <2>3. w \in Nat /\ w < 65536
    BY <2>1, <2>2
  <2> HIDE DEF w
  <2> QED BY <2>3, InWord
<1>25. Bit(w, 4) = b4
  <2>1. w \div 16 = b4 + 2 * u
    BY <1>18, <1>5, <1>22
  <2>2. (b4 + 2 * u) % 2 = b4
    BY <1>5, <1>22
  <2> QED BY <2>1, <2>2, 2^4 = 16 DEF Bit
<1>26. Bit(w, 8) = b8
  <2>1. w \div 256 = b8 + 2 * hi
    BY <1>20, <1>9, <1>23
  <2>2. (b8 + 2 * hi) % 2 = b8
    BY <1>20, <1>9
  <2> QED BY <2>1, <2>2, 2^8 = 256 DEF Bit
<1> QED BY <1>24, <1>25, <1>26 DEF w, b4, b8

\* The mask of POP AF clears the low four bits.
LEMMA AndFlagsMask ==
  ASSUME NEW x \in B16
  PROVE  And(x, 65520) = x - (x % 16)
<1>1. x \in Nat
  BY DEF B16
<1>2. Bit(65520, 0) = 0
  BY 2^0 = 1 DEF Bit
<1>3. Bit(65520, 1) = 0
  BY 2^1 = 2 DEF Bit
<1>4. Bit(65520, 2) = 0
  BY 2^2 = 4 DEF Bit
<1>5. Bit(65520, 3) = 0
  BY 2^3 = 8 DEF Bit
<1>6. Bit(65520, 4) = 1
  BY 2^4 = 16 DEF Bit
<1>7. Bit(65520, 5) = 1
  BY 2^5 = 32 DEF Bit
<1>8. Bit(65520, 6) = 1
  BY 2^6 = 64 DEF Bit
<1>9. Bit(65520, 7) = 1
  BY 2^7 = 128 DEF Bit
<1>10. Bit(65520, 8) = 1
  BY 2^8 = 256 DEF Bit
<1>11. Bit(65520, 9) = 1
  BY 2^9 = 512 DEF Bit
<1>12. Bit(65520, 10) = 1
  BY 2^10 = 1024 DEF Bit
<1>13. Bit(65520, 11) = 1
  BY 2^11 = 2048 DEF Bit
<1>14. Bit(65520, 12) = 1
  BY 2^12 = 4096 DEF Bit
<1>15. Bit(65520, 13) = 1
  BY 2^13 = 8192 DEF Bit
<1>16. Bit(65520, 14) = 1
  BY 2^14 = 16384 DEF Bit
<1>17. Bit(65520, 15) = 1
  BY 2^15 = 32768 DEF Bit
<1> DEFINE b0 == Bit(x, 0)
           b1 == Bit(x, 1)
           b2 == Bit(x, 2)
           b3 == Bit(x, 3)
           b4 == Bit(x, 4)
           b5 == Bit(x, 5)
           b6 == Bit(x, 6)
           b7 == Bit(x, 7)
           b8 == Bit(x, 8)
           b9 == Bit(x, 9)
           b10 == Bit(x, 10)
           b11 == Bit(x, 11)
           b12 == Bit(x, 12)
           b13 == Bit(x, 13)
           b14 == Bit(x, 14)
           b15 == Bit(x, 15)
<1>18. b0 \in {0, 1}
  BY <1>1, BitType
<1>19. b1 \in {0, 1}
  BY <1>1, BitType
<1>20. b2 \in {0, 1}
  BY <1>1, BitType
<1>21. b3 \in {0, 1}
  BY <1>1, BitType
<1>22. b4 \in {0, 1}
  BY <1>1, BitType
<1>23. b5 \in {0, 1}
  BY <1>1, BitType
<1>24. b6 \in {0, 1}
  BY <1>1, BitType
<1>25. b7 \in {0, 1}
  BY <1>1, BitType
<1>26. b8 \in {0, 1}
  BY <1>1, BitType
<1>27. b9 \in {0, 1}
  BY <1>1, BitType
<1>28. b10 \in {0, 1}
  BY <1>1, BitType
<1>29. b11 \in {0, 1}
  BY <1>1, BitType
<1>30. b12 \in {0, 1}
  BY <1>1, BitType
<1>31. b13 \in {0, 1}
  BY <1>1, BitType
<1>32. b14 \in {0, 1}
  BY <1>1, BitType
<1>33. b15 \in {0, 1}
  BY <1>1, BitType
<1> HIDE DEF b0, b1, b2, b3, b4, b5, b6, b7, b8, b9, b10, b11, b12, b13, b14, b15
<1>34. BothSet(b0, Bit(65520, 0)) = 0
  BY <1>2, <1>18 DEF BothSet, Num
<1>35. BothSet(b1, Bit(65520, 1)) = 0
  BY <1>3, <1>19 DEF BothSet, Num
<1>36. BothSet(b2, Bit(65520, 2)) = 0
  BY <1>4, <1>20 DEF BothSet, Num
<1>37. BothSet(b3, Bit(65520, 3)) = 0
  BY <1>5, <1>21 DEF BothSet, Num
<1>38. BothSet(b4, Bit(65520, 4)) = b4
  BY <1>6, <1>22 DEF BothSet, Num
<1>39. BothSet(b5, Bit(65520, 5)) = b5
  BY <1>7, <1>23 DEF BothSet, Num
<1>40. BothSet(b6, Bit(65520, 6)) = b6
  BY <1>8, <1>24 DEF BothSet, Num
<1>41. BothSet(b7, Bit(65520, 7)) = b7
  BY <1>9, <1>25 DEF BothSet, Num
<1>42. BothSet(b8, Bit(65520, 8)) = b8
  BY <1>10, <1>26 DEF BothSet, Num
<1>43. BothSet(b9, Bit(65520, 9)) = b9
  BY <1>11, <1>27 DEF BothSet, Num
<1>44. BothSet(b10, Bit(65520, 10)) = b10
  BY <1>12, <1>28 DEF BothSet, Num
<1>45. BothSet(b11, Bit(65520, 11)) = b11
  BY <1>13, <1>29 DEF BothSet, Num
<1>46. BothSet(b12, Bit(65520, 12)) = b12
  BY <1>14, <1>30 DEF BothSet, Num
<1>47. BothSet(b13, Bit(65520, 13)) = b13
  BY <1>15, <1>31 DEF BothSet, Num
<1>48. BothSet(b14, Bit(65520, 14)) = b14
  BY <1>16, <1>32 DEF BothSet, Num
<1>49. BothSet(b15, Bit(65520, 15)) = b15
  BY <1>17, <1>33 DEF BothSet, Num
<1>50. And(x, 65520) = BothSet(b0, Bit(65520, 0)) + 2 * BothSet(b1, Bit(65520, 1)) +
         4 * BothSet(b2, Bit(65520, 2)) + 8 * BothSet(b3, Bit(65520, 3)) + 16 * BothSet(b4, Bit(65520, 4)) +
         32 * BothSet(b5, Bit(65520, 5)) + 64 * BothSet(b6, Bit(65520, 6)) + 128 * BothSet(b7, Bit(65520, 7)) +
         256 * BothSet(b8, Bit(65520, 8)) + 512 * BothSet(b9, Bit(65520, 9)) +
         1024 * BothSet(b10, Bit(65520, 10)) + 2048 * BothSet(b11, Bit(65520, 11)) +
         4096 * BothSet(b12, Bit(65520, 12)) + 8192 * BothSet(b13, Bit(65520, 13)) +
         16384 * BothSet(b14, Bit(65520, 14)) + 32768 * BothSet(b15, Bit(65520, 15))
  BY AndBits DEF b0, b1, b2, b3, b4, b5, b6, b7, b8, b9, b10, b11, b12, b13, b14, b15
<1>51. And(x, 65520) = 0 + 2 * 0 + 4 * 0 + 8 * 0 + 16 * b4 + 32 * b5 + 64 * b6 + 128 * b7 + 256 * b8 +
         512 * b9 + 1024 * b10 + 2048 * b11 + 4096 * b12 + 8192 * b13 + 16384 * b14 + 32768 * b15
  BY <1>50, <1>34, <1>35, <1>36, <1>37, <1>38, <1>39, <1>40, <1>41, <1>42, <1>43, <1>44, <1>45, <1>46, <1>47,
    <1>48, <1>49
<1>52. x = b0 + 2 * b1 + 4 * b2 + 8 * b3 + 16 * b4 + 32 * b5 + 64 * b6 + 128 * b7 + 256 * b8 + 512 * b9 +
         1024 * b10 + 2048 * b11 + 4096 * b12 + 8192 * b13 + 16384 * b14 + 32768 * b15
  BY WordBits DEF b0, b1, b2, b3, b4, b5, b6, b7, b8, b9, b10, b11, b12, b13, b14, b15
<1> DEFINE lo == b0 + 2 * b1 + 4 * b2 + 8 * b3  hi == b4 + 2 * b5 + 4 * b6 + 8 * b7 + 16 * b8 + 32 * b9 +
  64 * b10 + 128 * b11 + 256 * b12 + 512 * b13 + 1024 * b14 + 2048 * b15
<1>53. lo \in 0..15
  BY <1>18, <1>19, <1>20, <1>21
<1>54. hi \in Nat
  BY <1>22, <1>23, <1>24, <1>25, <1>26, <1>27, <1>28, <1>29, <1>30, <1>31, <1>32, <1>33
<1>55. x = lo + 16 * hi
  BY <1>52, <1>18, <1>19, <1>20, <1>21, <1>22, <1>23, <1>24, <1>25, <1>26, <1>27, <1>28, <1>29, <1>30, <1>31,
    <1>32, <1>33
<1>56. And(x, 65520) = 16 * hi
  BY <1>51, <1>18, <1>19, <1>20, <1>21, <1>22, <1>23, <1>24, <1>25, <1>26, <1>27, <1>28, <1>29, <1>30, <1>31,
    <1>32, <1>33
<1> HIDE DEF lo, hi
<1>57. x % 16 = lo
  BY <1>53, <1>54, <1>55
<1> QED BY <1>53, <1>54, <1>55, <1>56, <1>57

\* The mask of the other POPs clears nothing.
LEMMA AndFullMask ==
  ASSUME NEW x \in B16
  PROVE  And(x, 65535) = x
<1>1. x \in Nat
  BY DEF B16
<1>2. Bit(65535, 0) = 1
  BY 2^0 = 1 DEF Bit
<1>3. Bit(65535, 1) = 1
  BY 2^1 = 2 DEF Bit
<1>4. Bit(65535, 2) = 1
  BY 2^2 = 4 DEF Bit
<1>5. Bit(65535, 3) = 1
  BY 2^3 = 8 DEF Bit
<1>6. Bit(65535, 4) = 1
  BY 2^4 = 16 DEF Bit
<1>7. Bit(65535, 5) = 1
  BY 2^5 = 32 DEF Bit
<1>8. Bit(65535, 6) = 1
  BY 2^6 = 64 DEF Bit
<1>9. Bit(65535, 7) = 1
  BY 2^7 = 128 DEF Bit
<1>10. Bit(65535, 8) = 1
  BY 2^8 = 256 DEF Bit
<1>11. Bit(65535, 9) = 1
  BY 2^9 = 512 DEF Bit
<1>12. Bit(65535, 10) = 1
  BY 2^10 = 1024 DEF Bit
<1>13. Bit(65535, 11) = 1
  BY 2^11 = 2048 DEF Bit
<1>14. Bit(65535, 12) = 1
  BY 2^12 = 4096 DEF Bit
<1>15. Bit(65535, 13) = 1
  BY 2^13 = 8192 DEF Bit
<1>16. Bit(65535, 14) = 1
  BY 2^14 = 16384 DEF Bit
<1>17. Bit(65535, 15) = 1
  BY 2^15 = 32768 DEF Bit
<1> DEFINE b0 == Bit(x, 0)
           b1 == Bit(x, 1)
           b2 == Bit(x, 2)
           b3 == Bit(x, 3)
           b4 == Bit(x, 4)
           b5 == Bit(x, 5)
           b6 == Bit(x, 6)
           b7 == Bit(x, 7)
           b8 == Bit(x, 8)
           b9 == Bit(x, 9)
           b10 == Bit(x, 10)
           b11 == Bit(x, 11)
           b12 == Bit(x, 12)
           b13 == Bit(x, 13)
           b14 == Bit(x, 14)
           b15 == Bit(x, 15)
<1>18. b0 \in {0, 1}
  BY <1>1, BitType
<1>19. b1 \in {0, 1}
  BY <1>1, BitType
<1>20. b2 \in {0, 1}
  BY <1>1, BitType
<1>21. b3 \in {0, 1}
  BY <1>1, BitType
<1>22. b4 \in {0, 1}
  BY <1>1, BitType
<1>23. b5 \in {0, 1}
  BY <1>1, BitType
<1>24. b6 \in {0, 1}
  BY <1>1, BitType
<1>25. b7 \in {0, 1}
  BY <1>1, BitType
<1>26. b8 \in {0, 1}
  BY <1>1, BitType
<1>27. b9 \in {0, 1}
  BY <1>1, BitType
<1>28. b10 \in {0, 1}
  BY <1>1, BitType
<1>29. b11 \in {0, 1}
  BY <1>1, BitType
<1>30. b12 \in {0, 1}
  BY <1>1, BitType
<1>31. b13 \in {0, 1}
  BY <1>1, BitType
<1>32. b14 \in {0, 1}
  BY <1>1, BitType
<1>33. b15 \in {0, 1}
  BY <1>1, BitType
<1> HIDE DEF b0, b1, b2, b3, b4, b5, b6, b7, b8, b9, b10, b11, b12, b13, b14, b15
<1>34. BothSet(b0, Bit(65535, 0)) = b0
  BY <1>2, <1>18 DEF BothSet, Num
<1>35. BothSet(b1, Bit(65535, 1)) = b1
  BY <1>3, <1>19 DEF BothSet, Num
<1>36. BothSet(b2, Bit(65535, 2)) = b2
  BY <1>4, <1>20 DEF BothSet, Num
<1>37. BothSet(b3, Bit(65535, 3)) = b3
  BY <1>5, <1>21 DEF BothSet, Num
<1>38. BothSet(b4, Bit(65535, 4)) = b4
  BY <1>6, <1>22 DEF BothSet, Num
<1>39. BothSet(b5, Bit(65535, 5)) = b5
  BY <1>7, <1>23 DEF BothSet, Num
<1>40. BothSet(b6, Bit(65535, 6)) = b6
  BY <1>8, <1>24 DEF BothSet, Num
<1>41. BothSet(b7, Bit(65535, 7)) = b7
  BY <1>9, <1>25 DEF BothSet, Num
<1>42. BothSet(b8, Bit(65535, 8)) = b8
  BY <1>10, <1>26 DEF BothSet, Num
<1>43. BothSet(b9, Bit(65535, 9)) = b9
  BY <1>11, <1>27 DEF BothSet, Num
<1>44. BothSet(b10, Bit(65535, 10)) = b10
  BY <1>12, <1>28 DEF BothSet, Num
<1>45. BothSet(b11, Bit(65535, 11)) = b11
  BY <1>13, <1>29 DEF BothSet, Num
<1>46. BothSet(b12, Bit(65535, 12)) = b12
  BY <1>14, <1>30 DEF BothSet, Num
<1>47. BothSet(b13, Bit(65535, 13)) = b13
  BY <1>15, <1>31 DEF BothSet, Num
<1>48. BothSet(b14, Bit(65535, 14)) = b14
  BY <1>16, <1>32 DEF BothSet, Num
<1>49. BothSet(b15, Bit(65535, 15)) = b15
  BY <1>17, <1>33 DEF BothSet, Num
<1>50. And(x, 65535) = BothSet(b0, Bit(65535, 0)) + 2 * BothSet(b1, Bit(65535, 1)) +
         4 * BothSet(b2, Bit(65535, 2)) + 8 * BothSet(b3, Bit(65535, 3)) + 16 * BothSet(b4, Bit(65535, 4)) +
         32 * BothSet(b5, Bit(65535, 5)) + 64 * BothSet(b6, Bit(65535, 6)) + 128 * BothSet(b7, Bit(65535, 7)) +
         256 * BothSet(b8, Bit(65535, 8)) + 512 * BothSet(b9, Bit(65535, 9)) +
         1024 * BothSet(b10, Bit(65535, 10)) + 2048 * BothSet(b11, Bit(65535, 11)) +
         4096 * BothSet(b12, Bit(65535, 12)) + 8192 * BothSet(b13, Bit(65535, 13)) +
         16384 * BothSet(b14, Bit(65535, 14)) + 32768 * BothSet(b15, Bit(65535, 15))
  BY AndBits DEF b0, b1, b2, b3, b4, b5, b6, b7, b8, b9, b10, b11, b12, b13, b14, b15
<1>51. And(x, 65535) = b0 + 2 * b1 + 4 * b2 + 8 * b3 + 16 * b4 + 32 * b5 + 64 * b6 + 128 * b7 + 256 * b8 +
         512 * b9 + 1024 * b10 + 2048 * b11 + 4096 * b12 + 8192 * b13 + 16384 * b14 + 32768 * b15
  BY <1>50, <1>34, <1>35, <1>36, <1>37, <1>38, <1>39, <1>40, <1>41, <1>42, <1>43, <1>44, <1>45, <1>46, <1>47,
    <1>48, <1>49
<1>52. x = b0 + 2 * b1 + 4 * b2 + 8 * b3 + 16 * b4 + 32 * b5 + 64 * b6 + 128 * b7 + 256 * b8 + 512 * b9 +
         1024 * b10 + 2048 * b11 + 4096 * b12 + 8192 * b13 + 16384 * b14 + 32768 * b15
  BY WordBits DEF b0, b1, b2, b3, b4, b5, b6, b7, b8, b9, b10, b11, b12, b13, b14, b15
<1> QED BY <1>51, <1>52, <1>18, <1>19, <1>20, <1>21, <1>22, <1>23, <1>24, <1>25, <1>26, <1>27, <1>28, <1>29,
  <1>30, <1>31, <1>32, <1>33

\* The mask of LegacyCpu's SLA clears the low bit.
LEMMA AndEvenMask ==
  ASSUME NEW x \in B8
  PROVE  And(x, 254) = x - (x % 2)
<1>1. x \in Nat /\ x \in B16
  BY DEF B8, B16
<1>2. Bit(254, 0) = 0
  BY 2^0 = 1 DEF Bit
<1>3. Bit(254, 1) = 1
  BY 2^1 = 2 DEF Bit
<1>4. Bit(254, 2) = 1
  BY 2^2 = 4 DEF Bit
<1>5. Bit(254, 3) = 1
  BY 2^3 = 8 DEF Bit
<1>6. Bit(254, 4) = 1
  BY 2^4 = 16 DEF Bit
<1>7. Bit(254, 5) = 1
  BY 2^5 = 32 DEF Bit
<1>8. Bit(254, 6) = 1
  BY 2^6 = 64 DEF Bit
<1>9. Bit(254, 7) = 1
  BY 2^7 = 128 DEF Bit
<1>10. Bit(254, 8) = 0
  BY 2^8 = 256 DEF Bit
<1>11. Bit(254, 9) = 0
  BY 2^9 = 512 DEF Bit
<1>12. Bit(254, 10) = 0
  BY 2^10 = 1024 DEF Bit
<1>13. Bit(254, 11) = 0
  BY 2^11 = 2048 DEF Bit
<1>14. Bit(254, 12) = 0
  BY 2^12 = 4096 DEF Bit
<1>15. Bit(254, 13) = 0
  BY 2^13 = 8192 DEF Bit
<1>16. Bit(254, 14) = 0
  BY 2^14 = 16384 DEF Bit
<1>17. Bit(254, 15) = 0
  BY 2^15 = 32768 DEF Bit
<1> DEFINE b0 == Bit(x, 0)
           b1 == Bit(x, 1)
           b2 == Bit(x, 2)
           b3 == Bit(x, 3)
           b4 == Bit(x, 4)
           b5 == Bit(x, 5)
           b6 == Bit(x, 6)
           b7 == Bit(x, 7)
           b8 == Bit(x, 8)
           b9 == Bit(x, 9)
           b10 == Bit(x, 10)
           b11 == Bit(x, 11)
           b12 == Bit(x, 12)
           b13 == Bit(x, 13)
           b14 == Bit(x, 14)
           b15 == Bit(x, 15)
<1>18. b0 \in {0, 1}
  BY <1>1, BitType
<1>19. b1 \in {0, 1}
  BY <1>1, BitType
<1>20. b2 \in {0, 1}
  BY <1>1, BitType
<1>21. b3 \in {0, 1}
  BY <1>1, BitType
<1>22. b4 \in {0, 1}
  BY <1>1, BitType
<1>23. b5 \in {0, 1}
  BY <1>1, BitType
<1>24. b6 \in {0, 1}
  BY <1>1, BitType
<1>25. b7 \in {0, 1}
  BY <1>1, BitType
<1>26. b8 \in {0, 1}
  BY <1>1, BitType
<1>27. b9 \in {0, 1}
  BY <1>1, BitType
<1>28. b10 \in {0, 1}
  BY <1>1, BitType
<1>29. b11 \in {0, 1}
  BY <1>1, BitType
<1>30. b12 \in {0, 1}
  BY <1>1, BitType
<1>31. b13 \in {0, 1}
  BY <1>1, BitType
<1>32. b14 \in {0, 1}
  BY <1>1, BitType
<1>33. b15 \in {0, 1}
  BY <1>1, BitType
<1>34. b8 = 0 /\ b9 = 0 /\ b10 = 0 /\ b11 = 0 /\ b12 = 0 /\ b13 = 0 /\ b14 = 0 /\ b15 = 0
  BY HighBits
<1>35. x = b0 + 2 * b1 + 4 * b2 + 8 * b3 + 16 * b4 + 32 * b5 + 64 * b6 + 128 * b7 + 256 * b8 + 512 * b9 +
         1024 * b10 + 2048 * b11 + 4096 * b12 + 8192 * b13 + 16384 * b14 + 32768 * b15
  BY <1>1, WordBits
<1> HIDE DEF b0, b1, b2, b3, b4, b5, b6, b7, b8, b9, b10, b11, b12, b13, b14, b15
<1>36. BothSet(b0, Bit(254, 0)) = 0
  BY <1>2, <1>18 DEF BothSet, Num
<1>37. BothSet(b1, Bit(254, 1)) = b1
  BY <1>3, <1>19 DEF BothSet, Num
<1>38. BothSet(b2, Bit(254, 2)) = b2
  BY <1>4, <1>20 DEF BothSet, Num
<1>39. BothSet(b3, Bit(254, 3)) = b3
  BY <1>5, <1>21 DEF BothSet, Num
<1>40. BothSet(b4, Bit(254, 4)) = b4
  BY <1>6, <1>22 DEF BothSet, Num
<1>41. BothSet(b5, Bit(254, 5)) = b5
  BY <1>7, <1>23 DEF BothSet, Num
<1>42. BothSet(b6, Bit(254, 6)) = b6
  BY <1>8, <1>24 DEF BothSet, Num
<1>43. BothSet(b7, Bit(254, 7)) = b7
  BY <1>9, <1>25 DEF BothSet, Num
<1>44. BothSet(b8, Bit(254, 8)) = 0
  BY <1>10, <1>26 DEF BothSet, Num
<1>45. BothSet(b9, Bit(254, 9)) = 0
  BY <1>11, <1>27 DEF BothSet, Num
<1>46. BothSet(b10, Bit(254, 10)) = 0
  BY <1>12, <1>28 DEF BothSet, Num
<1>47. BothSet(b11, Bit(254, 11)) = 0
  BY <1>13, <1>29 DEF BothSet, Num
<1>48. BothSet(b12, Bit(254, 12)) = 0
  BY <1>14, <1>30 DEF BothSet, Num
<1>49. BothSet(b13, Bit(254, 13)) = 0
  BY <1>15, <1>31 DEF BothSet, Num
<1>50. BothSet(b14, Bit(254, 14)) = 0
  BY <1>16, <1>32 DEF BothSet, Num
<1>51. BothSet(b15, Bit(254, 15)) = 0
  BY <1>17, <1>33 DEF BothSet, Num
<1>52. And(x, 254) = BothSet(b0, Bit(254, 0)) + 2 * BothSet(b1, Bit(254, 1)) + 4 * BothSet(b2, Bit(254, 2)) +
         8 * BothSet(b3, Bit(254, 3)) + 16 * BothSet(b4, Bit(254, 4)) + 32 * BothSet(b5, Bit(254, 5)) +
         64 * BothSet(b6, Bit(254, 6)) + 128 * BothSet(b7, Bit(254, 7)) + 256 * BothSet(b8, Bit(254, 8)) +
         512 * BothSet(b9, Bit(254, 9)) + 1024 * BothSet(b10, Bit(254, 10)) +
         2048 * BothSet(b11, Bit(254, 11)) + 4096 * BothSet(b12, Bit(254, 12)) +
         8192 * BothSet(b13, Bit(254, 13)) + 16384 * BothSet(b14, Bit(254, 14)) +
         32768 * BothSet(b15, Bit(254, 15))
  BY AndBits DEF b0, b1, b2, b3, b4, b5, b6, b7, b8, b9, b10, b11, b12, b13, b14, b15
<1>53. And(x, 254) = 0 + 2 * b1 + 4 * b2 + 8 * b3 + 16 * b4 + 32 * b5 + 64 * b6 + 128 * b7 + 256 * 0 + 512 * 0 +
         1024 * 0 + 2048 * 0 + 4096 * 0 + 8192 * 0 + 16384 * 0 + 32768 * 0
  BY <1>52, <1>36, <1>37, <1>38, <1>39, <1>40, <1>41, <1>42, <1>43, <1>44, <1>45, <1>46, <1>47, <1>48, <1>49,
    <1>50, <1>51
<1> DEFINE hi == b1 + 2 * b2 + 4 * b3 + 8 * b4 + 16 * b5 + 32 * b6 + 64 * b7
<1>54. hi \in Nat
  BY <1>19, <1>20, <1>21, <1>22, <1>23, <1>24, <1>25
<1>55. x = b0 + 2 * hi
  BY <1>35, <1>34, <1>18, <1>19, <1>20, <1>21, <1>22, <1>23, <1>24, <1>25
<1>56. And(x, 254) = 2 * hi
  BY <1>53, <1>19, <1>20, <1>21, <1>22, <1>23, <1>24, <1>25
<1> HIDE DEF hi
<1>57. x % 2 = b0
  BY <1>54, <1>55, <1>18
<1> QED BY <1>54, <1>55, <1>56, <1>57, <1>18

\* The states of a json engine between the steps of a list.
JState == [a : B8, b : B8, f : AllFlags, hl : B16, sp : B16, pc : B16, n : B8, at : B16,
           m : B8, latch : B8, top : B16, ime : BOOLEAN, v : B8, left : {FALSE}]
LState == [a : B8, b : B8, fz : {0, 1}, fn : {0, 1}, fh : {0, 1}, fc : {0, 1},
           hl : B16, sp : B16, pc : B16, n : B8, at : B16,
           m : B8, latch : B8, top : B16, ime : BOOLEAN]

Shared == Common \cup {"n", "at"}

\* r is s but for the fields of F.
Keeps(r, s, F) == \A x \in Shared \ F : r[x] = s[x]

\* A flag micro-operation writes F alone, and leaves a value of F.
LEMMA SetFlagFields ==
  ASSUME NEW s \in JState, NEW k \in {Z, N, H, C}, NEW x \in {0, 1}
  PROVE  LET r == SetFlag(s, k, x)
         IN  r \in JState /\ r.f = WithBit(s.f, k, x) /\ r.v = s.v /\ Keeps(r, s, {})
<1> DEFINE r == SetFlag(s, k, x)
           w == WithBit(s.f, k, x)
<1>1. w \in AllFlags
  <2>1. s.f \in AllFlags
    BY DEF JState
  <2>2. PICK z, n, h, c \in {0, 1} : s.f = StoreFlags(z, n, h, c)
    BY <2>1, FlagsOf
  <2>3. \E z1, n1, h1, c1 \in {0, 1} : w = StoreFlags(z1, n1, h1, c1)
    BY <2>2, FlagBits
  <2> QED BY <2>3, FlagBits
<1> HIDE DEF w
<1>2. r = [s EXCEPT !.f = w]
  BY DEF SetFlag, w
<1>3. r \in JState /\ r.f = w /\ r.v = s.v
  BY <1>1, <1>2 DEF JState
<1>4. Keeps(r, s, {})
  BY <1>2 DEF Keeps, JState, Shared, Common
<1> QED BY <1>3, <1>4 DEF w

-----------------------------------------------------------------------------
(* The steps of a list, one after the other. *)

\* run is the passage through the first k steps of a list.
Passing(s, i, inBlock, steps, k, run) ==
  run = [q \in 0..k |-> IF q = 0 THEN Begin(s, i) ELSE EmitNext(run[q - 1], steps[q], inBlock)]

\* The passage has a value after every number of steps.
LEMMA PassingExists ==
  ASSUME NEW s, NEW i, NEW inBlock, NEW steps, NEW k \in Nat
  PROVE  \E run : Passing(s, i, inBlock, steps, k, run)
<1> DEFINE T == {p \in 0 .. k : \E run : Passing(s, i, inBlock, steps, p, run)}
<1>1. 0 \in T
  <2> DEFINE r == [q \in 0 .. 0 |-> Begin(s, i)]
  <2>1. Passing(s, i, inBlock, steps, 0, r)
    BY DEF Passing
  <2> HIDE DEF r
  <2> QED BY <2>1
<1>2. ASSUME NEW j \in 0 .. k-1, j \in T PROVE j+1 \in T
  <2>1. PICK r : Passing(s, i, inBlock, steps, j, r)
    BY <1>2
  <2> DEFINE last == EmitNext(r[j], steps[j+1], inBlock)
  <2> HIDE DEF last
  <2> DEFINE w == [q \in 0 .. (j+1) |-> IF q = j+1 THEN last ELSE r[q]]
  <2>2. \A q \in 0 .. j : w[q] = r[q]
    OBVIOUS
  <2>3. w[j+1] = last
    OBVIOUS
  <2>4. w = [q \in 0 .. (j+1) |-> w[q]]
    OBVIOUS
  <2> HIDE DEF w
  <2>5. ASSUME NEW q \in 0 .. (j+1)
        PROVE  w[q] = IF q = 0 THEN Begin(s, i) ELSE EmitNext(w[q - 1], steps[q], inBlock)
    <3>1. CASE q = j+1
      <4>1. q # 0 /\ q-1 = j /\ w[j] = r[j] /\ w[q] = last
        BY <3>1, <2>2, <2>3
      <4> QED BY <3>1, <4>1, Zenon DEF last
    <3>2. CASE q \in 0 .. j
      <4>1. w[q] = r[q] /\ (q # 0 => w[q-1] = r[q-1])
        BY <3>2, <2>2
      <4> QED BY <3>2, <4>1, <2>1, Zenon DEF Passing
    <3> QED BY <3>1, <3>2
  <2>6. Passing(s, i, inBlock, steps, j+1, w)
    BY <2>4, <2>5, Zenon DEF Passing
  <2> QED BY <2>6
<1> HIDE DEF T
<1>3. k \in T
  BY <1>1, <1>2, UpTo, k \in 0 .. k
<1> QED BY <1>3 DEF T

\* Run is the last state of the passage.
LEMMA RunDef ==
  ASSUME NEW s, NEW i, NEW inBlock, Len(Steps(i)) \in Nat
  PROVE  \E run : Passing(s, i, inBlock, Steps(i), Len(Steps(i)), run) /\ Run(s, i, inBlock) = run[Len(Steps(i))]
<1> DEFINE Loop == CHOOSE run : Passing(s, i, inBlock, Steps(i), Len(Steps(i)), run)
<1>1. Passing(s, i, inBlock, Steps(i), Len(Steps(i)), Loop)
  BY PassingExists
<1>2. Run(s, i, inBlock) = Loop[Len(Steps(i))]
  BY Zenon DEF Run, Passing
<1> QED BY <1>1, <1>2

\* The passage step by step.
LEMMA PassingStep ==
  ASSUME NEW s, NEW i, NEW inBlock, NEW steps, NEW k \in Nat, NEW run, Passing(s, i, inBlock, steps, k, run)
  PROVE  /\ run[0] = Begin(s, i)
         /\ \A q \in 1 .. k : run[q] = EmitNext(run[q - 1], steps[q], inBlock)
<1>1. \A q \in 0 .. k : run[q] = IF q = 0 THEN Begin(s, i) ELSE EmitNext(run[q - 1], steps[q], inBlock)
  BY Zenon DEF Passing
<1>2. 0 \in 0 .. k /\ \A q \in 1 .. k : q \in 0 .. k /\ q # 0
  OBVIOUS
<1> QED BY <1>1, <1>2, Zenon

\* Lists of one to six steps.
LEMMA Run1 ==
  ASSUME NEW s, NEW i, NEW inBlock, NEW u1, Steps(i) = <<u1>>
  PROVE  Run(s, i, inBlock) = EmitNext(Begin(s, i), u1, inBlock)
<1> DEFINE st == Steps(i)
<1>1. Len(st) = 1 /\ st[1] = u1
  OBVIOUS
<1>0. PICK run : Passing(s, i, inBlock, st, Len(st), run) /\ Run(s, i, inBlock) = run[Len(st)]
  BY <1>1, RunDef
<1> HIDE DEF st
<1>2. /\ run[0] = Begin(s, i)
      /\ \A q \in 1 .. 1 : run[q] = EmitNext(run[q - 1], st[q], inBlock)
      /\ Run(s, i, inBlock) = run[1]
  BY <1>0, <1>1, PassingStep
<1>3. run[1] = EmitNext(run[0], u1, inBlock)
  BY <1>1, <1>2, 1 \in 1 .. 1, 1 - 1 = 0
<1> QED BY <1>2, <1>3

\* A list of two steps.
LEMMA Run2 ==
  ASSUME NEW s, NEW i, NEW inBlock, NEW u1, NEW u2, Steps(i) = <<u1, u2>>
  PROVE  Run(s, i, inBlock) = EmitNext(EmitNext(Begin(s, i), u1, inBlock), u2, inBlock)
<1> DEFINE st == Steps(i)
<1>1. Len(st) = 2 /\ st[1] = u1 /\ st[2] = u2
  OBVIOUS
<1>0. PICK run : Passing(s, i, inBlock, st, Len(st), run) /\ Run(s, i, inBlock) = run[Len(st)]
  BY <1>1, RunDef
<1> HIDE DEF st
<1>2. /\ run[0] = Begin(s, i)
      /\ \A q \in 1 .. 2 : run[q] = EmitNext(run[q - 1], st[q], inBlock)
      /\ Run(s, i, inBlock) = run[2]
  BY <1>0, <1>1, PassingStep
<1>3. run[1] = EmitNext(run[0], u1, inBlock)
  BY <1>1, <1>2, 1 \in 1 .. 2, 1 - 1 = 0
<1>4. run[2] = EmitNext(run[1], u2, inBlock)
  BY <1>1, <1>2, 2 \in 1 .. 2, 2 - 1 = 1
<1> QED BY <1>2, <1>3, <1>4

\* A list of three steps.
LEMMA Run3 ==
  ASSUME NEW s, NEW i, NEW inBlock, NEW u1, NEW u2, NEW u3, Steps(i) = <<u1, u2, u3>>
  PROVE  Run(s, i, inBlock) = EmitNext(EmitNext(EmitNext(Begin(s, i), u1, inBlock), u2, inBlock), u3, inBlock)
<1> DEFINE st == Steps(i)
<1>1. Len(st) = 3 /\ st[1] = u1 /\ st[2] = u2 /\ st[3] = u3
  OBVIOUS
<1>0. PICK run : Passing(s, i, inBlock, st, Len(st), run) /\ Run(s, i, inBlock) = run[Len(st)]
  BY <1>1, RunDef
<1> HIDE DEF st
<1>2. /\ run[0] = Begin(s, i)
      /\ \A q \in 1 .. 3 : run[q] = EmitNext(run[q - 1], st[q], inBlock)
      /\ Run(s, i, inBlock) = run[3]
  BY <1>0, <1>1, PassingStep
<1>3. run[1] = EmitNext(run[0], u1, inBlock)
  BY <1>1, <1>2, 1 \in 1 .. 3, 1 - 1 = 0
<1>4. run[2] = EmitNext(run[1], u2, inBlock)
  BY <1>1, <1>2, 2 \in 1 .. 3, 2 - 1 = 1
<1>5. run[3] = EmitNext(run[2], u3, inBlock)
  BY <1>1, <1>2, 3 \in 1 .. 3, 3 - 1 = 2
<1> QED BY <1>2, <1>3, <1>4, <1>5

\* A list of four steps.
LEMMA Run4 ==
  ASSUME NEW s, NEW i, NEW inBlock, NEW u1, NEW u2, NEW u3, NEW u4, Steps(i) = <<u1, u2, u3, u4>>
  PROVE  Run(s, i, inBlock) = EmitNext(EmitNext(EmitNext(EmitNext(Begin(s, i), u1, inBlock), u2, inBlock), u3, inBlock), u4, inBlock)
<1> DEFINE st == Steps(i)
<1>1. Len(st) = 4 /\ st[1] = u1 /\ st[2] = u2 /\ st[3] = u3 /\ st[4] = u4
  OBVIOUS
<1>0. PICK run : Passing(s, i, inBlock, st, Len(st), run) /\ Run(s, i, inBlock) = run[Len(st)]
  BY <1>1, RunDef
<1> HIDE DEF st
<1>2. /\ run[0] = Begin(s, i)
      /\ \A q \in 1 .. 4 : run[q] = EmitNext(run[q - 1], st[q], inBlock)
      /\ Run(s, i, inBlock) = run[4]
  BY <1>0, <1>1, PassingStep
<1>3. run[1] = EmitNext(run[0], u1, inBlock)
  BY <1>1, <1>2, 1 \in 1 .. 4, 1 - 1 = 0
<1>4. run[2] = EmitNext(run[1], u2, inBlock)
  BY <1>1, <1>2, 2 \in 1 .. 4, 2 - 1 = 1
<1>5. run[3] = EmitNext(run[2], u3, inBlock)
  BY <1>1, <1>2, 3 \in 1 .. 4, 3 - 1 = 2
<1>6. run[4] = EmitNext(run[3], u4, inBlock)
  BY <1>1, <1>2, 4 \in 1 .. 4, 4 - 1 = 3
<1> QED BY <1>2, <1>3, <1>4, <1>5, <1>6

\* A list of five steps.
LEMMA Run5 ==
  ASSUME NEW s, NEW i, NEW inBlock, NEW u1, NEW u2, NEW u3, NEW u4, NEW u5, Steps(i) = <<u1, u2, u3, u4, u5>>
  PROVE  Run(s, i, inBlock) = EmitNext(EmitNext(EmitNext(EmitNext(EmitNext(Begin(s, i), u1, inBlock), u2, inBlock), u3, inBlock), u4, inBlock), u5, inBlock)
<1> DEFINE st == Steps(i)
<1>1. Len(st) = 5 /\ st[1] = u1 /\ st[2] = u2 /\ st[3] = u3 /\ st[4] = u4 /\ st[5] = u5
  OBVIOUS
<1>0. PICK run : Passing(s, i, inBlock, st, Len(st), run) /\ Run(s, i, inBlock) = run[Len(st)]
  BY <1>1, RunDef
<1> HIDE DEF st
<1>2. /\ run[0] = Begin(s, i)
      /\ \A q \in 1 .. 5 : run[q] = EmitNext(run[q - 1], st[q], inBlock)
      /\ Run(s, i, inBlock) = run[5]
  BY <1>0, <1>1, PassingStep
<1>3. run[1] = EmitNext(run[0], u1, inBlock)
  BY <1>1, <1>2, 1 \in 1 .. 5, 1 - 1 = 0
<1>4. run[2] = EmitNext(run[1], u2, inBlock)
  BY <1>1, <1>2, 2 \in 1 .. 5, 2 - 1 = 1
<1>5. run[3] = EmitNext(run[2], u3, inBlock)
  BY <1>1, <1>2, 3 \in 1 .. 5, 3 - 1 = 2
<1>6. run[4] = EmitNext(run[3], u4, inBlock)
  BY <1>1, <1>2, 4 \in 1 .. 5, 4 - 1 = 3
<1>7. run[5] = EmitNext(run[4], u5, inBlock)
  BY <1>1, <1>2, 5 \in 1 .. 5, 5 - 1 = 4
<1> QED BY <1>2, <1>3, <1>4, <1>5, <1>6, <1>7

\* A list of six steps.
LEMMA Run6 ==
  ASSUME NEW s, NEW i, NEW inBlock, NEW u1, NEW u2, NEW u3, NEW u4, NEW u5,
           NEW u6, Steps(i) = <<u1, u2, u3, u4, u5, u6>>
  PROVE  Run(s, i, inBlock) = EmitNext(EmitNext(EmitNext(EmitNext(EmitNext(EmitNext(Begin(s, i), u1, inBlock), u2, inBlock), u3, inBlock), u4, inBlock), u5, inBlock), u6, inBlock)
<1> DEFINE st == Steps(i)
<1>1. Len(st) = 6 /\ st[1] = u1 /\ st[2] = u2 /\ st[3] = u3 /\ st[4] = u4 /\ st[5] = u5 /\ st[6] = u6
  OBVIOUS
<1>0. PICK run : Passing(s, i, inBlock, st, Len(st), run) /\ Run(s, i, inBlock) = run[Len(st)]
  BY <1>1, RunDef
<1> HIDE DEF st
<1>2. /\ run[0] = Begin(s, i)
      /\ \A q \in 1 .. 6 : run[q] = EmitNext(run[q - 1], st[q], inBlock)
      /\ Run(s, i, inBlock) = run[6]
  BY <1>0, <1>1, PassingStep
<1>3. run[1] = EmitNext(run[0], u1, inBlock)
  BY <1>1, <1>2, 1 \in 1 .. 6, 1 - 1 = 0
<1>4. run[2] = EmitNext(run[1], u2, inBlock)
  BY <1>1, <1>2, 2 \in 1 .. 6, 2 - 1 = 1
<1>5. run[3] = EmitNext(run[2], u3, inBlock)
  BY <1>1, <1>2, 3 \in 1 .. 6, 3 - 1 = 2
<1>6. run[4] = EmitNext(run[3], u4, inBlock)
  BY <1>1, <1>2, 4 \in 1 .. 6, 4 - 1 = 3
<1>7. run[5] = EmitNext(run[4], u5, inBlock)
  BY <1>1, <1>2, 5 \in 1 .. 6, 5 - 1 = 4
<1>8. run[6] = EmitNext(run[5], u6, inBlock)
  BY <1>1, <1>2, 6 \in 1 .. 6, 6 - 1 = 5
<1> QED BY <1>2, <1>3, <1>4, <1>5, <1>6, <1>7, <1>8

\* The micro-operations that move bytes.
LEMMA EmitMoves ==
  ASSUME NEW s, NEW x, NEW y, NEW inBlock
  PROVE  /\ Emit(s, <<"read_r8", x>>, inBlock) = ReadR8(s, x)
         /\ Emit(s, <<"load_byte", x>>, inBlock) = LoadByte(s)
         /\ Emit(s, <<"write_r8", x>>, inBlock) = WriteR8(s, x)
         /\ Emit(s, <<"store_byte", x>>, inBlock) = StoreByte(s, inBlock)
         /\ Emit(s, <<"add", x>>, inBlock) = AddTrunc(s, x)
         /\ Emit(s, <<"mvn", x>>, inBlock) = Mvn(s)
<1>1. Emit(s, <<"read_r8", x>>, inBlock) = ReadR8(s, x)
  BY DEF Emit
<1>2. Emit(s, <<"load_byte", x>>, inBlock) = LoadByte(s)
  BY DEF Emit
<1>3. Emit(s, <<"write_r8", x>>, inBlock) = WriteR8(s, x)
  BY DEF Emit
<1>4. Emit(s, <<"store_byte", x>>, inBlock) = StoreByte(s, inBlock)
  BY DEF Emit
<1>5. Emit(s, <<"add", x>>, inBlock) = AddTrunc(s, x)
  BY DEF Emit
<1>6. Emit(s, <<"mvn", x>>, inBlock) = Mvn(s)
  BY DEF Emit
<1> QED BY <1>1, <1>2, <1>3, <1>4, <1>5, <1>6, Zenon

\* The micro-operations on flags and in the ALU.
LEMMA EmitFlags ==
  ASSUME NEW s, NEW x, NEW y, NEW inBlock
  PROVE  /\ Emit(s, <<"update_zero", x>>, inBlock) = UpdateZero(s)
         /\ Emit(s, <<"update_h_inc", x>>, inBlock) = UpdateHInc(s)
         /\ Emit(s, <<"update_h_dec", x>>, inBlock) = UpdateHDec(s)
         /\ Emit(s, <<"set_flag", <<x, y>>>>, inBlock) = SetFlag(s, x, y)
         /\ Emit(s, <<"toggle_flag", x>>, inBlock) = ToggleFlag(s, x)
         /\ Emit(s, <<"shift", x>>, inBlock) = Shift(s, x, TRUE)
         /\ Emit(s, <<"shift_keep_z", x>>, inBlock) = Shift(s, x, FALSE)
         /\ Emit(s, <<"bit_test", x>>, inBlock) = BitTest(s, x)
         /\ Emit(s, <<"bit_set", x>>, inBlock) = BitSet(s, x)
         /\ Emit(s, <<"bit_clear", x>>, inBlock) = BitClear(s, x)
         /\ Emit(s, <<"alu", x>>, inBlock) = Alu8(s, x, s.v)
         /\ Emit(s, <<"daa", x>>, inBlock) = Daa(s)
<1>1. Emit(s, <<"update_zero", x>>, inBlock) = UpdateZero(s)
  BY DEF Emit
<1>2. Emit(s, <<"update_h_inc", x>>, inBlock) = UpdateHInc(s)
  BY DEF Emit
<1>3. Emit(s, <<"update_h_dec", x>>, inBlock) = UpdateHDec(s)
  BY DEF Emit
<1>4. Emit(s, <<"set_flag", <<x, y>>>>, inBlock) = SetFlag(s, x, y)
  BY DEF Emit
<1>5. Emit(s, <<"toggle_flag", x>>, inBlock) = ToggleFlag(s, x)
  BY DEF Emit
<1>6. Emit(s, <<"shift", x>>, inBlock) = Shift(s, x, TRUE)
  BY DEF Emit
<1>7. Emit(s, <<"shift_keep_z", x>>, inBlock) = Shift(s, x, FALSE)
  BY DEF Emit
<1>8. Emit(s, <<"bit_test", x>>, inBlock) = BitTest(s, x)
  BY DEF Emit
<1>9. Emit(s, <<"bit_set", x>>, inBlock) = BitSet(s, x)
  BY DEF Emit
<1>10. Emit(s, <<"bit_clear", x>>, inBlock) = BitClear(s, x)
  BY DEF Emit
<1>11. Emit(s, <<"alu", x>>, inBlock) = Alu8(s, x, s.v)
  BY DEF Emit
<1>12. Emit(s, <<"daa", x>>, inBlock) = Daa(s)
  BY DEF Emit
<1> QED BY <1>1, <1>2, <1>3, <1>4, <1>5, <1>6, <1>7, <1>8, <1>9, <1>10, <1>11, <1>12, Zenon

-----------------------------------------------------------------------------
(* The two engines side by side. *)

\* The same machine, with F packed or in four variables.
Match(j, l) ==
  /\ j \in JState /\ l \in LState
  /\ Keeps(j, l, {})
  /\ j.f = StoreFlags(l.fz, l.fn, l.fh, l.fc)

\* r is s with x handed on and the flags z, n, h, c: what a list has come to
\* before it writes a result.
Like(r, s, x, z, n, h, c) ==
  /\ r \in JState /\ r.v = x /\ r.f = StoreFlags(z, n, h, c)
  /\ {z, n, h, c} \subseteq {0, 1}
  /\ Keeps(r, s, {})

\* A list begins with the flags of the other engine.
LEMMA MatchLike ==
  ASSUME NEW j, NEW l, Match(j, l)
  PROVE  Like(j, j, j.v, l.fz, l.fn, l.fh, l.fc)
  BY DEF Match, Like, Keeps, LState

\* Outside a block no step is skipped.
LEMMA EmitsAll ==
  ASSUME NEW s \in JState, NEW u
  PROVE  EmitNext(s, u, FALSE) = Emit(s, u, FALSE)
  BY DEF EmitNext, JState

\* An emitter that only hands on a value.
Valued(s, x) == [s EXCEPT !.v = x]
\* It leaves the flags and the registers as they were.
LEMMA LikeValue ==
  ASSUME NEW r, NEW s, NEW x, NEW z, NEW n, NEW h, NEW c, Like(r, s, x, z, n, h, c), NEW y \in B8
  PROVE  Like(Valued(r, y), s, y, z, n, h, c)
<1> DEFINE t == Valued(r, y)
<1>1. r \in JState /\ r.f = StoreFlags(z, n, h, c)
  BY DEF Like
<1>2. t \in JState /\ t.v = y /\ t.f = r.f
  BY <1>1 DEF JState, Valued
<1>3. Keeps(t, r, {})
  BY <1>1 DEF Keeps, JState, Shared, Common, Valued
<1>4. Keeps(t, s, {})
  BY <1>3 DEF Keeps, Like
<1> QED BY <1>1, <1>2, <1>4 DEF Like

\* Emitters that set one flag.
LEMMA LikeFlag ==
  ASSUME NEW r, NEW s, NEW x, NEW z, NEW n, NEW h, NEW c, Like(r, s, x, z, n, h, c), NEW y \in {0, 1}
  PROVE  /\ Like(SetFlag(r, Z, y), s, x, y, n, h, c)
         /\ Like(SetFlag(r, N, y), s, x, z, y, h, c)
         /\ Like(SetFlag(r, H, y), s, x, z, n, y, c)
         /\ Like(SetFlag(r, C, y), s, x, z, n, h, y)
<1>1. /\ r \in JState /\ r.f = StoreFlags(z, n, h, c) /\ r.v = x
      /\ z \in {0, 1} /\ n \in {0, 1} /\ h \in {0, 1} /\ c \in {0, 1}
  BY DEF Like
<1>2. /\ WithBit(r.f, Z, y) = StoreFlags(y, n, h, c) /\ WithBit(r.f, N, y) = StoreFlags(z, y, h, c)
      /\ WithBit(r.f, H, y) = StoreFlags(z, n, y, c) /\ WithBit(r.f, C, y) = StoreFlags(z, n, h, y)
  BY <1>1, FlagBits
<1>3. ASSUME NEW k \in {Z, N, H, C}, NEW z1 \in {0, 1}, NEW n1 \in {0, 1}, NEW h1 \in {0, 1}, NEW c1 \in {0, 1},
             WithBit(r.f, k, y) = StoreFlags(z1, n1, h1, c1)
      PROVE  Like(SetFlag(r, k, y), s, x, z1, n1, h1, c1)
  <2> DEFINE t == SetFlag(r, k, y)
  <2>1. t \in JState /\ t.f = StoreFlags(z1, n1, h1, c1) /\ t.v = x /\ Keeps(t, r, {})
    BY <1>1, <1>3, SetFlagFields
  <2>2. Keeps(t, s, {})
    BY <2>1 DEF Keeps, Like
  <2> QED BY <2>1, <2>2 DEF Like
<1>4. Like(SetFlag(r, Z, y), s, x, y, n, h, c)
  BY <1>1, <1>2, <1>3
<1>5. Like(SetFlag(r, N, y), s, x, z, y, h, c)
  BY <1>1, <1>2, <1>3
<1>6. Like(SetFlag(r, H, y), s, x, z, n, y, c)
  BY <1>1, <1>2, <1>3
<1>7. Like(SetFlag(r, C, y), s, x, z, n, h, y)
  BY <1>1, <1>2, <1>3
<1> QED BY <1>4, <1>5, <1>6, <1>7

\* What a location reads after a write is a byte.
LEMMA ReadBackType ==
  ASSUME NEW at \in B16, NEW old \in B8, NEW v \in B8
  PROVE  ReadBack(at, old, v) \in B8
<1>1. 0 \in B8 /\ v % 8 \in B8 /\ v % 32 \in B8
  BY DEF B8
<1> QED BY <1>1 DEF ReadBack

\* The operand of an instruction.
LEMMA SrcType ==
  ASSUME NEW s, s \in JState \/ s \in LState, NEW src \in {"a", "b", "hl", "n"}
  PROVE  SrcOf(s, src) \in B8
<1>1. s.a \in B8 /\ s.b \in B8 /\ s.m \in B8 /\ s.n \in B8
  BY DEF JState, LState
<1> QED BY <1>1 DEF SrcOf

\* Both engines read the same operand.
LEMMA SrcMatch ==
  ASSUME NEW j, NEW l, Keeps(j, l, {}), NEW src \in {"a", "b", "hl", "n"}
  PROVE  SrcOf(j, src) = SrcOf(l, src)
<1>1. j.a = l.a /\ j.b = l.b /\ j.m = l.m /\ j.n = l.n
  BY DEF Keeps, Shared, Common
<1> QED BY <1>1 DEF SrcOf

\* The first step of most lists.
LEMMA LikeFetch ==
  ASSUME NEW r, NEW s, NEW x, NEW z, NEW n, NEW h, NEW c, Like(r, s, x, z, n, h, c),
         NEW src \in {"a", "b", "hl", "n"}
  PROVE  Like(EmitNext(r, Fetch(src), FALSE), s, SrcOf(s, src), z, n, h, c)
<1>1. r \in JState /\ Keeps(r, s, {})
  BY DEF Like
<1>2. SrcOf(r, src) = SrcOf(s, src)
  BY <1>1, SrcMatch
<1>3. SrcOf(r, src) \in B8
  BY <1>1, SrcType
<1>4. EmitNext(r, Fetch(src), FALSE) = Valued(r, SrcOf(r, src))
  <2>1. CASE src = "hl"
    <3>1. EmitNext(r, Fetch(src), FALSE) = LoadByte(r)
      <4>1. Emit(r, <<"load_byte", src>>, FALSE) = LoadByte(r)
        BY DEF Emit
      <4> QED BY <1>1, <2>1, <4>1, EmitsAll DEF Fetch
    <3> QED BY <2>1, <3>1 DEF LoadByte, Valued, SrcOf
  <2>2. CASE src # "hl"
    <3>1. EmitNext(r, Fetch(src), FALSE) = ReadR8(r, src)
      BY <1>1, <2>2, EmitsAll, EmitMoves DEF Fetch
    <3> QED BY <2>2, <3>1 DEF ReadR8, Valued, SrcOf
  <2> QED BY <2>1, <2>2
<1> QED BY <1>2, <1>3, <1>4, LikeValue

\* s with one of its registers replaced.
Set(s, reg, x) == [s EXCEPT ![reg] = x]
Fits(reg, x) == \/ reg \in {"a", "b", "m", "latch"} /\ x \in B8
                \/ reg \in {"hl", "sp", "pc", "top"} /\ x \in B16
                \/ reg = "ime" /\ x \in BOOLEAN

\* Writing a register of the JSON engine with a value of its width keeps the
\* widths and touches neither F nor the value handed on.
LEMMA SetJson ==
  ASSUME NEW r \in JState, NEW reg, NEW x, Fits(reg, x)
  PROVE  /\ Set(r, reg, x) \in JState
         /\ Set(r, reg, x).v = r.v /\ Set(r, reg, x).f = r.f
  BY DEF Set, Fits, JState

\* Writing a register of LegacyCpu keeps the widths and the four flags.
LEMMA SetLegacy ==
  ASSUME NEW l \in LState, NEW reg, NEW x, Fits(reg, x)
  PROVE  /\ Set(l, reg, x) \in LState
         /\ Set(l, reg, x).fz = l.fz /\ Set(l, reg, x).fn = l.fn
         /\ Set(l, reg, x).fh = l.fh /\ Set(l, reg, x).fc = l.fc
  BY DEF Set, Fits, LState

\* The same write to both engines keeps them alike.
LEMMA SetKeeps ==
  ASSUME NEW s, NEW t, s \in JState \/ s \in LState, t \in JState \/ t \in LState,
         NEW reg, NEW x, Fits(reg, x), Keeps(s, t, {})
  PROVE  Keeps(Set(s, reg, x), Set(t, reg, x), {})
  BY DEF Set, Fits, JState, LState, Keeps, Shared, Common
\* A write in the middle of a list.
LEMMA LikeSet ==
  ASSUME NEW r, NEW s, NEW x, NEW z, NEW n, NEW h, NEW c, Like(r, s, x, z, n, h, c), s \in JState,
         NEW reg, NEW y, Fits(reg, y)
  PROVE  Like(Set(r, reg, y), Set(s, reg, y), x, z, n, h, c)
<1>1. r \in JState /\ Keeps(r, s, {})
  BY DEF Like
<1>2. Keeps(Set(r, reg, y), Set(s, reg, y), {})
  BY <1>1, SetKeeps
<1> QED BY <1>1, <1>2, SetJson DEF Like
\* LegacyCpu's flag write leaves every other register.
LEMMA WithFlagsFields ==
  ASSUME NEW l \in LState, NEW z \in {0, 1}, NEW n \in {0, 1}, NEW h \in {0, 1}, NEW c \in {0, 1}
  PROVE  LET r == WithFlags(l, z, n, h, c)
         IN  /\ r \in LState /\ Keeps(r, l, {})
             /\ r.fz = z /\ r.fn = n /\ r.fh = h /\ r.fc = c
<1> DEFINE r == WithFlags(l, z, n, h, c)
<1>1. r \in LState /\ r.fz = z /\ r.fn = n /\ r.fh = h /\ r.fc = c
  BY DEF WithFlags, LState
<1>2. Keeps(r, l, {})
  BY DEF WithFlags, LState, Keeps, Shared, Common
<1> QED BY <1>1, <1>2

\* A list ends with the flags of the other engine.
LEMMA LikeMatch ==
  ASSUME NEW r, NEW s, NEW x, NEW z, NEW n, NEW h, NEW c, Like(r, s, x, z, n, h, c),
         NEW l \in LState, Keeps(s, l, {})
  PROVE  Match(r, WithFlags(l, z, n, h, c))
<1> DEFINE w == WithFlags(l, z, n, h, c)
<1>1. z \in {0, 1} /\ n \in {0, 1} /\ h \in {0, 1} /\ c \in {0, 1} /\ r \in JState /\
        r.f = StoreFlags(z, n, h, c) /\ Keeps(r, s, {})
  BY DEF Like
<1>2. w \in LState /\ Keeps(w, l, {}) /\ w.fz = z /\ w.fn = n /\ w.fh = h /\ w.fc = c
  BY <1>1, WithFlagsFields
<1> HIDE DEF w
<1>3. Keeps(r, w, {})
  BY <1>1, <1>2 DEF Keeps
<1>4. r.f = StoreFlags(w.fz, w.fn, w.fh, w.fc)
  BY <1>1, <1>2
<1>5. Match(r, w)
  BY <1>1, <1>2, <1>3, <1>4 DEF Match
<1> QED BY <1>5 DEF w

\* Writing a result to B or to memory.
LEMMA PutSet ==
  ASSUME NEW s, s \in JState \/ s \in LState, NEW src \in {"b", "hl"}, NEW x \in B8
  PROVE  /\ src = "b" => Put(s, src, x) = Set(s, "b", x)
         /\ src = "hl" => Put(s, src, x) =
               Set(Set(s, "m", ReadBack(s.at, s.m, x)), "latch", IF s.at < 32768 THEN x ELSE s.latch)
<1>1. src = "b" => Put(s, src, x) = Set(s, "b", x)
  BY DEF Put, Set
<1> DEFINE rb == ReadBack(s.at, s.m, x)
           lt == IF s.at < 32768 THEN x ELSE s.latch
<1>2. src = "hl" => Put(s, src, x) = [s EXCEPT !.m = rb, !.latch = lt]
  BY DEF Put, WriteByte, JState, LState
<1> HIDE DEF rb, lt
<1>3. [s EXCEPT !.m = rb, !.latch = lt] = Set(Set(s, "m", rb), "latch", lt)
  BY DEF Set, JState, LState
<1> QED BY <1>1, <1>2, <1>3 DEF rb, lt

\* LegacyCpu's write of a byte keeps the widths and the flags,
LEMMA PutLegacy ==
  ASSUME NEW l \in LState, NEW src \in {"b", "hl"}, NEW x \in B8
  PROVE  LET p == Put(l, src, x)
         IN  p \in LState /\ p.fz = l.fz /\ p.fn = l.fn /\ p.fh = l.fh /\ p.fc = l.fc
<1> DEFINE rb == ReadBack(l.at, l.m, x)
           lt == IF l.at < 32768 THEN x ELSE l.latch
<1>1. rb \in B8 /\ lt \in B8
  BY ReadBackType DEF LState
<1>2. Fits("b", x) /\ Fits("m", rb) /\ Fits("latch", lt)
  BY <1>1 DEF Fits
<1> HIDE DEF rb, lt
<1>3. CASE src = "b"
  BY <1>2, <1>3, PutSet, SetLegacy
<1>4. CASE src = "hl"
  <2> DEFINE q == Set(l, "m", rb)
             p == Set(q, "latch", lt)
  <2>1. q \in LState /\ q.fz = l.fz /\ q.fn = l.fn /\ q.fh = l.fh /\ q.fc = l.fc
    BY <1>2, SetLegacy
  <2> HIDE DEF q
  <2>2. p \in LState /\ p.fz = l.fz /\ p.fn = l.fn /\ p.fh = l.fh /\ p.fc = l.fc
    BY <1>2, <2>1, SetLegacy
  <2>3. Put(l, src, x) = p
    BY <1>4, PutSet DEF rb, lt, q
  <2> QED BY <2>2, <2>3, Zenon
<1> QED BY <1>3, <1>4

\* and so does the same write by the JSON engine.
LEMMA PutJson ==
  ASSUME NEW r, NEW s, NEW x, NEW z, NEW n, NEW h, NEW c, Like(r, s, x, z, n, h, c), s \in JState,
         NEW src \in {"b", "hl"}, NEW y \in B8
  PROVE  Like(Put(r, src, y), Put(s, src, y), x, z, n, h, c) /\ Put(s, src, y) \in JState
<1>1. r \in JState /\ r.at = s.at /\ r.m = s.m /\ r.latch = s.latch
  BY DEF Like, Keeps, Shared, Common
<1> DEFINE rb == ReadBack(s.at, s.m, y)
           lt == IF s.at < 32768 THEN y ELSE s.latch
<1>2. rb \in B8 /\ lt \in B8
  BY ReadBackType DEF JState
<1>3. Fits("b", y) /\ Fits("m", rb) /\ Fits("latch", lt)
  BY <1>2 DEF Fits
<1> HIDE DEF rb, lt
<1>4. CASE src = "b"
  <2>1. Like(Set(r, "b", y), Set(s, "b", y), x, z, n, h, c)
    BY <1>3, LikeSet
  <2>2. Set(s, "b", y) \in JState
    BY <1>3, SetJson
  <2>3. Put(r, src, y) = Set(r, "b", y) /\ Put(s, src, y) = Set(s, "b", y)
    BY <1>1, <1>4, PutSet
  <2> QED BY <2>1, <2>2, <2>3, Zenon
<1>5. CASE src = "hl"
  <2> DEFINE q == Set(s, "m", rb)
             p == Set(r, "m", rb)
  <2>1. Like(p, q, x, z, n, h, c) /\ q \in JState
    BY <1>3, LikeSet, SetJson
  <2>2. Put(r, src, y) = Set(p, "latch", lt) /\ Put(s, src, y) = Set(q, "latch", lt)
    BY <1>1, <1>5, PutSet DEF rb, lt
  <2> HIDE DEF q, p
  <2>3. Like(Set(p, "latch", lt), Set(q, "latch", lt), x, z, n, h, c) /\ Set(q, "latch", lt) \in JState
    BY <1>3, <2>1, LikeSet, SetJson
  <2> QED BY <2>2, <2>3, Zenon
<1> QED BY <1>4, <1>5

\* The json engine keeps its widths.
LEMMA PutType ==
  ASSUME NEW s \in JState, NEW src \in {"b", "hl"}, NEW y \in B8
  PROVE  Put(s, src, y) \in JState
<1>1. s.f \in AllFlags
  BY DEF JState
<1>2. PICK z, n, h, c \in {0, 1} : s.f = StoreFlags(z, n, h, c)
  BY <1>1, FlagsOf
<1>3. Like(s, s, s.v, z, n, h, c)
  BY <1>2 DEF Like, Keeps
<1> QED BY <1>3, PutJson

\* Both engines change the same location.
LEMMA PutKeeps ==
  ASSUME NEW j \in JState, NEW l \in LState, Keeps(j, l, {}), NEW src \in {"b", "hl"}, NEW x \in B8
  PROVE  Keeps(Put(j, src, x), Put(l, src, x), {})
<1>1. j.at = l.at /\ j.m = l.m /\ j.latch = l.latch
  BY DEF Keeps, Shared, Common
<1> DEFINE rb == ReadBack(l.at, l.m, x)
           lt == IF l.at < 32768 THEN x ELSE l.latch
<1>2. rb \in B8 /\ lt \in B8
  BY ReadBackType DEF LState
<1>3. Fits("b", x) /\ Fits("m", rb) /\ Fits("latch", lt)
  BY <1>2 DEF Fits
<1> HIDE DEF rb, lt
<1>4. CASE src = "b"
  <2>1. Keeps(Set(j, "b", x), Set(l, "b", x), {})
    BY <1>3, SetKeeps
  <2>2. Put(j, src, x) = Set(j, "b", x) /\ Put(l, src, x) = Set(l, "b", x)
    BY <1>4, PutSet
  <2> QED BY <2>1, <2>2, Zenon
<1>5. CASE src = "hl"
  <2> DEFINE q == Set(j, "m", rb)
             p == Set(l, "m", rb)
  <2>1. Keeps(q, p, {}) /\ q \in JState /\ p \in LState
    BY <1>3, SetKeeps, SetJson, SetLegacy
  <2>2. Put(j, src, x) = Set(q, "latch", lt) /\ Put(l, src, x) = Set(p, "latch", lt)
    BY <1>1, <1>5, PutSet DEF rb, lt
  <2> HIDE DEF q, p
  <2>3. Keeps(Set(q, "latch", lt), Set(p, "latch", lt), {})
    BY <1>3, <2>1, SetKeeps
  <2> QED BY <2>2, <2>3, Zenon
<1> QED BY <1>4, <1>5

\* The last step of most lists.
LEMMA LikeBack ==
  ASSUME NEW r, NEW s, NEW x, NEW z, NEW n, NEW h, NEW c, Like(r, s, x, z, n, h, c), s \in JState,
         NEW src \in {"b", "hl"}
  PROVE  Like(EmitNext(r, Back(src), FALSE), Put(s, src, x), x, z, n, h, c) /\ Put(s, src, x) \in JState
<1>1. r \in JState /\ r.v = x /\ x \in B8
  BY DEF Like, JState
<1>2. EmitNext(r, Back(src), FALSE) = Put(r, src, x)
  <2>1. CASE src = "hl"
    <3>1. EmitNext(r, Back(src), FALSE) = StoreByte(r, FALSE)
      <4>1. Back(src) = <<"store_byte", 0>>
        BY <2>1 DEF Back
      <4>2. Emit(r, <<"store_byte", 0>>, FALSE) = StoreByte(r, FALSE)
        BY EmitMoves, Zenon
      <4> QED BY <4>1, <4>2, <1>1, EmitsAll, Zenon
    <3> DEFINE w == WriteByte(r, x)
    <3>2. Put(r, src, x) = w
      BY <2>1 DEF Put
    <3>3. w \in JState
      <4>1. Put(r, src, x) \in JState
        BY <1>1, PutType
      <4> QED BY <3>2, <4>1
    <3>4. StoreByte(r, FALSE) = [w EXCEPT !.left = FALSE]
      BY <1>1 DEF StoreByte
    <3> HIDE DEF w
    <3>5. [w EXCEPT !.left = FALSE] = w
      <4>1. w.left = FALSE /\ w = [y \in DOMAIN w |-> w[y]]
        BY <3>3 DEF JState
      <4> QED BY <4>1
    <3> QED BY <3>1, <3>2, <3>4, <3>5
  <2>2. CASE src = "b"
    <3>1. EmitNext(r, Back(src), FALSE) = WriteR8(r, "b")
      BY <1>1, <2>2, EmitsAll, EmitMoves DEF Back
    <3> QED BY <1>1, <2>2, <3>1 DEF WriteR8, Put
  <2> QED BY <2>1, <2>2
<1>3. Like(Put(r, src, x), Put(s, src, x), x, z, n, h, c) /\ Put(s, src, x) \in JState
  BY <1>1, PutJson
<1> QED BY <1>2, <1>3, Zenon

\* Num is a bit.
LEMMA NumType == ASSUME NEW p PROVE Num(p) \in {0, 1}
  BY DEF Num

\* Four flags.
AreFlags(z, n, h, c) == z \in {0, 1} /\ n \in {0, 1} /\ h \in {0, 1} /\ c \in {0, 1}

\* LegacyCpu may write its flags before or after a register.
LEMMA FlagsSet ==
  ASSUME NEW l \in LState, NEW reg, NEW x, Fits(reg, x), NEW z, NEW n, NEW h, NEW c
  PROVE  Set(WithFlags(l, z, n, h, c), reg, x) = WithFlags(Set(l, reg, x), z, n, h, c)
  BY DEF Set, WithFlags, LState, Fits

\* Emitters that compute all of F.
Flagged(s, f) == [s EXCEPT !.f = f]
\* A micro-operation that writes the whole of F.
LEMMA LikeFlags ==
  ASSUME NEW r, NEW s, NEW x, NEW z, NEW n, NEW h, NEW c, Like(r, s, x, z, n, h, c),
         NEW z1, NEW n1, NEW h1, NEW c1, AreFlags(z1, n1, h1, c1)
  PROVE  Like(Flagged(r, StoreFlags(z1, n1, h1, c1)), s, x, z1, n1, h1, c1)
<1> DEFINE f == StoreFlags(z1, n1, h1, c1)
           t == Flagged(r, f)
<1>1. r \in JState /\ r.v = x /\ f \in AllFlags
  BY FlagBits DEF Like, AreFlags
<1> HIDE DEF f
<1>2. t \in JState /\ t.v = x /\ t.f = f
  BY <1>1 DEF Flagged, JState
<1>3. Keeps(t, r, {})
  BY <1>1 DEF Flagged, JState, Keeps, Shared, Common
<1>4. Keeps(t, s, {})
  BY <1>3 DEF Keeps, Like
<1> QED BY <1>2, <1>4 DEF Like, f, AreFlags

\* A result in A with its flags.
LEMMA AluMatch ==
  ASSUME NEW r, NEW s, NEW x, NEW z, NEW n, NEW h, NEW c, Like(r, s, x, z, n, h, c), s \in JState,
         NEW l \in LState, Keeps(s, l, {}), NEW y \in B8,
         NEW z1, NEW n1, NEW h1, NEW c1, AreFlags(z1, n1, h1, c1)
  PROVE  Match(Flagged(Set(r, "a", y), StoreFlags(z1, n1, h1, c1)), WithFlags(Set(l, "a", y), z1, n1, h1, c1))
<1>1. Fits("a", y)
  BY DEF Fits
<1>2. Like(Set(r, "a", y), Set(s, "a", y), x, z, n, h, c)
  BY <1>1, LikeSet
<1>3. Like(Flagged(Set(r, "a", y), StoreFlags(z1, n1, h1, c1)), Set(s, "a", y), x, z1, n1, h1, c1)
  BY <1>2, LikeFlags
<1>4. Set(l, "a", y) \in LState /\ Keeps(Set(s, "a", y), Set(l, "a", y), {})
  BY <1>1, SetLegacy, SetKeeps
<1> QED BY <1>3, <1>4, LikeMatch

\* Alu8 writes A and F,
Computed(r, y, f) == [r EXCEPT !.a = y, !.f = f]
\* one after the other.
LEMMA AluWrites ==
  ASSUME NEW r \in JState, NEW y, NEW f
  PROVE  Computed(r, y, f) = Flagged(Set(r, "a", y), f)
  BY DEF Flagged, Set, JState, Computed

\* and so does LegacyCpu.
LEMMA WithASet ==
  ASSUME NEW l \in LState, NEW y \in B8, NEW n, NEW h, NEW c
  PROVE  WithA(l, y, n, h, c) = WithFlags(Set(l, "a", y), Num(y = 0), n, h, c)
<1>1. Fits("a", y)
  BY DEF Fits
<1>2. Set(WithFlags(l, Num(y = 0), n, h, c), "a", y) = WithFlags(Set(l, "a", y), Num(y = 0), n, h, c)
  BY <1>1, FlagsSet
<1> DEFINE w == WithFlags(l, Num(y = 0), n, h, c)
<1>3. WithA(l, y, n, h, c) = [w EXCEPT !.a = y]
  BY DEF WithA
<1> HIDE DEF w
<1>4. [w EXCEPT !.a = y] = Set(w, "a", y)
  BY DEF Set
<1> QED BY <1>2, <1>3, <1>4 DEF w

\* What the ALU finds: the same A, operand and carry as LegacyCpu.
AluInput(r, s, l, y) ==
  /\ \E z, n, h, c : Like(r, s, y, z, n, h, c) /\ c = l.fc
  /\ s \in JState /\ l \in LState /\ Keeps(s, l, {})

\* The operands of the ALU, with their widths.
LEMMA AluInputs ==
  ASSUME NEW r, NEW s, NEW l, NEW y, AluInput(r, s, l, y)
  PROVE  /\ r \in JState /\ l \in LState /\ y \in B8 /\ l.a \in B8 /\ l.fc \in {0, 1}
         /\ r.a = l.a /\ Bit(r.f, C) = l.fc
<1>1. PICK z, n, h, c : Like(r, s, y, z, n, h, c) /\ c = l.fc
  BY DEF AluInput
<1>2. r \in JState /\ l \in LState /\ y \in B8 /\ l.a \in B8 /\ l.fc \in {0, 1}
  BY <1>1 DEF Like, JState, LState, AluInput
<1>3. r.a = s.a /\ s.a = l.a
  BY <1>1 DEF Like, AluInput, Keeps, Shared, Common
<1>4. Bit(r.f, C) = l.fc
  BY <1>1, FlagBits DEF Like
<1> QED BY <1>2, <1>3, <1>4

\* A result and flags written by both engines.
LEMMA AluOutput ==
  ASSUME NEW r, NEW s, NEW l, NEW y, AluInput(r, s, l, y), NEW w \in B8,
         NEW z1, NEW n1, NEW h1, NEW c1, AreFlags(z1, n1, h1, c1)
  PROVE  Match(Flagged(Set(r, "a", w), StoreFlags(z1, n1, h1, c1)), WithFlags(Set(l, "a", w), z1, n1, h1, c1))
<1>1. PICK z, n, h, c : Like(r, s, y, z, n, h, c) /\ c = l.fc
  BY DEF AluInput
<1>2. s \in JState /\ l \in LState /\ Keeps(s, l, {})
  BY DEF AluInput
<1> QED BY <1>1, <1>2, AluMatch

\* Addition, with or without the carry.
LEMMA AddMatch ==
  ASSUME NEW r, NEW s, NEW l, NEW y, AluInput(r, s, l, y), NEW op \in AddOps
  PROVE  Match(Alu8(r, op, y), LegacyAlu(l, op, y))
<1> DEFINE a == l.a
           k == IF op \in {"adc", "sbc"} THEN Bit(r.f, C) ELSE 0
           sum == Byte(a + y + k)
           half == Num(Nibble(a) + Nibble(y) + k > 15)
           carry == Num(a + y + k > 255)
<1>1. r \in JState /\ l \in LState /\ y \in B8 /\ a \in B8 /\ r.a = a /\ k \in {0, 1}
  BY AluInputs
<1>2. op = "add" => k = 0
  OBVIOUS
<1>3. op = "adc" => k = l.fc
  BY AluInputs
<1>4. /\ op = "add" \/ op = "adc"
      /\ op \in AddOps /\ op \notin SubOps /\ op # "cp" /\ op # "and" /\ op # "xor" /\ op # "or"
  BY DEF AddOps, SubOps
<1>5. Num(op \in SubOps) = 0
  BY <1>4 DEF Num
<1>6. Alu8(r, op, y) = Computed(r, sum, StoreFlags(Num(sum = 0), 0, half, carry))
  BY <1>1, <1>4, <1>5, ZenonT(40) DEF Alu8, Computed
<1> HIDE DEF a, k
<1>7. sum \in B8
  BY <1>1 DEF B8, Byte
<1>8. Alu8(r, op, y) = Flagged(Set(r, "a", sum), StoreFlags(Num(sum = 0), 0, half, carry))
  <2> DEFINE f == StoreFlags(Num(sum = 0), 0, half, carry)
  <2>1. Alu8(r, op, y) = Computed(r, sum, f)
    BY <1>6
  <2> HIDE DEF sum, f
  <2>2. Computed(r, sum, f) = Flagged(Set(r, "a", sum), f)
    BY <1>1, AluWrites
  <2>3. Alu8(r, op, y) = Flagged(Set(r, "a", sum), f)
    BY <2>1, <2>2
  <2> QED BY <2>3 DEF f
<1>9. LegacyAlu(l, op, y) = WithA(l, sum, 0, half, carry)
  <2>1. CASE op = "add"
    <3>1. sum = Byte(a + y) /\ half = Num(Nibble(a) + Nibble(y) > 15) /\ carry = Num(a + y > 255)
      BY <1>1, <1>2, <2>1 DEF B8, Nibble
    <3> QED BY <2>1, <3>1 DEF LegacyAlu, LegacyAdd, a
  <2>2. CASE op = "adc"
    <3>1. sum = Byte(a + Byte(k + y))
      BY <1>1 DEF B8, Byte
    <3> QED BY <1>3, <2>2, <3>1 DEF LegacyAlu, LegacyAdc, a
  <2> QED BY <1>4, <2>1, <2>2
<1>10. AreFlags(Num(sum = 0), 0, half, carry)
  BY NumType DEF AreFlags
<1> HIDE DEF sum, half, carry
<1>11. LegacyAlu(l, op, y) = WithFlags(Set(l, "a", sum), Num(sum = 0), 0, half, carry)
  BY <1>1, <1>7, <1>9, WithASet
<1> QED BY <1>7, <1>8, <1>10, <1>11, AluOutput

\* Subtraction, with or without the borrow.
LEMMA SubMatch ==
  ASSUME NEW r, NEW s, NEW l, NEW y, AluInput(r, s, l, y), NEW op \in {"sub", "sbc"}
  PROVE  Match(Alu8(r, op, y), LegacyAlu(l, op, y))
<1> DEFINE a == l.a
           k == IF op \in {"adc", "sbc"} THEN Bit(r.f, C) ELSE 0
           diff == Byte(a - (y + k))
           half == Num(Nibble(a) < Nibble(y) + k)
           borrow == Num(a < y + k)
<1>1. r \in JState /\ l \in LState /\ y \in B8 /\ a \in B8 /\ r.a = a /\ k \in {0, 1}
  BY AluInputs
<1>2. op = "sub" => k = 0
  OBVIOUS
<1>3. op = "sbc" => k = l.fc
  BY AluInputs
<1>4. op \in SubOps /\ op \notin AddOps /\ op # "cp" /\ op # "and" /\ op # "xor" /\ op # "or"
  BY DEF AddOps, SubOps
<1>5. Num(op \in SubOps) = 1
  BY <1>4 DEF Num
<1>6. Alu8(r, op, y) = Computed(r, diff, StoreFlags(Num(diff = 0), 1, half, borrow))
  BY <1>1, <1>4, <1>5, ZenonT(40) DEF Alu8, Computed
<1> HIDE DEF a, k
<1>7. diff \in B8
  BY <1>1 DEF B8, Byte
<1>8. Alu8(r, op, y) = Flagged(Set(r, "a", diff), StoreFlags(Num(diff = 0), 1, half, borrow))
  <2> DEFINE f == StoreFlags(Num(diff = 0), 1, half, borrow)
  <2>1. Alu8(r, op, y) = Computed(r, diff, f)
    BY <1>6
  <2> HIDE DEF diff, f
  <2>2. Computed(r, diff, f) = Flagged(Set(r, "a", diff), f)
    BY <1>1, AluWrites
  <2>3. Alu8(r, op, y) = Flagged(Set(r, "a", diff), f)
    BY <2>1, <2>2
  <2> QED BY <2>3 DEF f
<1>9. LegacyAlu(l, op, y) = WithA(l, diff, 1, half, borrow)
  <2>1. CASE op = "sub"
    <3>1. diff = Byte(a - y) /\ half = Num(Nibble(a) < Nibble(y)) /\ borrow = Num(a < y)
      BY <1>1, <1>2, <2>1 DEF B8, Nibble
    <3> QED BY <2>1, <3>1 DEF LegacyAlu, LegacySub, a
  <2>2. CASE op = "sbc"
    <3>1. diff = Byte(a - y - k)
      BY <1>1 DEF B8
    <3> QED BY <1>3, <2>2, <3>1 DEF LegacyAlu, LegacySbc, a
  <2> QED BY <2>1, <2>2
<1>10. AreFlags(Num(diff = 0), 1, half, borrow)
  BY NumType DEF AreFlags
<1> HIDE DEF diff, half, borrow
<1>11. LegacyAlu(l, op, y) = WithFlags(Set(l, "a", diff), Num(diff = 0), 1, half, borrow)
  BY <1>1, <1>7, <1>9, WithASet
<1> QED BY <1>7, <1>8, <1>10, <1>11, AluOutput

\* The flags of a comparison.
LEMMA FlagsMatch ==
  ASSUME NEW r, NEW s, NEW l, NEW y, AluInput(r, s, l, y),
         NEW z1, NEW n1, NEW h1, NEW c1, AreFlags(z1, n1, h1, c1)
  PROVE  Match(Flagged(r, StoreFlags(z1, n1, h1, c1)), WithFlags(l, z1, n1, h1, c1))
<1>1. PICK z, n, h, c : Like(r, s, y, z, n, h, c) /\ c = l.fc
  BY DEF AluInput
<1>2. s \in JState /\ l \in LState /\ Keeps(s, l, {})
  BY DEF AluInput
<1>3. Like(Flagged(r, StoreFlags(z1, n1, h1, c1)), s, y, z1, n1, h1, c1)
  BY <1>1, LikeFlags
<1> QED BY <1>2, <1>3, LikeMatch

\* Comparison.
LEMMA CpMatch ==
  ASSUME NEW r, NEW s, NEW l, NEW y, AluInput(r, s, l, y)
  PROVE  Match(Alu8(r, "cp", y), LegacyAlu(l, "cp", y))
<1> DEFINE a == l.a
           z == Num(Byte(a - (y + 0)) = 0)
           half == Num(Nibble(a) < Nibble(y) + 0)
           borrow == Num(a < y + 0)
<1>1. r \in JState /\ l \in LState /\ y \in B8 /\ a \in B8 /\ r.a = a
  BY AluInputs
<1>2. "cp" \in SubOps /\ "cp" \notin AddOps /\ "cp" \notin {"adc", "sbc"}
  BY DEF AddOps, SubOps
<1>3. Num("cp" \in SubOps) = 1
  BY <1>2 DEF Num
<1>4. Alu8(r, "cp", y) = Computed(r, r.a, StoreFlags(z, 1, half, borrow))
  BY <1>1, <1>2, <1>3, Zenon DEF Alu8, Computed
<1> HIDE DEF a
<1>5. z = Num(a = y) /\ half = Num(Nibble(a) < Nibble(y)) /\ borrow = Num(a < y)
  <2>1. (a - y) % 256 = 0 <=> a = y
    <3> DEFINE d == a - y
    <3>1. d \in -255 .. 255 /\ (d = 0 <=> a = y)
      BY <1>1 DEF B8
    <3> HIDE DEF d
    <3>2. d >= 0 => d % 256 = d
      BY <3>1
    <3>3. d < 0 => d % 256 = d + 256
      BY <3>1
    <3>4. d % 256 = 0 <=> d = 0
      BY <3>1, <3>2, <3>3
    <3> QED BY <3>1, <3>4 DEF d
  <2>2. a - (y + 0) = a - y /\ Nibble(y) + 0 = Nibble(y) /\ y + 0 = y
    BY <1>1 DEF B8, Nibble
  <2> QED BY <2>1, <2>2 DEF Num, Byte
<1>6. LegacyAlu(l, "cp", y) = WithFlags(l, z, 1, half, borrow)
  BY <1>5 DEF LegacyAlu, LegacyCp, a
<1>7. AreFlags(z, 1, half, borrow)
  BY NumType DEF AreFlags
<1> DEFINE f == StoreFlags(z, 1, half, borrow)
<1>8. Alu8(r, "cp", y) = Computed(r, r.a, f)
  BY <1>4
<1>9. Match(Flagged(r, f), WithFlags(l, z, 1, half, borrow))
  <2> HIDE DEF z, half, borrow
  <2> QED BY <1>7, FlagsMatch
<1> HIDE DEF f
<1>10. Computed(r, r.a, f) = Flagged(r, f)
  BY <1>1 DEF Computed, Flagged, JState
<1>11. Alu8(r, "cp", y) = Flagged(r, f)
  BY <1>8, <1>10
<1> QED BY <1>6, <1>9, <1>11

\* Bitwise operations: the result is a byte as it stands.
LEMMA LogicMatch ==
  ASSUME NEW r, NEW s, NEW l, NEW y, AluInput(r, s, l, y), NEW op \in {"and", "xor", "or"}
  PROVE  Match(Alu8(r, op, y), LegacyAlu(l, op, y))
<1> DEFINE a == l.a
           w == CASE op = "and" -> And(a, y) [] op = "xor" -> Xor(a, y) [] op = "or" -> Or(a, y)
           half == Num(op = "and")
<1>1. r \in JState /\ l \in LState /\ y \in B8 /\ a \in B8 /\ r.a = a
  BY AluInputs
<1>2. op \notin SubOps /\ op \notin AddOps /\ op \notin {"adc", "sbc"} /\ op # "cp"
  BY DEF AddOps, SubOps
<1>3. Num(op \in SubOps) = 0 /\ Num(FALSE) = 0
  BY <1>2 DEF Num
<1>4. Alu8(r, op, y) = Computed(r, Byte(w), StoreFlags(Num(Byte(w) = 0), 0, half, 0))
  BY <1>1, <1>2, <1>3, Zenon DEF Alu8, Computed
<1> HIDE DEF a
<1>5. w \in B8
  BY <1>1, AndByte, OrByte, XorByte
<1>6. LegacyAlu(l, op, y) = WithA(l, w, 0, half, 0)
  <2>1. CASE op = "and"
    BY <2>1 DEF LegacyAlu, LegacyAnd, a, Num
  <2>2. CASE op = "xor"
    BY <2>2 DEF LegacyAlu, LegacyXor, a, Num
  <2>3. CASE op = "or"
    BY <2>3 DEF LegacyAlu, LegacyOr, a, Num
  <2> QED BY <2>1, <2>2, <2>3
<1> HIDE DEF w
<1>7. Byte(w) = w
  BY <1>5 DEF B8, Byte
<1>8. AreFlags(Num(w = 0), 0, half, 0)
  BY NumType DEF AreFlags
<1> DEFINE f == StoreFlags(Num(w = 0), 0, half, 0)
<1>9. Alu8(r, op, y) = Computed(r, w, f)
  BY <1>4, <1>7
<1>10. Match(Flagged(Set(r, "a", w), f), WithFlags(Set(l, "a", w), Num(w = 0), 0, half, 0))
  <2> HIDE DEF half
  <2> QED BY <1>5, <1>8, AluOutput
<1>11. LegacyAlu(l, op, y) = WithFlags(Set(l, "a", w), Num(w = 0), 0, half, 0)
  BY <1>1, <1>5, <1>6, WithASet
<1> HIDE DEF f, half
<1>12. Alu8(r, op, y) = Flagged(Set(r, "a", w), f)
  BY <1>1, <1>9, AluWrites
<1> QED BY <1>10, <1>11, <1>12

\* The whole ALU.
LEMMA Alu8Match ==
  ASSUME NEW r, NEW s, NEW l, NEW y, AluInput(r, s, l, y), NEW op \in AluOps
  PROVE  Match(Alu8(r, op, y), LegacyAlu(l, op, y))
<1>1. op \in AddOps \/ op \in {"sub", "sbc"} \/ op = "cp" \/ op \in {"and", "xor", "or"}
  BY DEF AluOps, SubOps
<1> QED BY <1>1, AddMatch, SubMatch, CpMatch, LogicMatch

-----------------------------------------------------------------------------
(* The kinds of instructions. *)

WideOps == {"inc16", "dec16", "add_hl", "add_sp", "ldhl", "ld_sp_hl"}
JumpOps == {"jp", "jr", "call", "ret", "jp_hl", "reti", "rst"}

\* The operation tells the kind of an instruction.
LEMMA Kinds ==
  ASSUME NEW i \in Instructions
  PROVE  /\ i \in Arithmetic <=> i.op \in AluOps
         /\ i \in Wide <=> i.op \in WideOps
         /\ i \in Stack <=> i.op \in {"push", "pop"}
         /\ i \in Jumps <=> i.op \in JumpOps
         /\ i \in Decimal <=> i.op = "daa"
         /\ i \in OnA <=> i.op \in {"rlca", "rrca", "rla", "rra", "cpl", "scf", "ccf"}
<1>1. i \in Arithmetic => i.op \in AluOps
  BY DEF Arithmetic, I
<1>2. i \in ReadModifyWrite => i.op \in {"inc", "dec", "set", "res"} \cup ShiftOps
  BY DEF ReadModifyWrite, I
<1>3. i \in Loads => i.op \in {"bit", "ld_from", "ld_to", "ld_imm", "ldi_to", "ldd_to", "ldi_from", "ldd_from"}
  BY DEF Loads, I
<1>4. i \in OnA => i.op \in {"rlca", "rrca", "rla", "rra", "cpl", "scf", "ccf"}
  BY DEF OnA, I
<1>5. i \in Decimal => i.op = "daa"
  BY DEF Decimal, I
<1>6. i \in Wide => i.op \in WideOps
  BY DEF Wide, I, WideOps
<1>7. i \in Stack => i.op \in {"push", "pop"}
  BY DEF Stack, I
<1>8. i \in Jumps => i.op \in JumpOps
  BY DEF Jumps, I, JumpOps
<1> QED BY <1>1, <1>2, <1>3, <1>4, <1>5, <1>6, <1>7, <1>8
        DEF Instructions, AluOps, AddOps, SubOps, ShiftOps, WideOps, JumpOps

\* The operands each operation has.
LEMMA Operands ==
  ASSUME NEW i \in Instructions
  PROVE  /\ i.op \in AluOps => i.src \in {"a", "b", "hl", "n"}
         /\ i.op \in {"inc", "dec", "set", "res", "bit"} \cup ShiftOps => i.src \in {"b", "hl"}
         /\ i.op \in {"set", "res", "bit"} => i.k \in 0..7
         /\ i.op = "ld_from" => i.src \in {"b", "hl", "n"}
         /\ i.op \in {"ld_to", "ld_imm"} => i.src \in {"b", "hl"}
         /\ i.op \in {"ldi_to", "ldd_to", "ldi_from", "ldd_from"} => i.src = "hl"
         /\ i.op \in {"inc16", "dec16", "add_hl"} => i.src \in {"hl", "sp"}
         /\ i.op \in {"push", "pop"} => i.src \in {"af", "hl"}
         /\ i.op \in JumpOps => i.cc \in Conditions
         /\ i.op \in {"jp_hl", "reti", "rst"} => i.cc = "always"
         /\ i.op = "rst" => i.k \in 0..56
<1>1. i \in Arithmetic => i.op \in AluOps /\ i.src \in {"a", "b", "hl", "n"}
  BY DEF Arithmetic, I
<1>2. i \in ReadModifyWrite => i.op \in {"inc", "dec", "set", "res"} \cup ShiftOps /\ i.src \in {"b", "hl"} /\
        i.k \in 0..7
  BY DEF ReadModifyWrite, I
<1>3. i \in Loads => \/ i.op = "bit" /\ i.src \in {"b", "hl"} /\ i.k \in 0..7
                     \/ i.op = "ld_from" /\ i.src \in {"b", "hl", "n"}
                     \/ i.op \in {"ld_to", "ld_imm"} /\ i.src \in {"b", "hl"}
                     \/ i.op \in {"ldi_to", "ldd_to", "ldi_from", "ldd_from"} /\ i.src = "hl"
  BY DEF Loads, I
<1>4. i \in OnA => i.op \in {"rlca", "rrca", "rla", "rra", "cpl", "scf", "ccf"}
  BY DEF OnA, I
<1>5. i \in Decimal => i.op = "daa"
  BY DEF Decimal, I
<1>6. i \in Wide => \/ i.op \in {"inc16", "dec16", "add_hl"} /\ i.src \in {"hl", "sp"}
                    \/ i.op \in {"add_sp", "ldhl", "ld_sp_hl"}
  BY DEF Wide, I
<1>7. i \in Stack => i.op \in {"push", "pop"} /\ i.src \in {"af", "hl"}
  BY DEF Stack, I
<1>8. i \in Jumps => \/ i.op \in {"jp", "jr", "call", "ret"} /\ i.cc \in Conditions
                     \/ i.op \in {"jp_hl", "reti"} /\ i.cc = "always"
                     \/ i.op = "rst" /\ i.cc = "always" /\ i.k \in 0..56
  BY DEF Jumps, I
<1>9. "always" \in Conditions
  BY DEF Conditions
<1> QED BY <1>1, <1>2, <1>3, <1>4, <1>5, <1>6, <1>7, <1>8, <1>9
        DEF Instructions, AluOps, AddOps, SubOps, ShiftOps, JumpOps

\* An instruction takes one to three bytes.
LEMMA LengthType ==
  ASSUME NEW i
  PROVE  Length(i) \in 1..3
  BY DEF Length

\* A sum reduced to a word.
LEMMA WordSum ==
  ASSUME NEW x \in B16, NEW d \in Int
  PROVE  Word(x + d) \in B16
<1>1. x + d \in Int
  BY DEF B16
<1> QED BY <1>1, Reduced

\* The program counter is moved past the instruction first.
Past(l, i) == [l EXCEPT !.pc = Word(@ + Length(i))]

\* The engines are alike when the list begins.
LEMMA BeginMatch ==
  ASSUME NEW j, NEW l, NEW i, Match(j, l)
  PROVE  Match(Begin(j, i), Past(l, i)) /\ Begin(j, i) \in JState /\ Past(l, i) \in LState
<1>1. j \in JState /\ l \in LState /\ Keeps(j, l, {}) /\ j.f = StoreFlags(l.fz, l.fn, l.fh, l.fc)
  BY DEF Match
<1> DEFINE p == Word(l.pc + Length(i))
           r == Begin(j, i)
           t == Past(l, i)
<1>2. p \in B16
  <2>1. l.pc \in B16
    BY <1>1 DEF LState
  <2>2. Length(i) \in Int
    BY LengthType
  <2> QED BY <2>1, <2>2, WordSum
<1>3. j.pc = l.pc
  BY <1>1 DEF Keeps, Shared, Common
<1>4. t = Set(l, "pc", p)
  BY DEF Past, Set
<1>5. r = Valued(Set(j, "pc", p), 0)
  BY <1>1, <1>3 DEF Begin, Valued, Set, JState
<1> HIDE DEF p, r, t
<1>6. Fits("pc", p)
  BY <1>2 DEF Fits
<1>7. Like(j, j, j.v, l.fz, l.fn, l.fh, l.fc)
  BY MatchLike
<1>8. Like(Set(j, "pc", p), Set(j, "pc", p), j.v, l.fz, l.fn, l.fh, l.fc)
  BY <1>1, <1>6, <1>7, LikeSet
<1>9. Like(r, Set(j, "pc", p), 0, l.fz, l.fn, l.fh, l.fc)
  BY <1>5, <1>8, LikeValue, 0 \in B8 DEF B8
<1>10. t \in LState /\ Keeps(Set(j, "pc", p), t, {}) /\ t.fz = l.fz /\ t.fn = l.fn /\ t.fh = l.fh /\ t.fc = l.fc
  BY <1>1, <1>4, <1>6, SetLegacy, SetKeeps
<1>11. r \in JState /\ Keeps(r, t, {}) /\ r.f = StoreFlags(t.fz, t.fn, t.fh, t.fc)
  BY <1>9, <1>10 DEF Like, Keeps
<1>12. Match(r, t)
  BY <1>10, <1>11 DEF Match
<1> QED BY <1>10, <1>11, <1>12 DEF r, t

\* The list of each kind of instruction.
LEMMA StepsOf ==
  ASSUME NEW i \in Instructions
  PROVE  /\ i.op \in AluOps => Steps(i) = <<Fetch(i.src), <<"alu", i.op>>>>
         /\ i.op \in {"inc", "dec"} => Steps(i) = IncDecSteps(i)
         /\ i.op \in ShiftOps => Steps(i) = ShiftSteps(i)
         /\ i.op = "bit" => Steps(i) = BitSteps(i)
         /\ i.op = "set" => Steps(i) = SetSteps(i)
         /\ i.op = "res" => Steps(i) = ResSteps(i)
         /\ i.op \in {"rlca", "rrca", "rla", "rra"} => Steps(i) = RotateASteps(i)
         /\ i.op \in {"cpl", "scf", "ccf"} => Steps(i) = FlagSteps(i)
         /\ i.op = "daa" => Steps(i) = <<<<"daa", 0>>>>
         /\ i.op \in {"ld_from", "ld_to", "ld_imm"} => Steps(i) = LoadSteps(i)
         /\ i.op \in {"ldi_to", "ldd_to", "ldi_from", "ldd_from"} => Steps(i) = IndirectSteps(i)
         /\ i.op \in WideOps => Steps(i) = WideSteps(i)
         /\ i.op \in {"push", "pop"} => Steps(i) = StackSteps(i)
         /\ i.op \in JumpOps => Steps(i) = JumpSteps(i)
<1>1. ASSUME i.op \in AluOps PROVE Steps(i) = <<Fetch(i.src), <<"alu", i.op>>>>
  <2>1. /\ i \in Arithmetic
        /\ ~(i.op \in {"inc", "dec"})
        /\ ~(i.op \in ShiftOps)
        /\ ~(i.op = "bit")
        /\ ~(i.op = "set")
        /\ ~(i.op = "res")
        /\ ~(i.op \in {"rlca", "rrca", "rla", "rra"})
        /\ ~(i.op \in {"cpl", "scf", "ccf"})
        /\ ~(i.op = "daa")
        /\ ~(i.op \in {"ld_from", "ld_to", "ld_imm"})
        /\ ~(i.src = "hl" /\ i.op \in {"ldi_to", "ldd_to", "ldi_from", "ldd_from"})
        /\ ~(i \in Wide)
        /\ ~(i \in Stack)
        /\ ~(i \in Jumps)
    BY <1>1, Kinds, Operands DEF AluOps, AddOps, SubOps, ShiftOps, WideOps, JumpOps
  <2> QED BY <2>1, Zenon DEF Steps
<1>2. ASSUME i.op \in {"inc", "dec"} PROVE Steps(i) = IncDecSteps(i)
  <2>1. /\ i.op \in {"inc", "dec"}
        /\ ~(i \in Arithmetic)
        /\ ~(i.op \in ShiftOps)
        /\ ~(i.op = "bit")
        /\ ~(i.op = "set")
        /\ ~(i.op = "res")
        /\ ~(i.op \in {"rlca", "rrca", "rla", "rra"})
        /\ ~(i.op \in {"cpl", "scf", "ccf"})
        /\ ~(i.op = "daa")
        /\ ~(i.op \in {"ld_from", "ld_to", "ld_imm"})
        /\ ~(i.src = "hl" /\ i.op \in {"ldi_to", "ldd_to", "ldi_from", "ldd_from"})
        /\ ~(i \in Wide)
        /\ ~(i \in Stack)
        /\ ~(i \in Jumps)
    BY <1>2, Kinds, Operands DEF AluOps, AddOps, SubOps, ShiftOps, WideOps, JumpOps
  <2> QED BY <2>1, Zenon DEF Steps
<1>3. ASSUME i.op \in ShiftOps PROVE Steps(i) = ShiftSteps(i)
  <2>1. /\ i.op \in ShiftOps
        /\ ~(i \in Arithmetic)
        /\ ~(i.op \in {"inc", "dec"})
        /\ ~(i.op = "bit")
        /\ ~(i.op = "set")
        /\ ~(i.op = "res")
        /\ ~(i.op \in {"rlca", "rrca", "rla", "rra"})
        /\ ~(i.op \in {"cpl", "scf", "ccf"})
        /\ ~(i.op = "daa")
        /\ ~(i.op \in {"ld_from", "ld_to", "ld_imm"})
        /\ ~(i.src = "hl" /\ i.op \in {"ldi_to", "ldd_to", "ldi_from", "ldd_from"})
        /\ ~(i \in Wide)
        /\ ~(i \in Stack)
        /\ ~(i \in Jumps)
    BY <1>3, Kinds, Operands DEF AluOps, AddOps, SubOps, ShiftOps, WideOps, JumpOps
  <2> QED BY <2>1, Zenon DEF Steps
<1>4. ASSUME i.op = "bit" PROVE Steps(i) = BitSteps(i)
  <2>1. /\ i.op = "bit"
        /\ ~(i \in Arithmetic)
        /\ ~(i.op \in {"inc", "dec"})
        /\ ~(i.op \in ShiftOps)
        /\ ~(i.op = "set")
        /\ ~(i.op = "res")
        /\ ~(i.op \in {"rlca", "rrca", "rla", "rra"})
        /\ ~(i.op \in {"cpl", "scf", "ccf"})
        /\ ~(i.op = "daa")
        /\ ~(i.op \in {"ld_from", "ld_to", "ld_imm"})
        /\ ~(i.src = "hl" /\ i.op \in {"ldi_to", "ldd_to", "ldi_from", "ldd_from"})
        /\ ~(i \in Wide)
        /\ ~(i \in Stack)
        /\ ~(i \in Jumps)
    BY <1>4, Kinds, Operands DEF AluOps, AddOps, SubOps, ShiftOps, WideOps, JumpOps
  <2> QED BY <2>1, Zenon DEF Steps
<1>5. ASSUME i.op = "set" PROVE Steps(i) = SetSteps(i)
  <2>1. /\ i.op = "set"
        /\ ~(i \in Arithmetic)
        /\ ~(i.op \in {"inc", "dec"})
        /\ ~(i.op \in ShiftOps)
        /\ ~(i.op = "bit")
        /\ ~(i.op = "res")
        /\ ~(i.op \in {"rlca", "rrca", "rla", "rra"})
        /\ ~(i.op \in {"cpl", "scf", "ccf"})
        /\ ~(i.op = "daa")
        /\ ~(i.op \in {"ld_from", "ld_to", "ld_imm"})
        /\ ~(i.src = "hl" /\ i.op \in {"ldi_to", "ldd_to", "ldi_from", "ldd_from"})
        /\ ~(i \in Wide)
        /\ ~(i \in Stack)
        /\ ~(i \in Jumps)
    BY <1>5, Kinds, Operands DEF AluOps, AddOps, SubOps, ShiftOps, WideOps, JumpOps
  <2> QED BY <2>1, Zenon DEF Steps
<1>6. ASSUME i.op = "res" PROVE Steps(i) = ResSteps(i)
  <2>1. /\ i.op = "res"
        /\ ~(i \in Arithmetic)
        /\ ~(i.op \in {"inc", "dec"})
        /\ ~(i.op \in ShiftOps)
        /\ ~(i.op = "bit")
        /\ ~(i.op = "set")
        /\ ~(i.op \in {"rlca", "rrca", "rla", "rra"})
        /\ ~(i.op \in {"cpl", "scf", "ccf"})
        /\ ~(i.op = "daa")
        /\ ~(i.op \in {"ld_from", "ld_to", "ld_imm"})
        /\ ~(i.src = "hl" /\ i.op \in {"ldi_to", "ldd_to", "ldi_from", "ldd_from"})
        /\ ~(i \in Wide)
        /\ ~(i \in Stack)
        /\ ~(i \in Jumps)
    BY <1>6, Kinds, Operands DEF AluOps, AddOps, SubOps, ShiftOps, WideOps, JumpOps
  <2> QED BY <2>1, Zenon DEF Steps
<1>7. ASSUME i.op \in {"rlca", "rrca", "rla", "rra"} PROVE Steps(i) = RotateASteps(i)
  <2>1. /\ i.op \in {"rlca", "rrca", "rla", "rra"}
        /\ ~(i \in Arithmetic)
        /\ ~(i.op \in {"inc", "dec"})
        /\ ~(i.op \in ShiftOps)
        /\ ~(i.op = "bit")
        /\ ~(i.op = "set")
        /\ ~(i.op = "res")
        /\ ~(i.op \in {"cpl", "scf", "ccf"})
        /\ ~(i.op = "daa")
        /\ ~(i.op \in {"ld_from", "ld_to", "ld_imm"})
        /\ ~(i.src = "hl" /\ i.op \in {"ldi_to", "ldd_to", "ldi_from", "ldd_from"})
        /\ ~(i \in Wide)
        /\ ~(i \in Stack)
        /\ ~(i \in Jumps)
    BY <1>7, Kinds, Operands DEF AluOps, AddOps, SubOps, ShiftOps, WideOps, JumpOps
  <2> QED BY <2>1, Zenon DEF Steps
<1>8. ASSUME i.op \in {"cpl", "scf", "ccf"} PROVE Steps(i) = FlagSteps(i)
  <2>1. /\ i.op \in {"cpl", "scf", "ccf"}
        /\ ~(i \in Arithmetic)
        /\ ~(i.op \in {"inc", "dec"})
        /\ ~(i.op \in ShiftOps)
        /\ ~(i.op = "bit")
        /\ ~(i.op = "set")
        /\ ~(i.op = "res")
        /\ ~(i.op \in {"rlca", "rrca", "rla", "rra"})
        /\ ~(i.op = "daa")
        /\ ~(i.op \in {"ld_from", "ld_to", "ld_imm"})
        /\ ~(i.src = "hl" /\ i.op \in {"ldi_to", "ldd_to", "ldi_from", "ldd_from"})
        /\ ~(i \in Wide)
        /\ ~(i \in Stack)
        /\ ~(i \in Jumps)
    BY <1>8, Kinds, Operands DEF AluOps, AddOps, SubOps, ShiftOps, WideOps, JumpOps
  <2> QED BY <2>1, Zenon DEF Steps
<1>9. ASSUME i.op = "daa" PROVE Steps(i) = <<<<"daa", 0>>>>
  <2>1. /\ i.op = "daa"
        /\ ~(i \in Arithmetic)
        /\ ~(i.op \in {"inc", "dec"})
        /\ ~(i.op \in ShiftOps)
        /\ ~(i.op = "bit")
        /\ ~(i.op = "set")
        /\ ~(i.op = "res")
        /\ ~(i.op \in {"rlca", "rrca", "rla", "rra"})
        /\ ~(i.op \in {"cpl", "scf", "ccf"})
        /\ ~(i.op \in {"ld_from", "ld_to", "ld_imm"})
        /\ ~(i.src = "hl" /\ i.op \in {"ldi_to", "ldd_to", "ldi_from", "ldd_from"})
        /\ ~(i \in Wide)
        /\ ~(i \in Stack)
        /\ ~(i \in Jumps)
    BY <1>9, Kinds, Operands DEF AluOps, AddOps, SubOps, ShiftOps, WideOps, JumpOps
  <2> QED BY <2>1, Zenon DEF Steps
<1>10. ASSUME i.op \in {"ld_from", "ld_to", "ld_imm"} PROVE Steps(i) = LoadSteps(i)
  <2>1. /\ i.op \in {"ld_from", "ld_to", "ld_imm"}
        /\ ~(i \in Arithmetic)
        /\ ~(i.op \in {"inc", "dec"})
        /\ ~(i.op \in ShiftOps)
        /\ ~(i.op = "bit")
        /\ ~(i.op = "set")
        /\ ~(i.op = "res")
        /\ ~(i.op \in {"rlca", "rrca", "rla", "rra"})
        /\ ~(i.op \in {"cpl", "scf", "ccf"})
        /\ ~(i.op = "daa")
        /\ ~(i.src = "hl" /\ i.op \in {"ldi_to", "ldd_to", "ldi_from", "ldd_from"})
        /\ ~(i \in Wide)
        /\ ~(i \in Stack)
        /\ ~(i \in Jumps)
    BY <1>10, Kinds, Operands DEF AluOps, AddOps, SubOps, ShiftOps, WideOps, JumpOps
  <2> QED BY <2>1, Zenon DEF Steps
<1>11. ASSUME i.op \in {"ldi_to", "ldd_to", "ldi_from", "ldd_from"} PROVE Steps(i) = IndirectSteps(i)
  <2>1. /\ i.src = "hl" /\ i.op \in {"ldi_to", "ldd_to", "ldi_from", "ldd_from"}
        /\ ~(i \in Arithmetic)
        /\ ~(i.op \in {"inc", "dec"})
        /\ ~(i.op \in ShiftOps)
        /\ ~(i.op = "bit")
        /\ ~(i.op = "set")
        /\ ~(i.op = "res")
        /\ ~(i.op \in {"rlca", "rrca", "rla", "rra"})
        /\ ~(i.op \in {"cpl", "scf", "ccf"})
        /\ ~(i.op = "daa")
        /\ ~(i.op \in {"ld_from", "ld_to", "ld_imm"})
        /\ ~(i \in Wide)
        /\ ~(i \in Stack)
        /\ ~(i \in Jumps)
    BY <1>11, Kinds, Operands DEF AluOps, AddOps, SubOps, ShiftOps, WideOps, JumpOps
  <2> QED BY <2>1, Zenon DEF Steps
<1>12. ASSUME i.op \in WideOps PROVE Steps(i) = WideSteps(i)
  <2>1. /\ i \in Wide
        /\ ~(i \in Arithmetic)
        /\ ~(i.op \in {"inc", "dec"})
        /\ ~(i.op \in ShiftOps)
        /\ ~(i.op = "bit")
        /\ ~(i.op = "set")
        /\ ~(i.op = "res")
        /\ ~(i.op \in {"rlca", "rrca", "rla", "rra"})
        /\ ~(i.op \in {"cpl", "scf", "ccf"})
        /\ ~(i.op = "daa")
        /\ ~(i.op \in {"ld_from", "ld_to", "ld_imm"})
        /\ ~(i.src = "hl" /\ i.op \in {"ldi_to", "ldd_to", "ldi_from", "ldd_from"})
        /\ ~(i \in Stack)
        /\ ~(i \in Jumps)
    BY <1>12, Kinds, Operands DEF AluOps, AddOps, SubOps, ShiftOps, WideOps, JumpOps
  <2> QED BY <2>1, Zenon DEF Steps
<1>13. ASSUME i.op \in {"push", "pop"} PROVE Steps(i) = StackSteps(i)
  <2>1. /\ i \in Stack
        /\ ~(i \in Arithmetic)
        /\ ~(i.op \in {"inc", "dec"})
        /\ ~(i.op \in ShiftOps)
        /\ ~(i.op = "bit")
        /\ ~(i.op = "set")
        /\ ~(i.op = "res")
        /\ ~(i.op \in {"rlca", "rrca", "rla", "rra"})
        /\ ~(i.op \in {"cpl", "scf", "ccf"})
        /\ ~(i.op = "daa")
        /\ ~(i.op \in {"ld_from", "ld_to", "ld_imm"})
        /\ ~(i.src = "hl" /\ i.op \in {"ldi_to", "ldd_to", "ldi_from", "ldd_from"})
        /\ ~(i \in Wide)
        /\ ~(i \in Jumps)
    BY <1>13, Kinds, Operands DEF AluOps, AddOps, SubOps, ShiftOps, WideOps, JumpOps
  <2> QED BY <2>1, Zenon DEF Steps
<1>14. ASSUME i.op \in JumpOps PROVE Steps(i) = JumpSteps(i)
  <2>1. /\ i \in Jumps
        /\ ~(i \in Arithmetic)
        /\ ~(i.op \in {"inc", "dec"})
        /\ ~(i.op \in ShiftOps)
        /\ ~(i.op = "bit")
        /\ ~(i.op = "set")
        /\ ~(i.op = "res")
        /\ ~(i.op \in {"rlca", "rrca", "rla", "rra"})
        /\ ~(i.op \in {"cpl", "scf", "ccf"})
        /\ ~(i.op = "daa")
        /\ ~(i.op \in {"ld_from", "ld_to", "ld_imm"})
        /\ ~(i.src = "hl" /\ i.op \in {"ldi_to", "ldd_to", "ldi_from", "ldd_from"})
        /\ ~(i \in Wide)
        /\ ~(i \in Stack)
    BY <1>14, Kinds, Operands DEF AluOps, AddOps, SubOps, ShiftOps, WideOps, JumpOps
  <2> QED BY <2>1, Zenon DEF Steps
<1> QED BY <1>1, <1>2, <1>3, <1>4, <1>5, <1>6, <1>7, <1>8, <1>9, <1>10, <1>11, <1>12, <1>13, <1>14

\* The part of LegacyCpu.Step for each kind of instruction.
LEMMA LegacyOf ==
  ASSUME NEW i \in Instructions, NEW l
  PROVE  /\ i.op \in AluOps => LegacyStep(l, i) = LegacyAlu(Past(l, i), i.op, SrcOf(Past(l, i), i.src))
         /\ i.op = "inc" => LegacyStep(l, i) = LegacyInc(Past(l, i), i.src)
         /\ i.op = "dec" => LegacyStep(l, i) = LegacyDec(Past(l, i), i.src)
         /\ i.op \in ShiftOps => LegacyStep(l, i) = LegacyShift(Past(l, i), i.op, i.src)
         /\ i.op = "bit" => LegacyStep(l, i) = LegacyBit(Past(l, i), i)
         /\ i.op = "set" => LegacyStep(l, i) = LegacySet(Past(l, i), i)
         /\ i.op = "res" => LegacyStep(l, i) = LegacyRes(Past(l, i), i)
         /\ i.op \in {"rlca", "rrca", "rla", "rra"} => LegacyStep(l, i) = LegacyRotateA(Past(l, i), i.op)
         /\ i.op \in {"cpl", "scf", "ccf"} => LegacyStep(l, i) = LegacyFlagOp(Past(l, i), i.op)
         /\ i.op = "daa" => LegacyStep(l, i) = LegacyDaa(Past(l, i))
         /\ i.op \in {"ld_from", "ld_to", "ld_imm"} => LegacyStep(l, i) = LegacyLoad(Past(l, i), i)
         /\
           i.op \in {"ldi_to", "ldd_to", "ldi_from", "ldd_from"} => LegacyStep(l, i) = LegacyIndirect(Past(l, i), i.op)
         /\ i.op \in WideOps => LegacyStep(l, i) = LegacyWide(Past(l, i), i)
         /\ i.op \in {"push", "pop"} => LegacyStep(l, i) = LegacyStack(Past(l, i), i)
         /\ i.op \in {"jp", "jr", "jp_hl"} => LegacyStep(l, i) = LegacyJump(Past(l, i), i)
         /\ i.op = "call" => LegacyStep(l, i) = LegacyCall(Past(l, i), i.cc)
         /\ i.op = "rst" => LegacyStep(l, i) = LegacyRst(Past(l, i), i.k)
         /\ i.op \in {"ret", "reti"} => LegacyStep(l, i) = LegacyRet(Past(l, i), i)
<1>1. ASSUME i.op \in AluOps PROVE LegacyStep(l, i) = LegacyAlu(Past(l, i), i.op, SrcOf(Past(l, i), i.src))
  <2>1. /\ i \in Arithmetic
        /\ ~(i.op = "inc")
        /\ ~(i.op = "dec")
        /\ ~(i.op \in ShiftOps)
        /\ ~(i.op = "bit")
        /\ ~(i.op = "set")
        /\ ~(i.op = "res")
        /\ ~(i.op \in {"rlca", "rrca", "rla", "rra"})
        /\ ~(i.op \in {"cpl", "scf", "ccf"})
        /\ ~(i.op = "daa")
        /\ ~(i.op \in {"ld_from", "ld_to", "ld_imm"})
        /\ ~(i.op \in {"ldi_to", "ldd_to", "ldi_from", "ldd_from"})
        /\ ~(i \in Wide)
        /\ ~(i \in Stack)
        /\ ~(i.op \in {"jp", "jr", "jp_hl"})
        /\ ~(i.op = "call")
        /\ ~(i.op = "rst")
        /\ ~(i.op \in {"ret", "reti"})
    BY <1>1, Kinds, Operands DEF AluOps, AddOps, SubOps, ShiftOps, WideOps, JumpOps
  <2> QED BY <2>1, Zenon DEF LegacyStep, Past
<1>2. ASSUME i.op = "inc" PROVE LegacyStep(l, i) = LegacyInc(Past(l, i), i.src)
  <2>1. /\ i.op = "inc"
        /\ ~(i \in Arithmetic)
        /\ ~(i.op = "dec")
        /\ ~(i.op \in ShiftOps)
        /\ ~(i.op = "bit")
        /\ ~(i.op = "set")
        /\ ~(i.op = "res")
        /\ ~(i.op \in {"rlca", "rrca", "rla", "rra"})
        /\ ~(i.op \in {"cpl", "scf", "ccf"})
        /\ ~(i.op = "daa")
        /\ ~(i.op \in {"ld_from", "ld_to", "ld_imm"})
        /\ ~(i.op \in {"ldi_to", "ldd_to", "ldi_from", "ldd_from"})
        /\ ~(i \in Wide)
        /\ ~(i \in Stack)
        /\ ~(i.op \in {"jp", "jr", "jp_hl"})
        /\ ~(i.op = "call")
        /\ ~(i.op = "rst")
        /\ ~(i.op \in {"ret", "reti"})
    BY <1>2, Kinds, Operands DEF AluOps, AddOps, SubOps, ShiftOps, WideOps, JumpOps
  <2> QED BY <2>1, Zenon DEF LegacyStep, Past
<1>3. ASSUME i.op = "dec" PROVE LegacyStep(l, i) = LegacyDec(Past(l, i), i.src)
  <2>1. /\ i.op = "dec"
        /\ ~(i \in Arithmetic)
        /\ ~(i.op = "inc")
        /\ ~(i.op \in ShiftOps)
        /\ ~(i.op = "bit")
        /\ ~(i.op = "set")
        /\ ~(i.op = "res")
        /\ ~(i.op \in {"rlca", "rrca", "rla", "rra"})
        /\ ~(i.op \in {"cpl", "scf", "ccf"})
        /\ ~(i.op = "daa")
        /\ ~(i.op \in {"ld_from", "ld_to", "ld_imm"})
        /\ ~(i.op \in {"ldi_to", "ldd_to", "ldi_from", "ldd_from"})
        /\ ~(i \in Wide)
        /\ ~(i \in Stack)
        /\ ~(i.op \in {"jp", "jr", "jp_hl"})
        /\ ~(i.op = "call")
        /\ ~(i.op = "rst")
        /\ ~(i.op \in {"ret", "reti"})
    BY <1>3, Kinds, Operands DEF AluOps, AddOps, SubOps, ShiftOps, WideOps, JumpOps
  <2> QED BY <2>1, Zenon DEF LegacyStep, Past
<1>4. ASSUME i.op \in ShiftOps PROVE LegacyStep(l, i) = LegacyShift(Past(l, i), i.op, i.src)
  <2>1. /\ i.op \in ShiftOps
        /\ ~(i \in Arithmetic)
        /\ ~(i.op = "inc")
        /\ ~(i.op = "dec")
        /\ ~(i.op = "bit")
        /\ ~(i.op = "set")
        /\ ~(i.op = "res")
        /\ ~(i.op \in {"rlca", "rrca", "rla", "rra"})
        /\ ~(i.op \in {"cpl", "scf", "ccf"})
        /\ ~(i.op = "daa")
        /\ ~(i.op \in {"ld_from", "ld_to", "ld_imm"})
        /\ ~(i.op \in {"ldi_to", "ldd_to", "ldi_from", "ldd_from"})
        /\ ~(i \in Wide)
        /\ ~(i \in Stack)
        /\ ~(i.op \in {"jp", "jr", "jp_hl"})
        /\ ~(i.op = "call")
        /\ ~(i.op = "rst")
        /\ ~(i.op \in {"ret", "reti"})
    BY <1>4, Kinds, Operands DEF AluOps, AddOps, SubOps, ShiftOps, WideOps, JumpOps
  <2> QED BY <2>1, Zenon DEF LegacyStep, Past
<1>5. ASSUME i.op = "bit" PROVE LegacyStep(l, i) = LegacyBit(Past(l, i), i)
  <2>1. /\ i.op = "bit"
        /\ ~(i \in Arithmetic)
        /\ ~(i.op = "inc")
        /\ ~(i.op = "dec")
        /\ ~(i.op \in ShiftOps)
        /\ ~(i.op = "set")
        /\ ~(i.op = "res")
        /\ ~(i.op \in {"rlca", "rrca", "rla", "rra"})
        /\ ~(i.op \in {"cpl", "scf", "ccf"})
        /\ ~(i.op = "daa")
        /\ ~(i.op \in {"ld_from", "ld_to", "ld_imm"})
        /\ ~(i.op \in {"ldi_to", "ldd_to", "ldi_from", "ldd_from"})
        /\ ~(i \in Wide)
        /\ ~(i \in Stack)
        /\ ~(i.op \in {"jp", "jr", "jp_hl"})
        /\ ~(i.op = "call")
        /\ ~(i.op = "rst")
        /\ ~(i.op \in {"ret", "reti"})
    BY <1>5, Kinds, Operands DEF AluOps, AddOps, SubOps, ShiftOps, WideOps, JumpOps
  <2> QED BY <2>1, Zenon DEF LegacyStep, Past
<1>6. ASSUME i.op = "set" PROVE LegacyStep(l, i) = LegacySet(Past(l, i), i)
  <2>1. /\ i.op = "set"
        /\ ~(i \in Arithmetic)
        /\ ~(i.op = "inc")
        /\ ~(i.op = "dec")
        /\ ~(i.op \in ShiftOps)
        /\ ~(i.op = "bit")
        /\ ~(i.op = "res")
        /\ ~(i.op \in {"rlca", "rrca", "rla", "rra"})
        /\ ~(i.op \in {"cpl", "scf", "ccf"})
        /\ ~(i.op = "daa")
        /\ ~(i.op \in {"ld_from", "ld_to", "ld_imm"})
        /\ ~(i.op \in {"ldi_to", "ldd_to", "ldi_from", "ldd_from"})
        /\ ~(i \in Wide)
        /\ ~(i \in Stack)
        /\ ~(i.op \in {"jp", "jr", "jp_hl"})
        /\ ~(i.op = "call")
        /\ ~(i.op = "rst")
        /\ ~(i.op \in {"ret", "reti"})
    BY <1>6, Kinds, Operands DEF AluOps, AddOps, SubOps, ShiftOps, WideOps, JumpOps
  <2> QED BY <2>1, Zenon DEF LegacyStep, Past
<1>7. ASSUME i.op = "res" PROVE LegacyStep(l, i) = LegacyRes(Past(l, i), i)
  <2>1. /\ i.op = "res"
        /\ ~(i \in Arithmetic)
        /\ ~(i.op = "inc")
        /\ ~(i.op = "dec")
        /\ ~(i.op \in ShiftOps)
        /\ ~(i.op = "bit")
        /\ ~(i.op = "set")
        /\ ~(i.op \in {"rlca", "rrca", "rla", "rra"})
        /\ ~(i.op \in {"cpl", "scf", "ccf"})
        /\ ~(i.op = "daa")
        /\ ~(i.op \in {"ld_from", "ld_to", "ld_imm"})
        /\ ~(i.op \in {"ldi_to", "ldd_to", "ldi_from", "ldd_from"})
        /\ ~(i \in Wide)
        /\ ~(i \in Stack)
        /\ ~(i.op \in {"jp", "jr", "jp_hl"})
        /\ ~(i.op = "call")
        /\ ~(i.op = "rst")
        /\ ~(i.op \in {"ret", "reti"})
    BY <1>7, Kinds, Operands DEF AluOps, AddOps, SubOps, ShiftOps, WideOps, JumpOps
  <2> QED BY <2>1, Zenon DEF LegacyStep, Past
<1>8. ASSUME i.op \in {"rlca", "rrca", "rla", "rra"} PROVE LegacyStep(l, i) = LegacyRotateA(Past(l, i), i.op)
  <2>1. /\ i.op \in {"rlca", "rrca", "rla", "rra"}
        /\ ~(i \in Arithmetic)
        /\ ~(i.op = "inc")
        /\ ~(i.op = "dec")
        /\ ~(i.op \in ShiftOps)
        /\ ~(i.op = "bit")
        /\ ~(i.op = "set")
        /\ ~(i.op = "res")
        /\ ~(i.op \in {"cpl", "scf", "ccf"})
        /\ ~(i.op = "daa")
        /\ ~(i.op \in {"ld_from", "ld_to", "ld_imm"})
        /\ ~(i.op \in {"ldi_to", "ldd_to", "ldi_from", "ldd_from"})
        /\ ~(i \in Wide)
        /\ ~(i \in Stack)
        /\ ~(i.op \in {"jp", "jr", "jp_hl"})
        /\ ~(i.op = "call")
        /\ ~(i.op = "rst")
        /\ ~(i.op \in {"ret", "reti"})
    BY <1>8, Kinds, Operands DEF AluOps, AddOps, SubOps, ShiftOps, WideOps, JumpOps
  <2> QED BY <2>1, Zenon DEF LegacyStep, Past
<1>9. ASSUME i.op \in {"cpl", "scf", "ccf"} PROVE LegacyStep(l, i) = LegacyFlagOp(Past(l, i), i.op)
  <2>1. /\ i.op \in {"cpl", "scf", "ccf"}
        /\ ~(i \in Arithmetic)
        /\ ~(i.op = "inc")
        /\ ~(i.op = "dec")
        /\ ~(i.op \in ShiftOps)
        /\ ~(i.op = "bit")
        /\ ~(i.op = "set")
        /\ ~(i.op = "res")
        /\ ~(i.op \in {"rlca", "rrca", "rla", "rra"})
        /\ ~(i.op = "daa")
        /\ ~(i.op \in {"ld_from", "ld_to", "ld_imm"})
        /\ ~(i.op \in {"ldi_to", "ldd_to", "ldi_from", "ldd_from"})
        /\ ~(i \in Wide)
        /\ ~(i \in Stack)
        /\ ~(i.op \in {"jp", "jr", "jp_hl"})
        /\ ~(i.op = "call")
        /\ ~(i.op = "rst")
        /\ ~(i.op \in {"ret", "reti"})
    BY <1>9, Kinds, Operands DEF AluOps, AddOps, SubOps, ShiftOps, WideOps, JumpOps
  <2> QED BY <2>1, Zenon DEF LegacyStep, Past
<1>10. ASSUME i.op = "daa" PROVE LegacyStep(l, i) = LegacyDaa(Past(l, i))
  <2>1. /\ i.op = "daa"
        /\ ~(i \in Arithmetic)
        /\ ~(i.op = "inc")
        /\ ~(i.op = "dec")
        /\ ~(i.op \in ShiftOps)
        /\ ~(i.op = "bit")
        /\ ~(i.op = "set")
        /\ ~(i.op = "res")
        /\ ~(i.op \in {"rlca", "rrca", "rla", "rra"})
        /\ ~(i.op \in {"cpl", "scf", "ccf"})
        /\ ~(i.op \in {"ld_from", "ld_to", "ld_imm"})
        /\ ~(i.op \in {"ldi_to", "ldd_to", "ldi_from", "ldd_from"})
        /\ ~(i \in Wide)
        /\ ~(i \in Stack)
        /\ ~(i.op \in {"jp", "jr", "jp_hl"})
        /\ ~(i.op = "call")
        /\ ~(i.op = "rst")
        /\ ~(i.op \in {"ret", "reti"})
    BY <1>10, Kinds, Operands DEF AluOps, AddOps, SubOps, ShiftOps, WideOps, JumpOps
  <2> QED BY <2>1, Zenon DEF LegacyStep, Past
<1>11. ASSUME i.op \in {"ld_from", "ld_to", "ld_imm"} PROVE LegacyStep(l, i) = LegacyLoad(Past(l, i), i)
  <2>1. /\ i.op \in {"ld_from", "ld_to", "ld_imm"}
        /\ ~(i \in Arithmetic)
        /\ ~(i.op = "inc")
        /\ ~(i.op = "dec")
        /\ ~(i.op \in ShiftOps)
        /\ ~(i.op = "bit")
        /\ ~(i.op = "set")
        /\ ~(i.op = "res")
        /\ ~(i.op \in {"rlca", "rrca", "rla", "rra"})
        /\ ~(i.op \in {"cpl", "scf", "ccf"})
        /\ ~(i.op = "daa")
        /\ ~(i.op \in {"ldi_to", "ldd_to", "ldi_from", "ldd_from"})
        /\ ~(i \in Wide)
        /\ ~(i \in Stack)
        /\ ~(i.op \in {"jp", "jr", "jp_hl"})
        /\ ~(i.op = "call")
        /\ ~(i.op = "rst")
        /\ ~(i.op \in {"ret", "reti"})
    BY <1>11, Kinds, Operands DEF AluOps, AddOps, SubOps, ShiftOps, WideOps, JumpOps
  <2> QED BY <2>1, Zenon DEF LegacyStep, Past
<1>12. ASSUME i.op \in {"ldi_to", "ldd_to", "ldi_from", "ldd_from"} PROVE LegacyStep(l, i) = LegacyIndirect(Past(l, i), i.op)
  <2>1. /\ i.op \in {"ldi_to", "ldd_to", "ldi_from", "ldd_from"}
        /\ ~(i \in Arithmetic)
        /\ ~(i.op = "inc")
        /\ ~(i.op = "dec")
        /\ ~(i.op \in ShiftOps)
        /\ ~(i.op = "bit")
        /\ ~(i.op = "set")
        /\ ~(i.op = "res")
        /\ ~(i.op \in {"rlca", "rrca", "rla", "rra"})
        /\ ~(i.op \in {"cpl", "scf", "ccf"})
        /\ ~(i.op = "daa")
        /\ ~(i.op \in {"ld_from", "ld_to", "ld_imm"})
        /\ ~(i \in Wide)
        /\ ~(i \in Stack)
        /\ ~(i.op \in {"jp", "jr", "jp_hl"})
        /\ ~(i.op = "call")
        /\ ~(i.op = "rst")
        /\ ~(i.op \in {"ret", "reti"})
    BY <1>12, Kinds, Operands DEF AluOps, AddOps, SubOps, ShiftOps, WideOps, JumpOps
  <2> QED BY <2>1, Zenon DEF LegacyStep, Past
<1>13. ASSUME i.op \in WideOps PROVE LegacyStep(l, i) = LegacyWide(Past(l, i), i)
  <2>1. /\ i \in Wide
        /\ ~(i \in Arithmetic)
        /\ ~(i.op = "inc")
        /\ ~(i.op = "dec")
        /\ ~(i.op \in ShiftOps)
        /\ ~(i.op = "bit")
        /\ ~(i.op = "set")
        /\ ~(i.op = "res")
        /\ ~(i.op \in {"rlca", "rrca", "rla", "rra"})
        /\ ~(i.op \in {"cpl", "scf", "ccf"})
        /\ ~(i.op = "daa")
        /\ ~(i.op \in {"ld_from", "ld_to", "ld_imm"})
        /\ ~(i.op \in {"ldi_to", "ldd_to", "ldi_from", "ldd_from"})
        /\ ~(i \in Stack)
        /\ ~(i.op \in {"jp", "jr", "jp_hl"})
        /\ ~(i.op = "call")
        /\ ~(i.op = "rst")
        /\ ~(i.op \in {"ret", "reti"})
    BY <1>13, Kinds, Operands DEF AluOps, AddOps, SubOps, ShiftOps, WideOps, JumpOps
  <2> QED BY <2>1, Zenon DEF LegacyStep, Past
<1>14. ASSUME i.op \in {"push", "pop"} PROVE LegacyStep(l, i) = LegacyStack(Past(l, i), i)
  <2>1. /\ i \in Stack
        /\ ~(i \in Arithmetic)
        /\ ~(i.op = "inc")
        /\ ~(i.op = "dec")
        /\ ~(i.op \in ShiftOps)
        /\ ~(i.op = "bit")
        /\ ~(i.op = "set")
        /\ ~(i.op = "res")
        /\ ~(i.op \in {"rlca", "rrca", "rla", "rra"})
        /\ ~(i.op \in {"cpl", "scf", "ccf"})
        /\ ~(i.op = "daa")
        /\ ~(i.op \in {"ld_from", "ld_to", "ld_imm"})
        /\ ~(i.op \in {"ldi_to", "ldd_to", "ldi_from", "ldd_from"})
        /\ ~(i \in Wide)
        /\ ~(i.op \in {"jp", "jr", "jp_hl"})
        /\ ~(i.op = "call")
        /\ ~(i.op = "rst")
        /\ ~(i.op \in {"ret", "reti"})
    BY <1>14, Kinds, Operands DEF AluOps, AddOps, SubOps, ShiftOps, WideOps, JumpOps
  <2> QED BY <2>1, Zenon DEF LegacyStep, Past
<1>15. ASSUME i.op \in {"jp", "jr", "jp_hl"} PROVE LegacyStep(l, i) = LegacyJump(Past(l, i), i)
  <2>1. /\ i.op \in {"jp", "jr", "jp_hl"}
        /\ ~(i \in Arithmetic)
        /\ ~(i.op = "inc")
        /\ ~(i.op = "dec")
        /\ ~(i.op \in ShiftOps)
        /\ ~(i.op = "bit")
        /\ ~(i.op = "set")
        /\ ~(i.op = "res")
        /\ ~(i.op \in {"rlca", "rrca", "rla", "rra"})
        /\ ~(i.op \in {"cpl", "scf", "ccf"})
        /\ ~(i.op = "daa")
        /\ ~(i.op \in {"ld_from", "ld_to", "ld_imm"})
        /\ ~(i.op \in {"ldi_to", "ldd_to", "ldi_from", "ldd_from"})
        /\ ~(i \in Wide)
        /\ ~(i \in Stack)
        /\ ~(i.op = "call")
        /\ ~(i.op = "rst")
        /\ ~(i.op \in {"ret", "reti"})
    BY <1>15, Kinds, Operands DEF AluOps, AddOps, SubOps, ShiftOps, WideOps, JumpOps
  <2> QED BY <2>1, Zenon DEF LegacyStep, Past
<1>16. ASSUME i.op = "call" PROVE LegacyStep(l, i) = LegacyCall(Past(l, i), i.cc)
  <2>1. /\ i.op = "call"
        /\ ~(i \in Arithmetic)
        /\ ~(i.op = "inc")
        /\ ~(i.op = "dec")
        /\ ~(i.op \in ShiftOps)
        /\ ~(i.op = "bit")
        /\ ~(i.op = "set")
        /\ ~(i.op = "res")
        /\ ~(i.op \in {"rlca", "rrca", "rla", "rra"})
        /\ ~(i.op \in {"cpl", "scf", "ccf"})
        /\ ~(i.op = "daa")
        /\ ~(i.op \in {"ld_from", "ld_to", "ld_imm"})
        /\ ~(i.op \in {"ldi_to", "ldd_to", "ldi_from", "ldd_from"})
        /\ ~(i \in Wide)
        /\ ~(i \in Stack)
        /\ ~(i.op \in {"jp", "jr", "jp_hl"})
        /\ ~(i.op = "rst")
        /\ ~(i.op \in {"ret", "reti"})
    BY <1>16, Kinds, Operands DEF AluOps, AddOps, SubOps, ShiftOps, WideOps, JumpOps
  <2> QED BY <2>1, Zenon DEF LegacyStep, Past
<1>17. ASSUME i.op = "rst" PROVE LegacyStep(l, i) = LegacyRst(Past(l, i), i.k)
  <2>1. /\ i.op = "rst"
        /\ ~(i \in Arithmetic)
        /\ ~(i.op = "inc")
        /\ ~(i.op = "dec")
        /\ ~(i.op \in ShiftOps)
        /\ ~(i.op = "bit")
        /\ ~(i.op = "set")
        /\ ~(i.op = "res")
        /\ ~(i.op \in {"rlca", "rrca", "rla", "rra"})
        /\ ~(i.op \in {"cpl", "scf", "ccf"})
        /\ ~(i.op = "daa")
        /\ ~(i.op \in {"ld_from", "ld_to", "ld_imm"})
        /\ ~(i.op \in {"ldi_to", "ldd_to", "ldi_from", "ldd_from"})
        /\ ~(i \in Wide)
        /\ ~(i \in Stack)
        /\ ~(i.op \in {"jp", "jr", "jp_hl"})
        /\ ~(i.op = "call")
        /\ ~(i.op \in {"ret", "reti"})
    BY <1>17, Kinds, Operands DEF AluOps, AddOps, SubOps, ShiftOps, WideOps, JumpOps
  <2> QED BY <2>1, Zenon DEF LegacyStep, Past
<1>18. ASSUME i.op \in {"ret", "reti"} PROVE LegacyStep(l, i) = LegacyRet(Past(l, i), i)
  <2>1. /\ i.op \in {"ret", "reti"}
        /\ ~(i \in Arithmetic)
        /\ ~(i.op = "inc")
        /\ ~(i.op = "dec")
        /\ ~(i.op \in ShiftOps)
        /\ ~(i.op = "bit")
        /\ ~(i.op = "set")
        /\ ~(i.op = "res")
        /\ ~(i.op \in {"rlca", "rrca", "rla", "rra"})
        /\ ~(i.op \in {"cpl", "scf", "ccf"})
        /\ ~(i.op = "daa")
        /\ ~(i.op \in {"ld_from", "ld_to", "ld_imm"})
        /\ ~(i.op \in {"ldi_to", "ldd_to", "ldi_from", "ldd_from"})
        /\ ~(i \in Wide)
        /\ ~(i \in Stack)
        /\ ~(i.op \in {"jp", "jr", "jp_hl"})
        /\ ~(i.op = "call")
        /\ ~(i.op = "rst")
    BY <1>18, Kinds, Operands DEF AluOps, AddOps, SubOps, ShiftOps, WideOps, JumpOps
  <2> QED BY <2>1, Zenon DEF LegacyStep, Past
<1> QED BY <1>1, <1>2, <1>3, <1>4, <1>5, <1>6, <1>7, <1>8, <1>9, <1>10, <1>11, <1>12, <1>13, <1>14, <1>15,
  <1>16, <1>17, <1>18

-----------------------------------------------------------------------------
(* Each kind of instruction, in both engines. *)

\* Where the list of an instruction begins.
LEMMA Begun ==
  ASSUME NEW j, NEW l, Match(j, l), NEW i
  PROVE  /\ Match(Begin(j, i), Past(l, i)) /\ Begin(j, i) \in JState /\ Past(l, i) \in LState
         /\ Keeps(Begin(j, i), Past(l, i), {})
         /\ Like(Begin(j, i), Begin(j, i), Begin(j, i).v,
                 Past(l, i).fz, Past(l, i).fn, Past(l, i).fh, Past(l, i).fc)
         /\ AreFlags(Past(l, i).fz, Past(l, i).fn, Past(l, i).fh, Past(l, i).fc)
<1>1. Match(Begin(j, i), Past(l, i)) /\ Begin(j, i) \in JState /\ Past(l, i) \in LState
  BY BeginMatch
<1>2. Keeps(Begin(j, i), Past(l, i), {})
  BY <1>1 DEF Match
<1>3. AreFlags(Past(l, i).fz, Past(l, i).fn, Past(l, i).fh, Past(l, i).fc)
  BY <1>1 DEF AreFlags, LState
<1> QED BY <1>1, <1>2, <1>3, MatchLike

\* Arithmetic.
LEMMA ArithmeticMatch ==
  ASSUME NEW i \in Instructions, i.op \in AluOps, NEW j, NEW l, Match(j, l)
  PROVE  Match(Run(j, i, FALSE), LegacyStep(l, i))
<1> DEFINE s == Begin(j, i)
           t == Past(l, i)
           r == EmitNext(s, Fetch(i.src), FALSE)
           y == SrcOf(t, i.src)
<1>1. i.src \in {"a", "b", "hl", "n"}
  BY Operands
<1>2. Steps(i) = <<Fetch(i.src), <<"alu", i.op>>>> /\ LegacyStep(l, i) = LegacyAlu(t, i.op, y)
  BY StepsOf, LegacyOf
<1>3. Run(j, i, FALSE) = EmitNext(r, <<"alu", i.op>>, FALSE)
  BY <1>2, Run2
<1>4. s \in JState /\ t \in LState /\ Like(s, s, s.v, t.fz, t.fn, t.fh, t.fc) /\ Keeps(s, t, {})
  BY Begun
<1> HIDE DEF s, t
<1>5. Like(r, s, SrcOf(s, i.src), t.fz, t.fn, t.fh, t.fc) /\ SrcOf(s, i.src) = y
  BY <1>1, <1>4, LikeFetch, SrcMatch
<1> HIDE DEF r, y
<1>6. r \in JState /\ r.v = y /\ AluInput(r, s, t, y)
  BY <1>4, <1>5 DEF Like, AluInput
<1>7. EmitNext(r, <<"alu", i.op>>, FALSE) = Alu8(r, i.op, y)
  BY <1>6, EmitsAll, EmitFlags
<1> QED BY <1>2, <1>3, <1>6, <1>7, Alu8Match

-----------------------------------------------------------------------------
(* What each micro-operation does to the value handed on and to the flags. *)

\* The operand arithmetic of INC, DEC, CPL, SET and RES.
LEMMA LikeAdd ==
  ASSUME NEW r, NEW s, NEW x, NEW z, NEW n, NEW h, NEW c, Like(r, s, x, z, n, h, c), NEW d \in Int
  PROVE  Like(EmitNext(r, <<"add", d>>, FALSE), s, Byte(x + d), z, n, h, c)
<1>1. r \in JState /\ r.v = x /\ x \in B8
  BY DEF Like, JState
<1>2. Byte(x + d) \in B8
  <2>1. x + d \in Int
    BY <1>1 DEF B8
  <2> QED BY <2>1, Reduced
<1>3. EmitNext(r, <<"add", d>>, FALSE) = AddTrunc(r, d)
  BY <1>1, EmitsAll, EmitMoves
<1>4. AddTrunc(r, d) = Valued(r, Byte(x + d))
  BY <1>1 DEF AddTrunc, Valued, JState
<1> QED BY <1>2, <1>3, <1>4, LikeValue

\* The complement of the value handed on.
LEMMA LikeMvn ==
  ASSUME NEW r, NEW s, NEW x, NEW z, NEW n, NEW h, NEW c, Like(r, s, x, z, n, h, c)
  PROVE  Like(EmitNext(r, <<"mvn", 0>>, FALSE), s, 255 - x, z, n, h, c)
<1>1. r \in JState /\ r.v = x /\ x \in B8
  BY DEF Like, JState
<1>2. 255 - x \in B8
  BY <1>1 DEF B8
<1>3. EmitNext(r, <<"mvn", 0>>, FALSE) = Mvn(r)
  <2>1. Emit(r, <<"mvn", 0>>, FALSE) = Mvn(r)
    BY DEF Emit
  <2> QED BY <1>1, <2>1, EmitsAll
<1>4. Mvn(r) = Valued(r, 255 - x)
  BY <1>1 DEF Mvn, Valued, JState
<1> DEFINE y == 255 - x
<1>5. y \in B8 /\ EmitNext(r, <<"mvn", 0>>, FALSE) = Valued(r, y)
  BY <1>2, <1>3, <1>4
<1> HIDE DEF y
<1>6. Like(Valued(r, y), s, y, z, n, h, c)
  BY <1>5, LikeValue
<1> QED BY <1>5, <1>6, Zenon DEF y

\* A bit of the value handed on, set or cleared.
LEMMA LikeBitSet ==
  ASSUME NEW r, NEW s, NEW x, NEW z, NEW n, NEW h, NEW c, Like(r, s, x, z, n, h, c), NEW k \in 0..7
  PROVE  /\ Like(EmitNext(r, <<"bit_set", k>>, FALSE), s, WithBit(x, k, 1), z, n, h, c)
         /\ Like(EmitNext(r, <<"bit_clear", k>>, FALSE), s, WithBit(x, k, 0), z, n, h, c)
<1>1. r \in JState /\ r.v = x /\ x \in B8
  BY DEF Like, JState
<1>2. WithBit(x, k, 1) \in B8 /\ WithBit(x, k, 0) \in B8
  BY <1>1, WithBitType
<1>3. /\ EmitNext(r, <<"bit_set", k>>, FALSE) = BitSet(r, k)
      /\ EmitNext(r, <<"bit_clear", k>>, FALSE) = BitClear(r, k)
  <2>1. Emit(r, <<"bit_set", k>>, FALSE) = BitSet(r, k)
    BY DEF Emit
  <2>2. Emit(r, <<"bit_clear", k>>, FALSE) = BitClear(r, k)
    BY DEF Emit
  <2> QED BY <1>1, <2>1, <2>2, EmitsAll, Zenon
<1>4. BitSet(r, k) = Valued(r, WithBit(x, k, 1)) /\ BitClear(r, k) = Valued(r, WithBit(x, k, 0))
  BY <1>1 DEF BitSet, BitClear, Valued, JState
<1> QED BY <1>2, <1>3, <1>4, LikeValue

\* Flags from the value handed on.
LEMMA LikeZero ==
  ASSUME NEW r, NEW s, NEW x, NEW z, NEW n, NEW h, NEW c, Like(r, s, x, z, n, h, c)
  PROVE  Like(EmitNext(r, <<"update_zero", 0>>, FALSE), s, x, Num(x = 0), n, h, c)
<1>1. r \in JState /\ r.v = x
  BY DEF Like
<1>2. EmitNext(r, <<"update_zero", 0>>, FALSE) = UpdateZero(r)
  <2>1. Emit(r, <<"update_zero", 0>>, FALSE) = UpdateZero(r)
    BY DEF Emit
  <2> QED BY <1>1, <2>1, EmitsAll
<1>3. UpdateZero(r) = SetFlag(r, Z, Num(x = 0))
  BY <1>1 DEF UpdateZero
<1>4. Num(x = 0) \in {0, 1}
  BY NumType
<1>5. Like(SetFlag(r, Z, Num(x = 0)), s, x, Num(x = 0), n, h, c)
  BY <1>4, LikeFlag, Zenon
<1> QED BY <1>2, <1>3, <1>5, Zenon

\* H after an increment and after a decrement.
LEMMA LikeHalf ==
  ASSUME NEW r, NEW s, NEW x, NEW z, NEW n, NEW h, NEW c, Like(r, s, x, z, n, h, c)
  PROVE  /\ Like(EmitNext(r, <<"update_h_inc", 0>>, FALSE), s, x, z, n, Num(Nibble(x) = 0), c)
         /\ Like(EmitNext(r, <<"update_h_dec", 0>>, FALSE), s, x, z, n, Num(Nibble(x) = 15), c)
<1>1. r \in JState /\ r.v = x
  BY DEF Like
<1>2. /\ EmitNext(r, <<"update_h_inc", 0>>, FALSE) = UpdateHInc(r)
      /\ EmitNext(r, <<"update_h_dec", 0>>, FALSE) = UpdateHDec(r)
  <2>1. Emit(r, <<"update_h_inc", 0>>, FALSE) = UpdateHInc(r)
    BY EmitFlags, Zenon
  <2>2. Emit(r, <<"update_h_dec", 0>>, FALSE) = UpdateHDec(r)
    BY EmitFlags, Zenon
  <2> QED BY <1>1, <2>1, <2>2, EmitsAll
<1>3. UpdateHInc(r) = SetFlag(r, H, Num(Nibble(x) = 0)) /\ UpdateHDec(r) = SetFlag(r, H, Num(Nibble(x) = 15))
  BY <1>1 DEF UpdateHInc, UpdateHDec
<1>4. Num(Nibble(x) = 0) \in {0, 1} /\ Num(Nibble(x) = 15) \in {0, 1}
  BY NumType
<1>5. /\ Like(SetFlag(r, H, Num(Nibble(x) = 0)), s, x, z, n, Num(Nibble(x) = 0), c)
      /\ Like(SetFlag(r, H, Num(Nibble(x) = 15)), s, x, z, n, Num(Nibble(x) = 15), c)
  BY <1>4, LikeFlag, Zenon
<1> QED BY <1>2, <1>3, <1>5, Zenon

\* Z from a bit of the value handed on.
LEMMA LikeTest ==
  ASSUME NEW r, NEW s, NEW x, NEW z, NEW n, NEW h, NEW c, Like(r, s, x, z, n, h, c), NEW k \in 0..7
  PROVE  Like(EmitNext(r, <<"bit_test", k>>, FALSE), s, x, 1 - Bit(x, k), n, h, c)
<1>1. r \in JState /\ r.v = x /\ x \in B8
  BY DEF Like, JState
<1>2. EmitNext(r, <<"bit_test", k>>, FALSE) = SetFlag(r, Z, 1 - Bit(x, k))
  <2>1. EmitNext(r, <<"bit_test", k>>, FALSE) = BitTest(r, k)
    BY <1>1, EmitsAll, EmitFlags, Zenon
  <2> QED BY <1>1, <2>1 DEF BitTest
<1>3. 1 - Bit(x, k) \in {0, 1}
  <2>1. Bit(x, k) \in {0, 1}
    BY <1>1, BitType DEF B8
  <2> QED BY <2>1
<1> QED BY <1>2, <1>3, LikeFlag

\* A flag set to a constant.
LEMMA LikeSetFlag ==
  ASSUME NEW r, NEW s, NEW x, NEW z, NEW n, NEW h, NEW c, Like(r, s, x, z, n, h, c), NEW y \in {0, 1}
  PROVE  /\ Like(EmitNext(r, <<"set_flag", <<Z, y>>>>, FALSE), s, x, y, n, h, c)
         /\ Like(EmitNext(r, <<"set_flag", <<N, y>>>>, FALSE), s, x, z, y, h, c)
         /\ Like(EmitNext(r, <<"set_flag", <<H, y>>>>, FALSE), s, x, z, n, y, c)
         /\ Like(EmitNext(r, <<"set_flag", <<C, y>>>>, FALSE), s, x, z, n, h, y)
<1>1. r \in JState
  BY DEF Like
<1>2. \A k : EmitNext(r, <<"set_flag", <<k, y>>>>, FALSE) = SetFlag(r, k, y)
  <2>1. \A k : Emit(r, <<"set_flag", <<k, y>>>>, FALSE) = SetFlag(r, k, y)
    BY DEF Emit
  <2> QED BY <1>1, <2>1, EmitsAll
<1> QED BY <1>2, LikeFlag

\* CCF's toggle of a flag.
LEMMA LikeToggle ==
  ASSUME NEW r, NEW s, NEW x, NEW z, NEW n, NEW h, NEW c, Like(r, s, x, z, n, h, c)
  PROVE  Like(EmitNext(r, <<"toggle_flag", C>>, FALSE), s, x, z, n, h, 1 - c)
<1>1. r \in JState /\ AreFlags(z, n, h, c) /\ r.f = StoreFlags(z, n, h, c)
  BY DEF Like, AreFlags
<1>2. Bit(r.f, C) = c /\ 1 - c \in {0, 1}
  BY <1>1, FlagBits DEF AreFlags
<1>3. EmitNext(r, <<"toggle_flag", C>>, FALSE) = ToggleFlag(r, C)
  <2>1. Emit(r, <<"toggle_flag", C>>, FALSE) = ToggleFlag(r, C)
    BY DEF Emit
  <2> QED BY <1>1, <2>1, EmitsAll, Zenon
<1>4. ToggleFlag(r, C) = SetFlag(r, C, 1 - c)
  BY <1>1, <1>2 DEF ToggleFlag, SetFlag, JState
<1> QED BY <1>2, <1>3, <1>4, LikeFlag

\* Writing the value to a register.
LEMMA LikeWrite ==
  ASSUME NEW r, NEW s, NEW x, NEW z, NEW n, NEW h, NEW c, Like(r, s, x, z, n, h, c), s \in JState,
         NEW reg \in {"a", "b"}
  PROVE  Like(EmitNext(r, <<"write_r8", reg>>, FALSE), Set(s, reg, x), x, z, n, h, c) /\ Set(s, reg, x) \in JState
<1>1. r \in JState /\ r.v = x /\ x \in B8
  BY DEF Like, JState
<1>2. EmitNext(r, <<"write_r8", reg>>, FALSE) = WriteR8(r, reg)
  BY <1>1, EmitsAll, EmitMoves
<1>3. WriteR8(r, reg) = Set(r, reg, x)
  BY <1>1 DEF WriteR8, Set
<1>4. Fits(reg, x)
  BY <1>1 DEF Fits
<1> QED BY <1>2, <1>3, <1>4, LikeSet, SetJson

\* LegacyCpu may set the flags before or after it writes the result.
LEMMA PutFlags ==
  ASSUME NEW l \in LState, NEW src \in {"b", "hl"}, NEW x \in B8, NEW z, NEW n, NEW h, NEW c, AreFlags(z, n, h, c)
  PROVE  Put(WithFlags(l, z, n, h, c), src, x) = WithFlags(Put(l, src, x), z, n, h, c)
<1> DEFINE w == WithFlags(l, z, n, h, c)
           rb == ReadBack(l.at, l.m, x)
           lt == IF l.at < 32768 THEN x ELSE l.latch
<1>1. w \in LState /\ Keeps(w, l, {})
  BY WithFlagsFields DEF AreFlags
<1>2. w.at = l.at /\ w.m = l.m /\ w.latch = l.latch
  BY <1>1 DEF Keeps, Shared, Common
<1>3. rb \in B8 /\ lt \in B8
  BY ReadBackType DEF LState
<1>4. Fits("b", x) /\ Fits("m", rb) /\ Fits("latch", lt)
  BY <1>3 DEF Fits
<1>5. src = "b" => Put(w, src, x) = Set(w, "b", x) /\ Put(l, src, x) = Set(l, "b", x)
  <2> HIDE DEF w
  <2> QED BY <1>1, PutSet
<1>6. src = "hl" => Put(w, src, x) = Set(Set(w, "m", rb), "latch", lt) /\
        Put(l, src, x) = Set(Set(l, "m", rb), "latch", lt)
  <2> HIDE DEF w
  <2> QED BY <1>1, <1>2, PutSet
<1> HIDE DEF rb, lt
<1>7. Set(w, "b", x) = WithFlags(Set(l, "b", x), z, n, h, c)
  BY <1>4, FlagsSet
<1>8. Set(w, "m", rb) = WithFlags(Set(l, "m", rb), z, n, h, c) /\ Set(l, "m", rb) \in LState
  BY <1>4, FlagsSet, SetLegacy
<1>9. Set(WithFlags(Set(l, "m", rb), z, n, h, c), "latch", lt) = WithFlags(Set(Set(l, "m", rb), "latch", lt), z, n, h, c)
  BY <1>4, <1>8, FlagsSet
<1> HIDE DEF w
<1>10. CASE src = "b"
  BY <1>5, <1>7, <1>10 DEF w
<1>11. CASE src = "hl"
  BY <1>6, <1>8, <1>9, <1>11, Zenon DEF w
<1> QED BY <1>10, <1>11

\* INC and DEC.
LEMMA IncDecMatch ==
  ASSUME NEW i \in Instructions, i.op \in {"inc", "dec"}, NEW j, NEW l, Match(j, l)
  PROVE  Match(Run(j, i, FALSE), LegacyStep(l, i))
<1> DEFINE s == Begin(j, i)
           t == Past(l, i)
           d == IF i.op = "inc" THEN 1 ELSE -1
           n == IF i.op = "inc" THEN 0 ELSE 1
           half == IF i.op = "inc" THEN "update_h_inc" ELSE "update_h_dec"
           v == Byte(SrcOf(t, i.src) + d)
           end == WithFlags(Put(t, i.src, v), Num(v = 0), n, Num(Nibble(v) = IF i.op = "inc" THEN 0 ELSE 15), t.fc)
<1>1. i.src \in {"b", "hl"}
  BY Operands
<1>2. /\ Steps(i) = IncDecSteps(i)
      /\ LegacyStep(l, i) = IF i.op = "inc" THEN LegacyInc(t, i.src) ELSE LegacyDec(t, i.src)
  BY StepsOf, LegacyOf
<1>3. s \in JState /\ t \in LState /\ Like(s, s, s.v, t.fz, t.fn, t.fh, t.fc) /\ Keeps(s, t, {})
      /\ AreFlags(t.fz, t.fn, t.fh, t.fc)
  BY Begun
<1> HIDE DEF s, t
<1>4. LegacyStep(l, i) = end
  <2> DEFINE z1 == Num(v = 0)
             h1 == Num(Nibble(v) = 0)
             x == SrcOf(t, i.src)
  <2>1. v \in B8
    <3>1. x \in Int
      BY <1>1, <1>3, SrcType DEF B8
    <3>2. x + d \in Int
      <4> HIDE DEF x
      <4> QED BY <3>1
    <3> QED BY <3>2, Reduced
  <2>2. CASE i.op = "inc"
    <3>1. LegacyStep(l, i) = Put(WithFlags(t, z1, 0, h1, t.fc), i.src, v)
      BY <1>2, <2>2 DEF LegacyInc
    <3>2. AreFlags(z1, 0, h1, t.fc)
      BY <1>3, NumType DEF AreFlags
    <3> HIDE DEF z1, h1, v
    <3>3. Put(WithFlags(t, z1, 0, h1, t.fc), i.src, v) = WithFlags(Put(t, i.src, v), z1, 0, h1, t.fc)
      BY <1>1, <1>3, <2>1, <3>2, PutFlags
    <3> QED BY <2>2, <3>1, <3>3 DEF z1, h1
  <2>3. CASE i.op = "dec"
    <3>1. SrcOf(t, i.src) + -1 = SrcOf(t, i.src) - 1
      <4>1. x \in Int
        BY <1>1, <1>3, SrcType DEF B8
      <4> HIDE DEF x
      <4>2. x + -1 = x - 1
        BY <4>1
      <4> QED BY <4>2 DEF x
    <3> QED BY <1>2, <2>3, <3>1 DEF LegacyDec
  <2> QED BY <2>2, <2>3
<1>5. CASE i.src = "b"
  <2> DEFINE r1 == EmitNext(s, Fetch("b"), FALSE)
             r2 == EmitNext(r1, <<"add", d>>, FALSE)
             r3 == EmitNext(r2, <<"write_r8", "b">>, FALSE)
             r4 == EmitNext(r3, <<"update_zero", 0>>, FALSE)
             r5 == EmitNext(r4, <<"set_flag", <<N, n>>>>, FALSE)
             r6 == EmitNext(r5, <<half, 0>>, FALSE)
             x == SrcOf(t, "b")
             w == Set(s, "b", v)
             z1 == Num(v = 0)
             h1 == Num(Nibble(v) = IF i.op = "inc" THEN 0 ELSE 15)
  <2>1. SrcOf(s, "b") = x /\ d \in Int /\ n \in {0, 1} /\ v = Byte(x + d)
    BY <1>3, <1>5, SrcMatch
  <2> HIDE DEF d, n, v
  <2>2. Like(r1, s, x, t.fz, t.fn, t.fh, t.fc)
    BY <1>3, <2>1, LikeFetch
  <2> HIDE DEF r1, x
  <2>3. Like(r2, s, v, t.fz, t.fn, t.fh, t.fc)
    BY <2>1, <2>2, LikeAdd
  <2> HIDE DEF r2
  <2>4. Like(r3, w, v, t.fz, t.fn, t.fh, t.fc) /\ w \in JState
    BY <2>1, <2>3, <1>3, LikeWrite
  <2> HIDE DEF r3, w
  <2>5. Like(r4, w, v, z1, t.fn, t.fh, t.fc)
    BY <2>4, LikeZero
  <2> HIDE DEF r4, z1
  <2>6. Like(r5, w, v, z1, n, t.fh, t.fc)
    BY <2>1, <2>5, LikeSetFlag
  <2> HIDE DEF r5
  <2>7. Like(r6, w, v, z1, n, h1, t.fc)
    BY <2>6, LikeHalf DEF half
  <2> HIDE DEF r6, h1
  <2>8. v \in B8 /\ Put(t, "b", v) = Set(t, "b", v) /\ Fits("b", v)
    <3>1. v \in B8
      BY <2>3 DEF Like, JState
    <3> QED BY <3>1, <1>3, PutSet DEF Fits
  <2>9. Put(t, "b", v) \in LState /\ Keeps(w, Put(t, "b", v), {})
    BY <2>1, <2>8, <1>3, SetLegacy, SetKeeps DEF w
  <2>10. Match(r6, WithFlags(Put(t, "b", v), z1, n, h1, t.fc))
    BY <2>7, <2>9, LikeMatch
  <2>11. Run(j, i, FALSE) = r6
    <3>1. Steps(i) = <<Fetch("b"), <<"add", d>>, <<"write_r8", "b">>, <<"update_zero", 0>>, <<"set_flag", <<N, n>>>>, <<half, 0>>>>
      BY <1>2, <1>5 DEF IncDecSteps, d, n
    <3> HIDE DEF half
    <3> QED BY <3>1, Run6, ZenonT(40) DEF s, r1, r2, r3, r4, r5, r6
  <2>12. LegacyStep(l, i) = WithFlags(Put(t, "b", v), z1, n, h1, t.fc)
    BY <1>4, <1>5 DEF z1, h1
  <2> QED BY <2>10, <2>11, <2>12
<1>6. CASE i.src = "hl"
  <2> DEFINE r1 == EmitNext(s, Fetch("hl"), FALSE)
             r2 == EmitNext(r1, <<"add", d>>, FALSE)
             r3 == EmitNext(r2, <<"update_zero", 0>>, FALSE)
             r4 == EmitNext(r3, <<"set_flag", <<N, n>>>>, FALSE)
             r5 == EmitNext(r4, <<half, 0>>, FALSE)
             r6 == EmitNext(r5, <<"store_byte", 0>>, FALSE)
             x == SrcOf(t, "hl")
             z1 == Num(v = 0)
             h1 == Num(Nibble(v) = IF i.op = "inc" THEN 0 ELSE 15)
  <2>1. SrcOf(s, "hl") = x /\ d \in Int /\ n \in {0, 1} /\ v = Byte(x + d)
    BY <1>3, <1>6, SrcMatch
  <2> HIDE DEF d, n, v
  <2>2. Like(r1, s, x, t.fz, t.fn, t.fh, t.fc)
    BY <1>3, <2>1, LikeFetch
  <2> HIDE DEF r1, x
  <2>3. Like(r2, s, v, t.fz, t.fn, t.fh, t.fc)
    BY <2>1, <2>2, LikeAdd
  <2> HIDE DEF r2
  <2>4. Like(r3, s, v, z1, t.fn, t.fh, t.fc)
    BY <2>3, LikeZero
  <2> HIDE DEF r3, z1
  <2>5. Like(r4, s, v, z1, n, t.fh, t.fc)
    BY <2>1, <2>4, LikeSetFlag
  <2> HIDE DEF r4
  <2>6. Like(r5, s, v, z1, n, h1, t.fc)
    BY <2>5, LikeHalf DEF half
  <2> HIDE DEF r5, h1
  <2>7. Like(r6, Put(s, "hl", v), v, z1, n, h1, t.fc)
    BY <2>1, <2>6, <1>3, LikeBack DEF Back
  <2> HIDE DEF r6
  <2>8. v \in B8
    BY <2>3 DEF Like, JState
  <2>9. Put(t, "hl", v) \in LState /\ Keeps(Put(s, "hl", v), Put(t, "hl", v), {})
    BY <2>1, <2>8, <1>3, PutLegacy, PutKeeps
  <2>10. Match(r6, WithFlags(Put(t, "hl", v), z1, n, h1, t.fc))
    BY <2>7, <2>9, LikeMatch
  <2>11. Run(j, i, FALSE) = r6
    <3>1. Steps(i) = <<Fetch("hl"), <<"add", d>>, <<"update_zero", 0>>, <<"set_flag", <<N, n>>>>, <<half, 0>>, <<"store_byte", 0>>>>
      BY <1>2, <1>6 DEF IncDecSteps, d, n
    <3> HIDE DEF half
    <3> QED BY <3>1, Run6, ZenonT(40) DEF s, r1, r2, r3, r4, r5, r6
  <2>12. LegacyStep(l, i) = WithFlags(Put(t, "hl", v), z1, n, h1, t.fc)
    BY <1>4, <1>6 DEF z1, h1
  <2> QED BY <2>10, <2>11, <2>12
<1> QED BY <1>1, <1>5, <1>6

\* A list that leaves the flags alone.
LEMMA LikeSame ==
  ASSUME NEW r, NEW s, NEW x, NEW l \in LState, Like(r, s, x, l.fz, l.fn, l.fh, l.fc), Keeps(s, l, {})
  PROVE  Match(r, l)
<1>1. r \in JState /\ r.f = StoreFlags(l.fz, l.fn, l.fh, l.fc) /\ Keeps(r, s, {})
  BY DEF Like
<1>2. Keeps(r, l, {})
  BY <1>1 DEF Keeps
<1> QED BY <1>1, <1>2 DEF Match

\* BIT.
LEMMA BitMatch ==
  ASSUME NEW i \in Instructions, i.op = "bit", NEW j, NEW l, Match(j, l)
  PROVE  Match(Run(j, i, FALSE), LegacyStep(l, i))
<1> DEFINE s == Begin(j, i)
           t == Past(l, i)
           r1 == EmitNext(s, Fetch(i.src), FALSE)
           r2 == EmitNext(r1, <<"bit_test", i.k>>, FALSE)
           r3 == EmitNext(r2, <<"set_flag", <<N, 0>>>>, FALSE)
           r4 == EmitNext(r3, <<"set_flag", <<H, 1>>>>, FALSE)
           x == SrcOf(t, i.src)
           z1 == 1 - Bit(x, i.k)
<1>1. i.src \in {"b", "hl"} /\ i.k \in 0..7
  BY Operands
<1>2. Steps(i) = BitSteps(i) /\ LegacyStep(l, i) = LegacyBit(t, i)
  BY StepsOf, LegacyOf
<1>3. Run(j, i, FALSE) = r4
  BY <1>2, Run4, Zenon DEF BitSteps
<1>4. s \in JState /\ t \in LState /\ Like(s, s, s.v, t.fz, t.fn, t.fh, t.fc) /\ Keeps(s, t, {})
  BY Begun
<1> HIDE DEF s, t
<1>5. Like(r1, s, x, t.fz, t.fn, t.fh, t.fc)
  <2>1. SrcOf(s, i.src) = x
    BY <1>1, <1>4, SrcMatch
  <2> QED BY <1>1, <1>4, <2>1, LikeFetch
<1> HIDE DEF r1
<1>6. LegacyStep(l, i) = WithFlags(t, z1, 0, 1, t.fc)
  BY <1>2 DEF LegacyBit
<1> HIDE DEF x
<1>7. Like(r2, s, x, z1, t.fn, t.fh, t.fc)
  BY <1>1, <1>5, LikeTest
<1> HIDE DEF r2, z1
<1>8. Like(r3, s, x, z1, 0, t.fh, t.fc)
  BY <1>7, LikeSetFlag
<1> HIDE DEF r3
<1>9. Like(r4, s, x, z1, 0, 1, t.fc)
  BY <1>8, LikeSetFlag
<1> HIDE DEF r4
<1>10. Match(r4, WithFlags(t, z1, 0, 1, t.fc))
  BY <1>4, <1>9, LikeMatch
<1> QED BY <1>3, <1>6, <1>10

\* SET and RES.
LEMMA SetResMatch ==
  ASSUME NEW i \in Instructions, i.op \in {"set", "res"}, NEW j, NEW l, Match(j, l)
  PROVE  Match(Run(j, i, FALSE), LegacyStep(l, i))
<1> DEFINE s == Begin(j, i)
           t == Past(l, i)
           op == IF i.op = "set" THEN "bit_set" ELSE "bit_clear"
           bit == IF i.op = "set" THEN 1 ELSE 0
           r1 == EmitNext(s, Fetch(i.src), FALSE)
           r2 == EmitNext(r1, <<op, i.k>>, FALSE)
           r3 == EmitNext(r2, Back(i.src), FALSE)
           x == SrcOf(t, i.src)
           v == WithBit(x, i.k, bit)
<1>1. i.src \in {"b", "hl"} /\ i.k \in 0..7
  BY Operands
<1>2. Steps(i) = <<Fetch(i.src), <<op, i.k>>, Back(i.src)>>
  BY StepsOf DEF SetSteps, ResSteps
<1>3. LegacyStep(l, i) = Put(t, i.src, v)
  BY LegacyOf DEF LegacySet, LegacyRes
<1>4. Run(j, i, FALSE) = r3
  BY <1>2, Run3, Zenon
<1>5. s \in JState /\ t \in LState /\ Like(s, s, s.v, t.fz, t.fn, t.fh, t.fc) /\ Keeps(s, t, {})
  BY Begun
<1> HIDE DEF s, t
<1>6. Like(r1, s, x, t.fz, t.fn, t.fh, t.fc)
  <2>1. SrcOf(s, i.src) = x
    BY <1>1, <1>5, SrcMatch
  <2> QED BY <1>1, <1>5, <2>1, LikeFetch
<1> HIDE DEF r1, x
<1>7. Like(r2, s, v, t.fz, t.fn, t.fh, t.fc)
  BY <1>1, <1>6, LikeBitSet
<1>8. v \in B8
  BY <1>7 DEF Like, JState
<1> HIDE DEF r2, v
<1>9. Like(r3, Put(s, i.src, v), v, t.fz, t.fn, t.fh, t.fc)
  BY <1>1, <1>5, <1>7, LikeBack
<1> HIDE DEF r3
<1> DEFINE p == Put(t, i.src, v)
<1>10. p \in LState /\ p.fz = t.fz /\ p.fn = t.fn /\ p.fh = t.fh /\ p.fc = t.fc /\ Keeps(Put(s, i.src, v), p, {})
  BY <1>1, <1>5, <1>8, PutLegacy, PutKeeps
<1> HIDE DEF p
<1>11. Match(r3, p)
  BY <1>9, <1>10, LikeSame
<1> QED BY <1>3, <1>4, <1>11 DEF p

\* SCF and CCF.
LEMMA CarryMatch ==
  ASSUME NEW i \in Instructions, i.op \in {"scf", "ccf"}, NEW j, NEW l, Match(j, l)
  PROVE  Match(Run(j, i, FALSE), LegacyStep(l, i))
<1> DEFINE s == Begin(j, i)
           t == Past(l, i)
<1>1. Steps(i) = FlagSteps(i) /\ LegacyStep(l, i) = LegacyFlagOp(t, i.op)
  BY StepsOf, LegacyOf
<1>2. s \in JState /\ t \in LState /\ Like(s, s, s.v, t.fz, t.fn, t.fh, t.fc) /\ Keeps(s, t, {})
  BY Begun
<1>3. CASE i.op = "scf"
  <2> DEFINE r1 == EmitNext(s, <<"set_flag", <<N, 0>>>>, FALSE)
             r2 == EmitNext(r1, <<"set_flag", <<H, 0>>>>, FALSE)
             r3 == EmitNext(r2, <<"set_flag", <<C, 1>>>>, FALSE)
  <2>1. Steps(i) = <<<<"set_flag", <<N, 0>>>>, <<"set_flag", <<H, 0>>>>, <<"set_flag", <<C, 1>>>>>>
    BY <1>1, <1>3 DEF FlagSteps
  <2>2. Run(j, i, FALSE) = r3
    BY <2>1, Run3, Zenon
  <2> HIDE DEF s, t
  <2>3. Like(r1, s, s.v, t.fz, 0, t.fh, t.fc)
    BY <1>2, LikeSetFlag
  <2> HIDE DEF r1
  <2>4. Like(r2, s, s.v, t.fz, 0, 0, t.fc)
    BY <2>3, LikeSetFlag
  <2> HIDE DEF r2
  <2>5. Like(r3, s, s.v, t.fz, 0, 0, 1)
    BY <2>4, LikeSetFlag
  <2> HIDE DEF r3
  <2>6. LegacyStep(l, i) = WithFlags(t, t.fz, 0, 0, 1)
    BY <1>1, <1>3 DEF LegacyFlagOp
  <2> QED BY <1>2, <2>2, <2>5, <2>6, LikeMatch
<1>4. CASE i.op = "ccf"
  <2> DEFINE r1 == EmitNext(s, <<"toggle_flag", C>>, FALSE)
             r2 == EmitNext(r1, <<"set_flag", <<N, 0>>>>, FALSE)
             r3 == EmitNext(r2, <<"set_flag", <<H, 0>>>>, FALSE)
             c1 == 1 - t.fc
  <2>1. Steps(i) = <<<<"toggle_flag", C>>, <<"set_flag", <<N, 0>>>>, <<"set_flag", <<H, 0>>>>>>
    BY <1>1, <1>4 DEF FlagSteps
  <2>2. Run(j, i, FALSE) = r3
    BY <2>1, Run3, Zenon
  <2>3. LegacyStep(l, i) = WithFlags(t, t.fz, 0, 0, c1)
    BY <1>1, <1>4 DEF LegacyFlagOp
  <2> HIDE DEF s, t
  <2>4. Like(r1, s, s.v, t.fz, t.fn, t.fh, c1)
    BY <1>2, LikeToggle
  <2> HIDE DEF r1, c1
  <2>5. Like(r2, s, s.v, t.fz, 0, t.fh, c1)
    BY <2>4, LikeSetFlag
  <2> HIDE DEF r2
  <2>6. Like(r3, s, s.v, t.fz, 0, 0, c1)
    BY <2>5, LikeSetFlag
  <2> HIDE DEF r3
  <2> QED BY <1>2, <2>2, <2>3, <2>6, LikeMatch
<1> QED BY <1>3, <1>4

\* CPL.
LEMMA CplMatch ==
  ASSUME NEW i \in Instructions, i.op = "cpl", NEW j, NEW l, Match(j, l)
  PROVE  Match(Run(j, i, FALSE), LegacyStep(l, i))
<1> DEFINE s == Begin(j, i)
           t == Past(l, i)
           r1 == EmitNext(s, <<"read_r8", "a">>, FALSE)
           r2 == EmitNext(r1, <<"mvn", 0>>, FALSE)
           r3 == EmitNext(r2, <<"write_r8", "a">>, FALSE)
           r4 == EmitNext(r3, <<"set_flag", <<N, 1>>>>, FALSE)
           r5 == EmitNext(r4, <<"set_flag", <<H, 1>>>>, FALSE)
           x == SrcOf(t, "a")
           v == 255 - x
           w == Set(s, "a", v)
<1>1. Steps(i) = FlagSteps(i) /\ LegacyStep(l, i) = LegacyFlagOp(t, i.op)
  BY StepsOf, LegacyOf
<1>2. Steps(i) = <<<<"read_r8", "a">>, <<"mvn", 0>>, <<"write_r8", "a">>, <<"set_flag", <<N, 1>>>>, <<"set_flag", <<H, 1>>>>>>
  BY <1>1 DEF FlagSteps
<1>3. Run(j, i, FALSE) = r5
  BY <1>2, Run5, ZenonT(40)
<1>4. s \in JState /\ t \in LState /\ Like(s, s, s.v, t.fz, t.fn, t.fh, t.fc) /\ Keeps(s, t, {})
  BY Begun
<1> HIDE DEF s, t
<1>5. Like(r1, s, x, t.fz, t.fn, t.fh, t.fc)
  <2>1. SrcOf(s, "a") = x
    BY <1>4, SrcMatch
  <2> QED BY <1>4, <2>1, LikeFetch DEF Fetch
<1>6. x = t.a
  BY DEF SrcOf
<1> HIDE DEF r1, x
<1>7. Like(r2, s, v, t.fz, t.fn, t.fh, t.fc)
  BY <1>5, LikeMvn, Zenon
<1>8. v \in B8
  BY <1>7 DEF Like, JState
<1>9. LegacyStep(l, i) = WithFlags(Set(t, "a", v), t.fz, 1, 1, t.fc)
  <2> DEFINE u == WithFlags(t, t.fz, 1, 1, t.fc)
  <2>1. LegacyStep(l, i) = [u EXCEPT !.a = 255 - @]
    BY <1>1 DEF LegacyFlagOp
  <2>2. u \in LState /\ u.a = t.a
    BY <1>4 DEF WithFlags, LState
  <2>3. u = WithFlags(t, t.fz, 1, 1, t.fc)
    OBVIOUS
  <2> HIDE DEF u
  <2>4. [u EXCEPT !.a = 255 - @] = Set(u, "a", v)
    BY <1>6, <2>2 DEF Set, LState
  <2>5. Set(u, "a", v) = WithFlags(Set(t, "a", v), t.fz, 1, 1, t.fc)
    <3> HIDE DEF v
    <3> QED BY <1>4, <1>8, <2>3, FlagsSet DEF Fits
  <2> QED BY <2>1, <2>4, <2>5
<1> HIDE DEF r2, v
<1>10. Like(r3, w, v, t.fz, t.fn, t.fh, t.fc) /\ w \in JState
  BY <1>4, <1>7, LikeWrite
<1>11. Set(t, "a", v) \in LState /\ Keeps(w, Set(t, "a", v), {})
  BY <1>4, <1>8, SetLegacy, SetKeeps DEF Fits
<1> HIDE DEF r3, w
<1>12. Like(r4, w, v, t.fz, 1, t.fh, t.fc)
  BY <1>10, LikeSetFlag
<1> HIDE DEF r4
<1>13. Like(r5, w, v, t.fz, 1, 1, t.fc)
  BY <1>12, LikeSetFlag
<1> HIDE DEF r5
<1> QED BY <1>3, <1>9, <1>11, <1>13, LikeMatch

-----------------------------------------------------------------------------
(* Shifts. *)

\* What a shift makes of x with the carry c, and the bit that falls out.
Shifted(kind, x, c) ==
  CASE kind = "rlc" -> Byte(2 * x) + Bit(x, 7)
    [] kind = "rrc" -> Half(x) + 128 * (x % 2)
    [] kind = "rl" -> Byte(2 * x) + c
    [] kind = "rr" -> Half(x) + 128 * c
    [] kind = "sla" -> Byte(2 * x)
    [] kind = "sra" -> Half(x) + 128 * Bit(x, 7)
    [] kind = "srl" -> Half(x)
    [] kind = "swap" -> 16 * Nibble(x) + (x \div 16)
FellOut(kind, x) ==
  CASE kind \in {"rlc", "rl", "sla"} -> Bit(x, 7) [] kind = "swap" -> 0 [] OTHER -> x % 2

\* A shift leaves a byte, and a bit falls out.
LEMMA ShiftedType ==
  ASSUME NEW kind \in ShiftOps, NEW x \in B8, NEW c \in {0, 1}
  PROVE  Shifted(kind, x, c) \in B8 /\ FellOut(kind, x) \in {0, 1}
<1>1. Bit(x, 7) \in {0, 1} /\ x % 2 \in {0, 1}
  BY BitType DEF B8
<1>2. Byte(2 * x) \in 0..254
  <2>1. x \in 0..127 => (2 * x) % 256 = 2 * x
    BY DEF B8
  <2>2. x \in 128..255 => (2 * x) % 256 = 2 * x - 256
    BY DEF B8
  <2> QED BY <2>1, <2>2 DEF Byte, B8
<1>3. Half(x) \in 0..127 /\ 16 * Nibble(x) + (x \div 16) \in B8
  BY DEF B8, Half, Nibble
<1> DEFINE e == Byte(2 * x)
           g == Half(x)
           p == x % 2
           q == Bit(x, 7)
<1>4. e + q \in B8 /\ g + 128 * p \in B8 /\ e + c \in B8 /\ g + 128 * c \in B8 /\ e \in B8 /\ g +
        128 * q \in B8 /\ g \in B8
  <2>1. e \in 0..254 /\ g \in 0..127 /\ p \in {0, 1} /\ q \in {0, 1}
    BY <1>1, <1>2, <1>3
  <2> HIDE DEF e, g, p, q
  <2> QED BY <2>1 DEF B8
<1>5. FellOut(kind, x) \in {0, 1}
  BY <1>1 DEF FellOut
<1>6. Shifted(kind, x, c) \in B8
  <2> DEFINE y == 16 * Nibble(x) + (x \div 16)
  <2>1. kind \in {"rlc", "rrc", "rl", "rr", "sla", "sra", "swap", "srl"}
    BY DEF ShiftOps
  <2>2. Shifted(kind, x, c) = CASE kind = "rlc" -> e + q
    [] kind = "rrc" -> g + 128 * p
    [] kind = "rl" -> e + c
    [] kind = "rr" -> g + 128 * c
    [] kind = "sla" -> e
    [] kind = "sra" -> g + 128 * q
    [] kind = "srl" -> g
    [] kind = "swap" -> y
    BY Zenon DEF Shifted
  <2>3. y \in B8
    BY <1>3
  <2> HIDE DEF e, g, p, q, y
  <2> QED BY <1>4, <2>1, <2>2, <2>3
<1> QED BY <1>5, <1>6

\* The shift emitter, with or without Z.
LEMMA LikeShift ==
  ASSUME NEW r, NEW s, NEW x, NEW z, NEW n, NEW h, NEW c, Like(r, s, x, z, n, h, c), NEW kind \in ShiftOps
  PROVE  LET v == Shifted(kind, x, c)
             out == FellOut(kind, x)
         IN  /\ Like(EmitNext(r, <<"shift", kind>>, FALSE), s, v, Num(v = 0), 0, 0, out)
             /\ Like(EmitNext(r, <<"shift_keep_z", kind>>, FALSE), s, v, z, 0, 0, out)
<1> DEFINE v == Shifted(kind, x, c)
           out == FellOut(kind, x)
           t == Valued(r, v)
           u == UpdateZero(t)
           z1 == Num(v = 0)
<1>1. r \in JState /\ r.v = x /\ x \in B8 /\ AreFlags(z, n, h, c) /\ r.f = StoreFlags(z, n, h, c)
  BY DEF Like, JState, AreFlags
<1>2. Bit(r.f, C) = c
  BY <1>1, FlagBits DEF AreFlags
<1>3. v \in B8 /\ out \in {0, 1}
  BY <1>1, ShiftedType DEF AreFlags
<1>4. /\ EmitNext(r, <<"shift", kind>>, FALSE) = Shift(r, kind, TRUE)
      /\ EmitNext(r, <<"shift_keep_z", kind>>, FALSE) = Shift(r, kind, FALSE)
  BY <1>1, EmitsAll, EmitFlags, Zenon
<1>5. /\ Shift(r, kind, TRUE) = SetFlag(SetFlag(SetFlag(u, N, 0), H, 0), C, out)
      /\ Shift(r, kind, FALSE) = SetFlag(SetFlag(SetFlag(t, N, 0), H, 0), C, out)
  BY <1>1, <1>2, Zenon DEF Shift, Shifted, FellOut, Valued
<1> HIDE DEF v, out
<1>6. Like(t, s, v, z, n, h, c)
  BY <1>3, LikeValue
<1>7. u = SetFlag(t, Z, z1)
  <2>1. t.v = v
    BY <1>6 DEF Like
  <2> QED BY <2>1 DEF UpdateZero
<1>8. z1 \in {0, 1}
  BY NumType
<1> HIDE DEF t, z1, u
<1>9. Like(u, s, v, z1, n, h, c)
  BY <1>6, <1>7, <1>8, LikeFlag
<1>10. Like(SetFlag(u, N, 0), s, v, z1, 0, h, c) /\ Like(SetFlag(t, N, 0), s, v, z, 0, h, c)
  BY <1>6, <1>9, LikeFlag
<1>11. Like(SetFlag(SetFlag(u, N, 0), H, 0), s, v, z1, 0, 0, c) /\
         Like(SetFlag(SetFlag(t, N, 0), H, 0), s, v, z, 0, 0, c)
  BY <1>10, LikeFlag
<1>12. /\ Like(SetFlag(SetFlag(SetFlag(u, N, 0), H, 0), C, out), s, v, z1, 0, 0, out)
       /\ Like(SetFlag(SetFlag(SetFlag(t, N, 0), H, 0), C, out), s, v, z, 0, 0, out)
  BY <1>3, <1>11, LikeFlag
<1>13. Like(EmitNext(r, <<"shift", kind>>, FALSE), s, v, z1, 0, 0, out)
  BY <1>4, <1>5, <1>12, Zenon
<1>14. Like(EmitNext(r, <<"shift_keep_z", kind>>, FALSE), s, v, z, 0, 0, out)
  BY <1>4, <1>5, <1>12, Zenon
<1> QED BY <1>13, <1>14, Zenon DEF v, out, z1

\* The rotates of A.
LEMMA RotateMatch ==
  ASSUME NEW i \in Instructions, i.op \in {"rlca", "rrca", "rla", "rra"}, NEW j, NEW l, Match(j, l)
  PROVE  Match(Run(j, i, FALSE), LegacyStep(l, i))
<1> DEFINE s == Begin(j, i)
           t == Past(l, i)
           kind == CASE i.op = "rlca" -> "rlc" [] i.op = "rrca" -> "rrc" [] i.op = "rla" -> "rl" [] i.op = "rra" -> "rr"
           r1 == EmitNext(s, <<"read_r8", "a">>, FALSE)
           r2 == EmitNext(r1, <<"shift_keep_z", kind>>, FALSE)
           r3 == EmitNext(r2, <<"set_flag", <<Z, 0>>>>, FALSE)
           r4 == EmitNext(r3, <<"write_r8", "a">>, FALSE)
           x == SrcOf(t, "a")
           v == Shifted(kind, x, t.fc)
           out == FellOut(kind, x)
           w == Set(s, "a", v)
<1>1. Steps(i) = RotateASteps(i) /\ LegacyStep(l, i) = LegacyRotateA(t, i.op)
  BY StepsOf, LegacyOf
<1>2. Steps(i) = <<<<"read_r8", "a">>, <<"shift_keep_z", kind>>, <<"set_flag", <<Z, 0>>>>, <<"write_r8", "a">>>>
  BY <1>1, Zenon DEF RotateASteps
<1>3. Run(j, i, FALSE) = r4
  <2> HIDE DEF kind
  <2> QED BY <1>2, Run4, Zenon
<1>4. s \in JState /\ t \in LState /\ Like(s, s, s.v, t.fz, t.fn, t.fh, t.fc) /\ Keeps(s, t, {})
  BY Begun
<1>5. kind \in {"rlc", "rrc", "rl", "rr"} /\ kind \in ShiftOps
  BY DEF ShiftOps
<1> HIDE DEF s, t
<1>6. Like(r1, s, x, t.fz, t.fn, t.fh, t.fc)
  <2>1. SrcOf(s, "a") = x
    BY <1>4, SrcMatch
  <2> QED BY <1>4, <2>1, LikeFetch DEF Fetch
<1>7. x = t.a /\ x \in B8
  BY <1>4 DEF SrcOf, LState
<1>8. LegacyStep(l, i) = WithFlags(Set(t, "a", v), 0, 0, 0, out)
  <2> DEFINE u == WithFlags(t, 0, 0, 0, out)
             left == i.op \in {"rlca", "rla"}
             o == IF left THEN Bit(t.a, 7) ELSE t.a % 2
             in == IF i.op \in {"rlca", "rrca"} THEN o ELSE t.fc
             y == IF left THEN Byte(2 * x) + in ELSE Half(x) + 128 * in
  <2>1. o = out
    BY <1>7 DEF FellOut
  <2>2. y = v
    <3>1. CASE i.op = "rlca"
      BY <1>7, <3>1 DEF Shifted
    <3>2. CASE i.op = "rrca"
      BY <1>7, <3>2 DEF Shifted
    <3>3. CASE i.op = "rla"
      BY <1>7, <3>3 DEF Shifted
    <3>4. CASE i.op = "rra"
      BY <1>7, <3>4 DEF Shifted
    <3> QED BY <3>1, <3>2, <3>3, <3>4
  <2>3. u \in LState /\ u.a = x
    <3>1. out \in {0, 1}
      BY <1>5, <1>7, <1>4, ShiftedType DEF LState
    <3> HIDE DEF out
    <3> QED BY <1>4, <1>7, <3>1 DEF WithFlags, LState
  <2>4. LegacyRotateA(t, i.op) = [WithFlags(t, 0, 0, 0, o) EXCEPT !.a = IF left THEN Byte(2 * @) +
          in ELSE Half(@) + 128 * in]
    BY Zenon DEF LegacyRotateA
  <2>5. WithFlags(t, 0, 0, 0, o) = u
    BY <2>1
  <2> HIDE DEF u, in
  <2>6. LegacyRotateA(t, i.op) = [u EXCEPT !.a = y]
    BY <2>3, <2>4, <2>5
  <2> HIDE DEF v, out, y
  <2>7. LegacyRotateA(t, i.op) = Set(u, "a", v)
    BY <2>2, <2>6 DEF Set
  <2>8. v \in B8
    <3>1. Shifted(kind, x, t.fc) \in B8
      BY <1>5, <1>7, <1>4, ShiftedType DEF LState
    <3> QED BY <3>1 DEF v
  <2>9. Set(u, "a", v) = WithFlags(Set(t, "a", v), 0, 0, 0, out)
    BY <1>4, <2>8, FlagsSet DEF u, Fits
  <2> QED BY <1>1, <2>7, <2>9
<1> HIDE DEF r1, x, kind
<1>9. Like(r2, s, v, t.fz, 0, 0, out)
  BY <1>5, <1>6, LikeShift
<1> HIDE DEF r2, v, out
<1>10. Like(r3, s, v, 0, 0, 0, out) /\ v \in B8
  <2>1. Like(r3, s, v, 0, 0, 0, out)
    BY <1>9, LikeSetFlag
  <2> QED BY <1>9, <2>1 DEF Like, JState
<1> HIDE DEF r3
<1>11. Like(r4, w, v, 0, 0, 0, out)
  BY <1>4, <1>10, LikeWrite
<1> HIDE DEF r4
<1>12. Set(t, "a", v) \in LState /\ Keeps(w, Set(t, "a", v), {})
  BY <1>4, <1>10, SetLegacy, SetKeeps DEF Fits
<1> QED BY <1>3, <1>8, <1>11, <1>12, LikeMatch

\* A location holds what is written to it unless it is the cartridge or a
\* register of the machine.
Holds(l, src) == src = "b" \/ ~(l.at < 32768 \/ l.at \in 65280..65407)

\* Such a location reads what was written to it.
LEMMA ReadsBack ==
  ASSUME NEW l \in LState, Holds(l, "hl"), NEW old, NEW x
  PROVE  ReadBack(l.at, old, x) = x /\ ~(l.at < 32768)
<1> DEFINE at == l.at
<1>1. at \in B16 /\ ~(at < 32768) /\ at \notin 65280..65407
  BY DEF LState, Holds
<1> HIDE DEF at
<1>2. at # 65284 /\ at # 65287 /\ at # 65295
  BY <1>1
<1>3. ReadBack(at, old, x) = x
  BY <1>1, <1>2 DEF ReadBack
<1> QED BY <1>1, <1>3 DEF at

\* So LegacyCpu, reading the location again, finds the value computed.
LEMMA PutHolds ==
  ASSUME NEW l \in LState, NEW src \in {"b", "hl"}, NEW x \in B8, Holds(l, src)
  PROVE  SrcOf(Put(l, src, x), src) = x
<1>1. CASE src = "b"
  <2>1. Put(l, src, x) = Set(l, "b", x)
    BY <1>1, PutSet
  <2>2. Set(l, "b", x).b = x
    BY DEF Set, LState
  <2> QED BY <1>1, <2>1, <2>2 DEF SrcOf
<1>2. CASE src = "hl"
  <2> DEFINE rb == ReadBack(l.at, l.m, x)
             lt == IF l.at < 32768 THEN x ELSE l.latch
  <2>1. rb = x
    BY <1>2, ReadsBack
  <2>2. Put(l, src, x) = Set(Set(l, "m", rb), "latch", lt)
    BY <1>2, PutSet
  <2> HIDE DEF rb, lt
  <2>3. Set(Set(l, "m", rb), "latch", lt).m = rb
    BY DEF Set, LState
  <2>4. Put(l, src, x).m = x
    BY <2>1, <2>2, <2>3
  <2> QED BY <1>2, <2>4 DEF SrcOf
<1> QED BY <1>1, <1>2

\* Writing the same byte twice.
LEMMA PutTwice ==
  ASSUME NEW l \in LState, NEW src \in {"b", "hl"}, NEW x \in B8, Holds(l, src)
  PROVE  Put(Put(l, src, x), src, x) = Put(l, src, x)
<1> DEFINE p == Put(l, src, x)
<1>1. p \in LState
  BY PutLegacy
<1>2. CASE src = "b"
  <2>1. p = Set(l, "b", x)
    BY <1>2, PutSet
  <2> HIDE DEF p
  <2>2. Put(p, src, x) = Set(p, "b", x)
    BY <1>1, <1>2, PutSet
  <2>3. Set(Set(l, "b", x), "b", x) = Set(l, "b", x)
    BY DEF Set, LState
  <2> QED BY <2>1, <2>2, <2>3 DEF p
<1>3. CASE src = "hl"
  <2> DEFINE rb == ReadBack(l.at, l.m, x)
             lt == IF l.at < 32768 THEN x ELSE l.latch
  <2>1. rb = x /\ lt = l.latch
    BY <1>3, ReadsBack
  <2>2. p = Set(Set(l, "m", x), "latch", l.latch)
    BY <1>3, <2>1, PutSet
  <2>3. p.at = l.at /\ p.latch = l.latch
    <3> HIDE DEF p
    <3> QED BY <2>2 DEF Set, LState
  <2>4. ReadBack(p.at, p.m, x) = x /\ ~(p.at < 32768)
    <3> HIDE DEF p
    <3>1. Holds(p, "hl")
      BY <1>3, <2>3 DEF Holds
    <3> QED BY <1>1, <3>1, ReadsBack
  <2> HIDE DEF p
  <2>5. Put(p, src, x) = Set(Set(p, "m", x), "latch", l.latch)
    BY <1>1, <1>3, <2>3, <2>4, PutSet
  <2> DEFINE k == l.latch
  <2>6. p = Set(Set(l, "m", x), "latch", k) /\ Put(p, src, x) = Set(Set(p, "m", x), "latch", k)
    BY <2>2, <2>5
  <2> HIDE DEF k
  <2>7. Set(Set(Set(Set(l, "m", x), "latch", k), "m", x), "latch", k) = Set(Set(l, "m", x), "latch", k)
    BY DEF Set, LState
  <2> QED BY <2>6, <2>7 DEF p
<1> QED BY <1>2, <1>3

\* Shifts whose Z LegacyCpu takes from the value it computed.
LEMMA ShiftFromValue ==
  ASSUME NEW t, NEW kind \in ShiftOps \ {"rrc", "rl", "sla"}, NEW src
  PROVE  LegacyShift(t, kind, src) =
           FromValue(t, src, Shifted(kind, SrcOf(t, src), t.fc), FellOut(kind, SrcOf(t, src)))
<1>1. CASE kind = "rlc"
  BY <1>1 DEF LegacyShift, LegacyRlc, Shifted, FellOut
<1>2. CASE kind = "rr"
  BY <1>2 DEF LegacyShift, LegacyRr, Shifted, FellOut
<1>3. CASE kind = "sra"
  BY <1>3 DEF LegacyShift, LegacySra, Shifted, FellOut
<1>4. CASE kind = "swap"
  BY <1>4 DEF LegacyShift, LegacySwap, Shifted, FellOut
<1>5. CASE kind = "srl"
  BY <1>5 DEF LegacyShift, LegacySrl, Shifted, FellOut
<1> QED BY <1>1, <1>2, <1>3, <1>4, <1>5 DEF ShiftOps

\* Clearing the low bit of a byte shifted to the left.
LEMMA EvenByte ==
  ASSUME NEW x \in B8
  PROVE  Byte(2 * x) \in B8 /\ And(Byte(2 * x), 254) = Byte(2 * x)
<1> DEFINE e == Byte(2 * x)
<1>1. e \in B8 /\ e % 2 = 0
  <2>1. x \in 0..127 => (2 * x) % 256 = 2 * x
    BY DEF B8
  <2>2. x \in 128..255 => (2 * x) % 256 = 2 * (x - 128)
    BY DEF B8
  <2>3. PICK q \in 0..127 : e = 2 * q
    BY <2>1, <2>2 DEF Byte, B8
  <2> HIDE DEF e
  <2> QED BY <2>3 DEF B8
<1> HIDE DEF e
<1>2. And(e, 254) = e - (e % 2)
  BY <1>1, AndEvenMask
<1>3. And(e, 254) = e
  BY <1>1, <1>2 DEF B8
<1> QED BY <1>1, <1>3 DEF e

\* Shifts whose Z LegacyCpu takes from the location read again, where the
\* location holds what was written.
LEMMA ShiftFromReread ==
  ASSUME NEW t \in LState, NEW kind \in {"rrc", "rl", "sla"}, NEW src \in {"b", "hl"}, Holds(t, src)
  PROVE  LegacyShift(t, kind, src) =
           FromValue(t, src, Shifted(kind, SrcOf(t, src), t.fc), FellOut(kind, SrcOf(t, src)))
<1> DEFINE x == SrcOf(t, src)
           v == Shifted(kind, x, t.fc)
           out == FellOut(kind, x)
<1>1. x \in B8 /\ kind \in ShiftOps
  BY SrcType DEF ShiftOps
<1>2. v \in B8
  <2>1. t.fc \in {0, 1}
    BY DEF LState
  <2> HIDE DEF x
  <2> QED BY <1>1, <2>1, ShiftedType
<1>3. LegacyShift(t, kind, src) = FromReread(t, src, v, out)
  <2>1. CASE kind = "rrc"
    BY <2>1 DEF LegacyShift, LegacyRrc, Shifted, FellOut
  <2>2. CASE kind = "rl"
    BY <2>2 DEF LegacyShift, LegacyRl, Shifted, FellOut
  <2>3. CASE kind = "sla"
    <3> DEFINE once == Put(t, src, v)
    <3>1. v = Byte(2 * x) /\ out = Bit(x, 7)
      BY <2>3 DEF Shifted, FellOut
    <3>2. LegacyShift(t, kind, src) = FromReread(Put(t, src, Byte(2 * x)), src, And(SrcOf(Put(t, src, Byte(2 * x)), src), 254), Bit(x, 7))
      BY <2>3, Zenon DEF LegacyShift, LegacySla
    <3> HIDE DEF x
    <3>3. And(v, 254) = v
      BY <1>1, <3>1, EvenByte
    <3>4. LegacyShift(t, kind, src) = FromReread(once, src, And(SrcOf(once, src), 254), out)
      BY <3>1, <3>2
    <3> HIDE DEF v, out
    <3>5. SrcOf(once, src) = v /\ Put(once, src, v) = once
      BY <1>2, PutHolds, PutTwice
    <3>6. LegacyShift(t, kind, src) = FromReread(once, src, v, out)
      BY <3>3, <3>4, <3>5
    <3>7. FromReread(once, src, v, out) = FromReread(t, src, v, out)
      BY <3>5, Zenon DEF FromReread
    <3> QED BY <3>6, <3>7
  <2> QED BY <2>1, <2>2, <2>3
<1> HIDE DEF v, out
<1>4. SrcOf(Put(t, src, v), src) = v
  BY <1>2, PutHolds
<1>5. FromReread(t, src, v, out) = FromValue(t, src, v, out)
  BY <1>4, Zenon DEF FromReread, FromValue
<1> QED BY <1>3, <1>5 DEF v, out

\* What the list of a shift comes to.
LEMMA ShiftList ==
  ASSUME NEW i \in Instructions, i.op \in ShiftOps, NEW j, NEW l, Match(j, l)
  PROVE  LET t == Past(l, i)
         IN  Match(Run(j, i, FALSE),
                   FromValue(t, i.src, Shifted(i.op, SrcOf(t, i.src), t.fc), FellOut(i.op, SrcOf(t, i.src))))
<1> DEFINE s == Begin(j, i)
           t == Past(l, i)
           r1 == EmitNext(s, Fetch(i.src), FALSE)
           r2 == EmitNext(r1, <<"shift", i.op>>, FALSE)
           r3 == EmitNext(r2, Back(i.src), FALSE)
           x == SrcOf(t, i.src)
           v == Shifted(i.op, x, t.fc)
           out == FellOut(i.op, x)
           z1 == Num(v = 0)
<1>1. i.src \in {"b", "hl"}
  BY Operands
<1>2. Steps(i) = <<Fetch(i.src), <<"shift", i.op>>, Back(i.src)>>
  BY StepsOf DEF ShiftSteps
<1>3. Run(j, i, FALSE) = r3
  BY <1>2, Run3, Zenon
<1>4. s \in JState /\ t \in LState /\ Like(s, s, s.v, t.fz, t.fn, t.fh, t.fc) /\ Keeps(s, t, {})
  BY Begun
<1> HIDE DEF s, t
<1>5. Like(r1, s, x, t.fz, t.fn, t.fh, t.fc)
  <2>1. SrcOf(s, i.src) = x
    BY <1>1, <1>4, SrcMatch
  <2> QED BY <1>1, <1>4, <2>1, LikeFetch
<1> HIDE DEF r1, x
<1>6. Like(r2, s, v, z1, 0, 0, out)
  BY <1>5, LikeShift
<1>7. v \in B8
  BY <1>6 DEF Like, JState
<1> HIDE DEF r2, v, out, z1
<1>8. Like(r3, Put(s, i.src, v), v, z1, 0, 0, out)
  BY <1>1, <1>4, <1>6, LikeBack
<1> HIDE DEF r3
<1>9. Put(t, i.src, v) \in LState /\ Keeps(Put(s, i.src, v), Put(t, i.src, v), {})
  BY <1>1, <1>4, <1>7, PutLegacy, PutKeeps
<1>10. Match(r3, WithFlags(Put(t, i.src, v), z1, 0, 0, out))
  BY <1>8, <1>9, LikeMatch
<1> QED BY <1>3, <1>10, Zenon DEF FromValue, v, out, x, t, z1

\* Shifts.
LEMMA ShiftMatch ==
  ASSUME NEW i \in Instructions, i.op \in ShiftOps, NEW j, NEW l, Match(j, l),
         i.op \in {"rrc", "rl", "sla"} => Holds(l, i.src)
  PROVE  Match(Run(j, i, FALSE), LegacyStep(l, i))
<1> DEFINE t == Past(l, i)
           x == SrcOf(t, i.src)
<1>1. i.src \in {"b", "hl"}
  BY Operands
<1>2. t \in LState /\ l \in LState
  BY Begun DEF Match
<1>3. LegacyStep(l, i) = LegacyShift(t, i.op, i.src)
  BY LegacyOf
<1>4. Match(Run(j, i, FALSE), FromValue(t, i.src, Shifted(i.op, x, t.fc), FellOut(i.op, x)))
  BY ShiftList
<1>5. CASE i.op \notin {"rrc", "rl", "sla"}
  <2>1. LegacyShift(t, i.op, i.src) = FromValue(t, i.src, Shifted(i.op, x, t.fc), FellOut(i.op, x))
    BY <1>5, ShiftFromValue
  <2> QED BY <1>3, <1>4, <2>1
<1>6. CASE i.op \in {"rrc", "rl", "sla"}
  <2>1. t.at = l.at
    BY <1>2 DEF Past, LState
  <2>2. Holds(t, i.src)
    BY <1>6, <2>1 DEF Holds
  <2> HIDE DEF t
  <2>3. LegacyShift(t, i.op, i.src) = FromValue(t, i.src, Shifted(i.op, x, t.fc), FellOut(i.op, x))
    BY <1>1, <1>2, <1>6, <2>2, ShiftFromReread
  <2> QED BY <1>3, <1>4, <2>3
<1> QED BY <1>5, <1>6

\* LegacyCpu keeps its widths in every shift.
LEMMA ShiftType ==
  ASSUME NEW t \in LState, NEW kind \in ShiftOps, NEW src \in {"b", "hl"}
  PROVE  LegacyShift(t, kind, src) \in LState
<1> DEFINE x == SrcOf(t, src)
           v == Shifted(kind, x, t.fc)
           out == FellOut(kind, x)
<1>1. x \in B8 /\ t.fc \in {0, 1}
  BY SrcType DEF LState
<1>2. v \in B8 /\ out \in {0, 1}
  <2> HIDE DEF x
  <2> QED BY <1>1, ShiftedType
<1>3. ASSUME NEW q \in LState, NEW y \in B8, NEW z
      PROVE  WithFlags(Put(q, src, y), Num(z), 0, 0, out) \in LState
  <2>1. Put(q, src, y) \in LState
    BY PutLegacy
  <2> HIDE DEF out
  <2> QED BY <1>2, <2>1, NumType, WithFlagsFields
<1>4. CASE kind \notin {"rrc", "rl", "sla"}
  <2>1. LegacyShift(t, kind, src) = FromValue(t, src, v, out)
    BY <1>4, ShiftFromValue
  <2>2. FromValue(t, src, v, out) = WithFlags(Put(t, src, v), Num(v = 0), 0, 0, out)
    BY Zenon DEF FromValue
  <2> HIDE DEF v, out
  <2> QED BY <1>2, <1>3, <2>1, <2>2
<1>5. CASE kind \in {"rrc", "rl"}
  <2>1. CASE kind = "rrc"
    <3>1. LegacyShift(t, kind, src) = FromReread(t, src, v, out)
      BY <2>1 DEF LegacyShift, LegacyRrc, Shifted, FellOut
    <3> HIDE DEF v, out
    <3> DEFINE w == Put(t, src, v)
    <3>2. FromReread(t, src, v, out) = WithFlags(w, Num(SrcOf(w, src) = 0), 0, 0, out)
      BY Zenon DEF FromReread
    <3> QED BY <1>2, <1>3, <3>1, <3>2
  <2>2. CASE kind = "rl"
    <3>1. LegacyShift(t, kind, src) = FromReread(t, src, v, out)
      BY <2>2 DEF LegacyShift, LegacyRl, Shifted, FellOut
    <3> HIDE DEF v, out
    <3> DEFINE w == Put(t, src, v)
    <3>2. FromReread(t, src, v, out) = WithFlags(w, Num(SrcOf(w, src) = 0), 0, 0, out)
      BY Zenon DEF FromReread
    <3> QED BY <1>2, <1>3, <3>1, <3>2
  <2> QED BY <1>5, <2>1, <2>2
<1>6. CASE kind = "sla"
  <2> DEFINE once == Put(t, src, v)
             y == And(SrcOf(once, src), 254)
             w == Put(once, src, y)
  <2>1. v = Byte(2 * x) /\ out = Bit(x, 7)
    BY <1>6 DEF Shifted, FellOut
  <2>2. LegacyShift(t, kind, src) = FromReread(Put(t, src, Byte(2 * x)), src, And(SrcOf(Put(t, src, Byte(2 * x)), src), 254), Bit(x, 7))
    BY <1>6, Zenon DEF LegacyShift, LegacySla
  <2>3. LegacyShift(t, kind, src) = FromReread(once, src, y, out)
    BY <2>1, <2>2, Zenon
  <2> HIDE DEF v, out
  <2>4. once \in LState
    BY <1>2, PutLegacy
  <2> HIDE DEF once
  <2>5. y \in B8
    <3>1. SrcOf(once, src) \in B8
      BY <2>4, SrcType
    <3>2. 254 \in B8
      BY DEF B8
    <3> QED BY <3>1, <3>2, AndByte
  <2>6. FromReread(once, src, y, out) = WithFlags(w, Num(SrcOf(w, src) = 0), 0, 0, out)
    BY Zenon DEF FromReread
  <2> HIDE DEF y
  <2> QED BY <1>3, <2>3, <2>4, <2>5, <2>6
<1> QED BY <1>4, <1>5, <1>6

\* The decimal adjustment of a byte with the flags n, h and c: the emitter's
\* correction and LegacyCpu's, which corrects digit by digit.
Adjusted(a, n, h, c) ==
  Byte(IF n = 0 THEN a + 96 * Num(c = 1 \/ a > 153) + 6 * Num(h = 1 \/ Nibble(a) > 9)
                ELSE a - (96 * c + 6 * h))
AdjustedCarry(a, n, c) == IF n = 0 THEN Num(c = 1 \/ a > 153) ELSE c
ByDigits(a, n, h, c) ==
  LET low == IF h = 1 \/ Nibble(a) > 9 THEN a + 6 ELSE a
      plus == IF c = 1 \/ low > 159 THEN low + 96 ELSE low
      down == IF h = 1 THEN Byte(a - 6) ELSE a
      minus == IF c = 1 THEN Word(down - 96) ELSE down
  IN IF n = 0 THEN plus ELSE minus

\* The two adjustments agree, for every byte and every setting of the flags.
LEMMA DaaSame ==
  ASSUME NEW a \in B8, NEW n \in {0, 1}, NEW h \in {0, 1}, NEW c \in {0, 1}
  PROVE  LET t == ByDigits(a, n, h, c)
         IN  /\ Byte(t) = Adjusted(a, n, h, c)
             /\ (IF Bit(t, 8) = 1 THEN 1 ELSE c) = AdjustedCarry(a, n, c)
             /\ Adjusted(a, n, h, c) \in B8 /\ AdjustedCarry(a, n, c) \in {0, 1}
<1> DEFINE t == ByDigits(a, n, h, c)
           g == Nibble(a)
<1>1. g \in 0..15 /\ a \in 0..255 /\ g = a % 16
  BY DEF B8, Nibble
<1>2. a \in 154..159 => g > 9
  BY <1>1
<1>3. CASE n = 0
  <2> DEFINE p6 == h = 1 \/ g > 9
             p60 == c = 1 \/ a > 153
             low == IF p6 THEN a + 6 ELSE a
  <2>1. t = IF c = 1 \/ low > 159 THEN low + 96 ELSE low
    BY <1>3 DEF ByDigits
  <2> HIDE DEF g, t
  <2>2. (c = 1 \/ low > 159) <=> p60
    BY <1>1, <1>2
  <2>3. t = a + 96 * Num(p60) + 6 * Num(p6)
    BY <1>1, <2>1, <2>2 DEF Num
  <2>4. Byte(t) = Adjusted(a, n, h, c) /\ AdjustedCarry(a, n, c) = Num(p60)
    BY <1>3, <2>3 DEF Adjusted, AdjustedCarry, g
  <2>5. t \in 0..357 /\ (p60 /\ c = 0 => t >= 256) /\ (~p60 => t < 256)
    BY <1>1, <1>2, <2>3 DEF Num
  <2>6. Bit(t, 8) = (t \div 256) % 2
    BY 2^8 = 256 DEF Bit
  <2>7. (t < 256 => Bit(t, 8) = 0) /\ (t >= 256 => Bit(t, 8) = 1)
    <3>1. t < 256 => t \div 256 = 0
      BY <2>5
    <3>2. t >= 256 => t \div 256 = 1
      BY <2>5
    <3> QED BY <2>5, <2>6, <3>1, <3>2
  <2>8. (IF Bit(t, 8) = 1 THEN 1 ELSE c) = Num(p60)
    BY <2>5, <2>7 DEF Num
  <2>9. Byte(t) \in B8 /\ Num(p60) \in {0, 1}
    BY <2>5, Reduced, NumType
  <2> QED BY <2>4, <2>8, <2>9 DEF t
<1>4. CASE n = 1
  <2> DEFINE down == IF h = 1 THEN Byte(a - 6) ELSE a
             minus == IF c = 1 THEN Word(down - 96) ELSE down
             d == a - (96 * c + 6 * h)
  <2>1. t = minus
    BY <1>4 DEF ByDigits
  <2>2. Adjusted(a, n, h, c) = Byte(d) /\ AdjustedCarry(a, n, c) = c
    BY <1>4 DEF Adjusted, AdjustedCarry
  <2>3. down \in 0..255 /\ down % 256 = (a - 6 * h) % 256
    <3>1. h = 1 => (a - 6) % 256 \in 0..255 /\ ((a - 6) % 256) % 256 = (a - 6) % 256
      BY <1>1
    <3>2. CASE h = 1
      <4>1. down = (a - 6) % 256 /\ a - 6 * h = a - 6
        BY <1>1, <3>2 DEF Byte
      <4> HIDE DEF down
      <4> QED BY <3>1, <3>2, <4>1
    <3>3. CASE h = 0
      <4>1. down = a /\ a - 6 * h = a
        BY <1>1, <3>3
      <4> HIDE DEF down
      <4> QED BY <1>1, <4>1
    <3> QED BY <3>2, <3>3
  <2> HIDE DEF down, t
  <2>4. Byte(minus) = Byte(d) /\ minus \in B16
    <3>1. CASE c = 1
      <4>1. \E k \in Int : down = (a - 6 * h) + 256 * k
        BY <1>1, <2>3
      <4>2. PICK k \in Int : down = (a - 6 * h) + 256 * k
        BY <4>1
      <4> DEFINE m == down - 96
      <4>3. m \in -96..159 /\ m = d + 256 * k /\ d \in Int
        BY <1>1, <2>3, <3>1, <4>2
      <4> HIDE DEF m, d
      <4>4. Word(m) % 256 = m % 256
        BY <4>3 DEF Word
      <4>5. m % 256 = d % 256
        BY <4>3
      <4>6. Word(m) \in B16
        <5>1. m \in Int
          BY <4>3
        <5> QED BY <5>1, Reduced
      <4>7. minus = Word(m)
        BY <3>1 DEF m
      <4>8. Byte(Word(m)) = Byte(d)
        BY <4>4, <4>5 DEF Byte
      <4> QED BY <4>6, <4>7, <4>8, Zenon
    <3>2. CASE c = 0
      <4>1. minus = down /\ d = a - 6 * h
        BY <1>1, <3>2
      <4>2. Byte(down) = Byte(d)
        BY <2>3, <4>1 DEF Byte
      <4>3. down \in B16
        BY <2>3 DEF B16
      <4> QED BY <4>1, <4>2, <4>3, Zenon
    <3> QED BY <3>1, <3>2
  <2>5. (IF Bit(t, 8) = 1 THEN 1 ELSE c) = c
    <3>1. CASE c = 1
      BY <3>1
    <3>2. CASE c = 0
      <4>1. t \in 0..255
        BY <2>1, <2>3, <3>2
      <4>2. t \div 256 = 0
        BY <4>1
      <4>3. Bit(t, 8) = 0
        BY <4>2, 2^8 = 256 DEF Bit
      <4> QED BY <4>3
    <3> QED BY <3>1, <3>2
  <2>6. Byte(d) \in B8
    <3>1. d \in Int
      BY <1>1
    <3> QED BY <3>1, Reduced
  <2>7. Byte(t) = Adjusted(a, n, h, c) /\ Adjusted(a, n, h, c) \in B8
    BY <2>1, <2>2, <2>4, <2>6, Zenon
  <2>8. (IF Bit(t, 8) = 1 THEN 1 ELSE c) = AdjustedCarry(a, n, c) /\ AdjustedCarry(a, n, c) \in {0, 1}
    BY <2>2, <2>5
  <2> QED BY <2>7, <2>8 DEF t
<1> QED BY <1>3, <1>4

\* DAA.
LEMMA DaaMatch ==
  ASSUME NEW i \in Instructions, i.op = "daa", NEW j, NEW l, Match(j, l)
  PROVE  Match(Run(j, i, FALSE), LegacyStep(l, i))
<1> DEFINE s == Begin(j, i)
           t == Past(l, i)
           a == t.a
           v == Adjusted(a, t.fn, t.fh, t.fc)
           c1 == AdjustedCarry(a, t.fn, t.fc)
           w == ByDigits(a, t.fn, t.fh, t.fc)
           f == StoreFlags(Num(v = 0), t.fn, 0, c1)
<1>1. Steps(i) = <<<<"daa", 0>>>> /\ LegacyStep(l, i) = LegacyDaa(t)
  BY StepsOf, LegacyOf
<1>2. Run(j, i, FALSE) = EmitNext(s, <<"daa", 0>>, FALSE)
  BY <1>1, Run1, Zenon
<1>3. /\ s \in JState /\ t \in LState /\ Like(s, s, s.v, t.fz, t.fn, t.fh, t.fc) /\ Keeps(s, t, {})
      /\ AreFlags(t.fz, t.fn, t.fh, t.fc)
  BY Begun
<1> HIDE DEF s, t
<1>4. EmitNext(s, <<"daa", 0>>, FALSE) = Daa(s)
  <2>1. Emit(s, <<"daa", 0>>, FALSE) = Daa(s)
    BY EmitFlags, Zenon
  <2> QED BY <1>3, <2>1, EmitsAll
<1>5. s.a = a /\ Bit(s.f, N) = t.fn /\ Bit(s.f, H) = t.fh /\ Bit(s.f, C) = t.fc
  <2>1. s.a = a
    BY <1>3 DEF Keeps, Shared, Common
  <2>2. s.f = StoreFlags(t.fz, t.fn, t.fh, t.fc)
    BY <1>3 DEF Like
  <2> QED BY <1>3, <2>1, <2>2, FlagBits DEF AreFlags
<1>6. Daa(s) = Computed(s, v, f)
  <2> DEFINE n0 == Bit(s.f, N)
             h0 == Bit(s.f, H)
             c0 == Bit(s.f, C)
             v0 == Adjusted(s.a, n0, h0, c0)
             k0 == AdjustedCarry(s.a, n0, c0)
  <2>1. Daa(s) = Computed(s, v0, StoreFlags(Num(v0 = 0), n0, 0, k0))
    BY Zenon DEF Daa, Computed, Need60, Need06, Adjusted, AdjustedCarry
  <2>2. v0 = v /\ n0 = t.fn /\ k0 = c1
    BY <1>5, Zenon
  <2> QED BY <2>1, <2>2, Zenon
<1>7. v = Byte(w) /\ c1 = (IF Bit(w, 8) = 1 THEN 1 ELSE t.fc) /\ v \in B8 /\ c1 \in {0, 1}
  <2>1. a \in B8 /\ t.fn \in {0, 1} /\ t.fh \in {0, 1} /\ t.fc \in {0, 1}
    BY <1>3 DEF LState
  <2> HIDE DEF a
  <2> QED BY <2>1, DaaSame
<1>8. LegacyDaa(t) = WithA(t, Byte(w), t.fn, 0, IF Bit(w, 8) = 1 THEN 1 ELSE t.fc)
  BY Zenon DEF LegacyDaa, ByDigits
<1>9. LegacyDaa(t) = WithA(t, v, t.fn, 0, c1)
  BY <1>7, <1>8, Zenon
<1> HIDE DEF v, c1
<1>10. LegacyDaa(t) = WithFlags(Set(t, "a", v), Num(v = 0), t.fn, 0, c1)
  BY <1>3, <1>7, <1>9, WithASet
<1>11. AreFlags(Num(v = 0), t.fn, 0, c1)
  BY <1>3, <1>7, NumType DEF AreFlags
<1>12. Match(Flagged(Set(s, "a", v), f), WithFlags(Set(t, "a", v), Num(v = 0), t.fn, 0, c1))
  BY <1>3, <1>7, <1>11, AluMatch
<1> HIDE DEF f
<1>13. Computed(s, v, f) = Flagged(Set(s, "a", v), f)
  BY <1>3, AluWrites
<1> QED BY <1>1, <1>2, <1>4, <1>6, <1>10, <1>12, <1>13

\* Loads between A and a location, and of an immediate byte.
LEMMA LoadMatch ==
  ASSUME NEW i \in Instructions, i.op \in {"ld_from", "ld_to", "ld_imm"}, NEW j, NEW l, Match(j, l)
  PROVE  Match(Run(j, i, FALSE), LegacyStep(l, i))
<1> DEFINE s == Begin(j, i)
           t == Past(l, i)
<1>1. Steps(i) = LoadSteps(i) /\ LegacyStep(l, i) = LegacyLoad(t, i)
  BY StepsOf, LegacyOf
<1>2. s \in JState /\ t \in LState /\ Like(s, s, s.v, t.fz, t.fn, t.fh, t.fc) /\ Keeps(s, t, {})
  BY Begun
<1>3. i.op = "ld_from" => i.src \in {"a", "b", "hl", "n"}
  BY Operands
<1>4. i.op # "ld_from" => i.src \in {"b", "hl"}
  BY Operands
<1>5. CASE i.op = "ld_from"
  <2> DEFINE r1 == EmitNext(s, Fetch(i.src), FALSE)
             r2 == EmitNext(r1, <<"write_r8", "a">>, FALSE)
             x == SrcOf(t, i.src)
             p == Set(t, "a", x)
  <2>1. Steps(i) = <<Fetch(i.src), <<"write_r8", "a">>>> /\ LegacyStep(l, i) = p
    BY <1>1, <1>5 DEF LoadSteps, LegacyLoad, Set
  <2>2. Run(j, i, FALSE) = r2
    BY <2>1, Run2, Zenon
  <2> HIDE DEF s, t
  <2>3. Like(r1, s, x, t.fz, t.fn, t.fh, t.fc)
    <3>1. SrcOf(s, i.src) = x
      BY <1>2, <1>3, <1>5, SrcMatch
    <3> QED BY <1>2, <1>3, <1>5, <3>1, LikeFetch
  <2> HIDE DEF r1, x
  <2>4. Like(r2, Set(s, "a", x), x, t.fz, t.fn, t.fh, t.fc)
    BY <1>2, <2>3, LikeWrite
  <2>5. Fits("a", x)
    BY <2>3 DEF Like, JState, Fits
  <2> HIDE DEF r2
  <2>6. p \in LState /\ p.fz = t.fz /\ p.fn = t.fn /\ p.fh = t.fh /\ p.fc = t.fc /\ Keeps(Set(s, "a", x), p, {})
    BY <1>2, <2>5, SetLegacy, SetKeeps
  <2> HIDE DEF p
  <2>7. Match(r2, p)
    BY <2>4, <2>6, LikeSame
  <2> QED BY <2>1, <2>2, <2>7
<1>6. CASE i.op \in {"ld_to", "ld_imm"}
  <2> DEFINE from == IF i.op = "ld_to" THEN "a" ELSE "n"
             r1 == EmitNext(s, Fetch(from), FALSE)
             r2 == EmitNext(r1, Back(i.src), FALSE)
             x == SrcOf(t, from)
             p == Put(t, i.src, x)
  <2>0. from \in {"a", "b", "hl", "n"} /\ i.src \in {"b", "hl"}
    BY <1>4, <1>6
  <2>1. Steps(i) = <<Fetch(from), Back(i.src)>> /\ LegacyStep(l, i) = p
    BY <1>1, <1>6 DEF LoadSteps, LegacyLoad, Fetch, SrcOf
  <2> HIDE DEF from
  <2>2. Run(j, i, FALSE) = r2
    BY <2>1, Run2, Zenon
  <2> HIDE DEF s, t
  <2>3. Like(r1, s, x, t.fz, t.fn, t.fh, t.fc)
    <3>1. SrcOf(s, from) = x
      BY <1>2, <2>0, SrcMatch
    <3> QED BY <1>2, <2>0, <3>1, LikeFetch
  <2> HIDE DEF r1, x
  <2>4. Like(r2, Put(s, i.src, x), x, t.fz, t.fn, t.fh, t.fc)
    BY <1>2, <2>0, <2>3, LikeBack
  <2>5. x \in B8
    BY <2>3 DEF Like, JState
  <2> HIDE DEF r2
  <2>6. p \in LState /\ p.fz = t.fz /\ p.fn = t.fn /\ p.fh = t.fh /\ p.fc = t.fc /\ Keeps(Put(s, i.src, x), p, {})
    BY <1>2, <2>0, <2>5, PutLegacy, PutKeeps
  <2> HIDE DEF p
  <2>7. Match(r2, p)
    BY <2>4, <2>6, LikeSame
  <2> QED BY <2>1, <2>2, <2>7
<1> QED BY <1>5, <1>6

\* Moving a register pair.
LEMMA EmitPair ==
  ASSUME NEW s, NEW x, NEW y
  PROVE  Emit(s, <<"add_pair", <<x, y>>>>, FALSE) = AddPair(s, x, y)
  BY DEF Emit

\* A register pair moved in the middle of a list.
LEMMA LikePair ==
  ASSUME NEW r, NEW s, NEW x, NEW z, NEW n, NEW h, NEW c, Like(r, s, x, z, n, h, c), s \in JState,
         NEW pair \in {"hl", "sp"}, NEW d \in Int
  PROVE  LET w == Word(s[pair] + d)
         IN  Like(EmitNext(r, <<"add_pair", <<pair, d>>>>, FALSE), Set(s, pair, w), x, z, n, h, c) /\ Fits(pair, w)
<1> DEFINE w == Word(s[pair] + d)
<1>1. r \in JState /\ r[pair] = s[pair] /\ s[pair] \in B16
  BY DEF Like, Keeps, Shared, Common, JState
<1>2. Fits(pair, w)
  <2>1. w \in B16
    BY <1>1, WordSum
  <2> QED BY <2>1 DEF Fits
<1>3. EmitNext(r, <<"add_pair", <<pair, d>>>>, FALSE) = AddPair(r, pair, d)
  <2>1. Emit(r, <<"add_pair", <<pair, d>>>>, FALSE) = AddPair(r, pair, d)
    BY EmitPair
  <2> QED BY <1>1, <2>1, EmitsAll
<1>4. AddPair(r, pair, d) = Set(r, pair, w)
  <2>1. CASE pair = "hl"
    BY <1>1, <2>1 DEF AddPair, Set
  <2>2. CASE pair = "sp"
    BY <1>1, <2>2 DEF AddPair, Set
  <2> QED BY <2>1, <2>2
<1> HIDE DEF w
<1>5. Like(Set(r, pair, w), Set(s, pair, w), x, z, n, h, c)
  BY <1>2, LikeSet
<1>6. Like(EmitNext(r, <<"add_pair", <<pair, d>>>>, FALSE), Set(s, pair, w), x, z, n, h, c)
  BY <1>3, <1>4, <1>5
<1> QED BY <1>2, <1>6 DEF w

\* Moving HL before or after the write makes no difference to memory.
LEMMA PutMoved ==
  ASSUME NEW l \in LState, NEW x \in B8, NEW w \in B16
  PROVE  Put(Set(l, "hl", w), "hl", x) = Set(Put(l, "hl", x), "hl", w)
<1> DEFINE q == Set(l, "hl", w)
           rb == ReadBack(l.at, l.m, x)
           lt == IF l.at < 32768 THEN x ELSE l.latch
<1>1. q \in LState /\ q.at = l.at /\ q.m = l.m /\ q.latch = l.latch
  BY DEF Set, LState
<1>2. q = Set(l, "hl", w)
  OBVIOUS
<1> HIDE DEF q
<1>3. Put(q, "hl", x) = Set(Set(q, "m", rb), "latch", lt)
  BY <1>1, PutSet
<1>4. Put(l, "hl", x) = Set(Set(l, "m", rb), "latch", lt)
  BY PutSet
<1> HIDE DEF rb, lt
<1>5. Set(Set(Set(l, "hl", w), "m", rb), "latch", lt) = Set(Set(Set(l, "m", rb), "latch", lt), "hl", w)
  BY DEF Set, LState
<1> QED BY <1>2, <1>3, <1>4, <1>5, Zenon

\* LDI and LDD.
LEMMA IndirectMatch ==
  ASSUME NEW i \in Instructions, i.op \in {"ldi_to", "ldd_to", "ldi_from", "ldd_from"}, NEW j, NEW l, Match(j, l)
  PROVE  Match(Run(j, i, FALSE), LegacyStep(l, i))
<1> DEFINE s == Begin(j, i)
           t == Past(l, i)
           d == IF i.op \in {"ldi_to", "ldi_from"} THEN 1 ELSE -1
           move == <<"add_pair", <<"hl", d>>>>
           w == Word(t.hl + d)
<1>1. Steps(i) = IndirectSteps(i) /\ LegacyStep(l, i) = LegacyIndirect(t, i.op)
  BY StepsOf, LegacyOf
<1>2. s \in JState /\ t \in LState /\ Like(s, s, s.v, t.fz, t.fn, t.fh, t.fc) /\ Keeps(s, t, {})
  BY Begun
<1>3. s.hl = t.hl /\ t.hl \in B16 /\ d \in Int
  BY <1>2 DEF Keeps, Shared, Common, LState
<1>4. w \in B16 /\ Fits("hl", w)
  <2>1. w \in B16
    <3> HIDE DEF d, t
    <3> QED BY <1>3, WordSum
  <2> QED BY <2>1 DEF Fits
<1>5. CASE i.op \in {"ldi_to", "ldd_to"}
  <2> DEFINE r1 == EmitNext(s, move, FALSE)
             r2 == EmitNext(r1, <<"read_r8", "a">>, FALSE)
             r3 == EmitNext(r2, <<"store_byte", 0>>, FALSE)
             x == SrcOf(t, "a")
             q == Set(s, "hl", w)
             p == Put(Set(t, "hl", w), "hl", x)
  <2>1. Steps(i) = <<move, <<"read_r8", "a">>, <<"store_byte", 0>>>>
    BY <1>1, <1>5, Zenon DEF IndirectSteps
  <2>2. Run(j, i, FALSE) = r3
    <3> HIDE DEF d
    <3> QED BY <2>1, Run3, Zenon
  <2>3. LegacyIndirect(t, i.op) = [WriteByte(t, t.a) EXCEPT !.hl = Word(@ + d)]
    BY <1>5, Zenon DEF LegacyIndirect
  <2> HIDE DEF s, t, d
  <2>4. Like(r1, q, s.v, t.fz, t.fn, t.fh, t.fc)
    BY <1>2, <1>3, LikePair
  <2> HIDE DEF w
  <2>5. q \in JState /\ SrcOf(q, "a") = x
    <3>1. q \in JState
      BY <1>2, <1>4, SetJson
    <3>2. q.a = s.a /\ s.a = t.a
      BY <1>2 DEF Set, JState, Keeps, Shared, Common
    <3> QED BY <3>1, <3>2 DEF SrcOf
  <2> HIDE DEF r1, x, q
  <2>6. Like(r2, q, x, t.fz, t.fn, t.fh, t.fc)
    BY <2>4, <2>5, LikeFetch DEF Fetch
  <2> HIDE DEF r2
  <2>7. Like(r3, Put(q, "hl", x), x, t.fz, t.fn, t.fh, t.fc)
    BY <2>5, <2>6, LikeBack DEF Back
  <2> HIDE DEF r3
  <2>8. x \in B8
    BY <2>6 DEF Like, JState
  <2>9. Set(t, "hl", w) \in LState /\ Keeps(q, Set(t, "hl", w), {})
    BY <1>2, <1>4, SetLegacy, SetKeeps DEF q
  <2>10. p \in LState /\ Keeps(Put(q, "hl", x), p, {})
    <3> DEFINE u == Set(t, "hl", w)
    <3> HIDE DEF u
    <3>1. u \in LState /\ Keeps(q, u, {})
      BY <2>9 DEF u
    <3>2. Put(u, "hl", x) \in LState /\ Keeps(Put(q, "hl", x), Put(u, "hl", x), {})
      BY <3>1, <2>5, <2>8, PutLegacy, PutKeeps
    <3> QED BY <3>2 DEF u
  <2>11. p.fz = t.fz /\ p.fn = t.fn /\ p.fh = t.fh /\ p.fc = t.fc
    <3> DEFINE u == Set(t, "hl", w)
    <3>1. u \in LState /\ u.fz = t.fz /\ u.fn = t.fn /\ u.fh = t.fh /\ u.fc = t.fc
      BY <1>2, <1>4, SetLegacy
    <3> HIDE DEF u
    <3>2. Put(u, "hl", x).fz = u.fz /\ Put(u, "hl", x).fn = u.fn /\ Put(u, "hl", x).fh = u.fh /\
            Put(u, "hl", x).fc = u.fc
      BY <2>8, <3>1, PutLegacy
    <3> QED BY <3>1, <3>2 DEF u
  <2>12. LegacyIndirect(t, i.op) = p
    <3>1. x = t.a
      BY DEF x, SrcOf
    <3>2. WriteByte(t, t.a) = Put(t, "hl", x)
      BY <3>1 DEF Put
    <3> DEFINE u == Put(t, "hl", x)
    <3>3. u \in LState /\ u.hl = t.hl
      <4>1. u \in LState
        BY <1>2, <2>8, PutLegacy
      <4> DEFINE rb == ReadBack(t.at, t.m, x)
                 lt == IF t.at < 32768 THEN x ELSE t.latch
      <4>2. u = Set(Set(t, "m", rb), "latch", lt)
        BY <1>2, <2>8, PutSet
      <4> HIDE DEF rb, lt, u
      <4>3. u.hl = t.hl
        BY <1>2, <4>2 DEF Set, LState
      <4> QED BY <4>1, <4>3
    <3>4. LegacyIndirect(t, i.op) = [u EXCEPT !.hl = Word(@ + d)]
      BY <2>3, <3>2, Zenon
    <3>5. Set(u, "hl", w) = p
      BY <1>2, <1>4, <2>8, PutMoved
    <3> HIDE DEF u
    <3>6. [u EXCEPT !.hl = Word(@ + d)] = Set(u, "hl", w)
      BY <3>3 DEF Set, w
    <3> QED BY <3>4, <3>5, <3>6, Zenon
  <2> HIDE DEF p
  <2>13. Match(r3, p)
    BY <2>7, <2>10, <2>11, LikeSame
  <2> QED BY <1>1, <2>2, <2>12, <2>13
<1>6. CASE i.op \in {"ldi_from", "ldd_from"}
  <2> DEFINE r1 == EmitNext(s, <<"load_byte", 0>>, FALSE)
             r2 == EmitNext(r1, <<"write_r8", "a">>, FALSE)
             r3 == EmitNext(r2, move, FALSE)
             x == SrcOf(t, "hl")
             q == Set(s, "a", x)
             u == Set(t, "a", x)
             p == Set(u, "hl", w)
  <2>0. i.op \notin {"ldi_to", "ldd_to"}
    BY <1>6
  <2>1. Steps(i) = <<<<"load_byte", 0>>, <<"write_r8", "a">>, move>>
    BY <1>1, <2>0, Zenon DEF IndirectSteps
  <2>2. Run(j, i, FALSE) = r3
    <3> HIDE DEF d
    <3> QED BY <2>1, Run3, Zenon
  <2>3. LegacyIndirect(t, i.op) = [[t EXCEPT !.a = t.m] EXCEPT !.hl = Word(@ + d)]
    BY <2>0, Zenon DEF LegacyIndirect
  <2> HIDE DEF s, t, d
  <2>4. Like(r1, s, x, t.fz, t.fn, t.fh, t.fc)
    <3>1. SrcOf(s, "hl") = x /\ x = t.m /\ s.m = t.m /\ x \in B8
      BY <1>2 DEF SrcOf, Keeps, Shared, Common, LState
    <3>2. Emit(s, <<"load_byte", 0>>, FALSE) = LoadByte(s)
      BY EmitMoves, Zenon
    <3>3. r1 = Valued(s, x)
      BY <1>2, <3>1, <3>2, EmitsAll DEF LoadByte, Valued
    <3> HIDE DEF x
    <3> QED BY <1>2, <3>1, <3>3, LikeValue
  <2>5. x = t.m /\ x \in B8
    BY <1>2 DEF SrcOf, LState
  <2> HIDE DEF r1, x, w
  <2>6. Like(r2, q, x, t.fz, t.fn, t.fh, t.fc) /\ q \in JState
    BY <1>2, <2>4, LikeWrite
  <2>7. q.hl = t.hl
    BY <1>2, <1>3 DEF Set, JState
  <2>8. u \in LState /\ u.fz = t.fz /\ u.fn = t.fn /\ u.fh = t.fh /\ u.fc = t.fc /\ Keeps(q, u, {}) /\ Fits("a", x)
    <3>1. Fits("a", x)
      BY <2>5 DEF Fits
    <3> QED BY <1>2, <3>1, SetLegacy, SetKeeps
  <2>9. u.hl = t.hl
    BY <1>2 DEF Set, LState
  <2>10. LegacyIndirect(t, i.op) = p
    <3>1. [t EXCEPT !.a = t.m] = u
      BY <2>5 DEF Set
    <3>2. LegacyIndirect(t, i.op) = [u EXCEPT !.hl = Word(@ + d)]
      BY <2>3, <3>1, Zenon
    <3> HIDE DEF u
    <3>3. [u EXCEPT !.hl = Word(@ + d)] = Set(u, "hl", w)
      BY <2>9 DEF Set, w
    <3> QED BY <3>2, <3>3, Zenon
  <2> HIDE DEF r2, q, u
  <2>11. Like(r3, Set(q, "hl", w), x, t.fz, t.fn, t.fh, t.fc)
    BY <1>3, <2>6, <2>7, LikePair DEF w
  <2> HIDE DEF r3
  <2>12. p \in LState /\ p.fz = t.fz /\ p.fn = t.fn /\ p.fh = t.fh /\ p.fc = t.fc /\ Keeps(Set(q, "hl", w), p, {})
    BY <1>4, <2>6, <2>8, SetLegacy, SetKeeps
  <2> HIDE DEF p
  <2>13. Match(r3, p)
    BY <2>11, <2>12, LikeSame
  <2> QED BY <1>1, <2>2, <2>10, <2>13
<1> QED BY <1>5, <1>6

-----------------------------------------------------------------------------
(* Carries of SP plus a signed byte. *)

\* r is the sum of p, q and the carry c, but for even numbers.
IsDigitSum(p, q, r, c) ==
  p \in Nat /\ q \in Nat /\ r \in Nat /\ c \in {0, 1} /\ \E m \in Nat : r + 2 * m = p + q + c

\* The exclusive or of two numbers' parities and of their sum's is the carry in.
LEMMA Parities ==
  ASSUME NEW p, NEW q, NEW r, NEW c, IsDigitSum(p, q, r, c)
  PROVE  OneSet(OneSet(p % 2, q % 2), r % 2) = c
<1>0. PICK m \in Nat : p \in Nat /\ q \in Nat /\ r \in Nat /\ c \in {0, 1} /\ r + 2 * m = p + q + c
  BY DEF IsDigitSum
<1> DEFINE p0 == p % 2
           p1 == p \div 2
           q0 == q % 2
           q1 == q \div 2
           r0 == r % 2
           r1 == r \div 2
<1>1. p = 2 * p1 + p0 /\ p0 \in {0, 1} /\ p1 \in Nat
  BY <1>0
<1>2. q = 2 * q1 + q0 /\ q0 \in {0, 1} /\ q1 \in Nat
  BY <1>0
<1>3. r = 2 * r1 + r0 /\ r0 \in {0, 1} /\ r1 \in Nat
  BY <1>0
<1> HIDE DEF p0, p1, q0, q1, r0, r1
<1> DEFINE k == p1 + q1 - r1 - m
<1>4. k \in Int /\ r0 = 2 * k + p0 + q0 + c
  BY <1>0, <1>1, <1>2, <1>3
<1> HIDE DEF k
<1>5. OneSet(p0, q0) = IF p0 = q0 THEN 0 ELSE 1
  BY DEF OneSet, Num
<1>6. OneSet(OneSet(p0, q0), r0) = c
  BY <1>0, <1>1, <1>2, <1>3, <1>4, <1>5 DEF OneSet, Num
<1> QED BY <1>6 DEF p0, q0, r0

\* w is the sum of x and y, but for multiples of 2^16.
IsSum(w, x, y) == w \in Nat /\ x \in Nat /\ y \in Nat /\ \E k \in Nat : w + 65536 * k = x + y

\* The carry out of the low digit, whatever its base.
LEMMA CarryOut ==
  ASSUME NEW B \in {16, 256}, NEW x, NEW y, NEW w, IsSum(w, x, y)
  PROVE  OneSet(OneSet((x \div B) % 2, (y \div B) % 2), (w \div B) % 2) = Num((x % B) + (y % B) > B - 1)
<1> DEFINE x0 == x % B
           x1 == x \div B
           y0 == y % B
           y1 == y \div B
           w0 == w % B
           w1 == w \div B
           out == Num(x0 + y0 > B - 1)
<1>0. PICK k \in Nat : w \in Nat /\ x \in Nat /\ y \in Nat /\ w + 65536 * k = x + y
  BY DEF IsSum
<1>1. CASE B = 16
  <2>1. x = 16 * x1 + x0 /\ x0 \in 0..15 /\ x1 \in Nat
    BY <1>0, <1>1
  <2>2. y = 16 * y1 + y0 /\ y0 \in 0..15 /\ y1 \in Nat
    BY <1>0, <1>1
  <2>3. w = 16 * w1 + w0 /\ w0 \in 0..15 /\ w1 \in Nat
    BY <1>0, <1>1
  <2>4. out \in {0, 1} /\ (out = 1 <=> x0 + y0 > 15)
    BY <1>1 DEF Num
  <2> HIDE DEF x0, x1, y0, y1, w0, w1, out
  <2>5. w1 + 2 * (2048 * k) = x1 + y1 + out
    BY <1>0, <2>1, <2>2, <2>3, <2>4
  <2>6. 2048 * k \in Nat
    OBVIOUS
  <2> DEFINE over == 2048 * k
  <2> HIDE DEF over
  <2>7. over \in Nat /\ w1 + 2 * over = x1 + y1 + out
    BY <2>5, <2>6 DEF over
  <2>8. OneSet(OneSet(x1 % 2, y1 % 2), w1 % 2) = out
    <3>1. x1 \in Nat /\ y1 \in Nat /\ w1 \in Nat /\ out \in {0, 1}
      BY <2>1, <2>2, <2>3, <2>4
    <3>2. IsDigitSum(x1, y1, w1, out)
      BY <2>7, <3>1 DEF IsDigitSum
    <3> QED BY <3>2, Parities
  <2> QED BY <2>8 DEF x0, x1, y0, y1, w1, out
<1>2. CASE B = 256
  <2>1. x = 256 * x1 + x0 /\ x0 \in 0..255 /\ x1 \in Nat
    BY <1>0, <1>2
  <2>2. y = 256 * y1 + y0 /\ y0 \in 0..255 /\ y1 \in Nat
    BY <1>0, <1>2
  <2>3. w = 256 * w1 + w0 /\ w0 \in 0..255 /\ w1 \in Nat
    BY <1>0, <1>2
  <2>4. out \in {0, 1} /\ (out = 1 <=> x0 + y0 > 255)
    BY <1>2 DEF Num
  <2> HIDE DEF x0, x1, y0, y1, w0, w1, out
  <2>5. w1 + 2 * (128 * k) = x1 + y1 + out
    BY <1>0, <2>1, <2>2, <2>3, <2>4
  <2>6. 128 * k \in Nat
    OBVIOUS
  <2> DEFINE over == 128 * k
  <2> HIDE DEF over
  <2>7. over \in Nat /\ w1 + 2 * over = x1 + y1 + out
    BY <2>5, <2>6 DEF over
  <2>8. OneSet(OneSet(x1 % 2, y1 % 2), w1 % 2) = out
    <3>1. x1 \in Nat /\ y1 \in Nat /\ w1 \in Nat /\ out \in {0, 1}
      BY <2>1, <2>2, <2>3, <2>4
    <3>2. IsDigitSum(x1, y1, w1, out)
      BY <2>7, <3>1 DEF IsDigitSum
    <3> QED BY <3>2, Parities
  <2> QED BY <2>8 DEF x0, x1, y0, y1, w1, out
<1> QED BY <1>1, <1>2

\* The bits LegacyCpu reads off SP ^ e ^ result are the emitter's carries.
LEMMA SignedCarry ==
  ASSUME NEW sp \in B16, NEW n \in B8
  PROVE  LET x == Xor(Xor(sp, Word(Signed(n))), Word(sp + Signed(n)))
         IN  /\ Bit(x, 4) = Num(Nibble(sp) + Nibble(n) > 15)
             /\ Bit(x, 8) = Num(Byte(sp) + n > 255)
             /\ Word(sp + Signed(n)) \in B16
<1> DEFINE e == Word(Signed(n))
           w == Word(sp + Signed(n))
           x == Xor(Xor(sp, e), w)
<1>1. e = IF n >= 128 THEN n + 65280 ELSE n
  <2>1. CASE n >= 128
    <3>1. n - 256 \in -128 .. -1
      BY <2>1 DEF B8
    <3>2. (n - 256) % 65536 = n + 65280
      BY <3>1 DEF B8
    <3> QED BY <2>1, <3>2 DEF Word, Signed
  <2>2. CASE ~(n >= 128)
    <3>1. n % 65536 = n
      BY <2>2 DEF B8
    <3> QED BY <2>2, <3>1 DEF Word, Signed
  <2> QED BY <2>1, <2>2
<1>2. e \in Nat /\ e % 16 = n % 16 /\ e % 256 = n
  <2>1. CASE n >= 128
    <3>1. (n + 65280) % 16 = n % 16
      BY DEF B8
    <3>2. (n + 65280) % 256 = n
      BY DEF B8
    <3> QED BY <1>1, <2>1, <3>1, <3>2 DEF B8
  <2>2. CASE ~(n >= 128)
    BY <1>1, <2>2 DEF B8
  <2> QED BY <2>1, <2>2
<1>3. Signed(n) \in -128 .. 127 /\ Signed(n) = IF n >= 128 THEN e - 65536 ELSE e
  BY <1>1 DEF Signed, B8
<1>4. w \in B16 /\ IsSum(w, sp, e)
  <2> DEFINE g == Signed(n)
             u == sp + g
  <2>1. sp \in Nat /\ sp < 65536 /\ g \in Int /\ g >= -128 /\ g <= 127
    <3>1. sp \in Nat /\ sp < 65536
      BY DEF B16
    <3>2. g \in -128 .. 127
      BY <1>3
    <3> HIDE DEF g
    <3>3. g \in Int /\ g >= -128 /\ g <= 127
      BY <3>2
    <3> QED BY <3>1, <3>3
  <2> HIDE DEF g, e
  <2>2. u \in Int /\ u < 65536 + 128 /\ u >= -128
    BY <2>1
  <2>3. g = e \/ g = e - 65536
    BY <1>3 DEF g
  <2> HIDE DEF u
  <2>4. w = u % 65536
    BY DEF Word, u, g
  <2>5. w \in B16
    BY <2>2, <2>4, Reduced DEF Word
  <2>6. \E m \in {-1, 0, 1} : w = u + 65536 * m
    BY <2>2, <2>4
  <2>7. PICK m \in {-1, 0, 1} : w = u + 65536 * m
    BY <2>6
  <2> HIDE DEF w
  <2>8. u = sp + g
    BY DEF u
  <2>9. g = e => w + 65536 * (-m) = sp + e
    BY <1>2, <2>1, <2>2, <2>7, <2>8
  <2>10. g = e - 65536 => w + 65536 * (1 - m) = sp + e
    BY <1>2, <2>1, <2>2, <2>7, <2>8
  <2>11. g = e => -m \in Nat
    <3>1. CASE g = e /\ m = 1
      <4>1. w = sp + e + 65536
        BY <1>2, <2>1, <2>7, <2>8, <3>1
      <4>2. w < 65536
        BY <2>5 DEF B16
      <4> QED BY <4>1, <4>2, <1>2, <2>1
    <3> QED BY <3>1
  <2>12. 1 - m \in Nat
    OBVIOUS
  <2>15. w \in Nat
    BY <2>5 DEF B16
  <2>13. CASE g = e
    <3>1. -m \in Nat /\ w + 65536 * (-m) = sp + e
      BY <2>9, <2>11, <2>13
    <3>2. \E k \in Nat : w + 65536 * k = sp + e
      BY <3>1
    <3>3. e \in Nat
      BY <1>2
    <3> QED BY <2>1, <2>5, <2>15, <3>2, <3>3 DEF IsSum
  <2>14. CASE g = e - 65536
    <3> DEFINE q == 1 - m
    <3>1. q \in Nat /\ w + 65536 * q = sp + e
      BY <2>10, <2>12, <2>14
    <3> HIDE DEF q
    <3>2. \E k \in Nat : w + 65536 * k = sp + e
      BY <3>1
    <3>3. e \in Nat
      BY <1>2
    <3> QED BY <2>1, <2>5, <2>15, <3>2, <3>3 DEF IsSum
  <2> QED BY <2>3, <2>13, <2>14
<1>5. IsSum(w, sp, e)
  BY <1>4
<1>6. Bit(x, 4) = OneSet(OneSet(Bit(sp, 4), Bit(e, 4)), Bit(w, 4)) /\
        Bit(x, 8) = OneSet(OneSet(Bit(sp, 8), Bit(e, 8)), Bit(w, 8))
  <2> HIDE DEF e, w
  <2>1. Bit(x, 4) = OneSet(Bit(Xor(sp, e), 4), Bit(w, 4)) /\ Bit(Xor(sp, e), 4) = OneSet(Bit(sp, 4), Bit(e, 4))
    BY XorBit, Zenon
  <2>2. Bit(x, 8) = OneSet(Bit(Xor(sp, e), 8), Bit(w, 8)) /\ Bit(Xor(sp, e), 8) = OneSet(Bit(sp, 8), Bit(e, 8))
    BY XorBit, Zenon
  <2> QED BY <2>1, <2>2, Zenon
<1> HIDE DEF e, w
<1>8. OneSet(OneSet((sp \div 16) % 2, (e \div 16) % 2), (w \div 16) % 2) = Num((sp % 16) + (e % 16) > 15)
  <2>1. OneSet(OneSet((sp \div 16) % 2, (e \div 16) % 2), (w \div 16) % 2) = Num((sp % 16) + (e % 16) > 16 - 1)
    <3>1. 16 \in {16, 256}
      OBVIOUS
    <3> DEFINE B == 16
    <3> HIDE DEF B
    <3>2. OneSet(OneSet((sp \div B) % 2, (e \div B) % 2), (w \div B) % 2) = Num((sp % B) + (e % B) > B - 1)
      <4>1. B \in {16, 256}
        BY <3>1 DEF B
      <4> QED BY <1>5, <4>1, CarryOut
    <3> QED BY <3>2 DEF B
  <2> QED BY <2>1, 16 - 1 = 15
<1>9. OneSet(OneSet((sp \div 256) % 2, (e \div 256) % 2), (w \div 256) % 2) = Num((sp % 256) + (e % 256) > 255)
  <2>1. OneSet(OneSet((sp \div 256) % 2, (e \div 256) % 2), (w \div 256) % 2) = Num((sp % 256) + (e % 256) > 256 - 1)
    <3>1. 256 \in {16, 256}
      OBVIOUS
    <3> DEFINE B == 256
    <3> HIDE DEF B
    <3>2. OneSet(OneSet((sp \div B) % 2, (e \div B) % 2), (w \div B) % 2) = Num((sp % B) + (e % B) > B - 1)
      <4>1. B \in {16, 256}
        BY <3>1 DEF B
      <4> QED BY <1>5, <4>1, CarryOut
    <3> QED BY <3>2 DEF B
  <2> QED BY <2>1, 256 - 1 = 255
<1>10. Bit(x, 4) = Num(Nibble(sp) + Nibble(n) > 15)
  <2>1. Bit(x, 4) = OneSet(OneSet((sp \div 16) % 2, (e \div 16) % 2), (w \div 16) % 2)
    BY <1>6, 2^4 = 16 DEF Bit
  <2>2. Nibble(sp) + Nibble(n) = (sp % 16) + (e % 16)
    BY <1>2 DEF Nibble
  <2> QED BY <1>8, <2>1, <2>2, ZenonT(40)
<1>11. Bit(x, 8) = Num(Byte(sp) + n > 255)
  <2>1. Bit(x, 8) = OneSet(OneSet((sp \div 256) % 2, (e \div 256) % 2), (w \div 256) % 2)
    BY <1>6, 2^8 = 256 DEF Bit
  <2>2. Byte(sp) + n = (sp % 256) + (e % 256)
    BY <1>2 DEF Byte
  <2> QED BY <1>9, <2>1, <2>2, ZenonT(40)
<1> QED BY <1>4, <1>10, <1>11 DEF e, w

\* Engines that match still match when a register of both is replaced,
LEMMA MatchSet ==
  ASSUME NEW s, NEW t, Match(s, t), NEW reg, NEW x, Fits(reg, x)
  PROVE  Match(Set(s, reg, x), Set(t, reg, x))
<1> DEFINE p == Set(s, reg, x)
           q == Set(t, reg, x)
<1>1. s \in JState /\ t \in LState /\ Keeps(s, t, {}) /\ s.f = StoreFlags(t.fz, t.fn, t.fh, t.fc)
  BY DEF Match
<1>2. p \in JState /\ p.f = s.f
  BY <1>1, SetJson
<1>3. q \in LState /\ q.fz = t.fz /\ q.fn = t.fn /\ q.fh = t.fh /\ q.fc = t.fc
  BY <1>1, SetLegacy
<1>4. Keeps(p, q, {})
  BY <1>1, SetKeeps
<1> HIDE DEF p, q
<1>5. Match(p, q)
  BY <1>1, <1>2, <1>3, <1>4 DEF Match
<1> QED BY <1>5 DEF p, q

\* and when all flags are.
LEMMA MatchFlags ==
  ASSUME NEW s, NEW t, Match(s, t), NEW z, NEW n, NEW h, NEW c, AreFlags(z, n, h, c)
  PROVE  Match(Flagged(s, StoreFlags(z, n, h, c)), WithFlags(t, z, n, h, c))
<1>1. Like(s, s, s.v, t.fz, t.fn, t.fh, t.fc)
  BY MatchLike
<1>2. Like(Flagged(s, StoreFlags(z, n, h, c)), s, s.v, z, n, h, c)
  BY <1>1, LikeFlags
<1>3. t \in LState /\ Keeps(s, t, {})
  BY DEF Match
<1> QED BY <1>2, <1>3, LikeMatch

\* What engines that match agree on.
LEMMA MatchFields ==
  ASSUME NEW s, NEW t, Match(s, t)
  PROVE  /\ s \in JState /\ t \in LState
         /\ s.a = t.a /\ s.hl = t.hl /\ s.sp = t.sp /\ s.pc = t.pc /\ s.n = t.n /\ s.top = t.top /\ s.ime = t.ime
         /\ t.a \in B8 /\ t.hl \in B16 /\ t.sp \in B16 /\ t.pc \in B16 /\ t.n \in B8 /\ t.top \in B16 /\
           t.ime \in BOOLEAN
         /\ s.f = StoreFlags(t.fz, t.fn, t.fh, t.fc) /\ AreFlags(t.fz, t.fn, t.fh, t.fc)
         /\ Bit(s.f, Z) = t.fz /\ Bit(s.f, C) = t.fc
<1>1. s \in JState /\ t \in LState /\ Keeps(s, t, {}) /\ s.f = StoreFlags(t.fz, t.fn, t.fh, t.fc)
  BY DEF Match
<1>2. s.a = t.a /\ s.hl = t.hl /\ s.sp = t.sp /\ s.pc = t.pc /\ s.n = t.n /\ s.top = t.top /\ s.ime = t.ime
  BY <1>1 DEF Keeps, Shared, Common
<1>3. t.a \in B8 /\ t.hl \in B16 /\ t.sp \in B16 /\ t.pc \in B16 /\ t.n \in B8 /\ t.top \in B16 /\ t.ime \in BOOLEAN
  BY <1>1 DEF LState
<1>4. AreFlags(t.fz, t.fn, t.fh, t.fc)
  BY <1>1 DEF LState, AreFlags
<1>5. Bit(s.f, Z) = t.fz /\ Bit(s.f, C) = t.fc
  BY <1>1, <1>4, FlagBits DEF AreFlags
<1> QED BY <1>1, <1>2, <1>3, <1>4, <1>5

\* A list of one step.
LEMMA OneStep ==
  ASSUME NEW j, NEW l, Match(j, l), NEW i, NEW u, Steps(i) = <<u>>
  PROVE  Run(j, i, FALSE) = Emit(Begin(j, i), u, FALSE)
<1>1. Run(j, i, FALSE) = EmitNext(Begin(j, i), u, FALSE)
  BY Run1, Zenon
<1>2. Begin(j, i) \in JState
  BY Begun
<1> QED BY <1>1, <1>2, EmitsAll

\* INC rr and DEC rr.
LEMMA MoveMatch ==
  ASSUME NEW s, NEW t, Match(s, t), NEW pair \in {"hl", "sp"}, NEW d \in Int
  PROVE  Match(AddPair(s, pair, d), LegacyIncDec16(t, pair, d))
<1> DEFINE w == Word(t[pair] + d)
<1>1. t[pair] \in B16 /\ s[pair] = t[pair]
  BY MatchFields
<1>2. AddPair(s, pair, d) = Set(s, pair, w)
  <2>1. CASE pair = "hl"
    BY <1>1, <2>1 DEF AddPair, Set
  <2>2. CASE pair = "sp"
    BY <1>1, <2>2 DEF AddPair, Set
  <2> QED BY <2>1, <2>2
<1>3. LegacyIncDec16(t, pair, d) = Set(t, pair, w)
  <2>1. CASE pair = "hl"
    BY <2>1 DEF LegacyIncDec16, Set
  <2>2. CASE pair = "sp"
    BY <2>2 DEF LegacyIncDec16, Set
  <2> QED BY <2>1, <2>2
<1>4. Fits(pair, w)
  <2>1. w \in B16
    BY <1>1, WordSum
  <2> QED BY <2>1 DEF Fits
<1> HIDE DEF w
<1> QED BY <1>2, <1>3, <1>4, MatchSet

\* A word is a number.
LEMMA WordInt ==
  ASSUME NEW x \in B16
  PROVE  x \in Int
  BY DEF B16

\* ADD HL,rr writes HL and F,
Summed(s, w, f) == [s EXCEPT !.hl = w, !.f = f]
\* Such a write, one register after the other.
LEMMA SumWrites ==
  ASSUME NEW s \in JState, NEW w, NEW f
  PROVE  Summed(s, w, f) = Flagged(Set(s, "hl", w), f)
  BY DEF Summed, Flagged, Set, JState

\* The carries do not depend on the order.
LEMMA CarriesSwap ==
  ASSUME NEW x \in B16, NEW y \in B16
  PROVE  x + y = y + x /\ Carry11(x, y) = Carry11(y, x) /\ Carry15(x, y) = Carry15(y, x)
<1>1. x \in Int /\ y \in Int
  BY WordInt
<1>2. x + y = y + x
  BY <1>1
<1>3. Carry11(x, y) = Carry11(y, x)
  BY <1>1 DEF Carry11
<1>4. Carry15(x, y) = Carry15(y, x)
  BY <1>1, <1>2 DEF Carry15
<1> QED BY <1>2, <1>3, <1>4

\* ADD HL,rr.
LEMMA AddHlMatch ==
  ASSUME NEW s, NEW t, Match(s, t), NEW pair \in {"hl", "sp"}
  PROVE  Match(AddHlRr(s, pair), LegacyAddHl(t, pair))
<1> DEFINE rr == IF pair = "hl" THEN t.hl ELSE t.sp
           w == Word(t.hl + rr)
           h == Carry11(t.hl, rr)
           c == Carry15(t.hl, rr)
           f == StoreFlags(t.fz, 0, h, c)
<1>1. /\ s \in JState /\ t \in LState /\ s.hl = t.hl /\ s.sp = t.sp /\ t.hl \in B16 /\ t.sp \in B16
      /\ Bit(s.f, Z) = t.fz /\ AreFlags(t.fz, t.fn, t.fh, t.fc)
  BY MatchFields
<1>2. rr \in B16 /\ rr \in Int
  <2>1. rr \in B16
    BY <1>1
  <2> QED BY <2>1, WordInt
<1>3. AreFlags(t.fz, 0, h, c)
  BY <1>1, NumType DEF AreFlags, Carry11, Carry15
<1>4. Fits("hl", w)
  <2> HIDE DEF rr
  <2>1. w \in B16
    BY <1>1, <1>2, WordSum
  <2> QED BY <2>1 DEF Fits
<1>5. AddHlRr(s, pair) = Flagged(Set(s, "hl", w), f)
  <2> DEFINE r0 == IF pair = "hl" THEN s.hl ELSE s.sp
             f0 == StoreFlags(Bit(s.f, Z), 0, Carry11(s.hl, r0), Carry15(s.hl, r0))
  <2>1. AddHlRr(s, pair) = Summed(s, Word(s.hl + r0), f0)
    BY Zenon DEF AddHlRr, Summed
  <2>2. r0 = rr
    BY <1>1
  <2> HIDE DEF r0, rr
  <2>3. AddHlRr(s, pair) = Summed(s, w, f)
    BY <1>1, <2>1, <2>2, Zenon
  <2> HIDE DEF w, f
  <2> QED BY <1>1, <2>3, SumWrites
<1>6. LegacyAddHl(t, pair) = Set(WithFlags(t, t.fz, 0, h, c), "hl", w)
  <2>1. LegacyAddHl(t, pair) = Set(WithFlags(t, t.fz, 0, Carry11(rr, t.hl), Carry15(rr, t.hl)), "hl", Word(rr + t.hl))
    BY Zenon DEF LegacyAddHl, Set
  <2> HIDE DEF rr
  <2>2. rr + t.hl = t.hl + rr /\ Carry11(rr, t.hl) = h /\ Carry15(rr, t.hl) = c
    BY <1>1, <1>2, CarriesSwap
  <2> QED BY <2>1, <2>2, Zenon
<1> HIDE DEF w, h, c, f, rr
<1>7. LegacyAddHl(t, pair) = WithFlags(Set(t, "hl", w), t.fz, 0, h, c)
  BY <1>1, <1>4, <1>6, FlagsSet
<1>8. Match(Set(s, "hl", w), Set(t, "hl", w))
  BY <1>4, MatchSet
<1>9. Match(Flagged(Set(s, "hl", w), StoreFlags(t.fz, 0, h, c)), WithFlags(Set(t, "hl", w), t.fz, 0, h, c))
  BY <1>3, <1>8, MatchFlags
<1> QED BY <1>5, <1>7, <1>9 DEF f

\* The micro-operations on words and the program counter.
LEMMA EmitAddHl ==
  ASSUME NEW s, NEW x, NEW inBlock
  PROVE  Emit(s, <<"add_hl_rr", x>>, inBlock) = AddHlRr(s, x)
  BY DEF Emit

\* The emitter of ADD SP, e8.
LEMMA EmitAddSp ==
  ASSUME NEW s, NEW x, NEW inBlock
  PROVE  Emit(s, <<"add_sp_e8", x>>, inBlock) = AddSpE8(s)
  BY DEF Emit

\* The emitter of LD HL, SP+e8.
LEMMA EmitLdHl ==
  ASSUME NEW s, NEW x, NEW inBlock
  PROVE  Emit(s, <<"ld_hl_sp_e8", x>>, inBlock) = LdHlSpE8(s)
  BY DEF Emit

\* The emitter of LD SP, HL.
LEMMA EmitLdSp ==
  ASSUME NEW s, NEW x, NEW inBlock
  PROVE  Emit(s, <<"ld_sp_hl", x>>, inBlock) = Set(s, "sp", s.hl)
  BY DEF Emit, Set

\* The emitter of PUSH.
LEMMA EmitPush ==
  ASSUME NEW s, NEW x, NEW inBlock
  PROVE  Emit(s, <<"push_pair", x>>, inBlock) = PushPair(s, x)
  BY DEF Emit

\* The emitter of POP.
LEMMA EmitPop ==
  ASSUME NEW s, NEW x, NEW y, NEW inBlock
  PROVE  Emit(s, <<"pop_pair", <<x, y>>>>, inBlock) = PopPair(s, x, y)
  BY DEF Emit

\* A branch to the immediate address,
LEMMA EmitJp ==
  ASSUME NEW s, NEW y, NEW inBlock
  PROVE  Emit(s, <<"branch", <<"nn", y>>>>, inBlock) = Branch(s, Imm16, y)
  BY DEF Emit

\* to the address in HL,
LEMMA EmitJpHl ==
  ASSUME NEW s, NEW y, NEW inBlock
  PROVE  Emit(s, <<"branch", <<"hl", y>>>>, inBlock) = Branch(s, s.hl, y)
  BY DEF Emit

\* and relative to the program counter.
LEMMA EmitJr ==
  ASSUME NEW s, NEW y, NEW inBlock
  PROVE  Emit(s, <<"branch", <<"e8", y>>>>, inBlock) = Branch(s, Word(s.pc + Signed(s.n)), y)
  BY DEF Emit

\* The emitter of CALL and RST.
LEMMA EmitCall ==
  ASSUME NEW s, NEW x, NEW y, NEW inBlock
  PROVE  Emit(s, <<"call", <<x, y>>>>, inBlock) = Call(s, x, y)
  BY DEF Emit

\* The emitter of RET.
LEMMA EmitRet ==
  ASSUME NEW s, NEW x, NEW inBlock
  PROVE  Emit(s, <<"ret", x>>, inBlock) = Ret(s, x)
  BY DEF Emit

\* RETI's second step.
LEMMA EmitIme ==
  ASSUME NEW s, NEW x, NEW inBlock
  PROVE  Emit(s, <<"ime", x>>, inBlock) = Set(s, "ime", TRUE)
  BY DEF Emit, Set


\* Both engines' flags of SP plus a signed byte.
LEMMA SignedFlags ==
  ASSUME NEW s, NEW t, Match(s, t)
  PROVE  \E h, c \in {0, 1} : /\ SpE8Flags(s) = StoreFlags(0, 0, h, c)
                              /\ SignedCarries(t) = WithFlags(t, 0, 0, h, c)
                              /\ Word(t.sp + Signed(t.n)) \in B16
<1> DEFINE h == Num(Nibble(t.sp) + Nibble(t.n) > 15)
           c == Num(Byte(t.sp) + t.n > 255)
           x == Xor(Xor(t.sp, Word(Signed(t.n))), Word(t.sp + Signed(t.n)))
<1>1. s.sp = t.sp /\ s.n = t.n /\ t.sp \in B16 /\ t.n \in B8
  BY MatchFields
<1>2. Bit(x, 4) = h /\ Bit(x, 8) = c /\ Word(t.sp + Signed(t.n)) \in B16
  BY <1>1, SignedCarry
<1>3. h \in {0, 1} /\ c \in {0, 1}
  BY NumType
<1>4. SpE8Flags(s) = StoreFlags(0, 0, h, c)
  BY <1>1 DEF SpE8Flags
<1> HIDE DEF h, c
<1>5. SignedCarries(t) = WithFlags(t, 0, 0, Bit(x, 4), Bit(x, 8))
  BY Zenon DEF SignedCarries
<1> HIDE DEF x
<1>6. SignedCarries(t) = WithFlags(t, 0, 0, h, c)
  BY <1>2, <1>5, Zenon
<1> QED BY <1>2, <1>3, <1>4, <1>6

\* A word and all the flags.
LEMMA MatchWord ==
  ASSUME NEW s, NEW t, Match(s, t), NEW reg \in {"hl", "sp"}, NEW w \in B16,
         NEW z, NEW n, NEW h, NEW c, AreFlags(z, n, h, c)
  PROVE  Match(Flagged(Set(s, reg, w), StoreFlags(z, n, h, c)), Set(WithFlags(t, z, n, h, c), reg, w))
<1>1. Fits(reg, w)
  BY DEF Fits
<1>2. Match(Set(s, reg, w), Set(t, reg, w))
  BY <1>1, MatchSet
<1>3. Match(Flagged(Set(s, reg, w), StoreFlags(z, n, h, c)), WithFlags(Set(t, reg, w), z, n, h, c))
  BY <1>2, MatchFlags
<1>4. t \in LState
  BY DEF Match
<1>5. Set(WithFlags(t, z, n, h, c), reg, w) = WithFlags(Set(t, reg, w), z, n, h, c)
  BY <1>1, <1>4, FlagsSet
<1> QED BY <1>3, <1>5

\* ADD SP,e8 and LD HL,SP+e8.
LEMMA SpE8Match ==
  ASSUME NEW s, NEW t, Match(s, t)
  PROVE  Match(AddSpE8(s), LegacyAddSp(t)) /\ Match(LdHlSpE8(s), LegacyLdHlSp(t))
<1> DEFINE w == Word(t.sp + Signed(t.n))
<1>1. s \in JState /\ t \in LState /\ s.sp = t.sp /\ s.n = t.n /\ t.sp \in B16 /\ t.n \in B8
  BY MatchFields
<1>2. PICK h, c \in {0, 1} : SpE8Flags(s) = StoreFlags(0, 0, h, c) /\
        SignedCarries(t) = WithFlags(t, 0, 0, h, c) /\ w \in B16
  BY SignedFlags
<1> DEFINE q == WithFlags(t, 0, 0, h, c)
           f == StoreFlags(0, 0, h, c)
<1>3. AreFlags(0, 0, h, c)
  BY DEF AreFlags
<1>4. q.sp = t.sp
  BY <1>1 DEF WithFlags, LState
<1>5. AddSpE8(s) = Flagged(Set(s, "sp", w), f) /\ LdHlSpE8(s) = Flagged(Set(s, "hl", w), f)
  <2>1. w = Word(s.sp + Signed(s.n)) /\ f = SpE8Flags(s)
    BY <1>1, <1>2, Zenon
  <2> HIDE DEF w, f
  <2>2. AddSpE8(s) = Flagged(Set(s, "sp", w), f)
    BY <1>1, <2>1 DEF AddSpE8, Flagged, Set, JState
  <2>3. LdHlSpE8(s) = Flagged(Set(s, "hl", w), f)
    BY <1>1, <2>1 DEF LdHlSpE8, Flagged, Set, JState
  <2> QED BY <2>2, <2>3
<1>6. LegacyAddSp(t) = Set(q, "sp", w) /\ LegacyLdHlSp(t) = Set(q, "hl", w)
  <2>0. SignedCarries(t) = q
    BY <1>2, Zenon
  <2> HIDE DEF q
  <2>1. LegacyAddSp(t) = Set(q, "sp", w)
    BY <1>4, <2>0 DEF LegacyAddSp, Set
  <2>2. LegacyLdHlSp(t) = Set(q, "hl", w)
    BY <2>0 DEF LegacyLdHlSp, Set
  <2> QED BY <2>1, <2>2
<1> HIDE DEF w
<1>7. Match(Flagged(Set(s, "sp", w), f), Set(q, "sp", w)) /\ Match(Flagged(Set(s, "hl", w), f), Set(q, "hl", w))
  BY <1>2, <1>3, MatchWord
<1> HIDE DEF q, f
<1> QED BY <1>5, <1>6, <1>7, Zenon

\* The 16-bit instructions.
LEMMA WideMatch ==
  ASSUME NEW i \in Instructions, i.op \in WideOps, NEW j, NEW l, Match(j, l)
  PROVE  Match(Run(j, i, FALSE), LegacyStep(l, i))
<1> DEFINE s == Begin(j, i)
           t == Past(l, i)
<1>1. Steps(i) = WideSteps(i) /\ LegacyStep(l, i) = LegacyWide(t, i)
  BY StepsOf, LegacyOf
<1>2. Match(s, t)
  BY Begun
<1>3. i.op \in {"inc16", "dec16", "add_hl"} => i.src \in {"hl", "sp"}
  BY Operands
<1>4. CASE i.op \in {"inc16", "dec16"}
  <2> DEFINE d == IF i.op = "inc16" THEN 1 ELSE -1
  <2>1. WideSteps(i) = <<<<"add_pair", <<i.src, d>>>>>> /\ LegacyWide(t, i) = LegacyIncDec16(t, i.src, d)
    BY <1>4 DEF WideSteps, LegacyWide
  <2>2. d \in Int
    OBVIOUS
  <2> HIDE DEF d
  <2>3. Run(j, i, FALSE) = Emit(s, <<"add_pair", <<i.src, d>>>>, FALSE)
    <3>1. Steps(i) = <<<<"add_pair", <<i.src, d>>>>>>
      BY <1>1, <2>1, Zenon
    <3> QED BY <3>1, OneStep
  <2>4. Run(j, i, FALSE) = AddPair(s, i.src, d)
    BY <2>3, EmitPair
  <2> HIDE DEF s, t
  <2>5. Match(AddPair(s, i.src, d), LegacyIncDec16(t, i.src, d))
    BY <1>2, <1>3, <1>4, <2>2, MoveMatch
  <2> QED BY <1>1, <2>1, <2>4, <2>5
<1>5. CASE i.op = "add_hl"
  <2>1. WideSteps(i) = <<<<"add_hl_rr", i.src>>>> /\ LegacyWide(t, i) = LegacyAddHl(t, i.src)
    BY <1>5 DEF WideSteps, LegacyWide
  <2>2. Run(j, i, FALSE) = Emit(s, <<"add_hl_rr", i.src>>, FALSE)
    <3>1. Steps(i) = <<<<"add_hl_rr", i.src>>>>
      BY <1>1, <2>1, Zenon
    <3> QED BY <3>1, OneStep
  <2>3. Run(j, i, FALSE) = AddHlRr(s, i.src)
    BY <2>2, EmitAddHl
  <2> HIDE DEF s, t
  <2>4. Match(AddHlRr(s, i.src), LegacyAddHl(t, i.src))
    BY <1>2, <1>3, <1>5, AddHlMatch
  <2> QED BY <1>1, <2>1, <2>3, <2>4
<1>6. CASE i.op = "add_sp"
  <2>1. WideSteps(i) = <<<<"add_sp_e8", 0>>>> /\ LegacyWide(t, i) = LegacyAddSp(t)
    BY <1>6 DEF WideSteps, LegacyWide
  <2>2. Run(j, i, FALSE) = Emit(s, <<"add_sp_e8", 0>>, FALSE)
    <3>1. Steps(i) = <<<<"add_sp_e8", 0>>>>
      BY <1>1, <2>1, Zenon
    <3> QED BY <3>1, OneStep
  <2>3. Run(j, i, FALSE) = AddSpE8(s)
    BY <2>2, EmitAddSp
  <2> HIDE DEF s, t
  <2> QED BY <1>1, <1>2, <2>1, <2>3, SpE8Match
<1>7. CASE i.op = "ldhl"
  <2>1. WideSteps(i) = <<<<"ld_hl_sp_e8", 0>>>> /\ LegacyWide(t, i) = LegacyLdHlSp(t)
    BY <1>7 DEF WideSteps, LegacyWide
  <2>2. Run(j, i, FALSE) = Emit(s, <<"ld_hl_sp_e8", 0>>, FALSE)
    <3>1. Steps(i) = <<<<"ld_hl_sp_e8", 0>>>>
      BY <1>1, <2>1, Zenon
    <3> QED BY <3>1, OneStep
  <2>3. Run(j, i, FALSE) = LdHlSpE8(s)
    BY <2>2, EmitLdHl
  <2> HIDE DEF s, t
  <2> QED BY <1>1, <1>2, <2>1, <2>3, SpE8Match
<1>8. CASE i.op = "ld_sp_hl"
  <2>1. WideSteps(i) = <<<<"ld_sp_hl", 0>>>> /\ LegacyWide(t, i) = Set(t, "sp", t.hl)
    BY <1>8 DEF WideSteps, LegacyWide, Set
  <2>2. Run(j, i, FALSE) = Emit(s, <<"ld_sp_hl", 0>>, FALSE)
    <3>1. Steps(i) = <<<<"ld_sp_hl", 0>>>>
      BY <1>1, <2>1, Zenon
    <3> QED BY <3>1, OneStep
  <2>3. Run(j, i, FALSE) = Set(s, "sp", s.hl)
    BY <2>2, EmitLdSp
  <2> HIDE DEF s, t
  <2>4. s.hl = t.hl /\ t.hl \in B16
    BY <1>2, MatchFields
  <2>5. Fits("sp", t.hl)
    BY <2>4 DEF Fits
  <2>6. Match(Set(s, "sp", t.hl), Set(t, "sp", t.hl))
    BY <1>2, <2>5, MatchSet
  <2> QED BY <1>1, <2>1, <2>3, <2>4, <2>6, Zenon
<1> QED BY <1>4, <1>5, <1>6, <1>7, <1>8 DEF WideOps

\* POP AF: the high byte goes to A, four bits of the low byte to F.
LEMMA PopFlags ==
  ASSUME NEW x \in B16
  PROVE  LET p == And(x, 65520)
         IN  /\ p \div 256 = x \div 256 /\ x \div 256 \in B8
             /\ p % 256 = StoreFlags(Bit(x, 7), Bit(x, 6), Bit(x, 5), Bit(x, 4))
             /\ AreFlags(Bit(x, 7), Bit(x, 6), Bit(x, 5), Bit(x, 4))
<1> DEFINE p == And(x, 65520)
           r == x % 16
           q == x \div 16
           b4 == q % 2
           q1 == q \div 2
           b5 == q1 % 2
           q2 == q1 \div 2
           b6 == q2 % 2
           q3 == q2 \div 2
           b7 == q3 % 2
           q4 == q3 \div 2
<1>1. x = 16 * q + r /\ r \in 0..15 /\ q \in Nat /\ x \in Nat /\ x < 65536
  <2>1. x \in Nat /\ x < 65536
    BY DEF B16
  <2>2. x = 16 * q + r /\ r \in 0..15 /\ q \in Nat
    BY <2>1
  <2> QED BY <2>1, <2>2
<1>2. p = x - r
  BY AndFlagsMask
<1> HIDE DEF p, r, q
<1>3. q = 2 * q1 + b4 /\ b4 \in {0, 1} /\ q1 \in Nat
  BY <1>1
<1> HIDE DEF b4, q1
<1>4. q1 = 2 * q2 + b5 /\ b5 \in {0, 1} /\ q2 \in Nat
  BY <1>3
<1> HIDE DEF b5, q2
<1>5. q2 = 2 * q3 + b6 /\ b6 \in {0, 1} /\ q3 \in Nat
  BY <1>4
<1> HIDE DEF b6, q3
<1>6. q3 = 2 * q4 + b7 /\ b7 \in {0, 1} /\ q4 \in Nat
  BY <1>5
<1> HIDE DEF b7, q4
<1>7. x \div 32 = q1
  <2>1. x = 32 * q1 + (16 * b4 + r) /\ 16 * b4 + r \in 0..31
    BY <1>1, <1>3
  <2> QED BY <1>3, <2>1
<1>8. x \div 64 = q2
  <2> DEFINE o == 32 * b5 + 16 * b4 + r
  <2>1. x = 64 * q2 + o /\ o \in 0..63
    BY <1>1, <1>3, <1>4
  <2> HIDE DEF o
  <2> QED BY <1>4, <2>1
<1>9. x \div 128 = q3
  <2> DEFINE o == 64 * b6 + 32 * b5 + 16 * b4 + r
  <2>1. x = 128 * q3 + o /\ o \in 0..127
    BY <1>1, <1>3, <1>4, <1>5
  <2> HIDE DEF o
  <2> QED BY <1>5, <2>1
<1>10. x \div 256 = q4
  <2> DEFINE o == 128 * b7 + 64 * b6 + 32 * b5 + 16 * b4 + r
  <2>1. x = 256 * q4 + o /\ o \in 0..255
    BY <1>1, <1>3, <1>4, <1>5, <1>6
  <2> HIDE DEF o
  <2> QED BY <1>6, <2>1
<1>11. p \div 256 = q4 /\ p % 256 = StoreFlags(b7, b6, b5, b4)
  <2> DEFINE o == 128 * b7 + 64 * b6 + 32 * b5 + 16 * b4
  <2>1. p = 256 * q4 + o /\ o \in 0..255
    BY <1>1, <1>2, <1>3, <1>4, <1>5, <1>6
  <2>2. o = StoreFlags(b7, b6, b5, b4)
    BY DEF StoreFlags
  <2> HIDE DEF o
  <2>3. p \div 256 = q4 /\ p % 256 = o
    BY <1>6, <2>1
  <2> QED BY <2>2, <2>3
<1>12. Bit(x, 4) = b4
  BY 2^4 = 16 DEF Bit, b4, q
<1>13. Bit(x, 5) = b5
  BY <1>7, 2^5 = 32 DEF Bit, b5
<1>14. Bit(x, 6) = b6
  BY <1>8, 2^6 = 64 DEF Bit, b6
<1>15. Bit(x, 7) = b7
  BY <1>9, 2^7 = 128 DEF Bit, b7
<1>16. q4 \in B8
  BY <1>1, <1>3, <1>4, <1>5, <1>6 DEF B8
<1>17. AreFlags(b7, b6, b5, b4)
  BY <1>3, <1>4, <1>5, <1>6 DEF AreFlags
<1> QED BY <1>10, <1>11, <1>12, <1>13, <1>14, <1>15, <1>16, <1>17 DEF p

\* The stack pointer moves by a word.
LEMMA StackMoves ==
  ASSUME NEW x \in B16
  PROVE  Fits("sp", Word(x - 2)) /\ Fits("sp", Word(x + 2))
<1>1. x - 2 \in Int /\ x + 2 \in Int
  BY WordInt
<1>2. Word(x - 2) \in B16 /\ Word(x + 2) \in B16
  BY <1>1, Reduced
<1> QED BY <1>2 DEF Fits

\* A pushed word.
LEMMA PushMatch ==
  ASSUME NEW s, NEW t, Match(s, t), NEW w \in B16
  PROVE  Match(PushWord(s, w), Set(Set(t, "sp", Word(t.sp - 2)), "top", w))
<1> DEFINE d == Word(t.sp - 2)
<1>1. s \in JState /\ s.sp = t.sp /\ t.sp \in B16
  BY MatchFields
<1>2. Fits("sp", d) /\ Fits("top", w)
  BY <1>1, StackMoves DEF Fits
<1>3. PushWord(s, w) = Set(Set(s, "sp", d), "top", w)
  <2>1. d = Word(s.sp - 2)
    BY <1>1
  <2> HIDE DEF d
  <2> QED BY <1>1, <2>1 DEF PushWord, Set, JState
<1> HIDE DEF d
<1>4. Match(Set(s, "sp", d), Set(t, "sp", d))
  BY <1>2, MatchSet
<1>5. Match(Set(Set(s, "sp", d), "top", w), Set(Set(t, "sp", d), "top", w))
  BY <1>2, <1>4, MatchSet
<1> QED BY <1>3, <1>5 DEF d

\* Two bytes make a word.
LEMMA Paired ==
  ASSUME NEW x \in B8, NEW y \in B8
  PROVE  256 * x + y \in B16
<1> DEFINE w == 256 * x + y
<1>1. x \in Nat /\ y \in Nat /\ x <= 255 /\ y <= 255
  BY DEF B8
<1>2. w \in Nat /\ w < 65536
  BY <1>1
<1> HIDE DEF w
<1>3. w \in B16
  BY <1>2, InWord
<1> QED BY <1>3 DEF w

\* PUSH and POP.
LEMMA StackMatch ==
  ASSUME NEW i \in Instructions, i.op \in {"push", "pop"}, NEW j, NEW l, Match(j, l)
  PROVE  Match(Run(j, i, FALSE), LegacyStep(l, i))
<1> DEFINE s == Begin(j, i)
           t == Past(l, i)
<1>1. Steps(i) = StackSteps(i) /\ LegacyStep(l, i) = LegacyStack(t, i)
  BY StepsOf, LegacyOf
<1>2. Match(s, t)
  BY Begun
<1>3. i.src \in {"af", "hl"}
  BY Operands
<1>4. CASE i.op = "push"
  <2> DEFINE w == IF i.src = "af" THEN 256 * t.a + StoreFlags(t.fz, t.fn, t.fh, t.fc) ELSE t.hl
             d == Word(t.sp - 2)
  <2>1. Steps(i) = <<<<"push_pair", i.src>>>>
    BY <1>1, <1>4 DEF StackSteps
  <2>2. Run(j, i, FALSE) = PushPair(s, i.src)
    <3>1. Run(j, i, FALSE) = Emit(s, <<"push_pair", i.src>>, FALSE)
      BY <2>1, OneStep
    <3> QED BY <3>1, EmitPush
  <2>3. t.sp \in B16 /\ t \in LState
    BY <1>2, MatchFields
  <2>4. LegacyStack(t, i) = Set(Set(t, "sp", d), "top", w)
    <3> HIDE DEF t
    <3>1. LegacyStack(t, i) = [t EXCEPT !.sp = d, !.top = w]
      BY <1>4 DEF LegacyStack
    <3> HIDE DEF d, w
    <3>2. [t EXCEPT !.sp = d, !.top = w] = Set(Set(t, "sp", d), "top", w)
      BY <2>3 DEF Set, LState
    <3> QED BY <3>1, <3>2, Zenon
  <2> HIDE DEF s, t
  <2>5. PushPair(s, i.src) = PushWord(s, w)
    <3>1. s.a = t.a /\ s.hl = t.hl /\ s.f = StoreFlags(t.fz, t.fn, t.fh, t.fc)
      BY <1>2, MatchFields
    <3> QED BY <3>1 DEF PushPair
  <2>6. w \in B16
    <3>1. t.a \in B8 /\ t.hl \in B16 /\ StoreFlags(t.fz, t.fn, t.fh, t.fc) \in B8
      BY <1>2, MatchFields, FlagBits DEF AreFlags
    <3> DEFINE f == StoreFlags(t.fz, t.fn, t.fh, t.fc)
    <3> HIDE DEF f
    <3>2. f \in B8
      BY <3>1 DEF f
    <3>3. 256 * t.a + f \in B16
      BY <3>1, <3>2, Paired
    <3> QED BY <3>1, <3>3 DEF f
  <2> HIDE DEF w
  <2>7. Match(PushWord(s, w), Set(Set(t, "sp", d), "top", w))
    BY <1>2, <2>6, PushMatch
  <2> QED BY <1>1, <2>2, <2>4, <2>5, <2>7
<1>5. CASE i.op = "pop" /\ i.src = "hl"
  <2> DEFINE d == Word(t.sp + 2)
             mask == 65535
  <2>1. Steps(i) = <<<<"pop_pair", <<i.src, mask>>>>>>
    BY <1>1, <1>5 DEF StackSteps
  <2>0. \A x \in B16 : And(x, mask) = x
    BY AndFullMask
  <2> HIDE DEF mask
  <2>2. Run(j, i, FALSE) = PopPair(s, i.src, mask)
    <3>1. Run(j, i, FALSE) = Emit(s, <<"pop_pair", <<i.src, mask>>>>, FALSE)
      BY <2>1, OneStep
    <3> QED BY <3>1, EmitPop
  <2> HIDE DEF s, t
  <2>3. s \in JState /\ t \in LState /\ s.sp = t.sp /\ s.top = t.top /\ t.sp \in B16 /\ t.top \in B16
    BY <1>2, MatchFields
  <2>4. Fits("sp", d) /\ Fits("hl", t.top)
    BY <2>3, StackMoves DEF Fits
  <2>5. And(s.top, mask) = t.top
    BY <2>0, <2>3
  <2>6. PopPair(s, i.src, mask) = Set(Set(s, "sp", d), "hl", t.top)
    BY <1>5, <2>3, <2>5 DEF PopPair, Set
  <2>7. LegacyStack(t, i) = Set(Set(t, "hl", t.top), "sp", d)
    BY <1>5, <2>3 DEF LegacyStack, Set, LState
  <2> HIDE DEF d
  <2>8. Set(Set(t, "hl", t.top), "sp", d) = Set(Set(t, "sp", d), "hl", t.top)
    BY <2>3 DEF Set, LState
  <2>9. Match(Set(s, "sp", d), Set(t, "sp", d))
    BY <1>2, <2>4, MatchSet
  <2>10. Match(Set(Set(s, "sp", d), "hl", t.top), Set(Set(t, "sp", d), "hl", t.top))
    BY <2>4, <2>9, MatchSet
  <2> QED BY <1>1, <2>2, <2>6, <2>7, <2>8, <2>10
<1>6. CASE i.op = "pop" /\ i.src = "af"
  <2> DEFINE mask == 65520
             d == Word(t.sp + 2)
             a == t.top \div 256
             p == And(t.top, mask)
             z == Bit(t.top, 7)
             n == Bit(t.top, 6)
             h == Bit(t.top, 5)
             c == Bit(t.top, 4)
             f == StoreFlags(z, n, h, c)
  <2>1. Steps(i) = <<<<"pop_pair", <<i.src, mask>>>>>>
    BY <1>1, <1>6 DEF StackSteps
  <2>0. And(t.top, 65520) = And(t.top, mask)
    OBVIOUS
  <2> HIDE DEF mask
  <2>2. Run(j, i, FALSE) = PopPair(s, i.src, mask)
    <3>1. Run(j, i, FALSE) = Emit(s, <<"pop_pair", <<i.src, mask>>>>, FALSE)
      BY <2>1, OneStep
    <3> QED BY <3>1, EmitPop
  <2> HIDE DEF s, t
  <2>3. s \in JState /\ t \in LState /\ s.sp = t.sp /\ s.top = t.top /\ t.sp \in B16 /\ t.top \in B16
    BY <1>2, MatchFields
  <2>4. p \div 256 = a /\ a \in B8 /\ p % 256 = f /\ AreFlags(z, n, h, c)
    BY <2>0, <2>3, PopFlags
  <2>5. Fits("sp", d) /\ Fits("a", a)
    BY <2>3, <2>4, StackMoves DEF Fits
  <2>6. PopPair(s, i.src, mask) = Flagged(Set(Set(s, "sp", d), "a", a), f)
    <3>1. And(s.top, mask) = p
      BY <2>3
    <3> HIDE DEF p, f, a
    <3> QED BY <1>6, <2>3, <2>4, <3>1 DEF PopPair, Set, Flagged, JState
  <2>7. LegacyStack(t, i) = Set(Set(WithFlags(t, z, n, h, c), "a", a), "sp", d)
    <3> DEFINE q == WithFlags(t, z, n, h, c)
    <3>1. q \in LState /\ q.sp = t.sp
      <4>1. q \in LState
        BY <2>3, <2>4, WithFlagsFields DEF AreFlags
      <4> HIDE DEF z, n, h, c
      <4>2. q.sp = t.sp
        BY <2>3 DEF WithFlags, LState
      <4> QED BY <4>1, <4>2
    <3>2. LegacyStack(t, i) = [q EXCEPT !.a = t.top \div 256, !.sp = Word(@ + 2)]
      BY <1>6 DEF LegacyStack
    <3> HIDE DEF q
    <3> QED BY <3>1, <3>2 DEF Set, LState, q
  <2> HIDE DEF d, a, p, z, n, h, c
  <2>8. LegacyStack(t, i) = WithFlags(Set(Set(t, "sp", d), "a", a), z, n, h, c)
    BY <2>3, <2>7 DEF Set, WithFlags, LState
  <2>9. Match(Set(s, "sp", d), Set(t, "sp", d))
    BY <1>2, <2>5, MatchSet
  <2>10. Match(Set(Set(s, "sp", d), "a", a), Set(Set(t, "sp", d), "a", a))
    BY <2>5, <2>9, MatchSet
  <2>11. Match(Flagged(Set(Set(s, "sp", d), "a", a), f), WithFlags(Set(Set(t, "sp", d), "a", a), z, n, h, c))
    BY <2>4, <2>10, MatchFlags
  <2> HIDE DEF f
  <2> QED BY <1>1, <2>2, <2>6, <2>8, <2>11
<1> QED BY <1>3, <1>4, <1>5, <1>6

\* Both engines take the same branches.
LEMMA SameTaken ==
  ASSUME NEW s, NEW t, Match(s, t), NEW cc \in Conditions
  PROVE  FlagCond(s, cc) = LegacyTaken(t, cc) /\ FlagCond(s, cc) \in BOOLEAN
<1>1. Bit(s.f, Z) = t.fz /\ Bit(s.f, C) = t.fc
  BY MatchFields
<1>2. cc = "always" => FlagCond(s, cc) = TRUE /\ LegacyTaken(t, cc) = TRUE
  BY DEF FlagCond, LegacyTaken
<1>3. cc = "nz" => FlagCond(s, cc) = (t.fz = 0) /\ LegacyTaken(t, cc) = (t.fz = 0)
  BY <1>1 DEF FlagCond, LegacyTaken
<1>4. cc = "z" => FlagCond(s, cc) = (t.fz = 1) /\ LegacyTaken(t, cc) = (t.fz = 1)
  BY <1>1 DEF FlagCond, LegacyTaken
<1>5. cc = "nc" => FlagCond(s, cc) = (t.fc = 0) /\ LegacyTaken(t, cc) = (t.fc = 0)
  BY <1>1 DEF FlagCond, LegacyTaken
<1>6. cc = "c" => FlagCond(s, cc) = (t.fc = 1) /\ LegacyTaken(t, cc) = (t.fc = 1)
  BY <1>1 DEF FlagCond, LegacyTaken
<1> QED BY <1>2, <1>3, <1>4, <1>5, <1>6 DEF Conditions

\* A jump, taken or not.
LEMMA BranchMatch ==
  ASSUME NEW s, NEW t, Match(s, t), NEW cc \in Conditions, NEW w \in B16
  PROVE  Match(Branch(s, w, cc), IF LegacyTaken(t, cc) THEN Set(t, "pc", w) ELSE t)
<1>1. FlagCond(s, cc) = LegacyTaken(t, cc) /\ FlagCond(s, cc) \in BOOLEAN
  BY SameTaken
<1>2. s \in JState /\ t \in LState
  BY MatchFields
<1>3. CASE FlagCond(s, cc)
  <2>1. Branch(s, w, cc) = Set(s, "pc", w)
    BY <1>3 DEF Branch, Set
  <2>2. Fits("pc", w)
    BY DEF Fits
  <2>3. Match(Set(s, "pc", w), Set(t, "pc", w))
    BY <2>2, MatchSet
  <2> QED BY <1>1, <1>3, <2>1, <2>3, Zenon
<1>4. CASE ~FlagCond(s, cc)
  <2>1. Branch(s, w, cc) = Set(s, "pc", s.pc)
    BY <1>4 DEF Branch, Set
  <2>2. Set(s, "pc", s.pc) = s
    BY <1>2 DEF Set, JState
  <2> QED BY <1>1, <1>4, <2>1, <2>2, Zenon
<1> QED BY <1>1, <1>3, <1>4

\* The target of JR.
LEMMA RelativeTarget ==
  ASSUME NEW x \in B16, NEW n \in B8
  PROVE  Word(x + Signed(n)) \in B16
<1>1. Signed(n) \in Int
  BY DEF Signed, B8
<1> QED BY <1>1, WordSum

\* JP, JR and JP (HL).
LEMMA JumpMatch ==
  ASSUME NEW i \in Instructions, i.op \in {"jp", "jr", "jp_hl"}, NEW j, NEW l, Match(j, l)
  PROVE  Match(Run(j, i, FALSE), LegacyStep(l, i))
<1> DEFINE s == Begin(j, i)
           t == Past(l, i)
           w == CASE i.op = "jp" -> Imm16 [] i.op = "jr" -> Word(t.pc + Signed(t.n)) [] i.op = "jp_hl" -> t.hl
<1>1. Steps(i) = JumpSteps(i) /\ LegacyStep(l, i) = LegacyJump(t, i)
  BY StepsOf, LegacyOf DEF JumpOps
<1>2. Match(s, t)
  BY Begun
<1>3. i.cc \in Conditions
  BY Operands DEF JumpOps
<1>4. s.hl = t.hl /\ s.pc = t.pc /\ s.n = t.n /\ t.hl \in B16 /\ t.pc \in B16 /\ t.n \in B8
  BY <1>2, MatchFields
<1>5. w \in B16
  <2>1. Word(t.pc + Signed(t.n)) \in B16
    BY <1>4, RelativeTarget
  <2>2. Imm16 \in B16
    BY DEF Imm16, B16
  <2> QED BY <1>4, <2>1, <2>2
<1>6. Run(j, i, FALSE) = Branch(s, w, i.cc)
  <2>1. CASE i.op = "jp"
    <3>1. Steps(i) = <<<<"branch", <<"nn", i.cc>>>>>>
      BY <1>1, <2>1 DEF JumpSteps
    <3>2. Run(j, i, FALSE) = Emit(s, <<"branch", <<"nn", i.cc>>>>, FALSE)
      BY <3>1, OneStep
    <3>3. w = Imm16
      BY <2>1
    <3> HIDE DEF s, w
    <3> QED BY <3>2, <3>3, EmitJp
  <2>2. CASE i.op = "jr"
    <3>1. Steps(i) = <<<<"branch", <<"e8", i.cc>>>>>>
      BY <1>1, <2>2 DEF JumpSteps
    <3>2. Run(j, i, FALSE) = Emit(s, <<"branch", <<"e8", i.cc>>>>, FALSE)
      BY <3>1, OneStep
    <3>3. w = Word(s.pc + Signed(s.n))
      BY <1>4, <2>2
    <3> HIDE DEF s, w
    <3> QED BY <3>2, <3>3, EmitJr
  <2>3. CASE i.op = "jp_hl"
    <3>1. Steps(i) = <<<<"branch", <<"hl", i.cc>>>>>>
      BY <1>1, <2>3 DEF JumpSteps
    <3>2. Run(j, i, FALSE) = Emit(s, <<"branch", <<"hl", i.cc>>>>, FALSE)
      BY <3>1, OneStep
    <3>3. w = s.hl
      BY <1>4, <2>3
    <3> HIDE DEF s, w
    <3> QED BY <3>2, <3>3, EmitJpHl
  <2> QED BY <2>1, <2>2, <2>3
<1>7. LegacyJump(t, i) = IF LegacyTaken(t, i.cc) THEN Set(t, "pc", w) ELSE t
  <2> HIDE DEF t
  <2> QED BY Zenon DEF LegacyJump, Set
<1> HIDE DEF s, t, w
<1>8. Match(Branch(s, w, i.cc), IF LegacyTaken(t, i.cc) THEN Set(t, "pc", w) ELSE t)
  BY <1>2, <1>3, <1>5, BranchMatch
<1> QED BY <1>1, <1>6, <1>7, <1>8

\* A call, taken or not.
LEMMA CallMatch ==
  ASSUME NEW s, NEW t, Match(s, t), NEW cc \in Conditions, NEW w \in B16
  PROVE  Match(Call(s, w, cc), IF LegacyTaken(t, cc) THEN LegacyPush(t, w) ELSE t)
<1> DEFINE d == Word(t.sp - 2)
           q == Set(Set(t, "sp", d), "top", t.pc)
<1>1. FlagCond(s, cc) = LegacyTaken(t, cc) /\ FlagCond(s, cc) \in BOOLEAN
  BY SameTaken
<1>2. s \in JState /\ t \in LState /\ s.pc = t.pc /\ t.pc \in B16
  BY MatchFields
<1>3. CASE FlagCond(s, cc)
  <2>1. Call(s, w, cc) = Set(PushWord(s, t.pc), "pc", w)
    BY <1>2, <1>3 DEF Call, Set
  <2>2. LegacyPush(t, w) = Set(q, "pc", w)
    <3>1. LegacyPush(t, w) = [t EXCEPT !.sp = d, !.top = t.pc, !.pc = w]
      BY Zenon DEF LegacyPush
    <3> HIDE DEF d
    <3>2. [t EXCEPT !.sp = d, !.top = t.pc, !.pc = w] = Set(q, "pc", w)
      BY <1>2 DEF Set, LState
    <3> QED BY <3>1, <3>2, Zenon
  <2>3. Fits("pc", w)
    BY DEF Fits
  <2>4. Match(PushWord(s, t.pc), q)
    BY <1>2, PushMatch
  <2> HIDE DEF q
  <2>5. Match(Set(PushWord(s, t.pc), "pc", w), Set(q, "pc", w))
    BY <2>3, <2>4, MatchSet
  <2> QED BY <1>1, <1>3, <2>1, <2>2, <2>5, Zenon
<1>4. CASE ~FlagCond(s, cc)
  <2>1. Call(s, w, cc) = s
    BY <1>4 DEF Call
  <2> QED BY <1>1, <1>4, <2>1, Zenon
<1> QED BY <1>1, <1>3, <1>4

\* CALL and RST.
LEMMA CallsMatch ==
  ASSUME NEW i \in Instructions, i.op \in {"call", "rst"}, NEW j, NEW l, Match(j, l)
  PROVE  Match(Run(j, i, FALSE), LegacyStep(l, i))
<1> DEFINE s == Begin(j, i)
           t == Past(l, i)
           w == IF i.op = "call" THEN Imm16 ELSE i.k
<1>1. Steps(i) = JumpSteps(i)
  BY StepsOf DEF JumpOps
<1>2. Match(s, t)
  BY Begun
<1>3. i.cc \in Conditions /\ (i.op = "rst" => i.cc = "always" /\ i.k \in 0..56)
  BY Operands DEF JumpOps
<1>4. w \in B16
  <2>1. Imm16 \in B16
    BY DEF Imm16, B16
  <2>2. i.op = "rst" => i.k \in Nat /\ i.k < 65536
    BY <1>3
  <2>3. i.op = "rst" => i.k \in B16
    BY <2>2, InWord
  <2> QED BY <2>1, <2>3
<1>5. Run(j, i, FALSE) = Call(s, w, i.cc)
  <2>1. Steps(i) = <<<<"call", <<w, i.cc>>>>>>
    BY <1>1 DEF JumpSteps
  <2> HIDE DEF w
  <2>2. Run(j, i, FALSE) = Emit(s, <<"call", <<w, i.cc>>>>, FALSE)
    BY <2>1, OneStep
  <2> QED BY <2>2, EmitCall
<1>6. LegacyStep(l, i) = IF LegacyTaken(t, i.cc) THEN LegacyPush(t, w) ELSE t
  <2>1. CASE i.op = "call"
    <3>1. LegacyStep(l, i) = LegacyCall(t, i.cc)
      BY <2>1, LegacyOf
    <3> HIDE DEF t
    <3> QED BY <2>1, <3>1, Zenon DEF LegacyCall
  <2>2. CASE i.op = "rst"
    <3>1. LegacyStep(l, i) = LegacyRst(t, i.k)
      BY <2>2, LegacyOf
    <3> HIDE DEF t
    <3>2. w = i.k /\ LegacyTaken(t, i.cc)
      BY <1>3, <2>2 DEF LegacyTaken
    <3> HIDE DEF w
    <3> QED BY <3>1, <3>2, Zenon DEF LegacyRst
  <2> QED BY <2>1, <2>2
<1> HIDE DEF s, t, w
<1>7. Match(Call(s, w, i.cc), IF LegacyTaken(t, i.cc) THEN LegacyPush(t, w) ELSE t)
  BY <1>2, <1>3, <1>4, CallMatch
<1> QED BY <1>5, <1>6, <1>7

\* RET and RETI.
LEMMA RetMatch ==
  ASSUME NEW s, NEW t, Match(s, t), NEW cc \in Conditions
  PROVE  Match(Ret(s, cc), IF LegacyTaken(t, cc) THEN Set(Set(t, "pc", t.top), "sp", Word(t.sp + 2)) ELSE t)
<1> DEFINE d == Word(t.sp + 2)
           q == Set(Set(t, "pc", t.top), "sp", d)
<1>1. FlagCond(s, cc) = LegacyTaken(t, cc) /\ FlagCond(s, cc) \in BOOLEAN
  BY SameTaken
<1>2. s \in JState /\ t \in LState /\ s.top = t.top /\ t.top \in B16 /\ s.sp = t.sp /\ t.sp \in B16
  BY MatchFields
<1>3. CASE FlagCond(s, cc)
  <2>1. Ret(s, cc) = Set(Set(s, "pc", t.top), "sp", d)
    <3>1. Ret(s, cc) = [s EXCEPT !.pc = t.top, !.sp = d]
      BY <1>2, <1>3 DEF Ret
    <3> HIDE DEF d
    <3>2. [s EXCEPT !.pc = t.top, !.sp = d] = Set(Set(s, "pc", t.top), "sp", d)
      BY <1>2 DEF Set, JState
    <3> QED BY <3>1, <3>2, Zenon
  <2>2. Fits("pc", t.top) /\ Fits("sp", d)
    BY <1>2, StackMoves DEF Fits
  <2> HIDE DEF d
  <2>3. Match(Set(s, "pc", t.top), Set(t, "pc", t.top))
    BY <2>2, MatchSet
  <2>4. Match(Set(Set(s, "pc", t.top), "sp", d), q)
    BY <2>2, <2>3, MatchSet
  <2> HIDE DEF q
  <2> QED BY <1>1, <1>3, <2>1, <2>4, Zenon DEF q, d
<1>4. CASE ~FlagCond(s, cc)
  <2>1. Ret(s, cc) = s
    BY <1>4 DEF Ret
  <2> QED BY <1>1, <1>4, <2>1, Zenon
<1> QED BY <1>1, <1>3, <1>4

\* RET and RETI.
LEMMA ReturnsMatch ==
  ASSUME NEW i \in Instructions, i.op \in {"ret", "reti"}, NEW j, NEW l, Match(j, l)
  PROVE  Match(Run(j, i, FALSE), LegacyStep(l, i))
<1> DEFINE s == Begin(j, i)
           t == Past(l, i)
           q == Set(Set(t, "pc", t.top), "sp", Word(t.sp + 2))
           p == IF LegacyTaken(t, i.cc) THEN q ELSE t
<1>1. Steps(i) = JumpSteps(i) /\ LegacyStep(l, i) = LegacyRet(t, i)
  BY StepsOf, LegacyOf DEF JumpOps
<1>2. Match(s, t)
  BY Begun
<1>3. i.cc \in Conditions /\ (i.op = "reti" => i.cc = "always")
  BY Operands DEF JumpOps
<1>4. Match(Ret(s, i.cc), p)
  <2> HIDE DEF s, t
  <2> QED BY <1>2, <1>3, RetMatch
<1>5. t \in LState /\ t.ime \in BOOLEAN
  BY <1>2, MatchFields
<1>6. CASE i.op = "ret"
  <2>1. Steps(i) = <<<<"ret", i.cc>>>>
    BY <1>1, <1>6 DEF JumpSteps
  <2>2. Run(j, i, FALSE) = Emit(s, <<"ret", i.cc>>, FALSE)
    BY <2>1, OneStep
  <2>3. LegacyRet(t, i) = p
    <3> HIDE DEF t
    <3>1. CASE LegacyTaken(t, i.cc)
      <4> DEFINE d == Word(t.sp + 2)
                 e == t.ime \/ i.op = "reti"
      <4>1. LegacyRet(t, i) = [t EXCEPT !.pc = t.top, !.sp = d, !.ime = e]
        BY <3>1 DEF LegacyRet
      <4>2. e = t.ime
        BY <1>5, <1>6
      <4> HIDE DEF d, e
      <4>3. [t EXCEPT !.pc = t.top, !.sp = d, !.ime = e] = Set(Set(t, "pc", t.top), "sp", d)
        BY <1>5, <4>2 DEF Set, LState
      <4> QED BY <3>1, <4>1, <4>3, Zenon DEF d
    <3>2. CASE ~LegacyTaken(t, i.cc)
      BY <3>2, Zenon DEF LegacyRet
    <3> QED BY <3>1, <3>2
  <2> HIDE DEF s, t, p
  <2>4. Run(j, i, FALSE) = Ret(s, i.cc)
    BY <2>2, EmitRet
  <2> QED BY <1>1, <1>4, <2>3, <2>4
<1>7. CASE i.op = "reti"
  <2> DEFINE r1 == EmitNext(s, <<"ret", i.cc>>, FALSE)
             r2 == EmitNext(r1, <<"ime", 1>>, FALSE)
  <2>1. Steps(i) = <<<<"ret", i.cc>>, <<"ime", 1>>>>
    BY <1>1, <1>7 DEF JumpSteps
  <2>2. Run(j, i, FALSE) = r2
    BY <2>1, Run2, Zenon
  <2>3. LegacyTaken(t, i.cc)
    BY <1>3, <1>7 DEF LegacyTaken
  <2>4. LegacyRet(t, i) = Set(q, "ime", TRUE)
    <3> HIDE DEF t
    <3> DEFINE d == Word(t.sp + 2)
               e == t.ime \/ i.op = "reti"
    <3>1. LegacyRet(t, i) = [t EXCEPT !.pc = t.top, !.sp = d, !.ime = e]
      BY <2>3 DEF LegacyRet
    <3>2. e = TRUE
      BY <1>5, <1>7
    <3> HIDE DEF d, e
    <3>3. [t EXCEPT !.pc = t.top, !.sp = d, !.ime = e] = Set(Set(Set(t, "pc", t.top), "sp", d), "ime", TRUE)
      BY <1>5, <3>2 DEF Set, LState
    <3> QED BY <3>1, <3>3, Zenon DEF d
  <2>5. s \in JState /\ p = q
    BY <1>2, <2>3, MatchFields
  <2> HIDE DEF s, t, p, q
  <2>6. r1 = Ret(s, i.cc)
    BY <2>5, EmitsAll, EmitRet
  <2>7. Match(r1, q)
    BY <1>4, <2>5, <2>6
  <2> HIDE DEF r1
  <2>8. r2 = Set(r1, "ime", TRUE)
    <3>1. r1 \in JState
      BY <2>7, MatchFields
    <3> QED BY <3>1, EmitsAll, EmitIme
  <2>9. Fits("ime", TRUE)
    BY DEF Fits
  <2>10. Match(Set(r1, "ime", TRUE), Set(q, "ime", TRUE))
    BY <2>7, <2>9, MatchSet
  <2> HIDE DEF r2
  <2> QED BY <1>1, <2>2, <2>4, <2>8, <2>10, Zenon
<1> QED BY <1>6, <1>7

\* The shifts whose result LegacyCpu reads again.
ReadAgain == {"rrc", "rl", "sla"}

\* One instruction of either engine.
LEMMA StepMatch ==
  ASSUME NEW i \in Instructions, NEW j, NEW l, Match(j, l), i.op \in ReadAgain => Holds(l, i.src)
  PROVE  Match(Run(j, i, FALSE), LegacyStep(l, i))
<1>1. CASE i.op \in AluOps
  BY <1>1, ArithmeticMatch
<1>2. CASE i.op \in {"inc", "dec"}
  BY <1>2, IncDecMatch
<1>3. CASE i.op \in ShiftOps
  BY <1>3, ShiftMatch DEF ReadAgain
<1>4. CASE i.op = "bit"
  BY <1>4, BitMatch
<1>5. CASE i.op \in {"set", "res"}
  BY <1>5, SetResMatch
<1>6. CASE i.op \in {"rlca", "rrca", "rla", "rra"}
  BY <1>6, RotateMatch
<1>7. CASE i.op \in {"scf", "ccf"}
  BY <1>7, CarryMatch
<1>8. CASE i.op = "cpl"
  BY <1>8, CplMatch
<1>9. CASE i.op = "daa"
  BY <1>9, DaaMatch
<1>10. CASE i.op \in {"ld_from", "ld_to", "ld_imm"}
  BY <1>10, LoadMatch
<1>11. CASE i.op \in {"ldi_to", "ldd_to", "ldi_from", "ldd_from"}
  BY <1>11, IndirectMatch
<1>12. CASE i.op \in WideOps
  BY <1>12, WideMatch
<1>13. CASE i.op \in {"push", "pop"}
  BY <1>13, StackMatch
<1>14. CASE i.op \in {"jp", "jr", "jp_hl"}
  BY <1>14, JumpMatch
<1>15. CASE i.op \in {"call", "rst"}
  BY <1>15, CallsMatch
<1>16. CASE i.op \in {"ret", "reti"}
  BY <1>16, ReturnsMatch
<1>17. \/ i.op \in AluOps \/ i.op \in {"inc", "dec"} \/ i.op \in ShiftOps \/ i.op = "bit" \/ i.op \in {"set", "res"}
       \/ i.op \in {"rlca", "rrca", "rla", "rra"} \/ i.op \in {"scf", "ccf"} \/ i.op = "cpl" \/ i.op = "daa"
       \/ i.op \in {"ld_from", "ld_to", "ld_imm"} \/ i.op \in {"ldi_to", "ldd_to", "ldi_from", "ldd_from"}
       \/ i.op \in WideOps \/ i.op \in {"push", "pop"} \/ i.op \in {"jp", "jr", "jp_hl"} \/ i.op \in {"call", "rst"}
       \/ i.op \in {"ret", "reti"}
  <2>1. i \in Arithmetic => i.op \in AluOps
    BY DEF Arithmetic, I
  <2>2. i \in ReadModifyWrite => i.op \in {"inc", "dec", "set", "res"} \cup ShiftOps
    BY DEF ReadModifyWrite, I
  <2>3. i \in Loads => i.op \in {"bit", "ld_from", "ld_to", "ld_imm", "ldi_to", "ldd_to", "ldi_from", "ldd_from"}
    BY DEF Loads, I
  <2> QED BY <2>1, <2>2, <2>3, Kinds DEF Instructions, JumpOps
<1> QED BY <1>1, <1>2, <1>3, <1>4, <1>5, <1>6, <1>7, <1>8, <1>9, <1>10, <1>11, <1>12, <1>13, <1>14, <1>15,
  <1>16, <1>17

\* Both engines keep their widths, whatever a location holds.
LEMMA StepTypes ==
  ASSUME NEW i \in Instructions, NEW j, NEW l, Match(j, l)
  PROVE  Run(j, i, FALSE) \in JState /\ LegacyStep(l, i) \in LState
<1>1. CASE i.op \in ReadAgain
  <2>1. i.op \in ShiftOps /\ i.src \in {"b", "hl"}
    BY <1>1, Operands DEF ReadAgain, ShiftOps
  <2>2. Run(j, i, FALSE) \in JState
    BY <2>1, ShiftList DEF Match
  <2>3. LegacyStep(l, i) = LegacyShift(Past(l, i), i.op, i.src)
    BY <2>1, LegacyOf
  <2>4. Past(l, i) \in LState
    BY Begun
  <2> QED BY <2>1, <2>2, <2>3, <2>4, ShiftType
<1>2. CASE i.op \notin ReadAgain
  BY <1>2, StepMatch DEF Match
<1> QED BY <1>1, <1>2

-----------------------------------------------------------------------------
(* The same list inside a block. *)

\* s as a block leaves it.
Left(s, x) == [s EXCEPT !.left = x]

\* Only a store tells a block from a single instruction.
LEMMA SameOutside ==
  ASSUME NEW s, NEW u, u[1] # "store_byte"
  PROVE  EmitNext(s, u, TRUE) = EmitNext(s, u, FALSE)
<1>1. Emit(s, u, TRUE) = Emit(s, u, FALSE)
  BY SMTT(60) DEF Emit
<1> QED BY <1>1, Zenon DEF EmitNext

\* A store differs in having left the block.
LEMMA StoreLeaves ==
  ASSUME NEW s, NEW u, u[1] = "store_byte"
  PROVE  \/ EmitNext(s, u, TRUE) = EmitNext(s, u, FALSE)
         \/ \E x : EmitNext(s, u, TRUE) = Left(EmitNext(s, u, FALSE), x)
<1>1. CASE s.left
  BY <1>1, Zenon DEF EmitNext
<1>2. CASE ~s.left
  <2> DEFINE x == TRUE /\ IsIrqRelevantAddress(s.at)
             y == FALSE /\ IsIrqRelevantAddress(s.at)
             w == WriteByte(s, s.v)
  <2>2. EmitNext(s, u, TRUE) = Emit(s, u, TRUE) /\ EmitNext(s, u, FALSE) = Emit(s, u, FALSE)
    BY <1>2, Zenon DEF EmitNext
  <2>3. Emit(s, u, TRUE) = StoreByte(s, TRUE) /\ Emit(s, u, FALSE) = StoreByte(s, FALSE)
    BY DEF Emit
  <2>4. StoreByte(s, TRUE) = Left(w, x) /\ StoreByte(s, FALSE) = Left(w, y)
    BY Zenon DEF StoreByte, Left
  <2> HIDE DEF x, y, w
  <2>6. Left(w, x) = Left(Left(w, y), x)
    BY DEF Left
  <2>7. EmitNext(s, u, TRUE) = Left(EmitNext(s, u, FALSE), x)
    BY <2>2, <2>3, <2>4, <2>6, Zenon
  <2> QED BY <2>7
<1> QED BY <1>1, <1>2

\* Only the last step of a list is a store.
StoresLast(steps) == Len(steps) \in Nat \ {0} /\ \A k \in 1 .. (Len(steps) - 1) : steps[k][1] # "store_byte"

\* The states a list goes through.
Passage(s, i, inBlock, k, run) ==
  /\ run[0] = Begin(s, i)
  /\ \A q \in 1 .. k : run[q] = EmitNext(run[q - 1], Steps(i)[q], inBlock)
  /\ Run(s, i, inBlock) = run[k]

\* Run takes a passage.
LEMMA PassageExists ==
  ASSUME NEW s, NEW i, NEW inBlock, NEW k \in Nat, Len(Steps(i)) = k
  PROVE  \E run : Passage(s, i, inBlock, k, run)
<1>1. PICK run : Passing(s, i, inBlock, Steps(i), k, run) /\ Run(s, i, inBlock) = run[k]
  BY RunDef
<1>2. /\ run[0] = Begin(s, i)
      /\ \A q \in 1 .. k : run[q] = EmitNext(run[q - 1], Steps(i)[q], inBlock)
  BY <1>1, PassingStep
<1> QED BY <1>1, <1>2, Zenon DEF Passage

\* So a block and a single instruction take the same passage to the last step.
LEMMA SamePassage ==
  ASSUME NEW s, NEW t, NEW i, Begin(s, i) = Begin(t, i), StoresLast(Steps(i))
  PROVE  \E r : /\ Run(s, i, TRUE) = EmitNext(r, Steps(i)[Len(Steps(i))], TRUE)
                /\ Run(t, i, FALSE) = EmitNext(r, Steps(i)[Len(Steps(i))], FALSE)
<1> DEFINE st == Steps(i)
           n == Len(st)
           k == n - 1
<1>1. n \in Nat \ {0} /\ k \in Nat /\ n - 1 = k /\ n \in 1 .. n /\ \A q \in 1 .. k : st[q][1] # "store_byte"
  BY DEF StoresLast
<1>2. n \in Nat /\ Len(Steps(i)) = n
  BY <1>1
<1> HIDE DEF n
<1>13. PICK f : Passage(s, i, TRUE, n, f)
  BY <1>2, PassageExists
<1>14. PICK g : Passage(t, i, FALSE, n, g)
  BY <1>2, PassageExists
<1>3. /\ f[0] = Begin(s, i)
      /\ \A q \in 1 .. n : f[q] = EmitNext(f[q - 1], Steps(i)[q], TRUE)
      /\ Run(s, i, TRUE) = f[n]
  BY <1>13, Zenon DEF Passage
<1>4. /\ g[0] = Begin(t, i)
      /\ \A q \in 1 .. n : g[q] = EmitNext(g[q - 1], Steps(i)[q], FALSE)
      /\ Run(t, i, FALSE) = g[n]
  BY <1>14, Zenon DEF Passage
<1> HIDE DEF st
<1> DEFINE T == {q \in 0 .. k : f[q] = g[q]}
<1> HIDE DEF k
<1>6. 0 \in T
  BY <1>1, <1>3, <1>4
<1>7. ASSUME NEW q \in 0 .. k-1, q \in T PROVE q+1 \in T
  <2>1. q+1 \in 1 .. n /\ q+1 \in 1 .. k /\ q+1 \in 0 .. k /\ (q+1) - 1 = q
    BY <1>1, <1>7
  <2>2. f[q+1] = EmitNext(f[q], st[q+1], TRUE) /\ g[q+1] = EmitNext(g[q], st[q+1], FALSE)
    BY <1>3, <1>4, <2>1 DEF st
  <2>3. st[q+1][1] # "store_byte"
    BY <1>1, <2>1
  <2>4. f[q] = g[q]
    BY <1>7
  <2>5. f[q+1] = g[q+1]
    BY <2>2, <2>3, <2>4, SameOutside
  <2> QED BY <2>1, <2>5
<1> HIDE DEF T
<1>8. k \in T
  BY <1>1, <1>6, <1>7, UpTo, k \in 0 .. k
<1>9. f[k] = g[k]
  BY <1>8 DEF T
<1>10. f[n] = EmitNext(f[k], st[n], TRUE) /\ g[n] = EmitNext(g[k], st[n], FALSE)
  BY <1>1, <1>3, <1>4 DEF st
<1>11. Run(s, i, TRUE) = EmitNext(f[k], st[n], TRUE) /\ Run(t, i, FALSE) = EmitNext(f[k], st[n], FALSE)
  BY <1>3, <1>4, <1>9, <1>10, Zenon
<1> QED BY <1>11, Zenon DEF st, n

\* The block differs from the single instruction in having been left.
LEMMA BlockStep ==
  ASSUME NEW s, NEW t, NEW i, Begin(s, i) = Begin(t, i), StoresLast(Steps(i)), Run(t, i, FALSE) \in JState
  PROVE  \E x : Run(s, i, TRUE) = Left(Run(t, i, FALSE), x)
<1> DEFINE u == Steps(i)[Len(Steps(i))]
<1>1. PICK r : Run(s, i, TRUE) = EmitNext(r, u, TRUE) /\ Run(t, i, FALSE) = EmitNext(r, u, FALSE)
  BY SamePassage
<1> HIDE DEF u
<1>2. CASE Run(s, i, TRUE) = Run(t, i, FALSE)
  <2> DEFINE p == Run(t, i, FALSE)
  <2> HIDE DEF p
  <2>1. p \in JState
    BY DEF p
  <2>2. p = Left(p, FALSE)
    BY <2>1 DEF Left, JState
  <2> QED BY <1>2, <2>2, Zenon DEF p
<1>3. CASE u[1] # "store_byte"
  BY <1>1, <1>2, <1>3, SameOutside
<1>4. CASE u[1] = "store_byte"
  <2>1. \/ EmitNext(r, u, TRUE) = EmitNext(r, u, FALSE)
        \/ \E x : EmitNext(r, u, TRUE) = Left(EmitNext(r, u, FALSE), x)
    BY <1>4, StoreLeaves
  <2> QED BY <1>1, <1>2, <2>1, Zenon
<1> QED BY <1>3, <1>4

\* Lists of one to six steps with no store before the last.
LEMMA StoresLast1 ==
  ASSUME NEW u1
  PROVE  StoresLast(<<u1>>)
  BY DEF StoresLast
\* Lists of two steps,
LEMMA StoresLast2 ==
  ASSUME NEW u1, NEW u2, u1[1] # "store_byte"
  PROVE  StoresLast(<<u1, u2>>)
  BY DEF StoresLast
\* of three,
LEMMA StoresLast3 ==
  ASSUME NEW u1, NEW u2, NEW u3, u1[1] # "store_byte", u2[1] # "store_byte"
  PROVE  StoresLast(<<u1, u2, u3>>)
  BY DEF StoresLast
\* of four,
LEMMA StoresLast4 ==
  ASSUME NEW u1, NEW u2, NEW u3, NEW u4, u1[1] # "store_byte", u2[1] # "store_byte", u3[1] # "store_byte"
  PROVE  StoresLast(<<u1, u2, u3, u4>>)
  BY DEF StoresLast
\* of five
LEMMA StoresLast5 ==
  ASSUME NEW u1, NEW u2, NEW u3, NEW u4, NEW u5, u1[1] # "store_byte", u2[1] # "store_byte",
         u3[1] # "store_byte", u4[1] # "store_byte"
  PROVE  StoresLast(<<u1, u2, u3, u4, u5>>)
  BY DEF StoresLast
\* and of six.
LEMMA StoresLast6 ==
  ASSUME NEW u1, NEW u2, NEW u3, NEW u4, NEW u5, NEW u6, u1[1] # "store_byte", u2[1] # "store_byte",
         u3[1] # "store_byte", u4[1] # "store_byte", u5[1] # "store_byte"
  PROVE  StoresLast(<<u1, u2, u3, u4, u5, u6>>)
  BY DEF StoresLast

\* In the list of every instruction a store comes last.
LEMMA ListsStoreLast ==
  ASSUME NEW i \in Instructions
  PROVE  StoresLast(Steps(i))
<1>0. Fetch(i.src)[1] # "store_byte"
  BY DEF Fetch
<1> DEFINE f == Fetch(i.src)
           g == Back(i.src)
<1> HIDE DEF f, g
<1>00. f[1] # "store_byte" /\ f = Fetch(i.src) /\ g = Back(i.src)
  BY <1>0 DEF f, g
<1>1. CASE i.op \in AluOps
  <2>1. Steps(i) = <<f, <<"alu", i.op>>>>
    BY <1>00, <1>1, StepsOf
  <2> QED BY <1>00, <2>1, StoresLast2
<1>2. CASE i.op \in {"inc", "dec"}
  <2> DEFINE up == i.op = "inc"
             u2 == <<"add", IF up THEN 1 ELSE -1>>
             u3 == <<"update_zero", 0>>
             u4 == <<"set_flag", <<N, IF up THEN 0 ELSE 1>>>>
             u5 == <<IF up THEN "update_h_inc" ELSE "update_h_dec", 0>>
             u6 == <<"store_byte", 0>>
             w == <<"write_r8", "b">>
  <2>1. Steps(i) = IF i.src = "hl" THEN <<f, u2, u3, u4, u5, u6>> ELSE <<f, u2, w, u3, u4, u5>>
    <3>1. Steps(i) = IncDecSteps(i)
      BY <1>2, StepsOf
    <3> QED BY <1>00, <3>1, Zenon DEF IncDecSteps
  <2>2. u2[1] # "store_byte" /\ u3[1] # "store_byte" /\ u4[1] # "store_byte" /\ u5[1] # "store_byte" /\
          w[1] # "store_byte"
    OBVIOUS
  <2> HIDE DEF u2, u3, u4, u5, u6, w
  <2>3. StoresLast(<<f, u2, u3, u4, u5, u6>>)
    BY <1>00, <2>2, StoresLast6
  <2>4. StoresLast(<<f, u2, w, u3, u4, u5>>)
    BY <1>00, <2>2, StoresLast6
  <2> QED BY <2>1, <2>3, <2>4
<1>3. CASE i.op \in ShiftOps
  <2>1. Steps(i) = <<f, <<"shift", i.op>>, g>>
    BY <1>00, <1>3, StepsOf DEF ShiftSteps
  <2> QED BY <1>00, <2>1, StoresLast3
<1>4. CASE i.op = "bit"
  <2> DEFINE u2 == <<"bit_test", i.k>>
             u3 == <<"set_flag", <<N, 0>>>>
             u4 == <<"set_flag", <<H, 1>>>>
  <2>1. Steps(i) = <<f, u2, u3, u4>>
    BY <1>00, <1>4, StepsOf DEF BitSteps
  <2>2. u2[1] # "store_byte" /\ u3[1] # "store_byte"
    OBVIOUS
  <2> HIDE DEF u2, u3, u4
  <2> QED BY <1>00, <2>1, <2>2, StoresLast4
<1>5. CASE i.op = "set"
  <2>1. Steps(i) = <<f, <<"bit_set", i.k>>, g>>
    BY <1>00, <1>5, StepsOf DEF SetSteps
  <2> QED BY <1>00, <2>1, StoresLast3
<1>6. CASE i.op = "res"
  <2>1. Steps(i) = <<f, <<"bit_clear", i.k>>, g>>
    BY <1>00, <1>6, StepsOf DEF ResSteps
  <2> QED BY <1>00, <2>1, StoresLast3
<1>7. CASE i.op \in {"rlca", "rrca", "rla", "rra"}
  <2> DEFINE kind == CASE i.op = "rlca" -> "rlc" [] i.op = "rrca" -> "rrc" [] i.op = "rla" -> "rl" [] i.op = "rra" -> "rr"
             u1 == <<"read_r8", "a">>
             u2 == <<"shift_keep_z", kind>>
             u3 == <<"set_flag", <<Z, 0>>>>
             u4 == <<"write_r8", "a">>
  <2>1. Steps(i) = <<u1, u2, u3, u4>>
    <3>1. Steps(i) = RotateASteps(i)
      BY <1>7, StepsOf
    <3> QED BY <3>1, Zenon DEF RotateASteps
  <2>2. u1[1] # "store_byte" /\ u2[1] # "store_byte" /\ u3[1] # "store_byte"
    <3> HIDE DEF kind
    <3> QED OBVIOUS
  <2> HIDE DEF u1, u2, u3, u4
  <2> QED BY <2>1, <2>2, StoresLast4
<1>8. CASE i.op = "cpl"
  <2> DEFINE u1 == <<"read_r8", "a">>
             u2 == <<"mvn", 0>>
             u3 == <<"write_r8", "a">>
             u4 == <<"set_flag", <<N, 1>>>>
             u5 == <<"set_flag", <<H, 1>>>>
  <2>1. Steps(i) = <<u1, u2, u3, u4, u5>>
    BY <1>8, StepsOf DEF FlagSteps
  <2>2. u1[1] # "store_byte" /\ u2[1] # "store_byte" /\ u3[1] # "store_byte" /\ u4[1] # "store_byte"
    OBVIOUS
  <2> HIDE DEF u1, u2, u3, u4, u5
  <2> QED BY <2>1, <2>2, StoresLast5
<1>9. CASE i.op = "scf"
  <2> DEFINE u1 == <<"set_flag", <<N, 0>>>>
             u2 == <<"set_flag", <<H, 0>>>>
             u3 == <<"set_flag", <<C, 1>>>>
  <2>1. Steps(i) = <<u1, u2, u3>>
    BY <1>9, StepsOf DEF FlagSteps
  <2>2. u1[1] # "store_byte" /\ u2[1] # "store_byte"
    OBVIOUS
  <2> HIDE DEF u1, u2, u3
  <2> QED BY <2>1, <2>2, StoresLast3
<1>10. CASE i.op = "ccf"
  <2> DEFINE u1 == <<"toggle_flag", C>>
             u2 == <<"set_flag", <<N, 0>>>>
             u3 == <<"set_flag", <<H, 0>>>>
  <2>1. Steps(i) = <<u1, u2, u3>>
    BY <1>10, StepsOf DEF FlagSteps
  <2>2. u1[1] # "store_byte" /\ u2[1] # "store_byte"
    OBVIOUS
  <2> HIDE DEF u1, u2, u3
  <2> QED BY <2>1, <2>2, StoresLast3
<1>11. CASE i.op = "daa"
  BY <1>11, StepsOf, StoresLast1
<1>12. CASE i.op \in {"ld_from", "ld_to", "ld_imm"}
  <2>1. \/ Steps(i) = <<f, <<"write_r8", "a">>>>
        \/ Steps(i) = <<<<"read_r8", "a">>, g>>
        \/ Steps(i) = <<<<"read_r8", "n">>, g>>
    BY <1>00, <1>12, StepsOf DEF LoadSteps
  <2> QED BY <1>00, <2>1, StoresLast2
<1>13. CASE i.op \in {"ldi_to", "ldd_to", "ldi_from", "ldd_from"}
  <2> DEFINE move == <<"add_pair", <<"hl", IF i.op \in {"ldi_to", "ldi_from"} THEN 1 ELSE -1>>>>
             u1 == <<"read_r8", "a">>
             u2 == <<"store_byte", 0>>
             u3 == <<"load_byte", 0>>
             u4 == <<"write_r8", "a">>
  <2>1. Steps(i) = IF i.op \in {"ldi_to", "ldd_to"} THEN <<move, u1, u2>> ELSE <<u3, u4, move>>
    <3>1. Steps(i) = IndirectSteps(i)
      BY <1>13, StepsOf
    <3> QED BY <3>1, Zenon DEF IndirectSteps
  <2>2. move[1] # "store_byte" /\ u1[1] # "store_byte" /\ u3[1] # "store_byte" /\ u4[1] # "store_byte"
    OBVIOUS
  <2> HIDE DEF move, u1, u2, u3, u4
  <2>3. StoresLast(<<move, u1, u2>>) /\ StoresLast(<<u3, u4, move>>)
    BY <2>2, StoresLast3
  <2> QED BY <2>1, <2>3
<1>14. CASE i.op \in WideOps \cup {"push", "pop"}
  <2>1. \E u : Steps(i) = <<u>>
    <3>1. i.op \in WideOps => Steps(i) = WideSteps(i)
      BY StepsOf
    <3>2. i.op \in {"push", "pop"} => Steps(i) = StackSteps(i)
      BY StepsOf
    <3>3. i.op \in {"inc16", "dec16", "add_hl"} => \E u : WideSteps(i) = <<u>>
      BY DEF WideSteps
    <3>4. i.op \in {"add_sp", "ldhl", "ld_sp_hl"} => \E u : WideSteps(i) = <<u>>
      BY DEF WideSteps
    <3>5. \E u : StackSteps(i) = <<u>>
      <4> DEFINE u1 == <<"push_pair", i.src>>
                 u2 == <<"pop_pair", <<i.src, IF i.src = "af" THEN 65520 ELSE 65535>>>>
      <4>1. StackSteps(i) = <<u1>> \/ StackSteps(i) = <<u2>>
        BY DEF StackSteps
      <4> HIDE DEF u1, u2
      <4> QED BY <4>1
    <3> QED BY <1>14, <3>1, <3>2, <3>3, <3>4, <3>5 DEF WideOps
  <2> QED BY <2>1, StoresLast1
<1>15. CASE i.op \in JumpOps
  <2>1. Steps(i) = JumpSteps(i)
    BY <1>15, StepsOf
  <2>2. i.op \in {"jp", "jr", "jp_hl", "call", "rst", "ret"} => \E u : JumpSteps(i) = <<u>>
    BY DEF JumpSteps
  <2>3. i.op = "reti" => JumpSteps(i) = <<<<"ret", i.cc>>, <<"ime", 1>>>>
    BY DEF JumpSteps
  <2>4. CASE i.op = "reti"
    BY <2>1, <2>3, <2>4, StoresLast2
  <2>5. CASE i.op # "reti"
    <3>1. \E u : Steps(i) = <<u>>
      BY <1>15, <2>1, <2>2, <2>5 DEF JumpOps
    <3> QED BY <3>1, StoresLast1
  <2> QED BY <2>4, <2>5
<1>16. \/ i.op \in AluOps \/ i.op \in {"inc", "dec"} \/ i.op \in ShiftOps \/ i.op = "bit" \/ i.op = "set" \/ i.op = "res"
       \/ i.op \in {"rlca", "rrca", "rla", "rra"} \/ i.op = "cpl" \/ i.op = "scf" \/ i.op = "ccf" \/ i.op = "daa"
       \/ i.op \in {"ld_from", "ld_to", "ld_imm"} \/ i.op \in {"ldi_to", "ldd_to", "ldi_from", "ldd_from"}
       \/ i.op \in WideOps \cup {"push", "pop"} \/ i.op \in JumpOps
  <2>1. i \in Arithmetic => i.op \in AluOps
    BY DEF Arithmetic, I
  <2>2. i \in ReadModifyWrite => i.op \in {"inc", "dec", "set", "res"} \cup ShiftOps
    BY DEF ReadModifyWrite, I
  <2>3. i \in Loads => i.op \in {"bit", "ld_from", "ld_to", "ld_imm", "ldi_to", "ldd_to", "ldi_from", "ldd_from"}
    BY DEF Loads, I
  <2> QED BY <2>1, <2>2, <2>3, Kinds DEF Instructions
<1> QED BY <1>1, <1>2, <1>3, <1>4, <1>5, <1>6, <1>7, <1>8, <1>9, <1>10, <1>11, <1>12, <1>13, <1>14, <1>15, <1>16

-----------------------------------------------------------------------------
(* The invariant of the comparison. *)

\* The words of the starting registers have their width.
LEMMA WordInputs == Words \subseteq B16 /\ Addresses \subseteq B16 /\ StackWords \subseteq B16 /\ Pcs \subseteq B16
  BY WordWidth

\* The starting registers have their widths.
LEMMA InputTypes ==
  ASSUME NEW i, NEW q \in Inputs(i)
  PROVE  /\ q.a \in B8 /\ q.x \in B8 /\ q.f \in AllFlags
         /\ q.hl \in B16 /\ q.sp \in B16 /\ q.top \in B16 /\ q.pc \in B16
<1> DEFINE A == CASE i \in Decimal -> 0..255 [] i \in Arithmetic \cup Loads \cup OnA \cup Stack -> Bytes [] OTHER -> {90}
           X == IF i \in OnA \cup Decimal \cup Stack \/ i.src = "a" \/ (i \in Jumps /\
             i.op # "jr") THEN {0} ELSE Bytes
           HL == CASE i \in Wide \cup Stack \/ i.op = "jp_hl" -> Words
                   [] i.src = "hl" /\ i \notin Arithmetic -> Addresses
                   [] OTHER -> {Plain}
           SP == CASE i \in Wide -> Words [] i \in Stack \cup Jumps -> StackWords [] OTHER -> {Plain}
           TP == IF i.op \in {"pop", "ret", "reti"} THEN Words ELSE {0}
           PC == IF i \in Jumps THEN Pcs ELSE {Plain}
<1>1. Inputs(i) = [a : A, x : X, f : AllFlags, hl : HL, sp : SP, top : TP, pc : PC]
  BY Zenon DEF Inputs
<1>2. Bytes \subseteq B8 /\ 90 \in B8 /\ 0 \in B8
  <2>1. Bytes \subseteq B8
    BY ByteWidth
  <2> QED BY <2>1 DEF B8
<1>3. Words \subseteq B16 /\ Addresses \subseteq B16 /\ StackWords \subseteq B16 /\ Pcs \subseteq B16
  BY WordInputs
<1>4. Plain \in B16 /\ 0 \in B16
  <2>1. Plain \in Nat /\ Plain < 65536
    BY DEF Plain
  <2>2. 0 \in Nat /\ 0 < 65536
    OBVIOUS
  <2> QED BY <2>1, <2>2, InWord
<1>5. A \subseteq B8
  <2>1. 0..255 \subseteq B8
    BY DEF B8
  <2> QED BY <1>2, <2>1
<1>6. X \subseteq B8
  BY <1>2
<1>7. HL \subseteq B16
  BY <1>3, <1>4
<1>8. SP \subseteq B16
  BY <1>3, <1>4
<1>9. TP \subseteq B16 /\ PC \subseteq B16
  BY <1>3, <1>4
<1> HIDE DEF A, X, HL, SP, TP, PC
<1>10. q.a \in A /\ q.x \in X /\ q.f \in AllFlags /\ q.hl \in HL /\ q.sp \in SP /\ q.top \in TP /\ q.pc \in PC
  BY <1>1
<1> QED BY <1>5, <1>6, <1>7, <1>8, <1>9, <1>10

\* The engines start from the same machine.
LEMMA StartMatch ==
  ASSUME NEW i, NEW q \in Inputs(i)
  PROVE  Match(JsonState(q), LegacyState(q)) /\ LegacyState(q).at = q.hl
<1> DEFINE j == JsonState(q)
           l == LegacyState(q)
           m == Memory(q)
<1>1. /\ q.a \in B8 /\ q.x \in B8 /\ q.f \in AllFlags
      /\ q.hl \in B16 /\ q.sp \in B16 /\ q.top \in B16 /\ q.pc \in B16
  BY InputTypes
<1>2. 0 \in B8
  BY DEF B8
<1>3. m \in B8
  BY <1>1, <1>2, ReadBackType DEF Memory
<1>4. PICK z, n, h, c \in {0, 1} : q.f = StoreFlags(z, n, h, c)
  BY <1>1, FlagsOf
<1>5. Bit(q.f, Z) = z /\ Bit(q.f, N) = n /\ Bit(q.f, H) = h /\ Bit(q.f, C) = c
  BY <1>4, FlagBits
<1> HIDE DEF m
<1>6. j \in JState /\ j.f = q.f
  BY <1>1, <1>2, <1>3 DEF JsonState, JState, m
<1>7. l \in LState /\ l.fz = z /\ l.fn = n /\ l.fh = h /\ l.fc = c /\ l.at = q.hl
  BY <1>1, <1>2, <1>3, <1>5 DEF LegacyState, LState, m
<1>8. Keeps(j, l, {})
  <2>1. \A g \in {"a", "b", "hl", "sp", "pc", "n"} : j[g] = l[g]
    BY DEF JsonState, LegacyState
  <2>2. j.at = l.at /\ j.m = l.m /\ j.latch = l.latch /\ j.top = l.top
    BY DEF JsonState, LegacyState
  <2>3. j.ime = l.ime
    BY DEF JsonState, LegacyState
  <2> HIDE DEF j, l
  <2> QED BY <2>1, <2>2, <2>3 DEF Keeps, Shared, Common
<1> HIDE DEF j, l
<1>9. Match(j, l)
  BY <1>4, <1>6, <1>7, <1>8 DEF Match
<1> QED BY <1>7, <1>9 DEF j, l

\* The machines at every moment: of their widths and, but for the shifts that
\* LegacyCpu reads again, the same.
CpusInv ==
  /\ ins \in Instructions /\ start \in Inputs(ins)
  /\ json \in JState /\ legacy \in LState
  /\ ~Rereads => Match(json, legacy)
  /\ done = 0 => json = JsonState(start) /\ legacy = LegacyState(start)

\* What a step of either kind performs.
Performed(i) == json' = Run(json, i, FALSE) /\ block' = Run(block, i, TRUE) /\
  legacy' = LegacyStep(legacy, i) /\ ins' = ins /\ start' = start /\ done' # 0

\* The invariant is inductive: from the start the machines are the same
\* (StartMatch) and an instruction keeps them so (StepMatch).
LEMMA CpusStep ==
  ASSUME CpusInv, [Next]_vars
  PROVE  CpusInv'
<1>1. CASE Step
  <2>1. done = 0 /\ Performed(ins)
    BY <1>1 DEF Step, Perform, Performed
  <2>2. ins \in Instructions /\ start \in Inputs(ins) /\ json = JsonState(start) /\ legacy = LegacyState(start)
    BY <2>1 DEF CpusInv
  <2>3. Match(json, legacy) /\ legacy.at = start.hl
    BY <2>2, StartMatch
  <2>4. json' \in JState /\ legacy' \in LState
    BY <2>1, <2>2, <2>3, StepTypes DEF Performed
  <2>5. ~Rereads => (ins.op \in ReadAgain => Holds(legacy, ins.src))
    <3>1. ins.op \in ReadAgain => ins.src \in {"b", "hl"}
      BY <2>2, Operands DEF ReadAgain, ShiftOps
    <3> QED BY <2>3, <3>1 DEF Rereads, ReadAgain, Holds
  <2>6. ~Rereads => Match(json', legacy')
    BY <2>1, <2>2, <2>3, <2>5, StepMatch DEF Performed
  <2>7. Rereads' <=> Rereads
    BY <2>1 DEF Performed, Rereads
  <2> QED BY <2>1, <2>2, <2>4, <2>6, <2>7 DEF CpusInv, Performed
<1>2. CASE Adjust
  <2>1. PICK i \in Decimal : ins.op \in {"add", "adc", "sub", "sbc"} /\ Performed(i)
    <3>1. PICK i \in Decimal : Perform(i)
      BY <1>2 DEF Adjust
    <3>2. done' # 0
      BY <1>2, <3>1 DEF Adjust, Perform
    <3>3. Performed(i)
      BY <3>1, <3>2, Zenon DEF Perform, Performed
    <3>4. ins.op \in {"add", "adc", "sub", "sbc"}
      BY <1>2 DEF Adjust
    <3> QED BY <3>3, <3>4, Zenon
  <2>2. i \in Instructions /\ i.op = "daa"
    BY DEF Instructions, Decimal, I
  <2>3. Match(json, legacy) /\ ~Rereads
    BY <2>1 DEF CpusInv, Rereads
  <2>4. json' \in JState /\ legacy' \in LState
    BY <2>1, <2>2, <2>3, StepTypes DEF Performed
  <2>5. Match(json', legacy')
    BY <2>1, <2>2, <2>3, StepMatch DEF Performed, ReadAgain
  <2> QED BY <2>1, <2>4, <2>5 DEF CpusInv, Performed
<1>3. CASE UNCHANGED vars
  BY <1>3 DEF vars, CpusInv, Rereads
<1> QED BY <1>1, <1>2, <1>3 DEF Next

\* What the invariant says of the two states that CpuDiff compares.
LEMMA CpusHold ==
  ASSUME CpusInv
  PROVE  CpusAgree
<1>1. json \in JState /\ legacy \in LState
  BY DEF CpusInv
<1>2. json.a \in B8 /\ json.b \in B8 /\ json.m \in B8 /\ json.v \in B8 /\ json.f \in AllFlags
  BY <1>1 DEF JState
<1>3. legacy.a \in B8 /\ legacy.b \in B8 /\ legacy.m \in B8
  BY <1>1 DEF LState
<1>4. json.hl \in B16 /\ json.sp \in B16 /\ json.pc \in B16 /\ json.top \in B16
  BY <1>1 DEF JState
<1>5. legacy.hl \in B16 /\ legacy.sp \in B16 /\ legacy.pc \in B16 /\ legacy.top \in B16
  BY <1>1 DEF LState
<1>6. {json.a, json.b, json.m, json.v, legacy.a, legacy.b, legacy.m} \subseteq B8
  BY <1>2, <1>3
<1>7. {json.hl, json.sp, json.pc, json.top} \subseteq B16
  BY <1>4
<1>8. {legacy.hl, legacy.sp, legacy.pc, legacy.top} \subseteq B16
  BY <1>5
<1>9. WidthsKept
  BY <1>2, <1>6, <1>7, <1>8, Zenon DEF WidthsKept
<1>10. ASSUME ~Rereads
       PROVE  /\ \A field \in Common : json[field] = legacy[field]
              /\ json.f = StoreFlags(legacy.fz, legacy.fn, legacy.fh, legacy.fc)
  BY <1>10 DEF CpusInv, Match, Keeps, Shared
<1> QED BY <1>9, <1>10, Zenon DEF CpusAgree

\* The invariant holds at the start.
LEMMA CpusStart ==
  ASSUME Init
  PROVE  CpusInv
<1>1. ins \in Instructions /\ start \in Inputs(ins) /\ json = JsonState(start) /\ legacy = LegacyState(start)
  BY DEF Init
<1>2. Match(json, legacy)
  BY <1>1, StartMatch
<1>3. json \in JState /\ legacy \in LState
  BY <1>2 DEF Match
<1> QED BY <1>1, <1>2, <1>3, Zenon DEF CpusInv

\* CpuDiff.Run finds no difference, whatever the operands, addresses and words:
\* the micro-operation lists and the hand-written LegacyCpu.Step compute the same
\* registers, flags, memory and program counter, within their widths.
THEOREM CpusAgreement == Spec => []CpusAgree
<1>1. Init => CpusInv
  BY CpusStart
<1>2. CpusInv /\ [Next]_vars => CpusInv'
  BY CpusStep
<1>3. CpusInv => CpusAgree
  BY CpusHold
<1> QED BY <1>1, <1>2, <1>3, PTL DEF Spec

\* A compiled block is where one instruction at a time is, but that its last
\* store may have left it.
BlockInv == CpusInv /\ \E x : block = Left(json, x)

\* Every instruction begins in the block.
LEMMA SameBeginning ==
  ASSUME NEW s \in JState, NEW x, NEW i
  PROVE  Begin(Left(s, x), i) = Begin(s, i)
<1>1. DOMAIN Left(s, x) = DOMAIN s
  BY DEF Left
<1>2. Left(s, x).pc = s.pc
  BY DEF Left
<1> DEFINE p == Word(s.pc + Length(i))
<1>3. Begin(Left(s, x), i) = [Left(s, x) EXCEPT !.pc = p, !.v = 0, !.left = FALSE]
  BY <1>2 DEF Begin
<1>4. Begin(s, i) = [s EXCEPT !.pc = p, !.v = 0, !.left = FALSE]
  BY DEF Begin
<1> HIDE DEF p
<1>5. [Left(s, x) EXCEPT !.pc = p, !.v = 0, !.left = FALSE] = [s EXCEPT !.pc = p, !.v = 0, !.left = FALSE]
  BY DEF Left, JState
<1> QED BY <1>3, <1>4, <1>5, Zenon

\* One instruction in the block and one by itself.
LEMMA BlockPerform ==
  ASSUME NEW i \in Instructions, NEW s \in JState, NEW x, Run(s, i, FALSE) \in JState
  PROVE  \E y : Run(Left(s, x), i, TRUE) = Left(Run(s, i, FALSE), y)
<1>1. Begin(Left(s, x), i) = Begin(s, i)
  BY SameBeginning
<1>2. StoresLast(Steps(i))
  BY ListsStoreLast
<1> DEFINE t == Left(s, x)
<1> HIDE DEF t
<1>3. Begin(t, i) = Begin(s, i)
  BY <1>1 DEF t
<1>4. \E y : Run(t, i, TRUE) = Left(Run(s, i, FALSE), y)
  BY <1>2, <1>3, BlockStep, Zenon
<1> QED BY <1>4, Zenon DEF t

\* Every instruction performed keeps it.
LEMMA BlockNext ==
  ASSUME BlockInv, [Next]_vars
  PROVE  BlockInv'
<1>1. CpusInv'
  BY CpusStep DEF BlockInv
<1>2. PICK x : block = Left(json, x)
  BY DEF BlockInv
<1>3. json \in JState /\ json' \in JState
  BY <1>1 DEF BlockInv, CpusInv
<1>4. ASSUME NEW i \in Instructions, Perform(i)
      PROVE  BlockInv'
  <2>1. json' = Run(json, i, FALSE) /\ block' = Run(block, i, TRUE)
    BY <1>4, Zenon DEF Perform
  <2>2. Run(json, i, FALSE) \in JState
    BY <1>3, <2>1
  <2>3. PICK y : Run(Left(json, x), i, TRUE) = Left(Run(json, i, FALSE), y)
    BY <1>3, <2>2, BlockPerform
  <2>4. block' = Left(json', y)
    BY <1>2, <2>1, <2>3, Zenon
  <2> QED BY <1>1, <2>4 DEF BlockInv
<1>5. CASE Step
  BY <1>4, <1>5 DEF Step, BlockInv, CpusInv
<1>6. CASE Adjust
  <2>1. PICK i \in Decimal : Perform(i)
    BY <1>6 DEF Adjust
  <2>2. i \in Instructions
    BY DEF Instructions
  <2> QED BY <1>4, <2>1, <2>2
<1>7. CASE UNCHANGED vars
  BY <1>1, <1>2, <1>7 DEF vars, BlockInv
<1> QED BY <1>5, <1>6, <1>7 DEF Next

\* CpuDiff.RunBjitVsPerInstr compares what the invariant says is equal.
LEMMA BlockHolds ==
  ASSUME BlockInv
  PROVE  BlockAgrees
<1>1. PICK x : block = Left(json, x)
  BY DEF BlockInv
<1>2. json \in JState
  BY DEF BlockInv, CpusInv
<1>3. \A field \in {"a", "b", "hl", "sp", "pc"} : block[field] = json[field]
  BY <1>1, <1>2 DEF Left, JState
<1>4. \A field \in {"m", "latch", "top", "ime", "f"} : block[field] = json[field]
  BY <1>1, <1>2 DEF Left, JState
<1> QED BY <1>3, <1>4, Zenon DEF BlockAgrees, Common

\* A store that leaves the compiled block is the last thing its instruction does:
\* the block and the instruction run by itself agree on every register and on
\* memory, whatever the operands and the address.
THEOREM BlocksAgreement == Spec => []BlockAgrees
<1>1. Init => BlockInv
  <2> SUFFICES ASSUME Init PROVE BlockInv
    OBVIOUS
  <2>1. CpusInv
    BY CpusStart
  <2>2. json \in JState /\ block = json
    BY <2>1 DEF CpusInv, Init
  <2>3. json = Left(json, FALSE)
    BY <2>2 DEF Left, JState
  <2> QED BY <2>1, <2>2, <2>3 DEF BlockInv
<1>2. BlockInv /\ [Next]_vars => BlockInv'
  BY BlockNext
<1>3. BlockInv => BlockAgrees
  BY BlockHolds
<1> QED BY <1>1, <1>2, <1>3, PTL DEF Spec

-----------------------------------------------------------------------------
(* Decimal arithmetic. *)

\* A decimal byte is two digits.
LEMMA Digits ==
  ASSUME NEW a \in B8, IsBcd(a)
  PROVE  \E p, q \in 0..9 : a = 16 * p + q /\ Nibble(a) = q /\ FromBcd(a) = 10 * p + q
<1> DEFINE p == a \div 16
           q == a % 16
<1>1. p \in 0..9 /\ q \in 0..9 /\ a = 16 * p + q
  BY DEF B8, IsBcd, Nibble
<1>2. Nibble(a) = q /\ FromBcd(a) = 10 * p + q
  BY DEF Nibble, FromBcd
<1> QED BY <1>1, <1>2

\* and two digits are a decimal byte.
LEMMA TwoDigits ==
  ASSUME NEW p \in 0..9, NEW q \in 0..9
  PROVE  ToBcd(10 * p + q) = 16 * p + q
<1>1. (10 * p + q) \div 10 = p /\ (10 * p + q) % 10 = q
  OBVIOUS
<1> QED BY <1>1 DEF ToBcd

\* The sum of decimal bytes whose high digits make G and low digits, with the
\* carry in, L: the byte and flags that the ALU leaves adjust to the decimal sum.
AddsUp(G, L) ==
  LET s == 16 * G + L
      h == Num(L > 15)
      c == Num(s > 255)
      d == 10 * G + L
  IN  Adjusted(Byte(s), 0, h, c) = ToBcd(d % 100) /\ AdjustedCarry(Byte(s), 0, c) = Num(d \notin 0..99)

\* With e the carry out of the low digit and x out of the sum, the digits of the
\* result are z and l.
LEMMA AddDigits ==
  ASSUME NEW G \in 0..18, NEW L \in 0..19
  PROVE  AddsUp(G, L)
<1> DEFINE s == 16 * G + L
           h == Num(L > 15)
           c == Num(s > 255)
           d == 10 * G + L
           t == Byte(s)
           e == Num(L > 9)
           g == G + e
           l == L - 10 * e
           x == Num(g > 9)
           z == g - 10 * x
<1>1. h \in {0, 1} /\ c \in {0, 1} /\ e \in {0, 1} /\ x \in {0, 1}
  BY NumType
<1>2. (c = 1 <=> s > 255) /\ (h = 1 <=> L > 15) /\ (e = 1 <=> L > 9) /\ (x = 1 <=> g > 9)
  BY DEF Num
<1>3. s \in 0..307 /\ t \in 0..255 /\ t = s - 256 * c
  BY <1>1, <1>2 DEF Byte
<1>4. t % 16 = L % 16
  BY <1>1, <1>3
<1>5. (h = 1 \/ Nibble(t) > 9) <=> L > 9
  <2>1. L > 15 => h = 1
    BY <1>2
  <2>2. L \in 0..15 => L % 16 = L /\ h = 0
    BY <1>1, <1>2
  <2> QED BY <1>4, <2>1, <2>2 DEF Nibble
<1> HIDE DEF e, x, c, h, t
<1>6. (c = 1 \/ t > 153) <=> g > 9
  BY <1>1, <1>2, <1>3
<1>7. l \in 0..9 /\ z \in 0..9
  BY <1>1, <1>2
<1>8. t + 96 * x + 6 * e = 16 * z + l + 256 * (x - c) /\ (x = 0 => c = 0)
  BY <1>1, <1>2, <1>3
<1>9. Adjusted(t, 0, h, c) = Byte(t + 96 * x + 6 * e) /\ AdjustedCarry(t, 0, c) = x
  BY <1>5, <1>6 DEF Adjusted, AdjustedCarry, x, e, Num
<1>10. Byte(t + 96 * x + 6 * e) = 16 * z + l
  <2>1. x - c \in {0, 1} /\ 16 * z + l \in 0..255
    BY <1>1, <1>7, <1>8
  <2> HIDE DEF z, l
  <2> QED BY <1>8, <1>7, <2>1 DEF Byte
<1>11. d = 10 * z + l + 100 * x /\ d % 100 = 10 * z + l
  <2>1. d = 10 * z + l + 100 * x
    BY <1>1
  <2> HIDE DEF d, z, l
  <2> QED BY <1>1, <1>7, <2>1
<1>12. d \notin 0..99 <=> x = 1
  <2> HIDE DEF d, z, l
  <2> QED BY <1>1, <1>7, <1>11
<1>13. Num(d \notin 0..99) = x
  BY <1>1, <1>12 DEF Num
<1>14. ToBcd(10 * z + l) = 16 * z + l
  BY <1>7, TwoDigits
<1> HIDE DEF z, l, d
<1>15. Adjusted(t, 0, h, c) = ToBcd(d % 100) /\ AdjustedCarry(t, 0, c) = Num(d \notin 0..99)
  BY <1>9, <1>10, <1>11, <1>13, <1>14
<1> QED BY <1>15, Zenon DEF AddsUp, t, h, c, d

\* The same of a difference.
TakesOff(G, L) ==
  LET s == 16 * G + L
      h == Num(L < 0)
      c == Num(s < 0)
      d == 10 * G + L
  IN  Adjusted(Byte(s), 1, h, c) = ToBcd(d % 100) /\ AdjustedCarry(Byte(s), 1, c) = Num(d \notin 0..99)

\* With a borrow out of the low digit, h, and out of the difference, c.
LEMMA SubDigits ==
  ASSUME NEW G \in -9..9, NEW L \in -10..9
  PROVE  TakesOff(G, L)
<1> DEFINE s == 16 * G + L
           h == Num(L < 0)
           c == Num(s < 0)
           d == 10 * G + L
           t == Byte(s)
           l == L + 10 * h
           z == G - h + 10 * c
<1>1. h \in {0, 1} /\ c \in {0, 1}
  BY NumType
<1>2. (c = 1 <=> s < 0) /\ (h = 1 <=> L < 0)
  BY DEF Num
<1>3. s \in -154..153 /\ t = s + 256 * c
  BY <1>1, <1>2 DEF Byte
<1> HIDE DEF c, h, t
<1>4. l \in 0..9 /\ z \in 0..9
  BY <1>1, <1>2
<1>5. t - (96 * c + 6 * h) = 16 * z + l
  BY <1>1, <1>3
<1>6. Adjusted(t, 1, h, c) = Byte(t - (96 * c + 6 * h)) /\ AdjustedCarry(t, 1, c) = c
  BY DEF Adjusted, AdjustedCarry
<1>7. Byte(t - (96 * c + 6 * h)) = 16 * z + l
  <2> HIDE DEF z, l
  <2> QED BY <1>4, <1>5 DEF Byte
<1>8. d = 10 * z + l - 100 * c /\ d % 100 = 10 * z + l
  <2>1. d = 10 * z + l - 100 * c
    BY <1>1
  <2> HIDE DEF d, z, l
  <2> QED BY <1>1, <1>4, <2>1
<1>9. d \notin 0..99 <=> c = 1
  <2> HIDE DEF d, z, l
  <2> QED BY <1>1, <1>4, <1>8
<1>10. Num(d \notin 0..99) = c
  BY <1>1, <1>9 DEF Num
<1>11. ToBcd(10 * z + l) = 16 * z + l
  BY <1>4, TwoDigits
<1> HIDE DEF z, l, d
<1>12. Adjusted(t, 1, h, c) = ToBcd(d % 100) /\ AdjustedCarry(t, 1, c) = Num(d \notin 0..99)
  BY <1>6, <1>7, <1>8, <1>10, <1>11
<1> QED BY <1>12, Zenon DEF TakesOff, t, h, c, d

\* s holds v in A and the flags n, h and c.
Leaves(s, v, n, h, c) == s.a = v /\ Bit(s.f, N) = n /\ Bit(s.f, H) = h /\ Bit(s.f, C) = c

\* Writing A and F leaves what was written.
LEMMA ComputedLeaves ==
  ASSUME NEW r \in JState, NEW v, NEW z, NEW n, NEW h, NEW c, AreFlags(z, n, h, c)
  PROVE  Leaves(Computed(r, v, StoreFlags(z, n, h, c)), v, n, h, c)
<1> DEFINE f == StoreFlags(z, n, h, c)
<1>1. Bit(f, N) = n /\ Bit(f, H) = h /\ Bit(f, C) = c
  BY FlagBits DEF AreFlags
<1> HIDE DEF f
<1>2. Computed(r, v, f).a = v /\ Computed(r, v, f).f = f
  BY DEF Computed, JState
<1>3. Leaves(Computed(r, v, f), v, n, h, c)
  BY <1>1, <1>2, Zenon DEF Leaves
<1> QED BY <1>3 DEF f

\* What an addition of a, y and the carry k leaves, and a subtraction.
Added(s, a, y, k) == Leaves(s, Byte(a + y + k), 0, Num(Nibble(a) + Nibble(y) + k > 15), Num(a + y + k > 255))
Subtracted(s, a, y, k) == Leaves(s, Byte(a - (y + k)), 1, Num(Nibble(a) < Nibble(y) + k), Num(a < y + k))

\* The carry that an operation takes in.
CarryIn(f, op) == IF op \in {"adc", "sbc"} THEN Bit(f, C) ELSE 0

\* The ALU emitter adds,
LEMMA AluAdds ==
  ASSUME NEW r \in JState, NEW op \in AddOps, NEW y
  PROVE  Added(Alu8(r, op, y), r.a, y, CarryIn(r.f, op))
<1> DEFINE a == r.a
           k == CarryIn(r.f, op)
           sum == Byte(a + y + k)
           half == Num(Nibble(a) + Nibble(y) + k > 15)
           carry == Num(a + y + k > 255)
<1>1. /\ op \in AddOps /\ op \notin SubOps /\ op # "cp" /\ op # "and" /\ op # "xor" /\ op # "or"
  BY DEF AddOps, SubOps
<1>2. Num(op \in SubOps) = 0
  BY <1>1 DEF Num
<1>3. Alu8(r, op, y) = Computed(r, sum, StoreFlags(Num(sum = 0), 0, half, carry))
  BY <1>1, <1>2, ZenonT(40) DEF Alu8, Computed, CarryIn
<1>4. AreFlags(Num(sum = 0), 0, half, carry)
  BY NumType DEF AreFlags
<1> HIDE DEF sum, half, carry
<1>5. Leaves(Alu8(r, op, y), sum, 0, half, carry)
  BY <1>3, <1>4, ComputedLeaves
<1> QED BY <1>5, Zenon DEF Added, sum, half, carry

\* and subtracts.
LEMMA AluSubtracts ==
  ASSUME NEW r \in JState, NEW op \in {"sub", "sbc"}, NEW y
  PROVE  Subtracted(Alu8(r, op, y), r.a, y, CarryIn(r.f, op))
<1> DEFINE a == r.a
           k == CarryIn(r.f, op)
           diff == Byte(a - (y + k))
           half == Num(Nibble(a) < Nibble(y) + k)
           borrow == Num(a < y + k)
<1>1. op \in SubOps /\ op \notin AddOps /\ op # "cp" /\ op # "and" /\ op # "xor" /\ op # "or"
  BY DEF AddOps, SubOps
<1>2. Num(op \in SubOps) = 1
  BY <1>1 DEF Num
<1>3. Alu8(r, op, y) = Computed(r, diff, StoreFlags(Num(diff = 0), 1, half, borrow))
  BY <1>1, <1>2, ZenonT(40) DEF Alu8, Computed, CarryIn
<1>4. AreFlags(Num(diff = 0), 1, half, borrow)
  BY NumType DEF AreFlags
<1> HIDE DEF diff, half, borrow
<1>5. Leaves(Alu8(r, op, y), diff, 1, half, borrow)
  BY <1>3, <1>4, ComputedLeaves
<1> QED BY <1>5, Zenon DEF Subtracted, diff, half, borrow

\* The two operations that a decimal program adjusts after.
DecimalOps == {"add", "adc", "sub", "sbc"}
Operand(q, i) == IF i.src = "a" THEN q.a ELSE q.x
AfterAlu(s, q, i) ==
  IF i.op \in AddOps THEN Added(s, q.a, Operand(q, i), CarryIn(q.f, i.op))
                     ELSE Subtracted(s, q.a, Operand(q, i), CarryIn(q.f, i.op))

\* In decimal arithmetic a location at HL holds any byte.
LEMMA OperandRead ==
  ASSUME NEW i \in Instructions, i.op \in DecimalOps, NEW q \in Inputs(i)
  PROVE  i.src \in {"a", "b", "hl", "n"} /\ SrcOf(JsonState(q), i.src) = Operand(q, i)
<1>1. i.op \in AluOps
  BY DEF DecimalOps, AluOps, AddOps, SubOps
<1>2. i.src \in {"a", "b", "hl", "n"} /\ i \in Arithmetic
  BY <1>1, Operands, Kinds
<1>3. i \notin Wide \cup Stack /\ i.op # "jp_hl"
  BY <1>2, Kinds DEF DecimalOps, WideOps
<1>4. i.src = "hl" => q.hl = Plain
  <2> DEFINE HL == CASE i \in Wide \cup Stack \/ i.op = "jp_hl" -> Words
                     [] i.src = "hl" /\ i \notin Arithmetic -> Addresses
                     [] OTHER -> {Plain}
  <2>1. q.hl \in HL
    BY DEF Inputs
  <2>2. HL = {Plain}
    BY <1>2, <1>3
  <2> QED BY <2>1, <2>2
<1>5. i.src = "hl" => Memory(q) = q.x
  <2>1. ~(Plain < 32768) /\ Plain # 65284 /\ Plain # 65287 /\ Plain # 65295
    BY DEF Plain
  <2>2. ReadBack(Plain, 0, q.x) = q.x
    BY <2>1 DEF ReadBack
  <2> QED BY <1>4, <2>1, <2>2 DEF Memory
<1> DEFINE j == JsonState(q)
<1>6. j.a = q.a /\ j.b = q.x /\ j.n = q.x /\ j.m = Memory(q)
  BY DEF JsonState
<1> HIDE DEF j
<1>7. SrcOf(j, i.src) = Operand(q, i)
  BY <1>2, <1>5, <1>6 DEF SrcOf, Operand
<1> QED BY <1>2, <1>7 DEF j

\* The first of the two instructions.
LEMMA FirstOfTwo ==
  ASSUME NEW i \in Instructions, i.op \in DecimalOps, NEW q \in Inputs(i)
  PROVE  AfterAlu(Run(JsonState(q), i, FALSE), q, i)
<1> DEFINE j == JsonState(q)
           l == LegacyState(q)
           s == Begin(j, i)
           t == Past(l, i)
           r == EmitNext(s, Fetch(i.src), FALSE)
           y == Operand(q, i)
<1>1. i.op \in AluOps
  BY DEF DecimalOps, AluOps, AddOps, SubOps
<1>2. Steps(i) = <<Fetch(i.src), <<"alu", i.op>>>>
  BY <1>1, StepsOf
<1>3. Run(j, i, FALSE) = EmitNext(r, <<"alu", i.op>>, FALSE)
  BY <1>2, Run2
<1>4. i.src \in {"a", "b", "hl", "n"} /\ SrcOf(j, i.src) = y
  BY OperandRead
<1>5. Match(j, l) /\ j \in JState
  BY StartMatch DEF Match
<1>6. j.a = q.a /\ j.f = q.f
  BY DEF JsonState
<1> HIDE DEF j, l, y
<1>7. s \in JState /\ Like(s, s, s.v, t.fz, t.fn, t.fh, t.fc)
  BY <1>5, Begun
<1>8. s.f = j.f /\ s.a = j.a /\ s.b = j.b /\ s.n = j.n /\ s.m = j.m
  BY <1>5 DEF Begin, JState
<1> HIDE DEF s, t
<1>9. SrcOf(s, i.src) = y
  BY <1>4, <1>8 DEF SrcOf
<1>10. Like(r, s, SrcOf(s, i.src), t.fz, t.fn, t.fh, t.fc)
  BY <1>4, <1>7, LikeFetch
<1> HIDE DEF r
<1>11. r \in JState /\ r.v = y /\ r.f = s.f /\ r.a = s.a
  BY <1>7, <1>9, <1>10 DEF Like, Keeps, Shared, Common
<1>12. EmitNext(r, <<"alu", i.op>>, FALSE) = Alu8(r, i.op, y)
  BY <1>11, EmitsAll, EmitFlags
<1>13. r.a = q.a /\ CarryIn(r.f, i.op) = CarryIn(q.f, i.op)
  BY <1>6, <1>8, <1>11, Zenon
<1>14. CASE i.op \in AddOps
  <2>1. Added(Alu8(r, i.op, y), r.a, y, CarryIn(r.f, i.op))
    BY <1>11, <1>14, AluAdds
  <2>2. Added(Run(j, i, FALSE), q.a, y, CarryIn(q.f, i.op))
    BY <1>3, <1>12, <1>13, <2>1, Zenon
  <2> QED BY <1>14, <2>2, Zenon DEF AfterAlu, j, y
<1>15. CASE i.op \notin AddOps
  <2>1. i.op \in {"sub", "sbc"}
    BY <1>15 DEF DecimalOps, AddOps
  <2>2. Subtracted(Alu8(r, i.op, y), r.a, y, CarryIn(r.f, i.op))
    BY <1>11, <2>1, AluSubtracts
  <2>3. Subtracted(Run(j, i, FALSE), q.a, y, CarryIn(q.f, i.op))
    BY <1>3, <1>12, <1>13, <2>2, Zenon
  <2> QED BY <1>15, <2>3, Zenon DEF AfterAlu, j, y
<1> QED BY <1>14, <1>15

\* The second of the two instructions.
LEMMA SecondOfTwo ==
  ASSUME NEW i \in Instructions, i.op = "daa", NEW j, NEW l, Match(j, l),
         NEW v, NEW n, NEW h, NEW c, Leaves(j, v, n, h, c)
  PROVE  Leaves(Run(j, i, FALSE), Adjusted(v, n, h, c), n, 0, AdjustedCarry(v, n, c))
<1> DEFINE s == Begin(j, i)
           w == Adjusted(v, n, h, c)
           k == AdjustedCarry(v, n, c)
           u == Run(j, i, FALSE)
<1>1. Steps(i) = <<<<"daa", 0>>>>
  BY StepsOf
<1>2. u = EmitNext(s, <<"daa", 0>>, FALSE)
  BY <1>1, Run1, Zenon
<1>3. j \in JState /\ s \in JState
  BY Begun DEF Match
<1>4. s.a = j.a /\ s.f = j.f
  BY <1>3 DEF Begin, JState
<1> HIDE DEF s, u
<1>5. EmitNext(s, <<"daa", 0>>, FALSE) = Daa(s)
  <2>1. Emit(s, <<"daa", 0>>, FALSE) = Daa(s)
    BY EmitFlags, Zenon
  <2> QED BY <1>3, <2>1, EmitsAll
<1>6. s.a = v /\ Bit(s.f, N) = n /\ Bit(s.f, H) = h /\ Bit(s.f, C) = c
  BY <1>4, Zenon DEF Leaves
<1>7. Daa(s) = Computed(s, w, StoreFlags(Num(w = 0), n, 0, k))
  <2> DEFINE n0 == Bit(s.f, N)
             h0 == Bit(s.f, H)
             c0 == Bit(s.f, C)
             v0 == Adjusted(s.a, n0, h0, c0)
             k0 == AdjustedCarry(s.a, n0, c0)
  <2>1. Daa(s) = Computed(s, v0, StoreFlags(Num(v0 = 0), n0, 0, k0))
    BY Zenon DEF Daa, Computed, Need60, Need06, Adjusted, AdjustedCarry
  <2>2. v0 = w /\ n0 = n /\ k0 = k
    BY <1>6, Zenon
  <2> QED BY <2>1, <2>2, Zenon
<1>8. n \in {0, 1} /\ k \in {0, 1}
  <2>1. PICK z1, n1, h1, c1 \in {0, 1} : s.f = StoreFlags(z1, n1, h1, c1)
    BY <1>3, FlagsOf DEF JState
  <2>2. n = n1 /\ c = c1
    BY <1>6, <2>1, FlagBits
  <2>3. Num(c = 1 \/ v > 153) \in {0, 1}
    BY NumType
  <2> QED BY <2>1, <2>2, <2>3 DEF AdjustedCarry
<1>9. AreFlags(Num(w = 0), n, 0, k)
  BY <1>8, NumType DEF AreFlags
<1> HIDE DEF w, k
<1>10. Leaves(Computed(s, w, StoreFlags(Num(w = 0), n, 0, k)), w, n, 0, k)
  BY <1>3, <1>9, ComputedLeaves
<1>11. Leaves(u, w, n, 0, k)
  BY <1>2, <1>5, <1>7, <1>10, Zenon
<1> QED BY <1>11 DEF u, w, k

\* What the two leave in A and the carry.
Decimally(u, d) == u.a = ToBcd(d % 100) /\ Bit(u.f, C) = Num(d \notin 0..99)

\* An addition of decimal bytes, adjusted.
LEMMA AddedDecimal ==
  ASSUME NEW a \in B8, NEW y \in B8, NEW k \in {0, 1}, IsBcd(a), IsBcd(y),
         NEW i \in Instructions, i.op = "daa", NEW j, NEW l, Match(j, l), Added(j, a, y, k)
  PROVE  Decimally(Run(j, i, FALSE), FromBcd(a) + FromBcd(y) + k)
<1>1. PICK p, q \in 0..9 : a = 16 * p + q /\ Nibble(a) = q /\ FromBcd(a) = 10 * p + q
  BY Digits
<1>2. PICK x, z \in 0..9 : y = 16 * x + z /\ Nibble(y) = z /\ FromBcd(y) = 10 * x + z
  BY Digits
<1> DEFINE G == p + x
           L == q + z + k
           s == 16 * G + L
           h == Num(L > 15)
           c == Num(s > 255)
           d == 10 * G + L
<1>3. G \in 0..18 /\ L \in 0..19
  OBVIOUS
<1>4. a + y + k = s /\ Nibble(a) + Nibble(y) + k = L /\ FromBcd(a) + FromBcd(y) + k = d
  BY <1>1, <1>2
<1>5. Leaves(j, Byte(s), 0, h, c)
  BY <1>4, Zenon DEF Added
<1>6. Run(j, i, FALSE).a = Adjusted(Byte(s), 0, h, c) /\ Bit(Run(j, i, FALSE).f, C) = AdjustedCarry(Byte(s), 0, c)
  <2> DEFINE v == Byte(s)
  <2>1. Leaves(j, v, 0, h, c)
    BY <1>5
  <2> HIDE DEF v, h, c
  <2>2. Leaves(Run(j, i, FALSE), Adjusted(v, 0, h, c), 0, 0, AdjustedCarry(v, 0, c))
    BY <2>1, SecondOfTwo
  <2> QED BY <2>2, Zenon DEF Leaves, v
<1>7. Adjusted(Byte(s), 0, h, c) = ToBcd(d % 100) /\ AdjustedCarry(Byte(s), 0, c) = Num(d \notin 0..99)
  <2> HIDE DEF G, L
  <2>1. AddsUp(G, L)
    BY <1>3, AddDigits
  <2> QED BY <2>1, Zenon DEF AddsUp
<1> QED BY <1>4, <1>6, <1>7, Zenon DEF Decimally

\* A subtraction of decimal bytes, adjusted.
LEMMA SubtractedDecimal ==
  ASSUME NEW a \in B8, NEW y \in B8, NEW k \in {0, 1}, IsBcd(a), IsBcd(y),
         NEW i \in Instructions, i.op = "daa", NEW j, NEW l, Match(j, l), Subtracted(j, a, y, k)
  PROVE  Decimally(Run(j, i, FALSE), FromBcd(a) - FromBcd(y) - k)
<1>1. PICK p, q \in 0..9 : a = 16 * p + q /\ Nibble(a) = q /\ FromBcd(a) = 10 * p + q
  BY Digits
<1>2. PICK x, z \in 0..9 : y = 16 * x + z /\ Nibble(y) = z /\ FromBcd(y) = 10 * x + z
  BY Digits
<1> DEFINE G == p - x
           L == q - z - k
           s == 16 * G + L
           h == Num(L < 0)
           c == Num(s < 0)
           d == 10 * G + L
<1>3. G \in -9..9 /\ L \in -10..9
  OBVIOUS
<1>4. a - (y + k) = s /\ FromBcd(a) - FromBcd(y) - k = d
  BY <1>1, <1>2
<1>5. (Nibble(a) < Nibble(y) + k) = (L < 0) /\ (a < y + k) = (s < 0)
  BY <1>1, <1>2
<1>6. Leaves(j, Byte(s), 1, h, c)
  BY <1>4, <1>5, Zenon DEF Subtracted
<1>7. Run(j, i, FALSE).a = Adjusted(Byte(s), 1, h, c) /\ Bit(Run(j, i, FALSE).f, C) = AdjustedCarry(Byte(s), 1, c)
  <2> DEFINE v == Byte(s)
  <2>1. Leaves(j, v, 1, h, c)
    BY <1>6
  <2> HIDE DEF v, h, c
  <2>2. Leaves(Run(j, i, FALSE), Adjusted(v, 1, h, c), 1, 0, AdjustedCarry(v, 1, c))
    BY <2>1, SecondOfTwo
  <2> QED BY <2>2, Zenon DEF Leaves, v
<1>8. Adjusted(Byte(s), 1, h, c) = ToBcd(d % 100) /\ AdjustedCarry(Byte(s), 1, c) = Num(d \notin 0..99)
  <2> HIDE DEF G, L
  <2>1. TakesOff(G, L)
    BY <1>3, SubDigits
  <2> QED BY <2>1, Zenon DEF TakesOff
<1> QED BY <1>4, <1>7, <1>8, Zenon DEF Decimally

\* The invariant: what the first instruction leaves, and what both do.
DecimalInv ==
  /\ CpusInv
  /\ done \in {0, 1, 2}
  /\ done = 1 /\ ins.op \in DecimalOps => AfterAlu(json, start, ins)
  /\ DecimalResult

\* The invariant is inductive: the first instruction establishes AfterAlu, the
\* adjustment turns it into the decimal result.
LEMMA DecimalStep ==
  ASSUME DecimalInv, [Next]_vars
  PROVE  DecimalInv'
<1>1. CpusInv /\ CpusInv' /\ done \in {0, 1, 2}
  BY CpusStep DEF DecimalInv
<1>2. CASE Step
  <2>1. /\ done = 0 /\ done' = 1 /\ ins' = ins /\ start' = start
        /\ json' = Run(json, ins, FALSE)
    BY <1>2 DEF Step, Perform
  <2>2. ins \in Instructions /\ start \in Inputs(ins) /\ json = JsonState(start)
    BY <1>1, <2>1 DEF CpusInv
  <2>3. ins.op \in DecimalOps => AfterAlu(json', start, ins)
    BY <2>1, <2>2, FirstOfTwo
  <2>4. (done = 1 /\ ins.op \in DecimalOps => AfterAlu(json, start, ins))'
    BY <2>1, <2>3
  <2>5. DecimalResult'
    BY <2>1 DEF DecimalResult
  <2> QED BY <1>1, <2>1, <2>4, <2>5 DEF DecimalInv
<1>3. CASE Adjust
  <2>1. PICK i \in Decimal : Perform(i)
    BY <1>3 DEF Adjust
  <2>2. /\ done = 1 /\ done' = 2 /\ ins.op \in DecimalOps /\ ins' = ins /\ start' = start
    BY <1>3, <2>1 DEF Adjust, Perform, DecimalOps
  <2>3. json' = Run(json, i, FALSE)
    BY <2>1, Zenon DEF Perform
  <2>4. i \in Instructions /\ i.op = "daa"
    BY DEF Instructions, Decimal, I
  <2>5. Match(json, legacy)
    BY <1>1, <2>2 DEF CpusInv, Rereads, DecimalOps
  <2>6. AfterAlu(json, start, ins)
    BY <2>2 DEF DecimalInv
  <2> DEFINE a == start.a
             y == Operand(start, ins)
             k == CarryIn(start.f, ins.op)
             d == IF ins.op \in AddOps THEN FromBcd(a) + FromBcd(y) + k ELSE FromBcd(a) - FromBcd(y) - k
  <2>7. a \in B8 /\ y \in B8 /\ k \in {0, 1}
    <3>1. start \in Inputs(ins)
      BY <1>1 DEF CpusInv
    <3>2. start.a \in B8 /\ start.x \in B8 /\ start.f \in AllFlags
      BY <3>1, InputTypes
    <3>3. PICK z1, n1, h1, c1 \in {0, 1} : start.f = StoreFlags(z1, n1, h1, c1)
      BY <3>2, FlagsOf
    <3>4. Bit(start.f, C) \in {0, 1}
      BY <3>3, FlagBits
    <3> QED BY <3>2, <3>4 DEF Operand, CarryIn
  <2>8. ASSUME IsBcd(a), IsBcd(y) PROVE Decimally(json', d)
    <3>1. CASE ins.op \in AddOps
      <4>1. Added(json, a, y, k)
        BY <2>6, <3>1, Zenon DEF AfterAlu
      <4>2. d = FromBcd(a) + FromBcd(y) + k
        BY <3>1
      <4> HIDE DEF a, y, k, d
      <4>3. Decimally(Run(json, i, FALSE), FromBcd(a) + FromBcd(y) + k)
        BY <2>4, <2>5, <2>7, <2>8, <4>1, AddedDecimal
      <4> QED BY <2>3, <4>2, <4>3, Zenon
    <3>2. CASE ins.op \notin AddOps
      <4>1. Subtracted(json, a, y, k)
        BY <2>6, <3>2, Zenon DEF AfterAlu
      <4>2. d = FromBcd(a) - FromBcd(y) - k
        BY <3>2
      <4> HIDE DEF a, y, k, d
      <4>3. Decimally(Run(json, i, FALSE), FromBcd(a) - FromBcd(y) - k)
        BY <2>4, <2>5, <2>7, <2>8, <4>1, SubtractedDecimal
      <4> QED BY <2>3, <4>2, <4>3, Zenon
    <3> QED BY <3>1, <3>2
  <2>9. DecimalResult'
    BY <2>2, <2>8, Zenon DEF DecimalResult, Decimally, Operand, CarryIn
  <2> QED BY <1>1, <2>2, <2>9 DEF DecimalInv
<1>4. CASE UNCHANGED vars
  <2>1. DecimalResult'
    BY <1>4, Zenon DEF vars, DecimalInv, DecimalResult
  <2> QED BY <1>1, <1>4, <2>1 DEF vars, DecimalInv
<1> QED BY <1>2, <1>3, <1>4 DEF Next

\* ADD, ADC, SUB or SBC of two decimal bytes followed by DAA leaves the decimal
\* result in A and its carry or borrow in C, for all decimal operands.
THEOREM DecimalCorrect == Spec => []DecimalResult
<1>1. Init => DecimalInv
  <2> SUFFICES ASSUME Init PROVE DecimalInv
    OBVIOUS
  <2>1. CpusInv /\ done = 0
    BY CpusStart DEF Init
  <2>2. DecimalResult
    BY <2>1 DEF DecimalResult
  <2> QED BY <2>1, <2>2 DEF DecimalInv
<1>2. DecimalInv /\ [Next]_vars => DecimalInv'
  BY DecimalStep
<1>3. DecimalInv => DecimalResult
  BY DEF DecimalInv
<1> QED BY <1>1, <1>2, <1>3, PTL DEF Spec
=============================================================================
