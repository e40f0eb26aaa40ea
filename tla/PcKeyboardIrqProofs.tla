------------------------ MODULE PcKeyboardIrqProofs ------------------------
(***************************************************************************)
(* The keyboard path of the PC for every number of keys, every capacity of  *)
(* the FIFO and every number of timer ticks.                                *)
(***************************************************************************)
EXTENDS PcKeyboardIrq, SequenceTheorems, TLAPS

-----------------------------------------------------------------------------
(* The interrupt frames of the guest as a stack *)

Depth == Len(stack)

Push(f) == stack' = Append(stack, f)
Pop == stack' = SubSeq(stack, 1, Depth - 1)

\* The stack of handlers is a sequence.
LEMMA DepthNat == TypeOK => Depth \in Nat /\ DOMAIN stack = 1 .. Depth
BY LenProperties DEF TypeOK, Depth

\* The running handler is its last element.
LEMMA TopFrame == TypeOK /\ stack # <<>> => Depth \in Nat \ {0} /\ Top = stack[Depth] /\ Top \in Frame
<1> SUFFICES ASSUME TypeOK, stack # <<>> PROVE Depth \in Nat \ {0} /\ Top = stack[Depth] /\ Top \in Frame
    OBVIOUS
<1>1. stack \in Seq(Frame)
  BY DEF TypeOK
<1>2. Depth \in Nat \ {0}
  BY <1>1, EmptySeq, LenProperties DEF Depth
<1> QED BY <1>1, <1>2, ElementOfSeq DEF Top, Depth

\* An interrupt puts a frame on top,
LEMMA AfterPush ==
    ASSUME NEW f \in Frame, TypeOK, Push(f)
    PROVE  /\ stack' \in Seq(Frame) /\ Depth' = Depth + 1 /\ stack'[Depth + 1] = f
           /\ \A i \in 1 .. Depth : stack'[i] = stack[i]
BY AppendProperties DEF TypeOK, Push, Depth

\* an instruction changes the top frame alone,
LEMMA AfterGoto ==
    ASSUME NEW f \in Frame, TypeOK, stack # <<>>, Goto(f)
    PROVE  /\ stack' \in Seq(Frame) /\ Depth' = Depth /\ stack'[Depth] = f
           /\ \A i \in 1 .. Depth : i # Depth => stack'[i] = stack[i]
<1>1. Depth \in 1 .. Len(stack) /\ stack \in Seq(Frame)
  BY TopFrame DEF TypeOK, Depth
<1> DEFINE t == [stack EXCEPT ![Depth] = f]
<1>2. /\ t \in Seq(Frame) /\ Len(t) = Len(stack)
      /\ \A j \in 1 .. Len(stack) : t[j] = IF j = Depth THEN f ELSE stack[j]
  BY <1>1, ExceptSeq
<1>3. stack' = t
  BY DEF Goto, Depth
<1> HIDE DEF t
<1> QED BY <1>1, <1>2, <1>3 DEF Depth

\* and IRET takes it away.
LEMMA AfterPop ==
    ASSUME TypeOK, stack # <<>>, Pop
    PROVE  /\ stack' \in Seq(Frame) /\ Depth' = Depth - 1
           /\ \A i \in 1 .. Depth - 1 : stack'[i] = stack[i]
<1>1. Depth \in Nat \ {0} /\ \A i \in 1 .. Depth - 1 : stack[i] \in Frame
  BY TopFrame, ElementOfSeq DEF TypeOK, Depth
<1>2. Depth - 1 \in Int
  BY <1>1
<1> DEFINE t == SubSeq(stack, 1, Depth - 1)
<1>3. /\ t \in Seq(Frame) /\ Len(t) = (IF 1 <= Depth - 1 THEN Depth - 1 - 1 + 1 ELSE 0)
      /\ \A i \in 1 .. Depth - 1 - 1 + 1 : t[i] = stack[1 + i - 1]
  BY <1>1, <1>2, SubSeqProperties
<1>4. stack' = t
  BY DEF Pop
<1> HIDE DEF t
<1> QED BY <1>1, <1>3, <1>4 DEF Depth

-----------------------------------------------------------------------------
(* The scancode FIFO *)

\* t is s without its first element.
Shifted(s, t) == Len(t) = Len(s) - 1 /\ \A i \in 1 .. Len(t) : t[i] = s[i + 1]

\* Dequeuing with Tail shifts a queue by one,
LEMMA TailShifts ==
    ASSUME NEW S, NEW s \in Seq(S), s # <<>>
    PROVE  Tail(s) \in Seq(S) /\ Shifted(s, Tail(s)) /\ Head(s) = s[1]
BY HeadTailProperties DEF Shifted

\* and so does cutting out its first element, as removal at index 0 does.
LEMMA CutShifts ==
    ASSUME NEW S, NEW s \in Seq(S), s # <<>>
    PROVE  LET t == SubSeq(s, 1, 1 - 1) \o SubSeq(s, 1 + 1, Len(s))
           IN  t \in Seq(S) /\ Shifted(s, t)
<1>1. SubSeq(s, 1, 1 - 1) = <<>>
  BY SubSeqEmpty
<1>2. SubSeq(s, 1 + 1, Len(s)) = Tail(s)
  BY TailIsSubSeq
<1>3. Tail(s) \in Seq(S) /\ Shifted(s, Tail(s))
  BY TailShifts
<1>4. <<>> \o Tail(s) = Tail(s)
  BY <1>3, ConcatEmptySeq
<1> QED BY <1>1, <1>2, <1>3, <1>4

\* A queue with something in it has a first element.
LEMMA Positive == ASSUME NEW S, NEW s \in Seq(S) PROVE Len(s) \in Nat /\ (s # <<>> <=> Len(s) >= 1)
BY EmptySeq, LenProperties

\* What the keyboard lock of InjectScancode does to latch and FIFO.
Queued(q) ==
    /\ q \in Seq(Key) /\ injected' = injected + 1 /\ injected' \in Key
    /\ \/ /\ q = fifo /\ q # <<>> /\ dropped' = dropped \cup {injected'}
       \/ /\ Len(q) = Len(fifo) + 1 /\ q[Len(q)] = injected'
          /\ \A i \in 1 .. Len(fifo) : q[i] = fifo[i]
          /\ dropped' = dropped /\ Len(fifo) < FifoCap

\* InjectScancode queues the scancode, and if the line is low latches the
\* queue's first.
LEMMA InjectFacts ==
    ASSUME TypeOK, InjectScancode
    PROVE  \E q : /\ Queued(q)
                  /\ \/ /\ line /\ fifo' = q /\ UNCHANGED <<latch, line, obf, ui, raced>>
                     \/ /\ ~line /\ Shifted(q, fifo') /\ latch' = q[1] /\ latch' \in Key
                        /\ fifo' \in Seq(Key) /\ line' = TRUE /\ obf' = TRUE /\ ui' = "assert"
                        /\ raced' = (raced \/ bit7)
<1> DEFINE k == injected + 1
           q == IF Len(fifo) < FifoCap THEN Append(fifo, k) ELSE fifo
<1>1. k \in Key /\ injected' = k /\ fifo \in Seq(Key) /\ Len(fifo) \in Nat
  BY KeyboardAssumption, LenProperties DEF TypeOK, InjectScancode, Inject, Key
<1>2. Queued(q)
  <2>1. CASE Len(fifo) < FifoCap
    <3>1. /\ Append(fifo, k) \in Seq(Key) /\ Len(Append(fifo, k)) = Len(fifo) + 1
          /\ Append(fifo, k)[Len(fifo) + 1] = k
          /\ \A i \in 1 .. Len(fifo) : Append(fifo, k)[i] = fifo[i]
      BY <1>1, AppendProperties
    <3>2. dropped' = dropped
      BY <2>1 DEF InjectScancode, Inject
    <3> QED BY <1>1, <2>1, <3>1, <3>2 DEF Queued
  <2>2. CASE ~(Len(fifo) < FifoCap)
    <3>1. fifo # <<>>
      BY <1>1, <2>2, Positive, KeyboardAssumption
    <3>2. dropped' = dropped \cup {k}
      BY <2>2 DEF InjectScancode, Inject
    <3> QED BY <1>1, <2>2, <3>1, <3>2 DEF Queued
  <2> QED BY <2>1, <2>2
<1>3. CASE line
  BY <1>2, <1>3 DEF InjectScancode, Inject
<1>4. CASE ~line
  <2>1. q \in Seq(Key) /\ q # <<>>
    BY <1>1, <1>2, Positive DEF Queued
  <2>2. Tail(q) \in Seq(Key) /\ Shifted(q, Tail(q)) /\ Head(q) = q[1] /\ Head(q) \in Key
    BY <2>1, TailShifts, HeadTailProperties
  <2>3. /\ latch' = Head(q) /\ fifo' = Tail(q) /\ line' = TRUE /\ obf' = TRUE /\ ui' = "assert"
        /\ raced' = (raced \/ bit7)
    BY <1>4 DEF InjectScancode, Inject
  <2> HIDE DEF q
  <2> QED BY <1>2, <1>4, <2>2, <2>3
<1> QED BY <1>3, <1>4

\* What the falling edge of OnPort61Edge does to latch and FIFO.
Latches == bit7 /\ ~Top.saved /\ fifo # <<>>

\* The falling edge of the acknowledge latches the next scancode, or clears OBF.
LEMMA AckLowFacts ==
    ASSUME TypeOK, AckLow
    PROVE  /\ At(1, "low") /\ bit7' = Top.saved /\ Goto([Top EXCEPT !.at = "stuff"])
           /\ Latches => /\ latch' = fifo[1] /\ latch' \in Key /\ fifo' \in Seq(Key)
                         /\ Shifted(fifo, fifo') /\ line' = TRUE /\ obf' = TRUE /\ emu' = "assert"
           /\ ~Latches => /\ obf' = (obf /\ ~(bit7 /\ ~Top.saved)) /\ emu' = "poll"
                          /\ UNCHANGED <<latch, fifo, line>>
<1>1. At(1, "low") /\ bit7' = Top.saved /\ Goto([Top EXCEPT !.at = "stuff"])
  BY DEF AckLow, FallingEdge
<1>2. CASE Latches
  <2> DEFINE t == SubSeq(fifo, 1, 1 - 1) \o SubSeq(fifo, 1 + 1, Len(fifo))
  <2>1. fifo \in Seq(Key) /\ fifo # <<>> /\ fifo[1] \in Key
    BY <1>2, Positive, ElementOfSeq DEF TypeOK, Latches
  <2>2. t \in Seq(Key) /\ Shifted(fifo, t)
    BY <2>1, CutShifts
  <2>3. latch' = fifo[1] /\ fifo' = t /\ line' = TRUE /\ obf' = TRUE /\ emu' = "assert"
    BY <1>2 DEF AckLow, FallingEdge, Latches
  <2> HIDE DEF t
  <2> QED BY <1>1, <1>2, <2>1, <2>2, <2>3
<1>3. CASE ~Latches
  BY <1>1, <1>3 DEF AckLow, FallingEdge, Latches
<1> QED BY <1>2, <1>3

-----------------------------------------------------------------------------
(* Types *)

\* The instructions of a handler.
Place == {"sti", "in60", "in61", "high", "low", "stuff", "iret"}

\* An instruction that only moves on keeps the frame's data;
LEMMA FrameAt ==
    ASSUME NEW f \in Frame, NEW at \in Place
    PROVE  LET g == [f EXCEPT !.at = at]
           IN  /\ g \in Frame
               /\ g.irq = f.irq /\ g.at = at /\ g.key = f.key /\ g.saved = f.saved
<1>1. [f EXCEPT !.at = at] \in Frame
  BY DEF Frame, Place
<1> QED BY <1>1 DEF Frame

\* one that reads port 60h changes its key,
LEMMA FrameKey ==
    ASSUME NEW f \in Frame, NEW at \in Place, NEW k \in 0 .. NumKeys
    PROVE  LET g == [f EXCEPT !.at = at, !.key = k]
           IN  /\ g \in Frame
               /\ g.irq = f.irq /\ g.at = at /\ g.key = k /\ g.saved = f.saved
<1>1. [f EXCEPT !.at = at, !.key = k] \in Frame
  BY DEF Frame, Place
<1> QED BY <1>1 DEF Frame

\* and one that reads port 61h its saved bit.
LEMMA FrameSaved ==
    ASSUME NEW f \in Frame, NEW at \in Place, NEW b \in BOOLEAN
    PROVE  LET g == [f EXCEPT !.at = at, !.saved = b]
           IN  /\ g \in Frame
               /\ g.irq = f.irq /\ g.at = at /\ g.key = f.key /\ g.saved = b
<1>1. [f EXCEPT !.at = at, !.saved = b] \in Frame
  BY DEF Frame, Place
<1>2. [f EXCEPT !.at = at, !.saved = b].saved = b
  BY Zenon DEF Frame
<1> QED BY <1>1, <1>2 DEF Frame

\* A delivered interrupt starts at its first instruction.
LEMMA NewFrame ==
    ASSUME NEW irq \in Irq
    PROVE  [irq |-> irq, at |-> "sti", key |-> 0, saved |-> FALSE] \in Frame
<1>1. 0 \in 0 .. NumKeys
  BY KeyboardAssumption
<1> QED BY <1>1 DEF Frame

\* The vector chosen is one that may be delivered.
LEMMA VectorDeliverable ==
    ASSUME TypeOK, Deliverable # {}
    PROVE  DequeueNextVector \in Deliverable /\ Deliverable \subseteq Irq
<1>1. Deliverable \subseteq {0, 1}
  BY DEF TypeOK, Deliverable, Irq
<1>2. \E i \in Deliverable : \A j \in Deliverable : i <= j
  <2>1. CASE 0 \in Deliverable
    BY <1>1, <2>1
  <2>2. CASE 0 \notin Deliverable
    <3>1. Deliverable = {1}
      BY <1>1, <2>2
    <3> QED BY <3>1
  <2> QED BY <2>1, <2>2
<1> QED BY <1>1, <1>2 DEF DequeueNextVector, Irq

\* Every step keeps the types; InjectScancode keeps the FIFO within its capacity.
LEMMA TypeStep == TypeOK /\ [Next]_vars => TypeOK'
<1> SUFFICES ASSUME TypeOK, [Next]_vars PROVE TypeOK'
    OBVIOUS
<1>1. CASE InjectScancode
  <2>1. PICK q : /\ Queued(q)
                 /\ \/ /\ line /\ fifo' = q /\ UNCHANGED <<latch, line, obf, ui, raced>>
                    \/ /\ ~line /\ Shifted(q, fifo') /\ latch' = q[1] /\ latch' \in Key
                       /\ fifo' \in Seq(Key) /\ line' = TRUE /\ obf' = TRUE /\ ui' = "assert"
                       /\ raced' = (raced \/ bit7)
    BY <1>1, InjectFacts
  <2>2. fifo' \in Seq(Key) /\ Len(fifo') <= FifoCap
    <3>1. Len(fifo) \in Nat /\ Len(q) \in Nat /\ Len(fifo) <= FifoCap /\ FifoCap \in Nat
      BY <2>1, LenProperties, KeyboardAssumption DEF TypeOK, Queued
    <3>2. Len(q) <= FifoCap
      BY <2>1, <3>1 DEF Queued
    <3> QED BY <2>1, <3>1, <3>2 DEF Queued, Shifted
  <2>3. injected' \in 0 .. NumKeys /\ dropped' \subseteq Key /\ latch' \in 0 .. NumKeys
    <3>1. injected' \in Key /\ (dropped' = dropped \/ dropped' = dropped \cup {injected'})
      BY <2>1 DEF Queued
    <3>2. latch' = latch \/ latch' \in Key
      BY <2>1
    <3>3. latch \in 0 .. NumKeys /\ dropped \subseteq Key /\ Key \subseteq 0 .. NumKeys
      BY KeyboardAssumption DEF TypeOK, Key
    <3> QED BY <3>1, <3>2, <3>3
  <2>4. UNCHANGED <<bit7, imr, pending, ticks, sti, emu, stack, reads, stored, masked>>
    BY <1>1 DEF InjectScancode, Inject, pic
  <2>5. line' \in BOOLEAN /\ obf' \in BOOLEAN /\ ui' \in {"idle", "assert"} /\ raced' \in BOOLEAN
    BY <2>1 DEF TypeOK
  <2> QED BY <2>2, <2>3, <2>4, <2>5 DEF TypeOK
<1>2. CASE InjectAssert
  BY <1>2 DEF TypeOK, InjectAssert, AssertIrq, devices, Irq
<1>3. CASE OnTick
  <2>1. ticks' \in 0 .. MaxTicks
    BY <1>3, KeyboardAssumption DEF TypeOK, OnTick
  <2> QED BY <1>3, <2>1 DEF TypeOK, OnTick, AssertIrq, devices, Irq
<1>4. CASE DeliverInterrupt
  <2> DEFINE f == [irq |-> DequeueNextVector, at |-> "sti", key |-> 0, saved |-> FALSE]
  <2>1. DequeueNextVector \in Irq
    BY <1>4, VectorDeliverable DEF DeliverInterrupt
  <2>2. f \in Frame
    BY <2>1, NewFrame
  <2>3. Push(f)
    BY <1>4 DEF DeliverInterrupt, Push
  <2>4. stack' \in Seq(Frame)
    BY <2>2, <2>3, AfterPush
  <2> HIDE DEF f
  <2> QED BY <1>4, <2>4 DEF TypeOK, DeliverInterrupt, devices, history
<1>5. CASE PollNothing \/ MainStep \/ SetMask
  BY <1>5 DEF TypeOK, PollNothing, MainStep, SetMask, devices, pic, history
<1>6. CASE IsrEnter
  <2>1. Top \in Frame /\ stack # <<>>
    BY <1>6, TopFrame DEF IsrEnter, At
  <2>2. [Top EXCEPT !.at = IF Top.irq = 0 THEN "iret" ELSE "in60"] \in Frame
    <3>1. CASE Top.irq = 0
      BY <2>1, <3>1, FrameAt DEF Place
    <3>2. CASE Top.irq # 0
      BY <2>1, <3>2, FrameAt DEF Place
    <3> QED BY <3>1, <3>2
  <2>3. stack' \in Seq(Frame)
    BY <1>6, <2>1, <2>2, AfterGoto DEF IsrEnter
  <2> QED BY <1>6, <2>3 DEF TypeOK, IsrEnter, devices, pic, history
<1>7. CASE Dequeue60
  <2>1. Top \in Frame /\ stack # <<>> /\ latch \in 0 .. NumKeys
    BY <1>7, TopFrame DEF Dequeue60, At, TypeOK
  <2>2. [Top EXCEPT !.at = "in61", !.key = latch] \in Frame
    BY <2>1, FrameKey DEF Place
  <2>3. stack' \in Seq(Frame)
    BY <1>7, <2>1, <2>2, AfterGoto DEF Dequeue60
  <2>4. reads' \in Seq(0 .. NumKeys)
    BY <1>7, <2>1, AppendProperties DEF Dequeue60, TypeOK
  <2> QED BY <1>7, <2>3, <2>4 DEF TypeOK, Dequeue60, devices, pic
<1>8. CASE In61
  <2>1. Top \in Frame /\ stack # <<>> /\ bit7 \in BOOLEAN
    BY <1>8, TopFrame DEF In61, At, TypeOK
  <2>2. [Top EXCEPT !.at = "high", !.saved = bit7] \in Frame
    BY <2>1, FrameSaved DEF Place
  <2>3. stack' \in Seq(Frame)
    BY <1>8, <2>1, <2>2, AfterGoto DEF In61
  <2> QED BY <1>8, <2>3 DEF TypeOK, In61, devices, pic, history
<1>9. CASE AckHigh
  <2>1. Top \in Frame /\ stack # <<>>
    BY <1>9, TopFrame DEF AckHigh, At
  <2>2. [Top EXCEPT !.at = "low"] \in Frame
    BY <2>1, FrameAt DEF Place
  <2>3. stack' \in Seq(Frame)
    BY <1>9, <2>1, <2>2, AfterGoto DEF AckHigh
  <2> QED BY <1>9, <2>3 DEF TypeOK, AckHigh, devices, pic, history
<1>10. CASE AckLow
  <2>1. Top \in Frame /\ stack # <<>> /\ Top.saved \in BOOLEAN
    BY <1>10, TopFrame, AckLowFacts DEF At, Frame
  <2>2. [Top EXCEPT !.at = "stuff"] \in Frame
    BY <2>1, FrameAt DEF Place
  <2>3. stack' \in Seq(Frame)
    BY <1>10, <2>1, <2>2, AfterGoto, AckLowFacts
  <2>4. fifo' \in Seq(Key) /\ Len(fifo') <= FifoCap /\ latch' \in 0 .. NumKeys
    <3>1. fifo \in Seq(Key) /\ Len(fifo) <= FifoCap /\ latch \in 0 .. NumKeys /\ Key \subseteq 0 .. NumKeys
      BY KeyboardAssumption DEF TypeOK, Key
    <3>2. Len(fifo) \in Nat /\ FifoCap \in Nat
      BY <3>1, LenProperties, KeyboardAssumption
    <3>3. CASE Latches
      <4>1. latch' \in Key /\ fifo' \in Seq(Key) /\ Len(fifo') = Len(fifo) - 1
        BY <1>10, <3>3, AckLowFacts DEF Shifted
      <4> QED BY <3>1, <3>2, <4>1
    <3>4. CASE ~Latches
      BY <1>10, <3>1, <3>4, AckLowFacts
    <3> QED BY <3>3, <3>4
  <2>5. line' \in BOOLEAN /\ obf' \in BOOLEAN /\ emu' \in {"poll", "step", "assert"} /\ bit7' \in BOOLEAN
    BY <1>10, <2>1, AckLowFacts DEF TypeOK
  <2>6. UNCHANGED <<imr, pending, ui, injected, ticks, sti, reads, stored, dropped, raced, masked>>
    BY <1>10 DEF AckLow, FallingEdge, pic, history
  <2> QED BY <2>3, <2>4, <2>5, <2>6 DEF TypeOK
<1>11. CASE AckAssert
  BY <1>11 DEF TypeOK, AckAssert, AssertIrq, devices, Irq
<1>12. CASE StuffKeyboardBuffer
  <2>1. Top \in Frame /\ stack # <<>> /\ Top.key \in 0 .. NumKeys
    BY <1>12, TopFrame DEF StuffKeyboardBuffer, At, Frame
  <2>2. [Top EXCEPT !.at = "iret"] \in Frame
    BY <2>1, FrameAt DEF Place
  <2>3. stack' \in Seq(Frame)
    BY <1>12, <2>1, <2>2, AfterGoto DEF StuffKeyboardBuffer
  <2>4. stored' \in Seq(0 .. NumKeys)
    BY <1>12, <2>1, AppendProperties DEF StuffKeyboardBuffer, TypeOK
  <2> QED BY <1>12, <2>3, <2>4 DEF TypeOK, StuffKeyboardBuffer, devices, pic
<1>13. CASE Iret
  <2>1. stack' \in Seq(Frame)
    BY <1>13, AfterPop DEF Iret, At, Pop, Depth
  <2> QED BY <1>13, <2>1 DEF TypeOK, Iret, devices, pic, history
<1>14. CASE UNCHANGED vars
  BY <1>14 DEF TypeOK, vars
<1> QED BY <1>1, <1>2, <1>3, <1>4, <1>5, <1>6, <1>7, <1>8, <1>9, <1>10, <1>11, <1>12, <1>13,
           <1>14 DEF Next, Emulator

\* The types of the keyboard path for every number of keys, FIFO size and
\* number of ticks; in particular _kbd60Fifo never exceeds its capacity.
THEOREM TypesKept == Spec => []TypeOK
<1>1. Init => TypeOK
  <2> SUFFICES ASSUME Init PROVE TypeOK
      OBVIOUS
  <2>1. 0 \in 0 .. NumKeys /\ 0 \in 0 .. MaxTicks /\ 0 <= FifoCap
    BY KeyboardAssumption
  <2>2. <<>> \in Seq(Key) /\ <<>> \in Seq(Frame) /\ <<>> \in Seq(0 .. NumKeys) /\ Len(<<>>) = 0
    BY EmptySeq, LenProperties
  <2> QED BY <2>1, <2>2 DEF Init, TypeOK
<1> QED BY <1>1, TypeStep, PTL DEF Spec

-----------------------------------------------------------------------------
(* The order of the keys *)

\* The scancodes of q rise, above lo and up to hi.
Rising(q, lo, hi) ==
    /\ \A i \in 1 .. Len(q) : lo < q[i] /\ q[i] <= hi
    /\ \A i, j \in 1 .. Len(q) : i < j => q[i] < q[j]

UpTo(s, k) == \A i \in 1 .. Len(s) : s[i] <= k

\* What is appended to an ordered sequence, and no smaller than its members,
\* keeps it ordered.
LEMMA AppendOrdered ==
    ASSUME NEW s \in Seq(0 .. NumKeys), NEW k \in 0 .. NumKeys, NonDecreasing(s), UpTo(s, k)
    PROVE  NonDecreasing(Append(s, k)) /\ UpTo(Append(s, k), k)
<1> DEFINE t == Append(s, k)
<1>1. /\ Len(s) \in Nat /\ Len(t) = Len(s) + 1 /\ t[Len(s) + 1] = k
      /\ \A i \in 1 .. Len(s) : t[i] = s[i]
      /\ DOMAIN s = 1 .. Len(s) /\ DOMAIN t = 1 .. Len(t)
      /\ t \in Seq(0 .. NumKeys)
  BY AppendProperties, LenProperties
<1>2. \A i \in 1 .. Len(s) : s[i] \in Int /\ s[i] <= k
  BY ElementOfSeq, KeyboardAssumption DEF UpTo
<1> HIDE DEF t
<1>3. \A i \in 1 .. Len(t) : t[i] <= k
  BY <1>1, <1>2, KeyboardAssumption
<1>4. ASSUME NEW i \in 1 .. Len(t), NEW j \in 1 .. Len(t), i < j PROVE t[i] <= t[j]
  <2>1. i \in 1 .. Len(s)
    BY <1>1, <1>4
  <2>2. CASE j = Len(t)
    BY <1>1, <1>2, <2>1, <2>2
  <2>3. CASE j \in 1 .. Len(s)
    BY <1>1, <1>4, <2>1, <2>3 DEF NonDecreasing
  <2> QED BY <1>1, <2>2, <2>3
<1> QED BY <1>1, <1>3, <1>4 DEF NonDecreasing, UpTo, t

\* Latching the first of a rising queue leaves a rising queue behind it.
LEMMA LatchNext ==
    ASSUME NEW q \in Seq(Key), NEW t, Shifted(q, t), q # <<>>, NEW lo, NEW hi, Rising(q, lo, hi)
    PROVE  Rising(t, q[1], hi) /\ lo < q[1] /\ q[1] <= hi
<1>1. Len(q) \in Nat /\ Len(q) >= 1
  BY Positive
<1>2. Len(t) = Len(q) - 1 /\ \A i \in 1 .. Len(t) : i + 1 \in 1 .. Len(q) /\ t[i] = q[i + 1]
  BY <1>1 DEF Shifted
<1>3. lo < q[1] /\ q[1] <= hi
  BY <1>1 DEF Rising
<1>4. \A i \in 1 .. Len(t) : q[1] < t[i] /\ t[i] <= hi
  BY <1>1, <1>2 DEF Rising
<1>5. \A i, j \in 1 .. Len(t) : i < j => t[i] < t[j]
  BY <1>1, <1>2 DEF Rising
<1> QED BY <1>3, <1>4, <1>5 DEF Rising

\* A new scancode goes behind the queued ones, or is dropped.
LEMMA QueuedRises ==
    ASSUME TypeOK, NEW q, Queued(q), Rising(fifo, latch, injected), latch <= injected
    PROVE  Rising(q, latch, injected') /\ latch <= injected'
<1>1. /\ Len(fifo) \in Nat /\ injected \in Int /\ injected' = injected + 1 /\ latch \in Int
      /\ \A i \in 1 .. Len(fifo) : fifo[i] \in Int
  BY LenProperties, ElementOfSeq, KeyboardAssumption DEF TypeOK, Queued, Key
<1>2. CASE q = fifo
  BY <1>1, <1>2 DEF Rising
<1>3. CASE /\ Len(q) = Len(fifo) + 1 /\ q[Len(q)] = injected'
           /\ \A i \in 1 .. Len(fifo) : q[i] = fifo[i]
  BY <1>1, <1>3, SMTT(30) DEF Rising
<1> QED BY <1>2, <1>3 DEF Queued

\* What IN 60h returned is up to the latch, the latch is before the FIFO, and
\* the FIFO rises up to the last scancode injected.
ReadOrder ==
    /\ Rising(fifo, latch, injected) /\ latch <= injected
    /\ NonDecreasing(reads) /\ UpTo(reads, latch)

\* A bound may be raised.
LEMMA UpToRaised ==
    ASSUME NEW s \in Seq(0 .. NumKeys), NEW k \in 0 .. NumKeys, NEW m \in 0 .. NumKeys,
           UpTo(s, k), k <= m
    PROVE  UpTo(s, m)
<1>1. \A i \in 1 .. Len(s) : s[i] \in Int
  BY ElementOfSeq, KeyboardAssumption
<1> QED BY <1>1, KeyboardAssumption DEF UpTo

\* The latch only moves on to a later scancode.
LEMMA LatchRises ==
    ASSUME TypeOK, TypeOK', [Next]_vars, Rising(fifo, latch, injected), latch <= injected
    PROVE  latch <= latch' /\ Rising(fifo', latch', injected') /\ latch' <= injected'
<1>1. latch \in Int /\ injected \in Int /\ latch' \in Int
  BY KeyboardAssumption DEF TypeOK
<1>2. CASE InjectScancode
  <2>1. PICK q : /\ Queued(q)
                 /\ \/ /\ line /\ fifo' = q /\ UNCHANGED <<latch, line, obf, ui, raced>>
                    \/ /\ ~line /\ Shifted(q, fifo') /\ latch' = q[1] /\ latch' \in Key
                       /\ fifo' \in Seq(Key) /\ line' = TRUE /\ obf' = TRUE /\ ui' = "assert"
                       /\ raced' = (raced \/ bit7)
    BY <1>2, InjectFacts
  <2>2. Rising(q, latch, injected') /\ latch <= injected' /\ q \in Seq(Key)
    BY <2>1, QueuedRises DEF Queued
  <2>3. CASE fifo' = q /\ latch' = latch
    BY <1>1, <2>2, <2>3
  <2>4. CASE Shifted(q, fifo') /\ latch' = q[1]
    <3>1. q # <<>>
      <4>1. Len(fifo) \in Nat /\ Len(q) \in Nat
        BY <2>2, LenProperties DEF TypeOK
      <4> QED BY <2>1, <2>2, <4>1, Positive DEF Queued
    <3>2. Rising(fifo', q[1], injected') /\ latch < q[1] /\ q[1] <= injected'
      BY <2>2, <2>4, <3>1, LatchNext
    <3> QED BY <1>1, <2>4, <3>2
  <2> QED BY <2>1, <2>3, <2>4
<1>3. CASE AckLow
  <2>1. injected' = injected
    BY <1>3 DEF AckLow, FallingEdge
  <2>2. CASE Latches
    <3>1. latch' = fifo[1] /\ Shifted(fifo, fifo') /\ fifo \in Seq(Key) /\ fifo # <<>>
      BY <1>3, <2>2, AckLowFacts DEF TypeOK, Latches
    <3>2. Rising(fifo', fifo[1], injected) /\ latch < fifo[1] /\ fifo[1] <= injected
      BY <3>1, LatchNext
    <3> QED BY <1>1, <2>1, <3>1, <3>2
  <2>3. CASE ~Latches
    BY <1>1, <1>3, <2>1, <2>3, AckLowFacts
  <2> QED BY <2>2, <2>3
<1>4. CASE UNCHANGED <<fifo, latch, injected>>
  BY <1>1, <1>4
<1>5. InjectScancode \/ AckLow \/ UNCHANGED <<fifo, latch, injected>>
  BY DEF Next, Emulator, InjectAssert, OnTick, DeliverInterrupt, PollNothing, IsrEnter, Dequeue60,
         In61, AckHigh, AckAssert, StuffKeyboardBuffer, Iret, MainStep, SetMask, devices, vars
<1> QED BY <1>2, <1>3, <1>4, <1>5

\* What is read is the latch, which never goes back.
LEMMA ReadOrderStep == TypeOK /\ TypeOK' /\ ReadOrder /\ [Next]_vars => ReadOrder'
<1> SUFFICES ASSUME TypeOK, TypeOK', ReadOrder, [Next]_vars PROVE ReadOrder'
    OBVIOUS
<1>1. latch <= latch' /\ Rising(fifo', latch', injected') /\ latch' <= injected'
  BY LatchRises DEF ReadOrder
<1>2. reads \in Seq(0 .. NumKeys) /\ latch \in 0 .. NumKeys /\ latch' \in 0 .. NumKeys
  BY DEF TypeOK
<1>3. NonDecreasing(reads) /\ UpTo(reads, latch)
  BY DEF ReadOrder
<1>4. CASE Dequeue60
  <2>1. reads' = Append(reads, latch) /\ latch' = latch
    BY <1>4 DEF Dequeue60, devices
  <2>2. NonDecreasing(reads') /\ UpTo(reads', latch')
    BY <1>2, <1>3, <2>1, AppendOrdered
  <2> QED BY <1>1, <2>2 DEF ReadOrder
<1>5. CASE reads' = reads
  <2>1. NonDecreasing(reads') /\ UpTo(reads', latch')
    BY <1>1, <1>2, <1>3, <1>5, UpToRaised
  <2> QED BY <1>1, <2>1 DEF ReadOrder
<1>6. Dequeue60 \/ reads' = reads
  BY DEF Next, Emulator, InjectScancode, Inject, InjectAssert, OnTick, DeliverInterrupt, PollNothing,
         IsrEnter, In61, AckHigh, AckLow, FallingEdge, AckAssert, StuffKeyboardBuffer, Iret, MainStep,
         SetMask, history, vars
<1> QED BY <1>4, <1>5, <1>6

\* The places of the INT 9 handler at which it holds a scancode.
Holding == {"in61", "high", "low", "stuff"}

\* Frame f, if it holds a scancode, holds one up to the latch and after all
\* that were stored.
HeldLast(f) == f.at \in Holding => f.key <= latch /\ UpTo(stored, f.key)

\* The same in the next state.
HeldNext(f) == f.at \in Holding => f.key <= latch' /\ UpTo(stored', f.key)

\* With interrupts off in the handlers there is one frame at a time, and the
\* scancode it holds comes after the stored ones.
StoreOrder ==
    /\ Depth <= 1
    /\ NonDecreasing(stored) /\ UpTo(stored, latch)
    /\ \A i \in 1 .. Depth : HeldLast(stack[i])

\* The scancode of a frame that only moves on is still the last one.
LEMMA HeldKept ==
    ASSUME TypeOK, TypeOK', StoreOrder, latch <= latch', stored' = stored, NEW f \in Frame,
           HeldLast(f)
    PROVE  HeldNext(f)
<1>1. f.key \in Int /\ latch \in Int /\ latch' \in Int
  BY KeyboardAssumption DEF TypeOK, Frame
<1> QED BY <1>1 DEF HeldLast, HeldNext

\* Without nesting, a handler stores the scancode it read before another reads.
LEMMA StoreOrderStep ==
    ASSUME TypeOK, TypeOK', [Next]_vars, ~sti, latch <= latch', StoreOrder
    PROVE  StoreOrder'
<1>1. /\ stored \in Seq(0 .. NumKeys) /\ latch \in 0 .. NumKeys /\ latch' \in 0 .. NumKeys
      /\ latch \in Int /\ latch' \in Int
  BY KeyboardAssumption DEF TypeOK
<1>2. Depth \in Nat /\ Depth <= 1 /\ NonDecreasing(stored) /\ UpTo(stored, latch)
  BY DepthNat DEF StoreOrder
<1>3. UpTo(stored, latch')
  BY <1>1, <1>2, UpToRaised
<1>4. \A i \in 1 .. Depth : stack[i] \in Frame /\ HeldLast(stack[i])
  BY ElementOfSeq DEF TypeOK, StoreOrder, Depth
<1>5. ASSUME NEW irq, NEW at, At(irq, at)
      PROVE  Depth = 1 /\ Top = stack[1] /\ Top \in Frame /\ HeldLast(Top) /\ stack # <<>> /\ Top.at = at
  <2>1. stack # <<>> /\ Top.at = at
    BY <1>5 DEF At
  <2>2. Depth \in Nat \ {0} /\ Top = stack[Depth] /\ Top \in Frame
    BY <2>1, TopFrame
  <2>3. Depth = 1
    BY <1>2, <2>2
  <2> QED BY <1>4, <2>1, <2>2, <2>3
<1>6. ASSUME NEW f \in Frame, Goto(f), stack # <<>>, Depth = 1, NonDecreasing(stored'), UpTo(stored', latch'),
             HeldNext(f)
      PROVE  StoreOrder'
  <2>1. Depth' = 1 /\ stack'[1] = f
    BY <1>6, AfterGoto
  <2>2. f.at \in Holding => f.key <= latch' /\ UpTo(stored', f.key)
    BY <1>6 DEF HeldNext
  <2>3. \A i \in 1 .. Depth' : stack'[i].at \in Holding => stack'[i].key <= latch' /\ UpTo(stored', stack'[i].key)
    BY <2>1, <2>2
  <2> QED BY <1>6, <2>1, <2>3 DEF StoreOrder, HeldLast
<1>7. CASE DeliverInterrupt
  <2> DEFINE f == [irq |-> DequeueNextVector, at |-> "sti", key |-> 0, saved |-> FALSE]
  <2>1. stack = <<>> /\ Push(f) /\ stored' = stored /\ Deliverable # {}
    BY <1>7 DEF DeliverInterrupt, FlagI, Push, history
  <2>2. f \in Frame
    BY <2>1, VectorDeliverable, NewFrame
  <2>3. f.at \notin Holding
    BY DEF Holding
  <2> HIDE DEF f
  <2>4. Depth = 0
    BY <2>1, EmptySeq DEF Depth
  <2>5. Depth' = 1 /\ stack'[1] = f
    BY <2>1, <2>2, <2>4, AfterPush
  <2>6. \A i \in 1 .. Depth' : stack'[i].at \notin Holding
    BY <2>3, <2>5
  <2> QED BY <1>2, <1>3, <2>1, <2>5, <2>6 DEF StoreOrder, HeldLast
<1>8. CASE IsrEnter
  <2>1. stack # <<>> /\ Depth = 1 /\ Top \in Frame /\ stored' = stored
    BY <1>5, <1>8 DEF IsrEnter, history
  <2>2. CASE Top.irq = 0
    <3> DEFINE f == [Top EXCEPT !.at = "iret"]
    <3>1. Goto(f)
      BY <1>8, <2>2 DEF IsrEnter
    <3>2. f \in Frame /\ f.at = "iret"
      BY <2>1, FrameAt DEF Place
    <3> HIDE DEF f
    <3>3. HeldNext(f)
      BY <3>2 DEF HeldNext, Holding
    <3> QED BY <1>2, <1>3, <1>6, <2>1, <3>1, <3>2, <3>3
  <2>3. CASE Top.irq # 0
    <3> DEFINE f == [Top EXCEPT !.at = "in60"]
    <3>1. Goto(f)
      BY <1>8, <2>3 DEF IsrEnter
    <3>2. f \in Frame /\ f.at = "in60"
      BY <2>1, FrameAt DEF Place
    <3> HIDE DEF f
    <3>3. HeldNext(f)
      BY <3>2 DEF HeldNext, Holding
    <3> QED BY <1>2, <1>3, <1>6, <2>1, <3>1, <3>2, <3>3
  <2> QED BY <2>2, <2>3
<1>9. CASE Dequeue60
  <2> DEFINE f == [Top EXCEPT !.at = "in61", !.key = latch]
  <2>1. stack # <<>> /\ Depth = 1 /\ Top \in Frame /\ stored' = stored /\ Goto(f) /\ latch' = latch
    BY <1>5, <1>9 DEF Dequeue60, devices
  <2>2. f \in Frame /\ f.key = latch
    BY <1>1, <2>1, FrameKey DEF Place
  <2> HIDE DEF f
  <2>3. HeldNext(f)
    BY <1>1, <1>2, <2>1, <2>2 DEF HeldNext
  <2> QED BY <1>2, <1>3, <1>6, <2>1, <2>2, <2>3
<1>10. ASSUME NEW at \in Place, NEW f \in Frame, At(1, at), at \in Holding, Goto(f), stored' = stored, f.key = Top.key
       PROVE  StoreOrder'
  <2>1. stack # <<>> /\ Depth = 1 /\ Top \in Frame /\ HeldLast(Top) /\ Top.at \in Holding
    BY <1>5, <1>10
  <2>2. Top.key <= latch' /\ UpTo(stored', Top.key)
    BY <1>10, <2>1, HeldKept DEF HeldNext
  <2>3. HeldNext(f)
    BY <1>10, <2>2 DEF HeldNext
  <2> QED BY <1>2, <1>3, <1>6, <1>10, <2>1, <2>3
<1>11. CASE In61
  <2> DEFINE f == [Top EXCEPT !.at = "high", !.saved = bit7]
  <2>1. At(1, "in61") /\ Goto(f) /\ stored' = stored /\ Top \in Frame /\ bit7 \in BOOLEAN
    BY <1>5, <1>11 DEF In61, history, TypeOK
  <2>2. f \in Frame /\ f.key = Top.key
    <3>1. f \in Frame
      BY <2>1, FrameSaved DEF Place
    <3>2. f.key = Top.key
      BY <2>1 DEF Frame
    <3> QED BY <3>1, <3>2
  <2> HIDE DEF f
  <2> QED BY <1>10, <2>1, <2>2 DEF Place, Holding
<1>12. CASE AckHigh
  <2> DEFINE f == [Top EXCEPT !.at = "low"]
  <2>1. At(1, "high") /\ Goto(f) /\ stored' = stored /\ Top \in Frame
    BY <1>5, <1>12 DEF AckHigh, history
  <2>2. f \in Frame /\ f.key = Top.key
    BY <2>1, FrameAt DEF Place
  <2> HIDE DEF f
  <2> QED BY <1>10, <2>1, <2>2 DEF Place, Holding
<1>13. CASE AckLow
  <2> DEFINE f == [Top EXCEPT !.at = "stuff"]
  <2>1. At(1, "low") /\ Goto(f) /\ stored' = stored /\ Top \in Frame
    BY <1>5, <1>13, AckLowFacts DEF AckLow, FallingEdge, history
  <2>2. f \in Frame /\ f.key = Top.key
    BY <2>1, FrameAt DEF Place
  <2> HIDE DEF f
  <2> QED BY <1>10, <2>1, <2>2 DEF Place, Holding
<1>14. CASE StuffKeyboardBuffer
  <2> DEFINE f == [Top EXCEPT !.at = "iret"]
  <2>1. /\ stack # <<>> /\ Depth = 1 /\ Top \in Frame /\ HeldLast(Top) /\ Top.at = "stuff"
        /\ Goto(f) /\ stored' = Append(stored, Top.key) /\ latch' = latch
    BY <1>5, <1>14 DEF StuffKeyboardBuffer, devices
  <2>2. f \in Frame /\ f.at = "iret" /\ Top.key \in 0 .. NumKeys
    <3>1. Top.key \in 0 .. NumKeys
      BY <2>1 DEF Frame
    <3> QED BY <2>1, <3>1, FrameAt DEF Place
  <2> HIDE DEF f
  <2>3. Top.key <= latch /\ UpTo(stored, Top.key)
    BY <2>1 DEF HeldLast, Holding
  <2>4. NonDecreasing(stored') /\ UpTo(stored', Top.key) /\ stored' \in Seq(0 .. NumKeys)
    BY <1>1, <1>2, <2>1, <2>2, <2>3, AppendOrdered DEF TypeOK
  <2>5. UpTo(stored', latch')
    BY <1>1, <2>1, <2>2, <2>3, <2>4, UpToRaised
  <2>6. HeldNext(f)
    BY <2>2 DEF HeldNext, Holding
  <2> QED BY <1>6, <2>1, <2>2, <2>4, <2>5, <2>6
<1>15. CASE Iret
  <2>1. stack # <<>> /\ Depth = 1 /\ Pop /\ stored' = stored
    BY <1>5, <1>15 DEF Iret, Pop, Depth, history
  <2>2. Depth' = 0
    BY <2>1, AfterPop
  <2> QED BY <1>2, <1>3, <2>1, <2>2 DEF StoreOrder
<1>16. CASE UNCHANGED <<stack, stored>>
  <2>1. \A i \in 1 .. Depth : stack[i].at \in Holding => stack[i].key <= latch' /\ UpTo(stored', stack[i].key)
    BY <1>4, <1>16, HeldKept DEF HeldNext
  <2>2. Depth' = Depth /\ stack' = stack /\ stored' = stored
    BY <1>16 DEF Depth
  <2> QED BY <1>2, <1>3, <2>1, <2>2 DEF StoreOrder, HeldLast
<1>17. \/ DeliverInterrupt \/ IsrEnter \/ Dequeue60 \/ In61 \/ AckHigh \/ AckLow
       \/ StuffKeyboardBuffer \/ Iret \/ UNCHANGED <<stack, stored>>
  BY DEF Next, Emulator, InjectScancode, Inject, InjectAssert, OnTick, PollNothing, AckAssert, MainStep,
         SetMask, history, vars
<1> QED BY <1>7, <1>8, <1>9, <1>11, <1>12, <1>13, <1>14, <1>15, <1>16, <1>17

OrderInv == TypeOK /\ ReadOrder /\ (sti \/ StoreOrder)

\* At the start nothing was typed.
LEMMA InitOrder == Init => OrderInv
<1> SUFFICES ASSUME Init PROVE OrderInv
    OBVIOUS
<1>1. TypeOK
  <2>1. 0 \in 0 .. NumKeys /\ 0 \in 0 .. MaxTicks /\ 0 <= FifoCap
    BY KeyboardAssumption
  <2>2. <<>> \in Seq(Key) /\ <<>> \in Seq(Frame) /\ <<>> \in Seq(0 .. NumKeys) /\ Len(<<>>) = 0
    BY EmptySeq, LenProperties
  <2> QED BY <2>1, <2>2 DEF Init, TypeOK
<1>2. fifo = <<>> /\ reads = <<>> /\ stored = <<>> /\ stack = <<>> /\ latch = 0 /\ injected = 0
  BY DEF Init
<1>3. Len(<<>>) = 0 /\ DOMAIN <<>> = {}
  BY EmptySeq
<1>4. ReadOrder
  BY <1>2, <1>3 DEF ReadOrder, Rising, NonDecreasing, UpTo
<1>5. StoreOrder
  BY <1>2, <1>3 DEF StoreOrder, Depth, NonDecreasing, UpTo
<1> QED BY <1>1, <1>4, <1>5 DEF OrderInv

\* Every step keeps the order.
LEMMA OrderStep == OrderInv /\ [Next]_vars => OrderInv'
<1> SUFFICES ASSUME OrderInv, [Next]_vars PROVE OrderInv'
    OBVIOUS
<1>1. TypeOK /\ TypeOK' /\ ReadOrder
  BY TypeStep DEF OrderInv
<1>2. ReadOrder'
  BY <1>1, ReadOrderStep
<1>3. latch <= latch'
  BY <1>1, LatchRises DEF ReadOrder
<1>4. sti' = sti
  BY DEF Next, Emulator, InjectScancode, Inject, InjectAssert, OnTick, DeliverInterrupt, PollNothing,
         IsrEnter, Dequeue60, In61, AckHigh, AckLow, FallingEdge, AckAssert, StuffKeyboardBuffer,
         Iret, MainStep, SetMask, vars
<1>5. sti \/ StoreOrder'
  BY <1>1, <1>3, StoreOrderStep DEF OrderInv
<1> QED BY <1>1, <1>2, <1>4, <1>5 DEF OrderInv

\* The INT 9 handler reads scancodes from port 60h in the order InjectScancode
\* received them, and unless it re-enables interrupts it stores them in the
\* BDA in that order: for every number of keys, FIFO size and interleaving of
\* the UI thread, the timer thread and nested handlers.
THEOREM KeysStayInOrder == Spec => []KeysInOrder
<1>1. OrderInv => KeysInOrder
  BY DEF OrderInv, ReadOrder, StoreOrder, KeysInOrder
<1> QED BY <1>1, InitOrder, OrderStep, PTL DEF Spec

-----------------------------------------------------------------------------
(* The acknowledge of a scancode *)

Early(f) == f.irq = 1 /\ f.at \in {"sti", "in60", "in61", "high"}
Pulse(f) == f.irq = 1 /\ f.at = "low"
Busy(f) == Early(f) \/ Pulse(f)

\* The interrupt is pending or a thread is about to assert it.
Signal == 1 \in pending \/ ui = "assert" \/ emu = "assert"

\* Where a frame of handler irq at place at is on top, it is frame Depth.
LEMMA TopAt ==
    ASSUME TypeOK, NEW irq, NEW at, At(irq, at)
    PROVE  /\ Depth \in Nat \ {0} /\ Depth \in 1 .. Depth /\ stack # <<>> /\ emu = "step"
           /\ Top = stack[Depth] /\ Top \in Frame /\ Top.irq = irq /\ Top.at = at
<1>1. stack # <<>> /\ emu = "step" /\ Top.irq = irq /\ Top.at = at
  BY DEF At
<1>2. Depth \in Nat \ {0} /\ Top = stack[Depth] /\ Top \in Frame
  BY <1>1, TopFrame
<1> QED BY <1>1, <1>2

\* Every action as far as the stack is concerned: frame f pushed, the top one
\* replaced by g, popped, or none of these.
Delivered == [irq |-> DequeueNextVector, at |-> "sti", key |-> 0, saved |-> FALSE]

Moved(irq, from, g) == At(irq, from) /\ Goto(g) /\ g \in Frame /\ g.irq = irq

\* The handlers instruction by instruction: entry,
LEMMA IsrEnterMoves ==
    ASSUME TypeOK, IsrEnter
    PROVE  /\ (\E g : Moved(0, "sti", g) /\ g.at = "iret") \/ (\E g : Moved(1, "sti", g) /\ g.at = "in60")
           /\ emu' = "poll" /\ UNCHANGED <<devices, pic, ui, injected, history>>
<1>1. emu' = "poll" /\ UNCHANGED <<devices, pic, ui, injected, history>>
  BY DEF IsrEnter
<1>2. CASE At(0, "sti")
  <2> DEFINE g == [Top EXCEPT !.at = "iret"]
  <2>1. Top \in Frame /\ Top.irq = 0
    BY <1>2, TopAt
  <2>2. Goto(g)
    BY <2>1 DEF IsrEnter
  <2>3. g \in Frame /\ g.irq = 0 /\ g.at = "iret"
    BY <2>1, FrameAt DEF Place
  <2> HIDE DEF g
  <2> QED BY <1>1, <1>2, <2>2, <2>3 DEF Moved
<1>3. CASE At(1, "sti")
  <2> DEFINE g == [Top EXCEPT !.at = "in60"]
  <2>1. Top \in Frame /\ Top.irq = 1
    BY <1>3, TopAt
  <2>2. Goto(g)
    BY <2>1 DEF IsrEnter
  <2>3. g \in Frame /\ g.irq = 1 /\ g.at = "in60"
    BY <2>1, FrameAt DEF Place
  <2> HIDE DEF g
  <2> QED BY <1>1, <1>3, <2>2, <2>3 DEF Moved
<1> QED BY <1>1, <1>2, <1>3 DEF IsrEnter

\* the read of port 60h,
LEMMA Dequeue60Moves ==
    ASSUME TypeOK, Dequeue60
    PROVE  /\ \E g : Moved(1, "in60", g) /\ g.at = "in61"
           /\ emu' = "poll" /\ reads' = Append(reads, latch)
           /\ UNCHANGED <<devices, pic, ui, injected, dropped, raced, masked>>
<1> DEFINE g == [Top EXCEPT !.at = "in61", !.key = latch]
<1>1. At(1, "in60") /\ Goto(g) /\ emu' = "poll" /\ reads' = Append(reads, latch)
      /\ UNCHANGED <<devices, pic, ui, injected, dropped, raced, masked>>
  BY DEF Dequeue60
<1>2. Top \in Frame /\ Top.irq = 1 /\ latch \in 0 .. NumKeys
  BY <1>1, TopAt DEF TypeOK
<1>3. g \in Frame /\ g.irq = 1 /\ g.at = "in61"
  BY <1>2, FrameKey, ZenonT(60) DEF Place
<1> HIDE DEF g
<1> QED BY <1>1, <1>3 DEF Moved

\* the read of port 61h,
LEMMA In61Moves ==
    ASSUME TypeOK, In61
    PROVE  /\ \E g : Moved(1, "in61", g) /\ g.at = "high" /\ g.saved = bit7
           /\ emu' = "poll" /\ UNCHANGED <<devices, pic, ui, injected, history>>
<1> DEFINE g == [Top EXCEPT !.at = "high", !.saved = bit7]
<1>1. At(1, "in61") /\ Goto(g) /\ emu' = "poll" /\ UNCHANGED <<devices, pic, ui, injected, history>>
  BY DEF In61
<1>2. Top \in Frame /\ Top.irq = 1 /\ bit7 \in BOOLEAN
  BY <1>1, TopAt DEF TypeOK
<1>3. g \in Frame
  BY <1>2, FrameSaved DEF Place
<1>4. g.irq = 1 /\ g.at = "high"
  BY <1>2 DEF Frame
<1>5. g.saved = bit7
  BY <1>2, Zenon DEF Frame
<1> HIDE DEF g
<1> QED BY <1>1, <1>3, <1>4, <1>5 DEF Moved

\* the rising edge, which lowers the line,
LEMMA AckHighMoves ==
    ASSUME TypeOK, AckHigh
    PROVE  /\ \E g : Moved(1, "high", g) /\ g.at = "low" /\ g.saved = Top.saved
           /\ emu' = "poll" /\ bit7' = TRUE /\ line' = (line /\ bit7)
           /\ UNCHANGED <<fifo, latch, obf, pic, ui, injected, history>>
<1> DEFINE g == [Top EXCEPT !.at = "low"]
<1>1. At(1, "high") /\ Goto(g) /\ emu' = "poll" /\ bit7' = TRUE /\ line' = (line /\ bit7)
      /\ UNCHANGED <<fifo, latch, obf, pic, ui, injected, history>>
  BY DEF AckHigh
<1>2. Top \in Frame /\ Top.irq = 1
  BY <1>1, TopAt
<1>3. g \in Frame /\ g.irq = 1 /\ g.at = "low" /\ g.saved = Top.saved
  BY <1>2, FrameAt DEF Place
<1> HIDE DEF g
<1> QED BY <1>1, <1>3 DEF Moved

\* the falling edge,
LEMMA AckLowMoves ==
    ASSUME TypeOK, AckLow
    PROVE  /\ \E g : Moved(1, "low", g) /\ g.at = "stuff"
           /\ UNCHANGED <<pic, ui, injected, history>>
<1> DEFINE g == [Top EXCEPT !.at = "stuff"]
<1>1. At(1, "low") /\ Goto(g) /\ UNCHANGED <<pic, ui, injected, history>>
  BY DEF AckLow, FallingEdge
<1>2. Top \in Frame /\ Top.irq = 1
  BY <1>1, TopAt
<1>3. g \in Frame /\ g.irq = 1 /\ g.at = "stuff"
  BY <1>2, FrameAt DEF Place
<1> HIDE DEF g
<1> QED BY <1>1, <1>3 DEF Moved

\* and the store into the BIOS buffer.
LEMMA StuffMoves ==
    ASSUME TypeOK, StuffKeyboardBuffer
    PROVE  /\ \E g : Moved(1, "stuff", g) /\ g.at = "iret"
           /\ emu' = "poll" /\ UNCHANGED <<devices, pic, ui, injected, reads, dropped, raced, masked>>
<1> DEFINE g == [Top EXCEPT !.at = "iret"]
<1>1. At(1, "stuff") /\ Goto(g) /\ emu' = "poll"
      /\ UNCHANGED <<devices, pic, ui, injected, reads, dropped, raced, masked>>
  BY DEF StuffKeyboardBuffer
<1>2. Top \in Frame /\ Top.irq = 1
  BY <1>1, TopAt
<1>3. g \in Frame /\ g.irq = 1 /\ g.at = "iret"
  BY <1>2, FrameAt DEF Place
<1> HIDE DEF g
<1> QED BY <1>1, <1>3 DEF Moved

\* Delivery takes a pending interrupt to a new frame.
LEMMA DeliverMoves ==
    ASSUME TypeOK, DeliverInterrupt
    PROVE  /\ Push(Delivered) /\ Delivered \in Frame /\ FlagI /\ emu = "poll" /\ emu' = "poll"
           /\ Delivered.irq = DequeueNextVector /\ Delivered.at = "sti"
           /\ DequeueNextVector \in pending /\ DequeueNextVector \in {0, 1}
           /\ pending' = pending \ {DequeueNextVector}
           /\ UNCHANGED <<devices, imr, ui, injected, history>>
<1>1. Push(Delivered) /\ FlagI /\ emu = "poll" /\ emu' = "poll" /\ Deliverable # {}
      /\ pending' = pending \ {DequeueNextVector} /\ UNCHANGED <<devices, imr, ui, injected, history>>
  BY DEF DeliverInterrupt, Push, Delivered
<1>2. DequeueNextVector \in Deliverable /\ DequeueNextVector \in Irq
  BY <1>1, VectorDeliverable
<1>3. DequeueNextVector \in pending /\ DequeueNextVector \in {0, 1}
  BY <1>2 DEF Deliverable, Irq
<1>4. Delivered \in Frame
  BY <1>2, NewFrame DEF Delivered
<1>5. Delivered.irq = DequeueNextVector /\ Delivered.at = "sti"
  BY DEF Delivered
<1> QED BY <1>1, <1>3, <1>4, <1>5

\* The frames after a move, a push and a pop, without arithmetic.
LEMMA MovedFrames ==
    ASSUME TypeOK, NEW irq, NEW from, NEW g, Moved(irq, from, g)
    PROVE  /\ DOMAIN stack' = DOMAIN stack /\ Depth \in DOMAIN stack /\ stack'[Depth] = g
           /\ \A i \in DOMAIN stack : i # Depth => stack'[i] = stack[i]
           /\ stack[Depth] = Top /\ Top.irq = irq /\ Top.at = from /\ emu = "step" /\ g.irq = irq
<1>1. /\ Depth \in 1 .. Depth /\ stack # <<>> /\ emu = "step" /\ Top = stack[Depth]
      /\ Top.irq = irq /\ Top.at = from
  BY TopAt DEF Moved
<1>2. /\ stack' \in Seq(Frame) /\ Depth' = Depth /\ stack'[Depth] = g
      /\ \A i \in 1 .. Depth : i # Depth => stack'[i] = stack[i]
  BY <1>1, AfterGoto DEF Moved
<1>3. DOMAIN stack' = 1 .. Depth /\ DOMAIN stack = 1 .. Depth
  BY <1>2, LenProperties DEF TypeOK, Depth
<1> QED BY <1>1, <1>2, <1>3 DEF Moved

\* By the frames on the stack: a delivery adds one,
LEMMA PushedFrames ==
    ASSUME TypeOK, NEW f \in Frame, Push(f)
    PROVE  \E n : /\ DOMAIN stack' = DOMAIN stack \cup {n} /\ n \notin DOMAIN stack /\ stack'[n] = f
                  /\ \A i \in DOMAIN stack : stack'[i] = stack[i]
<1>1. /\ stack' \in Seq(Frame) /\ Depth' = Depth + 1 /\ stack'[Depth + 1] = f
      /\ \A i \in 1 .. Depth : stack'[i] = stack[i]
  BY AfterPush
<1>2. DOMAIN stack' = 1 .. Depth + 1 /\ DOMAIN stack = 1 .. Depth /\ Depth \in Nat
  BY <1>1, LenProperties DEF TypeOK, Depth
<1>3. DOMAIN stack' = DOMAIN stack \cup {Depth + 1} /\ Depth + 1 \notin DOMAIN stack
  BY <1>2
<1> QED BY <1>1, <1>2, <1>3

\* and IRET removes the one that is done.
LEMMA PoppedFrames ==
    ASSUME TypeOK, Iret
    PROVE  /\ DOMAIN stack' = DOMAIN stack \ {Depth} /\ Depth \in DOMAIN stack
           /\ \A i \in DOMAIN stack' : stack'[i] = stack[i]
           /\ stack[Depth].at = "iret" /\ emu = "step" /\ emu' = "poll"
           /\ UNCHANGED <<devices, pic, ui, injected, history>>
<1>1. emu' = "poll" /\ UNCHANGED <<devices, pic, ui, injected, history>> /\ Pop
  BY DEF Iret, Pop, Depth
<1>2. Depth \in Nat \ {0} /\ stack # <<>> /\ emu = "step" /\ stack[Depth].at = "iret"
  <2>1. CASE At(0, "iret")
    BY <2>1, TopAt
  <2>2. CASE At(1, "iret")
    BY <2>2, TopAt
  <2> QED BY <2>1, <2>2 DEF Iret
<1>3. stack' \in Seq(Frame) /\ Depth' = Depth - 1 /\ \A i \in 1 .. Depth - 1 : stack'[i] = stack[i]
  BY <1>1, <1>2, AfterPop
<1>4. DOMAIN stack' = 1 .. Depth - 1 /\ DOMAIN stack = 1 .. Depth
  BY <1>3, LenProperties DEF TypeOK, Depth
<1>5. DOMAIN stack' = DOMAIN stack \ {Depth} /\ Depth \in DOMAIN stack
  BY <1>2, <1>4
<1> QED BY <1>1, <1>2, <1>3, <1>4, <1>5

SomeEarly == \E i \in DOMAIN stack : Early(stack[i])

\* The line is high only while somebody will lower it, provided a rising edge
\* finds bit 7 low.
LEMMA StuckStep ==
    ASSUME TypeOK, [Next]_vars, masked \/ KeyboardNotStuck, At(1, "high") => ~bit7
    PROVE  (masked \/ KeyboardNotStuck)'
<1>1. (AckInFlight <=> Signal \/ SomeEarly) /\ (AckInFlight' <=> Signal' \/ SomeEarly')
  BY DEF AckInFlight, Signal, SomeEarly, Early
<1>2. ASSUME masked' = masked, line' => line, Signal => Signal' \/ SomeEarly', SomeEarly => SomeEarly'
      PROVE  (masked \/ KeyboardNotStuck)'
  BY <1>1, <1>2 DEF KeyboardNotStuck
<1>3. ASSUME stack' = stack PROVE SomeEarly => SomeEarly'
  BY <1>3 DEF SomeEarly
<1>4. ASSUME NEW irq, NEW from, NEW g, Moved(irq, from, g), Early(Top) => Early(g)
      PROVE  SomeEarly => SomeEarly'
  BY <1>4, MovedFrames, Zenon DEF SomeEarly
<1>5. CASE InjectScancode
  <2>1. stack' = stack /\ pending' = pending /\ emu' = emu /\ masked' = masked
    BY <1>5 DEF InjectScancode, Inject, pic
  <2>2. ui' = "assert" \/ (line' = line /\ ui' = ui)
    BY <1>5 DEF InjectScancode, Inject
  <2>3. CASE ui' = "assert"
    BY <1>1, <2>3 DEF Signal, KeyboardNotStuck
  <2>4. CASE line' = line /\ ui' = ui
    BY <1>2, <1>3, <2>1, <2>4 DEF Signal
  <2> QED BY <2>2, <2>3, <2>4
<1>6. CASE InjectAssert \/ AckAssert
  <2>1. masked' \/ 1 \in pending'
    BY <1>6 DEF InjectAssert, AckAssert, AssertIrq
  <2> QED BY <1>1, <2>1 DEF Signal, KeyboardNotStuck
<1>7. CASE OnTick
  <2>1. stack' = stack /\ line' = line /\ ui' = ui /\ emu' = emu /\ pending \subseteq pending'
    BY <1>7 DEF OnTick, AssertIrq, devices
  <2>2. masked' = masked
    BY <1>7 DEF OnTick, AssertIrq, TypeOK
  <2> QED BY <1>2, <1>3, <2>1, <2>2 DEF Signal
<1>8. CASE DeliverInterrupt
  <2>1. Push(Delivered) /\ Delivered \in Frame
    BY <1>8, DeliverMoves
  <2>2. /\ Delivered.irq = DequeueNextVector /\ Delivered.at = "sti" /\ emu = "poll"
        /\ pending' = pending \ {DequeueNextVector} /\ line' = line /\ ui' = ui /\ masked' = masked
    BY <1>8, DeliverMoves DEF devices, history
  <2>3. PICK n : /\ DOMAIN stack' = DOMAIN stack \cup {n} /\ n \notin DOMAIN stack /\ stack'[n] = Delivered
                 /\ \A i \in DOMAIN stack : stack'[i] = stack[i]
    BY <2>1, PushedFrames
  <2>4. SomeEarly => SomeEarly'
    BY <2>3 DEF SomeEarly
  <2>5. CASE DequeueNextVector = 1
    <3>1. Early(Delivered)
      BY <2>2, <2>5 DEF Early
    <3> QED BY <1>1, <2>3, <3>1 DEF SomeEarly, KeyboardNotStuck
  <2>6. CASE DequeueNextVector # 1
    BY <1>2, <2>2, <2>4, <2>6 DEF Signal
  <2> QED BY <2>5, <2>6
<1>9. CASE PollNothing \/ MainStep \/ SetMask
  <2>1. stack' = stack /\ line' = line /\ ui' = ui /\ pending' = pending /\ masked' = masked /\ emu # "assert"
    BY <1>9 DEF PollNothing, MainStep, SetMask, devices, pic, history
  <2> QED BY <1>2, <1>3, <2>1 DEF Signal
<1>10. CASE IsrEnter
  <2>1. line' = line /\ ui' = ui /\ pending' = pending /\ masked' = masked
    BY <1>10, IsrEnterMoves DEF devices, pic, history
  <2>2. PICK g : Moved(0, "sti", g) \/ (Moved(1, "sti", g) /\ g.at = "in60")
    BY <1>10, IsrEnterMoves
  <2>3. emu = "step" /\ (SomeEarly => SomeEarly')
    <3>1. CASE Moved(0, "sti", g)
      <4>1. Top.irq = 0 /\ emu = "step"
        BY <3>1, MovedFrames
      <4> QED BY <1>4, <3>1, <4>1 DEF Early
    <3>2. CASE Moved(1, "sti", g) /\ g.at = "in60"
      <4>1. g.irq = 1 /\ emu = "step"
        BY <3>2, MovedFrames
      <4> QED BY <1>4, <3>2, <4>1 DEF Early
    <3> QED BY <2>2, <3>1, <3>2
  <2> QED BY <1>2, <2>1, <2>3 DEF Signal
<1>11. CASE Dequeue60
  <2>1. line' = line /\ ui' = ui /\ pending' = pending /\ masked' = masked
    BY <1>11, Dequeue60Moves DEF devices, pic
  <2>2. PICK g : Moved(1, "in60", g) /\ g.at = "in61"
    BY <1>11, Dequeue60Moves
  <2>3. emu = "step" /\ Early(g)
    BY <2>2, MovedFrames DEF Early
  <2> QED BY <1>2, <1>4, <2>1, <2>2, <2>3 DEF Signal
<1>12. CASE In61
  <2>1. line' = line /\ ui' = ui /\ pending' = pending /\ masked' = masked
    BY <1>12, In61Moves DEF devices, pic, history
  <2>2. PICK g : Moved(1, "in61", g) /\ g.at = "high"
    BY <1>12, In61Moves
  <2>3. emu = "step" /\ Early(g)
    BY <2>2, MovedFrames DEF Early
  <2> QED BY <1>2, <1>4, <2>1, <2>2, <2>3 DEF Signal
<1>13. CASE AckHigh
  <2>1. ~line'
    BY <1>13, AckHighMoves DEF AckHigh
  <2> QED BY <2>1 DEF KeyboardNotStuck
<1>14. CASE AckLow
  <2>1. CASE Latches
    BY <1>1, <1>14, <2>1, AckLowFacts DEF Signal, KeyboardNotStuck
  <2>2. CASE ~Latches
    <3>1. line' = line /\ ui' = ui /\ pending' = pending /\ masked' = masked
      BY <1>14, <2>2, AckLowFacts, AckLowMoves DEF pic, history
    <3>2. PICK g : Moved(1, "low", g)
      BY <1>14, AckLowMoves
    <3>3. emu = "step" /\ ~Early(Top)
      BY <3>2, MovedFrames DEF Early
    <3> QED BY <1>2, <1>4, <3>1, <3>2, <3>3 DEF Signal
  <2> QED BY <2>1, <2>2
<1>15. CASE StuffKeyboardBuffer
  <2>1. line' = line /\ ui' = ui /\ pending' = pending /\ masked' = masked
    BY <1>15, StuffMoves DEF devices, pic
  <2>2. PICK g : Moved(1, "stuff", g)
    BY <1>15, StuffMoves
  <2>3. emu = "step" /\ ~Early(Top)
    BY <2>2, MovedFrames DEF Early
  <2> QED BY <1>2, <1>4, <2>1, <2>2, <2>3 DEF Signal
<1>16. CASE Iret
  <2>1. line' = line /\ ui' = ui /\ pending' = pending /\ masked' = masked /\ emu = "step"
    BY <1>16, PoppedFrames DEF devices, pic, history
  <2>2. ~Early(stack[Depth])
    BY <1>16, PoppedFrames DEF Early
  <2>3. SomeEarly => SomeEarly'
    BY <1>16, <2>2, PoppedFrames, Zenon DEF SomeEarly
  <2> QED BY <1>2, <2>1, <2>3 DEF Signal
<1>17. CASE UNCHANGED vars
  <2>1. line' = line /\ ui' = ui /\ pending' = pending /\ masked' = masked /\ emu' = emu /\ stack' = stack
    BY <1>17 DEF vars
  <2> QED BY <1>2, <1>3, <2>1 DEF Signal
<1> QED BY <1>5, <1>6, <1>7, <1>8, <1>9, <1>10, <1>11, <1>12, <1>13, <1>14, <1>15, <1>16, <1>17
        DEF Next, Emulator

\* Scancode k is queued, latched or read, or met a full FIFO.
Kept(k) == k \in dropped \/ In(k, fifo) \/ latch = k \/ In(k, reads)

\* Appending adds its argument and loses nothing.
LEMMA InAppend ==
    ASSUME NEW S, NEW s \in Seq(S), NEW x \in S, NEW k
    PROVE  (In(k, s) => In(k, Append(s, x))) /\ In(x, Append(s, x))
<1>1. /\ Len(s) \in Nat /\ Len(Append(s, x)) = Len(s) + 1 /\ Append(s, x)[Len(s) + 1] = x
      /\ \A i \in 1 .. Len(s) : Append(s, x)[i] = s[i]
      /\ DOMAIN s = 1 .. Len(s) /\ DOMAIN Append(s, x) = 1 .. Len(s) + 1
  BY AppendProperties, LenProperties
<1> QED BY <1>1 DEF In

\* Shifting loses the first member alone.
LEMMA InShifted ==
    ASSUME NEW s \in Seq(Key), NEW t \in Seq(Key), Shifted(s, t), NEW k, In(k, s)
    PROVE  k = s[1] \/ In(k, t)
<1>1. PICK i \in DOMAIN s : s[i] = k
  BY DEF In
<1>2. DOMAIN s = 1 .. Len(s) /\ DOMAIN t = 1 .. Len(t) /\ Len(s) \in Nat
  BY LenProperties
<1>3. CASE i = 1
  BY <1>1, <1>3
<1>4. CASE i # 1
  <2>1. i - 1 \in 1 .. Len(t) /\ (i - 1) + 1 = i
    BY <1>2, <1>4 DEF Shifted
  <2>2. t[i - 1] = k
    BY <1>1, <2>1 DEF Shifted
  <2> QED BY <1>2, <2>1, <2>2 DEF In
<1> QED BY <1>3, <1>4

\* The latched scancode was read, so that latching another one loses nothing.
Read == latch = 0 \/ In(latch, reads)

\* No scancode is lost if a latched one is read before another replaces it.
LEMMA LostStep ==
    ASSUME TypeOK, TypeOK', [Next]_vars, NothingLost, ~line \/ At(1, "low") => Read
    PROVE  NothingLost'
<1>1. \A k \in 1 .. injected : Kept(k)
  BY DEF NothingLost, Kept
<1>2. injected \in 0 .. NumKeys /\ injected \in Int
  BY KeyboardAssumption DEF TypeOK
<1> SUFFICES ASSUME NEW k \in 1 .. injected'
             PROVE  k \in dropped' \/ In(k, fifo') \/ latch' = k \/ In(k, reads')
    BY DEF NothingLost
<1>3. CASE InjectScancode
  <2>1. PICK q : /\ Queued(q)
                 /\ \/ /\ line /\ fifo' = q /\ UNCHANGED <<latch, line, obf, ui, raced>>
                    \/ /\ ~line /\ Shifted(q, fifo') /\ latch' = q[1] /\ latch' \in Key
                       /\ fifo' \in Seq(Key) /\ line' = TRUE /\ obf' = TRUE /\ ui' = "assert"
                       /\ raced' = (raced \/ bit7)
    BY <1>3, InjectFacts
  <2>2. reads' = reads
    BY <1>3 DEF InjectScancode, Inject
  <2>3. q \in Seq(Key) /\ injected' = injected + 1 /\ dropped \subseteq dropped'
    BY <2>1 DEF Queued
  <2>4. fifo \in Seq(Key) /\ DOMAIN fifo = 1 .. Len(fifo) /\ Len(fifo) \in Nat /\ DOMAIN q = 1 .. Len(q)
    BY <2>3, LenProperties DEF TypeOK
  <2>5. k \in dropped' \/ In(k, q) \/ latch = k \/ In(k, reads)
    <3>1. CASE k = injected'
      <4>1. k \in dropped' \/ In(k, q)
        <5>1. CASE dropped' = dropped \cup {injected'}
          BY <3>1, <5>1
        <5>2. CASE Len(q) = Len(fifo) + 1 /\ q[Len(q)] = injected'
          <6>1. Len(q) \in DOMAIN q
            BY <2>4, <5>2
          <6> QED BY <3>1, <5>2, <6>1 DEF In
        <5> QED BY <2>1, <5>1, <5>2 DEF Queued
      <4> QED BY <4>1
    <3>2. CASE k # injected'
      <4>1. k \in 1 .. injected
        BY <1>2, <2>3, <3>2
      <4>2. Kept(k)
        BY <1>1, <4>1
      <4>3. In(k, fifo) => In(k, q)
        <5>1. CASE q = fifo
          BY <5>1
        <5>2. CASE Len(q) = Len(fifo) + 1 /\ \A i \in 1 .. Len(fifo) : q[i] = fifo[i]
          <6>1. \A i \in 1 .. Len(fifo) : i \in DOMAIN q /\ q[i] = fifo[i]
            BY <2>4, <5>2
          <6> QED BY <2>4, <6>1 DEF In
        <5> QED BY <2>1, <5>1, <5>2 DEF Queued
      <4> QED BY <2>3, <4>2, <4>3 DEF Kept
    <3> QED BY <3>1, <3>2
  <2>6. CASE fifo' = q /\ latch' = latch
    BY <2>2, <2>5, <2>6
  <2>7. CASE ~line /\ Shifted(q, fifo') /\ latch' = q[1] /\ fifo' \in Seq(Key)
    <3>1. In(k, q) => latch' = k \/ In(k, fifo')
      BY <2>3, <2>7, InShifted
    <3>2. k # 0
      BY <1>2, <2>3
    <3>3. latch = k => In(k, reads)
      BY <2>7, <3>2 DEF Read
    <3> QED BY <2>2, <2>5, <3>1, <3>3
  <2> QED BY <2>1, <2>6, <2>7
<1>4. CASE AckLow
  <2>1. injected' = injected /\ reads' = reads /\ dropped' = dropped
    BY <1>4, AckLowMoves DEF history
  <2>2. Kept(k)
    BY <1>1, <2>1
  <2>3. CASE Latches
    <3>1. latch' = fifo[1] /\ fifo' \in Seq(Key) /\ Shifted(fifo, fifo') /\ fifo \in Seq(Key)
      BY <1>4, <2>3, AckLowFacts DEF TypeOK
    <3>2. In(k, fifo) => latch' = k \/ In(k, fifo')
      BY <3>1, InShifted
    <3>3. k # 0
      BY <1>2, <2>1
    <3>4. latch = k => In(k, reads)
      BY <1>4, <3>3, AckLowFacts DEF Read
    <3> QED BY <2>1, <2>2, <3>2, <3>4 DEF Kept
  <2>4. CASE ~Latches
    BY <1>4, <2>1, <2>2, <2>4, AckLowFacts DEF Kept
  <2> QED BY <2>3, <2>4
<1>5. CASE Dequeue60
  <2>1. reads' = Append(reads, latch) /\ UNCHANGED <<fifo, latch, injected, dropped>>
    BY <1>5 DEF Dequeue60, devices
  <2>2. In(k, reads) => In(k, reads')
    BY <2>1, InAppend DEF TypeOK
  <2> QED BY <1>1, <2>1, <2>2 DEF Kept
<1>6. CASE UNCHANGED <<fifo, latch, injected, reads, dropped>>
  BY <1>1, <1>6 DEF Kept
<1>7. InjectScancode \/ AckLow \/ Dequeue60 \/ UNCHANGED <<fifo, latch, injected, reads, dropped>>
  BY DEF Next, Emulator, InjectAssert, OnTick, DeliverInterrupt, PollNothing, IsrEnter, In61, AckHigh,
         AckAssert, StuffKeyboardBuffer, Iret, MainStep, SetMask, devices, history, vars
<1> QED BY <1>3, <1>4, <1>5, <1>6, <1>7

-----------------------------------------------------------------------------
(* A handler that cannot be nested *)

OneFrame == \A i, j \in DOMAIN stack : i = j

\* Bit 7 is high only between the two writes of the pulse, and the second one
\* brings it down again.
PulseOnly ==
    /\ bit7 => \E i \in DOMAIN stack : stack[i].at = "low"
    /\ \A i \in DOMAIN stack : stack[i].at \in {"high", "low"} => ~stack[i].saved

\* Without nesting, the running frame decides what bit 7 is.
LEMMA OneFrameTop ==
    ASSUME TypeOK, OneFrame, PulseOnly, NEW irq, NEW at, At(irq, at)
    PROVE  (at # "low" => ~bit7) /\ (at \in {"high", "low"} => ~Top.saved)
<1>1. Depth \in 1 .. Depth /\ Top = stack[Depth] /\ Top.at = at
  BY TopAt
<1>2. Depth \in DOMAIN stack
  BY <1>1, DepthNat
<1> QED BY <1>1, <1>2 DEF OneFrame, PulseOnly

\* Without nesting, bit 7 is high only inside the pulse.
LEMMA PulseOnlyStep ==
    ASSUME TypeOK, TypeOK', [Next]_vars, OneFrame, PulseOnly
    PROVE  PulseOnly'
<1>1. ASSUME NEW irq, NEW from, NEW g, Moved(irq, from, g), from # "low", g.at \notin {"high", "low"},
             bit7' = bit7
      PROVE  PulseOnly'
  <2>1. /\ DOMAIN stack' = DOMAIN stack /\ Depth \in DOMAIN stack /\ stack'[Depth] = g
        /\ \A i \in DOMAIN stack : i # Depth => stack'[i] = stack[i]
        /\ stack[Depth].at = from
    BY <1>1, MovedFrames
  <2> QED BY <1>1, <2>1 DEF PulseOnly
<1>2. CASE DeliverInterrupt
  <2>1. Push(Delivered) /\ Delivered \in Frame
    BY <1>2, DeliverMoves
  <2>2. Delivered.at = "sti" /\ bit7' = bit7
    BY <1>2, DeliverMoves DEF devices
  <2>3. PICK n : /\ DOMAIN stack' = DOMAIN stack \cup {n} /\ n \notin DOMAIN stack /\ stack'[n] = Delivered
                 /\ \A i \in DOMAIN stack : stack'[i] = stack[i]
    BY <2>1, PushedFrames
  <2> QED BY <2>2, <2>3 DEF PulseOnly
<1>3. CASE IsrEnter
  <2>1. bit7' = bit7
    BY <1>3, IsrEnterMoves DEF devices
  <2>2. PICK g : (Moved(0, "sti", g) /\ g.at = "iret") \/ (Moved(1, "sti", g) /\ g.at = "in60")
    BY <1>3, IsrEnterMoves
  <2> QED BY <1>1, <2>1, <2>2
<1>4. CASE Dequeue60
  <2>1. bit7' = bit7
    BY <1>4, Dequeue60Moves DEF devices
  <2>2. PICK g : Moved(1, "in60", g) /\ g.at = "in61"
    BY <1>4, Dequeue60Moves
  <2> QED BY <1>1, <2>1, <2>2
<1>5. CASE In61
  <2>1. bit7' = bit7
    BY <1>5, In61Moves DEF devices
  <2>2. PICK g : Moved(1, "in61", g) /\ g.at = "high" /\ g.saved = bit7
    BY <1>5, In61Moves
  <2>3. ~bit7
    BY <2>2, OneFrameTop DEF Moved
  <2>4. /\ DOMAIN stack' = DOMAIN stack /\ Depth \in DOMAIN stack /\ stack'[Depth] = g
        /\ \A i \in DOMAIN stack : i # Depth => stack'[i] = stack[i]
    BY <2>2, MovedFrames
  <2> QED BY <2>1, <2>2, <2>3, <2>4 DEF PulseOnly
<1>6. CASE AckHigh
  <2>1. PICK g : Moved(1, "high", g) /\ g.at = "low" /\ g.saved = Top.saved
    BY <1>6, AckHighMoves
  <2>2. ~Top.saved
    BY <2>1, OneFrameTop DEF Moved
  <2>3. /\ DOMAIN stack' = DOMAIN stack /\ Depth \in DOMAIN stack /\ stack'[Depth] = g
        /\ \A i \in DOMAIN stack : i # Depth => stack'[i] = stack[i]
    BY <2>1, MovedFrames
  <2> QED BY <2>1, <2>2, <2>3 DEF PulseOnly
<1>7. CASE AckLow
  <2>1. PICK g : Moved(1, "low", g) /\ g.at = "stuff"
    BY <1>7, AckLowMoves
  <2>2. ~bit7'
    BY <1>7, <2>1, AckLowFacts, OneFrameTop DEF Moved
  <2>3. /\ DOMAIN stack' = DOMAIN stack /\ Depth \in DOMAIN stack /\ stack'[Depth] = g
        /\ \A i \in DOMAIN stack : i # Depth => stack'[i] = stack[i]
    BY <2>1, MovedFrames
  <2> QED BY <2>1, <2>2, <2>3 DEF PulseOnly
<1>8. CASE StuffKeyboardBuffer
  <2>1. bit7' = bit7
    BY <1>8, StuffMoves DEF devices
  <2>2. PICK g : Moved(1, "stuff", g) /\ g.at = "iret"
    BY <1>8, StuffMoves
  <2> QED BY <1>1, <2>1, <2>2
<1>9. CASE Iret
  <2>1. /\ DOMAIN stack' = DOMAIN stack \ {Depth} /\ Depth \in DOMAIN stack
        /\ \A i \in DOMAIN stack' : stack'[i] = stack[i]
        /\ stack[Depth].at = "iret"
    BY <1>9, PoppedFrames
  <2>2. bit7' = bit7
    BY <1>9 DEF Iret, devices
  <2> QED BY <2>1, <2>2 DEF PulseOnly
<1>10. CASE UNCHANGED <<bit7, stack>>
  BY <1>10 DEF PulseOnly
<1>11. \/ DeliverInterrupt \/ IsrEnter \/ Dequeue60 \/ In61 \/ AckHigh \/ AckLow
       \/ StuffKeyboardBuffer \/ Iret \/ UNCHANGED <<bit7, stack>>
  BY DEF Next, Emulator, InjectScancode, Inject, InjectAssert, OnTick, PollNothing, AckAssert, MainStep,
         SetMask, devices, vars
<1> QED BY <1>2, <1>3, <1>4, <1>5, <1>6, <1>7, <1>8, <1>9, <1>10, <1>11

-----------------------------------------------------------------------------
(* Without a race one acknowledge is under way at a time *)

Alone == \A i, j \in DOMAIN stack : Busy(stack[i]) /\ Busy(stack[j]) => i = j

OneSignal ==
    /\ ~(1 \in pending /\ ui = "assert") /\ ~(1 \in pending /\ emu = "assert")
    /\ ~(ui = "assert" /\ emu = "assert")

FrameOK(f) ==
    /\ Early(f) => line /\ ~bit7 /\ ~Signal
    /\ Pulse(f) => ~line /\ bit7 /\ ~Signal /\ ~f.saved
    /\ f.irq = 1 /\ f.at = "high" => ~f.saved
    /\ f.irq = 1 /\ f.at \in {"in61", "high"} => Read

Token ==
    /\ Alone /\ OneSignal /\ (Signal => line)
    /\ \A i \in DOMAIN stack : FrameOK(stack[i])
    /\ bit7 => \E i \in DOMAIN stack : Pulse(stack[i])
    /\ ~line => Read

\* A step that leaves the busy frames, the devices and the signals alone.
LEMMA CalmStep ==
    ASSUME Token, UNCHANGED <<line, bit7, latch, reads, ui>>,
           1 \in pending' <=> 1 \in pending, emu' = "assert" <=> emu = "assert",
           \A i \in DOMAIN stack : Busy(stack[i]) => i \in DOMAIN stack' /\ stack'[i] = stack[i],
           \A i \in DOMAIN stack' : Busy(stack'[i]) => i \in DOMAIN stack /\ stack'[i] = stack[i]
    PROVE  Token'
<1>1. (Signal' <=> Signal) /\ (Read' <=> Read) /\ OneSignal' /\ (Signal' => line') /\ (~line' => Read')
  BY DEF Token, Signal, Read, OneSignal
<1>2. Alone'
  BY DEF Token, Alone
<1>3. ASSUME NEW i \in DOMAIN stack' PROVE FrameOK(stack[i])'
  <2>1. CASE Busy(stack'[i])
    <3>1. i \in DOMAIN stack /\ stack'[i] = stack[i] /\ FrameOK(stack[i])
      BY <2>1 DEF Token
    <3> QED BY <1>1, <3>1 DEF FrameOK, Early, Pulse
  <2>2. CASE ~Busy(stack'[i])
    BY <2>2 DEF FrameOK, Busy, Early, Pulse
  <2> QED BY <2>1, <2>2
<1>4. bit7' => \E i \in DOMAIN stack' : Pulse(stack'[i])
  BY DEF Token, Busy
<1>5. \A i \in DOMAIN stack' : FrameOK(stack[i])'
  BY <1>3
<1> QED BY <1>1, <1>2, <1>4, <1>5 DEF Token, Pulse

\* A step of the handler that is acknowledging, and of no other.
LEMMA BusyStep ==
    ASSUME TypeOK, Token, NEW from \in {"sti", "in60", "in61", "high", "low"}, NEW g, Moved(1, from, g),
           OneSignal', Signal' => line', bit7' => Pulse(g), ~line' => Read', FrameOK(g)'
    PROVE  Token'
<1>1. /\ DOMAIN stack' = DOMAIN stack /\ Depth \in DOMAIN stack /\ stack'[Depth] = g
      /\ \A i \in DOMAIN stack : i # Depth => stack'[i] = stack[i]
      /\ stack[Depth].irq = 1 /\ stack[Depth].at = from
  BY MovedFrames
<1>2. Busy(stack[Depth])
  BY <1>1 DEF Busy, Early, Pulse
<1>3. \A i \in DOMAIN stack' : Busy(stack'[i]) => i = Depth
  BY <1>1, <1>2 DEF Token, Alone
<1>4. Alone'
  BY <1>3 DEF Alone
<1>5. ASSUME NEW i \in DOMAIN stack' PROVE FrameOK(stack[i])'
  <2>1. CASE i = Depth
    BY <1>1, <2>1 DEF FrameOK, Early, Pulse
  <2>2. CASE i # Depth
    BY <1>3, <2>2 DEF FrameOK, Busy, Early, Pulse
  <2> QED BY <2>1, <2>2
<1>6. bit7' => \E i \in DOMAIN stack' : Pulse(stack'[i])
  BY <1>1
<1>7. \A i \in DOMAIN stack' : FrameOK(stack[i])'
  BY <1>5
<1> QED BY <1>4, <1>6, <1>7 DEF Token, Pulse

\* What Token says of the running frame.
LEMMA TopOK ==
    ASSUME TypeOK, Token, NEW irq, NEW at, At(irq, at)
    PROVE  FrameOK(Top) /\ Top.irq = irq /\ Top.at = at
<1>1. Depth \in 1 .. Depth /\ Top = stack[Depth] /\ Top.irq = irq /\ Top.at = at
  BY TopAt
<1>2. Depth \in DOMAIN stack
  BY <1>1, DepthNat
<1>3. FrameOK(stack[Depth])
  BY <1>2 DEF Token
<1> QED BY <1>1, <1>3

\* Until a race happens there is one acknowledge under way at most, and the line
\* is high until its pulse.
LEMMA TokenStep ==
    ASSUME TypeOK, TypeOK', [Next]_vars, Token, ~raced'
    PROVE  Token'
<1>1. ASSUME stack' = stack
      PROVE  /\ \A i \in DOMAIN stack : Busy(stack[i]) => i \in DOMAIN stack' /\ stack'[i] = stack[i]
             /\ \A i \in DOMAIN stack' : Busy(stack'[i]) => i \in DOMAIN stack /\ stack'[i] = stack[i]
  BY <1>1
<1>2. ASSUME NEW irq, NEW from, NEW g, Moved(irq, from, g), ~Busy(Top), ~Busy(g)
      PROVE  /\ \A i \in DOMAIN stack : Busy(stack[i]) => i \in DOMAIN stack' /\ stack'[i] = stack[i]
             /\ \A i \in DOMAIN stack' : Busy(stack'[i]) => i \in DOMAIN stack /\ stack'[i] = stack[i]
  <2>1. /\ DOMAIN stack' = DOMAIN stack /\ Depth \in DOMAIN stack /\ stack'[Depth] = g
        /\ \A i \in DOMAIN stack : i # Depth => stack'[i] = stack[i]
        /\ stack[Depth] = Top
    BY <1>2, MovedFrames
  <2> QED BY <1>2, <2>1
<1>4. CASE InjectScancode
  <2>1. stack' = stack /\ pending' = pending /\ emu' = emu /\ bit7' = bit7 /\ reads' = reads
    BY <1>4 DEF InjectScancode, Inject, pic
  <2>2. CASE line
    <3>1. UNCHANGED <<latch, line, ui>>
      BY <1>4, <2>2 DEF InjectScancode, Inject
    <3> QED BY <1>1, <2>1, <3>1, CalmStep
  <2>3. CASE ~line
    <3>1. line' = TRUE /\ ui' = "assert" /\ raced' = (raced \/ bit7)
      BY <1>4, <2>3 DEF InjectScancode, Inject
    <3>2. ~Signal /\ ~bit7
      BY <2>3, <3>1 DEF Token
    <3>3. \A i \in DOMAIN stack : ~Busy(stack[i])
      BY <2>3, <3>2 DEF Token, FrameOK, Busy
    <3>4. OneSignal' /\ line' /\ ~bit7'
      BY <2>1, <3>1, <3>2 DEF Signal, OneSignal
    <3>5. \A i \in DOMAIN stack' : ~Busy(stack'[i])
      BY <2>1, <3>3
    <3>6. Alone' /\ \A i \in DOMAIN stack' : FrameOK(stack[i])'
      BY <3>5 DEF Alone, FrameOK, Busy, Early, Pulse
    <3> QED BY <3>4, <3>6 DEF Token
  <2> QED BY <2>2, <2>3
<1>5. CASE InjectAssert \/ AckAssert
  <2>1. stack' = stack /\ UNCHANGED <<line, bit7, latch, reads>>
    BY <1>5 DEF InjectAssert, AckAssert, devices
  <2>2. Signal /\ OneSignal /\ line
    BY <1>5 DEF InjectAssert, AckAssert, Signal, Token
  <2>3. \A i \in DOMAIN stack : ~Busy(stack[i])
    BY <2>2 DEF Token, FrameOK, Busy
  <2>4. ~bit7
    BY <2>3 DEF Token, Busy
  <2>5. OneSignal'
    <3>1. CASE InjectAssert
      BY <2>2, <3>1 DEF InjectAssert, AssertIrq, OneSignal, Signal
    <3>2. CASE AckAssert
      BY <2>2, <3>2 DEF AckAssert, AssertIrq, OneSignal, Signal
    <3> QED BY <1>5, <3>1, <3>2
  <2>6. \A i \in DOMAIN stack' : ~Busy(stack'[i])
    BY <2>1, <2>3
  <2>7. Alone' /\ \A i \in DOMAIN stack' : FrameOK(stack[i])'
    BY <2>6 DEF Alone, FrameOK, Busy, Early, Pulse
  <2> QED BY <2>1, <2>2, <2>4, <2>5, <2>7 DEF Token
<1>6. CASE OnTick
  <2>1. stack' = stack /\ UNCHANGED <<line, bit7, latch, reads, ui, emu>>
    BY <1>6 DEF OnTick, devices
  <2>2. 1 \in pending' <=> 1 \in pending
    BY <1>6 DEF OnTick, AssertIrq
  <2> QED BY <1>1, <2>1, <2>2, CalmStep
<1>7. CASE DeliverInterrupt
  <2>1. Push(Delivered) /\ Delivered \in Frame
    BY <1>7, DeliverMoves
  <2>2. /\ Delivered.irq = DequeueNextVector /\ Delivered.at = "sti" /\ emu = "poll" /\ emu' = "poll"
        /\ pending' = pending \ {DequeueNextVector} /\ DequeueNextVector \in pending
        /\ UNCHANGED <<line, bit7, latch, reads, ui>>
    BY <1>7, DeliverMoves DEF devices, history
  <2>3. PICK n : /\ DOMAIN stack' = DOMAIN stack \cup {n} /\ n \notin DOMAIN stack /\ stack'[n] = Delivered
                 /\ \A i \in DOMAIN stack : stack'[i] = stack[i]
    BY <2>1, PushedFrames
  <2>4. CASE DequeueNextVector # 1
    <3>1. ~Busy(Delivered)
      BY <2>2, <2>4 DEF Busy, Early, Pulse
    <3>2. /\ \A i \in DOMAIN stack : Busy(stack[i]) => i \in DOMAIN stack' /\ stack'[i] = stack[i]
          /\ \A i \in DOMAIN stack' : Busy(stack'[i]) => i \in DOMAIN stack /\ stack'[i] = stack[i]
      BY <2>3, <3>1
    <3>3. (1 \in pending' <=> 1 \in pending) /\ (emu' = "assert" <=> emu = "assert")
      BY <2>2, <2>4
    <3> QED BY <2>2, <3>2, <3>3, CalmStep
  <2>5. CASE DequeueNextVector = 1
    <3>1. Signal /\ 1 \in pending /\ line /\ 1 \notin pending'
      BY <2>2, <2>5 DEF Signal, Token
    <3>2. ui # "assert" /\ ~Signal'
      BY <2>2, <3>1 DEF Signal, Token, OneSignal
    <3>3. \A i \in DOMAIN stack : ~Busy(stack[i])
      BY <3>1 DEF Token, FrameOK, Busy
    <3>4. ~bit7
      BY <3>3 DEF Token, Busy
    <3>5. \A i \in DOMAIN stack' : i # n => ~Busy(stack'[i])
      BY <2>3, <3>3
    <3>6. Alone'
      BY <3>5 DEF Alone
    <3>7. ASSUME NEW i \in DOMAIN stack' PROVE FrameOK(stack[i])'
      <4>1. CASE i = n
        <5>1. stack'[i].at = "sti"
          BY <2>2, <2>3, <4>1
        <5> QED BY <2>2, <3>1, <3>2, <3>4, <5>1 DEF FrameOK, Early, Pulse
      <4>2. CASE i # n
        BY <3>5, <4>2 DEF FrameOK, Busy, Early, Pulse
      <4> QED BY <4>1, <4>2
    <3>8. OneSignal' /\ (Signal' => line') /\ ~bit7' /\ line'
      BY <2>2, <3>1, <3>2, <3>4 DEF Signal, OneSignal
    <3>9. \A i \in DOMAIN stack' : FrameOK(stack[i])'
      BY <3>7
    <3> QED BY <3>6, <3>8, <3>9 DEF Token
  <2> QED BY <2>4, <2>5
<1>8. CASE PollNothing \/ MainStep \/ SetMask
  <2>1. stack' = stack /\ UNCHANGED <<line, bit7, latch, reads, ui, pending>> /\ emu # "assert" /\ emu' # "assert"
    BY <1>8 DEF PollNothing, MainStep, SetMask, devices, pic, history
  <2> QED BY <1>1, <2>1, CalmStep
<1>9. CASE IsrEnter
  <2>1. UNCHANGED <<line, bit7, latch, reads, ui, pending>> /\ emu' = "poll"
    BY <1>9, IsrEnterMoves DEF devices, pic, history
  <2>2. PICK g : (Moved(0, "sti", g) /\ g.at = "iret") \/ (Moved(1, "sti", g) /\ g.at = "in60")
    BY <1>9, IsrEnterMoves
  <2>3. CASE Moved(0, "sti", g) /\ g.at = "iret"
    <3>1. ~Busy(Top) /\ ~Busy(g) /\ emu = "step"
      BY <2>3, MovedFrames DEF Busy, Early, Pulse
    <3> QED BY <1>2, <2>1, <2>3, <3>1, CalmStep
  <2>4. CASE Moved(1, "sti", g) /\ g.at = "in60"
    <3>1. FrameOK(Top) /\ Top.irq = 1 /\ Top.at = "sti" /\ emu = "step" /\ g.irq = 1
      BY <2>4, TopOK, MovedFrames DEF Moved
    <3>2. line /\ ~bit7 /\ ~Signal
      BY <3>1 DEF FrameOK, Early
    <3>3. ~Signal' /\ OneSignal' /\ line' /\ ~bit7'
      BY <2>1, <3>2 DEF Signal, OneSignal
    <3>4. FrameOK(g)'
      BY <2>4, <3>3 DEF FrameOK, Early, Pulse
    <3> QED BY <2>4, <3>3, <3>4, BusyStep
  <2> QED BY <2>2, <2>3, <2>4
<1>10. CASE Dequeue60
  <2>1. UNCHANGED <<line, bit7, latch, ui, pending>> /\ emu' = "poll" /\ reads' = Append(reads, latch)
    BY <1>10, Dequeue60Moves DEF devices, pic
  <2>2. PICK g : Moved(1, "in60", g) /\ g.at = "in61"
    BY <1>10, Dequeue60Moves
  <2>3. FrameOK(Top) /\ Top.irq = 1 /\ Top.at = "in60" /\ emu = "step" /\ g.irq = 1
    BY <2>2, TopOK, MovedFrames DEF Moved
  <2>4. line /\ ~bit7 /\ ~Signal
    BY <2>3 DEF FrameOK, Early
  <2>5. ~Signal' /\ OneSignal' /\ line' /\ ~bit7'
    BY <2>1, <2>4 DEF Signal, OneSignal
  <2>6. Read'
    <3>1. In(latch, reads')
      BY <2>1, InAppend DEF TypeOK
    <3> QED BY <2>1, <3>1 DEF Read
  <2>7. FrameOK(g)'
    BY <2>2, <2>5, <2>6 DEF FrameOK, Early, Pulse
  <2> QED BY <2>2, <2>5, <2>7, BusyStep
<1>11. CASE In61
  <2>1. UNCHANGED <<line, bit7, latch, reads, ui, pending>> /\ emu' = "poll"
    BY <1>11, In61Moves DEF devices, pic, history
  <2>2. PICK g : Moved(1, "in61", g) /\ g.at = "high" /\ g.saved = bit7
    BY <1>11, In61Moves
  <2>3. FrameOK(Top) /\ Top.irq = 1 /\ Top.at = "in61" /\ emu = "step" /\ g.irq = 1
    BY <2>2, TopOK, MovedFrames DEF Moved
  <2>4. line /\ ~bit7 /\ ~Signal /\ Read
    BY <2>3 DEF FrameOK, Early
  <2>5. ~Signal' /\ OneSignal' /\ line' /\ ~bit7' /\ Read'
    BY <2>1, <2>4 DEF Signal, OneSignal, Read
  <2>6. FrameOK(g)'
    BY <2>2, <2>4, <2>5 DEF FrameOK, Early, Pulse
  <2> QED BY <2>2, <2>5, <2>6, BusyStep
<1>12. CASE AckHigh
  <2>1. UNCHANGED <<latch, reads, ui, pending>> /\ emu' = "poll" /\ bit7' = TRUE /\ line' = (line /\ bit7)
    BY <1>12, AckHighMoves DEF pic, history
  <2>2. PICK g : Moved(1, "high", g) /\ g.at = "low" /\ g.saved = Top.saved
    BY <1>12, AckHighMoves
  <2>3. FrameOK(Top) /\ Top.irq = 1 /\ Top.at = "high" /\ emu = "step" /\ g.irq = 1
    BY <2>2, TopOK, MovedFrames DEF Moved
  <2>4. ~bit7 /\ ~Signal /\ Read /\ ~Top.saved
    BY <2>3 DEF FrameOK, Early
  <2>5. ~Signal' /\ OneSignal' /\ ~line' /\ bit7' /\ Read'
    BY <2>1, <2>4 DEF Signal, OneSignal, Read
  <2>6. FrameOK(g)' /\ Pulse(g)
    BY <2>2, <2>3, <2>4, <2>5 DEF FrameOK, Early, Pulse
  <2> QED BY <2>2, <2>5, <2>6, BusyStep
<1>13. CASE AckLow
  <2>1. UNCHANGED <<reads, ui, pending>>
    BY <1>13, AckLowMoves DEF pic, history
  <2>2. PICK g : Moved(1, "low", g) /\ g.at = "stuff"
    BY <1>13, AckLowMoves
  <2>3. FrameOK(Top) /\ Top.irq = 1 /\ Top.at = "low" /\ emu = "step"
    BY <2>2, TopOK, MovedFrames DEF Moved
  <2>4. ~line /\ ~Signal /\ Read /\ ~Top.saved
    BY <2>3 DEF FrameOK, Pulse, Token
  <2>5. ~bit7'
    BY <1>13, <2>4, AckLowFacts
  <2>6. FrameOK(g)'
    BY <2>2 DEF FrameOK, Early, Pulse
  <2>7. OneSignal' /\ (Signal' => line') /\ (~line' => Read')
    <3>1. CASE Latches
      <4>1. line' = TRUE /\ emu' = "assert"
        BY <1>13, <3>1, AckLowFacts
      <4> QED BY <2>1, <2>4, <4>1 DEF Signal, OneSignal
    <3>2. CASE ~Latches
      <4>1. latch' = latch /\ emu' = "poll"
        BY <1>13, <3>2, AckLowFacts
      <4> QED BY <2>1, <2>4, <4>1 DEF Signal, OneSignal, Read
    <3> QED BY <3>1, <3>2
  <2> QED BY <2>2, <2>5, <2>6, <2>7, BusyStep
<1>14. CASE StuffKeyboardBuffer
  <2>1. UNCHANGED <<line, bit7, latch, reads, ui, pending>> /\ emu' = "poll"
    BY <1>14, StuffMoves DEF devices, pic
  <2>2. PICK g : Moved(1, "stuff", g) /\ g.at = "iret"
    BY <1>14, StuffMoves
  <2>3. ~Busy(Top) /\ ~Busy(g) /\ emu = "step"
    BY <2>2, MovedFrames DEF Busy, Early, Pulse
  <2> QED BY <1>2, <2>1, <2>2, <2>3, CalmStep
<1>15. CASE Iret
  <2>1. /\ DOMAIN stack' = DOMAIN stack \ {Depth} /\ Depth \in DOMAIN stack
        /\ \A i \in DOMAIN stack' : stack'[i] = stack[i]
        /\ stack[Depth].at = "iret" /\ emu = "step" /\ emu' = "poll"
    BY <1>15, PoppedFrames
  <2>2. UNCHANGED <<line, bit7, latch, reads, ui, pending>>
    BY <1>15, PoppedFrames DEF devices, pic, history
  <2>3. ~Busy(stack[Depth])
    BY <2>1 DEF Busy, Early, Pulse
  <2>4. /\ \A i \in DOMAIN stack : Busy(stack[i]) => i \in DOMAIN stack' /\ stack'[i] = stack[i]
        /\ \A i \in DOMAIN stack' : Busy(stack'[i]) => i \in DOMAIN stack /\ stack'[i] = stack[i]
    BY <2>1, <2>3
  <2> QED BY <2>1, <2>2, <2>4, CalmStep
<1>16. CASE UNCHANGED vars
  <2>1. stack' = stack /\ UNCHANGED <<line, bit7, latch, reads, ui, pending, emu>>
    BY <1>16 DEF vars
  <2> QED BY <1>1, <2>1, CalmStep
<1> QED BY <1>4, <1>5, <1>6, <1>7, <1>8, <1>9, <1>10, <1>11, <1>12, <1>13, <1>14, <1>15, <1>16
        DEF Next, Emulator

RaceInv ==
    /\ OrderInv
    /\ sti \/ PulseOnly
    /\ raced \/ (Token /\ NothingLost)
    /\ (sti /\ raced) \/ masked \/ KeyboardNotStuck

\* raced stays set, and sti never changes.
LEMMA FlagsKept == [Next]_vars => (raced => raced') /\ sti' = sti
<1> SUFFICES ASSUME [Next]_vars PROVE (raced => raced') /\ sti' = sti
    OBVIOUS
<1>1. CASE InjectScancode
  BY <1>1 DEF InjectScancode, Inject
<1>2. CASE ~InjectScancode
  BY <1>2 DEF Next, Emulator, InjectAssert, OnTick, DeliverInterrupt, PollNothing,
           IsrEnter, Dequeue60, In61, AckHigh, AckLow, FallingEdge, AckAssert, StuffKeyboardBuffer,
           Iret, MainStep, SetMask, history, vars
<1> QED BY <1>1, <1>2

\* InjectScancode can harm the keyboard only between the two edges of the
\* acknowledge pulse: a run without a scancode latched there loses none, and
\* the line is left high with nobody to lower it only after such a race in a
\* nested handler or after a masked edge.
THEOREM RacesOnlyInPulse == Spec => []OnlyThePulseRaces
<1>1. Init => RaceInv
  <2> SUFFICES ASSUME Init PROVE RaceInv
      OBVIOUS
  <2>1. OrderInv
    BY InitOrder
  <2>2. /\ stack = <<>> /\ pending = {} /\ ui = "idle" /\ emu = "poll" /\ latch = 0
        /\ ~line /\ ~bit7 /\ injected = 0
    BY DEF Init
  <2>3. DOMAIN stack = {} /\ ~Signal
    BY <2>2, EmptySeq DEF Signal
  <2>4. PulseOnly
    BY <2>2, <2>3 DEF PulseOnly
  <2>5. Token
    BY <2>2, <2>3 DEF Token, Alone, OneSignal, Read, Signal
  <2>6. NothingLost
    BY <2>2 DEF NothingLost
  <2> QED BY <2>1, <2>2, <2>4, <2>5, <2>6 DEF RaceInv, KeyboardNotStuck
<1>2. RaceInv /\ [Next]_vars => RaceInv'
  <2> SUFFICES ASSUME RaceInv, [Next]_vars PROVE RaceInv'
      OBVIOUS
  <2>1. TypeOK /\ OrderInv /\ OrderInv' /\ TypeOK'
    BY OrderStep DEF RaceInv, OrderInv
  <2>2. (raced => raced') /\ sti' = sti
    BY FlagsKept
  <2>3. ~sti => OneFrame
    <3> SUFFICES ASSUME ~sti PROVE OneFrame
        OBVIOUS
    <3>1. Depth <= 1 /\ Depth \in Nat /\ DOMAIN stack = 1 .. Depth
      BY <2>1, DepthNat DEF OrderInv, StoreOrder
    <3> QED BY <3>1 DEF OneFrame
  <2>4. sti \/ PulseOnly'
    BY <2>1, <2>3, PulseOnlyStep DEF RaceInv
  <2>5. ASSUME ~raced' PROVE Token' /\ NothingLost'
    <3>1. Token /\ NothingLost
      BY <2>2, <2>5 DEF RaceInv
    <3>2. Token'
      BY <2>1, <2>5, <3>1, TokenStep
    <3>3. ASSUME At(1, "low") PROVE ~line
      <4>1. FrameOK(Top) /\ Top.irq = 1 /\ Top.at = "low"
        BY <2>1, <3>1, <3>3, TopOK
      <4> QED BY <4>1 DEF FrameOK, Pulse
    <3>4. ~line \/ At(1, "low") => Read
      BY <3>1, <3>3 DEF Token
    <3> QED BY <2>1, <3>1, <3>2, <3>4, LostStep
  <2>6. ASSUME ~(sti /\ raced) PROVE (masked \/ KeyboardNotStuck)'
    <3>1. masked \/ KeyboardNotStuck
      BY <2>6 DEF RaceInv
    <3>2. ASSUME At(1, "high") PROVE ~bit7
      <4>1. CASE ~sti
        BY <2>1, <2>3, <3>2, <4>1, OneFrameTop DEF RaceInv
      <4>2. CASE ~raced
        <5>1. FrameOK(Top) /\ Top.irq = 1 /\ Top.at = "high"
          BY <2>1, <3>2, <4>2, TopOK DEF RaceInv
        <5> QED BY <5>1 DEF FrameOK, Early
      <4> QED BY <2>6, <4>1, <4>2
    <3> QED BY <2>1, <3>1, <3>2, StuckStep
  <2> QED BY <2>1, <2>2, <2>4, <2>5, <2>6 DEF RaceInv
<1>3. RaceInv => OnlyThePulseRaces
  BY DEF RaceInv, OnlyThePulseRaces
<1> QED BY <1>1, <1>2, <1>3, PTL DEF Spec
=============================================================================
