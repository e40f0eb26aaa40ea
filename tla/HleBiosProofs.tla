--------------------------- MODULE HleBiosProofs ---------------------------
(***************************************************************************)
(* Proofs about the two services of the HLE BIOS that share the BIOS data   *)
(* area with another thread.  HleKeyboard, for every set of keys and every  *)
(* ring size: the ring implements the bounded queue, and the blocking read  *)
(* returns a key.  PcClock, for every length of the day and every           *)
(* interleaving of byte accesses: the BDA mirrors the PIT's counter, only a *)
(* carry tears a guest's read of it, and INT 1Ah reports a midnight once.   *)
(***************************************************************************)
EXTENDS HleKeyboard, PcClock, SequenceTheorems, TLAPS

\* The emulator thread is the only consumer, so once the runner has seen a
\* keystroke it is still there when INT 16h is dispatched.
ReadHasKey == cpu = "read" => ~IsEmpty

\* Every queued slot holds a keystroke.
QueuedAreKeys == \A i \in 1 .. Count : ring[SlotOf(i)] \in Key

IInv == TypeOK /\ ReadHasKey /\ QueuedAreKeys /\ ReadReturnsKey

\* Advance stays inside the ring.
LEMMA AdvanceType == \A s \in Slot : Advance(s) \in Slot
  BY RingAssumption DEF Advance, Slot

\* The queue has between 0 and RingSize - 1 entries, none exactly when the
\* ring is empty and RingSize - 1 exactly when it is full.
LEMMA CountRange ==
  ASSUME head \in Slot, tail \in Slot
  PROVE  /\ Count \in 0 .. RingSize - 1
         /\ IsEmpty <=> Count = 0
         /\ Full <=> Count = RingSize - 1
  BY RingAssumption DEF Count, IsEmpty, Full, Advance, Slot

\* Positions of the queue lie in distinct slots, none of which is the tail.
LEMMA SlotsDistinct ==
  ASSUME head \in Slot, tail \in Slot, NEW i \in 1 .. Count
  PROVE  SlotOf(i) \in Slot /\ SlotOf(i) # tail
  BY RingAssumption DEF Count, SlotOf, Slot

\* Appending: one entry more, in the old tail slot; the others do not move.
LEMMA EnqueueShape ==
  ASSUME TypeOK, NEW k \in Key, Enqueue(k)
  PROVE  /\ Count' = Count + 1
         /\ Contents'[Count + 1] = k
         /\ \A i \in 1 .. Count : Contents'[i] = Contents[i]
         /\ Contents' = [i \in 1 .. Count + 1 |-> Contents'[i]]
<1>1. head' = head /\ head \in Slot /\ tail \in Slot /\ tail' = Advance(tail) /\ ~Full
  BY DEF Enqueue, TypeOK
<1>2. Count' = Count + 1
  BY <1>1, RingAssumption DEF Count, Full, Advance, Slot
<1>3. Count \in 0 .. RingSize - 1
  BY <1>1, CountRange
<1>4. \A i \in 1 .. Count + 1 : SlotOf(i)' = SlotOf(i)
  BY <1>1 DEF SlotOf
<1>5. SlotOf(Count + 1) = tail
  BY <1>1, RingAssumption DEF SlotOf, Count, Slot
<1>6. ring' = [ring EXCEPT ![tail] = k] /\ ring \in [Slot -> Key \cup {None}]
  BY DEF Enqueue, TypeOK
<1>7. Contents' = [i \in 1 .. Count + 1 |-> ring'[SlotOf(i)']]
  BY <1>2 DEF Contents
<1>8. Contents'[Count + 1] = k
  BY <1>1, <1>3, <1>4, <1>5, <1>6, <1>7
<1>9. \A i \in 1 .. Count : Contents'[i] = Contents[i]
  <2> TAKE i \in 1 .. Count
  <2>1. SlotOf(i) \in Slot /\ SlotOf(i) # tail
    BY <1>1, SlotsDistinct
  <2>2. ring'[SlotOf(i)] = ring[SlotOf(i)]
    BY <2>1, <1>6
  <2>3. Contents[i] = ring[SlotOf(i)]
    BY DEF Contents
  <2>4. i \in 1 .. Count + 1
    BY <1>3
  <2> QED BY <2>2, <2>3, <2>4, <1>4, <1>7
<1> QED BY <1>2, <1>7, <1>8, <1>9

\* Taking: one entry fewer, and every other entry moves up by one.
LEMMA DequeueShape ==
  ASSUME TypeOK, ~IsEmpty, head' = Advance(head), UNCHANGED <<tail, ring>>
  PROVE  /\ Count' = Count - 1
         /\ Contents' = [i \in 1 .. Count - 1 |-> Contents[i + 1]]
<1>1. head \in Slot /\ tail \in Slot /\ tail' = tail /\ ring' = ring /\ head # tail
  BY DEF TypeOK, IsEmpty
<1>2. Count' = Count - 1
  BY <1>1, RingAssumption DEF Count, Advance, Slot
<1>3. Count \in 1 .. RingSize - 1
  BY <1>1, CountRange DEF IsEmpty
<1>4. \A i \in 1 .. Count - 1 : SlotOf(i)' = SlotOf(i + 1)
  BY <1>1, <1>3, RingAssumption DEF SlotOf, Advance, Slot
<1>5. \A i \in 1 .. Count - 1 : Contents[i + 1] = ring[SlotOf(i + 1)]
  BY <1>3 DEF Contents
<1>6. Contents' = [i \in 1 .. Count - 1 |-> ring[SlotOf(i)']]
  BY <1>1, <1>2 DEF Contents
<1> QED BY <1>2, <1>4, <1>5, <1>6

\* The queue is a sequence of keystrokes of length Count.
LEMMA ContentsSeq ==
  ASSUME TypeOK, QueuedAreKeys
  PROVE  Contents \in Seq(Key) /\ Len(Contents) = Count
<1>1. Count \in Nat
  BY CountRange, RingAssumption DEF TypeOK
<1>2. Contents \in [1 .. Count -> Key]
  BY DEF Contents, QueuedAreKeys
<1> QED BY <1>1, <1>2

\* The invariant holds initially.
LEMMA InitInv == Init => IInv
<1> SUFFICES ASSUME Init PROVE IInv
  OBVIOUS
<1>1. TypeOK
  <2>1. head \in Slot /\ tail \in Slot
    BY RingAssumption DEF Init, Slot
  <2>2. ring \in [Slot -> Key \cup {None}]
    BY DEF Init
  <2>3. ret \in [ah : {0, 1, 2}, key : Key \cup {None}, zf : BOOLEAN]
    BY DEF Init
  <2> QED BY <2>1, <2>2, <2>3 DEF Init, TypeOK
<1>2. Count = 0
  BY DEF Init, Count
<1> QED BY <1>1, <1>2 DEF Init, IInv, ReadHasKey, QueuedAreKeys, ReadReturnsKey

\* Enqueue keeps the invariant: the new slot holds a keystroke.
LEMMA EnqueueInv ==
  ASSUME IInv, NEW k \in Key, Enqueue(k)
  PROVE  IInv'
<1>1. TypeOK'
  BY AdvanceType DEF IInv, TypeOK, Enqueue
<1>2. /\ Count' = Count + 1
      /\ Contents'[Count + 1] = k
      /\ \A i \in 1 .. Count : Contents'[i] = Contents[i]
  BY EnqueueShape DEF IInv
<1>3. \A i \in 1 .. Count : Contents[i] \in Key
  BY DEF IInv, QueuedAreKeys, Contents
<1>4. Count \in Nat
  BY CountRange, RingAssumption DEF IInv, TypeOK
<1>5. \A i \in 1 .. Count + 1 : Contents'[i] \in Key
  BY <1>2, <1>3, <1>4
<1>6. \A i \in 1 .. Count' : Contents'[i] = ring'[SlotOf(i)']
  BY DEF Contents
<1>7. QueuedAreKeys'
  BY <1>2, <1>5, <1>6 DEF QueuedAreKeys
<1>8. ~IsEmpty'
  BY <1>1, <1>2, <1>4, CountRange, RingAssumption DEF TypeOK, IsEmpty, Count, Slot
<1>9. ReadHasKey' /\ ReadReturnsKey'
  BY <1>8 DEF IInv, ReadHasKey, ReadReturnsKey, Enqueue
<1> QED BY <1>1, <1>7, <1>9 DEF IInv

\* The blocking read keeps the invariant: it finds the ring non-empty.
LEMMA ReadInv ==
  ASSUME IInv, ReadChar
  PROVE  IInv'
<1>1. ~IsEmpty /\ head' = Advance(head) /\ UNCHANGED <<tail, ring>>
  BY DEF IInv, ReadHasKey, ReadChar
<1>2. Peek \in Key
  <2>1. 1 \in 1 .. Count
    BY <1>1, CountRange, RingAssumption DEF IInv, TypeOK
  <2>2. SlotOf(1) = head
    BY RingAssumption DEF SlotOf, IInv, TypeOK, Slot
  <2> QED BY <1>1, <2>1, <2>2 DEF IInv, QueuedAreKeys, Peek
<1>3. TypeOK'
  BY <1>1, <1>2, AdvanceType DEF IInv, TypeOK, ReadChar, SimulateIret
<1>4. Count' = Count - 1 /\ Contents' = [i \in 1 .. Count - 1 |-> Contents[i + 1]]
  BY <1>1, DequeueShape DEF IInv
<1>5. Count \in Nat
  BY CountRange, RingAssumption DEF IInv, TypeOK
<1>6. \A i \in 1 .. Count : Contents[i] \in Key
  BY DEF IInv, QueuedAreKeys, Contents
<1>7. \A i \in 1 .. Count' : Contents'[i] \in Key
  BY <1>4, <1>5, <1>6
<1>8. \A i \in 1 .. Count' : Contents'[i] = ring'[SlotOf(i)']
  BY DEF Contents
<1>9. QueuedAreKeys'
  BY <1>7, <1>8 DEF QueuedAreKeys
<1>10. ReadHasKey' /\ ReadReturnsKey'
  BY <1>2, RingAssumption DEF ReadHasKey, ReadReturnsKey, ReadChar, SimulateIret
<1> QED BY <1>3, <1>9, <1>10 DEF IInv

\* The other steps leave the ring alone.
LEMMA QuietInv ==
  ASSUME IInv, \/ DeliverIrq1 \/ (\E ah \in {0, 1} : Int16(ah)) \/ LeaveWait \/ PeekChar
               \/ EnqueueFull \/ UNCHANGED vars
  PROVE  IInv' /\ UNCHANGED keyboard
<1>1. UNCHANGED keyboard
  BY DEF DeliverIrq1, Int16, LeaveWait, PeekChar, EnqueueFull, vars, keyboard
<1>2. head' = head /\ tail' = tail /\ ring' = ring
  BY <1>1 DEF keyboard
<1>3. QueuedAreKeys'
  BY <1>2 DEF IInv, QueuedAreKeys, Count, SlotOf
<1>4. IsEmpty' = IsEmpty
  BY <1>2 DEF IsEmpty
<1>5. Peek \in Key \cup {None}
  BY DEF Peek, IInv, TypeOK
<1>6. TypeOK' /\ ReadHasKey' /\ ReadReturnsKey'
  <2>1. CASE DeliverIrq1
    BY <2>1, <1>2, <1>4 DEF IInv, TypeOK, ReadHasKey, ReadReturnsKey, DeliverIrq1
  <2>2. ASSUME NEW ah \in {0, 1}, Int16(ah) PROVE TypeOK' /\ ReadHasKey' /\ ReadReturnsKey'
    BY <2>2, <1>2, <1>4 DEF IInv, TypeOK, ReadHasKey, ReadReturnsKey, Int16
  <2>3. CASE LeaveWait
    BY <2>3, <1>2, <1>4 DEF IInv, TypeOK, ReadHasKey, ReadReturnsKey, LeaveWait
  <2>4. CASE PeekChar
    <3>1. ret' = [ah |-> 1, key |-> Peek, zf |-> savedZF] /\ cpu' = "run"
      BY <2>4 DEF PeekChar, SimulateIret
    <3>2. ret' \in [ah : {0, 1, 2}, key : Key \cup {None}, zf : BOOLEAN] /\ ret'.ah = 1
      BY <3>1, <1>5 DEF IInv, TypeOK
    <3> QED BY <2>4, <1>2, <3>1, <3>2 DEF IInv, TypeOK, ReadHasKey, ReadReturnsKey, PeekChar
  <2>5. CASE UNCHANGED vars
    BY <2>5, <1>2, <1>4 DEF IInv, TypeOK, ReadHasKey, ReadReturnsKey, vars
  <2> QED BY <2>1, <2>2, <2>3, <2>4, <2>5 DEF EnqueueFull
<1> QED BY <1>1, <1>3, <1>6 DEF IInv

\* The inductive invariant holds in every reachable state.
THEOREM Invariance == Spec => []IInv
<1>1. IInv /\ [Next]_vars => IInv'
  <2> SUFFICES ASSUME IInv, [Next]_vars PROVE IInv'
    OBVIOUS
  <2>1. CASE \E k \in Key : Enqueue(k)
    BY <2>1, EnqueueInv
  <2>2. CASE ReadChar
    BY <2>2, ReadInv
  <2> QED BY <2>1, <2>2, QuietInv DEF Next, Emulator
<1> QED BY <1>1, InitInv, PTL DEF Spec

\* Ring, flags and INT 16h results keep their types, the two offsets staying
\* inside the ring, for every ring size.
THEOREM TypeCorrect == Spec => []TypeOK
<1>1. IInv => TypeOK
  BY DEF IInv
<1> QED BY <1>1, Invariance, PTL

\* The blocking INT 16h read never returns (0, 0), because nobody but the
\* emulator thread takes from the ring between its check and the dispatch.
THEOREM BlockingReadReturnsKey == Spec => []ReadReturnsKey
<1>1. IInv => ReadReturnsKey
  BY DEF IInv
<1> QED BY <1>1, Invariance, PTL

\* The ring of RingSize entries with its two offsets implements the queue of
\* RingSize - 1 keystrokes: every step of the UI thread and of the emulator
\* thread is a Put, a Take or invisible.
THEOREM RingImplementsQueue == Spec => ImplementsQueue
<1>1. Init => Queue!Init
  <2> SUFFICES ASSUME Init PROVE Contents = <<>>
    BY DEF Queue!Init
  <2>1. Count = 0
    BY DEF Init, Count
  <2> QED BY <2>1 DEF Contents
<1>2. IInv /\ [Next]_vars => [Queue!Next]_Contents
  <2> SUFFICES ASSUME IInv, [Next]_vars PROVE Queue!Next \/ UNCHANGED Contents
    OBVIOUS
  <2>1. Contents \in Seq(Key) /\ Len(Contents) = Count
    BY ContentsSeq DEF IInv
  <2>2. head \in Slot /\ tail \in Slot /\ Count \in Nat
    BY CountRange, RingAssumption DEF IInv, TypeOK
  <2>3. ASSUME NEW k \in Key, Enqueue(k) PROVE Queue!Next
    <3>1. Len(Contents) < RingSize - 1
      BY <2>1, <2>2, <2>3, CountRange, RingAssumption DEF Enqueue
    <3>2. /\ \A i \in 1 .. Count + 1 : Contents'[i] = IF i <= Count THEN Contents[i] ELSE k
          /\ Contents' = [i \in 1 .. Count + 1 |-> Contents'[i]]
      BY <2>2, <2>3, EnqueueShape DEF IInv
    <3>3. Contents' = Append(Contents, k)
      BY <2>1, <2>2, <3>2
    <3> QED BY <3>1, <3>3 DEF Queue!Next, Queue!Put
  <2>4. CASE ReadChar
    <3>1. ~IsEmpty /\ head' = Advance(head) /\ UNCHANGED <<tail, ring>>
      BY <2>4 DEF IInv, ReadHasKey, ReadChar
    <3>2. Contents' = [i \in 1 .. Count - 1 |-> Contents[i + 1]]
      BY <3>1, DequeueShape DEF IInv
    <3>3. Count # 0
      BY <3>1, <2>2, CountRange
    <3>4. Contents # <<>>
      BY <2>1, <3>3
    <3>5. Contents' = Tail(Contents)
      <4>1. /\ Tail(Contents) \in Seq(Key)
            /\ Len(Tail(Contents)) = Count - 1
            /\ \A i \in 1 .. Len(Tail(Contents)) : Tail(Contents)[i] = Contents[i + 1]
        BY <2>1, <3>4, HeadTailProperties
      <4>2. \A i \in 1 .. Count : Contents[i] \in Key
        BY <2>1, ElementOfSeq
      <4>3. Count - 1 \in Nat
        BY <2>2, <3>3
      <4>4. Contents' \in [1 .. Count - 1 -> Key]
        BY <2>2, <3>2, <4>2, <4>3
      <4>5. Contents' \in Seq(Key) /\ Len(Contents') = Count - 1
        BY <4>3, <4>4
      <4>6. \A i \in 1 .. Len(Contents') : Contents'[i] = Tail(Contents)[i]
        BY <3>2, <4>1, <4>3, <4>5
      <4> QED BY <4>1, <4>5, <4>6, SeqEqual
    <3> QED BY <3>4, <3>5 DEF Queue!Next, Queue!Take
  <2>5. ASSUME UNCHANGED keyboard PROVE UNCHANGED Contents
    BY <2>5 DEF keyboard, Contents, Count, SlotOf
  <2> QED BY <2>3, <2>4, <2>5, QuietInv DEF Next, Emulator
<1> QED BY <1>1, <1>2, Invariance, PTL DEF Spec, ImplementsQueue, Queue!Spec

-----------------------------------------------------------------------------
(***************************************************************************)
(* The time of day.  ClockInv says what the BDA holds between any two of    *)
(* OnTick's byte stores and which of its bytes a guest has read.            *)
(***************************************************************************)

\* The tick before this one.
Prev == IF ticks = 0 THEN TicksPerDay - 1 ELSE ticks - 1

\* Which BIOS runs which service.
Services ==
    /\ op \in {"flag", "check", "clear"} => ~realBios
    /\ op \notin {"idle", "flag", "check", "clear", "bdaRead"} => realBios

\* Under the HLE BIOS the BDA is the counter, but for the bytes OnTick has yet
\* to store.
Mirror ==
    ~realBios =>
        /\ bdaRolled = rolled
        /\ \A i \in Cells :
            cell[i] = ByteOf(IF Locked /\ timer <= i THEN Prev ELSE ticks, i)

\* A cell the emulator thread has yet to access.
Pending(i) == \E k \in 1 .. Len(moves) : moves[k] = i

\* A guest that reads the DWORD has bytes of values the counter had.
Reading ==
    ~realBios /\ op = "bdaRead" =>
        /\ ticks \in window /\ (Locked => Prev \in window)
        /\ \A i \in Cells : Pending(i) \/ \E t \in window : reg[i] = ByteOf(t, i)

\* A midnight that the HLE service has yet to report.
Unreported == IF rolled = 1 /\ ~(op \in {"check", "clear"} /\ al = 1) THEN 1 ELSE 0

Days ==
    /\ ticks = total % TicksPerDay
    /\ ~realBios => guestDays + Unreported <= total \div TicksPerDay

\* A midnight that was not flagged inside xor [470h], al is flagged, and that
\* xor has loaded its flag.
Flagged ==
    realBios /\ owed /\ ~crossed => bdaRolled = 1 /\ (op = "xorStore" => xored = 1)

ClockInv == ClockTypeOK /\ Services /\ Mirror /\ Reading /\ Days /\ Flagged

\* What the assumption says, without the product it is stated with.
LEMMA ClockFacts ==
    /\ TicksPerDay \in Nat /\ TicksPerDay >= 1 /\ Base \in Nat /\ Base >= 1 /\ MaxTotal \in Nat
    /\ SetTimes \subseteq Tick
BY ClockAssumption DEF Tick

\* Division with remainder.
LEMMA Split ==
    ASSUME NEW a \in Int, NEW n \in Nat, n >= 1
    PROVE  /\ a \div n \in Int /\ a % n \in Nat /\ a % n < n
           /\ a = n * (a \div n) + (a % n)
           /\ a >= 0 => a \div n >= 0
OBVIOUS

\* That quotient and remainder are the only ones.
LEMMA SplitUnique ==
    ASSUME NEW n \in Nat, n >= 1, NEW q \in Int, NEW r \in Nat, r < n, NEW a, a = n * q + r
    PROVE  a \div n = q /\ a % n = r
<1> DEFINE p == a \div n
           s == a % n
<1>1. a \in Int
  OBVIOUS
<1>2. p \in Int /\ s \in Nat /\ s < n /\ a = n * p + s
  BY <1>1, Split
<1> HIDE DEF p, s
<1>3. n * (p - q) = r - s
  <2>1. n * (p - q) = n * p - n * q
    BY <1>2
  <2> DEFINE x == n * p
             y == n * q
  <2>2. x \in Int /\ y \in Int /\ y + r = x + s /\ n * (p - q) = x - y
    BY <1>2, <2>1
  <2> HIDE DEF x, y
  <2> QED BY <1>2, <2>2
<1>4. p = q
  <2>1. CASE p - q >= 1
    <3>1. n * (p - q) >= n
      BY <1>2, <2>1
    <3> QED BY <1>2, <1>3, <3>1
  <2>2. CASE p - q <= -1
    <3>1. n * (p - q) <= -n
      BY <1>2, <2>2
    <3> QED BY <1>2, <1>3, <3>1
  <2> QED BY <1>2, <2>1, <2>2
<1>5. s = r
  BY <1>2, <1>3, <1>4
<1> QED BY <1>4, <1>5 DEF p, s

\* The tick before, as BdaRead computes it.
LEMMA TickBefore ==
    ASSUME ticks \in Tick
    PROVE  Prev \in Tick /\ (ticks - 1) % TicksPerDay = Prev
<1>1. TicksPerDay \in Nat /\ TicksPerDay >= 1 /\ ticks \in Nat /\ ticks < TicksPerDay
  BY ClockFacts DEF Tick
<1>2. Prev \in Nat /\ Prev < TicksPerDay
  BY <1>1 DEF Prev
<1>3. \E q \in Int : ticks - 1 = TicksPerDay * q + Prev
  <2>1. CASE ticks = 0
    <3>1. ticks - 1 = TicksPerDay * (-1) + Prev
      BY <1>1, <2>1 DEF Prev
    <3> QED BY <3>1
  <2>2. CASE ticks # 0
    <3>1. ticks - 1 = TicksPerDay * 0 + Prev
      BY <1>1, <2>2 DEF Prev
    <3> QED BY <3>1
  <2> QED BY <2>1, <2>2
<1>4. (ticks - 1) % TicksPerDay = Prev
  <2> DEFINE a == ticks - 1
             p == Prev
  <2>1. PICK q \in Int : a = TicksPerDay * q + p
    BY <1>3
  <2>2. p \in Nat /\ p < TicksPerDay
    BY <1>2
  <2> HIDE DEF a, p
  <2>3. a % TicksPerDay = p
    BY <1>1, <2>1, <2>2, SplitUnique
  <2> QED BY <2>3 DEF a, p
<1> QED BY <1>1, <1>2, <1>4 DEF Tick

\* The days in one more tick.
LEMMA NextTick ==
    ASSUME NEW n \in Nat, NEW t, t = n % TicksPerDay
    PROVE  IF t + 1 >= TicksPerDay
           THEN /\ (n + 1) % TicksPerDay = 0 /\ t + 1 - TicksPerDay = 0
                /\ (n + 1) \div TicksPerDay = (n \div TicksPerDay) + 1
           ELSE /\ (n + 1) % TicksPerDay = t + 1
                /\ (n + 1) \div TicksPerDay = n \div TicksPerDay
<1> DEFINE T == TicksPerDay
           q == n \div T
           m == n + 1
<1>1. T \in Nat /\ T >= 1
  BY ClockFacts
<1> HIDE DEF T
<1>2. q \in Int /\ t \in Nat /\ t < T /\ n = T * q + t
  BY <1>1, Split DEF T
<1> HIDE DEF q
<1>3. CASE t + 1 >= T
  <2>1. t = T - 1 /\ t + 1 - T = 0
    BY <1>1, <1>2, <1>3
  <2>2. T * (q + 1) = T * q + T
    BY <1>1, <1>2
  <2> DEFINE x == T * q
             k == q + 1
  <2>3. x \in Int /\ n = x + t /\ T * k = x + T /\ k \in Int
    BY <1>1, <1>2, <2>2
  <2> HIDE DEF x, k
  <2> DEFINE z == 0
  <2>4. m = T * k + z /\ z \in Nat /\ z < T
    BY <1>1, <1>2, <2>1, <2>3
  <2> HIDE DEF m, z
  <2>5. k \in Int
    BY <2>3
  <2>6. m \div T = k /\ m % T = z
    BY <1>1, <2>4, <2>5, SplitUnique
  <2> QED BY <1>3, <2>1, <2>6 DEF T, q, m, k, z
<1>4. CASE ~(t + 1 >= T)
  <2> DEFINE u == t + 1
             x == T * q
  <2>1. u \in Nat /\ u < T /\ x \in Int /\ n = x + t
    BY <1>1, <1>2, <1>4
  <2>2. m = x + u
    <3> HIDE DEF x
    <3> QED BY <1>2, <2>1
  <2>3. m = T * q + u
    BY <2>2
  <2> HIDE DEF m, u, x
  <2>4. m \div T = q /\ m % T = u
    BY <1>1, <1>2, <2>1, <2>3, SplitUnique, ZenonT(60)
  <2> QED BY <1>4, <2>4 DEF T, q, m, u
<1> QED BY <1>3, <1>4 DEF T

\* The bytes of a count are bytes.
LEMMA Bytes ==
    ASSUME NEW t \in Nat
    PROVE  /\ \A i \in Cells : ByteOf(t, i) \in Digit
           /\ BytesOf(t) \in [Cells -> Digit]
<1>1. Base \in Nat /\ Base >= 1
  BY ClockFacts
<1>2. \A a \in Nat : a % Base \in Digit
  <2> TAKE a \in Nat
  <2>1. a % Base \in Nat /\ a % Base < Base
    BY <1>1, Split
  <2> QED BY <1>1, <2>1 DEF Digit
<1>3. Base * Base \in Nat /\ Base * Base >= 1
  BY <1>1
<1>4. Base * Base * Base \in Nat /\ Base * Base * Base >= 1
  <2> DEFINE y == Base * Base
  <2>1. y \in Nat /\ y >= 1
    BY <1>3
  <2> HIDE DEF y
  <2>2. y * Base \in Nat /\ y * Base >= 1
    BY <1>1, <2>1
  <2> QED BY <2>2 DEF y
<1>5. \A n \in Nat : n >= 1 => t \div n \in Nat
  BY Split
<1>6. /\ t \div Base \in Nat /\ t \div (Base * Base) \in Nat
      /\ t \div (Base * Base * Base) \in Nat
  <2> DEFINE x == Base
             y == Base * Base
             z == Base * Base * Base
  <2>1. x \in Nat /\ x >= 1 /\ y \in Nat /\ y >= 1 /\ z \in Nat /\ z >= 1
    BY <1>1, <1>3, <1>4
  <2> HIDE DEF x, y, z
  <2>2. t \div x \in Nat /\ t \div y \in Nat /\ t \div z \in Nat
    BY <1>5, <2>1
  <2> QED BY <2>2 DEF x, y, z
<1>7. /\ t % Base \in Digit /\ (t \div Base) % Base \in Digit
      /\ (t \div (Base * Base)) % Base \in Digit
      /\ (t \div (Base * Base * Base)) % Base \in Digit
  BY <1>2, <1>6
<1>8. \A i \in Cells : ByteOf(t, i) \in Digit
  <2> SUFFICES ASSUME NEW i \in Cells PROVE ByteOf(t, i) \in Digit
    OBVIOUS
  <2>1. i \in {1, 2, 3, 4}
    BY DEF Cells
  <2>2. CASE i = 1
    BY <1>7, <2>2 DEF ByteOf
  <2>3. CASE i = 2
    BY <1>7, <2>3 DEF ByteOf
  <2>4. CASE i = 3
    BY <1>7, <2>4 DEF ByteOf
  <2>5. CASE i = 4
    BY <1>7, <2>5 DEF ByteOf
  <2> QED BY <2>1, <2>2, <2>3, <2>4, <2>5
<1> QED BY <1>8 DEF BytesOf

\* A word of bytes, plus one, is a word of bytes.
LEMMA IncBytes ==
    ASSUME NEW r \in [Cells -> Digit], NEW i \in {1, 3}
    PROVE  IncWord(r, i) \in [Cells -> Digit]
<1>1. Base \in Nat /\ Base >= 1
  BY ClockFacts
<1>2. \A d \in Digit : (d + 1) % Base \in Digit
  <2> TAKE d \in Digit
  <2>1. d + 1 \in Nat
    BY <1>1 DEF Digit
  <2> DEFINE a == d + 1
  <2>2. a \in Nat
    BY <2>1
  <2> HIDE DEF a
  <2>3. a % Base \in Nat /\ a % Base < Base
    BY <1>1, <2>2, Split
  <2>4. a % Base \in Digit
    BY <1>1, <2>3 DEF Digit
  <2> QED BY <2>4 DEF a
<1>3. i \in Cells /\ i + 1 \in Cells
  BY DEF Cells
<1>4. r[i] \in Digit /\ r[i + 1] \in Digit
  BY <1>3
<1> DEFINE b == (r[i] + 1) % Base
           c == IF r[i] = Base - 1 THEN (r[i + 1] + 1) % Base ELSE r[i + 1]
<1>5. b \in Digit /\ c \in Digit
  BY <1>2, <1>4
<1>6. IncWord(r, i) = [r EXCEPT ![i] = b, ![i + 1] = c]
  <2>1. i # i + 1
    BY <1>3 DEF Cells
  <2> QED BY <1>3, <2>1 DEF IncWord
<1> HIDE DEF b, c
<1> QED BY <1>3, <1>5, <1>6

\* OnTick counts a tick, by day and within the day.
LEMMA TickCounted ==
    ASSUME ClockInv, OnTickCount
    PROVE  /\ total' = total + 1 /\ ticks' \in Tick /\ Prev' = ticks
           /\ IF ticks + 1 >= TicksPerDay
              THEN ticks' = 0 /\ total' % TicksPerDay = 0
                   /\ total' \div TicksPerDay = (total \div TicksPerDay) + 1
                   /\ rolled' = 1 /\ bdaRolled' = 1 /\ owed' = TRUE
                   /\ crossed' = (crossed \/ op = "xorStore")
              ELSE ticks' = ticks + 1 /\ total' % TicksPerDay = ticks + 1
                   /\ total' \div TicksPerDay = total \div TicksPerDay
                   /\ UNCHANGED <<rolled, bdaRolled, owed, crossed>>
<1> DEFINE T == TicksPerDay
<1>1. T \in Nat /\ T >= 1 /\ ticks \in Nat /\ ticks < T /\ total \in Nat /\ ticks = total % T
  BY ClockFacts DEF ClockInv, ClockTypeOK, Tick, Days
<1>2. total' = total + 1 /\ ticks' = (IF ticks + 1 >= T THEN ticks + 1 - T ELSE ticks + 1)
  BY DEF OnTickCount, CountTick
<1>3. IF ticks + 1 >= T
      THEN /\ (total + 1) % T = 0 /\ ticks + 1 - T = 0
           /\ (total + 1) \div T = (total \div T) + 1
      ELSE /\ (total + 1) % T = ticks + 1
           /\ (total + 1) \div T = total \div T
  BY <1>1, NextTick
<1>4. CASE ticks + 1 >= T
  <2>1. ticks' = 0 /\ ticks = T - 1
    <3>1. ticks \in Nat /\ T \in Nat /\ ticks < T
      BY <1>1
    <3>2. ticks' = ticks + 1 - T
      BY <1>2, <1>4
    <3> HIDE DEF T
    <3> QED BY <1>4, <3>1, <3>2
  <2>2. ticks' \in Tick /\ Prev' = ticks
    BY <1>1, <2>1 DEF Tick, Prev
  <2>3. rolled' = 1 /\ bdaRolled' = 1 /\ owed' = TRUE /\ crossed' = (crossed \/ op = "xorStore")
    BY <1>4 DEF OnTickCount, CountTick, ClockInv, ClockTypeOK
  <2> QED BY <1>2, <1>3, <1>4, <2>1, <2>2, <2>3
<1>5. CASE ~(ticks + 1 >= T)
  <2>1. ticks' = ticks + 1
    BY <1>2, <1>5
  <2>2. ticks' \in Tick /\ Prev' = ticks
    BY <1>1, <1>5, <2>1 DEF Tick, Prev
  <2>3. UNCHANGED <<rolled, bdaRolled, owed, crossed>>
    BY <1>5 DEF OnTickCount, CountTick, ClockInv, ClockTypeOK
  <2> QED BY <1>2, <1>3, <1>5, <2>1, <2>2, <2>3
<1> QED BY <1>4, <1>5

\* Every step keeps the types.
LEMMA ClockTypeStep ==
    ASSUME ClockInv, ClockNext
    PROVE  ClockTypeOK' /\ realBios' = realBios
<1>1. /\ ClockTypeOK /\ TicksPerDay \in Nat /\ TicksPerDay >= 1 /\ MaxTotal \in Nat
  BY ClockFacts DEF ClockInv
<1>2. realBios' = realBios
  BY DEF ClockNext
<1>3. /\ ticks \in Tick /\ ticks \in Nat /\ TicksPerDay \in Nat
      /\ \A i \in Cells : ByteOf(ticks, i) \in Digit
  <2>1. ticks \in Tick /\ ticks \in Nat
    BY <1>1 DEF ClockTypeOK, Tick
  <2> QED BY <1>1, <2>1, Bytes
<1>4. moves \in Seq(Cells) /\ <<>> \in Seq(Cells)
  BY <1>1 DEF ClockTypeOK
<1>5. moves # <<>> => Head(moves) \in Cells /\ Tail(moves) \in Seq(Cells)
  BY <1>4
<1>6. /\ <<1, 2>> \in Seq(Cells) /\ <<3, 4>> \in Seq(Cells)
      /\ <<1, 2, 3, 4>> \in Seq(Cells) /\ <<3, 4, 1, 2>> \in Seq(Cells)
  BY DEF Cells
<1>7. CASE OnTickCount
  <2>1. total' \in 0 .. MaxTotal
    BY <1>1, <1>7, TickCounted DEF ClockTypeOK, OnTickCount, CountTick
  <2>2. ticks' \in Tick /\ rolled' \in {0, 1} /\ bdaRolled' \in {0, 1} /\ owed' \in BOOLEAN
        /\ crossed' \in BOOLEAN
    <3>1. CASE ticks + 1 >= TicksPerDay
      BY <1>1, <1>7, <3>1, TickCounted DEF ClockTypeOK
    <3>2. CASE ~(ticks + 1 >= TicksPerDay)
      BY <1>1, <1>7, <3>2, TickCounted DEF ClockTypeOK
    <3> QED BY <3>1, <3>2
  <2>3. window' \subseteq Tick
    BY <1>1, <1>7, <2>2 DEF ClockTypeOK, OnTickCount, CountTick
  <2>4. timer' = 1 /\ UNCHANGED <<cell, irq0, op, moves, reg, al, xored, guestDays>>
    BY <1>7 DEF OnTickCount, CountTick, guest
  <2>5. timer' \in Cells \cup {Resting, Asserting}
    BY <2>4 DEF Cells
  <2> QED BY <1>1, <1>2, <2>1, <2>2, <2>3, <2>4, <2>5 DEF ClockTypeOK
<1>8. CASE WriteBdaTick
  <2>1. /\ timer \in Cells /\ timer' = timer + 1
        /\ cell' = [cell EXCEPT ![timer] = ByteOf(ticks, timer)]
        /\ UNCHANGED <<ticks, rolled, bdaRolled, irq0, op, moves, reg, al, xored,
                       total, owed, crossed, guestDays, window>>
    BY <1>8 DEF WriteBdaTick, StoreTickByte, Locked, pit, guest, past
  <2>2. timer' \in Cells \cup {Resting, Asserting}
    BY <2>1 DEF Cells, Asserting
  <2>3. cell' \in [Cells -> Digit]
    BY <1>1, <1>3, <2>1 DEF ClockTypeOK
  <2> QED BY <1>1, <1>2, <2>1, <2>2, <2>3 DEF ClockTypeOK
<1>9. CASE OnTickAssert
  BY <1>1, <1>2, <1>9 DEF ClockTypeOK, OnTickAssert, pit, bda, guest, past
<1>10. CASE HleService
  <2>1. BytesOf(ticks) \in [Cells -> Digit] /\ rolled \in {0, 1}
    BY <1>1, <1>3, Bytes DEF ClockTypeOK
  <2>2. CASE Int1AFlag
    <3>1. guestDays' \in Nat
      BY <1>1, <2>1, <2>2 DEF ClockTypeOK, Int1AFlag
    <3> QED BY <1>1, <1>2, <2>1, <2>2, <3>1 DEF ClockTypeOK, Int1AFlag, pit, bda
  <2> QED BY <1>1, <1>2, <1>10, <2>1, <2>2
          DEF ClockTypeOK, HleService, Int1ATicks, Int1ACheck, Int1AClear, pit, bda, past
<1>11. CASE LoadByte
  <2>1. reg' \in [Cells -> Digit] /\ moves' \in Seq(Cells)
    BY <1>1, <1>5, <1>11 DEF ClockTypeOK, LoadByte
  <2> QED BY <1>1, <1>2, <1>11, <2>1 DEF ClockTypeOK, LoadByte, pit, bda, past
<1>12. CASE StoreByte
  <2>1. cell' \in [Cells -> Digit] /\ moves' \in Seq(Cells)
    BY <1>1, <1>5, <1>12 DEF ClockTypeOK, StoreByte
  <2> QED BY <1>1, <1>2, <1>12, <2>1 DEF ClockTypeOK, StoreByte, pit, past
<1>13. CASE BdaRead \/ BdaReadDone
  <2>1. window' \subseteq Tick
    <3>1. (ticks - 1) % TicksPerDay \in Tick
      BY <1>3, TickBefore
    <3> QED BY <1>3, <1>13, <3>1 DEF BdaRead, BdaReadDone
  <2>2. moves' \in Seq(Cells) /\ op' \in {"bdaRead", "idle"}
    BY <1>4, <1>6, <1>13 DEF BdaRead, BdaReadDone, Goto
  <2> QED BY <1>1, <1>2, <1>13, <2>1, <2>2 DEF ClockTypeOK, BdaRead, BdaReadDone, pit, bda
<1>14. CASE BiosInt8
  <2>1. moves' \in Seq(Cells)
    BY <1>4, <1>6, <1>14 DEF BiosInt8, Int8, Int8IncLow, Int8Carry, Int8IncHigh,
          Int8CheckMidnight, Int8CmpHigh, Int8CmpLow, Int8NewDay, Goto
  <2>2. op' \in {"idle", "incLow", "putLow", "incHigh", "putHigh", "cmpHigh", "cmpLow", "zero"}
    BY <1>14 DEF BiosInt8, Int8, Int8IncLow, Int8Carry, Int8IncHigh,
          Int8CheckMidnight, Int8CmpHigh, Int8CmpLow, Int8NewDay, Goto
  <2>3. reg' \in [Cells -> Digit]
    <3>1. reg \in [Cells -> Digit] /\ BytesOf(0) \in [Cells -> Digit]
      BY <1>1, Bytes DEF ClockTypeOK
    <3>2. IncWord(reg, 1) \in [Cells -> Digit] /\ IncWord(reg, 3) \in [Cells -> Digit]
      BY <3>1, IncBytes
    <3> QED BY <1>14, <3>1, <3>2 DEF BiosInt8, Int8, Int8IncLow, Int8Carry, Int8IncHigh,
          Int8CheckMidnight, Int8CmpHigh, Int8CmpLow, Int8NewDay
  <2>4. irq0' \in BOOLEAN /\ bdaRolled' \in {0, 1} /\ owed' \in BOOLEAN
    BY <1>1, <1>14 DEF ClockTypeOK, BiosInt8, Int8, Int8IncLow, Int8Carry, Int8IncHigh,
          Int8CheckMidnight, Int8CmpHigh, Int8CmpLow, Int8NewDay, bda, past
  <2>5. UNCHANGED <<ticks, rolled, cell, timer, al, xored, total, crossed, guestDays, window>>
    BY <1>14 DEF BiosInt8, Int8, Int8IncLow, Int8Carry, Int8IncHigh,
          Int8CheckMidnight, Int8CmpHigh, Int8CmpLow, Int8NewDay, pit, bda, past
  <2> QED BY <1>1, <1>2, <2>1, <2>2, <2>3, <2>4, <2>5 DEF ClockTypeOK
<1>15. CASE BiosInt1A
  <2>1. moves' \in Seq(Cells)
    BY <1>4, <1>6, <1>15 DEF BiosInt1A, BiosGetTicks, BiosFlag, BiosXorLoad, BiosXorStore,
          ResetFlag, BiosSetTicks, BiosSetFlag, Goto
  <2>2. op' \in {"idle", "getTicks", "xorLoad", "xorStore", "setTicks"}
    BY <1>15 DEF BiosInt1A, BiosGetTicks, BiosFlag, BiosXorLoad, BiosXorStore,
          ResetFlag, BiosSetTicks, BiosSetFlag, Goto
  <2>3. reg' \in [Cells -> Digit]
    <3>1. \A t \in SetTimes : BytesOf(t) \in [Cells -> Digit]
      <4>1. \A t \in SetTimes : t \in Nat
        BY <1>1, ClockFacts DEF Tick
      <4> QED BY <4>1, Bytes
    <3>2. reg \in [Cells -> Digit]
      BY <1>1 DEF ClockTypeOK
    <3> QED BY <1>15, <3>1, <3>2 DEF BiosInt1A, BiosGetTicks, BiosFlag, BiosXorLoad,
          BiosXorStore, ResetFlag, BiosSetTicks, BiosSetFlag
  <2>4. bdaRolled' \in {0, 1}
    <3>1. bdaRolled \in {0, 1} /\ (xored + al) % 2 \in {0, 1}
      BY <1>1 DEF ClockTypeOK
    <3> QED BY <1>15, <3>1 DEF BiosInt1A, BiosGetTicks, BiosFlag, BiosXorLoad,
          BiosXorStore, ResetFlag, BiosSetTicks, BiosSetFlag, bda
  <2>5. al' \in {0, 1} /\ xored' \in {0, 1} /\ owed' \in BOOLEAN /\ crossed' \in BOOLEAN
    BY <1>1, <1>15 DEF ClockTypeOK, BiosInt1A, BiosGetTicks, BiosFlag, BiosXorLoad,
          BiosXorStore, ResetFlag, BiosSetTicks, BiosSetFlag, past
  <2>6. UNCHANGED <<ticks, rolled, cell, timer, irq0, total, guestDays, window>>
    BY <1>15 DEF BiosInt1A, BiosGetTicks, BiosFlag, BiosXorLoad, BiosXorStore,
          ResetFlag, BiosSetTicks, BiosSetFlag, pit, bda, past
  <2> QED BY <1>1, <1>2, <2>1, <2>2, <2>3, <2>4, <2>5, <2>6 DEF ClockTypeOK
<1> QED BY <1>2, <1>7, <1>8, <1>9, <1>10, <1>11, <1>12, <1>13, <1>14, <1>15
        DEF ClockNext, OnTick, GuestAccess

\* A service belongs to the BIOS that started it.
LEMMA ServicesStep == ASSUME ClockInv, ClockNext PROVE Services'
<1>1. Services /\ realBios' = realBios
  BY DEF ClockInv, ClockNext
<1>2. CASE OnTick
  <2>1. op' = op
    BY <1>2 DEF OnTick, OnTickCount, CountTick, WriteBdaTick, StoreTickByte, OnTickAssert, guest
  <2> QED BY <1>1, <2>1 DEF Services
<1>3. CASE HleService
  BY <1>1, <1>3 DEF Services, HleService, Int1ATicks, Int1AFlag, Int1ACheck, Int1AClear
<1>4. CASE GuestAccess
  BY <1>1, <1>4 DEF Services, GuestAccess, LoadByte, StoreByte, BdaRead, BdaReadDone, Goto
<1>5. CASE BiosInt8
  BY <1>1, <1>5 DEF Services, BiosInt8, Int8, Int8IncLow, Int8Carry, Int8IncHigh,
          Int8CheckMidnight, Int8CmpHigh, Int8CmpLow, Int8NewDay, Goto
<1>6. CASE BiosInt1A
  BY <1>1, <1>6 DEF Services, BiosInt1A, BiosGetTicks, BiosFlag, BiosXorLoad, BiosXorStore,
          ResetFlag, BiosSetTicks, BiosSetFlag, Goto
<1> QED BY <1>2, <1>3, <1>4, <1>5, <1>6 DEF ClockNext

\* Under the HLE BIOS only these steps are taken.
LEMMA HleSteps ==
    ASSUME ClockInv, ClockNext, ~realBios
    PROVE  OnTick \/ HleService \/ LoadByte \/ BdaRead \/ BdaReadDone
<1>1. op \in {"idle", "flag", "check", "clear", "bdaRead"}
  BY DEF ClockInv, Services
<1>2. ~StoreByte
  BY <1>1 DEF StoreByte, Storing
<1>3. ~BiosInt8
  BY <1>1 DEF BiosInt8, Int8, Int8IncLow, Int8Carry, Int8IncHigh,
          Int8CheckMidnight, Int8CmpHigh, Int8CmpLow, Int8NewDay, Goto
<1>4. ~BiosInt1A
  BY <1>1 DEF BiosInt1A, BiosGetTicks, BiosFlag, BiosXorLoad, BiosXorStore,
          ResetFlag, BiosSetTicks, BiosSetFlag, Goto
<1> QED BY <1>2, <1>3, <1>4 DEF ClockNext, GuestAccess

\* OnTick's stores bring the BDA from the previous tick to this one, byte by
\* byte, under the lock that keeps Int1AClear out.
LEMMA MirrorStep == ASSUME ClockInv, ClockNext PROVE Mirror'
<1> SUFFICES ASSUME ~realBios PROVE Mirror'
  BY DEF Mirror, ClockNext
<1>1. /\ bdaRolled = rolled /\ cell \in [Cells -> Digit]
      /\ \A i \in Cells : cell[i] = ByteOf(IF Locked /\ timer <= i THEN Prev ELSE ticks, i)
  BY DEF ClockInv, Mirror, ClockTypeOK
<1>2. CASE OnTickCount
  <2>1. timer = Resting /\ timer' = 1 /\ cell' = cell
    BY <1>2 DEF OnTickCount, CountTick
  <2>2. Prev' = ticks /\ bdaRolled' = rolled'
    BY <1>1, <1>2, TickCounted
  <2>3. \A i \in Cells : cell[i] = ByteOf(ticks, i)
    BY <1>1, <2>1 DEF Locked, Resting, Cells
  <2>4. \A i \in Cells : Locked' /\ timer' <= i
    BY <2>1 DEF Locked, Cells
  <2> QED BY <2>1, <2>2, <2>3, <2>4 DEF Mirror
<1>3. CASE WriteBdaTick
  <2>1. /\ timer \in Cells /\ timer' = timer + 1
        /\ cell' = [cell EXCEPT ![timer] = ByteOf(ticks, timer)]
        /\ UNCHANGED <<ticks, rolled, bdaRolled>>
    BY <1>3 DEF WriteBdaTick, StoreTickByte, Locked, pit
  <2>2. Prev' = Prev
    BY <2>1 DEF Prev
  <2>3. ASSUME NEW i \in Cells
        PROVE  cell'[i] = ByteOf(IF Locked' /\ timer' <= i THEN Prev ELSE ticks, i)
    <3>1. CASE i = timer
      <4>1. ~(timer' <= i)
        BY <2>1, <3>1 DEF Cells
      <4> QED BY <1>1, <2>1, <3>1, <4>1
    <3>2. CASE i # timer
      <4>1. cell'[i] = cell[i]
        BY <1>1, <2>1, <3>2
      <4>2. (Locked' /\ timer' <= i) <=> (Locked /\ timer <= i)
        BY <2>1, <3>2 DEF Locked, Cells
      <4> QED BY <1>1, <4>1, <4>2
    <3> QED BY <3>1, <3>2
  <2> QED BY <1>1, <2>1, <2>2, <2>3 DEF Mirror
<1>4. CASE OnTickAssert
  <2>1. timer = Asserting /\ timer' = Resting /\ UNCHANGED <<ticks, rolled, bdaRolled, cell>>
    BY <1>4 DEF OnTickAssert, pit, bda
  <2>2. ~Locked /\ ~Locked'
    BY <2>1 DEF Locked, Cells, Asserting, Resting
  <2> QED BY <1>1, <2>1, <2>2 DEF Mirror, Prev
<1>5. CASE HleService \/ LoadByte \/ BdaRead \/ BdaReadDone
  <2>1. bdaRolled' = rolled' /\ UNCHANGED <<ticks, timer, cell>>
    BY <1>1, <1>5 DEF HleService, Int1ATicks, Int1AFlag, Int1ACheck, Int1AClear,
                      LoadByte, BdaRead, BdaReadDone, pit, bda
  <2> QED BY <1>1, <2>1 DEF Mirror, Locked, Prev
<1> QED BY <1>2, <1>3, <1>4, <1>5, HleSteps DEF OnTick

\* What a guest read before a tick is still a value of its window after it.
LEMMA ReadingStep == ASSUME ClockInv, ClockNext PROVE Reading'
<1> SUFFICES ASSUME ~realBios, op' = "bdaRead" PROVE Reading'
  BY DEF Reading, ClockNext
<1>1. /\ \A i \in Cells : cell[i] = ByteOf(IF Locked /\ timer <= i THEN Prev ELSE ticks, i)
      /\ reg \in [Cells -> Digit] /\ ticks \in Tick /\ moves \in Seq(Cells)
      /\ op = "bdaRead" =>
            /\ ticks \in window /\ (Locked => Prev \in window)
            /\ \A i \in Cells : Pending(i) \/ \E t \in window : reg[i] = ByteOf(t, i)
  BY DEF ClockInv, Mirror, Reading, ClockTypeOK
<1>2. CASE OnTickCount
  <2>1. window' = window \cup {ticks'} /\ UNCHANGED <<op, moves, reg>>
    BY <1>2 DEF OnTickCount, CountTick, guest
  <2>2. Prev' = ticks /\ (\A i \in Cells : Pending(i)' <=> Pending(i))
    BY <1>2, <2>1, TickCounted DEF Pending
  <2>3. ticks' \in window' /\ Prev' \in window'
    BY <1>1, <2>1, <2>2
  <2>4. \A i \in Cells : Pending(i)' \/ \E t \in window' : reg'[i] = ByteOf(t, i)
    BY <1>1, <2>1, <2>2
  <2> QED BY <2>3, <2>4 DEF Reading
<1>3. CASE WriteBdaTick \/ OnTickAssert
  <2>1. UNCHANGED <<ticks, window, op, moves, reg>> /\ (Locked' => Locked)
    BY <1>3 DEF WriteBdaTick, StoreTickByte, OnTickAssert, pit, guest, past, Locked, Resting,
                Cells
  <2>2. Prev' = Prev /\ (\A i \in Cells : Pending(i)' <=> Pending(i))
    BY <2>1 DEF Prev, Pending
  <2> QED BY <1>1, <2>1, <2>2 DEF Reading
<1>4. CASE BdaRead
  <2>1. /\ moves' = <<1, 2, 3, 4>> /\ UNCHANGED <<ticks, timer>>
        /\ window' = IF Locked THEN {ticks, (ticks - 1) % TicksPerDay} ELSE {ticks}
    BY <1>4 DEF BdaRead, Goto, pit
  <2>2. (ticks - 1) % TicksPerDay = Prev /\ Prev' = Prev /\ (Locked' <=> Locked)
    BY <1>1, <2>1, TickBefore DEF Prev, Locked
  <2>3. \A i \in Cells : Pending(i)'
    <3> TAKE i \in Cells
    <3>1. i \in 1 .. Len(moves') /\ moves'[i] = i
      BY <2>1 DEF Cells
    <3> QED BY <3>1 DEF Pending
  <2> QED BY <2>1, <2>2, <2>3 DEF Reading
<1>5. CASE LoadByte
  <2> DEFINE h == Head(moves)
  <2>1. /\ op = "bdaRead" /\ moves # <<>> /\ moves' = Tail(moves) /\ h \in Cells
        /\ reg' = [reg EXCEPT ![h] = cell[h]] /\ UNCHANGED <<ticks, timer, window>>
    BY <1>1, <1>5 DEF LoadByte, pit, past
  <2>2. Prev' = Prev /\ (Locked' <=> Locked)
    BY <2>1 DEF Prev, Locked
  <2>3. \E t \in window : cell[h] = ByteOf(t, h)
    BY <1>1, <2>1
  <2>4. ASSUME NEW i \in Cells, i # h, Pending(i) PROVE Pending(i)'
    <3>1. PICK k \in 1 .. Len(moves) : moves[k] = i
      BY <2>4 DEF Pending
    <3>2. k # 1
      BY <2>4, <3>1
    <3>3. k - 1 \in 1 .. Len(Tail(moves)) /\ Tail(moves)[k - 1] = i
      BY <1>1, <2>1, <3>1, <3>2
    <3> QED BY <2>1, <3>3 DEF Pending
  <2>5. ASSUME NEW i \in Cells
        PROVE  Pending(i)' \/ \E t \in window' : reg'[i] = ByteOf(t, i)
    <3>1. CASE i = h
      BY <1>1, <2>1, <2>3, <3>1
    <3>2. CASE i # h
      <4>1. reg'[i] = reg[i]
        BY <1>1, <2>1, <3>2
      <4> QED BY <1>1, <2>1, <2>4, <3>2, <4>1
    <3> QED BY <3>1, <3>2
  <2>6. ticks' \in window' /\ (Locked' => Prev' \in window')
    BY <1>1, <2>1, <2>2
  <2> QED BY <2>5, <2>6 DEF Reading
<1>6. CASE HleService \/ BdaReadDone
  BY <1>6 DEF HleService, Int1ATicks, Int1AFlag, Int1ACheck, Int1AClear, BdaReadDone, Goto
<1> QED BY <1>2, <1>3, <1>4, <1>5, <1>6, HleSteps DEF OnTick

\* A wrap adds a day to the count and at most one to what is to be reported.
LEMMA DaysStep == ASSUME ClockInv, ClockNext PROVE Days'
<1> DEFINE q == total \div TicksPerDay
<1>1. /\ ticks = total % TicksPerDay /\ (~realBios => guestDays + Unreported <= q)
      /\ rolled \in {0, 1} /\ al \in {0, 1} /\ realBios' = realBios
  BY DEF ClockInv, Days, ClockTypeOK, ClockNext
<1>2. q \in Int /\ guestDays \in Nat /\ Unreported \in {0, 1}
  <2>1. total \in Nat /\ TicksPerDay \in Nat /\ TicksPerDay >= 1 /\ guestDays \in Nat
    BY ClockFacts DEF ClockInv, ClockTypeOK
  <2> QED BY <2>1, Split DEF Unreported
<1>3. CASE OnTickCount
  <2>1. UNCHANGED <<guestDays, op, al>> /\ ticks' = total' % TicksPerDay
    BY <1>3, TickCounted DEF OnTickCount, CountTick, guest
  <2>2. CASE ticks + 1 >= TicksPerDay
    <3>1. total' \div TicksPerDay = q + 1
      BY <1>3, <2>2, TickCounted
    <3> HIDE DEF q
    <3>2. Unreported' \in {0, 1}
      BY DEF Unreported
    <3> DEFINE u == Unreported
               v == Unreported'
    <3>3. ~realBios => guestDays + u <= q
      BY <1>1
    <3>4. q \in Int /\ guestDays \in Nat /\ u \in {0, 1} /\ v \in {0, 1}
      BY <1>2, <3>2
    <3> HIDE DEF u, v
    <3>5. ~realBios => guestDays + v <= q + 1
      BY <3>3, <3>4
    <3>6. ~realBios => guestDays + Unreported' <= q + 1
      BY <3>5 DEF v
    <3> QED BY <1>1, <2>1, <3>1, <3>6 DEF Days
  <2>3. CASE ~(ticks + 1 >= TicksPerDay)
    <3>1. total' \div TicksPerDay = q /\ rolled' = rolled
      BY <1>3, <2>3, TickCounted
    <3>2. Unreported' = Unreported
      BY <2>1, <3>1 DEF Unreported
    <3> QED BY <1>1, <2>1, <3>1, <3>2 DEF Days
  <2> QED BY <2>2, <2>3
<1>4. CASE WriteBdaTick \/ OnTickAssert
  <2>1. UNCHANGED <<ticks, total, guestDays, op, al, rolled>>
    BY <1>4 DEF WriteBdaTick, StoreTickByte, OnTickAssert, pit, guest, past
  <2> QED BY <1>1, <2>1 DEF Days, Unreported
<1>5. CASE realBios /\ (HleService \/ GuestAccess \/ BiosInt8 \/ BiosInt1A)
  <2>1. UNCHANGED <<ticks, total>>
    <3>1. CASE HleService \/ GuestAccess
      BY <3>1 DEF HleService, Int1ATicks, Int1AFlag, Int1ACheck, Int1AClear, GuestAccess,
                  LoadByte, StoreByte, BdaRead, BdaReadDone, pit, past
    <3>2. CASE BiosInt8
      BY <3>2 DEF BiosInt8, Int8, Int8IncLow, Int8Carry, Int8IncHigh,
          Int8CheckMidnight, Int8CmpHigh, Int8CmpLow, Int8NewDay, pit, past
    <3>3. CASE BiosInt1A
      BY <3>3 DEF BiosInt1A, BiosGetTicks, BiosFlag, BiosXorLoad, BiosXorStore,
          ResetFlag, BiosSetTicks, BiosSetFlag, pit, past
    <3> QED BY <1>5, <3>1, <3>2, <3>3
  <2> QED BY <1>1, <1>5, <2>1 DEF Days
<1>6. CASE ~realBios /\ (HleService \/ LoadByte \/ BdaRead \/ BdaReadDone)
  <2>1. UNCHANGED <<ticks, total>>
    BY <1>6 DEF HleService, Int1ATicks, Int1AFlag, Int1ACheck, Int1AClear,
                LoadByte, BdaRead, BdaReadDone, pit, past
  <2>2. guestDays' + Unreported' <= guestDays + Unreported
    <3>1. CASE Int1AFlag
      <4>1. /\ op = "flag" /\ op' = "check" /\ rolled' = rolled /\ al' = rolled
            /\ guestDays' = guestDays + rolled
        BY <3>1 DEF Int1AFlag, pit
      <4>2. Unreported = rolled /\ Unreported' = 0
        BY <1>1, <4>1 DEF Unreported
      <4> QED BY <1>1, <1>2, <4>1, <4>2
    <3>2. CASE Int1ACheck
      <4>1. /\ op = "check" /\ op' = (IF rolled # 0 THEN "clear" ELSE "idle")
            /\ UNCHANGED <<rolled, guestDays, al>>
        BY <3>2 DEF Int1ACheck, pit, past
      <4>2. Unreported' = Unreported
        BY <1>1, <4>1 DEF Unreported
      <4> QED BY <1>2, <4>1, <4>2
    <3>3. CASE Int1AClear
      <4>1. rolled' = 0 /\ guestDays' = guestDays
        BY <3>3 DEF Int1AClear, past
      <4>2. Unreported' = 0
        BY <4>1 DEF Unreported
      <4> QED BY <1>2, <4>1, <4>2
    <3>4. CASE Int1ATicks \/ LoadByte \/ BdaRead \/ BdaReadDone
      <4>1. /\ op \notin {"check", "clear"} /\ op' \notin {"check", "clear"}
            /\ UNCHANGED <<rolled, guestDays>>
        BY <3>4 DEF Int1ATicks, LoadByte, Loading, BdaRead, BdaReadDone, Goto, pit, past
      <4>2. Unreported' = Unreported
        BY <4>1 DEF Unreported
      <4> QED BY <1>2, <4>1, <4>2
    <3> QED BY <1>6, <3>1, <3>2, <3>3, <3>4 DEF HleService
  <2>3. guestDays' \in Nat /\ Unreported' \in {0, 1}
    <3>1. ClockTypeOK'
      BY ClockTypeStep
    <3> QED BY <3>1 DEF ClockTypeOK, Unreported
  <2> HIDE DEF q
  <2> DEFINE m == guestDays + Unreported
             n == guestDays' + Unreported'
  <2>4. m <= q /\ n <= m
    BY <1>1, <1>6, <2>2
  <2>5. q \in Int /\ m \in Nat /\ n \in Nat
    <3>1. m \in Nat
      BY <1>2
    <3>2. n \in Nat
      <4> DEFINE g == guestDays'
                 v == Unreported'
      <4>1. g \in Nat /\ v \in {0, 1}
        BY <2>3
      <4> HIDE DEF g, v
      <4>2. g + v \in Nat
        BY <4>1
      <4> QED BY <4>2 DEF g, v
    <3> QED BY <1>2, <3>1, <3>2
  <2> HIDE DEF m, n
  <2>6. n <= q
    BY <2>4, <2>5
  <2>7. guestDays' + Unreported' <= q
    BY <2>6 DEF n
  <2> QED BY <1>1, <1>6, <2>1, <2>7 DEF Days, q
<1> QED BY <1>3, <1>4, <1>5, <1>6, HleSteps DEF ClockNext, OnTick

\* Only the xor of INT 1Ah and the setting of the time can clear the flag of an
\* unreported midnight: the one loads it first, the other dismisses it.
LEMMA FlaggedStep == ASSUME ClockInv, ClockNext PROVE Flagged'
<1> SUFFICES ASSUME realBios, owed', ~crossed'
             PROVE  bdaRolled' = 1 /\ (op' = "xorStore" => xored' = 1)
  BY DEF Flagged, ClockNext
<1>1. owed /\ ~crossed => bdaRolled = 1 /\ (op = "xorStore" => xored = 1)
  BY DEF ClockInv, Flagged
<1>2. CASE OnTickCount
  <2>1. UNCHANGED <<op, xored>>
    BY <1>2 DEF OnTickCount, CountTick, guest
  <2>2. CASE ticks + 1 >= TicksPerDay
    BY <1>2, <2>1, <2>2, TickCounted
  <2>3. CASE ~(ticks + 1 >= TicksPerDay)
    BY <1>1, <1>2, <2>1, <2>3, TickCounted
  <2> QED BY <2>2, <2>3
<1>3. CASE WriteBdaTick \/ OnTickAssert
  BY <1>1, <1>3 DEF WriteBdaTick, StoreTickByte, OnTickAssert, bda, guest, past
<1>4. CASE GuestAccess
  BY <1>1, <1>4 DEF GuestAccess, LoadByte, StoreByte, Loading, Storing, BdaRead, BdaReadDone,
                    Goto, bda, past
<1>5. CASE BiosInt8
  <2>1. op' # "xorStore"
    BY <1>5 DEF BiosInt8, Int8, Int8IncLow, Int8Carry, Int8IncHigh,
          Int8CheckMidnight, Int8CmpHigh, Int8CmpLow, Int8NewDay, Goto
  <2>2. bdaRolled' = 1
    BY <1>1, <1>5 DEF BiosInt8, Int8, Int8IncLow, Int8Carry, Int8IncHigh,
          Int8CheckMidnight, Int8CmpHigh, Int8CmpLow, Int8NewDay, bda, past
  <2> QED BY <2>1, <2>2
<1>6. CASE BiosGetTicks \/ BiosFlag \/ BiosSetTicks \/ BiosSetFlag
  BY <1>1, <1>6 DEF BiosGetTicks, BiosFlag, BiosSetTicks, BiosSetFlag, Goto, bda, past
<1>7. CASE BiosXorLoad
  BY <1>1, <1>7 DEF BiosXorLoad, Goto, bda, past
<1>8. CASE BiosXorStore
  <2>1. /\ op = "xorStore" /\ op' = "idle" /\ bdaRolled' = (xored + al) % 2
        /\ owed' = (owed /\ al = 0) /\ crossed' = (crossed /\ al = 0)
    BY <1>8 DEF BiosXorStore, ResetFlag, Goto
  <2>2. owed /\ al = 0 /\ ~crossed
    BY <2>1
  <2>3. xored = 1
    BY <1>1, <2>1, <2>2
  <2>4. bdaRolled' = 1
    BY <2>1, <2>2, <2>3
  <2> QED BY <2>1, <2>4
<1>9. ~HleService
  BY DEF HleService, Int1ATicks, Int1AFlag, Int1ACheck, Int1AClear, ClockInv, Services
<1> QED BY <1>2, <1>3, <1>4, <1>5, <1>6, <1>7, <1>8, <1>9 DEF ClockNext, OnTick, BiosInt1A

\* Every step of the two threads keeps the invariant.
LEMMA ClockStep == ASSUME ClockInv, [ClockNext]_clockVars PROVE ClockInv'
<1>1. CASE ClockNext
  BY <1>1, ClockTypeStep, ServicesStep, MirrorStep, ReadingStep, DaysStep, FlaggedStep DEF ClockInv
<1>2. CASE UNCHANGED clockVars
  <2>1. /\ UNCHANGED <<realBios, ticks, rolled, cell, bdaRolled, timer, irq0, op, moves, reg>>
        /\ UNCHANGED <<al, xored, total, owed, crossed, guestDays, window>>
    BY <1>2 DEF clockVars
  <2>2. ClockTypeOK' /\ Services' /\ Days' /\ Flagged'
    BY <2>1 DEF ClockInv, ClockTypeOK, Services, Days, Unreported, Flagged
  <2>3. Mirror' /\ Reading'
    BY <2>1 DEF ClockInv, Mirror, Reading, Pending, Locked, Prev
  <2> QED BY <2>2, <2>3 DEF ClockInv
<1> QED BY <1>1, <1>2

\* A reset clock satisfies the invariant.
LEMMA ClockStart == ASSUME ClockInit PROVE ClockInv
<1>1. TicksPerDay \in Nat /\ TicksPerDay >= 1 /\ MaxTotal \in Nat
  BY ClockFacts
<1> DEFINE z == 0
<1>2. z \in Nat /\ z = TicksPerDay * 0 + z
  BY <1>1
<1> HIDE DEF z
<1>3. z \div TicksPerDay = 0 /\ z % TicksPerDay = 0
  <2>1. z < TicksPerDay /\ z = 0
    BY <1>1 DEF z
  <2> QED BY <1>1, <1>2, <2>1, SplitUnique
<1>4. 0 \in Tick /\ 0 \in 0 .. MaxTotal /\ BytesOf(0) \in [Cells -> Digit]
  BY <1>1, Bytes DEF Tick
<1>5. ClockTypeOK
  <2>1. <<>> \in Seq(Cells)
    OBVIOUS
  <2> QED BY <1>4, <2>1 DEF ClockInit, ClockTypeOK
<1>6. Services /\ Reading /\ Flagged
  BY DEF ClockInit, Services, Reading, Flagged
<1>7. Mirror
  <2>1. ~Locked
    BY DEF ClockInit, Locked, Cells, Resting
  <2>2. ticks = 0 /\ \A i \in Cells : cell[i] = ByteOf(0, i)
    BY DEF ClockInit, BytesOf
  <2>3. bdaRolled = rolled
    BY DEF ClockInit
  <2> QED BY <2>1, <2>2, <2>3 DEF Mirror
<1>8. Days
  <2>1. ticks = 0 /\ total = 0 /\ guestDays = 0 /\ Unreported = 0
    BY DEF ClockInit, Unreported
  <2> QED BY <1>3, <2>1 DEF Days, z
<1> QED BY <1>5, <1>6, <1>7, <1>8 DEF ClockInv

\* The invariant is what the guest sees: outside the lock all bytes are the
\* counter's, and a finished read has no byte the counter did not have.
LEMMA MirrorsAndReads == ASSUME ClockInv PROVE BdaFollowsPit
<1> SUFFICES ASSUME ~realBios PROVE BdaMirrorsPit /\ BdaReadConsistent
  BY DEF BdaFollowsPit, ClockInv
<1>1. BdaMirrorsPit
  <2> SUFFICES ASSUME ~Locked PROVE cell = BytesOf(ticks) /\ bdaRolled = rolled
    BY DEF BdaMirrorsPit
  <2>1. bdaRolled = rolled /\ \A i \in Cells : cell[i] = ByteOf(ticks, i)
    BY DEF ClockInv, Mirror
  <2>2. cell = [i \in Cells |-> cell[i]]
    BY DEF ClockInv, ClockTypeOK
  <2> QED BY <2>1, <2>2 DEF BytesOf
<1>2. BdaReadConsistent
  <2> SUFFICES ASSUME op = "bdaRead", moves = <<>>
               PROVE  \A i \in Cells : \E t \in window : reg[i] = ByteOf(t, i)
    BY DEF BdaReadConsistent
  <2>1. \A i \in Cells : ~Pending(i)
    BY DEF Pending
  <2> QED BY <2>1 DEF ClockInv, Reading
<1> QED BY <1>1, <1>2

\* A midnight not yet reported leaves room for the report.
LEMMA ReportsOnce == ASSUME ClockInv PROVE DaysReportedOnce
<1> DEFINE q == total \div TicksPerDay
           u == Unreported
<1>1. q \in Int /\ guestDays \in Nat /\ u \in {0, 1}
  <2>1. total \in Nat /\ TicksPerDay \in Nat /\ TicksPerDay >= 1 /\ guestDays \in Nat
    BY ClockFacts DEF ClockInv, ClockTypeOK
  <2> QED BY <2>1, Split DEF Unreported
<1>2. ~realBios => guestDays + u <= q
  BY DEF ClockInv, Days
<1>3. realBios /\ owed /\ ~crossed => bdaRolled = 1
  BY DEF ClockInv, Flagged
<1> HIDE DEF q, u
<1>4. ~realBios => guestDays <= q
  BY <1>1, <1>2
<1> QED BY <1>3, <1>4 DEF DaysReportedOnce, q

\* The invariant holds from reset on, for every interleaving.
LEMMA ClockInvariance == ClockSpec => []ClockInv
<1>1. ClockInit => ClockInv
  BY ClockStart
<1>2. ClockInv /\ [ClockNext]_clockVars => ClockInv'
  BY ClockStep
<1> QED BY <1>1, <1>2, PTL DEF ClockSpec

\* With the HLE BIOS the BDA's tick bytes and flag mirror PcPit whenever OnTick
\* is outside its lock, and a guest that reads the tick DWORD never sees a byte
\* the counter did not have meanwhile: for every length of the day, every number
\* of ticks and every interleaving of the two threads' byte accesses.
THEOREM BdaAlwaysFollowsPit == ClockSpec => []BdaFollowsPit
<1>1. ClockInv => BdaFollowsPit
  BY MirrorsAndReads
<1> QED BY <1>1, ClockInvariance, PTL

\* A finished read of the tick DWORD, during which no tick changed a byte above
\* the lowest, is a value the counter had: only a carry tears it.
OnlyCarryTears ==
    /\ ~realBios /\ op = "bdaRead" /\ moves = <<>>
    /\ \A s, t \in window : \A i \in {2, 3, 4} : ByteOf(s, i) = ByteOf(t, i)
    => \E t \in window : reg = BytesOf(t)

\* With the HLE BIOS a guest's read of the DWORD at 46Ch is torn only by a carry
\* out of its lowest byte in one of OnTick's calls of WriteBdaTickLocked.
THEOREM ReadsTornOnlyByCarry == ClockSpec => []OnlyCarryTears
<1>1. ClockInv => OnlyCarryTears
  <2> SUFFICES ASSUME ClockInv, ~realBios, op = "bdaRead", moves = <<>>,
                      \A s, t \in window : \A i \in {2, 3, 4} : ByteOf(s, i) = ByteOf(t, i)
               PROVE  \E t \in window : reg = BytesOf(t)
    BY DEF OnlyCarryTears
  <2>1. \A i \in Cells : \E t \in window : reg[i] = ByteOf(t, i)
    BY MirrorsAndReads DEF BdaFollowsPit, BdaReadConsistent
  <2>2. PICK t \in window : reg[1] = ByteOf(t, 1)
    BY <2>1 DEF Cells
  <2>3. \A i \in Cells : reg[i] = ByteOf(t, i)
    <3> TAKE i \in Cells
    <3>1. PICK s \in window : reg[i] = ByteOf(s, i)
      BY <2>1
    <3>2. i = 1 \/ i \in {2, 3, 4}
      BY DEF Cells
    <3> QED BY <2>2, <3>1, <3>2
  <2>4. reg = [i \in Cells |-> reg[i]]
    BY DEF ClockInv, ClockTypeOK
  <2>5. reg = BytesOf(t)
    BY <2>3, <2>4 DEF BytesOf
  <2> QED BY <2>5
<1> QED BY <1>1, ClockInvariance, PTL

\* HleBios.Int1A_GetTicks never announces more days than PcPit counted, and the
\* real BIOS' service leaves flagged every midnight it has not reported, unless
\* OnTick flagged it between the load and the store of xor [470h], al, however
\* OnTick falls between the other accesses.
THEOREM DaysAlwaysReportedOnce == ClockSpec => []DaysReportedOnce
<1>1. ClockInv => DaysReportedOnce
  BY ReportsOnce
<1> QED BY <1>1, ClockInvariance, PTL
=============================================================================
