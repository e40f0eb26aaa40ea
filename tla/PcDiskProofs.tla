---------------------------- MODULE PcDiskProofs ----------------------------
(***************************************************************************)
(* The floppy path for every geometry with two heads, every set of drives,  *)
(* mounted or not, every radix of the DMA registers and every guest.        *)
(*                                                                          *)
(* EventHandedOverOnce needs to know when the status that SENSE INTERRUPT   *)
(* STATUS would return is the one of the last event.  The only exception is *)
(* a READ from an empty drive, and it lasts as long as the READ's result    *)
(* waits untouched (StatusCurrent, WithdrawnOnRead).                        *)
(*                                                                          *)
(* ReadFillsWindow needs what the flip-flop stands at in the middle of a    *)
(* pair of accesses (Programmed); TypeOK and ReportsNextSector need the     *)
(* arguments a command can have been given (Buffers) and that FinalChs is   *)
(* the sector after its argument (NextSector).                              *)
(***************************************************************************)
EXTENDS PcDisk, SequenceTheorems, TLAPS

\* The status kept for SENSE INTERRUPT STATUS is the last event's, but for a
\* READ whose result waits.
StatusCurrent == intPending => st0 = last \/ (phase = "Result" /\ op = "read")

\* The first byte of a result withdraws the status.
WithdrawnOnRead == phase = "Result" /\ pos # 0 => ~intPending

\* A result waits only behind a complete command, which a further byte runs
\* again.
CommandComplete == phase = "Result" => Len(args) >= ArgCount(op)

EventInv ==
    /\ StatusCurrent /\ WithdrawnOnRead /\ CommandComplete
    /\ SenseReportsLastEvent /\ EventAvailable
    /\ seen => ~intPending
    /\ OneInterruptPerEvent

\* ExecuteCommand runs when a command is complete, or once more behind a
\* result.
Ready(o) == phase # "Result" \/ (op = o /\ guest = "rude")

\* What a completion does to the interrupt line, in every state.
LEMMA CompletesLine ==
    ASSUME NEW s, NEW r, Completes(s, r)
    PROVE  OneInterruptPerEvent' /\ ~seen' /\ ~mixed' /\ intPending' /\ last' = s /\ st0' = r
BY DEF Completes, AssertIrq, OneInterruptPerEvent

\* Completions whose status is remembered.
LEMMA RememberedStep ==
    ASSUME NEW s, Completes(s, s), WithdrawnOnRead', CommandComplete', SenseReportsLastEvent'
    PROVE  EventInv'
BY CompletesLine DEF EventInv, StatusCurrent, EventAvailable

\* A command without a completion that leaves the drives' positions alone.
LEMMA QuietStep ==
    ASSUME NEW o, EventInv, Ready(o), o \notin {"read", "sense"}, NoEvent, guest' = guest,
           WithdrawnOnRead', CommandComplete', SenseReportsLastEvent'
    PROVE  EventInv'
<1>1. intPending => st0 = last
  BY DEF EventInv, StatusCurrent, Ready
<1>2. StatusCurrent'
  BY <1>1 DEF NoEvent, StatusCurrent
<1>3. EventAvailable'
  BY <1>1 DEF EventInv, EventAvailable, NoEvent, Ready
<1> QED BY <1>2, <1>3 DEF EventInv, NoEvent, OneInterruptPerEvent

\* Whatever command a complete buffer holds, or runs again, its execution keeps
\* the invariant.
LEMMA ExecStep ==
    ASSUME NEW o, NEW a, EventInv, Ready(o), Len(a) >= ArgCount(o), ExecuteCommand(o, a),
           guest' = guest
    PROVE  EventInv'
<1> USE DEF WithdrawnOnRead, CommandComplete, SenseReportsLastEvent
<1>1. CASE o = "specify" /\ ExecSpecify
  BY <1>1, QuietStep DEF ExecSpecify, NoResult
<1>2. CASE o = "driveStatus" /\ ExecSenseDriveStatus(a)
  BY <1>2, QuietStep DEF ExecSenseDriveStatus, Results
<1>3. CASE o = "recalibrate" /\ ExecRecalibrate(a)
  BY <1>3, RememberedStep DEF ExecRecalibrate, NoResult
<1>4. CASE o = "seek" /\ ExecSeek(a)
  BY <1>4, RememberedStep DEF ExecSeek, NoResult
<1>5. CASE o = "readId" /\ ExecReadId(a)
  BY <1>5, RememberedStep DEF ExecReadId, Results
<1>6. CASE o = "other" /\ ExecInvalid
  <2>1. Len(<<>>) >= ArgCount("other")
    BY DEF ArgCount
  <2> QED BY <1>6, <2>1, QuietStep DEF ExecInvalid, Results
<1>7. CASE o = "sense" /\ ExecSenseInterrupt
  <2>1. intPending => st0 = last
    BY <1>7 DEF EventInv, StatusCurrent, Ready
  <2>2. /\ phase' = "Result" /\ op' = "sense" /\ args' = <<>> /\ pos' = 0 /\ ~intPending'
        /\ res' = (IF intPending THEN <<st0, pcn[st0 % 4]>> ELSE <<128>>)
        /\ UNCHANGED <<st0, irq, last, seen, mixed, told, muted, pcn>>
    BY <1>7 DEF ExecSenseInterrupt, Results
  <2>3. CommandComplete'
    <3>1. Len(<<>>) >= ArgCount("sense")
      BY DEF ArgCount
    <3> QED BY <2>2, <3>1
  <2>4. SenseReportsLastEvent'
    BY <2>1, <2>2
  <2>5. EventAvailable'
    <3> SUFFICES ASSUME guest # "rude", ~seen, ~mixed PROVE res'[1] = last
      BY <2>2 DEF EventAvailable
    <3>1. intPending
      BY DEF EventInv, EventAvailable, Ready
    <3> QED BY <2>1, <2>2, <3>1
  <2> QED BY <2>2, <2>3, <2>4, <2>5 DEF EventInv, StatusCurrent, OneInterruptPerEvent
<1>8. CASE o = "read" /\ ExecReadData(a)
  <2>1. CASE a[1] \in Mounted
    BY <1>8, <2>1, RememberedStep DEF ExecReadData, Results
  <2>2. CASE a[1] \notin Mounted
    <3>1. /\ phase' = "Result" /\ op' = "read" /\ args' = a /\ pos' = 0
          /\ res' = <<64 + a[1], 1, 0, a[2], a[3], a[4], a[5]>>
          /\ Completes(64 + a[1], st0)
      BY <1>8, <2>2 DEF ExecReadData, Results
    <3>2. EventAvailable'
      BY <3>1, CompletesLine DEF EventAvailable
    <3> QED BY <1>8, <3>1, <3>2, CompletesLine DEF EventInv, StatusCurrent
  <2> QED BY <2>1, <2>2
<1> QED BY <1>1, <1>2, <1>3, <1>4, <1>5, <1>6, <1>7, <1>8 DEF ExecuteCommand

\* A byte written to the controller.
LEMMA AcceptStep ==
    ASSUME NEW o, NEW a, EventInv, Ready(o), phase = "Result" => Len(a) >= ArgCount(o), Accept(o, a)
    PROVE  EventInv'
<1>1. CASE Len(a) >= ArgCount(o)
  BY <1>1, ExecStep DEF Accept
<1>2. CASE ~(Len(a) >= ArgCount(o))
  <2>1. /\ phase # "Result" /\ phase' = "Command" /\ NoEvent /\ guest' = guest
    BY <1>2 DEF Accept
  <2> QED BY <2>1 DEF EventInv, StatusCurrent, WithdrawnOnRead, CommandComplete, NoEvent,
                      SenseReportsLastEvent, EventAvailable, OneInterruptPerEvent
<1> QED BY <1>1, <1>2

\* ReadFifo: whatever byte it returns, the status is withdrawn afterwards.
LEMMA ReadStep == EventInv /\ ReadResult => EventInv'
<1> SUFFICES ASSUME EventInv, ReadResult PROVE EventInv'
    OBVIOUS
<1>1. ~intPending'
  BY DEF ReadResult, StatusAfterRead, EventInv, WithdrawnOnRead
<1>2. /\ (seen' <=> seen \/ (pos = 0 /\ OwnResult))
      /\ (mixed' <=> mixed \/ (pos = 0 /\ ~OwnResult /\ ~seen))
      /\ UNCHANGED <<irq, told, muted, last, pcn, guest>> /\ phase = "Result"
      /\ \/ phase' = "Idle"
         \/ pos' = pos + 1 /\ UNCHANGED <<phase, op, args, res>>
  BY DEF ReadResult, LineAfterRead, NoResult
<1>3. guest = "rude" \/ seen' \/ mixed'
  <2>1. CASE pos = 0
    BY <1>2, <2>1
  <2>2. CASE pos # 0
    BY <1>2, <2>2 DEF EventInv, WithdrawnOnRead, EventAvailable
  <2> QED BY <2>1, <2>2
<1>4. CommandComplete' /\ SenseReportsLastEvent'
  BY <1>2 DEF EventInv, CommandComplete, SenseReportsLastEvent
<1> QED BY <1>1, <1>2, <1>3, <1>4 DEF EventInv, StatusCurrent, WithdrawnOnRead, EventAvailable,
                                      OneInterruptPerEvent

\* WriteDor: leaving reset is an event, anything else changes nothing here.
LEMMA DorStep == ASSUME NEW v \in BOOLEAN, EventInv, WriteDor(v) PROVE EventInv'
<1>1. CASE ~nReset /\ v
  <2>1. Completes(192, 192) /\ phase' = "Idle"
    BY <1>1 DEF WriteDor, NoResult
  <2> QED BY <2>1, RememberedStep DEF WithdrawnOnRead, CommandComplete, SenseReportsLastEvent
<1>2. CASE ~(~nReset /\ v)
  <2>1. NoEvent /\ UNCHANGED <<phase, op, args, res, pos, pcn, guest>>
    BY <1>2 DEF WriteDor
  <2> QED BY <2>1 DEF EventInv, StatusCurrent, WithdrawnOnRead, CommandComplete, NoEvent,
                      SenseReportsLastEvent, EventAvailable, OneInterruptPerEvent
<1> QED BY <1>1, <1>2

\* Every port access keeps the invariant.
LEMMA EventStep == EventInv /\ [Next]_vars => EventInv'
<1> SUFFICES ASSUME EventInv, [Next]_vars PROVE EventInv'
    OBVIOUS
<1>1. ASSUME NEW o, WriteOpcode(o) PROVE EventInv'
  BY <1>1, AcceptStep DEF WriteOpcode, Ready
<1>2. ASSUME NEW v, WriteArgument(v) PROVE EventInv'
  BY <1>2, AcceptStep DEF WriteArgument, Ready
<1>3. CASE WriteInResult
  BY <1>3, AcceptStep DEF WriteInResult, Ready, EventInv, CommandComplete
<1>4. CASE ReadResult
  BY <1>4, ReadStep
<1>5. ASSUME NEW v \in BOOLEAN, WriteDor(v) PROVE EventInv'
  BY <1>5, DorStep
<1>6. CASE Deliver
  BY <1>6 DEF Deliver, fdc, EventInv, StatusCurrent, WithdrawnOnRead, CommandComplete,
              SenseReportsLastEvent, EventAvailable, OneInterruptPerEvent
<1>7. CASE DmaPort \/ (\E m \in BOOLEAN : WriteImr(m)) \/ UNCHANGED vars
  <2>1. UNCHANGED <<fdc, irq, guest, events>>
    BY <1>7 DEF DmaPort, ClearFlipFlop, MasterReset, ReadRegister, WriteRegister, WritePage,
                WriteImr, vars, fdc, pic, events
  <2> QED BY <2>1 DEF fdc, events, EventInv, StatusCurrent, WithdrawnOnRead, CommandComplete,
                      SenseReportsLastEvent, EventAvailable, OneInterruptPerEvent
<1> QED BY <1>1, <1>2, <1>3, <1>4, <1>5, <1>6, <1>7 DEF Next

\* Fdc8272 hands over every completion once, the right one, with one interrupt,
\* for every geometry, set of drives and interleaving of commands, resets and
\* reads of the result.
THEOREM EventsHandedOverOnce == Spec => []EventHandedOverOnce
<1>1. Init => EventInv
  BY DEF Init, EventInv, StatusCurrent, WithdrawnOnRead, CommandComplete, SenseReportsLastEvent,
         EventAvailable, OneInterruptPerEvent
<1>2. EventInv => EventHandedOverOnce
  BY DEF EventInv, EventHandedOverOnce
<1> QED BY <1>1, <1>2, EventStep, PTL DEF Spec

-----------------------------------------------------------------------------
(* Types, the DMA registers, and what a READ transfers. *)

\* The buffers: arguments are bytes the guest may send, a command runs as soon
\* as it is complete, a result fits its buffer, the remembered status names a
\* drive.
Buffers ==
    /\ \A i \in 1 .. Len(args) : args[i] \in ArgBytes(op, i)
    /\ phase = "Command" => op \in Ops /\ Len(args) < ArgCount(op)
    /\ phase = "Result" => op \in Ops /\ Len(args) = ArgCount(op)
    /\ Len(res) <= 7
    /\ st0 % 4 \in Drives

\* The registers hold what the guest meant; in the middle of a pair the
\* flip-flop is set and the low half is in place.
Programmed ==
    /\ \A r \in Regs : meant[r] # Unset => dma[r] = meant[r]
    /\ half.reg = "none" => ~dma.flip
    /\ half.reg \in Regs => dma.flip /\ dma[half.reg] % Radix = half.low

DiskInv == TypeOK /\ Buffers /\ Programmed /\ ReportsNextSector

\* The constants.
LEMMA DiskFacts ==
    /\ Cyls \in Nat /\ Cyls >= 1 /\ Radix \in Nat /\ Radix >= 1 /\ RamSize \in Nat /\ RamSize >= 1
    /\ Spt \in Nat /\ Spt >= 1 /\ Spt <= 255
    /\ Drives \subseteq 0 .. 3 /\ 0 \in Drives /\ Mounted \subseteq Drives /\ SizeCodes \subseteq Nat
    /\ Seeks \subseteq Nat /\ 0 \in Seeks
BY DiskAssumption

\* Least and greatest elements.
LEMMA LeastOfTwo ==
    ASSUME NEW a \in Int, NEW b \in Int
    PROVE  Min({a, b}) = IF a <= b THEN a ELSE b
<1>1. \E x \in {a, b} : \A y \in {a, b} : x <= y
  OBVIOUS
<1> DEFINE m == CHOOSE x \in {a, b} : \A y \in {a, b} : x <= y
<1>2. m \in {a, b} /\ \A y \in {a, b} : m <= y
  BY <1>1
<1> HIDE DEF m
<1>3. m = IF a <= b THEN a ELSE b
  BY <1>2
<1> QED BY <1>3 DEF m, Min

\* The community Max of a set with a greatest member.
LEMMA Greatest ==
    ASSUME NEW S \in SUBSET Int, NEW g \in S, \A y \in S : y <= g
    PROVE  Max(S) = g
<1> DEFINE m == CHOOSE x \in S : \A y \in S : x >= y
<1>1. \E x \in S : \A y \in S : x >= y
  <2>1. \A y \in S : g >= y
    OBVIOUS
  <2> QED BY <2>1
<1>2. m \in S /\ \A y \in S : m >= y
  BY <1>1
<1> HIDE DEF m
<1>3. m = g
  BY <1>2
<1> QED BY <1>3 DEF m, Max

\* Division with remainder.
LEMMA Division ==
    ASSUME NEW a \in Int, NEW n \in Nat, n >= 1
    PROVE  /\ a \div n \in Int /\ a % n \in Nat /\ a % n < n
           /\ a = n * (a \div n) + (a % n)
           /\ a >= 0 => a \div n >= 0
OBVIOUS

\* Quotient and remainder are the only ones.
LEMMA DivisionUnique ==
    ASSUME NEW n \in Nat, n >= 1, NEW q \in Int, NEW r \in Nat, r < n
    PROVE  (n * q + r) \div n = q /\ (n * q + r) % n = r
<1> DEFINE a == n * q + r
           p == a \div n
           s == a % n
<1>1. a \in Int
  OBVIOUS
<1>2. p \in Int /\ s \in Nat /\ s < n /\ a = n * p + s
  <2> HIDE DEF a
  <2> QED BY <1>1, Division
<1> HIDE DEF p, s
<1>3. n * (p - q) = r - s
  <2>1. n * (p - q) = n * p - n * q
    BY <1>2
  <2> DEFINE x == n * p
             y == n * q
  <2>2. x \in Int /\ y \in Int /\ y + r = x + s /\ n * (p - q) = x - y
    BY <1>2, <2>1
  <2> HIDE DEF x, y
  <2> QED BY <1>2, <2>2
<1>4. p = q
  <2>1. CASE p - q >= 1
    <3>1. n * (p - q) >= n
      BY <1>2, <2>1
    <3> QED BY <1>2, <1>3, <3>1
  <2>2. CASE p - q <= -1
    <3>1. n * (p - q) <= -n
      BY <1>2, <2>2
    <3> QED BY <1>2, <1>3, <3>1
  <2> QED BY <1>2, <2>1, <2>2
<1>5. s = r
  BY <1>2, <1>3, <1>4
<1> QED BY <1>4, <1>5 DEF p, s

\* A word of two digits: replacing one of them.
LEMMA Digits ==
    ASSUME NEW w \in Word, NEW v \in Byte
    PROVE  /\ v * Radix + (w % Radix) \in Word
           /\ (w \div Radix) * Radix + v \in Word
           /\ ((w \div Radix) * Radix + v) % Radix = v
           /\ Word \subseteq Nat /\ Byte \subseteq Nat /\ w % Radix \in Byte
<1> DEFINE R == Radix
           q == w \div R
           l == w % R
<1>1. R \in Nat /\ R >= 1 /\ w \in Nat /\ w < R * R /\ v \in Nat /\ v < R
  BY DiskFacts DEF Word, Byte
<1> HIDE DEF R
<1>2. q \in Nat /\ l \in Nat /\ l < R /\ w = R * q + l
  BY <1>1, Division
<1> HIDE DEF q, l
<1>3. q < R
  <2> SUFFICES ASSUME q >= R PROVE FALSE
    BY <1>1, <1>2
  <2>1. R * q >= R * R
    BY <1>1, <1>2
  <2> QED BY <1>1, <1>2, <2>1
<1>4. ASSUME NEW x \in Nat, x < R, NEW y \in Nat, y < R
      PROVE  x * R + y \in 0 .. R * R - 1 /\ x * R = R * x
  <2>1. x * R <= (R - 1) * R
    BY <1>1, <1>4
  <2>2. (R - 1) * R = R * R - R /\ x * R = R * x
    BY <1>1, <1>4
  <2> DEFINE a == x * R
             b == R * R
  <2>3. a \in Nat /\ b \in Nat /\ a <= b - R
    BY <1>1, <1>4, <2>1, <2>2
  <2> HIDE DEF a, b
  <2>4. a + y \in 0 .. b - 1
    BY <1>1, <1>4, <2>3
  <2> QED BY <2>2, <2>4 DEF a, b
<1>5. v * R + l \in 0 .. R * R - 1 /\ q * R + v \in 0 .. R * R - 1 /\ q * R = R * q
  BY <1>1, <1>2, <1>3, <1>4
<1>6. (q * R + v) % R = v
  <2> DEFINE a == q * R + v
             x == R * q
  <2>1. a = x + v /\ x \in Int /\ a \in Int
    BY <1>1, <1>2, <1>5
  <2>2. x = R * q /\ a = R * q + v
    BY <1>5
  <2> HIDE DEF a, x
  <2>3. a \div R = q
    BY <1>1, <1>2, <2>2, DivisionUnique
  <2>4. a = x + (a % R) /\ a % R \in Int
    <3>1. a = R * (a \div R) + (a % R) /\ a % R \in Nat
      BY <1>1, <2>1, Division
    <3>2. a = R * q + (a % R)
      BY <2>3, <3>1
    <3>3. a = x + (a % R)
      BY <2>2, <3>2
    <3> QED BY <3>1, <3>3
  <2>5. a % R = v
    BY <1>1, <2>1, <2>4
  <2> QED BY <2>5 DEF a
<1>7. l \in 0 .. R - 1
  BY <1>1, <1>2
<1> QED BY <1>1, <1>5, <1>6, <1>7 DEF R, q, l, Word, Byte

\* Quot and Rem are integers, and from zero up they are \div and %.
LEMMA QuotFacts ==
    ASSUME NEW a \in Int, NEW b \in Nat, b >= 1
    PROVE  /\ Quot(a, b) \in Int /\ Rem(a, b) \in Int
<1>1. a \div b \in Int /\ (-a) \div b \in Int
  BY Division
<1>2. Quot(a, b) \in Int
  BY <1>1 DEF Quot
<1>3. b * Quot(a, b) \in Int
  BY <1>2
<1>4. Rem(a, b) \in Int
  BY <1>3 DEF Rem
<1> QED BY <1>2, <1>4

\* On naturals the truncating division of C# is the one of TLA+.
LEMMA QuotUp ==
    ASSUME NEW a \in Nat, NEW b \in Nat, b >= 1
    PROVE  Quot(a, b) = a \div b /\ Rem(a, b) = a % b
<1>1. Quot(a, b) = a \div b
  BY DEF Quot
<1>2. Rem(a, b) = a - b * (a \div b)
  BY <1>1 DEF Rem
<1> DEFINE x == b * (a \div b)
<1>3. x \in Int /\ a = x + (a % b) /\ a % b \in Int
  BY Division
<1>4. Rem(a, b) = a - x
  BY <1>2
<1> HIDE DEF x
<1> QED BY <1>1, <1>3, <1>4

\* The result of a READ holds integers, and for a sector of the image it names
\* the one after it: over the end of a track the head flips, over the end of a
\* cylinder the cylinder moves on.
LEMMA FinalChsTypes ==
    ASSUME NEW L \in Int
    PROVE  /\ FinalChs(L) \in Seq(Int) /\ Len(FinalChs(L)) = 3
<1>1. Spt \in Nat /\ Spt >= 1 /\ Heads * Spt \in Nat /\ Heads * Spt >= 1 /\ Heads \in Nat /\ Heads >= 1
  BY DiskFacts DEF Heads
<1> DEFINE s == Rem(L, Spt) + 2
           h == Rem(Quot(L, Spt), Heads)
           c == Quot(L, Heads * Spt)
           other == IF h % 2 = 0 THEN h + 1 ELSE h - 1
<1>2. s \in Int /\ c \in Int /\ Quot(L, Spt) \in Int
  <2>1. Rem(L, Spt) \in Int /\ Quot(L, Spt) \in Int
    BY <1>1, QuotFacts
  <2> DEFINE n == Heads * Spt
  <2>2. n \in Nat /\ n >= 1
    BY <1>1
  <2> HIDE DEF n
  <2>3. Quot(L, n) \in Int
    BY <2>2, QuotFacts
  <2> QED BY <2>1, <2>3 DEF n
<1>3. h \in Int
  <2> DEFINE x == Quot(L, Spt)
  <2>1. x \in Int
    BY <1>2
  <2> HIDE DEF x
  <2>2. Rem(x, Heads) \in Int
    BY <1>1, <2>1, QuotFacts
  <2> QED BY <2>2 DEF x
<1> HIDE DEF s, c, h
<1>4. other \in Int /\ s % 256 \in Int /\ c + 1 \in Int
  BY <1>2, <1>3
<1>5. FinalChs(L) = IF s <= Spt THEN <<c, h, s % 256>>
                    ELSE <<IF other = 0 THEN c + 1 ELSE c, other, 1>>
  BY DEF FinalChs, s, h, c
<1> HIDE DEF other
<1> QED BY <1>2, <1>3, <1>4, <1>5

\* FinalChs is the address of the sector after L, over the end of a track and of
\* a cylinder.
LEMMA NextSector ==
    ASSUME NEW L \in Nat
    PROVE  LET e == FinalChs(L)
           IN  e[2] \in 0 .. 1 /\ e[3] \in 1 .. Spt /\ Lba(e[1], e[2], e[3]) = L + 1
<1> DEFINE q == L \div Spt
           r == L % Spt
           h == q % 2
           c == q \div 2
<1>1. Spt \in Nat /\ Spt >= 1 /\ Spt <= 255
  BY DiskFacts
<1>2. q \in Nat /\ r \in Nat /\ r < Spt /\ L = Spt * q + r
  BY <1>1, Division
<1> HIDE DEF q, r
<1>3. h \in 0 .. 1 /\ c \in Nat /\ q = 2 * c + h
  BY <1>2
<1> HIDE DEF h, c
<1>4. Rem(L, Spt) = r /\ Quot(L, Spt) = q
  BY <1>1, QuotUp DEF q, r
<1>5. Rem(q, 2) = h
  BY <1>2, QuotUp DEF h
<1>6. Quot(L, 2 * Spt) = c
  <2> DEFINE n == 2 * Spt
             t == Spt * h + r
  <2>1. n \in Nat /\ n >= 1
    BY <1>1
  <2>2. t \in Nat /\ t < n
    <3>1. CASE h = 0
      BY <1>1, <1>2, <3>1
    <3>2. CASE h = 1
      BY <1>1, <1>2, <3>2
    <3> QED BY <1>3, <3>1, <3>2
  <2>3. L = n * c + t
    <3>1. Spt * (2 * c + h) = Spt * (2 * c) + Spt * h
      BY <1>1, <1>3
    <3>2. (2 * Spt) * c = Spt * (2 * c)
      BY <1>1, <1>3
    <3> DEFINE x == Spt * (2 * c)
               y == Spt * h
    <3>3. L = (x + y) + r /\ x \in Int /\ y \in Int /\ n * c = x /\ t = y + r
      BY <1>1, <1>2, <1>3, <3>1, <3>2
    <3> HIDE DEF x, y, n, t
    <3> QED BY <1>2, <3>3
  <2> HIDE DEF n, t
  <2>4. L \div n = c
    BY <1>3, <2>1, <2>2, <2>3, DivisionUnique
  <2>5. Quot(L, n) = c
    BY <2>1, <2>4, QuotUp
  <2> QED BY <2>5 DEF n
<1>7. FinalChs(L) = IF r + 2 <= Spt THEN <<c, h, (r + 2) % 256>>
                    ELSE <<IF h = 1 THEN c + 1 ELSE c, IF h = 0 THEN 1 ELSE 0, 1>>
  <2>1. FinalChs(L) = LET other == IF h % 2 = 0 THEN h + 1 ELSE h - 1
                      IN  IF r + 2 <= Spt THEN <<c, h, (r + 2) % 256>>
                          ELSE <<IF other = 0 THEN c + 1 ELSE c, other, 1>>
    BY <1>4, <1>5, <1>6 DEF FinalChs, Heads
  <2>2. CASE h = 0
    BY <2>1, <2>2
  <2>3. CASE h = 1
    BY <2>1, <2>3
  <2> QED BY <1>3, <2>2, <2>3
<1>8. Spt * q = (c * 2 + h) * Spt
  <2>1. c * 2 + h = q
    BY <1>3
  <2> QED BY <1>1, <1>2, <2>1
<1>9. CASE r + 2 <= Spt
  <2>1. (r + 2) % 256 = r + 2 /\ r + 2 \in 1 .. Spt
    BY <1>1, <1>2, <1>9
  <2>2. FinalChs(L) = <<c, h, r + 2>>
    BY <1>7, <1>9, <2>1
  <2>3. Lba(c, h, r + 2) = L + 1
    <3> DEFINE x == Spt * q
    <3>1. x \in Int /\ L = x + r /\ Lba(c, h, r + 2) = x + ((r + 2) - 1)
      BY <1>1, <1>2, <1>8 DEF Lba, Heads
    <3> HIDE DEF x
    <3> QED BY <1>2, <3>1
  <2> QED BY <1>3, <2>1, <2>2, <2>3
<1>10. CASE ~(r + 2 <= Spt)
  <2>1. r = Spt - 1
    BY <1>1, <1>2, <1>10
  <2> DEFINE x == Spt * q
  <2>2. x \in Int /\ L + 1 = x + Spt /\ x = (c * 2 + h) * Spt
    BY <1>1, <1>2, <1>8, <2>1
  <2> HIDE DEF x
  <2>3. CASE h = 0
    <3>1. FinalChs(L) = <<c, 1, 1>>
      BY <1>7, <1>10, <2>3
    <3>2. (c * 2 + 1) * Spt = (c * 2 + 0) * Spt + Spt
      BY <1>1, <1>3
    <3>3. Lba(c, 1, 1) = L + 1
      BY <1>1, <1>2, <2>2, <2>3, <3>2 DEF Lba, Heads
    <3> QED BY <1>1, <3>1, <3>3
  <2>4. CASE h = 1
    <3>1. FinalChs(L) = <<c + 1, 0, 1>>
      BY <1>7, <1>10, <2>4
    <3>2. ((c + 1) * 2 + 0) * Spt = (c * 2 + 1) * Spt + Spt
      BY <1>1, <1>3
    <3>3. Lba(c + 1, 0, 1) = L + 1
      BY <1>1, <1>2, <2>2, <2>4, <3>2 DEF Lba, Heads
    <3> QED BY <1>1, <3>1, <3>3
  <2> QED BY <1>3, <2>3, <2>4
<1> QED BY <1>9, <1>10

-----------------------------------------------------------------------------
(* Types, by the part of the controller they belong to. *)

BufferTypes ==
    /\ phase \in {"Idle", "Command", "Result"}
    /\ op \in Ops \cup {"none"} /\ args \in Seq(Nat) /\ Len(args) <= ArgCount(op)
    /\ res \in Seq(Int) /\ pos \in 0 .. 7

EventTypes ==
    /\ st0 \in 0 .. 255 /\ last \in 0 .. 255
    /\ intPending \in BOOLEAN /\ irq \in BOOLEAN /\ imr \in BOOLEAN
    /\ seen \in BOOLEAN /\ mixed \in BOOLEAN /\ told \in BOOLEAN /\ muted \in BOOLEAN

DmaTypes ==
    /\ dma \in [base : Word, count : Word, page : Byte, flip : BOOLEAN]
    /\ meant \in [Regs -> Word \cup {Unset}]
    /\ half \in [reg : Regs \cup {"none", "off"}, low : Byte]

\* The types by who writes them: the command interface, the interrupt side, the
\* DMA channel.
LEMMA TypeParts ==
    TypeOK <=> /\ BufferTypes /\ EventTypes /\ DmaTypes
               /\ pcn \in [Drives -> Seeks] /\ nReset \in BOOLEAN
               /\ guest \in {"polite", "rude", "loader"} /\ DOMAIN wrote \subseteq Cell
BY DEF TypeOK, BufferTypes, EventTypes, DmaTypes

\* A completion of a status byte, and a command without one.
LEMMA CompletesTypes ==
    ASSUME EventTypes, NEW s \in 0 .. 255, NEW r \in 0 .. 255, Completes(s, r)
    PROVE  EventTypes'
<1>1. st0' \in 0 .. 255 /\ last' \in 0 .. 255
  BY DEF Completes
<1>2. /\ intPending' \in BOOLEAN /\ irq' \in BOOLEAN /\ imr' \in BOOLEAN
      /\ seen' \in BOOLEAN /\ mixed' \in BOOLEAN /\ told' \in BOOLEAN /\ muted' \in BOOLEAN
  BY DEF Completes, AssertIrq, EventTypes
<1> QED BY <1>1, <1>2 DEF EventTypes

\* Without a completion the interrupt side stays as it is.
LEMMA NoEventTypes == EventTypes /\ NoEvent => EventTypes' /\ st0' = st0
BY DEF EventTypes, NoEvent

\* The bytes of a command o so far.
Sent(o, a) ==
    /\ o \in Ops /\ a \in Seq(Nat) /\ Len(a) <= ArgCount(o)
    /\ \A i \in 1 .. Len(a) : a[i] \in ArgBytes(o, i)

\* What a guest may send depends on the kind of guest alone.
LEMMA SameBytes == ASSUME NEW o, NEW i, guest' = guest PROVE ArgBytes(o, i)' = ArgBytes(o, i)
BY DEF ArgBytes

\* What the handlers need to know of a complete command.
LEMMA Arguments ==
    ASSUME NEW o, NEW a, Sent(o, a), Len(a) = ArgCount(o)
    PROVE  /\ o \in {"driveStatus", "recalibrate", "readId", "seek", "read"} => a[1] \in Drives
           /\ o = "seek" => a[2] \in Seeks
           /\ o = "read" => a[2] \in Nat /\ a[3] \in Nat /\ a[4] \in Nat /\ a[5] \in Nat
<1>1. ASSUME o \in {"driveStatus", "recalibrate", "readId", "seek", "read"} PROVE a[1] \in Drives
  <2>1. 1 \in 1 .. Len(a)
    BY <1>1 DEF ArgCount, Sent
  <2>2. a[1] \in ArgBytes(o, 1)
    BY <2>1 DEF Sent
  <2> QED BY <1>1, <2>2, DiskFacts DEF ArgBytes
<1>2. ASSUME o = "seek" PROVE a[2] \in Seeks
  <2>1. Len(a) = 2
    BY <1>2 DEF ArgCount
  <2>2. a[2] \in ArgBytes(o, 2)
    BY <2>1 DEF Sent
  <2> QED BY <1>2, <2>2 DEF ArgBytes
<1>3. ASSUME o = "read" PROVE a[2] \in Nat /\ a[3] \in Nat /\ a[4] \in Nat /\ a[5] \in Nat
  <2>1. Len(a) = 8
    BY <1>3 DEF ArgCount
  <2>2. a[2] \in Nat /\ a[3] \in Nat /\ a[4] \in Nat /\ a[5] \in ArgBytes(o, 5)
    <3>1. /\ 2 \in 1 .. Len(a) /\ 3 \in 1 .. Len(a) /\ 4 \in 1 .. Len(a) /\ 5 \in 1 .. Len(a)
          /\ a \in Seq(Nat)
      BY <2>1 DEF Sent
    <3>2. a[5] \in ArgBytes(o, 5)
      BY <3>1 DEF Sent
    <3>3. a[2] \in Nat /\ a[3] \in Nat /\ a[4] \in Nat
      BY <3>1
    <3> QED BY <3>2, <3>3
  <2>3. ArgBytes("read", 5) \subseteq Nat
    BY DiskFacts DEF ArgBytes
  <2> QED BY <1>3, <2>2, <2>3
<1> QED BY <1>1, <1>2, <1>3

\* A result of a complete command, and going back to Idle.
LEMMA ResultBuffers ==
    ASSUME NEW o, NEW a, Sent(o, a), Len(a) = ArgCount(o), NEW bytes \in Seq(Int), Len(bytes) <= 7,
           Results(o, a, bytes), guest' = guest, st0' % 4 \in Drives
    PROVE  BufferTypes' /\ Buffers'
<1>1. phase' = "Result" /\ op' = o /\ args' = a /\ res' = bytes /\ pos' = 0
  BY DEF Results
<1>2. BufferTypes'
  BY <1>1 DEF BufferTypes, Sent
<1>3. \A i \in 1 .. Len(args') : args'[i] \in ArgBytes(op, i)'
  <2> TAKE i \in 1 .. Len(args')
  <2>1. args'[i] \in ArgBytes(o, i)
    BY <1>1 DEF Sent
  <2>2. ArgBytes(o, i)' = ArgBytes(o, i)
    BY SameBytes
  <2> QED BY <1>1, <2>1, <2>2 DEF ArgBytes
<1> QED BY <1>1, <1>2, <1>3 DEF Buffers, Sent

\* A command without a result leaves empty buffers.
LEMMA IdleBuffers ==
    ASSUME NoResult, st0' % 4 \in Drives
    PROVE  BufferTypes' /\ Buffers' /\ DOMAIN wrote' \subseteq Cell /\ ReportsNextSector'
<1>1. /\ phase' = "Idle" /\ op' = "none" /\ args' = <<>> /\ res' = <<>> /\ pos' = 0 /\ wrote' = <<>>
  BY DEF NoResult
<1>2. Len(<<>>) = 0 /\ <<>> \in Seq(Nat) /\ <<>> \in Seq(Int) /\ DOMAIN <<>> = {} /\ ArgCount("none") = 0
  BY DEF ArgCount
<1>3. BufferTypes'
  BY <1>1, <1>2 DEF BufferTypes
<1> QED BY <1>1, <1>2, <1>3 DEF Buffers, ReportsNextSector

\* The DMA registers are left alone.
LEMMA SameDma ==
    ASSUME DmaTypes, Programmed, UNCHANGED <<dma, intent>>
    PROVE  DmaTypes' /\ Programmed'
BY DEF DmaTypes, Programmed, intent

\* Every command but READ DATA.
LEMMA CommandStep ==
    ASSUME DiskInv, NEW o, NEW a, Sent(o, a), Len(a) = ArgCount(o), o # "read", ExecuteCommand(o, a),
           UNCHANGED <<nReset, guest>>
    PROVE  DiskInv'
<1>1. /\ BufferTypes /\ EventTypes /\ DmaTypes /\ Programmed /\ st0 % 4 \in Drives
      /\ pcn \in [Drives -> Seeks] /\ DOMAIN wrote \subseteq Cell
      /\ nReset' \in BOOLEAN /\ guest' \in {"polite", "rude", "loader"}
  BY TypeParts DEF DiskInv, Buffers
<1>2. \A d \in Drives : d \in 0 .. 3 /\ d % 4 = d /\ (32 + d) % 4 = d /\ pcn[d] \in Int
  <2>1. \A d \in Drives : pcn[d] \in Seeks
    BY <1>1
  <2>2. \A d \in Drives : pcn[d] \in Int
    <3>1. Seeks \subseteq Int
      BY DiskFacts
    <3> QED BY <2>1, <3>1
  <2>3. \A d \in Drives : d \in 0 .. 3 /\ d % 4 = d /\ (32 + d) % 4 = d
    BY DiskFacts
  <2> QED BY <2>2, <2>3
<1>3. SUFFICES /\ BufferTypes' /\ Buffers' /\ EventTypes' /\ UNCHANGED <<dma, intent>>
               /\ pcn' \in [Drives -> Seeks] /\ DOMAIN wrote' \subseteq Cell
               /\ ReportsNextSector'
  <2>1. TypeOK' <=> (/\ BufferTypes /\ EventTypes /\ DmaTypes
                     /\ pcn \in [Drives -> Seeks] /\ nReset \in BOOLEAN
                     /\ guest \in {"polite", "rude", "loader"} /\ DOMAIN wrote \subseteq Cell)'
    BY TypeParts DEF TypeOK, BufferTypes, EventTypes, DmaTypes
  <2> QED BY <1>1, <2>1, SameDma DEF DiskInv
<1>4. CASE o = "specify" /\ ExecSpecify
  BY <1>1, <1>4, IdleBuffers, NoEventTypes DEF ExecSpecify, NoResult
<1>5. CASE o = "driveStatus" /\ ExecSenseDriveStatus(a)
  <2> DEFINE x == a[1] + 8 + (IF a[1] \in Mounted THEN 32 ELSE 0) + (IF pcn[a[1]] = 0 THEN 16 ELSE 0)
  <2>1. Results(o, a, <<x>>) /\ NoEvent /\ UNCHANGED <<pcn, dma, wrote, intent>>
    BY <1>5 DEF ExecSenseDriveStatus
  <2>2. x \in Int
    BY <1>2, <1>5, Arguments
  <2> HIDE DEF x
  <2>3. <<x>> \in Seq(Int) /\ Len(<<x>>) <= 7
    BY <2>2
  <2>4. BufferTypes' /\ Buffers' /\ EventTypes'
    BY <1>1, <2>1, <2>3, NoEventTypes, ResultBuffers
  <2>5. ReportsNextSector'
    BY <1>5, <2>1 DEF ReportsNextSector, Results
  <2> QED BY <1>1, <2>1, <2>4, <2>5
<1>6. CASE (o = "recalibrate" /\ ExecRecalibrate(a)) \/ (o = "seek" /\ ExecSeek(a))
  <2> DEFINE s == 32 + a[1]
  <2>1. Completes(s, s) /\ NoResult /\ UNCHANGED <<dma, intent>>
    BY <1>6 DEF ExecRecalibrate, ExecSeek
  <2>2. s \in 0 .. 255 /\ s % 4 \in Drives
    <3>1. a[1] \in Drives
      BY <1>6, Arguments
    <3> DEFINE d == a[1]
    <3>2. d \in Drives /\ d \in 0 .. 3
      BY <1>2, <3>1
    <3> HIDE DEF d
    <3>3. 32 + d \in 0 .. 255 /\ (32 + d) % 4 = d
      BY <3>2
    <3>4. (32 + d) % 4 \in Drives
      BY <3>2, <3>3
    <3> QED BY <3>3, <3>4 DEF d
  <2> HIDE DEF s
  <2>3. EventTypes' /\ st0' = s
    BY <1>1, <2>1, <2>2, CompletesTypes DEF Completes
  <2>4. BufferTypes' /\ Buffers' /\ DOMAIN wrote' \subseteq Cell /\ ReportsNextSector'
    BY <2>1, <2>2, <2>3, IdleBuffers
  <2>5. pcn' \in [Drives -> Seeks]
    <3>1. CASE o = "recalibrate" /\ ExecRecalibrate(a)
      <4>1. 0 \in Seeks
        BY DiskFacts
      <4> QED BY <1>1, <3>1, <4>1 DEF ExecRecalibrate
    <3>2. CASE o = "seek" /\ ExecSeek(a)
      <4>1. a[2] \in Seeks
        BY <3>2, Arguments
      <4> QED BY <1>1, <3>2, <4>1 DEF ExecSeek
    <3> QED BY <1>6, <3>1, <3>2
  <2> QED BY <2>1, <2>3, <2>4, <2>5
<1>7. CASE o = "sense" /\ ExecSenseInterrupt
  <2> DEFINE bytes == IF intPending THEN <<st0, pcn[st0 % 4]>> ELSE <<128>>
  <2>1. /\ Results("sense", <<>>, bytes) /\ intPending' = FALSE
        /\ UNCHANGED <<st0, irq, imr, last, seen, mixed, told, muted, pcn, dma, wrote, intent>>
    BY <1>7 DEF ExecSenseInterrupt
  <2>2. bytes \in Seq(Int) /\ Len(bytes) <= 7
    <3>1. st0 \in Int /\ pcn[st0 % 4] \in Int
      BY <1>1, <1>2 DEF EventTypes
    <3> QED BY <3>1
  <2> HIDE DEF bytes
  <2>3. Sent("sense", <<>>) /\ Len(<<>>) = ArgCount("sense")
    BY DEF Sent, ArgCount, Ops
  <2>4. BufferTypes' /\ Buffers'
    BY <1>1, <2>1, <2>2, <2>3, ResultBuffers
  <2>5. EventTypes'
    BY <1>1, <2>1 DEF EventTypes
  <2>6. ReportsNextSector'
    BY <2>1 DEF ReportsNextSector, Results
  <2> QED BY <1>1, <2>1, <2>4, <2>5, <2>6
<1>8. CASE o = "readId" /\ ExecReadId(a)
  <2> DEFINE d == a[1]
             bytes == <<d, 0, 0, pcn[d], 0, 1, 2>>
  <2>1. /\ Results(o, a, bytes) /\ Completes(d, d) /\ UNCHANGED <<pcn, dma, wrote, intent>>
    BY <1>8 DEF ExecReadId
  <2>2. d \in 0 .. 255 /\ d % 4 \in Drives /\ pcn[d] \in Int
    BY <1>2, <1>8, Arguments
  <2>3. bytes \in Seq(Int) /\ Len(bytes) <= 7
    <3> HIDE DEF d
    <3> QED BY <2>2
  <2> HIDE DEF bytes, d
  <2>4. EventTypes' /\ st0' = d
    BY <1>1, <2>1, <2>2, CompletesTypes DEF Completes
  <2>5. BufferTypes' /\ Buffers'
    BY <2>1, <2>2, <2>3, <2>4, ResultBuffers
  <2>6. ReportsNextSector'
    BY <1>8, <2>1 DEF ReportsNextSector, Results
  <2> QED BY <1>1, <2>1, <2>4, <2>5, <2>6
<1>9. CASE o = "other" /\ ExecInvalid
  <2>1. Results("other", <<>>, <<128>>) /\ NoEvent /\ UNCHANGED <<pcn, dma, wrote, intent>>
    BY <1>9 DEF ExecInvalid
  <2>2. Sent("other", <<>>) /\ Len(<<>>) = ArgCount("other") /\ <<128>> \in Seq(Int) /\ Len(<<128>>) <= 7
    BY DEF Sent, ArgCount, Ops
  <2>3. BufferTypes' /\ Buffers' /\ EventTypes'
    BY <1>1, <2>1, <2>2, NoEventTypes, ResultBuffers
  <2>4. ReportsNextSector'
    BY <2>1 DEF ReportsNextSector, Results
  <2> QED BY <1>1, <2>1, <2>3, <2>4
<1> QED BY <1>4, <1>5, <1>6, <1>7, <1>8, <1>9 DEF ExecuteCommand

-----------------------------------------------------------------------------
(* READ DATA *)

\* The part of a burst of n cells from cell A on that RAM has.
Window(A, n) == {x \in Cell : A <= x /\ x < A + n}

\* The cells a burst of n bytes from A on writes.
LEMMA WindowCells ==
    ASSUME NEW A \in Nat, NEW n \in Int
    PROVE  {A + i : i \in {j \in 0 .. n - 1 : A + j < RamSize}} = Window(A, n)
<1>1. RamSize \in Nat
  BY DiskFacts
<1>2. ASSUME NEW x \in Window(A, n) PROVE \E i \in {j \in 0 .. n - 1 : A + j < RamSize} : x = A + i
  <2>1. x \in Nat /\ x < RamSize /\ A <= x /\ x < A + n
    BY <1>1 DEF Window, Cell
  <2>2. x - A \in 0 .. n - 1 /\ A + (x - A) = x
    BY <2>1
  <2> DEFINE i == x - A
  <2>3. i \in 0 .. n - 1 /\ x = A + i
    BY <2>2
  <2> HIDE DEF i
  <2> QED BY <2>1, <2>3
<1>3. ASSUME NEW i \in {j \in 0 .. n - 1 : A + j < RamSize} PROVE A + i \in Window(A, n)
  BY <1>1 DEF Window, Cell
<1> QED BY <1>2, <1>3

\* The result of a burst from sector b that stays within RAM and ends with a
\* whole sector names the next one.
LEMMA BurstReport ==
    ASSUME NEW A \in Nat, NEW n \in Int, NEW b \in Int, NEW W,
           W = [x \in Window(A, n) |-> Source(b, x - A)],
           DOMAIN W # {}, RamSize - 1 \notin DOMAIN W,
           NEW next, next = Max({W[x] : x \in DOMAIN W}) + 1, next > 0, next % SecSize = 0
    PROVE  LET e == FinalChs(b + Quot(n, 2) - 1)
           IN  e[2] \in 0 .. Heads - 1 /\ e[3] \in 1 .. Spt /\ Lba(e[1], e[2], e[3]) * SecSize = next
<1>1. RamSize \in Nat /\ RamSize >= 1 /\ DOMAIN W = Window(A, n)
  BY DiskFacts
<1>2. n >= 1 /\ A + n <= RamSize - 1
  <2>1. PICK x \in Cell : A <= x /\ x < A + n
    BY <1>1 DEF Window
  <2>2. x \in Nat /\ x <= RamSize - 1
    BY <1>1, <2>1 DEF Cell
  <2>3. ~(RamSize - 1 < A + n)
    <3>1. RamSize - 1 \in Cell /\ A <= RamSize - 1
      BY <1>1, <2>1, <2>2 DEF Cell
    <3> QED BY <1>1, <3>1 DEF Window
  <2> QED BY <1>1, <2>1, <2>2, <2>3
<1>3. A + n - 1 \in Window(A, n) /\ \A x \in Window(A, n) : x \in Int /\ A <= x /\ x <= A + n - 1
  BY <1>1, <1>2 DEF Window, Cell
<1>4. \A x \in Window(A, n) : W[x] = Source(b, x - A)
  OBVIOUS
<1> DEFINE V == {W[x] : x \in DOMAIN W}
           top == A + n - 1
<1>5. b >= 0
  <2> SUFFICES ASSUME b < 0 PROVE FALSE
    OBVIOUS
  <2>1. \A x \in Window(A, n) : W[x] = -1
    BY <1>3, <1>4 DEF Source
  <2>2. V \in SUBSET Int /\ -1 \in V /\ \A y \in V : y <= -1
    BY <1>1, <1>3, <2>1
  <2> HIDE DEF V
  <2>3. Max(V) = -1
    BY <2>2, Greatest
  <2> QED BY <2>3 DEF V
<1>6. next = b * 2 + n
  <2> DEFINE g == b * 2 + (n - 1)
  <2>1. \A x \in Window(A, n) : W[x] = b * 2 + (x - A)
    BY <1>4, <1>5 DEF Source, SecSize
  <2>2. g \in Int /\ W[top] = g
    <3>1. top \in Window(A, n) /\ top - A = n - 1
      BY <1>3
    <3> QED BY <2>1, <3>1
  <2>3. V \in SUBSET Int /\ \A y \in V : y <= g
    BY <1>1, <1>3, <2>1
  <2>4. g \in V
    BY <1>1, <1>3, <2>2
  <2> HIDE DEF V, g
  <2>5. Max(V) = g
    BY <2>3, <2>4, Greatest
  <2> QED BY <2>5 DEF V, g
<1> DEFINE k == n \div 2
<1>7. n = 2 * k /\ k \in Nat /\ k >= 1
  BY <1>2, <1>5, <1>6 DEF SecSize
<1>8. Quot(n, 2) = k
  <2>1. n \in Nat
    BY <1>2
  <2> QED BY <2>1 DEF Quot
<1> HIDE DEF k
<1> DEFINE L == b + k - 1
<1>9. L \in Nat /\ L + 1 = b + k
  BY <1>5, <1>7
<1> HIDE DEF L
<1>10. LET e == FinalChs(L)
       IN  e[2] \in 0 .. 1 /\ e[3] \in 1 .. Spt /\ Lba(e[1], e[2], e[3]) = L + 1
  BY <1>9, NextSector
<1>11. (L + 1) * SecSize = next
  BY <1>6, <1>7, <1>9 DEF SecSize
<1> QED BY <1>8, <1>10, <1>11 DEF L, Heads

\* The size of a burst and the address it starts at.
LEMMA BurstTypes ==
    ASSUME DmaTypes, NEW b \in Int
    PROVE  /\ Channel2PhysicalAddress \in Nat /\ BurstSize(b) \in Int
           /\ BurstSize(b) = IF dma.count + 1 <= (TotalSectors - b) * SecSize THEN dma.count + 1
                             ELSE (TotalSectors - b) * SecSize
<1>1. Radix \in Nat /\ dma.count \in Nat /\ dma.base \in Nat /\ dma.page \in Nat
  BY DiskFacts DEF DmaTypes, Word, Byte
<1>2. TotalSectors \in Int
  BY DiskFacts DEF TotalSectors, Heads
<1> DEFINE x == dma.count + 1
           y == (TotalSectors - b) * SecSize
<1>3. x \in Int /\ y \in Int
  BY <1>1, <1>2 DEF SecSize
<1>4. BurstSize(b) = Min({x, y})
  BY DEF BurstSize, Channel2TransferBytes
<1> HIDE DEF x, y
<1>5. BurstSize(b) = IF x <= y THEN x ELSE y
  BY <1>3, <1>4, LeastOfTwo
<1>6. Channel2PhysicalAddress \in Nat
  BY <1>1 DEF Channel2PhysicalAddress
<1>7. BurstSize(b) \in Int
  BY <1>3, <1>5
<1> QED BY <1>5, <1>6, <1>7 DEF x, y

\* A READ from a drive with an image writes the cells of its burst.
LEMMA BurstWrites ==
    ASSUME DmaTypes, NEW a, NEW b \in Int, b = Lba(a[2], a[3], a[4]), a[1] \in Mounted, ExecReadData(a)
    PROVE  /\ wrote' = [x \in Window(Channel2PhysicalAddress, BurstSize(b)) |->
                         Source(b, x - Channel2PhysicalAddress)]
           /\ Channel2PhysicalAddress \in Nat
<1> DEFINE n == BurstSize(b)
           A == Channel2PhysicalAddress
<1>1. wrote' = [x \in {A + i : i \in {j \in 0 .. n - 1 : A + j < RamSize}} |-> Source(b, x - A)]
  BY DEF ExecReadData
<1>2. A \in Nat /\ n \in Int
  BY BurstTypes
<1> HIDE DEF A, n
<1>3. wrote' = [x \in Window(A, n) |-> Source(b, x - A)]
  BY <1>1, <1>2, WindowCells
<1> QED BY <1>2, <1>3 DEF A, n

\* The end of a burst forgets what the guest meant.
LEMMA BurstRegisters ==
    ASSUME DmaTypes, Programmed, NEW n \in Nat, OnChannel2BurstComplete(n)
    PROVE  DmaTypes' /\ Programmed'
<1> DEFINE w == (dma.base + n) % (Radix * Radix)
<1>1. Radix * Radix \in Nat /\ Radix * Radix >= 1 /\ dma.base \in Nat /\ 0 \in Byte
  <2>1. Radix \in Nat /\ Radix >= 1
    BY DiskFacts
  <2>2. Radix * Radix >= 1 /\ Radix * Radix \in Nat
    BY <2>1
  <2>3. dma.base \in Nat /\ 0 \in Byte
    BY <2>1, <2>2 DEF DmaTypes, Word, Byte
  <2> QED BY <2>2, <2>3
<1>2. w \in Word /\ MaxWord \in Word
  <2> DEFINE m == Radix * Radix
             s == dma.base + n
  <2>1. m \in Nat /\ m >= 1 /\ s \in Nat
    BY <1>1
  <2> HIDE DEF m, s
  <2>2. s % m \in 0 .. m - 1 /\ m - 1 \in 0 .. m - 1
    BY <2>1, Division
  <2> QED BY <2>2 DEF m, s, Word, MaxWord
<1> HIDE DEF w
<1>3. dma' = [dma EXCEPT !.base = w, !.count = MaxWord] /\ meant' = NoIntent
      /\ half' = IF half = NoPair THEN NoPair ELSE OffPair
  BY DEF OnChannel2BurstComplete, w
<1>4. dma' \in [base : Word, count : Word, page : Byte, flip : BOOLEAN] /\ dma'.flip = dma.flip
  BY <1>2, <1>3 DEF DmaTypes
<1>5. meant' \in [Regs -> Word \cup {Unset}] /\ \A r \in Regs : meant'[r] = Unset
  BY <1>3 DEF NoIntent
<1>6. half' \in [reg : Regs \cup {"none", "off"}, low : Byte] /\ half'.reg \notin Regs
  BY <1>1, <1>3 DEF NoPair, OffPair, Regs
<1>7. half'.reg = "none" => ~dma'.flip
  BY <1>3, <1>4 DEF Programmed, NoPair, OffPair
<1> QED BY <1>4, <1>5, <1>6, <1>7 DEF DmaTypes, Programmed

\* The bytes of its result.
LEMMA ReadResultBytes ==
    ASSUME NEW x \in Int, NEW y \in Int, NEW e \in Seq(Int), Len(e) = 3
    PROVE  LET bytes == <<x, 0, 0>> \o e \o <<y>>
           IN  /\ bytes \in Seq(Int) /\ Len(bytes) = 7
               /\ bytes[4] = e[1] /\ bytes[5] = e[2] /\ bytes[6] = e[3]
<1> DEFINE s == <<x, 0, 0>>
           t == <<y>>
           u == s \o e
           v == u \o t
<1>1. s \in Seq(Int) /\ Len(s) = 3 /\ t \in Seq(Int) /\ Len(t) = 1
  OBVIOUS
<1> HIDE DEF s, t
<1>2. /\ u \in Seq(Int) /\ Len(u) = Len(s) + Len(e)
      /\ \A i \in 1 .. Len(s) + Len(e) : u[i] = IF i <= Len(s) THEN s[i] ELSE e[i - Len(s)]
  BY <1>1, ConcatProperties, Zenon
<1> HIDE DEF u
<1>3. Len(u) = 6 /\ \A i \in 1 .. 6 : u[i] = IF i <= 3 THEN s[i] ELSE e[i - 3]
  BY <1>1, <1>2
<1>4. u[4] = e[1] /\ u[5] = e[2] /\ u[6] = e[3]
  BY <1>3
<1>5. u \in Seq(Int) /\ t \in Seq(Int)
  BY <1>1, <1>2
<1>6. /\ v \in Seq(Int) /\ Len(v) = Len(u) + Len(t)
      /\ \A i \in 1 .. Len(u) + Len(t) : v[i] = IF i <= Len(u) THEN u[i] ELSE t[i - Len(u)]
  BY <1>5, ConcatProperties, Zenon
<1> HIDE DEF v
<1>7. Len(v) = 7 /\ \A i \in 1 .. 6 : v[i] = u[i]
  BY <1>1, <1>3, <1>6
<1>8. v[4] = u[4] /\ v[5] = u[5] /\ v[6] = u[6]
  BY <1>7
<1>9. v = <<x, 0, 0>> \o e \o <<y>>
  BY DEF s, t, u, v
<1> QED BY <1>4, <1>6, <1>7, <1>8, <1>9, Zenon

\* READ DATA, from an empty drive, without a DMA window, and with one.
LEMMA ReadDataStep ==
    ASSUME DiskInv, NEW a, Sent("read", a), Len(a) = 8, ExecReadData(a), UNCHANGED <<nReset, guest>>
    PROVE  DiskInv'
<1>1. /\ BufferTypes /\ EventTypes /\ DmaTypes /\ Programmed /\ st0 % 4 \in Drives
      /\ pcn \in [Drives -> Seeks]
      /\ nReset' \in BOOLEAN /\ guest' \in {"polite", "rude", "loader"}
  BY TypeParts DEF DiskInv, Buffers
<1>2. /\ Len(a) = ArgCount("read") /\ a[1] \in Drives
      /\ a[2] \in Nat /\ a[3] \in Nat /\ a[4] \in Nat /\ a[5] \in Nat
  <2>1. Len(a) = ArgCount("read")
    BY DEF ArgCount
  <2> QED BY <2>1, Arguments
<1>3. a[1] \in 0 .. 3 /\ a[1] % 4 = a[1] /\ 64 + a[1] \in 0 .. 255
  <2> DEFINE d == a[1]
  <2>1. d \in 0 .. 3
    BY <1>2, DiskFacts
  <2> HIDE DEF d
  <2>2. d % 4 = d /\ 64 + d \in 0 .. 255
    BY <2>1
  <2> QED BY <2>1, <2>2 DEF d
<1>4. pcn' = pcn
  BY DEF ExecReadData
<1>5. SUFFICES /\ BufferTypes' /\ Buffers' /\ EventTypes' /\ DmaTypes' /\ Programmed'
               /\ DOMAIN wrote' \subseteq Cell /\ ReportsNextSector'
  <2>1. TypeOK' <=> (/\ BufferTypes /\ EventTypes /\ DmaTypes
                     /\ pcn \in [Drives -> Seeks] /\ nReset \in BOOLEAN
                     /\ guest \in {"polite", "rude", "loader"} /\ DOMAIN wrote \subseteq Cell)'
    BY TypeParts DEF TypeOK, BufferTypes, EventTypes, DmaTypes
  <2> QED BY <1>1, <1>4, <2>1 DEF DiskInv
<1>6. CASE a[1] \notin Mounted
  <2> DEFINE bytes == <<64 + a[1], 1, 0, a[2], a[3], a[4], a[5]>>
  <2>1. /\ Results("read", a, bytes) /\ Completes(64 + a[1], st0)
        /\ wrote' = <<>> /\ UNCHANGED <<dma, intent>>
    BY <1>6 DEF ExecReadData
  <2>2. bytes \in Seq(Int) /\ Len(bytes) <= 7
    BY <1>2, <1>3
  <2> HIDE DEF bytes
  <2>3. EventTypes' /\ st0' = st0
    <3>1. st0 \in 0 .. 255
      BY <1>1 DEF EventTypes
    <3> QED BY <1>1, <1>3, <2>1, <3>1, CompletesTypes, ZenonT(60) DEF Completes
  <2>4. BufferTypes' /\ Buffers'
    BY <1>1, <1>2, <2>1, <2>2, <2>3, ResultBuffers
  <2>5. DOMAIN wrote' \subseteq Cell /\ ReportsNextSector'
    BY <2>1 DEF ReportsNextSector
  <2> QED BY <1>1, <2>1, <2>3, <2>4, <2>5, SameDma
<1>7. CASE a[1] \in Mounted
  <2> DEFINE b == Lba(a[2], a[3], a[4])
             n == BurstSize(b)
             A == Channel2PhysicalAddress
             p == SectorSize(a[5])
             m == 2 * n
             end == FinalChs(b + Quot(m, p) - 1)
             bytes == <<a[1], 0, 0>> \o end \o <<a[5]>>
  <2>1. /\ Results("read", a, bytes) /\ Completes(a[1], a[1])
        /\ IF n > 0 THEN OnChannel2BurstComplete(n) ELSE UNCHANGED <<dma, intent>>
    BY <1>7 DEF ExecReadData
  <2>2. b \in Int
    BY <1>2, DiskFacts DEF Lba, Heads
  <2>3. A \in Nat /\ n \in Int
    <3> HIDE DEF b
    <3> QED BY <1>1, <2>2, BurstTypes
  <2>4. p \in Nat /\ p >= 1 /\ (a[5] = 2 => p = 4)
    <3> DEFINE c == a[5]
               e == Min({c, 4})
    <3>1. c \in Nat
      BY <1>2
    <3> HIDE DEF c
    <3>2. e \in {0, 1, 2, 3, 4} /\ (c = 2 => e = 2)
      <4>1. e = IF c <= 4 THEN c ELSE 4
        BY <3>1, LeastOfTwo
      <4> HIDE DEF e
      <4> QED BY <3>1, <4>1
    <3> HIDE DEF e
    <3>3. 2 ^ 0 = 1 /\ 2 ^ 1 = 2 /\ 2 ^ 2 = 4 /\ 2 ^ 3 = 8 /\ 2 ^ 4 = 16
      OBVIOUS
    <3>4. 2 ^ e \in {1, 2, 4, 8, 16} /\ (e = 2 => 2 ^ e = 4)
      BY <3>2, <3>3, Zenon
    <3> DEFINE w == 2 ^ e
    <3>5. w \in {1, 2, 4, 8, 16} /\ (c = 2 => w = 4)
      BY <3>2, <3>4
    <3> HIDE DEF w
    <3>6. w \in Nat /\ w >= 1 /\ (c = 2 => w = 4)
      BY <3>5
    <3> QED BY <3>6 DEF w, c, e, SectorSize
  <2>5. wrote' = [x \in Window(A, n) |-> Source(b, x - A)]
    <3>1. b = Lba(a[2], a[3], a[4])
      OBVIOUS
    <3> HIDE DEF b
    <3> QED BY <1>1, <1>7, <2>2, <3>1, BurstWrites
  <2>6. end \in Seq(Int) /\ Len(end) = 3
    <3> DEFINE L == b + Quot(m, p) - 1
    <3>1. L \in Int
      <4> HIDE DEF b, n, p
      <4>1. Quot(m, p) \in Int
        BY <2>3, <2>4, QuotFacts
      <4> QED BY <2>2, <4>1
    <3> HIDE DEF L
    <3>2. FinalChs(L) \in Seq(Int) /\ Len(FinalChs(L)) = 3
      BY <3>1, FinalChsTypes
    <3> QED BY <3>2 DEF L
  <2>7. a[5] = 2 => end = FinalChs(b + Quot(n, 2) - 1)
    <3> HIDE DEF b, n, p
    <3>1. Quot(m, 4) = Quot(n, 2)
      BY <2>3 DEF Quot
    <3> QED BY <2>4, <3>1
  <2> HIDE DEF b, n, A, p, m, end
  <2>8. /\ bytes \in Seq(Int) /\ Len(bytes) = 7
        /\ bytes[4] = end[1] /\ bytes[5] = end[2] /\ bytes[6] = end[3]
    <3>1. a[1] \in Int /\ a[5] \in Int
      BY <1>2, <1>3
    <3> QED BY <2>6, <3>1, ReadResultBytes
  <2> HIDE DEF bytes
  <2>9. EventTypes' /\ st0' = a[1]
    <3>1. a[1] \in 0 .. 255
      BY <1>3
    <3> QED BY <1>1, <2>1, <3>1, CompletesTypes DEF Completes
  <2>10. BufferTypes' /\ Buffers'
    <3>1. Len(bytes) <= 7 /\ st0' % 4 \in Drives
      BY <1>2, <1>3, <2>8, <2>9
    <3> QED BY <1>2, <2>1, <2>8, <3>1, ResultBuffers
  <2>11. DmaTypes' /\ Programmed'
    <3>1. CASE n > 0
      BY <1>1, <2>1, <2>3, <3>1, BurstRegisters
    <3>2. CASE ~(n > 0)
      BY <1>1, <2>1, <3>2, SameDma
    <3> QED BY <3>1, <3>2
  <2>12. DOMAIN wrote' \subseteq Cell
    BY <2>5 DEF Window
  <2>13. ReportsNextSector'
    <3>1. res' = bytes /\ args' = a
      BY <2>1 DEF Results
    <3> DEFINE W == wrote'
               next == Max({W[x] : x \in DOMAIN W}) + 1
    <3>2. SUFFICES ASSUME a[5] = 2, DOMAIN W # {}, RamSize - 1 \notin DOMAIN W,
                          next > 0, next % SecSize = 0
                   PROVE  /\ end[2] \in 0 .. Heads - 1 /\ end[3] \in 1 .. Spt
                          /\ Lba(end[1], end[2], end[3]) * SecSize = next
      BY <2>8, <3>1 DEF ReportsNextSector, Lba, SecSize, Heads
    <3> HIDE DEF next
    <3>3. next = Max({W[x] : x \in DOMAIN W}) + 1
      BY DEF next
    <3>4. W = [x \in Window(A, n) |-> Source(b, x - A)]
      BY <2>5
    <3> HIDE DEF W
    <3>5. LET e == FinalChs(b + Quot(n, 2) - 1)
          IN  e[2] \in 0 .. Heads - 1 /\ e[3] \in 1 .. Spt /\ Lba(e[1], e[2], e[3]) * SecSize = next
      BY <2>2, <2>3, <3>2, <3>3, <3>4, BurstReport
    <3> QED BY <2>7, <3>2, <3>5
  <2> QED BY <2>9, <2>10, <2>11, <2>12, <2>13
<1> QED BY <1>6, <1>7

-----------------------------------------------------------------------------
(* The other steps *)

\* Nothing but the DMA registers changes.
LEMMA OnlyDma ==
    ASSUME DiskInv, DmaTypes', Programmed', UNCHANGED <<fdc, pic, guest, wrote, events>>
    PROVE  DiskInv'
<1>1. /\ BufferTypes /\ EventTypes /\ Buffers /\ ReportsNextSector
      /\ pcn \in [Drives -> Seeks] /\ DOMAIN wrote \subseteq Cell
      /\ nReset \in BOOLEAN /\ guest \in {"polite", "rude", "loader"}
  BY TypeParts DEF DiskInv
<1>2. UNCHANGED <<phase, op, args, res, pos, pcn, st0, intPending, nReset, irq, imr,
                  guest, wrote, last, seen, mixed, told, muted>>
  BY DEF fdc, pic, events
<1>3. BufferTypes' /\ EventTypes'
  BY <1>1, <1>2 DEF BufferTypes, EventTypes
<1>4. Buffers'
  BY <1>1, <1>2 DEF Buffers, ArgBytes
<1>5. ReportsNextSector'
  BY <1>1, <1>2 DEF ReportsNextSector
<1> QED BY <1>1, <1>2, <1>3, <1>4, <1>5 DEF DiskInv, TypeOK, BufferTypes, EventTypes, DmaTypes

\* A byte written to a register goes into the half that the flip-flop names,
\* and completes what the guest meant if it accesses the registers in pairs.
LEMMA RegisterWritten ==
    ASSUME DmaTypes, Programmed, NEW r \in Regs, NEW v \in Byte, WriteRegister(r, v)
    PROVE  DmaTypes' /\ Programmed'
<1> DEFINE cur == dma[r]
           w == WriteFlipFlopByte(cur, v)
<1>1. cur \in Word /\ dma.flip \in BOOLEAN
  BY DEF DmaTypes, Regs
<1> HIDE DEF cur
<1>2. /\ w \in Word /\ (~dma.flip => w % Radix = v)
      /\ (dma.flip => w = v * Radix + (cur % Radix))
  <2>1. CASE dma.flip
    BY <1>1, <2>1, Digits DEF WriteFlipFlopByte
  <2>2. CASE ~dma.flip
    BY <1>1, <2>2, Digits DEF WriteFlipFlopByte
  <2> QED BY <2>1, <2>2
<1> HIDE DEF w
<1>3. /\ dma' \in [base : Word, count : Word, page : Byte, flip : BOOLEAN]
      /\ dma'.flip = ~dma.flip /\ dma'[r] = w /\ \A q \in Regs : q # r => dma'[q] = dma[q]
  <2>1. CASE r = "base"
    <3>1. dma' = [dma EXCEPT !.base = w, !.flip = ~dma.flip]
      BY <2>1 DEF WriteRegister, w, cur
    <3> QED BY <1>1, <1>2, <2>1, <3>1 DEF DmaTypes, Regs
  <2>2. CASE r = "count"
    <3>1. dma' = [dma EXCEPT !.count = w, !.flip = ~dma.flip]
      BY <2>2 DEF WriteRegister, w, cur
    <3> QED BY <1>1, <1>2, <2>2, <3>1 DEF DmaTypes, Regs
  <2> QED BY <2>1, <2>2 DEF Regs
<1>4. Pairing(r, v)
  BY DEF WriteRegister
<1>5. Word \subseteq Nat /\ Byte \subseteq Nat /\ 0 \in Byte
  BY <1>1, Digits, DiskFacts DEF Byte
<1>6. CASE half.reg = "none"
  <2>1. half' = [reg |-> r, low |-> v] /\ meant' = [meant EXCEPT ![r] = Unset]
    BY <1>4, <1>6 DEF Pairing, Regs
  <2>2. half' \in [reg : Regs \cup {"none", "off"}, low : Byte] /\ half'.reg = r /\ half'.low = v
    BY <2>1
  <2>3. /\ meant' \in [Regs -> Word \cup {Unset}] /\ meant'[r] = Unset
        /\ \A q \in Regs : q # r => meant'[q] = meant[q]
    BY <2>1 DEF DmaTypes
  <2>4. ~dma.flip
    BY <1>6 DEF Programmed
  <2>5. \A q \in Regs : meant'[q] # Unset => dma'[q] = meant'[q]
    BY <1>3, <2>3 DEF Programmed
  <2>6. dma'.flip /\ dma'[r] % Radix = v
    BY <1>2, <1>3, <2>4
  <2> QED BY <1>3, <2>2, <2>3, <2>5, <2>6 DEF DmaTypes, Programmed, Regs
<1>7. CASE half.reg = r
  <2>1. half' = NoPair /\ meant' = [meant EXCEPT ![r] = v * Radix + half.low]
    BY <1>4, <1>7 DEF Pairing, Regs
  <2>2. dma.flip /\ cur % Radix = half.low
    BY <1>7 DEF Programmed, cur
  <2>3. w = v * Radix + half.low
    BY <1>2, <2>2
  <2>4. half' \in [reg : Regs \cup {"none", "off"}, low : Byte] /\ half'.reg = "none"
    BY <1>5, <2>1 DEF NoPair
  <2>5. /\ meant' \in [Regs -> Word \cup {Unset}] /\ meant'[r] = w
        /\ \A q \in Regs : q # r => meant'[q] = meant[q]
    BY <1>2, <2>1, <2>3 DEF DmaTypes
  <2>6. \A q \in Regs : meant'[q] # Unset => dma'[q] = meant'[q]
    BY <1>3, <2>5 DEF Programmed
  <2> QED BY <1>3, <2>2, <2>4, <2>5, <2>6 DEF DmaTypes, Programmed, Regs
<1>8. CASE half.reg # "none" /\ half.reg # r
  <2>1. half' = OffPair
    BY <1>4, <1>8 DEF Pairing
  <2>2. half' \in [reg : Regs \cup {"none", "off"}, low : Byte] /\ half'.reg = "off"
    BY <1>5, <2>1 DEF OffPair
  <2>3. /\ meant' \in [Regs -> Word \cup {Unset}]
        /\ \A q \in Regs : meant'[q] = Unset \/ (q # r /\ meant'[q] = meant[q])
    <3>1. meant' = NoIntent \/ meant' = [meant EXCEPT ![r] = Unset]
      BY <1>4, <1>8 DEF Pairing
    <3> QED BY <3>1 DEF DmaTypes, NoIntent
  <2>4. \A q \in Regs : meant'[q] # Unset => dma'[q] = meant'[q]
    BY <1>3, <2>3 DEF Programmed
  <2> QED BY <1>3, <2>2, <2>3, <2>4 DEF DmaTypes, Programmed, Regs
<1> QED BY <1>6, <1>7, <1>8

\* Accesses to the ports of the DMA controller.
LEMMA DmaStep == ASSUME DiskInv, DmaPort PROVE DiskInv'
<1>1. DmaTypes /\ Programmed
  BY TypeParts DEF DiskInv
<1>2. 0 \in Byte /\ 0 \in Word
  <2>1. Radix \in Nat /\ Radix >= 1
    BY DiskFacts
  <2>2. Radix * Radix \in Nat /\ Radix * Radix >= 1
    BY <2>1
  <2> QED BY <2>1, <2>2 DEF Byte, Word
<1>3. ASSUME NEW r \in Regs, NEW v \in Byte, WriteRegister(r, v) PROVE DiskInv'
  BY <1>1, <1>3, RegisterWritten, OnlyDma DEF WriteRegister
<1>4. CASE ClearFlipFlop
  <2>1. /\ dma' = [dma EXCEPT !.flip = FALSE] /\ half' = NoPair /\ meant' = meant
        /\ UNCHANGED <<fdc, pic, guest, wrote, events>>
    BY <1>4 DEF ClearFlipFlop
  <2>2. DmaTypes'
    BY <1>1, <1>2, <2>1 DEF DmaTypes, NoPair
  <2>3. /\ ~dma'.flip /\ \A r \in Regs : dma'[r] = dma[r]
    BY <1>1, <2>1 DEF DmaTypes, Regs
  <2>4. Programmed'
    BY <1>1, <2>1, <2>3 DEF Programmed, NoPair, Regs
  <2> QED BY <2>1, <2>2, <2>4, OnlyDma
<1>5. CASE MasterReset
  <2>1. /\ dma' = [base |-> 0, count |-> 0, page |-> 0, flip |-> FALSE]
        /\ half' = NoPair /\ meant' = NoIntent /\ UNCHANGED <<fdc, pic, guest, wrote, events>>
    BY <1>5 DEF MasterReset
  <2>2. DmaTypes'
    BY <1>2, <2>1 DEF DmaTypes, NoPair, NoIntent
  <2>3. Programmed'
    BY <2>1 DEF Programmed, NoPair, NoIntent, Regs
  <2> QED BY <2>1, <2>2, <2>3, OnlyDma
<1>6. ASSUME NEW r \in Regs, ReadRegister(r) PROVE DiskInv'
  <2>1. /\ dma' = [dma EXCEPT !.flip = ~dma.flip] /\ half' = OffPair /\ meant' = meant
        /\ UNCHANGED <<fdc, pic, guest, wrote, events>>
    BY <1>6 DEF ReadRegister
  <2>2. DmaTypes'
    BY <1>1, <1>2, <2>1 DEF DmaTypes, OffPair
  <2>3. \A q \in Regs : dma'[q] = dma[q]
    BY <1>1, <2>1 DEF DmaTypes, Regs
  <2>4. Programmed'
    BY <1>1, <2>1, <2>3 DEF Programmed, OffPair, Regs
  <2> QED BY <2>1, <2>2, <2>4, OnlyDma
<1>7. ASSUME NEW p \in Byte, WritePage(p) PROVE DiskInv'
  <2>1. /\ dma' = [dma EXCEPT !.page = p] /\ half' = half /\ meant' = meant
        /\ UNCHANGED <<fdc, pic, guest, wrote, events>>
    BY <1>7 DEF WritePage, intent
  <2>2. DmaTypes'
    BY <1>1, <2>1 DEF DmaTypes
  <2>3. dma'.flip = dma.flip /\ \A q \in Regs : dma'[q] = dma[q]
    BY <1>1, <2>1 DEF DmaTypes, Regs
  <2>4. Programmed'
    BY <1>1, <2>1, <2>3 DEF Programmed
  <2> QED BY <2>1, <2>2, <2>4, OnlyDma
<1> QED BY <1>3, <1>4, <1>5, <1>6, <1>7 DEF DmaPort

\* The bytes a guest sends.
LEMMA BytesSent == ASSUME NEW o, NEW i \in 1 .. 8 PROVE ArgBytes(o, i) \subseteq Nat
<1>1. /\ Drives \subseteq Nat /\ Mounted \subseteq Nat /\ SizeCodes \subseteq Nat
      /\ Seeks \subseteq Nat /\ 0 .. Cyls - 1 \subseteq Nat /\ 0 .. Heads - 1 \subseteq Nat /\ 0 .. Spt + 1 \subseteq Nat
  BY DiskFacts DEF Heads
<1> QED BY <1>1 DEF ArgBytes

\* A byte written to the controller.
LEMMA ByteStep ==
    ASSUME DiskInv, NEW o, NEW a, Sent(o, a), Accept(o, a)
    PROVE  DiskInv'
<1>1. Len(a) \in Nat /\ ArgCount(o) \in Nat /\ Len(a) <= ArgCount(o)
  BY DEF Sent, ArgCount
<1>2. CASE Len(a) >= ArgCount(o)
  <2>1. ExecuteCommand(o, a) /\ UNCHANGED <<nReset, guest>> /\ Len(a) = ArgCount(o)
    BY <1>1, <1>2 DEF Accept
  <2>2. CASE o = "read"
    <3>1. ExecReadData(a)
      BY <2>1, <2>2 DEF ExecuteCommand
    <3>2. Len(a) = 8
      BY <2>1, <2>2 DEF ArgCount
    <3> QED BY <2>1, <2>2, <3>1, <3>2, ReadDataStep
  <2>3. CASE o # "read"
    BY <2>1, <2>3, CommandStep
  <2> QED BY <2>2, <2>3
<1>3. CASE ~(Len(a) >= ArgCount(o))
  <2>1. /\ phase' = "Command" /\ op' = o /\ args' = a /\ NoEvent
        /\ UNCHANGED <<res, pos, pcn, dma, wrote, intent, nReset, guest>>
    BY <1>3 DEF Accept
  <2>2. /\ BufferTypes /\ EventTypes /\ DmaTypes /\ Programmed /\ Buffers
        /\ pcn \in [Drives -> Seeks] /\ DOMAIN wrote \subseteq Cell
        /\ nReset \in BOOLEAN /\ guest \in {"polite", "rude", "loader"}
    BY TypeParts DEF DiskInv
  <2>3. EventTypes' /\ st0' = st0
    BY <2>1, <2>2, NoEventTypes
  <2>4. BufferTypes'
    BY <2>1, <2>2 DEF BufferTypes, Sent
  <2>5. DmaTypes' /\ Programmed'
    BY <2>1, <2>2, SameDma
  <2>6. Buffers'
    <3>1. \A i \in 1 .. Len(args') : args'[i] \in ArgBytes(op, i)'
      <4> TAKE i \in 1 .. Len(args')
      <4>1. args'[i] \in ArgBytes(o, i)
        BY <2>1 DEF Sent
      <4>2. ArgBytes(o, i)' = ArgBytes(o, i)
        BY <2>1, SameBytes
      <4> QED BY <2>1, <4>1, <4>2 DEF ArgBytes
    <3>2. Len(a) < ArgCount(o)
      BY <1>1, <1>3
    <3> QED BY <2>1, <2>2, <2>3, <3>1, <3>2 DEF Buffers, Sent
  <2>7. ReportsNextSector'
    BY <2>1 DEF ReportsNextSector
  <2> QED BY <2>1, <2>2, <2>3, <2>4, <2>5, <2>6, <2>7
          DEF DiskInv, TypeOK, BufferTypes, EventTypes, DmaTypes
<1> QED BY <1>2, <1>3

\* The command after one more byte.
LEMMA ArgumentSent ==
    ASSUME DiskInv, NEW v, WriteArgument(v)
    PROVE  /\ Sent(op, Append(args, v)) /\ Len(Append(args, v)) = Len(args) + 1
           /\ \A i \in 1 .. Len(args) : Append(args, v)[i] = args[i]
<1>1. /\ op \in Ops /\ args \in Seq(Nat) /\ Len(args) < ArgCount(op)
      /\ \A i \in 1 .. Len(args) : args[i] \in ArgBytes(op, i)
      /\ v \in ArgBytes(op, Len(args) + 1)
  BY DEF DiskInv, TypeOK, Buffers, WriteArgument
<1> DEFINE k == Len(args)
<1>2. k \in Nat /\ ArgCount(op) \in 0 .. 8 /\ k < ArgCount(op)
  BY <1>1 DEF ArgCount
<1>3. v \in Nat
  <2> HIDE DEF k
  <2>1. k + 1 \in 1 .. 8
    BY <1>2
  <2> DEFINE j == k + 1
  <2> HIDE DEF j
  <2>2. ArgBytes(op, j) \subseteq Nat
    BY <2>1, BytesSent DEF j
  <2> QED BY <1>1, <2>2 DEF j, k
<1> DEFINE a == Append(args, v)
<1>4. /\ a \in Seq(Nat) /\ Len(a) = k + 1 /\ a[k + 1] = v
      /\ \A i \in 1 .. k : a[i] = args[i]
  BY <1>1, <1>3
<1> HIDE DEF a
<1>5. \A i \in 1 .. k + 1 : a[i] \in ArgBytes(op, i)
  <2> TAKE i \in 1 .. k + 1
  <2>1. CASE i = k + 1
    BY <1>1, <1>4, <2>1
  <2>2. CASE i # k + 1
    <3>1. i \in 1 .. k
      BY <1>2, <2>2
    <3> QED BY <1>1, <1>4, <3>1
  <2> QED BY <2>1, <2>2
<1>6. Len(a) <= ArgCount(op)
  <2> HIDE DEF k
  <2> QED BY <1>2, <1>4, SMTT(30)
<1>7. Sent(op, a)
  BY <1>1, <1>4, <1>5, <1>6 DEF Sent
<1> QED BY <1>4, <1>7 DEF a

\* ReadFifo.
LEMMA ResultReadStep == ASSUME DiskInv, ReadResult PROVE DiskInv'
<1>1. /\ BufferTypes /\ EventTypes /\ DmaTypes /\ Programmed /\ Buffers /\ ReportsNextSector
      /\ pcn \in [Drives -> Seeks] /\ DOMAIN wrote \subseteq Cell
      /\ nReset \in BOOLEAN /\ guest \in {"polite", "rude", "loader"}
  BY TypeParts DEF DiskInv
<1>2. UNCHANGED <<pcn, st0, nReset, dma, imr, guest, last, told, muted, intent>>
  BY DEF ReadResult
<1>3. EventTypes'
  <2>1. /\ intPending' \in BOOLEAN /\ irq' \in BOOLEAN /\ seen' \in BOOLEAN /\ mixed' \in BOOLEAN
    BY <1>1 DEF ReadResult, StatusAfterRead, LineAfterRead, EventTypes
  <2> QED BY <1>1, <1>2, <2>1 DEF EventTypes
<1>4. DmaTypes' /\ Programmed'
  BY <1>1, <1>2, SameDma
<1>5. BufferTypes' /\ Buffers' /\ DOMAIN wrote' \subseteq Cell /\ ReportsNextSector'
  <2>1. CASE Exhausted(pos + 1)
    <3>1. NoResult
      BY <2>1 DEF ReadResult
    <3>2. st0' % 4 \in Drives
      BY <1>1, <1>2 DEF Buffers
    <3> QED BY <3>1, <3>2, IdleBuffers
  <2>2. CASE ~Exhausted(pos + 1)
    <3>1. pos' = pos + 1 /\ UNCHANGED <<phase, op, args, res, wrote>>
      BY <2>2 DEF ReadResult
    <3>2. pos' \in 0 .. 7
      <4> DEFINE k == Len(res)
      <4>1. k \in Nat /\ k <= 7 /\ pos \in 0 .. 7 /\ ~(pos + 1 >= k)
        BY <1>1, <2>2 DEF BufferTypes, Buffers, Exhausted
      <4> HIDE DEF k
      <4> QED BY <3>1, <4>1
    <3>3. BufferTypes'
      BY <1>1, <3>1, <3>2 DEF BufferTypes
    <3>4. Buffers'
      BY <1>1, <1>2, <3>1 DEF Buffers, ArgBytes
    <3>5. ReportsNextSector'
      BY <1>1, <3>1 DEF ReportsNextSector
    <3> QED BY <1>1, <3>1, <3>3, <3>4, <3>5
  <2> QED BY <2>1, <2>2
<1> QED BY <1>1, <1>2, <1>3, <1>4, <1>5 DEF DiskInv, TypeOK, BufferTypes, EventTypes, DmaTypes

\* Leaving reset abandons the result; drive 0 is the one its status names.
LEMMA ResetStep == ASSUME DiskInv, NEW v \in BOOLEAN, WriteDor(v) PROVE DiskInv'
<1>1. /\ BufferTypes /\ EventTypes /\ DmaTypes /\ Programmed /\ Buffers /\ ReportsNextSector
      /\ pcn \in [Drives -> Seeks] /\ DOMAIN wrote \subseteq Cell
      /\ nReset \in BOOLEAN /\ guest \in {"polite", "rude", "loader"}
  BY TypeParts DEF DiskInv
<1>2. nReset' \in BOOLEAN /\ UNCHANGED <<pcn, dma, guest, intent>>
  BY DEF WriteDor
<1>3. DmaTypes' /\ Programmed'
  BY <1>1, <1>2, SameDma
<1>4. CASE ~nReset /\ v
  <2>1. Completes(192, 192) /\ NoResult
    BY <1>4 DEF WriteDor
  <2>2. 192 \in 0 .. 255 /\ 192 % 4 = 0 /\ 0 \in Drives
    BY DiskFacts
  <2>3. EventTypes' /\ st0' = 192
    BY <1>1, <2>1, <2>2, CompletesTypes DEF Completes
  <2>4. st0' % 4 \in Drives
    BY <2>2, <2>3
  <2>5. BufferTypes' /\ Buffers' /\ DOMAIN wrote' \subseteq Cell /\ ReportsNextSector'
    BY <2>1, <2>4, IdleBuffers
  <2> QED BY <1>1, <1>2, <1>3, <2>3, <2>5 DEF DiskInv, TypeOK, BufferTypes, EventTypes, DmaTypes
<1>5. CASE ~(~nReset /\ v)
  <2>1. NoEvent /\ UNCHANGED <<phase, op, args, res, pos, wrote>>
    BY <1>5 DEF WriteDor
  <2>2. EventTypes' /\ st0' = st0
    BY <1>1, <2>1, NoEventTypes
  <2>3. BufferTypes'
    BY <1>1, <2>1 DEF BufferTypes
  <2>4. Buffers'
    BY <1>1, <1>2, <2>1, <2>2 DEF Buffers, ArgBytes
  <2>5. ReportsNextSector'
    BY <1>1, <2>1 DEF ReportsNextSector
  <2> QED BY <1>1, <1>2, <1>3, <2>1, <2>2, <2>3, <2>4, <2>5
          DEF DiskInv, TypeOK, BufferTypes, EventTypes, DmaTypes
<1> QED BY <1>4, <1>5

\* Delivering the interrupt and writing the mask.
LEMMA LineStep ==
    ASSUME DiskInv, Deliver \/ \E m \in BOOLEAN : WriteImr(m)
    PROVE  DiskInv'
<1>1. /\ BufferTypes /\ EventTypes /\ DmaTypes /\ Programmed /\ Buffers /\ ReportsNextSector
      /\ pcn \in [Drives -> Seeks] /\ DOMAIN wrote \subseteq Cell
      /\ nReset \in BOOLEAN /\ guest \in {"polite", "rude", "loader"}
  BY TypeParts DEF DiskInv
<1>2. /\ UNCHANGED <<phase, op, args, res, pos, pcn, st0, intPending, nReset, dma, guest, wrote,
                    last, seen, mixed, muted, intent>>
      /\ irq' \in BOOLEAN /\ imr' \in BOOLEAN /\ told' \in BOOLEAN
  BY <1>1 DEF Deliver, WriteImr, fdc, events, EventTypes
<1>3. BufferTypes' /\ EventTypes'
  BY <1>1, <1>2 DEF BufferTypes, EventTypes
<1>4. DmaTypes' /\ Programmed'
  BY <1>1, <1>2, SameDma
<1>5. Buffers'
  BY <1>1, <1>2 DEF Buffers, ArgBytes
<1>6. ReportsNextSector'
  BY <1>1, <1>2 DEF ReportsNextSector
<1> QED BY <1>1, <1>2, <1>3, <1>4, <1>5, <1>6 DEF DiskInv, TypeOK, BufferTypes, EventTypes, DmaTypes

\* Reset satisfies the invariant.
LEMMA DiskInit == Init => DiskInv
<1> SUFFICES ASSUME Init PROVE DiskInv
    OBVIOUS
<1>1. 0 \in Byte /\ 0 \in Word /\ 0 \in Seeks /\ 0 % 4 \in Drives
  <2>1. Radix \in Nat /\ Radix >= 1 /\ Cyls \in Nat /\ Cyls >= 1 /\ 0 \in Drives /\ 0 \in Seeks
    BY DiskFacts
  <2>2. Radix * Radix \in Nat /\ Radix * Radix >= 1
    BY <2>1
  <2> QED BY <2>1, <2>2 DEF Byte, Word
<1>2. Len(<<>>) = 0 /\ <<>> \in Seq(Nat) /\ <<>> \in Seq(Int) /\ DOMAIN <<>> = {} /\ ArgCount("none") = 0
  BY DEF ArgCount
<1>3. BufferTypes /\ DOMAIN wrote \subseteq Cell
  BY <1>2 DEF Init, BufferTypes
<1>4. EventTypes
  <2>1. st0 \in 0 .. 255 /\ last \in 0 .. 255
    BY DEF Init
  <2> QED BY <2>1 DEF Init, EventTypes
<1>5. DmaTypes /\ Programmed
  BY <1>1 DEF Init, DmaTypes, Programmed, NoIntent, OffPair, Regs
<1>6. /\ pcn \in [Drives -> Seeks] /\ nReset \in BOOLEAN
      /\ guest \in {"polite", "rude", "loader"}
  BY <1>1 DEF Init
<1>7. Buffers /\ ReportsNextSector
  BY <1>1, <1>2 DEF Init, Buffers, ReportsNextSector
<1> QED BY <1>3, <1>4, <1>5, <1>6, <1>7, TypeParts DEF DiskInv

\* Every port access keeps it.
LEMMA DiskStep == DiskInv /\ [Next]_vars => DiskInv'
<1> SUFFICES ASSUME DiskInv, [Next]_vars PROVE DiskInv'
    OBVIOUS
<1>1. CASE DmaPort
  BY <1>1, DmaStep
<1>2. ASSUME NEW o \in (IF guest = "loader" THEN {"read"} ELSE Ops), WriteOpcode(o) PROVE DiskInv'
  <2>1. Sent(o, <<>>)
    <3>1. o \in Ops /\ <<>> \in Seq(Nat) /\ Len(<<>>) = 0
      BY DEF Ops
    <3>2. ArgCount(o) \in Nat
      BY DEF ArgCount
    <3> QED BY <3>1, <3>2 DEF Sent
  <2> QED BY <1>2, <2>1, ByteStep DEF WriteOpcode
<1>3. ASSUME NEW v, WriteArgument(v) PROVE DiskInv'
  <2>1. Sent(op, Append(args, v)) /\ Accept(op, Append(args, v))
    BY <1>3, ArgumentSent DEF WriteArgument
  <2> QED BY <2>1, ByteStep
<1>4. CASE WriteInResult
  <2>1. Sent(op, args) /\ Accept(op, args)
    BY <1>4 DEF WriteInResult, Sent, DiskInv, TypeOK, Buffers
  <2> QED BY <2>1, ByteStep
<1>5. CASE ReadResult
  BY <1>5, ResultReadStep
<1>6. ASSUME NEW v \in BOOLEAN, WriteDor(v) PROVE DiskInv'
  BY <1>6, ResetStep
<1>7. CASE Deliver \/ \E m \in BOOLEAN : WriteImr(m)
  BY <1>7, LineStep
<1>8. CASE UNCHANGED vars
  <2>1. DmaTypes /\ Programmed
    BY TypeParts DEF DiskInv
  <2>2. UNCHANGED <<fdc, pic, guest, wrote, events, dma, intent>>
    BY <1>8 DEF vars, fdc, pic, events, intent
  <2> QED BY <2>1, <2>2, SameDma, OnlyDma
<1> QED BY <1>1, <1>2, <1>3, <1>4, <1>5, <1>6, <1>7, <1>8 DEF Next

\* It holds in every reachable state.
LEMMA DiskInvariance == Spec => []DiskInv
BY DiskInit, DiskStep, PTL DEF Spec

\* The types: among others pcn names a cylinder of the image, the DMA registers
\* stay words after every wrap of the address, and _resPos stays in _resBuf.
THEOREM TypeCorrect == Spec => []TypeOK
<1>1. DiskInv => TypeOK
  BY DEF DiskInv
<1> QED BY <1>1, DiskInvariance, PTL

\* The C, H and R of a READ's result (ExecReadData) name the sector after the
\* last one transferred, for every geometry with two heads and every window.
THEOREM NextSectorReported == Spec => []ReportsNextSector
<1>1. DiskInv => ReportsNextSector
  BY DEF DiskInv
<1> QED BY <1>1, DiskInvariance, PTL

-----------------------------------------------------------------------------

\* The only step that ends a command which still waits for bytes is its last byte.
LEMMA LastByte ==
    ASSUME DiskInv, [Next]_vars, phase = "Command", phase' = "Result", op = "read"
    PROVE  \E v : WriteArgument(v) /\ Len(args) = 7 /\ ExecReadData(Append(args, v))
<1>1. PICK v : WriteArgument(v)
  <2>1. ~DmaPort
    BY DEF DmaPort, ClearFlipFlop, MasterReset, ReadRegister, WriteRegister, WritePage, fdc
  <2>2. ~(\E o : WriteOpcode(o)) /\ ~WriteInResult /\ ~ReadResult
    BY DEF WriteOpcode, WriteInResult, ReadResult
  <2>3. ~(\E v \in BOOLEAN : WriteDor(v))
    BY DEF WriteDor, NoResult
  <2>4. ~Deliver /\ ~(\E m \in BOOLEAN : WriteImr(m)) /\ ~UNCHANGED vars
    BY DEF Deliver, WriteImr, fdc, vars
  <2> QED BY <2>1, <2>2, <2>3, <2>4 DEF Next
<1> DEFINE a == Append(args, v)
           k == Len(args)
<1>2. k \in Nat /\ k < 8 /\ Len(a) = k + 1
  <2>1. args \in Seq(Nat) /\ Len(args) < ArgCount("read")
    BY DEF DiskInv, TypeOK, Buffers
  <2>2. ArgCount("read") = 8
    BY DEF ArgCount
  <2> QED BY <1>1, <2>1, <2>2, ArgumentSent
<1>3. Accept("read", a)
  BY <1>1 DEF WriteArgument
<1> HIDE DEF a
<1>4. Len(a) >= 8 /\ ExecuteCommand("read", a)
  BY <1>3 DEF Accept, ArgCount
<1>5. k = 7
  <2> HIDE DEF k
  <2> QED BY <1>2, <1>4
<1>6. ExecReadData(a)
  BY <1>4 DEF ExecuteCommand
<1> QED BY <1>1, <1>5, <1>6 DEF a

\* A READ fills the window that was programmed, since the registers hold what
\* the guest meant.
LEMMA FillsStep == DiskInv /\ [Next]_vars => FillsWindow
<1> SUFFICES ASSUME DiskInv, [Next]_vars PROVE FillsWindow
    OBVIOUS
<1> DEFINE b == Lba(args[2], args[3], args[4])
           A == dma.page * (Radix * Radix) + meant.base
           c == meant.count
<1>1. SUFFICES ASSUME phase = "Command", phase' = "Result", op = "read", args[1] \in Mounted,
                      Unset \notin {meant.base, meant.count},
                      b * SecSize >= 0, b * SecSize + c < TotalSectors * SecSize
               PROVE  wrote' = [x \in (A .. A + c) \cap Cell |-> b * SecSize + x - A]
  BY DEF FillsWindow
<1>2. PICK v : WriteArgument(v) /\ Len(args) = 7 /\ ExecReadData(Append(args, v))
  BY <1>1, LastByte
<1> DEFINE a == Append(args, v)
<1>3. /\ Sent("read", a) /\ Len(a) = 8
      /\ a[1] = args[1] /\ a[2] = args[2] /\ a[3] = args[3] /\ a[4] = args[4]
  <2>1. Sent(op, a) /\ Len(a) = Len(args) + 1 /\ \A i \in 1 .. Len(args) : a[i] = args[i]
    BY <1>2, ArgumentSent
  <2> HIDE DEF a
  <2>2. Len(a) = 8 /\ \A i \in 1 .. 7 : a[i] = args[i]
    BY <1>2, <2>1
  <2>3. a[1] = args[1] /\ a[2] = args[2] /\ a[3] = args[3] /\ a[4] = args[4]
    BY <2>2
  <2>4. Sent("read", a)
    BY <1>1, <2>1
  <2> QED BY <2>2, <2>3, <2>4
<1>4. ExecReadData(a)
  BY <1>2
<1> HIDE DEF a
<1>5. DmaTypes /\ Programmed
  BY TypeParts DEF DiskInv
<1>6. dma.base = meant.base /\ dma.count = c
  BY <1>1, <1>5 DEF Programmed, Regs
<1>7. b \in Int
  <2>1. args[2] \in Nat /\ args[3] \in Nat /\ args[4] \in Nat
    <3>1. Len(a) = ArgCount("read")
      BY <1>3 DEF ArgCount
    <3> QED BY <1>3, <3>1, Arguments
  <2> QED BY <2>1, DiskFacts DEF Lba, Heads
<1>8. Channel2PhysicalAddress = A
  BY <1>6 DEF Channel2PhysicalAddress
<1>9. c \in Nat
  BY <1>5, <1>6, DiskFacts DEF DmaTypes, Word
<1>10. wrote' = [x \in Window(A, BurstSize(b)) |-> Source(b, x - A)] /\ A \in Nat
  <2>1. a[1] \in Mounted /\ b = Lba(a[2], a[3], a[4])
    BY <1>1, <1>3
  <2> HIDE DEF b, A
  <2> QED BY <1>4, <1>5, <1>7, <1>8, <2>1, BurstWrites
<1> HIDE DEF b, A, c
<1>11. b >= 0 /\ BurstSize(b) = c + 1
  <2>1. TotalSectors \in Int
    BY DiskFacts DEF TotalSectors, Heads
  <2>2. b >= 0 /\ c + 1 <= (TotalSectors - b) * SecSize
    BY <1>1, <1>7, <1>9, <2>1 DEF SecSize
  <2> QED BY <1>5, <1>6, <1>7, <2>2, BurstTypes
<1>12. Window(A, c + 1) = (A .. A + c) \cap Cell
  BY <1>9, <1>10, DiskFacts DEF Window, Cell
<1>13. \A x \in (A .. A + c) \cap Cell : Source(b, x - A) = b * SecSize + x - A
  BY <1>7, <1>9, <1>10, <1>11 DEF Source, SecSize
<1> QED BY <1>10, <1>11, <1>12, <1>13

\* A READ copies the sectors it names into the window that the guest programmed
\* through the shared flip-flop, whatever accesses went before, for every
\* geometry, radix and size of RAM.
THEOREM WindowFilled == Spec => ReadFillsWindow
<1>1. DiskInv /\ [Next]_vars => [FillsWindow]_vars
  BY FillsStep
<1> QED BY <1>1, DiskInvariance, PTL DEF Spec, ReadFillsWindow
=============================================================================
