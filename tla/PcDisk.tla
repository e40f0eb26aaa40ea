------------------------------- MODULE PcDisk -------------------------------
(***************************************************************************)
(* The floppy path of the PC when a real BIOS runs: the controller's three  *)
(* phases and its interrupt status (Fdc8272), channel 2 of the DMA          *)
(* controller with its byte flip-flop (Dma8237), the image (DiskImage) and  *)
(* interrupt line 6 (Pic8259).                                              *)
(*                                                                          *)
(* The guest is arbitrary within its kind.  A "polite" one sends any        *)
(* commands, but moves bytes in the direction the main status register      *)
(* names; a "rude" one does not look; a "loader" programs the DMA           *)
(* controller in any way and reads sectors.  The DMA registers matter only  *)
(* to READ DATA, which is why one kind of guest is enough for them.         *)
(* A RAM cell stands for a fixed part of a sector, a DMA register for two   *)
(* digits of radix Radix instead of two bytes: a page has Radix^2 cells.    *)
(*                                                                          *)
(* Left out: HDS in the status bytes, mode, mask and terminal-count bits    *)
(* of the DMA controller (no code reads the first two), and DOR bits other  *)
(* than nRESET.                                                             *)
(***************************************************************************)
EXTENDS Integers, Sequences, FiniteSetsExt

CONSTANTS
    Drives,     \* drive numbers the guest uses, out of 0 .. 3
    Mounted,    \* drives with an image
    Cyls, Spt,  \* cylinders of the image, sectors of a track
    SizeCodes,  \* values of N
    Seeks,      \* cylinders the guest seeks, on the disk or beyond it
    Radix,      \* values of a DMA byte
    RamSize     \* cells of RAM

ASSUME DiskAssumption ==
    /\ Drives \subseteq 0 .. 3 /\ 0 \in Drives /\ Mounted \subseteq Drives
    /\ {Cyls, Radix, RamSize} \subseteq Nat \ {0}
    /\ Spt \in 1 .. 255        \* LoadFloppy knows 9 and 18; the result names a sector in a byte
    /\ SizeCodes \subseteq 0 .. 255 /\ Seeks \subseteq 0 .. 255 /\ 0 \in Seeks

Heads == 2      \* in every geometry of LoadFloppy
SecSize == 2    \* a sector of 512 bytes is two cells of 256

Ops == {"specify", "driveStatus", "recalibrate", "sense", "readId", "seek",
        "read", "other"}

VARIABLES
    phase,      \* _phase; the code never enters Execution
    op,         \* _cmdBuf[0], as the command it selects; "none" in Idle, where it is dead
    args,       \* the rest of _cmdBuf, up to the command's length
    res,        \* _resBuf[0 .. _resLen)
    pos,        \* _resPos
    pcn,        \* _pcn
    st0,        \* _pendingSt0
    intPending, \* _interruptPending
    nReset,     \* bit 2 of _dor
    dma,        \* Ch2Base, Ch2Count, Ch2Page, FlipFlop
    irq,        \* line 6 in _pending
    imr,        \* line 6 in _imr
    guest,      \* the kind of guest
    wrote,      \* cells of RAM the READ of this result wrote -> cell of the image, -1 for a zero
    last,       \* history: ST0 of the last completion event
    seen,       \* history: the guest was given it
    mixed,      \* history: before that, it was given another command's result
    told,       \* history: an interrupt was delivered since the last event
    muted,      \* history: line 6 was masked at the last event
    meant,      \* history: base and count as the guest wrote them, Unset if it did not
    half        \* history: the pair of accesses the guest is in

fdc == <<phase, op, args, res, pos, pcn, st0, intPending, nReset>>
pic == <<irq, imr>>
events == <<last, seen, mixed, told, muted>>
intent == <<meant, half>>
vars == <<phase, op, args, res, pos, pcn, st0, intPending, nReset, dma, irq, imr,
          guest, wrote, last, seen, mixed, told, muted, meant, half>>

Byte == 0 .. Radix - 1
Word == 0 .. Radix * Radix - 1
MaxWord == Radix * Radix - 1

Cell == 0 .. RamSize - 1

Regs == {"base", "count"}
Unset == -1
OffPair == [reg |-> "off", low |-> 0]
NoPair == [reg |-> "none", low |-> 0]
NoIntent == [r \in Regs |-> Unset]
TotalSectors == Cyls * Heads * Spt

Init ==
    /\ phase = "Idle" /\ op = "none" /\ args = <<>> /\ res = <<>> /\ pos = 0
    /\ pcn = [d \in Drives |-> 0] /\ st0 = 0 /\ intPending = FALSE
    /\ nReset = FALSE
    /\ dma = [base |-> 0, count |-> 0, page |-> 0, flip |-> FALSE]
    /\ irq = FALSE /\ imr = FALSE
    /\ guest \in {"polite", "rude", "loader"}
    /\ wrote = <<>> /\ last = 0 /\ seen = TRUE /\ mixed = FALSE
    /\ told = TRUE /\ muted = FALSE
    /\ meant = NoIntent /\ half = OffPair

-----------------------------------------------------------------------------
(* Completion events *)

AssertIrq ==
    /\ irq' = (irq \/ ~imr)
    /\ UNCHANGED imr

\* Mutant of Completes: only the line is raised.
CompletesSilently(s, r) ==
    /\ st0' = r /\ AssertIrq /\ UNCHANGED intPending
    /\ last' = s /\ seen' = FALSE /\ mixed' = FALSE
    /\ told' = FALSE /\ muted' = imr

\* A seek, a read or a reset completed with ST0 = s, of which the controller
\* remembers r.
Completes(s, r) ==
    /\ st0' = r /\ intPending' = TRUE /\ AssertIrq
    /\ last' = s /\ seen' = FALSE /\ mixed' = FALSE
    /\ told' = FALSE /\ muted' = imr

NoEvent == UNCHANGED <<st0, intPending, irq, imr, last, seen, mixed, told, muted>>

Results(o, a, bytes) ==
    phase' = "Result" /\ op' = o /\ args' = a /\ res' = bytes /\ pos' = 0

\* Back in Idle; the buffers are dead.
NoResult ==
    /\ phase' = "Idle" /\ op' = "none" /\ args' = <<>>
    /\ res' = <<>> /\ pos' = 0 /\ wrote' = <<>>

-----------------------------------------------------------------------------
(* DMA channel 2 *)

ClearFlipFlop ==
    /\ dma' = [dma EXCEPT !.flip = FALSE]
    /\ half' = NoPair
    /\ UNCHANGED <<fdc, pic, guest, wrote, events, meant>>

\* History: what the guest means by writing v to register r, if it clears the
\* flip-flop first and then accesses the registers in pairs.
Pairing(r, v) ==
    /\ half' = CASE half.reg = "none" -> [reg |-> r, low |-> v]
                [] half.reg = r -> NoPair
                [] OTHER -> OffPair
    /\ meant' = IF half.reg \in Regs /\ half.reg # r THEN NoIntent
               ELSE [meant EXCEPT ![r] = IF half.reg = r THEN v * Radix + half.low
                                                         ELSE Unset]

\* Mutant of WriteFlipFlopByte: the result is not cut to a word.
WriteFlipFlopByteWide(current, v) ==
    IF dma.flip THEN v * Radix + current ELSE (current \div Radix) * Radix + v

WriteFlipFlopByte(current, v) ==
    IF dma.flip THEN v * Radix + (current % Radix)
                ELSE (current \div Radix) * Radix + v

\* Ports 04h and 05h.
WriteRegister(r, v) ==
    /\ dma' = [dma EXCEPT ![r] = WriteFlipFlopByte(@, v), !.flip = ~@]
    /\ Pairing(r, v)
    /\ UNCHANGED <<fdc, pic, guest, wrote, events>>

\* A read toggles the flip-flop too: one read between the halves of a pair
\* swaps them.
ReadRegister(r) ==
    /\ dma' = [dma EXCEPT !.flip = ~@]
    /\ half' = OffPair
    /\ UNCHANGED <<fdc, pic, guest, wrote, events, meant>>

WritePage(p) ==
    /\ dma' = [dma EXCEPT !.page = p]
    /\ UNCHANGED <<fdc, pic, guest, wrote, events, intent>>

MasterReset ==
    /\ dma' = [base |-> 0, count |-> 0, page |-> 0, flip |-> FALSE]
    /\ meant' = NoIntent /\ half' = NoPair
    /\ UNCHANGED <<fdc, pic, guest, wrote, events>>

Channel2PhysicalAddress == dma.page * (Radix * Radix) + dma.base

\* Mutant of Channel2TransferBytes: the count is taken as it is.
Channel2TransferBytesPlain == dma.count

Channel2TransferBytes == dma.count + 1

\* The address wraps within its page, the count becomes FFFF.
OnChannel2BurstComplete(n) ==
    /\ dma' = [dma EXCEPT !.base = (@ + n) % (Radix * Radix), !.count = MaxWord]
    /\ meant' = NoIntent /\ half' = IF half = NoPair THEN NoPair ELSE OffPair

-----------------------------------------------------------------------------
(* Commands *)

\* Argument bytes that follow the opcode.
ArgCount(o) ==
    CASE o = "specify" -> 2 [] o = "driveStatus" -> 1 [] o = "recalibrate" -> 1
      [] o = "readId" -> 1 [] o = "seek" -> 2 [] o = "read" -> 8
      [] OTHER -> 0

ExecSpecify == NoResult /\ NoEvent /\ UNCHANGED <<pcn, dma, intent>>

ExecSenseDriveStatus(a) ==
    LET d == a[1]
    IN /\ Results("driveStatus", a, <<d + 8 + (IF d \in Mounted THEN 32 ELSE 0)
                          + (IF pcn[d] = 0 THEN 16 ELSE 0)>>)
       /\ NoEvent /\ UNCHANGED <<pcn, dma, wrote, intent>>

ExecRecalibrate(a) ==
    /\ pcn' = [pcn EXCEPT ![a[1]] = 0]
    /\ Completes(32 + a[1], 32 + a[1]) /\ NoResult
    /\ UNCHANGED <<dma, intent>>

ExecSeek(a) ==
    /\ pcn' = [pcn EXCEPT ![a[1]] = a[2]]
    /\ Completes(32 + a[1], 32 + a[1]) /\ NoResult
    /\ UNCHANGED <<dma, intent>>

ExecSenseInterrupt ==
    /\ Results("sense", <<>>, IF intPending THEN <<st0, pcn[st0 % 4]>> ELSE <<128>>)
    /\ intPending' = FALSE
    /\ UNCHANGED <<st0, irq, imr, last, seen, mixed, told, muted,
                   pcn, dma, wrote, intent>>

ExecReadId(a) ==
    LET d == a[1]
    IN /\ Results("readId", a, <<d, 0, 0, pcn[d], 0, 1, 2>>)
       /\ Completes(d, d) /\ UNCHANGED <<pcn, dma, wrote, intent>>

ExecInvalid == Results("other", <<>>, <<128>>) /\ NoEvent /\ UNCHANGED <<pcn, dma, wrote, intent>>

Lba(c, h, r) == (c * Heads + h) * Spt + (r - 1)

\* The cell of the image that a burst from sector b puts at its i-th place:
\* ReadSectors copies nothing from a negative sector, and the buffer is zero.
Source(b, i) == IF b < 0 THEN -1 ELSE b * SecSize + i

\* Division of C#: it truncates, also below zero.
Quot(a, b) == IF a >= 0 THEN a \div b ELSE -((-a) \div b)
Rem(a, b) == a - b * Quot(a, b)

\* Mutant of FinalChs: the head does not change at the end of a track.
FinalChsSameHead(lastLba) ==
    LET s == Rem(lastLba, Spt) + 2
        h == Rem(Quot(lastLba, Spt), Heads)
        c == Quot(lastLba, Heads * Spt)
    IN IF s <= Spt THEN <<c, h, s>> ELSE <<c + 1, h, 1>>

\* C, H and R of the result for a transfer that ends with sector lastLba.
FinalChs(lastLba) ==
    LET s == Rem(lastLba, Spt) + 2
        h == Rem(Quot(lastLba, Spt), Heads)
        c == Quot(lastLba, Heads * Spt)
        other == IF h % 2 = 0 THEN h + 1 ELSE h - 1     \* h ^ 1
    IN IF s <= Spt THEN <<c, h, s % 256>>
       ELSE <<IF other = 0 THEN c + 1 ELSE c, other, 1>>

\* The number of cells a READ from sector b transfers, clamped at the end of the image.
BurstSize(b) == Min({Channel2TransferBytes, (TotalSectors - b) * SecSize})

\* The size N stands for, in units of 128 bytes: half a cell.
SectorSize(n) == 2 ^ Min({n, 4})

\* READ DATA, the burst included.  Without an image the remembered ST0 is not
\* brought up to date, although the interrupt is raised.
ExecReadData(a) ==
    LET d == a[1]
        b == Lba(a[2], a[3], a[4])
        n == BurstSize(b)
        to == {i \in 0 .. n - 1 : Channel2PhysicalAddress + i < RamSize}
        end == FinalChs(b + Quot(2 * n, SectorSize(a[5])) - 1)
    IN /\ UNCHANGED pcn
       /\ \/ /\ d \notin Mounted
             /\ Results("read", a, <<64 + d, 1, 0, a[2], a[3], a[4], a[5]>>)
             /\ Completes(64 + d, st0)
             /\ wrote' = <<>> /\ UNCHANGED <<dma, intent>>
          \/ /\ d \in Mounted
             /\ Results("read", a, <<d, 0, 0>> \o end \o <<a[5]>>)
             /\ Completes(d, d)
             /\ wrote' = [x \in {Channel2PhysicalAddress + i : i \in to} |->
                            Source(b, x - Channel2PhysicalAddress)]
             /\ IF n > 0 THEN OnChannel2BurstComplete(n) ELSE UNCHANGED <<dma, intent>>

ExecuteCommand(o, a) ==
    \/ o = "specify" /\ ExecSpecify
    \/ o = "driveStatus" /\ ExecSenseDriveStatus(a)
    \/ o = "recalibrate" /\ ExecRecalibrate(a)
    \/ o = "sense" /\ ExecSenseInterrupt
    \/ o = "readId" /\ ExecReadId(a)
    \/ o = "seek" /\ ExecSeek(a)
    \/ o = "read" /\ ExecReadData(a)
    \/ o = "other" /\ ExecInvalid

-----------------------------------------------------------------------------
(* Ports of the controller *)

\* Bytes the guest may send as the i-th argument of o.  Only a loader reads
\* more than the first sector: C, H, R and N matter only to the transfer.  C and
\* H are on the disk, R is one before or after the track at most.
ArgBytes(o, i) ==
    IF o = "specify" THEN {0}
    ELSE IF i = 1 THEN IF guest = "loader" THEN Mounted ELSE Drives
    ELSE IF o = "seek" THEN Seeks
    ELSE IF guest # "loader" THEN {IF i = 4 THEN 1 ELSE IF i = 5 THEN 2 ELSE 0}
    ELSE CASE i = 2 -> 0 .. Cyls - 1
           [] i = 3 -> 0 .. Heads - 1
           [] i = 4 -> 0 .. Spt + 1
           [] i = 5 -> SizeCodes
           [] OTHER -> {0}

\* The byte completes the command: it executes at once.  Otherwise it waits.
Accept(o, a) ==
    /\ IF Len(a) >= ArgCount(o) THEN ExecuteCommand(o, a)
       ELSE /\ phase' = "Command" /\ op' = o /\ args' = a
            /\ NoEvent /\ UNCHANGED <<res, pos, pcn, dma, wrote, intent>>
    /\ UNCHANGED <<nReset, guest>>

\* WriteFifo when the controller expects a byte.
WriteOpcode(o) ==
    /\ phase = "Idle"
    /\ Accept(o, <<>>)

WriteArgument(v) ==
    /\ phase = "Command"
    /\ v \in ArgBytes(op, Len(args) + 1)
    /\ Accept(op, Append(args, v))

\* WriteFifo while a result waits: the byte goes behind the old command, which
\* is complete, and executes again.
WriteInResult ==
    /\ phase = "Result" /\ guest = "rude"
    /\ Accept(op, args)

\* Mutant of StatusAfterRead: the pending status outlives the result.
StatusAfterReadKept(first) == intPending

\* The first result byte withdraws the interrupt status.
StatusAfterRead(first) == intPending /\ ~first

\* Mutant of LineAfterRead: an earlier version of the code raised the line again.
LineAfterReadRaised(first) == irq \/ first

LineAfterRead(first) == irq

\* Mutant of Exhausted: one byte too late.
ExhaustedLate(n) == n > Len(res)

Exhausted(n) == n >= Len(res)

\* The bytes the guest reads are the status of the last event.
OwnResult == op \in {"read", "readId"} \/ (op = "sense" /\ Len(res) = 2)

\* ReadFifo in the result phase.  In another phase it returns FFh and changes
\* nothing.
ReadResult ==
    /\ phase = "Result" /\ pos < Len(res)
    /\ LET first == pos = 0
       IN /\ intPending' = StatusAfterRead(first)
          /\ irq' = LineAfterRead(first)
          /\ seen' = (seen \/ (first /\ OwnResult))
          /\ mixed' = (mixed \/ (first /\ ~OwnResult /\ ~seen))
    /\ IF Exhausted(pos + 1) THEN NoResult
       ELSE pos' = pos + 1 /\ UNCHANGED <<phase, op, args, res, wrote>>
    /\ UNCHANGED <<pcn, st0, nReset, dma, imr, guest, last,
                   told, muted, intent>>

\* Mutant of WriteDor: leaving reset forgets to abandon the result.
WriteDorKeepsResult(v) ==
    /\ nReset' = v
    /\ IF ~nReset /\ v THEN Completes(192, 192) ELSE NoEvent
    /\ UNCHANGED <<phase, op, args, res, pos, pcn, dma, guest, wrote, intent>>

\* Bit 2 of the DOR: leaving reset is an event and abandons whatever went on,
\* but only that; holding the controller in reset has no effect.
WriteDor(v) ==
    /\ nReset' = v
    /\ IF ~nReset /\ v
         THEN Completes(192, 192) /\ NoResult
         ELSE NoEvent /\ UNCHANGED <<phase, op, args, res, pos, wrote>>
    /\ UNCHANGED <<pcn, dma, guest, intent>>

-----------------------------------------------------------------------------
(* Interrupt controller *)

Deliver ==
    /\ irq /\ ~imr
    /\ irq' = FALSE /\ told' = TRUE
    /\ UNCHANGED <<fdc, dma, imr, guest, wrote, last, seen, mixed, muted, intent>>

WriteImr(m) ==
    /\ imr' = m
    /\ UNCHANGED <<fdc, dma, irq, guest, wrote, events, intent>>

-----------------------------------------------------------------------------

DmaPort ==
    \/ ClearFlipFlop \/ MasterReset
    \/ \E r \in Regs : ReadRegister(r) \/ \E v \in Byte : WriteRegister(r, v)
    \/ \E p \in Byte : WritePage(p)

\* A loader that accesses the DMA registers between two bytes of a command
\* might as well do it before the first.
Next ==
    \/ guest = "loader" /\ phase = "Idle" /\ DmaPort
    \/ \E o \in (IF guest = "loader" THEN {"read"} ELSE Ops) : WriteOpcode(o)
    \/ \E v \in UNION {ArgBytes(op, i) : i \in 1 .. 8} : WriteArgument(v)
    \/ WriteInResult
    \/ ReadResult
    \/ guest # "loader" /\ \E v \in BOOLEAN : WriteDor(v)
    \/ Deliver
    \/ guest # "loader" /\ \E m \in BOOLEAN : WriteImr(m)

\* A guest that follows the status register keeps moving bytes.
MovesByte ==
    /\ guest # "rude"
    /\ \/ ReadResult
       \/ \E v \in UNION {ArgBytes(op, i) : i \in 1 .. 8} : WriteArgument(v)

Spec == Init /\ [][Next]_vars /\ WF_vars(MovesByte)

-----------------------------------------------------------------------------
(* Properties *)

TypeOK ==
    /\ phase \in {"Idle", "Command", "Result"}
    /\ op \in Ops \cup {"none"} /\ args \in Seq(Nat) /\ Len(args) <= ArgCount(op)
    /\ res \in Seq(Int) /\ pos \in 0 .. 7
    /\ pcn \in [Drives -> Seeks]
    /\ st0 \in 0 .. 255 /\ intPending \in BOOLEAN /\ nReset \in BOOLEAN
    /\ dma \in [base : Word, count : Word, page : Byte, flip : BOOLEAN]
    /\ irq \in BOOLEAN /\ imr \in BOOLEAN /\ guest \in {"polite", "rude", "loader"}
    /\ DOMAIN wrote \subseteq Cell
    /\ last \in 0 .. 255
    /\ seen \in BOOLEAN /\ mixed \in BOOLEAN
    /\ told \in BOOLEAN /\ muted \in BOOLEAN
    /\ meant \in [Regs -> Word \cup {Unset}]
    /\ half \in [reg : Regs \cup {"none", "off"}, low : Byte]

\* SENSE INTERRUPT STATUS names the last completion and the cylinder of its
\* drive.  A READ without an image does not update _pendingSt0, but its result
\* must be read or abandoned before the next command, and both withdraw the old
\* status.
SenseReportsLastEvent ==
    phase = "Result" /\ op = "sense" /\ Len(res) = 2
        => res = <<last, pcn[last % 4]>>

\* A completion the guest has not learnt can be learnt, from SENSE INTERRUPT
\* STATUS or as the status byte of its own result.  It is withdrawn only by
\* reading another command's result, or by a guest that writes during one.
EventAvailable ==
    guest # "rude" /\ ~seen /\ ~mixed =>
        \/ intPending /\ st0 = last
        \/ phase = "Result" /\ pos = 0 /\ res[1] = last

\* Line 6 is raised for a completion once, unless it was masked then.
OneInterruptPerEvent == (irq => ~told) /\ (~told => irq \/ muted)

\* ExecSenseInterrupt and the first byte of a result hand over each completion
\* (seek, read, reset) once: the right one, neither dropped nor repeated once
\* known, with one interrupt, whatever commands the guest interleaves.
EventHandedOverOnce ==
    /\ SenseReportsLastEvent
    /\ EventAvailable
    /\ seen => ~intPending
    /\ OneInterruptPerEvent

\* The result of a READ names the sector after the last one transferred, over
\* the end of a track and of a cylinder, for whole sectors of 512 bytes.
ReportsNextSector ==
    phase = "Result" /\ op = "read" /\ args[1] \in Mounted /\ args[5] = 2
      /\ DOMAIN wrote # {} /\ RamSize - 1 \notin DOMAIN wrote =>
        LET next == Max({wrote[x] : x \in DOMAIN wrote}) + 1
        IN next > 0 /\ next % SecSize = 0 =>
            /\ res[5] \in 0 .. Heads - 1 /\ res[6] \in 1 .. Spt
            /\ Lba(res[4], res[5], res[6]) * SecSize = next

\* If the step is a READ of sectors the image has, it fills exactly the window
\* that the guest programmed, through the shared flip-flop, with them in order.
FillsWindow ==
    phase = "Command" /\ phase' = "Result" /\ op = "read"
      /\ args[1] \in Mounted /\ Unset \notin {meant.base, meant.count} =>
        LET first == Lba(args[2], args[3], args[4]) * SecSize
            start == dma.page * (Radix * Radix) + meant.base
        IN first >= 0 /\ first + meant.count < TotalSectors * SecSize =>
            wrote' = [x \in (start .. start + meant.count) \cap Cell |->
                        first + x - start]

\* Every READ fills the window that the guest programmed, and only that,
\* whatever it did to the DMA registers before (Channel2PhysicalAddress,
\* Channel2TransferBytes, ExecReadData).
ReadFillsWindow == [][FillsWindow]_vars

\* A guest that follows the status register always gets back to a controller
\* that accepts a command.
BackToIdle == guest # "rude" => []<>(phase = "Idle")

=============================================================================
