------------------------------ MODULE PcClock ------------------------------
(***************************************************************************)
(* The PC's time of day: the PIT's timer thread keeps a tick counter and a  *)
(* midnight flag under a lock and mirrors both into the BIOS data area;     *)
(* the emulator thread reads them through the HLE INT 1Ah, or, with a real  *)
(* BIOS image, lets pcxtbios' INT 8 and INT 1Ah keep the same BDA bytes.    *)
(* Guest code accesses the BDA without the PIT's lock, its CLI does not     *)
(* hold off the timer thread, and every word access of either thread is     *)
(* two byte accesses: one step of this module moves one byte of the BDA.    *)
(*                                                                          *)
(* Names shared by all specifications carry the prefix Clock: HleBiosProofs *)
(* extends this module together with HleKeyboard.                           *)
(***************************************************************************)
EXTENDS Integers, Sequences

CONSTANTS
    TicksPerDay,    \* 1573040
    Base,           \* values of a byte
    MaxTotal,       \* timer callbacks of a run
    SetTimes        \* times the guest may set through the real BIOS

ASSUME ClockAssumption ==
    /\ TicksPerDay \in Nat \ {0} /\ Base \in Nat \ {0, 1} /\ MaxTotal \in Nat
    /\ TicksPerDay < Base * Base * Base * Base
    /\ SetTimes \subseteq 0 .. TicksPerDay - 1

VARIABLES
    realBios,                   \* a BIOS image owns INT 8 and INT 1Ah
    ticks, rolled,              \* PcPit._ticks, _midnightRolled
    cell, bdaRolled,            \* the bytes 46Ch .. 46Fh, and 470h
    timer,      \* timer thread: Resting, the byte it stores next, Asserting
    irq0,       \* IRQ 0 pending
    op,         \* emulator thread: "idle" or where it is in a BIOS service
    moves,      \* cells the instructions at op have yet to load or store
    reg,        \* what the emulator thread loaded from, or stores to, the cells
    al, xored,  \* AL of INT 1Ah, and the byte xor [470h], al has loaded
    total,      \* history: callbacks so far
    owed,       \* history: a midnight no INT 1Ah has returned yet
    crossed,    \* history: it was flagged between xor's load and store
    guestDays,  \* history: new days the HLE INT 1Ah returned
    window      \* history: counter values since a BDA read began

pit == <<ticks, rolled>>
bda == <<cell, bdaRolled>>
guest == <<op, moves, reg, al, xored>>
past == <<total, owed, crossed, guestDays, window>>
clockVars == <<realBios, ticks, rolled, cell, bdaRolled, timer, irq0,
               op, moves, reg, al, xored, total, owed, crossed, guestDays, window>>

Cells == 1 .. 4
Resting == 0
Asserting == 5

Tick == 0 .. TicksPerDay - 1

Digit == 0 .. Base - 1

\* Byte i of a tick count; a tick count as its bytes.
ByteOf(t, i) ==
    (CASE i = 1 -> t
       [] i = 2 -> t \div Base
       [] i = 3 -> t \div (Base * Base)
       [] OTHER -> t \div (Base * Base * Base)) % Base
BytesOf(t) == [i \in Cells |-> ByteOf(t, i)]

\* The word whose low byte is r[i], plus one.
IncWord(r, i) ==
    [r EXCEPT ![i] = (@ + 1) % Base,
              ![i + 1] = IF r[i] = Base - 1 THEN (@ + 1) % Base ELSE @]

Locked == timer \in Cells

\* The emulator thread is loading, or storing, the cells in moves.
Loading == op \in {"bdaRead", "getTicks", "incLow", "incHigh", "cmpHigh", "cmpLow"}
Storing == op \in {"setTicks", "putLow", "putHigh", "zero"}

ClockTypeOK ==
    /\ realBios \in BOOLEAN
    /\ ticks \in Tick /\ rolled \in {0, 1}
    /\ cell \in [Cells -> Digit] /\ bdaRolled \in {0, 1}
    /\ timer \in Cells \cup {Resting, Asserting}
    /\ irq0 \in BOOLEAN
    /\ op \in {"idle", "flag", "check", "clear", "bdaRead", "getTicks", "xorLoad",
               "xorStore", "setTicks", "incLow", "putLow", "incHigh", "putHigh",
               "cmpHigh", "cmpLow", "zero"}
    /\ moves \in Seq(Cells)
    /\ reg \in [Cells -> Digit] /\ al \in {0, 1} /\ xored \in {0, 1}
    /\ total \in 0 .. MaxTotal
    /\ owed \in BOOLEAN /\ crossed \in BOOLEAN
    /\ guestDays \in Nat
    /\ window \subseteq Tick

\* Reset, before the timer is started.
ClockInit ==
    /\ realBios \in BOOLEAN
    /\ ticks = 0 /\ rolled = 0
    /\ cell = BytesOf(0) /\ bdaRolled = 0
    /\ timer = Resting /\ irq0 = FALSE
    /\ op = "idle" /\ moves = <<>> /\ reg = BytesOf(0) /\ al = 0 /\ xored = 0
    /\ total = 0 /\ owed = FALSE /\ crossed = FALSE /\ guestDays = 0 /\ window = {}

-----------------------------------------------------------------------------
(* Timer thread: OnTick *)

\* Count, wrapping at the given limit, and flag a midnight, with c in the BDA;
\* the lock is taken.
CountTick(limit, c) ==
    /\ timer = Resting /\ timer' = 1
    /\ total < MaxTotal /\ total' = total + 1
    /\ LET wraps == ticks + 1 >= limit
       IN /\ ticks' = IF wraps THEN ticks + 1 - limit ELSE ticks + 1
          /\ rolled' = IF wraps THEN 1 ELSE rolled
          /\ bdaRolled' = IF wraps THEN 1 ELSE bdaRolled
          /\ owed' = (owed \/ wraps)
          /\ crossed' = (crossed \/ (wraps /\ op = "xorStore"))
    /\ window' = IF realBios THEN window ELSE window \cup {ticks'}
    /\ cell' = c
    /\ UNCHANGED <<irq0, guest, guestDays>>

\* Mutants of OnTickCount: the wrap is one tick late; the bytes are cleared
\* before the new ones are stored.
OnTickCountLate == CountTick(TicksPerDay + 1, cell)
OnTickCountZeroing == CountTick(TicksPerDay, BytesOf(0))

OnTickCount == CountTick(TicksPerDay, cell)

\* WriteBdaTickLocked stores one byte after the other; with the last one the
\* lock is released.
StoreTickByte(b) ==
    /\ Locked /\ timer' = timer + 1
    /\ cell' = [cell EXCEPT ![timer] = b]
    /\ UNCHANGED <<pit, bdaRolled, irq0, guest, past>>

\* Mutant of WriteBdaTick: the high word is never stored.
WriteBdaTickLowOnly == StoreTickByte(IF timer <= 2 THEN ByteOf(ticks, timer) ELSE cell[timer])

WriteBdaTick == StoreTickByte(ByteOf(ticks, timer))

OnTickAssert ==
    /\ timer = Asserting /\ timer' = Resting
    /\ irq0' = TRUE
    /\ UNCHANGED <<pit, bda, guest, past>>

OnTick == OnTickCount \/ WriteBdaTick \/ OnTickAssert

-----------------------------------------------------------------------------
(* Emulator thread, HLE BIOS: Int1A_GetTicks, one lock section per access *)

Int1ATicks ==
    /\ ~realBios /\ op = "idle" /\ ~Locked
    /\ reg' = BytesOf(ticks)
    /\ op' = "flag"
    /\ UNCHANGED <<pit, bda, timer, irq0, moves, al, xored, past>>

\* AL = MidnightRolled
Int1AFlag ==
    /\ op = "flag" /\ ~Locked
    /\ al' = rolled
    /\ guestDays' = guestDays + rolled
    /\ owed' = (owed /\ rolled = 0)
    /\ op' = "check"
    /\ UNCHANGED <<pit, bda, timer, irq0, moves, reg, xored, total, crossed, window>>

\* Mutant of Int1ACheck: the flag is left set.
Int1ACheckKeeps ==
    /\ op = "check" /\ ~Locked /\ op' = "idle"
    /\ UNCHANGED <<pit, bda, timer, irq0, moves, reg, al, xored, past>>

\* if (MidnightRolled != 0), read again
Int1ACheck ==
    /\ op = "check" /\ ~Locked
    /\ op' = IF rolled # 0 THEN "clear" ELSE "idle"
    /\ UNCHANGED <<pit, bda, timer, irq0, moves, reg, al, xored, past>>

\* MidnightRolled = 0
Int1AClear ==
    /\ op = "clear" /\ ~Locked /\ op' = "idle"
    /\ rolled' = 0 /\ bdaRolled' = 0
    /\ UNCHANGED <<ticks, cell, timer, irq0, moves, reg, al, xored, past>>

-----------------------------------------------------------------------------
(* Emulator thread: the byte accesses of guest code *)

LoadByte ==
    /\ Loading /\ moves # <<>>
    /\ reg' = [reg EXCEPT ![Head(moves)] = cell[Head(moves)]]
    /\ moves' = Tail(moves)
    /\ UNCHANGED <<pit, bda, timer, irq0, op, al, xored, past>>

StoreByte ==
    /\ Storing /\ moves # <<>>
    /\ cell' = [cell EXCEPT ![Head(moves)] = reg[Head(moves)]]
    /\ moves' = Tail(moves)
    /\ UNCHANGED <<pit, bdaRolled, timer, irq0, op, reg, al, xored, past>>

\* The accesses of op are done: the next instructions access these cells.
Goto(o, o2, cells) == op = o /\ moves = <<>> /\ op' = o2 /\ moves' = cells

(* A guest program that reads the tick DWORD itself, low word first *)

BdaRead ==
    /\ Goto("idle", "bdaRead", <<1, 2, 3, 4>>)
    /\ window' = IF realBios THEN {}
                 ELSE IF Locked THEN {ticks, (ticks - 1) % TicksPerDay} ELSE {ticks}
    /\ UNCHANGED <<pit, bda, timer, irq0, reg, al, xored, total, owed, crossed, guestDays>>

BdaReadDone ==
    /\ Goto("bdaRead", "idle", <<>>)
    /\ window' = {}
    /\ UNCHANGED <<pit, bda, timer, irq0, reg, al, xored, total, owed, crossed, guestDays>>

-----------------------------------------------------------------------------
(* Emulator thread, real BIOS: INT 8 of pcxtbios *)

\* IRQ 0 is delivered: inc [46Ch] ...
Int8 ==
    /\ realBios /\ irq0 /\ irq0' = FALSE
    /\ Goto("idle", "incLow", <<1, 2>>)
    /\ UNCHANGED <<pit, bda, timer, reg, al, xored, past>>

Int8IncLow ==
    /\ Goto("incLow", "putLow", <<1, 2>>)
    /\ reg' = IncWord(reg, 1)
    /\ UNCHANGED <<pit, bda, timer, irq0, al, xored, past>>

\* ... jnz @@check_midnight; inc [46Eh] ...
Int8Carry ==
    /\ IF reg[1] = 0 /\ reg[2] = 0
       THEN Goto("putLow", "incHigh", <<3, 4>>)
       ELSE Goto("putLow", "cmpHigh", <<3, 4>>)
    /\ UNCHANGED <<pit, bda, timer, irq0, reg, al, xored, past>>

Int8IncHigh ==
    /\ Goto("incHigh", "putHigh", <<3, 4>>)
    /\ reg' = IncWord(reg, 3)
    /\ UNCHANGED <<pit, bda, timer, irq0, al, xored, past>>

Int8CheckMidnight ==
    /\ Goto("putHigh", "cmpHigh", <<3, 4>>)
    /\ UNCHANGED <<pit, bda, timer, irq0, reg, al, xored, past>>

\* ... cmp [46Eh], 18h; cmp [46Ch], 0B0h ...
Int8CmpHigh ==
    /\ IF \A i \in {3, 4} : reg[i] = ByteOf(TicksPerDay, i)
       THEN Goto("cmpHigh", "cmpLow", <<1, 2>>)
       ELSE Goto("cmpHigh", "idle", <<>>)
    /\ UNCHANGED <<pit, bda, timer, irq0, reg, al, xored, past>>

Int8CmpLow ==
    /\ \/ /\ \A i \in {1, 2} : reg[i] = ByteOf(TicksPerDay, i)
          /\ Goto("cmpLow", "zero", <<3, 4, 1, 2>>)
          /\ reg' = BytesOf(0)
       \/ /\ \E i \in {1, 2} : reg[i] # ByteOf(TicksPerDay, i)
          /\ Goto("cmpLow", "idle", <<>>)
          /\ UNCHANGED reg
    /\ UNCHANGED <<pit, bda, timer, irq0, al, xored, past>>

\* ... the words are zeroed, and mov [470h], 1
Int8NewDay ==
    /\ Goto("zero", "idle", <<>>)
    /\ bdaRolled' = 1 /\ owed' = TRUE
    /\ UNCHANGED <<pit, cell, timer, irq0, reg, al, xored, total, crossed, guestDays, window>>

-----------------------------------------------------------------------------
(* Emulator thread, real BIOS: INT 1Ah of pcxtbios *)

\* AH = 0: CX, then DX ...
BiosGetTicks ==
    /\ realBios
    /\ Goto("idle", "getTicks", <<3, 4, 1, 2>>)
    /\ UNCHANGED <<pit, bda, timer, irq0, reg, al, xored, past>>

\* ... mov al, [470h] ...
BiosFlag ==
    /\ Goto("getTicks", "xorLoad", <<>>)
    /\ al' = bdaRolled
    /\ owed' = (owed /\ bdaRolled = 0)
    /\ crossed' = (crossed /\ bdaRolled = 0)
    /\ UNCHANGED <<pit, bda, timer, irq0, reg, xored, total, guestDays, window>>

\* ... and xor [470h], al, which loads the flag once more and clears it only if
\* it was returned.  A midnight the PIT flags during a call that returned 1
\* counts as reported.
BiosXorLoad ==
    /\ Goto("xorLoad", "xorStore", <<>>)
    /\ xored' = bdaRolled
    /\ UNCHANGED <<pit, bda, timer, irq0, reg, al, past>>

\* Store v to the flag.
ResetFlag(v) ==
    /\ Goto("xorStore", "idle", <<>>)
    /\ bdaRolled' = v
    /\ owed' = (owed /\ al = 0)
    /\ crossed' = (crossed /\ al = 0)
    /\ UNCHANGED <<pit, cell, timer, irq0, reg, al, xored, total, guestDays, window>>

\* Mutant of BiosXorStore: the flag is cleared whatever was returned.
BiosXorStoreZero == ResetFlag(0)

BiosXorStore == ResetFlag((xored + al) % 2)

\* AH = 1: mov [46Ch], dx; mov [46Eh], cx ...
BiosSetTicks ==
    /\ realBios
    /\ Goto("idle", "setTicks", <<1, 2, 3, 4>>)
    /\ \E t \in SetTimes : reg' = BytesOf(t)
    /\ UNCHANGED <<pit, bda, timer, irq0, al, xored, past>>

\* ... and mov [470h], ah: not a new day
BiosSetFlag ==
    /\ Goto("setTicks", "idle", <<>>)
    /\ bdaRolled' = 0 /\ owed' = FALSE /\ crossed' = FALSE
    /\ UNCHANGED <<pit, cell, timer, irq0, reg, al, xored, total, guestDays, window>>

HleService == Int1ATicks \/ Int1AFlag \/ Int1ACheck \/ Int1AClear

GuestAccess == LoadByte \/ StoreByte \/ BdaRead \/ BdaReadDone

BiosInt8 ==
    \/ Int8 \/ Int8IncLow \/ Int8Carry \/ Int8IncHigh
    \/ Int8CheckMidnight \/ Int8CmpHigh \/ Int8CmpLow \/ Int8NewDay

BiosInt1A ==
    \/ BiosGetTicks \/ BiosFlag \/ BiosXorLoad \/ BiosXorStore
    \/ BiosSetTicks \/ BiosSetFlag

ClockNext ==
    (OnTick \/ HleService \/ GuestAccess \/ BiosInt8 \/ BiosInt1A) /\ UNCHANGED realBios

ClockSpec == ClockInit /\ [][ClockNext]_clockVars
-----------------------------------------------------------------------------
(* Properties *)

\* Whenever the timer thread is outside its lock the BDA holds the PIT's
\* counter and flag.
BdaMirrorsPit == ~Locked => cell = BytesOf(ticks) /\ bdaRolled = rolled

\* A guest that has read the tick DWORD has in each byte that byte of a value
\* the counter had meanwhile.
BdaReadConsistent ==
    op = "bdaRead" /\ moves = <<>> =>
        \A i \in Cells : \E t \in window : reg[i] = ByteOf(t, i)

\* With the HLE BIOS, OnTick's memory writes and the guest's byte reads
\* interleave without harm: the BDA mirrors the PIT, whose counter stays within
\* a day, and a read never sees a byte the counter did not have meanwhile: only
\* a carry into a byte above the lowest can tear it.
BdaFollowsPit == ClockTypeOK /\ (~realBios => BdaMirrorsPit /\ BdaReadConsistent)

\* INT 1Ah reports a midnight once.  The HLE service, which reads the flag twice
\* and clears it in a third lock section, announces no more days than the PIT
\* counted; with pcxtbios, which clears by xor with what it returned, a midnight
\* neither reported nor dismissed by setting the time stays flagged, unless the
\* PIT flagged it between that xor's load and its store.
DaysReportedOnce ==
    /\ ~realBios => guestDays <= total \div TicksPerDay
    /\ realBios /\ owed /\ ~crossed => bdaRolled = 1
=============================================================================
