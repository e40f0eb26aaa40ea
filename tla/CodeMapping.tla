----------------------------- MODULE CodeMapping -----------------------------
(***************************************************************************)
(* Does a compiled block still stand for the bytes a fetch would read?      *)
(* Two machines whose code moves under the block cache: the NES with an     *)
(* MMC1 cartridge (Mapper001, NesMemoryBus, NesJsonCpu) and the Game Boy    *)
(* with an MBC1 cartridge and boot ROM (GbMemoryBus, JsonCpu).  Stores      *)
(* change RAM, switch banks or unmap the boot ROM; each path tells the      *)
(* cache about some addresses and not about others.                         *)
(*                                                                          *)
(* The address space is cut into cells, a block is the set of cells its     *)
(* instructions lie in, and code is what the cells of the block held when   *)
(* it was compiled.  A program has at most ProgramSize blocks.  Left out:   *)
(* the LRU bound of the cache (BlockCache), HRAM and VRAM, the CHR side of  *)
(* the MMC1, and the two environment switches that are off by default       *)
(* (APR_SMC_INLINE_NOTIFY, APR_CROSS_JUMP_RAM).                             *)
(***************************************************************************)
EXTENDS Integers, Sequences, FiniteSets

CONSTANTS
    PrgBanks,       \* 16 KB banks of the NES cartridge
    FreeBits,       \* positions of a 5-bit MMC1 value the guest may set
    RomBanks,       \* 16 KB banks of the Game Boy cartridge
    LoValues,       \* values written at 2000-3FFF
    HiValues,       \* values written at 4000-5FFF
    Values,         \* contents of a RAM cell
    ProgramSize     \* blocks the guest runs

ASSUME CodeAssumption ==
    /\ PrgBanks \in Nat /\ PrgBanks >= 2 /\ PrgBanks % 2 = 0
    /\ FreeBits \subseteq 0 .. 4
    /\ RomBanks \in Nat \ {0}
    /\ LoValues \subseteq 0 .. 255 /\ HiValues \subseteq 0 .. 255
    /\ Values \subseteq Nat /\ 0 \in Values
    /\ ProgramSize \in Nat \ {0}

Blocks(c) ==
    IF c = "MMC1"
      THEN {{"wram"}, {"mirror"}, {"prgRam"}, {"lo"}, {"hi"}, {"lo", "hi"}}
      ELSE {{"wram"}, {"mirror"}, {"ext"}, {"boot"}, {"rom1"}, {"boot", "rom1"}}

NotCached == [kind |-> "none"]
Idle == {}

VARIABLES
    cart,       \* "MMC1" or "MBC1"
    program,    \* the blocks the guest runs
    cache,      \* _blockCache: code of each block of the program, or NotCached
    running,    \* the block being executed, or Idle
    ctrl,       \* _ctrl
    prgSelect,  \* _prgSelect
    shiftReg, shiftCount,
    ppuMirroring,   \* _verticalMirroring of NesPpu
    romBank, ramBank, ramEnable, modeRamBank,
    biosEnabled,
    wram,       \* a cell of _wram / Wram, seen at its address and at a mirror
    xram,       \* a cell of _prgRam (bank 0) / of the banks of ExtRam
    bits,       \* history: bits shifted in since the last reset or latch
    mirrorSent, \* history: MirroringChanged has fired
    silent      \* history: blocks that a change nobody reported has touched since they were compiled

mmc == <<ctrl, prgSelect, shiftReg, shiftCount, ppuMirroring, bits, mirrorSent>>
mbc == <<romBank, ramBank, ramEnable, modeRamBank, biosEnabled>>
ram == <<wram, xram>>
vars == <<cart, program, cache, running, mmc, mbc, ram, silent>>

-----------------------------------------------------------------------------
(* What a fetch reads *)

Ram(v) == [kind |-> "ram", n |-> v]
Rom(b) == [kind |-> "rom", n |-> b]
OpenBus == [kind |-> "open"]
Bios == [kind |-> "bios"]

Mirroring == ctrl % 4
PrgMode == (ctrl \div 4) % 4

\* Mapper001.CpuRead: the bank at 8000-BFFF and at C000-FFFF.
PrgBankAt(cell) ==
    CASE PrgMode \in {0, 1} ->
           LET bank == (prgSelect - (prgSelect % 2)) % PrgBanks
           IN  IF cell = "lo" THEN bank ELSE bank + 1
      [] PrgMode = 2 -> IF cell = "lo" THEN 0 ELSE prgSelect % PrgBanks
      [] PrgMode = 3 -> IF cell = "lo" THEN prgSelect % PrgBanks ELSE PrgBanks - 1

\* GbMemoryBus.SafeRom: a bank past the end of the file reads as FF.
SafeRom(bank) == IF bank < RomBanks THEN Rom(bank) ELSE OpenBus

ReadByte(cell) ==
    CASE cell \in {"wram", "mirror"} -> Ram(wram)
      [] cell \in {"lo", "hi"}       -> Rom(PrgBankAt(cell))
      [] cell = "prgRam"             -> Ram(xram[0])
      [] cell = "boot"               -> IF biosEnabled THEN Bios ELSE SafeRom(0)
      [] cell = "rom1"               -> SafeRom(romBank)
      [] cell = "ext"                -> IF ramEnable THEN Ram(xram[ramBank]) ELSE OpenBus

CodeAt(b) == [kind |-> "code", of |-> [cell \in b |-> ReadByte(cell)]]

-----------------------------------------------------------------------------
Init ==
    /\ cart \in {"MMC1", "MBC1"}
    /\ program \in {p \in SUBSET Blocks(cart) : Cardinality(p) = ProgramSize}
    /\ cache = [b \in program |-> NotCached]
    /\ running = Idle
    /\ ctrl = 12 /\ prgSelect = PrgBanks - 2
    /\ shiftReg = 0 /\ shiftCount = 0 /\ bits = <<>>
    /\ ppuMirroring \in IF cart = "MMC1" THEN {0, 1} ELSE {0}
    /\ mirrorSent = FALSE
    /\ romBank = 1 /\ ramBank = 0 /\ ramEnable = FALSE /\ modeRamBank = FALSE
    /\ biosEnabled \in IF cart = "MBC1" THEN BOOLEAN ELSE {FALSE}
    /\ wram = 0 /\ xram = [i \in 0 .. 3 |-> 0]
    /\ silent = {}

\* StepBlock: a hit runs what was compiled, a miss compiles what is mapped now.
Dispatch(b) ==
    /\ running = Idle
    /\ running' = b
    /\ IF cache[b] # NotCached
         THEN UNCHANGED <<cache, silent>>
         ELSE /\ cache' = [cache EXCEPT ![b] = CodeAt(b)]
              /\ silent' = silent \ {b}
    /\ UNCHANGED <<cart, program, mmc, mbc, ram>>

EndBlock ==
    /\ running # Idle
    /\ running' = Idle
    /\ UNCHANGED <<cart, program, cache, mmc, mbc, ram, silent>>

\* NotifyMemoryWrite at an address covered by the blocks of these cells.
NotifyMemoryWrite(cells) ==
    [b \in program |-> IF b \cap cells # {} THEN NotCached ELSE cache[b]]

Touching(cells) == {b \in program : b \cap cells # {}}

-----------------------------------------------------------------------------
(* Stores to RAM *)

\* The byte is seen at both addresses; the cache is told about "told" alone.
Overwrite(v, told) ==
    /\ wram' = v
    /\ cache' = NotifyMemoryWrite(told)
    /\ silent' = silent \cup Touching({"wram", "mirror"} \ told)

\* NesMemoryBus.WriteByte hands the address as it is to SmcWriteHook; a store of
\* a Game Boy block to C000-DFFF is inline and reports nothing, one to the echo
\* goes through MemWrite8Sync; PUSH, CALL and 16-bit stores always report.
StoreWram(v, cell, wide) ==
    /\ running # Idle
    /\ Overwrite(v, IF cart = "MBC1" /\ cell = "wram" /\ ~wide THEN {} ELSE {cell})
    /\ UNCHANGED <<cart, program, running, mmc, mbc, xram>>

\* NmiInterrupt pushes through the hook, CheckInterrupts straight to the bus.
InterruptPush(v) ==
    /\ running = Idle
    /\ Overwrite(v, IF cart = "MMC1" THEN {"wram"} ELSE {})
    /\ UNCHANGED <<cart, program, running, mmc, mbc, xram>>

\* PRG RAM at 6000-7FFF.
StorePrgRam(v) ==
    /\ running # Idle /\ cart = "MMC1"
    /\ xram' = [xram EXCEPT ![0] = v]
    /\ cache' = NotifyMemoryWrite({"prgRam"})
    /\ UNCHANGED <<cart, program, running, mmc, mbc, wram, silent>>

\* Mutant: the store is inlined like one to work RAM.
StoreExtRamInline(v) ==
    /\ running # Idle /\ cart = "MBC1"
    /\ xram' = IF ramEnable THEN [xram EXCEPT ![ramBank] = v] ELSE xram
    /\ UNCHANGED cache
    /\ UNCHANGED <<cart, program, running, mmc, mbc, wram, silent>>

\* External RAM at A000-BFFF: reported even when it is disabled and drops the byte.
StoreExtRam(v) ==
    /\ running # Idle /\ cart = "MBC1"
    /\ xram' = IF ramEnable THEN [xram EXCEPT ![ramBank] = v] ELSE xram
    /\ cache' = NotifyMemoryWrite({"ext"})
    /\ UNCHANGED <<cart, program, running, mmc, mbc, wram, silent>>

-----------------------------------------------------------------------------
(* Mapper001.CpuWrite at 8000-FFFF *)

\* PrgBankSwitched -> InvalidateCachedBlocksInRange drops every block.
PrgBankSwitched == [b \in program |-> NotCached]

\* SmcWriteHook runs first; the address may lie in the code of the block or not.
HookAt(cell, covered) == IF covered THEN NotifyMemoryWrite({cell}) ELSE cache

\* Mutant: the forced PRG mode 3 is not reported.
ResetUnreported ==
    /\ running # Idle /\ cart = "MMC1"
    /\ shiftReg' = 0 /\ shiftCount' = 0 /\ bits' = <<>>
    /\ ctrl' = Mirroring + 12 + 16 * (ctrl \div 16)
    /\ UNCHANGED cache
    /\ UNCHANGED <<cart, program, running, prgSelect, ppuMirroring, mirrorSent,
                   mbc, ram, silent>>

\* Mutant: the reset keeps the bits shifted in so far.
ResetKeepsBits ==
    /\ running # Idle /\ cart = "MMC1"
    /\ shiftReg' = shiftReg /\ shiftCount' = 0 /\ bits' = <<>>
    /\ ctrl' = Mirroring + 12 + 16 * (ctrl \div 16)
    /\ cache' = PrgBankSwitched
    /\ UNCHANGED <<cart, program, running, prgSelect, ppuMirroring, mirrorSent,
                   mbc, ram, silent>>

Mmc1Reset ==
    /\ running # Idle /\ cart = "MMC1"
    /\ shiftReg' = 0 /\ shiftCount' = 0 /\ bits' = <<>>
    /\ ctrl' = Mirroring + 12 + 16 * (ctrl \div 16)
    /\ cache' = PrgBankSwitched
    /\ UNCHANGED <<cart, program, running, prgSelect, ppuMirroring, mirrorSent,
                   mbc, ram, silent>>

Mmc1Shift(cell, bit, covered) ==
    /\ running # Idle /\ cart = "MMC1"
    /\ shiftCount < 4
    /\ shiftReg' = shiftReg + bit * 2^shiftCount
    /\ shiftCount' = shiftCount + 1
    /\ bits' = Append(bits, bit)
    /\ cache' = HookAt(cell, covered)
    /\ UNCHANGED <<cart, program, running, ctrl, prgSelect, ppuMirroring,
                   mirrorSent, mbc, ram, silent>>

\* The four registers by address; a CHR register changes nothing here.
Registers == {[cell |-> "lo", name |-> "ctrl"], [cell |-> "lo", name |-> "chr"],
              [cell |-> "hi", name |-> "chr"], [cell |-> "hi", name |-> "prg"]}

PpuMode(m) == CASE m = 0 -> 2 [] m = 1 -> 3 [] m = 2 -> 1 [] OTHER -> 0

\* Mutant: mirroring is passed on only with a change of the PRG mapping.
LatchSendsWithBanks(reg, bit, covered) ==
    /\ running # Idle /\ cart = "MMC1"
    /\ shiftCount = 4
    /\ LET v == shiftReg + bit * 16
           mirroring == v % 4
           newCtrl == IF reg.name = "ctrl" THEN v ELSE ctrl
           newSelect == IF reg.name = "prg" THEN v % 16 ELSE prgSelect
           switched == (newCtrl \div 4) % 4 # PrgMode \/ newSelect # prgSelect
           moved == switched /\ reg.name = "ctrl" /\ mirroring # Mirroring
       IN  /\ ctrl' = newCtrl
           /\ prgSelect' = newSelect
           /\ ppuMirroring' = IF moved THEN PpuMode(mirroring) ELSE ppuMirroring
           /\ mirrorSent' = (mirrorSent \/ moved)
           /\ cache' = IF switched THEN PrgBankSwitched ELSE HookAt(reg.cell, covered)
    /\ shiftReg' = 0 /\ shiftCount' = 0 /\ bits' = <<>>
    /\ UNCHANGED <<cart, program, running, mbc, ram, silent>>

Mmc1Latch(reg, bit, covered) ==
    /\ running # Idle /\ cart = "MMC1"
    /\ shiftCount = 4
    /\ LET v == shiftReg + bit * 16
           mirroring == v % 4
           newCtrl == IF reg.name = "ctrl" THEN v ELSE ctrl
           newSelect == IF reg.name = "prg" THEN v % 16 ELSE prgSelect
           switched == (newCtrl \div 4) % 4 # PrgMode \/ newSelect # prgSelect
           moved == reg.name = "ctrl" /\ mirroring # Mirroring
       IN  /\ ctrl' = newCtrl
           /\ prgSelect' = newSelect
           /\ ppuMirroring' = IF moved THEN PpuMode(mirroring) ELSE ppuMirroring
           /\ mirrorSent' = (mirrorSent \/ moved)
           /\ cache' = IF switched THEN PrgBankSwitched ELSE HookAt(reg.cell, covered)
    /\ shiftReg' = 0 /\ shiftCount' = 0 /\ bits' = <<>>
    /\ UNCHANGED <<cart, program, running, mbc, ram, silent>>

-----------------------------------------------------------------------------
(* GbMemoryBus.WriteByte below 8000, and FF50: the cache hears of the       *)
(* register's own address (in the boot or rom1 cell), not of what it moves. *)

MbcWrite(cell, covered, moves) ==
    /\ running # Idle /\ cart = "MBC1"
    /\ cache' = HookAt(cell, covered)
    /\ silent' = silent \cup Touching(moves)
    /\ UNCHANGED <<cart, program, running, mmc, ram>>

WriteRamEnable(on, covered) ==
    /\ ramEnable' = on
    /\ MbcWrite("boot", covered, {"ext"})
    /\ UNCHANGED <<romBank, ramBank, modeRamBank, biosEnabled>>

\* Mutant: without the MBC1 quirk.
RomBankLowPlain(v) ==
    /\ LET lo == v % 32
       IN  romBank' = (romBank - (romBank % 32)) + lo
    /\ MbcWrite("rom0", FALSE, {"rom1"})
    /\ UNCHANGED <<ramBank, ramEnable, modeRamBank, biosEnabled>>

WriteRomBankLow(v) ==
    /\ LET lo == IF v % 32 = 0 THEN 1 ELSE v % 32
       IN  romBank' = (romBank - (romBank % 32)) + lo
    /\ MbcWrite("rom0", FALSE, {"rom1"})
    /\ UNCHANGED <<ramBank, ramEnable, modeRamBank, biosEnabled>>

\* Mutant: the old upper bits are not cleared.
BankHighAdded(v, covered) ==
    /\ IF modeRamBank
         THEN ramBank' = v % 4 /\ UNCHANGED romBank
         ELSE romBank' = romBank + 32 * (v % 4) /\ UNCHANGED ramBank
    /\ MbcWrite("rom1", covered, IF modeRamBank THEN {"ext"} ELSE {"rom1"})
    /\ UNCHANGED <<ramEnable, modeRamBank, biosEnabled>>

WriteBankHigh(v, covered) ==
    /\ IF modeRamBank
         THEN ramBank' = v % 4 /\ UNCHANGED romBank
         ELSE romBank' = (romBank % 32) + 32 * (v % 4) /\ UNCHANGED ramBank
    /\ MbcWrite("rom1", covered, IF modeRamBank THEN {"ext"} ELSE {"rom1"})
    /\ UNCHANGED <<ramEnable, modeRamBank, biosEnabled>>

WriteMode(on, covered) ==
    /\ modeRamBank' = on
    /\ MbcWrite("rom1", covered, {})
    /\ UNCHANGED <<romBank, ramBank, ramEnable, biosEnabled>>

\* FF50 is an I/O address: the store also ends the running block.
WriteBootOff ==
    /\ running # Idle /\ cart = "MBC1"
    /\ biosEnabled' = FALSE
    /\ running' = Idle
    /\ silent' = silent \cup Touching({"boot"})
    /\ UNCHANGED <<cart, program, cache, mmc, romBank, ramBank, ramEnable,
                   modeRamBank, ram>>

Bits(n) == IF n \in FreeBits THEN {0, 1} ELSE {0}

Next ==
    \/ \E b \in program : Dispatch(b)
    \/ EndBlock
    \/ \E v \in Values, cell \in {"wram", "mirror"}, wide \in BOOLEAN : StoreWram(v, cell, wide)
    \/ \E v \in Values : InterruptPush(v) \/ StorePrgRam(v) \/ StoreExtRam(v)
    \/ Mmc1Reset
    \/ \E cell \in {"lo", "hi"}, bit \in Bits(shiftCount), covered \in BOOLEAN :
          Mmc1Shift(cell, bit, covered)
    \/ \E reg \in Registers, bit \in Bits(4), covered \in BOOLEAN : Mmc1Latch(reg, bit, covered)
    \/ \E on, covered \in BOOLEAN : WriteRamEnable(on, covered) \/ WriteMode(on, covered)
    \/ \E v \in LoValues : WriteRomBankLow(v)
    \/ \E v \in HiValues, covered \in BOOLEAN : WriteBankHigh(v, covered)
    \/ WriteBootOff

Spec == Init /\ [][Next]_vars

-----------------------------------------------------------------------------
(* Properties *)

\* Every variable has its type.  romBank keeps the 7 bits of the two registers,
\* and "no bank 0 in the upper window" (GbMemoryBus.cs:169-171), whatever the
\* order of the writes to those and to the mode.
TypeOK ==
    /\ cart \in {"MMC1", "MBC1"}
    /\ program \subseteq Blocks(cart)
    /\ DOMAIN cache = program
    /\ \A b \in program : cache[b] # NotCached => DOMAIN cache[b].of = b
    /\ running \in program \cup {Idle}
    /\ ctrl \in 0 .. 31 /\ prgSelect \in 0 .. (IF PrgBanks > 17 THEN PrgBanks - 2 ELSE 15)
    /\ shiftReg \in 0 .. 15 /\ shiftCount \in 0 .. 4
    /\ ppuMirroring \in 0 .. 3 /\ mirrorSent \in BOOLEAN
    /\ romBank \in 0 .. 127 /\ romBank % 32 # 0 /\ ramBank \in 0 .. 3
    /\ {ramEnable, modeRamBank, biosEnabled} \subseteq BOOLEAN
    /\ wram \in Values /\ xram \in [0 .. 3 -> Values]
    /\ silent \subseteq program

Cached(b) == cache[b] # NotCached
Stale(b) == Cached(b) /\ cache[b] # CodeAt(b)

\* IMapper.PrgBankSwitched fires whenever a store changes what the cartridge
\* window shows, and SmcWriteHook reports every store to PRG RAM: on the NES no
\* block of the cartridge, in ROM or RAM, is ever out of date.
CartridgeBlocksFresh ==
    cart = "MMC1" => \A b \in program : b \cap {"wram", "mirror"} = {} => ~Stale(b)

\* A block is out of date only after a change on a path that reports nothing:
\* a store at a mirror of its address, an inline Game Boy store, an interrupt
\* push, a bank or RAM register of the MBC1, or the end of the boot ROM.
StaleOnlyBySilentChange == \A b \in program : Stale(b) => b \in silent

\* What the MMC1 will latch is exactly what was shifted in since the last reset
\* or latch, lowest bit first.
SerialPortExact ==
    /\ shiftCount = Len(bits)
    /\ shiftReg < 2^shiftCount
    /\ \A i \in DOMAIN bits : (shiftReg \div 2^(i - 1)) % 2 = bits[i]

\* The picture unit uses the mirroring of the control register, except that
\* before the first change it may keep the one of the file header while the
\* register holds its power-on value.
MirroringFollows ==
    IF mirrorSent THEN ppuMirroring = PpuMode(Mirroring) ELSE Mirroring = 0

\* Mapper001.CpuWrite: whatever resets and half-written values come between, a
\* register gets the five bits meant for it, and the picture unit hears of each
\* change of the mirroring.
Mmc1RegistersExact == SerialPortExact /\ MirroringFollows

=============================================================================
