------------------------- MODULE CodeMappingProofs -------------------------
(***************************************************************************)
(* Which blocks can be out of date, for every number of banks, every set of *)
(* register values and every program.                                       *)
(*                                                                          *)
(* The argument is one lemma (Refreshed) applied to every store: a store    *)
(* changes what some cells read as, and each block over such a cell is      *)
(* dropped from the cache or listed in "silent".  What remains per action   *)
(* is to say which cells it moves.                                          *)
(***************************************************************************)
EXTENDS CodeMapping, TLAPS

\* The cells that the cartridge's blocks are made of.
CellsOf(c) ==
    IF c = "MMC1" THEN {"wram", "mirror", "prgRam", "lo", "hi"}
                  ELSE {"wram", "mirror", "ext", "boot", "rom1"}

Shape ==
    /\ cart \in {"MMC1", "MBC1"}
    /\ program \subseteq Blocks(cart)
    /\ DOMAIN cache = program

\* On the NES only blocks in work RAM are ever changed silently.
SilentInWram == cart = "MMC1" => \A b \in silent : b \cap {"wram", "mirror"} # {}

Inv == Shape /\ StaleOnlyBySilentChange /\ SilentInWram

\* A step that changes what only the cells of "moved" read as, and that drops
\* or lists every block over them.
OthersRead(moved) == \A cell \in CellsOf(cart) : cell \notin moved => ReadByte(cell)' = ReadByte(cell)

Accounted(moved) ==
    /\ cart' = cart /\ program' = program
    /\ DOMAIN cache' = program
    /\ \A b \in program : cache'[b] \in {NotCached, cache[b]}
    /\ \A b \in program : b \cap moved # {} => cache'[b] = NotCached \/ b \in silent'
    /\ silent \subseteq silent'

\* A block is made of cells of its own cartridge.
LEMMA BlockCells == Shape => \A b \in program : b \subseteq CellsOf(cart)
BY DEF Shape, Blocks, CellsOf

\* A change that cells outside moved do not see, and whose readers are either
\* dropped or listed as silently changed, leaves every other block fresh.
LEMMA Refreshed ==
    ASSUME NEW moved, Inv, OthersRead(moved), Accounted(moved)
    PROVE  Shape' /\ StaleOnlyBySilentChange'
<1>1. Shape'
  BY DEF Inv, Shape, Accounted
<1>2. ASSUME NEW b \in program, Stale(b)' PROVE b \in silent'
  <2>1. CASE b \cap moved # {}
    BY <1>2, <2>1 DEF Accounted, Stale, Cached
  <2>2. CASE b \cap moved = {}
    <3>1. \A cell \in b : ReadByte(cell)' = ReadByte(cell)
      BY <2>2, BlockCells DEF OthersRead, Inv
    <3>2. CodeAt(b)' = CodeAt(b)
      BY <3>1 DEF CodeAt
    <3>3. cache'[b] = cache[b] /\ cache'[b] # NotCached
      BY <1>2 DEF Accounted, Stale, Cached
    <3>4. Stale(b)
      BY <1>2, <3>2, <3>3 DEF Stale, Cached
    <3> QED BY <3>4 DEF Inv, StaleOnlyBySilentChange, Accounted
  <2> QED BY <2>1, <2>2
<1> QED BY <1>1, <1>2 DEF StaleOnlyBySilentChange, Accounted

\* NotifyMemoryWrite drops exactly the blocks over the cells it is told of.
LEMMA Notified ==
    ASSUME NEW cells, Shape, cache' = NotifyMemoryWrite(cells)
    PROVE  /\ DOMAIN cache' = program
           /\ \A b \in program : cache'[b] \in {NotCached, cache[b]}
           /\ \A b \in program : b \cap cells # {} => cache'[b] = NotCached
BY DEF NotifyMemoryWrite, Shape

\* A notification of any cell accounts for what a store lists as silent.
LEMMA HookAccounts ==
    ASSUME NEW cell, NEW covered, NEW moved, Shape, cart' = cart, program' = program,
           cache' = HookAt(cell, covered), silent' = silent \cup Touching(moved)
    PROVE  Accounted(moved)
<1>1. /\ DOMAIN cache' = program
      /\ \A b \in program : cache'[b] \in {NotCached, cache[b]}
  BY DEF HookAt, NotifyMemoryWrite, Shape
<1> QED BY <1>1 DEF Accounted, Touching

\* A change of a RAM byte seen at two addresses.
LEMMA OverwriteAccounts ==
    ASSUME NEW v, NEW told, Shape, cart' = cart, program' = program, Overwrite(v, told)
    PROVE  Accounted({"wram", "mirror"})
<1>1. /\ DOMAIN cache' = program
      /\ \A b \in program : cache'[b] \in {NotCached, cache[b]}
      /\ \A b \in program : b \cap told # {} => cache'[b] = NotCached
  BY Notified DEF Overwrite
<1>2. silent' = silent \cup Touching({"wram", "mirror"} \ told)
  BY DEF Overwrite
<1> QED BY <1>1, <1>2 DEF Accounted, Touching

\* A store to work RAM or at its mirror.
LEMMA WramStep ==
    ASSUME NEW v, NEW told, Inv, Overwrite(v, told), UNCHANGED <<cart, program, mmc, mbc, xram>>
    PROVE  Inv'
<1>1. Accounted({"wram", "mirror"})
  BY OverwriteAccounts DEF Inv
<1>2. OthersRead({"wram", "mirror"})
  BY DEF OthersRead, CellsOf, ReadByte, SafeRom, PrgBankAt, PrgMode, Ram, Rom, mmc, mbc
<1>3. SilentInWram'
  BY DEF Inv, SilentInWram, Overwrite, Touching
<1> QED BY <1>1, <1>2, <1>3, Refreshed DEF Inv

\* Dispatch compiles what is mapped now.
LEMMA DispatchStep ==
    ASSUME NEW b \in program, Inv, Dispatch(b)
    PROVE  Inv'
<1>1. ASSUME NEW c \in program PROVE CodeAt(c)' = CodeAt(c)
  <2>1. \A cell : ReadByte(cell)' = ReadByte(cell)
    BY DEF Dispatch, ReadByte, SafeRom, PrgBankAt, PrgMode, Ram, Rom, mmc, mbc, ram
  <2> QED BY <2>1 DEF CodeAt
<1>2. CASE cache[b] # NotCached
  <2>1. UNCHANGED <<cart, program, cache, silent>>
    BY <1>2 DEF Dispatch
  <2> QED BY <1>1, <2>1 DEF Inv, Shape, StaleOnlyBySilentChange, SilentInWram, Stale, Cached
<1>3. CASE cache[b] = NotCached
  <2>1. /\ cache' = [cache EXCEPT ![b] = CodeAt(b)] /\ silent' = silent \ {b}
        /\ UNCHANGED <<cart, program>>
    BY <1>3 DEF Dispatch
  <2>2. ASSUME NEW c \in program, Stale(c)' PROVE c \in silent'
    <3>1. c # b
      BY <1>1, <2>1, <2>2 DEF Stale, Inv, Shape
    <3>2. Stale(c)
      BY <1>1, <2>1, <2>2, <3>1 DEF Stale, Cached, Inv, Shape
    <3> QED BY <2>1, <3>1, <3>2 DEF Inv, StaleOnlyBySilentChange
  <2> QED BY <2>1, <2>2 DEF Inv, Shape, StaleOnlyBySilentChange, SilentInWram
<1> QED BY <1>2, <1>3

\* PRG RAM of the NES and external RAM of the Game Boy report their stores.
LEMMA CartRamStep ==
    ASSUME NEW v, Inv, StorePrgRam(v) \/ StoreExtRam(v)
    PROVE  Inv'
<1>1. ASSUME NEW cell, cache' = NotifyMemoryWrite({cell}), OthersRead({cell}),
             UNCHANGED <<cart, program, silent>>
      PROVE  Inv'
  <2>1. /\ DOMAIN cache' = program
        /\ \A b \in program : cache'[b] \in {NotCached, cache[b]}
        /\ \A b \in program : b \cap {cell} # {} => cache'[b] = NotCached
    BY <1>1, Notified DEF Inv
  <2>2. Accounted({cell})
    BY <1>1, <2>1 DEF Accounted
  <2>3. SilentInWram'
    BY <1>1 DEF Inv, SilentInWram
  <2> QED BY <1>1, <2>2, <2>3, Refreshed DEF Inv
<1>2. CASE StorePrgRam(v)
  <2>1. OthersRead({"prgRam"})
    BY <1>2 DEF StorePrgRam, OthersRead, CellsOf, ReadByte, PrgBankAt, PrgMode, Ram, Rom, mmc
  <2> QED BY <1>1, <1>2, <2>1 DEF StorePrgRam
<1>3. CASE StoreExtRam(v)
  <2>1. OthersRead({"ext"})
    BY <1>3 DEF StoreExtRam, OthersRead, CellsOf, ReadByte, SafeRom, Ram, Rom, mbc
  <2> QED BY <1>1, <1>3, <2>1 DEF StoreExtRam
<1> QED BY <1>2, <1>3

\* PrgBankSwitched leaves no block at all.
LEMMA SwitchStep ==
    ASSUME Inv, cache' = PrgBankSwitched, UNCHANGED <<cart, program, silent>>
    PROVE  Inv'
BY DEF Inv, Shape, StaleOnlyBySilentChange, SilentInWram, Stale, Cached, PrgBankSwitched

\* A step that moves nothing and at most drops blocks.
LEMMA HookStep ==
    ASSUME NEW cell, NEW covered, Inv, cache' = HookAt(cell, covered), OthersRead({}),
           UNCHANGED <<cart, program, silent>>
    PROVE  Inv'
<1>1. Accounted({})
  BY HookAccounts DEF Inv, Touching
<1>2. SilentInWram'
  BY DEF Inv, SilentInWram
<1> QED BY <1>1, <1>2, Refreshed DEF Inv

\* Mapper001.CpuWrite: the fifth bit either changes the mapping and reports it,
\* or leaves the mapping as it was.
LEMMA Mmc1Step ==
    ASSUME Inv,
           \/ Mmc1Reset
           \/ \E cell \in {"lo", "hi"}, bit \in Bits(shiftCount), covered \in BOOLEAN :
                 Mmc1Shift(cell, bit, covered)
           \/ \E reg \in Registers, bit \in Bits(4), covered \in BOOLEAN :
                 Mmc1Latch(reg, bit, covered)
    PROVE  Inv'
<1>1. CASE Mmc1Reset
  BY <1>1, SwitchStep DEF Mmc1Reset
<1>2. ASSUME NEW cell, NEW bit, NEW covered, Mmc1Shift(cell, bit, covered) PROVE Inv'
  <2>1. OthersRead({})
    BY <1>2 DEF Mmc1Shift, OthersRead, CellsOf, ReadByte, SafeRom, PrgBankAt, PrgMode, Ram, Rom,
                mbc, ram
  <2> QED BY <1>2, <2>1, HookStep DEF Mmc1Shift
<1>3. ASSUME NEW reg, NEW bit, NEW covered, Mmc1Latch(reg, bit, covered) PROVE Inv'
  <2>1. UNCHANGED <<cart, program, silent>>
    BY <1>3 DEF Mmc1Latch
  <2>2. CASE PrgMode' # PrgMode \/ prgSelect' # prgSelect
    <3>1. cache' = PrgBankSwitched
      BY <1>3, <2>2 DEF Mmc1Latch, PrgMode
    <3> QED BY <2>1, <3>1, SwitchStep
  <2>3. CASE PrgMode' = PrgMode /\ prgSelect' = prgSelect
    <3>1. cache' = HookAt(reg.cell, covered) \/ cache' = PrgBankSwitched
      BY <1>3 DEF Mmc1Latch
    <3>2. OthersRead({})
      BY <1>3, <2>3 DEF Mmc1Latch, OthersRead, CellsOf, ReadByte, SafeRom, PrgBankAt, Ram, Rom,
                        mbc, ram
    <3> QED BY <2>1, <3>1, <3>2, HookStep, SwitchStep
  <2> QED BY <2>2, <2>3
<1> QED BY <1>1, <1>2, <1>3

\* GbMemoryBus: each register moves the cells it lists.
LEMMA Mbc1Step ==
    ASSUME NEW cell, NEW covered, NEW moves, Inv, MbcWrite(cell, covered, moves), OthersRead(moves)
    PROVE  Inv'
<1>1. Accounted(moves)
  BY HookAccounts DEF MbcWrite, Inv
<1>2. SilentInWram'
  BY DEF MbcWrite, SilentInWram
<1> QED BY <1>1, <1>2, Refreshed DEF Inv

\* The registers of the MBC1 and the end of the boot ROM.
LEMMA GameBoyStep ==
    ASSUME Inv,
           \/ \E on, covered \in BOOLEAN : WriteRamEnable(on, covered) \/ WriteMode(on, covered)
           \/ \E v \in LoValues : WriteRomBankLow(v)
           \/ \E v \in HiValues, covered \in BOOLEAN : WriteBankHigh(v, covered)
           \/ WriteBootOff
    PROVE  Inv'
<1> USE DEF OthersRead, CellsOf, ReadByte, SafeRom, Ram, Rom, ram
<1>1. ASSUME NEW on, NEW covered, WriteRamEnable(on, covered) PROVE Inv'
  <2>1. MbcWrite("boot", covered, {"ext"})
    BY <1>1 DEF WriteRamEnable
  <2>2. OthersRead({"ext"})
    BY <1>1 DEF WriteRamEnable, MbcWrite
  <2> HIDE DEF OthersRead
  <2> QED BY <2>1, <2>2, Mbc1Step
<1>2. ASSUME NEW on, NEW covered, WriteMode(on, covered) PROVE Inv'
  <2>1. MbcWrite("rom1", covered, {})
    BY <1>2 DEF WriteMode
  <2>2. OthersRead({})
    BY <1>2 DEF WriteMode, MbcWrite
  <2> HIDE DEF OthersRead
  <2> QED BY <2>1, <2>2, Mbc1Step
<1>3. ASSUME NEW v, WriteRomBankLow(v) PROVE Inv'
  <2>1. MbcWrite("rom0", FALSE, {"rom1"})
    BY <1>3 DEF WriteRomBankLow
  <2>2. OthersRead({"rom1"})
    BY <1>3 DEF WriteRomBankLow, MbcWrite
  <2> HIDE DEF OthersRead
  <2> QED BY <2>1, <2>2, Mbc1Step
<1>4. ASSUME NEW v, NEW covered, WriteBankHigh(v, covered) PROVE Inv'
  <2>1. CASE modeRamBank
    <3>1. MbcWrite("rom1", covered, {"ext"})
      BY <1>4, <2>1 DEF WriteBankHigh
    <3>2. OthersRead({"ext"})
      BY <1>4, <2>1 DEF WriteBankHigh, MbcWrite
    <3> HIDE DEF OthersRead
    <3> QED BY <3>1, <3>2, Mbc1Step
  <2>2. CASE ~modeRamBank
    <3>1. MbcWrite("rom1", covered, {"rom1"})
      BY <1>4, <2>2 DEF WriteBankHigh
    <3>2. OthersRead({"rom1"})
      BY <1>4, <2>2 DEF WriteBankHigh, MbcWrite
    <3> HIDE DEF OthersRead
    <3> QED BY <3>1, <3>2, Mbc1Step
  <2> QED BY <2>1, <2>2
<1>5. CASE WriteBootOff
  <2>1. /\ cart = "MBC1" /\ silent' = silent \cup Touching({"boot"})
        /\ UNCHANGED <<cart, program, cache>>
    BY <1>5 DEF WriteBootOff
  <2>2. OthersRead({"boot"})
    BY <1>5 DEF WriteBootOff
  <2> HIDE DEF OthersRead
  <2>3. Accounted({"boot"})
    BY <2>1 DEF Accounted, Touching, Inv, Shape
  <2>4. SilentInWram'
    BY <2>1 DEF SilentInWram
  <2> QED BY <2>2, <2>3, <2>4, Refreshed DEF Inv
<1> QED BY <1>1, <1>2, <1>3, <1>4, <1>5

\* Every step keeps the invariant.
LEMMA Step == Inv /\ [Next]_vars => Inv'
<1> SUFFICES ASSUME Inv, [Next]_vars PROVE Inv'
    OBVIOUS
<1>1. ASSUME NEW b \in program, Dispatch(b) PROVE Inv'
  BY <1>1, DispatchStep
<1>2. CASE EndBlock \/ UNCHANGED vars
  <2>1. UNCHANGED <<cart, program, cache, mmc, mbc, ram, silent>>
    BY <1>2 DEF EndBlock, vars
  <2>2. \A cell : ReadByte(cell)' = ReadByte(cell)
    BY <2>1 DEF ReadByte, SafeRom, PrgBankAt, PrgMode, Ram, Rom, mmc, mbc, ram
  <2>3. OthersRead({}) /\ Accounted({})
    BY <2>1, <2>2 DEF OthersRead, Accounted, Inv, Shape
  <2>4. SilentInWram'
    BY <2>1 DEF Inv, SilentInWram
  <2> QED BY <2>3, <2>4, Refreshed DEF Inv
<1>3. ASSUME NEW v, NEW cell, NEW wide, StoreWram(v, cell, wide) PROVE Inv'
  BY <1>3, WramStep DEF StoreWram
<1>4. ASSUME NEW v, InterruptPush(v) PROVE Inv'
  BY <1>4, WramStep DEF InterruptPush
<1>5. ASSUME NEW v, StorePrgRam(v) \/ StoreExtRam(v) PROVE Inv'
  BY <1>5, CartRamStep
<1>6. CASE \/ Mmc1Reset
           \/ \E cell \in {"lo", "hi"}, bit \in Bits(shiftCount), covered \in BOOLEAN :
                 Mmc1Shift(cell, bit, covered)
           \/ \E reg \in Registers, bit \in Bits(4), covered \in BOOLEAN :
                 Mmc1Latch(reg, bit, covered)
  BY <1>6, Mmc1Step
<1>7. CASE \/ \E on, covered \in BOOLEAN : WriteRamEnable(on, covered) \/ WriteMode(on, covered)
           \/ \E v \in LoValues : WriteRomBankLow(v)
           \/ \E v \in HiValues, covered \in BOOLEAN : WriteBankHigh(v, covered)
           \/ WriteBootOff
  BY <1>7, GameBoyStep
<1> QED BY <1>1, <1>2, <1>3, <1>4, <1>5, <1>6, <1>7 DEF Next

\* Nothing is cached at power-on.
LEMMA Start == Init => Inv
BY DEF Init, Inv, Shape, StaleOnlyBySilentChange, SilentInWram, Stale, Cached

\* The invariant holds in every reachable state.
LEMMA Invariance == Spec => []Inv
<1> QED BY Start, Step, PTL DEF Spec

\* A cached block differs from what a fetch would read only after a change on a
\* path that does not call NotifyMemoryWrite or PrgBankSwitched, for every
\* cartridge size and program.
THEOREM OnlySilentChangesStale == Spec => []StaleOnlyBySilentChange
<1>1. Inv => StaleOnlyBySilentChange
  BY DEF Inv
<1> QED BY <1>1, Invariance, PTL

\* On the NES no compiled block of the cartridge outlives a bank switch or a
\* store to PRG RAM (IMapper.PrgBankSwitched, SmcWriteHook).
THEOREM CartridgeNeverStale == Spec => []CartridgeBlocksFresh
<1>1. Inv => CartridgeBlocksFresh
  BY DEF Inv, StaleOnlyBySilentChange, SilentInWram, CartridgeBlocksFresh
<1> QED BY <1>1, Invariance, PTL

-----------------------------------------------------------------------------
(* The registers: what they hold, and that the MMC1 gets the bits meant for it. *)

SerialPort == bits \in Seq({0, 1}) /\ SerialPortExact

Registered == TypeOK /\ SerialPort /\ MirroringFollows

\* Powers of two as far as the shift register needs them.
LEMMA Powers == 2^0 = 1 /\ 2^1 = 2 /\ 2^2 = 4 /\ 2^3 = 8 /\ 2^4 = 16
OBVIOUS

\* The guest shifts in single bits.
LEMMA SingleBits == \A n : Bits(n) \subseteq {0, 1}
BY DEF Bits

\* An action that leaves the MMC1 alone leaves it exact.
LEMMA Mmc1Untouched ==
    ASSUME Registered, UNCHANGED mmc
    PROVE  SerialPort' /\ MirroringFollows'
BY DEF Registered, SerialPort, SerialPortExact, MirroringFollows, Mirroring, mmc

\* The cache after a notification, or after dropping every block.
LEMMA CacheTypes ==
    ASSUME TypeOK, program' = program, DOMAIN cache' = program,
           \A b \in program : cache'[b] \in {NotCached, cache[b]}
    PROVE  /\ DOMAIN cache' = program'
           /\ \A b \in program' : cache'[b] # NotCached => DOMAIN cache'[b].of = b
BY DEF TypeOK

\* NotifyMemoryWrite, HookAt and PrgBankSwitched only drop blocks.
LEMMA OnlyDropped ==
    ASSUME TypeOK, program' = program,
           \/ \E cells : cache' = NotifyMemoryWrite(cells)
           \/ \E cell, covered : cache' = HookAt(cell, covered)
           \/ cache' = PrgBankSwitched
           \/ cache' = cache
    PROVE  /\ DOMAIN cache' = program'
           /\ \A b \in program' : cache'[b] # NotCached => DOMAIN cache'[b].of = b
<1>1. DOMAIN cache' = program /\ \A b \in program : cache'[b] \in {NotCached, cache[b]}
  BY DEF NotifyMemoryWrite, HookAt, PrgBankSwitched, TypeOK
<1> QED BY <1>1, CacheTypes

\* One more bit: the ones shifted in before stay where they are.
LEMMA ShiftStep ==
    ASSUME Registered, NEW cell, NEW bit \in {0, 1}, NEW covered, Mmc1Shift(cell, bit, covered)
    PROVE  Registered'
<1> DEFINE k == shiftCount
           r == shiftReg
<1>1. /\ shiftReg' = r + bit * 2^k /\ shiftCount' = k + 1 /\ bits' = Append(bits, bit)
      /\ k \in 0 .. 3 /\ r \in 0 .. 15 /\ r < 2^k /\ k = Len(bits) /\ bits \in Seq({0, 1})
      /\ \A i \in 1 .. k : (r \div 2^(i - 1)) % 2 = bits[i]
  <2>1. /\ shiftReg' = r + bit * 2^k /\ shiftCount' = k + 1 /\ bits' = Append(bits, bit) /\ k < 4
    BY DEF Mmc1Shift
  <2>2. r \in 0 .. 15 /\ k \in 0 .. 4
    BY DEF Registered, TypeOK
  <2>3. k \in 0 .. 3
    BY <2>1, <2>2
  <2>4. bits \in Seq({0, 1}) /\ r < 2^k /\ k = Len(bits)
    BY DEF Registered, SerialPort, SerialPortExact
  <2>5. \A i \in DOMAIN bits : (r \div 2^(i - 1)) % 2 = bits[i]
    BY DEF Registered, SerialPort, SerialPortExact
  <2>6. DOMAIN bits = 1 .. k
    BY <2>4
  <2> HIDE DEF k, r
  <2> QED BY <2>1, <2>2, <2>3, <2>4, <2>5, <2>6
<1>2. /\ bits' \in Seq({0, 1}) /\ Len(bits') = k + 1 /\ bits'[k + 1] = bit
      /\ \A i \in 1 .. k : bits'[i] = bits[i]
  BY <1>1
<1>3. DOMAIN bits' = 1 .. k + 1
  BY <1>2
<1>4. /\ shiftReg' \in 0 .. 15 /\ shiftReg' < 2^(k + 1)
      /\ \A i \in 1 .. k + 1 : (shiftReg' \div 2^(i - 1)) % 2 = bits'[i]
  <2> DEFINE s == shiftReg'
  <2>1. /\ s = r + bit * 2^k /\ k \in 0 .. 3 /\ r \in 0 .. 15 /\ r < 2^k
        /\ bits'[k + 1] = bit
        /\ \A i \in 1 .. k : (r \div 2^(i - 1)) % 2 = bits'[i]
    BY <1>1, <1>2
  <2> DEFINE m == k + 1
  <2>0. m = k + 1
    OBVIOUS
  <2> SUFFICES /\ s \in 0 .. 15 /\ s < 2^m
               /\ \A i \in 1 .. m : (s \div 2^(i - 1)) % 2 = bits'[i]
    OBVIOUS
  <2> HIDE DEF s, r, k, m
  <2>2. CASE k = 0
    <3>1. s = bit /\ bits'[1] = bit
      BY <2>1, <2>2, Powers
    <3>2. s \in 0 .. 15 /\ s < 2^1 /\ (s \div 2^0) % 2 = bits'[1]
      BY <3>1, Powers
    <3>3. m = 1
      BY <2>0, <2>2
    <3>4. ASSUME NEW i \in 1 .. m PROVE (s \div 2^(i - 1)) % 2 = bits'[i]
      <4>1. i = 1 /\ i - 1 = 0
        BY <3>3
      <4> QED BY <3>2, <4>1
    <3> QED BY <3>2, <3>3, <3>4
  <2>3. CASE k = 1
    <3>1. s = r + 2 * bit /\ r \in 0 .. 1 /\ bits'[2] = bit /\ (r \div 2^0) % 2 = bits'[1]
      BY <2>1, <2>3, Powers
    <3>2. s \in 0 .. 15 /\ s < 2^2 /\ (s \div 2^0) % 2 = bits'[1] /\ (s \div 2^1) % 2 = bits'[2]
      BY <3>1, Powers
    <3>3. m = 2
      BY <2>0, <2>3
    <3>4. ASSUME NEW i \in 1 .. m PROVE (s \div 2^(i - 1)) % 2 = bits'[i]
      <4>1. (i = 1 /\ i - 1 = 0) \/ (i = 2 /\ i - 1 = 1)
        BY <3>3
      <4> QED BY <3>2, <4>1
    <3> QED BY <3>2, <3>3, <3>4
  <2>4. CASE k = 2
    <3>1. /\ s = r + 4 * bit /\ r \in 0 .. 3 /\ bits'[3] = bit
          /\ (r \div 2^0) % 2 = bits'[1] /\ (r \div 2^1) % 2 = bits'[2]
      BY <2>1, <2>4, Powers
    <3>2. /\ s \in 0 .. 15 /\ s < 2^3 /\ (s \div 2^0) % 2 = bits'[1]
          /\ (s \div 2^1) % 2 = bits'[2] /\ (s \div 2^2) % 2 = bits'[3]
      BY <3>1, Powers
    <3>3. m = 3
      BY <2>0, <2>4
    <3>4. ASSUME NEW i \in 1 .. m PROVE (s \div 2^(i - 1)) % 2 = bits'[i]
      <4>1. (i = 1 /\ i - 1 = 0) \/ (i = 2 /\ i - 1 = 1) \/ (i = 3 /\ i - 1 = 2)
        BY <3>3
      <4> QED BY <3>2, <4>1
    <3> QED BY <3>2, <3>3, <3>4
  <2>5. CASE k = 3
    <3>1. /\ s = r + 8 * bit /\ r \in 0 .. 7 /\ bits'[4] = bit
          /\ (r \div 2^0) % 2 = bits'[1] /\ (r \div 2^1) % 2 = bits'[2] /\ (r \div 2^2) % 2 = bits'[3]
      BY <2>1, <2>5, Powers
    <3>2. /\ s \in 0 .. 15 /\ s < 2^4 /\ (s \div 2^0) % 2 = bits'[1] /\ (s \div 2^1) % 2 = bits'[2]
          /\ (s \div 2^2) % 2 = bits'[3] /\ (s \div 2^3) % 2 = bits'[4]
      BY <3>1, Powers
    <3>3. m = 4
      BY <2>0, <2>5
    <3>4. ASSUME NEW i \in 1 .. m PROVE (s \div 2^(i - 1)) % 2 = bits'[i]
      <4>1. (i = 1 /\ i - 1 = 0) \/ (i = 2 /\ i - 1 = 1) \/ (i = 3 /\ i - 1 = 2) \/ (i = 4 /\ i - 1 = 3)
        BY <3>3
      <4> QED BY <3>2, <4>1
    <3> QED BY <3>2, <3>3, <3>4
  <2>6. k = 0 \/ k = 1 \/ k = 2 \/ k = 3
    BY <2>1
  <2> QED BY <2>2, <2>3, <2>4, <2>5, <2>6
<1>5. SerialPort'
  BY <1>1, <1>2, <1>3, <1>4 DEF SerialPort, SerialPortExact
<1>6. MirroringFollows'
  BY DEF Registered, MirroringFollows, Mirroring, Mmc1Shift
<1>7. TypeOK'
  <2>1. program' = program /\ cache' = HookAt(cell, covered)
    BY DEF Mmc1Shift
  <2>2. /\ DOMAIN cache' = program'
        /\ \A b \in program' : cache'[b] # NotCached => DOMAIN cache'[b].of = b
    BY <2>1, OnlyDropped DEF Registered
  <2>3. shiftCount' \in 0 .. 4
    <3>1. shiftCount' = shiftCount + 1 /\ shiftCount \in 0 .. 3
      BY <1>1
    <3> QED BY <3>1
  <2>4. UNCHANGED <<cart, program, running, ctrl, prgSelect, ppuMirroring, mirrorSent, mbc, ram, silent>>
    BY DEF Mmc1Shift
  <2> QED BY <1>4, <2>2, <2>3, <2>4 DEF Registered, TypeOK, mbc, ram
<1> QED BY <1>5, <1>6, <1>7 DEF Registered

\* A reset forces PRG mode 3 and keeps the mirroring.
LEMMA ResetStep ==
    ASSUME Registered, Mmc1Reset
    PROVE  Registered'
<1>1. ctrl \in 0 .. 31 /\ ctrl' = (ctrl % 4) + 12 + 16 * (ctrl \div 16)
  BY DEF Registered, TypeOK, Mmc1Reset, Mirroring
<1>2. ctrl' \in 0 .. 31 /\ ctrl' % 4 = ctrl % 4
  BY <1>1
<1>3. MirroringFollows'
  BY <1>2 DEF Registered, MirroringFollows, Mirroring, Mmc1Reset
<1>4. SerialPort'
  <2>1. bits' = <<>> /\ shiftReg' = 0 /\ shiftCount' = 0
    BY DEF Mmc1Reset
  <2> QED BY <2>1, Powers DEF SerialPort, SerialPortExact
<1>5. TypeOK'
  <2>1. /\ DOMAIN cache' = program'
        /\ \A b \in program' : cache'[b] # NotCached => DOMAIN cache'[b].of = b
    BY OnlyDropped DEF Registered, Mmc1Reset
  <2> QED BY <1>2, <2>1 DEF Registered, TypeOK, Mmc1Reset, mbc, ram
<1> QED BY <1>3, <1>4, <1>5 DEF Registered

\* The fifth bit: the register addressed takes the value, and the picture unit
\* hears of new mirroring.
LEMMA LatchStep ==
    ASSUME Registered, NEW reg \in Registers, NEW bit \in {0, 1}, NEW covered \in BOOLEAN,
           Mmc1Latch(reg, bit, covered)
    PROVE  Registered'
<1> DEFINE v == shiftReg + bit * 16
           moved == reg.name = "ctrl" /\ v % 4 # Mirroring
<1>1. /\ ctrl' = IF reg.name = "ctrl" THEN v ELSE ctrl
      /\ prgSelect' = IF reg.name = "prg" THEN v % 16 ELSE prgSelect
      /\ ppuMirroring' = IF moved THEN PpuMode(v % 4) ELSE ppuMirroring
      /\ mirrorSent' = (mirrorSent \/ moved)
      /\ cache' = PrgBankSwitched \/ cache' = HookAt(reg.cell, covered)
      /\ shiftReg' = 0 /\ shiftCount' = 0 /\ bits' = <<>>
      /\ UNCHANGED <<cart, program, running, mbc, ram, silent>>
  BY DEF Mmc1Latch
<1>2. v \in 0 .. 31 /\ v % 16 \in 0 .. 15 /\ v % 4 \in 0 .. 3 /\ ctrl \in 0 .. 31
  BY DEF Registered, TypeOK
<1> HIDE DEF v
<1>3. PpuMode(v % 4) \in 0 .. 3
  BY <1>2 DEF PpuMode
<1>4. MirroringFollows'
  <2>1. CASE moved
    BY <1>1, <2>1 DEF MirroringFollows, Mirroring
  <2>2. CASE ~moved
    <3>1. ctrl' % 4 = ctrl % 4 /\ ppuMirroring' = ppuMirroring /\ mirrorSent' = mirrorSent
      BY <1>1, <1>2, <2>2 DEF Mirroring, Registered, TypeOK
    <3> QED BY <3>1 DEF Registered, MirroringFollows, Mirroring
  <2> QED BY <2>1, <2>2
<1>5. SerialPort'
  BY <1>1, Powers DEF SerialPort, SerialPortExact
<1>6. TypeOK'
  <2>1. /\ DOMAIN cache' = program'
        /\ \A b \in program' : cache'[b] # NotCached => DOMAIN cache'[b].of = b
    BY <1>1, OnlyDropped DEF Registered
  <2>2. /\ ctrl' \in 0 .. 31 /\ shiftReg' \in 0 .. 15 /\ shiftCount' \in 0 .. 4
        /\ ppuMirroring' \in 0 .. 3
    BY <1>1, <1>2, <1>3 DEF Registered, TypeOK
  <2>3. prgSelect' \in 0 .. (IF PrgBanks > 17 THEN PrgBanks - 2 ELSE 15)
    <3>1. PrgBanks \in Nat
      BY CodeAssumption
    <3> QED BY <1>1, <1>2, <3>1 DEF Registered, TypeOK
  <2>4. mirrorSent' \in BOOLEAN
    BY <1>1
  <2> QED BY <1>1, <2>1, <2>2, <2>3, <2>4 DEF Registered, TypeOK, mbc, ram
<1> QED BY <1>4, <1>5, <1>6 DEF Registered

\* The bank registers of the MBC1, by arithmetic on their seven bits.
LEMMA Mbc1Bits ==
    ASSUME NEW b \in 0 .. 127, b % 32 # 0, NEW v \in 0 .. 255
    PROVE  LET lo == IF v % 32 = 0 THEN 1 ELSE v % 32
               low == (b - (b % 32)) + lo
               high == (b % 32) + 32 * (v % 4)
           IN  /\ low \in 0 .. 127 /\ low % 32 # 0
               /\ high \in 0 .. 127 /\ high % 32 # 0 /\ v % 4 \in 0 .. 3
<1> DEFINE l == b % 32
           q == b \div 32
           lo == IF v % 32 = 0 THEN 1 ELSE v % 32
           h == v % 4
<1>1. b = 32 * q + l /\ l \in 1 .. 31 /\ q \in 0 .. 3 /\ lo \in 1 .. 31 /\ h \in 0 .. 3
  OBVIOUS
<1> HIDE DEF l, q, lo, h
<1>2. (b - l) + lo \in 0 .. 127 /\ ((b - l) + lo) % 32 # 0
  BY <1>1
<1>3. l + 32 * h \in 0 .. 127 /\ (l + 32 * h) % 32 # 0
  BY <1>1
<1> QED BY <1>1, <1>2, <1>3 DEF l, lo, h

\* A write to an MBC1 register.
LEMMA MbcWriteStep ==
    ASSUME Registered, NEW cell, NEW covered, NEW moves, MbcWrite(cell, covered, moves),
           romBank' \in 0 .. 127, romBank' % 32 # 0, ramBank' \in 0 .. 3,
           {ramEnable', modeRamBank', biosEnabled'} \subseteq BOOLEAN
    PROVE  Registered'
<1>1. /\ cache' = HookAt(cell, covered) /\ silent' = silent \cup Touching(moves)
      /\ UNCHANGED <<cart, program, running, mmc, ram>>
  BY DEF MbcWrite
<1>2. SerialPort' /\ MirroringFollows'
  BY <1>1, Mmc1Untouched
<1>3. /\ DOMAIN cache' = program'
      /\ \A b \in program' : cache'[b] # NotCached => DOMAIN cache'[b].of = b
  BY <1>1, OnlyDropped DEF Registered
<1>4. silent' \subseteq program'
  BY <1>1 DEF Registered, TypeOK, Touching
<1>5. TypeOK'
  BY <1>1, <1>3, <1>4 DEF Registered, TypeOK, mmc, ram
<1> QED BY <1>2, <1>5 DEF Registered

\* The MBC1's registers keep their ranges, and bank 0 out of the upper window,
\* whatever the order of the writes.
LEMMA BankStep ==
    ASSUME Registered,
           \/ \E on, covered \in BOOLEAN : WriteRamEnable(on, covered) \/ WriteMode(on, covered)
           \/ \E v \in LoValues : WriteRomBankLow(v)
           \/ \E v \in HiValues, covered \in BOOLEAN : WriteBankHigh(v, covered)
    PROVE  Registered'
<1>1. /\ romBank \in 0 .. 127 /\ romBank % 32 # 0 /\ ramBank \in 0 .. 3
      /\ {ramEnable, modeRamBank, biosEnabled} \subseteq BOOLEAN
      /\ LoValues \subseteq 0 .. 255 /\ HiValues \subseteq 0 .. 255
  BY CodeAssumption DEF Registered, TypeOK
<1>2. ASSUME NEW on \in BOOLEAN, NEW covered \in BOOLEAN, WriteRamEnable(on, covered)
      PROVE  Registered'
  <2>1. MbcWrite("boot", covered, {"ext"})
    BY <1>2 DEF WriteRamEnable
  <2>2. ramEnable' = on /\ UNCHANGED <<romBank, ramBank, modeRamBank, biosEnabled>>
    BY <1>2 DEF WriteRamEnable
  <2>3. {ramEnable', modeRamBank', biosEnabled'} \subseteq BOOLEAN
    BY <1>1, <2>2
  <2>4. romBank' \in 0 .. 127 /\ romBank' % 32 # 0 /\ ramBank' \in 0 .. 3
    BY <1>1, <2>2
  <2> QED BY <2>1, <2>3, <2>4, MbcWriteStep
<1>3. ASSUME NEW on \in BOOLEAN, NEW covered \in BOOLEAN, WriteMode(on, covered)
      PROVE  Registered'
  <2>1. MbcWrite("rom1", covered, {})
    BY <1>3 DEF WriteMode
  <2>2. modeRamBank' = on /\ UNCHANGED <<romBank, ramBank, ramEnable, biosEnabled>>
    BY <1>3 DEF WriteMode
  <2>3. {ramEnable', modeRamBank', biosEnabled'} \subseteq BOOLEAN
    BY <1>1, <2>2
  <2>4. romBank' \in 0 .. 127 /\ romBank' % 32 # 0 /\ ramBank' \in 0 .. 3
    BY <1>1, <2>2
  <2> QED BY <2>1, <2>3, <2>4, MbcWriteStep
<1>4. ASSUME NEW v \in LoValues, WriteRomBankLow(v) PROVE Registered'
  <2>1. MbcWrite("rom0", FALSE, {"rom1"}) /\ UNCHANGED <<ramBank, ramEnable, modeRamBank, biosEnabled>>
    BY <1>4 DEF WriteRomBankLow
  <2>2. romBank' = (romBank - (romBank % 32)) + (IF v % 32 = 0 THEN 1 ELSE v % 32)
    BY <1>4 DEF WriteRomBankLow
  <2>3. v \in 0 .. 255
    BY <1>1
  <2> DEFINE low == (romBank - (romBank % 32)) + (IF v % 32 = 0 THEN 1 ELSE v % 32)
  <2>4. low \in 0 .. 127 /\ low % 32 # 0
    BY <1>1, <2>3, Mbc1Bits, ZenonT(60)
  <2> HIDE DEF low
  <2>5. romBank' \in 0 .. 127 /\ romBank' % 32 # 0
    BY <2>2, <2>4 DEF low
  <2> QED BY <1>1, <2>1, <2>5, MbcWriteStep
<1>5. ASSUME NEW v \in HiValues, NEW covered \in BOOLEAN, WriteBankHigh(v, covered) PROVE Registered'
  <2>1. UNCHANGED <<ramEnable, modeRamBank, biosEnabled>>
    BY <1>5 DEF WriteBankHigh
  <2>2. romBank' \in 0 .. 127 /\ romBank' % 32 # 0 /\ ramBank' \in 0 .. 3
    <3>1. v \in 0 .. 255
      BY <1>1
    <3> DEFINE high == (romBank % 32) + 32 * (v % 4)
    <3>2. high \in 0 .. 127 /\ high % 32 # 0 /\ v % 4 \in 0 .. 3
      BY <1>1, <3>1, Mbc1Bits, ZenonT(60)
    <3>3. CASE modeRamBank
      <4>1. ramBank' = v % 4 /\ romBank' = romBank
        BY <1>5, <3>3 DEF WriteBankHigh
      <4> QED BY <1>1, <3>2, <4>1
    <3>4. CASE ~modeRamBank
      <4>1. romBank' = high /\ ramBank' = ramBank
        BY <1>5, <3>4 DEF WriteBankHigh
      <4> HIDE DEF high
      <4> QED BY <1>1, <3>2, <4>1
    <3> QED BY <3>3, <3>4
  <2>3. \E moves : MbcWrite("rom1", covered, moves)
    BY <1>5 DEF WriteBankHigh
  <2> QED BY <1>1, <2>1, <2>2, <2>3, MbcWriteStep
<1> QED BY <1>2, <1>3, <1>4, <1>5

\* Stores to RAM and interrupt pushes drop blocks and list others.
LEMMA StoreStep ==
    ASSUME Registered, NEW v \in Values,
           \/ \E cell \in {"wram", "mirror"}, wide \in BOOLEAN : StoreWram(v, cell, wide)
           \/ InterruptPush(v) \/ StorePrgRam(v) \/ StoreExtRam(v)
    PROVE  Registered'
<1>1. /\ UNCHANGED <<cart, program, running, mmc, mbc>>
      /\ \E cells : cache' = NotifyMemoryWrite(cells)
  BY DEF StoreWram, InterruptPush, StorePrgRam, StoreExtRam, Overwrite
<1>2. wram' \in Values /\ silent' \subseteq program
  BY DEF StoreWram, InterruptPush, StorePrgRam, StoreExtRam, Overwrite, Registered, TypeOK, Touching
<1>3. xram' \in [0 .. 3 -> Values]
  <2>1. xram \in [0 .. 3 -> Values] /\ ramBank \in 0 .. 3
    BY DEF Registered, TypeOK
  <2>2. \/ xram' = xram \/ xram' = [xram EXCEPT ![0] = v] \/ xram' = [xram EXCEPT ![ramBank] = v]
    BY DEF StoreWram, InterruptPush, StorePrgRam, StoreExtRam
  <2> QED BY <2>1, <2>2
<1>4. SerialPort' /\ MirroringFollows'
  BY <1>1, Mmc1Untouched
<1>5. /\ DOMAIN cache' = program'
      /\ \A b \in program' : cache'[b] # NotCached => DOMAIN cache'[b].of = b
  BY <1>1, OnlyDropped DEF Registered
<1>6. TypeOK'
  BY <1>1, <1>2, <1>3, <1>5 DEF Registered, TypeOK, mmc, mbc
<1> QED BY <1>4, <1>6 DEF Registered

\* Dispatching a block, leaving it, and unmapping the boot ROM.
LEMMA BlockStep ==
    ASSUME Registered, (\E b \in program : Dispatch(b)) \/ EndBlock \/ WriteBootOff \/ UNCHANGED vars
    PROVE  Registered'
<1>1. UNCHANGED <<cart, program, mmc, romBank, ramBank, ramEnable, modeRamBank, ram>>
  BY DEF Dispatch, EndBlock, WriteBootOff, vars, mbc
<1>2. /\ running' \in program \cup {Idle} /\ silent' \subseteq program
      /\ biosEnabled' \in BOOLEAN
  BY DEF Dispatch, EndBlock, WriteBootOff, vars, mbc, Registered, TypeOK, Touching
<1>3. /\ DOMAIN cache' = program
      /\ \A b \in program : cache'[b] # NotCached => DOMAIN cache'[b].of = b
  <2>1. CASE \E b \in program : Dispatch(b)
    <3>1. PICK b \in program : Dispatch(b)
      BY <2>1
    <3>2. \/ cache' = cache \/ cache' = [cache EXCEPT ![b] = CodeAt(b)]
      BY <3>1 DEF Dispatch
    <3>3. DOMAIN CodeAt(b).of = b
      BY DEF CodeAt
    <3> QED BY <3>2, <3>3 DEF Registered, TypeOK
  <2>2. CASE EndBlock \/ WriteBootOff \/ UNCHANGED vars
    <3>1. cache' = cache
      BY <2>2 DEF EndBlock, WriteBootOff, vars
    <3> QED BY <3>1 DEF Registered, TypeOK
  <2> QED BY <2>1, <2>2
<1>4. SerialPort' /\ MirroringFollows'
  BY <1>1, Mmc1Untouched
<1>5. TypeOK'
  BY <1>1, <1>2, <1>3 DEF Registered, TypeOK, mmc, ram
<1> QED BY <1>4, <1>5 DEF Registered

\* At power on the control register holds 0C: mirroring 0, PRG mode 3.
LEMMA RegisteredStart == Init => Registered
<1> SUFFICES ASSUME Init PROVE Registered
  OBVIOUS
<1>1. SerialPort /\ MirroringFollows
  <2>1. SerialPort
    BY Powers DEF Init, SerialPort, SerialPortExact
  <2>2. ctrl % 4 = 0 /\ mirrorSent = FALSE
    BY DEF Init
  <2> QED BY <2>1, <2>2 DEF MirroringFollows, Mirroring
<1>2. prgSelect \in 0 .. (IF PrgBanks > 17 THEN PrgBanks - 2 ELSE 15)
  BY CodeAssumption DEF Init
<1>3. wram \in Values /\ xram \in [0 .. 3 -> Values]
  BY CodeAssumption DEF Init
<1>4. {ramEnable, modeRamBank, biosEnabled} \subseteq BOOLEAN
  BY DEF Init
<1>5. /\ cart \in {"MMC1", "MBC1"} /\ program \subseteq Blocks(cart)
      /\ DOMAIN cache = program /\ (\A b \in program : cache[b] = NotCached)
      /\ running \in program \cup {Idle} /\ silent \subseteq program
  BY DEF Init
<1>6. /\ ctrl \in 0 .. 31 /\ shiftReg \in 0 .. 15 /\ shiftCount \in 0 .. 4
      /\ romBank \in 0 .. 127 /\ romBank % 32 # 0 /\ ramBank \in 0 .. 3
  <2>1. ctrl = 12 /\ shiftReg = 0 /\ shiftCount = 0 /\ romBank = 1 /\ ramBank = 0
    BY DEF Init
  <2> QED BY <2>1
<1>7. ppuMirroring \in 0 .. 3 /\ mirrorSent \in BOOLEAN
  <2>1. ppuMirroring = 0 \/ ppuMirroring = 1
    BY DEF Init
  <2>2. mirrorSent \in BOOLEAN
    BY DEF Init
  <2> QED BY <2>1, <2>2
<1>8. TypeOK
  BY <1>2, <1>3, <1>4, <1>5, <1>6, <1>7 DEF TypeOK
<1> QED BY <1>1, <1>8 DEF Registered

\* Every step keeps the registers exact.
LEMMA RegisteredStep == Registered /\ [Next]_vars => Registered'
<1> SUFFICES ASSUME Registered, [Next]_vars PROVE Registered'
  OBVIOUS
<1>1. CASE (\E b \in program : Dispatch(b)) \/ EndBlock \/ WriteBootOff \/ UNCHANGED vars
  BY <1>1, BlockStep
<1>2. CASE \/ \E v \in Values, cell \in {"wram", "mirror"}, wide \in BOOLEAN : StoreWram(v, cell, wide)
           \/ \E v \in Values : InterruptPush(v) \/ StorePrgRam(v) \/ StoreExtRam(v)
  BY <1>2, StoreStep
<1>3. CASE Mmc1Reset
  BY <1>3, ResetStep
<1>4. CASE \E cell \in {"lo", "hi"}, bit \in Bits(shiftCount), covered \in BOOLEAN :
              Mmc1Shift(cell, bit, covered)
  BY <1>4, SingleBits, ShiftStep
<1>5. CASE \E reg \in Registers, bit \in Bits(4), covered \in BOOLEAN : Mmc1Latch(reg, bit, covered)
  BY <1>5, SingleBits, LatchStep
<1>6. CASE \/ \E on, covered \in BOOLEAN : WriteRamEnable(on, covered) \/ WriteMode(on, covered)
           \/ \E v \in LoValues : WriteRomBankLow(v)
           \/ \E v \in HiValues, covered \in BOOLEAN : WriteBankHigh(v, covered)
  BY <1>6, BankStep
<1> QED BY <1>1, <1>2, <1>3, <1>4, <1>5, <1>6 DEF Next

\* They are exact in every reachable state.
LEMMA RegisteredAlways == Spec => []Registered
<1> QED BY RegisteredStart, RegisteredStep, PTL DEF Spec

\* The registers of both cartridges keep their ranges for every sequence of
\* writes; in particular no bank 0 appears in the Game Boy's upper window.
THEOREM TypeCorrect == Spec => []TypeOK
<1>1. Registered => TypeOK
  BY DEF Registered
<1> QED BY <1>1, RegisteredAlways, PTL

\* Mapper001.CpuWrite gives a register the five bits shifted in for it, resets
\* and half-written values in between included, and the picture unit follows
\* the mirroring of the control register.
THEOREM SerialRegistersExact == Spec => []Mmc1RegistersExact
<1>1. Registered => Mmc1RegistersExact
  BY DEF Registered, SerialPort, Mmc1RegistersExact
<1> QED BY <1>1, RegisteredAlways, PTL
=============================================================================
