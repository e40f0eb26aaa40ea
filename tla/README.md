# A TLA+ verification project for AprGba

AprGba is an emulator framework. CPUs are described by JSON files (`spec/cpu/*`), `AprCpu.Core` turns the description into
LLVM IR and runs it one instruction at a time or one compiled block at a time, and five command-line programs put machines
around it: Game Boy (`AprGb.Cli`), Game Boy Advance (`AprGba.Cli`), NES (`AprNes.Cli`), IBM PC/XT (`AprPc.Cli`) and a bare
8086 (`AprX86.Cli`). This directory holds TLA+ models of the parts where correctness depends on order, on time or on the
agreement of two engines, the TLC configurations that check them, and TLAPS proofs of the results that do not depend on the
size of the instance. Paths below are relative to `src/src/`.

Contents: 1 inventory, 2 modules and their correspondence to the code, 3 runs, 4 bounds, 5 fairness, 6 proofs,
7 disagreements between the code and its comments, 8 what is not modelled, 9 plan.

## 1. Inventory

### Parts, state, operations

| Part | State it keeps | Operations | Module |
|---|---|---|---|
| Block cache (`AprCpu.Core/Runtime/BlockCache.cs`) | map PC -> block, LRU list, one byte counter per page | `TryGet`, `Add`, `Invalidate`, `Clear`, `NotifyMemoryWrite` | `BlockCache` |
| Block detection and compilation (`BlockDetector`, `BlockFunctionBuilder`, `DeferLowering`, `SyncEmitter`) | the block under construction; budget, PC-written and exit flags of the running block | detect, lower, run, leave early | `GbBlockJit` |
| Game Boy CPU loop (`AprGb.Cli/Cpu/JsonCpu.cs`) | registers, IME, EI delay, HALT | `StepOne`, `StepBlock`, `CheckInterrupts` | `GbBlockJit` |
| LR35902 instructions: micro-operations of the JSON engine and hand-written `LegacyCpu` | A, F, B, HL, SP, PC, memory | ALU, shifts, bit, loads, stack, jumps | `GbInstructions` |
| ARM7TDMI register banks (`Arm7tdmiBankSwapHandler`, mode-changing emitters) | visible registers, banks, two sidecars, SPSRs | `SwapBank`, MSR, exception entry and return, LDM/STM with S | `ArmBanks` |
| GBA runner, display scheduler, DMA, interrupt registers | budget bookkeeping, scanline position, DISPSTAT, IE/IF/IME, CNT_H | `RunCycles`, `SyncSchedulerForMmio`, `Tick`, triggers, I/O accesses | `GbaSystem` |
| PC keyboard controller and interrupt controller (`PcPortBus`, `Pic8259`) | scancode FIFO, latch, IRQ line, port 61h, mask, pending set | `InjectScancode`, port accesses, `AssertIrq`, delivery | `PcKeyboardIrq` |
| PC timer and time of day (`PcPit`, INT 1Ah, INT 8) | tick count, midnight flag, their copy in the BIOS data area | timer callback, get/set time | `PcClock` |
| HLE keyboard (`PcKeyboard`, INT 16h of `HleBios`) | ring in the BIOS data area | enqueue, read, peek, the runner's wait | `HleKeyboard` |
| CPU executor of the ARM host | instruction caches, last step's cycles | `Step`, `StepBlock` | as seen by `GbaSystem` |
| Specification loader, decoder, compiler | none after loading | parse, include, merge, match patterns | none yet |
| Cartridges (`Mapper001`, MBC1 of `GbMemoryBus`) and what the CPUs tell the cache about them | shift register, bank registers, boot ROM switch, RAM | stores, bank switches, interrupt pushes, dispatch | `CodeMapping` |
| NES picture unit and CPU loop (`NesPpu`, `NesMemoryBus`, `NesJsonCpu`, `BoundCpu`) | beam, vertical blank flag, NMI latch, stall | `$2000`, `$2001`, `$2002`, `$4014`, `ppu_step_new`, `Step` | `NesVideo` |
| PC floppy path (`Fdc8272`, `Dma8237`, `DiskImage`) | command and result phase, interrupt status, DMA counters | port accesses, the burst of READ DATA | `PcDisk` |
| 6502 and 8086 instructions | registers | instructions | none yet |
| PC runner's life cycle | state, event, cancellation | `Start`, `Pause`, `Resume`, `Stop` | none yet |
| Game Boy LCD scheduler, timers | line, mode, counters | `Tick`, I/O | none yet |
| Verifier and lockstep tools | two environments, snapshots | run a block, replay it, compare | comparison in `GbBlockJit` |
| Picture output, UI, command lines, fuzzers | pixels, options | - | none (no machine state) |

`PROJECT.json` lists every part with its sources and, where nothing is modelled, the reason.

### How the parts interact

* Calls. A CPU's store extern writes the bus and then calls `BlockCache.NotifyMemoryWrite`; the dispatch loop asks `TryGet`
  and compiles on a miss. On the GBA a load may call back into the runner (`SyncSchedulerForMmio`), which ticks the
  scheduler, which may run a DMA transfer, which may load again, or store to the control word of another channel and run that
  transfer inside itself: calls nest in one thread, and the code sets no limit to the depth.
* Threads. Only the PC has several: the UI thread injects keys, a timer-pool thread runs the PIT callback, the emulator
  thread polls the interrupt controller and runs the guest. They share `PcPortBus` (under `_kbdLock`), `Pic8259` (its own
  lock), the PIT's counter (its own lock) and guest memory (no lock, and a word is two byte
  accesses). `AssertIrq` is always called after the device's lock was left.
* Shared memory as a protocol. The BIOS data area (ring offsets, tick double word, midnight flag) is written by host code
  and by guest code.
* Engines. The same program runs under up to three engines (block, per instruction, hand-written); the repository's own
  verifier (`VerifiedBlockJitRunner`, `CpuDiff`) compares them, and so do the models.

### What is hard here, and the properties that answer it

* Stale translations. A cached block must never outlive the bytes it was made from; the fast path that skips the scan must
  be exact: `CoverageExact`, `Coherent`, `LruMatchesMap`, `EvictsLeastRecentlyUsed`.
* Leaving a block early. Taken branch, exhausted budget, store to an interrupt register, deferred `EI`, `HALT`: each must
  leave the machine exactly where the interpreter would be: `EnginesAgree` (GbBlockJit), `BlockAgrees` (GbInstructions).
* Code that moves. A bank switch, a mirror, an inline store or the boot ROM switch changes what an address means under a
  cached block: `CartridgeBlocksFresh`, `StaleOnlyBySilentChange`, `Mmc1RegistersExact` (CodeMapping).
* Two implementations of the same arithmetic: `CpusAgree`, `DecimalResult` (GbInstructions).
* Time accounted in two places. The GBA's runner ticks the display after a step, and the catch-up ticks part of it before:
  `CatchUpExact`, `PromptInterrupt`, `WakesUp`, `ArmedDmaServed`. The NES runs an instruction or a block with all its register
  accesses and lets the picture unit catch up afterwards: `FrameShape`, `BlankAnnouncedOnce`, `NmiPerBlank`,
  `PollerMissesNothing`, `PollingEnds`.
* A device with phases. Commands, results, status and interrupt of the floppy controller under any order of accesses:
  `EventHandedOverOnce`, `ReportsNextSector`, `ReadFillsWindow`, `BackToIdle` (PcDisk).
* Registers that change owner. Banked registers live in three places that depend on the mode: `ImplementsRegisterFiles`.
* Edges between threads. Key injection against the acknowledge pulse; the timer against BIOS services: `KeysInOrder`,
  `OnlyThePulseRaces`, `EveryKeyServed`, `BdaFollowsPit`, `DaysReportedOnce`, `ReadReturnsKey`, `WaitEnds`, `ImplementsQueue`.

## 2. Modules and the code

Actions carry the names of the methods they model; `PROJECT.json` maps each definition to its lines. A definition whose
comment begins with "Mutant" or "Bug" is a plausible mistake in the definition below it; none is used by a specification.

**BlockCache.** `map`, `lru` and `coverage` are `_map`, `_lru` (as positions) and `_coverageCount`. A `Shape` is what the
detector returns: a start PC and the byte ranges of its instructions; a cached block remembers the bytes it was translated
from, which is what staleness is about. `Add` is split as in the code into replacement and insertion with eviction; a store
is one step with its notification, because one thread does both. `saturated` records pages whose counter has lost an
increment: from there on the code promises nothing (section 7). `BlockCacheRecency` adds a history variable to say
independently of the list what "least recently used" means.

**GbBlockJit.** A program of `ProgSize` instructions, any program, is run by both engines. `Detect`, `DeferredInto`, `RunInstr`,
`BlockExit`, `Sync` and `StepBlock` are the pipeline from `BlockDetector` to the code `BlockFunctionBuilder` emits; `StepOne`
is a pass of the per-instruction loop. After each block the interpreter runs as many instructions as the block did, which is
how `VerifiedBlockJitRunner` compares. Instructions keep only their effect on PC, IME, HALT, the interrupt request and one
data bit. Program shapes on which the engines really differ are written down as `ShapeDiverges`; a run ends at the first
one, so `EnginesAgree` speaks about everything else. EI before a followed jump and CB 18, the first two hazards `PROJECT.json`
lists for this part, are two of these shapes: the property does not catch them, it says what else cannot go wrong.

**GbInstructions.** One state per instruction and operand choice; three results are computed from it: the micro-operation
list of the JSON description with each emitter an operator (`json`), the same list inside a block, where a store to an
interrupt register leaves the block at once (`block`), and `LegacyCpu.Step` with its four separate flags (`legacy`).

**ArmBanks / ArmRegisterFiles.** `gpr`, `bank`, `nonFiq` and `userSystem` are the state structure, the banked fields and the
handler's two sidecars; `Swapped` is `SwapBank`. `ArmRegisterFiles` is the promise: a register file per mode, with the
architecture's sharing. The mapping `ViewOf(m, r)` says where register r of mode m is at the moment.

**GbaSystem.** `at` is the program counter of `RunCycles`, `calls` the stack of `Tick` and DMA calls in progress. The guest
is arbitrary: each instruction picks an effect (I/O read, a write to IF, IE, IME, DISPSTAT, HALTCNT or CNT_H, or none) and
a cost. A transfer copies unit by unit from memory or I/O to memory or I/O. A unit read from I/O calls the catch-up; one
written to I/O is any store to IF, IE, IME, DISPSTAT or CNT_H (HALTCNT is handled by byte stores only, which no transfer
makes), and one that sets an enable bit with immediate timing runs the new transfer inside the old one, as `ExecuteTransfer`
does through the bus. SAD, DAD and CNT_L, which the code reads once when a transfer starts, are chosen there. `MaxCalls` bounds
how deep the runs let transfers start each other; the code has no such bound and no property mentions it. `budgetAtStep`,
`inSync`, `left` are `_budgetAtStep`, `_inMmioSync`, `CyclesLeft`. `elapsed` is history: the time executed. `drift` records the
one situation in which the code counts time twice (section 7). `WakesUp` promises the end of a HALT up to a transfer that
writes I/O: one that clears IE while the CPU sleeps leaves nothing to wake it.

**PcKeyboardIrq.** Each lock section is a step and so is the `AssertIrq` after it. The guest is the INT 9 handler of the
shipped BIOS, one port access per step, nested as far as interrupts allow. A change of the mask is one step: the code sets the eight lines one after the other, but an
assertion looks at one line only. `raced` and `masked` record two situations in
which keys are lost (section 7).

**PcClock.** One step moves one byte of the BIOS data area, whichever thread does it: `cell` is 46Ch-46Fh, `bdaRolled` 470h.
The timer callback counts under its lock (`OnTickCount`), stores the four bytes (`WriteBdaTick`) and asserts IRQ 0. Against it
run the HLE INT 1Ah (one lock section per property access), a guest that reads the tick double word, and the real BIOS' INT 8
and INT 1Ah on the same bytes, whose word instructions are lists of byte accesses (`moves`) carried out by `LoadByte` and
`StoreByte`; `xor [470h], al` is a load and a store (`BiosXorLoad`, `BiosXorStore`). None of the guest's accesses takes the
PIT's lock. So a read may be torn between any two bytes, and `BdaFollowsPit` claims no more than that each byte is one the
counter had meanwhile; and a midnight flagged between the load and the store of the xor is lost, which `crossed` records and
`DaysReportedOnce` excludes by name.

**HleKeyboard / KeyQueue.** The ring with its two offsets, the UI thread's enqueue, and INT 16h with the runner's wait and
the simulated IRET. `KeyQueue` is the abstract first-in first-out queue.

**PcDisk.** `phase`, `op`, `args`, `res` and `pos` are the command and result buffers of `Fdc8272`; each byte written to or
read from port 3F5h is a step, and the last byte of a command runs it, burst and interrupt included, as in the code. `dma` is
channel 2 with the flip-flop that its address and count ports share. `last`, `seen`, `told` are history: the last completion,
whether the guest knows it, whether its interrupt came. Three kinds of guest: one that obeys the main status register, one
that writes during a result, one that programs the DMA channel in any way before a read. The size code of a READ is any byte,
clamped at 4 as in the code; a SEEK may leave the disk (`Seeks`), while the C, H and R of a READ stay on it.

**CodeMapping.** The address space of the NES and of the Game Boy cut into cells, a block being the set of cells of its
instructions, and a cached block remembering what each cell held. `Mapper001`'s serial register is modelled bit by bit. Each
store path reports to the cache exactly what the code reports; `silent` records the changes no path reports, which the
code leaves stale (section 7): `StaleOnlyBySilentChange` does not catch those four paths, it says that there is no fifth.

**NesVideo.** `line` and `dot` are the beam. A step of a CPU backend is `BeginStep` (take the NMI), any register accesses,
`EndStep` (charge the cycles), and then three `PpuStep`s per cycle. The first step pays the seven
cycles of `Reset`. `guest` is arbitrary or a loop that polls `$2002`. History
variables count what the guest was told about a vertical blank.

**MC modules.** `MCBlockCache`, `MCBlockCacheRecency`, `MCArmBanks` and `MCGbaSystem` only name sets that a configuration
cannot write down.

## 3. Runs

| Run | Properties | Shows | Distinct states |
|---|---|---|---|
| `block_cache` | `TypeOK`, `LruMatchesMap`, `CoverageExact`, `Coherent`, `EvictsLeastRecentlyUsed` | overlapping, jumping and recompiled blocks, capacity 3, counters that can saturate: list and map agree, counters are exact and blocks current up to a saturation, eviction is least recently used | 72,096 |
| `block_cache_x86` (violation) | `EveryBlockCurrent` | with the x86 CPU's sizing a block above 64 KB outlives its bytes | - |
| `pc_keyboard_irq` | `TypeOK`, `KeysInOrder`, `OnlyThePulseRaces`, `EveryKeyServed` | four keys, FIFO of two, one timer tick, masks changed at will, INT 9 with and without STI: order kept, loss and a wedged line only through the named races, every key answered | 100,069 |
| `pc_clock` | `BdaFollowsPit`, `DaysReportedOnce` | just over two days of six ticks in four bytes of one bit, one byte access a step, HLE and real BIOS | 640,360 |
| `hle_keyboard` | `TypeOK`, `ReadReturnsKey`, `ImplementsQueue`, `WaitEnds` | ring of four entries: the queue, the blocking read, no lost wake-up | 21,923 |
| `gb_block_jit` | `EnginesAgree` | every program of three instructions closed by a jump back, six blocks or wake-ups | 88,512 |
| `gb_instructions` | `CpusAgree`, `BlockAgrees`, `DecimalResult` | 14 byte values, memory classes and word edges for each instruction group on three engines | 1.63 million |
| `arm_banks` | `BanksTypeOK`, `ImplementsRegisterFiles` | five modes, one R8-R12 register and R14, two values up to symmetry; refinement | 92,160 |
| `gba_system` | `TypeOK`, `CatchUpExact`, `PromptInterrupt`, `WakesUp`, `ArmedDmaServed` | display of two lines, a DMA channel of every timing that reads or writes I/O and may start itself again, both engines, any guest; safety and liveness | 768,850 |
| `pc_disk` | `TypeOK`, `EventHandedOverOnce`, `ReportsNextSector`, `ReadFillsWindow`, `BackToIdle` | any commands, resets, masks and result reads, one drive with an image and one without; any DMA programming before reads of any size code anywhere on the image | 415,000 |
| `code_mapping` | `TypeOK`, `CartridgeBlocksFresh`, `StaleOnlyBySilentChange`, `Mmc1RegistersExact` | any two blocks dispatched between any stores, bank switches and interrupt pushes on both machines | 1.95 million |
| `nes_video` | `FrameShape`, `BlankAnnouncedOnce`, `NmiPerBlank`, `PollerMissesNothing`, `PollingEnds` | any register accesses in steps of any length against a frame of five lines, in every alignment | 2.63 million |

Deadlock is checked except in `gb_block_jit` (a run ends at the bound on blocks) and `gb_instructions` (one or two steps per
behaviour).

Each property of a passing run has a mutant in `PROJECT.json`, a mistake in one definition that makes that run report that
property; a property that is a conjunction has one for each part that can fail by itself.

## 4. Bounds and why they are enough

* `BlockCache`: five bytes on two-byte pages with four tracked bytes put a block across a page boundary, past the end of the
  counters and over the gap of a followed jump; four start PCs compete for three entries; `MaxCount` 3 lets a counter
  saturate, as 255 does in the code. The theorems drop all of these bounds.
* `PcKeyboardIrq`: four keys fill the FIFO of two, meet it full, and leave one to be latched in the middle of an
  acknowledge pulse; nesting is bounded by the keys.
* `PcClock`: `MaxTotal` is two days and one tick, so that a second midnight can meet an unreported first one; the day needs
  three of its four one-bit bytes and does not end at a carry, as the real 1573040 does not; a carry crosses each boundary
  between two bytes that a day uses. One time to set is enough, as no property depends on its value. The theorems hold for any
  day, byte and number of ticks.
* `HleKeyboard`: four entries wrap both offsets; the theorems hold for any ring.
* `GbBlockJit`: `ProgSize`, `Cap` and `MaxBlocks` allow a block to end for each of its reasons, a jump into the middle of another
  block and an interrupt handler that returns. `ProgSize` = 5 with `Cap` = 3 and `MaxBlocks` = 4 was explored too (1.48 million
  states).
* `GbInstructions`: bytes are the carries, half carries, BCD and sign edges; addresses one of each class the bus tells apart.
  The theorems hold for all bytes and words.
* `ArmBanks`: registers 8 and 14 are the two banked kinds; values are only copied, hence the symmetry. The theorems hold for
  any sets.
* `GbaSystem`: a unit is four cycles. HBlank starts at 2 of 3, VBlank at line 1 of 2; instructions of two units on a line of three
  end before, on and past an event, and a block of two of them in VBlank catches up in the middle. A transfer of two units into
  I/O can disable its own channel and enable it again, and so runs inside itself, up to `MaxCalls` calls. The guest acknowledges
  all requests at once. A larger instance (three lines, costs 1 and 2, two channels that read and write I/O and start each
  other, safety only) was explored once: 4.33 million states, no error. The safety theorems drop these bounds, the depth of
  nested transfers included.
* `PcDisk`: two cylinders and sectors, with the two heads every image has, make every wrap of the sector address happen; a sector of two cells with size
  codes for half a cell, two cells and a clamped eight (a cell is 256 bytes) lets a transfer end inside a sector; one seek goes
  past the last cylinder; DMA words of two binary digits let base, count and the
  end of a page meet in eight cells of RAM, less than two pages, so that a transfer can also run past the end of RAM. Only
  `BackToIdle` depends on these; the safety properties are proved for any number of cylinders and sectors, any radix and RAM.
* `CodeMapping`: four NES banks distinguish the 32 KB mode, both 16 KB modes and the fixed bank; the two free bits of a
  shifted value reach every PRG mode's low bit and two bank numbers; three Game Boy banks put one value beyond the file, and
  35 (= 3 mod 32) tests the mask; two blocks are enough for one to be running while the other goes stale.
* `NesVideo`: line -1, one visible line, the idle line, the blank of two lines and the pre-render line; seven dots give every
  alignment of a cost of one or three cycles (three dots each) to the first dot of the blank. A step of three cycles
  with an NMI is shorter than the blank, as `StepAssumption` asks. `MaxStall` bounds the stores to `$4014` in a step to two.
  Counts of reports, interrupts and
  enables are capped where no property tells larger ones apart. The theorems drop the geometry.

## 5. Fairness

* `GbaSystem`: weak fairness of the whole next-state relation. One thread runs everything and its caller asks for frames
  for ever. The guest is not assumed to do anything: `WakesUp` concerns a halted guest, and `ArmedDmaServed` needs only
  that time passes.
* `PcKeyboardIrq`: the emulator thread keeps running, and the UI thread, once in `InjectScancode`, leaves it. No fairness
  for typing or for the timer. `EveryKeyServed` assumes in its statement that the guest does not mask the keyboard for ever.
* `HleKeyboard`: weak fairness of the three steps that the emulator loop takes by itself.
* `NesVideo`: the loop goes on: a step begins, ends, and the picture unit takes its dots; and the polling guest does read
  `$2002` in each step, which is what makes it one. Nothing is assumed of the arbitrary guest.
* `PcDisk`: a guest that obeys the main status register keeps moving bytes in the direction it names. `BackToIdle` is about
  such guests; nothing is assumed of which commands they send.

## 6. Proofs

TLAPS checks these for every value of the constants that satisfies the named assumptions.

* `BlockCacheProofs`: `TypeCorrect`, `CountersExact` and `CacheCoherent` from `SizeAssumption` and `ShapeAssumption`. The
  inductive invariant is `TypeOK /\ CoverageExact /\ Coherent`. Coherence alone is not inductive: a store skips the scan when
  the page's counter is zero, so a stale block survives unless the counter is exact. The counting lemma is `BumpsSplit`: for a
  map cut into two parts the bumps of a page add up. With it an eviction or invalidation (`ExactAfterDrop`) and an insertion
  (`ExactAfterPut`) keep a counter exact unless the page saturates. `NoBumpsNoCover` turns a zero counter into "no cached
  block covers this byte", which is the store's case. `ListMatchesMap` proves `LruMatchesMap` from a local form of it,
  `Ranked`: a position is the number of entries up to it. Unlinking any set and moving to the front keep that form; that the
  positions are then 1 .. Count follows by counting. `LeastRecentlyUsedEvicted` adds the history of `BlockCacheRecency`: the
  entries in front of one are exactly those used since (`SinceInv`), so the tail is the one every other was used after.
* `HleBiosProofs`, the two services that share the BIOS data area with another thread. Keyboard: `TypeCorrect`,
  `BlockingReadReturnsKey`, `RingImplementsQueue` from `RingAssumption`. Types are strengthened by "every slot between head
  and tail holds a key" and "in the read step the ring is not empty": the UI thread only adds, so what the runner saw still
  holds at the dispatch. The refinement is proved action by action: enqueue appends to `Contents`, the read takes its tail,
  everything else leaves it alone. Clock: `BdaAlwaysFollowsPit`, `ReadsTornOnlyByCarry` and
  `DaysAlwaysReportedOnce` from `ClockAssumption`. The invariant says what each byte of the BDA holds between OnTick's stores, the
  previous tick's or this one's (`Mirror`), that a guest in the middle of a read holds bytes of values the counter had since it
  began (`Reading`), that an unreported midnight leaves room for its report (`Days`), and that a midnight not flagged inside the
  xor is flagged and was loaded by it (`Flagged`). `ReadsTornOnlyByCarry` adds that a read is wrong as a whole only if a byte
  above the lowest changed during it. Division with remainder by a parameter rests on two lemmas, `Split` and `SplitUnique`.
* `PcKeyboardIrqProofs`: `TypesKept`, `KeysStayInOrder`, `RacesOnlyInPulse` from `KeyboardAssumption`, for any number of keys,
  FIFO size, number of ticks and depth of nesting. For the order: what was read is up to the latch, the latch is before the
  FIFO, the FIFO rises up to the last scancode injected (`ReadOrder`); and if the handler cannot be nested, the scancode it
  holds comes after the stored ones (`StoreOrder`). For the races there are two invariants, one for each way out in the
  statement. As long as no race happened, at most one acknowledge is under way: a pending or announced interrupt, a handler
  before its pulse, or a handler in its pulse, never two of them, and the line is high exactly in the first two cases
  (`Token`). If the handler cannot be nested, bit 7 is high only inside the pulse of the one frame (`PulseOnly`). Either one
  says that the rising edge really lowers the line, which `StuckStep` needs, and the first one that a latched scancode was
  read before another replaces it (`LostStep`).
* `GbaSystemProofs`: `TypeCorrect`, `CatchUpsExact`, `PromptInterrupts` from `TimeAssumption` and `DeviceAssumption`, for any
  display geometry, costs, quotas, number of channels, transfers and depth of nesting. Time that was executed and not yet ticked
  is spread over the budget of a block, the ticks a catch-up owes and the ticks the runner owes; `Behind` adds it up, and
  position plus `Behind` is the time elapsed modulo a frame (`Clock`). That is inductive only with the shapes the stack of calls
  can have (`Stack`: transfers to any depth, only the bottom tick the runner's, at most one catch-up, and in the middle of a block
  no trigger), with the budget's room before the next event (`Budget`), with the place of the beam inside `Tick` (`Beam`) and
  with what the interpreter never does (`Drifts`). `Prompt` adds that after a poll nothing is deliverable until the guest or a
  transfer touches the registers. The register banks are in the same module: `BanksTypeCorrect` and `BanksImplementFiles` from
  the three assumptions of `ArmBanks`. The only invariant needed is the type. A lemma says that `SwapBank` moves no register of
  any mode, for each pair of modes and each kind of register; writes and exception entry then follow one view entry at a time.
* `GameBoyProofs`, in two parts. `JitAgrees` proves `EnginesAgree` of `GbBlockJit` for every program, block limit, vector and
  number of blocks. Detector, compiled block and interpreter are recursive functions; each is shown to satisfy its equation and
  then followed index by index, where induction is by the least element of a set of natural numbers (`LeastNat`, `UpTo`).
  `Related` relates the machine inside a block to the interpreter after as many instructions, `Exits` tells apart the ways of
  leaving, and `Compiled` puts them together. `CpusAgreement`, `BlocksAgreement` and `DecimalCorrect` prove the three properties
  of `GbInstructions` from `ByteWidth`, `WordWidth` and `KnownAddresses`, for all operands, addresses and flags. `Match` relates
  the JSON engine's packed flags to the four of `LegacyCpu`; each kind of instruction has a lemma that keeps it, over lemmas
  about bits, carries and shifts, and `StepMatch` collects them. For the block it is enough that in every list of
  micro-operations nothing follows a store (`StoresLast`). The decimal results are an argument about two digits and their
  carries.
* `PcDiskProofs`: `EventsHandedOverOnce`, `TypeCorrect`, `NextSectorReported`, `WindowFilled` from `DiskAssumption`. The first
  is strengthened by "an interrupt status that is pending belongs to the last completion (but for a READ whose result still
  waits)", "the first byte of a result withdraws it", and "a result waits only behind a complete command". The others share
  `DiskInv`: which arguments a command can have been given (`Buffers`), and where the flip-flop stands in the middle of a pair
  of accesses (`Programmed`), without which the window programmed and the one used need not agree. `NextSector` is the
  arithmetic of the sector address: `FinalChs` is the address one sector on, whatever wraps. The number of heads is two, as
  for every image the loader accepts, so that this arithmetic has one product of parameters.
* `CodeMappingProofs`: `OnlySilentChangesStale` and `CartridgeNeverStale` from `CodeAssumption`. The second follows from the
  first with the invariant that on the NES only work RAM and its mirror change silently (`SilentInWram`). One lemma,
  `Refreshed`, covers every reported store: what the report drops is no longer cached, and the rest reads as before.
  `TypeCorrect` and `SerialRegistersExact` share the invariant `Registered`; a shifted bit is added above the ones the
  register has, which needs that it is below the next power of two, and a case for each of the five positions.
* `NesVideoProofs`: `FrameKeepsShape`, `BlanksAnnouncedOnce`, `InterruptsCounted` from `VideoAssumption`, each by a
  strengthening of its own: a shortened frame leaves the odd-frame switch off (`FrameInv`); a reported flag is down, or a read
  fell on the edge (`BlankInv`); a pending NMI counts as one taken (`NmiInv`). `PollerSeesBlanks` needs `StepAssumption` too:
  a step of the CPU loop is shorter than a vertical blank (a block has at most 64 instructions of at most eight cycles, a
  blank of 20 lines 6820 dots). Its invariant measures how far the blank is when the step began (`PollInv`).

Every inductive invariant was checked by TLC on the instance of its run before it was proved.

Every safety property of a passing run is proved. Only model-checked: the liveness properties (`EveryKeyServed`, `WaitEnds`,
`WakesUp`, `ArmedDmaServed`, `BackToIdle`, `PollingEnds`), as fairness is out of the prover's reach.

## 7. Where the code and its comments part

One is kept as a run that must end in a violation:

* `block_cache_x86`: `X86JsonCpu.cs:282` builds the cache with 64 KB of counters for a 1 MB space, so stores at or above
  10000h never invalidate a block (comment `X86JsonCpu.cs:54-60`).

Others met while modelling are part of the models, where a named condition excludes exactly them from a property:

* Block cache. A counter stops at 255 but is still decremented for each block (`BlockCache.cs:368`), so after a saturation it can
  reach zero while blocks cover its page; the comments at `:134` and `:262` say the opposite. With pages of 4 KB five
  full blocks on a page are enough.
* Keyboard. The UI thread may latch a key between the two edges of an acknowledge pulse (`PcPortBus.cs:230`): the key it replaces
  is lost, and with a re-enabling INT 9 the line can stay high with no acknowledge to come (`raced`). An edge asserted while masked
  is dropped rather than remembered (`Pic8259.cs:69`, `masked`). With STI in the handler a later key can be stored before an earlier one.
* Clock. The guest reads the tick double word byte by byte without the lock, so any carry between two bytes can be seen half
  done; with a real BIOS both the PIT and INT 8 count the same bytes, so a day can be flagged twice and a time set by the guest
  is overwritten at the next tick; the BIOS clears the flag by `xor [470h], al` under a CLI, which does not stop the timer
  thread, so a midnight flagged between the xor's load and its store is lost (`crossed`). The HLE INT 1Ah reads the flag for AL
  and again to decide whether to clear it, each in a lock section of its own (`HleBios.cs:647-649`): a midnight between the two
  is cleared unreported, although `HleBios.cs:640` says "also cleared after read". `DaysReportedOnce` allows that; it says
  that none is reported twice.
* GBA. The tick at the end of a step neither sets the re-entry guard nor rebases the budget (`GbaSystemRunner.cs:126`): an HBlank or
  VBlank transfer whose source is I/O, or the frame trace of the command line, ticks the step's cycles again under the block
  JIT (`drift`). A transfer into a control word runs the transfer it enables inside itself, without a limit
  (`GbaDmaController.cs:57`). A HALTCNT store does not end its block. A byte store to DISPSTAT overwrites its read-only flags.
* ARM. SWI executed in Supervisor mode writes the return address to the bank, but no swap follows, so the handler sees the
  old R14 (`ArmEmitters.cs:808`); MSR and MRS of SPSR act on CPSR (`:442`); LDM with S and PC does not restore CPSR.
* Game Boy engines. EI is also lost before a store that leaves the block and when the budget ends right after it; EI as the last
  instruction takes effect at the exit of the block, whichever way it is left; EI after EI acts one instruction early; a
  followed jump to an undecodable target is skipped. `LegacyCpu` takes Z of RRC, RL and SLA (HL) from a second read
  (`LegacyCpu.Step.cs:1577`), which differs on registers that do not read back what was written; STOP has different lengths
  in the two engines; EI followed by DI leaves IME set in both JSON modes.
* Game Boy blocks, two shapes that `ShapeDiverges` names and whose comments say otherwise. CB 18 (RR B) in ROM passes the test
  for JR (`BlockDetector.cs:391`, which looks at the byte after the prefix) and is compiled to nothing, although
  `BlockDetector.cs:190-196` speaks of "an unconditional branch with a STATICALLY computable target". EI followed by a
  followed jump never sets IME, because a followed jump emits no steps (`BlockFunctionBuilder.cs:410`), although
  `DeferLowering.cs:62-64` says that "the body runs at the END of the next instruction".
* HLE keyboard. `Int16_PeekChar` sets ZF as its comment says (`HleBios.cs:597-598`), and `SimulateIret` (`:141`) then replaces
  FLAGS by the pushed ones, so the guest cannot see it; a BIOS returns with `retf 2` for this reason
  (`ref/pcxtbios/pcxtbios.asm:1874`).
* Code that moves (`silent` in `CodeMapping`, what `StaleOnlyBySilentChange` excludes). An MBC1 bank switch reports nothing to the cache (`GbMemoryBus.cs:174`), which
  `MD_EN/design/12-gb-block-jit-roadmap.md:337` lists as mitigated; inline work RAM stores of the Game Boy report only with
  `APR_SMC_INLINE_NOTIFY` (`Lr35902Emitters.cs:1276-1284`); its interrupt push does not (`JsonCpu.cs:715`); on both machines
  a store at a mirror reports only the mirror's address (`NesMemoryBus.cs:469`). A running block goes on in the old bank after
  its own MMC1 store. The NES diff mode connects `PrgBankSwitched` and not `SmcWriteHook` (`Program.cs:193`, `:267`). The
  mirroring of the MMC1 at power-on is never sent to the picture unit (`Mapper001.cs:177`).
* NES picture. A `$2002` read on the first dot of a blank keeps the flag and suppresses the next one (`NesPpu.cs:895`), so one
  blank is reported twice and the next not at all; enabling the background before the first frame renders line -1 and
  ends in an index out of range (`NesPpu.cs:439`); sprite DMA starts at a pointer that `$2003` never sets, where its
  comment says "current OAMADDR" (`NesMemoryBus.cs:616-633`); nametable writes are replicated under the mirroring of the
  moment only (`NesPpu.cs:228-285`).
* Floppy. A byte written during a result is appended to the old command and runs it again (`Fdc8272.cs:137`): the "rude" guest
  of `PcDisk`, excluded from `EventAvailable` and `BackToIdle`.
* The repository's verifier cannot see most of the EI cases: it runs with followed jumps disabled, its interpreter never
  counts the EI delay, and IME is not in its snapshot.

## 8. Not modelled

LLVM and the generated machine code (native, outside the repository); pictures, sound, files, options and logs (no machine
state); exact cycle tables; real LCD, sound or bus timing; the wording of traces. Guest programs other than the BIOS
handlers named above are arbitrary. External, modelled from use: the pcxtbios INT 8, INT 9 and INT 1Ah handlers.
Planned parts are listed next.

Hazards that wait for a model of their own, besides those listed in `PROJECT.json`: the port bus' snapshot leaves out waiting
scancodes (`PcPortBus.cs:626`); `Stop` reports Stopped after two seconds whether the thread ended or not
(`PcSystemRunner.cs:334`); LY=LYC is compared only when a line begins (`GbScheduler.cs:127`); without a machine file the NES
bus returns before it builds its page table (`NesMemoryBus.cs:140-152`); an SPSR no exception has written makes the bank swap
skip its save (`Arm7tdmiBankSwapHandler.cs:155`); bank-swap and bus bindings are static, so two CPUs in a process share them
(`BankSwapBindings.cs:27`).

## 9. Plan

Done, in the order of importance for the system: the block cache every machine shares, its proof; the Game Boy's compiled
blocks against the interpreter; the PC's interrupt, keyboard and clock paths; instruction semantics of the LR35902;
ARM banks with their refinement proof; the GBA's system loop; the PC's floppy path; cartridges whose code moves under the
cache; the NES picture unit against its CPU loop; proofs of every safety property that the
passing runs check.

Next, in this order:

1. The 6502 and 8086 as engine comparisons in the manner of `GbInstructions`, then ARM data processing.
2. The Game Boy's LCD scheduler and timers beside `GbBlockJit`: lines, modes and the requests they raise in mid-block.
3. Life cycle of the PC runner (Start, Pause, Resume, Stop across threads) and the verifier with its two environments and static
   bindings.
4. Pure functions: JSON merge patch, include resolution, bit patterns and decoder priority against their definitions.
