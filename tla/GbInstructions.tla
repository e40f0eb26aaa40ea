--------------------------- MODULE GbInstructions ---------------------------
(***************************************************************************)
(* What one LR35902 instruction does to registers, flags and memory, three *)
(* times over:                                                             *)
(*   json    the micro-operation list of spec/cpu/lr35902/groups/*.json,   *)
(*           each micro-operation as its emitter compiles it, one          *)
(*           instruction at a time (JsonCpu.StepOne);                      *)
(*   block   the same list inside a compiled block, where a store to an    *)
(*           address that can change an interrupt returns from the block   *)
(*           and the rest of the list does not run;                        *)
(*   legacy  the hand-written LegacyCpu.Step.                              *)
(* CpuDiff.Run compares json with legacy after every instruction,          *)
(* RunBjitVsPerInstr compares block with json.                             *)
(*                                                                         *)
(* F is a byte in json and block and four variables in legacy.  Register b *)
(* stands for every 8-bit register but A, m is the byte at the address HL  *)
(* held when the instruction began (at), n the immediate byte, top the     *)
(* word on the stack, latch the last byte written to the cartridge.        *)
(* The stack is taken to lie in ordinary memory.                           *)
(***************************************************************************)
EXTENDS Integers, Sequences

CONSTANTS Bytes,       \* values of 8-bit operands
          Addresses,   \* values of HL as an address
          Words,       \* values of 16-bit operands
          StackWords,  \* values of SP when the stack is used
          Pcs          \* addresses of the instruction

\* The values of a byte and of a word
B8 == {x \in Nat : x < 256}
B16 == {x \in Nat : x < 65536}

ASSUME ByteWidth == Bytes \subseteq B8
ASSUME WordWidth == Addresses \cup Words \cup StackWords \cup Pcs \subseteq B16

\* The byte of a location that is read back after a write is modelled for the
\* cartridge, plain memory, DIV, TAC and IF.
ASSUME KnownAddresses ==
  \A at \in Addresses : \/ at \in 0..32767 \cup 32768..40959 \cup 49152..65183
                        \/ at \in {65284, 65287, 65295} \cup 65408..65535

VARIABLES ins, start, json, block, legacy, done

vars == <<ins, start, json, block, legacy, done>>

-----------------------------------------------------------------------------
\* Bytes, words and flags

Byte(x) == x % 256
Word(x) == x % 65536
Signed(x) == IF x >= 128 THEN x - 256 ELSE x
Num(p) == IF p THEN 1 ELSE 0
Nibble(x) == x % 16
Half(x) == x \div 2
Bit(x, k) == (x \div 2^k) % 2
WithBit(x, k, v) == x + (v - Bit(x, k)) * 2^k

\* The bitwise operations of C# on words
BitByBit(op(_, _), x, y) ==
  LET b(k) == 2^k * op(Bit(x, k), Bit(y, k))
  IN b(0) + b(1) + b(2) + b(3) + b(4) + b(5) + b(6) + b(7)
       + b(8) + b(9) + b(10) + b(11) + b(12) + b(13) + b(14) + b(15)
BothSet(p, q) == Num(p = 1 /\ q = 1)
AnySet(p, q) == Num(p = 1 \/ q = 1)
OneSet(p, q) == Num(p # q)
And(x, y) == BitByBit(BothSet, x, y)
Or(x, y) == BitByBit(AnySet, x, y)
Xor(x, y) == BitByBit(OneSet, x, y)

Z == 7
N == 6
H == 5
C == 4

StoreFlags(z, n, h, c) == 128 * z + 64 * n + 32 * h + 16 * c

-----------------------------------------------------------------------------
\* The bus

\* What the location reads after v was written over old.
ReadBack(at, old, v) ==
  CASE at < 32768 -> old
    [] at = 65284 -> 0
    [] at = 65287 -> v % 8
    [] at = 65295 -> v % 32
    [] OTHER -> v

WriteByte(s, v) ==
  [s EXCEPT !.m = ReadBack(s.at, @, v), !.latch = IF s.at < 32768 THEN v ELSE @]

IsIrqRelevantAddress(at) == at \in 65280..65407 \/ at = 65535

-----------------------------------------------------------------------------
\* The instructions: op, operand (a, b, hl: the byte at HL, n: the immediate;
\* for 16-bit operations hl or sp), k (a bit number or a vector) and condition

AddOps == {"add", "adc"}
SubOps == {"sub", "sbc", "cp"}
AluOps == AddOps \cup SubOps \cup {"and", "xor", "or"}
ShiftOps == {"rlc", "rrc", "rl", "rr", "sla", "sra", "swap", "srl"}
Conditions == {"always", "nz", "z", "nc", "c"}

I(ops, srcs, ks) == [op : ops, src : srcs, k : ks, cc : {"always"}]

Arithmetic == I(AluOps, {"a", "b", "hl", "n"}, {0})
ReadModifyWrite ==
  I({"inc", "dec"} \cup ShiftOps, {"b", "hl"}, {0}) \cup I({"set", "res"}, {"b", "hl"}, 0..7)
Loads == I({"bit"}, {"b", "hl"}, 0..7) \cup I({"ld_from"}, {"b", "hl", "n"}, {0})
           \cup I({"ld_to"}, {"b", "hl"}, {0}) \cup I({"ld_imm"}, {"b", "hl"}, {0})
           \cup I({"ldi_to", "ldd_to", "ldi_from", "ldd_from"}, {"hl"}, {0})
OnA == I({"rlca", "rrca", "rla", "rra", "cpl", "scf", "ccf"}, {"a"}, {0})
Decimal == I({"daa"}, {"a"}, {0})
Wide == I({"inc16", "dec16", "add_hl"}, {"hl", "sp"}, {0}) \cup I({"add_sp", "ldhl", "ld_sp_hl"}, {"sp"}, {0})
Stack == I({"push", "pop"}, {"af", "hl"}, {0})
Jumps == [op : {"jp", "jr", "call", "ret"}, src : {"n"}, k : {0}, cc : Conditions]
           \cup I({"jp_hl", "reti"}, {"n"}, {0}) \cup I({"rst"}, {"n"}, {8 * t : t \in 0..7})

Instructions == Arithmetic \cup ReadModifyWrite \cup Loads \cup OnA \cup Decimal \cup Wide \cup Stack \cup Jumps

\* Bytes the instruction takes, and the target of a direct jump
Length(i) ==
  CASE i.op \in {"jp", "call"} -> 3
    [] i.op \in {"jr", "add_sp", "ldhl", "bit", "set", "res", "ld_imm"} \cup ShiftOps -> 2
    [] i.src = "n" /\ i.op \in AluOps \cup {"ld_from"} -> 2
    [] OTHER -> 1

Imm16 == 19472

-----------------------------------------------------------------------------
\* Micro-operations: each emitter, applied to the state s of a json engine.
\* v is the value handed from one step of the list to the next.

SetFlag(s, bit, x) == [s EXCEPT !.f = WithBit(@, bit, x)]
ToggleFlag(s, bit) == [s EXCEPT !.f = WithBit(@, bit, 1 - Bit(@, bit))]
UpdateZero(s) == SetFlag(s, Z, Num(s.v = 0))
UpdateHInc(s) == SetFlag(s, H, Num(Nibble(s.v) = 0))
UpdateHDec(s) == SetFlag(s, H, Num(Nibble(s.v) = 15))

ReadR8(s, src) == [s EXCEPT !.v = CASE src = "a" -> s.a [] src = "b" -> s.b [] src = "n" -> s.n]
LoadByte(s) == [s EXCEPT !.v = s.m]
WriteR8(s, dst) == IF dst = "a" THEN [s EXCEPT !.a = s.v] ELSE [s EXCEPT !.b = s.v]
\* add or sub, then trunc to eight bits.  Mutant: the trunc step is missing.
AddNoTrunc(s, d) == [s EXCEPT !.v = @ + d]
AddTrunc(s, d) == [s EXCEPT !.v = Byte(@ + d)]
Mvn(s) == [s EXCEPT !.v = 255 - @]

\* Inside a block a store that can change an interrupt leaves the block.
StoreByte(s, inBlock) == [WriteByte(s, s.v) EXCEPT !.left = inBlock /\ IsIrqRelevantAddress(s.at)]

BitTest(s, k) == SetFlag(s, Z, 1 - Bit(s.v, k))
BitSet(s, k) == [s EXCEPT !.v = WithBit(@, k, 1)]
BitClear(s, k) == [s EXCEPT !.v = WithBit(@, k, 0)]

Shift(s, kind, setsZ) ==
  LET top == Bit(s.v, 7)
      low == s.v % 2
      cIn == Bit(s.f, C)
      cOut == CASE kind \in {"rlc", "rl", "sla"} -> top [] kind = "swap" -> 0 [] OTHER -> low
      result == CASE kind = "rlc" -> Byte(2 * s.v) + top
                  [] kind = "rrc" -> Half(s.v) + 128 * low
                  [] kind = "rl" -> Byte(2 * s.v) + cIn
                  [] kind = "rr" -> Half(s.v) + 128 * cIn
                  [] kind = "sla" -> Byte(2 * s.v)
                  [] kind = "sra" -> Half(s.v) + 128 * top
                  [] kind = "srl" -> Half(s.v)
                  [] kind = "swap" -> 16 * Nibble(s.v) + (s.v \div 16)
      t == [s EXCEPT !.v = result]
      u == IF setsZ THEN UpdateZero(t) ELSE t
  IN SetFlag(SetFlag(SetFlag(u, N, 0), H, 0), C, cOut)

Alu8(s, op, y) ==
  LET cIn == IF op \in {"adc", "sbc"} THEN Bit(s.f, C) ELSE 0
      result == CASE op \in AddOps -> s.a + y + cIn
                  [] op \in SubOps -> s.a - (y + cIn)
                  [] op = "and" -> And(s.a, y)
                  [] op = "xor" -> Xor(s.a, y)
                  [] op = "or" -> Or(s.a, y)
      half == CASE op \in AddOps -> Nibble(s.a) + Nibble(y) + cIn > 15
                [] op \in SubOps -> Nibble(s.a) < Nibble(y) + cIn
                [] OTHER -> op = "and"
      carry == CASE op \in AddOps -> result > 255
                 [] op \in SubOps -> s.a < y + cIn
                 [] OTHER -> FALSE
  IN [s EXCEPT !.a = IF op = "cp" THEN @ ELSE Byte(result),
               !.f = StoreFlags(Num(Byte(result) = 0), Num(op \in SubOps), Num(half), Num(carry))]

\* After an addition the high digit needs correcting.  Mutant: the carry only.
Need60CarryOnly(s) == Bit(s.f, C) = 1
Need60(s) == Bit(s.f, C) = 1 \/ s.a > 153
Need06(s) == Bit(s.f, H) = 1 \/ Nibble(s.a) > 9

Daa(s) ==
  LET n == Bit(s.f, N)  h == Bit(s.f, H)  c == Bit(s.f, C)
      result == Byte(IF n = 0 THEN s.a + 96 * Num(Need60(s)) + 6 * Num(Need06(s))
                              ELSE s.a - (96 * c + 6 * h))
  IN [s EXCEPT !.a = result,
               !.f = StoreFlags(Num(result = 0), n, 0, IF n = 0 THEN Num(Need60(s)) ELSE c)]

\* read_reg_pair_named, add or sub, write_reg_pair_named
AddPair(s, pair, d) ==
  IF pair = "hl" THEN [s EXCEPT !.hl = Word(@ + d)] ELSE [s EXCEPT !.sp = Word(@ + d)]

\* The carries out of bits 11 and 15 of a sum of words
Carry11(x, y) == Num((x % 4096) + (y % 4096) > 4095)
Carry15(x, y) == Num(x + y > 65535)

AddHlRr(s, pair) ==
  LET rr == IF pair = "hl" THEN s.hl ELSE s.sp
  IN [s EXCEPT !.hl = Word(s.hl + rr), !.f = StoreFlags(Bit(s.f, Z), 0, Carry11(s.hl, rr), Carry15(s.hl, rr))]

\* H and C of SP plus e8 are carries of the low byte.  Mutant: of the word.
SpE8WordFlags(s) ==
  StoreFlags(0, 0, Num((s.sp % 4096) + s.n > 4095), Num(s.sp + s.n > 65535))
SpE8Flags(s) ==
  StoreFlags(0, 0, Num(Nibble(s.sp) + Nibble(s.n) > 15), Num(Byte(s.sp) + s.n > 255))
AddSpE8(s) == [s EXCEPT !.sp = Word(@ + Signed(s.n)), !.f = SpE8Flags(s)]
LdHlSpE8(s) == [s EXCEPT !.hl = Word(s.sp + Signed(s.n)), !.f = SpE8Flags(s)]

PushWord(s, w) == [s EXCEPT !.sp = Word(@ - 2), !.top = w]
PushPair(s, pair) == PushWord(s, IF pair = "af" THEN 256 * s.a + s.f ELSE s.hl)
PopPair(s, pair, mask) ==
  LET popped == And(s.top, mask)
      t == [s EXCEPT !.sp = Word(@ + 2)]
  IN IF pair = "af" THEN [t EXCEPT !.a = popped \div 256, !.f = popped % 256]
                    ELSE [t EXCEPT !.hl = popped]

FlagCond(s, cc) ==
  CASE cc = "always" -> TRUE
    [] cc = "nz" -> Bit(s.f, Z) = 0
    [] cc = "z" -> Bit(s.f, Z) = 1
    [] cc = "nc" -> Bit(s.f, C) = 0
    [] cc = "c" -> Bit(s.f, C) = 1

Branch(s, target, cc) == [s EXCEPT !.pc = IF FlagCond(s, cc) THEN target ELSE @]
Call(s, target, cc) == IF FlagCond(s, cc) THEN [PushWord(s, s.pc) EXCEPT !.pc = target] ELSE s
Ret(s, cc) == IF FlagCond(s, cc) THEN [s EXCEPT !.pc = s.top, !.sp = Word(@ + 2)] ELSE s

-----------------------------------------------------------------------------
\* The micro-operation lists of the instruction groups

Fetch(src) == IF src = "hl" THEN <<"load_byte", src>> ELSE <<"read_r8", src>>

\* In memory the flags are set before the store, so that a store which leaves
\* the block has nothing after it.
IncDecSteps(i) ==
  LET up == i.op = "inc"
      add == <<"add", IF up THEN 1 ELSE -1>>
      zero == <<"update_zero", 0>>
      sign == <<"set_flag", <<N, IF up THEN 0 ELSE 1>>>>
      half == <<IF up THEN "update_h_inc" ELSE "update_h_dec", 0>>
  IN IF i.src = "hl" THEN <<Fetch(i.src), add, zero, sign, half, <<"store_byte", 0>>>>
                     ELSE <<Fetch(i.src), add, <<"write_r8", "b">>, zero, sign, half>>

Back(src) == IF src = "hl" THEN <<"store_byte", 0>> ELSE <<"write_r8", src>>

ShiftSteps(i) == <<Fetch(i.src), <<"shift", i.op>>, Back(i.src)>>
BitSteps(i) == <<Fetch(i.src), <<"bit_test", i.k>>, <<"set_flag", <<N, 0>>>>, <<"set_flag", <<H, 1>>>>>>
SetSteps(i) == <<Fetch(i.src), <<"bit_set", i.k>>, Back(i.src)>>
ResSteps(i) == <<Fetch(i.src), <<"bit_clear", i.k>>, Back(i.src)>>

RotateASteps(i) ==
  LET kind == CASE i.op = "rlca" -> "rlc" [] i.op = "rrca" -> "rrc" [] i.op = "rla" -> "rl" [] i.op = "rra" -> "rr"
  IN <<<<"read_r8", "a">>, <<"shift_keep_z", kind>>, <<"set_flag", <<Z, 0>>>>, <<"write_r8", "a">>>>

FlagSteps(i) ==
  CASE i.op = "cpl" -> <<<<"read_r8", "a">>, <<"mvn", 0>>, <<"write_r8", "a">>,
                         <<"set_flag", <<N, 1>>>>, <<"set_flag", <<H, 1>>>>>>
    [] i.op = "scf" -> <<<<"set_flag", <<N, 0>>>>, <<"set_flag", <<H, 0>>>>, <<"set_flag", <<C, 1>>>>>>
    [] i.op = "ccf" -> <<<<"toggle_flag", C>>, <<"set_flag", <<N, 0>>>>, <<"set_flag", <<H, 0>>>>>>

LoadSteps(i) ==
  CASE i.op = "ld_from" -> <<Fetch(i.src), <<"write_r8", "a">>>>
    [] i.op = "ld_to" -> <<<<"read_r8", "a">>, Back(i.src)>>
    [] i.op = "ld_imm" -> <<<<"read_r8", "n">>, Back(i.src)>>

\* The address is read first; a store comes after HL has moved.  Mutant: HL
\* moves after the store, the order before the lists were rearranged.
IndirectStoreFirst(i) ==
  LET move == <<"add_pair", <<"hl", IF i.op \in {"ldi_to", "ldi_from"} THEN 1 ELSE -1>>>>
  IN IF i.op \in {"ldi_to", "ldd_to"} THEN <<<<"read_r8", "a">>, <<"store_byte", 0>>, move>>
                                       ELSE <<<<"load_byte", 0>>, <<"write_r8", "a">>, move>>
IndirectSteps(i) ==
  LET move == <<"add_pair", <<"hl", IF i.op \in {"ldi_to", "ldi_from"} THEN 1 ELSE -1>>>>
  IN IF i.op \in {"ldi_to", "ldd_to"} THEN <<move, <<"read_r8", "a">>, <<"store_byte", 0>>>>
                                       ELSE <<<<"load_byte", 0>>, <<"write_r8", "a">>, move>>

WideSteps(i) ==
  CASE i.op = "inc16" -> <<<<"add_pair", <<i.src, 1>>>>>>
    [] i.op = "dec16" -> <<<<"add_pair", <<i.src, -1>>>>>>
    [] i.op = "add_hl" -> <<<<"add_hl_rr", i.src>>>>
    [] i.op = "add_sp" -> <<<<"add_sp_e8", 0>>>>
    [] i.op = "ldhl" -> <<<<"ld_hl_sp_e8", 0>>>>
    [] i.op = "ld_sp_hl" -> <<<<"ld_sp_hl", 0>>>>

StackSteps(i) ==
  IF i.op = "push" THEN <<<<"push_pair", i.src>>>>
  ELSE <<<<"pop_pair", <<i.src, IF i.src = "af" THEN 65520 ELSE 65535>>>>>>

JumpSteps(i) ==
  CASE i.op = "jp" -> <<<<"branch", <<"nn", i.cc>>>>>>
    [] i.op = "jr" -> <<<<"branch", <<"e8", i.cc>>>>>>
    [] i.op = "jp_hl" -> <<<<"branch", <<"hl", i.cc>>>>>>
    [] i.op = "call" -> <<<<"call", <<Imm16, i.cc>>>>>>
    [] i.op = "rst" -> <<<<"call", <<i.k, i.cc>>>>>>
    [] i.op = "ret" -> <<<<"ret", i.cc>>>>
    [] i.op = "reti" -> <<<<"ret", i.cc>>, <<"ime", 1>>>>

Steps(i) ==
  CASE i \in Arithmetic -> <<Fetch(i.src), <<"alu", i.op>>>>
    [] i.op \in {"inc", "dec"} -> IncDecSteps(i)
    [] i.op \in ShiftOps -> ShiftSteps(i)
    [] i.op = "bit" -> BitSteps(i)
    [] i.op = "set" -> SetSteps(i)
    [] i.op = "res" -> ResSteps(i)
    [] i.op \in {"rlca", "rrca", "rla", "rra"} -> RotateASteps(i)
    [] i.op \in {"cpl", "scf", "ccf"} -> FlagSteps(i)
    [] i.op = "daa" -> <<<<"daa", 0>>>>
    [] i.op \in {"ld_from", "ld_to", "ld_imm"} -> LoadSteps(i)
    [] i.src = "hl" /\ i.op \in {"ldi_to", "ldd_to", "ldi_from", "ldd_from"} -> IndirectSteps(i)
    [] i \in Wide -> WideSteps(i)
    [] i \in Stack -> StackSteps(i)
    [] i \in Jumps -> JumpSteps(i)

Emit(s, u, inBlock) ==
  CASE u[1] = "read_r8" -> ReadR8(s, u[2])
    [] u[1] = "load_byte" -> LoadByte(s)
    [] u[1] = "write_r8" -> WriteR8(s, u[2])
    [] u[1] = "store_byte" -> StoreByte(s, inBlock)
    [] u[1] = "add" -> AddTrunc(s, u[2])
    [] u[1] = "mvn" -> Mvn(s)
    [] u[1] = "update_zero" -> UpdateZero(s)
    [] u[1] = "update_h_inc" -> UpdateHInc(s)
    [] u[1] = "update_h_dec" -> UpdateHDec(s)
    [] u[1] = "set_flag" -> SetFlag(s, u[2][1], u[2][2])
    [] u[1] = "toggle_flag" -> ToggleFlag(s, u[2])
    [] u[1] = "shift" -> Shift(s, u[2], TRUE)
    [] u[1] = "shift_keep_z" -> Shift(s, u[2], FALSE)
    [] u[1] = "bit_test" -> BitTest(s, u[2])
    [] u[1] = "bit_set" -> BitSet(s, u[2])
    [] u[1] = "bit_clear" -> BitClear(s, u[2])
    [] u[1] = "alu" -> Alu8(s, u[2], s.v)
    [] u[1] = "daa" -> Daa(s)
    [] u[1] = "add_pair" -> AddPair(s, u[2][1], u[2][2])
    [] u[1] = "add_hl_rr" -> AddHlRr(s, u[2])
    [] u[1] = "add_sp_e8" -> AddSpE8(s)
    [] u[1] = "ld_hl_sp_e8" -> LdHlSpE8(s)
    [] u[1] = "ld_sp_hl" -> [s EXCEPT !.sp = s.hl]
    [] u[1] = "push_pair" -> PushPair(s, u[2])
    [] u[1] = "pop_pair" -> PopPair(s, u[2][1], u[2][2])
    [] u[1] = "branch" -> Branch(s, CASE u[2][1] = "nn" -> Imm16 [] u[2][1] = "hl" -> s.hl
                                      [] u[2][1] = "e8" -> Word(s.pc + Signed(s.n)), u[2][2])
    [] u[1] = "call" -> Call(s, u[2][1], u[2][2])
    [] u[1] = "ret" -> Ret(s, u[2])
    [] u[1] = "ime" -> [s EXCEPT !.ime = TRUE]

\* PC is past the instruction when its steps run; the steps after a store that
\* left the block do not run.
Begin(s, i) == [s EXCEPT !.pc = Word(@ + Length(i)), !.v = 0, !.left = FALSE]
EmitNext(s, u, inBlock) == IF s.left THEN s ELSE Emit(s, u, inBlock)
Run(s, i, inBlock) ==
  LET steps == Steps(i)
      run[k \in 0..Len(steps)] ==
        IF k = 0 THEN Begin(s, i) ELSE EmitNext(run[k - 1], steps[k], inBlock)
  IN run[Len(steps)]

-----------------------------------------------------------------------------
\* LegacyCpu.Step, on four separate flags

SrcOf(l, src) == CASE src = "a" -> l.a [] src = "b" -> l.b [] src = "hl" -> l.m [] src = "n" -> l.n

WithFlags(l, z, n, h, c) == [l EXCEPT !.fz = z, !.fn = n, !.fh = h, !.fc = c]
WithA(l, a, n, h, c) == [WithFlags(l, Num(a = 0), n, h, c) EXCEPT !.a = a]

LegacyAdd(l, y) == WithA(l, Byte(l.a + y), 0, Num(Nibble(l.a) + Nibble(y) > 15), Num(l.a + y > 255))
LegacyAdc(l, y) ==
  WithA(l, Byte(l.a + Byte(l.fc + y)), 0, Num(Nibble(l.a) + Nibble(y) + l.fc > 15), Num(l.a + y + l.fc > 255))
LegacySub(l, y) == WithA(l, Byte(l.a - y), 1, Num(Nibble(l.a) < Nibble(y)), Num(l.a < y))
LegacySbc(l, y) ==
  WithA(l, Byte(l.a - y - l.fc), 1, Num(Nibble(l.a) < Nibble(y) + l.fc), Num(l.a < y + l.fc))
LegacyAnd(l, y) == WithA(l, And(l.a, y), 0, 1, 0)
LegacyOr(l, y) == WithA(l, Or(l.a, y), 0, 0, 0)
LegacyXor(l, y) == WithA(l, Xor(l.a, y), 0, 0, 0)
LegacyCp(l, y) == WithFlags(l, Num(l.a = y), 1, Num(Nibble(l.a) < Nibble(y)), Num(l.a < y))

Put(l, src, v) == IF src = "hl" THEN WriteByte(l, v) ELSE [l EXCEPT !.b = v]

LegacyInc(l, src) ==
  LET v == Byte(SrcOf(l, src) + 1)
  IN Put(WithFlags(l, Num(v = 0), 0, Num(Nibble(v) = 0), l.fc), src, v)
LegacyDec(l, src) ==
  LET v == Byte(SrcOf(l, src) - 1)
  IN WithFlags(Put(l, src, v), Num(v = 0), 1, Num(Nibble(v) = 15), l.fc)

LegacyDaa(l) ==
  LET low == IF l.fh = 1 \/ Nibble(l.a) > 9 THEN l.a + 6 ELSE l.a
      plus == IF l.fc = 1 \/ low > 159 THEN low + 96 ELSE low
      down == IF l.fh = 1 THEN Byte(l.a - 6) ELSE l.a
      minus == IF l.fc = 1 THEN Word(down - 96) ELSE down
      t == IF l.fn = 0 THEN plus ELSE minus
  IN WithA(l, Byte(t), l.fn, 0, IF Bit(t, 8) = 1 THEN 1 ELSE l.fc)

LegacyFlagOp(l, op) ==
  CASE op = "cpl" -> [WithFlags(l, l.fz, 1, 1, l.fc) EXCEPT !.a = 255 - @]
    [] op = "ccf" -> WithFlags(l, l.fz, 0, 0, 1 - l.fc)
    [] op = "scf" -> WithFlags(l, l.fz, 0, 0, 1)

LegacyAddHl(l, pair) ==
  LET rr == IF pair = "hl" THEN l.hl ELSE l.sp
  IN [WithFlags(l, l.fz, 0, Carry11(rr, l.hl), Carry15(rr, l.hl)) EXCEPT !.hl = Word(rr + l.hl)]

\* Carries of SP plus a signed byte, read off SP ^ e ^ result
SignedCarries(l) ==
  LET x == Xor(Xor(l.sp, Word(Signed(l.n))), Word(l.sp + Signed(l.n)))
  IN WithFlags(l, 0, 0, Bit(x, 4), Bit(x, 8))
LegacyAddSp(l) == [SignedCarries(l) EXCEPT !.sp = Word(@ + Signed(l.n))]
LegacyLdHlSp(l) == [SignedCarries(l) EXCEPT !.hl = Word(l.sp + Signed(l.n))]

LegacyIncDec16(l, pair, d) ==
  IF pair = "hl" THEN [l EXCEPT !.hl = Word(@ + d)] ELSE [l EXCEPT !.sp = Word(@ + d)]

LegacyLoad(l, i) ==
  CASE i.op = "ld_from" -> [l EXCEPT !.a = SrcOf(l, i.src)]
    [] i.op = "ld_imm" -> Put(l, i.src, l.n)
    [] i.op = "ld_to" -> Put(l, i.src, l.a)

LegacyIndirect(l, op) ==
  LET d == IF op \in {"ldi_to", "ldi_from"} THEN 1 ELSE -1
      moved == IF op \in {"ldi_to", "ldd_to"} THEN WriteByte(l, l.a) ELSE [l EXCEPT !.a = l.m]
  IN [moved EXCEPT !.hl = Word(@ + d)]

LegacyStack(l, i) ==
  CASE i.op = "push" ->
         [l EXCEPT !.sp = Word(@ - 2),
                   !.top = IF i.src = "af" THEN 256 * l.a + StoreFlags(l.fz, l.fn, l.fh, l.fc) ELSE l.hl]
    [] i.op = "pop" /\ i.src = "af" ->
         [WithFlags(l, Bit(l.top, 7), Bit(l.top, 6), Bit(l.top, 5), Bit(l.top, 4))
            EXCEPT !.a = l.top \div 256, !.sp = Word(@ + 2)]
    [] i.op = "pop" /\ i.src = "hl" -> [l EXCEPT !.hl = l.top, !.sp = Word(@ + 2)]

LegacyTaken(l, cc) ==
  \/ cc = "always"
  \/ cc = "nz" /\ l.fz = 0
  \/ cc = "z" /\ l.fz = 1
  \/ cc = "nc" /\ l.fc = 0
  \/ cc = "c" /\ l.fc = 1

LegacyJump(l, i) ==
  LET target == CASE i.op = "jp" -> Imm16 [] i.op = "jr" -> Word(l.pc + Signed(l.n)) [] i.op = "jp_hl" -> l.hl
  IN IF LegacyTaken(l, i.cc) THEN [l EXCEPT !.pc = target] ELSE l
LegacyPush(l, target) == [l EXCEPT !.sp = Word(@ - 2), !.top = l.pc, !.pc = target]
LegacyCall(l, cc) == IF LegacyTaken(l, cc) THEN LegacyPush(l, Imm16) ELSE l
LegacyRst(l, vector) == LegacyPush(l, vector)
LegacyRet(l, i) ==
  IF ~LegacyTaken(l, i.cc) THEN l
  ELSE [l EXCEPT !.pc = l.top, !.sp = Word(@ + 2), !.ime = @ \/ i.op = "reti"]

LegacyRotateA(l, op) ==
  LET left == op \in {"rlca", "rla"}
      out == IF left THEN Bit(l.a, 7) ELSE l.a % 2
      in == IF op \in {"rlca", "rrca"} THEN out ELSE l.fc
  IN [WithFlags(l, 0, 0, 0, out) EXCEPT !.a = IF left THEN Byte(2 * @) + in ELSE Half(@) + 128 * in]

LegacyBit(l, i) == WithFlags(l, 1 - Bit(SrcOf(l, i.src), i.k), 0, 1, l.fc)
LegacySet(l, i) == Put(l, i.src, WithBit(SrcOf(l, i.src), i.k, 1))
LegacyRes(l, i) == Put(l, i.src, WithBit(SrcOf(l, i.src), i.k, 0))

\* Shifts: Z is taken from the computed value, or from the location read again.
FromValue(l, src, v, c) == WithFlags(Put(l, src, v), Num(v = 0), 0, 0, c)
FromReread(l, src, v, c) ==
  LET w == Put(l, src, v) IN WithFlags(w, Num(SrcOf(w, src) = 0), 0, 0, c)

LegacyRlc(l, src) == LET x == SrcOf(l, src) IN FromValue(l, src, Byte(2 * x) + Bit(x, 7), Bit(x, 7))
LegacyRrc(l, src) == LET x == SrcOf(l, src) IN FromReread(l, src, Half(x) + 128 * (x % 2), x % 2)
LegacyRl(l, src) == LET x == SrcOf(l, src) IN FromReread(l, src, Byte(2 * x) + l.fc, Bit(x, 7))
LegacyRr(l, src) == LET x == SrcOf(l, src) IN FromValue(l, src, Half(x) + 128 * l.fc, x % 2)
\* Written twice: shifted, then read again and its low bit cleared
LegacySla(l, src) ==
  LET x == SrcOf(l, src)
      once == Put(l, src, Byte(2 * x))
  IN FromReread(once, src, And(SrcOf(once, src), 254), Bit(x, 7))
LegacySra(l, src) == LET x == SrcOf(l, src) IN FromValue(l, src, Half(x) + 128 * Bit(x, 7), x % 2)
LegacySwap(l, src) == LET x == SrcOf(l, src) IN FromValue(l, src, 16 * Nibble(x) + (x \div 16), 0)
LegacySrl(l, src) == LET x == SrcOf(l, src) IN FromValue(l, src, Half(x), x % 2)

LegacyAlu(l, op, y) ==
  CASE op = "add" -> LegacyAdd(l, y) [] op = "adc" -> LegacyAdc(l, y)
    [] op = "sub" -> LegacySub(l, y) [] op = "sbc" -> LegacySbc(l, y)
    [] op = "and" -> LegacyAnd(l, y) [] op = "or" -> LegacyOr(l, y)
    [] op = "xor" -> LegacyXor(l, y) [] op = "cp" -> LegacyCp(l, y)

LegacyShift(l, op, src) ==
  CASE op = "rlc" -> LegacyRlc(l, src) [] op = "rrc" -> LegacyRrc(l, src)
    [] op = "rl" -> LegacyRl(l, src)   [] op = "rr" -> LegacyRr(l, src)
    [] op = "sla" -> LegacySla(l, src) [] op = "sra" -> LegacySra(l, src)
    [] op = "swap" -> LegacySwap(l, src) [] op = "srl" -> LegacySrl(l, src)

LegacyWide(l, i) ==
  CASE i.op = "inc16" -> LegacyIncDec16(l, i.src, 1) [] i.op = "dec16" -> LegacyIncDec16(l, i.src, -1)
    [] i.op = "add_hl" -> LegacyAddHl(l, i.src) [] i.op = "add_sp" -> LegacyAddSp(l)
    [] i.op = "ldhl" -> LegacyLdHlSp(l) [] i.op = "ld_sp_hl" -> [l EXCEPT !.sp = l.hl]

LegacyStep(l0, i) ==
  LET l == [l0 EXCEPT !.pc = Word(@ + Length(i))]
  IN CASE i \in Arithmetic -> LegacyAlu(l, i.op, SrcOf(l, i.src))
       [] i.op = "inc" -> LegacyInc(l, i.src)
       [] i.op = "dec" -> LegacyDec(l, i.src)
       [] i.op \in ShiftOps -> LegacyShift(l, i.op, i.src)
       [] i.op = "bit" -> LegacyBit(l, i)
       [] i.op = "set" -> LegacySet(l, i)
       [] i.op = "res" -> LegacyRes(l, i)
       [] i.op \in {"rlca", "rrca", "rla", "rra"} -> LegacyRotateA(l, i.op)
       [] i.op \in {"cpl", "scf", "ccf"} -> LegacyFlagOp(l, i.op)
       [] i.op = "daa" -> LegacyDaa(l)
       [] i.op \in {"ld_from", "ld_to", "ld_imm"} -> LegacyLoad(l, i)
       [] i.op \in {"ldi_to", "ldd_to", "ldi_from", "ldd_from"} -> LegacyIndirect(l, i.op)
       [] i \in Wide -> LegacyWide(l, i)
       [] i \in Stack -> LegacyStack(l, i)
       [] i.op \in {"jp", "jr", "jp_hl"} -> LegacyJump(l, i)
       [] i.op = "call" -> LegacyCall(l, i.cc)
       [] i.op = "rst" -> LegacyRst(l, i.k)
       [] i.op \in {"ret", "reti"} -> LegacyRet(l, i)

-----------------------------------------------------------------------------
\* One instruction from any state of the registers it reads, in the three
\* engines, and a decimal adjustment after an addition or subtraction

AllFlags == {16 * q : q \in 0..15}
Plain == 49152

Inputs(i) ==
  [a : CASE i \in Decimal -> 0..255 [] i \in Arithmetic \cup Loads \cup OnA \cup Stack -> Bytes [] OTHER -> {90},
   x : IF i \in OnA \cup Decimal \cup Stack \/ i.src = "a" \/ (i \in Jumps /\ i.op # "jr") THEN {0} ELSE Bytes,
   f : AllFlags,
   hl : CASE i \in Wide \cup Stack \/ i.op = "jp_hl" -> Words
          [] i.src = "hl" /\ i \notin Arithmetic -> Addresses
          [] OTHER -> {Plain},
   sp : CASE i \in Wide -> Words [] i \in Stack \cup Jumps -> StackWords [] OTHER -> {Plain},
   top : IF i.op \in {"pop", "ret", "reti"} THEN Words ELSE {0},
   pc : IF i \in Jumps THEN Pcs ELSE {Plain}]

\* The byte at HL is one the location can hold.
Memory(q) == IF q.hl < 32768 \/ q.hl = 65284 THEN q.x ELSE ReadBack(q.hl, 0, q.x)

JsonState(q) ==
  [a |-> q.a, b |-> q.x, f |-> q.f, hl |-> q.hl, sp |-> q.sp, pc |-> q.pc, n |-> q.x, at |-> q.hl,
   m |-> Memory(q), latch |-> 0, top |-> q.top, ime |-> FALSE, v |-> 0, left |-> FALSE]

LegacyState(q) ==
  [a |-> q.a, b |-> q.x, fz |-> Bit(q.f, Z), fn |-> Bit(q.f, N), fh |-> Bit(q.f, H), fc |-> Bit(q.f, C),
   hl |-> q.hl, sp |-> q.sp, pc |-> q.pc, n |-> q.x, at |-> q.hl, m |-> Memory(q), latch |-> 0,
   top |-> q.top, ime |-> FALSE]

Init == /\ ins \in Instructions
        /\ start \in Inputs(ins)
        /\ json = JsonState(start)
        /\ block = json
        /\ legacy = LegacyState(start)
        /\ done = 0

Perform(i) == /\ json' = Run(json, i, FALSE)
              /\ block' = Run(block, i, TRUE)
              /\ legacy' = LegacyStep(legacy, i)
              /\ done' = done + 1
              /\ UNCHANGED <<ins, start>>

Step == done = 0 /\ Perform(ins)

\* A program that works in decimal adjusts after it added or subtracted.
Adjust == done = 1 /\ ins.op \in {"add", "adc", "sub", "sbc"} /\ \E i \in Decimal : Perform(i)

Next == Step \/ Adjust

Spec == Init /\ [][Next]_vars

-----------------------------------------------------------------------------
\* Properties

\* Every register keeps its width: no micro-operation or LegacyCpu formula
\* stores a carry, a borrow or a stray low bit of F.
WidthsKept ==
  /\ {json.a, json.b, json.m, json.v, legacy.a, legacy.b, legacy.m} \subseteq B8
  /\ {json.hl, json.sp, json.pc, json.top} \subseteq B16
  /\ json.f \in AllFlags
  /\ {legacy.hl, legacy.sp, legacy.pc, legacy.top} \subseteq B16

Common == {"a", "b", "hl", "sp", "pc", "m", "latch", "top", "ime"}

\* LegacyCpu takes Z of these shifts from the location read again, where the
\* emitters use the value computed: not the same where a location does not
\* hold what was written.
Rereads == ins.op \in {"rrc", "rl", "sla"} /\ ins.src = "hl" /\ (start.hl < 32768 \/ start.hl \in 65280..65407)

\* CpuDiff.Run: after every instruction JsonCpu and LegacyCpu hold the same
\* registers, flags, memory and program counter, within their widths, but for
\* the shifts that LegacyCpu reads again.
CpusAgree ==
  /\ WidthsKept
  /\ ~Rereads => /\ \A field \in Common : json[field] = legacy[field]
                 /\ json.f = StoreFlags(legacy.fz, legacy.fn, legacy.fh, legacy.fc)

\* CpuDiff.RunBjitVsPerInstr: an instruction whose store leaves the compiled
\* block has then done everything it does one instruction at a time.  The
\* order of the micro-operation lists is what makes it so.
BlockAgrees == \A field \in Common \cup {"f"} : block[field] = json[field]

IsBcd(x) == Nibble(x) < 10 /\ x \div 16 < 10
FromBcd(x) == 10 * (x \div 16) + Nibble(x)
ToBcd(d) == 16 * (d \div 10) + (d % 10)

\* Addition or subtraction of two decimal bytes followed by DAA leaves the
\* decimal result in A and its carry or borrow in the carry flag, as
\* Lr35902DaaEmitter computes it from the flags the ALU emitter left behind.
DecimalResult ==
  LET y == IF ins.src = "a" THEN start.a ELSE start.x
      cIn == IF ins.op \in {"adc", "sbc"} THEN Bit(start.f, C) ELSE 0
      d == IF ins.op \in AddOps THEN FromBcd(start.a) + FromBcd(y) + cIn
                                ELSE FromBcd(start.a) - FromBcd(y) - cIn
  IN (done = 2 /\ IsBcd(start.a) /\ IsBcd(y)) =>
        json.a = ToBcd(d % 100) /\ Bit(json.f, C) = Num(d \notin 0..99)

=============================================================================
