------------------------------- MODULE ArmBanks -------------------------------
(* The ARM7TDMI register file as Arm7tdmiBankSwapHandler keeps it: one visible
   set of registers in the CPU state, a bank per privileged mode next to it and
   two "sidecars" inside the handler, shuffled on every change of CPSR.M by the
   instructions and by the IRQ entry of GbaSystemRunner. *)
EXTENDS Naturals

CONSTANTS Mode,       \* the modes of spec/cpu/arm7tdmi/cpu.json
          Reg,        \* the registers followed
          Value,
          Thrower     \* modes an instruction can raise an exception into

ASSUME ModeAssumption == {"User", "System", "FIQ", "IRQ"} \subseteq Mode
ASSUME RegAssumption == Reg \subseteq 0 .. 14 /\ 14 \in Reg
ASSUME ThrowerAssumption == Thrower \subseteq Mode \ {"User", "System"}

VARIABLES cpsr,       \* CPSR.M
          gpr,        \* the visible registers
          bank,       \* the spec's banked registers of each mode
          nonFiq,     \* _nonFiqR8R12
          userSystem, \* _userSystemR13R14
          spsr,       \* SPSR.M of each mode that has one
          out         \* what the last register read returned

registers == <<gpr, bank, nonFiq, userSystem>>
bankVars == <<cpsr, gpr, bank, nonFiq, userSystem, spsr, out>>

\* M[4:0] of an SPSR no exception has written yet: zero, which is no mode.
None == "none"

\* Modes with entries in banked_registers (ModeR13R14Slot.HasSpecBank).
Banked == Mode \ {"User", "System"}

BanksTypeOK ==
    /\ cpsr \in Mode
    /\ gpr \in [Reg -> Value]
    /\ bank \in [Banked -> [Reg -> Value]]
    /\ nonFiq \in [Reg -> Value]
    /\ userSystem \in [Reg -> Value]
    /\ spsr \in [Banked -> Mode \cup {None}]
    /\ out \in Value

\* Zeroed state; the runner writes CPSR without a swap, to Supervisor when it
\* boots a BIOS image and to System when it does not.
BanksInit ==
    /\ cpsr \in {"Supervisor", "System"} \cap Mode
    /\ \E zero \in Value :
         /\ gpr = [r \in Reg |-> zero]
         /\ bank = [m \in Banked |-> gpr]
         /\ nonFiq = gpr /\ userSystem = gpr
         /\ out = zero
    /\ spsr = [m \in Banked |-> None]

-----------------------------------------------------------------------------
(* SwapBank, from the banks b it starts with. *)

FiqBoundary(old, new) == (old = "FIQ") # (new = "FIQ")

\* SaveR13R14 and, leaving FIQ, the copy of R8-R12 to the FIQ bank.
Saved(b, old) ==
    IF old \in Banked
    THEN [b EXCEPT ![old] =
            [r \in Reg |-> IF r \in {13, 14} \/ (r \in 8 .. 12 /\ old = "FIQ")
                           THEN gpr[r] ELSE @[r]]]
    ELSE b

\* Bug: a bank listed without registers, as System's is, counts as a bank.
SavedUserBySpec(old) ==
    IF old = "User" THEN [r \in Reg |-> IF r \in {13, 14} THEN gpr[r] ELSE userSystem[r]]
                    ELSE userSystem

SavedUser(old) ==
    IF old \in Banked
    THEN userSystem
    ELSE [r \in Reg |-> IF r \in {13, 14} THEN gpr[r] ELSE userSystem[r]]

\* LoadR13R14 and, across the FIQ boundary, the load of R8-R12.
Loaded(b, user, old, new) ==
    [r \in Reg |->
       IF r \in {13, 14} THEN IF new \in Banked THEN b[new][r] ELSE user[r]
       ELSE IF r \in 8 .. 12 /\ FiqBoundary(old, new)
            THEN IF new = "FIQ" THEN b["FIQ"][r] ELSE nonFiq[r]
       ELSE gpr[r]]

Swapped(b, old, new) ==
    IF old = new
    THEN [gpr |-> gpr, bank |-> b, nonFiq |-> nonFiq, userSystem |-> userSystem]
    ELSE [gpr |-> Loaded(Saved(b, old), SavedUser(old), old, new),
          bank |-> Saved(b, old),
          nonFiq |-> IF new = "FIQ"
                     THEN [r \in Reg |-> IF r \in 8 .. 12 THEN gpr[r] ELSE nonFiq[r]]
                     ELSE nonFiq,
          userSystem |-> SavedUser(old)]

SwapBank(s) ==
    /\ gpr' = s.gpr
    /\ bank' = s.bank
    /\ nonFiq' = s.nonFiq
    /\ userSystem' = s.userSystem

-----------------------------------------------------------------------------
(* Instructions, and the IRQ entry of the system runner. *)

ReadReg(r) ==
    /\ out' = gpr[r]
    /\ UNCHANGED <<cpsr, registers, spsr>>

WriteReg(r, v) ==
    /\ gpr' = [gpr EXCEPT ![r] = v]
    /\ UNCHANGED <<cpsr, bank, nonFiq, userSystem, spsr, out>>

\* STM with the S bit reads through the User view,
ReadUserModeReg(r) ==
    /\ out' = IF \/ r < 8
                 \/ r \in 8 .. 12 /\ cpsr # "FIQ"
                 \/ r \in {13, 14} /\ cpsr \notin Banked
              THEN gpr[r]
              ELSE IF r \in 8 .. 12 THEN nonFiq[r] ELSE userSystem[r]
    /\ UNCHANGED <<cpsr, registers, spsr>>

\* and LDM with the S bit writes through it.
WriteUserModeReg(r, v) ==
    /\ IF \/ r < 8
          \/ r \in 8 .. 12 /\ cpsr # "FIQ"
          \/ r \in {13, 14} /\ cpsr \notin Banked
       THEN gpr' = [gpr EXCEPT ![r] = v] /\ UNCHANGED <<nonFiq, userSystem>>
       ELSE IF r \in 8 .. 12
            THEN nonFiq' = [nonFiq EXCEPT ![r] = v] /\ UNCHANGED <<gpr, userSystem>>
            ELSE userSystem' = [userSystem EXCEPT ![r] = v] /\ UNCHANGED <<gpr, nonFiq>>
    /\ UNCHANGED <<cpsr, bank, spsr, out>>

\* MSR CPSR_c; the encoding's P bit is not decoded, so MSR SPSR_c is this too.
WritePsr(m) ==
    /\ cpsr' = m
    /\ SwapBank(Swapped(bank, cpsr, m))
    /\ UNCHANGED <<spsr, out>>

\* Bug: no default arm for the modes without an SPSR.
RestoreNoDefault ==
    /\ cpsr \in Banked => spsr[cpsr] # None
    /\ cpsr' = IF cpsr \in Banked THEN spsr[cpsr] ELSE None
    /\ SwapBank(Swapped(bank, cpsr, cpsr'))
    /\ UNCHANGED <<spsr, out>>

\* SUBS PC, LR and the other S-bit writes of PC.  A mode without an SPSR takes
\* the default arm.  The program returns only from an exception it has entered.
RestoreCpsrFromSpsr ==
    /\ cpsr \in Banked => spsr[cpsr] # None
    /\ cpsr' = IF cpsr \in Banked THEN spsr[cpsr] ELSE cpsr
    /\ SwapBank(Swapped(bank, cpsr, cpsr'))
    /\ UNCHANGED <<spsr, out>>

\* SWI: R14 of the entered mode is written in its bank, and then the banks are
\* swapped.
RaiseException(m, ret) ==
    /\ spsr' = [spsr EXCEPT ![m] = cpsr]
    /\ cpsr' = m
    /\ SwapBank(Swapped([bank EXCEPT ![m][14] = ret], cpsr, m))
    /\ UNCHANGED out

\* DeliverIrqIfPending, once an enabled request is pending and the I bit clear:
\* the banks are swapped, and then the visible R14 written.  The I bit is not
\* part of this state, so delivery is possible in any mode, IRQ included.
DeliverIrqIfPending(ret) ==
    /\ spsr' = [spsr EXCEPT !["IRQ"] = cpsr]
    /\ cpsr' = "IRQ"
    /\ SwapBank([Swapped(bank, cpsr, "IRQ") EXCEPT !.gpr[14] = ret])
    /\ UNCHANGED out

BanksNext ==
    \/ \E r \in Reg : ReadReg(r) \/ ReadUserModeReg(r)
    \/ \E r \in Reg, v \in Value : WriteReg(r, v) \/ WriteUserModeReg(r, v)
    \/ \E m \in Mode : WritePsr(m)
    \/ RestoreCpsrFromSpsr
    \/ \E m \in Thrower, v \in Value : RaiseException(m, v)
    \/ \E v \in Value : DeliverIrqIfPending(v)

BanksSpec == BanksInit /\ [][BanksNext]_bankVars

-----------------------------------------------------------------------------
(* Properties. *)

\* Register r as mode m will see it when it is next current.
ViewOf(m, r) ==
    IF r \in 8 .. 12
    THEN IF FiqBoundary(m, cpsr) THEN IF m = "FIQ" THEN bank["FIQ"][r] ELSE nonFiq[r]
                                 ELSE gpr[r]
    ELSE IF r \in {13, 14} /\ m # cpsr /\ ~ ({m, cpsr} \subseteq {"User", "System"})
         THEN IF m \in Banked THEN bank[m][r] ELSE userSystem[r]
    ELSE gpr[r]

Files == INSTANCE ArmRegisterFiles WITH
             mode <- cpsr, saved <- spsr,
             view <- [m \in Mode |-> [r \in Reg |-> ViewOf(m, r)]]

RaisedInPlace == cpsr \in Thrower /\ \E v \in Value : RaiseException(cpsr, v)

\* The shuffled registers implement one register file per mode: every step of
\* an instruction or of the IRQ entry is a step of ArmRegisterFiles, so no
\* change of mode loses or leaks a register, the S-bit transfers reach User's
\* registers from any mode, and a handler finds its return address in R14.
\* Left out: an exception raised by an instruction into the current mode, whose
\* return address goes to the bank, where no handler of that mode looks before
\* the visible R14 overwrites it.
ImplementsRegisterFiles == [][RaisedInPlace \/ Files!Next]_bankVars
=============================================================================
