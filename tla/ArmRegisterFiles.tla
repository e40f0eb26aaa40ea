-------------------------- MODULE ArmRegisterFiles --------------------------
(* What Arm7tdmiBankSwapHandler promises: every processor mode has a register
   file of its own, and two modes share a register exactly where the
   architecture says they do.  `view[m][r]` is register r as mode m sees it. *)
EXTENDS Naturals

CONSTANTS Mode,       \* processor modes, by their ids in spec/cpu/arm7tdmi
          Reg,        \* the registers followed, a subset of 0 .. 14
          Value

VARIABLES mode,       \* CPSR.M
          view,       \* [Mode -> [Reg -> Value]]
          saved,      \* SPSR.M of each mode that has one
          out         \* the value the last read returned

vars == <<mode, view, saved, out>>

Privileged == Mode \ {"User", "System"}

\* Modes m and n name the same storage when they say register r.
Shared(m, n, r) ==
    \/ m = n
    \/ r \notin 8 .. 14
    \/ r \in 8 .. 12 /\ m # "FIQ" /\ n # "FIQ"
    \/ {m, n} \subseteq {"User", "System"}

Assigned(m, r, v) ==
    [n \in Mode |-> [q \in Reg |-> IF q = r /\ Shared(m, n, r) THEN v ELSE view[n][q]]]

\* A read or a write of a register as mode m sees it: the current mode's for
\* ordinary instructions, User's for LDM and STM with the S bit.
Read(m, r) ==
    /\ UNCHANGED <<mode, saved, view>>
    /\ out' = view[m][r]

Write(m, r, v) ==
    /\ UNCHANGED <<mode, saved, out>>
    /\ view' = Assigned(m, r, v)

\* A change of mode moves no register.
Switch(m) ==
    /\ mode' = m
    /\ UNCHANGED <<saved, out, view>>

\* An exception: the handler's mode finds the return address in its own R14
\* and the interrupted mode in its own SPSR.
Enter(m, ret) ==
    /\ mode' = m
    /\ saved' = [saved EXCEPT ![m] = mode]
    /\ UNCHANGED out
    /\ view' = Assigned(m, 14, ret)

Next ==
    \/ \E r \in Reg : Read(mode, r) \/ Read("User", r)
    \/ \E r \in Reg, v \in Value : Write(mode, r, v) \/ Write("User", r, v)
    \/ \E m \in Mode : Switch(m)
    \/ \E m \in Privileged, v \in Value : Enter(m, v)
=============================================================================
