---------------------------- MODULE MCGbaSystem ----------------------------
(* A small instance of GbaSystem for TLC. *)
EXTENDS GbaSystem

\* Each timing, with an interrupt at the end.
MCTransfers == [when : {"Now", "HBlank", "VBlank"}, irq : {TRUE}]

\* A unit from I/O, which asks for a catch-up; two units to I/O, of which the
\* first may disable the channel and the second enable it again, so that its
\* transfer runs inside itself.
MCCopies ==
    {[from |-> "Io", to |-> "Memory", units |-> 1],
     [from |-> "Memory", to |-> "Io", units |-> 2]}
=============================================================================
