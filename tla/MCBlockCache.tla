---------------------------- MODULE MCBlockCache ----------------------------
(* Small instances of BlockCache for TLC. *)
EXTENDS BlockCache

R(l, h) == [lo |-> l, hi |-> h]

\* Overlapping blocks: two straight-line ones sharing a byte, one that follows
\* a jump over a gap, and two alternatives for the same start PC, as when the
\* bytes at that PC were rewritten and the block recompiled.
OverlappingShapes ==
    { [pc |-> 0, cover |-> <<R(0, 1), R(1, 3)>>],
      [pc |-> 0, cover |-> <<R(0, 2)>>],
      [pc |-> 1, cover |-> <<R(1, 3)>>],
      [pc |-> 2, cover |-> <<R(2, 3), R(4, 5)>>],
      [pc |-> 3, cover |-> <<R(3, 4), R(0, 1)>>] }

\* Straight-line blocks of a guest with more memory than AddressSpace, as the
\* 20-bit linear PCs of the x86 CPU are to the default 64 KB of counters.
LinearShapes ==
    { [pc |-> 1, cover |-> <<R(1, 2), R(2, 4)>>],
      [pc |-> 4, cover |-> <<R(4, 5), R(5, 6)>>] }
=============================================================================
