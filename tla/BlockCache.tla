----------------------------- MODULE BlockCache -----------------------------
(***************************************************************************)
(* The block cache of the JIT (AprCpu.Core/Runtime/BlockCache.cs): compiled *)
(* blocks keyed by start PC, kept in least-recently-used order, with one    *)
(* saturating counter per page of guest memory that lets a memory write     *)
(* skip the scan for stale translations when no cached block covers it.     *)
(*                                                                          *)
(* Data is abstracted to what staleness depends on.  A Shape is what        *)
(* BlockDetector returns for one start PC: the byte ranges [lo, hi) of the  *)
(* block's instructions (for a legacy block without per-instruction arrays, *)
(* the one convex hull).  A cached block is a shape plus the guest bytes it *)
(* was translated from.  The cache is used by the emulator thread only, so  *)
(* each public method, and each "store a byte, then NotifyMemoryWrite" of   *)
(* the memory-write externs, is one step.                                   *)
(***************************************************************************)
EXTENDS Integers, Sequences, FiniteSets

CONSTANTS
    MemSize,        \* bytes of guest memory that instructions are fetched from
    AddressSpace,   \* addressSpaceBytes: what the counters were sized for
    PageSize,       \* 2^pageShift
    Capacity,       \* _capacity
    MaxCount,       \* byte.MaxValue: where a counter saturates
    Byte,           \* values a byte of guest memory may hold
    Shape           \* [pc, cover]: what the detector may return

Addr == 0 .. MemSize - 1

PageCount == (AddressSpace + PageSize - 1) \div PageSize

Page == 0 .. PageCount - 1

PC == {s.pc : s \in Shape}

ASSUME SizeAssumption ==
    /\ MemSize \in Nat /\ AddressSpace \in Nat
    /\ PageSize \in Nat \ {0}
    /\ Capacity \in Nat \ {0}
    /\ MaxCount \in Nat \ {0}

ASSUME ShapeAssumption ==
    \A s \in Shape :
        /\ s.pc \in Nat
        /\ s.cover \in Seq([lo : Nat, hi : 0 .. MemSize])

VARIABLES
    map,        \* _map: start PC -> cached block
    lru,        \* _lru: start PC -> position of its node, 1 = head = MRU
    coverage,   \* _coverageCount
    mem,        \* guest memory
    saturated   \* history: pages that lost an increment since the last Clear

vars == <<map, lru, coverage, mem, saturated>>

-----------------------------------------------------------------------------
(* Coverage of a block. *)

PageOf(a) == a \div PageSize

\* Mutant of BumpRange: the last page of a range is left out.
BumpRangeShort(r) ==
    {p \in Page : r.lo < r.hi /\ PageOf(r.lo) <= p /\ p < PageOf(r.hi - 1)}

\* The pages BumpRange visits for one range, clipped to the counter array.
BumpRange(r) ==
    {p \in Page : r.lo < r.hi /\ PageOf(r.lo) <= p /\ p <= PageOf(r.hi - 1)}

BlockCoversAddr(b, a) == \E i \in DOMAIN b.cover : b.cover[i].lo <= a /\ a < b.cover[i].hi

Bytes(s) == {a \in Addr : BlockCoversAddr(s, a)}

\* Every (block, range) pair of the map m that touches page p: the bumps that
\* IncrementCoverage / DecrementCoverage make to one counter for those blocks.
Touches(m, p) ==
    UNION {{<<q, i>> : i \in {j \in DOMAIN m[q].cover : p \in BumpRange(m[q].cover[j])}}
              : q \in DOMAIN m}

Bumps(m, p) == Cardinality(Touches(m, p))

IncrementCoverage(cov, m) ==
    [p \in Page |-> IF cov[p] + Bumps(m, p) > MaxCount THEN MaxCount ELSE cov[p] + Bumps(m, p)]

\* Mutant of DecrementCoverage: no saturation at zero.
DecrementCoverageUnderflow(cov, m) == [p \in Page |-> cov[p] - Bumps(m, p)]

DecrementCoverage(cov, m) ==
    [p \in Page |-> IF cov[p] < Bumps(m, p) THEN 0 ELSE cov[p] - Bumps(m, p)]

\* Pages on which IncrementCoverage(cov, m) stops at MaxCount and loses bumps.
Lost(cov, m) == {p \in Page : cov[p] + Bumps(m, p) > MaxCount}

-----------------------------------------------------------------------------
(* The recency list, as the position of each node. *)

\* Mutant of MoveToFront: the node is linked at the head but not unlinked first.
MoveToFrontTwice(l, pc) ==
    [q \in DOMAIN l \cup {pc} |-> IF q = pc THEN 1 ELSE l[q] + 1]

\* AddFirst for a new node, Remove + AddFirst for one already linked.
MoveToFront(l, pc) ==
    [q \in DOMAIN l \cup {pc} |->
        CASE q = pc -> 1
          [] q # pc /\ (pc \notin DOMAIN l \/ l[q] < l[pc]) -> l[q] + 1
          [] OTHER -> l[q]]

Unlink(l, S) ==
    [q \in DOMAIN l \ S |-> l[q] - Cardinality({r \in S \cap DOMAIN l : l[r] < l[q]})]

\* _lru.Last
LruTail(l) == CHOOSE q \in DOMAIN l : \A r \in DOMAIN l : l[r] <= l[q]

-----------------------------------------------------------------------------
Entry(pc, b) == [q \in {pc} |-> b]

Put(m, pc, b) == [q \in DOMAIN m \cup {pc} |-> IF q = pc THEN b ELSE m[q]]

Only(m, S) == [q \in DOMAIN m \cap S |-> m[q]]

Except(m, S) == [q \in DOMAIN m \ S |-> m[q]]

\* The translation: the shape together with the bytes the emitters read.
Compile(s) == [cover |-> s.cover, code |-> [a \in Bytes(s) |-> mem[a]]]

Init ==
    /\ map = [q \in {} |-> {}]
    /\ lru = [q \in {} |-> 0]
    /\ coverage = [p \in Page |-> 0]
    /\ mem \in [Addr -> Byte]
    /\ saturated = {}

\* Mutant of TryGet: a hit does not promote the entry.
TryGetNoPromote(pc) == pc \in DOMAIN map /\ UNCHANGED vars

\* A hit promotes the entry; a miss changes nothing.
TryGet(pc) ==
    /\ pc \in DOMAIN map
    /\ lru' = MoveToFront(lru, pc)
    /\ UNCHANGED <<map, coverage, mem, saturated>>

\* Mutant of AddExisting: the replaced block's coverage is not taken back.
AddExistingLeaky(pc, b) ==
    /\ pc \in DOMAIN map
    /\ map' = Put(map, pc, b)
    /\ lru' = MoveToFront(lru, pc)
    /\ coverage' = IncrementCoverage(coverage, Entry(pc, b))
    /\ saturated' = saturated \cup Lost(coverage, Entry(pc, b))

\* Compile the block at pc and Add it where an entry for pc exists.
AddExisting(pc, b) ==
    LET old == DecrementCoverage(coverage, Entry(pc, map[pc]))
    IN  /\ pc \in DOMAIN map
        /\ map' = Put(map, pc, b)
        /\ lru' = MoveToFront(lru, pc)
        /\ coverage' = IncrementCoverage(old, Entry(pc, b))
        /\ saturated' = saturated \cup Lost(old, Entry(pc, b))

\* Add for a new pc: link at the head, then drop the tail when over capacity.
AddNew(pc, b) ==
    LET m    == Put(map, pc, b)
        l    == MoveToFront(lru, pc)
        c    == IncrementCoverage(coverage, Entry(pc, b))
        tail == IF Cardinality(DOMAIN m) > Capacity THEN {LruTail(l)} ELSE {}
    IN  /\ pc \notin DOMAIN map
        /\ map' = Except(m, tail)
        /\ lru' = Unlink(l, tail)
        /\ coverage' = DecrementCoverage(c, Only(m, tail))
        /\ saturated' = saturated \cup Lost(coverage, Entry(pc, b))

Add(s) ==
    /\ AddExisting(s.pc, Compile(s)) \/ AddNew(s.pc, Compile(s))
    /\ UNCHANGED mem

\* Drop the blocks at S: Invalidate once for each of them.
Drop(S) ==
    /\ map' = Except(map, S)
    /\ lru' = Unlink(lru, S)
    /\ coverage' = DecrementCoverage(coverage, Only(map, S))
    /\ UNCHANGED saturated

Invalidate(pc) ==
    /\ pc \in DOMAIN map
    /\ Drop({pc})
    /\ UNCHANGED mem

Clear ==
    /\ map' = [q \in {} |-> {}]
    /\ lru' = [q \in {} |-> 0]
    /\ coverage' = [p \in Page |-> 0]
    /\ saturated' = {}
    /\ UNCHANGED mem

\* The blocks NotifyMemoryWrite(a) invalidates: none when a lies outside the
\* address space or its page's counter is zero.
Victims(a) ==
    {q \in DOMAIN map :
        /\ a < AddressSpace
        /\ coverage[PageOf(a)] # 0
        /\ BlockCoversAddr(map[q], a)}

\* A memory-write extern: store the byte, then NotifyMemoryWrite.
WriteByte(a, v) ==
    /\ mem' = [mem EXCEPT ![a] = v]
    /\ Drop(Victims(a))

Next ==
    \/ \E pc \in PC : TryGet(pc)
    \/ \E s \in Shape : Add(s)
    \/ \E pc \in PC : Invalidate(pc)
    \/ Clear
    \/ \E a \in Addr, v \in Byte : WriteByte(a, v)

Spec == Init /\ [][Next]_vars

-----------------------------------------------------------------------------
(* Properties. *)

\* The domains agree and every value has its type: counters stay in the range
\* of a byte whatever sequence of Add, Invalidate and writes is made.
TypeOK ==
    /\ IsFiniteSet(DOMAIN map) /\ DOMAIN map \subseteq PC
    /\ \A q \in DOMAIN map :
         /\ map[q].cover \in Seq([lo : Nat, hi : 0 .. MemSize])
         /\ map[q].code \in [Bytes(map[q]) -> Byte]
    /\ DOMAIN lru = DOMAIN map
    /\ \A q \in DOMAIN lru : lru[q] \in Int
    /\ coverage \in [Page -> 0 .. MaxCount]
    /\ mem \in [Addr -> Byte]
    /\ saturated \subseteq Page

\* _map and _lru describe the same entries: positions 1..Count are taken
\* exactly once, and Count never exceeds _capacity.
LruMatchesMap ==
    /\ DOMAIN lru = DOMAIN map
    /\ {lru[q] : q \in DOMAIN lru} = 1 .. Cardinality(DOMAIN map)
    /\ Cardinality(DOMAIN map) <= Capacity

\* Each counter that has not saturated since the last Clear is exactly the
\* number of instruction ranges of cached blocks that touch its page, so no
\* Add / evict / Invalidate sequence leaks or loses a count.
CoverageExact ==
    \A p \in Page \ saturated : coverage[p] = Bumps(map, p)

\* A block that can be dispatched was translated from the bytes memory holds
\* now, at every address the counters track and whose counter never saturated.
Coherent ==
    \A q \in DOMAIN map : \A a \in Bytes(map[q]) :
        a < AddressSpace /\ PageOf(a) \notin saturated
            => map[q].code[a] = mem[a]

\* Every cached translation is current at every byte of guest memory.
EveryBlockCurrent ==
    \A q \in DOMAIN map : \A a \in Bytes(map[q]) : map[q].code[a] = mem[a]
=============================================================================
