-------------------------- MODULE BlockCacheProofs --------------------------
(***************************************************************************)
(* Proofs about BlockCache, for every memory size, page size, capacity,     *)
(* saturation limit and set of shapes.                                      *)
(***************************************************************************)
EXTENDS BlockCacheRecency, FiniteSetTheorems, SequenceTheorems, TLAPS

Cover == Seq([lo : Nat, hi : 0 .. MemSize])

\* What a cached-block map needs for its bump counts to be numbers.
IsBlockMap(m) ==
    /\ IsFiniteSet(DOMAIN m)
    /\ \A q \in DOMAIN m : m[q].cover \in Cover

\* m is made of the disjoint parts m1 and m2.
Parts(m, m1, m2) ==
    /\ IsBlockMap(m1) /\ IsBlockMap(m2)
    /\ DOMAIN m = DOMAIN m1 \cup DOMAIN m2
    /\ DOMAIN m1 \cap DOMAIN m2 = {}
    /\ \A q \in DOMAIN m1 : m[q].cover = m1[q].cover
    /\ \A q \in DOMAIN m2 : m[q].cover = m2[q].cover

-----------------------------------------------------------------------------
(* Pages. *)

\* A block covers finitely many ranges, each given by two addresses.
LEMMA CoverFacts ==
    ASSUME NEW c \in Cover
    PROVE  /\ IsFiniteSet(DOMAIN c)
           /\ \A i \in DOMAIN c : c[i].lo \in Nat /\ c[i].hi \in Nat
<1> DEFINE R == [lo : Nat, hi : 0 .. MemSize]
<1>1. Len(c) \in Nat /\ c \in [1 .. Len(c) -> R] /\ DOMAIN c = 1 .. Len(c)
  BY LenProperties DEF Cover
<1>2. \A i \in DOMAIN c : c[i] \in R
  BY <1>1
<1>3. IsFiniteSet(1 .. Len(c))
  BY <1>1, FS_Interval
<1>4. \A x \in R : x.lo \in Nat /\ x.hi \in Nat
  BY SizeAssumption
<1> QED BY <1>1, <1>2, <1>3, <1>4

\* Rounding an address down to its page keeps the order of addresses.
LEMMA DivMonotone ==
    ASSUME NEW a \in Nat, NEW b \in Nat, NEW n \in Nat \ {0}, a <= b
    PROVE  /\ a \div n \in Nat
           /\ b \div n \in Nat
           /\ a \div n <= b \div n
  OBVIOUS

\* An address the cache tracks has a counter.
LEMMA PageInRange ==
    ASSUME NEW a \in Nat, a < AddressSpace
    PROVE  PageOf(a) \in Page
  BY SizeAssumption DEF PageOf, Page, PageCount

\* The pages BumpRange visits include the page of every tracked byte in range.
LEMMA CoveredPageTouched ==
    ASSUME NEW m, IsBlockMap(m), NEW q \in DOMAIN m, NEW a \in Nat,
           a < AddressSpace, BlockCoversAddr(m[q], a)
    PROVE  Touches(m, PageOf(a)) # {}
<1>1. PICK i \in DOMAIN m[q].cover : m[q].cover[i].lo <= a /\ a < m[q].cover[i].hi
  BY DEF BlockCoversAddr
<1> DEFINE r == m[q].cover[i]
<1>2. r.lo \in Nat /\ r.hi \in Nat
  BY <1>1, CoverFacts DEF IsBlockMap
<1>3. r.lo <= a /\ a <= r.hi - 1 /\ r.hi - 1 \in Nat
  BY <1>1, <1>2
<1>4. PageOf(r.lo) <= PageOf(a) /\ PageOf(a) <= PageOf(r.hi - 1)
  BY <1>2, <1>3, DivMonotone, SizeAssumption DEF PageOf
<1>5. PageOf(a) \in BumpRange(r)
  BY <1>1, <1>2, <1>3, <1>4, PageInRange DEF BumpRange
<1>6. <<q, i>> \in Touches(m, PageOf(a))
  BY <1>1, <1>5 DEF Touches
<1> QED BY <1>6

-----------------------------------------------------------------------------
(* Counting bumps. *)

\* The bumps of a finite map of blocks to one page are finitely many.
LEMMA TouchesFinite ==
    ASSUME NEW m, IsBlockMap(m), NEW p
    PROVE  IsFiniteSet(Touches(m, p)) /\ Bumps(m, p) \in Nat
<1> DEFINE D(q) == {j \in DOMAIN m[q].cover : p \in BumpRange(m[q].cover[j])}
           T(q) == {<<q, i>> : i \in D(q)}
           F    == {T(q) : q \in DOMAIN m}
<1>1. ASSUME NEW q \in DOMAIN m PROVE IsFiniteSet(T(q))
  <2>1. IsFiniteSet(DOMAIN m[q].cover)
    BY CoverFacts DEF IsBlockMap
  <2>2. IsFiniteSet(D(q))
    BY <2>1, FS_Subset
  <2>3. IsFiniteSet({q} \X D(q))
    BY <2>2, FS_Singleton, FS_Product
  <2>4. T(q) \subseteq {q} \X D(q)
    OBVIOUS
  <2> QED BY <2>3, <2>4, FS_Subset
<1>2. IsFiniteSet(F)
  <2> DEFINE f == [q \in DOMAIN m |-> T(q)]
  <2>1. IsFiniteSet(DOMAIN m)
    BY DEF IsBlockMap
  <2>2. f \in [DOMAIN m -> F] /\ \A t \in F : \E q \in DOMAIN m : f[q] = t
    OBVIOUS
  <2>3. f \in Surjection(DOMAIN m, F)
    BY <2>2 DEF Surjection
  <2> QED BY <2>1, <2>3, FS_Surjection
<1>3. IsFiniteSet(UNION F)
  BY <1>1, <1>2, FS_UNION
<1>4. UNION F = Touches(m, p)
  BY DEF Touches
<1> QED BY <1>3, <1>4, FS_CardinalityType DEF Bumps

\* Bumps of a map are the sum of the bumps of two parts of it.
LEMMA BumpsSplit ==
    ASSUME NEW m, NEW m1, NEW m2, NEW p, Parts(m, m1, m2)
    PROVE  Bumps(m, p) = Bumps(m1, p) + Bumps(m2, p)
<1>1. Touches(m, p) = Touches(m1, p) \cup Touches(m2, p)
  BY DEF Touches, Parts
<1>2. Touches(m1, p) \cap Touches(m2, p) = {}
  BY DEF Touches, Parts
<1>3. /\ IsFiniteSet(Touches(m1, p)) /\ IsFiniteSet(Touches(m2, p))
      /\ Cardinality(Touches(m1, p)) \in Nat /\ Cardinality(Touches(m2, p)) \in Nat
  BY TouchesFinite DEF Bumps, Parts
<1>4. Cardinality(Touches(m1, p) \cap Touches(m2, p)) = 0
  BY <1>2, FS_EmptySet
<1>5. Cardinality(Touches(m1, p) \cup Touches(m2, p)) =
        Cardinality(Touches(m1, p)) + Cardinality(Touches(m2, p))
          - Cardinality(Touches(m1, p) \cap Touches(m2, p))
  BY <1>3, FS_Union
<1> QED BY <1>1, <1>3, <1>4, <1>5 DEF Bumps

\* A map with no bumps on a page has no block covering a byte of that page.
LEMMA NoBumpsNoCover ==
    ASSUME NEW m, IsBlockMap(m), NEW a \in Nat, a < AddressSpace,
           Bumps(m, PageOf(a)) = 0
    PROVE  \A q \in DOMAIN m : ~BlockCoversAddr(m[q], a)
<1>1. Touches(m, PageOf(a)) = {}
  BY TouchesFinite, FS_EmptySet DEF Bumps
<1> QED BY <1>1, CoveredPageTouched

\* Restricting, shrinking or extending a map of blocks gives such a map again.
LEMMA BlockMaps ==
    ASSUME NEW m, IsBlockMap(m)
    PROVE  /\ \A S : IsBlockMap(Only(m, S)) /\ IsBlockMap(Except(m, S))
           /\ \A pc, b : b.cover \in Cover =>
                 IsBlockMap(Entry(pc, b)) /\ IsBlockMap(Put(m, pc, b))
<1>1. IsFiniteSet(DOMAIN m) /\ \A q \in DOMAIN m : m[q].cover \in Cover
  BY DEF IsBlockMap
<1>2. \A S : IsFiniteSet(DOMAIN m \cap S) /\ IsFiniteSet(DOMAIN m \ S)
  BY <1>1, FS_Intersection, FS_Difference
<1>3. \A S : IsBlockMap(Only(m, S)) /\ IsBlockMap(Except(m, S))
  BY <1>1, <1>2 DEF IsBlockMap, Only, Except
<1>4. ASSUME NEW pc, NEW b, b.cover \in Cover
      PROVE  IsBlockMap(Entry(pc, b)) /\ IsBlockMap(Put(m, pc, b))
  <2>1. IsFiniteSet({pc}) /\ IsFiniteSet(DOMAIN m \cup {pc})
    BY <1>1, FS_Singleton, FS_AddElement
  <2> QED BY <1>1, <1>4, <2>1 DEF IsBlockMap, Entry, Put
<1> QED BY <1>3, <1>4

\* Removing blocks and taking their bumps off an exact counter leaves it exact.
LEMMA ExactAfterDrop ==
    ASSUME NEW m, IsBlockMap(m), NEW cov, NEW S, NEW p \in Page,
           cov[p] = Bumps(m, p)
    PROVE  DecrementCoverage(cov, Only(m, S))[p] = Bumps(Except(m, S), p)
<1>1. IsBlockMap(Only(m, S)) /\ IsBlockMap(Except(m, S))
  BY BlockMaps
<1>2. Parts(m, Only(m, S), Except(m, S))
  BY <1>1 DEF Parts, Only, Except
<1>3. Bumps(m, p) = Bumps(Only(m, S), p) + Bumps(Except(m, S), p)
  BY <1>2, BumpsSplit
<1>4. Bumps(Only(m, S), p) \in Nat /\ Bumps(Except(m, S), p) \in Nat
  BY <1>1, TouchesFinite
<1> QED BY <1>3, <1>4 DEF DecrementCoverage

\* Adding a block under a new PC keeps an exact counter exact unless it
\* saturates.
LEMMA ExactAfterPut ==
    ASSUME NEW m, IsBlockMap(m), NEW cov, NEW pc, NEW b, NEW p \in Page,
           pc \notin DOMAIN m, b.cover \in Cover,
           cov[p] = Bumps(m, p), p \notin Lost(cov, Entry(pc, b))
    PROVE  IncrementCoverage(cov, Entry(pc, b))[p] = Bumps(Put(m, pc, b), p)
<1>1. IsBlockMap(Entry(pc, b))
  BY BlockMaps
<1>2. Parts(Put(m, pc, b), m, Entry(pc, b))
  BY <1>1 DEF Parts, Put, Entry
<1>3. Bumps(Put(m, pc, b), p) = Bumps(m, p) + Bumps(Entry(pc, b), p)
  BY <1>2, BumpsSplit
<1>4. Bumps(m, p) \in Nat /\ Bumps(Entry(pc, b), p) \in Nat
  BY <1>1, TouchesFinite
<1> QED BY <1>3, <1>4, SizeAssumption DEF IncrementCoverage, Lost
-----------------------------------------------------------------------------
(* The inductive invariant. *)

IInv == TypeOK /\ CoverageExact /\ Coherent

\* TypeOK in the form the counting lemmas use.
LEMMA TypedMap ==
    TypeOK => IsBlockMap(map) /\ \A p \in Page : coverage[p] \in 0 .. MaxCount
  BY DEF TypeOK, IsBlockMap, Cover

\* A shape compiles to a block of the right type holding the current bytes.
LEMMA CompileType ==
    ASSUME TypeOK, NEW s \in Shape
    PROVE  /\ s.pc \in PC
           /\ Compile(s).cover \in Cover
           /\ Bytes(Compile(s)) = Bytes(s)
           /\ Compile(s).code \in [Bytes(Compile(s)) -> Byte]
           /\ \A a \in Bytes(Compile(s)) : Compile(s).code[a] = mem[a]
<1>1. s.pc \in PC /\ Compile(s).cover = s.cover /\ s.cover \in Cover
  BY ShapeAssumption DEF PC, Compile, Cover
<1>2. Bytes(Compile(s)) = Bytes(s)
  BY <1>1 DEF Bytes, BlockCoversAddr
<1>3. Compile(s).code = [a \in Bytes(s) |-> mem[a]] /\ Bytes(s) \subseteq Addr
  BY DEF Compile, Bytes
<1> QED BY <1>1, <1>2, <1>3 DEF TypeOK

\* Saturating arithmetic keeps every counter in the range of a byte.
LEMMA CountersTyped ==
    ASSUME NEW cov \in [Page -> 0 .. MaxCount], NEW m, IsBlockMap(m)
    PROVE  /\ IncrementCoverage(cov, m) \in [Page -> 0 .. MaxCount]
           /\ DecrementCoverage(cov, m) \in [Page -> 0 .. MaxCount]
           /\ Lost(cov, m) \subseteq Page
<1>1. \A p \in Page : Bumps(m, p) \in Nat
  BY TouchesFinite
<1> QED BY <1>1, SizeAssumption DEF IncrementCoverage, DecrementCoverage, Lost

\* List surgery keeps positions integers, on the expected domain.
LEMMA ListTyped ==
    ASSUME NEW l, IsFiniteSet(DOMAIN l), \A q \in DOMAIN l : l[q] \in Int
    PROVE  /\ \A pc : /\ DOMAIN MoveToFront(l, pc) = DOMAIN l \cup {pc}
                       /\ \A q \in DOMAIN l \cup {pc} : MoveToFront(l, pc)[q] \in Int
           /\ \A S : /\ DOMAIN Unlink(l, S) = DOMAIN l \ S
                      /\ \A q \in DOMAIN l \ S : Unlink(l, S)[q] \in Int
<1>1. ASSUME NEW pc, NEW q \in DOMAIN l \cup {pc}
      PROVE  MoveToFront(l, pc)[q] \in Int
  BY DEF MoveToFront
<1>2. ASSUME NEW S, NEW q \in DOMAIN l \ S
      PROVE  Unlink(l, S)[q] \in Int
  <2> DEFINE B == {r \in S \cap DOMAIN l : l[r] < l[q]}
  <2>1. IsFiniteSet(B)
    BY FS_Subset
  <2>2. Cardinality(B) \in Nat
    BY <2>1, FS_CardinalityType
  <2>3. Unlink(l, S)[q] = l[q] - Cardinality(B)
    BY DEF Unlink
  <2>4. l[q] \in Int
    OBVIOUS
  <2> HIDE DEF B
  <2> QED BY <2>2, <2>3, <2>4
<1> QED BY <1>1, <1>2 DEF MoveToFront, Unlink
-----------------------------------------------------------------------------
(* Dropping blocks: Invalidate and NotifyMemoryWrite. *)

\* Removing entries from _map, the list and the counters keeps their types: the
\* counters never leave 0 .. 255 and the list holds the keys of the map.
LEMMA DropType ==
    ASSUME TypeOK, NEW S, Drop(S), mem' \in [Addr -> Byte]
    PROVE  TypeOK'
<1>1. IsBlockMap(map) /\ IsBlockMap(Only(map, S)) /\ IsBlockMap(Except(map, S))
  BY TypedMap, BlockMaps
<1>2. map' = Except(map, S) /\ DOMAIN map' = DOMAIN map \ S
  BY DEF Drop, Except
<1>3. IsFiniteSet(DOMAIN map') /\ DOMAIN map' \subseteq PC
  BY <1>1, <1>2 DEF IsBlockMap, TypeOK
<1>4. ASSUME NEW q \in DOMAIN map'
      PROVE  /\ map'[q].cover \in Seq([lo : Nat, hi : 0 .. MemSize])
             /\ map'[q].code \in [Bytes(map'[q]) -> Byte]
  BY <1>2 DEF TypeOK, Except
<1>5. DOMAIN lru' = DOMAIN map' /\ \A q \in DOMAIN lru' : lru'[q] \in Int
  <2>1. /\ IsFiniteSet(DOMAIN lru) /\ \A q \in DOMAIN lru : lru[q] \in Int
        /\ lru' = Unlink(lru, S) /\ DOMAIN lru = DOMAIN map
    BY DEF TypeOK, Drop
  <2>2. /\ DOMAIN Unlink(lru, S) = DOMAIN lru \ S
        /\ \A q \in DOMAIN lru \ S : Unlink(lru, S)[q] \in Int
    BY <2>1, ListTyped
  <2> QED BY <1>2, <2>1, <2>2
<1>6. coverage' \in [Page -> 0 .. MaxCount]
  BY <1>1, CountersTyped DEF TypeOK, Drop
<1>7. saturated' \subseteq Page
  BY DEF TypeOK, Drop
<1> QED BY <1>3, <1>4, <1>5, <1>6, <1>7 DEF TypeOK

\* BumpRange with delta -1 over the dropped blocks leaves every unsaturated
\* counter equal to the number of ranges the remaining blocks have on its page.
LEMMA DropExact ==
    ASSUME TypeOK, CoverageExact, NEW S, Drop(S)
    PROVE  CoverageExact'
<1> SUFFICES ASSUME NEW p \in Page \ saturated
             PROVE  coverage'[p] = Bumps(map', p)
  BY DEF CoverageExact, Drop, Bumps, Touches, BumpRange, Page, PageOf, PageCount
<1>1. coverage[p] = Bumps(map, p)
  BY DEF CoverageExact
<1> QED BY <1>1, TypedMap, ExactAfterDrop DEF Drop

\* Dropping any set of blocks without touching memory keeps the rest current.
LEMMA DropInv ==
    ASSUME IInv, NEW S, Drop(S), UNCHANGED mem
    PROVE  IInv'
<1>1. TypeOK'
  BY DropType DEF IInv, TypeOK
<1>2. CoverageExact'
  BY DropExact DEF IInv
<1>3. Coherent'
  BY DEF IInv, Coherent, Drop, Except, Bytes, BlockCoversAddr, Addr, PageOf
<1> QED BY <1>1, <1>2, <1>3 DEF IInv

\* A write removes every block it makes stale: an exact counter cannot be zero
\* while a block covers the byte, so the fast path is not taken.
LEMMA WriteInv ==
    ASSUME IInv, NEW a \in Addr, NEW v \in Byte, WriteByte(a, v)
    PROVE  IInv'
<1>1. mem' = [mem EXCEPT ![a] = v] /\ Drop(Victims(a)) /\ mem' \in [Addr -> Byte]
  BY DEF WriteByte, IInv, TypeOK
<1>2. TypeOK'
  BY <1>1, DropType DEF IInv
<1>3. CoverageExact'
  BY <1>1, DropExact DEF IInv
<1>4. Coherent'
  <2> SUFFICES ASSUME NEW q \in DOMAIN map', NEW x \in Bytes(map'[q]),
                      x < AddressSpace, PageOf(x) \notin saturated'
               PROVE  map'[q].code[x] = mem'[x]
    BY DEF Coherent, PageOf, Bytes, Addr, BlockCoversAddr
  <2>1. /\ q \in DOMAIN map /\ q \notin Victims(a) /\ map'[q] = map[q]
        /\ saturated' = saturated /\ x \in Addr /\ BlockCoversAddr(map[q], x)
    BY <1>1 DEF Drop, Except, Bytes
  <2>2. map[q].code[x] = mem[x]
    BY <2>1 DEF IInv, Coherent
  <2>3. CASE x # a
    BY <2>1, <2>2, <2>3, <1>1 DEF IInv, TypeOK
  <2>4. CASE x = a
    <3>1. x \in Nat
      BY <2>1, SizeAssumption DEF Addr
    <3>2. PageOf(x) \in Page \ saturated
      BY <2>1, <3>1, PageInRange
    <3>3. coverage[PageOf(x)] = Bumps(map, PageOf(x))
      BY <3>2 DEF IInv, CoverageExact
    <3>4. coverage[PageOf(x)] = 0
      BY <2>1, <2>4 DEF Victims
    <3>5. IsBlockMap(map)
      BY TypedMap DEF IInv
    <3>6. ~BlockCoversAddr(map[q], x)
      BY <2>1, <3>1, <3>3, <3>4, <3>5, NoBumpsNoCover
    <3> QED BY <2>1, <3>6
  <2> QED BY <2>3, <2>4
<1> QED BY <1>2, <1>3, <1>4 DEF IInv
-----------------------------------------------------------------------------
(* Adding blocks. *)

\* Replacing the entry of a PC.
LEMMA AddExistingInv ==
    ASSUME IInv, NEW s \in Shape, AddExisting(s.pc, Compile(s)), UNCHANGED mem
    PROVE  IInv'
<1> DEFINE pc  == s.pc
           b   == Compile(s)
           old == DecrementCoverage(coverage, Entry(pc, map[pc]))
<1>1. /\ pc \in DOMAIN map /\ pc \in PC /\ b.cover \in Cover
      /\ b.code \in [Bytes(b) -> Byte] /\ \A a \in Bytes(b) : b.code[a] = mem[a]
  BY CompileType DEF AddExisting, IInv
<1>2. /\ map' = Put(map, pc, b) /\ lru' = MoveToFront(lru, pc)
      /\ coverage' = IncrementCoverage(old, Entry(pc, b))
      /\ saturated' = saturated \cup Lost(old, Entry(pc, b))
      /\ mem' = mem
  BY DEF AddExisting
<1>3. DOMAIN map' = DOMAIN map /\ map'[pc] = b
      /\ \A q \in DOMAIN map : q # pc => map'[q] = map[q]
  BY <1>1, <1>2 DEF Put
<1> HIDE DEF b
<1>4. TypeOK /\ IsBlockMap(map) /\ map[pc].cover \in Cover
  BY <1>1, TypedMap DEF IInv, IsBlockMap
<1>5. IsBlockMap(Entry(pc, map[pc])) /\ IsBlockMap(Entry(pc, b))
  BY <1>1, <1>4, BlockMaps
<1>6. old \in [Page -> 0 .. MaxCount]
  BY <1>4, <1>5, CountersTyped DEF TypeOK
<1>7. TypeOK'
  <2>1. ASSUME NEW q \in DOMAIN map'
        PROVE  /\ map'[q].cover \in Seq([lo : Nat, hi : 0 .. MemSize])
               /\ map'[q].code \in [Bytes(map'[q]) -> Byte]
    BY <1>1, <1>3, <1>4 DEF TypeOK, Cover
  <2>2. DOMAIN lru' = DOMAIN map' /\ \A q \in DOMAIN lru' : lru'[q] \in Int
    <3>1. IsFiniteSet(DOMAIN lru) /\ \A q \in DOMAIN lru : lru[q] \in Int
      BY <1>4 DEF TypeOK
    <3>2. /\ DOMAIN MoveToFront(lru, pc) = DOMAIN lru \cup {pc}
          /\ \A q \in DOMAIN lru \cup {pc} : MoveToFront(lru, pc)[q] \in Int
      BY <3>1, ListTyped
    <3> QED BY <1>1, <1>2, <1>3, <1>4, <3>2 DEF TypeOK
  <2>3. coverage' \in [Page -> 0 .. MaxCount] /\ saturated' \subseteq Page
    BY <1>2, <1>4, <1>5, <1>6, CountersTyped DEF TypeOK
  <2> QED BY <1>2, <1>3, <1>4, <2>1, <2>2, <2>3 DEF TypeOK
<1>8. CoverageExact'
  <2> SUFFICES ASSUME NEW p \in Page \ saturated'
               PROVE  coverage'[p] = Bumps(map', p)
    BY DEF CoverageExact, Bumps, Touches, BumpRange, Page, PageOf, PageCount
  <2> DEFINE rest == Except(map, {pc})
  <2>1. p \in Page /\ p \notin saturated /\ p \notin Lost(old, Entry(pc, b))
    BY <1>2
  <2>2. Only(map, {pc}) = Entry(pc, map[pc])
    BY <1>1 DEF Only, Entry
  <2>3. coverage[p] = Bumps(map, p)
    BY <2>1 DEF IInv, CoverageExact
  <2>4. old[p] = Bumps(rest, p)
    BY <1>4, <2>1, <2>2, <2>3, ExactAfterDrop
  <2>5. IsBlockMap(rest) /\ pc \notin DOMAIN rest
    BY <1>4, BlockMaps DEF Except
  <2>6. Put(rest, pc, b) = Put(map, pc, b)
    BY <1>1 DEF Put, Except
  <2> HIDE DEF rest, old
  <2>7. IncrementCoverage(old, Entry(pc, b))[p] = Bumps(Put(rest, pc, b), p)
    BY <1>1, <2>1, <2>4, <2>5, ExactAfterPut
  <2> QED BY <1>2, <2>6, <2>7 DEF old
<1>9. Coherent'
  <2> SUFFICES ASSUME NEW q \in DOMAIN map', NEW x \in Bytes(map'[q]),
                      x < AddressSpace, PageOf(x) \notin saturated'
               PROVE  map'[q].code[x] = mem'[x]
    BY DEF Coherent, PageOf, Bytes, Addr, BlockCoversAddr
  <2>1. CASE q = pc
    BY <1>1, <1>2, <1>3, <2>1
  <2>2. CASE q # pc
    BY <1>2, <1>3, <2>2 DEF IInv, Coherent
  <2> QED BY <2>1, <2>2
<1> QED BY <1>7, <1>8, <1>9 DEF IInv

\* Adding a new entry and, over capacity, dropping the tail.
LEMMA AddNewInv ==
    ASSUME IInv, NEW s \in Shape, AddNew(s.pc, Compile(s)), UNCHANGED mem
    PROVE  IInv'
<1> DEFINE pc == s.pc
           b  == Compile(s)
           m  == Put(map, pc, b)
           l  == MoveToFront(lru, pc)
           c  == IncrementCoverage(coverage, Entry(pc, b))
           tail == IF Cardinality(DOMAIN m) > Capacity THEN {LruTail(l)} ELSE {}
<1>1. /\ pc \notin DOMAIN map /\ pc \in PC /\ b.cover \in Cover
      /\ b.code \in [Bytes(b) -> Byte] /\ \A a \in Bytes(b) : b.code[a] = mem[a]
  BY CompileType DEF AddNew, IInv
<1>2. /\ map' = Except(m, tail) /\ lru' = Unlink(l, tail)
      /\ coverage' = DecrementCoverage(c, Only(m, tail))
      /\ saturated' = saturated \cup Lost(coverage, Entry(pc, b))
      /\ mem' = mem
  BY DEF AddNew
<1> HIDE DEF b, tail
<1>3. /\ DOMAIN m = DOMAIN map \cup {pc} /\ m[pc] = b
      /\ \A q \in DOMAIN map : m[q] = map[q]
  BY <1>1 DEF Put
<1>4. /\ DOMAIN map' = DOMAIN m \ tail
      /\ \A q \in DOMAIN map' : map'[q] = m[q]
  BY <1>2 DEF Except
<1>5. TypeOK /\ IsBlockMap(map)
  BY TypedMap DEF IInv
<1>6. IsBlockMap(Entry(pc, b)) /\ IsBlockMap(m)
  BY <1>1, <1>5, BlockMaps
<1> HIDE DEF m
<1>7. IsBlockMap(Only(m, tail)) /\ IsBlockMap(Except(m, tail))
  BY <1>6, BlockMaps
<1>8. c \in [Page -> 0 .. MaxCount]
  BY <1>5, <1>6, CountersTyped DEF TypeOK
<1>9. TypeOK'
  <2>1. IsFiniteSet(DOMAIN map') /\ DOMAIN map' \subseteq PC
    BY <1>1, <1>2, <1>3, <1>4, <1>5, <1>7 DEF IsBlockMap, TypeOK
  <2>2. ASSUME NEW q \in DOMAIN map'
        PROVE  /\ map'[q].cover \in Seq([lo : Nat, hi : 0 .. MemSize])
               /\ map'[q].code \in [Bytes(map'[q]) -> Byte]
    BY <1>1, <1>3, <1>4, <1>5 DEF TypeOK, Cover
  <2>3. DOMAIN lru' = DOMAIN map' /\ \A q \in DOMAIN lru' : lru'[q] \in Int
    <3>1. IsFiniteSet(DOMAIN lru) /\ \A q \in DOMAIN lru : lru[q] \in Int
      BY <1>5 DEF TypeOK
    <3>2. DOMAIN l = DOMAIN lru \cup {pc} /\ \A q \in DOMAIN l : l[q] \in Int
      BY <3>1, ListTyped
    <3>3. IsFiniteSet(DOMAIN l)
      BY <3>1, <3>2, FS_AddElement
    <3> HIDE DEF l
    <3>4. /\ DOMAIN Unlink(l, tail) = DOMAIN l \ tail
          /\ \A q \in DOMAIN l \ tail : Unlink(l, tail)[q] \in Int
      BY <3>2, <3>3, ListTyped
    <3> QED BY <1>2, <1>3, <1>4, <1>5, <3>2, <3>4 DEF TypeOK
  <2>4. coverage' \in [Page -> 0 .. MaxCount] /\ saturated' \subseteq Page
    BY <1>2, <1>5, <1>6, <1>7, <1>8, CountersTyped DEF TypeOK
  <2> QED BY <1>2, <1>5, <2>1, <2>2, <2>3, <2>4 DEF TypeOK
<1>10. CoverageExact'
  <2> SUFFICES ASSUME NEW p \in Page \ saturated'
               PROVE  coverage'[p] = Bumps(map', p)
    BY DEF CoverageExact, Bumps, Touches, BumpRange, Page, PageOf, PageCount
  <2>1. p \in Page /\ p \notin saturated /\ p \notin Lost(coverage, Entry(pc, b))
    BY <1>2
  <2>2. coverage[p] = Bumps(map, p)
    BY <2>1 DEF IInv, CoverageExact
  <2>3. c[p] = Bumps(m, p)
    BY <1>1, <1>5, <2>1, <2>2, ExactAfterPut DEF m
  <2> HIDE DEF c
  <2>4. DecrementCoverage(c, Only(m, tail))[p] = Bumps(Except(m, tail), p)
    BY <1>6, <2>1, <2>3, ExactAfterDrop
  <2> QED BY <1>2, <2>4
<1>11. Coherent'
  <2> SUFFICES ASSUME NEW q \in DOMAIN map', NEW x \in Bytes(map'[q]),
                      x < AddressSpace, PageOf(x) \notin saturated'
               PROVE  map'[q].code[x] = mem'[x]
    BY DEF Coherent, PageOf, Bytes, Addr, BlockCoversAddr
  <2>1. map'[q] = m[q] /\ q \in DOMAIN m
    BY <1>4
  <2>2. CASE q = pc
    BY <1>1, <1>2, <1>3, <2>1, <2>2
  <2>3. CASE q # pc
    BY <1>2, <1>3, <2>1, <2>3 DEF IInv, Coherent
  <2> QED BY <2>2, <2>3
<1> QED BY <1>9, <1>10, <1>11 DEF IInv

-----------------------------------------------------------------------------
(* The theorems. *)

\* The empty cache of the constructor satisfies the invariant.
LEMMA InitInv == Init => IInv
<1> SUFFICES ASSUME Init PROVE IInv
  OBVIOUS
<1>1. map = [q \in {} |-> {}] /\ lru = [q \in {} |-> 0] /\ DOMAIN map = {} /\ DOMAIN lru = {}
  BY DEF Init
<1>2. TypeOK
  BY <1>1, FS_EmptySet, SizeAssumption DEF Init, TypeOK
<1>3. \A p \in Page : Bumps(map, p) = 0
  <2>1. \A p : Touches(map, p) = {}
    BY <1>1 DEF Touches
  <2> QED BY <2>1, FS_EmptySet DEF Bumps
<1>4. CoverageExact
  BY <1>3 DEF Init, CoverageExact
<1>5. Coherent
  BY <1>1 DEF Coherent
<1> QED BY <1>2, <1>4, <1>5 DEF IInv

\* Clear empties map and list and zeroes every counter together.
LEMMA ClearInv == IInv /\ Clear => IInv'
<1> SUFFICES ASSUME IInv, Clear PROVE IInv'
  OBVIOUS
<1>1. DOMAIN map' = {} /\ DOMAIN lru' = {} /\ mem' = mem
  BY DEF Clear
<1>2. TypeOK'
  BY <1>1, FS_EmptySet, SizeAssumption DEF Clear, TypeOK, IInv
<1>3. \A p \in Page : Bumps(map', p) = 0
  <2>1. \A p : Touches(map', p) = {}
    BY <1>1 DEF Touches
  <2> QED BY <2>1, FS_EmptySet DEF Bumps
<1>4. CoverageExact'
  BY <1>3 DEF Clear, CoverageExact, Bumps, Touches, BumpRange, Page, PageOf, PageCount
<1>5. Coherent'
  BY <1>1 DEF Coherent
<1> QED BY <1>2, <1>4, <1>5 DEF IInv

\* A hit only reorders the list: no entry, counter or byte changes.
LEMMA TryGetInv == ASSUME IInv, NEW pc \in PC, TryGet(pc) PROVE IInv'
<1>1. /\ IsFiniteSet(DOMAIN lru) /\ \A q \in DOMAIN lru : lru[q] \in Int
      /\ pc \in DOMAIN map /\ DOMAIN lru = DOMAIN map
  BY DEF IInv, TypeOK, TryGet
<1>2. /\ DOMAIN MoveToFront(lru, pc) = DOMAIN lru \cup {pc}
      /\ \A q \in DOMAIN lru \cup {pc} : MoveToFront(lru, pc)[q] \in Int
  BY <1>1, ListTyped
<1>3. TypeOK'
  BY <1>1, <1>2 DEF IInv, TypeOK, TryGet
<1>4. CoverageExact' /\ Coherent'
  BY DEF IInv, TryGet, CoverageExact, Coherent
<1> QED BY <1>3, <1>4 DEF IInv

\* The invariant is inductive: one step per action of Next.
LEMMA StepInv == IInv /\ [Next]_vars => IInv'
<1> SUFFICES ASSUME IInv, [Next]_vars PROVE IInv'
  OBVIOUS
<1>1. ASSUME NEW pc \in PC, TryGet(pc) PROVE IInv'
  BY <1>1, TryGetInv
<1>2. ASSUME NEW s \in Shape, Add(s) PROVE IInv'
  BY <1>2, AddExistingInv, AddNewInv DEF Add
<1>3. ASSUME NEW pc \in PC, Invalidate(pc) PROVE IInv'
  BY <1>3, DropInv DEF Invalidate
<1>4. CASE Clear
  BY <1>4, ClearInv
<1>5. ASSUME NEW a \in Addr, NEW v \in Byte, WriteByte(a, v) PROVE IInv'
  BY <1>5, WriteInv
<1>6. CASE UNCHANGED vars
  BY <1>6 DEF vars, IInv, TypeOK, CoverageExact, Coherent
<1> QED BY <1>1, <1>2, <1>3, <1>4, <1>5, <1>6 DEF Next

\* The inductive invariant holds in every state the cache can reach, however
\* lookups, insertions, evictions, invalidations and guest stores interleave.
THEOREM Invariance == Spec => []IInv
  BY InitInv, StepInv, PTL DEF Spec

\* Counters stay in the range of a byte and the domains agree, always.
THEOREM TypeCorrect == Spec => []TypeOK
  BY Invariance, PTL DEF IInv

\* Every unsaturated counter of _coverageCount counts exactly the instruction
\* ranges of cached blocks on its page.
THEOREM CountersExact == Spec => []CoverageExact
  BY Invariance, PTL DEF IInv

\* No stale translation is ever in the cache at a tracked, unsaturated byte:
\* NotifyMemoryWrite's fast path never skips a block it should invalidate.
THEOREM CacheCoherent == Spec => []Coherent
  BY Invariance, PTL DEF IInv

-----------------------------------------------------------------------------
(* The recency list. *)

\* The entries among D that are not behind entry q of list l.
UpTo(l, D, q) == {r \in D : l[r] <= l[q]}

\* An entry's position is the number of entries up to it: the positions of a
\* list without gaps and without sharing.
Ranked(l) ==
    /\ \A q \in DOMAIN l : l[q] \in Int /\ l[q] = Cardinality(UpTo(l, DOMAIN l, q))
    /\ \A q, r \in DOMAIN l : l[q] = l[r] => q = r

\* Disjoint sets count together.
LEMMA DisjointCount ==
    ASSUME NEW A, NEW C, IsFiniteSet(A), IsFiniteSet(C), A \cap C = {}
    PROVE  Cardinality(A \cup C) = Cardinality(A) + Cardinality(C)
<1>1. Cardinality(A) \in Nat /\ Cardinality(C) \in Nat /\ Cardinality(A \cap C) = 0
  BY FS_CardinalityType, FS_EmptySet
<1>2. Cardinality(A \cup C) = Cardinality(A) + Cardinality(C) - Cardinality(A \cap C)
  BY FS_Union
<1> QED BY <1>1, <1>2

\* Ranks lie in 1 .. Count.
LEMMA RankBounds ==
    ASSUME NEW l, IsFiniteSet(DOMAIN l), Ranked(l), NEW q \in DOMAIN l
    PROVE  l[q] \in 1 .. Cardinality(DOMAIN l)
<1> DEFINE U == UpTo(l, DOMAIN l, q)
<1>1. l[q] \in Int /\ l[q] = Cardinality(U)
  BY DEF Ranked
<1>2. U \in SUBSET DOMAIN l /\ q \in U
  <2>1. l[q] <= l[q]
    BY <1>1
  <2> QED BY <2>1 DEF UpTo
<1> HIDE DEF U
<1>3. IsFiniteSet(U) /\ Cardinality(U) <= Cardinality(DOMAIN l)
  BY <1>2, FS_Subset
<1>4. Cardinality(U) \in Nat /\ Cardinality(U) # 0 /\ Cardinality(DOMAIN l) \in Nat
  BY <1>2, <1>3, FS_CardinalityType, FS_EmptySet
<1> QED BY <1>1, <1>3, <1>4

\* Ranked positions are 1 .. Count, each taken exactly once.
LEMMA RankedPositions ==
    ASSUME NEW l, IsFiniteSet(DOMAIN l), Ranked(l)
    PROVE  {l[q] : q \in DOMAIN l} = 1 .. Cardinality(DOMAIN l)
<1> DEFINE D == DOMAIN l
           n == Cardinality(D)
           f == [q \in D |-> l[q]]
<1>1. n \in Nat /\ \A q \in D : l[q] \in 1 .. n
  BY FS_CardinalityType, RankBounds
<1>2. f \in Injection(D, 1 .. n)
  BY <1>1 DEF Injection, IsInjective, Ranked
<1>3. IsFiniteSet(1 .. n) /\ Cardinality(1 .. n) = n
  BY <1>1, FS_Interval
<1>4. f \in Surjection(D, 1 .. n)
  BY <1>2, <1>3, FS_Injection
<1>5. \A k \in 1 .. n : \E q \in D : f[q] = k
  BY <1>4 DEF Surjection
<1> QED BY <1>1, <1>5

\* Unlinking any set of nodes leaves a list without gaps, in the same order.
LEMMA RankedUnlink ==
    ASSUME NEW l, IsFiniteSet(DOMAIN l), Ranked(l), NEW S
    PROVE  /\ Ranked(Unlink(l, S))
           /\ \A q, r \in DOMAIN l \ S : Unlink(l, S)[r] <= Unlink(l, S)[q] <=> l[r] <= l[q]
<1> DEFINE D == DOMAIN l
           E == D \ S
           t == Unlink(l, S)
           B(q) == {r \in S \cap D : l[r] < l[q]}
<1>1. DOMAIN t = E /\ \A q \in E : t[q] = l[q] - Cardinality(B(q))
  BY DEF Unlink
<1>2. \A q \in D : l[q] \in Int /\ l[q] = Cardinality(UpTo(l, D, q))
  BY DEF Ranked
<1>3. ASSUME NEW q \in E
      PROVE  /\ IsFiniteSet(UpTo(l, E, q)) /\ Cardinality(UpTo(l, E, q)) \in Nat
             /\ t[q] = Cardinality(UpTo(l, E, q))
  <2>1. UpTo(l, E, q) \in SUBSET D /\ B(q) \in SUBSET D
    BY DEF UpTo
  <2>2. IsFiniteSet(UpTo(l, E, q)) /\ IsFiniteSet(B(q))
    BY <2>1, FS_Subset
  <2>3. UpTo(l, D, q) = UpTo(l, E, q) \cup B(q) /\ UpTo(l, E, q) \cap B(q) = {}
    <3>1. ASSUME NEW r \in S \cap D PROVE l[r] <= l[q] <=> l[r] < l[q]
      <4>1. l[r] # l[q] /\ l[r] \in Int /\ l[q] \in Int
        BY <1>2, <3>1 DEF Ranked
      <4> QED BY <4>1
    <3> QED BY <3>1 DEF UpTo
  <2>4. Cardinality(UpTo(l, E, q)) \in Nat /\ Cardinality(B(q)) \in Nat
    BY <2>2, FS_CardinalityType
  <2>5. Cardinality(UpTo(l, D, q)) = Cardinality(UpTo(l, E, q)) + Cardinality(B(q))
    BY <2>2, <2>3, DisjointCount
  <2>6. t[q] = l[q] - Cardinality(B(q)) /\ l[q] = Cardinality(UpTo(l, D, q))
    BY <1>1, <1>2
  <2> HIDE DEF B, t
  <2> QED BY <2>2, <2>4, <2>5, <2>6
<1> HIDE DEF t, B
<1>4. ASSUME NEW q \in E, NEW r \in E PROVE t[r] <= t[q] <=> l[r] <= l[q]
  <2>1. l[r] \in Int /\ l[q] \in Int
    BY <1>2
  <2>2. CASE l[r] <= l[q]
    <3>1. UpTo(l, E, r) \in SUBSET UpTo(l, E, q)
      <4>1. ASSUME NEW x \in E, l[x] <= l[r] PROVE l[x] <= l[q]
        <5>1. l[x] \in Int
          BY <1>2
        <5> QED BY <2>1, <2>2, <4>1, <5>1
      <4> QED BY <4>1 DEF UpTo
    <3> QED BY <1>3, <2>2, <3>1, FS_Subset
  <2>3. CASE ~(l[r] <= l[q])
    <3>1. UpTo(l, E, q) \in SUBSET UpTo(l, E, r) /\ r \in UpTo(l, E, r) /\ r \notin UpTo(l, E, q)
      <4>1. ASSUME NEW x \in E, l[x] <= l[q] PROVE l[x] <= l[r]
        <5>1. l[x] \in Int
          BY <1>2
        <5> QED BY <2>1, <2>3, <4>1, <5>1
      <4>2. l[r] <= l[r]
        BY <2>1
      <4> QED BY <2>3, <4>1, <4>2 DEF UpTo
    <3>2. Cardinality(UpTo(l, E, q)) <= Cardinality(UpTo(l, E, r))
          /\ Cardinality(UpTo(l, E, q)) # Cardinality(UpTo(l, E, r))
      BY <1>3, <3>1, FS_Subset
    <3> QED BY <1>3, <2>3, <3>2
  <2> QED BY <2>2, <2>3
<1>5. ASSUME NEW q \in E PROVE t[q] \in Int /\ t[q] = Cardinality(UpTo(t, E, q))
  <2>1. UpTo(t, E, q) = UpTo(l, E, q)
    BY <1>4 DEF UpTo
  <2> QED BY <1>3, <2>1
<1>6. ASSUME NEW q \in E, NEW r \in E, t[q] = t[r] PROVE q = r
  <2>1. t[q] \in Int /\ t[r] \in Int /\ l[q] \in Int /\ l[r] \in Int
    BY <1>2, <1>5
  <2>2. l[q] = l[r]
    BY <1>4, <1>6, <2>1
  <2> QED BY <2>2 DEF Ranked
<1> QED BY <1>1, <1>4, <1>5, <1>6 DEF Ranked, t

\* Linking a node at the head, whether it was in the list or not, leaves a
\* list without gaps.
LEMMA RankedMove ==
    ASSUME NEW l, IsFiniteSet(DOMAIN l), Ranked(l), NEW pc
    PROVE  Ranked(MoveToFront(l, pc))
<1> DEFINE D == DOMAIN l
           E == D \cup {pc}
           t == MoveToFront(l, pc)
           n == Cardinality(D)
<1>1. /\ DOMAIN t = E /\ t[pc] = 1
      /\ \A q \in E : q # pc /\ (pc \notin D \/ l[q] < l[pc]) => t[q] = l[q] + 1
      /\ \A q \in E : q # pc /\ ~(pc \notin D \/ l[q] < l[pc]) => t[q] = l[q]
  BY DEF MoveToFront
<1>2. /\ \A q \in D : l[q] \in Int /\ l[q] >= 1 /\ l[q] = Cardinality(UpTo(l, D, q))
      /\ \A q, r \in D : l[q] = l[r] => q = r
  <2>1. n \in Nat /\ \A q \in D : l[q] \in 1 .. n
    BY FS_CardinalityType, RankBounds
  <2> QED BY <2>1 DEF Ranked
<1>3. \A q \in D : IsFiniteSet(UpTo(l, D, q))
  <2>1. \A q \in D : UpTo(l, D, q) \in SUBSET D
    BY DEF UpTo
  <2> QED BY <2>1, FS_Subset
<1> HIDE DEF t, n
<1>4. \A q \in E : t[q] \in Int
  BY <1>1, <1>2
<1>5. \A q, r \in E : t[q] = t[r] => q = r
  BY <1>1, <1>2
<1>6. ASSUME NEW q \in E PROVE t[q] = Cardinality(UpTo(t, E, q))
  <2>1. CASE q = pc
    <3>1. UpTo(t, E, q) = {pc}
      <4>1. ASSUME NEW r \in E PROVE t[r] <= t[pc] <=> r = pc
        <5>1. r # pc => r \in D /\ l[r] \in Int /\ l[r] >= 1
          BY <1>2
        <5>2. r # pc => t[r] >= 2
          <6> SUFFICES ASSUME r # pc PROVE t[r] >= 2
            OBVIOUS
          <6>1. CASE pc \notin D \/ l[r] < l[pc]
            BY <1>1, <5>1, <6>1
          <6>2. CASE ~(pc \notin D \/ l[r] < l[pc])
            <7>1. l[pc] \in Int /\ l[pc] >= 1 /\ l[r] # l[pc] /\ l[r] \in Int
              BY <1>2, <5>1, <6>2
            <7>2. t[r] = l[r]
              BY <1>1, <6>2
            <7> QED BY <6>2, <7>1, <7>2
          <6> QED BY <6>1, <6>2
        <5> QED BY <1>1, <1>4, <5>2
      <4> QED BY <2>1, <4>1 DEF UpTo
    <3> QED BY <1>1, <2>1, <3>1, FS_Singleton
  <2>2. CASE q # pc /\ (pc \notin D \/ l[q] < l[pc])
    <3>1. q \in D /\ t[q] = l[q] + 1
      BY <1>1, <2>2
    <3>2. pc \notin UpTo(l, D, q)
      <4>1. pc \in D => ~(l[pc] <= l[q])
        BY <1>2, <2>2, <3>1
      <4> QED BY <4>1 DEF UpTo
    <3>3. ASSUME NEW r \in E PROVE t[r] <= t[q] <=> r = pc \/ (r \in D /\ l[r] <= l[q])
      BY <1>1, <1>2, <2>2, <3>1
    <3>4. UpTo(t, E, q) = UpTo(l, D, q) \cup {pc}
      BY <3>3 DEF UpTo
    <3>5. Cardinality(UpTo(l, D, q) \cup {pc}) = Cardinality(UpTo(l, D, q)) + 1
      BY <1>3, <3>1, <3>2, FS_AddElement
    <3> QED BY <1>2, <3>1, <3>4, <3>5
  <2>3. CASE q # pc /\ ~(pc \notin D \/ l[q] < l[pc])
    <3>1. q \in D /\ pc \in D /\ t[q] = l[q] /\ l[pc] < l[q]
      BY <1>1, <1>2, <2>3
    <3>2. ASSUME NEW r \in E PROVE t[r] <= t[q] <=> l[r] <= l[q]
      BY <1>1, <1>2, <2>3, <3>1
    <3>3. UpTo(t, E, q) = UpTo(l, D, q)
      BY <3>1, <3>2 DEF UpTo
    <3> QED BY <1>2, <3>1, <3>3
  <2> QED BY <2>1, <2>2, <2>3
<1> QED BY <1>1, <1>4, <1>5, <1>6 DEF Ranked, t

\* A list that is not empty has a last node.
LEMMA TailExists ==
    ASSUME NEW l, IsFiniteSet(DOMAIN l), Ranked(l), DOMAIN l # {}
    PROVE  \E q \in DOMAIN l : \A r \in DOMAIN l : l[r] <= l[q]
<1> DEFINE n == Cardinality(DOMAIN l)
<1>1. n \in Nat /\ n # 0
  BY FS_CardinalityType, FS_EmptySet
<1>2. {l[q] : q \in DOMAIN l} = 1 .. n /\ \A q \in DOMAIN l : l[q] \in 1 .. n
  BY RankedPositions, RankBounds
<1>3. n \in {l[q] : q \in DOMAIN l}
  BY <1>1, <1>2
<1> QED BY <1>1, <1>2, <1>3

\* LruTail finds it;
LEMMA TailLinked ==
    ASSUME NEW l, IsFiniteSet(DOMAIN l), Ranked(l), DOMAIN l # {}
    PROVE  LruTail(l) \in DOMAIN l
  BY TailExists DEF LruTail

\* it is behind all others.
LEMMA TailBehind ==
    ASSUME NEW l, IsFiniteSet(DOMAIN l), Ranked(l), DOMAIN l # {}
    PROVE  \A r \in DOMAIN l : l[r] <= l[LruTail(l)]
  BY TailExists DEF LruTail

ListInv == Ranked(lru) /\ Cardinality(DOMAIN map) <= Capacity

\* Every operation keeps the list ranked and the number of entries in bounds.
LEMMA ListStep == TypeOK /\ ListInv /\ [Next]_vars => ListInv'
<1> SUFFICES ASSUME TypeOK, ListInv, [Next]_vars PROVE ListInv'
  OBVIOUS
<1>1. /\ DOMAIN lru = DOMAIN map /\ IsFiniteSet(DOMAIN lru) /\ Ranked(lru)
      /\ Cardinality(DOMAIN map) <= Capacity /\ Cardinality(DOMAIN map) \in Nat /\ Capacity \in Nat \ {0}
  BY FS_CardinalityType, SizeAssumption DEF TypeOK, ListInv
<1>2. ASSUME NEW S, Drop(S) PROVE ListInv'
  <2>1. lru' = Unlink(lru, S) /\ DOMAIN map' = DOMAIN map \ S
    BY <1>2 DEF Drop, Except
  <2>2. DOMAIN map \ S \in SUBSET DOMAIN map
    OBVIOUS
  <2>3. Cardinality(DOMAIN map') <= Cardinality(DOMAIN map) /\ Cardinality(DOMAIN map') \in Nat
    BY <1>1, <2>1, <2>2, FS_Subset, FS_CardinalityType
  <2>4. Ranked(lru')
    BY <1>1, <2>1, RankedUnlink
  <2> QED BY <1>1, <2>3, <2>4 DEF ListInv
<1>3. ASSUME NEW pc, NEW b, AddExisting(pc, b) PROVE ListInv'
  <2>1. lru' = MoveToFront(lru, pc) /\ DOMAIN map' = DOMAIN map
    BY <1>3 DEF AddExisting, Put
  <2> QED BY <1>1, <2>1, RankedMove DEF ListInv
<1>4. ASSUME NEW pc, NEW b, AddNew(pc, b) PROVE ListInv'
  <2> DEFINE D == DOMAIN map \cup {pc}
             l == MoveToFront(lru, pc)
  <2>1. pc \notin DOMAIN map /\ DOMAIN Put(map, pc, b) = D /\ DOMAIN l = D
    BY <1>1, <1>4 DEF AddNew, Put, MoveToFront
  <2>2. IsFiniteSet(D) /\ Cardinality(D) = Cardinality(DOMAIN map) + 1
    BY <1>1, <2>1, FS_AddElement
  <2>3. Ranked(l)
    BY <1>1, RankedMove
  <2>4. CASE Cardinality(D) > Capacity
    <3>1. lru' = Unlink(l, {LruTail(l)}) /\ DOMAIN map' = D \ {LruTail(l)}
      BY <1>4, <2>1, <2>4 DEF AddNew, Except
    <3>2. LruTail(l) \in D
      BY <2>1, <2>2, <2>3, TailLinked
    <3> HIDE DEF D, l
    <3>3. Cardinality(DOMAIN map') = Cardinality(D) - 1
      BY <2>2, <3>1, <3>2, FS_RemoveElement
    <3>4. Ranked(lru')
      BY <2>1, <2>2, <2>3, <3>1, RankedUnlink
    <3> QED BY <1>1, <2>2, <3>3, <3>4 DEF ListInv
  <2>5. CASE ~(Cardinality(D) > Capacity)
    <3>1. lru' = Unlink(l, {}) /\ DOMAIN map' = D
      BY <1>4, <2>1, <2>5 DEF AddNew, Except
    <3> HIDE DEF D, l
    <3>2. Ranked(lru')
      BY <2>1, <2>2, <2>3, <3>1, RankedUnlink
    <3>3. Cardinality(DOMAIN map') <= Capacity
      BY <1>1, <2>2, <2>5, <3>1
    <3> QED BY <3>2, <3>3 DEF ListInv
  <2> QED BY <2>4, <2>5
<1>5. ASSUME NEW pc \in PC, TryGet(pc) PROVE ListInv'
  <2>1. lru' = MoveToFront(lru, pc) /\ map' = map
    BY <1>5 DEF TryGet
  <2> QED BY <1>1, <2>1, RankedMove DEF ListInv
<1>6. ASSUME NEW s \in Shape, Add(s) PROVE ListInv'
  BY <1>3, <1>4, <1>6 DEF Add
<1>7. ASSUME NEW pc \in PC, Invalidate(pc) PROVE ListInv'
  BY <1>2, <1>7 DEF Invalidate
<1>8. CASE Clear
  <2>1. DOMAIN map' = {} /\ DOMAIN lru' = {}
    BY <1>8 DEF Clear
  <2> QED BY <1>1, <2>1, FS_EmptySet DEF ListInv, Ranked
<1>9. ASSUME NEW a \in Addr, NEW v \in Byte, WriteByte(a, v) PROVE ListInv'
  BY <1>2, <1>9 DEF WriteByte
<1>10. CASE UNCHANGED vars
  BY <1>1, <1>10 DEF vars, ListInv
<1> QED BY <1>5, <1>6, <1>7, <1>8, <1>9, <1>10 DEF Next

\* From the empty list on.
LEMMA ListAlways == Spec => []ListInv
<1>1. Init => ListInv
  <2> SUFFICES ASSUME Init PROVE ListInv
    OBVIOUS
  <2>1. DOMAIN map = {} /\ DOMAIN lru = {}
    BY DEF Init
  <2> QED BY <2>1, FS_EmptySet, SizeAssumption DEF ListInv, Ranked
<1> QED BY <1>1, ListStep, TypeCorrect, PTL DEF Spec

\* _map and _lru hold the same entries, the list's positions are 1 .. Count
\* without gaps or sharing, and Count never exceeds _capacity.
THEOREM ListMatchesMap == Spec => []LruMatchesMap
<1>1. TypeOK /\ ListInv => LruMatchesMap
  <2> SUFFICES ASSUME TypeOK, ListInv PROVE LruMatchesMap
    OBVIOUS
  <2>1. DOMAIN lru = DOMAIN map /\ IsFiniteSet(DOMAIN lru) /\ Ranked(lru)
    BY DEF TypeOK, ListInv
  <2>2. {lru[q] : q \in DOMAIN lru} = 1 .. Cardinality(DOMAIN lru)
    BY <2>1, RankedPositions
  <2> QED BY <2>1, <2>2 DEF LruMatchesMap, ListInv
<1> QED BY <1>1, ListAlways, TypeCorrect, PTL
-----------------------------------------------------------------------------
(* Least recently used: the list's order is the order of use. *)

\* The entries in front of q are those used after it.
Front(l, q) == {r \in DOMAIN l : l[r] < l[q]}

SinceInv == DOMAIN since = DOMAIN map /\ \A q \in DOMAIN map : since[q] = Front(lru, q)

\* Unlinking takes the unlinked nodes out of what is in front of the others.
LEMMA FrontUnlink ==
    ASSUME NEW l, IsFiniteSet(DOMAIN l), Ranked(l), NEW S, NEW q \in DOMAIN l \ S
    PROVE  Front(Unlink(l, S), q) = Front(l, q) \cap (DOMAIN l \ S)
<1> DEFINE E == DOMAIN l \ S
           t == Unlink(l, S)
<1>1. DOMAIN t = E
  BY DEF Unlink
<1>2. Ranked(t) /\ \A x, y \in E : t[y] <= t[x] <=> l[y] <= l[x]
  BY RankedUnlink
<1> HIDE DEF t
<1>3. ASSUME NEW r \in E PROVE t[r] < t[q] <=> l[r] < l[q]
  <2>1. t[r] \in Int /\ t[q] \in Int /\ l[r] \in Int /\ l[q] \in Int
    BY <1>1, <1>2 DEF Ranked
  <2>2. t[q] <= t[r] <=> l[q] <= l[r]
    BY <1>2
  <2> QED BY <2>1, <2>2
<1>4. Front(t, q) = Front(l, q) \cap E
  BY <1>1, <1>3 DEF Front
<1> QED BY <1>4 DEF t

\* A node moved to the head has nothing in front of it and is in front of all
\* others.
LEMMA FrontMove ==
    ASSUME NEW l, IsFiniteSet(DOMAIN l), Ranked(l), NEW pc, NEW q \in DOMAIN l \cup {pc}
    PROVE  Front(MoveToFront(l, pc), q) = IF q = pc THEN {} ELSE Front(l, q) \cup {pc}
<1> DEFINE D == DOMAIN l
           E == D \cup {pc}
           t == MoveToFront(l, pc)
           n == Cardinality(D)
<1>1. /\ DOMAIN t = E /\ t[pc] = 1
      /\ \A r \in E : r # pc /\ (pc \notin D \/ l[r] < l[pc]) => t[r] = l[r] + 1
      /\ \A r \in E : r # pc /\ ~(pc \notin D \/ l[r] < l[pc]) => t[r] = l[r]
  BY DEF MoveToFront
<1>2. /\ \A r \in D : l[r] \in Int /\ l[r] >= 1
      /\ \A r, x \in D : l[r] = l[x] => r = x
  <2>1. n \in Nat /\ \A r \in D : l[r] \in 1 .. n
    BY FS_CardinalityType, RankBounds
  <2> QED BY <2>1 DEF Ranked
<1> HIDE DEF t, n
<1>3. ASSUME NEW r \in E, r # pc PROVE t[r] \in Int /\ t[r] >= 2
  <2>1. r \in D /\ l[r] \in Int /\ l[r] >= 1
    BY <1>2, <1>3
  <2>2. CASE pc \notin D \/ l[r] < l[pc]
    BY <1>1, <1>3, <2>1, <2>2
  <2>3. CASE pc \in D /\ ~(l[r] < l[pc])
    <3>1. l[pc] \in Int /\ l[pc] >= 1 /\ l[r] # l[pc]
      BY <1>2, <1>3, <2>1, <2>3
    <3>2. t[r] = l[r]
      BY <1>1, <1>3, <2>3
    <3> QED BY <2>1, <2>3, <3>1, <3>2
  <2> QED BY <2>2, <2>3
<1>4. CASE q = pc
  <2>1. Front(t, q) = {}
    BY <1>1, <1>3, <1>4 DEF Front
  <2> QED BY <1>4, <2>1 DEF t
<1>5. CASE q # pc
  <2>1. t[pc] < t[q]
    BY <1>1, <1>3, <1>5
  <2>2. ASSUME NEW r \in D, r # pc PROVE t[r] < t[q] <=> l[r] < l[q]
    BY <1>1, <1>2, <1>5, <2>2
  <2>3. Front(t, q) = Front(l, q) \cup {pc}
    BY <1>1, <2>1, <2>2 DEF Front
  <2> QED BY <1>5, <2>3 DEF t
<1> QED BY <1>4, <1>5

\* What Add does to the keys and the list when there was no entry: nothing is
\* dropped, or the entry with all others in front of it.
LEMMA AddNewShape ==
    ASSUME TypeOK, ListInv, NEW pc, NEW b, AddNew(pc, b)
    PROVE  /\ pc \notin DOMAIN map /\ pc \in DOMAIN map'
           /\ \E S : /\ DOMAIN map' = (DOMAIN map \cup {pc}) \ S
                     /\ lru' = Unlink(MoveToFront(lru, pc), S)
                     /\ \A q \in S : /\ Cardinality(DOMAIN map) = Capacity
                                     /\ q \in DOMAIN map
                                     /\ DOMAIN map \ {q} \subseteq Front(lru, q)
<1> DEFINE D == DOMAIN map \cup {pc}
           l == MoveToFront(lru, pc)
           z == LruTail(l)
<1>1. /\ DOMAIN lru = DOMAIN map /\ IsFiniteSet(DOMAIN lru) /\ Ranked(lru)
      /\ Cardinality(DOMAIN map) <= Capacity /\ Cardinality(DOMAIN map) \in Nat /\ Capacity \in Nat \ {0}
  BY FS_CardinalityType, SizeAssumption DEF TypeOK, ListInv
<1>2. pc \notin DOMAIN map /\ DOMAIN Put(map, pc, b) = D /\ DOMAIN l = D
  BY <1>1 DEF AddNew, Put, MoveToFront
<1>3. IsFiniteSet(D) /\ Cardinality(D) = Cardinality(DOMAIN map) + 1
  BY <1>1, <1>2, FS_AddElement
<1>4. Ranked(l)
  BY <1>1, RankedMove
<1>5. CASE Cardinality(D) > Capacity
  <2>1. lru' = Unlink(l, {z}) /\ DOMAIN map' = D \ {z}
    BY <1>2, <1>5 DEF AddNew, Except
  <2>2. z \in D /\ \A r \in D : l[r] <= l[z]
    BY <1>2, <1>3, <1>4, TailLinked, TailBehind
  <2>3. Cardinality(DOMAIN map) = Capacity
    BY <1>1, <1>3, <1>5
  <2>4. \A q \in DOMAIN lru : lru[q] \in Int /\ lru[q] >= 1 /\ l[q] = lru[q] + 1
    <3>1. Cardinality(DOMAIN lru) \in Nat /\ \A q \in DOMAIN lru : lru[q] \in 1 .. Cardinality(DOMAIN lru)
      BY <1>1, RankBounds
    <3> QED BY <1>1, <1>2, <3>1 DEF MoveToFront
  <2>5. l[pc] = 1
    BY DEF MoveToFront
  <2>6. DOMAIN map # {}
    BY <1>1, <2>3, FS_EmptySet
  <2> HIDE DEF l, z
  <2>7. z # pc
    <3>1. PICK r \in DOMAIN map : TRUE
      BY <2>6
    <3>2. l[r] >= 2 /\ l[r] \in Int /\ l[r] <= l[z]
      BY <1>1, <2>2, <2>4, <3>1
    <3> QED BY <2>5, <3>2
  <2>8. z \in DOMAIN map
    BY <2>2, <2>7
  <2>9. ASSUME NEW r \in DOMAIN map, r # z PROVE lru[r] < lru[z]
    <3>1. lru[r] \in Int /\ lru[z] \in Int /\ l[r] = lru[r] + 1 /\ l[z] = lru[z] + 1
      BY <1>1, <2>4, <2>8
    <3>2. l[r] <= l[z]
      BY <2>2
    <3>3. lru[r] # lru[z]
      BY <1>1, <2>8, <2>9 DEF Ranked
    <3> QED BY <3>1, <3>2, <3>3
  <2>10. DOMAIN map \ {z} \subseteq Front(lru, z)
    BY <1>1, <2>9 DEF Front
  <2> QED BY <1>2, <2>1, <2>3, <2>7, <2>8, <2>10 DEF l
<1>6. CASE ~(Cardinality(D) > Capacity)
  <2>1. lru' = Unlink(l, {}) /\ DOMAIN map' = D \ {}
    BY <1>2, <1>6 DEF AddNew, Except
  <2> QED BY <1>2, <2>1
<1> QED BY <1>5, <1>6

\* A use that moves the node to the head and then unlinks some keeps the order
\* of the list that of the history;
LEMMA SinceMoved ==
    ASSUME TypeOK, ListInv, SinceInv, NEW pc, NEW S, DOMAIN map' = (DOMAIN map \cup {pc}) \ S,
           lru' = Unlink(MoveToFront(lru, pc), S), Used({pc})
    PROVE  SinceInv'
<1> DEFINE l == MoveToFront(lru, pc)
           E == (DOMAIN map \cup {pc}) \ S
<1>1. DOMAIN lru = DOMAIN map /\ IsFiniteSet(DOMAIN lru) /\ Ranked(lru)
  BY DEF TypeOK, ListInv
<1>2. DOMAIN l = DOMAIN map \cup {pc} /\ IsFiniteSet(DOMAIN l)
  BY <1>1, FS_AddElement DEF MoveToFront
<1>3. Ranked(l)
  BY <1>1, RankedMove
<1>4. /\ DOMAIN since' = E
      /\ \A q \in E : since'[q] = (IF q = pc THEN {} ELSE since[q] \cup {pc}) \cap E
  BY DEF Used
<1>5. ASSUME NEW q \in E PROVE since'[q] = Front(lru', q)
  <2>1. Front(l, q) = IF q = pc THEN {} ELSE Front(lru, q) \cup {pc}
    BY <1>1, FrontMove
  <2>2. q # pc => since[q] = Front(lru, q)
    BY DEF SinceInv
  <2> HIDE DEF l
  <2>3. Front(Unlink(l, S), q) = Front(l, q) \cap (DOMAIN l \ S)
    BY <1>2, <1>3, FrontUnlink
  <2>4. Front(lru', q) = Front(l, q) \cap E
    BY <1>2, <2>3 DEF l
  <2> QED BY <1>4, <2>1, <2>2, <2>4
<1> QED BY <1>4, <1>5 DEF SinceInv
\* without an unlinked node,
LEMMA SincePromoted ==
    ASSUME TypeOK, ListInv, SinceInv, NEW pc, DOMAIN map' = DOMAIN map, pc \in DOMAIN map,
           lru' = MoveToFront(lru, pc), Used({pc})
    PROVE  SinceInv'
<1>1. DOMAIN lru = DOMAIN map /\ IsFiniteSet(DOMAIN lru) /\ Ranked(lru)
  BY DEF TypeOK, ListInv
<1>2. /\ DOMAIN since' = DOMAIN map
      /\ \A q \in DOMAIN map :
            since'[q] = (IF q = pc THEN {} ELSE since[q] \cup {pc}) \cap DOMAIN map
  BY DEF Used
<1>3. ASSUME NEW q \in DOMAIN map PROVE since'[q] = Front(lru', q)
  <2>1. Front(lru', q) = IF q = pc THEN {} ELSE Front(lru, q) \cup {pc}
    BY <1>1, FrontMove
  <2>2. since[q] = Front(lru, q) /\ Front(lru, q) \subseteq DOMAIN map
    BY <1>1 DEF SinceInv, Front
  <2> QED BY <1>2, <2>1, <2>2
<1> QED BY <1>2, <1>3 DEF SinceInv

\* and so does dropping entries.
LEMMA SinceDropped ==
    ASSUME TypeOK, ListInv, SinceInv, NEW S, Drop(S), Used({})
    PROVE  SinceInv'
<1> DEFINE E == DOMAIN map \ S
<1>1. DOMAIN lru = DOMAIN map /\ IsFiniteSet(DOMAIN lru) /\ Ranked(lru)
  BY DEF TypeOK, ListInv
<1>2. DOMAIN map' = E /\ lru' = Unlink(lru, S)
  BY DEF Drop, Except
<1>3. DOMAIN since' = E /\ \A q \in E : since'[q] = since[q] \cap E
  BY <1>2 DEF Used
<1>4. ASSUME NEW q \in E PROVE since'[q] = Front(lru', q)
  <2>1. Front(lru', q) = Front(lru, q) \cap E
    BY <1>1, <1>2, FrontUnlink
  <2> QED BY <1>3, <2>1 DEF SinceInv
<1> QED BY <1>2, <1>3, <1>4 DEF SinceInv

\* Every operation keeps the order of the list that of the history.
LEMMA SinceStep == TypeOK /\ ListInv /\ SinceInv /\ [RNext]_<<vars, since>> => SinceInv'
<1> SUFFICES ASSUME TypeOK, ListInv, SinceInv, [RNext]_<<vars, since>> PROVE SinceInv'
  OBVIOUS
<1>1. ASSUME NEW pc \in PC, TryGet(pc), Used({pc}) PROVE SinceInv'
  <2>1. pc \in DOMAIN map /\ map' = map /\ lru' = MoveToFront(lru, pc)
    BY <1>1 DEF TryGet
  <2> QED BY <1>1, <2>1, SincePromoted
<1>2. ASSUME NEW s \in Shape, Add(s), Used({s.pc}) PROVE SinceInv'
  <2> DEFINE pc == s.pc
             b == Compile(s)
  <2>1. Used({pc}) /\ (AddExisting(pc, b) \/ AddNew(pc, b))
    BY <1>2 DEF Add
  <2> HIDE DEF pc, b
  <2>2. CASE AddExisting(pc, b)
    <3>1. pc \in DOMAIN map /\ DOMAIN map' = DOMAIN map /\ lru' = MoveToFront(lru, pc)
      BY <2>2 DEF AddExisting, Put
    <3> QED BY <2>1, <3>1, SincePromoted
  <2>3. CASE AddNew(pc, b)
    <3>1. PICK S : /\ DOMAIN map' = (DOMAIN map \cup {pc}) \ S
                   /\ lru' = Unlink(MoveToFront(lru, pc), S)
      BY <2>3, AddNewShape
    <3> QED BY <2>1, <3>1, SinceMoved
  <2> QED BY <2>1, <2>2, <2>3
<1>3. ASSUME NEW pc \in PC, Invalidate(pc), Used({}) PROVE SinceInv'
  BY <1>3, SinceDropped DEF Invalidate
<1>4. ASSUME Clear, Used({}) PROVE SinceInv'
  <2>1. DOMAIN map' = {}
    BY <1>4 DEF Clear
  <2> QED BY <1>4, <2>1 DEF Used, SinceInv
<1>5. ASSUME NEW a \in Addr, NEW v \in Byte, WriteByte(a, v), Used({}) PROVE SinceInv'
  BY <1>5, SinceDropped DEF WriteByte
<1>6. CASE UNCHANGED <<vars, since>>
  BY <1>6 DEF vars, SinceInv, Front
<1> QED BY <1>1, <1>2, <1>3, <1>4, <1>5, <1>6 DEF RNext

\* The history variable only observes.
LEMMA HistoryObserves == RSpec => Spec
<1>1. RInit => Init
  BY DEF RInit
<1>2. [RNext]_<<vars, since>> => [Next]_vars
  BY DEF RNext, Next
<1> QED BY <1>1, <1>2, PTL DEF RSpec, Spec

\* An Add that gives up an entry gives up the one behind all others.
LEMMA GivesUpTail == ASSUME TypeOK, ListInv, SinceInv PROVE GivesUpLeastRecent
<1> SUFFICES ASSUME NEW s \in Shape, Add(s)
             PROVE  /\ s.pc \in DOMAIN map'
                    /\ \A q \in DOMAIN map \ DOMAIN map' :
                          /\ Cardinality(DOMAIN map) = Capacity
                          /\ DOMAIN map' \subseteq since[q] \cup {s.pc}
  BY DEF GivesUpLeastRecent
<1> DEFINE pc == s.pc
           b == Compile(s)
<1>1. AddExisting(pc, b) \/ AddNew(pc, b)
  BY DEF Add
<1> SUFFICES /\ pc \in DOMAIN map'
             /\ \A q \in DOMAIN map \ DOMAIN map' :
                   /\ Cardinality(DOMAIN map) = Capacity
                   /\ DOMAIN map' \subseteq since[q] \cup {pc}
  OBVIOUS
<1> HIDE DEF pc, b
<1>2. CASE AddExisting(pc, b)
  <2>1. pc \in DOMAIN map /\ DOMAIN map' = DOMAIN map
    BY <1>2 DEF AddExisting, Put
  <2> QED BY <2>1
<1>3. CASE AddNew(pc, b)
  <2>1. pc \in DOMAIN map'
    BY <1>3, AddNewShape
  <2>2. PICK S : /\ DOMAIN map' = (DOMAIN map \cup {pc}) \ S
                 /\ \A q \in S : /\ Cardinality(DOMAIN map) = Capacity
                                 /\ q \in DOMAIN map
                                 /\ DOMAIN map \ {q} \subseteq Front(lru, q)
    BY <1>3, AddNewShape
  <2>3. ASSUME NEW q \in DOMAIN map \ DOMAIN map'
        PROVE  /\ Cardinality(DOMAIN map) = Capacity
               /\ DOMAIN map' \subseteq since[q] \cup {pc}
    <3>1. q \in S
      BY <2>2, <2>3
    <3>2. Cardinality(DOMAIN map) = Capacity /\ DOMAIN map \ {q} \subseteq since[q]
      BY <2>2, <3>1 DEF SinceInv
    <3>3. DOMAIN map' \subseteq (DOMAIN map \ {q}) \cup {pc}
      BY <2>2, <3>1
    <3> QED BY <3>2, <3>3
  <2> QED BY <2>1, <2>3
<1> QED BY <1>1, <1>2, <1>3

\* BlockCache.Add evicts only when the cache is full, and then the entry that
\* all others were looked up or added after, whatever Invalidate, Clear and
\* memory writes came in between.
THEOREM LeastRecentlyUsedEvicted == RSpec => EvictsLeastRecentlyUsed
<1>1. RInit => SinceInv
  BY DEF RInit, Init, SinceInv
<1>2. TypeOK /\ ListInv /\ SinceInv /\ [RNext]_<<vars, since>> => [GivesUpLeastRecent]_<<vars, since>>
  BY GivesUpTail
<1> QED BY <1>1, <1>2, SinceStep, HistoryObserves, TypeCorrect, ListAlways, PTL
        DEF RSpec, EvictsLeastRecentlyUsed
=============================================================================
