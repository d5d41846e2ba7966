------------------------- MODULE MemAllocatorSteps --------------------------
(***************************************************************************)
(* What the functions of the allocator do, for every table size, region    *)
(* table and request: each keeps the descriptor table packed, ordered and  *)
(* free of overlap and the usage counters exact, and a request fails only  *)
(* when it must.                                                           *)
(*                                                                         *)
(* HeapInv is inductive.  Its core is Disjoint: the blocks are disjoint    *)
(* AND in table order.  Disjointness alone would not survive, since the    *)
(* gap search relies on the order; the order alone says nothing of sizes.  *)
(* Sound adds the counters.  What an entry point does is stated about the  *)
(* set Live of its descriptors, which is what AbstractHeap sees.           *)
(***************************************************************************)
EXTENDS MemAllocator, TLAPS

\* The heap values.
RegionTables ==
  UNION {[D -> [start : Nat \ {0}, size : 1..U32_MAX, memory_used : 0..U32_MAX]] :
           D \in SUBSET (0..MAX_MEM_REGIONS-1)}

Heaps ==
  [blocks : [0..MAX_BLOCKS-1 -> Blocks],
   block_count : 0..MAX_BLOCKS,
   need_sort : BOOLEAN,
   initialized : BOOLEAN,
   regions : RegionTables]

\* The inductive invariant, of a heap value rather than of the variable, so
\* that the functions of the allocator compose.
HeapInv(h) ==
  /\ h \in Heaps
  /\ RegionTable(h.regions)
  /\ Packed(h)
  /\ Disjoint(h)
  /\ \A i \in 0..h.block_count-1 : Placed(h, h.blocks[i])

\* The live descriptors, as a set.
Live(h) == {h.blocks[i] : i \in 0..h.block_count-1}

\* The first n entries of a table, and that no two of them are the same.
Entries(f, n) == {f[i] : i \in 0..(n - 1)}
Distinct(f, n) == \A i, j \in 0..(n - 1) : f[i] = f[j] => i = j

\* What the proofs need to know of sets of numbers and of cardinalities.  It is
\* shown in MemAllocatorProofs (SetFactsHold), where the library's theorems on
\* finite sets come in: the many facts of the library would slow down every
\* proof that has them in its context.
SetFacts ==
  /\ \A S \in SUBSET Nat : S # {} => \E x \in S : \A y \in S : x <= y
  /\ Cardinality({}) = 0
  /\ \A a, b \in Int :
        IsFiniteSet(a..b) /\ Cardinality(a..b) = IF a > b THEN 0 ELSE b - a + 1
  /\ \A S, T : IsFiniteSet(T) /\ S \subseteq T =>
        IsFiniteSet(S) /\ Cardinality(S) \in Nat /\ Cardinality(S) <= Cardinality(T)
  /\ \A S, T : IsFiniteSet(S) /\ IsFiniteSet(T) =>
        Cardinality(S \cup T) = Cardinality(S) + Cardinality(T) - Cardinality(S \cap T)
  /\ \A n \in Nat : \A f : Distinct(f, n) => Cardinality(Entries(f, n)) = n

\* Every non-empty set of naturals has a least element: Min, which picks the
\* first gap, insert position, region and descriptor, is well defined.
LEMMA MinNat ==
  ASSUME SetFacts, NEW S \in SUBSET Nat, S # {}
  PROVE  Min(S) \in S /\ \A y \in S : Min(S) <= y
<1>1. \E x \in S : \A y \in S : x <= y
  BY Zenon DEF SetFacts
<1> QED BY <1>1, ZenonT(30) DEF Min

\* The bytes of a range.
LEMMA Interval ==
  ASSUME SetFacts, NEW a \in Int, NEW b \in Int
  PROVE  /\ IsFiniteSet(a..b)
         /\ Cardinality(a..b) = IF a > b THEN 0 ELSE b - a + 1
  BY Zenon DEF SetFacts

\* A part of a finite set is finite, and not larger.
LEMMA Subset ==
  ASSUME SetFacts, NEW S, NEW T, IsFiniteSet(T), S \subseteq T
  PROVE  IsFiniteSet(S) /\ Cardinality(S) \in Nat /\ Cardinality(S) <= Cardinality(T)
  BY Zenon DEF SetFacts

\* The number of elements of a finite set is a number.
LEMMA Count ==
  ASSUME SetFacts, NEW S, IsFiniteSet(S)
  PROVE  Cardinality(S) \in Nat
  BY Subset

\* Rounding up never goes below the value and adds less than one alignment.
LEMMA AlignUpBounds ==
  ASSUME NEW v \in Nat, NEW a \in Nat \ {0}
  PROVE  /\ ALIGN_UP(v, a) \in Nat
         /\ v <= ALIGN_UP(v, a)
         /\ ALIGN_UP(v, a) <= v + a - 1
<1> DEFINE x == v + a - 1
<1>1. x \in Nat /\ a \in Nat /\ 0 < a
  OBVIOUS
<1>2. x % a \in 0..(a - 1)
  BY <1>1
<1> QED BY <1>1, <1>2 DEF ALIGN_UP

\* Rounding up yields a multiple of the alignment.
LEMMA AlignUpMultiple ==
  ASSUME NEW v \in Nat, NEW a \in Nat \ {0}
  PROVE  ALIGN_UP(v, a) % a = 0
<1> DEFINE x == v + a - 1
           q == x \div a
<1>0. x \in Nat
  OBVIOUS
<1> HIDE DEF x
<1>1. x % a \in 0..(a-1) /\ x = a * q + (x % a) /\ q \in Int
  BY <1>0, SMTT(30)
<1>2. x - (x % a) = a * q
  BY <1>0, <1>1
<1>3. \A k \in Int : (a * k) % a = 0
  BY SMTT(30)
<1> HIDE DEF q
<1>4. (x - (x % a)) % a = 0
  BY <1>1, <1>2, <1>3, ZenonT(30)
<1> QED BY <1>4 DEF ALIGN_UP, x

\* What HeapInv says of one live block, with its fields typed.
LEMMA LiveBlock ==
  ASSUME NEW h, HeapInv(h), NEW i \in 0..h.block_count-1
  PROVE  /\ i \in 0..MAX_BLOCKS-1
         /\ h.blocks[i] \in Blocks
         /\ h.blocks[i].status = "USED"
         /\ h.blocks[i].region_id \in DOMAIN h.regions
         /\ h.blocks[i].start \in Nat /\ h.blocks[i].actual_size \in Nat
         /\ h.blocks[i].start < BlockEnd(h.blocks[i])
<1>1. h.block_count \in 0..MAX_BLOCKS /\ h.blocks \in [0..MAX_BLOCKS-1 -> Blocks]
  BY DEF HeapInv, Heaps
<1>2. i \in 0..MAX_BLOCKS-1 /\ i < h.block_count
  BY <1>1, SizesAssumption
<1>3. h.blocks[i] \in Blocks
  BY <1>1, <1>2, ZenonT(30)
<1>4. h.blocks[i].status = "USED"
  BY <1>2 DEF HeapInv, Packed
<1>5. Placed(h, h.blocks[i])
  BY DEF HeapInv
<1> QED BY <1>2, <1>3, <1>4, <1>5 DEF Placed, BlockEnd, Blocks

\* On an ordered table the exchange sort changes nothing but need_sort.
LEMMA SortKeeps ==
  ASSUME NEW h, HeapInv(h)
  PROVE  /\ HeapInv(ensure_blocks_sorted(h))
         /\ ensure_blocks_sorted(h).blocks = h.blocks
         /\ ensure_blocks_sorted(h).block_count = h.block_count
         /\ ensure_blocks_sorted(h).regions = h.regions
         /\ ensure_blocks_sorted(h).initialized = h.initialized
<1>1. ASSUME NEW i \in 0..h.block_count-1, NEW j \in 0..h.block_count-1, i < j
      PROVE  ~(h.blocks[j].start < h.blocks[i].start)
  <2>1. h.blocks[i].start < BlockEnd(h.blocks[i]) /\ BlockEnd(h.blocks[i]) <= h.blocks[j].start
    BY <1>1, LiveBlock DEF HeapInv, Disjoint
  <2>2. h.blocks[i].start \in Nat /\ h.blocks[j].start \in Nat /\ h.blocks[i].actual_size \in Nat
    BY LiveBlock
  <2> QED BY <2>1, <2>2 DEF BlockEnd
<1>2. ~Inverted(h)
  BY <1>1 DEF Inverted
<1>3. h \in Heaps
  BY DEF HeapInv
<1>4. ensure_blocks_sorted(h) = h \/ ensure_blocks_sorted(h) = [h EXCEPT !.need_sort = FALSE]
  <2>1. [h EXCEPT !.blocks = h.blocks, !.need_sort = FALSE] = [h EXCEPT !.need_sort = FALSE]
    BY <1>3, ZenonT(30) DEF Heaps
  <2> QED BY <1>2, <2>1 DEF ensure_blocks_sorted, SortedBlocks
<1>5. CASE ensure_blocks_sorted(h) = [h EXCEPT !.need_sort = FALSE]
  <2> DEFINE g == [h EXCEPT !.need_sort = FALSE]
  <2>1. /\ g \in Heaps /\ g.blocks = h.blocks /\ g.block_count = h.block_count
        /\ g.regions = h.regions /\ g.initialized = h.initialized
    BY <1>3, ZenonT(30) DEF Heaps
  <2> HIDE DEF g
  <2>2. HeapInv(g)
    BY <2>1 DEF HeapInv, Packed, Disjoint, Placed
  <2> QED BY <2>1, <2>2, <1>5 DEF g
<1> QED BY <1>4, <1>5

\* [p, p+n) touches no live block of h.
FreeRange(h, p, n) ==
  \A i \in 0..h.block_count-1 : BlockEnd(h.blocks[i]) <= p \/ p + n <= h.blocks[i].start

\* A gap lies between the start and the end of its region and touches no block
\* of that region.
LEMMA GapIsFree ==
  ASSUME SetFacts, NEW h, HeapInv(h), NEW r \in DOMAIN h.regions, NEW k \in Gaps(h, r)
  PROVE  /\ GapStart(h, r, k) \in Nat /\ GapEnd(h, r, k) \in Nat
         /\ h.regions[r].start <= GapStart(h, r, k)
         /\ GapEnd(h, r, k) <= RegionEnd(h.regions[r])
         /\ \A i \in UsedIn(h, r) :
               \/ BlockEnd(h.blocks[i]) <= GapStart(h, r, k)
               \/ GapEnd(h, r, k) <= h.blocks[i].start
<1>0. /\ h.block_count \in Nat
      /\ h.regions[r].start \in Nat /\ h.regions[r].size \in Nat
  BY SizesAssumption DEF HeapInv, Heaps, RegionTable
<1>1. ASSUME NEW i \in UsedIn(h, r)
      PROVE  /\ i \in 0..h.block_count-1 /\ i \in Nat
             /\ h.blocks[i].start \in Nat /\ BlockEnd(h.blocks[i]) \in Nat
             /\ h.blocks[i].start <= BlockEnd(h.blocks[i])
             /\ h.regions[r].start <= h.blocks[i].start
             /\ BlockEnd(h.blocks[i]) <= RegionEnd(h.regions[r])
  <2>1. i \in 0..h.block_count-1 /\ h.blocks[i].region_id = r
    BY DEF UsedIn
  <2>2. Placed(h, h.blocks[i])
    BY <2>1 DEF HeapInv
  <2>3. h.blocks[i].start \in Nat /\ h.blocks[i].actual_size \in Nat
    BY <2>1, LiveBlock
  <2> QED BY <2>1, <2>2, <2>3, <1>0 DEF Placed, BlockEnd
<1>2. k \in Nat /\ (k = 0 \/ k - 1 \in UsedIn(h, r))
  BY <1>1 DEF Gaps
<1>3. /\ GapStart(h, r, k) \in Nat
      /\ h.regions[r].start <= GapStart(h, r, k)
  BY <1>0, <1>1, <1>2 DEF GapStart
<1> DEFINE after == {i \in UsedIn(h, r) : i >= k}
<1>4. after # {} => /\ Min(after) \in after
                    /\ \A i \in after : Min(after) <= i
  <2>1. after \in SUBSET Nat
    BY <1>1
  <2> HIDE DEF after
  <2> QED BY <2>1, MinNat
<1>5. GapEnd(h, r, k) = IF after = {} THEN RegionEnd(h.regions[r]) ELSE h.blocks[Min(after)].start
  BY DEF GapEnd
<1>6. GapEnd(h, r, k) \in Nat /\ GapEnd(h, r, k) <= RegionEnd(h.regions[r])
  <2>1. CASE after = {}
    BY <2>1, <1>5, <1>0 DEF RegionEnd
  <2>2. CASE after # {}
    <3>1. Min(after) \in UsedIn(h, r)
      BY <2>2, <1>4
    <3> HIDE DEF after
    <3>2. GapEnd(h, r, k) = h.blocks[Min(after)].start
      BY <2>2, <1>5
    <3> QED BY <3>1, <3>2, <1>1, <1>0 DEF RegionEnd
  <2> QED BY <2>1, <2>2
<1>7. ASSUME NEW i \in UsedIn(h, r)
      PROVE  \/ BlockEnd(h.blocks[i]) <= GapStart(h, r, k)
             \/ GapEnd(h, r, k) <= h.blocks[i].start
  <2>1. CASE i < k
    <3>1. k - 1 \in UsedIn(h, r) /\ GapStart(h, r, k) = BlockEnd(h.blocks[k-1])
      BY <2>1, <1>1, <1>2 DEF GapStart
    <3>2. CASE i = k - 1
      BY <3>1, <3>2, <1>1
    <3>3. CASE i < k - 1
      <4>1. BlockEnd(h.blocks[i]) <= h.blocks[k-1].start
        BY <3>1, <3>3, <1>1 DEF HeapInv, Disjoint
      <4> QED BY <4>1, <3>1, <1>1
    <3> QED BY <2>1, <3>2, <3>3, <1>1, <1>2
  <2>2. CASE i >= k
    <3>1. i \in after
      BY <2>2
    <3>2. Min(after) \in UsedIn(h, r) /\ Min(after) <= i
      BY <3>1, <1>4
    <3>3. GapEnd(h, r, k) = h.blocks[Min(after)].start
      BY <3>1, <1>5
    <3> HIDE DEF after
    <3>4. CASE Min(after) = i
      BY <3>3, <3>4, <1>1
    <3>5. CASE Min(after) < i
      <4>1. BlockEnd(h.blocks[Min(after)]) <= h.blocks[i].start
        BY <3>2, <3>5, <1>1 DEF HeapInv, Disjoint
      <4> QED BY <4>1, <3>2, <3>3, <1>1
    <3> QED BY <3>2, <3>4, <3>5, <1>1
  <2> QED BY <2>1, <2>2, <1>1, <1>2
<1> QED BY <1>3, <1>6, <1>7

\* A bounded non-empty set of naturals has a greatest element.
LEMMA MaxBelow ==
  ASSUME SetFacts, NEW n \in Nat, NEW S \in SUBSET (0..n), S # {}
  PROVE  \E m \in S : \A y \in S : y <= m
<1> DEFINE D == {n - y : y \in S}
<1>1. D \in SUBSET Nat /\ D # {}
  <2>1. \A y \in S : n - y \in Nat
    OBVIOUS
  <2> QED BY <2>1, ZenonT(30)
<1>2. PICK d \in D : \A e \in D : d <= e
  <2> HIDE DEF D
  <2> QED BY <1>1, MinNat, Zenon
<1>3. PICK m \in S : d = n - m
  BY <1>2
<1>4. \A y \in S : n - m <= n - y
  BY <1>2, <1>3
<1> QED BY <1>4

\* Conversely, a range of the region that touches none of the region's blocks
\* lies in one of the gaps: the search, which looks at no other place, misses
\* none.
LEMMA GapsCover ==
  ASSUME SetFacts, NEW h, HeapInv(h), NEW r \in DOMAIN h.regions,
         NEW p \in Nat, NEW n \in Nat,
         h.regions[r].start <= p, p + n <= RegionEnd(h.regions[r]),
         \A i \in UsedIn(h, r) : BlockEnd(h.blocks[i]) <= p \/ p + n <= h.blocks[i].start
  PROVE  \E k \in Gaps(h, r) : GapStart(h, r, k) <= p /\ p + n <= GapEnd(h, r, k)
<1> DEFINE below == {i \in UsedIn(h, r) : BlockEnd(h.blocks[i]) <= p}
           after(k) == {i \in UsedIn(h, r) : i >= k}
<1>0. h.block_count \in Nat /\ UsedIn(h, r) \subseteq 0..h.block_count-1
  BY SizesAssumption DEF HeapInv, Heaps, UsedIn
<1>1. ASSUME NEW k \in Nat, \A i \in after(k) : i \notin below
      PROVE  p + n <= GapEnd(h, r, k)
  <2>1. CASE after(k) = {}
    BY <2>1 DEF GapEnd
  <2>2. CASE after(k) # {}
    <3>1. after(k) \in SUBSET Nat
      BY <1>0
    <3>2. Min(after(k)) \in after(k)
      <4> HIDE DEF after
      <4> QED BY <2>2, <3>1, MinNat
    <3>3. Min(after(k)) \in UsedIn(h, r) /\ Min(after(k)) \notin below
      BY <3>2, <1>1
    <3>4. GapEnd(h, r, k) = h.blocks[Min(after(k))].start
      BY <2>2 DEF GapEnd
    <3> HIDE DEF after
    <3> QED BY <3>3, <3>4
  <2> QED BY <2>1, <2>2
<1>2. CASE below = {}
  <2>1. p + n <= GapEnd(h, r, 0)
    BY <1>1, <1>2
  <2> QED BY <2>1 DEF Gaps, GapStart
<1>3. CASE below # {}
  <2>1. PICK m \in below : \A y \in below : y <= m
    <3>1. below \in SUBSET (0..h.block_count)
      BY <1>0
    <3> HIDE DEF below
    <3> QED BY <3>1, <1>0, <1>3, MaxBelow, Zenon
  <2>2. m \in Nat /\ m \in UsedIn(h, r) /\ BlockEnd(h.blocks[m]) <= p
    BY <2>1, <1>0
  <2>3. \A i \in after(m + 1) : i \notin below
    <3> SUFFICES ASSUME NEW i \in UsedIn(h, r), i >= m + 1, i \in below PROVE FALSE
      OBVIOUS
    <3>1. i \in Nat /\ i <= m
      BY <2>1, <1>0
    <3> QED BY <3>1, <2>2
  <2>4. p + n <= GapEnd(h, r, m + 1)
    BY <2>2, <2>3, <1>1
  <2>5. m + 1 \in Gaps(h, r) /\ GapStart(h, r, m + 1) = BlockEnd(h.blocks[m])
    BY <2>2 DEF Gaps, GapStart
  <2> QED BY <2>2, <2>4, <2>5
<1> QED BY <1>2, <1>3

\* Of two different multiples of a, the larger is at least a larger.
LEMMA Multiples ==
  ASSUME NEW a \in Nat \ {0}, NEW p \in Nat, NEW q \in Nat,
         p % a = 0, q % a = 0, p < q
  PROVE  p + a <= q
<1>1. p = a * (p \div a) /\ q = a * (q \div a) /\ p \div a \in Int /\ q \div a \in Int
  BY SMTT(30)
<1>2. \A x, y \in Int : a * x < a * y => a * x + a <= a * y
  <2> SUFFICES ASSUME NEW x \in Int, NEW y \in Int, a * x < a * y PROVE a * x + a <= a * y
    OBVIOUS
  <2>1. x < y
    BY SMTT(30)
  <2>2. x + 1 <= y
    BY <2>1
  <2>3. a * (x + 1) <= a * y
    BY <2>2, SMTT(30)
  <2> QED BY <2>3, SMTT(30)
<1> QED BY <1>1, <1>2, ZenonT(30)

\* Region r has an aligned place for n bytes that no live block touches.
Room(h, r, n, a) ==
  \E p \in Nat : /\ h.regions[r].start <= p
                 /\ p + n <= RegionEnd(h.regions[r])
                 /\ p % a = 0
                 /\ FreeRange(h, p, n)

\* A gap that fits makes the search succeed.
LEMMA GapServes ==
  ASSUME SetFacts, NEW h, HeapInv(h), NEW r \in DOMAIN h.regions,
         NEW n \in Nat \ {0}, NEW a \in Nat \ {0},
         NEW k \in Gaps(h, r), GapFits(h, r, k, n, a)
  PROVE  find_fit_in_region(h, r, n, a) # NULL
<1> DEFINE fits == {j \in Gaps(h, r) : GapFits(h, r, j, n, a)}
<1>1. fits \in SUBSET Nat /\ fits # {}
  BY SizesAssumption DEF Gaps, UsedIn, HeapInv, Heaps
<1>2. Min(fits) \in fits
  <2> HIDE DEF fits
  <2> QED BY <1>1, MinNat
<1>3. Min(fits) \in Gaps(h, r) /\ find_fit_in_region(h, r, n, a) = ALIGN_UP(GapStart(h, r, Min(fits)), a)
  BY <1>1, <1>2 DEF find_fit_in_region
<1> HIDE DEF fits
<1>4. /\ GapStart(h, r, Min(fits)) \in Nat /\ h.regions[r].start <= GapStart(h, r, Min(fits))
      /\ h.regions[r].start \in Nat \ {0}
  BY <1>3, GapIsFree DEF HeapInv, RegionTable
<1>5. /\ GapStart(h, r, Min(fits)) <= ALIGN_UP(GapStart(h, r, Min(fits)), a)
      /\ ALIGN_UP(GapStart(h, r, Min(fits)), a) \in Nat
  BY <1>4, AlignUpBounds
<1> QED BY <1>3, <1>4, <1>5 DEF NULL

\* First fit is complete: it fails in a region only if no aligned place for
\* the request exists there.
LEMMA FitComplete ==
  ASSUME SetFacts, NEW h, HeapInv(h), NEW r \in DOMAIN h.regions,
         NEW n \in Nat \ {0}, NEW a \in Nat \ {0}, Room(h, r, n, a)
  PROVE  find_fit_in_region(h, r, n, a) # NULL
<1>1. PICK p \in Nat : /\ h.regions[r].start <= p
                       /\ p + n <= RegionEnd(h.regions[r])
                       /\ p % a = 0
                       /\ FreeRange(h, p, n)
  BY DEF Room
<1>2. \A i \in UsedIn(h, r) : BlockEnd(h.blocks[i]) <= p \/ p + n <= h.blocks[i].start
  BY <1>1 DEF FreeRange, UsedIn
<1>3. PICK k \in Gaps(h, r) : GapStart(h, r, k) <= p /\ p + n <= GapEnd(h, r, k)
  BY <1>1, <1>2, GapsCover, Zenon
<1> DEFINE lo == GapStart(h, r, k)
           hi == GapEnd(h, r, k)
<1>4. lo \in Nat /\ hi \in Nat
  BY <1>3, GapIsFree
<1> HIDE DEF lo, hi
<1>5. /\ ALIGN_UP(lo, a) \in Nat /\ lo <= ALIGN_UP(lo, a)
      /\ ALIGN_UP(lo, a) <= lo + a - 1 /\ ALIGN_UP(lo, a) % a = 0
  BY <1>4, AlignUpBounds, AlignUpMultiple, Zenon
<1>6. ALIGN_UP(lo, a) <= p
  <2>1. ASSUME p < ALIGN_UP(lo, a) PROVE FALSE
    <3>1. p + a <= ALIGN_UP(lo, a)
      BY <2>1, <1>1, <1>5, Multiples
    <3>2. lo <= p
      BY <1>3 DEF lo
    <3> QED BY <3>1, <3>2, <1>4, <1>5
  <2> QED BY <2>1, <1>5
<1>7. lo <= p /\ p + n <= hi
  BY <1>3 DEF lo, hi
<1>8. hi - lo >= n /\ ALIGN_UP(lo, a) >= lo /\ ALIGN_UP(lo, a) + n <= hi
  BY <1>4, <1>5, <1>6, <1>7
<1>9. GapFits(h, r, k, n, a)
  BY <1>8 DEF GapFits, lo, hi
<1> QED BY <1>3, <1>9, GapServes

\* find_fit_in_region returns NULL or the start of a range inside the region
\* that touches no live block of any region.
LEMMA FitIsFree ==
  ASSUME SetFacts, NEW h, HeapInv(h), NEW r \in DOMAIN h.regions,
         NEW n \in Nat \ {0}, NEW a \in Nat \ {0},
         find_fit_in_region(h, r, n, a) # NULL
  PROVE  LET p == find_fit_in_region(h, r, n, a)
         IN  /\ p \in Nat
             /\ h.regions[r].start <= p
             /\ p + n <= RegionEnd(h.regions[r])
             /\ FreeRange(h, p, n)
             /\ p % a = 0
<1> DEFINE p == find_fit_in_region(h, r, n, a)
           fits == {k \in Gaps(h, r) : GapFits(h, r, k, n, a)}
           k == Min(fits)
<1>1. fits # {} /\ p = ALIGN_UP(GapStart(h, r, k), a)
  BY DEF find_fit_in_region
<1>2. k \in fits
  <2>1. fits \in SUBSET Nat
    BY SizesAssumption DEF Gaps, UsedIn, HeapInv, Heaps
  <2> HIDE DEF fits
  <2> QED BY <1>1, <2>1, MinNat
<1>3. k \in Gaps(h, r) /\ GapFits(h, r, k, n, a)
  BY <1>2
<1> HIDE DEF k, fits, p
<1> DEFINE lo == GapStart(h, r, k)
           hi == GapEnd(h, r, k)
<1>4. /\ lo \in Nat /\ hi \in Nat
      /\ h.regions[r].start <= lo
      /\ hi <= RegionEnd(h.regions[r])
      /\ \A i \in UsedIn(h, r) : BlockEnd(h.blocks[i]) <= lo \/ hi <= h.blocks[i].start
  BY <1>3, GapIsFree
<1>5. p \in Nat /\ lo <= p /\ p + n <= hi /\ p % a = 0
  <2>1. ALIGN_UP(lo, a) \in Nat /\ lo <= ALIGN_UP(lo, a) /\ ALIGN_UP(lo, a) % a = 0
    BY <1>4, AlignUpBounds, AlignUpMultiple
  <2>2. p = ALIGN_UP(lo, a) /\ p + n <= hi
    BY <1>1, <1>3 DEF GapFits
  <2> QED BY <2>1, <2>2
<1>6. h.regions[r].start \in Nat /\ h.regions[r].size \in Nat
  BY SizesAssumption DEF HeapInv, RegionTable
<1>7. h.regions[r].start <= p /\ p + n <= RegionEnd(h.regions[r])
  BY <1>4, <1>5, <1>6 DEF RegionEnd
<1> HIDE DEF lo, hi
<1>8. ASSUME NEW i \in 0..h.block_count-1
      PROVE  BlockEnd(h.blocks[i]) <= p \/ p + n <= h.blocks[i].start
  <2> DEFINE q == h.blocks[i].region_id
  <2>1. /\ q \in DOMAIN h.regions /\ h.blocks[i].status = "USED"
        /\ h.blocks[i].start \in Nat /\ h.blocks[i].actual_size \in Nat
    BY LiveBlock
  <2>2. CASE q = r
    <3>1. i \in UsedIn(h, r)
      BY <2>1, <2>2, SMTT(30) DEF UsedIn
    <3> QED BY <3>1, <1>4, <1>5, <2>1 DEF BlockEnd
  <2>3. CASE q # r
    <3>1. h.regions[q].start <= h.blocks[i].start /\ BlockEnd(h.blocks[i]) <= RegionEnd(h.regions[q])
      BY DEF HeapInv, Placed
    <3>2. \/ RegionEnd(h.regions[q]) <= h.regions[r].start
          \/ RegionEnd(h.regions[r]) <= h.regions[q].start
      BY <2>1, <2>3, SMTT(30) DEF HeapInv, RegionTable
    <3>3. h.regions[q].start \in Nat /\ h.regions[q].size \in Nat
      BY <2>1, SizesAssumption DEF HeapInv, RegionTable
    <3> QED BY <3>1, <3>2, <3>3, <2>1, <1>5, <1>6, <1>7, SMTT(30) DEF RegionEnd, BlockEnd
  <2> QED BY <2>2, <2>3
<1> QED BY <1>5, <1>7, <1>8 DEF p, FreeRange

\* Inserting a placed block into a free range keeps the table ordered.
LEMMA InsertKeeps ==
  ASSUME SetFacts, NEW h, HeapInv(h), h.block_count < MAX_BLOCKS,
         NEW b \in Blocks, b.status = "USED", Placed(h, b),
         FreeRange(h, b.start, b.actual_size)
  PROVE  LET g == insert_block_sorted(h, b)
         IN  /\ HeapInv(g)
             /\ g.regions = h.regions
             /\ g.initialized = h.initialized
             /\ g.block_count = h.block_count + 1
             /\ Live(g) = Live(h) \cup {b}
<1> DEFINE s == ensure_blocks_sorted(h)
           n == h.block_count
           above == {k \in 0..n : k = n \/ b.start < h.blocks[k].start}
           pos == Min(above)
           T == ShiftUp(s, InsertPos(s, b.start), b)
           g == [s EXCEPT !.blocks = T, !.block_count = @ + 1, !.need_sort = TRUE]
<1>1. /\ s \in Heaps /\ s.blocks = h.blocks /\ s.block_count = n /\ s.regions = h.regions
      /\ s.initialized = h.initialized
  BY SortKeeps DEF HeapInv
<1>2. n \in Nat /\ n < MAX_BLOCKS /\ h.blocks \in [0..MAX_BLOCKS-1 -> Blocks] /\ MAX_BLOCKS \in Nat
  BY SizesAssumption DEF HeapInv, Heaps
<1>3. insert_block_sorted(h, b) = g
  BY <1>2 DEF insert_block_sorted
<1>4. pos \in above /\ \A k \in above : pos <= k
  <2>1. above \in SUBSET Nat /\ n \in above
    BY <1>2
  <2> HIDE DEF above
  <2> QED BY <2>1, MinNat
<1>5. InsertPos(s, b.start) = pos
  BY <1>1, SMTT(30) DEF InsertPos
<1>6. pos \in 0..n /\ (pos = n \/ b.start < h.blocks[pos].start)
  BY <1>4, ZenonT(30)
<1>7. \A k \in 0..pos-1 : ~(b.start < h.blocks[k].start)
  <2> SUFFICES ASSUME NEW k \in 0..pos-1, b.start < h.blocks[k].start PROVE FALSE
    OBVIOUS
  <2>1. k \in 0..n /\ k < pos
    BY <1>6, <1>2
  <2>2. k \in above
    BY <2>1
  <2> QED BY <2>1, <2>2, <1>4, <1>6
<1> HIDE DEF pos, above
<1>8. /\ b.start \in Nat /\ b.actual_size \in Nat /\ b.start < BlockEnd(b)
  BY DEF Placed, BlockEnd, Blocks
<1>9. /\ T \in [0..MAX_BLOCKS-1 -> Blocks]
      /\ \A i \in 0..MAX_BLOCKS-1 :
            /\ i < pos => T[i] = h.blocks[i]
            /\ i = pos => T[i] = b
            /\ i > pos /\ i <= n => T[i] = h.blocks[i-1]
            /\ i > n => T[i] = h.blocks[i]
  <2>1. T = [i \in 0..MAX_BLOCKS-1 |->
               CASE i < pos -> h.blocks[i]
                 [] i = pos -> b
                 [] i > pos /\ i <= n -> h.blocks[i-1]
                 [] OTHER -> h.blocks[i]]
    BY <1>1, <1>5 DEF ShiftUp
  <2> HIDE DEF T
  <2>2. \A i \in 0..MAX_BLOCKS-1 :
            /\ i < pos => T[i] = h.blocks[i]
            /\ i = pos => T[i] = b
            /\ i > pos /\ i <= n => T[i] = h.blocks[i-1]
            /\ i > n => T[i] = h.blocks[i]
    BY <2>1, <1>2, <1>6
  <2>3. \A i \in 0..MAX_BLOCKS-1 : T[i] \in Blocks
    <3> SUFFICES ASSUME NEW i \in 0..MAX_BLOCKS-1 PROVE T[i] \in Blocks
      OBVIOUS
    <3>1. CASE i < pos
      BY <3>1, <2>2, <1>2
    <3>2. CASE i = pos
      BY <3>2, <2>2
    <3>3. CASE i > pos /\ i <= n
      BY <3>3, <2>2, <1>2, <1>6
    <3>4. CASE i > n
      BY <3>4, <2>2, <1>2, ZenonT(30)
    <3> QED BY <3>1, <3>2, <3>3, <3>4, <1>2, <1>6
  <2> QED BY <2>1, <2>2, <2>3
<1> HIDE DEF T
<1>10. /\ g \in Heaps /\ g.blocks = T /\ g.block_count = n + 1 /\ g.regions = h.regions
       /\ g.initialized = h.initialized
  <2> HIDE DEF s, n
  <2>1. s \in Heaps /\ T \in [0..MAX_BLOCKS-1 -> Blocks] /\ n + 1 \in 0..MAX_BLOCKS
    BY <1>1, <1>2, <1>9
  <2>2. g = [s EXCEPT !.blocks = T, !.block_count = n + 1, !.need_sort = TRUE]
    BY <1>1 DEF Heaps
  <2> HIDE DEF g
  <2> QED BY <2>1, <2>2, <1>1, ZenonT(30) DEF Heaps
<1> HIDE DEF g
<1>11. ASSUME NEW i \in 0..n-1
       PROVE  /\ h.blocks[i].start \in Nat /\ h.blocks[i].actual_size \in Nat
              /\ h.blocks[i].start < BlockEnd(h.blocks[i])
              /\ h.blocks[i].status = "USED"
              /\ Placed(h, h.blocks[i])
              /\ i < pos => BlockEnd(h.blocks[i]) <= b.start
              /\ i >= pos => BlockEnd(b) <= h.blocks[i].start
  <2>1. /\ h.blocks[i].start \in Nat /\ h.blocks[i].actual_size \in Nat
        /\ h.blocks[i].start < BlockEnd(h.blocks[i])
        /\ h.blocks[i].status = "USED"
    BY LiveBlock
  <2>2. Placed(h, h.blocks[i])
    BY DEF HeapInv
  <2>3. BlockEnd(h.blocks[i]) <= b.start \/ b.start + b.actual_size <= h.blocks[i].start
    BY DEF FreeRange
  <2>4. ASSUME i < pos PROVE BlockEnd(h.blocks[i]) <= b.start
    <3>1. ~(b.start < h.blocks[i].start)
      BY <2>4, <1>7, <1>6
    <3> QED BY <3>1, <2>1, <2>3, <1>8 DEF BlockEnd
  <2>5. ASSUME i >= pos PROVE BlockEnd(b) <= h.blocks[i].start
    <3>1. b.start < h.blocks[pos].start /\ pos \in 0..n-1
      BY <2>5, <1>6, <1>2
    <3>2. h.blocks[pos].start \in Nat /\ h.blocks[pos].actual_size \in Nat
      BY <3>1, LiveBlock
    <3>3. pos = i \/ BlockEnd(h.blocks[pos]) <= h.blocks[i].start
      BY <2>5, <3>1 DEF HeapInv, Disjoint
    <3> QED BY <3>1, <3>2, <3>3, <2>1, <2>3, <1>8 DEF BlockEnd
  <2> QED BY <2>1, <2>2, <2>4, <2>5
<1>12. Packed(g)
  <2> SUFFICES ASSUME NEW i \in 0..MAX_BLOCKS-1
               PROVE IF i < n + 1 THEN T[i].status = "USED" ELSE T[i] = FreeBlock
    BY <1>10 DEF Packed
  <2>1. CASE i < pos
    BY <2>1, <1>9, <1>11, <1>6, <1>2
  <2>2. CASE i = pos
    BY <2>2, <1>9, <1>6, <1>2
  <2>3. CASE i > pos /\ i <= n
    <3>1. T[i] = h.blocks[i-1] /\ i-1 \in 0..n-1 /\ i < n + 1
      BY <2>3, <1>9, <1>6, <1>2
    <3> QED BY <3>1, <1>11
  <2>4. CASE i > n
    <3>1. T[i] = h.blocks[i] /\ ~(i < n) /\ ~(i < n + 1)
      BY <2>4, <1>9, <1>2
    <3>2. h.blocks[i] = FreeBlock
      BY <3>1 DEF HeapInv, Packed
    <3> QED BY <3>1, <3>2
  <2> QED BY <2>1, <2>2, <2>3, <2>4, <1>2, <1>6
<1>13. Disjoint(g)
  <2> SUFFICES ASSUME NEW i \in 0..n, NEW j \in 0..n, i < j
               PROVE BlockEnd(T[i]) <= T[j].start
    BY <1>10, <1>2 DEF Disjoint
  <2>0. i \in 0..MAX_BLOCKS-1 /\ j \in 0..MAX_BLOCKS-1
    BY <1>2
  <2>1. CASE j < pos
    <3>1. T[i] = h.blocks[i] /\ T[j] = h.blocks[j] /\ i \in 0..n-1 /\ j \in 0..n-1
      BY <2>0, <2>1, <1>9, <1>6, <1>2, SMTT(30)
    <3> QED BY <3>1 DEF HeapInv, Disjoint
  <2>2. CASE j = pos
    BY <2>0, <2>2, <1>9, <1>11, <1>6, <1>2, SMTT(30)
  <2>3. CASE j > pos /\ i < pos
    <3>1. T[i] = h.blocks[i] /\ T[j] = h.blocks[j-1] /\ i \in 0..n-1 /\ j-1 \in 0..n-1
      BY <2>0, <2>3, <1>9, <1>6, <1>2, SMTT(30)
    <3>2. i < j - 1
      BY <2>3, <1>6, <1>2
    <3> QED BY <3>1, <3>2 DEF HeapInv, Disjoint
  <2>4. CASE j > pos /\ i = pos
    <3>1. T[i] = b /\ T[j] = h.blocks[j-1] /\ j-1 \in 0..n-1 /\ j - 1 >= pos
      BY <2>0, <2>4, <1>9, <1>6, <1>2
    <3> QED BY <3>1, <1>11
  <2>5. CASE i > pos
    <3>1. T[i] = h.blocks[i-1] /\ T[j] = h.blocks[j-1] /\ i-1 \in 0..n-1 /\ j-1 \in 0..n-1
      BY <2>0, <2>5, <1>9, <1>6, <1>2
    <3> QED BY <3>1 DEF HeapInv, Disjoint
  <2> QED BY <2>1, <2>2, <2>3, <2>4, <2>5, <1>6, <1>2, SMTT(30)
<1>14. \A i \in 0..n : Placed(h, T[i])
  <2> SUFFICES ASSUME NEW i \in 0..n PROVE Placed(h, T[i])
    OBVIOUS
  <2>1. CASE i < pos
    BY <2>1, <1>9, <1>11, <1>6, <1>2
  <2>2. CASE i = pos
    BY <2>2, <1>9, <1>2
  <2>3. CASE i > pos
    <3>1. T[i] = h.blocks[i-1] /\ i-1 \in 0..n-1
      BY <2>3, <1>9, <1>6, <1>2
    <3> QED BY <3>1, <1>11
  <2> QED BY <2>1, <2>2, <2>3, <1>2, <1>6
<1>15. HeapInv(g)
  <2>1. \A i \in 0..g.block_count-1 : Placed(g, g.blocks[i])
    BY <1>14, <1>10, <1>2 DEF Placed
  <2>2. RegionTable(g.regions)
    BY <1>10 DEF HeapInv
  <2> QED BY <2>1, <2>2, <1>10, <1>12, <1>13, SMTT(30) DEF HeapInv
<1>16. \A i \in 0..n : T[i] \in Live(h) \cup {b}
  <2> SUFFICES ASSUME NEW i \in 0..n PROVE T[i] = b \/ \E k \in 0..n-1 : T[i] = h.blocks[k]
    BY DEF Live
  <2>1. CASE i < pos
    BY <2>1, <1>9, <1>6, <1>2
  <2>2. CASE i = pos
    BY <2>2, <1>9, <1>2
  <2>3. CASE i > pos
    <3>1. T[i] = h.blocks[i-1] /\ i-1 \in 0..n-1
      BY <2>3, <1>9, <1>6, <1>2
    <3> QED BY <3>1
  <2> QED BY <2>1, <2>2, <2>3, <1>2, <1>6
<1>17. pos \in 0..n /\ T[pos] = b
  BY <1>9, <1>6, <1>2
<1>18. \A k \in 0..n-1 : \E i \in 0..n : T[i] = h.blocks[k]
  <2> SUFFICES ASSUME NEW k \in 0..n-1 PROVE \E i \in 0..n : T[i] = h.blocks[k]
    OBVIOUS
  <2>1. CASE k < pos
    BY <2>1, <1>9, <1>6, <1>2
  <2>2. CASE k >= pos
    <3>1. k + 1 \in 0..n /\ T[k+1] = h.blocks[k]
      BY <2>2, <1>9, <1>6, <1>2
    <3> QED BY <3>1
  <2> QED BY <2>1, <2>2, <1>6
<1>19. Live(g) = {T[i] : i \in 0..n}
  BY <1>10, <1>2 DEF Live
<1>20. Live(g) = Live(h) \cup {b}
  <2> HIDE DEF n
  <2>1. Live(h) = {h.blocks[k] : k \in 0..n-1}
    BY DEF Live, n
  <2> QED BY <1>16, <1>17, <1>18, <1>19, <2>1
<1> QED BY <1>3, <1>10, <1>15, <1>20

\* Changing only a region's memory_used keeps the invariant.
LEMMA ChargeKeeps ==
  ASSUME NEW h, HeapInv(h), NEW r \in DOMAIN h.regions, NEW m \in 0..U32_MAX
  PROVE  LET R == [h.regions EXCEPT ![r].memory_used = m]
         IN  /\ R \in RegionTables
             /\ RegionTable(R)
             /\ DOMAIN R = DOMAIN h.regions
             /\ \A q \in DOMAIN R : R[q].start = h.regions[q].start /\ R[q].size = h.regions[q].size
<1> DEFINE R == [h.regions EXCEPT ![r].memory_used = m]
           F == [start : Nat \ {0}, size : 1..U32_MAX, memory_used : 0..U32_MAX]
<1>1. PICK D \in SUBSET (0..MAX_MEM_REGIONS-1) : h.regions \in [D -> F]
  BY DEF HeapInv, Heaps, RegionTables
<1>2. R \in [D -> F] /\ DOMAIN R = D /\ DOMAIN h.regions = D
  BY <1>1
<1>3. R \in RegionTables
  BY <1>2 DEF RegionTables
<1>4. \A q \in DOMAIN R : R[q].start = h.regions[q].start /\ R[q].size = h.regions[q].size
  BY <1>1, <1>2
<1> HIDE DEF R
<1>5. RegionTable(R)
  BY <1>2, <1>4 DEF HeapInv, RegionTable, RegionEnd
<1> QED BY <1>2, <1>3, <1>4, <1>5 DEF R

\* HeapInv depends on the regions only through their bounds.
LEMMA RegionsKeep ==
  ASSUME NEW h, HeapInv(h), NEW R \in RegionTables, RegionTable(R),
         DOMAIN R = DOMAIN h.regions,
         \A q \in DOMAIN R : R[q].start = h.regions[q].start /\ R[q].size = h.regions[q].size
  PROVE  /\ HeapInv([h EXCEPT !.regions = R])
         /\ [h EXCEPT !.regions = R].blocks = h.blocks
         /\ [h EXCEPT !.regions = R].block_count = h.block_count
         /\ [h EXCEPT !.regions = R].regions = R
         /\ [h EXCEPT !.regions = R].initialized = h.initialized
<1> DEFINE g == [h EXCEPT !.regions = R]
<1>1. /\ g \in Heaps /\ g.blocks = h.blocks /\ g.block_count = h.block_count /\ g.regions = R
      /\ g.initialized = h.initialized
  BY DEF HeapInv, Heaps
<1> HIDE DEF g
<1>2. Packed(g) /\ Disjoint(g)
  BY <1>1, SMTT(30) DEF HeapInv, Packed, Disjoint
<1>3. \A i \in 0..g.block_count-1 : Placed(g, g.blocks[i])
  <2> SUFFICES ASSUME NEW i \in 0..h.block_count-1 PROVE Placed(g, h.blocks[i])
    BY <1>1
  <2>1. Placed(h, h.blocks[i])
    BY DEF HeapInv
  <2> QED BY <2>1, <1>1 DEF Placed, RegionEnd
<1>4. HeapInv(g)
  BY <1>1, <1>2, <1>3, SMTT(30) DEF HeapInv
<1> QED BY <1>1, <1>4 DEF g

\* A free slot is left exactly while block_count is below the table's length.
LEMMA FreeSlot ==
  ASSUME NEW h, HeapInv(h)
  PROVE  find_free_block(h) <=> h.block_count # MAX_BLOCKS
<1>1. h.block_count \in 0..MAX_BLOCKS /\ MAX_BLOCKS \in Nat
  BY SizesAssumption DEF HeapInv, Heaps
<1>2. ASSUME NEW i \in 0..MAX_BLOCKS-1, h.blocks[i].status = "FREE"
      PROVE  h.block_count # MAX_BLOCKS
  <2>1. ~(i < h.block_count)
    BY <1>2 DEF HeapInv, Packed
  <2> QED BY <2>1, <1>1
<1>3. ASSUME h.block_count # MAX_BLOCKS
      PROVE  h.block_count \in 0..MAX_BLOCKS-1 /\ h.blocks[h.block_count].status = "FREE"
  <2>1. h.block_count \in 0..MAX_BLOCKS-1 /\ ~(h.block_count < h.block_count)
    BY <1>1, <1>3
  <2>2. h.blocks[h.block_count] = FreeBlock
    BY <2>1 DEF HeapInv, Packed
  <2> QED BY <2>1, <2>2 DEF FreeBlock
<1> QED BY <1>2, <1>3 DEF find_free_block

\* g holds the same blocks, in the same regions, as h.
Same(g, h) ==
  /\ Live(g) = Live(h)
  /\ g.block_count = h.block_count
  /\ g.regions = h.regions
  /\ g.initialized = h.initialized

\* The descriptor of a block of `size' bytes at p in region r, charged n.
Descriptor(p, size, n, r) ==
  [start |-> p, size |-> size, actual_size |-> n, status |-> "USED", region_id |-> r]

\* g is h with the block b added, in a free range, and charged to its region.
Grown(g, h, b) ==
  /\ b \in Blocks
  /\ Placed(h, b)
  /\ FreeRange(h, b.start, b.actual_size)
  /\ h.block_count < MAX_BLOCKS
  /\ Live(g) = Live(h) \cup {b}
  /\ g.block_count = h.block_count + 1
  /\ g.regions = [h.regions EXCEPT ![b.region_id].memory_used =
                     (h.regions[b.region_id].memory_used + b.actual_size) % (U32_MAX + 1)]
  /\ g.initialized = h.initialized

\* One attempt in one region keeps the invariant.  It fails, and then changes
\* nothing, exactly when the table is full or the region has no room; otherwise
\* it adds an aligned block.
LEMMA TryAllocKeeps ==
  ASSUME SetFacts, NEW h, HeapInv(h), NEW r \in DOMAIN h.regions,
         NEW size \in 1..U32_MAX, NEW a \in Nat \ {0}, NEW n \in size..U32_MAX
  PROVE  LET res == try_alloc_in_region(h, r, size, a, n)
         IN  /\ HeapInv(res.heap)
             /\ res.ret \in Nat
             /\ res.ret = NULL <=> h.block_count = MAX_BLOCKS \/ ~Room(h, r, n, a)
             /\ res.ret = NULL => Same(res.heap, h)
             /\ res.ret # NULL => /\ Grown(res.heap, h, Descriptor(res.ret, size, n, r))
                                  /\ res.ret % a = 0
<1> DEFINE s == ensure_blocks_sorted(h)
           p == find_fit_in_region(s, r, n, a)
           b == Descriptor(p, size, n, r)
           ins == insert_block_sorted(s, b)
           m == (ins.regions[r].memory_used + n) % (U32_MAX + 1)
           out == [ins EXCEPT !.regions[r].memory_used = (@ + n) % (U32_MAX + 1)]
           res == try_alloc_in_region(h, r, size, a, n)
           Full == h.block_count = MAX_BLOCKS
<1>1. /\ HeapInv(s) /\ s.blocks = h.blocks /\ s.block_count = h.block_count
      /\ s.regions = h.regions /\ s.initialized = h.initialized
  BY SortKeeps
<1>2. NULL \in Nat /\ U32_MAX \in Nat /\ n \in Nat \ {0} /\ size \in Nat /\ MAX_BLOCKS \in Nat
  BY SizesAssumption DEF NULL
<1>3. find_free_block(h) <=> ~Full
  BY FreeSlot
<1>4. Same(h, h) /\ Same(s, h)
  BY <1>1 DEF Same, Live
<1>5. Room(s, r, n, a) <=> Room(h, r, n, a)
  BY <1>1 DEF Room, FreeRange
<1> HIDE DEF s
<1>6. Room(h, r, n, a) => n <= h.regions[r].size
  <2>1. h.regions[r].start \in Nat /\ h.regions[r].size \in Nat
    BY SizesAssumption DEF HeapInv, RegionTable
  <2> QED BY <2>1, <1>2 DEF Room, RegionEnd
<1>7. p # NULL => /\ p \in Nat
                  /\ h.regions[r].start <= p
                  /\ p + n <= RegionEnd(h.regions[r])
                  /\ FreeRange(s, p, n)
                  /\ p % a = 0
  BY <1>1, <1>2, FitIsFree
<1>8. p # NULL <=> Room(h, r, n, a)
  <2>1. Room(h, r, n, a) => p # NULL
    BY <1>1, <1>2, <1>5, FitComplete
  <2>2. p # NULL => Room(s, r, n, a)
    BY <1>1, <1>7 DEF Room
  <2> QED BY <2>1, <2>2, <1>5
<1>9. p # NULL => ~(p < h.regions[r].start) /\ ~(p >= RegionEnd(h.regions[r]))
                  /\ ~(p + n > RegionEnd(h.regions[r]))
  <2>1. h.regions[r].start \in Nat /\ h.regions[r].size \in Nat
    BY SizesAssumption DEF HeapInv, RegionTable
  <2> QED BY <2>1, <1>2, <1>7 DEF RegionEnd
<1>10. res = IF n > h.regions[r].size \/ ~find_free_block(h) THEN Result(h, NULL)
             ELSE IF \/ p = NULL
                     \/ p < h.regions[r].start
                     \/ p >= RegionEnd(h.regions[r])
                     \/ p + n > RegionEnd(h.regions[r])
                  THEN Result(s, NULL)
                  ELSE Result(out, p)
  BY <1>1 DEF try_alloc_in_region, Descriptor, s
<1> HIDE DEF res, out, p
<1>11. CASE Full \/ ~Room(h, r, n, a)
  <2>1. res = Result(h, NULL) \/ res = Result(s, NULL)
    BY <1>3, <1>8, <1>10, <1>11
  <2>2. (res.heap = h \/ res.heap = s) /\ res.ret = NULL
    BY <2>1 DEF Result
  <2>3. HeapInv(res.heap) /\ Same(res.heap, h)
    BY <2>2, <1>1, <1>4
  <2> QED BY <2>2, <2>3, <1>2, <1>11 DEF res
<1>12. CASE ~Full /\ Room(h, r, n, a)
  <2>1. ~(n > h.regions[r].size)
    <3>1. h.regions[r].size \in Nat
      BY SizesAssumption DEF HeapInv, RegionTable
    <3> QED BY <3>1, <1>2, <1>6, <1>12
  <2>2. res.heap = out /\ res.ret = p /\ p # NULL
    BY <2>1, <1>3, <1>8, <1>9, <1>10, <1>12 DEF Result
  <2>3. s.block_count < MAX_BLOCKS
    BY <1>1, <1>2, <1>12 DEF HeapInv, Heaps
  <2>4. /\ p \in Nat
        /\ s.regions[r].start <= p
        /\ p + n <= RegionEnd(s.regions[r])
        /\ FreeRange(s, p, n)
        /\ p % a = 0
    BY <2>2, <1>1, <1>7
  <2>5. r \in Nat
    BY DEF HeapInv, RegionTable
  <2>6. /\ b \in Blocks /\ b.status = "USED" /\ b.start = p /\ b.actual_size = n
        /\ b.size = size /\ b.region_id = r
    BY <2>4, <2>5, <1>2 DEF Blocks, Descriptor
  <2> HIDE DEF b
  <2>7. Placed(s, b)
    BY <2>4, <2>6, <1>1, <1>2, SMTT(30) DEF Placed, BlockEnd
  <2>8. /\ HeapInv(ins) /\ ins.regions = s.regions /\ ins.initialized = s.initialized
        /\ ins.block_count = s.block_count + 1 /\ Live(ins) = Live(s) \cup {b}
    BY <2>3, <2>4, <2>6, <2>7, <1>1, InsertKeeps, SMTT(30)
  <2> HIDE DEF ins
  <2>9. m \in 0..U32_MAX
    <3>1. ins.regions[r].memory_used \in Nat
      BY <2>8, <1>1, <1>2 DEF HeapInv, Heaps, RegionTables
    <3> QED BY <3>1, <1>2, SMTT(30)
  <2> HIDE DEF m
  <2> DEFINE R == [ins.regions EXCEPT ![r].memory_used = m]
  <2>10. out = [ins EXCEPT !.regions = R]
    BY DEF m, out
  <2>11. /\ R \in RegionTables
         /\ RegionTable(R)
         /\ DOMAIN R = DOMAIN ins.regions
         /\ \A q \in DOMAIN R : R[q].start = ins.regions[q].start /\ R[q].size = ins.regions[q].size
    BY <2>8, <2>9, <1>1, ChargeKeeps
  <2> HIDE DEF R
  <2>12. /\ HeapInv(out) /\ out.blocks = ins.blocks /\ out.block_count = ins.block_count
         /\ out.regions = R /\ out.initialized = ins.initialized
    BY <2>8, <2>10, <2>11, RegionsKeep, SMTT(30)
  <2>13. Grown(out, h, b)
    <3>1. Placed(h, b) /\ FreeRange(h, b.start, b.actual_size) /\ h.block_count < MAX_BLOCKS
      BY <2>3, <2>4, <2>6, <2>7, <1>1 DEF Placed, FreeRange
    <3>2. Live(out) = Live(h) \cup {b} /\ out.block_count = h.block_count + 1
          /\ out.initialized = h.initialized
      BY <2>8, <2>12, <1>1 DEF Live
    <3>3. out.regions = [h.regions EXCEPT ![b.region_id].memory_used =
                           (h.regions[b.region_id].memory_used + b.actual_size) % (U32_MAX + 1)]
      BY <2>6, <2>8, <2>12, <1>1 DEF R, m
    <3> QED BY <3>1, <3>2, <3>3, <2>6 DEF Grown
  <2>14. b = Descriptor(res.ret, size, n, r)
    BY <2>2 DEF b
  <2> QED BY <2>2, <2>4, <2>12, <2>13, <2>14, <1>12 DEF res
<1> QED BY <1>11, <1>12

\* The bytes of region r that the descriptors of L charge to it.
Taken(L, r) == UNION {b.start..(BlockEnd(b) - 1) : b \in {c \in L : c.region_id = r}}

\* The usage counter of every region is exact, as UsageExact says.
Usage(h) == \A r \in DOMAIN h.regions : h.regions[r].memory_used = Cardinality(Covered(h, r))

\* Before the first initialisation there is no region and no block.
Pristine(h) == ~h.initialized => h.block_count = 0 /\ DOMAIN h.regions = {}

\* What every entry point keeps.
Sound(h) == HeapInv(h) /\ Usage(h) /\ Pristine(h)

\* What a region's blocks cover depends on the set of descriptors only; it is
\* a finite part of the region.
LEMMA CoveredIsTaken ==
  ASSUME SetFacts, NEW h, HeapInv(h), NEW r \in DOMAIN h.regions
  PROVE  /\ Covered(h, r) = Taken(Live(h), r)
         /\ Taken(Live(h), r) \subseteq h.regions[r].start..(RegionEnd(h.regions[r]) - 1)
         /\ IsFiniteSet(Taken(Live(h), r))
         /\ Cardinality(Taken(Live(h), r)) \in Nat
<1>1. UsedIn(h, r) = {i \in 0..h.block_count-1 : h.blocks[i].region_id = r}
  BY LiveBlock DEF UsedIn
<1>2. Covered(h, r) = Taken(Live(h), r)
  BY <1>1 DEF Covered, Taken, Live
<1>3. h.regions[r].start \in Nat /\ h.regions[r].size \in Nat
  BY SizesAssumption DEF HeapInv, RegionTable
<1>4. ASSUME NEW b \in Live(h), b.region_id = r, NEW x \in b.start..(BlockEnd(b) - 1)
      PROVE  x \in h.regions[r].start..(RegionEnd(h.regions[r]) - 1)
  <2>1. PICK i \in 0..h.block_count-1 : b = h.blocks[i]
    BY DEF Live
  <2>2. b.start \in Nat /\ b.actual_size \in Nat /\ Placed(h, b)
    BY <2>1, LiveBlock DEF HeapInv
  <2> QED BY <2>2, <1>3, <1>4 DEF Placed, BlockEnd, RegionEnd
<1>5. Taken(Live(h), r) \subseteq h.regions[r].start..(RegionEnd(h.regions[r]) - 1)
  BY <1>4 DEF Taken
<1>6. /\ h.regions[r].start \in Int /\ RegionEnd(h.regions[r]) - 1 \in Int
  BY <1>3 DEF RegionEnd
<1>7. IsFiniteSet(h.regions[r].start..(RegionEnd(h.regions[r]) - 1))
  BY <1>6, Interval
<1>8. IsFiniteSet(Taken(Live(h), r))
  BY <1>5, <1>7, Subset, Zenon
<1> QED BY <1>2, <1>5, <1>8, Count

\* A block that does not overlap the others adds its actual size to what its
\* region's blocks cover, and nothing to the other regions.
LEMMA TakenGrows ==
  ASSUME SetFacts, NEW L, NEW b, b.start \in Nat, b.actual_size \in Nat, b.actual_size # 0,
         NEW r, IsFiniteSet(Taken(L, r)),
         \A c \in L : /\ c.start \in Nat /\ c.actual_size \in Nat
                      /\ BlockEnd(c) <= b.start \/ BlockEnd(b) <= c.start
  PROVE  Cardinality(Taken(L \cup {b}, r)) =
           Cardinality(Taken(L, r)) + (IF b.region_id = r THEN b.actual_size ELSE 0)
<1> DEFINE I == b.start..(BlockEnd(b) - 1)
<1>0. Cardinality(Taken(L, r)) \in Nat
  BY Count
<1>1. CASE b.region_id # r
  <2>1. Taken(L \cup {b}, r) = Taken(L, r)
    BY <1>1 DEF Taken
  <2> QED BY <2>1, <1>0, <1>1
<1>2. CASE b.region_id = r
  <2>1. Taken(L \cup {b}, r) = Taken(L, r) \cup I
    BY <1>2 DEF Taken
  <2>2. Taken(L, r) \cap I = {}
    <3> SUFFICES ASSUME NEW c \in L, NEW x \in c.start..(BlockEnd(c) - 1), x \in I PROVE FALSE
      BY DEF Taken
    <3> QED BY DEF BlockEnd
  <2>3. b.start \in Int /\ BlockEnd(b) - 1 \in Int /\ ~(b.start > BlockEnd(b) - 1)
        /\ (BlockEnd(b) - 1) - b.start + 1 = b.actual_size
    BY DEF BlockEnd
  <2>4. IsFiniteSet(I) /\ Cardinality(I) = b.actual_size
    BY <2>3, Interval
  <2> HIDE DEF I
  <2>5. Cardinality(Taken(L, r) \cup I) =
          Cardinality(Taken(L, r)) + Cardinality(I) - Cardinality(Taken(L, r) \cap I)
    BY <2>4, Zenon DEF SetFacts
  <2>6. Cardinality(Taken(L, r) \cap I) = 0
    BY <2>2, Zenon DEF SetFacts
  <2>7. Cardinality(Taken(L, r) \cup I) = Cardinality(Taken(L, r)) + b.actual_size
    BY <2>4, <2>5, <2>6, <1>0
  <2> QED BY <2>1, <2>7, <1>2
<1> QED BY <1>1, <1>2

\* Live descriptors have different starts: removing the one at index i
\* removes exactly what starts there.
LEMMA StartsDiffer ==
  ASSUME NEW h, HeapInv(h), NEW i \in 0..h.block_count-1, NEW j \in 0..h.block_count-1, i # j
  PROVE  h.blocks[i].start # h.blocks[j].start
<1>1. /\ h.blocks[i].start \in Nat /\ h.blocks[i].start < BlockEnd(h.blocks[i])
      /\ h.blocks[j].start \in Nat /\ h.blocks[j].start < BlockEnd(h.blocks[j])
      /\ h.blocks[i].actual_size \in Nat /\ h.blocks[j].actual_size \in Nat
  BY LiveBlock
<1>2. BlockEnd(h.blocks[i]) <= h.blocks[j].start \/ BlockEnd(h.blocks[j]) <= h.blocks[i].start
  <2>1. i \in Int /\ j \in Int
    OBVIOUS
  <2>2. i < j \/ j < i
    BY <2>1
  <2> QED BY <2>2 DEF HeapInv, Disjoint
<1> QED BY <1>1, <1>2 DEF BlockEnd

\* A heap with the same live descriptors and regions as a sound one is sound.
LEMMA SameSound ==
  ASSUME SetFacts, NEW h, Sound(h), NEW g, HeapInv(g), Same(g, h)
  PROVE  Sound(g)
<1>1. \A r \in DOMAIN h.regions : Covered(g, r) = Covered(h, r)
  BY CoveredIsTaken DEF Same, Sound
<1> QED BY <1>1 DEF Same, Sound, Usage, Pristine

\* Adding a block keeps the counters exact: the u32 sum does not wrap, since
\* the blocks of a region never cover more than the region.
LEMMA GrownSound ==
  ASSUME SetFacts, NEW h, Sound(h), NEW g, HeapInv(g), NEW b, Grown(g, h, b)
  PROVE  Sound(g)
<1> DEFINE q == b.region_id
           u == h.regions[q].memory_used
           m == (u + b.actual_size) % (U32_MAX + 1)
<1>0. HeapInv(h)
  BY DEF Sound
<1>1. /\ q \in DOMAIN h.regions
      /\ DOMAIN g.regions = DOMAIN h.regions
      /\ g.regions = [h.regions EXCEPT ![q].memory_used = m]
  BY DEF Grown, Placed
<1>2. b.start \in Nat /\ b.actual_size \in Nat /\ b.actual_size # 0
  BY DEF Grown, Placed, Blocks
<1>3. \A c \in Live(h) : /\ c.start \in Nat /\ c.actual_size \in Nat
                         /\ BlockEnd(c) <= b.start \/ BlockEnd(b) <= c.start
  <2> SUFFICES ASSUME NEW i \in 0..h.block_count-1
               PROVE  /\ h.blocks[i].start \in Nat /\ h.blocks[i].actual_size \in Nat
                      /\ BlockEnd(h.blocks[i]) <= b.start \/ BlockEnd(b) <= h.blocks[i].start
    BY DEF Live
  <2>1. h.blocks[i].start \in Nat /\ h.blocks[i].actual_size \in Nat
    BY <1>0, LiveBlock
  <2>2. BlockEnd(h.blocks[i]) <= b.start \/ b.start + b.actual_size <= h.blocks[i].start
    BY DEF Grown, FreeRange
  <2> QED BY <2>1, <2>2 DEF BlockEnd
<1>4. ASSUME NEW r \in DOMAIN h.regions
      PROVE  /\ h.regions[r].memory_used = Cardinality(Taken(Live(h), r))
             /\ h.regions[r].memory_used \in Nat
             /\ Cardinality(Covered(g, r)) =
                  h.regions[r].memory_used + (IF q = r THEN b.actual_size ELSE 0)
             /\ Cardinality(Covered(g, r)) <= U32_MAX
  <2>1. /\ Covered(h, r) = Taken(Live(h), r) /\ IsFiniteSet(Taken(Live(h), r))
        /\ Cardinality(Taken(Live(h), r)) \in Nat
    BY <1>0, CoveredIsTaken
  <2>2. h.regions[r].memory_used = Cardinality(Taken(Live(h), r))
    BY <2>1 DEF Sound, Usage
  <2>3. Covered(g, r) = Taken(Live(h) \cup {b}, r)
        /\ Covered(g, r) \subseteq g.regions[r].start..(RegionEnd(g.regions[r]) - 1)
    BY <1>1, CoveredIsTaken, Zenon DEF Grown
  <2>4. Cardinality(Taken(Live(h) \cup {b}, r)) =
           Cardinality(Taken(Live(h), r)) + (IF q = r THEN b.actual_size ELSE 0)
    BY <2>1, <1>2, <1>3, TakenGrows
  <2>5. Cardinality(Covered(g, r)) <= U32_MAX
    <3>1. g.regions[r].start \in Nat /\ g.regions[r].size \in 1..U32_MAX /\ U32_MAX \in Nat
      BY <1>1, SizesAssumption DEF HeapInv, RegionTable
    <3> DEFINE J == g.regions[r].start..(RegionEnd(g.regions[r]) - 1)
    <3>2. /\ g.regions[r].start \in Int /\ RegionEnd(g.regions[r]) - 1 \in Int
          /\ ~(g.regions[r].start > RegionEnd(g.regions[r]) - 1)
          /\ RegionEnd(g.regions[r]) - 1 - g.regions[r].start + 1 = g.regions[r].size
      BY <3>1 DEF RegionEnd
    <3>3. IsFiniteSet(J) /\ Cardinality(J) = g.regions[r].size
      BY <3>2, Interval
    <3> HIDE DEF J
    <3>4. Cardinality(Covered(g, r)) <= Cardinality(J) /\ IsFiniteSet(Covered(g, r))
      BY <2>3, <3>3, Subset, Zenon DEF J
    <3>5. Cardinality(Covered(g, r)) \in Nat
      BY <3>4, Count
    <3> QED BY <3>1, <3>3, <3>4, <3>5
  <2> QED BY <2>1, <2>2, <2>3, <2>4, <2>5
<1>5. m = u + b.actual_size
  <2>1. u \in Nat /\ u + b.actual_size <= U32_MAX
    BY <1>1, <1>4
  <2>2. \A x \in Nat : x <= U32_MAX => x % (U32_MAX + 1) = x
    BY SizesAssumption
  <2> HIDE DEF u
  <2>3. u + b.actual_size \in Nat
    BY <2>1, <1>2
  <2> QED BY <2>1, <2>2, <2>3, ZenonT(30)
<1> HIDE DEF m
<1>6. Usage(g)
  <2> SUFFICES ASSUME NEW r \in DOMAIN h.regions
               PROVE  g.regions[r].memory_used = Cardinality(Covered(g, r))
    BY <1>1 DEF Usage
  <2>0. h.regions \in RegionTables
    BY <1>0 DEF HeapInv, Heaps
  <2>1. CASE r = q
    <3>1. g.regions[r].memory_used = m
      BY <2>0, <2>1, <1>1 DEF RegionTables
    <3> QED BY <3>1, <2>1, <1>4, <1>5
  <2>2. CASE r # q
    <3>1. g.regions[r] = h.regions[r]
      BY <2>2, <1>1
    <3> QED BY <3>1, <2>2, <1>4
  <2> QED BY <2>1, <2>2
<1>7. Pristine(g)
  BY <1>1 DEF Pristine, Sound, Grown
<1> QED BY <1>6, <1>7 DEF Sound

\* A fresh table over valid regions satisfies the invariant.
LEMMA EmptyHeapOK ==
  ASSUME NEW t, RegionTable(t), NEW x \in BOOLEAN
  PROVE  HeapInv(EmptyHeap(t, x))
<1> DEFINE D == {k \in DOMAIN t : k < MAX_MEM_REGIONS}
           R == [i \in D |-> [start |-> t[i].start, size |-> t[i].size, memory_used |-> 0]]
           B == [i \in 0..MAX_BLOCKS-1 |-> FreeBlock]
           H == [blocks |-> B, block_count |-> 0, need_sort |-> FALSE,
                    initialized |-> x, regions |-> R]
<1>1. U32_MAX \in Nat /\ MAX_BLOCKS \in Nat /\ MAX_MEM_REGIONS \in Nat
  BY SizesAssumption
<1>2. D \in SUBSET (0..MAX_MEM_REGIONS-1)
  BY <1>1 DEF RegionTable
<1>3. R \in [D -> [start : Nat \ {0}, size : 1..U32_MAX, memory_used : 0..U32_MAX]]
  BY <1>1 DEF RegionTable
<1>4. R \in RegionTables /\ RegionTable(R)
  <2>1. R \in RegionTables
    BY <1>2, <1>3, ZenonT(30) DEF RegionTables
  <2>2. \A i \in D : R[i].start = t[i].start /\ R[i].size = t[i].size
    OBVIOUS
  <2>3. DOMAIN R = D /\ D \subseteq DOMAIN t
    OBVIOUS
  <2> HIDE DEF R, D
  <2> QED BY <2>1, <2>2, <2>3 DEF RegionTable, RegionEnd
<1>5. B \in [0..MAX_BLOCKS-1 -> Blocks]
  BY <1>1 DEF Blocks, FreeBlock, NULL
<1>6. \A i \in 0..MAX_BLOCKS-1 : B[i] = FreeBlock
  OBVIOUS
<1> HIDE DEF R, D, B
<1>7. HeapInv(H)
  <2>1. /\ H \in Heaps
        /\ H.blocks = B /\ H.block_count = 0 /\ H.regions = R
    BY <1>1, <1>4, <1>5 DEF Heaps
  <2> HIDE DEF H
  <2> QED BY <2>1, <1>4, <1>6 DEF HeapInv, Packed, Disjoint
<1>8. EmptyHeap(t, x) = H
  BY DEF EmptyHeap, R, D, B
<1> QED BY <1>7, <1>8

\* A request that passes the checks is charged a u32 no smaller than its size.
LEMMA RequestSizes ==
  ASSUME NEW size \in 0..U32_MAX, NEW alignment \in 0..U32_MAX, RequestOK(size, alignment)
  PROVE  /\ size \in 1..U32_MAX
         /\ EffectiveAlignment(alignment) \in Nat \ {0}
         /\ AlignedSize(size, alignment) \in size..U32_MAX
         /\ AlignedSize(size, alignment) <= size + EffectiveAlignment(alignment) - 1
         /\ AlignedSize(size, alignment) % EffectiveAlignment(alignment) = 0
<1>1. U32_MAX \in Nat
  BY SizesAssumption
<1> DEFINE a == EffectiveAlignment(alignment)
<1>2. a \in Nat \ {0}
  BY <1>1 DEF EffectiveAlignment
<1>3. size # 0 /\ ~(size > U32_MAX - (a - 1))
  BY DEF RequestOK
<1> HIDE DEF a
<1>4. /\ ALIGN_UP(size, a) \in Nat
      /\ size <= ALIGN_UP(size, a)
      /\ ALIGN_UP(size, a) <= size + a - 1
      /\ ALIGN_UP(size, a) % a = 0
  BY <1>1, <1>2, AlignUpBounds, AlignUpMultiple
<1>5. AlignedSize(size, alignment) = ALIGN_UP(size, a)
  <2>1. ALIGN_UP(size, a) \in 0..U32_MAX
    BY <1>1, <1>2, <1>3, <1>4
  <2>2. ALIGN_UP(size, a) % (U32_MAX + 1) = ALIGN_UP(size, a)
    <3> DEFINE x == ALIGN_UP(size, a)
    <3> HIDE DEF x
    <3>1. x \in 0..U32_MAX => x % (U32_MAX + 1) = x
      BY <1>1
    <3> QED BY <2>1, <3>1 DEF x
  <2> QED BY <2>2 DEF AlignedSize, a
<1> QED BY <1>1, <1>2, <1>3, <1>4, <1>5 DEF a

\* A fresh table is sound and holds nothing.
LEMMA EmptyHeapSound ==
  ASSUME SetFacts, NEW t, RegionTable(t), NEW x \in BOOLEAN, x \/ DOMAIN t = {}
  PROVE  /\ Sound(EmptyHeap(t, x))
         /\ EmptyHeap(t, x).block_count = 0 /\ EmptyHeap(t, x).initialized = x
         /\ Live(EmptyHeap(t, x)) = {}
<1> DEFINE H == EmptyHeap(t, x)
<1>1. HeapInv(H)
  BY EmptyHeapOK
<1>2. /\ H.block_count = 0 /\ H.initialized = x
      /\ DOMAIN H.regions \subseteq DOMAIN t
      /\ \A r \in DOMAIN H.regions : H.regions[r].memory_used = 0
  BY DEF EmptyHeap
<1> HIDE DEF H
<1>3. Live(H) = {}
  BY <1>2 DEF Live
<1>4. \A r : Covered(H, r) = {}
  BY <1>2 DEF Covered, UsedIn
<1>5. Usage(H)
  <2>1. Cardinality({}) = 0
    BY Zenon DEF SetFacts
  <2> QED BY <2>1, <1>2, <1>4, Zenon DEF Usage
<1>6. Pristine(H)
  BY <1>2 DEF Pristine
<1> QED BY <1>1, <1>2, <1>3, <1>5, <1>6 DEF Sound, H

\* The lazy initialisation happens at most once and forgets no block.
LEMMA LazyInitSound ==
  ASSUME SetFacts, NEW h, Sound(h)
  PROVE  /\ Sound(LazyInit(h))
         /\ Live(LazyInit(h)) = Live(h) /\ LazyInit(h).block_count = h.block_count
         /\ h.initialized \/ ~LazyInit(h).initialized => LazyInit(h) = h
<1>1. CASE LazyInit(h) = h
  BY <1>1
<1>2. CASE ~h.initialized /\ LazyInit(h) = EmptyHeap(MemInitTable, TRUE)
  <2>1. /\ Sound(LazyInit(h)) /\ LazyInit(h).block_count = 0 /\ LazyInit(h).initialized
        /\ Live(LazyInit(h)) = {}
    BY <1>2, EmptyHeapSound, RegionsAssumption, Zenon
  <2>2. h.block_count = 0 /\ Live(h) = {}
    BY <1>2 DEF Sound, Pristine, Live
  <2> QED BY <2>1, <2>2, <1>2, Zenon
<1> QED BY <1>1, <1>2, Zenon DEF LazyInit, Initialised

\* The regions of table g a request for `region' may be served from; -1 asks
\* for any.
Eligible(g, region) == IF region = -1 THEN DOMAIN g.regions ELSE DOMAIN g.regions \cap {region}

\* The request is refused, and nothing changes, because it is malformed, the
\* table is full or no eligible region has room.
AllocRefused(res, g, size, alignment, region) ==
  /\ res.ret = NULL
  /\ Same(res.heap, g)
  /\ \/ ~RequestOK(size, alignment)
     \/ g.block_count = MAX_BLOCKS
     \/ \A r \in Eligible(g, region) :
           ~Room(g, r, AlignedSize(size, alignment), EffectiveAlignment(alignment))

\* The request is served at an aligned place in the first eligible region with
\* room, r.
AllocServed(res, g, size, alignment, region, r) ==
  /\ res.ret # NULL
  /\ RequestOK(size, alignment)
  /\ r \in Eligible(g, region)
  /\ Grown(res.heap, g, Descriptor(res.ret, size, AlignedSize(size, alignment), r))
  /\ res.ret % EffectiveAlignment(alignment) = 0
  /\ \A q \in Eligible(g, region) :
        q < r => ~Room(g, q, AlignedSize(size, alignment), EffectiveAlignment(alignment))

\* The outcome of an allocation from the heap h.
AllocOutcome(res, h, size, alignment, region) ==
  /\ Sound(res.heap)
  /\ res.ret \in Nat
  /\ \/ AllocRefused(res, LazyInit(h), size, alignment, region)
     \/ \E r \in Eligible(LazyInit(h), region) :
           AllocServed(res, LazyInit(h), size, alignment, region, r)

\* Allocation, over all regions or in one, is sound, and exact: it fails only
\* when it must.
LEMMA AllocExact ==
  ASSUME SetFacts, NEW h, Sound(h), NEW size \in 0..U32_MAX, NEW alignment \in 0..U32_MAX
  PROVE  /\ AllocOutcome(mem_alloc_aligned(h, size, alignment), h, size, alignment, -1)
         /\ \A r \in Nat :
              AllocOutcome(mem_alloc_aligned_from_region(h, r, size, alignment), h, size, alignment, r)
<1> DEFINE g == LazyInit(h)
           n == AlignedSize(size, alignment)
           a == EffectiveAlignment(alignment)
           Full == g.block_count = MAX_BLOCKS
           In(r) == AllocIn(g, r, size, alignment)
<1>1. Sound(g) /\ HeapInv(g) /\ DOMAIN g.regions \in SUBSET Nat
  BY LazyInitSound, Zenon DEF Sound, HeapInv, RegionTable
<1>2. ASSUME RequestOK(size, alignment), NEW r \in DOMAIN g.regions
      PROVE  /\ Sound(In(r).heap)
             /\ In(r).ret \in Nat
             /\ In(r).ret = NULL <=> Full \/ ~Room(g, r, n, a)
             /\ In(r).ret = NULL => Same(In(r).heap, g)
             /\ In(r).ret # NULL => /\ Grown(In(r).heap, g, Descriptor(In(r).ret, size, n, r))
                                    /\ In(r).ret % a = 0
  <2>1. size \in 1..U32_MAX /\ a \in Nat \ {0} /\ n \in size..U32_MAX
    BY <1>2, RequestSizes
  <2> HIDE DEF g, n, a
  <2>2. /\ HeapInv(In(r).heap)
        /\ In(r).ret \in Nat
        /\ In(r).ret = NULL <=> Full \/ ~Room(g, r, n, a)
        /\ In(r).ret = NULL => Same(In(r).heap, g)
        /\ In(r).ret # NULL => /\ Grown(In(r).heap, g, Descriptor(In(r).ret, size, n, r))
                               /\ In(r).ret % a = 0
    BY <2>1, <1>1, <1>2, TryAllocKeeps, Zenon DEF AllocIn, n, a
  <2> HIDE DEF In
  <2>3. Sound(In(r).heap)
    BY <2>2, <1>1, SameSound, GrownSound
  <2> QED BY <2>2, <2>3
<1>3. ASSUME NEW x, x = g \/ x = ensure_blocks_sorted(g)
      PROVE  /\ Sound(Result(x, NULL).heap) /\ Result(x, NULL).ret \in Nat
             /\ Result(x, NULL).ret = NULL /\ Same(Result(x, NULL).heap, g)
  <2> HIDE DEF g
  <2>1. HeapInv(x) /\ Same(x, g)
    BY <1>1, <1>3, SortKeeps DEF Same, Live
  <2>2. Sound(x)
    BY <2>1, <1>1, SameSound
  <2> QED BY <2>1, <2>2 DEF Result, NULL
<1> DEFINE serving == {r \in DOMAIN g.regions : In(r).ret # NULL}
<1>4. serving # {} => /\ Min(serving) \in DOMAIN g.regions /\ In(Min(serving)).ret # NULL
                      /\ \A q \in serving : Min(serving) <= q
  <2>1. serving \in SUBSET Nat
    BY <1>1
  <2>2. serving # {} => Min(serving) \in serving /\ \A q \in serving : Min(serving) <= q
    <3> HIDE DEF serving
    <3> QED BY <2>1, MinNat
  <2> QED BY <2>2, SMTT(30)
<1>5. mem_alloc_aligned(h, size, alignment) =
        IF ~RequestOK(size, alignment) THEN Result(g, NULL)
        ELSE IF serving = {} THEN Result(ensure_blocks_sorted(g), NULL)
             ELSE In(Min(serving))
  BY DEF mem_alloc_aligned
<1>6. \A r : mem_alloc_aligned_from_region(h, r, size, alignment) =
        IF r \notin DOMAIN g.regions \/ ~RequestOK(size, alignment) THEN Result(g, NULL)
        ELSE In(r)
  BY DEF mem_alloc_aligned_from_region
<1> HIDE DEF g, serving, In
<1>7. AllocOutcome(mem_alloc_aligned(h, size, alignment), h, size, alignment, -1)
  <2> DEFINE res == mem_alloc_aligned(h, size, alignment)
  <2>0. Eligible(g, -1) = DOMAIN g.regions
    BY DEF Eligible
  <2>1. CASE ~RequestOK(size, alignment)
    <3>1. res = Result(g, NULL)
      BY <2>1, <1>5
    <3> HIDE DEF res
    <3>2. Sound(res.heap) /\ res.ret \in Nat /\ res.ret = NULL /\ Same(res.heap, g)
      BY <3>1, <1>3
    <3> QED BY <3>2, <2>1 DEF AllocOutcome, AllocRefused, g, res
  <2>2. CASE RequestOK(size, alignment) /\ serving = {}
    <3>1. res = Result(ensure_blocks_sorted(g), NULL)
      BY <2>2, <1>5
    <3> HIDE DEF res
    <3>2. Sound(res.heap) /\ res.ret \in Nat /\ res.ret = NULL /\ Same(res.heap, g)
      BY <3>1, <1>3
    <3>3. \A r \in DOMAIN g.regions : Full \/ ~Room(g, r, n, a)
      BY <2>2, <1>2 DEF serving
    <3>4. AllocRefused(res, g, size, alignment, -1)
      BY <3>2, <3>3, <2>0 DEF AllocRefused
    <3> QED BY <3>2, <3>4 DEF AllocOutcome, g, res
  <2>3. CASE RequestOK(size, alignment) /\ serving # {}
    <3> DEFINE r == Min(serving)
    <3>1. /\ res = In(r) /\ r \in DOMAIN g.regions /\ In(r).ret # NULL
          /\ \A q \in serving : r <= q
      BY <2>3, <1>4, <1>5
    <3> HIDE DEF r, res
    <3>2. /\ Sound(res.heap) /\ res.ret \in Nat /\ res.ret # NULL
          /\ Grown(res.heap, g, Descriptor(res.ret, size, n, r)) /\ res.ret % a = 0
          /\ ~Full
      BY <3>1, <2>3, <1>2
    <3>3. \A q \in DOMAIN g.regions : q < r => ~Room(g, q, n, a)
      <4> SUFFICES ASSUME NEW q \in DOMAIN g.regions, q < r, Room(g, q, n, a) PROVE FALSE
        OBVIOUS
      <4>1. In(q).ret # NULL
        BY <3>2, <2>3, <1>2
      <4>2. r <= q /\ r \in Nat /\ q \in Nat
        BY <4>1, <3>1, <1>1 DEF serving
      <4> QED BY <4>2
    <3>4. AllocServed(res, g, size, alignment, -1, r)
      BY <3>1, <3>2, <3>3, <2>0, <2>3 DEF AllocServed
    <3> QED BY <3>1, <3>2, <3>4, <2>0 DEF AllocOutcome, g, res
  <2> QED BY <2>1, <2>2, <2>3
<1>8. ASSUME NEW r \in Nat
      PROVE  AllocOutcome(mem_alloc_aligned_from_region(h, r, size, alignment), h, size, alignment, r)
  <2> DEFINE res == mem_alloc_aligned_from_region(h, r, size, alignment)
  <2>0. Eligible(g, r) = DOMAIN g.regions \cap {r}
    BY DEF Eligible
  <2>1. CASE r \notin DOMAIN g.regions \/ ~RequestOK(size, alignment)
    <3>1. res = Result(g, NULL)
      BY <2>1, <1>6
    <3> HIDE DEF res
    <3>2. Sound(res.heap) /\ res.ret \in Nat /\ res.ret = NULL /\ Same(res.heap, g)
      BY <3>1, <1>3
    <3>3. AllocRefused(res, g, size, alignment, r)
      BY <3>2, <2>0, <2>1 DEF AllocRefused
    <3> QED BY <3>2, <3>3 DEF AllocOutcome, g, res
  <2>2. CASE r \in DOMAIN g.regions /\ RequestOK(size, alignment)
    <3>1. res = In(r)
      BY <2>2, <1>6
    <3> HIDE DEF res
    <3>2. /\ Sound(res.heap) /\ res.ret \in Nat
          /\ res.ret = NULL <=> Full \/ ~Room(g, r, n, a)
          /\ res.ret = NULL => Same(res.heap, g)
          /\ res.ret # NULL => /\ Grown(res.heap, g, Descriptor(res.ret, size, n, r))
                               /\ res.ret % a = 0
      BY <3>1, <2>2, <1>2
    <3>3. CASE res.ret = NULL
      BY <3>2, <3>3, <2>0, Zenon DEF AllocOutcome, AllocRefused, g, res
    <3>4. CASE res.ret # NULL
      <4>1. \A q \in Eligible(g, r) : ~(q < r)
        BY <2>0
      <4>2. AllocServed(res, g, size, alignment, r, r)
        BY <4>1, <3>2, <3>4, <2>0, <2>2, Zenon DEF AllocServed
      <4> QED BY <4>2, <3>2, <2>0, <2>2, Zenon DEF AllocOutcome, g, res
    <3> QED BY <3>3, <3>4
  <2> QED BY <2>1, <2>2
<1> QED BY <1>7, <1>8

\* The usage mem_free leaves, which is never below zero, fits a u32.
LEMMA SaturatingDifference ==
  \A u, a \in 0..U32_MAX : (IF u < a THEN 0 ELSE u - a) \in 0..U32_MAX
BY SizesAssumption

\* Removing block i and moving the later ones down keeps the table ordered.
LEMMA ReleaseKeeps ==
  ASSUME NEW h, HeapInv(h), NEW i \in 0..h.block_count-1
  PROVE  /\ HeapInv(Release(h, i))
         /\ Release(h, i).block_count = h.block_count - 1
         /\ Release(h, i).initialized = h.initialized
         /\ Live(Release(h, i)) = Live(h) \ {h.blocks[i]}
         /\ LET b == h.blocks[i]
                used == h.regions[b.region_id].memory_used
            IN  Release(h, i).regions =
                  [h.regions EXCEPT ![b.region_id].memory_used =
                     IF used < b.actual_size THEN 0 ELSE used - b.actual_size]
<1> DEFINE n == h.block_count
           T == ShiftDown(h, i)
           q == h.blocks[i].region_id
           used == h.regions[q].memory_used
           m == IF used < h.blocks[i].actual_size THEN 0 ELSE used - h.blocks[i].actual_size
           R == [h.regions EXCEPT ![q].memory_used = m]
           e == [h EXCEPT !.regions = R]
           g == Release(h, i)
<1>1. /\ n \in 1..MAX_BLOCKS /\ MAX_BLOCKS \in Nat /\ U32_MAX \in Nat
      /\ h.blocks \in [0..MAX_BLOCKS-1 -> Blocks]
      /\ i \in 0..MAX_BLOCKS-1 /\ h \in Heaps
  BY SizesAssumption, SMTT(30) DEF HeapInv, Heaps
<1>2. q \in DOMAIN h.regions /\ h.blocks[i].actual_size \in 0..U32_MAX /\ used \in 0..U32_MAX
  <2>1. q \in DOMAIN h.regions /\ h.blocks[i] \in Blocks
    BY LiveBlock
  <2>2. h.regions \in RegionTables
    BY SMTT(30) DEF HeapInv, Heaps
  <2> QED BY <2>1, <2>2 DEF Blocks, RegionTables
<1>3. m \in 0..U32_MAX
  <2> HIDE DEF used
  <2> QED BY ONLY <1>2, SaturatingDifference, ZenonT(30)
<1>4. g = [h EXCEPT !.blocks = T, !.block_count = n - 1, !.need_sort = FALSE, !.regions = R]
  BY <1>2 DEF Release
<1> HIDE DEF m
<1>5. /\ R \in RegionTables
      /\ RegionTable(R)
      /\ DOMAIN R = DOMAIN h.regions
      /\ \A r \in DOMAIN R : R[r].start = h.regions[r].start /\ R[r].size = h.regions[r].size
  <2> HIDE DEF q
  <2>1. HeapInv(h) /\ q \in DOMAIN h.regions /\ m \in 0..U32_MAX
    BY <1>2, <1>3
  <2> QED BY <2>1, ChargeKeeps, SMTT(30)
<1> HIDE DEF R
<1>6. HeapInv(e) /\ e.blocks = h.blocks /\ e.block_count = n /\ e.regions = R
  BY <1>5, RegionsKeep
<1> HIDE DEF e
<1>7. \A k \in 0..MAX_BLOCKS-1 :
         /\ k < i => T[k] = h.blocks[k]
         /\ k >= i /\ k < n - 1 => T[k] = h.blocks[k+1]
         /\ k = n - 1 => T[k] = FreeBlock
         /\ k >= n => T[k] = h.blocks[k]
  <2>1. T = [k \in 0..MAX_BLOCKS-1 |->
               CASE k < i -> h.blocks[k]
                 [] k >= i /\ k < n - 1 -> h.blocks[k+1]
                 [] k = n - 1 -> FreeBlock
                 [] OTHER -> h.blocks[k]]
    BY DEF ShiftDown
  <2> HIDE DEF T
  <2> QED BY <2>1, <1>1
<1>8. T \in [0..MAX_BLOCKS-1 -> Blocks]
  <2>1. \E f : T = [k \in 0..MAX_BLOCKS-1 |-> f[k]]
    <3>1. T = [k \in 0..MAX_BLOCKS-1 |-> T[k]]
      BY DEF ShiftDown
    <3> QED BY <3>1, ZenonT(30)
  <2>2. FreeBlock \in Blocks
    BY <1>1 DEF FreeBlock, Blocks, NULL
  <2> HIDE DEF T
  <2>3. ASSUME NEW k \in 0..MAX_BLOCKS-1 PROVE T[k] \in Blocks
    <3>1. CASE k < i
      BY <3>1, <1>7, <1>1
    <3>2. CASE k >= i /\ k < n - 1
      <4>1. k + 1 \in 0..MAX_BLOCKS-1
        BY <3>2, <1>1
      <4> QED BY <3>2, <4>1, <1>7, <1>1
    <3>3. CASE k = n - 1
      BY <3>3, <2>2, <1>7
    <3>4. CASE k >= n
      BY <3>4, <1>7, <1>1, ZenonT(30)
    <3> QED BY <3>1, <3>2, <3>3, <3>4, <1>1
  <2> QED BY <2>1, <2>3
<1> HIDE DEF T
<1>9. /\ g \in Heaps /\ g.blocks = T /\ g.block_count = n - 1 /\ g.regions = R
      /\ g.initialized = h.initialized
  <2> HIDE DEF n, g
  <2>1. n - 1 \in 0..MAX_BLOCKS
    BY <1>1
  <2> QED BY <2>1, <1>4, <1>5, <1>8, <1>1, ZenonT(30) DEF Heaps
<1> HIDE DEF g
<1> DEFINE src(k) == IF k < i THEN k ELSE k + 1
<1>10. ASSUME NEW k \in 0..n-2
       PROVE  src(k) \in 0..n-1 /\ T[k] = h.blocks[src(k)] /\ k \in 0..MAX_BLOCKS-1
  <2>1. k \in 0..MAX_BLOCKS-1 /\ k < n - 1 /\ src(k) \in 0..n-1
    BY <1>1
  <2>2. CASE k < i
    BY <2>1, <2>2, <1>7
  <2>3. CASE ~(k < i)
    BY <2>1, <2>3, <1>7, <1>1
  <2> QED BY <2>1, <2>2, <2>3
<1>11. \A j, k \in 0..n-2 : j < k => src(j) < src(k)
  BY <1>1
<1>12. Packed(g)
  <2> SUFFICES ASSUME NEW k \in 0..MAX_BLOCKS-1
               PROVE IF k < n - 1 THEN T[k].status = "USED" ELSE T[k] = FreeBlock
    BY <1>9 DEF Packed
  <2>1. CASE k < n - 1
    <3>1. k \in 0..n-2
      BY <2>1, <1>1
    <3>2. src(k) \in 0..n-1 /\ T[k] = h.blocks[src(k)]
      BY <3>1, <1>10
    <3> HIDE DEF src
    <3> QED BY <2>1, <3>2, LiveBlock
  <2>2. CASE k = n - 1
    BY <2>2, <1>7, <1>1
  <2>3. CASE k >= n
    <3>1. T[k] = h.blocks[k] /\ ~(k < n) /\ ~(k < n - 1)
      BY <2>3, <1>7, <1>1
    <3>2. h.blocks[k] = FreeBlock
      BY <3>1 DEF HeapInv, Packed
    <3> QED BY <3>1, <3>2
  <2> QED BY <2>1, <2>2, <2>3, <1>1
<1> HIDE DEF src
<1>13. Disjoint(g)
  <2> SUFFICES ASSUME NEW j \in 0..n-2, NEW k \in 0..n-2, j < k
               PROVE BlockEnd(T[j]) <= T[k].start
    BY <1>9, <1>1 DEF Disjoint
  <2> QED BY <1>10, <1>11 DEF HeapInv, Disjoint
<1>14. \A k \in 0..n-2 : Placed(e, T[k])
  <2> SUFFICES ASSUME NEW k \in 0..n-2 PROVE Placed(e, T[k])
    OBVIOUS
  <2>1. src(k) \in 0..n-1 /\ T[k] = e.blocks[src(k)]
    BY <1>10, <1>6, SMTT(30)
  <2> QED BY <2>1, <1>6 DEF HeapInv
<1>15. HeapInv(g)
  <2>1. \A k \in 0..g.block_count-1 : Placed(g, g.blocks[k])
    BY <1>14, <1>9, <1>6, <1>1, SMTT(30) DEF Placed
  <2> QED BY <2>1, <1>5, <1>9, <1>12, <1>13, SMTT(30) DEF HeapInv
<1>16. ASSUME NEW k \in 0..n-1, k # i
       PROVE  \E j \in 0..n-2 : T[j] = h.blocks[k]
  <2> DEFINE j == IF k < i THEN k ELSE k - 1
  <2>1. j \in 0..n-2 /\ src(j) = k
    BY <1>1, <1>16 DEF src
  <2> HIDE DEF j
  <2> QED BY <2>1, <1>10
<1>17. \A k \in 0..n-2 : src(k) # i
  BY <1>1 DEF src
<1>18. \A k \in 0..n-1 : k # i => h.blocks[k] # h.blocks[i]
  BY StartsDiffer
<1>19. Live(g) = {T[k] : k \in 0..n-2}
  BY <1>1, <1>9 DEF Live
<1>20. Live(g) = Live(h) \ {h.blocks[i]}
  <2> HIDE DEF n
  <2>1. Live(h) = {h.blocks[k] : k \in 0..n-1}
    BY DEF Live, n
  <2>2. \A k \in 0..n-2 : T[k] \in Live(h) \ {h.blocks[i]}
    BY <2>1, <1>10, <1>17, <1>18
  <2> QED BY <2>1, <2>2, <1>16, <1>19
<1> QED BY <1>9, <1>15, <1>20 DEF g, R, m

\* Freeing credits exactly what the block was charged.
LEMMA ReleaseSound ==
  ASSUME SetFacts, NEW h, Sound(h), NEW i \in 0..h.block_count-1
  PROVE  Sound(Release(h, i))
<1> DEFINE g == Release(h, i)
           b == h.blocks[i]
           q == b.region_id
           u == h.regions[q].memory_used
           m == IF u < b.actual_size THEN 0 ELSE u - b.actual_size
<1>0. HeapInv(h)
  BY DEF Sound
<1>1. /\ HeapInv(g) /\ g.block_count = h.block_count - 1 /\ g.initialized = h.initialized
      /\ Live(g) = Live(h) \ {b}
      /\ g.regions = [h.regions EXCEPT ![q].memory_used = m]
  BY <1>0, ReleaseKeeps, Zenon
<1>2. /\ q \in DOMAIN h.regions /\ b.start \in Nat /\ b.actual_size \in Nat /\ b.actual_size # 0
  <2>1. q \in DOMAIN h.regions /\ b.start \in Nat /\ b.actual_size \in Nat /\ b.start < BlockEnd(b)
    BY <1>0, LiveBlock
  <2> QED BY <2>1 DEF BlockEnd
<1> HIDE DEF g
<1>3. Live(h) = Live(g) \cup {b}
  BY <1>1 DEF Live
<1>4. \A c \in Live(g) : /\ c.start \in Nat /\ c.actual_size \in Nat
                         /\ BlockEnd(c) <= b.start \/ BlockEnd(b) <= c.start
  <2> SUFFICES ASSUME NEW k \in 0..h.block_count-1, k # i
               PROVE  /\ h.blocks[k].start \in Nat /\ h.blocks[k].actual_size \in Nat
                      /\ BlockEnd(h.blocks[k]) <= b.start \/ BlockEnd(b) <= h.blocks[k].start
    BY <1>1 DEF Live
  <2>1. h.blocks[k].start \in Nat /\ h.blocks[k].actual_size \in Nat
    BY <1>0, LiveBlock
  <2>2. k \in Int /\ i \in Int
    OBVIOUS
  <2>3. k < i \/ i < k
    BY <2>2
  <2> QED BY <2>1, <2>3, <1>0 DEF HeapInv, Disjoint
<1>5. ASSUME NEW r \in DOMAIN h.regions
      PROVE  /\ h.regions[r].memory_used =
                  Cardinality(Covered(g, r)) + (IF q = r THEN b.actual_size ELSE 0)
             /\ Cardinality(Covered(g, r)) \in Nat
  <2>1. h.regions[r].memory_used = Cardinality(Taken(Live(h), r))
    BY <1>0, CoveredIsTaken DEF Sound, Usage
  <2>2. r \in DOMAIN g.regions
    BY <1>1, <1>2
  <2>3. /\ Covered(g, r) = Taken(Live(g), r) /\ IsFiniteSet(Taken(Live(g), r))
        /\ Cardinality(Taken(Live(g), r)) \in Nat
    BY <2>2, <1>1, CoveredIsTaken, Zenon
  <2>4. Cardinality(Taken(Live(g) \cup {b}, r)) =
           Cardinality(Taken(Live(g), r)) + (IF q = r THEN b.actual_size ELSE 0)
    BY <2>3, <1>2, <1>4, TakenGrows, Zenon
  <2> QED BY <2>1, <2>3, <2>4, <1>3
<1>6. m = Cardinality(Covered(g, q))
  <2>1. u = Cardinality(Covered(g, q)) + b.actual_size /\ Cardinality(Covered(g, q)) \in Nat
    BY <1>2, <1>5
  <2> HIDE DEF u
  <2> QED BY <2>1, <1>2
<1> HIDE DEF m
<1>7. Usage(g)
  <2> SUFFICES ASSUME NEW r \in DOMAIN h.regions
               PROVE  g.regions[r].memory_used = Cardinality(Covered(g, r))
    BY <1>1 DEF Usage
  <2>0. h.regions \in RegionTables
    BY <1>0 DEF HeapInv, Heaps
  <2>1. CASE r = q
    <3>1. g.regions[r].memory_used = m
      BY <2>0, <2>1, <1>1 DEF RegionTables
    <3> QED BY <3>1, <2>1, <1>6
  <2>2. CASE r # q
    <3>1. g.regions[r] = h.regions[r]
      BY <2>2, <1>1
    <3> QED BY <3>1, <2>2, <1>5
  <2> QED BY <2>1, <2>2
<1>8. Pristine(g)
  <2>1. h.initialized
    <3>1. h.block_count # 0
      BY <1>0 DEF HeapInv, Heaps
    <3> QED BY <3>1 DEF Sound, Pristine
  <2> QED BY <2>1, <1>1 DEF Pristine
<1> QED BY <1>1, <1>7, <1>8 DEF Sound, g

\* The bounds of the regions are the same.
SameBounds(g, h) ==
  /\ DOMAIN g.regions = DOMAIN h.regions
  /\ \A r \in DOMAIN h.regions : /\ g.regions[r].start = h.regions[r].start
                                 /\ g.regions[r].size = h.regions[r].size

\* mem_free removes the block that starts at ptr, if there is one, and changes
\* nothing else.
LEMMA FreeSound ==
  ASSUME SetFacts, NEW h, Sound(h), NEW ptr
  PROVE  /\ Sound(mem_free(h, ptr))
         /\ Live(mem_free(h, ptr)) = {b \in Live(h) : b.start # ptr}
         /\ SameBounds(mem_free(h, ptr), h) /\ mem_free(h, ptr).initialized = h.initialized
<1> DEFINE S == Holding(h, ptr)
           g == mem_free(h, ptr)
<1>0. HeapInv(h)
  BY DEF Sound
<1>1. S \in SUBSET Nat /\ S \subseteq 0..h.block_count-1
  BY <1>0, SizesAssumption DEF Holding, HeapInv, Heaps
<1>2. \A i \in 0..h.block_count-1 : h.blocks[i].start # NULL /\ h.blocks[i].status = "USED"
  <2> SUFFICES ASSUME NEW i \in 0..h.block_count-1
               PROVE  h.blocks[i].start # NULL /\ h.blocks[i].status = "USED"
    OBVIOUS
  <2>1. /\ h.blocks[i].status = "USED" /\ h.blocks[i].start \in Nat
        /\ h.blocks[i].region_id \in DOMAIN h.regions /\ Placed(h, h.blocks[i])
    BY <1>0, LiveBlock DEF HeapInv
  <2>2. h.regions[h.blocks[i].region_id].start <= h.blocks[i].start
    BY <2>1, Zenon DEF Placed
  <2>3. /\ h.regions[h.blocks[i].region_id].start \in Nat
        /\ h.regions[h.blocks[i].region_id].start > 0
    BY <2>1, <1>0 DEF HeapInv, RegionTable
  <2> QED BY <2>1, <2>2, <2>3 DEF NULL
<1>3. CASE ptr = NULL \/ S = {}
  <2>1. g = h
    BY <1>3 DEF mem_free
  <2>2. \A i \in 0..h.block_count-1 : h.blocks[i].start # ptr
    BY <1>2, <1>3 DEF Holding
  <2>3. {b \in Live(h) : b.start # ptr} = Live(h)
    BY <2>2 DEF Live
  <2> QED BY <2>1, <2>3 DEF SameBounds
<1>4. CASE ptr # NULL /\ S # {}
  <2> DEFINE i == Min(S)
  <2>1. i \in S
    <3> HIDE DEF S
    <3> QED BY <1>1, <1>4, MinNat
  <2>2. i \in 0..h.block_count-1 /\ h.blocks[i].start = ptr /\ g = Release(h, i)
    BY <2>1, <1>4 DEF Holding, mem_free
  <2> HIDE DEF i, g
  <2> DEFINE q == h.blocks[i].region_id
             u == h.regions[q].memory_used
             m == IF u < h.blocks[i].actual_size THEN 0 ELSE u - h.blocks[i].actual_size
  <2>3. /\ Sound(g) /\ g.initialized = h.initialized
        /\ Live(g) = Live(h) \ {h.blocks[i]}
        /\ g.regions = [h.regions EXCEPT ![q].memory_used = m]
    BY <2>2, <1>0, ReleaseKeeps, ReleaseSound, Zenon
  <2> HIDE DEF m
  <2>4. \A k \in 0..h.block_count-1 : k # i => h.blocks[k].start # ptr
    BY <2>2, <1>0, StartsDiffer
  <2>5. Live(h) \ {h.blocks[i]} = {b \in Live(h) : b.start # ptr}
    BY <2>2, <2>4 DEF Live
  <2>6. SameBounds(g, h)
    BY <2>3, <1>0 DEF SameBounds, HeapInv, Heaps, RegionTables
  <2> QED BY <2>3, <2>5, <2>6 DEF g
<1> QED BY <1>3, <1>4

\* krealloc to a smaller size rewrites the requested size of one descriptor.
LEMMA ShrinkSound ==
  ASSUME NEW h, Sound(h), NEW i \in 0..h.block_count-1,
         NEW size \in 1..U32_MAX, size <= h.blocks[i].size
  PROVE  LET g == [h EXCEPT !.blocks[i].size = size]
         IN  /\ Sound(g)
             /\ Live(g) = (Live(h) \ {h.blocks[i]}) \cup {[h.blocks[i] EXCEPT !.size = size]}
             /\ g.regions = h.regions /\ g.initialized = h.initialized
<1> DEFINE shrunk == [h EXCEPT !.blocks[i].size = size]
<1>0. HeapInv(h)
  BY DEF Sound
<1> USE <1>0
<1> DEFINE b == [h.blocks[i] EXCEPT !.size = size]
           T == [h.blocks EXCEPT ![i] = b]
<1>2. i \in 0..MAX_BLOCKS-1 /\ h.blocks[i] \in Blocks /\ h.blocks[i].status = "USED" /\ U32_MAX \in Nat
  BY LiveBlock, SizesAssumption
<1>3. /\ b \in Blocks /\ b.start = h.blocks[i].start /\ b.actual_size = h.blocks[i].actual_size
      /\ b.status = "USED" /\ b.region_id = h.blocks[i].region_id /\ b.size = size
  BY <1>2 DEF Blocks
<1>4. shrunk = [h EXCEPT !.blocks = T]
  OBVIOUS
<1> HIDE DEF b
<1>5. /\ T \in [0..MAX_BLOCKS-1 -> Blocks] /\ T[i] = b
      /\ \A k \in 0..MAX_BLOCKS-1 : k # i => T[k] = h.blocks[k]
  BY <1>2, <1>3, ZenonT(30) DEF HeapInv, Heaps
<1> HIDE DEF T
<1>6. /\ shrunk \in Heaps /\ shrunk.blocks = T
      /\ shrunk.block_count = h.block_count /\ shrunk.regions = h.regions
      /\ shrunk.initialized = h.initialized
  BY <1>4, <1>5 DEF HeapInv, Heaps
<1> HIDE DEF shrunk
<1>7. \A k \in 0..h.block_count-1 :
         /\ k \in 0..MAX_BLOCKS-1
         /\ T[k].start = h.blocks[k].start /\ T[k].actual_size = h.blocks[k].actual_size
         /\ Placed(h, T[k])
  <2> SUFFICES ASSUME NEW k \in 0..h.block_count-1
               PROVE  /\ k \in 0..MAX_BLOCKS-1
                      /\ T[k].start = h.blocks[k].start /\ T[k].actual_size = h.blocks[k].actual_size
                      /\ Placed(h, T[k])
    OBVIOUS
  <2>1. k \in 0..MAX_BLOCKS-1 /\ Placed(h, h.blocks[k]) /\ h.blocks[k] \in Blocks
    BY LiveBlock DEF HeapInv
  <2>2. CASE k # i
    BY <2>1, <2>2, <1>5, SMTT(30)
  <2>3. CASE k = i
    <3>1. T[k] = b /\ b.size = size /\ 0 < size /\ size <= h.blocks[i].size
      BY <2>3, <1>3, <1>5, <1>2, SMTT(30)
    <3>2. h.blocks[i].size <= h.blocks[i].actual_size /\ h.blocks[i].size \in Nat
          /\ h.blocks[i].actual_size \in Nat
      BY <2>1, <2>3, SMTT(30) DEF Placed, Blocks
    <3>3. b.size <= b.actual_size
      BY <3>1, <3>2, <1>3
    <3> QED BY <3>1, <3>3, <2>1, <2>3, <1>3, SMTT(30) DEF Placed, BlockEnd
  <2> QED BY <2>2, <2>3
<1>8. Packed(shrunk)
  <2> SUFFICES ASSUME NEW k \in 0..MAX_BLOCKS-1
               PROVE IF k < h.block_count THEN T[k].status = "USED" ELSE T[k] = FreeBlock
    BY <1>6 DEF Packed
  <2>1. IF k < h.block_count THEN h.blocks[k].status = "USED" ELSE h.blocks[k] = FreeBlock
    BY DEF HeapInv, Packed
  <2>2. CASE k = i
    <3>1. k < h.block_count
      BY <2>2 DEF HeapInv, Heaps
    <3> QED BY <3>1, <2>2, <1>3, <1>5
  <2>3. CASE k # i
    BY <2>1, <2>3, <1>5, SMTT(30)
  <2> QED BY <2>2, <2>3
<1>9. Disjoint(shrunk)
  BY <1>6, <1>7, SMTT(30) DEF HeapInv, Disjoint, BlockEnd
<1>10. \A k \in 0..shrunk.block_count-1 : Placed(shrunk, shrunk.blocks[k])
  BY <1>6, <1>7 DEF Placed
<1>11. HeapInv(shrunk)
  BY <1>6, <1>8, <1>9, <1>10 DEF HeapInv
<1>12. \A r : Covered(shrunk, r) = Covered(h, r)
  <2>1. \A k \in 0..h.block_count-1 : /\ T[k].status = h.blocks[k].status
                                      /\ T[k].region_id = h.blocks[k].region_id
    BY <1>2, <1>3, <1>5, <1>7
  <2>2. \A r : UsedIn(shrunk, r) = UsedIn(h, r)
    BY <2>1, <1>6 DEF UsedIn
  <2>3. \A k \in 0..h.block_count-1 : /\ T[k].start = h.blocks[k].start
                                      /\ BlockEnd(T[k]) = BlockEnd(h.blocks[k])
    BY <1>7 DEF BlockEnd
  <2>4. \A r : UsedIn(h, r) \subseteq 0..h.block_count-1
    BY DEF UsedIn
  <2> QED BY <2>2, <2>3, <2>4, <1>6 DEF Covered
<1>13. Sound(shrunk)
  BY <1>6, <1>11, <1>12 DEF Sound, Usage, Pristine
<1>14. \A k \in 0..h.block_count-1 : k # i => T[k] = h.blocks[k] /\ h.blocks[k] # h.blocks[i]
  BY <1>5, <1>7, StartsDiffer
<1>15. Live(shrunk) = {T[k] : k \in 0..h.block_count-1}
  BY <1>6 DEF Live
<1>16. Live(shrunk) = (Live(h) \ {h.blocks[i]}) \cup {b}
  BY <1>5, <1>14, <1>15, Zenon DEF Live
<1> QED BY <1>6, <1>13, <1>16 DEF shrunk, b

\* The outcomes of a reallocation of the live block b.
ReallocOfLive(res, h, b, size, alignment) ==
  \/ /\ size = 0 /\ res.ret = NULL
     /\ Live(res.heap) = Live(h) \ {b}
  \/ /\ size \in 1..b.size /\ IS_POWER_OF_2(EffectiveAlignment(alignment))
     /\ res.ret = b.start
     /\ Live(res.heap) = (Live(h) \ {b}) \cup {[b EXCEPT !.size = size]}
  \/ /\ size > b.size
     /\ \E new, r : /\ AllocServed(new, h, size, alignment, -1, r)
                    /\ res.ret = new.ret
                    /\ Live(res.heap) =
                         (Live(h) \ {b}) \cup
                         {Descriptor(res.ret, size, AlignedSize(size, alignment), r)}
  \/ /\ size # 0 /\ res.ret \in {NULL, b.start}
     /\ Live(res.heap) = Live(h)
     /\ \/ ~IS_POWER_OF_2(EffectiveAlignment(alignment))
        \/ size > b.size /\ \E new : AllocRefused(new, h, size, alignment, -1)

\* The outcome of a reallocation: an allocation for NULL, nothing for a pointer
\* that is not live, and one of the outcomes above for a live block.
ReallocOutcome(res, h, ptr, size, alignment) ==
  \/ ptr = NULL /\ AllocOutcome(res, h, size, alignment, -1)
  \/ /\ ptr # NULL /\ \A b \in Live(h) : b.start # ptr
     /\ res.ret = NULL /\ Same(res.heap, h)
  \/ /\ ptr # NULL /\ h.initialized
     /\ res.heap.initialized /\ SameBounds(res.heap, h)
     /\ \E b \in Live(h) : b.start = ptr /\ ReallocOfLive(res, h, b, size, alignment)

\* A served allocation leaves every region's bounds alone.
LEMMA GrownBounds ==
  ASSUME NEW g, NEW h, NEW b, HeapInv(h), Grown(g, h, b)
  PROVE  SameBounds(g, h)
<1> DEFINE m == (h.regions[b.region_id].memory_used + b.actual_size) % (U32_MAX + 1)
<1>1. g.regions = [h.regions EXCEPT ![b.region_id].memory_used = m] /\ b.region_id \in DOMAIN h.regions
  BY DEF Grown, Placed
<1> HIDE DEF m
<1> QED BY <1>1 DEF SameBounds, HeapInv, Heaps, RegionTables

\* A reallocation is sound and has one of the outcomes above: the data stay in
\* place, move to a block an allocation would have served, or are left alone.
LEMMA ReallocExact ==
  ASSUME SetFacts, NEW h, Sound(h), NEW ptr \in Nat,
         NEW size \in 0..U32_MAX, NEW alignment \in 0..U32_MAX
  PROVE  LET res == mem_realloc_aligned(h, ptr, size, alignment)
         IN  /\ Sound(res.heap) /\ res.ret \in Nat
             /\ ReallocOutcome(res, h, ptr, size, alignment)
<1> DEFINE S == Holding(h, ptr)
           i == Min(S)
           b == h.blocks[i]
           new == mem_alloc_aligned(h, size, alignment)
           res == mem_realloc_aligned(h, ptr, size, alignment)
           pow == IS_POWER_OF_2(EffectiveAlignment(alignment))
           Goal == /\ Sound(res.heap) /\ res.ret \in Nat
                   /\ ReallocOutcome(res, h, ptr, size, alignment)
<1> SUFFICES Goal
  OBVIOUS
<1>0. HeapInv(h) /\ NULL \in Nat
  BY DEF Sound, NULL
<1>1. res = IF ptr = NULL THEN new
            ELSE IF size = 0 THEN Result(mem_free(h, ptr), NULL)
            ELSE IF ~pow \/ S = {} THEN Result(h, NULL)
            ELSE IF size <= b.size THEN Result([h EXCEPT !.blocks[i].size = size], ptr)
            ELSE IF new.ret = NULL THEN Result(new.heap, ptr)
                 ELSE Result(mem_free(new.heap, ptr), new.ret)
  BY DEF mem_realloc_aligned
<1>2. AllocOutcome(new, h, size, alignment, -1)
  BY AllocExact
<1>3. S = {} => \A c \in Live(h) : c.start # ptr
  BY <1>0, LiveBlock DEF Holding, Live
<1>4. ASSUME S # {}
      PROVE  /\ i \in 0..h.block_count-1 /\ b.start = ptr /\ b \in Live(h)
             /\ \A c \in Live(h) : c.start = ptr <=> c = b
             /\ b.size \in Nat /\ b.start \in Nat
             /\ h.initialized /\ LazyInit(h) = h
  <2>1. S \in SUBSET Nat
    BY <1>0, SizesAssumption DEF Holding, HeapInv, Heaps
  <2>2. i \in S
    <3> HIDE DEF S
    <3> QED BY <2>1, <1>4, MinNat
  <2>3. i \in 0..h.block_count-1 /\ b.start = ptr /\ b \in Live(h)
    BY <2>2, Zenon DEF Holding, Live
  <2> HIDE DEF i
  <2>4. \A k \in 0..h.block_count-1 : k # i => h.blocks[k].start # ptr
    BY <2>3, <1>0, StartsDiffer
  <2>5. \A c \in Live(h) : c.start = ptr <=> c = b
    BY <2>3, <2>4 DEF Live
  <2>6. b.size \in Nat /\ b.start \in Nat
    BY <2>3, <1>0, LiveBlock, SizesAssumption DEF Blocks
  <2>7. h.initialized
    <3>1. h.block_count # 0
      BY <2>3, <1>0 DEF HeapInv, Heaps
    <3> QED BY <3>1 DEF Sound, Pristine
  <2>8. LazyInit(h) = h
    BY <2>7 DEF LazyInit
  <2> QED BY <2>3, <2>5, <2>6, <2>7, <2>8
<1> HIDE DEF S, i, new, res
<1>5. CASE ptr = NULL
  BY <1>1, <1>2, <1>5 DEF ReallocOutcome, AllocOutcome
<1>6. CASE ptr # NULL /\ S = {}
  <2>1. Sound(mem_free(h, ptr)) /\ mem_free(h, ptr) = h
    BY <1>6 DEF mem_free, S
  <2>2. res = Result(h, NULL)
    BY <2>1, <1>1, <1>6
  <2>3. res.heap = h /\ res.ret = NULL
    BY <2>2 DEF Result
  <2> QED BY <2>3, <1>0, <1>3, <1>6 DEF ReallocOutcome, Same
<1>7. ASSUME ptr # NULL, S # {}, Sound(res.heap), res.ret \in Nat,
             res.heap.initialized, SameBounds(res.heap, h), ReallocOfLive(res, h, b, size, alignment)
      PROVE  Goal
  BY <1>4, <1>7 DEF ReallocOutcome
<1>8. CASE ptr # NULL /\ S # {} /\ size = 0
  <2>1. res.heap = mem_free(h, ptr) /\ res.ret = NULL
    BY <1>1, <1>8 DEF Result
  <2>2. /\ Sound(res.heap) /\ SameBounds(res.heap, h) /\ res.heap.initialized
        /\ Live(res.heap) = {c \in Live(h) : c.start # ptr}
    BY <2>1, <1>4, <1>8, FreeSound
  <2>3. Live(res.heap) = Live(h) \ {b}
    BY <2>2, <1>4, <1>8
  <2>4. ReallocOfLive(res, h, b, size, alignment)
    BY <2>1, <2>3, <1>8 DEF ReallocOfLive
  <2> QED BY <2>1, <2>2, <2>4, <1>0, <1>7, <1>8
<1>9. CASE ptr # NULL /\ S # {} /\ size # 0 /\ ~pow
  <2>1. res.heap = h /\ res.ret = NULL
    BY <1>1, <1>9 DEF Result
  <2>2. SameBounds(h, h) /\ h.initialized
    BY <1>4, <1>9 DEF SameBounds
  <2>3. ReallocOfLive(res, h, b, size, alignment)
    BY <2>1, <1>9 DEF ReallocOfLive
  <2> QED BY <2>1, <2>2, <2>3, <1>0, <1>7, <1>9
<1>10. CASE ptr # NULL /\ S # {} /\ size # 0 /\ pow /\ size <= b.size
  <2>1. res.heap = [h EXCEPT !.blocks[i].size = size] /\ res.ret = ptr
    BY <1>1, <1>10 DEF Result
  <2>2. size \in 1..U32_MAX /\ size \in 1..b.size
    BY <1>4, <1>10, SizesAssumption
  <2>3. /\ Sound(res.heap)
        /\ Live(res.heap) = (Live(h) \ {b}) \cup {[b EXCEPT !.size = size]}
        /\ res.heap.regions = h.regions /\ res.heap.initialized = h.initialized
    BY <2>1, <2>2, <1>4, <1>10, ShrinkSound
  <2>4. SameBounds(res.heap, h) /\ res.heap.initialized
    BY <2>3, <1>4, <1>10 DEF SameBounds
  <2>5. ReallocOfLive(res, h, b, size, alignment)
    BY <2>1, <2>2, <2>3, <1>4, <1>10 DEF ReallocOfLive
  <2> QED BY <2>1, <2>3, <2>4, <2>5, <1>7, <1>10
<1>11. CASE ptr # NULL /\ S # {} /\ size # 0 /\ pow /\ ~(size <= b.size) /\ new.ret = NULL
  <2>1. res.heap = new.heap /\ res.ret = ptr /\ size > b.size
    BY <1>1, <1>4, <1>11, SizesAssumption DEF Result
  <2>2. Sound(new.heap) /\ AllocRefused(new, h, size, alignment, -1)
    BY <1>2, <1>4, <1>11 DEF AllocOutcome, AllocServed
  <2>3. /\ Live(res.heap) = Live(h) /\ SameBounds(res.heap, h) /\ res.heap.initialized
    BY <2>1, <2>2, <1>4, <1>11, Zenon DEF AllocRefused, Same, SameBounds
  <2>4. ReallocOfLive(res, h, b, size, alignment)
    BY <2>1, <2>2, <2>3, <1>4, <1>11 DEF ReallocOfLive
  <2> QED BY <2>1, <2>2, <2>3, <2>4, <1>7, <1>11
<1>12. CASE ptr # NULL /\ S # {} /\ size # 0 /\ pow /\ ~(size <= b.size) /\ new.ret # NULL
  <2>1. res.heap = mem_free(new.heap, ptr) /\ res.ret = new.ret /\ size > b.size
    BY <1>1, <1>4, <1>12, SizesAssumption DEF Result
  <2>2. /\ Sound(new.heap) /\ new.ret \in Nat
        /\ \E r \in Eligible(h, -1) : AllocServed(new, h, size, alignment, -1, r)
    BY <1>2, <1>4, <1>12, Zenon DEF AllocOutcome, AllocRefused
  <2>3. PICK r \in Eligible(h, -1) : AllocServed(new, h, size, alignment, -1, r)
    BY <2>2
  <2> DEFINE d == Descriptor(new.ret, size, AlignedSize(size, alignment), r)
  <2>4. Grown(new.heap, h, d) /\ d.start = new.ret
    BY <2>3 DEF AllocServed, Descriptor
  <2> HIDE DEF d
  <2>5. d.start # ptr
    <3>1. /\ BlockEnd(b) <= d.start \/ d.start + d.actual_size <= b.start
          /\ d.start \in Nat /\ d.actual_size \in Nat /\ 0 < d.actual_size
      BY <2>4, <1>4, <1>12 DEF Grown, FreeRange, Placed, Blocks
    <3>2. b.start < BlockEnd(b) /\ b.start \in Nat /\ b.actual_size \in Nat
      BY <1>0, <1>4, <1>12, LiveBlock
    <3>3. b.start = ptr
      BY <1>4, <1>12
    <3> HIDE DEF b
    <3> QED BY <3>1, <3>2, <3>3 DEF BlockEnd
  <2>6. /\ Sound(res.heap) /\ SameBounds(res.heap, new.heap)
        /\ res.heap.initialized = new.heap.initialized
        /\ Live(res.heap) = {c \in Live(new.heap) : c.start # ptr}
    BY <2>1, <2>2, FreeSound
  <2>7. Live(res.heap) = (Live(h) \ {b}) \cup {d}
    BY <2>4, <2>5, <2>6, <1>4, <1>12 DEF Grown
  <2>8. SameBounds(res.heap, h) /\ res.heap.initialized
    <3>1. SameBounds(new.heap, h)
      BY <2>4, <1>0, GrownBounds
    <3> QED BY <3>1, <2>4, <2>6, <1>4, <1>12 DEF SameBounds, Grown
  <2>9. ReallocOfLive(res, h, b, size, alignment)
    BY <2>1, <2>3, <2>7 DEF ReallocOfLive, d
  <2> QED BY <2>1, <2>2, <2>6, <2>8, <2>9, <1>7, <1>12, Zenon
<1> QED BY <1>5, <1>6, <1>8, <1>9, <1>10, <1>11, <1>12
=============================================================================
