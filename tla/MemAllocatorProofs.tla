------------------------- MODULE MemAllocatorProofs -------------------------
(***************************************************************************)
(* Theorems about the allocator for every table size, region table and     *)
(* sequence of calls.  They rest on MemAllocatorSteps, which shows that    *)
(* every entry point keeps the invariant Sound and says what it does to    *)
(* the set of live descriptors.  Here follow the inductive invariant, the  *)
(* largest free block, the step-by-step refinement of AbstractHeap and the *)
(* temporal theorems.                                                      *)
(***************************************************************************)
EXTENDS MemAllocatorSteps, MemAllocatorView

----------------------------------------------------------------------------
(* The state machine. *)

\* The values of the variables that every step keeps.
IInv == Sound(heap) /\ call.ret \in Nat /\ AllocReturnsBlock

\* The empty table the firmware starts with satisfies the invariant.
LEMMA InitIInv ==
  ASSUME SetFacts, Init
  PROVE  IInv
<1>1. RegionTable(<<>>) /\ DOMAIN <<>> = {}
  BY DEF RegionTable
<1>2. Sound(heap)
  BY <1>1, EmptyHeapSound, ZenonT(30) DEF Init
<1> QED BY <1>2, ZenonT(30) DEF Init, IInv, NoCall, NULL, AllocReturnsBlock

\* A step that allocated, or did not, in terms of the new heap and call.
LEMMA AllocStep ==
  ASSUME NEW size \in 0..U32_MAX, NEW alignment, NEW r, NEW res, NEW h,
         AllocOutcome(res, h, size, alignment, r),
         heap' = res.heap, call' = Call("alloc", NULL, size, alignment, r, res.ret)
  PROVE  IInv'
<1>1. call'.ret = res.ret /\ call'.size = size /\ call'.alignment = alignment
  BY SMTT(30) DEF Call
<1>2. Sound(heap') /\ call'.ret \in Nat
  BY <1>1 DEF AllocOutcome
<1>3. ASSUME res.ret # NULL
      PROVE  /\ res.ret % EffectiveAlignment(alignment) = 0
             /\ \E i \in 0..res.heap.block_count-1 :
                   res.heap.blocks[i].start = res.ret /\ res.heap.blocks[i].size = size
  <2>1. PICK q : AllocServed(res, LazyInit(h), size, alignment, r, q)
    BY <1>3 DEF AllocOutcome, AllocRefused
  <2> DEFINE d == Descriptor(res.ret, size, AlignedSize(size, alignment), q)
  <2>2. d \in Live(res.heap) /\ res.ret % EffectiveAlignment(alignment) = 0
    BY <2>1, Zenon DEF AllocServed, Grown
  <2>3. d.start = res.ret /\ d.size = size
    BY Zenon DEF Descriptor
  <2> HIDE DEF d
  <2> QED BY <2>2, <2>3, Zenon DEF Live
<1>4. ASSUME res.ret # NULL PROVE ServedBlock(call)'
  BY <1>1, <1>3, <1>4, SizesAssumption, SMTT(30) DEF ServedBlock
<1> QED BY <1>1, <1>2, <1>3, <1>4 DEF IInv, AllocReturnsBlock

\* Every entry point keeps the invariant.
LEMMA NextIInv ==
  ASSUME SetFacts, IInv, [Next]_vars
  PROVE  IInv'
<1>0. Sound(heap) /\ NULL \in Nat
  BY DEF IInv, NULL
<1>1. ASSUME NEW t \in Configs, MemInitWithConfig(t) PROVE IInv'
  <2>1. Sound(Initialised(t))
    BY RegionsAssumption, EmptyHeapSound, ZenonT(30) DEF Initialised
  <2> QED BY <1>1, <2>1, <1>0 DEF MemInitWithConfig, IInv, NoCall, AllocReturnsBlock
<1>2. ASSUME NEW size \in Sizes, NEW alignment \in Alignments, MemAllocAligned(size, alignment)
      PROVE  IInv'
  <2>1. size \in 0..U32_MAX /\ alignment \in 0..U32_MAX
    BY SizesAssumption
  <2> QED BY <2>1, <1>0, <1>2, AllocExact, AllocStep, ZenonT(30) DEF MemAllocAligned
<1>3. ASSUME NEW r \in 0..MAX_MEM_REGIONS-1, NEW size \in Sizes, NEW alignment \in Alignments,
             MemAllocAlignedFromRegion(r, size, alignment)
      PROVE  IInv'
  <2>1. r \in Nat /\ size \in 0..U32_MAX /\ alignment \in 0..U32_MAX
    BY SizesAssumption
  <2> QED BY <2>1, <1>0, <1>3, AllocExact, AllocStep, ZenonT(30) DEF MemAllocAlignedFromRegion
<1>4. ASSUME NEW ptr \in Pointers, MemFree(ptr) PROVE IInv'
  BY <1>0, <1>4, FreeSound DEF MemFree, IInv, Call, AllocReturnsBlock
<1>5. ASSUME NEW ptr \in Pointers, NEW size \in Sizes, NEW alignment \in Alignments,
             MemReallocAligned(ptr, size, alignment)
      PROVE  IInv'
  BY <1>0, <1>5, ReallocExact, SizesAssumption DEF MemReallocAligned, IInv, Call, AllocReturnsBlock
<1>6. CASE UNCHANGED vars
  BY <1>6 DEF vars, IInv, AllocReturnsBlock, ServedBlock
<1> QED BY <1>1, <1>2, <1>3, <1>4, <1>5, <1>6 DEF Next

----------------------------------------------------------------------------
(* The largest free block. *)

\* A gap is never negative and never wider than its region.
LEMMA GapWidth ==
  ASSUME SetFacts, NEW h, HeapInv(h), NEW r \in DOMAIN h.regions, NEW k \in Gaps(h, r)
  PROVE  GapEnd(h, r, k) - GapStart(h, r, k) \in 0..U32_MAX
<1> DEFINE after == {i \in UsedIn(h, r) : i >= k}
           lo == GapStart(h, r, k)
           hi == GapEnd(h, r, k)
<1>1. /\ h.regions[r].start \in Nat /\ h.regions[r].size \in 1..U32_MAX
      /\ U32_MAX \in Nat /\ h.block_count \in Nat
  BY SizesAssumption DEF HeapInv, Heaps, RegionTable
<1>2. /\ lo \in Nat /\ hi \in Nat /\ h.regions[r].start <= lo
      /\ hi <= RegionEnd(h.regions[r])
  BY GapIsFree
<1>3. ASSUME NEW i \in UsedIn(h, r)
      PROVE  /\ i \in 0..h.block_count-1 /\ i \in Nat
             /\ h.blocks[i].start \in Nat /\ BlockEnd(h.blocks[i]) \in Nat
             /\ h.regions[r].start <= h.blocks[i].start
             /\ BlockEnd(h.blocks[i]) <= RegionEnd(h.regions[r])
  <2>1. i \in 0..h.block_count-1 /\ h.blocks[i].region_id = r
    BY DEF UsedIn
  <2>2. Placed(h, h.blocks[i]) /\ h.blocks[i].start \in Nat /\ h.blocks[i].actual_size \in Nat
    BY <2>1, LiveBlock DEF HeapInv
  <2> QED BY <2>1, <2>2, <1>1 DEF Placed, BlockEnd
<1>4. k \in Nat /\ (k = 0 \/ k - 1 \in UsedIn(h, r))
  BY <1>3 DEF Gaps
<1>5. lo <= RegionEnd(h.regions[r])
  BY <1>1, <1>3, <1>4 DEF GapStart, RegionEnd
<1>6. ASSUME NEW j \in UsedIn(h, r), j >= k
      PROVE  lo <= h.blocks[j].start
  <2>1. CASE k = 0
    BY <2>1, <1>3 DEF GapStart
  <2>2. CASE k # 0
    <3>1. k - 1 \in 0..h.block_count-1 /\ j \in 0..h.block_count-1 /\ k - 1 < j
      BY <2>2, <1>3, <1>4, <1>6
    <3>2. BlockEnd(h.blocks[k-1]) <= h.blocks[j].start
      BY <3>1 DEF HeapInv, Disjoint
    <3> QED BY <2>2, <3>2 DEF GapStart
  <2> QED BY <2>1, <2>2
<1>7. lo <= hi
  <2>1. CASE after = {}
    BY <2>1, <1>5 DEF GapEnd
  <2>2. CASE after # {}
    <3>1. after \in SUBSET Nat
      BY <1>3
    <3>2. Min(after) \in after
      <4> HIDE DEF after
      <4> QED BY <2>2, <3>1, MinNat
    <3>3. hi = h.blocks[Min(after)].start
      BY <2>2 DEF GapEnd
    <3>4. Min(after) \in UsedIn(h, r) /\ Min(after) >= k
      BY <3>2
    <3> HIDE DEF after, lo, hi
    <3> QED BY <3>3, <3>4, <1>6
  <2> QED BY <2>1, <2>2
<1> HIDE DEF lo, hi
<1>8. hi - lo \in 0..U32_MAX
  BY <1>1, <1>2, <1>7 DEF RegionEnd
<1> QED BY <1>8 DEF lo, hi

\* What mem_get_largest_free_block returns is the width of some gap, or 0 when
\* there is no region, and no gap is wider.
LEMMA WidestGap ==
  ASSUME SetFacts, NEW h, HeapInv(h)
  PROVE  LET n == mem_get_largest_free_block(h)
         IN  /\ n \in 0..U32_MAX
             /\ n # 0 => \E r \in DOMAIN h.regions : \E k \in Gaps(h, r) :
                           n = GapEnd(h, r, k) - GapStart(h, r, k)
             /\ \A r \in DOMAIN h.regions : \A k \in Gaps(h, r) :
                   GapEnd(h, r, k) - GapStart(h, r, k) <= n
<1> DEFINE w(r, k) == GapEnd(h, r, k) - GapStart(h, r, k)
           W == {0} \cup UNION {{w(r, k) : k \in Gaps(h, r)} : r \in DOMAIN h.regions}
           n == Max(W)
<1>1. \A r \in DOMAIN h.regions : \A k \in Gaps(h, r) : w(r, k) \in 0..U32_MAX
  BY GapWidth
<1>2. mem_get_largest_free_block(h) = n
  BY DEF mem_get_largest_free_block
<1> HIDE DEF w
<1>3. U32_MAX \in Nat /\ 0 \in 0..U32_MAX
  BY SizesAssumption
<1>4. W \in SUBSET (0..U32_MAX) /\ W # {}
  <2>1. ASSUME NEW y \in W PROVE y \in 0..U32_MAX
    BY <1>1, <1>3
  <2> HIDE DEF W
  <2>2. 0 \in W
    BY DEF W
  <2> QED BY <2>1, <2>2
<1>5. n \in W /\ \A y \in W : y <= n
  <2> HIDE DEF W
  <2>1. \E m \in W : \A y \in W : y <= m
    BY <1>3, <1>4, MaxBelow, Zenon
  <2>2. \E m \in W : \A y \in W : m >= y
    BY <2>1
  <2>3. n \in W /\ \A y \in W : n >= y
    BY <2>2, ZenonT(30) DEF Max
  <2> QED BY <2>3
<1> HIDE DEF n
<1>6. n \in 0..U32_MAX
  BY <1>4, <1>5
<1>7. n # 0 => \E r \in DOMAIN h.regions : \E k \in Gaps(h, r) : n = w(r, k)
  BY <1>5
<1>8. \A r \in DOMAIN h.regions : \A k \in Gaps(h, r) : w(r, k) <= n
  <2>1. \A r \in DOMAIN h.regions : \A k \in Gaps(h, r) : w(r, k) \in W
    OBVIOUS
  <2> HIDE DEF W
  <2> QED BY <2>1, <1>5
<1> HIDE DEF W
<1> QED BY <1>2, <1>6, <1>7, <1>8 DEF w

\* A request for m bytes without alignment is charged m bytes.
LEMMA UnalignedRequest ==
  ASSUME NEW m \in 1..U32_MAX
  PROVE  /\ RequestOK(m, 1) /\ AlignedSize(m, 1) = m /\ EffectiveAlignment(1) = 1
         /\ 1 \in 0..U32_MAX /\ m \in 0..U32_MAX
<1>1. U32_MAX \in Nat \ {0}
  BY SizesAssumption
<1>2. EffectiveAlignment(1) = 1
  BY DEF EffectiveAlignment
<1>3. IS_POWER_OF_2(1)
  <2>1. 1 = 2^0 /\ 0 \in 0..1
    OBVIOUS
  <2> QED BY <2>1 DEF IS_POWER_OF_2
<1>4. RequestOK(m, 1)
  BY <1>1, <1>2, <1>3 DEF RequestOK
<1>5. 1 \in 0..U32_MAX /\ m \in 0..U32_MAX
  BY <1>1
<1>6. AlignedSize(m, 1) \in m..U32_MAX /\ AlignedSize(m, 1) <= m + 1 - 1
  BY <1>2, <1>4, <1>5, RequestSizes
<1> HIDE DEF AlignedSize
<1>7. AlignedSize(m, 1) = m
  BY <1>1, <1>6
<1> QED BY <1>2, <1>4, <1>5, <1>7

\* The largest free block reported is exact.
LEMMA LargestFree ==
  ASSUME SetFacts, IInv
  PROVE  LargestFreeExact
<1> DEFINE h == heap
           n == mem_get_largest_free_block(heap)
<1>1. Sound(h) /\ HeapInv(h)
  BY DEF IInv, Sound
<1>2. /\ n \in 0..U32_MAX
      /\ n # 0 => \E r \in DOMAIN h.regions : \E k \in Gaps(h, r) :
                    n = GapEnd(h, r, k) - GapStart(h, r, k)
      /\ \A r \in DOMAIN h.regions : \A k \in Gaps(h, r) :
            GapEnd(h, r, k) - GapStart(h, r, k) <= n
  BY <1>1, WidestGap
<1> HIDE DEF h, n
<1>4. ASSUME NEW m \in 1..U32_MAX, h.initialized, h.block_count # MAX_BLOCKS
      PROVE  mem_alloc_aligned(h, m, 1).ret # NULL <=>
               \E r \in DOMAIN h.regions : Room(h, r, m, 1)
  <2> DEFINE res == mem_alloc_aligned(h, m, 1)
  <2>1. /\ RequestOK(m, 1) /\ AlignedSize(m, 1) = m /\ EffectiveAlignment(1) = 1
        /\ 1 \in 0..U32_MAX /\ m \in 0..U32_MAX
    BY UnalignedRequest
  <2>2. AllocOutcome(res, h, m, 1, -1)
    BY <2>1, <1>1, AllocExact
  <2> HIDE DEF res
  <2>3. LazyInit(h) = h /\ Eligible(h, -1) = DOMAIN h.regions
    BY <1>4 DEF LazyInit, Eligible
  <2>4. \/ AllocRefused(res, h, m, 1, -1)
        \/ \E r \in DOMAIN h.regions : AllocServed(res, h, m, 1, -1, r)
    BY <2>2, <2>3 DEF AllocOutcome
  <2>5. CASE AllocRefused(res, h, m, 1, -1)
    <3>1. res.ret = NULL /\ \A r \in DOMAIN h.regions : ~Room(h, r, m, 1)
      BY <2>1, <2>3, <2>5, <1>4 DEF AllocRefused
    <3> QED BY <3>1 DEF res
  <2>6. ASSUME NEW r \in DOMAIN h.regions, AllocServed(res, h, m, 1, -1, r)
        PROVE  res.ret # NULL /\ Room(h, r, m, 1)
    <3> DEFINE d == Descriptor(res.ret, m, m, r)
    <3>1. res.ret # NULL /\ Grown(res.heap, h, d) /\ res.ret % 1 = 0
      BY <2>1, <2>6 DEF AllocServed
    <3>2. d.start = res.ret /\ d.actual_size = m /\ d.region_id = r
      BY DEF Descriptor
    <3> HIDE DEF d
    <3>3. d.start \in Nat /\ Placed(h, d) /\ FreeRange(h, d.start, d.actual_size)
      BY <3>1 DEF Grown, Blocks
    <3> QED BY <3>1, <3>2, <3>3 DEF Room, Placed, BlockEnd
  <2> QED BY <2>4, <2>5, <2>6 DEF res
<1>5. ASSUME n > 0
      PROVE  \E r \in DOMAIN h.regions : Room(h, r, n, 1)
  <2>1. n \in Nat \ {0} /\ 1 \in Nat \ {0}
    BY <1>2, <1>5
  <2>2. PICK r \in DOMAIN h.regions : \E k \in Gaps(h, r) :
           n = GapEnd(h, r, k) - GapStart(h, r, k)
    BY <2>1, <1>2
  <2>3. PICK k \in Gaps(h, r) : n = GapEnd(h, r, k) - GapStart(h, r, k)
    BY <2>2
  <2>4. GapStart(h, r, k) \in Nat /\ GapEnd(h, r, k) \in Nat
    BY <1>1, GapIsFree
  <2>5. /\ ALIGN_UP(GapStart(h, r, k), 1) \in Nat
        /\ GapStart(h, r, k) <= ALIGN_UP(GapStart(h, r, k), 1)
        /\ ALIGN_UP(GapStart(h, r, k), 1) <= GapStart(h, r, k) + 1 - 1
    BY <2>1, <2>4, AlignUpBounds
  <2>6. GapFits(h, r, k, n, 1)
    BY <2>1, <2>3, <2>4, <2>5 DEF GapFits
  <2>7. find_fit_in_region(h, r, n, 1) # NULL
    BY <2>1, <2>6, <1>1, GapServes
  <2>8. LET p == find_fit_in_region(h, r, n, 1)
        IN  /\ p \in Nat
            /\ h.regions[r].start <= p
            /\ p + n <= RegionEnd(h.regions[r])
            /\ FreeRange(h, p, n)
            /\ p % 1 = 0
    BY <2>1, <2>7, <1>1, FitIsFree
  <2> QED BY <2>8 DEF Room
<1>6. ASSUME NEW r \in DOMAIN h.regions, Room(h, r, n + 1, 1) PROVE FALSE
  <2>1. PICK p \in Nat : /\ h.regions[r].start <= p
                         /\ p + (n + 1) <= RegionEnd(h.regions[r])
                         /\ p % 1 = 0
                         /\ FreeRange(h, p, n + 1)
    BY <1>6 DEF Room
  <2>2. \A i \in UsedIn(h, r) : BlockEnd(h.blocks[i]) <= p \/ p + (n + 1) <= h.blocks[i].start
    BY <2>1 DEF FreeRange, UsedIn
  <2>3. n + 1 \in Nat /\ n \in Nat
    BY <1>2
  <2>4. PICK k \in Gaps(h, r) : GapStart(h, r, k) <= p /\ p + (n + 1) <= GapEnd(h, r, k)
    BY <2>1, <2>2, <2>3, <1>1, GapsCover, Zenon
  <2>5. GapStart(h, r, k) \in Nat /\ GapEnd(h, r, k) \in Nat
    BY <1>1, GapIsFree
  <2>6. GapEnd(h, r, k) - GapStart(h, r, k) <= n
    BY <1>2
  <2> QED BY <2>3, <2>4, <2>5, <2>6
<1>7. ASSUME h.initialized, find_free_block(h)
      PROVE  /\ n > 0 => mem_alloc_aligned(h, n, 1).ret # NULL
             /\ n < U32_MAX => mem_alloc_aligned(h, n + 1, 1).ret = NULL
  <2>1. h.block_count # MAX_BLOCKS
    BY <1>1, <1>7, FreeSlot
  <2>2. U32_MAX \in Nat /\ (n > 0 => n \in 1..U32_MAX) /\ (n < U32_MAX => n + 1 \in 1..U32_MAX)
    BY <1>2, SizesAssumption
  <2>3. n > 0 => mem_alloc_aligned(h, n, 1).ret # NULL
    BY <2>1, <2>2, <1>4, <1>5, <1>7
  <2>4. n < U32_MAX => mem_alloc_aligned(h, n + 1, 1).ret = NULL
    BY <2>1, <2>2, <1>4, <1>6, <1>7
  <2> QED BY <2>3, <2>4
<1> QED BY <1>7 DEF LargestFreeExact, h, n

----------------------------------------------------------------------------
(* The refinement. *)

\* The abstract live set has one member per live descriptor.
LEMMA LiveCount ==
  ASSUME SetFacts, NEW h, HeapInv(h)
  PROVE  Cardinality(LiveView(h)) = h.block_count
<1> DEFINE D == 0..(h.block_count - 1)
           F == [i \in D |-> View(h.blocks[i])]
<1>1. h.block_count \in Nat
  BY SizesAssumption DEF HeapInv, Heaps
<1>3. \A i, j \in D : F[i] = F[j] => i = j
  <2> SUFFICES ASSUME NEW i \in D, NEW j \in D, F[i] = F[j], i # j PROVE FALSE
    BY Zenon
  <2>1. h.blocks[i].start = h.blocks[j].start
    BY DEF View
  <2> QED BY <2>1, StartsDiffer
<1>4. LiveView(h) = {F[i] : i \in D}
  BY Zenon DEF LiveView
<1> HIDE DEF F
<1>5. Distinct(F, h.block_count) /\ LiveView(h) = Entries(F, h.block_count)
  BY <1>3, <1>4, Zenon DEF Distinct, Entries
<1> QED BY <1>1, <1>5, Zenon DEF SetFacts

\* AbstractHeap counts with the same Cardinality.
LEMMA SameCardinality == \A S : Abstract!Cardinality(S) = Cardinality(S)
BY ZenonT(30) DEF Abstract!Cardinality, Cardinality

\* A request is well formed exactly when the allocator's checks pass, and is
\* then charged the aligned size.
LEMMA RequestView ==
  ASSUME NEW c, c.size \in 0..U32_MAX, c.alignment \in 0..U32_MAX
  PROVE  /\ Abstract!Align(c) = EffectiveAlignment(c.alignment)
         /\ Abstract!WellFormed(c) <=> RequestOK(c.size, c.alignment)
         /\ RequestOK(c.size, c.alignment) =>
              Abstract!Charged(c) = AlignedSize(c.size, c.alignment)
<1> DEFINE a == EffectiveAlignment(c.alignment)
           z == c.size
           n == AlignedSize(c.size, c.alignment)
<1>1. Abstract!Align(c) = a
  BY DEF Abstract!Align, EffectiveAlignment
<1>2. U32_MAX \in Nat /\ z \in Nat /\ a \in Nat \ {0}
  BY SizesAssumption DEF EffectiveAlignment
<1>3. Abstract!WellFormed(c) <=> z > 0 /\ IS_POWER_OF_2(a) /\ z + a - 1 <= U32_MAX
  BY <1>1 DEF Abstract!WellFormed, IS_POWER_OF_2
<1>4. RequestOK(c.size, c.alignment) <=> z # 0 /\ IS_POWER_OF_2(a) /\ ~(z > U32_MAX - (a - 1))
  BY DEF RequestOK
<1>5. Abstract!WellFormed(c) <=> RequestOK(c.size, c.alignment)
  <2>1. (z > 0 <=> z # 0) /\ (z + a - 1 <= U32_MAX <=> ~(z > U32_MAX - (a - 1)))
    <3> HIDE DEF a, z
    <3> QED BY <1>2
  <2> HIDE DEF a, z
  <2> QED BY <2>1, <1>3, <1>4
<1>6. ASSUME RequestOK(c.size, c.alignment) PROVE Abstract!Charged(c) = n
  <2>1. n \in z..U32_MAX /\ n <= z + a - 1 /\ n % a = 0
    BY <1>6, RequestSizes
  <2> HIDE DEF n, a, z
  <2>2. n \in z..(z + a - 1) /\ n \in Nat
    BY <2>1, <1>2
  <2>3. Abstract!Charged(c) = CHOOSE x \in z..(z + a - 1) : x % a = 0
    BY <1>1 DEF Abstract!Charged, z
  <2> DEFINE x0 == CHOOSE x \in z..(z + a - 1) : x % a = 0
  <2>4. x0 \in z..(z + a - 1) /\ x0 % a = 0
    BY <2>1, <2>2
  <2> HIDE DEF x0
  <2>5. x0 \in Nat /\ ~(x0 + a <= n) /\ ~(n + a <= x0)
    BY <2>2, <2>4, <1>2
  <2>6. ~(x0 < n) /\ ~(n < x0)
    BY <2>1, <2>2, <2>4, <2>5, <1>2, Multiples
  <2>7. x0 = n
    BY <2>2, <2>5, <2>6
  <2> QED BY <2>3, <2>7 DEF x0
<1> QED BY <1>1, <1>5, <1>6

\* An abstract place is a free aligned range of the region.
LEMMA PlaceView ==
  ASSUME NEW h, HeapInv(h), NEW r \in DOMAIN h.regions, NEW p \in Nat,
         NEW c, c.size \in 0..U32_MAX, c.alignment \in 0..U32_MAX,
         RequestOK(c.size, c.alignment)
  PROVE  LET n == AlignedSize(c.size, c.alignment)
             a == EffectiveAlignment(c.alignment)
         IN  Abstract!Place(RegionView(h), LiveView(h), r, p, c) <=>
               /\ h.regions[r].start <= p
               /\ p + n <= RegionEnd(h.regions[r])
               /\ p % a = 0
               /\ FreeRange(h, p, n)
<1> DEFINE n == AlignedSize(c.size, c.alignment)
           a == EffectiveAlignment(c.alignment)
<1>1. Abstract!Charged(c) = n /\ Abstract!Align(c) = a
  BY RequestView
<1>2. n \in Nat
  BY RequestSizes, SizesAssumption
<1>3. h.regions[r].start \in Nat /\ h.regions[r].size \in Nat
  BY SizesAssumption DEF HeapInv, RegionTable
<1>4. RegionView(h)[r].start = h.regions[r].start /\ RegionView(h)[r].size = h.regions[r].size
  BY DEF RegionView
<1>5. (\A b \in LiveView(h) : ~Abstract!Overlap(p, n, b)) <=> FreeRange(h, p, n)
  <2> HIDE DEF n
  <2>1. ASSUME NEW i \in 0..h.block_count-1
        PROVE  ~Abstract!Overlap(p, n, View(h.blocks[i])) <=>
                 (BlockEnd(h.blocks[i]) <= p \/ p + n <= h.blocks[i].start)
    <3>1. h.blocks[i].start \in Nat /\ h.blocks[i].actual_size \in Nat
      BY LiveBlock
    <3>2. /\ View(h.blocks[i]).start = h.blocks[i].start
          /\ View(h.blocks[i]).actual_size = h.blocks[i].actual_size
      BY Zenon DEF View
    <3> QED BY <3>1, <3>2, <1>2 DEF Abstract!Overlap, BlockEnd
  <2> QED BY <2>1 DEF LiveView, FreeRange
<1> HIDE DEF n, a
<1>6. Abstract!Place(RegionView(h), LiveView(h), r, p, c) <=>
        /\ p >= h.regions[r].start
        /\ p + n <= h.regions[r].start + h.regions[r].size
        /\ p % a = 0
        /\ FreeRange(h, p, n)
  BY <1>1, <1>4, <1>5 DEF Abstract!Place
<1>7. p >= h.regions[r].start <=> h.regions[r].start <= p
  BY <1>3
<1> QED BY <1>6, <1>7, Zenon DEF RegionEnd, n, a

\* The abstract heap has room in a region exactly when the gap search would
\* find some.
LEMMA RoomView ==
  ASSUME NEW h, HeapInv(h), NEW r \in DOMAIN h.regions,
         NEW c, c.size \in 0..U32_MAX, c.alignment \in 0..U32_MAX,
         RequestOK(c.size, c.alignment)
  PROVE  Abstract!HasRoom(RegionView(h), LiveView(h), r, c) <=>
           Room(h, r, AlignedSize(c.size, c.alignment), EffectiveAlignment(c.alignment))
<1> DEFINE n == AlignedSize(c.size, c.alignment)
           a == EffectiveAlignment(c.alignment)
           Fits(p) == /\ h.regions[r].start <= p
                      /\ p + n <= RegionEnd(h.regions[r])
                      /\ p % a = 0
                      /\ FreeRange(h, p, n)
<1>1. \A p \in Nat : Abstract!Place(RegionView(h), LiveView(h), r, p, c) <=> Fits(p)
  BY PlaceView, Zenon
<1>2. n \in Nat
  BY RequestSizes, SizesAssumption
<1>3. h.regions[r].start \in Nat /\ h.regions[r].size \in Nat
  BY SizesAssumption DEF HeapInv, RegionTable
<1> DEFINE E == h.regions[r].start..(h.regions[r].start + h.regions[r].size)
<1>4. E \subseteq Nat /\ \A p \in Nat : Fits(p) => p \in E
  <2> HIDE DEF n, a
  <2> QED BY <1>2, <1>3 DEF RegionEnd
<1>5. Abstract!HasRoom(RegionView(h), LiveView(h), r, c) <=>
        \E p \in E : Abstract!Place(RegionView(h), LiveView(h), r, p, c)
  BY Zenon DEF Abstract!HasRoom, RegionView
<1>6. Room(h, r, n, a) <=> \E p \in Nat : Fits(p)
  BY DEF Room
<1> HIDE DEF Fits, E
<1> QED BY <1>1, <1>4, <1>5, <1>6

\* Views depend on the live descriptors and the regions' bounds only.
LEMMA SameViews ==
  /\ \A h : LiveView(h) = {View(b) : b \in Live(h)}
  /\ \A g, h : SameBounds(g, h) => RegionView(g) = RegionView(h)
BY DEF LiveView, Live, SameBounds, RegionView

\* A refused request is one the abstract heap may refuse.
LEMMA RefusedView ==
  ASSUME SetFacts, NEW h, HeapInv(h), NEW res,
         NEW c, c.size \in 0..U32_MAX, c.alignment \in 0..U32_MAX,
         AllocRefused(res, h, c.size, c.alignment, c.region)
  PROVE  Abstract!Refused(RegionView(h), LiveView(h), c)
<1>1. Abstract!Candidates(RegionView(h), c) = Eligible(h, c.region)
  BY DEF Abstract!Candidates, Eligible, RegionView
<1>2. CASE ~RequestOK(c.size, c.alignment)
  BY <1>2, RequestView DEF Abstract!Refused
<1>3. CASE h.block_count = MAX_BLOCKS
  BY <1>3, LiveCount, SameCardinality DEF Abstract!Refused
<1>4. CASE /\ RequestOK(c.size, c.alignment)
           /\ \A r \in Eligible(h, c.region) :
                ~Room(h, r, AlignedSize(c.size, c.alignment), EffectiveAlignment(c.alignment))
  <2>1. \A r \in Eligible(h, c.region) : r \in DOMAIN h.regions
    BY DEF Eligible
  <2>2. \A r \in Eligible(h, c.region) : ~Abstract!HasRoom(RegionView(h), LiveView(h), r, c)
    BY <2>1, <1>4, RoomView
  <2> QED BY <2>2, <1>1 DEF Abstract!Refused
<1> QED BY <1>2, <1>3, <1>4 DEF AllocRefused

\* The request `c', as the abstract heap serves it in region `r'.
ServedViewOf(h, ret, c, r) ==
  /\ Abstract!ServedIn(RegionView(h), LiveView(h), c, r)
  /\ r \in DOMAIN RegionView(h)
  /\ View(Descriptor(ret, c.size, AlignedSize(c.size, c.alignment), r)) =
       Abstract!NewBlock(c, r)

\* The request `c' that led from `h' to `g', as the abstract heap answers it
\* after the set-up of the region table.
AllocViewOf(g, h, c) ==
  /\ g.initialized \in BOOLEAN
  /\ h.initialized => g.initialized
  /\ h.initialized \/ ~g.initialized => RegionView(g) = RegionView(h)
  /\ \/ /\ Abstract!Refused(RegionView(g), LiveView(h), c)
        /\ c.ret = 0
        /\ LiveView(g) = LiveView(h)
     \/ \E r \in DOMAIN RegionView(g) :
           /\ Abstract!ServedIn(RegionView(g), LiveView(h), c, r)
           /\ LiveView(g) = LiveView(h) \cup {Abstract!NewBlock(c, r)}

\* A served request is served the way the abstract heap serves it.
LEMMA ServedView ==
  ASSUME SetFacts, NEW h, HeapInv(h), NEW res, NEW r,
         NEW c, c.size \in 0..U32_MAX, c.alignment \in 0..U32_MAX, c.ret = res.ret,
         AllocServed(res, h, c.size, c.alignment, c.region, r)
  PROVE  ServedViewOf(h, res.ret, c, r)
<1> DEFINE n == AlignedSize(c.size, c.alignment)
           a == EffectiveAlignment(c.alignment)
           d == Descriptor(res.ret, c.size, n, r)
<1>1. /\ RequestOK(c.size, c.alignment) /\ r \in Eligible(h, c.region)
      /\ Grown(res.heap, h, d) /\ res.ret % a = 0
      /\ \A q \in Eligible(h, c.region) : q < r => ~Room(h, q, n, a)
  BY DEF AllocServed
<1>2. d.start = res.ret /\ d.size = c.size /\ d.actual_size = n /\ d.region_id = r
  BY Zenon DEF Descriptor
<1>3. View(d) = Abstract!NewBlock(c, r)
  BY <1>1, <1>2, RequestView, Zenon DEF View, Abstract!NewBlock
<1> HIDE DEF d, n, a
<1>4. /\ res.ret \in Nat /\ Placed(h, d) /\ FreeRange(h, res.ret, n) /\ h.block_count < MAX_BLOCKS
  BY <1>1, <1>2 DEF Grown, Blocks
<1>5. Eligible(h, c.region) \subseteq DOMAIN h.regions
  BY DEF Eligible
<1>6. /\ h.regions[r].start <= res.ret /\ res.ret + n <= RegionEnd(h.regions[r])
  BY <1>2, <1>4, Zenon DEF Placed, BlockEnd
<1>7. Room(h, r, n, a)
  BY <1>1, <1>4, <1>6, Zenon DEF Room
<1>8. Abstract!Place(RegionView(h), LiveView(h), r, c.ret, c)
  BY <1>1, <1>4, <1>5, <1>6, PlaceView, Zenon DEF n, a
<1>9. \A q \in Eligible(h, c.region) :
         Abstract!HasRoom(RegionView(h), LiveView(h), q, c) <=> Room(h, q, n, a)
  BY <1>1, <1>5, RoomView, Zenon DEF n, a
<1>10. Abstract!Candidates(RegionView(h), c) = Eligible(h, c.region) /\ DOMAIN RegionView(h) = DOMAIN h.regions
  BY Zenon DEF Abstract!Candidates, Eligible, RegionView
<1>11. Cardinality(LiveView(h)) # MAX_BLOCKS
  BY <1>4, LiveCount, SizesAssumption DEF HeapInv, Heaps
<1>12. Abstract!WellFormed(c)
  BY <1>1, RequestView
<1>13. ~Abstract!Refused(RegionView(h), LiveView(h), c)
  BY <1>1, <1>7, <1>9, <1>10, <1>11, <1>12, SameCardinality, Zenon DEF Abstract!Refused
<1>14. Abstract!ServedIn(RegionView(h), LiveView(h), c, r)
  BY <1>1, <1>8, <1>9, <1>10, <1>13, Zenon DEF Abstract!ServedIn
<1> QED BY <1>1, <1>3, <1>5, <1>10, <1>14, Zenon DEF ServedViewOf, d, n

\* An allocation, whichever entry point made it, does what the abstract heap
\* does after the set-up of the region table.
LEMMA AllocView ==
  ASSUME SetFacts, NEW h, Sound(h), NEW res,
         NEW c, c.size \in 0..U32_MAX, c.alignment \in 0..U32_MAX, c.ret = res.ret,
         AllocOutcome(res, h, c.size, c.alignment, c.region)
  PROVE  AllocViewOf(res.heap, h, c)
<1> DEFINE g == LazyInit(h)
<1>1. /\ Sound(g) /\ HeapInv(g) /\ Live(g) = Live(h)
      /\ h.initialized \/ ~g.initialized => g = h
  BY LazyInitSound, Zenon DEF Sound
<1>2. LiveView(g) = LiveView(h)
  BY <1>1, SameViews
<1>3. \/ AllocRefused(res, g, c.size, c.alignment, c.region)
      \/ \E r \in Eligible(g, c.region) : AllocServed(res, g, c.size, c.alignment, c.region, r)
  BY DEF AllocOutcome
<1> HIDE DEF g
<1>4. res.heap.initialized = g.initialized /\ SameBounds(res.heap, g)
  <2>1. CASE AllocRefused(res, g, c.size, c.alignment, c.region)
    BY <2>1, Zenon DEF AllocRefused, Same, SameBounds
  <2>2. ASSUME NEW r, AllocServed(res, g, c.size, c.alignment, c.region, r)
        PROVE  res.heap.initialized = g.initialized /\ SameBounds(res.heap, g)
    <3>1. PICK d : Grown(res.heap, g, d)
      BY <2>2 DEF AllocServed
    <3> QED BY <3>1, <1>1, GrownBounds DEF Grown
  <2> QED BY <2>1, <2>2, <1>3
<1>5. RegionView(res.heap) = RegionView(g)
  BY <1>4, SameViews
<1>6. g.initialized \in BOOLEAN
  BY <1>1 DEF HeapInv, Heaps
<1>7. CASE AllocRefused(res, g, c.size, c.alignment, c.region)
  <2>1. Abstract!Refused(RegionView(g), LiveView(g), c)
    BY <1>1, <1>7, RefusedView, Zenon
  <2>2. c.ret = 0 /\ Live(res.heap) = Live(g)
    BY <1>7 DEF AllocRefused, Same, NULL
  <2>3. LiveView(res.heap) = LiveView(g)
    BY <2>2, SameViews
  <2> QED BY <2>1, <2>2, <2>3, <1>1, <1>2, <1>4, <1>5, <1>6, Zenon DEF AllocViewOf
<1>8. ASSUME NEW r, AllocServed(res, g, c.size, c.alignment, c.region, r)
      PROVE  /\ r \in DOMAIN RegionView(res.heap)
             /\ Abstract!ServedIn(RegionView(res.heap), LiveView(h), c, r)
             /\ LiveView(res.heap) = LiveView(h) \cup {Abstract!NewBlock(c, r)}
  <2> DEFINE d == Descriptor(res.ret, c.size, AlignedSize(c.size, c.alignment), r)
  <2>1. /\ Abstract!ServedIn(RegionView(g), LiveView(g), c, r)
        /\ r \in DOMAIN RegionView(g)
        /\ View(d) = Abstract!NewBlock(c, r)
    <3>1. ServedViewOf(g, res.ret, c, r)
      BY <1>1, <1>8, ServedView, Zenon
    <3> QED BY <3>1, Zenon DEF ServedViewOf
  <2>2. Live(res.heap) = Live(g) \cup {d}
    BY <1>8, Zenon DEF AllocServed, Grown
  <2> HIDE DEF d
  <2>3. LiveView(res.heap) = LiveView(g) \cup {View(d)}
    BY <2>2, SameViews
  <2> QED BY <2>1, <2>3, <1>2, <1>5
<1> QED BY <1>1, <1>3, <1>4, <1>5, <1>6, <1>7, <1>8, Zenon DEF AllocViewOf

\* A reallocation of a live block has one of the four abstract outcomes.
LEMMA ReallocView ==
  ASSUME SetFacts, NEW h, Sound(h), NEW b \in Live(h), NEW res,
         NEW c, c.size \in 0..U32_MAX, c.alignment \in 0..U32_MAX, c.ret = res.ret,
         c.region = -1,
         ReallocOfLive(res, h, b, c.size, c.alignment)
  PROVE  LET L == LiveView(h)
             M == LiveView(res.heap)
             v == View(b)
             pow == \E k \in 0..Abstract!Align(c) : Abstract!Align(c) = 2^k
         IN  \/ c.size = 0 /\ c.ret = 0 /\ M = L \ {v}
             \/ /\ c.size \in 1..v.size /\ pow /\ c.ret = v.start
                /\ M = (L \ {v}) \cup {[v EXCEPT !.size = c.size]}
             \/ /\ c.size > v.size
                /\ \E r \in DOMAIN RegionView(h) :
                     /\ Abstract!ServedIn(RegionView(h), L, c, r)
                     /\ M = (L \ {v}) \cup {Abstract!NewBlock(c, r)}
             \/ /\ \/ c.size > v.size /\ Abstract!Refused(RegionView(h), L, c)
                   \/ c.size > 0 /\ ~pow
                /\ c.ret \in {0, v.start}
                /\ M = L
<1> DEFINE L == LiveView(h)
           M == LiveView(res.heap)
           v == View(b)
           pow == \E k \in 0..Abstract!Align(c) : Abstract!Align(c) = 2^k
<1>0. HeapInv(h)
  BY DEF Sound
<1>1. pow <=> IS_POWER_OF_2(EffectiveAlignment(c.alignment))
  BY RequestView DEF IS_POWER_OF_2
<1> HIDE DEF pow
<1>2. v.size = b.size /\ v.start = b.start /\ NULL = 0
  BY DEF View, NULL
<1>3. L = {View(x) : x \in Live(h)} /\ M = {View(x) : x \in Live(res.heap)}
  BY SameViews
<1>4. \A x \in Live(h) : View(x) = v => x = b
  <2> SUFFICES ASSUME NEW i \in 0..h.block_count-1, NEW j \in 0..h.block_count-1,
                      View(h.blocks[i]) = View(h.blocks[j])
               PROVE  i = j
    BY DEF Live
  <2>1. h.blocks[i].start = h.blocks[j].start
    BY DEF View
  <2> QED BY <2>1, <1>0, StartsDiffer
<1>5. L \ {v} = {View(x) : x \in Live(h) \ {b}}
  <2> HIDE DEF v
  <2>1. v = View(b)
    BY DEF v
  <2> HIDE DEF L, M
  <2> QED BY <2>1, <1>3, <1>4
<1>6. \A d : M = {View(x) : x \in (Live(h) \ {b}) \cup {d}} => M = (L \ {v}) \cup {View(d)}
  <2> HIDE DEF v, L, M
  <2> QED BY <1>5
<1> HIDE DEF L, M, v
<1>7. CASE c.size = 0 /\ res.ret = NULL /\ Live(res.heap) = Live(h) \ {b}
  <2>1. c.size = 0 /\ c.ret = 0 /\ M = L \ {v}
    BY <1>2, <1>3, <1>5, <1>7
  <2> QED BY <2>1 DEF L, M, v
<1>8. CASE /\ c.size \in 1..b.size /\ IS_POWER_OF_2(EffectiveAlignment(c.alignment))
           /\ res.ret = b.start
           /\ Live(res.heap) = (Live(h) \ {b}) \cup {[b EXCEPT !.size = c.size]}
  <2>1. b \in Blocks
    <3>1. PICK i \in 0..h.block_count-1 : b = h.blocks[i]
      BY DEF Live
    <3> QED BY <3>1, <1>0, LiveBlock
  <2>2. View([b EXCEPT !.size = c.size]) = [v EXCEPT !.size = c.size]
    BY <2>1 DEF View, Blocks, v
  <2>3. M = (L \ {v}) \cup {[v EXCEPT !.size = c.size]}
    BY <2>2, <1>3, <1>6, <1>8, Zenon
  <2>4. c.size \in 1..v.size /\ pow /\ c.ret = v.start
    BY <1>1, <1>2, <1>8
  <2> QED BY <2>3, <2>4 DEF L, M, v, pow
<1>9. CASE /\ c.size > b.size
           /\ \E new, r : /\ AllocServed(new, h, c.size, c.alignment, -1, r)
                          /\ res.ret = new.ret
                          /\ Live(res.heap) =
                               (Live(h) \ {b}) \cup
                               {Descriptor(res.ret, c.size, AlignedSize(c.size, c.alignment), r)}
  <2>1. PICK new, r : /\ AllocServed(new, h, c.size, c.alignment, -1, r)
                      /\ res.ret = new.ret
                      /\ Live(res.heap) =
                           (Live(h) \ {b}) \cup
                           {Descriptor(res.ret, c.size, AlignedSize(c.size, c.alignment), r)}
    BY <1>9, Zenon
  <2> DEFINE d == Descriptor(res.ret, c.size, AlignedSize(c.size, c.alignment), r)
  <2>2. /\ Abstract!ServedIn(RegionView(h), LiveView(h), c, r)
        /\ r \in DOMAIN RegionView(h)
        /\ View(d) = Abstract!NewBlock(c, r)
    <3>1. ServedViewOf(h, new.ret, c, r)
      BY <2>1, <1>0, ServedView, Zenon
    <3> QED BY <3>1, <2>1, Zenon DEF ServedViewOf
  <2>3. M = (L \ {v}) \cup {View(d)}
    BY <2>1, <1>3, <1>6
  <2> HIDE DEF d
  <2>4. c.size > v.size
    BY <1>2, <1>9
  <2> QED BY <2>2, <2>3, <2>4 DEF L, M, v
<1>10. CASE /\ c.size # 0 /\ res.ret \in {NULL, b.start}
            /\ Live(res.heap) = Live(h)
            /\ \/ ~IS_POWER_OF_2(EffectiveAlignment(c.alignment))
               \/ c.size > b.size /\ \E new : AllocRefused(new, h, c.size, c.alignment, -1)
  <2>1. M = L /\ c.ret \in {0, v.start}
    BY <1>2, <1>3, <1>10
  <2>2. CASE ~IS_POWER_OF_2(EffectiveAlignment(c.alignment))
    <3>1. c.size > 0 /\ ~pow
      BY <2>2, <1>1, <1>10, SizesAssumption
    <3> QED BY <3>1, <2>1 DEF L, M, v, pow
  <2>3. CASE c.size > b.size /\ \E new : AllocRefused(new, h, c.size, c.alignment, -1)
    <3>1. c.size > v.size /\ Abstract!Refused(RegionView(h), L, c)
      BY <2>3, <1>0, <1>2, RefusedView, Zenon DEF L
    <3> QED BY <3>1, <2>1 DEF L, M, v
  <2> QED BY <2>2, <2>3, <1>10
<1> QED BY <1>7, <1>8, <1>9, <1>10 DEF ReallocOfLive

\* The allocating part of an abstract step.
LEMMA AllocatingStep ==
  ASSUME SetFacts, Sound(heap), NEW res, heap' = res.heap,
         call'.size \in 0..U32_MAX, call'.alignment \in 0..U32_MAX, call'.ret = res.ret,
         AllocOutcome(res, heap, call'.size, call'.alignment, call'.region)
  PROVE  /\ Abstract!Setup
         /\ \/ /\ Abstract!Refused(RegionView(heap'), LiveView(heap), call')
               /\ call'.ret = 0
               /\ LiveView(heap') = LiveView(heap)
            \/ \E r \in DOMAIN RegionView(heap') :
                  /\ Abstract!ServedIn(RegionView(heap'), LiveView(heap), call', r)
                  /\ LiveView(heap') = LiveView(heap) \cup {Abstract!NewBlock(call', r)}
<1> DEFINE c == call'
<1> HIDE DEF c
<1>1. /\ c.size \in 0..U32_MAX /\ c.alignment \in 0..U32_MAX /\ c.ret = res.ret
      /\ AllocOutcome(res, heap, c.size, c.alignment, c.region)
  BY DEF c
<1>2. AllocViewOf(res.heap, heap, c)
  BY <1>1, AllocView, Zenon
<1>3. Abstract!Setup
  BY <1>2, ZenonT(30) DEF AllocViewOf, Abstract!Setup
<1> QED BY <1>2, <1>3, Zenon DEF AllocViewOf, c

\* Every call of the table-based allocator is a call of the abstract heap.
LEMMA AbstractStep ==
  ASSUME SetFacts, IInv, [Next]_vars
  PROVE  [Abstract!Next]_(Abstract!vars)
<1>0. Sound(heap) /\ HeapInv(heap)
  BY DEF IInv, Sound
<1>1. ASSUME NEW t \in Configs, MemInitWithConfig(t) PROVE Abstract!Reset
  <2>1. heap' = EmptyHeap(t, TRUE) /\ call'.fn = "none"
    BY <1>1 DEF MemInitWithConfig, Initialised, NoCall
  <2>2. Live(heap') = {} /\ heap'.initialized = TRUE
    BY <2>1, RegionsAssumption, EmptyHeapSound, ZenonT(30)
  <2>3. LiveView(heap') = {}
    BY <2>2, SameViews
  <2> QED BY <2>1, <2>2, <2>3, Zenon DEF Abstract!Reset
<1>2. ASSUME NEW size \in Sizes, NEW alignment \in Alignments, NEW region, NEW res,
             AllocOutcome(res, heap, size, alignment, region),
             heap' = res.heap, call' = Call("alloc", NULL, size, alignment, region, res.ret)
      PROVE  Abstract!Alloc
  <2>1. /\ call'.fn = "alloc" /\ call'.size = size /\ call'.alignment = alignment
        /\ call'.region = region /\ call'.ret = res.ret
    BY <1>2 DEF Call
  <2>2. call'.size \in 0..U32_MAX /\ call'.alignment \in 0..U32_MAX
    BY <2>1, SizesAssumption
  <2>3. AllocOutcome(res, heap, call'.size, call'.alignment, call'.region)
    BY <2>1, <1>2
  <2>4. /\ Abstract!Setup
        /\ \/ /\ Abstract!Refused(RegionView(heap'), LiveView(heap), call')
              /\ call'.ret = 0
              /\ LiveView(heap') = LiveView(heap)
           \/ \E r \in DOMAIN RegionView(heap') :
                 /\ Abstract!ServedIn(RegionView(heap'), LiveView(heap), call', r)
                 /\ LiveView(heap') = LiveView(heap) \cup {Abstract!NewBlock(call', r)}
    BY <2>1, <2>2, <2>3, <1>0, <1>2, AllocatingStep
  <2> QED BY <2>1, <2>4 DEF Abstract!Alloc
<1>3. ASSUME NEW size \in Sizes, NEW alignment \in Alignments, MemAllocAligned(size, alignment)
      PROVE  Abstract!Alloc
  <2>1. AllocOutcome(mem_alloc_aligned(heap, size, alignment), heap, size, alignment, -1)
    BY <1>0, SizesAssumption, AllocExact
  <2> QED BY <2>1, <1>2, <1>3 DEF MemAllocAligned
<1>4. ASSUME NEW r \in 0..MAX_MEM_REGIONS-1, NEW size \in Sizes, NEW alignment \in Alignments,
             MemAllocAlignedFromRegion(r, size, alignment)
      PROVE  Abstract!Alloc
  <2>1. r \in Nat
    OBVIOUS
  <2>2. AllocOutcome(mem_alloc_aligned_from_region(heap, r, size, alignment), heap, size, alignment, r)
    BY <2>1, <1>0, SizesAssumption, AllocExact
  <2> QED BY <2>2, <1>2, <1>4 DEF MemAllocAlignedFromRegion
<1>5. ASSUME NEW ptr \in Pointers, MemFree(ptr) PROVE Abstract!Free
  <2>1. heap' = mem_free(heap, ptr) /\ call'.fn = "free" /\ call'.ptr = ptr
    BY <1>5 DEF MemFree, Call
  <2>2. /\ Live(heap') = {b \in Live(heap) : b.start # ptr}
        /\ SameBounds(heap', heap) /\ heap'.initialized = heap.initialized
    BY <2>1, <1>0, FreeSound
  <2>3. LiveView(heap') = {v \in LiveView(heap) : v.start # ptr}
    <3>1. LiveView(heap') = {View(b) : b \in {x \in Live(heap) : x.start # ptr}}
      BY <2>2, SameViews
    <3>2. LiveView(heap) = {View(b) : b \in Live(heap)}
      BY SameViews
    <3>3. \A b : View(b).start = b.start
      BY DEF View
    <3> QED BY <3>1, <3>2, <3>3
  <2>4. RegionView(heap') = RegionView(heap)
    BY <2>2, SameViews
  <2> QED BY <2>1, <2>2, <2>3, <2>4 DEF Abstract!Free
<1>6. ASSUME NEW ptr \in Pointers, NEW size \in Sizes, NEW alignment \in Alignments,
             MemReallocAligned(ptr, size, alignment)
      PROVE  Abstract!Realloc
  <2> DEFINE res == mem_realloc_aligned(heap, ptr, size, alignment)
  <2>1. /\ heap' = res.heap /\ call'.fn = "realloc" /\ call'.ptr = ptr /\ call'.size = size
        /\ call'.alignment = alignment /\ call'.region = -1 /\ call'.ret = res.ret
    BY <1>6 DEF MemReallocAligned, Call
  <2>2. ptr \in Nat /\ size \in 0..U32_MAX /\ alignment \in 0..U32_MAX
    BY SizesAssumption
  <2>3. ReallocOutcome(res, heap, ptr, size, alignment)
    BY <2>2, <1>0, ReallocExact
  <2> HIDE DEF res
  <2>4. CASE ptr = NULL /\ AllocOutcome(res, heap, size, alignment, -1)
    <3>1. AllocOutcome(res, heap, call'.size, call'.alignment, call'.region)
      BY <2>1, <2>4
    <3>2. /\ Abstract!Setup
          /\ \/ /\ Abstract!Refused(RegionView(heap'), LiveView(heap), call')
                /\ call'.ret = 0
                /\ LiveView(heap') = LiveView(heap)
             \/ \E r \in DOMAIN RegionView(heap') :
                   /\ Abstract!ServedIn(RegionView(heap'), LiveView(heap), call', r)
                   /\ LiveView(heap') = LiveView(heap) \cup {Abstract!NewBlock(call', r)}
      BY <3>1, <2>1, <2>2, <1>0, AllocatingStep
    <3> QED BY <3>2, <2>1, <2>4, Zenon DEF Abstract!Realloc, NULL
  <2>5. CASE /\ ptr # NULL /\ \A b \in Live(heap) : b.start # ptr
             /\ res.ret = NULL /\ Same(res.heap, heap)
    <3>1. SameBounds(heap', heap) /\ Live(heap') = Live(heap) /\ heap'.initialized = heap.initialized
      BY <2>1, <2>5 DEF Same, SameBounds
    <3>2. RegionView(heap') = RegionView(heap) /\ LiveView(heap') = LiveView(heap)
      BY <3>1, SameViews, Zenon
    <3>3. \A v \in LiveView(heap) : v.start # ptr
      BY <2>5, SameViews DEF View
    <3> QED BY <3>1, <3>2, <3>3, <2>1, <2>5 DEF Abstract!Realloc, NULL
  <2>6. CASE /\ ptr # NULL /\ heap.initialized
             /\ res.heap.initialized /\ SameBounds(res.heap, heap)
             /\ \E b \in Live(heap) : b.start = ptr /\ ReallocOfLive(res, heap, b, size, alignment)
    <3>1. PICK b \in Live(heap) : b.start = ptr /\ ReallocOfLive(res, heap, b, size, alignment)
      BY <2>6
    <3> DEFINE c == call'
    <3> HIDE DEF c
    <3>2. /\ c.size = size /\ c.alignment = alignment /\ c.region = -1 /\ c.ret = res.ret
          /\ c.size \in 0..U32_MAX /\ c.alignment \in 0..U32_MAX
          /\ ReallocOfLive(res, heap, b, c.size, c.alignment)
      BY <2>1, <2>2, <3>1, Zenon DEF c
    <3> DEFINE L == LiveView(heap)
               M == LiveView(res.heap)
               v == View(b)
               pow == \E k \in 0..Abstract!Align(c) : Abstract!Align(c) = 2^k
    <3>3. \/ c.size = 0 /\ c.ret = 0 /\ M = L \ {v}
          \/ /\ c.size \in 1..v.size /\ pow /\ c.ret = v.start
             /\ M = (L \ {v}) \cup {[v EXCEPT !.size = c.size]}
          \/ /\ c.size > v.size
             /\ \E r \in DOMAIN RegionView(heap) :
                  /\ Abstract!ServedIn(RegionView(heap), L, c, r)
                  /\ M = (L \ {v}) \cup {Abstract!NewBlock(c, r)}
          \/ /\ \/ c.size > v.size /\ Abstract!Refused(RegionView(heap), L, c)
                \/ c.size > 0 /\ ~pow
             /\ c.ret \in {0, v.start}
             /\ M = L
      BY <3>2, <1>0, ReallocView
    <3>4. Abstract!ReallocLive(v)
      BY <3>3, <2>1 DEF Abstract!ReallocLive, c
    <3>5. v \in LiveView(heap) /\ v.start = ptr
      BY <3>1, SameViews, Zenon DEF View
    <3>6. RegionView(heap') = RegionView(heap)
      BY <2>1, <2>6, SameViews, Zenon
    <3>7. heap'.initialized = heap.initialized
      BY <2>1, <2>6, <1>0, Zenon DEF HeapInv, Heaps
    <3> HIDE DEF v
    <3> QED BY <3>4, <3>5, <3>6, <3>7, <2>1, <2>6 DEF Abstract!Realloc, NULL
  <2> QED BY <2>3, <2>4, <2>5, <2>6, Zenon DEF ReallocOutcome
<1>7. CASE UNCHANGED vars
  BY <1>7 DEF vars, Abstract!vars
<1> QED BY <1>1, <1>3, <1>4, <1>5, <1>6, <1>7 DEF Next, Abstract!Next

----------------------------------------------------------------------------
(* The theorems. *)

INSTANCE FiniteSetTheorems

\* The facts about sets all of the above rests on.
LEMMA SetFactsHold == SetFacts
<1>1. ASSUME NEW S \in SUBSET Nat, S # {} PROVE \E x \in S : \A y \in S : x <= y
  <2> DEFINE T == {0..(x-1) : x \in S}
  <2>1. T \subseteq FiniteSubsetsOf(Nat) /\ T # {}
    <3>1. ASSUME NEW x \in S PROVE 0..(x-1) \in SUBSET Nat /\ IsFiniteSet(0..(x-1))
      <4>1. x - 1 \in Int /\ 0 \in Int /\ 0..(x-1) \in SUBSET Nat
        OBVIOUS
      <4> QED BY ONLY <4>1, FS_Interval
    <3>2. \A t \in T : t \in SUBSET Nat /\ IsFiniteSet(t)
      BY <3>1, Zenon
    <3>3. T # {}
      <4>1. PICK x : x \in S
        BY <1>1
      <4>2. 0..(x-1) \in T
        BY <4>1
      <4> QED BY <4>2
    <3> HIDE DEF T
    <3> QED BY <3>2, <3>3, ZenonT(30) DEF FiniteSubsetsOf
  <2>2. PICK s \in T : \A t \in T : ~(<<t, s>> \in StrictSubsetOrdering(Nat))
    BY <2>1, WFMin, FS_StrictSubsetOrderingWellFounded, ZenonT(30)
  <2>3. PICK x \in S : s = 0..(x-1)
    BY <2>2
  <2>4. ASSUME NEW y \in S, y < x PROVE FALSE
    <3> DEFINE t == 0..(y-1)
    <3>1. t \in SUBSET Nat /\ s \in SUBSET Nat /\ t \subseteq s /\ t # s /\ t \in T
      <4>1. x \in Nat /\ y \in Nat
        OBVIOUS
      <4>2. y \in s /\ y \notin t
        BY <4>1, <2>3, <2>4
      <4>3. t \subseteq s /\ t \in SUBSET Nat /\ s \in SUBSET Nat
        BY <4>1, <2>3, <2>4
      <4>4. t \in T
        OBVIOUS
      <4> QED BY <4>2, <4>3, <4>4
    <3> HIDE DEF t, T
    <3>2. <<t, s>> \in StrictSubsetOrdering(Nat)
      BY <3>1, ZenonT(30) DEF StrictSubsetOrdering
    <3> QED BY <3>1, <3>2, <2>2
  <2>5. \A y \in S : x <= y
    <3> SUFFICES ASSUME NEW y \in S, ~(x <= y) PROVE FALSE
      OBVIOUS
    <3>1. y < x 
      OBVIOUS
    <3> QED BY <3>1, <2>4
  <2> QED BY <2>5
<1>2. Cardinality({}) = 0
  BY FS_EmptySet
<1>3. \A a, b \in Int :
        IsFiniteSet(a..b) /\ Cardinality(a..b) = IF a > b THEN 0 ELSE b - a + 1
  BY FS_Interval
<1>4. \A S, T : IsFiniteSet(T) /\ S \subseteq T =>
        IsFiniteSet(S) /\ Cardinality(S) \in Nat /\ Cardinality(S) <= Cardinality(T)
  BY FS_Subset, FS_CardinalityType
<1>5. \A S, T : IsFiniteSet(S) /\ IsFiniteSet(T) =>
        Cardinality(S \cup T) = Cardinality(S) + Cardinality(T) - Cardinality(S \cap T)
  BY FS_Union
<1>6. ASSUME NEW n \in Nat, NEW f, Distinct(f, n)
      PROVE  Cardinality(Entries(f, n)) = n
  <2> DEFINE D == 0..(n - 1)
             V == {f[i] : i \in D}
             F == [i \in D |-> f[i]]
  <2>1. IsFiniteSet(D) /\ Cardinality(D) = n
    <3>1. 0 \in Int /\ n - 1 \in Int
      OBVIOUS
    <3>2. IsFiniteSet(D) /\ Cardinality(D) = IF 0 > n - 1 THEN 0 ELSE (n - 1) - 0 + 1
      BY <3>1, FS_Interval
    <3> QED BY <3>2
  <2>2. F \in [D -> V] /\ (\A v \in V : \E i \in D : F[i] = v) /\ \A i, j \in D : F[i] = F[j] => i = j
    BY <1>6 DEF Distinct
  <2> HIDE DEF F, D, V
  <2>3. F \in Bijection(D, V)
    BY <2>2, ZenonT(30) DEF Bijection, Injection, Surjection, IsInjective
  <2>4. ExistsBijection(D, V)
    BY <2>3 DEF ExistsBijection
  <2>5. Cardinality(V) = n
    BY <2>1, <2>4, FS_Bijection
  <2> QED BY <2>5 DEF D, V, Entries
<1> QED BY <1>1, <1>2, <1>3, <1>4, <1>5, <1>6, Zenon DEF SetFacts

\* The invariant holds in every behaviour of the allocator.
LEMMA IInvAlways == Spec => []IInv
<1>1. Init => IInv
  BY SetFactsHold, InitIInv
<1>2. IInv /\ [Next]_vars => IInv'
  BY SetFactsHold, NextIInv
<1> QED BY <1>1, <1>2, PTL DEF Spec

\* Type correctness of the allocator.
THEOREM TypeCorrect == Spec => []TypeOK
<1>1. ASSUME IInv PROVE TypeOK
  <2>1. heap \in Heaps /\ RegionTable(heap.regions) /\ call.ret \in Nat
    BY <1>1 DEF IInv, Sound, HeapInv
  <2>2. heap.regions \in RegionTables
    BY <2>1 DEF Heaps
  <2>3. /\ DOMAIN heap.regions \subseteq 0..MAX_MEM_REGIONS-1
        /\ \A r \in DOMAIN heap.regions : heap.regions[r].memory_used \in 0..U32_MAX
    BY <2>2 DEF RegionTables
  <2> QED BY <2>1, <2>3 DEF Heaps, TypeOK
<1> QED BY <1>1, IInvAlways, PTL

\* For every table length, region table and sequence of calls, the descriptor
\* table stays packed and no descriptor leaks.
THEOREM PackedAlways == Spec => []TablePacked
<1>1. IInv => TablePacked
  BY DEF IInv, Sound, HeapInv, TablePacked
<1> QED BY <1>1, IInvAlways, PTL

\* No two live blocks ever overlap, and the table is in address order even
\* when need_sort is clear.
THEOREM DisjointAlways == Spec => []LiveBlocksDisjoint
<1>1. IInv => LiveBlocksDisjoint
  BY DEF IInv, Sound, HeapInv, LiveBlocksDisjoint
<1> QED BY <1>1, IInvAlways, PTL

\* Every live block lies inside the region it is charged to.
THEOREM InRegionAlways == Spec => []LiveBlocksInRegion
<1>1. IInv => LiveBlocksInRegion
  BY DEF IInv, Sound, HeapInv, LiveBlocksInRegion
<1> QED BY <1>1, IInvAlways, PTL

\* A pointer returned by an allocation is aligned as requested and belongs to
\* a live block at least as large as the request.
THEOREM AllocReturnsBlockAlways == Spec => []AllocReturnsBlock
<1>1. IInv => AllocReturnsBlock
  BY DEF IInv
<1> QED BY <1>1, IInvAlways, PTL

\* The usage counter of every region is the number of bytes its live blocks
\* occupy: it never drifts, wraps or saturates.
THEOREM UsageExactAlways == Spec => []UsageExact
<1>1. IInv => UsageExact
  BY DEF IInv, Sound, Usage, UsageExact
<1> QED BY <1>1, IInvAlways, PTL

\* mem_get_largest_free_block tells callers the truth: as long as a descriptor
\* is left, a request of that size succeeds and any larger one fails.
THEOREM LargestFreeExactAlways == Spec => []LargestFreeExact
<1>1. IInv => LargestFreeExact
  BY SetFactsHold, LargestFree
<1> QED BY <1>1, IInvAlways, PTL

\* mem_alloc, mem_free and mem_realloc over the packed descriptor table
\* implement the abstract heap, for every table size, region table and
\* request: first fit serves a request in the first region that has an aligned
\* place for it, and refuses one only when it is malformed, the table is full
\* or no such place exists.
THEOREM AbstractHeapRefined == Spec => ImplementsAbstractHeap
<1>1. Init => Abstract!Init
  <2> SUFFICES ASSUME Init PROVE Abstract!Init
    OBVIOUS
  <2>1. heap.initialized = FALSE /\ heap.block_count = 0 /\ DOMAIN heap.regions = {}
    BY DEF Init, EmptyHeap
  <2>2. LiveView(heap) = {}
    BY <2>1 DEF LiveView
  <2>3. RegionView(heap) = << >>
    BY <2>1 DEF RegionView
  <2> QED BY <2>1, <2>2, <2>3, Zenon DEF Init, NoCall, Abstract!Init
<1>2. IInv /\ [Next]_vars => [Abstract!Next]_(Abstract!vars)
  BY SetFactsHold, AbstractStep
<1> QED BY <1>1, <1>2, IInvAlways, PTL
        DEF Spec, ImplementsAbstractHeap, Abstract!Spec
=============================================================================
