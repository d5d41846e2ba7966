---------------------------- MODULE MemAllocator ----------------------------
(***************************************************************************)
(* The static allocator of drivers/kinetis/memory_allocator.c, which backs *)
(* kmalloc, kfree, krealloc and memblock_alloc (mm/slab.c).                *)
(*                                                                         *)
(* The file-scope state is the record `heap': the descriptor table         *)
(* blocks[MAX_BLOCKS], block_count, need_sort, initialized and the region  *)
(* table g_regions.  Every entry point runs under the recursive mem_lock   *)
(* (simulation) or on the only thread (target), so one call is one step;   *)
(* `call' is the last call with its arguments and its return value.        *)
(* Addresses and sizes are naturals; u32 sizes end at U32_MAX.             *)
(***************************************************************************)
EXTENDS Integers, FiniteSets

CONSTANTS
  MAX_BLOCKS,       \* length of the descriptor table
  MAX_MEM_REGIONS,  \* length of the region table
  U32_MAX,          \* 0xFFFFFFFF, scaled down by the model
  LinkerPools,      \* the pool slots of the linker script, 0..MAX_MEM_REGIONS-1
  Configs,          \* the tables mem_init_with_config may be called with
  Sizes,            \* sizes callers ask for
  Alignments,       \* alignments callers ask for
  Pointers          \* pointers callers pass to mem_free and mem_realloc

VARIABLES heap, call

vars == <<heap, call>>

NULL == 0

----------------------------------------------------------------------------
(* Regions. *)

RegionEnd(r) == r.start + r.size

\* A region table: addresses start above NULL, no region is empty, and the
\* regions do not overlap (they are sections placed by the linker).
RegionTable(t) ==
  /\ DOMAIN t \subseteq Nat
  /\ \A i \in DOMAIN t : /\ t[i].start \in Nat \ {0}
                         /\ t[i].size \in 1..U32_MAX
  /\ \A i, j \in DOMAIN t :
        i # j => \/ RegionEnd(t[i]) <= t[j].start
                 \/ RegionEnd(t[j]) <= t[i].start

\* mem_init keeps the non-empty pools, in order.
PoolIds == {i \in 0..MAX_MEM_REGIONS-1 : LinkerPools[i].size > 0}

MemInitTable ==
  [k \in 0..Cardinality(PoolIds)-1 |->
     LinkerPools[CHOOSE i \in PoolIds : Cardinality({j \in PoolIds : j < i}) = k]]

ASSUME SizesAssumption ==
  /\ MAX_BLOCKS \in Nat \ {0}
  /\ MAX_MEM_REGIONS \in Nat \ {0}
  /\ U32_MAX \in Nat \ {0}
  /\ Sizes \subseteq 0..U32_MAX
  /\ Alignments \subseteq 0..U32_MAX
  /\ Pointers \subseteq Nat

ASSUME RegionsAssumption ==
  /\ RegionTable(MemInitTable)
  /\ \A t \in Configs : RegionTable(t)

----------------------------------------------------------------------------
(* The descriptor table. *)

FreeBlock ==
  [start |-> NULL, size |-> 0, actual_size |-> 0, status |-> "FREE", region_id |-> 0]

\* As in FiniteSetsExt, of which the allocator needs no more than this.
Min(S) == CHOOSE x \in S : \A y \in S : x <= y

Max(S) == CHOOSE x \in S : \A y \in S : x >= y

BlockEnd(b) == b.start + b.actual_size

\* (val + align - 1) & ~(align - 1), for an alignment that is a power of two.
ALIGN_UP(val, align) == (val + align - 1) - ((val + align - 1) % align)

IS_POWER_OF_2(x) == \E k \in 0..x : x = 2^k

find_free_block(h) == \E i \in 0..MAX_BLOCKS-1 : h.blocks[i].status = "FREE"

\* The exchange sort swaps only on an inversion, so it leaves a table without
\* inversions alone; otherwise it yields the permutation sorted by address.
Inverted(h) ==
  \E i, j \in 0..h.block_count-1 : i < j /\ h.blocks[j].start < h.blocks[i].start

SortedBlocks(h) ==
  IF ~Inverted(h) THEN h.blocks
  ELSE CHOOSE b \in [0..MAX_BLOCKS-1 -> {h.blocks[i] : i \in 0..MAX_BLOCKS-1}] :
         /\ \A i \in h.block_count..MAX_BLOCKS-1 : b[i] = h.blocks[i]
         /\ \A i, j \in 0..h.block_count-1 : i < j => b[i].start <= b[j].start
         /\ \A i \in 0..h.block_count-1 :
              Cardinality({j \in 0..h.block_count-1 : b[j] = h.blocks[i]}) =
              Cardinality({j \in 0..h.block_count-1 : h.blocks[j] = h.blocks[i]})

ensure_blocks_sorted(h) ==
  IF ~h.need_sort \/ h.block_count <= 1 THEN h
  ELSE [h EXCEPT !.blocks = SortedBlocks(h), !.need_sort = FALSE]

\* Mutant: the block is appended and left for ensure_blocks_sorted.
InsertPos_Append(h, start) == h.block_count

\* First index whose block lies above `start'.
InsertPos(h, start) ==
  Min({k \in 0..h.block_count : k = h.block_count \/ start < h.blocks[k].start})

\* The table with `b' inserted at `pos' and the blocks from pos on moved up.
ShiftUp(h, pos, b) ==
  [i \in 0..MAX_BLOCKS-1 |->
     CASE i < pos -> h.blocks[i]
       [] i = pos -> b
       [] i > pos /\ i <= h.block_count -> h.blocks[i-1]
       [] OTHER -> h.blocks[i]]

insert_block_sorted(h0, b) ==
  LET h == ensure_blocks_sorted(h0)
  IN  IF h0.block_count >= MAX_BLOCKS THEN h0
      ELSE [h EXCEPT !.blocks = ShiftUp(h, InsertPos(h, b.start), b),
                     !.block_count = @ + 1,
                     !.need_sort = TRUE]

----------------------------------------------------------------------------
(* First fit within a region.  Gap 0 starts at the region start, gap k+1   *)
(* at the end of used block k; a gap ends at the region's next used block. *)

UsedIn(h, r) ==
  {i \in 0..h.block_count-1 : h.blocks[i].status = "USED" /\ h.blocks[i].region_id = r}

Gaps(h, r) == {0} \cup {i + 1 : i \in UsedIn(h, r)}

GapStart(h, r, k) == IF k = 0 THEN h.regions[r].start ELSE BlockEnd(h.blocks[k-1])

GapEnd(h, r, k) ==
  LET after == {i \in UsedIn(h, r) : i >= k}
  IN  IF after = {} THEN RegionEnd(h.regions[r]) ELSE h.blocks[Min(after)].start

\* Mutant: a block may not touch the end of its gap.
GapFits_Strict(h, r, k, size, alignment) ==
  ALIGN_UP(GapStart(h, r, k), alignment) + size < GapEnd(h, r, k)

\* A gap_end below gap_start wraps to a huge u64 gap, and the last test then
\* rejects it.
GapFits(h, r, k, size, alignment) ==
  LET lo == GapStart(h, r, k)
      hi == GapEnd(h, r, k)
  IN  /\ hi - lo >= size \/ hi < lo
      /\ ALIGN_UP(lo, alignment) >= lo
      /\ ALIGN_UP(lo, alignment) + size <= hi

\* Mutant: the fit is tested aligned but the gap start is returned.
find_fit_in_region_Unaligned(h, r, size, alignment) ==
  LET fits == {k \in Gaps(h, r) : GapFits(h, r, k, size, alignment)}
  IN  IF fits = {} THEN NULL ELSE GapStart(h, r, Min(fits))

find_fit_in_region(h, r, size, alignment) ==
  LET fits == {k \in Gaps(h, r) : GapFits(h, r, k, size, alignment)}
  IN  IF fits = {} THEN NULL ELSE ALIGN_UP(GapStart(h, r, Min(fits)), alignment)

----------------------------------------------------------------------------
(* The allocator's functions: the heap they leave and what they return.    *)

Result(h, p) == [heap |-> h, ret |-> p]

\* Mutant: the number of regions is not truncated.
EmptyHeap_NoTruncation(t, initialized) ==
  [blocks |-> [i \in 0..MAX_BLOCKS-1 |-> FreeBlock],
   block_count |-> 0,
   need_sort |-> FALSE,
   initialized |-> initialized,
   regions |-> [i \in DOMAIN t |->
                  [start |-> t[i].start, size |-> t[i].size, memory_used |-> 0]]]

\* An empty table over the regions of t, as far as the region table reaches.
EmptyHeap(t, initialized) ==
  [blocks |-> [i \in 0..MAX_BLOCKS-1 |-> FreeBlock],
   block_count |-> 0,
   need_sort |-> FALSE,
   initialized |-> initialized,
   regions |-> [i \in {k \in DOMAIN t : k < MAX_MEM_REGIONS} |->
                  [start |-> t[i].start, size |-> t[i].size, memory_used |-> 0]]]

\* mem_init_with_config: everything live is forgotten.
Initialised(t) == EmptyHeap(t, TRUE)

\* The lazy mem_init of the first allocation; it does nothing when the linker
\* script has no pool.
LazyInit(h) == IF h.initialized \/ PoolIds = {} THEN h ELSE Initialised(MemInitTable)

try_alloc_in_region(h0, r, size, alignment, aligned_size) ==
  LET h == ensure_blocks_sorted(h0)
      p == find_fit_in_region(h, r, aligned_size, alignment)
      b == [start |-> p, size |-> size, actual_size |-> aligned_size,
            status |-> "USED", region_id |-> r]
      ins == insert_block_sorted(h, b)
  IN  IF \/ aligned_size > h0.regions[r].size
         \/ ~find_free_block(h0)
      THEN Result(h0, NULL)
      ELSE IF \/ p = NULL
              \/ p < h.regions[r].start
              \/ p >= RegionEnd(h.regions[r])
              \/ p + aligned_size > RegionEnd(h.regions[r])
           THEN Result(h, NULL)
           ELSE Result([ins EXCEPT !.regions[r].memory_used =
                          (@ + aligned_size) % (U32_MAX + 1)], p)

EffectiveAlignment(alignment) == IF alignment = 0 THEN 1 ELSE alignment

\* Mutant: the overflow check of the rounding is missing.
RequestOK_NoOverflowCheck(size, alignment) ==
  size # 0 /\ IS_POWER_OF_2(EffectiveAlignment(alignment))

RequestOK(size, alignment) ==
  /\ size # 0
  /\ IS_POWER_OF_2(EffectiveAlignment(alignment))
  /\ ~(size > U32_MAX - (EffectiveAlignment(alignment) - 1))

\* (u32)ALIGN_UP(size, alignment)
AlignedSize(size, alignment) ==
  ALIGN_UP(size, EffectiveAlignment(alignment)) % (U32_MAX + 1)

AllocIn(h, r, size, alignment) ==
  try_alloc_in_region(h, r, size, EffectiveAlignment(alignment),
                      AlignedSize(size, alignment))

\* The first region that serves the request; a failing try only sorts.
mem_alloc_aligned(h0, size, alignment) ==
  LET h == LazyInit(h0)
      serving == {r \in DOMAIN h.regions : AllocIn(h, r, size, alignment).ret # NULL}
  IN  IF ~RequestOK(size, alignment) THEN Result(h, NULL)
      ELSE IF serving = {} THEN Result(ensure_blocks_sorted(h), NULL)
           ELSE AllocIn(h, Min(serving), size, alignment)

mem_alloc_aligned_from_region(h0, r, size, alignment) ==
  LET h == LazyInit(h0)
  IN  IF r \notin DOMAIN h.regions \/ ~RequestOK(size, alignment) THEN Result(h, NULL)
      ELSE AllocIn(h, r, size, alignment)

Holding(h, ptr) ==
  {i \in 0..h.block_count-1 : h.blocks[i].start = ptr /\ h.blocks[i].status = "USED"}

\* Mutant: the vacated last slot keeps its descriptor.
ShiftDown_LastSlotKept(h, i) ==
  [k \in 0..MAX_BLOCKS-1 |->
     IF k >= i /\ k < h.block_count - 1 THEN h.blocks[k+1] ELSE h.blocks[k]]

\* The table with block i removed, the later ones moved down, the last slot cleared.
ShiftDown(h, i) ==
  [k \in 0..MAX_BLOCKS-1 |->
     CASE k < i -> h.blocks[k]
       [] k >= i /\ k < h.block_count - 1 -> h.blocks[k+1]
       [] k = h.block_count - 1 -> FreeBlock
       [] OTHER -> h.blocks[k]]

\* Mutant: the region is credited the requested instead of the charged size.
Release_RequestedSize(h, i) ==
  LET b == h.blocks[i]
  IN  [h EXCEPT !.blocks = ShiftDown(h, i), !.block_count = @ - 1, !.need_sort = FALSE,
                !.regions[b.region_id].memory_used = @ - b.size]

Release(h, i) ==
  LET b == h.blocks[i]
      used == h.regions[b.region_id].memory_used
  IN  [h EXCEPT
         !.blocks = ShiftDown(h, i),
         !.block_count = @ - 1,
         !.need_sort = FALSE,
         !.regions = IF b.region_id \in DOMAIN h.regions
                     THEN [@ EXCEPT ![b.region_id].memory_used =
                             IF used < b.actual_size THEN 0 ELSE used - b.actual_size]
                     ELSE @]

\* NULL, and a pointer no descriptor holds (a double free), only warn.
mem_free(h, ptr) ==
  IF ptr = NULL \/ Holding(h, ptr) = {} THEN h ELSE Release(h, Min(Holding(h, ptr)))

\* Mutant: the old block is freed before the new one is known to exist.
mem_realloc_aligned_FreeFirst(h, ptr, new_size, alignment) ==
  LET new == mem_alloc_aligned(h, new_size, alignment)
  IN  IF ptr = NULL THEN new ELSE Result(mem_free(new.heap, ptr), new.ret)

\* A failed growth keeps the old block and returns the old pointer.
mem_realloc_aligned(h, ptr, new_size, alignment) ==
  LET i == Min(Holding(h, ptr))
      new == mem_alloc_aligned(h, new_size, alignment)
  IN  CASE ptr = NULL -> new
        [] ptr # NULL /\ new_size = 0 -> Result(mem_free(h, ptr), NULL)
        [] ptr # NULL /\ new_size # 0 ->
             IF \/ ~IS_POWER_OF_2(EffectiveAlignment(alignment))
                \/ Holding(h, ptr) = {}
             THEN Result(h, NULL)
             ELSE IF new_size <= h.blocks[i].size
                  THEN Result([h EXCEPT !.blocks[i].size = new_size], ptr)
                  ELSE IF new.ret = NULL THEN Result(new.heap, ptr)
                       ELSE Result(mem_free(new.heap, ptr), new.ret)

\* The widest gap of any region; the report of a failed allocation asks for it.
mem_get_largest_free_block(h) ==
  Max({0} \cup UNION {{GapEnd(h, r, k) - GapStart(h, r, k) : k \in Gaps(h, r)} :
                        r \in DOMAIN h.regions})

----------------------------------------------------------------------------
(* The state machine: one action per entry point. *)

NoCall == [fn |-> "none", ptr |-> NULL, size |-> 0, alignment |-> 0, region |-> -1, ret |-> NULL]

Call(fn, ptr, size, alignment, region, ret) ==
  [fn |-> fn, ptr |-> ptr, size |-> size, alignment |-> alignment,
   region |-> region, ret |-> ret]

Init ==
  /\ heap = EmptyHeap(<<>>, FALSE)
  /\ call = NoCall

MemInitWithConfig(t) ==
  /\ heap' = Initialised(t)
  /\ call' = NoCall

MemAllocAligned(size, alignment) ==
  LET res == mem_alloc_aligned(heap, size, alignment)
  IN  /\ heap' = res.heap
      /\ call' = Call("alloc", NULL, size, alignment, -1, res.ret)

MemAllocAlignedFromRegion(r, size, alignment) ==
  LET res == mem_alloc_aligned_from_region(heap, r, size, alignment)
  IN  /\ heap' = res.heap
      /\ call' = Call("alloc", NULL, size, alignment, r, res.ret)

MemFree(ptr) ==
  /\ heap' = mem_free(heap, ptr)
  /\ call' = Call("free", ptr, 0, 0, -1, NULL)

MemReallocAligned(ptr, new_size, alignment) ==
  LET res == mem_realloc_aligned(heap, ptr, new_size, alignment)
  IN  /\ heap' = res.heap
      /\ call' = Call("realloc", ptr, new_size, alignment, -1, res.ret)

Next ==
  \/ \E t \in Configs : MemInitWithConfig(t)
  \/ \E size \in Sizes, alignment \in Alignments : MemAllocAligned(size, alignment)
  \/ \E r \in 0..MAX_MEM_REGIONS-1, size \in Sizes, alignment \in Alignments :
        MemAllocAlignedFromRegion(r, size, alignment)
  \/ \E ptr \in Pointers : MemFree(ptr)
  \/ \E ptr \in Pointers, size \in Sizes, alignment \in Alignments :
        MemReallocAligned(ptr, size, alignment)

Spec == Init /\ [][Next]_vars

----------------------------------------------------------------------------
(* Properties. *)

Blocks ==
  [start : Nat, size : 0..U32_MAX, actual_size : 0..U32_MAX,
   status : {"FREE", "USED"}, region_id : Nat]

\* The allocator's state and the last call keep their types; the regions in
\* use are those of a valid table.
TypeOK ==
  /\ heap.blocks \in [0..MAX_BLOCKS-1 -> Blocks]
  /\ heap.block_count \in 0..MAX_BLOCKS
  /\ heap.need_sort \in BOOLEAN /\ heap.initialized \in BOOLEAN
  /\ DOMAIN heap.regions \subseteq 0..MAX_MEM_REGIONS-1
  /\ \A r \in DOMAIN heap.regions : heap.regions[r].memory_used \in 0..U32_MAX
  /\ RegionTable(heap.regions)
  /\ call.ret \in Nat

Packed(h) ==
  \A i \in 0..MAX_BLOCKS-1 :
     IF i < h.block_count THEN h.blocks[i].status = "USED" ELSE h.blocks[i] = FreeBlock

Disjoint(h) ==
  \A i, j \in 0..h.block_count-1 :
     i < j => BlockEnd(h.blocks[i]) <= h.blocks[j].start

\* b lies in the region it is charged to and covers what its owner asked for.
Placed(h, b) ==
  /\ b.region_id \in DOMAIN h.regions
  /\ h.regions[b.region_id].start <= b.start
  /\ BlockEnd(b) <= RegionEnd(h.regions[b.region_id])
  /\ 0 < b.size /\ b.size <= b.actual_size

\* The descriptor table is packed: the first block_count slots are in use and
\* every other slot is a cleared one, so find_free_block finds a slot exactly
\* when insert_block_sorted has room and no descriptor is ever leaked.
TablePacked == Packed(heap)

\* Live blocks never overlap and always lie in address order, also when
\* mem_free has cleared need_sort without sorting; the gap search of
\* find_fit_in_region is only right on an ordered table.
LiveBlocksDisjoint == Disjoint(heap)

\* Every live block lies inside the region it is charged to, and is at least
\* as large as its owner believes.
LiveBlocksInRegion == \A i \in 0..heap.block_count-1 : Placed(heap, heap.blocks[i])

\* The addresses of region r that live blocks charged to it occupy.
Covered(h, r) ==
  UNION {h.blocks[i].start..(BlockEnd(h.blocks[i]) - 1) : i \in UsedIn(h, r)}

\* The per-region counter is the number of bytes that live blocks occupy in
\* the region, so mem_free never takes its underflow branch, the u32 never
\* wraps and mem_get_region_free is exact.
UsageExact ==
  \A r \in DOMAIN heap.regions :
     heap.regions[r].memory_used = Cardinality(Covered(heap, r))

\* The widest gap reported by mem_get_largest_free_block is allocatable as
\* long as a descriptor is left, and nothing larger is.
LargestFreeExact ==
  LET n == mem_get_largest_free_block(heap)
  IN  heap.initialized /\ find_free_block(heap) =>
        /\ n > 0 => mem_alloc_aligned(heap, n, 1).ret # NULL
        /\ n < U32_MAX => mem_alloc_aligned(heap, n + 1, 1).ret = NULL

\* A successful call hands out an aligned block of at least the requested
\* size: for mem_alloc as written, for krealloc as its kernel-doc promises
\* ("pointer to the allocated memory or %NULL in case of error").
ServedBlock(c) ==
  \E i \in 0..heap.block_count-1 :
     /\ heap.blocks[i].start = c.ret
     /\ heap.blocks[i].size >= c.size

AllocReturnsBlock ==
  call.fn = "alloc" /\ call.ret # NULL =>
    /\ ServedBlock(call)
    /\ call.ret % EffectiveAlignment(call.alignment) = 0

\* krealloc: a non-NULL result is a block of the requested size.
ReallocReturnsBlock ==
  call.fn = "realloc" /\ call.ret # NULL => ServedBlock(call)
=============================================================================
