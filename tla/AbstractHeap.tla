---------------------------- MODULE AbstractHeap ----------------------------
(***************************************************************************)
(* What the allocator promises its callers: a set of live blocks, each an  *)
(* interval inside one region that overlaps no other.  There is no table,  *)
(* no order and no search: a request fails only if it is malformed, if     *)
(* all descriptors are taken, or if no aligned place exists at all.        *)
(***************************************************************************)
EXTENDS Integers, FiniteSets

CONSTANTS MaxLive,   \* descriptors
          MaxSize    \* largest representable size

VARIABLES ready,     \* the region table is in place
          regions,   \* region id -> [start, size]
          live,      \* set of [start, size, actual_size, region_id]
          call       \* last call: [fn, ptr, size, alignment, region, ret]

vars == <<ready, regions, live, call>>

Align(c) == IF c.alignment = 0 THEN 1 ELSE c.alignment

WellFormed(c) ==
  /\ c.size > 0
  /\ \E k \in 0..Align(c) : Align(c) = 2^k
  /\ c.size + Align(c) - 1 <= MaxSize

\* The size charged for a request: the least multiple of the alignment.
Charged(c) == CHOOSE n \in c.size..(c.size + Align(c) - 1) : n % Align(c) = 0

Overlap(p, n, b) == p < b.start + b.actual_size /\ b.start < p + n

\* p is an aligned place for the request in region r of the table t.
Place(t, L, r, p, c) ==
  /\ p >= t[r].start
  /\ p + Charged(c) <= t[r].start + t[r].size
  /\ p % Align(c) = 0
  /\ \A b \in L : ~Overlap(p, Charged(c), b)

HasRoom(t, L, r, c) ==
  \E p \in t[r].start..(t[r].start + t[r].size) : Place(t, L, r, p, c)

\* The regions the request may be served from, in order of priority.
Candidates(t, c) == IF c.region = -1 THEN DOMAIN t ELSE DOMAIN t \cap {c.region}

Refused(t, L, c) ==
  \/ ~WellFormed(c)
  \/ Cardinality(L) = MaxLive
  \/ \A r \in Candidates(t, c) : ~HasRoom(t, L, r, c)

NewBlock(c, r) ==
  [start |-> c.ret, size |-> c.size, actual_size |-> Charged(c), region_id |-> r]

\* The request is served in the first candidate region with room.
ServedIn(t, L, c, r) ==
  /\ ~Refused(t, L, c)
  /\ r \in Candidates(t, c)
  /\ Place(t, L, r, c.ret, c)
  /\ \A q \in Candidates(t, c) : q < r => ~HasRoom(t, L, q, c)

Setup == IF ready THEN regions' = regions /\ ready' = TRUE
         ELSE ready' \in BOOLEAN /\ (~ready' => regions' = regions)

Init == ready = FALSE /\ regions = <<>> /\ live = {} /\ call.fn = "none"

Reset == /\ call'.fn = "none"
         /\ ready' = TRUE
         /\ live' = {}

Alloc ==
  /\ call'.fn = "alloc"
  /\ Setup
  /\ \/ /\ Refused(regions', live, call')
        /\ call'.ret = 0
        /\ live' = live
     \/ \E r \in DOMAIN regions' :
          /\ ServedIn(regions', live, call', r)
          /\ live' = live \cup {NewBlock(call', r)}

Free ==
  /\ call'.fn = "free"
  /\ live' = {b \in live : b.start # call'.ptr}
  /\ UNCHANGED <<ready, regions>>

\* The four outcomes of a reallocation of the live block b.
ReallocLive(b) ==
  \/ /\ call'.size = 0
     /\ call'.ret = 0
     /\ live' = live \ {b}
  \/ /\ call'.size \in 1..b.size
     /\ \E k \in 0..Align(call') : Align(call') = 2^k
     /\ call'.ret = b.start
     /\ live' = (live \ {b}) \cup {[b EXCEPT !.size = call'.size]}
  \/ /\ call'.size > b.size
     /\ \E r \in DOMAIN regions :
          /\ ServedIn(regions, live, call', r)
          /\ live' = (live \ {b}) \cup {NewBlock(call', r)}
  \/ /\ \/ call'.size > b.size /\ Refused(regions, live, call')
        \/ call'.size > 0 /\ ~\E k \in 0..Align(call') : Align(call') = 2^k
     /\ call'.ret \in {0, b.start}
     /\ live' = live

Realloc ==
  /\ call'.fn = "realloc"
  /\ \/ /\ call'.ptr = 0
        /\ Setup
        /\ \/ Refused(regions', live, call') /\ call'.ret = 0 /\ live' = live
           \/ \E r \in DOMAIN regions' :
                /\ ServedIn(regions', live, call', r)
                /\ live' = live \cup {NewBlock(call', r)}
     \/ /\ call'.ptr # 0
        /\ UNCHANGED <<ready, regions>>
        /\ \E b \in live : b.start = call'.ptr /\ ReallocLive(b)
     \/ /\ call'.ptr # 0
        /\ \A b \in live : b.start # call'.ptr
        /\ call'.ret = 0
        /\ UNCHANGED <<ready, regions, live>>

Next == Reset \/ Alloc \/ Free \/ Realloc

Spec == Init /\ [][Next]_vars
=============================================================================
