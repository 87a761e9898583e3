------------------------------- MODULE Mdriver ------------------------------
(***************************************************************************)
(* The allocator under its test driver: eval_mm_valid of                   *)
(* malloclab-handout/mdriver.c runs one trace after another against mm.c,  *)
(* on a heap that is emptied but not wiped between traces.  Each request   *)
(* of a trace is one step: the call, the driver's checks of what came      *)
(* back, and its filling of the new payload.                               *)
(*                                                                         *)
(* A trace is any sequence of requests that allocates what is not live and *)
(* reallocates or frees what is, with sizes from Sizes: the trace files    *)
(* have no others.                                                         *)
(***************************************************************************)
EXTENDS Mm, FiniteSets

CONSTANTS
  Ids,            \* indices of blocks in a trace
  Sizes,          \* request sizes in bytes
  InitialWords,   \* what a cell of fresh memory may hold
  None            \* not a payload

ASSUME MdriverAssumption ==
  /\ Ids \subseteq Nat
  /\ Sizes \subseteq Nat \ {0}
  /\ InitialWords \subseteq Nat

VARIABLES
  heap,           \* [mem, brk, heap_listp]
  blocks,         \* trace->blocks, NULL when the id is not live
  block_sizes,    \* trace->block_sizes, 0 when the id is not live
  ranges,         \* the range list, as a set of [lo, hi]
  verdict         \* "idle" before the first trace, "running", or the error that ended the trace

vars == <<heap, blocks, block_sizes, ranges, verdict>>

\* A word of the byte index & 0xFF, distinct from every tag and pointer.
LowByte(i) == i % 256
Fill(i) == 2 * mem_max_addr + LowByte(i)

\* A byte read back through a char pointer; plain char is signed with gcc on x86.
AsChar(byte) == IF byte >= 128 THEN byte - 256 ELSE byte

Live == {i \in Ids : blocks[i] # NULL}

memset(m, lo, w, n) == [c \in Cells |-> IF lo <= c /\ c < lo + n THEN w ELSE m[c]]

Errors == {"unaligned", "outside", "overlap", "data lost", "out of memory", "init failed"}

\* The tests of add_range in their order, or "ok".
RangeError(h, rs, lo, hi) ==
  CASE lo % ALIGNMENT # 0 -> "unaligned"
    [] lo % ALIGNMENT = 0 /\ ~{lo, hi} \subseteq mem_heap_lo .. mem_heap_hi(h) -> "outside"
    [] OTHER ->
         IF \E p \in rs : lo \in p.lo .. p.hi \/ hi \in p.lo .. p.hi
         THEN "overlap" ELSE "ok"

remove_range(rs, lo) == {p \in rs : p.lo # lo}

Init ==
  /\ \E w \in InitialWords :
       heap = [mem |-> [c \in Cells |-> w], brk |-> mem_start_brk, heap_listp |-> NULL]
  /\ blocks = [i \in Ids |-> NULL]
  /\ block_sizes = [i \in Ids |-> 0]
  /\ ranges = {}
  /\ verdict = "idle"

\* The next trace starts when the last one is at its end, wherever that is, or was
\* ended by an error.
StartTrace ==
  /\ \E r \in {mm_init(mem_reset_brk(heap))} :
       heap' = r.heap /\ verdict' = IF r.ok THEN "running" ELSE "init failed"
  /\ ranges' = {}
  /\ blocks' = [i \in Ids |-> NULL]
  /\ block_sizes' = [i \in Ids |-> 0]

\* The payload at p passed the checks: fill it and remember it.
Remember(i, h, p, n) ==
  /\ heap' = [h EXCEPT !.mem = memset(@, p, Fill(i), n)]
  /\ blocks' = [blocks EXCEPT ![i] = p]
  /\ block_sizes' = [block_sizes EXCEPT ![i] = n]
  /\ verdict' = "running"

\* A check failed: the trace ends with the heap the allocator left.
Complain(h, rs, error) ==
  /\ heap' = h /\ ranges' = rs /\ verdict' = error
  /\ UNCHANGED <<blocks, block_sizes>>

Alloc(i, n) ==
  /\ verdict = "running" /\ i \notin Live
  /\ \E r \in {mm_malloc(heap, n)} :
       \/ r.ptr = NULL /\ Complain(r.heap, ranges, "out of memory")
       \/ /\ r.ptr # NULL
          /\ \E error \in {RangeError(r.heap, ranges, r.ptr, r.ptr + n - 1)} :
               IF error # "ok" THEN Complain(r.heap, ranges, error)
               ELSE /\ ranges' = ranges \cup {[lo |-> r.ptr, hi |-> r.ptr + n - 1]}
                    /\ Remember(i, r.heap, r.ptr, n)

\* The bytes that both sizes have must be those of the old payload: a char of the
\* new one is compared with the int index & 0xFF.
Preserved(m, i, p, n) ==
  \A c \in Cells :
    p <= c /\ c < p + n /\ c < p + block_sizes[i] =>
      m[c] = Fill(i) /\ AsChar(LowByte(i)) = LowByte(i)

\* The new payload at p in h; rest are the ranges without the old one.
Reallocated(i, n, h, p, rest) ==
  LET error == RangeError(h, rest, p, p + n - 1)
      added == rest \cup {[lo |-> p, hi |-> p + n - 1]}
  IN  IF error # "ok" THEN Complain(h, rest, error)
      ELSE IF ~Preserved(h.mem, i, p, n) THEN Complain(h, added, "data lost")
      ELSE ranges' = added /\ Remember(i, h, p, n)

Realloc(i, n) ==
  /\ verdict = "running" /\ i \in Live
  /\ \E r \in {mm_realloc(heap, blocks[i], n)} :
       \/ r.ptr = NULL /\ Complain(r.heap, ranges, "out of memory")
       \/ r.ptr # NULL /\ Reallocated(i, n, r.heap, r.ptr, remove_range(ranges, blocks[i]))

Free(i) ==
  /\ verdict = "running" /\ i \in Live
  /\ ranges' = remove_range(ranges, blocks[i])
  /\ heap' = mm_free(heap, blocks[i])
  /\ blocks' = [blocks EXCEPT ![i] = NULL]
  /\ block_sizes' = [block_sizes EXCEPT ![i] = 0]
  /\ UNCHANGED verdict

Next ==
  \/ StartTrace
  \/ \E i \in Ids : Free(i) \/ \E n \in Sizes : Alloc(i, n) \/ Realloc(i, n)

Spec == Init /\ [][Next]_vars

-----------------------------------------------------------------------------
(* Properties.                                                             *)

TypeOK ==
  /\ heap \in [mem : [Cells -> Nat], brk : mem_start_brk .. mem_max_addr,
               heap_listp : {NULL, FAILED} \cup Cells]
  /\ blocks \in [Ids -> {NULL} \cup Cells]
  /\ block_sizes \in [Ids -> {0} \cup Sizes]
  /\ \A p \in ranges : p.lo \in Cells /\ p.hi \in p.lo .. mem_max_addr - 1
  /\ verdict \in {"idle", "running"} \cup Errors

\* The driver of mdriver.c has nothing to complain of in mm.c but that memory is
\* used up: payloads are aligned, inside the heap, apart, and realloc keeps the data.
\* Or of a reallocation of an id whose low byte is 128 or more, of which it
\* complains whatever mm.c does: it compares signed chars with it (Preserved).
DriverSatisfied ==
  \/ verdict \in {"idle", "running", "out of memory"}
  \/ verdict = "data lost" /\ \E i \in Ids : LowByte(i) >= 128

\* The blocks of mm.c tile the heap: the chain runs from the prologue to an epilogue
\* at the break, and the footer of each block repeats its header, so that the
\* coalescing of a later free finds the right neighbour.
ChainTilesHeap ==
  verdict = "running" =>
    /\ heap.brk \in Chain(heap) /\ heap.mem[HDRP(heap.brk)] = PACK(0, 1)
    /\ \A bp \in Chain(heap) \ {heap.brk} :
         /\ bp + GET_SIZE(heap.mem, HDRP(bp)) <= heap.brk
         /\ heap.mem[FTRP(heap.mem, bp)] = heap.mem[HDRP(bp)]

\* Coalescing is immediate: no two neighbours of the chain are free.
NoFreeNeighbours ==
  verdict = "running" =>
    \A bp \in Chain(heap) \ {heap.brk} :
      GET_ALLOC(heap.mem, HDRP(bp)) = 0 =>
        GET_ALLOC(heap.mem, HDRP(NEXT_BLKP(heap.mem, bp))) = 1

\* The allocated blocks are the prologue and one for each live id: a block that was
\* freed, or moved by mm_realloc, is never left behind as allocated, and none is lost.
NothingLeaked ==
  verdict = "running" =>
    {bp \in Chain(heap) \ {heap.brk} : GET_ALLOC(heap.mem, HDRP(bp)) = 1}
      = {heap.heap_listp} \cup {blocks[i] : i \in Live}

Payload(i) ==
  IF blocks[i] = NULL THEN None
  ELSE [lo |-> blocks[i], size |-> block_sizes[i],
        words |-> [k \in 1 .. ALIGN(block_sizes[i]) \div ALIGNMENT |->
                     heap.mem[blocks[i] + (k - 1) * ALIGNMENT]]]

Store == INSTANCE Alloc WITH
  Addrs <- Cells,
  Unit <- ALIGNMENT,
  payload <- [i \in Ids |-> Payload(i)],
  stage <- IF verdict \in {"idle", "running"} THEN verdict ELSE "stopped"

\* None is not the payload of any id.
ASSUME NoneAssumption ==
  \A i \in Ids, lo \in Cells, n \in Sizes : None # Store!Filled(i, lo, n)

\* The allocator with its client implements the abstract one: whatever is done to
\* one block, the payloads of the others stay where and what they are.
ImplementsAlloc == Store!Spec
=============================================================================
