--------------------------------- MODULE Mm ---------------------------------
(***************************************************************************)
(* The allocator (malloclab-handout/mm.c): blocks with a header and a      *)
(* footer in one chain, first fit, splitting and immediate coalescing.     *)
(*                                                                         *)
(* The package is sequential, so its routines are operators that take the  *)
(* heap and return the heap they leave (and a pointer).  A heap is         *)
(* [mem, brk, heap_listp].  Sizes and addresses are in bytes; a block is   *)
(* named by bp, the address of its payload.  Request sizes stay below the  *)
(* point where the int newsize would wrap.                                 *)
(***************************************************************************)
EXTENDS Memlib

CONSTANTS
  SIZEOF_SIZE_T,   \* sizeof(size_t)
  CHUNKSIZE        \* least extension of the heap

ASSUME MmAssumption ==
  /\ SIZEOF_SIZE_T \in Nat \ {0}
  /\ CHUNKSIZE \in Nat

ALIGN(size) == ((size + ALIGNMENT - 1) \div ALIGNMENT) * ALIGNMENT
SIZE_T_SIZE == ALIGN(SIZEOF_SIZE_T)
DSIZE_T_SIZE == 2 * SIZE_T_SIZE

\* The first free block has room for its tags, and the region for that block.
ASSUME ChunkAssumption ==
  /\ CHUNKSIZE \div SIZE_T_SIZE >= DSIZE_T_SIZE
  /\ (4 * SIZE_T_SIZE) + ALIGN(CHUNKSIZE \div SIZE_T_SIZE) <= MAX_HEAP

\* A tag is a size, which is a multiple of ALIGNMENT, with the allocated bit below.
PACK(size, alloc) == size + alloc
GET_SIZE(m, p) == m[p] - (m[p] % ALIGNMENT)
GET_ALLOC(m, p) == m[p] % 2
PUT(m, p, val) == [m EXCEPT ![p] = val]

HDRP(bp) == bp - SIZE_T_SIZE
FTRP(m, bp) == bp + GET_SIZE(m, HDRP(bp)) - DSIZE_T_SIZE
NEXT_BLKP(m, bp) == bp + GET_SIZE(m, bp - SIZE_T_SIZE)
PREV_BLKP(m, bp) == bp - GET_SIZE(m, bp - DSIZE_T_SIZE)

\* Where a payload can start: a cell, or the break, for the epilogue.
BlockAddrs == Cells \cup {mem_max_addr}

\* Header first; the footer's place depends on it.
PutBoth(m, bp, size, alloc) ==
  LET m1 == PUT(m, HDRP(bp), PACK(size, alloc))
  IN  PUT(m1, FTRP(m1, bp), PACK(size, alloc))

\* place: split when the rest can hold a header and a footer.
place(m, bp, asize) ==
  LET csize == GET_SIZE(m, HDRP(bp))
      m1 == PutBoth(m, bp, asize, 1)
  IN  IF csize - asize >= DSIZE_T_SIZE
      THEN PutBoth(m1, NEXT_BLKP(m1, bp), csize - asize, 0)
      ELSE PutBoth(m, bp, csize, 1)

\* The blocks the loop of find_fit goes through: from heap_listp on, each where the
\* header before it says, to the epilogue, whose size is 0.
Chain(h) ==
  LET From[bp \in BlockAddrs] ==
        LET next == NEXT_BLKP(h.mem, bp)
        IN  IF next > bp /\ next \in BlockAddrs THEN {bp} \cup From[next] ELSE {bp}
  IN  From[h.heap_listp]

\* find_fit: the first free block of the chain that is large enough.
find_fit(h, asize) ==
  LET fits == {bp \in Chain(h) :
                 /\ GET_SIZE(h.mem, HDRP(bp)) > 0 /\ GET_ALLOC(h.mem, HDRP(bp)) = 0
                 /\ asize <= GET_SIZE(h.mem, HDRP(bp))}
  IN  IF fits = {} THEN NULL ELSE CHOOSE bp \in fits : \A q \in fits : bp <= q

\* One free block with its header at bp's and its footer at p.
Joined(m, bp, p, size) ==
  [mem |-> PUT(PUT(m, HDRP(bp), PACK(size, 0)), p, PACK(size, 0)), ptr |-> bp]

\* Mutant: a free block in front is not merged.
coalesce_NextOnly(m, bp) ==
  LET next == NEXT_BLKP(m, bp)
      size == GET_SIZE(m, HDRP(bp))
  IN  IF GET_ALLOC(m, HDRP(next)) = 1 THEN [mem |-> m, ptr |-> bp]
      ELSE Joined(m, bp, FTRP(m, next), size + GET_SIZE(m, HDRP(next)))

\* Mutant: with free neighbours on both sides the one behind is forgotten.
coalesce_ForgetsNext(m, bp) ==
  LET prev == PREV_BLKP(m, bp)
      size == GET_SIZE(m, HDRP(bp))
  IN  IF GET_ALLOC(m, FTRP(m, prev)) = 1 THEN coalesce_NextOnly(m, bp)
      ELSE Joined(m, prev, FTRP(m, bp), size + GET_SIZE(m, HDRP(prev)))

\* coalesce: merge bp with the free ones of its two neighbours.
coalesce(m, bp) ==
  LET prev == PREV_BLKP(m, bp)
      next == NEXT_BLKP(m, bp)
      size == GET_SIZE(m, HDRP(bp))
      prev_alloc == GET_ALLOC(m, FTRP(m, prev))
      next_alloc == GET_ALLOC(m, HDRP(next))
  IN  CASE prev_alloc = 1 /\ next_alloc = 1 -> [mem |-> m, ptr |-> bp]
        [] prev_alloc = 1 /\ next_alloc = 0 ->
             [mem |-> PutBoth(m, bp, size + GET_SIZE(m, HDRP(next)), 0), ptr |-> bp]
        [] prev_alloc = 0 /\ next_alloc = 1 ->
             Joined(m, prev, FTRP(m, bp), size + GET_SIZE(m, HDRP(prev)))
        [] OTHER ->
             Joined(m, prev, FTRP(m, next),
                    size + GET_SIZE(m, HDRP(prev)) + GET_SIZE(m, FTRP(m, next)))

\* The heap h with what coalesce returned.
Coalesced(h, c) == [heap |-> [h EXCEPT !.mem = c.mem], ptr |-> c.ptr]

\* Tags of a new free block at the end, and the epilogue after it.
NewBlock(m, bp, size) ==
  PUT(PutBoth(m, bp, size, 0), HDRP(bp + size), PACK(0, 1))

\* extend_heap: the old epilogue becomes the header of the new free block, and a
\* new epilogue is put at the end.  The argument is called words but is taken as
\* bytes by every caller but mm_init.
extend_heap(h, words) ==
  LET r == mem_sbrk(h, ALIGN(words))
  IN  IF r.ptr = FAILED THEN [heap |-> h, ptr |-> NULL]
      ELSE Coalesced(r.heap, coalesce(NewBlock(h.mem, r.ptr, ALIGN(words)), r.ptr))

\* The four words mm_init starts with: padding, prologue header and footer, epilogue.
FirstWords(m, p) ==
  [m EXCEPT ![p] = 0,
            ![p + SIZE_T_SIZE] = PACK(DSIZE_T_SIZE, 1),
            ![p + 2 * SIZE_T_SIZE] = PACK(DSIZE_T_SIZE, 1),
            ![p + 3 * SIZE_T_SIZE] = PACK(0, 1)]

\* mm_init: the first words, then the first free block.
InitResult(e) == [heap |-> e.heap, ok |-> e.ptr # NULL]

mm_init(h) ==
  LET r == mem_sbrk(h, 4 * SIZE_T_SIZE)
  IN  IF r.ptr = FAILED
      THEN [heap |-> [h EXCEPT !.heap_listp = FAILED], ok |-> FALSE]
      ELSE InitResult(extend_heap(
             [r.heap EXCEPT !.mem = FirstWords(@, r.ptr), !.heap_listp = r.ptr + DSIZE_T_SIZE],
             CHUNKSIZE \div SIZE_T_SIZE))

\* Both mm_malloc and mm_free call mm_init, and ignore its result, when nobody has.
Initialised(h) == IF h.heap_listp = NULL THEN mm_init(h).heap ELSE h

MaxOf(x, y) == IF x > y THEN x ELSE y

\* Mutant: room for one tag only.
newsize_OneTag(size) == ALIGN(size + SIZE_T_SIZE)

newsize(size) == ALIGN(size + DSIZE_T_SIZE)

\* A block was found or made, or not: r is [heap, ptr].
Placed(r, asize) ==
  IF r.ptr = NULL THEN r ELSE [r EXCEPT !.heap.mem = place(@, r.ptr, asize)]

MallocIn(h, asize) ==
  LET fit == find_fit(h, asize)
  IN  Placed(IF fit # NULL THEN [heap |-> h, ptr |-> fit]
             ELSE extend_heap(h, MaxOf(asize, CHUNKSIZE)), asize)

mm_malloc(h, size) == MallocIn(Initialised(h), newsize(size))

\* mm_free: the size is read before the heap is initialised, as in the code.
FreeIn(h, bp, size) == [h EXCEPT !.mem = coalesce(PutBoth(@, bp, size, 0), bp).mem]

mm_free(h, bp) ==
  IF bp = NULL THEN h ELSE FreeIn(Initialised(h), bp, GET_SIZE(h.mem, HDRP(bp)))

\* memcpy of n bytes, word by word.
memcpy(m, to, from, n) ==
  [c \in Cells |->
     IF c - to >= 0 /\ c - to < n THEN m[from + (c - to)] ELSE m[c]]

\* r is what mm_malloc returned.  oldsize is the size of the whole old block, tags
\* included; the copy never passes the new block.
CopiedTo(r, ptr, size) ==
  LET oldsize == GET_SIZE(r.heap.mem, HDRP(ptr))
  IN  [r EXCEPT !.heap.mem =
         memcpy(@, r.ptr, ptr, IF size < oldsize THEN size ELSE oldsize)]

\* Mutant: the old block is freed before its bytes are copied.
mm_realloc_FreeFirst(h, ptr, size) ==
  LET r == mm_malloc(mm_free(h, ptr), size)
  IN  IF r.ptr = NULL THEN [r EXCEPT !.heap = h] ELSE CopiedTo(r, ptr, size)

\* Mutant: the old block is not freed.
mm_realloc_NoFree(h, ptr, size) ==
  LET r == mm_malloc(h, size)
  IN  IF ptr = NULL \/ r.ptr = NULL THEN r ELSE CopiedTo(r, ptr, size)

\* The new block has the old one's bytes and the old one is freed.
MovedTo(r, ptr, size) ==
  IF r.ptr = NULL THEN r
  ELSE [CopiedTo(r, ptr, size) EXCEPT !.heap = mm_free(@, ptr)]

mm_realloc(h, ptr, size) ==
  CASE size = 0 -> [heap |-> mm_free(h, ptr), ptr |-> NULL]
    [] size # 0 /\ ptr = NULL -> mm_malloc(h, size)
    [] OTHER -> MovedTo(mm_malloc(h, size), ptr, size)
=============================================================================
