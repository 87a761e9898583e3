------------------------------- MODULE Memlib -------------------------------
(***************************************************************************)
(* The memory system of the allocator lab (malloclab-handout/memlib.c): a  *)
(* region of MAX_HEAP bytes with a break that only moves up.               *)
(*                                                                         *)
(* Memory is kept by cells of ALIGNMENT bytes, each holding one word: a    *)
(* block tag, what a client stored, or whatever was there before.          *)
(***************************************************************************)
EXTENDS Integers

CONSTANTS
  ALIGNMENT,    \* 8 in the code
  MAX_HEAP      \* size of the region in bytes, a multiple of ALIGNMENT

ASSUME MemlibAssumption ==
  /\ ALIGNMENT \in Nat \ {0} /\ ALIGNMENT % 2 = 0
  /\ MAX_HEAP \in Nat /\ MAX_HEAP % ALIGNMENT = 0

NULL == 0
FAILED == -1    \* (void *)-1

\* malloc gives an aligned region that does not start at NULL.
mem_start_brk == ALIGNMENT
mem_max_addr == mem_start_brk + MAX_HEAP   \* "largest legal heap address", one past the last byte

Cells == {ALIGNMENT * k : k \in 1 .. MAX_HEAP \div ALIGNMENT}

\* A memory is [mem |-> contents of the cells, brk |-> the break].
mem_heap_lo == mem_start_brk
mem_heap_hi(h) == h.brk - 1

\* mem_reset_brk leaves the contents as they are.
mem_reset_brk(h) == [h EXCEPT !.brk = mem_start_brk]

\* mem_sbrk fails and changes nothing when the region is used up; otherwise it
\* returns the old break.
CanGrow(h, incr) == incr >= 0 /\ h.brk + incr <= mem_max_addr

mem_sbrk(h, incr) ==
  IF CanGrow(h, incr)
  THEN [heap |-> [h EXCEPT !.brk = @ + incr], ptr |-> h.brk]
  ELSE [heap |-> h, ptr |-> FAILED]
=============================================================================
