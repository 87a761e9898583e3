--------------------------- MODULE MdriverProofs ---------------------------
(***************************************************************************)
(* The allocator under its driver, for every alignment, heap, word and     *)
(* chunk size, and every set of ids and request sizes: the driver has      *)
(* nothing to complain of, the chain tiles the heap, no free blocks are    *)
(* neighbours, nothing is leaked, and Alloc is implemented.                *)
(*                                                                         *)
(* None of these properties is inductive, since a tag is worth nothing if  *)
(* a payload may overwrite it.  IInv therefore speaks of a set S of        *)
(* blocks: it tiles the heap with equal tags at both ends (Blocks), no     *)
(* free blocks are neighbours (Apart), its allocated blocks are the        *)
(* prologue and those of the live ids, each with room for its payload      *)
(* before its footer (Holds), and the payloads hold their fill (Intact).   *)
(* That find_fit's loop goes through S and nothing else is ChainIs.        *)
(*                                                                         *)
(* The module goes up the layers of mm.c: arithmetic of addresses, tilings *)
(* and their changes (Cut, Concat, Replace, Join), then coalesce, place,   *)
(* extend_heap, find_fit, malloc, free, realloc and init on a set of       *)
(* blocks, and at the end the driver's requests.                           *)
(***************************************************************************)
EXTENDS Mdriver, NatFacts

-----------------------------------------------------------------------------
(* Arithmetic of cells.                                                    *)

Mults == {ALIGNMENT * k : k \in Int}

LEMMA MultsClosed ==
  ASSUME NEW x \in Mults, NEW y \in Mults
  PROVE  x \in Int /\ x + y \in Mults /\ x - y \in Mults
<1>1. PICK j \in Int : x = ALIGNMENT * j
  BY DEF Mults
<1>2. PICK k \in Int : y = ALIGNMENT * k
  BY DEF Mults
<1>3. ALIGNMENT \in Int
  BY MemlibAssumption
<1>4. x + y = ALIGNMENT * (j + k) /\ x - y = ALIGNMENT * (j - k)
  BY <1>1, <1>2, <1>3
<1>5. j + k \in Int /\ j - k \in Int /\ x \in Int
  BY <1>1, <1>3
<1> QED BY <1>4, <1>5 DEF Mults

LEMMA MultsGap ==
  ASSUME NEW x \in Mults, NEW y \in Mults, x < y
  PROVE  x + ALIGNMENT <= y
<1>1. PICK j \in Int : x = ALIGNMENT * j
  BY DEF Mults
<1>2. PICK k \in Int : y = ALIGNMENT * k
  BY DEF Mults
<1>3. ALIGNMENT \in Nat \ {0}
  BY MemlibAssumption
<1>4. y - x = ALIGNMENT * (k - j)
  BY <1>1, <1>2, <1>3
<1>5. k - j >= 1
  <2>1. SUFFICES ASSUME k - j <= 0 PROVE FALSE
    OBVIOUS
  <2>2. ALIGNMENT * (k - j) <= 0
    BY <1>3, <2>1
  <2> QED BY <1>1, <1>2, <1>3, <1>4, <2>2
<1>6. ALIGNMENT * (k - j) >= ALIGNMENT
  BY <1>3, <1>5
<1>7. x \in Int /\ y \in Int
  BY <1>1, <1>2, <1>3
<1> QED BY <1>3, <1>4, <1>6, <1>7

LEMMA CellsAre ==
  /\ ALIGNMENT \in Mults /\ 0 \in Mults /\ mem_max_addr \in Mults
  /\ Cells = {x \in Mults : ALIGNMENT <= x /\ x < mem_max_addr}
  /\ BlockAddrs = {x \in Mults : ALIGNMENT <= x /\ x <= mem_max_addr}
<1> DEFINE K == MAX_HEAP \div ALIGNMENT
<1>1. ALIGNMENT \in Nat \ {0} /\ MAX_HEAP \in Nat /\ MAX_HEAP % ALIGNMENT = 0
  BY MemlibAssumption
<1>2. K \in Int /\ MAX_HEAP = ALIGNMENT * K
  BY <1>1, DivMod
<1> HIDE DEF K
<1>3. mem_max_addr = ALIGNMENT * (K + 1) /\ mem_max_addr \in Int
  BY <1>1, <1>2 DEF mem_max_addr, mem_start_brk
<1>4. ALIGNMENT = ALIGNMENT * 1 /\ 0 = ALIGNMENT * 0
  BY <1>1
<1>5. ALIGNMENT \in Mults /\ 0 \in Mults /\ mem_max_addr \in Mults
  <2>1. K + 1 \in Int /\ 0 \in Int /\ 1 \in Int
    BY <1>2
  <2>2. \A k \in Int : ALIGNMENT * k \in Mults
    BY DEF Mults
  <2> QED BY <1>3, <1>4, <2>1, <2>2
<1>6. ASSUME NEW k \in Int
      PROVE  /\ ALIGNMENT <= ALIGNMENT * k <=> 1 <= k
             /\ ALIGNMENT * k < mem_max_addr <=> k <= K
  <2>1. k >= 1 => ALIGNMENT * k >= ALIGNMENT
    BY <1>1
  <2>2. k <= 0 => ALIGNMENT * k <= 0
    BY <1>1
  <2>3. ALIGNMENT * ((K + 1) - k) = mem_max_addr - (ALIGNMENT * k)
    BY <1>1, <1>2, <1>3
  <2>4. (K + 1) - k >= 1 => ALIGNMENT * ((K + 1) - k) >= ALIGNMENT
    BY <1>1, <1>2
  <2>5. (K + 1) - k <= 0 => ALIGNMENT * ((K + 1) - k) <= 0
    BY <1>1, <1>2
  <2>6. ALIGNMENT * k \in Int
    BY <1>1
  <2> QED BY <1>1, <1>2, <1>3, <2>1, <2>2, <2>3, <2>4, <2>5, <2>6
<1>7. Cells = {x \in Mults : ALIGNMENT <= x /\ x < mem_max_addr}
  <2>1. ASSUME NEW x \in Cells PROVE x \in Mults /\ ALIGNMENT <= x /\ x < mem_max_addr
    <3>1. PICK k \in 1 .. K : x = ALIGNMENT * k
      BY DEF Cells, K
    <3> QED BY <1>2, <1>6, <3>1 DEF Mults
  <2>2. ASSUME NEW x \in Mults, ALIGNMENT <= x, x < mem_max_addr PROVE x \in Cells
    <3>1. PICK k \in Int : x = ALIGNMENT * k
      BY DEF Mults
    <3>2. k \in 1 .. K
      BY <1>2, <1>6, <2>2, <3>1
    <3> QED BY <3>1, <3>2 DEF Cells, K
  <2> QED BY <2>1, <2>2
<1>8. BlockAddrs = {x \in Mults : ALIGNMENT <= x /\ x <= mem_max_addr}
  <2>1. ALIGNMENT <= mem_max_addr
    BY <1>1 DEF mem_max_addr, mem_start_brk
  <2>2. \A x \in Mults : x \in Int
    BY MultsClosed
  <2>3. ASSUME NEW x PROVE x \in BlockAddrs <=> x \in Mults /\ ALIGNMENT <= x /\ x <= mem_max_addr
    <3>1. x \in BlockAddrs <=> x \in Cells \/ x = mem_max_addr
      BY DEF BlockAddrs
    <3>2. x \in Cells <=> x \in Mults /\ ALIGNMENT <= x /\ x < mem_max_addr
      BY <1>7
    <3>3. x \in Mults => x \in Int
      BY <2>2
    <3> QED BY <1>3, <1>5, <2>1, <3>1, <3>2, <3>3
  <2> QED BY <2>3
<1> QED BY <1>5, <1>7, <1>8

\* The walk of the chain is defined: every step goes up.
LEMMA ChainWalk ==
  ASSUME NEW h
  PROVE  \E From :
           /\ \A bp \in BlockAddrs :
                From[bp] = IF NEXT_BLKP(h.mem, bp) > bp /\ NEXT_BLKP(h.mem, bp) \in BlockAddrs
                           THEN {bp} \cup From[NEXT_BLKP(h.mem, bp)] ELSE {bp}
           /\ Chain(h) = From[h.heap_listp]
<1> DEFINE next(bp) == NEXT_BLKP(h.mem, bp)
           Body(F, bp) == IF next(bp) > bp /\ next(bp) \in BlockAddrs
                          THEN {bp} \cup F[next(bp)] ELSE {bp}
           D(n) == {bp \in BlockAddrs : bp + n > mem_max_addr}
           Walk(n) == \E F : F = [bp \in D(n) |-> Body(F, bp)]
<1>1. mem_max_addr \in Nat /\ \A bp \in BlockAddrs : bp \in Int /\ 1 <= bp /\ bp <= mem_max_addr
  <2>1. ALIGNMENT \in Nat \ {0}
    BY MemlibAssumption
  <2>2. \A x \in Mults : x \in Int
    BY MultsClosed
  <2>3. mem_max_addr \in Nat
    BY MemlibAssumption DEF mem_max_addr, mem_start_brk
  <2>4. \A bp \in BlockAddrs : bp \in Mults /\ ALIGNMENT <= bp /\ bp <= mem_max_addr
    BY CellsAre
  <2> QED BY <2>1, <2>2, <2>3, <2>4
<1>2. Walk(0)
  <2>1. D(0) = {}
    BY <1>1
  <2>2. [bp \in {} |-> {}] = [bp \in D(0) |-> Body([bq \in {} |-> {}], bp)]
    BY <2>1, Zenon
  <2> QED BY <2>2
<1>3. ASSUME NEW n \in Nat, Walk(n) PROVE Walk(n + 1)
  <2>1. PICK F : F = [bp \in D(n) |-> Body(F, bp)]
    BY <1>3
  <2> DEFINE G == [bp \in D(n + 1) |-> IF bp \in D(n) THEN F[bp] ELSE Body(F, bp)]
  <2>2. ASSUME NEW bp \in D(n + 1) PROVE G[bp] = Body(G, bp)
    <3>1. CASE next(bp) > bp /\ next(bp) \in BlockAddrs
      <4>1. next(bp) \in D(n) /\ next(bp) \in D(n + 1)
        <5> HIDE DEF next
        <5> QED BY <1>1, <3>1
      <4>2. G[next(bp)] = F[next(bp)]
        BY <4>1
      <4>3. bp \in D(n) => F[bp] = Body(F, bp)
        BY <2>1, Zenon
      <4>4. G[bp] = Body(F, bp)
        BY <4>3
      <4> HIDE DEF G, next
      <4> QED BY <3>1, <4>2, <4>4
    <3>2. CASE ~(next(bp) > bp /\ next(bp) \in BlockAddrs)
      <4>1. bp \in D(n) => F[bp] = Body(F, bp)
        BY <2>1, Zenon
      <4>2. G[bp] = Body(F, bp)
        BY <4>1
      <4> HIDE DEF G, next
      <4> QED BY <3>2, <4>2
    <3> QED BY <3>1, <3>2
  <2>3. G = [bp \in D(n + 1) |-> Body(G, bp)]
    <3> HIDE DEF Body
    <3> DEFINE g == G
    <3>1. g = [bp \in D(n + 1) |-> g[bp]]
      OBVIOUS
    <3>2. \A bp \in D(n + 1) : g[bp] = Body(g, bp)
      BY <2>2
    <3> HIDE DEF g, D
    <3>3. g = [bp \in D(n + 1) |-> Body(g, bp)]
      BY <3>1, <3>2, Zenon
    <3> QED BY <3>3 DEF g
  <2> HIDE DEF G, D, Body
  <2> QED BY <2>3
<1>4. \A n \in Nat : Walk(n)
  <2> HIDE DEF Walk
  <2> DEFINE Bad == {n \in Nat : ~Walk(n)}
  <2>1. SUFFICES ASSUME Bad # {} PROVE FALSE
    OBVIOUS
  <2>2. PICK n \in Bad : \A k \in Bad : n <= k
    <3>1. Bad \in SUBSET Nat
      OBVIOUS
    <3> HIDE DEF Bad
    <3> QED BY <2>1, <3>1, LeastNat
  <2>3. n \in Nat /\ ~Walk(n)
    BY <2>2
  <2>4. n # 0
    BY <1>2, <2>3
  <2>5. n - 1 \in Nat /\ (n - 1) + 1 = n /\ ~(n <= n - 1)
    BY <2>3, <2>4
  <2>6. Walk(n - 1)
    BY <2>2, <2>5
  <2> QED BY <1>3, <2>3, <2>5, <2>6
<1>5. D(mem_max_addr) = BlockAddrs
  BY <1>1
<1>6. Walk(mem_max_addr)
  <2> HIDE DEF Walk
  <2> QED BY <1>1, <1>4
<1>7. \E F : F = [bp \in BlockAddrs |-> Body(F, bp)]
  <2> HIDE DEF Body, D
  <2> QED BY <1>5, <1>6, Zenon
<1> DEFINE From == CHOOSE F : F = [bp \in BlockAddrs |-> Body(F, bp)]
<1>8. From = [bp \in BlockAddrs |-> Body(From, bp)]
  <2> HIDE DEF Body
  <2> QED BY <1>7, Zenon
<1>9. Chain(h) = From[h.heap_listp]
  BY DEF Chain
<1>10. \A bp \in BlockAddrs : From[bp] = Body(From, bp)
  <2> HIDE DEF Body, From
  <2> QED BY <1>8, Zenon
<1> HIDE DEF From
<1> QED BY <1>9, <1>10

-----------------------------------------------------------------------------
(* Tags.                                                                   *)

\* A number that is off a multiple by less than ALIGNMENT.
LEMMA ModMult ==
  ASSUME NEW x \in Mults, NEW a \in 0 .. ALIGNMENT - 1
  PROVE  (x + a) % ALIGNMENT = a
<1> DEFINE m == ALIGNMENT
           q == (x + a) \div m
           r == (x + a) % m
<1>1. m \in Nat \ {0}
  BY MemlibAssumption
<1>2. PICK k \in Int : x = m * k
  BY DEF Mults
<1>3. x + a \in Int /\ a \in Int /\ 0 <= a /\ a < m
  BY <1>1, <1>2
<1>4. q \in Int /\ r \in 0 .. m - 1 /\ x + a = (m * q) + r
  BY <1>1, <1>3, DivMod
<1> HIDE DEF q, r, m
<1>5. m * (k - q) = r - a
  <2>1. m * (k - q) = (m * k) - (m * q) /\ m * k \in Int /\ m * q \in Int
    BY <1>1, <1>4
  <2> QED BY <1>1, <1>2, <1>3, <1>4, <2>1
<1>6. k - q = 0
  <2>1. k - q \in Int
    BY <1>4
  <2>2. k - q >= 1 => m * (k - q) >= m
    BY <1>1, <2>1
  <2>3. k - q <= -1 => m * (k - q) <= -m
    BY <1>1, <2>1
  <2> QED BY <1>1, <1>3, <1>4, <1>5, <2>1, <2>2, <2>3
<1>7. m * 0 = 0
  BY <1>1
<1> QED BY <1>3, <1>4, <1>5, <1>6, <1>7 DEF r, m

\* A multiple of ALIGNMENT is even.
LEMMA EvenMult ==
  ASSUME NEW x \in Mults, NEW a \in {0, 1}
  PROVE  (x + a) % 2 = a
<1>1. ALIGNMENT \in Nat \ {0} /\ ALIGNMENT % 2 = 0
  BY MemlibAssumption
<1>2. PICK h \in Int : ALIGNMENT = 2 * h
  <2>1. ALIGNMENT = 2 * (ALIGNMENT \div 2) /\ ALIGNMENT \div 2 \in Int
    BY <1>1
  <2> QED BY <2>1
<1>3. PICK k \in Int : x = ALIGNMENT * k
  BY DEF Mults
<1>4. x = 2 * (h * k)
  BY <1>2, <1>3
<1>5. h * k \in Int
  OBVIOUS
<1> DEFINE j == h * k
<1> HIDE DEF j
<1>6. j \in Int /\ x = 2 * j
  BY <1>4, <1>5 DEF j
<1> QED BY <1>6

W == SIZE_T_SIZE
D == DSIZE_T_SIZE

\* ALIGN goes up to the next multiple.
LEMMA AlignUp ==
  ASSUME NEW x \in Nat
  PROVE  ALIGN(x) \in Mults /\ x <= ALIGN(x) /\ ALIGN(x) < x + ALIGNMENT
<1> DEFINE m == ALIGNMENT
           y == x + m - 1
           q == y \div m
           r == y % m
<1>1. m \in Nat \ {0}
  BY MemlibAssumption
<1>2. y \in Int
  BY <1>1
<1>3. q \in Int /\ r \in 0 .. m - 1 /\ y = (m * q) + r
  <2> HIDE DEF y, m
  <2> QED BY <1>1, <1>2, DivMod
<1>4. ALIGN(x) = q * m
  BY DEF ALIGN
<1> HIDE DEF q, r
<1>5. q * m = m * q /\ m * q \in Int
  BY <1>1, <1>3
<1>6. m * q \in Mults
  BY <1>3 DEF Mults
<1>7. x <= m * q /\ m * q < x + m
  <2> HIDE DEF m
  <2> QED BY <1>1, <1>3, <1>5
<1> QED BY <1>4, <1>5, <1>6, <1>7

LEMMA WordSizes ==
  /\ ALIGNMENT \in Nat \ {0} /\ ALIGNMENT >= 2
  /\ W \in Mults /\ W >= ALIGNMENT /\ D \in Mults /\ D = 2 * W
  /\ W \in Nat /\ D \in Nat /\ mem_max_addr \in Nat
<1>1. ALIGNMENT \in Nat \ {0} /\ ALIGNMENT >= 2 /\ mem_max_addr \in Nat
  BY MemlibAssumption DEF mem_max_addr, mem_start_brk
<1>2. SIZEOF_SIZE_T \in Nat \ {0}
  BY MmAssumption
<1>3. W \in Mults /\ SIZEOF_SIZE_T <= W
  BY <1>2, AlignUp DEF W, SIZE_T_SIZE
<1>4. W \in Int /\ W > 0
  BY <1>2, <1>3, MultsClosed
<1>5. W >= ALIGNMENT
  <2>1. 0 \in Mults /\ 0 < W
    BY <1>4, CellsAre
  <2> QED BY <1>1, <1>3, <1>4, <2>1, MultsGap
<1>6. D = 2 * W /\ D = W + W
  BY <1>4 DEF D, DSIZE_T_SIZE, W
<1>7. D \in Mults
  BY <1>3, <1>6, MultsClosed
<1> QED BY <1>1, <1>3, <1>4, <1>5, <1>6, <1>7

\* What is read from a tag that was packed.
LEMMA Packed ==
  ASSUME NEW m, NEW p, NEW size \in Mults, NEW alloc \in {0, 1}, m[p] = PACK(size, alloc)
  PROVE  GET_SIZE(m, p) = size /\ GET_ALLOC(m, p) = alloc
<1>1. size \in Int /\ alloc \in 0 .. ALIGNMENT - 1 /\ alloc \in Int
  <2>1. size \in Int
    BY MultsClosed
  <2> QED BY <2>1, WordSizes
<1>2. (size + alloc) % ALIGNMENT = alloc /\ (size + alloc) % 2 = alloc
  BY <1>1, ModMult, EvenMult
<1>3. GET_SIZE(m, p) = (size + alloc) - alloc
  BY <1>2 DEF GET_SIZE, PACK
<1> QED BY <1>1, <1>2, <1>3 DEF GET_ALLOC, PACK

\* What is read from any word.
LEMMA TagRead ==
  ASSUME NEW m \in [Cells -> Nat], NEW p \in Cells
  PROVE  GET_SIZE(m, p) \in Mults /\ GET_SIZE(m, p) \in Nat /\ GET_ALLOC(m, p) \in {0, 1}
<1> DEFINE v == m[p]
<1>1. v \in Nat
  OBVIOUS
<1> HIDE DEF v
<1>2. ALIGNMENT \in Nat \ {0}
  BY MemlibAssumption
<1>3. v \div ALIGNMENT \in Int /\ v % ALIGNMENT \in 0 .. ALIGNMENT - 1
      /\ v = (ALIGNMENT * (v \div ALIGNMENT)) + (v % ALIGNMENT)
  BY <1>1, <1>2, DivMod
<1>4. v - (v % ALIGNMENT) = ALIGNMENT * (v \div ALIGNMENT)
  <2> DEFINE q == v \div ALIGNMENT
             r == v % ALIGNMENT
  <2> HIDE DEF q, r
  <2>1. q \in Int /\ r \in Int /\ v = (ALIGNMENT * q) + r /\ ALIGNMENT * q \in Int
    BY <1>2, <1>3 DEF q, r
  <2>2. v - r = ALIGNMENT * q
    BY <1>1, <2>1
  <2> QED BY <2>2 DEF q, r
<1>5. v - (v % ALIGNMENT) \in Mults
  BY <1>3, <1>4 DEF Mults
<1>6. v - (v % ALIGNMENT) \in Int /\ v - (v % ALIGNMENT) > -ALIGNMENT
  <2>1. v % ALIGNMENT \in Int /\ v % ALIGNMENT < ALIGNMENT
    BY <1>2, <1>3
  <2> QED BY <1>1, <1>2, <2>1
<1>7. v - (v % ALIGNMENT) >= 0
  <2> DEFINE u == v - (v % ALIGNMENT)
  <2> HIDE DEF u
  <2>1. u \in Mults /\ u \in Int /\ u > -ALIGNMENT
    BY <1>5, <1>6 DEF u
  <2>2. u < 0 => u + ALIGNMENT <= 0
    BY <2>1, CellsAre, MultsGap
  <2> QED BY <1>2, <2>1, <2>2 DEF u
<1>8. v % 2 \in {0, 1}
  BY <1>1
<1> QED BY <1>5, <1>6, <1>7, <1>8 DEF GET_SIZE, GET_ALLOC, v

-----------------------------------------------------------------------------
(* Blocks that tile a part of memory.                                      *)

SizeAt(m, b) == GET_SIZE(m, HDRP(b))
AllocAt(m, b) == GET_ALLOC(m, HDRP(b))
EndOf(m, b) == b + SizeAt(m, b)

Memories == [Cells -> Nat]

\* Where blocks may begin and end: with room for a header in front.
Room(lo, hi) == /\ lo \in Mults /\ hi \in Mults
                /\ ALIGNMENT + W <= lo /\ lo <= hi /\ hi <= mem_max_addr

\* The blocks of S lie one after another from lo to hi.
Tiles(m, lo, hi, S) ==
  /\ Room(lo, hi)
  /\ \A b \in S : /\ b \in Mults /\ lo <= b /\ b < hi
                  /\ D <= SizeAt(m, b) /\ EndOf(m, b) <= hi
                  /\ EndOf(m, b) \in S \cup {hi}
                  /\ m[EndOf(m, b) - D] = m[b - W]
  /\ lo \in S \cup {hi}
  /\ \A b \in S \cup {hi} : b = lo \/ \E a \in S : EndOf(m, a) = b
  /\ \A b, c \in S : b < c => EndOf(m, b) <= c

LEMMA RoomFacts ==
  ASSUME NEW lo, NEW hi, Room(lo, hi)
  PROVE  /\ lo \in Int /\ hi \in Int /\ lo \in Mults /\ hi \in Mults
         /\ ALIGNMENT + W <= lo /\ lo <= hi /\ hi <= mem_max_addr
         /\ \A b \in Mults : lo <= b /\ b <= hi => b \in Int /\ b - W \in Cells /\ b - W \in Int
<1>1. /\ lo \in Mults /\ hi \in Mults
      /\ ALIGNMENT + W <= lo /\ lo <= hi /\ hi <= mem_max_addr
  BY DEF Room
<1>2. lo \in Int /\ hi \in Int
  BY <1>1, MultsClosed
<1>3. ASSUME NEW b \in Mults, lo <= b, b <= hi PROVE b \in Int /\ b - W \in Cells /\ b - W \in Int
  <2>1. b \in Int /\ b - W \in Mults /\ b - W \in Int
    BY MultsClosed, WordSizes
  <2>2. ALIGNMENT <= b - W /\ b - W < mem_max_addr
    BY <1>1, <1>2, <1>3, <2>1, WordSizes
  <2> QED BY <2>1, <2>2, CellsAre
<1> QED BY <1>1, <1>2, <1>3

\* Where a block and its tags lie.
LEMMA BlockFacts ==
  ASSUME NEW m \in Memories, NEW lo, NEW hi, NEW S, Tiles(m, lo, hi, S), NEW b \in S
  PROVE  /\ b \in Mults /\ b \in Int /\ lo \in Int /\ hi \in Int
         /\ SizeAt(m, b) \in Mults /\ SizeAt(m, b) \in Nat /\ D <= SizeAt(m, b)
         /\ EndOf(m, b) \in Mults /\ EndOf(m, b) \in Int /\ EndOf(m, b) = b + SizeAt(m, b)
         /\ AllocAt(m, b) \in {0, 1}
         /\ b - W \in Cells /\ EndOf(m, b) - D \in Cells /\ b \in Cells
         /\ lo <= b /\ b < hi /\ EndOf(m, b) <= hi /\ b < EndOf(m, b)
         /\ b <= EndOf(m, b) - D
<1>1. /\ b \in Mults /\ lo <= b /\ b < hi /\ D <= SizeAt(m, b) /\ EndOf(m, b) <= hi
      /\ Room(lo, hi)
  BY DEF Tiles
<1>2. /\ lo \in Int /\ hi \in Int /\ b \in Int /\ b - W \in Cells
      /\ ALIGNMENT + W <= lo /\ hi <= mem_max_addr
  <2>1. lo \in Int /\ hi \in Int /\ ALIGNMENT + W <= lo /\ hi <= mem_max_addr
    BY <1>1, RoomFacts
  <2>2. b \in Int
    BY <1>1, MultsClosed
  <2>3. b - W \in Cells
    BY <1>1, <2>1, <2>2, RoomFacts
  <2> QED BY <2>1, <2>2, <2>3
<1>3. SizeAt(m, b) \in Mults /\ SizeAt(m, b) \in Nat /\ AllocAt(m, b) \in {0, 1}
  BY <1>2, TagRead DEF SizeAt, AllocAt, HDRP, W, Memories
<1>4. EndOf(m, b) = b + SizeAt(m, b)
  BY DEF EndOf
<1>5. EndOf(m, b) \in Mults /\ EndOf(m, b) \in Int /\ EndOf(m, b) - D \in Mults
  BY <1>1, <1>3, <1>4, MultsClosed, WordSizes
<1>6. b < EndOf(m, b) /\ b <= EndOf(m, b) - D /\ EndOf(m, b) - D < mem_max_addr
      /\ b < mem_max_addr /\ ALIGNMENT <= b /\ ALIGNMENT <= EndOf(m, b) - D
  BY <1>1, <1>2, <1>3, <1>4, <1>5, WordSizes
<1>7. EndOf(m, b) - D \in Cells /\ b \in Cells
  BY <1>1, <1>5, <1>6, CellsAre
<1> QED BY <1>1, <1>2, <1>3, <1>4, <1>5, <1>6, <1>7

Before(S, x) == {s \in S : s < x}
After(S, x) == {s \in S : x <= s}

\* A tiling may be cut at any of its blocks.
LEMMA Cut ==
  ASSUME NEW m \in Memories, NEW lo, NEW hi, NEW S, Tiles(m, lo, hi, S), NEW x \in S \cup {hi}
  PROVE  Tiles(m, lo, x, Before(S, x)) /\ Tiles(m, x, hi, After(S, x))
<1> DEFINE L == {s \in S : s < x}
           R == {s \in S : x <= s}
<1>1. Room(lo, hi) /\ lo \in Int /\ hi \in Int
  BY RoomFacts DEF Tiles
<1>2. x \in Mults /\ x \in Int /\ lo <= x /\ x <= hi
  BY <1>1, RoomFacts, BlockFacts
<1>3. Room(lo, x) /\ Room(x, hi)
  BY <1>1, <1>2, WordSizes DEF Room
<1>4. ASSUME NEW b \in S
      PROVE  /\ b \in Mults /\ b \in Int /\ lo <= b /\ b < hi /\ D <= SizeAt(m, b)
             /\ EndOf(m, b) \in Int /\ EndOf(m, b) <= hi /\ EndOf(m, b) \in S \cup {hi}
             /\ m[EndOf(m, b) - D] = m[b - W] /\ b < EndOf(m, b)
             /\ b < x => EndOf(m, b) <= x
  <2>1. EndOf(m, b) \in S \cup {hi} /\ m[EndOf(m, b) - D] = m[b - W]
        /\ \A c \in S : b < c => EndOf(m, b) <= c
    BY DEF Tiles
  <2>2. /\ b \in Mults /\ b \in Int /\ lo <= b /\ b < hi /\ D <= SizeAt(m, b)
        /\ EndOf(m, b) \in Int /\ EndOf(m, b) <= hi /\ b < EndOf(m, b)
    BY BlockFacts
  <2>3. b < x => EndOf(m, b) <= x
    BY <2>1, <2>2
  <2> QED BY <2>1, <2>2, <2>3
<1>5. /\ lo \in S \cup {hi}
      /\ \A b \in S \cup {hi} : b = lo \/ \E a \in S : EndOf(m, a) = b
      /\ \A b, c \in S : b < c => EndOf(m, b) <= c
  BY DEF Tiles
<1>6. Tiles(m, lo, x, L)
  <2>1. ASSUME NEW b \in L
        PROVE  /\ b \in Mults /\ lo <= b /\ b < x /\ D <= SizeAt(m, b) /\ EndOf(m, b) <= x
               /\ EndOf(m, b) \in L \cup {x} /\ m[EndOf(m, b) - D] = m[b - W]
    <3>1. EndOf(m, b) <= x /\ EndOf(m, b) \in Int /\ EndOf(m, b) \in S \cup {hi}
      BY <1>4
    <3>2. EndOf(m, b) \in L \cup {x}
      BY <1>1, <1>2, <3>1
    <3> QED BY <1>4, <3>1, <3>2
  <2>2. lo \in L \cup {x}
    BY <1>1, <1>2, <1>5
  <2>3. ASSUME NEW b \in L \cup {x} PROVE b = lo \/ \E a \in L : EndOf(m, a) = b
    <3>1. b \in S \cup {hi} /\ b \in Int /\ b <= x
      BY <1>2, <1>4
    <3>2. ASSUME NEW a \in S, EndOf(m, a) = b PROVE a \in L
      BY <1>2, <1>4, <3>1, <3>2
    <3> QED BY <1>5, <3>1, <3>2
  <2>4. \A b, c \in L : b < c => EndOf(m, b) <= c
    BY <1>5
  <2> HIDE DEF L
  <2> QED BY <1>3, <2>1, <2>2, <2>3, <2>4 DEF Tiles
<1>7. Tiles(m, x, hi, R)
  <2>1. ASSUME NEW b \in R
        PROVE  /\ b \in Mults /\ x <= b /\ b < hi /\ D <= SizeAt(m, b) /\ EndOf(m, b) <= hi
               /\ EndOf(m, b) \in R \cup {hi} /\ m[EndOf(m, b) - D] = m[b - W]
    <3>1. EndOf(m, b) \in R \cup {hi}
      BY <1>2, <1>4
    <3> QED BY <1>4, <3>1
  <2>2. x \in R \cup {hi}
    BY <1>1, <1>2
  <2>3. ASSUME NEW b \in R \cup {hi} PROVE b = x \/ \E a \in R : EndOf(m, a) = b
    <3>1. b \in S \cup {hi} /\ b \in Int /\ x <= b
      BY <1>1, <1>2, <1>4
    <3>2. ASSUME NEW a \in S, EndOf(m, a) = b, b # x PROVE a \in R
      BY <1>2, <1>4, <3>1, <3>2
    <3>3. b = lo => b = x
      BY <1>1, <1>2, <3>1
    <3> QED BY <1>5, <3>1, <3>2, <3>3
  <2>4. \A b, c \in R : b < c => EndOf(m, b) <= c
    BY <1>5
  <2> HIDE DEF R
  <2> QED BY <1>3, <2>1, <2>2, <2>3, <2>4 DEF Tiles
<1> QED BY <1>6, <1>7 DEF Before, After

\* Two tilings that meet make one.
LEMMA Concat ==
  ASSUME NEW m \in Memories, NEW lo, NEW x, NEW hi, NEW L, NEW R,
         Tiles(m, lo, x, L), Tiles(m, x, hi, R)
  PROVE  Tiles(m, lo, hi, L \cup R)
<1>1. /\ Room(lo, x) /\ Room(x, hi) /\ lo \in Int /\ x \in Int /\ hi \in Int
      /\ lo <= x /\ x <= hi /\ lo \in Mults /\ hi \in Mults /\ ALIGNMENT + W <= lo
      /\ hi <= mem_max_addr
  BY RoomFacts DEF Tiles
<1>2. Room(lo, hi)
  BY <1>1 DEF Room
<1>3. ASSUME NEW b \in L
      PROVE  /\ b \in Mults /\ b \in Int /\ lo <= b /\ b < x /\ D <= SizeAt(m, b)
             /\ EndOf(m, b) \in Int /\ EndOf(m, b) <= x /\ EndOf(m, b) \in L \cup {x}
             /\ m[EndOf(m, b) - D] = m[b - W]
  <2>1. EndOf(m, b) \in L \cup {x} /\ m[EndOf(m, b) - D] = m[b - W]
    BY DEF Tiles
  <2> QED BY <2>1, BlockFacts
<1>4. ASSUME NEW b \in R
      PROVE  /\ b \in Mults /\ b \in Int /\ x <= b /\ b < hi /\ D <= SizeAt(m, b)
             /\ EndOf(m, b) \in Int /\ EndOf(m, b) <= hi /\ EndOf(m, b) \in R \cup {hi}
             /\ m[EndOf(m, b) - D] = m[b - W] /\ b < EndOf(m, b)
  <2>1. EndOf(m, b) \in R \cup {hi} /\ m[EndOf(m, b) - D] = m[b - W]
    BY DEF Tiles
  <2> QED BY <2>1, BlockFacts
<1>5. /\ lo \in L \cup {x} /\ \A b \in L \cup {x} : b = lo \/ \E a \in L : EndOf(m, a) = b
      /\ \A b, c \in L : b < c => EndOf(m, b) <= c
  BY DEF Tiles
<1>6. /\ x \in R \cup {hi} /\ \A b \in R \cup {hi} : b = x \/ \E a \in R : EndOf(m, a) = b
      /\ \A b, c \in R : b < c => EndOf(m, b) <= c
  BY DEF Tiles
<1> DEFINE S == L \cup R
<1>7. ASSUME NEW b \in S
      PROVE  /\ b \in Mults /\ lo <= b /\ b < hi /\ D <= SizeAt(m, b) /\ EndOf(m, b) <= hi
             /\ EndOf(m, b) \in S \cup {hi} /\ m[EndOf(m, b) - D] = m[b - W]
  <2>1. CASE b \in L
    BY <1>1, <1>3, <1>6, <2>1
  <2>2. CASE b \in R
    BY <1>1, <1>4, <2>2
  <2> QED BY <2>1, <2>2
<1>8. lo \in S \cup {hi}
  BY <1>5, <1>6
<1>9. ASSUME NEW b \in S \cup {hi} PROVE b = lo \/ \E a \in S : EndOf(m, a) = b
  BY <1>5, <1>6
<1>10. ASSUME NEW b \in S, NEW c \in S, b < c PROVE EndOf(m, b) <= c
  <2>1. CASE b \in L /\ c \in L
    BY <1>5, <1>10, <2>1
  <2>2. CASE b \in L /\ c \in R
    BY <1>1, <1>3, <1>4, <2>2
  <2>3. CASE b \in R /\ c \in L
    BY <1>1, <1>3, <1>4, <1>10, <2>3
  <2>4. CASE b \in R /\ c \in R
    BY <1>6, <1>10, <2>4
  <2> QED BY <2>1, <2>2, <2>3, <2>4
<1> HIDE DEF S
<1>11. Tiles(m, lo, hi, S)
  BY <1>2, <1>7, <1>8, <1>9, <1>10 DEF Tiles
<1> QED BY <1>11 DEF S

\* Memories that agree on the tags have the same blocks.
LEMMA Frame ==
  ASSUME NEW m \in Memories, NEW m2 \in Memories, NEW lo, NEW hi, NEW S, Tiles(m, lo, hi, S),
         \A b \in S : m2[b - W] = m[b - W] /\ m2[EndOf(m, b) - D] = m[EndOf(m, b) - D]
  PROVE  /\ Tiles(m2, lo, hi, S)
         /\ \A b \in S : /\ SizeAt(m2, b) = SizeAt(m, b) /\ EndOf(m2, b) = EndOf(m, b)
                         /\ AllocAt(m2, b) = AllocAt(m, b)
<1>1. ASSUME NEW b \in S
      PROVE  /\ SizeAt(m2, b) = SizeAt(m, b) /\ EndOf(m2, b) = EndOf(m, b)
             /\ AllocAt(m2, b) = AllocAt(m, b)
  BY DEF SizeAt, AllocAt, EndOf, GET_SIZE, GET_ALLOC, HDRP, W
<1>2. Tiles(m2, lo, hi, S)
  <2>1. ASSUME NEW b \in S
        PROVE  /\ b \in Mults /\ lo <= b /\ b < hi /\ D <= SizeAt(m2, b) /\ EndOf(m2, b) <= hi
               /\ EndOf(m2, b) \in S \cup {hi} /\ m2[EndOf(m2, b) - D] = m2[b - W]
    BY <1>1 DEF Tiles
  <2>2. /\ Room(lo, hi) /\ lo \in S \cup {hi}
        /\ \A b \in S \cup {hi} : b = lo \/ \E a \in S : EndOf(m2, a) = b
        /\ \A b, c \in S : b < c => EndOf(m2, b) <= c
    BY <1>1 DEF Tiles
  <2> QED BY <2>1, <2>2 DEF Tiles
<1> QED BY <1>1, <1>2

LEMMA PutFacts ==
  ASSUME NEW m \in Memories, NEW p \in Cells, NEW v \in Nat
  PROVE  /\ PUT(m, p, v) \in Memories /\ PUT(m, p, v)[p] = v
         /\ \A c \in Cells : c # p => PUT(m, p, v)[c] = m[c]
BY DEF PUT, Memories

LEMMA PackNat ==
  ASSUME NEW size \in Nat, NEW alloc \in {0, 1}
  PROVE  PACK(size, alloc) \in Nat
BY DEF PACK

\* Both tags of a block.
Tagged(m, b, e, v) == PUT(PUT(m, b - W, v), e - D, v)

LEMMA TaggedFacts ==
  ASSUME NEW m \in Memories, NEW b, NEW e, NEW v \in Nat, b - W \in Cells, e - D \in Cells
  PROVE  /\ Tagged(m, b, e, v) \in Memories
         /\ Tagged(m, b, e, v)[b - W] = v /\ Tagged(m, b, e, v)[e - D] = v
         /\ \A c \in Cells : c # b - W /\ c # e - D => Tagged(m, b, e, v)[c] = m[c]
BY PutFacts DEF Tagged

LEMMA PutBothIs ==
  ASSUME NEW m \in Memories, NEW b \in Int, b - W \in Cells,
         NEW size \in Mults, size \in Nat, NEW alloc \in {0, 1}
  PROVE  PutBoth(m, b, size, alloc) = Tagged(m, b, b + size, PACK(size, alloc))
<1> DEFINE m1 == PUT(m, HDRP(b), PACK(size, alloc))
<1>1. m1[b - W] = PACK(size, alloc) /\ HDRP(b) = b - W
  <2>1. HDRP(b) = b - W
    BY DEF HDRP, W
  <2>2. PACK(size, alloc) \in Nat
    BY PackNat
  <2> QED BY <2>1, <2>2, PutFacts
<1>2. GET_SIZE(m1, HDRP(b)) = size
  BY <1>1, Packed
<1>3. FTRP(m1, b) = (b + size) - D
  <2>1. FTRP(m1, b) = b + (size - D)
    BY <1>2 DEF FTRP, D
  <2> QED BY <2>1, WordSizes
<1>4. PutBoth(m, b, size, alloc) = PUT(m1, FTRP(m1, b), PACK(size, alloc))
  BY DEF PutBoth
<1>5. m1 = PUT(m, b - W, PACK(size, alloc))
  BY <1>1
<1> HIDE DEF m1
<1> QED BY ONLY <1>3, <1>4, <1>5 DEF Tagged

LEMMA JoinedIs ==
  ASSUME NEW m, NEW b, NEW e, NEW size
  PROVE  Joined(m, b, e - D, size) = [mem |-> Tagged(m, b, e, PACK(size, 0)), ptr |-> b]
BY DEF Joined, Tagged, HDRP, W

\* One block.
LEMMA Single ==
  ASSUME NEW m \in Memories, NEW b, NEW e, Room(b, e), b + D <= e,
         NEW alloc \in {0, 1}, m[b - W] = PACK(e - b, alloc), m[e - D] = PACK(e - b, alloc)
  PROVE  /\ Tiles(m, b, e, {b})
         /\ SizeAt(m, b) = e - b /\ AllocAt(m, b) = alloc /\ EndOf(m, b) = e
<1>1. b \in Mults /\ e \in Mults /\ b \in Int /\ e \in Int /\ e - b \in Mults
  BY RoomFacts, MultsClosed
<1>2. SizeAt(m, b) = e - b /\ AllocAt(m, b) = alloc
  BY <1>1, Packed DEF SizeAt, AllocAt, HDRP, W
<1>3. EndOf(m, b) = e
  BY <1>1, <1>2 DEF EndOf
<1>4. D <= e - b /\ b < e /\ b <= b
  BY <1>1, WordSizes
<1> QED BY <1>1, <1>2, <1>3, <1>4 DEF Tiles

\* A block ends before the next ones, or the end of the tiling.
LEMMA EndsBefore ==
  ASSUME NEW m \in Memories, NEW lo, NEW hi, NEW S, Tiles(m, lo, hi, S), NEW b \in S,
         NEW e \in S \cup {hi}, b < e
  PROVE  EndOf(m, b) <= e
BY DEF Tiles

\* The blocks between p and e are replaced by others.
LEMMA Replace ==
  ASSUME NEW m \in Memories, NEW m2 \in Memories, NEW lo, NEW hi, NEW S, Tiles(m, lo, hi, S),
         NEW p \in S \cup {hi}, NEW e \in S \cup {hi}, p <= e,
         \A c \in Cells : c < p - W \/ e - W <= c => m2[c] = m[c],
         NEW T, Tiles(m2, p, e, T)
  PROVE  /\ Tiles(m2, lo, hi, (Before(S, p) \cup T) \cup After(S, e))
         /\ \A b \in S : b < p \/ e <= b =>
              /\ SizeAt(m2, b) = SizeAt(m, b) /\ EndOf(m2, b) = EndOf(m, b)
              /\ AllocAt(m2, b) = AllocAt(m, b)
<1> DEFINE L == Before(S, p)
           R == After(S, e)
<1>1. Tiles(m, lo, p, L) /\ Tiles(m, e, hi, R)
  <2>1. Tiles(m, lo, p, L)
    BY Cut, Zenon
  <2>2. Tiles(m, e, hi, R)
    BY Cut, Zenon
  <2> QED BY <2>1, <2>2
<1>2. p \in Int /\ e \in Int
  BY <1>1, RoomFacts DEF Tiles
<1>3. \A b \in L : m2[b - W] = m[b - W] /\ m2[EndOf(m, b) - D] = m[EndOf(m, b) - D]
  <2>1. SUFFICES ASSUME NEW b \in L
                 PROVE  m2[b - W] = m[b - W] /\ m2[EndOf(m, b) - D] = m[EndOf(m, b) - D]
    OBVIOUS
  <2>2. /\ b \in Int /\ EndOf(m, b) \in Int /\ EndOf(m, b) <= p /\ b < p
        /\ b - W \in Cells /\ EndOf(m, b) - D \in Cells
    BY <1>1, BlockFacts DEF Before
  <2>3. b - W < p - W /\ EndOf(m, b) - D < p - W
    BY <1>2, <2>2, WordSizes
  <2> QED BY <2>2, <2>3
<1>4. \A b \in R : m2[b - W] = m[b - W] /\ m2[EndOf(m, b) - D] = m[EndOf(m, b) - D]
  <2>1. SUFFICES ASSUME NEW b \in R
                 PROVE  m2[b - W] = m[b - W] /\ m2[EndOf(m, b) - D] = m[EndOf(m, b) - D]
    OBVIOUS
  <2>2. /\ b \in Int /\ EndOf(m, b) \in Int /\ e <= b /\ b <= EndOf(m, b) - D
        /\ b - W \in Cells /\ EndOf(m, b) - D \in Cells
    BY <1>1, BlockFacts DEF After
  <2>3. e - W <= b - W /\ e - W <= EndOf(m, b) - D
    BY <1>2, <2>2, WordSizes
  <2> QED BY <2>2, <2>3
<1> HIDE DEF L, R
<1>5. /\ Tiles(m2, lo, p, L)
      /\ \A b \in L : /\ SizeAt(m2, b) = SizeAt(m, b) /\ EndOf(m2, b) = EndOf(m, b)
                      /\ AllocAt(m2, b) = AllocAt(m, b)
  BY ONLY <1>1, <1>3, Frame, m \in Memories, m2 \in Memories
<1>6. /\ Tiles(m2, e, hi, R)
      /\ \A b \in R : /\ SizeAt(m2, b) = SizeAt(m, b) /\ EndOf(m2, b) = EndOf(m, b)
                      /\ AllocAt(m2, b) = AllocAt(m, b)
  BY ONLY <1>1, <1>4, Frame, m \in Memories, m2 \in Memories
<1>7. Tiles(m2, lo, hi, (L \cup T) \cup R)
  BY <1>5, <1>6, Concat
<1> QED BY <1>5, <1>6, <1>7 DEF L, R, Before, After

\* What m2 has kept of the payloads that m has in the blocks of S.
Inside(m, b) == {c \in Cells : b <= c /\ c < EndOf(m, b) - D}
KeepsPayloads(m, m2, S) == \A b \in S : \A c \in Inside(m, b) : m2[c] = m[c]

\* The block m2 has at b is the one of m.
SameBlock(m, m2, b) ==
  /\ SizeAt(m2, b) = SizeAt(m, b) /\ EndOf(m2, b) = EndOf(m, b) /\ AllocAt(m2, b) = AllocAt(m, b)

\* The blocks of S when those from p to e become one.
Without(S, p, e) == {s \in S : s <= p \/ e <= s}

LEMMA Undisturbed ==
  ASSUME NEW m \in Memories, NEW m2 \in Memories, NEW lo, NEW hi, NEW S, Tiles(m, lo, hi, S),
         NEW p \in Int, NEW e \in Int, \A c \in Cells : c < p - W \/ e - W <= c => m2[c] = m[c],
         NEW b \in S, b < p \/ e <= b
  PROVE  SameBlock(m, m2, b)
<1>1. b \in Int /\ b - W \in Cells
  BY BlockFacts
<1>2. b - W < p - W \/ e - W <= b - W
  BY <1>1, WordSizes
<1>3. m2[b - W] = m[b - W]
  BY <1>1, <1>2
<1> QED BY <1>3 DEF SameBlock, SizeAt, EndOf, AllocAt, GET_SIZE, GET_ALLOC, HDRP, W

\* One block from p to the end of q, with its own tags.
LEMMA Join ==
  ASSUME NEW m \in Memories, NEW lo, NEW hi, NEW S, Tiles(m, lo, hi, S),
         NEW p \in S, NEW q \in S, p <= q, NEW alloc \in {0, 1}
  PROVE  LET e  == EndOf(m, q)
             m2 == Tagged(m, p, e, PACK(e - p, alloc))
             S2 == Without(S, p, e)
         IN  /\ m2 \in Memories
             /\ Tiles(m2, lo, hi, S2)
             /\ EndOf(m2, p) = e /\ SizeAt(m2, p) = e - p /\ AllocAt(m2, p) = alloc
             /\ \A b \in S2 : b # p => SameBlock(m, m2, b)
             /\ \A c \in Cells : e - W <= c => m2[c] = m[c]
             /\ KeepsPayloads(m, m2, S)
<1> DEFINE e  == EndOf(m, q)
           m2 == Tagged(m, p, e, PACK(e - p, alloc))
           S2 == Without(S, p, e)
<1>1. /\ p \in Int /\ q \in Int /\ e \in Int /\ p \in Mults /\ e \in Mults
      /\ lo \in Int /\ lo <= p /\ e <= hi /\ hi \in Int
      /\ q + D <= e /\ p - W \in Cells /\ e - D \in Cells /\ p \in Cells
      /\ e \in S \cup {hi}
  <2>1. e \in S \cup {hi}
    BY DEF Tiles
  <2>2. /\ p \in Int /\ p \in Mults /\ lo <= p /\ p - W \in Cells /\ p \in Cells /\ lo \in Int /\ hi \in Int
    BY BlockFacts
  <2>3. q \in Int /\ e \in Int /\ e \in Mults /\ e <= hi /\ q + D <= e /\ e - D \in Cells
    BY BlockFacts, WordSizes
  <2> QED BY <2>1, <2>2, <2>3
<1> HIDE DEF e
<1>2. e - p \in Nat /\ e - p \in Mults /\ p + D <= e /\ p < e
  BY <1>1, MultsClosed, WordSizes
<1>3. PACK(e - p, alloc) \in Nat
  BY <1>2, PackNat
<1>4. /\ m2 \in Memories /\ m2[p - W] = PACK(e - p, alloc) /\ m2[e - D] = PACK(e - p, alloc)
      /\ \A c \in Cells : c # p - W /\ c # e - D => m2[c] = m[c]
  BY <1>1, <1>3, TaggedFacts
<1> HIDE DEF m2
<1>5. Room(p, e)
  <2>1. Room(lo, hi)
    BY DEF Tiles
  <2> QED BY <1>1, <1>2, <2>1, RoomFacts, WordSizes DEF Room
<1>6. Tiles(m2, p, e, {p}) /\ SizeAt(m2, p) = e - p /\ AllocAt(m2, p) = alloc /\ EndOf(m2, p) = e
  BY <1>2, <1>4, <1>5, Single
<1>7. \A c \in Cells : c < p - W \/ e - W <= c => m2[c] = m[c]
  <2>1. \A c \in Cells : c \in Int
    BY CellsAre, MultsClosed
  <2> QED BY <1>1, <1>2, <1>4, <2>1, WordSizes
<1>8. /\ Tiles(m2, lo, hi, (Before(S, p) \cup {p}) \cup After(S, e))
      /\ \A b \in S : b < p \/ e <= b => SameBlock(m, m2, b)
  <2>1. p \in S \cup {hi} /\ p <= e /\ e \in S \cup {hi} /\ m2 \in Memories /\ Tiles(m2, p, e, {p})
    BY <1>1, <1>2, <1>4, <1>6
  <2> QED BY <1>7, <2>1, Replace DEF SameBlock
<1>9. (Before(S, p) \cup {p}) \cup After(S, e) = S2
  <2>1. \A s \in S : s \in Int
    BY BlockFacts
  <2>2. \A s \in S : s <= p <=> s < p \/ s = p
    BY <1>1, <2>1
  <2> QED BY <2>2 DEF Before, After, Without
<1>10. \A b \in S2 : b # p => SameBlock(m, m2, b)
  <2>1. \A s \in S : s \in Int
    BY BlockFacts
  <2> QED BY <1>1, <1>8, <2>1 DEF Without
<1>11. KeepsPayloads(m, m2, S)
  <2>1. SUFFICES ASSUME NEW b \in S, NEW c \in Inside(m, b) PROVE m2[c] = m[c]
    BY DEF KeepsPayloads
  <2>2. /\ c \in Cells /\ c \in Int /\ b <= c /\ c < EndOf(m, b) - D
        /\ b \in Int /\ EndOf(m, b) \in Int
    BY CellsAre, MultsClosed, BlockFacts DEF Inside
  <2>3. b < p => EndOf(m, b) <= p
    BY EndsBefore
  <2>4. b < e => EndOf(m, b) <= e
    BY <1>1, EndsBefore
  <2>5. c # p - W /\ c # e - D
    BY <1>1, <1>2, <2>2, <2>3, <2>4, WordSizes
  <2> QED BY <1>4, <2>2, <2>5
<1>12. Tiles(m2, lo, hi, S2)
  BY <1>8, <1>9
<1> QED BY <1>4, <1>6, <1>7, <1>10, <1>11, <1>12 DEF e, m2

-----------------------------------------------------------------------------
(* The blocks between prologue and epilogue.                               *)

\* The payload address of the prologue.
Base == ALIGNMENT + D

\* The blocks of S, the prologue first, tile the memory up to the epilogue at brk.
Blocks(m, brk, S) ==
  /\ m \in Memories /\ Tiles(m, Base, brk, S) /\ Base \in S
  /\ m[Base - W] = PACK(D, 1) /\ m[brk - W] = PACK(0, 1)

Allocated(m, S) == {b \in S : AllocAt(m, b) = 1}

\* No free neighbours, but for those of the blocks in X.
Apart(m, S, X) ==
  \A b \in S : b \notin X /\ EndOf(m, b) \notin X /\ AllocAt(m, b) = 0
                 => AllocAt(m, EndOf(m, b)) = 1

LEMMA BaseFacts ==
  Base \in Mults /\ Base \in Int /\ Base - W \in Int /\ ALIGNMENT + W <= Base - W
BY WordSizes, CellsAre, MultsClosed DEF Base

LEMMA TagAt ==
  ASSUME NEW m, NEW b, NEW size \in Mults, NEW alloc \in {0, 1}, m[b - W] = PACK(size, alloc)
  PROVE  SizeAt(m, b) = size /\ AllocAt(m, b) = alloc
BY Packed DEF SizeAt, AllocAt, HDRP, W

LEMMA BlocksFacts ==
  ASSUME NEW m, NEW brk, NEW S, Blocks(m, brk, S)
  PROVE  /\ m \in Memories /\ Tiles(m, Base, brk, S) /\ Base \in S
         /\ brk \in Mults /\ brk \in Int /\ brk - W \in Cells /\ Base + D <= brk
         /\ brk <= mem_max_addr
         /\ SizeAt(m, Base) = D /\ AllocAt(m, Base) = 1 /\ EndOf(m, Base) = Base + D
         /\ SizeAt(m, brk) = 0 /\ AllocAt(m, brk) = 1
         /\ \A b \in S : b \in Int /\ EndOf(m, b) \in S \cup {brk} /\ b # brk
         /\ \A b \in S : b # Base => Base + D <= b
<1>1. /\ m \in Memories /\ Tiles(m, Base, brk, S) /\ Base \in S
      /\ m[Base - W] = PACK(D, 1) /\ m[brk - W] = PACK(0, 1)
  BY DEF Blocks
<1>2. Room(Base, brk)
  BY <1>1 DEF Tiles
<1>3. brk \in Mults /\ brk \in Int /\ brk - W \in Cells /\ brk <= mem_max_addr
  BY <1>2, RoomFacts
<1>4. SizeAt(m, Base) = D /\ AllocAt(m, Base) = 1
  BY <1>1, TagAt, WordSizes
<1>5. SizeAt(m, brk) = 0 /\ AllocAt(m, brk) = 1
  BY <1>1, TagAt, CellsAre
<1>6. EndOf(m, Base) = Base + D
  BY <1>4 DEF EndOf
<1>7. Base + D <= brk
  BY <1>1, <1>6 DEF Tiles
<1>8. ASSUME NEW b \in S PROVE b \in Int /\ EndOf(m, b) \in S \cup {brk} /\ b # brk
  <2>1. b \in Int /\ b < brk
    BY <1>1, BlockFacts
  <2>2. EndOf(m, b) \in S \cup {brk}
    BY <1>1 DEF Tiles
  <2> QED BY <1>3, <2>1, <2>2
<1>9. ASSUME NEW b \in S, b # Base PROVE Base + D <= b
  <2>1. b \in Int /\ Base <= b /\ Base \in Int
    BY <1>1, BlockFacts
  <2>2. Base < b
    BY <1>9, <2>1
  <2>3. EndOf(m, Base) <= b
    BY <1>1, <2>2, EndsBefore
  <2> QED BY <1>6, <2>3
<1> QED BY <1>1, <1>3, <1>4, <1>5, <1>6, <1>7, <1>8, <1>9

\* Join, for any block but the prologue.
LEMMA JoinBlocks ==
  ASSUME NEW m, NEW brk, NEW S, Blocks(m, brk, S),
         NEW p \in S, NEW q \in S, p <= q, p # Base, NEW alloc \in {0, 1}
  PROVE  LET e  == EndOf(m, q)
             m2 == Tagged(m, p, e, PACK(e - p, alloc))
             S2 == Without(S, p, e)
         IN  /\ Blocks(m2, brk, S2) /\ p \in S2 /\ e \in S2 \cup {brk} /\ e # p
             /\ EndOf(m2, p) = e /\ SizeAt(m2, p) = e - p /\ AllocAt(m2, p) = alloc
             /\ \A b \in S2 \cup {brk} : b # p => SameBlock(m, m2, b)
             /\ KeepsPayloads(m, m2, S)
<1> DEFINE e  == EndOf(m, q)
           m2 == Tagged(m, p, e, PACK(e - p, alloc))
           S2 == Without(S, p, e)
<1>1. /\ m \in Memories /\ Tiles(m, Base, brk, S) /\ Base \in S /\ brk \in Int
      /\ m[Base - W] = PACK(D, 1) /\ m[brk - W] = PACK(0, 1)
      /\ brk - W \in Cells /\ e \in S \cup {brk} /\ Base + D <= p
  BY BlocksFacts DEF Blocks
<1>2. /\ m2 \in Memories
      /\ Tiles(m2, Base, brk, S2)
      /\ EndOf(m2, p) = e /\ SizeAt(m2, p) = e - p /\ AllocAt(m2, p) = alloc
      /\ \A b \in S2 : b # p => SameBlock(m, m2, b)
      /\ \A c \in Cells : e - W <= c => m2[c] = m[c]
      /\ KeepsPayloads(m, m2, S)
  BY <1>1, Join
<1>3. p \in Int /\ e \in Int /\ p < e /\ e <= brk /\ e - D \in Cells /\ p - W \in Cells
      /\ p + D <= e
  <2>1. q \in Int /\ e \in Int /\ e <= brk /\ e - D \in Cells /\ q <= e - D
    BY <1>1, BlockFacts
  <2>2. p \in Int /\ p - W \in Cells
    BY <1>1, BlockFacts
  <2> HIDE DEF e
  <2> QED BY <2>1, <2>2, WordSizes
<1>4. m2[Base - W] = m[Base - W]
  <2>1. Base - W \in Cells /\ Base \in Int
    BY <1>1, BlockFacts
  <2>2. Base - W # p - W /\ Base - W # e - D
    BY <1>1, <1>3, <2>1, WordSizes
  <2>3. PACK(e - p, alloc) \in Nat
    BY <1>3, PackNat
  <2> QED BY <1>1, <1>3, <2>1, <2>2, <2>3, TaggedFacts
<1>5. m2[brk - W] = m[brk - W]
  BY <1>1, <1>2, <1>3, WordSizes
<1>6. p \in S2 /\ Base \in S2 /\ e \in S2 \cup {brk} /\ e # p
  BY <1>1, <1>3, BaseFacts, WordSizes DEF Without
<1>7. SameBlock(m, m2, brk)
  BY <1>5 DEF SameBlock, SizeAt, EndOf, AllocAt, GET_SIZE, GET_ALLOC, HDRP, W
<1>8. Blocks(m2, brk, S2)
  <2> HIDE DEF m2, S2
  <2> QED BY <1>1, <1>2, <1>4, <1>5, <1>6 DEF Blocks
<1> HIDE DEF m2, S2, e
<1>9. \A b \in S2 \cup {brk} : b # p => SameBlock(m, m2, b)
  BY <1>2, <1>7
<1> QED BY <1>2, <1>6, <1>8, <1>9 DEF m2, S2, e

\* m2 has the allocated blocks of m, and what was in any block is still there.
SameAllocated(m, S, m2, S2) ==
  /\ Allocated(m2, S2) = Allocated(m, S)
  /\ \A b \in Allocated(m, S) : SameBlock(m, m2, b)
  /\ KeepsPayloads(m, m2, S)

\* A free block around bp that has no free neighbours.
Merges(m, brk, S, bp, m2, S2, p) ==
  /\ Blocks(m2, brk, S2) /\ Apart(m2, S2, {}) /\ SameAllocated(m, S, m2, S2)
  /\ p \in S2 /\ AllocAt(m2, p) = 0 /\ SizeAt(m, bp) <= SizeAt(m2, p)

LEMMA MergeFree ==
  ASSUME NEW m, NEW brk, NEW S, Blocks(m, brk, S), NEW bp \in S, Apart(m, S, {bp}),
         NEW p \in S, NEW q \in S, p # Base, p <= bp, bp <= q,
         \A s \in S : p <= s /\ s <= q => AllocAt(m, s) = 0,
         \A a \in S : EndOf(m, a) = p => AllocAt(m, a) = 1,
         AllocAt(m, EndOf(m, q)) = 1
  PROVE  \E S2 : Merges(m, brk, S, bp,
                        Tagged(m, p, EndOf(m, q), PACK(EndOf(m, q) - p, 0)), S2, p)
<1> DEFINE e  == EndOf(m, q)
           m2 == Tagged(m, p, e, PACK(e - p, 0))
           S2 == Without(S, p, e)
<1>1. /\ m \in Memories /\ Tiles(m, Base, brk, S)
      /\ \A b \in S : b \in Int /\ EndOf(m, b) \in Int /\ b < EndOf(m, b)
                      /\ EndOf(m, b) \in S \cup {brk} /\ b # brk
                      /\ EndOf(m, b) = b + SizeAt(m, b) /\ SizeAt(m, b) \in Int
                      /\ AllocAt(m, b) \in {0, 1}
      /\ \A b, c \in S : b < c => EndOf(m, b) <= c
      /\ brk \in Int /\ AllocAt(m, brk) = 1
  <2>1. \A b, c \in S : b < c => EndOf(m, b) <= c
    BY BlocksFacts DEF Tiles
  <2> QED BY <2>1, BlocksFacts, BlockFacts
<1>2. p <= q /\ p < e /\ q < e /\ bp < e /\ p \in Int /\ q \in Int /\ bp \in Int /\ e \in Int
  BY <1>1
<1>3. /\ Blocks(m2, brk, S2) /\ p \in S2 /\ e \in S2 \cup {brk} /\ e # p
      /\ EndOf(m2, p) = e /\ SizeAt(m2, p) = e - p /\ AllocAt(m2, p) = 0
      /\ \A b \in S2 \cup {brk} : b # p => SameBlock(m, m2, b)
      /\ KeepsPayloads(m, m2, S)
  BY <1>2, JoinBlocks
<1> HIDE DEF m2
<1>4. Allocated(m2, S2) = Allocated(m, S)
  <2>1. ASSUME NEW b \in Allocated(m2, S2) PROVE b \in Allocated(m, S)
    BY <1>3 DEF Allocated, SameBlock, Without
  <2>2. ASSUME NEW b \in Allocated(m, S) PROVE b \in Allocated(m2, S2)
    <3>1. b \in S /\ AllocAt(m, b) = 1 /\ ~(p <= b /\ b <= q) /\ b # p
      BY <1>2 DEF Allocated
    <3>2. b < p \/ e <= b
      <4>1. q < b => e <= b
        BY <1>1, <3>1
      <4> QED BY <1>1, <1>2, <3>1, <4>1
    <3>3. b \in S2
      BY <1>1, <1>2, <3>1, <3>2 DEF Without
    <3> QED BY <1>3, <3>1, <3>3 DEF Allocated, SameBlock
  <2> QED BY <2>1, <2>2
<1>5. \A b \in Allocated(m, S) : SameBlock(m, m2, b)
  BY <1>3, <1>4 DEF Allocated
<1>6. ASSUME NEW b \in S2, AllocAt(m2, b) = 0 PROVE AllocAt(m2, EndOf(m2, b)) = 1
  <2>1. CASE b = p
    <3>1. AllocAt(m2, e) = AllocAt(m, e)
      BY <1>3 DEF SameBlock
    <3> QED BY <1>3, <2>1, <3>1
  <2>2. CASE b # p
    <3>1. b \in S /\ EndOf(m2, b) = EndOf(m, b) /\ AllocAt(m, b) = 0 /\ (b < p \/ e <= b)
      BY <1>1, <1>2, <1>3, <1>6, <2>2 DEF SameBlock, Without
    <3>2. b # bp
      BY <1>1, <1>2, <2>2, <3>1
    <3>3. EndOf(m, b) # p
      BY <3>1
    <3>4. EndOf(m, b) # bp
      <4>1. b < p => EndOf(m, b) < p
        BY <1>1, <1>2, <3>1, <3>3
      <4> QED BY <1>1, <1>2, <3>1, <4>1
    <3>5. AllocAt(m, EndOf(m, b)) = 1
      BY <3>1, <3>2, <3>4 DEF Apart
    <3>6. EndOf(m, b) \in S2 \cup {brk}
      <4>1. EndOf(m2, b) \in S2 \cup {brk}
        BY <1>3, BlocksFacts
      <4> QED BY <3>1, <4>1
    <3> QED BY <1>3, <3>1, <3>3, <3>5, <3>6 DEF SameBlock
  <2> QED BY <2>1, <2>2
<1>7. Apart(m2, S2, {})
  BY <1>6 DEF Apart
<1>8. SizeAt(m, bp) <= e - p
  <2>1. EndOf(m, bp) <= e
    <3>1. bp < q => EndOf(m, bp) <= q
      BY <1>1
    <3> QED BY <1>1, <1>2, <3>1
  <2> QED BY <1>1, <1>2, <2>1
<1> HIDE DEF S2
<1>9. Merges(m, brk, S, bp, m2, S2, p)
  BY <1>3, <1>4, <1>5, <1>7, <1>8 DEF Merges, SameAllocated
<1> QED BY <1>9 DEF m2

-----------------------------------------------------------------------------
(* The routines on blocks.                                                 *)

LEMMA Footers ==
  ASSUME NEW m, NEW brk, NEW S, Blocks(m, brk, S), NEW b \in S
  PROVE  /\ NEXT_BLKP(m, b) = EndOf(m, b) /\ FTRP(m, b) = EndOf(m, b) - D
         /\ GET_SIZE(m, FTRP(m, b)) = SizeAt(m, b) /\ GET_ALLOC(m, FTRP(m, b)) = AllocAt(m, b)
<1>1. /\ m \in Memories /\ Tiles(m, Base, brk, S)
  BY BlocksFacts
<1>2. b \in Int /\ SizeAt(m, b) \in Int /\ EndOf(m, b) = b + SizeAt(m, b)
  BY <1>1, BlockFacts
<1>3. NEXT_BLKP(m, b) = EndOf(m, b)
  BY DEF NEXT_BLKP, EndOf, SizeAt, HDRP
<1>4. FTRP(m, b) = EndOf(m, b) - D
  <2>1. FTRP(m, b) = b + (SizeAt(m, b) - D)
    BY DEF FTRP, SizeAt, D
  <2> QED BY <1>2, <2>1, WordSizes
<1>5. m[EndOf(m, b) - D] = m[b - W]
  BY <1>1 DEF Tiles
<1> QED BY <1>3, <1>4, <1>5 DEF SizeAt, AllocAt, GET_SIZE, GET_ALLOC, HDRP, W

LEMMA Previous ==
  ASSUME NEW m, NEW brk, NEW S, Blocks(m, brk, S), NEW bp \in S, bp # Base
  PROVE  /\ PREV_BLKP(m, bp) \in S /\ EndOf(m, PREV_BLKP(m, bp)) = bp
         /\ \A a \in S : EndOf(m, a) = bp => a = PREV_BLKP(m, bp)
<1>1. m \in Memories /\ Tiles(m, Base, brk, S)
  BY BlocksFacts
<1>2. ASSUME NEW a \in S, EndOf(m, a) = bp PROVE a = PREV_BLKP(m, bp)
  <2>1. a \in Int /\ bp \in Int /\ SizeAt(m, a) \in Int /\ bp = a + SizeAt(m, a)
    BY <1>1, <1>2, BlockFacts
  <2>2. m[bp - D] = m[a - W]
    BY <1>1, <1>2 DEF Tiles
  <2>3. GET_SIZE(m, bp - D) = SizeAt(m, a)
    BY <2>2 DEF SizeAt, GET_SIZE, HDRP, W
  <2>4. PREV_BLKP(m, bp) = bp - SizeAt(m, a)
    BY <2>3 DEF PREV_BLKP, D
  <2> QED BY <2>1, <2>4
<1>3. PICK a \in S : EndOf(m, a) = bp
  BY <1>1 DEF Tiles
<1>4. a = PREV_BLKP(m, bp)
  BY <1>2, <1>3
<1> QED BY <1>2, <1>3, <1>4

LEMMA CoalesceMerges ==
  ASSUME NEW m, NEW brk, NEW S, Blocks(m, brk, S), NEW bp \in S, AllocAt(m, bp) = 0,
         Apart(m, S, {bp})
  PROVE  \E S2 : Merges(m, brk, S, bp, coalesce(m, bp).mem, S2, coalesce(m, bp).ptr)
<1> DEFINE prev == PREV_BLKP(m, bp)
           next == NEXT_BLKP(m, bp)
           size == SizeAt(m, bp)
<1>1. /\ m \in Memories /\ Tiles(m, Base, brk, S) /\ AllocAt(m, Base) = 1 /\ AllocAt(m, brk) = 1
      /\ \A b \in S : /\ b \in Int /\ EndOf(m, b) \in Int /\ b < EndOf(m, b)
                      /\ EndOf(m, b) \in S \cup {brk}
                      /\ EndOf(m, b) = b + SizeAt(m, b) /\ SizeAt(m, b) \in Nat
                      /\ SizeAt(m, b) \in Mults /\ AllocAt(m, b) \in {0, 1} /\ b - W \in Cells
      /\ \A b, c \in S : b < c => EndOf(m, b) <= c
  <2>1. \A b, c \in S : b < c => EndOf(m, b) <= c
    BY BlocksFacts DEF Tiles
  <2> QED BY <2>1, BlocksFacts, BlockFacts
<1>2. bp # Base
  BY <1>1
<1>3. prev \in S /\ EndOf(m, prev) = bp /\ \A a \in S : EndOf(m, a) = bp => a = prev
  BY <1>2, Previous
<1>4. next = EndOf(m, bp) /\ next \in S \cup {brk}
  BY <1>1, Footers
<1>5. /\ GET_ALLOC(m, FTRP(m, prev)) = AllocAt(m, prev)
      /\ GET_ALLOC(m, HDRP(next)) = AllocAt(m, next)
      /\ GET_SIZE(m, HDRP(bp)) = size /\ GET_SIZE(m, HDRP(prev)) = SizeAt(m, prev)
      /\ GET_SIZE(m, HDRP(next)) = SizeAt(m, next)
      /\ FTRP(m, bp) = next - D
  <2>1. GET_ALLOC(m, FTRP(m, prev)) = AllocAt(m, prev) /\ FTRP(m, bp) = EndOf(m, bp) - D
    BY <1>3, Footers
  <2> QED BY <1>4, <2>1 DEF AllocAt, SizeAt
<1>6. next \in S => FTRP(m, next) = EndOf(m, next) - D /\ GET_SIZE(m, FTRP(m, next)) = SizeAt(m, next)
  BY Footers
<1>7. AllocAt(m, prev) \in {0, 1} /\ AllocAt(m, next) \in {0, 1}
  BY <1>1, <1>3, <1>4
<1> HIDE DEF prev, next, size
<1>8. prev < bp /\ bp < next /\ prev \in Int /\ bp \in Int /\ next \in Int
  BY <1>1, <1>3, <1>4
<1>9. AllocAt(m, next) = 0 => next \in S /\ AllocAt(m, EndOf(m, next)) = 1
  <2>1. SUFFICES ASSUME AllocAt(m, next) = 0
                 PROVE  next \in S /\ AllocAt(m, EndOf(m, next)) = 1
    OBVIOUS
  <2>2. next \in S
    BY <1>1, <1>4, <2>1
  <2>3. next \notin {bp} /\ EndOf(m, next) \notin {bp}
    BY <1>1, <1>8, <2>2
  <2> QED BY <2>1, <2>2, <2>3 DEF Apart
<1>10. AllocAt(m, prev) = 0 => /\ prev # Base
                               /\ \A a \in S : EndOf(m, a) = prev => AllocAt(m, a) = 1
  <2>1. SUFFICES ASSUME AllocAt(m, prev) = 0, NEW a \in S, EndOf(m, a) = prev
                 PROVE  AllocAt(m, a) = 1
    BY <1>1
  <2>2. a \notin {bp} /\ EndOf(m, a) \notin {bp}
    BY <1>1, <1>8, <2>1
  <2> QED BY <1>1, <2>1, <2>2 DEF Apart
<1>11. \A s \in S : /\ bp <= s /\ s <= next => s = bp \/ s = next
                    /\ prev <= s /\ s <= bp => s = prev \/ s = bp
  BY <1>1, <1>3, <1>4, <1>8
<1>12. ASSUME AllocAt(m, prev) = 1, AllocAt(m, next) = 1
       PROVE  \E S2 : Merges(m, brk, S, bp, coalesce(m, bp).mem, S2, coalesce(m, bp).ptr)
  <2>1. coalesce(m, bp) = [mem |-> m, ptr |-> bp]
    BY <1>5, <1>12 DEF coalesce, prev, next
  <2>2. Apart(m, S, {})
    <3>1. SUFFICES ASSUME NEW b \in S, AllocAt(m, b) = 0 PROVE AllocAt(m, EndOf(m, b)) = 1
      BY DEF Apart
    <3>2. CASE b = bp
      BY <1>4, <1>12, <3>2
    <3>3. CASE EndOf(m, b) = bp
      BY <1>3, <1>12, <3>1, <3>3
    <3>4. CASE b # bp /\ EndOf(m, b) # bp
      BY <3>1, <3>4 DEF Apart
    <3> QED BY <3>2, <3>3, <3>4
  <2>3. SameAllocated(m, S, m, S)
    BY DEF SameAllocated, SameBlock, KeepsPayloads
  <2>4. Merges(m, brk, S, bp, m, S, bp)
    BY <1>1, <2>2, <2>3 DEF Merges
  <2> QED BY <2>1, <2>4
<1>13. ASSUME AllocAt(m, prev) = 1, AllocAt(m, next) = 0
       PROVE  \E S2 : Merges(m, brk, S, bp, coalesce(m, bp).mem, S2, coalesce(m, bp).ptr)
  <2> DEFINE e == EndOf(m, next)
  <2>1. coalesce(m, bp) = [mem |-> PutBoth(m, bp, size + SizeAt(m, next), 0), ptr |-> bp]
    BY <1>5, <1>13 DEF coalesce, prev, next
  <2>2. size + SizeAt(m, next) = e - bp /\ bp + (size + SizeAt(m, next)) = e
        /\ size + SizeAt(m, next) \in Mults /\ size + SizeAt(m, next) \in Nat
    BY <1>1, <1>4, <1>9, <1>13, MultsClosed DEF size
  <2>3. coalesce(m, bp) = [mem |-> Tagged(m, bp, e, PACK(e - bp, 0)), ptr |-> bp]
    <3>1. PutBoth(m, bp, size + SizeAt(m, next), 0)
            = Tagged(m, bp, bp + (size + SizeAt(m, next)), PACK(size + SizeAt(m, next), 0))
      BY <1>1, <2>2, PutBothIs
    <3> QED BY <2>1, <2>2, <3>1
  <2>4. \E S2 : Merges(m, brk, S, bp, Tagged(m, bp, e, PACK(e - bp, 0)), S2, bp)
    <3>1. bp <= bp /\ bp <= next
      BY <1>8
    <3>2. \A s \in S : bp <= s /\ s <= next => AllocAt(m, s) = 0
      BY <1>11, <1>13
    <3>3. \A a \in S : EndOf(m, a) = bp => AllocAt(m, a) = 1
      BY <1>3, <1>13
    <3> QED BY <1>2, <1>9, <1>13, <3>1, <3>2, <3>3, MergeFree
  <2> QED BY <2>3, <2>4
<1>14. ASSUME AllocAt(m, prev) = 0, AllocAt(m, next) = 1
       PROVE  \E S2 : Merges(m, brk, S, bp, coalesce(m, bp).mem, S2, coalesce(m, bp).ptr)
  <2>1. coalesce(m, bp) = Joined(m, prev, next - D, size + SizeAt(m, prev))
    BY <1>5, <1>14 DEF coalesce, prev, next
  <2>2. size + SizeAt(m, prev) = next - prev
    BY <1>1, <1>3, <1>4, <1>8 DEF size
  <2>3. coalesce(m, bp) = [mem |-> Tagged(m, prev, next, PACK(next - prev, 0)), ptr |-> prev]
    BY <2>1, <2>2, JoinedIs
  <2>4. \E S2 : Merges(m, brk, S, bp, Tagged(m, prev, next, PACK(next - prev, 0)), S2, prev)
    <3>1. prev <= bp /\ bp <= bp
      BY <1>8
    <3>2. \A s \in S : prev <= s /\ s <= bp => AllocAt(m, s) = 0
      BY <1>11, <1>14
    <3> QED BY <1>3, <1>4, <1>10, <1>14, <3>1, <3>2, MergeFree
  <2> QED BY <2>3, <2>4
<1>15. ASSUME AllocAt(m, prev) = 0, AllocAt(m, next) = 0
       PROVE  \E S2 : Merges(m, brk, S, bp, coalesce(m, bp).mem, S2, coalesce(m, bp).ptr)
  <2> DEFINE e == EndOf(m, next)
  <2>1. coalesce(m, bp) = Joined(m, prev, e - D, (size + SizeAt(m, prev)) + SizeAt(m, next))
    BY <1>5, <1>6, <1>9, <1>15 DEF coalesce, prev, next
  <2>2. (size + SizeAt(m, prev)) + SizeAt(m, next) = e - prev
    BY <1>1, <1>3, <1>4, <1>8, <1>9, <1>15 DEF size
  <2>3. coalesce(m, bp) = [mem |-> Tagged(m, prev, e, PACK(e - prev, 0)), ptr |-> prev]
    BY <2>1, <2>2, JoinedIs
  <2>4. \E S2 : Merges(m, brk, S, bp, Tagged(m, prev, e, PACK(e - prev, 0)), S2, prev)
    <3>1. prev <= bp /\ bp <= next
      BY <1>8
    <3>2. \A s \in S : prev <= s /\ s <= next => AllocAt(m, s) = 0
      BY <1>1, <1>8, <1>11, <1>15
    <3> QED BY <1>3, <1>9, <1>10, <1>15, <3>1, <3>2, MergeFree
  <2> QED BY <2>3, <2>4
<1> QED BY <1>7, <1>12, <1>13, <1>14, <1>15

\* New tags with the old size.
LEMMA Retag ==
  ASSUME NEW m, NEW brk, NEW S, Blocks(m, brk, S), NEW b \in S, b # Base, NEW alloc \in {0, 1}
  PROVE  LET m2 == PutBoth(m, b, SizeAt(m, b), alloc)
         IN  /\ Blocks(m2, brk, S)
             /\ SizeAt(m2, b) = SizeAt(m, b) /\ EndOf(m2, b) = EndOf(m, b)
             /\ AllocAt(m2, b) = alloc
             /\ \A x \in S \cup {brk} : x # b => SameBlock(m, m2, x)
             /\ KeepsPayloads(m, m2, S)
<1> DEFINE e == EndOf(m, b)
           m2 == PutBoth(m, b, SizeAt(m, b), alloc)
<1>1. /\ m \in Memories /\ Tiles(m, Base, brk, S)
      /\ b \in Int /\ b - W \in Cells /\ SizeAt(m, b) \in Nat /\ SizeAt(m, b) \in Mults
      /\ e \in Int /\ e = b + SizeAt(m, b) /\ b < e
  BY BlocksFacts, BlockFacts
<1>2. m2 = Tagged(m, b, e, PACK(e - b, alloc)) /\ e - b = SizeAt(m, b)
  <2>1. m2 = Tagged(m, b, b + SizeAt(m, b), PACK(SizeAt(m, b), alloc))
    BY <1>1, PutBothIs
  <2>2. e - b = SizeAt(m, b)
    BY <1>1
  <2> QED BY <1>1, <2>1, <2>2
<1>3. Without(S, b, e) = S
  <2>1. \A s \in S : s <= b \/ e <= s
    <3>1. \A s \in S : s \in Int
      BY BlocksFacts
    <3>2. \A s \in S : b < s => e <= s
      BY <1>1, EndsBefore
    <3> QED BY <1>1, <3>1, <3>2
  <2> QED BY <2>1 DEF Without
<1> HIDE DEF m2
<1>4. b <= b
  BY <1>1
<1>5. /\ Blocks(m2, brk, Without(S, b, e))
      /\ EndOf(m2, b) = e /\ SizeAt(m2, b) = e - b /\ AllocAt(m2, b) = alloc
      /\ \A x \in Without(S, b, e) \cup {brk} : x # b => SameBlock(m, m2, x)
      /\ KeepsPayloads(m, m2, S)
  BY <1>2, <1>4, JoinBlocks
<1> QED BY <1>2, <1>3, <1>5 DEF m2

LEMMA KeepsTwice ==
  ASSUME NEW m, NEW m2, NEW m3, NEW S, NEW T, T \subseteq S,
         \A b \in T : EndOf(m2, b) = EndOf(m, b),
         KeepsPayloads(m, m2, S), KeepsPayloads(m2, m3, T)
  PROVE  KeepsPayloads(m, m3, T)
BY DEF KeepsPayloads, Inside

\* A block that was allocated is freed.
LEMMA FreeBlock ==
  ASSUME NEW m, NEW brk, NEW S, Blocks(m, brk, S), Apart(m, S, {}),
         NEW b \in Allocated(m, S), b # Base
  PROVE  LET m2 == coalesce(PutBoth(m, b, SizeAt(m, b), 0), b).mem
         IN  \E S2 : /\ Blocks(m2, brk, S2) /\ Apart(m2, S2, {})
                     /\ Allocated(m2, S2) = Allocated(m, S) \ {b}
                     /\ \A x \in Allocated(m, S) \ {b} : SameBlock(m, m2, x)
                     /\ KeepsPayloads(m, m2, S)
<1> DEFINE m1 == PutBoth(m, b, SizeAt(m, b), 0)
           m2 == coalesce(m1, b).mem
<1>1. b \in S /\ AllocAt(m, b) = 1 /\ brk \notin S
  BY BlocksFacts DEF Allocated
<1>2. /\ Blocks(m1, brk, S) /\ EndOf(m1, b) = EndOf(m, b) /\ AllocAt(m1, b) = 0
      /\ \A x \in S \cup {brk} : x # b => SameBlock(m, m1, x)
      /\ KeepsPayloads(m, m1, S)
  BY <1>1, Retag
<1> HIDE DEF m1
<1>3. Apart(m1, S, {b})
  <2>1. SUFFICES ASSUME NEW x \in S, x # b, EndOf(m1, x) # b, AllocAt(m1, x) = 0
                 PROVE  AllocAt(m1, EndOf(m1, x)) = 1
    BY DEF Apart
  <2>2. EndOf(m1, x) = EndOf(m, x) /\ AllocAt(m, x) = 0
    BY <1>2, <2>1 DEF SameBlock
  <2>3. AllocAt(m, EndOf(m, x)) = 1
    BY <2>2 DEF Apart
  <2>4. EndOf(m, x) \in S \cup {brk}
    BY BlocksFacts
  <2> QED BY <1>2, <2>1, <2>2, <2>3, <2>4 DEF SameBlock
<1>4. PICK S2 : Merges(m1, brk, S, b, m2, S2, coalesce(m1, b).ptr)
  BY <1>1, <1>2, <1>3, CoalesceMerges
<1> HIDE DEF m2
<1>5. /\ Blocks(m2, brk, S2) /\ Apart(m2, S2, {})
      /\ Allocated(m2, S2) = Allocated(m1, S)
      /\ \A x \in Allocated(m1, S) : SameBlock(m1, m2, x)
      /\ KeepsPayloads(m1, m2, S)
  BY <1>4 DEF Merges, SameAllocated
<1>6. Allocated(m1, S) = Allocated(m, S) \ {b}
  BY <1>1, <1>2 DEF Allocated, SameBlock
<1>7. \A x \in Allocated(m, S) \ {b} : SameBlock(m, m2, x)
  BY <1>2, <1>5, <1>6 DEF SameBlock, Allocated
<1>8. KeepsPayloads(m, m2, S)
  <2>1. \A x \in S : EndOf(m1, x) = EndOf(m, x)
    BY <1>2 DEF SameBlock
  <2> QED BY <1>2, <1>5, <2>1, KeepsTwice
<1> QED BY <1>5, <1>6, <1>7, <1>8 DEF m2, m1

\* A free block becomes an allocated one, and a free one of what is left over.
Places(m, brk, S, bp, asize, m2, S2) ==
  /\ Blocks(m2, brk, S2) /\ Apart(m2, S2, {}) /\ bp \in S2
  /\ Allocated(m2, S2) = Allocated(m, S) \cup {bp} /\ asize <= SizeAt(m2, bp)
  /\ \A b \in Allocated(m, S) : SameBlock(m, m2, b)
  /\ KeepsPayloads(m, m2, S \ {bp})

LEMMA PlaceWhole ==
  ASSUME NEW m, NEW brk, NEW S, Blocks(m, brk, S), Apart(m, S, {}),
         NEW bp \in S, AllocAt(m, bp) = 0, NEW asize, asize <= SizeAt(m, bp)
  PROVE  Places(m, brk, S, bp, asize, PutBoth(m, bp, SizeAt(m, bp), 1), S)
<1> DEFINE m2 == PutBoth(m, bp, SizeAt(m, bp), 1)
<1>1. bp # Base
  BY BlocksFacts
<1>2. /\ Blocks(m2, brk, S) /\ EndOf(m2, bp) = EndOf(m, bp) /\ AllocAt(m2, bp) = 1
      /\ SizeAt(m2, bp) = SizeAt(m, bp)
      /\ \A x \in S \cup {brk} : x # bp => SameBlock(m, m2, x)
      /\ KeepsPayloads(m, m2, S)
  BY <1>1, Retag
<1> HIDE DEF m2
<1>3. Allocated(m2, S) = Allocated(m, S) \cup {bp}
  BY <1>2 DEF Allocated, SameBlock
<1>4. Apart(m2, S, {})
  <2>1. SUFFICES ASSUME NEW x \in S, AllocAt(m2, x) = 0
                 PROVE  AllocAt(m2, EndOf(m2, x)) = 1
    BY DEF Apart
  <2>2. x # bp
    BY <1>2, <2>1
  <2>3. EndOf(m2, x) = EndOf(m, x) /\ AllocAt(m, x) = 0
    BY <1>2, <2>1, <2>2 DEF SameBlock
  <2>4. AllocAt(m, EndOf(m, x)) = 1 /\ EndOf(m, x) \in S \cup {brk}
    BY <2>3, BlocksFacts DEF Apart
  <2> QED BY <1>2, <2>3, <2>4 DEF SameBlock
<1>5. \A b \in Allocated(m, S) : SameBlock(m, m2, b)
  BY <1>2 DEF Allocated
<1>6. KeepsPayloads(m, m2, S \ {bp})
  BY <1>2 DEF KeepsPayloads
<1>7. Places(m, brk, S, bp, asize, m2, S)
  BY <1>2, <1>3, <1>4, <1>5, <1>6 DEF Places
<1> QED BY <1>7 DEF m2

\* A free block is split.
LEMMA PlaceSplit ==
  ASSUME NEW m, NEW brk, NEW S, Blocks(m, brk, S), Apart(m, S, {}),
         NEW bp \in S, AllocAt(m, bp) = 0,
         NEW asize \in Mults, D <= asize, asize + D <= SizeAt(m, bp)
  PROVE  LET m1 == PutBoth(m, bp, asize, 1)
             m2 == PutBoth(m1, NEXT_BLKP(m1, bp), SizeAt(m, bp) - asize, 0)
         IN  \E S2 : Places(m, brk, S, bp, asize, m2, S2)
<1> DEFINE e  == EndOf(m, bp)
           x  == bp + asize
           m1 == PutBoth(m, bp, asize, 1)
           m2 == PutBoth(m1, NEXT_BLKP(m1, bp), SizeAt(m, bp) - asize, 0)
<1>1. /\ m \in Memories /\ Tiles(m, Base, brk, S) /\ Base \in S /\ brk \in Int /\ brk - W \in Cells
      /\ m[Base - W] = PACK(D, 1) /\ m[brk - W] = PACK(0, 1) /\ AllocAt(m, brk) = 1
      /\ \A b \in S : b \in Int /\ EndOf(m, b) \in Int /\ b < EndOf(m, b)
                      /\ EndOf(m, b) \in S \cup {brk} /\ b # brk
      /\ \A b, c \in S : b < c => EndOf(m, b) <= c
      /\ Room(Base, brk)
  <2>1. \A b, c \in S : b < c => EndOf(m, b) <= c
    BY BlocksFacts DEF Tiles
  <2>2. \A b \in S : EndOf(m, b) \in Int /\ b < EndOf(m, b)
    BY BlocksFacts, BlockFacts
  <2> QED BY <2>1, <2>2, BlocksFacts DEF Blocks, Tiles
<1>2. /\ bp \in Int /\ bp \in Mults /\ bp - W \in Cells /\ Base <= bp
      /\ e \in Int /\ e \in Mults /\ e = bp + SizeAt(m, bp) /\ e - D \in Cells /\ e <= brk
      /\ SizeAt(m, bp) \in Mults /\ SizeAt(m, bp) \in Nat /\ e \in S \cup {brk}
  BY <1>1, BlockFacts
<1>3. asize \in Nat /\ asize \in Int /\ W \in Nat /\ D \in Nat /\ D = 2 * W /\ W >= 1
      /\ W \in Mults /\ D \in Mults
  BY MultsClosed, WordSizes
<1>4. bp # Base /\ Base + D <= bp
  BY BlocksFacts
<1>5. /\ x \in Int /\ x \in Mults /\ e - x \in Mults /\ e - x \in Nat /\ e - x = SizeAt(m, bp) - asize
      /\ bp + D <= x /\ x + D <= e /\ Base \in Int
  <2>1. x \in Mults /\ x \in Int
    BY <1>2, <1>3, MultsClosed
  <2>2. e - x \in Mults
    BY <1>2, <2>1, MultsClosed
  <2>3. Base \in Int /\ x = bp + asize
    BY BaseFacts
  <2> HIDE DEF x, e
  <2>4. e - x = SizeAt(m, bp) - asize
    BY <1>2, <1>3, <2>1, <2>3
  <2>5. bp + D <= x /\ x + D <= e /\ e - x \in Nat
    BY <1>2, <1>3, <2>1, <2>3
  <2> QED BY <2>1, <2>2, <2>3, <2>4, <2>5
<1>6. Room(bp, x) /\ Room(x, e) /\ Room(bp, e)
  <2>1. ALIGNMENT + W <= Base /\ brk <= mem_max_addr /\ ALIGNMENT \in Nat /\ mem_max_addr \in Nat
    BY <1>1, RoomFacts, WordSizes
  <2> HIDE DEF x, e
  <2>2. ALIGNMENT + W <= bp /\ ALIGNMENT + W <= x /\ e <= mem_max_addr /\ x <= mem_max_addr
        /\ bp <= x /\ x <= e /\ bp <= e
    BY <1>1, <1>2, <1>3, <1>5, <2>1
  <2> QED BY <1>2, <1>5, <2>2 DEF Room
<1>7. x - W \in Cells /\ x - D \in Cells
  <2>1. x - W \in Cells
    BY <1>1, <1>2, <1>3, <1>5, RoomFacts
  <2>2. x - D \in Mults /\ D \in Nat /\ D >= 1 /\ ALIGNMENT \in Nat
    BY <1>5, MultsClosed, WordSizes
  <2>3. ALIGNMENT + W <= bp /\ x <= mem_max_addr /\ W \in Nat /\ bp \in Int /\ mem_max_addr \in Nat
    BY <1>2, <1>6, WordSizes DEF Room
  <2> HIDE DEF x, e
  <2>4. ALIGNMENT <= x - D /\ x - D < mem_max_addr
    BY <1>5, <2>2, <2>3
  <2> QED BY <2>1, <2>2, <2>4, CellsAre
<1> HIDE DEF x, e
<1>8. PACK(asize, 1) \in Nat /\ PACK(e - x, 0) \in Nat
  BY <1>3, <1>5, PackNat
<1>9. m1 = Tagged(m, bp, x, PACK(asize, 1))
  BY <1>1, <1>2, <1>3, PutBothIs DEF x
<1>10. /\ m1 \in Memories /\ m1[bp - W] = PACK(asize, 1) /\ m1[x - D] = PACK(asize, 1)
       /\ \A c \in Cells : c # bp - W /\ c # x - D => m1[c] = m[c]
  BY <1>1, <1>2, <1>7, <1>8, <1>9, TaggedFacts
<1>11. NEXT_BLKP(m1, bp) = x
  <2>1. SizeAt(m1, bp) = asize
    BY <1>10, TagAt
  <2> QED BY <2>1 DEF NEXT_BLKP, SizeAt, HDRP, x
<1> HIDE DEF m1
<1>12. m2 = Tagged(m1, x, e, PACK(e - x, 0))
  <2>1. m2 = PutBoth(m1, x, e - x, 0)
    BY <1>5, <1>11
  <2>2. x + (e - x) = e
    BY <1>2, <1>5
  <2> QED BY <1>5, <1>7, <1>10, <2>1, <2>2, PutBothIs
<1> HIDE DEF m2
<1>13. /\ m2 \in Memories /\ m2[x - W] = PACK(e - x, 0) /\ m2[e - D] = PACK(e - x, 0)
       /\ \A c \in Cells : c # x - W /\ c # e - D => m2[c] = m1[c]
  BY <1>2, <1>7, <1>8, <1>10, <1>12, TaggedFacts
<1>14. /\ m2[bp - W] = PACK(x - bp, 1) /\ m2[x - D] = PACK(x - bp, 1)
  <2>1. x - bp = asize
    BY <1>2, <1>3 DEF x
  <2>2. bp - W # x - W /\ bp - W # e - D /\ x - D # x - W /\ x - D # e - D
    BY <1>2, <1>3, <1>5
  <2> QED BY <1>2, <1>7, <1>10, <1>13, <2>1, <2>2
<1>15. \A c \in Cells : c < bp - W \/ e - W <= c => m2[c] = m[c]
  <2>1. \A c \in Cells : c \in Int
    BY CellsAre, MultsClosed
  <2> QED BY <1>2, <1>3, <1>5, <1>10, <1>13, <2>1
<1>16. Tiles(m2, bp, x, {bp}) /\ SizeAt(m2, bp) = x - bp /\ AllocAt(m2, bp) = 1 /\ EndOf(m2, bp) = x
  <2>1. bp + D <= x /\ 1 \in {0, 1} /\ m2 \in Memories /\ Room(bp, x)
    BY <1>5, <1>6, <1>13
  <2> QED BY <1>14, <2>1, Single
<1>17. Tiles(m2, x, e, {x}) /\ AllocAt(m2, x) = 0 /\ EndOf(m2, x) = e
  BY <1>5, <1>6, <1>13, Single
<1>18. Tiles(m2, bp, e, {bp} \cup {x})
  BY <1>13, <1>16, <1>17, Concat
<1> DEFINE T  == {bp} \cup {x}
           S2 == (Before(S, bp) \cup T) \cup After(S, e)
<1>19. /\ Tiles(m2, Base, brk, S2)
       /\ \A b \in S : b < bp \/ e <= b => SameBlock(m, m2, b)
  <2>1. bp \in S \cup {brk} /\ e \in S \cup {brk} /\ bp <= e
    BY <1>2, <1>3, <1>5
  <2>2. m \in Memories /\ m2 \in Memories /\ Tiles(m, Base, brk, S) /\ Tiles(m2, bp, e, T)
    BY <1>1, <1>13, <1>18
  <2> HIDE DEF T
  <2>3. Tiles(m2, Base, brk, (Before(S, bp) \cup T) \cup After(S, e))
    BY <1>15, <2>1, <2>2, Replace
  <2>4. \A b \in S : b < bp \/ e <= b => SameBlock(m, m2, b)
    BY <1>2, <1>15, <2>2, Undisturbed
  <2> QED BY <2>3, <2>4
<1>20. SameBlock(m, m2, brk)
  <2>1. m2[brk - W] = m[brk - W]
    BY <1>1, <1>2, <1>3, <1>15
  <2> QED BY <2>1 DEF SameBlock, SizeAt, EndOf, AllocAt, GET_SIZE, GET_ALLOC, HDRP, W
<1>21. \A b \in S2 \cup {brk} : b = bp \/ b = x \/ ((b \in S \cup {brk}) /\ SameBlock(m, m2, b))
  <2>1. \A b \in S2 : b = bp \/ b = x \/ (b \in S /\ (b < bp \/ e <= b))
    BY DEF Before, After
  <2> QED BY <1>19, <1>20, <2>1
<1>22. \A b \in S : b # bp => b \in S2 /\ b # x /\ SameBlock(m, m2, b)
  <2>1. SUFFICES ASSUME NEW b \in S, b # bp PROVE b \in S2 /\ b # x /\ SameBlock(m, m2, b)
    OBVIOUS
  <2>2. b \in Int /\ (b < bp \/ e <= b)
    <3>1. bp < b => e <= b
      BY <1>1 DEF e
    <3> QED BY <1>1, <1>2, <2>1, <3>1
  <2>3. b # x
    BY <1>2, <1>3, <1>5, <2>2
  <2>4. b \in S2
    BY <2>1, <2>2 DEF Before, After
  <2> QED BY <1>19, <2>1, <2>2, <2>3, <2>4
<1>23. bp \in S2 /\ x \in S2
  OBVIOUS
<1> HIDE DEF S2
<1>24. Blocks(m2, brk, S2)
  <2>1. m2[Base - W] = m[Base - W] /\ m2[brk - W] = m[brk - W]
    <3>1. Base - W \in Cells
      BY <1>1, BlockFacts
    <3>2. Base - W < bp - W /\ e - W <= brk - W
      BY <1>1, <1>2, <1>3, <1>4, <1>5
    <3> QED BY <1>1, <1>15, <3>1, <3>2
  <2>2. Base \in S2
    BY <1>1, <1>4, <1>22
  <2> QED BY <1>1, <1>13, <1>19, <2>1, <2>2 DEF Blocks
<1>25. Allocated(m2, S2) = Allocated(m, S) \cup {bp}
  <2>1. ASSUME NEW b \in Allocated(m2, S2) PROVE b \in Allocated(m, S) \cup {bp}
    <3>1. b \in S2 /\ AllocAt(m2, b) = 1 /\ b # brk
      BY <1>24, BlocksFacts DEF Allocated
    <3> QED BY <1>17, <1>21, <3>1 DEF Allocated, SameBlock
  <2>2. ASSUME NEW b \in Allocated(m, S) PROVE b \in Allocated(m2, S2)
    <3>1. b \in S /\ AllocAt(m, b) = 1 /\ b # bp
      BY DEF Allocated
    <3> QED BY <1>22, <3>1 DEF Allocated, SameBlock
  <2>3. bp \in Allocated(m2, S2)
    BY <1>16, <1>23 DEF Allocated
  <2> QED BY <2>1, <2>2, <2>3
<1>26. Apart(m2, S2, {})
  <2>1. SUFFICES ASSUME NEW b \in S2, AllocAt(m2, b) = 0
                 PROVE  AllocAt(m2, EndOf(m2, b)) = 1
    BY DEF Apart
  <2>2. \A b2 \in S \cup {brk} : b2 # bp => AllocAt(m2, b2) = AllocAt(m, b2)
    BY <1>20, <1>22 DEF SameBlock
  <2>3. CASE b = x
    <3>1. AllocAt(m, e) = 1
      BY DEF Apart, e
    <3>2. e # bp
      BY <1>2, <1>3, <1>5
    <3> QED BY <1>2, <1>17, <2>2, <2>3, <3>1, <3>2
  <2>4. CASE b # x
    <3>1. b # bp
      BY <1>16, <2>1
    <3>2. b \in S /\ SameBlock(m, m2, b)
      <4>1. b # brk
        BY <1>24, BlocksFacts
      <4> QED BY <1>21, <2>4, <3>1, <4>1
    <3>3. EndOf(m2, b) = EndOf(m, b) /\ AllocAt(m, b) = 0
      BY <2>1, <3>2 DEF SameBlock
    <3>4. AllocAt(m, EndOf(m, b)) = 1 /\ EndOf(m, b) \in S \cup {brk}
      BY <1>1, <3>2, <3>3 DEF Apart
    <3> QED BY <2>2, <3>3, <3>4
  <2> QED BY <2>3, <2>4
<1>27. \A b \in Allocated(m, S) : SameBlock(m, m2, b)
  BY <1>22 DEF Allocated
<1>28. KeepsPayloads(m, m2, S \ {bp})
  <2>1. SUFFICES ASSUME NEW b \in S, b # bp, NEW c \in Inside(m, b) PROVE m2[c] = m[c]
    BY DEF KeepsPayloads
  <2>2. c \in Cells /\ c \in Int /\ b <= c /\ c < EndOf(m, b) - D /\ b \in Int /\ EndOf(m, b) \in Int
    BY <1>1, CellsAre, MultsClosed DEF Inside
  <2>3. EndOf(m, b) <= bp \/ e <= b
    BY <1>1, <1>2, <2>1, <2>2 DEF e
  <2>4. c < bp - W \/ e - W <= c
    BY <1>2, <1>3, <2>2, <2>3
  <2> QED BY <1>15, <2>2, <2>4
<1>29. asize <= SizeAt(m2, bp)
  BY <1>2, <1>3, <1>16 DEF x
<1>30. Places(m, brk, S, bp, asize, m2, S2)
  BY <1>23, <1>24, <1>25, <1>26, <1>27, <1>28, <1>29 DEF Places
<1> QED BY <1>30 DEF m1, m2

LEMMA PlaceBlock ==
  ASSUME NEW m, NEW brk, NEW S, Blocks(m, brk, S), Apart(m, S, {}),
         NEW bp \in S, AllocAt(m, bp) = 0,
         NEW asize \in Mults, D <= asize, asize <= SizeAt(m, bp)
  PROVE  \E S2 : Places(m, brk, S, bp, asize, place(m, bp, asize), S2)
<1>1. SizeAt(m, bp) \in Nat /\ asize \in Int /\ D \in Nat
  BY BlocksFacts, BlockFacts, MultsClosed, WordSizes
<1>2. GET_SIZE(m, HDRP(bp)) = SizeAt(m, bp)
  BY DEF SizeAt
<1>3. CASE SizeAt(m, bp) - asize >= D
  <2>1. asize + D <= SizeAt(m, bp)
    BY <1>1, <1>3
  <2> DEFINE m1 == PutBoth(m, bp, asize, 1)
             m2 == PutBoth(m1, NEXT_BLKP(m1, bp), SizeAt(m, bp) - asize, 0)
  <2>2. place(m, bp, asize) = m2
    BY <1>2, <1>3 DEF place, D
  <2>3. \E S2 : Places(m, brk, S, bp, asize, m2, S2)
    BY <2>1, PlaceSplit
  <2> HIDE DEF m2
  <2> QED BY <2>2, <2>3
<1>4. CASE ~(SizeAt(m, bp) - asize >= D)
  <2>1. place(m, bp, asize) = PutBoth(m, bp, SizeAt(m, bp), 1)
    BY <1>2, <1>4 DEF place, D
  <2> QED BY <2>1, PlaceWhole
<1> QED BY <1>3, <1>4

\* A free block between the old break and the new one.
LEMMA NewBlocks ==
  ASSUME NEW m, NEW brk, NEW S, Blocks(m, brk, S),
         NEW size \in Mults, D <= size, brk + size <= mem_max_addr
  PROVE  LET m2 == NewBlock(m, brk, size)
         IN  /\ Blocks(m2, brk + size, S \cup {brk}) /\ EndOf(m2, brk) = brk + size
             /\ AllocAt(m2, brk) = 0 /\ SizeAt(m2, brk) = size
             /\ \A b \in S : SameBlock(m, m2, b)
             /\ KeepsPayloads(m, m2, S)
<1> DEFINE e  == brk + size
           m1 == PutBoth(m, brk, size, 0)
           m2 == NewBlock(m, brk, size)
<1>1. /\ m \in Memories /\ Tiles(m, Base, brk, S) /\ Base \in S
      /\ m[Base - W] = PACK(D, 1) /\ brk \in Int /\ brk \in Mults /\ brk - W \in Cells
      /\ Base + D <= brk /\ Room(Base, brk) /\ Base \in Int
  <2>1. m[Base - W] = PACK(D, 1) /\ Room(Base, brk)
    BY DEF Blocks, Tiles
  <2> QED BY <2>1, BlocksFacts, BaseFacts
<1>2. size \in Int /\ size \in Nat /\ W \in Nat /\ D \in Nat /\ D = 2 * W /\ W >= 1
      /\ ALIGNMENT \in Nat /\ mem_max_addr \in Nat /\ W \in Mults /\ D \in Mults
      /\ ALIGNMENT <= W /\ ALIGNMENT >= 1
  BY MultsClosed, WordSizes
<1>3. e \in Mults /\ e \in Int
  BY <1>1, <1>2, MultsClosed
<1>4. e = brk + size
  OBVIOUS
<1> HIDE DEF e
<1>5. e - brk = size /\ brk + D <= e /\ e <= mem_max_addr /\ brk <= e /\ ALIGNMENT + W <= brk
      /\ ALIGNMENT + W <= e
  <2>1. ALIGNMENT + W <= Base
    BY <1>1, RoomFacts
  <2> QED BY <1>1, <1>2, <1>3, <1>4, <2>1
<1>6. Room(brk, e)
  BY <1>1, <1>3, <1>5 DEF Room
<1>7. e - W \in Cells /\ e - D \in Cells
  <2>1. e - W \in Cells
    BY <1>3, <1>5, <1>6, RoomFacts
  <2>2. e - D \in Mults
    BY <1>2, <1>3, MultsClosed
  <2>3. ALIGNMENT <= e - D /\ e - D < mem_max_addr
    BY <1>1, <1>2, <1>3, <1>5
  <2> QED BY <2>1, <2>2, <2>3, CellsAre
<1>8. PACK(size, 0) \in Nat /\ PACK(0, 1) \in Nat
  BY <1>2, PackNat
<1>9. m1 = Tagged(m, brk, e, PACK(size, 0))
  BY <1>1, <1>2, <1>4, PutBothIs
<1>10. m2 = PUT(m1, e - W, PACK(0, 1))
  BY <1>4 DEF NewBlock, HDRP, W
<1> HIDE DEF m1
<1>11. /\ m1 \in Memories /\ m1[brk - W] = PACK(size, 0) /\ m1[e - D] = PACK(size, 0)
       /\ \A c \in Cells : c # brk - W /\ c # e - D => m1[c] = m[c]
  BY <1>1, <1>7, <1>8, <1>9, TaggedFacts
<1> HIDE DEF m2
<1>12. /\ m2 \in Memories /\ m2[e - W] = PACK(0, 1)
       /\ \A c \in Cells : c # e - W => m2[c] = m1[c]
  <2> DEFINE q == e - W
             v == PACK(0, 1)
  <2>1. q \in Cells /\ v \in Nat /\ m1 \in Memories /\ m2 = PUT(m1, q, v)
    BY <1>7, <1>8, <1>10, <1>11
  <2> HIDE DEF q, v
  <2>2. m2 \in Memories /\ m2[q] = v /\ \A c \in Cells : c # q => m2[c] = m1[c]
    BY <2>1, PutFacts
  <2> QED BY <2>2 DEF q, v
<1>13. m2[brk - W] = PACK(e - brk, 0) /\ m2[e - D] = PACK(e - brk, 0)
  BY <1>1, <1>2, <1>3, <1>5, <1>7, <1>11, <1>12
<1>14. \A c \in Cells : c < brk - W => m2[c] = m[c]
  <2>1. \A c \in Cells : c \in Int
    BY CellsAre, MultsClosed
  <2> QED BY <1>1, <1>2, <1>3, <1>5, <1>11, <1>12, <2>1
<1>15. \A b \in S : /\ b \in Int /\ EndOf(m, b) \in Int /\ EndOf(m, b) <= brk /\ b < brk
                    /\ b - W \in Cells /\ EndOf(m, b) - D \in Cells
  BY <1>1, BlockFacts
<1>16. \A b \in S : m2[b - W] = m[b - W] /\ m2[EndOf(m, b) - D] = m[EndOf(m, b) - D]
  <2>1. \A b \in S : b - W < brk - W /\ EndOf(m, b) - D < brk - W
    BY <1>1, <1>2, <1>15
  <2> QED BY <1>14, <1>15, <2>1
<1>17. /\ Tiles(m2, Base, brk, S)
       /\ \A b \in S : SameBlock(m, m2, b)
  <2>1. /\ Tiles(m2, Base, brk, S)
        /\ \A b \in S : /\ SizeAt(m2, b) = SizeAt(m, b) /\ EndOf(m2, b) = EndOf(m, b)
                        /\ AllocAt(m2, b) = AllocAt(m, b)
    <3>1. m \in Memories /\ m2 \in Memories /\ Tiles(m, Base, brk, S)
      BY <1>1, <1>12
    <3> QED BY <1>16, <3>1, Frame
  <2> QED BY <2>1 DEF SameBlock
<1>18. Tiles(m2, brk, e, {brk}) /\ SizeAt(m2, brk) = e - brk /\ AllocAt(m2, brk) = 0
       /\ EndOf(m2, brk) = e
  BY <1>5, <1>6, <1>12, <1>13, Single
<1>19. Tiles(m2, Base, e, S \cup {brk})
  BY <1>12, <1>17, <1>18, Concat
<1>20. m2[Base - W] = PACK(D, 1)
  BY <1>1, <1>16
<1>21. Blocks(m2, e, S \cup {brk})
  BY <1>1, <1>12, <1>19, <1>20 DEF Blocks
<1>22. KeepsPayloads(m, m2, S)
  <2>1. SUFFICES ASSUME NEW b \in S, NEW c \in Inside(m, b) PROVE m2[c] = m[c]
    BY DEF KeepsPayloads
  <2>2. c \in Cells /\ c \in Int /\ c < EndOf(m, b) - D
    BY CellsAre, MultsClosed DEF Inside
  <2>3. c < brk - W
    BY <1>1, <1>2, <1>15, <2>2
  <2> QED BY <1>14, <2>2, <2>3
<1> QED BY <1>4, <1>5, <1>17, <1>18, <1>21, <1>22 DEF m2

\* ... and it is merged with the last block when that is free.
LEMMA ExtendBlocks ==
  ASSUME NEW m, NEW brk, NEW S, Blocks(m, brk, S), Apart(m, S, {}),
         NEW size \in Mults, D <= size, brk + size <= mem_max_addr
  PROVE  LET c == coalesce(NewBlock(m, brk, size), brk)
         IN  \E S2 : /\ Blocks(c.mem, brk + size, S2) /\ Apart(c.mem, S2, {})
                     /\ SameAllocated(m, S, c.mem, S2)
                     /\ c.ptr \in S2 /\ AllocAt(c.mem, c.ptr) = 0 /\ size <= SizeAt(c.mem, c.ptr)
<1> DEFINE m1 == NewBlock(m, brk, size)
           c  == coalesce(m1, brk)
           e  == brk + size
           S1 == S \cup {brk}
<1>1. /\ Blocks(m1, e, S1) /\ EndOf(m1, brk) = e
      /\ AllocAt(m1, brk) = 0 /\ SizeAt(m1, brk) = size
      /\ \A b \in S : SameBlock(m, m1, b)
      /\ KeepsPayloads(m, m1, S)
  BY NewBlocks
<1>2. /\ \A b \in S : EndOf(m, b) \in S \cup {brk} /\ b # brk
  BY BlocksFacts
<1> HIDE DEF m1
<1>3. Apart(m1, S1, {brk})
  <2>1. SUFFICES ASSUME NEW b \in S1, b # brk, EndOf(m1, b) # brk, AllocAt(m1, b) = 0
                 PROVE  AllocAt(m1, EndOf(m1, b)) = 1
    BY DEF Apart
  <2>2. b \in S /\ EndOf(m1, b) = EndOf(m, b) /\ AllocAt(m, b) = 0
    BY <1>1, <2>1 DEF SameBlock
  <2>3. AllocAt(m, EndOf(m, b)) = 1 /\ EndOf(m, b) \in S
    BY <1>2, <2>1, <2>2 DEF Apart
  <2> QED BY <1>1, <2>2, <2>3 DEF SameBlock
<1>4. brk \in S1
  OBVIOUS
<1>5. Allocated(m1, S1) = Allocated(m, S)
  BY <1>1 DEF Allocated, SameBlock
<1> HIDE DEF S1
<1>6. PICK S2 : Merges(m1, e, S1, brk, c.mem, S2, c.ptr)
  BY <1>1, <1>3, <1>4, CoalesceMerges
<1> HIDE DEF c
<1>7. /\ Blocks(c.mem, e, S2) /\ Apart(c.mem, S2, {})
      /\ c.ptr \in S2 /\ AllocAt(c.mem, c.ptr) = 0 /\ size <= SizeAt(c.mem, c.ptr)
      /\ Allocated(c.mem, S2) = Allocated(m, S)
      /\ \A b \in Allocated(m, S) : SameBlock(m1, c.mem, b)
      /\ KeepsPayloads(m1, c.mem, S1)
  BY <1>1, <1>5, <1>6 DEF Merges, SameAllocated
<1>8. \A b \in Allocated(m, S) : SameBlock(m, c.mem, b)
  BY <1>1, <1>7 DEF SameBlock, Allocated
<1>9. KeepsPayloads(m, c.mem, S)
  <2>1. KeepsPayloads(m1, c.mem, S)
    BY <1>7 DEF KeepsPayloads, S1
  <2>2. \A b \in S : EndOf(m1, b) = EndOf(m, b)
    BY <1>1 DEF SameBlock
  <2> QED BY <1>1, <2>1, <2>2, KeepsTwice
<1>10. SameAllocated(m, S, c.mem, S2)
  BY <1>7, <1>8, <1>9 DEF SameAllocated
<1> QED BY <1>7, <1>10 DEF c, m1

-----------------------------------------------------------------------------
(* The chain and the search.                                               *)

LEMMA ChainIs ==
  ASSUME NEW h, NEW S, Blocks(h.mem, h.brk, S), h.heap_listp = Base
  PROVE  Chain(h) = S \cup {h.brk}
<1> DEFINE m == h.mem
           brk == h.brk
           All == S \cup {brk}
           Up(b) == {s \in All : b <= s}
<1>1. PICK From :
        /\ \A bp \in BlockAddrs :
             From[bp] = IF NEXT_BLKP(m, bp) > bp /\ NEXT_BLKP(m, bp) \in BlockAddrs
                        THEN {bp} \cup From[NEXT_BLKP(m, bp)] ELSE {bp}
        /\ Chain(h) = From[Base]
  BY ChainWalk
<1> HIDE DEF m, brk
<1>2. Blocks(m, brk, S)
  BY DEF m, brk
<1>3. /\ m \in Memories /\ Tiles(m, Base, brk, S) /\ Base \in S /\ SizeAt(m, brk) = 0
      /\ brk \in Mults /\ brk \in Int /\ brk <= mem_max_addr /\ Base + D <= brk
      /\ \A b \in S : EndOf(m, b) \in S \cup {brk}
      /\ \A b, c \in S : b < c => EndOf(m, b) <= c
  BY <1>2, BlocksFacts DEF Tiles
<1>4. \A b \in S : /\ b \in Mults /\ b \in Int /\ Base <= b /\ b < brk /\ EndOf(m, b) \in Int
                   /\ b < EndOf(m, b)
  BY <1>3, BlockFacts
<1>5. Base \in Int /\ ALIGNMENT <= Base /\ ALIGNMENT \in Nat /\ mem_max_addr \in Nat
  BY BaseFacts, WordSizes
<1>6. \A b \in All : b \in BlockAddrs /\ b \in Int /\ b <= brk
  <2>1. \A b \in All : b \in Mults /\ b \in Int /\ ALIGNMENT <= b /\ b <= mem_max_addr /\ b <= brk
    BY <1>3, <1>4, <1>5, WordSizes
  <2> QED BY <2>1, CellsAre
<1>7. From[brk] = Up(brk)
  <2>1. NEXT_BLKP(m, brk) = brk
    <3>1. NEXT_BLKP(m, brk) = brk + SizeAt(m, brk)
      BY DEF NEXT_BLKP, SizeAt, HDRP
    <3> QED BY <1>3, <3>1
  <2>2. From[brk] = {brk}
    <3>1. ~(NEXT_BLKP(m, brk) > brk)
      BY <1>3, <2>1
    <3> QED BY <1>1, <1>6, <3>1
  <2>3. Up(brk) = {brk}
    BY <1>3, <1>4
  <2> QED BY <2>2, <2>3
<1>8. ASSUME NEW b \in S, From[EndOf(m, b)] = Up(EndOf(m, b)) PROVE From[b] = Up(b)
  <2>1. NEXT_BLKP(m, b) = EndOf(m, b) /\ EndOf(m, b) > b /\ EndOf(m, b) \in BlockAddrs
    BY <1>2, <1>3, <1>4, <1>6, Footers
  <2>2. From[b] = {b} \cup From[EndOf(m, b)]
    BY <1>1, <1>6, <2>1
  <2>3. Up(b) = {b} \cup Up(EndOf(m, b))
    <3>1. ASSUME NEW s \in All PROVE b <= s <=> s = b \/ EndOf(m, b) <= s
      <4>1. s \in Int /\ b \in Int /\ EndOf(m, b) \in Int /\ b < EndOf(m, b)
        BY <1>4, <1>6
      <4>2. b < s => EndOf(m, b) <= s
        <5>1. CASE s \in S
          BY <1>3, <5>1
        <5>2. CASE s = brk
          BY <1>3, <1>6, <5>2
        <5> QED BY <5>1, <5>2
      <4> QED BY <4>1, <4>2
    <3>2. b \in All
      OBVIOUS
    <3> HIDE DEF All
    <3> QED BY <3>1, <3>2
  <2> QED BY <1>8, <2>2, <2>3
<1>9. \A b \in All : From[b] = Up(b)
  <2> HIDE DEF Up
  <2> DEFINE Bad == {n \in Nat : \E b \in All : brk - b = n /\ From[b] # Up(b)}
  <2>1. SUFFICES ASSUME Bad # {} PROVE FALSE
    <3>1. \A b \in All : brk - b \in Nat
      BY <1>3, <1>6
    <3> QED BY <3>1
  <2>2. PICK n \in Bad : \A k \in Bad : n <= k
    <3>1. Bad \in SUBSET Nat
      OBVIOUS
    <3> HIDE DEF Bad
    <3> QED BY <2>1, <3>1, LeastNat
  <2>3. PICK b \in All : n \in Nat /\ brk - b = n /\ From[b] # Up(b)
    BY <2>2
  <2>4. b \in S /\ EndOf(m, b) \in All /\ From[EndOf(m, b)] # Up(EndOf(m, b))
    BY <1>3, <1>7, <1>8, <2>3
  <2>5. brk - EndOf(m, b) \in Nat /\ ~(n <= brk - EndOf(m, b))
    BY <1>3, <1>4, <1>6, <2>3, <2>4
  <2>6. brk - EndOf(m, b) \in Bad
    BY <2>4, <2>5
  <2> QED BY <2>2, <2>5, <2>6
<1>10. Base \in All /\ Up(Base) = All
  <2>1. \A b \in All : Base <= b
    <3>1. Base <= brk
      BY <1>3, <1>5, WordSizes
    <3> QED BY <1>4, <3>1
  <2> QED BY <1>3, <2>1
<1> HIDE DEF Up, All
<1>11. Chain(h) = All
  BY <1>1, <1>9, <1>10
<1> QED BY <1>11 DEF All, brk

LEMMA Fit ==
  ASSUME NEW h, NEW S, Blocks(h.mem, h.brk, S), h.heap_listp = Base, NEW asize
  PROVE  \/ find_fit(h, asize) = NULL
         \/ /\ find_fit(h, asize) \in S
            /\ AllocAt(h.mem, find_fit(h, asize)) = 0
            /\ asize <= SizeAt(h.mem, find_fit(h, asize))
<1> DEFINE fits == {bp \in Chain(h) : /\ GET_SIZE(h.mem, HDRP(bp)) > 0
                                      /\ GET_ALLOC(h.mem, HDRP(bp)) = 0
                                      /\ asize <= GET_SIZE(h.mem, HDRP(bp))}
           fit == CHOOSE bp \in fits : \A q \in fits : bp <= q
<1>1. find_fit(h, asize) = IF fits = {} THEN NULL ELSE fit
  BY DEF find_fit
<1>2. \A bp \in fits : bp \in S /\ AllocAt(h.mem, bp) = 0 /\ asize <= SizeAt(h.mem, bp)
  <2>1. SizeAt(h.mem, h.brk) = 0
    BY BlocksFacts
  <2>2. \A bp \in fits : bp \in S \cup {h.brk} /\ SizeAt(h.mem, bp) > 0
                         /\ AllocAt(h.mem, bp) = 0 /\ asize <= SizeAt(h.mem, bp)
    BY ChainIs DEF SizeAt, AllocAt
  <2> HIDE DEF fits
  <2> QED BY <2>1, <2>2
<1>3. fits # {} => \E bp \in fits : \A q \in fits : bp <= q
  <2>1. \A b \in S : b \in Nat
    <3>1. \A b \in S : b \in Int /\ b >= Base
      BY BlocksFacts, BlockFacts
    <3> QED BY <3>1, BaseFacts, WordSizes
  <2>2. fits \in SUBSET Nat
    BY <1>2, <2>1
  <2> HIDE DEF fits
  <2> QED BY <2>2, LeastNat
<1>4. fits # {} => fit \in fits
  <2> HIDE DEF fits
  <2> QED BY <1>3
<1> HIDE DEF fit, fits
<1> QED BY <1>1, <1>2, <1>4

-----------------------------------------------------------------------------
(* The routines on heaps.                                                  *)

Heaps == [mem : Memories, brk : Int, heap_listp : Int]

HeapOK(h, S) ==
  /\ h \in Heaps /\ h.heap_listp = Base
  /\ Blocks(h.mem, h.brk, S) /\ Apart(h.mem, S, {})

\* r is a heap with a free block for size.
Offers(h, S, r, size) ==
  \E S2 : /\ HeapOK(r.heap, S2) /\ SameAllocated(h.mem, S, r.heap.mem, S2)
          /\ r.ptr \in S2 /\ AllocAt(r.heap.mem, r.ptr) = 0 /\ size <= SizeAt(r.heap.mem, r.ptr)

LEMMA PtrNotNull ==
  ASSUME NEW m, NEW brk, NEW S, Blocks(m, brk, S), NEW b \in S
  PROVE  b \in Cells /\ b \in Int /\ b # NULL /\ b # FAILED /\ brk # FAILED /\ brk # NULL
<1>1. b \in Cells /\ b \in Int /\ b >= Base /\ brk \in Int /\ Base + D <= brk
  BY BlocksFacts, BlockFacts
<1>2. Base > 0 /\ Base \in Int /\ D \in Nat
  BY BaseFacts, WordSizes
<1> QED BY <1>1, <1>2 DEF NULL, FAILED

LEMMA Extends ==
  ASSUME NEW h, NEW S, h \in Heaps, h.heap_listp = Base, Blocks(h.mem, h.brk, S),
         Apart(h.mem, S, {}), NEW words \in Nat, D <= ALIGN(words)
  PROVE  LET r == extend_heap(h, words)
         IN  /\ \/ r = [heap |-> h, ptr |-> NULL]
                \/ r.ptr # NULL /\ Offers(h, S, r, ALIGN(words))
             /\ h.brk + ALIGN(words) <= mem_max_addr => r.ptr # NULL
<1> DEFINE size == ALIGN(words)
           c == coalesce(NewBlock(h.mem, h.brk, size), h.brk)
           r == extend_heap(h, words)
<1>1. size \in Mults /\ size \in Int /\ D <= size /\ size >= 0 /\ h.brk \in Int
  <2>1. size \in Mults /\ size \in Int
    BY AlignUp, MultsClosed
  <2> QED BY <2>1, BlocksFacts, WordSizes
<1> HIDE DEF size
<1>2. Base \in S /\ h.brk # FAILED
  BY BlocksFacts, PtrNotNull
<1>3. ASSUME h.brk + size <= mem_max_addr
      PROVE  r.ptr # NULL /\ Offers(h, S, r, size)
  <2>1. mem_sbrk(h, size) = [heap |-> [h EXCEPT !.brk = h.brk + size], ptr |-> h.brk]
    BY <1>1, <1>3 DEF mem_sbrk, CanGrow
  <2> DEFINE h1 == [h EXCEPT !.brk = h.brk + size]
             h2 == [h1 EXCEPT !.mem = c.mem]
  <2>2. r = [heap |-> h2, ptr |-> c.ptr]
    BY <1>2, <2>1 DEF extend_heap, Coalesced, size
  <2>3. PICK S2 : /\ Blocks(c.mem, h.brk + size, S2) /\ Apart(c.mem, S2, {})
                  /\ SameAllocated(h.mem, S, c.mem, S2)
                  /\ c.ptr \in S2 /\ AllocAt(c.mem, c.ptr) = 0 /\ size <= SizeAt(c.mem, c.ptr)
    BY <1>1, <1>3, ExtendBlocks
  <2> HIDE DEF c
  <2>4. c.mem \in Memories /\ c.ptr # NULL
    BY <2>3, BlocksFacts, PtrNotNull
  <2>5. h2 \in Heaps /\ h2.mem = c.mem /\ h2.brk = h.brk + size /\ h2.heap_listp = Base
    <3>1. h1 \in Heaps /\ h1.brk = h.brk + size /\ h1.heap_listp = Base
      BY <1>1 DEF Heaps
    <3> HIDE DEF h1
    <3> QED BY <2>4, <3>1 DEF Heaps
  <2>6. HeapOK(h2, S2)
    BY <2>3, <2>5 DEF HeapOK
  <2> HIDE DEF r, h2
  <2>7. r.heap = h2 /\ r.ptr = c.ptr
    BY <2>2
  <2> QED BY <2>3, <2>4, <2>5, <2>6, <2>7 DEF Offers
<1>4. ASSUME ~(h.brk + size <= mem_max_addr)
      PROVE  r = [heap |-> h, ptr |-> NULL]
  <2>1. mem_sbrk(h, size) = [heap |-> h, ptr |-> FAILED]
    BY <1>4 DEF mem_sbrk, CanGrow
  <2> QED BY <2>1 DEF extend_heap, size
<1> QED BY <1>3, <1>4 DEF size, r

\* r is what malloc returns when it finds room for size.
Gets(h, S, r, size) ==
  \E S2 : /\ HeapOK(r.heap, S2) /\ r.ptr \in S2 /\ r.ptr \notin Allocated(h.mem, S)
          /\ Allocated(r.heap.mem, S2) = Allocated(h.mem, S) \cup {r.ptr}
          /\ size <= SizeAt(r.heap.mem, r.ptr)
          /\ \A b \in Allocated(h.mem, S) : SameBlock(h.mem, r.heap.mem, b)
          /\ KeepsPayloads(h.mem, r.heap.mem, Allocated(h.mem, S))

LEMMA GetsLess ==
  ASSUME NEW h, NEW S, NEW r, NEW size \in Int, NEW less \in Int, less <= size,
         Gets(h, S, r, size)
  PROVE  Gets(h, S, r, less)
<1>1. PICK S2 :
        /\ HeapOK(r.heap, S2) /\ r.ptr \in S2 /\ r.ptr \notin Allocated(h.mem, S)
        /\ Allocated(r.heap.mem, S2) = Allocated(h.mem, S) \cup {r.ptr}
        /\ size <= SizeAt(r.heap.mem, r.ptr)
        /\ \A b \in Allocated(h.mem, S) : SameBlock(h.mem, r.heap.mem, b)
        /\ KeepsPayloads(h.mem, r.heap.mem, Allocated(h.mem, S))
  BY DEF Gets
<1>2. SizeAt(r.heap.mem, r.ptr) \in Nat
  BY <1>1, BlocksFacts, BlockFacts DEF HeapOK
<1>3. less <= SizeAt(r.heap.mem, r.ptr)
  BY <1>1, <1>2
<1> QED BY <1>1, <1>3 DEF Gets

LEMMA PlacedGets ==
  ASSUME NEW h, NEW S, NEW h1, NEW p, p # NULL, NEW asize \in Mults, D <= asize,
         Offers(h, S, [heap |-> h1, ptr |-> p], asize)
  PROVE  LET r == Placed([heap |-> h1, ptr |-> p], asize)
         IN  r.ptr # NULL /\ Gets(h, S, r, asize) /\ r = [heap |-> r.heap, ptr |-> r.ptr]
<1> DEFINE m2 == place(h1.mem, p, asize)
           h2 == [h1 EXCEPT !.mem = m2]
           r  == Placed([heap |-> h1, ptr |-> p], asize)
<1>1. r = [heap |-> h2, ptr |-> p]
  BY DEF Placed
<1>2. PICK S1 : /\ HeapOK(h1, S1) /\ SameAllocated(h.mem, S, h1.mem, S1)
                /\ p \in S1 /\ AllocAt(h1.mem, p) = 0 /\ asize <= SizeAt(h1.mem, p)
  BY DEF Offers
<1>3. h1 \in Heaps /\ h1.heap_listp = Base /\ Blocks(h1.mem, h1.brk, S1) /\ Apart(h1.mem, S1, {})
  BY <1>2 DEF HeapOK
<1>4. PICK S2 : Places(h1.mem, h1.brk, S1, p, asize, m2, S2)
  BY <1>2, <1>3, PlaceBlock
<1> HIDE DEF m2
<1>5. /\ Blocks(m2, h1.brk, S2) /\ Apart(m2, S2, {}) /\ p \in S2
      /\ Allocated(m2, S2) = Allocated(h1.mem, S1) \cup {p} /\ asize <= SizeAt(m2, p)
      /\ \A b \in Allocated(h1.mem, S1) : SameBlock(h1.mem, m2, b)
      /\ KeepsPayloads(h1.mem, m2, S1 \ {p})
  BY <1>4 DEF Places
<1>6. h2 \in Heaps /\ h2.mem = m2 /\ h2.brk = h1.brk /\ h2.heap_listp = Base
  <2>1. m2 \in Memories
    BY <1>5, BlocksFacts
  <2> QED BY <1>3, <2>1 DEF Heaps
<1>7. HeapOK(h2, S2)
  BY <1>5, <1>6 DEF HeapOK
<1>8. /\ Allocated(h1.mem, S1) = Allocated(h.mem, S)
      /\ \A b \in Allocated(h.mem, S) : SameBlock(h.mem, h1.mem, b)
      /\ KeepsPayloads(h.mem, h1.mem, S)
  BY <1>2 DEF SameAllocated
<1>9. p \notin Allocated(h.mem, S)
  BY <1>2, <1>8 DEF Allocated
<1>10. \A b \in Allocated(h.mem, S) : SameBlock(h.mem, m2, b)
  BY <1>5, <1>8 DEF SameBlock
<1>11. KeepsPayloads(h.mem, m2, Allocated(h.mem, S))
  <2>1. Allocated(h.mem, S) \subseteq S1 \ {p} /\ Allocated(h.mem, S) \subseteq S
    BY <1>8, <1>9 DEF Allocated
  <2>2. KeepsPayloads(h1.mem, m2, Allocated(h.mem, S))
    BY <1>5, <2>1 DEF KeepsPayloads
  <2>3. \A b \in Allocated(h.mem, S) : EndOf(h1.mem, b) = EndOf(h.mem, b)
    BY <1>8 DEF SameBlock
  <2> QED BY <1>8, <2>1, <2>2, <2>3, KeepsTwice
<1> HIDE DEF h2, r
<1>12. r.heap = h2 /\ r.ptr = p
  BY <1>1
<1>13. Gets(h, S, r, asize)
  BY <1>5, <1>6, <1>7, <1>8, <1>9, <1>10, <1>11, <1>12 DEF Gets
<1> QED BY <1>1, <1>12, <1>13 DEF r

LEMMA Malloc ==
  ASSUME NEW h, NEW S, HeapOK(h, S), NEW n \in Nat
  PROVE  LET r == mm_malloc(h, n)
         IN  \/ r = [heap |-> h, ptr |-> NULL]
             \/ r.ptr # NULL /\ Gets(h, S, r, n + D) /\ r = [heap |-> r.heap, ptr |-> r.ptr]
<1> DEFINE asize == newsize(n)
           fit == find_fit(h, asize)
           r == MallocIn(h, asize)
<1>1. h \in Heaps /\ h.heap_listp = Base /\ Blocks(h.mem, h.brk, S) /\ Apart(h.mem, S, {})
  BY DEF HeapOK
<1>2. asize \in Mults /\ asize \in Int /\ D <= asize /\ n + D <= asize /\ asize \in Nat
  <2>1. n + D \in Nat /\ D \in Nat
    BY WordSizes
  <2>2. asize = ALIGN(n + D)
    BY DEF newsize, D
  <2>3. ALIGN(n + D) \in Mults /\ n + D <= ALIGN(n + D) /\ ALIGN(n + D) \in Int
    BY <2>1, AlignUp, MultsClosed
  <2> QED BY <2>1, <2>2, <2>3
<1>3. mm_malloc(h, n) = r
  <2>1. h.heap_listp # NULL
    BY <1>1, BaseFacts, WordSizes DEF NULL
  <2> QED BY <2>1 DEF mm_malloc, Initialised
<1> HIDE DEF asize
<1>4. ASSUME Gets(h, S, r, asize) PROVE Gets(h, S, r, n + D)
  <2>1. n + D \in Int
    BY WordSizes
  <2> HIDE DEF r
  <2> QED BY <1>2, <1>4, <2>1, GetsLess
<1>5. CASE fit # NULL
  <2>1. r = Placed([heap |-> h, ptr |-> fit], asize)
    BY <1>5 DEF MallocIn
  <2>2. fit \in S /\ AllocAt(h.mem, fit) = 0 /\ asize <= SizeAt(h.mem, fit)
    BY <1>1, <1>5, Fit
  <2> HIDE DEF fit, r
  <2>3. SameAllocated(h.mem, S, h.mem, S)
    BY DEF SameAllocated, SameBlock, KeepsPayloads
  <2>4. Offers(h, S, [heap |-> h, ptr |-> fit], asize)
    <3> DEFINE r0 == [heap |-> h, ptr |-> fit]
    <3>1. r0.heap = h /\ r0.ptr = fit
      OBVIOUS
    <3> HIDE DEF r0
    <3>2. Offers(h, S, r0, asize)
      BY <2>2, <2>3, <3>1 DEF Offers
    <3> QED BY <3>2 DEF r0
  <2>5. r.ptr # NULL /\ Gets(h, S, r, asize) /\ r = [heap |-> r.heap, ptr |-> r.ptr]
    BY <1>2, <1>5, <2>1, <2>4, PlacedGets
  <2> QED BY <1>3, <1>4, <2>5
<1>6. CASE fit = NULL
  <2> DEFINE words == MaxOf(asize, CHUNKSIZE)
             e == extend_heap(h, words)
  <2>1. r = Placed(e, asize)
    BY <1>6 DEF MallocIn
  <2>2. words \in Nat /\ asize <= words
    BY <1>2, MmAssumption DEF MaxOf
  <2>3. ALIGN(words) \in Mults /\ ALIGN(words) \in Int /\ asize <= ALIGN(words) /\ D <= ALIGN(words)
    <3>1. ALIGN(words) \in Mults /\ ALIGN(words) \in Int /\ words <= ALIGN(words)
      BY <2>2, AlignUp, MultsClosed
    <3> HIDE DEF words
    <3> QED BY <1>2, <2>2, <3>1, WordSizes
  <2> HIDE DEF words
  <2>4. \/ e = [heap |-> h, ptr |-> NULL]
        \/ e.ptr # NULL /\ Offers(h, S, e, ALIGN(words))
    BY <1>1, <2>2, <2>3, Extends
  <2>5. CASE e = [heap |-> h, ptr |-> NULL]
    <3>1. r = e
      <4> HIDE DEF e, r
      <4>1. e.ptr = NULL
        BY <2>5
      <4> QED BY <2>1, <4>1 DEF Placed
    <3> QED BY <1>3, <2>5, <3>1
  <2>6. CASE e.ptr # NULL /\ Offers(h, S, e, ALIGN(words))
    <3> DEFINE c == coalesce(NewBlock(h.mem, h.brk, ALIGN(words)), h.brk)
               h1 == [[h EXCEPT !.brk = h.brk + ALIGN(words)] EXCEPT !.mem = c.mem]
    <3>1. e = [heap |-> e.heap, ptr |-> e.ptr]
      BY DEF extend_heap, Coalesced
    <3> HIDE DEF e, r
    <3>2. Offers(h, S, e, asize)
      <4>1. PICK S2 : /\ HeapOK(e.heap, S2) /\ SameAllocated(h.mem, S, e.heap.mem, S2)
                      /\ e.ptr \in S2 /\ AllocAt(e.heap.mem, e.ptr) = 0
                      /\ ALIGN(words) <= SizeAt(e.heap.mem, e.ptr)
        BY <2>6 DEF Offers
      <4>2. SizeAt(e.heap.mem, e.ptr) \in Nat
        BY <4>1, BlocksFacts, BlockFacts DEF HeapOK
      <4>3. asize <= SizeAt(e.heap.mem, e.ptr)
        BY <1>2, <2>3, <4>1, <4>2
      <4> QED BY <4>1, <4>3 DEF Offers
    <3> DEFINE eh == e.heap
               ep == e.ptr
    <3>3. e = [heap |-> eh, ptr |-> ep] /\ ep # NULL
      BY <2>6, <3>1
    <3> HIDE DEF eh, ep
    <3>4. Offers(h, S, [heap |-> eh, ptr |-> ep], asize)
      BY <3>2, <3>3
    <3>5. LET q == Placed([heap |-> eh, ptr |-> ep], asize) 
          IN  q.ptr # NULL /\ Gets(h, S, q, asize) /\ q = [heap |-> q.heap, ptr |-> q.ptr]
      BY <1>2, <3>3, <3>4, PlacedGets
    <3>6. r.ptr # NULL /\ Gets(h, S, r, asize) /\ r = [heap |-> r.heap, ptr |-> r.ptr]
      BY <2>1, <3>3, <3>5
    <3> QED BY <1>3, <1>4, <3>6
  <2> QED BY <2>4, <2>5, <2>6
<1> QED BY <1>5, <1>6

LEMMA Frees ==
  ASSUME NEW h, NEW S, HeapOK(h, S), NEW b \in Allocated(h.mem, S), b # Base
  PROVE  LET h2 == mm_free(h, b)
         IN  \E S2 : /\ HeapOK(h2, S2) /\ Allocated(h2.mem, S2) = Allocated(h.mem, S) \ {b}
                     /\ \A x \in Allocated(h.mem, S) \ {b} : SameBlock(h.mem, h2.mem, x)
                     /\ KeepsPayloads(h.mem, h2.mem, S)
<1> DEFINE m2 == coalesce(PutBoth(h.mem, b, SizeAt(h.mem, b), 0), b).mem
           h2 == [h EXCEPT !.mem = m2]
<1>1. h \in Heaps /\ h.heap_listp = Base /\ Blocks(h.mem, h.brk, S) /\ Apart(h.mem, S, {})
  BY DEF HeapOK
<1>2. b # NULL
  BY <1>1, PtrNotNull DEF Allocated
<1>3. mm_free(h, b) = h2
  <2>1. h.heap_listp # NULL
    BY <1>1, BaseFacts, WordSizes DEF NULL
  <2> QED BY <1>2, <2>1 DEF mm_free, Initialised, FreeIn, SizeAt
<1>4. PICK S2 : /\ Blocks(m2, h.brk, S2) /\ Apart(m2, S2, {})
                /\ Allocated(m2, S2) = Allocated(h.mem, S) \ {b}
                /\ \A x \in Allocated(h.mem, S) \ {b} : SameBlock(h.mem, m2, x)
                /\ KeepsPayloads(h.mem, m2, S)
  BY <1>1, FreeBlock
<1> HIDE DEF m2
<1>5. h2 \in Heaps /\ h2.mem = m2 /\ h2.brk = h.brk /\ h2.heap_listp = Base
  <2>1. m2 \in Memories
    BY <1>4, BlocksFacts
  <2> QED BY <1>1, <2>1 DEF Heaps
<1> HIDE DEF h2
<1>6. HeapOK(h2, S2)
  BY <1>4, <1>5 DEF HeapOK
<1> QED BY <1>3, <1>4, <1>5, <1>6

\* A payload may be written.
LEMMA Written ==
  ASSUME NEW h, NEW S, HeapOK(h, S), NEW b \in S, NEW m2 \in Memories,
         \A c \in Cells : c \notin Inside(h.mem, b) => m2[c] = h.mem[c]
  PROVE  LET h2 == [h EXCEPT !.mem = m2]
         IN  /\ HeapOK(h2, S) /\ h2.mem = m2 /\ Allocated(m2, S) = Allocated(h.mem, S)
             /\ \A x \in S : SameBlock(h.mem, m2, x)
             /\ KeepsPayloads(h.mem, m2, S \ {b})
<1> DEFINE m == h.mem
           brk == h.brk
<1>1. h \in Heaps /\ h.heap_listp = Base /\ Blocks(m, brk, S) /\ Apart(m, S, {})
  BY DEF HeapOK
<1> HIDE DEF m, brk
<1>2. /\ m \in Memories /\ Tiles(m, Base, brk, S) /\ Base \in S /\ brk \in Int /\ brk - W \in Cells
      /\ m[Base - W] = PACK(D, 1) /\ m[brk - W] = PACK(0, 1)
      /\ \A x, y \in S : x < y => EndOf(m, x) <= y
      /\ \A x \in S : EndOf(m, x) \in S \cup {brk}
  <2>1. /\ m \in Memories /\ Tiles(m, Base, brk, S) /\ Base \in S
        /\ m[Base - W] = PACK(D, 1) /\ m[brk - W] = PACK(0, 1)
    BY <1>1 DEF Blocks
  <2>2. brk \in Int /\ brk - W \in Cells
    BY <1>1, BlocksFacts
  <2>3. /\ \A x, y \in S : x < y => EndOf(m, x) <= y
        /\ \A x \in S : EndOf(m, x) \in S \cup {brk}
    BY <2>1 DEF Tiles
  <2> QED BY <2>1, <2>2, <2>3
<1>3. \A x \in S : /\ x \in Int /\ EndOf(m, x) \in Int /\ x <= EndOf(m, x) - D
                   /\ x - W \in Cells /\ EndOf(m, x) - D \in Cells /\ EndOf(m, x) <= brk
  BY <1>2, BlockFacts
<1>4. W \in Nat /\ D \in Nat /\ D = 2 * W /\ W >= 1
  BY WordSizes
<1>5. Inside(m, b) = {c \in Cells : b <= c /\ c < EndOf(m, b) - D}
  BY DEF Inside
<1>6. \A c \in Cells : ~(b <= c /\ c < EndOf(m, b) - D) => m2[c] = m[c]
  BY <1>5 DEF m
<1>7. \A x \in S : m2[x - W] = m[x - W] /\ m2[EndOf(m, x) - D] = m[EndOf(m, x) - D]
  <2>1. SUFFICES ASSUME NEW x \in S
                 PROVE  m2[x - W] = m[x - W] /\ m2[EndOf(m, x) - D] = m[EndOf(m, x) - D]
    OBVIOUS
  <2>2. (x < b => EndOf(m, x) <= b) /\ (b < x => EndOf(m, b) <= x)
    BY <1>2
  <2>3. ~(b <= x - W /\ x - W < EndOf(m, b) - D)
    BY <1>3, <1>4, <2>2
  <2>4. ~(b <= EndOf(m, x) - D /\ EndOf(m, x) - D < EndOf(m, b) - D)
    BY <1>3, <1>4, <2>2
  <2> QED BY <1>3, <1>6, <2>3, <2>4
<1>8. /\ Tiles(m2, Base, brk, S)
      /\ \A x \in S : SameBlock(m, m2, x)
  <2>1. /\ Tiles(m2, Base, brk, S)
        /\ \A x \in S : /\ SizeAt(m2, x) = SizeAt(m, x) /\ EndOf(m2, x) = EndOf(m, x)
                        /\ AllocAt(m2, x) = AllocAt(m, x)
    BY <1>2, <1>7, Frame
  <2> QED BY <2>1 DEF SameBlock
<1>9. m2[brk - W] = m[brk - W]
  <2>1. ~(brk - W < EndOf(m, b) - D)
    BY <1>2, <1>3, <1>4
  <2> QED BY <1>2, <1>6, <2>1
<1>10. Blocks(m2, brk, S)
  BY <1>2, <1>7, <1>8, <1>9 DEF Blocks
<1>11. Apart(m2, S, {})
  <2>1. AllocAt(m2, brk) = AllocAt(m, brk)
    BY <1>9 DEF AllocAt, GET_ALLOC, HDRP, W
  <2> QED BY <1>1, <1>2, <1>8, <2>1 DEF Apart, SameBlock
<1>12. Allocated(m2, S) = Allocated(m, S)
  BY <1>8 DEF Allocated, SameBlock
<1>13. KeepsPayloads(m, m2, S \ {b})
  <2>1. SUFFICES ASSUME NEW x \in S, x # b, NEW c \in Inside(m, x) PROVE m2[c] = m[c]
    BY DEF KeepsPayloads
  <2>2. c \in Cells /\ c \in Int /\ x <= c /\ c < EndOf(m, x) - D
    BY CellsAre, MultsClosed DEF Inside
  <2>3. (x < b => EndOf(m, x) <= b) /\ (b < x => EndOf(m, b) <= x)
    BY <1>2
  <2>4. ~(b <= c /\ c < EndOf(m, b) - D)
    BY <1>3, <1>4, <2>1, <2>2, <2>3
  <2> QED BY <1>6, <2>2, <2>4
<1> DEFINE h2 == [h EXCEPT !.mem = m2]
<1>14. h2 \in Heaps /\ h2.mem = m2 /\ h2.brk = brk /\ h2.heap_listp = Base
  BY <1>1 DEF Heaps, brk
<1> HIDE DEF h2
<1>15. HeapOK(h2, S)
  BY <1>10, <1>11, <1>14 DEF HeapOK
<1> QED BY <1>8, <1>12, <1>13, <1>14, <1>15 DEF h2, m

LEMMA Inits ==
  ASSUME NEW h, h \in Heaps
  PROVE  LET r == mm_init(mem_reset_brk(h))
         IN  r.ok /\ \E S : HeapOK(r.heap, S) /\ Allocated(r.heap.mem, S) = {Base}
<1> DEFINE A == ALIGNMENT
           words == CHUNKSIZE \div SIZE_T_SIZE
           h0 == mem_reset_brk(h)
           m1 == FirstWords(h.mem, A)
           h1 == [mem |-> m1, brk |-> Base + D, heap_listp |-> Base]
           e  == extend_heap(h1, words)
<1>1. /\ A \in Nat \ {0} /\ A >= 2 /\ W \in Mults /\ W \in Nat /\ W >= A /\ D \in Mults /\ D \in Nat
      /\ D = 2 * W /\ mem_max_addr = A + MAX_HEAP /\ MAX_HEAP \in Nat /\ A \in Mults
      /\ mem_max_addr \in Mults
  BY WordSizes, CellsAre, MemlibAssumption DEF mem_max_addr, mem_start_brk
<1>2. words \in Nat /\ D <= words
  <2>1. CHUNKSIZE \in Nat /\ SIZE_T_SIZE \in Nat \ {0} /\ words >= D
    BY <1>1, MmAssumption, ChunkAssumption DEF W, D
  <2>2. words \in Int
    BY <2>1, DivMod
  <2> HIDE DEF words
  <2> QED BY <1>1, <2>1, <2>2
<1> HIDE DEF words
<1>3. D <= ALIGN(words) /\ ALIGN(words) \in Nat /\ (4 * W) + ALIGN(words) <= MAX_HEAP
  <2>1. ALIGN(words) \in Int /\ words <= ALIGN(words)
    BY <1>2, AlignUp, MultsClosed
  <2>2. (4 * W) + ALIGN(words) <= MAX_HEAP
    BY ChunkAssumption DEF W, words
  <2> QED BY <1>1, <1>2, <2>1, <2>2
<1>4. Base = A + D /\ Base \in Int /\ Base \in Mults
  BY BaseFacts DEF Base
<1>5. h0 = [mem |-> h.mem, brk |-> A, heap_listp |-> h.heap_listp] /\ h.mem \in Memories
  BY DEF Heaps, mem_reset_brk, mem_start_brk
<1>6. mem_sbrk(h0, 4 * SIZE_T_SIZE)
        = [heap |-> [mem |-> h.mem, brk |-> A + 4 * W, heap_listp |-> h.heap_listp], ptr |-> A]
  <2>1. 4 * W >= 0 /\ A + 4 * W <= mem_max_addr
    BY <1>1, <1>3
  <2> HIDE DEF h0
  <2>2. h0.brk = A
    BY <1>5
  <2>3. CanGrow(h0, 4 * W)
    BY <2>1, <2>2 DEF CanGrow
  <2>4. [h0 EXCEPT !.brk = @ + 4 * W]
          = [mem |-> h.mem, brk |-> A + 4 * W, heap_listp |-> h.heap_listp]
    BY <1>5
  <2> QED BY <2>2, <2>3, <2>4 DEF mem_sbrk, W
<1>7. mm_init(h0) = InitResult(e)
  <2> DEFINE hs == [mem |-> h.mem, brk |-> A + 4 * W, heap_listp |-> h.heap_listp]
             r  == mem_sbrk(h0, 4 * SIZE_T_SIZE)
  <2>1. r.heap = hs /\ r.ptr = A
    BY <1>6
  <2>2. A # FAILED
    BY <1>1 DEF FAILED
  <2>3. [hs EXCEPT !.mem = FirstWords(@, A), !.heap_listp = A + DSIZE_T_SIZE] = h1
    <3>1. A + 4 * W = Base + D /\ A + DSIZE_T_SIZE = Base
      BY <1>1, <1>4 DEF D
    <3> HIDE DEF m1
    <3>2. FirstWords(h.mem, A) = m1
      BY DEF m1
    <3> HIDE DEF A
    <3> DEFINE z  == A + DSIZE_T_SIZE
               fw == FirstWords(h.mem, A)
               ks == A + 4 * W
    <3> HIDE DEF z, fw, ks
    <3>3. [hs EXCEPT !.mem = FirstWords(@, A), !.heap_listp = z]
            = [[hs EXCEPT !.mem = FirstWords(h.mem, A)] EXCEPT !.heap_listp = z]
      OBVIOUS
    <3>4. [[hs EXCEPT !.mem = fw] EXCEPT !.heap_listp = z]
            = [mem |-> fw, brk |-> ks, heap_listp |-> z]
      <4>1. hs = [mem |-> h.mem, brk |-> ks, heap_listp |-> h.heap_listp]
        BY DEF ks
      <4> DEFINE a == h.mem
                 l == h.heap_listp
      <4> HIDE DEF hs, a, l
      <4>2. hs = [mem |-> a, brk |-> ks, heap_listp |-> l]
        BY <4>1 DEF a, l
      <4>3. [hs EXCEPT !.mem = fw] = [mem |-> fw, brk |-> ks, heap_listp |-> l]
        BY <4>2
      <4> DEFINE h3 == [hs EXCEPT !.mem = fw]
      <4> HIDE DEF h3
      <4>4. h3 = [mem |-> fw, brk |-> ks, heap_listp |-> l]
        BY <4>3 DEF h3
      <4>5. [h3 EXCEPT !.heap_listp = z] = [mem |-> fw, brk |-> ks, heap_listp |-> z]
        BY <4>4
      <4> QED BY <4>5 DEF h3
    <3>5. ks = Base + D /\ z = Base /\ fw = m1
      BY <3>1, <3>2 DEF ks, z, fw
    <3>6. [[hs EXCEPT !.mem = fw] EXCEPT !.heap_listp = z] = h1
      BY <3>4, <3>5
    <3> HIDE DEF hs, h1
    <3> QED BY <3>3, <3>6 DEF fw, z
  <2> HIDE DEF hs, h1, r
  <2> QED BY <2>1, <2>2, <2>3 DEF mm_init, words, e, r
<1>8. /\ {A, A + W, A + 2 * W, A + 3 * W} \subseteq Cells
      /\ A + W = Base - W /\ A + 2 * W = (Base + D) - D /\ A + 3 * W = (Base + D) - W
  <2>1. W + W = 2 * W /\ (2 * W) + W = 3 * W
    BY <1>1
  <2>2. 2 * W \in Mults /\ 3 * W \in Mults
    BY <1>1, <2>1, MultsClosed
  <2>3. A + W \in Mults /\ A + 2 * W \in Mults /\ A + 3 * W \in Mults
    BY <1>1, <2>2, MultsClosed
  <2>4. \A k \in {0, W, 2 * W, 3 * W} : A <= A + k /\ A + k < mem_max_addr
    BY <1>1, <1>3
  <2>5. A <= A /\ A < mem_max_addr
    BY <1>1, <1>3
  <2>6. {A, A + W, A + 2 * W, A + 3 * W} \subseteq Cells
    BY <1>1, <2>3, <2>4, <2>5, CellsAre
  <2>7. A + W = Base - W /\ A + 2 * W = (Base + D) - D /\ A + 3 * W = (Base + D) - W
    BY <1>1, <1>4
  <2> QED BY <2>6, <2>7
<1>9. /\ m1 \in Memories /\ m1[Base - W] = PACK(D, 1) /\ m1[(Base + D) - D] = PACK(D, 1)
      /\ m1[(Base + D) - W] = PACK(0, 1)
  <2> DEFINE v == PACK(D, 1)
             v0 == PACK(0, 1)
  <2>1. v \in Nat /\ v0 \in Nat /\ PACK(DSIZE_T_SIZE, 1) = v
    BY <1>1, PackNat DEF D
  <2>2. A # A + W /\ A + W # A + 2 * W /\ A + W # A + 3 * W /\ A + 2 * W # A + 3 * W
        /\ A # A + 2 * W /\ A # A + 3 * W
    BY <1>1
  <2> DEFINE k1 == A + W
             k2 == A + 2 * W
             k3 == A + 3 * W
  <2>3. m1 = [h.mem EXCEPT ![A] = 0, ![k1] = v, ![k2] = v, ![k3] = v0]
    BY DEF FirstWords, W, D
  <2>4. k1 \in Cells /\ k2 \in Cells /\ k3 \in Cells /\ A \in Cells
    BY <1>8
  <2>5. k1 = Base - W /\ k2 = (Base + D) - D /\ k3 = (Base + D) - W
    BY <1>8
  <2>6. A # k1 /\ k1 # k2 /\ k1 # k3 /\ k2 # k3
    BY <2>2
  <2> HIDE DEF k1, k2, k3, v, v0, m1, A
  <2>7. m1 \in Memories /\ m1[k1] = v /\ m1[k2] = v /\ m1[k3] = v0
    BY <1>5, <2>1, <2>3, <2>4, <2>6 DEF Memories
  <2> QED BY <2>5, <2>7 DEF v, v0
<1> HIDE DEF m1
<1>10. Blocks(m1, Base + D, {Base}) /\ AllocAt(m1, Base) = 1 /\ EndOf(m1, Base) = Base + D
  <2>1. Room(Base, Base + D)
    <3>1. Base + D \in Mults /\ Base + D \in Int
      BY <1>1, <1>4, MultsClosed
    <3> QED BY <1>1, <1>3, <1>4, <3>1 DEF Room
  <2>2. (Base + D) - Base = D /\ Base + D <= Base + D
    BY <1>1, <1>4
  <2>3. Tiles(m1, Base, Base + D, {Base}) /\ AllocAt(m1, Base) = 1 /\ EndOf(m1, Base) = Base + D
    BY <1>9, <2>1, <2>2, Single
  <2> QED BY <1>9, <2>3 DEF Blocks
<1>11. Apart(m1, {Base}, {})
  BY <1>10 DEF Apart
<1>12. Allocated(m1, {Base}) = {Base}
  BY <1>10 DEF Allocated
<1>13. h1 \in Heaps /\ h1.heap_listp = Base /\ h1.mem = m1 /\ h1.brk = Base + D
  BY <1>1, <1>4, <1>9 DEF Heaps
<1> HIDE DEF h1
<1>14. (Base + D) + ALIGN(words) <= mem_max_addr
  BY <1>1, <1>3, <1>4
<1>15. e.ptr # NULL /\ Offers(h1, {Base}, e, ALIGN(words))
  <2>1. h1.brk + ALIGN(words) <= mem_max_addr /\ Blocks(h1.mem, h1.brk, {Base}) /\ Apart(h1.mem, {Base}, {})
    BY <1>10, <1>11, <1>13, <1>14
  <2>2. /\ \/ e = [heap |-> h1, ptr |-> NULL]
           \/ e.ptr # NULL /\ Offers(h1, {Base}, e, ALIGN(words))
        /\ e.ptr # NULL
    BY <1>2, <1>3, <1>13, <2>1, Extends
  <2> HIDE DEF e
  <2>3. e # [heap |-> h1, ptr |-> NULL]
    BY <2>2
  <2> QED BY <2>2, <2>3
<1> HIDE DEF e
<1>16. PICK S : HeapOK(e.heap, S) /\ SameAllocated(h1.mem, {Base}, e.heap.mem, S)
  BY <1>15 DEF Offers
<1>17. Allocated(e.heap.mem, S) = {Base}
  BY <1>12, <1>13, <1>16 DEF SameAllocated
<1>18. mm_init(h0).ok /\ mm_init(h0).heap = e.heap
  <2>1. InitResult(e).heap = e.heap
    BY DEF InitResult
  <2>2. InitResult(e).ok = (e.ptr # NULL)
    BY Zenon DEF InitResult
  <2> QED BY <1>7, <1>15, <2>1, <2>2
<1> QED BY <1>16, <1>17, <1>18

\* What mm_realloc returns when it finds room: the new block has the bytes of the
\* old payload, and that one, though free now, is still as it was.
Moves(h, S, ptr, n, r) ==
  \E S2 : /\ HeapOK(r.heap, S2) /\ r.ptr \in S2 /\ r.ptr \notin Allocated(h.mem, S)
          /\ Allocated(r.heap.mem, S2) = (Allocated(h.mem, S) \ {ptr}) \cup {r.ptr}
          /\ n + D <= SizeAt(r.heap.mem, r.ptr)
          /\ \A b \in Allocated(h.mem, S) \ {ptr} : SameBlock(h.mem, r.heap.mem, b)
          /\ KeepsPayloads(h.mem, r.heap.mem, Allocated(h.mem, S))
          /\ \A c \in Cells : r.ptr <= c /\ c < r.ptr + n /\ ptr + (c - r.ptr) \in Inside(h.mem, ptr)
                                => r.heap.mem[c] = h.mem[ptr + (c - r.ptr)]

LEMMA Moved ==
  ASSUME NEW h, NEW S, HeapOK(h, S), NEW ptr \in Allocated(h.mem, S), ptr # Base,
         NEW n \in Nat, NEW h1, NEW p, Gets(h, S, [heap |-> h1, ptr |-> p], n + D)
  PROVE  LET r == MovedTo([heap |-> h1, ptr |-> p], ptr, n)
         IN  r.ptr = p /\ p # NULL /\ Moves(h, S, ptr, n, r)
<1> DEFINE oldsize == SizeAt(h1.mem, ptr)
           k  == IF n < oldsize THEN n ELSE oldsize
           m3 == memcpy(h1.mem, p, ptr, k)
           h3 == [h1 EXCEPT !.mem = m3]
           h4 == mm_free(h3, ptr)
           r  == MovedTo([heap |-> h1, ptr |-> p], ptr, n)
<1>1. PICK S1 :
        /\ HeapOK(h1, S1) /\ p \in S1 /\ p \notin Allocated(h.mem, S)
        /\ Allocated(h1.mem, S1) = Allocated(h.mem, S) \cup {p}
        /\ n + D <= SizeAt(h1.mem, p)
        /\ \A b \in Allocated(h.mem, S) : SameBlock(h.mem, h1.mem, b)
        /\ KeepsPayloads(h.mem, h1.mem, Allocated(h.mem, S))
  <2> DEFINE r0 == [heap |-> h1, ptr |-> p]
  <2>1. r0.heap = h1 /\ r0.ptr = p
    OBVIOUS
  <2> HIDE DEF r0
  <2>2. Gets(h, S, r0, n + D)
    BY DEF r0
  <2> QED BY <2>1, <2>2 DEF Gets
<1>2. /\ Blocks(h1.mem, h1.brk, S1) /\ h1 \in Heaps /\ h1.mem \in Memories
      /\ Tiles(h1.mem, Base, h1.brk, S1) /\ h1.brk <= mem_max_addr /\ h1.brk \in Int
  BY <1>1, BlocksFacts DEF HeapOK
<1>3. ptr \in S1 /\ ptr # p
  BY <1>1 DEF Allocated
<1>4. /\ ptr \in Int /\ ptr \in Mults /\ p \in Int /\ p \in Mults /\ oldsize \in Nat /\ D <= oldsize
      /\ EndOf(h1.mem, ptr) = ptr + oldsize /\ ptr + oldsize <= h1.brk
      /\ EndOf(h1.mem, p) = p + SizeAt(h1.mem, p) /\ SizeAt(h1.mem, p) \in Nat
      /\ ptr \in Cells
  BY <1>2, <1>3, <1>1, BlockFacts
<1>5. W \in Nat /\ D \in Nat /\ ALIGNMENT \in Nat /\ mem_max_addr \in Nat /\ D >= 1
  BY WordSizes
<1>6. p # NULL
  BY <1>1, <1>2, PtrNotNull
<1>7. r = [heap |-> h4, ptr |-> p]
  <2> DEFINE r0 == [heap |-> h1, ptr |-> p]
  <2>1. GET_SIZE(h1.mem, HDRP(ptr)) = oldsize
    BY DEF SizeAt
  <2>2. CopiedTo(r0, ptr, n) = [heap |-> h3, ptr |-> p]
    <3> HIDE DEF oldsize
    <3> QED BY <2>1 DEF CopiedTo
  <2>3. r = [CopiedTo(r0, ptr, n) EXCEPT !.heap = mm_free(@, ptr)]
    BY <1>6 DEF MovedTo
  <2> HIDE DEF h3, r
  <2> QED BY <2>2, <2>3
<1> HIDE DEF oldsize
<1>8. k \in Nat /\ k <= n /\ k <= oldsize /\ (k = n \/ k = oldsize)
  BY <1>4
<1> HIDE DEF k
<1>9. \A c \in Cells : c \in Int /\ c \in Mults
  BY CellsAre, MultsClosed
<1>10. ASSUME NEW c \in Cells, c - p >= 0, c - p < k PROVE ptr + (c - p) \in Cells
  <2>1. ptr + (c - p) \in Mults
    <3>1. c - p \in Mults
      BY <1>4, <1>9, MultsClosed
    <3> QED BY <1>4, <3>1, MultsClosed
  <2>2. ALIGNMENT <= ptr
    BY <1>4, CellsAre
  <2>3. ALIGNMENT <= ptr + (c - p) /\ ptr + (c - p) < mem_max_addr
    BY <1>2, <1>4, <1>5, <1>8, <1>9, <1>10, <2>2
  <2> QED BY <2>1, <2>3, CellsAre
<1>11. m3 = [c \in Cells |-> IF c - p >= 0 /\ c - p < k THEN h1.mem[ptr + (c - p)] ELSE h1.mem[c]]
  BY DEF memcpy
<1>12. /\ m3 \in Memories
       /\ \A c \in Cells : m3[c] = IF c - p >= 0 /\ c - p < k THEN h1.mem[ptr + (c - p)] ELSE h1.mem[c]
  <2> DEFINE m1 == h1.mem
  <2> HIDE DEF m1
  <2>1. m1 \in [Cells -> Nat]
    BY <1>2 DEF Memories, m1
  <2>2. m3 = [c \in Cells |-> IF c - p >= 0 /\ c - p < k THEN m1[ptr + (c - p)] ELSE m1[c]]
    BY <1>11 DEF m1
  <2> HIDE DEF m3
  <2>3. \A c \in Cells : (IF c - p >= 0 /\ c - p < k THEN m1[ptr + (c - p)] ELSE m1[c]) \in Nat
    BY <1>10, <2>1
  <2>4. m3 \in [Cells -> Nat]
    BY <2>2, <2>3
  <2>5. \A c \in Cells : m3[c] = IF c - p >= 0 /\ c - p < k THEN m1[ptr + (c - p)] ELSE m1[c]
    BY <2>2
  <2> QED BY <2>4, <2>5 DEF Memories, m1
<1> HIDE DEF m3
<1>13. \A c \in Cells : c \notin Inside(h1.mem, p) => m3[c] = h1.mem[c]
  <2>1. SUFFICES ASSUME NEW c \in Cells, c - p >= 0, c - p < k
                 PROVE  c \in Inside(h1.mem, p)
    BY <1>12
  <2>2. c < EndOf(h1.mem, p) - D
    BY <1>1, <1>4, <1>5, <1>8, <1>9, <2>1
  <2>3. p <= c
    BY <1>4, <1>9, <2>1
  <2> QED BY <2>2, <2>3 DEF Inside
<1>14. /\ HeapOK(h3, S1) /\ h3.mem = m3 /\ Allocated(m3, S1) = Allocated(h1.mem, S1)
       /\ \A x \in S1 : SameBlock(h1.mem, m3, x)
       /\ KeepsPayloads(h1.mem, m3, S1 \ {p})
  BY <1>1, <1>12, <1>13, Written
<1> HIDE DEF h3
<1>15. ptr \in Allocated(h3.mem, S1)
  BY <1>1, <1>14
<1>16. PICK S2 : /\ HeapOK(h4, S2) /\ Allocated(h4.mem, S2) = Allocated(h3.mem, S1) \ {ptr}
                 /\ \A x \in Allocated(h3.mem, S1) \ {ptr} : SameBlock(h3.mem, h4.mem, x)
                 /\ KeepsPayloads(h3.mem, h4.mem, S1)
  BY <1>14, <1>15, Frees
<1> HIDE DEF h4
<1>17. Allocated(h4.mem, S2) = (Allocated(h.mem, S) \ {ptr}) \cup {p}
  BY <1>1, <1>3, <1>14, <1>16
<1>18. p \in S2
  BY <1>17 DEF Allocated
<1>19. SameBlock(h1.mem, h4.mem, p)
  BY <1>1, <1>3, <1>14, <1>16 DEF SameBlock
<1>20. n + D <= SizeAt(h4.mem, p)
  BY <1>1, <1>19 DEF SameBlock
<1>21. \A b \in Allocated(h.mem, S) \ {ptr} : SameBlock(h.mem, h4.mem, b)
  <2>1. \A b \in Allocated(h.mem, S) \ {ptr} : b \in S1 /\ b \in Allocated(h3.mem, S1) \ {ptr}
    BY <1>1, <1>14 DEF Allocated
  <2> QED BY <1>1, <1>14, <1>16, <2>1 DEF SameBlock
<1>22. KeepsPayloads(h.mem, h4.mem, Allocated(h.mem, S))
  <2> DEFINE X == Allocated(h.mem, S)
  <2>1. X \subseteq S1 \ {p}
    BY <1>1 DEF Allocated
  <2>2. \A b \in X : EndOf(h1.mem, b) = EndOf(h.mem, b) /\ EndOf(m3, b) = EndOf(h1.mem, b)
    BY <1>1, <1>14, <2>1 DEF SameBlock
  <2>3. KeepsPayloads(h1.mem, m3, X) /\ KeepsPayloads(m3, h4.mem, X)
    BY <1>14, <1>16, <2>1 DEF KeepsPayloads
  <2>4. KeepsPayloads(h.mem, h1.mem, X)
    BY <1>1
  <2> HIDE DEF X
  <2>5. KeepsPayloads(h.mem, m3, X)
    BY <2>2, <2>3, <2>4, KeepsTwice
  <2>6. \A b \in X : EndOf(m3, b) = EndOf(h.mem, b)
    BY <2>2
  <2>7. KeepsPayloads(h.mem, h4.mem, X)
    BY <2>3, <2>5, <2>6, KeepsTwice
  <2> QED BY <2>7 DEF X
<1>23. ASSUME NEW c \in Cells, p <= c, c < p + n, ptr + (c - p) \in Inside(h.mem, ptr)
       PROVE  h4.mem[c] = h.mem[ptr + (c - p)]
  <2> DEFINE d == ptr + (c - p)
  <2>1. EndOf(h.mem, ptr) = ptr + oldsize
    BY <1>1, <1>4 DEF SameBlock
  <2>2. d < (ptr + oldsize) - D
    BY <1>23, <2>1 DEF Inside
  <2>3. c - p >= 0 /\ c - p < k
    BY <1>4, <1>5, <1>8, <1>9, <1>23, <2>2
  <2>4. m3[c] = h1.mem[d]
    BY <1>12, <2>3
  <2>5. h1.mem[d] = h.mem[d]
    BY <1>1, <1>23 DEF KeepsPayloads
  <2>6. c \in Inside(m3, p)
    <3>1. c < EndOf(h1.mem, p) - D
      BY <1>1, <1>4, <1>5, <1>9, <1>23
    <3>2. EndOf(m3, p) = EndOf(h1.mem, p)
      BY <1>1, <1>14 DEF SameBlock
    <3> QED BY <1>23, <3>1, <3>2 DEF Inside
  <2>7. h4.mem[c] = m3[c]
    BY <1>1, <1>14, <1>16, <2>6 DEF KeepsPayloads
  <2> QED BY <2>4, <2>5, <2>7
<1> HIDE DEF r
<1>24. r.heap = h4 /\ r.ptr = p
  BY <1>7
<1>25. Moves(h, S, ptr, n, r)
  BY <1>1, <1>16, <1>17, <1>18, <1>20, <1>21, <1>22, <1>23, <1>24, Zenon DEF Moves
<1> QED BY <1>6, <1>24, <1>25 DEF r

LEMMA Reallocs ==
  ASSUME NEW h, NEW S, HeapOK(h, S), NEW ptr \in Allocated(h.mem, S), ptr # Base,
         NEW n \in Nat \ {0}
  PROVE  LET r == mm_realloc(h, ptr, n)
         IN  \/ r = [heap |-> h, ptr |-> NULL]
             \/ r.ptr # NULL /\ Moves(h, S, ptr, n, r)
<1> DEFINE r0 == mm_malloc(h, n)
           r  == mm_realloc(h, ptr, n)
<1>1. r = MovedTo(r0, ptr, n)
  <2>1. ptr # NULL
    BY PtrNotNull DEF HeapOK, Allocated
  <2> QED BY <2>1 DEF mm_realloc
<1>2. \/ r0 = [heap |-> h, ptr |-> NULL]
      \/ r0.ptr # NULL /\ Gets(h, S, r0, n + D) /\ r0 = [heap |-> r0.heap, ptr |-> r0.ptr]
  BY Malloc
<1> HIDE DEF r0, r
<1>3. CASE r0 = [heap |-> h, ptr |-> NULL]
  <2>1. r0.ptr = NULL
    BY <1>3
  <2>2. r = r0
    BY <1>1, <2>1 DEF MovedTo
  <2> QED BY <1>3, <2>2 DEF r
<1>4. CASE r0.ptr # NULL /\ Gets(h, S, r0, n + D) /\ r0 = [heap |-> r0.heap, ptr |-> r0.ptr]
  <2> DEFINE h1 == r0.heap
             p == r0.ptr
  <2>1. r0 = [heap |-> h1, ptr |-> p]
    BY <1>4
  <2> HIDE DEF h1, p
  <2>2. Gets(h, S, [heap |-> h1, ptr |-> p], n + D)
    BY <1>4, <2>1
  <2> DEFINE q == MovedTo([heap |-> h1, ptr |-> p], ptr, n)
  <2>3. q.ptr = p /\ p # NULL /\ Moves(h, S, ptr, n, q)
    BY <2>2, Moved
  <2> HIDE DEF q
  <2>4. r = q
    BY <1>1, <2>1 DEF q
  <2> QED BY <2>3, <2>4 DEF r
<1> QED BY <1>2, <1>3, <1>4

-----------------------------------------------------------------------------
(* The driver.                                                             *)

\* The payloads of the ids in L: B are their addresses and Z their sizes.
Filling(m, B, Z, L) ==
  /\ \A j \in L : /\ B[j] # Base /\ Z[j] \in Sizes /\ Z[j] + D <= SizeAt(m, B[j])
                  /\ \A c \in Cells : B[j] <= c /\ c < B[j] + Z[j] => m[c] = Fill(j)
  /\ \A j, k \in L : B[j] = B[k] => j = k

RangeOf(B, Z, j) == [lo |-> B[j], hi |-> B[j] + Z[j] - 1]
RangesOf(B, Z, L) == {RangeOf(B, Z, j) : j \in L}
Starts(B, L) == {B[j] : j \in L}

\* The heap h with blocks S holds the prologue and the payloads of L and nothing else.
Holds(h, S, B, Z, L) ==
  /\ HeapOK(h, S)
  /\ Allocated(h.mem, S) = {Base} \cup Starts(B, L)
  /\ Filling(h.mem, B, Z, L)

\* The payloads of the ids in L are as they were filled.
Intact(m, B, Z, L) ==
  \A j \in L : /\ Z[j] \in Sizes /\ B[j] + Z[j] <= mem_max_addr
               /\ \A c \in Cells : B[j] <= c /\ c < B[j] + Z[j] => m[c] = Fill(j)

IInv ==
  /\ TypeOK /\ DriverSatisfied
  /\ Intact(heap.mem, blocks, block_sizes, Live)
  /\ verdict = "idle" => Live = {}
  /\ verdict = "running" =>
       /\ \E S : Holds(heap, S, blocks, block_sizes, Live)
       /\ ranges = RangesOf(blocks, block_sizes, Live)

LEMMA SizesFacts ==
  /\ \A n \in Sizes : n \in Nat /\ n >= 1
  /\ \A i \in Ids : Fill(i) \in Nat
<1>1. \A n \in Sizes : n \in Nat /\ n >= 1
  BY MdriverAssumption
<1>2. ASSUME NEW i \in Ids PROVE Fill(i) \in Nat
  <2>1. i % 256 \in Nat
    BY MdriverAssumption
  <2>2. mem_max_addr \in Nat
    BY WordSizes
  <2> QED BY <2>1, <2>2 DEF Fill, LowByte
<1> QED BY <1>1, <1>2

LEMMA HeapTyped ==
  ASSUME NEW h, NEW S, HeapOK(h, S)
  PROVE  h \in [mem : [Cells -> Nat], brk : mem_start_brk .. mem_max_addr,
                heap_listp : {NULL, FAILED} \cup Cells]
<1>1. h \in Heaps /\ h.heap_listp = Base /\ Blocks(h.mem, h.brk, S)
  BY DEF HeapOK
<1>2. Base \in Cells
  BY <1>1, BlocksFacts, BlockFacts
<1>3. h.brk \in mem_start_brk .. mem_max_addr
  <2>1. h.brk \in Int /\ h.brk <= mem_max_addr /\ Base + D <= h.brk
    BY <1>1, BlocksFacts
  <2>2. mem_start_brk <= h.brk
    BY <2>1, BaseFacts, WordSizes DEF mem_start_brk
  <2> QED BY <2>1, <2>2, WordSizes DEF mem_start_brk
<1> QED BY <1>1, <1>2, <1>3 DEF Heaps, Memories

\* The blocks of allocated payloads.
LEMMA HeldFacts ==
  ASSUME NEW h, NEW S, HeapOK(h, S), NEW b \in Allocated(h.mem, S)
  PROVE  /\ b \in S /\ b \in Cells /\ b \in Mults /\ b \in Int /\ Base <= b /\ b # NULL
         /\ SizeAt(h.mem, b) \in Nat /\ EndOf(h.mem, b) = b + SizeAt(h.mem, b)
         /\ EndOf(h.mem, b) <= h.brk /\ h.brk \in Int /\ h.brk <= mem_max_addr
         /\ \A c \in S : b < c => EndOf(h.mem, b) <= c
<1>1. b \in S /\ Blocks(h.mem, h.brk, S)
  BY DEF Allocated, HeapOK
<1>2. h.mem \in Memories /\ Tiles(h.mem, Base, h.brk, S) /\ h.brk \in Int /\ h.brk <= mem_max_addr
  BY <1>1, BlocksFacts
<1>3. b # NULL
  BY <1>1, PtrNotNull
<1>4. \A c \in S : b < c => EndOf(h.mem, b) <= c
  BY <1>1, <1>2 DEF Tiles
<1> QED BY <1>1, <1>2, <1>3, <1>4, BlockFacts

\* Payloads stay when their blocks and what is in them do.
LEMMA FillingKept ==
  ASSUME NEW h, NEW S, HeapOK(h, S), NEW m2, NEW B, NEW Z, NEW L, Filling(h.mem, B, Z, L),
         \A j \in L : B[j] \in Allocated(h.mem, S) /\ SameBlock(h.mem, m2, B[j]),
         NEW X, KeepsPayloads(h.mem, m2, X), \A j \in L : B[j] \in X
  PROVE  Filling(m2, B, Z, L)
<1>1. ASSUME NEW j \in L
      PROVE  /\ B[j] # Base /\ Z[j] \in Sizes /\ Z[j] + D <= SizeAt(m2, B[j])
             /\ \A c \in Cells : B[j] <= c /\ c < B[j] + Z[j] => m2[c] = Fill(j)
  <2> DEFINE b == B[j]
             z == Z[j]
  <2>1. /\ b # Base /\ z \in Sizes /\ z + D <= SizeAt(h.mem, b)
        /\ \A c \in Cells : b <= c /\ c < b + z => h.mem[c] = Fill(j)
        /\ b \in Allocated(h.mem, S) /\ SameBlock(h.mem, m2, b) /\ b \in X
    BY DEF Filling
  <2> HIDE DEF b, z
  <2>2. b \in Int /\ SizeAt(h.mem, b) \in Nat /\ EndOf(h.mem, b) = b + SizeAt(h.mem, b)
        /\ z \in Nat /\ D \in Nat
    BY <2>1, HeldFacts, SizesFacts, WordSizes
  <2>3. z + D <= SizeAt(m2, b)
    BY <2>1 DEF SameBlock
  <2>4. ASSUME NEW c \in Cells, b <= c, c < b + z PROVE m2[c] = Fill(j)
    <3>1. c \in Int
      BY CellsAre, MultsClosed
    <3>2. c < EndOf(h.mem, b) - D
      BY <2>1, <2>2, <2>4, <3>1
    <3>3. c \in Inside(h.mem, b)
      BY <2>4, <3>2 DEF Inside
    <3> QED BY <2>1, <2>4, <3>3 DEF KeepsPayloads
  <2> QED BY <2>1, <2>3, <2>4 DEF b, z
<1>2. \A j, k \in L : B[j] = B[k] => j = k
  BY DEF Filling
<1> QED BY <1>1, <1>2 DEF Filling

\* A new payload is where the driver wants it.
LEMMA NewRange ==
  ASSUME NEW h, NEW S, HeapOK(h, S), NEW p \in Allocated(h.mem, S), NEW n \in Nat \ {0},
         n + D <= SizeAt(h.mem, p), NEW rs,
         \A q \in rs : /\ q.lo \in Allocated(h.mem, S) /\ q.lo # p /\ q.hi \in Int
                       /\ q.hi < EndOf(h.mem, q.lo)
  PROVE  RangeError(h, rs, p, p + n - 1) = "ok"
<1> DEFINE hi == p + n - 1
<1>1. /\ p \in S /\ p \in Mults /\ p \in Int /\ Base <= p /\ SizeAt(h.mem, p) \in Nat
      /\ EndOf(h.mem, p) = p + SizeAt(h.mem, p)
      /\ EndOf(h.mem, p) <= h.brk /\ h.brk \in Int
      /\ \A c \in S : p < c => EndOf(h.mem, p) <= c
  BY HeldFacts
<1>2. D \in Nat /\ D >= 1 /\ Base \in Int /\ ALIGNMENT \in Nat /\ ALIGNMENT <= Base
  BY WordSizes, BaseFacts
<1>3. p % ALIGNMENT = 0
  <2>1. 0 \in 0 .. ALIGNMENT - 1 /\ p + 0 = p
    BY <1>1, WordSizes
  <2> QED BY <1>1, <2>1, ModMult
<1>4. hi \in Int /\ p <= hi /\ hi < EndOf(h.mem, p) /\ hi < h.brk
  BY <1>1, <1>2
<1>5. {p, hi} \subseteq mem_heap_lo .. mem_heap_hi(h)
  <2>1. mem_heap_lo = ALIGNMENT /\ mem_heap_hi(h) = h.brk - 1
    BY DEF mem_heap_lo, mem_heap_hi, mem_start_brk
  <2> HIDE DEF hi
  <2> QED BY <1>1, <1>2, <1>4, <2>1
<1>6. ASSUME NEW q \in rs PROVE ~(p \in q.lo .. q.hi \/ hi \in q.lo .. q.hi)
  <2> DEFINE b == q.lo
             u == q.hi
  <2>1. b \in Allocated(h.mem, S) /\ b # p /\ u \in Int /\ u < EndOf(h.mem, b)
    OBVIOUS
  <2> HIDE DEF b, u
  <2>2. /\ b \in S /\ b \in Int /\ EndOf(h.mem, b) \in Int /\ \A c \in S : b < c => EndOf(h.mem, b) <= c
    <3>1. /\ b \in S /\ b \in Int /\ SizeAt(h.mem, b) \in Nat /\ EndOf(h.mem, b) = b + SizeAt(h.mem, b)
          /\ \A c \in S : b < c => EndOf(h.mem, b) <= c
      BY <2>1, HeldFacts
    <3>2. EndOf(h.mem, b) \in Int
      BY <3>1
    <3> QED BY <3>1, <3>2
  <2>3. (b < p => EndOf(h.mem, b) <= p) /\ (p < b => EndOf(h.mem, p) <= b)
    BY <1>1, <2>2
  <2>4. ~(b <= p /\ p <= u) /\ ~(b <= hi /\ hi <= u)
    <3> HIDE DEF hi
    <3> QED BY <1>1, <1>4, <2>1, <2>2, <2>3
  <2> QED BY <2>4 DEF b, u
<1> HIDE DEF hi
<1>7. RangeError(h, rs, p, hi) = "ok"
  BY <1>3, <1>5, <1>6 DEF RangeError
<1> QED BY <1>7 DEF hi

LEMMA NewRangeOf ==
  ASSUME NEW h, NEW S, HeapOK(h, S), NEW p \in Allocated(h.mem, S), NEW n \in Nat \ {0},
         n + D <= SizeAt(h.mem, p), NEW B, NEW Z, NEW L, Filling(h.mem, B, Z, L),
         \A j \in L : B[j] \in Allocated(h.mem, S) /\ B[j] # p
  PROVE  RangeError(h, RangesOf(B, Z, L), p, p + n - 1) = "ok"
<1> DEFINE rs == RangesOf(B, Z, L)
<1>1. ASSUME NEW q \in rs
      PROVE  /\ q.lo \in Allocated(h.mem, S) /\ q.lo # p /\ q.hi \in Int
             /\ q.hi < EndOf(h.mem, q.lo)
  <2>1. PICK j \in L : q = RangeOf(B, Z, j)
    BY DEF RangesOf
  <2> DEFINE b == B[j]
             z == Z[j]
  <2>2. q.lo = b /\ q.hi = b + z - 1
    BY <2>1 DEF RangeOf
  <2>3. b \in Allocated(h.mem, S) /\ b # p /\ z \in Sizes /\ z + D <= SizeAt(h.mem, b)
    BY DEF Filling
  <2> HIDE DEF b, z
  <2>4. b \in Int /\ SizeAt(h.mem, b) \in Nat /\ EndOf(h.mem, b) = b + SizeAt(h.mem, b)
    BY <2>3, HeldFacts
  <2>5. z \in Nat /\ D \in Nat
    BY <2>3, SizesFacts, WordSizes
  <2>6. b + z - 1 \in Int /\ b + z - 1 < EndOf(h.mem, b)
    BY <2>3, <2>4, <2>5
  <2> QED BY <2>2, <2>3, <2>6
<1> HIDE DEF rs
<1>2. RangeError(h, rs, p, p + n - 1) = "ok"
  BY <1>1, NewRange
<1> QED BY <1>2 DEF rs

LEMMA HoldsIntact ==
  ASSUME NEW h, NEW S, NEW B, NEW Z, NEW L, Holds(h, S, B, Z, L)
  PROVE  Intact(h.mem, B, Z, L)
<1>1. HeapOK(h, S) /\ Allocated(h.mem, S) = {Base} \cup Starts(B, L) /\ Filling(h.mem, B, Z, L)
  BY DEF Holds
<1>2. ASSUME NEW j \in L
      PROVE  /\ Z[j] \in Sizes /\ B[j] + Z[j] <= mem_max_addr
             /\ \A c \in Cells : B[j] <= c /\ c < B[j] + Z[j] => h.mem[c] = Fill(j)
  <2> DEFINE b == B[j]
             z == Z[j]
  <2>1. /\ b \in Allocated(h.mem, S) /\ z \in Sizes /\ z + D <= SizeAt(h.mem, b)
        /\ \A c \in Cells : b <= c /\ c < b + z => h.mem[c] = Fill(j)
    BY <1>1 DEF Filling, Starts
  <2> HIDE DEF b, z
  <2>2. /\ b \in Int /\ SizeAt(h.mem, b) \in Nat /\ EndOf(h.mem, b) = b + SizeAt(h.mem, b)
        /\ EndOf(h.mem, b) <= h.brk /\ h.brk \in Int /\ h.brk <= mem_max_addr
    BY <1>1, <2>1, HeldFacts
  <2>3. z \in Nat /\ D \in Nat /\ mem_max_addr \in Nat
    BY <2>1, SizesFacts, WordSizes
  <2>4. b + z <= mem_max_addr
    BY <2>1, <2>2, <2>3
  <2> QED BY <2>1, <2>4 DEF b, z
<1> QED BY <1>2 DEF Intact

\* What live payloads keep of their memory.
LEMMA HoldsKept ==
  ASSUME NEW h, NEW S, NEW B, NEW Z, NEW L, Holds(h, S, B, Z, L), NEW m2,
         KeepsPayloads(h.mem, m2, Allocated(h.mem, S))
  PROVE  Intact(m2, B, Z, L)
<1>1. HeapOK(h, S) /\ Allocated(h.mem, S) = {Base} \cup Starts(B, L) /\ Filling(h.mem, B, Z, L)
  BY DEF Holds
<1>2. Intact(h.mem, B, Z, L)
  BY HoldsIntact
<1>3. ASSUME NEW j \in L, NEW c \in Cells, B[j] <= c, c < B[j] + Z[j]
      PROVE  m2[c] = Fill(j)
  <2> DEFINE b == B[j]
             z == Z[j]
  <2>1. b \in Allocated(h.mem, S) /\ z \in Sizes /\ z + D <= SizeAt(h.mem, b) /\ h.mem[c] = Fill(j)
        /\ b <= c /\ c < b + z
    BY <1>1, <1>3 DEF Filling, Starts
  <2> HIDE DEF b, z
  <2>2. b \in Int /\ SizeAt(h.mem, b) \in Nat /\ EndOf(h.mem, b) = b + SizeAt(h.mem, b)
    BY <1>1, <2>1, HeldFacts
  <2>3. z \in Nat /\ D \in Nat /\ c \in Int
    BY <2>1, SizesFacts, WordSizes, CellsAre, MultsClosed
  <2>4. c \in Inside(h.mem, b)
    BY <2>1, <2>2, <2>3 DEF Inside
  <2> QED BY <2>1, <2>4 DEF KeepsPayloads
<1> QED BY <1>2, <1>3 DEF Intact

\* The payload at p passed the checks and is filled.
LEMMA Remembered ==
  ASSUME TypeOK, NEW h, NEW S, HeapOK(h, S), NEW i \in Ids, NEW n \in Sizes, NEW p, p # Base,
         p \in Allocated(h.mem, S), n + D <= SizeAt(h.mem, p),
         Allocated(h.mem, S) = ({Base} \cup Starts(blocks, Live \ {i})) \cup {p},
         p \notin Starts(blocks, Live \ {i}),
         Filling(h.mem, blocks, block_sizes, Live \ {i}),
         ranges' = RangesOf(blocks, block_sizes, Live \ {i})
                     \cup {[lo |-> p, hi |-> p + n - 1]},
         Remember(i, h, p, n)
  PROVE  IInv' /\ Live' = Live \cup {i}
<1> DEFINE m2 == memset(h.mem, p, Fill(i), n)
           O  == Live \ {i}
<1>1. /\ heap' = [h EXCEPT !.mem = m2] /\ blocks' = [blocks EXCEPT ![i] = p]
      /\ block_sizes' = [block_sizes EXCEPT ![i] = n] /\ verdict' = "running"
  BY DEF Remember
<1>2. /\ p \in S /\ p \in Cells /\ p \in Int /\ p # NULL /\ SizeAt(h.mem, p) \in Nat
      /\ EndOf(h.mem, p) = p + SizeAt(h.mem, p) /\ EndOf(h.mem, p) <= h.brk
      /\ h.brk \in Int /\ h.brk <= mem_max_addr
  BY HeldFacts
<1>3. n \in Nat /\ n >= 1 /\ Fill(i) \in Nat /\ D \in Nat /\ D >= 1 /\ mem_max_addr \in Nat
  BY SizesFacts, WordSizes
<1>4. h.mem \in Memories
  BY BlocksFacts DEF HeapOK
<1>5. \A c \in Cells : c \in Int
  BY CellsAre, MultsClosed
<1>6. /\ m2 \in Memories
      /\ \A c \in Cells : m2[c] = IF p <= c /\ c < p + n THEN Fill(i) ELSE h.mem[c]
  <2> DEFINE m == h.mem
  <2> HIDE DEF m
  <2>1. m2 = [c \in Cells |-> IF p <= c /\ c < p + n THEN Fill(i) ELSE m[c]]
    BY DEF memset, m
  <2>2. m \in [Cells -> Nat]
    BY <1>4 DEF Memories, m
  <2> HIDE DEF m2
  <2>3. m2 \in [Cells -> Nat]
    BY <1>3, <2>1, <2>2
  <2>4. \A c \in Cells : m2[c] = IF p <= c /\ c < p + n THEN Fill(i) ELSE m[c]
    BY <2>1
  <2> QED BY <2>3, <2>4 DEF Memories, m
<1> HIDE DEF m2
<1>7. \A c \in Cells : c \notin Inside(h.mem, p) => m2[c] = h.mem[c]
  <2>1. SUFFICES ASSUME NEW c \in Cells, p <= c, c < p + n PROVE c \in Inside(h.mem, p)
    BY <1>6
  <2>2. c < EndOf(h.mem, p) - D
    BY <1>2, <1>3, <1>5, <2>1
  <2> QED BY <2>1, <2>2 DEF Inside
<1>8. /\ HeapOK(heap', S) /\ heap'.mem = m2 /\ Allocated(m2, S) = Allocated(h.mem, S)
      /\ \A x \in S : SameBlock(h.mem, m2, x)
      /\ KeepsPayloads(h.mem, m2, S \ {p})
  <2> DEFINE h2 == [h EXCEPT !.mem = m2]
  <2>1. p \in S /\ m2 \in Memories
    BY <1>2, <1>6
  <2>2. /\ HeapOK(h2, S) /\ h2.mem = m2 /\ Allocated(m2, S) = Allocated(h.mem, S)
        /\ \A x \in S : SameBlock(h.mem, m2, x)
        /\ KeepsPayloads(h.mem, m2, S \ {p})
    BY <1>7, <2>1, Written
  <2> HIDE DEF h2
  <2>3. heap' = h2
    BY <1>1 DEF h2
  <2> QED BY <2>2, <2>3
<1>9. blocks \in [Ids -> {NULL} \cup Cells] /\ block_sizes \in [Ids -> {0} \cup Sizes]
  BY DEF TypeOK
<1>10. /\ blocks' \in [Ids -> {NULL} \cup Cells] /\ block_sizes' \in [Ids -> {0} \cup Sizes]
       /\ \A j \in O : blocks'[j] = blocks[j] /\ block_sizes'[j] = block_sizes[j]
       /\ blocks'[i] = p /\ block_sizes'[i] = n
  BY <1>1, <1>2, <1>9 DEF Live
<1>11. Live' = O \cup {i} /\ Live' = Live \cup {i}
  BY <1>1, <1>2, <1>9 DEF Live
<1>12. \A j \in O : blocks[j] \in S \ {p} /\ blocks[j] \in Allocated(h.mem, S)
  BY DEF Allocated, Starts
<1>13. Filling(m2, blocks, block_sizes, O)
  BY <1>8, <1>12, FillingKept
<1> HIDE DEF O
<1>14. Filling(m2, blocks', block_sizes', O \cup {i})
  <2>1. ASSUME NEW j \in O \cup {i}
        PROVE  /\ blocks'[j] # Base /\ block_sizes'[j] \in Sizes
               /\ block_sizes'[j] + D <= SizeAt(m2, blocks'[j])
               /\ \A c \in Cells : blocks'[j] <= c /\ c < blocks'[j] + block_sizes'[j] => m2[c] = Fill(j)
    <3>1. CASE j \in O
      BY <1>10, <1>13, <3>1 DEF Filling
    <3>2. CASE j = i
      BY <1>2, <1>6, <1>8, <1>10, <3>2 DEF SameBlock
    <3> QED BY <3>1, <3>2
  <2>2. ASSUME NEW j \in O \cup {i}, NEW k \in O \cup {i}, blocks'[j] = blocks'[k] PROVE j = k
    <3>1. j \in O /\ k \in O => j = k
      BY <1>10, <1>13, <2>2 DEF Filling
    <3>2. j \in O => blocks'[j] # p
      BY <1>10, <1>12
    <3>3. k \in O => blocks'[k] # p
      BY <1>10, <1>12
    <3> QED BY <1>10, <2>2, <3>1, <3>2, <3>3
  <2> QED BY <2>1, <2>2 DEF Filling
<1>15. Allocated(m2, S) = {Base} \cup Starts(blocks', O \cup {i})
  <2>1. Starts(blocks', O \cup {i}) = Starts(blocks, O) \cup {p}
    BY <1>10 DEF Starts
  <2> QED BY <1>8, <2>1 DEF O
<1>16. ranges' = RangesOf(blocks', block_sizes', O \cup {i})
  <2>1. \A j \in O : RangeOf(blocks', block_sizes', j) = RangeOf(blocks, block_sizes, j)
    BY <1>10 DEF RangeOf
  <2>2. RangeOf(blocks', block_sizes', i) = [lo |-> p, hi |-> p + n - 1]
    BY <1>10 DEF RangeOf
  <2>3. ranges' = RangesOf(blocks, block_sizes, O) \cup {[lo |-> p, hi |-> p + n - 1]}
    BY DEF O
  <2> QED BY <2>1, <2>2, <2>3 DEF RangesOf
<1>17. \A q \in ranges' : q.lo \in Cells /\ q.hi \in q.lo .. mem_max_addr - 1
  <2>1. ASSUME NEW j \in O
        PROVE  blocks[j] \in Cells
               /\ blocks[j] + block_sizes[j] - 1 \in blocks[j] .. mem_max_addr - 1
    <3> DEFINE b == blocks[j]
               z == block_sizes[j]
    <3>1. z \in Sizes /\ z + D <= SizeAt(m2, b)
      BY <1>13 DEF Filling
    <3>2. SizeAt(m2, b) = SizeAt(h.mem, b)
      BY <1>8, <1>12 DEF SameBlock, O
    <3>3. b \in Allocated(h.mem, S)
      BY <1>12 DEF O
    <3> HIDE DEF b, z
    <3>4. /\ b \in Cells /\ b \in Int /\ SizeAt(h.mem, b) \in Nat
          /\ EndOf(h.mem, b) = b + SizeAt(h.mem, b) /\ EndOf(h.mem, b) <= h.brk
      BY <3>3, HeldFacts
    <3>5. z \in Nat /\ z >= 1
      BY <3>1, SizesFacts
    <3>6. b + z - 1 \in b .. mem_max_addr - 1
      BY <1>2, <1>3, <3>1, <3>2, <3>4, <3>5
    <3> QED BY <3>4, <3>6 DEF b, z
  <2>2. p + n - 1 \in p .. mem_max_addr - 1
    BY <1>2, <1>3
  <2>3. ranges' = RangesOf(blocks, block_sizes, O) \cup {[lo |-> p, hi |-> p + n - 1]}
    BY DEF O
  <2>4. ASSUME NEW q \in ranges' PROVE q.lo \in Cells /\ q.hi \in q.lo .. mem_max_addr - 1
    <3>1. CASE q \in RangesOf(blocks, block_sizes, O)
      <4>1. PICK j \in O : q = RangeOf(blocks, block_sizes, j)
        BY <3>1 DEF RangesOf
      <4>2. q.lo = blocks[j] /\ q.hi = blocks[j] + block_sizes[j] - 1
        BY <4>1 DEF RangeOf
      <4> QED BY <2>1, <4>2
    <3>2. CASE q = [lo |-> p, hi |-> p + n - 1]
      <4>1. q.lo = p /\ q.hi = p + n - 1
        BY <3>2
      <4> QED BY <1>2, <2>2, <4>1
    <3> QED BY <2>3, <3>1, <3>2
  <2> QED BY <2>4
<1>18. TypeOK'
  <2>1. heap' \in [mem : [Cells -> Nat], brk : mem_start_brk .. mem_max_addr,
                   heap_listp : {NULL, FAILED} \cup Cells]
    BY <1>8, HeapTyped
  <2> QED BY <1>1, <1>10, <1>17, <2>1 DEF TypeOK
<1>19. Holds(heap', S, blocks', block_sizes', O \cup {i})
  BY <1>8, <1>14, <1>15 DEF Holds
<1>20. (\E T : Holds(heap, T, blocks, block_sizes, Live))'
  BY <1>11, <1>19
<1>21. DriverSatisfied'
  BY <1>1 DEF DriverSatisfied
<1>22. (ranges = RangesOf(blocks, block_sizes, Live))'
  BY <1>11, <1>16
<1>23. verdict' # "idle"
  BY <1>1
<1>24. Intact(heap.mem, blocks, block_sizes, Live)'
  BY <1>11, <1>19, HoldsIntact
<1>25. IInv'
  BY <1>18, <1>20, <1>21, <1>22, <1>23, <1>24 DEF IInv
<1> QED BY <1>11, <1>25

\* The first trace has not started.
LEMMA InitIInv == Init => IInv
<1> SUFFICES ASSUME Init PROVE IInv
  OBVIOUS
<1>1. /\ blocks = [i \in Ids |-> NULL] /\ block_sizes = [i \in Ids |-> 0]
      /\ ranges = {} /\ verdict = "idle"
  BY DEF Init
<1>2. PICK w \in InitialWords :
        heap = [mem |-> [c \in Cells |-> w], brk |-> mem_start_brk, heap_listp |-> NULL]
  BY DEF Init
<1>3. w \in Nat /\ mem_start_brk \in mem_start_brk .. mem_max_addr
  BY MdriverAssumption, MemlibAssumption DEF mem_start_brk, mem_max_addr
<1>4. TypeOK
  <2>1. heap \in [mem : [Cells -> Nat], brk : mem_start_brk .. mem_max_addr,
                  heap_listp : {NULL, FAILED} \cup Cells]
    BY <1>2, <1>3
  <2> QED BY <1>1, <2>1 DEF TypeOK
<1>5. Live = {}
  BY <1>1 DEF Live
<1> QED BY <1>1, <1>4, <1>5 DEF IInv, DriverSatisfied, Intact

LEMMA StartTraceIInv == ASSUME IInv, StartTrace PROVE IInv' /\ Live' = {} /\ verdict' = "running"
<1> DEFINE r == mm_init(mem_reset_brk(heap))
<1>1. /\ heap' = r.heap /\ verdict' = IF r.ok THEN "running" ELSE "init failed"
      /\ ranges' = {} /\ blocks' = [i \in Ids |-> NULL] /\ block_sizes' = [i \in Ids |-> 0]
  BY DEF StartTrace
<1>2. heap \in Heaps
  <2>1. mem_start_brk .. mem_max_addr \subseteq Int /\ {NULL, FAILED} \cup Cells \subseteq Int
    <3>1. \A c \in Cells : c \in Int
      BY CellsAre, MultsClosed
    <3> QED BY <3>1 DEF NULL, FAILED
  <2>2. heap \in [mem : [Cells -> Nat], brk : mem_start_brk .. mem_max_addr,
                  heap_listp : {NULL, FAILED} \cup Cells]
    BY DEF IInv, TypeOK
  <2> QED BY <2>1, <2>2 DEF Heaps, Memories
<1>3. r.ok /\ \E S : HeapOK(r.heap, S) /\ Allocated(r.heap.mem, S) = {Base}
  BY <1>2, Inits
<1> HIDE DEF r
<1>4. PICK S : HeapOK(heap', S) /\ Allocated(heap'.mem, S) = {Base}
  BY <1>1, <1>3
<1>5. verdict' = "running"
  BY <1>1, <1>3
<1>6. Live' = {}
  BY <1>1 DEF Live
<1>7. TypeOK'
  <2>1. heap' \in [mem : [Cells -> Nat], brk : mem_start_brk .. mem_max_addr,
                   heap_listp : {NULL, FAILED} \cup Cells]
    BY <1>4, HeapTyped
  <2> QED BY <1>1, <1>5, <2>1 DEF TypeOK
<1>8. Holds(heap', S, blocks', block_sizes', {})
  BY <1>4 DEF Holds, Filling, Starts
<1>9. (\E T : Holds(heap, T, blocks, block_sizes, Live))'
  BY <1>6, <1>8
<1>10. (ranges = RangesOf(blocks, block_sizes, Live))'
  BY <1>1, <1>6 DEF RangesOf
<1>11. Intact(heap.mem, blocks, block_sizes, Live)'
  BY <1>6 DEF Intact
<1>12. IInv'
  BY <1>5, <1>7, <1>9, <1>10, <1>11 DEF IInv, DriverSatisfied
<1> QED BY <1>5, <1>6, <1>12

\* What a call leaves when it finds no room.
LEMMA ComplainIInv ==
  ASSUME IInv, Complain(heap, ranges, "out of memory")
  PROVE  IInv' /\ Live' = Live
<1>1. /\ heap' = heap /\ ranges' = ranges /\ verdict' = "out of memory"
      /\ blocks' = blocks /\ block_sizes' = block_sizes
  BY DEF Complain
<1>2. Live' = Live
  BY <1>1 DEF Live
<1> QED BY <1>1, <1>2 DEF IInv, TypeOK, DriverSatisfied, Errors

\* What a call leaves that the driver ends the trace over, and one it is content with.
Stops == verdict' \in {"out of memory", "data lost"} /\ UNCHANGED <<blocks, block_sizes>>
Stores(i, n) == Live' = Live \cup {i} /\ \E h, p : Remember(i, h, p, n)

LEMMA AllocIInv ==
  ASSUME IInv, NEW i \in Ids, NEW n \in Sizes, Alloc(i, n)
  PROVE  /\ IInv'
         /\ Stops \/ Stores(i, n)
<1> DEFINE r == mm_malloc(heap, n)
<1>1. /\ verdict = "running" /\ i \notin Live
      /\ \/ r.ptr = NULL /\ Complain(r.heap, ranges, "out of memory")
         \/ /\ r.ptr # NULL
            /\ LET error == RangeError(r.heap, ranges, r.ptr, r.ptr + n - 1)
               IN  IF error # "ok" THEN Complain(r.heap, ranges, error)
                   ELSE /\ ranges' = ranges \cup {[lo |-> r.ptr, hi |-> r.ptr + n - 1]}
                        /\ Remember(i, r.heap, r.ptr, n)
  BY DEF Alloc
<1>2. PICK S : Holds(heap, S, blocks, block_sizes, Live)
  BY <1>1 DEF IInv
<1>3. /\ HeapOK(heap, S) /\ Allocated(heap.mem, S) = {Base} \cup Starts(blocks, Live)
      /\ Filling(heap.mem, blocks, block_sizes, Live)
      /\ ranges = RangesOf(blocks, block_sizes, Live) /\ TypeOK
  BY <1>1, <1>2 DEF Holds, IInv
<1>4. n \in Nat \ {0} /\ n \in Nat
  BY SizesFacts
<1>5. \/ r = [heap |-> heap, ptr |-> NULL]
      \/ r.ptr # NULL /\ Gets(heap, S, r, n + D)
  BY <1>3, <1>4, Malloc
<1> HIDE DEF r
<1>6. CASE r = [heap |-> heap, ptr |-> NULL]
  <2>1. r.heap = heap /\ r.ptr = NULL
    BY <1>6
  <2>2. Complain(heap, ranges, "out of memory")
    BY <1>1, <2>1
  <2>3. Stops
    BY <2>2 DEF Complain, Stops
  <2> QED BY <2>2, <2>3, ComplainIInv
<1>7. CASE r.ptr # NULL /\ Gets(heap, S, r, n + D)
  <2> DEFINE h == r.heap
             p == r.ptr
  <2>1. PICK S2 :
          /\ HeapOK(h, S2) /\ p \in S2 /\ p \notin Allocated(heap.mem, S)
          /\ Allocated(h.mem, S2) = Allocated(heap.mem, S) \cup {p}
          /\ n + D <= SizeAt(h.mem, p)
          /\ \A b \in Allocated(heap.mem, S) : SameBlock(heap.mem, h.mem, b)
          /\ KeepsPayloads(heap.mem, h.mem, Allocated(heap.mem, S))
    BY <1>7 DEF Gets
  <2> HIDE DEF h, p
  <2>2. /\ p \in Allocated(h.mem, S2) /\ p # Base /\ Live \ {i} = Live
        /\ \A j \in Live : blocks[j] \in Allocated(h.mem, S2) /\ blocks[j] # p
        /\ Allocated(h.mem, S2) = ({Base} \cup Starts(blocks, Live)) \cup {p}
        /\ p \notin Starts(blocks, Live)
    <3>1. \A j \in Live : blocks[j] \in Starts(blocks, Live)
      BY DEF Starts
    <3> QED BY <1>1, <1>3, <2>1, <3>1
  <2>3. Filling(h.mem, blocks, block_sizes, Live)
    <3>1. \A j \in Live : blocks[j] \in Allocated(heap.mem, S) /\ SameBlock(heap.mem, h.mem, blocks[j])
      BY <1>3, <2>1 DEF Starts
    <3> QED BY <1>3, <2>1, <3>1, FillingKept
  <2>4. RangeError(h, ranges, p, p + n - 1) = "ok"
    BY <1>3, <1>4, <2>1, <2>2, <2>3, NewRangeOf
  <2>5. ranges' = ranges \cup {[lo |-> p, hi |-> p + n - 1]} /\ Remember(i, h, p, n)
    BY <1>1, <1>7, <2>4 DEF h, p
  <2>6. IInv' /\ Live' = Live \cup {i}
    <3>1. ranges' = RangesOf(blocks, block_sizes, Live \ {i}) \cup {[lo |-> p, hi |-> p + n - 1]}
      BY <1>3, <2>2, <2>5
    <3>3. /\ Allocated(h.mem, S2) = ({Base} \cup Starts(blocks, Live \ {i})) \cup {p}
          /\ p \notin Starts(blocks, Live \ {i})
      <4> DEFINE O == Live \ {i}
      <4>1. O = Live
        BY <2>2
      <4> HIDE DEF O
      <4>2. Starts(blocks, O) = Starts(blocks, Live)
        BY <4>1
      <4>3. Allocated(h.mem, S2) = ({Base} \cup Starts(blocks, O)) \cup {p} /\ p \notin Starts(blocks, O)
        BY <2>2, <4>2, Zenon
      <4> QED BY <4>3 DEF O
    <3>4. Filling(h.mem, blocks, block_sizes, Live \ {i})
      BY <2>2, <2>3
    <3> QED BY <1>3, <2>1, <2>2, <2>5, <3>1, <3>3, <3>4, Remembered
  <2> QED BY <2>5, <2>6 DEF Stores
<1> QED BY <1>5, <1>6, <1>7

\* Payloads start at different addresses, so that one range is removed.
LEMMA RemoveRange ==
  ASSUME NEW i \in Live, \A j, k \in Live : blocks[j] = blocks[k] => j = k
  PROVE  LET O == Live \ {i}
         IN  /\ remove_range(RangesOf(blocks, block_sizes, Live), blocks[i])
                   = RangesOf(blocks, block_sizes, O)
             /\ \A b : b \in Starts(blocks, O) <=> b \in Starts(blocks, Live) /\ b # blocks[i]
             /\ \A j \in Live : blocks[j] \in Starts(blocks, Live)
<1> DEFINE O == Live \ {i}
<1>1. \A j : RangeOf(blocks, block_sizes, j).lo = blocks[j]
  BY DEF RangeOf
<1>2. \A j \in Live : blocks[j] = blocks[i] <=> j = i
  OBVIOUS
<1>3. {q \in RangesOf(blocks, block_sizes, Live) : q.lo # blocks[i]} = RangesOf(blocks, block_sizes, O)
  BY <1>1, <1>2 DEF RangesOf
<1>4. \A b : b \in Starts(blocks, O) <=> b \in Starts(blocks, Live) /\ b # blocks[i]
  BY <1>2 DEF Starts
<1> HIDE DEF O
<1>5. remove_range(RangesOf(blocks, block_sizes, Live), blocks[i]) = RangesOf(blocks, block_sizes, O)
  BY <1>3 DEF remove_range
<1> QED BY <1>4, <1>5 DEF O, Starts

\* A payload whose fill reads back as it was written is found preserved.
LEMMA MovedPreserved ==
  ASSUME NEW S, Holds(heap, S, blocks, block_sizes, Live), NEW i \in Live, NEW n \in Sizes,
         NEW r, Moves(heap, S, blocks[i], n, r), LowByte(i) < 128
  PROVE  Preserved(r.heap.mem, i, r.ptr, n)
<1> DEFINE ptr == blocks[i]
           z   == block_sizes[i]
           p   == r.ptr
           m2  == r.heap.mem
<1>1. PICK S2 :
        /\ HeapOK(r.heap, S2) /\ p \in Allocated(m2, S2)
        /\ \A c \in Cells : p <= c /\ c < p + n /\ ptr + (c - p) \in Inside(heap.mem, ptr)
                              => m2[c] = heap.mem[ptr + (c - p)]
  BY DEF Moves
<1>2. /\ HeapOK(heap, S) /\ ptr \in Allocated(heap.mem, S)
      /\ z \in Sizes /\ z + D <= SizeAt(heap.mem, ptr)
      /\ \A c \in Cells : ptr <= c /\ c < ptr + z => heap.mem[c] = Fill(i)
  BY DEF Holds, Filling, Starts
<1>3. p \in Int /\ p \in Mults
  BY <1>1, HeldFacts
<1> HIDE DEF ptr, z, p, m2
<1>4. /\ ptr \in Int /\ ptr \in Mults /\ ptr \in Cells /\ SizeAt(heap.mem, ptr) \in Nat
      /\ EndOf(heap.mem, ptr) = ptr + SizeAt(heap.mem, ptr)
      /\ EndOf(heap.mem, ptr) <= heap.brk /\ heap.brk \in Int /\ heap.brk <= mem_max_addr
  BY <1>2, HeldFacts
<1>5. z \in Nat /\ D \in Nat /\ n \in Nat /\ mem_max_addr \in Nat /\ ALIGNMENT \in Nat
  BY <1>2, SizesFacts, WordSizes
<1>6. ALIGNMENT <= ptr
  BY <1>4, CellsAre
<1>7. ASSUME NEW c \in Cells, p <= c, c < p + n, c < p + z PROVE m2[c] = Fill(i)
  <2>1. c \in Int /\ c \in Mults
    BY CellsAre, MultsClosed
  <2> DEFINE d == ptr + (c - p)
  <2>2. d \in Mults
    <3>1. c - p \in Mults
      BY <1>3, <2>1, MultsClosed
    <3> QED BY <1>4, <3>1, MultsClosed
  <2>3. d \in Int /\ ptr <= d /\ d < ptr + z
    BY <1>3, <1>4, <1>5, <1>7, <2>1
  <2>4. m2[c] = heap.mem[d] \/ d \notin Inside(heap.mem, ptr)
    BY <1>1, <1>7
  <2> HIDE DEF d
  <2>5. d < EndOf(heap.mem, ptr) - D /\ d < mem_max_addr /\ ALIGNMENT <= d
    BY <1>2, <1>4, <1>5, <1>6, <2>3
  <2>6. d \in Cells
    BY <2>2, <2>5, CellsAre
  <2> QED BY <1>2, <2>3, <2>4, <2>5, <2>6 DEF Inside
<1>8. AsChar(LowByte(i)) = LowByte(i)
  <2>1. LowByte(i) \in Int
    BY MdriverAssumption DEF LowByte, Live
  <2> QED BY <2>1 DEF AsChar
<1> QED BY <1>7, <1>8 DEF Preserved, p, z, m2

LEMMA ReallocIInv ==
  ASSUME IInv, NEW i \in Ids, NEW n \in Sizes, Realloc(i, n)
  PROVE  /\ IInv'
         /\ Stops \/ Stores(i, n)
<1> DEFINE r    == mm_realloc(heap, blocks[i], n)
           ptr  == blocks[i]
           rest == remove_range(ranges, ptr)
<1>1. /\ verdict = "running" /\ i \in Live
      /\ \/ r.ptr = NULL /\ Complain(r.heap, ranges, "out of memory")
         \/ r.ptr # NULL /\ Reallocated(i, n, r.heap, r.ptr, rest)
  BY DEF Realloc
<1>2. PICK S : Holds(heap, S, blocks, block_sizes, Live)
  BY <1>1 DEF IInv
<1>3. /\ HeapOK(heap, S) /\ Allocated(heap.mem, S) = {Base} \cup Starts(blocks, Live)
      /\ Filling(heap.mem, blocks, block_sizes, Live)
      /\ ranges = RangesOf(blocks, block_sizes, Live) /\ TypeOK
  BY <1>1, <1>2 DEF Holds, IInv
<1>4. n \in Nat \ {0} /\ n \in Nat
  BY SizesFacts
<1>5. ptr \in Allocated(heap.mem, S) /\ ptr # Base
      /\ \A j, k \in Live : blocks[j] = blocks[k] => j = k
  BY <1>1, <1>3 DEF Filling, Starts
<1>6. /\ rest = RangesOf(blocks, block_sizes, Live \ {i})
      /\ \A b : b \in Starts(blocks, Live \ {i}) <=> b \in Starts(blocks, Live) /\ b # ptr
      /\ \A j \in Live : blocks[j] \in Starts(blocks, Live)
  <2>1. \A j, k \in Live : blocks[j] = blocks[k] => j = k
    BY <1>5
  <2>2. i \in Live
    BY <1>1
  <2> QED BY <1>1, <1>3, <2>1, <2>2, RemoveRange
<1>7. \/ r = [heap |-> heap, ptr |-> NULL]
      \/ r.ptr # NULL /\ Moves(heap, S, ptr, n, r)
  BY <1>3, <1>4, <1>5, Reallocs
<1> HIDE DEF r, rest
<1>8. CASE r = [heap |-> heap, ptr |-> NULL]
  <2>1. r.heap = heap /\ r.ptr = NULL
    BY <1>8
  <2>2. Complain(heap, ranges, "out of memory")
    BY <1>1, <2>1
  <2>3. Stops
    BY <2>2 DEF Complain, Stops
  <2> QED BY <2>2, <2>3, ComplainIInv
<1>9. CASE r.ptr # NULL /\ Moves(heap, S, ptr, n, r)
  <2> DEFINE h == r.heap
             p == r.ptr
             O == Live \ {i}
             added == rest \cup {[lo |-> p, hi |-> p + n - 1]}
  <2>1. PICK S2 :
          /\ HeapOK(h, S2) /\ p \in S2 /\ p \notin Allocated(heap.mem, S)
          /\ Allocated(h.mem, S2) = (Allocated(heap.mem, S) \ {ptr}) \cup {p}
          /\ n + D <= SizeAt(h.mem, p)
          /\ \A b \in Allocated(heap.mem, S) \ {ptr} : SameBlock(heap.mem, h.mem, b)
          /\ KeepsPayloads(heap.mem, h.mem, Allocated(heap.mem, S))
    BY <1>9, Zenon DEF Moves
  <2>2. LowByte(i) < 128 => Preserved(h.mem, i, p, n)
    BY <1>1, <1>2, <1>9, MovedPreserved
  <2>3. Reallocated(i, n, h, p, rest)
    BY <1>1, <1>9
  <2> HIDE DEF h, p
  <2>4. /\ p \in Allocated(h.mem, S2) /\ p # Base
        /\ \A j \in O : blocks[j] \in Allocated(heap.mem, S) \ {ptr}
                        /\ blocks[j] \in Allocated(h.mem, S2) /\ blocks[j] # p
    BY <1>1, <1>3, <1>5, <1>6, <2>1
  <2>5. Allocated(h.mem, S2) = ({Base} \cup Starts(blocks, O)) \cup {p}
        /\ p \notin Starts(blocks, O)
    BY <1>3, <1>5, <1>6, <2>1
  <2>6. Filling(h.mem, blocks, block_sizes, O)
    <3>1. Filling(heap.mem, blocks, block_sizes, O)
      BY <1>3 DEF Filling
    <3>2. \A j \in O : blocks[j] \in Allocated(heap.mem, S) /\ SameBlock(heap.mem, h.mem, blocks[j])
      BY <2>1, <2>4
    <3> QED BY <1>3, <2>1, <3>1, <3>2, FillingKept
  <2>7. RangeError(h, rest, p, p + n - 1) = "ok"
    <3>1. RangeError(h, RangesOf(blocks, block_sizes, O), p, p + n - 1) = "ok"
      <4> HIDE DEF O
      <4> QED BY <1>4, <2>1, <2>4, <2>6, NewRangeOf
    <3> QED BY <1>6, <3>1
  <2>8. \/ ~Preserved(h.mem, i, p, n) /\ Complain(h, added, "data lost")
        \/ ranges' = added /\ Remember(i, h, p, n)
    BY <2>3, <2>7 DEF Reallocated
  <2>9. CASE ~Preserved(h.mem, i, p, n) /\ Complain(h, added, "data lost")
    <3>1. /\ heap' = h /\ ranges' = added /\ verdict' = "data lost"
          /\ blocks' = blocks /\ block_sizes' = block_sizes
      BY <2>9 DEF Complain
    <3>2. \E j \in Ids : LowByte(j) >= 128
      <4>1. LowByte(i) \in Int
        BY MdriverAssumption DEF LowByte
      <4>2. ~(LowByte(i) < 128)
        BY <2>2, <2>9
      <4>3. LowByte(i) >= 128
        BY <4>1, <4>2
      <4> QED BY <4>3
    <3>3. Live' = Live
      BY <3>1 DEF Live
    <3>4. p \in Cells /\ p + n - 1 \in p .. mem_max_addr - 1
      <4>1. /\ p \in Cells /\ p \in Int /\ SizeAt(h.mem, p) \in Nat
            /\ EndOf(h.mem, p) = p + SizeAt(h.mem, p) /\ EndOf(h.mem, p) <= h.brk
            /\ h.brk \in Int /\ h.brk <= mem_max_addr
        BY <2>1, <2>4, HeldFacts
      <4>2. D \in Nat /\ n >= 1 /\ mem_max_addr \in Nat
        BY SizesFacts, WordSizes
      <4> QED BY <1>4, <2>1, <4>1, <4>2
    <3>5. \A q \in added : q.lo \in Cells /\ q.hi \in q.lo .. mem_max_addr - 1
      <4>1. \A q \in rest : q.lo \in Cells /\ q.hi \in q.lo .. mem_max_addr - 1
        BY <1>3 DEF rest, remove_range, TypeOK
      <4> DEFINE u == [lo |-> p, hi |-> p + n - 1]
      <4>2. u.lo = p /\ u.hi = p + n - 1
        OBVIOUS
      <4> HIDE DEF u
      <4>3. \A q \in rest \cup {u} : q.lo \in Cells /\ q.hi \in q.lo .. mem_max_addr - 1
        BY <3>4, <4>1, <4>2
      <4> QED BY <4>3 DEF u
    <3> HIDE DEF added
    <3>6. TypeOK'
      <4>1. heap' \in [mem : [Cells -> Nat], brk : mem_start_brk .. mem_max_addr,
                       heap_listp : {NULL, FAILED} \cup Cells]
        BY <2>1, <3>1, HeapTyped
      <4> QED BY <1>3, <3>1, <3>5, <4>1 DEF TypeOK, Errors
    <3>7. Intact(heap.mem, blocks, block_sizes, Live)'
      <4>1. Intact(h.mem, blocks, block_sizes, Live)
        BY <1>2, <2>1, HoldsKept
      <4> QED BY <3>1, <3>3, <4>1
    <3>8. DriverSatisfied'
      BY <3>1, <3>2 DEF DriverSatisfied
    <3>9. IInv'
      BY <3>1, <3>6, <3>7, <3>8 DEF IInv
    <3> QED BY <3>1, <3>9 DEF Stops
  <2>10. CASE ranges' = added /\ Remember(i, h, p, n)
    <3>1. ranges' = RangesOf(blocks, block_sizes, Live \ {i}) \cup {[lo |-> p, hi |-> p + n - 1]}
      BY <1>6, <2>10
    <3>2. IInv' /\ Live' = Live \cup {i}
      BY <1>3, <2>1, <2>4, <2>5, <2>6, <2>10, <3>1, Remembered
    <3> QED BY <2>10, <3>2 DEF Stores
  <2> QED BY <2>8, <2>9, <2>10
<1> QED BY <1>7, <1>8, <1>9

LEMMA FreeIInv ==
  ASSUME IInv, NEW i \in Ids, Free(i)
  PROVE  /\ IInv' /\ Live' = Live \ {i}
<1> DEFINE ptr == blocks[i]
           O   == Live \ {i}
           h2  == mm_free(heap, ptr)
<1>1. /\ verdict = "running" /\ i \in Live /\ ranges' = remove_range(ranges, ptr)
      /\ heap' = h2 /\ blocks' = [blocks EXCEPT ![i] = NULL]
      /\ block_sizes' = [block_sizes EXCEPT ![i] = 0] /\ verdict' = "running"
  BY DEF Free
<1>2. PICK S : Holds(heap, S, blocks, block_sizes, Live)
  BY <1>1 DEF IInv
<1>3. /\ HeapOK(heap, S) /\ Allocated(heap.mem, S) = {Base} \cup Starts(blocks, Live)
      /\ Filling(heap.mem, blocks, block_sizes, Live)
      /\ ranges = RangesOf(blocks, block_sizes, Live) /\ TypeOK
  BY <1>1, <1>2 DEF Holds, IInv
<1>4. ptr \in Allocated(heap.mem, S) /\ ptr # Base
      /\ \A j, k \in Live : blocks[j] = blocks[k] => j = k
  BY <1>1, <1>3 DEF Filling, Starts
<1>5. /\ ranges' = RangesOf(blocks, block_sizes, Live \ {i})
      /\ \A b : b \in Starts(blocks, Live \ {i}) <=> b \in Starts(blocks, Live) /\ b # ptr
      /\ \A j \in Live : blocks[j] \in Starts(blocks, Live)
  <2>1. \A j, k \in Live : blocks[j] = blocks[k] => j = k
    BY <1>4
  <2>2. i \in Live
    BY <1>1
  <2> QED BY <1>1, <1>3, <2>1, <2>2, RemoveRange
<1>6. PICK S2 :
        /\ HeapOK(h2, S2) /\ Allocated(h2.mem, S2) = Allocated(heap.mem, S) \ {ptr}
        /\ \A x \in Allocated(heap.mem, S) \ {ptr} : SameBlock(heap.mem, h2.mem, x)
        /\ KeepsPayloads(heap.mem, h2.mem, S)
  BY <1>3, <1>4, Frees
<1> HIDE DEF h2
<1>7. blocks \in [Ids -> {NULL} \cup Cells] /\ block_sizes \in [Ids -> {0} \cup Sizes]
  BY <1>3 DEF TypeOK
<1>8. /\ blocks' \in [Ids -> {NULL} \cup Cells] /\ block_sizes' \in [Ids -> {0} \cup Sizes]
      /\ \A j \in O : blocks'[j] = blocks[j] /\ block_sizes'[j] = block_sizes[j]
      /\ Live' = O
  BY <1>1, <1>7 DEF Live
<1>9. \A j \in O : /\ blocks[j] \in Allocated(heap.mem, S) /\ blocks[j] \in S
                   /\ SameBlock(heap.mem, h2.mem, blocks[j])
  BY <1>1, <1>3, <1>4, <1>5, <1>6 DEF Allocated
<1>10. Filling(h2.mem, blocks, block_sizes, O)
  <2>1. Filling(heap.mem, blocks, block_sizes, O)
    BY <1>3 DEF Filling
  <2> HIDE DEF O
  <2> QED BY <1>3, <1>6, <1>9, <2>1, FillingKept
<1>11. Filling(h2.mem, blocks', block_sizes', O)
  <2> HIDE DEF O
  <2> QED BY <1>8, <1>10 DEF Filling
<1>12. Allocated(h2.mem, S2) = {Base} \cup Starts(blocks', O)
  <2>1. Starts(blocks', O) = Starts(blocks, O)
    <3> HIDE DEF O
    <3> QED BY <1>8 DEF Starts
  <2> QED BY <1>3, <1>4, <1>5, <1>6, <2>1
<1>13. ranges' = RangesOf(blocks', block_sizes', O)
  <2>1. \A j \in O : RangeOf(blocks', block_sizes', j) = RangeOf(blocks, block_sizes, j)
    BY <1>8 DEF RangeOf
  <2>2. RangesOf(blocks', block_sizes', O) = RangesOf(blocks, block_sizes, O)
    <3> HIDE DEF O
    <3> QED BY <2>1 DEF RangesOf
  <2> QED BY <1>5, <2>2
<1>14. Holds(heap', S2, blocks', block_sizes', O)
  BY <1>1, <1>6, <1>11, <1>12 DEF Holds
<1>15. TypeOK'
  <2>1. heap' \in [mem : [Cells -> Nat], brk : mem_start_brk .. mem_max_addr,
                   heap_listp : {NULL, FAILED} \cup Cells]
    BY <1>1, <1>6, HeapTyped
  <2>2. \A q \in ranges' : q.lo \in Cells /\ q.hi \in q.lo .. mem_max_addr - 1
    BY <1>1, <1>3 DEF TypeOK, remove_range
  <2> QED BY <1>1, <1>8, <2>1, <2>2 DEF TypeOK
<1>16. (\E T : Holds(heap, T, blocks, block_sizes, Live))'
  BY <1>8, <1>14
<1>17. (ranges = RangesOf(blocks, block_sizes, Live))'
  BY <1>8, <1>13
<1>18. Intact(heap.mem, blocks, block_sizes, Live)'
  BY <1>8, <1>14, HoldsIntact
<1>19. verdict' # "idle" /\ DriverSatisfied'
  BY <1>1 DEF DriverSatisfied
<1>20. IInv'
  BY <1>15, <1>16, <1>17, <1>18, <1>19 DEF IInv
<1> QED BY <1>8, <1>20

LEMMA NextIInv == IInv /\ [Next]_vars => IInv'
<1> SUFFICES ASSUME IInv, [Next]_vars PROVE IInv'
  OBVIOUS
<1>1. CASE StartTrace
  BY <1>1, StartTraceIInv
<1>2. ASSUME NEW i \in Ids, Free(i) PROVE IInv'
  BY <1>2, FreeIInv
<1>3. ASSUME NEW i \in Ids, NEW n \in Sizes, Alloc(i, n) PROVE IInv'
  BY <1>3, AllocIInv
<1>4. ASSUME NEW i \in Ids, NEW n \in Sizes, Realloc(i, n) PROVE IInv'
  BY <1>4, ReallocIInv
<1>5. CASE UNCHANGED vars
  <2>1. Live' = Live
    BY <1>5 DEF Live, vars
  <2> QED BY <1>5, <2>1 DEF vars, IInv, TypeOK, DriverSatisfied
<1> QED BY <1>1, <1>2, <1>3, <1>4, <1>5 DEF Next

LEMMA IInvHolds == Spec => []IInv
BY InitIInv, NextIInv, PTL DEF Spec

\* Heap, payloads, sizes and ranges keep their types whatever the requests of a trace.
THEOREM TypeCorrect == Spec => []TypeOK
BY IInvHolds, PTL DEF IInv

\* mdriver.c never complains of mm.c but that memory is used up: add_range finds every
\* payload aligned, inside the heap and apart from the others, and realloc keeps the
\* data.  The one other complaint is of a reallocation of an id whose low byte is 128
\* or more, where the check itself is wrong.
THEOREM DriverIsSatisfied == Spec => []DriverSatisfied
BY IInvHolds, PTL DEF IInv

\* The chain that find_fit walks is the tiling, with the epilogue at its end.
LEMMA ChainFacts ==
  ASSUME NEW h, NEW S, HeapOK(h, S)
  PROVE  LET m == h.mem
         IN  /\ \A b : b \in Chain(h) \ {h.brk} <=> b \in S
             /\ h.brk \in Chain(h) /\ m[HDRP(h.brk)] = PACK(0, 1)
             /\ \A b \in S : /\ b + GET_SIZE(m, HDRP(b)) <= h.brk /\ m[FTRP(m, b)] = m[HDRP(b)]
                             /\ GET_ALLOC(m, HDRP(b)) = 0 => GET_ALLOC(m, HDRP(NEXT_BLKP(m, b))) = 1
<1> DEFINE m == h.mem
           brk == h.brk
<1>1. h.heap_listp = Base /\ Blocks(m, brk, S) /\ Apart(m, S, {})
  BY DEF HeapOK
<1>2. Chain(h) = S \cup {brk}
  BY <1>1, ChainIs
<1> HIDE DEF m, brk
<1>3. /\ m \in Memories /\ Tiles(m, Base, brk, S) /\ m[brk - W] = PACK(0, 1)
      /\ \A b \in S : b # brk
  BY <1>1, BlocksFacts DEF Blocks
<1>4. ASSUME NEW b \in S
      PROVE  /\ b + GET_SIZE(m, HDRP(b)) <= brk /\ m[FTRP(m, b)] = m[HDRP(b)]
             /\ GET_ALLOC(m, HDRP(b)) = 0 => GET_ALLOC(m, HDRP(NEXT_BLKP(m, b))) = 1
  <2>1. /\ b \in Int /\ SizeAt(m, b) \in Nat /\ EndOf(m, b) = b + SizeAt(m, b) /\ EndOf(m, b) <= brk
        /\ m[EndOf(m, b) - D] = m[b - W] /\ D \in Nat
    BY <1>3, BlockFacts, WordSizes DEF Tiles
  <2>2. SizeAt(m, b) = GET_SIZE(m, HDRP(b)) /\ HDRP(b) = b - W
    BY DEF SizeAt, HDRP, W
  <2>3. FTRP(m, b) = EndOf(m, b) - D
    <3>1. FTRP(m, b) = b + (SizeAt(m, b) - D)
      BY <2>2 DEF FTRP, D
    <3> QED BY <2>1, <3>1
  <2>4. NEXT_BLKP(m, b) = EndOf(m, b)
    BY DEF NEXT_BLKP, EndOf, SizeAt, HDRP
  <2>5. AllocAt(m, b) = 0 => AllocAt(m, EndOf(m, b)) = 1
    BY <1>1 DEF Apart, m
  <2> QED BY <2>1, <2>2, <2>3, <2>4, <2>5 DEF AllocAt
<1>5. HDRP(brk) = brk - W
  BY DEF HDRP, W
<1> QED BY <1>2, <1>3, <1>4, <1>5 DEF m, brk

\* While a trace runs, the blocks of mm.c tile the heap from the prologue to the epilogue
\* at the break, and every footer repeats its header.
THEOREM ChainTilesTheHeap == Spec => []ChainTilesHeap
<1>1. IInv => ChainTilesHeap
  <2> SUFFICES ASSUME IInv, verdict = "running" PROVE ChainTilesHeap
    BY DEF ChainTilesHeap
  <2>1. PICK S : HeapOK(heap, S)
    BY DEF IInv, Holds
  <2> QED BY <2>1, ChainFacts DEF ChainTilesHeap
<1> QED BY <1>1, IInvHolds, PTL

\* place, coalesce and the extension of the heap never leave two free neighbours.
THEOREM NeighboursNotFree == Spec => []NoFreeNeighbours
<1>1. IInv => NoFreeNeighbours
  <2> SUFFICES ASSUME IInv, verdict = "running" PROVE NoFreeNeighbours
    BY DEF NoFreeNeighbours
  <2>1. PICK S : HeapOK(heap, S)
    BY DEF IInv, Holds
  <2> QED BY <2>1, ChainFacts DEF NoFreeNeighbours
<1> QED BY <1>1, IInvHolds, PTL

\* Every allocated block but the prologue is the payload of a live id: mm_free and
\* mm_realloc leave none behind, and none is lost.
THEOREM NothingIsLeaked == Spec => []NothingLeaked
<1>1. IInv => NothingLeaked
  <2> SUFFICES ASSUME IInv, verdict = "running" PROVE NothingLeaked
    BY DEF NothingLeaked
  <2>1. PICK S : HeapOK(heap, S) /\ Allocated(heap.mem, S) = {Base} \cup Starts(blocks, Live)
    BY DEF IInv, Holds
  <2>2. heap.heap_listp = Base
    BY <2>1 DEF HeapOK
  <2>3. \A b : b \in Chain(heap) \ {heap.brk} <=> b \in S
    BY <2>1, ChainFacts
  <2>4. {bp \in Chain(heap) \ {heap.brk} : GET_ALLOC(heap.mem, HDRP(bp)) = 1} = Allocated(heap.mem, S)
    BY <2>3 DEF Allocated, AllocAt
  <2>5. Starts(blocks, Live) = {blocks[i] : i \in Live}
    BY DEF Starts
  <2> QED BY <2>1, <2>2, <2>4, <2>5 DEF NothingLeaked
<1> QED BY <1>1, IInvHolds, PTL

-----------------------------------------------------------------------------
(* The refinement of the abstract allocator.                               *)

\* ALIGN counts as many cells as the abstract allocator has words.
LEMMA WordsOf ==
  ASSUME NEW z \in Nat
  PROVE  /\ ALIGN(z) \div ALIGNMENT = Store!Words(z) /\ Store!Words(z) \in Int
         /\ ALIGNMENT * Store!Words(z) < z + ALIGNMENT
<1> DEFINE A == ALIGNMENT
           y == z + A - 1
           K == y \div A
           r == y % A
           x == K * A
           q == x \div A
           s == x % A
<1>1. A \in Nat \ {0}
  BY MemlibAssumption
<1>2. y \in Int
  BY <1>1
<1> HIDE DEF y
<1>3. K \in Int /\ r \in 0 .. A - 1 /\ y = (A * K) + r
  BY <1>1, <1>2, DivMod
<1> HIDE DEF K, r
<1>4. x \in Int /\ x = A * K
  BY <1>1, <1>3
<1> HIDE DEF x
<1>5. q \in Int /\ s \in 0 .. A - 1 /\ x = (A * q) + s
  BY <1>1, <1>4, DivMod
<1> HIDE DEF q, s
<1>6. A * (K - q) = s
  <2>1. A * (K - q) = (A * K) - (A * q) /\ A * q \in Int
    BY <1>1, <1>3, <1>5
  <2> QED BY <1>1, <1>4, <1>5, <2>1
<1>7. K - q = 0
  <2>1. K - q \in Int
    BY <1>3, <1>5
  <2>2. K - q >= 1 => A * (K - q) >= A
    BY <1>1, <2>1
  <2>3. K - q <= -1 => A * (K - q) <= -A
    BY <1>1, <2>1
  <2> HIDE DEF A
  <2> QED BY <1>1, <1>5, <1>6, <2>1, <2>2, <2>3
<1>8. q = K
  BY <1>3, <1>5, <1>7
<1>9. ALIGN(z) \div ALIGNMENT = q
  BY DEF ALIGN, q, x, K, y
<1>10. Store!Words(z) = K
  BY DEF Store!Words, K, y
<1>11. A * K < z + A
  <2>1. y = z + A - 1
    BY DEF y
  <2> HIDE DEF A
  <2> QED BY <1>1, <1>3, <1>4, <2>1
<1> QED BY <1>3, <1>8, <1>9, <1>10, <1>11

\* The payload of size z at b in m.
PayloadAt(m, b, z) ==
  [lo |-> b, size |-> z,
   words |-> [k \in 1 .. ALIGN(z) \div ALIGNMENT |-> m[b + (k - 1) * ALIGNMENT]]]

LEMMA FilledAt ==
  ASSUME NEW m, NEW B, NEW Z, NEW L, Intact(m, B, Z, L), NEW i \in L, i \in Ids, B[i] \in Cells
  PROVE  /\ PayloadAt(m, B[i], Z[i]) = Store!Filled(i, B[i], Z[i])
         /\ Store!Filled(i, B[i], Z[i]) # None
<1> DEFINE b == B[i]
           z == Z[i]
           A == ALIGNMENT
           K == Store!Words(z)
<1>1. /\ b \in Cells /\ z \in Sizes /\ b + z <= mem_max_addr
      /\ \A c \in Cells : b <= c /\ c < b + z => m[c] = Fill(i)
  BY DEF Intact
<1> HIDE DEF b, z
<1>2. z \in Nat /\ z >= 1 /\ A \in Nat \ {0} /\ mem_max_addr \in Nat /\ A \in Mults
  BY <1>1, SizesFacts, WordSizes, CellsAre
<1>3. b \in Int /\ b \in Mults /\ A <= b
  BY <1>1, CellsAre, MultsClosed
<1>4. ALIGN(z) \div A = K /\ K \in Int /\ A * K < z + A
  BY <1>2, WordsOf
<1> HIDE DEF K
<1>5. ASSUME NEW k \in 1 .. K PROVE m[b + (k - 1) * A] = Fill(i)
  <2> DEFINE d == (k - 1) * A
  <2>1. k \in Int /\ k >= 1 /\ K - k >= 0
    BY <1>4
  <2>2. d = A * (k - 1) /\ d \in Int /\ d >= 0
    BY <1>2, <2>1
  <2>3. d \in Mults
    BY <2>1, <2>2 DEF Mults
  <2>4. d < z
    <3>1. A * (K - k) >= 0
      BY <1>2, <1>4, <2>1
    <3>2. A * (K - k) = ((A * K) - d) - A
      BY <1>2, <1>4, <2>1, <2>2
    <3>3. A * K \in Int
      BY <1>2, <1>4
    <3> DEFINE u == A * K
               v == A * (K - k)
    <3>4. v >= 0 /\ v = (u - d) - A /\ u \in Int /\ u < z + A
      BY <1>4, <3>1, <3>2, <3>3
    <3> HIDE DEF u, v, d, A
    <3> QED BY <1>2, <2>2, <3>4
  <2> HIDE DEF d
  <2>5. b + d \in Mults /\ b + d \in Int
    BY <1>3, <2>3, MultsClosed
  <2>6. b <= b + d /\ b + d < b + z /\ b + d < mem_max_addr /\ A <= b + d
    BY <1>1, <1>2, <1>3, <2>2, <2>4
  <2>7. b + d \in Cells
    BY <2>5, <2>6, CellsAre
  <2>8. m[b + d] = Fill(i)
    BY <1>1, <2>6, <2>7
  <2> QED BY <2>8 DEF d
<1>6. PayloadAt(m, b, z) = [lo |-> b, size |-> z, words |-> [k \in 1 .. K |-> m[b + (k - 1) * A]]]
  BY <1>4 DEF PayloadAt
<1>7. [k \in 1 .. K |-> m[b + (k - 1) * A]] = [k \in 1 .. K |-> Fill(i)]
  BY <1>5
<1>8. Store!Filled(i, b, z) = [lo |-> b, size |-> z, words |-> [k \in 1 .. K |-> Fill(i)]]
  BY DEF Store!Filled, K
<1>9. None # Store!Filled(i, b, z)
  BY <1>1, NoneAssumption
<1> QED BY <1>6, <1>7, <1>8, <1>9 DEF b, z

\* The abstract store with payloads for the ids in L.
StoreOf(B, Z, L) == [j \in Ids |-> IF j \in L THEN Store!Filled(j, B[j], Z[j]) ELSE None]

LEMMA StoreAt ==
  ASSUME NEW m, NEW B \in [Ids -> {NULL} \cup Cells], NEW Z, NEW L,
         L = {j \in Ids : B[j] # NULL}, Intact(m, B, Z, L)
  PROVE  /\ [j \in Ids |-> IF B[j] = NULL THEN None ELSE PayloadAt(m, B[j], Z[j])] = StoreOf(B, Z, L)
         /\ \A j \in L : Store!Filled(j, B[j], Z[j]) # None
<1>1. ASSUME NEW j \in L
      PROVE  /\ PayloadAt(m, B[j], Z[j]) = Store!Filled(j, B[j], Z[j])
             /\ Store!Filled(j, B[j], Z[j]) # None
  BY FilledAt
<1>2. \A j \in Ids : (IF B[j] = NULL THEN None ELSE PayloadAt(m, B[j], Z[j]))
                       = (IF j \in L THEN Store!Filled(j, B[j], Z[j]) ELSE None)
  BY <1>1
<1> QED BY <1>1, <1>2 DEF StoreOf

LEMMA StoreIs ==
  ASSUME IInv
  PROVE  /\ [j \in Ids |-> Payload(j)] = StoreOf(blocks, block_sizes, Live)
         /\ \A j \in Live : Store!Filled(j, blocks[j], block_sizes[j]) # None
<1>1. blocks \in [Ids -> {NULL} \cup Cells] /\ Intact(heap.mem, blocks, block_sizes, Live)
  BY DEF IInv, TypeOK
<1>2. Live = {j \in Ids : blocks[j] # NULL}
  BY DEF Live
<1>3. /\ [j \in Ids |-> IF blocks[j] = NULL THEN None ELSE PayloadAt(heap.mem, blocks[j], block_sizes[j])]
           = StoreOf(blocks, block_sizes, Live)
      /\ \A j \in Live : Store!Filled(j, blocks[j], block_sizes[j]) # None
  BY <1>1, <1>2, StoreAt
<1>4. \A j \in Ids : Payload(j) = IF blocks[j] = NULL THEN None
                                  ELSE PayloadAt(heap.mem, blocks[j], block_sizes[j])
  BY DEF Payload, PayloadAt
<1> QED BY <1>3, <1>4

LEMMA StoreIsNext ==
  ASSUME IInv'
  PROVE  [j \in Ids |-> Payload(j)'] = StoreOf(blocks', block_sizes', Live')
<1>1. blocks' \in [Ids -> {NULL} \cup Cells] /\ Intact(heap'.mem, blocks', block_sizes', Live')
  BY DEF IInv, TypeOK
<1>2. Live' = {j \in Ids : blocks'[j] # NULL}
  BY DEF Live
<1>3. [j \in Ids |-> IF blocks'[j] = NULL THEN None ELSE PayloadAt(heap'.mem, blocks'[j], block_sizes'[j])]
        = StoreOf(blocks', block_sizes', Live')
  BY <1>1, <1>2, StoreAt
<1>4. \A j \in Ids : Payload(j)' = IF blocks'[j] = NULL THEN None
                                   ELSE PayloadAt(heap'.mem, blocks'[j], block_sizes'[j])
  BY DEF Payload, PayloadAt
<1> QED BY <1>3, <1>4

\* A new payload lies apart from the live ones.
LEMMA ObtainStep ==
  ASSUME IInv, IInv', verdict = "running", NEW i \in Ids, NEW n \in Sizes, Stores(i, n)
  PROVE  Store!Obtain(i)
<1> DEFINE P  == [j \in Ids |-> Payload(j)]
           P2 == [j \in Ids |-> Payload(j)']
<1>1. PICK h, p : Remember(i, h, p, n)
  BY DEF Stores
<1>2. Live' = Live \cup {i} /\ Live \subseteq Ids
  BY DEF Stores, Live
<1>3. /\ blocks' = [blocks EXCEPT ![i] = p] /\ block_sizes' = [block_sizes EXCEPT ![i] = n]
      /\ verdict' = "running"
  BY <1>1 DEF Remember
<1>4. blocks \in [Ids -> {NULL} \cup Cells] /\ block_sizes \in [Ids -> {0} \cup Sizes]
  BY DEF IInv, TypeOK
<1>5. /\ blocks'[i] = p /\ block_sizes'[i] = n
      /\ \A j \in Ids : j # i => blocks'[j] = blocks[j] /\ block_sizes'[j] = block_sizes[j]
  BY <1>3, <1>4
<1>6. PICK S : Holds(heap', S, blocks', block_sizes', Live')
  BY <1>3 DEF IInv
<1>7. /\ HeapOK(heap', S) /\ Allocated(heap'.mem, S) = {Base} \cup Starts(blocks', Live')
      /\ Filling(heap'.mem, blocks', block_sizes', Live')
  BY <1>6 DEF Holds
<1>8. \A j \in Live' : blocks'[j] \in Allocated(heap'.mem, S)
  BY <1>7 DEF Starts
<1>9. /\ p \in Allocated(heap'.mem, S) /\ n + D <= SizeAt(heap'.mem, p)
  BY <1>2, <1>5, <1>7, <1>8 DEF Filling
<1>10. /\ p \in S /\ p \in Cells /\ p \in Mults /\ p \in Int /\ SizeAt(heap'.mem, p) \in Nat
       /\ EndOf(heap'.mem, p) = p + SizeAt(heap'.mem, p)
       /\ \A c \in S : p < c => EndOf(heap'.mem, p) <= c
  BY <1>7, <1>9, HeldFacts
<1>11. p % ALIGNMENT = 0
  <2>1. 0 \in 0 .. ALIGNMENT - 1 /\ p + 0 = p
    BY <1>10, WordSizes
  <2> QED BY <1>10, <2>1, ModMult
<1>12. ASSUME NEW j \in Live, j # i
       PROVE  p + n <= blocks[j] \/ blocks[j] + block_sizes[j] <= p
  <2> DEFINE b == blocks[j]
             z == block_sizes[j]
  <2>1. b = blocks'[j] /\ z = block_sizes'[j] /\ j \in Live'
    BY <1>2, <1>5, <1>12
  <2>2. /\ b \in Allocated(heap'.mem, S) /\ z \in Sizes /\ z + D <= SizeAt(heap'.mem, b) /\ b # p
    BY <1>2, <1>5, <1>7, <1>8, <1>12, <2>1 DEF Filling
  <2> HIDE DEF b, z
  <2>3. /\ b \in S /\ b \in Int /\ SizeAt(heap'.mem, b) \in Nat
        /\ EndOf(heap'.mem, b) = b + SizeAt(heap'.mem, b)
        /\ \A c \in S : b < c => EndOf(heap'.mem, b) <= c
    BY <1>7, <2>2, HeldFacts
  <2>4. z \in Nat /\ n \in Nat /\ D \in Nat
    BY <2>2, SizesFacts, WordSizes
  <2>5. (p < b => EndOf(heap'.mem, p) <= b) /\ (b < p => EndOf(heap'.mem, b) <= p)
    BY <1>10, <2>3
  <2> DEFINE sp == SizeAt(heap'.mem, p)
             sb == SizeAt(heap'.mem, b)
  <2>6. /\ sp \in Nat /\ sb \in Nat /\ n + D <= sp /\ z + D <= sb
        /\ p < b => p + sp <= b
        /\ b < p => b + sb <= p
    BY <1>9, <1>10, <2>2, <2>3, <2>5
  <2> HIDE DEF sp, sb
  <2>7. p + n <= b \/ b + z <= p
    BY <1>10, <2>2, <2>3, <2>4, <2>6
  <2> QED BY <2>7 DEF b, z
<1>13. /\ P = StoreOf(blocks, block_sizes, Live)
       /\ \A j \in Live : Store!Filled(j, blocks[j], block_sizes[j]) # None
  BY StoreIs
<1>14. P2 = StoreOf(blocks', block_sizes', Live')
  BY StoreIsNext
<1>15. \A j \in Ids : P[j] = IF j \in Live THEN Store!Filled(j, blocks[j], block_sizes[j]) ELSE None
  BY <1>13 DEF StoreOf
<1>16. \A j \in Ids : P2[j] = IF j \in Live' THEN Store!Filled(j, blocks'[j], block_sizes'[j]) ELSE None
  BY <1>14 DEF StoreOf
<1>17. P2 = [P EXCEPT ![i] = Store!Filled(i, p, n)]
  <2>1. ASSUME NEW j \in Ids PROVE P2[j] = [P EXCEPT ![i] = Store!Filled(i, p, n)][j]
    <3> HIDE DEF P, P2
    <3>1. CASE j = i
      <4>1. P2[i] = Store!Filled(i, p, n)
        BY <1>2, <1>5, <1>16
      <4>2. P \in [Ids -> {P[k] : k \in Ids}]
        BY DEF P
      <4> QED BY <3>1, <4>1, <4>2
    <3>2. CASE j # i
      <4>1. P2[j] = P[j]
        BY <1>2, <1>5, <1>15, <1>16, <3>2
      <4> QED BY <3>2, <4>1 DEF P
    <3> QED BY <3>1, <3>2
  <2> DEFINE Q == [P EXCEPT ![i] = Store!Filled(i, p, n)]
  <2>2. \A j \in Ids : P2[j] = Q[j]
    BY <2>1
  <2>3. P2 = [j \in Ids |-> P2[j]] /\ Q = [j \in Ids |-> Q[j]]
    OBVIOUS
  <2> HIDE DEF P2, Q
  <2>4. P2 = Q
    BY <2>2, <2>3
  <2> QED BY <2>4 DEF Q
<1>18. ASSUME NEW j \in Store!Live, j # i PROVE Store!Disjoint(p, n, P[j])
  <2>1. j \in Ids /\ P[j] # None
    BY DEF Store!Live
  <2> HIDE DEF P
  <2>2. j \in Live /\ P[j] = Store!Filled(j, blocks[j], block_sizes[j])
    BY <1>15, <2>1
  <2>3. P[j].lo = blocks[j] /\ P[j].size = block_sizes[j]
    BY <2>2 DEF Store!Filled
  <2> QED BY <1>12, <1>18, <2>2, <2>3 DEF Store!Disjoint
<1> QED BY <1>3, <1>10, <1>11, <1>17, <1>18 DEF Store!Obtain

LEMMA FreeStep ==
  ASSUME IInv, IInv', NEW i \in Ids, Free(i), Live' = Live \ {i}
  PROVE  Store!Free(i)
<1> DEFINE P  == [j \in Ids |-> Payload(j)]
           P2 == [j \in Ids |-> Payload(j)']
<1>1. /\ verdict = "running" /\ i \in Live /\ verdict' = verdict
      /\ blocks' = [blocks EXCEPT ![i] = NULL] /\ block_sizes' = [block_sizes EXCEPT ![i] = 0]
  BY DEF Free
<1>2. blocks \in [Ids -> {NULL} \cup Cells] /\ block_sizes \in [Ids -> {0} \cup Sizes]
  BY DEF IInv, TypeOK
<1>3. \A j \in Ids : j # i => blocks'[j] = blocks[j] /\ block_sizes'[j] = block_sizes[j]
  BY <1>1, <1>2
<1>4. /\ \A j \in Ids : P[j] = IF j \in Live THEN Store!Filled(j, blocks[j], block_sizes[j]) ELSE None
      /\ \A j \in Live : Store!Filled(j, blocks[j], block_sizes[j]) # None
  BY StoreIs DEF StoreOf
<1>5. \A j \in Ids : P2[j] = IF j \in Live' THEN Store!Filled(j, blocks'[j], block_sizes'[j]) ELSE None
  BY StoreIsNext DEF StoreOf
<1>6. i \in Store!Live
  <2>1. P[i] # None
    BY <1>1, <1>4
  <2> QED BY <2>1 DEF Store!Live
<1>7. P2 = [P EXCEPT ![i] = None]
  <2> DEFINE Q == [P EXCEPT ![i] = None]
  <2>1. ASSUME NEW j \in Ids PROVE P2[j] = Q[j]
    <3>1. Q[j] = IF j = i THEN None ELSE P[j]
      OBVIOUS
    <3> HIDE DEF P, P2, Q
    <3> QED BY <1>3, <1>4, <1>5, <3>1
  <2>2. P2 = [j \in Ids |-> P2[j]] /\ Q = [j \in Ids |-> Q[j]]
    OBVIOUS
  <2> HIDE DEF P2, Q
  <2>3. P2 = Q
    BY <2>1, <2>2
  <2> QED BY <2>3 DEF Q
<1> QED BY <1>1, <1>6, <1>7 DEF Store!Free

LEMMA InitImplements == Init => Store!Init
<1> SUFFICES ASSUME Init PROVE Store!Init
  OBVIOUS
<1>1. blocks = [i \in Ids |-> NULL] /\ verdict = "idle"
  BY DEF Init
<1>2. \A i \in Ids : Payload(i) = None
  BY <1>1 DEF Payload
<1> QED BY <1>1, <1>2 DEF Store!Init

LEMMA NextImplements == IInv /\ IInv' /\ [Next]_vars => [Store!Next]_(Store!allocVars)
<1> SUFFICES ASSUME IInv, IInv', [Next]_vars PROVE [Store!Next]_(Store!allocVars)
  OBVIOUS
<1>1. CASE StartTrace
  <2>1. Live' = {} /\ verdict' = "running"
    BY <1>1, StartTraceIInv
  <2>2. \A j \in Ids : blocks'[j] = NULL
    BY <1>1 DEF StartTrace
  <2>3. \A j \in Ids : Payload(j)' = None
    BY <2>2 DEF Payload
  <2>4. Store!Start
    BY <2>1, <2>3 DEF Store!Start
  <2> QED BY <2>4 DEF Store!Next
<1>2. ASSUME NEW i \in Ids, Free(i) PROVE Store!Next
  <2>1. Store!Free(i)
    BY <1>2, FreeIInv, FreeStep
  <2> QED BY <2>1 DEF Store!Next
<1>3. ASSUME verdict = "running", Stops PROVE Store!Exhausted
  <2>1. /\ blocks' = blocks /\ block_sizes' = block_sizes
        /\ verdict' \in {"out of memory", "data lost"}
    BY <1>3 DEF Stops
  <2>2. Live' = Live
    BY <2>1 DEF Live
  <2>3. [j \in Ids |-> Payload(j)'] = [j \in Ids |-> Payload(j)]
    BY <2>1, <2>2, StoreIs, StoreIsNext
  <2> QED BY <1>3, <2>1, <2>3 DEF Store!Exhausted
<1>4. ASSUME NEW i \in Ids, NEW n \in Sizes, Alloc(i, n) PROVE Store!Next
  <2>1. verdict = "running" /\ (Stops \/ Stores(i, n))
    BY <1>4, AllocIInv DEF Alloc
  <2>2. CASE Stops
    BY <1>3, <2>1, <2>2 DEF Store!Next
  <2>3. CASE Stores(i, n)
    <3>1. Store!Obtain(i)
      BY <2>1, <2>3, ObtainStep
    <3> QED BY <3>1 DEF Store!Next
  <2> QED BY <2>1, <2>2, <2>3
<1>5. ASSUME NEW i \in Ids, NEW n \in Sizes, Realloc(i, n) PROVE Store!Next
  <2>1. verdict = "running" /\ (Stops \/ Stores(i, n))
    BY <1>5, ReallocIInv DEF Realloc
  <2>2. CASE Stops
    BY <1>3, <2>1, <2>2 DEF Store!Next
  <2>3. CASE Stores(i, n)
    <3>1. Store!Obtain(i)
      BY <2>1, <2>3, ObtainStep
    <3> QED BY <3>1 DEF Store!Next
  <2> QED BY <2>1, <2>2, <2>3
<1>6. CASE UNCHANGED vars
  <2>1. /\ heap' = heap /\ blocks' = blocks /\ block_sizes' = block_sizes /\ verdict' = verdict
    BY <1>6 DEF vars
  <2>2. \A j : Payload(j)' = Payload(j)
    BY <2>1 DEF Payload
  <2> QED BY <2>1, <2>2 DEF Store!allocVars
<1> QED BY <1>1, <1>2, <1>4, <1>5, <1>6 DEF Next

\* mm.c under its driver keeps the promise of malloc: a live payload keeps its place and
\* what was stored in it whatever is done to the others, and a new one lies apart from
\* all of them; a request that finds no room leaves everything as it was.
THEOREM ImplementsTheStore == Spec => ImplementsAlloc
BY InitImplements, IInvHolds, NextImplements, PTL DEF Spec, ImplementsAlloc, Store!Spec
=============================================================================
