-------------------------------- MODULE Csim --------------------------------
(***************************************************************************)
(* The cache simulator (cachelab-handout/csim.c).  The simulated cache is  *)
(* one flat array of lines; set s is the stretch of format.lines entries   *)
(* from s * lines on.  Within a set the most recently used line is kept    *)
(* last, so the line to evict is the first.                                *)
(*                                                                         *)
(* Each step is one line of the trace file.  The printing variants (-v)    *)
(* change the state exactly as the silent ones do.                         *)
(***************************************************************************)
EXTENDS Integers, FiniteSets

CONSTANTS
  set_bits, block_bits, lines,   \* format: -s, -b and -E
  AddrBits,                      \* width of unsigned int (32)
  TraceAddrs,                    \* addresses that occur in the trace
  CountBound                     \* model bound on the counters

\* checkCommand refuses a zero, and shifting by the width of the type or more
\* is undefined in C.
ASSUME CsimAssumption ==
  /\ set_bits \in Nat \ {0} /\ block_bits \in Nat \ {0} /\ lines \in Nat \ {0}
  /\ AddrBits \in Nat /\ set_bits + block_bits < AddrBits
  /\ TraceAddrs \subseteq Nat
  /\ CountBound \in Nat

\* The powers of two above are positive integers (no prover here computes ^).
ASSUME CsimPowers ==
  \A n \in {set_bits, block_bits, block_bits + set_bits, AddrBits} : 2^n \in Nat \ {0}

VARIABLES
  cache,      \* the flat array of cache_line
  statinfo,   \* hits, misses, evictions
  addrinfo    \* the set and tag of the address last parsed

vars == <<cache, statinfo, addrinfo>>

SetIds == 0 .. 2^set_bits - 1

\* fscanf("%x") into an unsigned int keeps the low AddrBits bits; parseAddr
\* then cuts them into tag, set index and block offset.
Parsed(a) == a % 2^AddrBits

tag(a) == Parsed(a) \div 2^(block_bits + set_bits)
set_index(a) == (Parsed(a) \div 2^block_bits) % 2^set_bits

\* initCacheTable: 2 << set_bits sets, which is twice as many as set_index
\* reaches.
Indices == 0 .. 2 * 2^set_bits * lines - 1

\* Before the first address addrinfo holds what malloc left there; nothing reads it.
NoAddr == [set_index |-> -1, tag |-> -1]

Init ==
  /\ cache = [i \in Indices |-> [valid |-> 0, tag |-> 2^AddrBits - 1]]
  /\ statinfo = [hits |-> 0, misses |-> 0, evictions |-> 0]
  /\ addrinfo = NoAddr

SetStart(s) == s * lines
SetEnd(s) == (s + 1) * lines
Lines(s) == SetStart(s) .. SetEnd(s) - 1

First(S) == CHOOSE i \in S : \A k \in S : i <= k

\* refreshCache: line index goes to the end of its set, those after it move down.
refreshCache(c, index, s) ==
  [i \in Indices |->
     IF i \in index .. SetEnd(s) - 2 THEN c[i + 1]
     ELSE IF i = SetEnd(s) - 1 THEN c[index]
     ELSE c[i]]

HitLines(s, t) == {i \in Lines(s) : cache[i].tag = t /\ cache[i].valid = 1}
FreeLines(s) == {i \in Lines(s) : cache[i].valid = 0}

\* Mutant: a hit does not refresh the line (first in, first out).
Hit_NoRefresh(a) == HitLines(set_index(a), tag(a)) # {} /\ UNCHANGED cache

\* inCachetable finds the block and makes it the most recent.
Hit(a) ==
  LET s == set_index(a)
      found == HitLines(s, tag(a))
  IN  /\ found # {}
      /\ cache' = refreshCache(cache, First(found), s)

\* writeCache: the first invalid line takes the block; if there is none, the
\* first line of the set is overwritten.
Miss(a) ==
  LET s == set_index(a)
      free == FreeLines(s)
      i == IF free # {} THEN First(free) ELSE SetStart(s)
  IN  /\ HitLines(s, tag(a)) = {}
      /\ cache' = refreshCache([cache EXCEPT ![i] = [valid |-> 1, tag |-> tag(a)]], i, s)

Evicts(a) == FreeLines(set_index(a)) = {}

\* do_L and do_S (again = 0), and do_M, which counts the store that follows its
\* load as one more hit (again = 1).
Do(a, again) ==
  /\ addrinfo' = [set_index |-> set_index(a), tag |-> tag(a)]
  /\ \/ /\ Hit(a)
        /\ statinfo' = [statinfo EXCEPT !.hits = @ + 1 + again]
     \/ /\ Miss(a)
        /\ statinfo' = [statinfo EXCEPT !.misses = @ + 1, !.hits = @ + again,
                                        !.evictions = IF Evicts(a) THEN @ + 1 ELSE @]

\* One line of the trace; instruction fetches are skipped.
Within == statinfo.hits < CountBound /\ statinfo.misses < CountBound

do_L(a) == Within /\ Do(a, 0)
do_S(a) == do_L(a)
do_M(a) == Within /\ Do(a, 1)

Next == \E a \in TraceAddrs : do_L(a) \/ do_S(a) \/ do_M(a)

Spec == Init /\ [][Next]_vars

-----------------------------------------------------------------------------
(* Properties.                                                             *)

TypeOK ==
  /\ cache \in [Indices -> [valid : {0, 1}, tag : 0 .. 2^AddrBits - 1]]
  /\ statinfo \in [hits : Nat, misses : Nat, evictions : Nat]
  /\ addrinfo \in {NoAddr} \cup [set_index : SetIds, tag : 0 .. 2^AddrBits - 1]

Valid(i) == cache[i].valid = 1

\* The valid lines of a set stand at its end: refreshCache moves a line just
\* filled past the invalid ones, so the order of the valid lines is that of
\* their last uses and the line at the start is the one to evict.
ValidLast ==
  \A s \in SetIds : \A i, j \in Lines(s) : Valid(i) /\ i < j => Valid(j)

\* A block is cached in one line at most, so one access refreshes all there is.
TagsUnique ==
  \A s \in SetIds : \A i, j \in Lines(s) :
    Valid(i) /\ Valid(j) /\ cache[i].tag = cache[j].tag => i = j

\* The least-recently-used cache this array stands for.
SetTags(s) == {cache[i].tag : i \in {j \in Lines(s) : Valid(j)}}
OlderTags(s) ==
  {uv \in SetTags(s) \X SetTags(s) :
     \E i, j \in Lines(s) :
       i < j /\ Valid(i) /\ Valid(j) /\ uv = <<cache[i].tag, cache[j].tag>>}

LRU == INSTANCE Lru WITH
  Tags <- 0 .. 2^AddrBits - 1,
  Ways <- lines,
  resident <- [s \in SetIds |-> SetTags(s)],
  older <- [s \in SetIds |-> OlderTags(s)],
  counts <- statinfo,
  request <- addrinfo

\* The simulator implements the least-recently-used cache.
ImplementsLru == LRU!Spec
=============================================================================
