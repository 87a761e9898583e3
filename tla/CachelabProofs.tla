--------------------------- MODULE CachelabProofs ---------------------------
(***************************************************************************)
(* Proofs about the cache simulator, for every geometry and trace, and     *)
(* about the transpose lab, for every shape TransAssumption admits, for    *)
(* arrays at any addresses and for a cache of any geometry.                *)
(*                                                                         *)
(* The simulator's properties rest on ValidLast: the valid lines of a set  *)
(* stand at its end.                                                       *)
(*                                                                         *)
(* Transposed is not inductive: that B is the transpose at the end needs   *)
(* that all of it was written and that no write spoiled an earlier one.    *)
(* Traced says how far a function is: what its first chunks cover is right *)
(* (Copied), and of the next one a part is read, or read and written       *)
(* (AtChunk).  ChunksCover says that the chunks leave nothing out, and     *)
(* ChunksInMatrix that none of them reaches beyond the matrix.             *)
(***************************************************************************)
EXTENDS Trans, NatFacts, FiniteSetTheorems

-----------------------------------------------------------------------------
(* The simulator: where the sets lie.                                      *)

Sets == 2^set_bits

LEMMA SetsPositive == Sets \in Nat \ {0} /\ SetIds = 0 .. Sets - 1 /\ lines \in Nat \ {0}
BY CsimAssumption, CsimPowers DEF Sets, SetIds

\* The stretches of two sets do not overlap and lie in the lower half of the array.
LEMMA SetLayout ==
  ASSUME NEW s \in SetIds
  PROVE  /\ SetStart(s) \in Nat /\ SetEnd(s) = SetStart(s) + lines
         /\ Lines(s) \subseteq 0 .. Sets * lines - 1
         /\ Lines(s) \subseteq Indices
         /\ \A r \in SetIds : r # s => Lines(r) \cap Lines(s) = {}
<1>1. Sets \in Nat \ {0} /\ SetIds = 0 .. Sets - 1 /\ lines \in Nat \ {0}
  BY SetsPositive
<1>2. \A x, y \in Nat : x < y => (x + 1) * lines <= y * lines
  BY <1>1
<1>3. \A x \in Nat : x * lines \in Nat /\ (x + 1) * lines = x * lines + lines
  BY <1>1
<1>4. SetStart(s) \in Nat /\ SetEnd(s) = SetStart(s) + lines
  BY <1>1, <1>3 DEF SetStart, SetEnd
<1>5. SetEnd(s) <= Sets * lines
  BY <1>1, <1>2 DEF SetEnd
<1>6. Sets * lines \in Nat /\ 2 * Sets * lines = 2 * (Sets * lines)
  BY <1>1, <1>3
<1>7. Lines(s) \subseteq 0 .. Sets * lines - 1
  BY <1>1, <1>4, <1>5, <1>6 DEF Lines
<1>8. Lines(s) \subseteq Indices
  BY <1>6, <1>7 DEF Indices, Sets
<1>9. ASSUME NEW r \in SetIds, r # s PROVE Lines(r) \cap Lines(s) = {}
  <2>1. SetStart(r) \in Nat /\ SetEnd(r) = SetStart(r) + lines
    BY <1>1, <1>3 DEF SetStart, SetEnd
  <2>2. SetEnd(r) <= SetStart(s) \/ SetEnd(s) <= SetStart(r)
    BY <1>1, <1>2, <1>9 DEF SetStart, SetEnd
  <2> QED BY <1>1, <1>4, <2>1, <2>2 DEF Lines
<1> QED BY <1>4, <1>7, <1>8, <1>9

LEMMA FirstIsLeast ==
  ASSUME NEW s \in SetIds, NEW S \in SUBSET Lines(s), S # {}
  PROVE  First(S) \in S /\ \A q \in S : First(S) <= q
<1>1. S \in SUBSET Nat
  BY SetLayout, SetsPositive DEF Lines
<1>2. \E p \in S : \A q \in S : p <= q
  BY <1>1, LeastNat
<1> QED BY <1>2 DEF First

\* parseAddr gives a set that exists and a tag that fits.
LEMMA ParseTyped ==
  ASSUME NEW a \in TraceAddrs
  PROVE  set_index(a) \in SetIds /\ tag(a) \in 0 .. 2^AddrBits - 1
<1>1. a \in Nat
  BY CsimAssumption
<1>2. /\ 2^AddrBits \in Nat \ {0} /\ 2^block_bits \in Nat \ {0} /\ 2^set_bits \in Nat \ {0}
      /\ 2^(block_bits + set_bits) \in Nat \ {0}
  BY CsimPowers
<1>3. \A x \in Nat, n \in Nat \ {0} : x % n \in 0 .. n - 1 /\ x \div n \in Nat /\ x \div n <= x
  OBVIOUS
<1>4. Parsed(a) \in 0 .. 2^AddrBits - 1
  BY <1>1, <1>2, <1>3 DEF Parsed
<1>5. Parsed(a) \in Nat
  BY <1>2, <1>4
<1>6. set_index(a) \in SetIds
  BY <1>2, <1>3, <1>5 DEF set_index, SetIds
<1>7. tag(a) \in Nat /\ tag(a) <= Parsed(a)
  BY <1>2, <1>3, <1>5 DEF tag
<1> QED BY <1>2, <1>4, <1>6, <1>7

-----------------------------------------------------------------------------
(* The shape of the array.                                                 *)

IInv == TypeOK /\ ValidLast /\ TagsUnique

\* What one access does to the array: every other set keeps its lines; in set s
\* the line index goes, those after it move down and line is the last.
Shifted(s, index, line) ==
  cache' = [p \in Indices |->
              IF p \in index .. SetEnd(s) - 2 THEN cache[p + 1]
              ELSE IF p = SetEnd(s) - 1 THEN line
              ELSE cache[p]]

Filled(a) == [valid |-> 1, tag |-> tag(a)]

\* A hit moves the line that holds the block to the end.
LEMMA HitShifts ==
  ASSUME TypeOK, NEW a \in TraceAddrs, Hit(a)
  PROVE  \E p \in Lines(set_index(a)) :
           cache[p] = Filled(a) /\ Shifted(set_index(a), p, Filled(a))
<1> DEFINE s == set_index(a)
           p == First(HitLines(s, tag(a)))
<1>1. s \in SetIds
  BY ParseTyped
<1>2. HitLines(s, tag(a)) \in SUBSET Lines(s) /\ HitLines(s, tag(a)) # {}
  BY DEF HitLines, Hit
<1>3. p \in HitLines(s, tag(a))
  BY <1>1, <1>2, FirstIsLeast
<1>4. p \in Lines(s) /\ cache[p].tag = tag(a) /\ cache[p].valid = 1
  BY <1>3 DEF HitLines
<1>5. p \in Indices
  BY <1>1, <1>4, SetLayout
<1>6. cache[p] = Filled(a)
  BY <1>4, <1>5 DEF TypeOK, Filled
<1>7. cache' = refreshCache(cache, p, s)
  BY DEF Hit
<1>8. Shifted(s, p, Filled(a))
  BY <1>6, <1>7 DEF Shifted, refreshCache
<1> QED BY <1>4, <1>6, <1>8

\* A miss drops the line at the start of the set: ValidLast says that it is an
\* invalid one if there is any.
LEMMA MissShifts ==
  ASSUME TypeOK, ValidLast, NEW a \in TraceAddrs, Miss(a)
  PROVE  Shifted(set_index(a), SetStart(set_index(a)), Filled(a))
<1> DEFINE s == set_index(a)
           p == IF FreeLines(s) # {} THEN First(FreeLines(s)) ELSE SetStart(s)
<1>1. s \in SetIds /\ FreeLines(s) \in SUBSET Lines(s)
  BY ParseTyped DEF FreeLines
<1>2. SetStart(s) \in Lines(s) /\ \A q \in Lines(s) : SetStart(s) <= q /\ q \in Indices /\ q \in Int
  BY <1>1, SetLayout, SetsPositive DEF Lines
<1>3. p = SetStart(s)
  <2>1. CASE FreeLines(s) # {}
    <3>1. First(FreeLines(s)) \in FreeLines(s) /\ \A q \in FreeLines(s) : First(FreeLines(s)) <= q
      BY <1>1, <2>1, FirstIsLeast
    <3>2. First(FreeLines(s)) \in Lines(s) /\ ~Valid(First(FreeLines(s)))
      BY <3>1 DEF FreeLines, Valid
    <3>3. ~Valid(SetStart(s))
      BY <1>1, <1>2, <3>2 DEF ValidLast
    <3>4. SetStart(s) \in FreeLines(s)
      BY <1>2, <3>3 DEF FreeLines, Valid, TypeOK
    <3>5. First(FreeLines(s)) \in Int /\ SetStart(s) \in Int
      BY <1>2, <3>2
    <3> QED BY <1>2, <2>1, <3>1, <3>2, <3>4, <3>5
  <2>2. CASE FreeLines(s) = {}
    BY <2>2
  <2> QED BY <2>1, <2>2
<1>4. cache' = refreshCache([cache EXCEPT ![p] = Filled(a)], p, s)
  BY DEF Miss, Filled
<1>5. /\ SetStart(s) \in Int /\ SetEnd(s) \in Int /\ SetStart(s) \in Indices
      /\ \A q \in SetStart(s) .. SetEnd(s) - 2 : q + 1 # SetStart(s)
      /\ SetStart(s) <= SetEnd(s) - 1
      /\ \A q \in SetStart(s) .. SetEnd(s) - 2 : q + 1 \in Indices
  <2>1. SetStart(s) \in Nat /\ SetEnd(s) = SetStart(s) + lines
    BY <1>1, SetLayout
  <2>2. \A q \in SetStart(s) .. SetEnd(s) - 2 : q + 1 \in Lines(s)
    BY <2>1, SetsPositive DEF Lines
  <2> QED BY <1>2, <2>1, <2>2, SetsPositive
<1>6. cache \in [Indices -> [valid : {0, 1}, tag : 0 .. 2^AddrBits - 1]]
  BY DEF TypeOK
<1>7. Shifted(s, p, Filled(a))
  <2>1. \A q \in Indices : [cache EXCEPT ![p] = Filled(a)][q] = IF q = p THEN Filled(a) ELSE cache[q]
    BY <1>6
  <2> HIDE DEF p
  <2> QED BY <1>3, <1>4, <1>5, <2>1 DEF Shifted, refreshCache
<1> QED BY <1>3, <1>7

\* The lines after an access, set by set.
LEMMA ShiftedLines ==
  ASSUME NEW s \in SetIds, NEW index \in Lines(s), NEW line, Shifted(s, index, line)
  PROVE  /\ \A r \in SetIds : r # s => \A p \in Lines(r) : cache'[p] = cache[p]
         /\ \A p \in Lines(s) : p < index => cache'[p] = cache[p]
         /\ \A p \in Lines(s) : index <= p /\ p # SetEnd(s) - 1 =>
              p + 1 \in Lines(s) /\ cache'[p] = cache[p + 1]
         /\ SetEnd(s) - 1 \in Lines(s) /\ cache'[SetEnd(s) - 1] = line
         /\ \A p \in Lines(s) : p <= SetEnd(s) - 1 /\ p \in Int
<1>1. SetStart(s) \in Nat /\ SetEnd(s) = SetStart(s) + lines /\ lines \in Nat \ {0}
  BY SetLayout, SetsPositive
<1>2. Lines(s) = SetStart(s) .. SetEnd(s) - 1 /\ index \in Int /\ SetStart(s) <= index
  BY <1>1 DEF Lines
<1>3. \A r \in SetIds : Lines(r) \subseteq Indices
  BY SetLayout
<1>4. ASSUME NEW r \in SetIds, r # s, NEW p \in Lines(r) PROVE cache'[p] = cache[p]
  <2>1. p \notin Lines(s) /\ p \in Indices
    BY <1>3, <1>4, SetLayout
  <2>2. p \notin index .. SetEnd(s) - 2 /\ p # SetEnd(s) - 1
    BY <1>1, <1>2, <2>1
  <2> QED BY <2>1, <2>2 DEF Shifted
<1>5. \A p \in Lines(s) : p \in Indices /\ p \in Int /\ p <= SetEnd(s) - 1
  BY <1>1, <1>2, <1>3
<1>6. ASSUME NEW p \in Lines(s), p < index PROVE cache'[p] = cache[p]
  <2>1. p \notin index .. SetEnd(s) - 2 /\ p # SetEnd(s) - 1
    BY <1>1, <1>2, <1>5, <1>6
  <2> QED BY <1>5, <2>1 DEF Shifted
<1>7. ASSUME NEW p \in Lines(s), index <= p, p # SetEnd(s) - 1
      PROVE  p + 1 \in Lines(s) /\ cache'[p] = cache[p + 1]
  <2>1. p \in index .. SetEnd(s) - 2 /\ p + 1 \in Lines(s)
    BY <1>1, <1>2, <1>5, <1>7
  <2> QED BY <1>5, <2>1 DEF Shifted
<1>8. SetEnd(s) - 1 \in Lines(s) /\ SetEnd(s) - 1 \notin index .. SetEnd(s) - 2
  BY <1>1, <1>2
<1>9. cache'[SetEnd(s) - 1] = line
  BY <1>5, <1>8 DEF Shifted
<1> QED BY <1>4, <1>5, <1>6, <1>7, <1>8, <1>9

\* Both ways at once: an access drops one line of the set, and no other valid
\* line of the set holds the block.
LEMMA AccessShifts ==
  ASSUME IInv, NEW a \in TraceAddrs, Hit(a) \/ Miss(a)
  PROVE  \E index \in Lines(set_index(a)) :
           /\ Shifted(set_index(a), index, Filled(a))
           /\ \A q \in Lines(set_index(a)) : Valid(q) /\ cache[q].tag = tag(a) => q = index
           /\ Hit(a) => cache[index] = Filled(a)
           /\ Miss(a) => index = SetStart(set_index(a))
<1> DEFINE s == set_index(a)
<1>1. s \in SetIds
  BY ParseTyped
<1>2. CASE Hit(a)
  <2>1. PICK p \in Lines(s) : cache[p] = Filled(a) /\ Shifted(s, p, Filled(a))
    BY <1>2, HitShifts DEF IInv
  <2>2. Valid(p) /\ cache[p].tag = tag(a)
    BY <2>1 DEF Valid, Filled
  <2>3. \A q \in Lines(s) : Valid(q) /\ cache[q].tag = tag(a) => q = p
    BY <1>1, <2>2 DEF IInv, TagsUnique
  <2>4. ~Miss(a)
    BY <1>2 DEF Hit, Miss
  <2> QED BY <2>1, <2>3, <2>4
<1>3. CASE Miss(a)
  <2>1. Shifted(s, SetStart(s), Filled(a))
    BY <1>3, MissShifts DEF IInv
  <2>2. SetStart(s) \in Lines(s)
    BY <1>1, SetLayout, SetsPositive DEF Lines
  <2>3. \A q \in Lines(s) : Valid(q) => cache[q].tag # tag(a)
    BY <1>3 DEF Miss, HitLines, Valid
  <2>4. ~Hit(a)
    BY <1>3 DEF Hit, Miss
  <2> QED BY <2>1, <2>2, <2>3, <2>4
<1> QED BY <1>2, <1>3

LEMMA CacheTyped ==
  ASSUME IInv, NEW a \in TraceAddrs, Hit(a) \/ Miss(a)
  PROVE  cache' \in [Indices -> [valid : {0, 1}, tag : 0 .. 2^AddrBits - 1]]
<1> DEFINE s == set_index(a)
           L == [valid : {0, 1}, tag : 0 .. 2^AddrBits - 1]
<1>1. s \in SetIds /\ Filled(a) \in L
  BY ParseTyped DEF Filled
<1>2. PICK index \in Lines(s) : Shifted(s, index, Filled(a))
  BY AccessShifts
<1>3. \A p \in index .. SetEnd(s) - 2 : p + 1 \in Indices
  <2>1. SetStart(s) \in Nat /\ SetEnd(s) = SetStart(s) + lines /\ Lines(s) \subseteq Indices
    BY <1>1, SetLayout
  <2>2. \A p \in index .. SetEnd(s) - 2 : p + 1 \in Lines(s)
    BY <2>1, SetsPositive DEF Lines
  <2> QED BY <2>1, <2>2
<1>4. cache \in [Indices -> L]
  BY DEF IInv, TypeOK
<1>5. ASSUME NEW p \in Indices PROVE cache'[p] \in L
  <2> HIDE DEF L
  <2>1. CASE p \in index .. SetEnd(s) - 2
    BY <1>2, <1>3, <1>4, <2>1 DEF Shifted
  <2>2. CASE p \notin index .. SetEnd(s) - 2
    BY <1>1, <1>2, <1>4, <2>2 DEF Shifted
  <2> QED BY <2>1, <2>2
<1>6. cache' = [p \in Indices |-> cache'[p]]
  BY <1>2 DEF Shifted
<1>7. cache' \in [Indices -> L]
  <2> HIDE DEF L
  <2> QED BY <1>5, <1>6
<1> QED BY <1>7

LEMMA ValidLastKept ==
  ASSUME IInv, NEW a \in TraceAddrs, Hit(a) \/ Miss(a)
  PROVE  ValidLast'
<1> DEFINE s == set_index(a)
           last == SetEnd(s) - 1
<1>1. s \in SetIds
  BY ParseTyped
<1>2. PICK index \in Lines(s) : Shifted(s, index, Filled(a))
  BY AccessShifts
<1>3. SUFFICES ASSUME NEW r \in SetIds, NEW p \in Lines(r), NEW j \in Lines(r),
                      cache'[p].valid = 1, p < j
               PROVE  cache'[j].valid = 1
  BY DEF ValidLast, Valid
<1>4. CASE r # s
  BY <1>1, <1>2, <1>3, <1>4, ShiftedLines DEF IInv, ValidLast, Valid
<1>5. CASE r = s /\ j = last
  <2>1. cache'[last] = Filled(a)
    BY <1>1, <1>2, ShiftedLines
  <2> QED BY <1>5, <2>1 DEF Filled
<1>6. CASE r = s /\ j # last
  <2>1. /\ p \in Int /\ j \in Int /\ p <= last /\ j <= last /\ index \in Int /\ last \in Int
    BY <1>1, <1>2, <1>6, ShiftedLines
  <2>2. CASE p < index
    <3>1. Valid(p)
      BY <1>1, <1>2, <1>3, <1>6, <2>2, ShiftedLines DEF Valid
    <3>2. \A q \in Lines(s) : p < q => Valid(q)
      BY <1>1, <1>6, <3>1 DEF IInv, ValidLast
    <3>3. cache'[j] = cache[j] \/ (j + 1 \in Lines(s) /\ cache'[j] = cache[j + 1])
      BY <1>1, <1>2, <1>6, <2>1, ShiftedLines
    <3> QED BY <1>3, <1>6, <2>1, <3>2, <3>3 DEF Valid
  <2>3. CASE index <= p
    <3>1. p + 1 \in Lines(s) /\ cache'[p] = cache[p + 1] /\ j + 1 \in Lines(s) /\ cache'[j] = cache[j + 1]
      BY <1>1, <1>2, <1>3, <1>6, <2>1, <2>3, ShiftedLines
    <3>2. p + 1 < j + 1
      BY <1>3, <2>1
    <3> QED BY <1>1, <1>3, <3>1, <3>2 DEF IInv, ValidLast, Valid
  <2> QED BY <2>1, <2>2, <2>3
<1> QED BY <1>4, <1>5, <1>6

LEMMA TagsUniqueKept ==
  ASSUME IInv, NEW a \in TraceAddrs, Hit(a) \/ Miss(a)
  PROVE  TagsUnique'
<1> DEFINE s == set_index(a)
           last == SetEnd(s) - 1
<1>1. s \in SetIds
  BY ParseTyped
<1>2. PICK index \in Lines(s) :
        /\ Shifted(s, index, Filled(a))
        /\ \A q \in Lines(s) : Valid(q) /\ cache[q].tag = tag(a) => q = index
  BY AccessShifts
<1>3. SUFFICES ASSUME NEW r \in SetIds, NEW p \in Lines(r), NEW j \in Lines(r),
                      cache'[p].valid = 1, cache'[j].valid = 1, cache'[p].tag = cache'[j].tag
               PROVE  p = j
  BY DEF TagsUnique, Valid
<1>4. CASE r # s
  BY <1>1, <1>2, <1>3, <1>4, ShiftedLines DEF IInv, TagsUnique, Valid
<1>5. CASE r = s
  \* Where line q of the new array was before the access.
  <2> DEFINE old(q) == IF q < index THEN q ELSE q + 1
  <2>1. ASSUME NEW q \in Lines(s), q # last
        PROVE  /\ old(q) \in Lines(s) /\ old(q) # index /\ cache'[q] = cache[old(q)]
               /\ q \in Int /\ index \in Int
    <3>1. q \in Int /\ index \in Int
      BY <1>1, <1>2, ShiftedLines
    <3>2. CASE q < index
      BY <1>1, <1>2, <3>1, <3>2, ShiftedLines
    <3>3. CASE ~(q < index)
      <4>1. q + 1 \in Lines(s) /\ cache'[q] = cache[q + 1]
        BY <1>1, <1>2, <2>1, <3>1, <3>3, ShiftedLines
      <4> QED BY <3>1, <3>3, <4>1
    <3> QED BY <3>2, <3>3
  <2>2. ASSUME NEW q \in Lines(s), q # last, cache'[q].valid = 1
        PROVE  cache'[q].tag # tag(a)
    BY <1>2, <2>1, <2>2 DEF Valid
  <2>3. cache'[last].tag = tag(a)
    BY <1>1, <1>2, ShiftedLines DEF Filled
  <2>4. CASE p # last /\ j # last
    <3>1. old(p) = old(j)
      BY <1>1, <1>3, <1>5, <2>1, <2>4 DEF IInv, TagsUnique, Valid
    <3> QED BY <1>5, <2>1, <2>4, <3>1
  <2> QED BY <1>3, <1>5, <2>2, <2>3, <2>4
<1> QED BY <1>4, <1>5

LEMMA InitIInv == Init => IInv
<1> SUFFICES ASSUME Init PROVE IInv
  OBVIOUS
<1>1. 2^AddrBits \in Nat \ {0}
  BY CsimPowers
<1>2. TypeOK
  BY <1>1 DEF Init, TypeOK
<1>3. \A r \in SetIds : \A p \in Lines(r) : ~Valid(p)
  BY SetLayout DEF Init, Valid
<1> QED BY <1>2, <1>3 DEF IInv, ValidLast, TagsUnique

\* Every line of the trace is a Do.
LEMMA NextDoes ==
  ASSUME Next
  PROVE  \E a \in TraceAddrs, again \in {0, 1} : Within /\ Do(a, again)
BY DEF Next, do_L, do_S, do_M

LEMMA NextIInv == IInv /\ [Next]_vars => IInv'
<1> SUFFICES ASSUME IInv, [Next]_vars PROVE IInv'
  OBVIOUS
<1>1. CASE Next
  <2>1. PICK a \in TraceAddrs, again \in {0, 1} : Do(a, again)
    BY <1>1, NextDoes
  <2>2. Hit(a) \/ Miss(a)
    BY <2>1 DEF Do
  <2>3. statinfo' \in [hits : Nat, misses : Nat, evictions : Nat]
    <3>1. statinfo \in [hits : Nat, misses : Nat, evictions : Nat] /\ again \in Nat
      BY DEF IInv, TypeOK
    <3>2. \A x \in Nat : x + 1 \in Nat /\ x + again \in Nat /\ x + 1 + again \in Nat
      BY <3>1
    <3>3. CASE statinfo' = [statinfo EXCEPT !.hits = @ + 1 + again]
      BY <3>1, <3>2, <3>3
    <3>4. CASE statinfo' = [statinfo EXCEPT !.misses = @ + 1, !.hits = @ + again,
                                     !.evictions = IF Evicts(a) THEN @ + 1 ELSE @]
      BY <3>1, <3>2, <3>4
    <3> QED BY <2>1, <3>3, <3>4 DEF Do
  <2>4. addrinfo' \in {NoAddr} \cup [set_index : SetIds, tag : 0 .. 2^AddrBits - 1]
    BY <2>1, ParseTyped DEF Do
  <2> QED BY <2>2, <2>3, <2>4, CacheTyped, ValidLastKept, TagsUniqueKept DEF IInv, TypeOK
<1>2. CASE UNCHANGED vars
  BY <1>2 DEF vars, IInv, TypeOK, ValidLast, TagsUnique, Valid
<1> QED BY <1>1, <1>2

THEOREM IInvHolds == Spec => []IInv
BY InitIInv, NextIInv, PTL DEF Spec

\* The array and the counters keep their types.
THEOREM TypeCorrect == Spec => []TypeOK
BY IInvHolds, PTL DEF IInv

\* The valid lines of a set are its last ones.
THEOREM ValidLastHolds == Spec => []ValidLast
BY IInvHolds, PTL DEF IInv

\* No block is in two lines.
THEOREM TagsUniqueHolds == Spec => []TagsUnique
BY IInvHolds, PTL DEF IInv

-----------------------------------------------------------------------------
(* The array implements the least-recently-used cache of Lru.tla.          *)

\* The tags that an access to set s leaves in place beside the block it is for.
Keep(s, index) == {cache[q].tag : q \in {j \in Lines(s) \ {index} : Valid(j)}}

LEMMA OtherSetsSame ==
  ASSUME NEW s \in SetIds, NEW index \in Lines(s), NEW line, Shifted(s, index, line),
         NEW r \in SetIds, r # s
  PROVE  SetTags(r)' = SetTags(r) /\ OlderTags(r)' = OlderTags(r)
<1>1. \A p \in Lines(r) : cache'[p] = cache[p]
  BY ShiftedLines
<1>2. SetTags(r)' = SetTags(r)
  BY <1>1 DEF SetTags, Valid
<1>3. \A uv : (\E p, j \in Lines(r) : p < j /\ cache'[p].valid = 1 /\ cache'[j].valid = 1
                                     /\ uv = <<cache'[p].tag, cache'[j].tag>>)
           <=> (\E p, j \in Lines(r) : p < j /\ cache[p].valid = 1 /\ cache[j].valid = 1
                                     /\ uv = <<cache[p].tag, cache[j].tag>>)
  BY <1>1
<1>4. OlderTags(r)' = OlderTags(r)
  BY <1>2, <1>3 DEF OlderTags, Valid
<1> QED BY <1>2, <1>4

\* Where the lines of the set were before the access, and where they went.
LEMMA Positions ==
  ASSUME NEW s \in SetIds, NEW index \in Lines(s), NEW line, Shifted(s, index, line)
  PROVE  /\ \A q \in Lines(s) \ {SetEnd(s) - 1} : \E m \in Lines(s) \ {index} :
              m = (IF q < index THEN q ELSE q + 1) /\ cache'[q] = cache[m]
         /\ \A m \in Lines(s) \ {index} : \E q \in Lines(s) \ {SetEnd(s) - 1} :
              q = (IF m < index THEN m ELSE m - 1) /\ cache'[q] = cache[m]
<1>1. SetStart(s) \in Nat /\ SetEnd(s) = SetStart(s) + lines /\ lines \in Nat \ {0}
  BY SetLayout, SetsPositive
<1>2. /\ Lines(s) = SetStart(s) .. SetEnd(s) - 1
      /\ \A p \in Lines(s) : p \in Int /\ SetStart(s) <= p /\ p <= SetEnd(s) - 1
  BY <1>1 DEF Lines
<1>3. ASSUME NEW q \in Lines(s) \ {SetEnd(s) - 1}
      PROVE  \E m \in Lines(s) \ {index} :
               m = (IF q < index THEN q ELSE q + 1) /\ cache'[q] = cache[m]
  <2>1. CASE q < index
    <3>1. q # index
      BY <1>2, <2>1
    <3>2. cache'[q] = cache[q]
      BY <2>1, ShiftedLines
    <3> QED BY <2>1, <3>1, <3>2
  <2>2. CASE ~(q < index)
    <3>1. index <= q /\ q + 1 # index
      BY <1>2, <2>2
    <3>2. q + 1 \in Lines(s) /\ cache'[q] = cache[q + 1]
      BY <3>1, ShiftedLines
    <3> QED BY <2>2, <3>1, <3>2
  <2> QED BY <2>1, <2>2
<1>4. ASSUME NEW m \in Lines(s) \ {index}
      PROVE  \E q \in Lines(s) \ {SetEnd(s) - 1} :
               q = (IF m < index THEN m ELSE m - 1) /\ cache'[q] = cache[m]
  <2>1. CASE m < index
    <3>1. m # SetEnd(s) - 1
      BY <1>1, <1>2, <2>1
    <3> QED BY <2>1, <3>1, ShiftedLines
  <2>2. CASE ~(m < index)
    <3>1. m - 1 \in Lines(s) /\ index <= m - 1 /\ m - 1 # SetEnd(s) - 1 /\ (m - 1) + 1 = m
      BY <1>1, <1>2, <2>2
    <3>2. cache'[m - 1] = cache[m]
      BY <3>1, ShiftedLines
    <3> QED BY <2>2, <3>1, <3>2
  <2> QED BY <2>1, <2>2
<1> QED BY <1>3, <1>4

\* After an access the set holds what it kept and the block, newer than all of it.
LEMMA TagsAfter ==
  ASSUME IInv, NEW a \in TraceAddrs, NEW index \in Lines(set_index(a)),
         Shifted(set_index(a), index, Filled(a))
  PROVE  SetTags(set_index(a))' = Keep(set_index(a), index) \cup {tag(a)}
<1> DEFINE s == set_index(a)
           last == SetEnd(s) - 1
<1>1. s \in SetIds
  BY ParseTyped
<1>2. last \in Lines(s) /\ cache'[last] = Filled(a)
  BY <1>1, ShiftedLines
<1>3. \A t : t \in SetTags(s)' <=> \E q \in Lines(s) : cache'[q].valid = 1 /\ cache'[q].tag = t
  BY DEF SetTags, Valid
<1>4. \A t : t \in Keep(s, index) <=>
               \E m \in Lines(s) \ {index} : cache[m].valid = 1 /\ cache[m].tag = t
  BY DEF Keep, Valid
<1>5. ASSUME NEW t \in SetTags(s)' PROVE t \in Keep(s, index) \cup {tag(a)}
  <2>1. PICK q \in Lines(s) : cache'[q].valid = 1 /\ cache'[q].tag = t
    BY <1>3
  <2>2. CASE q = last
    BY <1>2, <2>1, <2>2 DEF Filled
  <2>3. CASE q # last
    <3>1. PICK m \in Lines(s) \ {index} : cache'[q] = cache[m]
      BY <1>1, <2>3, Positions
    <3> QED BY <1>4, <2>1, <3>1
  <2> QED BY <2>2, <2>3
<1>6. ASSUME NEW t \in Keep(s, index) PROVE t \in SetTags(s)'
  <2>1. PICK m \in Lines(s) \ {index} : cache[m].valid = 1 /\ cache[m].tag = t
    BY <1>4
  <2>2. PICK q \in Lines(s) : cache'[q] = cache[m]
    BY <1>1, Positions
  <2> QED BY <1>3, <2>1, <2>2
<1>7. tag(a) \in SetTags(s)'
  BY <1>2, <1>3 DEF Filled
<1> QED BY <1>5, <1>6, <1>7

LEMMA OlderAfter ==
  ASSUME IInv, NEW a \in TraceAddrs, NEW index \in Lines(set_index(a)),
         Shifted(set_index(a), index, Filled(a))
  PROVE  OlderTags(set_index(a))' =
           {uv \in OlderTags(set_index(a)) :
               uv[1] \in Keep(set_index(a), index) /\ uv[2] \in Keep(set_index(a), index)}
             \cup {<<u, tag(a)>> : u \in Keep(set_index(a), index)}
<1> DEFINE s == set_index(a)
           last == SetEnd(s) - 1
           K == Keep(s, index)
           V(q) == cache[q].valid = 1
           Pair(p, j) == <<cache[p].tag, cache[j].tag>>
<1>1. s \in SetIds
  BY ParseTyped
<1>2. /\ last \in Lines(s) /\ cache'[last] = Filled(a) /\ last \in Int /\ index \in Int
      /\ \A q \in Lines(s) : q \in Int /\ q <= last
  BY <1>1, ShiftedLines
<1>3. \A x : x \in OlderTags(s)' <=>
        \E p, j \in Lines(s) : /\ p < j /\ cache'[p].valid = 1 /\ cache'[j].valid = 1
                               /\ x = <<cache'[p].tag, cache'[j].tag>>
  BY DEF OlderTags, SetTags, Valid
<1>4. \A x : x \in OlderTags(s) <=>
        \E p, j \in Lines(s) : p < j /\ V(p) /\ V(j) /\ x = Pair(p, j)
  BY DEF OlderTags, SetTags, Valid
<1>5. \A t : t \in K <=> \E m \in Lines(s) \ {index} : V(m) /\ cache[m].tag = t
  BY DEF Keep, Valid
<1>6. ASSUME NEW p \in Lines(s), V(p), cache[p].tag \in K PROVE p # index
  <2>1. PICK m \in Lines(s) \ {index} : V(m) /\ cache[m].tag = cache[p].tag
    BY <1>5, <1>6
  <2>2. m = p
    BY <1>1, <1>6, <2>1 DEF IInv, TagsUnique, Valid
  <2> QED BY <2>2
<1>7. ASSUME NEW x \in OlderTags(s)'
      PROVE  \/ x \in OlderTags(s) /\ x[1] \in K /\ x[2] \in K
             \/ \E u \in K : x = <<u, tag(a)>>
  <2>1. PICK p \in Lines(s), j \in Lines(s) :
          p < j /\ cache'[p].valid = 1 /\ cache'[j].valid = 1 /\ x = <<cache'[p].tag, cache'[j].tag>>
    BY <1>3
  <2>2. p # last
    BY <1>2, <2>1
  <2>3. PICK mi \in Lines(s) \ {index} :
          mi = (IF p < index THEN p ELSE p + 1) /\ cache'[p] = cache[mi]
    BY <1>1, <2>2, Positions
  <2>4. cache'[p].tag \in K
    BY <1>5, <2>1, <2>3
  <2>5. CASE j = last
    BY <1>2, <2>1, <2>4, <2>5 DEF Filled
  <2>6. CASE j # last
    <3>1. PICK mj \in Lines(s) \ {index} :
            mj = (IF j < index THEN j ELSE j + 1) /\ cache'[j] = cache[mj]
      BY <1>1, <2>6, Positions
    <3>2. mi < mj
      BY <1>2, <2>1, <2>3, <3>1
    <3>3. x \in OlderTags(s)
      BY <1>4, <2>1, <2>3, <3>1, <3>2
    <3>4. cache'[j].tag \in K
      BY <1>5, <2>1, <3>1
    <3> QED BY <2>1, <2>4, <3>3, <3>4
  <2> QED BY <2>5, <2>6
<1>8. ASSUME NEW x \in OlderTags(s), x[1] \in K, x[2] \in K PROVE x \in OlderTags(s)'
  <2>1. PICK p \in Lines(s), j \in Lines(s) : p < j /\ V(p) /\ V(j) /\ x = Pair(p, j)
    BY <1>4
  <2>2. p # index /\ j # index
    BY <1>6, <1>8, <2>1
  <2>3. PICK ki \in Lines(s) : ki = (IF p < index THEN p ELSE p - 1) /\ cache'[ki] = cache[p]
    BY <1>1, <2>2, Positions
  <2>4. PICK kj \in Lines(s) : kj = (IF j < index THEN j ELSE j - 1) /\ cache'[kj] = cache[j]
    BY <1>1, <2>2, Positions
  <2>5. ki < kj
    BY <1>2, <2>1, <2>2, <2>3, <2>4
  <2> QED BY <1>3, <2>1, <2>3, <2>4, <2>5
<1>9. ASSUME NEW u \in K PROVE <<u, tag(a)>> \in OlderTags(s)'
  <2>1. PICK m \in Lines(s) \ {index} : V(m) /\ cache[m].tag = u
    BY <1>5
  <2>2. PICK q \in Lines(s) \ {last} : cache'[q] = cache[m]
    BY <1>1, Positions
  <2>3. q < last
    <3>1. q \in Int /\ q <= last /\ last \in Int /\ q # last
      BY <1>2
    <3> HIDE DEF last
    <3> QED BY <3>1
  <2>4. cache'[last].valid = 1 /\ cache'[last].tag = tag(a)
    BY <1>2 DEF Filled
  <2> QED BY <1>2, <1>3, <2>1, <2>2, <2>3, <2>4
<1> QED BY <1>7, <1>8, <1>9

\* The lines of a set are as many as its tags once none is invalid.
LEMMA SetSize ==
  ASSUME IInv, NEW s \in SetIds
  PROVE  /\ FreeLines(s) = {} => Cardinality(SetTags(s)) = lines
         /\ FreeLines(s) # {} => Cardinality(SetTags(s)) \in Nat /\ Cardinality(SetTags(s)) < lines
<1> DEFINE V == {j \in Lines(s) : Valid(j)}
           f == [p \in V |-> cache[p].tag]
<1>1. SetStart(s) \in Nat /\ SetEnd(s) = SetStart(s) + lines /\ lines \in Nat \ {0}
      /\ Lines(s) \subseteq Indices
  BY SetLayout, SetsPositive
<1>2. IsFiniteSet(Lines(s)) /\ Cardinality(Lines(s)) = lines
  <2>1. SetStart(s) \in Int /\ SetEnd(s) - 1 \in Int /\ ~(SetStart(s) > SetEnd(s) - 1)
        /\ SetEnd(s) - 1 - SetStart(s) + 1 = lines
    BY <1>1
  <2> QED BY <2>1, FS_Interval DEF Lines
<1>3. IsFiniteSet(V) /\ Cardinality(V) \in Nat /\ Cardinality(V) <= lines
      /\ (Cardinality(V) = lines => V = Lines(s))
  <2>1. V \in SUBSET Lines(s)
    OBVIOUS
  <2>2. IsFiniteSet(V) /\ Cardinality(V) <= lines /\ (Cardinality(V) = lines => V = Lines(s))
    <3> HIDE DEF V
    <3> QED BY <1>2, <2>1, FS_Subset
  <2>3. Cardinality(V) \in Nat
    <3> HIDE DEF V
    <3> QED BY <2>2, FS_CardinalityType
  <2> QED BY <2>2, <2>3
<1>4. f \in Surjection(V, SetTags(s))
  BY DEF Surjection, SetTags
<1>5. f \in Injection(V, SetTags(s))
  <2>1. \A p, j \in V : f[p] = f[j] => p = j
    BY DEF IInv, TagsUnique
  <2> QED BY <1>4, <2>1 DEF Surjection, Injection, IsInjective
<1>6. Cardinality(SetTags(s)) = Cardinality(V)
  <2> HIDE DEF V, f
  <2> QED BY <1>3, <1>4, <1>5, FS_Surjection
<1>7. FreeLines(s) = {} <=> V = Lines(s)
  BY <1>1 DEF FreeLines, Valid, IInv, TypeOK
<1> QED BY <1>1, <1>2, <1>3, <1>6, <1>7

\* Lru.tla counts with the same Cardinality.
LEMMA SameCardinality == \A S : LRU!Cardinality(S) = Cardinality(S)
BY DEF LRU!Cardinality, Cardinality

\* An access is a use of the block's tag that keeps every other tag but one dropped.
LEMMA AccessUses ==
  ASSUME IInv, NEW a \in TraceAddrs, NEW index \in Lines(set_index(a)),
         Shifted(set_index(a), index, Filled(a)),
         NEW keep, Keep(set_index(a), index) = keep \ {tag(a)}
  PROVE  LRU!Use(set_index(a), tag(a), keep)
<1> DEFINE s == set_index(a)
           resident == [r \in SetIds |-> SetTags(r)]
           older == [r \in SetIds |-> OlderTags(r)]
<1>1. s \in SetIds
  BY ParseTyped
<1>2. \A r \in SetIds : r # s => SetTags(r)' = SetTags(r) /\ OlderTags(r)' = OlderTags(r)
  BY <1>1, OtherSetsSame
<1>3. SetTags(s)' = keep \cup {tag(a)}
  BY TagsAfter
<1>4. OlderTags(s)' = {uv \in OlderTags(s) : uv[1] \in keep \ {tag(a)} /\ uv[2] \in keep \ {tag(a)}}
                        \cup {<<u, tag(a)>> : u \in keep \ {tag(a)}}
  BY OlderAfter
<1>5. SetIds' = SetIds
  BY DEF SetIds
<1>6. [r \in SetIds |-> SetTags(r)'] = [resident EXCEPT ![s] = keep \cup {tag(a)}]
  BY <1>1, <1>2, <1>3
<1>7. [r \in SetIds |-> OlderTags(r)'] =
        [older EXCEPT ![s] =
           {uv \in @ : uv[1] \in keep \ {tag(a)} /\ uv[2] \in keep \ {tag(a)}}
             \cup {<<u, tag(a)>> : u \in keep \ {tag(a)}}]
  BY <1>1, <1>2, <1>4
<1> QED BY <1>5, <1>6, <1>7 DEF LRU!Use

LEMMA HitImplements ==
  ASSUME IInv, NEW a \in TraceAddrs, NEW again \in {0, 1}, Hit(a),
         statinfo' = [statinfo EXCEPT !.hits = @ + 1 + again]
  PROVE  LRU!Hit(set_index(a), tag(a), again)
<1> DEFINE s == set_index(a)
<1>1. s \in SetIds
  BY ParseTyped
<1>2. PICK index \in Lines(s) :
        /\ Shifted(s, index, Filled(a)) /\ cache[index] = Filled(a)
        /\ \A q \in Lines(s) : Valid(q) /\ cache[q].tag = tag(a) => q = index
  BY AccessShifts
<1>3. Valid(index) /\ cache[index].tag = tag(a)
  BY <1>2 DEF Valid, Filled
<1>4. tag(a) \in SetTags(s)
  BY <1>3 DEF SetTags
<1>5. Keep(s, index) = SetTags(s) \ {tag(a)}
  BY <1>2, <1>3 DEF Keep, SetTags
<1>6. LRU!Use(s, tag(a), SetTags(s))
  BY <1>2, <1>5, AccessUses
<1> QED BY <1>1, <1>4, <1>6 DEF LRU!Hit

LEMMA MissImplements ==
  ASSUME IInv, NEW a \in TraceAddrs, NEW again \in {0, 1}, Miss(a),
         statinfo' = [statinfo EXCEPT !.misses = @ + 1, !.hits = @ + again,
                                      !.evictions = IF Evicts(a) THEN @ + 1 ELSE @]
  PROVE  \/ LRU!MissWithRoom(set_index(a), tag(a), again)
         \/ LRU!MissWithEviction(set_index(a), tag(a), again)
<1> DEFINE s == set_index(a)
           start == SetStart(s)
           v == cache[start].tag
           R == [r \in SetIds |-> SetTags(r)]
           O == [r \in SetIds |-> OlderTags(r)]
<1>1. s \in SetIds /\ start \in Lines(s) /\ \A q \in Lines(s) : q # start => start < q
  <2>1. s \in SetIds
    BY ParseTyped
  <2>2. start \in Nat /\ SetEnd(s) = start + lines /\ lines \in Nat \ {0}
    BY <2>1, SetLayout, SetsPositive
  <2> QED BY <2>1, <2>2 DEF Lines
<1>2. Shifted(s, start, Filled(a))
  BY AccessShifts
<1>3. tag(a) \notin SetTags(s)
  BY DEF SetTags, Miss, HitLines, Valid
<1>4. statinfo \in [hits : Nat, misses : Nat, evictions : Nat]
  BY DEF IInv, TypeOK
<1>5. CASE FreeLines(s) # {}
  <2>1. ~Valid(start)
    <3>1. PICK q \in Lines(s) : ~Valid(q)
      BY <1>5 DEF FreeLines, Valid
    <3> QED BY <1>1, <3>1 DEF IInv, ValidLast
  <2>2. Keep(s, start) = SetTags(s) \ {tag(a)}
    BY <1>3, <2>1 DEF Keep, SetTags
  <2>3. LRU!Use(s, tag(a), SetTags(s))
    BY <1>1, <1>2, <2>2, AccessUses
  <2>4. LRU!Cardinality(SetTags(s)) < lines
    BY <1>1, <1>5, SetSize, SameCardinality
  <2>5. statinfo' = [statinfo EXCEPT !.misses = @ + 1, !.hits = @ + again]
    BY <1>4, <1>5 DEF Evicts
  <2>6. [r \in SetIds |-> SetTags(r)][s] = SetTags(s)
    BY <1>1
  <2>7. LRU!MissWithRoom(s, tag(a), again)
    BY <1>3, <2>3, <2>4, <2>5, <2>6 DEF LRU!MissWithRoom
  <2> QED BY <2>7
<1>6. CASE FreeLines(s) = {}
  <2>1. \A q \in Lines(s) : Valid(q)
    BY <1>1, <1>6, SetLayout DEF FreeLines, Valid, IInv, TypeOK
  <2>2. v \in SetTags(s)
    BY <1>1, <2>1 DEF SetTags
  <2>3. Keep(s, start) = (SetTags(s) \ {v}) \ {tag(a)}
    <3>1. \A q \in Lines(s) : cache[q].tag = v => q = start
      BY <1>1, <2>1 DEF IInv, TagsUnique
    <3> QED BY <1>3, <2>1, <3>1 DEF Keep, SetTags
  <2>4. LRU!Use(s, tag(a), SetTags(s) \ {v})
    BY <1>1, <1>2, <2>3, AccessUses
  <2>5. ASSUME NEW u \in SetTags(s) \ {v} PROVE <<v, u>> \in OlderTags(s)
    <3>1. PICK q \in Lines(s) : Valid(q) /\ cache[q].tag = u
      BY <2>5 DEF SetTags
    <3>2. q # start
      BY <2>5, <3>1
    <3>3. start < q
      BY <1>1, <3>2
    <3> QED BY <1>1, <2>1, <2>2, <2>5, <3>1, <3>3 DEF OlderTags
  <2>6. LRU!Cardinality(SetTags(s)) >= lines
    BY <1>1, <1>6, SetSize, SameCardinality, SetsPositive
  <2>7. statinfo' = [statinfo EXCEPT !.misses = @ + 1, !.evictions = @ + 1, !.hits = @ + again]
    BY <1>4, <1>6 DEF Evicts
  <2>8. R[s] = SetTags(s) /\ O[s] = OlderTags(s)
    BY <1>1
  <2>9. tag(a) \notin R[s] /\ LRU!Cardinality(R[s]) >= lines
    BY <1>3, <2>6, <2>8
  <2>10. \E w \in R[s] : /\ \A u \in R[s] \ {w} : <<w, u>> \in O[s]
                        /\ LRU!Use(s, tag(a), R[s] \ {w})
    <3> HIDE DEF R, O, v
    <3> QED BY <2>2, <2>4, <2>5, <2>8
  <2>11. LRU!MissWithEviction(s, tag(a), again)
    BY <2>7, <2>9, <2>10 DEF LRU!MissWithEviction
  <2> QED BY <2>11
<1> QED BY <1>5, <1>6

LEMMA InitImplements == Init => LRU!Init
<1> SUFFICES ASSUME Init PROVE LRU!Init
  OBVIOUS
<1>1. \A s \in SetIds : \A p \in Lines(s) : ~Valid(p)
  BY SetLayout DEF Init, Valid
<1>2. \A s \in SetIds : SetTags(s) = {} /\ OlderTags(s) = {}
  BY <1>1 DEF SetTags, OlderTags
<1> QED BY <1>2 DEF Init, NoAddr, LRU!Init, LRU!NoRequest

LEMMA NextImplements == IInv /\ [Next]_vars => [LRU!Next]_(LRU!lruVars)
<1> SUFFICES ASSUME IInv, [Next]_vars PROVE [LRU!Next]_(LRU!lruVars)
  OBVIOUS
<1>1. CASE Next
  <2>1. PICK a \in TraceAddrs, again \in {0, 1} : Within /\ Do(a, again)
    BY <1>1, NextDoes
  <2>2. set_index(a) \in SetIds /\ tag(a) \in 0 .. 2^AddrBits - 1
    BY ParseTyped
  <2>3. LRU!Access(set_index(a), tag(a), again)
    BY <2>1, HitImplements, MissImplements DEF Do, LRU!Access
  <2> QED BY <2>1, <2>2, <2>3 DEF LRU!Next, Within
<1>2. CASE UNCHANGED vars
  BY <1>2 DEF vars, LRU!lruVars, SetTags, OlderTags, Valid
<1> QED BY <1>1, <1>2

\* The simulator is a least-recently-used cache: every trace of accesses is one
\* of Lru.tla under the mapping that forgets where in its set a line stands.
THEOREM SimulatorIsLru == Spec => ImplementsLru
<1>1. Spec => LRU!Init /\ [][LRU!Next]_(LRU!lruVars)
  BY InitImplements, IInvHolds, NextImplements, PTL DEF Spec
<1> QED BY <1>1 DEF ImplementsLru, LRU!Spec
-----------------------------------------------------------------------------
(* The counters and the lines.                                             *)

ValidLines == {p \in Indices : Valid(p)}

\* What a shift does to the lines outside the stretch it moves.
LEMMA ShiftKeeps ==
  ASSUME NEW s \in SetIds, NEW index \in Lines(s), NEW line, Shifted(s, index, line)
  PROVE  \A p \in Indices : p \notin Lines(s) => cache'[p] = cache[p]
<1>1. SetStart(s) \in Nat /\ SetEnd(s) = SetStart(s) + lines /\ lines \in Nat \ {0}
  BY SetLayout, SetsPositive
<1>2. index .. SetEnd(s) - 2 \subseteq Lines(s) /\ SetEnd(s) - 1 \in Lines(s)
  BY <1>1 DEF Lines
<1> QED BY <1>2 DEF Shifted

\* Replacing a valid line leaves as many.
LEMMA SameValid ==
  ASSUME ValidLast, NEW s \in SetIds, NEW index \in Lines(s), Valid(index),
         NEW a, Shifted(s, index, Filled(a))
  PROVE  ValidLines' = ValidLines
<1>1. \A p \in Lines(s) : index <= p => Valid(p)
  <2>1. \A p \in Lines(s) : p \in Int
    BY ShiftedLines
  <2> QED BY <2>1 DEF ValidLast
<1>2. ASSUME NEW p \in Indices PROVE cache'[p].valid = 1 <=> cache[p].valid = 1
  <2>1. CASE p \notin Lines(s)
    BY <2>1, ShiftKeeps
  <2>2. CASE p \in Lines(s) /\ p < index
    BY <2>2, ShiftedLines
  <2>3. CASE p \in Lines(s) /\ index <= p
    <3>1. cache[p].valid = 1
      BY <1>1, <2>3 DEF Valid
    <3>2. CASE p = SetEnd(s) - 1
      BY <3>1, <3>2, ShiftedLines DEF Filled
    <3>3. CASE p # SetEnd(s) - 1
      <4>1. p + 1 \in Lines(s) /\ cache'[p] = cache[p + 1] /\ index <= p + 1
        BY <2>3, <3>3, ShiftedLines
      <4>2. cache[p + 1].valid = 1
        BY <1>1, <4>1 DEF Valid
      <4> QED BY <3>1, <4>1, <4>2
    <3> QED BY <3>2, <3>3
  <2>4. p \in Lines(s) => p \in Int /\ index \in Int
    BY ShiftedLines
  <2> QED BY <2>1, <2>2, <2>3, <2>4
<1> QED BY <1>2 DEF ValidLines, Valid

\* A miss in a set with a free line makes the last free one valid.
LEMMA OneMoreValid ==
  ASSUME ValidLast, TypeOK, NEW s \in SetIds, FreeLines(s) # {},
         NEW a, Shifted(s, SetStart(s), Filled(a))
  PROVE  \E f \in Lines(s) : ~Valid(f) /\ ValidLines' = ValidLines \cup {f}
<1>1. /\ SetStart(s) \in Nat /\ SetEnd(s) = SetStart(s) + lines /\ lines \in Nat \ {0}
      /\ Lines(s) = SetStart(s) .. SetEnd(s) - 1 /\ Lines(s) \subseteq Indices
  BY SetLayout, SetsPositive DEF Lines
<1>2. SetStart(s) \in Lines(s)
  BY <1>1
<1>3. \A p \in Lines(s) : p \in FreeLines(s) <=> ~Valid(p)
  BY <1>1 DEF FreeLines, Valid, TypeOK
<1>4. SetEnd(s) \in Nat /\ FreeLines(s) \in SUBSET (0 .. SetEnd(s))
  BY <1>1 DEF FreeLines
<1>5. \E f \in FreeLines(s) : \A p \in FreeLines(s) : p <= f
  BY <1>4, GreatestNat
<1>6. PICK f \in FreeLines(s) : \A p \in FreeLines(s) : p <= f
  BY <1>5
<1>7. f \in Lines(s) /\ ~Valid(f)
  BY <1>3 DEF FreeLines
<1>8. \A p \in Lines(s) : Valid(p) <=> f < p
  BY <1>1, <1>3, <1>6, <1>7 DEF ValidLast
<1>9. ASSUME NEW p \in Indices PROVE cache'[p].valid = 1 <=> (cache[p].valid = 1 \/ p = f)
  <2>1. CASE p \notin Lines(s)
    BY <1>2, <1>7, <2>1, ShiftKeeps
  <2>2. CASE p = SetEnd(s) - 1
    <3>1. cache'[p].valid = 1
      BY <1>2, <2>2, ShiftedLines DEF Filled
    <3> QED BY <1>1, <1>7, <1>8, <2>2, <3>1 DEF Valid
  <2>3. CASE p \in Lines(s) /\ p # SetEnd(s) - 1
    <3>0. SetStart(s) <= p
      BY <1>1, <2>3
    <3>1. p + 1 \in Lines(s) /\ cache'[p] = cache[p + 1]
      BY <1>2, <2>3, <3>0, ShiftedLines
    <3> QED BY <1>1, <1>7, <1>8, <2>3, <3>1 DEF Valid
  <2> QED BY <2>1, <2>2, <2>3
<1> QED BY <1>1, <1>7, <1>9 DEF ValidLines, Valid

LEMMA LinesFinite == IsFiniteSet(ValidLines) /\ Cardinality(ValidLines) \in Nat
<1>1. 0 \in Int /\ 2 * 2^set_bits * lines - 1 \in Int
  BY CsimAssumption, CsimPowers
<1>2. IsFiniteSet(Indices)
  BY <1>1, FS_Interval DEF Indices
<1> QED BY <1>2, FS_Subset, FS_CardinalityType DEF ValidLines

\* Every miss fills a line or evicts one: nothing is lost and nothing is counted
\* twice.  The second half of the array is never used.
LinesAccountedFor ==
  /\ statinfo.misses - statinfo.evictions = Cardinality({ix \in Indices : Valid(ix)})
  /\ \A ix \in Indices : Valid(ix) => ix < 2^set_bits * lines

LEMMA LinesBySteps == ASSUME IInv, LinesAccountedFor, [Next]_vars PROVE LinesAccountedFor'
<1>1. CASE UNCHANGED vars
  BY <1>1 DEF vars, LinesAccountedFor, Valid
<1>2. CASE Next
  <2>1. PICK a \in TraceAddrs, again \in {0, 1} : Within /\ Do(a, again)
    BY <1>2, NextDoes
  <2> DEFINE s == set_index(a)
  <2>2. s \in SetIds
    BY ParseTyped
  <2>3. statinfo \in [hits : Nat, misses : Nat, evictions : Nat] /\ again \in Nat
    BY DEF IInv, TypeOK
  <2>4. statinfo.misses - statinfo.evictions = Cardinality(ValidLines)
        /\ \A p \in ValidLines : p < Sets * lines
    BY DEF LinesAccountedFor, ValidLines, Sets
  <2>5. CASE Hit(a)
    <3>1. PICK p \in Lines(s) : cache[p] = Filled(a) /\ Shifted(s, p, Filled(a))
      BY <2>5, HitShifts DEF IInv
    <3>2. ValidLines' = ValidLines
      BY <2>2, <3>1, SameValid DEF IInv, Valid, Filled
    <3>3. statinfo' = [statinfo EXCEPT !.hits = @ + 1 + again]
      BY <2>1, <2>5 DEF Do, Hit, Miss
    <3> QED BY <2>3, <2>4, <3>2, <3>3 DEF LinesAccountedFor, ValidLines, Sets
  <2>6. CASE Miss(a)
    <3>1. /\ Shifted(s, SetStart(s), Filled(a)) /\ SetStart(s) \in Lines(s)
      BY <2>2, <2>6, MissShifts, SetLayout, SetsPositive DEF IInv, Lines
    <3>2. statinfo' = [statinfo EXCEPT !.misses = @ + 1, !.hits = @ + again,
                                       !.evictions = IF Evicts(a) THEN @ + 1 ELSE @]
      BY <2>1, <2>6 DEF Do, Hit, Miss
    <3>3. CASE FreeLines(s) = {}
      <4>1. Valid(SetStart(s))
        BY <2>2, <3>1, <3>3, SetLayout DEF FreeLines, Valid, IInv, TypeOK
      <4>2. ValidLines' = ValidLines
        BY <2>2, <3>1, <4>1, SameValid DEF IInv
      <4>3. statinfo'.misses = statinfo.misses + 1 /\ statinfo'.evictions = statinfo.evictions + 1
        BY <2>3, <3>2, <3>3 DEF Evicts
      <4>4. statinfo'.misses - statinfo'.evictions = Cardinality(ValidLines')
        BY <2>3, <2>4, <4>2, <4>3
      <4> QED BY <2>4, <4>2, <4>4 DEF LinesAccountedFor, ValidLines, Sets
    <3>4. CASE FreeLines(s) # {}
      <4>1. PICK f \in Lines(s) : ~Valid(f) /\ ValidLines' = ValidLines \cup {f}
        BY <2>2, <3>1, <3>4, OneMoreValid DEF IInv
      <4>2. statinfo'.misses = statinfo.misses + 1 /\ statinfo'.evictions = statinfo.evictions
        BY <2>3, <3>2, <3>4 DEF Evicts
      <4>3. f \notin ValidLines
        BY <4>1 DEF ValidLines
      <4>4. Cardinality(ValidLines \cup {f}) = Cardinality(ValidLines) + 1
        BY <4>3, LinesFinite, FS_AddElement
      <4>5. f < Sets * lines
        <5>1. Sets * lines \in Int /\ f \in 0 .. Sets * lines - 1
          BY <2>2, SetLayout, SetsPositive
        <5> QED BY <5>1
      <4>6. \A p \in ValidLines' : p < Sets * lines
        BY <2>4, <4>1, <4>5
      <4>7. statinfo'.misses - statinfo'.evictions = Cardinality(ValidLines')
        BY <2>3, <2>4, <4>1, <4>2, <4>4, LinesFinite
      <4> QED BY <4>6, <4>7 DEF LinesAccountedFor, ValidLines, Sets
    <3> QED BY <3>3, <3>4
  <2> QED BY <2>1, <2>5, <2>6 DEF Do
<1> QED BY <1>1, <1>2

\* Every miss fills a line or evicts one (do_L, do_S, do_M, writeCache).
THEOREM LinesAccountedForHolds == Spec => []LinesAccountedFor
<1>1. Init => LinesAccountedFor
  <2> SUFFICES ASSUME Init PROVE LinesAccountedFor
    OBVIOUS
  <2>1. ValidLines = {}
    BY DEF Init, ValidLines, Valid
  <2>2. statinfo.misses - statinfo.evictions = Cardinality(ValidLines)
    BY <2>1, FS_EmptySet DEF Init
  <2>3. \A p \in Indices : ~Valid(p)
    BY <2>1 DEF ValidLines
  <2> QED BY <2>2, <2>3 DEF LinesAccountedFor, ValidLines
<1> QED BY <1>1, IInvHolds, LinesBySteps, PTL DEF Spec

-----------------------------------------------------------------------------
(* The transpose lab: arithmetic.                                          *)

\* What division gives for a number that is written as a multiple and a rest.
LEMMA Divide ==
  ASSUME NEW m \in Nat \ {0}, NEW a \in Int, NEW b \in 0 .. m - 1
  PROVE  (m * a + b) \div m = a /\ (m * a + b) % m = b
<1> DEFINE x == m * a + b
           q == x \div m
           r == x % m
<1>1. m * a \in Int /\ x \in Int
  OBVIOUS
<1>2. q \in Int /\ r \in 0 .. m - 1 /\ x = (m * q) + r
  BY <1>1, DivMod
<1>3. m * (q - a) = m * q - m * a
  BY <1>2
<1>4. \A d \in Int : (d >= 1 => m * d >= m) /\ (d <= -1 => m * d <= -m)
  OBVIOUS
<1>5. q - a \in Int /\ m * q \in Int
  BY <1>2
<1> HIDE DEF q, r
<1>6. q = a
  BY <1>1, <1>2, <1>3, <1>4, <1>5
<1>7. r = b
  BY <1>1, <1>2, <1>6
<1> QED BY <1>6, <1>7 DEF q, r

\* The quotient of a number below m * n is below n.
LEMMA QuotientBelow ==
  ASSUME NEW m \in Nat \ {0}, NEW n \in Int, NEW x \in Nat, x < m * n
  PROVE  x \div m \in 0 .. n - 1
<1> DEFINE q == x \div m
           r == x % m
<1>1. q \in Int /\ r \in 0 .. m - 1 /\ x = (m * q) + r
  BY DivMod
<1> HIDE DEF q, r
<1>2. m * n \in Int /\ m * q \in Int
  BY <1>1
<1>3. m * (q - n) = m * q - m * n
  BY <1>1
<1>4. \A d \in Int : (d >= 0 => m * d >= 0) /\ (d <= -1 => m * d <= -m)
  OBVIOUS
<1>5. q < n
  <2>1. q - n \in Int
    BY <1>1
  <2>2. CASE q - n >= 0
    BY <1>1, <1>2, <1>3, <1>4, <2>1, <2>2
  <2>3. CASE q - n < 0
    BY <1>1, <2>3
  <2> QED BY <2>1, <2>2, <2>3
<1>6. q >= 0
  BY <1>1, <1>2, <1>4
<1> QED BY <1>1, <1>5, <1>6 DEF q

-----------------------------------------------------------------------------
(* The chunks.                                                             *)

Covers(ch, r, c) == ch.row = r /\ ch.col <= c /\ c < ch.col + ch.width

InMatrix(ch, m, n) ==
  /\ ch.row \in 0 .. n - 1 /\ ch.col \in Nat /\ ch.width \in 1 .. 8
  /\ ch.col + ch.width <= m

LEMMA Blocked32 ==
  /\ \A x \in 0 .. 127 : InMatrix(Blocked(4, 8, x), 32, 32)
  /\ \A r, c \in 0 .. 31 : \E x \in 0 .. 127 : Covers(Blocked(4, 8, x), r, c)
<1>1. ASSUME NEW x \in 0 .. 127 PROVE InMatrix(Blocked(4, 8, x), 32, 32)
  BY DEF InMatrix, Blocked, Chunk
<1>2. ASSUME NEW r \in 0 .. 31, NEW c \in 0 .. 31
      PROVE  \E x \in 0 .. 127 : Covers(Blocked(4, 8, x), r, c)
  <2> DEFINE x == (r \div 8) * 32 + (c \div 8) * 8 + (r % 8)
  <2>1. x \in 0 .. 127
    OBVIOUS
  <2>2. x \div 32 = r \div 8 /\ x % 8 = r % 8 /\ (x \div 8) % 4 = c \div 8
    OBVIOUS
  <2>3. Covers(Blocked(4, 8, x), r, c)
    BY <2>2 DEF Covers, Blocked, Chunk
  <2> QED BY <2>1, <2>3
<1> QED BY <1>1, <1>2

LEMMA Blocked64 ==
  /\ \A x \in 0 .. 1023 : InMatrix(Blocked(16, 4, x), 64, 64)
  /\ \A r, c \in 0 .. 63 : \E x \in 0 .. 1023 : Covers(Blocked(16, 4, x), r, c)
<1>1. ASSUME NEW x \in 0 .. 1023 PROVE InMatrix(Blocked(16, 4, x), 64, 64)
  BY DEF InMatrix, Blocked, Chunk
<1>2. ASSUME NEW r \in 0 .. 63, NEW c \in 0 .. 63
      PROVE  \E x \in 0 .. 1023 : Covers(Blocked(16, 4, x), r, c)
  <2> DEFINE x == (r \div 4) * 64 + (c \div 4) * 4 + (r % 4)
  <2>1. x \in 0 .. 1023
    OBVIOUS
  <2>2. x \div 64 = r \div 4 /\ x % 4 = r % 4 /\ (x \div 4) % 16 = c \div 4
    OBVIOUS
  <2>3. Covers(Blocked(16, 4, x), r, c)
    BY <2>2 DEF Covers, Blocked, Chunk
  <2> QED BY <2>1, <2>3
<1> QED BY <1>1, <1>2

LEMMA RoundsFacts ==
  ASSUME NEW n \in Nat \ {0}
  PROVE  Rounds(n) \in Nat /\ 16 * Rounds(n) < n
BY DEF Rounds

\* The products that Ragged and RaggedCount are made of, with m columns, n rows and
\* b by a whole blocks.
LEMMA Products ==
  ASSUME NEW m \in Nat \ {0}, NEW n \in Nat \ {0}, NEW a \in Nat, NEW b \in Nat,
         16 * a < n, 16 * b < m
  PROVE  /\ 16 * a * b * 2 = (32 * b) * a /\ (32 * b) * a \in Nat
         /\ (n - 16 * a) * m = m * (n - 16 * a) /\ m * (n - 16 * a) \in Nat
         /\ 16 * a * (m - 16 * b) = (m - 16 * b) * (16 * a) /\ (m - 16 * b) * (16 * a) \in Nat
<1>1. 16 * a * b * 2 = (32 * b) * a /\ (32 * b) * a \in Nat
  OBVIOUS
<1>2. \A x, y \in Nat : x * y = y * x /\ x * y \in Nat
  OBVIOUS
<1>3. n - 16 * a \in Nat /\ m - 16 * b \in Nat /\ 16 * a \in Nat
  OBVIOUS
<1> QED BY <1>1, <1>2, <1>3

\* Every chunk lies in the matrix.
LEMMA RaggedInMatrix ==
  ASSUME NEW m \in Nat \ {0}, NEW n \in Nat \ {0}, NEW x \in 0 .. RaggedCount(m, n) - 1
  PROVE  InMatrix(Ragged(m, n, x), m, n)
<1> DEFINE a == Rounds(n)
           b == Rounds(m)
           u == 16 * a * b * 2
           v == (n - 16 * a) * m
           y == x - u
           z == y - v
<1>1. a \in Nat /\ 16 * a < n /\ b \in Nat /\ 16 * b < m
  BY RoundsFacts
<1>2. RaggedCount(m, n) = u + v + 16 * a * (m - 16 * b)
  BY DEF RaggedCount
<1>3. Ragged(m, n, x) =
        IF x < u
        THEN Chunk((x \div (32 * b)) * 16 + ((x % 32) \div 2),
                   ((x \div 32) % b) * 16 + 8 * (x % 2), 8)
        ELSE IF y < v THEN Chunk(16 * a + (y \div m), y % m, 1)
        ELSE Chunk(z \div (m - 16 * b), 16 * b + (z % (m - 16 * b)), 1)
  BY DEF Ragged
<1> HIDE DEF a, b
<1>4. /\ u = (32 * b) * a /\ u \in Nat
      /\ v = m * (n - 16 * a) /\ v \in Nat
      /\ 16 * a * (m - 16 * b) = (m - 16 * b) * (16 * a) /\ (m - 16 * b) * (16 * a) \in Nat
  BY <1>1, Products
<1>5. x \in Int /\ 0 <= x /\ x < u + v + (m - 16 * b) * (16 * a)
  BY <1>2, <1>4
<1> HIDE DEF u, v
<1>6. CASE x < u
  <2>1. b \in Nat \ {0} /\ 32 * b \in Nat \ {0}
    <3>1. b # 0
      BY <1>1, <1>4, <1>5, <1>6
    <3> QED BY <1>1, <3>1
  <2>2. x \div (32 * b) \in 0 .. a - 1
    <3> DEFINE w == 32 * b
    <3>1. w \in Nat \ {0} /\ a \in Int /\ x \in Nat /\ x < w * a
      BY <1>1, <1>4, <1>5, <1>6, <2>1
    <3> HIDE DEF w
    <3>2. x \div w \in 0 .. a - 1
      BY <3>1, QuotientBelow
    <3> QED BY <3>2 DEF w
  <2>3. (x \div 32) \in Int /\ (x % 32) \div 2 \in 0 .. 15 /\ x % 2 \in 0 .. 1
    BY <1>5
  <2>4. (x \div 32) % b \in 0 .. b - 1
    BY <2>1, <2>3, DivMod
  <2> DEFINE p == x \div (32 * b)
             q == (x \div 32) % b
             s == (x % 32) \div 2
             t == x % 2
  <2>5. Ragged(m, n, x) = Chunk(p * 16 + s, q * 16 + 8 * t, 8)
    BY <1>3, <1>6
  <2>6. p \in 0 .. a - 1 /\ q \in 0 .. b - 1 /\ s \in 0 .. 15 /\ t \in 0 .. 1
    BY <2>2, <2>3, <2>4
  <2> HIDE DEF p, q, s, t
  <2> QED BY <1>1, <2>5, <2>6 DEF InMatrix, Chunk
<1>7. CASE ~(x < u) /\ y < v
  <2>1. y \in Nat
    BY <1>4, <1>5, <1>7
  <2>2. y \div m \in 0 .. (n - 16 * a) - 1
    <3>1. n - 16 * a \in Int
      BY <1>1
    <3> HIDE DEF y
    <3> QED BY <1>4, <1>7, <2>1, <3>1, QuotientBelow
  <2>3. y % m \in 0 .. m - 1
    <3> HIDE DEF y
    <3>1. y \in Int
      BY <2>1
    <3> QED BY <3>1, DivMod
  <2> DEFINE p == y \div m
             q == y % m
  <2>4. Ragged(m, n, x) = Chunk(16 * a + p, q, 1)
    BY <1>3, <1>7
  <2>5. p \in 0 .. (n - 16 * a) - 1 /\ q \in 0 .. m - 1
    BY <2>2, <2>3
  <2> HIDE DEF p, q
  <2> QED BY <1>1, <2>4, <2>5 DEF InMatrix, Chunk
<1>8. CASE ~(x < u) /\ ~(y < v)
  <2> DEFINE w == m - 16 * b
  <2>1. w \in Nat \ {0}
    BY <1>1
  <2>2. z \in Nat /\ z < w * (16 * a)
    BY <1>4, <1>5, <1>8
  <2>3. 16 * a \in Int
    BY <1>1
  <2> DEFINE p == z \div w
             q == z % w
  <2>4. Ragged(m, n, x) = Chunk(p, 16 * b + q, 1)
    BY <1>3, <1>8
  <2>5. w + 16 * b = m
    BY <1>1
  <2> HIDE DEF w, z
  <2>6. p \in 0 .. 16 * a - 1
    BY <2>1, <2>2, <2>3, QuotientBelow
  <2>7. q \in 0 .. w - 1
    BY <2>1, <2>2, DivMod
  <2> HIDE DEF p, q
  <2> QED BY <1>1, <2>1, <2>4, <2>5, <2>6, <2>7 DEF InMatrix, Chunk
<1> QED BY <1>6, <1>7, <1>8

\* Every element is in a chunk: of a block, of the rows below or of the columns beside.
LEMMA RaggedCovers ==
  ASSUME NEW m \in Nat \ {0}, NEW n \in Nat \ {0}, NEW r \in 0 .. n - 1, NEW c \in 0 .. m - 1
  PROVE  \E x \in 0 .. RaggedCount(m, n) - 1 : Covers(Ragged(m, n, x), r, c)
<1> DEFINE a == Rounds(n)
           b == Rounds(m)
           w == m - 16 * b
           u == 16 * a * b * 2
           v == (n - 16 * a) * m
           count == u + v + 16 * a * w
           at(x) ==
             IF x < u
             THEN Chunk((x \div (32 * b)) * 16 + ((x % 32) \div 2),
                        ((x \div 32) % b) * 16 + 8 * (x % 2), 8)
             ELSE IF x - u < v THEN Chunk(16 * a + ((x - u) \div m), (x - u) % m, 1)
             ELSE Chunk((x - u - v) \div w, 16 * b + ((x - u - v) % w), 1)
<1>1. a \in Nat /\ 16 * a < n /\ b \in Nat /\ 16 * b < m
  BY RoundsFacts
<1>2. RaggedCount(m, n) = count
  BY DEF RaggedCount
<1>3. \A x : Ragged(m, n, x) = at(x)
  BY DEF Ragged
<1> HIDE DEF a, b
<1>4. /\ u = (32 * b) * a /\ u \in Nat
      /\ v = m * (n - 16 * a) /\ v \in Nat
      /\ 16 * a * w = w * (16 * a) /\ w * (16 * a) \in Nat
      /\ w \in Nat \ {0} /\ w + 16 * b = m
  BY <1>1, Products
<1>5. r \in Int /\ c \in Int /\ 0 <= r /\ r < n /\ 0 <= c /\ c < m
  OBVIOUS
<1>6. SUFFICES \E x \in 0 .. count - 1 : Covers(at(x), r, c)
  BY <1>2, <1>3
<1>7. count \in Nat /\ count = u + v + w * (16 * a)
  BY <1>4
<1> HIDE DEF u, v, w, count
<1>8. CASE r < 16 * a /\ c < 16 * b
  <2> DEFINE p == r \div 16
             q == c \div 16
             s == (r % 16) * 2 + ((c % 16) \div 8)
             x == (32 * b) * p + (32 * q + s)
             y == b * p + q
  <2>1. p \in 0 .. a - 1 /\ q \in 0 .. b - 1 /\ s \in 0 .. 31
    BY <1>1, <1>5, <1>8
  <2>2. s \div 2 = r % 16 /\ s % 2 = (c % 16) \div 8
    BY <1>5
  <2>3. r = 16 * p + (r % 16)
    BY <1>5
  <2>4. 16 * q + 8 * ((c % 16) \div 8) <= c /\ c < 16 * q + 8 * ((c % 16) \div 8) + 8
    BY <1>5
  <2> HIDE DEF p, q, s
  <2>5. b \in Nat \ {0} /\ 32 * b \in Nat \ {0} /\ 32 * q + s \in 0 .. 32 * b - 1
    BY <1>1, <2>1
  <2>6. x \div (32 * b) = p
    BY <2>1, <2>5, Divide
  <2>7. y \in Int /\ x = 32 * y + s
    BY <2>1, <2>5
  <2>8. y % b = q
    <3>1. q \in 0 .. b - 1 /\ p \in Int
      BY <2>1
    <3> QED BY <2>5, <3>1, Divide
  <2>9. x < u /\ x \in Nat
    <3>1. (32 * b) * (a - p) = u - (32 * b) * p /\ a - p \in Int /\ a - p >= 1
      BY <1>1, <1>4, <2>1, <2>5
    <3>2. (32 * b) * (a - p) >= 32 * b
      BY <2>5, <3>1
    <3>3. (32 * b) * p \in Nat
      BY <2>1, <2>5
    <3> QED BY <1>4, <2>1, <2>5, <3>1, <3>2, <3>3
  <2> HIDE DEF x, y
  <2>10. x \div 32 = y /\ x % 32 = s /\ x % 2 = s % 2
    BY <2>1, <2>7
  <2>11. at(x) = Chunk(p * 16 + s \div 2, q * 16 + 8 * (s % 2), 8)
    BY <2>6, <2>8, <2>9, <2>10
  <2>12. Covers(at(x), r, c)
    <3>1. p \in Int /\ q \in Int /\ s \div 2 \in Int /\ s % 2 \in Int
      BY <2>1
    <3> HIDE DEF at
    <3> QED BY <1>5, <2>2, <2>3, <2>4, <2>11, <3>1 DEF Covers, Chunk
  <2>13. x \in 0 .. count - 1
    BY <1>4, <1>7, <2>9
  <2> QED BY <2>12, <2>13
<1>9. CASE r >= 16 * a
  <2> DEFINE y == m * (r - 16 * a) + c
             x == u + y
  <2>1. r - 16 * a \in Nat /\ m * (r - 16 * a) \in Nat
    BY <1>1, <1>5, <1>9
  <2>2. y \div m = r - 16 * a /\ y % m = c
    <3> DEFINE d == r - 16 * a
    <3>1. d \in Int
      BY <2>1
    <3> HIDE DEF d
    <3>2. (m * d + c) \div m = d /\ (m * d + c) % m = c
      BY <3>1, Divide
    <3> QED BY <3>2 DEF d
  <2>3. y < v /\ y \in Nat
    <3>1. m * (n - r) = v - m * (r - 16 * a) /\ n - r \in Int /\ n - r >= 1
      BY <1>1, <1>4, <1>5
    <3>2. m * (n - r) >= m
      BY <3>1
    <3> QED BY <1>4, <1>5, <2>1, <3>1, <3>2
  <2> HIDE DEF y
  <2>4. x - u = y /\ ~(x < u) /\ x \in 0 .. count - 1
    BY <1>4, <1>7, <2>3
  <2>5. at(x) = Chunk(16 * a + (r - 16 * a), c, 1)
    BY <2>2, <2>3, <2>4
  <2>6. Covers(at(x), r, c)
    <3> HIDE DEF at
    <3> QED BY <1>1, <1>5, <2>5 DEF Covers, Chunk
  <2> QED BY <2>4, <2>6
<1>10. CASE r < 16 * a /\ c >= 16 * b
  <2> DEFINE z == w * r + (c - 16 * b)
             x == u + v + z
  <2>1. c - 16 * b \in 0 .. w - 1 /\ r \in Int /\ w * r \in Nat
    BY <1>1, <1>4, <1>5, <1>10
  <2>2. z \div w = r /\ z % w = c - 16 * b
    BY <1>4, <2>1, Divide
  <2>3. z < w * (16 * a) /\ z \in Nat
    <3>1. w * (16 * a - r) = w * (16 * a) - w * r /\ 16 * a - r \in Int /\ 16 * a - r >= 1
      BY <1>1, <1>4, <1>5, <1>10
    <3>2. w * (16 * a - r) >= w
      BY <1>4, <3>1
    <3> QED BY <1>4, <1>5, <2>1, <3>1, <3>2
  <2> HIDE DEF z
  <2>4. /\ x - u - v = z /\ ~(x < u) /\ ~(x - u < v)
        /\ x \in 0 .. count - 1
    BY <1>4, <1>7, <2>3
  <2>5. at(x) = Chunk(r, 16 * b + (c - 16 * b), 1)
    BY <2>2, <2>4
  <2>6. Covers(at(x), r, c)
    <3> HIDE DEF at
    <3> QED BY <1>1, <1>5, <2>5 DEF Covers, Chunk
  <2> QED BY <2>4, <2>6
<1> QED BY <1>1, <1>5, <1>8, <1>9, <1>10

\* The shapes both functions are right for: the hard-coded cases need a square.
Shape(m, n) == m \in Nat \ {0} /\ n \in Nat \ {0} /\ (n \in {32, 64} => m = n)

LEMMA ChunksInMatrix ==
  ASSUME NEW f \in {0, 1}, NEW m, NEW n, Shape(m, n), NEW x \in 0 .. ChunkCount(f, m, n) - 1
  PROVE  InMatrix(ChunkOf(f, m, n, x), m, n)
<1>1. CASE f = 0 /\ n = 32
  <2>1. m = 32 /\ x \in 0 .. 127 /\ ChunkOf(f, m, n, x) = Blocked(4, 8, x)
    BY <1>1 DEF Shape, ChunkCount, ChunkOf, transpose_submit
  <2> DEFINE top == 127
  <2>2. x \in 0 .. top
    BY <2>1
  <2>3. \A y \in 0 .. top : InMatrix(Blocked(4, 8, y), 32, 32)
    BY Blocked32
  <2> HIDE DEF top
  <2>4. InMatrix(Blocked(4, 8, x), 32, 32)
    BY <2>2, <2>3, Zenon
  <2> QED BY <1>1, <2>1, <2>4
<1>2. CASE f = 0 /\ n = 64
  <2>1. m = 64 /\ x \in 0 .. 1023 /\ ChunkOf(f, m, n, x) = Blocked(16, 4, x)
    BY <1>2 DEF Shape, ChunkCount, ChunkOf, transpose_submit
  <2> DEFINE top == 1023
  <2>2. x \in 0 .. top
    BY <2>1
  <2>3. \A y \in 0 .. top : InMatrix(Blocked(16, 4, y), 64, 64)
    BY Blocked64
  <2> HIDE DEF top
  <2>4. InMatrix(Blocked(16, 4, x), 64, 64)
    BY <2>2, <2>3, Zenon
  <2> QED BY <1>2, <2>1, <2>4
<1>3. CASE f = 0 /\ n \notin {32, 64}
  <2>1. x \in 0 .. RaggedCount(m, n) - 1 /\ ChunkOf(f, m, n, x) = Ragged(m, n, x)
    BY <1>3 DEF ChunkCount, ChunkOf, transpose_submit
  <2> QED BY <2>1, RaggedInMatrix DEF Shape
<1>4. CASE f = 1
  <2>1. m \in Nat \ {0} /\ n \in Nat \ {0} /\ m * n \in Nat
    BY DEF Shape
  <2>2. x \in Nat /\ x < m * n /\ ChunkOf(f, m, n, x) = Chunk(x \div m, x % m, 1)
    BY <1>4, <2>1 DEF ChunkCount, ChunkOf, trans
  <2>3. x \div m \in 0 .. n - 1
    BY <2>1, <2>2, QuotientBelow
  <2>4. x % m \in 0 .. m - 1
    BY <2>1, <2>2, DivMod
  <2> DEFINE p == x \div m
             q == x % m
  <2>5. ChunkOf(f, m, n, x) = Chunk(p, q, 1) /\ p \in 0 .. n - 1 /\ q \in 0 .. m - 1
    BY <2>2, <2>3, <2>4
  <2> HIDE DEF p, q
  <2> QED BY <2>1, <2>5 DEF InMatrix, Chunk
<1> QED BY <1>1, <1>2, <1>3, <1>4

LEMMA ChunksCover ==
  ASSUME NEW f \in {0, 1}, NEW m, NEW n, Shape(m, n), NEW r \in 0 .. n - 1, NEW c \in 0 .. m - 1
  PROVE  \E x \in 0 .. ChunkCount(f, m, n) - 1 : Covers(ChunkOf(f, m, n, x), r, c)
<1>1. CASE f = 0 /\ n = 32
  <2>1. m = 32 /\ ChunkCount(f, m, n) - 1 = 127
    BY <1>1 DEF Shape, ChunkCount
  <2>2. \A x : ChunkOf(f, m, n, x) = Blocked(4, 8, x)
    BY <1>1 DEF ChunkOf, transpose_submit
  <2>3. r \in 0 .. 31 /\ c \in 0 .. 31
    BY <1>1, <2>1
  <2>4. PICK x \in 0 .. 127 : Covers(Blocked(4, 8, x), r, c)
    BY <2>3, Blocked32
  <2> QED BY <2>1, <2>2, <2>4
<1>2. CASE f = 0 /\ n = 64
  <2>1. m = 64 /\ ChunkCount(f, m, n) - 1 = 1023
    BY <1>2 DEF Shape, ChunkCount
  <2>2. \A x : ChunkOf(f, m, n, x) = Blocked(16, 4, x)
    BY <1>2 DEF ChunkOf, transpose_submit
  <2>3. r \in 0 .. 63 /\ c \in 0 .. 63
    BY <1>2, <2>1
  <2>4. PICK x \in 0 .. 1023 : Covers(Blocked(16, 4, x), r, c)
    <3> DEFINE top == 1023
    <3>1. \A a, d \in 0 .. 63 : \E x \in 0 .. top : Covers(Blocked(16, 4, x), a, d)
      BY Blocked64
    <3> HIDE DEF top
    <3>2. \E x \in 0 .. top : Covers(Blocked(16, 4, x), r, c)
      BY <2>3, <3>1
    <3> QED BY <3>2 DEF top
  <2> QED BY <2>1, <2>2, <2>4
<1>3. CASE f = 0 /\ n \notin {32, 64}
  BY <1>3, RaggedCovers DEF Shape, ChunkCount, ChunkOf, transpose_submit
<1>4. CASE f = 1
  <2> DEFINE x == m * r + c
  <2>1. m \in Nat \ {0} /\ n \in Nat \ {0} /\ r \in Int /\ c \in 0 .. m - 1
    BY DEF Shape
  <2>2. x \div m = r /\ x % m = c
    BY <2>1, Divide
  <2>3. m * n \in Nat /\ m * r \in Nat /\ m * (n - r) = m * n - m * r /\ m * (n - r) >= m
    BY <2>1
  <2>4. x \in 0 .. m * n - 1
    BY <2>1, <2>3
  <2> HIDE DEF x
  <2>5. ChunkOf(f, m, n, x) = Chunk(r, c, 1)
    BY <1>4, <2>2 DEF ChunkOf, trans
  <2>6. Covers(ChunkOf(f, m, n, x), r, c)
    BY <2>1, <2>5 DEF Covers, Chunk
  <2>7. ChunkCount(f, m, n) = m * n
    BY <1>4 DEF ChunkCount
  <2> QED BY <2>4, <2>6, <2>7
<1> QED BY <1>1, <1>2, <1>3, <1>4

LEMMA CountPositive ==
  ASSUME NEW f \in {0, 1}, NEW m, NEW n, Shape(m, n)
  PROVE  ChunkCount(f, m, n) \in Nat \ {0}
<1>1. m \in Nat \ {0} /\ n \in Nat \ {0} /\ m * n \in Nat
  BY DEF Shape
<1>2. RaggedCount(m, n) \in Int
  <2> DEFINE a == Rounds(n)
             b == Rounds(m)
  <2>1. a \in Nat /\ 16 * a < n /\ b \in Nat /\ 16 * b < m
    BY <1>1, RoundsFacts
  <2>2. RaggedCount(m, n) = 16 * a * b * 2 + (n - 16 * a) * m + 16 * a * (m - 16 * b)
    BY DEF RaggedCount
  <2> HIDE DEF a, b
  <2> QED BY <1>1, <2>1, <2>2, Products
<1>3. ChunkCount(f, m, n) \in Int
  BY <1>1, <1>2 DEF ChunkCount
<1>4. 0 \in 0 .. n - 1 /\ 0 \in 0 .. m - 1
  BY <1>1
<1>5. PICK x \in 0 .. ChunkCount(f, m, n) - 1 : TRUE
  BY <1>4, ChunksCover
<1> QED BY <1>3, <1>5

-----------------------------------------------------------------------------
(* The matrices.                                                           *)

\* Where A[r][c] belongs in B, and what it holds.
Place(n, r, c) == c * n + r
Value(m, r, c) == r * m + c

LEMMA PlaceFacts ==
  ASSUME NEW m \in Nat \ {0}, NEW n \in Nat \ {0}, NEW r \in 0 .. n - 1, NEW c \in 0 .. m - 1
  PROVE  /\ Place(n, r, c) \in 0 .. m * n - 1
         /\ Place(n, r, c) \div n = c /\ Place(n, r, c) % n = r
         /\ Value(m, r, c) \in Int
<1>1. c * n = n * c /\ n * c \in Nat /\ m * n \in Nat
  OBVIOUS
<1>2. n * (m - c) = m * n - n * c /\ n * (m - c) >= n
  OBVIOUS
<1>3. Place(n, r, c) = n * c + r
  BY <1>1 DEF Place
<1>4. n * c + r \in 0 .. m * n - 1
  BY <1>1, <1>2
<1>5. c \in Int
  OBVIOUS
<1>6. (n * c + r) \div n = c /\ (n * c + r) % n = r
  BY <1>5, Divide
<1>7. Value(m, r, c) \in Int
  BY DEF Value
<1> QED BY <1>3, <1>4, <1>6, <1>7

\* An element of B that is where it belongs.
Right(b, m, n, r, c) == b[Place(n, r, c)] = Value(m, r, c)

\* A right element stays so whatever right elements are written.
LEMMA WriteRight ==
  ASSUME NEW m \in Nat \ {0}, NEW n \in Nat \ {0}, NEW b \in [0 .. m * n - 1 -> Int],
         NEW r \in 0 .. n - 1, NEW c \in 0 .. m - 1, NEW b2,
         b2 = [b EXCEPT ![Place(n, r, c)] = Value(m, r, c)]
  PROVE  /\ b2 \in [0 .. m * n - 1 -> Int] /\ Right(b2, m, n, r, c)
         /\ \A s \in 0 .. n - 1, d \in 0 .. m - 1 :
              Right(b, m, n, s, d) => Right(b2, m, n, s, d)
<1>1. Place(n, r, c) \in 0 .. m * n - 1 /\ Value(m, r, c) \in Int
  BY PlaceFacts
<1>2. b2 \in [0 .. m * n - 1 -> Int] /\ Right(b2, m, n, r, c)
  BY <1>1 DEF Right
<1>3. ASSUME NEW s \in 0 .. n - 1, NEW d \in 0 .. m - 1, Right(b, m, n, s, d)
      PROVE  Right(b2, m, n, s, d)
  <2>1. Place(n, s, d) \in 0 .. m * n - 1
    BY PlaceFacts
  <2>2. CASE Place(n, s, d) = Place(n, r, c)
    <3>1. s = r /\ d = c
      <4>1. \A p \in 0 .. n - 1, q \in 0 .. m - 1 :
              Place(n, p, q) \div n = q /\ Place(n, p, q) % n = p
        <5>1. ASSUME NEW p \in 0 .. n - 1, NEW q \in 0 .. m - 1
              PROVE  Place(n, p, q) \div n = q /\ Place(n, p, q) % n = p
          <6>1. /\ Place(n, p, q) \in 0 .. m * n - 1
                /\ Place(n, p, q) \div n = q /\ Place(n, p, q) % n = p
                /\ Value(m, p, q) \in Int
            BY PlaceFacts, Zenon
          <6> QED BY <6>1
        <5> QED BY <5>1
      <4>2. Place(n, s, d) \div n = d /\ Place(n, r, c) \div n = c
        BY <4>1, Zenon
      <4>3. Place(n, s, d) % n = s /\ Place(n, r, c) % n = r
        BY <4>1, Zenon
      <4> QED BY <2>2, <4>2, <4>3
    <3> QED BY <1>2, <3>1
  <2>3. CASE Place(n, s, d) # Place(n, r, c)
    BY <1>1, <1>3, <2>1, <2>3 DEF Right
  <2> QED BY <2>2, <2>3
<1> QED BY <1>2, <1>3

\* B is right where the first x chunks of function f are, and in the first w
\* elements of the chunk ch; these have been read into the locals.
Copied(b, f, m, n, x) ==
  \A r \in 0 .. n - 1, c \in 0 .. m - 1 :
    (\E y \in 0 .. x - 1 : Covers(ChunkOf(f, m, n, y), r, c)) => Right(b, m, n, r, c)
Written(b, m, n, ch, w) == \A q \in 0 .. w - 1 : Right(b, m, n, ch.row, ch.col + q)
Read(v, m, ch, w) == \A q \in 0 .. w - 1 : v[q] = Value(m, ch.row, ch.col + q)

\* When a chunk is written, one more is copied.
LEMMA ChunkCopied ==
  ASSUME NEW f, NEW m \in Nat, NEW n \in Nat, NEW b, NEW x \in Nat,
         InMatrix(ChunkOf(f, m, n, x), m, n), Copied(b, f, m, n, x),
         Written(b, m, n, ChunkOf(f, m, n, x), ChunkOf(f, m, n, x).width)
  PROVE  Copied(b, f, m, n, x + 1)
<1> DEFINE ch == ChunkOf(f, m, n, x)
<1>1. SUFFICES ASSUME NEW r \in 0 .. n - 1, NEW c \in 0 .. m - 1,
                      NEW y \in 0 .. x, Covers(ChunkOf(f, m, n, y), r, c)
               PROVE  Right(b, m, n, r, c)
  BY DEF Copied
<1>2. CASE y = x
  <2>1. /\ ch.row = r /\ ch.col <= c /\ c < ch.col + ch.width
        /\ ch.col \in Int /\ ch.width \in Int
    BY <1>1, <1>2 DEF Covers, InMatrix
  <2>2. c - ch.col \in 0 .. ch.width - 1 /\ ch.col + (c - ch.col) = c
    BY <2>1
  <2> QED BY <2>1, <2>2 DEF Written
<1>3. CASE y # x
  <2>1. y \in 0 .. x - 1
    BY <1>3
  <2> QED BY <1>1, <2>1 DEF Copied
<1> QED BY <1>2, <1>3

\* When all chunks are copied, B is the transpose.
LEMMA AllCopied ==
  ASSUME NEW f \in {0, 1}, Shape(M, N), NEW b \in [0 .. M * N - 1 -> Int],
         Copied(b, f, M, N, ChunkCount(f, M, N))
  PROVE  b = correctTrans
<1>1. M \in Nat \ {0} /\ N \in Nat \ {0}
  BY DEF Shape
<1>2. ASSUME NEW x \in 0 .. M * N - 1 PROVE b[x] = (x % N) * M + (x \div N)
  <2> DEFINE r == x % N
             c == x \div N
  <2>1. N * M = M * N /\ M * N \in Nat
    BY <1>1
  <2>2. x \in Nat /\ x < N * M
    BY <2>1
  <2>3. c \in 0 .. M - 1
    <3>1. N \in Nat \ {0} /\ M \in Int
      BY <1>1
    <3> QED BY <2>2, <3>1, QuotientBelow, Zenon
  <2>4. r \in 0 .. N - 1 /\ x = (N * c) + r
    <3>1. x \in Int
      BY <2>2
    <3> QED BY <1>1, <3>1, DivMod, Zenon
  <2> HIDE DEF r, c
  <2>5. Right(b, M, N, r, c)
    BY <2>3, <2>4, ChunksCover DEF Copied
  <2>6. N * c = c * N
    BY <1>1, <2>3
  <2> QED BY <2>4, <2>5, <2>6 DEF Right, Place, Value, r, c
<1> QED BY <1>2 DEF correctTrans

-----------------------------------------------------------------------------
(* tracegen and the loop of eval_perf.                                     *)

Tracing == {"outside", "start", "call", "copy", "end", "validate"}

\* Of the chunk ch q accesses are done: q of its elements have been read into v, or
\* all of them, and some have been written to b.
AtChunk(ch, m, n, q, v, b) ==
  /\ q \in 0 .. 2 * ch.width - 1
  /\ q < ch.width => Read(v, m, ch, q)
  /\ q >= ch.width => Read(v, m, ch, ch.width) /\ Written(b, m, n, ch, q - ch.width)

\* Function f has copied its first x chunks to b and is at chunk x.
Copying(f, m, n, x, q, v, b) ==
  /\ x \in 0 .. ChunkCount(f, m, n) - 1
  /\ Copied(b, f, m, n, x) /\ AtChunk(ChunkOf(f, m, n, x), m, n, q, v, b)

\* tracegen's state, until the alarm ends it.
Traced ==
  /\ pc \in Tracing => /\ i \in {0, 1}
                       /\ B \in [0 .. M * N - 1 -> Int] /\ vals \in [0 .. 7 -> Int]
  /\ pc \in {"outside", "start"} => chunk = 0 /\ k = 0
  /\ pc = "call" => chunk = 0 /\ k \in Nat
  /\ pc = "copy" => Copying(i, M, N, chunk, k, vals, B)
  /\ pc \in {"end", "validate"} => B = correctTrans

\* What has been recorded: the submission is function 0, and its result is in both
\* tables as soon as the loop has gone past it.
Submitted == results.correct = 1 /\ results.misses = func_list[0]
Recorded ==
  /\ pc \in Tracing => results.funcid = 0
  /\ pc \in Tracing \cup {"run"} /\ i >= 1 => results.funcid = 0 /\ Submitted
  /\ pc \in {"report", "exit"} => results.funcid = 0 /\ Submitted

\* The lines printed: none before the report, and then its line or the alarm's first.
Printed ==
  /\ pc \in Tracing \cup {"run", "report"} => output = <<>>
  /\ pc = "exit" => Len(output) > 0 /\ Head(output) = <<1, func_list[0]>>
  /\ pc = "done" => /\ Len(output) > 0
                    /\ Head(output) \in {<<0, 0>>, <<1, func_list[0]>>}

TransTypeOK ==
  /\ Shape(M, N)
  /\ pc \in Tracing \cup {"run", "report", "exit", "done"}
  /\ i \in 0 .. 2
  /\ statinfo \in [hits : Nat, misses : Nat, evictions : Nat]
  /\ results \in [funcid : {None, 0}, correct : {0, 1}, misses : Nat]
  /\ func_list \in [{0, 1} -> {None} \cup Nat]
  /\ output \in Seq({0, 1} \X ({None} \cup Nat))

TransInv == TransTypeOK /\ Traced /\ Recorded /\ Printed

LEMMA FuncCounter ==
  /\ func_counter = 2 /\ 0 .. func_counter - 1 = {0, 1}
  /\ Registered[1] = "Transpose submission" /\ Registered[2] # "Transpose submission"
BY DEF func_counter, Registered

\* A line of the log leaves everything but the simulator and the marker flag alone.
LEMMA LineCounts ==
  ASSUME statinfo \in [hits : Nat, misses : Nat, evictions : Nat], NEW a, Line(a)
  PROVE  statinfo' \in [hits : Nat, misses : Nat, evictions : Nat]
<1>1. CASE Do(a, 0)
  <2> DEFINE evictions == IF Evicts(a) THEN statinfo.evictions + 1 ELSE statinfo.evictions
             hit == [statinfo EXCEPT !.hits = statinfo.hits + 1 + 0]
             missed == [statinfo EXCEPT !.misses = statinfo.misses + 1]
             counted == [missed EXCEPT !.hits = missed.hits + 0]
  <2>1. evictions \in Nat
    OBVIOUS
  <2> HIDE DEF evictions
  <2>2. statinfo' = hit \/ statinfo' = [counted EXCEPT !.evictions = evictions]
    BY <1>1, Zenon DEF Do, evictions
  <2>3. hit \in [hits : Nat, misses : Nat, evictions : Nat]
    OBVIOUS
  <2>4. missed \in [hits : Nat, misses : Nat, evictions : Nat]
    OBVIOUS
  <2> HIDE DEF missed, hit
  <2>5. counted \in [hits : Nat, misses : Nat, evictions : Nat]
    BY <2>4
  <2> HIDE DEF counted
  <2> QED BY <2>1, <2>2, <2>3, <2>5
<1>2. CASE UNCHANGED vars
  BY <1>2 DEF vars
<1> QED BY <1>1, <1>2 DEF Line

LEMMA InitTransInv == TransInit => TransInv
<1> SUFFICES ASSUME TransInit PROVE TransInv
  OBVIOUS
<1>1. Shape(M, N)
  BY TransAssumption DEF TransInit, Shape
<1>2. INT_MAX \in Nat
  BY SMT DEF INT_MAX
<1>3. TransTypeOK
  <2>1. func_list \in [{0, 1} -> {None} \cup Nat]
    BY FuncCounter DEF TransInit
  <2>2. output \in Seq({0, 1} \X ({None} \cup Nat))
    BY DEF TransInit
  <2>3. /\ statinfo \in [hits : Nat, misses : Nat, evictions : Nat]
        /\ pc = "run" /\ i = 0
    BY DEF TransInit, Init
  <2>4. results \in [funcid : {None, 0}, correct : {0, 1}, misses : Nat]
    BY <1>2 DEF TransInit
  <2> QED BY <1>1, <2>1, <2>2, <2>3, <2>4 DEF TransTypeOK
<1>4. Traced /\ Recorded /\ Printed
  BY DEF TransInit, Traced, Recorded, Printed, Tracing
<1> QED BY <1>3, <1>4 DEF TransInv

\* What a function's turn and its end make of the results.
LEMMA ResultsTyped ==
  ASSUME TransTypeOK, NEW n \in Nat
  PROVE  /\ [results EXCEPT !.funcid = 0] \in [funcid : {None, 0}, correct : {0, 1}, misses : Nat]
         /\ [results EXCEPT !.funcid = 0].funcid = 0
         /\ [results EXCEPT !.correct = 1, !.misses = n]
              = [funcid |-> results.funcid, correct |-> 1, misses |-> n]
<1> DEFINE Rs == [funcid : {None, 0}, correct : {0, 1}, misses : Nat]
<1>1. results \in Rs
  BY DEF TransTypeOK
<1>2. [results EXCEPT !.funcid = 0] \in Rs /\ [results EXCEPT !.funcid = 0].funcid = 0
  BY <1>1
<1> DEFINE r1 == [results EXCEPT !.correct = 1]
<1>3. r1 = [funcid |-> results.funcid, correct |-> 1, misses |-> results.misses]
  BY <1>1
<1> HIDE DEF r1
<1>4. [r1 EXCEPT !.misses = n] = [funcid |-> results.funcid, correct |-> 1, misses |-> n]
  BY <1>3
<1> QED BY <1>2, <1>4 DEF r1

LEMMA RunTracegenKeeps == ASSUME TransInv, RunTracegen PROVE TransInv'
<1>1. /\ pc = "run" /\ i < func_counter /\ pc' = "outside" /\ i' = i
      /\ chunk' = 0 /\ k' = 0 /\ B' = [x \in 0 .. M * N - 1 |-> None]
      /\ vals' = [q \in 0 .. 7 |-> None]
      /\ NewSimulation /\ UNCHANGED <<M, N, func_list, output>>
  BY Zenon DEF RunTracegen
<1>2. results' = IF Registered[i + 1] = "Transpose submission"
                 THEN [results EXCEPT !.funcid = i] ELSE results
  BY Zenon DEF RunTracegen
<1>3. TransTypeOK /\ Recorded /\ Printed
  BY Zenon DEF TransInv
<1>4. i \in {0, 1}
  <2>1. i \in 0 .. 2 /\ i < 2
    BY <1>1, <1>3, FuncCounter, Zenon DEF TransTypeOK
  <2> QED BY <2>1
<1>5. CASE i = 0
  <2>1. Registered[i + 1] = "Transpose submission"
    <3>1. i + 1 = 1
      BY <1>5
    <3> QED BY <3>1, FuncCounter, Zenon
  <2>2. results' = [results EXCEPT !.funcid = 0]
    BY <1>2, <1>5, <2>1, Zenon
  <2>3. /\ results' \in [funcid : {None, 0}, correct : {0, 1}, misses : Nat]
        /\ results'.funcid = 0
    BY <1>3, <2>2, ResultsTyped, Zenon
  <2> QED BY <1>1, <1>3, <1>5, <2>3
          DEF TransInv, TransTypeOK, NewSimulation, Shape, Tracing, Traced, None, Recorded, Printed
<1>6. CASE i = 1
  <2>1. Registered[i + 1] # "Transpose submission"
    <3>1. i + 1 = 2
      BY <1>6
    <3> QED BY <3>1, FuncCounter, Zenon
  <2>2. results' = results
    BY <1>2, <2>1, Zenon
  <2>3. TransTypeOK'
    BY <1>1, <1>3, <1>6, <2>2 DEF TransTypeOK, NewSimulation, Shape, Tracing
  <2>4. Traced'
    BY <1>1, <1>6 DEF Traced, Tracing, None
  <2>5. Recorded' /\ Printed'
    BY <1>1, <1>3, <1>6, <2>2 DEF Tracing, Recorded, Printed, Submitted
  <2> QED BY <2>3, <2>4, <2>5 DEF TransInv
<1> QED BY <1>4, <1>5, <1>6

\* Nothing is recorded or printed between the start of tracegen and validate.
LEMMA StillTracing ==
  ASSUME TransInv, pc \in Tracing, pc' \in Tracing, UNCHANGED <<M, N, i, results, func_list, output>>,
         statinfo' \in [hits : Nat, misses : Nat, evictions : Nat], Traced'
  PROVE  TransInv'
<1>1. TransTypeOK'
  BY DEF TransInv, TransTypeOK, Shape
<1>2. Recorded' /\ Printed'
  BY DEF TransInv, Recorded, Printed, Submitted, Tracing
<1> QED BY <1>1, <1>2 DEF TransInv

LEMMA LineKeeps ==
  ASSUME TransInv, NEW a, Line(a), pc \in Tracing, pc' \in Tracing,
         UNCHANGED <<M, N, i, results, func_list, output>>, Traced'
  PROVE  TransInv'
<1>1. statinfo \in [hits : Nat, misses : Nat, evictions : Nat]
  BY DEF TransInv, TransTypeOK
<1>2. statinfo' \in [hits : Nat, misses : Nat, evictions : Nat]
  BY <1>1, LineCounts
<1> QED BY <1>2, StillTracing

LEMMA OutsideKeeps == ASSUME TransInv, Outside PROVE TransInv'
<1>1. Traced'
  BY DEF TransInv, Traced, Outside, Tracing, progVars
<1> QED BY <1>1, LineKeeps DEF Outside, Tracing

LEMMA StartKeeps == ASSUME TransInv, Start PROVE TransInv'
<1>1. Traced'
  BY DEF TransInv, Traced, Start, Tracing, progVars
<1> QED BY <1>1, LineKeeps DEF Start, Tracing

\* At the beginning of a function nothing is copied.
LEMMA BeginsCopying ==
  ASSUME NEW f \in {0, 1}, NEW m, NEW n, Shape(m, n), NEW v, NEW b
  PROVE  Copying(f, m, n, 0, 0, v, b)
<1>1. ChunkCount(f, m, n) \in Nat \ {0}
  BY CountPositive
<1>2. InMatrix(ChunkOf(f, m, n, 0), m, n)
  BY <1>1, ChunksInMatrix
<1>3. ChunkOf(f, m, n, 0).width \in 1 .. 8
  BY <1>2 DEF InMatrix
<1>4. Copied(b, f, m, n, 0)
  BY DEF Copied
<1>5. Read(v, m, ChunkOf(f, m, n, 0), 0)
  BY DEF Read
<1> QED BY <1>1, <1>3, <1>4, <1>5 DEF Copying, AtChunk

LEMMA CallFunctionKeeps == ASSUME TransInv, CallFunction PROVE TransInv'
<1>1. /\ pc = "call" /\ UNCHANGED <<M, N, i, chunk, vals, B, results, func_list, output>>
      /\ (k' = k + 1 /\ UNCHANGED pc) \/ (k' = 0 /\ pc' = "copy")
      /\ Line(GLOBALS[i + 1][k + 1])
  BY DEF CallFunction
<1>2. i \in {0, 1} /\ Shape(M, N) /\ chunk = 0 /\ k \in Nat
  BY <1>1 DEF TransInv, TransTypeOK, Traced, Tracing
<1>3. pc' = "copy" => Copying(i', M', N', chunk', k', vals', B')
  BY <1>1, <1>2, BeginsCopying
<1>4. B \in [0 .. M * N - 1 -> Int] /\ vals \in [0 .. 7 -> Int]
  BY <1>1 DEF TransInv, Traced, Tracing
<1>5. pc' \in {"call", "copy"} /\ (pc' = "call" => k' \in Nat) /\ chunk' = 0
  BY <1>1, <1>2
<1>6. B' \in [0 .. M' * N' - 1 -> Int] /\ vals' \in [0 .. 7 -> Int] /\ i' \in {0, 1}
  BY <1>1, <1>2, <1>4
<1>7. Traced'
  BY <1>3, <1>5, <1>6 DEF Traced
<1> QED BY <1>1, <1>5, <1>7, LineKeeps DEF Tracing

LEMMA EndKeeps == ASSUME TransInv, End PROVE TransInv'
<1>1. Traced'
  BY DEF TransInv, Traced, End, Tracing, progVars, correctTrans
<1> QED BY <1>1, LineKeeps DEF End, Tracing

\* One access of a chunk: either an element is read into its local, or the local is
\* written to its place; after the last one the chunk is copied.
LEMMA ReadStep ==
  ASSUME NEW f \in {0, 1}, NEW m, NEW n, Shape(m, n), NEW x, NEW q, NEW v \in [0 .. 7 -> Int], NEW b,
         Copying(f, m, n, x, q, v, b), q < ChunkOf(f, m, n, x).width,
         NEW v2, v2 = [v EXCEPT ![q] = Value(m, ChunkOf(f, m, n, x).row, ChunkOf(f, m, n, x).col + q)]
  PROVE  /\ v2 \in [0 .. 7 -> Int]
         /\ q + 1 < 2 * ChunkOf(f, m, n, x).width
         /\ Copying(f, m, n, x, q + 1, v2, b)
<1> DEFINE ch == ChunkOf(f, m, n, x)
<1>1. m \in Nat \ {0} /\ n \in Nat \ {0}
  BY DEF Shape
<1>2. /\ x \in 0 .. ChunkCount(f, m, n) - 1 /\ q \in 0 .. 2 * ch.width - 1
      /\ Copied(b, f, m, n, x) /\ Read(v, m, ch, q)
  BY DEF Copying, AtChunk
<1>3. /\ ch.row \in 0 .. n - 1 /\ ch.col \in Nat /\ ch.width \in 1 .. 8
      /\ ch.col + ch.width <= m
  BY <1>2, ChunksInMatrix DEF InMatrix
<1>4. q < ch.width /\ v2 = [v EXCEPT ![q] = Value(m, ch.row, ch.col + q)]
  OBVIOUS
<1>5. AtChunk(ch, m, n, q + 1, v2, b) => Copying(f, m, n, x, q + 1, v2, b)
  BY <1>2 DEF Copying
<1> HIDE DEF ch
<1>6. q \in 0 .. 7 /\ q + 1 < 2 * ch.width /\ q + 1 \in 0 .. 2 * ch.width - 1
  BY <1>2, <1>3, <1>4
<1>7. Value(m, ch.row, ch.col + q) \in Int
  <2> DEFINE c == ch.col
             w == ch.width
  <2>1. c \in Nat /\ w \in 1 .. 8 /\ c + w <= m /\ q < w /\ q \in 0 .. 7
    BY <1>3, <1>4, <1>6
  <2> HIDE DEF c, w
  <2>2. c + q \in 0 .. m - 1
    BY <1>1, <2>1
  <2> QED BY <1>1, <1>3, <2>2, PlaceFacts DEF c
<1>8. v2 \in [0 .. 7 -> Int]
  BY <1>4, <1>6, <1>7
<1>9. Read(v2, m, ch, q + 1)
  <2>1. SUFFICES ASSUME NEW p \in 0 .. q PROVE v2[p] = Value(m, ch.row, ch.col + p)
    BY <1>6 DEF Read
  <2>2. CASE p = q
    BY <1>4, <1>6, <2>2
  <2>3. CASE p # q
    <3>1. p \in 0 .. q - 1 /\ p \in 0 .. 7
      BY <1>6, <2>3
    <3>2. v2[p] = v[p]
      BY <1>4, <1>6, <2>3, <3>1
    <3> QED BY <1>2, <3>1, <3>2 DEF Read
  <2> QED BY <2>2, <2>3
<1>10. q + 1 >= ch.width => q + 1 = ch.width /\ Written(b, m, n, ch, (q + 1) - ch.width)
  BY <1>3, <1>4, <1>6 DEF Written
<1>11. AtChunk(ch, m, n, q + 1, v2, b)
  BY <1>6, <1>9, <1>10 DEF AtChunk
<1> QED BY <1>5, <1>6, <1>8, <1>11 DEF ch

LEMMA WriteStep ==
  ASSUME NEW f \in {0, 1}, NEW m, NEW n, Shape(m, n), NEW x, NEW q, NEW v,
         NEW b \in [0 .. m * n - 1 -> Int],
         Copying(f, m, n, x, q, v, b), q >= ChunkOf(f, m, n, x).width,
         NEW b2, b2 = [b EXCEPT ![Place(n, ChunkOf(f, m, n, x).row,
                                         ChunkOf(f, m, n, x).col + q - ChunkOf(f, m, n, x).width)]
                         = v[q - ChunkOf(f, m, n, x).width]]
  PROVE  /\ b2 \in [0 .. m * n - 1 -> Int]
         /\ q + 1 < 2 * ChunkOf(f, m, n, x).width => Copying(f, m, n, x, q + 1, v, b2)
         /\ q + 1 >= 2 * ChunkOf(f, m, n, x).width => Copied(b2, f, m, n, x + 1)
<1> DEFINE ch == ChunkOf(f, m, n, x)
           width == ch.width
           w == q - width
           c == ch.col + w
<1>1. m \in Nat \ {0} /\ n \in Nat \ {0}
  BY DEF Shape
<1>2. /\ x \in 0 .. ChunkCount(f, m, n) - 1 /\ q \in 0 .. 2 * ch.width - 1
      /\ Copied(b, f, m, n, x) /\ Read(v, m, ch, ch.width) /\ Written(b, m, n, ch, w)
  BY DEF Copying, AtChunk
<1>3. InMatrix(ch, m, n)
  BY <1>2, ChunksInMatrix
<1>4. /\ ch.row \in 0 .. n - 1 /\ ch.col \in Nat /\ ch.width \in 1 .. 8
      /\ ch.col + ch.width <= m
  BY <1>3 DEF InMatrix
<1>5. ch.col + q - ch.width = c /\ q >= ch.width
  BY <1>2, <1>4
<1>12. /\ width \in 1 .. 8 /\ q \in 0 .. 2 * width - 1 /\ q >= width
       /\ ch.col \in Nat /\ ch.col + width <= m
  BY <1>2, <1>4, <1>5
<1>6. b2 = [b EXCEPT ![Place(n, ch.row, c)] = v[w]]
  BY <1>5
<1>7. Copied(b2, f, m, n, x) /\ AtChunk(ch, m, n, q + 1, v, b2) => Copying(f, m, n, x, q + 1, v, b2)
  BY <1>2 DEF Copying
<1>8. x \in Nat
  BY <1>2
<1>9. InMatrix(ch, m, n) /\ Copied(b2, f, m, n, x) /\ Written(b2, m, n, ch, ch.width)
      => Copied(b2, f, m, n, x + 1)
  BY <1>1, <1>8, ChunkCopied
<1>10. /\ w \in 0 .. width - 1 /\ c \in 0 .. m - 1 /\ w \in Int /\ (q + 1) - width = w + 1
       /\ \A p \in 0 .. w : p # w => p \in 0 .. w - 1 /\ ch.col + p \in 0 .. m - 1
       /\ q + 1 < 2 * width => q + 1 \in 0 .. 2 * width - 1
       /\ q + 1 >= 2 * width => w + 1 = width
  <2> HIDE DEF width
  <2> QED BY <1>1, <1>12, SMTT(20)
<1>11. v[w] = Value(m, ch.row, c)
  <2>1. \A p \in 0 .. width - 1 : v[p] = Value(m, ch.row, ch.col + p)
    BY <1>2 DEF Read
  <2> QED BY <1>10, <2>1
<1>18. width = ch.width
  OBVIOUS
<1> HIDE DEF ch, w, c, width
<1>13. /\ b2 \in [0 .. m * n - 1 -> Int] /\ Right(b2, m, n, ch.row, c)
       /\ \A s \in 0 .. n - 1, d \in 0 .. m - 1 : Right(b, m, n, s, d) => Right(b2, m, n, s, d)
  <2>1. b2 = [b EXCEPT ![Place(n, ch.row, c)] = Value(m, ch.row, c)]
    BY <1>6, <1>11
  <2> QED BY <1>1, <1>4, <1>10, <2>1, WriteRight
<1>14. Copied(b2, f, m, n, x)
  BY <1>2, <1>13 DEF Copied
<1>15. Written(b2, m, n, ch, w + 1)
  <2>1. SUFFICES ASSUME NEW p \in 0 .. w PROVE Right(b2, m, n, ch.row, ch.col + p)
    <3>1. (w + 1) - 1 = w
      BY <1>10
    <3> QED BY <3>1 DEF Written
  <2>2. CASE p = w
    BY <1>13, <2>2 DEF c
  <2>3. CASE p # w
    <3>1. p \in 0 .. w - 1 /\ ch.col + p \in 0 .. m - 1
      BY <1>10, <2>3
    <3>2. Right(b, m, n, ch.row, ch.col + p)
      BY <1>2, <3>1 DEF Written
    <3> QED BY <1>4, <1>13, <3>1, <3>2
  <2> QED BY <2>2, <2>3
<1>16. q + 1 < 2 * ch.width => Copying(f, m, n, x, q + 1, v, b2)
  <2>1. ~(q + 1 < ch.width)
    BY <1>12, <1>18
  <2>2. ASSUME q + 1 < 2 * ch.width PROVE AtChunk(ch, m, n, q + 1, v, b2)
    <3>1. q + 1 \in 0 .. 2 * ch.width - 1
      BY <1>10, <1>18, <2>2
    <3>2. Written(b2, m, n, ch, (q + 1) - ch.width)
      BY <1>10, <1>15, <1>18
    <3> QED BY <1>2, <2>1, <3>1, <3>2, Zenon DEF AtChunk
  <2> QED BY <1>7, <1>14, <2>2
<1>17. q + 1 >= 2 * ch.width => Copied(b2, f, m, n, x + 1)
  <2>1. q + 1 >= 2 * ch.width => w + 1 = ch.width
    BY <1>10, <1>18
  <2> QED BY <1>3, <1>9, <1>14, <1>15, <2>1
<1> QED BY <1>13, <1>16, <1>17 DEF ch

LEMMA CopyKeeps == ASSUME TransInv, Copy PROVE TransInv'
<1> DEFINE ch == ChunkOf(i, M, N, chunk)
           acc == Access(ch)
<1>1. /\ pc = "copy" /\ UNCHANGED <<M, N, i, results, func_list, output>> /\ Line(acc.addr)
      /\ IF acc.read
         THEN vals' = [vals EXCEPT ![acc.at] = (acc.addr - A_ADDR) \div 4] /\ B' = B
         ELSE B' = [B EXCEPT ![(acc.addr - B_ADDR) \div 4] = vals[acc.at]] /\ vals' = vals
      /\ IF k + 1 < 2 * ch.width THEN k' = k + 1 /\ chunk' = chunk /\ pc' = pc
         ELSE /\ k' = 0 /\ chunk' = chunk + 1
              /\ pc' = IF chunk + 1 = ChunkCount(i, M, N) THEN "end" ELSE "copy"
  BY DEF Copy
<1>2. /\ i \in {0, 1} /\ Shape(M, N) /\ M \in Nat \ {0} /\ N \in Nat \ {0}
      /\ B \in [0 .. M * N - 1 -> Int] /\ vals \in [0 .. 7 -> Int]
      /\ Copying(i, M, N, chunk, k, vals, B)
  BY <1>1 DEF TransInv, TransTypeOK, Traced, Tracing, Shape
<1>3. /\ chunk \in 0 .. ChunkCount(i, M, N) - 1 /\ k \in 0 .. 2 * ch.width - 1
      /\ ChunkCount(i, M, N) \in Nat \ {0}
  BY <1>2, CountPositive DEF Copying, AtChunk
<1>4. /\ ch.row \in 0 .. N - 1 /\ ch.col \in Nat /\ ch.width \in 1 .. 8
      /\ ch.col + ch.width <= M
  BY <1>2, <1>3, ChunksInMatrix DEF InMatrix
<1>5. Access(ch) = IF k < ch.width
                   THEN [addr |-> AddrA(ch.row, ch.col + k), read |-> TRUE, at |-> k]
                   ELSE [addr |-> AddrB(ch.col + k - ch.width, ch.row), read |-> FALSE, at |-> k - ch.width]
  BY DEF Access
<1>6. pc' \in Tracing
  BY <1>1 DEF Tracing
<1>7. chunk \in Nat /\ (chunk + 1 # ChunkCount(i, M, N) => chunk + 1 \in 0 .. ChunkCount(i, M, N) - 1)
  BY <1>3
<1>8. k \in Nat /\ k + 1 \in Nat
  <2> DEFINE w == ch.width
  <2>1. w \in 1 .. 8 /\ k \in 0 .. 2 * w - 1
    BY <1>3, <1>4
  <2> HIDE DEF w
  <2> QED BY <2>1
<1> HIDE DEF ch
<1>9. CASE k < ch.width
  <2> DEFINE a == Value(M, ch.row, ch.col + k)
  <2>1. AddrA(ch.row, ch.col + k) = A_ADDR + 4 * a
    BY DEF AddrA, Value
  <2>2. a \in Int
    <3> DEFINE w == ch.width
               d == ch.col
    <3>2. w \in 1 .. 8 /\ d \in Nat /\ d + w <= M /\ k < w
      BY <1>4, <1>9
    <3> HIDE DEF w, d
    <3>3. d + k \in 0 .. M - 1
      BY <1>2, <1>8, <3>2
    <3>1. ch.col + k \in 0 .. M - 1
      BY <3>3 DEF d
    <3> QED BY <1>2, <1>4, <3>1, PlaceFacts
  <2> HIDE DEF a
  <2>3. (AddrA(ch.row, ch.col + k) - A_ADDR) \div 4 = a
    BY <2>1, <2>2, TransAssumption
  <2>4. acc.read /\ acc.addr = AddrA(ch.row, ch.col + k) /\ acc.at = k
    BY <1>5, <1>9
  <2>5. vals' = [vals EXCEPT ![k] = a] /\ B' = B
    BY <1>1, <2>3, <2>4, Zenon
  <2>6. /\ vals' \in [0 .. 7 -> Int] /\ k + 1 < 2 * ch.width
        /\ Copying(i, M, N, chunk, k + 1, vals', B)
    BY <1>2, <1>9, <2>5, ReadStep DEF a, ch
  <2>7. k' = k + 1 /\ chunk' = chunk /\ pc' = "copy"
    BY <1>1, <2>6
  <2>8. Traced'
    BY <1>1, <1>2, <2>5, <2>6, <2>7 DEF Traced
  <2> QED BY <1>1, <1>6, <2>8, LineKeeps DEF Tracing
<1>10. CASE ~(k < ch.width)
  <2> DEFINE c == ch.col + k - ch.width
             p == Place(N, ch.row, c)
  <2>1. AddrB(c, ch.row) = B_ADDR + 4 * p
    BY DEF AddrB, Place
  <2>2. c \in 0 .. M - 1
    <3> DEFINE w == ch.width
               d == ch.col
    <3>1. w \in 1 .. 8 /\ k \in 0 .. 2 * w - 1 /\ d \in Nat /\ d + w <= M /\ ~(k < w)
      BY <1>3, <1>4, <1>10 DEF ch
    <3> HIDE DEF w, d
    <3>2. d + k - w \in 0 .. M - 1
      BY <1>2, <3>1
    <3> QED BY <3>2 DEF w, d
  <2>3. p \in Int
    <3> HIDE DEF c
    <3>1. p \in 0 .. M * N - 1
      BY <1>2, <1>4, <2>2, PlaceFacts
    <3> QED BY <3>1
  <2>4. ~acc.read /\ acc.addr = AddrB(c, ch.row) /\ acc.at = k - ch.width
    BY <1>5, <1>10
  <2>5. (AddrB(c, ch.row) - B_ADDR) \div 4 = p
    <3> HIDE DEF p
    <3> QED BY <2>1, <2>3, TransAssumption
  <2>6. B' = [B EXCEPT ![p] = vals[k - ch.width]] /\ vals' = vals
    BY <1>1, <2>4, <2>5, Zenon
  <2>7. k >= ch.width
    BY <1>4, <1>8, <1>10
  <2>8. /\ B' \in [0 .. M * N - 1 -> Int]
        /\ k + 1 < 2 * ch.width => Copying(i, M, N, chunk, k + 1, vals, B')
        /\ k + 1 >= 2 * ch.width => Copied(B', i, M, N, chunk + 1)
    BY <1>2, <2>6, <2>7, WriteStep DEF ch
  <2>9. CASE k + 1 < 2 * ch.width
    <3>1. k' = k + 1 /\ chunk' = chunk /\ pc' = "copy"
      BY <1>1, <2>9
    <3>2. Traced'
      BY <1>1, <1>2, <2>6, <2>8, <2>9, <3>1 DEF Traced
    <3> QED BY <1>1, <1>6, <3>2, LineKeeps DEF Tracing
  <2>10. CASE ~(k + 1 < 2 * ch.width)
    <3>1. k' = 0 /\ chunk' = chunk + 1 /\ Copied(B', i, M, N, chunk + 1)
      BY <1>1, <1>4, <1>8, <2>8, <2>10
    <3>2. CASE chunk + 1 = ChunkCount(i, M, N)
      <4>1. pc' = "end"
        BY <1>1, <2>10, <3>2
      <4>2. B' = correctTrans
        BY <1>2, <2>8, <3>1, <3>2, AllCopied
      <4>3. Traced'
        BY <1>1, <1>2, <2>6, <2>8, <4>1, <4>2 DEF Traced, correctTrans
      <4> QED BY <1>1, <1>6, <4>3, LineKeeps DEF Tracing
    <3>3. CASE chunk + 1 # ChunkCount(i, M, N)
      <4>1. pc' = "copy"
        BY <1>1, <2>10, <3>3
      <4>2. Copying(i, M, N, chunk + 1, 0, vals, B')
        <5>1. InMatrix(ChunkOf(i, M, N, chunk + 1), M, N)
          BY <1>2, <1>7, <3>3, ChunksInMatrix
        <5>2. ChunkOf(i, M, N, chunk + 1).width \in 1 .. 8
          BY <5>1 DEF InMatrix
        <5> QED BY <1>7, <3>1, <3>3, <5>2 DEF Copying, AtChunk, Read
      <4>3. Traced'
        BY <1>1, <1>2, <2>6, <2>8, <3>1, <4>1, <4>2 DEF Traced
      <4> QED BY <1>1, <1>6, <4>3, LineKeeps DEF Tracing
    <3> QED BY <3>2, <3>3
  <2> QED BY <2>9, <2>10
<1> QED BY <1>9, <1>10

LEMMA ValidateKeeps == ASSUME TransInv, Validate PROVE TransInv'
<1>1. /\ pc = "validate" /\ i' = i + 1
      /\ pc' = IF i + 1 < func_counter THEN "run" ELSE "report"
      /\ UNCHANGED <<M, N, output>> /\ statinfo' = statinfo
  BY Zenon DEF Validate, vars
<1>2. i \in {0, 1} /\ B = correctTrans
  BY <1>1 DEF TransInv, Traced, Tracing
<1>3. /\ func_list' = [func_list EXCEPT ![i] = statinfo.misses]
      /\ results' = IF results.funcid = i
                    THEN [results EXCEPT !.correct = 1, !.misses = statinfo.misses]
                    ELSE results
  BY <1>2, Zenon DEF Validate
<1>4. TransTypeOK /\ Recorded /\ Printed
  BY Zenon DEF TransInv
<1> DEFINE n == statinfo.misses
<1>5. n \in Nat /\ results \in [funcid : {None, 0}, correct : {0, 1}, misses : Nat]
  BY <1>4 DEF TransTypeOK
<1>6. results.funcid = 0 /\ (i = 1 => Submitted)
  BY <1>1, <1>2, <1>4 DEF Recorded, Tracing
<1> HIDE DEF n
<1>7. func_list' = [func_list EXCEPT ![i] = n]
  BY <1>3 DEF n
<1>8. func_list' \in [{0, 1} -> {None} \cup Nat] /\ (i = 0 => func_list'[0] = n)
      /\ (i = 1 => func_list'[0] = func_list[0])
  <2>1. func_list \in [{0, 1} -> {None} \cup Nat]
    BY <1>4 DEF TransTypeOK
  <2> QED BY <1>2, <1>5, <1>7, <2>1
<1>9. /\ results' \in [funcid : {None, 0}, correct : {0, 1}, misses : Nat]
      /\ results'.funcid = 0 /\ Submitted'
  <2>1. CASE i = 0
    <3>1. results' = [results EXCEPT !.correct = 1, !.misses = n]
      BY <1>3, <1>6, <2>1, Zenon DEF n
    <3>2. [results EXCEPT !.correct = 1, !.misses = n]
            = [funcid |-> results.funcid, correct |-> 1, misses |-> n]
      BY <1>4, <1>5, ResultsTyped, Zenon
    <3>3. results' = [funcid |-> 0, correct |-> 1, misses |-> n]
      BY <1>6, <3>1, <3>2, Zenon
    <3> QED BY <1>5, <1>8, <2>1, <3>3 DEF Submitted
  <2>2. CASE i = 1
    <3>1. results' = results
      BY <1>3, <1>6, <2>2
    <3> QED BY <1>5, <1>6, <1>8, <2>2, <3>1 DEF Submitted
  <2> QED BY <1>2, <2>1, <2>2
<1>10. pc' \in {"run", "report"} /\ i' \in 0 .. 2
  BY <1>1, <1>2
<1>11. TransTypeOK'
  <2>1. /\ Shape(M, N) /\ statinfo \in [hits : Nat, misses : Nat, evictions : Nat]
        /\ output \in Seq({0, 1} \X ({None} \cup Nat))
    BY <1>4, Zenon DEF TransTypeOK
  <2> QED BY <1>1, <1>8, <1>9, <1>10, <2>1 DEF TransTypeOK
<1>12. Traced' /\ Recorded'
  BY <1>9, <1>10 DEF Traced, Recorded, Tracing
<1>13. Printed'
  BY <1>1, <1>4, <1>10 DEF Printed, Tracing
<1> QED BY <1>11, <1>12, <1>13 DEF TransInv

LEMMA ReportKeeps == ASSUME TransInv, Report PROVE TransInv'
<1> DEFINE line == IF results.funcid = None THEN <<0, 0>> ELSE <<results.correct, results.misses>>
<1>1. /\ pc = "report" /\ pc' = "exit" /\ output' = Append(output, line)
      /\ UNCHANGED <<M, N, i, results, func_list>> /\ statinfo' = statinfo
  BY Zenon DEF Report, vars
<1>2. TransTypeOK /\ Recorded /\ Printed
  BY Zenon DEF TransInv
<1>3. results.funcid = 0 /\ Submitted /\ output = <<>>
  BY <1>1, <1>2 DEF Recorded, Printed
<1>4. results \in [funcid : {None, 0}, correct : {0, 1}, misses : Nat]
  BY <1>2 DEF TransTypeOK
<1>5. line = <<1, func_list[0]>> /\ line \in {0, 1} \X ({None} \cup Nat)
  BY <1>3, <1>4 DEF Submitted, None
<1> HIDE DEF line
<1>6. output' = <<line>>
  BY <1>1, <1>3
<1>7. output' \in Seq({0, 1} \X ({None} \cup Nat)) /\ Len(output') > 0 /\ Head(output') = line
  BY <1>5, <1>6
<1>8. TransTypeOK'
  BY <1>1, <1>2, <1>7 DEF TransTypeOK, Shape, Tracing
<1>9. Traced' /\ Recorded' /\ Printed'
  BY <1>1, <1>3, <1>5, <1>7 DEF Traced, Recorded, Printed, Tracing, Submitted
<1> QED BY <1>8, <1>9 DEF TransInv

LEMMA ExitKeeps == ASSUME TransInv, Exit PROVE TransInv'
<1>1. /\ pc = "exit" /\ pc' = "done" /\ UNCHANGED <<M, N, i, results, func_list, output>>
      /\ statinfo' = statinfo
  BY Zenon DEF Exit, evalVars, vars
<1>2. TransTypeOK /\ Printed
  BY Zenon DEF TransInv
<1>3. TransTypeOK'
  BY <1>1, <1>2 DEF TransTypeOK, Shape, Tracing
<1>4. Traced' /\ Recorded' /\ Printed'
  BY <1>1, <1>2 DEF Traced, Recorded, Printed, Tracing
<1> QED BY <1>3, <1>4 DEF TransInv

\* The alarm's line is the first, or comes after the report's.
LEMMA SigalrmKeeps == ASSUME TransInv, sigalrm_handler PROVE TransInv'
<1>1. /\ pc # "done" /\ pc' = "done" /\ i' = 0 /\ output' = Append(output, <<0, 0>>)
      /\ UNCHANGED <<M, N, results, func_list>> /\ NewSimulation
  BY Zenon DEF sigalrm_handler
<1>2. TransTypeOK /\ Printed
  BY Zenon DEF TransInv
<1>3. /\ pc \in Tracing \cup {"run", "report", "exit"}
      /\ output \in Seq({0, 1} \X ({None} \cup Nat)) /\ <<0, 0>> \in {0, 1} \X ({None} \cup Nat)
  BY <1>1, <1>2 DEF TransTypeOK
<1>4. \/ output = <<>>
      \/ Len(output) > 0 /\ Head(output) = <<1, func_list[0]>>
  BY <1>2, <1>3 DEF Printed
<1>5. output' \in Seq({0, 1} \X ({None} \cup Nat)) /\ Len(output') > 0
  BY <1>1, <1>3
<1>6. Head(output') \in {<<0, 0>>, <<1, func_list[0]>>}
  <2>1. CASE output = <<>>
    BY <1>1, <2>1
  <2>2. CASE Len(output) > 0 /\ Head(output) = <<1, func_list[0]>>
    <3> DEFINE s == output
               e == <<0, 0>>
    <3>1. s \in Seq({0, 1} \X ({None} \cup Nat)) /\ Len(s) > 0
      BY <1>3, <2>2
    <3> HIDE DEF s, e
    <3>2. Head(Append(s, e)) = Head(s)
      BY <3>1
    <3> QED BY <1>1, <2>2, <3>2 DEF s, e
  <2> QED BY <1>4, <2>1, <2>2
<1>7. TransTypeOK'
  <2>1. statinfo' \in [hits : Nat, misses : Nat, evictions : Nat]
    BY <1>1 DEF NewSimulation
  <2> QED BY <1>1, <1>2, <1>5, <2>1 DEF TransTypeOK, Shape, Tracing
<1>8. Traced' /\ Recorded' /\ Printed'
  BY <1>1, <1>5, <1>6 DEF Traced, Recorded, Printed, Tracing
<1> QED BY <1>7, <1>8 DEF TransInv

LEMMA NextTransInv == TransInv /\ [TransNext]_tvars => TransInv'
<1> SUFFICES ASSUME TransInv, [TransNext]_tvars PROVE TransInv'
  OBVIOUS
<1>1. CASE UNCHANGED tvars
  <2>1. /\ UNCHANGED <<M, N, pc, i, chunk, k, vals, B, results, func_list, output>>
        /\ statinfo' = statinfo
    BY <1>1, Zenon DEF tvars, progVars, evalVars, vars
  <2>2. TransTypeOK'
    BY <2>1 DEF TransInv, TransTypeOK
  <2>3. Traced' /\ Recorded' /\ Printed'
    BY <2>1 DEF TransInv, Traced, Recorded, Printed, Submitted, correctTrans
  <2> QED BY <2>2, <2>3 DEF TransInv
<1>2. CASE TransNext
  BY <1>2, RunTracegenKeeps, OutsideKeeps, StartKeeps, CallFunctionKeeps, CopyKeeps, EndKeeps,
     ValidateKeeps, ReportKeeps, ExitKeeps, SigalrmKeeps DEF TransNext
<1> QED BY <1>1, <1>2

LEMMA TransInvHolds == TransSpec => []TransInv
BY InitTransInv, NextTransInv, PTL DEF TransSpec

\* Both functions, for every shape that TransAssumption admits, leave the transpose of
\* A in B (transpose_submit, trans; validate of tracegen.c).
THEOREM TransposedHolds == TransSpec => []Transposed
<1>1. TransInv => Transposed
  BY DEF TransInv, Traced, Transposed, Tracing
<1> QED BY <1>1, TransInvHolds, PTL

\* The line that driver.py reads is the submission's own result or the alarm's 0:0, at
\* whatever time the alarm goes off (main, eval_perf, sigalrm_handler of test-trans.c).
THEOREM FirstLineDecidesHolds == TransSpec => []FirstLineDecides
<1>1. TransInv => FirstLineDecides
  BY DEF TransInv, TransTypeOK, Printed, FirstLineDecides, Tracing
<1> QED BY <1>1, TransInvHolds, PTL
=============================================================================
