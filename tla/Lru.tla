-------------------------------- MODULE Lru --------------------------------
(***************************************************************************)
(* What a set-associative cache with least-recently-used replacement       *)
(* promises.  Each set of the cache is a set of resident tags with the     *)
(* order of their last uses; nothing is said of how lines are stored.      *)
(* This is the specification that Csim.tla is shown to implement.          *)
(***************************************************************************)
EXTENDS Integers, FiniteSets

CONSTANTS
  SetIds,       \* the sets of the cache
  Tags,         \* the tags of memory blocks
  Ways,         \* lines per set
  CountBound    \* model bound: the largest number of hits or misses

VARIABLES
  resident,     \* the tags in each set
  older,        \* <<u, t>> \in older[s]: u was last used before t
  counts,       \* hits, misses and evictions so far
  request       \* the block that was accessed last

lruVars == <<resident, older, counts, request>>

NoRequest == [set_index |-> -1, tag |-> -1]

Init ==
  /\ resident = [s \in SetIds |-> {}]
  /\ older = [s \in SetIds |-> {}]
  /\ counts = [hits |-> 0, misses |-> 0, evictions |-> 0]
  /\ request = NoRequest

\* After a use of t the tags in keep stay resident and t is the newest of them.
Use(s, t, keep) ==
  /\ resident' = [resident EXCEPT ![s] = keep \cup {t}]
  /\ older' = [older EXCEPT ![s] =
        {uv \in @ : uv[1] \in keep \ {t} /\ uv[2] \in keep \ {t}}
          \cup {<<u, t>> : u \in keep \ {t}}]

\* A modify access is a load and then a store to the same block, which hits:
\* again is 1 for it and 0 for a load or a store.
Hit(s, t, again) ==
  /\ t \in resident[s]
  /\ Use(s, t, resident[s])
  /\ counts' = [counts EXCEPT !.hits = @ + 1 + again]

MissWithRoom(s, t, again) ==
  /\ t \notin resident[s]
  /\ Cardinality(resident[s]) < Ways
  /\ Use(s, t, resident[s])
  /\ counts' = [counts EXCEPT !.misses = @ + 1, !.hits = @ + again]

\* The set is full: the tag that is older than all the others goes.
MissWithEviction(s, t, again) ==
  /\ t \notin resident[s]
  /\ Cardinality(resident[s]) >= Ways
  /\ \E v \in resident[s] :
       /\ \A u \in resident[s] \ {v} : <<v, u>> \in older[s]
       /\ Use(s, t, resident[s] \ {v})
  /\ counts' = [counts EXCEPT !.misses = @ + 1, !.evictions = @ + 1, !.hits = @ + again]

\* The block of an access is visible, so that an implementation cannot pass a
\* use of one block off as the use of another.
Access(s, t, again) ==
  /\ request' = [set_index |-> s, tag |-> t]
  /\ Hit(s, t, again) \/ MissWithRoom(s, t, again) \/ MissWithEviction(s, t, again)

Next ==
  /\ counts.hits < CountBound /\ counts.misses < CountBound
  /\ \E s \in SetIds, t \in Tags, again \in {0, 1} : Access(s, t, again)

Spec == Init /\ [][Next]_lruVars
=============================================================================
