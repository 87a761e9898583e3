------------------------------- MODULE Alloc --------------------------------
(***************************************************************************)
(* What a client of malloc, realloc and free may rely on: live payloads    *)
(* are aligned, do not overlap, and hold what was last stored in them      *)
(* whatever is done to the other ones.  Nothing is said of blocks, tags or *)
(* the free list.  Mdriver.tla is shown to implement it.                   *)
(*                                                                         *)
(* The client fills every payload it gets, as the test driver does.        *)
(***************************************************************************)
EXTENDS Integers

CONSTANTS
  Ids,          \* names of the client's blocks
  Sizes,        \* request sizes, in bytes
  Addrs,        \* addresses a payload may start at
  Unit,         \* alignment, and bytes kept by one word
  Fill(_),      \* the word stored throughout the payload of an id
  None          \* the payload of an id that is not live

VARIABLES
  payload,      \* for each id None or [lo, size, words]
  stage         \* "idle" before the first use, "running", or "stopped" by a failed request

allocVars == <<payload, stage>>

Words(n) == (n + Unit - 1) \div Unit
Live == {i \in Ids : payload[i] # None}
Filled(i, lo, n) == [lo |-> lo, size |-> n, words |-> [k \in 1 .. Words(n) |-> Fill(i)]]
Disjoint(lo, n, p) == lo + n <= p.lo \/ p.lo + p.size <= lo

Init == payload = [i \in Ids |-> None] /\ stage = "idle"

\* A new use of the allocator forgets the one before.
Start ==
  /\ payload' = [i \in Ids |-> None]
  /\ stage' \in {"running", "stopped"}

\* malloc for an id that is not live, realloc for one that is: the new payload may
\* be anywhere that no other live one is.
Obtain(i) ==
  /\ stage = "running"
  /\ \E lo \in Addrs, n \in Sizes :
       /\ payload' = [payload EXCEPT ![i] = Filled(i, lo, n)]
       /\ lo % Unit = 0
       /\ \A j \in Live \ {i} : Disjoint(lo, n, payload[j])
  /\ UNCHANGED stage

Free(i) ==
  /\ stage = "running" /\ i \in Live
  /\ payload' = [payload EXCEPT ![i] = None]
  /\ UNCHANGED stage

\* Memory is used up: nothing that was live is lost.
Exhausted == stage = "running" /\ stage' = "stopped" /\ UNCHANGED payload

Next ==
  \/ Start \/ Exhausted
  \/ \E i \in Ids : Free(i) \/ Obtain(i)

Spec == Init /\ [][Next]_allocVars
=============================================================================
