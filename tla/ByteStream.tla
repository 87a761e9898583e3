----------------------------- MODULE ByteStream -----------------------------
(***************************************************************************)
(* What the Rio package promises its caller about one descriptor           *)
(* (proxylab-handout/csapp.c): calls that take the next bytes of a stream, *)
(* without saying how they are fetched.  A byte is named by its place in   *)
(* the stream, 1 .. Total; data is what the last call handed over.         *)
(***************************************************************************)
EXTENDS Integers

CONSTANTS
  Total,    \* bytes the descriptor will ever deliver
  Texts,    \* where the newlines may be
  Sizes     \* the counts and buffer sizes callers ask for

VARIABLES
  newlines, \* the places that hold '\n'
  taken,    \* bytes consumed by finished calls
  call,     \* the call in progress
  data      \* what the last call gave: bytes indexed from 0

streamVars == <<newlines, taken, call, data>>

Ops == {"readn", "readnb", "readlineb"}

Idle == [op |-> "idle", n |-> 0]

Nothing == [i \in {} |-> 0]

\* The k bytes after the first t of the stream.
Bytes(t, k) == [i \in 0 .. k - 1 |-> t + 1 + i]

\* readn and readnb come short of n bytes only at the end of the stream.
Counted(t, n, k) == k \in 0 .. n /\ t + k <= Total /\ (k = n \/ t + k = Total)

\* readlineb stops after a newline, with n - 1 bytes, or at the end of the stream.
Lined(t, n, k) ==
  /\ k \in 0 .. n - 1 /\ t + k <= Total
  /\ \A i \in 1 .. k - 1 : t + i \notin newlines
  /\ k = n - 1 \/ t + k = Total \/ (k > 0 /\ t + k \in newlines)

Init ==
  /\ newlines \in Texts
  /\ taken = 0 /\ call = Idle /\ data = Nothing

Ask(o, n) ==
  /\ call = Idle
  /\ call' = [op |-> o, n |-> n]
  /\ data' = Nothing
  /\ UNCHANGED <<newlines, taken>>

Answer(k) ==
  /\ call.op \in Ops
  /\ IF call.op = "readlineb" THEN Lined(taken, call.n, k) ELSE Counted(taken, call.n, k)
  /\ data' = Bytes(taken, k)
  /\ taken' = taken + k
  /\ call' = Idle
  /\ UNCHANGED newlines

\* A call that fails may have used up bytes, which no later call will see.
Fail(k) ==
  /\ call.op \in Ops
  /\ k < call.n /\ taken + k <= Total
  /\ data' = Nothing
  /\ taken' = taken + k
  /\ call' = Idle
  /\ UNCHANGED newlines

\* The caller is done with what it was given.
Forget ==
  /\ call = Idle
  /\ data' = Nothing
  /\ UNCHANGED <<newlines, taken, call>>

Next ==
  \/ Forget
  \/ \E o \in Ops, n \in Sizes : Ask(o, n)
  \/ \E k \in 0 .. Total : Answer(k) \/ Fail(k)

Spec == Init /\ [][Next]_streamVars
=============================================================================
