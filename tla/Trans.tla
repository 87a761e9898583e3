------------------------------- MODULE Trans -------------------------------
(***************************************************************************)
(* The transpose lab: the registered functions of trans.c, run by          *)
(* tracegen.c under valgrind, and test-trans.c, which cuts the part between *)
(* the two markers out of valgrind's log, gives it to the cache simulator  *)
(* and reports the misses of the function that is submitted.               *)
(*                                                                         *)
(* Here the simulator (Csim.tla, in the place of csim-ref, which comes     *)
(* without source) reads a line of the log as soon as it is written: it    *)
(* has no effect on tracegen.  A step is one line of the log.              *)
(***************************************************************************)
EXTENDS Csim, Sequences

CONSTANTS
  Shapes,              \* the <<M, N>> of this instance: A is N by M, B is M by N
  A_ADDR, B_ADDR,      \* where the arrays lie
  MARKER_START, MARKER_END,
  GLOBALS              \* what a call through func_list reads: its entry, M and N

\* The two hard-coded cases ask for N only and are right for square matrices only.
ASSUME TransAssumption ==
  /\ A_ADDR \in Nat /\ B_ADDR \in Nat
  /\ Shapes \subseteq (Nat \ {0}) \X (Nat \ {0})
  /\ \A s \in Shapes : s[2] \in {32, 64} => s[1] = s[2]

VARIABLES
  M, N,
  pc,         \* tracegen and test-trans: "run", "outside", "start", "call", "copy", "end",
              \* "validate", "report", "done"
  i,          \* index in func_list
  chunk, k,   \* the function's progress: the chunk it copies, and how far it is in it
  vals,       \* its local variables a1 .. a8 or val0 .. val7
  B,          \* the matrix B; A[r][c] holds r * M + c
  flag,       \* eval_perf is between the markers
  results,    \* the results of the submission
  func_list,  \* misses recorded for each function
  output      \* the TEST_TRANS_RESULTS lines

progVars == <<chunk, k, vals, B>>
evalVars == <<flag, results, func_list, output>>
tvars == <<M, N, pc, i, progVars, evalVars, vars>>

INT_MAX == 2147483647
None == -1

\* registerFunctions.
Registered == <<"Transpose submission", "Simple row-wise scan transpose">>
func_counter == Len(Registered)

-----------------------------------------------------------------------------
(* trans.c.  Both functions copy chunks: w elements of row r of A, from     *)
(* column c on, are read into locals and then written to column r of B.    *)

Chunk(r, c, w) == [row |-> r, col |-> c, width |-> w]

\* for i, for j, for k over square blocks, n blocks to a side, of w by w.
Blocked(n, w, x) ==
  Chunk((x \div (n * w)) * w + (x % w), ((x \div w) % n) * w, w)

\* How often "for (ii = 0; ii + 16 < N; ii += 16)" goes round.
Rounds(n) == IF n > 16 THEN (n - 1) \div 16 ELSE 0

\* Mutant: the last loop starts one column late.
Ragged_ColumnLost(m, n, x) ==
  LET ii == 16 * Rounds(n)
      jj == 16 * Rounds(m)
      inBlocks == ii * Rounds(m) * 2
      inRows == (n - ii) * m
      y == x - inBlocks
      z == y - inRows
  IN  IF x < inBlocks
      THEN Chunk((x \div (32 * Rounds(m))) * 16 + ((x % 32) \div 2),
                 ((x \div 32) % Rounds(m)) * 16 + 8 * (x % 2), 8)
      ELSE IF y < inRows THEN Chunk(ii + (y \div m), y % m, 1)
      ELSE Chunk(z \div (m - jj), (jj + 1 + (z % (m - jj))) % m, 1)

\* The general case: blocks of 16 by 16, each row in two halves, then the rows
\* below the blocks, then the columns to their right.
Ragged(m, n, x) ==
  LET ii == 16 * Rounds(n)
      jj == 16 * Rounds(m)
      inBlocks == ii * Rounds(m) * 2
      inRows == (n - ii) * m
      y == x - inBlocks
      z == y - inRows
  IN  IF x < inBlocks
      THEN Chunk((x \div (32 * Rounds(m))) * 16 + ((x % 32) \div 2),
                 ((x \div 32) % Rounds(m)) * 16 + 8 * (x % 2), 8)
      ELSE IF y < inRows THEN Chunk(ii + (y \div m), y % m, 1)
      ELSE Chunk(z \div (m - jj), jj + (z % (m - jj)), 1)

RaggedCount(m, n) ==
  LET ii == 16 * Rounds(n)
      jj == 16 * Rounds(m)
  IN  ii * Rounds(m) * 2 + (n - ii) * m + ii * (m - jj)

transpose_submit(m, n, x) ==
  IF n = 32 THEN Blocked(4, 8, x) ELSE IF n = 64 THEN Blocked(16, 4, x) ELSE Ragged(m, n, x)

trans(m, n, x) == Chunk(x \div m, x % m, 1)

ChunkOf(f, m, n, x) == IF f = 0 THEN transpose_submit(m, n, x) ELSE trans(m, n, x)

ChunkCount(f, m, n) ==
  IF f # 0 THEN m * n
  ELSE IF n = 32 THEN 4 * 4 * 8 ELSE IF n = 64 THEN 16 * 16 * 4 ELSE RaggedCount(m, n)

AddrA(r, c) == A_ADDR + 4 * (r * M + c)
AddrB(r, c) == B_ADDR + 4 * (r * N + c)

\* Mutant: no local variables, each element is written before the next is read.
Access_Interleaved(ch) ==
  LET q == k \div 2
  IN  IF k % 2 = 0
      THEN [addr |-> AddrA(ch.row, ch.col + q), read |-> TRUE, at |-> q]
      ELSE [addr |-> AddrB(ch.col + q, ch.row), read |-> FALSE, at |-> q]

\* The k-th access of a chunk: all its reads, then all its writes.
Access(ch) ==
  IF k < ch.width
  THEN [addr |-> AddrA(ch.row, ch.col + k), read |-> TRUE, at |-> k]
  ELSE [addr |-> AddrB(ch.col + k - ch.width, ch.row), read |-> FALSE, at |-> k - ch.width]

-----------------------------------------------------------------------------
(* The log and the simulator.                                              *)

\* csim starts with an empty cache.
NewSimulation ==
  /\ cache' = [x \in Indices |-> [valid |-> 0, tag |-> 2^AddrBits - 1]]
  /\ statinfo' = [hits |-> 0, misses |-> 0, evictions |-> 0]
  /\ addrinfo' = NoAddr

\* A line of valgrind's log: eval_perf keeps it when it is, or comes after, the
\* start marker; the end marker is the last it keeps.
Line(a) ==
  /\ flag' = ((flag \/ a = MARKER_START) /\ a # MARKER_END)
  /\ IF flag \/ a = MARKER_START THEN Do(a, 0) ELSE UNCHANGED vars

TransInit ==
  /\ \E s \in Shapes : M = s[1] /\ N = s[2]
  /\ pc = "run" /\ i = 0
  /\ chunk = 0 /\ k = 0 /\ vals = [q \in 0 .. 7 |-> None]
  /\ B = [x \in 0 .. M * N - 1 |-> None]
  /\ flag = FALSE
  /\ results = [funcid |-> None, correct |-> 0, misses |-> INT_MAX]
  /\ func_list = [f \in 0 .. func_counter - 1 |-> None]
  /\ output = <<>>
  /\ Init

\* The loop of eval_perf starts tracegen for the next function.
RunTracegen ==
  /\ pc = "run" /\ i < func_counter
  /\ results' = IF Registered[i + 1] = "Transpose submission"
                THEN [results EXCEPT !.funcid = i] ELSE results
  /\ chunk' = 0 /\ k' = 0 /\ B' = [x \in 0 .. M * N - 1 |-> None]
  /\ vals' = [q \in 0 .. 7 |-> None]
  /\ NewSimulation
  /\ pc' = "outside"
  /\ UNCHANGED <<M, N, i, flag, func_list, output>>

\* initMatrix and the rest of tracegen's work go to the log too.
Outside ==
  /\ pc = "outside"
  /\ Line(A_ADDR)
  /\ pc' = "start"
  /\ UNCHANGED <<M, N, i, progVars, results, func_list, output>>

Start ==
  /\ pc = "start"
  /\ Line(MARKER_START)
  /\ pc' = "call"
  /\ UNCHANGED <<M, N, i, progVars, results, func_list, output>>

\* (*func_list[i].func_ptr)(M, N, A, B)
CallFunction ==
  /\ pc = "call"
  /\ Line(GLOBALS[i + 1][k + 1])
  /\ IF k + 1 < Len(GLOBALS[i + 1]) THEN k' = k + 1 /\ UNCHANGED pc ELSE k' = 0 /\ pc' = "copy"
  /\ UNCHANGED <<M, N, i, chunk, vals, B, results, func_list, output>>

Copy ==
  /\ pc = "copy"
  /\ \E ch \in {ChunkOf(i, M, N, chunk)} : \E acc \in {Access(ch)} :
       /\ Line(acc.addr)
       /\ IF acc.read
          THEN /\ vals' = [vals EXCEPT ![acc.at] = (acc.addr - A_ADDR) \div 4]
               /\ UNCHANGED B
          ELSE /\ B' = [B EXCEPT ![(acc.addr - B_ADDR) \div 4] = vals[acc.at]]
               /\ UNCHANGED vals
       /\ IF k + 1 < 2 * ch.width THEN k' = k + 1 /\ UNCHANGED <<chunk, pc>>
          ELSE /\ k' = 0 /\ chunk' = chunk + 1
               /\ pc' = IF chunk + 1 = ChunkCount(i, M, N) THEN "end" ELSE "copy"
  /\ UNCHANGED <<M, N, i, results, func_list, output>>

End ==
  /\ pc = "end"
  /\ Line(MARKER_END)
  /\ pc' = "validate"
  /\ UNCHANGED <<M, N, i, progVars, results, func_list, output>>

\* correctTrans, the baseline that validate compares B with.
correctTrans == [x \in 0 .. M * N - 1 |-> (x % N) * M + (x \div N)]

\* Mutant: the misses of every function are taken for the submission's.
Validate_AnyFunction ==
  /\ pc = "validate"
  /\ IF B = correctTrans
     THEN /\ func_list' = [func_list EXCEPT ![i] = statinfo.misses]
          /\ results' = [results EXCEPT !.correct = 1, !.misses = statinfo.misses]
     ELSE UNCHANGED <<func_list, results>>
  /\ i' = i + 1
  /\ pc' = IF i + 1 < func_counter THEN "run" ELSE "report"
  /\ UNCHANGED <<M, N, progVars, flag, output, vars>>

\* tracegen's exit status says whether B is right; a function that is wrong is not
\* scored.  The simulator's counts go to func_list and, for the submission, results.
Validate ==
  /\ pc = "validate"
  /\ IF B = correctTrans
     THEN /\ func_list' = [func_list EXCEPT ![i] = statinfo.misses]
          /\ results' = IF results.funcid = i
                        THEN [results EXCEPT !.correct = 1, !.misses = statinfo.misses]
                        ELSE results
     ELSE UNCHANGED <<func_list, results>>
  /\ i' = i + 1
  /\ pc' = IF i + 1 < func_counter THEN "run" ELSE "report"
  /\ UNCHANGED <<M, N, progVars, flag, output, vars>>

\* The end of main.
Report ==
  /\ pc = "report"
  /\ output' = Append(output, IF results.funcid = None THEN <<0, 0>>
                              ELSE <<results.correct, results.misses>>)
  /\ pc' = "exit"
  /\ UNCHANGED <<M, N, i, progVars, flag, results, func_list, vars>>

Exit == pc = "exit" /\ pc' = "done" /\ UNCHANGED <<M, N, i, progVars, evalVars, vars>>

\* sigalrm_handler, at any time until the process has ended: it prints its own
\* result and exits.
sigalrm_handler ==
  /\ pc # "done"
  /\ output' = Append(output, <<0, 0>>)
  /\ pc' = "done"
  /\ i' = 0 /\ chunk' = 0 /\ k' = 0 /\ vals' = <<>> /\ B' = <<>>
  /\ NewSimulation
  /\ UNCHANGED <<M, N, flag, results, func_list>>

TransNext ==
  \/ RunTracegen \/ Outside \/ Start \/ CallFunction \/ Copy \/ End \/ Validate
  \/ Report \/ Exit \/ sigalrm_handler

TransSpec == TransInit /\ [][TransNext]_tvars

-----------------------------------------------------------------------------
(* Properties.                                                             *)

\* Every registered function leaves the transpose of A in B, for every shape, the
\* ragged ones included (what validate finds at tracegen.c:34-47).
Transposed == pc = "validate" => B = correctTrans

\* The misses the repository has on record come out: 287 for the submission at 32 by
\* 32 (the lab notes), 4723 for the simple scan at 64 by 64 (.csim_results), and what
\* driver.py gives full marks for, 300 and 2000 at 32 by 32 and 61 by 67.
MissesAsRecorded ==
  /\ func_list[0] # None /\ <<M, N>> = <<32, 32>> => func_list[0] = 287
  /\ func_list[1] # None /\ <<M, N>> = <<64, 64>> => func_list[1] = 4723
  /\ func_list[0] # None /\ <<M, N>> = <<61, 67>> => func_list[0] <= 2000

\* What driver.py reads, the first TEST_TRANS_RESULTS line, is the submission's own
\* result, or the 0:0 of the alarm; an alarm after the report cannot change it.
FirstLineDecides ==
  output # <<>> =>
    \/ Head(output) = <<1, func_list[0]>>
    \/ Head(output) = <<0, 0>> /\ pc = "done"
=============================================================================
