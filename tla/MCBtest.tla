------------------------------ MODULE MCBtest ------------------------------
(* Puzzles of the kinds that decl.c lists, with words of seven bits, and    *)
(* one with three arguments, which the harness can test too.  Two ranges    *)
(* are at the limits of what gen_vals can do: one that fills an array when  *)
(* tried exhaustively, and the lowest that is sampled.  The puzzles with    *)
(* most values come first, where there are fewest outcomes before them.     *)
EXTENDS Btest

MCTestSet == <<
  [args |-> 1, rating |-> 2, ranges |-> <<<<1, 1>>>>],
  [args |-> 1, rating |-> 1, ranges |-> <<<<TMax - MAX_TEST_VALS, TMax - 1>>>>],
  [args |-> 1, rating |-> 4, ranges |-> <<<<1, TMax>>>>],
  [args |-> 2, rating |-> 3, ranges |-> <<<<TMin, TMax>>, <<0, 1>>>>],
  [args |-> 3, rating |-> 2,
   ranges |-> <<<<TMin, TMin + MAX_TEST_VALS + 1>>, <<0, 1>>, <<1, 2>>>>],
  [args |-> 0, rating |-> 1, ranges |-> <<>>] >>
=============================================================================
