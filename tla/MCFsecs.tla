------------------------------ MODULE MCFsecs ------------------------------
(* A small word, so that the counter wraps and borrows, and a clock that is *)
(* set back by more than a second.                                          *)
EXTENDS Fsecs

MCSteps == {-5, 3}
=============================================================================
