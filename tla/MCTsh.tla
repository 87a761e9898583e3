------------------------------- MODULE MCTsh -------------------------------
(* Instances of Tsh for TLC. *)
EXTENDS Tsh, TLC

\* Pids are interchangeable: no definition orders or computes with them.
\* Used in runs without liveness only.
PidSymmetry == Permutations(Pids)
=============================================================================
