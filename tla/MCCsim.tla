------------------------------- MODULE MCCsim -------------------------------
(* A small cache for TLC.                                                  *)
EXTENDS Csim
=============================================================================
