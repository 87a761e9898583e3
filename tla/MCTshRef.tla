------------------------------ MODULE MCTshRef ------------------------------
(* The reference shell: a list of one entry, and one child at a time. *)
EXTENDS TshRef
=============================================================================
