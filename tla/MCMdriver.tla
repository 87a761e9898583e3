----------------------------- MODULE MCMdriver -----------------------------
(* The allocator on a heap of a few blocks.                                *)
EXTENDS Mdriver
=============================================================================
