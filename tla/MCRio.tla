------------------------------- MODULE MCRio --------------------------------
(***************************************************************************)
(* Four bytes through a buffer of two, in two texts: lines shorter and     *)
(* longer than the buffer, with and without a newline at the end, refills  *)
(* in the middle of a call, and sizes 1 and 3 in a caller's buffer of four *)
(* bytes, whose last byte no call may touch.                               *)
(***************************************************************************)
EXTENDS Rio

MCTexts == {{2}, {1, 4}}
=============================================================================
