------------------------------- MODULE MCTrans -------------------------------
(* The sizes the driver grades and some ragged ones, with the addresses that *)
(* trace.f0 and trace.f1 show.                                                *)
EXTENDS Trans

MCShapes == {<<32, 32>>, <<64, 64>>, <<61, 67>>, <<5, 3>>, <<17, 18>>, <<33, 20>>, <<3, 40>>}

MCGlobals == <<<<3715232, 3715204, 3715200>>, <<3715264, 3715204, 3715200>>>>
=============================================================================
