------------------------------- MODULE MCTiny -------------------------------
(* One request of each kind, with and without headers. *)
EXTENDS Tiny

R(m, t, h) == [method |-> m, target |-> t, headers |-> h]

MCRequests ==
  {R("GET", "page", 1), R("GET", "empty", 0), R("GET", "private", 0), R("GET", "missing", 1),
   R("GET", "prog", 1), R("GET", "bare", 0), R("POST", "page", 0)}
=============================================================================
