----------------------------- MODULE MCBackendPool -----------------------------
(***************************************************************************)
(* BackendPool instantiated for TLC: events, requests and connections are  *)
(* model values, interchangeable in the runs that check only safety.       *)
(***************************************************************************)
EXTENDS BackendPool, TLC

Symmetry == Permutations(Events) \cup Permutations(ConnRequests)
              \cup Permutations(Conns)
===============================================================================
