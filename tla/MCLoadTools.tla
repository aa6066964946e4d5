------------------------------ MODULE MCLoadTools ------------------------------
(***************************************************************************)
(* LoadTools for TLC: tests of one client that sends enough to see its     *)
(* reads fail and panic, and tests of two clients.                         *)
(***************************************************************************)
EXTENDS LoadTools

CONSTANTS c1, c2

MCScenarios ==
    [mode : {"blast", "sequential", "pingpong"}, clients : {{c1}},
     messages : {7}, interrupts : {0}]
      \cup [mode : AllModes, clients : {{c1}}, messages : {1}, interrupts : {2}]
      \cup [mode : {"echo"}, clients : {{c1}}, messages : {2}, interrupts : {1}]
      \cup [mode : AllModes \ {"echo"}, clients : {{c1, c2}},
            messages : {1}, interrupts : {0}]
===============================================================================
