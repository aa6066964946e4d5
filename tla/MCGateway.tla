------------------------------- MODULE MCGateway -------------------------------
(***************************************************************************)
(* Gateway for TLC: a few small scenarios, each for one of its concerns.   *)
(***************************************************************************)
EXTENDS Gateway

CONSTANTS h1, h2, b1, b2, m1, m2

Scenario(hs, bs, ms, env, flag, mayStop) ==
    [conns |-> hs, backends |-> bs, messages |-> ms, flag |-> flag, env |-> env,
     mayStop |-> mayStop]

MCScenarios ==
    {\* two clients of one backend
     Scenario({h1, h2}, {b1}, {m1}, Unset, 1, FALSE),
     \* one client, one backend, a sequence of messages
     Scenario({h1}, {b1}, {m1, m2}, Unset, 2, FALSE),
     \* two backends that may each take part of what a client does
     Scenario({h1}, {b1, b2}, {m1}, Unset, 2, FALSE),
     \* interruptions, with the default, a zero and a negative queue size
     Scenario({h1}, {b1}, {m1}, Garbage, 1, TRUE),
     Scenario({h1}, {b1}, {m1, m2}, 0, 1, TRUE),
     Scenario({h1}, {b1}, {m1}, -1, 1, TRUE)}
===============================================================================
