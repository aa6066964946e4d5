---------------------------- MODULE LoadToolsProofs ----------------------------
(***************************************************************************)
(* Proofs about LoadTools: the clients that wait for every answer count    *)
(* the answer to their last message, clients whose reads fail stop, and    *)
(* main prints what the clients counted.                                   *)
(***************************************************************************)
EXTENDS LoadTools, SeqLemmas, SumLemmas, TLAPS

-------------------------------------------------------------------------------
(***************************************************************************)
(* The inductive invariant of the clients, with the types it needs.  What  *)
(* main prints comes after it, with the bounds of the counters.            *)
(***************************************************************************)
Strict == mode \in {"pingpong", "sequential"}
Limit == IF mode = "blast" THEN BurstSize ELSE 1

ClientTypes ==
    /\ scenario \in Scenarios
    /\ pc \in [Clients -> {"dialing", "looping", "sending", "counting",
                           "draining", "awaiting", "finishing", "joining",
                           "closing", "panicking", "recovering", "leaving",
                           "done"}]
    /\ burst \in [Clients -> Nat]
    /\ reader \in [Clients -> {"none", "checking", "reading", "ended"}]
    /\ toServer \in [Clients -> Seq(Nat)]
    /\ toClient \in [Clients -> Seq(Nat)]
    /\ failedReads \in [Clients -> Nat]
    /\ written \in [Clients -> Nat]
    /\ beforeFailure \in [Clients -> Nat]
    /\ received \in [Clients -> Nat]

\* Where a client of each kind may be.
Kind(c) ==
    /\ Strict =>
         /\ pc[c] \in {"dialing", "sending", "counting", "awaiting", "closing",
                       "panicking", "recovering", "leaving", "done"}
         /\ burst[c] = 0
    /\ mode = "blast" =>
         /\ pc[c] \notin {"awaiting", "joining"}
         /\ burst[c] <= BurstSize
         /\ pc[c] \in {"dialing", "looping", "sending", "counting"} =>
              burst[c] < BurstSize
    /\ reader[c] # "none" => mode = "echo"
    /\ pc[c] = "dialing" => failedReads[c] = 0 /\ reader[c] = "none"

\* What a client has sent since its last read.
Current(c) ==
    IF mode = "blast" THEN burst[c] + (IF pc[c] = "counting" THEN 1 ELSE 0)
                      ELSE IF pc[c] \in {"counting", "awaiting"} THEN 1 ELSE 0

\* Between two failing reads a client sends no more than the limit.
Allowance(failures) == (failures - 1) * Limit
AtWork(c) ==
    pc[c] \in {"looping", "sending", "counting", "draining", "awaiting"}
Flood(c) ==
    mode \in {"blast", "sequential", "pingpong"} /\ failedReads[c] > 0 =>
      /\ AtWork(c) =>
           /\ failedReads[c] < PanicAfter
           /\ written[c] - beforeFailure[c]
                <= Allowance(failedReads[c]) + Current(c)
      /\ ~AtWork(c) =>
           written[c] - beforeFailure[c] <= Allowance(PanicAfter)

\* Until a read fails, only the last message of a strict client may be there.
Alone(c) ==
    Strict /\ failedReads[c] = 0 =>
      /\ pc[c] \in {"dialing", "sending"} =>
           toServer[c] = <<>> /\ toClient[c] = <<>>
      /\ pc[c] \in {"counting", "awaiting"} =>
           \/ toServer[c] = <<written[c]>> /\ toClient[c] = <<>>
           \/ toServer[c] = <<>> /\ toClient[c] = <<written[c]>>

ClientInv(c) == Kind(c) /\ Flood(c) /\ Alone(c)
IInv == ClientTypes /\ \A c \in Clients : ClientInv(c)

-------------------------------------------------------------------------------
(***************************************************************************)
(* Steps that leave a client alone.                                        *)
(***************************************************************************)
Untouched(c) ==
    /\ pc'[c] = pc[c] /\ burst'[c] = burst[c] /\ reader'[c] = reader[c]
    /\ toServer'[c] = toServer[c] /\ toClient'[c] = toClient[c]
    /\ failedReads'[c] = failedReads[c] /\ written'[c] = written[c]
    /\ beforeFailure'[c] = beforeFailure[c]

\* A client that a step does not touch keeps its part of the invariant.
LEMMA UntouchedInv ==
  ASSUME NEW c \in Clients, UNCHANGED scenario, Untouched(c), ClientInv(c)
  PROVE  ClientInv(c)'
<1>1. mode' = mode /\ Strict' = Strict /\ \A f : Allowance(f)' = Allowance(f)
  BY DEF mode, Strict, Limit, Allowance
<1>2. Current(c)' = Current(c) /\ AtWork(c)' = AtWork(c)
  BY <1>1 DEF Untouched, Current, AtWork
<1>3. Kind(c)'
  BY <1>1 DEF ClientInv, Kind, Untouched
<1>4. Flood(c)'
  BY <1>1, <1>2 DEF ClientInv, Flood, Untouched
<1>5. Alone(c)'
  BY <1>1 DEF ClientInv, Alone, Untouched
<1> QED BY <1>3, <1>4, <1>5 DEF ClientInv

\* The sizes of the test, and the products of the bound.
LEMMA Sizes == BurstSize \in Nat \ {0} /\ PanicAfter \in Nat \ {0}
  BY SizesAssumption

\* The limit is a size.
LEMMA LimitType == Limit \in Nat \ {0}
  BY Sizes DEF Limit

\* The first failing read allows nothing, each further one one more burst.
LEMMA Allowances ==
  /\ Allowance(1) = 0
  /\ \A f \in Nat : Allowance(f) \in Int
  /\ \A f \in Nat : Allowance(f + 1) = Allowance(f) + Limit
<1>1. Limit \in Nat
  BY LimitType
<1>2. \A f \in Nat : ((f + 1) - 1) * Limit = (f - 1) * Limit + Limit
  BY <1>1
<1>3. \A f \in Nat : (f - 1) * Limit \in Int
  BY <1>1
<1>4. (1 - 1) * Limit = 0
  BY <1>1
<1> QED BY <1>2, <1>3, <1>4 DEF Allowance

\* More failing reads allow more.
LEMMA MoreAllowed ==
  ASSUME NEW f \in Nat, NEW p \in Nat, f < p
  PROVE  Allowance(f) + Limit <= Allowance(p)
<1>1. Limit \in Nat /\ ((p - 1) - f) \in Nat
  BY LimitType
<1>2. (p - 1) * Limit = f * Limit + ((p - 1) - f) * Limit
  BY <1>1
<1>3. ((p - 1) - f) * Limit \in Nat
  BY <1>1
<1>4. f * Limit = (f - 1) * Limit + Limit
  BY <1>1
<1>5. f * Limit \in Int /\ (p - 1) * Limit \in Int /\ (f - 1) * Limit \in Int
  BY <1>1
<1> HIDE DEF Limit
<1> QED BY <1>2, <1>3, <1>4, <1>5 DEF Allowance

-------------------------------------------------------------------------------
(***************************************************************************)
(* Types.                                                                  *)
(***************************************************************************)
\* What reading does to the connection, and to which client.
LEMMA ReadTypes ==
  ASSUME ClientTypes, NEW c \in Clients,
         \/ Receives(c)
         \/ Fails(c) /\ UNCHANGED received
  PROVE  /\ toServer' \in [Clients -> Seq(Nat)]
         /\ toClient' \in [Clients -> Seq(Nat)]
         /\ failedReads' \in [Clients -> Nat]
         /\ beforeFailure' \in [Clients -> Nat]
         /\ received' \in [Clients -> Nat]
<1>1. CASE Receives(c)
  <2>1. toClient[c] \in Seq(Nat) /\ toClient[c] # <<>> /\ received[c] \in Nat
    BY <1>1 DEF Receives, ClientTypes
  <2>2. Tail(toClient[c]) \in Seq(Nat) /\ received[c] + 1 \in Nat
    BY <2>1
  <2> QED BY <1>1, <2>2 DEF Receives, Counts, ClientTypes
<1>2. CASE Fails(c) /\ UNCHANGED received
  BY <1>2 DEF Fails, ClientTypes
<1> QED BY <1>1, <1>2

\* Every step keeps the types of the clients.
LEMMA NextTypes == ClientTypes /\ [Next]_vars => ClientTypes'
<1> SUFFICES ASSUME ClientTypes, [Next]_vars PROVE ClientTypes'
  OBVIOUS
<1> USE DEF statsVars, connVars, mainVars, clientVars
<1>1. CASE UNCHANGED vars
  BY <1>1 DEF vars, ClientTypes
<1>2. CASE Main \/ LiveStatsEnds \/ Interrupt
  BY <1>2 DEF Main, ClientsDone, Interrupted, PrintReceived, PrintErrors,
              Prints, LiveStatsEnds, Interrupt, ClientTypes
<1>3. ASSUME NEW c \in Clients, Dial(c) PROVE ClientTypes'
  BY <1>3 DEF Dial, Goto, ClientTypes
<1>4. ASSUME NEW c \in Clients, DialFails(c) \/ NextBurst(c)
      PROVE  ClientTypes'
  BY <1>4 DEF DialFails, NextBurst, Goto, ClientTypes
<1>5. ASSUME NEW c \in Clients, DeadlinePasses(c) \/ ServerLeaves(c)
      PROVE  ClientTypes'
  BY <1>5 DEF DeadlinePasses, ServerLeaves, ClientTypes
<1>6. ASSUME NEW c \in Clients, Write(c) PROVE ClientTypes'
  <2>1. written[c] + 1 \in Nat /\ toServer[c] \in Seq(Nat)
    BY DEF ClientTypes
  <2>2. Append(toServer[c], written[c] + 1) \in Seq(Nat)
    BY <2>1
  <2>3. toServer' \in [Clients -> Seq(Nat)]
    BY <1>6, <2>2 DEF Write, ClientTypes
  <2>4. written' \in [Clients -> Nat]
    BY <1>6, <2>1 DEF Write, ClientTypes
  <2> QED BY <1>6, <2>3, <2>4 DEF Write, Goto, ClientTypes
<1>7. ASSUME NEW c \in Clients, WriteFails(c) \/ SeesDeadline(c)
      PROVE  ClientTypes'
  <2>1. AfterSending \in {"joining", "closing"}
    BY DEF AfterSending
  <2>2. \E l \in {"joining", "closing", "draining"} :
           pc' = [pc EXCEPT ![c] = l]
    BY <1>7, <2>1 DEF WriteFails, SeesDeadline, StopsSending, Goto
  <2> QED BY <1>7, <2>2 DEF WriteFails, SeesDeadline, ClientTypes
<1>8. ASSUME NEW c \in Clients, Count(c) PROVE ClientTypes'
  <2>1. AfterMessage(c) \in {"sending", "draining", "awaiting"}
    BY DEF AfterMessage
  <2>2. pc' = [pc EXCEPT ![c] = AfterMessage(c)]
    BY <1>8 DEF Count, Goto
  <2>3. burst' \in [Clients -> Nat]
    BY <1>8 DEF Count, ClientTypes
  <2> HIDE DEF AfterMessage
  <2> QED BY <1>8, <2>1, <2>2, <2>3 DEF Count, ClientTypes
<1>9. ASSUME NEW c \in Clients,
             Drain(c) \/ FinalDrain(c) \/ Await(c) \/ Panics(c)
      PROVE  ClientTypes'
  <2>1. Receives(c) \/ (Fails(c) /\ UNCHANGED received)
    BY <1>9 DEF Drain, FinalDrain, Await, Panics, ReadFails, ReadPanics
  <2>2. \/ UNCHANGED pc
        \/ \E l \in {"looping", "sending", "closing", "finishing", "panicking"} :
             pc' = [pc EXCEPT ![c] = l]
    BY <1>9 DEF Drain, FinalDrain, Await, Panics, Goto
  <2>3. UNCHANGED burst \/ burst' = [burst EXCEPT ![c] = 0]
    BY <1>9 DEF Drain, FinalDrain, Await, Panics
  <2>4. UNCHANGED <<scenario, reader, written>>
    BY <1>9 DEF Drain, FinalDrain, Await, Panics
  <2>5. pc' \in [Clients -> {"dialing", "looping", "sending", "counting",
                             "draining", "awaiting", "finishing", "joining",
                             "closing", "panicking", "recovering", "leaving",
                             "done"}]
    BY <2>2 DEF ClientTypes
  <2>6. burst' \in [Clients -> Nat]
    <3>1. burst \in [Clients -> Nat]
      BY DEF ClientTypes
    <3>2. [burst EXCEPT ![c] = 0] \in [Clients -> Nat]
      BY <3>1
    <3> QED BY <2>3, <3>1, <3>2
  <2> QED BY <2>1, <2>4, <2>5, <2>6, ReadTypes DEF ClientTypes
<1>10. ASSUME NEW c \in Clients, Recover(c) \/ Leave(c) \/ Join(c) \/ Close(c)
       PROVE  ClientTypes'
  BY <1>10 DEF Recover, Leave, Join, Close, Goto, ClientTypes
<1>11. ASSUME NEW c \in Clients, ReaderChecks(c) PROVE ClientTypes'
  BY <1>11 DEF ReaderChecks, ReaderGoto, ClientTypes
<1>12. ASSUME NEW c \in Clients, ReaderReads(c) PROVE ClientTypes'
  <2>1. Receives(c) \/ (Fails(c) /\ UNCHANGED received)
    BY <1>12 DEF ReaderReads, ReadFails, ReadPanics
  <2>2. \E l \in {"checking", "ended"} : reader' = [reader EXCEPT ![c] = l]
    BY <1>12 DEF ReaderReads, ReaderGoto
  <2>3. UNCHANGED <<scenario, pc, burst, written>>
    BY <1>12 DEF ReaderReads
  <2> QED BY <2>1, <2>2, <2>3, ReadTypes DEF ClientTypes
<1>13. ASSUME NEW c \in Clients, HandleWS(c) PROVE ClientTypes'
  <2>1. /\ toServer[c] \in Seq(Nat) /\ toServer[c] # <<>>
        /\ toClient[c] \in Seq(Nat)
    BY <1>13 DEF HandleWS, ClientTypes
  <2>2. Head(toServer[c]) \in Nat /\ Tail(toServer[c]) \in Seq(Nat)
    BY <2>1
  <2>3. Append(toClient[c], Head(toServer[c])) \in Seq(Nat)
    BY <2>1, <2>2
  <2> QED BY <1>13, <2>2, <2>3 DEF HandleWS, ClientTypes
<1>14. \A c \in scenario.clients : c \in Clients
  BY ScenariosAssumption DEF ClientTypes
<1> QED
  BY <1>1, <1>2, <1>3, <1>4, <1>5, <1>6, <1>7, <1>8, <1>9, <1>10, <1>11, <1>12,
     <1>13, <1>14 DEF Next, Client, Reader

-------------------------------------------------------------------------------
(***************************************************************************)
(* A client that does something.                                           *)
(***************************************************************************)
\* The part of the invariant of the client, and the other clients.
Kept(c) == ClientInv(c)' /\ \A x \in Clients \ {c} : Untouched(x)

\* The current burst is within the limit.
LEMMA CurrentBound ==
  ASSUME ClientTypes, NEW c \in Clients, Kind(c),
         mode \in {"blast", "sequential", "pingpong"}
  PROVE  Current(c) \in Nat /\ Current(c) <= Limit
<1>1. burst[c] \in Nat
  BY DEF ClientTypes
<1>2. CASE mode = "blast"
  BY <1>1, <1>2, Sizes DEF Kind, Current, Limit
<1>3. CASE mode # "blast"
  BY <1>3 DEF Current, Limit
<1> QED BY <1>2, <1>3

\* A client that leaves its loop is within the whole bound.
LEMMA WithinBound ==
  ASSUME ClientTypes, NEW c \in Clients, Kind(c), Flood(c),
         mode \in {"blast", "sequential", "pingpong"}, failedReads[c] > 0
  PROVE  written[c] - beforeFailure[c] <= Allowance(PanicAfter)
<1>1. CASE AtWork(c)
  <2>1. /\ failedReads[c] \in Nat /\ failedReads[c] < PanicAfter
        /\ written[c] - beforeFailure[c]
             <= Allowance(failedReads[c]) + Current(c)
        /\ written[c] - beforeFailure[c] \in Int
    BY <1>1 DEF Flood, ClientTypes
  <2>2. Allowance(failedReads[c]) + Limit <= Allowance(PanicAfter)
    BY <2>1, MoreAllowed, Sizes
  <2>3. Current(c) \in Nat /\ Current(c) <= Limit /\ Limit \in Nat
    BY CurrentBound, LimitType
  <2>4. Allowance(failedReads[c]) \in Int /\ Allowance(PanicAfter) \in Int
    BY <2>1, Allowances, Sizes
  <2> QED BY <2>1, <2>2, <2>3, <2>4
<1>2. CASE ~AtWork(c)
  BY <1>2 DEF Flood
<1> QED BY <1>1, <1>2

\* The scenario decides on the kind of client and the allowances.
LEMMA SameScenario ==
  ASSUME UNCHANGED scenario
  PROVE  mode' = mode /\ Strict' = Strict /\ \A f : Allowance(f)' = Allowance(f)
  BY DEF mode, Strict, Limit, Allowance

\* Steps of dialing.
LEMMA DialInv ==
  ASSUME IInv, NEW c \in Clients, Dial(c) \/ DialFails(c)
  PROVE  Kept(c)
<1> USE DEF connVars
<1>1. /\ UNCHANGED <<scenario, burst, toServer, toClient, failedReads, written,
                     beforeFailure>>
      /\ pc[c] = "dialing"
      /\ \/ /\ \/ mode = "blast" /\ pc' = [pc EXCEPT ![c] = "looping"]
               \/ mode # "blast" /\ pc' = [pc EXCEPT ![c] = "sending"]
            /\ reader' = [reader EXCEPT
                            ![c] = IF mode = "echo" THEN "checking" ELSE @]
         \/ pc' = [pc EXCEPT ![c] = "leaving"] /\ UNCHANGED reader
  BY DEF Dial, DialFails, Goto
<1>2. /\ pc'[c] \in {"looping", "sending", "leaving"} /\ failedReads[c] = 0
      /\ pc'[c] = "looping" => mode = "blast"
      /\ reader'[c] # "none" => mode = "echo"
      /\ \A x \in Clients \ {c} : pc'[x] = pc[x] /\ reader'[x] = reader[x]
  BY <1>1 DEF IInv, ClientInv, Kind, ClientTypes
<1>3. mode' = mode /\ Strict' = Strict
  BY <1>1, SameScenario
<1>4. Kind(c)'
  BY <1>1, <1>2, <1>3 DEF IInv, ClientInv, Kind, Strict
<1>5. Flood(c)' /\ Alone(c)'
  BY <1>1, <1>2, <1>3 DEF IInv, ClientInv, Flood, Alone
<1> QED BY <1>1, <1>2, <1>4, <1>5 DEF Kept, ClientInv, Untouched

\* A blast client looks at the clock: another burst, or none.
LEMMA BurstInv ==
  ASSUME IInv, NEW c \in Clients, NextBurst(c)
  PROVE  Kept(c)
<1> USE DEF connVars
<1>1. /\ UNCHANGED <<scenario, burst, reader, toServer, toClient, failedReads,
                     written, beforeFailure>>
      /\ pc[c] = "looping"
      /\ \E l \in {"finishing", "sending"} : pc' = [pc EXCEPT ![c] = l]
  BY DEF NextBurst, Goto
<1>2. /\ pc'[c] \in {"finishing", "sending"}
      /\ \A x \in Clients \ {c} : Untouched(x)
  BY <1>1 DEF IInv, ClientTypes, Untouched
<1>3. mode' = mode /\ Strict' = Strict /\ \A f : Allowance(f)' = Allowance(f)
  BY <1>1, SameScenario
<1>4. ~Strict
  BY <1>1 DEF IInv, ClientInv, Kind
<1>5. Kind(c)' /\ Alone(c)'
  BY <1>1, <1>2, <1>3, <1>4 DEF IInv, ClientInv, Kind, Alone
<1>6. Flood(c)'
  <2> SUFFICES ASSUME mode \in {"blast", "sequential", "pingpong"},
                      failedReads[c] > 0
               PROVE  Flood(c)'
    BY <1>1, <1>3 DEF Flood
  <2>1. CASE pc'[c] = "sending"
    <3>1. AtWork(c) /\ AtWork(c)'
      BY <1>1, <2>1 DEF AtWork
    <3>2. Current(c)' = Current(c)
      BY <1>1, <1>3, <2>1 DEF Current
    <3> QED BY <1>1, <1>3, <3>1, <3>2 DEF IInv, ClientInv, Flood
  <2>2. CASE pc'[c] = "finishing"
    <3>1. ~AtWork(c)'
      BY <2>2 DEF AtWork
    <3>2. written[c] - beforeFailure[c] <= Allowance(PanicAfter)
      BY WithinBound DEF IInv, ClientInv
    <3> QED BY <1>1, <1>3, <3>1, <3>2 DEF Flood
  <2> QED BY <1>2, <2>1, <2>2
<1> QED BY <1>2, <1>5, <1>6 DEF Kept, ClientInv

\* A message is written: one more in the current burst, and alone.
LEMMA WriteInv ==
  ASSUME IInv, NEW c \in Clients, Write(c)
  PROVE  Kept(c)
<1>1. /\ UNCHANGED <<scenario, burst, reader, toClient, failedReads,
                     beforeFailure>>
      /\ pc[c] = "sending" /\ pc' = [pc EXCEPT ![c] = "counting"]
      /\ written' = [written EXCEPT ![c] = written[c] + 1]
      /\ toServer' = [toServer EXCEPT
                        ![c] = Append(toServer[c], written[c] + 1)]
  BY DEF Write, Goto
<1>2. /\ pc'[c] = "counting" /\ written'[c] = written[c] + 1
      /\ toServer'[c] = Append(toServer[c], written[c] + 1)
      /\ \A x \in Clients \ {c} : Untouched(x)
  BY <1>1 DEF IInv, ClientTypes, Untouched
<1>3. mode' = mode /\ Strict' = Strict /\ \A f : Allowance(f)' = Allowance(f)
  BY <1>1, SameScenario
<1>4. Kind(c)'
  BY <1>1, <1>2, <1>3 DEF IInv, ClientInv, Kind
<1>5. Alone(c)'
  <2>1. \A n : Append(<<>>, n) = <<n>>
    OBVIOUS
  <2>2. Strict /\ failedReads[c] = 0 => toServer[c] = <<>> /\ toClient[c] = <<>>
    BY <1>1 DEF IInv, ClientInv, Alone
  <2>3. Strict /\ failedReads[c] = 0 => toServer'[c] = <<written'[c]>>
    BY <1>2, <2>1, <2>2
  <2> QED BY <1>1, <1>2, <1>3, <2>2, <2>3 DEF Alone
<1>6. Flood(c)'
  <2> SUFFICES ASSUME mode \in {"blast", "sequential", "pingpong"},
                      failedReads[c] > 0
               PROVE  /\ failedReads[c] < PanicAfter
                      /\ (written[c] + 1) - beforeFailure[c]
                           <= Allowance(failedReads[c]) + Current(c)'
    BY <1>1, <1>2, <1>3 DEF Flood, AtWork
  <2>1. /\ failedReads[c] < PanicAfter
        /\ written[c] - beforeFailure[c]
             <= Allowance(failedReads[c]) + Current(c)
    BY <1>1 DEF IInv, ClientInv, Flood, AtWork
  <2>2. /\ written[c] \in Nat /\ beforeFailure[c] \in Nat /\ burst[c] \in Nat
        /\ Allowance(failedReads[c]) \in Int
    BY Allowances DEF IInv, ClientTypes
  <2>3. Current(c)' = Current(c) + 1 /\ Current(c) \in Nat
    BY <1>1, <1>2, <1>3, <2>2 DEF Current
  <2> QED BY <2>1, <2>2, <2>3
<1> QED BY <1>2, <1>4, <1>5, <1>6 DEF Kept, ClientInv

\* It is counted: the current burst is as large as before.
LEMMA CountInv ==
  ASSUME IInv, NEW c \in Clients, Count(c)
  PROVE  Kept(c)
<1> USE DEF connVars
<1> DEFINE l == AfterMessage(c)
<1>1. /\ UNCHANGED <<scenario, reader, toServer, toClient, failedReads, written,
                     beforeFailure>>
      /\ pc[c] = "counting" /\ pc' = [pc EXCEPT ![c] = l]
      /\ burst' = [burst EXCEPT
                     ![c] = IF mode = "blast" THEN burst[c] + 1 ELSE burst[c]]
  BY DEF Count, Goto
<1>2. /\ burst[c] \in Nat /\ BurstSize \in Nat /\ pc'[c] = l
      /\ burst'[c] = IF mode = "blast" THEN burst[c] + 1 ELSE burst[c]
      /\ \A x \in Clients \ {c} : Untouched(x)
  BY <1>1, Sizes DEF IInv, ClientTypes, Untouched
<1>3. /\ mode = "blast" => l = IF burst[c] + 1 < BurstSize THEN "sending"
                                                          ELSE "draining"
      /\ Strict => l = "awaiting"
      /\ l \in {"sending", "draining", "awaiting"}
  BY DEF AfterMessage, Strict
<1> HIDE DEF l
<1>4. mode' = mode /\ Strict' = Strict /\ \A f : Allowance(f)' = Allowance(f)
  BY <1>1, SameScenario
<1>5. Kind(c)'
  BY <1>1, <1>2, <1>3, <1>4 DEF IInv, ClientInv, Kind, Strict
<1>6. Alone(c)'
  BY <1>1, <1>2, <1>3, <1>4 DEF IInv, ClientInv, Alone
<1>7. Flood(c)'
  <2>1. mode \in {"blast", "sequential", "pingpong"} => Current(c)' = Current(c)
    BY <1>1, <1>2, <1>3, <1>4 DEF Current, Strict
  <2>2. AtWork(c) /\ AtWork(c)'
    BY <1>1, <1>2, <1>3 DEF AtWork
  <2> QED BY <1>1, <1>4, <2>1, <2>2 DEF IInv, ClientInv, Flood
<1> QED BY <1>2, <1>5, <1>6, <1>7 DEF Kept, ClientInv

\* Steps that end the sending of a client, or of a burst.
LEMMA StopInv ==
  ASSUME IInv, NEW c \in Clients, WriteFails(c) \/ SeesDeadline(c)
  PROVE  Kept(c)
<1> USE DEF connVars
<1>1. /\ UNCHANGED <<scenario, burst, reader, toServer, toClient, failedReads,
                     written, beforeFailure>>
      /\ pc[c] = "sending"
  BY DEF WriteFails, SeesDeadline
<1> DEFINE l == pc'[c]
<1>2. /\ l \in {"draining", AfterSending}
      /\ l = "draining" => mode = "blast"
      /\ \A x \in Clients \ {c} : pc'[x] = pc[x]
  <2>1. AfterSending # "draining"
    BY DEF AfterSending
  <2>2. CASE WriteFails(c)
    BY <2>1, <2>2 DEF WriteFails, StopsSending, Goto, IInv, ClientTypes
  <2>3. CASE SeesDeadline(c)
    BY <2>1, <2>3 DEF SeesDeadline, StopsSending, Goto, IInv, ClientTypes
  <2> QED BY <2>2, <2>3
<1> HIDE DEF l
<1>3. /\ pc'[c] = l /\ burst[c] \in Nat
      /\ \A x \in Clients \ {c} : Untouched(x)
  BY <1>1, <1>2 DEF l, IInv, ClientTypes, Untouched
<1>4. /\ mode = "blast" => l \in {"draining", "closing"}
      /\ Strict => l = "closing"
      /\ l \in {"draining", "joining", "closing"}
  BY <1>2 DEF AfterSending, Strict
<1>5. mode' = mode /\ Strict' = Strict /\ \A f : Allowance(f)' = Allowance(f)
  BY <1>1, SameScenario
<1>6. Kind(c)'
  BY <1>1, <1>3, <1>4, <1>5 DEF IInv, ClientInv, Kind
<1>7. Alone(c)'
  BY <1>1, <1>3, <1>4, <1>5 DEF Alone
<1>8. Flood(c)'
  <2> SUFFICES ASSUME mode \in {"blast", "sequential", "pingpong"},
                      failedReads[c] > 0
               PROVE  Flood(c)'
    BY <1>1, <1>5 DEF Flood
  <2>1. CASE l = "draining"
    <3>1. AtWork(c) /\ AtWork(c)'
      BY <1>1, <1>3, <2>1 DEF AtWork
    <3>2. mode = "blast"
      BY <1>2, <2>1
    <3>3. Current(c)' = Current(c)
      BY <1>1, <1>3, <1>5, <2>1, <3>2 DEF Current
    <3> QED BY <1>1, <1>5, <3>1, <3>3 DEF IInv, ClientInv, Flood
  <2>2. CASE l # "draining"
    <3>1. ~AtWork(c)'
      BY <1>3, <1>4, <2>2 DEF AtWork
    <3>2. written[c] - beforeFailure[c] <= Allowance(PanicAfter)
      BY WithinBound DEF IInv, ClientInv
    <3> QED BY <1>1, <1>5, <3>1, <3>2 DEF Flood
  <2> QED BY <2>1, <2>2
<1> QED BY <1>3, <1>6, <1>7, <1>8 DEF Kept, ClientInv

\* What a read of client c changes, and what a failing one changes of c.
LEMMA ReadKeeps ==
  ASSUME ClientTypes, NEW c \in Clients,
         Receives(c) \/ (Fails(c) /\ UNCHANGED received)
  PROVE  /\ toServer' = toServer
         /\ \A x \in Clients \ {c} : /\ toClient'[x] = toClient[x]
                                     /\ failedReads'[x] = failedReads[x]
                                     /\ beforeFailure'[x] = beforeFailure[x]
         /\ failedReads'[c] = 0 \/ Fails(c)
  BY DEF Receives, Fails, ClientTypes

\* A failing read, after which the client sends again or is on its way out.
LEMMA FailsEffect ==
  ASSUME IInv, NEW c \in Clients, Fails(c), UNCHANGED <<scenario, written>>,
         pc'[c] \in {"looping", "sending", "closing", "panicking"},
         pc'[c] \in {"looping", "sending"} =>
           /\ AtWork(c) /\ failedReads[c] + 1 < PanicAfter /\ burst'[c] = 0
  PROVE  Flood(c)'
<1>1. /\ failedReads[c] \in Nat /\ failedReads'[c] = failedReads[c] + 1
      /\ beforeFailure'[c] = IF failedReads[c] = 0 THEN written[c]
                                                   ELSE beforeFailure[c]
      /\ written[c] \in Nat /\ beforeFailure[c] \in Nat /\ PanicAfter \in Nat
      /\ written'[c] = written[c] /\ 1 <= PanicAfter
  BY Sizes DEF Fails, IInv, ClientTypes
<1>2. mode' = mode /\ Strict' = Strict /\ \A f : Allowance(f)' = Allowance(f)
  BY SameScenario
<1> SUFFICES ASSUME mode \in {"blast", "sequential", "pingpong"} PROVE Flood(c)'
  BY <1>2 DEF Flood
<1>3. Limit \in Nat /\ \A f \in Nat : Allowance(f) \in Int
  BY LimitType, Allowances
<1>4. 0 <= Allowance(PanicAfter)
  <2>1. CASE PanicAfter = 1
    BY <2>1, Allowances
  <2>2. CASE PanicAfter # 1
    <3>1. Allowance(1) + Limit <= Allowance(PanicAfter)
      BY <1>1, <2>2, MoreAllowed
    <3> QED BY <1>1, <1>3, <3>1, Allowances
  <2> QED BY <2>1, <2>2
<1>5. AtWork(c)' <=> pc'[c] \in {"looping", "sending"}
  BY DEF AtWork
<1>6. pc'[c] \in {"looping", "sending"} => Current(c)' = 0
  BY DEF Current
<1>7. CASE failedReads[c] = 0
  <2>1. Allowance(failedReads'[c]) = 0 /\ written'[c] - beforeFailure'[c] = 0
    BY <1>1, <1>7, Allowances
  <2> QED BY <1>1, <1>2, <1>4, <1>5, <1>6, <1>7, <2>1 DEF Flood
<1>8. CASE failedReads[c] > 0
  <2>1. CASE pc'[c] \in {"looping", "sending"}
    <3>1. written[c] - beforeFailure[c]
            <= Allowance(failedReads[c]) + Current(c)
      BY <1>8, <2>1 DEF IInv, ClientInv, Flood
    <3>2. Current(c) \in Nat /\ Current(c) <= Limit
      BY CurrentBound DEF IInv, ClientInv
    <3>3. Allowance(failedReads[c] + 1) = Allowance(failedReads[c]) + Limit
      BY <1>1, Allowances
    <3>4. written[c] - beforeFailure[c] <= Allowance(failedReads[c] + 1)
      BY <1>1, <1>3, <3>1, <3>2, <3>3
    <3>5. beforeFailure'[c] = beforeFailure[c] /\ failedReads'[c] < PanicAfter
      BY <1>1, <1>8, <2>1
    <3>6. Allowance(failedReads[c] + 1) + 0 = Allowance(failedReads[c] + 1)
      BY <1>1, <1>3
    <3> QED BY <1>1, <1>2, <1>5, <1>6, <2>1, <3>4, <3>5, <3>6 DEF Flood
  <2>2. CASE pc'[c] \notin {"looping", "sending"}
    <3>1. written[c] - beforeFailure[c] <= Allowance(PanicAfter)
      BY <1>8, WithinBound DEF IInv, ClientInv
    <3> QED BY <1>1, <1>2, <1>5, <1>8, <2>2, <3>1 DEF Flood
  <2> QED BY <2>1, <2>2
<1> QED BY <1>1, <1>7, <1>8

\* Steps that read.
LEMMA DrainInv ==
  ASSUME IInv, NEW c \in Clients, Drain(c) \/ FinalDrain(c)
  PROVE  Kept(c)
<1>1. /\ UNCHANGED <<scenario, reader, written>>
      /\ pc[c] \in {"draining", "finishing"}
      /\ Receives(c) \/ (Fails(c) /\ UNCHANGED received)
  BY DEF Drain, FinalDrain, ReadFails
<1>2. \A x \in Clients \ {c} : pc'[x] = pc[x] /\ burst'[x] = burst[x]
  BY DEF Drain, FinalDrain, Goto, IInv, ClientTypes
<1>3. \A x \in Clients \ {c} : Untouched(x)
  BY <1>1, <1>2, ReadKeeps DEF IInv, Untouched
<1>4. mode' = mode /\ Strict' = Strict
  BY <1>1, SameScenario
<1>5. ~Strict
  BY <1>1 DEF IInv, ClientInv, Kind
<1>6. /\ pc'[c] \in {"draining", "finishing", "looping", "closing"}
      /\ pc'[c] = "looping" => burst'[c] = 0
      /\ burst'[c] \in {burst[c], 0}
  BY DEF Drain, FinalDrain, Goto, IInv, ClientTypes
<1>7. Kind(c)'
  BY <1>1, <1>4, <1>5, <1>6, Sizes DEF IInv, ClientInv, Kind
<1>8. Alone(c)'
  BY <1>4, <1>5 DEF Alone
<1>9. Flood(c)'
  <2>1. CASE failedReads'[c] = 0
    BY <2>1 DEF Flood
  <2>2. CASE Fails(c)
    <3>1. failedReads'[c] = failedReads[c] + 1 /\ failedReads[c] \in Nat
      BY <2>2 DEF Fails, IInv, ClientTypes
    <3>2. /\ pc'[c] \in {"looping", "closing"}
          /\ pc'[c] = "looping" => /\ pc[c] = "draining"
                                   /\ failedReads[c] + 1 < PanicAfter
      BY <3>1 DEF Drain, FinalDrain, Receives, ReadFails, Goto, IInv,
                  ClientTypes
    <3> QED BY <1>1, <1>6, <2>2, <3>2, FailsEffect DEF AtWork
  <2> QED BY <1>1, <2>1, <2>2, ReadKeeps DEF IInv
<1> QED BY <1>3, <1>7, <1>8, <1>9 DEF Kept, ClientInv

\* A strict client reads: the answer, or nothing any more.
LEMMA AwaitInv ==
  ASSUME IInv, NEW c \in Clients, Await(c)
  PROVE  Kept(c)
<1>1. /\ UNCHANGED <<scenario, burst, reader, written>>
      /\ pc[c] = "awaiting" /\ pc' = [pc EXCEPT ![c] = "sending"]
      /\ Receives(c) \/ (ReadFails(c) /\ Fails(c) /\ UNCHANGED received)
  BY DEF Await, ReadFails, Goto
<1>2. pc'[c] = "sending" /\ \A x \in Clients \ {c} : pc'[x] = pc[x]
  BY <1>1 DEF IInv, ClientTypes
<1>3. \A x \in Clients \ {c} : Untouched(x)
  BY <1>1, <1>2, ReadKeeps DEF IInv, Untouched
<1>4. mode' = mode /\ Strict' = Strict
  BY <1>1, SameScenario
<1>5. mode # "blast"
  BY <1>1 DEF IInv, ClientInv, Kind
<1>6. Kind(c)'
  BY <1>1, <1>2, <1>4, <1>5 DEF IInv, ClientInv, Kind
<1>7. CASE Receives(c)
  <2>1. /\ failedReads[c] = 0 /\ failedReads'[c] = 0 /\ toServer' = toServer
        /\ toClient[c] # <<>> /\ toClient'[c] = Tail(toClient[c])
    BY <1>7 DEF Receives, IInv, ClientTypes
  <2>2. Strict => toServer[c] = <<>> /\ toClient[c] = <<written[c]>>
    BY <1>1, <2>1 DEF IInv, ClientInv, Alone
  <2>3. \A n : Tail(<<n>>) = <<>>
    OBVIOUS
  <2>4. Alone(c)'
    BY <1>2, <1>4, <2>1, <2>2, <2>3 DEF Alone
  <2>5. Flood(c)'
    BY <2>1 DEF Flood
  <2> QED BY <1>3, <1>6, <2>4, <2>5 DEF Kept, ClientInv
<1>8. CASE ReadFails(c) /\ Fails(c)
  <2>1. failedReads'[c] = failedReads[c] + 1 /\ failedReads[c] \in Nat
    BY <1>8 DEF Fails, IInv, ClientTypes
  <2>2. Alone(c)'
    BY <2>1 DEF Alone
  <2>3. CASE Strict
    <3>1. burst'[c] = 0
      BY <1>1, <2>3 DEF IInv, ClientInv, Kind
    <3>2. Flood(c)'
      BY <1>1, <1>2, <1>8, <3>1, FailsEffect DEF ReadFails, AtWork
    <3> QED BY <1>3, <1>6, <2>2, <3>2 DEF Kept, ClientInv
  <2>4. CASE ~Strict
    <3>1. Flood(c)'
      BY <1>4, <1>5, <2>4 DEF Flood, Strict
    <3> QED BY <1>3, <1>6, <2>2, <3>1 DEF Kept, ClientInv
  <2> QED BY <2>3, <2>4
<1> QED BY <1>1, <1>7, <1>8

\* The read that panics.
LEMMA PanicInv ==
  ASSUME IInv, NEW c \in Clients, Panics(c)
  PROVE  Kept(c)
<1> USE DEF statsVars
<1>1. /\ UNCHANGED <<scenario, burst, reader, written, received>>
      /\ pc' = [pc EXCEPT ![c] = "panicking"]
      /\ Fails(c)
  BY DEF Panics, ReadPanics, Goto
<1>2. pc'[c] = "panicking" /\ \A x \in Clients \ {c} : pc'[x] = pc[x]
  BY <1>1 DEF IInv, ClientTypes
<1>3. \A x \in Clients \ {c} : Untouched(x)
  BY <1>1, <1>2, ReadKeeps DEF IInv, Untouched
<1>4. mode' = mode /\ Strict' = Strict
  BY <1>1, SameScenario
<1>5. Kind(c)' /\ Alone(c)'
  BY <1>1, <1>2, <1>4 DEF IInv, ClientInv, Kind, Alone
<1>6. Flood(c)'
  BY <1>1, <1>2, FailsEffect
<1> QED BY <1>3, <1>5, <1>6 DEF Kept, ClientInv

\* Steps of a client that is on its way out.
LEMMA LeaveInv ==
  ASSUME IInv, NEW c \in Clients,
         Join(c) \/ Close(c) \/ Recover(c) \/ Leave(c)
  PROVE  Kept(c)
<1> USE DEF connVars
<1>1. /\ UNCHANGED <<scenario, burst, reader, written, toServer, toClient,
                     failedReads, beforeFailure>>
      /\ pc[c] \in {"joining", "closing", "panicking", "recovering", "leaving"}
      /\ \E l \in {"recovering", "leaving", "done"} :
           pc' = [pc EXCEPT ![c] = l]
  BY DEF Recover, Join, Leave, Close, Goto
<1>2. /\ pc'[c] \in {"recovering", "leaving", "done"}
      /\ \A x \in Clients \ {c} : Untouched(x)
  BY <1>1 DEF IInv, ClientTypes, Untouched
<1>3. mode' = mode /\ Strict' = Strict /\ \A f : Allowance(f)' = Allowance(f)
  BY <1>1, SameScenario
<1>4. Kind(c)' /\ Alone(c)'
  BY <1>1, <1>2, <1>3 DEF IInv, ClientInv, Kind, Alone
<1>5. ~AtWork(c) /\ ~AtWork(c)'
  BY <1>1, <1>2 DEF AtWork
<1>6. Flood(c)'
  BY <1>1, <1>3, <1>5 DEF IInv, ClientInv, Flood
<1> QED BY <1>2, <1>4, <1>6 DEF Kept, ClientInv

\* Steps of the reader of an echo client.
LEMMA ReaderInv ==
  ASSUME IInv, NEW c \in Clients, ReaderChecks(c) \/ ReaderReads(c)
  PROVE  Kept(c)
<1> USE DEF connVars, statsVars
<1>1. /\ UNCHANGED <<scenario, pc, burst, written>>
      /\ reader[c] # "none"
      /\ \/ UNCHANGED <<toServer, toClient, failedReads, beforeFailure>>
         \/ Receives(c) \/ (Fails(c) /\ UNCHANGED received)
  BY DEF ReaderChecks, ReaderReads, ReadFails, ReadPanics
<1>2. \A x \in Clients \ {c} : reader'[x] = reader[x]
  BY DEF ReaderChecks, ReaderReads, ReaderGoto, IInv, ClientTypes
<1>3. \A x \in Clients \ {c} : Untouched(x)
  BY <1>1, <1>2, ReadKeeps DEF IInv, Untouched
<1>4. mode = "echo" /\ pc[c] # "dialing"
  BY <1>1 DEF IInv, ClientInv, Kind
<1>5. mode' = "echo" /\ ~Strict'
  BY <1>1, <1>4, SameScenario DEF Strict
<1>6. Kind(c)' /\ Flood(c)' /\ Alone(c)'
  BY <1>1, <1>4, <1>5 DEF Kind, Flood, Alone
<1> QED BY <1>3, <1>6 DEF Kept, ClientInv

\* The server echoes.
LEMMA EchoInv ==
  ASSUME IInv, NEW c \in Clients, HandleWS(c)
  PROVE  Kept(c)
<1> USE DEF clientVars
<1>1. /\ UNCHANGED <<scenario, pc, burst, reader, written, failedReads,
                     beforeFailure>>
      /\ toServer[c] # <<>>
      /\ toServer' = [toServer EXCEPT ![c] = Tail(toServer[c])]
      /\ toClient' = [toClient EXCEPT
                        ![c] = Append(toClient[c], Head(toServer[c]))]
  BY DEF HandleWS
<1>2. /\ toServer'[c] = Tail(toServer[c])
      /\ toClient'[c] = Append(toClient[c], Head(toServer[c]))
      /\ \A x \in Clients \ {c} : Untouched(x)
  BY <1>1 DEF IInv, ClientTypes, Untouched
<1>3. mode' = mode /\ Strict' = Strict /\ \A f : Allowance(f)' = Allowance(f)
  BY <1>1, SameScenario
<1>4. Kind(c)'
  BY <1>1, <1>3 DEF IInv, ClientInv, Kind
<1>5. Current(c)' = Current(c) /\ AtWork(c)' = AtWork(c)
  BY <1>1, <1>3 DEF Current, AtWork
<1>6. Flood(c)'
  BY <1>1, <1>3, <1>5 DEF IInv, ClientInv, Flood
<1>7. Alone(c)'
  <2>1. \A n : /\ Tail(<<n>>) = <<>> /\ Head(<<n>>) = n
               /\ Append(<<>>, n) = <<n>>
    OBVIOUS
  <2>2. CASE toServer[c] = <<written[c]>> /\ toClient[c] = <<>>
    <3>1. toServer'[c] = <<>> /\ toClient'[c] = <<written[c]>>
      BY <1>2, <2>1, <2>2
    <3>2. Strict /\ failedReads[c] = 0 => pc[c] \notin {"dialing", "sending"}
      BY <1>1 DEF IInv, ClientInv, Alone
    <3> QED BY <1>1, <1>3, <3>1, <3>2 DEF Alone
  <2>3. CASE ~(toServer[c] = <<written[c]>> /\ toClient[c] = <<>>)
    <3>1. Strict /\ failedReads[c] = 0 =>
            pc[c] \notin {"dialing", "sending", "counting", "awaiting"}
      BY <1>1, <2>3 DEF IInv, ClientInv, Alone
    <3> QED BY <1>1, <1>3, <3>1 DEF Alone
  <2> QED BY <2>2, <2>3
<1> QED BY <1>2, <1>4, <1>6, <1>7 DEF Kept, ClientInv

-------------------------------------------------------------------------------
(***************************************************************************)
(* The theorems.                                                           *)
(***************************************************************************)
\* It holds at the start ...
LEMMA InitIInv == Init => IInv
<1> SUFFICES ASSUME Init PROVE IInv
  OBVIOUS
<1>1. <<>> \in Seq(Nat)
  OBVIOUS
<1>2. ClientTypes
  BY <1>1 DEF Init, ClientTypes
<1>3. \A c \in Clients : ClientInv(c)
  BY Sizes DEF Init, ClientInv, Kind, Flood, Alone
<1> QED BY <1>2, <1>3 DEF IInv

\* ... and is kept by every step.
LEMMA NextIInv == IInv /\ [Next]_vars => IInv'
<1> SUFFICES ASSUME IInv, [Next]_vars PROVE IInv'
  OBVIOUS
<1> USE DEF statsVars, connVars, mainVars, clientVars
<1>1. ClientTypes'
  BY NextTypes DEF IInv
<1>2. ASSUME UNCHANGED <<scenario, pc, burst, reader, toServer, toClient,
                         failedReads, written, beforeFailure>>
      PROVE  \A x \in Clients : ClientInv(x)'
  <2>1. \A x \in Clients : Untouched(x)
    BY <1>2 DEF Untouched
  <2> QED BY <1>2, <2>1, UntouchedInv DEF IInv
<1>3. ASSUME NEW c \in Clients, UNCHANGED scenario, Kept(c)
      PROVE  \A x \in Clients : ClientInv(x)'
  BY <1>3, UntouchedInv DEF IInv, Kept
<1>4. ASSUME UNCHANGED vars PROVE \A x \in Clients : ClientInv(x)'
  <2>1. UNCHANGED <<scenario, pc, burst, reader, toServer, toClient,
                    failedReads, written, beforeFailure>>
    BY <1>4 DEF vars
  <2> QED BY <1>2, <2>1
<1>5. ASSUME Main \/ LiveStatsEnds \/ Interrupt
      PROVE  \A x \in Clients : ClientInv(x)'
  <2>1. UNCHANGED <<scenario, pc, burst, reader, toServer, toClient,
                    failedReads, written, beforeFailure>>
    BY <1>5 DEF Main, ClientsDone, Interrupted, PrintReceived, PrintErrors,
                Prints, LiveStatsEnds, Interrupt
  <2> QED BY <1>2, <2>1
<1>6. \A c \in scenario.clients : c \in Clients
  BY ScenariosAssumption DEF IInv, ClientTypes
<1>7. ASSUME NEW c \in Clients,
             \/ Dial(c) \/ DialFails(c) \/ Client(c) \/ Reader(c) \/ HandleWS(c)
      PROVE  \A x \in Clients : ClientInv(x)'
  <2>1. Kept(c)
    BY <1>7, DialInv, BurstInv, WriteInv, CountInv, StopInv, DrainInv, AwaitInv, PanicInv,
       LeaveInv, ReaderInv, EchoInv DEF Client, Reader
  <2>2. UNCHANGED scenario
    BY <1>7 DEF Dial, DialFails, HandleWS, Client, Write, WriteFails, Count,
                SeesDeadline, Drain, FinalDrain, Await, Panics, Recover, Join,
                NextBurst, Close, Leave, Reader, ReaderChecks, ReaderReads
  <2> QED BY <1>3, <2>1, <2>2
<1>8. ASSUME NEW c \in Clients, DeadlinePasses(c) \/ ServerLeaves(c)
      PROVE  \A x \in Clients : ClientInv(x)'
  <2>1. UNCHANGED <<scenario, pc, burst, reader, toServer, toClient,
                    failedReads, written, beforeFailure>>
    BY <1>8 DEF DeadlinePasses, ServerLeaves
  <2> QED BY <1>2, <2>1
<1>9. \A x \in Clients : ClientInv(x)'
  <2>1. CASE Main \/ LiveStatsEnds \/ Interrupt \/ UNCHANGED vars
    BY <1>4, <1>5, <2>1
  <2>2. CASE \E c \in Clients :
               \/ Dial(c) \/ DialFails(c) \/ Client(c) \/ Reader(c)
               \/ HandleWS(c)
    BY <1>7, <2>2
  <2>3. CASE \E c \in Clients : DeadlinePasses(c) \/ ServerLeaves(c)
    BY <1>8, <2>3
  <2> QED BY <1>6, <2>1, <2>2, <2>3 DEF Next
<1> QED BY <1>1, <1>9 DEF IInv

(* The inductive invariant of the clients holds, for every kind of client, *)
(* any number of them, and any size of bursts, drains and of the limit.    *)
THEOREM InductiveInvariant == Spec => []IInv
  BY InitIInv, NextIInv, PTL DEF Spec

(* However often reads fail, a client that reads does not send more after  *)
(* the first failure than the panic of the last allows.                    *)
THEOREM FloodEnds == Spec => []FloodBounded
<1>1. IInv => FloodBounded
  <2> SUFFICES ASSUME IInv, NEW c \in Clients, failedReads[c] > 0,
                      mode \in {"blast", "sequential", "pingpong"}
               PROVE  written[c] - beforeFailure[c] <= Allowance(PanicAfter)
    BY DEF FloodBounded, Allowance, Limit
  <2> QED BY WithinBound DEF IInv, ClientInv
<1> QED BY <1>1, InductiveInvariant, PTL

(* The answer that a client of ping-pong or sequential counts is the one   *)
(* to the message it sent last.                                            *)
THEOREM AnswersMatch == Spec => StrictPingPong
<1>1. ASSUME IInv, [Next]_vars, NEW c \in Clients, Strict,
             received'[c] # received[c]
      PROVE  Head(toClient[c]) = written[c]
  <2> USE DEF statsVars, connVars, mainVars, clientVars
  <2>1. PICK x \in Clients :
           Drain(x) \/ FinalDrain(x) \/ Await(x) \/ ReaderReads(x)
    <3>1. \A x \in scenario.clients : x \in Clients
      BY <1>1, ScenariosAssumption DEF IInv, ClientTypes
    <3>2. ~(UNCHANGED received)
      BY <1>1
    <3>3. Main \/ LiveStatsEnds \/ Interrupt \/ UNCHANGED vars
            => UNCHANGED received
      BY DEF Main, ClientsDone, Interrupted, PrintReceived, PrintErrors, Prints,
             LiveStatsEnds, Interrupt, vars
    <3>4. ASSUME NEW x \in Clients,
                 \/ Dial(x) \/ DialFails(x) \/ DeadlinePasses(x) \/ Write(x)
                 \/ WriteFails(x) \/ Count(x) \/ SeesDeadline(x) \/ Panics(x)
                 \/ Recover(x) \/ Join(x) \/ Leave(x) \/ ReaderChecks(x)
                 \/ NextBurst(x) \/ Close(x) \/ HandleWS(x) \/ ServerLeaves(x)
          PROVE  UNCHANGED received
      BY <3>4 DEF Dial, DialFails, DeadlinePasses, Write, WriteFails, Count,
                  SeesDeadline, Panics, Recover, Join, Leave, ReaderChecks,
                  NextBurst, Close, HandleWS, ServerLeaves
    <3> QED BY <1>1, <3>1, <3>2, <3>3, <3>4 DEF Next, Client, Reader
  <2>2. Await(x)
    <3>1. Kind(x) /\ mode # "echo"
      BY <1>1 DEF IInv, ClientInv, Strict
    <3> QED BY <1>1, <2>1, <3>1 DEF Drain, FinalDrain, ReaderReads, Kind
  <2>3. Receives(x) /\ pc[x] = "awaiting"
    <3>1. ~(UNCHANGED received)
      BY <1>1
    <3> QED BY <2>2, <3>1 DEF Await
  <2>4. x = c /\ failedReads[c] = 0 /\ toClient[c] # <<>>
    BY <1>1, <2>3 DEF Receives, Counts, IInv, ClientTypes
  <2>5. toClient[c] = <<written[c]>>
    BY <1>1, <2>3, <2>4 DEF IInv, ClientInv, Alone
  <2> QED BY <2>5
<1>2. IInv /\ [Next]_vars =>
        [\A c \in Clients :
           mode \in {"pingpong", "sequential"} /\ received'[c] # received[c] =>
             Head(toClient[c]) = written[c]]_vars
  BY <1>1 DEF Strict
<1> QED BY <1>2, InductiveInvariant, PTL DEF Spec, StrictPingPong

-------------------------------------------------------------------------------
(***************************************************************************)
(* What is counted.  A message is written, then counted as sent; of what   *)
(* is written some is under way in each direction and some is counted as   *)
(* received.  A client that ends before its deadline has counted an error. *)
(***************************************************************************)
Sums(c) ==
    /\ \/ finalReads[c] < FinalReads
       \/ pc[c] \in {"closing", "panicking", "recovering", "leaving", "done"}
    /\ written[c] = sent[c] + (IF pc[c] = "counting" THEN 1 ELSE 0)
    /\ received[c] + Len(toServer[c]) + Len(toClient[c]) <= written[c]
    /\ ~late[c] /\ pc[c] \in {"finishing", "joining", "closing", "leaving",
                              "done"} =>
         errors[c] >= 1
    /\ c \notin scenario.clients => pc[c] = "dialing"

\* What main has read of it, when it was not interrupted: clients that are
\* done send nothing more and count no more errors, but what an echo client
\* has received may still grow between two readings.
Reported ==
    /\ mainPc # "waiting" =>
         /\ \A c \in scenario.clients : pc[c] = "done"
         /\ results.sent = Total(sent)
    /\ mainPc \in {"errors", "printed"} => results.received <= Total(sent)
    /\ mainPc = "printed" => results.errors = Total(errors)

Accounts ==
    /\ TypeOK
    /\ \A c \in Clients : Sums(c)
    /\ ~interrupted => Reported

\* What is left alone of a client by most steps.
SameSums(c) ==
    /\ finalReads'[c] = finalReads[c] /\ pc'[c] = pc[c]
    /\ written'[c] = written[c] /\ sent'[c] = sent[c]
    /\ received'[c] = received[c] /\ toServer'[c] = toServer[c]
    /\ toClient'[c] = toClient[c] /\ errors'[c] = errors[c]
    /\ late'[c] = late[c]

\* A client that is left alone keeps its sums.
LEMMA SameSumsKept ==
  ASSUME NEW c, UNCHANGED scenario, SameSums(c), Sums(c)
  PROVE  Sums(c)'
  BY DEF SameSums, Sums

\* Sums of counters are numbers.
LEMMA TotalType ==
  ASSUME NEW counter \in [Clients -> Nat]
  PROVE  Total(counter) \in Nat
  BY SumCounts, ClientsAssumption DEF Total, Sum

\* Messages, and the number of those that are under way.
Msgs == 1..scenario.messages

\* The types of what is counted, and of what is under way.
LEMMA CounterTypes ==
  ASSUME TypeOK
  PROVE  /\ sent \in [Clients -> Nat] /\ received \in [Clients -> Nat]
         /\ errors \in [Clients -> Nat]
         /\ toServer \in [Clients -> Seq(Msgs)]
         /\ toClient \in [Clients -> Seq(Msgs)]
         /\ scenario.messages \in Nat
         /\ scenario.clients \subseteq Clients
         /\ \A c \in Clients : /\ sent[c] \in Nat /\ received[c] \in Nat
                               /\ errors[c] \in Nat /\ written[c] \in Nat
                               /\ Len(toServer[c]) \in Nat
                               /\ Len(toClient[c]) \in Nat
<1>1. /\ sent \in [Clients -> Nat] /\ received \in [Clients -> Nat]
      /\ errors \in [Clients -> Nat]
      /\ scenario.messages \in Nat /\ scenario.clients \subseteq Clients
  BY ScenariosAssumption DEF TypeOK
<1>2. /\ toServer \in [Clients -> Seq(Msgs)]
      /\ toClient \in [Clients -> Seq(Msgs)]
  BY DEF TypeOK, Msgs
<1>3. \A c \in Clients : written[c] \in Nat
  BY <1>1 DEF TypeOK
<1>4. \A c \in Clients : toServer[c] \in Seq(Msgs) /\ toClient[c] \in Seq(Msgs)
  BY <1>2
<1>5. \A s \in Seq(Msgs) : Len(s) \in Nat
  OBVIOUS
<1> QED BY <1>1, <1>2, <1>3, <1>4, <1>5

\* A counter counts.
LEMMA CountsType ==
  ASSUME NEW counter \in [Clients -> Nat], NEW c \in Clients
  PROVE  [counter EXCEPT ![c] = @ + 1] \in [Clients -> Nat]
  OBVIOUS

\* What a read does to what is counted.
LEMMA ReadSums ==
  ASSUME TypeOK, NEW c \in Clients,
         \/ Receives(c)
         \/ ReadFails(c) /\ UNCHANGED received
         \/ ReadPanics(c) /\ UNCHANGED received
  PROVE  /\ UNCHANGED <<toServer, link>>
         /\ toClient' \in [Clients -> Seq(Msgs)]
         /\ failedReads' \in [Clients -> 0..PanicAfter]
         /\ beforeFailure' \in [Clients -> 0..scenario.messages]
         /\ received' \in [Clients -> Nat]
         /\ received'[c] + Len(toServer'[c]) + Len(toClient'[c])
              = received[c] + Len(toServer[c]) + Len(toClient[c])
         /\ \A x \in Clients \ {c} :
              received'[x] = received[x] /\ toClient'[x] = toClient[x]
<1> USE CounterTypes
<1>1. CASE Receives(c)
  <2>1. /\ toClient[c] \in Seq(Msgs) /\ toClient[c] # <<>>
        /\ toClient' = [toClient EXCEPT ![c] = Tail(toClient[c])]
        /\ received' = [received EXCEPT ![c] = received[c] + 1]
        /\ UNCHANGED <<toServer, link, failedReads, beforeFailure>>
    BY <1>1 DEF Receives, Counts
  <2>2. /\ Tail(toClient[c]) \in Seq(Msgs)
        /\ Len(Tail(toClient[c])) = Len(toClient[c]) - 1
    BY <2>1, HeadTailFacts
  <2>3. received'[c] + Len(toServer'[c]) + Len(toClient'[c])
          = received[c] + Len(toServer[c]) + Len(toClient[c])
    <3>1. /\ toClient'[c] = Tail(toClient[c]) /\ received'[c] = received[c] + 1
          /\ toServer'[c] = toServer[c]
      BY <2>1
    <3>2. \A r, s, t \in Nat : (r + 1) + s + (t - 1) = r + s + t
      OBVIOUS
    <3> QED BY <2>2, <3>1, <3>2
  <2>4. /\ failedReads \in [Clients -> 0..PanicAfter]
        /\ beforeFailure \in [Clients -> 0..scenario.messages]
    BY DEF TypeOK
  <2>5. toClient' \in [Clients -> Seq(Msgs)] /\ received' \in [Clients -> Nat]
    BY <2>1, <2>2
  <2>6. \A x \in Clients \ {c} :
          received'[x] = received[x] /\ toClient'[x] = toClient[x]
    BY <2>1
  <2> QED BY <2>1, <2>3, <2>4, <2>5, <2>6
<1>2. CASE (ReadFails(c) \/ ReadPanics(c)) /\ UNCHANGED received
  <2>1. /\ failedReads' = [failedReads EXCEPT ![c] = failedReads[c] + 1]
        /\ beforeFailure' = [beforeFailure EXCEPT
                               ![c] = IF failedReads[c] = 0 THEN written[c]
                                                            ELSE @]
        /\ UNCHANGED <<toServer, toClient, link, received>>
    BY <1>2 DEF ReadFails, ReadPanics, Fails
  <2>2. failedReads[c] \in Nat /\ failedReads \in [Clients -> 0..PanicAfter]
    BY DEF TypeOK
  <2>3. failedReads[c] + 1 <= PanicAfter
    BY <1>2, <2>2, Sizes DEF ReadFails, ReadPanics
  <2>4. failedReads' \in [Clients -> 0..PanicAfter]
    BY <2>1, <2>2, <2>3, Sizes
  <2>5. beforeFailure' \in [Clients -> 0..scenario.messages]
    BY <2>1 DEF TypeOK
  <2> QED BY <2>1, <2>4, <2>5
<1> QED BY <1>1, <1>2

\* Where a client may be, and the steps of its program.
Labels == {"dialing", "looping", "sending", "counting", "draining", "awaiting",
           "finishing", "joining", "closing", "panicking", "recovering",
           "leaving", "done"}

\* The types of the model hold with the bounds of the numbers: of a burst,
\* of the final drain, of failing reads and of messages.
LEMMA TypesKept ==
  ASSUME TypeOK, IInv, \A c \in Clients : Sums(c), [Next]_vars
  PROVE  TypeOK'
<1> USE DEF statsVars, connVars, mainVars, clientVars
<1>0. /\ errors \in [Clients -> Nat]
      /\ \A c \in Clients : [errors EXCEPT ![c] = @ + 1] \in [Clients -> Nat]
  BY CounterTypes, CountsType
<1>1. CASE UNCHANGED vars
  BY <1>1 DEF vars, TypeOK
<1>2. CASE Main
  <2>1. \E r \in {"sent", "received", "errors"}, n \in Nat :
           results' = [results EXCEPT ![r] = n]
    BY <1>2, TotalType, CounterTypes
       DEF Main, ClientsDone, Interrupted, PrintReceived, PrintErrors, Prints
  <2>2. /\ mainPc' \in {"received", "errors", "printed"}
        /\ UNCHANGED <<clientVars, connVars, statsVars, liveStats, interrupts>>
        /\ signal' \in {signal, FALSE} /\ interrupted' \in {interrupted, TRUE}
    BY <1>2 DEF Main, ClientsDone, Interrupted, PrintReceived, PrintErrors,
                Prints
  <2>3. results' \in [{"sent", "received", "errors"} -> Nat]
    BY <2>1 DEF TypeOK
  <2> QED BY <2>2, <2>3 DEF TypeOK
<1>3. CASE LiveStatsEnds
  BY <1>3 DEF LiveStatsEnds, TypeOK
<1>4. ASSUME NEW c \in Clients,
             \/ Dial(c) \/ DialFails(c) \/ DeadlinePasses(c) \/ ServerLeaves(c)
             \/ NextBurst(c)
      PROVE  TypeOK'
  <2>1. errors' \in [Clients -> Nat]
    BY <1>0, <1>4 DEF Dial, DialFails, DeadlinePasses, ServerLeaves, NextBurst,
                      Counts
  <2>2. CASE Dial(c)
    BY <2>2 DEF Dial, Goto, TypeOK
  <2>3. CASE DialFails(c)
    BY <2>1, <2>3 DEF DialFails, Goto, TypeOK
  <2>4. CASE DeadlinePasses(c)
    BY <2>4 DEF DeadlinePasses, TypeOK
  <2>5. CASE ServerLeaves(c)
    BY <2>5 DEF ServerLeaves, TypeOK
  <2>6. CASE NextBurst(c)
    BY <2>6 DEF NextBurst, Goto, TypeOK
  <2> QED BY <1>4, <2>2, <2>3, <2>4, <2>5, <2>6
<1>5. ASSUME NEW c \in Clients, Write(c) PROVE TypeOK'
  <2>1. /\ written[c] < scenario.messages
        /\ written' = [written EXCEPT ![c] = written[c] + 1]
        /\ toServer' = [toServer EXCEPT
                          ![c] = Append(toServer[c], written[c] + 1)]
        /\ pc' = [pc EXCEPT ![c] = "counting"]
    BY <1>5 DEF Write, Goto
  <2>2. written[c] + 1 \in Msgs
    BY <2>1, CounterTypes DEF Msgs
  <2>3. Append(toServer[c], written[c] + 1) \in Seq(Msgs)
    BY <2>2, AppendFacts, CounterTypes
  <2>4. toServer' \in [Clients -> Seq(Msgs)]
    BY <2>1, <2>3, CounterTypes
  <2>5. written' \in [Clients -> 0..scenario.messages]
    <3>1. written[c] + 1 \in 0..scenario.messages
      BY <2>1, CounterTypes
    <3>2. written \in [Clients -> 0..scenario.messages]
      BY DEF TypeOK
    <3> QED BY <2>1, <3>1, <3>2
  <2> QED BY <1>5, <2>1, <2>4, <2>5 DEF Write, TypeOK, Msgs
<1>6. ASSUME NEW c \in Clients, WriteFails(c) \/ SeesDeadline(c)
      PROVE  TypeOK'
  <2>1. AfterSending \in {"joining", "closing"}
    BY DEF AfterSending
  <2>2. \E l \in {"joining", "closing", "draining"} :
           pc' = [pc EXCEPT ![c] = l]
    BY <1>6, <2>1 DEF WriteFails, SeesDeadline, StopsSending, Goto
  <2>3. pc' \in [Clients -> Labels]
    BY <2>2 DEF TypeOK, Labels
  <2>4. errors' \in [Clients -> Nat]
    BY <1>0, <1>6 DEF WriteFails, SeesDeadline, Counts
  <2>5. /\ closed' \in [Clients -> BOOLEAN]
        /\ link' \in [Clients -> {"none", "up", "down"}]
    BY <1>6 DEF WriteFails, SeesDeadline, StopsSending, TypeOK
  <2>6. UNCHANGED <<scenario, late, burst, finalReads, reader, written,
                    toServer, toClient, failedReads, beforeFailure, sent,
                    received, mainVars>>
    BY <1>6 DEF WriteFails, SeesDeadline
  <2> QED BY <2>3, <2>4, <2>5, <2>6 DEF TypeOK, Labels
<1>7. ASSUME NEW c \in Clients, Count(c) PROVE TypeOK'
  <2>1. AfterMessage(c) \in {"sending", "draining", "awaiting"}
    BY DEF AfterMessage
  <2>2. pc' = [pc EXCEPT ![c] = AfterMessage(c)]
    BY <1>7 DEF Count, Goto
  <2> HIDE DEF AfterMessage
  <2>3. pc' \in [Clients -> Labels]
    BY <2>1, <2>2 DEF TypeOK, Labels
  <2>4. burst' \in [Clients -> 0..BurstSize]
    <3>1. burst \in [Clients -> 0..BurstSize]
      BY DEF TypeOK
    <3>2. CASE mode = "blast"
      <4>1. burst[c] < BurstSize /\ burst[c] \in Nat
        BY <1>7, <3>1, <3>2, Sizes DEF Count, IInv, ClientInv, Kind
      <4>2. burst[c] + 1 \in 0..BurstSize
        BY <4>1, Sizes
      <4> QED BY <1>7, <3>1, <3>2, <4>2 DEF Count
    <3>3. CASE mode # "blast"
      BY <1>7, <3>1, <3>3 DEF Count
    <3> QED BY <3>2, <3>3
  <2>5. sent' \in [Clients -> Nat]
    BY <1>7, CounterTypes, CountsType DEF Count, Counts
  <2> QED BY <1>7, <2>3, <2>4, <2>5 DEF Count, TypeOK, Labels
<1>8. ASSUME NEW c \in Clients,
             Drain(c) \/ FinalDrain(c) \/ Await(c) \/ Panics(c)
      PROVE  TypeOK'
  <2>1. /\ UNCHANGED <<toServer, link>>
        /\ toClient' \in [Clients -> Seq(Msgs)]
        /\ failedReads' \in [Clients -> 0..PanicAfter]
        /\ beforeFailure' \in [Clients -> 0..scenario.messages]
        /\ received' \in [Clients -> Nat]
    BY <1>8, ReadSums DEF Drain, FinalDrain, Await, Panics
  <2>2. \/ UNCHANGED pc
        \/ \E l \in {"looping", "sending", "closing", "finishing", "panicking"} :
             pc' = [pc EXCEPT ![c] = l]
    BY <1>8 DEF Drain, FinalDrain, Await, Panics, Goto
  <2>3. pc' \in [Clients -> Labels]
    BY <2>2 DEF TypeOK, Labels
  <2>4. burst' \in [Clients -> 0..BurstSize]
    <3>1. burst \in [Clients -> 0..BurstSize] /\ 0 \in 0..BurstSize
      BY Sizes DEF TypeOK
    <3>2. UNCHANGED burst \/ burst' = [burst EXCEPT ![c] = 0]
      BY <1>8 DEF Drain, FinalDrain, Await, Panics
    <3>3. [burst EXCEPT ![c] = 0] \in [Clients -> 0..BurstSize]
      BY <3>1
    <3> QED BY <3>1, <3>2, <3>3
  <2>5. finalReads' \in [Clients -> 0..FinalReads]
    <3>1. finalReads \in [Clients -> 0..FinalReads] /\ FinalReads \in Nat
      BY SizesAssumption DEF TypeOK
    <3>2. CASE UNCHANGED finalReads
      BY <3>1, <3>2
    <3>3. CASE ~(UNCHANGED finalReads)
      <4>1. /\ pc[c] = "finishing"
            /\ finalReads' = [finalReads EXCEPT ![c] = finalReads[c] + 1]
        BY <1>8, <3>3 DEF Drain, FinalDrain, Await, Panics
      <4>2. finalReads[c] < FinalReads
        BY <4>1 DEF Sums
      <4>3. finalReads[c] + 1 \in 0..FinalReads
        BY <3>1, <4>2
      <4> QED BY <3>1, <4>1, <4>3
    <3> QED BY <3>2, <3>3
  <2>6. errors' \in [Clients -> Nat]
    BY <1>0, <1>8 DEF Drain, FinalDrain, Await, Panics, Counts
  <2>7. UNCHANGED <<scenario, late, closed, reader, written, sent, mainVars>>
    BY <1>8 DEF Drain, FinalDrain, Await, Panics
  <2> QED BY <2>1, <2>3, <2>4, <2>5, <2>6, <2>7 DEF TypeOK, Labels, Msgs
<1>9. ASSUME NEW c \in Clients, Recover(c) \/ Leave(c) \/ Join(c) \/ Close(c)
      PROVE  TypeOK'
  <2>1. errors' \in [Clients -> Nat]
    BY <1>0, <1>9 DEF Recover, Leave, Join, Close, Counts
  <2>2. \E l \in {"recovering", "leaving", "done"} :
           pc' = [pc EXCEPT ![c] = l]
    BY <1>9 DEF Recover, Leave, Join, Close, Goto
  <2>3. link' = link \/ link' = [link EXCEPT ![c] = "down"]
    BY <1>9 DEF Recover, Leave, Join, Close
  <2>4. link' \in [Clients -> {"none", "up", "down"}]
    BY <2>3 DEF TypeOK
  <2>5. pc' \in [Clients -> Labels]
    BY <2>2 DEF TypeOK, Labels
  <2>6. /\ UNCHANGED <<scenario, late, burst, finalReads, closed, reader,
                       written, sent, received, mainVars>>
        /\ UNCHANGED <<toServer, toClient, failedReads, beforeFailure>>
    BY <1>9 DEF Recover, Leave, Join, Close
  <2> QED BY <2>1, <2>4, <2>5, <2>6 DEF TypeOK, Labels
<1>10. ASSUME NEW c \in Clients, ReaderChecks(c) PROVE TypeOK'
  BY <1>10 DEF ReaderChecks, ReaderGoto, TypeOK
<1>11. ASSUME NEW c \in Clients, ReaderReads(c) PROVE TypeOK'
  <2>1. /\ UNCHANGED <<toServer, link>>
        /\ toClient' \in [Clients -> Seq(Msgs)]
        /\ failedReads' \in [Clients -> 0..PanicAfter]
        /\ beforeFailure' \in [Clients -> 0..scenario.messages]
        /\ received' \in [Clients -> Nat]
    BY <1>11, ReadSums DEF ReaderReads
  <2>2. \E l \in {"checking", "ended"} : reader' = [reader EXCEPT ![c] = l]
    BY <1>11 DEF ReaderReads, ReaderGoto
  <2>3. UNCHANGED <<scenario, pc, late, burst, finalReads, closed, written,
                    sent, errors, mainVars>>
    BY <1>11 DEF ReaderReads
  <2>4. reader' \in [Clients -> {"none", "checking", "reading", "ended"}]
    BY <2>2 DEF TypeOK
  <2> QED BY <2>1, <2>3, <2>4 DEF TypeOK, Msgs
<1>12. ASSUME NEW c \in Clients, HandleWS(c) PROVE TypeOK'
  <2>1. /\ toServer[c] # <<>>
        /\ toServer' = [toServer EXCEPT ![c] = Tail(toServer[c])]
        /\ toClient' = [toClient EXCEPT
                          ![c] = Append(toClient[c], Head(toServer[c]))]
    BY <1>12 DEF HandleWS
  <2>2. Head(toServer[c]) \in Msgs /\ Tail(toServer[c]) \in Seq(Msgs)
    BY <2>1, HeadTailFacts, CounterTypes
  <2>3. Append(toClient[c], Head(toServer[c])) \in Seq(Msgs)
    BY <2>2, AppendFacts, CounterTypes
  <2>4. /\ toServer' \in [Clients -> Seq(Msgs)]
        /\ toClient' \in [Clients -> Seq(Msgs)]
    BY <2>1, <2>2, <2>3, CounterTypes
  <2> QED BY <1>12, <2>4 DEF HandleWS, TypeOK, Msgs
<1>13. CASE Interrupt
  <2>1. scenario.interrupts \in Nat
    BY ScenariosAssumption DEF TypeOK
  <2>2. interrupts' \in 0..scenario.interrupts
    BY <1>13, <2>1 DEF Interrupt, TypeOK
  <2> QED BY <1>13, <2>2 DEF Interrupt, TypeOK
<1> QED
  BY <1>1, <1>2, <1>3, <1>4, <1>5, <1>6, <1>7, <1>8, <1>9, <1>10, <1>11, <1>12,
     <1>13, CounterTypes DEF Next, Client, Reader

\* A step of a client keeps its own sums and leaves those of others alone.
SumsKept(c) == Sums(c)' /\ \A x \in Clients \ {c} : SameSums(x)

\* Steps of dialing, the deadline, and a look at the clock.
LEMMA StartSums ==
  ASSUME TypeOK, NEW c \in scenario.clients, Sums(c),
         Dial(c) \/ DialFails(c) \/ DeadlinePasses(c) \/ NextBurst(c)
  PROVE  SumsKept(c)
<1> USE DEF connVars, statsVars
<1>1. /\ UNCHANGED <<scenario, finalReads, written, sent, received, toServer,
                     toClient>>
      /\ c \in Clients /\ c \in scenario.clients
  BY CounterTypes DEF Dial, DialFails, DeadlinePasses, NextBurst
<1>2. /\ pc \in [Clients -> Labels] /\ late \in [Clients -> BOOLEAN]
      /\ errors \in [Clients -> Nat] /\ errors[c] \in Nat
  BY <1>1, CounterTypes DEF TypeOK, Labels
<1>3. CASE Dial(c)
  <2>1. pc[c] = "dialing" /\ UNCHANGED <<late, errors>>
        /\ \E l \in {"looping", "sending"} : pc' = [pc EXCEPT ![c] = l]
    BY <1>3 DEF Dial, Goto
  <2> QED BY <1>1, <1>2, <2>1 DEF SumsKept, SameSums, Sums
<1>4. CASE DialFails(c)
  <2>1. pc[c] = "dialing" /\ UNCHANGED late
        /\ pc' = [pc EXCEPT ![c] = "leaving"]
        /\ errors' = [errors EXCEPT ![c] = errors[c] + 1]
    BY <1>4 DEF DialFails, Goto, Counts
  <2>2. errors'[c] >= 1
    BY <1>1, <1>2, <2>1
  <2> QED BY <1>1, <1>2, <2>1, <2>2 DEF SumsKept, SameSums, Sums
<1>5. CASE DeadlinePasses(c)
  BY <1>1, <1>2, <1>5 DEF DeadlinePasses, SumsKept, SameSums, Sums
<1>6. CASE NextBurst(c)
  <2>1. /\ pc[c] = "looping" /\ UNCHANGED <<late, errors>>
        /\ \E l \in {"finishing", "sending"} :
             /\ pc' = [pc EXCEPT ![c] = l]
             /\ l = "finishing" => late[c]
    BY <1>6 DEF NextBurst, Goto
  <2> QED BY <1>1, <1>2, <2>1 DEF SumsKept, SameSums, Sums
<1> QED BY <1>3, <1>4, <1>5, <1>6

\* A message is written ...
LEMMA WriteSums ==
  ASSUME TypeOK, NEW c \in scenario.clients, Sums(c), Write(c)
  PROVE  SumsKept(c)
<1> USE DEF statsVars
<1>1. /\ UNCHANGED <<scenario, finalReads, late, sent, received, errors,
                     toClient>>
      /\ pc[c] = "sending" /\ pc' = [pc EXCEPT ![c] = "counting"]
      /\ written' = [written EXCEPT ![c] = written[c] + 1]
      /\ toServer' = [toServer EXCEPT
                        ![c] = Append(toServer[c], written[c] + 1)]
      /\ written[c] < scenario.messages
      /\ c \in Clients
  BY CounterTypes DEF Write, Goto
<1>2. /\ pc \in [Clients -> Labels]
      /\ written \in [Clients -> 0..scenario.messages]
  BY DEF TypeOK, Labels
<1>3. /\ toServer \in [Clients -> Seq(Msgs)] /\ toServer[c] \in Seq(Msgs)
      /\ sent[c] \in Nat /\ received[c] \in Nat /\ written[c] \in Nat
      /\ Len(toServer[c]) \in Nat /\ Len(toClient[c]) \in Nat
      /\ scenario.messages \in Nat
  BY <1>1, CounterTypes
<1>4. Len(Append(toServer[c], written[c] + 1)) = Len(toServer[c]) + 1
  <2>1. written[c] + 1 \in Msgs
    BY <1>1, <1>3 DEF Msgs
  <2> QED BY <1>3, <2>1, AppendFacts
<1>5. /\ pc'[c] = "counting" /\ written'[c] = written[c] + 1
      /\ Len(toServer'[c]) = Len(toServer[c]) + 1
  BY <1>1, <1>2, <1>3, <1>4
<1>6. /\ written'[c] = sent'[c] + 1
      /\ received'[c] + Len(toServer'[c]) + Len(toClient'[c]) <= written'[c]
  <2>1. /\ written[c] = sent[c]
        /\ received[c] + Len(toServer[c]) + Len(toClient[c]) <= written[c]
    BY <1>1, <1>3 DEF Sums
  <2>2. \A r, s, t, w \in Nat : r + s + t <= w => r + (s + 1) + t <= w + 1
    OBVIOUS
  <2>3. received[c] + (Len(toServer[c]) + 1) + Len(toClient[c])
          <= written[c] + 1
    BY <1>3, <2>1, <2>2
  <2> QED BY <1>1, <1>5, <2>1, <2>3
<1>7. Sums(c)'
  BY <1>1, <1>5, <1>6 DEF Sums
<1> QED BY <1>1, <1>2, <1>3, <1>7 DEF SumsKept, SameSums

\* ... and counted.
LEMMA CountSums ==
  ASSUME TypeOK, NEW c \in scenario.clients, Sums(c), Count(c)
  PROVE  SumsKept(c)
<1> USE DEF connVars
<1>1. /\ UNCHANGED <<scenario, finalReads, late, written, received, errors,
                     toServer, toClient>>
      /\ pc[c] = "counting" /\ pc' = [pc EXCEPT ![c] = AfterMessage(c)]
      /\ sent' = [sent EXCEPT ![c] = sent[c] + 1]
      /\ c \in Clients
  BY CounterTypes DEF Count, Goto, Counts
<1>2. pc \in [Clients -> Labels] /\ sent \in [Clients -> Nat] /\ sent[c] \in Nat
  BY <1>1, CounterTypes DEF TypeOK, Labels
<1>3. AfterMessage(c) \in {"sending", "draining", "awaiting"}
  BY DEF AfterMessage
<1> HIDE DEF AfterMessage
<1>4. pc'[c] \in {"sending", "draining", "awaiting"} /\ sent'[c] = sent[c] + 1
  BY <1>1, <1>2, <1>3
<1>5. Sums(c)'
  BY <1>1, <1>2, <1>4 DEF Sums
<1> QED BY <1>1, <1>2, <1>5 DEF SumsKept, SameSums

\* A client that stops sending before its deadline has counted an error.
LEMMA StopSums ==
  ASSUME TypeOK, NEW c \in scenario.clients, Sums(c),
         WriteFails(c) \/ SeesDeadline(c)
  PROVE  SumsKept(c)
<1> USE DEF statsVars
<1>1. /\ UNCHANGED <<scenario, finalReads, late, written, sent, received,
                     toServer, toClient>>
      /\ pc[c] = "sending" /\ c \in Clients
  BY CounterTypes DEF WriteFails, SeesDeadline
<1>2. /\ pc \in [Clients -> Labels]
      /\ errors \in [Clients -> Nat] /\ errors[c] \in Nat
  BY <1>1, CounterTypes DEF TypeOK, Labels
<1>3. PICK l \in {"joining", "closing", "draining"} :
         pc' = [pc EXCEPT ![c] = l]
  <2>1. AfterSending \in {"joining", "closing"}
    BY DEF AfterSending
  <2> QED BY <2>1 DEF WriteFails, SeesDeadline, StopsSending, Goto
<1>4. /\ pc'[c] = l
      /\ \A x \in Clients \ {c} : pc'[x] = pc[x] /\ errors'[x] = errors[x]
      /\ late[c] \/ errors'[c] >= 1
  BY <1>1, <1>2, <1>3 DEF WriteFails, SeesDeadline, Counts
<1>5. Sums(c)'
  BY <1>1, <1>4 DEF Sums
<1> QED BY <1>1, <1>4, <1>5 DEF SumsKept, SameSums

\* Reading moves a message from the connection to what was received.
LEMMA ReadingSums ==
  ASSUME TypeOK, NEW c \in scenario.clients, Sums(c),
         Drain(c) \/ FinalDrain(c) \/ Await(c) \/ Panics(c) \/ ReaderReads(c)
  PROVE  SumsKept(c)
<1> USE DEF statsVars
<1>1. /\ UNCHANGED <<scenario, late, written, sent>>
      /\ c \in Clients
  BY CounterTypes DEF Drain, FinalDrain, Await, Panics, ReaderReads
<1>2. /\ UNCHANGED toServer
      /\ received'[c] + Len(toServer'[c]) + Len(toClient'[c])
           = received[c] + Len(toServer[c]) + Len(toClient[c])
      /\ \A x \in Clients \ {c} :
           received'[x] = received[x] /\ toClient'[x] = toClient[x]
  BY <1>1, ReadSums DEF Drain, FinalDrain, Await, Panics, ReaderReads
<1>3. /\ pc \in [Clients -> Labels] /\ errors \in [Clients -> Nat]
      /\ finalReads \in [Clients -> 0..FinalReads] /\ finalReads[c] \in Nat
      /\ errors[c] \in Nat
  <2>1. pc \in [Clients -> Labels] /\ finalReads \in [Clients -> 0..FinalReads]
    BY DEF TypeOK, Labels
  <2>2. finalReads[c] \in Nat
    BY <1>1, <2>1, SizesAssumption
  <2> QED BY <1>1, <2>1, <2>2, CounterTypes
<1>4. \A x \in Clients \ {c} : /\ pc'[x] = pc[x] /\ errors'[x] = errors[x]
                               /\ finalReads'[x] = finalReads[x]
  BY <1>1, <1>3 DEF Drain, FinalDrain, Await, Panics, ReaderReads, Goto, Counts
<1>5. /\ (pc[c] = "counting") <=> (pc'[c] = "counting")
      /\ \/ finalReads'[c] < FinalReads
         \/ pc'[c] \in {"closing", "panicking", "recovering", "leaving", "done"}
      /\ ~late[c] /\ pc'[c] \in {"finishing", "joining", "closing", "leaving",
                                 "done"} =>
           errors'[c] >= 1
  <2>1. CASE ReaderReads(c)
    BY <2>1 DEF ReaderReads, Sums
  <2>2. CASE Drain(c)
    BY <1>1, <1>3, <2>2 DEF Drain, Goto, Sums
  <2>3. CASE FinalDrain(c)
    <3>1. /\ pc[c] = "finishing" /\ errors' = errors
          /\ pc'[c] \in {"finishing", "closing"}
      BY <1>1, <1>3, <2>3 DEF FinalDrain, Goto
    <3>2. ~late[c] => errors[c] >= 1
      BY <3>1 DEF Sums
    <3>3. finalReads[c] < FinalReads
      BY <3>1 DEF Sums
    <3>4. pc'[c] = "finishing" => finalReads'[c] < FinalReads
      <4>1. SUFFICES ASSUME pc'[c] = "finishing"
                     PROVE  finalReads'[c] < FinalReads
        OBVIOUS
      <4>2. /\ finalReads' = [finalReads EXCEPT ![c] = finalReads[c] + 1]
            /\ finalReads[c] + 1 # FinalReads
        BY <1>1, <1>3, <2>3, <4>1 DEF FinalDrain, Goto
      <4> QED BY <1>1, <1>3, <3>3, <4>2, SizesAssumption
    <3> QED BY <3>1, <3>2, <3>4
  <2>4. CASE Await(c)
    BY <1>1, <1>3, <2>4 DEF Await, Goto, Sums
  <2>5. CASE Panics(c)
    BY <1>1, <1>3, <2>5 DEF Panics, Goto, Sums
  <2> QED BY <2>1, <2>2, <2>3, <2>4, <2>5
<1>6. Sums(c)'
  BY <1>1, <1>2, <1>5 DEF Sums
<1> QED BY <1>1, <1>2, <1>4, <1>6 DEF SumsKept, SameSums

\* A client that panicked has counted an error when it leaves.
LEMMA LeaveSums ==
  ASSUME TypeOK, NEW c \in scenario.clients, Sums(c),
         Join(c) \/ Close(c) \/ Recover(c) \/ Leave(c)
  PROVE  SumsKept(c)
<1> USE DEF statsVars, connVars
<1>1. /\ UNCHANGED <<scenario, finalReads, late, written, sent, received,
                     toServer, toClient>>
      /\ pc[c] \in {"joining", "closing", "panicking", "recovering", "leaving"}
      /\ c \in Clients
  BY CounterTypes DEF Recover, Join, Leave, Close
<1>2. /\ pc \in [Clients -> Labels]
      /\ errors \in [Clients -> Nat] /\ errors[c] \in Nat
  BY <1>1, CounterTypes DEF TypeOK, Labels
<1>3. /\ pc'[c] \in {"recovering", "leaving", "done"}
      /\ \A x \in Clients \ {c} : pc'[x] = pc[x] /\ errors'[x] = errors[x]
  BY <1>1, <1>2 DEF Recover, Join, Leave, Close, Goto, Counts
<1>4. ~late[c] /\ pc'[c] # "recovering" => errors'[c] >= 1
  <2>1. CASE Recover(c)
    BY <1>1, <1>2, <2>1 DEF Recover, Counts
  <2>2. CASE Join(c) \/ Leave(c)
    BY <2>2 DEF Join, Leave, Sums
  <2>3. CASE Close(c)
    BY <1>1, <1>2, <2>3 DEF Close, Goto, Sums
  <2> QED BY <2>1, <2>2, <2>3
<1>5. Sums(c)'
  BY <1>1, <1>3, <1>4 DEF Sums
<1> QED BY <1>1, <1>3, <1>5 DEF SumsKept, SameSums

\* The server moves a message from one direction to the other.
LEMMA EchoSums ==
  ASSUME TypeOK, NEW c \in scenario.clients, Sums(c), HandleWS(c)
  PROVE  SumsKept(c)
<1> USE DEF statsVars, clientVars
<1>1. /\ UNCHANGED <<scenario, pc, finalReads, late, written, sent, received,
                     errors>>
      /\ toServer[c] # <<>>
      /\ toServer' = [toServer EXCEPT ![c] = Tail(toServer[c])]
      /\ toClient' = [toClient EXCEPT
                        ![c] = Append(toClient[c], Head(toServer[c]))]
      /\ c \in Clients
  BY CounterTypes DEF HandleWS
<1>2. /\ toServer \in [Clients -> Seq(Msgs)] /\ toServer[c] \in Seq(Msgs)
      /\ toClient \in [Clients -> Seq(Msgs)] /\ toClient[c] \in Seq(Msgs)
      /\ received[c] \in Nat /\ Len(toServer[c]) \in Nat
      /\ Len(toClient[c]) \in Nat
  BY <1>1, CounterTypes
<1>3. /\ Len(Tail(toServer[c])) = Len(toServer[c]) - 1
      /\ Head(toServer[c]) \in Msgs
  BY <1>1, <1>2, HeadTailFacts
<1>4. Len(Append(toClient[c], Head(toServer[c]))) = Len(toClient[c]) + 1
  BY <1>2, <1>3, AppendFacts
<1>5. /\ Len(toServer'[c]) = Len(toServer[c]) - 1
      /\ Len(toClient'[c]) = Len(toClient[c]) + 1
  BY <1>1, <1>2, <1>3, <1>4
<1>6. received[c] + Len(toServer'[c]) + Len(toClient'[c])
        = received[c] + Len(toServer[c]) + Len(toClient[c])
  <2>1. \A r, s, t \in Nat : r + (s - 1) + (t + 1) = r + s + t
    OBVIOUS
  <2> QED BY <1>2, <1>5, <2>1
<1>7. Sums(c)'
  BY <1>1, <1>6 DEF Sums
<1> QED BY <1>1, <1>2, <1>7 DEF SumsKept, SameSums

\* Every step keeps the sums of every client.
LEMMA NextSums ==
  ASSUME TypeOK, \A c \in Clients : Sums(c), [Next]_vars
  PROVE  \A c \in Clients : Sums(c)'
<1> USE DEF statsVars, connVars, mainVars, clientVars
<1>1. ASSUME UNCHANGED <<scenario, finalReads, pc, written, sent, received,
                         toServer, toClient, errors, late>>
      PROVE  \A c \in Clients : Sums(c)'
  <2>1. \A c \in Clients : SameSums(c)
    BY <1>1 DEF SameSums
  <2> QED BY <1>1, <2>1, SameSumsKept
<1>2. CASE UNCHANGED vars
  BY <1>1, <1>2 DEF vars
<1>3. CASE Main \/ LiveStatsEnds \/ Interrupt
  BY <1>1, <1>3 DEF Main, ClientsDone, Interrupted, PrintReceived, PrintErrors,
                    Prints, LiveStatsEnds, Interrupt
<1>4. ASSUME NEW c \in scenario.clients, ReaderChecks(c) \/ ServerLeaves(c)
      PROVE  \A x \in Clients : Sums(x)'
  BY <1>1, <1>4 DEF ReaderChecks, ServerLeaves
<1>5. ASSUME NEW c \in scenario.clients,
             \/ Dial(c) \/ DialFails(c) \/ DeadlinePasses(c) \/ Client(c)
             \/ ReaderReads(c) \/ HandleWS(c)
      PROVE  \A x \in Clients : Sums(x)'
  <2>1. c \in Clients /\ Sums(c)
    BY CounterTypes
  <2>2. SumsKept(c)
    BY <1>5, <2>1, StartSums, WriteSums, CountSums, StopSums, ReadingSums,
       LeaveSums, EchoSums DEF Client
  <2>3. UNCHANGED scenario
    BY <1>5 DEF Dial, DialFails, DeadlinePasses, HandleWS, Client, Write,
                WriteFails, Count, SeesDeadline, Drain, FinalDrain, Await,
                Panics, Recover, Join, Leave, NextBurst, Close, ReaderReads
  <2> QED BY <2>2, <2>3, SameSumsKept DEF SumsKept
<1> QED BY <1>2, <1>3, <1>4, <1>5 DEF Next, Reader

\* When all clients are done, nobody counts anything but received messages.
LEMMA DoneSteps ==
  ASSUME TypeOK, [Next]_vars, \A c \in scenario.clients : pc[c] = "done"
  PROVE  /\ \A c \in scenario.clients : pc'[c] = "done"
         /\ UNCHANGED <<scenario, sent, errors>>
<1> USE DEF statsVars, connVars, mainVars, clientVars
<1>1. CASE UNCHANGED vars
  BY <1>1 DEF vars
<1>2. CASE Main \/ LiveStatsEnds \/ Interrupt
  BY <1>2 DEF Main, ClientsDone, Interrupted, PrintReceived, PrintErrors,
              Prints, LiveStatsEnds, Interrupt
<1>3. ASSUME NEW c \in scenario.clients,
             \/ Dial(c) \/ DialFails(c) \/ DeadlinePasses(c) \/ Client(c)
      PROVE  FALSE
  BY <1>3 DEF Dial, DialFails, DeadlinePasses, Client, Write, WriteFails, Count,
              SeesDeadline, Drain, FinalDrain, Await, Panics, Recover, Join,
              NextBurst, Close, Leave
<1>4. ASSUME NEW c \in scenario.clients,
             Reader(c) \/ HandleWS(c) \/ ServerLeaves(c)
      PROVE  UNCHANGED <<scenario, pc, sent, errors>>
  BY <1>4 DEF Reader, ReaderChecks, ReaderReads, HandleWS, ServerLeaves
<1> QED BY <1>1, <1>2, <1>3, <1>4 DEF Next

\* Counters that are left alone have the same sums.
LEMMA SameTotal ==
  ASSUME UNCHANGED <<sent, errors>>
  PROVE  Total(sent)' = Total(sent) /\ Total(errors)' = Total(errors)
  BY DEF Total, FoldFunction, FoldFunctionOnSet, MapThenFoldSet

\* All that was received was sent: a client that is done has counted what it
\* has written.
LEMMA ReceivedWasSent ==
  ASSUME TypeOK, \A c \in Clients : Sums(c),
         \A c \in scenario.clients : pc[c] = "done"
  PROVE  Total(received) <= Total(sent)
<1>1. ASSUME NEW c \in Clients PROVE received[c] <= sent[c]
  <2>1. pc[c] # "counting" /\ Sums(c)
    BY DEF Sums
  <2>2. written[c] = sent[c]
    BY <2>1, CounterTypes DEF Sums
  <2> QED BY <2>1, <2>2, CounterTypes DEF Sums
<1> QED BY <1>1, CounterTypes, SumMonotonic, ClientsAssumption DEF Total, Sum

\* The results are those of the clients, for every order of main's readings.
LEMMA NextReported ==
  ASSUME Accounts, [Next]_vars
  PROVE  ~interrupted' => Reported'
<1> USE DEF statsVars, connVars, mainVars, clientVars
<1>1. SUFFICES ASSUME ~interrupted' PROVE Reported'
  OBVIOUS
<1>2. ~interrupted /\ ~Interrupted
  <2>1. ~Interrupted
    BY <1>1 DEF Interrupted
  <2>2. UNCHANGED interrupted
    BY <2>1 DEF Next, Main, ClientsDone, PrintReceived, PrintErrors,
                LiveStatsEnds, Interrupt, Client, Reader, vars, Dial, DialFails,
                DeadlinePasses, Write, WriteFails, Count, SeesDeadline, Drain,
                FinalDrain, Await, Panics, Recover, Join, Leave, NextBurst,
                Close, ReaderChecks, ReaderReads, HandleWS, ServerLeaves
  <2> QED BY <1>1, <2>1, <2>2
<1>3. Reported /\ TypeOK /\ \A c \in Clients : Sums(c)
  BY <1>2 DEF Accounts
<1>4. CASE UNCHANGED <<mainPc, results>>
  <2>1. CASE mainPc = "waiting"
    BY <1>4, <2>1 DEF Reported
  <2>2. CASE mainPc # "waiting"
    <3>1. /\ \A c \in scenario.clients : pc'[c] = "done"
          /\ UNCHANGED <<scenario, sent, errors>>
      BY <1>3, <2>2, DoneSteps DEF Reported
    <3>2. Total(sent)' = Total(sent) /\ Total(errors)' = Total(errors)
      BY <3>1, SameTotal
    <3> QED BY <1>3, <1>4, <3>1, <3>2 DEF Reported
  <2> QED BY <2>1, <2>2
<1>5. CASE ClientsDone \/ PrintReceived \/ PrintErrors
  <2>1. \A c \in scenario.clients : pc[c] = "done"
    BY <1>3, <1>5 DEF ClientsDone, PrintReceived, PrintErrors, Reported
  <2>2. /\ UNCHANGED <<scenario, pc, sent, received, errors>>
        /\ results \in [{"sent", "received", "errors"} -> Nat]
    BY <1>3, <1>5 DEF ClientsDone, PrintReceived, PrintErrors, Prints, TypeOK
  <2>3. Total(sent)' = Total(sent) /\ Total(errors)' = Total(errors)
    BY <2>2, SameTotal
  <2>4. CASE ClientsDone
    <3>1. mainPc' = "received" /\ results'.sent = Total(sent)
      BY <2>2, <2>4 DEF ClientsDone, Prints
    <3> QED BY <2>1, <2>2, <2>3, <3>1 DEF Reported
  <2>5. CASE PrintReceived
    <3>1. /\ mainPc = "received" /\ mainPc' = "errors"
          /\ results'.sent = results.sent
          /\ results'.received = Total(received)
      BY <2>2, <2>5 DEF PrintReceived, Prints
    <3>2. Total(received) <= Total(sent)
      BY <1>3, <2>1, ReceivedWasSent
    <3> QED BY <1>3, <2>1, <2>2, <2>3, <3>1, <3>2 DEF Reported
  <2>6. CASE PrintErrors
    <3>1. /\ mainPc = "errors" /\ mainPc' = "printed"
          /\ results'.sent = results.sent
          /\ results'.received = results.received
          /\ results'.errors = Total(errors)
      BY <2>2, <2>6 DEF PrintErrors, Prints
    <3> QED BY <1>3, <2>1, <2>2, <2>3, <3>1 DEF Reported
  <2> QED BY <1>5, <2>4, <2>5, <2>6
<1> QED
  <2>1. \/ UNCHANGED <<mainPc, results>>
        \/ ClientsDone \/ PrintReceived \/ PrintErrors
    BY <1>2 DEF Next, Main, LiveStatsEnds, Interrupt, Client, Reader, vars,
                Dial, DialFails, DeadlinePasses, Write, WriteFails, Count,
                NextBurst, SeesDeadline, Drain, FinalDrain, Await, Panics,
                Close, Recover, Join, Leave, ReaderChecks, ReaderReads,
                HandleWS, ServerLeaves
  <2> QED BY <1>4, <1>5, <2>1

\* Nothing is counted at the start.
LEMMA InitAccounts == Init => Accounts
<1> SUFFICES ASSUME Init PROVE Accounts
  OBVIOUS
<1>1. <<>> \in Seq(1..scenario.messages) /\ Len(<<>>) = 0
  OBVIOUS
<1>2. /\ scenario \in Scenarios /\ scenario.messages \in Nat
      /\ scenario.interrupts \in Nat
      /\ FinalReads \in Nat \ {0}
  BY ScenariosAssumption, SizesAssumption DEF Init
<1>3. TypeOK
  <2>1. /\ toServer \in [Clients -> Seq(1..scenario.messages)]
        /\ toClient \in [Clients -> Seq(1..scenario.messages)]
    BY <1>1 DEF Init
  <2>2. /\ burst \in [Clients -> 0..BurstSize]
        /\ finalReads \in [Clients -> 0..FinalReads]
        /\ failedReads \in [Clients -> 0..PanicAfter]
        /\ written \in [Clients -> 0..scenario.messages]
        /\ beforeFailure \in [Clients -> 0..scenario.messages]
        /\ interrupts \in 0..scenario.interrupts
    BY <1>2, Sizes DEF Init
  <2>3. late \in [Clients -> BOOLEAN] /\ closed \in [Clients -> BOOLEAN]
    BY DEF Init
  <2>4. {interrupted, liveStats, signal} \subseteq BOOLEAN
    <3>1. liveStats \in BOOLEAN
      BY DEF Init
    <3>2. interrupted \in BOOLEAN /\ signal \in BOOLEAN
      BY DEF Init
    <3> QED BY <3>1, <3>2
  <2>5. /\ {sent, received, errors} \subseteq [Clients -> Nat]
        /\ results \in [{"sent", "received", "errors"} -> Nat]
    BY DEF Init
  <2> QED BY <1>2, <2>1, <2>2, <2>3, <2>4, <2>5 DEF Init, TypeOK
<1>4. \A c \in Clients : Sums(c)
  BY <1>1, <1>2 DEF Init, Sums
<1>5. Reported
  BY DEF Init, Reported
<1> QED BY <1>3, <1>4, <1>5 DEF Accounts

(* The accounts are right in every state of every test, with the bounds of *)
(* all counters.                                                           *)
THEOREM AccountsHold == Spec => []Accounts
<1>1. IInv /\ Accounts /\ [Next]_vars => Accounts'
  BY TypesKept, NextSums, NextReported DEF Accounts
<1> QED BY <1>1, InitAccounts, InductiveInvariant, PTL DEF Spec

(* Every variable has its type, and every counter its bound: bursts and    *)
(* drains do not run over, and a connection is not read after the read     *)
(* that panics.                                                            *)
THEOREM TypeCorrect == Spec => []TypeOK
<1>1. Accounts => TypeOK
  BY DEF Accounts
<1> QED BY <1>1, AccountsHold, PTL

(* main reads the counters one after the other while the readers of echo   *)
(* clients go on, and still prints no more received than sent.             *)
THEOREM NoNegativeLoss == Spec => []LossNotNegative
<1>1. Accounts => LossNotNegative
  BY DEF Accounts, Reported, LossNotNegative
<1> QED BY <1>1, AccountsHold, PTL

(* Each client that ended before its deadline, because a dial or a write   *)
(* failed or its reads panicked, is among the errors that main prints.     *)
THEOREM EarlyEndsPrinted == Spec => []EarlyEndsCounted
<1>1. ASSUME Accounts, mainPc = "printed", ~interrupted
      PROVE  results.errors >= Cardinality({c \in scenario.clients : ~late[c]})
  <2> DEFINE early == {c \in scenario.clients : ~late[c]}
  <2>1. /\ \A c \in scenario.clients : pc[c] = "done"
        /\ results.errors = Total(errors)
    BY <1>1 DEF Accounts, Reported
  <2>2. TypeOK /\ \A c \in Clients : Sums(c)
    BY <1>1 DEF Accounts
  <2>3. early \in SUBSET Clients /\ \A c \in early : errors[c] >= 1
    BY <2>1, <2>2, CounterTypes DEF Sums
  <2>4. errors \in [Clients -> Nat] /\ Total(errors) \in Nat
    BY <2>2, CounterTypes, TotalType
  <2> HIDE DEF early
  <2>5. IsFiniteSet(early) /\ Cardinality(early) <= Total(errors)
    BY <2>3, <2>4, SumOfPositive, ClientsAssumption, FS_Subset DEF Total, Sum
  <2>6. Cardinality(early) \in Nat
    BY <2>5, FS_CardinalityType
  <2> QED BY <2>1, <2>4, <2>5, <2>6 DEF early
<1>2. Accounts => EarlyEndsCounted
  BY <1>1 DEF EarlyEndsCounted
<1> QED BY <1>2, AccountsHold, PTL
===============================================================================
