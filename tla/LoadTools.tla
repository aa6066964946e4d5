------------------------------- MODULE LoadTools -------------------------------
(***************************************************************************)
(* The load generators, cmd/loadtest and cmd/perftest, against the echo    *)
(* server of cmd/echoserver: clients that send and receive until their     *)
(* deadline, the counters they share, and main, which prints the counters  *)
(* when all clients are done or the user interrupts it.                    *)
(*                                                                         *)
(* Five kinds of client, one kind in a behaviour: "blast" and "sequential" *)
(* of loadtest, "echo" and "pingpong" of perftest, and perftest's "blast", *)
(* called "flood" here.  A message is its number among those of its        *)
(* client.  Durations are left out: a deadline passes at some time.        *)
(***************************************************************************)
EXTENDS Integers, Sequences, SequencesExt, FiniteSets, Functions

CONSTANTS
    Clients,        \* the clients of the test: as many as a flag says
    BurstSize,      \* messages of a burst of "blast" (10 in the code)
    FinalReads,     \* reads of its final drain (100 in the code)
    PanicAfter,     \* failing reads before gorilla/websocket panics (1000)
    Scenarios       \* bound: the tests to look at

AllModes == {"blast", "sequential", "echo", "pingpong", "flood"}

(***************************************************************************)
(* A scenario is a kind of client, which clients there are, and two        *)
(* bounds: the messages of a client, and how often the user presses Ctrl+C.*)
(***************************************************************************)
ASSUME ScenariosAssumption ==
    Scenarios \subseteq [mode : AllModes, clients : SUBSET Clients,
                         messages : Nat, interrupts : Nat]
ASSUME ClientsAssumption == IsFiniteSet(Clients)
ASSUME SizesAssumption == {BurstSize, FinalReads, PanicAfter} \subseteq Nat \ {0}

VARIABLES
    scenario,       \* the scenario of this behaviour
    pc,             \* program counter of a client
    late,           \* time.Now() is not before the client's deadline
    burst,          \* blast: i, the messages of this burst so far
    finalReads,     \* blast: i, the reads of the final drain so far
    closed,         \* echo: closed
    reader,         \* echo: program counter of the reader goroutine
    link,           \* the connection: "none", "up" or "down"
    toServer,       \* what the server has not read
    toClient,       \* what the client has not read
    failedReads,    \* conn.readErrCount
    written,        \* the number of messages written
    beforeFailure,  \* history: written at the first failing read
    sent, received, errors,     \* stats, by client
    mainPc,         \* program counter of main
    results,        \* what main prints
    interrupted,    \* main was interrupted
    liveStats,      \* perftest's live printer is waiting for a signal
    signal,         \* sigChan holds a signal
    interrupts      \* how often the user has pressed Ctrl+C

statsVars == <<sent, received, errors>>
connVars == <<link, toServer, toClient, failedReads, beforeFailure>>
clientVars == <<scenario, pc, late, burst, finalReads, closed, reader, written>>
mainVars == <<mainPc, results, interrupted, liveStats, signal, interrupts>>
vars == <<clientVars, connVars, statsVars, mainVars>>

-------------------------------------------------------------------------------
mode == scenario.mode

Total(counter) == FoldFunction(+, 0, counter)

TypeOK ==
    /\ scenario \in Scenarios
    /\ pc \in [Clients -> {"dialing", "looping", "sending", "counting",
                           "draining", "awaiting", "finishing", "joining",
                           "closing", "panicking", "recovering", "leaving",
                           "done"}]
    /\ late \in [Clients -> BOOLEAN]
    /\ burst \in [Clients -> 0..BurstSize]
    /\ finalReads \in [Clients -> 0..FinalReads]
    /\ closed \in [Clients -> BOOLEAN]
    /\ reader \in [Clients -> {"none", "checking", "reading", "ended"}]
    /\ link \in [Clients -> {"none", "up", "down"}]
    /\ toServer \in [Clients -> Seq(1..scenario.messages)]
    /\ toClient \in [Clients -> Seq(1..scenario.messages)]
    /\ failedReads \in [Clients -> 0..PanicAfter]
    /\ written \in [Clients -> 0..scenario.messages]
    /\ beforeFailure \in [Clients -> 0..scenario.messages]
    /\ {sent, received, errors} \subseteq [Clients -> Nat]
    /\ mainPc \in {"waiting", "received", "errors", "printed"}
    /\ results \in [{"sent", "received", "errors"} -> Nat]
    /\ {interrupted, liveStats, signal} \subseteq BOOLEAN
    /\ interrupts \in 0..scenario.interrupts

(* main has started its clients, has counted them in wg, and waits.        *)
Init ==
    /\ scenario \in Scenarios
    /\ pc = [c \in Clients |-> "dialing"]
    /\ late = [c \in Clients |-> FALSE]
    /\ burst = [c \in Clients |-> 0] /\ finalReads = [c \in Clients |-> 0]
    /\ closed = [c \in Clients |-> FALSE]
    /\ reader = [c \in Clients |-> "none"]
    /\ link = [c \in Clients |-> "none"]
    /\ toServer = [c \in Clients |-> <<>>]
    /\ toClient = [c \in Clients |-> <<>>]
    /\ failedReads = [c \in Clients |-> 0]
    /\ written = [c \in Clients |-> 0]
    /\ beforeFailure = [c \in Clients |-> 0]
    /\ sent = [c \in Clients |-> 0]
    /\ received = [c \in Clients |-> 0]
    /\ errors = [c \in Clients |-> 0]
    /\ mainPc = "waiting"
    /\ results = [r \in {"sent", "received", "errors"} |-> 0]
    /\ interrupted = FALSE
    /\ liveStats = (mode \in {"echo", "pingpong", "flood"})
    /\ signal = FALSE /\ interrupts = 0

Goto(c, l) == pc' = [pc EXCEPT ![c] = l]
Counts(counter, c) == counter' = [counter EXCEPT ![c] = @ + 1]

-------------------------------------------------------------------------------
(***************************************************************************)
(* Dialing, and the deadline that is set once the connection is there.     *)
(***************************************************************************)
Dial(c) ==
    /\ pc[c] = "dialing"
    /\ link' = [link EXCEPT ![c] = "up"]
    /\ reader' = [reader EXCEPT ![c] = IF mode = "echo" THEN "checking" ELSE @]
    /\ Goto(c, IF mode = "blast" THEN "looping" ELSE "sending")
    /\ UNCHANGED <<scenario, late, burst, finalReads, closed, written>>
    /\ UNCHANGED <<toServer, toClient, failedReads, beforeFailure>>
    /\ UNCHANGED <<statsVars, mainVars>>

DialFails(c) ==
    /\ pc[c] = "dialing"
    /\ Counts(errors, c)
    /\ Goto(c, "leaving")
    /\ UNCHANGED <<scenario, late, burst, finalReads, closed, reader, written>>
    /\ UNCHANGED <<connVars, sent, received, mainVars>>

DeadlinePasses(c) ==
    /\ pc[c] \notin {"dialing", "leaving", "done"}
    /\ ~late[c]
    /\ late' = [late EXCEPT ![c] = TRUE]
    /\ UNCHANGED <<scenario, pc, burst, finalReads, closed, reader, written>>
    /\ UNCHANGED <<connVars, statsVars, mainVars>>

-------------------------------------------------------------------------------
(***************************************************************************)
(* Sending: a message is written, then counted.  A blast client looks at   *)
(* the clock before each burst, too.                                       *)
(***************************************************************************)
NextBurst(c) ==
    /\ pc[c] = "looping"
    /\ Goto(c, IF late[c] THEN "finishing" ELSE "sending")
    /\ UNCHANGED <<scenario, late, burst, finalReads, closed, reader, written>>
    /\ UNCHANGED <<connVars, statsVars, mainVars>>

Write(c) ==
    /\ pc[c] = "sending" /\ ~late[c]
    /\ link[c] = "up"
    /\ written[c] < scenario.messages
    /\ written' = [written EXCEPT ![c] = @ + 1]
    /\ toServer' = [toServer EXCEPT ![c] = Append(@, written[c] + 1)]
    /\ Goto(c, "counting")
    /\ UNCHANGED <<scenario, late, burst, finalReads, closed, reader>>
    /\ UNCHANGED <<link, toClient, failedReads, beforeFailure>>
    /\ UNCHANGED <<statsVars, mainVars>>

\* What comes after the sending loop.
AfterSending == IF mode = "echo" THEN "joining" ELSE "closing"

\* An echo client closes its connection when it stops sending.
StopsSending(c, l) ==
    /\ Goto(c, l)
    /\ closed' = [closed EXCEPT ![c] = mode = "echo"]
    /\ link' = [link EXCEPT ![c] = IF mode = "echo" THEN "down" ELSE @]

\* The write deadline passes or the connection is gone: the client returns
\* or leaves its loop.
WriteFails(c) ==
    /\ pc[c] = "sending" /\ ~late[c]
    /\ Counts(errors, c)
    /\ StopsSending(c, AfterSending)
    /\ UNCHANGED <<scenario, late, burst, finalReads, reader, written>>
    /\ UNCHANGED <<toServer, toClient, failedReads, beforeFailure>>
    /\ UNCHANGED <<sent, received, mainVars>>

\* Where a client goes on when it has sent a message.
AfterMessage(c) ==
    CASE mode = "blast" -> IF burst[c] + 1 < BurstSize THEN "sending"
                                                       ELSE "draining"
      [] mode \in {"sequential", "pingpong"} -> "awaiting"
      [] OTHER -> "sending"

\* Mutant: a message that took until the deadline is not counted.
CountUnlessLate(c) ==
    /\ pc[c] = "counting"
    /\ sent' = [sent EXCEPT ![c] = IF late[c] THEN @ ELSE @ + 1]
    /\ burst' = [burst EXCEPT ![c] = IF mode = "blast" THEN @ + 1 ELSE @]
    /\ Goto(c, AfterMessage(c))
    /\ UNCHANGED <<scenario, late, finalReads, closed, reader, written>>
    /\ UNCHANGED <<connVars, received, errors, mainVars>>

Count(c) ==
    /\ pc[c] = "counting"
    /\ Counts(sent, c)
    /\ burst' = [burst EXCEPT ![c] = IF mode = "blast" THEN @ + 1 ELSE @]
    /\ Goto(c, AfterMessage(c))
    /\ UNCHANGED <<scenario, late, finalReads, closed, reader, written>>
    /\ UNCHANGED <<connVars, received, errors, mainVars>>

\* The deadline ends a burst, perhaps an empty one, which is drained; or the
\* loop.
SeesDeadline(c) ==
    /\ pc[c] = "sending" /\ late[c]
    /\ StopsSending(c, IF mode = "blast" THEN "draining" ELSE AfterSending)
    /\ UNCHANGED <<scenario, late, burst, finalReads, reader, written>>
    /\ UNCHANGED <<toServer, toClient, failedReads, beforeFailure>>
    /\ UNCHANGED <<statsVars, mainVars>>

-------------------------------------------------------------------------------
(***************************************************************************)
(* conn.ReadMessage.  The error of a failing read, be it a deadline, is    *)
(* permanent: every later read fails, and in the end panics.               *)
(***************************************************************************)
Receives(c) ==
    /\ failedReads[c] = 0
    /\ toClient[c] # <<>>
    /\ toClient' = [toClient EXCEPT ![c] = Tail(@)]
    /\ Counts(received, c)
    /\ UNCHANGED <<link, toServer, failedReads, beforeFailure>>

\* Mutant: reading goes on after a deadline.
ReadTimesOut(c) ==
    /\ failedReads[c] + 1 < PanicAfter
    /\ UNCHANGED connVars

Fails(c) ==
    /\ failedReads' = [failedReads EXCEPT ![c] = @ + 1]
    /\ beforeFailure' = [beforeFailure EXCEPT
                           ![c] = IF failedReads[c] = 0 THEN written[c] ELSE @]
    /\ UNCHANGED <<link, toServer, toClient>>

ReadFails(c) == failedReads[c] + 1 < PanicAfter /\ Fails(c)
ReadPanics(c) == failedReads[c] + 1 = PanicAfter /\ Fails(c)

(***************************************************************************)
(* A client's own reads: the drains of blast, the answer of the strict     *)
(* clients.                                                                *)
(***************************************************************************)
\* Mutant: a client whose reads fail sends without reading.
DrainUnlessFailed(c) ==
    /\ pc[c] = "draining"
    /\ \/ Receives(c) /\ UNCHANGED <<pc, burst>>
       \/ /\ \/ failedReads[c] = 0 /\ ReadFails(c)
             \/ failedReads[c] > 0 /\ UNCHANGED connVars
          /\ burst' = [burst EXCEPT ![c] = 0]
          /\ Goto(c, "looping")
          /\ UNCHANGED received
    /\ UNCHANGED <<scenario, late, finalReads, closed, reader, written>>
    /\ UNCHANGED <<sent, errors, mainVars>>

\* Mutant: the count of a burst goes on in the next one.
DrainKeepsBurst(c) ==
    /\ pc[c] = "draining"
    /\ \/ Receives(c) /\ UNCHANGED pc
       \/ ReadFails(c) /\ Goto(c, "looping") /\ UNCHANGED received
    /\ UNCHANGED <<scenario, late, burst, finalReads, closed, reader, written>>
    /\ UNCHANGED <<sent, errors, mainVars>>

Drain(c) ==
    /\ pc[c] = "draining"
    /\ \/ Receives(c) /\ UNCHANGED <<pc, burst>>
       \/ /\ ReadFails(c)
          /\ burst' = [burst EXCEPT ![c] = 0]
          /\ Goto(c, "looping")
          /\ UNCHANGED received
    /\ UNCHANGED <<scenario, late, finalReads, closed, reader, written>>
    /\ UNCHANGED <<sent, errors, mainVars>>

FinalDrain(c) ==
    /\ pc[c] = "finishing"
    /\ \/ /\ Receives(c)
          /\ finalReads' = [finalReads EXCEPT ![c] = @ + 1]
          /\ Goto(c, IF finalReads[c] + 1 = FinalReads THEN "closing"
                                                       ELSE "finishing")
       \/ ReadFails(c) /\ Goto(c, "closing") /\ UNCHANGED <<received, finalReads>>
    /\ UNCHANGED <<scenario, late, burst, closed, reader, written>>
    /\ UNCHANGED <<sent, errors, mainVars>>

\* pingpong counts an error, sequential does not.
Await(c) ==
    /\ pc[c] = "awaiting"
    /\ \/ Receives(c) /\ UNCHANGED errors
       \/ /\ ReadFails(c)
          /\ IF mode = "pingpong" THEN Counts(errors, c) ELSE UNCHANGED errors
          /\ UNCHANGED received
    /\ Goto(c, "sending")
    /\ UNCHANGED <<scenario, late, burst, finalReads, closed, reader, written>>
    /\ UNCHANGED <<sent, mainVars>>

Panics(c) ==
    /\ pc[c] \in {"draining", "awaiting", "finishing"}
    /\ ReadPanics(c)
    /\ Goto(c, "panicking")
    /\ UNCHANGED <<scenario, late, burst, finalReads, closed, reader, written>>
    /\ UNCHANGED <<statsVars, mainVars>>

(***************************************************************************)
(* The deferred functions, the last deferred first: conn.Close, recover,   *)
(* wg.Done.  Without a panic, recover does nothing.                        *)
(***************************************************************************)
Close(c) ==
    /\ \/ pc[c] = "closing" /\ Goto(c, "leaving")
       \/ pc[c] = "panicking" /\ Goto(c, "recovering")
    /\ link' = [link EXCEPT ![c] = "down"]
    /\ UNCHANGED <<scenario, late, burst, finalReads, closed, reader, written>>
    /\ UNCHANGED <<toServer, toClient, failedReads, beforeFailure>>
    /\ UNCHANGED <<statsVars, mainVars>>

\* Mutant: wg.Done is deferred last, and done first.
RecoverAfterDone(c) ==
    /\ pc[c] = "recovering"
    /\ Goto(c, "done")
    /\ UNCHANGED <<scenario, late, burst, finalReads, closed, reader, written>>
    /\ UNCHANGED <<connVars, statsVars, mainVars>>

\* recover
Recover(c) ==
    /\ pc[c] = "recovering"
    /\ Counts(errors, c)
    /\ Goto(c, "leaving")
    /\ UNCHANGED <<scenario, late, burst, finalReads, closed, reader, written>>
    /\ UNCHANGED <<connVars, sent, received, mainVars>>

\* Mutant: wg.Done is not deferred, and a panic leaves it out.
LeaveUnlessPanicked(c) ==
    /\ pc[c] = "leaving"
    /\ failedReads[c] < PanicAfter
    /\ Goto(c, "done")
    /\ UNCHANGED <<scenario, late, burst, finalReads, closed, reader, written>>
    /\ UNCHANGED <<connVars, statsVars, mainVars>>

\* wg.Done
Leave(c) ==
    /\ pc[c] = "leaving"
    /\ Goto(c, "done")
    /\ UNCHANGED <<scenario, late, burst, finalReads, closed, reader, written>>
    /\ UNCHANGED <<connVars, statsVars, mainVars>>

-------------------------------------------------------------------------------
(***************************************************************************)
(* The reader goroutine of an echo client, for which the client waits, but *)
(* not for ever.                                                           *)
(***************************************************************************)
ReaderGoto(c, l) == reader' = [reader EXCEPT ![c] = l]

ReaderChecks(c) ==
    /\ reader[c] = "checking"
    /\ ReaderGoto(c, IF closed[c] THEN "ended" ELSE "reading")
    /\ UNCHANGED <<scenario, pc, late, burst, finalReads, closed, written>>
    /\ UNCHANGED <<connVars, statsVars, mainVars>>

\* A failing read is retried until the end; a panic ends the goroutine.
ReaderReads(c) ==
    /\ reader[c] = "reading"
    /\ \/ Receives(c) /\ ReaderGoto(c, "checking")
       \/ /\ ReadFails(c)
          /\ ReaderGoto(c, IF closed[c] \/ late[c] THEN "ended" ELSE "checking")
          /\ UNCHANGED received
       \/ ReadPanics(c) /\ ReaderGoto(c, "ended") /\ UNCHANGED received
    /\ UNCHANGED <<scenario, pc, late, burst, finalReads, closed, written>>
    /\ UNCHANGED <<sent, errors, mainVars>>

\* recvDone is closed, or 300 milliseconds have passed.
Join(c) ==
    /\ pc[c] = "joining"
    /\ Goto(c, "leaving")
    /\ UNCHANGED <<scenario, late, burst, finalReads, closed, reader, written>>
    /\ UNCHANGED <<connVars, statsVars, mainVars>>

-------------------------------------------------------------------------------
(***************************************************************************)
(* handleWS of the echo server.  It ends when a read or a write fails, or  *)
(* with its process.                                                       *)
(***************************************************************************)
HandleWS(c) ==
    /\ link[c] = "up"
    /\ toServer[c] # <<>>
    /\ toServer' = [toServer EXCEPT ![c] = Tail(@)]
    /\ toClient' = [toClient EXCEPT ![c] = Append(@, Head(toServer[c]))]
    /\ UNCHANGED <<link, failedReads, beforeFailure>>
    /\ UNCHANGED <<clientVars, statsVars, mainVars>>

ServerLeaves(c) ==
    /\ link[c] = "up"
    /\ link' = [link EXCEPT ![c] = "down"]
    /\ UNCHANGED <<toServer, toClient, failedReads, beforeFailure>>
    /\ UNCHANGED <<clientVars, statsVars, mainVars>>

-------------------------------------------------------------------------------
(***************************************************************************)
(* main, the live printer of perftest, which also receives from sigChan,   *)
(* and the user.  (The live printer of loadtest changes nothing.)          *)
(***************************************************************************)
Interrupt ==
    /\ interrupts < scenario.interrupts
    /\ interrupts' = interrupts + 1
    /\ signal' = TRUE
    /\ UNCHANGED <<clientVars, connVars, statsVars>>
    /\ UNCHANGED <<mainPc, results, interrupted, liveStats>>

LiveStatsEnds ==
    /\ signal /\ liveStats
    /\ signal' = FALSE /\ liveStats' = FALSE
    /\ UNCHANGED <<clientVars, connVars, statsVars>>
    /\ UNCHANGED <<mainPc, results, interrupted, interrupts>>

\* The sum of a counter goes into the results.
Prints(r, counter, l) ==
    /\ results' = [results EXCEPT ![r] = Total(counter)]
    /\ mainPc' = l
    /\ UNCHANGED <<clientVars, connVars, statsVars, liveStats, interrupts>>

ClientsDone ==
    /\ mainPc = "waiting"
    /\ \A c \in scenario.clients : pc[c] = "done"
    /\ Prints("sent", sent, "received")
    /\ UNCHANGED <<signal, interrupted>>

Interrupted ==
    /\ mainPc = "waiting"
    /\ signal
    /\ signal' = FALSE /\ interrupted' = TRUE
    /\ Prints("sent", sent, "received")

PrintReceived ==
    /\ mainPc = "received"
    /\ Prints("received", received, "errors")
    /\ UNCHANGED <<signal, interrupted>>

PrintErrors ==
    /\ mainPc = "errors"
    /\ Prints("errors", errors, "printed")
    /\ UNCHANGED <<signal, interrupted>>

-------------------------------------------------------------------------------
Client(c) ==
    \/ NextBurst(c)
    \/ Write(c) \/ WriteFails(c) \/ Count(c) \/ SeesDeadline(c)
    \/ Drain(c) \/ FinalDrain(c) \/ Await(c)
    \/ Panics(c) \/ Join(c) \/ Close(c) \/ Recover(c) \/ Leave(c)

Reader(c) == ReaderChecks(c) \/ ReaderReads(c)

Main == ClientsDone \/ Interrupted \/ PrintReceived \/ PrintErrors

\* main returns when it has printed, and with it everything ends.
Next ==
    /\ mainPc # "printed"
    /\ \/ Main \/ LiveStatsEnds \/ Interrupt
       \/ \E c \in scenario.clients :
            \/ Dial(c) \/ DialFails(c) \/ DeadlinePasses(c)
            \/ Client(c) \/ Reader(c)
            \/ HandleWS(c) \/ ServerLeaves(c)

Spec == Init /\ [][Next]_vars

(***************************************************************************)
(* What can run runs: every read and write has a deadline.  Time passes.   *)
(* Dial has no deadline, and no fairness; neither have the server and the  *)
(* user.                                                                   *)
(***************************************************************************)
Fairness ==
    /\ WF_vars(Main)
    /\ \A c \in Clients :
         /\ WF_vars(c \in scenario.clients /\ mainPc # "printed" /\ Client(c))
         /\ WF_vars(c \in scenario.clients /\ mainPc # "printed" /\ Reader(c))
         /\ WF_vars(/\ c \in scenario.clients /\ mainPc # "printed"
                    /\ DeadlinePasses(c))

FairSpec == Spec /\ Fairness

-------------------------------------------------------------------------------
(***************************************************************************)
(* Properties.                                                             *)
(***************************************************************************)

(* The loss that is printed is not negative, though the counters are read  *)
(* one after the other while readers of echo clients still add to them;    *)
(* unless main was interrupted among clients at work.                      *)
LossNotNegative ==
    mainPc = "printed" /\ ~interrupted => results.received <= results.sent

(* "Strict ping-pong": the answer that a client counts, and whose age it   *)
(* takes for the latency, is the one to the message it sent last, also     *)
(* when an earlier answer came too late.                                   *)
StrictPingPong ==
    [][\A c \in Clients :
          mode \in {"pingpong", "sequential"} /\ received'[c] # received[c] =>
             Head(toClient[c]) = written[c]]_vars

(* A client that ended before its deadline is among the errors printed.    *)
EarlyEndsCounted ==
    mainPc = "printed" /\ ~interrupted =>
       results.errors >= Cardinality({c \in scenario.clients : ~late[c]})

(* A client whose reads fail does not send on for ever: the panic of its   *)
(* failing reads ends it.  (An echo client does, and a flood client never  *)
(* reads.)                                                                 *)
FloodBounded ==
    \A c \in Clients :
       mode \in {"blast", "sequential", "pingpong"} /\ failedReads[c] > 0 =>
          written[c] - beforeFailure[c]
             <= (PanicAfter - 1) * (IF mode = "blast" THEN BurstSize ELSE 1)

(* The results are printed in the end, whatever connections and reads do   *)
(* and whoever takes the signals, unless some Dial never returns.          *)
Finishes ==
    <>(mainPc = "printed") \/ <>[](\E c \in scenario.clients : pc[c] = "dialing")
===============================================================================
