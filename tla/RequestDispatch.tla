---------------------------- MODULE RequestDispatch ----------------------------
(***************************************************************************)
(* The inbound half of backend.TCPServer: what the backends send, from the *)
(* handleConnection goroutine that reads it, through the channel           *)
(* PendingServerRequests, to the one HandleRequests goroutine, and back to *)
(* the NewSocketConnection call that waits for a response                  *)
(* (src/backend/services.go, src/backend/server.go).                       *)
(*                                                                         *)
(* Connections are accepted and die in BackendPool; here they are open     *)
(* from the start and each may fail once.  A connection request is never   *)
(* buffered (BackendPool), so its send succeeds on a connection or fails.  *)
(***************************************************************************)
EXTENDS Integers, Sequences, FiniteSets

CONSTANTS
    Conns,          \* the backend connections
    Requests,       \* the calls of NewSocketConnection, named by request_id
    Command,        \* any line that is not a response
    Nothing,        \* no line, no connection
    ChannelSize,    \* capacity of PendingServerRequests (256 in the code)
    MaxAnswers,     \* bound: responses the backends send to one request
    MaxCommands     \* bound: commands one connection sends

\* A line is known by its connection, its place there and what it says.
Lines == [conn : Conns, nr : Nat, what : Requests \cup {Command}]

ASSUME ChannelSizeAssumption == ChannelSize \in Nat \ {0}
ASSUME BoundsAssumption == MaxAnswers \in Nat /\ MaxCommands \in Nat
ASSUME DistinctAssumption ==
    /\ Command \notin Requests
    /\ Nothing \notin Conns \cup Requests \cup {Command}
    /\ Nothing \notin Lines

VARIABLES
    PendingResponses,       \* the request_ids that have a response channel
    responseCh,             \* how many responses are in that channel
    call,                   \* program counter of NewSocketConnection
    asked,                  \* the connection the request was written to
    answers,                \* history: responses read for a request
    reader,                 \* program counter of handleConnection
    line,                   \* the line handleConnection has read
    linesRead,              \* history: lines read from a connection
    PendingServerRequests,  \* the channel from the readers to the dispatcher
    dispatcher,             \* program counter of HandleRequests
    current,                \* the line HandleRequests is working on
    linesHandled,           \* history: lines HandleRequests is done with
    done                    \* s.done is closed

callVars == <<PendingResponses, call, asked>>
readVars == <<reader, line, linesRead, answers>>
dispatchVars == <<dispatcher, current, linesHandled>>
vars == <<callVars, responseCh, readVars, PendingServerRequests, dispatchVars,
          done>>

CallStates == {"idle", "sending", "waiting", "received", "failed",
               "returned", "error"}

TypeOK ==
    /\ PendingResponses \subseteq Requests
    /\ responseCh \in [Requests -> {0, 1}]
    /\ call \in [Requests -> CallStates]
    /\ asked \in [Requests -> Conns \cup {Nothing}]
    /\ answers \in [Requests -> Nat]
    /\ reader \in [Conns -> {"reading", "pushing", "gone"}]
    /\ line \in [Conns -> Lines \cup {Nothing}]
    /\ linesRead \in [Conns -> Nat]
    /\ PendingServerRequests \in Seq(Lines)
    /\ Len(PendingServerRequests) <= ChannelSize
    /\ dispatcher \in {"select", "lookup", "send", "acting", "exited"}
    /\ current \in Lines \cup {Nothing}
    /\ linesHandled \in [Conns -> Nat]
    /\ done \in BOOLEAN

Init ==
    /\ PendingResponses = {}
    /\ responseCh = [r \in Requests |-> 0]
    /\ call = [r \in Requests |-> "idle"]
    /\ asked = [r \in Requests |-> Nothing]
    /\ answers = [r \in Requests |-> 0]
    /\ reader = [c \in Conns |-> "reading"]
    /\ line = [c \in Conns |-> Nothing]
    /\ linesRead = [c \in Conns |-> 0]
    /\ PendingServerRequests = <<>>
    /\ dispatcher = "select"
    /\ current = Nothing
    /\ linesHandled = [c \in Conns |-> 0]
    /\ done = FALSE

-------------------------------------------------------------------------------
(***************************************************************************)
(* NewSocketConnection(r).                                                 *)
(***************************************************************************)
\* Mutant: the response channel is not registered before the request goes out.
CallStartsUnregistered(r) ==
    /\ call[r] = "idle"
    /\ call' = [call EXCEPT ![r] = "sending"]
    /\ UNCHANGED <<PendingResponses, asked, responseCh, readVars,
                   PendingServerRequests, dispatchVars, done>>

\* The response channel is registered under pendingMu.
CallStarts(r) ==
    /\ call[r] = "idle"
    /\ call' = [call EXCEPT ![r] = "sending"]
    /\ PendingResponses' = PendingResponses \cup {r}
    /\ UNCHANGED <<asked, responseCh, readVars, PendingServerRequests,
                   dispatchVars, done>>

\* sendMessage wrote the request to c, which may be answered from now on.
RequestSent(r, c) ==
    /\ call[r] = "sending"
    /\ reader[c] # "gone"
    /\ asked[r] = Nothing
    /\ asked' = [asked EXCEPT ![r] = c]
    /\ UNCHANGED <<PendingResponses, call, responseCh, readVars,
                   PendingServerRequests, dispatchVars, done>>

\* ... and returned nil, perhaps after the answer has come in.
SendReturns(r) ==
    /\ call[r] = "sending"
    /\ asked[r] # Nothing
    /\ call' = [call EXCEPT ![r] = "waiting"]
    /\ UNCHANGED <<PendingResponses, asked, responseCh, readVars,
                   PendingServerRequests, dispatchVars, done>>

\* sendMessage found no connection or could not write the whole request.
SendFails(r) ==
    /\ call[r] = "sending"
    /\ asked[r] = Nothing
    /\ call' = [call EXCEPT ![r] = "failed"]
    /\ UNCHANGED <<PendingResponses, asked, responseCh, readVars,
                   PendingServerRequests, dispatchVars, done>>

\* response := <-responseCh
ReceiveResponse(r) ==
    /\ call[r] = "waiting"
    /\ responseCh[r] > 0
    /\ responseCh' = [responseCh EXCEPT ![r] = @ - 1]
    /\ call' = [call EXCEPT ![r] = "received"]
    /\ UNCHANGED <<PendingResponses, asked, readVars, PendingServerRequests,
                   dispatchVars, done>>

\* Mutant: the error path does not unregister the response channel.
CallReturnsKeepingEntry(r) ==
    /\ call[r] \in {"received", "failed"}
    /\ PendingResponses' = IF call[r] = "received"
                           THEN PendingResponses \ {r} ELSE PendingResponses
    /\ call' = [call EXCEPT ![r] =
                  IF call[r] = "received" THEN "returned" ELSE "error"]
    /\ UNCHANGED <<asked, responseCh, readVars, PendingServerRequests,
                   dispatchVars, done>>

\* The response channel is unregistered under pendingMu; the call returns.
CallReturns(r) ==
    /\ call[r] \in {"received", "failed"}
    /\ PendingResponses' = PendingResponses \ {r}
    /\ call' = [call EXCEPT ![r] =
                  IF call[r] = "received" THEN "returned" ELSE "error"]
    /\ UNCHANGED <<asked, responseCh, readVars, PendingServerRequests,
                   dispatchVars, done>>

-------------------------------------------------------------------------------
(***************************************************************************)
(* handleConnection(c): read a line, push it, read the next.               *)
(***************************************************************************)
\* What a backend may send: an answer to what it was asked, or a command.
MaySend(c, what) ==
    \/ what \in Requests /\ asked[what] = c /\ answers[what] < MaxAnswers
    \/ what = Command /\ linesRead[c] < MaxCommands

ReadLine(c, what) ==
    /\ reader[c] = "reading"
    /\ MaySend(c, what)
    /\ reader' = [reader EXCEPT ![c] = "pushing"]
    /\ line' = [line EXCEPT ![c] =
                  [conn |-> c, nr |-> linesRead[c] + 1, what |-> what]]
    /\ linesRead' = [linesRead EXCEPT ![c] = @ + 1]
    /\ answers' = [r \in Requests |->
                     IF r = what THEN answers[r] + 1 ELSE answers[r]]
    /\ UNCHANGED <<callVars, responseCh, PendingServerRequests, dispatchVars,
                   done>>

\* Mutant: a line that finds the channel full is thrown away.
PushLineOrDrop(c) ==
    /\ reader[c] = "pushing"
    /\ PendingServerRequests' =
         IF Len(PendingServerRequests) < ChannelSize
         THEN Append(PendingServerRequests, line[c])
         ELSE PendingServerRequests
    /\ reader' = [reader EXCEPT ![c] = "reading"]
    /\ line' = [line EXCEPT ![c] = Nothing]
    /\ UNCHANGED <<linesRead, answers, callVars, responseCh, dispatchVars, done>>

PushLine(c) ==
    /\ reader[c] = "pushing"
    /\ Len(PendingServerRequests) < ChannelSize
    /\ PendingServerRequests' = Append(PendingServerRequests, line[c])
    /\ reader' = [reader EXCEPT ![c] = "reading"]
    /\ line' = [line EXCEPT ![c] = Nothing]
    /\ UNCHANGED <<linesRead, answers, callVars, responseCh, dispatchVars, done>>

\* The connection fails, or s.done is closed while waiting to push.
ReaderReturns(c) ==
    /\ reader[c] = "reading" \/ (reader[c] = "pushing" /\ done)
    /\ reader' = [reader EXCEPT ![c] = "gone"]
    /\ line' = [line EXCEPT ![c] = Nothing]
    /\ UNCHANGED <<linesRead, answers, callVars, responseCh,
                   PendingServerRequests, dispatchVars, done>>

-------------------------------------------------------------------------------
(***************************************************************************)
(* HandleRequests.                                                         *)
(***************************************************************************)
TakeLine ==
    /\ dispatcher = "select"
    /\ PendingServerRequests # <<>>
    /\ current' = Head(PendingServerRequests)
    /\ PendingServerRequests' = Tail(PendingServerRequests)
    /\ dispatcher' = IF current'.what = Command THEN "acting" ELSE "lookup"
    /\ UNCHANGED <<linesHandled, callVars, responseCh, readVars, done>>

Handled ==
    /\ dispatcher' = "select"
    /\ current' = Nothing
    /\ linesHandled' = [linesHandled EXCEPT ![current.conn] = @ + 1]

\* The channel is looked up under pendingMu and used after it is released.
LookupFinds ==
    /\ dispatcher = "lookup"
    /\ current.what \in PendingResponses
    /\ dispatcher' = "send"
    /\ UNCHANGED <<current, linesHandled, callVars, responseCh, readVars,
                   PendingServerRequests, done>>

LookupFindsNothing ==
    /\ dispatcher = "lookup"
    /\ current.what \notin PendingResponses
    /\ Handled
    /\ UNCHANGED <<callVars, responseCh, readVars, PendingServerRequests, done>>

\* Mutant: a send that does not wait for room.
AlwaysRoom(r) == r \in Requests

\* Mutant: an unbuffered channel, on which the caller must be receiving.
UnbufferedHasRoom(r) == call[r] = "waiting" /\ responseCh[r] = 0

\* make(chan BackendResponse, 1)
HasRoom(r) == responseCh[r] < 1

SendResponse ==
    /\ dispatcher = "send"
    /\ HasRoom(current.what)
    /\ responseCh' = [responseCh EXCEPT ![current.what] = @ + 1]
    /\ Handled
    /\ UNCHANGED <<callVars, readVars, PendingServerRequests, done>>

\* The command's action, which writes to WebSockets, returns.
ActionReturns ==
    /\ dispatcher = "acting"
    /\ Handled
    /\ UNCHANGED <<callVars, responseCh, readVars, PendingServerRequests, done>>

DispatcherExits ==
    /\ dispatcher = "select"
    /\ done
    /\ dispatcher' = "exited"
    /\ UNCHANGED <<current, linesHandled, callVars, responseCh, readVars,
                   PendingServerRequests, done>>

\* TCPServer.Stop, as far as this module's goroutines notice it.
Stop ==
    /\ ~done
    /\ done' = TRUE
    /\ UNCHANGED <<callVars, responseCh, readVars, PendingServerRequests,
                   dispatchVars>>

-------------------------------------------------------------------------------
NewSocketConnection(r) ==
    \/ CallStarts(r)
    \/ \E c \in Conns : RequestSent(r, c)
    \/ SendReturns(r)
    \/ SendFails(r)
    \/ ReceiveResponse(r)
    \/ CallReturns(r)

HandleConnection(c) ==
    \/ \E what \in Requests \cup {Command} : ReadLine(c, what)
    \/ PushLine(c)
    \/ ReaderReturns(c)

HandleRequests ==
    \/ TakeLine
    \/ LookupFinds
    \/ LookupFindsNothing
    \/ SendResponse
    \/ ActionReturns
    \/ DispatcherExits

Next ==
    \/ \E r \in Requests : NewSocketConnection(r)
    \/ \E c \in Conns : HandleConnection(c)
    \/ HandleRequests
    \/ Stop

Spec == Init /\ [][Next]_vars

(***************************************************************************)
(* A goroutine that can run runs.  Nothing is assumed of the backends      *)
(* (ReadLine, ReaderReturns), of the WebSocket clients (ActionReturns), of *)
(* new calls, or of Stop.  A reader that finds room in the channel whenever*)
(* it looks eventually gets in: Go queues the senders of a channel.        *)
(***************************************************************************)
Fairness ==
    /\ \A r \in Requests :
         WF_vars(SendReturns(r) \/ ReceiveResponse(r) \/ CallReturns(r))
    /\ \A c \in Conns : SF_vars(PushLine(c))
    /\ WF_vars(TakeLine \/ LookupFinds \/ LookupFindsNothing \/ SendResponse
                 \/ DispatcherExits)

FairSpec == Spec /\ Fairness

-------------------------------------------------------------------------------
(***************************************************************************)
(* Properties.                                                             *)
(***************************************************************************)
(* A response channel is registered exactly while its call is in progress: *)
(* no path out of NewSocketConnection leaks an entry, and none is missing  *)
(* when the answer comes, however fast it comes.                           *)
RegisteredWhileCalling ==
    PendingResponses =
      {r \in Requests : call[r] \in {"sending", "waiting", "received", "failed"}}

(* Every line a reader has read is handled once and in the order it was    *)
(* read: those that are under way, from the dispatcher back through the    *)
(* channel to the reader, are numbered upwards and are all those that were *)
(* read and not yet handled.  Only Stop makes a reader give up a line.     *)
UnderWay(c) == <<current>> \o PendingServerRequests \o <<line[c]>>
Comes(c, i) == UnderWay(c)[i] # Nothing /\ UnderWay(c)[i].conn = c
ToHandle(c) == linesHandled[c] + 1 .. linesRead[c]
LinesInOrder ==
    \A c \in Conns :
       /\ \A i, j \in DOMAIN UnderWay(c) :
             i < j /\ Comes(c, i) /\ Comes(c, j)
               => UnderWay(c)[i].nr < UnderWay(c)[j].nr
       /\ \A i \in DOMAIN UnderWay(c) :
             Comes(c, i) => UnderWay(c)[i].nr \in ToHandle(c)
       /\ \A n \in ToHandle(c) :
             \/ \E i \in DOMAIN UnderWay(c) : Comes(c, i) /\ UnderWay(c)[i].nr = n
             \/ done /\ reader[c] = "gone" /\ n = linesRead[c]

(* While no WebSocket write blocks for good, a response that reached the   *)
(* channel ends the call that waits for it, whatever the order of the      *)
(* registration, the send, the answer and a repeated answer.               *)
InChannel(r) == \E i \in DOMAIN PendingServerRequests :
                   PendingServerRequests[i].what = r
AnsweredCallsReturn ==
    []<>(dispatcher # "acting") =>
      \A r \in Requests :
         (InChannel(r) /\ call[r] \in {"sending", "waiting"})
            ~> (call[r] = "returned" \/ done)

(* A second response to the same request does not stop the dispatcher: the *)
(* channel's one place takes it, or the caller is about to make room.      *)
DispatcherNotStuck == []<>(dispatcher # "send")

(* "Stop gracefully shuts down the TCP server" (server.go:100): a call of  *)
(* NewSocketConnection in progress comes to an end.                        *)
CallsEndAfterStop ==
    \A r \in Requests :
       (done /\ call[r] = "waiting") ~> call[r] \in {"returned", "error"}
===============================================================================
