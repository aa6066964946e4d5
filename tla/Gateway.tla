-------------------------------- MODULE Gateway --------------------------------
(***************************************************************************)
(* The gateway from end to end: WebSocket clients, the bridge that ties    *)
(* client.WebSocketServer to backend.TCPServer (src/bridge/bridge.go), its *)
(* configuration (src/config/config.go), main (src/main.go), and on the    *)
(* other side the backends of cmd/echo-backend.                            *)
(*                                                                         *)
(* What the other modules show is used here and not repeated.  sendMessage *)
(* and enqueue are one step (BackendPool has their interleavings).  What a *)
(* backend sends reaches the dispatcher in its order, nothing twice        *)
(* (RequestDispatch), so the socket and the channel are one queue.  There  *)
(* is one room, the one echo-backend names (WebSocketServer has several).  *)
(***************************************************************************)
EXTENDS Integers, Sequences, SequencesExt

CONSTANTS
    Conns,          \* the WebSocket connections that may ever be made
    Backends,       \* the connections echo-backend may ever make
    Messages,       \* what the clients may send, each at most once
    Unset, Garbage, \* an environment variable not set, or not a number
    None,           \* no message, no client_id, nothing
    Scenarios       \* bound: the ways in which the system may be set up

(***************************************************************************)
(* A scenario says which connections and messages there are, the value of  *)
(* -queue-size and of PYSTRAND_QUEUE_SIZE, and whether the gateway may be  *)
(* interrupted.                                                            *)
(***************************************************************************)
ASSUME ScenariosAssumption ==
    Scenarios \subseteq [conns : SUBSET Conns, backends : SUBSET Backends,
                         messages : SUBSET Messages, flag : Int,
                         env : Int \cup {Unset, Garbage}, mayStop : BOOLEAN]
ASSUME DistinctAssumption ==
    /\ Unset \notin Int /\ Garbage \notin Int /\ Unset # Garbage
    /\ None \notin Conns \cup Messages \cup (Backends \X Nat)

VARIABLES
    scenario,       \* the scenario of this behaviour
    startPc,        \* program counter of Bridge.Start
    stopPc,         \* program counter of main and Bridge.Stop
    listening,      \* the TCP listener is open
    serving,        \* the HTTP server is open
    pool,           \* the backends in TCPServer.Clients
    link,           \* a backend's connection
    toBackend,      \* what has been written to a backend and not read
    fromBackend,    \* what a backend has sent and the dispatcher not taken
    clientCounter,  \* echo-backend's count of the clients it accepted
    messageQueue,   \* TCPServer.messageQueue
    toFlush,        \* backends whose flushQueue has not looked at the queue
    batch,          \* what a backend's flushQueue has still to send
    pc,             \* program counter of a client's HandleConnection
    answer,         \* the client_id the backend answered with
    id,             \* the ClientID of a connection
    victim,         \* handleDisconnect's cc
    socket,         \* "none", "open", "gone" (by the peer), "closed" (by us)
    clients,        \* WebSocketServer.clients
    writing,        \* the message the dispatcher is writing, and to whom
    said,           \* history: the messages read from a client
    received,       \* history: the events a backend has read
    delivered,      \* history: the messages written to clients, in order
    lost,           \* history: what no backend will read and nobody still holds
    buffered        \* history: some event has been in messageQueue

bridgeVars == <<scenario, startPc, stopPc, listening, serving>>
backendVars == <<fromBackend, clientCounter, received>>
flushVars == <<toFlush, batch>>
sendVars == <<toBackend, messageQueue, lost, buffered>>
clientVars == <<pc, answer, id, victim, socket, clients, said>>
dispatchVars == <<writing, delivered>>
vars == <<bridgeVars, pool, link, backendVars, flushVars, sendVars, clientVars,
          dispatchVars>>

-------------------------------------------------------------------------------
(***************************************************************************)
(* LoadConfig.  Of the three settings, which are read alike, only the size *)
(* of the queue tells runs of the gateway apart.                           *)
(***************************************************************************)
DefaultQueueSize == 1000

LoadConfig(env, flag) ==
    CASE env = Unset   -> flag
      [] env = Garbage -> DefaultQueueSize
      [] OTHER         -> env

queueSize == LoadConfig(scenario.env, scenario.flag)

\* A client_id names the backend and its count. (The backends of one
\* echo-backend have names of their own; a second one would repeat them, for
\* which see IdsReused in WebSocketServer.)
ClientId(b, n) == <<b, n>>
ClientIds == Backends \X Nat

Event(action, h, m) == [action |-> action, client |-> h, message |-> m]
Requests == [action : {"connection_request"}, client : Conns, message : {None}]
Events == [action : {"new_message"}, client : Conns, message : Messages]
            \cup [action : {"new_connection", "disconnected", "error"},
                  client : Conns, message : {None}]
Lines == [action : {"response"}, client : Conns, id : ClientIds]
           \cup [action : {"message_to_connection"}, message : Messages,
                 id : ClientIds \cup {None}]
Writes == [message : Messages, to : Conns, via : Backends]

TypeOK ==
    /\ scenario \in Scenarios
    /\ startPc \in {"backend", "websocket", "returned"}
    /\ stopPc \in {"running", "websocket", "returned"}
    /\ listening \in BOOLEAN /\ serving \in BOOLEAN
    /\ pool \subseteq Backends
    /\ link \in [Backends -> {"none", "up", "gone", "closed"}]
    /\ toBackend \in [Backends -> Seq(Events \cup Requests)]
    /\ fromBackend \in [Backends -> Seq(Lines)]
    /\ clientCounter \in [Backends -> Nat]
    /\ messageQueue \in Seq(Events)
    /\ toFlush \subseteq Backends
    /\ batch \in [Backends -> Seq(Events)]
    /\ pc \in [Conns -> {"idle", "waiting", "refused", "announcing", "reading",
                         "reporting", "returned", "panicked"}]
    /\ answer \in [Conns -> ClientIds \cup {None}]
    /\ id \in [Conns -> ClientIds \cup {None}]
    /\ victim \in [Conns -> Conns \cup {None}]
    /\ socket \in [Conns -> {"none", "open", "gone", "closed"}]
    /\ clients \subseteq Conns
    /\ writing \in Writes \cup {None}
    /\ said \in [Conns -> Seq(Messages)]
    /\ received \in [Backends -> Seq(Events \cup Requests)]
    /\ delivered \in Seq(Writes)
    /\ lost \subseteq Events \cup Requests
    /\ buffered \in BOOLEAN

Init ==
    /\ scenario \in Scenarios
    /\ startPc = "backend" /\ stopPc = "running"
    /\ listening = FALSE /\ serving = FALSE
    /\ pool = {}
    /\ link = [b \in Backends |-> "none"]
    /\ toBackend = [b \in Backends |-> <<>>]
    /\ fromBackend = [b \in Backends |-> <<>>]
    /\ clientCounter = [b \in Backends |-> 0]
    /\ messageQueue = <<>> /\ toFlush = {}
    /\ batch = [b \in Backends |-> <<>>]
    /\ pc = [h \in Conns |-> "idle"]
    /\ answer = [h \in Conns |-> None] /\ id = [h \in Conns |-> None]
    /\ victim = [h \in Conns |-> None]
    /\ socket = [h \in Conns |-> "none"]
    /\ clients = {}
    /\ writing = None
    /\ said = [h \in Conns |-> <<>>]
    /\ received = [b \in Backends |-> <<>>]
    /\ delivered = <<>> /\ lost = {} /\ buffered = FALSE

-------------------------------------------------------------------------------
(***************************************************************************)
(* main runs Bridge.Start in a goroutine of its own and calls Bridge.Stop  *)
(* when it is interrupted, however far Start has got.  When Stop returns   *)
(* the process exits; what the goroutines still do until then is included, *)
(* the exit is not.                                                        *)
(***************************************************************************)
StartBackend ==
    /\ startPc = "backend"
    /\ \/ listening' = TRUE /\ startPc' = "websocket"
       \/ listening' = FALSE /\ startPc' = "returned"   \* the port is taken
    /\ UNCHANGED <<scenario, stopPc, serving>>
    /\ UNCHANGED <<pool, link, backendVars, flushVars, sendVars, clientVars,
                   dispatchVars>>

StartWebSocket ==
    /\ startPc = "websocket"
    /\ serving' = TRUE
    /\ startPc' = "returned"
    /\ UNCHANGED <<scenario, stopPc, listening>>
    /\ UNCHANGED <<pool, link, backendVars, flushVars, sendVars, clientVars,
                   dispatchVars>>

\* TCPServer.Stop: the pooled connections and the listener are closed.
StopBackend ==
    /\ scenario.mayStop
    /\ stopPc = "running"
    /\ stopPc' = "websocket"
    /\ listening' = FALSE
    /\ link' = [b \in Backends |-> IF b \in pool THEN "closed" ELSE link[b]]
    /\ lost' = lost \cup UNION {ToSet(toBackend[b]) : b \in pool}
    /\ toBackend' = [b \in Backends |->
                       IF b \in pool THEN <<>> ELSE toBackend[b]]
    /\ UNCHANGED <<scenario, startPc, serving, pool, backendVars, flushVars>>
    /\ UNCHANGED <<messageQueue, buffered, clientVars, dispatchVars>>

\* WebSocketServer.Stop: no more requests, the registered sockets are closed.
StopWebSocket ==
    /\ stopPc = "websocket"
    /\ stopPc' = "returned"
    /\ serving' = FALSE
    /\ socket' = [h \in Conns |-> IF h \in clients THEN "closed" ELSE socket[h]]
    /\ UNCHANGED <<scenario, startPc, listening, pool, link, backendVars>>
    /\ UNCHANGED <<flushVars, sendVars, pc, answer, id, victim, clients, said>>
    /\ UNCHANGED dispatchVars

-------------------------------------------------------------------------------
(***************************************************************************)
(* A backend: it connects, reads a line and reacts, and may die.           *)
(***************************************************************************)
Connect(b) ==
    /\ b \in scenario.backends
    /\ listening
    /\ link[b] = "none"
    /\ link' = [link EXCEPT ![b] = "up"]
    /\ pool' = pool \cup {b}
    /\ toFlush' = toFlush \cup {b}
    /\ UNCHANGED <<bridgeVars, backendVars, batch, sendVars, clientVars,
                   dispatchVars>>

Reads(b) ==
    /\ link[b] = "up"
    /\ toBackend[b] # <<>>
    /\ toBackend' = [toBackend EXCEPT ![b] = Tail(@)]
    /\ received' = [received EXCEPT ![b] = Append(@, Head(toBackend[b]))]
    /\ UNCHANGED <<messageQueue, lost, buffered>>

Replies(b, line) == fromBackend' = [fromBackend EXCEPT ![b] = Append(@, line)]

\* Mutant: the counter is read, not incremented.
AcceptsClientUncounted(b) ==
    /\ Reads(b)
    /\ Head(toBackend[b]).action = "connection_request"
    /\ UNCHANGED clientCounter
    /\ Replies(b, [action |-> "response", client |-> Head(toBackend[b]).client,
                   id |-> ClientId(b, 1)])
    /\ UNCHANGED <<bridgeVars, pool, link, flushVars, clientVars, dispatchVars>>

AcceptsClient(b) ==
    /\ Reads(b)
    /\ Head(toBackend[b]).action = "connection_request"
    /\ clientCounter' = [clientCounter EXCEPT ![b] = @ + 1]
    /\ Replies(b, [action |-> "response", client |-> Head(toBackend[b]).client,
                   id |-> ClientId(b, clientCounter[b] + 1)])
    /\ UNCHANGED <<bridgeVars, pool, link, flushVars, clientVars, dispatchVars>>

\* The context of a message holds the ClientID of its connection.
Echoes(b) ==
    /\ Reads(b)
    /\ Head(toBackend[b]).action = "new_message"
    /\ Replies(b, [action |-> "message_to_connection",
                   message |-> Head(toBackend[b]).message,
                   id |-> id[Head(toBackend[b]).client]])
    /\ UNCHANGED <<clientCounter, bridgeVars, pool, link, flushVars, clientVars,
                   dispatchVars>>

Ignores(b) ==
    /\ Reads(b)
    /\ Head(toBackend[b]).action \in {"new_connection", "disconnected", "error"}
    /\ UNCHANGED <<fromBackend, clientCounter, bridgeVars, pool, link, flushVars,
                   clientVars, dispatchVars>>

BackendDies(b) ==
    /\ link[b] = "up"
    /\ link' = [link EXCEPT ![b] = "gone"]
    /\ lost' = lost \cup ToSet(toBackend[b])
    /\ toBackend' = [toBackend EXCEPT ![b] = <<>>]
    /\ UNCHANGED <<bridgeVars, pool, backendVars, flushVars, messageQueue,
                   buffered, clientVars, dispatchVars>>

\* handleConnection ends; what it had not read of the connection is lost.
LeavesPool(b) ==
    /\ b \in pool
    /\ link[b] \in {"gone", "closed"}
    /\ pool' = pool \ {b}
    /\ link' = [link EXCEPT ![b] = "closed"]
    /\ \E n \in 0..Len(fromBackend[b]) :
         fromBackend' = [fromBackend EXCEPT ![b] = SubSeq(@, 1, n)]
    /\ UNCHANGED <<bridgeVars, clientCounter, received, flushVars, sendVars,
                   clientVars, dispatchVars>>

-------------------------------------------------------------------------------
(***************************************************************************)
(* sendMessage(e), whose result the event senders ignore.                  *)
(***************************************************************************)
\* Mutant: a goroutine for every event, which may overtake another.
WrittenOutOfTurn(e) ==
    /\ \E b \in pool :
         /\ link[b] = "up"
         /\ \E n \in 1..Len(toBackend[b]) + 1 :
              toBackend' = [toBackend EXCEPT ![b] = InsertAt(@, n, e)]
    /\ UNCHANGED <<messageQueue, lost, buffered>>

\* The backend drawn is alive, and gets e.
Written(e) ==
    /\ \E b \in pool :
         /\ link[b] = "up"
         /\ toBackend' = [toBackend EXCEPT ![b] = Append(@, e)]
    /\ UNCHANGED <<messageQueue, lost, buffered>>

\* The backend drawn is dead: the write has no effect ...
WrittenInVain(e) ==
    /\ \E b \in pool : link[b] = "gone"
    /\ lost' = lost \cup {e}
    /\ UNCHANGED <<toBackend, messageQueue, buffered>>

\* ... or fails.
WriteFails == \E b \in pool : link[b] \in {"gone", "closed"}

\* There is none: e is buffered, for the oldest event if the queue is full.
Enqueued(e) ==
    /\ pool = {}
    /\ queueSize # 0
    /\ \/ /\ Len(messageQueue) < queueSize
          /\ messageQueue' = Append(messageQueue, e)
          /\ UNCHANGED lost
       \/ /\ Len(messageQueue) >= queueSize
          /\ messageQueue # <<>>
          /\ messageQueue' = Append(Tail(messageQueue), e)
          /\ lost' = lost \cup {Head(messageQueue)}
    /\ buffered' = TRUE
    /\ UNCHANGED toBackend

Accepted(e) == Written(e) \/ WrittenInVain(e) \/ Enqueued(e)

Sent(e) ==
    \/ Accepted(e)
    \/ /\ WriteFails \/ (pool = {} /\ queueSize = 0)
       /\ lost' = lost \cup {e}
       /\ UNCHANGED <<toBackend, messageQueue, buffered>>

(***************************************************************************)
(* enqueue takes the first of an empty queue when queueSize is negative.   *)
(* net/http recovers the panic: the handler is over, and nothing it still  *)
(* had to do is done.                                                      *)
(***************************************************************************)
SendPanics ==
    /\ pool = {}
    /\ queueSize < 0 /\ messageQueue = <<>>
    /\ UNCHANGED sendVars

-------------------------------------------------------------------------------
(***************************************************************************)
(* flushQueue of backend b.                                                *)
(***************************************************************************)
\* Mutant: what it takes stays in the queue.
FlushTakeKeepsQueue(b) ==
    /\ b \in toFlush
    /\ toFlush' = toFlush \ {b}
    /\ batch' = [batch EXCEPT ![b] = messageQueue]
    /\ UNCHANGED <<bridgeVars, pool, link, backendVars, toBackend, lost,
                   messageQueue, buffered, clientVars, dispatchVars>>

FlushTake(b) ==
    /\ b \in toFlush
    /\ toFlush' = toFlush \ {b}
    /\ batch' = [batch EXCEPT ![b] = messageQueue]
    /\ messageQueue' = <<>>
    /\ UNCHANGED <<bridgeVars, pool, link, backendVars, toBackend, lost,
                   buffered, clientVars, dispatchVars>>

FlushSend(b) ==
    /\ batch[b] # <<>>
    /\ Accepted(Head(batch[b]))
    /\ batch' = [batch EXCEPT ![b] = Tail(@)]
    /\ UNCHANGED <<toFlush, bridgeVars, pool, link, backendVars, clientVars,
                   dispatchVars>>

\* Mutant: what is left is forgotten.
FlushForgets(b) ==
    /\ batch[b] # <<>>
    /\ WriteFails
    /\ batch' = [batch EXCEPT ![b] = <<>>]
    /\ UNCHANGED <<toFlush, bridgeVars, pool, link, backendVars, toBackend,
                   messageQueue, lost, buffered, clientVars, dispatchVars>>

\* A write fails with an error: what is left goes back.
FlushInterrupted(b) ==
    /\ batch[b] # <<>>
    /\ WriteFails
    /\ messageQueue' = batch[b] \o messageQueue
    /\ batch' = [batch EXCEPT ![b] = <<>>]
    /\ UNCHANGED <<toFlush, bridgeVars, pool, link, backendVars, toBackend, lost,
                   buffered, clientVars, dispatchVars>>

-------------------------------------------------------------------------------
(***************************************************************************)
(* A client's HandleConnection and its callbacks in the bridge.            *)
(***************************************************************************)
\* Mutant: a request is sent like an event, and may be buffered.
RequestBuffered(h) ==
    /\ h \in scenario.conns
    /\ pc[h] = "idle"
    /\ serving
    /\ Accepted(Event("connection_request", h, None))
    /\ pc' = [pc EXCEPT ![h] = "waiting"]
    /\ UNCHANGED <<answer, id, victim, socket, clients, said>>
    /\ UNCHANGED <<bridgeVars, pool, link, backendVars, flushVars, dispatchVars>>

\* onConnectionRequest: NewSocketConnection sends a request, which is never
\* buffered, and waits; an error leads to HandleError.
Request(h) ==
    /\ h \in scenario.conns
    /\ pc[h] = "idle"
    /\ serving
    /\ \/ /\ \/ Written(Event("connection_request", h, None))
             \/ WrittenInVain(Event("connection_request", h, None))
          /\ pc' = [pc EXCEPT ![h] = "waiting"]
       \/ /\ pool = {} \/ WriteFails
          /\ pc' = [pc EXCEPT ![h] = "refused"]
          /\ UNCHANGED sendVars
    /\ UNCHANGED <<answer, id, victim, socket, clients, said>>
    /\ UNCHANGED <<bridgeVars, pool, link, backendVars, flushVars, dispatchVars>>

\* HandleError, whether it returns or panics, is the last the handler does.
ReportError(h) ==
    /\ pc[h] = "refused"
    /\ Sent(Event("error", h, None)) \/ SendPanics
    /\ pc' = [pc EXCEPT ![h] = "returned"]
    /\ UNCHANGED <<answer, id, victim, socket, clients, said>>
    /\ UNCHANGED <<bridgeVars, pool, link, backendVars, flushVars, dispatchVars>>

\* The answer is there, but the upgrade fails: nobody is told.
UpgradeFails(h) ==
    /\ pc[h] = "waiting"
    /\ answer[h] # None
    /\ pc' = [pc EXCEPT ![h] = "returned"]
    /\ UNCHANGED <<answer, id, victim, socket, clients, said>>
    /\ UNCHANGED <<bridgeVars, pool, link, backendVars, flushVars, sendVars,
                   dispatchVars>>

\* The connection is upgraded and registered.
Admit(h) ==
    /\ pc[h] = "waiting"
    /\ answer[h] # None
    /\ id' = [id EXCEPT ![h] = answer[h]]
    /\ socket' = [socket EXCEPT ![h] = "open"]
    /\ clients' = {x \in clients : id[x] # answer[h]} \cup {h}
    /\ pc' = [pc EXCEPT ![h] = "announcing"]
    /\ UNCHANGED <<answer, victim, said>>
    /\ UNCHANGED <<bridgeVars, pool, link, backendVars, flushVars, sendVars,
                   dispatchVars>>

\* The handler goes on at `after' when its callback has sent e.
Callback(h, e, after) ==
    \/ Sent(e) /\ pc' = [pc EXCEPT ![h] = after]
    \/ SendPanics /\ pc' = [pc EXCEPT ![h] = "panicked"]

\* onConnectionSuccess
Announce(h) ==
    /\ pc[h] = "announcing"
    /\ Callback(h, Event("new_connection", h, None), "reading")
    /\ UNCHANGED <<answer, id, victim, socket, clients, said>>
    /\ UNCHANGED <<bridgeVars, pool, link, backendVars, flushVars, dispatchVars>>

\* ReadMessage returns m, perhaps read before the socket failed; onMessage.
Receive(h, m) ==
    /\ pc[h] = "reading"
    /\ m \in scenario.messages
    /\ \A x \in Conns : ~Contains(said[x], m)
    /\ said' = [said EXCEPT ![h] = Append(@, m)]
    /\ Callback(h, Event("new_message", h, m), "reading")
    /\ UNCHANGED <<answer, id, victim, socket, clients>>
    /\ UNCHANGED <<bridgeVars, pool, link, backendVars, flushVars, dispatchVars>>

\* Mutant: the client stays registered.
ReadFailsKeepsClient(h) ==
    /\ pc[h] = "reading"
    /\ socket[h] \in {"gone", "closed"}
    /\ pc' = [pc EXCEPT ![h] = "reporting"]
    /\ victim' = [victim EXCEPT ![h] = h]
    /\ UNCHANGED <<answer, id, socket, said, clients>>
    /\ UNCHANGED <<bridgeVars, pool, link, backendVars, flushVars, sendVars,
                   dispatchVars>>

\* handleDisconnect, under s.mu: whoever has this client_id is unregistered.
\* (There is always one: the early return for a client that somebody else has
\* unregistered is in WebSocketServer; nobody else does so here.)
ReadFails(h) ==
    /\ pc[h] = "reading"
    /\ socket[h] \in {"gone", "closed"}
    /\ \E x \in clients :
         /\ id[x] = id[h]
         /\ clients' = clients \ {x}
         /\ victim' = [victim EXCEPT ![h] = x]
    /\ pc' = [pc EXCEPT ![h] = "reporting"]
    /\ UNCHANGED <<answer, id, socket, said>>
    /\ UNCHANGED <<bridgeVars, pool, link, backendVars, flushVars, sendVars,
                   dispatchVars>>

\* onDisconnect, and the socket is closed unless that panicked.
ReportDisconnect(h) ==
    /\ pc[h] = "reporting"
    /\ Callback(h, Event("disconnected", victim[h], None), "returned")
    /\ socket' = IF pc'[h] = "returned"
                 THEN [socket EXCEPT ![victim[h]] = "closed"] ELSE socket
    /\ victim' = [victim EXCEPT ![h] = None]
    /\ UNCHANGED <<answer, id, clients, said>>
    /\ UNCHANGED <<bridgeVars, pool, link, backendVars, flushVars, dispatchVars>>

ClientLeaves(h) ==
    /\ socket[h] = "open"
    /\ socket' = [socket EXCEPT ![h] = "gone"]
    /\ UNCHANGED <<pc, answer, id, victim, clients, said>>
    /\ UNCHANGED <<bridgeVars, pool, link, backendVars, flushVars, sendVars,
                   dispatchVars>>

-------------------------------------------------------------------------------
(***************************************************************************)
(* HandleRequests and the action that the bridge gave it.                  *)
(***************************************************************************)
TakesLine(b, rest) ==
    /\ writing = None
    /\ fromBackend[b] # <<>>
    /\ fromBackend' = [fromBackend EXCEPT ![b] = rest]


DispatchResponse(b) ==
    /\ TakesLine(b, Tail(fromBackend[b]))
    /\ LET line == Head(fromBackend[b])
       IN /\ line.action = "response"
          /\ answer' = [answer EXCEPT ![line.client] = line.id]
    /\ UNCHANGED <<pc, id, victim, socket, clients, said>>
    /\ UNCHANGED <<bridgeVars, pool, link, clientCounter, received, flushVars,
                   sendVars, dispatchVars>>

\* Whom MessageToConnection writes to: the connection with this ClientID.
Recipients(i) == {x \in clients : id[x] = i}

\* Mutant: a goroutine per command, which may overtake another.
DispatchAnyCommand(b) ==
    /\ writing = None
    /\ \E n \in DOMAIN fromBackend[b] :
         LET line == fromBackend[b][n]
         IN /\ line.action = "message_to_connection"
            /\ fromBackend' = [fromBackend EXCEPT ![b] = RemoveAt(@, n)]
            /\ \E x \in Recipients(line.id) :
                 writing' = [message |-> line.message, to |-> x, via |-> b]
    /\ UNCHANGED <<delivered, clientVars, bridgeVars, pool, link, clientCounter,
                   received, flushVars, sendVars>>


\* MessageToConnection looks the client up under s.mu ...
DispatchCommand(b) ==
    /\ TakesLine(b, Tail(fromBackend[b]))
    /\ LET line == Head(fromBackend[b])
       IN /\ line.action = "message_to_connection"
          /\ \/ /\ Recipients(line.id) = {}
                /\ UNCHANGED writing
             \/ \E x \in Recipients(line.id) :
                  writing' = [message |-> line.message, to |-> x, via |-> b]
    /\ UNCHANGED <<delivered, clientVars, bridgeVars, pool, link, clientCounter,
                   received, flushVars, sendVars>>

\* ... and writes, with no more than a log entry for an error.
WriteMessage ==
    /\ writing # None
    /\ writing' = None
    /\ delivered' = IF socket[writing.to] = "open"
                    THEN Append(delivered, writing) ELSE delivered
    /\ UNCHANGED <<clientVars, bridgeVars, pool, link, backendVars, flushVars,
                   sendVars>>

-------------------------------------------------------------------------------
Main == StartBackend \/ StartWebSocket \/ StopBackend \/ StopWebSocket

EchoBackend(b) == AcceptsClient(b) \/ Echoes(b) \/ Ignores(b)
FlushQueue(b) == FlushTake(b) \/ FlushSend(b) \/ FlushInterrupted(b)
HandleRequests(b) == DispatchResponse(b) \/ DispatchCommand(b)

Reacts(h) == ReportError(h) \/ Admit(h) \/ Announce(h) \/ ReadFails(h)
               \/ ReportDisconnect(h)

Next ==
    \/ Main
    \/ \E b \in Backends :
         \/ Connect(b) \/ EchoBackend(b) \/ BackendDies(b) \/ LeavesPool(b)
         \/ FlushQueue(b)
         \/ HandleRequests(b)
    \/ WriteMessage
    \/ \E h \in Conns :
         \/ Request(h) \/ UpgradeFails(h) \/ Reacts(h) \/ ClientLeaves(h)
         \/ \E m \in Messages : Receive(h, m)

Spec == Init /\ [][Next]_vars

(***************************************************************************)
(* What can run runs, in the gateway and in the backends.  Clients and the *)
(* connections of backends come and go as they like.  A write to a client  *)
(* ends (WriteMessage) as long as clients read, which is assumed here and  *)
(* nowhere in the code: client/services.go sets no deadline.  Without it   *)
(* neither Answered nor Echoed holds.                                      *)
(***************************************************************************)
Fairness ==
    /\ WF_vars(WriteMessage)
    /\ \A b \in Backends :
         /\ WF_vars(EchoBackend(b))
         /\ WF_vars(LeavesPool(b))
         /\ WF_vars(FlushQueue(b))
         /\ SF_vars(HandleRequests(b))
    /\ \A h \in Conns : WF_vars(Reacts(h))

FairSpec == Spec /\ Fairness

-------------------------------------------------------------------------------
(***************************************************************************)
(* Properties.                                                             *)
(***************************************************************************)
(* A message comes back to the connection it was read from, and to nobody  *)
(* else: client_ids travel through a backend, the dispatcher looks them up *)
(* later, and connections come and go meanwhile.  Backends of the same     *)
(* name give a client_id twice, and then its other holder may get it.      *)
EchoToSender ==
    \A d \in ToSet(delivered) : Contains(said[d.to], d.message)

(* Every message comes back at most once, though events move between the   *)
(* queue, flushes and backends that die.                                   *)
EchoedOnce ==
    \A i, j \in DOMAIN delivered :
       delivered[i].message = delivered[j].message => i = j

(* The place of an event in the story of its client.                       *)
Chapter(e) ==
    CASE e.action = "new_connection" -> 0
      [] e.action = "new_message" ->
           CHOOSE n \in DOMAIN said[e.client] : said[e.client][n] = e.message
      [] e.action = "disconnected" -> Len(said[e.client]) + 1

(* A backend reads about a client in the order in which it happened: its   *)
(* start, its messages one by one, its end, unless some event has been in  *)
(* the queue, which later events bypass.                                   *)
StoriesInOrder ==
    ~buffered =>
      \A b \in Backends : \A i, j \in DOMAIN received[b] :
         LET e == received[b][i]
             f == received[b][j]
         IN (/\ i < j
             /\ e.client = f.client
             /\ {e.action, f.action} \cap {"connection_request", "error"} = {})
            => Chapter(e) < Chapter(f)

(* What passes through one backend comes back in the order it was said.    *)
EchoesInOrder ==
    ~buffered =>
      \A i, j \in DOMAIN delivered :
         LET d == delivered[i]
             f == delivered[j]
         IN i < j /\ d.to = f.to /\ d.via = f.via =>
              \E m, n \in DOMAIN said[d.to] :
                 /\ said[d.to][m] = d.message
                 /\ said[d.to][n] = f.message
                 /\ m < n

(* A registered client has a handler that will notice its end, unless the  *)
(* configured queue size is negative.                                      *)
RegisteredAreServed ==
    queueSize >= 0 =>
      \A h \in clients : pc[h] \in {"announcing", "reading"}

(* The end of a client that a backend accepted does not vanish while it is *)
(* being passed on: when its handler is over, the event has been read by a *)
(* backend, is on its way or in the queue, or was lost in one of the ways  *)
(* the code has: written to a backend that died without reading it, a      *)
(* write that failed or a queue that is disabled (errors that the senders  *)
(* of events ignore), or dropped as the oldest of a full queue.  An end in *)
(* a flush that is interrupted is not lost.  No backend hears of a client  *)
(* whose upgrade failed (id None).                                         *)
OnItsWay == ToSet(messageQueue)
              \cup (UNION {ToSet(toBackend[b]) : b \in Backends})
              \cup (UNION {ToSet(batch[b]) : b \in Backends})
Heard == UNION {ToSet(received[b]) : b \in Backends}
EndsAccounted ==
    \A h \in Conns :
       pc[h] = "returned" /\ id[h] # None =>
         Event("disconnected", h, None) \in Heard \cup OnItsWay \cup lost

(* A call of NewSocketConnection, which waits without a timeout            *)
(* (services.go:56), ends as long as the backend that it asked stays,      *)
(* whatever becomes of other backends, other clients and the gateway: the  *)
(* answer gets through the one dispatcher, if clients read what the        *)
(* dispatcher writes to them (see Fairness).  When that backend goes, the  *)
(* call waits for ever although others may be there.                       *)
Asked(b, h) == Event("connection_request", h, None)
                 \in ToSet(toBackend[b]) \cup ToSet(received[b])

(* What a client says comes back to somebody (to it: EchoToSender), queued *)
(* or not, under the same condition, unless it leaves first, the event is  *)
(* lost, or the backend that read it goes.  Or it stays in the queue: as   *)
(* long as there is no backend, or with one when a flush was interrupted,  *)
(* for which a second backend must have died (the first is the one whose   *)
(* end left the pool empty).                                               *)
Dead == {b \in Backends : link[b] \in {"gone", "closed"}}
ComesBack(h, m) ==
    LET e == Event("new_message", h, m)
    IN \/ \E d \in ToSet(delivered) : d.message = m
       \/ socket[h] # "open"
       \/ e \in lost
       \/ \E b \in Dead : e \in ToSet(received[b])
StaysQueued(h, m) ==
    /\ Event("new_message", h, m) \in ToSet(messageQueue)
    /\ pool = {} \/ \E b \in Dead : Dead # {b}
===============================================================================
