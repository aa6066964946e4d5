------------------------------ MODULE BackendPool ------------------------------
(***************************************************************************)
(* The outbound half of backend.TCPServer (src/backend/server.go): the     *)
(* pool of backend connections, the queue that buffers events while the    *)
(* pool is empty, and every goroutine that touches them.  They are the     *)
(* accept loop, one handleConnection and one flushQueue goroutine per      *)
(* accepted connection, the heartbeat loop, the callers of sendMessage and *)
(* the caller of Stop.                                                     *)
(*                                                                         *)
(* One step is one critical section of s.mu or s.queueMu, or one blocking  *)
(* network call: between any two of them the goroutines interleave.  What  *)
(* the handlers push to PendingServerRequests is the subject of            *)
(* RequestDispatch; here only the fact that the push may block matters.    *)
(***************************************************************************)
EXTENDS Integers, Sequences, FiniteSets, Functions

CONSTANTS
    Conns,          \* the backend connections that may ever be accepted
    Events,         \* messages that may be buffered: every action but the next
    ConnRequests,   \* messages with Action = BackendActionConnectionRequest
    MaxQueueSize,   \* maxQueueSize, 0 disables the queue
    NoConn,         \* no connection
    Hangers,        \* bound: whose peers may stop reading without going away
    MayStop         \* bound: whether Stop is called

ASSUME DisjointAssumption ==
    /\ Events \cap ConnRequests = {}
    /\ Conns \cap (Events \cup ConnRequests) = {}
ASSUME NoConnAssumption == NoConn \notin Conns
ASSUME MaxQueueSizeAssumption == MaxQueueSize \in Nat
ASSUME BoundsAssumption == Hangers \subseteq Conns /\ MayStop \in BOOLEAN

Messages == Events \cup ConnRequests

(***************************************************************************)
(* The goroutines that run sendMessage: the caller for message m is named  *)
(* m, the flushQueue goroutine started for connection c is named c.        *)
(***************************************************************************)
Threads == Messages \cup Conns

VARIABLES
    Clients,        \* s.Clients, in no order: one is drawn at random
    messageQueue,   \* s.messageQueue
    link,           \* the TCP connection as this process observes it
    acceptor,       \* what acceptConnections accepted and has not yet appended
    handler,        \* program counter of handleConnection(c)
    pc,             \* program counter of the goroutines of Threads
    target,         \* the connection sendMessage got from GetRandomConnection
    batch,          \* flushQueue's queue[i:], what it still has to send
    done,           \* s.done is closed
    listening,      \* s.listener is open
    stopping,       \* Stop has closed done and not yet the connections
    hbPc,           \* program counter of heartbeatLoop
    hbTodo,         \* pingBackends: connections not yet pinged
    hbDead,         \* pingBackends: dead
    hbConn,         \* the connection whose write deadline is set
    hbExpired,      \* that deadline has passed
    writes,         \* history: how often a message was written out in full
    dropped,        \* history: events dropped as the oldest of a full queue
    interrupted     \* history: some flush was interrupted by an error

netVars == <<Clients, link, acceptor, handler>>
sendVars == <<messageQueue, pc, target, batch, writes, dropped, interrupted>>
hbVars == <<hbPc, hbTodo, hbDead, hbConn, hbExpired>>
stopVars == <<done, listening, stopping>>
vars == <<netVars, sendVars, hbVars, stopVars>>

(***************************************************************************)
(* The states of a connection:                                             *)
(*   none      not accepted                                                *)
(*   open      the peer reads what it is sent                              *)
(*   hung      the peer has stopped reading; the kernel still takes writes *)
(*   stalled   the peer has stopped reading; a write blocks                *)
(*   broken    the peer is gone: reads fail, a write may still succeed     *)
(*   closed    closed by this process: reads and writes fail               *)
(***************************************************************************)
LinkStates == {"none", "open", "hung", "stalled", "broken", "closed"}
HandlerStates == {"none", "reading", "pushing", "closing", "returned"}
SenderStates == {"idle", "enqueue", "write", "sent", "refused"}
FlusherStates == {"none", "take", "pick", "enqueue", "write", "requeue",
                  "finished"}

TypeOK ==
    /\ Clients \subseteq Conns
    /\ messageQueue \in Seq(Events)
    /\ link \in [Conns -> LinkStates]
    /\ acceptor \in Conns \cup {NoConn}
    /\ handler \in [Conns -> HandlerStates]
    /\ pc \in [Threads -> SenderStates \cup FlusherStates]
    /\ \A m \in Messages : pc[m] \in SenderStates
    /\ \A c \in Conns : pc[c] \in FlusherStates
    /\ target \in [Threads -> Conns \cup {NoConn}]
    /\ batch \in [Conns -> Seq(Events)]
    /\ done \in BOOLEAN /\ listening \in BOOLEAN /\ stopping \in BOOLEAN
    /\ hbPc \in {"idle", "pinging", "exited"}
    /\ hbTodo \subseteq Conns /\ hbDead \subseteq Conns
    /\ hbConn \in Conns \cup {NoConn}
    /\ hbExpired \in BOOLEAN
    /\ writes \in [Messages -> Nat]
    /\ dropped \subseteq Events
    /\ interrupted \in BOOLEAN

Init ==
    /\ Clients = {}
    /\ messageQueue = <<>>
    /\ link = [c \in Conns |-> "none"]
    /\ acceptor = NoConn
    /\ handler = [c \in Conns |-> "none"]
    /\ pc = [t \in Threads |-> IF t \in Messages THEN "idle" ELSE "none"]
    /\ target = [t \in Threads |-> NoConn]
    /\ batch = [c \in Conns |-> <<>>]
    /\ done = FALSE /\ listening = TRUE /\ stopping = FALSE
    /\ hbPc = "idle" /\ hbTodo = {} /\ hbDead = {}
    /\ hbConn = NoConn /\ hbExpired = FALSE
    /\ writes = [m \in Messages |-> 0]
    /\ dropped = {}
    /\ interrupted = FALSE

-------------------------------------------------------------------------------
(***************************************************************************)
(* The network and the peers.                                              *)
(***************************************************************************)
PeerHangs(c) ==
    /\ c \in Hangers
    /\ link[c] = "open"
    /\ link' = [link EXCEPT ![c] = "hung"]
    /\ UNCHANGED <<Clients, acceptor, handler, sendVars, hbVars, stopVars>>

\* What is written to a peer that does not read fills the socket's buffers.
BufferFills(c) ==
    /\ link[c] = "hung"
    /\ link' = [link EXCEPT ![c] = "stalled"]
    /\ UNCHANGED <<Clients, acceptor, handler, sendVars, hbVars, stopVars>>

PeerResumes(c) ==
    /\ link[c] \in {"hung", "stalled"}
    /\ link' = [link EXCEPT ![c] = "open"]
    /\ UNCHANGED <<Clients, acceptor, handler, sendVars, hbVars, stopVars>>

PeerGoes(c) ==
    /\ link[c] \in {"open", "hung", "stalled"}
    /\ link' = [link EXCEPT ![c] = "broken"]
    /\ UNCHANGED <<Clients, acceptor, handler, sendVars, hbVars, stopVars>>

-------------------------------------------------------------------------------
(***************************************************************************)
(* acceptConnections: Accept returns a connection, which is appended to    *)
(* s.Clients under s.mu before its two goroutines start.                   *)
(***************************************************************************)
Accept(c) ==
    /\ acceptor = NoConn
    /\ listening
    /\ link[c] = "none"
    /\ acceptor' = c
    /\ link' = [link EXCEPT ![c] = "open"]
    /\ UNCHANGED <<Clients, handler, sendVars, hbVars, stopVars>>

AppendClient ==
    /\ acceptor # NoConn
    /\ Clients' = Clients \cup {acceptor}
    /\ handler' = [handler EXCEPT ![acceptor] = "reading"]
    /\ pc' = [pc EXCEPT ![acceptor] = "take"]
    /\ acceptor' = NoConn
    /\ UNCHANGED <<link, messageQueue, target, batch, writes, dropped,
                   interrupted, hbVars, stopVars>>

-------------------------------------------------------------------------------
(***************************************************************************)
(* handleConnection(c).  A line may still be in the reader's buffer after  *)
(* the connection failed, so a read may succeed whatever the link.  A line *)
(* that is not JSON is skipped, which changes nothing here.                *)
(***************************************************************************)
HandlerReads(c) ==
    /\ handler[c] = "reading"
    /\ handler' = [handler EXCEPT ![c] = "pushing"]
    /\ UNCHANGED <<Clients, link, acceptor, sendVars, hbVars, stopVars>>

\* PendingServerRequests had room.
HandlerPushes(c) ==
    /\ handler[c] = "pushing"
    /\ handler' = [handler EXCEPT ![c] = "reading"]
    /\ UNCHANGED <<Clients, link, acceptor, sendVars, hbVars, stopVars>>

\* The loop returns: a failed read, or s.done closed while waiting to push.
HandlerLeaves(c) ==
    \/ handler[c] = "reading" /\ link[c] \in {"broken", "closed"}
    \/ handler[c] = "pushing" /\ done

\* Mutant: the deferred function does not take the connection off the slice.
HandlerExitKeepsClient(c) ==
    /\ HandlerLeaves(c)
    /\ handler' = [handler EXCEPT ![c] = "closing"]
    /\ UNCHANGED <<Clients, link, acceptor, sendVars, hbVars, stopVars>>

\* The deferred function, first half: under s.mu.
HandlerExit(c) ==
    /\ HandlerLeaves(c)
    /\ handler' = [handler EXCEPT ![c] = "closing"]
    /\ Clients' = Clients \ {c}
    /\ UNCHANGED <<link, acceptor, sendVars, hbVars, stopVars>>

\* The deferred function, second half: conn.Close() after s.mu is released.
HandlerCloses(c) ==
    /\ handler[c] = "closing"
    /\ handler' = [handler EXCEPT ![c] = "returned"]
    /\ link' = [link EXCEPT ![c] = "closed"]
    /\ UNCHANGED <<Clients, acceptor, sendVars, hbVars, stopVars>>

-------------------------------------------------------------------------------
(***************************************************************************)
(* sendMessage(m), run by a caller or by flushQueue.                       *)
(***************************************************************************)
\* The message that goroutine t is sending.
Payload(t) == IF t \in Messages THEN t ELSE Head(batch[t])

\* sendMessage returns nil: the call is over, or the flush goes on.
ReturnsNil(t) ==
    IF t \in Messages
    THEN /\ pc' = [pc EXCEPT ![t] = "sent"]
         /\ batch' = batch
    ELSE /\ pc' = [pc EXCEPT ![t] =
                     IF Tail(batch[t]) = <<>> THEN "finished" ELSE "pick"]
         /\ batch' = [batch EXCEPT ![t] = Tail(batch[t])]

\* sendMessage returns an error: to the caller, or the flush is interrupted.
ReturnsError(t) ==
    /\ pc' = [pc EXCEPT ![t] = IF t \in Messages THEN "refused" ELSE "requeue"]
    /\ interrupted' = (interrupted \/ t \in Conns)
    /\ UNCHANGED batch

\* t is about to call GetRandomConnection.
Picks(t) == pc[t] = IF t \in Messages THEN "idle" ELSE "pick"

GetsConnection(t) ==
    /\ Picks(t)
    /\ \E c \in Clients :
         /\ target' = [target EXCEPT ![t] = c]
         /\ pc' = [pc EXCEPT ![t] = "write"]
    /\ UNCHANGED <<messageQueue, batch, writes, dropped, interrupted>>
    /\ UNCHANGED <<netVars, hbVars, stopVars>>

\* Mutant: connection requests are buffered like any other message.
NoConnectionQueuesRequests(t) ==
    /\ Picks(t)
    /\ Clients = {}
    /\ pc' = [pc EXCEPT ![t] = "enqueue"]
    /\ UNCHANGED <<batch, interrupted>>
    /\ UNCHANGED <<messageQueue, target, writes, dropped>>
    /\ UNCHANGED <<netVars, hbVars, stopVars>>

\* No connection: a connection request fails, anything else is enqueued.
NoConnection(t) ==
    /\ Picks(t)
    /\ Clients = {}
    /\ \/ /\ Payload(t) \in ConnRequests
          /\ ReturnsError(t)
       \/ /\ Payload(t) \in Events
          /\ pc' = [pc EXCEPT ![t] = "enqueue"]
          /\ UNCHANGED <<batch, interrupted>>
    /\ UNCHANGED <<messageQueue, target, writes, dropped>>
    /\ UNCHANGED <<netVars, hbVars, stopVars>>

\* Mutant: the test for a full queue is off by one.
QueueIsFullOffByOne == Len(messageQueue) > MaxQueueSize

QueueIsFull == Len(messageQueue) >= MaxQueueSize

Enqueue(t) ==
    /\ pc[t] = "enqueue"
    /\ \/ /\ MaxQueueSize = 0
          /\ ReturnsError(t)
          /\ UNCHANGED <<messageQueue, dropped>>
       \/ /\ MaxQueueSize # 0
          /\ ReturnsNil(t)
          /\ \/ /\ QueueIsFull
                /\ messageQueue' = Append(Tail(messageQueue), Payload(t))
                /\ dropped' = dropped \cup {Head(messageQueue)}
             \/ /\ ~QueueIsFull
                /\ messageQueue' = Append(messageQueue, Payload(t))
                /\ UNCHANGED dropped
          /\ UNCHANGED interrupted
    /\ UNCHANGED <<target, writes, netVars, hbVars, stopVars>>

\* The heartbeat set a deadline on c and the deadline has passed.
DeadlinePassed(c) == hbConn = c /\ hbExpired

\* Whether a write on c can return without an error, or with one.
WriteCanSucceed(c) ==
    link[c] \in {"open", "hung", "broken"} /\ ~DeadlinePassed(c)
WriteCanFail(c) == link[c] \in {"broken", "closed"} \/ DeadlinePassed(c)

\* writer.Flush() on the connection picked, which may be in any state by now.
Write(t) ==
    /\ pc[t] = "write"
    /\ \/ /\ WriteCanSucceed(target[t])
          /\ writes' = [writes EXCEPT ![Payload(t)] = @ + 1]
          /\ ReturnsNil(t)
          /\ UNCHANGED interrupted
       \/ /\ WriteCanFail(target[t])
          /\ ReturnsError(t)
          /\ UNCHANGED writes
    /\ target' = [target EXCEPT ![t] = NoConn]
    /\ UNCHANGED <<messageQueue, dropped, netVars, hbVars, stopVars>>

-------------------------------------------------------------------------------
(***************************************************************************)
(* flushQueue, started for connection c; its sends are the steps above.    *)
(***************************************************************************)
\* Mutant: the queue is copied and not reset.
FlushTakeKeepsQueue(c) ==
    /\ pc[c] = "take"
    /\ batch' = [batch EXCEPT ![c] = messageQueue]
    /\ pc' = [pc EXCEPT ![c] =
                IF messageQueue = <<>> THEN "finished" ELSE "pick"]
    /\ UNCHANGED <<messageQueue, target, writes, dropped, interrupted>>
    /\ UNCHANGED <<netVars, hbVars, stopVars>>

\* Take ownership of the queue and reset it.
FlushTake(c) ==
    /\ pc[c] = "take"
    /\ batch' = [batch EXCEPT ![c] = messageQueue]
    /\ messageQueue' = <<>>
    /\ pc' = [pc EXCEPT ![c] =
                IF messageQueue = <<>> THEN "finished" ELSE "pick"]
    /\ UNCHANGED <<target, writes, dropped, interrupted>>
    /\ UNCHANGED <<netVars, hbVars, stopVars>>

\* Mutant: the message whose send failed is not put back (queue[i+1:]).
RequeueSkipsFailed(c) ==
    /\ pc[c] = "requeue"
    /\ messageQueue' = Tail(batch[c]) \o messageQueue
    /\ batch' = [batch EXCEPT ![c] = <<>>]
    /\ pc' = [pc EXCEPT ![c] = "finished"]
    /\ UNCHANGED <<target, writes, dropped, interrupted>>
    /\ UNCHANGED <<netVars, hbVars, stopVars>>

\* Put queue[i:] back in front of what was enqueued since.
Requeue(c) ==
    /\ pc[c] = "requeue"
    /\ messageQueue' = batch[c] \o messageQueue
    /\ batch' = [batch EXCEPT ![c] = <<>>]
    /\ pc' = [pc EXCEPT ![c] = "finished"]
    /\ UNCHANGED <<target, writes, dropped, interrupted>>
    /\ UNCHANGED <<netVars, hbVars, stopVars>>

-------------------------------------------------------------------------------
(***************************************************************************)
(* heartbeatLoop and pingBackends.                                         *)
(***************************************************************************)
\* The ticker fires; the pool is copied under s.mu.
PingStarts ==
    /\ hbPc = "idle"
    /\ hbPc' = "pinging"
    /\ hbTodo' = Clients
    /\ hbDead' = {}
    /\ UNCHANGED <<hbConn, hbExpired, netVars, sendVars, stopVars>>

\* SetWriteDeadline(now + HeartbeatTimeout).
SetWriteDeadline(c) ==
    /\ hbPc = "pinging" /\ hbConn = NoConn
    /\ c \in hbTodo
    /\ hbTodo' = hbTodo \ {c}
    /\ hbConn' = c
    /\ UNCHANGED <<hbPc, hbDead, hbExpired, netVars, sendVars, stopVars>>

\* HeartbeatTimeout goes by: every write waiting on the connection fails.
DeadlinePasses ==
    /\ hbConn # NoConn
    /\ ~hbExpired
    /\ hbExpired' = TRUE
    /\ UNCHANGED <<hbPc, hbTodo, hbDead, hbConn, netVars, sendVars, stopVars>>

\* Mutant: the deadline does not bound the ping.
PingWriteWithoutDeadline ==
    /\ hbConn # NoConn
    /\ \/ /\ link[hbConn] \in {"open", "hung", "broken"}
          /\ UNCHANGED hbDead
       \/ /\ link[hbConn] \in {"broken", "closed"}
          /\ hbDead' = hbDead \cup {hbConn}
    /\ hbConn' = NoConn
    /\ hbExpired' = FALSE
    /\ UNCHANGED <<hbPc, hbTodo, netVars, sendVars, stopVars>>

\* The ping is written or fails, and the deadline is cleared.
PingWrite ==
    /\ hbConn # NoConn
    /\ \/ /\ WriteCanSucceed(hbConn)
          /\ UNCHANGED hbDead
       \/ /\ WriteCanFail(hbConn)
          /\ hbDead' = hbDead \cup {hbConn}
    /\ hbConn' = NoConn
    /\ hbExpired' = FALSE
    /\ UNCHANGED <<hbPc, hbTodo, netVars, sendVars, stopVars>>

\* Mutant: a dead connection leaves the pool and is not closed.
PingReapKeepsOpen ==
    /\ hbPc = "pinging" /\ hbConn = NoConn /\ hbTodo = {}
    /\ hbPc' = "idle"
    /\ hbDead' = {}
    /\ Clients' = Clients \ hbDead
    /\ UNCHANGED <<hbTodo, hbConn, hbExpired, link, acceptor, handler>>
    /\ UNCHANGED <<sendVars, stopVars>>

\* The dead that are still pooled are removed and closed, under s.mu.
PingReap ==
    /\ hbPc = "pinging" /\ hbConn = NoConn /\ hbTodo = {}
    /\ hbPc' = "idle"
    /\ hbDead' = {}
    /\ Clients' = Clients \ hbDead
    /\ link' = [c \in Conns |->
                  IF c \in hbDead \cap Clients THEN "closed" ELSE link[c]]
    /\ UNCHANGED <<hbTodo, hbConn, hbExpired, acceptor, handler>>
    /\ UNCHANGED <<sendVars, stopVars>>

HeartbeatExits ==
    /\ hbPc = "idle"
    /\ done
    /\ hbPc' = "exited"
    /\ UNCHANGED <<hbTodo, hbDead, hbConn, hbExpired>>
    /\ UNCHANGED <<netVars, sendVars, stopVars>>

-------------------------------------------------------------------------------
(***************************************************************************)
(* Stop, which may be called again once it has returned.                   *)
(***************************************************************************)
StopSignals ==
    /\ MayStop
    /\ ~stopping
    /\ done' = TRUE
    /\ stopping' = TRUE
    /\ UNCHANGED <<listening, netVars, sendVars, hbVars>>

\* Mutant: the listener is closed, the pooled connections are not.
StopClosesListener ==
    /\ stopping
    /\ stopping' = FALSE
    /\ listening' = FALSE
    /\ UNCHANGED <<done, netVars, sendVars, hbVars>>

\* Under s.mu: close the pooled connections, then the listener.
StopCloses ==
    /\ stopping
    /\ stopping' = FALSE
    /\ listening' = FALSE
    /\ link' = [c \in Conns |-> IF c \in Clients THEN "closed" ELSE link[c]]
    /\ UNCHANGED <<done, Clients, acceptor, handler, sendVars, hbVars>>

-------------------------------------------------------------------------------
Network(c) == PeerHangs(c) \/ BufferFills(c) \/ PeerResumes(c) \/ PeerGoes(c)
Handler(c) ==
    HandlerReads(c) \/ HandlerPushes(c) \/ HandlerExit(c) \/ HandlerCloses(c)
SendMessage(t) == GetsConnection(t) \/ NoConnection(t) \/ Enqueue(t) \/ Write(t)
FlushQueue(c) == FlushTake(c) \/ Requeue(c)
HeartbeatLoop ==
    \/ PingStarts
    \/ \E c \in Conns : SetWriteDeadline(c)
    \/ PingWrite
    \/ PingReap
    \/ HeartbeatExits
Stop == StopSignals \/ StopCloses

Next ==
    \/ \E c \in Conns : Network(c) \/ Accept(c) \/ Handler(c) \/ FlushQueue(c)
    \/ AppendClient
    \/ \E t \in Threads : SendMessage(t)
    \/ HeartbeatLoop
    \/ DeadlinePasses
    \/ Stop

Spec == Init /\ [][Next]_vars

(***************************************************************************)
(* What the Go runtime guarantees.  A goroutine that can run runs, and the *)
(* ticker and the deadline fire.  A write parked on a full socket is woken *)
(* whenever there is room, and a reader runs out of buffered lines, hence  *)
(* strong fairness of the goroutines that write and of a handler's return. *)
(* Nothing is assumed of the peers, of PendingServerRequests having room,  *)
(* of new connections, new messages, or of Stop being called.              *)
(***************************************************************************)
Fairness ==
    /\ \A m \in Messages : SF_vars(Enqueue(m) \/ Write(m))
    /\ \A c \in Conns :
         /\ SF_vars(FlushQueue(c) \/ SendMessage(c))
         /\ SF_vars(HandlerExit(c) \/ HandlerCloses(c))
    /\ WF_vars(AppendClient)
    /\ WF_vars(HeartbeatLoop)
    /\ WF_vars(DeadlinePasses)
    /\ WF_vars(StopCloses)

FairSpec == Spec /\ Fairness

-------------------------------------------------------------------------------
(***************************************************************************)
(* Properties.                                                             *)
(***************************************************************************)
\* The events some flushQueue goroutine has taken and not yet sent.
InFlight == UNION {Range(batch[c]) : c \in Conns}

(***************************************************************************)
(* No message is written to the backends twice, although flushQueue and    *)
(* sendMessage hand events back and forth between the queue, a goroutine's *)
(* private slice and the queue again, with several flushes at once.        *)
(***************************************************************************)
NoDuplicateDelivery == \A m \in Messages : writes[m] <= 1

(***************************************************************************)
(* A message whose sendMessage returned nil is not forgotten: it has been  *)
(* written, or it is in the queue or in a flush in progress, or it was     *)
(* dropped as the oldest of a full queue; exactly one of these.            *)
(***************************************************************************)
Accounted(m) ==
    \/ writes[m] = 1 /\ m \notin Range(messageQueue) \cup InFlight \cup dropped
    \/ writes[m] = 0 /\ m \in dropped /\ m \notin Range(messageQueue) \cup InFlight
    \/ writes[m] = 0 /\ m \notin dropped /\ m \in Range(messageQueue) /\ m \notin InFlight
    \/ writes[m] = 0 /\ m \notin dropped /\ m \notin Range(messageQueue) /\ m \in InFlight
NoSilentLoss == \A m \in Messages : pc[m] = "sent" => Accounted(m)

(***************************************************************************)
(* The pool and the goroutines that empty it agree: a pooled connection    *)
(* still has a handleConnection that will take it out, and one that left   *)
(* the pool behind its handler's back (by pingBackends) is closed, so that *)
(* the handler's read fails and it returns.                                *)
(***************************************************************************)
PoolMatchesHandlers ==
    \A c \in Conns :
       /\ c \in Clients => handler[c] \in {"reading", "pushing"}
       /\ handler[c] \in {"reading", "pushing"} /\ c \notin Clients
            => link[c] = "closed"

(***************************************************************************)
(* What Stop leaves connected: a connection that the accept loop holds and *)
(* has not yet appended (it will be pooled and served after Stop), and one *)
(* that its handler has taken out of the pool and is about to close.       *)
(***************************************************************************)
StopLeavesOnlyUnpooled ==
    [][stopping /\ ~stopping' =>
         \A c \in Conns :
            link'[c] \in {"open", "hung", "stalled", "broken"} =>
              acceptor = c \/ handler[c] = "closing"]_vars

(***************************************************************************)
(* The queue holds at most maxQueueSize events as long as no flush is      *)
(* interrupted (what an interrupted flush puts back is not counted).       *)
(***************************************************************************)
BoundedUnlessInterrupted ==
    ~interrupted => Len(messageQueue) <= MaxQueueSize

(***************************************************************************)
(* What makes the properties above inductive.  Every event that was        *)
(* accepted is in exactly one place, every flush at work has something to  *)
(* send, and nothing happens for a connection before it is appended.       *)
(***************************************************************************)
NoCopies ==
    /\ IsInjective(messageQueue)
    /\ \A c \in Conns :
         /\ IsInjective(batch[c])
         /\ Range(messageQueue) \cap Range(batch[c]) = {}
    /\ \A c, d \in Conns : c # d => Range(batch[c]) \cap Range(batch[d]) = {}

\* Where a message can be, by how far its sendMessage got.
Whereabouts ==
    \A m \in Messages :
       /\ writes[m] <= 1
       /\ pc[m] # "sent" => writes[m] = 0
       /\ pc[m] # "sent" \/ writes[m] = 1 \/ m \in dropped
            => m \notin Range(messageQueue) \cup InFlight
       /\ m \in dropped => pc[m] = "sent" /\ writes[m] = 0
       /\ pc[m] = "sent" =>
            \/ writes[m] = 1
            \/ m \in dropped
            \/ m \in Range(messageQueue)
            \/ m \in InFlight

FlushHasWork ==
    \A c \in Conns :
       pc[c] \in {"pick", "enqueue", "write", "requeue"} <=> batch[c] # <<>>

NotYetAppended ==
    \A c \in Conns :
       /\ link[c] = "none" \/ acceptor = c => pc[c] = "none"
       /\ acceptor = c => link[c] # "none"

RequestsNotBuffered == \A m \in Messages : pc[m] = "enqueue" => m \in Events

WriterHasTarget == \A t \in Threads : pc[t] = "write" => target[t] \in Conns

IInv == /\ TypeOK
        /\ NoCopies
        /\ Whereabouts
        /\ FlushHasWork
        /\ NotYetAppended
        /\ RequestsNotBuffered
        /\ WriterHasTarget

(***************************************************************************)
(* BackendPool implements EventDelivery.                                   *)
(***************************************************************************)
StatusOf(m) ==
    CASE writes[m] > 0 -> "written"
      [] writes[m] = 0 /\ m \in dropped -> "dropped"
      [] writes[m] = 0 /\ m \notin dropped /\ pc[m] = "sent" -> "buffered"
      [] pc[m] = "refused" -> "refused"
      [] OTHER -> "new"
Delivery == INSTANCE EventDelivery
                WITH status <- [m \in Messages |-> StatusOf(m)]
ImplementsEventDelivery == Delivery!Spec

(***************************************************************************)
(* Every goroutine in sendMessage gets out of it, even when the backend it *)
(* writes to has stopped reading: the heartbeat's deadline fails the write *)
(* or the heartbeat closes the connection.  After Stop there is no         *)
(* heartbeat and nothing is promised.                                      *)
(***************************************************************************)
SendsReturn ==
    \A t \in Threads :
       []<>(pc[t] \notin {"pick", "enqueue", "write", "requeue"} \/ done)

(***************************************************************************)
(* A backend whose socket takes no more data does not stay in the pool: it *)
(* resumes reading or the heartbeat takes it out.                          *)
(***************************************************************************)
StalledBackendLeaves ==
    \A c \in Conns : []<>(c \notin Clients \/ link[c] # "stalled" \/ done)

(***************************************************************************)
(* maxQueueSize is "max buffered messages" (server.go:61).                 *)
(***************************************************************************)
QueueBounded == Len(messageQueue) <= MaxQueueSize

(***************************************************************************)
(* Unsent messages of a flush are "older, should go first" (server.go:331):*)
(* an event of an interrupted flush that is buffered again does not end up *)
(* behind an event that was enqueued after the flush took it.              *)
(***************************************************************************)
IsBefore(x, y, q) == \E i, j \in DOMAIN q : i < j /\ q[i] = x /\ q[j] = y
OlderGoFirst ==
    [][\A c \in Conns :
         \A x \in Range(batch[c]), y \in Range(messageQueue) :
            ~IsBefore(y, x, messageQueue')]_vars

(***************************************************************************)
(* "Flush queued messages now that a backend is available"                 *)
(* (server.go:201): with every goroutine at rest and a healthy pool, no    *)
(* event is left behind in the queue.                                      *)
(***************************************************************************)
AtRest(t) == pc[t] \in {"idle", "none", "sent", "refused", "finished"}
FlushedOnceConnected ==
    /\ \A t \in Threads : AtRest(t)
    /\ Clients # {}
    /\ \A c \in Clients : link[c] = "open"
    => messageQueue = <<>>
===============================================================================
