--------------------------- MODULE BackendPoolProofs ---------------------------
(***************************************************************************)
(* Theorems about BackendPool, for every set of connections and messages   *)
(* and every queue size.  They all follow from one inductive invariant,    *)
(* IInv.  The steps fall in three groups, with a lemma each: those that    *)
(* leave the goroutines of sendMessage alone, those of sendMessage and     *)
(* those of flushQueue.                                                    *)
(***************************************************************************)
EXTENDS BackendPool, SeqLemmas

(* A goroutine is a caller of sendMessage or a flush, never both.          *)
LEMMA ThreadKinds ==
  /\ Messages \subseteq Threads /\ Conns \subseteq Threads
  /\ \A t \in Threads : t \in Messages \/ t \in Conns
  /\ \A c \in Conns : c \notin Messages
  /\ \A m \in Messages : m \notin Conns
  /\ Events \subseteq Messages
BY DisjointAssumption DEF Threads, Messages

(* The inductive invariant holds initially.                                *)
LEMMA InitIInv == Init => IInv
<1> SUFFICES ASSUME Init PROVE IInv
  OBVIOUS
<1> USE ThreadKinds, EmptySeqFacts DEF Init
<1>1. TypeOK
  <2>1. <<>> \in Seq(Events)
    OBVIOUS
  <2>2. /\ pc \in [Threads -> SenderStates \cup FlusherStates]
        /\ \A m \in Messages : pc[m] \in SenderStates
        /\ \A c \in Conns : pc[c] \in FlusherStates
    BY DEF SenderStates, FlusherStates
  <2> QED BY <2>1, <2>2 DEF TypeOK, LinkStates, HandlerStates
<1>2. NoCopies
  BY DEF NoCopies
<1>3. Whereabouts
  <2>1. InFlight = {}
    BY DEF InFlight
  <2> QED BY <2>1 DEF Whereabouts
<1>4. FlushHasWork /\ NotYetAppended
  BY NoConnAssumption DEF FlushHasWork, NotYetAppended
<1>5. RequestsNotBuffered /\ WriterHasTarget
  BY DEF RequestsNotBuffered, WriterHasTarget
<1> QED BY <1>1, <1>2, <1>3, <1>4, <1>5 DEF IInv

-------------------------------------------------------------------------------
(***************************************************************************)
(* Steps of the network, the handlers, the heartbeat and Stop.             *)
(***************************************************************************)
(* The types of the variables they change.                                 *)
ControlTypeOK ==
    /\ Clients \subseteq Conns
    /\ link \in [Conns -> LinkStates]
    /\ acceptor \in Conns \cup {NoConn}
    /\ handler \in [Conns -> HandlerStates]
    /\ done \in BOOLEAN /\ listening \in BOOLEAN /\ stopping \in BOOLEAN
    /\ hbPc \in {"idle", "pinging", "exited"}
    /\ hbTodo \subseteq Conns /\ hbDead \subseteq Conns
    /\ hbConn \in Conns \cup {NoConn}
    /\ hbExpired \in BOOLEAN

(* What they have in common: nothing about messages changes, and no        *)
(* connection becomes unaccepted.                                          *)
LEMMA OtherStepIInv ==
  ASSUME IInv, ControlTypeOK', UNCHANGED sendVars,
         \A c \in Conns :
            /\ link'[c] = "none" => link[c] = "none"
            /\ acceptor' = c => link'[c] # "none"
            /\ acceptor' = c => acceptor = c \/ link[c] = "none"
  PROVE  IInv'
<1> USE DEF IInv, sendVars
<1>1. NoCopies'
  BY DEF NoCopies
<1>2. Whereabouts'
  BY DEF Whereabouts, InFlight
<1>3. FlushHasWork' /\ NotYetAppended'
  BY DEF FlushHasWork, NotYetAppended
<1>4. RequestsNotBuffered' /\ WriterHasTarget'
  BY DEF RequestsNotBuffered, WriterHasTarget
<1>5. TypeOK'
  BY DEF TypeOK, ControlTypeOK
<1> QED BY <1>1, <1>2, <1>3, <1>4, <1>5

(* The network's steps preserve the invariant.                             *)
LEMMA NetworkIInv ==
  ASSUME IInv, NEW c \in Conns, Network(c) \/ Accept(c)
  PROVE  IInv'
<1>1. ControlTypeOK'
  <2>1. ControlTypeOK
    BY DEF IInv, TypeOK, ControlTypeOK
  <2>2. CASE Network(c)
    <3>1. UNCHANGED <<Clients, acceptor, handler, hbVars, stopVars>>
      BY <2>2 DEF Network, PeerHangs, BufferFills, PeerResumes, PeerGoes
    <3>2. \E l \in LinkStates : link' = [link EXCEPT ![c] = l]
      BY <2>2 DEF Network, PeerHangs, BufferFills, PeerResumes, PeerGoes,
                  LinkStates
    <3> QED BY <2>1, <3>1, <3>2 DEF ControlTypeOK, hbVars, stopVars
  <2>3. CASE Accept(c)
    BY <2>1, <2>3 DEF Accept, ControlTypeOK, LinkStates, hbVars, stopVars
  <2> QED BY <2>2, <2>3
<1>2. UNCHANGED sendVars
  BY DEF Network, PeerHangs, BufferFills, PeerResumes, PeerGoes, Accept
<1>3. \A d \in Conns :
         /\ link'[d] = "none" => link[d] = "none"
         /\ acceptor' = d => link'[d] # "none"
         /\ acceptor' = d => acceptor = d \/ link[d] = "none"
  BY NoConnAssumption
     DEF IInv, TypeOK, NotYetAppended, Network, PeerHangs, BufferFills, PeerResumes, PeerGoes,
         Accept
<1> QED BY <1>1, <1>2, <1>3, OtherStepIInv

(* The steps of a connection's handler preserve the invariant.             *)
LEMMA HandlerIInv ==
  ASSUME IInv, NEW c \in Conns, Handler(c)
  PROVE  IInv'
<1>1. ControlTypeOK'
  <2>1. ControlTypeOK
    BY DEF IInv, TypeOK, ControlTypeOK
  <2>2. UNCHANGED <<acceptor, hbVars, stopVars>> /\ Clients' \subseteq Clients
    BY DEF Handler, HandlerReads, HandlerPushes, HandlerExit, HandlerCloses
  <2>3. \E h \in HandlerStates : handler' = [handler EXCEPT ![c] = h]
    BY DEF Handler, HandlerReads, HandlerPushes, HandlerExit, HandlerCloses,
           HandlerStates
  <2>4. link' = link \/ link' = [link EXCEPT ![c] = "closed"]
    BY DEF Handler, HandlerReads, HandlerPushes, HandlerExit, HandlerCloses
  <2>5. handler' \in [Conns -> HandlerStates]
    BY <2>1, <2>3 DEF ControlTypeOK
  <2>6. link' \in [Conns -> LinkStates]
    BY <2>1, <2>4 DEF ControlTypeOK, LinkStates
  <2> QED BY <2>1, <2>2, <2>5, <2>6 DEF ControlTypeOK, hbVars, stopVars
<1>2. UNCHANGED sendVars
  BY DEF Handler, HandlerReads, HandlerPushes, HandlerExit, HandlerCloses
<1>3. \A d \in Conns :
         /\ link'[d] = "none" => link[d] = "none"
         /\ acceptor' = d => link'[d] # "none"
         /\ acceptor' = d => acceptor = d \/ link[d] = "none"
  BY DEF IInv, TypeOK, NotYetAppended, Handler, HandlerReads, HandlerPushes, HandlerExit,
         HandlerCloses
<1> QED BY <1>1, <1>2, <1>3, OtherStepIInv

(* The steps of the heartbeat preserve the invariant.                      *)
LEMMA HeartbeatIInv ==
  ASSUME IInv, HeartbeatLoop \/ DeadlinePasses
  PROVE  IInv'
<1>1. ControlTypeOK'
  <2> USE DEF ControlTypeOK, netVars, stopVars
  <2>1. ControlTypeOK
    BY DEF IInv, TypeOK
  <2>2. CASE PingStarts
    BY <2>1, <2>2 DEF PingStarts
  <2>3. CASE \E c \in Conns : SetWriteDeadline(c)
    BY <2>1, <2>3 DEF SetWriteDeadline
  <2>4. CASE PingWrite
    BY <2>1, <2>4 DEF PingWrite
  <2>5. CASE PingReap
    BY <2>1, <2>5 DEF PingReap, LinkStates
  <2>6. CASE HeartbeatExits \/ DeadlinePasses
    BY <2>1, <2>6 DEF HeartbeatExits, DeadlinePasses
  <2> QED BY <2>2, <2>3, <2>4, <2>5, <2>6 DEF HeartbeatLoop
<1>2. UNCHANGED sendVars
  BY DEF HeartbeatLoop, DeadlinePasses, PingStarts, SetWriteDeadline,
         PingWrite, PingReap, HeartbeatExits
<1>3. \A d \in Conns :
         /\ link'[d] = "none" => link[d] = "none"
         /\ acceptor' = d => link'[d] # "none"
         /\ acceptor' = d => acceptor = d \/ link[d] = "none"
  BY DEF IInv, TypeOK, NotYetAppended, HeartbeatLoop, DeadlinePasses, PingStarts,
         SetWriteDeadline, PingWrite, PingReap, HeartbeatExits, netVars
<1> QED BY <1>1, <1>2, <1>3, OtherStepIInv

(* The steps of Stop preserve the invariant.                               *)
LEMMA StopIInv ==
  ASSUME IInv, Stop
  PROVE  IInv'
<1>1. ControlTypeOK'
  BY DEF IInv, TypeOK, ControlTypeOK, Stop, StopSignals, StopCloses,
         LinkStates, netVars, hbVars
<1>2. UNCHANGED sendVars
  BY DEF Stop, StopSignals, StopCloses
<1>3. \A d \in Conns :
         /\ link'[d] = "none" => link[d] = "none"
         /\ acceptor' = d => link'[d] # "none"
         /\ acceptor' = d => acceptor = d \/ link[d] = "none"
  BY DEF IInv, TypeOK, NotYetAppended, Stop, StopSignals, StopCloses, netVars
<1> QED BY <1>1, <1>2, <1>3, OtherStepIInv

(* Appending an accepted connection starts a flush that has taken nothing. *)
LEMMA AppendClientIInv ==
  ASSUME IInv, AppendClient
  PROVE  IInv'
<1> USE ThreadKinds DEF IInv, AppendClient
<1>1. acceptor \in Conns /\ pc[acceptor] = "none"
  BY DEF TypeOK, NotYetAppended
<1>2. TypeOK'
  BY <1>1 DEF TypeOK, HandlerStates, FlusherStates, hbVars, stopVars
<1>3. NoCopies'
  BY DEF NoCopies
<1>4. /\ \A m \in Messages : pc'[m] = pc[m]
      /\ \A c \in Conns : c # acceptor => pc'[c] = pc[c]
      /\ pc'[acceptor] = "take"
  BY <1>1 DEF TypeOK
<1>5. Whereabouts'
  BY <1>4 DEF Whereabouts, InFlight
<1>6. FlushHasWork'
  BY <1>1, <1>4 DEF FlushHasWork
<1>7. NotYetAppended'
  BY <1>1, <1>4, NoConnAssumption DEF NotYetAppended, TypeOK
<1>8. RequestsNotBuffered' /\ WriterHasTarget'
  BY <1>1, <1>4 DEF RequestsNotBuffered, WriterHasTarget
<1> QED BY <1>2, <1>3, <1>5, <1>6, <1>7, <1>8

-------------------------------------------------------------------------------
(***************************************************************************)
(* Steps of sendMessage.                                                   *)
(***************************************************************************)
(* A step that moves goroutine t, running before and after it, to another  *)
(* place in sendMessage, and moves no message.                             *)
LEMMA ControlStepIInv ==
  ASSUME IInv, TypeOK', NEW t \in Threads, NEW p,
         UNCHANGED <<messageQueue, batch, writes, dropped, link, acceptor>>,
         pc' = [pc EXCEPT ![t] = p],
         t \in Messages =>
            pc[t] # "sent" /\ p \in {"enqueue", "write", "refused"},
         t \in Conns => /\ pc[t] \in {"pick", "enqueue", "write"}
                        /\ p \in {"enqueue", "write", "requeue"},
         p = "enqueue" => t \notin ConnRequests,
         \A u \in Threads : u # t => target'[u] = target[u],
         p = "write" => target'[t] \in Conns
  PROVE  IInv'
<1> USE ThreadKinds DEF IInv
<1>1. \A u \in Threads : pc'[u] = IF u = t THEN p ELSE pc[u]
  BY DEF TypeOK
<1>2. NoCopies'
  BY DEF NoCopies
<1>3. Whereabouts'
  BY <1>1 DEF Whereabouts, InFlight
<1>4. FlushHasWork' /\ NotYetAppended'
  BY <1>1 DEF FlushHasWork, NotYetAppended
<1>5. RequestsNotBuffered'
  BY <1>1 DEF RequestsNotBuffered, Messages
<1>6. WriterHasTarget'
  BY <1>1 DEF WriterHasTarget
<1> QED BY <1>2, <1>3, <1>4, <1>5, <1>6

(* GetRandomConnection, whether it finds a connection or not, preserves    *)
(* the invariant.                                                          *)
LEMMA GetRandomConnectionIInv ==
  ASSUME IInv, NEW t \in Threads, GetsConnection(t) \/ NoConnection(t)
  PROVE  IInv'
<1> USE ThreadKinds DEF IInv
<1>1. t \in Messages => pc[t] = "idle"
  BY DEF GetsConnection, NoConnection, Picks
<1>2. t \in Conns => pc[t] = "pick"
  BY DEF GetsConnection, NoConnection, Picks
<1>3. t \in Conns => batch[t] # <<>> /\ Payload(t) \in Events
  <2>1. t \in Conns => batch[t] # <<>> /\ batch[t] \in Seq(Events)
    BY <1>2 DEF FlushHasWork, TypeOK
  <2> QED BY <2>1, HeadTailFacts DEF Payload
<1>4. CASE GetsConnection(t)
  <2>1. PICK c \in Clients : /\ target' = [target EXCEPT ![t] = c]
                             /\ pc' = [pc EXCEPT ![t] = "write"]
    BY <1>4 DEF GetsConnection
  <2>2. UNCHANGED <<messageQueue, batch, writes, dropped, interrupted, netVars,
                    hbVars, stopVars>>
    BY <1>4 DEF GetsConnection
  <2>3. TypeOK'
    BY <2>1, <2>2 DEF TypeOK, SenderStates, FlusherStates, netVars, hbVars,
                      stopVars
  <2>4. c \in Conns /\ target'[t] = c
    BY <2>1 DEF TypeOK
  <2>5. \A u \in Threads : u # t => target'[u] = target[u]
    BY <2>1 DEF TypeOK
  <2> QED BY <1>1, <1>2, <2>1, <2>2, <2>3, <2>4, <2>5, ControlStepIInv DEF netVars
<1>5. CASE NoConnection(t)
  <2>1. UNCHANGED <<messageQueue, target, batch, writes, dropped, netVars,
                    hbVars, stopVars>>
    BY <1>5 DEF NoConnection, ReturnsError
  <2>2. CASE Payload(t) \in ConnRequests /\ ReturnsError(t)
    <3>1. t \in Messages
      BY <1>3, <2>2, DisjointAssumption
    <3>2. pc' = [pc EXCEPT ![t] = "refused"]
      BY <2>2, <3>1 DEF ReturnsError
    <3>3. TypeOK'
      BY <2>1, <2>2, <3>1, <3>2
         DEF ReturnsError, TypeOK, SenderStates, netVars, hbVars, stopVars
    <3> QED BY <1>1, <2>1, <3>1, <3>2, <3>3, ControlStepIInv DEF netVars
  <2>3. CASE /\ Payload(t) \in Events
             /\ pc' = [pc EXCEPT ![t] = "enqueue"]
             /\ UNCHANGED interrupted
    <3>1. t \notin ConnRequests
      BY <2>3, DisjointAssumption DEF Payload, Messages
    <3>2. TypeOK'
      BY <2>1, <2>3 DEF TypeOK, SenderStates, FlusherStates, netVars, hbVars,
                        stopVars
    <3> QED BY <1>1, <1>2, <2>1, <2>3, <3>1, <3>2, ControlStepIInv DEF netVars
  <2> QED BY <1>5, <2>2, <2>3 DEF NoConnection
<1> QED BY <1>4, <1>5

(* What is known of the message a goroutine is about to buffer or write,   *)
(* and what becomes of the flush it may be part of: the message leaves the *)
(* flush, if it was in one, and is in no other place.                      *)
LEMMA ReturnsNilFacts ==
  ASSUME IInv, NEW t \in Threads, pc[t] \in {"enqueue", "write"}, ReturnsNil(t)
  PROVE  /\ Payload(t) \in Messages
         /\ pc[t] = "enqueue" => Payload(t) \in Events
         /\ writes[Payload(t)] = 0
         /\ Payload(t) \notin dropped \cup Range(messageQueue)
         /\ \A c \in Conns : /\ IsInjective(batch'[c])
                             /\ Range(batch'[c]) = Range(batch[c]) \ {Payload(t)}
         /\ \A m \in Messages :
               pc'[m] = IF m = Payload(t) THEN "sent" ELSE pc[m]
         /\ \A u \in Threads :
               u # t => pc'[u] = pc[u] \/ pc'[u] = "sent"
         /\ pc'[t] \in {"sent", "pick", "finished"}
         /\ \A c \in Conns : c # t => pc'[c] = pc[c]
         /\ FlushHasWork'
         /\ batch' \in [Conns -> Seq(Events)]
         /\ pc' \in [Threads -> SenderStates \cup FlusherStates]
         /\ \A m \in Messages : pc'[m] \in SenderStates
         /\ \A c \in Conns : pc'[c] \in FlusherStates
<1> USE ThreadKinds DEF IInv
<1>1. CASE t \in Messages
  <2>1. Payload(t) = t /\ batch' = batch /\ pc' = [pc EXCEPT ![t] = "sent"]
    BY <1>1 DEF Payload, ReturnsNil
  <2>2. \A u \in Threads : pc'[u] = IF u = t THEN "sent" ELSE pc[u]
    BY <2>1 DEF TypeOK
  <2>3. /\ writes[t] = 0 /\ t \notin dropped
        /\ t \notin Range(messageQueue) \cup InFlight
    BY <1>1 DEF Whereabouts
  <2>4. pc[t] = "enqueue" => t \in Events
    BY <1>1 DEF RequestsNotBuffered
  <2>5. \A c \in Conns : /\ IsInjective(batch'[c])
                         /\ Range(batch'[c]) = Range(batch[c]) \ {t}
    BY <2>1, <2>3 DEF NoCopies, InFlight
  <2>6. FlushHasWork'
    BY <1>1, <2>1, <2>2 DEF FlushHasWork
  <2>7. /\ pc' \in [Threads -> SenderStates \cup FlusherStates]
        /\ \A m \in Messages : pc'[m] \in SenderStates
        /\ \A c \in Conns : pc'[c] \in FlusherStates
    BY <1>1, <2>1, <2>2 DEF TypeOK, SenderStates
  <2>8. batch' \in [Conns -> Seq(Events)]
    BY <2>1 DEF TypeOK
  <2> QED BY <1>1, <2>1, <2>2, <2>3, <2>4, <2>5, <2>6, <2>7, <2>8
<1>2. CASE t \in Conns
  <2> DEFINE e == Head(batch[t])
             rest == Tail(batch[t])
             next == IF rest = <<>> THEN "finished" ELSE "pick"
  <2>1. /\ Payload(t) = e
        /\ batch' = [batch EXCEPT ![t] = rest]
        /\ pc' = [pc EXCEPT ![t] = next]
    BY <1>2 DEF Payload, ReturnsNil
  <2>2. batch[t] \in Seq(Events) /\ batch[t] # <<>> /\ IsInjective(batch[t])
    BY <1>2 DEF TypeOK, FlushHasWork, NoCopies
  <2>3. /\ e \in Events
        /\ rest \in Seq(Events)
        /\ Range(batch[t]) = {e} \cup Range(rest)
        /\ IsInjective(rest) /\ e \notin Range(rest)
    BY <2>2, HeadTailFacts
  <2>4. e \in InFlight
    BY <1>2, <2>3 DEF InFlight
  <2>5. writes[e] = 0 /\ e \notin dropped /\ pc[e] = "sent"
    <3>1. pc[e] = "sent" /\ writes[e] # 1 /\ e \notin dropped /\ writes[e] <= 1
      BY <2>3, <2>4 DEF Whereabouts
    <3>2. writes[e] \in Nat
      BY <2>3 DEF TypeOK
    <3> QED BY <3>1, <3>2
  <2>6. e \notin Range(messageQueue)
    BY <1>2, <2>3 DEF NoCopies
  <2>7. \A c \in Conns : batch'[c] = IF c = t THEN rest ELSE batch[c]
    BY <1>2, <2>1 DEF TypeOK
  <2>8. \A u \in Threads : pc'[u] = IF u = t THEN next ELSE pc[u]
    BY <1>2, <2>1 DEF TypeOK
  <2>9. \A c \in Conns : /\ IsInjective(batch'[c])
                         /\ Range(batch'[c]) = Range(batch[c]) \ {e}
    <3>1. \A c \in Conns : c # t => e \notin Range(batch[c])
      BY <1>2, <2>3 DEF NoCopies
    <3> QED BY <3>1, <2>3, <2>7 DEF NoCopies
  <2>10. FlushHasWork'
    BY <1>2, <2>7, <2>8 DEF FlushHasWork
  <2>11. /\ pc' \in [Threads -> SenderStates \cup FlusherStates]
         /\ \A m \in Messages : pc'[m] \in SenderStates
         /\ \A c \in Conns : pc'[c] \in FlusherStates
    BY <1>2, <2>1, <2>8 DEF TypeOK, FlusherStates
  <2>12. batch' \in [Conns -> Seq(Events)]
    BY <1>2, <2>1, <2>3 DEF TypeOK
  <2>13. \A m \in Messages : pc'[m] = IF m = e THEN "sent" ELSE pc[m]
    BY <1>2, <2>5, <2>8
  <2>14. /\ pc'[t] \in {"sent", "pick", "finished"}
         /\ \A u \in Threads : u # t => pc'[u] = pc[u] \/ pc'[u] = "sent"
         /\ \A c \in Conns : c # t => pc'[c] = pc[c]
    BY <1>2, <2>8
  <2> HIDE DEF e, rest, next
  <2> QED BY <2>1, <2>3, <2>5, <2>6, <2>9, <2>10, <2>11, <2>12, <2>13, <2>14
<1> QED BY <1>1, <1>2

(* A send that fails, in enqueue or in the write, preserves the invariant. *)
LEMMA SendFailsIInv ==
  ASSUME IInv, NEW t \in Threads, pc[t] \in {"enqueue", "write"},
         ReturnsError(t),
         target' = target \/ target' = [target EXCEPT ![t] = NoConn],
         UNCHANGED <<messageQueue, writes, dropped, netVars, hbVars, stopVars>>
  PROVE  IInv'
<1> USE ThreadKinds DEF IInv
<1> DEFINE p == IF t \in Messages THEN "refused" ELSE "requeue"
<1>1. pc' = [pc EXCEPT ![t] = p] /\ UNCHANGED batch
  BY DEF ReturnsError
<1>2. interrupted' \in BOOLEAN
  BY DEF ReturnsError, TypeOK
<1>3. /\ pc' \in [Threads -> SenderStates \cup FlusherStates]
      /\ \A m \in Messages : pc'[m] \in SenderStates
      /\ \A c \in Conns : pc'[c] \in FlusherStates
  BY <1>1 DEF TypeOK, SenderStates, FlusherStates
<1>4. target' \in [Threads -> Conns \cup {NoConn}]
  BY DEF TypeOK
<1>5. TypeOK'
  <2> HIDE DEF p
  <2> QED BY <1>1, <1>2, <1>3, <1>4 DEF TypeOK, netVars, hbVars, stopVars
<1>6. \A u \in Threads : u # t => target'[u] = target[u]
  BY DEF TypeOK
<1> QED BY <1>1, <1>5, <1>6, ControlStepIInv DEF netVars

(* Buffering a message, with or without dropping the oldest, preserves the *)
(* invariant.                                                              *)
LEMMA EnqueueIInv ==
  ASSUME IInv, NEW t \in Threads, Enqueue(t)
  PROVE  IInv'
<1> USE ThreadKinds DEF IInv
<1>1. CASE MaxQueueSize = 0 /\ ReturnsError(t)
  BY <1>1, MaxQueueSizeAssumption, SendFailsIInv DEF Enqueue, ReturnsNil
<1>2. CASE MaxQueueSize # 0 /\ ReturnsNil(t)
  <2> DEFINE e == Payload(t)
             kept == IF QueueIsFull THEN Tail(messageQueue) ELSE messageQueue
             out == IF QueueIsFull THEN {Head(messageQueue)} ELSE {}
  <2>1. /\ pc[t] = "enqueue"
        /\ messageQueue' = Append(kept, e)
        /\ dropped' = dropped \cup out
        /\ UNCHANGED <<interrupted, target, writes, netVars, hbVars, stopVars>>
    BY <1>2 DEF Enqueue
  <2>2. /\ e \in Events /\ writes[e] = 0
        /\ e \notin dropped \cup Range(messageQueue)
        /\ \A c \in Conns : /\ IsInjective(batch'[c])
                            /\ Range(batch'[c]) = Range(batch[c]) \ {e}
        /\ \A m \in Messages : pc'[m] = IF m = e THEN "sent" ELSE pc[m]
        /\ pc'[t] \in {"sent", "pick", "finished"}
        /\ \A u \in Threads : u # t => pc'[u] = pc[u] \/ pc'[u] = "sent"
        /\ \A c \in Conns : c # t => pc'[c] = pc[c]
        /\ FlushHasWork'
        /\ batch' \in [Conns -> Seq(Events)]
        /\ pc' \in [Threads -> SenderStates \cup FlusherStates]
        /\ \A m \in Messages : pc'[m] \in SenderStates
        /\ \A c \in Conns : pc'[c] \in FlusherStates
    BY <1>2, <2>1, ReturnsNilFacts
  <2>3. /\ kept \in Seq(Events)
        /\ IsInjective(kept)
        /\ out \subseteq Range(messageQueue)
        /\ Range(kept) = Range(messageQueue) \ out
    <3>1. CASE QueueIsFull
      <4>1. messageQueue # <<>> /\ messageQueue \in Seq(Events)
        BY <1>2, <3>1, MaxQueueSizeAssumption DEF QueueIsFull, TypeOK
      <4> QED BY <3>1, <4>1, HeadTailFacts DEF NoCopies
    <3>2. CASE ~QueueIsFull
      BY <3>2 DEF TypeOK, NoCopies
    <3> QED BY <3>1, <3>2
  <2> HIDE DEF e, kept, out
  <2>4. /\ messageQueue' \in Seq(Events)
        /\ Range(messageQueue') = (Range(messageQueue) \ out) \cup {e}
        /\ IsInjective(messageQueue')
    <3>1. e \notin Range(kept)
      BY <2>2, <2>3
    <3> QED BY <2>1, <2>2, <2>3, <3>1, AppendFacts
  <2>5. out \subseteq Events
    BY <2>3 DEF TypeOK, Range
  <2>6. TypeOK'
    BY <2>1, <2>2, <2>4, <2>5 DEF TypeOK, netVars, hbVars, stopVars
  <2>7. NoCopies'
    BY <2>2, <2>4 DEF NoCopies
  <2>8. InFlight' = InFlight \ {e}
    BY <2>2 DEF InFlight
  <2>9. Whereabouts'
    <3> SUFFICES ASSUME NEW m \in Messages
                 PROVE  /\ writes'[m] <= 1
                        /\ pc'[m] # "sent" => writes'[m] = 0
                        /\ pc'[m] # "sent" \/ writes'[m] = 1 \/ m \in dropped'
                             => m \notin Range(messageQueue') \cup InFlight'
                        /\ m \in dropped' => pc'[m] = "sent" /\ writes'[m] = 0
                        /\ pc'[m] = "sent" =>
                             \/ writes'[m] = 1
                             \/ m \in dropped'
                             \/ m \in Range(messageQueue')
                             \/ m \in InFlight'
      BY DEF Whereabouts
    <3>1. CASE m = e
      BY <3>1, <2>1, <2>2, <2>3, <2>4, <2>8
    <3>2. CASE m # e /\ m \in out
      <4>1. writes[m] = 0 /\ pc[m] = "sent"
        <5>1. writes[m] \in Nat
          BY DEF TypeOK
        <5> QED BY <3>2, <2>3, <5>1 DEF Whereabouts
      <4>2. m \notin InFlight
        BY <3>2, <2>3 DEF NoCopies, InFlight
      <4> QED BY <3>2, <4>1, <4>2, <2>1, <2>2, <2>4, <2>8
    <3>3. CASE m # e /\ m \notin out
      <4>1. /\ pc'[m] = pc[m] /\ writes'[m] = writes[m]
            /\ m \in dropped' <=> m \in dropped
            /\ m \in Range(messageQueue') <=> m \in Range(messageQueue)
            /\ m \in InFlight' <=> m \in InFlight
        BY <3>3, <2>1, <2>2, <2>4, <2>8
      <4> QED BY <4>1 DEF Whereabouts
    <3> QED BY <3>1, <3>2, <3>3
  <2>10. NotYetAppended'
    BY <2>1, <2>2 DEF NotYetAppended, netVars
  <2>11. RequestsNotBuffered'
    BY <2>2 DEF RequestsNotBuffered
  <2>12. WriterHasTarget'
    BY <2>1, <2>2 DEF WriterHasTarget
  <2> QED BY <2>2, <2>6, <2>7, <2>9, <2>10, <2>11, <2>12
<1> QED BY <1>1, <1>2 DEF Enqueue

(* Writing a message out, or failing to, preserves the invariant.          *)
LEMMA WriteIInv ==
  ASSUME IInv, NEW t \in Threads, Write(t)
  PROVE  IInv'
<1> USE ThreadKinds DEF IInv
<1>1. CASE ReturnsError(t) /\ UNCHANGED writes
  BY <1>1, SendFailsIInv DEF Write
<1>2. CASE ReturnsNil(t) /\ writes' = [writes EXCEPT ![Payload(t)] = @ + 1]
                         /\ UNCHANGED interrupted
  <2> DEFINE e == Payload(t)
  <2>1. /\ pc[t] = "write"
        /\ target' = [target EXCEPT ![t] = NoConn]
        /\ UNCHANGED <<messageQueue, interrupted, dropped, netVars, hbVars,
                       stopVars>>
    BY <1>2 DEF Write
  <2>2. /\ e \in Messages /\ writes[e] = 0
        /\ e \notin dropped \cup Range(messageQueue)
        /\ \A c \in Conns : /\ IsInjective(batch'[c])
                            /\ Range(batch'[c]) = Range(batch[c]) \ {e}
        /\ \A m \in Messages : pc'[m] = IF m = e THEN "sent" ELSE pc[m]
        /\ pc'[t] \in {"sent", "pick", "finished"}
        /\ \A u \in Threads : u # t => pc'[u] = pc[u] \/ pc'[u] = "sent"
        /\ \A c \in Conns : c # t => pc'[c] = pc[c]
        /\ FlushHasWork'
        /\ batch' \in [Conns -> Seq(Events)]
        /\ pc' \in [Threads -> SenderStates \cup FlusherStates]
        /\ \A m \in Messages : pc'[m] \in SenderStates
        /\ \A c \in Conns : pc'[c] \in FlusherStates
    BY <1>2, <2>1, ReturnsNilFacts
  <2>3. \A m \in Messages : writes'[m] = IF m = e THEN 1 ELSE writes[m]
    BY <1>2, <2>2 DEF TypeOK
  <2>4. writes' \in [Messages -> Nat]
    BY <1>2, <2>2 DEF TypeOK
  <2> HIDE DEF e
  <2>5. TypeOK'
    BY <2>1, <2>2, <2>4 DEF TypeOK, netVars, hbVars, stopVars
  <2>6. NoCopies'
    BY <2>1, <2>2 DEF NoCopies
  <2>7. InFlight' = InFlight \ {e}
    BY <2>2 DEF InFlight
  <2>8. Whereabouts'
    BY <2>1, <2>2, <2>3, <2>7 DEF Whereabouts
  <2>9. NotYetAppended'
    BY <2>1, <2>2 DEF NotYetAppended, netVars
  <2>10. RequestsNotBuffered'
    BY <2>2 DEF RequestsNotBuffered
  <2>11. WriterHasTarget'
    <3> SUFFICES ASSUME NEW u \in Threads, pc'[u] = "write"
                 PROVE  target'[u] \in Conns
      BY DEF WriterHasTarget
    <3>1. u # t /\ pc[u] = "write"
      BY <2>2
    <3> QED BY <3>1, <2>1 DEF WriterHasTarget, TypeOK
  <2> QED BY <2>2, <2>5, <2>6, <2>8, <2>9, <2>10, <2>11
<1> QED BY <1>1, <1>2 DEF Write

-------------------------------------------------------------------------------
(***************************************************************************)
(* Steps of flushQueue itself.                                             *)
(***************************************************************************)
(* Moving the whole queue into a flush's slice, or what is left of a slice *)
(* to the front of the queue, preserves the invariant.                     *)
LEMMA FlushQueueIInv ==
  ASSUME IInv, NEW c \in Conns, FlushQueue(c)
  PROVE  IInv'
<1> USE ThreadKinds, EmptySeqFacts DEF IInv
<1>1. /\ UNCHANGED <<target, writes, dropped, interrupted, netVars, hbVars,
                     stopVars>>
      /\ pc[c] \in {"take", "requeue"}
      /\ pc[c] = "take" => batch[c] = <<>>
  BY DEF FlushQueue, FlushTake, Requeue, FlushHasWork
<1> DEFINE q == messageQueue'
           b == batch'[c]
           p == pc'[c]
<1>2. /\ batch' = [batch EXCEPT ![c] = b]
      /\ pc' = [pc EXCEPT ![c] = p]
      /\ p \in {"finished", "pick"}
      /\ p = "pick" <=> b # <<>>
      /\ q \in Seq(Events) /\ b \in Seq(Events)
      /\ IsInjective(q) /\ IsInjective(b)
      /\ Range(q) \cap Range(b) = {}
      /\ Range(q) \cup Range(b) = Range(messageQueue) \cup Range(batch[c])
  <2>1. messageQueue \in Seq(Events) /\ batch[c] \in Seq(Events)
    BY DEF TypeOK
  <2>2. /\ IsInjective(messageQueue) /\ IsInjective(batch[c])
        /\ Range(messageQueue) \cap Range(batch[c]) = {}
    BY DEF NoCopies
  <2>3. CASE FlushTake(c)
    <3>1. /\ q = <<>> /\ b = messageQueue
          /\ p = IF messageQueue = <<>> THEN "finished" ELSE "pick"
          /\ batch' = [batch EXCEPT ![c] = b]
          /\ pc' = [pc EXCEPT ![c] = p]
          /\ batch[c] = <<>>
      BY <2>3, <1>1 DEF FlushTake, TypeOK
    <3>2. <<>> \in Seq(Events)
      OBVIOUS
    <3> QED BY <2>1, <2>2, <3>1, <3>2
  <2>4. CASE Requeue(c)
    <3>1. /\ q = batch[c] \o messageQueue /\ b = <<>>
          /\ p = "finished"
          /\ batch' = [batch EXCEPT ![c] = b]
          /\ pc' = [pc EXCEPT ![c] = p]
      BY <2>4 DEF Requeue, TypeOK
    <3>2. <<>> \in Seq(Events)
      OBVIOUS
    <3> QED BY <2>1, <2>2, <3>1, <3>2, ConcatFacts
  <2> QED BY <2>3, <2>4 DEF FlushQueue
<1> HIDE DEF q, b, p
<1>3. messageQueue' = q
  BY DEF q
<1>4. \A d \in Conns : batch'[d] = IF d = c THEN b ELSE batch[d]
  BY <1>2 DEF TypeOK
<1>5. \A u \in Threads : pc'[u] = IF u = c THEN p ELSE pc[u]
  BY <1>2 DEF TypeOK
<1>6. TypeOK'
  <2>1. /\ pc' \in [Threads -> SenderStates \cup FlusherStates]
        /\ \A m \in Messages : pc'[m] \in SenderStates
        /\ \A d \in Conns : pc'[d] \in FlusherStates
    BY <1>2 DEF TypeOK, FlusherStates
  <2>2. batch' \in [Conns -> Seq(Events)]
    BY <1>2 DEF TypeOK
  <2> QED BY <1>1, <1>2, <1>3, <2>1, <2>2 DEF TypeOK, netVars, hbVars, stopVars
<1>7. NoCopies'
  <2>1. \A d \in Conns \ {c} :
           /\ IsInjective(batch'[d])
           /\ (Range(q) \cup Range(b)) \cap Range(batch'[d]) = {}
    <3> SUFFICES ASSUME NEW d \in Conns \ {c}
                 PROVE  /\ IsInjective(batch'[d])
                        /\ (Range(q) \cup Range(b)) \cap Range(batch'[d]) = {}
      OBVIOUS
    <3>1. /\ Range(messageQueue) \cap Range(batch[d]) = {}
          /\ Range(batch[c]) \cap Range(batch[d]) = {}
          /\ IsInjective(batch[d])
      BY DEF NoCopies
    <3> QED BY <3>1, <1>2, <1>4
  <2>2. \A d, e \in Conns \ {c} :
           d # e => Range(batch'[d]) \cap Range(batch'[e]) = {}
    BY <1>4 DEF NoCopies
  <2>3. batch'[c] = b
    BY <1>4
  <2> QED BY <1>2, <1>3, <2>1, <2>2, <2>3 DEF NoCopies
<1>8. Range(q) \cup InFlight' = Range(messageQueue) \cup InFlight
  BY <1>2, <1>4 DEF InFlight
<1>9. Whereabouts'
  BY <1>1, <1>3, <1>5, <1>8 DEF Whereabouts
<1>10. FlushHasWork'
  BY <1>2, <1>4, <1>5 DEF FlushHasWork
<1>11. NotYetAppended'
  BY <1>1, <1>5 DEF NotYetAppended, netVars
<1>12. RequestsNotBuffered' /\ WriterHasTarget'
  BY <1>1, <1>2, <1>5 DEF RequestsNotBuffered, WriterHasTarget
<1> QED BY <1>6, <1>7, <1>9, <1>10, <1>11, <1>12

-------------------------------------------------------------------------------
(***************************************************************************)
(* The theorems.                                                           *)
(***************************************************************************)
(* Every step of BackendPool preserves the invariant.                      *)
LEMMA NextIInv == IInv /\ [Next]_vars => IInv'
<1> SUFFICES ASSUME IInv, [Next]_vars PROVE IInv'
  OBVIOUS
<1>1. CASE \E c \in Conns : Network(c) \/ Accept(c)
  BY <1>1, NetworkIInv
<1>2. CASE \E c \in Conns : Handler(c)
  BY <1>2, HandlerIInv
<1>3. CASE \E c \in Conns : FlushQueue(c)
  BY <1>3, FlushQueueIInv
<1>4. CASE AppendClient
  BY <1>4, AppendClientIInv
<1>5. CASE \E t \in Threads : SendMessage(t)
  BY <1>5, GetRandomConnectionIInv, EnqueueIInv, WriteIInv DEF SendMessage
<1>6. CASE HeartbeatLoop \/ DeadlinePasses
  BY <1>6, HeartbeatIInv
<1>7. CASE Stop
  BY <1>7, StopIInv
<1>8. CASE UNCHANGED vars
  <2>1. ControlTypeOK'
    BY <1>8 DEF IInv, TypeOK, ControlTypeOK, vars, netVars, hbVars, stopVars
  <2>2. UNCHANGED <<sendVars, link, acceptor>>
    BY <1>8 DEF vars, netVars
  <2> QED BY <2>1, <2>2, OtherStepIInv DEF IInv, NotYetAppended
<1> QED BY <1>1, <1>2, <1>3, <1>4, <1>5, <1>6, <1>7, <1>8 DEF Next

(* IInv is an invariant of the specification.                              *)
THEOREM InductiveInvariant == Spec => []IInv
BY InitIInv, NextIInv, PTL DEF Spec

(* Type correctness.                                                       *)
THEOREM TypeCorrect == Spec => []TypeOK
<1>1. IInv => TypeOK
  BY DEF IInv
<1> QED BY <1>1, InductiveInvariant, PTL

(* No message is written to the backends twice, whatever the number of     *)
(* backends, of concurrent flushes and of callers.                         *)
THEOREM AtMostOnce == Spec => []NoDuplicateDelivery
<1>1. IInv => NoDuplicateDelivery
  BY DEF IInv, Whereabouts, NoDuplicateDelivery
<1> QED BY <1>1, InductiveInvariant, PTL

(* A message accepted by sendMessage is written, buffered, in a flush or   *)
(* dropped for want of room, and exactly one of these.                     *)
THEOREM Conservation == Spec => []NoSilentLoss
<1>1. IInv => NoSilentLoss
  <2> SUFFICES ASSUME IInv, NEW m \in Messages, pc[m] = "sent"
               PROVE  Accounted(m)
    BY DEF NoSilentLoss
  <2>1. writes[m] = 0 \/ writes[m] = 1
    BY DEF IInv, TypeOK, Whereabouts
  <2>2. ~(m \in Range(messageQueue) /\ m \in InFlight)
    BY DEF IInv, NoCopies, InFlight
  <2> QED BY <2>1, <2>2 DEF IInv, Whereabouts, Accounted
<1> QED BY <1>1, InductiveInvariant, PTL

-------------------------------------------------------------------------------
(***************************************************************************)
(* The bound on the queue.  It can only be passed by Requeue, which an     *)
(* uninterrupted flush never reaches.                                      *)
(***************************************************************************)
NoInterruptedFlush == ~interrupted => \A c \in Conns : pc[c] # "requeue"
BInv == BoundedUnlessInterrupted /\ NoInterruptedFlush

(* A step that neither touches the queue nor sends anyone to requeue       *)
(* without noting the interruption preserves the bound.                    *)
LEMMA QueueUntouched ==
  ASSUME BInv, messageQueue' = messageQueue,
         interrupted => interrupted',
         ~interrupted' => \A c \in Conns : pc'[c] = "requeue" => pc[c] = "requeue"
  PROVE  BInv'
BY DEF BInv, BoundedUnlessInterrupted, NoInterruptedFlush

(* A send that returns nil sends no flush to requeue.                      *)
LEMMA ReturnsNilNoRequeue ==
  ASSUME TypeOK, NEW t \in Threads, ReturnsNil(t), NEW c \in Conns,
         pc'[c] = "requeue"
  PROVE  pc[c] = "requeue"
BY ThreadKinds DEF ReturnsNil, TypeOK

(* A send that returns an error notes the interruption of a flush.         *)
LEMMA ReturnsErrorNoted ==
  ASSUME TypeOK, NEW t \in Threads, ReturnsError(t)
  PROVE  /\ interrupted => interrupted'
         /\ ~interrupted' => \A c \in Conns :
                               pc'[c] = "requeue" => pc[c] = "requeue"
BY ThreadKinds DEF ReturnsError, TypeOK

(* Every step of BackendPool preserves the bound.                          *)
LEMMA NextBInv == IInv /\ BInv /\ [Next]_vars => BInv'
<1> SUFFICES ASSUME IInv, BInv, [Next]_vars PROVE BInv'
  OBVIOUS
<1>0. TypeOK
  BY DEF IInv
<1>1. CASE UNCHANGED sendVars
  BY <1>1, QueueUntouched DEF sendVars
<1>2. CASE AppendClient
  <2>1. \A c \in Conns : pc'[c] = "requeue" => pc[c] = "requeue"
    BY <1>0, <1>2, ThreadKinds DEF AppendClient, TypeOK
  <2> QED BY <1>2, <2>1, QueueUntouched DEF AppendClient
<1>3. ASSUME NEW t \in Threads, GetsConnection(t)
      PROVE  BInv'
  <2>1. \A c \in Conns : pc'[c] = "requeue" => pc[c] = "requeue"
    BY <1>0, <1>3, ThreadKinds DEF GetsConnection, TypeOK
  <2> QED BY <1>3, <2>1, QueueUntouched DEF GetsConnection
<1>4. ASSUME NEW t \in Threads, NoConnection(t)
      PROVE  BInv'
  <2>1. messageQueue' = messageQueue
    BY <1>4 DEF NoConnection
  <2>2. CASE ReturnsError(t)
    BY <1>0, <2>1, <2>2, ReturnsErrorNoted, QueueUntouched
  <2>3. CASE pc' = [pc EXCEPT ![t] = "enqueue"] /\ UNCHANGED interrupted
    <3>1. \A c \in Conns : pc'[c] = "requeue" => pc[c] = "requeue"
      BY <1>0, <2>3, ThreadKinds DEF TypeOK
    <3> QED BY <2>1, <2>3, <3>1, QueueUntouched
  <2> QED BY <1>4, <2>2, <2>3 DEF NoConnection
<1>5. ASSUME NEW t \in Threads, Enqueue(t)
      PROVE  BInv'
  <2>1. CASE ReturnsError(t) /\ UNCHANGED messageQueue
    BY <1>0, <2>1, ReturnsErrorNoted, QueueUntouched
  <2>2. CASE MaxQueueSize # 0 /\ ReturnsNil(t) /\ UNCHANGED interrupted
    <3>1. NoInterruptedFlush'
      BY <1>0, <2>2, ReturnsNilNoRequeue DEF BInv, NoInterruptedFlush
    <3>2. messageQueue \in Seq(Events) /\ Payload(t) \in Events
      BY <1>0, <1>5, <2>2, ReturnsNilFacts DEF TypeOK, Enqueue
    <3>3. CASE /\ QueueIsFull
               /\ messageQueue' = Append(Tail(messageQueue), Payload(t))
      <4>1. messageQueue # <<>>
        BY <2>2, <3>2, <3>3, MaxQueueSizeAssumption DEF QueueIsFull
      <4>2. Len(messageQueue') = Len(messageQueue)
        <5>1. /\ Tail(messageQueue) \in Seq(Events)
              /\ Len(Tail(messageQueue)) = Len(messageQueue) - 1
          BY <3>2, <4>1, HeadTailFacts
        <5>2. Len(messageQueue') = Len(Tail(messageQueue)) + 1
          BY <3>2, <3>3, <5>1, AppendFacts
        <5>3. Len(messageQueue) \in Nat
          BY <3>2
        <5> QED BY <5>1, <5>2, <5>3
      <4> QED BY <2>2, <3>1, <4>2 DEF BInv, BoundedUnlessInterrupted
    <3>4. CASE ~QueueIsFull /\ messageQueue' = Append(messageQueue, Payload(t))
      <4>1. Len(messageQueue') = Len(messageQueue) + 1
        BY <3>2, <3>4, AppendFacts
      <4>2. Len(messageQueue) \in Nat
        BY <3>2
      <4>3. Len(messageQueue') <= MaxQueueSize
        BY <3>4, <4>1, <4>2, MaxQueueSizeAssumption DEF QueueIsFull
      <4> QED BY <3>1, <4>3 DEF BInv, BoundedUnlessInterrupted
    <3> QED BY <1>5, <2>2, <3>3, <3>4, MaxQueueSizeAssumption DEF Enqueue
  <2> QED BY <1>5, <2>1, <2>2 DEF Enqueue
<1>6. ASSUME NEW t \in Threads, Write(t)
      PROVE  BInv'
  <2>1. messageQueue' = messageQueue
    BY <1>6 DEF Write
  <2>2. CASE ReturnsError(t)
    BY <1>0, <2>1, <2>2, ReturnsErrorNoted, QueueUntouched
  <2>3. CASE ReturnsNil(t) /\ UNCHANGED interrupted
    BY <1>0, <2>1, <2>3, ReturnsNilNoRequeue, QueueUntouched
  <2> QED BY <1>6, <2>2, <2>3 DEF Write
<1>7. ASSUME NEW c \in Conns, FlushTake(c)
      PROVE  BInv'
  <2>1. \A d \in Conns : pc'[d] = "requeue" => pc[d] = "requeue"
    BY <1>0, <1>7, ThreadKinds DEF FlushTake, TypeOK
  <2>2. Len(messageQueue') = 0 /\ UNCHANGED interrupted
    BY <1>7 DEF FlushTake
  <2> QED BY <2>1, <2>2, MaxQueueSizeAssumption
          DEF BInv, BoundedUnlessInterrupted, NoInterruptedFlush
<1>8. ASSUME NEW c \in Conns, Requeue(c)
      PROVE  BInv'
  <2>1. interrupted' = TRUE
    BY <1>0, <1>8 DEF Requeue, BInv, NoInterruptedFlush, TypeOK
  <2> QED BY <2>1 DEF BInv, BoundedUnlessInterrupted, NoInterruptedFlush
<1>9. CASE \E c \in Conns : Network(c) \/ Accept(c) \/ Handler(c)
  <2>1. UNCHANGED sendVars
    BY <1>9 DEF Network, PeerHangs, BufferFills, PeerResumes, PeerGoes, Accept,
                Handler, HandlerReads, HandlerPushes, HandlerExit, HandlerCloses
  <2> QED BY <1>1, <2>1
<1>10. CASE HeartbeatLoop \/ DeadlinePasses \/ Stop
  <2>1. UNCHANGED sendVars
    BY <1>10 DEF HeartbeatLoop, DeadlinePasses, PingStarts, SetWriteDeadline,
                 PingWrite, PingReap, HeartbeatExits, Stop, StopSignals,
                 StopCloses
  <2> QED BY <1>1, <2>1
<1>11. CASE UNCHANGED vars
  BY <1>1, <1>11 DEF vars
<1> QED
  BY <1>2, <1>3, <1>4, <1>5, <1>6, <1>7, <1>8, <1>9, <1>10, <1>11
     DEF Next, SendMessage, FlushQueue

(* As long as no flush is interrupted by an error, the queue never holds   *)
(* more than maxQueueSize events.                                          *)
THEOREM BoundedQueue == Spec => []BoundedUnlessInterrupted
<1>1. Init => BInv
  BY ThreadKinds, MaxQueueSizeAssumption
     DEF Init, BInv, BoundedUnlessInterrupted, NoInterruptedFlush
<1>2. BInv => BoundedUnlessInterrupted
  BY DEF BInv
<1> QED BY <1>1, <1>2, NextBInv, InductiveInvariant, PTL DEF Spec

-------------------------------------------------------------------------------
(***************************************************************************)
(* The pool and the goroutines that own its connections.                   *)
(***************************************************************************)
PInv ==
    /\ PoolMatchesHandlers
    /\ \A c \in Conns : /\ link[c] = "none" \/ acceptor = c => handler[c] = "none"
                        /\ handler[c] = "none" /\ link[c] # "none" => acceptor = c
                        /\ handler[c] = "returned" => link[c] = "closed"

(* A step that changes neither the pool nor a handler, and opens no closed *)
(* connection, keeps pool and handlers in agreement.                       *)
LEMMA PoolUntouched ==
  ASSUME PInv, UNCHANGED <<Clients, handler>>,
         \A c \in Conns : /\ link[c] = "closed" => link'[c] = "closed"
                          /\ link'[c] = "none" => link[c] = "none"
                          /\ link[c] = "none" /\ link'[c] # "none" => acceptor' = c
                          /\ acceptor = c => acceptor' = c
                          /\ acceptor' = c => acceptor = c \/ link[c] = "none"
  PROVE  PInv'
BY DEF PInv, PoolMatchesHandlers

(* Every step of BackendPool keeps pool and handlers in agreement.         *)
LEMMA NextPInv == IInv /\ PInv /\ [Next]_vars => PInv'
<1> SUFFICES ASSUME IInv, PInv, [Next]_vars PROVE PInv'
  OBVIOUS
<1>0. /\ link \in [Conns -> LinkStates]
      /\ handler \in [Conns -> HandlerStates]
      /\ acceptor \in Conns \cup {NoConn}
      /\ acceptor \in Conns => link[acceptor] # "none"
  BY DEF IInv, TypeOK, NotYetAppended
<1>1. CASE UNCHANGED netVars
  BY <1>1, PoolUntouched DEF netVars
<1>2. ASSUME NEW c \in Conns, Network(c)
      PROVE  PInv'
  <2>1. /\ UNCHANGED <<Clients, acceptor, handler>>
        /\ link[c] \notin {"none", "closed"}
        /\ link'[c] \notin {"none", "closed"}
        /\ \A d \in Conns : d # c => link'[d] = link[d]
    BY <1>0, <1>2 DEF Network, PeerHangs, BufferFills, PeerResumes, PeerGoes
  <2>2. \A d \in Conns : /\ link[d] = "closed" => link'[d] = "closed"
                         /\ link'[d] = "none" <=> link[d] = "none"
    BY <2>1
  <2> QED BY <2>1, <2>2, PoolUntouched
<1>3. ASSUME NEW c \in Conns, Accept(c)
      PROVE  PInv'
  BY <1>0, <1>3, NoConnAssumption, PoolUntouched DEF Accept
<1>4. CASE AppendClient
  BY <1>0, <1>4, NoConnAssumption DEF AppendClient, PInv, PoolMatchesHandlers
<1>5. ASSUME NEW c \in Conns, Handler(c)
      PROVE  PInv'
  <2>1. CASE HandlerReads(c) \/ HandlerPushes(c)
    BY <1>0, <2>1 DEF HandlerReads, HandlerPushes, PInv, PoolMatchesHandlers
  <2>2. CASE HandlerExit(c)
    BY <1>0, <2>2 DEF HandlerExit, HandlerLeaves, PInv, PoolMatchesHandlers
  <2>3. CASE HandlerCloses(c)
    BY <1>0, <2>3 DEF HandlerCloses, PInv, PoolMatchesHandlers
  <2> QED BY <1>5, <2>1, <2>2, <2>3 DEF Handler
<1>6. CASE PingReap
  BY <1>0, <1>6 DEF PingReap, PInv, PoolMatchesHandlers
<1>7. CASE StopCloses
  BY <1>0, <1>7 DEF StopCloses, PInv, PoolMatchesHandlers
<1>8. ASSUME NEW t \in Threads, SendMessage(t)
      PROVE  PInv'
  BY <1>1, <1>8 DEF SendMessage, GetsConnection, NoConnection, Enqueue, Write
<1>9. ASSUME NEW c \in Conns, FlushQueue(c)
      PROVE  PInv'
  BY <1>1, <1>9 DEF FlushQueue, FlushTake, Requeue
<1>10. CASE HeartbeatLoop \/ DeadlinePasses
  BY <1>1, <1>6, <1>10 DEF HeartbeatLoop, DeadlinePasses, PingStarts,
                           SetWriteDeadline, PingWrite, HeartbeatExits
<1>11. CASE StopSignals
  BY <1>1, <1>11 DEF StopSignals
<1>12. CASE UNCHANGED vars
  BY <1>1, <1>12 DEF vars
<1> QED
  BY <1>2, <1>3, <1>4, <1>5, <1>7, <1>8, <1>9, <1>10, <1>11, <1>12
     DEF Next, Stop

(* A pooled connection has a handler that will remove it, and a connection *)
(* taken out of the pool under its handler is closed.                      *)
THEOREM PoolAgreesWithHandlers == Spec => []PoolMatchesHandlers
<1>1. Init => PInv
  BY NoConnAssumption DEF Init, PInv, PoolMatchesHandlers
<1>2. PInv => PoolMatchesHandlers
  BY DEF PInv
<1> QED BY <1>1, <1>2, NextPInv, InductiveInvariant, PTL DEF Spec

(* Stop leaves open only what the accept loop or a closing handler holds.  *)
THEOREM StopClosesThePool == Spec => StopLeavesOnlyUnpooled
<1> DEFINE Leaves(c) == link'[c] \in {"open", "hung", "stalled", "broken"} =>
                          acceptor = c \/ handler[c] = "closing"
<1>1. Init => PInv
  BY NoConnAssumption DEF Init, PInv, PoolMatchesHandlers
<1>2. IInv /\ PInv /\ [Next]_vars =>
        [stopping /\ ~stopping' => \A c \in Conns : Leaves(c)]_vars
  <2> SUFFICES ASSUME IInv, PInv, Next, stopping, ~stopping', NEW c \in Conns
               PROVE  Leaves(c)
    BY DEF vars
  <2>1. StopCloses
    BY DEF Next, Network, PeerHangs, BufferFills, PeerResumes, PeerGoes, Accept,
           Handler, HandlerReads, HandlerPushes, HandlerExit, HandlerCloses,
           FlushQueue, FlushTake, Requeue, AppendClient, SendMessage,
           GetsConnection, NoConnection, Enqueue, Write, HeartbeatLoop,
           PingStarts, SetWriteDeadline, PingWrite, PingReap, HeartbeatExits,
           DeadlinePasses, Stop, StopSignals, stopVars
  <2>2. handler[c] \in HandlerStates /\ link[c] \in LinkStates
    BY DEF IInv, TypeOK
  <2>3. CASE c \in Clients
    BY <2>1, <2>3 DEF StopCloses
  <2>4. CASE c \notin Clients
    BY <2>1, <2>2, <2>4 DEF StopCloses, PInv, PoolMatchesHandlers, HandlerStates
  <2> QED BY <2>3, <2>4
<1> QED
  BY <1>1, <1>2, NextPInv, InductiveInvariant, PTL
     DEF Spec, StopLeavesOnlyUnpooled

-------------------------------------------------------------------------------
(***************************************************************************)
(* BackendPool implements EventDelivery.  A step of BackendPool is a step  *)
(* of EventDelivery when it ends a call of sendMessage, buffers, drops or  *)
(* writes a message, and a stutter otherwise.                              *)
(***************************************************************************)
status == [m \in Messages |-> StatusOf(m)]

(* The status of a message, spelled out case by case.                      *)
LEMMA StatusCases ==
  ASSUME IInv, NEW m \in Messages
  PROVE  /\ writes[m] = 0 \/ writes[m] = 1
         /\ StatusOf(m) = "written" <=> writes[m] = 1
         /\ StatusOf(m) = "dropped" <=> m \in dropped
         /\ StatusOf(m) = "buffered" <=>
              pc[m] = "sent" /\ writes[m] = 0 /\ m \notin dropped
         /\ StatusOf(m) = "refused" <=> pc[m] = "refused"
         /\ StatusOf(m) = "new" <=> pc[m] \notin {"sent", "refused"}
<1>1. /\ writes[m] = 0 \/ writes[m] = 1
      /\ pc[m] # "sent" => writes[m] = 0 /\ m \notin dropped
      /\ m \in dropped => writes[m] = 0
  BY DEF IInv, TypeOK, Whereabouts
<1> QED BY <1>1 DEF StatusOf

(* A step in which no caller is answered and nothing is written or dropped *)
(* is a stutter.                                                           *)
LEMMA StatusUnchanged ==
  ASSUME UNCHANGED <<writes, dropped>>,
         \A m \in Messages : /\ pc'[m] = "sent" <=> pc[m] = "sent"
                             /\ pc'[m] = "refused" <=> pc[m] = "refused"
  PROVE  status' = status
<1>1. ASSUME NEW m \in Messages PROVE StatusOf(m)' = StatusOf(m)
  BY DEF StatusOf
<1> QED BY <1>1 DEF status

(* A send that returns an error refuses the message to its caller; in a    *)
(* flush it is a stutter.                                                  *)
LEMMA ErrorRefines ==
  ASSUME IInv, IInv', NEW t \in Threads, ReturnsError(t),
         pc[t] \notin {"sent", "refused"}, UNCHANGED <<writes, dropped>>
  PROVE  Delivery!Next \/ status' = status
<1>1. \A u \in Threads :
         pc'[u] = IF u = t THEN IF t \in Messages THEN "refused" ELSE "requeue"
                           ELSE pc[u]
  BY DEF ReturnsError, IInv, TypeOK
<1>2. CASE t \in Conns
  BY <1>1, <1>2, ThreadKinds, StatusUnchanged
<1>3. CASE t \in Messages
  <2>1. StatusOf(t) = "new" /\ StatusOf(t)' = "refused"
    BY <1>1, <1>3, ThreadKinds, StatusCases DEF StatusOf, IInv, Whereabouts
  <2>2. ASSUME NEW m \in Messages, m # t
        PROVE  StatusOf(m)' = StatusOf(m)
    BY <1>1, <2>2, ThreadKinds DEF StatusOf
  <2>3. Delivery!Refuse(t)
    BY <1>3, <2>1, <2>2 DEF Delivery!Refuse
  <2> QED BY <1>3, <2>3 DEF Delivery!Next, Delivery!Messages, Messages
<1> QED BY <1>2, <1>3, ThreadKinds

(* Writing a message out is Write of EventDelivery.                        *)
LEMMA WriteRefines ==
  ASSUME IInv, IInv', NEW t \in Threads, Write(t)
  PROVE  Delivery!Next \/ status' = status
<1>1. CASE ReturnsError(t) /\ UNCHANGED writes
  BY <1>1, ErrorRefines DEF Write
<1>2. CASE ReturnsNil(t) /\ writes' = [writes EXCEPT ![Payload(t)] = @ + 1]
  <2>0. PICK e \in Messages : e = Payload(t)
    BY <1>2, ReturnsNilFacts DEF Write
  <2>1. /\ e \in Messages /\ writes[e] = 0 /\ e \notin dropped
        /\ \A m \in Messages : pc'[m] = IF m = e THEN "sent" ELSE pc[m]
    BY <1>2, <2>0, ReturnsNilFacts DEF Write
  <2>2. dropped' = dropped
    BY <1>2 DEF Write
  <2>3. \A m \in Messages : writes'[m] = IF m = e THEN 1 ELSE writes[m]
    BY <1>2, <2>0, <2>1 DEF IInv, TypeOK
  <2>4. pc[e] # "refused"
    <3>1. CASE t \in Messages
      BY <3>1, <1>2, <2>0 DEF Write, Payload
    <3>2. CASE t \in Conns
      <4>1. batch[t] \in Seq(Events) /\ batch[t] # <<>>
        BY <3>2 DEF IInv, TypeOK, FlushHasWork, Write
      <4>2. e \in InFlight /\ pc[e] # "refused"
        BY <3>2, <4>1, <2>0, <2>1, ThreadKinds, HeadTailFacts
           DEF Payload, InFlight, IInv, Whereabouts
      <4> QED BY <4>2
    <3> QED BY <3>1, <3>2, ThreadKinds
  <2>5. StatusOf(e) \in {"new", "buffered"} /\ StatusOf(e)' = "written"
    BY <2>1, <2>3, <2>4 DEF StatusOf
  <2>6. ASSUME NEW m \in Messages, m # e
        PROVE  StatusOf(m)' = StatusOf(m)
    BY <2>1, <2>2, <2>3, <2>6 DEF StatusOf
  <2>7. Delivery!Write(e)
    BY <2>1, <2>5, <2>6 DEF Delivery!Write
  <2> QED BY <2>1, <2>7 DEF Delivery!Next, Delivery!Messages, Messages
<1> QED BY <1>1, <1>2 DEF Write

(* Buffering a caller's message is Buffer of EventDelivery; a flush that   *)
(* buffers again what it had taken is a Displace, or a stutter.            *)
LEMMA EnqueueRefines ==
  ASSUME IInv, IInv', NEW t \in Threads, Enqueue(t)
  PROVE  Delivery!Next \/ status' = status
<1>1. CASE ReturnsError(t) /\ UNCHANGED dropped
  BY <1>1, ErrorRefines DEF Enqueue
<1>2. CASE MaxQueueSize # 0 /\ ReturnsNil(t)
  <2>0. PICK e \in Events, d \in Events :
           /\ e = Payload(t)
           /\ d = IF QueueIsFull THEN Head(messageQueue) ELSE e
    <3>1. Payload(t) \in Events
      BY <1>2, ReturnsNilFacts DEF Enqueue
    <3>2. QueueIsFull => Head(messageQueue) \in Events
      <4>1. QueueIsFull => messageQueue # <<>> /\ messageQueue \in Seq(Events)
        BY <1>2, MaxQueueSizeAssumption DEF QueueIsFull, IInv, TypeOK
      <4> QED BY <4>1, HeadTailFacts
    <3> QED BY <3>1, <3>2
  <2>1. /\ e \in Events /\ e \in Messages
        /\ writes[e] = 0 /\ e \notin dropped /\ e \notin Range(messageQueue)
        /\ \A m \in Messages : pc'[m] = IF m = e THEN "sent" ELSE pc[m]
    BY <1>2, <2>0, ReturnsNilFacts, ThreadKinds DEF Enqueue
  <2>2. pc[e] # "refused"
    <3>1. CASE t \in Messages
      BY <3>1, <1>2, <2>0 DEF Enqueue, Payload
    <3>2. CASE t \in Conns
      <4>1. batch[t] \in Seq(Events) /\ batch[t] # <<>>
        BY <3>2 DEF IInv, TypeOK, FlushHasWork, Enqueue
      <4>2. e \in InFlight /\ pc[e] # "refused"
        BY <3>2, <4>1, <2>0, <2>1, ThreadKinds, HeadTailFacts
           DEF Payload, InFlight, IInv, Whereabouts
      <4> QED BY <4>2
    <3> QED BY <3>1, <3>2, ThreadKinds
  <2>3. /\ writes' = writes
        /\ dropped' = dropped \cup ({d} \ {e})
        /\ d # e => d \in Range(messageQueue)
    <3>1. CASE QueueIsFull
      <4>1. messageQueue # <<>> /\ messageQueue \in Seq(Events)
        BY <1>2, <3>1, MaxQueueSizeAssumption DEF QueueIsFull, IInv, TypeOK
      <4>2. d = Head(messageQueue) /\ d \in Range(messageQueue)
        BY <3>1, <4>1, <2>0, HeadTailFacts
      <4>3. writes' = writes /\ dropped' = dropped \cup {d}
        BY <1>2, <3>1, <4>2 DEF Enqueue
      <4> QED BY <4>2, <4>3, <2>1
    <3>2. CASE ~QueueIsFull
      BY <1>2, <2>0, <3>2 DEF Enqueue
    <3> QED BY <3>1, <3>2
  <2>4. d # e => /\ d \in Events /\ d \in Messages
                 /\ pc[d] = "sent" /\ writes[d] = 0 /\ d \notin dropped
    <3> SUFFICES ASSUME d # e
                 PROVE  /\ d \in Events /\ d \in Messages
                        /\ pc[d] = "sent" /\ writes[d] = 0 /\ d \notin dropped
      OBVIOUS
    <3>1. d \in Events /\ d \in Messages
      BY <2>3, ThreadKinds DEF IInv, TypeOK, Range
    <3> QED BY <2>3, <3>1, StatusCases DEF IInv, Whereabouts
  <2>5. StatusOf(e)' = "buffered"
    BY <2>1, <2>3 DEF StatusOf
  <2>6. d # e => StatusOf(d) = "buffered" /\ StatusOf(d)' = "dropped"
    BY <2>1, <2>3, <2>4 DEF StatusOf
  <2>7. ASSUME NEW m \in Messages, m # e, m # d
        PROVE  StatusOf(m)' = StatusOf(m)
    BY <2>1, <2>3, <2>7 DEF StatusOf
  <2>8. CASE StatusOf(e) = "new"
    <3>1. Delivery!Buffer(e, d)
      BY <2>1, <2>4, <2>5, <2>6, <2>7, <2>8 DEF Delivery!Buffer
    <3>2. d \in Events
      BY <2>1, <2>4
    <3> QED BY <2>1, <3>1, <3>2 DEF Delivery!Next
  <2>9. CASE StatusOf(e) = "buffered" /\ d # e
    <3>1. Delivery!Displace(e, d)
      BY <2>1, <2>4, <2>5, <2>6, <2>7, <2>9 DEF Delivery!Displace
    <3> QED BY <2>1, <2>4, <2>9, <3>1 DEF Delivery!Next
  <2>10. CASE StatusOf(e) = "buffered" /\ d = e
    BY <2>5, <2>7, <2>10 DEF status
  <2>11. StatusOf(e) \in {"new", "buffered"}
    BY <2>1, <2>2 DEF StatusOf
  <2> QED BY <2>8, <2>9, <2>10, <2>11
<1> QED BY <1>1, <1>2 DEF Enqueue

(* Every step of BackendPool is a step of EventDelivery or a stutter.      *)
LEMMA StepRefines ==
  IInv /\ IInv' /\ [Next]_vars => [Delivery!Next]_status
<1> SUFFICES ASSUME IInv, IInv', [Next]_vars
             PROVE  Delivery!Next \/ status' = status
  OBVIOUS
<1>0. pc \in [Threads -> SenderStates \cup FlusherStates]
  BY DEF IInv, TypeOK
<1>1. CASE UNCHANGED sendVars
  BY <1>1, StatusUnchanged DEF sendVars
<1>2. CASE AppendClient
  BY <1>0, <1>2, ThreadKinds, StatusUnchanged DEF AppendClient, IInv, TypeOK
<1>3. ASSUME NEW t \in Threads, GetsConnection(t)
      PROVE  status' = status
  BY <1>0, <1>3, ThreadKinds, StatusUnchanged DEF GetsConnection, Picks
<1>4. ASSUME NEW t \in Threads, NoConnection(t)
      PROVE  Delivery!Next \/ status' = status
  <2>1. pc[t] \in {"idle", "pick"} /\ UNCHANGED <<writes, dropped>>
    BY <1>4 DEF NoConnection, Picks
  <2>2. CASE ReturnsError(t)
    BY <2>1, <2>2, ErrorRefines
  <2>3. CASE pc' = [pc EXCEPT ![t] = "enqueue"]
    BY <1>0, <2>1, <2>3, ThreadKinds, StatusUnchanged
  <2> QED BY <1>4, <2>2, <2>3 DEF NoConnection
<1>5. ASSUME NEW c \in Conns, FlushQueue(c)
      PROVE  status' = status
  BY <1>0, <1>5, ThreadKinds, StatusUnchanged
     DEF FlushQueue, FlushTake, Requeue
<1>6. CASE \E c \in Conns : Network(c) \/ Accept(c) \/ Handler(c)
  <2>1. UNCHANGED sendVars
    BY <1>6 DEF Network, PeerHangs, BufferFills, PeerResumes, PeerGoes, Accept,
                Handler, HandlerReads, HandlerPushes, HandlerExit, HandlerCloses
  <2> QED BY <1>1, <2>1
<1>7. CASE HeartbeatLoop \/ DeadlinePasses \/ Stop
  <2>1. UNCHANGED sendVars
    BY <1>7 DEF HeartbeatLoop, DeadlinePasses, PingStarts, SetWriteDeadline,
                PingWrite, PingReap, HeartbeatExits, Stop, StopSignals,
                StopCloses
  <2> QED BY <1>1, <2>1
<1>8. CASE UNCHANGED vars
  BY <1>1, <1>8 DEF vars
<1> QED
  BY <1>2, <1>3, <1>4, <1>5, <1>6, <1>7, <1>8, WriteRefines, EnqueueRefines
     DEF Next, SendMessage

(* The pool, its queue and all its goroutines keep the promise of          *)
(* EventDelivery, for every number of connections and messages.            *)
THEOREM Refinement == Spec => ImplementsEventDelivery
<1>1. Init => Delivery!Init
  <2> SUFFICES ASSUME Init PROVE Delivery!Init
    OBVIOUS
  <2>1. ASSUME NEW m \in Messages PROVE StatusOf(m) = "new"
    BY ThreadKinds DEF Init, StatusOf
  <2> QED BY <2>1 DEF Delivery!Init, Delivery!Messages, Messages
<1>2. IInv /\ IInv' /\ [Next]_vars => [Delivery!Next]_status
  BY StepRefines
<1> QED
  BY <1>1, <1>2, InductiveInvariant, PTL
     DEF Spec, ImplementsEventDelivery, Delivery!Spec, status
===============================================================================
