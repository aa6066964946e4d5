----------------------------- MODULE GatewayProofs -----------------------------
(***************************************************************************)
(* Proofs about Gateway.                                                   *)
(***************************************************************************)
EXTENDS Gateway, SeqLemmas

-------------------------------------------------------------------------------
(***************************************************************************)
(* The parts of the inductive invariant: client_ids.                       *)
(***************************************************************************)
\* A connection has a client_id once it is admitted.
Named ==
    \A h \in Conns :
       /\ pc[h] \in {"idle", "waiting", "refused"} => id[h] = None
       /\ pc[h] \in {"announcing", "reading", "reporting"} => id[h] # None

\* Client h has client_id i, or its answer with i is there or on its way.
Response(h, i) == [action |-> "response", client |-> h, id |-> i]
Holds(h, i) == \/ id[h] = i
               \/ answer[h] = i
               \/ \E b \in Backends : Response(h, i) \in ToSet(fromBackend[b])

\* Backends count their clients, so that none gets the client_id of another.
OwnIds ==
    /\ \A i \in ClientIds : \A x, y \in Conns :
          Holds(x, i) /\ Holds(y, i) => x = y
    /\ \A i \in ClientIds : \A x \in Conns :
          Holds(x, i) => i[2] <= clientCounter[i[1]]

\* A handler reports the end of its own connection.
Victims == \A h \in Conns : pc[h] = "reporting" => victim[h] = h

\* A flush begins with nothing in its hands.
FreshFlushes ==
    \A b \in Backends : /\ link[b] = "none" => b \notin toFlush
                        /\ link[b] = "none" \/ b \in toFlush => batch[b] = <<>>

IdInv == Named /\ OwnIds /\ Victims /\ RegisteredAreServed

-------------------------------------------------------------------------------
(***************************************************************************)
(* The parts of the inductive invariant: messages.                         *)
(***************************************************************************)
Gathered(f) == UNION {ToSet(f[b]) : b \in Backends}
InLinks == Gathered(toBackend)
InBatches == Gathered(batch)
InQueue == ToSet(messageQueue)
Underway == InLinks \cup InBatches \cup InQueue

Said(h, m) == m \in ToSet(said[h])

\* An event with a message comes from a client that said it.
Genuine(e) ==
    e.action = "new_message" =>
      Said(e.client, e.message) /\ id[e.client] # None
Sayings == \A e \in Underway : Genuine(e)

\* A command names a client that said its message.
Honest(l) ==
    l.action = "message_to_connection" =>
      \E x \in Conns : id[x] = l.id /\ l.id # None /\ Said(x, l.message)
Commands == \A b \in Backends : \A l \in ToSet(fromBackend[b]) : Honest(l)

Writing == writing # None => Said(writing.to, writing.message)

EchoInv == Sayings /\ Commands /\ Writing /\ EchoToSender

-------------------------------------------------------------------------------
(***************************************************************************)
(* What sendMessage does.                                                  *)
(***************************************************************************)
\* The two names of the set of elements.
LEMMA ToSetIsRange == \A s : ToSet(s) = Range(s)
  BY DEF ToSet, Range

(* The elements of a longer sequence, of a tail and of a prefix.           *)
LEMMA EmptyElements == ToSet(<<>>) = {}
  BY EmptySeqFacts, ToSetIsRange

\* What Append adds.
LEMMA AppendElements ==
  ASSUME NEW S, NEW s \in Seq(S), NEW e \in S
  PROVE  Append(s, e) \in Seq(S) /\ ToSet(Append(s, e)) = ToSet(s) \cup {e}
  BY AppendFacts, ToSetIsRange

\* What Tail leaves.
LEMMA TailElements ==
  ASSUME NEW S, NEW s \in Seq(S), s # <<>>
  PROVE  /\ Head(s) \in S /\ Tail(s) \in Seq(S)
         /\ ToSet(s) = {Head(s)} \cup ToSet(Tail(s))
  BY HeadTailFacts, ToSetIsRange

\* What two sequences hold together.
LEMMA ConcatElements ==
  ASSUME NEW S, NEW s \in Seq(S), NEW t \in Seq(S)
  PROVE  s \o t \in Seq(S) /\ ToSet(s \o t) = ToSet(s) \cup ToSet(t)
  BY ConcatFacts, ToSetIsRange

\* A prefix holds no more.
LEMMA PrefixElements ==
  ASSUME NEW S, NEW s \in Seq(S), NEW n \in 0..Len(s)
  PROVE  SubSeq(s, 1, n) \in Seq(S) /\ ToSet(SubSeq(s, 1, n)) \subseteq ToSet(s)
<1>1. /\ SubSeq(s, 1, n) \in Seq(S)
      /\ DOMAIN SubSeq(s, 1, n) = 1..n
      /\ \A i \in 1..n : SubSeq(s, 1, n)[i] = s[i]
      /\ DOMAIN s = 1..Len(s) /\ Len(s) \in Nat
  OBVIOUS
<1>2. \A i \in 1..n : i \in 1..Len(s)
  BY <1>1
<1> QED BY <1>1, <1>2 DEF ToSet

\* The elements of a sequence, and what Contains says.
LEMMA ElementTypes ==
  ASSUME NEW S, NEW s \in Seq(S)
  PROVE  ToSet(s) \subseteq S /\ \A e : Contains(s, e) <=> e \in ToSet(s)
<1>1. DOMAIN s = 1..Len(s) /\ \A i \in 1..Len(s) : s[i] \in S
  OBVIOUS
<1> QED BY <1>1 DEF ToSet, Contains

(* Replacing one of the sequences of f.                                    *)
Exchanged(f, g, s, t) ==
    /\ Gathered(g) \subseteq Gathered(f) \cup ToSet(t)
    /\ Gathered(f) \subseteq Gathered(g) \cup ToSet(s)
    /\ ToSet(t) \subseteq Gathered(g)
    /\ ToSet(s) \subseteq Gathered(f)

\* What is gathered after a sequence was replaced.
LEMMA GatheredExcept ==
  ASSUME NEW f, NEW g, NEW b \in Backends, DOMAIN f = Backends, NEW t,
         g = [f EXCEPT ![b] = t]
  PROVE  Exchanged(f, g, f[b], t)
<1>1. \A x \in Backends : g[x] = IF x = b THEN t ELSE f[x]
  OBVIOUS
<1> QED BY <1>1 DEF Gathered, Exchanged

(* sendVars keep their types, whoever sends an event, and whoever writes a *)
(* request.  What is sent is added to what backends are to read, to the    *)
(* queue or to the lost; nothing else is added, and nothing vanishes.      *)
SendTypes ==
    /\ toBackend \in [Backends -> Seq(Events \cup Requests)]
    /\ messageQueue \in Seq(Events)
    /\ lost \subseteq Events \cup Requests
    /\ buffered \in BOOLEAN
PoolTypes == pool \subseteq Backends

SendEffect(e) ==
    /\ InLinks' \cup InQueue' \subseteq InLinks \cup InQueue \cup {e}
    /\ InLinks \cup InQueue \cup lost \cup {e}
         \subseteq InLinks' \cup InQueue' \cup lost'

\* A request or an event written to a backend.
LEMMA WrittenEffect ==
  ASSUME SendTypes, PoolTypes, NEW e \in Events \cup Requests,
         Written(e) \/ WrittenInVain(e)
  PROVE  SendTypes' /\ SendEffect(e)
<1>1. CASE Written(e)
  <2>1. PICK b \in pool :
              toBackend' = [toBackend EXCEPT ![b] = Append(@, e)]
    BY <1>1 DEF Written
  <2>2. b \in Backends /\ toBackend[b] \in Seq(Events \cup Requests)
    BY DEF SendTypes, PoolTypes
  <2>3. /\ Append(toBackend[b], e) \in Seq(Events \cup Requests)
        /\ ToSet(Append(toBackend[b], e)) = ToSet(toBackend[b]) \cup {e}
    BY <2>2, AppendElements
  <2>4. UNCHANGED <<messageQueue, lost, buffered>>
    BY <1>1 DEF Written
  <2>5. SendTypes'
    BY <2>1, <2>2, <2>3, <2>4 DEF SendTypes
  <2>6. \A x \in Backends : ToSet(toBackend'[x]) =
          IF x = b THEN ToSet(toBackend[b]) \cup {e} ELSE ToSet(toBackend[x])
    BY <2>1, <2>2, <2>3 DEF SendTypes
  <2>7. InLinks' = InLinks \cup {e}
    BY <2>6, <2>2 DEF InLinks, Gathered
  <2> QED BY <2>4, <2>5, <2>7 DEF SendEffect, InQueue
<1>2. CASE WrittenInVain(e)
  BY <1>2 DEF WrittenInVain, SendTypes, SendEffect, InLinks, Gathered, InQueue
<1> QED BY <1>1, <1>2

\* An event sent.
LEMMA SentEffect ==
  ASSUME SendTypes, PoolTypes, NEW e \in Events, Sent(e)
  PROVE  SendTypes' /\ SendEffect(e)
<1>1. CASE Written(e) \/ WrittenInVain(e)
  BY <1>1, WrittenEffect
<1>2. CASE Enqueued(e)
  <2>1. UNCHANGED toBackend /\ buffered' = TRUE
    BY <1>2 DEF Enqueued
  <2>2. CASE messageQueue' = Append(messageQueue, e) /\ UNCHANGED lost
    <3>1. messageQueue' \in Seq(Events) /\ InQueue' = InQueue \cup {e}
      BY <2>2, AppendElements DEF SendTypes, InQueue
    <3> QED BY <2>1, <2>2, <3>1 DEF SendTypes, SendEffect, InLinks, Gathered
  <2>3. CASE /\ messageQueue # <<>>
             /\ messageQueue' = Append(Tail(messageQueue), e)
             /\ lost' = lost \cup {Head(messageQueue)}
    <3>1. /\ Head(messageQueue) \in Events /\ Tail(messageQueue) \in Seq(Events)
          /\ InQueue = {Head(messageQueue)} \cup ToSet(Tail(messageQueue))
      BY <2>3, TailElements DEF SendTypes, InQueue
    <3>2. /\ messageQueue' \in Seq(Events)
          /\ InQueue' = ToSet(Tail(messageQueue)) \cup {e}
      <4>1. ASSUME NEW t \in Seq(Events)
            PROVE  /\ Append(t, e) \in Seq(Events)
                   /\ ToSet(Append(t, e)) = ToSet(t) \cup {e}
        BY AppendElements
      <4>2. messageQueue' = Append(Tail(messageQueue), e)
        BY <2>3
      <4> QED BY <3>1, <4>1, <4>2 DEF InQueue
    <3>3. SendTypes'
      BY <2>1, <2>3, <3>1, <3>2 DEF SendTypes
    <3>4. InLinks' = InLinks
      BY <2>1 DEF InLinks, Gathered
    <3> QED BY <2>3, <3>1, <3>2, <3>3, <3>4 DEF SendEffect
  <2> QED BY <1>2, <2>2, <2>3 DEF Enqueued
<1>3. CASE /\ lost' = lost \cup {e}
           /\ UNCHANGED <<toBackend, messageQueue, buffered>>
  BY <1>3 DEF SendTypes, SendEffect, InLinks, Gathered, InQueue
<1> QED BY <1>1, <1>2, <1>3 DEF Sent, Accepted

-------------------------------------------------------------------------------
(***************************************************************************)
(* Types.                                                                  *)
(***************************************************************************)
(* What a sent event leaves of the types to show.                          *)
LEMMA EventTypes ==
  ASSUME NEW h \in Conns
  PROVE  /\ \A a \in {"new_connection", "disconnected", "error"} :
               Event(a, h, None) \in Events
         /\ \A m \in Messages : Event("new_message", h, m) \in Events
         /\ Event("connection_request", h, None) \in Requests
  BY DEF Event, Events, Requests

\* The types that sending needs.
LEMMA TypeParts ==
  TypeOK => SendTypes /\ PoolTypes
  BY DEF TypeOK, SendTypes, PoolTypes

\* What a backend that reads leaves.
LEMMA ReadTypes ==
  ASSUME TypeOK, NEW b \in Backends, Reads(b)
  PROVE  /\ Head(toBackend[b]) \in Events \cup Requests
         /\ toBackend' \in [Backends -> Seq(Events \cup Requests)]
         /\ received' \in [Backends -> Seq(Events \cup Requests)]
         /\ UNCHANGED <<messageQueue, lost, buffered>>
<1>1. toBackend[b] \in Seq(Events \cup Requests) /\ toBackend[b] # <<>>
  BY DEF TypeOK, Reads
<1>2. /\ Head(toBackend[b]) \in Events \cup Requests
      /\ Tail(toBackend[b]) \in Seq(Events \cup Requests)
  BY <1>1, TailElements
<1>3. received[b] \in Seq(Events \cup Requests)
  BY DEF TypeOK
<1>4. Append(received[b], Head(toBackend[b])) \in Seq(Events \cup Requests)
  BY <1>2, <1>3, AppendElements
<1> QED BY <1>2, <1>4 DEF TypeOK, Reads

\* Every step keeps the types; ReportDisconnect needs to have a victim.
LEMMA NextTypeOK == TypeOK /\ Victims /\ [Next]_vars => TypeOK'
<1> SUFFICES ASSUME TypeOK, Victims, [Next]_vars PROVE TypeOK'
  OBVIOUS
<1> USE DEF bridgeVars, backendVars, flushVars,
            sendVars, clientVars, dispatchVars
<1>1. CASE StartBackend
  BY <1>1 DEF TypeOK, StartBackend
<1>2. CASE StartWebSocket
  BY <1>2 DEF TypeOK, StartWebSocket
<1>3. CASE StopBackend
  <2>1. \A b \in Backends : ToSet(toBackend[b]) \subseteq Events \cup Requests
    BY ElementTypes DEF TypeOK
  <2>2. lost' \subseteq Events \cup Requests
    BY <1>3, <2>1 DEF StopBackend, TypeOK
  <2>3. toBackend' \in [Backends -> Seq(Events \cup Requests)]
    BY <1>3 DEF StopBackend, TypeOK
  <2>4. link' \in [Backends -> {"none", "up", "gone", "closed"}]
    BY <1>3 DEF StopBackend, TypeOK
  <2> QED BY <1>3, <2>2, <2>3, <2>4 DEF TypeOK, StopBackend
<1>4. CASE StopWebSocket
  <2>1. socket' \in [Conns -> {"none", "open", "gone", "closed"}]
    BY <1>4 DEF TypeOK, StopWebSocket
  <2> QED BY <1>4, <2>1 DEF TypeOK, StopWebSocket
<1>5. ASSUME NEW b \in Backends, Connect(b) PROVE TypeOK'
  BY <1>5 DEF TypeOK, Connect
<1>6. ASSUME NEW b \in Backends, AcceptsClient(b) PROVE TypeOK'
  <2> DEFINE line == [action |-> "response",
                      client |-> Head(toBackend[b]).client,
                      id |-> ClientId(b, clientCounter[b] + 1)]
  <2>1. clientCounter[b] \in Nat /\ Head(toBackend[b]) \in Events \cup Requests
    BY <1>6, ReadTypes DEF AcceptsClient, TypeOK
  <2>2. line \in Lines
    BY <2>1 DEF Lines, ClientId, ClientIds, Events, Requests
  <2>3. fromBackend[b] \in Seq(Lines)
    BY DEF TypeOK
  <2>4. Append(fromBackend[b], line) \in Seq(Lines)
    BY <2>2, <2>3, AppendElements
  <2>5. fromBackend' \in [Backends -> Seq(Lines)]
    BY <1>6, <2>4 DEF AcceptsClient, Replies, TypeOK
  <2>6. clientCounter' \in [Backends -> Nat]
    BY <1>6, <2>1 DEF AcceptsClient, TypeOK
  <2> QED BY <1>6, <2>5, <2>6, ReadTypes DEF AcceptsClient, TypeOK
<1>7. ASSUME NEW b \in Backends, Echoes(b) PROVE TypeOK'
  <2> DEFINE line == [action |-> "message_to_connection",
                      message |-> Head(toBackend[b]).message,
                      id |-> id[Head(toBackend[b]).client]]
  <2>1. /\ Head(toBackend[b]).action = "new_message"
        /\ Head(toBackend[b]) \in Events \cup Requests
    BY <1>7, ReadTypes DEF Echoes
  <2>2. /\ Head(toBackend[b]).client \in Conns
        /\ Head(toBackend[b]).message \in Messages
    BY <2>1 DEF Events, Requests
  <2>3. line \in Lines
    BY <2>2 DEF Lines, TypeOK
  <2>4. fromBackend[b] \in Seq(Lines)
    BY DEF TypeOK
  <2>5. Append(fromBackend[b], line) \in Seq(Lines)
    BY <2>3, <2>4, AppendElements
  <2>6. fromBackend' \in [Backends -> Seq(Lines)]
    BY <1>7, <2>5 DEF Echoes, Replies, TypeOK
  <2> QED BY <1>7, <2>6, ReadTypes DEF Echoes, TypeOK
<1>8. ASSUME NEW b \in Backends, Ignores(b) PROVE TypeOK'
  BY <1>8, ReadTypes DEF Ignores, TypeOK
<1>9. ASSUME NEW b \in Backends, BackendDies(b) PROVE TypeOK'
  <2>1. ToSet(toBackend[b]) \subseteq Events \cup Requests
    BY ElementTypes DEF TypeOK
  <2>2. toBackend' \in [Backends -> Seq(Events \cup Requests)]
    BY <1>9 DEF BackendDies, TypeOK
  <2>3. link' \in [Backends -> {"none", "up", "gone", "closed"}]
    BY <1>9 DEF BackendDies, TypeOK
  <2> QED BY <1>9, <2>1, <2>2, <2>3 DEF BackendDies, TypeOK
<1>10. ASSUME NEW b \in Backends, LeavesPool(b) PROVE TypeOK'
  <2>1. PICK n \in 0..Len(fromBackend[b]) :
          fromBackend' = [fromBackend EXCEPT ![b] = SubSeq(@, 1, n)]
    BY <1>10 DEF LeavesPool
  <2>2. fromBackend[b] \in Seq(Lines)
    BY DEF TypeOK
  <2>3. SubSeq(fromBackend[b], 1, n) \in Seq(Lines)
    BY <2>2, PrefixElements
  <2>4. fromBackend' \in [Backends -> Seq(Lines)]
    BY <2>1, <2>3 DEF TypeOK
  <2>5. /\ pool' \subseteq Backends
        /\ link' \in [Backends -> {"none", "up", "gone", "closed"}]
    BY <1>10 DEF LeavesPool, TypeOK
  <2> QED BY <1>10, <2>4, <2>5 DEF LeavesPool, TypeOK
<1>11. ASSUME NEW b \in Backends, FlushTake(b) PROVE TypeOK'
  <2>1. messageQueue' \in Seq(Events)
    BY <1>11 DEF FlushTake
  <2>2. batch' \in [Backends -> Seq(Events)] /\ toFlush' \subseteq Backends
    BY <1>11 DEF FlushTake, TypeOK
  <2> QED BY <1>11, <2>1, <2>2 DEF FlushTake, TypeOK
<1>12. ASSUME NEW b \in Backends, FlushSend(b) PROVE TypeOK'
  <2>1. batch[b] \in Seq(Events) /\ batch[b] # <<>>
    BY <1>12 DEF FlushSend, TypeOK
  <2>2. Head(batch[b]) \in Events /\ Tail(batch[b]) \in Seq(Events)
    BY <2>1, TailElements
  <2>3. SendTypes'
    BY <1>12, <2>2, SentEffect, TypeParts DEF FlushSend, Sent
  <2>4. batch' \in [Backends -> Seq(Events)]
    BY <1>12, <2>2 DEF FlushSend, TypeOK
  <2> QED BY <1>12, <2>3, <2>4 DEF FlushSend, TypeOK, SendTypes
<1>13. ASSUME NEW b \in Backends, FlushInterrupted(b) PROVE TypeOK'
  <2>1. batch[b] \in Seq(Events) /\ messageQueue \in Seq(Events)
    BY DEF TypeOK
  <2>2. messageQueue' \in Seq(Events)
    BY <1>13, <2>1, ConcatElements DEF FlushInterrupted
  <2>3. batch' \in [Backends -> Seq(Events)]
    BY <1>13 DEF FlushInterrupted, TypeOK
  <2> QED BY <1>13, <2>2, <2>3 DEF FlushInterrupted, TypeOK
<1>14. ASSUME NEW b \in Backends, DispatchResponse(b) PROVE TypeOK'
  <2>1. fromBackend[b] \in Seq(Lines) /\ fromBackend[b] # <<>>
    BY <1>14 DEF DispatchResponse, TakesLine, TypeOK
  <2>2. Head(fromBackend[b]) \in Lines /\ Tail(fromBackend[b]) \in Seq(Lines)
    BY <2>1, TailElements
  <2>3. fromBackend' \in [Backends -> Seq(Lines)]
    BY <1>14, <2>2 DEF DispatchResponse, TakesLine, TypeOK
  <2>4. answer' \in [Conns -> ClientIds \cup {None}]
    BY <1>14, <2>2 DEF DispatchResponse, Lines, TypeOK
  <2> QED BY <1>14, <2>3, <2>4 DEF DispatchResponse, TypeOK
<1>15. ASSUME NEW b \in Backends, DispatchCommand(b) PROVE TypeOK'
  <2>1. fromBackend[b] \in Seq(Lines) /\ fromBackend[b] # <<>>
    BY <1>15 DEF DispatchCommand, TakesLine, TypeOK
  <2>2. Head(fromBackend[b]) \in Lines /\ Tail(fromBackend[b]) \in Seq(Lines)
    BY <2>1, TailElements
  <2>3. fromBackend' \in [Backends -> Seq(Lines)]
    BY <1>15, <2>2 DEF DispatchCommand, TakesLine, TypeOK
  <2>4. writing' \in Writes \cup {None}
    BY <1>15, <2>2 DEF DispatchCommand, Lines, Writes, Recipients, TypeOK
  <2> QED BY <1>15, <2>3, <2>4 DEF DispatchCommand, TypeOK
<1>16. CASE WriteMessage
  <2>1. delivered' \in Seq(Writes)
    BY <1>16, AppendElements DEF WriteMessage, TypeOK
  <2> QED BY <1>16, <2>1 DEF WriteMessage, TypeOK
<1>17. ASSUME NEW h \in Conns, Request(h) PROVE TypeOK'
  <2>1. SendTypes'
    <3>1. CASE UNCHANGED sendVars
      BY <3>1 DEF TypeOK, SendTypes
    <3>2. CASE \/ Written(Event("connection_request", h, None))
               \/ WrittenInVain(Event("connection_request", h, None))
      BY <3>2, EventTypes, TypeParts, WrittenEffect
    <3> QED BY <1>17, <3>1, <3>2 DEF Request
  <2> QED BY <1>17, <2>1 DEF Request, TypeOK, SendTypes
<1>18. ASSUME NEW h \in Conns, ReportError(h) PROVE TypeOK'
  <2>1. SendTypes'
    <3>1. CASE UNCHANGED sendVars
      BY <3>1 DEF TypeOK, SendTypes
    <3>2. CASE Sent(Event("error", h, None))
      BY <3>2, EventTypes, TypeParts, SentEffect
    <3> QED BY <1>18, <3>1, <3>2 DEF ReportError, SendPanics
  <2> QED BY <1>18, <2>1 DEF ReportError, TypeOK, SendTypes
<1>19. ASSUME NEW h \in Conns, UpgradeFails(h) PROVE TypeOK'
  BY <1>19 DEF UpgradeFails, TypeOK
<1>20. ASSUME NEW h \in Conns, Admit(h) PROVE TypeOK'
  BY <1>20 DEF Admit, TypeOK
<1>21. ASSUME NEW h \in Conns, NEW e \in Events,
              NEW l \in {"reading", "returned"}, Callback(h, e, l)
       PROVE  /\ SendTypes'
              /\ \/ pc' = [pc EXCEPT ![h] = l]
                 \/ pc' = [pc EXCEPT ![h] = "panicked"]
  <2>1. CASE Sent(e) /\ pc' = [pc EXCEPT ![h] = l]
    BY <2>1, TypeParts, SentEffect
  <2>2. CASE SendPanics /\ pc' = [pc EXCEPT ![h] = "panicked"]
    BY <2>2 DEF SendPanics, SendTypes, TypeOK
  <2> QED BY <1>21, <2>1, <2>2 DEF Callback
<1>22. ASSUME NEW h \in Conns, Announce(h) PROVE TypeOK'
  <2>1. /\ SendTypes'
        /\ \/ pc' = [pc EXCEPT ![h] = "reading"]
           \/ pc' = [pc EXCEPT ![h] = "panicked"]
    BY <1>21, <1>22, EventTypes DEF Announce
  <2> QED BY <1>22, <2>1 DEF Announce, SendTypes, TypeOK
<1>23. ASSUME NEW h \in Conns, NEW m \in Messages, Receive(h, m) PROVE TypeOK'
  <2>1. /\ SendTypes'
        /\ \/ pc' = [pc EXCEPT ![h] = "reading"]
           \/ pc' = [pc EXCEPT ![h] = "panicked"]
    BY <1>21, <1>23, EventTypes DEF Receive
  <2>2. said' \in [Conns -> Seq(Messages)]
    BY <1>23, AppendElements DEF Receive, TypeOK
  <2> QED BY <1>23, <2>1, <2>2 DEF Receive, SendTypes, TypeOK
<1>24. ASSUME NEW h \in Conns, ReadFails(h) PROVE TypeOK'
  BY <1>24 DEF ReadFails, TypeOK
<1>25. ASSUME NEW h \in Conns, ReportDisconnect(h) PROVE TypeOK'
  <2>1. victim[h] \in Conns
    BY <1>25 DEF ReportDisconnect, Victims
  <2>2. /\ SendTypes'
        /\ \/ pc' = [pc EXCEPT ![h] = "returned"]
           \/ pc' = [pc EXCEPT ![h] = "panicked"]
    BY <1>21, <1>25, <2>1, EventTypes DEF ReportDisconnect
  <2>3. socket' \in [Conns -> {"none", "open", "gone", "closed"}]
    BY <1>25 DEF ReportDisconnect, TypeOK
  <2> QED BY <1>25, <2>2, <2>3 DEF ReportDisconnect, SendTypes, TypeOK
<1>26. ASSUME NEW h \in Conns, ClientLeaves(h) PROVE TypeOK'
  BY <1>26 DEF ClientLeaves, TypeOK
<1>27. CASE UNCHANGED vars
  BY <1>27 DEF TypeOK, vars
<1> QED
  BY <1>1, <1>2, <1>3, <1>4, <1>5, <1>6, <1>7, <1>8, <1>9, <1>10, <1>11, <1>12,
     <1>13, <1>14, <1>15, <1>16, <1>17, <1>18, <1>19, <1>20, <1>22, <1>23,
     <1>24, <1>25, <1>26, <1>27
     DEF Next, Main, EchoBackend, FlushQueue, HandleRequests, Reacts

-------------------------------------------------------------------------------
(***************************************************************************)
(* Every client has a client_id of its own and a handler that knows it.    *)
(***************************************************************************)
\* A line is taken: no line is new.
LEMMA LinesTaken ==
  ASSUME TypeOK, NEW b \in Backends, TakesLine(b, Tail(fromBackend[b]))
  PROVE  /\ Head(fromBackend[b]) \in ToSet(fromBackend[b])
         /\ Head(fromBackend[b]) \in Lines
         /\ \A x \in Backends :
               ToSet(fromBackend'[x]) \subseteq ToSet(fromBackend[x])
<1>1. fromBackend[b] \in Seq(Lines) /\ fromBackend[b] # <<>>
  BY DEF TakesLine, TypeOK
<1>2. /\ Head(fromBackend[b]) \in Lines
      /\ ToSet(fromBackend[b])
           = {Head(fromBackend[b])} \cup ToSet(Tail(fromBackend[b]))
  BY <1>1, TailElements
<1>3. fromBackend' = [fromBackend EXCEPT ![b] = Tail(fromBackend[b])]
  BY DEF TakesLine
<1> QED BY <1>2, <1>3 DEF TypeOK

\* Steps after which nobody holds more client_ids.
LEMMA NoMoreHolders ==
  ASSUME OwnIds, UNCHANGED clientCounter,
         \A h \in Conns : \A i \in ClientIds : Holds(h, i)' => Holds(h, i)
  PROVE  OwnIds'
  BY DEF OwnIds

\* A new answer has a higher count than any its backend has given.
LEMMA NextOwnIds == TypeOK /\ OwnIds /\ [Next]_vars => OwnIds'
<1> SUFFICES ASSUME TypeOK, OwnIds, [Next]_vars PROVE OwnIds'
  OBVIOUS
<1> USE DEF bridgeVars, backendVars, flushVars,
            sendVars, clientVars, dispatchVars
<1>1. CASE UNCHANGED <<id, answer, fromBackend, clientCounter>>
  BY <1>1 DEF OwnIds, Holds
<1>2. ASSUME NEW b \in Backends, AcceptsClient(b) PROVE OwnIds'
  <2> DEFINE n == clientCounter[b] + 1
             c == Head(toBackend[b]).client
             line == Response(c, ClientId(b, n))
  <2>1. /\ clientCounter[b] \in Nat /\ clientCounter \in [Backends -> Nat]
        /\ Head(toBackend[b]) \in Events \cup Requests
        /\ fromBackend[b] \in Seq(Lines)
    BY <1>2, ReadTypes DEF AcceptsClient, TypeOK
  <2>2. c \in Conns /\ line \in Lines
    BY <2>1 DEF Lines, Response, ClientId, ClientIds, Events, Requests
  <2>3. ToSet(Append(fromBackend[b], line)) = ToSet(fromBackend[b]) \cup {line}
    BY <2>1, <2>2, AppendElements
  <2>4. /\ clientCounter' = [clientCounter EXCEPT ![b] = n]
        /\ fromBackend' = [fromBackend EXCEPT ![b] = Append(@, line)]
        /\ UNCHANGED <<id, answer>>
    BY <1>2 DEF AcceptsClient, Replies, Response
  <2>5. \A x \in Backends :
           ToSet(fromBackend'[x]) \subseteq ToSet(fromBackend[x]) \cup {line}
    BY <2>3, <2>4 DEF TypeOK
  <2>6. ASSUME NEW h \in Conns, NEW i \in ClientIds, Holds(h, i)'
        PROVE  Holds(h, i) \/ (h = c /\ i = <<b, n>>)
    <3>1. CASE id[h] = i \/ answer[h] = i
      BY <3>1 DEF Holds
    <3>2. CASE \E x \in Backends : Response(h, i) \in ToSet(fromBackend'[x])
      <4>1. PICK x \in Backends : Response(h, i) \in ToSet(fromBackend'[x])
        BY <3>2
      <4>2. CASE Response(h, i) \in ToSet(fromBackend[x])
        BY <4>2 DEF Holds
      <4>3. CASE Response(h, i) = line
        BY <4>3 DEF Response, ClientId
      <4> QED BY <2>5, <4>1, <4>2, <4>3
    <3> QED BY <2>4, <2>6, <3>1, <3>2 DEF Holds
  <2>7. \A h \in Conns : ~Holds(h, <<b, n>>)
    <3>1. <<b, n>> \in ClientIds /\ <<b, n>>[1] = b /\ <<b, n>>[2] = n
      BY <2>1 DEF ClientIds
    <3>2. ~(n <= clientCounter[b])
      BY <2>1
    <3> QED BY <3>1, <3>2 DEF OwnIds
  <2>8. ASSUME NEW i \in ClientIds
        PROVE  /\ i[1] \in Backends /\ i[2] \in Nat
               /\ clientCounter[i[1]] \in Nat
               /\ clientCounter'[i[1]] \in Nat
               /\ clientCounter[i[1]] <= clientCounter'[i[1]]
               /\ i = <<b, n>> => i[2] <= clientCounter'[i[1]]
    <3>1. i[1] \in Backends /\ i[2] \in Nat
      BY DEF ClientIds
    <3>2. clientCounter'[i[1]] = IF i[1] = b THEN n ELSE clientCounter[i[1]]
      BY <2>1, <2>4, <3>1
    <3> QED BY <2>1, <3>1, <3>2
  <2> HIDE DEF n, c, line
  <2>9. ASSUME NEW i \in ClientIds, NEW x \in Conns, Holds(x, i)'
        PROVE  i[2] <= clientCounter'[i[1]]
    <3>1. CASE Holds(x, i)
      <4>1. i[2] <= clientCounter[i[1]]
        BY <3>1 DEF OwnIds
      <4> QED BY <2>8, <4>1
    <3> QED BY <2>6, <2>8, <2>9, <3>1
  <2>10. \A i \in ClientIds : \A x, y \in Conns :
            Holds(x, i)' /\ Holds(y, i)' => x = y
    BY <2>6, <2>7 DEF OwnIds
  <2> QED BY <2>9, <2>10 DEF OwnIds
<1>3. ASSUME NEW b \in Backends, Echoes(b) PROVE OwnIds'
  <2> DEFINE line == [action |-> "message_to_connection",
                      message |-> Head(toBackend[b]).message,
                      id |-> id[Head(toBackend[b]).client]]
  <2>1. /\ fromBackend' = [fromBackend EXCEPT ![b] = Append(@, line)]
        /\ UNCHANGED <<id, answer, clientCounter>>
        /\ Head(toBackend[b]).action = "new_message"
        /\ Head(toBackend[b]) \in Events \cup Requests
    BY <1>3, ReadTypes DEF Echoes, Replies
  <2>2. line \in Lines /\ fromBackend[b] \in Seq(Lines)
    BY <2>1 DEF Lines, TypeOK, Events, Requests
  <2>3. ToSet(Append(fromBackend[b], line)) = ToSet(fromBackend[b]) \cup {line}
    BY <2>2, AppendElements
  <2>4. \A x \in Backends :
           ToSet(fromBackend'[x]) \subseteq ToSet(fromBackend[x]) \cup {line}
    BY <2>1, <2>3 DEF TypeOK
  <2>5. \A h, i : Response(h, i) # line
    BY DEF Response
  <2>6. \A h \in Conns : \A i \in ClientIds : Holds(h, i)' => Holds(h, i)
    BY <2>1, <2>4, <2>5 DEF Holds
  <2> QED BY <2>1, <2>6, NoMoreHolders
<1>4. ASSUME NEW b \in Backends, LeavesPool(b) PROVE OwnIds'
  <2>1. PICK n \in 0..Len(fromBackend[b]) :
          fromBackend' = [fromBackend EXCEPT ![b] = SubSeq(@, 1, n)]
    BY <1>4 DEF LeavesPool
  <2>2. ToSet(SubSeq(fromBackend[b], 1, n)) \subseteq ToSet(fromBackend[b])
    BY PrefixElements DEF TypeOK
  <2>3. \A x \in Backends :
           ToSet(fromBackend'[x]) \subseteq ToSet(fromBackend[x])
    BY <2>1, <2>2 DEF TypeOK
  <2>4. \A h \in Conns : \A i \in ClientIds : Holds(h, i)' => Holds(h, i)
    BY <1>4, <2>3 DEF Holds, LeavesPool
  <2> QED BY <1>4, <2>4, NoMoreHolders DEF LeavesPool
<1>5. ASSUME NEW b \in Backends, DispatchResponse(b) PROVE OwnIds'
  <2> DEFINE line == Head(fromBackend[b])
  <2>1. /\ line \in ToSet(fromBackend[b]) /\ line \in Lines
        /\ \A x \in Backends :
              ToSet(fromBackend'[x]) \subseteq ToSet(fromBackend[x])
    BY <1>5, LinesTaken DEF DispatchResponse
  <2>2. /\ line.action = "response"
        /\ answer' = [answer EXCEPT ![line.client] = line.id]
        /\ UNCHANGED <<id, clientCounter>>
    BY <1>5 DEF DispatchResponse
  <2>3. line = Response(line.client, line.id)
    BY <2>1, <2>2 DEF Lines, Response
  <2> HIDE DEF line
  <2>4. \A h \in Conns :
           answer'[h] = IF h = line.client THEN line.id ELSE answer[h]
    BY <2>2 DEF TypeOK
  <2>5. \A h \in Conns : \A i \in ClientIds : Holds(h, i)' => Holds(h, i)
    BY <2>1, <2>2, <2>3, <2>4 DEF Holds
  <2> QED BY <2>2, <2>5, NoMoreHolders
<1>6. ASSUME NEW b \in Backends, DispatchCommand(b) PROVE OwnIds'
  <2>1. \A x \in Backends :
           ToSet(fromBackend'[x]) \subseteq ToSet(fromBackend[x])
    BY <1>6, LinesTaken DEF DispatchCommand
  <2>2. UNCHANGED <<id, answer, clientCounter>>
    BY <1>6 DEF DispatchCommand
  <2>3. \A h \in Conns : \A i \in ClientIds : Holds(h, i)' => Holds(h, i)
    BY <2>1, <2>2 DEF Holds
  <2> QED BY <2>2, <2>3, NoMoreHolders
<1>7. ASSUME NEW h \in Conns, Admit(h) PROVE OwnIds'
  <2>1. /\ id' = [id EXCEPT ![h] = answer[h]]
        /\ UNCHANGED <<answer, fromBackend, clientCounter>>
    BY <1>7 DEF Admit
  <2>2. \A x \in Conns : \A i \in ClientIds : Holds(x, i)' => Holds(x, i)
    BY <2>1 DEF Holds, TypeOK
  <2> QED BY <2>1, <2>2, NoMoreHolders
<1>8. CASE UNCHANGED vars
  BY <1>1, <1>8 DEF vars
<1>9. Main \/ WriteMessage
        => UNCHANGED <<id, answer, fromBackend, clientCounter>>
  BY DEF Main, StartBackend, StartWebSocket, StopBackend, StopWebSocket,
         WriteMessage
<1>10. ASSUME NEW b \in Backends,
              \/ Connect(b) \/ Ignores(b) \/ BackendDies(b) \/ FlushQueue(b)
       PROVE  UNCHANGED <<id, answer, fromBackend, clientCounter>>
  BY <1>10 DEF Connect, Ignores, BackendDies, FlushQueue, FlushTake, FlushSend,
               FlushInterrupted
<1>11. ASSUME NEW h \in Conns,
              \/ Request(h) \/ UpgradeFails(h) \/ ReportError(h) \/ Announce(h)
              \/ ReadFails(h) \/ ReportDisconnect(h) \/ ClientLeaves(h)
              \/ \E m \in Messages : Receive(h, m)
       PROVE  UNCHANGED <<id, answer, fromBackend, clientCounter>>
  BY <1>11 DEF Request, UpgradeFails, ReportError, Announce, ReadFails,
               ReportDisconnect, ClientLeaves, Receive
<1> QED
  BY <1>1, <1>2, <1>3, <1>4, <1>5, <1>6, <1>7, <1>8, <1>9, <1>10, <1>11
     DEF Next, EchoBackend, HandleRequests, Reacts

\* Whatever the flag and the environment say, the size is a number.
LEMMA QueueSizeType == TypeOK => queueSize \in Int
<1> SUFFICES ASSUME TypeOK PROVE queueSize \in Int
  OBVIOUS
<1>1. scenario.env \in Int \cup {Unset, Garbage} /\ scenario.flag \in Int
  BY ScenariosAssumption DEF TypeOK
<1>2. CASE scenario.env = Unset
  BY <1>1, <1>2, DistinctAssumption DEF queueSize, LoadConfig
<1>3. CASE scenario.env = Garbage
  BY <1>1, <1>3, DistinctAssumption DEF queueSize, LoadConfig, DefaultQueueSize
<1>4. CASE scenario.env \notin {Unset, Garbage}
  BY <1>1, <1>4, DistinctAssumption DEF queueSize, LoadConfig
<1> QED BY <1>2, <1>3, <1>4

(* The other parts, and with them that a registered client is served.      *)
LEMMA NextIdInv == TypeOK /\ IdInv /\ [Next]_vars => IdInv'
<1> SUFFICES ASSUME TypeOK, IdInv, [Next]_vars PROVE IdInv'
  OBVIOUS
<1> USE DEF bridgeVars, backendVars, flushVars,
            sendVars, clientVars, dispatchVars
<1>1. OwnIds'
  BY NextOwnIds DEF IdInv
<1>2. UNCHANGED scenario => queueSize' = queueSize
  BY DEF queueSize
<1>3. CASE UNCHANGED <<scenario, pc, id, victim, clients>>
  BY <1>1, <1>2, <1>3 DEF IdInv, Named, Victims, RegisteredAreServed
<1>4. ASSUME NEW h \in Conns, Request(h) \/ UpgradeFails(h) \/ ReportError(h)
      PROVE  IdInv'
  <2>1. /\ UNCHANGED <<scenario, id, victim, clients>>
        /\ pc[h] \in {"idle", "waiting", "refused"}
        /\ \E l \in {"waiting", "refused", "returned"} :
              pc' = [pc EXCEPT ![h] = l]
    BY <1>4 DEF Request, UpgradeFails, ReportError
  <2>2. Named' /\ Victims'
    BY <2>1 DEF IdInv, Named, Victims, TypeOK
  <2>3. RegisteredAreServed'
    BY <1>2, <2>1 DEF IdInv, RegisteredAreServed, TypeOK
  <2> QED BY <1>1, <2>2, <2>3 DEF IdInv
<1>5. ASSUME NEW h \in Conns, Admit(h) PROVE IdInv'
  <2>1. /\ UNCHANGED <<scenario, victim>>
        /\ answer[h] # None
        /\ id' = [id EXCEPT ![h] = answer[h]]
        /\ clients' \subseteq clients \cup {h}
        /\ pc' = [pc EXCEPT ![h] = "announcing"]
    BY <1>5 DEF Admit
  <2>2. Named' /\ Victims'
    BY <2>1 DEF IdInv, Named, Victims, TypeOK
  <2>3. RegisteredAreServed'
    BY <1>2, <2>1 DEF IdInv, RegisteredAreServed, TypeOK
  <2> QED BY <1>1, <2>2, <2>3 DEF IdInv
<1>6. ASSUME NEW h \in Conns, Announce(h) \/ \E m \in Messages : Receive(h, m)
      PROVE  IdInv'
  <2>1. /\ UNCHANGED <<scenario, id, victim, clients>>
        /\ pc[h] \in {"announcing", "reading"}
        /\ \/ pc' = [pc EXCEPT ![h] = "reading"]
           \/ queueSize < 0 /\ pc' = [pc EXCEPT ![h] = "panicked"]
    BY <1>6 DEF Announce, Receive, Callback, SendPanics
  <2>2. Named' /\ Victims'
    BY <2>1 DEF IdInv, Named, Victims, TypeOK
  <2>3. queueSize \in Int
    BY QueueSizeType
  <2>4. RegisteredAreServed'
    <3> SUFFICES ASSUME queueSize' >= 0, NEW x \in clients'
                 PROVE  pc'[x] \in {"announcing", "reading"}
      BY DEF RegisteredAreServed
    <3>1. queueSize >= 0 /\ ~(queueSize < 0)
      BY <1>2, <2>1, <2>3
    <3>2. x \in Conns /\ pc[x] \in {"announcing", "reading"}
      BY <2>1, <3>1 DEF IdInv, RegisteredAreServed, TypeOK
    <3> QED BY <2>1, <3>1, <3>2 DEF TypeOK
  <2> QED BY <1>1, <2>2, <2>4 DEF IdInv
<1>7. ASSUME NEW h \in Conns, ReadFails(h) PROVE IdInv'
  <2>1. PICK x \in clients :
          /\ id[x] = id[h]
          /\ clients' = clients \ {x}
          /\ victim' = [victim EXCEPT ![h] = x]
    BY <1>7 DEF ReadFails
  <2>2. /\ UNCHANGED <<scenario, id>>
        /\ pc[h] = "reading"
        /\ pc' = [pc EXCEPT ![h] = "reporting"]
    BY <1>7 DEF ReadFails
  <2>3. x \in Conns /\ id[h] \in ClientIds
    BY <2>1, <2>2 DEF IdInv, Named, TypeOK
  <2>4. x = h
    BY <2>1, <2>3 DEF IdInv, OwnIds, Holds
  <2>5. Named' /\ Victims'
    BY <2>1, <2>2, <2>4 DEF IdInv, Named, Victims, TypeOK
  <2>6. RegisteredAreServed'
    BY <1>2, <2>1, <2>2, <2>4 DEF IdInv, RegisteredAreServed, TypeOK
  <2> QED BY <1>1, <2>5, <2>6 DEF IdInv
<1>8. ASSUME NEW h \in Conns, ReportDisconnect(h) PROVE IdInv'
  <2>1. /\ UNCHANGED <<scenario, id, clients>>
        /\ pc[h] = "reporting"
        /\ \E l \in {"returned", "panicked"} : pc' = [pc EXCEPT ![h] = l]
        /\ victim' = [victim EXCEPT ![h] = None]
    BY <1>8 DEF ReportDisconnect, Callback
  <2>2. Named' /\ Victims'
    BY <2>1 DEF IdInv, Named, Victims, TypeOK
  <2>3. RegisteredAreServed'
    BY <1>2, <2>1 DEF IdInv, RegisteredAreServed, TypeOK
  <2> QED BY <1>1, <2>2, <2>3 DEF IdInv
<1>9. Main \/ WriteMessage \/ UNCHANGED vars
        => UNCHANGED <<scenario, pc, id, victim, clients>>
  BY DEF Main, StartBackend, StartWebSocket, StopBackend, StopWebSocket,
         WriteMessage, vars
<1>10. ASSUME NEW b \in Backends,
              \/ Connect(b) \/ EchoBackend(b) \/ BackendDies(b) \/ LeavesPool(b)
              \/ FlushQueue(b) \/ HandleRequests(b)
       PROVE  UNCHANGED <<scenario, pc, id, victim, clients>>
  BY <1>10 DEF Connect, EchoBackend, AcceptsClient, Echoes, Ignores,
               BackendDies, LeavesPool, FlushQueue, FlushTake, FlushSend,
               FlushInterrupted,
               HandleRequests, DispatchResponse, DispatchCommand
<1>11. ASSUME NEW h \in Conns, ClientLeaves(h)
       PROVE  UNCHANGED <<scenario, pc, id, victim, clients>>
  BY <1>11 DEF ClientLeaves
<1> QED
  BY <1>3, <1>4, <1>5, <1>6, <1>7, <1>8, <1>9, <1>10, <1>11 DEF Next, Reacts

-------------------------------------------------------------------------------
(***************************************************************************)
(* Where messages are, step by step.                                       *)
(***************************************************************************)
\* Every step keeps that flushes start fresh.
LEMMA NextFreshFlushes == TypeOK /\ FreshFlushes /\ [Next]_vars => FreshFlushes'
<1> SUFFICES ASSUME TypeOK, FreshFlushes, [Next]_vars PROVE FreshFlushes'
  OBVIOUS
<1> USE DEF bridgeVars, backendVars, flushVars,
            sendVars, clientVars, dispatchVars
<1>1. CASE UNCHANGED <<link, toFlush, batch>>
  BY <1>1 DEF FreshFlushes
<1>2. CASE StopBackend
  BY <1>2 DEF StopBackend, FreshFlushes, TypeOK
<1>3. ASSUME NEW b \in Backends,
             \/ Connect(b) \/ BackendDies(b) \/ LeavesPool(b) \/ FlushTake(b)
             \/ FlushSend(b) \/ FlushInterrupted(b)
      PROVE  FreshFlushes'
  <2>1. CASE Connect(b)
    BY <2>1 DEF Connect, FreshFlushes, TypeOK
  <2>2. CASE BackendDies(b)
    BY <2>2 DEF BackendDies, FreshFlushes, TypeOK
  <2>3. CASE LeavesPool(b)
    BY <2>3 DEF LeavesPool, FreshFlushes, TypeOK
  <2>4. CASE FlushTake(b)
    BY <2>4 DEF FlushTake, FreshFlushes, TypeOK
  <2>5. CASE FlushSend(b)
    BY <2>5 DEF FlushSend, FreshFlushes, TypeOK
  <2>6. CASE FlushInterrupted(b)
    BY <2>6 DEF FlushInterrupted, FreshFlushes, TypeOK
  <2> QED BY <1>3, <2>1, <2>2, <2>3, <2>4, <2>5, <2>6
<1>4. StartBackend \/ StartWebSocket \/ StopWebSocket \/ WriteMessage
          \/ UNCHANGED vars
        => UNCHANGED <<link, toFlush, batch>>
  BY DEF StartBackend, StartWebSocket, StopWebSocket, WriteMessage, vars
<1>5. ASSUME NEW b \in Backends, EchoBackend(b) \/ HandleRequests(b)
      PROVE  UNCHANGED <<link, toFlush, batch>>
  BY <1>5 DEF EchoBackend, AcceptsClient, Echoes, Ignores, HandleRequests,
              DispatchResponse, DispatchCommand
<1>6. ASSUME NEW h \in Conns,
             \/ Request(h) \/ UpgradeFails(h) \/ Reacts(h) \/ ClientLeaves(h)
             \/ \E m \in Messages : Receive(h, m)
      PROVE  UNCHANGED <<link, toFlush, batch>>
  BY <1>6 DEF Request, UpgradeFails, Reacts, ReportError, Admit, Announce,
              ReadFails, ReportDisconnect, ClientLeaves, Receive
<1> QED
  BY <1>1, <1>2, <1>3, <1>4, <1>5, <1>6 DEF Next, Main, FlushQueue

(* What was said stays said, and a client_id is for life.                  *)
LEMMA StepKeepsWords ==
  ASSUME TypeOK, IdInv, [Next]_vars, NEW h \in Conns
  PROVE  /\ \A m : Said(h, m) => Said(h, m)'
         /\ id[h] # None => id'[h] = id[h]
         /\ pc[h] = "returned" => id'[h] = id[h]
<1> USE DEF bridgeVars, backendVars, flushVars,
            sendVars, clientVars, dispatchVars
<1>1. CASE UNCHANGED <<said, id>>
  BY <1>1 DEF Said
<1>2. ASSUME NEW x \in Conns, Admit(x)
      PROVE  /\ UNCHANGED said
             /\ id[h] # None => id'[h] = id[h]
             /\ pc[h] = "returned" => id'[h] = id[h]
  BY <1>2 DEF Admit, IdInv, Named, TypeOK
<1>3. ASSUME NEW x \in Conns, NEW m \in Messages, Receive(x, m)
      PROVE  UNCHANGED id /\ \A w : Said(h, w) => Said(h, w)'
  <2>1. said' = [said EXCEPT ![x] = Append(@, m)] /\ UNCHANGED id
    BY <1>3 DEF Receive
  <2>2. ToSet(Append(said[x], m)) = ToSet(said[x]) \cup {m}
    BY AppendElements DEF TypeOK
  <2> QED BY <2>1, <2>2 DEF Said, TypeOK
<1>4. Main \/ WriteMessage \/ UNCHANGED vars => UNCHANGED <<said, id>>
  BY DEF Main, StartBackend, StartWebSocket, StopBackend, StopWebSocket,
         WriteMessage, vars
<1>5. ASSUME NEW b \in Backends,
             \/ Connect(b) \/ EchoBackend(b) \/ BackendDies(b) \/ LeavesPool(b)
             \/ FlushQueue(b) \/ HandleRequests(b)
      PROVE  UNCHANGED <<said, id>>
  BY <1>5 DEF Connect, EchoBackend, AcceptsClient, Echoes, Ignores, BackendDies,
              LeavesPool, FlushQueue, FlushTake, FlushSend, FlushInterrupted,
              HandleRequests, DispatchResponse, DispatchCommand
<1>6. ASSUME NEW x \in Conns,
             \/ Request(x) \/ UpgradeFails(x) \/ ReportError(x) \/ Announce(x)
             \/ ReadFails(x) \/ ReportDisconnect(x) \/ ClientLeaves(x)
      PROVE  UNCHANGED <<said, id>>
  BY <1>6 DEF Request, UpgradeFails, ReportError, Announce, ReadFails,
              ReportDisconnect, ClientLeaves
<1>7. CASE \E x \in Conns : Admit(x)
  BY <1>2, <1>7 DEF Said
<1>8. CASE \E x \in Conns : \E m \in Messages : Receive(x, m)
  BY <1>3, <1>8
<1> QED
  BY <1>1, <1>4, <1>5, <1>6, <1>7, <1>8 DEF Next, Reacts

(* Whatever is under way or has been read or lost remains one of these, and*)
(* what is new under way is genuine.                                       *)
Known == Heard \cup Underway \cup lost

NewMail == \A e \in Underway' : e \in Underway \/ Genuine(e)'
NoneForgotten == Known \subseteq Known'

\* Steps that touch no message.
LEMMA SameMail ==
  UNCHANGED <<toBackend, batch, messageQueue, lost, received>>
    => NewMail /\ NoneForgotten
  BY DEF NewMail, NoneForgotten, Known, Heard, Underway, InLinks, InBatches,
         InQueue, Gathered

\* Steps that send one message.
LEMMA MailSent ==
  ASSUME NEW e, SendEffect(e), UNCHANGED <<batch, received>>, Genuine(e)'
  PROVE  NewMail /\ NoneForgotten /\ e \in Known'
<1>1. InBatches' = InBatches /\ Heard' = Heard
  BY DEF InBatches, Heard, Gathered
<1> QED BY <1>1 DEF NewMail, NoneForgotten, Known, Underway, SendEffect

\* Every step: a case for each action.
LEMMA StepMail ==
  TypeOK /\ IdInv /\ FreshFlushes /\ [Next]_vars => NewMail /\ NoneForgotten
<1> SUFFICES ASSUME TypeOK, IdInv, FreshFlushes, [Next]_vars
             PROVE  NewMail /\ NoneForgotten
  OBVIOUS
<1> USE DEF bridgeVars, backendVars, flushVars,
            sendVars, clientVars, dispatchVars
<1>1. /\ DOMAIN toBackend = Backends /\ DOMAIN batch = Backends
      /\ DOMAIN received = Backends
  BY DEF TypeOK
<1>2. CASE StopBackend
  <2>1. \A b \in Backends :
           \/ toBackend'[b] = toBackend[b]
           \/ toBackend'[b] = <<>> /\ ToSet(toBackend[b]) \subseteq lost'
    <3> TAKE b \in Backends
    <3>1. CASE b \in pool
      <4>1. toBackend'[b] = <<>>
        BY <1>2, <3>1 DEF StopBackend
      <4>2. ToSet(toBackend[b]) \subseteq lost'
        BY <1>2, <3>1 DEF StopBackend
      <4> QED BY <4>1, <4>2
    <3>2. CASE b \notin pool
      <4>1. toBackend'[b] = toBackend[b]
        BY <1>2, <3>2 DEF StopBackend
      <4> QED BY <4>1
    <3> QED BY <3>1, <3>2
  <2>2. InLinks' \subseteq InLinks /\ InLinks \subseteq InLinks' \cup lost'
    BY <2>1, EmptyElements DEF InLinks, Gathered
  <2>3. /\ InBatches' = InBatches /\ InQueue' = InQueue /\ Heard' = Heard
        /\ lost \subseteq lost'
    BY <1>2 DEF StopBackend, InBatches, InQueue, Heard, Gathered
  <2> QED BY <2>2, <2>3 DEF NewMail, NoneForgotten, Known, Underway
<1>3. ASSUME NEW b \in Backends, EchoBackend(b) PROVE NewMail /\ NoneForgotten
  <2>1. /\ toBackend' = [toBackend EXCEPT ![b] = Tail(toBackend[b])]
        /\ received' = [received EXCEPT
                          ![b] = Append(received[b], Head(toBackend[b]))]
        /\ toBackend[b] # <<>>
        /\ UNCHANGED <<batch, messageQueue, lost>>
    BY <1>3 DEF EchoBackend, AcceptsClient, Echoes, Ignores, Reads
  <2>2. /\ ToSet(toBackend[b])
             = {Head(toBackend[b])} \cup ToSet(Tail(toBackend[b]))
        /\ Head(toBackend[b]) \in Events \cup Requests
    BY <2>1, TailElements DEF TypeOK
  <2>3. ToSet(Append(received[b], Head(toBackend[b])))
          = ToSet(received[b]) \cup {Head(toBackend[b])}
    <3>1. received[b] \in Seq(Events \cup Requests)
      BY DEF TypeOK
    <3> DEFINE e == Head(toBackend[b])
    <3>2. e \in Events \cup Requests
      BY <2>2
    <3> HIDE DEF e
    <3>3. ToSet(Append(received[b], e)) = ToSet(received[b]) \cup {e}
      BY <3>1, <3>2, AppendElements
    <3> QED BY <3>3 DEF e
  <2>4. /\ InLinks' \subseteq InLinks \cup ToSet(Tail(toBackend[b]))
        /\ InLinks \subseteq InLinks' \cup ToSet(toBackend[b])
        /\ ToSet(Tail(toBackend[b])) \subseteq InLinks'
        /\ ToSet(toBackend[b]) \subseteq InLinks
    <3>1. Exchanged(toBackend, toBackend', toBackend[b], Tail(toBackend[b]))
      BY <1>1, <2>1, GatheredExcept
    <3> QED BY <3>1 DEF Exchanged, InLinks
  <2>5. Heard = Gathered(received) /\ Heard' = Gathered(received')
    BY DEF Heard, Gathered
  <2>6. /\ Heard \subseteq Heard' \cup ToSet(received[b])
        /\ ToSet(received[b]) \cup {Head(toBackend[b])} \subseteq Heard'
    <3>1. Exchanged(received, received', received[b],
                    Append(received[b], Head(toBackend[b])))
      BY <1>1, <2>1, GatheredExcept
    <3> QED BY <2>3, <2>5, <3>1 DEF Exchanged
  <2>7. InBatches' = InBatches /\ InQueue' = InQueue
    BY <2>1 DEF InBatches, InQueue
  <2>8. /\ InLinks' \subseteq InLinks
        /\ InLinks \cup Heard \subseteq InLinks' \cup Heard'
    BY <2>2, <2>4, <2>6
  <2> QED BY <2>1, <2>7, <2>8 DEF NewMail, NoneForgotten, Known, Underway
<1>4. ASSUME NEW b \in Backends, BackendDies(b) PROVE NewMail /\ NoneForgotten
  <2>1. /\ toBackend' = [toBackend EXCEPT ![b] = <<>>]
        /\ lost' = lost \cup ToSet(toBackend[b])
        /\ UNCHANGED <<batch, messageQueue, received>>
    BY <1>4 DEF BackendDies
  <2>2. /\ InLinks' \subseteq InLinks \cup ToSet(<<>>)
        /\ InLinks \subseteq InLinks' \cup ToSet(toBackend[b])
    <3>1. Exchanged(toBackend, toBackend', toBackend[b], <<>>)
      BY <1>1, <2>1, GatheredExcept
    <3> QED BY <3>1 DEF Exchanged, InLinks
  <2>3. InBatches' = InBatches /\ InQueue' = InQueue /\ Heard' = Heard
    BY <2>1 DEF InBatches, InQueue, Heard
  <2> QED BY <2>1, <2>2, <2>3, EmptyElements
             DEF NewMail, NoneForgotten, Known, Underway
<1>5. ASSUME NEW b \in Backends, FlushTake(b) PROVE NewMail /\ NoneForgotten
  <2>1. /\ batch' = [batch EXCEPT ![b] = messageQueue]
        /\ messageQueue' = <<>> /\ batch[b] = <<>>
        /\ UNCHANGED <<toBackend, lost, received>>
    BY <1>5 DEF FlushTake, FreshFlushes
  <2>2. /\ InBatches' \subseteq InBatches \cup InQueue
        /\ InBatches \subseteq InBatches' \cup ToSet(<<>>)
        /\ InQueue \subseteq InBatches'
    <3>1. Exchanged(batch, batch', batch[b], messageQueue)
      BY <1>1, <2>1, GatheredExcept
    <3> QED BY <2>1, <3>1 DEF Exchanged, InBatches, InQueue
  <2>3. InLinks' = InLinks /\ Heard' = Heard /\ InQueue' = {}
    BY <2>1, EmptyElements DEF InLinks, Heard, InQueue
  <2> QED BY <2>1, <2>2, <2>3, EmptyElements
             DEF NewMail, NoneForgotten, Known, Underway
<1>6. ASSUME NEW b \in Backends, FlushSend(b) PROVE NewMail /\ NoneForgotten
  <2>1. /\ batch' = [batch EXCEPT ![b] = Tail(batch[b])] /\ batch[b] # <<>>
        /\ Sent(Head(batch[b]))
        /\ UNCHANGED received
    BY <1>6 DEF FlushSend, Sent
  <2>2. /\ Head(batch[b]) \in Events
        /\ ToSet(batch[b]) = {Head(batch[b])} \cup ToSet(Tail(batch[b]))
    BY <2>1, TailElements DEF TypeOK
  <2>3. SendEffect(Head(batch[b]))
    BY <2>1, <2>2, SentEffect, TypeParts
  <2>4. /\ InBatches' \subseteq InBatches \cup ToSet(Tail(batch[b]))
        /\ InBatches \subseteq InBatches' \cup ToSet(batch[b])
        /\ ToSet(Tail(batch[b])) \subseteq InBatches'
        /\ ToSet(batch[b]) \subseteq InBatches
    <3>1. Exchanged(batch, batch', batch[b], Tail(batch[b]))
      BY <1>1, <2>1, GatheredExcept
    <3> QED BY <3>1 DEF Exchanged, InBatches
  <2>5. Heard' = Heard
    BY <2>1 DEF Heard
  <2>6. /\ InBatches' \subseteq InBatches
        /\ InBatches \subseteq InBatches' \cup {Head(batch[b])}
        /\ Head(batch[b]) \in InBatches
    BY <2>2, <2>4
  <2> QED BY <2>3, <2>5, <2>6
             DEF SendEffect, NewMail, NoneForgotten, Known, Underway
<1>7. ASSUME NEW b \in Backends, FlushInterrupted(b)
      PROVE  NewMail /\ NoneForgotten
  <2>1. /\ batch' = [batch EXCEPT ![b] = <<>>]
        /\ messageQueue' = batch[b] \o messageQueue
        /\ UNCHANGED <<toBackend, lost, received>>
    BY <1>7 DEF FlushInterrupted
  <2>2. InQueue' = ToSet(batch[b]) \cup InQueue
    BY <2>1, ConcatElements DEF InQueue, TypeOK
  <2>3. /\ InBatches' \subseteq InBatches \cup ToSet(<<>>)
        /\ InBatches \subseteq InBatches' \cup ToSet(batch[b])
        /\ ToSet(batch[b]) \subseteq InBatches
    <3>1. Exchanged(batch, batch', batch[b], <<>>)
      BY <1>1, <2>1, GatheredExcept
    <3> QED BY <3>1 DEF Exchanged, InBatches
  <2>4. InLinks' = InLinks /\ Heard' = Heard
    BY <2>1 DEF InLinks, Heard
  <2> QED BY <2>1, <2>2, <2>3, <2>4, EmptyElements
             DEF NewMail, NoneForgotten, Known, Underway
<1>8. ASSUME NEW h \in Conns, Request(h) PROVE NewMail /\ NoneForgotten
  <2> DEFINE e == Event("connection_request", h, None)
  <2>1. UNCHANGED <<batch, received>>
    BY <1>8 DEF Request
  <2>2. CASE UNCHANGED sendVars
    BY <2>1, <2>2, SameMail
  <2>3. CASE Written(e) \/ WrittenInVain(e)
    <3>1. SendEffect(e)
      BY <2>3, EventTypes, TypeParts, WrittenEffect
    <3>2. Genuine(e)'
      BY DEF Genuine, Event
    <3> QED BY <2>1, <3>1, <3>2, MailSent
  <2> QED BY <1>8, <2>2, <2>3 DEF Request
<1>9. ASSUME NEW e \in Events, Sent(e) \/ UNCHANGED sendVars,
             UNCHANGED <<batch, received>>, Genuine(e)'
      PROVE  NewMail /\ NoneForgotten
  <2>1. CASE Sent(e)
    BY <1>9, <2>1, SentEffect, TypeParts, MailSent
  <2>2. CASE UNCHANGED sendVars
    BY <1>9, <2>2, SameMail
  <2> QED BY <1>9, <2>1, <2>2
<1>10. ASSUME NEW h \in Conns, ReportError(h) PROVE NewMail /\ NoneForgotten
  <2>1. /\ Sent(Event("error", h, None)) \/ UNCHANGED sendVars
        /\ UNCHANGED <<batch, received>>
    BY <1>10 DEF ReportError, SendPanics
  <2>2. Event("error", h, None) \in Events /\ Genuine(Event("error", h, None))'
    BY EventTypes DEF Genuine, Event
  <2> QED BY <1>9, <2>1, <2>2
<1>11. ASSUME NEW h \in Conns, Announce(h) PROVE NewMail /\ NoneForgotten
  <2>1. /\ Sent(Event("new_connection", h, None)) \/ UNCHANGED sendVars
        /\ UNCHANGED <<batch, received>>
    BY <1>11 DEF Announce, Callback, SendPanics
  <2>2. /\ Event("new_connection", h, None) \in Events
        /\ Genuine(Event("new_connection", h, None))'
    BY EventTypes DEF Genuine, Event
  <2> QED BY <1>9, <2>1, <2>2
<1>12. ASSUME NEW h \in Conns, NEW m \in Messages, Receive(h, m)
       PROVE  NewMail /\ NoneForgotten
  <2> DEFINE e == Event("new_message", h, m)
  <2>1. /\ Sent(e) \/ UNCHANGED sendVars
        /\ UNCHANGED <<batch, received, id>>
        /\ pc[h] = "reading"
        /\ said' = [said EXCEPT ![h] = Append(said[h], m)]
    BY <1>12 DEF Receive, Callback, SendPanics
  <2>2. m \in ToSet(said'[h])
    BY <2>1, AppendElements DEF TypeOK
  <2>3. Genuine(e)'
    BY <2>1, <2>2 DEF Genuine, Said, Event, IdInv, Named
  <2>4. e \in Events
    BY EventTypes
  <2> QED BY <1>9, <2>1, <2>3, <2>4
<1>13. ASSUME NEW h \in Conns, ReportDisconnect(h)
       PROVE  NewMail /\ NoneForgotten
  <2> DEFINE e == Event("disconnected", h, None)
  <2>1. victim[h] = h
    BY <1>13 DEF ReportDisconnect, IdInv, Victims
  <2>2. /\ Sent(e) \/ UNCHANGED sendVars
        /\ UNCHANGED <<batch, received>>
    BY <1>13, <2>1 DEF ReportDisconnect, Callback, SendPanics
  <2>3. e \in Events /\ Genuine(e)'
    BY EventTypes DEF Genuine, Event
  <2> QED BY <1>9, <2>2, <2>3
<1>14. StartBackend \/ StartWebSocket \/ StopWebSocket \/ WriteMessage
           \/ UNCHANGED vars
         => UNCHANGED <<toBackend, batch, messageQueue, lost, received>>
  BY DEF StartBackend, StartWebSocket, StopWebSocket, WriteMessage, vars
<1>15. ASSUME NEW b \in Backends,
              Connect(b) \/ LeavesPool(b) \/ HandleRequests(b)
       PROVE  UNCHANGED <<toBackend, batch, messageQueue, lost, received>>
  BY <1>15 DEF Connect, LeavesPool, HandleRequests, DispatchResponse,
               DispatchCommand
<1>16. ASSUME NEW h \in Conns,
              UpgradeFails(h) \/ Admit(h) \/ ReadFails(h) \/ ClientLeaves(h)
       PROVE  UNCHANGED <<toBackend, batch, messageQueue, lost, received>>
  BY <1>16 DEF UpgradeFails, Admit, ReadFails, ClientLeaves
<1> QED
  BY SameMail, <1>2, <1>3, <1>4, <1>5, <1>6, <1>7, <1>8, <1>10, <1>11, <1>12,
     <1>13, <1>14, <1>15, <1>16
     DEF Next, Main, FlushQueue, Reacts

-------------------------------------------------------------------------------
(***************************************************************************)
(* Messages come back to whoever said them.                                *)
(***************************************************************************)
(* Genuine events and honest commands stay so.                             *)
LEMMA StepKeepsGenuine ==
  ASSUME TypeOK, IdInv, [Next]_vars, NEW e \in Events \cup Requests, Genuine(e)
  PROVE  Genuine(e)'
<1>1. e.client \in Conns
  BY DEF Events, Requests
<1> QED BY <1>1, StepKeepsWords DEF Genuine

\* The same for commands.
LEMMA StepKeepsHonest ==
  ASSUME TypeOK, IdInv, [Next]_vars, NEW l, Honest(l)
  PROVE  Honest(l)'
<1> SUFFICES ASSUME l.action = "message_to_connection"
             PROVE  \E x \in Conns :
                       id'[x] = l.id /\ l.id # None /\ Said(x, l.message)'
  BY DEF Honest
<1>1. PICK x \in Conns : id[x] = l.id /\ l.id # None /\ Said(x, l.message)
  BY DEF Honest
<1>2. id'[x] = l.id /\ Said(x, l.message)'
  BY <1>1, StepKeepsWords
<1> QED BY <1>1, <1>2

\* What is under way is an event or a request.
LEMMA UnderwayTypes == TypeOK => Underway \subseteq Events \cup Requests
<1> SUFFICES ASSUME TypeOK PROVE Underway \subseteq Events \cup Requests
  OBVIOUS
<1>1. \A b \in Backends : ToSet(toBackend[b]) \subseteq Events \cup Requests
  BY ElementTypes DEF TypeOK
<1>2. \A b \in Backends : ToSet(batch[b]) \subseteq Events
  BY ElementTypes DEF TypeOK
<1>3. ToSet(messageQueue) \subseteq Events
  BY ElementTypes DEF TypeOK
<1> QED BY <1>1, <1>2, <1>3 DEF Underway, InLinks, InBatches, InQueue, Gathered

\* What a backend echoes it was told.
LEMMA NextCommands ==
  TypeOK /\ IdInv /\ Sayings /\ Commands /\ [Next]_vars => Commands'
<1> SUFFICES ASSUME TypeOK, IdInv, Sayings, Commands, [Next]_vars
             PROVE  Commands'
  OBVIOUS
<1> USE DEF bridgeVars, backendVars, flushVars,
            sendVars, clientVars, dispatchVars
<1>1. ASSUME \A x \in Backends : \A l \in ToSet(fromBackend'[x]) :
                l \in ToSet(fromBackend[x]) \/ Honest(l)
      PROVE  Commands'
  <2> SUFFICES ASSUME NEW x \in Backends, NEW l \in ToSet(fromBackend'[x])
               PROVE  Honest(l)'
    BY DEF Commands
  <2>1. Honest(l)
    BY <1>1 DEF Commands
  <2> QED BY <2>1, StepKeepsHonest
<1>2. CASE UNCHANGED fromBackend
  BY <1>1, <1>2
<1>3. ASSUME NEW b \in Backends, NEW l \in Lines, Honest(l), Replies(b, l)
      PROVE  Commands'
  <2>1. ToSet(Append(fromBackend[b], l)) = ToSet(fromBackend[b]) \cup {l}
    BY AppendElements DEF TypeOK
  <2>2. fromBackend' = [fromBackend EXCEPT ![b] = Append(fromBackend[b], l)]
    BY <1>3 DEF Replies
  <2>3. \A x \in Backends :
           ToSet(fromBackend'[x]) \subseteq ToSet(fromBackend[x]) \cup {l}
    BY <2>1, <2>2 DEF TypeOK
  <2> QED BY <1>1, <1>3, <2>3
<1>4. ASSUME NEW b \in Backends, AcceptsClient(b) PROVE Commands'
  <2> DEFINE l == [action |-> "response", client |-> Head(toBackend[b]).client,
                   id |-> ClientId(b, clientCounter[b] + 1)]
  <2>1. clientCounter[b] \in Nat /\ Head(toBackend[b]) \in Events \cup Requests
    BY <1>4, ReadTypes DEF AcceptsClient, TypeOK
  <2>2. l \in Lines /\ Honest(l)
    BY <2>1 DEF Lines, ClientId, ClientIds, Events, Requests, Honest
  <2>3. Replies(b, l)
    BY <1>4 DEF AcceptsClient
  <2> QED BY <1>3, <2>2, <2>3
<1>5. ASSUME NEW b \in Backends, Echoes(b) PROVE Commands'
  <2> DEFINE e == Head(toBackend[b])
             l == [action |-> "message_to_connection",
                   message |-> e.message, id |-> id[e.client]]
  <2>1. /\ e.action = "new_message" /\ e \in Events \cup Requests
        /\ toBackend[b] # <<>> /\ Replies(b, l)
    BY <1>5, ReadTypes DEF Echoes, Reads
  <2>2. ToSet(toBackend[b]) = {e} \cup ToSet(Tail(toBackend[b]))
    BY <2>1, TailElements DEF TypeOK
  <2>3. e \in Underway
    BY <2>2 DEF Underway, InLinks, Gathered
  <2> HIDE DEF e
  <2>4. e.client \in Conns /\ e.message \in Messages
    BY <2>1 DEF Events, Requests
  <2>5. Said(e.client, e.message) /\ id[e.client] # None
    BY <2>1, <2>3 DEF Sayings, Genuine
  <2>6. l \in Lines
    BY <2>4 DEF Lines, TypeOK
  <2>7. Honest(l)
    BY <2>4, <2>5 DEF Honest
  <2> QED BY <1>3, <2>1, <2>6, <2>7
<1>6. ASSUME NEW b \in Backends, LeavesPool(b) PROVE Commands'
  <2>1. PICK n \in 0..Len(fromBackend[b]) :
          fromBackend' = [fromBackend EXCEPT ![b] = SubSeq(@, 1, n)]
    BY <1>6 DEF LeavesPool
  <2>2. ToSet(SubSeq(fromBackend[b], 1, n)) \subseteq ToSet(fromBackend[b])
    BY PrefixElements DEF TypeOK
  <2>3. \A x \in Backends :
           ToSet(fromBackend'[x]) \subseteq ToSet(fromBackend[x])
    BY <2>1, <2>2 DEF TypeOK
  <2> QED BY <1>1, <2>3
<1>7. ASSUME NEW b \in Backends, HandleRequests(b) PROVE Commands'
  <2>1. TakesLine(b, Tail(fromBackend[b]))
    BY <1>7 DEF HandleRequests, DispatchResponse, DispatchCommand
  <2> QED BY <1>1, <2>1, LinesTaken
<1>8. Main \/ WriteMessage \/ UNCHANGED vars => UNCHANGED fromBackend
  BY DEF Main, StartBackend, StartWebSocket, StopBackend, StopWebSocket,
         WriteMessage, vars
<1>9. ASSUME NEW b \in Backends,
             Connect(b) \/ Ignores(b) \/ BackendDies(b) \/ FlushQueue(b)
      PROVE  UNCHANGED fromBackend
  BY <1>9 DEF Connect, Ignores, BackendDies, FlushQueue, FlushTake, FlushSend,
              FlushInterrupted
<1>10. ASSUME NEW h \in Conns,
              \/ Request(h) \/ UpgradeFails(h) \/ Reacts(h) \/ ClientLeaves(h)
              \/ \E m \in Messages : Receive(h, m)
       PROVE  UNCHANGED fromBackend
  BY <1>10 DEF Request, UpgradeFails, Reacts, ReportError, Admit, Announce,
               ReadFails, ReportDisconnect, ClientLeaves, Receive
<1> QED
  BY <1>2, <1>4, <1>5, <1>6, <1>7, <1>8, <1>9, <1>10 DEF Next, EchoBackend

\* The dispatcher writes to the one client with the client_id of the command.
LEMMA NextEchoInv ==
  TypeOK /\ IdInv /\ FreshFlushes /\ EchoInv /\ [Next]_vars => EchoInv'
<1> SUFFICES ASSUME TypeOK, IdInv, FreshFlushes, EchoInv, [Next]_vars
             PROVE  EchoInv'
  OBVIOUS
<1> USE DEF bridgeVars, backendVars, flushVars,
            sendVars, clientVars, dispatchVars
<1>1. Sayings'
  <2> SUFFICES ASSUME NEW e \in Underway' PROVE Genuine(e)'
    BY DEF Sayings
  <2>1. CASE e \in Underway
    BY <2>1, UnderwayTypes, StepKeepsGenuine DEF EchoInv, Sayings
  <2> QED BY <2>1, StepMail DEF NewMail
<1>2. Commands'
  BY NextCommands DEF EchoInv
<1>3. CASE UNCHANGED <<writing, delivered>>
  <2>1. Writing'
    <3>1. writing # None => writing.to \in Conns
      BY DEF TypeOK, Writes
    <3> QED BY <1>3, <3>1, StepKeepsWords DEF EchoInv, Writing
  <2>2. EchoToSender'
    <3> SUFFICES ASSUME NEW d \in ToSet(delivered')
                 PROVE  Contains(said'[d.to], d.message)
      BY DEF EchoToSender
    <3>1. d \in ToSet(delivered) /\ ToSet(delivered) \subseteq Writes
      BY <1>3, ElementTypes DEF TypeOK
    <3>2. d.to \in Conns /\ Contains(said[d.to], d.message)
      BY <3>1 DEF Writes, EchoInv, EchoToSender
    <3>3. Said(d.to, d.message)'
      BY <3>2, ElementTypes, StepKeepsWords DEF Said, TypeOK
    <3>4. said'[d.to] \in Seq(Messages)
      BY <3>2, NextTypeOK DEF IdInv, TypeOK
    <3> QED BY <3>3, <3>4, ElementTypes DEF Said
  <2> QED BY <1>1, <1>2, <2>1, <2>2 DEF EchoInv
<1>4. ASSUME NEW b \in Backends, DispatchCommand(b) PROVE EchoInv'
  <2> DEFINE l == Head(fromBackend[b])
  <2>1. /\ l \in ToSet(fromBackend[b]) /\ l \in Lines
        /\ l.action = "message_to_connection"
        /\ UNCHANGED <<delivered, said, id>>
    BY <1>4, LinesTaken DEF DispatchCommand
  <2>2. \/ UNCHANGED writing
        \/ \E x \in Recipients(l.id) :
              writing' = [message |-> l.message, to |-> x, via |-> b]
    BY <1>4 DEF DispatchCommand
  <2> HIDE DEF l
  <2>3. PICK y \in Conns : id[y] = l.id /\ l.id # None /\ Said(y, l.message)
    BY <2>1 DEF EchoInv, Commands, Honest
  <2>4. \A x \in Recipients(l.id) : x = y
    BY <2>3 DEF Recipients, IdInv, OwnIds, Holds, TypeOK
  <2>5. Writing'
    BY <2>1, <2>2, <2>3, <2>4 DEF EchoInv, Writing, Said
  <2>6. EchoToSender'
    BY <2>1 DEF EchoInv, EchoToSender
  <2> QED BY <1>1, <1>2, <2>5, <2>6 DEF EchoInv
<1>5. CASE WriteMessage
  <2>1. /\ writing # None /\ writing' = None /\ UNCHANGED said
        /\ delivered' = delivered \/ delivered' = Append(delivered, writing)
    BY <1>5 DEF WriteMessage
  <2>2. writing \in Writes /\ delivered \in Seq(Writes)
    BY <2>1 DEF TypeOK
  <2>3. ToSet(delivered') \subseteq ToSet(delivered) \cup {writing}
    <3>1. ToSet(Append(delivered, writing)) = ToSet(delivered) \cup {writing}
      BY <2>2, AppendElements
    <3> QED BY <2>1, <3>1
  <2>4. Contains(said[writing.to], writing.message)
    <3>1. writing.to \in Conns /\ Said(writing.to, writing.message)
      BY <2>1, <2>2 DEF Writes, EchoInv, Writing
    <3>2. said[writing.to] \in Seq(Messages)
      BY <3>1 DEF TypeOK
    <3> QED BY <3>1, <3>2, ElementTypes DEF Said
  <2>5. EchoToSender'
    BY <2>1, <2>3, <2>4 DEF EchoInv, EchoToSender
  <2>6. Writing'
    BY <2>1 DEF Writing
  <2> QED BY <1>1, <1>2, <2>5, <2>6 DEF EchoInv
<1>6. Main \/ UNCHANGED vars => UNCHANGED <<writing, delivered>>
  BY DEF Main, StartBackend, StartWebSocket, StopBackend, StopWebSocket, vars
<1>7. ASSUME NEW b \in Backends,
             \/ Connect(b) \/ EchoBackend(b) \/ BackendDies(b) \/ LeavesPool(b)
             \/ FlushQueue(b) \/ DispatchResponse(b)
      PROVE  UNCHANGED <<writing, delivered>>
  BY <1>7 DEF Connect, EchoBackend, AcceptsClient, Echoes, Ignores, BackendDies,
              LeavesPool, FlushQueue, FlushTake, FlushSend, FlushInterrupted,
              DispatchResponse, TakesLine
<1>8. ASSUME NEW h \in Conns,
             \/ Request(h) \/ UpgradeFails(h) \/ Reacts(h) \/ ClientLeaves(h)
             \/ \E m \in Messages : Receive(h, m)
      PROVE  UNCHANGED <<writing, delivered>>
  BY <1>8 DEF Request, UpgradeFails, Reacts, ReportError, Admit, Announce,
              ReadFails, ReportDisconnect, ClientLeaves, Receive
<1> QED
  BY <1>3, <1>4, <1>5, <1>6, <1>7, <1>8 DEF Next, HandleRequests

-------------------------------------------------------------------------------
(***************************************************************************)
(* The ends of clients are accounted for.                                  *)
(***************************************************************************)
\* The property speaks of the same messages.
LEMMA KnownIs == Known = Heard \cup OnItsWay \cup lost
<1>1. OnItsWay = Underway
  BY DEF OnItsWay, Underway, InLinks, InBatches, InQueue, Gathered
<1> QED BY <1>1 DEF Known

\* A handler that returns has reported the end of its client, or had none.
LEMMA ReturnReports ==
  ASSUME TypeOK, IdInv, [Next]_vars, NEW h \in Conns,
         pc[h] # "returned", pc'[h] = "returned"
  PROVE  id'[h] = None \/ ReportDisconnect(h)
<1> USE DEF bridgeVars, backendVars, flushVars,
            sendVars, clientVars, dispatchVars
<1>1. ASSUME NEW x \in Conns, UpgradeFails(x) \/ ReportError(x)
      PROVE  id'[h] = None
  <2>1. /\ pc[x] \in {"waiting", "refused"} /\ UNCHANGED id
        /\ pc' = [pc EXCEPT ![x] = "returned"]
    BY <1>1 DEF UpgradeFails, ReportError
  <2>2. x = h
    BY <2>1 DEF TypeOK
  <2> QED BY <2>1, <2>2 DEF IdInv, Named
<1>2. ASSUME NEW x \in Conns, ReportDisconnect(x)
      PROVE  ReportDisconnect(h)
  <2>1. \E l \in {"returned", "panicked"} : pc' = [pc EXCEPT ![x] = l]
    BY <1>2 DEF ReportDisconnect, Callback
  <2>2. x = h
    BY <2>1 DEF TypeOK
  <2> QED BY <1>2, <2>2
<1>3. ASSUME NEW x \in Conns,
             \/ Request(x) \/ Admit(x) \/ Announce(x) \/ ReadFails(x)
             \/ ClientLeaves(x) \/ \E m \in Messages : Receive(x, m)
      PROVE  FALSE
  <2>1. \/ UNCHANGED pc
        \/ \E l \in {"waiting", "refused", "announcing", "reading", "reporting",
                     "panicked"} : pc' = [pc EXCEPT ![x] = l]
    BY <1>3 DEF Request, Admit, Announce, ReadFails, ClientLeaves, Receive,
                Callback
  <2> QED BY <2>1 DEF TypeOK
<1>4. ASSUME Main \/ WriteMessage \/ UNCHANGED vars PROVE UNCHANGED pc
  BY <1>4 DEF Main, StartBackend, StartWebSocket, StopBackend, StopWebSocket,
         WriteMessage, vars
<1>5. ASSUME NEW b \in Backends,
             \/ Connect(b) \/ EchoBackend(b) \/ BackendDies(b) \/ LeavesPool(b)
             \/ FlushQueue(b) \/ HandleRequests(b)
      PROVE  UNCHANGED pc
  BY <1>5 DEF Connect, EchoBackend, AcceptsClient, Echoes, Ignores, BackendDies,
              LeavesPool, FlushQueue, FlushTake, FlushSend, FlushInterrupted,
              HandleRequests, DispatchResponse, DispatchCommand
<1> QED
  BY <1>1, <1>2, <1>3, <1>4, <1>5 DEF Next, Reacts

\* An end once known stays known; a new one was just sent.
LEMMA NextEnds ==
  TypeOK /\ IdInv /\ FreshFlushes /\ EndsAccounted /\ [Next]_vars
    => EndsAccounted'
<1> SUFFICES ASSUME TypeOK, IdInv, FreshFlushes, EndsAccounted, [Next]_vars
             PROVE  EndsAccounted'
  OBVIOUS
<1>0. Known' = Heard' \cup OnItsWay' \cup lost'
  <2>1. OnItsWay' = Underway'
    BY DEF OnItsWay, Underway, InLinks, InBatches, InQueue, Gathered
  <2> QED BY <2>1 DEF Known
<1> SUFFICES ASSUME NEW h \in Conns, pc'[h] = "returned", id'[h] # None
             PROVE  Event("disconnected", h, None) \in Known'
  BY <1>0 DEF EndsAccounted, Event
<1>1. CASE pc[h] = "returned"
  <2>1. id[h] # None
    BY <1>1, StepKeepsWords
  <2>2. Event("disconnected", h, None) \in Known
    BY <1>1, <2>1, KnownIs DEF EndsAccounted
  <2> QED BY <2>2, StepMail DEF NoneForgotten
<1>2. CASE ReportDisconnect(h)
  <2>1. victim[h] = h
    BY <1>2 DEF ReportDisconnect, IdInv, Victims
  <2>2. \/ pc' = [pc EXCEPT ![h] = "returned"]
        \/ pc' = [pc EXCEPT ![h] = "panicked"]
    BY <1>2 DEF ReportDisconnect, Callback
  <2>3. pc' # [pc EXCEPT ![h] = "panicked"]
    BY DEF TypeOK
  <2>4. /\ Sent(Event("disconnected", h, None))
        /\ UNCHANGED <<batch, received>>
    BY <1>2, <2>1, <2>3
       DEF ReportDisconnect, Callback, bridgeVars, backendVars, flushVars
  <2>5. SendEffect(Event("disconnected", h, None))
    BY <2>4, EventTypes, TypeParts, SentEffect
  <2>6. Genuine(Event("disconnected", h, None))'
    BY DEF Genuine, Event
  <2> QED BY <2>4, <2>5, <2>6, MailSent
<1> QED BY <1>1, <1>2, ReturnReports

-------------------------------------------------------------------------------
(***************************************************************************)
(* The inductive invariant and the theorems.                               *)
(***************************************************************************)
IInv == TypeOK /\ IdInv /\ FreshFlushes /\ EchoInv /\ EndsAccounted

\* It holds at the start ...
LEMMA InitIInv == Init => IInv
<1> SUFFICES ASSUME Init PROVE IInv
  OBVIOUS
<1>1. TypeOK
  <2>1. \A S : <<>> \in Seq(S)
    OBVIOUS
  <2>2. /\ messageQueue \in Seq(Events) /\ delivered \in Seq(Writes)
        /\ batch \in [Backends -> Seq(Events)]
        /\ toBackend \in [Backends -> Seq(Events \cup Requests)]
        /\ received \in [Backends -> Seq(Events \cup Requests)]
        /\ fromBackend \in [Backends -> Seq(Lines)]
        /\ said \in [Conns -> Seq(Messages)]
    BY <2>1 DEF Init
  <2> QED BY <2>2 DEF Init, TypeOK
<1>2. IdInv
  <2>1. Named /\ Victims /\ RegisteredAreServed
    BY DEF Init, Named, Victims, RegisteredAreServed
  <2>2. \A x \in Conns : \A i \in ClientIds : ~Holds(x, i)
    <3> SUFFICES ASSUME NEW x \in Conns, NEW i \in ClientIds PROVE ~Holds(x, i)
      OBVIOUS
    <3>1. id[x] = None /\ answer[x] = None
      BY DEF Init
    <3>2. \A b \in Backends : ToSet(fromBackend[b]) = {}
      BY EmptyElements DEF Init
    <3>3. i # None
      BY DistinctAssumption DEF ClientIds
    <3> QED BY <3>1, <3>2, <3>3 DEF Holds
  <2> QED BY <2>1, <2>2 DEF IdInv, OwnIds
<1>3. FreshFlushes
  BY DEF Init, FreshFlushes
<1>4. EchoInv
  <2>1. \A b \in Backends : /\ ToSet(toBackend[b]) = {} /\ ToSet(batch[b]) = {}
                           /\ ToSet(fromBackend[b]) = {}
    BY EmptyElements DEF Init
  <2>2. ToSet(messageQueue) = {} /\ ToSet(delivered) = {} /\ writing = None
    BY EmptyElements DEF Init
  <2> QED BY <2>1, <2>2 DEF EchoInv, Sayings, Underway, InLinks, InBatches,
                            InQueue, Gathered, Commands, Writing, EchoToSender
<1>5. EndsAccounted
  BY DEF Init, EndsAccounted
<1> QED BY <1>1, <1>2, <1>3, <1>4, <1>5 DEF IInv

\* ... and is kept by every step.
LEMMA NextIInv == IInv /\ [Next]_vars => IInv'
<1> SUFFICES ASSUME IInv, [Next]_vars PROVE IInv'
  OBVIOUS
<1>1. TypeOK'
  BY NextTypeOK DEF IInv, IdInv
<1> QED
  BY <1>1, NextIdInv, NextFreshFlushes, NextEchoInv, NextEnds DEF IInv

(* The inductive invariant of the gateway holds, whatever the scenario,    *)
(* however many clients and backends come, and however they are stopped.   *)
THEOREM InductiveInvariant == Spec => []IInv
  BY InitIInv, NextIInv, PTL DEF Spec

(* The variables keep their types: in particular handleDisconnect has a    *)
(* client to report, and none but connections are registered.              *)
THEOREM TypeCorrect == Spec => []TypeOK
<1>1. IInv => TypeOK
  BY DEF IInv
<1> QED BY <1>1, InductiveInvariant, PTL

(* A registered client has a handler that reads from it, so that its end   *)
(* will be noticed, unless the queue size is negative.                     *)
THEOREM Served == Spec => []RegisteredAreServed
<1>1. IInv => RegisteredAreServed
  BY DEF IInv, IdInv
<1> QED BY <1>1, InductiveInvariant, PTL

(* What is written to a connection was read from that connection.          *)
THEOREM BackToSender == Spec => []EchoToSender
<1>1. IInv => EchoToSender
  BY DEF IInv, EchoInv
<1> QED BY <1>1, InductiveInvariant, PTL

(* The disconnected event of a client that was admitted and whose handler  *)
(* has returned is with a backend, under way, queued, or known to be lost. *)
THEOREM EndsKept == Spec => []EndsAccounted
<1>1. IInv => EndsAccounted
  BY DEF IInv
<1> QED BY <1>1, InductiveInvariant, PTL
===============================================================================
