-------------------------- MODULE GatewayOrderProofs --------------------------
(***************************************************************************)
(* Proofs about the order in which Gateway passes messages on, and that it *)
(* passes none on twice.                                                   *)
(***************************************************************************)
EXTENDS GatewayProofs

-------------------------------------------------------------------------------
(***************************************************************************)
(* Sequences sorted by a relation, and what comes before what.             *)
(***************************************************************************)
Sorted(s, R) == \A i, j \in DOMAIN s : i < j => <<s[i], s[j]>> \in R
AllBefore(A, B, R) == \A x \in A : \A y \in B : <<x, y>> \in R

\* Nothing and one are sorted.
LEMMA SortedEmpty == \A R : Sorted(<<>>, R) /\ \A x : Sorted(<<x>>, R)
<1> SUFFICES ASSUME NEW R, NEW x PROVE Sorted(<<>>, R) /\ Sorted(<<x>>, R)
  OBVIOUS
<1>1. Sorted(<<>>, R)
  BY DEF Sorted
<1>2. DOMAIN <<x>> = {1}
  OBVIOUS
<1>3. ~(1 < 1)
  OBVIOUS
<1>4. Sorted(<<x>>, R)
  BY <1>2, <1>3 DEF Sorted
<1> QED BY <1>1, <1>4

\* A sequence stays sorted with something later than all of it at its end.
LEMMA SortedAppend ==
  ASSUME NEW S, NEW R, NEW s \in Seq(S), NEW e \in S,
         Sorted(s, R), AllBefore(ToSet(s), {e}, R)
  PROVE  Sorted(Append(s, e), R)
<1>1. /\ DOMAIN s = 1..Len(s) /\ Len(s) \in Nat
      /\ DOMAIN Append(s, e) = 1..(Len(s) + 1)
      /\ \A i \in 1..Len(s) : Append(s, e)[i] = s[i]
      /\ Append(s, e)[Len(s) + 1] = e
  OBVIOUS
<1> SUFFICES ASSUME NEW i \in 1..(Len(s) + 1), NEW j \in 1..(Len(s) + 1), i < j
             PROVE  <<Append(s, e)[i], Append(s, e)[j]>> \in R
  BY <1>1 DEF Sorted
<1>2. i \in 1..Len(s)
  BY <1>1
<1>3. CASE j \in 1..Len(s)
  BY <1>1, <1>2, <1>3 DEF Sorted
<1>4. CASE j = Len(s) + 1
  <2>1. s[i] \in ToSet(s)
    BY <1>1, <1>2 DEF ToSet
  <2> QED BY <1>1, <1>2, <1>4, <2>1 DEF AllBefore
<1>5. j \in 1..Len(s) \/ j = Len(s) + 1
  BY <1>1
<1> QED BY <1>3, <1>4, <1>5

\* The first of a sorted sequence, and the rest.
LEMMA SortedTail ==
  ASSUME NEW S, NEW R, NEW s \in Seq(S), s # <<>>, Sorted(s, R)
  PROVE  Sorted(Tail(s), R) /\ AllBefore({Head(s)}, ToSet(Tail(s)), R)
<1>1. /\ DOMAIN s = 1..Len(s) /\ Len(s) \in Nat /\ Len(s) >= 1
      /\ DOMAIN Tail(s) = 1..(Len(s) - 1)
      /\ \A i \in 1..(Len(s) - 1) : Tail(s)[i] = s[i + 1]
      /\ Head(s) = s[1]
  OBVIOUS
<1>2. \A i \in 1..(Len(s) - 1) : i + 1 \in 1..Len(s) /\ 1 < i + 1
  BY <1>1
<1>3. 1 \in 1..Len(s)
  BY <1>1
<1>4. Sorted(Tail(s), R)
  <2> SUFFICES ASSUME NEW i \in 1..(Len(s) - 1), NEW j \in 1..(Len(s) - 1),
                      i < j
               PROVE  <<Tail(s)[i], Tail(s)[j]>> \in R
    BY <1>1 DEF Sorted
  <2>1. i + 1 < j + 1
    BY <1>1
  <2> QED BY <1>1, <1>2, <2>1 DEF Sorted
<1>5. ASSUME NEW y \in ToSet(Tail(s)) PROVE <<Head(s), y>> \in R
  <2>1. PICK i \in 1..(Len(s) - 1) : y = s[i + 1]
    BY <1>1, <1>5 DEF ToSet
  <2> QED BY <1>1, <1>2, <1>3, <2>1 DEF Sorted
<1> QED BY <1>4, <1>5 DEF AllBefore

\* Two sorted sequences, one all before the other.
LEMMA SortedConcat ==
  ASSUME NEW S, NEW R, NEW s \in Seq(S), NEW t \in Seq(S),
         Sorted(s, R), Sorted(t, R), AllBefore(ToSet(s), ToSet(t), R)
  PROVE  Sorted(s \o t, R)
<1>1. /\ DOMAIN s = 1..Len(s) /\ Len(s) \in Nat
      /\ DOMAIN t = 1..Len(t) /\ Len(t) \in Nat
      /\ DOMAIN (s \o t) = 1..(Len(s) + Len(t))
      /\ \A i \in 1..Len(s) : (s \o t)[i] = s[i]
      /\ \A i \in (Len(s) + 1)..(Len(s) + Len(t)) :
            (s \o t)[i] = t[i - Len(s)]
  OBVIOUS
<1> SUFFICES ASSUME NEW i \in 1..(Len(s) + Len(t)),
                    NEW j \in 1..(Len(s) + Len(t)), i < j
             PROVE  <<(s \o t)[i], (s \o t)[j]>> \in R
  BY <1>1 DEF Sorted
<1>2. CASE i \in 1..Len(s) /\ j \in 1..Len(s)
  BY <1>1, <1>2 DEF Sorted
<1>3. CASE i \in 1..Len(s) /\ j \in (Len(s) + 1)..(Len(s) + Len(t))
  <2>1. j - Len(s) \in 1..Len(t)
    BY <1>1, <1>3
  <2>2. s[i] \in ToSet(s) /\ t[j - Len(s)] \in ToSet(t)
    BY <1>1, <1>3, <2>1 DEF ToSet
  <2> QED BY <1>1, <1>3, <2>2 DEF AllBefore
<1>4. CASE /\ i \in (Len(s) + 1)..(Len(s) + Len(t))
           /\ j \in (Len(s) + 1)..(Len(s) + Len(t))
  <2>1. /\ i - Len(s) \in 1..Len(t) /\ j - Len(s) \in 1..Len(t)
        /\ i - Len(s) < j - Len(s)
    BY <1>1, <1>4
  <2> QED BY <1>1, <1>4, <2>1 DEF Sorted
<1>5. \/ i \in 1..Len(s) /\ j \in 1..Len(s)
      \/ i \in 1..Len(s) /\ j \in (Len(s) + 1)..(Len(s) + Len(t))
      \/ /\ i \in (Len(s) + 1)..(Len(s) + Len(t))
         /\ j \in (Len(s) + 1)..(Len(s) + Len(t))
  BY <1>1
<1> QED BY <1>2, <1>3, <1>4, <1>5

\* A prefix of a sorted sequence.
LEMMA SortedPrefix ==
  ASSUME NEW S, NEW R, NEW s \in Seq(S), NEW n \in 0..Len(s), Sorted(s, R)
  PROVE  Sorted(SubSeq(s, 1, n), R)
<1>1. /\ DOMAIN s = 1..Len(s) /\ Len(s) \in Nat
      /\ DOMAIN SubSeq(s, 1, n) = 1..n
      /\ \A i \in 1..n : SubSeq(s, 1, n)[i] = s[i]
  OBVIOUS
<1>2. \A i \in 1..n : i \in 1..Len(s)
  BY <1>1
<1> QED BY <1>1, <1>2 DEF Sorted

\* What is sorted by a relation is sorted by one that holds more of it.
LEMMA SortedMore ==
  ASSUME NEW R, NEW Q, NEW s, Sorted(s, R),
         \A x, y \in ToSet(s) : <<x, y>> \in R => <<x, y>> \in Q
  PROVE  Sorted(s, Q)
  BY DEF Sorted, ToSet

-------------------------------------------------------------------------------
(***************************************************************************)
(* What may be on its way, and the message it carries, if any.             *)
(***************************************************************************)
Letters == Events \cup Requests
Things == Letters \cup Lines \cup Writes
Carried(x) == {m \in Messages : "message" \in DOMAIN x /\ x.message = m}

\* What carries what.
LEMMA CarriedIs ==
  /\ \A e \in Letters : Carried(e) =
        IF e.action = "new_message" THEN {e.message} ELSE {}
  /\ \A l \in Lines : Carried(l) =
        IF l.action = "message_to_connection" THEN {l.message} ELSE {}
  /\ \A w \in Writes : Carried(w) = {w.message}
<1>1. None \notin Messages
  BY DistinctAssumption
<1>2. ASSUME NEW e \in Letters
      PROVE  Carried(e) = IF e.action = "new_message" THEN {e.message} ELSE {}
  BY <1>1 DEF Letters, Events, Requests, Carried
<1>3. ASSUME NEW l \in Lines
      PROVE  Carried(l) =
               IF l.action = "message_to_connection" THEN {l.message} ELSE {}
  BY DEF Lines, Carried
<1>4. ASSUME NEW w \in Writes PROVE Carried(w) = {w.message}
  BY DEF Writes, Carried
<1> QED BY <1>2, <1>3, <1>4

-------------------------------------------------------------------------------
(***************************************************************************)
(* What a step does with messages, of which there are eleven kinds.        *)
(***************************************************************************)
\* What becomes of a sequence from which nothing is taken but its ends.
Shrunk(s, t) ==
    \/ t = s \/ t = <<>>
    \/ s # <<>> /\ t = Tail(s)
    \/ \E n \in 0..Len(s) : t = SubSeq(s, 1, n)

\* It is as sorted as it was, and nothing is new in it.
LEMMA ShrunkFacts ==
  ASSUME NEW S, NEW s \in Seq(S), NEW t, Shrunk(s, t)
  PROVE  /\ t \in Seq(S) /\ ToSet(t) \subseteq ToSet(s)
         /\ \A R : Sorted(s, R) => Sorted(t, R)
<1>1. CASE t = s
  BY <1>1
<1>2. CASE t = <<>>
  BY <1>2, EmptyElements, SortedEmpty
<1>3. CASE s # <<>> /\ t = Tail(s)
  BY <1>3, TailElements, SortedTail
<1>4. CASE \E n \in 0..Len(s) : t = SubSeq(s, 1, n)
  BY <1>4, PrefixElements, SortedPrefix
<1> QED BY <1>1, <1>2, <1>3, <1>4 DEF Shrunk

linkVars == <<toBackend, received>>
queueVars == <<messageQueue, batch, buffered>>
backVars == <<fromBackend, writing, delivered>>

\* No message moves.
Rests == UNCHANGED <<linkVars, queueVars, backVars, said>>

\* A client says something that nobody sends.
SaysNew(h, m) ==
    /\ \A x \in Conns : ~Said(x, m)
    /\ m \in Messages
    /\ said' = [said EXCEPT ![h] = Append(@, m)]
Mutters(h, m) == SaysNew(h, m) /\ UNCHANGED <<linkVars, queueVars, backVars>>

\* Connections to backends go, and what is on them.
Cuts == /\ toBackend' \in [Backends -> Seq(Letters)]
        /\ \A b \in Backends : Shrunk(toBackend[b], toBackend'[b])
        /\ UNCHANGED <<received, queueVars, backVars, said>>

\* A backend reads, and perhaps replies with the message it has read.
Answers(b, line) ==
    /\ line \in Lines /\ Carried(line) = Carried(Head(toBackend[b]))
    /\ fromBackend' = [fromBackend EXCEPT ![b] = Append(@, line)]
ReadsOne(b) ==
    /\ toBackend[b] # <<>>
    /\ toBackend' = [toBackend EXCEPT ![b] = Tail(@)]
    /\ received' = [received EXCEPT ![b] = Append(@, Head(toBackend[b]))]
    /\ UNCHANGED fromBackend \/ \E line : Answers(b, line)
    /\ UNCHANGED <<queueVars, writing, delivered, said>>

\* What a backend has sent is cut off.
Trims(b) ==
    /\ \E n \in 0..Len(fromBackend[b]) :
          fromBackend' = [fromBackend EXCEPT ![b] = SubSeq(@, 1, n)]
    /\ UNCHANGED <<linkVars, queueVars, writing, delivered, said>>

\* A flush takes the queue, and gives back what it has.
TakesQueue(b) ==
    /\ batch[b] = <<>>
    /\ batch' = [batch EXCEPT ![b] = messageQueue]
    /\ messageQueue' = <<>>
    /\ UNCHANGED <<linkVars, buffered, backVars, said>>
GivesBack(b) ==
    /\ batch[b] # <<>>
    /\ batch' = [batch EXCEPT ![b] = <<>>]
    /\ messageQueue' = batch[b] \o messageQueue
    /\ UNCHANGED <<linkVars, buffered, backVars, said>>

\* Where something sent gets.
ToLink(b, e) ==
    /\ toBackend' = [toBackend EXCEPT ![b] = Append(@, e)]
    /\ UNCHANGED <<messageQueue, buffered>>
ToQueue(e) ==
    /\ \E q : Shrunk(messageQueue, q) /\ messageQueue' = Append(q, e)
    /\ buffered' = TRUE
    /\ UNCHANGED toBackend
ToNobody == UNCHANGED <<toBackend, messageQueue, buffered>>
Lands(e) == (\E b \in Backends : ToLink(b, e)) \/ ToQueue(e) \/ ToNobody

\* A flush sends what it took.
PassesOn(b) ==
    /\ batch[b] # <<>>
    /\ Lands(Head(batch[b]))
    /\ batch' = [batch EXCEPT ![b] = Tail(@)]
    /\ UNCHANGED <<received, backVars, said>>

\* A client's handler sends something: a request, an error, or a chapter.
Chapters == {"new_connection", "new_message", "disconnected"}
Tells(h, e) ==
    \/ e.action \notin Chapters /\ UNCHANGED said
    \/ /\ e.action = "new_connection" /\ UNCHANGED said
       /\ pc[h] = "announcing" /\ pc'[h] = "reading"
    \/ /\ e.action = "new_message" /\ SaysNew(h, e.message)
       /\ pc[h] = "reading" /\ pc'[h] = "reading"
    \/ /\ e.action = "disconnected" /\ UNCHANGED said
       /\ pc[h] = "reporting" /\ pc'[h] = "returned"
Posts(h, e) ==
    /\ e.client = h
    /\ Lands(e)
    /\ Tells(h, e)
    /\ UNCHANGED <<received, batch, backVars>>

\* The dispatcher takes a line, for a client who is there or for nobody.
Dispatches(b) ==
    /\ writing = None
    /\ fromBackend[b] # <<>>
    /\ fromBackend' = [fromBackend EXCEPT ![b] = Tail(@)]
    /\ \/ writing' = None
       \/ /\ writing' \in Writes /\ writing'.via = b
          /\ Carried(writing') = Carried(Head(fromBackend[b]))
    /\ UNCHANGED <<linkVars, queueVars, delivered, said>>

\* What it has taken is written, or not.
Delivers ==
    /\ writing # None
    /\ writing' = None
    /\ delivered' \in {delivered, Append(delivered, writing)}
    /\ UNCHANGED <<linkVars, queueVars, fromBackend, said>>

MailStep ==
    \/ Rests \/ Cuts \/ Delivers
    \/ \E b \in Backends :
         \/ ReadsOne(b) \/ Trims(b) \/ TakesQueue(b) \/ GivesBack(b)
         \/ PassesOn(b) \/ Dispatches(b)
    \/ \E h \in Conns :
         \/ \E m \in Messages : Mutters(h, m)
         \/ \E e \in Letters : Posts(h, e)

\* What is sent lands somewhere.
LEMMA SentLands ==
  ASSUME PoolTypes, NEW e, Written(e) \/ WrittenInVain(e) \/ Sent(e)
  PROVE  Lands(e)
<1>1. CASE Written(e)
  BY <1>1 DEF Written, PoolTypes, Lands, ToLink
<1>2. CASE Enqueued(e)
  BY <1>2 DEF Enqueued, Lands, ToQueue, Shrunk
<1>3. CASE UNCHANGED <<toBackend, messageQueue, buffered>>
  BY <1>3 DEF Lands, ToNobody
<1> QED BY <1>1, <1>2, <1>3 DEF Sent, Accepted, WrittenInVain

(* Every step is of one of these kinds: a case for each action.            *)
LEMMA MailSteps ==
  TypeOK /\ IdInv /\ FreshFlushes /\ [Next]_vars => MailStep
<1> SUFFICES ASSUME TypeOK, IdInv, FreshFlushes, [Next]_vars PROVE MailStep
  OBVIOUS
<1> USE DEF bridgeVars, backendVars, flushVars,
            sendVars, clientVars, dispatchVars,
            linkVars, queueVars, backVars
<1>0. /\ toBackend \in [Backends -> Seq(Letters)] /\ pool \subseteq Backends
      /\ batch \in [Backends -> Seq(Events)]
      /\ fromBackend \in [Backends -> Seq(Lines)]
      /\ pc \in [Conns -> {"idle", "waiting", "refused", "announcing",
                           "reading", "reporting", "returned", "panicked"}]
  BY DEF TypeOK, Letters
<1>1. CASE StopBackend
  <2>1. /\ toBackend' = [b \in Backends |->
                           IF b \in pool THEN <<>> ELSE toBackend[b]]
        /\ UNCHANGED <<received, queueVars, backVars, said>>
    BY <1>1 DEF StopBackend
  <2>2. toBackend' \in [Backends -> Seq(Letters)]
    BY <1>0, <2>1
  <2>3. Cuts
    BY <2>1, <2>2 DEF Cuts, Shrunk
  <2> QED BY <2>3 DEF MailStep
<1>2. ASSUME NEW b \in Backends, BackendDies(b) PROVE MailStep
  <2>1. /\ toBackend' = [toBackend EXCEPT ![b] = <<>>]
        /\ UNCHANGED <<received, queueVars, backVars, said>>
    BY <1>2 DEF BackendDies
  <2>2. toBackend' \in [Backends -> Seq(Letters)]
    BY <1>0, <2>1
  <2>3. \A x \in Backends : Shrunk(toBackend[x], toBackend'[x])
    BY <1>0, <2>1 DEF Shrunk
  <2> QED BY <2>1, <2>2, <2>3 DEF Cuts, MailStep
<1>3. ASSUME NEW b \in Backends, EchoBackend(b) PROVE MailStep
  <2>1. /\ toBackend[b] # <<>>
        /\ toBackend' = [toBackend EXCEPT ![b] = Tail(@)]
        /\ received' = [received EXCEPT ![b] = Append(@, Head(toBackend[b]))]
        /\ UNCHANGED <<queueVars, writing, delivered, said>>
    BY <1>3 DEF EchoBackend, AcceptsClient, Echoes, Ignores, Reads
  <2> DEFINE e == Head(toBackend[b])
  <2>2. e \in Letters
    BY <1>0, <2>1, TailElements
  <2>3. CASE AcceptsClient(b)
    <3> DEFINE line == [action |-> "response", client |-> e.client,
                        id |-> ClientId(b, clientCounter[b] + 1)]
    <3>1. e.action = "connection_request" /\ clientCounter[b] \in Nat
          /\ fromBackend' = [fromBackend EXCEPT ![b] = Append(@, line)]
      BY <2>3 DEF AcceptsClient, Replies, TypeOK
    <3>2. line \in Lines /\ line.action = "response"
      BY <2>2, <3>1 DEF Lines, ClientId, ClientIds, Letters, Events, Requests
    <3>3. Carried(line) = {} /\ Carried(e) = {}
      BY <2>2, <3>1, <3>2, CarriedIs
    <3> HIDE DEF e, line
    <3> QED BY <2>1, <3>1, <3>2, <3>3 DEF e, ReadsOne, Answers, MailStep
  <2>4. CASE Echoes(b)
    <3> DEFINE line == [action |-> "message_to_connection",
                        message |-> e.message, id |-> id[e.client]]
    <3>1. e.action = "new_message"
          /\ fromBackend' = [fromBackend EXCEPT ![b] = Append(@, line)]
      BY <2>4 DEF Echoes, Replies
    <3>2. /\ line \in Lines /\ line.action = "message_to_connection"
          /\ line.message = e.message
      BY <2>2, <3>1 DEF Lines, Letters, Events, Requests, TypeOK
    <3>3. Carried(line) = Carried(e)
      BY <2>2, <3>1, <3>2, CarriedIs
    <3> HIDE DEF e, line
    <3> QED BY <2>1, <3>1, <3>2, <3>3 DEF e, ReadsOne, Answers, MailStep
  <2>5. CASE Ignores(b)
    BY <2>1, <2>5 DEF Ignores, ReadsOne, MailStep
  <2> QED BY <1>3, <2>3, <2>4, <2>5 DEF EchoBackend
<1>4. ASSUME NEW b \in Backends, LeavesPool(b) PROVE MailStep
  BY <1>4 DEF LeavesPool, Trims, MailStep
<1>5. ASSUME NEW b \in Backends, FlushQueue(b) PROVE MailStep
  <2>1. CASE FlushTake(b)
    BY <2>1 DEF FlushTake, FreshFlushes, TakesQueue, MailStep
  <2>2. CASE FlushSend(b)
    <3>1. Lands(Head(batch[b]))
      BY <2>2, TypeParts, SentLands DEF FlushSend, Sent
    <3>2. PassesOn(b)
      BY <2>2, <3>1 DEF FlushSend, PassesOn
    <3> QED BY <3>2 DEF MailStep
  <2>3. CASE FlushInterrupted(b)
    BY <2>3 DEF FlushInterrupted, GivesBack, MailStep
  <2> QED BY <1>5, <2>1, <2>2, <2>3 DEF FlushQueue
<1>6. ASSUME NEW b \in Backends, HandleRequests(b) PROVE MailStep
  <2> DEFINE l == Head(fromBackend[b])
  <2>1. /\ writing = None /\ fromBackend[b] # <<>>
        /\ fromBackend' = [fromBackend EXCEPT ![b] = Tail(@)]
        /\ UNCHANGED <<linkVars, queueVars, delivered, said>>
    BY <1>6 DEF HandleRequests, DispatchResponse, DispatchCommand, TakesLine
  <2>2. l \in Lines
    BY <1>0, <2>1, TailElements
  <2>3. CASE UNCHANGED writing
    BY <2>1, <2>3 DEF Dispatches, MailStep
  <2>4. ASSUME NEW x \in Recipients(l.id), l.action = "message_to_connection",
               writing' = [message |-> l.message, to |-> x, via |-> b]
        PROVE  MailStep
    <3>1. writing' \in Writes /\ writing'.message = l.message
      BY <2>2, <2>4 DEF Lines, Writes, Recipients, TypeOK
    <3>2. writing'.via = b
      BY <2>4
    <3>3. Carried(writing') = Carried(l)
      BY <2>2, <2>4, <3>1, CarriedIs
    <3> QED BY <2>1, <3>1, <3>2, <3>3 DEF Dispatches, MailStep
  <2> QED BY <1>6, <2>3, <2>4
          DEF HandleRequests, DispatchResponse, DispatchCommand
<1>7. CASE WriteMessage
  BY <1>7 DEF WriteMessage, Delivers, MailStep
<1>8. ASSUME NEW h \in Conns, Request(h) PROVE MailStep
  <2> DEFINE e == Event("connection_request", h, None)
  <2>1. CASE UNCHANGED sendVars
    BY <1>8, <2>1 DEF Request, Rests, MailStep
  <2>2. CASE Written(e) \/ WrittenInVain(e)
    <3>1. Lands(e)
      BY <2>2, TypeParts, SentLands
    <3>2. e \in Letters /\ e.client = h /\ e.action \notin Chapters
      BY EventTypes DEF Letters, Event, Chapters
    <3>3. UNCHANGED <<received, batch, backVars, said>>
      BY <1>8 DEF Request
    <3> HIDE DEF e
    <3> QED BY <3>1, <3>2, <3>3 DEF Posts, Tells, MailStep
  <2> QED BY <1>8, <2>1, <2>2 DEF Request
<1>9. ASSUME NEW h \in Conns, NEW e \in Events, e.client = h, Sent(e),
             Tells(h, e), UNCHANGED <<received, batch, backVars>>
      PROVE  MailStep
  <2>1. Lands(e) /\ e \in Letters
    BY <1>9, TypeParts, SentLands DEF Letters
  <2> QED BY <1>9, <2>1 DEF Posts, MailStep
<1>10. ASSUME NEW h \in Conns, ReportError(h) PROVE MailStep
  <2> DEFINE e == Event("error", h, None)
  <2>1. CASE Sent(e)
    <3>1. /\ e \in Events /\ e.client = h /\ e.action = "error"
      BY EventTypes DEF Event
    <3>2. UNCHANGED <<received, batch, backVars, said>>
      BY <1>10 DEF ReportError
    <3> HIDE DEF e
    <3>3. Tells(h, e)
      BY <3>1, <3>2 DEF Tells, Chapters
    <3> QED BY <2>1, <3>1, <3>2, <3>3, <1>9
  <2>2. CASE UNCHANGED sendVars
    BY <1>10, <2>2 DEF ReportError, Rests, MailStep
  <2> QED BY <1>10, <2>1, <2>2 DEF ReportError, SendPanics
<1>11. ASSUME NEW h \in Conns, Announce(h) PROVE MailStep
  <2> DEFINE e == Event("new_connection", h, None)
  <2>1. /\ pc[h] = "announcing"
        /\ UNCHANGED <<received, batch, backVars, said>>
    BY <1>11 DEF Announce
  <2>2. CASE Sent(e) /\ pc' = [pc EXCEPT ![h] = "reading"]
    <3>1. /\ e \in Events /\ e.client = h /\ e.action = "new_connection"
      BY EventTypes DEF Event
    <3>2. pc'[h] = "reading"
      BY <1>0, <2>2
    <3>3. Sent(e)
      BY <2>2
    <3> HIDE DEF e
    <3>4. Tells(h, e)
      BY <2>1, <3>1, <3>2 DEF Tells
    <3> QED BY <2>1, <3>1, <3>3, <3>4, <1>9
  <2>3. CASE UNCHANGED sendVars
    BY <2>1, <2>3 DEF Rests, MailStep
  <2> QED BY <1>11, <2>2, <2>3 DEF Announce, Callback, SendPanics
<1>12. ASSUME NEW h \in Conns, NEW m \in Messages, Receive(h, m)
       PROVE  MailStep
  <2> DEFINE e == Event("new_message", h, m)
  <2>1. /\ pc[h] = "reading"
        /\ said' = [said EXCEPT ![h] = Append(@, m)]
        /\ \A x \in Conns : ~Contains(said[x], m)
        /\ UNCHANGED <<received, batch, backVars>>
    BY <1>12 DEF Receive
  <2>2. \A x \in Conns : ~Said(x, m)
    BY <2>1, ElementTypes DEF Said, TypeOK
  <2>3. SaysNew(h, m)
    BY <2>1, <2>2 DEF SaysNew
  <2>4. CASE Sent(e) /\ pc' = [pc EXCEPT ![h] = "reading"]
    <3>1. /\ e \in Events /\ e.client = h /\ e.action = "new_message"
          /\ e.message = m
      BY EventTypes DEF Event
    <3>2. pc'[h] = "reading"
      BY <1>0, <2>4
    <3>3. Sent(e)
      BY <2>4
    <3> HIDE DEF e
    <3>4. Tells(h, e)
      BY <2>1, <2>3, <3>1, <3>2 DEF Tells
    <3> QED BY <2>1, <3>1, <3>3, <3>4, <1>9
  <2>5. CASE UNCHANGED sendVars
    BY <2>1, <2>3, <2>5 DEF Mutters, MailStep
  <2> QED BY <1>12, <2>4, <2>5 DEF Receive, Callback, SendPanics
<1>13. ASSUME NEW h \in Conns, ReportDisconnect(h) PROVE MailStep
  <2> DEFINE e == Event("disconnected", h, None)
  <2>1. /\ pc[h] = "reporting" /\ victim[h] = h
        /\ UNCHANGED <<received, batch, backVars, said>>
    BY <1>13 DEF ReportDisconnect, IdInv, Victims
  <2>2. CASE Sent(e) /\ pc' = [pc EXCEPT ![h] = "returned"]
    <3>1. /\ e \in Events /\ e.client = h /\ e.action = "disconnected"
      BY EventTypes DEF Event
    <3>2. pc'[h] = "returned"
      BY <1>0, <2>2
    <3>3. Sent(e)
      BY <2>2
    <3> HIDE DEF e
    <3>4. Tells(h, e)
      BY <2>1, <3>1, <3>2 DEF Tells
    <3> QED BY <2>1, <3>1, <3>3, <3>4, <1>9
  <2>3. CASE UNCHANGED sendVars
    BY <2>1, <2>3 DEF Rests, MailStep
  <2> QED BY <1>13, <2>1, <2>2, <2>3 DEF ReportDisconnect, Callback, SendPanics
<1>14. StartBackend \/ StartWebSocket \/ StopWebSocket \/ UNCHANGED vars
         => Rests
  BY DEF StartBackend, StartWebSocket, StopWebSocket, Rests, vars
<1>15. ASSUME NEW b \in Backends, Connect(b) PROVE Rests
  BY <1>15 DEF Connect, Rests
<1>16. ASSUME NEW h \in Conns,
              UpgradeFails(h) \/ Admit(h) \/ ReadFails(h) \/ ClientLeaves(h)
       PROVE  Rests
  BY <1>16 DEF UpgradeFails, Admit, ReadFails, ClientLeaves, Rests
<1>17. Rests => MailStep
  BY DEF MailStep
<1> QED
  BY <1>1, <1>2, <1>3, <1>4, <1>5, <1>6, <1>7, <1>8, <1>10, <1>11, <1>12,
     <1>13, <1>14, <1>15, <1>16, <1>17 DEF Next, Main, Reacts

-------------------------------------------------------------------------------
(***************************************************************************)
(* No message is in two places, or twice in one.                           *)
(***************************************************************************)
Apart == {p \in Things \X Things : Carried(p[1]) \cap Carried(p[2]) = {}}

Places == ({"link", "batch", "back"} \X Backends)
            \cup ({"queue", "hand", "socket"} \X {None})
At(p) ==
    CASE p[1] = "link"   -> toBackend[p[2]]
      [] p[1] = "batch"  -> batch[p[2]]
      [] p[1] = "back"   -> fromBackend[p[2]]
      [] p[1] = "queue"  -> messageQueue
      [] p[1] = "hand"   -> IF writing = None THEN <<>> ELSE <<writing>>
      [] p[1] = "socket" -> delivered

OnePlace ==
    /\ \A p \in Places : Sorted(At(p), Apart)
    /\ \A p, q \in Places :
          p # q => AllBefore(ToSet(At(p)), ToSet(At(q)), Apart)

\* What a message that is anywhere has been: said.
Uttered == \A p \in Places : \A x \in ToSet(At(p)) : \A m \in Carried(x) :
              \E h \in Conns : Said(h, m)

\* Apart says what it should, and either way round.
LEMMA ApartIs ==
  ASSUME NEW x \in Things, NEW y \in Things
  PROVE  /\ <<x, y>> \in Apart <=> Carried(x) \cap Carried(y) = {}
         /\ <<x, y>> \in Apart <=> <<y, x>> \in Apart
  BY DEF Apart

\* Two things that carry the same are apart from the same.
LEMMA ApartAlike ==
  ASSUME NEW x \in Things, NEW y \in Things, Carried(x) = Carried(y),
         NEW A \in SUBSET Things
  PROVE  /\ AllBefore({x}, A, Apart) <=> AllBefore({y}, A, Apart)
         /\ AllBefore(A, {x}, Apart) <=> AllBefore(A, {y}, Apart)
         /\ AllBefore(A, {x}, Apart) <=> AllBefore({x}, A, Apart)
  BY DEF AllBefore, Apart

\* The names of the places.
LEMMA PlaceNames ==
  /\ \A b \in Backends : /\ <<"link", b>> \in Places
                         /\ <<"batch", b>> \in Places
                         /\ <<"back", b>> \in Places
  /\ <<"queue", None>> \in Places /\ <<"hand", None>> \in Places
  /\ <<"socket", None>> \in Places
  /\ \A p \in Places :
        \/ \E b \in Backends : \/ p = <<"link", b>> \/ p = <<"batch", b>>
                               \/ p = <<"back", b>>
        \/ p = <<"queue", None>> \/ p = <<"hand", None>>
        \/ p = <<"socket", None>>
  BY DEF Places

Hand == IF writing = None THEN <<>> ELSE <<writing>>

\* What is there, before and after a step.
LEMMA AtPlaces ==
  /\ \A b : /\ At(<<"link", b>>) = toBackend[b]
            /\ At(<<"batch", b>>) = batch[b]
            /\ At(<<"back", b>>) = fromBackend[b]
            /\ At(<<"link", b>>)' = toBackend'[b]
            /\ At(<<"batch", b>>)' = batch'[b]
            /\ At(<<"back", b>>)' = fromBackend'[b]
  /\ At(<<"queue", None>>) = messageQueue
  /\ At(<<"hand", None>>) = Hand
  /\ At(<<"socket", None>>) = delivered
  /\ At(<<"queue", None>>)' = messageQueue'
  /\ At(<<"hand", None>>)' = Hand'
  /\ At(<<"socket", None>>)' = delivered'
  BY DEF At, Hand

\* Things are at places.
LEMMA AtTypes ==
  ASSUME TypeOK
  PROVE  \A p \in Places :
            At(p) \in Seq(Things) /\ ToSet(At(p)) \subseteq Things
<1>1. /\ \A b \in Backends : /\ toBackend[b] \in Seq(Things)
                             /\ batch[b] \in Seq(Things)
                             /\ fromBackend[b] \in Seq(Things)
      /\ messageQueue \in Seq(Things) /\ delivered \in Seq(Things)
      /\ Hand \in Seq(Things)
  <2>1. \A S \in SUBSET Things : \A s \in Seq(S) : s \in Seq(Things)
    OBVIOUS
  <2>2. /\ Events \subseteq Things /\ Events \cup Requests \subseteq Things
        /\ Lines \subseteq Things /\ Writes \subseteq Things
    BY DEF Things, Letters
  <2>3. Hand \in Seq(Writes)
    BY DEF TypeOK, Hand
  <2> QED BY <2>1, <2>2, <2>3 DEF TypeOK
<1>2. \A p \in Places : At(p) \in Seq(Things)
  <2> SUFFICES ASSUME NEW p \in Places PROVE At(p) \in Seq(Things)
    OBVIOUS
  <2>1. CASE \E b \in Backends : \/ p = <<"link", b>> \/ p = <<"batch", b>>
                                  \/ p = <<"back", b>>
    <3>1. PICK b \in Backends : \/ p = <<"link", b>> \/ p = <<"batch", b>>
                                \/ p = <<"back", b>>
      BY <2>1
    <3>2. At(p) \in {toBackend[b], batch[b], fromBackend[b]}
      BY <3>1, AtPlaces
    <3> QED BY <1>1, <3>2
  <2>2. CASE \/ p = <<"queue", None>> \/ p = <<"hand", None>>
             \/ p = <<"socket", None>>
    <3>1. At(p) \in {messageQueue, Hand, delivered}
      BY <2>2, AtPlaces
    <3> QED BY <1>1, <3>1
  <2> QED BY <2>1, <2>2, PlaceNames
<1> QED BY <1>2, ElementTypes

(* A step that brings the things in M to one place, where they are apart   *)
(* from each other, from what was there, and from what stays elsewhere.    *)
LEMMA OneMove ==
  ASSUME TypeOK, TypeOK', OnePlace, NEW q \in Places, NEW M \in SUBSET Things,
         \A p \in Places \ {q} :
            Shrunk(At(p), At(p)') /\ AllBefore(ToSet(At(p)'), M, Apart),
         Sorted(At(q)', Apart),
         ToSet(At(q)') \subseteq ToSet(At(q)) \cup M
  PROVE  OnePlace'
<1>1. \A p \in Places \ {q} :
         Sorted(At(p)', Apart) /\ ToSet(At(p)') \subseteq ToSet(At(p))
  BY AtTypes, ShrunkFacts DEF OnePlace
<1>2. \A p \in Places : Sorted(At(p)', Apart)
  BY <1>1
<1>3. \A p \in Places \ {q} : ToSet(At(p)') \subseteq Things
  BY <1>1, AtTypes
<1>4. ToSet(At(q)') \subseteq Things
  BY AtTypes
<1>5. ASSUME NEW p \in Places, NEW r \in Places, p # r,
             NEW x \in ToSet(At(p)'), NEW y \in ToSet(At(r)')
      PROVE  <<x, y>> \in Apart
  <2>1. x \in Things /\ y \in Things
    BY <1>3, <1>4
  <2>2. CASE p # q /\ r # q
    <3>1. x \in ToSet(At(p)) /\ y \in ToSet(At(r))
      BY <1>1, <2>2
    <3> QED BY <1>5, <3>1 DEF OnePlace, AllBefore
  <2>3. ASSUME NEW s \in Places \ {q}, NEW v \in ToSet(At(s)'),
               NEW w \in ToSet(At(q)')
        PROVE  <<v, w>> \in Apart
    <3>1. v \in ToSet(At(s))
      BY <1>1
    <3>2. CASE w \in M
      BY <3>2 DEF AllBefore
    <3>3. CASE w \in ToSet(At(q))
      BY <3>1, <3>3 DEF OnePlace, AllBefore
    <3> QED BY <3>2, <3>3
  <2>4. CASE r = q
    BY <1>5, <2>3, <2>4
  <2>5. CASE p = q
    <3>1. <<y, x>> \in Apart
      BY <1>5, <2>3, <2>5
    <3> QED BY <2>1, <3>1, ApartIs
  <2> QED BY <2>2, <2>4, <2>5
<1> QED BY <1>2, <1>5 DEF OnePlace, AllBefore

\* A step after which every place holds what it held, or less.
LEMMA NoMove ==
  ASSUME TypeOK, TypeOK', OnePlace, \A p \in Places : Shrunk(At(p), At(p)')
  PROVE  OnePlace'
<1> DEFINE q == <<"queue", None>>
<1>1. q \in Places
  BY PlaceNames
<1>2. Sorted(At(q)', Apart) /\ ToSet(At(q)') \subseteq ToSet(At(q)) \cup {}
  BY <1>1, AtTypes, ShrunkFacts DEF OnePlace
<1>3. \A p \in Places : AllBefore(ToSet(At(p)'), {}, Apart)
  BY DEF AllBefore
<1> HIDE DEF q
<1> QED BY <1>1, <1>2, <1>3, OneMove

\* A place other than a batch of which the contents are the same.
LEMMA SamePlace ==
  ASSUME NEW p \in Places, \A b \in Backends : p # <<"batch", b>>,
         \A b \in Backends :
            p = <<"link", b>> => toBackend'[b] = toBackend[b],
         p = <<"queue", None>> => UNCHANGED messageQueue,
         UNCHANGED <<fromBackend, writing, delivered>>
  PROVE  p[1] # "batch" /\ At(p)' = At(p)
<1>1. Hand' = Hand
  BY DEF Hand
<1>2. ASSUME NEW b \in Backends, p = <<"link", b>> \/ p = <<"back", b>>
      PROVE  p[1] # "batch" /\ At(p)' = At(p)
  <2>1. CASE p = <<"link", b>>
    BY <2>1, AtPlaces
  <2>2. CASE p = <<"back", b>>
    BY <2>2, AtPlaces
  <2> QED BY <1>2, <2>1, <2>2
<1>3. CASE p = <<"queue", None>>
  BY <1>3, AtPlaces
<1>4. CASE p = <<"hand", None>>
  BY <1>1, <1>4, AtPlaces
<1>5. CASE p = <<"socket", None>>
  BY <1>5, AtPlaces
<1> QED BY <1>2, <1>3, <1>4, <1>5, PlaceNames

\* Something sent that is apart from all that stays where it is.
LEMMA LandsInOnePlace ==
  ASSUME TypeOK, TypeOK', OnePlace, NEW e \in Letters, Lands(e),
         UNCHANGED backVars,
         \A b \in Backends : /\ Shrunk(batch[b], batch'[b])
                             /\ AllBefore(ToSet(batch'[b]), {e}, Apart),
         \A p \in Places :
            p[1] # "batch" => AllBefore(ToSet(At(p)), {e}, Apart)
  PROVE  OnePlace'
<1> USE DEF backVars
<1>1. e \in Things /\ {e} \subseteq Things
  BY DEF Things
<1>2. ASSUME NEW b \in Backends, ToLink(b, e) PROVE OnePlace'
  <2> DEFINE q == <<"link", b>>
  <2>1. /\ q \in Places /\ At(q) = toBackend[b]
        /\ At(q)' = Append(toBackend[b], e)
    BY <1>2, PlaceNames, AtPlaces DEF ToLink, TypeOK
  <2>2. toBackend[b] \in Seq(Letters)
    BY DEF TypeOK, Letters
  <2>3. /\ AllBefore(ToSet(toBackend[b]), {e}, Apart)
        /\ Sorted(toBackend[b], Apart)
    BY <2>1 DEF OnePlace
  <2>4. /\ Sorted(At(q)', Apart)
        /\ ToSet(At(q)') \subseteq ToSet(At(q)) \cup {e}
    <3>1. Sorted(Append(toBackend[b], e), Apart)
      BY <2>2, <2>3, SortedAppend
    <3>2. ToSet(Append(toBackend[b], e)) = ToSet(toBackend[b]) \cup {e}
      BY <2>2, AppendElements
    <3> QED BY <2>1, <3>1, <3>2
  <2>5. ASSUME NEW p \in Places \ {q}
        PROVE  Shrunk(At(p), At(p)') /\ AllBefore(ToSet(At(p)'), {e}, Apart)
    <3>1. CASE \E x \in Backends : p = <<"batch", x>>
      BY <3>1, AtPlaces
    <3>2. CASE \A x \in Backends : p # <<"batch", x>>
      <4>1. \A x \in Backends \ {b} : toBackend'[x] = toBackend[x]
        BY <1>2 DEF ToLink, TypeOK
      <4>2. At(p)' = At(p) /\ p[1] # "batch"
        BY <1>2, <2>5, <3>2, <4>1, SamePlace DEF ToLink
      <4> QED BY <4>2 DEF Shrunk
    <3> QED BY <3>1, <3>2
  <2> HIDE DEF q
  <2> QED BY <1>1, <2>1, <2>4, <2>5, OneMove
<1>3. CASE ToQueue(e)
  <2> DEFINE q == <<"queue", None>>
  <2>1. PICK t : Shrunk(messageQueue, t) /\ messageQueue' = Append(t, e)
    BY <1>3 DEF ToQueue
  <2>2. /\ q \in Places /\ At(q) = messageQueue /\ At(q)' = Append(t, e)
        /\ q[1] # "batch"
    BY <2>1, PlaceNames, AtPlaces
  <2>3. messageQueue \in Seq(Letters) /\ Sorted(messageQueue, Apart)
    BY <2>2 DEF TypeOK, Letters, OnePlace
  <2>4. /\ t \in Seq(Letters) /\ ToSet(t) \subseteq ToSet(messageQueue)
        /\ Sorted(t, Apart)
    BY <2>1, <2>3, ShrunkFacts
  <2>5. AllBefore(ToSet(t), {e}, Apart)
    BY <2>2, <2>4 DEF AllBefore
  <2>6. /\ Sorted(At(q)', Apart)
        /\ ToSet(At(q)') \subseteq ToSet(At(q)) \cup {e}
    <3>1. Sorted(Append(t, e), Apart)
      BY <2>4, <2>5, SortedAppend
    <3>2. ToSet(Append(t, e)) = ToSet(t) \cup {e}
      BY <2>4, AppendElements
    <3> QED BY <2>2, <2>4, <3>1, <3>2
  <2>7. ASSUME NEW p \in Places \ {q}
        PROVE  Shrunk(At(p), At(p)') /\ AllBefore(ToSet(At(p)'), {e}, Apart)
    <3>1. CASE \E x \in Backends : p = <<"batch", x>>
      BY <3>1, AtPlaces
    <3>2. CASE \A x \in Backends : p # <<"batch", x>>
      <4>1. At(p)' = At(p) /\ p[1] # "batch"
        BY <1>3, <2>7, <3>2, SamePlace DEF ToQueue
      <4> QED BY <4>1 DEF Shrunk
    <3> QED BY <3>1, <3>2
  <2> HIDE DEF q
  <2> QED BY <1>1, <2>2, <2>6, <2>7, OneMove
<1>4. CASE ToNobody
  <2>1. ASSUME NEW p \in Places PROVE Shrunk(At(p), At(p)')
    <3>1. CASE \E x \in Backends : p = <<"batch", x>>
      BY <3>1, AtPlaces
    <3>2. CASE \A x \in Backends : p # <<"batch", x>>
      <4>1. At(p)' = At(p)
        BY <1>4, <3>2, SamePlace DEF ToNobody
      <4> QED BY <4>1 DEF Shrunk
    <3> QED BY <3>1, <3>2
  <2> QED BY <2>1, NoMove
<1> QED BY <1>2, <1>3, <1>4 DEF Lands

\* What is anywhere has been said.
LEMMA AllUttered == TypeOK /\ EchoInv => Uttered
<1> SUFFICES ASSUME TypeOK, EchoInv, NEW p \in Places, NEW x \in ToSet(At(p)),
                    NEW m \in Carried(x)
             PROVE  \E h \in Conns : Said(h, m)
  BY DEF Uttered
<1>1. CASE x \in Underway
  <2>1. x \in Letters
    BY <1>1, UnderwayTypes DEF Letters
  <2>2. x.action = "new_message" /\ m = x.message
    BY <2>1, CarriedIs
  <2>3. x.client \in Conns
    BY <2>1 DEF Letters, Events, Requests
  <2> QED BY <1>1, <2>2, <2>3 DEF EchoInv, Sayings, Genuine
<1>2. ASSUME NEW b \in Backends, x \in ToSet(fromBackend[b])
      PROVE  \E h \in Conns : Said(h, m)
  <2>1. x \in Lines
    BY <1>2, ElementTypes DEF TypeOK
  <2>2. x.action = "message_to_connection" /\ m = x.message
    BY <2>1, CarriedIs
  <2> QED BY <1>2, <2>2 DEF EchoInv, Commands, Honest
<1>3. CASE x \in ToSet(Hand)
  <2>1. writing # None /\ x = writing
    BY <1>3, EmptyElements DEF Hand, ToSet
  <2>2. x \in Writes
    BY <2>1 DEF TypeOK
  <2>3. m = x.message /\ x.to \in Conns
    BY <2>2, CarriedIs DEF Writes
  <2> QED BY <2>1, <2>3 DEF EchoInv, Writing
<1>4. CASE x \in ToSet(delivered)
  <2>1. x \in Writes
    BY <1>4, ElementTypes DEF TypeOK
  <2>2. m = x.message /\ x.to \in Conns
    BY <2>1, CarriedIs DEF Writes
  <2>3. Contains(said[x.to], m) /\ said[x.to] \in Seq(Messages)
    BY <1>4, <2>2 DEF EchoInv, EchoToSender, TypeOK
  <2> QED BY <2>2, <2>3, ElementTypes DEF Said
<1>5. \/ x \in Underway \/ x \in ToSet(Hand) \/ x \in ToSet(delivered)
      \/ \E b \in Backends : x \in ToSet(fromBackend[b])
  <2>1. CASE \E b \in Backends : \/ p = <<"link", b>> \/ p = <<"batch", b>>
                                 \/ p = <<"back", b>>
    <3>1. PICK b \in Backends : \/ p = <<"link", b>> \/ p = <<"batch", b>>
                                \/ p = <<"back", b>>
      BY <2>1
    <3>2. \/ x \in ToSet(toBackend[b]) \/ x \in ToSet(batch[b])
          \/ x \in ToSet(fromBackend[b])
      BY <3>1, AtPlaces
    <3> QED BY <3>2 DEF Underway, InLinks, InBatches, Gathered
  <2>2. CASE \/ p = <<"queue", None>> \/ p = <<"hand", None>>
             \/ p = <<"socket", None>>
    <3>1. \/ x \in ToSet(messageQueue) \/ x \in ToSet(Hand)
          \/ x \in ToSet(delivered)
      BY <2>2, AtPlaces
    <3> QED BY <3>1 DEF Underway, InQueue
  <2> QED BY <2>1, <2>2, PlaceNames
<1> QED BY <1>1, <1>2, <1>3, <1>4, <1>5

\* Every place holds what it held, or less, if every sequence does.
LEMMA ShrunkPlace ==
  ASSUME NEW p \in Places,
         \A b \in Backends :
            /\ p = <<"link", b>> => Shrunk(toBackend[b], toBackend'[b])
            /\ p = <<"batch", b>> => Shrunk(batch[b], batch'[b])
            /\ p = <<"back", b>> => Shrunk(fromBackend[b], fromBackend'[b]),
         p = <<"queue", None>> => Shrunk(messageQueue, messageQueue'),
         p = <<"hand", None>> => Shrunk(Hand, Hand'),
         p = <<"socket", None>> => Shrunk(delivered, delivered')
  PROVE  Shrunk(At(p), At(p)')
<1>1. ASSUME NEW b \in Backends,
             p = <<"link", b>> \/ p = <<"batch", b>> \/ p = <<"back", b>>
      PROVE  Shrunk(At(p), At(p)')
  <2>1. CASE p = <<"link", b>>
    BY <2>1, AtPlaces
  <2>2. CASE p = <<"batch", b>>
    BY <2>2, AtPlaces
  <2>3. CASE p = <<"back", b>>
    BY <2>3, AtPlaces
  <2> QED BY <1>1, <2>1, <2>2, <2>3
<1>2. CASE p = <<"queue", None>>
  BY <1>2, AtPlaces
<1>3. CASE p = <<"hand", None>>
  BY <1>3, AtPlaces
<1>4. CASE p = <<"socket", None>>
  BY <1>4, AtPlaces
<1> QED BY <1>1, <1>2, <1>3, <1>4, PlaceNames

\* What is the same is no more.
LEMMA ShrunkSame == \A s : Shrunk(s, s) /\ Shrunk(s, <<>>)
  BY DEF Shrunk

\* What carries the message of the first of a place is apart from all else.
LEMMA HeadApart ==
  ASSUME TypeOK, OnePlace, NEW q \in Places, At(q) # <<>>,
         NEW x \in Things, Carried(x) = Carried(Head(At(q)))
  PROVE  /\ Head(At(q)) \in Things
         /\ AllBefore(ToSet(Tail(At(q))), {x}, Apart)
         /\ \A p \in Places \ {q} : AllBefore(ToSet(At(p)), {x}, Apart)
<1> DEFINE e == Head(At(q))
<1>1. At(q) \in Seq(Things) /\ Sorted(At(q), Apart)
  BY AtTypes DEF OnePlace
<1>2. /\ e \in Things /\ Tail(At(q)) \in Seq(Things)
      /\ ToSet(At(q)) = {e} \cup ToSet(Tail(At(q)))
      /\ AllBefore({e}, ToSet(Tail(At(q))), Apart)
  BY <1>1, TailElements, SortedTail
<1>3. ToSet(Tail(At(q))) \subseteq Things
  BY <1>2, ElementTypes
<1>4. AllBefore(ToSet(Tail(At(q))), {e}, Apart)
  BY <1>2, <1>3, ApartAlike
<1>5. \A p \in Places \ {q} : AllBefore(ToSet(At(p)), {e}, Apart)
  BY <1>2 DEF OnePlace, AllBefore
<1> HIDE DEF e
<1>6. Carried(x) = Carried(e)
  BY DEF e
<1>7. \A A \in SUBSET Things :
         AllBefore(A, {e}, Apart) => AllBefore(A, {x}, Apart)
  BY <1>2, <1>6, ApartAlike
<1>8. \A p \in Places : ToSet(At(p)) \subseteq Things
  BY AtTypes
<1> QED BY <1>2, <1>3, <1>4, <1>5, <1>7, <1>8 DEF e

\* A new message is apart from everything.
LEMMA NewIsApart ==
  ASSUME TypeOK, Uttered, NEW e \in Letters,
         e.action = "new_message" => \A x \in Conns : ~Said(x, e.message)
  PROVE  \A p \in Places : AllBefore(ToSet(At(p)), {e}, Apart)
<1> SUFFICES ASSUME NEW p \in Places, NEW x \in ToSet(At(p))
             PROVE  <<x, e>> \in Apart
  BY DEF AllBefore
<1>1. x \in Things /\ e \in Things
  BY AtTypes DEF Things
<1>2. \A m \in Carried(e) : \A h \in Conns : ~Said(h, m)
  BY CarriedIs
<1>3. Carried(x) \cap Carried(e) = {}
  BY <1>2 DEF Uttered
<1> QED BY <1>1, <1>3, ApartIs

\* The step itself: a case for each kind.
LEMMA StepOnePlace ==
  ASSUME TypeOK, TypeOK', OnePlace, Uttered, MailStep
  PROVE  OnePlace'
<1> USE DEF linkVars, queueVars, backVars
<1>0. UNCHANGED writing => Hand' = Hand
  BY DEF Hand
<1>1. CASE Rests \/ Cuts \/ \E h \in Conns : \E m \in Messages : Mutters(h, m)
  <2>1. /\ UNCHANGED <<batch, fromBackend, messageQueue, writing, delivered>>
        /\ \A b \in Backends : Shrunk(toBackend[b], toBackend'[b])
    BY <1>1, ShrunkSame DEF Rests, Cuts, Mutters
  <2>2. \A p \in Places : Shrunk(At(p), At(p)')
    BY <1>0, <2>1, ShrunkPlace, ShrunkSame
  <2> QED BY <2>2, NoMove
<1>2. ASSUME NEW b \in Backends, Trims(b) PROVE OnePlace'
  <2>1. /\ UNCHANGED <<toBackend, batch, messageQueue, writing, delivered>>
        /\ \A x \in Backends : Shrunk(fromBackend[x], fromBackend'[x])
    <3>1. PICK n \in 0..Len(fromBackend[b]) :
            fromBackend' = [fromBackend EXCEPT ![b] = SubSeq(@, 1, n)]
      BY <1>2 DEF Trims
    <3>2. ASSUME NEW x \in Backends
          PROVE  Shrunk(fromBackend[x], fromBackend'[x])
      <4>1. CASE x = b
        BY <3>1, <4>1 DEF TypeOK, Shrunk
      <4>2. CASE x # b
        BY <3>1, <4>2, ShrunkSame
      <4> QED BY <4>1, <4>2
    <3> QED BY <1>2, <3>2 DEF Trims
  <2>2. \A p \in Places : Shrunk(At(p), At(p)')
    BY <1>0, <2>1, ShrunkPlace, ShrunkSame
  <2> QED BY <2>2, NoMove
<1>3. ASSUME NEW b \in Backends, ReadsOne(b) PROVE OnePlace'
  <2>1. /\ toBackend[b] # <<>>
        /\ \A x \in Backends : Shrunk(toBackend[x], toBackend'[x])
        /\ toBackend'[b] = Tail(toBackend[b])
        /\ \A x \in Backends \ {b} : toBackend'[x] = toBackend[x]
        /\ UNCHANGED <<batch, messageQueue, writing, delivered>>
    BY <1>3 DEF ReadsOne, Shrunk, TypeOK
  <2>2. CASE UNCHANGED fromBackend
    <3>1. \A p \in Places : Shrunk(At(p), At(p)')
      BY <1>0, <2>1, <2>2, ShrunkPlace, ShrunkSame
    <3> QED BY <3>1, NoMove
  <2>3. ASSUME NEW line, Answers(b, line) PROVE OnePlace'
    <3> DEFINE l == <<"link", b>>
               q == <<"back", b>>
    <3>1. /\ l \in Places /\ q \in Places /\ l # q
          /\ At(l) = toBackend[b] /\ At(l)' = Tail(toBackend[b])
          /\ At(q) = fromBackend[b]
      BY <2>1, PlaceNames, AtPlaces
    <3>2. /\ line \in Lines /\ line \in Things
          /\ {line} \subseteq Things
          /\ Carried(line) = Carried(Head(At(l)))
      BY <2>3, <3>1 DEF Answers, Things
    <3>3. /\ At(q)' = Append(fromBackend[b], line)
          /\ \A x \in Backends \ {b} : fromBackend'[x] = fromBackend[x]
      BY <2>3, AtPlaces DEF Answers, TypeOK
    <3>4. /\ AllBefore(ToSet(Tail(At(l))), {line}, Apart)
          /\ \A p \in Places \ {l} : AllBefore(ToSet(At(p)), {line}, Apart)
      <4> HIDE DEF l, q
      <4> QED BY <2>1, <3>1, <3>2, HeadApart
    <3>5. fromBackend[b] \in Seq(Lines) /\ Sorted(fromBackend[b], Apart)
      BY <3>1 DEF TypeOK, OnePlace
    <3>6. /\ Sorted(At(q)', Apart)
          /\ ToSet(At(q)') \subseteq ToSet(At(q)) \cup {line}
      <4>1. AllBefore(ToSet(fromBackend[b]), {line}, Apart)
        BY <3>1, <3>4
      <4>2. Sorted(Append(fromBackend[b], line), Apart)
        BY <3>2, <3>5, <4>1, SortedAppend
      <4>3. ToSet(Append(fromBackend[b], line))
              = ToSet(fromBackend[b]) \cup {line}
        BY <3>2, <3>5, AppendElements
      <4> QED BY <3>1, <3>3, <4>2, <4>3
    <3>7. ASSUME NEW p \in Places \ {q}
          PROVE  /\ Shrunk(At(p), At(p)')
                 /\ AllBefore(ToSet(At(p)'), {line}, Apart)
      <4>1. Shrunk(At(p), At(p)')
        BY <1>0, <2>1, <3>3, <3>7, ShrunkPlace, ShrunkSame
      <4>2. CASE p = l
        BY <3>1, <3>4, <4>1, <4>2
      <4>3. CASE p # l
        <5>1. ToSet(At(p)') \subseteq ToSet(At(p))
          BY <4>1, AtTypes, ShrunkFacts
        <5> QED BY <3>4, <4>1, <4>3, <5>1 DEF AllBefore
      <4> QED BY <4>1, <4>2, <4>3
    <3> HIDE DEF l, q
    <3> QED BY <3>1, <3>2, <3>6, <3>7, OneMove
  <2> QED BY <1>3, <2>2, <2>3 DEF ReadsOne
<1>4. ASSUME NEW b \in Backends, TakesQueue(b) PROVE OnePlace'
  <2> DEFINE q == <<"batch", b>>
             u == <<"queue", None>>
             M == ToSet(messageQueue)
  <2>1. /\ q \in Places /\ u \in Places /\ q # u
        /\ At(u) = messageQueue /\ At(u)' = <<>> /\ At(q)' = messageQueue
        /\ \A x \in Backends \ {b} : batch'[x] = batch[x]
        /\ UNCHANGED <<toBackend, fromBackend, writing, delivered>>
    <3>1. batch \in [Backends -> Seq(Events)]
      BY DEF TypeOK
    <3>2. /\ messageQueue' = <<>> /\ batch'[b] = messageQueue
          /\ \A x \in Backends \ {b} : batch'[x] = batch[x]
          /\ UNCHANGED <<toBackend, fromBackend, writing, delivered>>
      BY <1>4, <3>1 DEF TakesQueue
    <3> QED BY <3>2, PlaceNames, AtPlaces
  <2>2. M \subseteq Things /\ Sorted(messageQueue, Apart)
    BY <2>1, AtTypes DEF OnePlace
  <2>3. ASSUME NEW p \in Places \ {q}
        PROVE  Shrunk(At(p), At(p)') /\ AllBefore(ToSet(At(p)'), M, Apart)
    <3>1. Shrunk(At(p), At(p)')
      BY <1>0, <1>4, <2>1, <2>3, ShrunkPlace, ShrunkSame DEF TakesQueue
    <3>2. CASE p = u
      BY <2>1, <3>1, <3>2, EmptyElements DEF AllBefore
    <3>3. CASE p # u
      <4>1. ToSet(At(p)') \subseteq ToSet(At(p))
        BY <3>1, AtTypes, ShrunkFacts
      <4> QED BY <2>1, <3>1, <3>3, <4>1 DEF OnePlace, AllBefore
    <3> QED BY <3>1, <3>2, <3>3
  <2>4. Sorted(At(q)', Apart) /\ ToSet(At(q)') \subseteq ToSet(At(q)) \cup M
    BY <2>1, <2>2
  <2> HIDE DEF q, u, M
  <2> QED BY <2>1, <2>2, <2>3, <2>4, OneMove
<1>5. ASSUME NEW b \in Backends, GivesBack(b) PROVE OnePlace'
  <2> DEFINE q == <<"queue", None>>
             u == <<"batch", b>>
             M == ToSet(batch[b])
  <2>1. /\ q \in Places /\ u \in Places /\ q # u
        /\ At(u) = batch[b] /\ At(u)' = <<>>
        /\ At(q) = messageQueue /\ At(q)' = batch[b] \o messageQueue
        /\ \A x \in Backends \ {b} : batch'[x] = batch[x]
        /\ UNCHANGED <<toBackend, fromBackend, writing, delivered>>
    <3>1. batch \in [Backends -> Seq(Events)]
      BY DEF TypeOK
    <3>2. /\ messageQueue' = batch[b] \o messageQueue /\ batch'[b] = <<>>
          /\ \A x \in Backends \ {b} : batch'[x] = batch[x]
          /\ UNCHANGED <<toBackend, fromBackend, writing, delivered>>
      BY <1>5, <3>1 DEF GivesBack
    <3> QED BY <3>2, PlaceNames, AtPlaces
  <2>2. /\ M \subseteq Things
        /\ batch[b] \in Seq(Events) /\ messageQueue \in Seq(Events)
        /\ Sorted(batch[b], Apart) /\ Sorted(messageQueue, Apart)
        /\ AllBefore(ToSet(batch[b]), ToSet(messageQueue), Apart)
    BY <2>1, AtTypes DEF OnePlace, TypeOK
  <2>3. ASSUME NEW p \in Places \ {q}
        PROVE  Shrunk(At(p), At(p)') /\ AllBefore(ToSet(At(p)'), M, Apart)
    <3>1. Shrunk(At(p), At(p)')
      <4>1. Shrunk(batch[b], batch'[b])
        BY <2>1, AtPlaces, ShrunkSame
      <4> QED BY <1>0, <2>1, <2>3, <4>1, ShrunkPlace, ShrunkSame
    <3>2. CASE p = u
      BY <2>1, <3>1, <3>2, EmptyElements DEF AllBefore
    <3>3. CASE p # u
      <4>1. ToSet(At(p)') \subseteq ToSet(At(p))
        BY <3>1, AtTypes, ShrunkFacts
      <4> QED BY <2>1, <3>1, <3>3, <4>1 DEF OnePlace, AllBefore
    <3> QED BY <3>1, <3>2, <3>3
  <2>4. Sorted(At(q)', Apart) /\ ToSet(At(q)') \subseteq ToSet(At(q)) \cup M
    <3>1. Sorted(batch[b] \o messageQueue, Apart)
      BY <2>2, SortedConcat
    <3>2. ToSet(batch[b] \o messageQueue) = M \cup ToSet(messageQueue)
      BY <2>2, ConcatElements
    <3> QED BY <2>1, <3>1, <3>2
  <2> HIDE DEF q, u, M
  <2> QED BY <2>1, <2>2, <2>3, <2>4, OneMove
<1>6. ASSUME NEW b \in Backends, PassesOn(b) PROVE OnePlace'
  <2> DEFINE u == <<"batch", b>>
             e == Head(batch[b])
  <2>1. /\ u \in Places /\ At(u) = batch[b] /\ batch[b] # <<>>
        /\ batch[b] \in Seq(Events)
        /\ batch'[b] = Tail(batch[b])
        /\ \A x \in Backends \ {b} : batch'[x] = batch[x]
        /\ \A x \in Backends : Shrunk(batch[x], batch'[x])
        /\ Lands(e) /\ UNCHANGED backVars
    <3>1. batch \in [Backends -> Seq(Events)]
      BY DEF TypeOK
    <3>2. /\ batch[b] # <<>> /\ batch' = [batch EXCEPT ![b] = Tail(@)]
          /\ Lands(e) /\ UNCHANGED backVars
      BY <1>6 DEF PassesOn
    <3>3. /\ batch'[b] = Tail(batch[b])
          /\ \A x \in Backends \ {b} : batch'[x] = batch[x]
      BY <3>1, <3>2
    <3>4. ASSUME NEW x \in Backends PROVE Shrunk(batch[x], batch'[x])
      <4>1. CASE x = b
        BY <3>2, <3>3, <4>1 DEF Shrunk
      <4>2. CASE x # b
        BY <3>3, <4>2, ShrunkSame
      <4> QED BY <4>1, <4>2
    <3> HIDE DEF e
    <3>5. u \in Places /\ At(u) = batch[b] /\ batch[b] \in Seq(Events)
      BY <3>1, PlaceNames, AtPlaces
    <3> QED BY <3>2, <3>3, <3>4, <3>5
  <2>2. e \in Letters /\ e \in Things /\ e = Head(At(u))
    BY <2>1, TailElements DEF Letters, Things
  <2>3. u[1] = "batch"
    OBVIOUS
  <2> HIDE DEF u, e
  <2>4. /\ AllBefore(ToSet(Tail(At(u))), {e}, Apart)
        /\ \A p \in Places \ {u} : AllBefore(ToSet(At(p)), {e}, Apart)
    BY <2>1, <2>2, HeadApart
  <2>5. \A x \in Backends : AllBefore(ToSet(batch'[x]), {e}, Apart)
    <3>1. \A x \in Backends \ {b} : AllBefore(ToSet(batch[x]), {e}, Apart)
      <4> TAKE x \in Backends \ {b}
      <4>1. <<"batch", x>> \in Places \ {u} /\ At(<<"batch", x>>) = batch[x]
        BY PlaceNames, AtPlaces DEF u
      <4> QED BY <2>4, <4>1
    <3> QED BY <2>1, <2>4, <3>1
  <2> QED BY <2>1, <2>2, <2>3, <2>4, <2>5, LandsInOnePlace
<1>7. ASSUME NEW b \in Backends, Dispatches(b) PROVE OnePlace'
  <2>1. /\ writing = None /\ fromBackend[b] # <<>>
        /\ \A x \in Backends : Shrunk(fromBackend[x], fromBackend'[x])
        /\ fromBackend'[b] = Tail(fromBackend[b])
        /\ UNCHANGED <<toBackend, batch, messageQueue, delivered>>
    BY <1>7 DEF Dispatches, Shrunk, TypeOK
  <2>2. CASE writing' = None
    <3>1. UNCHANGED writing
      BY <2>1, <2>2
    <3>2. \A p \in Places : Shrunk(At(p), At(p)')
      BY <1>0, <2>1, <3>1, ShrunkPlace, ShrunkSame
    <3> QED BY <3>2, NoMove
  <2>3. CASE /\ writing' \in Writes /\ writing' # None
             /\ Carried(writing') = Carried(Head(fromBackend[b]))
    <3> DEFINE l == <<"back", b>>
               q == <<"hand", None>>
    <3>1. /\ l \in Places /\ q \in Places /\ l # q
          /\ At(l) = fromBackend[b] /\ At(l)' = Tail(fromBackend[b])
          /\ At(q) = <<>> /\ At(q)' = <<writing'>>
      BY <2>1, <2>3, PlaceNames, AtPlaces DEF Hand
    <3>2. writing' \in Things /\ {writing'} \subseteq Things
      BY <2>3 DEF Things
    <3>3. Carried(writing') = Carried(Head(At(l)))
      BY <2>3, <3>1
    <3>4. /\ AllBefore(ToSet(Tail(At(l))), {writing'}, Apart)
          /\ \A p \in Places \ {l} : AllBefore(ToSet(At(p)), {writing'}, Apart)
      <4> HIDE DEF l, q
      <4> QED BY <2>1, <3>1, <3>2, <3>3, HeadApart
    <3>5. /\ Sorted(At(q)', Apart)
          /\ ToSet(At(q)') \subseteq ToSet(At(q)) \cup {writing'}
      <4>1. ToSet(<<writing'>>) = {writing'}
        BY DEF ToSet
      <4> HIDE DEF q
      <4> QED BY <3>1, <4>1, SortedEmpty
    <3>6. ASSUME NEW p \in Places \ {q}
          PROVE  /\ Shrunk(At(p), At(p)')
                 /\ AllBefore(ToSet(At(p)'), {writing'}, Apart)
      <4>1. Shrunk(At(p), At(p)')
        BY <2>1, <3>6, ShrunkPlace, ShrunkSame
      <4>2. CASE p = l
        BY <3>1, <3>4, <4>1, <4>2
      <4>3. CASE p # l
        <5>1. ToSet(At(p)') \subseteq ToSet(At(p))
          BY <4>1, AtTypes, ShrunkFacts
        <5> QED BY <3>4, <4>1, <4>3, <5>1 DEF AllBefore
      <4> QED BY <4>1, <4>2, <4>3
    <3> HIDE DEF l, q
    <3> QED BY <3>1, <3>2, <3>5, <3>6, OneMove
  <2> QED BY <1>7, <2>2, <2>3 DEF Dispatches
<1>8. CASE Delivers
  <2> DEFINE l == <<"hand", None>>
             q == <<"socket", None>>
  <2>1. /\ l \in Places /\ q \in Places /\ l # q
        /\ At(l) = <<writing>> /\ At(l)' = <<>>
        /\ At(q) = delivered
        /\ At(q)' \in {delivered, Append(delivered, writing)}
        /\ UNCHANGED <<toBackend, fromBackend, batch, messageQueue>>
    BY <1>8, PlaceNames, AtPlaces DEF Hand, Delivers
  <2>2. /\ writing \in Writes /\ delivered \in Seq(Writes)
        /\ writing \in Things /\ {writing} \subseteq Things
    BY <1>8 DEF Delivers, TypeOK, Things
  <2>3. At(l) # <<>> /\ Head(At(l)) = writing
    BY <2>1
  <2>4. \A p \in Places \ {l} : AllBefore(ToSet(At(p)), {writing}, Apart)
    <3> HIDE DEF l, q
    <3> QED BY <2>1, <2>2, <2>3, HeadApart
  <2>5. /\ Sorted(At(q)', Apart)
        /\ ToSet(At(q)') \subseteq ToSet(At(q)) \cup {writing}
    <3>1. /\ Sorted(delivered, Apart)
          /\ AllBefore(ToSet(delivered), {writing}, Apart)
      BY <2>1, <2>4 DEF OnePlace
    <3>2. Sorted(Append(delivered, writing), Apart)
      BY <2>2, <3>1, SortedAppend
    <3>3. ToSet(Append(delivered, writing)) = ToSet(delivered) \cup {writing}
      BY <2>2, AppendElements
    <3> QED BY <2>1, <3>1, <3>2, <3>3
  <2>6. ASSUME NEW p \in Places \ {q}
        PROVE  /\ Shrunk(At(p), At(p)')
               /\ AllBefore(ToSet(At(p)'), {writing}, Apart)
    <3>1. CASE p = l
      BY <2>1, <3>1, ShrunkSame, EmptyElements DEF AllBefore
    <3>2. CASE p # l
      <4>1. Shrunk(At(p), At(p)')
        BY <2>1, <2>6, <3>2, ShrunkPlace, ShrunkSame
      <4>2. ToSet(At(p)') \subseteq ToSet(At(p))
        BY <4>1, AtTypes, ShrunkFacts
      <4> QED BY <2>4, <3>2, <4>1, <4>2 DEF AllBefore
    <3> QED BY <3>1, <3>2
  <2> HIDE DEF l, q
  <2> QED BY <2>1, <2>2, <2>5, <2>6, OneMove
<1>9. ASSUME NEW h \in Conns, NEW e \in Letters, Posts(h, e) PROVE OnePlace'
  <2>1. Lands(e) /\ UNCHANGED <<batch, backVars>>
    BY <1>9 DEF Posts
  <2>2. e.action = "new_message" => \A x \in Conns : ~Said(x, e.message)
    BY <1>9 DEF Posts, Tells, SaysNew, Chapters
  <2>3. \A p \in Places : AllBefore(ToSet(At(p)), {e}, Apart)
    BY <2>2, NewIsApart
  <2>4. \A b \in Backends : /\ Shrunk(batch[b], batch'[b])
                            /\ AllBefore(ToSet(batch'[b]), {e}, Apart)
    <3> TAKE b \in Backends
    <3>1. AllBefore(ToSet(batch[b]), {e}, Apart)
      BY <2>3, PlaceNames, AtPlaces
    <3> QED BY <2>1, <3>1, ShrunkSame
  <2> QED BY <2>1, <2>3, <2>4, LandsInOnePlace
<1> QED
  BY <1>1, <1>2, <1>3, <1>4, <1>5, <1>6, <1>7, <1>8, <1>9 DEF MailStep

-------------------------------------------------------------------------------
(***************************************************************************)
(* What was said, by whom and when.                                        *)
(***************************************************************************)
\* Nobody repeats himself or another.
SaidOnce ==
    \A x, y \in Conns : \A i \in DOMAIN said[x] : \A j \in DOMAIN said[y] :
       said[x][i] = said[y][j] => x = y /\ i = j

Before(h, m, n) ==
    \E i, j \in DOMAIN said[h] : i < j /\ said[h][i] = m /\ said[h][j] = n

\* What a step does with words: none, or a new one after all others.
LEMMA WordSteps ==
  ASSUME MailStep
  PROVE  UNCHANGED said \/ \E h \in Conns : \E m \in Messages : SaysNew(h, m)
<1> USE DEF linkVars, queueVars, backVars
<1>1. ASSUME NEW h \in Conns, NEW e \in Letters, Posts(h, e)
      PROVE  UNCHANGED said \/ \E m \in Messages : SaysNew(h, m)
  BY <1>1 DEF Posts, Tells, SaysNew
<1>2. ASSUME NEW b \in Backends,
             \/ ReadsOne(b) \/ Trims(b) \/ TakesQueue(b) \/ GivesBack(b)
             \/ PassesOn(b) \/ Dispatches(b)
      PROVE  UNCHANGED said
  BY <1>2 DEF ReadsOne, Trims, TakesQueue, GivesBack, PassesOn, Dispatches
<1>3. Rests \/ Cuts \/ Delivers => UNCHANGED said
  BY DEF Rests, Cuts, Delivers
<1> QED BY <1>1, <1>2, <1>3 DEF MailStep, Mutters

\* What a new word leaves.
LEMMA NewWord ==
  ASSUME TypeOK, NEW h \in Conns, NEW m \in Messages, SaysNew(h, m)
  PROVE  /\ \A x \in Conns : \A n :
               Said(x, n)' <=> Said(x, n) \/ (x = h /\ n = m)
         /\ \A x \in Conns : \A n, o : Before(x, n, o) => Before(x, n, o)'
         /\ \A n : Said(h, n) => Before(h, n, m)'
         /\ SaidOnce => SaidOnce'
<1>1. /\ said[h] \in Seq(Messages) /\ said \in [Conns -> Seq(Messages)]
      /\ said' = [said EXCEPT ![h] = Append(said[h], m)]
      /\ \A x \in Conns : m \notin ToSet(said[x])
  BY DEF TypeOK, SaysNew, Said
<1>2. /\ DOMAIN said[h] = 1..Len(said[h]) /\ Len(said[h]) \in Nat
      /\ DOMAIN Append(said[h], m) = 1..(Len(said[h]) + 1)
      /\ \A i \in 1..Len(said[h]) : Append(said[h], m)[i] = said[h][i]
      /\ Append(said[h], m)[Len(said[h]) + 1] = m
  BY <1>1
<1>3. /\ said'[h] = Append(said[h], m)
      /\ \A x \in Conns \ {h} : said'[x] = said[x]
  BY <1>1
<1> DEFINE N == Len(said[h])
<1>4. /\ DOMAIN said'[h] = 1..(N + 1) /\ DOMAIN said[h] = 1..N /\ N \in Nat
      /\ \A i \in 1..N : said'[h][i] = said[h][i]
      /\ said'[h][N + 1] = m
  BY <1>2, <1>3
<1> HIDE DEF N
<1>5. /\ 1..(N + 1) = (1..N) \cup {N + 1}
      /\ \A i \in 1..N : i < N + 1
      /\ N + 1 \in 1..(N + 1) /\ N + 1 \notin 1..N
  BY <1>4
<1>6. ASSUME NEW x \in Conns, NEW n
      PROVE  Said(x, n)' <=> Said(x, n) \/ (x = h /\ n = m)
  <2>1. CASE x = h
    <3>1. ToSet(said'[h]) = ToSet(said[h]) \cup {m}
      BY <1>1, <1>3, AppendElements
    <3> QED BY <2>1, <3>1 DEF Said
  <2>2. CASE x # h
    BY <1>3, <2>2 DEF Said
  <2> QED BY <2>1, <2>2
<1>7. ASSUME NEW x \in Conns, NEW n, NEW o, Before(x, n, o)
      PROVE  Before(x, n, o)'
  <2>1. CASE x = h
    BY <1>4, <1>5, <1>7, <2>1 DEF Before
  <2>2. CASE x # h
    BY <1>3, <1>7, <2>2 DEF Before
  <2> QED BY <2>1, <2>2
<1>8. ASSUME NEW n, Said(h, n) PROVE Before(h, n, m)'
  <2>1. PICK i \in 1..N : said[h][i] = n
    BY <1>4, <1>8 DEF Said, ToSet
  <2> QED BY <1>4, <1>5, <2>1 DEF Before
<1>9. ASSUME SaidOnce PROVE SaidOnce'
  <2>1. ASSUME NEW x \in Conns, NEW i \in DOMAIN said'[x]
        PROVE  \/ i \in DOMAIN said[x] /\ said'[x][i] = said[x][i]
               \/ x = h /\ i = N + 1 /\ said'[x][i] = m
    BY <1>3, <1>4, <1>5
  <2>2. ASSUME NEW x \in Conns, NEW i \in DOMAIN said[x] PROVE said[x][i] # m
    BY <1>1 DEF ToSet
  <2> SUFFICES ASSUME NEW x \in Conns, NEW y \in Conns,
                      NEW i \in DOMAIN said'[x], NEW j \in DOMAIN said'[y],
                      said'[x][i] = said'[y][j]
               PROVE  x = y /\ i = j
    BY DEF SaidOnce
  <2> QED BY <1>9, <2>1, <2>2 DEF SaidOnce
<1> QED BY <1>6, <1>7, <1>8, <1>9

\* What every step leaves of what was said.
LEMMA WordsStay ==
  ASSUME TypeOK, MailStep
  PROVE  /\ SaidOnce => SaidOnce'
         /\ \A x \in Conns : \A n : Said(x, n) => Said(x, n)'
         /\ \A x \in Conns : \A n, o : Before(x, n, o) => Before(x, n, o)'
         /\ \A n : (\E y \in Conns : Said(y, n)) =>
               \A x \in Conns : Said(x, n)' <=> Said(x, n)
<1>1. CASE UNCHANGED said
  BY <1>1 DEF SaidOnce, Said, Before
<1>2. ASSUME NEW h \in Conns, NEW m \in Messages, SaysNew(h, m)
      PROVE  /\ SaidOnce => SaidOnce'
             /\ \A x \in Conns : \A n : Said(x, n) => Said(x, n)'
             /\ \A x \in Conns : \A n, o : Before(x, n, o) => Before(x, n, o)'
             /\ \A n : (\E y \in Conns : Said(y, n)) =>
                   \A x \in Conns : Said(x, n)' <=> Said(x, n)
  <2>1. \A x \in Conns : ~Said(x, m)
    BY <1>2 DEF SaysNew
  <2> QED BY <1>2, <2>1, NewWord
<1> QED BY <1>1, <1>2, WordSteps

-------------------------------------------------------------------------------
(***************************************************************************)
(* Which letters there are.                                                *)
(***************************************************************************)
Mail == Heard \cup Underway

\* While nothing has been queued, nothing is in the queue or with a flush.
Bypassed ==
    ~buffered => messageQueue = <<>> /\ \A b \in Backends : batch[b] = <<>>

\* Every kind of step keeps that, and none forgets that something was queued.
LEMMA StepBypassed ==
  ASSUME TypeOK, Bypassed, MailStep
  PROVE  Bypassed' /\ (buffered => buffered')
<1> USE DEF linkVars, queueVars, backVars
<1>1. CASE UNCHANGED queueVars
  BY <1>1 DEF Bypassed
<1>2. ASSUME NEW b \in Backends, TakesQueue(b) \/ GivesBack(b)
      PROVE  Bypassed' /\ (buffered => buffered')
  <2>1. CASE TakesQueue(b)
    BY <2>1 DEF TakesQueue, Bypassed, TypeOK
  <2>2. CASE GivesBack(b)
    BY <2>2 DEF GivesBack, Bypassed, TypeOK
  <2> QED BY <1>2, <2>1, <2>2
<1>3. ASSUME NEW e, Lands(e)
      PROVE  /\ buffered => buffered'
             /\ buffered' = TRUE \/ UNCHANGED <<messageQueue, buffered>>
  BY <1>3 DEF Lands, ToLink, ToQueue, ToNobody
<1>4. ASSUME NEW b \in Backends, PassesOn(b)
      PROVE  Bypassed' /\ (buffered => buffered')
  BY <1>3, <1>4 DEF PassesOn, Bypassed
<1>5. ASSUME NEW h \in Conns, NEW e \in Letters, Posts(h, e)
      PROVE  Bypassed' /\ (buffered => buffered')
  BY <1>3, <1>5 DEF Posts, Bypassed
<1>6. ASSUME NEW b \in Backends, ReadsOne(b) \/ Trims(b) \/ Dispatches(b)
      PROVE  UNCHANGED queueVars
  BY <1>6 DEF ReadsOne, Trims, Dispatches
<1>7. ASSUME NEW h \in Conns, NEW m \in Messages, Mutters(h, m)
      PROVE  UNCHANGED queueVars
  BY <1>7 DEF Mutters
<1>8. Rests \/ Cuts \/ Delivers => UNCHANGED queueVars
  BY DEF Rests, Cuts, Delivers
<1> QED BY <1>1, <1>2, <1>4, <1>5, <1>6, <1>7, <1>8 DEF MailStep

\* Where letters are.
LEMMA MailIs ==
  \A e : e \in Mail <=>
           \/ e \in ToSet(messageQueue)
           \/ \E b \in Backends : \/ e \in ToSet(received[b])
                                  \/ e \in ToSet(toBackend[b])
                                  \/ e \in ToSet(batch[b])
  BY DEF Mail, Heard, Underway, InLinks, InBatches, InQueue, Gathered

\* They are letters.
LEMMA MailTypes == TypeOK => Mail \subseteq Letters
<1> SUFFICES ASSUME TypeOK, NEW e \in Mail PROVE e \in Letters
  OBVIOUS
<1>1. /\ ToSet(messageQueue) \subseteq Events
      /\ \A b \in Backends : /\ ToSet(received[b]) \subseteq Letters
                             /\ ToSet(toBackend[b]) \subseteq Letters
                             /\ ToSet(batch[b]) \subseteq Events
  BY ElementTypes DEF TypeOK, Letters
<1> QED BY <1>1, MailIs DEF Letters

\* What lands is the only letter that may be new.
LEMMA LandsAlone ==
  ASSUME TypeOK, NEW f \in Letters, Lands(f)
  PROVE  /\ ToSet(messageQueue') \subseteq ToSet(messageQueue) \cup {f}
         /\ \A b \in Backends :
               ToSet(toBackend'[b]) \subseteq ToSet(toBackend[b]) \cup {f}
<1>1. /\ messageQueue \in Seq(Letters)
      /\ \A b \in Backends : toBackend[b] \in Seq(Letters)
  BY DEF TypeOK, Letters
<1>2. ASSUME NEW b \in Backends, ToLink(b, f)
      PROVE  /\ UNCHANGED messageQueue
             /\ \A x \in Backends :
                   ToSet(toBackend'[x]) \subseteq ToSet(toBackend[x]) \cup {f}
  <2>1. ToSet(Append(toBackend[b], f)) = ToSet(toBackend[b]) \cup {f}
    BY <1>1, AppendElements
  <2>2. \A x \in Backends : toBackend'[x] =
           IF x = b THEN Append(toBackend[b], f) ELSE toBackend[x]
    BY <1>2 DEF ToLink, TypeOK
  <2> QED BY <1>2, <2>1, <2>2 DEF ToLink
<1>3. CASE ToQueue(f)
  <2>1. PICK q : Shrunk(messageQueue, q) /\ messageQueue' = Append(q, f)
    BY <1>3 DEF ToQueue
  <2>2. q \in Seq(Letters) /\ ToSet(q) \subseteq ToSet(messageQueue)
    BY <1>1, <2>1, ShrunkFacts
  <2>3. ToSet(Append(q, f)) = ToSet(q) \cup {f}
    BY <2>2, AppendElements
  <2> QED BY <1>3, <2>1, <2>2, <2>3 DEF ToQueue
<1>4. CASE ToNobody
  BY <1>4 DEF ToNobody
<1> QED BY <1>2, <1>3, <1>4 DEF Lands

\* Every letter was there, or is being sent by the handler of its client.
LEMMA NewLetters ==
  ASSUME TypeOK, MailStep, NEW e \in Mail'
  PROVE  e \in Mail \/ \E h \in Conns : e \in Letters /\ Posts(h, e)
<1> USE DEF linkVars, queueVars, backVars
<1>0. \/ e \in ToSet(messageQueue')
      \/ \E b \in Backends : \/ e \in ToSet(received'[b])
                             \/ e \in ToSet(toBackend'[b])
                             \/ e \in ToSet(batch'[b])
  BY DEF Mail, Heard, Underway, InLinks, InBatches, InQueue, Gathered
<1>1. CASE UNCHANGED <<toBackend, received, messageQueue, batch>>
  BY <1>0, <1>1, MailIs
<1>2. CASE Cuts
  <2>1. \A b \in Backends : ToSet(toBackend'[b]) \subseteq ToSet(toBackend[b])
    BY <1>2, ShrunkFacts DEF Cuts, TypeOK
  <2> QED BY <1>0, <1>2, <2>1, MailIs DEF Cuts
<1>3. ASSUME NEW b \in Backends, ReadsOne(b) PROVE e \in Mail
  <2> DEFINE f == Head(toBackend[b])
  <2>1. toBackend[b] \in Seq(Letters) /\ received[b] \in Seq(Letters)
    BY DEF TypeOK, Letters
  <2>2. /\ f \in Letters
        /\ ToSet(toBackend[b]) = {f} \cup ToSet(Tail(toBackend[b]))
    BY <1>3, <2>1, TailElements DEF ReadsOne
  <2>3. ToSet(Append(received[b], f)) = ToSet(received[b]) \cup {f}
    <3> HIDE DEF f
    <3> QED BY <2>1, <2>2, AppendElements
  <2>4. \A x \in Backends :
           /\ ToSet(toBackend'[x]) \subseteq ToSet(toBackend[x])
           /\ ToSet(received'[x]) \subseteq ToSet(received[x]) \cup {f}
    <3> TAKE x \in Backends
    <3>1. CASE x = b
      BY <1>3, <2>2, <2>3, <3>1 DEF ReadsOne, TypeOK
    <3>2. CASE x # b
      BY <1>3, <3>2 DEF ReadsOne, TypeOK
    <3> QED BY <3>1, <3>2
  <2>5. f \in Mail
    BY <2>2, MailIs
  <2> HIDE DEF f
  <2> QED BY <1>0, <1>3, <2>4, <2>5, MailIs DEF ReadsOne
<1>4. ASSUME NEW b \in Backends, TakesQueue(b) PROVE e \in Mail
  <2>1. \A x \in Backends :
           batch'[x] = IF x = b THEN messageQueue ELSE batch[x]
    BY <1>4 DEF TakesQueue, TypeOK
  <2>2. ToSet(messageQueue') = {}
    BY <1>4, EmptyElements DEF TakesQueue
  <2> QED BY <1>0, <1>4, <2>1, <2>2, MailIs DEF TakesQueue
<1>5. ASSUME NEW b \in Backends, GivesBack(b) PROVE e \in Mail
  <2>1. \A x \in Backends : batch'[x] = IF x = b THEN <<>> ELSE batch[x]
    BY <1>5 DEF GivesBack, TypeOK
  <2>2. ToSet(messageQueue') = ToSet(batch[b]) \cup ToSet(messageQueue)
    BY <1>5, ConcatElements DEF GivesBack, TypeOK
  <2> QED BY <1>0, <1>5, <2>1, <2>2, EmptyElements, MailIs DEF GivesBack
<1>6. ASSUME NEW b \in Backends, PassesOn(b) PROVE e \in Mail
  <2> DEFINE f == Head(batch[b])
  <2>1. batch[b] \in Seq(Events) /\ batch[b] # <<>>
    BY <1>6 DEF PassesOn, TypeOK
  <2>2. f \in Letters /\ ToSet(batch[b]) = {f} \cup ToSet(Tail(batch[b]))
    BY <2>1, TailElements DEF Letters
  <2>3. \A x \in Backends : ToSet(batch'[x]) \subseteq ToSet(batch[x])
    <3>1. \A x \in Backends :
             batch'[x] = IF x = b THEN Tail(batch[b]) ELSE batch[x]
      BY <1>6 DEF PassesOn, TypeOK
    <3> QED BY <2>2, <3>1
  <2>4. Lands(f) /\ UNCHANGED received
    BY <1>6 DEF PassesOn
  <2>5. f \in Mail
    BY <2>2, MailIs
  <2> HIDE DEF f
  <2> QED BY <1>0, <2>2, <2>3, <2>4, <2>5, LandsAlone, MailIs
<1>7. ASSUME NEW h \in Conns, NEW f \in Letters, Posts(h, f)
      PROVE  e \in Mail \/ e = f
  <2>1. Lands(f) /\ UNCHANGED <<received, batch>>
    BY <1>7 DEF Posts
  <2> QED BY <1>0, <2>1, LandsAlone, MailIs
<1>8. ASSUME NEW b \in Backends, Trims(b) \/ Dispatches(b)
      PROVE  UNCHANGED <<toBackend, received, messageQueue, batch>>
  BY <1>8 DEF Trims, Dispatches
<1>9. ASSUME NEW h \in Conns, NEW m \in Messages, Mutters(h, m)
      PROVE  UNCHANGED <<toBackend, received, messageQueue, batch>>
  BY <1>9 DEF Mutters
<1>10. Rests \/ Delivers
         => UNCHANGED <<toBackend, received, messageQueue, batch>>
  BY DEF Rests, Delivers
<1> QED BY <1>1, <1>2, <1>3, <1>4, <1>5, <1>6, <1>7, <1>8, <1>9, <1>10
        DEF MailStep

-------------------------------------------------------------------------------
(***************************************************************************)
(* Stories: what a letter says of the handler that sent it, and the order  *)
(* in which a backend reads them.                                          *)
(***************************************************************************)
Begun == {"reading", "reporting", "returned", "panicked"}
Fits(e) ==
    /\ e.action \in Chapters => pc[e.client] \in Begun
    /\ e.action = "new_message" => Said(e.client, e.message)
    /\ e.action = "disconnected" => pc[e.client] = "returned"
Told == \A e \in Mail : Fits(e)

Follows(e, f) ==
    e.client = f.client /\ e.action \in Chapters /\ f.action \in Chapters =>
      \/ e.action = "new_connection" /\ f.action # "new_connection"
      \/ e.action = "new_message" /\ f.action = "disconnected"
      \/ /\ e.action = "new_message" /\ f.action = "new_message"
         /\ Before(e.client, e.message, f.message)
Tale == {p \in Letters \X Letters : Follows(p[1], p[2])}

Stories ==
    ~buffered => \A b \in Backends :
       /\ Sorted(received[b], Tale)
       /\ Sorted(toBackend[b], Tale)
       /\ AllBefore(ToSet(received[b]), ToSet(toBackend[b]), Tale)

\* A handler that has begun goes on, and one that has returned stays so.
LEMMA HandlersGoOn ==
  ASSUME TypeOK, [Next]_vars, NEW h \in Conns
  PROVE  /\ pc[h] \in Begun => pc'[h] \in Begun
         /\ pc[h] = "returned" => pc'[h] = "returned"
<1> USE DEF bridgeVars, backendVars, flushVars,
            sendVars, clientVars, dispatchVars
<1>1. CASE UNCHANGED pc
  BY <1>1
<1>2. ASSUME NEW x \in Conns,
             \/ Request(x) \/ UpgradeFails(x) \/ Reacts(x)
             \/ \E m \in Messages : Receive(x, m)
      PROVE  \E k \in {"idle", "waiting", "refused", "announcing",
                       "reading", "reporting"} :
                /\ pc[x] = k
                /\ \E l \in {"waiting", "refused", "announcing"} \cup Begun :
                      /\ pc' = [pc EXCEPT ![x] = l]
                      /\ k \in Begun => l \in Begun
  <2>1. CASE Request(x)
    BY <2>1 DEF Request, Begun
  <2>2. CASE UpgradeFails(x)
    BY <2>2 DEF UpgradeFails, Begun
  <2>3. CASE ReportError(x)
    BY <2>3 DEF ReportError, Begun
  <2>4. CASE Admit(x)
    BY <2>4 DEF Admit, Begun
  <2>5. CASE Announce(x)
    BY <2>5 DEF Announce, Callback, Begun
  <2>6. CASE ReadFails(x)
    BY <2>6 DEF ReadFails, Begun
  <2>7. CASE ReportDisconnect(x)
    BY <2>7 DEF ReportDisconnect, Callback, Begun
  <2>8. CASE \E m \in Messages : Receive(x, m)
    BY <2>8 DEF Receive, Callback, Begun
  <2> QED BY <1>2, <2>1, <2>2, <2>3, <2>4, <2>5, <2>6, <2>7, <2>8 DEF Reacts
<1>3. ASSUME NEW x \in Conns, NEW k, NEW l, pc[x] = k, k # "returned",
             pc' = [pc EXCEPT ![x] = l], k \in Begun => l \in Begun
      PROVE  /\ pc[h] \in Begun => pc'[h] \in Begun
             /\ pc[h] = "returned" => pc'[h] = "returned"
  BY <1>3 DEF TypeOK
<1>4. CASE \E x \in Conns : \/ Request(x) \/ UpgradeFails(x) \/ Reacts(x)
                            \/ \E m \in Messages : Receive(x, m)
  BY <1>2, <1>3, <1>4
<1>5. ASSUME Main \/ WriteMessage \/ UNCHANGED vars PROVE UNCHANGED pc
  BY <1>5 DEF Main, StartBackend, StartWebSocket, StopBackend, StopWebSocket,
         WriteMessage, vars
<1>6. ASSUME NEW b \in Backends,
             \/ Connect(b) \/ EchoBackend(b) \/ BackendDies(b) \/ LeavesPool(b)
             \/ FlushQueue(b) \/ HandleRequests(b)
      PROVE  UNCHANGED pc
  BY <1>6 DEF Connect, EchoBackend, AcceptsClient, Echoes, Ignores, BackendDies,
              LeavesPool, FlushQueue, FlushTake, FlushSend, FlushInterrupted,
              HandleRequests, DispatchResponse, DispatchCommand
<1>7. ASSUME NEW x \in Conns, ClientLeaves(x) PROVE UNCHANGED pc
  BY <1>7 DEF ClientLeaves
<1> QED
  BY <1>1, <1>4, <1>5, <1>6, <1>7 DEF Next

\* Letters keep saying what is the case, and new ones do.
LEMMA StepTold ==
  ASSUME TypeOK, Told, MailStep, [Next]_vars
  PROVE  Told'
<1> SUFFICES ASSUME NEW e \in Mail' PROVE Fits(e)'
  BY DEF Told
<1>1. CASE e \in Mail
  <2>1. Fits(e) /\ e \in Letters
    BY <1>1, MailTypes DEF Told
  <2>2. e.client \in Conns
    BY <2>1 DEF Letters, Events, Requests
  <2> QED BY <2>1, <2>2, HandlersGoOn, WordsStay DEF Fits
<1>2. ASSUME NEW h \in Conns, e \in Letters, Posts(h, e) PROVE Fits(e)'
  <2>1. e.client = h /\ Tells(h, e)
    BY <1>2 DEF Posts
  <2>2. e.action = "new_message" => Said(h, e.message)'
    <3>1. ASSUME SaysNew(h, e.message) PROVE Said(h, e.message)'
      <4>1. e.message \in Messages
        BY <3>1 DEF SaysNew
      <4> QED BY <3>1, <4>1, NewWord
    <3> QED BY <2>1, <3>1 DEF Tells, Chapters
  <2> QED BY <2>1, <2>2 DEF Fits, Tells, Chapters, Begun
<1> QED BY <1>1, <1>2, NewLetters

\* A tale stays one.
LEMMA TalesStay ==
  ASSUME TypeOK, MailStep
  PROVE  \A p \in Tale : p \in Tale'
<1> SUFFICES ASSUME NEW p \in Tale PROVE p \in Tale'
  OBVIOUS
<1>1. p \in Letters \X Letters /\ Follows(p[1], p[2]) /\ p[1].client \in Conns
  BY DEF Tale, Letters, Events, Requests
<1>2. Follows(p[1], p[2])'
  BY <1>1, WordsStay DEF Follows
<1> QED BY <1>1, <1>2 DEF Tale

\* What is sent follows all that was sent before.
LEMMA NextChapter ==
  ASSUME TypeOK, Told, NEW h \in Conns, NEW e \in Letters, Posts(h, e),
         NEW x \in Mail
  PROVE  <<x, e>> \in Tale'
<1>1. x \in Letters /\ Fits(x) /\ e.client = h /\ Tells(h, e)
  BY MailTypes DEF Told, Posts
<1> SUFFICES ASSUME x.client = h, x.action \in Chapters, e.action \in Chapters
             PROVE  \/ /\ x.action = "new_connection"
                       /\ e.action # "new_connection"
                    \/ x.action = "new_message" /\ e.action = "disconnected"
                    \/ /\ x.action = "new_message" /\ e.action = "new_message"
                       /\ Before(h, x.message, e.message)'
  BY <1>1 DEF Tale, Follows
<1>2. pc[h] \in Begun /\ (x.action = "disconnected" => pc[h] = "returned")
  BY <1>1 DEF Fits
<1>3. x.action # "disconnected" /\ e.action # "new_connection"
  BY <1>1, <1>2 DEF Tells, Begun
<1>4. CASE x.action = "new_message" /\ e.action = "new_message"
  <2>1. SaysNew(h, e.message) /\ e.message \in Messages /\ Said(h, x.message)
    BY <1>1, <1>4 DEF Tells, SaysNew, Fits, Chapters
  <2> QED BY <1>4, <2>1, NewWord
<1> QED BY <1>3, <1>4 DEF Chapters

\* Every kind of step keeps the stories in order.
LEMMA StepStories ==
  ASSUME TypeOK, Told, Bypassed, Stories, MailStep
  PROVE  Stories'
<1> SUFFICES ASSUME ~buffered', NEW b \in Backends
             PROVE  /\ Sorted(received'[b], Tale')
                    /\ Sorted(toBackend'[b], Tale')
                    /\ AllBefore(ToSet(received'[b]), ToSet(toBackend'[b]),
                                 Tale')
  BY DEF Stories
<1> DEFINE R == received[b]
           T == toBackend[b]
           Goal(r, t) == /\ Sorted(r, Tale') /\ Sorted(t, Tale')
                         /\ AllBefore(ToSet(r), ToSet(t), Tale')
<1> USE DEF linkVars, queueVars, backVars
<1>1. ~buffered
  BY StepBypassed
<1>2. R \in Seq(Letters) /\ T \in Seq(Letters)
  BY DEF TypeOK, Letters
<1>3. Goal(R, T)
  <2>1. /\ Sorted(R, Tale) /\ Sorted(T, Tale)
        /\ AllBefore(ToSet(R), ToSet(T), Tale)
    BY <1>1 DEF Stories
  <2>2. \A s : Sorted(s, Tale) => Sorted(s, Tale')
    BY TalesStay, SortedMore
  <2>3. \A A, B : AllBefore(A, B, Tale) => AllBefore(A, B, Tale')
    BY TalesStay DEF AllBefore
  <2> QED BY <2>1, <2>2, <2>3
<1> SUFFICES Goal(received'[b], toBackend'[b])
  OBVIOUS
<1> HIDE DEF Goal
<1>4. CASE received'[b] = R /\ toBackend'[b] = T
  BY <1>3, <1>4
<1>5. CASE Cuts
  <2> DEFINE t == toBackend'[b]
  <2>1. received'[b] = R /\ Shrunk(T, t)
    BY <1>5 DEF Cuts
  <2> HIDE DEF R, T, t
  <2>2. ToSet(t) \subseteq ToSet(T) /\ (Sorted(T, Tale') => Sorted(t, Tale'))
    BY <1>2, <2>1, ShrunkFacts
  <2>3. Goal(R, t)
    BY <1>3, <2>2 DEF Goal, AllBefore
  <2> QED BY <2>1, <2>3 DEF t
<1>6. CASE ReadsOne(b)
  <2> DEFINE e == Head(T)
  <2>1. /\ T # <<>> /\ received'[b] = Append(R, e) /\ toBackend'[b] = Tail(T)
    BY <1>6 DEF ReadsOne, TypeOK
  <2> HIDE DEF R, T
  <2>2. e \in Letters /\ ToSet(T) = {e} \cup ToSet(Tail(T))
    BY <1>2, <2>1, TailElements
  <2>3. Sorted(Tail(T), Tale') /\ AllBefore({e}, ToSet(Tail(T)), Tale')
    BY <1>2, <1>3, <2>1, SortedTail DEF Goal
  <2> HIDE DEF e
  <2>4. AllBefore(ToSet(R), {e}, Tale')
    BY <1>3, <2>2 DEF Goal, AllBefore
  <2>5. Sorted(Append(R, e), Tale') /\ ToSet(Append(R, e)) = ToSet(R) \cup {e}
    BY <1>2, <1>3, <2>2, <2>4, SortedAppend, AppendElements DEF Goal
  <2>6. AllBefore(ToSet(R) \cup {e}, ToSet(Tail(T)), Tale')
    BY <1>3, <2>2, <2>3 DEF Goal, AllBefore
  <2> QED BY <2>1, <2>3, <2>5, <2>6 DEF Goal
<1>7. ASSUME NEW x \in Backends, ReadsOne(x), x # b
      PROVE  received'[b] = R /\ toBackend'[b] = T
  BY <1>7 DEF ReadsOne, TypeOK
<1>8. ASSUME NEW x \in Backends, PassesOn(x) PROVE FALSE
  BY <1>1, <1>8 DEF PassesOn, Bypassed
<1>9. ASSUME NEW h \in Conns, NEW e \in Letters, Posts(h, e)
      PROVE  Goal(received'[b], toBackend'[b])
  <2>1. /\ received'[b] = R
        /\ UNCHANGED toBackend \/ \E x \in Backends : ToLink(x, e)
    BY <1>9 DEF Posts, Lands, ToQueue, ToNobody
  <2>2. toBackend'[b] = T \/ toBackend'[b] = Append(T, e)
    BY <2>1 DEF ToLink, TypeOK
  <2>3. \A y \in ToSet(R) \cup ToSet(T) : <<y, e>> \in Tale'
    BY <1>9, NextChapter, MailIs
  <2> HIDE DEF R, T
  <2>4. Sorted(Append(T, e), Tale') /\ ToSet(Append(T, e)) = ToSet(T) \cup {e}
    <3>1. AllBefore(ToSet(T), {e}, Tale')
      BY <2>3 DEF AllBefore
    <3> QED BY <1>2, <1>3, <3>1, SortedAppend, AppendElements DEF Goal
  <2>5. Goal(R, Append(T, e))
    BY <1>3, <2>3, <2>4 DEF Goal, AllBefore
  <2> QED BY <1>3, <2>1, <2>2, <2>5
<1>10. ASSUME NEW x \in Backends,
              Trims(x) \/ TakesQueue(x) \/ GivesBack(x) \/ Dispatches(x)
       PROVE  received'[b] = R /\ toBackend'[b] = T
  BY <1>10 DEF Trims, TakesQueue, GivesBack, Dispatches
<1>11. ASSUME NEW h \in Conns, NEW m \in Messages, Mutters(h, m)
       PROVE  received'[b] = R /\ toBackend'[b] = T
  BY <1>11 DEF Mutters
<1>12. Rests \/ Delivers => received'[b] = R /\ toBackend'[b] = T
  BY DEF Rests, Delivers
<1> QED BY <1>4, <1>5, <1>6, <1>7, <1>8, <1>9, <1>10, <1>11, <1>12 DEF MailStep

-------------------------------------------------------------------------------
(***************************************************************************)
(* Echoes: of what passes through one backend, what has been written to    *)
(* clients comes before what the dispatcher holds, that before what the    *)
(* backend has replied, and that before what it has still to read.         *)
(***************************************************************************)
InLine(R, D, H, F, T) ==
    /\ Sorted(D, R) /\ Sorted(F, R) /\ Sorted(T, R)
    /\ AllBefore(ToSet(D), H, R)
    /\ AllBefore(ToSet(D) \cup H, ToSet(F), R)
    /\ AllBefore(ToSet(D) \cup H \cup ToSet(F), ToSet(T), R)

\* A relation that holds more of what is there.
LEMMA LineMore ==
  ASSUME NEW R, NEW Q, NEW D, NEW H, NEW F, NEW T, InLine(R, D, H, F, T),
         \A x, y \in ToSet(D) \cup H \cup ToSet(F) \cup ToSet(T) :
            <<x, y>> \in R => <<x, y>> \in Q
  PROVE  InLine(Q, D, H, F, T)
<1>1. Sorted(D, Q) /\ Sorted(F, Q) /\ Sorted(T, Q)
  BY SortedMore DEF InLine
<1> QED BY <1>1 DEF InLine, AllBefore

\* Fewer replies, or less to read.
LEMMA LineShrunk ==
  ASSUME NEW S, NEW R, NEW D, NEW H, NEW F \in Seq(S), NEW T \in Seq(S),
         InLine(R, D, H, F, T), NEW f, NEW t, Shrunk(F, f), Shrunk(T, t)
  PROVE  InLine(R, D, H, f, t)
<1>1. /\ ToSet(f) \subseteq ToSet(F) /\ (Sorted(F, R) => Sorted(f, R))
      /\ ToSet(t) \subseteq ToSet(T) /\ (Sorted(T, R) => Sorted(t, R))
  BY ShrunkFacts
<1> QED BY <1>1 DEF InLine, AllBefore

\* The first that was to be read is replied to.
LEMMA LineReplied ==
  ASSUME NEW S, NEW R, NEW D, NEW H, NEW F \in Seq(S), NEW T \in Seq(S),
         InLine(R, D, H, F, T), T # <<>>, NEW l \in S,
         \A z : /\ <<z, Head(T)>> \in R => <<z, l>> \in R
                /\ <<Head(T), z>> \in R => <<l, z>> \in R
  PROVE  InLine(R, D, H, Append(F, l), Tail(T))
<1> DEFINE e == Head(T)
<1>1. /\ ToSet(T) = {e} \cup ToSet(Tail(T)) /\ Sorted(Tail(T), R)
      /\ AllBefore({e}, ToSet(Tail(T)), R)
  BY TailElements, SortedTail DEF InLine
<1>2. \A z : /\ <<z, e>> \in R => <<z, l>> \in R
             /\ <<e, z>> \in R => <<l, z>> \in R
  OBVIOUS
<1> HIDE DEF e
<1>3. AllBefore(ToSet(D) \cup H \cup ToSet(F), {l}, R)
  BY <1>1, <1>2 DEF InLine, AllBefore
<1>4. AllBefore({l}, ToSet(Tail(T)), R)
  BY <1>1, <1>2 DEF AllBefore
<1>5. Sorted(Append(F, l), R) /\ ToSet(Append(F, l)) = ToSet(F) \cup {l}
  <2>1. AllBefore(ToSet(F), {l}, R)
    BY <1>3 DEF AllBefore
  <2> QED BY <2>1, SortedAppend, AppendElements DEF InLine
<1>6. AllBefore(ToSet(D) \cup H, ToSet(F) \cup {l}, R)
  BY <1>3 DEF InLine, AllBefore
<1>7. AllBefore(ToSet(D) \cup H \cup (ToSet(F) \cup {l}), ToSet(Tail(T)), R)
  BY <1>1, <1>4 DEF InLine, AllBefore
<1> QED BY <1>1, <1>5, <1>6, <1>7 DEF InLine

\* The dispatcher, with nothing in hand, takes the first reply.
LEMMA LineTaken ==
  ASSUME NEW S, NEW R, NEW D, NEW F \in Seq(S), NEW T,
         InLine(R, D, {}, F, T), F # <<>>, NEW w,
         \A z : /\ <<z, Head(F)>> \in R => <<z, w>> \in R
                /\ <<Head(F), z>> \in R => <<w, z>> \in R
  PROVE  InLine(R, D, {w}, Tail(F), T)
<1> DEFINE e == Head(F)
<1>1. /\ ToSet(F) = {e} \cup ToSet(Tail(F)) /\ Sorted(Tail(F), R)
      /\ AllBefore({e}, ToSet(Tail(F)), R)
  BY TailElements, SortedTail DEF InLine
<1>2. \A z : /\ <<z, e>> \in R => <<z, w>> \in R
             /\ <<e, z>> \in R => <<w, z>> \in R
  OBVIOUS
<1> HIDE DEF e
<1> QED BY <1>1, <1>2 DEF InLine, AllBefore

\* The dispatcher has in hand what another backend replied.
LEMMA LineOther ==
  ASSUME NEW R, NEW D, NEW F, NEW T, InLine(R, D, {}, F, T), NEW w,
         \A z \in ToSet(D) : <<z, w>> \in R,
         \A z \in ToSet(F) \cup ToSet(T) : <<w, z>> \in R
  PROVE  InLine(R, D, {w}, F, T)
  BY DEF InLine, AllBefore

\* What it has in hand is written, or not.
LEMMA LineWritten ==
  ASSUME NEW S, NEW R, NEW D \in Seq(S), NEW w \in S, NEW F, NEW T,
         InLine(R, D, {w}, F, T)
  PROVE  InLine(R, D, {}, F, T) /\ InLine(R, Append(D, w), {}, F, T)
<1>1. AllBefore(ToSet(D), {w}, R)
  BY DEF InLine
<1>2. Sorted(Append(D, w), R) /\ ToSet(Append(D, w)) = ToSet(D) \cup {w}
  BY <1>1, SortedAppend, AppendElements DEF InLine
<1> QED BY <1>2 DEF InLine, AllBefore

\* Something new is to be read.
LEMMA LineSent ==
  ASSUME NEW S, NEW R, NEW D, NEW H, NEW F, NEW T \in Seq(S), NEW e \in S,
         InLine(R, D, H, F, T),
         AllBefore(ToSet(D) \cup H \cup ToSet(F) \cup ToSet(T), {e}, R)
  PROVE  InLine(R, D, H, F, Append(T, e))
<1>1. AllBefore(ToSet(T), {e}, R)
  BY DEF AllBefore
<1>2. Sorted(Append(T, e), R) /\ ToSet(Append(T, e)) = ToSet(T) \cup {e}
  BY <1>1, SortedAppend, AppendElements DEF InLine
<1> QED BY <1>2 DEF InLine, AllBefore

(***************************************************************************)
(* The relation: if both pass through b, and the same client said what     *)
(* they carry, it said that of the first before that of the second.        *)
(***************************************************************************)
InTurn(m, n) == \A h \in Conns : Said(h, m) /\ Said(h, n) => Before(h, m, n)
Via(x, b) == x \in Writes => x.via = b
Turn(b) ==
    {p \in Things \X Things :
       Via(p[1], b) /\ Via(p[2], b) =>
         \A m \in Carried(p[1]) : \A n \in Carried(p[2]) : InTurn(m, n)}
InHand == ToSet(Hand)

Echoing ==
    ~buffered => \A b \in Backends :
       InLine(Turn(b), delivered, InHand, fromBackend[b], toBackend[b])

\* What is in line has been said.
LEMMA LineUttered ==
  ASSUME Uttered, NEW b \in Backends,
         NEW x \in ToSet(delivered) \cup InHand \cup ToSet(fromBackend[b])
                     \cup ToSet(toBackend[b]),
         NEW m \in Carried(x)
  PROVE  \E h \in Conns : Said(h, m)
<1>1. PICK p \in Places : x \in ToSet(At(p))
  BY PlaceNames, AtPlaces DEF InHand
<1> QED BY <1>1 DEF Uttered

\* And is a thing.
LEMMA LineTypes ==
  ASSUME TypeOK, NEW b \in Backends
  PROVE  /\ ToSet(delivered) \cup InHand \cup ToSet(fromBackend[b])
              \cup ToSet(toBackend[b]) \subseteq Things
         /\ delivered \in Seq(Things) /\ fromBackend[b] \in Seq(Things)
         /\ toBackend[b] \in Seq(Things)
         /\ InHand = IF writing = None THEN {} ELSE {writing}
<1>1. /\ ToSet(At(<<"link", b>>)) \cup ToSet(At(<<"back", b>>))
           \cup ToSet(At(<<"hand", None>>)) \cup ToSet(At(<<"socket", None>>))
           \subseteq Things
      /\ At(<<"link", b>>) \in Seq(Things) /\ At(<<"back", b>>) \in Seq(Things)
      /\ At(<<"socket", None>>) \in Seq(Things)
  BY AtTypes, PlaceNames
<1>2. InHand = IF writing = None THEN {} ELSE {writing}
  <2>1. ToSet(<<writing>>) = {writing}
    BY DEF ToSet
  <2> QED BY <2>1, EmptyElements DEF InHand, Hand
<1> QED BY <1>1, <1>2, AtPlaces DEF InHand

\* Turns stay what they are.
LEMMA TurnsStay ==
  ASSUME TypeOK, MailStep, NEW b, NEW x, NEW y, <<x, y>> \in Turn(b),
         \A m \in Carried(x) \cup Carried(y) : \E h \in Conns : Said(h, m)
  PROVE  <<x, y>> \in Turn(b)'
<1> SUFFICES ASSUME Via(x, b), Via(y, b),
                    NEW m \in Carried(x), NEW n \in Carried(y),
                    NEW h \in Conns, Said(h, m)', Said(h, n)'
             PROVE  Before(h, m, n)'
  BY DEF Turn, InTurn
<1>1. Said(h, m) /\ Said(h, n)
  BY WordsStay
<1>2. Before(h, m, n)
  BY <1>1 DEF Turn, InTurn
<1> QED BY <1>2, WordsStay

\* Something that carries the same, through the same backend, has its turn.
LEMMA SameTurn ==
  ASSUME NEW b, NEW x \in Things, NEW y \in Things, Carried(x) = Carried(y),
         Via(x, b)
  PROVE  \A z : /\ <<z, x>> \in Turn(b) => <<z, y>> \in Turn(b)
                /\ <<x, z>> \in Turn(b) => <<y, z>> \in Turn(b)
  BY DEF Turn

\* What is sent carries nothing, or what was said last.
LEMMA LastTurn ==
  ASSUME TypeOK, SaidOnce, MailStep, NEW h \in Conns, NEW e \in Letters,
         Posts(h, e), NEW x \in Things,
         \A m \in Carried(x) : \E y \in Conns : Said(y, m)
  PROVE  \A b : <<x, e>> \in Turn(b)'
<1>1. e \in Things
  BY DEF Things
<1> SUFFICES ASSUME NEW m \in Carried(x), NEW n \in Carried(e),
                    NEW y \in Conns, Said(y, m)', Said(y, n)'
             PROVE  Before(y, m, n)'
  BY <1>1 DEF Turn, InTurn
<1>2. e.action = "new_message" /\ n = e.message
  BY CarriedIs
<1>3. SaysNew(h, n) /\ n \in Messages
  BY <1>2 DEF Posts, Tells, SaysNew, Chapters
<1>4. y = h /\ Said(y, m)
  BY <1>3, WordsStay, NewWord DEF SaysNew
<1> QED BY <1>3, <1>4, NewWord

\* Every kind of step keeps the echoes in line.
LEMMA StepEchoing ==
  ASSUME TypeOK, TypeOK', Uttered, SaidOnce, Bypassed, Echoing, MailStep
  PROVE  Echoing'
<1> SUFFICES ASSUME ~buffered', NEW b \in Backends
             PROVE  InLine(Turn(b)', delivered', InHand', fromBackend'[b],
                           toBackend'[b])
  BY DEF Echoing
<1> DEFINE Q == Turn(b)'
           D == delivered
           F == fromBackend[b]
           T == toBackend[b]
           Present == ToSet(D) \cup InHand \cup ToSet(F) \cup ToSet(T)
<1> USE DEF linkVars, queueVars, backVars
<1>1. ~buffered
  BY StepBypassed
<1>2. /\ D \in Seq(Things) /\ F \in Seq(Things) /\ T \in Seq(Things)
      /\ Present \subseteq Things
      /\ InHand = IF writing = None THEN {} ELSE {writing}
  BY LineTypes
<1>3. InHand' = IF writing' = None THEN {} ELSE {writing'}
  <2>1. ToSet(<<writing'>>) = {writing'}
    BY DEF ToSet
  <2> QED BY <2>1, EmptyElements DEF InHand, Hand
<1>4. UNCHANGED writing => InHand' = InHand
  BY <1>2, <1>3
<1>5. InLine(Q, D, InHand, F, T)
  <2>1. InLine(Turn(b), D, InHand, F, T)
    BY <1>1 DEF Echoing
  <2>2. \A x, y \in Present : <<x, y>> \in Turn(b) => <<x, y>> \in Q
    BY TurnsStay, LineUttered
  <2> HIDE DEF D, F, T, Q
  <2> QED BY <2>1, <2>2, LineMore
<1> SUFFICES InLine(Q, delivered', InHand', fromBackend'[b], toBackend'[b])
  OBVIOUS
<1>6. CASE /\ delivered' = D /\ writing' = writing
           /\ fromBackend'[b] = F /\ toBackend'[b] = T
  BY <1>4, <1>5, <1>6
<1>7. CASE /\ delivered' = D /\ writing' = writing
           /\ Shrunk(F, fromBackend'[b]) /\ Shrunk(T, toBackend'[b])
  <2> DEFINE f == fromBackend'[b]
             t == toBackend'[b]
  <2>1. Shrunk(F, f) /\ Shrunk(T, t) /\ delivered' = D /\ InHand' = InHand
    BY <1>4, <1>7
  <2> HIDE DEF Q, D, F, T, f, t
  <2>2. InLine(Q, D, InHand, f, t)
    BY <1>2, <1>5, <2>1, LineShrunk
  <2> QED BY <2>1, <2>2 DEF f, t
<1>8. Cuts => /\ delivered' = D /\ writing' = writing
              /\ Shrunk(F, fromBackend'[b]) /\ Shrunk(T, toBackend'[b])
  BY ShrunkSame DEF Cuts
<1>9. ASSUME NEW c \in Backends, Trims(c)
      PROVE  /\ delivered' = D /\ writing' = writing
             /\ Shrunk(F, fromBackend'[b]) /\ Shrunk(T, toBackend'[b])
  <2>1. PICK n \in 0..Len(fromBackend[c]) :
          fromBackend' = [fromBackend EXCEPT ![c] = SubSeq(@, 1, n)]
    BY <1>9 DEF Trims
  <2>2. CASE c = b
    <3>1. fromBackend'[b] = SubSeq(F, 1, n) /\ n \in 0..Len(F)
      BY <2>1, <2>2 DEF TypeOK
    <3>2. Shrunk(F, fromBackend'[b])
      BY <3>1 DEF Shrunk
    <3> QED BY <1>9, <3>2, ShrunkSame DEF Trims
  <2>3. CASE c # b
    <3>1. fromBackend'[b] = F
      BY <2>1, <2>3
    <3> QED BY <1>9, <3>1, ShrunkSame DEF Trims
  <2> QED BY <2>2, <2>3
<1>10. ASSUME NEW c \in Backends, ReadsOne(c)
       PROVE  InLine(Q, delivered', InHand', fromBackend'[b], toBackend'[b])
  <2>1. delivered' = D /\ writing' = writing /\ InHand' = InHand
    BY <1>4, <1>10 DEF ReadsOne
  <2>2. CASE c # b
    <3>1. fromBackend'[b] = F /\ toBackend'[b] = T
      BY <1>10, <2>2 DEF ReadsOne, Answers, TypeOK
    <3> QED BY <1>6, <2>1, <3>1
  <2>3. CASE c = b
    <3>1. T # <<>> /\ toBackend'[b] = Tail(T)
      BY <1>10, <2>3 DEF ReadsOne, TypeOK
    <3>2. CASE UNCHANGED fromBackend
      <4>1. Shrunk(F, fromBackend'[b]) /\ Shrunk(T, toBackend'[b])
        BY <3>1, <3>2 DEF Shrunk
      <4> QED BY <1>7, <2>1, <4>1
    <3>3. ASSUME NEW l, Answers(b, l)
          PROVE  InLine(Q, D, InHand, fromBackend'[b], Tail(T))
      <4>1. /\ l \in Lines /\ Carried(l) = Carried(Head(T))
            /\ fromBackend'[b] = Append(F, l)
        BY <3>3 DEF Answers, TypeOK
      <4>2. l \in Things /\ Head(T) \in Letters /\ Head(T) \in Things
        <5>1. T \in Seq(Letters)
          BY DEF TypeOK, Letters
        <5> QED BY <3>1, <4>1, <5>1, TailElements DEF Things
      <4>3. Via(Head(T), b)
        BY <4>2 DEF Via, Letters, Events, Requests, Writes
      <4>4. \A z : /\ <<z, Head(T)>> \in Turn(b)' => <<z, l>> \in Turn(b)'
                   /\ <<Head(T), z>> \in Turn(b)' => <<l, z>> \in Turn(b)'
        <5> DEFINE e == Head(T)
        <5>1. e \in Things /\ Carried(l) = Carried(e) /\ Via(l, b) /\ Via(e, b)
          BY <4>1, <4>2, <4>3 DEF Via, Lines, Writes
        <5> HIDE DEF e
        <5>2. \A z : /\ <<z, e>> \in Turn(b)' => <<z, l>> \in Turn(b)'
                     /\ <<e, z>> \in Turn(b)' => <<l, z>> \in Turn(b)'
          BY <4>2, <5>1 DEF Turn
        <5> QED BY <5>2 DEF e
      <4> HIDE DEF D, F, T
      <4>5. \A z : /\ <<z, Head(T)>> \in Q => <<z, l>> \in Q
                   /\ <<Head(T), z>> \in Q => <<l, z>> \in Q
        BY <4>4
      <4> HIDE DEF Q
      <4>6. InLine(Q, D, InHand, Append(F, l), Tail(T))
        BY <1>2, <1>5, <3>1, <4>2, <4>5, LineReplied
      <4> QED BY <4>1, <4>6
    <3> QED BY <1>10, <2>1, <2>3, <3>1, <3>2, <3>3 DEF ReadsOne
  <2> QED BY <2>2, <2>3
<1>11. ASSUME NEW c \in Backends, Dispatches(c)
       PROVE  InLine(Q, delivered', InHand', fromBackend'[b], toBackend'[b])
  <2>1. delivered' = D /\ InHand = {} /\ toBackend'[b] = T
    BY <1>2, <1>11 DEF Dispatches
  <2>2. CASE writing' = None
    <3>1. Shrunk(F, fromBackend'[b]) /\ Shrunk(T, toBackend'[b])
      BY <1>11, <2>1, ShrunkSame DEF Dispatches, Shrunk, TypeOK
    <3>2. writing' = writing
      BY <1>11, <2>2 DEF Dispatches
    <3> QED BY <1>7, <2>1, <3>1, <3>2
  <2>3. CASE writing' # None /\ c = b
    <3> DEFINE w == writing'
    <3>1. /\ F # <<>> /\ fromBackend'[b] = Tail(F) /\ InHand' = {w}
          /\ w \in Writes /\ w \in Things /\ Via(w, b)
          /\ Carried(w) = Carried(Head(F))
      BY <1>3, <1>11, <2>3 DEF Dispatches, TypeOK, Things, Via
    <3>2. Head(F) \in Things /\ Via(Head(F), b)
      <4>1. F \in Seq(Lines)
        BY DEF TypeOK
      <4>2. Head(F) \in Lines
        BY <3>1, <4>1, TailElements
      <4> QED BY <4>2 DEF Things, Via, Lines, Writes
    <3> HIDE DEF w
    <3>3. \A z : /\ <<z, Head(F)>> \in Turn(b)' => <<z, w>> \in Turn(b)'
                 /\ <<Head(F), z>> \in Turn(b)' => <<w, z>> \in Turn(b)'
      <4> DEFINE e == Head(F)
      <4>1. e \in Things /\ Carried(w) = Carried(e) /\ Via(e, b)
        BY <3>1, <3>2
      <4> HIDE DEF e
      <4>2. \A z : /\ <<z, e>> \in Turn(b)' => <<z, w>> \in Turn(b)'
                   /\ <<e, z>> \in Turn(b)' => <<w, z>> \in Turn(b)'
        BY <3>1, <4>1 DEF Turn
      <4> QED BY <4>2 DEF e
    <3> HIDE DEF D, F, T
    <3>4. \A z : /\ <<z, Head(F)>> \in Q => <<z, w>> \in Q
                 /\ <<Head(F), z>> \in Q => <<w, z>> \in Q
      BY <3>3
    <3> HIDE DEF Q
    <3>5. InLine(Q, D, {}, F, T)
      BY <1>5, <2>1
    <3>6. InLine(Q, D, {w}, Tail(F), T)
      BY <1>2, <3>1, <3>4, <3>5, LineTaken
    <3> QED BY <2>1, <3>1, <3>6
  <2>4. CASE writing' # None /\ c # b
    <3> DEFINE w == writing'
    <3>1. /\ fromBackend'[b] = F /\ InHand' = {w}
          /\ w \in Writes /\ w \in Things /\ ~Via(w, b)
      BY <1>3, <1>11, <2>4 DEF Dispatches, TypeOK, Things, Via
    <3> HIDE DEF w
    <3>2. \A z \in Things : <<z, w>> \in Turn(b)' /\ <<w, z>> \in Turn(b)'
      BY <3>1 DEF Turn
    <3> HIDE DEF D, F, T
    <3>3. \A z \in Present : <<z, w>> \in Q /\ <<w, z>> \in Q
      BY <1>2, <3>2
    <3> HIDE DEF Q
    <3>4. InLine(Q, D, {}, F, T)
      BY <1>5, <2>1
    <3>5. InLine(Q, D, {w}, F, T)
      BY <3>3, <3>4, LineOther
    <3> QED BY <2>1, <3>1, <3>5
  <2> QED BY <2>2, <2>3, <2>4
<1>12. CASE Delivers
  <2>1. /\ InHand = {writing} /\ InHand' = {} /\ writing \in Things
        /\ delivered' = D \/ delivered' = Append(D, writing)
        /\ fromBackend'[b] = F /\ toBackend'[b] = T
    BY <1>2, <1>3, <1>12 DEF Delivers
  <2> HIDE DEF Q, D, F, T
  <2>2. InLine(Q, D, {}, F, T) /\ InLine(Q, Append(D, writing), {}, F, T)
    BY <1>2, <1>5, <2>1, LineWritten
  <2> QED BY <2>1, <2>2
<1>13. ASSUME NEW c \in Backends, PassesOn(c) PROVE FALSE
  BY <1>1, <1>13 DEF PassesOn, Bypassed
<1>14. ASSUME NEW h \in Conns, NEW e \in Letters, Posts(h, e)
       PROVE  InLine(Q, delivered', InHand', fromBackend'[b], toBackend'[b])
  <2>1. /\ delivered' = D /\ InHand' = InHand /\ fromBackend'[b] = F
        /\ UNCHANGED toBackend \/ \E c \in Backends : ToLink(c, e)
    BY <1>4, <1>14 DEF Posts, Lands, ToQueue, ToNobody
  <2>2. toBackend'[b] = T \/ toBackend'[b] = Append(T, e)
    <3>1. toBackend \in [Backends -> Seq(Events \cup Requests)]
      BY DEF TypeOK
    <3>2. CASE UNCHANGED toBackend
      BY <3>2
    <3>3. ASSUME NEW c \in Backends, ToLink(c, e)
          PROVE  toBackend'[b] = T \/ toBackend'[b] = Append(T, e)
      <4>1. toBackend' = [toBackend EXCEPT ![c] = Append(toBackend[c], e)]
        BY <3>3 DEF ToLink
      <4> QED BY <3>1, <4>1
    <3> QED BY <2>1, <3>2, <3>3
  <2>3. \A x \in Present : <<x, e>> \in Turn(b)'
    BY <1>2, <1>14, LastTurn, LineUttered
  <2> HIDE DEF D, F, T
  <2>4. AllBefore(Present, {e}, Q) /\ e \in Things
    BY <2>3 DEF AllBefore, Things
  <2> HIDE DEF Q
  <2>5. InLine(Q, D, InHand, F, Append(T, e))
    BY <1>2, <1>5, <2>4, LineSent
  <2> QED BY <1>5, <2>1, <2>2, <2>5
<1>15. ASSUME NEW c \in Backends, TakesQueue(c) \/ GivesBack(c)
       PROVE  /\ delivered' = D /\ writing' = writing
              /\ fromBackend'[b] = F /\ toBackend'[b] = T
  BY <1>15 DEF TakesQueue, GivesBack
<1>16. ASSUME NEW h \in Conns, NEW m \in Messages, Mutters(h, m)
       PROVE  /\ delivered' = D /\ writing' = writing
              /\ fromBackend'[b] = F /\ toBackend'[b] = T
  BY <1>16 DEF Mutters
<1>17. Rests => /\ delivered' = D /\ writing' = writing
                /\ fromBackend'[b] = F /\ toBackend'[b] = T
  BY DEF Rests
<1> QED
  BY <1>6, <1>7, <1>8, <1>9, <1>10, <1>11, <1>12, <1>13, <1>14, <1>15, <1>16,
     <1>17 DEF MailStep

-------------------------------------------------------------------------------
(***************************************************************************)
(* The inductive invariant and the theorems.                               *)
(***************************************************************************)
OrderInv ==
    SaidOnce /\ OnePlace /\ Told /\ Bypassed /\ Stories /\ Echoing
OInv == IInv /\ OrderInv

\* It holds at the start: there is nothing anywhere ...
LEMMA InitOInv == Init => OInv
<1> SUFFICES ASSUME Init PROVE OInv
  OBVIOUS
<1>1. IInv
  BY InitIInv
<1>2. SaidOnce
  BY EmptyElements DEF Init, SaidOnce, ToSet
<1>3. OnePlace
  <2>1. \A p \in Places : At(p) = <<>>
    <3> TAKE p \in Places
    <3>1. Hand = <<>> /\ messageQueue = <<>> /\ delivered = <<>>
      BY DEF Init, Hand
    <3>2. \A b \in Backends : /\ toBackend[b] = <<>> /\ batch[b] = <<>>
                             /\ fromBackend[b] = <<>>
      BY DEF Init
    <3>3. CASE \E b \in Backends : \/ p = <<"link", b>> \/ p = <<"batch", b>>
                                   \/ p = <<"back", b>>
      <4>1. PICK b \in Backends : \/ p = <<"link", b>> \/ p = <<"batch", b>>
                                  \/ p = <<"back", b>>
        BY <3>3
      <4>2. At(p) \in {toBackend[b], batch[b], fromBackend[b]}
        BY <4>1, AtPlaces
      <4> QED BY <3>2, <4>2
    <3>4. CASE \/ p = <<"queue", None>> \/ p = <<"hand", None>>
               \/ p = <<"socket", None>>
      <4>1. At(p) \in {messageQueue, Hand, delivered}
        BY <3>4, AtPlaces
      <4> QED BY <3>1, <4>1
    <3> QED BY <3>3, <3>4, PlaceNames
  <2> QED BY <2>1, SortedEmpty, EmptyElements DEF OnePlace, AllBefore
<1>4. Told
  <2>1. \A e : e \notin Mail
    BY MailIs, EmptyElements DEF Init
  <2> QED BY <2>1 DEF Told
<1>5. Bypassed
  BY DEF Init, Bypassed
<1>6. Stories
  <2>1. \A b \in Backends : received[b] = <<>> /\ toBackend[b] = <<>>
    BY DEF Init
  <2> QED BY <2>1, SortedEmpty, EmptyElements DEF Stories, AllBefore
<1>7. Echoing
  <2>1. \A b \in Backends : fromBackend[b] = <<>> /\ toBackend[b] = <<>>
    BY DEF Init
  <2>2. delivered = <<>> /\ InHand = {}
    BY EmptyElements DEF Init, InHand, Hand
  <2> QED BY <2>1, <2>2, SortedEmpty, EmptyElements
          DEF Echoing, InLine, AllBefore
<1> QED BY <1>1, <1>2, <1>3, <1>4, <1>5, <1>6, <1>7 DEF OInv, OrderInv

\* ... and every step keeps it.
LEMMA NextOInv == OInv /\ [Next]_vars => OInv'
<1> SUFFICES ASSUME OInv, [Next]_vars PROVE OInv'
  OBVIOUS
<1>1. IInv'
  BY NextIInv DEF OInv
<1>2. TypeOK /\ TypeOK' /\ Uttered /\ MailStep
  BY <1>1, MailSteps, AllUttered DEF OInv, IInv
<1>3. SaidOnce' /\ Bypassed'
  BY <1>2, WordsStay, StepBypassed DEF OInv, OrderInv
<1>4. OnePlace'
  BY <1>2, StepOnePlace DEF OInv, OrderInv
<1>5. Told'
  BY <1>2, StepTold DEF OInv, OrderInv
<1>6. Stories'
  BY <1>2, StepStories DEF OInv, OrderInv
<1>7. Echoing'
  BY <1>2, StepEchoing DEF OInv, OrderInv
<1> QED BY <1>1, <1>3, <1>4, <1>5, <1>6, <1>7 DEF OInv, OrderInv

(* The stronger invariant of the gateway: no message is in two places, no  *)
(* two letters about a client are out of order, and no two messages that   *)
(* one backend echoes, wherever they are.                                  *)
THEOREM OrderInvariant == Spec => []OrderInv
<1>1. OInv => OrderInv
  BY DEF OInv
<1> QED BY <1>1, InitOInv, NextOInv, PTL DEF Spec

\* What it says of the messages written.
LEMMA OnePlaceOnce == OInv => EchoedOnce
<1> SUFFICES ASSUME OInv,
                    NEW i \in DOMAIN delivered, NEW j \in DOMAIN delivered,
                    delivered[i].message = delivered[j].message
             PROVE  i = j
  BY DEF EchoedOnce
<1>1. Sorted(delivered, Apart)
  BY PlaceNames, AtPlaces DEF OInv, OrderInv, OnePlace
<1>2. delivered \in Seq(Writes)
  BY DEF OInv, IInv, TypeOK
<1>3. i \in Nat /\ j \in Nat
  BY <1>2
<1>4. \A k \in DOMAIN delivered : delivered[k] \in Writes
  BY <1>2
<1>5. ASSUME NEW k \in DOMAIN delivered, NEW l \in DOMAIN delivered, k < l,
             delivered[k].message = delivered[l].message
      PROVE  FALSE
  <2>1. Carried(delivered[k]) = Carried(delivered[l])
    BY <1>4, <1>5, CarriedIs
  <2>2. delivered[k].message \in Carried(delivered[k])
    BY <1>4, CarriedIs
  <2>3. <<delivered[k], delivered[l]>> \in Apart
    BY <1>1, <1>5 DEF Sorted
  <2> QED BY <2>1, <2>2, <2>3 DEF Apart
<1>6. i < j \/ j < i \/ i = j
  BY <1>3
<1> QED BY <1>5, <1>6

(* A message comes back at most once, whatever queues, flushes and         *)
(* backends it passes through, and however often these fail.               *)
THEOREM OnceOnly == Spec => []EchoedOnce
  BY OnePlaceOnce, InitOInv, NextOInv, PTL DEF Spec

\* What it says of the events read.
LEMMA TalesInOrder == OInv => StoriesInOrder
<1> SUFFICES ASSUME OInv, ~buffered, NEW b \in Backends,
                    NEW i \in DOMAIN received[b], NEW j \in DOMAIN received[b],
                    i < j, received[b][i].client = received[b][j].client,
                    {received[b][i].action, received[b][j].action}
                      \cap {"connection_request", "error"} = {}
             PROVE  Chapter(received[b][i]) < Chapter(received[b][j])
  BY DEF StoriesInOrder
<1> DEFINE e == received[b][i]
           f == received[b][j]
           S == said[e.client]
<1>1. e \in Mail /\ f \in Mail /\ e \in Letters /\ f \in Letters
  <2>1. e \in ToSet(received[b]) /\ f \in ToSet(received[b])
    BY DEF ToSet
  <2> QED BY <2>1, MailIs, MailTypes DEF OInv, IInv
<1>2. <<e, f>> \in Tale
  BY DEF OInv, OrderInv, Stories, Sorted
<1>3. Fits(e) /\ Fits(f)
  BY <1>1 DEF OInv, OrderInv, Told
<1>4. e.client \in Conns /\ f.client = e.client
  BY <1>1 DEF Letters, Events, Requests
<1>5. e.action \in Chapters /\ f.action \in Chapters
  BY <1>1 DEF Letters, Events, Requests, Chapters
<1>6. S \in Seq(Messages) /\ Len(S) \in Nat /\ DOMAIN S = 1..Len(S)
  BY <1>4 DEF OInv, IInv, TypeOK
<1> HIDE DEF e, f
<1>7. \A k, l \in DOMAIN S : S[k] = S[l] => k = l
  BY <1>4 DEF OInv, OrderInv, SaidOnce
<1>8. Follows(e, f)
  BY <1>2 DEF Tale
<1> HIDE DEF S
<1>9. ASSUME NEW g, g.client = e.client, g.action = "new_message",
             NEW k \in DOMAIN S, S[k] = g.message
      PROVE  Chapter(g) = k
  <2>1. Chapter(g) = CHOOSE n \in DOMAIN S : S[n] = g.message
    BY <1>9 DEF Chapter, S
  <2> QED BY <1>7, <1>9, <2>1
<1>10. ASSUME NEW g, g.client = e.client, g.action = "new_message", Fits(g)
       PROVE  Chapter(g) \in 1..Len(S)
  <2>1. PICK k \in DOMAIN S : S[k] = g.message
    BY <1>10 DEF Fits, Said, ToSet, S
  <2> QED BY <1>6, <1>9, <1>10, <2>1
<1>11. \A g : /\ g.action = "new_connection" => Chapter(g) = 0
              /\ g.action = "disconnected" /\ g.client = e.client
                   => Chapter(g) = Len(S) + 1
  BY DEF Chapter, S
<1>12. CASE e.action = "new_connection" /\ f.action # "new_connection"
  <2>1. Chapter(e) = 0
    BY <1>11, <1>12
  <2>2. CASE f.action = "new_message"
    BY <1>3, <1>4, <1>6, <1>10, <2>1, <2>2 DEF e, f
  <2>3. CASE f.action = "disconnected"
    BY <1>4, <1>6, <1>11, <2>1, <2>3 DEF e, f
  <2> QED BY <1>5, <1>12, <2>2, <2>3 DEF Chapters, e, f
<1>13. CASE e.action = "new_message" /\ f.action = "disconnected"
  <2>1. Chapter(e) \in 1..Len(S) /\ Chapter(f) = Len(S) + 1
    BY <1>3, <1>4, <1>10, <1>11, <1>13
  <2> QED BY <1>6, <2>1 DEF e, f
<1>14. CASE /\ e.action = "new_message" /\ f.action = "new_message"
            /\ Before(e.client, e.message, f.message)
  <2>1. PICK k, l \in DOMAIN S : k < l /\ S[k] = e.message /\ S[l] = f.message
    BY <1>14 DEF Before, S
  <2>2. Chapter(e) = k /\ Chapter(f) = l
    BY <1>4, <1>9, <1>14, <2>1
  <2> QED BY <2>1, <2>2 DEF e, f
<1> QED BY <1>4, <1>5, <1>8, <1>12, <1>13, <1>14 DEF Follows

(* Unless something has been queued, every backend reads of a client in    *)
(* the order in which it happened: its start, its messages one by one, its *)
(* end.                                                                    *)
THEOREM StoriesOrdered == Spec => []StoriesInOrder
  BY TalesInOrder, InitOInv, NextOInv, PTL DEF Spec

\* What it says of the order of the messages written.
LEMMA TurnsInOrder == OInv => EchoesInOrder
<1> SUFFICES ASSUME OInv, ~buffered,
                    NEW i \in DOMAIN delivered, NEW j \in DOMAIN delivered,
                    i < j, delivered[i].to = delivered[j].to,
                    delivered[i].via = delivered[j].via
             PROVE  \E m, n \in DOMAIN said[delivered[i].to] :
                       /\ said[delivered[i].to][m] = delivered[i].message
                       /\ said[delivered[i].to][n] = delivered[j].message
                       /\ m < n
  BY DEF EchoesInOrder
<1> DEFINE d == delivered[i]
           f == delivered[j]
<1>1. /\ d \in Writes /\ d \in ToSet(delivered)
      /\ f \in Writes /\ f \in ToSet(delivered)
  <2>1. delivered \in Seq(Writes)
    BY DEF OInv, IInv, TypeOK
  <2> QED BY <2>1 DEF ToSet
<1>2. <<d, f>> \in Turn(d.via)
  <2>1. d.via \in Backends
    BY <1>1 DEF Writes
  <2>2. Sorted(delivered, Turn(d.via))
    BY <2>1 DEF OInv, OrderInv, Echoing, InLine
  <2> HIDE DEF d
  <2>3. \A k, l \in DOMAIN delivered :
           k < l => <<delivered[k], delivered[l]>> \in Turn(d.via)
    BY <2>2 DEF Sorted
  <2> QED BY <2>3 DEF d
<1>3. /\ d.to \in Conns /\ f.to = d.to
      /\ Contains(said[d.to], d.message) /\ Contains(said[d.to], f.message)
  BY <1>1 DEF OInv, IInv, EchoInv, EchoToSender, Writes
<1>4. Said(d.to, d.message) /\ Said(d.to, f.message)
  <2>1. said[d.to] \in Seq(Messages)
    BY <1>3 DEF OInv, IInv, TypeOK
  <2> QED BY <1>3, <2>1, ElementTypes DEF Said
<1>5. Via(d, d.via) /\ Via(f, d.via)
  BY DEF Via
<1>6. Carried(d) = {d.message} /\ Carried(f) = {f.message}
  BY <1>1, CarriedIs
<1> HIDE DEF d, f
<1>7. InTurn(d.message, f.message)
  BY <1>2, <1>5, <1>6 DEF Turn
<1>8. Before(d.to, d.message, f.message)
  BY <1>3, <1>4, <1>7 DEF InTurn
<1> QED BY <1>8 DEF Before, d, f

(* Unless something has been queued, what a client said through one        *)
(* backend comes back in the order in which the client said it.            *)
THEOREM EchoesOrdered == Spec => []EchoesInOrder
  BY TurnsInOrder, InitOInv, NextOInv, PTL DEF Spec
===============================================================================
