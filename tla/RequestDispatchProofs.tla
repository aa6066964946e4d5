------------------------- MODULE RequestDispatchProofs -------------------------
(***************************************************************************)
(* Theorems about RequestDispatch, for every set of connections and        *)
(* requests, every size of the channel and any number of answers.          *)
(***************************************************************************)
EXTENDS RequestDispatch, TLAPS

(***************************************************************************)
(* Type correctness is inductive once a reader that is about to push is    *)
(* known to hold a line.                                                   *)
(***************************************************************************)
ReaderHasLine == \A c \in Conns : reader[c] = "pushing" => line[c] \in Lines

TInv == TypeOK /\ ReaderHasLine

(* The invariant holds initially.                                          *)
LEMMA InitTInv == Init => TInv
<1> SUFFICES ASSUME Init PROVE TInv
  OBVIOUS
<1> USE DEF Init
<1>1. <<>> \in Seq(Lines) /\ Len(<<>>) <= ChannelSize
  BY ChannelSizeAssumption
<1>2. TypeOK
  BY <1>1 DEF TypeOK, CallStates
<1> QED BY <1>2 DEF TInv, ReaderHasLine

(* The steps of NewSocketConnection preserve it.                           *)
LEMMA CallTInv ==
  ASSUME TInv, NEW r \in Requests, NewSocketConnection(r)
  PROVE  TInv'
<1> USE DEF TInv, TypeOK, CallStates
<1>1. UNCHANGED <<readVars, PendingServerRequests, dispatchVars, done>>
  BY DEF NewSocketConnection, CallStarts, RequestSent, SendReturns, SendFails,
         ReceiveResponse, CallReturns
<1>2. ReaderHasLine'
  BY <1>1 DEF ReaderHasLine, readVars
<1>3. CASE CallStarts(r)
  BY <1>1, <1>2, <1>3 DEF CallStarts, readVars, dispatchVars
<1>4. CASE \E c \in Conns : RequestSent(r, c)
  BY <1>1, <1>2, <1>4 DEF RequestSent, readVars, dispatchVars
<1>5. CASE SendReturns(r)
  BY <1>1, <1>2, <1>5 DEF SendReturns, readVars, dispatchVars
<1>6. CASE SendFails(r)
  BY <1>1, <1>2, <1>6 DEF SendFails, readVars, dispatchVars
<1>7. CASE ReceiveResponse(r)
  <2>1. responseCh' \in [Requests -> {0, 1}]
    BY <1>7 DEF ReceiveResponse
  <2> QED BY <1>1, <1>2, <1>7, <2>1 DEF ReceiveResponse, readVars, dispatchVars
<1>8. CASE CallReturns(r)
  BY <1>1, <1>2, <1>8 DEF CallReturns, readVars, dispatchVars
<1> QED BY <1>3, <1>4, <1>5, <1>6, <1>7, <1>8 DEF NewSocketConnection

(* The steps of a reader preserve it.                                      *)
LEMMA ReaderTInv ==
  ASSUME TInv, NEW c \in Conns, HandleConnection(c)
  PROVE  TInv'
<1> USE DEF TInv
<1>1. UNCHANGED <<callVars, responseCh, dispatchVars, done>>
  BY DEF HandleConnection, ReadLine, PushLine, ReaderReturns
<1>2. ASSUME NEW what \in Requests \cup {Command}, ReadLine(c, what)
      PROVE  TInv'
  <2> DEFINE l == [conn |-> c, nr |-> linesRead[c] + 1, what |-> what]
  <2>1. linesRead[c] + 1 \in Nat
    BY DEF TypeOK
  <2>2. l \in Lines
    BY <2>1 DEF Lines
  <2>3. /\ reader' = [reader EXCEPT ![c] = "pushing"]
        /\ line' = [line EXCEPT ![c] = l]
        /\ linesRead' = [linesRead EXCEPT ![c] = @ + 1]
        /\ UNCHANGED PendingServerRequests
    BY <1>2 DEF ReadLine
  <2>4. answers' \in [Requests -> Nat]
    BY <1>2 DEF ReadLine, TypeOK
  <2> HIDE DEF l
  <2>5. ReaderHasLine'
    BY <2>2, <2>3 DEF ReaderHasLine, TypeOK
  <2>6. TypeOK'
    BY <1>1, <2>1, <2>2, <2>3, <2>4 DEF TypeOK, callVars, dispatchVars
  <2> QED BY <2>5, <2>6
<1>3. CASE PushLine(c)
  <2>1. line[c] \in Lines
    BY <1>3 DEF PushLine, ReaderHasLine
  <2>2. /\ PendingServerRequests' \in Seq(Lines)
        /\ Len(PendingServerRequests') <= ChannelSize
    BY <1>3, <2>1, ChannelSizeAssumption DEF PushLine, TypeOK
  <2>3. /\ reader' = [reader EXCEPT ![c] = "reading"]
        /\ line' = [line EXCEPT ![c] = Nothing]
        /\ UNCHANGED <<linesRead, answers>>
    BY <1>3 DEF PushLine
  <2>4. TypeOK'
    BY <1>1, <2>2, <2>3 DEF TypeOK, callVars, dispatchVars
  <2> QED BY <2>3, <2>4 DEF ReaderHasLine, TypeOK
<1>4. CASE ReaderReturns(c)
  <2>1. /\ reader' = [reader EXCEPT ![c] = "gone"]
        /\ line' = [line EXCEPT ![c] = Nothing]
        /\ UNCHANGED <<linesRead, answers, PendingServerRequests>>
    BY <1>4 DEF ReaderReturns
  <2>2. TypeOK'
    BY <1>1, <2>1 DEF TypeOK, callVars, dispatchVars
  <2> QED BY <2>1, <2>2 DEF ReaderHasLine, TypeOK
<1> QED BY <1>2, <1>3, <1>4 DEF HandleConnection

(* The steps of the dispatcher preserve it.                                *)
LEMMA DispatcherTInv ==
  ASSUME TInv, HandleRequests
  PROVE  TInv'
<1> USE DEF TInv
<1>1. UNCHANGED <<callVars, readVars, done>>
  BY DEF HandleRequests, TakeLine, LookupFinds, LookupFindsNothing,
         SendResponse, ActionReturns, DispatcherExits
<1>2. ReaderHasLine'
  BY <1>1 DEF ReaderHasLine, readVars
<1>3. ASSUME Handled PROVE linesHandled' \in [Conns -> Nat]
  <2> DEFINE c == current.conn
  <2>1. linesHandled' = [linesHandled EXCEPT ![c] = linesHandled[c] + 1]
    BY <1>3 DEF Handled
  <2> HIDE DEF c
  <2>2. linesHandled \in [Conns -> Nat]
    BY DEF TypeOK
  <2>3. \A d \in Conns : linesHandled'[d] \in Nat
    BY <2>1, <2>2
  <2> QED BY <2>1, <2>2, <2>3
<1>4. CASE TakeLine
  <2>1. /\ current' \in Lines
        /\ PendingServerRequests' \in Seq(Lines)
        /\ Len(PendingServerRequests') <= ChannelSize
    BY <1>4, ChannelSizeAssumption DEF TakeLine, TypeOK
  <2> QED BY <1>1, <1>2, <1>4, <2>1 DEF TakeLine, TypeOK, callVars, readVars
<1>5. CASE LookupFinds
  BY <1>1, <1>2, <1>5 DEF LookupFinds, TypeOK, callVars, readVars
<1>6. CASE LookupFindsNothing \/ ActionReturns
  BY <1>1, <1>2, <1>3, <1>6
     DEF LookupFindsNothing, ActionReturns, Handled, TypeOK, callVars, readVars
<1>7. CASE SendResponse
  <2> DEFINE r == current.what
  <2>1. /\ responseCh[r] < 1
        /\ responseCh' = [responseCh EXCEPT ![r] = responseCh[r] + 1]
    BY <1>7 DEF SendResponse, HasRoom
  <2> HIDE DEF r
  <2>2. \A q \in Requests : responseCh'[q] \in {0, 1}
    <3> SUFFICES ASSUME NEW q \in Requests PROVE responseCh'[q] \in {0, 1}
      OBVIOUS
    <3>1. responseCh \in [Requests -> {0, 1}]
      BY DEF TypeOK
    <3>2. CASE q = r
      <4>1. responseCh[r] = 0
        BY <2>1, <3>1, <3>2
      <4> QED BY <2>1, <3>1, <3>2, <4>1
    <3>3. CASE q # r
      BY <2>1, <3>1, <3>3
    <3> QED BY <3>2, <3>3
  <2>3. responseCh' \in [Requests -> {0, 1}]
    BY <2>1, <2>2 DEF TypeOK
  <2> QED BY <1>1, <1>2, <1>3, <1>7, <2>3
          DEF SendResponse, Handled, TypeOK, callVars, readVars
<1>8. CASE DispatcherExits
  BY <1>1, <1>2, <1>8 DEF DispatcherExits, TypeOK, callVars, readVars
<1> QED BY <1>4, <1>5, <1>6, <1>7, <1>8 DEF HandleRequests

(* Every step preserves it.                                                *)
LEMMA NextTInv == TInv /\ [Next]_vars => TInv'
<1> SUFFICES ASSUME TInv, [Next]_vars PROVE TInv'
  OBVIOUS
<1>1. CASE \E r \in Requests : NewSocketConnection(r)
  BY <1>1, CallTInv
<1>2. CASE \E c \in Conns : HandleConnection(c)
  BY <1>2, ReaderTInv
<1>3. CASE HandleRequests
  BY <1>3, DispatcherTInv
<1>4. CASE Stop
  BY <1>4 DEF Stop, TInv, TypeOK, ReaderHasLine, callVars, readVars, dispatchVars
<1>5. CASE UNCHANGED vars
  BY <1>5 DEF vars, TInv, TypeOK, ReaderHasLine, callVars, readVars, dispatchVars
<1> QED BY <1>1, <1>2, <1>3, <1>4, <1>5 DEF Next

(* TInv is an invariant of the specification.                              *)
LEMMA TInvInvariant == Spec => []TInv
BY InitTInv, NextTInv, PTL DEF Spec

(* Type correctness: the channel never holds more than its capacity, a     *)
(* response channel never more than one response.                          *)
THEOREM TypeCorrect == Spec => []TypeOK
<1>1. TInv => TypeOK
  BY DEF TInv
<1> QED BY <1>1, TInvInvariant, PTL

-------------------------------------------------------------------------------
(* Every step keeps the registrations equal to the calls in progress.      *)
LEMMA NextRegistered ==
  TInv /\ RegisteredWhileCalling /\ [Next]_vars => RegisteredWhileCalling'
<1> SUFFICES ASSUME TInv, RegisteredWhileCalling, [Next]_vars
             PROVE  RegisteredWhileCalling'
  OBVIOUS
<1> USE DEF RegisteredWhileCalling
<1>1. ASSUME NEW r \in Requests, NewSocketConnection(r)
      PROVE  RegisteredWhileCalling'
  <2>1. call \in [Requests -> CallStates]
    BY DEF TInv, TypeOK
  <2>2. CASE CallStarts(r)
    BY <2>1, <2>2 DEF CallStarts
  <2>3. CASE \E c \in Conns : RequestSent(r, c)
    BY <2>3 DEF RequestSent
  <2>4. CASE SendReturns(r)
    BY <2>1, <2>4 DEF SendReturns
  <2>5. CASE SendFails(r)
    BY <2>1, <2>5 DEF SendFails
  <2>6. CASE ReceiveResponse(r)
    BY <2>1, <2>6 DEF ReceiveResponse
  <2>7. CASE CallReturns(r)
    BY <2>1, <2>7 DEF CallReturns
  <2> QED BY <1>1, <2>2, <2>3, <2>4, <2>5, <2>6, <2>7 DEF NewSocketConnection
<1>2. CASE \E c \in Conns : HandleConnection(c)
  BY <1>2 DEF HandleConnection, ReadLine, PushLine, ReaderReturns, callVars
<1>3. CASE HandleRequests
  BY <1>3 DEF HandleRequests, TakeLine, LookupFinds, LookupFindsNothing,
              SendResponse, ActionReturns, DispatcherExits, callVars
<1>4. CASE Stop \/ UNCHANGED vars
  BY <1>4 DEF Stop, vars, callVars
<1> QED BY <1>1, <1>2, <1>3, <1>4 DEF Next

(* A response channel is registered exactly while its call is in progress, *)
(* however many calls, answers and failures interleave.                    *)
THEOREM RegistrationsMatchCalls == Spec => []RegisteredWhileCalling
<1>1. Init => RegisteredWhileCalling
  BY DEF Init, RegisteredWhileCalling
<1> QED BY <1>1, TInvInvariant, NextRegistered, PTL DEF Spec

-------------------------------------------------------------------------------
(***************************************************************************)
(* The order of the lines, place by place.  The line being handled is the  *)
(* next in number; those in the channel are numbered upwards, after it and *)
(* before the one the reader holds, which is the newest; nothing read is   *)
(* missing but what a reader gave up because of Stop.                      *)
(***************************************************************************)
Channel == PendingServerRequests
ReaderHolds ==
    \A c \in Conns :
       /\ reader[c] # "pushing" => line[c] = Nothing
       /\ linesHandled[c] <= linesRead[c]
       /\ line[c] # Nothing => /\ line[c].conn = c /\ line[c].nr = linesRead[c]
                               /\ linesHandled[c] < linesRead[c]
CurrentIsNext ==
    /\ dispatcher \in {"select", "exited"} <=> current = Nothing
    /\ current # Nothing =>
         /\ current.nr = linesHandled[current.conn] + 1
         /\ current.nr <= linesRead[current.conn]
         /\ line[current.conn] # Nothing => current.nr < linesRead[current.conn]
ChannelInOrder ==
    /\ \A i, j \in 1..Len(Channel) :
          i < j /\ Channel[i].conn = Channel[j].conn
            => Channel[i].nr < Channel[j].nr
    /\ \A i \in 1..Len(Channel) :
          LET l == Channel[i]
          IN /\ linesHandled[l.conn] < l.nr /\ l.nr <= linesRead[l.conn]
             /\ current # Nothing /\ current.conn = l.conn => current.nr < l.nr
             /\ line[l.conn] # Nothing => l.nr < linesRead[l.conn]
InChannelAt(c, n) ==
    \E i \in 1..Len(Channel) : Channel[i].conn = c /\ Channel[i].nr = n
Somewhere(c, n) ==
    \/ current # Nothing /\ current.conn = c /\ current.nr = n
    \/ InChannelAt(c, n)
    \/ line[c] # Nothing /\ n = linesRead[c]
    \/ done /\ reader[c] = "gone" /\ n = linesRead[c]
NoneMissing ==
    \A c \in Conns : \A n \in Nat :
       linesHandled[c] < n /\ n <= linesRead[c] => Somewhere(c, n)

OInv == ReaderHolds /\ CurrentIsNext /\ ChannelInOrder /\ NoneMissing

(* What the types say of the lines there are.                              *)
LEMMA LineTypes ==
  ASSUME TInv
  PROVE  /\ Len(Channel) \in Nat
         /\ \A i \in 1..Len(Channel) : Channel[i] \in Lines
         /\ \A l \in Lines : l.conn \in Conns /\ l.nr \in Nat
         /\ Nothing \notin Lines
         /\ linesRead \in [Conns -> Nat] /\ linesHandled \in [Conns -> Nat]
         /\ line \in [Conns -> Lines \cup {Nothing}]
         /\ current \in Lines \cup {Nothing}
<1>1. Channel \in Seq(Lines)
  BY DEF TInv, TypeOK, Channel
<1>2. \A l \in Lines : l.conn \in Conns /\ l.nr \in Nat
  BY DEF Lines
<1> QED BY <1>1, <1>2, DistinctAssumption DEF TInv, TypeOK

(* The places of the line-up.                                              *)
LEMMA UnderWayPlaces ==
  ASSUME TInv, NEW c \in Conns
  PROVE  LET k == Len(Channel)
         IN /\ DOMAIN UnderWay(c) = 1..(k + 2)
            /\ UnderWay(c)[1] = current
            /\ \A i \in 1..k : UnderWay(c)[i + 1] = Channel[i]
            /\ UnderWay(c)[k + 2] = line[c]
<1> DEFINE S == Lines \cup {Nothing}
<1>1. <<current>> \in Seq(S) /\ Channel \in Seq(S) /\ <<line[c]>> \in Seq(S)
  <2>1. Channel \in Seq(Lines)
    BY DEF TInv, TypeOK, Channel
  <2>2. Channel \in Seq(S)
    BY <2>1
  <2> QED BY <2>2, LineTypes
<1> HIDE DEF S
<1>2. /\ <<current>> \o Channel \in Seq(S)
      /\ Len(<<current>> \o Channel) = Len(Channel) + 1
      /\ (<<current>> \o Channel)[1] = current
      /\ \A i \in 1..Len(Channel) : (<<current>> \o Channel)[i + 1] = Channel[i]
  BY <1>1
<1> QED BY <1>1, <1>2 DEF UnderWay, Channel

(* The invariant says in places what LinesInOrder says of the line-up.     *)
LEMMA OInvLinesInOrder == TInv /\ OInv => LinesInOrder
<1> SUFFICES ASSUME TInv, OInv PROVE LinesInOrder
  OBVIOUS
<1> USE LineTypes DEF Channel
<1> SUFFICES ASSUME NEW c \in Conns
             PROVE  /\ \A i, j \in DOMAIN UnderWay(c) :
                          i < j /\ Comes(c, i) /\ Comes(c, j)
                            => UnderWay(c)[i].nr < UnderWay(c)[j].nr
                    /\ \A i \in DOMAIN UnderWay(c) :
                          Comes(c, i) => UnderWay(c)[i].nr \in ToHandle(c)
                    /\ \A n \in ToHandle(c) :
                          \/ \E i \in DOMAIN UnderWay(c) :
                                Comes(c, i) /\ UnderWay(c)[i].nr = n
                          \/ done /\ reader[c] = "gone" /\ n = linesRead[c]
  BY DEF LinesInOrder
<1> DEFINE k == Len(Channel)
<1>1. /\ DOMAIN UnderWay(c) = 1..(k + 2)
      /\ UnderWay(c)[1] = current
      /\ \A i \in 1..k : UnderWay(c)[i + 1] = Channel[i]
      /\ UnderWay(c)[k + 2] = line[c]
  BY UnderWayPlaces
<1>2. \A i \in 1..(k + 2) : i = 1 \/ i = k + 2 \/ (i - 1 \in 1..k /\ i # 1)
  OBVIOUS
<1>3. \A i \in 1..k : Comes(c, i + 1) <=> Channel[i].conn = c
  BY <1>1 DEF Comes
<1>4. Comes(c, 1) => /\ current # Nothing /\ current.conn = c
                     /\ current.nr = linesHandled[c] + 1
                     /\ current.nr <= linesRead[c]
  BY <1>1 DEF Comes, OInv, CurrentIsNext
<1>5. Comes(c, k + 2) => /\ line[c] # Nothing /\ line[c].nr = linesRead[c]
                         /\ linesHandled[c] < linesRead[c]
  BY <1>1 DEF Comes, OInv, ReaderHolds
<1>6. ASSUME NEW i \in 1..k, Channel[i].conn = c
      PROVE  /\ Channel[i].nr \in Nat
             /\ linesHandled[c] < Channel[i].nr /\ Channel[i].nr <= linesRead[c]
             /\ Comes(c, 1) => current.nr < Channel[i].nr
             /\ Comes(c, k + 2) => Channel[i].nr < line[c].nr
  BY <1>4, <1>5, <1>6 DEF OInv, ChannelInOrder
<1> HIDE DEF k
<1>7. ASSUME NEW i \in 1..(k + 2), NEW j \in 1..(k + 2), i < j,
             Comes(c, i), Comes(c, j)
      PROVE  UnderWay(c)[i].nr < UnderWay(c)[j].nr
  <2>1. CASE i = 1 /\ j = k + 2
    BY <1>1, <1>4, <1>5, <1>7, <2>1 DEF OInv, CurrentIsNext
  <2>2. CASE i = 1 /\ j # k + 2
    BY <1>1, <1>2, <1>3, <1>6, <1>7, <2>2
  <2>3. CASE i # 1 /\ j = k + 2
    <3>1. /\ i - 1 \in 1..k /\ Channel[i - 1].conn = c
          /\ UnderWay(c)[i] = Channel[i - 1] /\ UnderWay(c)[j] = line[c]
      BY <1>1, <1>2, <1>3, <1>7, <2>3 DEF k
    <3> QED BY <1>6, <1>7, <2>3, <3>1
  <2>4. CASE i # 1 /\ j # k + 2
    <3>1. /\ i - 1 \in 1..k /\ j - 1 \in 1..k /\ i - 1 < j - 1
          /\ Channel[i - 1].conn = c /\ Channel[j - 1].conn = c
          /\ UnderWay(c)[i] = Channel[i - 1] /\ UnderWay(c)[j] = Channel[j - 1]
      BY <1>1, <1>2, <1>3, <1>7, <2>4 DEF k
    <3> QED BY <3>1 DEF OInv, ChannelInOrder, k
  <2> QED BY <2>1, <2>2, <2>3, <2>4
<1>8. ASSUME NEW i \in 1..(k + 2), Comes(c, i)
      PROVE  UnderWay(c)[i].nr \in ToHandle(c)
  <2>1. CASE i = 1
    BY <1>1, <1>4, <1>8, <2>1 DEF ToHandle
  <2>2. CASE i = k + 2
    BY <1>1, <1>5, <1>8, <2>2 DEF ToHandle
  <2>3. CASE i # 1 /\ i # k + 2
    BY <1>1, <1>2, <1>3, <1>6, <1>8, <2>3 DEF ToHandle
  <2> QED BY <2>1, <2>2, <2>3
<1>9. ASSUME NEW n \in ToHandle(c)
      PROVE  \/ \E i \in 1..(k + 2) : Comes(c, i) /\ UnderWay(c)[i].nr = n
             \/ done /\ reader[c] = "gone" /\ n = linesRead[c]
  <2>1. Somewhere(c, n)
    BY DEF ToHandle, OInv, NoneMissing
  <2>2. k \in Nat
    BY DEF k
  <2>3. CASE current # Nothing /\ current.conn = c /\ current.nr = n
    BY <1>1, <2>2, <2>3 DEF Comes
  <2>4. CASE InChannelAt(c, n)
    <3>1. PICK i \in 1..k : Channel[i].conn = c /\ Channel[i].nr = n
      BY <2>4 DEF InChannelAt, k
    <3>2. i + 1 \in 1..(k + 2) /\ Comes(c, i + 1) /\ UnderWay(c)[i + 1].nr = n
      BY <1>1, <1>3, <2>2, <3>1
    <3> QED BY <3>2
  <2>5. CASE line[c] # Nothing /\ n = linesRead[c]
    <3>1. k + 2 \in 1..(k + 2) /\ Comes(c, k + 2) /\ UnderWay(c)[k + 2].nr = n
      BY <1>1, <2>2, <2>5 DEF Comes, OInv, ReaderHolds
    <3> QED BY <3>1
  <2> QED BY <2>1, <2>3, <2>4, <2>5 DEF Somewhere
<1> QED BY <1>1, <1>7, <1>8, <1>9

(* A step that leaves the lines where they are.                            *)
LEMMA NoLineMoves ==
  ASSUME OInv, UNCHANGED <<reader, line, linesRead, PendingServerRequests,
                           linesHandled, current>>,
         done => done',
         dispatcher' \in {"select", "exited"} <=> dispatcher \in {"select", "exited"}
  PROVE  OInv'
BY DEF OInv, ReaderHolds, CurrentIsNext, ChannelInOrder, NoneMissing, Somewhere,
       InChannelAt, Channel

(* A reader takes a new line, pushes the one it holds, or leaves.          *)
LEMMA ReaderOInv ==
  ASSUME TInv, OInv, NEW c \in Conns, HandleConnection(c)
  PROVE  OInv'
<1> USE LineTypes DEF OInv, Channel
<1>1. UNCHANGED <<dispatcher, current, linesHandled, done>>
  BY DEF HandleConnection, ReadLine, PushLine, ReaderReturns, dispatchVars
<1>2. reader \in [Conns -> {"reading", "pushing", "gone"}]
  BY DEF TInv, TypeOK
<1>3. ASSUME NEW what \in Requests \cup {Command}, ReadLine(c, what)
      PROVE  OInv'
  <2>1. /\ reader[c] = "reading" /\ line[c] = Nothing
        /\ reader' = [reader EXCEPT ![c] = "pushing"]
        /\ linesRead' = [linesRead EXCEPT ![c] = linesRead[c] + 1]
        /\ UNCHANGED PendingServerRequests
        /\ \A d \in Conns : d # c => line'[d] = line[d]
        /\ line'[c].conn = c /\ line'[c].nr = linesRead[c] + 1
        /\ line'[c] \in Lines
    BY <1>3 DEF ReadLine, ReaderHolds, Lines
  <2>2. ReaderHolds'
    BY <1>1, <1>2, <2>1 DEF ReaderHolds
  <2>3. CurrentIsNext'
    BY <1>1, <2>1 DEF CurrentIsNext
  <2>4. ChannelInOrder'
    BY <1>1, <2>1 DEF ChannelInOrder
  <2>5. NoneMissing'
    <3> SUFFICES ASSUME NEW d \in Conns, NEW n \in Nat,
                        linesHandled'[d] < n, n <= linesRead'[d]
                 PROVE  Somewhere(d, n)'
      BY DEF NoneMissing
    <3>1. CASE d = c /\ n = linesRead[c] + 1
      BY <2>1, <3>1 DEF Somewhere
    <3>2. CASE n <= linesRead[d]
      <4>1. Somewhere(d, n)
        BY <1>1, <3>2 DEF NoneMissing
      <4>2. InChannelAt(d, n)' <=> InChannelAt(d, n)
        BY <2>1 DEF InChannelAt
      <4>3. d = c => ~(line[c] # Nothing \/ reader[c] = "gone")
        BY <2>1
      <4>4. d # c => UNCHANGED <<line[d], reader[d], linesRead[d]>>
        BY <1>2, <2>1
      <4> QED BY <1>1, <4>1, <4>2, <4>3, <4>4 DEF Somewhere
    <3> QED BY <2>1, <3>1, <3>2
  <2> QED BY <2>2, <2>3, <2>4, <2>5
<1>4. CASE PushLine(c)
  <2>1. /\ reader[c] = "pushing" /\ line[c] \in Lines
        /\ line[c].conn = c /\ line[c].nr = linesRead[c]
        /\ UNCHANGED linesRead
        /\ reader' = [reader EXCEPT ![c] = "reading"]
        /\ line' = [line EXCEPT ![c] = Nothing]
    BY <1>4 DEF PushLine, ReaderHolds, TInv, ReaderHasLine
  <2>2. /\ Len(Channel') = Len(Channel) + 1
        /\ \A i \in 1..Len(Channel) : Channel'[i] = Channel[i]
        /\ Channel'[Len(Channel) + 1] = line[c]
    BY <1>4, <2>1 DEF PushLine, TInv, TypeOK
  <2>3. ReaderHolds'
    BY <1>1, <1>2, <2>1 DEF ReaderHolds
  <2>4. CurrentIsNext'
    BY <1>1, <2>1 DEF CurrentIsNext
  <2>5. ChannelInOrder'
    <3>0. linesHandled[c] < linesRead[c]
      BY <2>1, LineTypes DEF ReaderHolds
    <3> DEFINE k == Len(Channel) + 1
    <3>1. /\ \A i \in 1..k : i \in 1..Len(Channel) \/ i = k
          /\ 1..Len(Channel') = 1..k
      BY <2>2
    <3>2. ASSUME NEW i \in 1..k, NEW j \in 1..k, i < j,
                 Channel'[i].conn = Channel'[j].conn
          PROVE  Channel'[i].nr < Channel'[j].nr
      <4>1. i \in 1..Len(Channel) /\ Channel'[i] = Channel[i]
        BY <2>2, <3>1, <3>2
      <4>2. CASE j = k
        BY <2>1, <2>2, <3>2, <4>1, <4>2 DEF ChannelInOrder
      <4>3. CASE j \in 1..Len(Channel)
        BY <2>2, <3>2, <4>1, <4>3 DEF ChannelInOrder
      <4> QED BY <3>1, <4>2, <4>3
    <3>3. ASSUME NEW i \in 1..k
          PROVE  LET l == Channel'[i]
                 IN /\ linesHandled'[l.conn] < l.nr
                    /\ l.nr <= linesRead'[l.conn]
                    /\ current' # Nothing /\ current'.conn = l.conn
                         => current'.nr < l.nr
                    /\ line'[l.conn] # Nothing => l.nr < linesRead'[l.conn]
      <4>1. CASE i = k
        BY <1>1, <2>1, <2>2, <3>0, <4>1 DEF CurrentIsNext
      <4>2. CASE i \in 1..Len(Channel)
        BY <1>1, <2>1, <2>2, <4>2 DEF ChannelInOrder
      <4> QED BY <3>1, <4>1, <4>2
    <3> HIDE DEF k
    <3> QED BY <3>1, <3>2, <3>3 DEF ChannelInOrder
  <2>6. NoneMissing'
    <3> SUFFICES ASSUME NEW d \in Conns, NEW n \in Nat,
                        linesHandled'[d] < n, n <= linesRead'[d]
                 PROVE  Somewhere(d, n)'
      BY DEF NoneMissing
    <3>1. Somewhere(d, n)
      BY <1>1, <2>1 DEF NoneMissing
    <3>2. InChannelAt(d, n) => InChannelAt(d, n)'
      BY <2>2 DEF InChannelAt
    <3>3. InChannelAt(c, linesRead[c])'
      <4> DEFINE k == Len(Channel) + 1
      <4>1. k \in 1..Len(Channel')
        BY <2>2, LineTypes
      <4>2. Channel'[k].conn = c /\ Channel'[k].nr = linesRead'[c]
        BY <2>1, <2>2
      <4> HIDE DEF k
      <4> QED BY <4>1, <4>2 DEF InChannelAt
    <3>4. d # c => UNCHANGED <<line[d], reader[d], linesRead[d]>>
      BY <1>2, <2>1
    <3>5. CASE d = c
      BY <1>1, <2>1, <3>1, <3>2, <3>3, <3>5 DEF Somewhere
    <3>6. CASE d # c
      BY <1>1, <2>1, <3>1, <3>2, <3>4, <3>6 DEF Somewhere
    <3> QED BY <3>5, <3>6
  <2> QED BY <2>3, <2>4, <2>5, <2>6
<1>5. CASE ReaderReturns(c)
  <2>1. /\ UNCHANGED <<linesRead, PendingServerRequests>>
        /\ reader[c] = "reading" \/ (reader[c] = "pushing" /\ done)
        /\ reader' = [reader EXCEPT ![c] = "gone"]
        /\ line' = [line EXCEPT ![c] = Nothing]
    BY <1>5 DEF ReaderReturns
  <2>2. ReaderHolds'
    BY <1>1, <1>2, <2>1 DEF ReaderHolds
  <2>3. CurrentIsNext'
    BY <1>1, <2>1 DEF CurrentIsNext
  <2>4. ChannelInOrder'
    BY <1>1, <2>1 DEF ChannelInOrder
  <2>5. NoneMissing'
    <3> SUFFICES ASSUME NEW d \in Conns, NEW n \in Nat,
                        linesHandled'[d] < n, n <= linesRead'[d]
                 PROVE  Somewhere(d, n)'
      BY DEF NoneMissing
    <3>1. Somewhere(d, n)
      BY <1>1, <2>1 DEF NoneMissing
    <3>2. InChannelAt(d, n)' <=> InChannelAt(d, n)
      BY <2>1 DEF InChannelAt
    <3>3. d = c /\ line[c] # Nothing => done /\ reader'[c] = "gone"
      BY <1>1, <1>2, <2>1 DEF ReaderHolds
    <3>4. d # c => UNCHANGED <<line[d], reader[d], linesRead[d]>>
      BY <1>2, <2>1
    <3> QED BY <1>1, <1>2, <2>1, <3>1, <3>2, <3>3, <3>4 DEF Somewhere
  <2> QED BY <2>2, <2>3, <2>4, <2>5
<1> QED BY <1>3, <1>4, <1>5 DEF HandleConnection

(* The dispatcher takes the first line of the channel.                     *)
LEMMA TakeLineOInv ==
  ASSUME TInv, OInv, TakeLine
  PROVE  OInv'
<1> USE LineTypes DEF OInv, Channel
<1>1. /\ current = Nothing /\ current' # Nothing
      /\ dispatcher' \notin {"select", "exited"}
      /\ Len(Channel) > 0
      /\ current' = Channel[1] /\ Channel[1] \in Lines
      /\ Len(Channel') = Len(Channel) - 1
      /\ \A i \in 1..Len(Channel') : Channel'[i] = Channel[i + 1]
      /\ UNCHANGED <<linesHandled, reader, line, linesRead, done>>
  BY DEF TakeLine, CurrentIsNext, TInv, TypeOK, readVars
<1>2. /\ current'.conn \in Conns /\ current'.nr \in Nat
      /\ current'.nr = linesHandled[current'.conn] + 1
  <2> DEFINE c == Channel[1].conn
             n == linesHandled[c] + 1
  <2>1. c \in Conns /\ n \in Nat
    BY <1>1
  <2>2. n <= Channel[1].nr /\ Channel[1].nr <= linesRead[c]
    BY <1>1, <2>1 DEF ChannelInOrder
  <2>3. line[c] # Nothing => Channel[1].nr < linesRead[c]
    BY <1>1, <2>1 DEF ChannelInOrder
  <2>4. \A i \in 1..Len(Channel) :
           i # 1 /\ Channel[i].conn = c => Channel[1].nr < Channel[i].nr
    BY <1>1, <2>1 DEF ChannelInOrder
  <2>5. linesHandled[c] < n
    BY <2>1
  <2> HIDE DEF n
  <2>6. n = Channel[1].nr
    <3>1. Somewhere(c, n)
      BY <1>1, <2>1, <2>2, <2>5 DEF NoneMissing
    <3>2. CASE InChannelAt(c, n)
      <4>1. PICK i \in 1..Len(Channel) : Channel[i].conn = c /\ Channel[i].nr = n
        BY <3>2 DEF InChannelAt
      <4> QED BY <1>1, <2>1, <2>2, <2>4, <4>1
    <3>3. CASE n = linesRead[c]
      BY <1>1, <2>1, <2>2, <3>3
    <3> QED BY <1>1, <3>1, <3>2, <3>3 DEF Somewhere
  <2> QED BY <1>1, <2>1, <2>6 DEF n
<1>3. ReaderHolds'
  BY <1>1 DEF ReaderHolds
<1>4. CurrentIsNext'
  BY <1>1, <1>2 DEF CurrentIsNext, ChannelInOrder
<1>5. ChannelInOrder'
  <2>1. ASSUME NEW i \in 1..Len(Channel'), NEW j \in 1..Len(Channel'), i < j,
               Channel'[i].conn = Channel'[j].conn
        PROVE  Channel'[i].nr < Channel'[j].nr
    <3>1. i + 1 \in 1..Len(Channel) /\ j + 1 \in 1..Len(Channel) /\ i + 1 < j + 1
      BY <1>1, <2>1
    <3> QED BY <1>1, <2>1, <3>1 DEF ChannelInOrder
  <2>2. ASSUME NEW i \in 1..Len(Channel')
        PROVE  LET l == Channel'[i]
               IN /\ linesHandled'[l.conn] < l.nr
                  /\ l.nr <= linesRead'[l.conn]
                  /\ current' # Nothing /\ current'.conn = l.conn
                       => current'.nr < l.nr
                  /\ line'[l.conn] # Nothing => l.nr < linesRead'[l.conn]
    <3>1. i + 1 \in 1..Len(Channel) /\ 1 \in 1..Len(Channel) /\ 1 < i + 1
      BY <1>1
    <3> QED BY <1>1, <3>1 DEF ChannelInOrder
  <2> QED BY <2>1, <2>2 DEF ChannelInOrder
<1>6. NoneMissing'
  <2> SUFFICES ASSUME NEW d \in Conns, NEW n \in Nat,
                      linesHandled'[d] < n, n <= linesRead'[d]
               PROVE  Somewhere(d, n)'
    BY DEF NoneMissing
  <2>1. Somewhere(d, n)
    BY <1>1 DEF NoneMissing
  <2>2. CASE InChannelAt(d, n)
    <3>1. PICK i \in 1..Len(Channel) : Channel[i].conn = d /\ Channel[i].nr = n
      BY <2>2 DEF InChannelAt
    <3>2. CASE i = 1
      BY <1>1, <3>1, <3>2 DEF Somewhere
    <3>3. CASE i # 1
      <4>1. i - 1 \in 1..Len(Channel') /\ Channel'[i - 1] = Channel[i]
        BY <1>1, <3>3
      <4>2. InChannelAt(d, n)'
        BY <3>1, <4>1 DEF InChannelAt
      <4> QED BY <4>2 DEF Somewhere
    <3> QED BY <3>2, <3>3
  <2>3. CASE ~InChannelAt(d, n)
    BY <1>1, <2>1, <2>3 DEF Somewhere
  <2> QED BY <2>2, <2>3
<1> QED BY <1>3, <1>4, <1>5, <1>6

(* The dispatcher is done with a line.                                     *)
LEMMA HandledOInv ==
  ASSUME TInv, OInv, Handled, dispatcher \in {"lookup", "send", "acting"},
         UNCHANGED <<reader, line, linesRead, PendingServerRequests, done>>
  PROVE  OInv'
<1> USE LineTypes DEF OInv, Channel
<1> DEFINE c == current.conn
<1>1. /\ current # Nothing /\ current' = Nothing
      /\ dispatcher' = "select"
      /\ c \in Conns
      /\ current.nr = linesHandled[c] + 1 /\ current.nr <= linesRead[c]
      /\ linesHandled' = [linesHandled EXCEPT ![c] = linesHandled[c] + 1]
  BY DEF Handled, CurrentIsNext
<1>2. ReaderHolds' /\ CurrentIsNext'
  BY <1>1 DEF ReaderHolds, CurrentIsNext
<1>3. ChannelInOrder'
  BY <1>1 DEF ChannelInOrder
<1>4. NoneMissing'
  <2> SUFFICES ASSUME NEW d \in Conns, NEW n \in Nat,
                      linesHandled'[d] < n, n <= linesRead'[d]
               PROVE  Somewhere(d, n)'
    BY DEF NoneMissing
  <2>1. linesHandled[d] < n /\ (d = c => n # current.nr)
    BY <1>1
  <2>2. Somewhere(d, n)
    BY <1>1, <2>1 DEF NoneMissing
  <2>3. InChannelAt(d, n)' <=> InChannelAt(d, n)
    BY DEF InChannelAt
  <2> QED BY <1>1, <2>1, <2>2, <2>3 DEF Somewhere
<1> QED BY <1>2, <1>3, <1>4

(* Every step preserves the order.                                         *)
LEMMA NextOInv == TInv /\ OInv /\ [Next]_vars => OInv'
<1> SUFFICES ASSUME TInv, OInv, [Next]_vars PROVE OInv'
  OBVIOUS
<1>1. ASSUME NEW r \in Requests, NewSocketConnection(r)
      PROVE  OInv'
  BY <1>1, NoLineMoves
     DEF NewSocketConnection, CallStarts, RequestSent, SendReturns, SendFails,
         ReceiveResponse, CallReturns, readVars, dispatchVars
<1>2. CASE \E c \in Conns : HandleConnection(c)
  BY <1>2, ReaderOInv
<1>3. CASE LookupFinds \/ DispatcherExits
  BY <1>3, NoLineMoves DEF LookupFinds, DispatcherExits, readVars
<1>4. CASE LookupFindsNothing \/ SendResponse \/ ActionReturns
  BY <1>4, HandledOInv DEF LookupFindsNothing, SendResponse, ActionReturns, readVars
<1>5. CASE Stop
  BY <1>5, NoLineMoves DEF Stop, readVars, dispatchVars
<1>6. CASE UNCHANGED vars
  BY <1>6, NoLineMoves DEF vars, readVars, dispatchVars
<1> QED
  BY <1>1, <1>2, <1>3, <1>4, <1>5, <1>6, TakeLineOInv DEF Next, HandleRequests

(* Every line is handled once and in the order in which it was read, for   *)
(* any number of connections and any size of the channel.                  *)
THEOREM LinesHandledInOrder == Spec => []LinesInOrder
<1>1. Init => OInv
  <2> SUFFICES ASSUME Init PROVE OInv
    OBVIOUS
  <2>1. Len(Channel) = 0
    BY DEF Init, Channel
  <2> QED BY <2>1 DEF Init, OInv, ReaderHolds, CurrentIsNext, ChannelInOrder,
                      NoneMissing
<1> QED
  BY <1>1, TInvInvariant, NextOInv, OInvLinesInOrder, PTL DEF Spec
===============================================================================
