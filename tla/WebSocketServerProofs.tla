------------------------- MODULE WebSocketServerProofs -------------------------
(***************************************************************************)
(* Proofs about WebSocketServer.  What the maps and the reports promise,   *)
(* they promise when no client_id is given twice (~IdsReused); which types *)
(* hold and who leaves s.mu locked does not depend on that.                *)
(***************************************************************************)
EXTENDS WebSocketServer, TLAPS

-------------------------------------------------------------------------------
(***************************************************************************)
(* The parts of the inductive invariant.                                   *)
(***************************************************************************)
\* Handlers whose client has been registered and whose socket has not failed.
Lively == {"announcing", "reading", "delivering"}

\* A connection has a client_id and a room from its acceptance on.
Named ==
    \A h \in Conns :
       /\ pc[h] \in {"idle", "requesting", "panicked"} => id[h] = None
       /\ pc[h] \in Lively \cup {"accepted", "reporting", "closing"} =>
             id[h] \in Ids /\ room[h] \in Rooms

OwnIds ==
    \A x, y \in Conns : id[x] = id[y] /\ id[x] # None => x = y

Registered == \A h \in clients : pc[h] \in Lively

\* Goroutines that are between taking a client out and closing its socket.
Ending(t) == pc[t] \in {"reporting", "closing"}

\* A handler disconnects its own client, the dispatcher one that was accepted.
Victims ==
    /\ \A t \in Threads : Ending(t) => victim[t] \in Conns \ clients
    /\ \A h \in Conns : Ending(h) => victim[h] = h
    /\ Ending(Dispatcher) => pc[victim[Dispatcher]] \in Lively \cup {"returned"}
                               /\ id[victim[Dispatcher]] # None

\* The dispatcher is about to report the end of h.
ReportDue(h) == pc[Dispatcher] = "reporting" /\ victim[Dispatcher] = h

\* Where each end is: to come, due, or reported.
Reports ==
    \A h \in Conns :
       /\ disconnected[h] \in {0, 1}
       /\ \/ pc[h] \in {"idle", "requesting", "accepted", "panicked", "reporting"}
          \/ id[h] = None
          \/ h \in clients
          \/ ReportDue(h)
          => disconnected[h] = 0
       /\ /\ pc[h] \in Lively \cup {"closing", "returned"}
          /\ id[h] # None
          /\ h \notin clients
          => disconnected[h] = 1 \/ ReportDue(h)

\* Whatever is taken for ended has ended.
Failures ==
    /\ \A h \in Conns : socket[h] \in {"gone", "closed"} => h \in left
    /\ \A t \in Threads : Ending(t) => victim[t] \in left

IInv == /\ TypeOK /\ Named /\ OwnIds /\ Registered /\ RegistryAgrees
        /\ Victims /\ Reports /\ Failures /\ OnlyFailedDisconnected

-------------------------------------------------------------------------------
(***************************************************************************)
(* What SetMembers does to the rooms.                                      *)
(***************************************************************************)
LEMMA SetMembersEffect ==
    ASSUME NEW r, NEW m, SetMembers(r, m)
    PROVE  /\ rooms' = [x \in DOMAIN rooms' |-> rooms'[x]]
           /\ \A x : x \in DOMAIN rooms' <=> \/ x \in DOMAIN rooms /\ x # r
                                             \/ x = r /\ m # {}
           /\ \A x \in DOMAIN rooms' : rooms'[x] = IF x = r THEN m ELSE rooms[x]
  BY DEF SetMembers

LEMMA DispatcherApart == Dispatcher \notin Conns /\ Conns \subseteq Threads
                           /\ Dispatcher \in Threads /\ None \notin Conns \cup Ids
  BY DistinctAssumption DEF Threads

-------------------------------------------------------------------------------
(***************************************************************************)
(* Types.  They need Named, too: a client_id and a room are there before   *)
(* the maps are changed for them.                                          *)
(***************************************************************************)
TypeInv == TypeOK /\ Named /\ Registered
             /\ \A t \in Threads : Ending(t) => victim[t] \in Conns

LEMMA TypeInit == Init => TypeInv
  <1> SUFFICES ASSUME Init PROVE TypeInv
    OBVIOUS
  <1>1. rooms \in [DOMAIN rooms -> SUBSET Conns] /\ DOMAIN rooms \subseteq Rooms
    BY DEF Init
  <1>2. TypeOK
    BY <1>1, DispatcherApart DEF Init, TypeOK
  <1>3. Named /\ Registered /\ \A t \in Threads : ~Ending(t)
    BY DispatcherApart DEF Init, Named, Registered, Ending, Lively
  <1> QED
    BY <1>2, <1>3 DEF TypeInv

\* Disconnect(t, i, after), with what it needs to know of t.
LEMMA DisconnectTypes ==
    ASSUME TypeInv, NEW t \in Threads, NEW i, NEW after \in {"returned", "writing"},
           t \in Conns => after = "returned" /\ pc[t] = "reading" /\ i = id[t],
           t = Dispatcher => after = "writing",
           Disconnect(t, i, after), UNCHANGED connVars,
           UNCHANGED <<stopped, disconnected, broadcasting>>, todo' \subseteq Conns
    PROVE  TypeInv'
  <1> USE DispatcherApart
  <1>1. CASE Lookup(i) = {}
    BY <1>1 DEF TypeInv, TypeOK, Named, Registered, Ending, Lively, Disconnect,
                connVars, Threads, Lookup
  <1>2. CASE Lookup(i) # {}
    <2>1. PICK cc \in Lookup(i) :
             /\ clients' = Without(clients, i)
             /\ SetMembers(room[cc], Without(Members(room[cc]), i))
             /\ victim' = [victim EXCEPT ![t] = cc]
             /\ pc' = [pc EXCEPT ![t] = "reporting"]
             /\ UNCHANGED locked
      BY <1>2 DEF Disconnect
    <2>2. cc \in Conns /\ room[cc] \in Rooms /\ id[cc] = i
      BY DEF Lookup, TypeInv, TypeOK, Registered, Named
    <2>3. rooms' \in [DOMAIN rooms' -> SUBSET Conns] /\ DOMAIN rooms' \subseteq Rooms
      BY <2>1, <2>2, SetMembersEffect DEF Without, Members, TypeInv, TypeOK
    <2>4. TypeOK'
      BY <2>1, <2>2, <2>3 DEF TypeInv, TypeOK, connVars, Without, Threads
    <2>5. Named' /\ Registered'
      BY <2>1, <2>2 DEF TypeInv, TypeOK, Named, Registered, Lively, connVars,
                        Without, Threads
    <2>6. \A u \in Threads : Ending(u)' => victim'[u] \in Conns
      BY <2>1, <2>2 DEF TypeInv, TypeOK, Ending
    <2> QED
      BY <2>4, <2>5, <2>6 DEF TypeInv
  <1> QED
    BY <1>1, <1>2

LEMMA TypeStep == TypeInv /\ [Next]_vars => TypeInv'
  <1> USE DispatcherApart
  <1> SUFFICES ASSUME TypeInv, [Next]_vars PROVE TypeInv'
    OBVIOUS
  <1>1. ASSUME NEW h \in Conns, Request(h) \/ TurnedAway(h) \/ Announce(h)
                                  \/ ReadMessage(h) \/ Deliver(h)
        PROVE  TypeInv'
    BY <1>1 DEF Request, TurnedAway, Announce, ReadMessage, Deliver, TypeInv,
                TypeOK, Named, Registered, Ending, Lively, regVars, connVars,
                dispatchVars, Threads
  <1>2. ASSUME NEW h \in Conns, NEW i \in Ids, NEW r \in Rooms, Accepted(h, i, r)
        PROVE  TypeInv'
    BY <1>2 DEF Accepted, TypeInv, TypeOK, Named, Registered, Ending, Lively,
                regVars, dispatchVars, Threads
  <1>3. ASSUME NEW h \in Conns, NEW r \in Rooms, AcceptedWithoutId(h, r)
        PROVE  TypeInv'
    <2>1. TypeOK'
      BY <1>3 DEF AcceptedWithoutId, TypeInv, TypeOK, Members, connVars,
                  dispatchVars, Threads
    <2>2. Named' /\ Registered' /\ \A t \in Threads : Ending(t)' => victim'[t] \in Conns
      BY <1>3 DEF AcceptedWithoutId, TypeInv, TypeOK, Named, Registered, Ending,
                  Lively, connVars, Threads
    <2> QED
      BY <2>1, <2>2 DEF TypeInv
  <1>4. ASSUME NEW h \in Conns, Register(h)
        PROVE  TypeInv'
    <2>1. room[h] \in Rooms
      BY <1>4 DEF Register, TypeInv, Named
    <2>2. rooms' \in [DOMAIN rooms' -> SUBSET Conns] /\ DOMAIN rooms' \subseteq Rooms
      BY <1>4, <2>1, SetMembersEffect DEF Register, Put, Members, TypeInv, TypeOK
    <2>3. TypeOK'
      BY <1>4, <2>2 DEF Register, Put, TypeInv, TypeOK, connVars, dispatchVars, Threads
    <2>4. Named' /\ Registered' /\ \A t \in Threads : Ending(t)' => victim'[t] \in Conns
      BY <1>4 DEF Register, Put, TypeInv, TypeOK, Named, Registered, Ending,
                  Lively, connVars, Threads
    <2> QED
      BY <2>3, <2>4 DEF TypeInv
  <1>5. ASSUME NEW h \in Conns, ReadFails(h)
        PROVE  TypeInv'
    BY <1>5, DisconnectTypes DEF ReadFails, dispatchVars, TypeInv, TypeOK
  <1>6. ASSUME NEW t \in Threads, ReportDisconnect(t) \/ CloseVictim(t)
        PROVE  TypeInv'
    <2>1. victim[t] \in Conns
      BY <1>6 DEF ReportDisconnect, CloseVictim, TypeInv, Ending
    <2>2. CASE ReportDisconnect(t)
      <3>1. TypeOK'
        BY <2>1, <2>2 DEF ReportDisconnect, TypeInv, TypeOK, regVars, connVars,
                          dispatchVars, Threads
      <3>2. Named' /\ Registered' /\ \A u \in Threads : Ending(u)' => victim'[u] \in Conns
        BY <2>1, <2>2 DEF ReportDisconnect, TypeInv, TypeOK, Named, Registered,
                          Ending, Lively, regVars, connVars, Threads
      <3> QED
        BY <3>1, <3>2 DEF TypeInv
    <2>3. CASE CloseVictim(t)
      <3>1. TypeOK'
        BY <2>1, <2>3 DEF CloseVictim, TypeInv, TypeOK, regVars, dispatchVars, Threads
      <3>2. Named' /\ Registered' /\ \A u \in Threads : Ending(u)' => victim'[u] \in Conns
        BY <2>1, <2>3 DEF CloseVictim, TypeInv, TypeOK, Named, Registered, Ending,
                          Lively, regVars, Threads
      <3> QED
        BY <3>1, <3>2 DEF TypeInv
    <2> QED
      BY <1>6, <2>2, <2>3
  <1>7. ASSUME BroadcastMessage \/ (\E r \in Rooms : MessageToRoom(r))
                 \/ (\E i \in Ids : MessageToConnection(i))
        PROVE  TypeInv'
    <2>1. /\ todo' \subseteq Conns /\ broadcasting' \in BOOLEAN
          /\ pc[Dispatcher] = "idle" /\ pc' = [pc EXCEPT ![Dispatcher] = "writing"]
          /\ UNCHANGED <<regVars, connVars, victim, stopped, disconnected>>
      BY <1>7 DEF BroadcastMessage, MessageToRoom, MessageToConnection, Starts,
                  Lookup, TypeInv, TypeOK
    <2> QED
      BY <2>1 DEF TypeInv, TypeOK, Named, Registered, Ending, Lively, regVars,
                  connVars, Threads
  <1>8. ASSUME NEW c \in Conns, WriteSucceeds(c)
        PROVE  TypeInv'
    BY <1>8 DEF WriteSucceeds, TypeInv, TypeOK, Named, Registered, Ending, Lively,
                regVars, connVars
  <1>9. ASSUME NEW c \in Conns, WriteFails(c)
        PROVE  TypeInv'
    <2>1. CASE broadcasting
      BY <1>9, <2>1, DisconnectTypes DEF WriteFails, TypeInv, TypeOK
    <2>2. CASE ~broadcasting
      BY <1>9, <2>2 DEF WriteFails, TypeInv, TypeOK, Named, Registered, Ending,
                        Lively, regVars, connVars
    <2> QED
      BY <2>1, <2>2
  <1>10. CASE WritesEnd
    BY <1>10 DEF WritesEnd, TypeInv, TypeOK, Named, Registered, Ending, Lively,
                 regVars, connVars, Threads
  <1>11. ASSUME NEW h \in Conns, PeerLeaves(h)
         PROVE  TypeInv'
    BY <1>11 DEF PeerLeaves, TypeInv, TypeOK, Named, Registered, Ending, Lively,
                 regVars, dispatchVars
  <1>12. CASE StopListening \/ StopCloses
    <2>1. TypeOK'
      <3>1. CASE StopListening
        BY <3>1 DEF StopListening, TypeInv, TypeOK, regVars, connVars, dispatchVars
      <3>2. CASE StopCloses
        BY <3>2 DEF StopCloses, TypeInv, TypeOK, regVars, dispatchVars
      <3> QED
        BY <1>12, <3>1, <3>2
    <2>2. Named' /\ Registered' /\ \A t \in Threads : Ending(t)' => victim'[t] \in Conns
      BY <1>12 DEF StopListening, StopCloses, TypeInv, Named, Registered, Ending,
                   regVars, connVars
    <2> QED
      BY <2>1, <2>2 DEF TypeInv
  <1>13. CASE UNCHANGED vars
    BY <1>13 DEF vars, TypeInv, TypeOK, Named, Registered, Ending, Lively,
                 regVars, connVars, dispatchVars
  <1> QED
    BY <1>1, <1>2, <1>3, <1>4, <1>5, <1>6, <1>7, <1>8, <1>9, <1>10, <1>11, <1>12,
       <1>13 DEF Next, HandleConnection, Dispatch

(* Types hold in every state, whatever client_ids the backends give.       *)
THEOREM TypeCorrect == Spec => []TypeOK
  <1>1. TypeInv => TypeOK
    BY DEF TypeInv
  <1> QED
    BY TypeInit, TypeStep, <1>1, PTL DEF Spec

-------------------------------------------------------------------------------
(***************************************************************************)
(* The inductive invariant, when every client_id is given once.            *)
(***************************************************************************)
LEMMA InitIInv == Init => IInv
  <1> SUFFICES ASSUME Init PROVE IInv
    OBVIOUS
  <1>1. TypeOK /\ Named /\ Registered
    BY TypeInit DEF TypeInv
  <1>2. OwnIds /\ RegistryAgrees /\ OnlyFailedDisconnected
    BY DEF Init, OwnIds, RegistryAgrees, OnlyFailedDisconnected
  <1>3. Victims /\ Reports /\ Failures
    BY DispatcherApart DEF Init, Victims, Reports, Failures, Ending, ReportDue, Lively
  <1> QED
    BY <1>1, <1>2, <1>3 DEF IInv

\* Only c is registered under its client_id.
LEMMA LookupOwn ==
    ASSUME IInv, NEW c \in Conns
    PROVE  /\ Lookup(id[c]) = clients \cap {c}
           /\ \A m \in SUBSET clients : Without(m, id[c]) = m \ {c}
  BY DispatcherApart DEF IInv, TypeOK, Named, Registered, OwnIds, Lookup, Without

\* handleDisconnect for c, by its handler or by the dispatcher.
LEMMA DisconnectStep ==
    ASSUME IInv, TypeInv', NEW c \in Conns, NEW t \in {c, Dispatcher},
           NEW after \in {"returned", "writing"},
           t = c => pc[c] = "reading" /\ after = "returned",
           t = Dispatcher => pc[t] = "writing" /\ after = "writing",
           socket[c] \in {"gone", "closed"},
           Disconnect(t, id[c], after),
           UNCHANGED <<connVars, stopped, disconnected>>
    PROVE  IInv'
  <1> USE DispatcherApart
  <1>1. CASE c \notin clients
    <2>1. /\ pc' = [pc EXCEPT ![t] = after]
          /\ UNCHANGED <<clients, rooms, victim, locked>>
      BY <1>1, LookupOwn DEF Disconnect
    <2>2. OwnIds' /\ RegistryAgrees' /\ OnlyFailedDisconnected'
      BY <2>1 DEF IInv, OwnIds, RegistryAgrees, OnlyFailedDisconnected, Members,
                  connVars
    <2>3. Victims' /\ Failures'
      BY <2>1 DEF IInv, TypeOK, Victims, Failures, Ending, Lively, connVars, Threads
    <2>4. Reports'
      BY <1>1, <2>1 DEF IInv, TypeOK, Named, Reports, ReportDue, Lively, connVars,
                        Threads
    <2> QED
      BY <2>2, <2>3, <2>4 DEF IInv, TypeInv
  <1>2. CASE c \in clients
    <2>1. /\ clients' = clients \ {c}
          /\ SetMembers(room[c], Members(room[c]) \ {c})
          /\ victim' = [victim EXCEPT ![t] = c]
          /\ pc' = [pc EXCEPT ![t] = "reporting"]
          /\ UNCHANGED locked
      <3>1. Lookup(id[c]) = {c} /\ Without(clients, id[c]) = clients \ {c}
        BY <1>2, LookupOwn
      <3>2. Members(room[c]) \subseteq clients
        BY DEF IInv, RegistryAgrees, Members
      <3>3. Without(Members(room[c]), id[c]) = Members(room[c]) \ {c}
        BY <3>2, LookupOwn
      <3> QED
        BY <3>1, <3>3 DEF Disconnect
    <2>2. OwnIds' /\ OnlyFailedDisconnected'
      BY DEF IInv, OwnIds, OnlyFailedDisconnected, connVars
    <2>3. RegistryAgrees'
      <3>1. ASSUME NEW r \in DOMAIN rooms'
            PROVE  /\ rooms'[r] # {}  \/ locked'
                   /\ \A h \in rooms'[r] : h \in clients' /\ room'[h] = r
        BY <2>1, SetMembersEffect DEF IInv, RegistryAgrees, Members, connVars
      <3>2. ASSUME NEW h \in clients'
            PROVE  h \in Members(room[h])'
        BY <2>1, SetMembersEffect DEF IInv, RegistryAgrees, Members, connVars
      <3> QED
        BY <3>1, <3>2 DEF RegistryAgrees
    <2>4. pc[c] \in Lively /\ id[c] \in Ids
      BY <1>2 DEF IInv, Registered, Named, Lively
    <2>5. Victims'
      <3>1. \A u \in Threads : Ending(u)' => victim'[u] \in Conns \ clients'
        BY <2>1 DEF IInv, TypeOK, Victims, Ending, Threads
      <3>2. \A h \in Conns : Ending(h)' => victim'[h] = h
        BY <2>1 DEF IInv, TypeOK, Victims, Ending, Threads
      <3>3. CASE t = Dispatcher
        <4>1. victim'[Dispatcher] = c /\ pc'[c] = pc[c] /\ id'[c] # None
          BY <2>1, <2>4, <3>3 DEF IInv, TypeOK, connVars, Threads
        <4> QED
          BY <2>4, <3>1, <3>2, <4>1 DEF Victims
      <3>4. CASE t = c
        <4>1. /\ victim'[Dispatcher] = victim[Dispatcher]
              /\ pc'[Dispatcher] = pc[Dispatcher]
          BY <2>1, <3>4 DEF IInv, TypeOK, Threads
        <4>2. Ending(Dispatcher) => victim[Dispatcher] \in Conns \ {c}
          BY <1>2 DEF IInv, Victims
        <4>3. Ending(Dispatcher) =>
                 pc'[victim[Dispatcher]] = pc[victim[Dispatcher]]
          BY <2>1, <3>4, <4>2 DEF IInv, TypeOK, Threads
        <4> QED
          BY <3>1, <3>2, <4>1, <4>3 DEF IInv, Victims, Ending, connVars
      <3> QED
        BY <3>3, <3>4
    <2>6. Failures'
      BY <2>1 DEF IInv, TypeOK, Failures, Ending, connVars, Threads
    <2>7. Reports'
      BY <1>2, <2>1, <2>4 DEF IInv, TypeOK, Reports, ReportDue, Victims, Ending,
                              Lively, connVars, Threads
    <2> QED
      BY <2>2, <2>3, <2>5, <2>6, <2>7 DEF IInv, TypeInv
  <1> QED
    BY <1>1, <1>2

LEMMA StepIInv == ASSUME ~IdsReused PROVE IInv /\ [Next]_vars => IInv'
  <1> USE DispatcherApart
  <1> SUFFICES ASSUME IInv, [Next]_vars PROVE IInv'
    OBVIOUS
  <1>t. TypeInv'
    <2>1. TypeInv
      BY DEF IInv, TypeInv, Victims
    <2> QED
      BY <2>1, TypeStep
  <1>a. TypeOK' /\ Named' /\ Registered'
    BY <1>t DEF TypeInv
  <1> DEFINE Maps == OwnIds' /\ RegistryAgrees'
             Ends == Victims' /\ Reports' /\ Failures' /\ OnlyFailedDisconnected'
  <1>b. ASSUME Maps, Ends PROVE IInv'
    BY <1>a, <1>b DEF IInv
  <1> HIDE DEF Maps, Ends
  <1>c. ASSUME UNCHANGED <<regVars, id, room>> PROVE Maps
    BY <1>c DEF Maps, IInv, OwnIds, RegistryAgrees, Members, regVars
  <1>1. ASSUME NEW h \in Conns, Request(h) \/ TurnedAway(h) \/ Announce(h)
                                  \/ ReadMessage(h) \/ Deliver(h)
        PROVE  IInv'
    <2>1. Maps
      BY <1>1, <1>c DEF Request, TurnedAway, Announce, ReadMessage, Deliver, connVars
    <2>2. Victims' /\ Failures' /\ OnlyFailedDisconnected'
      BY <1>1 DEF Request, TurnedAway, Announce, ReadMessage, Deliver, IInv, TypeOK,
                  Victims, Failures, OnlyFailedDisconnected, Ending, Lively,
                  regVars, connVars, Threads
    <2>3. Reports'
      BY <1>1 DEF Request, TurnedAway, Announce, ReadMessage, Deliver, IInv, TypeOK,
                  Named, Reports, ReportDue, Lively, regVars, connVars, Threads
    <2> QED
      BY <1>b, <2>1, <2>2, <2>3 DEF Ends
  <1>2. ASSUME NEW h \in Conns, NEW i \in Ids, NEW r \in Rooms, Accepted(h, i, r)
        PROVE  IInv'
    <2>1. h \notin clients /\ pc[h] = "requesting" /\ id[h] = None
      BY <1>2 DEF Accepted, IInv, Registered, Named, Lively
    <2>2. OwnIds'
      BY <1>2 DEF Accepted, IInv, TypeOK, OwnIds
    <2>3. RegistryAgrees'
      BY <1>2, <2>1 DEF Accepted, IInv, TypeOK, RegistryAgrees, Members, regVars
    <2>4. Victims'
      BY <1>2, <2>1 DEF Accepted, IInv, TypeOK, Victims, Ending, Lively, regVars,
                        Threads
    <2>5. Reports'
      BY <1>2, <2>1 DEF Accepted, IInv, TypeOK, Reports, ReportDue, Lively,
                        regVars, Threads
    <2>6. Failures' /\ OnlyFailedDisconnected'
      BY <1>2, <2>1 DEF Accepted, IInv, TypeOK, Failures, OnlyFailedDisconnected,
                        Ending, Threads
    <2> QED
      BY <1>a, <2>2, <2>3, <2>4, <2>5, <2>6 DEF IInv
  <1>3. ASSUME NEW h \in Conns, NEW r \in Rooms, AcceptedWithoutId(h, r)
        PROVE  IInv'
    <2>1. h \notin clients /\ id[h] = None
      BY <1>3 DEF AcceptedWithoutId, IInv, Registered, Named, Lively
    <2>2. OwnIds' /\ RegistryAgrees'
      BY <1>3 DEF AcceptedWithoutId, IInv, OwnIds, RegistryAgrees, Members, connVars
    <2>3. Victims' /\ Failures' /\ OnlyFailedDisconnected'
      BY <1>3 DEF AcceptedWithoutId, IInv, TypeOK, Victims, Failures,
                  OnlyFailedDisconnected, Ending, Lively, connVars, Threads
    <2>4. Reports'
      BY <1>3, <2>1 DEF AcceptedWithoutId, IInv, TypeOK, Reports, ReportDue, Lively,
                        connVars, Threads
    <2> QED
      BY <1>a, <2>2, <2>3, <2>4 DEF IInv
  <1>4. ASSUME NEW h \in Conns, Register(h)
        PROVE  IInv'
    <2>1. pc[h] = "accepted" /\ h \notin clients /\ id[h] \in Ids
      BY <1>4 DEF Register, IInv, Registered, Named, Lively
    <2>2. Put(clients, h) = clients \cup {h}
      BY <2>1 DEF Put, IInv, TypeOK, OwnIds
    <2>3. Put(Members(room[h]), h) = Members(room[h]) \cup {h}
      BY <2>1 DEF Put, Members, IInv, TypeOK, OwnIds, RegistryAgrees
    <2>4. /\ clients' = clients \cup {h}
          /\ SetMembers(room[h], Members(room[h]) \cup {h})
          /\ UNCHANGED locked
      BY <1>4, <2>2, <2>3 DEF Register
    <2>5. OwnIds'
      BY <1>4 DEF Register, IInv, OwnIds, connVars
    <2>6. RegistryAgrees'
      <3>1. ASSUME NEW r \in DOMAIN rooms'
            PROVE  /\ rooms'[r] # {} \/ locked'
                   /\ \A x \in rooms'[r] : x \in clients' /\ room'[x] = r
        BY <1>4, <2>4, SetMembersEffect
           DEF Register, IInv, RegistryAgrees, Members, connVars
      <3>2. ASSUME NEW x \in clients'
            PROVE  x \in Members(room[x])'
        BY <1>4, <2>4, SetMembersEffect
           DEF Register, IInv, RegistryAgrees, Members, connVars
      <3> QED
        BY <3>1, <3>2 DEF RegistryAgrees
    <2>7. Victims'
      BY <1>4, <2>1, <2>4 DEF Register, IInv, TypeOK, Victims, Ending, Lively,
                              connVars, Threads
    <2>8. Reports'
      BY <1>4, <2>1, <2>4 DEF Register, IInv, TypeOK, Reports, ReportDue, Victims,
                              Ending, Lively, connVars, Threads
    <2>9. Failures' /\ OnlyFailedDisconnected'
      BY <1>4 DEF Register, IInv, TypeOK, Failures, OnlyFailedDisconnected, Ending,
                  connVars, Threads
    <2> QED
      BY <1>a, <2>5, <2>6, <2>7, <2>8, <2>9 DEF IInv
  <1>5. ASSUME NEW h \in Conns, ReadFails(h)
        PROVE  IInv'
    <2>1. h \in {h, Dispatcher} /\ h # Dispatcher
      OBVIOUS
    <2> QED
      BY <1>5, <1>t, <2>1, DisconnectStep DEF ReadFails
  <1>6. ASSUME NEW h \in Conns, ReportDisconnect(h)
        PROVE  IInv'
    <2>1. victim[h] = h /\ disconnected[h] = 0 /\ h \in left /\ ~ReportDue(h)
      BY <1>6 DEF ReportDisconnect, IInv, TypeOK, Victims, Reports, Failures,
                  Ending, ReportDue, Lively, Threads
    <2>2. disconnected' = [disconnected EXCEPT ![h] = 1]
      BY <1>6, <2>1 DEF ReportDisconnect
    <2>3. Maps
      BY <1>6, <1>c DEF ReportDisconnect, connVars
    <2>4. Victims' /\ Failures'
      BY <1>6 DEF ReportDisconnect, IInv, TypeOK, Victims, Failures, Ending, Lively,
                  regVars, connVars, Threads
    <2>5. h \notin clients
      BY <1>6 DEF ReportDisconnect, IInv, Registered, Lively
    <2>6. Reports'
      BY <1>6, <2>1, <2>2, <2>5 DEF ReportDisconnect, IInv, TypeOK, Named, Reports,
                                    ReportDue, Lively, regVars, connVars, Threads
    <2>7. OnlyFailedDisconnected'
      BY <1>6, <2>1, <2>2 DEF ReportDisconnect, IInv, TypeOK, connVars,
                              OnlyFailedDisconnected
    <2> QED
      BY <1>b, <2>3, <2>4, <2>6, <2>7 DEF Ends
  <1>7. CASE ReportDisconnect(Dispatcher)
    <2> DEFINE v == victim[Dispatcher]
    <2>1. /\ v \in Conns \ clients /\ v \in left /\ disconnected[v] = 0
          /\ pc[v] \in Lively \cup {"returned"} /\ id[v] # None
      BY <1>7 DEF ReportDisconnect, IInv, Victims, Reports, Failures, Ending, ReportDue
    <2>2. disconnected' = [disconnected EXCEPT ![v] = 1]
      BY <1>7, <2>1 DEF ReportDisconnect
    <2>3. Maps
      BY <1>7, <1>c DEF ReportDisconnect, connVars
    <2>4. Victims' /\ Failures'
      BY <1>7 DEF ReportDisconnect, IInv, TypeOK, Victims, Failures, Ending, Lively,
                  regVars, connVars, Threads
    <2>5. Reports'
      BY <1>7, <2>1, <2>2 DEF ReportDisconnect, IInv, TypeOK, Reports, ReportDue,
                              Lively, regVars, connVars, Threads
    <2>6. OnlyFailedDisconnected'
      BY <1>7, <2>1, <2>2 DEF ReportDisconnect, IInv, TypeOK, connVars,
                              OnlyFailedDisconnected
    <2> QED
      BY <1>b, <2>3, <2>4, <2>5, <2>6 DEF Ends
  <1>8. ASSUME NEW t \in Threads, CloseVictim(t)
        PROVE  IInv'
    <2>1. victim[t] \in Conns /\ victim[t] \in left
      BY <1>8 DEF CloseVictim, IInv, Victims, Failures, Ending
    <2>2. Maps
      BY <1>8, <1>c DEF CloseVictim
    <2>3. Victims'
      BY <1>8 DEF CloseVictim, IInv, TypeOK, Victims, Ending, Lively, regVars, Threads
    <2>4. Failures' /\ OnlyFailedDisconnected'
      BY <1>8, <2>1 DEF CloseVictim, IInv, TypeOK, Failures, OnlyFailedDisconnected,
                        Ending, Threads
    <2>5. Reports'
      BY <1>8 DEF CloseVictim, IInv, TypeOK, Named, Reports, ReportDue, Lively,
                  regVars, Threads
    <2> QED
      BY <1>b, <2>2, <2>3, <2>4, <2>5 DEF Ends
  <1>9. ASSUME NEW c \in Conns, WriteFails(c), broadcasting
        PROVE  IInv'
    BY <1>9, <1>t, DisconnectStep DEF WriteFails
  <1>10. ASSUME \/ BroadcastMessage \/ \E r \in Rooms : MessageToRoom(r)
                \/ \E i \in Ids : MessageToConnection(i)
                \/ \E c \in Conns : WriteSucceeds(c)
                \/ (\E c \in Conns : WriteFails(c)) /\ ~broadcasting
                \/ WritesEnd \/ StopListening \/ UNCHANGED vars
         PROVE  IInv'
    <2>1. /\ UNCHANGED <<regVars, connVars, victim, disconnected>>
          /\ \/ pc' = pc
             \/ ~Ending(Dispatcher) /\ pc' = [pc EXCEPT ![Dispatcher] = "writing"]
             \/ ~Ending(Dispatcher) /\ pc' = [pc EXCEPT ![Dispatcher] = "idle"]
      BY <1>10 DEF BroadcastMessage, MessageToRoom, MessageToConnection, Starts,
                   WriteSucceeds, WriteFails, WritesEnd, StopListening, vars, Ending
    <2>2. Maps
      BY <2>1, <1>c DEF connVars
    <2>3. Victims' /\ Failures' /\ OnlyFailedDisconnected'
      BY <2>1 DEF IInv, TypeOK, Victims, Failures, OnlyFailedDisconnected, Ending,
                  Lively, regVars, connVars, Threads
    <2>4. Reports'
      BY <2>1 DEF IInv, TypeOK, Reports, ReportDue, Lively, Ending, regVars, connVars,
                  Threads
    <2> QED
      BY <1>b, <2>2, <2>3, <2>4 DEF Ends
  <1>11. CASE StopCloses \/ \E h \in Conns : PeerLeaves(h)
    <2>1. Maps
      BY <1>11, <1>c DEF StopCloses, PeerLeaves
    <2>2. Victims' /\ Reports'
      BY <1>11 DEF StopCloses, PeerLeaves, IInv, Victims, Reports, Ending, ReportDue,
                   regVars
    <2>3. Failures' /\ OnlyFailedDisconnected'
      BY <1>11 DEF StopCloses, PeerLeaves, IInv, TypeOK, Failures, Ending, Victims,
                   OnlyFailedDisconnected
    <2> QED
      BY <1>b, <2>1, <2>2, <2>3 DEF Ends
  <1> QED
    BY <1>1, <1>2, <1>3, <1>4, <1>5, <1>6, <1>7, <1>8, <1>9, <1>10, <1>11
       DEF Next, HandleConnection, Dispatch, Threads

(* The inductive invariant holds.                                          *)
THEOREM InductiveInvariant == ASSUME ~IdsReused PROVE Spec => []IInv
  BY InitIInv, StepIInv, PTL DEF Spec

(* The maps agree in every state, for any number of clients and rooms.     *)
THEOREM MapsAgree == ASSUME ~IdsReused PROVE Spec => []RegistryAgrees
  <1>1. IInv => RegistryAgrees
    BY DEF IInv
  <1> QED
    BY InductiveInvariant, <1>1, PTL

(* No room keeps a client whose handler has returned.                      *)
THEOREM RoomsCleanedUp == ASSUME ~IdsReused PROVE Spec => []RoomsHoldLiveClients
  <1>1. IInv => RoomsHoldLiveClients
    BY DEF IInv, RegistryAgrees, Registered, RoomsHoldLiveClients, Lively
  <1> QED
    BY InductiveInvariant, <1>1, PTL

(* The end of every client is reported once, whoever notices it.           *)
THEOREM EndsReportedOnce == ASSUME ~IdsReused PROVE Spec => []ReportedOnce
  <1>1. IInv => ReportedOnce
    BY DEF IInv, Reports, Registered, ReportDue, ReportedOnce, Lively
  <1> QED
    BY InductiveInvariant, <1>1, PTL

(* No client is disconnected for another one's failure.                    *)
THEOREM FailedOnlyDisconnected ==
    ASSUME ~IdsReused PROVE Spec => []OnlyFailedDisconnected
  <1>1. IInv => OnlyFailedDisconnected
    BY DEF IInv
  <1> QED
    BY InductiveInvariant, <1>1, PTL
===============================================================================
