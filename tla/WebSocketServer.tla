---------------------------- MODULE WebSocketServer ----------------------------
(***************************************************************************)
(* client.WebSocketServer (src/client/server.go, src/client/services.go):  *)
(* the registry of WebSocket clients and rooms, the HandleConnection       *)
(* goroutine of every client, and the dispatcher goroutine of the backend  *)
(* that calls BroadcastMessage, MessageToRoom and MessageToConnection.     *)
(*                                                                         *)
(* One step is one critical section of s.mu, one callback or one call on a *)
(* socket.  The maps are keyed by ClientID; as every value carries its own *)
(* key, a map is the set of its values, with at most one per ClientID.     *)
(***************************************************************************)
EXTENDS Integers, FiniteSets

CONSTANTS
    Conns,          \* the WebSocket connections that may ever be made
    Ids,            \* the values of client_id
    Rooms,          \* the values of room_id
    Dispatcher,     \* the goroutine running HandleRequests
    None,           \* no client_id, no room_id, no connection
    IdsReused,      \* bound: whether a backend gives a client_id twice
    IdsLeftOut      \* bound: whether it accepts without a client_id

ASSUME DistinctAssumption ==
    None \notin Conns \cup Ids \cup Rooms /\ Dispatcher \notin Conns
ASSUME BoundAssumption == IdsReused \in BOOLEAN /\ IdsLeftOut \in BOOLEAN

\* The goroutines that run handleDisconnect.
Threads == Conns \cup {Dispatcher}

VARIABLES
    clients,        \* s.clients
    rooms,          \* s.rooms, from the rooms that exist to their clients
    locked,         \* s.mu is locked by a goroutine that will not unlock it
    id,             \* ClientID of a connection
    room,           \* RoomID of a connection
    socket,         \* "none", "open", "gone" (by the peer) or "closed" (by us)
    pc,             \* program counter of HandleConnection and the dispatcher
    victim,         \* handleDisconnect's cc
    todo,           \* clients the dispatcher has still to write to
    broadcasting,   \* the dispatcher is in BroadcastMessage
    stopped,        \* Stop has been called: no new requests
    left,           \* history: connections that ended of themselves or by Stop
    disconnected    \* history: how often onDisconnect was called for it

regVars == <<clients, rooms, locked>>
connVars == <<id, room, socket, left>>
dispatchVars == <<todo, broadcasting>>
vars == <<regVars, connVars, pc, victim, dispatchVars, stopped, disconnected>>

TypeOK ==
    /\ clients \subseteq Conns
    /\ DOMAIN rooms \subseteq Rooms
    /\ rooms \in [DOMAIN rooms -> SUBSET Conns]
    /\ locked \in BOOLEAN
    /\ id \in [Conns -> Ids \cup {None}]
    /\ room \in [Conns -> Rooms \cup {None}]
    /\ socket \in [Conns -> {"none", "open", "gone", "closed"}]
    /\ pc \in [Threads -> {"idle", "requesting", "accepted", "announcing",
                           "reading", "delivering", "reporting", "closing",
                           "returned", "panicked", "writing"}]
    /\ \A h \in Conns : pc[h] # "writing"
    /\ pc[Dispatcher] \in {"idle", "writing", "reporting", "closing"}
    /\ victim \in [Threads -> Conns \cup {None}]
    /\ todo \subseteq Conns
    /\ broadcasting \in BOOLEAN /\ stopped \in BOOLEAN
    /\ left \subseteq Conns
    /\ disconnected \in [Conns -> Nat]

Init ==
    /\ clients = {}
    /\ rooms = [r \in {} |-> {}]
    /\ locked = FALSE
    /\ id = [h \in Conns |-> None]
    /\ room = [h \in Conns |-> None]
    /\ socket = [h \in Conns |-> "none"]
    /\ pc = [t \in Threads |-> "idle"]
    /\ victim = [t \in Threads |-> None]
    /\ todo = {} /\ broadcasting = FALSE /\ stopped = FALSE
    /\ left = {}
    /\ disconnected = [h \in Conns |-> 0]

-------------------------------------------------------------------------------
(***************************************************************************)
(* The maps.                                                               *)
(***************************************************************************)
\* m[ClientID] = h, which replaces another connection of the same ClientID.
Put(m, h) == {x \in m : id[x] # id[h]} \cup {h}

\* delete(m, i)
Without(m, i) == {x \in m : id[x] # i}

\* The connection registered for client_id i, as a set.
Lookup(i) == {x \in clients : id[x] = i}

\* The members of room r, none if it does not exist.
Members(r) == IF r \in DOMAIN rooms THEN rooms[r] ELSE {}

\* Mutant: a room is not deleted with its last client.
SetMembersKeepingEmpty(r, m) ==
    rooms' = [x \in DOMAIN rooms \cup {r} |-> IF x = r THEN m ELSE rooms[x]]

\* Give room r the members m; a room without members is deleted.
SetMembers(r, m) ==
    rooms' = [x \in (DOMAIN rooms \cup {r}) \ (IF m = {} THEN {r} ELSE {}) |->
                IF x = r THEN m ELSE rooms[x]]

-------------------------------------------------------------------------------
(***************************************************************************)
(* HandleConnection.                                                       *)
(***************************************************************************)
\* The callback that asks a backend.
Request(h) ==
    /\ pc[h] = "idle"
    /\ ~stopped
    /\ pc' = [pc EXCEPT ![h] = "requesting"]
    /\ UNCHANGED <<regVars, connVars, victim, dispatchVars, stopped,
                   disconnected>>

\* No answer, a failed upgrade, accepted == false, or no room_id: the handler
\* returns (or panics before it touches the registry).
TurnedAway(h) ==
    /\ pc[h] = "requesting"
    /\ pc' = [pc EXCEPT ![h] = "returned"]
    /\ UNCHANGED <<regVars, connVars, victim, dispatchVars, stopped,
                   disconnected>>

\* The backend accepts with a client_id and a room_id; the upgrade succeeds.
Accepted(h, i, r) ==
    /\ pc[h] = "requesting"
    /\ IdsReused \/ \A x \in Conns : id[x] # i
    /\ pc' = [pc EXCEPT ![h] = "accepted"]
    /\ id' = [id EXCEPT ![h] = i]
    /\ room' = [room EXCEPT ![h] = r]
    /\ socket' = [socket EXCEPT ![h] = "open"]
    /\ UNCHANGED <<regVars, left, victim, dispatchVars, stopped, disconnected>>

\* The backend accepts without a client_id.  The handler panics under s.mu,
\* after creating the room; net/http recovers, and s.mu is never unlocked.
AcceptedWithoutId(h, r) ==
    /\ IdsLeftOut
    /\ pc[h] = "requesting"
    /\ ~locked
    /\ locked' = TRUE
    /\ rooms' = [x \in DOMAIN rooms \cup {r} |-> Members(x)]
    /\ pc' = [pc EXCEPT ![h] = "panicked"]
    /\ UNCHANGED <<clients, connVars, victim, dispatchVars, stopped,
                   disconnected>>

\* Under s.mu: into its room, created if need be, and into the clients.
Register(h) ==
    /\ pc[h] = "accepted"
    /\ ~locked /\ UNCHANGED locked
    /\ SetMembers(room[h], Put(Members(room[h]), h))
    /\ clients' = Put(clients, h)
    /\ pc' = [pc EXCEPT ![h] = "announcing"]
    /\ UNCHANGED <<connVars, victim, dispatchVars, stopped, disconnected>>

\* onConnectionSuccess
Announce(h) ==
    /\ pc[h] = "announcing"
    /\ pc' = [pc EXCEPT ![h] = "reading"]
    /\ UNCHANGED <<regVars, connVars, victim, dispatchVars, stopped,
                   disconnected>>

\* A message is read; it may have been buffered before the socket failed.
ReadMessage(h) ==
    /\ pc[h] = "reading"
    /\ pc' = [pc EXCEPT ![h] = "delivering"]
    /\ UNCHANGED <<regVars, connVars, victim, dispatchVars, stopped,
                   disconnected>>

\* onMessage
Deliver(h) ==
    /\ pc[h] = "delivering"
    /\ pc' = [pc EXCEPT ![h] = "reading"]
    /\ UNCHANGED <<regVars, connVars, victim, dispatchVars, stopped,
                   disconnected>>

-------------------------------------------------------------------------------
(***************************************************************************)
(* handleDisconnect(i), run by goroutine t, which goes on at `after'.      *)
(***************************************************************************)
\* Mutant: the room keeps the client.
DisconnectKeepsRoom(t, i, after) ==
    \/ /\ Lookup(i) = {}
       /\ pc' = [pc EXCEPT ![t] = after]
       /\ UNCHANGED <<regVars, victim>>
    \/ \E cc \in Lookup(i) :
         /\ clients' = Without(clients, i)
         /\ victim' = [victim EXCEPT ![t] = cc]
         /\ pc' = [pc EXCEPT ![t] = "reporting"]
         /\ UNCHANGED <<rooms, locked>>

\* Mutant: the goroutine's own connection is reported, registered or not.
DisconnectUnchecked(t, i, after) ==
    \E cc \in {x \in Conns : id[x] = i} :
         /\ clients' = Without(clients, i)
         /\ SetMembers(room[cc], Without(Members(room[cc]), i))
         /\ victim' = [victim EXCEPT ![t] = cc]
         /\ pc' = [pc EXCEPT ![t] = "reporting"]
         /\ UNCHANGED locked

\* Under s.mu: whoever is registered under i is taken out of both maps.
Disconnect(t, i, after) ==
    /\ ~locked /\ UNCHANGED locked
    /\ \/ /\ Lookup(i) = {}
          /\ pc' = [pc EXCEPT ![t] = after]
          /\ UNCHANGED <<clients, rooms, victim>>
       \/ \E cc \in Lookup(i) :
            /\ clients' = Without(clients, i)
            /\ SetMembers(room[cc], Without(Members(room[cc]), i))
            /\ victim' = [victim EXCEPT ![t] = cc]
            /\ pc' = [pc EXCEPT ![t] = "reporting"]

\* onDisconnect, outside the lock.
ReportDisconnect(t) ==
    /\ pc[t] = "reporting"
    /\ disconnected' = [disconnected EXCEPT ![victim[t]] = @ + 1]
    /\ pc' = [pc EXCEPT ![t] = "closing"]
    /\ UNCHANGED <<regVars, connVars, victim, dispatchVars, stopped>>

\* Mutant: the dispatcher, too, returns after it disconnected a client.
CloseVictimAndReturn(t) ==
    /\ pc[t] = "closing"
    /\ socket' = [socket EXCEPT ![victim[t]] = "closed"]
    /\ victim' = [victim EXCEPT ![t] = None]
    /\ pc' = [pc EXCEPT ![t] = "returned"]
    /\ UNCHANGED <<regVars, id, room, left, dispatchVars, stopped, disconnected>>

\* cc.Conn.Close()
CloseVictim(t) ==
    /\ pc[t] = "closing"
    /\ socket' = [socket EXCEPT ![victim[t]] = "closed"]
    /\ victim' = [victim EXCEPT ![t] = None]
    /\ pc' = [pc EXCEPT ![t] = IF t = Dispatcher THEN "writing" ELSE "returned"]
    /\ UNCHANGED <<regVars, id, room, left, dispatchVars, stopped, disconnected>>

\* Mutant: the handler returns without handleDisconnect.
ReadFailsSilently(h) ==
    /\ pc[h] = "reading"
    /\ socket[h] \in {"gone", "closed"}
    /\ pc' = [pc EXCEPT ![h] = "returned"]
    /\ UNCHANGED <<regVars, victim>>
    /\ UNCHANGED <<connVars, dispatchVars, stopped, disconnected>>

ReadFails(h) ==
    /\ pc[h] = "reading"
    /\ socket[h] \in {"gone", "closed"}
    /\ Disconnect(h, id[h], "returned")
    /\ UNCHANGED <<connVars, dispatchVars, stopped, disconnected>>

-------------------------------------------------------------------------------
(***************************************************************************)
(* The dispatcher: the clients are copied under s.mu and written to after. *)
(***************************************************************************)
Starts(recipients, all) ==
    /\ pc[Dispatcher] = "idle"
    /\ ~locked
    /\ pc' = [pc EXCEPT ![Dispatcher] = "writing"]
    /\ todo' = recipients
    /\ broadcasting' = all
    /\ UNCHANGED <<regVars, connVars, victim, stopped, disconnected>>

BroadcastMessage == Starts(clients, TRUE)
MessageToRoom(r) == r \in DOMAIN rooms /\ Starts(rooms[r], FALSE)
MessageToConnection(i) == Lookup(i) # {} /\ Starts(Lookup(i), FALSE)

WriteSucceeds(c) ==
    /\ pc[Dispatcher] = "writing"
    /\ c \in todo
    /\ socket[c] \in {"open", "gone"}
    /\ todo' = todo \ {c}
    /\ UNCHANGED <<regVars, connVars, pc, victim, broadcasting, stopped,
                   disconnected>>

\* Mutant: the client disconnected is not the one whose write failed.
WriteFailsDisconnectsOther(c) ==
    /\ pc[Dispatcher] = "writing"
    /\ c \in todo
    /\ socket[c] \in {"gone", "closed"}
    /\ todo' = todo \ {c}
    /\ IF broadcasting
       THEN \E d \in todo : Disconnect(Dispatcher, id[d], "writing")
       ELSE UNCHANGED <<regVars, pc, victim>>
    /\ UNCHANGED <<connVars, broadcasting, stopped, disconnected>>

\* Only BroadcastMessage does anything about an error.
WriteFails(c) ==
    /\ pc[Dispatcher] = "writing"
    /\ c \in todo
    /\ socket[c] \in {"gone", "closed"}
    /\ todo' = todo \ {c}
    /\ IF broadcasting
       THEN Disconnect(Dispatcher, id[c], "writing")
       ELSE UNCHANGED <<regVars, pc, victim>>
    /\ UNCHANGED <<connVars, broadcasting, stopped, disconnected>>

WritesEnd ==
    /\ pc[Dispatcher] = "writing"
    /\ todo = {}
    /\ pc' = [pc EXCEPT ![Dispatcher] = "idle"]
    /\ broadcasting' = FALSE
    /\ UNCHANGED <<regVars, connVars, victim, todo, stopped, disconnected>>

-------------------------------------------------------------------------------
\* The peer closes the WebSocket or is lost.
PeerLeaves(h) ==
    /\ socket[h] = "open"
    /\ socket' = [socket EXCEPT ![h] = "gone"]
    /\ left' = left \cup {h}
    /\ UNCHANGED <<regVars, id, room, pc, victim, dispatchVars, stopped,
                   disconnected>>

\* Stop: the HTTP server takes no more requests ...
StopListening ==
    /\ ~stopped
    /\ stopped' = TRUE
    /\ UNCHANGED <<regVars, connVars, pc, victim, dispatchVars, disconnected>>

\* ... and, under s.mu, the registered connections are closed.
StopCloses ==
    /\ stopped
    /\ ~locked
    /\ socket' = [h \in Conns |-> IF h \in clients THEN "closed" ELSE socket[h]]
    /\ left' = left \cup clients
    /\ UNCHANGED <<regVars, id, room, pc, victim, dispatchVars, stopped,
                   disconnected>>

-------------------------------------------------------------------------------
HandleConnection(h) ==
    \/ Request(h)
    \/ TurnedAway(h)
    \/ \E i \in Ids, r \in Rooms : Accepted(h, i, r)
    \/ \E r \in Rooms : AcceptedWithoutId(h, r)
    \/ Register(h)
    \/ Announce(h)
    \/ ReadMessage(h)
    \/ Deliver(h)
    \/ ReadFails(h)
    \/ ReportDisconnect(h)
    \/ CloseVictim(h)

Dispatch ==
    \/ BroadcastMessage
    \/ \E r \in Rooms : MessageToRoom(r)
    \/ \E i \in Ids : MessageToConnection(i)
    \/ \E c \in Conns : WriteSucceeds(c) \/ WriteFails(c)
    \/ WritesEnd
    \/ ReportDisconnect(Dispatcher)
    \/ CloseVictim(Dispatcher)

Next ==
    \/ \E h \in Conns : HandleConnection(h) \/ PeerLeaves(h)
    \/ Dispatch
    \/ StopListening
    \/ StopCloses

Spec == Init /\ [][Next]_vars

(***************************************************************************)
(* A handler that can run runs, its callbacks return (BackendPool's        *)
(* SendsReturn), and a socket that failed runs out of buffered messages.   *)
(* Nothing is assumed of the dispatcher, which a client that does not read *)
(* blocks for as long as it likes, or of a backend's answer.               *)
(***************************************************************************)
Fairness ==
    \A h \in Conns :
       /\ WF_vars(Register(h) \/ Announce(h) \/ Deliver(h)
                    \/ ReportDisconnect(h) \/ CloseVictim(h))
       /\ SF_vars(ReadFails(h))

FairSpec == Spec /\ Fairness

-------------------------------------------------------------------------------
(***************************************************************************)
(* Properties.  They are about a backend that gives every connection a     *)
(* client_id of its own, unless said otherwise.                            *)
(***************************************************************************)
(* The two maps agree: a client is registered exactly when it is in the    *)
(* room it was given, and no room is empty (but one that was being made    *)
(* when s.mu was left locked), although two goroutines may disconnect the  *)
(* same client.                                                            *)
RegistryAgrees ==
    /\ \A r \in DOMAIN rooms :
          /\ rooms[r] # {} \/ locked
          /\ \A h \in rooms[r] : h \in clients /\ room[h] = r
    /\ \A h \in clients : h \in Members(room[h])

(* "Disconnect the last - room should be cleaned up" (server_test.go:150): *)
(* no room keeps a client whose handler has returned.                      *)
RoomsHoldLiveClients ==
    \A r \in DOMAIN rooms : \A h \in rooms[r] : pc[h] # "returned"

(* The backend hears of the end of every connection it accepted and that   *)
(* was registered, once: when the handler has returned, the report has been*)
(* made or the dispatcher, which took the client out, is about to make it. *)
ReportedOnce ==
    \A h \in Conns :
       /\ disconnected[h] <= 1
       /\ pc[h] = "returned" /\ id[h] # None =>
            \/ disconnected[h] = 1
            \/ victim[Dispatcher] = h /\ pc[Dispatcher] = "reporting"

(* A connection is disconnected only when its own socket failed or Stop    *)
(* closed it, never because of another connection.                         *)
OnlyFailedDisconnected ==
    \A h \in Conns : disconnected[h] > 0 => h \in left

(* A client that left is taken out of the registry, whatever the           *)
(* dispatcher is blocked on, unless s.mu is left locked.                   *)
GoneClientsUnregistered ==
    \A h \in Conns : (h \in left /\ h \in clients) ~> (h \notin clients \/ locked)
===============================================================================
