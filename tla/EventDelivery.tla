----------------------------- MODULE EventDelivery -----------------------------
(***************************************************************************)
(* What TCPServer.sendMessage promises about each message, with no         *)
(* connection, goroutine or queue in sight.  A message is new until its    *)
(* send takes effect; then it is written to a backend, or refused with an  *)
(* error, or, if it is an event, buffered.  A buffered event leaves the    *)
(* buffer by being written, once, or by being dropped, and only when an    *)
(* event is put into a full buffer.  Written, refused and dropped are      *)
(* final.                                                                  *)
(***************************************************************************)
CONSTANTS Events, ConnRequests

VARIABLE status

Messages == Events \cup ConnRequests

TypeOK == status \in
    [Messages -> {"new", "buffered", "written", "refused", "dropped"}]

Init == status = [m \in Messages |-> "new"]

Write(m) ==
    /\ status[m] \in {"new", "buffered"}
    /\ status' = [status EXCEPT ![m] = "written"]

Refuse(m) ==
    /\ status[m] = "new"
    /\ status' = [status EXCEPT ![m] = "refused"]

\* Room for e is made by dropping at most one event, d; d = e drops none.
Buffer(e, d) ==
    /\ status[e] = "new"
    /\ d = e \/ status[d] = "buffered"
    /\ status' = [status EXCEPT ![d] = "dropped", ![e] = "buffered"]

\* A buffered event is put back into a full buffer and pushes out another.
Displace(e, d) ==
    /\ e # d
    /\ status[e] = "buffered"
    /\ status[d] = "buffered"
    /\ status' = [status EXCEPT ![d] = "dropped"]

Next ==
    \/ \E m \in Messages : Write(m) \/ Refuse(m)
    \/ \E e, d \in Events : Buffer(e, d) \/ Displace(e, d)

Spec == Init /\ [][Next]_status
===============================================================================
