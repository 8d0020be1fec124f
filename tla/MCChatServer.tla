----------------------------- MODULE MCChatServer -----------------------------
(* The C++ server with two and three clients, for TLC. *)
EXTENDS ChatServer, TLC
SX == INSTANCE SequencesExt

\* Connections and names are interchangeable; sockets are numbers.
Symmetry == Permutations(Threads) \cup Permutations(Usernames)

\* The request kinds a run offers its clients.
AllRequests == Requests
Talk == {r \in Requests : r.type = "DISCONNECT" \/ r.body = "intact"}
Room == {r \in Talk : r.dest = All \/ r.type = "DISCONNECT"}

(***************************************************************************)
(* A full room: the state the server is in when every client has logged    *)
(* in, one after the other, under a name of its own, and every thread is   *)
(* back in its loop.  Descriptors are in the order of arrival.             *)
(***************************************************************************)
Arrivals == {f \in [Threads -> Sockets] : SX!IsInjective(f)}
Namings == {f \in [Threads -> Usernames] : SX!IsInjective(f)}

Entered(t) == [kind |-> "entered", sender |-> t, num |-> 0,
               dest |-> All, users |-> {}]

RoomInit == \E seat \in Arrivals, name \in Namings :
    /\ client_objects = [u \in Usernames |->
           IF \E t \in Threads : name[t] = u
           THEN seat[CHOOSE t \in Threads : name[t] = u] ELSE None]
    /\ readers = {} /\ writer = None
    /\ call = [t \in Threads |-> [op |-> "send_to_all", name |-> name[t],
                   sock |-> None, phase |-> "idle", visited |-> {}, ok |-> TRUE]]
    /\ fdtable = [s \in Sockets |->
           IF \E t \in Threads : seat[t] = s
           THEN CHOOSE t \in Threads : seat[t] = s ELSE None]
    /\ peer = [t \in Threads |-> "open"]
    /\ outbox = [t \in Threads |->
           <<[kind |-> "LOGIN", sender |-> t, num |-> 0,
              dest |-> name[t], users |-> {}]>>
           \o [i \in 1..Cardinality({r \in Threads : seat[r] > seat[t]}) |->
                  Entered(SX!SetToSortSeq({r \in Threads : seat[r] > seat[t]},
                                          LAMBDA r, q : seat[r] < seat[q])[i])]]
    /\ server_up = TRUE
    /\ pc = [t \in Threads |-> "reading"]
    /\ fd = seat
    /\ user = name
    /\ requests = [t \in Threads |-> <<>>]
    /\ msg = [t \in Threads |-> Entered(t)]

RoomSpec == RoomInit /\ [][Next]_vars
===============================================================================
