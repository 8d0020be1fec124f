------------------------------ MODULE ChatServer ------------------------------
(***************************************************************************)
(* The C++ server: main()'s accept loop, login_procedure (Server.cpp) and  *)
(* MessagingClient::client (MessagingClient.cpp), one thread per           *)
(* connection, over SharedClients and the sockets.  A thread that calls    *)
(* into SharedClients waits until the call is idle again; pc says what it  *)
(* does next.  Messages are whole frames here.                             *)
(***************************************************************************)
EXTENDS SharedClients, Connections, FiniteSets

CONSTANTS All,           \* the recipient name of a broadcast
          Offered,       \* bound: the kinds of request clients make
          MaxRequests,   \* bound: the number of requests a thread reads
          MaxInAll       \* bound: the number all threads read together

VARIABLES pc,         \* where each thread is
          fd,         \* its client_socket
          user,       \* its username
          requests,   \* what it has read in client(), oldest first
          msg         \* the frame it is sending

threadvars == <<pc, fd, user, requests, msg>>
vars == <<scvars, connvars, threadvars>>

(***************************************************************************)
(* What a client can send once logged in.  "skipped" stands for everything *)
(* the loop drops without an answer: a short or corrupt header, ERROR,     *)
(* ACK, NACK and unknown types.  A message body is "intact", "damaged" (it *)
(* does not match its checksum), "short" (not read whole, but the checksum *)
(* does not tell, as what is missing is zero) or "empty" (the read returns *)
(* 0 or fails, and the checksum does not tell).                            *)
(***************************************************************************)
Names == Usernames \cup {All}
Bodies == {"intact", "damaged", "short", "empty"}
Requests == [type : {"skipped", "LOGIN", "WHO", "DISCONNECT"},
             dest : {None}, body : {None}]
            \cup [type : {"MESSAGE"}, dest : Names, body : Bodies]

ASSUME OfferedAssumption == Offered \subseteq Requests
\* A request without a body cannot be taken for one with.
ASSUME BodyAssumption == None \notin Bodies

(***************************************************************************)
(* What the server sends.  num is the packet number that tells the         *)
(* requests of a client apart: its position in requests.  "entered" and    *)
(* "left" are the MESSAGE frames from "server" about the sender.           *)
(***************************************************************************)
Frames == [kind   : {"LOGIN", "ERROR", "WHO", "ACK", "NACK",
                     "MESSAGE", "entered", "left"},
           sender : Threads, num : Nat, dest : Names,
           users  : SUBSET Usernames]

Num(t) == Len(requests[t])
Last(t) == requests[t][Num(t)]

\* Mutant: numbers run one behind.
FrameBehind(t, kind, dest) == [kind |-> kind, sender |-> t, num |-> Num(t) - 1,
                               dest |-> dest, users |-> {}]

Frame(t, kind, dest) == [kind |-> kind, sender |-> t, num |-> Num(t),
                         dest |-> dest, users |-> {}]
WhoFrame(t) == [Frame(t, "WHO", user[t]) EXCEPT !.users = call[t].visited]

PcValues == {"unaccepted", "login", "adding", "reading", "listing",
             "forwarding", "reporting", "departing", "closing", "exited"}

Init == /\ SCInit /\ ConnInit
        /\ pc = [t \in Threads |-> "unaccepted"]
        /\ fd = [t \in Threads |-> None]
        /\ user = [t \in Threads |-> None]
        /\ requests = [t \in Threads |-> <<>>]
        /\ msg = [t \in Threads |-> None]

Returned(t) == call[t].phase = "idle"
At(t, p) == server_up /\ pc[t] = p /\ Returned(t)
Goto(t, p) == pc' = [pc EXCEPT ![t] = p]

-------------------------------------------------------------------------------
\* main(): a client connects and gets a thread of its own, ...
Accept(t) == /\ At(t, "unaccepted")
             /\ \E s \in Sockets : AcceptOn(s, t) /\ fd' = [fd EXCEPT ![t] = s]
             /\ Goto(t, "login")
             /\ UNCHANGED <<scvars, user, requests, msg>>

\* ... or accept() fails and the server exits.
AcceptFails(t) == /\ At(t, "unaccepted")
                  /\ AcceptErrs
                  /\ ServerStops
                  /\ UNCHANGED <<scvars, threadvars>>

\* login_procedure: the first header is short, corrupt or not a LOGIN.
BadLogin(t) == /\ At(t, "login")
               /\ CloseSocket(fd[t])
               /\ Goto(t, "exited")
               /\ UNCHANGED <<scvars, fd, user, requests, msg>>

Login(t, u) == /\ At(t, "login")
               /\ user' = [user EXCEPT ![t] = u]
               /\ Invoke(t, "add_new_user", u, fd[t])
               /\ Goto(t, "adding")
               /\ UNCHANGED <<connvars, fd, requests, msg>>

\* The name is taken: send the error, whatever comes of it, and close.
RefuseLogin(t) ==
    /\ At(t, "adding") /\ ~call[t].ok
    /\ Accepted(fd[t], Frame(t, "ERROR", user[t])) \/ Rejected(fd[t])
    /\ Goto(t, "closing")
    /\ UNCHANGED <<scvars, fd, user, requests, msg>>

\* The name is ours: send LOGIN back, then enter client(), which announces
\* us to the others before its loop.
Greet(t) == /\ At(t, "adding") /\ call[t].ok
            /\ Accepted(fd[t], Frame(t, "LOGIN", user[t]))
            /\ msg' = [msg EXCEPT ![t] = Frame(t, "entered", All)]
            /\ Invoke(t, "send_to_all", user[t], None)
            /\ Goto(t, "reading")
            /\ UNCHANGED <<fd, user, requests>>

\* LOGIN cannot be sent: close and return, leaving the map as it is.
GreetFails(t) == /\ At(t, "adding") /\ call[t].ok
                 /\ Rejected(fd[t])
                 /\ Goto(t, "closing")
                 /\ UNCHANGED <<scvars, fd, user, requests, msg>>

\* Either of the direct sends of login_procedure on a broken connection.
GreetKilled(t) == /\ At(t, "adding")
                  /\ SigPipe(fd[t])
                  /\ UNCHANGED <<scvars, threadvars>>

-------------------------------------------------------------------------------
(***************************************************************************)
(* The loop of client().                                                   *)
(***************************************************************************)
\* A number for every request read.
AllRead == UNION {{t} \X (1..Num(t)) : t \in Threads}

Read(t, r) == /\ At(t, "reading")
              /\ r \in Offered
              /\ Num(t) < MaxRequests /\ Cardinality(AllRead) < MaxInAll
              /\ requests' = [requests EXCEPT ![t] = Append(@, r)]
              /\ UNCHANGED <<connvars, fd, user>>

Simple(type) == [type |-> type, dest |-> None, body |-> None]

\* A call of send_to_client or send_to_all by t, made in the step that reads
\* a request: its frame carries the number of that request.
Answer(t, op, name, kind, dest) ==
    /\ msg' = [msg EXCEPT ![t] = [Frame(t, kind, dest) EXCEPT !.num = Num(t) + 1]]
    /\ Invoke(t, op, name, None)

ReadSkipped(t) == /\ Read(t, Simple("skipped"))
                  /\ UNCHANGED <<scvars, pc, msg>>

ReadLogin(t) == /\ Read(t, Simple("LOGIN"))
                /\ Answer(t, "send_to_client", user[t], "ERROR", user[t])
                /\ UNCHANGED pc

ReadWho(t) == /\ Read(t, Simple("WHO"))
              /\ Invoke(t, "get_logged_in_users", None, None)
              /\ Goto(t, "listing")
              /\ UNCHANGED msg

AnswerWho(t) == /\ At(t, "listing")
                /\ msg' = [msg EXCEPT ![t] = WhoFrame(t)]
                /\ Invoke(t, "send_to_client", user[t], None)
                /\ Goto(t, "reading")
                /\ UNCHANGED <<connvars, fd, user, requests>>

\* Mutant: a damaged message is passed on after the NACK.
ReadMessagePassesDamaged(t, dest, body) ==
    /\ Read(t, [type |-> "MESSAGE", dest |-> dest, body |-> body])
    /\ Answer(t, "send_to_client", user[t],
              IF body = "damaged" THEN "NACK" ELSE "ACK", user[t])
    /\ Goto(t, CASE body = "short" -> "reading"
                 [] body = "empty" -> "departing"
                 [] body \in {"intact", "damaged"} -> "forwarding")

\* MESSAGE: a body that fails its checksum is answered with NACK, any other
\* with ACK; only then the size of what was read is looked at, and a body
\* that is not whole is dropped, or ends the session.
ReadMessage(t, dest, body) ==
    /\ Read(t, [type |-> "MESSAGE", dest |-> dest, body |-> body])
    /\ Answer(t, "send_to_client", user[t],
              IF body = "damaged" THEN "NACK" ELSE "ACK", user[t])
    /\ Goto(t, CASE body \in {"damaged", "short"} -> "reading"
                 [] body = "empty"  -> "departing"
                 [] body = "intact" -> "forwarding")

\* Mutant: passing on is left for later, and whatever has not been passed on
\* yet may then come next.
ForwardUnordered(t) ==
    \/ /\ At(t, "forwarding")
       /\ Goto(t, "reading")
       /\ UNCHANGED <<scvars, connvars, fd, user, requests, msg>>
    \/ /\ At(t, "reading")
       /\ \E k \in DOMAIN requests[t] :
              LET f == [Frame(t, "MESSAGE", requests[t][k].dest) EXCEPT !.num = k] IN
              /\ requests[t][k].body = "intact"
              /\ \A d \in Threads : \A i \in DOMAIN outbox[d] : outbox[d][i] # f
              /\ msg' = [msg EXCEPT ![t] = f]
              /\ IF f.dest = All THEN Invoke(t, "send_to_all", user[t], None)
                                 ELSE Invoke(t, "send_to_client", f.dest, None)
       /\ UNCHANGED <<pc, connvars, fd, user, requests>>

\* The message is passed on to the room or to one client.
Forward(t) ==
    /\ At(t, "forwarding")
    /\ msg' = [msg EXCEPT ![t] = Frame(t, "MESSAGE", Last(t).dest)]
    /\ \/ /\ Last(t).dest = All
          /\ Invoke(t, "send_to_all", user[t], None)
          /\ Goto(t, "reading")
       \/ /\ Last(t).dest # All
          /\ Invoke(t, "send_to_client", Last(t).dest, None)
          /\ Goto(t, "reporting")
    /\ UNCHANGED <<connvars, fd, user, requests>>

\* Mutant: nobody looks at the result of send_to_client.
ReportNothing(t) ==
    /\ At(t, "reporting")
    /\ Goto(t, "reading")
    /\ UNCHANGED <<scvars, connvars, fd, user, requests, msg>>

\* A direct message that did not reach its addressee is reported back.
Report(t) ==
    /\ At(t, "reporting")
    /\ \/ /\ call[t].ok
          /\ UNCHANGED <<scvars, msg>>
       \/ /\ ~call[t].ok
          /\ msg' = [msg EXCEPT ![t] = Frame(t, "ERROR", user[t])]
          /\ Invoke(t, "send_to_client", user[t], None)
    /\ Goto(t, "reading")
    /\ UNCHANGED <<connvars, fd, user, requests>>

ReadDisconnect(t) == /\ Read(t, Simple("DISCONNECT"))
                     /\ Answer(t, "send_to_all", user[t], "left", All)
                     /\ Goto(t, "departing")

\* Mutant: the thread does not log a lost client out.
ReadFailsForgets(t) == /\ At(t, "reading")
                       /\ ReadEnds(t)
                       /\ Goto(t, "closing")
                       /\ UNCHANGED <<scvars, fd, user, requests, msg>>

\* The stream ends or fails: client() returns without a word to the others.
ReadFails(t) == /\ At(t, "reading")
                /\ ReadEnds(t)
                /\ Goto(t, "departing")
                /\ UNCHANGED <<scvars, fd, user, requests, msg>>

\* Mutant: the socket is closed before the client is logged out.
LogOutAfterClose(t) == /\ At(t, "departing")
                       /\ CloseSocket(fd[t])
                       /\ Invoke(t, "log_out_user", user[t], None)
                       /\ Goto(t, "closing")
                       /\ UNCHANGED <<fd, user, requests, msg>>

\* Mutant: the entry is erased without a call, hence without the lock.
LogOutUnlocked(t) == /\ At(t, "departing")
                     /\ client_objects' = [client_objects EXCEPT ![user[t]] = None]
                     /\ Goto(t, "closing")
                     /\ UNCHANGED <<readers, writer, call, connvars, fd, user,
                                    requests, msg>>

\* Back in login_procedure: log out, then close.
LogOut(t) == /\ At(t, "departing")
             /\ Invoke(t, "log_out_user", user[t], None)
             /\ Goto(t, "closing")
             /\ UNCHANGED <<connvars, fd, user, requests, msg>>

Close(t) == /\ At(t, "closing")
            /\ CloseSocket(fd[t])
            /\ Goto(t, "exited")
            /\ UNCHANGED <<scvars, fd, user, requests, msg>>

-------------------------------------------------------------------------------
\* A step of the SharedClients call t is in.
InCall(t) == /\ server_up
             /\ LockStep(t)
             /\ UNCHANGED <<connvars, threadvars>>

\* One send under the read lock, to the socket the map gives for u.
Send(t, u) == /\ server_up
              /\ \/ SendTo(t, u, TRUE) /\ Accepted(client_objects[u], msg[t])
                 \/ SendTo(t, u, FALSE) /\ Rejected(client_objects[u])
              /\ UNCHANGED threadvars

SendKilled(t, u) == /\ server_up
                    /\ call[t].phase = "locked" /\ call[t].op \in SendOps
                    /\ u \in Recipients(t) \ call[t].visited
                    /\ SigPipe(client_objects[u])
                    /\ UNCHANGED <<scvars, threadvars>>

\* What the client decides: connecting, and what it sends.
Client(t) == \/ Accept(t) \/ AcceptFails(t)
             \/ BadLogin(t) \/ \E u \in Usernames : Login(t, u)
             \/ ReadSkipped(t) \/ ReadLogin(t) \/ ReadWho(t)
             \/ \E dest \in Names, body \in Bodies : ReadMessage(t, dest, body)
             \/ ReadDisconnect(t) \/ ReadFails(t)

\* What the thread does by itself: the sends, which wait for the peer to
\* read, and the rest.
Sends(t) == \/ RefuseLogin(t) \/ Greet(t) \/ GreetFails(t) \/ GreetKilled(t)
            \/ \E u \in Usernames : Send(t, u) \/ SendKilled(t, u)
Silent(t) == \/ AnswerWho(t) \/ Forward(t) \/ Report(t) \/ LogOut(t) \/ Close(t)
             \/ InCall(t)

\* The server has stopped, or every thread waits for its client.
Done == /\ \/ ~server_up
           \/ \A t \in Threads : /\ Returned(t)
                                 /\ pc[t] \in {"unaccepted", "login", "reading", "exited"}
        /\ UNCHANGED vars

Next == Done \/ \E t \in Threads : Client(t) \/ Sends(t) \/ Silent(t)

Spec == Init /\ [][Next]_vars

(***************************************************************************)
(* Fairness: the scheduler runs every thread that can run.  Clients owe    *)
(* nothing: a send goes on only while its peer reads, which no code of the *)
(* server guarantees.  A property that needs it says so (PeersRead).       *)
(***************************************************************************)
FairSpec == Spec /\ \A t \in Threads : WF_vars(Silent(t))
PeersRead == \A t \in Threads : WF_vars(Sends(t))

-------------------------------------------------------------------------------
TypeOK == /\ SCTypeOK
          /\ fdtable \in [Sockets -> Threads \cup {None}]
          /\ peer \in [Threads -> {"open", "closed", "broken"}]
          /\ outbox \in [Threads -> Seq(Frames)]
          /\ server_up \in BOOLEAN
          /\ pc \in [Threads -> PcValues]
          /\ fd \in [Threads -> Sockets \cup {None}]
          /\ user \in [Threads -> Usernames \cup {None}]
          /\ requests \in [Threads -> Seq(Requests)]
          /\ msg \in [Threads -> Frames \cup {None}]

\* Between add_new_user's success and log_out_user's return, a thread is the
\* session of its user.
Registered(t) ==
    \/ pc[t] = "adding" /\ Returned(t) /\ call[t].ok
    \/ pc[t] \in {"reading", "listing", "forwarding", "reporting", "departing"}
    \/ pc[t] = "closing" /\ ~Returned(t)

\* A thread that was added, but could not be told so: Server.cpp:146-152.
Abandoned(t) == /\ pc[t] \in {"closing", "exited"}
                /\ call[t].op = "add_new_user" /\ call[t].ok

\* A session's map entry is its own connection, open, from add_new_user to
\* log_out_user: nobody else gets the name, and since log_out_user comes
\* before close (Server.cpp:160-162) the descriptor in the map is never one
\* that has been closed, or reused for another client.
SessionOwnsEntry ==
    \A t \in Threads : Registered(t) => /\ client_objects[user[t]] = fd[t]
                                       /\ fdtable[fd[t]] = t

\* Every entry of the map is a session's, but for those left behind by a
\* LOGIN answer that could not be sent (Server.cpp:146-152): no other path
\* out of login_procedure leaks one.
EveryEntryHasASession ==
    \A u \in Users : \E t \in Threads :
        user[t] = u /\ fd[t] = client_objects[u] /\ (Registered(t) \/ Abandoned(t))

\* What is sent to one user reaches that user's connection and no other, as
\* long as no entry is left behind under that name (SharedClients.cpp:55-62
\* sends to whatever connection the stored descriptor means by then).
DirectMessagesReachAddressee ==
    \A d \in Threads : \A i \in DOMAIN outbox[d] :
        LET f == outbox[d][i] IN
        \/ f.dest \in {All, user[d]}
        \/ \E t \in Threads : Abandoned(t) /\ user[t] = f.dest

Same(f, g) == f.sender = g.sender /\ f.num = g.num /\ f.kind = g.kind

\* Each client gets what another's thread sends in the order of the requests
\* that caused it, the announcement of its entering first: a message is
\* passed on before the next one is read (MessagingClient.cpp:94-236).
SenderOrder ==
    \A d \in Threads : \A i, j \in DOMAIN outbox[d] :
        (i < j /\ outbox[d][i].sender = outbox[d][j].sender) =>
            outbox[d][i].num <= outbox[d][j].num

\* Nothing reaches a client twice, but through an entry left behind whose
\* descriptor is in use again: one pass over the map sends each message
\* (SharedClients.cpp:97-110).
NothingTwice ==
    \A d \in Threads : \A i, j \in DOMAIN outbox[d] :
        (i < j /\ Same(outbox[d][i], outbox[d][j])) => \E t \in Threads : Abandoned(t)

Sent(d, t, kind, k) ==
    \E i \in DOMAIN outbox[d] :
        outbox[d][i].kind = kind /\ outbox[d][i].sender = t /\ outbox[d][i].num = k

\* Thread t is through with its k-th request.
Handled(t, k) == \/ k < Num(t)
                 \/ pc[t] \in {"closing", "exited"}
                 \/ pc[t] \in {"reading", "departing"} /\ Returned(t)

\* Whoever saw t enter and is still here has everything t has told the room
\* since, its leaving included: a failed send to one client does not keep
\* the others from getting the message (SharedClients.cpp:97-110).
RoomSeesAll ==
    \A d, t \in Threads :
        (d # t /\ Registered(d) /\ peer[d] # "broken" /\ Sent(d, t, "entered", 0)) =>
            \A k \in DOMAIN requests[t] : Handled(t, k) =>
                LET r == requests[t][k] IN
                /\ (r.dest = All /\ r.body = "intact") => Sent(d, t, "MESSAGE", k)
                /\ r.type = "DISCONNECT" => Sent(d, t, "left", k)

\* Only a message that was acknowledged is passed on: its sender is never
\* asked to send again (NACK) what the others already have, so that resending
\* duplicates nothing (MessagingClient.cpp:183-193).
ForwardedWasAcked ==
    \A d \in Threads : \A i \in DOMAIN outbox[d] :
        LET f == outbox[d][i] IN
        f.kind = "MESSAGE" =>
            /\ ~Sent(f.sender, f.sender, "NACK", f.num)
            /\ peer[f.sender] # "broken" => Sent(f.sender, f.sender, "ACK", f.num)

\* A direct message that was accepted has been delivered to somebody, or its
\* sender has been told (MessagingClient.cpp:216-227).
AcceptedIsSettled ==
    \A t \in Threads : \A k \in DOMAIN requests[t] :
        LET r == requests[t][k] IN
        (r.body = "intact" /\ r.dest # All /\ Handled(t, k) /\ peer[t] # "broken") =>
            \/ \E d \in Threads : Sent(d, t, "MESSAGE", k)
            \/ Sent(t, t, "ERROR", k)

\* The server's threads use SharedClients as it is specified: only through
\* its operations, one call at a time, never touching the map or the lock
\* from outside.
UsesSharedClients == SCSpec

\* Who has asked to log in is answered: with LOGIN, an ERROR or a closed
\* socket (Server.cpp:51-61), as long as all peers read.
LoginAnswered ==
    PeersRead => \A t \in Threads : (pc[t] = "adding" /\ server_up)
                                       ~> (pc[t] # "adding" \/ ~server_up)

\* Who leaves, or is lost, is logged out, and the socket closed, as long as
\* all peers read (Server.cpp:157-162).
DepartureCompletes ==
    PeersRead => \A t \in Threads : (pc[t] = "departing" /\ server_up)
                                       ~> (pc[t] = "exited" \/ ~server_up)

\* Thread t has yet to send, under the read lock, to somebody.
MidSend(t) == Sending(t) /\ ~(Recipients(t) \subseteq call[t].visited)

\* Whether or not peers read: who logs in or out gets the lock and returns,
\* unless a peer keeps somebody else's send waiting for ever; nothing else
\* holds the lock up (SharedClients.cpp:62, 102, 161, 192).
WritersBlockOnSendsOnly ==
    \A t \in Threads : <>[](call[t].op \in WriteOps /\ ~Returned(t))
        => <>~server_up \/ \E s \in Threads \ {t} : <>[]MidSend(s)

-------------------------------------------------------------------------------
(***************************************************************************)
(* What comments of the code say and the code does not do; each is refuted *)
(* by a run.                                                               *)
(***************************************************************************)
\* SharedClients.hpp: get_logged_in_users is the list of logged in users,
\* so every entry of the map is somebody's session.
EntriesAreLoggedIn ==
    \A u \in Users : \E t \in Threads : user[t] = u /\ Registered(t)

\* SharedClients.cpp:84-85: send_to_all returns false "if we weren't able to
\* send the message to one of the clients".  So a thread that is sending
\* one, while all the others only wait for requests, does not end the server.
FailedSendReturns ==
    \A t \in Threads :
        (/\ call[t].op = "send_to_all" /\ call[t].phase = "locked"
         /\ \A s \in Threads \ {t} : pc[s] = "reading" /\ Returned(s)) => server_up
===============================================================================
