----------------------------- MODULE ChatRoomProofs -----------------------------
(***************************************************************************)
(* What the C++ server sends, for any number of threads, names, sockets    *)
(* and requests: what is passed on was acknowledged, what was accepted is  *)
(* settled, each sender's frames come out in order, and whoever is in the  *)
(* room is told everything.  What a thread has sent, and still has to, is  *)
(* read off its place, its last request and the call it is in (Task); what *)
(* a call under way has done, off the users it has come to (Visits).       *)
(***************************************************************************)
EXTENDS ChatServerProofs

Early(t) == pc[t] \in {"unaccepted", "login", "adding"}

\* The call t is in, and the frame it sends, for its last request.
Doing(t, op, name, kind) == /\ call[t].op = op /\ call[t].name = name
                            /\ msg[t].kind = kind
                            /\ msg[t].sender = t /\ msg[t].num = Num(t)

Acked(t) == Sent(t, t, "ACK", Num(t)) \/ peer[t] = "broken"

\* The last request is a whole message, ...
Whole(t) == Num(t) > 0 /\ Last(t).type = "MESSAGE" /\ Last(t).body = "intact"

\* ... or something the client is answered, once.
Answering(t) ==
    \/ pc[t] = "reading" /\ Last(t).type = "LOGIN" /\ Doing(t, "send_to_client", user[t], "ERROR")
    \/ pc[t] = "listing" /\ Last(t).type = "WHO" /\ call[t].op = "get_logged_in_users"
    \/ pc[t] = "reading" /\ Last(t).type = "WHO" /\ Doing(t, "send_to_client", user[t], "WHO")
    \/ /\ pc[t] = "reading" /\ Last(t).type = "MESSAGE" /\ Last(t).body = "damaged"
       /\ Doing(t, "send_to_client", user[t], "NACK")
    \/ /\ pc[t] \in {"reading", "departing"}
       /\ Last(t).type = "MESSAGE" /\ Last(t).body \in {"short", "empty"}
       /\ Doing(t, "send_to_client", user[t], "ACK")
    \/ pc[t] = "departing" /\ Last(t).type = "DISCONNECT" /\ Doing(t, "send_to_all", user[t], "left")

\* What t does for a whole message.
Passing(t) ==
    \/ pc[t] = "forwarding" /\ Doing(t, "send_to_client", user[t], "ACK")
    \/ /\ pc[t] = "reading" /\ Last(t).dest = All /\ Acked(t)
       /\ Doing(t, "send_to_all", user[t], "MESSAGE")
    \/ /\ pc[t] = "reporting" /\ Last(t).dest # All /\ Acked(t)
       /\ Doing(t, "send_to_client", Last(t).dest, "MESSAGE")
    \/ /\ pc[t] = "reading" /\ Last(t).dest # All
       /\ Doing(t, "send_to_client", user[t], "ERROR")

\* A session inside a call.
Task(t) == pc[t] \in InSession /\ ~Returned(t) =>
    \/ Num(t) = 0 /\ pc[t] = "reading" /\ Doing(t, "send_to_all", user[t], "entered")
    \/ Num(t) > 0 /\ Answering(t)
    \/ Whole(t) /\ Passing(t)

\* A session between two calls for one request.
Between(t) == Returned(t) =>
    /\ pc[t] = "listing" => Num(t) > 0 /\ Last(t).type = "WHO"
    /\ pc[t] = "forwarding" => Whole(t) /\ Acked(t)
    /\ pc[t] = "reporting" => /\ Whole(t) /\ Last(t).dest # All
                              /\ call[t].ok => \E d \in Threads : Sent(d, t, "MESSAGE", Num(t))

\* Thread d will not be sent anything again under its own name.
Gone(d) == pc[d] \in {"closing", "exited"} /\ Returned(d)

\* d has seen t enter, and can still be reached.
Hearing(d, t) == /\ d # t /\ Sent(d, t, "entered", 0)
                 /\ peer[d] # "broken" /\ ~Gone(d)

\* What the send under way of t has done.
Visits(t) == call[t].op \in SendOps =>
    /\ call[t].phase = "waiting" => call[t].visited = {}
    /\ call[t].phase = "locked" =>
         LET sentTo(d) == Sent(d, t, msg[t].kind, msg[t].num) IN
         /\ (call[t].name = user[t] /\ call[t].name \in call[t].visited /\ call[t].op = "send_to_client")
                => sentTo(t) \/ peer[t] = "broken"
         /\ (call[t].visited # {} /\ call[t].ok) => \E d \in Threads : sentTo(d)
         /\ (call[t].op = "send_to_all" /\ msg[t].kind # "entered") =>
                \A d \in Threads : \A u \in call[t].visited :
                    (Hearing(d, t) /\ client_objects[u] = fd[d]) => sentTo(d)

\* A frame that has been sent.
GoodFrame(f) ==
    LET s == f.sender IN
    /\ f.num <= Num(s)
    /\ f.kind = "MESSAGE" => /\ f.num > 0 /\ requests[s][f.num].body = "intact"
                             /\ Sent(s, s, "ACK", f.num) \/ peer[s] = "broken"
    /\ f.kind = "NACK" => f.num > 0 /\ requests[s][f.num].body = "damaged"
FramesOf(d) == {outbox[d][i] : i \in DOMAIN outbox[d]}
GoodFrames == \A d \in Threads : \A f \in FramesOf(d) : GoodFrame(f)

\* Nothing was read before the login, or sent to or from an early thread.
StartsEmpty(t) ==
    /\ Early(t) => /\ requests[t] = <<>>
                   /\ \A d \in Threads : \A i \in DOMAIN outbox[d] : outbox[d][i].sender # t
    /\ pc[t] = "unaccepted" => outbox[t] = <<>>

\* A descriptor that refers to a connection is its thread's.
FdBack(s) == fdtable[s] # None => /\ fd[fdtable[s]] = s
                                  /\ pc[fdtable[s]] \notin {"unaccepted", "exited"}

FlowInv == /\ \A t \in Threads : Task(t) /\ Between(t) /\ Visits(t) /\ StartsEmpty(t)
           /\ \A s \in Sockets : FdBack(s)
           /\ GoodFrames

\* Who has heard t enter is in the map under another name than t's.
Listed(d, t) == Hearing(d, t) => \E u \in Users \ {user[t]} : client_objects[u] = fd[d]

\* Who has heard t enter has what t is through with.
ToldAll(d, t) == Hearing(d, t) =>
    \A k \in DOMAIN requests[t] : Handled(t, k) =>
        LET r == requests[t][k] IN
        /\ (r.dest = All /\ r.body = "intact") => Sent(d, t, "MESSAGE", k)
        /\ r.type = "DISCONNECT" => Sent(d, t, "left", k)

RoomInv == \A d, t \in Threads : Listed(d, t) /\ ToldAll(d, t)

\* A frame that t is to send has not been sent.
Fresh(d, t) ==
    /\ (~Returned(t) /\ call[t].op \in SendOps /\ Sent(d, t, msg[t].kind, msg[t].num))
           => user[d] \in call[t].visited
    /\ pc[t] = "listing" => ~Sent(d, t, "WHO", Num(t))
    /\ pc[t] = "forwarding" => ~Sent(d, t, "MESSAGE", Num(t))
    /\ pc[t] \in {"forwarding", "reporting"} => ~Sent(d, t, "ERROR", Num(t))

\* Nothing is sent to a connection that has no name yet.
Unnamed(d) == pc[d] \in {"unaccepted", "login"} => outbox[d] = <<>>

\* SenderOrder and NothingTwice in one.
Ordered ==
    \A d \in Threads : \A i, j \in DOMAIN outbox[d] :
        (i < j /\ outbox[d][i].sender = outbox[d][j].sender) =>
            /\ outbox[d][i].num <= outbox[d][j].num
            /\ Same(outbox[d][i], outbox[d][j]) => \E r \in Threads : Abandoned(r)

OrderInv == /\ Ordered
            /\ \/ \E r \in Threads : Abandoned(r)
               \/ \A d, t \in Threads : Fresh(d, t) /\ Unnamed(d)

-------------------------------------------------------------------------------
(***************************************************************************)
(* What a step adds to what has been sent and read.                        *)
(***************************************************************************)
\* Thread t sends f to connection d: the answer to its login, or the frame
\* of the call it is in.
Delivered(t, d, f) ==
    /\ outbox' = [outbox EXCEPT ![d] = Append(@, f)]
    /\ peer[d] # "broken"
    /\ \/ /\ pc[t] = "adding" /\ Returned(t) /\ d = t /\ pc'[t] \in {"reading", "closing"}
          /\ \E kind \in {"ERROR", "LOGIN"} : f = Frame(t, kind, user[t])
       \/ \E u \in Usernames : /\ SendTo(t, u, TRUE) /\ UNCHANGED threadvars
                               /\ d = fdtable[client_objects[u]] /\ f = msg[t]

LEMMA Deliveries ==
  ASSUME ServerInv, NEW t \in Threads, MoveOf(t)
  PROVE  UNCHANGED outbox \/ \E d \in Threads, f \in Frames : Delivered(t, d, f)
<1>0. ServerInv /\ InStep(t) /\ OwnsSocket(t) /\ ConnTypes /\ ThreadTypes /\ SCTypeOK
  BY DEF ServerInv, SCInv
<1>1. ASSUME NEW kind \in {"ERROR", "LOGIN"}, pc[t] = "adding", Returned(t),
             pc'[t] \in {"reading", "closing"}, Accepted(fd[t], Frame(t, kind, user[t]))
      PROVE  \E d \in Threads, f \in Frames : Delivered(t, d, f)
  <2>1. fdtable[fd[t]] = t /\ user[t] \in Names
    BY <1>0, <1>1 DEF OwnsSocket, InStep, Names
  <2>2. Frame(t, kind, user[t]) \in Frames
    BY <1>0, <2>1, FrameTypes
  <2> QED BY <1>1, <2>1, <2>2 DEF Accepted, Delivered
<1>2. ASSUME NEW u \in Usernames, SendTo(t, u, TRUE), Accepted(client_objects[u], msg[t]),
             UNCHANGED threadvars
      PROVE  \E d \in Threads, f \in Frames : Delivered(t, d, f)
  <2>1. call[t].phase = "locked" /\ call[t].op \in SendOps /\ u \in Recipients(t)
    BY <1>2 DEF SendTo
  <2>2. client_objects[u] \in Sockets
    BY <1>0, <2>1 DEF Recipients, Users, SCTypeOK
  <2>3. msg[t] \in Frames
    BY <1>0, <2>1 DEF InStep, Returned, SendOps
  <2>4. fdtable[client_objects[u]] \in Threads
    BY <1>0, <1>2, <2>2 DEF Accepted, Free, ConnTypes
  <2> QED BY <1>2, <2>3, <2>4 DEF Accepted, Delivered
<1>3. CASE Client(t)
  BY <1>3 DEF Client, Accept, AcceptFails, BadLogin, Login, Read, ReadSkipped, ReadLogin, ReadWho,
              ReadMessage, ReadDisconnect, ReadFails, AcceptOn, ServerStops, CloseSocket, ReadEnds, connvars
<1>4. CASE Sends(t)
  <2>1. CASE RefuseLogin(t) \/ Greet(t) \/ GreetFails(t) \/ GreetKilled(t)
    <3>1. \/ UNCHANGED outbox
          \/ \E kind \in {"ERROR", "LOGIN"} : /\ Accepted(fd[t], Frame(t, kind, user[t]))
                                              /\ pc'[t] \in {"reading", "closing"}
      BY <1>0, <2>1 DEF RefuseLogin, Greet, GreetFails, GreetKilled, Rejected, SigPipe, ServerStops, connvars,
                        Goto, ThreadTypes
    <3>2. pc[t] = "adding" /\ Returned(t)
      BY <2>1 DEF RefuseLogin, Greet, GreetFails, GreetKilled, At
    <3> QED BY <1>1, <3>1, <3>2
  <2>2. ASSUME NEW u \in Usernames, Send(t, u) \/ SendKilled(t, u)
        PROVE  \/ UNCHANGED outbox
               \/ SendTo(t, u, TRUE) /\ Accepted(client_objects[u], msg[t]) /\ UNCHANGED threadvars
    BY <2>2 DEF Send, SendKilled, Rejected, SigPipe, ServerStops, connvars
  <2> QED BY <1>2, <1>4, <2>1, <2>2 DEF Sends
<1>5. CASE Silent(t)
  BY <1>5 DEF Silent, AnswerWho, Forward, Report, LogOut, Close, InCall, CloseSocket, connvars
<1> QED BY <1>3, <1>4, <1>5 DEF MoveOf

\* Requests, frames and broken connections only become more.
Grows ==
    \A s \in Threads :
        /\ Num(s) <= Num(s)'
        /\ \A n \in 1..Num(s) : requests'[s][n] = requests[s][n]
        /\ \A i \in DOMAIN outbox[s] : i \in DOMAIN outbox'[s] /\ outbox'[s][i] = outbox[s][i]
        /\ peer[s] = "broken" => peer'[s] = "broken"

\* A step of t reads nothing, or one request.
ReadOne(t, r) == requests' = [requests EXCEPT ![t] = Append(@, r)]
LEMMA ReadsOne ==
  ASSUME NEW t \in Threads, MoveOf(t)
  PROVE  UNCHANGED requests \/ \E r \in Requests : pc[t] = "reading" /\ Returned(t) /\ ReadOne(t, r)
<1>1. ASSUME NEW r, r \in Requests, Read(t, r)
      PROVE  \E q \in Requests : pc[t] = "reading" /\ Returned(t) /\ ReadOne(t, q)
  BY <1>1 DEF Read, At, ReadOne
<1>2. \A type \in {"skipped", "LOGIN", "WHO", "DISCONNECT"} : Simple(type) \in Requests
  BY DEF Simple, Requests
<1>3. \A dest \in Names, body \in Bodies :
          [type |-> "MESSAGE", dest |-> dest, body |-> body] \in Requests
  BY DEF Requests
<1>4. CASE Client(t)
  <2>1. CASE ReadSkipped(t) \/ ReadLogin(t) \/ ReadWho(t) \/ ReadDisconnect(t)
    BY <1>1, <1>2, <2>1 DEF ReadSkipped, ReadLogin, ReadWho, ReadDisconnect
  <2>2. CASE \E dest \in Names, body \in Bodies : ReadMessage(t, dest, body)
    BY <1>1, <1>3, <2>2 DEF ReadMessage
  <2>3. CASE \/ Accept(t) \/ AcceptFails(t) \/ BadLogin(t) \/ ReadFails(t)
             \/ \E u \in Usernames : Login(t, u)
    BY <2>3 DEF Accept, AcceptFails, BadLogin, ReadFails, Login, threadvars
  <2> QED BY <1>4, <2>1, <2>2, <2>3 DEF Client
<1>5. CASE Sends(t) \/ Silent(t)
  BY <1>5 DEF Sends, Silent, RefuseLogin, Greet, GreetFails, GreetKilled, Send, SendKilled,
              AnswerWho, Forward, Report, LogOut, Close, InCall, threadvars
<1> QED BY <1>4, <1>5 DEF MoveOf

\* A broken connection stays broken.
LEMMA BrokenStays ==
  ASSUME NEW t \in Threads, MoveOf(t), ConnTypes, NEW s \in Threads, peer[s] = "broken"
  PROVE  peer'[s] = "broken"
<1>1. UNCHANGED peer \/ \E r : ResetSeen(r) \/ (peer[r] = "open" /\ peer' = [peer EXCEPT ![r] = "closed"])
  <2>1. CASE Client(t)
    BY <2>1 DEF Client, Accept, AcceptFails, BadLogin, Login, Read, ReadSkipped, ReadLogin, ReadWho,
                ReadMessage, ReadDisconnect, ReadFails, AcceptOn, ServerStops, CloseSocket, ReadEnds, connvars
  <2>2. CASE Sends(t)
    BY <2>2 DEF Sends, RefuseLogin, Greet, GreetFails, GreetKilled, Send, SendKilled, Accepted, Rejected,
                SigPipe, ServerStops, connvars
  <2>3. CASE Silent(t)
    BY <2>3 DEF Silent, AnswerWho, Forward, Report, LogOut, Close, InCall, CloseSocket, connvars
  <2> QED BY <2>1, <2>2, <2>3 DEF MoveOf
<1> QED BY <1>1 DEF ResetSeen, ConnTypes

LEMMA StepGrows ==
  ASSUME ServerInv, NEW t \in Threads, MoveOf(t) PROVE Grows
<1>0. ThreadTypes /\ ConnTypes
  BY DEF ServerInv
<1> SUFFICES ASSUME NEW s \in Threads
             PROVE  /\ Num(s) <= Num(s)'
                    /\ \A n \in 1..Num(s) : requests'[s][n] = requests[s][n]
                    /\ \A i \in DOMAIN outbox[s] : i \in DOMAIN outbox'[s] /\ outbox'[s][i] = outbox[s][i]
                    /\ peer[s] = "broken" => peer'[s] = "broken"
  BY DEF Grows
<1>1. Num(s) <= Num(s)' /\ \A n \in 1..Num(s) : requests'[s][n] = requests[s][n]
  <2>1. requests[s] \in Seq(Requests)
    BY <1>0 DEF ThreadTypes
  <2>2. requests'[s] = requests[s] \/ \E r \in Requests : requests'[s] = Append(requests[s], r)
    BY <1>0, ReadsOne DEF ReadOne, ThreadTypes
  <2> QED BY <2>1, <2>2 DEF Num
<1>2. \A i \in DOMAIN outbox[s] : i \in DOMAIN outbox'[s] /\ outbox'[s][i] = outbox[s][i]
  <2>1. outbox[s] \in Seq(Frames)
    BY <1>0 DEF ConnTypes
  <2>2. outbox'[s] = outbox[s] \/ \E f \in Frames : outbox'[s] = Append(outbox[s], f)
    <3>1. UNCHANGED outbox \/ \E d \in Threads, f \in Frames :
                                  outbox' = [outbox EXCEPT ![d] = Append(@, f)]
      BY Deliveries DEF Delivered
    <3> QED BY <1>0, <3>1 DEF ConnTypes
  <2> QED BY <2>1, <2>2
<1> QED BY <1>0, <1>1, <1>2, BrokenStays

\* What has been sent has been sent; what is new is what the step delivers.
LEMMA SentStays ==
  ASSUME Grows, NEW d \in Threads, NEW t, NEW kind, NEW k, Sent(d, t, kind, k)
  PROVE  Sent(d, t, kind, k)'
BY DEF Grows, Sent

LEMMA SentNew ==
  ASSUME ServerInv, NEW t \in Threads, NEW d \in Threads, NEW f \in Frames, Delivered(t, d, f)
  PROVE  /\ Sent(d, f.sender, f.kind, f.num)'
         /\ \A e \in Threads : \A s, kind, k :
                Sent(e, s, kind, k)' =>
                    \/ Sent(e, s, kind, k)
                    \/ e = d /\ s = f.sender /\ kind = f.kind /\ k = f.num
         /\ \A e \in Threads : \A i \in DOMAIN outbox'[e] :
                \/ i \in DOMAIN outbox[e] /\ outbox'[e][i] = outbox[e][i]
                \/ e = d /\ i = Len(outbox[d]) + 1 /\ outbox'[e][i] = f
<1>0. \A e \in Threads : outbox[e] \in Seq(Frames)
  BY DEF ServerInv, ConnTypes
<1>1. /\ outbox'[d] = Append(outbox[d], f)
      /\ \A e \in Threads \ {d} : outbox'[e] = outbox[e]
  BY DEF Delivered, ServerInv, ConnTypes
<1>2. \A e \in Threads : \A i \in DOMAIN outbox'[e] :
                \/ i \in DOMAIN outbox[e] /\ outbox'[e][i] = outbox[e][i]
                \/ e = d /\ i = Len(outbox[d]) + 1 /\ outbox'[e][i] = f
  BY <1>0, <1>1
<1>3. Len(outbox[d]) + 1 \in DOMAIN outbox'[d] /\ outbox'[d][Len(outbox[d]) + 1] = f
  BY <1>0, <1>1
<1>4. Sent(d, f.sender, f.kind, f.num)'
  BY <1>3 DEF Sent
<1>5. ASSUME NEW e \in Threads, NEW s, NEW kind, NEW k, Sent(e, s, kind, k)'
      PROVE  \/ Sent(e, s, kind, k)
             \/ e = d /\ s = f.sender /\ kind = f.kind /\ k = f.num
  <2>1. PICK i \in DOMAIN outbox'[e] : /\ outbox'[e][i].kind = kind
                                       /\ outbox'[e][i].sender = s /\ outbox'[e][i].num = k
    BY <1>5 DEF Sent
  <2> QED BY <1>2, <2>1 DEF Sent
<1> QED BY <1>2, <1>4, <1>5

-------------------------------------------------------------------------------
(***************************************************************************)
(* Where threads are.                                                      *)
(***************************************************************************)
\* A descriptor refers to a connection while its thread has it: accept and
\* close are the only ones to change either.
LEMMA FdBackStep ==
  ASSUME ServerInv, \A s \in Sockets : FdBack(s), NEW t \in Threads, MoveOf(t)
  PROVE  \A s \in Sockets : FdBack(s)'
<1> SUFFICES ASSUME NEW s \in Sockets PROVE FdBack(s)'
  OBVIOUS
<1>1. Alone(t) /\ (Keeps(t) \/ Accepts(t) \/ Closes(t)) /\ FdBack(s)
  BY StepAlone, StepConnections
<1>2. InStep(t) /\ OwnsSocket(t) /\ ConnTypes /\ ThreadTypes
  BY DEF ServerInv
<1> USE ServerAssumption DEF FdBack, OwnsSocket, InStep, ConnTypes, ThreadTypes
<1>3. CASE Keeps(t)
  BY <1>1, <1>2, <1>3 DEF Keeps, Alone
<1>4. CASE Accepts(t)
  BY <1>1, <1>2, <1>4 DEF Accepts, Alone
<1>5. CASE Closes(t)
  BY <1>1, <1>2, <1>5 DEF Closes, Alone
<1> QED BY <1>1, <1>3, <1>4, <1>5

\* A thread goes from place to place in the order of the code.
Follows(t) ==
    /\ pc'[t] = "unaccepted" => pc[t] = "unaccepted"
    /\ Early(t)' => Early(t) /\ UNCHANGED requests
    /\ Early(t) => UNCHANGED requests
    /\ Gone(t) => Gone(t)' /\ UNCHANGED requests

LEMMA StepFollows ==
  ASSUME ServerInv, NEW t \in Threads, MoveOf(t) PROVE Follows(t)
<1> USE DEF At, Goto, Early, Gone, Follows
<1>0. SCTypeOK /\ ThreadTypes /\ InStep(t)
  BY DEF ServerInv, SCInv
<1>a. UNCHANGED scvars => (Returned(t)' <=> Returned(t))
  BY DEF scvars, Returned
<1>1. CASE Client(t)
  <2>1. CASE Accept(t) \/ AcceptFails(t) \/ BadLogin(t) \/ ReadFails(t)
    BY <1>0, <1>a, <2>1 DEF Accept, AcceptFails, BadLogin, ReadFails, threadvars, ThreadTypes
  <2>2. CASE \E u \in Usernames : Login(t, u)
    BY <1>0, <2>2 DEF Login, ThreadTypes
  <2>3. CASE \/ ReadSkipped(t) \/ ReadLogin(t) \/ ReadWho(t) \/ ReadDisconnect(t)
             \/ \E dest \in Names, body \in Bodies : ReadMessage(t, dest, body)
    <3>1. pc[t] = "reading" /\ pc'[t] \in {"reading", "listing", "forwarding", "departing"}
      BY <1>0, <2>3 DEF ReadSkipped, ReadLogin, ReadWho, ReadDisconnect, ReadMessage, Bodies, Read, ThreadTypes
    <3> QED BY <3>1
  <2> QED BY <1>1, <2>1, <2>2, <2>3 DEF Client
<1>2. CASE Sends(t)
  <2>1. CASE RefuseLogin(t) \/ Greet(t) \/ GreetFails(t) \/ GreetKilled(t)
    BY <1>0, <1>a, <2>1 DEF RefuseLogin, Greet, GreetFails, GreetKilled, threadvars, ThreadTypes
  <2>2. CASE \E u \in Usernames : Send(t, u) \/ SendKilled(t, u)
    <3>1. UNCHANGED threadvars /\ ~Returned(t)
      BY <2>2 DEF Send, SendKilled, SendTo, Returned
    <3> QED BY <3>1 DEF threadvars
  <2> QED BY <1>2, <2>1, <2>2 DEF Sends
<1>3. CASE Silent(t)
  <2>1. CASE AnswerWho(t) \/ Forward(t) \/ Report(t) \/ LogOut(t)
    BY <1>0, <2>1 DEF AnswerWho, Forward, Report, LogOut, ThreadTypes
  <2>2. CASE Close(t)
    BY <1>0, <1>a, <2>2 DEF Close, ThreadTypes
  <2>3. CASE InCall(t)
    <3>1. UNCHANGED threadvars /\ ~Returned(t)
      BY <1>0, <2>3, CallKeepsRequest DEF InCall, Returned
    <3> QED BY <3>1 DEF threadvars
  <2> QED BY <1>3, <2>1, <2>2, <2>3 DEF Silent
<1> QED BY <1>1, <1>2, <1>3 DEF MoveOf

\* What is delivered is its thread's, numbered by its last request.
LEMMA DeliveredFrame ==
  ASSUME ServerInv, FlowInv, NEW t \in Threads, MoveOf(t),
         NEW d \in Threads, NEW f \in Frames, Delivered(t, d, f)
  PROVE  /\ f.sender = t /\ f.num = Num(t) /\ GoodFrame(f) /\ ~Early(t)'
         /\ pc[d] # "unaccepted" /\ UNCHANGED requests
         /\ \/ Early(t) /\ f.kind \in {"ERROR", "LOGIN"} /\ Num(t) = 0
            \/ ~Early(t) /\ f = msg[t] /\ Sending(t) /\ pc[t] \in InSession
<1>0. InStep(t) /\ Task(t) /\ StartsEmpty(t) /\ SCTypeOK /\ ThreadTypes /\ ConnTypes
  BY DEF ServerInv, SCInv, FlowInv
<1>1. CASE /\ pc[t] = "adding" /\ Returned(t) /\ d = t /\ pc'[t] \in {"reading", "closing"}
           /\ \E kind \in {"ERROR", "LOGIN"} : f = Frame(t, kind, user[t])
  <2>1. Early(t) /\ ~Early(t)' /\ UNCHANGED requests
    BY <1>1, StepFollows DEF Early, Follows
  <2>2. Num(t) = 0
    BY <1>0, <2>1 DEF StartsEmpty, Num
  <2>3. f.sender = t /\ f.num = Num(t) /\ f.kind \in {"ERROR", "LOGIN"}
    BY <1>1 DEF Frame
  <2>4. GoodFrame(f)
    BY <2>2, <2>3 DEF GoodFrame
  <2> QED BY <1>1, <2>1, <2>2, <2>3, <2>4
<1>2. ASSUME NEW u \in Usernames, SendTo(t, u, TRUE), UNCHANGED threadvars,
             d = fdtable[client_objects[u]], f = msg[t]
      PROVE  /\ f.sender = t /\ f.num = Num(t) /\ GoodFrame(f) /\ ~Early(t)'
             /\ pc[d] # "unaccepted" /\ UNCHANGED requests
             /\ ~Early(t) /\ f = msg[t] /\ Sending(t) /\ pc[t] \in InSession
  <2>1. Sending(t) /\ u \in Recipients(t) /\ ~Returned(t)
    BY <1>2 DEF SendTo, Sending, Returned
  <2>2. pc[t] \in InSession
    BY <1>0, <2>1 DEF InStep, Sending, SendOps
  <2>3. client_objects[u] \in Sockets
    BY <1>0, <2>1 DEF Recipients, Users, SCTypeOK
  <2>4. pc[d] # "unaccepted"
    BY <1>2, <2>3, ServerAssumption DEF FlowInv, FdBack
  <2>5. f.sender = t /\ f.num = Num(t) /\ (f.kind = "MESSAGE" => Whole(t) /\ Acked(t))
        /\ (f.kind = "NACK" => Num(t) > 0 /\ Last(t).body = "damaged")
    <3>1. CASE Doing(t, "send_to_all", user[t], "entered") \/ (Num(t) > 0 /\ Answering(t))
      BY <1>2, <2>1, <3>1 DEF Doing, Answering, Sending, SendOps
    <3>2. CASE Whole(t) /\ Passing(t)
      BY <1>2, <3>2 DEF Passing, Doing
    <3> QED BY <1>0, <2>1, <2>2, <3>1, <3>2 DEF Task
  <2>6. Num(t) \in Nat
    BY <1>0 DEF Num, ThreadTypes
  <2>7. GoodFrame(f)
    BY <2>5, <2>6 DEF GoodFrame, Whole, Last, Acked
  <2> QED BY <1>2, <2>1, <2>2, <2>4, <2>5, <2>7 DEF threadvars, Early, InSession
<1> QED BY <1>1, <1>2 DEF Delivered

-------------------------------------------------------------------------------
(***************************************************************************)
(* FlowInv, first what it says of frames, then of other threads, then of   *)
(* the one that moves.                                                     *)
(***************************************************************************)
LEMMA MoveKeeps ==
  ASSUME ServerInv, NEW t \in Threads, MoveOf(t) PROVE ServerInv'
BY ServerInvStep DEF Next, MoveOf

LEMMA StartsEmptyStep ==
  ASSUME ServerInv, FlowInv, NEW t \in Threads, MoveOf(t), NEW r \in Threads
  PROVE  StartsEmpty(r)'
<1>0. StartsEmpty(r) /\ Alone(t) /\ Follows(t) /\ ThreadTypes /\ ConnTypes
  BY StepAlone, StepFollows DEF FlowInv, ServerInv
<1>1. Early(r)' => Early(r) /\ requests'[r] = requests[r]
  BY <1>0 DEF Alone, Follows, Early
<1>2. ASSUME Early(r)', NEW d \in Threads, NEW i \in DOMAIN outbox'[d] PROVE outbox'[d][i].sender # r
  <2>1. CASE UNCHANGED outbox
    BY <1>0, <1>1, <1>2, <2>1 DEF StartsEmpty
  <2>2. CASE UNCHANGED outbox \/ \E e \in Threads, f \in Frames : Delivered(t, e, f)
    <3>1. CASE \E e \in Threads, f \in Frames : Delivered(t, e, f)
      <4>1. PICK e \in Threads, f \in Frames : Delivered(t, e, f)
        BY <3>1
      <4>2. f.sender = t /\ ~Early(t)'
        BY <4>1, DeliveredFrame
      <4>3. \/ i \in DOMAIN outbox[d] /\ outbox'[d][i] = outbox[d][i]
            \/ outbox'[d][i] = f
        BY <4>1, SentNew
      <4> QED BY <1>0, <1>1, <1>2, <4>2, <4>3 DEF StartsEmpty
    <3> QED BY <2>1, <2>2, <3>1
  <2> QED BY <2>2, Deliveries
<1>3. ASSUME pc'[r] = "unaccepted" PROVE outbox'[r] = <<>>
  <2>1. pc[r] = "unaccepted" /\ outbox[r] = <<>>
    BY <1>0, <1>3 DEF Alone, Follows, StartsEmpty
  <2>2. CASE \E e \in Threads, f \in Frames : Delivered(t, e, f)
    <3>1. PICK e \in Threads, f \in Frames : Delivered(t, e, f)
      BY <2>2
    <3>2. r # e
      BY <2>1, <3>1, DeliveredFrame
    <3> QED BY <1>0, <2>1, <3>1, <3>2 DEF Delivered, ConnTypes
  <2> QED BY <2>1, <2>2, Deliveries
<1> QED BY <1>0, <1>1, <1>2, <1>3 DEF StartsEmpty

LEMMA GoodFramesStep ==
  ASSUME ServerInv, FlowInv, NEW t \in Threads, MoveOf(t)
  PROVE  GoodFrames'
<1>0. Grows /\ ConnTypes /\ ThreadTypes /\ ThreadTypes'
  BY StepGrows, MoveKeeps DEF ServerInv
<1>1. ASSUME NEW f \in Frames, GoodFrame(f) PROVE GoodFrame(f)'
  <2>1. f.sender \in Threads /\ f.num \in Nat
    BY DEF Frames
  <2>2. Num(f.sender) \in Nat /\ Num(f.sender) <= Num(f.sender)' /\ Num(f.sender)' \in Nat
    <3>1. requests[f.sender] \in Seq(Requests) /\ requests'[f.sender] \in Seq(Requests)
      BY <1>0, <2>1 DEF ThreadTypes
    <3> QED BY <1>0, <2>1, <3>1 DEF Grows, Num
  <2>3. f.num > 0 => f.num \in 1..Num(f.sender)
    BY <1>1, <2>1, <2>2 DEF GoodFrame
  <2>4. f.num > 0 => requests'[f.sender][f.num] = requests[f.sender][f.num]
    BY <1>0, <2>1, <2>3 DEF Grows
  <2>5. Sent(f.sender, f.sender, "ACK", f.num) => Sent(f.sender, f.sender, "ACK", f.num)'
    BY <1>0, <2>1, SentStays
  <2>6. peer[f.sender] = "broken" => peer'[f.sender] = "broken"
    BY <1>0, <2>1 DEF Grows
  <2> QED BY <1>1, <2>1, <2>2, <2>4, <2>5, <2>6 DEF GoodFrame
<1>2. ASSUME NEW d \in Threads, NEW f, NEW i \in DOMAIN outbox'[d], outbox'[d][i] = f
      PROVE  GoodFrame(f)'
  <2>1. CASE i \in DOMAIN outbox[d] /\ outbox'[d][i] = outbox[d][i]
    BY <1>0, <1>1, <1>2, <2>1 DEF FlowInv, GoodFrames, FramesOf, ConnTypes
  <2>2. CASE \E e \in Threads, g \in Frames : Delivered(t, e, g)
    <3>1. PICK e \in Threads, g \in Frames : Delivered(t, e, g)
      BY <2>2
    <3>2. GoodFrame(g) /\ (f = g \/ (i \in DOMAIN outbox[d] /\ outbox'[d][i] = outbox[d][i]))
      BY <1>2, <3>1, SentNew, DeliveredFrame
    <3> QED BY <1>1, <2>1, <3>2
  <2> QED BY <1>2, <2>1, <2>2, Deliveries
<1> QED BY <1>2 DEF GoodFrames, FramesOf

\* Nobody enters or leaves the map while a send is under way.
LEMMA MapStill ==
  ASSUME ServerInv, NEW t \in Threads, MoveOf(t), NEW r \in Threads, Sending(r)
  PROVE  UNCHANGED client_objects
<1>0. SCTypeOK /\ LockHeldInside /\ CallShape
  BY DEF ServerInv, SCInv
<1>1. r \in readers
  BY <1>0 DEF Sending, LockHeldInside, ReadOps
<1>2. InsertUser(t) \/ EraseUser(t) => writer = t
  BY <1>0 DEF InsertUser, EraseUser, LockHeldInside, WriteOps
<1> QED BY <1>0, <1>1, <1>2, MapChanges, ServerAssumption DEF LockHeldInside

\* Who hears t has heard t before, on the same descriptor, unless t is just
\* being announced.
LEMMA HearingBack ==
  ASSUME ServerInv, FlowInv, NEW t \in Threads, MoveOf(t), NEW d \in Threads, NEW r \in Threads,
         Hearing(d, r)', ~(r = t /\ Sending(t) /\ msg[t].kind = "entered")
  PROVE  Hearing(d, r) /\ fd'[d] = fd[d]
<1>0. StartsEmpty(d) /\ Alone(t) /\ Follows(t) /\ Grows
  BY StepAlone, StepFollows, StepGrows DEF FlowInv
<1>1. Sent(d, r, "entered", 0)
  <2>1. CASE UNCHANGED outbox
    BY <2>1 DEF Hearing, Sent
  <2>2. CASE \E e \in Threads, f \in Frames : Delivered(t, e, f)
    <3>1. PICK e \in Threads, f \in Frames : Delivered(t, e, f)
      BY <2>2
    <3>2. ~(f.sender = r /\ f.kind = "entered")
      BY <3>1, DeliveredFrame
    <3> QED BY <3>1, <3>2, SentNew DEF Hearing
  <2> QED BY <2>1, <2>2, Deliveries
<1>2. ~Gone(d)
  BY <1>0 DEF Alone, Follows, Gone, Hearing, Returned
<1>3. pc[d] # "unaccepted"
  BY <1>0, <1>1 DEF StartsEmpty, Sent
<1>4. fd'[d] = fd[d]
  BY <1>0, <1>3, StepConnections DEF Alone, Keeps, Accepts, Closes
<1> QED BY <1>0, <1>1, <1>2, <1>4 DEF Hearing, Grows

\* As long as a thread is in the same call, or in none, it is where it was.
LEMMA TaskStays ==
  ASSUME Grows, NEW r \in Threads, Task(r), ~Returned(r),
         pc'[r] = pc[r], user'[r] = user[r], requests'[r] = requests[r], msg'[r] = msg[r],
         call'[r].op = call[r].op, call'[r].name = call[r].name
  PROVE  Task(r)'
<1>1. Num(r)' = Num(r) /\ Last(r)' = Last(r)
  BY DEF Num, Last
<1>2. \A op, name, kind : Doing(r, op, name, kind) => Doing(r, op, name, kind)'
  BY <1>1 DEF Doing
<1>3. Acked(r) => Acked(r)'
  <2>1. Sent(r, r, "ACK", Num(r)) => Sent(r, r, "ACK", Num(r))'
    BY <1>1, SentStays DEF Sent, Grows
  <2> QED BY <2>1 DEF Acked, Grows
<1>4. Answering(r) => Answering(r)'
  BY <1>1, <1>2 DEF Answering
<1>5. Whole(r) => Whole(r)'
  BY <1>1 DEF Whole
<1>6. Passing(r) => Passing(r)'
  BY <1>1, <1>2, <1>3 DEF Passing
<1> QED BY <1>1, <1>2, <1>4, <1>5, <1>6 DEF Task

LEMMA BetweenStays ==
  ASSUME Grows, NEW r \in Threads, Between(r), Returned(r), pc'[r] = pc[r],
         requests'[r] = requests[r], call'[r] = call[r]
  PROVE  Between(r)'
<1>1. Num(r)' = Num(r) /\ Last(r)' = Last(r)
  BY DEF Num, Last
<1>2. Acked(r) => Acked(r)'
  BY <1>1 DEF Acked, Sent, Grows
<1>3. Whole(r) => Whole(r)'
  BY <1>1 DEF Whole
<1>4. \A d \in Threads : Sent(d, r, "MESSAGE", Num(r)) => Sent(d, r, "MESSAGE", Num(r))'
  BY <1>1 DEF Sent, Grows
<1> QED BY <1>1, <1>2, <1>3, <1>4 DEF Between

\* The threads that stand still.
LEMMA OthersFlow ==
  ASSUME ServerInv, FlowInv, NEW t \in Threads, MoveOf(t), NEW r \in Threads \ {t}
  PROVE  Task(r)' /\ Between(r)' /\ Visits(r)'
<1>0. Task(r) /\ Between(r) /\ Visits(r) /\ Alone(t) /\ Grows
  BY StepAlone, StepGrows DEF FlowInv
<1>1. Task(r)'
  BY <1>0, TaskStays DEF Alone, Task, Returned
<1>2. Between(r)'
  BY <1>0, BetweenStays DEF Alone, Between, Returned
<1>3. Visits(r)'
  <2> SUFFICES ASSUME Sending(r) PROVE Visits(r)'
    BY <1>0 DEF Alone, Visits, Sending
  <2>1. UNCHANGED client_objects /\ call'[r] = call[r] /\ msg'[r] = msg[r] /\ user'[r] = user[r]
    BY <1>0, MapStill DEF Alone
  <2>2. \A d \in Threads : Sent(d, r, msg[r].kind, msg[r].num) => Sent(d, r, msg[r].kind, msg[r].num)'
    BY <1>0, <2>1 DEF Sent, Grows
  <2>3. \A d \in Threads : Hearing(d, r)' => Hearing(d, r) /\ fd'[d] = fd[d]
    BY HearingBack
  <2>4. peer[r] = "broken" => peer'[r] = "broken"
    BY <1>0 DEF Grows
  <2>5. call[r].phase # "waiting"
    BY DEF Sending
  <2> QED BY <1>0, <2>1, <2>2, <2>3, <2>4, <2>5 DEF Visits, Sending
<1> QED BY <1>1, <1>2, <1>3

\* A live thread's descriptor is its connection.
LEMMA HearingOwns ==
  ASSUME ServerInv, FlowInv, NEW d \in Threads, NEW t, Hearing(d, t)
  PROVE  fd[d] \in Sockets /\ fdtable[fd[d]] = d
<1>0. StartsEmpty(d) /\ InStep(d) /\ OwnsSocket(d)
  BY DEF ServerInv, FlowInv
<1>1. pc[d] # "unaccepted"
  BY <1>0 DEF Hearing, Sent, StartsEmpty
<1>2. pc[d] # "exited"
  BY <1>0 DEF Hearing, Gone, InStep, InSession
<1> QED BY <1>0, <1>1, <1>2 DEF OwnsSocket, InStep

\* A sent frame that the socket took is at the other end.
LEMMA SendDelivers ==
  ASSUME ServerInv, NEW t \in Threads, NEW u \in Usernames, Send(t, u),
         NEW d \in Threads, fdtable[client_objects[u]] = d, d # None
  PROVE  \/ /\ SendTo(t, u, TRUE)
            /\ Sent(d, t, msg[t].kind, msg[t].num)' \/ msg[t].sender # t
         \/ SendTo(t, u, FALSE) /\ peer'[d] = "broken"
<1>0. ConnTypes /\ InStep(t)
  BY DEF ServerInv
<1>1. CASE SendTo(t, u, TRUE) /\ Accepted(client_objects[u], msg[t])
  <2>1. pc[t] \in InSession /\ msg[t] \in Frames
    BY <1>0, <1>1 DEF SendTo, InStep, Returned, SendOps
  <2>2. outbox' = [outbox EXCEPT ![d] = Append(@, msg[t])] /\ outbox[d] \in Seq(Frames)
    BY <1>0, <1>1 DEF Accepted, ConnTypes
  <2>3. Len(outbox[d]) + 1 \in DOMAIN outbox'[d] /\ outbox'[d][Len(outbox[d]) + 1] = msg[t]
    BY <1>0, <2>1, <2>2 DEF ConnTypes
  <2>4. UNCHANGED msg
    BY DEF Send, threadvars
  <2> QED BY <1>1, <2>3, <2>4 DEF Sent
<1>2. CASE SendTo(t, u, FALSE) /\ Rejected(client_objects[u])
  BY <1>0, <1>2 DEF Rejected, ResetSeen, Free, ConnTypes
<1> QED BY <1>1, <1>2 DEF Send

\* A frame of a call under way is its thread's.
LEMMA TaskSender ==
  ASSUME ServerInv, FlowInv, NEW t \in Threads, ~Returned(t), call[t].op \in SendOps
  PROVE  /\ pc[t] \in InSession /\ msg[t].sender = t /\ msg[t].num = Num(t)
         /\ call[t].name = user[t] \/ (Whole(t) /\ pc[t] = "reporting" /\ call[t].op = "send_to_client")
<1>1. InStep(t) /\ Task(t)
  BY DEF ServerInv, FlowInv
<1>2. pc[t] \in InSession
  BY <1>1 DEF InStep, SendOps
<1> QED BY <1>1, <1>2 DEF Task, Answering, Passing, Doing, SendOps

\* The thread itself, while it is in a call ...
LEMMA CallVisits ==
  ASSUME ServerInv, FlowInv, NEW t \in Threads, MoveOf(t), ~Returned(t)
  PROVE  Visits(t)'
<1>0. Visits(t) /\ Grows /\ SCTypeOK /\ UNCHANGED threadvars
  BY StepGrows, WaitsForCall DEF FlowInv, ServerInv, SCInv
<1>a. \A d \in Threads : Sent(d, t, msg[t].kind, msg[t].num) => Sent(d, t, msg[t].kind, msg[t].num)'
  BY <1>0 DEF Sent, Grows, threadvars
<1>b. peer[t] = "broken" => peer'[t] = "broken"
  BY <1>0 DEF Grows
<1>1. \/ UNCHANGED scvars \/ LockStep(t)
      \/ \E u \in Usernames : Send(t, u)
  <2> USE DEF At
  <2>1. ~Client(t)
    BY DEF Client, Accept, AcceptFails, BadLogin, Login, Read, ReadSkipped, ReadLogin,
           ReadWho, ReadMessage, ReadDisconnect, ReadFails
  <2>2. CASE Sends(t)
    BY <2>2 DEF Sends, RefuseLogin, Greet, GreetFails, GreetKilled, SendKilled
  <2>3. CASE Silent(t)
    BY <2>3 DEF Silent, AnswerWho, Forward, Report, LogOut, Close, InCall
  <2> QED BY <2>1, <2>2, <2>3 DEF MoveOf
<1>2. CASE UNCHANGED scvars
  <2>1. \A d \in Threads : msg[t].kind # "entered" /\ Sending(t) /\ Hearing(d, t)' => Hearing(d, t) /\ fd'[d] = fd[d]
    BY HearingBack
  <2> QED BY <1>0, <1>a, <1>b, <1>2, <2>1 DEF scvars, threadvars, Visits, Sending
<1>3. CASE LockStep(t)
  <2>1. CASE RdLock(t)
    <3>1. call[t].phase = "waiting" /\ call'[t].visited = call[t].visited /\ call'[t].op = call[t].op
          /\ call'[t].phase = "locked"
      BY <1>0, <2>1 DEF RdLock, SCTypeOK, Calls
    <3> QED BY <1>0, <3>1 DEF Visits
  <2>2. CASE SendReturns(t)
    BY <1>0, <2>2 DEF SendReturns, SCTypeOK, Calls, Visits
  <2>3. CASE WrLock(t) \/ ListReturns(t) \/ FindUser(t) \/ InsertUser(t) \/ EraseUser(t)
    <3>1. call'[t].op = call[t].op
      BY <1>0, <1>3, CallKeepsRequest
    <3>2. call[t].op \notin SendOps
      <4>1. CallShape
        BY DEF ServerInv, SCInv
      <4> QED BY <2>3, <4>1 DEF WrLock, ListReturns, FindUser, InsertUser, EraseUser, SendOps, WriteOps, CallShape
    <3> QED BY <3>1, <3>2 DEF Visits
  <2> QED BY <1>3, <2>1, <2>2, <2>3 DEF LockStep
<1>4. ASSUME NEW u \in Usernames, Send(t, u) PROVE Visits(t)'
  <2>1. \E sent \in BOOLEAN : SendTo(t, u, sent)
    BY <1>4 DEF Send
  <2>2. /\ call[t].phase = "locked" /\ call'[t].phase = "locked"
        /\ call'[t].op = call[t].op /\ call[t].op \in SendOps /\ call'[t].name = call[t].name
        /\ call'[t].visited = call[t].visited \cup {u} /\ UNCHANGED client_objects
        /\ u \in Recipients(t)
        /\ SendTo(t, u, FALSE) => ~call'[t].ok
        /\ call'[t].ok => call[t].ok
    BY <1>0, <2>1, SendToFields DEF SendTo
  <2>3. msg[t].sender = t /\ msg'[t] = msg[t] /\ user'[t] = user[t] /\ pc[t] \in InSession
    BY <1>0, <2>2, TaskSender DEF threadvars, Returned
  <2>4. client_objects[u] \in Sockets
    BY <1>0, <2>2 DEF Recipients, Users, SCTypeOK
  <2>5. ASSUME u = user[t] PROVE Sent(t, t, msg[t].kind, msg[t].num)' \/ peer'[t] = "broken"
    <3>1. fdtable[client_objects[u]] = t
      BY <2>3, <2>5, SessionHasFd DEF Registered, InSession
    <3> QED BY <1>4, <2>3, <3>1, SendDelivers, ServerAssumption
  <2>6. call'[t].ok => \E d \in Threads : Sent(d, t, msg[t].kind, msg[t].num)'
    <3> SUFFICES ASSUME call'[t].ok PROVE \E d \in Threads : Sent(d, t, msg[t].kind, msg[t].num)'
      OBVIOUS
    <3>1. Accepted(client_objects[u], msg[t])
      BY <1>4, <2>2 DEF Send
    <3>2. fdtable[client_objects[u]] \in Threads
      BY <2>4, <3>1 DEF Accepted, Free, ServerInv, ConnTypes
    <3> QED BY <1>4, <2>2, <2>3, <3>2, SendDelivers, ServerAssumption
  <2>7. ASSUME msg[t].kind # "entered", NEW d \in Threads, Hearing(d, t)', client_objects[u] = fd'[d]
        PROVE  Sent(d, t, msg[t].kind, msg[t].num)'
    <3>1. Hearing(d, t) /\ fd'[d] = fd[d]
      BY <2>7, HearingBack
    <3>2. fdtable[client_objects[u]] = d
      BY <2>7, <3>1, HearingOwns
    <3> QED BY <1>4, <2>3, <2>7, <3>2, SendDelivers, ServerAssumption DEF Hearing
  <2>8. \A d \in Threads : msg[t].kind # "entered" /\ Hearing(d, t)' => Hearing(d, t) /\ fd'[d] = fd[d]
    BY HearingBack
  <2>9. call'[t].name = user'[t] /\ call'[t].name \in call'[t].visited /\ call'[t].op = "send_to_client"
           => Sent(t, t, msg[t].kind, msg[t].num)' \/ peer'[t] = "broken"
    BY <1>0, <1>a, <1>b, <2>2, <2>3, <2>5 DEF Visits
  <2>10. ASSUME call'[t].op = "send_to_all", msg[t].kind # "entered", NEW d \in Threads,
                NEW v \in call'[t].visited, Hearing(d, t)', client_objects'[v] = fd'[d]
         PROVE  Sent(d, t, msg[t].kind, msg[t].num)'
    BY <1>0, <1>a, <2>2, <2>7, <2>8, <2>10 DEF Visits
  <2> QED BY <2>2, <2>3, <2>6, <2>9, <2>10 DEF Visits
<1> QED BY <1>1, <1>2, <1>3, <1>4

\* A step of a thread that is in a call is one of the call.
LEMMA CallMoves ==
  ASSUME NEW t \in Threads, MoveOf(t), ~Returned(t)
  PROVE  \/ UNCHANGED scvars \/ LockStep(t)
         \/ \E u \in Usernames, sent \in BOOLEAN : SendTo(t, u, sent)
<1> USE DEF At
<1>1. ~Client(t)
  BY DEF Client, Accept, AcceptFails, BadLogin, Login, Read, ReadSkipped, ReadLogin,
         ReadWho, ReadMessage, ReadDisconnect, ReadFails
<1>2. CASE Sends(t)
  BY <1>2 DEF Sends, RefuseLogin, Greet, GreetFails, GreetKilled, SendKilled, Send
<1>3. CASE Silent(t)
  BY <1>3 DEF Silent, AnswerWho, Forward, Report, LogOut, Close, InCall
<1> QED BY <1>1, <1>2, <1>3 DEF MoveOf

\* A send that returns has come to every recipient.
LEMMA SendOver ==
  ASSUME ServerInv, NEW t \in Threads, MoveOf(t), ~Returned(t), Returned(t)', call[t].op \in SendOps
  PROVE  /\ call[t].phase = "locked" /\ Recipients(t) \subseteq call[t].visited
         /\ call[t].op = "send_to_client" => call'[t].ok = (call[t].ok /\ call[t].name \in Users)
<1>0. SCTypeOK /\ CallShape
  BY DEF ServerInv, SCInv
<1>1. \/ UNCHANGED scvars \/ LockStep(t)
      \/ \E u \in Usernames, sent \in BOOLEAN : SendTo(t, u, sent)
  BY CallMoves
<1>2. SendReturns(t)
  <2>1. ~UNCHANGED scvars
    BY DEF scvars, Returned
  <2>2. ASSUME NEW u \in Usernames, NEW sent \in BOOLEAN, SendTo(t, u, sent) PROVE FALSE
    <3>1. call'[t].phase = call[t].phase
      BY <1>0, <2>2, SendToFields
    <3> QED BY <3>1 DEF Returned
  <2>3. ~RdLock(t)
    BY <1>0 DEF RdLock, Returned, SCTypeOK, Calls
  <2> QED BY <1>0, <1>1, <2>1, <2>2, <2>3
      DEF LockStep, WrLock, ListReturns, FindUser, InsertUser, EraseUser, WriteOps, SendOps, CallShape
<1> DEFINE ok == call[t].ok /\ (call[t].op = "send_to_client" => call[t].name \in Users)
<1>3. /\ call' = [call EXCEPT ![t] = [@ EXCEPT !.phase = "idle", !.visited = {}, !.ok = ok]]
      /\ call[t].phase = "locked" /\ Recipients(t) \subseteq call[t].visited
  BY <1>2 DEF SendReturns
<1>4. call[t].op = "send_to_client" => ok = (call[t].ok /\ call[t].name \in Users)
  OBVIOUS
<1> HIDE DEF ok
<1> QED BY <1>0, <1>3, <1>4 DEF SCTypeOK, Calls

LEMMA CallTask ==
  ASSUME ServerInv, FlowInv, NEW t \in Threads, MoveOf(t), ~Returned(t)
  PROVE  Task(t)' /\ Between(t)'
<1>0. Task(t) /\ Visits(t) /\ Grows /\ SCTypeOK /\ UNCHANGED threadvars /\ InStep(t)
  BY StepGrows, WaitsForCall DEF FlowInv, ServerInv, SCInv
<1>1. \/ UNCHANGED scvars \/ LockStep(t)
      \/ \E u \in Usernames, sent \in BOOLEAN : SendTo(t, u, sent)
  BY CallMoves
<1>2. call'[t].op = call[t].op /\ call'[t].name = call[t].name
  BY <1>0, <1>1, CallKeepsRequest DEF scvars
<1>3. Task(t)'
  BY <1>0, <1>2, TaskStays DEF threadvars
<1>4. Num(t)' = Num(t) /\ Last(t)' = Last(t) /\ pc'[t] = pc[t]
  BY <1>0 DEF threadvars, Num, Last
<1>5. ASSUME Returned(t)', pc[t] \in {"listing", "forwarding", "reporting"} PROVE Between(t)'
  <2>1. (Num(t) > 0 /\ Answering(t)) \/ (Whole(t) /\ Passing(t))
    <3>1. pc[t] \in InSession /\ pc[t] # "reading"
      BY <1>5 DEF InSession
    <3> QED BY <1>0, <3>1 DEF Task
  <2>2. CASE pc[t] = "listing"
    BY <1>4, <2>1, <2>2 DEF Between, Answering, Passing
  <2>3. CASE pc[t] \in {"forwarding", "reporting"}
    <3>1. Whole(t) /\ Passing(t) /\ call[t].op = "send_to_client"
      BY <2>1, <2>3 DEF Answering, Passing, Doing
    <3>3. /\ call[t].phase = "locked" /\ Recipients(t) \subseteq call[t].visited
          /\ call'[t].ok = (call[t].ok /\ call[t].name \in Users)
      BY <1>5, <3>1, SendOver DEF SendOps
    <3>4. \A d \in Threads : Sent(d, t, msg[t].kind, msg[t].num) => Sent(d, t, msg[t].kind, msg[t].num)'
      BY <1>0 DEF Sent, Grows, threadvars
    <3>5. peer[t] = "broken" => peer'[t] = "broken"
      BY <1>0 DEF Grows
    <3>6. Whole(t)' /\ UNCHANGED msg
      BY <1>0, <1>4, <3>1 DEF Whole, threadvars
    <3>7. CASE pc[t] = "forwarding"
      <4>1. Doing(t, "send_to_client", user[t], "ACK")
        BY <3>1, <3>7 DEF Passing
      <4>2. user[t] \in Users
        BY <3>7, SessionHasFd, ServerAssumption DEF Registered, Users
      <4>3. user[t] \in call[t].visited
        BY <3>3, <4>1, <4>2 DEF Doing, Recipients
      <4>4. Sent(t, t, "ACK", Num(t)) \/ peer[t] = "broken"
        BY <1>0, <3>3, <4>1, <4>3 DEF Visits, Doing, SendOps
      <4>5. Acked(t)'
        BY <1>0, <1>4, <3>5, <4>4 DEF Acked, Sent, Grows
      <4> QED BY <1>4, <3>6, <3>7, <4>5 DEF Between
    <3>8. CASE pc[t] = "reporting"
      <4>1. Doing(t, "send_to_client", Last(t).dest, "MESSAGE") /\ Last(t).dest # All
        BY <3>1, <3>8 DEF Passing
      <4>2. ASSUME call'[t].ok PROVE \E d \in Threads : Sent(d, t, "MESSAGE", Num(t))'
        <5>1. call[t].ok /\ call[t].name \in call[t].visited
          BY <3>3, <4>1, <4>2 DEF Doing, Recipients
        <5>2. \E d \in Threads : Sent(d, t, "MESSAGE", Num(t))
          BY <1>0, <3>3, <4>1, <5>1 DEF Visits, Doing, SendOps
        <5> QED BY <1>0, <1>4, <5>2 DEF Sent, Grows
      <4> QED BY <1>4, <3>6, <3>8, <4>1, <4>2 DEF Between
    <3> QED BY <2>3, <3>7, <3>8
  <2> QED BY <1>5, <2>2, <2>3
<1> QED BY <1>3, <1>4, <1>5 DEF Between

\* ... and between two calls.
LEMMA ReturnedVisits ==
  ASSUME SCTypeOK, NEW t \in Threads, Returned(t)
  PROVE  /\ UNCHANGED scvars => Visits(t)'
         /\ \A op, name, sock : Invoke(t, op, name, sock) => Visits(t)'
<1>1. UNCHANGED scvars => Visits(t)'
  BY DEF scvars, Visits, Returned
<1>2. ASSUME NEW op, NEW name, NEW sock, Invoke(t, op, name, sock) PROVE Visits(t)'
  <2>1. call'[t].phase = "waiting" /\ call'[t].visited = {}
    BY <1>2 DEF Invoke, SCTypeOK
  <2> QED BY <2>1 DEF Visits
<1> QED BY <1>1, <1>2

\* A request that has been read is the last.
LEMMA LastRead ==
  ASSUME ThreadTypes, NEW t \in Threads, NEW r \in Requests, ReadOne(t, r)
  PROVE  Num(t) \in Nat /\ Num(t)' = Num(t) + 1 /\ Last(t)' = r
BY DEF ThreadTypes, ReadOne, Num, Last

\* The answer to a request that is being read is under way.
LEMMA AnswerDoes ==
  ASSUME ServerInv, NEW t \in Threads, NEW r \in Requests, ReadOne(t, r), UNCHANGED user,
         NEW op, NEW name, NEW kind, NEW dest, Answer(t, op, name, kind, dest)
  PROVE  /\ Doing(t, op, name, kind)' /\ ~Returned(t)' /\ Visits(t)'
         /\ Num(t)' > 0 /\ Last(t)' = r
<1>0. SCTypeOK /\ ThreadTypes
  BY DEF ServerInv, SCInv
<1>1. call'[t].phase = "waiting" /\ call'[t].op = op /\ call'[t].name = name
  BY <1>0, InvokeFields DEF Answer
<1>2. msg'[t] = [Frame(t, kind, dest) EXCEPT !.num = Num(t) + 1]
  BY <1>0 DEF Answer, ThreadTypes
<1>3. msg'[t].kind = kind /\ msg'[t].sender = t /\ msg'[t].num = Num(t) + 1
  BY <1>2 DEF Frame
<1>4. Num(t) \in Nat /\ Num(t)' = Num(t) + 1 /\ Last(t)' = r
  BY <1>0, LastRead
<1>5. Returned(t)
  BY DEF Answer, Invoke, Returned
<1>6. Visits(t)'
  BY <1>0, <1>5, ReturnedVisits DEF Answer
<1> QED BY <1>1, <1>3, <1>4, <1>6 DEF Doing, Returned

\* The thread itself, when it is in no call: what it reads it answers, and
\* what it has answered it passes on.
LEMMA ReadFlow ==
  ASSUME ServerInv, FlowInv, NEW t \in Threads, Client(t), Returned(t)
  PROVE  Task(t)' /\ Between(t)' /\ Visits(t)'
<1>0. SCTypeOK /\ ThreadTypes /\ Between(t)
  BY DEF ServerInv, SCInv, FlowInv
<1>a. ASSUME UNCHANGED scvars, pc'[t] \notin {"listing", "forwarding", "reporting"}
      PROVE  Task(t)' /\ Between(t)' /\ Visits(t)'
  <2>1. Returned(t)'
    BY <1>a DEF scvars, Returned
  <2> QED BY <1>0, <1>a, <2>1, ReturnedVisits DEF Task, Between
<1>b. ASSUME NEW r \in Requests, NEW op, NEW kind, NEW dest, Read(t, r),
             Answer(t, op, user[t], kind, dest)
      PROVE  /\ Doing(t, op, user[t], kind)' /\ ~Returned(t)' /\ Visits(t)'
             /\ Num(t)' > 0 /\ Last(t)' = r
  <2>1. ReadOne(t, r) /\ UNCHANGED user
    BY <1>b DEF Read, ReadOne
  <2>2. Doing(t, op, user[t], kind)' /\ ~Returned(t)' /\ Visits(t)' /\ Num(t)' > 0 /\ Last(t)' = r
    <3> DEFINE name == user[t]
    <3>1. UNCHANGED name
      BY <2>1
    <3> QED BY <1>b, <2>1, <3>1, AnswerDoes DEF Doing
  <2> QED BY <2>2
<1>c. \A type \in {"skipped", "LOGIN", "WHO", "DISCONNECT"} :
          Simple(type) \in Requests /\ Simple(type).type = type
  BY DEF Simple, Requests
<1>1. CASE Accept(t) \/ BadLogin(t) \/ ReadSkipped(t) \/ ReadFails(t)
  <2>1. UNCHANGED scvars /\ pc'[t] \notin {"listing", "forwarding", "reporting"}
    BY <1>0, <1>1 DEF Accept, BadLogin, ReadSkipped, ReadFails, Read, Goto, At, ThreadTypes
  <2> QED BY <1>a, <2>1
<1>2. CASE AcceptFails(t)
  <2>1. UNCHANGED scvars /\ UNCHANGED pc /\ pc[t] = "unaccepted"
    BY <1>2 DEF AcceptFails, At, threadvars
  <2> QED BY <1>a, <2>1
<1>3. ASSUME NEW u \in Usernames, Login(t, u) PROVE Task(t)' /\ Between(t)' /\ Visits(t)'
  <2>1. pc'[t] = "adding" /\ Visits(t)'
    BY <1>0, <1>3, ReturnedVisits DEF Login, Goto, ThreadTypes
  <2> QED BY <2>1 DEF Task, Between, InSession
<1>4. CASE ReadLogin(t)
  <2>1. /\ Doing(t, "send_to_client", user[t], "ERROR")' /\ ~Returned(t)' /\ Visits(t)'
        /\ Num(t)' > 0 /\ Last(t)' = Simple("LOGIN")
    BY <1>4, <1>b, <1>c DEF ReadLogin
  <2>2. pc'[t] = "reading"
    BY <1>4 DEF ReadLogin, Read, At
  <2> QED BY <1>c, <2>1, <2>2 DEF Task, Answering, Between
<1>5. CASE ReadWho(t)
  <2>1. ReadOne(t, Simple("WHO")) /\ Invoke(t, "get_logged_in_users", None, None) /\ pc'[t] = "listing"
    BY <1>0, <1>5 DEF ReadWho, Read, ReadOne, Goto, ThreadTypes
  <2>2. Num(t) \in Nat /\ Num(t)' = Num(t) + 1 /\ Last(t)' = Simple("WHO")
    BY <1>0, <1>c, <2>1, LastRead
  <2>3. call'[t].op = "get_logged_in_users" /\ ~Returned(t)' /\ Visits(t)'
    BY <1>0, <2>1, InvokeFields, ReturnedVisits DEF Returned
  <2> QED BY <1>c, <2>1, <2>2, <2>3 DEF Task, Answering, Between
<1>6. ASSUME NEW dest \in Names, NEW body \in Bodies, ReadMessage(t, dest, body)
      PROVE  Task(t)' /\ Between(t)' /\ Visits(t)'
  <2> DEFINE r == [type |-> "MESSAGE", dest |-> dest, body |-> body]
             kind == IF body = "damaged" THEN "NACK" ELSE "ACK"
             next == CASE body \in {"damaged", "short"} -> "reading"
                       [] body = "empty"  -> "departing"
                       [] body = "intact" -> "forwarding"
  <2>1. r \in Requests /\ r.type = "MESSAGE" /\ r.body = body
    BY DEF Requests
  <2>2. Read(t, r) /\ Answer(t, "send_to_client", user[t], kind, user[t])
        /\ pc' = [pc EXCEPT ![t] = next]
    BY <1>6 DEF ReadMessage, Goto
  <2>3. /\ body = "damaged" => kind = "NACK" /\ next = "reading"
        /\ body # "damaged" => kind = "ACK"
        /\ body \in {"short", "empty"} => next \in {"reading", "departing"}
        /\ body = "intact" => next = "forwarding"
        /\ body \in {"damaged", "short", "empty", "intact"}
    BY DEF Bodies
  <2> HIDE DEF r, kind, next
  <2>4. /\ Doing(t, "send_to_client", user[t], kind)' /\ ~Returned(t)' /\ Visits(t)'
        /\ Num(t)' > 0 /\ Last(t)' = r
    BY <1>b, <2>1, <2>2
  <2>5. pc'[t] = next
    BY <1>0, <2>2 DEF ThreadTypes
  <2>6. CASE body = "damaged"
    <3>1. Answering(t)'
      BY <2>1, <2>3, <2>4, <2>5, <2>6 DEF Answering
    <3> QED BY <2>4, <3>1 DEF Task, Between
  <2>7. CASE body \in {"short", "empty"}
    <3>1. Answering(t)'
      BY <2>1, <2>3, <2>4, <2>5, <2>7 DEF Answering
    <3> QED BY <2>4, <3>1 DEF Task, Between
  <2>8. CASE body = "intact"
    <3>1. Whole(t)' /\ Passing(t)'
      BY <2>1, <2>3, <2>4, <2>5, <2>8 DEF Passing, Whole
    <3> QED BY <2>4, <3>1 DEF Task, Between
  <2> QED BY <2>3, <2>6, <2>7, <2>8
<1>7. CASE ReadDisconnect(t)
  <2>1. /\ Doing(t, "send_to_all", user[t], "left")' /\ ~Returned(t)' /\ Visits(t)'
        /\ Num(t)' > 0 /\ Last(t)' = Simple("DISCONNECT")
    BY <1>7, <1>b, <1>c DEF ReadDisconnect
  <2>2. pc'[t] = "departing"
    BY <1>0, <1>7 DEF ReadDisconnect, Goto, ThreadTypes
  <2> QED BY <1>c, <2>1, <2>2 DEF Task, Answering, Between
<1> QED BY <1>1, <1>2, <1>3, <1>4, <1>5, <1>6, <1>7 DEF Client

LEMMA SendFlow ==
  ASSUME ServerInv, FlowInv, NEW t \in Threads, Sends(t) \/ Silent(t), Returned(t)
  PROVE  Task(t)' /\ Between(t)' /\ Visits(t)'
<1>0. SCTypeOK /\ ThreadTypes /\ Between(t) /\ StartsEmpty(t) /\ InStep(t) /\ Grows
  BY StepGrows DEF ServerInv, SCInv, FlowInv, MoveOf
<1>a. ASSUME UNCHANGED scvars, pc'[t] \notin {"listing", "forwarding", "reporting"}
      PROVE  Task(t)' /\ Between(t)' /\ Visits(t)'
  <2>1. Returned(t)'
    BY <1>a DEF scvars, Returned
  <2> QED BY <1>0, <1>a, <2>1, ReturnedVisits DEF Task, Between
<1>b. ASSUME NEW op, NEW name, NEW f, Invoke(t, op, name, None), msg' = [msg EXCEPT ![t] = f],
             f.sender = t, f.num = Num(t), UNCHANGED requests
      PROVE  /\ Doing(t, op, name, f.kind)' /\ ~Returned(t)' /\ Visits(t)'
             /\ Num(t)' = Num(t) /\ Last(t)' = Last(t)
  <2>1. call'[t].phase = "waiting" /\ call'[t].op = op /\ call'[t].name = name
    BY <1>0, <1>b, InvokeFields
  <2>2. msg'[t] = f
    BY <1>0, <1>b DEF ThreadTypes
  <2>3. Num(t)' = Num(t) /\ Last(t)' = Last(t)
    BY <1>b DEF Num, Last
  <2>4. Visits(t)'
    BY <1>0, <1>b, ReturnedVisits
  <2> QED BY <1>b, <2>1, <2>2, <2>3, <2>4 DEF Doing, Returned
<1>1. CASE RefuseLogin(t) \/ GreetFails(t) \/ Close(t)
  <2>1. UNCHANGED scvars /\ pc'[t] \notin {"listing", "forwarding", "reporting"}
    BY <1>0, <1>1 DEF RefuseLogin, GreetFails, Close, Goto, ThreadTypes
  <2> QED BY <1>a, <2>1
<1>2. CASE GreetKilled(t)
  <2>1. UNCHANGED scvars /\ UNCHANGED pc /\ pc[t] = "adding"
    BY <1>2 DEF GreetKilled, At, threadvars
  <2> QED BY <1>a, <2>1
<1>3. CASE Greet(t)
  <2> DEFINE f == Frame(t, "entered", All)
  <2>1. f.sender = t /\ f.num = Num(t) /\ f.kind = "entered"
    BY DEF Frame
  <2>2. /\ Invoke(t, "send_to_all", user[t], None) /\ msg' = [msg EXCEPT ![t] = f]
        /\ UNCHANGED <<requests, user>> /\ pc'[t] = "reading" /\ pc[t] = "adding"
    BY <1>0, <1>3 DEF Greet, At, Goto, ThreadTypes
  <2> HIDE DEF f
  <2>3. Num(t) = 0
    BY <1>0, <2>2 DEF StartsEmpty, Early, Num
  <2>4. Doing(t, "send_to_all", user[t], "entered")' /\ ~Returned(t)' /\ Visits(t)' /\ Num(t)' = 0
    BY <1>b, <2>1, <2>2, <2>3 DEF Doing
  <2> QED BY <2>2, <2>4 DEF Task, Between
<1>4. CASE AnswerWho(t)
  <2> DEFINE f == WhoFrame(t)
  <2>1. f.sender = t /\ f.num = Num(t) /\ f.kind = "WHO"
    BY DEF Frame, WhoFrame
  <2>2. /\ Invoke(t, "send_to_client", user[t], None) /\ msg' = [msg EXCEPT ![t] = f]
        /\ UNCHANGED <<requests, user>> /\ pc'[t] = "reading" /\ pc[t] = "listing"
    BY <1>0, <1>4 DEF AnswerWho, At, Goto, ThreadTypes
  <2> HIDE DEF f
  <2>3. Num(t) > 0 /\ Last(t).type = "WHO"
    BY <1>0, <2>2 DEF Between
  <2>4. /\ Doing(t, "send_to_client", user[t], "WHO")' /\ ~Returned(t)' /\ Visits(t)'
        /\ Num(t)' > 0 /\ Last(t)' = Last(t)
    BY <1>b, <2>1, <2>2, <2>3 DEF Doing
  <2> QED BY <2>2, <2>3, <2>4 DEF Task, Between, Answering
<1>5. CASE Forward(t)
  <2> DEFINE f == Frame(t, "MESSAGE", Last(t).dest)
  <2>1. f.sender = t /\ f.num = Num(t) /\ f.kind = "MESSAGE"
    BY DEF Frame
  <2>2. /\ msg' = [msg EXCEPT ![t] = f] /\ pc[t] = "forwarding"
        /\ UNCHANGED <<requests, user>>
        /\ \/ Last(t).dest = All /\ Invoke(t, "send_to_all", user[t], None) /\ pc'[t] = "reading"
           \/ Last(t).dest # All /\ Invoke(t, "send_to_client", Last(t).dest, None) /\ pc'[t] = "reporting"
    BY <1>0, <1>5 DEF Forward, At, Goto, ThreadTypes
  <2> HIDE DEF f
  <2>3. Whole(t) /\ Acked(t)
    BY <1>0, <2>2 DEF Between
  <2>4. Num(t)' = Num(t) /\ Last(t)' = Last(t)
    BY <2>2 DEF Num, Last
  <2>5. Whole(t)' /\ Acked(t)'
    BY <1>0, <2>3, <2>4 DEF Whole, Acked, Sent, Grows
  <2>6. CASE Last(t).dest = All
    <3>1. Doing(t, "send_to_all", user[t], "MESSAGE")' /\ ~Returned(t)' /\ Visits(t)'
      BY <1>b, <2>1, <2>2, <2>6 DEF Doing
    <3>2. Passing(t)'
      BY <2>2, <2>4, <2>5, <2>6, <3>1 DEF Passing
    <3> QED BY <2>5, <3>1, <3>2 DEF Task, Between
  <2>7. CASE Last(t).dest # All
    <3>1. Doing(t, "send_to_client", Last(t).dest, "MESSAGE")' /\ ~Returned(t)' /\ Visits(t)'
      BY <1>b, <2>1, <2>2, <2>4, <2>7 DEF Doing
    <3>2. Passing(t)'
      BY <2>2, <2>4, <2>5, <2>7, <3>1 DEF Passing
    <3> QED BY <2>5, <3>1, <3>2 DEF Task, Between
  <2> QED BY <2>6, <2>7
<1>6. CASE Report(t)
  <2>1. CASE call[t].ok
    BY <1>0, <1>6, <1>a, <2>1 DEF Report, Goto, ThreadTypes
  <2>2. CASE ~call[t].ok
    <3> DEFINE f == Frame(t, "ERROR", user[t])
    <3>1. f.sender = t /\ f.num = Num(t) /\ f.kind = "ERROR"
      BY DEF Frame
    <3>2. /\ Invoke(t, "send_to_client", user[t], None) /\ msg' = [msg EXCEPT ![t] = f]
          /\ UNCHANGED <<requests, user>> /\ pc'[t] = "reading" /\ pc[t] = "reporting"
      BY <1>0, <1>6, <2>2 DEF Report, At, Goto, ThreadTypes
    <3> HIDE DEF f
    <3>3. Whole(t) /\ Last(t).dest # All
      BY <1>0, <3>2 DEF Between
    <3>4. /\ Doing(t, "send_to_client", user[t], "ERROR")' /\ ~Returned(t)' /\ Visits(t)'
          /\ Num(t)' = Num(t) /\ Last(t)' = Last(t)
      BY <1>b, <3>1, <3>2 DEF Doing
    <3>5. Whole(t)' /\ Passing(t)'
      BY <3>2, <3>3, <3>4 DEF Whole, Passing
    <3> QED BY <3>4, <3>5 DEF Task, Between
  <2> QED BY <2>1, <2>2
<1>7. CASE LogOut(t)
  <2>1. pc'[t] = "closing" /\ Visits(t)'
    BY <1>0, <1>7, ReturnedVisits DEF LogOut, Goto, ThreadTypes
  <2> QED BY <2>1 DEF Task, Between, InSession
<1>8. ~InCall(t) /\ \A u \in Usernames : ~Send(t, u) /\ ~SendKilled(t, u)
  BY <1>0, CallKeepsRequest DEF InCall, Send, SendTo, SendKilled, Returned
<1> QED BY <1>1, <1>2, <1>3, <1>4, <1>5, <1>6, <1>7, <1>8 DEF Sends, Silent

\* FlowInv holds always.
LEMMA FlowInvStep ==
  ASSUME ServerInv, FlowInv, NEW t \in Threads, MoveOf(t) PROVE FlowInv'
<1>1. Task(t)' /\ Between(t)' /\ Visits(t)'
  BY CallTask, CallVisits, ReadFlow, SendFlow DEF MoveOf
<1>2. \A r \in Threads : Task(r)' /\ Between(r)' /\ Visits(r)' /\ StartsEmpty(r)'
  BY <1>1, OthersFlow, StartsEmptyStep
<1>3. GoodFrames' /\ \A s \in Sockets : FdBack(s)'
  BY GoodFramesStep, FdBackStep DEF FlowInv
<1> QED BY <1>2, <1>3 DEF FlowInv

LEMMA FlowInvStutters ==
  ASSUME FlowInv, UNCHANGED vars PROVE FlowInv'
<1>1. Grows /\ \A t \in Threads : Num(t)' = Num(t) /\ Last(t)' = Last(t)
  BY DEF vars, connvars, threadvars, Grows, Num, Last
<1>2. \A t \in Threads : Task(t)' /\ Between(t)'
  BY DEF FlowInv, vars, scvars, connvars, threadvars, Task, Between, Returned, Doing, Answering, Passing,
         Whole, Acked, Sent, Num, Last
<1>3. \A t \in Threads : Visits(t)'
  BY DEF FlowInv, vars, scvars, connvars, threadvars, Visits, Hearing, Gone, Returned, Sent
<1>4. \A t \in Threads : StartsEmpty(t)'
  BY DEF FlowInv, vars, connvars, threadvars, StartsEmpty, Early
<1>5. \A s \in Sockets : FdBack(s)'
  BY DEF FlowInv, vars, connvars, threadvars, FdBack
<1>6. GoodFrames'
  BY DEF FlowInv, vars, connvars, threadvars, GoodFrames, FramesOf, GoodFrame, Num, Sent
<1> QED BY <1>2, <1>3, <1>4, <1>5, <1>6 DEF FlowInv

LEMMA FlowInvariant == Spec => []FlowInv
<1>1. Init => FlowInv
  BY ServerAssumption DEF Init, ConnInit, SCInit, NoCall, FlowInv, Task, Between, Visits, StartsEmpty, FdBack,
     GoodFrames, FramesOf, InSession, SendOps
<1>2. ServerInv /\ FlowInv /\ [Next]_vars => FlowInv'
  BY FlowInvStep, FlowInvStutters DEF Next, Done, MoveOf
<1> QED BY <1>1, <1>2, ServerInvariant, PTL DEF Spec

-------------------------------------------------------------------------------
\* Only a message that was acknowledged is passed on.
THEOREM ForwardsWhatItAcked == Spec => []ForwardedWasAcked
<1>1. ServerInv /\ FlowInv => ForwardedWasAcked
  <2> SUFFICES ASSUME ServerInv, FlowInv, NEW d \in Threads, NEW i \in DOMAIN outbox[d],
                      outbox[d][i].kind = "MESSAGE"
               PROVE  LET f == outbox[d][i] IN
                      /\ ~Sent(f.sender, f.sender, "NACK", f.num)
                      /\ peer[f.sender] # "broken" => Sent(f.sender, f.sender, "ACK", f.num)
    BY DEF ForwardedWasAcked
  <2> DEFINE f == outbox[d][i]  s == f.sender
  <2>1. s \in Threads
    <3>1. f \in Frames
      BY DEF ServerInv, ConnTypes
    <3> QED BY <3>1 DEF Frames
  <2>2. GoodFrame(f) /\ \A j \in DOMAIN outbox[s] : GoodFrame(outbox[s][j])
    BY <2>1 DEF FlowInv, GoodFrames, FramesOf
  <2>3. requests[s][f.num].body = "intact" /\ (Sent(s, s, "ACK", f.num) \/ peer[s] = "broken")
    BY <2>2 DEF GoodFrame
  <2>4. Sent(s, s, "NACK", f.num) => requests[s][f.num].body = "damaged"
    <3> HIDE DEF f, s
    <3>1. ASSUME NEW j \in DOMAIN outbox[s], outbox[s][j].kind = "NACK",
                 outbox[s][j].sender = s, outbox[s][j].num = f.num
          PROVE  requests[s][f.num].body = "damaged"
      BY <2>2, <3>1 DEF GoodFrame
    <3> QED BY <3>1 DEF Sent
  <2> QED BY <2>3, <2>4
<1> QED BY <1>1, ServerInvariant, FlowInvariant, PTL

-------------------------------------------------------------------------------
(***************************************************************************)
(* What is handled is settled.                                             *)
(***************************************************************************)
\* A step that reads a request and makes no call for it skips it.
LEMMA ReadSkips ==
  ASSUME ServerInv, NEW t \in Threads, MoveOf(t), requests' # requests
  PROVE  /\ pc[t] = "reading" /\ Returned(t) /\ pc'[t] \in InSession
         /\ Num(t) \in Nat /\ Num(t)' = Num(t) + 1
         /\ Returned(t)' => Last(t)' = Simple("skipped")
<1>0. SCTypeOK /\ ThreadTypes
  BY DEF ServerInv, SCInv
<1>1. PICK r \in Requests : pc[t] = "reading" /\ Returned(t) /\ ReadOne(t, r)
  BY ReadsOne
<1>2. Num(t) \in Nat /\ Num(t)' = Num(t) + 1 /\ Last(t)' = r
  BY <1>0, <1>1, LastRead
<1>3. \A op, name, sock : Invoke(t, op, name, sock) => ~Returned(t)'
  BY <1>0, InvokeFields DEF Returned
<1>4. CASE ReadSkipped(t)
  <2>1. ReadOne(t, Simple("skipped")) /\ Simple("skipped") \in Requests
    BY <1>4 DEF ReadSkipped, Read, ReadOne, Simple, Requests
  <2>2. Last(t)' = Simple("skipped")
    BY <1>0, <2>1, LastRead
  <2>3. pc'[t] = "reading"
    BY <1>1, <1>4 DEF ReadSkipped
  <2> QED BY <1>1, <1>2, <2>2, <2>3 DEF InSession
<1>5. CASE ReadLogin(t) \/ ReadWho(t) \/ ReadDisconnect(t)
  <2>1. ~Returned(t)' /\ pc'[t] \in InSession
    BY <1>0, <1>1, <1>3, <1>5 DEF ReadLogin, ReadWho, ReadDisconnect, Answer, Goto, ThreadTypes, InSession
  <2> QED BY <1>1, <1>2, <2>1
<1>6. ASSUME NEW dest \in Names, NEW body \in Bodies, ReadMessage(t, dest, body)
      PROVE  ~Returned(t)' /\ pc'[t] \in InSession
  <2>1. ~Returned(t)'
    BY <1>3, <1>6 DEF ReadMessage, Answer
  <2>2. pc'[t] \in {"reading", "departing", "forwarding"}
    BY <1>0, <1>6 DEF ReadMessage, Goto, ThreadTypes, Bodies
  <2> QED BY <2>1, <2>2 DEF InSession
<1>7. \/ ReadSkipped(t) \/ ReadLogin(t) \/ ReadWho(t) \/ ReadDisconnect(t)
      \/ \E dest \in Names, body \in Bodies : ReadMessage(t, dest, body)
  <2>1. Client(t)
    BY DEF MoveOf, Sends, Silent, RefuseLogin, Greet, GreetFails, GreetKilled, Send, SendKilled,
           AnswerWho, Forward, Report, LogOut, Close, InCall, threadvars
  <2> QED BY <2>1 DEF Client, Accept, AcceptFails, BadLogin, Login, ReadFails, threadvars
<1> QED BY <1>1, <1>2, <1>4, <1>5, <1>6, <1>7

\* A thread gets through with a request when it skips it, when it has found a
\* direct message delivered, or when a call for it returns.
LEMMA NowHandled ==
  ASSUME ServerInv, FlowInv, NEW t \in Threads, MoveOf(t), NEW r \in Threads,
         NEW k \in DOMAIN requests'[r], Handled(r, k)',
         ~(k \in DOMAIN requests[r] /\ Handled(r, k))
  PROVE  /\ r = t /\ k = Num(t)'
         /\ \/ requests'[t][k] = Simple("skipped")
            \/ /\ UNCHANGED requests /\ Whole(t) /\ Last(t).dest # All
               /\ \E d \in Threads : Sent(d, t, "MESSAGE", k)
            \/ /\ UNCHANGED threadvars /\ Num(t) > 0
               /\ ~Returned(t) /\ Returned(t)' /\ pc[t] \in {"reading", "departing"}
<1>0. /\ SCTypeOK /\ ThreadTypes /\ Alone(t) /\ Grows
      /\ Between(t) /\ StartsEmpty(t)
  BY StepAlone, StepGrows DEF ServerInv, SCInv, FlowInv
<1>1. r = t
  BY <1>0 DEF Alone, Handled, Returned, Num
<1>2. requests'[t] \in Seq(Requests) /\ k \in 1..Num(t)' /\ Num(t)' \in Nat
  BY <1>1, MoveKeeps DEF ServerInv, ThreadTypes, Num
<1>3. CASE requests' # requests
  <2>1. /\ pc[t] = "reading" /\ Returned(t) /\ pc'[t] \in InSession /\ Num(t) \in Nat
        /\ Num(t)' = Num(t) + 1 /\ (Returned(t)' => Last(t)' = Simple("skipped"))
    BY <1>3, ReadSkips
  <2>2. k = Num(t)'
    <3>1. k \notin DOMAIN requests[t]
      BY <1>1, <2>1 DEF Handled
    <3>2. k \notin 1..Num(t)
      BY <1>0, <3>1 DEF Num, ThreadTypes
    <3> QED BY <1>2, <2>1, <3>2
  <2>3. Returned(t)'
    BY <1>1, <2>1, <2>2 DEF Handled, InSession
  <2> QED BY <1>1, <2>1, <2>2, <2>3 DEF Last
<1>4. CASE UNCHANGED requests
  <2>1. Num(t)' = Num(t) /\ Last(t)' = Last(t) /\ k \in DOMAIN requests[t] /\ ~Handled(t, k)
    BY <1>1, <1>4 DEF Num, Last
  <2>2. k = Num(t) /\ Num(t) > 0
    BY <1>2, <2>1 DEF Handled
  <2>3. /\ pc[t] \notin {"closing", "exited"} /\ ~Early(t)
        /\ pc[t] \in {"reading", "departing"} => ~Returned(t)
    BY <1>0, <2>1, <2>2 DEF Handled, StartsEmpty, Num
  <2>4. pc'[t] \in {"closing", "exited"} \/ (pc'[t] \in {"reading", "departing"} /\ Returned(t)')
    BY <1>1, <2>1, <2>2 DEF Handled
  <2>5. CASE ~Returned(t)
    <3>1. UNCHANGED threadvars
      BY <2>5, WaitsForCall
    <3> QED BY <1>1, <2>1, <2>2, <2>3, <2>4, <2>5, <3>1 DEF threadvars
  <2>6. CASE Returned(t)
    <3>1. pc[t] \in {"listing", "forwarding", "reporting"}
      BY <1>0, <2>3, <2>6 DEF Early, ThreadTypes, PcValues
    <3>2. \A op, name, sock : Invoke(t, op, name, sock) => ~Returned(t)'
      BY <1>0, InvokeFields DEF Returned
    <3>3. ~AnswerWho(t) /\ ~Forward(t)
      BY <1>0, <2>4, <3>2 DEF AnswerWho, Forward, Goto, ThreadTypes
    <3>4. ~Client(t)
      BY <3>1 DEF Client, At, Accept, AcceptFails, BadLogin, Login, Read, ReadSkipped, ReadLogin,
             ReadWho, ReadMessage, ReadDisconnect, ReadFails
    <3>5. ~Sends(t)
      BY <2>6, <3>1 DEF Sends, At, RefuseLogin, Greet, GreetFails, GreetKilled, Send, SendTo, SendKilled, Returned
    <3>6. ~LogOut(t) /\ ~Close(t) /\ ~InCall(t)
      BY <1>0, <2>6, <3>1, CallKeepsRequest DEF LogOut, Close, InCall, At, Returned
    <3>7. Report(t)
      BY <3>3, <3>4, <3>5, <3>6 DEF MoveOf, Silent
    <3>8. call[t].ok /\ pc[t] = "reporting"
      BY <1>0, <2>4, <3>2, <3>7 DEF Report, At, Goto, ThreadTypes
    <3> QED BY <1>0, <1>1, <1>4, <2>1, <2>2, <2>6, <3>8 DEF Between
  <2> QED BY <2>5, <2>6
<1> QED BY <1>3, <1>4

\* Requests without a message have no body.
LEMMA OnlyMessages ==
  ASSUME NEW r \in Requests PROVE r.body = "intact" => r.type = "MESSAGE"
<1>1. None # "intact"
  BY BodyAssumption DEF Bodies
<1> QED BY <1>1 DEF Requests

LEMMA SettledStep ==
  ASSUME ServerInv, FlowInv, AcceptedIsSettled, NEW t \in Threads, MoveOf(t)
  PROVE  AcceptedIsSettled'
<1> SUFFICES ASSUME NEW r \in Threads, NEW k \in DOMAIN requests'[r],
                    requests'[r][k].body = "intact", requests'[r][k].dest # All,
                    Handled(r, k)', peer'[r] # "broken"
             PROVE  (\E d \in Threads : Sent(d, r, "MESSAGE", k)') \/ Sent(r, r, "ERROR", k)'
  BY DEF AcceptedIsSettled
<1>0. Grows /\ ThreadTypes /\ Task(t) /\ Visits(t)
  BY StepGrows DEF ServerInv, FlowInv
<1>a. \A d \in Threads : Sent(d, r, "MESSAGE", k) => Sent(d, r, "MESSAGE", k)'
  BY <1>0, SentStays
<1>b. Sent(r, r, "ERROR", k) => Sent(r, r, "ERROR", k)'
  BY <1>0, SentStays
<1>1. CASE k \in DOMAIN requests[r] /\ Handled(r, k)
  <2>1. k \in 1..Num(r)
    BY <1>0, <1>1 DEF Num, ThreadTypes
  <2>2. requests'[r][k] = requests[r][k] /\ peer[r] # "broken"
    BY <1>0, <2>1 DEF Grows
  <2> QED BY <1>1, <1>a, <1>b, <2>2 DEF AcceptedIsSettled
<1>2. CASE ~(k \in DOMAIN requests[r] /\ Handled(r, k))
  <2>1. /\ r = t /\ k = Num(t)'
        /\ \/ requests'[t][k] = Simple("skipped")
           \/ \E d \in Threads : Sent(d, t, "MESSAGE", k)
           \/ /\ UNCHANGED threadvars /\ Num(t) > 0
              /\ ~Returned(t) /\ Returned(t)' /\ pc[t] \in {"reading", "departing"}
    BY <1>2, NowHandled
  <2>2. requests'[t][k] # Simple("skipped")
    <3>1. Simple("skipped") \in Requests /\ Simple("skipped").type = "skipped"
      BY DEF Simple, Requests
    <3> QED BY <2>1, <3>1, OnlyMessages
  <2>3. CASE /\ UNCHANGED threadvars /\ Num(t) > 0
             /\ ~Returned(t) /\ Returned(t)' /\ pc[t] \in {"reading", "departing"}
    <3>1. Num(t)' = Num(t) /\ Last(t) = requests'[t][k] /\ Last(t) \in Requests
      BY <1>0, <2>1, <2>3 DEF threadvars, Num, Last, ThreadTypes
    <3>2. Last(t).body = "intact" /\ Last(t).dest # All /\ Last(t).type = "MESSAGE"
      BY <2>1, <3>1, OnlyMessages
    <3>3. Doing(t, "send_to_client", user[t], "ERROR")
      <4>1. pc[t] \in InSession /\ Num(t) # 0
        BY <2>3 DEF InSession
      <4> QED BY <1>0, <2>3, <3>2, <4>1 DEF Task, Answering, Passing
    <3>4. call[t].phase = "locked" /\ Recipients(t) \subseteq call[t].visited
      BY <2>3, <3>3, SendOver DEF Doing, SendOps
    <3>5. user[t] \in Users
      BY <2>3, SessionHasFd, ServerAssumption DEF Registered, Users
    <3>6. user[t] \in call[t].visited
      BY <3>3, <3>4, <3>5 DEF Doing, Recipients
    <3>7. Sent(t, t, "ERROR", Num(t)) \/ peer[t] = "broken"
      BY <1>0, <3>3, <3>4, <3>6 DEF Visits, Doing, SendOps
    <3> QED BY <1>0, <1>b, <2>1, <3>1, <3>7 DEF Grows
  <2> QED BY <1>a, <2>1, <2>2, <2>3
<1> QED BY <1>1, <1>2

\* A direct message that was accepted has been delivered to somebody, or its
\* sender has been told.
THEOREM AcceptedSettled == Spec => []AcceptedIsSettled
<1>1. Init => AcceptedIsSettled
  BY DEF Init, AcceptedIsSettled
<1>2. ServerInv /\ FlowInv /\ AcceptedIsSettled /\ [Next]_vars => AcceptedIsSettled'
  <2>1. CASE UNCHANGED vars
    BY <2>1 DEF vars, scvars, connvars, threadvars, AcceptedIsSettled, Handled, Returned, Num, Sent
  <2> QED BY <2>1, SettledStep DEF Next, Done, MoveOf
<1> QED BY <1>1, <1>2, ServerInvariant, FlowInvariant, PTL DEF Spec

-------------------------------------------------------------------------------
(***************************************************************************)
(* The room is told.                                                       *)
(***************************************************************************)
\* Who begins to hear t enter does so by being sent the announcement, which
\* goes to the entries of others.
LEMMA HearingBegins ==
  ASSUME ServerInv, FlowInv, NEW t \in Threads, MoveOf(t), NEW d \in Threads, NEW r \in Threads,
         Hearing(d, r)', ~Hearing(d, r)
  PROVE  /\ r = t /\ Num(t) = 0 /\ UNCHANGED requests
         /\ \E u \in Users \ {user[t]} : client_objects[u] = fd[d]
         /\ UNCHANGED <<client_objects, fd, user>>
<1>0. Grows /\ Follows(t) /\ Alone(t) /\ SCTypeOK /\ ConnTypes /\ Task(t) /\ InStep(t)
  BY StepGrows, StepFollows, StepAlone DEF FlowInv, ServerInv, SCInv
<1>1. r = t /\ Sending(t) /\ msg[t].kind = "entered"
  BY HearingBack
<1>2. ~Returned(t) /\ UNCHANGED threadvars
  BY <1>1, WaitsForCall DEF Sending, Returned
<1>3. ~Sent(d, t, "entered", 0)
  BY <1>0, <1>1 DEF Hearing, Gone, Grows, Follows, Alone, Returned
<1>4. PICK e \in Threads, f \in Frames : Delivered(t, e, f)
  BY <1>1, <1>3, Deliveries DEF Hearing, Sent
<1>5. e = d
  BY <1>1, <1>3, <1>4, SentNew DEF Hearing
<1>6. pc[t] \in InSession /\ call[t].name = user[t] /\ call[t].op = "send_to_all" /\ Num(t) = 0
  <2>1. pc[t] \in InSession
    BY <1>0, <1>1, <1>2 DEF InStep, Sending, SendOps
  <2> QED BY <1>0, <1>1, <1>2, <2>1 DEF Task, Answering, Passing, Doing, Sending, SendOps
<1>7. PICK u \in Usernames : SendTo(t, u, TRUE) /\ d = fdtable[client_objects[u]]
  BY <1>2, <1>4, <1>5 DEF Delivered
<1>8. u \in Users \ {user[t]}
  BY <1>6, <1>7 DEF SendTo, Recipients
<1>9. client_objects[u] = fd[d]
  <2>1. client_objects[u] \in Sockets
    BY <1>0, <1>8 DEF Users, SCTypeOK
  <2> QED BY <1>7, <2>1, ServerAssumption DEF FlowInv, FdBack
<1> QED BY <1>1, <1>2, <1>6, <1>7, <1>8, <1>9 DEF SendTo, threadvars

LEMMA ListedStep ==
  ASSUME ServerInv, FlowInv, NEW t \in Threads, MoveOf(t),
         NEW d \in Threads, NEW r \in Threads, Listed(d, r)
  PROVE  Listed(d, r)'
<1> SUFFICES ASSUME Hearing(d, r)'
             PROVE  \E u \in Users' \ {user'[r]} : client_objects'[u] = fd'[d]
  BY DEF Listed
<1>0. /\ SCTypeOK /\ ThreadTypes /\ InStep(t) /\ OwnsSocket(t)
      /\ StartsEmpty(r) /\ Alone(t) /\ Follows(t)
  BY StepAlone, StepFollows DEF ServerInv, SCInv, FlowInv
<1>1. CASE ~Hearing(d, r)
  BY <1>1, HearingBegins DEF Users
<1>2. CASE Hearing(d, r)
  <2>1. PICK u \in Users \ {user[r]} : client_objects[u] = fd[d]
    BY <1>2 DEF Listed
  <2>2. ~Early(r)
    BY <1>0, <1>2 DEF Hearing, Sent, StartsEmpty
  <2>3. user'[r] = user[r]
    BY <1>0, <2>2, NamesStay DEF Alone, Early
  <2>4. fd'[d] = fd[d]
    <3>1. pc[d] # "unaccepted"
      BY <1>2 DEF Hearing, Sent, FlowInv, StartsEmpty
    <3> QED BY <1>0, <3>1, StepConnections DEF Alone, Keeps, Accepts, Closes
  <2>5. CASE UNCHANGED client_objects
    BY <2>1, <2>3, <2>4, <2>5 DEF Users
  <2>6. CASE InsertUser(t)
    <3>1. client_objects'[u] = client_objects[u]
      BY <1>0, <2>1, <2>6 DEF InsertUser, SCTypeOK, Users
    <3> QED BY <2>1, <2>3, <2>4, <3>1 DEF Users
  <2>7. CASE EraseUser(t)
    <3>1. /\ pc[t] = "closing" /\ call[t].name = user[t] /\ ~Returned(t)
          /\ call'[t].phase = "idle"
      BY <1>0, <2>7 DEF EraseUser, InStep, Returned, InSession, ReadOps, SendOps, SCTypeOK, Calls
    <3>2. d # t
      <4>1. UNCHANGED threadvars
        BY <3>1, WaitsForCall
      <4> QED BY <3>1, <4>1 DEF Hearing, Gone, Returned, threadvars
    <3>3. u # user[t]
      <4>1. client_objects[user[t]] = fd[t] /\ fdtable[fd[t]] = t
        BY <3>1, SessionHasFd DEF Registered
      <4>2. fdtable[fd[d]] = d
        BY <1>2, HearingOwns
      <4> QED BY <2>1, <3>2, <4>1, <4>2
    <3>4. client_objects'[u] = client_objects[u]
      BY <1>0, <2>1, <2>7, <3>1, <3>3 DEF EraseUser, SCTypeOK, Users
    <3> QED BY <2>1, <2>3, <2>4, <3>4 DEF Users
  <2> QED BY <2>5, <2>6, <2>7, MapChanges
<1> QED BY <1>1, <1>2

LEMMA ToldStep ==
  ASSUME ServerInv, FlowInv, NEW t \in Threads, MoveOf(t),
         NEW d \in Threads, NEW r \in Threads, Listed(d, r), ToldAll(d, r)
  PROVE  ToldAll(d, r)'
<1> SUFFICES ASSUME Hearing(d, r)', NEW k \in DOMAIN requests'[r], Handled(r, k)'
             PROVE  LET q == requests'[r][k] IN
                    /\ (q.dest = All /\ q.body = "intact") => Sent(d, r, "MESSAGE", k)'
                    /\ q.type = "DISCONNECT" => Sent(d, r, "left", k)'
  BY DEF ToldAll
<1>0. Grows /\ ThreadTypes /\ Task(t) /\ Visits(t)
  BY StepGrows DEF ServerInv, FlowInv
<1>a. \A kind : Sent(d, r, kind, k) => Sent(d, r, kind, k)'
  BY <1>0, SentStays
<1>1. Hearing(d, r)
  <2>1. CASE ~Hearing(d, r)
    <3>1. r = t /\ Num(t) = 0 /\ UNCHANGED requests
      BY <2>1, HearingBegins
    <3> QED BY <1>0, <3>1 DEF Num, ThreadTypes
  <2> QED BY <2>1
<1>2. CASE k \in DOMAIN requests[r] /\ Handled(r, k)
  <2>1. k \in 1..Num(r)
    BY <1>0, <1>2 DEF Num, ThreadTypes
  <2>2. requests'[r][k] = requests[r][k]
    BY <1>0, <2>1 DEF Grows
  <2> QED BY <1>1, <1>2, <1>a, <2>2 DEF ToldAll
<1>3. CASE ~(k \in DOMAIN requests[r] /\ Handled(r, k))
  <2>1. /\ r = t /\ k = Num(t)'
        /\ \/ requests'[t][k] = Simple("skipped")
           \/ UNCHANGED requests /\ Whole(t) /\ Last(t).dest # All
           \/ /\ UNCHANGED threadvars /\ Num(t) > 0
              /\ ~Returned(t) /\ Returned(t)' /\ pc[t] \in {"reading", "departing"}
    BY <1>3, NowHandled
  <2>2. CASE requests'[t][k] = Simple("skipped")
    <3>1. /\ Simple("skipped") \in Requests /\ Simple("skipped").type = "skipped"
          /\ Simple("skipped").body # "intact"
      BY BodyAssumption DEF Simple, Requests, Bodies
    <3> QED BY <2>1, <2>2, <3>1
  <2>3. CASE UNCHANGED requests /\ Whole(t) /\ Last(t).dest # All
    BY <2>1, <2>3 DEF Whole, Last, Num
  <2>4. CASE /\ UNCHANGED threadvars /\ Num(t) > 0
             /\ ~Returned(t) /\ Returned(t)' /\ pc[t] \in {"reading", "departing"}
    <3>1. Num(t)' = Num(t) /\ Last(t) = requests'[t][k] /\ Last(t) \in Requests
      BY <1>0, <2>1, <2>4 DEF threadvars, Num, Last, ThreadTypes
    <3>2. ASSUME NEW kind, kind # "entered", Doing(t, "send_to_all", user[t], kind)
          PROVE  Sent(d, t, kind, Num(t))
      <4>1. call[t].phase = "locked" /\ Recipients(t) \subseteq call[t].visited
        BY <2>4, <3>2, SendOver DEF Doing, SendOps
      <4>2. PICK u \in Users \ {user[t]} : client_objects[u] = fd[d]
        BY <1>1, <2>1 DEF Listed
      <4>3. u \in call[t].visited
        BY <3>2, <4>1, <4>2 DEF Doing, Recipients
      <4> QED BY <1>0, <1>1, <2>1, <3>2, <4>1, <4>2, <4>3 DEF Visits, Doing, SendOps
    <3>3. pc[t] \in InSession /\ Num(t) # 0
      BY <2>4 DEF InSession
    <3>4. ASSUME Last(t).dest = All, Last(t).body = "intact" PROVE Sent(d, t, "MESSAGE", Num(t))
      <4>1. Last(t).type = "MESSAGE"
        BY <3>1, <3>4, OnlyMessages
      <4>2. Doing(t, "send_to_all", user[t], "MESSAGE")
        BY <1>0, <2>4, <3>3, <3>4, <4>1 DEF Task, Answering, Passing
      <4> QED BY <3>2, <4>2
    <3>5. ASSUME Last(t).type = "DISCONNECT" PROVE Sent(d, t, "left", Num(t))
      <4>1. Doing(t, "send_to_all", user[t], "left")
        BY <1>0, <2>4, <3>3, <3>5 DEF Task, Answering, Whole
      <4> QED BY <3>2, <4>1
    <3> QED BY <1>a, <2>1, <3>1, <3>4, <3>5
  <2> QED BY <2>1, <2>2, <2>3, <2>4
<1> QED BY <1>2, <1>3

\* Whoever saw t enter and is still here has everything t has told the room
\* since, its leaving included.
THEOREM RoomIsTold == Spec => []RoomSeesAll
<1>1. Init => RoomInv
  <2>1. Init => \A d, t \in Threads : ~Hearing(d, t)
    <3>1. Init => \A d \in Threads : DOMAIN outbox[d] = {}
      BY DEF Init, ConnInit
    <3> QED BY <3>1 DEF Hearing, Sent
  <2> QED BY <2>1 DEF RoomInv, Listed, ToldAll
<1>2. ServerInv /\ FlowInv /\ RoomInv /\ [Next]_vars => RoomInv'
  <2>1. CASE UNCHANGED vars
    BY <2>1 DEF vars, scvars, connvars, threadvars, RoomInv, Listed, ToldAll, Hearing, Gone, Users,
                Handled, Returned, Num, Sent
  <2>2. ASSUME ServerInv, FlowInv, RoomInv, NEW t \in Threads, MoveOf(t) PROVE RoomInv'
    BY <2>2, ListedStep, ToldStep DEF RoomInv
  <2> QED BY <2>1, <2>2 DEF Next, Done, MoveOf
<1>3. ServerInv /\ RoomInv => RoomSeesAll
  <2>1. \A d \in Threads : Registered(d) => ~Gone(d)
    BY DEF Registered, Gone
  <2> QED BY <2>1 DEF RoomInv, ToldAll, Hearing, RoomSeesAll
<1> QED BY <1>1, <1>2, <1>3, ServerInvariant, FlowInvariant, PTL DEF Spec

-------------------------------------------------------------------------------
(***************************************************************************)
(* The order of what one thread sends.                                     *)
(***************************************************************************)
NoneAbandoned == \A r \in Threads : ~Abandoned(r)

\* An abandoned entry stays.
LEMMA NoneWasAbandoned ==
  ASSUME ServerInv, NEW t \in Threads, MoveOf(t), NoneAbandoned' PROVE NoneAbandoned
<1> SUFFICES ASSUME NEW r \in Threads, Abandoned(r) PROVE Abandoned(r)'
  BY DEF NoneAbandoned
<1>1. CASE r = t
  BY <1>1, SessionsLast
<1>2. CASE r # t
  BY <1>2, StepAlone DEF Alone, Abandoned
<1> QED BY <1>1, <1>2

\* Without one, what is sent to the entry of u gets to the session of u.
LEMMA SendReachesUser ==
  ASSUME ServerInv, EveryEntryHasASession, NoneAbandoned, NEW u \in Users, NEW d \in Threads,
         fdtable[client_objects[u]] = d
  PROVE  user[d] = u /\ Registered(d)
<1>1. PICK r \in Threads : user[r] = u /\ fd[r] = client_objects[u] /\ Registered(r)
  BY DEF EveryEntryHasASession, NoneAbandoned
<1>2. fdtable[fd[r]] = r
  BY <1>1, SessionHasFd
<1> QED BY <1>1, <1>2

\* Nothing has been sent yet for requests to come.
LEMMA NothingAhead ==
  ASSUME ServerInv, FlowInv, NEW d \in Threads, NEW t \in Threads, NEW kind, NEW k \in Nat, k > Num(t)
  PROVE  ~Sent(d, t, kind, k)
<1> SUFFICES ASSUME NEW i \in DOMAIN outbox[d], outbox[d][i].sender = t, outbox[d][i].num = k
             PROVE  FALSE
  BY DEF Sent
<1>1. GoodFrame(outbox[d][i])
  BY DEF FlowInv, GoodFrames, FramesOf
<1>2. Num(t) \in Nat
  BY DEF ServerInv, ThreadTypes, Num
<1> QED BY <1>1, <1>2 DEF GoodFrame

\* A frame that is delivered is new there.
LEMMA DeliversFresh ==
  ASSUME ServerInv, FlowInv, EveryEntryHasASession, OrderInv, NoneAbandoned,
         NEW t \in Threads, MoveOf(t), NEW d \in Threads, NEW f \in Frames, Delivered(t, d, f)
  PROVE  /\ ~Sent(d, f.sender, f.kind, f.num)
         /\ pc[d] \notin {"unaccepted", "login"}
         /\ \/ pc[t] = "adding" /\ f.kind # "entered"
            \/ user[d] \in call'[t].visited
<1>0. StartsEmpty(t) /\ Fresh(d, t) /\ SCTypeOK
  BY DEF FlowInv, OrderInv, NoneAbandoned, ServerInv, SCInv
<1>1. f.sender = t /\ f.num = Num(t) /\ (Early(t) \/ (f = msg[t] /\ Sending(t)))
  BY DeliveredFrame
<1>2. CASE pc[t] = "adding"
  <2>1. ~Sent(d, t, f.kind, f.num)
    BY <1>0, <1>2 DEF StartsEmpty, Early, Sent
  <2>2. d = t /\ f.kind # "entered"
    <3>1. ~\E u \in Usernames : SendTo(t, u, TRUE)
      <4>1. Sending(t) => pc[t] # "adding"
        BY DEF Sending, ServerInv, InStep, Returned, SendOps, InSession
      <4> QED BY <1>2, <4>1 DEF SendTo, Sending
    <3>2. PICK kind \in {"ERROR", "LOGIN"} : d = t /\ f = Frame(t, kind, user[t])
      BY <3>1 DEF Delivered
    <3> QED BY <3>2 DEF Frame
  <2> QED BY <1>1, <1>2, <2>1, <2>2
<1>3. ASSUME NEW u \in Usernames, SendTo(t, u, TRUE), d = fdtable[client_objects[u]], f = msg[t]
      PROVE  /\ ~Sent(d, t, f.kind, f.num) /\ pc[d] \notin {"unaccepted", "login"}
             /\ user[d] \in call'[t].visited
  <2>1. /\ u \in Recipients(t) \ call[t].visited /\ Sending(t) /\ ~Returned(t)
        /\ call[t].op \in SendOps
    BY <1>3 DEF SendTo, Sending, Returned
  <2>2. u \in Users
    BY <2>1 DEF Recipients
  <2>3. user[d] = u /\ Registered(d)
    BY <1>3, <2>2, SendReachesUser
  <2>4. ~Sent(d, t, f.kind, f.num)
    BY <1>0, <1>1, <1>3, <2>1, <2>3 DEF Fresh
  <2>5. u \in call'[t].visited
    BY <1>0, <1>3, SendToFields
  <2> QED BY <2>3, <2>4, <2>5 DEF Registered
<1> QED BY <1>1, <1>2, <1>3 DEF Delivered

LEMMA OrderedStep ==
  ASSUME ServerInv, FlowInv, EveryEntryHasASession, OrderInv, NEW t \in Threads, MoveOf(t)
  PROVE  Ordered'
<1>1. CASE UNCHANGED outbox
  <2>1. NoneAbandoned' => NoneAbandoned
    BY NoneWasAbandoned
  <2> QED BY <1>1, <2>1 DEF OrderInv, Ordered, NoneAbandoned, Same
<1>2. ASSUME NEW e \in Threads, NEW h \in Frames, Delivered(t, e, h) PROVE Ordered'
  <2> SUFFICES ASSUME NEW d \in Threads, NEW i \in DOMAIN outbox'[d], NEW j \in DOMAIN outbox'[d],
                      i < j, outbox'[d][i].sender = outbox'[d][j].sender
               PROVE  /\ outbox'[d][i].num <= outbox'[d][j].num
                      /\ Same(outbox'[d][i], outbox'[d][j]) => ~NoneAbandoned'
    BY DEF Ordered, NoneAbandoned, Same
  <2>0. ConnTypes /\ ConnTypes' /\ (NoneAbandoned' => NoneAbandoned)
    BY NoneWasAbandoned, MoveKeeps DEF ServerInv
  <2>1. \A n \in DOMAIN outbox'[d] : \/ n \in DOMAIN outbox[d] /\ outbox'[d][n] = outbox[d][n]
                                     \/ d = e /\ n = Len(outbox[d]) + 1 /\ outbox'[d][n] = h
    BY <1>2, SentNew
  <2>2. i \in DOMAIN outbox[d] /\ outbox'[d][i] = outbox[d][i]
    <3>1. outbox'[d] \in Seq(Frames) /\ outbox[d] \in Seq(Frames)
      BY <2>0 DEF ConnTypes
    <3>2. Len(outbox'[d]) <= Len(outbox[d]) + 1
      BY <1>2, <2>0 DEF Delivered, ConnTypes
    <3> QED BY <2>1, <3>1, <3>2
  <2>3. CASE j \in DOMAIN outbox[d] /\ outbox'[d][j] = outbox[d][j]
    BY <2>0, <2>2, <2>3 DEF OrderInv, Ordered, NoneAbandoned, Same
  <2>4. CASE d = e /\ outbox'[d][j] = h
    <3>1. h.sender = t /\ h.num = Num(t)
      BY <1>2, DeliveredFrame
    <3>2. outbox[d][i].num <= Num(t)
      BY <2>2, <2>4, <3>1 DEF FlowInv, GoodFrames, FramesOf, GoodFrame
    <3>3. ASSUME NoneAbandoned, Same(outbox[d][i], h) PROVE FALSE
      <4>1. ~Sent(d, h.sender, h.kind, h.num)
        BY <1>2, <2>4, <3>3, DeliversFresh
      <4> QED BY <2>2, <3>3, <4>1 DEF Same, Sent
    <3> QED BY <2>0, <2>2, <2>4, <3>1, <3>2, <3>3
  <2> QED BY <2>1, <2>3, <2>4
<1> QED BY <1>1, <1>2, Deliveries

LEMMA UnnamedStep ==
  ASSUME ServerInv, FlowInv, EveryEntryHasASession, OrderInv, NoneAbandoned,
         NEW t \in Threads, MoveOf(t), NEW d \in Threads
  PROVE  Unnamed(d)'
<1>0. Unnamed(d) /\ Alone(t) /\ ConnTypes
  BY StepAlone DEF OrderInv, NoneAbandoned, ServerInv
<1>1. pc'[d] \in {"unaccepted", "login"} => pc[d] \in {"unaccepted", "login"}
  <2>1. pc'[t] \in {"unaccepted", "login"} => pc[t] \in {"unaccepted", "login"}
    <3>1. \/ pc'[t] = pc[t]
          \/ pc'[t] \in {"adding", "exited", "closing"} \cup InSession
          \/ Accept(t)
      BY DEF ServerInv, ThreadTypes, MoveOf, Client, Sends, Silent, AcceptFails, BadLogin, Login,
             ReadSkipped, ReadLogin, ReadWho, ReadMessage, ReadDisconnect, ReadFails, RefuseLogin,
             Greet, GreetFails, GreetKilled, Send, SendKilled, AnswerWho, Forward, Report, LogOut, Close,
             InCall, Goto, threadvars, Bodies, InSession
    <3> QED BY <3>1 DEF Accept, At, InSession
  <2> QED BY <1>0, <2>1 DEF Alone
<1>2. ASSUME NEW e \in Threads, NEW f \in Frames, Delivered(t, e, f),
             pc'[d] \in {"unaccepted", "login"}
      PROVE  outbox'[d] = <<>>
  <2>1. d # e
    BY <1>1, <1>2, DeliversFresh
  <2> QED BY <1>0, <1>1, <1>2, <2>1 DEF Delivered, Unnamed, ConnTypes
<1> QED BY <1>0, <1>1, <1>2, Deliveries DEF Unnamed

\* The thread itself, while it is in a call: what its step delivers is of the
\* user it has come to, and not of the calls to come.
LEMMA CallFresh ==
  ASSUME ServerInv, FlowInv, EveryEntryHasASession, OrderInv, NoneAbandoned,
         NEW t \in Threads, MoveOf(t), ~Returned(t), NEW d \in Threads
  PROVE  Fresh(d, t)'
<1>0. Fresh(d, t) /\ Task(t) /\ SCTypeOK /\ UNCHANGED threadvars
  BY WaitsForCall DEF OrderInv, NoneAbandoned, FlowInv, ServerInv, SCInv
<1>1. Num(t)' = Num(t)
  BY <1>0 DEF threadvars, Num
<1>2. ASSUME NEW kind, NEW k, Sent(d, t, kind, k)', ~Sent(d, t, kind, k)
      PROVE  /\ kind = msg[t].kind /\ user[d] \in call'[t].visited
             /\ Sending(t) /\ pc[t] \in InSession
  <2>1. PICK e \in Threads, f \in Frames : Delivered(t, e, f)
    BY <1>2, Deliveries DEF Sent
  <2>2. e = d /\ kind = f.kind /\ k = f.num
    BY <1>2, <2>1, SentNew
  <2>3. pc[t] # "adding"
    <3>1. pc'[t] = pc[t] /\ (pc[t] = "adding" => ~Sending(t))
      BY <1>0 DEF threadvars, ServerInv, InStep, Sending, SendOps, Returned, InSession
    <3> QED BY <2>1, <3>1, DeliveredFrame DEF Delivered, SendTo, Sending
  <2>4. user[d] \in call'[t].visited
    BY <2>1, <2>2, <2>3, DeliversFresh
  <2>5. f = msg[t] /\ Sending(t) /\ pc[t] \in InSession
    <3>1. Sending(t)
      BY <2>1, <2>3 DEF Delivered, SendTo, Sending
    <3>2. ~Early(t)
      BY <3>1 DEF ServerInv, InStep, Sending, SendOps, Returned, InSession, Early
    <3> QED BY <2>1, <3>2, DeliveredFrame
  <2> QED BY <2>2, <2>4, <2>5
<1>3. ASSUME ~Returned(t)', call'[t].op \in SendOps, Sent(d, t, msg[t].kind, msg[t].num)'
      PROVE  user'[d] \in call'[t].visited
  <2>1. msg' = msg /\ user' = user
    BY <1>0 DEF threadvars
  <2>2. CASE Sent(d, t, msg[t].kind, msg[t].num)
    <3>1. \/ UNCHANGED scvars \/ LockStep(t)
          \/ \E u \in Usernames, sent \in BOOLEAN : SendTo(t, u, sent)
      BY CallMoves
    <3>2. call'[t].op = call[t].op
      BY <1>0, <3>1, CallKeepsRequest DEF scvars
    <3>3. user[d] \in call[t].visited
      BY <1>0, <1>3, <2>2, <3>2 DEF Fresh
    <3>4. call[t].visited \subseteq call'[t].visited
      <4>1. CASE UNCHANGED scvars
        BY <4>1 DEF scvars
      <4>2. ASSUME NEW u \in Usernames, NEW sent \in BOOLEAN, SendTo(t, u, sent)
            PROVE  call[t].visited \subseteq call'[t].visited
        BY <1>0, <4>2, SendToFields
      <4>3. CASE LockStep(t)
        <5>1. CASE RdLock(t)
          BY <1>0, <5>1 DEF RdLock, SCTypeOK, Calls
        <5>2. ~SendReturns(t)
          <6> SUFFICES ASSUME SendReturns(t) PROVE FALSE
            OBVIOUS
          <6> DEFINE ok == call[t].ok /\ (call[t].op = "send_to_client" => call[t].name \in Users)
          <6>1. call' = [call EXCEPT ![t] = [@ EXCEPT !.phase = "idle", !.visited = {}, !.ok = ok]]
            BY DEF SendReturns
          <6> HIDE DEF ok
          <6>2. call \in [Threads -> Calls]
            BY <1>0 DEF SCTypeOK
          <6>3. call'[t].phase = "idle"
            BY <6>1, <6>2 DEF Calls
          <6> QED BY <1>3, <6>3 DEF Returned
        <5>3. ~(WrLock(t) \/ ListReturns(t) \/ FindUser(t) \/ InsertUser(t) \/ EraseUser(t))
          BY <1>3, <3>2 DEF ServerInv, SCInv, CallShape, WrLock, ListReturns, FindUser, InsertUser,
                            EraseUser, SendOps, WriteOps
        <5> QED BY <4>3, <5>1, <5>2, <5>3 DEF LockStep
      <4> QED BY <3>1, <4>1, <4>2, <4>3
    <3> QED BY <2>1, <3>3, <3>4
  <2>3. CASE ~Sent(d, t, msg[t].kind, msg[t].num)
    <3>1. ASSUME NEW kind, NEW k, kind = msg[t].kind, k = msg[t].num PROVE user[d] \in call'[t].visited
      <4>1. Sent(d, t, kind, k)' /\ ~Sent(d, t, kind, k)
        BY <1>3, <2>1, <2>3, <3>1 DEF Sent
      <4> QED BY <1>2, <4>1
    <3> QED BY <2>1, <3>1
  <2> QED BY <2>2, <2>3
<1>4. ASSUME NEW kind, NEW k, k = Num(t), Sent(d, t, kind, k)',
             \/ pc[t] = "listing" /\ kind = "WHO"
             \/ pc[t] = "forwarding" /\ kind \in {"MESSAGE", "ERROR"}
             \/ pc[t] = "reporting" /\ kind = "ERROR"
      PROVE  FALSE
  <2>1. ~Sent(d, t, kind, k)
    BY <1>0, <1>4 DEF Fresh
  <2>2. kind = msg[t].kind /\ call[t].op \in SendOps /\ pc[t] \in InSession
    BY <1>2, <1>4, <2>1 DEF Sending
  <2> QED BY <1>0, <1>4, <2>2 DEF Task, Answering, Passing, Doing, SendOps
<1>5. pc' = pc
  BY <1>0 DEF threadvars
<1>6. ASSUME NEW k, k = Num(t), k = Num(t)'
      PROVE  /\ pc[t] = "listing" => ~Sent(d, t, "WHO", k)'
             /\ pc[t] = "forwarding" => ~Sent(d, t, "MESSAGE", k)'
             /\ pc[t] \in {"forwarding", "reporting"} => ~Sent(d, t, "ERROR", k)'
  BY <1>4, <1>6
<1>7. /\ pc[t] = "listing" => ~Sent(d, t, "WHO", Num(t))'
      /\ pc[t] = "forwarding" => ~Sent(d, t, "MESSAGE", Num(t))'
      /\ pc[t] \in {"forwarding", "reporting"} => ~Sent(d, t, "ERROR", Num(t))'
  BY <1>1, <1>6 DEF Sent
<1> QED BY <1>3, <1>5, <1>7 DEF Fresh

\* The thread itself, between calls: what it is about to send is new, being
\* of a new request, or of another kind than what it has sent for this one.
LEMMA IdleFresh ==
  ASSUME ServerInv, FlowInv, OrderInv, NoneAbandoned,
         NEW t \in Threads, MoveOf(t), Returned(t), NEW d \in Threads
  PROVE  Fresh(d, t)'
<1>0. Fresh(d, t) /\ SCTypeOK /\ ThreadTypes /\ StartsEmpty(t)
  BY DEF OrderInv, NoneAbandoned, FlowInv, ServerInv, SCInv
<1>a. ASSUME UNCHANGED scvars \/ ~(call'[t].op \in SendOps),
             pc'[t] \notin {"listing", "forwarding", "reporting"}
      PROVE  Fresh(d, t)'
  <2>1. Returned(t)' \/ ~(call'[t].op \in SendOps)
    BY <1>a DEF scvars, Returned
  <2> QED BY <1>a, <2>1 DEF Fresh
<1>b. ASSUME NEW kind, NEW k, k = Num(t), ~Sent(d, t, kind, k)',
             msg'[t].kind = kind, msg'[t].num = k, pc'[t] \notin {"listing", "forwarding", "reporting"}
      PROVE  Fresh(d, t)'
  <2>1. ~Sent(d, t, msg[t].kind, msg[t].num)'
    BY <1>b DEF Sent
  <2> QED BY <1>b, <2>1 DEF Fresh
<1>1. CASE requests' # requests
  <2>1. Num(t) \in Nat /\ Num(t)' = Num(t) + 1 /\ pc'[t] \in InSession
    BY <1>1, ReadSkips
  <2>2. UNCHANGED outbox
    <3>1. pc[t] = "reading"
      BY <1>1, ReadSkips
    <3> QED BY <3>1, Deliveries, WaitsForCall, <1>1 DEF Delivered, SendTo, Returned
  <2>3. ASSUME NEW kind, NEW k, k = Num(t) + 1 PROVE ~Sent(d, t, kind, k)'
    <3>1. ~Sent(d, t, kind, k)
      BY <2>1, <2>3, NothingAhead
    <3> QED BY <2>2, <3>1 DEF Sent
  <2>4. Task(t)'
    BY FlowInvStep DEF FlowInv
  <2>5. ~Returned(t)' /\ call'[t].op \in SendOps => msg'[t].num = Num(t)'
    BY <2>1, <2>4 DEF Task, Answering, Passing, Doing, SendOps
  <2>6. ~Returned(t)' /\ call'[t].op \in SendOps => ~Sent(d, t, msg[t].kind, msg[t].num)'
    BY <2>1, <2>3, <2>5 DEF Sent
  <2>7. ~Sent(d, t, "WHO", Num(t))' /\ ~Sent(d, t, "MESSAGE", Num(t))' /\ ~Sent(d, t, "ERROR", Num(t))'
    BY <2>1, <2>3 DEF Sent
  <2> QED BY <2>6, <2>7 DEF Fresh
<1>2. CASE UNCHANGED requests
  <2>0. Num(t)' = Num(t)
    BY <1>2 DEF Num
  <2>1. ASSUME Client(t) PROVE Fresh(d, t)'
    <3>1. ~Read(t, Simple("skipped")) /\ ~Read(t, Simple("LOGIN")) /\ ~Read(t, Simple("WHO"))
          /\ ~Read(t, Simple("DISCONNECT"))
          /\ \A dest \in Names, body \in Bodies :
                 ~Read(t, [type |-> "MESSAGE", dest |-> dest, body |-> body])
      <4>1. ASSUME NEW r, Read(t, r) PROVE FALSE
        <5>1. requests'[t] = Append(requests[t], r) /\ requests[t] \in Seq(Requests)
              /\ r \in Requests
          BY <1>0, <4>1, OfferedAssumption DEF Read, ThreadTypes
        <5>2. Len(requests'[t]) = Len(requests[t]) + 1 /\ Len(requests[t]) \in Nat
          BY <5>1
        <5> QED BY <1>2, <5>2
      <4> QED BY <4>1
    <3>2. UNCHANGED scvars \/ call'[t].op = "add_new_user"
      BY <1>0, <2>1, <3>1, InvokeFields DEF Client, Accept, AcceptFails, BadLogin, Login, ReadSkipped,
             ReadLogin, ReadWho, ReadMessage, ReadDisconnect, ReadFails
    <3>3. pc'[t] \notin {"listing", "forwarding", "reporting"}
      BY <1>0, <2>1, <3>1 DEF Client, Accept, AcceptFails, BadLogin, Login, ReadSkipped, ReadLogin, ReadWho,
             ReadMessage, ReadDisconnect, ReadFails, Goto, At, ThreadTypes, threadvars
    <3> QED BY <1>a, <3>2, <3>3 DEF SendOps
  <2>2. CASE RefuseLogin(t) \/ GreetFails(t) \/ GreetKilled(t) \/ Close(t) \/ LogOut(t)
    <3>1. UNCHANGED scvars \/ call'[t].op = "log_out_user"
      BY <1>0, <2>2, InvokeFields DEF RefuseLogin, GreetFails, GreetKilled, Close, LogOut
    <3>2. pc'[t] \notin {"listing", "forwarding", "reporting"}
      BY <1>0, <2>2 DEF RefuseLogin, GreetFails, GreetKilled, Close, LogOut, Goto, At, ThreadTypes, threadvars
    <3> QED BY <1>a, <3>1, <3>2 DEF SendOps
  <2>3. CASE Greet(t)
    <3>1. pc[t] = "adding" /\ pc'[t] = "reading"
      BY <1>0, <2>3 DEF Greet, At, Goto, ThreadTypes
    <3>2. msg'[t].kind = "entered" /\ msg'[t].num = Num(t)
      BY <1>0, <2>3 DEF Greet, Frame, ThreadTypes
    <3>3. ASSUME NEW k, Sent(d, t, "entered", k)' PROVE FALSE
      <4>1. ~Sent(d, t, "entered", k)
        BY <1>0, <3>1 DEF StartsEmpty, Early, Sent
      <4>2. PICK e \in Threads, f \in Frames : Delivered(t, e, f)
        BY <3>3, <4>1, Deliveries DEF Sent
      <4>3. f.kind = "entered"
        BY <3>3, <4>1, <4>2, SentNew
      <4> QED BY <3>1, <4>2, <4>3, DeliveredFrame DEF Early
    <3> QED BY <1>b, <3>1, <3>2, <3>3
  <2>4. CASE AnswerWho(t)
    <3>1. pc[t] = "listing" /\ pc'[t] = "reading" /\ UNCHANGED outbox
      BY <1>0, <2>4 DEF AnswerWho, At, Goto, ThreadTypes, connvars
    <3>2. msg'[t].kind = "WHO" /\ msg'[t].num = Num(t)
      BY <1>0, <2>4 DEF AnswerWho, WhoFrame, Frame, ThreadTypes
    <3>3. \A k : k = Num(t) => ~Sent(d, t, "WHO", k)'
      BY <1>0, <3>1 DEF Fresh, Sent
    <3> QED BY <1>b, <3>1, <3>2, <3>3
  <2>5. CASE Forward(t)
    <3>1. pc[t] = "forwarding" /\ pc'[t] \in {"reading", "reporting"} /\ UNCHANGED outbox
      BY <1>0, <2>5 DEF Forward, At, Goto, ThreadTypes, connvars
    <3>2. msg'[t].kind = "MESSAGE" /\ msg'[t].num = Num(t)
      BY <1>0, <2>5 DEF Forward, Frame, ThreadTypes
    <3>3. ~Sent(d, t, msg[t].kind, msg[t].num)' /\ ~Sent(d, t, "ERROR", Num(t))'
      BY <1>0, <2>0, <3>1, <3>2 DEF Fresh, Sent
    <3> QED BY <3>1, <3>3 DEF Fresh
  <2>6. CASE Report(t)
    <3>1. pc[t] = "reporting" /\ pc'[t] = "reading" /\ UNCHANGED outbox
      BY <1>0, <2>6 DEF Report, At, Goto, ThreadTypes, connvars
    <3>2. CASE call[t].ok
      BY <1>a, <2>6, <3>1, <3>2 DEF Report
    <3>3. CASE ~call[t].ok
      <4>1. msg'[t].kind = "ERROR" /\ msg'[t].num = Num(t)
        BY <1>0, <2>6, <3>3 DEF Report, Frame, ThreadTypes
      <4>2. \A k : k = Num(t) => ~Sent(d, t, "ERROR", k)'
        BY <1>0, <3>1 DEF Fresh, Sent
      <4> QED BY <1>b, <3>1, <4>1, <4>2
    <3> QED BY <3>2, <3>3
  <2>7. ~InCall(t) /\ \A u \in Usernames : ~Send(t, u) /\ ~SendKilled(t, u)
    BY <1>0, CallKeepsRequest DEF InCall, Send, SendTo, SendKilled, Returned
  <2> QED BY <2>1, <2>2, <2>3, <2>4, <2>5, <2>6, <2>7 DEF MoveOf, Sends, Silent
<1> QED BY <1>1, <1>2

\* The other threads' frames are no nearer.
LEMMA OthersFresh ==
  ASSUME ServerInv, FlowInv, OrderInv, NoneAbandoned,
         NEW t \in Threads, MoveOf(t), NEW r \in Threads \ {t}, NEW d \in Threads
  PROVE  Fresh(d, r)'
<1>0. Fresh(d, r) /\ Unnamed(d) /\ Alone(t)
  BY StepAlone DEF OrderInv, NoneAbandoned
<1>1. /\ pc'[r] = pc[r] /\ msg'[r] = msg[r] /\ call'[r] = call[r]
      /\ Num(r)' = Num(r) /\ (Returned(r)' <=> Returned(r))
  BY <1>0 DEF Alone, Num, Returned
<1>2. ASSUME NEW kind, NEW k, Sent(d, r, kind, k)' PROVE Sent(d, r, kind, k)
  <2>1. CASE \E e \in Threads, f \in Frames : Delivered(t, e, f)
    <3>1. PICK e \in Threads, f \in Frames : Delivered(t, e, f)
      BY <2>1
    <3>2. f.sender = t
      BY <3>1, DeliveredFrame
    <3> QED BY <1>2, <3>1, <3>2, SentNew
  <2> QED BY <1>2, <2>1, Deliveries DEF Sent
<1>3. ASSUME NEW kind, NEW k, Sent(d, r, kind, k) PROVE user'[d] = user[d]
  <2>1. pc[d] \notin {"unaccepted", "login"}
    BY <1>0, <1>3 DEF Unnamed, Sent
  <2> QED BY <1>0, <2>1, NamesStay DEF Alone
<1>4. /\ Sent(d, r, msg[r].kind, msg[r].num)' => Sent(d, r, msg[r].kind, msg[r].num)
      /\ Sent(d, r, "WHO", Num(r))' => Sent(d, r, "WHO", Num(r))
      /\ Sent(d, r, "MESSAGE", Num(r))' => Sent(d, r, "MESSAGE", Num(r))
      /\ Sent(d, r, "ERROR", Num(r))' => Sent(d, r, "ERROR", Num(r))
  BY <1>1, <1>2 DEF Sent
<1> QED BY <1>0, <1>1, <1>3, <1>4 DEF Fresh

LEMMA OrderInvStep ==
  ASSUME ServerInv, FlowInv, EveryEntryHasASession, OrderInv, NEW t \in Threads, MoveOf(t)
  PROVE  OrderInv'
<1>1. ASSUME NoneAbandoned', NEW d \in Threads, NEW r \in Threads PROVE Fresh(d, r)' /\ Unnamed(d)'
  <2>1. NoneAbandoned
    BY <1>1, NoneWasAbandoned
  <2>2. CASE r = t
    BY <2>1, <2>2, CallFresh, IdleFresh, UnnamedStep
  <2>3. CASE r # t
    BY <2>1, <2>3, OthersFresh, UnnamedStep
  <2> QED BY <2>2, <2>3
<1> QED BY <1>1, OrderedStep DEF OrderInv, NoneAbandoned

LEMMA OrderInvariant == Spec => []OrderInv
<1>1. Init => OrderInv
  <2>1. Init => \A d \in Threads : outbox[d] = <<>> /\ DOMAIN outbox[d] = {}
    BY DEF Init, ConnInit
  <2>2. Init => Ordered
    BY <2>1 DEF Ordered
  <2>3. Init => \A d, t \in Threads : Fresh(d, t) /\ Unnamed(d)
    BY <2>1 DEF Fresh, Unnamed, Sent
  <2> QED BY <2>2, <2>3 DEF OrderInv
<1>2. ServerInv /\ FlowInv /\ EveryEntryHasASession /\ OrderInv /\ [Next]_vars => OrderInv'
  <2>1. CASE UNCHANGED vars
    BY <2>1 DEF vars, scvars, connvars, threadvars, OrderInv, Ordered, Same, NoneAbandoned,
                Abandoned, Fresh, Unnamed, Returned, Num, Sent
  <2> QED BY <2>1, OrderInvStep DEF Next, Done, MoveOf
<1> QED BY <1>1, <1>2, ServerInvariant, FlowInvariant, EntriesHaveSessions, PTL DEF Spec

\* Each client gets what another's thread sends in the order of the requests
\* that caused it.
THEOREM SendersInOrder == Spec => []SenderOrder
<1>1. OrderInv => SenderOrder
  BY DEF OrderInv, Ordered, SenderOrder
<1> QED BY <1>1, OrderInvariant, PTL

\* Nothing reaches a client twice, as long as no entry is left behind.
THEOREM NothingSentTwice == Spec => []NothingTwice
<1>1. OrderInv => NothingTwice
  BY DEF OrderInv, Ordered, NothingTwice, NoneAbandoned, Same
<1> QED BY <1>1, OrderInvariant, PTL
===============================================================================
