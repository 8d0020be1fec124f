--------------------------- MODULE ChatServerProofs ---------------------------
(***************************************************************************)
(* The server, for any number of threads, names, sockets and requests.     *)
(*                                                                         *)
(* Its threads are correct clients of SharedClients, so that what          *)
(* SharedClientsProofs shows of every pattern of calls holds here; and a   *)
(* session's map entry is its own, open connection.  Both need to know     *)
(* which call a thread can be in, given where it is (InStep), and that a   *)
(* descriptor refers to the connection of the thread that uses it          *)
(* (OwnsSocket).                                                           *)
(***************************************************************************)
EXTENDS ChatServer, SharedClientsProofs

\* Where a thread is after it has greeted its client and before log_out_user.
InSession == {"reading", "listing", "forwarding", "reporting", "departing"}

\* The types of the thread's own variables, and of the sockets.
ThreadTypes == /\ pc \in [Threads -> PcValues]
               /\ fd \in [Threads -> Sockets \cup {None}]
               /\ user \in [Threads -> Usernames \cup {None}]
               /\ requests \in [Threads -> Seq(Requests)]
               /\ msg \in [Threads -> Frames \cup {None}]

ConnTypes == /\ fdtable \in [Sockets -> Threads \cup {None}]
             /\ peer \in [Threads -> {"open", "closed", "broken"}]
             /\ outbox \in [Threads -> Seq(Frames)]
             /\ server_up \in BOOLEAN

\* What thread t has, and which call it can be in, given where it is.
InStep(t) ==
    /\ pc[t] # "unaccepted" => fd[t] \in Sockets
    /\ pc[t] \notin {"unaccepted", "login", "exited"} => user[t] \in Usernames
    /\ pc[t] \in InSession => msg[t] \in Frames
    /\ pc[t] = "adding" => call[t].op = "add_new_user"
    /\ pc[t] = "forwarding" => Num(t) # 0 /\ Last(t).dest \in Names
    /\ ~Returned(t) =>
          \/ /\ pc[t] = "adding" /\ call[t].op = "add_new_user"
             /\ call[t].name = user[t] /\ call[t].sock = fd[t]
          \/ pc[t] \in InSession /\ call[t].op \in ReadOps
          \/ pc[t] = "closing" /\ call[t].op = "log_out_user" /\ call[t].name = user[t]

\* The descriptor of a live thread is its connection, so no two have the same.
OwnsSocket(t) == pc[t] \notin {"unaccepted", "exited"} => fdtable[fd[t]] = t

\* What one session has in the map.
OwnsEntry(t) == Registered(t) => client_objects[user[t]] = fd[t]

ServerInv == /\ SCInv /\ ThreadTypes /\ ConnTypes
             /\ \A t \in Threads : InStep(t) /\ OwnsSocket(t) /\ OwnsEntry(t)

\* A frame of the server is a frame.
LEMMA FrameTypes ==
  ASSUME ThreadTypes, NEW t \in Threads,
         NEW kind \in {"LOGIN", "ERROR", "WHO", "ACK", "NACK", "MESSAGE", "entered", "left"},
         NEW dest \in Names
  PROVE  /\ Frame(t, kind, dest) \in Frames
         /\ [Frame(t, kind, dest) EXCEPT !.num = Num(t) + 1] \in Frames
         /\ \A us \in SUBSET Usernames :
                [Frame(t, kind, dest) EXCEPT !.users = us] \in Frames
<1>1. Num(t) \in Nat
  BY DEF ThreadTypes, Num
<1> QED BY <1>1 DEF Frame, Frames

-------------------------------------------------------------------------------
\* A thread makes calls with its own name and socket, and moves through them
\* by the steps of SharedClients only.
LEMMA StepUsesSharedClients ==
  ASSUME ServerInv, Next PROVE [SCNext]_scvars
<1>1. CASE Done
  BY <1>1 DEF Done, vars
<1>2. ASSUME NEW t \in Threads, Client(t) PROVE [SCNext]_scvars
  <2> USE DEF At
  <2>0. InStep(t)
    BY DEF ServerInv
  <2>1. CASE Accept(t) \/ AcceptFails(t) \/ BadLogin(t) \/ ReadSkipped(t) \/ ReadFails(t)
    BY <2>1 DEF Accept, AcceptFails, BadLogin, ReadSkipped, ReadFails
  <2>2. ASSUME NEW u \in Usernames, Login(t, u) PROVE Invocation(t)
    BY <2>0, <2>2 DEF Login, Invocation, InStep
  <2>3. pc[t] = "reading" => user[t] \in Usernames
    BY <2>0 DEF InStep
  <2>4. CASE ReadLogin(t)
    <3>1. Invoke(t, "send_to_client", user[t], None) /\ user[t] \in Usernames
      BY <2>3, <2>4 DEF ReadLogin, Read, Answer
    <3> QED BY <3>1 DEF SCNext, Invocation, SendOps
  <2>5. CASE ReadWho(t)
    BY <2>5 DEF ReadWho, SCNext, Invocation
  <2>6. ASSUME NEW dest \in Names, NEW body \in Bodies, ReadMessage(t, dest, body)
        PROVE  Invocation(t)
    <3>1. Invoke(t, "send_to_client", user[t], None) /\ user[t] \in Usernames
      BY <2>3, <2>6 DEF ReadMessage, Read, Answer
    <3> QED BY <3>1 DEF Invocation, SendOps
  <2>7. CASE ReadDisconnect(t)
    <3>1. Invoke(t, "send_to_all", user[t], None) /\ user[t] \in Usernames
      BY <2>3, <2>7 DEF ReadDisconnect, Read, Answer
    <3> QED BY <3>1 DEF SCNext, Invocation, SendOps
  <2> QED BY <1>2, <2>1, <2>2, <2>4, <2>5, <2>6, <2>7 DEF Client, SCNext
<1>3. ASSUME NEW t \in Threads, Sends(t) PROVE [SCNext]_scvars
  <2>1. CASE RefuseLogin(t) \/ GreetFails(t) \/ GreetKilled(t)
    BY <2>1 DEF RefuseLogin, GreetFails, GreetKilled
  <2>2. CASE Greet(t)
    <3>1. Invoke(t, "send_to_all", user[t], None) /\ user[t] \in Usernames
      BY <2>2 DEF Greet, At, ServerInv, InStep
    <3> QED BY <3>1 DEF SCNext, Invocation, SendOps
  <2>3. ASSUME NEW u \in Usernames, Send(t, u) PROVE SCNext
    BY <2>3 DEF Send, SCNext
  <2>4. ASSUME NEW u \in Usernames, SendKilled(t, u) PROVE UNCHANGED scvars
    BY <2>4 DEF SendKilled
  <2> QED BY <1>3, <2>1, <2>2, <2>3, <2>4 DEF Sends
<1>4. ASSUME NEW t \in Threads, Silent(t) PROVE [SCNext]_scvars
  <2>0. InStep(t)
    BY DEF ServerInv
  <2>1. CASE AnswerWho(t)
    <3>1. Invoke(t, "send_to_client", user[t], None) /\ user[t] \in Usernames
      BY <2>0, <2>1 DEF AnswerWho, At, InStep
    <3> QED BY <3>1 DEF SCNext, Invocation, SendOps
  <2>2. CASE Forward(t)
    <3>1. \/ Invoke(t, "send_to_all", user[t], None) /\ user[t] \in Usernames
          \/ Invoke(t, "send_to_client", Last(t).dest, None) /\ Last(t).dest \in Usernames
      BY <2>0, <2>2 DEF Forward, At, InStep, Names
    <3> QED BY <3>1 DEF SCNext, Invocation, SendOps
  <2>3. CASE Report(t)
    <3>1. \/ UNCHANGED scvars
          \/ Invoke(t, "send_to_client", user[t], None) /\ user[t] \in Usernames
      BY <2>0, <2>3 DEF Report, At, InStep
    <3> QED BY <3>1 DEF SCNext, Invocation, SendOps
  <2>4. CASE LogOut(t)
    <3>1. Invoke(t, "log_out_user", user[t], None) /\ user[t] \in Usernames
      BY <2>0, <2>4 DEF LogOut, At, InStep
    <3> QED BY <3>1 DEF SCNext, Invocation
  <2>5. CASE Close(t)
    BY <2>5 DEF Close
  <2>6. CASE InCall(t)
    BY <2>6 DEF InCall, SCNext
  <2> QED BY <1>4, <2>1, <2>2, <2>3, <2>4, <2>5, <2>6 DEF Silent
<1> QED BY <1>1, <1>2, <1>3, <1>4 DEF Next

\* Empty map, no thread, every descriptor free.
LEMMA ServerInvInit == ASSUME Init PROVE ServerInv
<1> USE ServerAssumption DEF Init
<1>1. SCInv
  BY SCInvInit
<1>2. ThreadTypes
  BY DEF ThreadTypes, PcValues
<1>3. ConnTypes
  BY DEF ConnInit, ConnTypes
<1>4. \A t \in Threads : InStep(t)
  BY DEF InStep, InSession, Returned, SCInit, NoCall
<1>5. \A t \in Threads : OwnsSocket(t) /\ OwnsEntry(t)
  BY DEF OwnsSocket, OwnsEntry, Registered
<1> QED BY <1>1, <1>2, <1>3, <1>4, <1>5 DEF ServerInv

-------------------------------------------------------------------------------
(***************************************************************************)
(* A step of thread t.  MoveOf(t) is what Next lets t do.                  *)
(***************************************************************************)
MoveOf(t) == Client(t) \/ Sends(t) \/ Silent(t)

\* It changes no other thread's variables, and no other thread's call.
Alone(t) == \A r \in Threads \ {t} :
    /\ pc'[r] = pc[r] /\ fd'[r] = fd[r] /\ user'[r] = user[r]
    /\ requests'[r] = requests[r] /\ msg'[r] = msg[r] /\ call'[r] = call[r]

\* A thread that makes a call, or moves one on, moves no other.
LEMMA CallAlone ==
  ASSUME SCTypeOK, NEW t \in Threads
  PROVE  /\ \A op, name, sock : Invoke(t, op, name, sock) =>
                \A r \in Threads \ {t} : call'[r] = call[r]
         /\ UNCHANGED scvars => \A r \in Threads \ {t} : call'[r] = call[r]
<1>1. ASSUME NEW op, NEW name, NEW sock, Invoke(t, op, name, sock),
             NEW r \in Threads \ {t}
      PROVE  call'[r] = call[r]
  BY <1>1 DEF Invoke, SCTypeOK
<1> QED BY <1>1 DEF scvars

\* Every step of the server is one thread's, and the others stand still.
LEMMA StepAlone ==
  ASSUME ServerInv, NEW t \in Threads, MoveOf(t) PROVE Alone(t)
<1> USE DEF Alone, ThreadTypes, ServerInv, SCInv
<1>0. \A op, name, sock : Invoke(t, op, name, sock) =>
                \A r \in Threads \ {t} : call'[r] = call[r]
  BY CallAlone
<1>a. UNCHANGED scvars => \A r \in Threads \ {t} : call'[r] = call[r]
  BY CallAlone
<1>1. CASE Client(t)
  <2>1. CASE Accept(t)
    BY <1>a, <2>1 DEF Accept, Goto
  <2>2. CASE AcceptFails(t)
    BY <1>a, <2>2 DEF AcceptFails, threadvars
  <2>3. CASE BadLogin(t)
    BY <1>a, <2>3 DEF BadLogin, Goto
  <2>4. ASSUME NEW u \in Usernames, Login(t, u) PROVE Alone(t)
    BY <1>0, <2>4 DEF Login, Goto
  <2>5. CASE ReadSkipped(t)
    BY <1>a, <2>5 DEF ReadSkipped, Read
  <2>6. CASE ReadLogin(t)
    BY <1>0, <2>6 DEF ReadLogin, Read, Answer
  <2>7. CASE ReadWho(t)
    BY <1>0, <2>7 DEF ReadWho, Read, Goto
  <2>8. ASSUME NEW dest \in Names, NEW body \in Bodies, ReadMessage(t, dest, body)
        PROVE  Alone(t)
    BY <1>0, <2>8 DEF ReadMessage, Read, Answer, Goto
  <2>9. CASE ReadDisconnect(t)
    BY <1>0, <2>9 DEF ReadDisconnect, Read, Answer, Goto
  <2>10. CASE ReadFails(t)
    BY <1>a, <2>10 DEF ReadFails, Goto
  <2> QED BY <1>1, <2>1, <2>2, <2>3, <2>4, <2>5, <2>6, <2>7, <2>8, <2>9, <2>10 DEF Client
<1>2. CASE Sends(t)
  <2>1. CASE RefuseLogin(t)
    BY <1>a, <2>1 DEF RefuseLogin, Goto
  <2>2. CASE Greet(t)
    BY <1>0, <2>2 DEF Greet, Goto
  <2>3. CASE GreetFails(t)
    BY <1>a, <2>3 DEF GreetFails, Goto
  <2>4. CASE GreetKilled(t)
    BY <1>a, <2>4 DEF GreetKilled, threadvars
  <2>5. ASSUME NEW u \in Usernames, Send(t, u) PROVE Alone(t)
    BY <2>5, OnlyOneMoves DEF Send, threadvars
  <2>6. ASSUME NEW u \in Usernames, SendKilled(t, u) PROVE Alone(t)
    BY <1>a, <2>6 DEF SendKilled, threadvars
  <2> QED BY <1>2, <2>1, <2>2, <2>3, <2>4, <2>5, <2>6 DEF Sends
<1>3. CASE Silent(t)
  <2>1. CASE AnswerWho(t)
    BY <1>0, <2>1 DEF AnswerWho, Goto
  <2>2. CASE Forward(t)
    BY <1>0, <2>2 DEF Forward, Goto
  <2>3. CASE Report(t)
    BY <1>0, <1>a, <2>3 DEF Report, Goto
  <2>4. CASE LogOut(t)
    BY <1>0, <2>4 DEF LogOut, Goto
  <2>5. CASE Close(t)
    BY <1>a, <2>5 DEF Close, Goto
  <2>6. CASE InCall(t)
    BY <2>6, OnlyOneMoves DEF InCall, threadvars
  <2> QED BY <1>3, <2>1, <2>2, <2>3, <2>4, <2>5, <2>6 DEF Silent
<1> QED BY <1>1, <1>2, <1>3 DEF MoveOf

\* A call keeps its operation and arguments until it returns.
LEMMA CallKeepsRequest ==
  ASSUME SCTypeOK, NEW t \in Threads,
         LockStep(t) \/ \E u \in Usernames, sent \in BOOLEAN : SendTo(t, u, sent)
  PROVE  /\ call[t].phase # "idle"
         /\ call'[t].op = call[t].op
         /\ call'[t].name = call[t].name
         /\ call'[t].sock = call[t].sock
<1>1. CASE RdLock(t) BY <1>1 DEF RdLock, SCTypeOK, Calls
<1>2. CASE WrLock(t) BY <1>2 DEF WrLock, SCTypeOK, Calls
<1>3. CASE SendReturns(t) BY <1>3 DEF SendReturns, SCTypeOK, Calls
<1>4. CASE ListReturns(t) BY <1>4 DEF ListReturns, SCTypeOK, Calls
<1>5. CASE FindUser(t) BY <1>5 DEF FindUser, SCTypeOK, Calls
<1>6. CASE InsertUser(t) BY <1>6 DEF InsertUser, SCTypeOK, Calls
<1>7. CASE EraseUser(t) BY <1>7 DEF EraseUser, SCTypeOK, Calls
<1>8. CASE \E u \in Usernames, sent \in BOOLEAN : SendTo(t, u, sent)
  <2>1. call[t].phase # "idle"
    BY <1>8 DEF SendTo
  <2> QED BY <1>8, <2>1, SendToFields
<1> QED BY <1>1, <1>2, <1>3, <1>4, <1>5, <1>6, <1>7, <1>8 DEF LockStep

\* What Invoke leaves in the caller's record.
LEMMA InvokeFields ==
  ASSUME SCTypeOK, NEW t \in Threads
  PROVE  \A op, name, sock : Invoke(t, op, name, sock) =>
             /\ call'[t].phase = "waiting" /\ call'[t].op = op
             /\ call'[t].name = name /\ call'[t].sock = sock
<1>1. ASSUME NEW op, NEW name, NEW sock, Invoke(t, op, name, sock)
      PROVE  /\ call'[t].phase = "waiting" /\ call'[t].op = op
             /\ call'[t].name = name /\ call'[t].sock = sock
  <2>1. call'[t] = [op |-> op, name |-> name, sock |-> sock, phase |-> "waiting",
                    visited |-> {}, ok |-> op \in SendOps]
    BY <1>1 DEF Invoke, SCTypeOK
  <2> QED BY <2>1
<1> QED BY <1>1

\* The steps of the clients keep the thread's variables in order.
LEMMA ClientThread ==
  ASSUME ServerInv, NEW t \in Threads, Client(t) PROVE ThreadTypes' /\ InStep(t)'
<1> USE DEF ThreadTypes, InStep, InSession, At, Goto, Returned
<1>0. SCTypeOK /\ ThreadTypes /\ ConnTypes /\ InStep(t) /\ server_up \in BOOLEAN
  BY DEF ServerInv, SCInv, ConnTypes
<1>a. \A op, name, sock : Invoke(t, op, name, sock) =>
             /\ call'[t].phase = "waiting" /\ call'[t].op = op
             /\ call'[t].name = name /\ call'[t].sock = sock
  BY <1>0, InvokeFields
<1>b. UNCHANGED scvars => call'[t] = call[t]
  BY DEF scvars
<1>c. "unaccepted" \in PcValues /\ "login" \in PcValues /\ "adding" \in PcValues
      /\ "exited" \in PcValues /\ "closing" \in PcValues /\ InSession \subseteq PcValues
  BY DEF PcValues
<1>1. CASE Accept(t)
  BY <1>0, <1>b, <1>c, <1>1 DEF Accept
<1>2. CASE AcceptFails(t)
  BY <1>0, <1>b, <1>2 DEF AcceptFails, threadvars, Num, Last
<1>3. CASE BadLogin(t)
  BY <1>0, <1>b, <1>c, <1>3 DEF BadLogin
<1>4. ASSUME NEW u \in Usernames, Login(t, u) PROVE ThreadTypes' /\ InStep(t)'
  BY <1>0, <1>a, <1>c, <1>4 DEF Login
<1>5. ASSUME NEW r \in Requests, Read(t, r)
      PROVE  /\ requests' \in [Threads -> Seq(Requests)] /\ Num(t)' # 0 /\ Last(t)' = r
             /\ UNCHANGED <<fd, user>> /\ pc[t] = "reading"
  BY <1>0, <1>5 DEF Read, Num, Last
<1>6. ASSUME NEW kind \in {"ERROR", "ACK", "NACK", "left"}, NEW dest \in Names,
             NEW op \in SendOps, NEW name, Answer(t, op, name, kind, dest)
      PROVE  /\ msg' \in [Threads -> Frames \cup {None}] /\ msg'[t] \in Frames
             /\ call'[t].op \in ReadOps
  <2> DEFINE f == [Frame(t, kind, dest) EXCEPT !.num = Num(t) + 1]
  <2>1. f \in Frames
    BY <1>0, FrameTypes
  <2>2. msg' = [msg EXCEPT ![t] = f] /\ Invoke(t, op, name, None)
    BY <1>6 DEF Answer
  <2> HIDE DEF f
  <2> QED BY <1>0, <1>a, <2>1, <2>2 DEF ReadOps
<1>7. \A type \in {"skipped", "LOGIN", "WHO", "DISCONNECT"} : Simple(type) \in Requests
  BY DEF Simple, Requests
<1>8. All \in Names /\ (pc[t] = "reading" => user[t] \in Names)
  BY <1>0 DEF Names
<1>9. CASE ReadSkipped(t)
  BY <1>0, <1>b, <1>5, <1>7, <1>9 DEF ReadSkipped
<1>10. CASE ReadLogin(t)
  <2>1. Read(t, Simple("LOGIN")) /\ UNCHANGED pc
        /\ Answer(t, "send_to_client", user[t], "ERROR", user[t])
    BY <1>10 DEF ReadLogin
  <2> QED BY <1>0, <1>5, <1>6, <1>7, <1>8, <2>1 DEF SendOps
<1>11. CASE ReadWho(t)
  BY <1>0, <1>a, <1>c, <1>5, <1>7, <1>11 DEF ReadWho, ReadOps
<1>12. ASSUME NEW dest \in Names, NEW body \in Bodies, ReadMessage(t, dest, body)
       PROVE  ThreadTypes' /\ InStep(t)'
  <2> DEFINE r == [type |-> "MESSAGE", dest |-> dest, body |-> body]
             kind == IF body = "damaged" THEN "NACK" ELSE "ACK"
             next == CASE body \in {"damaged", "short"} -> "reading"
                       [] body = "empty"  -> "departing"
                       [] body = "intact" -> "forwarding"
  <2>1. r \in Requests /\ r.dest = dest
    BY DEF Requests
  <2>2. kind \in {"ERROR", "ACK", "NACK", "left"}
    OBVIOUS
  <2>3. next \in InSession
    BY DEF Bodies
  <2>4. Read(t, r) /\ Answer(t, "send_to_client", user[t], kind, user[t])
        /\ pc' = [pc EXCEPT ![t] = next]
    BY <1>12 DEF ReadMessage
  <2> HIDE DEF r, kind, next
  <2>5. /\ requests' \in [Threads -> Seq(Requests)] /\ Num(t)' # 0 /\ Last(t)' = r
        /\ UNCHANGED <<fd, user>> /\ pc[t] = "reading"
    BY <1>5, <2>1, <2>4
  <2>6. /\ msg' \in [Threads -> Frames \cup {None}] /\ msg'[t] \in Frames
        /\ call'[t].op \in ReadOps
    BY <1>6, <1>8, <2>2, <2>4, <2>5 DEF SendOps
  <2> QED BY <1>0, <1>c, <2>1, <2>3, <2>4, <2>5, <2>6
<1>13. CASE ReadDisconnect(t)
  <2>1. Read(t, Simple("DISCONNECT")) /\ pc' = [pc EXCEPT ![t] = "departing"]
        /\ Answer(t, "send_to_all", user[t], "left", All)
    BY <1>13 DEF ReadDisconnect
  <2> QED BY <1>0, <1>c, <1>5, <1>6, <1>7, <1>8, <2>1 DEF SendOps
<1>14. CASE ReadFails(t)
  BY <1>0, <1>b, <1>c, <1>14 DEF ReadFails, Num, Last
<1> QED BY <1>1, <1>2, <1>3, <1>4, <1>9, <1>10, <1>11, <1>12, <1>13, <1>14 DEF Client

\* So do its sends ...
LEMMA SendsThread ==
  ASSUME ServerInv, NEW t \in Threads, Sends(t) PROVE ThreadTypes' /\ InStep(t)'
<1> USE DEF ThreadTypes, InStep, InSession, At, Goto, Returned
<1>0. SCTypeOK /\ ThreadTypes /\ InStep(t)
  BY DEF ServerInv, SCInv
<1>a. \A op, name, sock : Invoke(t, op, name, sock) =>
             /\ call'[t].phase = "waiting" /\ call'[t].op = op
             /\ call'[t].name = name /\ call'[t].sock = sock
  BY <1>0, InvokeFields
<1>b. UNCHANGED scvars => call'[t] = call[t]
  BY DEF scvars
<1>c. "closing" \in PcValues /\ "reading" \in PcValues
  BY DEF PcValues
<1>1. CASE RefuseLogin(t)
  BY <1>0, <1>b, <1>c, <1>1 DEF RefuseLogin
<1>2. CASE Greet(t)
  <2>1. Frame(t, "entered", All) \in Frames
    BY <1>0, FrameTypes DEF Names
  <2> QED BY <1>0, <1>a, <1>c, <1>2, <2>1 DEF Greet, ReadOps, SendOps
<1>3. CASE GreetFails(t)
  BY <1>0, <1>b, <1>c, <1>3 DEF GreetFails
<1>4. CASE GreetKilled(t) \/ \E u \in Usernames : SendKilled(t, u)
  BY <1>0, <1>b, <1>4 DEF GreetKilled, SendKilled, threadvars, Num, Last
<1>5. ASSUME NEW u \in Usernames, Send(t, u) PROVE ThreadTypes' /\ InStep(t)'
  <2>1. \E sent \in BOOLEAN : SendTo(t, u, sent)
    BY <1>5 DEF Send
  <2>2. UNCHANGED <<pc, fd, user, requests, msg>>
    BY <1>5 DEF Send, threadvars
  <2>3. /\ call[t].phase # "idle" /\ call'[t].op = call[t].op
        /\ call'[t].name = call[t].name /\ call'[t].sock = call[t].sock
    BY <1>0, <2>1, CallKeepsRequest
  <2> QED BY <1>0, <2>2, <2>3 DEF Num, Last
<1> QED BY <1>1, <1>2, <1>3, <1>4, <1>5 DEF Sends

\* ... and what it does in between.
LEMMA SilentThread ==
  ASSUME ServerInv, NEW t \in Threads, Silent(t) PROVE ThreadTypes' /\ InStep(t)'
<1> USE DEF ThreadTypes, InStep, InSession, At, Goto, Returned
<1>0. SCTypeOK /\ ThreadTypes /\ InStep(t)
  BY DEF ServerInv, SCInv
<1>a. \A op, name, sock : Invoke(t, op, name, sock) =>
             /\ call'[t].phase = "waiting" /\ call'[t].op = op
             /\ call'[t].name = name /\ call'[t].sock = sock
  BY <1>0, InvokeFields
<1>b. UNCHANGED scvars => call'[t] = call[t]
  BY DEF scvars
<1>c. "closing" \in PcValues /\ "exited" \in PcValues /\ InSession \subseteq PcValues
  BY DEF PcValues
<1>1. CASE AnswerWho(t)
  <2>1. WhoFrame(t) \in Frames
    BY <1>0, <1>1, FrameTypes DEF AnswerWho, WhoFrame, Names, SCTypeOK, Calls
  <2> QED BY <1>0, <1>a, <1>c, <1>1, <2>1 DEF AnswerWho, ReadOps, SendOps
<1>2. CASE Forward(t)
  <2>1. Frame(t, "MESSAGE", Last(t).dest) \in Frames
    BY <1>0, <1>2, FrameTypes DEF Forward
  <2> QED BY <1>0, <1>a, <1>c, <1>2, <2>1 DEF Forward, ReadOps, SendOps
<1>3. CASE Report(t)
  <2>1. Frame(t, "ERROR", user[t]) \in Frames
    BY <1>0, <1>3, FrameTypes DEF Report, Names
  <2> QED BY <1>0, <1>a, <1>b, <1>c, <1>3, <2>1 DEF Report, ReadOps, SendOps
<1>4. CASE LogOut(t)
  BY <1>0, <1>a, <1>c, <1>4 DEF LogOut
<1>5. CASE Close(t)
  BY <1>0, <1>b, <1>c, <1>5 DEF Close
<1>6. CASE InCall(t)
  <2>1. UNCHANGED <<pc, fd, user, requests, msg>> /\ LockStep(t)
    BY <1>6 DEF InCall, threadvars
  <2>2. /\ call[t].phase # "idle" /\ call'[t].op = call[t].op
        /\ call'[t].name = call[t].name /\ call'[t].sock = call[t].sock
    BY <1>0, <2>1, CallKeepsRequest
  <2> QED BY <1>0, <2>1, <2>2 DEF Num, Last
<1> QED BY <1>1, <1>2, <1>3, <1>4, <1>5, <1>6 DEF Silent

-------------------------------------------------------------------------------
\* What the socket operations leave behind is well-typed, and only accept and
\* close touch the descriptor table.
LEMMA ConnectionSteps ==
  ASSUME ConnTypes, NEW s \in Sockets, NEW t \in Threads
  PROVE  /\ \A f \in Frames : Accepted(s, f) => ConnTypes' /\ UNCHANGED fdtable
         /\ Rejected(s) => ConnTypes' /\ UNCHANGED fdtable
         /\ SigPipe(s) => ConnTypes' /\ UNCHANGED fdtable
         /\ ReadEnds(t) => ConnTypes' /\ UNCHANGED fdtable
         /\ ServerStops => ConnTypes' /\ UNCHANGED fdtable
         /\ CloseSocket(s) => ConnTypes'
         /\ AcceptOn(s, t) => ConnTypes'
<1> USE ServerAssumption DEF ConnTypes
<1>1. ASSUME NEW f \in Frames, Accepted(s, f) PROVE ConnTypes' /\ UNCHANGED fdtable
  BY <1>1 DEF Accepted, Free
<1>2. ASSUME Rejected(s) PROVE ConnTypes' /\ UNCHANGED fdtable
  BY <1>2 DEF Rejected, ResetSeen, Free, connvars
<1>3. ASSUME ReadEnds(t) PROVE ConnTypes' /\ UNCHANGED fdtable
  BY <1>3 DEF ReadEnds, ResetSeen
<1>4. ASSUME SigPipe(s) \/ ServerStops PROVE ConnTypes' /\ UNCHANGED fdtable
  BY <1>4 DEF SigPipe, ServerStops
<1>5. ASSUME CloseSocket(s) PROVE ConnTypes'
  BY <1>5 DEF CloseSocket
<1>6. ASSUME AcceptOn(s, t) PROVE ConnTypes'
  BY <1>6 DEF AcceptOn
<1> QED BY <1>1, <1>2, <1>3, <1>4, <1>5, <1>6

\* What a step of t does to descriptors: nothing, accept its connection on a
\* free one, or close its own.
Keeps(t)   == /\ UNCHANGED <<fdtable, fd>>
              /\ (pc[t] \in {"unaccepted", "exited"} \/ pc'[t] \in {"unaccepted", "exited"})
                     => pc'[t] = pc[t]
Accepts(t) == \E s \in Sockets : /\ fdtable[s] = None
                                 /\ fdtable' = [fdtable EXCEPT ![s] = t]
                                 /\ fd' = [fd EXCEPT ![t] = s]
                                 /\ pc[t] = "unaccepted" /\ pc'[t] = "login"
Closes(t)  == /\ pc[t] \in {"login", "closing"} /\ Returned(t)
              /\ pc'[t] = "exited" /\ UNCHANGED fd
              /\ fdtable' = [fdtable EXCEPT ![fd[t]] = None]

\* Every step does one of the three.
LEMMA StepConnections ==
  ASSUME ServerInv, NEW t \in Threads, MoveOf(t)
  PROVE  ConnTypes' /\ (Keeps(t) \/ Accepts(t) \/ Closes(t))
<1> USE DEF At, Goto
<1>0. SCTypeOK /\ ThreadTypes /\ ConnTypes /\ InStep(t)
  BY DEF ServerInv, SCInv
<1>a. pc[t] # "unaccepted" => fd[t] \in Sockets
  BY <1>0 DEF InStep
<1>b. UNCHANGED connvars => ConnTypes' /\ UNCHANGED fdtable
  BY <1>0 DEF connvars, ConnTypes
<1>c. user[t] \in Usernames => user[t] \in Names
  BY DEF Names
<1>1. CASE Client(t)
  <2>1. CASE Accept(t)
    BY <1>0, <2>1, ConnectionSteps DEF Accept, AcceptOn, Free, Accepts, ThreadTypes
  <2>2. CASE AcceptFails(t)
    BY <1>0, <2>2 DEF AcceptFails, ServerStops, threadvars, Keeps, ConnTypes
  <2>3. CASE BadLogin(t)
    BY <1>0, <1>a, <2>3, ConnectionSteps DEF BadLogin, CloseSocket, Closes, ThreadTypes
  <2>4. CASE ReadFails(t)
    <3>1. /\ ReadEnds(t) /\ UNCHANGED fd /\ fd[t] \in Sockets
          /\ pc[t] = "reading" /\ pc'[t] = "departing"
      BY <1>0, <1>a, <2>4 DEF ReadFails, ThreadTypes
    <3> QED BY <1>0, <3>1, ConnectionSteps DEF Keeps
  <2>5. CASE \E u \in Usernames : Login(t, u)
    BY <1>b, <2>5 DEF Login, Keeps
  <2>6. ASSUME NEW r, Read(t, r) PROVE UNCHANGED connvars /\ UNCHANGED fd /\ pc[t] = "reading"
    BY <2>6 DEF Read
  <2>7. CASE \/ ReadSkipped(t) \/ ReadLogin(t) \/ ReadWho(t) \/ ReadDisconnect(t)
             \/ \E dest \in Names, body \in Bodies : ReadMessage(t, dest, body)
    <3>1. pc'[t] \in {"reading", "listing", "forwarding", "departing"}
      BY <1>0, <2>6, <2>7 DEF ReadSkipped, ReadLogin, ReadWho, ReadDisconnect, ReadMessage, Bodies, ThreadTypes
    <3> QED BY <1>b, <2>6, <2>7, <3>1 DEF ReadSkipped, ReadLogin, ReadWho, ReadDisconnect, ReadMessage, Keeps
  <2> QED BY <1>1, <2>1, <2>2, <2>3, <2>4, <2>5, <2>7 DEF Client
<1>2. CASE Sends(t)
  <2> USE DEF Keeps
  <2>1. CASE RefuseLogin(t) \/ Greet(t) \/ GreetFails(t) \/ GreetKilled(t)
    <3>1. pc[t] = "adding" /\ fd[t] \in Sockets /\ user[t] \in Usernames /\ UNCHANGED fd
      BY <1>0, <1>a, <2>1
         DEF RefuseLogin, Greet, GreetFails, GreetKilled, threadvars, InStep
    <3>2. Frame(t, "ERROR", user[t]) \in Frames /\ Frame(t, "LOGIN", user[t]) \in Frames
      BY <1>0, <1>c, <3>1, FrameTypes
    <3>4. pc'[t] \in {"adding", "reading", "closing"}
      BY <1>0, <2>1, <3>1 DEF RefuseLogin, Greet, GreetFails, GreetKilled, threadvars, ThreadTypes
    <3>3. \/ \E f \in Frames : Accepted(fd[t], f)
          \/ Rejected(fd[t]) \/ SigPipe(fd[t])
      BY <2>1, <3>2 DEF RefuseLogin, Greet, GreetFails, GreetKilled
    <3> QED BY <1>0, <3>1, <3>3, <3>4, ConnectionSteps
  <2>2. ASSUME NEW u \in Usernames, Send(t, u) \/ SendKilled(t, u)
        PROVE  ConnTypes' /\ Keeps(t)
    <3>1. /\ call[t].phase = "locked" /\ call[t].op \in SendOps /\ u \in Recipients(t)
          /\ UNCHANGED <<fd, pc>>
      BY <2>2 DEF Send, SendKilled, SendTo, threadvars
    <3>2. client_objects[u] \in Sockets
      BY <1>0, <3>1 DEF Recipients, Users, SCTypeOK
    <3>3. pc[t] \in InSession
      BY <1>0, <3>1 DEF InStep, Returned, SendOps
    <3>4. msg[t] \in Frames
      BY <1>0, <3>3 DEF InStep
    <3>5. \/ Accepted(client_objects[u], msg[t])
          \/ Rejected(client_objects[u]) \/ SigPipe(client_objects[u])
      BY <2>2 DEF Send, SendKilled
    <3> QED BY <1>0, <3>1, <3>2, <3>4, <3>5, ConnectionSteps
  <2> QED BY <1>2, <2>1, <2>2 DEF Sends
<1>3. CASE Silent(t)
  <2>1. CASE Close(t)
    BY <1>0, <1>a, <2>1, ConnectionSteps DEF Close, CloseSocket, Closes, ThreadTypes
  <2>2. CASE AnswerWho(t) \/ Forward(t) \/ Report(t) \/ LogOut(t)
    BY <1>0, <1>b, <2>2 DEF AnswerWho, Forward, Report, LogOut, Keeps, ThreadTypes
  <2>3. CASE InCall(t)
    BY <1>b, <2>3 DEF InCall, threadvars, Keeps
  <2> QED BY <1>3, <2>1, <2>2, <2>3 DEF Silent
<1> QED BY <1>1, <1>2, <1>3 DEF MoveOf

\* A descriptor stays its thread's until that thread closes it: accept takes
\* a free one, and nobody closes another's.
LEMMA StepSockets ==
  ASSUME ServerInv, NEW t \in Threads, MoveOf(t), NEW r \in Threads
  PROVE  OwnsSocket(r)'
<1>1. Alone(t) /\ ConnTypes' /\ (Keeps(t) \/ Accepts(t) \/ Closes(t))
  BY StepAlone, StepConnections
<1>2. InStep(t) /\ InStep(r) /\ OwnsSocket(t) /\ OwnsSocket(r) /\ ConnTypes /\ ThreadTypes
  BY DEF ServerInv
<1> USE ServerAssumption DEF OwnsSocket, InStep, ConnTypes, ThreadTypes
<1>3. CASE Keeps(t)
  BY <1>1, <1>2, <1>3 DEF Keeps, Alone
<1>4. CASE Accepts(t)
  BY <1>1, <1>2, <1>4 DEF Accepts, Alone
<1>5. CASE Closes(t)
  BY <1>1, <1>2, <1>5 DEF Closes, Alone
<1> QED BY <1>1, <1>3, <1>4, <1>5

-------------------------------------------------------------------------------
\* A session has a name and a descriptor.
LEMMA SessionHasFd ==
  ASSUME ServerInv, NEW t \in Threads, Registered(t)
  PROVE  /\ user[t] \in Usernames /\ fd[t] \in Sockets
         /\ pc[t] \notin {"unaccepted", "exited"}
         /\ client_objects[user[t]] = fd[t] /\ fdtable[fd[t]] = t
<1>1. InStep(t) /\ OwnsSocket(t) /\ OwnsEntry(t)
  BY DEF ServerInv
<1> QED BY <1>1 DEF InStep, OwnsSocket, OwnsEntry, Registered

\* A thread becomes a session only by the insert of add_new_user: otherwise
\* it was one before, under the same name, on the same descriptor.
LEMMA SessionsBegin ==
  ASSUME ServerInv, NEW t \in Threads, MoveOf(t), ~InsertUser(t), Registered(t)'
  PROVE  Registered(t) /\ user'[t] = user[t] /\ fd'[t] = fd[t]
<1> USE DEF Registered, Returned, At, Goto
<1>0. SCTypeOK /\ ThreadTypes /\ InStep(t) /\ CallShape
  BY DEF ServerInv, SCInv
<1>a. \A op, name, sock : Invoke(t, op, name, sock) => call'[t].phase = "waiting"
  BY <1>0, InvokeFields
<1>b. UNCHANGED scvars => call'[t] = call[t]
  BY DEF scvars
<1>1. CASE Client(t)
  <2>1. ~Accept(t) /\ ~BadLogin(t)
    BY <1>0 DEF Accept, BadLogin, ThreadTypes
  <2>2. ASSUME NEW u \in Usernames PROVE ~Login(t, u)
    BY <1>0, <1>a DEF Login, ThreadTypes
  <2>3. CASE AcceptFails(t)
    BY <1>b, <2>3 DEF AcceptFails, threadvars
  <2>4. CASE ReadFails(t)
    BY <2>4 DEF ReadFails
  <2>5. CASE \/ ReadSkipped(t) \/ ReadLogin(t) \/ ReadWho(t) \/ ReadDisconnect(t)
             \/ \E dest \in Names, body \in Bodies : ReadMessage(t, dest, body)
    BY <2>5 DEF ReadSkipped, ReadLogin, ReadWho, ReadDisconnect, ReadMessage, Read
  <2> QED BY <1>1, <2>1, <2>2, <2>3, <2>4, <2>5 DEF Client
<1>2. CASE Sends(t)
  <2>1. ~RefuseLogin(t) /\ ~GreetFails(t)
    BY <1>0, <1>b DEF RefuseLogin, GreetFails, ThreadTypes
  <2>2. CASE Greet(t)
    BY <2>2 DEF Greet
  <2>3. CASE GreetKilled(t) \/ \E u \in Usernames : SendKilled(t, u)
    BY <1>b, <2>3 DEF GreetKilled, SendKilled, threadvars
  <2>4. ASSUME NEW u \in Usernames, Send(t, u)
        PROVE  Registered(t) /\ user'[t] = user[t] /\ fd'[t] = fd[t]
    <3>1. /\ \E sent \in BOOLEAN : SendTo(t, u, sent)
          /\ UNCHANGED <<pc, fd, user>>
          /\ call[t].phase = "locked" /\ call[t].op \in SendOps
      BY <2>4 DEF Send, threadvars, SendTo
    <3>2. pc[t] \in InSession
      BY <1>0, <3>1 DEF InStep, SendOps
    <3> QED BY <3>1, <3>2 DEF InSession
  <2> QED BY <1>2, <2>1, <2>2, <2>3, <2>4 DEF Sends
<1>3. CASE Silent(t)
  <2>1. CASE AnswerWho(t) \/ Forward(t) \/ Report(t) \/ LogOut(t)
    BY <2>1 DEF AnswerWho, Forward, Report, LogOut
  <2>2. ~Close(t)
    BY <1>0 DEF Close, ThreadTypes
  <2>3. CASE InCall(t)
    <3>1. LockStep(t) /\ UNCHANGED <<pc, fd, user>>
      BY <2>3 DEF InCall, threadvars
    <3>2. call[t].phase # "idle" /\ call'[t].op = call[t].op
      BY <1>0, <3>1, CallKeepsRequest
    <3>3. CASE pc[t] = "adding"
      <4>1. call[t].op = "add_new_user"
        BY <1>0, <3>2, <3>3 DEF InStep, InSession
      <4>2. RdLock(t) \/ WrLock(t) \/ FindUser(t)
        BY <3>1, <4>1 DEF LockStep, SendReturns, ListReturns, EraseUser, SendOps
      <4>3. call'[t].phase # "idle"
        BY <1>0, <4>2 DEF RdLock, WrLock, FindUser, SCTypeOK, Calls
      <4> QED BY <3>1, <3>3, <4>3
    <3> QED BY <3>1, <3>2, <3>3
  <2> QED BY <1>3, <2>1, <2>2, <2>3 DEF Silent
<1> QED BY <1>1, <1>2, <1>3 DEF MoveOf

\* The map changes only in the insert of add_new_user and the erase of
\* log_out_user.
LEMMA MapChanges ==
  ASSUME ServerInv, NEW t \in Threads, MoveOf(t), client_objects' # client_objects
  PROVE  InsertUser(t) \/ EraseUser(t)
<1>1. ~Client(t)
  BY DEF Client, Accept, AcceptFails, BadLogin, Login, Invoke, ReadSkipped, ReadLogin,
         ReadWho, Answer, ReadMessage, ReadDisconnect, ReadFails, scvars
<1>2. ~Sends(t)
  BY DEF Sends, RefuseLogin, Greet, GreetFails, GreetKilled, Send, SendTo, SendKilled,
         Invoke, scvars
<1>3. CASE Silent(t)
  <2>1. LockStep(t)
    BY <1>3 DEF Silent, AnswerWho, Forward, Report, LogOut, Close, InCall, Invoke, scvars
  <2> QED BY <2>1 DEF LockStep, RdLock, WrLock, SendReturns, ListReturns, FindUser
<1> QED BY <1>1, <1>2, <1>3 DEF MoveOf

\* A thread inside a call waits for it: only the call moves.
LEMMA WaitsForCall ==
  ASSUME NEW t \in Threads, MoveOf(t), ~Returned(t) PROVE UNCHANGED threadvars
<1> USE DEF At
<1>1. ~Client(t)
  BY DEF Client, Accept, AcceptFails, BadLogin, Login, Read, ReadSkipped, ReadLogin,
         ReadWho, ReadMessage, ReadDisconnect, ReadFails
<1>2. CASE Sends(t)
  BY <1>2 DEF Sends, RefuseLogin, Greet, GreetFails, GreetKilled, Send, SendKilled
<1>3. CASE Silent(t)
  BY <1>3 DEF Silent, AnswerWho, Forward, Report, LogOut, Close, InCall
<1> QED BY <1>1, <1>2, <1>3 DEF MoveOf

\* What the map gives for a session's name survives every step but that
\* session's own log_out_user: the name is taken for others' add_new_user,
\* and others' log_out_user erases only what is theirs.
LEMMA StepEntries ==
  ASSUME ServerInv, NEW t \in Threads, MoveOf(t), NEW r \in Threads
  PROVE  OwnsEntry(r)'
<1> SUFFICES ASSUME Registered(r)' PROVE client_objects'[user'[r]] = fd'[r]
  BY DEF OwnsEntry
<1>0. SCTypeOK /\ InStep(t) /\ CallShape /\ CheckedNameStaysFree /\ ConnTypes
  BY DEF ServerInv, SCInv
<1>1. r # t => Registered(r) /\ user'[r] = user[r] /\ fd'[r] = fd[r]
  BY StepAlone DEF Alone, Registered, Returned
<1>2. CASE UNCHANGED client_objects /\ ~InsertUser(t)
  <2>1. Registered(r) /\ user'[r] = user[r] /\ fd'[r] = fd[r]
    BY <1>1, <1>2, SessionsBegin
  <2> QED BY <1>2, <2>1, SessionHasFd
<1>3. CASE InsertUser(t)
  <2>1. pc[t] = "adding" /\ call[t].name = user[t] /\ call[t].sock = fd[t]
        /\ fd[t] \in Sockets /\ user[t] \in Usernames
    BY <1>0, <1>3 DEF InsertUser, InStep, InSession, CallShape, Returned, ReadOps, SendOps
  <2>2. UNCHANGED <<pc, fd, user>>
    BY <1>3, WaitsForCall DEF InsertUser, Returned, threadvars
  <2>3. call[t].ok <=> user[t] \notin Users
    BY <1>0, <1>3, <2>1 DEF InsertUser, CheckedNameStaysFree
  <2>4. CASE r = t
    <3>1. call[t].ok
      BY <1>0, <1>3, <2>1, <2>2, <2>4 DEF Registered, InsertUser, SCTypeOK, Calls
    <3> QED BY <1>0, <1>3, <2>1, <2>2, <2>3, <2>4, <3>1 DEF InsertUser, SCTypeOK
  <2>5. CASE r # t
    <3>1. user[r] \in Usernames /\ client_objects[user[r]] = fd[r] /\ fd[r] \in Sockets
      BY <1>1, <2>5, SessionHasFd
    <3>2. user[r] \in Users
      BY <3>1, ServerAssumption DEF Users
    <3> QED BY <1>0, <1>1, <1>3, <2>1, <2>3, <2>5, <3>1, <3>2 DEF InsertUser, SCTypeOK
  <2> QED BY <2>4, <2>5
<1>4. CASE EraseUser(t)
  <2>1. pc[t] = "closing" /\ call[t].name = user[t] /\ ~Returned(t)
    BY <1>0, <1>4 DEF EraseUser, InStep, Returned, ReadOps, SendOps
  <2>2. Registered(t)
    BY <2>1 DEF Registered
  <2>3. UNCHANGED pc /\ call'[t].phase = "idle"
    BY <1>0, <1>4, <2>1, WaitsForCall DEF EraseUser, SCTypeOK, Calls, threadvars
  <2>4. r # t
    BY <2>1, <2>3 DEF Registered, Returned
  <2>5. user[r] # user[t]
    BY <1>1, <2>2, <2>4, SessionHasFd
  <2> QED BY <1>0, <1>1, <1>4, <2>1, <2>4, <2>5, SessionHasFd DEF EraseUser, SCTypeOK
<1> QED BY <1>2, <1>3, <1>4, MapChanges

\* ServerInv is inductive.
LEMMA ServerInvStep == ASSUME ServerInv, [Next]_vars PROVE ServerInv'
<1>1. ASSUME NEW t \in Threads, MoveOf(t) PROVE ServerInv'
  <2>1. SCInv'
    BY <1>1, StepUsesSharedClients, SCInvStep DEF ServerInv, Next, MoveOf
  <2>2. ThreadTypes' /\ InStep(t)'
    BY <1>1, ClientThread, SendsThread, SilentThread DEF MoveOf
  <2>3. Alone(t) /\ ConnTypes'
    BY <1>1, StepAlone, StepConnections
  <2>4. ASSUME NEW r \in Threads \ {t} PROVE InStep(r)'
    <3>1. InStep(r)
      BY DEF ServerInv
    <3> QED BY <2>3, <3>1 DEF Alone, InStep, Num, Last, Returned
  <2>5. \A r \in Threads : OwnsSocket(r)' /\ OwnsEntry(r)'
    BY <1>1, StepSockets, StepEntries
  <2> QED BY <2>1, <2>2, <2>3, <2>4, <2>5 DEF ServerInv
<1>2. CASE UNCHANGED vars
  BY <1>2 DEF ServerInv, vars, scvars, connvars, threadvars, SCInv, SCTypeOK,
              LockHeldInside, CallShape, CheckedNameStaysFree, Users, ThreadTypes,
              ConnTypes, InStep, OwnsSocket, OwnsEntry, Registered, Returned, Num, Last
<1> QED BY <1>1, <1>2 DEF Next, Done, MoveOf

-------------------------------------------------------------------------------
\* The server keeps ServerInv, whatever its clients do.
LEMMA ServerInvariant == Spec => []ServerInv
<1>1. Init => ServerInv
  BY ServerInvInit
<1>2. ServerInv /\ [Next]_vars => ServerInv'
  BY ServerInvStep
<1> QED BY <1>1, <1>2, PTL DEF Spec

\* The variables of the server stay within their types.
THEOREM ServerTypes == Spec => []TypeOK
<1>1. ServerInv => TypeOK
  BY DEF ServerInv, SCInv, ThreadTypes, ConnTypes, TypeOK
<1> QED BY <1>1, ServerInvariant, PTL

\* A session's map entry is its own, open connection, from add_new_user to
\* log_out_user: for any number of clients, of names they compete for and of
\* descriptors that are reused.
THEOREM SessionsOwnTheirEntries == Spec => []SessionOwnsEntry
<1>1. ServerInv => SessionOwnsEntry
  BY SessionHasFd DEF SessionOwnsEntry
<1> QED BY <1>1, ServerInvariant, PTL

\* The server's threads go through SharedClients' operations, one call at a
\* time ...
THEOREM ServerUsesSharedClients == Spec => UsesSharedClients
<1>1. Init => SCInit
  BY DEF Init
<1>2. ServerInv /\ [Next]_vars => [SCNext]_scvars
  <2>1. CASE UNCHANGED vars
    BY <2>1 DEF vars
  <2> QED BY <2>1, StepUsesSharedClients
<1> QED BY <1>1, <1>2, ServerInvariant, PTL DEF Spec, SCSpec, UsesSharedClients

\* ... so that to them it is the atomic directory.
THEOREM ServerSeesDirectory == Spec => ImplementsDirectory
<1>1. Spec => SCSpec
  BY ServerUsesSharedClients DEF UsesSharedClients
<1> QED BY <1>1, SharedClientsIsDirectory

-------------------------------------------------------------------------------
(***************************************************************************)
(* Entries and direct messages.  A session ends by erasing its entry, or   *)
(* is abandoned and stays so; with that every entry is some session's, and *)
(* a message sent to the entry of a name reaches that session.             *)
(***************************************************************************)
\* A session, or an abandoned one, remains so under its name and descriptor,
\* unless it erases its entry.
LEMMA SessionsLast ==
  ASSUME ServerInv, NEW t \in Threads, MoveOf(t), Registered(t) \/ Abandoned(t)
  PROVE  /\ user'[t] = user[t] /\ fd'[t] = fd[t]
         /\ Registered(t)' \/ Abandoned(t)' \/ EraseUser(t)
         /\ Abandoned(t) => Abandoned(t)'
<1> USE DEF Registered, Abandoned, Returned, At, Goto
<1>0. SCTypeOK /\ ThreadTypes /\ InStep(t) /\ CallShape
  BY DEF ServerInv, SCInv
<1>a. \A op, name, sock : Invoke(t, op, name, sock) => call'[t].phase = "waiting"
  BY <1>0, InvokeFields
<1>b. UNCHANGED scvars => call'[t] = call[t]
  BY DEF scvars
<1>c. Abandoned(t) => Returned(t)
  BY <1>0 DEF InStep, InSession
<1>1. CASE Client(t)
  <2>1. CASE \/ AcceptFails(t) \/ ReadFails(t)
    BY <1>0, <1>b, <2>1 DEF AcceptFails, ReadFails, threadvars, ThreadTypes
  <2>2. CASE \/ ReadSkipped(t) \/ ReadLogin(t) \/ ReadWho(t) \/ ReadDisconnect(t)
             \/ \E dest \in Names, body \in Bodies : ReadMessage(t, dest, body)
    <3>1. /\ pc[t] = "reading" /\ UNCHANGED <<fd, user>>
          /\ pc'[t] \in {"reading", "listing", "forwarding", "departing"}
      BY <1>0, <2>2 DEF ReadSkipped, ReadLogin, ReadWho, ReadDisconnect, ReadMessage, Read,
                        ThreadTypes, Bodies
    <3> QED BY <3>1
  <2>3. ~Accept(t) /\ ~BadLogin(t) /\ \A u \in Usernames : ~Login(t, u)
    BY DEF Accept, BadLogin, Login
  <2> QED BY <1>1, <2>1, <2>2, <2>3 DEF Client
<1>2. CASE Sends(t)
  <2>1. CASE RefuseLogin(t) \/ Greet(t) \/ GreetFails(t)
    <3>1. /\ Greet(t) \/ GreetFails(t)
          /\ pc[t] = "adding" /\ Returned(t) /\ call[t].ok /\ UNCHANGED <<fd, user>>
      BY <2>1 DEF RefuseLogin, Greet, GreetFails
    <3>2. CASE Greet(t)
      BY <1>0, <3>1, <3>2 DEF Greet, ThreadTypes
    <3>3. CASE GreetFails(t)
      <4>1. pc'[t] = "closing" /\ call'[t] = call[t]
        BY <1>0, <1>b, <3>3 DEF GreetFails, ThreadTypes
      <4>2. call[t].op = "add_new_user"
        BY <1>0, <3>1 DEF InStep
      <4> QED BY <3>1, <4>1, <4>2
    <3> QED BY <3>1, <3>2, <3>3
  <2>2. CASE GreetKilled(t) \/ \E u \in Usernames : SendKilled(t, u)
    BY <1>b, <2>2 DEF GreetKilled, SendKilled, threadvars
  <2>3. ASSUME NEW u \in Usernames, Send(t, u)
        PROVE  /\ UNCHANGED <<pc, fd, user>>
               /\ pc[t] \in InSession
    BY <1>0, <2>3 DEF Send, SendTo, threadvars, InStep, SendOps
  <2> QED BY <1>2, <2>1, <2>2, <2>3 DEF Sends, InSession
<1>3. CASE Silent(t)
  <2>1. CASE AnswerWho(t) \/ Forward(t) \/ Report(t) \/ LogOut(t)
    <3>1. /\ UNCHANGED <<fd, user>> /\ pc[t] \in InSession
          /\ pc'[t] \in {"reading", "reporting"} \/ (pc'[t] = "closing" /\ ~Returned(t)')
      BY <1>0, <1>a, <2>1 DEF AnswerWho, Forward, Report, LogOut, ThreadTypes, InSession
    <3> QED BY <3>1 DEF InSession
  <2>2. CASE Close(t)
    <3>1. pc[t] = "closing" /\ pc'[t] = "exited" /\ call'[t] = call[t] /\ Returned(t)
          /\ UNCHANGED <<fd, user>>
      BY <1>0, <1>b, <2>2 DEF Close, ThreadTypes
    <3> QED BY <3>1
  <2>3. CASE InCall(t)
    <3>1. LockStep(t) /\ UNCHANGED <<pc, fd, user>>
      BY <2>3 DEF InCall, threadvars
    <3>2. call[t].phase # "idle"
      BY <1>0, <3>1, CallKeepsRequest
    <3>3. CASE pc[t] = "closing" /\ ~EraseUser(t)
      <4>1. call[t].op = "log_out_user"
        BY <1>0, <3>2, <3>3 DEF InStep, InSession
      <4>2. WrLock(t)
        BY <1>0, <3>1, <3>3, <4>1 DEF LockStep, RdLock, SendReturns, ListReturns,
            FindUser, InsertUser, SendOps, ReadOps, CallShape
      <4>3. call'[t].phase # "idle"
        BY <1>0, <4>2 DEF WrLock, SCTypeOK, Calls
      <4> QED BY <1>c, <3>1, <3>2, <3>3, <4>3
    <3> QED BY <1>c, <3>1, <3>2, <3>3
  <2> QED BY <1>3, <2>1, <2>2, <2>3 DEF Silent
<1> QED BY <1>1, <1>2, <1>3 DEF MoveOf

\* Inserting makes an entry for a session, erasing removes that of one, and
\* what others have they keep.
LEMMA EntriesStep ==
  ASSUME ServerInv, EveryEntryHasASession, NEW t \in Threads, MoveOf(t)
  PROVE  EveryEntryHasASession'
<1> SUFFICES ASSUME NEW u \in Users'
             PROVE  \E r \in Threads : /\ user'[r] = u /\ fd'[r] = client_objects'[u]
                                       /\ Registered(r)' \/ Abandoned(r)'
  BY DEF EveryEntryHasASession
<1>0. SCTypeOK /\ InStep(t) /\ CallShape /\ CheckedNameStaysFree /\ u \in Usernames
  BY DEF ServerInv, SCInv, Users
<1>1. ASSUME u \in Users, client_objects'[u] = client_objects[u],
             EraseUser(t) => call[t].name # u
      PROVE  \E r \in Threads : /\ user'[r] = u /\ fd'[r] = client_objects'[u]
                                /\ Registered(r)' \/ Abandoned(r)'
  <2>1. PICK r \in Threads : /\ user[r] = u /\ fd[r] = client_objects[u]
                             /\ Registered(r) \/ Abandoned(r)
    BY <1>1 DEF EveryEntryHasASession
  <2>2. CASE r # t
    <3>1. /\ pc'[r] = pc[r] /\ fd'[r] = fd[r] /\ user'[r] = user[r] /\ call'[r] = call[r]
      BY <2>2, StepAlone DEF Alone
    <3> QED BY <1>1, <2>1, <3>1 DEF Registered, Abandoned, Returned
  <2>3. CASE r = t
    <3>1. EraseUser(t) => call[t].name = user[t]
      BY <1>0 DEF EraseUser, InStep, Returned, ReadOps, SendOps
    <3> QED BY <1>1, <2>1, <2>3, <3>1, SessionsLast
  <2> QED BY <2>2, <2>3
<1>2. CASE UNCHANGED client_objects /\ ~EraseUser(t)
  BY <1>1, <1>2 DEF Users
<1>3. CASE EraseUser(t)
  <2>1. client_objects' = [client_objects EXCEPT ![call[t].name] = None]
    BY <1>3 DEF EraseUser
  <2>2. u # call[t].name
    BY <1>0, <2>1 DEF Users, SCTypeOK
  <2> QED BY <1>0, <1>1, <2>1, <2>2 DEF Users, SCTypeOK
<1>4. CASE InsertUser(t)
  <2>1. CASE client_objects'[u] = client_objects[u]
    BY <1>0, <1>1, <1>4, <2>1 DEF Users, InsertUser, EraseUser
  <2>2. CASE client_objects'[u] # client_objects[u]
    <3>1. pc[t] = "adding" /\ call[t].name = user[t] /\ call[t].sock = fd[t]
      BY <1>0, <1>4 DEF InsertUser, InStep, InSession, CallShape, Returned, ReadOps, SendOps
    <3>2. UNCHANGED <<pc, fd, user>>
      BY <1>4, WaitsForCall DEF InsertUser, Returned, threadvars
    <3>3. u = user[t] /\ client_objects'[u] = fd[t] /\ call[t].ok
      BY <1>0, <1>4, <2>2, <3>1 DEF InsertUser, SCTypeOK
    <3>4. call'[t].phase = "idle" /\ call'[t].ok = call[t].ok
      BY <1>0, <1>4 DEF InsertUser, SCTypeOK, Calls
    <3> QED BY <3>1, <3>2, <3>3, <3>4 DEF Registered, Returned
  <2> QED BY <2>1, <2>2
<1> QED BY <1>2, <1>3, <1>4, MapChanges

\* Every entry of the map is a session's, or was left behind by a LOGIN answer
\* that could not be sent (EveryEntryHasASession).
THEOREM EntriesHaveSessions == Spec => []EveryEntryHasASession
<1>1. Init => EveryEntryHasASession
  BY DEF Init, SCInit, Users, EveryEntryHasASession
<1>2. ServerInv /\ EveryEntryHasASession /\ [Next]_vars => EveryEntryHasASession'
  <2>1. CASE UNCHANGED vars
    BY <2>1 DEF vars, scvars, threadvars, Users, EveryEntryHasASession, Registered, Abandoned, Returned
  <2> QED BY <2>1, EntriesStep DEF Next, Done, MoveOf
<1> QED BY <1>1, <1>2, ServerInvariant, PTL DEF Spec

\* A thread has a name from its LOGIN on; what it sends is for all, or for
\* whom its send_to_client looks up.
NamedByLogin(t) == pc[t] \in {"unaccepted", "login"} => user[t] = None
SendsToName(t) ==
    ~Returned(t) /\ call[t].op \in SendOps =>
        msg[t].dest = All \/ (call[t].op = "send_to_client" /\ msg[t].dest = call[t].name)

DirectInv == \A t \in Threads : NamedByLogin(t) /\ SendsToName(t)

LEMMA NamesStay ==
  ASSUME ServerInv, NEW t \in Threads, MoveOf(t)
  PROVE  /\ pc[t] \in {"unaccepted", "login"} \/ user'[t] = user[t]
         /\ NamedByLogin(t) => NamedByLogin(t)'
<1>0. ThreadTypes
  BY DEF ServerInv
<1>1. UNCHANGED user \/ \E u \in Usernames : Login(t, u)
  BY DEF MoveOf, Client, Sends, Silent, Accept, AcceptFails, BadLogin, Read, ReadSkipped, ReadLogin,
         ReadWho, ReadMessage, ReadDisconnect, ReadFails, RefuseLogin, Greet, GreetFails, GreetKilled,
         Send, SendKilled, AnswerWho, Forward, Report, LogOut, Close, InCall, threadvars
<1>2. ASSUME pc'[t] \in {"unaccepted", "login"} PROVE pc[t] \in {"unaccepted", "login"}
  <2>2. ASSUME ~(pc[t] \in {"unaccepted", "login"}) PROVE pc'[t] \notin {"unaccepted", "login"}
    <3> USE <1>0, <2>2 DEF At, Goto, ThreadTypes
    <3>1. CASE Client(t)
      <4>1. CASE \/ ReadSkipped(t) \/ ReadLogin(t) \/ ReadWho(t) \/ ReadDisconnect(t) \/ ReadFails(t)
                 \/ \E dest \in Names, body \in Bodies : ReadMessage(t, dest, body)
        BY <4>1 DEF ReadSkipped, ReadLogin, ReadWho, ReadDisconnect, ReadFails, ReadMessage, Read, Bodies
      <4>2. ~Accept(t) /\ ~AcceptFails(t) /\ ~BadLogin(t) /\ \A u \in Usernames : ~Login(t, u)
        BY DEF Accept, AcceptFails, BadLogin, Login
      <4> QED BY <3>1, <4>1, <4>2 DEF Client
    <3>2. CASE Sends(t)
      BY <3>2 DEF Sends, RefuseLogin, Greet, GreetFails, GreetKilled, Send, SendKilled, threadvars
    <3>3. CASE Silent(t)
      BY <3>3 DEF Silent, AnswerWho, Forward, Report, LogOut, Close, InCall, threadvars
    <3> QED BY <3>1, <3>2, <3>3 DEF MoveOf
  <2> QED BY <1>2, <2>2
<1>3. ASSUME NEW u \in Usernames, Login(t, u) PROVE pc'[t] = "adding" /\ pc[t] = "login"
  BY <1>0, <1>3 DEF Login, At, Goto, ThreadTypes
<1> QED BY <1>1, <1>2, <1>3 DEF NamedByLogin

LEMMA SendsToNameStep ==
  ASSUME ServerInv, NEW t \in Threads, MoveOf(t), SendsToName(t)
  PROVE  SendsToName(t)'
<1> USE DEF SendsToName, Returned
<1>0. SCTypeOK /\ ThreadTypes
  BY DEF ServerInv, SCInv
<1>1. ASSUME ~Returned(t) PROVE SendsToName(t)'
  <2>1. UNCHANGED threadvars
    BY <1>1, WaitsForCall
  <2>2. \/ UNCHANGED scvars \/ LockStep(t)
        \/ \E u \in Usernames, sent \in BOOLEAN : SendTo(t, u, sent)
    <3> USE <1>1 DEF At
    <3>1. ~Client(t)
      BY DEF Client, Accept, AcceptFails, BadLogin, Login, Read, ReadSkipped, ReadLogin,
             ReadWho, ReadMessage, ReadDisconnect, ReadFails
    <3>2. CASE Sends(t)
      BY <3>2 DEF Sends, RefuseLogin, Greet, GreetFails, GreetKilled, Send, SendKilled
    <3>3. CASE Silent(t)
      BY <3>3 DEF Silent, AnswerWho, Forward, Report, LogOut, Close, InCall
    <3> QED BY <3>1, <3>2, <3>3 DEF MoveOf
  <2>3. call'[t].op = call[t].op /\ call'[t].name = call[t].name
    BY <1>0, <2>2, CallKeepsRequest DEF scvars
  <2> QED BY <1>1, <2>1, <2>3 DEF threadvars
<1>2. ASSUME Returned(t) PROVE SendsToName(t)'
  <2>a. \A op, name, sock : Invoke(t, op, name, sock) => call'[t].op = op /\ call'[t].name = name
    BY <1>0, InvokeFields
  <2>b. UNCHANGED scvars => Returned(t)'
    BY <1>2 DEF scvars
  <2>c. \A kind, dest, op, name : Answer(t, op, name, kind, dest) =>
            msg'[t].dest = dest /\ call'[t].op = op /\ call'[t].name = name
    BY <1>0, <2>a DEF Answer, Frame, ThreadTypes
  <2>d. \A kind, dest : msg' = [msg EXCEPT ![t] = Frame(t, kind, dest)] => msg'[t].dest = dest
    BY <1>0 DEF Frame, ThreadTypes
  <2>1. CASE Client(t)
    <3>1. CASE Accept(t) \/ AcceptFails(t) \/ BadLogin(t) \/ ReadSkipped(t) \/ ReadFails(t)
      BY <2>b, <3>1 DEF Accept, AcceptFails, BadLogin, ReadSkipped, ReadFails
    <3>2. CASE ReadWho(t) \/ \E u \in Usernames : Login(t, u)
      BY <2>a, <3>2 DEF ReadWho, Login, SendOps
    <3>3. CASE \/ ReadLogin(t) \/ ReadDisconnect(t)
               \/ \E dest \in Names, body \in Bodies : ReadMessage(t, dest, body)
      BY <2>c, <3>3 DEF ReadLogin, ReadDisconnect, ReadMessage
    <3> QED BY <2>1, <3>1, <3>2, <3>3 DEF Client
  <2>2. CASE Sends(t)
    <3>1. CASE RefuseLogin(t) \/ GreetFails(t) \/ GreetKilled(t) \/ \E u \in Usernames : SendKilled(t, u)
      BY <2>b, <3>1 DEF RefuseLogin, GreetFails, GreetKilled, SendKilled
    <3>2. CASE Greet(t)
      BY <2>d, <3>2 DEF Greet
    <3>3. \A u \in Usernames : ~Send(t, u)
      BY <1>2 DEF Send, SendTo
    <3> QED BY <2>2, <3>1, <3>2, <3>3 DEF Sends
  <2>3. CASE Silent(t)
    <3>1. CASE AnswerWho(t)
      <4>1. msg'[t] = WhoFrame(t) /\ Invoke(t, "send_to_client", user[t], None)
        BY <1>0, <3>1 DEF AnswerWho, ThreadTypes
      <4>2. WhoFrame(t).dest = user[t]
        BY DEF WhoFrame, Frame
      <4> QED BY <2>a, <4>1, <4>2
    <3>2. CASE Forward(t)
      BY <2>a, <2>d, <3>2 DEF Forward
    <3>3. CASE Report(t)
      BY <2>a, <2>b, <2>d, <3>3 DEF Report
    <3>4. CASE LogOut(t) \/ Close(t)
      BY <2>a, <2>b, <3>4 DEF LogOut, Close, SendOps
    <3>5. ~InCall(t)
      BY <1>0, <1>2, CallKeepsRequest DEF InCall
    <3> QED BY <2>3, <3>1, <3>2, <3>3, <3>4, <3>5 DEF Silent
  <2> QED BY <2>1, <2>2, <2>3 DEF MoveOf
<1> QED BY <1>1, <1>2

\* What a step adds to a connection's frames is addressed to its user, unless
\* the name it is addressed to was left behind.
LEMMA WellAddressed ==
  ASSUME ServerInv, EveryEntryHasASession, DirectInv, NEW t \in Threads, MoveOf(t)
  PROVE  \/ UNCHANGED outbox
         \/ \E d \in Threads, f \in Frames :
                /\ outbox' = [outbox EXCEPT ![d] = Append(@, f)]
                /\ \/ f.dest \in {All, user[d]}
                   \/ \E r \in Threads : Abandoned(r) /\ user[r] = f.dest
<1>0. ServerInv /\ InStep(t) /\ OwnsSocket(t) /\ ConnTypes /\ ThreadTypes /\ SendsToName(t) /\ SCTypeOK
  BY DEF ServerInv, SCInv, DirectInv
<1>1. CASE \E kind \in {"ERROR", "LOGIN"} : pc[t] = "adding" /\ Accepted(fd[t], Frame(t, kind, user[t]))
  <2>1. PICK kind \in {"ERROR", "LOGIN"} : pc[t] = "adding" /\ Accepted(fd[t], Frame(t, kind, user[t]))
    BY <1>1
  <2>2. fdtable[fd[t]] = t /\ user[t] \in Names
    BY <1>0, <2>1 DEF OwnsSocket, InStep, Names
  <2>3. Frame(t, kind, user[t]) \in Frames
    BY <1>0, <2>2, FrameTypes
  <2>4. Frame(t, kind, user[t]).dest = user[t]
    BY DEF Frame
  <2> QED BY <2>1, <2>2, <2>3, <2>4 DEF Accepted
<1>2. ASSUME NEW u \in Usernames, NEW sent \in BOOLEAN, SendTo(t, u, sent),
             Accepted(client_objects[u], msg[t])
      PROVE  \E d \in Threads, f \in Frames :
                /\ outbox' = [outbox EXCEPT ![d] = Append(@, f)]
                /\ \/ f.dest \in {All, user[d]}
                   \/ \E r \in Threads : Abandoned(r) /\ user[r] = f.dest
  <2>1. /\ call[t].phase = "locked" /\ call[t].op \in SendOps /\ u \in Recipients(t)
    BY <1>2 DEF SendTo
  <2>2. u \in Users /\ client_objects[u] \in Sockets
    BY <1>0, <2>1 DEF Recipients, Users, SCTypeOK
  <2>3. pc[t] \in InSession /\ msg[t] \in Frames
    BY <1>0, <2>1 DEF InStep, Returned, SendOps
  <2>4. /\ fdtable[client_objects[u]] \in Threads
        /\ outbox' = [outbox EXCEPT ![fdtable[client_objects[u]]] = Append(@, msg[t])]
    BY <1>0, <1>2, <2>2 DEF Accepted, Free, ConnTypes
  <2>5. msg[t].dest = All \/ msg[t].dest = u
    BY <1>0, <2>1 DEF SendsToName, Returned, Recipients
  <2>6. PICK r \in Threads : user[r] = u /\ fd[r] = client_objects[u] /\ (Registered(r) \/ Abandoned(r))
    BY <2>2 DEF EveryEntryHasASession
  <2>7. Registered(r) => fdtable[client_objects[u]] = r
    BY <1>0, <2>6, SessionHasFd
  <2> QED BY <2>3, <2>4, <2>5, <2>6, <2>7
<1>3. CASE Client(t)
  BY <1>3 DEF Client, Accept, AcceptFails, BadLogin, Login, Read, ReadSkipped, ReadLogin, ReadWho,
              ReadMessage, ReadDisconnect, ReadFails, AcceptOn, ServerStops, CloseSocket, ReadEnds, connvars
<1>4. CASE Sends(t)
  <2>1. CASE RefuseLogin(t) \/ Greet(t) \/ GreetFails(t) \/ GreetKilled(t)
    <3>1. UNCHANGED outbox \/ \E kind \in {"ERROR", "LOGIN"} : Accepted(fd[t], Frame(t, kind, user[t]))
      BY <2>1 DEF RefuseLogin, Greet, GreetFails, GreetKilled, Rejected, SigPipe, ServerStops, connvars
    <3>2. pc[t] = "adding"
      BY <2>1 DEF RefuseLogin, Greet, GreetFails, GreetKilled, At
    <3> QED BY <1>1, <3>1, <3>2
  <2>2. ASSUME NEW u \in Usernames, Send(t, u) \/ SendKilled(t, u)
        PROVE  \/ UNCHANGED outbox
               \/ \E sent \in BOOLEAN : SendTo(t, u, sent) /\ Accepted(client_objects[u], msg[t])
    BY <2>2 DEF Send, SendKilled, Rejected, SigPipe, ServerStops, connvars
  <2> QED BY <1>2, <1>4, <2>1, <2>2 DEF Sends
<1>5. CASE Silent(t)
  BY <1>5 DEF Silent, AnswerWho, Forward, Report, LogOut, Close, InCall, CloseSocket, connvars
<1> QED BY <1>3, <1>4, <1>5 DEF MoveOf

LEMMA DirectStep ==
  ASSUME ServerInv, ServerInv', EveryEntryHasASession, DirectInv, DirectMessagesReachAddressee,
         NEW t \in Threads, MoveOf(t)
  PROVE  DirectInv' /\ DirectMessagesReachAddressee'
<1>0. Alone(t) /\ ServerInv /\ ConnTypes
  BY StepAlone DEF ServerInv
<1>1. DirectInv'
  <2>1. NamedByLogin(t)' /\ SendsToName(t)'
    BY NamesStay, SendsToNameStep DEF DirectInv
  <2>2. ASSUME NEW r \in Threads \ {t} PROVE NamedByLogin(r)' /\ SendsToName(r)'
    BY <1>0 DEF Alone, DirectInv, NamedByLogin, SendsToName, Returned
  <2> QED BY <2>1, <2>2 DEF DirectInv
<1>2. ASSUME NEW r \in Threads, Abandoned(r) PROVE Abandoned(r)' /\ user'[r] = user[r]
  <2>1. CASE r = t
    BY <1>2, <2>1, SessionsLast
  <2>2. CASE r # t
    BY <1>0, <1>2, <2>2 DEF Alone, Abandoned
  <2> QED BY <2>1, <2>2
<1>3. ASSUME NEW d \in Threads, NEW f \in Frames,
             \/ f.dest \in {All, user[d]}
             \/ \E r \in Threads : Abandoned(r) /\ user[r] = f.dest
      PROVE  \/ f.dest \in {All, user'[d]}
             \/ \E r \in Threads : Abandoned(r)' /\ user'[r] = f.dest
  <2>1. CASE f.dest = user[d] /\ f.dest # All
    <3>1. f.dest \in Usernames
      BY <2>1 DEF Frames, Names
    <3>2. pc[d] \notin {"unaccepted", "login"}
      BY <2>1, <3>1, ServerAssumption DEF DirectInv, NamedByLogin
    <3>3. user'[d] = user[d]
      BY <1>0, <3>2, NamesStay DEF Alone
    <3> QED BY <2>1, <3>3
  <2> QED BY <1>2, <1>3, <2>1
<1>4. ASSUME NEW d \in Threads, NEW i \in DOMAIN outbox'[d]
      PROVE  \/ outbox'[d][i].dest \in {All, user'[d]}
             \/ \E r \in Threads : Abandoned(r)' /\ user'[r] = outbox'[d][i].dest
  <2>1. \/ i \in DOMAIN outbox[d] /\ outbox'[d][i] = outbox[d][i]
        \/ \E f \in Frames :
              /\ outbox'[d][i] = f
              /\ \/ f.dest \in {All, user[d]}
                 \/ \E r \in Threads : Abandoned(r) /\ user[r] = f.dest
    <3>1. CASE outbox'[d] = outbox[d]
      BY <3>1
    <3>2. CASE outbox'[d] # outbox[d]
      <4>1. PICK f \in Frames :
              /\ outbox'[d] = Append(outbox[d], f)
              /\ \/ f.dest \in {All, user[d]}
                 \/ \E r \in Threads : Abandoned(r) /\ user[r] = f.dest
        BY <1>0, <3>2, WellAddressed DEF ConnTypes
      <4>2. outbox[d] \in Seq(Frames)
        BY <1>0 DEF ConnTypes
      <4> QED BY <4>1, <4>2
    <3> QED BY <3>1, <3>2
  <2>2. i \in DOMAIN outbox[d] =>
            /\ outbox[d][i] \in Frames
            /\ \/ outbox[d][i].dest \in {All, user[d]}
               \/ \E r \in Threads : Abandoned(r) /\ user[r] = outbox[d][i].dest
    BY <1>0 DEF ConnTypes, DirectMessagesReachAddressee
  <2> QED BY <1>3, <2>1, <2>2
<1> QED BY <1>1, <1>4 DEF DirectMessagesReachAddressee

\* What is sent to one user comes out on that user's connection and no other,
\* unless an entry of the name was left behind.
THEOREM DirectReachAddressee == Spec => []DirectMessagesReachAddressee
<1>1. Init => DirectInv /\ DirectMessagesReachAddressee
  BY DEF Init, SCInit, ConnInit, NoCall, DirectInv, NamedByLogin, SendsToName, Returned,
         DirectMessagesReachAddressee
<1>2. ServerInv /\ ServerInv' /\ EveryEntryHasASession /\ DirectInv /\ DirectMessagesReachAddressee
      /\ [Next]_vars => DirectInv' /\ DirectMessagesReachAddressee'
  <2>1. CASE UNCHANGED vars
    BY <2>1 DEF vars, scvars, connvars, threadvars, DirectInv, NamedByLogin, SendsToName, Returned,
                DirectMessagesReachAddressee, Abandoned
  <2> QED BY <2>1, DirectStep DEF Next, Done, MoveOf
<1> QED BY <1>1, <1>2, ServerInvariant, EntriesHaveSessions, PTL DEF Spec
===============================================================================
