-------------------------------- MODULE Client --------------------------------
(***************************************************************************)
(* Client.cpp: the main thread, which sends what the user types, the       *)
(* receiver thread, the messages they share under messages_mutex, and the  *)
(* two signal handlers by which they end each other.                       *)
(*                                                                         *)
(* One step is a stretch of code up to the next point where a thread may   *)
(* block or reads what the other writes.  A read() and the test of         *)
(* is_running after it are one step: is_running only ever becomes FALSE,   *)
(* and nobody sees what the receiver has read but not yet acted upon.      *)
(***************************************************************************)
EXTENDS ServerLink

\* None is nobody who holds the mutex.
ASSUME MutexAssumption == None \notin {"sender", "receiver"}

VARIABLES spc,              \* where the main thread is
          signum,           \* what cleanup_on_exit was called with, or None
          packet_number,    \* of the next frame
          sent,             \* messages the user has typed and we have stored
          rpc,              \* where the receiver thread is
          replied,          \* the number of the ACK or NACK it is handling
          usr1,             \* SIGUSR1 is pending for the receiver
          is_running,       \* the atomic flag
          client_messages,  \* packet number -> message, None if there is none
          mutex,            \* who holds messages_mutex
          client_thread,    \* the std::thread: "none", "joinable", "joining"
          status            \* "running", or how the process ended

sendervars == <<spc, signum, packet_number, sent>>
receivervars == <<rpc, replied, usr1>>
sharedvars == <<is_running, client_messages, mutex, client_thread, status>>
vars == <<linkvars, sendervars, receivervars, sharedvars>>

Exits == {"success", "failure", "interrupted"}
Cleanup == {"stop", "kill", "join", "joining", "close"}
SenderPlaces == {"connect", "login", "input", "who", "exit", "message",
                 "locked", "sending"} \cup Cleanup
\* Where the receiver runs its SIGUSR1 handler if told to.
Handling == {"check", "read", "body", "ack", "nack", "resend", "returning"}
ReceiverPlaces == {"none", "starting", "exiting", "ended"} \cup Handling

Init == /\ LinkInit
        /\ spc = "connect" /\ signum = None /\ packet_number = 0 /\ sent = 0
        /\ rpc = "none" /\ replied = None /\ usr1 = FALSE
        /\ is_running = TRUE
        /\ client_messages = [n \in Nums |-> None]
        /\ mutex = None
        /\ client_thread = "none"
        /\ status = "running"

Sender(p, q) == spc = p /\ spc' = q
Receiver(p, q) == rpc = p /\ rpc' = q

\* Mutant: an int, which does not wrap.
NextNumberWide == packet_number' = packet_number + 1

NextNumber == packet_number' = (packet_number + 1) % Wrap

\* cleanup_on_exit(code) is entered from p.
CleanUp(p, code) == Sender(p, "stop") /\ signum' = code

EndProcess(how) == /\ status' = how
                   /\ UNCHANGED <<is_running, client_messages, mutex, client_thread>>

Dies == /\ EndProcess("killed")
        /\ UNCHANGED <<linkvars, sendervars, receivervars>>

-------------------------------------------------------------------------------
(***************************************************************************)
(* main and message_sender.                                                *)
(***************************************************************************)
\* main() connects and creates the receiver, ...
CreateThread == /\ Sender("connect", "login")
                /\ Receiver("none", "starting")
                /\ client_thread' = "joinable"
                /\ UNCHANGED <<linkvars, signum, packet_number, sent, replied, usr1,
                               is_running, client_messages, mutex, status>>

\* ... or gives up.
ConnectFails == /\ spc = "connect"
                /\ EndProcess("failure")
                /\ UNCHANGED <<linkvars, sendervars, receivervars>>

\* A step of the main thread between kernel calls.
Local == UNCHANGED <<linkvars, receivervars, sharedvars>>

\* The user's name and password; no key can be derived.
KeyFails == /\ CleanUp("login", "failure")
            /\ Local /\ UNCHANGED <<packet_number, sent>>

\* A frame of the main thread's own that is not kept: LOGIN, WHO, DISCONNECT.
Request(p, q, type) ==
    /\ Accepted([type |-> type, num |-> packet_number, msg |-> None])
    /\ Sender(p, q)
    /\ NextNumber
    /\ UNCHANGED <<sent, receivervars, sharedvars>>

RequestFails(p) == /\ ResetSeen
                   /\ CleanUp(p, "failure")
                   /\ NextNumber
                   /\ UNCHANGED <<sent, receivervars, sharedvars>>

LogIn == Request("login", "input", "LOGIN") /\ UNCHANGED signum
SendWho == Request("who", "input", "WHO") /\ UNCHANGED signum
SendExit == Request("exit", "stop", "DISCONNECT") /\ signum' = "success"
RequestRejected == \E p \in {"login", "who", "exit"} : RequestFails(p)

\* A line is typed.  Lines that are no command, and help, change nothing.
GetLine == /\ spc = "input" /\ is_running
           /\ \/ spc' \in {"who", "exit"}
              \/ spc' = "message" /\ sent < MaxMessages
           /\ Local /\ UNCHANGED <<signum, packet_number, sent>>

GetLineStopped == /\ ~is_running
                  /\ CleanUp("input", "success")
                  /\ Local /\ UNCHANGED <<packet_number, sent>>

EncryptFails == /\ CleanUp("message", "failure")
                /\ Local /\ UNCHANGED <<packet_number, sent>>

Lock == /\ mutex = None
        /\ Sender("message", "locked")
        /\ mutex' = "sender"
        /\ UNCHANGED <<linkvars, signum, packet_number, sent, receivervars,
                       is_running, client_messages, client_thread, status>>

\* Mutant: the number is not looked up first, and a stored message is lost.
StoreOver == /\ Sender("locked", "sending")
             /\ sent' = sent + 1
             /\ client_messages' = [client_messages EXCEPT ![packet_number] = sent + 1]
             /\ mutex' = None
             /\ UNCHANGED <<linkvars, signum, packet_number, receivervars,
                            is_running, client_thread, status>>

\* The number is free: keep the message, then unlock.
Store == /\ Sender("locked", "sending")
         /\ client_messages[packet_number] = None
         /\ sent' = sent + 1
         /\ client_messages' = [client_messages EXCEPT ![packet_number] = sent + 1]
         /\ mutex' = None
         /\ UNCHANGED <<linkvars, signum, packet_number, receivervars,
                        is_running, client_thread, status>>

\* "packet # already in use": clean up, with the mutex held.
NumberInUse == /\ client_messages[packet_number] # None
               /\ CleanUp("locked", "failure")
               /\ Local /\ UNCHANGED <<packet_number, sent>>

\* Another thread may have removed the message by now, but full_message is
\* a local copy.
SendMessage == /\ Accepted([type |-> "MESSAGE", num |-> packet_number, msg |-> sent])
               /\ Sender("sending", "input")
               /\ NextNumber
               /\ UNCHANGED <<signum, sent, receivervars, sharedvars>>

MessageRejected == /\ ResetSeen
                   /\ CleanUp("sending", "failure")
                   /\ UNCHANGED <<packet_number, sent, receivervars, sharedvars>>

\* A send to a connection that is gone: no handler for SIGPIPE either.
SenderKilled == /\ spc \in {"login", "who", "exit", "sending"}
                /\ SigPipe
                /\ Dies

-------------------------------------------------------------------------------
(***************************************************************************)
(* cleanup_on_exit, in the main thread: called, or as the SIGINT handler.  *)
(***************************************************************************)
\* SIGINT comes at any point of the main thread but within its own handler.
Interrupt == /\ signum # "interrupted"
             /\ spc' = "stop" /\ signum' = "interrupted"
             /\ Local /\ UNCHANGED <<packet_number, sent>>

StopRunning == /\ Sender("stop", "kill")
               /\ is_running' = FALSE
               /\ UNCHANGED <<linkvars, signum, packet_number, sent, receivervars,
                              client_messages, mutex, client_thread, status>>

\* Mutant: the receiver is not told, and goes on waiting in read().
KillForgotten == /\ Sender("kill", "join")
                 /\ Local /\ UNCHANGED <<signum, packet_number, sent>>

\* pthread_kill(SIGUSR1); a thread that has returned is past hearing it.
Kill == /\ Sender("kill", "join")
        /\ client_thread # "none"
        /\ usr1' = (rpc # "ended")
        /\ UNCHANGED <<linkvars, signum, packet_number, sent, rpc, replied, sharedvars>>

\* There is no thread: native_handle() is 0.
KillNobody == spc = "kill" /\ client_thread = "none" /\ Dies

Join == /\ Sender("join", "joining")
        /\ client_thread = "joinable"
        /\ client_thread' = "joining"
        /\ UNCHANGED <<linkvars, signum, packet_number, sent, receivervars,
                       is_running, client_messages, mutex, status>>

\* join() throws std::system_error: the handler has detached the thread, or
\* an interrupted cleanup_on_exit is in join() already.
JoinThrows == /\ spc = "join" /\ client_thread # "joinable"
              /\ EndProcess("aborted")
              /\ UNCHANGED <<linkvars, sendervars, receivervars>>

Joined == /\ Sender("joining", "close")
          /\ rpc = "ended"
          /\ client_thread' = "none"
          /\ UNCHANGED <<linkvars, signum, packet_number, sent, receivervars,
                         is_running, client_messages, mutex, status>>

\* close() the socket and exit(signum).
Exit == /\ spc = "close"
        /\ EndProcess(signum)
        /\ UNCHANGED <<linkvars, sendervars, receivervars>>

-------------------------------------------------------------------------------
(***************************************************************************)
(* message_receiver.                                                       *)
(***************************************************************************)
\* Block SIGINT and install the SIGUSR1 handler.
Install == /\ Receiver("starting", "check")
           /\ UNCHANGED <<linkvars, sendervars, replied, usr1, sharedvars>>

CheckRunning == /\ rpc = "check"
                /\ rpc' = IF is_running THEN "read" ELSE "returning"
                /\ UNCHANGED <<linkvars, sendervars, replied, usr1, sharedvars>>

\* A read returns, whatever it returns, and the flag is down.
ReadStopped == /\ \E p \in {"read", "body"} : Receiver(p, "returning")
               /\ down # <<>> \/ AtEnd
               /\ ~is_running
               /\ UNCHANGED <<linkvars, sendervars, replied, usr1, sharedvars>>

\* The receiver gives up: its own doing, so it lowers the flag.
GiveUp(p) == /\ Receiver(p, "returning")
             /\ is_running' = FALSE
             /\ replied' = None
             /\ UNCHANGED <<sendervars, usr1, client_messages, client_thread, status>>

\* A read returns 0.
ReadClosed == /\ AtEnd /\ is_running
              /\ \E p \in {"read", "body"} : GiveUp(p)
              /\ UNCHANGED <<linkvars, mutex>>

\* A read fails.  Its -1 is a huge size_t and passes for a full header, of
\* zeros, whose checksum is wrong, or for a full body.
ReadFails == /\ ResetSeen /\ down = <<>> /\ is_running
             /\ \E p \in {"read", "body"} : Receiver(p, "check")
             /\ UNCHANGED <<sendervars, replied, usr1, sharedvars>>

\* A header is read: what is left of its frame is the rest of down.
GotHeader(types, q) == /\ is_running
                       /\ down # <<>> /\ Head(down).type \in types
                       /\ Receiver("read", q)
                       /\ UNCHANGED <<server, up, link, taken, reporting, sendervars, usr1, sharedvars>>

NoBody == down' = Tail(down)
LeaveBody == down' = [down EXCEPT ![1] = Say("body")]

\* LOGIN, which is only printed, or a body taken for a header: wrong checksum.
ReadLogin == GotHeader({"LOGIN", "body"}, "check") /\ NoBody /\ UNCHANGED replied

\* ERROR, WHO and MESSAGE have a body to read.
ReadLong == GotHeader(WithBody, "body") /\ LeaveBody /\ UNCHANGED replied

ReadAck == /\ GotHeader({"ACK"}, "ack") /\ NoBody
           /\ replied' = Head(down).num

\* Mutant: a NACK is only noted.
ReadNackOnly == /\ GotHeader({"NACK"}, "check") /\ NoBody
                /\ UNCHANGED replied

ReadNack == /\ GotHeader({"NACK"}, "nack") /\ NoBody
            /\ replied' = Head(down).num

\* Fewer bytes than a header, or a misaligned one: the frame is lost, or its
\* body is left and comes next.
Misread == /\ "misread" \in Events
           /\ GotHeader(WithBody \cup Replies \cup {"LOGIN"}, "check")
           /\ NoBody \/ (Head(down).type \in WithBody /\ LeaveBody)
           /\ UNCHANGED replied

\* The body is read and printed, ...
ReadBody == /\ is_running /\ down # <<>>
            /\ Receiver("body", "check")
            /\ NoBody
            /\ UNCHANGED <<server, up, link, taken, reporting, sendervars, replied, usr1, sharedvars>>

\* ... or only a part of it, and the rest comes next.
ReadPart == /\ "misread" \in Events
            /\ is_running /\ down # <<>>
            /\ Receiver("body", "check")
            /\ UNCHANGED <<linkvars, sendervars, replied, usr1, sharedvars>>

\* ACK: the message is erased, if it is there, under the lock.
Erase == /\ Receiver("ack", "check")
         /\ mutex = None
         /\ client_messages' = [client_messages EXCEPT ![replied] = None]
         /\ replied' = None
         /\ UNCHANGED <<linkvars, sendervars, usr1,
                        is_running, mutex, client_thread, status>>

\* NACK: the message is there, ...
Find == /\ Receiver("nack", "resend")
        /\ mutex = None
        /\ client_messages[replied] # None
        /\ mutex' = "receiver"
        /\ UNCHANGED <<linkvars, sendervars, replied, usr1,
                       is_running, client_messages, client_thread, status>>

\* ... or it is not, and the receiver returns.
NotFound == /\ GiveUp("nack")
            /\ mutex = None
            /\ client_messages[replied] = None
            /\ UNCHANGED <<linkvars, mutex>>

Again == [type |-> "MESSAGE", num |-> replied, msg |-> client_messages[replied]]

\* Mutant: what has been sent again is forgotten.
ResendAndForget == /\ Receiver("resend", "check")
                   /\ Accepted(Again)
                   /\ mutex' = None /\ replied' = None
                   /\ client_messages' = [client_messages EXCEPT ![replied] = None]
                   /\ UNCHANGED <<sendervars, usr1,
                                  is_running, client_thread, status>>

\* The message is sent again, the lock held until the kernel has taken it.
Resend == /\ Receiver("resend", "check")
          /\ Accepted(Again)
          /\ mutex' = None /\ replied' = None
          /\ UNCHANGED <<sendervars, usr1,
                         is_running, client_messages, client_thread, status>>

ResendFails == ResetSeen /\ GiveUp("resend") /\ mutex' = None

ResendKilled == rpc = "resend" /\ SigPipe /\ Dies

Return == /\ Receiver("returning", "ended")
          /\ usr1' = FALSE
          /\ UNCHANGED <<linkvars, sendervars, replied, sharedvars>>

-------------------------------------------------------------------------------
(***************************************************************************)
(* SIGUSR1 arrives, at any point of the receiver, blocked in a call or     *)
(* not: close_thread detaches the thread ...                               *)
(***************************************************************************)
CloseThread == /\ usr1 /\ rpc \in Handling
               /\ rpc' = "exiting"
               /\ usr1' = FALSE /\ replied' = None
               /\ client_thread' = "none"
               /\ UNCHANGED <<linkvars, sendervars,
                              is_running, client_messages, mutex, status>>

\* ... and calls exit(0), which ends the whole process.
CloseThreadExits == /\ rpc = "exiting"
                    /\ EndProcess("success")
                    /\ UNCHANGED <<linkvars, sendervars, receivervars>>

\* The handler is not installed yet: the signal's default is to terminate.
DefaultAction == usr1 /\ rpc = "starting" /\ Dies

-------------------------------------------------------------------------------
MainStep == \/ CreateThread \/ ConnectFails
            \/ KeyFails \/ LogIn \/ SendWho \/ SendExit \/ RequestRejected
            \/ GetLine \/ GetLineStopped
            \/ EncryptFails \/ Lock \/ Store \/ NumberInUse
            \/ SendMessage \/ MessageRejected \/ SenderKilled
            \/ StopRunning \/ Kill \/ KillNobody
            \/ Join \/ JoinThrows \/ Joined \/ Exit

ReceiverStep == \/ Install \/ CheckRunning
                \/ ReadStopped \/ ReadClosed \/ ReadFails
                \/ ReadLogin \/ ReadLong \/ ReadAck \/ ReadNack \/ Misread
                \/ ReadBody \/ ReadPart
                \/ Erase \/ Find \/ NotFound
                \/ Resend \/ ResendFails \/ ResendKilled
                \/ Return

HandlerStep == CloseThread \/ CloseThreadExits \/ DefaultAction

PeerStep == ServerStep /\ UNCHANGED <<sendervars, receivervars, sharedvars>>

Running == status = "running"

Step == Running /\ (MainStep \/ Interrupt \/ ReceiverStep \/ HandlerStep \/ PeerStep)

Ended == ~Running /\ UNCHANGED vars

Next == Step \/ Ended

Spec == Init /\ [][Next]_vars

(***************************************************************************)
(* Fairness.  The scheduler runs both threads and delivers signals, and    *)
(* the user goes on typing: no thread is woken from getline.  The server   *)
(* owes nothing, the connection need not break (which is what the steps    *)
(* that change link report), nor does anybody have to interrupt.           *)
(***************************************************************************)
FairSpec == /\ Spec
            /\ WF_vars(Running /\ MainStep /\ UNCHANGED link)
            /\ WF_vars(Running /\ ReceiverStep /\ UNCHANGED link)
            /\ WF_vars(Running /\ HandlerStep)

(***************************************************************************)
(* For delivery, a message that is sent again and again must also arrive   *)
(* intact some time, and a thread for which there is room in the buffer    *)
(* again and again gets it.                                                *)
(***************************************************************************)
ServerServes == /\ SF_vars(Running /\ PeerStep /\ Serve)
                /\ SF_vars(Running /\ PeerStep /\ Acknowledge)
                /\ SF_vars(Running /\ Resend)
                /\ SF_vars(Running /\ SendMessage)

-------------------------------------------------------------------------------
ClientTypeOK ==
    /\ server \in Servers
    /\ up \in Seq(UpFrames) /\ down \in Seq(DownFrames)
    /\ link \in {"open", "closed", "broken"}
    /\ taken \in Seq(Messages)
    /\ reporting \in BOOLEAN
    /\ spc \in SenderPlaces
    /\ signum \in Exits \cup {None}
    /\ packet_number \in Nums
    /\ sent \in 0..MaxMessages
    /\ rpc \in ReceiverPlaces
    /\ replied \in Nums \cup {None}
    /\ usr1 \in BOOLEAN
    /\ is_running \in BOOLEAN
    /\ client_messages \in [Nums -> Messages \cup {None}]
    /\ mutex \in {"sender", "receiver", None}
    /\ client_thread \in {"none", "joinable", "joining"}
    /\ status \in Exits \cup {"running", "killed", "aborted"}

(***************************************************************************)
(* Where a message that waits for its answer can be, as a packet number:   *)
(* about to be sent, on its way to the server, its answer on its way back, *)
(* or the answer in the receiver's hands.                                  *)
(***************************************************************************)
Unsent(n) == spc = "sending" /\ packet_number = n
Copies(n) == {i \in DOMAIN up : up[i].type = "MESSAGE" /\ up[i].num = n}
Answers(n) == {i \in DOMAIN down : down[i].type \in Replies /\ down[i].num = n}
InHand(n) == rpc \in {"ack", "nack", "resend"} /\ replied = n

Underway(n) == Unsent(n) \/ Copies(n) # {} \/ Answers(n) # {} \/ InHand(n)

\* Number n is under way in one place only, and its message is stored.
InOnePlace(n) ==
    /\ Underway(n) => client_messages[n] # None
    /\ Unsent(n) => client_messages[n] = sent
    /\ \A i \in Copies(n) : up[i].msg = client_messages[n]
    /\ \A i, j \in Copies(n) : i = j
    /\ \A i, j \in Answers(n) : i = j
    /\ Unsent(n) => Copies(n) = {} /\ Answers(n) = {} /\ ~InHand(n)
    /\ Copies(n) # {} => Answers(n) = {} /\ ~InHand(n)
    /\ Answers(n) # {} => ~InHand(n)

\* The two threads and the server hand a message on like a token: while a
\* number is anywhere under way its message is in client_messages, what is
\* under way is that message, and it is in one place only.  So a NACK always
\* finds its message (Client.cpp:336-345), an ACK never erases another one
\* that has got the same number since, and no message is on the wire twice.
OnePlace == \A n \in Nums : InOnePlace(n)

\* What the client promises of the user's messages: none is forgotten before
\* the server has acknowledged it, and none is acknowledged twice, that is,
\* passed on to the others twice.
Stored == {client_messages[n] : n \in Nums} \ {None}
Delivery == INSTANCE MessageDelivery WITH pending <- Stored
ImplementsDelivery == Delivery!Spec

\* The main thread has tested is_running, then blocks in a send to a server
\* that does not read, and nobody is there to read for it: only a NACK of
\* the Rust server ends the receiver while the session goes on.
Stranded == /\ server = "rust" /\ link = "open"
            /\ rpc = "ended" /\ Len(up) = Cap
            /\ spc \in {"who", "exit", "sending"}

\* However the client comes to stop, by the user, the server, an error or a
\* signal, both threads end, even if cleanup_on_exit is called with the
\* mutex held (Client.cpp:622) or while the receiver is blocked.
BothThreadsEnd == ~is_running ~> (~Running \/ Stranded)

\* The receiver holds the mutex and waits for the server to read, which
\* waits for the receiver to read.
FacingFullBuffers == rpc = "resend" /\ Len(up) = Cap /\ Len(down) = Cap

\* A message the server gets damaged is sent until it gets it intact, unless
\* the session ends, or both sides wait for the other to read.
SentUntilTaken ==
    (server = "cpp" /\ ServerServes) => \A m \in Messages :
        (sent >= m) ~> \/ m \in Delivery!Taken \/ ~Running \/ link # "open"
                       \/ FacingFullBuffers

-------------------------------------------------------------------------------
(***************************************************************************)
(* What a comment says and the code does not do; refuted by a run.         *)
(***************************************************************************)
\* messaging_client.rs:139-144: the header is accessed through the message
\* that was read, so a NACK names the message it rejects, which the client
\* has kept.
NackNamesMessage ==
    \A i \in DOMAIN down :
        down[i].type = "NACK" => client_messages[down[i].num] # None
===============================================================================
