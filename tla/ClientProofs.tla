----------------------------- MODULE ClientProofs -----------------------------
(***************************************************************************)
(* The client, for any number of packet numbers, messages and frames in a  *)
(* buffer, and whatever happens to its connection; and, with the C++       *)
(* server, what becomes of its packet numbers and its messages.            *)
(***************************************************************************)
EXTENDS Client, TLAPS

LinkTypes == /\ server \in Servers
             /\ up \in Seq(UpFrames) /\ down \in Seq(DownFrames)
             /\ link \in {"open", "closed", "broken"}
             /\ taken \in Seq(Messages)
             /\ reporting \in BOOLEAN

\* What a thread knows where it is.
SenderPlace == /\ spc \in {"message", "locked"} => sent < MaxMessages
               /\ spc = "locked" => mutex = "sender"
               /\ spc = "sending" => sent \in Messages
               /\ spc \in Cleanup => signum \in Exits
ReceiverPlace == /\ rpc \in {"ack", "nack", "resend"} => replied \in Nums
                 /\ rpc = "resend" => /\ mutex = "receiver"
                                      /\ client_messages[replied] # None

ClientInv == ClientTypeOK /\ SenderPlace /\ ReceiverPlace

-------------------------------------------------------------------------------
(***************************************************************************)
(* The connection and the server at its other end.                         *)
(***************************************************************************)
\* What the server sends is a frame.
LEMMA DownFrameTypes ==
  /\ \A type \in WithBody \cup {"LOGIN", "body"} : Say(type) \in DownFrames
  /\ \A type \in Replies, n \in Nums : Reply(type, n) \in DownFrames
BY DEF Say, Reply, DownFrames

\* A frame the kernel accepts is a frame under way.
LEMMA AcceptedTypes ==
  ASSUME LinkTypes, NEW f \in UpFrames, Accepted(f)
  PROVE  LinkTypes'
<1>1. CASE up' = Append(up, f) /\ UNCHANGED <<server, down, link, taken, reporting>>
  BY <1>1 DEF LinkTypes
<1>2. CASE UNCHANGED linkvars
  BY <1>2 DEF LinkTypes, linkvars
<1> QED BY <1>1, <1>2 DEF Accepted

LEMMA ResetTypes ==
  ASSUME LinkTypes, ResetSeen
  PROVE  LinkTypes'
BY DEF LinkTypes, ResetSeen

\* Every answer of the server, and everything else it does, is well typed.
LEMMA ServerTypes ==
  ASSUME LinkTypes, ServerStep
  PROVE  LinkTypes'
<1>1. ASSUME up # <<>>
      PROVE  Head(up) \in UpFrames /\ Tail(up) \in Seq(UpFrames)
  BY <1>1 DEF LinkTypes
<1>2. \A type : Serving(type) => up # <<>> /\ Head(up).num \in Nums
  BY <1>1 DEF Serving, Attends, UpFrames
<1>3. /\ Say("LOGIN") \in DownFrames /\ Say("ERROR") \in DownFrames
      /\ Say("WHO") \in DownFrames /\ Say("MESSAGE") \in DownFrames
  BY DownFrameTypes DEF WithBody
<1>4. CASE AnswerLogin
  BY <1>1, <1>2, <1>3, <1>4 DEF AnswerLogin, LinkTypes
<1>11. CASE RefuseLogin
  BY <1>2, <1>3, <1>11 DEF RefuseLogin, Hangup, LinkTypes
<1>12. CASE AnswerWho
  BY <1>1, <1>2, <1>3, <1>12 DEF AnswerWho, LinkTypes
<1>5. CASE Acknowledge
  <2>1. Append(down, Reply("ACK", Head(up).num)) \in Seq(DownFrames)
    BY <1>2, <1>5, DownFrameTypes DEF Acknowledge, Replies, LinkTypes
  <2>2. Head(up).msg \in Messages
    BY <1>1, <1>2, <1>5 DEF Acknowledge, Serving, Attends, UpFrames
  <2>3. reporting' \in BOOLEAN
    BY <1>5 DEF Acknowledge
  <2> QED BY <1>1, <1>2, <1>5, <2>1, <2>2, <2>3 DEF Acknowledge, LinkTypes
<1>13. CASE Report
  <2>1. reporting' \in BOOLEAN
    BY <1>13, Zenon DEF Report
  <2> QED BY <1>3, <1>13, <2>1 DEF Report, LinkTypes
<1>6. CASE Reject
  <2>1. NackNumber \in Nums
    BY <1>2, <1>6, LinkAssumption DEF Reject, NackNumber, Nums
  <2> QED BY <1>1, <1>2, <1>6, <2>1, DownFrameTypes DEF Reject, Replies, LinkTypes
<1>7. CASE EndSession
  BY <1>7 DEF EndSession, Hangup, LinkTypes
<1>8. CASE Close
  BY <1>8 DEF Close, Hangup, LinkTypes
<1>9. CASE SkipFrame
  BY <1>1, <1>9 DEF SkipFrame, Attends, LinkTypes
<1>10. CASE Push
  BY <1>3, <1>10 DEF Push, LinkTypes
<1> QED
  BY <1>4, <1>5, <1>6, <1>7, <1>8, <1>9, <1>10, <1>11, <1>12, <1>13 DEF ServerStep, Serve

-------------------------------------------------------------------------------
(***************************************************************************)
(* The threads of the client.                                              *)
(***************************************************************************)
\* The types of everything but the connection, ...
ThreadTypes == /\ spc \in SenderPlaces
               /\ signum \in Exits \cup {None}
               /\ packet_number \in Nums
               /\ sent \in 0..MaxMessages
               /\ rpc \in ReceiverPlaces
               /\ replied \in Nums \cup {None}
               /\ usr1 \in BOOLEAN
               /\ is_running \in BOOLEAN
               /\ client_messages \in [Nums -> Messages \cup {None}]
               /\ mutex \in {"sender", "receiver", None}
               /\ client_thread \in {"none", "joinable", "joining"}
               /\ status \in Exits \cup {"running", "killed", "aborted"}

\* ... and what the steps of the threads have to keep.
ThreadInv == ThreadTypes /\ SenderPlace /\ ReceiverPlace

LEMMA InvParts == ClientInv <=> LinkTypes /\ ThreadInv
BY DEF ClientInv, ThreadInv, ClientTypeOK, LinkTypes, ThreadTypes

LEMMA InvPartsAfter == ASSUME LinkTypes', ThreadInv' PROVE ClientInv'
BY DEF ClientInv, ThreadInv, ClientTypeOK, LinkTypes, ThreadTypes

LEMMA NextNumberTypes == ASSUME NextNumber, ThreadTypes PROVE packet_number' \in Nums
BY LinkAssumption DEF NextNumber, ThreadTypes, Nums

\* LOGIN, WHO and DISCONNECT, sent.
LEMMA RequestKeeps ==
  ASSUME LinkTypes, ThreadInv,
         NEW p \in {"login", "who", "exit"}, NEW q \in {"input", "stop"},
         NEW type \in {"LOGIN", "WHO", "DISCONNECT"}, Request(p, q, type),
         \/ q = "stop" /\ signum' = "success"
         \/ q = "input" /\ signum' = signum
  PROVE  LinkTypes' /\ ThreadInv'
<1>1. [type |-> type, num |-> packet_number, msg |-> None] \in UpFrames
  BY DEF ThreadInv, ThreadTypes, UpFrames
<1>2. LinkTypes'
  BY <1>1, AcceptedTypes DEF Request
<1>3. packet_number' \in Nums
  BY NextNumberTypes DEF Request, ThreadInv
<1>4. ThreadTypes'
  BY <1>3 DEF Request, Sender, ThreadInv, ThreadTypes, SenderPlaces, Cleanup, Exits,
              receivervars, sharedvars
<1>5. SenderPlace' /\ ReceiverPlace'
  BY DEF Request, Sender, ThreadInv, SenderPlace, ReceiverPlace, Cleanup, Exits,
         receivervars, sharedvars
<1> QED BY <1>2, <1>4, <1>5 DEF ThreadInv

\* The main thread where it sends.
LEMMA SendingKeeps ==
  ASSUME LinkTypes, ThreadInv,
         LogIn \/ SendWho \/ SendExit \/ RequestRejected \/ SendMessage \/ MessageRejected
  PROVE  LinkTypes' /\ ThreadInv'
<1> USE DEF SenderPlaces, Cleanup, Exits, receivervars, sharedvars
<1>1. CASE LogIn \/ SendWho
  <2>1. PICK p \in {"login", "who"}, type \in {"LOGIN", "WHO"} :
            Request(p, "input", type) /\ signum' = signum
    BY <1>1 DEF LogIn, SendWho
  <2> QED BY <2>1, RequestKeeps
<1>2. CASE SendExit
  BY <1>2, RequestKeeps DEF SendExit
<1>3. CASE RequestRejected
  <2>1. PICK p \in {"login", "who", "exit"} : RequestFails(p)
    BY <1>3 DEF RequestRejected
  <2>2. LinkTypes'
    BY <2>1, ResetTypes DEF RequestFails
  <2>3. packet_number' \in Nums
    BY <2>1, NextNumberTypes DEF RequestFails, ThreadInv
  <2>4. ThreadTypes'
    BY <2>1, <2>3 DEF RequestFails, CleanUp, Sender, ThreadInv, ThreadTypes
  <2>5. SenderPlace' /\ ReceiverPlace'
    BY <2>1 DEF RequestFails, CleanUp, Sender, ThreadInv, SenderPlace, ReceiverPlace
  <2> QED BY <2>2, <2>4, <2>5 DEF ThreadInv
<1>4. CASE SendMessage
  <2>1. [type |-> "MESSAGE", num |-> packet_number, msg |-> sent] \in UpFrames
    BY <1>4 DEF SendMessage, Sender, ThreadInv, ThreadTypes, SenderPlace, UpFrames
  <2>2. LinkTypes'
    BY <1>4, <2>1, AcceptedTypes DEF SendMessage
  <2>3. packet_number' \in Nums
    BY <1>4, NextNumberTypes DEF SendMessage, ThreadInv
  <2>4. ThreadTypes'
    BY <1>4, <2>3 DEF SendMessage, Sender, ThreadInv, ThreadTypes
  <2>5. SenderPlace' /\ ReceiverPlace'
    BY <1>4 DEF SendMessage, Sender, ThreadInv, SenderPlace, ReceiverPlace
  <2> QED BY <2>2, <2>4, <2>5 DEF ThreadInv
<1>5. CASE MessageRejected
  <2>1. LinkTypes'
    BY <1>5, ResetTypes DEF MessageRejected
  <2>2. ThreadTypes'
    BY <1>5 DEF MessageRejected, CleanUp, Sender, ThreadInv, ThreadTypes
  <2>3. SenderPlace' /\ ReceiverPlace'
    BY <1>5 DEF MessageRejected, CleanUp, Sender, ThreadInv, SenderPlace, ReceiverPlace
  <2> QED BY <2>1, <2>2, <2>3 DEF ThreadInv
<1> QED
  BY <1>1, <1>2, <1>3, <1>4, <1>5

\* The rest of the main thread before cleanup_on_exit, and SIGINT.
LEMMA LocalKeeps ==
  ASSUME ThreadInv,
         \/ CreateThread \/ ConnectFails \/ KeyFails \/ GetLine \/ GetLineStopped
         \/ EncryptFails \/ Lock \/ Store \/ NumberInUse \/ Interrupt
  PROVE  UNCHANGED linkvars /\ ThreadInv'
<1> USE LinkAssumption
    DEF ThreadInv, ThreadTypes, SenderPlace, ReceiverPlace, SenderPlaces, Cleanup, Exits,
        ReceiverPlaces, Handling, receivervars, sharedvars, sendervars, Sender, Receiver,
        CleanUp, Local, EndProcess
<1>1. CASE CreateThread
  BY <1>1 DEF CreateThread
<1>2. CASE ConnectFails
  BY <1>2 DEF ConnectFails
<1>3. CASE KeyFails
  BY <1>3 DEF KeyFails
<1>4. CASE GetLine
  BY <1>4 DEF GetLine
<1>5. CASE GetLineStopped
  BY <1>5 DEF GetLineStopped
<1>6. CASE EncryptFails
  BY <1>6 DEF EncryptFails
<1>7. CASE Lock
  BY <1>7, MutexAssumption DEF Lock
<1>8. CASE Store
  <2>1. sent + 1 \in Messages
    BY <1>8 DEF Store, Messages
  <2>2. client_messages' \in [Nums -> Messages \cup {None}]
    BY <1>8, <2>1 DEF Store
  <2>3. sent' \in 0..MaxMessages /\ sent' \in Messages
    BY <1>8, <2>1 DEF Store, Messages
  <2>4. ReceiverPlace'
    BY <1>8 DEF Store
  <2> QED BY <1>8, <2>2, <2>3, <2>4 DEF Store
<1>9. CASE NumberInUse
  BY <1>9 DEF NumberInUse
<1>10. CASE Interrupt
  BY <1>10 DEF Interrupt
<1> HIDE DEF ThreadInv
<1> QED
  BY <1>1, <1>2, <1>3, <1>4, <1>5, <1>6, <1>7, <1>8, <1>9, <1>10

\* cleanup_on_exit.
LEMMA CleanupKeeps ==
  ASSUME ThreadInv,
         \/ StopRunning \/ Kill \/ KillNobody \/ Join \/ JoinThrows \/ Joined \/ Exit
         \/ SenderKilled
  PROVE  UNCHANGED linkvars /\ ThreadInv'
<1> USE LinkAssumption
    DEF ThreadInv, ThreadTypes, SenderPlace, ReceiverPlace, SenderPlaces, Cleanup, Exits,
        receivervars, sharedvars, sendervars, Sender, Local, EndProcess, Dies, SigPipe
<1>1. CASE StopRunning
  <2>1. is_running' \in BOOLEAN
    BY <1>1, Zenon DEF StopRunning
  <2>2. ThreadTypes'
    BY <1>1, <2>1 DEF StopRunning
  <2>3. SenderPlace' /\ ReceiverPlace' /\ UNCHANGED linkvars
    BY <1>1 DEF StopRunning
  <2> QED BY <2>2, <2>3
<1>2. CASE Kill
  <2>1. usr1' \in BOOLEAN
    BY <1>2, Zenon DEF Kill
  <2>2. ThreadTypes'
    BY <1>2, <2>1 DEF Kill
  <2>3. SenderPlace' /\ ReceiverPlace' /\ UNCHANGED linkvars
    BY <1>2 DEF Kill
  <2> QED BY <2>2, <2>3
<1>3. CASE KillNobody
  BY <1>3 DEF KillNobody
<1>4. CASE Join
  BY <1>4 DEF Join
<1>5. CASE JoinThrows
  BY <1>5 DEF JoinThrows
<1>6. CASE Joined
  BY <1>6 DEF Joined
<1>7. CASE Exit
  BY <1>7 DEF Exit
<1>8. CASE SenderKilled
  BY <1>8 DEF SenderKilled
<1> HIDE DEF ThreadInv
<1> QED
  BY <1>1, <1>2, <1>3, <1>4, <1>5, <1>6, <1>7, <1>8

\* The receiver where it reads: what it takes out of the buffer leaves frames.
LEMMA ReadingKeeps ==
  ASSUME LinkTypes, ThreadInv,
         ReadLogin \/ ReadLong \/ ReadAck \/ ReadNack \/ Misread \/ ReadBody
  PROVE  LinkTypes' /\ ThreadInv'
<1>1. ASSUME NEW types, NEW q, GotHeader(types, q)
      PROVE  /\ Head(down) \in DownFrames
             /\ NoBody => down' \in Seq(DownFrames)
             /\ LeaveBody => down' \in Seq(DownFrames)
             /\ UNCHANGED <<server, up, link, taken, reporting, sendervars, usr1, sharedvars>>
             /\ rpc' = q
  <2>1. down \in Seq(DownFrames) /\ down # <<>>
    BY <1>1 DEF GotHeader, LinkTypes
  <2>2. Head(down) \in DownFrames /\ Tail(down) \in Seq(DownFrames)
    BY <2>1
  <2>3. LeaveBody => down' \in Seq(DownFrames)
    BY <2>1, DownFrameTypes DEF LeaveBody
  <2> QED BY <1>1, <2>2, <2>3 DEF GotHeader, Receiver, NoBody
<1>2. down # <<>> => Tail(down) \in Seq(DownFrames)
  BY DEF LinkTypes
<1> USE DEF ThreadInv, ThreadTypes, SenderPlace, ReceiverPlace, ReceiverPlaces, Handling,
            sendervars, sharedvars, Receiver
<1>3. CASE ReadLogin
  <2>1. down' \in Seq(DownFrames)
    BY <1>1, <1>3 DEF ReadLogin
  <2> QED BY <1>3, <2>1 DEF ReadLogin, GotHeader, LinkTypes
<1>4. CASE ReadLong
  BY <1>1, <1>4 DEF ReadLong, GotHeader, LinkTypes
<1>5. CASE ReadAck \/ ReadNack
  <2>1. PICK q \in {"ack", "nack"} : \E type \in Replies : GotHeader({type}, q)
    BY <1>5 DEF ReadAck, ReadNack, Replies
  <2>2. Head(down) \in DownFrames /\ Head(down).type \in Replies
    BY <1>1, <2>1 DEF GotHeader
  <2>3. replied' = Head(down).num /\ replied' \in Nums
    BY <1>5, <2>2 DEF ReadAck, ReadNack, DownFrames, WithBody, Replies
  <2>4. LinkTypes'
    BY <1>1, <1>5, <2>1 DEF ReadAck, ReadNack, GotHeader, LinkTypes
  <2> QED BY <2>1, <2>3, <2>4 DEF GotHeader
<1>6. CASE Misread
  <2>1. down' \in Seq(DownFrames)
    BY <1>1, <1>6 DEF Misread
  <2> QED BY <1>6, <2>1 DEF Misread, GotHeader, LinkTypes
<1>7. CASE ReadBody
  BY <1>2, <1>7 DEF ReadBody, NoBody, LinkTypes
<1> QED
  BY <1>3, <1>4, <1>5, <1>6, <1>7

\* The receiver where it looks at is_running, installs its handler, returns, ...
LEMMA ReceiverLocalKeeps ==
  ASSUME ThreadInv,
         \/ Install \/ CheckRunning \/ ReadStopped \/ ReadClosed \/ ReadPart \/ Return
         \/ NotFound \/ Erase \/ Find \/ ResendKilled
  PROVE  UNCHANGED linkvars /\ ThreadInv'
<1> USE LinkAssumption
    DEF ThreadInv, ThreadTypes, SenderPlace, ReceiverPlace, ReceiverPlaces, Handling,
        receivervars, sharedvars, sendervars, Receiver, GiveUp, EndProcess, Dies, SigPipe
<1>1. CASE Install
  BY <1>1 DEF Install
<1>2. CASE CheckRunning
  BY <1>2 DEF CheckRunning
<1>3. CASE ReadStopped
  BY <1>3 DEF ReadStopped
<1>4. CASE ReadClosed
  <2>1. is_running' \in BOOLEAN
    BY <1>4, Zenon DEF ReadClosed
  <2>2. ThreadTypes'
    BY <1>4, <2>1 DEF ReadClosed
  <2>3. SenderPlace' /\ ReceiverPlace' /\ UNCHANGED linkvars
    BY <1>4 DEF ReadClosed
  <2> QED BY <2>2, <2>3
<1>5. CASE ReadPart
  BY <1>5 DEF ReadPart
<1>6. CASE Return
  <2>1. ThreadTypes'
    BY <1>6 DEF Return
  <2>2. SenderPlace' /\ ReceiverPlace' /\ UNCHANGED linkvars
    BY <1>6 DEF Return
  <2> QED BY <2>1, <2>2
<1>7. CASE NotFound
  <2>1. is_running' \in BOOLEAN
    BY <1>7, Zenon DEF NotFound
  <2>2. ThreadTypes'
    BY <1>7, <2>1 DEF NotFound
  <2>3. SenderPlace' /\ ReceiverPlace' /\ UNCHANGED linkvars
    BY <1>7 DEF NotFound
  <2> QED BY <2>2, <2>3
<1>8. CASE Erase
  BY <1>8 DEF Erase
<1>9. CASE Find
  BY <1>9, MutexAssumption DEF Find
<1>10. CASE ResendKilled
  BY <1>10 DEF ResendKilled
<1> HIDE DEF ThreadInv
<1> QED
  BY <1>1, <1>2, <1>3, <1>4, <1>5, <1>6, <1>7, <1>8, <1>9, <1>10

\* ... and where the connection is reset under it or takes a message again.
LEMMA ResendingKeeps ==
  ASSUME LinkTypes, ThreadInv, ReadFails \/ Resend \/ ResendFails
  PROVE  LinkTypes' /\ ThreadInv'
<1> USE DEF ThreadInv, ThreadTypes, SenderPlace, ReceiverPlace, ReceiverPlaces, Handling,
            sendervars, sharedvars, Receiver, GiveUp
<1>1. CASE ReadFails
  BY <1>1, ResetTypes DEF ReadFails
<1>2. CASE Resend
  <2>1. Again \in UpFrames
    BY <1>2 DEF Resend, Again, UpFrames
  <2>2. LinkTypes'
    BY <1>2, <2>1, AcceptedTypes DEF Resend
  <2> QED BY <1>2, <2>2 DEF Resend
<1>3. CASE ResendFails
  BY <1>3, ResetTypes DEF ResendFails
<1> QED
  BY <1>1, <1>2, <1>3

\* SIGUSR1.
LEMMA HandlerKeeps ==
  ASSUME ThreadInv, HandlerStep
  PROVE  UNCHANGED linkvars /\ ThreadInv'
<1> USE DEF ThreadInv, ThreadTypes, SenderPlace, ReceiverPlace, ReceiverPlaces, Handling, Exits,
            receivervars, sharedvars, sendervars, EndProcess, Dies
<1>1. CASE CloseThread
  BY <1>1 DEF CloseThread
<1>2. CASE CloseThreadExits
  BY <1>2 DEF CloseThreadExits
<1>3. CASE DefaultAction
  BY <1>3 DEF DefaultAction
<1> QED BY <1>1, <1>2, <1>3 DEF HandlerStep

LEMMA ClientInit == Init => LinkTypes /\ ThreadInv
<1> SUFFICES ASSUME Init
             PROVE  LinkTypes /\ ThreadInv
  OBVIOUS
<1>1. LinkTypes
  <2>1. reporting \in BOOLEAN
    BY Zenon DEF Init, LinkInit
  <2> QED BY <2>1 DEF Init, LinkInit, LinkTypes
<1>2. ThreadTypes
  <2>1. 0 \in Nums /\ 0 \in 0..MaxMessages
    BY LinkAssumption DEF Nums
  <2> QED BY <2>1 DEF Init, ThreadTypes, SenderPlaces, ReceiverPlaces
<1>3. SenderPlace /\ ReceiverPlace
  BY DEF Init, SenderPlace, ReceiverPlace, Cleanup
<1> QED BY <1>1, <1>2, <1>3 DEF ThreadInv

LEMMA ClientStep ==
  ASSUME LinkTypes, ThreadInv, [Next]_vars
  PROVE  LinkTypes' /\ ThreadInv'
<1>1. CASE UNCHANGED linkvars /\ ThreadInv'
  BY <1>1 DEF LinkTypes, linkvars
<1>2. CASE UNCHANGED vars
  BY <1>2 DEF vars, sendervars, receivervars, sharedvars, linkvars, LinkTypes, ThreadInv,
              ThreadTypes, SenderPlace, ReceiverPlace
<1>3. CASE MainStep \/ Interrupt
  BY <1>1, <1>3, SendingKeeps, LocalKeeps, CleanupKeeps DEF MainStep
<1>4. CASE ReceiverStep
  BY <1>1, <1>4, ReadingKeeps, ReceiverLocalKeeps, ResendingKeeps DEF ReceiverStep
<1>5. CASE HandlerStep
  BY <1>1, <1>5, HandlerKeeps
<1>6. CASE PeerStep
  BY <1>6, ServerTypes
  DEF PeerStep, sendervars, receivervars, sharedvars, ThreadInv, ThreadTypes, SenderPlace,
      ReceiverPlace
<1> QED
  BY <1>2, <1>3, <1>4, <1>5, <1>6 DEF Next, Step, Ended

\* Type correctness, for any number of packet numbers, messages and frames in
\* a buffer, whichever server is at the other end and whatever it does.
THEOREM ClientTypes == Spec => []ClientTypeOK
<1>1. Init => ClientInv
  BY ClientInit, InvParts
<1>2. ClientInv /\ [Next]_vars => ClientInv'
  BY ClientStep, InvParts, InvPartsAfter
<1>3. ClientInv => ClientTypeOK
  BY DEF ClientInv
<1> QED BY <1>1, <1>2, <1>3, PTL DEF Spec

-------------------------------------------------------------------------------
(***************************************************************************)
(* Packet numbers: a number under way is in one place.                     *)
(***************************************************************************)
(***************************************************************************)
(* Most steps only take frames out of a buffer, or add others, so that the *)
(* frames about number n that are left are old ones, moved up j or k       *)
(* places; and nobody gets n into their hands.                             *)
(***************************************************************************)
AboutUp(n, f) == f.type = "MESSAGE" /\ f.num = n
AboutDown(n, f) == f.type \in Replies /\ f.num = n

UpBy(n, j) == \A i \in DOMAIN up' :
                  AboutUp(n, up'[i]) => i + j \in DOMAIN up /\ up[i + j] = up'[i]
DownBy(n, k) == \A i \in DOMAIN down' :
                    AboutDown(n, down'[i]) => i + k \in DOMAIN down /\ down[i + k] = down'[i]
OldUp(n) == \E j \in 0..1 : UpBy(n, j)
OldDown(n) == \E k \in 0..1 : DownBy(n, k)

AckInHand(n) == rpc = "ack" /\ replied = n
NackInHand(n) == rpc \in {"nack", "resend"} /\ replied = n

Untouched(n) == /\ client_messages'[n] = client_messages[n]
                /\ Unsent(n)' => Unsent(n) /\ sent' = sent
                /\ AckInHand(n)' => AckInHand(n)
                /\ NackInHand(n)' => NackInHand(n)

Undisturbed(n) == OldUp(n) /\ OldDown(n) /\ Untouched(n)
Plain == UNCHANGED <<taken, sent, client_messages>> /\ \A n \in Nums : Undisturbed(n)

\* The message with number n is yet to be acknowledged, or has been.
Due(n) == \/ Unsent(n) \/ Copies(n) # {} \/ NackInHand(n)
          \/ \E i \in Answers(n) : down[i].type = "NACK"
Acked(n) == AckInHand(n) \/ \E i \in Answers(n) : down[i].type = "ACK"

\* A message changes hands at most, and its state stays as it is.
HandedOn(n) == (Due(n)' => Due(n)) /\ (Acked(n)' => Acked(n))
Handover == UNCHANGED <<taken, sent, client_messages>> /\ \A n \in Nums : HandedOn(n)

\* What is left of n, if it is not disturbed, was there before.
LEMMA UndisturbedParts ==
  ASSUME LinkTypes, LinkTypes', NEW n \in Nums, Undisturbed(n)
  PROVE  \E j, k \in 0..1 :
             /\ \A i \in Copies(n)' : /\ i \in Int /\ i + j \in Copies(n)
                                    /\ up[i + j] = up'[i]
             /\ \A i \in Answers(n)' : /\ i \in Int /\ i + k \in Answers(n)
                                     /\ down[i + k] = down'[i]
<1>1. PICK j \in 0..1 : UpBy(n, j)
  BY DEF Undisturbed, OldUp
<1>2. PICK k \in 0..1 : DownBy(n, k)
  BY DEF Undisturbed, OldDown
<1>3. \A i \in Copies(n)' : i \in Int /\ i + j \in Copies(n) /\ up[i + j] = up'[i]
  BY <1>1 DEF Copies, UpBy, AboutUp, LinkTypes
<1>4. \A i \in Answers(n)' : i \in Int /\ i + k \in Answers(n) /\ down[i + k] = down'[i]
  BY <1>2 DEF Answers, DownBy, AboutDown, LinkTypes
<1> QED BY <1>3, <1>4

LEMMA UndisturbedInPlace ==
  ASSUME LinkTypes, LinkTypes', NEW n \in Nums, InOnePlace(n), Undisturbed(n)
  PROVE  InOnePlace(n)'
<1>0. PICK j, k \in 0..1 :
          /\ \A i \in Copies(n)' : i \in Int /\ i + j \in Copies(n) /\ up[i + j] = up'[i]
          /\ \A i \in Answers(n)' : i \in Int /\ i + k \in Answers(n)
  BY UndisturbedParts
<1>1. \A i \in Copies(n)' : i \in Int /\ i + j \in Copies(n) /\ up[i + j] = up'[i]
  BY <1>0
<1>2. \A i \in Answers(n)' : i \in Int /\ i + k \in Answers(n)
  BY <1>0
<1>3. /\ Copies(n)' # {} => Copies(n) # {}
      /\ Answers(n)' # {} => Answers(n) # {}
  BY <1>1, <1>2
<1>4. ASSUME NEW i \in Copies(n)', NEW l \in Copies(n)'
      PROVE  i = l
  <2>1. i + j \in Copies(n) /\ l + j \in Copies(n) /\ i \in Int /\ l \in Int
    BY <1>1
  <2>2. i + j = l + j
    BY <2>1 DEF InOnePlace
  <2> QED BY <2>1, <2>2
<1>5. ASSUME NEW i \in Answers(n)', NEW l \in Answers(n)'
      PROVE  i = l
  <2>1. i + k \in Answers(n) /\ l + k \in Answers(n) /\ i \in Int /\ l \in Int
    BY <1>2
  <2>2. i + k = l + k
    BY <2>1 DEF InOnePlace
  <2> QED BY <2>1, <2>2
<1>6. Untouched(n) /\ (InHand(n)' => InHand(n))
  BY DEF Undisturbed, Untouched, AckInHand, NackInHand, InHand
<1>7. \A i \in Copies(n)' : up'[i].msg = client_messages'[n]
  BY <1>1, <1>6 DEF InOnePlace, Untouched
<1>8. Underway(n)' => Underway(n)
  BY <1>3, <1>6 DEF Underway, Untouched
<1> QED
  BY <1>3, <1>4, <1>5, <1>6, <1>7, <1>8 DEF InOnePlace, Untouched

\* No ACK of n is new if the frames on their way to the client are old.
LEMMA OldAcks ==
  ASSUME LinkTypes, LinkTypes', NEW n \in Nums, OldDown(n), AckInHand(n)' => AckInHand(n)
  PROVE  Acked(n)' => Acked(n)
<1>1. PICK k \in 0..1 : DownBy(n, k)
  BY DEF OldDown
<1>2. \A i \in Answers(n)' : i + k \in Answers(n) /\ down[i + k] = down'[i]
  BY <1>1 DEF Answers, DownBy, AboutDown, LinkTypes
<1> QED BY <1>2 DEF Acked

LEMMA UndisturbedHandedOn ==
  ASSUME LinkTypes, LinkTypes', NEW n \in Nums, Undisturbed(n)
  PROVE  HandedOn(n)
<1>1. PICK j, k \in 0..1 :
          /\ \A i \in Copies(n)' : i \in Int /\ i + j \in Copies(n)
          /\ \A i \in Answers(n)' : i + k \in Answers(n) /\ down[i + k] = down'[i]
  BY UndisturbedParts
<1>2. /\ Unsent(n)' => Unsent(n)
      /\ NackInHand(n)' => NackInHand(n)
  BY DEF Undisturbed, Untouched
<1>3. Due(n)' => Due(n)
  BY <1>1, <1>2 DEF Due
<1>4. Acked(n)' => Acked(n)
  BY OldAcks DEF Undisturbed, Untouched
<1> QED BY <1>3, <1>4 DEF HandedOn

LEMMA PlainKeeps ==
  ASSUME LinkTypes, LinkTypes', OnePlace, Plain
  PROVE  OnePlace' /\ Handover
BY UndisturbedInPlace, UndisturbedHandedOn DEF OnePlace, Plain, Handover

-------------------------------------------------------------------------------
(***************************************************************************)
(* What happens to the two buffers.                                        *)
(***************************************************************************)
LEMMA SameUp ==
  ASSUME LinkTypes, up' = up \/ up' = <<>>, NEW n
  PROVE  OldUp(n)
<1>1. UpBy(n, 0)
  BY DEF UpBy, LinkTypes
<1> QED BY <1>1 DEF OldUp

LEMMA TailUp ==
  ASSUME LinkTypes, up # <<>>, up' = Tail(up), NEW n
  PROVE  OldUp(n)
<1>1. UpBy(n, 1)
  BY DEF UpBy, LinkTypes
<1> QED BY <1>1 DEF OldUp

LEMMA SameDown ==
  ASSUME LinkTypes, down' = down, NEW n
  PROVE  OldDown(n)
<1>1. DownBy(n, 0)
  BY DEF DownBy, LinkTypes
<1> QED BY <1>1 DEF OldDown

\* A frame is added that is no message, or answer, with number n.
LEMMA AppendUp ==
  ASSUME LinkTypes, NEW f \in UpFrames, up' = Append(up, f), NEW n, ~AboutUp(n, f)
  PROVE  OldUp(n)
<1>1. \A i \in DOMAIN up' : i = Len(up) + 1 \/ (i \in DOMAIN up /\ up'[i] = up[i])
  BY DEF LinkTypes
<1>2. up'[Len(up) + 1] = f /\ DOMAIN up \subseteq Int
  BY DEF LinkTypes
<1>3. UpBy(n, 0)
  BY <1>1, <1>2 DEF UpBy
<1> QED BY <1>3 DEF OldUp

LEMMA AppendDown ==
  ASSUME LinkTypes, NEW f \in DownFrames, down' = Append(down, f), NEW n, ~AboutDown(n, f)
  PROVE  OldDown(n)
<1>1. \A i \in DOMAIN down' : i = Len(down) + 1 \/ (i \in DOMAIN down /\ down'[i] = down[i])
  BY DEF LinkTypes
<1>2. down'[Len(down) + 1] = f /\ DOMAIN down \subseteq Int
  BY DEF LinkTypes
<1>3. DownBy(n, 0)
  BY <1>1, <1>2 DEF DownBy
<1> QED BY <1>3 DEF OldDown

\* The first frame is read, or all but its body.
LEMMA ReadDown ==
  ASSUME LinkTypes, down # <<>>, NoBody \/ LeaveBody, NEW n
  PROVE  OldDown(n)
<1>1. CASE NoBody
  <2>1. DownBy(n, 1)
    BY <1>1 DEF NoBody, DownBy, LinkTypes
  <2> QED BY <2>1 DEF OldDown
<1>2. CASE LeaveBody
  <2>1. \A i \in DOMAIN down' : /\ i \in DOMAIN down /\ i + 0 = i
                                /\ down'[i] = down[i] \/ down'[i] = Say("body")
    BY <1>2 DEF LeaveBody, LinkTypes
  <2>2. ~AboutDown(n, Say("body"))
    BY DEF AboutDown, Say, Replies
  <2>3. DownBy(n, 0)
    BY <2>1, <2>2 DEF DownBy
  <2> QED BY <2>3 DEF OldDown
<1> QED BY <1>1, <1>2

LEMMA AcceptedOld ==
  ASSUME LinkTypes, NEW f \in UpFrames, Accepted(f), NEW n, ~AboutUp(n, f)
  PROVE  OldUp(n) /\ OldDown(n)
BY AppendUp, SameUp, SameDown DEF Accepted, linkvars

-------------------------------------------------------------------------------
(***************************************************************************)
(* The steps that do not disturb any message.                              *)
(***************************************************************************)
\* Those that neither send, read, store nor erase.
LEMMA QuietPlain ==
  ASSUME LinkTypes,
         \/ CreateThread \/ ConnectFails \/ KeyFails \/ GetLine \/ GetLineStopped
         \/ EncryptFails \/ Lock \/ NumberInUse \/ Interrupt \/ SenderKilled
         \/ StopRunning \/ Kill \/ KillNobody \/ Join \/ JoinThrows \/ Joined \/ Exit
         \/ Install \/ CheckRunning \/ ReadStopped \/ ReadClosed \/ ReadPart \/ Return
         \/ NotFound \/ Find \/ ResendKilled \/ HandlerStep
  PROVE  Plain
<1> DEFINE Quiet == /\ UNCHANGED linkvars /\ UNCHANGED <<sent, client_messages>>
                    /\ \A n \in Nums : Untouched(n)
<1> USE DEF Untouched, Unsent, AckInHand, NackInHand, receivervars, sharedvars, sendervars,
            Sender, Receiver, CleanUp, Local, EndProcess, Dies, SigPipe, GiveUp
<1>1. CASE CreateThread \/ ConnectFails \/ KeyFails \/ GetLine \/ GetLineStopped
  <2>1. Quiet
    BY <1>1 DEF CreateThread, ConnectFails, KeyFails, GetLine, GetLineStopped
  <2> QED BY <2>1, SameUp, SameDown DEF linkvars, Plain, Undisturbed
<1>2. CASE EncryptFails \/ Lock \/ NumberInUse \/ Interrupt \/ SenderKilled
  <2>1. Quiet
    BY <1>2 DEF EncryptFails, Lock, NumberInUse, Interrupt, SenderKilled
  <2> QED BY <2>1, SameUp, SameDown DEF linkvars, Plain, Undisturbed
<1>3. CASE StopRunning \/ Kill \/ KillNobody \/ Join \/ JoinThrows \/ Joined \/ Exit
  <2>1. Quiet
    BY <1>3 DEF StopRunning, Kill, KillNobody, Join, JoinThrows, Joined, Exit
  <2> QED BY <2>1, SameUp, SameDown DEF linkvars, Plain, Undisturbed
<1>4. CASE Install \/ CheckRunning \/ ReadStopped \/ ReadClosed \/ ReadPart \/ Return
  <2>1. Quiet
    BY <1>4 DEF Install, CheckRunning, ReadStopped, ReadClosed, ReadPart, Return
  <2> QED BY <2>1, SameUp, SameDown DEF linkvars, Plain, Undisturbed
<1>5. CASE NotFound \/ Find \/ ResendKilled \/ HandlerStep
  <2>1. Quiet
    BY <1>5 DEF NotFound, Find, ResendKilled, HandlerStep, CloseThread, CloseThreadExits,
                DefaultAction
  <2> QED BY <2>1, SameUp, SameDown DEF linkvars, Plain, Undisturbed
<1> QED BY <1>1, <1>2, <1>3, <1>4, <1>5

\* A reset empties the buffer to the server.
LEMMA ResetPlain ==
  ASSUME LinkTypes, RequestRejected \/ MessageRejected \/ ReadFails \/ ResendFails
  PROVE  Plain
<1>1. ResetSeen
  BY DEF RequestRejected, RequestFails, MessageRejected, ReadFails, ResendFails
<1>2. UNCHANGED <<sent, client_messages>> /\ \A n \in Nums : Untouched(n)
  BY DEF RequestRejected, RequestFails, MessageRejected, ReadFails, ResendFails, GiveUp,
         Untouched, Unsent, AckInHand, NackInHand, receivervars, sharedvars, sendervars,
         Sender, Receiver, CleanUp
<1> QED BY <1>1, <1>2, SameUp, SameDown DEF ResetSeen, Plain, Undisturbed

\* LOGIN, WHO and DISCONNECT are no messages.
LEMMA RequestPlain ==
  ASSUME LinkTypes, ThreadInv, LogIn \/ SendWho \/ SendExit
  PROVE  Plain
<1>1. PICK p \in {"login", "who", "exit"}, q \in {"input", "stop"},
           type \in {"LOGIN", "WHO", "DISCONNECT"} : Request(p, q, type)
  BY DEF LogIn, SendWho, SendExit
<1> DEFINE f == [type |-> type, num |-> packet_number, msg |-> None]
<1>2. f \in UpFrames /\ Accepted(f) /\ \A n : ~AboutUp(n, f)
  BY <1>1 DEF Request, UpFrames, AboutUp, ThreadInv, ThreadTypes
<1>3. \A n \in Nums : OldUp(n) /\ OldDown(n)
  BY <1>2, AcceptedOld
<1>4. UNCHANGED <<sent, client_messages>> /\ \A n \in Nums : Untouched(n)
  BY <1>1 DEF Request, Untouched, Unsent, AckInHand, NackInHand, receivervars, sharedvars,
              Sender
<1>5. UNCHANGED taken
  BY <1>2 DEF Accepted, linkvars
<1> QED BY <1>3, <1>4, <1>5 DEF Plain, Undisturbed

LEMMA ReadPlain ==
  ASSUME LinkTypes, ReadLogin \/ ReadLong \/ Misread \/ ReadBody
  PROVE  Plain
<1>1. /\ down # <<>> /\ UNCHANGED <<up, taken, sent, client_messages>>
      /\ NoBody \/ LeaveBody
  BY DEF ReadLogin, ReadLong, Misread, ReadBody, GotHeader, sendervars, sharedvars
<1>2. \A n \in Nums : Untouched(n)
  BY DEF ReadLogin, ReadLong, Misread, ReadBody, GotHeader, Receiver, sendervars, sharedvars,
         Untouched, Unsent, AckInHand, NackInHand
<1> QED BY <1>1, <1>2, SameUp, ReadDown DEF Plain, Undisturbed

\* A step of the server leaves the threads alone.
LEMMA PeerUntouched ==
  ASSUME PeerStep
  PROVE  UNCHANGED <<sent, client_messages>> /\ \A n : Untouched(n)
BY DEF PeerStep, sendervars, receivervars, sharedvars, Untouched, Unsent, AckInHand, NackInHand

LEMMA PeerPlain ==
  ASSUME LinkTypes, PeerStep,
         \/ AnswerLogin \/ RefuseLogin \/ AnswerWho \/ EndSession
         \/ Report \/ SkipFrame \/ Push \/ Close
  PROVE  Plain
<1>1. UNCHANGED taken /\ ((up' = Tail(up) /\ up # <<>>) \/ up' = <<>> \/ up' = up)
  BY DEF AnswerLogin, RefuseLogin, AnswerWho, EndSession, Report, SkipFrame, Push, Close,
         Hangup, Serving, Attends
<1>2. \A n \in Nums : OldUp(n)
  BY <1>1, TailUp, SameUp
<1>3. \/ down' = down
      \/ \E type \in WithBody \cup {"LOGIN"} : down' = Append(down, Say(type))
  BY DEF AnswerLogin, RefuseLogin, AnswerWho, EndSession, Report, SkipFrame, Push, Close, WithBody
<1>4. ASSUME NEW n \in Nums PROVE OldDown(n)
  <2>1. CASE \E type \in WithBody \cup {"LOGIN"} : down' = Append(down, Say(type))
    <3>1. PICK type \in WithBody \cup {"LOGIN"} : down' = Append(down, Say(type))
      BY <2>1
    <3>2. Say(type) \in DownFrames
      BY DownFrameTypes
    <3>3. ~AboutDown(n, Say(type))
      BY DEF AboutDown, Say, Replies, WithBody
    <3> QED BY <3>1, <3>2, <3>3, AppendDown
  <2> QED BY <1>3, <2>1, SameDown
<1> QED BY <1>1, <1>2, <1>4, PeerUntouched DEF Plain, Undisturbed

-------------------------------------------------------------------------------
(***************************************************************************)
(* The steps that hand a message on.                                       *)
(***************************************************************************)
\* All numbers but m are left alone, and m is in place afterwards.
LEMMA OneMoves ==
  ASSUME LinkTypes, LinkTypes', OnePlace, NEW m \in Nums,
         \A n \in Nums \ {m} : Undisturbed(n), InOnePlace(m)'
  PROVE  OnePlace'
BY UndisturbedInPlace DEF OnePlace

LEMMA OneHandedOn ==
  ASSUME LinkTypes, LinkTypes', UNCHANGED <<taken, sent, client_messages>>,
         NEW m \in Nums, \A n \in Nums \ {m} : Undisturbed(n), HandedOn(m)
  PROVE  Handover
BY UndisturbedHandedOn DEF Handover

\* A number that is free is not under way: the message just stored is the
\* only thing there is of it.
LEMMA StoreInPlace ==
  ASSUME LinkTypes, LinkTypes', ThreadInv, OnePlace, Store,
         NEW m \in Nums, m = packet_number
  PROVE  /\ OnePlace'
         /\ \A n \in Nums \ {m} : Undisturbed(n)
         /\ client_messages[m] = None
         /\ client_messages' = [client_messages EXCEPT ![m] = sent + 1]
         /\ sent' = sent + 1 /\ sent' \in Messages
         /\ UNCHANGED <<up, down, taken>>
<1>1. /\ UNCHANGED <<up, down, taken, rpc, replied, packet_number>>
      /\ spc = "locked" /\ spc' = "sending"
  BY DEF Store, Sender, linkvars, receivervars
<1>2. /\ client_messages \in [Nums -> Messages \cup {None}]
      /\ client_messages[m] = None
      /\ client_messages' = [client_messages EXCEPT ![m] = sent + 1]
  BY DEF Store, ThreadInv, ThreadTypes
<1>3. sent' = sent + 1 /\ sent' \in Messages
  BY <1>1, LinkAssumption DEF Store, ThreadInv, ThreadTypes, SenderPlace, Messages
<1>4. \A n \in Nums \ {m} : Undisturbed(n)
  <2>1. \A n \in Nums \ {m} : Untouched(n)
    BY <1>1, <1>2 DEF Untouched, Unsent, AckInHand, NackInHand
  <2> QED BY <1>1, <2>1, SameUp, SameDown DEF Undisturbed
<1>5. InOnePlace(m)'
  <2>1. Copies(m) = {} /\ Answers(m) = {} /\ ~InHand(m)
    BY <1>2 DEF OnePlace, InOnePlace, Underway
  <2>2. Copies(m)' = {} /\ Answers(m)' = {} /\ ~InHand(m)'
    BY <1>1, <2>1 DEF Copies, Answers, InHand
  <2>3. client_messages'[m] = sent' /\ sent' # None
    BY <1>2, <1>3, LinkAssumption DEF Messages
  <2> QED BY <2>2, <2>3 DEF InOnePlace, Underway
<1> QED BY <1>1, <1>2, <1>3, <1>4, <1>5, OneMoves

\* A frame for number m is put on the wire by whoever has m, and lets go of it.
LEMMA SentKeeps ==
  ASSUME LinkTypes, LinkTypes', OnePlace, NEW m \in Nums, NEW f \in UpFrames,
         Accepted(f), AboutUp(m, f), f.msg = client_messages[m], client_messages[m] # None,
         Copies(m) = {}, Answers(m) = {}, Due(m), ~Unsent(m)', ~InHand(m)',
         UNCHANGED <<sent, client_messages>>, \A n \in Nums \ {m} : Untouched(n)
  PROVE  OnePlace' /\ Handover
<1>1. \A n \in Nums \ {m} : Undisturbed(n)
  BY AcceptedOld DEF AboutUp, Undisturbed
<1>2. down' = down /\ taken' = taken
  BY DEF Accepted, linkvars
<1>3. InOnePlace(m)'
  <2>1. \A i \in Copies(m)' : i = Len(up) + 1 /\ up'[i] = f
    <3>1. CASE up' = Append(up, f) /\ UNCHANGED <<server, down, link, taken, reporting>>
      <4>1. \A i \in DOMAIN up' : \/ i = Len(up) + 1 /\ up'[i] = f
                                  \/ i \in DOMAIN up /\ up'[i] = up[i]
        BY <3>1 DEF LinkTypes
      <4> QED BY <4>1 DEF Copies
    <3>2. CASE UNCHANGED linkvars
      BY <3>2 DEF Copies, linkvars
    <3> QED BY <3>1, <3>2 DEF Accepted
  <2>2. Answers(m)' = {}
    BY <1>2 DEF Answers
  <2> QED BY <2>1, <2>2 DEF InOnePlace, Underway
<1>4. HandedOn(m)
  BY <1>2, SameDown, OldAcks DEF HandedOn, AckInHand, InHand
<1> QED BY <1>1, <1>2, <1>3, <1>4, OneMoves, OneHandedOn

\* The main thread sends the message it has just stored.
LEMMA SendKeeps ==
  ASSUME LinkTypes, LinkTypes', ThreadInv, OnePlace, SendMessage
  PROVE  OnePlace' /\ Handover
<1>1. PICK m \in Nums : m = packet_number
  BY DEF ThreadInv, ThreadTypes
<1> DEFINE f == [type |-> "MESSAGE", num |-> m, msg |-> sent]
<1>2. Accepted(f) /\ f \in UpFrames /\ AboutUp(m, f)
  BY <1>1 DEF SendMessage, Sender, ThreadInv, ThreadTypes, SenderPlace, UpFrames, AboutUp
<1>3. Unsent(m) /\ Due(m) /\ \A n \in Nums : ~Unsent(n)'
  BY <1>1 DEF SendMessage, Sender, Unsent, Due
<1>4. /\ f.msg = client_messages[m] /\ client_messages[m] # None
      /\ Copies(m) = {} /\ Answers(m) = {} /\ ~InHand(m)
  BY <1>3 DEF OnePlace, InOnePlace, Underway
<1>5. /\ UNCHANGED <<sent, client_messages>> /\ ~InHand(m)'
      /\ \A n \in Nums : Untouched(n)
  BY <1>3, <1>4 DEF SendMessage, receivervars, sharedvars, Untouched, InHand, AckInHand,
                    NackInHand
<1> QED BY <1>2, <1>3, <1>4, <1>5, SentKeeps

\* The receiver sends again the message whose NACK it holds.
LEMMA ResendKeeps ==
  ASSUME LinkTypes, LinkTypes', ThreadInv, OnePlace, Resend
  PROVE  OnePlace' /\ Handover
<1>1. PICK m \in Nums : m = replied
  BY DEF Resend, Receiver, ThreadInv, ReceiverPlace
<1> DEFINE f == [type |-> "MESSAGE", num |-> m, msg |-> client_messages[m]]
<1>2. InHand(m) /\ Due(m) /\ \A n \in Nums : ~InHand(n)' /\ ~AckInHand(n)' /\ ~NackInHand(n)'
  BY <1>1 DEF Resend, Receiver, InHand, Due, AckInHand, NackInHand
<1>3. /\ client_messages[m] # None
      /\ Copies(m) = {} /\ Answers(m) = {} /\ ~Unsent(m)
  BY <1>2 DEF OnePlace, InOnePlace, Underway
<1>4. Accepted(f) /\ f \in UpFrames /\ AboutUp(m, f)
  BY <1>1, <1>3 DEF Resend, Again, ThreadInv, ThreadTypes, UpFrames, AboutUp
<1>5. /\ UNCHANGED <<sent, client_messages>> /\ ~Unsent(m)'
      /\ \A n \in Nums : Untouched(n)
  BY <1>2, <1>3 DEF Resend, sendervars, Untouched, Unsent
<1> QED BY <1>2, <1>3, <1>4, <1>5, SentKeeps

\* The receiver erases the message whose ACK it holds: nothing is left of it.
LEMMA EraseInPlace ==
  ASSUME LinkTypes, LinkTypes', ThreadInv, OnePlace, Erase, NEW m \in Nums, m = replied
  PROVE  /\ OnePlace'
         /\ \A n \in Nums \ {m} : Undisturbed(n)
         /\ client_messages[m] # None
         /\ client_messages' = [client_messages EXCEPT ![m] = None]
         /\ Acked(m)
         /\ UNCHANGED <<taken, sent>>
<1>1. /\ InHand(m) /\ Acked(m)
      /\ \A n \in Nums : /\ ~InHand(n)' /\ ~AckInHand(n)' /\ ~NackInHand(n)'
                         /\ Unsent(n)' = Unsent(n)
  BY DEF Erase, Receiver, InHand, Acked, AckInHand, NackInHand, Unsent, sendervars
<1>2. /\ client_messages \in [Nums -> Messages \cup {None}]
      /\ client_messages' = [client_messages EXCEPT ![m] = None]
      /\ UNCHANGED <<up, down, taken, sent>>
  BY DEF Erase, linkvars, sendervars, ThreadInv, ThreadTypes
<1>3. \A n \in Nums \ {m} : Undisturbed(n)
  <2>1. \A n \in Nums \ {m} : Untouched(n)
    BY <1>1, <1>2 DEF Untouched
  <2> QED BY <1>2, <2>1, SameUp, SameDown DEF Undisturbed
<1>4. /\ Copies(m) = {} /\ Answers(m) = {} /\ ~Unsent(m)
      /\ client_messages[m] # None
  BY <1>1 DEF OnePlace, InOnePlace, Underway
<1>5. InOnePlace(m)'
  <2>1. Copies(m)' = {} /\ Answers(m)' = {}
    BY <1>2, <1>4 DEF Copies, Answers
  <2> QED BY <1>1, <1>4, <2>1 DEF InOnePlace, Underway
<1> QED BY <1>1, <1>2, <1>3, <1>4, <1>5, OneMoves

\* The receiver reads an answer to m: m is in its hands now.
LEMMA AnswerReadKeeps ==
  ASSUME LinkTypes, LinkTypes', OnePlace, ReadAck \/ ReadNack
  PROVE  OnePlace' /\ Handover
<1>1. /\ down # <<>> /\ UNCHANGED <<up, taken, sendervars, sharedvars>> /\ NoBody
      /\ Head(down).type \in Replies /\ replied' = Head(down).num
      /\ rpc' = IF Head(down).type = "ACK" THEN "ack" ELSE "nack"
  BY DEF ReadAck, ReadNack, GotHeader, Receiver, Replies
<1>2. Head(down) \in DownFrames /\ Head(down) = down[1] /\ 1 \in DOMAIN down
  BY <1>1 DEF LinkTypes
<1>3. PICK m \in Nums : m = Head(down).num
  BY <1>1, <1>2 DEF DownFrames, WithBody, Replies
<1>4. \A n \in Nums : OldUp(n) /\ OldDown(n)
  BY <1>1, SameUp, ReadDown
<1>5. \A n \in Nums \ {m} : Undisturbed(n)
  <2>1. \A n \in Nums \ {m} : Untouched(n)
    BY <1>1, <1>3 DEF Untouched, Unsent, AckInHand, NackInHand, sendervars, sharedvars
  <2> QED BY <1>4, <2>1 DEF Undisturbed
<1>6. 1 \in Answers(m)
  BY <1>1, <1>2, <1>3 DEF Answers
<1>7. /\ ~Unsent(m) /\ Copies(m) = {} /\ client_messages[m] # None /\ ~InHand(m)
      /\ \A i \in Answers(m) : i = 1
  BY <1>6 DEF OnePlace, InOnePlace, Underway
<1>8. Answers(m)' = {}
  <2>1. \A i \in DOMAIN down' : /\ i \in Nat \ {0} /\ i + 1 \in DOMAIN down
                                /\ down'[i] = down[i + 1]
    BY <1>1 DEF NoBody, LinkTypes
  <2>2. ASSUME NEW i \in DOMAIN down', down'[i].type \in Replies, down'[i].num = m
        PROVE  FALSE
    BY <1>7, <2>1, <2>2 DEF Answers
  <2> QED BY <2>2 DEF Answers
<1>9. ~Unsent(m)' /\ Copies(m)' = {} /\ client_messages'[m] # None
  BY <1>1, <1>7 DEF Unsent, Copies, sendervars, sharedvars
<1>10. InOnePlace(m)'
  BY <1>8, <1>9 DEF InOnePlace, Underway
<1>11. HandedOn(m)
  <2>1. Due(m)' => Head(down).type = "NACK"
    BY <1>1, <1>8, <1>9 DEF Due, NackInHand, Replies
  <2>2. Acked(m)' => Head(down).type = "ACK"
    BY <1>1, <1>8 DEF Acked, AckInHand
  <2>3. Head(down).type = "NACK" => Due(m)
    BY <1>2, <1>6 DEF Due
  <2>4. Head(down).type = "ACK" => Acked(m)
    BY <1>2, <1>6 DEF Acked
  <2> QED BY <2>1, <2>2, <2>3, <2>4 DEF HandedOn
<1> QED BY <1>1, <1>5, <1>10, <1>11, OneMoves, OneHandedOn DEF sendervars, sharedvars

\* The server answers a message: the number is on its way back now.
LEMMA AnswerInPlace ==
  ASSUME LinkTypes, LinkTypes', server = "cpp", Acknowledge \/ Reject, PeerStep, OnePlace,
         NEW m \in Nums, m = Head(up).num
  PROVE  /\ OnePlace'
         /\ \A n \in Nums \ {m} : Undisturbed(n)
         /\ Due(m) /\ client_messages[m] = Head(up).msg
         /\ Acknowledge => ~Due(m)'
         /\ Reject => ~Acked(m)'
         /\ UNCHANGED <<sent, client_messages>>
<1>1. /\ up # <<>> /\ up[1] = Head(up) /\ up[1] \in UpFrames
      /\ up' = Tail(up) /\ up[1].type = "MESSAGE"
  <2>1. up # <<>> /\ Head(up).type = "MESSAGE" /\ up' = Tail(up)
    BY Zenon DEF Acknowledge, Reject, Serving, Attends
  <2> QED BY <2>1 DEF LinkTypes
<1>2. PICK type \in Replies : /\ down' = Append(down, Reply(type, m))
                              /\ Acknowledge => type = "ACK"
                              /\ Reject => type = "NACK"
  <2>1. CASE Acknowledge
    <3>1. ~Reject
      BY <2>1, DownFrameTypes DEF Acknowledge, Reject, Reply, LinkTypes
    <3> QED BY <2>1, <3>1 DEF Acknowledge, Replies
  <2>2. CASE Reject
    <3>1. down' = Append(down, Reply("NACK", m))
      BY <2>2 DEF Reject, NackNumber
    <3>2. Acknowledge => taken' = Append(taken, Head(up).msg)
      BY Zenon DEF Acknowledge
    <3>3. ~Acknowledge
      BY <2>2, <3>2 DEF Reject, LinkTypes
    <3> QED BY <3>1, <3>3 DEF Replies
  <2> QED BY <2>1, <2>2
<1>3. Reply(type, m) \in DownFrames
  BY DownFrameTypes
<1>4. \A i \in DOMAIN down' : \/ i \in DOMAIN down /\ down'[i] = down[i]
                              \/ i = Len(down) + 1 /\ down'[i] = Reply(type, m)
  BY <1>2, <1>3 DEF LinkTypes
<1>5. Reply(type, m).type = type /\ Reply(type, m).num = m
  BY DEF Reply
<1>6. ASSUME NEW n \in Nums, n # m
      PROVE  Undisturbed(n)
  <2>1. OldDown(n)
    <3>1. ASSUME NEW i \in DOMAIN down', AboutDown(n, down'[i])
          PROVE  i \in DOMAIN down /\ down'[i] = down[i]
      <4>1. down'[i] # Reply(type, m)
        BY <1>5, <1>6, <3>1 DEF AboutDown, Replies
      <4> QED BY <1>4, <4>1
    <3>2. \A i \in DOMAIN down : i + 0 = i
      BY DEF LinkTypes
    <3>3. DownBy(n, 0)
      BY <3>1, <3>2 DEF DownBy
    <3> QED BY <3>3 DEF OldDown
  <2> QED BY <1>1, <2>1, TailUp, PeerUntouched DEF Undisturbed
<1>7. 1 \in Copies(m)
  BY <1>1 DEF Copies, LinkTypes
<1>8. /\ ~Unsent(m) /\ Answers(m) = {} /\ ~InHand(m) /\ client_messages[m] # None
      /\ \A i \in Copies(m) : i = 1
      /\ client_messages[m] = Head(up).msg
  BY <1>1, <1>7 DEF OnePlace, InOnePlace, Underway
<1>9. Copies(m)' = {}
  <2>1. \A i \in DOMAIN up' : i \in Nat \ {0} /\ i + 1 \in DOMAIN up /\ up'[i] = up[i + 1]
    BY <1>1 DEF LinkTypes
  <2>2. ASSUME NEW i \in DOMAIN up', up'[i].type = "MESSAGE", up'[i].num = m
        PROVE  FALSE
    BY <1>8, <2>1, <2>2 DEF Copies
  <2> QED BY <2>2 DEF Copies
<1>10. \A i \in Answers(m)' : i = Len(down) + 1 /\ down'[i].type = type
  BY <1>4, <1>5, <1>8 DEF Answers, Replies
<1>11. /\ ~Unsent(m)' /\ ~InHand(m)' /\ ~AckInHand(m)' /\ ~NackInHand(m)'
       /\ client_messages'[m] # None
  BY <1>8, PeerUntouched DEF Untouched, InHand, AckInHand, NackInHand
<1>12. InOnePlace(m)'
  BY <1>9, <1>10, <1>11 DEF InOnePlace, Underway
<1>13. Due(m) /\ (Acknowledge => ~Due(m)') /\ (Reject => ~Acked(m)')
  BY <1>2, <1>7, <1>9, <1>10, <1>11 DEF Due, Acked
<1> QED BY <1>6, <1>8, <1>12, <1>13, OneMoves, PeerUntouched

-------------------------------------------------------------------------------
LEMMA InitInPlace == Init => OnePlace
BY DEF Init, LinkInit, OnePlace, InOnePlace, Underway, Unsent, Copies, Answers, InHand

\* Every step is one of the above.
LEMMA StepKinds ==
  ASSUME LinkTypes, ThreadInv, LinkTypes', OnePlace, server = "cpp", [Next]_vars
  PROVE  /\ OnePlace'
         /\ Handover \/ Store \/ Erase \/ (Acknowledge /\ PeerStep)
<1>1. CASE UNCHANGED vars
  <2>1. Plain
    BY <1>1, SameUp, SameDown
    DEF vars, Plain, Undisturbed, Untouched, Unsent, AckInHand, NackInHand, sendervars,
        receivervars, sharedvars, linkvars
  <2> QED BY <2>1, PlainKeeps
<1>2. CASE MainStep \/ Interrupt
  <2>1. CASE Store
    <3>1. PICK m \in Nums : m = packet_number
      BY DEF ThreadInv, ThreadTypes
    <3> QED BY <2>1, <3>1, StoreInPlace
  <2> QED
    BY <1>2, <2>1, PlainKeeps, QuietPlain, ResetPlain, RequestPlain, SendKeeps
    DEF MainStep
<1>3. CASE ReceiverStep
  <2>1. CASE Erase
    <3>1. PICK m \in Nums : m = replied
      BY <2>1 DEF Erase, Receiver, ThreadInv, ReceiverPlace
    <3> QED BY <2>1, <3>1, EraseInPlace
  <2> QED
    BY <1>3, <2>1, PlainKeeps, QuietPlain, ResetPlain, ReadPlain, AnswerReadKeeps, ResendKeeps
    DEF ReceiverStep
<1>4. CASE HandlerStep
  BY <1>4, PlainKeeps, QuietPlain
<1>5. CASE PeerStep
  <2>1. CASE Acknowledge \/ Reject
    <3>1. PICK m \in Nums : m = Head(up).num
      <4>1. Head(up) \in UpFrames
        <5>1. up # <<>>
          BY <2>1, Zenon DEF Acknowledge, Reject, Serving, Attends
        <5> QED BY <5>1 DEF LinkTypes
      <4> QED BY <4>1 DEF UpFrames
    <3>2. OnePlace'
      BY <1>5, <2>1, <3>1, AnswerInPlace
    <3>3. ASSUME Reject PROVE Handover
      <4>1. HandedOn(m)
        BY <1>5, <3>1, <3>3, AnswerInPlace DEF HandedOn
      <4>2. UNCHANGED <<taken, sent, client_messages>>
        BY <1>5, <3>3, PeerUntouched DEF Reject
      <4> QED BY <1>5, <3>1, <3>3, <4>1, <4>2, AnswerInPlace, OneHandedOn
    <3> QED BY <1>5, <2>1, <3>2, <3>3
  <2> QED BY <1>5, <2>1, PlainKeeps, PeerPlain DEF PeerStep, ServerStep, Serve
<1> QED BY <1>1, <1>2, <1>3, <1>4, <1>5 DEF Next, Step, Ended

\* With the C++ server a packet number that is under way is stored, is in one
\* place, and is the number of what the wire carries (Client.cpp:302-350,
\* 598-640): for any number of them, though they are used again and again.
THEOREM NumbersInOnePlace ==
  ASSUME Servers \subseteq {"cpp"}
  PROVE  Spec => []OnePlace
<1> DEFINE Inv == ClientInv /\ OnePlace
<1>1. Init => Inv
  BY ClientInit, InvParts, InitInPlace
<1>2. Inv /\ [Next]_vars => Inv'
  <2> SUFFICES ASSUME Inv, [Next]_vars PROVE Inv'
    OBVIOUS
  <2>1. LinkTypes /\ ThreadInv
    BY InvParts
  <2>2. LinkTypes' /\ ThreadInv'
    BY <2>1, ClientStep
  <2>3. server = "cpp"
    BY <2>1 DEF LinkTypes
  <2> QED BY <2>1, <2>2, <2>3, StepKinds, InvPartsAfter
<1> QED BY <1>1, <1>2, PTL DEF Spec

-------------------------------------------------------------------------------
(***************************************************************************)
(* The client, with the C++ server, implements the abstract delivery:      *)
(* however its messages were sent again, whatever number they have and     *)
(* however often that has been used, and whatever breaks.                  *)
(***************************************************************************)
\* What is stored has been typed, is stored once, and is with the server or
\* not, as what is under way of it says.
TakenAsDue(n) == /\ Due(n) => client_messages[n] \notin Delivery!Taken
                 /\ Acked(n) => client_messages[n] \in Delivery!Taken

DeliveryInv ==
    /\ \A n \in Nums : client_messages[n] \in 1..sent \cup {None}
    /\ \A a, b \in Nums : client_messages[a] = client_messages[b] /\ client_messages[a] # None
                             => a = b
    /\ Delivery!Taken \subseteq 1..sent
    /\ \A n \in Nums : TakenAsDue(n)

LEMMA UnderwayIfDue ==
  ASSUME NEW n \in Nums, Due(n) \/ Acked(n)
  PROVE  Underway(n)
BY DEF Due, Acked, Underway, AckInHand, NackInHand, InHand

LEMMA DeliveryInit == Init => Delivery!Init /\ DeliveryInv
<1> SUFFICES ASSUME Init
             PROVE  Delivery!Init /\ DeliveryInv
  OBVIOUS
<1>1. sent = 0 /\ taken = <<>> /\ \A n \in Nums : client_messages[n] = None
  BY DEF Init, LinkInit
<1>2. Delivery!Taken = {}
  BY <1>1 DEF Delivery!Taken
<1>3. \A n \in Nums : ~Due(n) /\ ~Acked(n)
  BY DEF Init, LinkInit, Due, Acked, Unsent, Copies, Answers, AckInHand, NackInHand
<1> QED BY <1>1, <1>2, <1>3 DEF Delivery!Init, Stored, DeliveryInv, TakenAsDue

\* A message changes hands: to the delivery, nothing happens.
LEMMA HandoverDelivers ==
  ASSUME DeliveryInv, Handover
  PROVE  DeliveryInv' /\ UNCHANGED Delivery!dvars
<1>1. UNCHANGED <<taken, sent, client_messages>>
  BY DEF Handover
<1>2. Stored' = Stored /\ Delivery!Taken' = Delivery!Taken
  BY <1>1 DEF Stored, Delivery!Taken
<1>3. \A n \in Nums : TakenAsDue(n)'
  BY <1>1, <1>2 DEF Handover, HandedOn, DeliveryInv, TakenAsDue
<1> QED BY <1>1, <1>2, <1>3 DEF DeliveryInv, Delivery!dvars

\* The user's message is stored: Submit.
LEMMA StoreDelivers ==
  ASSUME LinkTypes, LinkTypes', ThreadInv, OnePlace, OnePlace', DeliveryInv, Store
  PROVE  DeliveryInv' /\ Delivery!Submit
<1>1. PICK m \in Nums : m = packet_number
  BY DEF ThreadInv, ThreadTypes
<1>2. /\ \A n \in Nums \ {m} : Undisturbed(n)
      /\ client_messages[m] = None
      /\ client_messages' = [client_messages EXCEPT ![m] = sent + 1]
      /\ sent' = sent + 1 /\ sent' \in Messages
      /\ UNCHANGED <<up, down, taken>>
  BY <1>1, StoreInPlace
<1>3. client_messages \in [Nums -> Messages \cup {None}] /\ sent \in Nat
  BY DEF ThreadInv, ThreadTypes
<1>4. /\ client_messages'[m] = sent + 1
      /\ \A n \in Nums \ {m} : client_messages'[n] = client_messages[n]
  BY <1>2, <1>3
<1>5. sent + 1 # None /\ 1..sent' = 1..sent \cup {sent + 1} /\ sent + 1 \notin 1..sent
  BY <1>2, <1>3, LinkAssumption
<1>6. Delivery!Taken' = Delivery!Taken
  BY <1>2 DEF Delivery!Taken
<1>7. Stored' = Stored \cup {sent + 1}
  BY <1>2, <1>4, <1>5 DEF Stored
<1>8. Delivery!Submit
  BY <1>2, <1>3, <1>7, LinkAssumption DEF Delivery!Submit, Messages
<1>9. \A n \in Nums : client_messages'[n] \in 1..sent' \cup {None}
  BY <1>4, <1>5 DEF DeliveryInv
<1>10. ASSUME NEW a \in Nums, NEW b \in Nums,
              client_messages'[a] = client_messages'[b], client_messages'[a] # None
       PROVE  a = b
  <2>1. \A n \in Nums : client_messages[n] # sent + 1
    BY <1>5 DEF DeliveryInv
  <2> QED BY <1>4, <1>10, <2>1 DEF DeliveryInv
<1>11. ASSUME NEW n \in Nums
       PROVE  TakenAsDue(n)'
  <2>1. CASE n = m
    <3>1. Unsent(m)'
      BY <1>1 DEF Store, Sender, Unsent
    <3>2. ~Acked(m)'
      BY <3>1 DEF OnePlace, InOnePlace, Acked, AckInHand, InHand
    <3> QED BY <1>4, <1>5, <1>6, <2>1, <3>2 DEF TakenAsDue, DeliveryInv
  <2>2. CASE n # m
    BY <1>2, <1>4, <1>6, <2>2, UndisturbedHandedOn DEF HandedOn, TakenAsDue, DeliveryInv
  <2> QED BY <2>1, <2>2
<1> QED BY <1>5, <1>6, <1>8, <1>9, <1>10, <1>11 DEF DeliveryInv

\* The server acknowledges a message: Take.
LEMMA AcknowledgeDelivers ==
  ASSUME LinkTypes, LinkTypes', ThreadInv, OnePlace, OnePlace', DeliveryInv, server = "cpp",
         Acknowledge, PeerStep
  PROVE  DeliveryInv' /\ \E m \in 1..MaxMessages : Delivery!Take(m)
<1>1. PICK n \in Nums : n = Head(up).num
  <2>1. Head(up) \in UpFrames
    BY DEF Acknowledge, Serving, Attends, LinkTypes
  <2> QED BY <2>1 DEF UpFrames
<1> DEFINE m == client_messages[n]
<1>2. /\ \A k \in Nums \ {n} : Undisturbed(k)
      /\ Due(n) /\ m = Head(up).msg /\ ~Due(n)'
      /\ UNCHANGED <<sent, client_messages>>
  BY <1>1, AnswerInPlace
<1>3. taken' = Append(taken, m) /\ taken \in Seq(Messages)
  BY <1>2 DEF Acknowledge, LinkTypes
<1>4. m # None /\ m \in Messages
  BY <1>2, UnderwayIfDue DEF OnePlace, InOnePlace, ThreadInv, ThreadTypes
<1>5. Delivery!Taken' = Delivery!Taken \cup {m}
  <2>1. DOMAIN taken' = DOMAIN taken \cup {Len(taken) + 1} /\ taken'[Len(taken) + 1] = m
    BY <1>3, <1>4
  <2>2. \A i \in DOMAIN taken : taken'[i] = taken[i]
    BY <1>3, <1>4
  <2> QED BY <2>1, <2>2 DEF Delivery!Taken
<1>6. Stored' = Stored /\ m \in Stored /\ m \notin Delivery!Taken
  BY <1>2, <1>4 DEF Stored, DeliveryInv, TakenAsDue
<1>7. Delivery!Take(m)
  BY <1>2, <1>3, <1>6 DEF Delivery!Take
<1>8. m \in 1..sent
  BY <1>4 DEF DeliveryInv
<1>9. ASSUME NEW k \in Nums
      PROVE  TakenAsDue(k)'
  <2>1. CASE k = n
    BY <1>2, <1>5, <2>1 DEF TakenAsDue
  <2>2. CASE k # n
    <3>1. HandedOn(k) /\ client_messages'[k] = client_messages[k]
      BY <1>2, <2>2, UndisturbedHandedOn
    <3>2. client_messages[k] # m
      BY <1>4, <2>2 DEF DeliveryInv
    <3> QED BY <1>5, <3>1, <3>2 DEF HandedOn, TakenAsDue, DeliveryInv
  <2> QED BY <2>1, <2>2
<1>10. DeliveryInv'
  BY <1>2, <1>5, <1>8, <1>9 DEF DeliveryInv
<1> QED BY <1>4, <1>7, <1>10 DEF Messages

\* The receiver erases an acknowledged message: Settle.
LEMMA EraseDelivers ==
  ASSUME LinkTypes, LinkTypes', ThreadInv, OnePlace, OnePlace', DeliveryInv, Erase
  PROVE  DeliveryInv' /\ \E m \in 1..MaxMessages : Delivery!Settle(m)
<1>1. PICK n \in Nums : n = replied
  BY DEF Erase, Receiver, ThreadInv, ReceiverPlace
<1> DEFINE m == client_messages[n]
<1>2. /\ \A k \in Nums \ {n} : Undisturbed(k)
      /\ m # None /\ Acked(n)
      /\ client_messages' = [client_messages EXCEPT ![n] = None]
      /\ UNCHANGED <<taken, sent>>
  BY <1>1, EraseInPlace
<1>3. client_messages \in [Nums -> Messages \cup {None}]
  BY DEF ThreadInv, ThreadTypes
<1>4. /\ client_messages'[n] = None
      /\ \A k \in Nums \ {n} : client_messages'[k] = client_messages[k]
  BY <1>2, <1>3
<1>5. m \in Messages /\ m \in Stored /\ m \in Delivery!Taken
  BY <1>2, <1>3 DEF Stored, DeliveryInv, TakenAsDue
<1>6. Delivery!Taken' = Delivery!Taken
  BY <1>2 DEF Delivery!Taken
<1>7. Stored' = Stored \ {m}
  BY <1>2, <1>4 DEF Stored, DeliveryInv
<1>8. Delivery!Settle(m)
  BY <1>2, <1>5, <1>7 DEF Delivery!Settle
<1>9. ASSUME NEW k \in Nums
      PROVE  TakenAsDue(k)'
  <2>1. CASE k = n
    <3>1. ~Underway(n)'
      BY <1>4 DEF OnePlace, InOnePlace
    <3>2. ~Due(n)' /\ ~Acked(n)'
      BY <3>1 DEF Due, Acked, Underway, AckInHand, NackInHand, InHand
    <3> QED BY <2>1, <3>2 DEF TakenAsDue
  <2>2. CASE k # n
    BY <1>2, <1>4, <1>6, <2>2, UndisturbedHandedOn DEF HandedOn, TakenAsDue, DeliveryInv
  <2> QED BY <2>1, <2>2
<1>10. DeliveryInv'
  <2>1. ASSUME NEW a \in Nums, NEW b \in Nums,
               client_messages'[a] = client_messages'[b], client_messages'[a] # None
        PROVE  a = b
    BY <1>4, <2>1 DEF DeliveryInv
  <2> QED BY <1>2, <1>4, <1>6, <1>9, <2>1 DEF DeliveryInv
<1> QED BY <1>5, <1>8, <1>10 DEF Messages

\* No message the user has typed is forgotten before the server has
\* acknowledged it, and the server acknowledges none twice: the client and the
\* C++ server implement MessageDelivery, for any number of packet numbers,
\* messages and frames in a buffer.
THEOREM ClientDelivers ==
  ASSUME Servers \subseteq {"cpp"}
  PROVE  Spec => ImplementsDelivery
<1> DEFINE Inv == ClientInv /\ OnePlace /\ DeliveryInv
<1>1. Init => Inv /\ Delivery!Init
  BY ClientInit, InvParts, InitInPlace, DeliveryInit
<1>2. Inv /\ [Next]_vars => Inv' /\ [Delivery!Next]_(Delivery!dvars)
  <2> SUFFICES ASSUME Inv, [Next]_vars
               PROVE  Inv' /\ [Delivery!Next]_(Delivery!dvars)
    OBVIOUS
  <2>1. LinkTypes /\ ThreadInv
    BY InvParts
  <2>2. LinkTypes' /\ ThreadInv'
    BY <2>1, ClientStep
  <2>3. server = "cpp"
    BY <2>1 DEF LinkTypes
  <2>4. OnePlace' /\ (Handover \/ Store \/ Erase \/ (Acknowledge /\ PeerStep))
    BY <2>1, <2>2, <2>3, StepKinds
  <2>5. DeliveryInv' /\ (Delivery!Next \/ UNCHANGED Delivery!dvars)
    BY <2>1, <2>2, <2>3, <2>4, HandoverDelivers, StoreDelivers, AcknowledgeDelivers,
       EraseDelivers
    DEF Delivery!Next
  <2> QED BY <2>2, <2>4, <2>5, InvPartsAfter
<1> QED BY <1>1, <1>2, PTL DEF Spec, ImplementsDelivery, Delivery!Spec
===============================================================================
