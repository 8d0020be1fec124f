------------------------------ MODULE ServerLink ------------------------------
(***************************************************************************)
(* The client's connection and what is at the other end of it: the kernel  *)
(* buffers of one TCP socket, and the server's loop reduced to how it      *)
(* answers the frames of one client: the C++ server's (Server.cpp,         *)
(* MessagingClient.cpp) or the Rust server's (messaging_client.rs), which  *)
(* differ in two answers to a MESSAGE.                                     *)
(*                                                                         *)
(* down holds the frames on their way to the client.  A frame whose header *)
(* has been read leaves its body behind as a frame of type "body".  A send *)
(* blocks, that is, its step is not taken, while the buffer is full.       *)
(***************************************************************************)
EXTENDS Integers, Sequences

CONSTANTS Wrap,          \* packet numbers are 0 .. Wrap - 1 (uint16_t: 65536)
          MaxMessages,   \* bound: the messages the user types
          Cap,           \* frames a socket buffer holds
          Servers,       \* the servers it may meet: "cpp", "rust"
          Events,        \* what happens besides orderly answers, see below
          None           \* no number, no message, no thread

ASSUME LinkAssumption ==
    /\ Wrap \in Nat \ {0} /\ MaxMessages \in Nat /\ Cap \in Nat \ {0}
    /\ Servers \subseteq {"cpp", "rust"}
    /\ None \notin Nat

(***************************************************************************)
(* "push": frames the client did not ask for; "skip": a frame the server   *)
(* drops without an answer; "misread": a read that returns less than a     *)
(* header, or a header that fails its checksum; "close": the server closes *)
(* or ends; "reset": the connection breaks.                                *)
(***************************************************************************)
ASSUME EventsAssumption == Events \subseteq {"push", "skip", "misread", "close", "reset"}

VARIABLES server,     \* which server this is
          up, down,   \* frames under way to the server, to the client
          link,       \* "open"; "closed" by the server; "broken", as reported
          taken,      \* messages the server has acknowledged, in order
          reporting   \* it is about to report an unknown recipient

linkvars == <<server, up, down, link, taken, reporting>>

Nums == 0..(Wrap - 1)
Messages == 1..MaxMessages

\* Client to server; a MESSAGE carries a message.
UpFrames == [type : {"LOGIN", "WHO", "DISCONNECT"}, num : Nums, msg : {None}]
            \cup [type : {"MESSAGE"}, num : Nums, msg : Messages]

\* Server to client.  Only ACK and NACK carry a number the client looks at.
WithBody == {"ERROR", "WHO", "MESSAGE"}
Replies == {"ACK", "NACK"}
DownFrames == [type : WithBody \cup {"LOGIN", "body"}, num : {None}]
              \cup [type : Replies, num : Nums]

Say(type) == [type |-> type, num |-> None]
Reply(type, n) == [type |-> type, num |-> n]

LinkInit == /\ server \in Servers
            /\ up = <<>> /\ down = <<>> /\ link = "open" /\ taken = <<>>
            /\ reporting = FALSE

-------------------------------------------------------------------------------
(***************************************************************************)
(* send() and read() of the client, as in Connections: after the server    *)
(* has closed, a send is accepted and lost or raises SIGPIPE; a reset is   *)
(* reported once, as an error, and then as SIGPIPE and end of stream.      *)
(***************************************************************************)
Accepted(f) == \/ /\ link = "open" /\ Len(up) < Cap
                  /\ up' = Append(up, f)
                  /\ UNCHANGED <<server, down, link, taken, reporting>>
               \/ link = "closed" /\ UNCHANGED linkvars

ResetSeen == /\ "reset" \in Events /\ link = "open"
             /\ link' = "broken" /\ up' = <<>>
             /\ UNCHANGED <<server, down, taken, reporting>>

SigPipe == link # "open" /\ UNCHANGED linkvars

AtEnd == down = <<>> /\ link # "open"

-------------------------------------------------------------------------------
(***************************************************************************)
(* The server's thread for this client.  It handles one frame at a time,   *)
(* and does not read on before its answer is in the buffer.                *)
(***************************************************************************)
Attends == link = "open" /\ up # <<>> /\ ~reporting
Serving(type) == Attends /\ Head(up).type = type

Room(n) == Len(down) + n <= Cap

\* The server closes its socket; what it has not read is lost.
Hangup == link' = "closed" /\ up' = <<>> /\ UNCHANGED reporting

AnswerLogin == /\ Serving("LOGIN") /\ Room(1)
               /\ down' = Append(down, Say("LOGIN"))
               /\ up' = Tail(up)
               /\ UNCHANGED <<server, link, taken, reporting>>

RefuseLogin == /\ Serving("LOGIN") /\ Room(1)
               /\ down' = Append(down, Say("ERROR"))
               /\ Hangup
               /\ UNCHANGED <<server, taken>>

AnswerWho == /\ Serving("WHO") /\ Room(1)
             /\ down' = Append(down, Say("WHO"))
             /\ up' = Tail(up)
             /\ UNCHANGED <<server, link, taken, reporting>>

\* An intact message: ACK.  Its recipient may turn out to be unknown, ...
Acknowledge == /\ Serving("MESSAGE") /\ Room(1)
               /\ down' = Append(down, Reply("ACK", Head(up).num))
               /\ taken' = Append(taken, Head(up).msg)
               /\ up' = Tail(up)
               /\ reporting' \in {FALSE, server = "cpp"}
               /\ UNCHANGED <<server, link>>

\* ... which the C++ server, but not the Rust server, reports.
Report == /\ link = "open" /\ reporting /\ Room(1)
          /\ down' = Append(down, Say("ERROR"))
          /\ reporting' = FALSE
          /\ UNCHANGED <<server, up, link, taken>>

\* The number a NACK carries.  The Rust server takes it from client_header,
\* the header of its own last message, which has no number set.
NackNumber == IF server = "cpp" THEN Head(up).num ELSE 0

\* A message that does not match its checksum: NACK, and back to the loop.
Reject == /\ Serving("MESSAGE") /\ Room(1)
          /\ down' = Append(down, Reply("NACK", NackNumber))
          /\ up' = Tail(up)
          /\ UNCHANGED <<server, link, taken, reporting>>

EndSession == Serving("DISCONNECT") /\ Hangup /\ UNCHANGED <<server, down, taken>>

\* A short or corrupt header, or a body taken for one: read and dropped.
SkipFrame == /\ "skip" \in Events
             /\ Attends /\ Head(up).type # "LOGIN"
             /\ up' = Tail(up)
             /\ UNCHANGED <<server, down, link, taken, reporting>>

\* Another client's thread sends to this one: a message, or a notice.
Push == /\ "push" \in Events
        /\ link = "open" /\ Room(1)
        /\ down' = Append(down, Say("MESSAGE"))
        /\ UNCHANGED <<server, up, link, taken, reporting>>

Close == /\ "close" \in Events
         /\ link = "open"
         /\ Hangup
         /\ UNCHANGED <<server, down, taken>>

Serve == \/ AnswerLogin \/ RefuseLogin \/ AnswerWho
         \/ Acknowledge \/ Report \/ Reject \/ EndSession

ServerStep == Serve \/ SkipFrame \/ Push \/ Close
===============================================================================
