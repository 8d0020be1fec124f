-------------------------------- MODULE Framing --------------------------------
(***************************************************************************)
(* One direction of one connection below whole frames: the bytes of one or *)
(* two threads' messages, the socket's buffer, and the read loop at the    *)
(* other end, which has to find the headers in them again.  The ends are   *)
(* the client (Client.cpp), the C++ server (MessagingClient.cpp) and the   *)
(* Rust server (messaging_client.rs, application_layer.rs).                *)
(*                                                                         *)
(* A byte is the pair of the frame it belongs to and its place in it, so   *)
(* that a header, or a body, is intact when the bytes read are those.      *)
(***************************************************************************)
EXTENDS MessageHeader

CONSTANTS Links,        \* which ends the connection may have
          Writers,      \* threads that write to it
          HeaderSize,   \* bytes of a header (166)
          Texts,        \* lengths of what users type, and of user lists
          Buffer,       \* bytes the kernel holds for the reader
          MaxFrames     \* bound: frames written

AllLinks == {[from |-> "client", to |-> "cpp"], [from |-> "client", to |-> "rust"],
             [from |-> "cpp", to |-> "client"], [from |-> "rust", to |-> "client"]}

ASSUME FramingAssumption ==
    /\ Links \subseteq AllLinks
    /\ HeaderSize \in Nat \ {0} /\ Buffer \in Nat \ {0} /\ MaxFrames \in Nat
    /\ Texts \subseteq Nat

VARIABLES link,       \* the two ends
          sent,       \* the frames written, in the order of their first byte
          pending,    \* writer -> bytes its call has yet to hand to the kernel
          stream,     \* bytes the kernel holds
          expected,   \* the frame whose body is to be read; 0 for a header
          partial,    \* what read_exact has of it so far
          log,        \* what the reader made of the frames it recognised
          got,        \* those of them it acted upon: a FrameChannel's got
          short,      \* a C++ read() has returned less than it was asked for
          mixed       \* a frame has been written amid another

vars == <<link, sent, pending, stream, expected, partial, log, got, short, mixed>>

(***************************************************************************)
(* The frames.  From the client WHO stands for every request without a     *)
(* body; to the client ACK does, and WHO stands for every text of the      *)
(* server's own that is sent: lists, notices, and the refusal of a login,  *)
(* whose text the Rust server does write (main.rs:79-82).  ERROR is that   *)
(* of a session (send_error_message).  The last zeros bytes of a body are  *)
(* 0.  What the servers pass on is what they have read, so no longer than  *)
(* a header can say.                                                       *)
(***************************************************************************)
Frame(type, size, zeros) == [type |-> type, size |-> size, zeros |-> zeros]
Encrypted == {EncryptedSize(x) : x \in Texts}

FromClient == {Frame("WHO", 0, 0)}
              \cup {Frame("MESSAGE", n, z) : n \in Encrypted, z \in {0, 1}}
FromServer == {Frame("ACK", 0, 0)}
              \cup {Frame("MESSAGE", n, 0) : n \in Encrypted \cap Shorts}
              \cup {Frame("WHO", n, 0) : n \in Texts \ {0}}
              \cup {Frame("ERROR", n, 0) : n \in (Texts \cap Shorts) \ {0}}
FrameSet == FromClient \cup FromServer
Offered == IF link.from = "client" THEN FromClient ELSE FromServer

Outcomes == {"taken",     \* acted upon, with its body
             "acked",     \* acknowledged, then dropped for its size
             "nacked",    \* its body does not match: the client sends again
             "refused",   \* a message without a body
             "closed"}    \* read() of no bytes taken for the end of stream

Announces(i) == Announced(sent[i].size)

\* Mutant: the client takes an ERROR for a frame without a body.
HasBodyButErrors(i) ==
    CASE link.to = "cpp"    -> sent[i].type = "MESSAGE"
      [] link.to = "rust"   -> Announces(i) > 0
      [] link.to = "client" -> sent[i].type \in {"WHO", "MESSAGE"}

\* Which headers are followed by a body, says the reader.
HasBody(i) ==
    CASE link.to = "cpp"    -> sent[i].type = "MESSAGE"
      [] link.to = "rust"   -> Announces(i) > 0
      [] link.to = "client" -> sent[i].type \in {"ERROR", "WHO", "MESSAGE"}

\* The bytes of frame i, a frame f: send_error_message of the Rust server
\* announces a text and sends none (messaging_client.rs:22-36).
Header(i) == [p \in 1..HeaderSize |-> <<i, p>>]
Body(i, f) == [p \in 1..f.size |-> <<i, HeaderSize + p>>]
Unsent(f) == link.from = "rust" /\ f.type = "ERROR"

Init == /\ link \in Links
        /\ sent = <<>> /\ pending = [w \in Writers |-> <<>>] /\ stream = <<>>
        /\ expected = 0 /\ partial = <<>> /\ log = <<>> /\ got = <<>>
        /\ short = FALSE /\ mixed = FALSE

-------------------------------------------------------------------------------
(***************************************************************************)
(* Writing.  The kernel takes what it has room for; the rest of the call   *)
(* waits, and other threads' calls may get in between.  C++ sends a frame  *)
(* with one call (build_message), Rust with two.                           *)
(***************************************************************************)
Least(a, b) == IF a < b THEN a ELSE b
Drop(s, n) == SubSeq(s, n + 1, Len(s))

\* Mutant: send() never waits for room.
HandOverAll(w, bytes, later) ==
    /\ stream' = stream \o bytes
    /\ pending' = [pending EXCEPT ![w] = later]
    /\ UNCHANGED <<link, expected, partial, log, got, short, mixed>>

HandOver(w, bytes, later) ==
    LET n == Least(Len(bytes), Buffer - Len(stream)) IN
    /\ n > 0
    /\ stream' = stream \o SubSeq(bytes, 1, n)
    /\ pending' = [pending EXCEPT ![w] = Drop(bytes, n) \o later]
    /\ mixed' = (mixed \/ \E v \in Writers \ {w} : pending[v] # <<>>)
    /\ UNCHANGED <<link, expected, partial, log, got, short>>

Write(w, f) ==
    LET i == Len(sent) + 1 IN
    /\ pending[w] = <<>> /\ i <= MaxFrames
    /\ sent' = Append(sent, f)
    /\ \/ link.from # "rust" /\ HandOver(w, Header(i) \o Body(i, f), <<>>)
       \/ link.from = "rust"
          /\ HandOver(w, Header(i), IF Unsent(f) THEN <<>> ELSE Body(i, f))

WriteOn(w) == /\ pending[w] # <<>>
              /\ HandOver(w, pending[w], <<>>)
              /\ UNCHANGED sent

-------------------------------------------------------------------------------
(***************************************************************************)
(* Reading.                                                                *)
(***************************************************************************)
Closed == log # <<>> /\ log[Len(log)].how = "closed"

Note(i, how, body) ==
    /\ log' = Append(log, [frame |-> i, how |-> how, body |-> body])
    /\ got' = IF how = "taken" THEN Append(got, i) ELSE got

\* The bytes of a header have been read.  They are one when its sum matches,
\* that is, when they are all of one frame's; otherwise they are dropped.
HeaderRead(bytes) ==
    \/ \E i \in DOMAIN sent :
           /\ bytes = Header(i)
           /\ \/ HasBody(i) /\ expected' = i /\ UNCHANGED <<log, got>>
              \/ /\ ~HasBody(i)
                 /\ expected' = 0
                 /\ Note(i, IF sent[i].type = "MESSAGE" THEN "refused" ELSE "taken", <<>>)
    \/ /\ \A i \in DOMAIN sent : bytes # Header(i)
       /\ expected' = 0 /\ UNCHANGED <<log, got>>

\* Mutant: the data checksum is not looked at.
MatchesAnything(i, bytes) == TRUE

\* Mutant: the sum is taken over what was read only.
MatchesWhatWasRead(i, bytes) ==
    \A p \in DOMAIN bytes : bytes[p] = <<i, HeaderSize + p>>

\* The data checksum of a buffer of the announced size, of which what was not
\* read is zero, matches.
Matches(i, bytes) ==
    /\ Announces(i) = sent[i].size
    /\ \A p \in DOMAIN bytes : bytes[p] = <<i, HeaderSize + p>>
    /\ Len(bytes) + sent[i].zeros >= sent[i].size

\* The read() for the body of frame i has returned.  A server checks the sum,
\* answers, and looks at the size last; the client looks at the size only.
BodyRead(i, bytes) ==
    /\ expected' = 0
    /\ \/ /\ link.to # "client" /\ ~Matches(i, bytes)
          /\ Note(i, "nacked", bytes)
       \/ /\ link.to # "client" /\ Matches(i, bytes)
          /\ Note(i, IF Len(bytes) < Announces(i) THEN "acked" ELSE "taken", bytes)
       \/ /\ link.to = "client" /\ bytes = <<>>
          /\ Note(i, "closed", bytes)
       \/ /\ link.to = "client" /\ bytes # <<>> /\ Len(bytes) < Announces(i)
          /\ UNCHANGED <<log, got>>
       \/ /\ link.to = "client" /\ bytes # <<>> /\ Len(bytes) = Announces(i)
          /\ Note(i, "taken", bytes)

Wanted == (IF expected = 0 THEN HeaderSize ELSE Announces(expected)) - Len(partial)

Reads(n) == /\ ~Closed
            /\ n <= Len(stream) /\ n <= Wanted
            /\ stream' = Drop(stream, n)
            /\ UNCHANGED <<link, sent, pending, mixed>>

\* What read() or read_exact() has returned is a header, or a body.
Parse(bytes) == IF expected = 0 THEN HeaderRead(bytes) ELSE BodyRead(expected, bytes)

\* Mutant: a short read of a body is followed by another of full length.
ReadAgain == \E n \in 1..Len(stream) :
    /\ Reads(n) /\ link.to # "rust" /\ n < Wanted
    /\ short' = TRUE
    /\ UNCHANGED <<expected, partial, log, got>>

\* C++: one read(), which returns whatever has arrived, but something; what
\* is less than a header is dropped.
ReadShort == \E n \in 1..Len(stream) :
    /\ Reads(n) /\ link.to # "rust" /\ n < Wanted
    /\ short' = TRUE
    /\ IF expected = 0 THEN UNCHANGED <<expected, log, got>>
                       ELSE BodyRead(expected, SubSeq(stream, 1, n))
    /\ UNCHANGED partial

ReadWhole == /\ Reads(Wanted) /\ link.to # "rust"
             /\ Parse(SubSeq(stream, 1, Wanted))
             /\ UNCHANGED <<partial, short>>

\* Rust: read_exact() reads on until it has all.
ReadMore == \E n \in 1..Len(stream) :
    /\ Reads(n) /\ link.to = "rust" /\ n = Len(stream) /\ n < Wanted
    /\ partial' = partial \o SubSeq(stream, 1, n)
    /\ UNCHANGED <<expected, log, got, short>>

ReadExact == /\ Reads(Wanted) /\ link.to = "rust"
             /\ Parse(partial \o SubSeq(stream, 1, Wanted))
             /\ partial' = <<>>
             /\ UNCHANGED short

Quiet == \A w \in Writers : pending[w] = <<>>

\* Nothing is left to write or to read, or nobody reads any more.
Done == /\ Closed \/ (Len(sent) = MaxFrames /\ Quiet /\ stream = <<>>)
        /\ UNCHANGED vars

Next == \/ \E w \in Writers : WriteOn(w) \/ \E f \in Offered : Write(w, f)
        \/ ReadShort \/ ReadWhole \/ ReadMore \/ ReadExact
        \/ Done

Spec == Init /\ [][Next]_vars

-------------------------------------------------------------------------------
Bytes == (1..MaxFrames) \X Nat

FramingTypeOK ==
    /\ link \in Links
    /\ sent \in Seq(FrameSet) /\ Len(sent) <= MaxFrames
    /\ pending \in [Writers -> Seq(Bytes)]
    /\ stream \in Seq(Bytes) /\ Len(stream) <= Buffer
    /\ expected \in 0..Len(sent)
    /\ partial \in Seq(Bytes)
    /\ \A k \in DOMAIN log : /\ log[k].frame \in DOMAIN sent
                            /\ log[k].how \in Outcomes
                            /\ log[k].body \in Seq(Bytes)
    /\ got \in Seq(DOMAIN sent)
    /\ short \in BOOLEAN /\ mixed \in BOOLEAN

\* A body of 65536 bytes or more, whose header announces less ...
Wrapped == \E i \in DOMAIN sent : sent[i].size \notin Shorts
\* ... or a text that is announced and never sent.
BodyMissing == \E i \in DOMAIN sent : Unsent(sent[i])

\* Each of the ways in which the two ends get out of step.
Upset == short \/ mixed \/ Wrapped \/ BodyMissing

\* The other modules' channel of whole frames is what this one implements:
\* without a short read, a body beyond uint16_t, or two threads' frames
\* mixed, the reader gets every frame, in order; and whatever happens it
\* gets none twice, or out of order (MessagingClient.cpp:110-206,
\* Client.cpp:98-263, application_layer.rs:29-67).
Channel == INSTANCE FrameChannel
    WITH written <- Len(sent), upset <- Upset
ImplementsChannel == Channel!Spec

\* When everything written has been read, the ends are in step again: the
\* reader waits for a header, and the next frame is read from its start,
\* however badly short reads, mixed frames and lengths beyond uint16_t upset
\* the C++ ends.  The Rust server, which reads exactly, recovers from none
\* of the last two, but needs no recovering from the first.  No reader
\* recovers from a body that is not sent (messaging_client.rs:24-36).
ResumesInStep ==
    (Quiet /\ stream = <<>> /\ ~Closed) =>
        \/ expected = 0 /\ partial = <<>>
        \/ BodyMissing
        \/ link.to = "rust" /\ (mixed \/ Wrapped)

\* No message is given another's text: a server has the checksum to tell, and
\* the client, which does not look at it, gets mixed bytes only when two
\* threads' frames were mixed or a body is missing, never from short reads
\* or wrapped lengths alone (MessagingClient.cpp:178-191, Client.cpp:150-263).
BodiesAreOwn ==
    \A k \in DOMAIN log : log[k].how = "taken" =>
        \/ \A p \in DOMAIN log[k].body : log[k].body[p] = <<log[k].frame, HeaderSize + p>>
        \/ link.to = "client" /\ (mixed \/ BodyMissing)

\* What a server acknowledges it has read whole, but for zeros at the end
\* (MessagingClient.cpp:178-206); what it passes on is as long as the
\* sender's encryption made it, so that the subtraction in the receiving
\* client's decrypt does not go below zero (CryptoLayer.cpp:64-67), even
\* though a length beyond uint16_t was announced as less.
AcceptedBodies ==
    link.to # "client" =>
        \A k \in DOMAIN log :
            LET f == sent[log[k].frame]  n == Len(log[k].body) IN
            f.type = "MESSAGE" =>
                /\ log[k].how \in {"taken", "acked"} => n + f.zeros >= f.size
                /\ log[k].how = "taken" => DecryptedSize(n) \in Texts
===============================================================================
