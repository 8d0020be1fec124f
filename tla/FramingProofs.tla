----------------------------- MODULE FramingProofs -----------------------------
(***************************************************************************)
(* The properties of Framing, for any lengths, any buffer and any number   *)
(* of writers and frames, and that Framing implements FrameChannel.        *)
(***************************************************************************)
EXTENDS Framing, MessageHeaderProofs, SequenceTheorems

(***************************************************************************)
(* The inductive invariant, part by part.                                  *)
(***************************************************************************)

\* The bytes of a frame that are sent at all.
Extent(f) == HeaderSize + (IF Unsent(f) THEN 0 ELSE f.size)
Size(i) == Extent(sent[i])

\* q is what is left of a frame of s bytes, the i-th.
Rest(q, i, s) == /\ Len(q) <= s
                 /\ \A k \in DOMAIN q : q[k] = <<i, s - Len(q) + k>>

\* The bytes of the frame, or of the header, that is being read.
Target == IF expected = 0 THEN HeaderSize ELSE Announces(expected)

\* Types, and what is true of them: a body is read only where the reader
\* says there is one, and only read_exact keeps part of it.
Typed == /\ FramingTypeOK
         /\ sent \in Seq(Offered)
         /\ log \in Seq([frame : Nat, how : Outcomes, body : Seq(Bytes)])
         /\ expected # 0 => HasBody(expected)
         /\ partial # <<>> => link.to = "rust" /\ Len(partial) < Target

\* The reader's bytes not yet made anything of.
Unread == partial \o stream

\* Every byte is one of a frame that has been written, and what is left of a
\* call is the end of a frame, and never the whole of one.
Genuine == \A k \in DOMAIN Unread :
    \E i \in DOMAIN sent : \E p \in 1..Size(i) : Unread[k] = <<i, p>>
OnTheWay == \A w \in Writers : pending[w] # <<>> =>
    \E i \in DOMAIN sent : Len(pending[w]) < Size(i) /\ Rest(pending[w], i, Size(i))

\* Byte b comes after the k-th byte of the stream.
Coming(b, k) == \/ \E m \in DOMAIN stream : m > k /\ stream[m] = b
                \/ \E w \in Writers : pending[w] # <<>> /\ pending[w][1] = b

\* However frames are mixed, each byte is followed by the next of its frame,
\* some time; so is the header that has just been read.
Followed == \A k \in DOMAIN stream, i \in DOMAIN sent, p \in Nat :
    stream[k] = <<i, p>> /\ p < Size(i) => Coming(<<i, p + 1>>, k)
BodyComes == \A i \in DOMAIN sent :
    link.to # "rust" /\ expected = i /\ HeaderSize < Size(i) =>
        Coming(<<i, HeaderSize + 1>>, 0)

\* The first bytes of frames come in the order of the frames, and none comes
\* that is not later than the last frame recognised.
LastGot == IF got = <<>> THEN 0 ELSE got[Len(got)]
HeadsInOrder ==
    /\ \A k, m \in DOMAIN Unread : \A i, j \in DOMAIN sent :
           k < m /\ Unread[k] = <<i, 1>> /\ Unread[m] = <<j, 1>> => i < j
    /\ \A k \in DOMAIN Unread : \A i \in DOMAIN sent :
           Unread[k] = <<i, 1>> => i > LastGot /\ i > expected
    /\ expected # 0 => expected > LastGot

\* What the one writer has yet to hand over, and all that the reader will
\* find of the frames written so far.
Rests(calls) == IF \A w \in Writers : calls[w] = <<>> THEN <<>>
                ELSE calls[CHOOSE w \in Writers : calls[w] # <<>>]
Backlog == Rests(pending)
Whole == Unread \o Backlog

\* Unless frames have been mixed, these are whole frames in order, after
\* whatever the first byte belongs to.
Alone == \A v, w \in Writers : pending[v] # <<>> /\ pending[w] # <<>> => v = w
Unbroken == \A k \in DOMAIN Whole, i \in DOMAIN sent, p \in Nat, m \in Nat :
    Whole[k] = <<i, p>> /\ p + m <= Size(i) =>
        k + m <= Len(Whole) /\ Whole[k + m] = <<i, p + m>>
InARow == \A k \in DOMAIN Whole, i \in DOMAIN sent :
    Whole[k] = <<i, Size(i)>> =>
        IF k = Len(Whole) THEN i = Len(sent) ELSE Whole[k + 1] = <<i + 1, 1>>
Unmixed == ~mixed => Alone /\ Unbroken /\ InARow

\* The client finds the body of the header it has read, a body that is sent;
\* the Rust server finds headers, too, when lengths fit.
BodyIsNext == Whole # <<>> /\ Whole[1] = <<expected, HeaderSize + 1>>
ClientInStep == link.to = "client" /\ ~mixed /\ ~BodyMissing /\ expected # 0 => BodyIsNext
RustInStep == link.to = "rust" /\ ~mixed /\ ~Wrapped =>
    IF expected = 0 THEN Whole = <<>> \/ \E i \in DOMAIN sent : Whole[1] = <<i, 1>>
                    ELSE BodyIsNext

\* A channel that is not upset has handed over all frames up to the next.
InStep == ~Upset =>
    /\ \A k \in DOMAIN got : got[k] = k
    /\ IF expected = 0
       THEN IF Whole = <<>> THEN Len(got) = Len(sent)
                            ELSE Whole[1] = <<Len(got) + 1, 1>>
       ELSE expected = Len(got) + 1 /\ BodyIsNext

-------------------------------------------------------------------------------
(***************************************************************************)
(* Sequences.                                                              *)
(***************************************************************************)
USE FramingAssumption

LEMMA DropIs ==
    ASSUME NEW S, NEW s \in Seq(S), NEW n \in 0..Len(s)
    PROVE  /\ Drop(s, n) \in Seq(S) /\ Len(Drop(s, n)) = Len(s) - n
           /\ \A k \in 1..(Len(s) - n) : Drop(s, n)[k] = s[n + k]
BY SMTT(30) DEF Drop

LEMMA FirstIs ==
    ASSUME NEW S, NEW s \in Seq(S), NEW n \in 0..Len(s)
    PROVE  /\ SubSeq(s, 1, n) \in Seq(S) /\ Len(SubSeq(s, 1, n)) = n
           /\ \A k \in 1..n : SubSeq(s, 1, n)[k] = s[k]
BY SMTT(30)

LEMMA JoinIs ==
    ASSUME NEW S, NEW s \in Seq(S), NEW t \in Seq(S)
    PROVE  /\ s \o t \in Seq(S) /\ Len(s \o t) = Len(s) + Len(t)
           /\ \A k \in 1..Len(s) : (s \o t)[k] = s[k]
           /\ \A k \in 1..Len(t) : (s \o t)[Len(s) + k] = t[k]
BY SMTT(30)

LEMMA AppendIs ==
    ASSUME NEW S, NEW s \in Seq(S), NEW e \in S
    PROVE  /\ Append(s, e) \in Seq(S) /\ Len(Append(s, e)) = Len(s) + 1
           /\ DOMAIN Append(s, e) = 1..(Len(s) + 1)
           /\ \A k \in 1..Len(s) : Append(s, e)[k] = s[k]
           /\ Append(s, e)[Len(s) + 1] = e
OBVIOUS

\* The first n of q, handed on after s.
LEMMA HandedOn ==
    ASSUME NEW S, NEW s \in Seq(S), NEW q \in Seq(S), NEW n \in 0..Len(q)
    PROVE  /\ s \o SubSeq(q, 1, n) \in Seq(S)
           /\ Len(s \o SubSeq(q, 1, n)) = Len(s) + n
           /\ \A k \in 1..Len(s) : (s \o SubSeq(q, 1, n))[k] = s[k]
           /\ \A k \in 1..n : (s \o SubSeq(q, 1, n))[Len(s) + k] = q[k]
<1> PICK a \in Seq(S) : /\ a = SubSeq(q, 1, n) /\ Len(a) = n
                        /\ \A k \in 1..n : a[k] = q[k]
  BY FirstIs
<1>1. /\ s \o a \in Seq(S) /\ Len(s \o a) = Len(s) + Len(a)
      /\ \A k \in 1..Len(s) : (s \o a)[k] = s[k]
      /\ \A k \in 1..Len(a) : (s \o a)[Len(s) + k] = a[k]
  BY JoinIs
<1> QED  BY <1>1

\* What is handed over and what is kept back of q are q.
LEMMA Rejoined ==
    ASSUME NEW S, NEW s \in Seq(S), NEW q \in Seq(S), NEW n \in 0..Len(q)
    PROVE  (s \o SubSeq(q, 1, n)) \o Drop(q, n) = s \o q
<1> DEFINE a == SubSeq(q, 1, n)
           b == Drop(q, n)
<1>1. /\ a \in Seq(S) /\ Len(a) = n /\ \A k \in 1..n : a[k] = q[k]
      /\ b \in Seq(S) /\ Len(b) = Len(q) - n /\ \A k \in 1..(Len(q) - n) : b[k] = q[n + k]
  BY DropIs, FirstIs
<1> HIDE DEF a, b
<1>2. a \o b = q
  <2>1. a \o b \in Seq(S) /\ Len(a \o b) = Len(q)
    <3>1. a \o b \in Seq(S) /\ Len(a \o b) = Len(a) + Len(b)
      BY <1>1, JoinIs
    <3> QED  BY <1>1, <3>1
  <2>2. ASSUME NEW k \in 1..Len(a \o b) PROVE (a \o b)[k] = q[k]
    <3>1. CASE k <= n
      BY <1>1, <2>1, <3>1, JoinIs
    <3>2. CASE k > n
      <4> DEFINE j == k - n
      <4>1. j \in 1..Len(b) /\ k = Len(a) + j /\ k = n + j
        BY <1>1, <2>1, <3>2
      <4>2. (a \o b)[k] = b[j] /\ b[j] = q[n + j]
        <5> HIDE DEF j
        <5>1. (a \o b)[Len(a) + j] = b[j]
          BY <1>1, <4>1, JoinIs
        <5> QED  BY <1>1, <4>1, <5>1
      <4> QED  BY <4>1, <4>2
    <3> QED  BY <3>1, <3>2
  <2> QED  BY <2>1, <2>2, SeqEqual
<1>3. (s \o a) \o b = s \o (a \o b)
  BY <1>1, ConcatAssociative
<1> QED  BY <1>2, <1>3 DEF a, b

\* Reading n bytes of t after s is reading Len(s) + n bytes of both.
LEMMA ReadOff ==
    ASSUME NEW S, NEW s \in Seq(S), NEW t \in Seq(S), NEW u \in Seq(S),
           NEW n \in 0..Len(t)
    PROVE  /\ Drop(t, n) \o u = Drop((s \o t) \o u, Len(s) + n)
           /\ s \o SubSeq(t, 1, n) = SubSeq((s \o t) \o u, 1, Len(s) + n)
<1> DEFINE all == (s \o t) \o u
           m == Len(s) + n
<1>1. /\ all \in Seq(S) /\ Len(all) = Len(s) + Len(t) + Len(u)
      /\ \A k \in 1..Len(s) : all[k] = s[k]
      /\ \A k \in 1..Len(t) : all[Len(s) + k] = t[k]
      /\ \A k \in 1..Len(u) : all[Len(s) + Len(t) + k] = u[k]
  BY JoinIs, SMTT(30)
<1>2. m \in 0..Len(all)
  BY <1>1
<1>3. /\ Drop(all, m) \in Seq(S) /\ Len(Drop(all, m)) = Len(all) - m
      /\ \A k \in 1..(Len(all) - m) : Drop(all, m)[k] = all[m + k]
      /\ SubSeq(all, 1, m) \in Seq(S) /\ Len(SubSeq(all, 1, m)) = m
      /\ \A k \in 1..m : SubSeq(all, 1, m)[k] = all[k]
  <2> HIDE DEF all, m
  <2>1. all \in Seq(S)
    BY <1>1
  <2>2. /\ Drop(all, m) \in Seq(S) /\ Len(Drop(all, m)) = Len(all) - m
        /\ \A k \in 1..(Len(all) - m) : Drop(all, m)[k] = all[m + k]
    BY <2>1, <1>2, DropIs
  <2>3. /\ SubSeq(all, 1, m) \in Seq(S) /\ Len(SubSeq(all, 1, m)) = m
        /\ \A k \in 1..m : SubSeq(all, 1, m)[k] = all[k]
    BY <2>1, <1>2, FirstIs
  <2> QED  BY <2>2, <2>3
<1>4. /\ Drop(t, n) \in Seq(S) /\ Len(Drop(t, n)) = Len(t) - n
      /\ \A k \in 1..(Len(t) - n) : Drop(t, n)[k] = t[n + k]
      /\ SubSeq(t, 1, n) \in Seq(S) /\ Len(SubSeq(t, 1, n)) = n
      /\ \A k \in 1..n : SubSeq(t, 1, n)[k] = t[k]
  BY DropIs, FirstIs
<1>5. Drop(t, n) \o u = Drop(all, m)
  <2> DEFINE d == Drop(t, n)
             e == Drop(all, m)
  <2>1. d \o u \in Seq(S) /\ Len(d \o u) = Len(e) /\ e \in Seq(S)
    BY <1>1, <1>3, <1>4, JoinIs
  <2>2. ASSUME NEW k \in 1..Len(d \o u) PROVE (d \o u)[k] = e[k]
    <3>1. CASE k <= Len(t) - n
      <4>1. (d \o u)[k] = d[k]
        BY <1>4, <3>1, JoinIs
      <4>2. d[k] = t[n + k] /\ n + k \in 1..Len(t)
        BY <1>4, <3>1
      <4>3. all[Len(s) + (n + k)] = t[n + k] /\ m + k = Len(s) + (n + k)
        BY <1>1, <4>2
      <4>4. k \in 1..(Len(all) - m)
        BY <1>3, <2>1
      <4>5. e[k] = all[m + k]
        BY <1>3, <4>4
      <4> QED  BY <4>1, <4>2, <4>3, <4>5
    <3>2. CASE k > Len(t) - n
      <4> DEFINE j == k - (Len(t) - n)
      <4>1. j \in 1..Len(u) /\ k = Len(d) + j
        BY <1>4, <2>1, <3>2, <1>1, <1>3
      <4>2. (d \o u)[k] = u[j]
        BY <1>4, <4>1, JoinIs
      <4>3. m + k = Len(s) + Len(t) + j
        OBVIOUS
      <4>4. k \in 1..(Len(all) - m)
        BY <1>3, <2>1
      <4>5. e[k] = all[m + k] /\ all[m + k] = u[j]
        <5> HIDE DEF all, j
        <5> QED  BY <1>1, <1>3, <4>1, <4>3, <4>4
      <4> QED  BY <4>2, <4>5
    <3> QED  BY <3>1, <3>2
  <2> QED  BY <2>1, <2>2, SeqEqual
<1>6. s \o SubSeq(t, 1, n) = SubSeq(all, 1, m)
  <2> DEFINE d == SubSeq(t, 1, n)
             e == SubSeq(all, 1, m)
  <2>1. s \o d \in Seq(S) /\ Len(s \o d) = Len(e) /\ e \in Seq(S)
    <3> HIDE DEF all
    <3>1. s \o d \in Seq(S) /\ Len(s \o d) = Len(s) + Len(d)
      BY <1>4, JoinIs
    <3> QED  BY <3>1, <1>3, <1>4
  <2>2. ASSUME NEW k \in 1..Len(s \o d) PROVE (s \o d)[k] = e[k]
    <3>1. CASE k <= Len(s)
      BY <1>1, <1>3, <1>4, <2>1, <3>1, JoinIs
    <3>2. CASE k > Len(s)
      <4> DEFINE j == k - Len(s)
      <4>1. j \in 1..Len(d) /\ k = Len(s) + j
        BY <2>1, <3>2, <1>4, JoinIs
      <4>2. (s \o d)[k] = d[j] /\ d[j] = t[j]
        BY <1>4, <4>1, JoinIs
      <4> QED  BY <1>1, <1>3, <1>4, <4>1, <4>2
    <3> QED  BY <3>1, <3>2
  <2> QED  BY <2>1, <2>2, SeqEqual
<1> QED  BY <1>5, <1>6

-------------------------------------------------------------------------------
(***************************************************************************)
(* Frames.                                                                 *)
(***************************************************************************)
LEMMA EncryptedSizes == \A n \in Encrypted : n \in Nat \ {0} /\ DecryptedSize(n) \in Texts
BY HeaderAssumption DEF Encrypted, EncryptedSize, DecryptedSize

LEMMA Ends ==
    ASSUME link \in Links
    PROVE  /\ link.to \in {"client", "cpp", "rust"} /\ link.from \in {"client", "cpp", "rust"}
           /\ link.to # "client" <=> link.from = "client"
BY DEF AllLinks

\* What the frames offered are like.
LEMMA Frames ==
    ASSUME link \in Links, NEW f \in Offered
    PROVE  /\ f \in FrameSet
           /\ f.type \in {"WHO", "MESSAGE", "ACK", "ERROR"}
           /\ f.size \in Nat /\ f.zeros \in Nat
           /\ f.type = "MESSAGE" => f.size \in Encrypted /\ f.size > 0
           /\ link.to = "client" /\ f.type # "ACK" => f.size > 0
           /\ link.to # "client" /\ f.type # "MESSAGE" => f.size = 0
           /\ f.type = "ACK" => f.size = 0
           /\ Extent(f) \in Nat /\ HeaderSize <= Extent(f)
           /\ Unsent(f) => Extent(f) = HeaderSize /\ link.to = "client"
           /\ ~Unsent(f) => Extent(f) = HeaderSize + f.size
<1>1. CASE link.from = "client"
  <2>1. f \in FromClient
    BY <1>1 DEF Offered
  <2>2. /\ f.type \in {"WHO", "MESSAGE"} /\ f.size \in Nat /\ f.zeros \in Nat
        /\ f.type = "MESSAGE" => f.size \in Encrypted /\ f.size > 0
        /\ f.type # "MESSAGE" => f.size = 0
    BY <2>1, EncryptedSizes DEF FromClient, Frame
  <2> QED  BY <1>1, <2>1, <2>2, Ends DEF FrameSet, Extent, Unsent
<1>2. CASE link.from # "client"
  <2>1. f \in FromServer
    BY <1>2 DEF Offered
  <2>2. /\ f.type \in {"WHO", "MESSAGE", "ACK", "ERROR"}
        /\ f.size \in Nat /\ f.zeros \in Nat
        /\ f.type = "MESSAGE" => f.size \in Encrypted /\ f.size > 0
        /\ f.type # "ACK" => f.size > 0
        /\ f.type = "ACK" => f.size = 0
    BY <2>1, EncryptedSizes DEF FromServer, Frame
  <2> QED  BY <1>2, <2>1, <2>2, Ends DEF FrameSet, Extent, Unsent
<1> QED  BY <1>1, <1>2

\* What their headers announce: no more than there is.
LEMMA Announcements ==
    ASSUME Typed, NEW i \in DOMAIN sent
    PROVE  /\ sent[i] \in Offered /\ i \in Nat \ {0}
           /\ Announces(i) \in Nat /\ Announces(i) <= sent[i].size
           /\ ~Wrapped => Announces(i) = sent[i].size
           /\ HasBody(i) /\ link.to # "rust" => sent[i].size > 0
           /\ HasBody(i) /\ link.to = "rust" => Announces(i) > 0
<1>1. sent[i] \in Offered /\ i \in Nat \ {0}
  BY DEF Typed
<1>2. link \in Links
  BY DEF Typed, FramingTypeOK
<1>3. sent[i].size \in Nat
  BY <1>1, <1>2, Frames
<1>4. /\ Announces(i) \in Nat /\ Announces(i) <= sent[i].size
      /\ sent[i].size \in Shorts => Announces(i) = sent[i].size
  BY <1>3, ShortLengthsAreAnnounced, HeaderAssumption DEF Announces, Shorts, Range16
<1>5. HasBody(i) /\ link.to # "rust" => sent[i].size > 0
  BY <1>1, <1>2, Ends, Frames DEF HasBody
<1>6. HasBody(i) /\ link.to = "rust" => Announces(i) > 0
  BY DEF HasBody
<1> QED  BY <1>1, <1>4, <1>5, <1>6 DEF Wrapped

-------------------------------------------------------------------------------
(***************************************************************************)
(* The steps, each as what it does to the sequences: a writer hands over   *)
(* some of q, of which it had yet to write all, or which is a new frame;   *)
(* a reader takes n bytes, and makes something of them or keeps them.      *)
(***************************************************************************)
Handing(w, q, n) ==
    /\ n \in 1..Len(q)
    /\ Len(stream) + n <= Buffer
    /\ stream' = stream \o SubSeq(q, 1, n)
    /\ pending' = [pending EXCEPT ![w] = Drop(q, n)]
    /\ mixed' = (mixed \/ \E v \in Writers \ {w} : pending[v] # <<>>)
    /\ UNCHANGED <<link, expected, partial, log, got, short>>

Resumed(w, q) == q = pending[w] /\ q # <<>> /\ sent' = sent
Begun(w, q, f) == /\ pending[w] = <<>> /\ Len(sent) < MaxFrames
                  /\ sent' = Append(sent, f)
                  /\ Len(q) = Extent(f) /\ Rest(q, Len(sent) + 1, Extent(f))

Bit(n) == partial \o SubSeq(stream, 1, n)

Taking(n) == /\ n \in 0..Len(stream) /\ stream' = Drop(stream, n)
             /\ UNCHANGED <<link, sent, pending, mixed>>

Kept(n) == /\ Taking(n) /\ link.to = "rust" /\ partial' = Bit(n)
           /\ Len(Bit(n)) < Target
           /\ UNCHANGED <<expected, log, got, short>>

\* A header, nothing, or a body, is what has been read.
Found(n, i) ==
    /\ Taking(n) /\ partial' = <<>> /\ expected = 0 /\ short' = short
    /\ i \in DOMAIN sent /\ Bit(n) = Header(i)
    /\ \/ HasBody(i) /\ expected' = i /\ UNCHANGED <<log, got>>
       \/ /\ ~HasBody(i)
          /\ expected' = 0
          /\ Note(i, IF sent[i].type = "MESSAGE" THEN "refused" ELSE "taken", <<>>)

Missed(n) ==
    /\ Taking(n) /\ partial' = <<>> /\ expected = 0 /\ expected' = 0
    /\ UNCHANGED <<log, got>>
    /\ \/ short' /\ link.to # "rust"
       \/ /\ Len(Bit(n)) = HeaderSize /\ \A i \in DOMAIN sent : Bit(n) # Header(i)
          /\ short' = short

Filled(n) ==
    /\ Taking(n) /\ partial' = <<>> /\ expected # 0
    /\ BodyRead(expected, Bit(n))
    /\ \/ Len(Bit(n)) = Announces(expected) /\ short' = short
       \/ Len(Bit(n)) < Announces(expected) /\ short' = TRUE /\ link.to # "rust"

LEMMA HandingOver ==
    ASSUME Typed, NEW w \in Writers, NEW bytes \in Seq(Bytes), NEW later \in Seq(Bytes),
           HandOver(w, bytes, later)
    PROVE  \E n \in 1..Len(bytes) : Handing(w, bytes \o later, n)
<1> DEFINE n == Least(Len(bytes), Buffer - Len(stream))
           q == bytes \o later
<1>1. /\ n > 0
      /\ stream' = stream \o SubSeq(bytes, 1, n)
      /\ pending' = [pending EXCEPT ![w] = Drop(bytes, n) \o later]
      /\ mixed' = (mixed \/ \E v \in Writers \ {w} : pending[v] # <<>>)
      /\ UNCHANGED <<link, expected, partial, log, got, short>>
  BY DEF HandOver
<1>2. Len(stream) \in Nat /\ Len(stream) <= Buffer /\ Buffer \in Nat
  BY DEF Typed, FramingTypeOK
<1>3. n \in 1..Len(bytes) /\ Len(stream) + n <= Buffer
  BY <1>1, <1>2 DEF Least
<1>4. <<>> \in Seq(Bytes)
  BY EmptySeq
<1>5. /\ Drop(bytes, n) \o later = Drop(q, n)
      /\ SubSeq(bytes, 1, n) = SubSeq(q, 1, n)
  <2> HIDE DEF n
  <2>1. /\ Drop(bytes, n) \o later = Drop((<<>> \o bytes) \o later, Len(<<>>) + n)
        /\ <<>> \o SubSeq(bytes, 1, n) = SubSeq((<<>> \o bytes) \o later, 1, Len(<<>>) + n)
    <3> DEFINE e == <<>>
    <3>1. n \in 0..Len(bytes) /\ e \in Seq(Bytes)
      BY <1>3, <1>4
    <3> HIDE DEF e
    <3>2. /\ Drop(bytes, n) \o later = Drop((e \o bytes) \o later, Len(e) + n)
          /\ e \o SubSeq(bytes, 1, n) = SubSeq((e \o bytes) \o later, 1, Len(e) + n)
      BY ONLY <3>1, bytes \in Seq(Bytes), later \in Seq(Bytes), ReadOff
    <3> QED  BY <3>2 DEF e
  <2>2. SubSeq(bytes, 1, n) \in Seq(Bytes)
    BY <1>3, FirstIs
  <2>3. <<>> \o bytes = bytes /\ <<>> \o SubSeq(bytes, 1, n) = SubSeq(bytes, 1, n)
    BY <2>2, ConcatEmptySeq
  <2>4. Len(<<>>) + n = n
    BY <1>3, EmptySeq
  <2> QED  BY <2>1, <2>3, <2>4
<1>6. n \in 1..Len(q)
  BY <1>3, JoinIs
<1> HIDE DEF n, q
<1>7. Handing(w, q, n)
  BY <1>1, <1>3, <1>5, <1>6 DEF Handing
<1> QED  BY <1>3, <1>7 DEF q

\* All of a frame, as it is handed over.
LEMMA WholeFrame ==
    ASSUME link \in Links, NEW f \in Offered, NEW i \in 1..MaxFrames
    PROVE  /\ Header(i) \in Seq(Bytes) /\ Body(i, f) \in Seq(Bytes)
           /\ Len(Header(i)) = HeaderSize
           /\ Len(Header(i) \o Body(i, f)) = HeaderSize + f.size
           /\ Rest(Header(i) \o Body(i, f), i, HeaderSize + f.size)
           /\ Rest(Header(i) \o <<>>, i, HeaderSize) /\ Len(Header(i) \o <<>>) = HeaderSize
<1>1. f.size \in Nat
  BY Frames
<1>2. /\ Header(i) \in Seq(Bytes) /\ Len(Header(i)) = HeaderSize
      /\ \A k \in 1..HeaderSize : Header(i)[k] = <<i, k>>
  BY DEF Header, Bytes
<1>3. /\ Body(i, f) \in Seq(Bytes) /\ Len(Body(i, f)) = f.size
      /\ \A k \in 1..f.size : Body(i, f)[k] = <<i, HeaderSize + k>>
  BY <1>1 DEF Body, Bytes
<1>4. Header(i) \o <<>> = Header(i)
  BY <1>2, ConcatEmptySeq
<1>5. Rest(Header(i), i, HeaderSize)
  <2>1. ASSUME NEW k \in DOMAIN Header(i)
        PROVE  Header(i)[k] = <<i, HeaderSize - Len(Header(i)) + k>>
    <3>1. k \in 1..HeaderSize
      BY <1>2
    <3>2. HeaderSize - Len(Header(i)) + k = k
      BY <1>2, <3>1
    <3> QED  BY <1>2, <3>1, <3>2
  <2> QED  BY <1>2, <2>1 DEF Rest
<1> DEFINE q == Header(i) \o Body(i, f)
<1>6. q \in Seq(Bytes) /\ Len(q) = HeaderSize + f.size
  <2>1. q \in Seq(Bytes) /\ Len(q) = Len(Header(i)) + Len(Body(i, f))
    BY <1>2, <1>3, JoinIs
  <2> QED  BY <1>2, <1>3, <2>1
<1>7. ASSUME NEW k \in 1..Len(q) PROVE q[k] = <<i, k>>
  <2>1. CASE k <= HeaderSize
    BY <1>2, <1>3, <2>1, JoinIs
  <2>2. CASE k > HeaderSize
    <3> DEFINE j == k - HeaderSize
    <3>1. j \in 1..f.size /\ k = HeaderSize + j
      BY <1>1, <1>6, <2>2
    <3>2. q[Len(Header(i)) + j] = Body(i, f)[j]
      BY <1>2, <1>3, <3>1, JoinIs
    <3> QED  BY <1>2, <1>3, <3>1, <3>2
  <2> QED  BY <2>1, <2>2
<1>8. Rest(q, i, HeaderSize + f.size)
  <2> DEFINE s == HeaderSize + f.size
  <2>1. ASSUME NEW k \in DOMAIN q PROVE q[k] = <<i, s - Len(q) + k>>
    <3>1. k \in 1..Len(q)
      BY <1>6
    <3>2. s - Len(q) + k = k
      BY <1>1, <1>6, <3>1
    <3> QED  BY <1>7, <3>1, <3>2
  <2>2. Len(q) <= s
    BY <1>1, <1>6
  <2> QED  BY <2>1, <2>2 DEF Rest
<1> QED  BY <1>2, <1>3, <1>4, <1>5, <1>6, <1>8

\* Every step of a writer hands over.
LEMMA WriterSteps ==
    ASSUME Typed, NEW w \in Writers, WriteOn(w) \/ \E f \in Offered : Write(w, f)
    PROVE  \E q \in Seq(Bytes), n \in Nat :
               /\ Handing(w, q, n)
               /\ Resumed(w, q) \/ \E f \in Offered : Begun(w, q, f)
<1>1. CASE WriteOn(w)
  <2>1. pending[w] \in Seq(Bytes) /\ pending[w] # <<>> /\ sent' = sent
    BY <1>1 DEF WriteOn, Typed, FramingTypeOK
  <2>2. <<>> \in Seq(Bytes) /\ pending[w] \o <<>> = pending[w]
    BY <2>1, EmptySeq, ConcatEmptySeq
  <2>3. PICK n \in 1..Len(pending[w]) : Handing(w, pending[w] \o <<>>, n)
    BY <1>1, <2>1, <2>2, HandingOver DEF WriteOn
  <2> QED  BY <2>1, <2>2, <2>3 DEF Resumed
<1>2. ASSUME NEW f \in Offered, Write(w, f)
      PROVE  \E q \in Seq(Bytes), n \in Nat : Handing(w, q, n) /\ Begun(w, q, f)
  <2> DEFINE i == Len(sent) + 1
  <2>1. /\ pending[w] = <<>> /\ i <= MaxFrames /\ sent' = Append(sent, f)
        /\ \/ link.from # "rust" /\ HandOver(w, Header(i) \o Body(i, f), <<>>)
           \/ /\ link.from = "rust"
              /\ HandOver(w, Header(i), IF Unsent(f) THEN <<>> ELSE Body(i, f))
    BY <1>2 DEF Write
  <2>2. i \in 1..MaxFrames /\ Len(sent) < MaxFrames /\ link \in Links
    BY <2>1 DEF Typed, FramingTypeOK
  <2> HIDE DEF i
  <2>3. /\ Header(i) \in Seq(Bytes) /\ Body(i, f) \in Seq(Bytes)
        /\ Len(Header(i) \o Body(i, f)) = HeaderSize + f.size
        /\ Rest(Header(i) \o Body(i, f), i, HeaderSize + f.size)
        /\ Rest(Header(i) \o <<>>, i, HeaderSize) /\ Len(Header(i) \o <<>>) = HeaderSize
    BY <2>2, WholeFrame
  <2>4. /\ Header(i) \o Body(i, f) \in Seq(Bytes) /\ <<>> \in Seq(Bytes)
        /\ Header(i) \o <<>> \in Seq(Bytes)
        /\ (Header(i) \o Body(i, f)) \o <<>> = Header(i) \o Body(i, f)
    BY <2>3, JoinIs, EmptySeq, ConcatEmptySeq
  <2>5. CASE Unsent(f)
    <3>1. HandOver(w, Header(i), <<>>)
      BY <2>1, <2>5 DEF Unsent
    <3>2. PICK n \in 1..Len(Header(i)) : Handing(w, Header(i) \o <<>>, n)
      BY <2>3, <2>4, <3>1, HandingOver
    <3>3. Begun(w, Header(i) \o <<>>, f)
      BY <2>1, <2>2, <2>3, <2>5 DEF Begun, Extent, i
    <3> QED  BY <2>4, <3>2, <3>3
  <2>6. CASE ~Unsent(f)
    <3>1. Begun(w, Header(i) \o Body(i, f), f)
      BY <2>1, <2>2, <2>3, <2>6 DEF Begun, Extent, i
    <3>2. CASE link.from = "rust"
      <4>1. HandOver(w, Header(i), Body(i, f))
        BY <2>1, <2>6, <3>2
      <4>2. PICK n \in 1..Len(Header(i)) : Handing(w, Header(i) \o Body(i, f), n)
        BY <2>3, <4>1, HandingOver
      <4>3. n \in Nat
        OBVIOUS
      <4> QED  BY <2>4, <3>1, <4>2, <4>3
    <3>3. CASE link.from # "rust"
      <4>1. HandOver(w, Header(i) \o Body(i, f), <<>>)
        BY <2>1, <3>3
      <4>2. PICK n \in 1..Len(Header(i) \o Body(i, f)) :
                Handing(w, (Header(i) \o Body(i, f)) \o <<>>, n)
        BY <2>4, <4>1, HandingOver
      <4>3. n \in Nat
        OBVIOUS
      <4> QED  BY <2>4, <3>1, <4>2, <4>3
    <3> QED  BY <3>2, <3>3
  <2> QED  BY <2>5, <2>6
<1> QED  BY <1>1, <1>2

LEMMA Targets ==
    ASSUME Typed
    PROVE  /\ Target \in Nat /\ Wanted = Target - Len(partial)
           /\ partial \in Seq(Bytes) /\ stream \in Seq(Bytes)
           /\ Len(partial) \in Nat /\ Len(stream) \in Nat
           /\ expected \in Nat /\ Len(sent) \in Nat /\ DOMAIN sent = 1..Len(sent)
           /\ expected # 0 => expected \in DOMAIN sent /\ Target = Announces(expected)
           /\ expected = 0 => Target = HeaderSize
           /\ link.to # "rust" => partial = <<>>
           /\ partial # <<>> => Len(partial) < Target
<1>1. /\ partial \in Seq(Bytes) /\ stream \in Seq(Bytes) /\ sent \in Seq(FrameSet)
      /\ expected \in 0..Len(sent)
  BY DEF Typed, FramingTypeOK
<1>2. expected # 0 => expected \in DOMAIN sent
  BY <1>1
<1>3. Target \in Nat
  BY <1>2, Announcements DEF Target
<1> QED  BY <1>1, <1>2, <1>3 DEF Wanted, Target, Typed

LEMMA Bits ==
    ASSUME Typed, NEW n \in 0..Len(stream)
    PROVE  /\ Bit(n) \in Seq(Bytes) /\ Len(Bit(n)) = Len(partial) + n
           /\ Unread \in Seq(Bytes) /\ Len(Unread) = Len(partial) + Len(stream)
           /\ \A k \in 1..Len(Bit(n)) : Bit(n)[k] = Unread[k]
           /\ Drop(stream, n) \in Seq(Bytes) /\ Len(Drop(stream, n)) = Len(stream) - n
           /\ \A k \in 1..Len(Drop(stream, n)) : Drop(stream, n)[k] = Unread[Len(Bit(n)) + k]
           /\ partial = <<>> => Bit(n) = SubSeq(stream, 1, n)
<1>1. partial \in Seq(Bytes) /\ stream \in Seq(Bytes)
  BY Targets
<1>2. /\ SubSeq(stream, 1, n) \in Seq(Bytes) /\ Len(SubSeq(stream, 1, n)) = n
      /\ \A k \in 1..n : SubSeq(stream, 1, n)[k] = stream[k]
      /\ Drop(stream, n) \in Seq(Bytes) /\ Len(Drop(stream, n)) = Len(stream) - n
      /\ \A k \in 1..(Len(stream) - n) : Drop(stream, n)[k] = stream[n + k]
  BY <1>1, FirstIs, DropIs
<1> DEFINE a == SubSeq(stream, 1, n)
<1>3. /\ Bit(n) \in Seq(Bytes) /\ Len(Bit(n)) = Len(partial) + Len(a)
      /\ \A k \in 1..Len(partial) : Bit(n)[k] = partial[k]
      /\ \A k \in 1..Len(a) : Bit(n)[Len(partial) + k] = a[k]
  BY <1>1, <1>2, JoinIs DEF Bit
<1>4. /\ Unread \in Seq(Bytes) /\ Len(Unread) = Len(partial) + Len(stream)
      /\ \A k \in 1..Len(partial) : Unread[k] = partial[k]
      /\ \A k \in 1..Len(stream) : Unread[Len(partial) + k] = stream[k]
  BY <1>1, JoinIs DEF Unread
<1>5. ASSUME NEW k \in 1..Len(Bit(n)) PROVE Bit(n)[k] = Unread[k]
  <2>1. CASE k <= Len(partial)
    BY <1>1, <1>3, <1>4, <2>1
  <2>2. CASE k > Len(partial)
    <3>1. PICK j \in 1..n : k = Len(partial) + j
      <4>1. k - Len(partial) \in 1..n
        BY <1>1, <1>2, <1>3, <2>2
      <4> QED  BY <1>1, <4>1
    <3> QED  BY <1>1, <1>2, <1>3, <1>4, <3>1
  <2> QED  BY <1>1, <2>1, <2>2
<1>6. ASSUME NEW k \in 1..Len(Drop(stream, n))
      PROVE  Drop(stream, n)[k] = Unread[Len(Bit(n)) + k]
  <2>1. Drop(stream, n)[k] = stream[n + k] /\ n + k \in 1..Len(stream)
    BY <1>2
  <2>2. Unread[Len(partial) + (n + k)] = stream[n + k]
    BY <1>4, <2>1
  <2>3. Len(Bit(n)) + k = Len(partial) + (n + k)
    <3>1. Len(Bit(n)) = Len(partial) + n /\ Len(partial) \in Nat /\ k \in Nat
      BY <1>1, <1>2, <1>3
    <3> QED  BY <3>1
  <2> QED  BY <2>1, <2>2, <2>3
<1>7. partial = <<>> => Bit(n) = SubSeq(stream, 1, n)
  BY <1>2, ConcatEmptySeq DEF Bit
<1> QED  BY <1>2, <1>3, <1>4, <1>5, <1>6, <1>7

\* Every step of a reader is one of the four.
LEMMA ReaderSteps ==
    ASSUME Typed, ReadShort \/ ReadWhole \/ ReadMore \/ ReadExact
    PROVE  \E n \in 0..Len(stream) :
               Kept(n) \/ Missed(n) \/ Filled(n) \/ \E i \in DOMAIN sent : Found(n, i)
<1> USE Targets
<1>1. CASE ReadShort
  <2>1. PICK n \in 1..Len(stream) :
            /\ Reads(n) /\ link.to # "rust" /\ n < Wanted
            /\ short' = TRUE
            /\ IF expected = 0 THEN UNCHANGED <<expected, log, got>>
                               ELSE BodyRead(expected, SubSeq(stream, 1, n))
            /\ UNCHANGED partial
    BY <1>1 DEF ReadShort
  <2>2. n \in 0..Len(stream) /\ partial = <<>> /\ partial' = <<>> /\ Len(partial) = 0
    BY <2>1
  <2>3. Bit(n) = SubSeq(stream, 1, n) /\ Len(Bit(n)) = n
    BY <2>2, Bits
  <2>4. Taking(n)
    BY <2>1, <2>2 DEF Reads, Taking
  <2>5. CASE expected = 0
    BY <2>1, <2>2, <2>4, <2>5 DEF Missed
  <2>6. CASE expected # 0
    <3>1. Len(Bit(n)) < Announces(expected)
      BY <2>1, <2>2, <2>3, <2>6
    <3>2. BodyRead(expected, Bit(n))
      BY <2>1, <2>3, <2>6
    <3>3. Filled(n)
      BY <2>1, <2>2, <2>4, <2>6, <3>1, <3>2 DEF Filled
    <3> QED  BY <2>2, <3>3
  <2> QED  BY <2>5, <2>6
<1>2. ASSUME NEW n, Reads(n), n = Wanted, partial' = <<>>, UNCHANGED short,
             Parse(Bit(n)), n \in 0..Len(stream)
      PROVE  Missed(n) \/ Filled(n) \/ \E i \in DOMAIN sent : Found(n, i)
  <2>1. Taking(n)
    BY <1>2 DEF Reads, Taking
  <2>2. Len(Bit(n)) = Target
    BY <1>2, Bits
  <2>3. CASE expected = 0
    <3>1. HeaderRead(Bit(n))
      BY <1>2, <2>3 DEF Parse
    <3> QED  BY <1>2, <2>1, <2>2, <2>3, <3>1 DEF HeaderRead, Found, Missed
  <2>4. CASE expected # 0
    <3>1. BodyRead(expected, Bit(n))
      BY <1>2, <2>4 DEF Parse
    <3> QED  BY <1>2, <2>1, <2>2, <2>4, <3>1 DEF Filled
  <2> QED  BY <2>3, <2>4
<1>3. ASSUME Reads(Wanted) PROVE Wanted \in 0..Len(stream)
  BY <1>3 DEF Reads
<1>4. CASE ReadWhole
  <2>1. /\ Reads(Wanted) /\ link.to # "rust" /\ Parse(SubSeq(stream, 1, Wanted))
        /\ UNCHANGED <<partial, short>>
    BY <1>4 DEF ReadWhole
  <2>2. Wanted \in 0..Len(stream) /\ partial = <<>> /\ partial' = <<>>
    BY <1>3, <2>1
  <2>3. Parse(Bit(Wanted))
    BY <2>1, <2>2, Bits
  <2> QED  BY <1>2, <2>1, <2>2, <2>3
<1>5. CASE ReadExact
  <2>1. /\ Reads(Wanted) /\ Parse(Bit(Wanted)) /\ partial' = <<>> /\ UNCHANGED short
    BY <1>5 DEF ReadExact, Bit
  <2> QED  BY <1>2, <1>3, <2>1
<1>6. CASE ReadMore
  <2>1. PICK n \in 1..Len(stream) :
            /\ Reads(n) /\ link.to = "rust" /\ n < Wanted
            /\ partial' = Bit(n)
            /\ UNCHANGED <<expected, log, got, short>>
    BY <1>6 DEF ReadMore, Bit
  <2>2. n \in 0..Len(stream)
    OBVIOUS
  <2>3. Len(Bit(n)) < Target
    BY <2>1, <2>2, Bits
  <2> QED  BY <2>1, <2>2, <2>3 DEF Kept, Taking, Reads
<1> QED  BY <1>1, <1>4, <1>5, <1>6

-------------------------------------------------------------------------------
(***************************************************************************)
(* Types.                                                                  *)
(***************************************************************************)
Entry == [frame : Nat, how : Outcomes, body : Seq(Bytes)]

\* What has been written stays.
LEMMA SentGrows ==
    ASSUME Typed, link' = link, NEW w, NEW q,
           Resumed(w, q) \/ \E f \in Offered : Begun(w, q, f)
    PROVE  /\ sent' \in Seq(Offered) /\ sent' \in Seq(FrameSet)
           /\ Len(sent') \in Nat /\ Len(sent) <= Len(sent') /\ Len(sent') <= MaxFrames
           /\ DOMAIN sent' = 1..Len(sent') /\ DOMAIN sent \subseteq DOMAIN sent'
           /\ \A i \in DOMAIN sent : /\ sent'[i] = sent[i]
                                     /\ HasBody(i)' = HasBody(i)
                                     /\ Announces(i)' = Announces(i)
                                     /\ Size(i)' = Size(i)
<1>1. /\ sent \in Seq(Offered) /\ link \in Links /\ Len(sent) <= MaxFrames
      /\ sent \in Seq(FrameSet) /\ MaxFrames \in Nat
  BY DEF Typed, FramingTypeOK
<1>2. /\ sent' \in Seq(Offered) /\ sent' \in Seq(FrameSet)
      /\ Len(sent') \in Nat /\ Len(sent) <= Len(sent') /\ Len(sent') <= MaxFrames
      /\ DOMAIN sent' = 1..Len(sent') /\ DOMAIN sent \subseteq DOMAIN sent'
      /\ \A i \in DOMAIN sent : sent'[i] = sent[i]
  <2>1. CASE Resumed(w, q)
    BY <1>1, <2>1 DEF Resumed
  <2>2. ASSUME NEW f \in Offered, Begun(w, q, f)
        PROVE  <1>2!:
    <3>1. f \in FrameSet
      BY <1>1, Frames
    <3> QED  BY <1>1, <2>2, <3>1 DEF Begun
  <2> QED  BY <2>1, <2>2
<1>3. ASSUME NEW i \in DOMAIN sent
      PROVE  HasBody(i)' = HasBody(i) /\ Announces(i)' = Announces(i) /\ Size(i)' = Size(i)
  <2>1. sent'[i] = sent[i]
    BY <1>2
  <2> QED  BY <2>1 DEF HasBody, Announces, Size, Extent, Unsent
<1> QED  BY <1>2, <1>3

LEMMA Noted ==
    ASSUME Typed, NEW i \in DOMAIN sent, NEW how \in Outcomes, NEW body \in Seq(Bytes),
           Note(i, how, body)
    PROVE  /\ log' \in Seq(Entry) /\ Len(log') = Len(log) + 1
           /\ \A k \in DOMAIN log : log'[k] = log[k]
           /\ log'[Len(log) + 1] = [frame |-> i, how |-> how, body |-> body]
           /\ DOMAIN log' = DOMAIN log \cup {Len(log) + 1}
           /\ got' \in Seq(DOMAIN sent)
           /\ got' = IF how = "taken" THEN Append(got, i) ELSE got
<1>1. /\ log \in Seq(Entry) /\ got \in Seq(DOMAIN sent) /\ sent \in Seq(FrameSet)
  BY DEF Typed, FramingTypeOK, Entry
<1> DEFINE e == [frame |-> i, how |-> how, body |-> body]
<1>2. e \in Entry
  BY <1>1 DEF Entry
<1>3. log' = Append(log, e) /\ got' = IF how = "taken" THEN Append(got, i) ELSE got
  BY DEF Note
<1> HIDE DEF e
<1>4. /\ log' \in Seq(Entry) /\ Len(log') = Len(log) + 1
      /\ \A k \in DOMAIN log : log'[k] = log[k]
      /\ log'[Len(log) + 1] = e
      /\ DOMAIN log' = DOMAIN log \cup {Len(log) + 1}
  BY <1>1, <1>2, <1>3
<1>5. Append(got, i) \in Seq(DOMAIN sent)
  BY <1>1
<1> QED  BY <1>1, <1>3, <1>4, <1>5 DEF e

\* What becomes of a body, of which no more than announced has been read.
LEMMA Verdicts ==
    ASSUME Typed, NEW i \in DOMAIN sent, NEW bytes \in Seq(Bytes),
           Len(bytes) <= Announces(i), BodyRead(i, bytes)
    PROVE  /\ expected' = 0
           /\ \/ /\ link.to = "client" /\ Len(bytes) < Announces(i)
                 /\ UNCHANGED <<log, got>>
              \/ \E how \in Outcomes \ {"refused"} :
                     /\ Note(i, how, bytes)
                     /\ how = "taken" => Len(bytes) = Announces(i)
                     /\ how = "acked" => Len(bytes) < Announces(i)
                     /\ how \in {"taken", "acked"} =>
                            link.to = "client" \/ Matches(i, bytes)
                     /\ how = "nacked" => link.to # "client" /\ ~Matches(i, bytes)
                     /\ how = "closed" => bytes = <<>> /\ link.to = "client"
<1>1. Announces(i) \in Nat /\ Len(bytes) \in Nat
  BY Announcements
<1> QED  BY <1>1 DEF BodyRead, Outcomes

LEMMA InitTyped == Init => Typed
<1> SUFFICES ASSUME Init PROVE Typed
  OBVIOUS
<1>1. \A S : <<>> \in Seq(S)
  BY EmptySeq
<1>2. /\ sent = <<>> /\ log = <<>> /\ got = <<>> /\ partial = <<>> /\ stream = <<>>
      /\ Len(<<>>) = 0 /\ DOMAIN <<>> = {}
  BY DEF Init
<1>3. FramingTypeOK
  <2>1. Len(sent) <= MaxFrames /\ Len(stream) <= Buffer
    BY <1>2
  <2>2. pending \in [Writers -> Seq(Bytes)]
    BY <1>1 DEF Init
  <2>3. expected \in 0..Len(sent)
    BY <1>2 DEF Init
  <2>4. link \in Links /\ short \in BOOLEAN /\ mixed \in BOOLEAN
    BY DEF Init
  <2>5. DOMAIN log = {}
    BY <1>2
  <2>6. /\ sent \in Seq(FrameSet) /\ stream \in Seq(Bytes) /\ partial \in Seq(Bytes)
        /\ got \in Seq(DOMAIN sent)
    BY <1>1, <1>2
  <2> QED  BY <2>1, <2>2, <2>3, <2>4, <2>5, <2>6 DEF FramingTypeOK
<1> QED  BY <1>1, <1>2, <1>3 DEF Init, Typed

LEMMA WriterTyped ==
    ASSUME Typed, NEW w \in Writers, NEW q \in Seq(Bytes), NEW n \in Nat,
           Handing(w, q, n), Resumed(w, q) \/ \E f \in Offered : Begun(w, q, f)
    PROVE  Typed'
<1> USE DEF Handing
<1>1. /\ n \in 0..Len(q) /\ stream \in Seq(Bytes) /\ Len(stream) <= Buffer /\ link' = link
      /\ link \in Links /\ expected \in 0..Len(sent) /\ partial \in Seq(Bytes)
      /\ pending \in [Writers -> Seq(Bytes)] /\ got \in Seq(DOMAIN sent)
      /\ sent \in Seq(FrameSet) /\ mixed \in BOOLEAN /\ short \in BOOLEAN
  BY DEF Typed, FramingTypeOK
<1>2. stream' \in Seq(Bytes) /\ Len(stream') <= Buffer
  <2>1. SubSeq(q, 1, n) \in Seq(Bytes) /\ Len(SubSeq(q, 1, n)) = n
    BY <1>1, FirstIs
  <2>2. stream' \in Seq(Bytes) /\ Len(stream') = Len(stream) + n
    BY <1>1, <2>1, JoinIs
  <2> QED  BY <2>2
<1>3. pending' \in [Writers -> Seq(Bytes)]
  BY <1>1, DropIs
<1>4. /\ sent' \in Seq(Offered) /\ sent' \in Seq(FrameSet) /\ Len(sent') <= MaxFrames
      /\ DOMAIN sent \subseteq DOMAIN sent' /\ Len(sent) <= Len(sent') /\ Len(sent') \in Nat
      /\ \A i \in DOMAIN sent : sent'[i] = sent[i]
      /\ expected # 0 => expected \in DOMAIN sent
  BY <1>1, SentGrows, Targets
<1>5. got' \in Seq(DOMAIN sent')
  BY <1>1, <1>4, SeqMonotonic
<1>6. expected' \in 0..Len(sent') /\ (expected' # 0 => HasBody(expected)')
  <2>1. expected' \in 0..Len(sent') /\ expected' = expected
    BY <1>1, <1>4
  <2>2. ASSUME expected # 0 PROVE HasBody(expected)'
    <3>1. HasBody(expected) /\ sent'[expected] = sent[expected]
      BY <1>4, <2>2 DEF Typed
    <3> QED  BY <1>1, <3>1 DEF HasBody, Announces
  <2> QED  BY <2>1, <2>2
<1>7. Target' = Target
  <2>1. expected # 0 => sent'[expected] = sent[expected]
    BY <1>4
  <2> QED  BY <1>1, <2>1 DEF Target, Announces
<1>8. FramingTypeOK'
  <2>1. \A k \in DOMAIN log : /\ log[k].frame \in DOMAIN sent
                              /\ log[k].how \in Outcomes /\ log[k].body \in Seq(Bytes)
    BY DEF Typed, FramingTypeOK
  <2>2. mixed' \in BOOLEAN /\ short' \in BOOLEAN
    BY <1>1
  <2> QED  BY <1>1, <1>2, <1>3, <1>4, <1>5, <1>6, <2>1, <2>2 DEF FramingTypeOK
<1>9. Offered' = Offered
  BY <1>1 DEF Offered
<1> QED  BY <1>1, <1>4, <1>6, <1>7, <1>8, <1>9 DEF Typed

\* What a reader's step leaves alone.
LEMMA TakingKeeps ==
    ASSUME Typed, NEW n, Taking(n)
    PROVE  /\ stream' \in Seq(Bytes) /\ Len(stream') <= Buffer
           /\ Offered' = Offered
           /\ \A i : HasBody(i)' = HasBody(i) /\ Announces(i)' = Announces(i)
                                             /\ Size(i)' = Size(i)
<1>1. stream \in Seq(Bytes) /\ Len(stream) <= Buffer /\ n \in 0..Len(stream)
  BY DEF Typed, FramingTypeOK, Taking
<1>2. stream' \in Seq(Bytes) /\ Len(stream') = Len(stream) - n
  BY <1>1, DropIs DEF Taking
<1>3. link' = link /\ sent' = sent
  BY DEF Taking
<1> QED  BY <1>1, <1>2, <1>3 DEF Offered, HasBody, Announces, Size, Extent, Unsent

LEMMA ReaderTyped ==
    ASSUME Typed, NEW n \in 0..Len(stream),
           Kept(n) \/ Missed(n) \/ Filled(n) \/ \E i \in DOMAIN sent : Found(n, i)
    PROVE  Typed'
<1>1. Taking(n)
  BY DEF Kept, Missed, Filled, Found
<1>2. /\ stream' \in Seq(Bytes) /\ Len(stream') <= Buffer /\ Offered' = Offered
      /\ \A i : HasBody(i)' = HasBody(i) /\ Announces(i)' = Announces(i)
  BY <1>1, TakingKeeps
<1>3. /\ sent \in Seq(Offered) /\ FramingTypeOK
      /\ sent' = sent /\ link' = link /\ pending' = pending /\ mixed' = mixed
  BY <1>1 DEF Typed, Taking
<1>4. <<>> \in Seq(Bytes)
  BY EmptySeq
<1>5. Bit(n) \in Seq(Bytes) /\ Len(Bit(n)) \in Nat
  BY Bits
<1>6. /\ log \in Seq(Entry) /\ got \in Seq(DOMAIN sent)
      /\ \A k \in DOMAIN log : log[k].frame \in DOMAIN sent
  BY <1>3 DEF Typed, FramingTypeOK, Entry
<1> DEFINE Fits == /\ log' \in Seq(Entry) /\ got' \in Seq(DOMAIN sent)
                   /\ \A k \in DOMAIN log' : log'[k].frame \in DOMAIN sent
<1>7. ASSUME NEW i \in DOMAIN sent, NEW how \in Outcomes, NEW body \in Seq(Bytes),
             Note(i, how, body)
      PROVE  Fits
  <2>1. /\ log' \in Seq(Entry) /\ got' \in Seq(DOMAIN sent)
        /\ \A k \in DOMAIN log : log'[k] = log[k]
        /\ log'[Len(log) + 1] = [frame |-> i, how |-> how, body |-> body]
        /\ DOMAIN log' = DOMAIN log \cup {Len(log) + 1}
    BY <1>7, Noted
  <2>2. ASSUME NEW k \in DOMAIN log' PROVE log'[k].frame \in DOMAIN sent
    <3>1. CASE k \in DOMAIN log
      BY <1>6, <2>1, <3>1
    <3>2. CASE k = Len(log) + 1
      BY <2>1, <3>2
    <3> QED  BY <2>1, <3>1, <3>2
  <2> QED  BY <2>1, <2>2
<1>8. UNCHANGED <<log, got>> => Fits
  BY <1>6
<1>9. ASSUME Fits, short' \in BOOLEAN, expected' \in 0..Len(sent), partial' \in Seq(Bytes),
             expected' # 0 => HasBody(expected'),
             partial' # <<>> => link.to = "rust" /\ Len(partial') < Target'
      PROVE  Typed'
  <2>1. \A k \in DOMAIN log' : log'[k].how \in Outcomes /\ log'[k].body \in Seq(Bytes)
    <3>1. ASSUME NEW k \in DOMAIN log' PROVE log'[k] \in Entry
      BY <1>9
    <3> QED  BY <3>1 DEF Entry
  <2>2. FramingTypeOK'
    BY <1>2, <1>3, <1>9, <2>1 DEF FramingTypeOK
  <2>3. expected' # 0 => HasBody(expected)'
    <3>1. HasBody(expected)' <=> HasBody(expected')
      BY <1>3 DEF HasBody, Announces
    <3> QED  BY <1>9, <3>1
  <2> QED  BY <1>2, <1>3, <1>9, <2>2, <2>3 DEF Typed, Entry
<1> HIDE DEF Fits
<1>10. expected \in 0..Len(sent) /\ (expected # 0 => HasBody(expected)) /\ short \in BOOLEAN
  BY DEF Typed, FramingTypeOK
<1>11. CASE Kept(n)
  <2>1. /\ UNCHANGED <<expected, log, got, short>> /\ link.to = "rust"
        /\ partial' = Bit(n) /\ Len(Bit(n)) < Target
    BY <1>11 DEF Kept
  <2>2. Target' = Target
    BY <1>2, <2>1 DEF Target
  <2> QED  BY <1>5, <1>8, <1>9, <1>10, <2>1, <2>2
<1>12. CASE Missed(n)
  <2>1. /\ UNCHANGED <<log, got>> /\ expected' = 0 /\ partial' = <<>>
        /\ short' \in BOOLEAN
    BY <1>10, <1>12 DEF Missed
  <2> QED  BY <1>4, <1>8, <1>9, <1>10, <2>1
<1>13. CASE Filled(n)
  <2>1. /\ expected \in DOMAIN sent /\ BodyRead(expected, Bit(n)) /\ partial' = <<>>
        /\ Len(Bit(n)) <= Announces(expected) /\ short' \in BOOLEAN
    <3>1. expected # 0 /\ BodyRead(expected, Bit(n)) /\ partial' = <<>>
      BY <1>13 DEF Filled
    <3>2. Len(Bit(n)) <= Announces(expected) /\ short' \in BOOLEAN
      <4>1. expected \in DOMAIN sent
        BY <3>1, Targets
      <4>2. Announces(expected) \in Nat
        BY <4>1, Announcements
      <4>3. /\ Len(Bit(n)) = Announces(expected) \/ Len(Bit(n)) < Announces(expected)
            /\ short' \in BOOLEAN
        BY <1>10, <1>13 DEF Filled
      <4> QED  BY <1>5, <4>2, <4>3
    <3> QED  BY <3>1, <3>2, Targets
  <2>2. expected' = 0 /\ Fits
    BY <1>5, <1>7, <1>8, <2>1, Verdicts
  <2> QED  BY <1>4, <1>9, <1>10, <2>1, <2>2
<1>14. ASSUME NEW i \in DOMAIN sent, Found(n, i) PROVE Typed'
  <2>1. /\ partial' = <<>> /\ short' \in BOOLEAN
        /\ \/ HasBody(i) /\ expected' = i /\ UNCHANGED <<log, got>>
           \/ /\ expected' = 0
              /\ Note(i, IF sent[i].type = "MESSAGE" THEN "refused" ELSE "taken", <<>>)
    BY <1>10, <1>14 DEF Found
  <2>2. (IF sent[i].type = "MESSAGE" THEN "refused" ELSE "taken") \in Outcomes
    BY DEF Outcomes
  <2>3. Fits
    BY <1>4, <1>7, <1>8, <2>1, <2>2
  <2>4. i \in 0..Len(sent)
    BY <1>3
  <2> QED  BY <1>4, <1>9, <1>10, <2>1, <2>3, <2>4
<1> QED  BY <1>11, <1>12, <1>13, <1>14

-------------------------------------------------------------------------------
(***************************************************************************)
(* Bytes: where they are from, and what a step does to them.               *)
(***************************************************************************)
LEMMA Sizes ==
    ASSUME Typed, NEW i \in DOMAIN sent
    PROVE  /\ Size(i) \in Nat /\ HeaderSize <= Size(i) /\ i \in 1..Len(sent)
           /\ ~Unsent(sent[i]) => Size(i) = HeaderSize + sent[i].size
           /\ Unsent(sent[i]) => Size(i) = HeaderSize /\ link.to = "client"
<1>1. sent[i] \in Offered /\ link \in Links /\ i \in 1..Len(sent)
  BY DEF Typed, FramingTypeOK
<1> QED  BY <1>1, Frames DEF Size

\* What is handed over is from a frame, which has begun before, or begins.
LEMMA Sources ==
    ASSUME Typed, OnTheWay, NEW w \in Writers, NEW q \in Seq(Bytes), NEW n \in Nat,
           Handing(w, q, n), Resumed(w, q) \/ \E f \in Offered : Begun(w, q, f)
    PROVE  \E i \in DOMAIN sent' : \E s \in Nat :
               /\ s = Size(i)' /\ Rest(q, i, s)
               /\ \/ /\ i \in DOMAIN sent /\ sent' = sent /\ s = Size(i) /\ Len(q) < s
                     /\ q = pending[w] /\ q # <<>>
                  \/ /\ i = Len(sent) + 1 /\ i = Len(sent') /\ Len(q) = s
                     /\ pending[w] = <<>>
<1>1. link' = link /\ link \in Links /\ sent \in Seq(Offered)
  BY DEF Handing, Typed, FramingTypeOK
<1>2. CASE Resumed(w, q)
  <2>1. q = pending[w] /\ q # <<>> /\ sent' = sent
    BY <1>2 DEF Resumed
  <2>2. PICK i \in DOMAIN sent : Len(q) < Size(i) /\ Rest(q, i, Size(i))
    BY <2>1 DEF OnTheWay
  <2>3. Size(i) \in Nat /\ Size(i)' = Size(i)
    BY <1>1, <2>1, Sizes DEF Size, Extent, Unsent
  <2> QED  BY <2>1, <2>2, <2>3
<1>3. ASSUME NEW f \in Offered, Begun(w, q, f)
      PROVE  \E i \in DOMAIN sent' : \E s \in Nat :
                 /\ s = Size(i)' /\ Rest(q, i, s)
                 /\ i = Len(sent) + 1 /\ i = Len(sent') /\ Len(q) = s
                 /\ pending[w] = <<>>
  <2> PICK i \in Nat : i = Len(sent) + 1
    BY <1>1
  <2>1. /\ sent' = Append(sent, f) /\ Len(q) = Extent(f) /\ Rest(q, i, Extent(f))
        /\ pending[w] = <<>>
    BY <1>3 DEF Begun
  <2>2. i \in DOMAIN sent' /\ i = Len(sent') /\ sent'[i] = f
    BY <1>1, <2>1
  <2>3. Extent(f) \in Nat
    BY <1>1, Frames
  <2>4. Size(i)' = Extent(f)
    BY <1>1, <2>2 DEF Size, Extent, Unsent
  <2> QED  BY <2>1, <2>2, <2>3, <2>4
<1> QED  BY <1>2, <1>3

\* What a writer's step does to what the reader has to come.
LEMMA Handed ==
    ASSUME Typed, NEW w \in Writers, NEW q \in Seq(Bytes), NEW n \in Nat,
           Handing(w, q, n)
    PROVE  /\ n \in 1..Len(q)
           /\ stream \in Seq(Bytes) /\ stream' \in Seq(Bytes)
           /\ Len(stream') = Len(stream) + n
           /\ \A k \in 1..Len(stream) : stream'[k] = stream[k]
           /\ \A k \in 1..n : stream'[Len(stream) + k] = q[k]
           /\ Unread \in Seq(Bytes) /\ Unread' \in Seq(Bytes)
           /\ Len(Unread') = Len(Unread) + n
           /\ \A k \in 1..Len(Unread) : Unread'[k] = Unread[k]
           /\ \A k \in 1..n : Unread'[Len(Unread) + k] = q[k]
           /\ Unread' = Unread \o SubSeq(q, 1, n)
           /\ pending'[w] = Drop(q, n)
           /\ \A v \in Writers \ {w} : pending'[v] = pending[v]
           /\ Drop(q, n) \in Seq(Bytes) /\ Len(Drop(q, n)) = Len(q) - n
           /\ \A k \in 1..(Len(q) - n) : Drop(q, n)[k] = q[n + k]
<1> DEFINE a == SubSeq(q, 1, n)
<1>1. /\ n \in 0..Len(q) /\ n \in 1..Len(q) /\ stream' = stream \o a /\ partial' = partial
      /\ pending' = [pending EXCEPT ![w] = Drop(q, n)]
      /\ pending \in [Writers -> Seq(Bytes)]
  BY DEF Handing, Typed, FramingTypeOK
<1>2. a \in Seq(Bytes) /\ Len(a) = n /\ \A k \in 1..n : a[k] = q[k]
  BY <1>1, FirstIs
<1>3. stream \in Seq(Bytes) /\ partial \in Seq(Bytes)
  BY Targets
<1>4. /\ stream' \in Seq(Bytes) /\ Len(stream') = Len(stream) + n
      /\ \A k \in 1..Len(stream) : stream'[k] = stream[k]
      /\ \A k \in 1..n : stream'[Len(stream) + k] = q[k]
  <2>1. /\ stream \o a \in Seq(Bytes) /\ Len(stream \o a) = Len(stream) + n
        /\ \A k \in 1..Len(stream) : (stream \o a)[k] = stream[k]
        /\ \A k \in 1..n : (stream \o a)[Len(stream) + k] = q[k]
    BY <1>1, <1>3, HandedOn
  <2> QED  BY <1>1, <2>1
<1>5. Unread \in Seq(Bytes)
  BY <1>3, JoinIs DEF Unread
<1>6. Unread' = Unread \o a
  <2>1. Unread' = partial \o (stream \o a)
    BY <1>1 DEF Unread
  <2>2. (partial \o stream) \o a = partial \o (stream \o a)
    <3>1. partial \in Seq(Bytes) /\ stream \in Seq(Bytes) /\ a \in Seq(Bytes)
      BY <1>2, <1>3
    <3> HIDE DEF a
    <3> QED  BY ONLY <3>1, ConcatAssociative
  <2> QED  BY <2>1, <2>2 DEF Unread
<1>7. /\ Unread' \in Seq(Bytes) /\ Len(Unread') = Len(Unread) + n
      /\ \A k \in 1..Len(Unread) : Unread'[k] = Unread[k]
      /\ \A k \in 1..n : Unread'[Len(Unread) + k] = q[k]
  <2>1. /\ Unread \o a \in Seq(Bytes) /\ Len(Unread \o a) = Len(Unread) + n
        /\ \A k \in 1..Len(Unread) : (Unread \o a)[k] = Unread[k]
        /\ \A k \in 1..n : (Unread \o a)[Len(Unread) + k] = q[k]
    BY <1>1, <1>5, HandedOn
  <2> QED  BY <1>6, <2>1
<1>8. /\ Drop(q, n) \in Seq(Bytes) /\ Len(Drop(q, n)) = Len(q) - n
      /\ \A k \in 1..(Len(q) - n) : Drop(q, n)[k] = q[n + k]
  BY <1>1, DropIs
<1> QED  BY <1>1, <1>3, <1>4, <1>5, <1>6, <1>7, <1>8

\* What a reader's step does to it: nothing, or it takes the first Bit(n).
LEMMA Taken ==
    ASSUME Typed, NEW n \in 0..Len(stream),
           Kept(n) \/ Missed(n) \/ Filled(n) \/ \E i \in DOMAIN sent : Found(n, i)
    PROVE  /\ stream \in Seq(Bytes) /\ stream' \in Seq(Bytes) /\ Len(stream') = Len(stream) - n
           /\ \A k \in 1..Len(stream') : stream'[k] = stream[n + k]
           /\ Kept(n) => Unread' = Unread
           /\ ~Kept(n) => /\ Unread' = stream' /\ stream' = Drop(stream, n)
                          /\ Len(Unread') = Len(Unread) - Len(Bit(n))
                          /\ \A k \in 1..Len(Unread') : Unread'[k] = Unread[Len(Bit(n)) + k]
<1>1. /\ stream \in Seq(Bytes) /\ partial \in Seq(Bytes) /\ stream' = Drop(stream, n)
      /\ Kept(n) => partial' = Bit(n)
      /\ ~Kept(n) => partial' = <<>>
  BY Targets DEF Taking, Kept, Missed, Filled, Found
<1>2. /\ stream' \in Seq(Bytes) /\ Len(stream') = Len(stream) - n
      /\ \A k \in 1..Len(stream') : stream'[k] = stream[n + k]
  BY <1>1, DropIs
<1>3. ASSUME Kept(n) PROVE Unread' = Unread
  <2>1. Unread' = (partial \o SubSeq(stream, 1, n)) \o Drop(stream, n)
    BY <1>1, <1>3 DEF Unread, Bit
  <2> QED  BY <1>1, <2>1, Rejoined DEF Unread
<1>4. ASSUME ~Kept(n)
      PROVE  /\ Unread' = stream' /\ stream' = Drop(stream, n)
             /\ Len(Unread') = Len(Unread) - Len(Bit(n))
             /\ \A k \in 1..Len(Unread') : Unread'[k] = Unread[Len(Bit(n)) + k]
  <2>1. Unread' = stream'
    BY <1>1, <1>2, <1>4, ConcatEmptySeq DEF Unread
  <2>2. /\ Len(Bit(n)) = Len(partial) + n /\ Len(Unread) = Len(partial) + Len(stream)
        /\ \A k \in 1..Len(Drop(stream, n)) : Drop(stream, n)[k] = Unread[Len(Bit(n)) + k]
    BY Bits
  <2>3. Len(partial) \in Nat /\ Len(stream) \in Nat
    BY Targets
  <2> QED  BY <1>1, <1>2, <2>1, <2>2, <2>3
<1> QED  BY <1>1, <1>2, <1>3, <1>4

LEMMA WriterBytes ==
    ASSUME Typed, Genuine, OnTheWay, NEW w \in Writers, NEW q \in Seq(Bytes), NEW n \in Nat,
           Handing(w, q, n), Resumed(w, q) \/ \E f \in Offered : Begun(w, q, f)
    PROVE  Genuine' /\ OnTheWay'
<1>1. link' = link
  BY DEF Handing
<1>2. /\ DOMAIN sent \subseteq DOMAIN sent'
      /\ \A j \in DOMAIN sent : Size(j)' = Size(j)
  BY <1>1, SentGrows
<1>3. PICK i \in DOMAIN sent', s \in Nat : s = Size(i)' /\ Rest(q, i, s)
  BY Sources
<1>4. /\ Len(q) \in Nat /\ Len(q) <= s
      /\ \A k \in 1..Len(q) : q[k] = <<i, s - Len(q) + k>>
  BY <1>3 DEF Rest
<1>5. /\ n \in 1..Len(q)
      /\ Unread \in Seq(Bytes) /\ Unread' \in Seq(Bytes)
      /\ Len(Unread') = Len(Unread) + n
      /\ \A k \in 1..Len(Unread) : Unread'[k] = Unread[k]
      /\ \A k \in 1..n : Unread'[Len(Unread) + k] = q[k]
      /\ pending'[w] = Drop(q, n)
      /\ \A v \in Writers \ {w} : pending'[v] = pending[v]
      /\ Drop(q, n) \in Seq(Bytes) /\ Len(Drop(q, n)) = Len(q) - n
      /\ \A k \in 1..(Len(q) - n) : Drop(q, n)[k] = q[n + k]
  <2>1. /\ n \in 1..Len(q)
        /\ Unread \in Seq(Bytes) /\ Unread' \in Seq(Bytes)
        /\ Len(Unread') = Len(Unread) + n
    BY Handed
  <2>2. /\ \A k \in 1..Len(Unread) : Unread'[k] = Unread[k]
        /\ \A k \in 1..n : Unread'[Len(Unread) + k] = q[k]
    BY Handed
  <2>3. /\ pending'[w] = Drop(q, n)
        /\ \A v \in Writers \ {w} : pending'[v] = pending[v]
    BY Handed
  <2>4. /\ Drop(q, n) \in Seq(Bytes) /\ Len(Drop(q, n)) = Len(q) - n
        /\ \A k \in 1..(Len(q) - n) : Drop(q, n)[k] = q[n + k]
    BY Handed
  <2> QED  BY <2>1, <2>2, <2>3, <2>4
<1>6. Genuine'
  <2>1. ASSUME NEW k \in DOMAIN Unread'
        PROVE  \E j \in DOMAIN sent' : \E p \in 1..Size(j)' : Unread'[k] = <<j, p>>
    <3>1. CASE k <= Len(Unread)
      <4>1. k \in DOMAIN Unread /\ Unread'[k] = Unread[k]
        BY <1>5, <3>1
      <4>2. PICK j \in DOMAIN sent : \E p \in 1..Size(j) : Unread[k] = <<j, p>>
        BY <4>1 DEF Genuine
      <4> QED  BY <1>2, <4>1, <4>2
    <3>2. CASE k > Len(Unread)
      <4>1. PICK j \in 1..n : k = Len(Unread) + j
        <5>1. k \in 1..Len(Unread') /\ Len(Unread) \in Nat
          BY <1>5
        <5>2. k - Len(Unread) \in 1..n
          BY <1>5, <3>2, <5>1
        <5> QED  BY <5>1, <5>2
      <4>2. Unread'[k] = <<i, s - Len(q) + j>> /\ s - Len(q) + j \in 1..s
        <5>1. j \in 1..Len(q) /\ Unread'[k] = q[j]
          BY <1>4, <1>5, <4>1
        <5>2. s - Len(q) + j \in 1..s
          BY <1>4, <5>1
        <5> QED  BY <1>4, <5>1, <5>2
      <4> QED  BY <1>3, <4>2
    <3> QED  BY <1>5, <3>1, <3>2
  <2> QED  BY <2>1 DEF Genuine
<1>7. OnTheWay'
  <2>1. ASSUME NEW v \in Writers, pending'[v] # <<>>
        PROVE  \E j \in DOMAIN sent' : Len(pending'[v]) < Size(j)' /\ Rest(pending'[v], j, Size(j)')
    <3>1. CASE v = w
      <4> DEFINE d == Drop(q, n)
      <4>1. Len(d) = Len(q) - n /\ Len(d) < s
        BY <1>4, <1>5
      <4>2. ASSUME NEW k \in DOMAIN d PROVE d[k] = <<i, s - Len(d) + k>>
        <5>1. k \in 1..(Len(q) - n) /\ n + k \in 1..Len(q)
          BY <1>5
        <5>2. d[k] = <<i, s - Len(q) + (n + k)>>
          BY <1>4, <1>5, <5>1
        <5>3. s - Len(q) + (n + k) = s - Len(d) + k
          BY <1>4, <1>5, <5>1
        <5> QED  BY <5>2, <5>3
      <4>3. Rest(d, i, s)
        BY <1>3, <4>1, <4>2, <1>5 DEF Rest
      <4> QED  BY <1>3, <1>5, <3>1, <4>1, <4>3
    <3>2. CASE v # w
      <4>1. pending'[v] = pending[v] /\ pending[v] # <<>>
        BY <1>5, <2>1, <3>2
      <4>2. PICK j \in DOMAIN sent : Len(pending[v]) < Size(j) /\ Rest(pending[v], j, Size(j))
        BY <4>1 DEF OnTheWay
      <4> QED  BY <1>2, <4>1, <4>2
    <3> QED  BY <3>1, <3>2
  <2> QED  BY <2>1 DEF OnTheWay
<1> QED  BY <1>6, <1>7

LEMMA ReaderBytes ==
    ASSUME Typed, Genuine, OnTheWay, NEW n \in 0..Len(stream),
           Kept(n) \/ Missed(n) \/ Filled(n) \/ \E i \in DOMAIN sent : Found(n, i)
    PROVE  Genuine' /\ OnTheWay'
<1>1. Taking(n)
  BY DEF Kept, Missed, Filled, Found
<1>2. /\ \A j : Size(j)' = Size(j)
      /\ sent' = sent /\ pending' = pending
  BY <1>1, TakingKeeps DEF Taking
<1>3. OnTheWay'
  BY <1>2 DEF OnTheWay
<1>4. ASSUME NEW k \in DOMAIN Unread' PROVE \E m \in DOMAIN Unread : Unread'[k] = Unread[m]
  <2>1. CASE Kept(n)
    BY <2>1, Taken
  <2>2. CASE ~Kept(n)
    <3>1. /\ Unread' \in Seq(Bytes) /\ Len(Unread') = Len(Unread) - Len(Bit(n))
          /\ \A m \in 1..Len(Unread') : Unread'[m] = Unread[Len(Bit(n)) + m]
      BY <2>2, Taken
    <3>2. Len(Bit(n)) \in Nat /\ Unread \in Seq(Bytes)
      BY Bits
    <3>3. k \in 1..Len(Unread') /\ Len(Bit(n)) + k \in DOMAIN Unread
      BY <3>1, <3>2
    <3> QED  BY <3>1, <3>3
  <2> QED  BY <2>1, <2>2
<1>5. Genuine'
  BY <1>2, <1>4 DEF Genuine
<1> QED  BY <1>3, <1>5

-------------------------------------------------------------------------------
(***************************************************************************)
(* Each byte is followed by the next of its frame.                         *)
(***************************************************************************)
LEMMA StreamGenuine ==
    ASSUME Typed, Genuine
    PROVE  /\ \A k \in DOMAIN stream :
                  \E i \in DOMAIN sent : \E p \in 1..Size(i) : stream[k] = <<i, p>>
           /\ \A k \in DOMAIN partial :
                  \E i \in DOMAIN sent : \E p \in 1..Size(i) : partial[k] = <<i, p>>
<1>1. partial \in Seq(Bytes) /\ stream \in Seq(Bytes)
  BY Targets
<1>2. /\ Unread \in Seq(Bytes) /\ Len(Unread) = Len(partial) + Len(stream)
      /\ \A k \in 1..Len(partial) : Unread[k] = partial[k]
      /\ \A k \in 1..Len(stream) : Unread[Len(partial) + k] = stream[k]
  BY <1>1, JoinIs DEF Unread
<1>3. ASSUME NEW k \in DOMAIN stream
      PROVE  \E i \in DOMAIN sent : \E p \in 1..Size(i) : stream[k] = <<i, p>>
  <2>1. Len(partial) + k \in DOMAIN Unread /\ Unread[Len(partial) + k] = stream[k]
    BY <1>1, <1>2
  <2> QED  BY <2>1 DEF Genuine
<1>4. ASSUME NEW k \in DOMAIN partial
      PROVE  \E i \in DOMAIN sent : \E p \in 1..Size(i) : partial[k] = <<i, p>>
  <2>1. k \in DOMAIN Unread /\ Unread[k] = partial[k]
    BY <1>1, <1>2
  <2> QED  BY <2>1 DEF Genuine
<1> QED  BY <1>3, <1>4

\* What is coming comes for all that a writer does ...
LEMMA StillComing ==
    ASSUME Typed, NEW w \in Writers, NEW q \in Seq(Bytes), NEW n \in Nat,
           Handing(w, q, n), Resumed(w, q) \/ \E f \in Offered : Begun(w, q, f),
           NEW b, NEW k \in 0..Len(stream), Coming(b, k)
    PROVE  Coming(b, k)'
<1>1. /\ n \in 1..Len(q)
      /\ stream \in Seq(Bytes) /\ stream' \in Seq(Bytes)
      /\ Len(stream') = Len(stream) + n
  BY Handed
<1>2. /\ \A j \in 1..Len(stream) : stream'[j] = stream[j]
      /\ \A j \in 1..n : stream'[Len(stream) + j] = q[j]
  BY Handed
<1>3. \A v \in Writers \ {w} : pending'[v] = pending[v]
  BY Handed
<1>4. ASSUME NEW m \in DOMAIN stream, m > k, stream[m] = b PROVE Coming(b, k)'
  <2>1. m \in DOMAIN stream' /\ stream'[m] = b
    BY <1>1, <1>2, <1>4
  <2> QED  BY <1>4, <2>1 DEF Coming
<1>5. ASSUME NEW v \in Writers, pending[v] # <<>>, pending[v][1] = b PROVE Coming(b, k)'
  <2>1. CASE v = w
    <3>1. q[1] = b
      BY <1>5, <2>1 DEF Resumed, Begun
    <3> DEFINE m == Len(stream) + 1
    <3>2. m \in DOMAIN stream' /\ m > k /\ stream'[m] = b
      BY <1>1, <1>2, <3>1
    <3> QED  BY <3>2 DEF Coming
  <2>2. CASE v # w
    BY <1>3, <1>5, <2>2 DEF Coming
  <2> QED  BY <2>1, <2>2
<1> QED  BY <1>4, <1>5 DEF Coming

\* ... and until the reader has come to it.
LEMMA ComingStill ==
    ASSUME Typed, NEW n \in 0..Len(stream),
           Kept(n) \/ Missed(n) \/ Filled(n) \/ \E i \in DOMAIN sent : Found(n, i),
           NEW b, NEW k \in Nat, Coming(b, n + k)
    PROVE  Coming(b, k)'
<1>1. /\ stream \in Seq(Bytes) /\ stream' \in Seq(Bytes) /\ Len(stream') = Len(stream) - n
      /\ \A j \in 1..Len(stream') : stream'[j] = stream[n + j]
  BY Taken
<1>2. pending' = pending
  BY DEF Taking, Kept, Missed, Filled, Found
<1>3. ASSUME NEW m \in DOMAIN stream, m > n + k, stream[m] = b PROVE Coming(b, k)'
  <2> DEFINE j == m - n
  <2>1. j \in 1..Len(stream') /\ j > k /\ n + j = m
    BY <1>1, <1>3
  <2> HIDE DEF j
  <2>2. stream'[j] = b /\ j \in DOMAIN stream'
    BY <1>1, <1>3, <2>1
  <2> QED  BY <2>1, <2>2 DEF Coming
<1> QED  BY <1>2, <1>3 DEF Coming

LEMMA WriterFollowed ==
    ASSUME Typed, Genuine, OnTheWay, Followed, BodyComes,
           NEW w \in Writers, NEW q \in Seq(Bytes), NEW n \in Nat,
           Handing(w, q, n), Resumed(w, q) \/ \E f \in Offered : Begun(w, q, f)
    PROVE  Followed' /\ BodyComes'
<1>1. link' = link /\ expected' = expected
  BY DEF Handing
<1>2. \A j \in DOMAIN sent : Size(j)' = Size(j)
  BY <1>1, SentGrows
<1>3. PICK i \in DOMAIN sent', s \in Nat : s = Size(i)' /\ Rest(q, i, s)
  BY Sources
<1>4. /\ Len(q) \in Nat /\ Len(q) <= s
      /\ \A k \in 1..Len(q) : q[k] = <<i, s - Len(q) + k>>
  BY <1>3 DEF Rest
<1>5. /\ n \in 1..Len(q)
      /\ stream \in Seq(Bytes) /\ stream' \in Seq(Bytes)
      /\ Len(stream') = Len(stream) + n
  BY Handed
<1>6. /\ \A k \in 1..Len(stream) : stream'[k] = stream[k]
      /\ \A k \in 1..n : stream'[Len(stream) + k] = q[k]
  BY Handed
<1>7. /\ pending'[w] = Drop(q, n) /\ Drop(q, n) \in Seq(Bytes)
      /\ Len(Drop(q, n)) = Len(q) - n
      /\ \A k \in 1..(Len(q) - n) : Drop(q, n)[k] = q[n + k]
  BY Handed
<1>8. Followed'
  <2>1. ASSUME NEW k \in DOMAIN stream', NEW j \in DOMAIN sent', NEW p \in Nat,
               stream'[k] = <<j, p>>, p < Size(j)'
        PROVE  Coming(<<j, p + 1>>, k)'
    <3>1. CASE k <= Len(stream)
      <4>1. k \in DOMAIN stream /\ k \in 0..Len(stream) /\ stream[k] = <<j, p>>
        BY <1>5, <1>6, <2>1, <3>1
      <4>2. j \in DOMAIN sent
        BY <4>1, StreamGenuine
      <4>3. Coming(<<j, p + 1>>, k)
        BY <1>2, <2>1, <4>1, <4>2 DEF Followed
      <4> QED  BY <4>1, <4>3, StillComing
    <3>2. CASE k > Len(stream)
      <4>1. k \in 1..Len(stream') /\ Len(stream) \in Nat
        BY <1>5
      <4>2. PICK l \in 1..n : k = Len(stream) + l
        <5>1. k - Len(stream) \in 1..n /\ k \in Nat
          BY <1>5, <3>2, <4>1
        <5>2. k = Len(stream) + (k - Len(stream))
          BY <4>1, <5>1
        <5> QED  BY <5>1, <5>2
      <4>3. l \in 1..Len(q) /\ stream'[k] = <<i, s - Len(q) + l>>
        <5>1. l \in 1..Len(q) /\ stream'[k] = q[l]
          BY <1>4, <1>5, <1>6, <4>2
        <5> QED  BY <1>4, <5>1
      <4>4. j = i /\ p = s - Len(q) + l /\ p < s
        BY <1>3, <2>1, <4>3
      <4>5. l + 1 \in 1..Len(q) /\ p + 1 = s - Len(q) + (l + 1)
        BY <1>4, <4>3, <4>4
      <4>6. q[l + 1] = <<j, p + 1>>
        BY <1>4, <4>4, <4>5
      <4>7. CASE l < n
        <5>1. l + 1 \in 1..n /\ k + 1 = Len(stream) + (l + 1) /\ k + 1 > k
          BY <4>1, <4>2, <4>7
        <5>2. k + 1 \in DOMAIN stream' /\ stream'[k + 1] = <<j, p + 1>>
          BY <1>5, <1>6, <4>1, <4>6, <5>1
        <5> QED  BY <5>1, <5>2 DEF Coming
      <4>8. CASE l = n
        <5>1. 1 \in 1..(Len(q) - n)
          BY <1>4, <4>5, <4>8
        <5>2. Drop(q, n)[1] = <<j, p + 1>> /\ Drop(q, n) # <<>>
          BY <1>7, <4>6, <4>8, <5>1
        <5> QED  BY <1>7, <5>2 DEF Coming
      <4> QED  BY <4>7, <4>8
    <3> QED  BY <1>5, <3>1, <3>2
  <2> QED  BY <2>1 DEF Followed
<1>9. BodyComes'
  <2>1. ASSUME NEW j \in DOMAIN sent', link.to # "rust", expected = j, HeaderSize < Size(j)'
        PROVE  Coming(<<j, HeaderSize + 1>>, 0)'
    <3>1. j \in DOMAIN sent
      BY <2>1, Targets, SentGrows, <1>1
    <3>2. Coming(<<j, HeaderSize + 1>>, 0)
      BY <1>2, <2>1, <3>1 DEF BodyComes
    <3>3. 0 \in 0..Len(stream)
      BY <1>5
    <3> QED  BY <3>2, <3>3, StillComing
  <2> QED  BY <1>1, <2>1 DEF BodyComes
<1> QED  BY <1>8, <1>9

LEMMA Headers ==
    \A i : Len(Header(i)) = HeaderSize /\ \A p \in 1..HeaderSize : Header(i)[p] = <<i, p>>
BY DEF Header

LEMMA ReaderFollowed ==
    ASSUME Typed, Genuine, OnTheWay, Followed, BodyComes, NEW n \in 0..Len(stream),
           Kept(n) \/ Missed(n) \/ Filled(n) \/ \E i \in DOMAIN sent : Found(n, i)
    PROVE  Followed' /\ BodyComes'
<1>1. Taking(n)
  BY DEF Kept, Missed, Filled, Found
<1>2. /\ \A j : Size(j)' = Size(j)
      /\ sent' = sent /\ link' = link
  BY <1>1, TakingKeeps DEF Taking
<1>3. /\ stream \in Seq(Bytes) /\ stream' \in Seq(Bytes) /\ Len(stream') = Len(stream) - n
      /\ \A j \in 1..Len(stream') : stream'[j] = stream[n + j]
  BY Taken
<1>4. Followed'
  <2>1. ASSUME NEW k \in DOMAIN stream', NEW j \in DOMAIN sent, NEW p \in Nat,
               stream'[k] = <<j, p>>, p < Size(j)
        PROVE  Coming(<<j, p + 1>>, k)'
    <3>1. k \in Nat /\ n + k \in DOMAIN stream /\ stream[n + k] = <<j, p>>
      BY <1>3, <2>1
    <3>2. Coming(<<j, p + 1>>, n + k)
      BY <2>1, <3>1 DEF Followed
    <3> QED  BY <3>1, <3>2, ComingStill
  <2> QED  BY <1>2, <2>1 DEF Followed
<1>5. BodyComes'
  <2>1. ASSUME NEW j \in DOMAIN sent, link.to # "rust", expected' = j, HeaderSize < Size(j)
        PROVE  Coming(<<j, HeaderSize + 1>>, 0)'
    <3>1. j # 0
      BY Targets
    <3>2. PICK i \in DOMAIN sent : Found(n, i)
      BY <2>1, <3>1 DEF Kept, Missed, Filled, BodyRead
    <3>3. i = j /\ Bit(n) = Header(j) /\ partial = <<>>
      BY <2>1, <3>1, <3>2, Targets DEF Found
    <3>4. /\ Len(Bit(n)) = HeaderSize /\ Bit(n)[HeaderSize] = <<j, HeaderSize>>
          /\ HeaderSize \in Nat \ {0}
      BY <3>3, Headers
    <3>5. n = HeaderSize /\ Bit(n) = SubSeq(stream, 1, n)
      BY <3>3, <3>4, Bits
    <3>6. n \in DOMAIN stream /\ stream[n] = <<j, HeaderSize>>
      BY <1>3, <3>4, <3>5, FirstIs
    <3>7. Coming(<<j, HeaderSize + 1>>, n + 0)
      BY <2>1, <3>4, <3>5, <3>6 DEF Followed
    <3> QED  BY <3>7, ComingStill
  <2> QED  BY <1>2, <2>1 DEF BodyComes
<1> QED  BY <1>4, <1>5

-------------------------------------------------------------------------------
(***************************************************************************)
(* Frames begin in order.                                                  *)
(***************************************************************************)
LEMMA LastsGot ==
    ASSUME Typed
    PROVE  LastGot \in 0..Len(sent) /\ Len(got) \in Nat
<1>1. got \in Seq(DOMAIN sent) /\ DOMAIN sent = 1..Len(sent) /\ Len(sent) \in Nat
  BY Targets DEF Typed, FramingTypeOK
<1>2. CASE got = <<>>
  BY <1>1, <1>2 DEF LastGot
<1>3. CASE got # <<>>
  <2>1. Len(got) \in DOMAIN got
    BY <1>1, <1>3, EmptySeq
  <2>2. got[Len(got)] \in DOMAIN sent
    BY <1>1, <2>1
  <2> QED  BY <1>1, <1>3, <2>2 DEF LastGot
<1> QED  BY <1>2, <1>3

LEMMA WriterHeads ==
    ASSUME Typed, Genuine, OnTheWay, HeadsInOrder,
           NEW w \in Writers, NEW q \in Seq(Bytes), NEW n \in Nat,
           Handing(w, q, n), Resumed(w, q) \/ \E f \in Offered : Begun(w, q, f)
    PROVE  HeadsInOrder'
<1>1. expected' = expected /\ got' = got /\ expected \in Nat /\ expected <= Len(sent)
  BY DEF Handing, Typed, FramingTypeOK
<1>2. LastGot' = LastGot
  BY <1>1 DEF LastGot
<1>3. PICK i \in DOMAIN sent', s \in Nat :
          /\ s = Size(i)' /\ Rest(q, i, s)
          /\ \/ Len(q) < s
             \/ i = Len(sent) + 1 /\ Len(q) = s
  BY Sources
<1>4. /\ Len(q) \in Nat /\ \A k \in 1..Len(q) : q[k] = <<i, s - Len(q) + k>>
  BY <1>3 DEF Rest
<1>5. /\ n \in 1..Len(q)
      /\ Unread \in Seq(Bytes) /\ Unread' \in Seq(Bytes)
      /\ Len(Unread') = Len(Unread) + n
  BY Handed
<1>6. /\ \A k \in 1..Len(Unread) : Unread'[k] = Unread[k]
      /\ \A k \in 1..n : Unread'[Len(Unread) + k] = q[k]
  BY Handed
<1>7. ASSUME NEW k \in DOMAIN Unread', NEW j \in DOMAIN sent', Unread'[k] = <<j, 1>>
      PROVE  \/ k \in DOMAIN Unread /\ j \in DOMAIN sent /\ Unread[k] = <<j, 1>>
             \/ k = Len(Unread) + 1 /\ j = Len(sent) + 1
  <2>1. CASE k <= Len(Unread)
    <3>1. k \in DOMAIN Unread /\ Unread[k] = <<j, 1>>
      BY <1>5, <1>6, <1>7, <2>1
    <3> QED  BY <3>1 DEF Genuine
  <2>2. CASE k > Len(Unread)
    <3>1. k \in 1..Len(Unread') /\ Len(Unread) \in Nat
      BY <1>5
    <3>2. PICK l \in 1..n : k = Len(Unread) + l
      <4>1. k - Len(Unread) \in 1..n /\ k \in Nat
        BY <1>5, <2>2, <3>1
      <4>2. k = Len(Unread) + (k - Len(Unread))
        BY <3>1, <4>1
      <4> QED  BY <4>1, <4>2
    <3>3. l \in 1..Len(q) /\ Unread'[k] = q[l]
      BY <1>4, <1>5, <1>6, <3>2
    <3>4. q[l] = <<i, s - Len(q) + l>>
      BY <1>4, <3>3
    <3>5. j = i /\ s - Len(q) + l = 1
      BY <1>7, <3>3, <3>4
    <3>6. l = 1 /\ Len(q) = s
      BY SMTT(30), <1>3, <1>4, <3>3, <3>5
    <3> QED  BY <1>3, <1>4, <3>2, <3>5, <3>6
  <2> QED  BY <1>5, <2>1, <2>2
<1>8. ASSUME NEW k \in DOMAIN Unread', NEW m \in DOMAIN Unread',
             NEW i1 \in DOMAIN sent', NEW i2 \in DOMAIN sent',
             k < m, Unread'[k] = <<i1, 1>>, Unread'[m] = <<i2, 1>>
      PROVE  i1 < i2
  <2>1. Len(Unread) \in Nat /\ DOMAIN Unread = 1..Len(Unread) /\ k \in Nat /\ m \in Nat
    BY <1>5
  <2>2. DOMAIN sent = 1..Len(sent) /\ Len(sent) \in Nat
    BY Targets
  <2>3. CASE m \in DOMAIN Unread /\ i2 \in DOMAIN sent /\ Unread[m] = <<i2, 1>>
    <3>1. k \in DOMAIN Unread /\ i1 \in DOMAIN sent /\ Unread[k] = <<i1, 1>>
      BY <1>7, <1>8, <2>1, <2>3
    <3> QED  BY <1>8, <2>3, <3>1 DEF HeadsInOrder
  <2>4. CASE m = Len(Unread) + 1 /\ i2 = Len(sent) + 1
    <3>1. i1 \in DOMAIN sent
      BY <1>7, <1>8, <2>1, <2>4
    <3> QED  BY <2>2, <2>4, <3>1
  <2> QED  BY <1>7, <1>8, <2>3, <2>4
<1>9. ASSUME NEW k \in DOMAIN Unread', NEW j \in DOMAIN sent', Unread'[k] = <<j, 1>>
      PROVE  j > LastGot /\ j > expected
  <2>1. CASE j \in DOMAIN sent /\ k \in DOMAIN Unread /\ Unread[k] = <<j, 1>>
    BY <2>1 DEF HeadsInOrder
  <2>2. CASE j = Len(sent) + 1
    BY <1>1, <2>2, LastsGot, Targets
  <2> QED  BY <1>7, <1>9, <2>1, <2>2
<1>10. expected # 0 => expected > LastGot
  BY DEF HeadsInOrder
<1> QED  BY <1>1, <1>2, <1>8, <1>9, <1>10 DEF HeadsInOrder

LEMMA ReaderHeads ==
    ASSUME Typed, Genuine, HeadsInOrder, NEW n \in 0..Len(stream),
           Kept(n) \/ Missed(n) \/ Filled(n) \/ \E i \in DOMAIN sent : Found(n, i)
    PROVE  HeadsInOrder'
<1>1. sent' = sent
  BY DEF Taking, Kept, Missed, Filled, Found
<1>2. CASE Kept(n)
  <2>1. expected' = expected /\ got' = got /\ Unread' = Unread
    BY <1>2, Taken DEF Kept
  <2>2. LastGot' = LastGot
    BY <2>1 DEF LastGot
  <2> QED  BY <1>1, <2>1, <2>2 DEF HeadsInOrder
<1>3. CASE ~Kept(n)
  <2> PICK b \in Nat : b = Len(Bit(n))
    BY Bits
  <2>1. /\ Unread' \in Seq(Bytes) /\ Unread \in Seq(Bytes) /\ Len(Unread') = Len(Unread) - b
        /\ \A k \in 1..Len(Unread') : Unread'[k] = Unread[b + k]
    BY <1>3, Taken, Bits
  <2>2. ASSUME NEW k \in DOMAIN Unread'
        PROVE  k \in Nat \ {0} /\ b + k \in DOMAIN Unread /\ Unread'[k] = Unread[b + k]
    <3>1. k \in 1..Len(Unread') /\ k \in Nat \ {0}
      BY <2>1
    <3>2. b + k \in 1..Len(Unread)
      BY <2>1, <3>1
    <3> QED  BY <2>1, <3>1, <3>2
  <2>3. ASSUME NEW k \in DOMAIN Unread', NEW m \in DOMAIN Unread',
               NEW i \in DOMAIN sent, NEW j \in DOMAIN sent,
               k < m, Unread'[k] = <<i, 1>>, Unread'[m] = <<j, 1>>
        PROVE  i < j
    <3>1. b + k < b + m
      BY <2>2, <2>3
    <3> QED  BY <2>2, <2>3, <3>1 DEF HeadsInOrder
  <2>4. ASSUME NEW k \in DOMAIN Unread', NEW j \in DOMAIN sent, Unread'[k] = <<j, 1>>
        PROVE  j > LastGot /\ j > expected
    BY <2>2, <2>4 DEF HeadsInOrder
  \* It is enough that what the reader knows now is earlier than that.
  <2>5. ASSUME \A k \in DOMAIN Unread', j \in DOMAIN sent :
                   Unread'[k] = <<j, 1>> => j > LastGot' /\ j > expected',
               expected' # 0 => expected' > LastGot'
        PROVE  HeadsInOrder'
    BY <1>1, <2>3, <2>5 DEF HeadsInOrder
  <2>6. expected \in Nat /\ \A j \in DOMAIN sent : j \in Nat \ {0}
    BY Targets
  <2>7. got \in Seq(DOMAIN sent)
    BY DEF Typed, FramingTypeOK
  <2>8. ASSUME NEW i \in DOMAIN sent, got' = Append(got, i) PROVE LastGot' = i
    BY <2>7, <2>8 DEF LastGot
  <2>9. got' = got => LastGot' = LastGot
    BY DEF LastGot
  <2>10. CASE Missed(n)
    BY <2>4, <2>5, <2>6, <2>9, <2>10 DEF Missed
  <2>11. CASE Filled(n)
    <3>1. expected' = 0 /\ (got' = got \/ got' = Append(got, expected))
      BY <2>11 DEF Filled, BodyRead, Note
    <3>2. expected \in DOMAIN sent
      BY <2>11, Targets DEF Filled
    <3> QED  BY <2>4, <2>5, <2>6, <2>8, <2>9, <3>1, <3>2
  <2>12. ASSUME NEW i \in DOMAIN sent, Found(n, i) PROVE HeadsInOrder'
    <3>1. /\ expected = 0 /\ Bit(n) = Header(i)
          /\ \/ expected' = i /\ got' = got
             \/ expected' = 0 /\ (got' = got \/ got' = Append(got, i))
      BY <2>12 DEF Found, Note
    <3>2. b = HeaderSize /\ b \in Nat \ {0} /\ Bit(n)[1] = <<i, 1>>
      BY <3>1, Headers
    <3>3. 1 \in DOMAIN Unread /\ Unread[1] = <<i, 1>>
      <4>1. 1 \in 1..Len(Bit(n))
        BY <3>2
      <4>2. Len(Bit(n)) = Len(partial) + n /\ Len(Unread) = Len(partial) + Len(stream)
        BY Bits
      <4>3. Unread[1] = Bit(n)[1]
        BY <4>1, Bits
      <4>4. 1 \in 1..Len(Unread)
        BY <4>1, <4>2, Targets
      <4> QED  BY <2>1, <3>2, <4>3, <4>4
    <3>4. i > LastGot
      BY <3>3 DEF HeadsInOrder
    <3>5. ASSUME NEW k \in DOMAIN Unread', NEW j \in DOMAIN sent, Unread'[k] = <<j, 1>>
          PROVE  j > i
      <4>1. b + k \in DOMAIN Unread /\ Unread[b + k] = <<j, 1>> /\ 1 < b + k
        <5>1. b + k \in DOMAIN Unread /\ Unread[b + k] = <<j, 1>> /\ k \in Nat \ {0}
          BY <2>2, <3>5
        <5> QED  BY <3>2, <5>1
      <4>2. i < j
        BY <3>3, <4>1 DEF HeadsInOrder
      <4> QED  BY <2>6, <4>2
    <3> QED  BY <2>4, <2>5, <2>6, <2>8, <2>9, <3>1, <3>4, <3>5
  <2> QED  BY <1>3, <2>10, <2>11, <2>12
<1> QED  BY <1>2, <1>3

-------------------------------------------------------------------------------
(***************************************************************************)
(* Frames that are not mixed are whole, and in a row.                      *)
(***************************************************************************)
LEMMA OneRest ==
    ASSUME NEW calls, NEW w \in Writers, \A v \in Writers \ {w} : calls[v] = <<>>
    PROVE  Rests(calls) = calls[w]
<1>1. CASE calls[w] = <<>>
  <2>1. \A v \in Writers : calls[v] = <<>>
    BY <1>1
  <2> QED  BY <1>1, <2>1 DEF Rests
<1>2. CASE calls[w] # <<>>
  <2>1. \A v \in Writers : calls[v] # <<>> <=> v = w
    BY <1>2
  <2>2. (CHOOSE v \in Writers : calls[v] # <<>>) = w
    BY <2>1
  <2> QED  BY <1>2, <2>2 DEF Rests
<1> QED  BY <1>1, <1>2

LEMMA Wholes ==
    ASSUME Typed
    PROVE  /\ Backlog \in Seq(Bytes) /\ Whole \in Seq(Bytes) /\ Unread \in Seq(Bytes)
           /\ Len(Whole) = Len(Unread) + Len(Backlog)
           /\ \A k \in 1..Len(Unread) : Whole[k] = Unread[k]
           /\ \A k \in 1..Len(Backlog) : Whole[Len(Unread) + k] = Backlog[k]
           /\ Backlog = <<>> \/ \E w \in Writers : Backlog = pending[w] /\ pending[w] # <<>>
<1>1. pending \in [Writers -> Seq(Bytes)]
  BY DEF Typed, FramingTypeOK
<1>2. Backlog = <<>> \/ \E w \in Writers : Backlog = pending[w] /\ pending[w] # <<>>
  BY DEF Backlog, Rests
<1>3. Backlog \in Seq(Bytes)
  BY <1>1, <1>2, EmptySeq
<1>4. Unread \in Seq(Bytes)
  <2>1. partial \in Seq(Bytes) /\ stream \in Seq(Bytes)
    BY Targets
  <2> QED  BY <2>1, JoinIs DEF Unread
<1>5. /\ Whole \in Seq(Bytes) /\ Len(Whole) = Len(Unread) + Len(Backlog)
      /\ \A k \in 1..Len(Unread) : Whole[k] = Unread[k]
      /\ \A k \in 1..Len(Backlog) : Whole[Len(Unread) + k] = Backlog[k]
  BY <1>3, <1>4, JoinIs DEF Whole
<1> QED  BY <1>2, <1>3, <1>4, <1>5

LEMMA WholeGenuine ==
    ASSUME Typed, Genuine, OnTheWay
    PROVE  \A k \in DOMAIN Whole :
               \E i \in DOMAIN sent : \E p \in 1..Size(i) : Whole[k] = <<i, p>>
<1> SUFFICES ASSUME NEW k \in DOMAIN Whole
             PROVE  \E i \in DOMAIN sent : \E p \in 1..Size(i) : Whole[k] = <<i, p>>
  OBVIOUS
<1>1. /\ Whole \in Seq(Bytes) /\ Unread \in Seq(Bytes) /\ Backlog \in Seq(Bytes)
      /\ Len(Whole) = Len(Unread) + Len(Backlog)
  BY Wholes
<1>2. CASE k <= Len(Unread)
  <2>1. k \in DOMAIN Unread /\ Whole[k] = Unread[k]
    BY <1>1, <1>2, Wholes
  <2> QED  BY <2>1 DEF Genuine
<1>3. CASE k > Len(Unread)
  <2>1. Len(Unread) \in Nat /\ k \in Nat /\ k - Len(Unread) \in 1..Len(Backlog)
    BY <1>1, <1>3
  <2>2. PICK l \in 1..Len(Backlog) : k = Len(Unread) + l
    BY <2>1
  <2>3. Whole[k] = Backlog[l] /\ Backlog # <<>>
    BY <1>1, <2>2, Wholes, EmptySeq
  <2>4. PICK w \in Writers : Backlog = pending[w] /\ pending[w] # <<>>
    BY <2>3, Wholes
  <2>5. PICK i \in DOMAIN sent : Len(Backlog) < Size(i) /\ Rest(Backlog, i, Size(i))
    BY <2>4 DEF OnTheWay
  <2>6. Whole[k] = <<i, Size(i) - Len(Backlog) + l>>
    BY <1>1, <2>2, <2>3, <2>5 DEF Rest
  <2>7. Size(i) - Len(Backlog) + l \in 1..Size(i)
    BY <1>1, <2>2, <2>5, Sizes
  <2> QED  BY <2>6, <2>7
<1> QED  BY <1>1, <1>2, <1>3

\* A writer hands over of what there is, or adds a frame.
LEMMA WriterWhole ==
    ASSUME Typed, OnTheWay, NEW w \in Writers, NEW q \in Seq(Bytes), NEW n \in Nat,
           Handing(w, q, n), Resumed(w, q) \/ \E f \in Offered : Begun(w, q, f),
           ~mixed'
    PROVE  /\ ~mixed /\ Alone'
           /\ \/ Whole' = Whole /\ sent' = sent
              \/ \E i \in DOMAIN sent', s \in Nat \ {0} :
                     /\ i = Len(sent) + 1 /\ i = Len(sent') /\ s = Size(i)'
                     /\ Whole' \in Seq(Bytes) /\ Len(Whole') = Len(Whole) + s
                     /\ \A k \in 1..Len(Whole) : Whole'[k] = Whole[k]
                     /\ \A k \in 1..s : Whole'[Len(Whole) + k] = <<i, k>>
<1>1. ~mixed /\ \A v \in Writers \ {w} : pending[v] = <<>>
  BY DEF Handing
<1>2. /\ \A v \in Writers \ {w} : pending'[v] = pending[v]
      /\ pending'[w] = Drop(q, n) /\ Unread' = Unread \o SubSeq(q, 1, n)
      /\ Unread \in Seq(Bytes) /\ n \in 0..Len(q)
  <2>1. Unread \in Seq(Bytes) /\ Unread' = Unread \o SubSeq(q, 1, n)
    BY Handed
  <2>2. /\ \A v \in Writers \ {w} : pending'[v] = pending[v]
        /\ pending'[w] = Drop(q, n)
    BY Handed
  <2> QED  BY <2>1, <2>2 DEF Handing
<1>3. Alone'
  BY <1>1, <1>2 DEF Alone
<1>4. Backlog = pending[w] /\ Backlog' = Drop(q, n)
  BY <1>1, <1>2, OneRest DEF Backlog
<1>5. Whole' = Unread \o q
  <2>1. Whole' = (Unread \o SubSeq(q, 1, n)) \o Drop(q, n)
    BY <1>2, <1>4 DEF Whole
  <2> QED  BY <1>2, <2>1, Rejoined
<1>6. CASE Resumed(w, q)
  BY <1>1, <1>3, <1>4, <1>5, <1>6 DEF Resumed, Whole
<1>7. ASSUME NEW f \in Offered, Begun(w, q, f)
      PROVE  \E i \in DOMAIN sent', s \in Nat \ {0} :
                     /\ i = Len(sent) + 1 /\ i = Len(sent') /\ s = Size(i)'
                     /\ Whole' \in Seq(Bytes) /\ Len(Whole') = Len(Whole) + s
                     /\ \A k \in 1..Len(Whole) : Whole'[k] = Whole[k]
                     /\ \A k \in 1..s : Whole'[Len(Whole) + k] = <<i, k>>
  <2>1. pending[w] = <<>> /\ sent' = Append(sent, f) /\ link' = link
    BY <1>7 DEF Begun, Handing
  <2>2. sent \in Seq(Offered) /\ link \in Links
    BY DEF Typed, FramingTypeOK
  <2>3. Whole = Unread
    BY <1>2, <1>4, <2>1, ConcatEmptySeq DEF Whole
  <2> PICK i \in Nat \ {0} : i = Len(sent) + 1
    BY <2>2
  <2>4. i = Len(sent') /\ i \in DOMAIN sent' /\ sent'[i] = f
    BY <2>1, <2>2
  <2> DEFINE s == Extent(f)
  <2>5. s \in Nat \ {0} /\ Size(i)' = s
    <3>1. Extent(f) \in Nat /\ HeaderSize <= Extent(f)
      BY <2>2, Frames
    <3> QED  BY <2>1, <2>4, <3>1 DEF Size, Extent, Unsent
  <2>6. Len(q) = s /\ \A k \in 1..s : q[k] = <<i, k>>
    <3>1. Len(q) = s /\ \A k \in DOMAIN q : q[k] = <<i, s - Len(q) + k>>
      BY <1>7 DEF Begun, Rest
    <3>2. ASSUME NEW k \in 1..s PROVE s - Len(q) + k = k
      BY <2>5, <3>1
    <3> QED  BY <3>1, <3>2
  <2>7. /\ Unread \o q \in Seq(Bytes) /\ Len(Unread \o q) = Len(Unread) + Len(q)
        /\ \A k \in 1..Len(Unread) : (Unread \o q)[k] = Unread[k]
        /\ \A k \in 1..Len(q) : (Unread \o q)[Len(Unread) + k] = q[k]
    BY <1>2, JoinIs
  <2> HIDE DEF s
  <2>8. /\ Whole' \in Seq(Bytes) /\ Len(Whole') = Len(Whole) + s
        /\ \A k \in 1..Len(Whole) : Whole'[k] = Whole[k]
        /\ \A k \in 1..s : Whole'[Len(Whole) + k] = <<i, k>>
    <3>1. /\ Whole' \in Seq(Bytes) /\ Len(Whole') = Len(Whole) + s
          /\ \A k \in 1..Len(Whole) : Whole'[k] = Whole[k]
          /\ \A k \in 1..s : Whole'[Len(Whole) + k] = q[k]
      BY Zenon, <1>5, <2>3, <2>6, <2>7
    <3> QED  BY Zenon, <2>6, <3>1
  <2> QED  BY Zenon, <2>4, <2>5, <2>8
<1> QED  BY <1>1, <1>3, <1>6, <1>7

LEMMA WriterUnmixed ==
    ASSUME Typed, Genuine, OnTheWay, Unmixed,
           NEW w \in Writers, NEW q \in Seq(Bytes), NEW n \in Nat,
           Handing(w, q, n), Resumed(w, q) \/ \E f \in Offered : Begun(w, q, f)
    PROVE  Unmixed'
<1> SUFFICES ASSUME ~mixed' PROVE Alone' /\ Unbroken' /\ InARow'
  BY DEF Unmixed
<1>1. ~mixed /\ Alone' /\ Unbroken /\ InARow /\ link' = link
  BY WriterWhole DEF Unmixed, Handing
<1>2. \A j \in DOMAIN sent : Size(j)' = Size(j)
  BY <1>1, SentGrows
<1>3. CASE Whole' = Whole /\ sent' = sent
  <2>1. ASSUME NEW k \in DOMAIN Whole, NEW j \in DOMAIN sent, NEW p \in Nat, NEW m \in Nat,
               Whole[k] = <<j, p>>, p + m <= Size(j)'
        PROVE  k + m <= Len(Whole) /\ Whole[k + m] = <<j, p + m>>
    BY <1>1, <1>2, <2>1 DEF Unbroken
  <2>2. Unbroken'
    BY <1>3, <2>1 DEF Unbroken
  <2>3. ASSUME NEW k \in DOMAIN Whole, NEW j \in DOMAIN sent, Whole[k] = <<j, Size(j)'>>
        PROVE  IF k = Len(Whole) THEN j = Len(sent) ELSE Whole[k + 1] = <<j + 1, 1>>
    BY <1>1, <1>2, <2>3 DEF InARow
  <2>4. InARow'
    BY <1>3, <2>3 DEF InARow
  <2> QED  BY <1>1, <2>2, <2>4
<1>4. ASSUME NEW i \in DOMAIN sent', NEW s \in Nat \ {0},
             i = Len(sent) + 1, i = Len(sent'), s = Size(i)',
             Whole' \in Seq(Bytes), Len(Whole') = Len(Whole) + s,
             \A k \in 1..Len(Whole) : Whole'[k] = Whole[k],
             \A k \in 1..s : Whole'[Len(Whole) + k] = <<i, k>>
      PROVE  Unbroken' /\ InARow'
  <2>1. Whole \in Seq(Bytes) /\ Len(Whole) \in Nat
    BY Wholes
  <2>2. ASSUME NEW k \in DOMAIN Whole', NEW j \in DOMAIN sent', NEW p \in Nat,
               Whole'[k] = <<j, p>>
        PROVE  \/ k \in DOMAIN Whole /\ j \in DOMAIN sent /\ Whole[k] = <<j, p>>
               \/ k = Len(Whole) + p /\ p \in 1..s /\ j = i
    <3>1. k \in Nat /\ k \in 1..(Len(Whole) + s)
      BY <1>4
    <3>2. CASE k <= Len(Whole)
      <4>1. k \in DOMAIN Whole /\ Whole[k] = <<j, p>>
        BY <1>4, <2>1, <2>2, <3>1, <3>2
      <4> QED  BY <4>1, WholeGenuine
    <3>3. CASE k > Len(Whole)
      <4>1. PICK l \in 1..s : k = Len(Whole) + l
        <5>1. k - Len(Whole) \in 1..s /\ k = Len(Whole) + (k - Len(Whole))
          BY <2>1, <3>1, <3>3
        <5> QED  BY <5>1
      <4>2. Whole'[k] = <<i, l>>
        BY <1>4, <4>1
      <4> QED  BY <2>2, <4>1, <4>2
    <3> QED  BY <2>1, <3>1, <3>2, <3>3
  <2>3. ASSUME NEW k \in DOMAIN Whole', NEW j \in DOMAIN sent', NEW p \in Nat, NEW m \in Nat,
               Whole'[k] = <<j, p>>, p + m <= Size(j)'
        PROVE  k + m <= Len(Whole') /\ Whole'[k + m] = <<j, p + m>>
    <3>1. CASE k \in DOMAIN Whole /\ j \in DOMAIN sent /\ Whole[k] = <<j, p>>
      <4>1. k + m <= Len(Whole) /\ Whole[k + m] = <<j, p + m>>
        <5>1. p + m <= Size(j)
          BY <1>2, <2>3, <3>1
        <5> QED  BY ZenonT(30), <1>1, <3>1, <5>1 DEF Unbroken
      <4>2. k + m \in 1..Len(Whole)
        BY <2>1, <3>1, <4>1
      <4> QED  BY SMTT(30), <1>4, <2>1, <4>1, <4>2
    <3>2. CASE k = Len(Whole) + p /\ p \in 1..s /\ j = i
      <4>1. p + m \in 1..s /\ k + m = Len(Whole) + (p + m)
        BY <1>4, <2>1, <2>3, <3>2
      <4>2. Whole'[Len(Whole) + (p + m)] = <<i, p + m>>
        BY <1>4, <4>1
      <4>3. k + m <= Len(Whole')
        BY <1>4, <2>1, <4>1
      <4> QED  BY <3>2, <4>1, <4>2, <4>3
    <3> QED  BY <2>2, <2>3, <3>1, <3>2
  <2>4. Unbroken'
    BY <2>3 DEF Unbroken
  <2>5. ASSUME NEW k \in DOMAIN Whole', NEW j \in DOMAIN sent', NEW p \in Nat, p = Size(j)',
               Whole'[k] = <<j, p>>
        PROVE  IF k = Len(Whole') THEN j = Len(sent') ELSE Whole'[k + 1] = <<j + 1, 1>>
    <3>1. CASE k \in DOMAIN Whole /\ j \in DOMAIN sent /\ Whole[k] = <<j, p>>
      <4>1. IF k = Len(Whole) THEN j = Len(sent) ELSE Whole[k + 1] = <<j + 1, 1>>
        BY <1>1, <1>2, <2>5, <3>1 DEF InARow
      <4>2. k \in 1..Len(Whole) /\ k # Len(Whole')
        BY <1>4, <2>1, <3>1
      <4>3. CASE k = Len(Whole)
        BY <1>4, <4>1, <4>2, <4>3
      <4>4. CASE k # Len(Whole)
        <5>1. k + 1 \in 1..Len(Whole)
          BY <2>1, <4>2, <4>4
        <5> QED  BY <1>4, <4>1, <4>2, <4>4, <5>1
      <4> QED  BY <4>3, <4>4
    <3>2. CASE k = Len(Whole) + p /\ p \in 1..s /\ j = i
      BY <1>4, <2>5, <3>2
    <3> QED  BY <2>2, <2>5, <3>1, <3>2
  <2>6. InARow'
    <3>1. ASSUME NEW j \in DOMAIN sent' PROVE Size(j)' \in Nat
      <4>1. CASE j \in DOMAIN sent
        BY <1>2, <4>1, Sizes
      <4>2. CASE j \notin DOMAIN sent
        <5>1. DOMAIN sent = 1..Len(sent) /\ Len(sent) \in Nat
          BY Targets
        <5>2. DOMAIN sent' = 1..Len(sent')
          BY <1>1, SentGrows
        <5>3. j = i
          BY <1>4, <4>2, <5>1, <5>2
        <5> QED  BY <1>4, <5>3
      <4> QED  BY <4>1, <4>2
    <3> QED  BY <2>5, <3>1 DEF InARow
  <2> QED  BY <2>4, <2>6
<1>5. \/ Whole' = Whole /\ sent' = sent
      \/ \E i \in DOMAIN sent', s \in Nat \ {0} :
             /\ i = Len(sent) + 1 /\ i = Len(sent') /\ s = Size(i)'
             /\ Whole' \in Seq(Bytes) /\ Len(Whole') = Len(Whole) + s
             /\ \A k \in 1..Len(Whole) : Whole'[k] = Whole[k]
             /\ \A k \in 1..s : Whole'[Len(Whole) + k] = <<i, k>>
  BY WriterWhole
<1> QED  BY <1>1, <1>3, <1>4, <1>5

LEMMA WriterInStep ==
    ASSUME Typed, OnTheWay, ClientInStep, RustInStep, InStep,
           NEW w \in Writers, NEW q \in Seq(Bytes), NEW n \in Nat,
           Handing(w, q, n), Resumed(w, q) \/ \E f \in Offered : Begun(w, q, f)
    PROVE  ClientInStep' /\ RustInStep' /\ InStep'
<1>1. link' = link /\ expected' = expected /\ got' = got /\ short' = short
  BY DEF Handing
<1>2. /\ DOMAIN sent \subseteq DOMAIN sent'
      /\ \A j \in DOMAIN sent : sent'[j] = sent[j]
  BY <1>1, SentGrows
<1>3. (BodyMissing => BodyMissing') /\ (Wrapped => Wrapped') /\ (mixed => mixed')
  BY <1>1, <1>2 DEF BodyMissing, Wrapped, Unsent, Handing
<1>4. Whole \in Seq(Bytes) /\ DOMAIN sent = 1..Len(sent) /\ Len(sent) \in Nat
  BY Wholes, Targets
<1>5. ASSUME ~mixed', Whole # <<>>
      PROVE  Whole' # <<>> /\ Whole'[1] = Whole[1]
  <2>1. 1 \in 1..Len(Whole) /\ Len(Whole) \in Nat \ {0}
    BY <1>4, <1>5, EmptySeq
  <2>2. \/ Whole' = Whole
        \/ \E s \in Nat \ {0} :
              /\ Whole' \in Seq(Bytes) /\ Len(Whole') = Len(Whole) + s
              /\ \A k \in 1..Len(Whole) : Whole'[k] = Whole[k]
    BY <1>5, WriterWhole
  <2> QED  BY <1>5, <2>1, <2>2, EmptySeq
<1>6. ASSUME ~mixed', Whole = <<>>
      PROVE  \/ Whole' = <<>> /\ sent' = sent
             \/ \E i \in DOMAIN sent' : i = Len(sent) + 1 /\ Whole' # <<>> /\ Whole'[1] = <<i, 1>>
  <2>1. Len(Whole) = 0
    BY <1>6
  <2>2. \/ Whole' = Whole /\ sent' = sent
        \/ \E i \in DOMAIN sent', s \in Nat \ {0} :
              /\ i = Len(sent) + 1
              /\ Whole' \in Seq(Bytes) /\ Len(Whole') = Len(Whole) + s
              /\ \A k \in 1..s : Whole'[Len(Whole) + k] = <<i, k>>
    BY <1>6, WriterWhole
  <2>3. ASSUME NEW i \in DOMAIN sent', NEW s \in Nat \ {0},
               i = Len(sent) + 1, Whole' \in Seq(Bytes), Len(Whole') = Len(Whole) + s,
               \A k \in 1..s : Whole'[Len(Whole) + k] = <<i, k>>
        PROVE  Whole' # <<>> /\ Whole'[1] = <<i, 1>>
    <3>1. 1 \in 1..s /\ Len(Whole) + 1 = 1 /\ Len(Whole') # 0
      BY <2>1, <2>3
    <3> QED  BY <2>3, <3>1, EmptySeq
  <2> QED  BY <1>6, <2>2, <2>3
<1>7. ASSUME ~mixed', BodyIsNext PROVE BodyIsNext'
  BY <1>1, <1>5, <1>7 DEF BodyIsNext
<1>8. ClientInStep'
  BY <1>1, <1>3, <1>7 DEF ClientInStep
<1>9. RustInStep'
  <2> SUFFICES ASSUME link.to = "rust", ~mixed', ~Wrapped'
               PROVE  IF expected = 0
                      THEN Whole' = <<>> \/ \E i \in DOMAIN sent' : Whole'[1] = <<i, 1>>
                      ELSE BodyIsNext'
    BY <1>1 DEF RustInStep
  <2>1. CASE expected # 0
    BY <1>3, <1>7, <2>1 DEF RustInStep
  <2>2. CASE expected = 0 /\ Whole = <<>>
    BY <1>6, <2>2
  <2>3. CASE expected = 0 /\ Whole # <<>>
    <3>1. PICK i \in DOMAIN sent : Whole[1] = <<i, 1>>
      BY <1>3, <2>3 DEF RustInStep
    <3> QED  BY <1>2, <1>5, <2>3, <3>1
  <2> QED  BY <2>1, <2>2, <2>3
<1>10. InStep'
  <2> SUFFICES ASSUME ~Upset'
               PROVE  /\ \A k \in DOMAIN got : got[k] = k
                      /\ IF expected = 0
                         THEN IF Whole' = <<>> THEN Len(got) = Len(sent')
                                               ELSE Whole'[1] = <<Len(got) + 1, 1>>
                         ELSE expected = Len(got) + 1 /\ BodyIsNext'
    <3> HIDE DEF Upset
    <3>1. BodyIsNext' <=> (Whole' # <<>> /\ Whole'[1] = <<expected, HeaderSize + 1>>)
      BY <1>1 DEF BodyIsNext
    <3> QED  BY <1>1 DEF InStep
  <2>1. ~Upset /\ ~mixed'
    BY <1>1, <1>3 DEF Upset
  <2>2. CASE expected # 0
    BY <1>7, <2>1, <2>2 DEF InStep
  <2>3. CASE expected = 0 /\ Whole = <<>>
    <3>1. Len(got) = Len(sent) /\ \A k \in DOMAIN got : got[k] = k
      BY <2>1, <2>3 DEF InStep
    <3> QED  BY <1>6, <2>1, <2>3, <3>1
  <2>4. CASE expected = 0 /\ Whole # <<>>
    BY <1>5, <2>1, <2>4 DEF InStep
  <2> QED  BY <2>2, <2>3, <2>4
<1> QED  BY <1>8, <1>9, <1>10

\* What a reader's step does to it all: nothing, or it takes the first Bit(n).
LEMMA ReaderWhole ==
    ASSUME Typed, NEW n \in 0..Len(stream),
           Kept(n) \/ Missed(n) \/ Filled(n) \/ \E i \in DOMAIN sent : Found(n, i)
    PROVE  /\ Kept(n) => Whole' = Whole
           /\ Whole \in Seq(Bytes) /\ Bit(n) \in Seq(Bytes) /\ Len(Bit(n)) <= Len(Whole)
           /\ \A k \in 1..Len(Bit(n)) : Bit(n)[k] = Whole[k]
           /\ ~Kept(n) => /\ Whole' \in Seq(Bytes)
                          /\ Len(Whole') = Len(Whole) - Len(Bit(n))
                          /\ \A k \in 1..Len(Whole') : Whole'[k] = Whole[Len(Bit(n)) + k]
<1>1. Backlog' = Backlog
  BY DEF Taking, Kept, Missed, Filled, Found, Backlog
<1>2. Kept(n) => Whole' = Whole
  BY <1>1, Taken DEF Whole
<1>3. /\ Backlog \in Seq(Bytes) /\ Whole \in Seq(Bytes) /\ Unread \in Seq(Bytes)
      /\ Len(Whole) = Len(Unread) + Len(Backlog)
      /\ \A k \in 1..Len(Unread) : Whole[k] = Unread[k]
  BY Wholes
<1>4. /\ Bit(n) \in Seq(Bytes) /\ Len(Bit(n)) = Len(partial) + n
      /\ Len(Unread) = Len(partial) + Len(stream)
      /\ \A k \in 1..Len(Bit(n)) : Bit(n)[k] = Unread[k]
  BY Bits
<1>5. partial \in Seq(Bytes) /\ stream \in Seq(Bytes)
  BY Targets
<1>6. Len(Bit(n)) <= Len(Unread)
  BY <1>4, <1>5
<1>7. \A k \in 1..Len(Bit(n)) : Bit(n)[k] = Whole[k]
  BY <1>3, <1>4, <1>6
<1>8. ASSUME ~Kept(n)
      PROVE  Whole' = Drop(Whole, Len(Bit(n)))
  <2>1. Whole' = Drop(stream, n) \o Backlog
    BY <1>1, <1>8, Taken DEF Whole
  <2>2. Drop(stream, n) \o Backlog = Drop((partial \o stream) \o Backlog, Len(partial) + n)
    <3>1. /\ Drop(stream, n) \o Backlog = Drop((partial \o stream) \o Backlog, Len(partial) + n)
          /\ partial \o SubSeq(stream, 1, n)
               = SubSeq((partial \o stream) \o Backlog, 1, Len(partial) + n)
      <4>1. /\ partial \in Seq(Bytes) /\ stream \in Seq(Bytes) /\ Backlog \in Seq(Bytes)
            /\ n \in 0..Len(stream)
        BY <1>3, <1>5
      <4> QED  BY ONLY <4>1, ReadOff
    <3> QED  BY <3>1
  <2> QED  BY <1>4, <2>1, <2>2 DEF Whole, Unread
<1>9. Len(Bit(n)) \in 0..Len(Whole)
  BY <1>3, <1>4, <1>6
<1>10. LET d == Drop(Whole, Len(Bit(n))) IN
       /\ d \in Seq(Bytes) /\ Len(d) = Len(Whole) - Len(Bit(n))
       /\ \A k \in 1..(Len(Whole) - Len(Bit(n))) : d[k] = Whole[Len(Bit(n)) + k]
  BY <1>3, <1>9, DropIs
<1> QED  BY <1>2, <1>3, <1>4, <1>7, <1>8, <1>9, <1>10

\* After the byte that was read last comes the next.
LEMMA Onward ==
    ASSUME Typed, Unmixed, ~mixed, NEW n \in 0..Len(stream), ~Kept(n),
           Missed(n) \/ Filled(n) \/ \E j \in DOMAIN sent : Found(n, j),
           NEW i \in DOMAIN sent, NEW p \in Nat,
           Len(Bit(n)) > 0, Whole[Len(Bit(n))] = <<i, p>>
    PROVE  /\ p < Size(i) => Whole' # <<>> /\ Whole'[1] = <<i, p + 1>>
           /\ p = Size(i) => IF Whole' = <<>> THEN i = Len(sent)
                                              ELSE Whole'[1] = <<i + 1, 1>>
<1> PICK b \in Nat \ {0} : b = Len(Bit(n))
  BY Bits
<1>1. /\ Whole \in Seq(Bytes) /\ b <= Len(Whole) /\ Whole' \in Seq(Bytes)
      /\ Len(Whole') = Len(Whole) - b
      /\ \A k \in 1..Len(Whole') : Whole'[k] = Whole[b + k]
  BY ReaderWhole
<1>2. Unbroken /\ InARow /\ Size(i) \in Nat /\ b \in DOMAIN Whole /\ Whole[b] = <<i, p>>
  BY <1>1, Sizes DEF Unmixed
<1>3. ASSUME p < Size(i) PROVE Whole' # <<>> /\ Whole'[1] = <<i, p + 1>>
  <2>1. p + 1 <= Size(i)
    BY <1>2, <1>3
  <2>2. b + 1 <= Len(Whole) /\ Whole[b + 1] = <<i, p + 1>>
    BY <1>2, <2>1 DEF Unbroken
  <2>3. 1 \in 1..Len(Whole')
    BY <1>1, <2>2
  <2> QED  BY <1>1, <2>2, <2>3, EmptySeq
<1>4. ASSUME p = Size(i)
      PROVE  IF Whole' = <<>> THEN i = Len(sent) ELSE Whole'[1] = <<i + 1, 1>>
  <2>1. IF b = Len(Whole) THEN i = Len(sent) ELSE Whole[b + 1] = <<i + 1, 1>>
    BY <1>2, <1>4 DEF InARow
  <2>2. CASE Whole' = <<>>
    <3>1. Len(Whole') = 0
      BY <2>2
    <3> QED  BY <1>1, <2>1, <2>2, <3>1
  <2>3. CASE Whole' # <<>>
    <3>1. 1 \in 1..Len(Whole')
      BY <1>1, <2>3, EmptySeq
    <3> QED  BY <1>1, <2>1, <2>3, <3>1
  <2> QED  BY <2>2, <2>3
<1> QED  BY <1>3, <1>4

LEMMA ReaderUnmixed ==
    ASSUME Typed, Unmixed, NEW n \in 0..Len(stream),
           Kept(n) \/ Missed(n) \/ Filled(n) \/ \E i \in DOMAIN sent : Found(n, i)
    PROVE  Unmixed'
<1>1. Taking(n)
  BY DEF Kept, Missed, Filled, Found
<1>2. /\ \A j : Size(j)' = Size(j)
      /\ sent' = sent /\ pending' = pending /\ mixed' = mixed
  BY <1>1, TakingKeeps DEF Taking
<1> SUFFICES ASSUME ~mixed PROVE Alone' /\ Unbroken' /\ InARow'
  BY <1>2 DEF Unmixed
<1>3. Alone' /\ Unbroken /\ InARow
  BY <1>2 DEF Unmixed, Alone
<1>4. CASE Kept(n)
  <2>1. Whole' = Whole
    BY <1>4, ReaderWhole
  <2> QED  BY <1>2, <1>3, <2>1 DEF Unbroken, InARow
<1>5. CASE ~Kept(n)
  <2> PICK b \in Nat : b = Len(Bit(n))
    BY Bits
  <2>1. /\ Whole \in Seq(Bytes) /\ b <= Len(Whole) /\ Whole' \in Seq(Bytes)
        /\ Len(Whole') = Len(Whole) - b
        /\ \A k \in 1..Len(Whole') : Whole'[k] = Whole[b + k]
    BY <1>5, ReaderWhole
  <2>2. ASSUME NEW k \in DOMAIN Whole'
        PROVE  /\ k \in Nat /\ b + k \in DOMAIN Whole /\ Whole'[k] = Whole[b + k]
    <3>1. k \in 1..Len(Whole')
      BY <2>1
    <3>2. k \in Nat /\ b + k \in 1..Len(Whole)
      BY <2>1, <3>1
    <3>3. b + k \in DOMAIN Whole
      BY <2>1, <3>2
    <3>4. Whole'[k] = Whole[b + k]
      BY <2>1, <3>1
    <3> QED  BY <3>2, <3>3, <3>4
  <2>3. ASSUME NEW k \in DOMAIN Whole', NEW j \in DOMAIN sent, NEW p \in Nat, NEW m \in Nat,
               Whole'[k] = <<j, p>>, p + m <= Size(j)
        PROVE  k + m <= Len(Whole') /\ Whole'[k + m] = <<j, p + m>>
    <3>1. (b + k) + m <= Len(Whole) /\ Whole[(b + k) + m] = <<j, p + m>>
      <4>1. b + k \in DOMAIN Whole /\ Whole[b + k] = <<j, p>>
        BY <2>2, <2>3
      <4> QED  BY <1>3, <2>3, <4>1 DEF Unbroken
    <3>2. k \in 1..Len(Whole') /\ Len(Whole) \in Nat /\ k \in Nat
      BY <2>1
    <3>3. b + (k + m) = (b + k) + m /\ k + m <= Len(Whole) - b /\ k + m > 0
      BY <3>1, <3>2
    <3>4. k + m \in 1..Len(Whole')
      <4>1. k + m <= Len(Whole')
        BY <2>1, <3>3
      <4> QED  BY <3>2, <3>3, <4>1
    <3>5. Whole'[k + m] = Whole[b + (k + m)]
      BY <2>1, <3>4
    <3> QED  BY <3>1, <3>3, <3>4, <3>5
  <2>4. ASSUME NEW k \in DOMAIN Whole', NEW j \in DOMAIN sent, Whole'[k] = <<j, Size(j)>>
        PROVE  IF k = Len(Whole') THEN j = Len(sent) ELSE Whole'[k + 1] = <<j + 1, 1>>
    <3>1. IF b + k = Len(Whole) THEN j = Len(sent) ELSE Whole[(b + k) + 1] = <<j + 1, 1>>
      BY <1>3, <2>2, <2>4 DEF InARow
    <3>2. k \in 1..Len(Whole') /\ Len(Whole) \in Nat /\ Len(Whole') \in Nat
      BY <2>1
    <3>3. CASE k = Len(Whole')
      BY <2>1, <3>1, <3>2, <3>3
    <3>4. CASE k # Len(Whole')
      <4>1. k \in Nat /\ k < Len(Whole')
        BY <3>2, <3>4
      <4>2. k + 1 \in 1..Len(Whole') /\ b + (k + 1) = (b + k) + 1
        BY <3>2, <4>1
      <4>3. b + k # Len(Whole)
        BY <2>1, <3>2, <4>1
      <4>4. Whole'[k + 1] = Whole[b + (k + 1)]
        BY <2>1, <4>2
      <4> QED  BY <3>1, <3>4, <4>2, <4>3, <4>4
    <3> QED  BY <3>3, <3>4
  <2>5. Unbroken'
    BY <1>2, <2>3 DEF Unbroken
  <2>6. InARow'
    BY <1>2, <2>4 DEF InARow
  <2> QED  BY <1>3, <2>5, <2>6
<1> QED  BY <1>4, <1>5

-------------------------------------------------------------------------------
(***************************************************************************)
(* The reader's end of it.                                                 *)
(***************************************************************************)

\* Where lengths fit, a reader takes for a body what is one.
LEMMA BodiesHaveHeaders ==
    ASSUME Typed, NEW i \in DOMAIN sent
    PROVE  /\ HasBody(i) => sent[i].size > 0
           /\ HasBody(i) /\ ~Unsent(sent[i]) => HeaderSize < Size(i)
           /\ ~HasBody(i) /\ ~Wrapped => /\ sent[i].size = 0 /\ sent[i].type # "MESSAGE"
                                         /\ HeaderSize = Size(i)
<1>1. /\ sent[i] \in Offered /\ Announces(i) \in Nat /\ Announces(i) <= sent[i].size
      /\ ~Wrapped => Announces(i) = sent[i].size
      /\ HasBody(i) /\ link.to # "rust" => sent[i].size > 0
      /\ HasBody(i) /\ link.to = "rust" => Announces(i) > 0
  BY Announcements
<1>2. link \in Links
  BY DEF Typed, FramingTypeOK
<1>3. sent[i].size \in Nat
  BY <1>1, <1>2, Frames
<1>4. HasBody(i) => sent[i].size > 0
  BY <1>1, <1>3
<1>5. ASSUME ~HasBody(i), ~Wrapped PROVE sent[i].size = 0
  <2>1. CASE link.to = "rust"
    BY <1>1, <1>3, <1>5, <2>1 DEF HasBody
  <2>2. CASE link.to = "cpp"
    BY <1>1, <1>2, <1>5, <2>2, Frames DEF HasBody
  <2>3. CASE link.to = "client"
    BY <1>1, <1>2, <1>5, <2>3, Frames DEF HasBody
  <2> QED  BY <1>2, <2>1, <2>2, <2>3, Ends
<1>6. sent[i].size = 0 => sent[i].type # "MESSAGE"
  BY <1>1, <1>2, Frames
<1>7. /\ ~Unsent(sent[i]) => Size(i) = HeaderSize + sent[i].size
      /\ Unsent(sent[i]) => Size(i) = HeaderSize
  BY Sizes
<1> QED  BY <1>3, <1>4, <1>5, <1>6, <1>7

\* What has been read of a body that came next is of that body.
LEMMA BodyBytes ==
    ASSUME Typed, Unmixed, ~mixed, NEW n \in 0..Len(stream), Filled(n), BodyIsNext,
           ~Unsent(sent[expected])
    PROVE  /\ expected \in DOMAIN sent /\ Len(Bit(n)) \in Nat
           /\ Len(Bit(n)) <= Announces(expected)
           /\ \A p \in 1..Len(Bit(n)) : Bit(n)[p] = <<expected, HeaderSize + p>>
<1>1. expected \in DOMAIN sent /\ Len(Bit(n)) \in Nat
  BY Targets, Bits DEF Filled
<1>2. Announces(expected) \in Nat /\ Announces(expected) <= sent[expected].size
  BY <1>1, Announcements
<1>3. Len(Bit(n)) <= Announces(expected)
  <2>1. Len(Bit(n)) = Announces(expected) \/ Len(Bit(n)) < Announces(expected)
    BY DEF Filled
  <2> QED  BY <1>1, <1>2, <2>1
<1>4. Size(expected) = HeaderSize + sent[expected].size /\ sent[expected].size \in Nat
  <2>1. sent[expected] \in Offered /\ link \in Links
    BY <1>1, Announcements DEF Typed, FramingTypeOK
  <2> QED  BY <1>1, <2>1, Sizes, Frames
<1>5. ASSUME NEW p \in 1..Len(Bit(n)) PROVE Bit(n)[p] = <<expected, HeaderSize + p>>
  <2>1. Bit(n)[p] = Whole[p] /\ Whole \in Seq(Bytes)
    BY ReaderWhole
  <2>2. 1 \in DOMAIN Whole /\ Whole[1] = <<expected, HeaderSize + 1>>
    BY <2>1, EmptySeq DEF BodyIsNext
  <2>3. /\ HeaderSize + 1 \in Nat /\ p - 1 \in Nat
        /\ (HeaderSize + 1) + (p - 1) <= Size(expected)
        /\ (HeaderSize + 1) + (p - 1) = HeaderSize + p /\ 1 + (p - 1) = p
    BY <1>1, <1>2, <1>3, <1>4
  <2>4. Whole[1 + (p - 1)] = <<expected, (HeaderSize + 1) + (p - 1)>>
    <3>1. Unbroken
      BY DEF Unmixed
    <3> QED  BY Zenon, <1>1, <2>2, <2>3, <3>1 DEF Unbroken
  <2> QED  BY <2>1, <2>3, <2>4
<1> QED  BY <1>1, <1>3, <1>5

\* When all of it has been read, the next frame comes.
LEMMA BodyDone ==
    ASSUME Typed, Unmixed, ~mixed, NEW n \in 0..Len(stream), Filled(n), BodyIsNext,
           ~Unsent(sent[expected]), ~Wrapped, Len(Bit(n)) = Announces(expected)
    PROVE  /\ Matches(expected, Bit(n)) /\ Bit(n) # <<>>
           /\ IF Whole' = <<>> THEN expected = Len(sent) ELSE Whole'[1] = <<expected + 1, 1>>
<1>1. /\ expected \in DOMAIN sent /\ Len(Bit(n)) \in Nat
      /\ \A p \in 1..Len(Bit(n)) : Bit(n)[p] = <<expected, HeaderSize + p>>
  BY BodyBytes
<1>2. /\ sent[expected] \in Offered /\ link \in Links
      /\ Announces(expected) = sent[expected].size
  BY <1>1, Announcements DEF Typed, FramingTypeOK
<1>3. sent[expected].size \in Nat /\ sent[expected].zeros \in Nat
  BY <1>2, Frames
<1>4. HasBody(expected)
  BY DEF Typed, Filled
<1>5. sent[expected].size > 0 /\ Size(expected) = HeaderSize + sent[expected].size
  BY <1>1, <1>4, BodiesHaveHeaders, Sizes
<1>6. Bit(n) \in Seq(Bytes)
  BY Bits
<1>7. Matches(expected, Bit(n))
  <2>1. \A p \in DOMAIN Bit(n) : Bit(n)[p] = <<expected, HeaderSize + p>>
    <3>1. DOMAIN Bit(n) = 1..Len(Bit(n))
      BY <1>6
    <3> QED  BY <1>1, <3>1
  <2>2. Len(Bit(n)) + sent[expected].zeros >= sent[expected].size
    BY <1>1, <1>2, <1>3
  <2> QED  BY <1>2, <2>1, <2>2 DEF Matches
<1>8. Bit(n) # <<>>
  BY <1>2, <1>5, EmptySeq
<1> DEFINE b == Len(Bit(n))
<1>9. b > 0 /\ b \in 1..b
  BY <1>1, <1>2, <1>5
<1>10. Whole[b] = <<expected, HeaderSize + b>>
  BY <1>1, <1>9, ReaderWhole
<1>11. HeaderSize + b = Size(expected) /\ HeaderSize + b \in Nat
  BY <1>1, <1>2, <1>5
<1>12. ~Kept(n)
  <2>1. partial' = <<>> /\ Len(Bit(n)) # 0
    BY <1>9 DEF Filled
  <2> QED  BY <2>1, <1>8 DEF Kept
<1> HIDE DEF b
<1>13. IF Whole' = <<>> THEN expected = Len(sent) ELSE Whole'[1] = <<expected + 1, 1>>
  BY <1>1, <1>9, <1>10, <1>11, <1>12, Onward DEF b
<1> QED  BY <1>7, <1>8, <1>13

\* A header that came next is found.
LEMMA HeaderIsFound ==
    ASSUME Typed, Unmixed, ~mixed, NEW n \in 0..Len(stream), Missed(n),
           NEW i \in DOMAIN sent, Whole = <<>> \/ Whole[1] = <<i, 1>>
    PROVE  short' /\ link.to # "rust"
<1> SUFFICES ASSUME Len(Bit(n)) = HeaderSize, \A j \in DOMAIN sent : Bit(n) # Header(j)
             PROVE  FALSE
  BY DEF Missed
<1>1. /\ Whole \in Seq(Bytes) /\ Bit(n) \in Seq(Bytes) /\ HeaderSize <= Len(Whole)
      /\ \A k \in 1..HeaderSize : Bit(n)[k] = Whole[k]
  BY ReaderWhole
<1>2. Len(<<>>) = 0 /\ HeaderSize \in Nat \ {0}
  OBVIOUS
<1>3. 1 \in DOMAIN Whole /\ Whole[1] = <<i, 1>>
  BY <1>1, <1>2
<1>4. Size(i) \in Nat /\ HeaderSize <= Size(i)
  BY Sizes
<1>5. ASSUME NEW k \in 1..HeaderSize PROVE Bit(n)[k] = <<i, k>>
  <2> PICK m \in Nat : k = 1 + m
    <3> k - 1 \in Nat /\ k = 1 + (k - 1)
      BY <1>2
    <3> QED  OBVIOUS
  <2>1. 1 + m <= Size(i)
    BY <1>2, <1>4
  <2>2. Unbroken
    BY DEF Unmixed
  <2>3. \A p \in Nat : Whole[1] = <<i, p>> /\ p + m <= Size(i) => Whole[1 + m] = <<i, p + m>>
    BY <1>3, <2>2 DEF Unbroken
  <2>4. Whole[1 + m] = <<i, 1 + m>>
    BY <1>3, <2>1, <2>3
  <2> QED  BY <1>1, <2>4
<1>6. Bit(n) = [k \in 1..HeaderSize |-> <<i, k>>]
  <2>1. Bit(n) = [k \in 1..HeaderSize |-> Bit(n)[k]]
    BY <1>1, <1>2
  <2> QED  BY <1>5, <2>1
<1> QED  BY <1>6 DEF Header

\* What comes after a header that has been found.
LEMMA HeaderDone ==
    ASSUME Typed, Unmixed, NEW n \in 0..Len(stream),
           NEW i \in DOMAIN sent, Found(n, i)
    PROVE  /\ Whole # <<>> /\ Whole[1] = <<i, 1>>
           /\ ~mixed /\ HeaderSize < Size(i) =>
                  Whole' # <<>> /\ Whole'[1] = <<i, HeaderSize + 1>>
           /\ ~mixed /\ HeaderSize = Size(i) =>
                  IF Whole' = <<>> THEN i = Len(sent) ELSE Whole'[1] = <<i + 1, 1>>
<1>1. Bit(n) = Header(i)
  BY DEF Found
<1>2. Len(Bit(n)) = HeaderSize /\ \A k \in 1..HeaderSize : Bit(n)[k] = <<i, k>>
  BY <1>1, Headers
<1>3. /\ Whole \in Seq(Bytes) /\ Bit(n) \in Seq(Bytes) /\ HeaderSize <= Len(Whole)
      /\ \A k \in 1..HeaderSize : Bit(n)[k] = Whole[k]
  BY <1>2, ReaderWhole
<1>4. HeaderSize \in Nat \ {0} /\ 1 \in 1..HeaderSize /\ HeaderSize \in 1..HeaderSize
  OBVIOUS
<1>5. Whole # <<>> /\ Whole[1] = <<i, 1>> /\ Whole[HeaderSize] = <<i, HeaderSize>>
  <2>1. Len(<<>>) = 0
    OBVIOUS
  <2> QED  BY <1>2, <1>3, <1>4, <2>1
<1>6. ~Kept(n)
  <2>1. Bit(n) # <<>> /\ partial' = <<>>
    BY <1>2, <1>4 DEF Found
  <2> QED  BY <2>1 DEF Kept
<1>7. ASSUME ~mixed
      PROVE  /\ HeaderSize < Size(i) => Whole' # <<>> /\ Whole'[1] = <<i, HeaderSize + 1>>
             /\ HeaderSize = Size(i) => IF Whole' = <<>> THEN i = Len(sent)
                                                         ELSE Whole'[1] = <<i + 1, 1>>
  <2>1. Len(Bit(n)) > 0 /\ Whole[Len(Bit(n))] = <<i, HeaderSize>> /\ HeaderSize \in Nat
    BY <1>2, <1>4, <1>5
  <2> QED  BY <1>6, <1>7, <2>1, Onward
<1> QED  BY <1>5, <1>7

LEMMA ReaderInStep ==
    ASSUME Typed, Genuine, OnTheWay, Unmixed, ClientInStep, RustInStep, InStep,
           NEW n \in 0..Len(stream),
           Kept(n) \/ Missed(n) \/ Filled(n) \/ \E i \in DOMAIN sent : Found(n, i)
    PROVE  ClientInStep' /\ RustInStep' /\ InStep'
<1>1. /\ link' = link /\ sent' = sent /\ mixed' = mixed
      /\ BodyMissing' = BodyMissing /\ Wrapped' = Wrapped
  BY DEF Kept, Missed, Filled, Found, Taking, BodyMissing, Wrapped, Unsent
<1>2. link \in Links /\ DOMAIN sent = 1..Len(sent) /\ Len(sent) \in Nat
      /\ got \in Seq(DOMAIN sent) /\ \A i \in DOMAIN sent : i # 0
  BY Targets DEF Typed, FramingTypeOK
\* A header has been read, and its body comes.
<1>3. ASSUME NEW i \in DOMAIN sent, Found(n, i), expected' = i, ~mixed, ~Unsent(sent[i])
      PROVE  BodyIsNext'
  <2>1. HasBody(i)
    BY <1>2, <1>3 DEF Found
  <2>2. HeaderSize < Size(i)
    BY <1>3, <2>1, BodiesHaveHeaders
  <2> QED  BY <1>3, <2>2, HeaderDone DEF BodyIsNext
<1>4. ASSUME expected' # 0, ~Kept(n) PROVE expected' \in DOMAIN sent /\ Found(n, expected')
  BY <1>2, <1>4 DEF Missed, Filled, BodyRead, Found
<1>5. ~BodyMissing => \A i \in DOMAIN sent : ~Unsent(sent[i])
  BY DEF BodyMissing
<1>6. link.to # "client" => \A i \in DOMAIN sent : ~Unsent(sent[i])
  BY <1>2, Ends DEF Unsent
<1>7. CASE Kept(n)
  <2>1. Whole' = Whole /\ expected' = expected /\ got' = got /\ short' = short
    BY <1>7, ReaderWhole DEF Kept
  <2>2. BodyIsNext' = BodyIsNext
    BY <2>1 DEF BodyIsNext
  <2> QED  BY <1>1, <2>1, <2>2 DEF ClientInStep, RustInStep, InStep, Upset
<1>8. CASE ~Kept(n)
  <2>1. ClientInStep'
    <3> SUFFICES ASSUME ~mixed, ~BodyMissing, expected' # 0 PROVE BodyIsNext'
      BY <1>1 DEF ClientInStep
    <3> QED  BY <1>3, <1>4, <1>5, <1>8
  <2>2. ASSUME Whole' # <<>>
        PROVE  \E i \in DOMAIN sent : \E p \in Nat : Whole'[1] = <<i, p>>
    <3>1. /\ Whole \in Seq(Bytes) /\ Len(Bit(n)) \in Nat /\ Whole' \in Seq(Bytes)
          /\ Len(Whole') = Len(Whole) - Len(Bit(n))
          /\ \A k \in 1..Len(Whole') : Whole'[k] = Whole[Len(Bit(n)) + k]
      BY <1>8, ReaderWhole
    <3>2. 1 \in 1..Len(Whole') /\ Len(Bit(n)) + 1 \in 1..Len(Whole)
      BY <2>2, <3>1, EmptySeq
    <3>3. Whole'[1] = Whole[Len(Bit(n)) + 1] /\ Len(Bit(n)) + 1 \in DOMAIN Whole
      BY <3>1, <3>2
    <3>4. PICK i \in DOMAIN sent : \E p \in 1..Size(i) : Whole'[1] = <<i, p>>
      BY <3>3, WholeGenuine
    <3>5. 1..Size(i) \subseteq Nat
      BY Sizes
    <3> QED  BY <3>4, <3>5
  \* A frame is done with, and the next comes.
  <2>3. RustInStep'
    <3> SUFFICES ASSUME link.to = "rust", ~mixed, ~Wrapped
                 PROVE  IF expected' = 0
                        THEN Whole' = <<>> \/ \E i \in DOMAIN sent : Whole'[1] = <<i, 1>>
                        ELSE BodyIsNext'
      BY <1>1 DEF RustInStep
    <3>1. CASE expected' # 0
      BY <1>3, <1>4, <1>6, <1>8, <3>1
    <3>2. ASSUME NEW i \in DOMAIN sent,
                 IF Whole' = <<>> THEN i = Len(sent) ELSE Whole'[1] = <<i + 1, 1>>
          PROVE  Whole' = <<>> \/ \E j \in DOMAIN sent : Whole'[1] = <<j, 1>>
      <4> SUFFICES ASSUME Whole' # <<>> PROVE \E j \in DOMAIN sent : Whole'[1] = <<j, 1>>
        OBVIOUS
      <4>1. PICK j \in DOMAIN sent, p \in Nat : Whole'[1] = <<j, p>>
        BY <2>2
      <4> QED  BY <3>2, <4>1
    <3>3. CASE expected' = 0 /\ Missed(n)
      <4>1. expected = 0 /\ ~(\E i \in DOMAIN sent : Whole = <<>> \/ Whole[1] = <<i, 1>>)
        BY <3>3, HeaderIsFound DEF Missed
      <4>2. Whole = <<>> /\ DOMAIN sent = {}
        BY <4>1 DEF RustInStep
      <4>3. Whole' = <<>>
        BY <2>2, <4>2
      <4> QED  BY <3>3, <4>3
    <3>4. CASE expected' = 0 /\ Filled(n)
      <4>1. expected \in DOMAIN sent /\ BodyIsNext /\ Len(Bit(n)) = Announces(expected)
        BY <3>4, Targets DEF Filled, RustInStep
      <4>2. IF Whole' = <<>> THEN expected = Len(sent) ELSE Whole'[1] = <<expected + 1, 1>>
        BY <1>6, <3>4, <4>1, BodyDone
      <4> QED  BY <3>2, <3>4, <4>1, <4>2
    <3>5. ASSUME expected' = 0, NEW i \in DOMAIN sent, Found(n, i)
          PROVE  Whole' = <<>> \/ \E j \in DOMAIN sent : Whole'[1] = <<j, 1>>
      <4>1. ~HasBody(i)
        BY <1>2, <3>5 DEF Found
      <4>2. HeaderSize = Size(i)
        BY <4>1, BodiesHaveHeaders
      <4>3. IF Whole' = <<>> THEN i = Len(sent) ELSE Whole'[1] = <<i + 1, 1>>
        BY <3>5, <4>2, HeaderDone
      <4> QED  BY <3>2, <4>3
    <3> QED  BY <1>8, <3>1, <3>3, <3>4, <3>5
  <2>4. ASSUME ~Upset'
        PROVE  /\ \A k \in DOMAIN got' : got'[k] = k
               /\ IF expected' = 0
                  THEN IF Whole' = <<>> THEN Len(got') = Len(sent)
                                        ELSE Whole'[1] = <<Len(got') + 1, 1>>
                  ELSE expected' = Len(got') + 1 /\ BodyIsNext'
    <3>1. ~short' /\ ~mixed /\ ~Wrapped /\ ~BodyMissing
      BY <1>1, <2>4 DEF Upset
    <3>2. short' = short \/ short'
      BY <1>8 DEF Missed, Filled, Found
    <3>3. ~Upset
      BY <3>1, <3>2 DEF Upset
    <3>4. /\ \A k \in DOMAIN got : got[k] = k
          /\ expected = 0 => IF Whole = <<>> THEN Len(got) = Len(sent)
                                             ELSE Whole[1] = <<Len(got) + 1, 1>>
          /\ expected # 0 => expected = Len(got) + 1 /\ BodyIsNext
      BY <3>3 DEF InStep
    <3>5. ASSUME NEW i \in DOMAIN sent, i = Len(got) + 1, got' = Append(got, i),
                 expected' = 0,
                 IF Whole' = <<>> THEN i = Len(sent) ELSE Whole'[1] = <<i + 1, 1>>
          PROVE  <2>4!2
      <4>1. Len(got') = i /\ \A k \in DOMAIN got' : got'[k] = k
        <5>1. got' = Append(got, i) /\ i = Len(got) + 1
          BY <3>5
        <5>2. got \in Seq(DOMAIN sent) /\ Len(got) \in Nat /\ DOMAIN got = 1..Len(got)
          BY <1>2
        <5>3. /\ Len(Append(got, i)) = i /\ DOMAIN Append(got, i) = 1..i
              /\ \A k \in 1..Len(got) : Append(got, i)[k] = got[k]
              /\ Append(got, i)[i] = i
          BY ONLY <5>1, <5>2, i \in DOMAIN sent, AppendIs
        <5> QED  BY <3>4, <5>1, <5>2, <5>3
      <4> QED  BY <3>5, <4>1
    <3>6. CASE Missed(n)
      <4>1. expected = 0 /\ expected' = 0 /\ got' = got
            /\ ~(\E i \in DOMAIN sent : Whole = <<>> \/ Whole[1] = <<i, 1>>)
        BY <3>1, <3>6, HeaderIsFound DEF Missed
      <4>2. Whole = <<>>
        <5> SUFFICES ASSUME Whole # <<>> PROVE FALSE
          OBVIOUS
        <5>1. 1 \in DOMAIN Whole
          BY ReaderWhole, EmptySeq
        <5>2. PICK i \in DOMAIN sent : \E p \in 1..Size(i) : Whole[1] = <<i, p>>
          BY <5>1, WholeGenuine
        <5> QED  BY <3>4, <4>1, <5>2
      <4>3. Whole' = <<>>
        <5>1. Len(Whole) = 0
          BY <4>2
        <5> QED  BY <1>8, <5>1, ReaderWhole, EmptySeq
      <4> QED  BY <3>4, <4>1, <4>2, <4>3
    <3>7. CASE Filled(n)
      <4>1. /\ expected \in DOMAIN sent /\ expected = Len(got) + 1 /\ BodyIsNext
            /\ Len(Bit(n)) = Announces(expected) /\ Bit(n) \in Seq(Bytes)
            /\ BodyRead(expected, Bit(n)) /\ ~Unsent(sent[expected])
        BY <1>5, <3>1, <3>4, <3>7, Targets, Bits DEF Filled
      <4>2. /\ Matches(expected, Bit(n)) /\ Bit(n) # <<>>
            /\ IF Whole' = <<>> THEN expected = Len(sent) ELSE Whole'[1] = <<expected + 1, 1>>
        BY <3>1, <3>7, <4>1, BodyDone
      <4>3. Announces(expected) \in Nat
        BY <4>1, Announcements
      <4>4. expected' = 0 /\ got' = Append(got, expected)
        BY <4>1, <4>2, <4>3 DEF BodyRead, Note
      <4>5. PICK i \in DOMAIN sent : i = expected
        BY <4>1
      <4> QED  BY <3>5, <4>1, <4>2, <4>4, <4>5
    <3>8. ASSUME NEW i \in DOMAIN sent, Found(n, i) PROVE <2>4!2
      <4>1. Whole # <<>> /\ Whole[1] = <<i, 1>> /\ expected = 0
        BY <3>8, HeaderDone DEF Found
      <4>2. i = Len(got) + 1
        BY <3>4, <4>1
      <4>3. CASE HasBody(i)
        <5>1. expected' = i /\ got' = got
          BY <3>8, <4>3 DEF Found
        <5>2. BodyIsNext'
          BY <1>3, <1>5, <3>1, <3>8, <5>1
        <5> QED  BY <1>2, <3>4, <4>2, <5>1, <5>2
      <4>4. CASE ~HasBody(i)
        <5>1. sent[i].type # "MESSAGE" /\ HeaderSize = Size(i)
          BY <3>1, <4>4, BodiesHaveHeaders
        <5>2. expected' = 0 /\ got' = Append(got, i)
          BY <3>8, <4>4, <5>1 DEF Found, Note
        <5>3. IF Whole' = <<>> THEN i = Len(sent) ELSE Whole'[1] = <<i + 1, 1>>
          BY <3>1, <3>8, <5>1, HeaderDone
        <5> QED  BY <3>5, <4>2, <5>2, <5>3
      <4> QED  BY <4>3, <4>4
    <3> QED  BY <1>8, <3>6, <3>7, <3>8
  <2>5. InStep'
    <3> HIDE DEF Upset
    <3> QED  BY <1>1, <2>4 DEF InStep
  <2> QED  BY <2>1, <2>3, <2>5
<1> QED  BY <1>7, <1>8

-------------------------------------------------------------------------------
(***************************************************************************)
(* All of the invariant, in every state.                                   *)
(***************************************************************************)
FramingInv == /\ Typed /\ Genuine /\ OnTheWay /\ Followed /\ BodyComes
              /\ HeadsInOrder /\ Unmixed /\ ClientInStep /\ RustInStep /\ InStep

LEMMA InitFraming == Init => FramingInv
<1> SUFFICES ASSUME Init PROVE FramingInv
  OBVIOUS
<1>1. Typed
  BY InitTyped
<1>2. /\ sent = <<>> /\ stream = <<>> /\ partial = <<>> /\ got = <<>> /\ expected = 0
      /\ pending = [w \in Writers |-> <<>>] /\ mixed = FALSE
  BY DEF Init
<1>3. Unread = <<>> /\ Backlog = <<>>
  BY <1>2, EmptySeq, ConcatEmptySeq DEF Unread, Backlog, Rests
<1>4. Whole = <<>>
  BY <1>3, EmptySeq, ConcatEmptySeq DEF Whole
<1>5. DOMAIN <<>> = {} /\ Len(<<>>) = 0
  OBVIOUS
<1>6. Genuine /\ OnTheWay /\ Followed /\ BodyComes /\ HeadsInOrder
  BY <1>2, <1>3, <1>5 DEF Genuine, OnTheWay, Followed, BodyComes, HeadsInOrder
<1>7. Alone /\ Unbroken /\ InARow
  BY <1>2, <1>4, <1>5 DEF Alone, Unbroken, InARow
<1>8. ClientInStep /\ RustInStep /\ InStep
  BY <1>2, <1>4, <1>5 DEF ClientInStep, RustInStep, InStep
<1> QED  BY <1>1, <1>6, <1>7, <1>8 DEF FramingInv, Unmixed

LEMMA WriterKeeps ==
    ASSUME FramingInv, NEW w \in Writers, WriteOn(w) \/ \E f \in Offered : Write(w, f)
    PROVE  FramingInv'
<1> USE DEF FramingInv
<1>1. PICK q \in Seq(Bytes), n \in Nat :
          /\ Handing(w, q, n)
          /\ Resumed(w, q) \/ \E f \in Offered : Begun(w, q, f)
  BY WriterSteps
<1>2. Typed'
  BY <1>1, WriterTyped
<1>3. Genuine' /\ OnTheWay'
  BY <1>1, WriterBytes
<1>4. Followed' /\ BodyComes'
  BY <1>1, WriterFollowed
<1>5. HeadsInOrder'
  BY <1>1, WriterHeads
<1>6. Unmixed'
  BY <1>1, WriterUnmixed
<1>7. ClientInStep' /\ RustInStep' /\ InStep'
  BY <1>1, WriterInStep
<1> QED  BY <1>2, <1>3, <1>4, <1>5, <1>6, <1>7

LEMMA ReaderKeeps ==
    ASSUME FramingInv, ReadShort \/ ReadWhole \/ ReadMore \/ ReadExact
    PROVE  FramingInv'
<1> USE DEF FramingInv
<1>1. PICK n \in 0..Len(stream) :
          Kept(n) \/ Missed(n) \/ Filled(n) \/ \E i \in DOMAIN sent : Found(n, i)
  BY ReaderSteps
<1>2. Typed'
  BY <1>1, ReaderTyped
<1>3. Genuine' /\ OnTheWay'
  BY <1>1, ReaderBytes
<1>4. Followed' /\ BodyComes'
  BY <1>1, ReaderFollowed
<1>5. HeadsInOrder'
  BY <1>1, ReaderHeads
<1>6. Unmixed'
  BY <1>1, ReaderUnmixed
<1>7. ClientInStep' /\ RustInStep' /\ InStep'
  BY <1>1, ReaderInStep
<1> QED  BY <1>2, <1>3, <1>4, <1>5, <1>6, <1>7

LEMMA StutterKeeps ==
    ASSUME FramingInv, UNCHANGED vars
    PROVE  FramingInv'
<1> USE DEF vars
<1>1. Typed'
  BY DEF FramingInv, Typed, FramingTypeOK, Offered, HasBody, Announces, Target
<1>2. Unread' = Unread /\ Whole' = Whole /\ LastGot' = LastGot /\ Upset' = Upset
  BY DEF Unread, Whole, Backlog, LastGot, Upset, Wrapped, BodyMissing, Unsent
<1>3. \A i : Size(i)' = Size(i)
  BY DEF Size, Extent, Unsent
<1>4. Genuine' /\ OnTheWay'
  BY <1>2, <1>3 DEF FramingInv, Genuine, OnTheWay
<1>5. Followed' /\ BodyComes'
  <2>1. \A b, k : Coming(b, k)' <=> Coming(b, k)
    BY DEF Coming
  <2>2. \A k \in DOMAIN stream, i \in DOMAIN sent, p \in Nat :
            stream[k] = <<i, p>> /\ p < Size(i) => Coming(<<i, p + 1>>, k)'
    BY Zenon, <2>1 DEF FramingInv, Followed
  <2>3. \A i \in DOMAIN sent :
            link.to # "rust" /\ expected = i /\ HeaderSize < Size(i) =>
                Coming(<<i, HeaderSize + 1>>, 0)'
    BY Zenon, <2>1 DEF FramingInv, BodyComes
  <2>4. Followed'
    BY Zenon, <1>3, <2>2 DEF Followed
  <2>5. BodyComes'
    BY Zenon, <1>3, <2>3 DEF BodyComes
  <2> QED  BY <2>4, <2>5
<1>6. HeadsInOrder'
  BY <1>2 DEF FramingInv, HeadsInOrder
<1>7. Unmixed'
  BY <1>2, <1>3 DEF FramingInv, Unmixed, Alone, Unbroken, InARow
<1>8. ClientInStep' /\ RustInStep'
  BY <1>2 DEF FramingInv, ClientInStep, RustInStep, BodyIsNext, BodyMissing, Unsent, Wrapped
<1>9. InStep'
  BY <1>2 DEF FramingInv, InStep, BodyIsNext
<1> QED  BY <1>1, <1>4, <1>5, <1>6, <1>7, <1>8, <1>9 DEF FramingInv

LEMMA FramingInvariant == Spec => []FramingInv
<1>1. Init => FramingInv
  BY InitFraming
<1>2. FramingInv /\ [Next]_vars => FramingInv'
  <2> SUFFICES ASSUME FramingInv, [Next]_vars PROVE FramingInv'
    OBVIOUS
  <2> QED  BY WriterKeeps, ReaderKeeps, StutterKeeps DEF Next, Done
<1> QED  BY <1>1, <1>2, PTL DEF Spec

\* Whatever the lengths, the writers and the buffer, the variables of Framing
\* keep their types: what has been read and is yet to be read are bytes of
\* the frames, the kernel holds no more than its buffer, and the reader knows
\* no frame that has not been written.
THEOREM FramingTypes == Spec => []FramingTypeOK
<1>1. FramingInv => FramingTypeOK
  BY DEF FramingInv, Typed
<1> QED  BY <1>1, FramingInvariant, PTL

-------------------------------------------------------------------------------
(***************************************************************************)
(* In step again.                                                          *)
(***************************************************************************)

\* When all has been handed over and read, no byte is on its way.
LEMMA NothingComes ==
    ASSUME Typed, Quiet, stream = <<>>
    PROVE  /\ \A b, k : ~Coming(b, k)
           /\ Whole = partial
<1>1. DOMAIN stream = {}
  OBVIOUS
<1>2. Unread = partial
  BY Targets, ConcatEmptySeq DEF Unread
<1>3. Whole = partial
  BY <1>2, Targets, ConcatEmptySeq DEF Whole, Backlog, Rests, Quiet
<1> QED  BY <1>1, <1>3 DEF Coming, Quiet

\* A C++ end that waited for a body would wait for bytes on their way.
LEMMA CppResumes ==
    ASSUME FramingInv, Quiet, stream = <<>>, link.to # "rust", ~BodyMissing
    PROVE  expected = 0 /\ partial = <<>>
<1> USE DEF FramingInv
<1>1. partial = <<>>
  BY Targets
<1>2. SUFFICES ASSUME expected # 0 PROVE FALSE
  BY <1>1
<1>3. PICK i \in DOMAIN sent : i = expected
  BY <1>2, Targets
<1>4. HasBody(i) /\ ~Unsent(sent[i])
  BY <1>2, <1>3 DEF Typed, BodyMissing
<1>5. HeaderSize < Size(i)
  BY <1>4, BodiesHaveHeaders
<1>6. Coming(<<i, HeaderSize + 1>>, 0)
  BY <1>3, <1>5 DEF BodyComes
<1> QED  BY <1>6, NothingComes

\* The Rust server would have the rest of the frame that it has begun.
LEMMA RustResumes ==
    ASSUME FramingInv, Quiet, stream = <<>>, link.to = "rust", ~mixed, ~Wrapped
    PROVE  expected = 0 /\ partial = <<>>
<1> USE DEF FramingInv
<1>1. Whole = partial /\ partial \in Seq(Bytes) /\ Target \in Nat
  BY NothingComes, Targets
<1>2. partial # <<>> => Len(partial) < Target
  BY Targets
<1>3. ASSUME NEW i \in DOMAIN sent, NEW p \in Nat, NEW m \in Nat,
             Whole # <<>>, Whole[1] = <<i, p>>, p + m <= Size(i)
      PROVE  1 + m <= Len(partial)
  <2>1. 1 \in DOMAIN Whole
    BY <1>1, <1>3
  <2>2. Unbroken
    BY DEF Unmixed
  <2> QED  BY <1>1, <1>3, <2>1, <2>2 DEF Unbroken
<1>4. CASE expected = 0
  <2> SUFFICES ASSUME partial # <<>> PROVE FALSE
    BY <1>4
  <2>1. PICK j \in DOMAIN sent : Whole[1] = <<j, 1>>
    BY <1>1, <1>4 DEF RustInStep
  <2>2. HeaderSize <= Size(j) /\ HeaderSize \in Nat \ {0} /\ Target = HeaderSize
    BY <1>4, Sizes, Targets
  <2>3. PICK m \in Nat : m + 1 = HeaderSize
    <3>1. HeaderSize - 1 \in Nat
      BY <2>2
    <3> QED  BY <3>1, <2>2
  <2>4. 1 + m <= Size(j)
    BY <2>2, <2>3, Sizes
  <2>5. 1 + m <= Len(partial)
    BY <1>1, <1>3, <2>1, <2>4
  <2> QED  BY <1>1, <1>2, <2>2, <2>3, <2>5
<1>5. CASE expected # 0
  <2>1. PICK i \in DOMAIN sent : i = expected /\ HasBody(i) /\ Target = Announces(i)
    BY <1>5, Targets DEF Typed
  <2>2. Whole # <<>> /\ Whole[1] = <<i, HeaderSize + 1>>
    BY <1>5, <2>1 DEF RustInStep, BodyIsNext
  <2>3. link.to # "client" /\ ~Unsent(sent[i])
    BY Sizes
  <2>4. Announces(i) = sent[i].size /\ Announces(i) \in Nat /\ Announces(i) > 0
    BY <2>1, Announcements
  <2>5. Size(i) = HeaderSize + sent[i].size
    BY <2>3, Sizes
  <2>6. PICK m \in Nat : m + 1 = Announces(i)
    <3>1. Announces(i) - 1 \in Nat /\ (Announces(i) - 1) + 1 = Announces(i)
      BY <2>4
    <3> QED  BY <3>1, <2>4
  <2>7. (HeaderSize + 1) + m <= Size(i) /\ HeaderSize + 1 \in Nat
    BY <2>4, <2>5, <2>6
  <2>8. 1 + m <= Len(partial)
    BY <1>3, <2>2, <2>7
  <2> QED  BY <1>1, <1>2, <2>1, <2>2, <2>4, <2>6, <2>8
<1> QED  BY <1>4, <1>5

\* Between frames a C++ reader is always found waiting for a header again,
\* however its reads were cut short and frames mixed, and the Rust server
\* is as long as frames are not mixed and their lengths fit: everything that
\* was written has been read and there is no body left to wait for.
THEOREM ReaderResumes == Spec => []ResumesInStep
<1>1. FramingInv => ResumesInStep
  BY CppResumes, RustResumes DEF ResumesInStep
<1> QED  BY <1>1, FramingInvariant, PTL

-------------------------------------------------------------------------------
(***************************************************************************)
(* What the log says of bodies.                                            *)
(***************************************************************************)

\* A step notes nothing, or one frame: a header's, without a body, or a
\* body's.  Nothing that is noted changes.
LEMMA Notes ==
    ASSUME FramingInv, NEW n \in 0..Len(stream),
           Kept(n) \/ Missed(n) \/ Filled(n) \/ \E i \in DOMAIN sent : Found(n, i)
    PROVE  \/ UNCHANGED <<log, got>>
           \/ \E i \in DOMAIN sent : \E how \in Outcomes : \E body \in Seq(Bytes) :
                  /\ Note(i, how, body)
                  /\ \/ /\ Found(n, i) /\ ~HasBody(i) /\ body = <<>>
                        /\ how = IF sent[i].type = "MESSAGE" THEN "refused" ELSE "taken"
                     \/ /\ Filled(n) /\ i = expected /\ body = Bit(n)
                        /\ HasBody(i) /\ Len(body) <= Announces(i)
                        /\ how # "refused"
                        /\ how = "taken" => Len(body) = Announces(i)
                        /\ how \in {"taken", "acked"} =>
                               link.to = "client" \/ Matches(i, body)
<1> USE DEF FramingInv
<1>1. CASE Kept(n) \/ Missed(n)
  BY <1>1 DEF Kept, Missed
<1>2. ASSUME NEW i \in DOMAIN sent, Found(n, i), ~HasBody(i)
      PROVE  \E how \in Outcomes : \E body \in Seq(Bytes) :
                 /\ Note(i, how, body) /\ body = <<>>
                 /\ how = IF sent[i].type = "MESSAGE" THEN "refused" ELSE "taken"
  <2> DEFINE how == IF sent[i].type = "MESSAGE" THEN "refused" ELSE "taken"
  <2>1. Note(i, how, <<>>)
    BY <1>2 DEF Found
  <2>2. <<>> \in Seq(Bytes) /\ how \in Outcomes
    BY EmptySeq DEF Outcomes
  <2> QED  BY <2>1, <2>2
<1>3. ASSUME NEW i \in DOMAIN sent, Found(n, i), HasBody(i)
      PROVE  UNCHANGED <<log, got>>
  BY <1>3 DEF Found
<1>4. CASE Filled(n)
  <2>1. /\ expected \in DOMAIN sent /\ HasBody(expected) /\ Bit(n) \in Seq(Bytes)
        /\ Announces(expected) \in Nat /\ Len(Bit(n)) <= Announces(expected)
        /\ BodyRead(expected, Bit(n))
    BY <1>4, Targets, Bits, Announcements DEF Filled, Typed
  <2>2. CASE UNCHANGED <<log, got>>
    BY <2>2
  <2>3. ASSUME NEW how \in Outcomes \ {"refused"}, Note(expected, how, Bit(n)),
               how = "taken" => Len(Bit(n)) = Announces(expected),
               how \in {"taken", "acked"} => link.to = "client" \/ Matches(expected, Bit(n))
        PROVE  \E i \in DOMAIN sent : \E hw \in Outcomes : \E body \in Seq(Bytes) :
                   /\ Note(i, hw, body)
                   /\ Filled(n) /\ i = expected /\ body = Bit(n)
                   /\ HasBody(i) /\ Len(body) <= Announces(i)
                   /\ hw # "refused"
                   /\ hw = "taken" => Len(body) = Announces(i)
                   /\ hw \in {"taken", "acked"} => link.to = "client" \/ Matches(i, body)
    BY <1>4, <2>1, <2>3
  <2>4. \/ UNCHANGED <<log, got>>
        \/ \E how \in Outcomes \ {"refused"} :
               /\ Note(expected, how, Bit(n))
               /\ how = "taken" => Len(Bit(n)) = Announces(expected)
               /\ how \in {"taken", "acked"} =>
                      link.to = "client" \/ Matches(expected, Bit(n))
    BY <2>1, Verdicts
  <2> QED  BY <2>2, <2>3, <2>4
<1> QED  BY <1>1, <1>2, <1>3, <1>4

\* A new entry may be looked at by itself.
LEMMA NewEntries ==
    ASSUME Typed, NEW i \in DOMAIN sent, NEW how \in Outcomes, NEW body \in Seq(Bytes),
           Note(i, how, body), NEW k \in DOMAIN log'
    PROVE  \/ k \in DOMAIN log /\ log'[k] = log[k]
           \/ log'[k].frame = i /\ log'[k].how = how /\ log'[k].body = body
<1>1. /\ \A l \in DOMAIN log : log'[l] = log[l]
      /\ log'[Len(log) + 1] = [frame |-> i, how |-> how, body |-> body]
  BY Noted
<1>2. DOMAIN log' = DOMAIN log \cup {Len(log) + 1}
  BY Noted
<1> QED  BY <1>1, <1>2

\* How a frame was taken for a header, or its body for a body, changes none
\* of what was written or mixed.
LEMMA UpsetStays ==
    ASSUME Typed, NEW n, Taking(n)
    PROVE  /\ sent' = sent /\ link' = link /\ mixed' = mixed
           /\ BodyMissing' = BodyMissing /\ Wrapped' = Wrapped
BY DEF Taking, BodyMissing, Wrapped, Unsent

LEMMA ReaderBodies ==
    ASSUME FramingInv, BodiesAreOwn, NEW n \in 0..Len(stream),
           Kept(n) \/ Missed(n) \/ Filled(n) \/ \E i \in DOMAIN sent : Found(n, i)
    PROVE  BodiesAreOwn'
<1> USE DEF FramingInv
<1>1. Taking(n)
  BY DEF Kept, Missed, Filled, Found
<1>2. /\ sent' = sent /\ link' = link /\ mixed' = mixed
      /\ BodyMissing' = BodyMissing
  BY <1>1, UpsetStays
<1>3. CASE UNCHANGED <<log, got>>
  BY <1>2, <1>3 DEF BodiesAreOwn
<1>4. ASSUME NEW i \in DOMAIN sent, NEW how \in Outcomes, NEW body \in Seq(Bytes),
             Note(i, how, body),
             \/ body = <<>>
             \/ /\ Filled(n) /\ i = expected /\ body = Bit(n)
                /\ how = "taken" => link.to = "client" \/ Matches(i, body)
      PROVE  BodiesAreOwn'
  <2>1. how = "taken" => \/ \A p \in DOMAIN body : body[p] = <<i, HeaderSize + p>>
                         \/ link.to = "client" /\ (mixed \/ BodyMissing)
    <3> SUFFICES ASSUME how = "taken", ~(link.to = "client" /\ (mixed \/ BodyMissing))
                 PROVE  \A p \in DOMAIN body : body[p] = <<i, HeaderSize + p>>
      OBVIOUS
    <3>1. CASE body = <<>>
      BY <3>1
    <3>2. CASE body # <<>> /\ Matches(i, body)
      BY <3>2 DEF Matches
    <3>3. CASE body # <<>> /\ link.to = "client"
      <4>1. Filled(n) /\ i = expected /\ body = Bit(n) /\ ~mixed /\ ~BodyMissing
        BY <1>4, <3>3
      <4>2. expected # 0 /\ BodyIsNext
        BY <4>1, <3>3 DEF Filled, ClientInStep
      <4>3. ~Unsent(sent[expected])
        BY <4>1 DEF BodyMissing
      <4>4. \A p \in 1..Len(Bit(n)) : Bit(n)[p] = <<expected, HeaderSize + p>>
        BY <4>1, <4>2, <4>3, BodyBytes
      <4>5. DOMAIN body = 1..Len(Bit(n))
        BY <4>1
      <4> QED  BY <4>1, <4>4, <4>5
    <3> QED  BY <1>4, <3>1, <3>2, <3>3
  <2>2. ASSUME NEW k \in DOMAIN log', log'[k].how = "taken"
        PROVE  \/ \A p \in DOMAIN log'[k].body :
                      log'[k].body[p] = <<log'[k].frame, HeaderSize + p>>
               \/ link.to = "client" /\ (mixed \/ BodyMissing)
    <3>1. CASE k \in DOMAIN log /\ log'[k] = log[k]
      BY <2>2, <3>1 DEF BodiesAreOwn
    <3>2. CASE log'[k].frame = i /\ log'[k].how = how /\ log'[k].body = body
      BY <2>1, <2>2, <3>2
    <3> QED  BY <1>4, <3>1, <3>2, NewEntries
  <2> QED  BY <1>2, <2>2 DEF BodiesAreOwn
<1> QED  BY <1>3, <1>4, Notes

\* What has been mixed, or is missing, remains so.
LEMMA WriterBodies ==
    ASSUME FramingInv, BodiesAreOwn, NEW w \in Writers,
           WriteOn(w) \/ \E f \in Offered : Write(w, f)
    PROVE  BodiesAreOwn'
<1> USE DEF FramingInv
<1>1. PICK q \in Seq(Bytes), n \in Nat :
          /\ Handing(w, q, n)
          /\ Resumed(w, q) \/ \E f \in Offered : Begun(w, q, f)
  BY WriterSteps
<1>2. link' = link /\ log' = log /\ (mixed => mixed')
  BY <1>1 DEF Handing
<1>3. DOMAIN sent \subseteq DOMAIN sent' /\ \A i \in DOMAIN sent : sent'[i] = sent[i]
  BY <1>1, <1>2, SentGrows
<1>4. BodyMissing => BodyMissing'
  BY <1>2, <1>3 DEF BodyMissing, Unsent
<1> QED  BY <1>2, <1>4 DEF BodiesAreOwn

\* No message that is acted upon has another's text in it: not at a server,
\* which knows by the checksum; nor at a client, which does not look at it,
\* unless the frames of two threads were mixed or a body was never sent.
THEOREM BodiesOwn == Spec => []BodiesAreOwn
<1>1. Init => BodiesAreOwn
  BY DEF Init, BodiesAreOwn
<1>2. FramingInv /\ BodiesAreOwn /\ [Next]_vars => BodiesAreOwn'
  <2> SUFFICES ASSUME FramingInv, BodiesAreOwn, [Next]_vars PROVE BodiesAreOwn'
    OBVIOUS
  <2>1. CASE UNCHANGED vars
    BY <2>1 DEF vars, BodiesAreOwn, BodyMissing, Unsent
  <2>2. CASE ReadShort \/ ReadWhole \/ ReadMore \/ ReadExact
    <3>1. PICK n \in 0..Len(stream) :
              Kept(n) \/ Missed(n) \/ Filled(n) \/ \E i \in DOMAIN sent : Found(n, i)
      BY <2>2, ReaderSteps DEF FramingInv
    <3> QED  BY <3>1, ReaderBodies
  <2> QED  BY <2>1, <2>2, WriterBodies DEF Next, Done
<1> QED  BY <1>1, <1>2, FramingInvariant, PTL DEF Spec

LEMMA ReaderAccepts ==
    ASSUME FramingInv, AcceptedBodies, NEW n \in 0..Len(stream),
           Kept(n) \/ Missed(n) \/ Filled(n) \/ \E i \in DOMAIN sent : Found(n, i)
    PROVE  AcceptedBodies'
<1> USE DEF FramingInv
<1>1. Taking(n)
  BY DEF Kept, Missed, Filled, Found
<1>2. sent' = sent /\ link' = link
  BY <1>1, UpsetStays
<1>3. SUFFICES ASSUME link.to # "client" PROVE AcceptedBodies'
  BY <1>2 DEF AcceptedBodies
<1> DEFINE Accepted(i, how, body) ==
        sent[i].type = "MESSAGE" =>
            /\ how \in {"taken", "acked"} => Len(body) + sent[i].zeros >= sent[i].size
            /\ how = "taken" => DecryptedSize(Len(body)) \in Texts
<1>4. \A k \in DOMAIN log : Accepted(log[k].frame, log[k].how, log[k].body)
  BY <1>3 DEF AcceptedBodies
<1>5. ASSUME \A k \in DOMAIN log' : Accepted(log'[k].frame, log'[k].how, log'[k].body)
      PROVE  AcceptedBodies'
  BY <1>2, <1>5 DEF AcceptedBodies
<1>6. CASE UNCHANGED <<log, got>>
  BY <1>4, <1>5, <1>6
<1>7. ASSUME NEW i \in DOMAIN sent, NEW how \in Outcomes, NEW body \in Seq(Bytes),
             Note(i, how, body),
             \/ how = IF sent[i].type = "MESSAGE" THEN "refused" ELSE "taken"
             \/ /\ how = "taken" => Len(body) = Announces(i)
                /\ how \in {"taken", "acked"} => link.to = "client" \/ Matches(i, body)
      PROVE  AcceptedBodies'
  <2>1. Accepted(i, how, body)
    <3> SUFFICES ASSUME sent[i].type = "MESSAGE", how \in {"taken", "acked"}
                 PROVE  /\ Len(body) + sent[i].zeros >= sent[i].size
                        /\ how = "taken" => DecryptedSize(Len(body)) \in Texts
      OBVIOUS
    <3>1. Matches(i, body) /\ (how = "taken" => Len(body) = Announces(i))
      BY <1>3, <1>7
    <3>2. sent[i] \in Offered /\ link \in Links
      BY Announcements DEF Typed, FramingTypeOK
    <3>3. sent[i].size \in Encrypted
      BY <3>2, Frames
    <3> QED  BY <3>1, <3>3, EncryptedSizes DEF Matches
  <2> HIDE DEF Accepted
  <2>2. ASSUME NEW k \in DOMAIN log'
        PROVE  Accepted(log'[k].frame, log'[k].how, log'[k].body)
    <3>1. CASE k \in DOMAIN log /\ log'[k] = log[k]
      BY <1>4, <3>1
    <3>2. CASE log'[k].frame = i /\ log'[k].how = how /\ log'[k].body = body
      BY <2>1, <3>2
    <3> QED  BY <1>7, <3>1, <3>2, NewEntries
  <2> QED  BY <1>5, <2>2
<1> QED  BY <1>6, <1>7, Notes

LEMMA WriterAccepts ==
    ASSUME FramingInv, AcceptedBodies, NEW w \in Writers,
           WriteOn(w) \/ \E f \in Offered : Write(w, f)
    PROVE  AcceptedBodies'
<1> USE DEF FramingInv
<1>1. PICK q \in Seq(Bytes), n \in Nat :
          /\ Handing(w, q, n)
          /\ Resumed(w, q) \/ \E f \in Offered : Begun(w, q, f)
  BY WriterSteps
<1>2. link' = link /\ log' = log
  BY <1>1 DEF Handing
<1>3. \A i \in DOMAIN sent : sent'[i] = sent[i]
  BY <1>1, <1>2, SentGrows
<1>4. \A k \in DOMAIN log : log[k].frame \in DOMAIN sent
  BY DEF Typed, FramingTypeOK
<1> QED  BY <1>2, <1>3, <1>4 DEF AcceptedBodies

\* A server acknowledges a text only when it has read all of it but for zeros
\* at its end, and passes on only what some sender's encryption can have
\* made, so that the receiving client's decrypt takes no more from the length
\* than there is.
THEOREM AcceptedBodiesFit == Spec => []AcceptedBodies
<1>1. Init => AcceptedBodies
  BY DEF Init, AcceptedBodies
<1>2. FramingInv /\ AcceptedBodies /\ [Next]_vars => AcceptedBodies'
  <2> SUFFICES ASSUME FramingInv, AcceptedBodies, [Next]_vars PROVE AcceptedBodies'
    OBVIOUS
  <2>1. CASE UNCHANGED vars
    BY <2>1 DEF vars, AcceptedBodies
  <2>2. CASE ReadShort \/ ReadWhole \/ ReadMore \/ ReadExact
    <3>1. PICK n \in 0..Len(stream) :
              Kept(n) \/ Missed(n) \/ Filled(n) \/ \E i \in DOMAIN sent : Found(n, i)
      BY <2>2, ReaderSteps DEF FramingInv
    <3> QED  BY <3>1, ReaderAccepts
  <2> QED  BY <2>1, <2>2, WriterAccepts DEF Next, Done
<1> QED  BY <1>1, <1>2, FramingInvariant, PTL DEF Spec

-------------------------------------------------------------------------------
(***************************************************************************)
(* Framing implements FrameChannel: writing a frame's first byte writes    *)
(* the frame, acting upon a frame gets it, and every other step is one of  *)
(* the kernel's or the other threads' that may upset the channel, or none. *)
(***************************************************************************)

\* Nothing rights a channel that has been upset.
LEMMA UpsetForGood ==
    ASSUME FramingInv, [Next]_vars
    PROVE  Upset => Upset'
<1> USE DEF FramingInv
<1>1. CASE UNCHANGED vars
  BY <1>1 DEF vars, Upset, Wrapped, BodyMissing, Unsent
<1>2. CASE ReadShort \/ ReadWhole \/ ReadMore \/ ReadExact
  <2>1. PICK n \in 0..Len(stream) :
            Kept(n) \/ Missed(n) \/ Filled(n) \/ \E i \in DOMAIN sent : Found(n, i)
    BY <1>2, ReaderSteps
  <2>2. Taking(n) /\ (short => short')
    BY <2>1 DEF Kept, Missed, Filled, Found
  <2>3. mixed' = mixed /\ BodyMissing' = BodyMissing /\ Wrapped' = Wrapped
    BY <2>2, UpsetStays
  <2> QED  BY <2>2, <2>3 DEF Upset
<1>3. ASSUME NEW w \in Writers, WriteOn(w) \/ \E f \in Offered : Write(w, f)
      PROVE  Upset => Upset'
  <2>1. PICK q \in Seq(Bytes), n \in Nat :
            /\ Handing(w, q, n)
            /\ Resumed(w, q) \/ \E f \in Offered : Begun(w, q, f)
    BY <1>3, WriterSteps
  <2>2. link' = link /\ short' = short /\ (mixed => mixed')
    BY <2>1 DEF Handing
  <2>3. DOMAIN sent \subseteq DOMAIN sent' /\ \A i \in DOMAIN sent : sent'[i] = sent[i]
    BY <2>1, <2>2, SentGrows
  <2> QED  BY <2>2, <2>3 DEF Upset, BodyMissing, Wrapped, Unsent
<1> QED  BY <1>1, <1>2, <1>3 DEF Next, Done

\* A frame that is acted upon is later than all before, and the next one
\* as long as nothing has upset the channel.
LEMMA NextGot ==
    ASSUME FramingInv, NEW n \in 0..Len(stream), NEW i \in DOMAIN sent,
           NEW body \in Seq(Bytes), Note(i, "taken", body),
           \/ Found(n, i) /\ ~HasBody(i)
           \/ Filled(n) /\ i = expected /\ body = Bit(n) /\ Len(body) = Announces(i)
    PROVE  Channel!Get(i)
<1> USE DEF FramingInv
<1>1. got' = Append(got, i) /\ i <= Len(sent) /\ got \in Seq(DOMAIN sent)
  BY Sizes DEF Note, Typed, FramingTypeOK
<1>2. Taking(n) /\ short' = short
  <2>1. CASE Found(n, i)
    BY <2>1 DEF Found
  <2>2. CASE Filled(n) /\ i = expected /\ body = Bit(n) /\ Len(body) = Announces(i)
    <3>1. Announces(i) \in Nat
      BY Announcements
    <3> QED  BY <2>2, <3>1 DEF Filled
  <2> QED  BY <2>1, <2>2
<1>3. sent' = sent /\ Upset' = Upset
  BY <1>2, UpsetStays DEF Upset
<1>4. CASE Found(n, i)
  <2>1. Whole # <<>> /\ Whole[1] = <<i, 1>> /\ expected = 0
    BY <1>4, HeaderDone DEF Found
  <2>2. 1 \in DOMAIN Unread /\ Unread[1] = <<i, 1>>
    <3>1. Bit(n) = Header(i) /\ HeaderSize \in Nat \ {0}
      BY <1>4 DEF Found
    <3>2. Len(Bit(n)) = HeaderSize /\ Bit(n)[1] = <<i, 1>>
      BY <3>1, Headers
    <3>3. /\ Unread \in Seq(Bytes) /\ Len(Unread) = Len(partial) + Len(stream)
          /\ Len(Bit(n)) = Len(partial) + n
          /\ \A k \in 1..Len(Bit(n)) : Bit(n)[k] = Unread[k]
      BY Bits
    <3>4. Len(partial) \in Nat /\ Len(stream) \in Nat
      BY Targets
    <3> QED  BY <3>1, <3>2, <3>3, <3>4
  <2>3. i > LastGot
    BY <2>2 DEF HeadsInOrder
  <2>4. ~Upset => i = Len(got) + 1 /\ \A k \in DOMAIN got : got[k] = k
    BY <2>1 DEF InStep
  <2>5. ~Upset => i = LastGot + 1
    BY <1>1, <2>4 DEF LastGot
  <2> QED  BY <1>1, <1>3, <2>3, <2>5 DEF Channel!Get, Channel!Last, LastGot
<1>5. CASE Filled(n) /\ i = expected
  <2>1. expected # 0 /\ expected > LastGot
    BY <1>5 DEF Filled, HeadsInOrder
  <2>2. ~Upset => i = Len(got) + 1 /\ \A k \in DOMAIN got : got[k] = k
    BY <1>5, <2>1 DEF InStep
  <2>3. ~Upset => i = LastGot + 1
    BY <1>1, <2>2 DEF LastGot
  <2> QED  BY <1>1, <1>3, <1>5, <2>1, <2>3 DEF Channel!Get, Channel!Last, LastGot
<1> QED  BY <1>4, <1>5

\* Every step of Framing is one of FrameChannel, or none.
LEMMA ChannelSteps ==
    ASSUME FramingInv, [Next]_vars
    PROVE  [Channel!Next]_(Channel!cvars)
<1> USE DEF FramingInv
<1>1. Channel!Upset
  <2>1. Upset' \in BOOLEAN
    BY ZenonT(30) DEF Upset
  <2> QED  BY <2>1, UpsetForGood DEF Channel!Upset
<1>2. CASE UNCHANGED <<sent, got>>
  BY <1>1, <1>2 DEF Channel!Next
<1>3. CASE UNCHANGED vars
  BY <1>2, <1>3 DEF vars
<1>4. CASE ReadShort \/ ReadWhole \/ ReadMore \/ ReadExact
  <2>1. PICK n \in 0..Len(stream) :
            Kept(n) \/ Missed(n) \/ Filled(n) \/ \E i \in DOMAIN sent : Found(n, i)
    BY <1>4, ReaderSteps
  <2>2. sent' = sent
    BY <2>1 DEF Kept, Missed, Filled, Found, Taking
  <2>3. CASE UNCHANGED <<log, got>>
    BY <1>2, <2>2, <2>3
  <2>4. ASSUME NEW i \in DOMAIN sent, NEW how \in Outcomes, NEW body \in Seq(Bytes),
               Note(i, how, body),
               \/ Found(n, i) /\ ~HasBody(i)
               \/ /\ Filled(n) /\ i = expected /\ body = Bit(n)
                  /\ how = "taken" => Len(body) = Announces(i)
        PROVE  [Channel!Next]_(Channel!cvars)
    <3>1. CASE how # "taken"
      BY <1>2, <2>2, <2>4, <3>1 DEF Note
    <3>2. CASE how = "taken"
      <4>1. Channel!Get(i)
        BY <2>4, <3>2, NextGot
      <4>2. i \in 1..Len(sent)
        BY Sizes
      <4> QED  BY <4>1, <4>2 DEF Channel!Next
    <3> QED  BY <3>1, <3>2
  <2> QED  BY <2>1, <2>3, <2>4, Notes
<1>5. ASSUME NEW w \in Writers, WriteOn(w) \/ \E f \in Offered : Write(w, f)
      PROVE  [Channel!Next]_(Channel!cvars)
  <2>1. PICK q \in Seq(Bytes), n \in Nat :
            /\ Handing(w, q, n)
            /\ Resumed(w, q) \/ \E f \in Offered : Begun(w, q, f)
    BY <1>5, WriterSteps
  <2>2. got' = got
    BY <2>1 DEF Handing
  <2>3. CASE Resumed(w, q)
    BY <1>2, <2>2, <2>3 DEF Resumed
  <2>4. ASSUME NEW f \in Offered, Begun(w, q, f) PROVE Channel!Next
    <3>1. sent' = Append(sent, f) /\ sent \in Seq(Offered)
      BY <2>4 DEF Begun, Typed
    <3>2. Len(sent') = Len(sent) + 1
      BY <3>1
    <3> QED  BY <1>1, <2>2, <3>2 DEF Channel!Next, Channel!Write
  <2> QED  BY <2>1, <2>3, <2>4
<1> QED  BY <1>3, <1>4, <1>5 DEF Next, Done

\* The bytes give the other modules the channel of frames they are built
\* on: the reader acts upon frames in the order in which they were written,
\* upon none twice, and leaves one out only after a short read, frames that
\* were mixed, a length beyond uint16_t or a body that was never sent.
THEOREM FramingImplementsChannel == Spec => ImplementsChannel
<1>1. Init => Channel!Init
  <2> SUFFICES ASSUME Init PROVE Channel!Init
    OBVIOUS
  <2>1. Len(sent) = 0 /\ got = <<>> /\ DOMAIN sent = {}
    BY DEF Init
  <2>2. ~Upset
    BY <2>1 DEF Init, Upset, Wrapped, BodyMissing
  <2> QED  BY <2>1, <2>2 DEF Channel!Init
<1>2. FramingInv /\ [Next]_vars => [Channel!Next]_(Channel!cvars)
  BY ChannelSteps
<1> QED  BY <1>1, <1>2, FramingInvariant, PTL DEF Spec, ImplementsChannel, Channel!Spec
===============================================================================
