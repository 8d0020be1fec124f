---------------------------- MODULE RustRoomProofs ----------------------------
(***************************************************************************)
(* What the Rust server sends, as long as its map is not replaced: where   *)
(* frames come out, that what is passed on was acknowledged, and that the  *)
(* room hears all, for any number of threads, names and requests.          *)
(***************************************************************************)
EXTENDS RustServerProofs

USE RustAssumption

Early == {"login", "creating", "adding"}
Silent == Early \cup {"refusing", "greeting"}
Request(t) == requests[t][Num(t)]

\* What a handler has yet to send.
Shape(t) ==
    \/ calls[t] = <<Frame(t, "entered", 0, All)>> /\ Num(t) = 0
    \/ /\ Num(t) > 0 /\ Request(t).dest # All
       /\ calls[t] = <<Frame(t, "left", Num(t), All)>>
    \/ /\ Num(t) > 0 /\ Request(t).dest # All
       /\ \E kind \in {"ERROR", "WHO", "ACK", "NACK"} :
             /\ calls[t] = <<Frame(t, kind, Num(t), user[t])>>
             /\ kind = "NACK" => Request(t).type = "damaged"
    \/ /\ Num(t) > 0 /\ Request(t).dest # All
       /\ calls[t] = <<Frame(t, "list", Num(t), user[t]), Frame(t, "WHO", Num(t), user[t])>>
    \/ /\ Num(t) > 0 /\ Request(t).type = "MESSAGE"
       /\ calls[t] = <<Frame(t, "ACK", Num(t), user[t]),
                       Frame(t, "MESSAGE", Num(t), Request(t).dest)>>
    \/ /\ Num(t) > 0 /\ Request(t).type = "MESSAGE"
       /\ calls[t] = <<Frame(t, "MESSAGE", Num(t), Request(t).dest)>>
       /\ Got(t, "ACK", t, Num(t)) \/ t \in gone

\* A frame that may be sent, or has been.
GoodFrame(f) ==
    LET s == f.sender IN
    /\ f.kind \in {"NACK", "MESSAGE"} => f.num \in 1..Num(s)
    /\ f.kind = "NACK" => requests[s][f.num].type = "damaged"
    /\ f.kind = "MESSAGE" => /\ requests[s][f.num].type = "MESSAGE"
                             /\ Got(s, "ACK", s, f.num) \/ s \in gone
    /\ f.kind = "entered" => f.dest = All

RightFor(f, c) == IF f.dest = All THEN f.sender # c ELSE user[c] = f.dest

\* Of a call in progress: whom it may still write to, and that an ACK, sent to
\* t itself, is on its way, has arrived or cannot.
Addressees(t) == LET f == Head(calls[t]) IN
                 IF f.dest = All THEN Usernames \ {user[t]} ELSE {f.dest}
CallOK(t) ==
    /\ to[t] \subseteq Addressees(t)
    /\ Head(calls[t]).kind = "ACK"
          => user[t] \in to[t] \/ Got(t, "ACK", t, Num(t)) \/ t \in gone

ThreadOK(t) ==
    /\ pc[t] \in Early => outbox[t] = {}
    /\ pc[t] \in Silent => requests[t] = <<>>
    /\ pc[t] \in {"calling", "locked"} => Shape(t)
    /\ pc[t] = "locked" => CallOK(t)
    /\ \A f \in outbox[t] : GoodFrame(f) /\ RightFor(f, t)

FramesInv == ~remade => \A t \in Threads : ThreadOK(t)

\* Requests, frames and broken connections only become more.
Grows ==
    /\ gone \subseteq gone'
    /\ \A s \in Threads :
          /\ outbox[s] \subseteq outbox'[s]
          /\ Num(s) <= Num(s)'
          /\ \A n \in 1..Num(s) : requests'[s][n] = requests[s][n]

Idle(t) == \A s \in Threads \ {t} :
    /\ pc'[s] = pc[s] /\ user'[s] = user[s] /\ requests'[s] = requests[s]
    /\ calls'[s] = calls[s] /\ to'[s] = to[s]

LEMMA GoodStays ==
    ASSUME RustTypeOK, RustTypeOK', Grows, NEW f \in Frames, GoodFrame(f)
    PROVE  GoodFrame(f)'
<1>1. f.sender \in Threads /\ f.num \in Nat
  BY DEF Frames
<1>2. Num(f.sender) \in Nat /\ Num(f.sender)' \in Nat
  BY <1>1 DEF Num, RustTypeOK
<1>3. /\ gone \subseteq gone' /\ outbox[f.sender] \subseteq outbox'[f.sender]
      /\ Num(f.sender) <= Num(f.sender)'
      /\ \A n \in 1..Num(f.sender) : requests'[f.sender][n] = requests[f.sender][n]
  BY <1>1 DEF Grows
<1>4. f.num \in 1..Num(f.sender) => f.num \in 1..Num(f.sender)'
  BY <1>1, <1>2, <1>3
<1>5. Got(f.sender, "ACK", f.sender, f.num) => Got(f.sender, "ACK", f.sender, f.num)'
  BY <1>3 DEF Got
<1> QED  BY <1>1, <1>3, <1>4, <1>5 DEF GoodFrame

LEMMA WritesGrow ==
    ASSUME RustTypeOK, NEW c \in Threads, NEW f,
           Written(c, f) \/ WriteFails(c) \/ UNCHANGED <<gone, outbox>>,
           UNCHANGED requests
    PROVE  /\ Grows
           /\ \A s \in Threads : \/ outbox'[s] = outbox[s]
                                 \/ s = c /\ outbox'[s] = outbox[s] \cup {f}
           /\ UNCHANGED gone \/ c \in gone'
<1>1. \A s \in Threads : /\ Num(s)' = Num(s) /\ Num(s) \in Nat
                         /\ requests'[s] = requests[s]
  BY DEF Num, RustTypeOK
<1>2. /\ gone \subseteq gone'
      /\ \A s \in Threads : \/ outbox'[s] = outbox[s]
                            \/ s = c /\ outbox'[s] = outbox[s] \cup {f}
  BY DEF Written, WriteFails, RustTypeOK
<1>3. UNCHANGED gone \/ c \in gone'
  BY DEF Written, WriteFails
<1> QED  BY <1>1, <1>2, <1>3 DEF Grows

LEMMA ReadsGrow ==
    ASSUME RustTypeOK, NEW t \in Threads, NEW type, NEW dest, Reads(t, type, dest)
    PROVE  /\ Grows /\ Num(t)' = Num(t) + 1 /\ Num(t) \in Nat
           /\ requests'[t][Num(t) + 1] = [type |-> type, dest |-> dest]
           /\ \A s \in Threads \ {t} : requests'[s] = requests[s]
<1> DEFINE r == [type |-> type, dest |-> dest]
<1>1. requests[t] \in Seq(Requests)
  BY DEF RustTypeOK
<1>2. requests'[t] = Append(requests[t], r)
  BY DEF Reads, RustTypeOK
<1>3. /\ Num(t)' = Num(t) + 1 /\ Num(t) \in Nat
      /\ requests'[t][Num(t) + 1] = r
      /\ \A n \in 1..Num(t) : requests'[t][n] = requests[t][n]
  <2> HIDE DEF r
  <2> QED  BY <1>1, <1>2 DEF Num
<1>4. \A s \in Threads \ {t} : requests'[s] = requests[s]
  BY DEF Reads, RustTypeOK
<1>5. \A s \in Threads : Num(s) \in Nat
  BY DEF Num, RustTypeOK
<1>6. UNCHANGED <<gone, outbox>>
  BY DEF Reads
<1>7. Grows
  BY <1>3, <1>4, <1>5, <1>6 DEF Grows, Num
<1> QED  BY <1>3, <1>4, <1>7

LEMMA ShapeStays ==
    ASSUME NEW s \in Threads, Shape(s), Grows,
           calls'[s] = calls[s], user'[s] = user[s], requests'[s] = requests[s]
    PROVE  Shape(s)'
<1>1. Num(s)' = Num(s) /\ Request(s)' = Request(s)
  BY DEF Num, Request
<1>2. Got(s, "ACK", s, Num(s)) \/ s \in gone => Got(s, "ACK", s, Num(s))' \/ s \in gone'
  BY <1>1 DEF Got, Grows
<1> HIDE DEF Request
<1> QED  BY <1>1, <1>2 DEF Shape, Frame

LEMMA CallStays ==
    ASSUME NEW s \in Threads, CallOK(s), Grows, calls'[s] = calls[s], user'[s] = user[s],
           requests'[s] = requests[s], to'[s] = to[s]
    PROVE  CallOK(s)'
<1>1. Num(s)' = Num(s)
  BY DEF Num
<1>2. Got(s, "ACK", s, Num(s)) \/ s \in gone => Got(s, "ACK", s, Num(s))' \/ s \in gone'
  BY <1>1 DEF Got, Grows
<1> QED  BY <1>2 DEF CallOK, Addressees

\* A step of thread t that sends at most the frame f, to connection c.
LEMMA FramesDeliver ==
    ASSUME RustTypeOK, RustTypeOK', FramesInv, ~remade, NEW t \in Threads,
           Grows, Idle(t), NEW c \in Threads, NEW f \in Frames,
           \A s \in Threads : \/ outbox'[s] = outbox[s]
                              \/ s = c /\ outbox'[s] = outbox[s] \cup {f},
           \/ UNCHANGED outbox
           \/ GoodFrame(f) /\ RightFor(f, c) /\ pc'[c] \notin Early /\ pc[c] # "login",
           pc[t] = "login" \/ user'[t] = user[t],
           pc'[t] \in Early => pc[t] \in Early,
           pc'[t] \in Silent => pc[t] \in Silent /\ requests'[t] = requests[t],
           pc'[t] \in {"calling", "locked"} => Shape(t)',
           pc'[t] = "locked" => CallOK(t)'
    PROVE  FramesInv'
<1> SUFFICES ASSUME NEW s \in Threads PROVE ThreadOK(s)'
  BY DEF FramesInv
<1>0. ThreadOK(s)
  BY DEF FramesInv
<1>1. pc[s] # "login" => user'[s] = user[s]
  BY DEF Idle
<1>2. pc'[s] \in Early => outbox'[s] = {}
  BY <1>0 DEF ThreadOK, Idle
<1>3. pc'[s] \in Silent => requests'[s] = <<>>
  BY <1>0 DEF ThreadOK, Idle
<1>4. pc'[s] \in {"calling", "locked"} => Shape(s)'
  <2>1. CASE s = t
    BY <2>1
  <2>2. CASE s # t
    BY <2>2, <1>0, ShapeStays DEF Idle, ThreadOK
  <2> QED  BY <2>1, <2>2
<1>5. pc'[s] = "locked" => CallOK(s)'
  BY <1>0, CallStays DEF Idle, ThreadOK
<1>6. ASSUME NEW g \in outbox'[s] PROVE GoodFrame(g)' /\ RightFor(g, s)'
  <2>1. g \in Frames
    BY DEF RustTypeOK
  <2>2. CASE g \in outbox[s]
    <3>1. pc[s] # "login"
      BY <1>0, <2>2 DEF ThreadOK, Early
    <3> QED  BY <1>0, <1>1, <2>1, <2>2, <3>1, GoodStays DEF ThreadOK, RightFor
  <2>3. CASE g \notin outbox[s]
    <3>1. g = f /\ s = c /\ GoodFrame(f) /\ RightFor(f, c) /\ pc[c] # "login"
      BY <2>3
    <3> QED  BY <1>1, <2>1, <3>1, GoodStays DEF RightFor
  <2> QED  BY <2>2, <2>3
<1> QED  BY <1>2, <1>3, <1>4, <1>5, <1>6 DEF ThreadOK

\* The frame a handler sends next, and what it has after that.
LEMMA NextFrame ==
    ASSUME RustTypeOK, NEW t \in Threads, Shape(t), user[t] \in Usernames
    PROVE  LET f == Head(calls[t]) IN
           /\ calls[t] # <<>> /\ f \in Frames /\ f.sender = t /\ GoodFrame(f)
           /\ f.num = (IF f.kind = "entered" THEN 0 ELSE Num(t))
           /\ f.kind = "entered" => Num(t) = 0
           /\ f.kind = "MESSAGE" => Num(t) > 0 /\ f.dest = Request(t).dest
           /\ f.kind # "MESSAGE" /\ Num(t) > 0 /\ Request(t).dest = All => Len(calls[t]) # 1
           /\ f.kind = "ACK" => f.dest = user[t]
           /\ \/ Len(calls[t]) = 1
              \/ /\ Len(calls[t]) = 2 /\ f.kind = "ACK"
                 /\ Tail(calls[t]) = <<Frame(t, "MESSAGE", Num(t), Request(t).dest)>>
                 /\ Num(t) > 0 /\ Request(t).type = "MESSAGE"
              \/ /\ Len(calls[t]) = 2 /\ Num(t) > 0 /\ Request(t).dest # All
                 /\ Tail(calls[t]) = <<Frame(t, "WHO", Num(t), user[t])>>
<1> DEFINE f == Head(calls[t])
<1>0. Num(t) \in Nat /\ (Num(t) > 0 => Num(t) \in 1..Num(t))
  BY DEF Num, RustTypeOK
<1>1. calls[t] \in Seq(Frames)
  BY DEF RustTypeOK
<1>2. CASE calls[t] = <<Frame(t, "entered", 0, All)>> /\ Num(t) = 0
  <2>1. f = Frame(t, "entered", 0, All) /\ Len(calls[t]) = 1 /\ calls[t] # <<>>
    BY <1>2
  <2> QED  BY <1>0, <1>2, <2>1, FrameType DEF Frame, GoodFrame, Kinds
<1>3. CASE /\ Num(t) > 0 /\ Request(t).dest # All
           /\ calls[t] = <<Frame(t, "left", Num(t), All)>>
  <2>1. f = Frame(t, "left", Num(t), All) /\ Len(calls[t]) = 1 /\ calls[t] # <<>>
    BY <1>3
  <2> QED  BY <1>0, <1>3, <2>1, FrameType DEF Frame, GoodFrame, Kinds
<1>4. ASSUME Num(t) > 0, Request(t).dest # All, NEW kind \in {"ERROR", "WHO", "ACK", "NACK"},
             calls[t] = <<Frame(t, kind, Num(t), user[t])>>,
             kind = "NACK" => Request(t).type = "damaged"
      PROVE  /\ calls[t] # <<>> /\ f \in Frames /\ f.sender = t /\ GoodFrame(f)
             /\ f.num = Num(t) /\ f.kind = kind /\ f.dest = user[t] /\ Len(calls[t]) = 1
  <2>1. f = Frame(t, kind, Num(t), user[t]) /\ Len(calls[t]) = 1 /\ calls[t] # <<>>
    BY <1>4
  <2>2. kind \in Kinds
    BY DEF Kinds
  <2> QED  BY <1>0, <1>4, <2>1, <2>2, FrameType DEF Frame, GoodFrame, Request
<1>5. CASE /\ Num(t) > 0 /\ Request(t).type = "MESSAGE"
           /\ calls[t] = <<Frame(t, "ACK", Num(t), user[t]),
                           Frame(t, "MESSAGE", Num(t), Request(t).dest)>>
  <2>1. /\ f = Frame(t, "ACK", Num(t), user[t]) /\ Len(calls[t]) = 2 /\ calls[t] # <<>>
        /\ Tail(calls[t]) = <<Frame(t, "MESSAGE", Num(t), Request(t).dest)>>
    BY <1>5
  <2> QED  BY <1>0, <1>5, <2>1, FrameType DEF Frame, GoodFrame, Kinds
<1>6. CASE /\ Num(t) > 0 /\ Request(t).type = "MESSAGE"
           /\ calls[t] = <<Frame(t, "MESSAGE", Num(t), Request(t).dest)>>
           /\ Got(t, "ACK", t, Num(t)) \/ t \in gone
  <2>1. /\ f = Frame(t, "MESSAGE", Num(t), Request(t).dest)
        /\ Len(calls[t]) = 1 /\ calls[t] # <<>>
    BY <1>6
  <2>2. f \in Frames
    BY <1>1, <2>1, HeadTailProperties
  <2> QED  BY <1>0, <1>6, <2>1, <2>2 DEF Frame, GoodFrame, Request
<1>7. CASE /\ Num(t) > 0 /\ Request(t).dest # All
           /\ calls[t] = <<Frame(t, "list", Num(t), user[t]), Frame(t, "WHO", Num(t), user[t])>>
  <2>1. /\ f = Frame(t, "list", Num(t), user[t]) /\ Len(calls[t]) = 2 /\ calls[t] # <<>>
        /\ Tail(calls[t]) = <<Frame(t, "WHO", Num(t), user[t])>>
    BY <1>7
  <2> QED  BY <1>0, <1>7, <2>1, FrameType DEF Frame, GoodFrame, Kinds
<1> QED  BY <1>2, <1>3, <1>4, <1>5, <1>6, <1>7 DEF Shape

-------------------------------------------------------------------------------
\* Reading a request and answering it.
LEMMA FramesByReads ==
    ASSUME RustTypeOK, RustTypeOK', Placed, FramesInv, ~remade, NEW t \in Threads,
           \/ ReadSkipped(t) \/ ReadImproper(t) \/ ReadWho(t) \/ ReadDamaged(t) \/ ReadUnreadable(t)
           \/ (\E dest \in Usernames \cup {All} : ReadMessage(t, dest))
           \/ ReadDisconnect(t)
    PROVE  FramesInv' /\ Grows /\ Idle(t) /\ UNCHANGED <<outbox, gone, mapvars, user, to>>
<1>0. user[t] \in Usernames
  BY DEF ReadSkipped, ReadImproper, ReadWho, ReadDamaged, ReadUnreadable, ReadMessage, ReadDisconnect,
         Reads, Placed
<1> PICK type, dest : /\ Reads(t, type, dest)
                      /\ \/ type = "skipped" /\ UNCHANGED <<pc, calls>>
                         \/ dest = None /\ type = "improper" /\ Handles(t, <<Own(t, "ERROR")>>)
                         \/ dest = None /\ type = "WHO" /\ Handles(t, <<Own(t, "list"), Own(t, "WHO")>>)
                         \/ dest = None /\ type = "damaged" /\ Handles(t, <<Own(t, "NACK")>>)
                         \/ dest = None /\ type = "unreadable" /\ Handles(t, <<Own(t, "ACK")>>)
                         \/ type = "MESSAGE" /\ Handles(t, <<Own(t, "ACK"), Frame(t, "MESSAGE", Num(t) + 1, dest)>>)
                         \/ dest = None /\ Handles(t, <<Frame(t, "left", Num(t) + 1, All)>>)
  BY DEF ReadSkipped, ReadImproper, ReadWho, ReadDamaged, ReadUnreadable, ReadMessage, ReadDisconnect
<1>1. /\ Grows /\ Num(t)' = Num(t) + 1 /\ Num(t) \in Nat
      /\ requests'[t][Num(t) + 1] = [type |-> type, dest |-> dest]
      /\ \A s \in Threads \ {t} : requests'[s] = requests[s]
  BY ReadsGrow
<1>2. /\ pc[t] = "reading" /\ pc'[t] \in {"reading", "calling"}
      /\ UNCHANGED <<outbox, gone, mapvars, user, to>>
      /\ \A s \in Threads \ {t} : pc'[s] = pc[s] /\ calls'[s] = calls[s]
  BY DEF Reads, Handles, Calling, RustTypeOK
<1>3. Idle(t)
  BY <1>1, <1>2 DEF Idle
<1>4. Request(t)' = [type |-> type, dest |-> dest] /\ Num(t)' > 0
  BY <1>1 DEF Request
<1>5. ASSUME pc'[t] = "calling" PROVE Shape(t)'
  <2>1. \/ dest = None /\ type = "improper" /\ calls'[t] = <<Own(t, "ERROR")>>
        \/ dest = None /\ type = "WHO" /\ calls'[t] = <<Own(t, "list"), Own(t, "WHO")>>
        \/ dest = None /\ type = "damaged" /\ calls'[t] = <<Own(t, "NACK")>>
        \/ dest = None /\ type = "unreadable" /\ calls'[t] = <<Own(t, "ACK")>>
        \/ type = "MESSAGE" /\ calls'[t] = <<Own(t, "ACK"), Frame(t, "MESSAGE", Num(t) + 1, dest)>>
        \/ dest = None /\ calls'[t] = <<Frame(t, "left", Num(t) + 1, All)>>
    BY <1>2, <1>5 DEF Handles, Calling, RustTypeOK
  <2>2. \A kind : Own(t, kind) = Frame(t, kind, Num(t)', user[t])
    BY <1>1 DEF Own
  <2>3. \A a, b, c, d : Frame(a, b, c, d)' = Frame(a, b, c, d)
    BY DEF Frame
  <2> HIDE DEF Request
  <2> QED  BY <1>1, <1>2, <1>4, <2>1, <2>2 DEF Shape, Frame
<1>6. Frame(t, "ERROR", 0, user[t]) \in Frames
  BY <1>0, FrameType DEF Kinds
<1> QED  BY <1>1, <1>2, <1>3, <1>5, <1>6, FramesDeliver DEF Early, Silent

LEMMA FramesStep ==
    ASSUME RustTypeOK, RustTypeOK', Placed, ServedInv, FramesInv, ~remade, [Next]_vars
    PROVE  FramesInv' /\ Grows
<1>0. ASSUME UNCHANGED vars PROVE FramesInv' /\ Grows
  <2>1. Grows
    BY <1>0 DEF Grows, vars, Num, RustTypeOK
  <2>2. ASSUME NEW s \in Threads, ThreadOK(s) PROVE ThreadOK(s)'
    <3>1. Shape(s) => Shape(s)'
      BY <1>0, <2>1, ShapeStays DEF vars
    <3>2. \A f \in outbox[s] : f \in Frames /\ (GoodFrame(f) => GoodFrame(f)')
      BY <2>1, GoodStays DEF RustTypeOK
    <3>3. CallOK(s) => CallOK(s)'
      BY <1>0, <2>1, CallStays DEF vars
    <3> QED  BY <1>0, <2>2, <3>1, <3>2, <3>3 DEF ThreadOK, vars, RightFor
  <2> QED  BY <1>0, <2>1, <2>2 DEF FramesInv, vars, mapvars
<1> SUFFICES ASSUME NEW t \in Threads, Client(t) \/ Works(t)
             PROVE  FramesInv' /\ Grows
  BY <1>0 DEF Next, Done
<1>s. ThreadOK(t)
  BY DEF FramesInv
<1>n. \A s \in Threads : Num(s) \in Nat
  BY DEF Num, RustTypeOK
<1>1. ASSUME UNCHANGED <<gone, outbox, requests>>
      PROVE  Grows
  BY <1>1, <1>n DEF Grows, Num
<1>2. PICK u0 \in Usernames \cup {All} : TRUE
  OBVIOUS
<1>3. PICK f0 \in Frames : TRUE
  <2>1. Frame(t, "left", 0, All) \in Frames
    BY FrameType DEF Kinds
  <2> QED  BY <2>1
<1>4. CASE BadLogin(t) \/ ReadEnds(t) \/ ReadPanics(t) \/ Leave(t)
  <2>1. /\ UNCHANGED <<gone, outbox, requests, user, calls, to>>
        /\ \A s \in Threads \ {t} : pc'[s] = pc[s]
        /\ pc'[t] \in {"exited", "leaving", "panicked"}
    BY <1>4 DEF BadLogin, ReadEnds, ReadPanics, Leave, Go, RustTypeOK
  <2>2. Grows /\ Idle(t)
    BY <1>1, <2>1 DEF Idle
  <2> QED  BY <1>3, <2>1, <2>2, FramesDeliver DEF Early, Silent
<1>5. CASE CreateInstance(t) \/ AddUser(t) \/ \E u \in Usernames : Login(t, u)
  <2>1. /\ UNCHANGED <<gone, outbox, requests, calls, to>>
        /\ \A s \in Threads \ {t} : pc'[s] = pc[s] /\ user'[s] = user[s]
        /\ pc[t] \in Early /\ pc'[t] \in Silent
        /\ pc[t] = "login" \/ user'[t] = user[t]
    BY <1>5 DEF CreateInstance, AddUser, Login, Go, RustTypeOK, Early, Silent
  <2>2. Grows /\ Idle(t)
    BY <1>1, <2>1 DEF Idle
  <2> QED  BY <1>3, <2>1, <2>2, FramesDeliver DEF Early, Silent
<1>6. CASE Refuse(t) \/ Greet(t) \/ GreetPanics(t)
  <2> DEFINE f == IF Refuse(t) THEN Frame(t, "ERROR", 0, user[t])
                               ELSE Frame(t, "LOGIN", 0, user[t])
  <2>1. user[t] \in Usernames /\ pc[t] \in {"refusing", "greeting"}
    BY <1>6 DEF Refuse, Greet, GreetPanics, Go, Placed
  <2>2. f \in Frames
    BY <2>1, FrameType DEF Kinds
  <2>3. GoodFrame(f) /\ RightFor(f, t)
    BY <2>1 DEF GoodFrame, RightFor, Frame
  <2>4. /\ Written(t, f) \/ WriteFails(t)
        /\ UNCHANGED <<requests, user, to>>
        /\ \A s \in Threads \ {t} : pc'[s] = pc[s] /\ calls'[s] = calls[s]
        /\ pc'[t] \in {"exited", "panicked", "calling"}
        /\ pc'[t] = "calling" => calls'[t] = <<Frame(t, "entered", 0, All)>>
    BY <1>6 DEF Refuse, Greet, GreetPanics, Go, Calling, RustTypeOK
  <2> HIDE DEF f
  <2>5. /\ Grows
        /\ \A s \in Threads : \/ outbox'[s] = outbox[s]
                              \/ s = t /\ outbox'[s] = outbox[s] \cup {f}
    BY <2>2, <2>4, WritesGrow
  <2>6. Num(t)' = 0
    BY <1>s, <2>1, <2>4 DEF ThreadOK, Silent, Num
  <2>7. pc'[t] = "calling" => Shape(t)'
    BY <2>4, <2>6 DEF Shape, Frame
  <2>8. Idle(t)
    BY <2>4 DEF Idle
  <2> QED  BY <2>1, <2>2, <2>3, <2>4, <2>5, <2>7, <2>8, FramesDeliver DEF Early, Silent
<1>8. CASE Lock(t)
  <2> DEFINE f == Head(calls[t])
  <2>1. /\ UNCHANGED <<gone, outbox, requests, user, calls>>
        /\ \A s \in Threads \ {t} : pc'[s] = pc[s] /\ to'[s] = to[s]
        /\ pc[t] = "calling" /\ pc'[t] = "locked" /\ to'[t] = Recipients(t, f)
    BY <1>8 DEF Lock, RustTypeOK
  <2>2. Grows /\ Idle(t)
    BY <1>1, <2>1 DEF Idle
  <2>3. Shape(t)'
    BY <1>s, <2>1, <2>2, ShapeStays DEF ThreadOK
  <2>4. Shape(t) /\ user[t] \in Usernames
    BY <1>s, <2>1 DEF ThreadOK, Placed
  <2>5. f.kind = "ACK" => f.dest = user[t]
    BY <2>4, NextFrame
  <2>6. user[t] \in Users /\ user[t] # All
    BY <2>1, <2>4 DEF ServedInv, SessionsHaveEntries, InSession, Session, Users
  <2>7. CallOK(t)'
    <3>1. f' = f
      BY <2>1
    <3>2. Recipients(t, f) \subseteq Addressees(t)'
      BY <2>1 DEF Recipients, Addressees, Users
    <3>3. f.kind = "ACK" => user[t] \in Recipients(t, f)
      BY <2>5, <2>6 DEF Recipients
    <3> QED  BY <2>1, <3>1, <3>2, <3>3 DEF CallOK
  <2> QED  BY <1>3, <2>1, <2>2, <2>3, <2>7, FramesDeliver DEF Early, Silent
<1>9. CASE \E u \in Usernames : Send(t, u) \/ SendFails(t, u)
  <2> PICK u \in Usernames : Send(t, u) \/ SendFails(t, u)
    BY <1>9
  <2> DEFINE f == Head(calls[t])
             c == clients[u]
  <2>0. /\ pc[t] = "locked" /\ Shape(t) /\ user[t] \in Usernames /\ u \in Users /\ u \in to[t]
        /\ CallOK(t)
    BY <1>s DEF Send, SendFails, ThreadOK, Placed
  <2>1. /\ f \in Frames /\ f.sender = t /\ GoodFrame(f)
        /\ f.kind = "ACK" => f.dest = user[t] /\ f.num = Num(t)
    BY <2>0, NextFrame
  <2>2. c \in Threads /\ user[c] = u /\ (InSession(c) \/ pc[c] = "panicked")
    BY <2>0 DEF Users, RustTypeOK, ServedInv, EntriesAreServed
  <2>3. /\ UNCHANGED <<pc, requests, user, calls>>
        /\ \A s \in Threads \ {t} : to'[s] = to[s]
        /\ (to'[t] = to[t] \ {u} /\ Written(c, f)) \/ (to'[t] = {} /\ WriteFails(c))
    <3>1. CASE Send(t, u)
      <4>1. to'[t] = to[t] \ {u} /\ \A s \in Threads \ {t} : to'[s] = to[s]
        BY <3>1 DEF Send, RustTypeOK
      <4> QED  BY <3>1, <4>1 DEF Send
    <3>2. CASE SendFails(t, u)
      BY <3>2 DEF SendFails, RustTypeOK
    <3> QED  BY <3>1, <3>2
  <2>3a. f' = f /\ u \in Addressees(t)
    BY <2>0, <2>3 DEF CallOK
  <2>3b. u = user[t] => c = t
    BY <2>0 DEF ServedInv, SessionsHaveEntries, InSession, Session
  <2>3c. RightFor(f, c)
    BY <2>1, <2>2, <2>3a DEF RightFor, Addressees
  <2>3d. f.kind = "ACK" => u = user[t]
    BY <2>0, <2>1, <2>3a DEF Addressees
  <2> HIDE DEF f, c
  <2>4. /\ Grows
        /\ \A s \in Threads : \/ outbox'[s] = outbox[s]
                              \/ s = c /\ outbox'[s] = outbox[s] \cup {f}
    BY <2>1, <2>2, <2>3, WritesGrow
  <2>5. pc'[c] \notin Early /\ pc[c] # "login"
    BY <2>2, <2>3 DEF InSession, Session, Early
  <2>6. Idle(t) /\ Shape(t)'
    BY <2>0, <2>3, <2>4, ShapeStays DEF Idle
  <2>7. CallOK(t)'
    <3>1. to'[t] \subseteq to[t] /\ Addressees(t)' = Addressees(t) /\ Num(t)' = Num(t)
      BY <2>3 DEF Addressees, Num
    <3>2. f.kind = "ACK" => Got(t, "ACK", t, Num(t))' \/ t \in gone'
      <4> SUFFICES ASSUME f.kind = "ACK" PROVE Got(t, "ACK", t, Num(t))' \/ t \in gone'
        OBVIOUS
      <4>1. c = t /\ f.num = Num(t) /\ f.sender = t
        BY <2>1, <2>3b, <2>3d
      <4>2. f \in outbox'[t] \/ t \in gone'
        BY <2>3, <4>1 DEF Written, WriteFails, RustTypeOK
      <4> QED  BY <3>1, <4>1, <4>2 DEF Got
    <3>3. Head(calls[t])' = f
      BY <2>3a DEF f
    <3> QED  BY <2>0, <3>1, <3>2, <3>3 DEF CallOK
  <2> QED  BY <2>0, <2>1, <2>2, <2>3, <2>3c, <2>4, <2>5, <2>6, <2>7, FramesDeliver DEF Early, Silent
<1>10. CASE Unlock(t)
  <2> DEFINE f == Head(calls[t])
  <2>0. /\ pc[t] = "locked" /\ Shape(t) /\ user[t] \in Usernames /\ CallOK(t) /\ to[t] = {}
        /\ Return(t) /\ UNCHANGED <<gone, outbox, requests, user, to>>
    BY <1>10, <1>s DEF Unlock, ThreadOK, Placed
  <2>1. /\ calls[t] # <<>>
        /\ \/ Len(calls[t]) = 1
           \/ /\ Len(calls[t]) = 2 /\ f.kind = "ACK"
              /\ Tail(calls[t]) = <<Frame(t, "MESSAGE", Num(t), Request(t).dest)>>
              /\ Num(t) > 0 /\ Request(t).type = "MESSAGE"
           \/ /\ Len(calls[t]) = 2 /\ Num(t) > 0 /\ Request(t).dest # All
              /\ Tail(calls[t]) = <<Frame(t, "WHO", Num(t), user[t])>>
    BY <2>0, NextFrame
  <2>2. /\ \A s \in Threads \ {t} : pc'[s] = pc[s] /\ calls'[s] = calls[s]
        /\ pc'[t] \in {"calling", "leaving", "reading", "panicked"}
    BY <2>0, <2>1, ReturnType
  <2>3. Grows /\ Idle(t)
    BY <1>1, <2>0, <2>2 DEF Idle
  <2>4. pc'[t] = "calling" => Len(calls[t]) # 1 /\ calls'[t] = Tail(calls[t])
    <3>1. pc'[t] = "calling" => Len(calls[t]) > 1 /\ calls'[t] = Tail(calls[t])
      BY <2>0 DEF Return, RustTypeOK
    <3>2. Len(calls[t]) \in Nat
      BY LenProperties DEF RustTypeOK
    <3>3. \A n \in Nat : n > 1 => n # 1
      OBVIOUS
    <3> QED  BY <3>1, <3>2, <3>3, Zenon
  <2>5. f.kind = "ACK" => Got(t, "ACK", t, Num(t)) \/ t \in gone
    BY <2>0 DEF CallOK
  <2> HIDE DEF f
  <2>6. Num(t)' = Num(t) /\ Request(t)' = Request(t)
    BY <2>0 DEF Num, Request
  <2>7. Got(t, "ACK", t, Num(t)) \/ t \in gone => Got(t, "ACK", t, Num(t))' \/ t \in gone'
    BY <2>0, <2>6 DEF Got
  <2>8. ASSUME pc'[t] = "calling" PROVE Shape(t)'
    <3>1. CASE /\ Num(t) > 0 /\ Request(t).dest # All
               /\ Tail(calls[t]) = <<Frame(t, "WHO", Num(t), user[t])>>
      <4> HIDE DEF Request
      <4> QED  BY <2>0, <2>4, <2>6, <2>8, <3>1 DEF Shape, Frame
    <3>2. CASE /\ Num(t) > 0 /\ Request(t).type = "MESSAGE" /\ f.kind = "ACK"
               /\ Tail(calls[t]) = <<Frame(t, "MESSAGE", Num(t), Request(t).dest)>>
      <4> HIDE DEF Request
      <4> QED  BY <2>4, <2>5, <2>6, <2>7, <2>8, <3>2 DEF Shape, Frame
    <3> QED  BY <2>1, <2>4, <2>8, <3>1, <3>2
  <2> QED  BY <1>3, <2>0, <2>2, <2>3, <2>8, FramesDeliver DEF Early, Silent
<1>11. CASE SendAstray(t)
  <2>1. /\ UNCHANGED <<gone, outbox, requests, user, calls, pc>>
        /\ \A s \in Threads \ {t} : to'[s] = to[s]
        /\ pc[t] = "locked" /\ to'[t] = {} /\ to[t] \ Users # {}
    BY <1>11 DEF SendAstray, RustTypeOK
  <2>2. Grows /\ Idle(t)
    BY <1>1, <2>1 DEF Idle
  <2>3. Shape(t)' /\ Shape(t) /\ CallOK(t) /\ user[t] \in Usernames
    BY <1>s, <2>1, <2>2, ShapeStays DEF ThreadOK, Placed
  <2>4. Head(calls[t]).kind = "ACK" => Head(calls[t]).dest = user[t]
    BY <2>3, NextFrame
  <2>5. user[t] \in Users /\ user[t] # All
    BY <2>1, <2>3 DEF ServedInv, SessionsHaveEntries, InSession, Session, Users
  <2>6. Head(calls[t]).kind # "ACK"
    BY <2>1, <2>3, <2>4, <2>5 DEF CallOK, Addressees
  <2>7. CallOK(t)'
    BY <2>1, <2>6 DEF CallOK
  <2> QED  BY <1>3, <2>1, <2>2, <2>3, <2>7, FramesDeliver DEF Early, Silent
<1> QED
  BY <1>4, <1>5, <1>6, <1>8, <1>9, <1>10, <1>11, FramesByReads DEF Client, Works

LEMMA FramesInit == Init => FramesInv
BY DEF Init, FramesInv, ThreadOK, Early, Silent

\* After a step that leaves the map in place it was in place before.
LEMMA NotRemade == [Next]_vars /\ ~remade' /\ RustTypeOK => ~remade
<1> SUFFICES ASSUME [Next]_vars, ~remade', RustTypeOK PROVE ~remade
  OBVIOUS
<1>1. UNCHANGED remade \/ remade' = (remade \/ made)
  BY DEF Next, Done, Client, Works, vars, mapvars, BadLogin, Login, CreateInstance, AddUser,
         Refuse, Greet, GreetPanics, Lock, Send, SendFails, Unlock, SendAstray,
         ReadSkipped, ReadImproper, ReadWho, ReadDamaged, ReadUnreadable, ReadMessage, ReadDisconnect, Reads,
         ReadEnds, ReadPanics, Leave
<1> QED  BY <1>1 DEF RustTypeOK

LEMMA FramesStepAll ==
    ASSUME RustTypeOK, RustTypeOK', Placed, ServedInv, FramesInv, [Next]_vars
    PROVE  FramesInv'
BY FramesStep, NotRemade DEF FramesInv

\* Direct messages and notices come out on the connection that logged in with
\* the name, broadcasts on others' than the sender's (FramesComeOutRight).
THEOREM RustFramesComeOutRight == Spec => []FramesComeOutRight
<1>1. FramesInv => FramesComeOutRight
  BY DEF FramesInv, ThreadOK, RightFor, FramesComeOutRight
<1> QED  BY <1>1, FramesInit, ServedInit, TypesStep, ServedStep, FramesStepAll, PTL DEF Spec

\* What is passed on has been acknowledged to its sender, and not rejected
\* (PassedOnWasAcked).
THEOREM RustPassedOnWasAcked == Spec => []PassedOnWasAcked
<1>1. RustTypeOK /\ FramesInv => PassedOnWasAcked
  <2> SUFFICES ASSUME RustTypeOK, FramesInv, ~remade,
                      NEW c \in Threads, NEW f \in outbox[c], f.kind = "MESSAGE"
               PROVE  /\ f.num \in DOMAIN requests[f.sender]
                      /\ requests[f.sender][f.num].type = "MESSAGE"
                      /\ ~Got(f.sender, "NACK", f.sender, f.num)
                      /\ Got(f.sender, "ACK", f.sender, f.num) \/ f.sender \in gone
    BY DEF PassedOnWasAcked
  <2>1. f \in Frames /\ f.sender \in Threads
    BY DEF RustTypeOK, Frames
  <2>2. GoodFrame(f)
    BY DEF FramesInv, ThreadOK
  <2>3. DOMAIN requests[f.sender] = 1..Num(f.sender)
    BY <2>1 DEF RustTypeOK, Num
  <2>4. ~Got(f.sender, "NACK", f.sender, f.num)
    <3> SUFFICES ASSUME NEW g \in outbox[f.sender], g.kind = "NACK",
                        g.sender = f.sender, g.num = f.num
                 PROVE  FALSE
      BY DEF Got
    <3>1. GoodFrame(g)
      BY <2>1 DEF FramesInv, ThreadOK
    <3> QED  BY <2>2, <3>1 DEF GoodFrame
  <2> QED  BY <2>2, <2>3, <2>4 DEF GoodFrame
<1> QED  BY <1>1, FramesInit, ServedInit, TypesStep, ServedStep, FramesStepAll, PTL DEF Spec

-------------------------------------------------------------------------------
(***************************************************************************)
(* The room.  While a message is sent, whoever is in the room has it or is *)
(* still to get it.                                                        *)
(***************************************************************************)
ToInv == ~remade => \A t \in Threads : pc[t] = "locked" => to[t] \subseteq Users

Hears(s, c) ==
    /\ \A n \in DOMAIN requests[s] :
          requests[s][n].dest = All /\ Handled(s, n) => Got(c, "MESSAGE", s, n)
    /\ pc[s] = "locked" /\ Head(calls[s]).kind = "MESSAGE" /\ Head(calls[s]).dest = All
          => user[c] \in to[s] \/ Got(c, "MESSAGE", s, Num(s))

HearsInv ==
    ~remade => \A s, c \in Threads :
        gone \subseteq {s} /\ InSession(c) /\ Got(c, "entered", s, 0) => Hears(s, c)

LEMMA StepIdles ==
    ASSUME RustTypeOK, Placed, NEW t \in Threads, Client(t) \/ Works(t)
    PROVE  Idle(t)
<1>1. CASE \/ BadLogin(t) \/ (\E u \in Usernames : Login(t, u)) \/ ReadEnds(t) \/ ReadPanics(t)
           \/ CreateInstance(t) \/ AddUser(t) \/ Refuse(t) \/ Greet(t) \/ GreetPanics(t) \/ Leave(t)
  BY <1>1 DEF BadLogin, Login, ReadEnds, ReadPanics, CreateInstance, AddUser, Refuse, Greet,
              GreetPanics, Leave, Go, Calling, Idle, RustTypeOK
<1>2. CASE Unlock(t)
  BY <1>2 DEF Unlock, Return, Idle, RustTypeOK
<1>3. CASE Lock(t) \/ SendAstray(t) \/ (\E u \in Usernames : Send(t, u) \/ SendFails(t, u))
  BY <1>3 DEF Lock, SendAstray, Send, SendFails, Idle, RustTypeOK
<1>4. CASE \/ ReadSkipped(t) \/ ReadImproper(t) \/ ReadWho(t) \/ ReadDamaged(t) \/ ReadUnreadable(t)
           \/ ReadDisconnect(t) \/ (\E dest \in Usernames \cup {All} : ReadMessage(t, dest))
  <2>1. \E type, dest, frames :
            Reads(t, type, dest) /\ (Handles(t, frames) \/ UNCHANGED <<pc, calls>>)
    BY <1>4 DEF ReadSkipped, ReadImproper, ReadWho, ReadDamaged, ReadUnreadable, ReadDisconnect, ReadMessage
  <2> QED  BY <2>1 DEF Reads, Handles, Calling, Idle, RustTypeOK
<1> QED  BY <1>1, <1>2, <1>3, <1>4 DEF Client, Works

LEMMA ToStep ==
    ASSUME RustTypeOK, RustTypeOK', Placed, ServedInv, ToInv, ~remade', [Next]_vars
    PROVE  ToInv'
<1>0. ~remade
  BY NotRemade
<1> SUFFICES ASSUME NEW s \in Threads, pc'[s] = "locked" PROVE to'[s] \subseteq Users'
  BY DEF ToInv
<1>1. ASSUME UNCHANGED vars PROVE to'[s] \subseteq Users'
  BY <1>0, <1>1 DEF vars, mapvars, ToInv, Users
<1> SUFFICES ASSUME NEW t \in Threads, Client(t) \/ Works(t) PROVE to'[s] \subseteq Users'
  BY <1>1 DEF Next, Done
<1>2. Idle(t)
  BY StepIdles
<1>3. CASE CreateInstance(t)
  BY <1>2, <1>3 DEF CreateInstance, Go, ServedInv, Idle, RustTypeOK
<1>4. CASE AddUser(t) \/ Leave(t)
  <2>1. readers = {} /\ pc'[t] # "locked"
    BY <1>4 DEF AddUser, Leave, Go, RustTypeOK
  <2> QED  BY <1>0, <1>2, <2>1 DEF ServedInv, LockHeld, Idle
<1>5. ASSUME UNCHANGED clients, s = t \/ to'[s] = to[s]
      PROVE  to'[s] \subseteq Users'
  <2>1. Users' = Users
    BY <1>5 DEF Users
  <2>2. CASE s # t
    BY <1>0, <1>2, <2>1, <2>2 DEF Idle, ToInv
  <2>3. CASE s = t
    <3>1. CASE Lock(t)
      BY <2>1, <2>3, <3>1 DEF Lock, Recipients, RustTypeOK
    <3>2. CASE SendAstray(t) \/ (\E u \in Usernames : Send(t, u) \/ SendFails(t, u))
      BY <1>0, <2>1, <2>3, <3>2 DEF SendAstray, Send, SendFails, RustTypeOK, ToInv
    <3>3. CASE \/ BadLogin(t) \/ (\E u \in Usernames : Login(t, u)) \/ ReadEnds(t) \/ ReadPanics(t)
               \/ Refuse(t) \/ Greet(t) \/ GreetPanics(t)
      BY <2>3, <3>3 DEF BadLogin, Login, ReadEnds, ReadPanics, Refuse, Greet, GreetPanics, Go, RustTypeOK
    <3>4. CASE \/ ReadSkipped(t) \/ ReadImproper(t) \/ ReadWho(t) \/ ReadDamaged(t) \/ ReadUnreadable(t)
               \/ ReadDisconnect(t) \/ (\E dest \in Usernames \cup {All} : ReadMessage(t, dest))
      <4>1. \E type, dest, frames :
                Reads(t, type, dest) /\ (Handles(t, frames) \/ UNCHANGED <<pc, calls>>)
        BY <3>4 DEF ReadSkipped, ReadImproper, ReadWho, ReadDamaged, ReadUnreadable, ReadDisconnect, ReadMessage
      <4> QED  BY <2>3, <4>1 DEF Reads, Handles, RustTypeOK
    <3>5. CASE Unlock(t)
      BY <2>3, <3>5 DEF Unlock, Return, RustTypeOK
    <3>6. CASE CreateInstance(t) \/ AddUser(t) \/ Leave(t)
      BY <1>3, <1>4, <3>6
    <3> QED  BY <3>1, <3>2, <3>3, <3>4, <3>5, <3>6 DEF Client, Works
  <2> QED  BY <2>2, <2>3
<1>6. UNCHANGED clients \/ CreateInstance(t) \/ AddUser(t) \/ Leave(t)
  BY DEF Client, Works, mapvars, BadLogin, Login, Refuse, Greet, GreetPanics, Lock,
         Send, SendFails, Unlock, SendAstray, ReadSkipped, ReadImproper, ReadWho, ReadDamaged, ReadUnreadable,
         ReadMessage, ReadDisconnect, Reads, ReadEnds, ReadPanics
<1> QED  BY <1>2, <1>3, <1>4, <1>5, <1>6 DEF Idle

\* Whom a call has still to write to is logged in, however long it takes
\* (RecipientsStay): who holds the lock keeps add_user and remove_user waiting.
THEOREM RustRecipientsStay == Spec => []RecipientsStay
<1>1. Init => ToInv
  BY DEF Init, ToInv
<1>2. RustTypeOK /\ RustTypeOK' /\ Placed /\ ServedInv /\ ToInv /\ [Next]_vars => ToInv'
  BY ToStep DEF ToInv
<1>3. ServedInv /\ ToInv => RecipientsStay
  BY DEF ServedInv, ToInv, RecipientsStay, EntriesAreServed
<1> QED  BY <1>1, <1>2, <1>3, ServedInit, TypesStep, ServedStep, PTL DEF Spec

\* Nobody comes into a session but through add_user, with nothing sent to it.
LEMMA SessionsBegin ==
    ASSUME RustTypeOK, Placed, NEW t \in Threads, Client(t) \/ Works(t), ~InSession(t), InSession(t)'
    PROVE  pc[t] = "adding" /\ UNCHANGED outbox
<1>1. pc[t] \notin Session /\ pc'[t] \in Session
  BY DEF InSession
<1>2. CASE \/ BadLogin(t) \/ (\E u \in Usernames : Login(t, u)) \/ ReadEnds(t) \/ ReadPanics(t)
           \/ CreateInstance(t) \/ AddUser(t) \/ Refuse(t) \/ Greet(t) \/ GreetPanics(t) \/ Leave(t)
  BY <1>1, <1>2 DEF BadLogin, Login, ReadEnds, ReadPanics, CreateInstance, AddUser, Refuse, Greet,
              GreetPanics, Leave, Go, Session, RustTypeOK
<1>3. CASE \/ Unlock(t) \/ Lock(t) \/ SendAstray(t)
           \/ (\E u \in Usernames : Send(t, u) \/ SendFails(t, u))
  BY <1>1, <1>3 DEF Unlock, Lock, SendAstray, Send, SendFails, Session
<1>4. CASE \/ ReadSkipped(t) \/ ReadImproper(t) \/ ReadWho(t) \/ ReadDamaged(t) \/ ReadUnreadable(t)
           \/ ReadDisconnect(t) \/ (\E dest \in Usernames \cup {All} : ReadMessage(t, dest))
  <2>1. \E type, dest : Reads(t, type, dest)
    BY <1>4 DEF ReadSkipped, ReadImproper, ReadWho, ReadDamaged, ReadUnreadable, ReadDisconnect, ReadMessage
  <2> QED  BY <1>1, <2>1 DEF Reads, Session
<1> QED  BY <1>2, <1>3, <1>4 DEF Client, Works

LEMMA OneWritten ==
    ASSUME RustTypeOK, NEW d, NEW f, Written(d, f), NEW c \in Threads
    PROVE  \A x \in outbox'[c] : x \in outbox[c] \/ x = f
<1>1. CASE d = c
  BY <1>1 DEF Written, RustTypeOK
<1>2. CASE d # c
  BY <1>2 DEF Written, RustTypeOK
<1> QED  BY <1>1, <1>2

\* A notice that somebody has entered is sent before that user's requests.
LEMMA EnteredFirst ==
    ASSUME RustTypeOK, Placed, FramesInv, ~remade, NEW t \in Threads, Client(t) \/ Works(t),
           NEW s \in Threads, NEW c \in Threads,
           ~Got(c, "entered", s, 0), Got(c, "entered", s, 0)'
    PROVE  /\ requests'[s] = <<>>
           /\ ~(pc'[s] = "locked" /\ Head(calls'[s]).kind = "MESSAGE")
<1>1. PICK g \in outbox'[c] : g \notin outbox[c] /\ g.kind = "entered" /\ g.sender = s
  BY DEF Got
<1>s. ThreadOK(t)
  BY DEF FramesInv
<1>3. CASE \E u \in Usernames : Send(t, u)
  <2>1. pc[t] = "locked" /\ Shape(t) /\ user[t] \in Usernames
    BY <1>3, <1>s DEF Send, ThreadOK, Placed
  <2>2. \A x \in outbox'[c] : x \in outbox[c] \/ x = Head(calls[t])
    BY <1>3 DEF Send, Written, RustTypeOK
  <2>3. UNCHANGED <<requests, calls>>
    BY <1>3 DEF Send
  <2>4. g = Head(calls[t])
    BY <1>1, <2>2
  <2>5. s = t /\ Num(t) = 0
    BY <1>1, <2>1, <2>4, NextFrame
  <2>6. requests[s] \in Seq(Requests) /\ Len(requests[s]) = 0
    BY <2>5 DEF Num, RustTypeOK
  <2>7. requests[s] = <<>>
    BY <2>6, EmptySeq
  <2> QED  BY <1>1, <2>3, <2>4, <2>5, <2>7
<1>4. CASE Refuse(t) \/ Greet(t)
  <2>1. \A x \in outbox'[c] : x \in outbox[c] \/ x.kind \in {"ERROR", "LOGIN"}
    <3>1. UNCHANGED outbox \/ (\E kind \in {"ERROR", "LOGIN"} : Written(t, Frame(t, kind, 0, user[t])))
      BY <1>4 DEF Refuse, Greet, WriteFails
    <3> QED  BY <3>1, OneWritten DEF Frame
  <2> QED  BY <1>1, <2>1
<1>5. CASE UNCHANGED outbox
  BY <1>1, <1>5
<1>6. \/ Refuse(t) \/ Greet(t) \/ UNCHANGED outbox
      \/ \E u \in Usernames : Send(t, u)
  BY DEF Client, Works, BadLogin, Login, CreateInstance, AddUser, GreetPanics, Lock, WriteFails,
         SendFails, Unlock, SendAstray, ReadSkipped, ReadImproper, ReadWho, ReadDamaged, ReadUnreadable,
         ReadMessage, ReadDisconnect, Reads, ReadEnds, ReadPanics, Leave
<1> QED  BY <1>3, <1>4, <1>5, <1>6

LEMMA UserStays ==
    ASSUME RustTypeOK, NEW t \in Threads, Client(t) \/ Works(t), NEW c \in Threads, InSession(c)
    PROVE  user'[c] = user[c]
<1>1. UNCHANGED user \/ \E u \in Usernames : Login(t, u)
  BY DEF Client, Works, BadLogin, CreateInstance, AddUser, Refuse, Greet, GreetPanics, Lock, Send, SendFails, Unlock, SendAstray, ReadSkipped, ReadImproper, ReadWho, ReadDamaged, ReadUnreadable,
         ReadMessage, ReadDisconnect, Reads, ReadEnds, ReadPanics, Leave
<1> QED  BY <1>1 DEF Login, Go, InSession, Session, RustTypeOK

\* A step of the speaker t; c has seen it enter, and hears what it said before.
LEMMA HearsOwn ==
    ASSUME RustTypeOK, RustTypeOK', Placed, ServedInv, FramesInv, ToInv, ~remade, Grows,
           NEW t \in Threads, Client(t) \/ Works(t), gone' \subseteq {t}, NEW c \in Threads, InSession(c),
           user'[c] = user[c], Got(c, "entered", t, 0), Hears(t, c)
    PROVE  Hears(t, c)'
<1>0. ThreadOK(t) /\ ThreadOK(c)
  BY DEF FramesInv
<1>1. \A n : Got(c, "MESSAGE", t, n) => Got(c, "MESSAGE", t, n)'
  BY DEF Got, Grows
<1>2. t # c
  BY <1>0 DEF Got, ThreadOK, GoodFrame, RightFor
<1>3. user[c] \in Users /\ (InSession(t) => user[c] # user[t])
  <2>1. user[c] \in Usernames /\ clients[user[c]] = c
    BY DEF ServedInv, SessionsHaveEntries, Placed, InSession, Session
  <2> QED  BY <1>2, <2>1 DEF ServedInv, SessionsHaveEntries, Users
<1>4. Num(t) \in Nat /\ DOMAIN requests[t] = 1..Num(t)
  BY DEF Num, RustTypeOK
<1>5. ASSUME requests'[t] = requests[t] PROVE Num(t)' = Num(t) /\ DOMAIN requests'[t] = 1..Num(t)
  BY <1>4, <1>5 DEF Num
<1>6. CASE \/ BadLogin(t) \/ (\E u \in Usernames : Login(t, u)) \/ CreateInstance(t) \/ AddUser(t)
           \/ Refuse(t) \/ Greet(t) \/ GreetPanics(t)
  <2>1. pc[t] \in Silent /\ requests'[t] = requests[t] /\ pc'[t] # "locked"
    BY <1>6 DEF BadLogin, Login, CreateInstance, AddUser, Refuse, Greet, GreetPanics, Go, Silent,
                Early, RustTypeOK
  <2>2. Num(t) = 0
    BY <1>0, <2>1 DEF ThreadOK, Num
  <2> QED  BY <1>5, <2>1, <2>2 DEF Hears
<1>7. CASE ReadEnds(t) \/ ReadPanics(t) \/ Leave(t)
  <2>1. /\ pc[t] \in {"reading", "leaving"} /\ pc'[t] # "locked" /\ requests'[t] = requests[t]
    BY <1>7 DEF ReadEnds, ReadPanics, Leave, Go, RustTypeOK
  <2> QED  BY <1>1, <1>5, <1>4, <2>1 DEF Hears, Handled
<1>8. CASE \/ ReadSkipped(t) \/ ReadImproper(t) \/ ReadWho(t) \/ ReadDamaged(t) \/ ReadUnreadable(t)
           \/ ReadDisconnect(t) \/ (\E dest \in Usernames \cup {All} : ReadMessage(t, dest))
  <2>1. PICK type, dest : /\ Reads(t, type, dest)
                          /\ pc'[t] = "calling" \/ (dest = None /\ pc'[t] = "reading")
    <3>1. \E type, dest, frames :
              Reads(t, type, dest) /\ (Handles(t, frames) \/ (dest = None /\ UNCHANGED pc))
      BY <1>8 DEF ReadSkipped, ReadImproper, ReadWho, ReadDamaged, ReadUnreadable, ReadDisconnect, ReadMessage
    <3>2. \A type, dest : Reads(t, type, dest) => pc[t] = "reading"
      BY DEF Reads
    <3>3. (\E frames : Handles(t, frames)) => pc'[t] = "calling"
      BY DEF Handles, RustTypeOK
    <3> QED  BY <3>1, <3>2, <3>3
  <2>2. /\ Num(t)' = Num(t) + 1
        /\ requests'[t][Num(t) + 1] = [type |-> type, dest |-> dest]
        /\ \A n \in 1..Num(t) : requests'[t][n] = requests[t][n]
    BY <2>1, ReadsGrow DEF Grows
  <2>3. DOMAIN requests'[t] = 1..(Num(t) + 1)
    BY <2>2 DEF Num, RustTypeOK
  <2>4. pc[t] = "reading"
    BY <2>1 DEF Reads
  <2>5. ASSUME NEW n \in 1..(Num(t) + 1), requests'[t][n].dest = All, Handled(t, n)'
        PROVE  n \in 1..Num(t)
    <3>1. ASSUME n = Num(t) + 1 PROVE FALSE
      <4>1. pc'[t] # "calling"
        BY <1>4, <2>2, <2>5, <3>1 DEF Handled
      <4>2. dest = All
        BY <2>2, <2>5, <3>1
      <4> QED  BY <2>1, <4>1, <4>2
    <3> QED  BY <1>4, <3>1
  <2>6. pc'[t] # "locked"
    BY <2>1
  <2>7. \A n \in 1..Num(t) : requests[t][n].dest = All => Got(c, "MESSAGE", t, n)
    BY <1>4, <2>4 DEF Hears, Handled
  <2>8. ASSUME NEW n \in DOMAIN requests'[t], requests'[t][n].dest = All, Handled(t, n)'
        PROVE  Got(c, "MESSAGE", t, n)'
    BY <1>1, <2>2, <2>3, <2>5, <2>7, <2>8
  <2> QED  BY <2>6, <2>8 DEF Hears
<1>10. CASE Lock(t)
  <2>1. /\ pc[t] = "calling" /\ pc'[t] = "locked" /\ requests'[t] = requests[t]
        /\ to'[t] = Recipients(t, Head(calls[t])) /\ calls'[t] = calls[t]
    BY <1>10 DEF Lock, RustTypeOK
  <2>2. Head(calls[t]).kind = "MESSAGE" /\ Head(calls[t]).dest = All => user[c] \in to'[t]
    BY <1>3, <2>1 DEF InSession, Session, Recipients
  <2> QED  BY <1>1, <1>4, <1>5, <2>1, <2>2 DEF Hears, Handled
<1>11. CASE \E u \in Usernames : Send(t, u)
  <2>1. PICK u \in Usernames : Send(t, u)
    BY <1>11
  <2>2. /\ pc[t] = "locked" /\ pc'[t] = "locked" /\ requests'[t] = requests[t]
        /\ calls'[t] = calls[t] /\ to'[t] = to[t] \ {u}
    BY <2>1 DEF Send, RustTypeOK
  <2>3. ASSUME Head(calls[t]).kind = "MESSAGE", u = user[c] PROVE Got(c, "MESSAGE", t, Num(t))'
    <3>1. clients[u] = c
      BY <2>3 DEF ServedInv, SessionsHaveEntries
    <3>2. Head(calls[t]) \in outbox'[c]
      <4>1. Written(c, Head(calls[t]))
        BY <2>1, <3>1 DEF Send
      <4> QED  BY <4>1 DEF Written, RustTypeOK
    <3>3. user[t] \in Usernames /\ Shape(t)
      BY <1>0, <2>2 DEF ThreadOK, Placed
    <3>4. Head(calls[t]).sender = t /\ Head(calls[t]).num = Num(t)
      BY <2>3, <3>3, NextFrame
    <3> QED  BY <1>5, <2>2, <2>3, <3>2, <3>4 DEF Got
  <2>4. Num(t)' = Num(t) /\ DOMAIN requests'[t] = DOMAIN requests[t]
    BY <1>5, <2>2
  <2> QED  BY <1>1, <2>2, <2>3, <2>4 DEF Hears, Handled, Got
<1>12. CASE Unlock(t)
  <2>1. /\ pc[t] = "locked" /\ Shape(t) /\ user[t] \in Usernames
        /\ Return(t) /\ requests'[t] = requests[t] /\ to[t] = {}
    BY <1>0, <1>12 DEF Unlock, ThreadOK, Placed
  <2>2. calls[t] # <<>> /\ (Len(calls[t]) = 1 \/ Len(calls[t]) = 2)
    BY <2>1, NextFrame
  <2>3. pc'[t] # "locked" /\ (Len(calls[t]) # 1 => pc'[t] = "calling")
    <3>1. pc'[t] # "locked" /\ (Len(calls[t]) > 1 => pc'[t] = "calling")
      BY <2>1 DEF Return, RustTypeOK
    <3>2. \A n : n = 2 => n > 1
      OBVIOUS
    <3> QED  BY <2>2, <3>1, <3>2, Zenon
  <2>4. Num(t) > 0 /\ Request(t).dest = All /\ Len(calls[t]) = 1 => Got(c, "MESSAGE", t, Num(t))
    BY <2>1, NextFrame DEF Hears
  <2>5. ASSUME NEW n \in 1..Num(t), requests[t][n].dest = All, Handled(t, n)'
        PROVE  Got(c, "MESSAGE", t, n)
    <3>1. n < Num(t) \/ (n = Num(t) /\ Num(t) > 0)
      BY <1>4
    <3>2. n < Num(t) => Got(c, "MESSAGE", t, n)
      BY <1>4, <2>5 DEF Hears, Handled
    <3>3. ASSUME n = Num(t), Num(t) > 0 PROVE Got(c, "MESSAGE", t, n)
      <4>1. Len(calls[t]) = 1
        BY <1>4, <1>5, <2>1, <2>3, <2>5, <3>3 DEF Handled
      <4> QED  BY <2>4, <2>5, <3>3, <4>1 DEF Request
    <3> QED  BY <3>1, <3>2, <3>3
  <2> QED  BY <1>1, <1>5, <2>1, <2>3, <2>5 DEF Hears
<1>9. ASSUME SendAstray(t) PROVE FALSE
  BY <1>9 DEF SendAstray, ToInv
<1>13. CASE \E u \in Usernames : SendFails(t, u)
  <2>1. PICK u \in Usernames : SendFails(t, u)
    BY <1>13
  <2>2. /\ pc[t] = "locked" /\ pc'[t] = "locked" /\ requests'[t] = requests[t]
        /\ calls'[t] = calls[t] /\ u \in to[t] \cap Users
    BY <2>1 DEF SendFails
  <2>3. ASSUME Head(calls[t]).dest = All PROVE FALSE
    <3>1. u # user[t]
      BY <1>0, <2>2, <2>3 DEF ThreadOK, CallOK, Addressees
    <3>2. clients[u] # t
      BY <2>2, <3>1 DEF ServedInv, EntriesAreServed
    <3> QED  BY <2>1, <3>2 DEF SendFails, WriteFails
  <2> QED  BY <1>1, <1>4, <1>5, <2>2, <2>3 DEF Hears, Handled
<1> QED
  BY <1>6, <1>7, <1>8, <1>9, <1>10, <1>11, <1>12, <1>13 DEF Client, Works

LEMMA HearsStep ==
    ASSUME RustTypeOK, RustTypeOK', Placed, ServedInv, FramesInv, ToInv, HearsInv, [Next]_vars
    PROVE  HearsInv'
<1> SUFFICES ASSUME ~remade', NEW s \in Threads, NEW c \in Threads,
                    gone' \subseteq {s}, InSession(c)', Got(c, "entered", s, 0)'
             PROVE  Hears(s, c)'
  BY DEF HearsInv
<1>0. ~remade /\ Grows /\ gone \subseteq {s}
  BY NotRemade, FramesStep DEF Grows
<1>1. ASSUME UNCHANGED vars PROVE Hears(s, c)'
  <2>1. InSession(c) /\ Got(c, "entered", s, 0)
    BY <1>1 DEF vars, InSession, Got
  <2> QED  BY <1>0, <1>1, <2>1 DEF HearsInv, Hears, Handled, Got, Num, vars
<1> SUFFICES ASSUME NEW t \in Threads, Client(t) \/ Works(t) PROVE Hears(s, c)'
  BY <1>1 DEF Next, Done
<1>2. Idle(t)
  BY StepIdles
<1>3. CASE ~InSession(c)
  <2>1. c = t
    BY <1>2, <1>3 DEF Idle, InSession
  <2>2. pc[c] = "adding" /\ UNCHANGED outbox
    BY <1>3, <2>1, SessionsBegin
  <2> QED  BY <1>0, <2>2 DEF FramesInv, ThreadOK, Early, Got
<1>4. CASE ~Got(c, "entered", s, 0)
  BY <1>0, <1>4, EnteredFirst DEF Hears
<1>5. CASE InSession(c) /\ Got(c, "entered", s, 0)
  <2>1. Hears(s, c) /\ user'[c] = user[c]
    BY <1>0, <1>5, UserStays DEF HearsInv
  <2>2. CASE s = t
    BY <1>0, <1>5, <2>1, <2>2, HearsOwn
  <2>3. CASE s # t
    <3>1. /\ pc'[s] = pc[s] /\ requests'[s] = requests[s] /\ calls'[s] = calls[s] /\ to'[s] = to[s]
      BY <1>2, <2>3 DEF Idle
    <3>2. \A n : Got(c, "MESSAGE", s, n) => Got(c, "MESSAGE", s, n)'
      BY <1>0 DEF Got, Grows
    <3> QED  BY <2>1, <3>1, <3>2 DEF Hears, Handled, Num
  <2> QED  BY <2>2, <2>3
<1> QED  BY <1>3, <1>4, <1>5

\* Whoever saw somebody enter hears all that is said, as long as no write to
\* others has failed and the map is the first one (RoomHearsAll).
THEOREM RustRoomHearsAll == Spec => []RoomHearsAll
<1>1. Init => ToInv /\ HearsInv
  BY DEF Init, ToInv, HearsInv, InSession, Session
<1>2. RustTypeOK /\ RustTypeOK' /\ Placed /\ ServedInv /\ ToInv /\ [Next]_vars => ToInv'
  BY ToStep DEF ToInv
<1>3. HearsInv => RoomHearsAll
  BY DEF HearsInv, Hears, RoomHearsAll
<1> QED
  BY <1>1, <1>2, <1>3, FramesInit, ServedInit, TypesStep, ServedStep, FramesStepAll, HearsStep, PTL
     DEF Spec
===============================================================================
