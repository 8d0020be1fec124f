--------------------------- MODULE RustServerProofs ---------------------------
(***************************************************************************)
(* The Rust server, for any number of threads, names and requests: types,  *)
(* and that the map and the sessions agree.                                *)
(***************************************************************************)
EXTENDS RustServer, SequenceTheorems, TLAPS

USE RustAssumption

\* Whoever is past its LOGIN has a name, whoever sends has something to send.
Placed ==
    \A t \in Threads :
        /\ pc[t] \notin {"login", "exited", "panicked"} => user[t] \in Usernames
        /\ pc[t] \in {"calling", "locked"} => calls[t] # <<>>

LEMMA FrameType ==
    ASSUME NEW t \in Threads, NEW kind \in Kinds, NEW n \in Nat,
           NEW d \in Usernames \cup {All}
    PROVE  Frame(t, kind, n, d) \in Frames
BY DEF Frame, Frames

LEMMA WrittenType ==
    ASSUME NEW c \in Threads, NEW f \in Frames, RustTypeOK,
           Written(c, f) \/ WriteFails(c) \/ UNCHANGED <<gone, outbox>>
    PROVE  gone' \subseteq Threads /\ outbox' \in [Threads -> SUBSET Frames]
<1>1. outbox[c] \cup {f} \in SUBSET Frames
  BY DEF RustTypeOK
<1>2. outbox \in [Threads -> SUBSET Frames] /\ gone \subseteq Threads
  BY DEF RustTypeOK
<1> QED  BY <1>1, <1>2 DEF Written, WriteFails

LEMMA ReturnType ==
    ASSUME NEW t \in Threads, RustTypeOK, calls[t] # <<>>, Return(t)
    PROVE  /\ calls' \in [Threads -> Seq(Frames)]
           /\ pc' \in [Threads -> PcValues]
           /\ pc'[t] \in {"calling", "leaving", "reading", "panicked"}
           /\ pc'[t] = "calling" => calls'[t] # <<>>
           /\ \A s \in Threads \ {t} : pc'[s] = pc[s] /\ calls'[s] = calls[s]
<1> DEFINE cs == calls[t]
<1>1. cs \in Seq(Frames) /\ cs # <<>>
  BY DEF RustTypeOK
<1>2. Tail(cs) \in Seq(Frames) /\ Len(Tail(cs)) = Len(cs) - 1
  BY <1>1, HeadTailProperties
<1>3. Len(cs) > 1 => Tail(cs) # <<>>
  <2>1. Len(<<>>) = 0
    OBVIOUS
  <2>2. Len(cs) > 1 => Len(Tail(cs)) # 0
    <3> HIDE DEF cs
    <3> QED  BY <1>1, <1>2, LenProperties
  <2> QED  BY <2>1, <2>2
<1> QED  BY <1>2, <1>3 DEF Return, RustTypeOK, PcValues

\* The same for the requests: what is read is one of Requests.
LEMMA ReadsType ==
    ASSUME NEW t \in Threads, NEW type, NEW dest, RustTypeOK, Reads(t, type, dest),
           [type |-> type, dest |-> dest] \in Requests
    PROVE  requests' \in [Threads -> Seq(Requests)]
<1>1. Append(requests[t], [type |-> type, dest |-> dest]) \in Seq(Requests)
  BY AppendProperties DEF RustTypeOK
<1> QED  BY <1>1 DEF Reads, RustTypeOK

LEMMA HandlesType ==
    ASSUME NEW t \in Threads, NEW frames \in Seq(Frames), frames # <<>>,
           RustTypeOK, Placed, pc[t] = "reading", Handles(t, frames), UNCHANGED user
    PROVE  /\ calls' \in [Threads -> Seq(Frames)]
           /\ pc' \in [Threads -> PcValues]
           /\ Placed'
BY DEF Handles, Calling, RustTypeOK, PcValues, Placed

\* Every step preserves the types.
LEMMA TypesStep ==
    ASSUME RustTypeOK, Placed, [Next]_vars
    PROVE  RustTypeOK' /\ Placed'
<1>0. ASSUME UNCHANGED vars PROVE RustTypeOK' /\ Placed'
  BY <1>0 DEF RustTypeOK, Placed, vars, mapvars
<1> SUFFICES ASSUME NEW t \in Threads, Client(t) \/ Works(t)
             PROVE  RustTypeOK' /\ Placed'
  BY <1>0 DEF Next, Done
<1>n. Num(t) \in Nat /\ requests[t] \in Seq(Requests)
  BY DEF Num, RustTypeOK
<1>1. CASE BadLogin(t) \/ ReadEnds(t) \/ ReadPanics(t)
  BY <1>1 DEF BadLogin, ReadEnds, ReadPanics, Go, RustTypeOK, Placed, PcValues, mapvars
<1>2. CASE \E u \in Usernames : Login(t, u)
  BY <1>2 DEF Login, Go, RustTypeOK, Placed, PcValues, mapvars
<1>3. CASE CreateInstance(t)
  <2>1. clients' \in [Usernames -> Threads \cup {None}]
    BY <1>3 DEF CreateInstance
  <2> QED  BY <1>3, <2>1 DEF CreateInstance, Go, RustTypeOK, Placed, PcValues
<1>3a. CASE AddUser(t)
  <2>1. clients' \in [Usernames -> Threads \cup {None}]
    BY <1>3a DEF AddUser, RustTypeOK
  <2> QED  BY <1>3a, <2>1 DEF AddUser, Go, RustTypeOK, Placed, PcValues
<1>3b. CASE Leave(t)
  <2>1. clients' \in [Usernames -> Threads \cup {None}]
    BY <1>3b DEF Leave, RustTypeOK
  <2> QED  BY <1>3b, <2>1 DEF Leave, Go, RustTypeOK, Placed, PcValues
<1>4. CASE Refuse(t)
  <2>1. user[t] \in Usernames
    BY <1>4 DEF Refuse, Go, Placed
  <2>2. Frame(t, "ERROR", 0, user[t]) \in Frames
    BY <2>1, FrameType DEF Kinds
  <2>3. gone' \subseteq Threads /\ outbox' \in [Threads -> SUBSET Frames]
    BY <1>4, <2>2, WrittenType DEF Refuse
  <2> QED  BY <1>4, <2>3 DEF Refuse, Go, RustTypeOK, Placed, PcValues, mapvars
<1>5. CASE Greet(t)
  <2>1. user[t] \in Usernames
    BY <1>5 DEF Greet, Go, Placed
  <2>2. Frame(t, "LOGIN", 0, user[t]) \in Frames /\ Frame(t, "entered", 0, All) \in Frames
    BY <2>1, FrameType DEF Kinds
  <2>3. gone' \subseteq Threads /\ outbox' \in [Threads -> SUBSET Frames]
    BY <1>5, <2>2, WrittenType DEF Greet
  <2>4. calls' \in [Threads -> Seq(Frames)] /\ calls'[t] # <<>>
    BY <1>5, <2>2 DEF Greet, Calling, RustTypeOK
  <2>5. \A s \in Threads \ {t} : calls'[s] = calls[s]
    BY <1>5 DEF Greet, Calling, RustTypeOK
  <2> QED  BY <1>5, <2>3, <2>4, <2>5 DEF Greet, Go, RustTypeOK, Placed, PcValues, mapvars
<1>6. CASE GreetPanics(t)
  BY <1>6 DEF GreetPanics, WriteFails, Go, RustTypeOK, Placed, PcValues, mapvars
<1>7. CASE Lock(t)
  <2>1. Recipients(t, Head(calls[t])) \in SUBSET Usernames
    BY DEF Recipients, Users
  <2> QED  BY <1>7, <2>1 DEF Lock, RustTypeOK, Placed, PcValues, mapvars
<1>9. CASE \E u \in Usernames : Send(t, u) \/ SendFails(t, u)
  <2> PICK u \in Usernames : Send(t, u) \/ SendFails(t, u)
    BY <1>9
  <2>1. calls[t] # <<>> /\ calls[t] \in Seq(Frames) /\ Head(calls[t]) \in Frames
    BY HeadTailProperties DEF Send, SendFails, Placed, RustTypeOK
  <2>2. clients[u] \in Threads
    BY DEF Send, SendFails, Users, RustTypeOK
  <2>3. gone' \subseteq Threads /\ outbox' \in [Threads -> SUBSET Frames]
    BY <2>1, <2>2, WrittenType DEF Send, SendFails
  <2>4. to' \in [Threads -> SUBSET Usernames]
    <3>1. to[t] \ {u} \in SUBSET Usernames /\ {} \in SUBSET Usernames
      BY DEF RustTypeOK
    <3>2. to \in [Threads -> SUBSET Usernames]
      BY DEF RustTypeOK
    <3> QED  BY <3>1, <3>2 DEF Send, SendFails
  <2> QED  BY <2>3, <2>4 DEF Send, SendFails, RustTypeOK, Placed, mapvars
<1>10. CASE Unlock(t)
  <2>1. calls[t] # <<>>
    BY <1>10 DEF Unlock, Placed
  <2>2. Return(t)
    BY <1>10 DEF Unlock
  <2> QED  BY <1>10, <2>1, <2>2, ReturnType DEF Unlock, RustTypeOK, Placed, mapvars
<1>11. CASE SendAstray(t)
  BY <1>11 DEF SendAstray, RustTypeOK, Placed, mapvars
<1>12. CASE ReadSkipped(t)
  <2>1. requests' \in [Threads -> Seq(Requests)]
    BY <1>12, ReadsType DEF ReadSkipped, Requests
  <2> QED  BY <1>12, <2>1 DEF ReadSkipped, Reads, RustTypeOK, Placed, mapvars
<1>13. ASSUME NEW type, NEW dest, NEW frames \in Seq(Frames), frames # <<>>,
              Reads(t, type, dest), Handles(t, frames),
              [type |-> type, dest |-> dest] \in Requests
       PROVE  RustTypeOK' /\ Placed'
  <2>1. requests' \in [Threads -> Seq(Requests)]
    BY <1>13, ReadsType
  <2>2. pc[t] = "reading" /\ UNCHANGED user
    BY <1>13 DEF Reads
  <2>3. /\ calls' \in [Threads -> Seq(Frames)]
        /\ pc' \in [Threads -> PcValues]
        /\ Placed'
    BY <1>13, <2>2, HandlesType
  <2> QED  BY <1>13, <2>1, <2>3 DEF Reads, RustTypeOK, mapvars
<1>14. ASSUME pc[t] = "reading", NEW kind \in {"ERROR", "list", "WHO", "ACK", "NACK"}
       PROVE  Own(t, kind) \in Frames
  <2>1. user[t] \in Usernames
    BY <1>14 DEF Placed
  <2> QED  BY <2>1, <1>n, FrameType DEF Own, Kinds
<1>15. CASE ReadImproper(t)
  <2>1. Own(t, "ERROR") \in Frames
    BY <1>14, <1>15 DEF ReadImproper, Reads
  <2> DEFINE fs == <<Own(t, "ERROR")>>
  <2>2. fs \in Seq(Frames) /\ fs # <<>>
    BY <2>1
  <2> HIDE DEF fs
  <2>3. Reads(t, "improper", None) /\ Handles(t, fs)
    BY <1>15 DEF ReadImproper, fs
  <2>4. [type |-> "improper", dest |-> None] \in Requests
    BY DEF Requests
  <2> QED  BY <1>13, <2>2, <2>3, <2>4
<1>16. CASE ReadWho(t)
  <2>1. Own(t, "list") \in Frames /\ Own(t, "WHO") \in Frames
    BY <1>14, <1>16 DEF ReadWho, Reads
  <2> DEFINE fs == <<Own(t, "list"), Own(t, "WHO")>>
  <2>2. fs \in Seq(Frames) /\ fs # <<>>
    BY <2>1
  <2> HIDE DEF fs
  <2>3. Reads(t, "WHO", None) /\ Handles(t, fs)
    BY <1>16 DEF ReadWho, fs
  <2>4. [type |-> "WHO", dest |-> None] \in Requests
    BY DEF Requests
  <2> QED  BY <1>13, <2>2, <2>3, <2>4
<1>17. CASE ReadDamaged(t)
  <2>1. Own(t, "NACK") \in Frames
    BY <1>14, <1>17 DEF ReadDamaged, Reads
  <2> DEFINE fs == <<Own(t, "NACK")>>
  <2>2. fs \in Seq(Frames) /\ fs # <<>>
    BY <2>1
  <2> HIDE DEF fs
  <2>3. Reads(t, "damaged", None) /\ Handles(t, fs)
    BY <1>17 DEF ReadDamaged, fs
  <2>4. [type |-> "damaged", dest |-> None] \in Requests
    BY DEF Requests
  <2> QED  BY <1>13, <2>2, <2>3, <2>4
<1>17a. CASE ReadUnreadable(t)
  <2>1. Own(t, "ACK") \in Frames
    BY <1>14, <1>17a DEF ReadUnreadable, Reads
  <2> DEFINE fs == <<Own(t, "ACK")>>
  <2>2. fs \in Seq(Frames) /\ fs # <<>>
    BY <2>1
  <2> HIDE DEF fs
  <2>3. Reads(t, "unreadable", None) /\ Handles(t, fs)
    BY <1>17a DEF ReadUnreadable, fs
  <2>4. [type |-> "unreadable", dest |-> None] \in Requests
    BY DEF Requests
  <2> QED  BY <1>13, <2>2, <2>3, <2>4
<1>18. CASE \E dest \in Usernames \cup {All} : ReadMessage(t, dest)
  <2> PICK dest \in Usernames \cup {All} : ReadMessage(t, dest)
    BY <1>18
  <2>1. Own(t, "ACK") \in Frames
    BY <1>14 DEF ReadMessage, Reads
  <2>2. Frame(t, "MESSAGE", Num(t) + 1, dest) \in Frames
    <3>1. Num(t) + 1 \in Nat /\ "MESSAGE" \in Kinds
      BY <1>n DEF Kinds
    <3> QED  BY <3>1, FrameType
  <2> DEFINE fs == <<Own(t, "ACK"), Frame(t, "MESSAGE", Num(t) + 1, dest)>>
  <2>3. fs \in Seq(Frames) /\ fs # <<>>
    BY <2>1, <2>2
  <2> HIDE DEF fs
  <2>4. Reads(t, "MESSAGE", dest) /\ Handles(t, fs)
    BY DEF ReadMessage, fs
  <2>5. [type |-> "MESSAGE", dest |-> dest] \in Requests
    BY DEF Requests
  <2> QED  BY <1>13, <2>3, <2>4, <2>5
<1>19. CASE ReadDisconnect(t)
  <2>1. Frame(t, "left", Num(t) + 1, All) \in Frames
    BY <1>n, FrameType DEF Kinds
  <2> DEFINE fs == <<Frame(t, "left", Num(t) + 1, All)>>
  <2>2. fs \in Seq(Frames) /\ fs # <<>>
    BY <2>1
  <2> HIDE DEF fs
  <2>3. Reads(t, "DISCONNECT", None) /\ Handles(t, fs)
    BY <1>19 DEF ReadDisconnect, fs
  <2>4. [type |-> "DISCONNECT", dest |-> None] \in Requests
    BY DEF Requests
  <2> QED  BY <1>13, <2>2, <2>3, <2>4
<1> QED
  BY <1>1, <1>2, <1>3, <1>3a, <1>3b, <1>4, <1>5, <1>6, <1>7, <1>9, <1>10, <1>11, <1>12,
     <1>15, <1>16, <1>17, <1>17a, <1>18, <1>19 DEF Client, Works

LEMMA TypesInit == Init => RustTypeOK /\ Placed
<1> SUFFICES ASSUME Init PROVE RustTypeOK /\ Placed
  OBVIOUS
<1>1. /\ made \in BOOLEAN /\ remade \in BOOLEAN
      /\ clients \in [Usernames -> Threads \cup {None}]
      /\ readers \subseteq Threads /\ gone \subseteq Threads
  BY DEF Init
<1>2. /\ outbox \in [Threads -> SUBSET Frames] /\ to \in [Threads -> SUBSET Usernames]
      /\ pc \in [Threads -> PcValues] /\ user \in [Threads -> Usernames \cup {None}]
  BY DEF Init, PcValues
<1>3. <<>> \in Seq(Requests) /\ <<>> \in Seq(Frames)
  OBVIOUS
<1>4. requests \in [Threads -> Seq(Requests)] /\ calls \in [Threads -> Seq(Frames)]
  BY <1>3 DEF Init
<1>5. Placed
  BY DEF Init, Placed
<1> QED  BY <1>1, <1>2, <1>4, <1>5 DEF RustTypeOK

\* Type correctness (RustTypeOK).
THEOREM RustTypes == Spec => []RustTypeOK
<1> QED  BY TypesInit, TypesStep, PTL DEF Spec

-------------------------------------------------------------------------------
(***************************************************************************)
(* The map and its lock.                                                   *)
(***************************************************************************)
LockHeld == ~remade => readers = {t \in Threads : pc[t] = "locked"}

ServedInv ==
    /\ EntriesAreServed /\ SessionsHaveEntries /\ LockHeld
    /\ ~made => \A t \in Threads : pc[t] \in {"login", "creating", "exited"}

\* A step within the session of one thread, or of none.
LEMMA ServedInside ==
    ASSUME RustTypeOK, RustTypeOK', ServedInv, NEW t \in Threads,
           UNCHANGED <<made, remade, clients, readers, user>>,
           pc' = pc \/ ( /\ \A s \in Threads \ {t} : pc'[s] = pc[s]
                        /\ InSession(t) /\ pc[t] # "locked"
                        /\ pc'[t] \in (Session \ {"locked"}) \cup {"panicked"} )
    PROVE  ServedInv'
<1>1. \A s \in Threads : pc'[s] = "locked" <=> pc[s] = "locked"
  OBVIOUS
<1>2. \A s \in Threads : /\ InSession(s)' => InSession(s)
                         /\ InSession(s) \/ pc[s] = "panicked" => InSession(s)' \/ pc'[s] = "panicked"
  BY DEF InSession, Session
<1>3. Users' = Users /\ \A u \in Users : clients[u] \in Threads
  BY DEF Users, RustTypeOK
<1>4. EntriesAreServed'
  BY <1>2, <1>3 DEF ServedInv, EntriesAreServed
<1>5. SessionsHaveEntries'
  BY <1>2 DEF ServedInv, SessionsHaveEntries
<1>6. LockHeld'
  BY <1>1 DEF ServedInv, LockHeld
<1>7. ~made => \A s \in Threads : pc'[s] \in {"login", "creating", "exited"}
  BY DEF ServedInv, InSession, Session
<1> QED  BY <1>4, <1>5, <1>6, <1>7 DEF ServedInv

\* The steps of a handler within the session.
LEMMA ServedByHandlers ==
    ASSUME RustTypeOK, Placed, RustTypeOK', ServedInv, NEW t \in Threads,
           \/ Greet(t) \/ GreetPanics(t) \/ SendAstray(t)
           \/ (\E u \in Usernames : Send(t, u) \/ SendFails(t, u))
           \/ ReadSkipped(t) \/ ReadImproper(t) \/ ReadWho(t) \/ ReadDamaged(t) \/ ReadUnreadable(t)
           \/ (\E dest \in Usernames \cup {All} : ReadMessage(t, dest))
           \/ ReadDisconnect(t) \/ ReadEnds(t) \/ ReadPanics(t)
    PROVE  ServedInv'
<1>1. CASE Greet(t) \/ GreetPanics(t) \/ ReadEnds(t) \/ ReadPanics(t)
  <2>1. /\ UNCHANGED <<made, remade, clients, readers, user>>
        /\ \A s \in Threads \ {t} : pc'[s] = pc[s]
        /\ pc[t] \in {"greeting", "reading"}
        /\ pc'[t] \in {"calling", "leaving", "panicked"}
    BY <1>1 DEF Greet, GreetPanics, ReadEnds, ReadPanics, Go, RustTypeOK, mapvars
  <2> QED  BY <2>1, ServedInside DEF InSession, Session
<1>3. CASE SendAstray(t) \/ (\E u \in Usernames : Send(t, u) \/ SendFails(t, u))
  BY <1>3, ServedInside DEF SendAstray, Send, SendFails, mapvars
<1>4. CASE ReadSkipped(t)
  BY <1>4, ServedInside DEF ReadSkipped, Reads, mapvars
<1>5. CASE \/ ReadImproper(t) \/ ReadWho(t) \/ ReadDamaged(t) \/ ReadUnreadable(t) \/ ReadDisconnect(t)
           \/ \E dest \in Usernames \cup {All} : ReadMessage(t, dest)
  <2>1. \E type, dest, frames : Reads(t, type, dest) /\ Handles(t, frames)
    BY <1>5 DEF ReadImproper, ReadWho, ReadDamaged, ReadUnreadable, ReadDisconnect, ReadMessage
  <2>2. /\ UNCHANGED <<made, remade, clients, readers, user>>
        /\ \A s \in Threads \ {t} : pc'[s] = pc[s]
        /\ pc[t] = "reading" /\ pc'[t] = "calling"
    BY <2>1 DEF Reads, Handles, RustTypeOK, mapvars
  <2> QED  BY <2>2, ServedInside DEF InSession, Session
<1> QED  BY <1>1, <1>3, <1>4, <1>5

LEMMA ServedStep ==
    ASSUME RustTypeOK, Placed, RustTypeOK', ServedInv, [Next]_vars
    PROVE  ServedInv'
<1>0. ASSUME UNCHANGED vars PROVE ServedInv'
  <2>1. \A t \in Threads : ServedInv'
    BY <1>0, ServedInside DEF vars, mapvars
  <2>2. CASE Threads = {}
    <3>1. Users' = {}
      BY <2>2 DEF Users, RustTypeOK
    <3>2. EntriesAreServed' /\ SessionsHaveEntries'
      BY <2>2, <3>1 DEF EntriesAreServed, SessionsHaveEntries
    <3>3. LockHeld'
      BY <2>2 DEF LockHeld, RustTypeOK
    <3> QED  BY <2>2, <3>2, <3>3 DEF ServedInv
  <2> QED  BY <2>1, <2>2
<1> SUFFICES ASSUME NEW t \in Threads, Client(t) \/ Works(t)
             PROVE  ServedInv'
  BY <1>0 DEF Next, Done
<1>1. CASE BadLogin(t) \/ \E u \in Usernames : Login(t, u)
  <2>1. /\ UNCHANGED <<made, remade, clients, readers>>
        /\ \A s \in Threads \ {t} : pc'[s] = pc[s] /\ user'[s] = user[s]
        /\ pc[t] = "login" /\ pc'[t] \in {"creating", "exited", "adding"}
        /\ pc'[t] = "adding" => made
    BY <1>1 DEF BadLogin, Login, Go, RustTypeOK, mapvars
  <2>2. ~remade => \A u \in Users : clients[u] # t
    BY <2>1 DEF ServedInv, EntriesAreServed, InSession, Session
  <2>3. Users' = Users /\ \A u \in Users : clients[u] \in Threads
    BY <2>1 DEF Users, RustTypeOK
  <2>4. EntriesAreServed'
    BY <2>1, <2>2, <2>3 DEF ServedInv, EntriesAreServed, InSession
  <2>5. SessionsHaveEntries'
    BY <2>1 DEF ServedInv, SessionsHaveEntries, InSession, Session
  <2>6. LockHeld'
    BY <2>1 DEF ServedInv, LockHeld
  <2>7. ~made' => \A s \in Threads : pc'[s] \in {"login", "creating", "exited"}
    BY <2>1 DEF ServedInv
  <2> QED  BY <2>4, <2>5, <2>6, <2>7 DEF ServedInv
<1>2. CASE CreateInstance(t)
  <2>1. made' /\ Users' = {} /\ readers' = {} /\ pc'[t] = "adding"
    BY <1>2 DEF CreateInstance, Go, Users, RustTypeOK
  <2>2. ~remade' => \A s \in Threads : pc'[s] \in {"login", "creating", "exited", "adding"}
    BY <1>2 DEF CreateInstance, Go, ServedInv, RustTypeOK
  <2> QED  BY <2>1, <2>2 DEF ServedInv, EntriesAreServed, SessionsHaveEntries,
                             LockHeld, InSession, Session
<1>3. CASE AddUser(t)
  <2>1. /\ UNCHANGED <<made, remade, readers, user>>
        /\ \A s \in Threads \ {t} : pc'[s] = pc[s]
        /\ pc[t] = "adding" /\ user[t] \in Usernames /\ made
    BY <1>3 DEF AddUser, Go, RustTypeOK, Placed, ServedInv
  <2>2. ~remade => \A u \in Users : clients[u] # t
    BY <2>1 DEF ServedInv, EntriesAreServed, InSession, Session
  <2>3. CASE user[t] \notin Users
    <3>1. /\ pc'[t] = "greeting" /\ clients'[user[t]] = t
          /\ \A u \in Usernames \ {user[t]} : clients'[u] = clients[u]
      BY <1>3, <2>1, <2>3 DEF AddUser, Go, RustTypeOK
    <3>2. \A u \in Users' : u = user[t] \/ u \in Users
      BY <3>1 DEF Users
    <3>3. EntriesAreServed'
      <4> SUFFICES ASSUME ~remade, NEW u \in Users'
                   PROVE  /\ user[clients'[u]] = u
                          /\ pc'[clients'[u]] \in Session \/ pc'[clients'[u]] = "panicked"
        BY <2>1 DEF EntriesAreServed, InSession
      <4>1. CASE u = user[t]
        BY <3>1, <4>1 DEF Session
      <4>2. CASE u # user[t]
        <5>1. u \in Users /\ clients'[u] = clients[u] /\ clients[u] \in Threads \ {t}
          BY <2>2, <3>1, <3>2, <4>2 DEF Users, RustTypeOK
        <5> QED  BY <2>1, <5>1 DEF ServedInv, EntriesAreServed, InSession
      <4> QED  BY <4>1, <4>2
    <3>4. \A s \in Threads \ {t} : ~remade /\ InSession(s) => user[s] \in Users
      BY DEF ServedInv, SessionsHaveEntries, Users, Placed, InSession, Session
    <3>5. SessionsHaveEntries'
      BY <2>1, <2>3, <3>1, <3>4 DEF ServedInv, SessionsHaveEntries, InSession, Users
    <3>6. LockHeld'
      BY <2>1, <3>1 DEF ServedInv, LockHeld
    <3> QED  BY <2>1, <3>3, <3>5, <3>6 DEF ServedInv
  <2>4. CASE user[t] \in Users
    <3>1. pc'[t] = "refusing" /\ UNCHANGED clients
      BY <1>3, <2>1, <2>4 DEF AddUser, Go, RustTypeOK
    <3>2. Users' = Users /\ \A u \in Users : clients[u] \in Threads
      BY <3>1 DEF Users, RustTypeOK
    <3>3. EntriesAreServed'
      BY <2>1, <2>2, <3>1, <3>2 DEF ServedInv, EntriesAreServed, InSession
    <3>4. SessionsHaveEntries'
      BY <2>1, <3>1 DEF ServedInv, SessionsHaveEntries, InSession, Session
    <3>5. LockHeld'
      BY <2>1, <3>1 DEF ServedInv, LockHeld
    <3> QED  BY <2>1, <3>3, <3>4, <3>5 DEF ServedInv
  <2> QED  BY <2>3, <2>4
<1>4. CASE Refuse(t)
  <2>1. /\ UNCHANGED <<made, remade, clients, readers, user>>
        /\ \A s \in Threads \ {t} : pc'[s] = pc[s]
        /\ pc[t] = "refusing" /\ pc'[t] \in {"exited", "panicked"} /\ made
    BY <1>4 DEF Refuse, Go, RustTypeOK, mapvars, ServedInv
  <2>2. ~remade => \A u \in Users : clients[u] # t
    BY <2>1 DEF ServedInv, EntriesAreServed, InSession, Session
  <2>3. Users' = Users /\ \A u \in Users : clients[u] \in Threads
    BY <2>1 DEF Users, RustTypeOK
  <2>4. EntriesAreServed'
    BY <2>1, <2>2, <2>3 DEF ServedInv, EntriesAreServed, InSession
  <2>5. SessionsHaveEntries'
    BY <2>1 DEF ServedInv, SessionsHaveEntries, InSession, Session
  <2>6. LockHeld'
    BY <2>1 DEF ServedInv, LockHeld
  <2> QED  BY <2>1, <2>4, <2>5, <2>6 DEF ServedInv
<1>5. CASE Lock(t)
  <2>1. /\ UNCHANGED <<made, remade, clients, user>> /\ readers' = readers \cup {t}
        /\ \A s \in Threads \ {t} : pc'[s] = pc[s]
        /\ pc[t] = "calling" /\ pc'[t] = "locked"
    BY <1>5 DEF Lock, RustTypeOK, mapvars
  <2>2. Users' = Users /\ \A u \in Users : clients[u] \in Threads
    BY <2>1 DEF Users, RustTypeOK
  <2>3. \A s \in Threads : InSession(s)' <=> InSession(s)
    BY <2>1 DEF InSession, Session
  <2>4. EntriesAreServed' /\ SessionsHaveEntries'
    BY <2>1, <2>2, <2>3 DEF ServedInv, EntriesAreServed, SessionsHaveEntries
  <2>5. LockHeld'
    BY <2>1 DEF ServedInv, LockHeld
  <2> QED  BY <2>1, <2>4, <2>5 DEF ServedInv
<1>6. CASE Unlock(t)
  <2>1. calls[t] # <<>> /\ Return(t) /\ pc[t] = "locked"
    BY <1>6 DEF Unlock, Placed
  <2>2. /\ UNCHANGED <<made, remade, clients, user>> /\ readers' = readers \ {t}
    BY <1>6 DEF Unlock, mapvars
  <2>3. /\ \A s \in Threads \ {t} : pc'[s] = pc[s]
        /\ pc'[t] \in {"calling", "leaving", "reading", "panicked"}
    BY <2>1, ReturnType
  <2>4. Users' = Users /\ \A u \in Users : clients[u] \in Threads
    BY <2>2 DEF Users, RustTypeOK
  <2>5. \A s \in Threads :
            /\ InSession(s)' => InSession(s)
            /\ InSession(s) \/ pc[s] = "panicked" => InSession(s)' \/ pc'[s] = "panicked"
    BY <2>1, <2>3 DEF InSession, Session
  <2>6. EntriesAreServed' /\ SessionsHaveEntries'
    BY <2>2, <2>4, <2>5 DEF ServedInv, EntriesAreServed, SessionsHaveEntries
  <2>7. LockHeld'
    BY <2>2, <2>3 DEF ServedInv, LockHeld
  <2> QED  BY <2>1, <2>2, <2>6, <2>7 DEF ServedInv
<1>7. CASE Leave(t)
  <2>1. /\ UNCHANGED <<made, remade, readers, user>>
        /\ \A s \in Threads \ {t} : pc'[s] = pc[s]
        /\ pc[t] = "leaving" /\ pc'[t] = "exited" /\ user[t] \in Usernames
        /\ clients' = [clients EXCEPT ![user[t]] = None]
    BY <1>7 DEF Leave, Go, RustTypeOK, Placed
  <2>2. ~remade => clients[user[t]] = t
    BY <2>1 DEF ServedInv, SessionsHaveEntries, InSession, Session
  <2>3. /\ Users' = Users \ {user[t]} /\ \A u \in Users : clients[u] \in Threads
        /\ \A u \in Usernames \ {user[t]} : clients'[u] = clients[u]
    BY <2>1 DEF Users, RustTypeOK
  <2>4. EntriesAreServed'
    BY <2>1, <2>2, <2>3 DEF ServedInv, EntriesAreServed, InSession
  <2>5. SessionsHaveEntries'
    BY <2>1, <2>2, <2>3 DEF ServedInv, SessionsHaveEntries, InSession, Session, Placed
  <2>6. LockHeld'
    BY <2>1 DEF ServedInv, LockHeld
  <2>7. made
    BY <2>1 DEF ServedInv
  <2> QED  BY <2>1, <2>4, <2>5, <2>6, <2>7 DEF ServedInv
<1> QED
  BY <1>1, <1>2, <1>3, <1>4, <1>5, <1>6, <1>7, ServedByHandlers DEF Client, Works

LEMMA ServedInit == Init => RustTypeOK /\ Placed /\ ServedInv
<1> SUFFICES ASSUME Init PROVE ServedInv
  BY TypesInit
<1>1. Users = {} /\ \A t \in Threads : pc[t] = "login"
  BY DEF Init, Users
<1> QED
  BY <1>1 DEF Init, ServedInv, EntriesAreServed, SessionsHaveEntries,
              LockHeld, InSession, Session

\* As long as the map is not replaced, whoever is in it is served, or its
\* thread has panicked (EntriesAreServed).
THEOREM RustEntriesServed == Spec => []EntriesAreServed
<1>1. ServedInv => EntriesAreServed
  BY DEF ServedInv
<1> QED  BY <1>1, ServedInit, TypesStep, ServedStep, PTL DEF Spec

\* ... and whoever is logged in is in it (SessionsHaveEntries).
THEOREM RustSessionsListed == Spec => []SessionsHaveEntries
<1>1. ServedInv => SessionsHaveEntries
  BY DEF ServedInv
<1> QED  BY <1>1, ServedInit, TypesStep, ServedStep, PTL DEF Spec
===============================================================================
