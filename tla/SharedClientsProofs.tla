-------------------------- MODULE SharedClientsProofs --------------------------
(***************************************************************************)
(* SharedClients, for any number of threads, names and sockets: the lock   *)
(* discipline, what it protects, and the implementation of the directory.  *)
(*                                                                         *)
(* The inductive invariant SCInv adds to the checked invariants only what  *)
(* a call in progress looks like.                                          *)
(***************************************************************************)
EXTENDS SharedClients, TLAPS

\* Only add_new_user looks a name up before it acts, and no operation but the
\* sends starts with a result of TRUE.
CallShape == \A t \in Threads :
    /\ call[t].phase = "checked" => call[t].op = "add_new_user"
    /\ (call[t].phase \in {"waiting", "locked"} /\ call[t].op \notin SendOps)
          => ~call[t].ok

SCInv == SCTypeOK /\ LockHeldInside /\ CallShape /\ CheckedNameStaysFree

\* No thread is inside an operation when the server starts, and the map is
\* empty: the constructor of SharedClients establishes the invariant.
LEMMA SCInvInit == ASSUME SCInit PROVE SCInv
<1> USE ServerAssumption
<1>1. SCTypeOK
  BY DEF SCInit, SCTypeOK, NoCall, Calls, Ops, ReadOps
<1>2. LockHeldInside /\ CallShape /\ CheckedNameStaysFree
  BY DEF SCInit, NoCall, LockHeldInside, CallShape, CheckedNameStaysFree
<1> QED BY <1>1, <1>2 DEF SCInv

\* Entering an operation keeps the invariant, whatever the arguments: the
\* thread holds nothing yet.
LEMMA InvokeKeeps ==
  ASSUME SCInv, NEW t \in Threads, NEW op \in Ops, NEW name \in Usernames \cup {None},
         NEW sock \in Sockets \cup {None}, Invoke(t, op, name, sock)
  PROVE  SCInv'
<1> USE DEF SCInv, Invoke
<1>0. [op |-> op, name |-> name, sock |-> sock, phase |-> "waiting",
       visited |-> {}, ok |-> op \in SendOps] \in Calls
  BY DEF Calls
<1>1. SCTypeOK'
  BY <1>0 DEF SCTypeOK
<1>2. \A r \in Threads \ {t} : call'[r] = call[r]
  BY DEF SCTypeOK
<1>3. call[t].phase = "idle" /\ call'[t].phase = "waiting"
  BY DEF SCTypeOK
<1>4. LockHeldInside'
  BY <1>2, <1>3 DEF LockHeldInside
<1>5. CheckedNameStaysFree'
  BY <1>2, <1>3 DEF CheckedNameStaysFree, Users
<1>6. call'[t].op = op /\ (op \notin SendOps => ~call'[t].ok)
  BY DEF SCTypeOK
<1>7. CallShape'
  BY <1>2, <1>3, <1>6 DEF CallShape
<1> QED BY <1>1, <1>4, <1>5, <1>7

\* So does any call a thread may make of SharedClients.
LEMMA InvocationKeeps ==
  ASSUME SCInv, NEW t \in Threads, Invocation(t) PROVE SCInv'
<1>1. CASE Invoke(t, "get_logged_in_users", None, None)
  BY <1>1, InvokeKeeps DEF Ops, ReadOps
<1>2. CASE \E u \in Usernames, op \in SendOps \cup {"log_out_user"} :
               Invoke(t, op, u, None)
  <2> PICK u \in Usernames, op \in SendOps \cup {"log_out_user"} :
               Invoke(t, op, u, None)
    BY <1>2
  <2> op \in Ops BY DEF Ops, ReadOps, WriteOps
  <2> QED BY InvokeKeeps
<1>3. CASE \E u \in Usernames, s \in Sockets : Invoke(t, "add_new_user", u, s)
  BY <1>3, InvokeKeeps DEF Ops, WriteOps
<1> QED BY <1>1, <1>2, <1>3 DEF Invocation

\* The steps of a call keep the variables within their types.
LEMMA StepTypes ==
  ASSUME SCTypeOK, NEW t \in Threads,
         LockStep(t) \/ \E u \in Usernames, sent \in BOOLEAN : SendTo(t, u, sent)
  PROVE  SCTypeOK'
<1> USE DEF SCTypeOK, Calls
<1>1. CASE RdLock(t) BY <1>1 DEF RdLock
<1>2. CASE WrLock(t) BY <1>2 DEF WrLock
<1>3. CASE SendReturns(t)
  <2> DEFINE sent == call[t].ok /\ (call[t].op = "send_to_client" => call[t].name \in Users)
  <2>1. call' = [call EXCEPT ![t] = [@ EXCEPT !.phase = "idle", !.visited = {}, !.ok = sent]]
    BY <1>3 DEF SendReturns
  <2>2. sent \in BOOLEAN
    OBVIOUS
  <2>3. UNCHANGED <<client_objects, writer>> /\ readers' = readers \ {t}
    BY <1>3 DEF SendReturns
  <2> HIDE DEF sent
  <2> QED BY <2>1, <2>2, <2>3
<1>4. CASE ListReturns(t) BY <1>4 DEF ListReturns, Users
<1>5. CASE FindUser(t) BY <1>5 DEF FindUser
<1>6. CASE InsertUser(t) BY <1>6 DEF InsertUser, Users
<1>7. CASE EraseUser(t)
  <2> DEFINE found == call[t].name \in Users
  <2>1. call' = [call EXCEPT ![t] = [@ EXCEPT !.phase = "idle", !.ok = found]]
    BY <1>7 DEF EraseUser
  <2>2. found \in BOOLEAN
    OBVIOUS
  <2>3. /\ client_objects' = [client_objects EXCEPT ![call[t].name] = None]
        /\ readers' = readers /\ writer' = None
    BY <1>7 DEF EraseUser
  <2> HIDE DEF found
  <2> QED BY <2>1, <2>2, <2>3
<1>8. CASE \E u \in Usernames, sent \in BOOLEAN : SendTo(t, u, sent)
  <2> PICK u \in Usernames, sent \in BOOLEAN : SendTo(t, u, sent)
    BY <1>8
  <2> DEFINE new == [call[t] EXCEPT !.visited = call[t].visited \cup {u},
                                    !.ok = call[t].ok /\ sent]
  <2>1. new \in Calls
    OBVIOUS
  <2>2. call' = [call EXCEPT ![t] = new] /\ UNCHANGED <<client_objects, readers, writer>>
    BY DEF SendTo
  <2>3. call \in [Threads -> Calls]
    OBVIOUS
  <2> HIDE DEF new, Calls
  <2>4. call' \in [Threads -> Calls]
    BY <2>1, <2>2, <2>3
  <2> QED BY <2>2, <2>4
<1> QED BY <1>1, <1>2, <1>3, <1>4, <1>5, <1>6, <1>7, <1>8 DEF LockStep

\* A step of one call leaves the others alone.
LEMMA OnlyOneMoves ==
  ASSUME SCTypeOK, NEW t \in Threads,
         LockStep(t) \/ \E u \in Usernames, sent \in BOOLEAN : SendTo(t, u, sent)
  PROVE  \A r \in Threads \ {t} : call'[r] = call[r]
  BY DEF SCTypeOK, LockStep, RdLock, WrLock, SendReturns, ListReturns,
         FindUser, InsertUser, EraseUser, SendTo

\* A send changes what the call has visited, and its result; nothing else.
LEMMA SendToFields ==
  ASSUME SCTypeOK, NEW t \in Threads, NEW u \in Usernames, NEW sent \in BOOLEAN,
         SendTo(t, u, sent)
  PROVE  /\ call'[t].phase = call[t].phase
         /\ call'[t].op = call[t].op
         /\ call'[t].name = call[t].name
         /\ call'[t].sock = call[t].sock
         /\ call'[t].visited = call[t].visited \cup {u}
         /\ call'[t].ok = (call[t].ok /\ sent)
<1> DEFINE ok == call[t].ok /\ sent
<1>1. call' = [call EXCEPT ![t] = [@ EXCEPT !.visited = call[t].visited \cup {u},
                                            !.ok = ok]]
  BY DEF SendTo
<1> HIDE DEF ok
<1>2. ok = (call[t].ok /\ sent)
  BY DEF ok
<1> QED BY <1>1, <1>2 DEF SCTypeOK, Calls

\* So do they the lock discipline: each locks, or unlocks, for itself only.
LEMMA StepLock ==
  ASSUME SCInv, NEW t \in Threads,
         LockStep(t) \/ \E u \in Usernames, sent \in BOOLEAN : SendTo(t, u, sent)
  PROVE  (LockHeldInside /\ CallShape)'
<1> USE ServerAssumption DEF SCInv, LockHeldInside, CallShape
<1>0. \A r \in Threads \ {t} : call'[r] = call[r]
  BY OnlyOneMoves
<1>1. CASE RdLock(t)
  BY <1>0, <1>1 DEF RdLock, SCTypeOK, Calls, ReadOps, WriteOps, SendOps
<1>2. CASE WrLock(t)
  BY <1>0, <1>2 DEF WrLock, SCTypeOK, Calls, ReadOps, WriteOps, SendOps
<1>3. CASE SendReturns(t)
  BY <1>0, <1>3 DEF SendReturns, SCTypeOK, Calls, ReadOps, WriteOps, SendOps
<1>4. CASE ListReturns(t)
  BY <1>0, <1>4 DEF ListReturns, SCTypeOK, Calls, ReadOps, WriteOps, SendOps
<1>5. CASE FindUser(t)
  BY <1>0, <1>5 DEF FindUser, SCTypeOK, Calls, ReadOps, WriteOps, SendOps
<1>6. CASE InsertUser(t)
  BY <1>0, <1>6 DEF InsertUser, SCTypeOK, Calls, ReadOps, WriteOps, SendOps
<1>7. CASE EraseUser(t)
  BY <1>0, <1>7 DEF EraseUser, SCTypeOK, Calls, ReadOps, WriteOps, SendOps
<1>8. CASE \E u \in Usernames, sent \in BOOLEAN : SendTo(t, u, sent)
  <2>1. UNCHANGED <<readers, writer>>
    BY <1>8 DEF SendTo
  <2>2. call'[t].phase = call[t].phase /\ call'[t].op = call[t].op
    BY <1>8, SendToFields
  <2>3. \A r \in Threads : call'[r].phase = call[r].phase /\ call'[r].op = call[r].op
    BY <1>0, <2>2
  <2>4. LockHeldInside'
    BY <2>1, <2>3
  <2>5. call[t].phase = "locked" /\ call[t].op \in SendOps
    BY <1>8 DEF SendTo
  <2>6. CallShape'
    BY <1>0, <2>2, <2>5
  <2> QED BY <2>4, <2>6
<1> QED BY <1>1, <1>2, <1>3, <1>4, <1>5, <1>6, <1>7, <1>8 DEF LockStep

\* The map changes only in the hands of its one writer.
LEMMA MapChange ==
  ASSUME SCInv, NEW t \in Threads,
         LockStep(t) \/ \E u \in Usernames, sent \in BOOLEAN : SendTo(t, u, sent),
         client_objects' # client_objects
  PROVE  writer = t /\ readers = {}
<1>1. InsertUser(t) \/ EraseUser(t)
  BY DEF LockStep, RdLock, WrLock, SendReturns, ListReturns, FindUser, SendTo
<1> QED BY <1>1, ServerAssumption DEF InsertUser, EraseUser, SCInv, LockHeldInside, WriteOps

\* Between look-up and insert the map stands still, so the look-up stays true.
LEMMA StepChecked ==
  ASSUME SCInv, NEW t \in Threads,
         LockStep(t) \/ \E u \in Usernames, sent \in BOOLEAN : SendTo(t, u, sent)
  PROVE  CheckedNameStaysFree'
<1> SUFFICES ASSUME NEW r \in Threads, call'[r].phase = "checked"
             PROVE  (call[r].ok <=> call[r].name \notin Users)'
  BY DEF CheckedNameStaysFree
<1> USE DEF SCInv
<1>1. CASE r = t
  <2>1. call[t].phase # "checked" \/ InsertUser(t)
    BY DEF LockStep, RdLock, WrLock, SendReturns, ListReturns, FindUser, EraseUser, SendTo
  <2>2. ~InsertUser(t)
    BY <1>1 DEF InsertUser, SCTypeOK, Calls
  <2>3. ~RdLock(t) /\ ~WrLock(t)
    BY <1>1 DEF RdLock, WrLock, SCTypeOK, Calls
  <2>4. ~SendReturns(t) /\ ~ListReturns(t)
    BY <1>1 DEF SendReturns, ListReturns, SCTypeOK, Calls
  <2>5. ~EraseUser(t)
    BY <1>1 DEF EraseUser, SCTypeOK, Calls
  <2>6. ~\E u \in Usernames, sent \in BOOLEAN : SendTo(t, u, sent)
    BY <1>1, <2>1, <2>2, SendToFields
  <2>7. FindUser(t)
    BY <2>2, <2>3, <2>4, <2>5, <2>6 DEF LockStep
  <2> QED BY <1>1, <2>7 DEF FindUser, SCTypeOK, Calls, Users
<1>2. CASE r # t
  <2>1. call'[r] = call[r]
    BY <1>2, OnlyOneMoves
  <2>2. writer = r
    BY <2>1 DEF LockHeldInside
  <2>3. UNCHANGED client_objects
    BY <1>2, <2>2, MapChange
  <2> QED BY <2>1, <2>3 DEF CheckedNameStaysFree, Users
<1> QED BY <1>1, <1>2

\* SCInv is inductive.
LEMMA SCInvStep == ASSUME SCInv, [SCNext]_scvars PROVE SCInv'
<1>1. ASSUME NEW t \in Threads, Invocation(t) PROVE SCInv'
  BY <1>1, InvocationKeeps
<1>2. ASSUME NEW t \in Threads,
             LockStep(t) \/ \E u \in Usernames, sent \in BOOLEAN : SendTo(t, u, sent)
      PROVE  SCInv'
  BY <1>2, StepTypes, StepLock, StepChecked DEF SCInv
<1>3. CASE UNCHANGED scvars
  BY <1>3 DEF scvars, SCInv, SCTypeOK, LockHeldInside, CallShape,
              CheckedNameStaysFree, Users
<1> QED BY <1>1, <1>2, <1>3 DEF SCNext

LEMMA SCInvariant == SCSpec => []SCInv
<1>1. SCInit => SCInv
  BY SCInvInit
<1>2. SCInv /\ [SCNext]_scvars => SCInv'
  BY SCInvStep
<1> QED BY <1>1, <1>2, PTL DEF SCSpec

\* The types hold always (SCTypeOK).
THEOREM SCTypes == SCSpec => []SCTypeOK
<1>1. SCInv => SCTypeOK
  BY DEF SCInv
<1> QED BY <1>1, SCInvariant, PTL

\* A thread is inside exactly when it holds the lock, a writer alone.
THEOREM LockDiscipline == SCSpec => []LockHeldInside
<1>1. SCInv => LockHeldInside
  BY DEF SCInv
<1> QED BY <1>1, SCInvariant, PTL

\* A name add_new_user has found free is still free when it is inserted.
THEOREM CheckedNamesStayFree == SCSpec => []CheckedNameStaysFree
<1>1. SCInv => CheckedNameStaysFree
  BY DEF SCInv
<1> QED BY <1>1, SCInvariant, PTL

\* Nobody changes the map while somebody reads it, whatever the number of
\* readers and writers: iterators stay valid, and who is in the map when a
\* broadcast begins is there until it ends.
THEOREM MapFrozenWhileRead == SCSpec => FrozenWhileRead
<1>1. SCInv /\ [SCNext]_scvars => [readers # {} => UNCHANGED client_objects]_scvars
  <2> SUFFICES ASSUME SCInv, SCNext, client_objects' # client_objects
               PROVE  readers = {}
    OBVIOUS
  <2> PICK t \in Threads : \/ Invocation(t)
                           \/ LockStep(t)
                           \/ \E u \in Usernames, sent \in BOOLEAN : SendTo(t, u, sent)
    BY DEF SCNext
  <2>1. ~Invocation(t)
    BY DEF Invocation, Invoke
  <2> QED BY <2>1, MapChange
<1>2. SCInit => SCInv
  BY SCInvInit
<1>3. SCInv /\ [SCNext]_scvars => SCInv'
  BY SCInvStep
<1> QED BY <1>1, <1>2, <1>3, PTL DEF SCSpec, FrozenWhileRead

-------------------------------------------------------------------------------
(***************************************************************************)
(* The implementation of ClientDirectory.  Only the intent of the thread   *)
(* that moves changes: the intent of a thread that is sending depends on   *)
(* the map as well, and the map cannot change then.                        *)
(***************************************************************************)
Intents == [t \in Threads |-> IntentOf(t)]

\* A step of one call shows in the directory as a change of its own intent:
\* the addressees of a send in progress do not change under it.
LEMMA OthersIntents ==
  ASSUME SCInv, NEW t \in Threads,
         LockStep(t) \/ \E u \in Usernames, sent \in BOOLEAN : SendTo(t, u, sent)
  PROVE  Intents' = [Intents EXCEPT ![t] = IntentOf(t)']
<1>1. ASSUME NEW r \in Threads \ {t} PROVE IntentOf(r)' = IntentOf(r)
  <2>1. call'[r] = call[r]
    BY OnlyOneMoves DEF SCInv
  <2>2. CASE Sending(r)
    <3>1. r \in readers
      BY <2>2 DEF Sending, SCInv, LockHeldInside, ReadOps
    <3>2. UNCHANGED client_objects
      BY <3>1, MapChange
    <3> QED BY <2>1, <3>2 DEF IntentOf, Sending, Recipients, Users
  <2>3. CASE ~Sending(r)
    BY <2>1, <2>3 DEF IntentOf, Sending
  <2> QED BY <2>2, <2>3
<1> HIDE DEF SCInv
<1>2. DOMAIN Intents' = Threads
  BY DEF Intents
<1> QED BY <1>1 DEF Intents

\* An updated intent, field by field.
Intent(o, n, s, p, a, v, k) ==
    [op |-> o, name |-> n, sock |-> s, phase |-> p, to |-> a, reached |-> v, ok |-> k]

\* What the directory sees of a call in progress.
Seen(t, p, a, v, k) == Intent(call[t].op, call[t].name, call[t].sock, p, a, v, k)

\* A request made, of which nothing has come yet.
Pending(t) == Seen(t, "pending", {}, call[t].visited,
                   call[t].op \in SendOps /\ call[t].ok)

\* What the directory sees of a send that holds the read lock.
LEMMA IntentOfSending ==
  ASSUME SCInv, NEW t \in Threads, call[t].phase = "locked", call[t].op \in SendOps
  PROVE  IntentOf(t) = Seen(t, "sending", Recipients(t), call[t].visited, call[t].ok)
<1>1. (call[t].phase # "checked" /\ call[t].ok) = call[t].ok
  BY DEF SCInv, SCTypeOK, Calls
<1> QED BY <1>1 DEF IntentOf, Sending, Pending, Seen, Intent

\* What the directory sees of a call that has not taken effect.
LEMMA IntentOfPending ==
  ASSUME SCInv, NEW t \in Threads, call[t].phase # "idle",
         call[t].phase = "locked" => call[t].op \notin SendOps
  PROVE  IntentOf(t) = Pending(t)
<1>1. (call[t].phase # "checked" /\ call[t].ok) = (call[t].op \in SendOps /\ call[t].ok)
  BY DEF SCInv, SCTypeOK, Calls, CallShape, SendOps
<1> QED BY <1>1 DEF IntentOf, Sending, Pending, Seen, Intent

\* What the directory sees when a call returns.
LEMMA IntentOfReturned ==
  ASSUME SCInv, NEW t \in Threads, NEW v, NEW b \in BOOLEAN,
         call' = [call EXCEPT ![t] = [@ EXCEPT !.phase = "idle", !.visited = v, !.ok = b]]
  PROVE  IntentOf(t)' = Seen(t, "idle", {}, v, b)
<1>1. call'[t] = [op |-> call[t].op, name |-> call[t].name, sock |-> call[t].sock,
                  phase |-> "idle", visited |-> v, ok |-> b]
  BY DEF SCInv, SCTypeOK, Calls
<1> QED BY <1>1 DEF IntentOf, Sending, Pending, Seen, Intent

\* Entering an operation is the directory's Request.
LEMMA InvocationMaps ==
  ASSUME SCInv, NEW t \in Threads, Invocation(t)
  PROVE  Directory!Next
<1> DEFINE Req(op, name, sock) == Directory!Request(t, op, name, sock)
<1>1. ASSUME NEW op, NEW name, NEW sock, Invoke(t, op, name, sock)
      PROVE  Req(op, name, sock)
  <2>1. ASSUME NEW r \in Threads \ {t} PROVE IntentOf(r)' = IntentOf(r)
    BY <1>1 DEF Invoke, IntentOf, Sending, Recipients, Users, SCInv, SCTypeOK
  <2>2. IntentOf(t)' = [op |-> op, name |-> name, sock |-> sock, phase |-> "pending",
                        to |-> {}, reached |-> {}, ok |-> op \in SendOps]
    <3> DEFINE isSend == op \in SendOps
    <3>1. isSend \in BOOLEAN
      OBVIOUS
    <3>2. call'[t] = [op |-> op, name |-> name, sock |-> sock, phase |-> "waiting",
                      visited |-> {}, ok |-> isSend]
      BY <1>1 DEF Invoke, SCInv, SCTypeOK
    <3> HIDE DEF isSend
    <3>3. IntentOf(t)' = [op |-> op, name |-> name, sock |-> sock, phase |-> "pending",
                          to |-> {}, reached |-> {}, ok |-> isSend]
      BY <3>1, <3>2 DEF IntentOf, Sending
    <3> QED BY <3>3 DEF isSend
  <2>3. IntentOf(t).phase = "idle"
    BY <1>1 DEF Invoke, IntentOf
  <2> QED BY <1>1, <2>1, <2>2, <2>3
          DEF Invoke, Directory!Request, Directory!SendRequests, SendOps
<1> HIDE DEF Req
<1>2. CASE Invoke(t, "get_logged_in_users", None, None)
  BY <1>1, <1>2 DEF Req, Directory!Next
<1>3. CASE \E u \in Usernames, op \in SendOps \cup {"log_out_user"} :
               Invoke(t, op, u, None)
  BY <1>1, <1>3 DEF Req, Directory!Next, Directory!SendRequests, SendOps
<1>4. CASE \E u \in Usernames, s \in Sockets : Invoke(t, "add_new_user", u, s)
  BY <1>1, <1>4 DEF Req, Directory!Next
<1> QED BY <1>2, <1>3, <1>4 DEF Invocation

\* Taking the read lock fixes the addressees of a send; the read lock of a
\* list, the write lock and the look-up of add_new_user are silent.
LEMMA LockMaps ==
  ASSUME SCInv, NEW t \in Threads, RdLock(t) \/ WrLock(t) \/ FindUser(t)
  PROVE  Directory!BeginSend(t) \/ UNCHANGED <<client_objects, Intents>>
<1> USE DEF SCInv
<1>0. UNCHANGED client_objects /\ Intents' = [Intents EXCEPT ![t] = IntentOf(t)']
  BY OthersIntents DEF LockStep, RdLock, WrLock, FindUser
<1>1. CASE RdLock(t) /\ call[t].op \in SendOps
  <2>1. /\ call[t].phase = "waiting"
        /\ call' = [call EXCEPT ![t].phase = "locked"]
    BY <1>1 DEF RdLock
  <2>2. /\ call'[t].phase = "locked" /\ call'[t].op = call[t].op
        /\ call'[t].name = call[t].name /\ call'[t].sock = call[t].sock
        /\ call'[t].visited = call[t].visited /\ call'[t].ok = call[t].ok
    BY <2>1 DEF SCTypeOK, Calls
  <2>3. IntentOf(t) = Seen(t, "pending", {}, call[t].visited, call[t].ok)
    <3>1. (call[t].op \in SendOps /\ call[t].ok) = call[t].ok
      BY <1>1 DEF SCTypeOK, Calls
    <3> QED BY <2>1, <3>1, IntentOfPending DEF Pending
  <2>4. Recipients(t)' = Recipients(t)
    BY <1>0, <2>2 DEF Recipients, Users
  <2>5. IntentOf(t)' = Seen(t, "sending", Recipients(t), call[t].visited, call[t].ok)
    <3>1. (call'[t].phase # "checked" /\ call'[t].ok) = call[t].ok
      BY <2>2 DEF SCTypeOK, Calls
    <3> QED BY <1>1, <2>2, <2>4, <3>1 DEF IntentOf, Sending, Seen, Intent
  <2>6. Directory!Addressees(call[t].op, call[t].name) = Recipients(t)
    BY DEF Directory!Addressees, Directory!Members, Recipients, Users
  <2>7. Intents[t] = Seen(t, "pending", {}, call[t].visited, call[t].ok)
    BY <2>3 DEF Intents
  <2>8. Intents' = [Intents EXCEPT ![t] =
          [op |-> Intents[t].op, name |-> Intents[t].name, sock |-> Intents[t].sock,
           phase |-> "sending", to |-> Recipients(t),
           reached |-> Intents[t].reached, ok |-> Intents[t].ok]]
    BY <1>0, <2>5, <2>7 DEF Seen, Intent
  <2>9. /\ Intents[t].phase = "pending"
        /\ Intents[t].op = call[t].op /\ Intents[t].name = call[t].name
    BY <2>7 DEF Seen, Intent
  <2> QED BY <1>0, <1>1, <2>6, <2>8, <2>9
          DEF Intents, SendOps, Directory!BeginSend, Directory!SendRequests,
              Directory!Progress
<1>2. CASE FindUser(t)
  <2> DEFINE free == call[t].name \notin Users
  <2>1. call' = [call EXCEPT ![t] = [@ EXCEPT !.phase = "checked", !.ok = free]]
    BY <1>2 DEF FindUser
  <2>2. call[t].phase = "locked" /\ call[t].op = "add_new_user" /\ ~call[t].ok
    BY <1>2 DEF FindUser, CallShape, SendOps
  <2> HIDE DEF free
  <2>3. IntentOf(t)' = IntentOf(t)
    BY <2>1, <2>2 DEF IntentOf, Sending, SendOps, SCTypeOK, Calls
  <2> QED BY <1>0, <2>3 DEF Intents
<1>3. CASE ~FindUser(t) /\ ~(RdLock(t) /\ call[t].op \in SendOps)
  <2>1. /\ call' = [call EXCEPT ![t].phase = "locked"]
        /\ call[t].phase = "waiting" /\ call[t].op \notin SendOps
    BY <1>3 DEF RdLock, WrLock, WriteOps, SendOps
  <2>2. IntentOf(t)' = IntentOf(t)
    BY <2>1 DEF IntentOf, Sending, SCTypeOK, Calls
  <2> QED BY <1>0, <2>2 DEF Intents
<1> QED BY <1>1, <1>2, <1>3

\* One send of the loop is one delivery.
LEMMA SendToMaps ==
  ASSUME SCInv, NEW t \in Threads, NEW u \in Usernames, NEW sent \in BOOLEAN,
         SendTo(t, u, sent)
  PROVE  Directory!Deliver(t, u, sent)
<1> USE DEF SCInv
<1>0. UNCHANGED client_objects /\ Intents' = [Intents EXCEPT ![t] = IntentOf(t)']
  BY OthersIntents DEF SendTo
<1>1. call[t].phase = "locked" /\ call[t].op \in SendOps
  BY DEF SendTo
<1>2. IntentOf(t) = Seen(t, "sending", Recipients(t), call[t].visited, call[t].ok)
  BY <1>1, IntentOfSending
<1>3. IntentOf(t)' = Seen(t, "sending", Recipients(t), call[t].visited \cup {u},
                          call[t].ok /\ sent)
  <2>1. Recipients(t)' = Recipients(t)
    BY <1>0, SendToFields DEF Recipients, Users
  <2>2. (call'[t].phase # "checked" /\ call'[t].ok) = (call[t].ok /\ sent)
    BY <1>1, SendToFields
  <2> QED BY <1>1, <2>1, <2>2, SendToFields DEF IntentOf, Sending, Seen, Intent
<1>4. u \in Recipients(t) \ call[t].visited /\ u \in Users
  BY DEF SendTo, Recipients
<1>5. Intents[t] = Seen(t, "sending", Recipients(t), call[t].visited, call[t].ok)
  BY <1>2 DEF Intents
<1>6. Intents' = [Intents EXCEPT ![t] =
        [op |-> Intents[t].op, name |-> Intents[t].name, sock |-> Intents[t].sock,
         phase |-> "sending", to |-> Intents[t].to,
         reached |-> Intents[t].reached \cup {u}, ok |-> Intents[t].ok /\ sent]]
  BY <1>0, <1>3, <1>5 DEF Seen, Intent
<1>7. Intents[t].phase = "sending" /\ u \in Intents[t].to \ Intents[t].reached
  BY <1>4, <1>5 DEF Seen, Intent
<1> QED BY <1>0, <1>4, <1>6, <1>7
        DEF Intents, Directory!Deliver, Directory!Progress, Directory!Members, Users

\* The unlock of a send, and the list, are the directory's.
LEMMA ReturnMaps ==
  ASSUME SCInv, NEW t \in Threads, SendReturns(t) \/ ListReturns(t)
  PROVE  Directory!EndSend(t) \/ Directory!List(t)
<1> USE DEF SCInv
<1>0. UNCHANGED client_objects /\ Intents' = [Intents EXCEPT ![t] = IntentOf(t)']
  BY OthersIntents DEF LockStep, SendReturns, ListReturns
<1>1. CASE SendReturns(t)
  <2> DEFINE b == call[t].ok
                  /\ (call[t].op = "send_to_client" => Recipients(t) # {})
  <2>1. call' = [call EXCEPT ![t] = [@ EXCEPT !.phase = "idle", !.visited = {}, !.ok = b]]
    BY <1>1 DEF SendReturns, Recipients
  <2>2. b \in BOOLEAN
    OBVIOUS
  <2>3. /\ call[t].phase = "locked" /\ call[t].op \in SendOps
        /\ Recipients(t) \subseteq call[t].visited
    BY <1>1 DEF SendReturns
  <2>4. IntentOf(t) = Seen(t, "sending", Recipients(t), call[t].visited, call[t].ok)
    BY <2>3, IntentOfSending
  <2>5. IntentOf(t)' = Seen(t, "idle", {}, {}, b)
    <3> HIDE DEF b
    <3> QED BY <2>1, <2>2, IntentOfReturned
  <2>6. Intents[t] = Seen(t, "sending", Recipients(t), call[t].visited, call[t].ok)
    BY <2>4 DEF Intents
  <2>7. Intents' = [Intents EXCEPT ![t] =
          [op |-> Intents[t].op, name |-> Intents[t].name, sock |-> Intents[t].sock,
           phase |-> "idle", to |-> {}, reached |-> {},
           ok |-> Intents[t].ok
                  /\ (Intents[t].op = "send_to_client" => Intents[t].to # {})]]
    BY <1>0, <2>5, <2>6 DEF Seen, Intent
  <2>8. Intents[t].phase = "sending" /\ Intents[t].to \subseteq Intents[t].reached
    BY <2>3, <2>6 DEF Seen, Intent
  <2> QED BY <1>0, <2>7, <2>8 DEF Intents, Directory!EndSend, Directory!Progress
<1>2. CASE ListReturns(t)
  <2>1. call' = [call EXCEPT ![t] = [@ EXCEPT !.phase = "idle", !.visited = Users]]
    BY <1>2 DEF ListReturns
  <2>2. /\ call[t].phase = "locked" /\ call[t].op = "get_logged_in_users"
        /\ call[t].ok = FALSE
    BY <1>2 DEF ListReturns, CallShape, SendOps, SCTypeOK, Calls
  <2>3. call' = [call EXCEPT ![t] = [@ EXCEPT !.phase = "idle", !.visited = Users,
                                              !.ok = FALSE]]
    BY <2>1, <2>2 DEF SCTypeOK, Calls
  <2>4. IntentOf(t)' = Seen(t, "idle", {}, Users, FALSE)
    BY <2>3, IntentOfReturned
  <2>5. IntentOf(t) = Seen(t, "pending", {}, call[t].visited, FALSE)
    <3>1. (call[t].op \in SendOps /\ call[t].ok) = FALSE
      BY <2>2
    <3> QED BY <2>2, <3>1, IntentOfPending DEF Pending, SendOps
  <2>6. Intents[t] = Seen(t, "pending", {}, call[t].visited, FALSE)
    BY <2>5 DEF Intents
  <2>7. Intents' = [Intents EXCEPT ![t] =
          [op |-> Intents[t].op, name |-> Intents[t].name, sock |-> Intents[t].sock,
           phase |-> "idle", to |-> {}, reached |-> Users, ok |-> Intents[t].ok]]
    BY <1>0, <2>4, <2>6 DEF Seen, Intent
  <2>8. Intents[t].phase = "pending" /\ Intents[t].op = "get_logged_in_users"
    BY <2>2, <2>6 DEF Seen, Intent
  <2> QED BY <1>0, <2>7, <2>8
          DEF Intents, Directory!List, Directory!Progress, Directory!Members, Users
<1> QED BY <1>1, <1>2

\* add_new_user takes effect when it inserts, log_out_user when it erases:
\* nobody is sending then.
LEMMA WriteMaps ==
  ASSUME SCInv, NEW t \in Threads, InsertUser(t) \/ EraseUser(t)
  PROVE  Directory!Add(t) \/ Directory!Remove(t)
<1> USE DEF SCInv
<1>0. Intents' = [Intents EXCEPT ![t] = IntentOf(t)']
  BY OthersIntents DEF LockStep
<1>1. CASE InsertUser(t)
  <2> DEFINE b == call[t].name \notin Users
  <2>1. /\ call[t].phase = "checked" /\ call[t].op = "add_new_user"
        /\ call[t].ok = b /\ b \in BOOLEAN
    BY <1>1 DEF InsertUser, CallShape, CheckedNameStaysFree, SCTypeOK, Calls
  <2>2. client_objects' = IF b THEN [client_objects EXCEPT ![call[t].name] = call[t].sock]
                               ELSE client_objects
    BY <1>1, <2>1 DEF InsertUser
  <2>3. IntentOf(t) = Pending(t)
    BY <2>1, IntentOfPending
  <2>4. IntentOf(t)' = Seen(t, "idle", {}, call[t].visited, b)
    <3> HIDE DEF b
    <3>1. call' = [call EXCEPT ![t] = [@ EXCEPT !.phase = "idle",
                                                !.visited = call[t].visited, !.ok = b]]
      BY <1>1, <2>1 DEF InsertUser, SCTypeOK, Calls
    <3> QED BY <2>1, <3>1, IntentOfReturned
  <2>5. Intents[t] = Pending(t)
    BY <2>3 DEF Intents
  <2>6. Intents' = [Intents EXCEPT ![t] =
          [op |-> Intents[t].op, name |-> Intents[t].name, sock |-> Intents[t].sock,
           phase |-> "idle", to |-> {}, reached |-> Intents[t].reached,
           ok |-> Intents[t].name \notin Users]]
    BY <1>0, <2>4, <2>5 DEF Pending, Seen, Intent
  <2>7. /\ Intents[t].phase = "pending" /\ Intents[t].op = "add_new_user"
        /\ Intents[t].name = call[t].name /\ Intents[t].sock = call[t].sock
    BY <2>1, <2>5 DEF Pending, Seen, Intent
  <2> QED BY <2>2, <2>6, <2>7
          DEF Intents, Directory!Add, Directory!Progress, Directory!Members, Users
<1>2. CASE EraseUser(t)
  <2> DEFINE b == call[t].name \in Users
  <2>1. /\ call[t].phase = "locked" /\ call[t].op = "log_out_user"
        /\ client_objects' = [client_objects EXCEPT ![call[t].name] = None]
        /\ call' = [call EXCEPT ![t] = [@ EXCEPT !.phase = "idle", !.ok = b]]
    BY <1>2 DEF EraseUser
  <2>2. b \in BOOLEAN
    OBVIOUS
  <2>3. IntentOf(t) = Pending(t)
    BY <2>1, IntentOfPending DEF SendOps
  <2>4. IntentOf(t)' = Seen(t, "idle", {}, call[t].visited, b)
    <3> HIDE DEF b
    <3>1. call' = [call EXCEPT ![t] = [@ EXCEPT !.phase = "idle",
                                                !.visited = call[t].visited, !.ok = b]]
      BY <2>1 DEF SCTypeOK, Calls
    <3> QED BY <2>2, <3>1, IntentOfReturned
  <2>5. \A r \in Threads : IntentOf(r).phase # "sending"
    BY <1>2, ServerAssumption
       DEF EraseUser, LockHeldInside, IntentOf, Sending, ReadOps, WriteOps
  <2>6. Intents[t] = Pending(t)
    BY <2>3 DEF Intents
  <2>7. Intents' = [Intents EXCEPT ![t] =
          [op |-> Intents[t].op, name |-> Intents[t].name, sock |-> Intents[t].sock,
           phase |-> "idle", to |-> {}, reached |-> Intents[t].reached,
           ok |-> Intents[t].name \in Users]]
    BY <1>0, <2>4, <2>6 DEF Pending, Seen, Intent
  <2>8. /\ Intents[t].phase = "pending" /\ Intents[t].op = "log_out_user"
        /\ Intents[t].name = call[t].name
    BY <2>1, <2>6 DEF Pending, Seen, Intent
  <2> QED BY <2>1, <2>5, <2>7, <2>8
          DEF Intents, Directory!Remove, Directory!Progress, Directory!Members, Users
<1> QED BY <1>1, <1>2

\* The locked map implements the atomic directory: every operation takes
\* effect at one instant, for any number of threads.
THEOREM SharedClientsIsDirectory == SCSpec => ImplementsDirectory
<1>1. SCInit => SCInv
  BY SCInvInit
<1>2. SCInv /\ [SCNext]_scvars => SCInv'
  BY SCInvStep
<1>3. SCInit => Directory!Init
  <2> SUFFICES ASSUME SCInit, NEW t \in Threads
               PROVE  IntentOf(t) = Directory!NoIntent
    BY DEF SCInit, Directory!Init
  <2> QED BY DEF SCInit, Directory!NoIntent, NoCall, IntentOf, Sending
<1>4. SCInv /\ [SCNext]_scvars => [Directory!Next]_(Directory!dvars)
  <2> SUFFICES ASSUME SCInv, [SCNext]_scvars
               PROVE  Directory!Next \/ UNCHANGED <<client_objects, Intents>>
    BY DEF Intents, Directory!dvars
  <2>1. ASSUME NEW t \in Threads, Invocation(t) PROVE Directory!Next
    BY <2>1, InvocationMaps
  <2>2. ASSUME NEW t \in Threads, LockStep(t)
        PROVE  Directory!Next \/ UNCHANGED <<client_objects, Intents>>
    BY <2>2, LockMaps, ReturnMaps, WriteMaps DEF LockStep, Directory!Next
  <2>3. ASSUME NEW t \in Threads, NEW u \in Usernames, NEW sent \in BOOLEAN,
               SendTo(t, u, sent)
        PROVE  Directory!Next
    BY <2>3, SendToMaps DEF Directory!Next
  <2>4. CASE UNCHANGED scvars
    BY <2>4 DEF scvars, Intents, IntentOf, Sending, Recipients, Users
  <2> QED BY <2>1, <2>2, <2>3, <2>4 DEF SCNext
<1> QED BY <1>1, <1>2, <1>3, <1>4, PTL
        DEF SCSpec, ImplementsDirectory, Directory!Spec
===============================================================================
