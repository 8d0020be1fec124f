----------------------------- MODULE SharedClients -----------------------------
(***************************************************************************)
(* SharedClients (SharedClients.cpp): the singleton that holds the map of  *)
(* logged-in clients behind one POSIX read-write lock.  Each thread calls  *)
(* one operation at a time; a call waits for the lock, runs its body while *)
(* it holds it, and returns when it unlocks.  The sends of send_to_client  *)
(* and send_to_all happen under the read lock, one step per recipient: a   *)
(* send may block, and other readers run in between.  What a send does to  *)
(* a socket is Connections' business; here only its result matters.        *)
(***************************************************************************)
EXTENDS ServerBase

VARIABLES client_objects,  \* username -> client_socket, None when absent
          readers,         \* threads holding client_objects_lock for reading
          writer,          \* the thread holding it for writing, or None
          call             \* the operation each thread is executing

scvars == <<client_objects, readers, writer, call>>

SendOps  == {"send_to_client", "send_to_all"}
ReadOps  == SendOps \cup {"get_logged_in_users"}
WriteOps == {"add_new_user", "log_out_user"}
Ops      == ReadOps \cup WriteOps

(***************************************************************************)
(* A call: its operation and arguments, how far it is, the users the loop  *)
(* over the map has come to, and its boolean result.  An idle record keeps *)
(* what the last call returned: ok, and in visited the user list.          *)
(***************************************************************************)
Calls == [op      : Ops,
          name    : Usernames \cup {None},
          sock    : Sockets \cup {None},
          phase   : {"idle", "waiting", "locked", "checked"},
          visited : SUBSET Usernames,
          ok      : BOOLEAN]

NoCall == [op |-> "get_logged_in_users", name |-> None, sock |-> None,
           phase |-> "idle", visited |-> {}, ok |-> FALSE]

Users == {u \in Usernames : client_objects[u] # None}

\* The users a send goes to: the addressee if the map has it, or everyone
\* but the sender.
Recipients(t) ==
    IF call[t].op = "send_to_client" THEN Users \cap {call[t].name}
                                     ELSE Users \ {call[t].name}

SCInit == /\ client_objects = [u \in Usernames |-> None]
          /\ readers = {}
          /\ writer = None
          /\ call = [t \in Threads |-> NoCall]

-------------------------------------------------------------------------------
\* A thread enters one of the operations; ok starts as its local does:
\* send_success = true, success = false, messaging_client = nullptr.
Invoke(t, op, name, sock) ==
    /\ call[t].phase = "idle"
    /\ call' = [call EXCEPT ![t] = [op |-> op, name |-> name, sock |-> sock,
                                    phase |-> "waiting", visited |-> {},
                                    ok |-> op \in SendOps]]
    /\ UNCHANGED <<client_objects, readers, writer>>

\* Mutant: the reader does not wait for a writer.
RdLockDuringWrite(t) ==
    /\ call[t].phase = "waiting" /\ call[t].op \in ReadOps
    /\ readers' = readers \cup {t}
    /\ call' = [call EXCEPT ![t].phase = "locked"]
    /\ UNCHANGED <<client_objects, writer>>

\* pthread_rwlock_rdlock: any number of readers, no writer.
RdLock(t) ==
    /\ call[t].phase = "waiting" /\ call[t].op \in ReadOps
    /\ writer = None
    /\ readers' = readers \cup {t}
    /\ call' = [call EXCEPT ![t].phase = "locked"]
    /\ UNCHANGED <<client_objects, writer>>

\* Mutant: the writer does not wait for the readers.
WrLockAmongReaders(t) ==
    /\ call[t].phase = "waiting" /\ call[t].op \in WriteOps
    /\ writer = None
    /\ writer' = t
    /\ call' = [call EXCEPT ![t].phase = "locked"]
    /\ UNCHANGED <<client_objects, readers>>

\* pthread_rwlock_wrlock: alone.
WrLock(t) ==
    /\ call[t].phase = "waiting" /\ call[t].op \in WriteOps
    /\ writer = None /\ readers = {}
    /\ writer' = t
    /\ call' = [call EXCEPT ![t].phase = "locked"]
    /\ UNCHANGED <<client_objects, readers>>

\* Mutant: a failed send starts the loop over.
SendToRestarts(t, u, sent) ==
    /\ call[t].phase = "locked" /\ call[t].op \in SendOps
    /\ u \in Recipients(t) \ call[t].visited
    /\ call' = [call EXCEPT ![t] = [@ EXCEPT
           !.visited = IF sent THEN call[t].visited \cup {u} ELSE {},
           !.ok = call[t].ok /\ sent]]
    /\ UNCHANGED <<client_objects, readers, writer>>

\* One send() to recipient u; a short or failed send is remembered and the
\* loop goes on.
SendTo(t, u, sent) ==
    /\ call[t].phase = "locked" /\ call[t].op \in SendOps
    /\ u \in Recipients(t) \ call[t].visited
    /\ call' = [call EXCEPT ![t] = [@ EXCEPT !.visited = call[t].visited \cup {u},
                                            !.ok = call[t].ok /\ sent]]
    /\ UNCHANGED <<client_objects, readers, writer>>

\* Mutant: a send that failed leaves the function without unlocking.
SendReturnsLocked(t) ==
    /\ call[t].phase = "locked" /\ call[t].op \in SendOps
    /\ Recipients(t) \subseteq call[t].visited
    /\ call' = [call EXCEPT ![t] = [@ EXCEPT !.phase = "idle", !.visited = {}]]
    /\ readers' = IF call[t].ok THEN readers \ {t} ELSE readers
    /\ UNCHANGED <<client_objects, writer>>

\* Mutant: the loop over the map ends at the first send that fails.
SendReturnsEarly(t) ==
    /\ call[t].phase = "locked" /\ call[t].op \in SendOps
    /\ Recipients(t) \subseteq call[t].visited \/ ~call[t].ok
    /\ call' = [call EXCEPT ![t] = [@ EXCEPT !.phase = "idle", !.visited = {}]]
    /\ readers' = readers \ {t}
    /\ UNCHANGED <<client_objects, writer>>

\* The loop is over: unlock and return whether every send succeeded, and,
\* for send_to_client, whether there was anyone to send to.
SendReturns(t) ==
    /\ call[t].phase = "locked" /\ call[t].op \in SendOps
    /\ Recipients(t) \subseteq call[t].visited
    /\ call' = [call EXCEPT ![t] = [@ EXCEPT
           !.phase = "idle", !.visited = {},
           !.ok = call[t].ok /\ (call[t].op = "send_to_client" => call[t].name \in Users)]]
    /\ readers' = readers \ {t}
    /\ UNCHANGED <<client_objects, writer>>

\* Mutant: the last ", " of the list is read as one more, empty name.
ListReturnsEmptyName(t) ==
    /\ call[t].phase = "locked" /\ call[t].op = "get_logged_in_users"
    /\ call' = [call EXCEPT ![t] = [@ EXCEPT !.phase = "idle",
                                            !.visited = Users \cup {None}]]
    /\ readers' = readers \ {t}
    /\ UNCHANGED <<client_objects, writer>>

\* get_logged_in_users: the names in the map, read under the lock.
ListReturns(t) ==
    /\ call[t].phase = "locked" /\ call[t].op = "get_logged_in_users"
    /\ call' = [call EXCEPT ![t] = [@ EXCEPT !.phase = "idle", !.visited = Users]]
    /\ readers' = readers \ {t}
    /\ UNCHANGED <<client_objects, writer>>

\* Mutant: the lock is released between looking up and inserting.
FindUserUnlocks(t) ==
    /\ call[t].phase = "locked" /\ call[t].op = "add_new_user"
    /\ call' = [call EXCEPT ![t] = [@ EXCEPT !.phase = "checked",
                                            !.ok = call[t].name \notin Users]]
    /\ writer' = None
    /\ UNCHANGED <<client_objects, readers>>

\* add_new_user looks the name up ...
FindUser(t) ==
    /\ call[t].phase = "locked" /\ call[t].op = "add_new_user"
    /\ call' = [call EXCEPT ![t] = [@ EXCEPT !.phase = "checked",
                                            !.ok = call[t].name \notin Users]]
    /\ UNCHANGED <<client_objects, readers, writer>>

\* Mutant: the refusal of a taken name returns without unlocking.
InsertUserRefusalLocked(t) ==
    /\ call[t].phase = "checked"
    /\ client_objects' = IF call[t].ok
                         THEN [client_objects EXCEPT ![call[t].name] = call[t].sock]
                         ELSE client_objects
    /\ writer' = IF call[t].ok THEN None ELSE writer
    /\ call' = [call EXCEPT ![t].phase = "idle"]
    /\ UNCHANGED readers

\* ... and inserts if it was not there (unordered_map::insert leaves an
\* element that is already there alone).
InsertUser(t) ==
    /\ call[t].phase = "checked"
    /\ client_objects' = IF call[t].ok /\ call[t].name \notin Users
                         THEN [client_objects EXCEPT ![call[t].name] = call[t].sock]
                         ELSE client_objects
    /\ writer' = None
    /\ call' = [call EXCEPT ![t].phase = "idle"]
    /\ UNCHANGED readers

\* Mutant: the lock stays.
EraseUserLocked(t) ==
    /\ call[t].phase = "locked" /\ call[t].op = "log_out_user"
    /\ client_objects' = [client_objects EXCEPT ![call[t].name] = None]
    /\ call' = [call EXCEPT ![t] = [@ EXCEPT !.phase = "idle",
                                            !.ok = call[t].name \in Users]]
    /\ UNCHANGED <<readers, writer>>

\* log_out_user erases the entry of the name, whosever it is.
EraseUser(t) ==
    /\ call[t].phase = "locked" /\ call[t].op = "log_out_user"
    /\ client_objects' = [client_objects EXCEPT ![call[t].name] = None]
    /\ writer' = None
    /\ call' = [call EXCEPT ![t] = [@ EXCEPT !.phase = "idle",
                                            !.ok = call[t].name \in Users]]
    /\ UNCHANGED readers

\* The steps of a call that touch no socket.
LockStep(t) == \/ RdLock(t) \/ WrLock(t)
               \/ SendReturns(t) \/ ListReturns(t)
               \/ FindUser(t) \/ InsertUser(t) \/ EraseUser(t)

\* The arguments each operation is called with.
Invocation(t) ==
    \/ Invoke(t, "get_logged_in_users", None, None)
    \/ \E u \in Usernames :
           \/ \E op \in SendOps \cup {"log_out_user"} : Invoke(t, op, u, None)
           \/ \E s \in Sockets : Invoke(t, "add_new_user", u, s)

\* Any thread may call any operation at any time.
SCNext == \E t \in Threads :
              \/ Invocation(t)
              \/ LockStep(t)
              \/ \E u \in Usernames, sent \in BOOLEAN : SendTo(t, u, sent)

SCSpec == SCInit /\ [][SCNext]_scvars

-------------------------------------------------------------------------------
SCTypeOK == /\ client_objects \in [Usernames -> Sockets \cup {None}]
            /\ readers \subseteq Threads
            /\ writer \in Threads \cup {None}
            /\ call \in [Threads -> Calls]

\* The lock is held by exactly the threads that are inside their operation:
\* no call leaves it held behind (every path of SharedClients.cpp unlocks),
\* and a thread inside add_new_user or log_out_user is alone.
LockHeldInside ==
    /\ readers = {t \in Threads : call[t].phase = "locked" /\ call[t].op \in ReadOps}
    /\ \A t \in Threads :
           (writer = t) <=> \/ call[t].phase = "locked" /\ call[t].op \in WriteOps
                            \/ call[t].phase = "checked"
    /\ writer # None => readers = {}

\* What add_new_user found is still true when it inserts: between the find
\* and the insert nobody else takes the name (SharedClients.cpp:167-171).
CheckedNameStaysFree ==
    \A t \in Threads : call[t].phase = "checked" =>
        (call[t].ok <=> call[t].name \notin Users)

\* The map stands still under whoever iterates over it: while a thread is
\* inside a read operation, no step of any thread changes client_objects
\* (the loops of send_to_all and get_logged_in_users keep valid iterators).
FrozenWhileRead ==
    [][readers # {} => UNCHANGED client_objects]_scvars

(***************************************************************************)
(* The map behind its lock implements the directory without one.  The      *)
(* recipients of a send, fixed in the directory when it begins, are here   *)
(* what the live map says at each step: the mapping only works because the *)
(* read lock keeps the two the same.                                       *)
(***************************************************************************)
Sending(t) == call[t].phase = "locked" /\ call[t].op \in SendOps

IntentOf(t) ==
    [op      |-> call[t].op,
     name    |-> call[t].name,
     sock    |-> call[t].sock,
     phase   |-> IF call[t].phase = "idle" THEN "idle"
                 ELSE IF Sending(t) THEN "sending" ELSE "pending",
     to      |-> IF Sending(t) THEN Recipients(t) ELSE {},
     reached |-> call[t].visited,
     ok      |-> call[t].phase # "checked" /\ call[t].ok]

Directory == INSTANCE ClientDirectory
                 WITH members <- client_objects,
                      intent  <- [t \in Threads |-> IntentOf(t)]

\* Every behaviour of the locked map is one of the atomic directory: adding,
\* removing and listing take effect at one instant, a broadcast reaches the
\* users registered at one instant, and nobody is erased while a message is
\* being sent to them.
ImplementsDirectory == Directory!Spec
===============================================================================
