------------------------------ MODULE RustServer ------------------------------
(***************************************************************************)
(* The Rust server: login (main.rs), MessagingClient::client               *)
(* (messaging_client.rs) and SharedClients (shared_clients.rs), one thread *)
(* per connection.  Unlike the C++ server's, its map holds the connections *)
(* themselves, a failed write returns an error, a broadcast stops at the   *)
(* first of them, an unwrap() or an unknown message type ends the thread,  *)
(* and the map is created by the first to ask for it, without a lock.      *)
(* Messages are whole frames.                                              *)
(***************************************************************************)
EXTENDS Integers, Sequences, FiniteSets

CONSTANTS Threads,       \* connections, and the thread that serves each
          Usernames, None,
          All,           \* the recipient name of a broadcast
          Faults,        \* "reset": connections break; "panic": frames the
                         \* server does not expect arrive
          MaxRequests    \* bound: the requests read

ASSUME RustAssumption ==
    /\ None \notin Threads /\ None \notin Usernames /\ All \notin Usernames
    /\ All # None /\ MaxRequests \in Nat

VARIABLES made,       \* CLIENTS_SINGLETON is not None
          remade,     \* it has been assigned a second time
          clients,    \* username -> connection, None if there is none
          readers,    \* threads that hold the RwLock for reading
          gone,       \* connections on which writes fail
          outbox,     \* connection -> the frames written to it
          pc, user,   \* where each thread is; its username
          requests,   \* what it has read in client(), oldest first
          calls,      \* what its handler sends, the next frame first
          to          \* the users its call has still to write to

mapvars == <<made, remade, clients>>
vars == <<mapvars, readers, gone, outbox, pc, user, requests, calls, to>>

\* "improper": another LOGIN, or a MESSAGE without a body; "skipped": ERROR,
\* ACK, NACK, or a header that fails its checksum; "unreadable": a MESSAGE
\* for a name that is not UTF-8.
Requests == [type : {"skipped", "improper", "damaged", "unreadable", "WHO", "DISCONNECT"},
             dest : {None}]
            \cup [type : {"MESSAGE"}, dest : Usernames \cup {All}]

\* num, which is not on the wire, tells the requests of a client apart; dest
\* is whom send_to_client, or send_to_all, is called for.  A "list" is never
\* written: it stands among the calls of a handler for get_logged_in_users.
Kinds == {"LOGIN", "ERROR", "WHO", "ACK", "NACK", "MESSAGE", "entered", "left", "list"}
Frames == [kind : Kinds, sender : Threads, num : Nat, dest : Usernames \cup {All}]

PcValues == {"login", "creating", "adding", "refusing", "greeting", "calling",
             "locked", "reading", "leaving", "exited", "panicked"}

Init == /\ made = FALSE /\ remade = FALSE
        /\ clients = [u \in Usernames |-> None]
        /\ readers = {} /\ gone = {}
        /\ outbox = [t \in Threads |-> {}]
        /\ pc = [t \in Threads |-> "login"]
        /\ user = [t \in Threads |-> None]
        /\ requests = [t \in Threads |-> <<>>]
        /\ calls = [t \in Threads |-> <<>>]
        /\ to = [t \in Threads |-> {}]

Users == {u \in Usernames : clients[u] # None}
Num(t) == Len(requests[t])
AllRead == UNION {{t} \X (1..Num(t)) : t \in Threads}

Go(t, p, q) == pc[t] = p /\ pc' = [pc EXCEPT ![t] = q]

Frame(t, kind, num, dest) == [kind |-> kind, sender |-> t, num |-> num, dest |-> dest]

\* A write() to connection c, or two; it blocks while c does not read.
Written(c, f) == /\ c \notin gone
                 /\ outbox' = [outbox EXCEPT ![c] = @ \cup {f}]
                 /\ UNCHANGED gone
WriteFails(c) == /\ c \in gone \/ "reset" \in Faults
                 /\ gone' = gone \cup {c}
                 /\ UNCHANGED outbox

\* The handler of t is going to make these calls, in this order.
Calling(t, frames) == calls' = [calls EXCEPT ![t] = frames]

-------------------------------------------------------------------------------
(***************************************************************************)
(* login.                                                                  *)
(***************************************************************************)
\* The first message is not a LOGIN, or not a message.
BadLogin(t) == /\ Go(t, "login", "exited")
               /\ UNCHANGED <<mapvars, readers, gone, outbox, user, requests, calls, to>>

\* get_instance asks whether the map is there.
Login(t, u) == /\ Go(t, "login", IF made THEN "adding" ELSE "creating")
               /\ user' = [user EXCEPT ![t] = u]
               /\ UNCHANGED <<mapvars, readers, gone, outbox, requests, calls, to>>

\* It was not: assign one, even if another thread has by now.  The map that
\* was there is dropped, its lock with it.
CreateInstance(t) ==
    /\ Go(t, "creating", "adding")
    /\ made' = TRUE
    /\ remade' = (remade \/ made)
    /\ clients' = [u \in Usernames |-> None]
    /\ readers' = {}
    /\ UNCHANGED <<gone, outbox, user, requests, calls, to>>

\* Mutant: a name that is taken is waited for.
AddUserWaits(t) ==
    /\ readers = {} /\ user[t] \notin Users
    /\ Go(t, "adding", "greeting")
    /\ clients' = [clients EXCEPT ![user[t]] = t]
    /\ UNCHANGED <<made, remade, readers, gone, outbox, user, requests, calls, to>>

\* Mutant: the name is not looked up.
AddUserOver(t) ==
    /\ readers = {}
    /\ Go(t, "adding", "greeting")
    /\ clients' = [clients EXCEPT ![user[t]] = t]
    /\ UNCHANGED <<made, remade, readers, gone, outbox, user, requests, calls, to>>

\* add_user, under the write lock.
AddUser(t) ==
    /\ readers = {}
    /\ \/ /\ user[t] \notin Users
          /\ Go(t, "adding", "greeting")
          /\ clients' = [clients EXCEPT ![user[t]] = t]
       \/ /\ user[t] \in Users
          /\ Go(t, "adding", "refusing")
          /\ UNCHANGED clients
    /\ UNCHANGED <<made, remade, readers, gone, outbox, user, requests, calls, to>>

Refuse(t) == /\ \/ /\ Go(t, "refusing", "exited")
                   /\ Written(t, Frame(t, "ERROR", 0, user[t]))
                \/ Go(t, "refusing", "panicked") /\ WriteFails(t)
             /\ UNCHANGED <<mapvars, readers, user, requests, calls, to>>

\* The LOGIN answer, then client(), which begins with a notice to the others.
Greet(t) == /\ Go(t, "greeting", "calling")
            /\ Written(t, Frame(t, "LOGIN", 0, user[t]))
            /\ Calling(t, <<Frame(t, "entered", 0, All)>>)
            /\ UNCHANGED <<mapvars, readers, user, requests, to>>

\* unwrap() of the failed answer: the thread is gone, the user stays.
GreetPanics(t) == /\ Go(t, "greeting", "panicked")
                  /\ WriteFails(t)
                  /\ UNCHANGED <<mapvars, readers, user, requests, calls, to>>

-------------------------------------------------------------------------------
(***************************************************************************)
(* send_to_client, send_to_all and get_logged_in_users: each takes the     *)
(* lock for reading and keeps it across its writes, which may block.       *)
(***************************************************************************)
\* The next call, or the end of the handler: nothing follows the ACK when the
\* recipient's name cannot be unwrapped.
Return(t) ==
    LET f == Head(calls[t]) IN
    /\ calls' = [calls EXCEPT ![t] = Tail(@)]
    /\ pc' = [pc EXCEPT ![t] = IF Len(calls[t]) > 1 THEN "calling"
                               ELSE IF f.kind = "left" THEN "leaving"
                               ELSE IF f.kind = "ACK" THEN "panicked"
                               ELSE "reading"]

\* Whom thread t writes f to: one user, if that is in the map, all but its own,
\* or nobody, when it lists the users.
Recipients(t, f) == IF f.kind = "list" THEN {}
                    ELSE IF f.dest = All THEN Users \ {user[t]}
                    ELSE {f.dest} \cap Users

\* Mutant: the connections are copied from the map, and written to without it.
LockCopies(t) == /\ pc[t] = "calling"
                 /\ pc' = [pc EXCEPT ![t] = "locked"]
                 /\ to' = [to EXCEPT ![t] = Recipients(t, Head(calls[t]))]
                 /\ UNCHANGED <<mapvars, readers, gone, outbox, user, requests, calls>>

Lock(t) == /\ pc[t] = "calling"
           /\ pc' = [pc EXCEPT ![t] = "locked"]
           /\ readers' = readers \cup {t}
           /\ to' = [to EXCEPT ![t] = Recipients(t, Head(calls[t]))]
           /\ UNCHANGED <<mapvars, gone, outbox, user, requests, calls>>

\* Mutant: the caller's own connection is written to.
SendToSelf(t, u) == /\ pc[t] = "locked" /\ u \in to[t] \cap Users
                    /\ Written(t, Head(calls[t]))
                    /\ to' = [to EXCEPT ![t] = @ \ {u}]
                    /\ UNCHANGED <<mapvars, readers, pc, user, requests, calls>>

Send(t, u) == /\ pc[t] = "locked" /\ u \in to[t] \cap Users
              /\ Written(clients[u], Head(calls[t]))
              /\ to' = [to EXCEPT ![t] = @ \ {u}]
              /\ UNCHANGED <<mapvars, readers, pc, user, requests, calls>>

\* Mutant: who cannot be written to is removed, from within the loop.
SendFailsRemoves(t, u) ==
    /\ pc[t] = "locked" /\ u \in to[t] \cap Users
    /\ WriteFails(clients[u])
    /\ to' = [to EXCEPT ![t] = {}]
    /\ pc' = [pc EXCEPT ![t] = "leaving"]
    /\ UNCHANGED <<mapvars, readers, user, requests, calls>>

\* A failed write ends the loop, whoever is left.
SendFails(t, u) == /\ pc[t] = "locked" /\ u \in to[t] \cap Users
                   /\ WriteFails(clients[u])
                   /\ to' = [to EXCEPT ![t] = {}]
                   /\ UNCHANGED <<mapvars, readers, pc, user, requests, calls>>

\* Mutant: the first recipient is the last.
UnlockEarly(t) == /\ pc[t] = "locked"
                  /\ Return(t)
                  /\ readers' = readers \ {t}
                  /\ to' = [to EXCEPT ![t] = {}]
                  /\ UNCHANGED <<mapvars, gone, outbox, user, requests>>

\* The guard goes out of scope, and the call returns.
Unlock(t) == /\ pc[t] = "locked" /\ to[t] = {}
             /\ Return(t)
             /\ readers' = readers \ {t}
             /\ UNCHANGED <<mapvars, gone, outbox, user, requests, to>>

\* The map was replaced while t went through it: freed memory is read.  Here
\* the call ends; no property says what follows.
SendAstray(t) == /\ pc[t] = "locked" /\ to[t] \ Users # {}
                 /\ to' = [to EXCEPT ![t] = {}]
                 /\ UNCHANGED <<mapvars, readers, gone, outbox, pc, user, requests, calls>>

-------------------------------------------------------------------------------
(***************************************************************************)
(* The loop of client().                                                   *)
(***************************************************************************)
Reads(t, type, dest) ==
    /\ pc[t] = "reading" /\ Cardinality(AllRead) < MaxRequests
    /\ requests' = [requests EXCEPT ![t] = Append(@, [type |-> type, dest |-> dest])]
    /\ UNCHANGED <<mapvars, readers, gone, outbox, user, to>>

Handles(t, frames) == pc' = [pc EXCEPT ![t] = "calling"] /\ Calling(t, frames)

\* Mutant: the answer has no recipient.
OwnUnnamed(t, kind) == Frame(t, kind, Num(t) + 1, None)
Own(t, kind) == Frame(t, kind, Num(t) + 1, user[t])

ReadSkipped(t) == Reads(t, "skipped", None) /\ UNCHANGED <<pc, calls>>
ReadImproper(t) == Reads(t, "improper", None) /\ Handles(t, <<Own(t, "ERROR")>>)
\* The list of users is made, then sent.
ReadWho(t) == Reads(t, "WHO", None) /\ Handles(t, <<Own(t, "list"), Own(t, "WHO")>>)

\* Mutant: a message that fails its checksum is passed on after its NACK.
ReadDamagedOn(t) ==
    /\ Reads(t, "damaged", None)
    /\ Handles(t, <<Own(t, "NACK"), Frame(t, "MESSAGE", Num(t) + 1, All)>>)

ReadDamaged(t) == Reads(t, "damaged", None) /\ Handles(t, <<Own(t, "NACK")>>)

\* Acknowledged, then passed on to the room or one user; whether it got there
\* nobody asks.
ReadMessage(t, dest) ==
    /\ Reads(t, "MESSAGE", dest)
    /\ Handles(t, <<Own(t, "ACK"), Frame(t, "MESSAGE", Num(t) + 1, dest)>>)

ReadUnreadable(t) == /\ "panic" \in Faults
                     /\ Reads(t, "unreadable", None)
                     /\ Handles(t, <<Own(t, "ACK")>>)

ReadDisconnect(t) ==
    /\ Reads(t, "DISCONNECT", None)
    /\ Handles(t, <<Frame(t, "left", Num(t) + 1, All)>>)

\* The end of the stream; after an error, which is skipped, it comes next.
ReadEnds(t) == /\ Go(t, "reading", "leaving")
               /\ UNCHANGED <<mapvars, readers, gone, outbox, user, requests, calls, to>>

\* An unknown message type.
ReadPanics(t) == /\ "panic" \in Faults
                 /\ Go(t, "reading", "panicked")
                 /\ UNCHANGED <<mapvars, readers, gone, outbox, user, requests, calls, to>>

\* Mutant: who has lost its connection is not removed.
LeaveUnremoved(t) == /\ readers = {}
                     /\ Go(t, "leaving", "exited")
                     /\ UNCHANGED <<mapvars, readers, gone, outbox, user, requests, calls, to>>

\* Back in login: remove_user, under the write lock; the name's entry goes,
\* whosever it is.
Leave(t) == /\ readers = {}
            /\ Go(t, "leaving", "exited")
            /\ clients' = [clients EXCEPT ![user[t]] = None]
            /\ UNCHANGED <<made, remade, readers, gone, outbox, user, requests, calls, to>>

-------------------------------------------------------------------------------
Client(t) == \/ BadLogin(t) \/ \E u \in Usernames : Login(t, u)
             \/ ReadSkipped(t) \/ ReadImproper(t) \/ ReadWho(t) \/ ReadDamaged(t)
             \/ \E dest \in Usernames \cup {All} : ReadMessage(t, dest)
             \/ ReadUnreadable(t) \/ ReadDisconnect(t) \/ ReadEnds(t) \/ ReadPanics(t)

\* What a thread does without a client.
Works(t) == \/ CreateInstance(t) \/ AddUser(t) \/ Lock(t) \/ Unlock(t) \/ SendAstray(t) \/ Leave(t)
            \/ Refuse(t) \/ Greet(t) \/ GreetPanics(t)
            \/ \E u \in Usernames : Send(t, u) \/ SendFails(t, u)

\* Every thread waits for its client, or has ended.
Done == /\ \A t \in Threads : pc[t] \in {"login", "reading", "exited", "panicked"}
        /\ UNCHANGED vars

Next == Done \/ \E t \in Threads : Client(t) \/ Works(t)

Spec == Init /\ [][Next]_vars

-------------------------------------------------------------------------------
RustTypeOK ==
    /\ made \in BOOLEAN /\ remade \in BOOLEAN
    /\ clients \in [Usernames -> Threads \cup {None}]
    /\ readers \subseteq Threads /\ gone \subseteq Threads
    /\ outbox \in [Threads -> SUBSET Frames]
    /\ pc \in [Threads -> PcValues]
    /\ user \in [Threads -> Usernames \cup {None}]
    /\ requests \in [Threads -> Seq(Requests)]
    /\ calls \in [Threads -> Seq(Frames)]
    /\ to \in [Threads -> SUBSET Usernames]

\* From add_user to remove_user.
Session == {"greeting", "calling", "locked", "reading", "leaving"}
InSession(t) == pc[t] \in Session

\* Whoever is in the map under a name logged in with it, and its thread is
\* still serving it: remove_user comes after every way out of client(), an
\* error of the socket too.  Only a panic leaves the user behind
\* (main.rs:87-94, messaging_client.rs:82-92).
EntriesAreServed ==
    ~remade => \A u \in Users :
        /\ user[clients[u]] = u
        /\ InSession(clients[u]) \/ pc[clients[u]] = "panicked"

\* Whoever is logged in can be sent to: its entry is its own connection from
\* add_user to remove_user, unless the map was replaced under it
\* (shared_clients.rs:17-27, 80-97).
SessionsHaveEntries ==
    ~remade => \A t \in Threads : InSession(t) => clients[user[t]] = t

\* Refuted: "The clients currently logged into the server"
\* (shared_clients.rs:10).  get_instance looks and assigns without a lock, so
\* the second of two first logins can throw away the map with the first in it.
LoggedInAreInMap ==
    \A t \in Threads : InSession(t) => clients[user[t]] = t

\* A message for one user, a notice for oneself, comes out on the connection
\* that logged in with that name, a broadcast on every connection but the
\* sender's; a name used again does not lead a message astray, for the map
\* holds connections, not descriptors (shared_clients.rs:29-66).
FramesComeOutRight ==
    ~remade => \A c \in Threads : \A f \in outbox[c] :
        IF f.dest = All THEN f.sender # c
                        ELSE user[c] = f.dest

Got(c, kind, s, n) ==
    \E f \in outbox[c] : f.kind = kind /\ f.sender = s /\ f.num = n

\* What is passed on its sender has been told is accepted, and not that it is
\* damaged, unless its connection is gone (messaging_client.rs:123-171).
PassedOnWasAcked ==
    ~remade => \A c \in Threads : \A f \in outbox[c] :
        f.kind = "MESSAGE" =>
            /\ f.num \in DOMAIN requests[f.sender]
            /\ requests[f.sender][f.num].type = "MESSAGE"
            /\ ~Got(f.sender, "NACK", f.sender, f.num)
            /\ Got(f.sender, "ACK", f.sender, f.num) \/ f.sender \in gone

\* Request n of s has been dealt with.
Handled(s, n) == n < Num(s) \/ pc[s] \in {"reading", "leaving", "exited", "panicked"}

\* Whoever saw s enter, and is still there, gets all that s says to the room,
\* even if the answers to s fail.  Another's broken connection suffices to spoil
\* it: the loop of send_to_all returns on the first write that fails
\* (messaging_client.rs:152-190, shared_clients.rs:50-66).
RoomHearsAll ==
    ~remade => \A s, c \in Threads :
        gone \subseteq {s} /\ InSession(c) /\ Got(c, "entered", s, 0) =>
            \A n \in DOMAIN requests[s] :
                requests[s][n].dest = All /\ Handled(s, n)
                    => Got(c, "MESSAGE", s, n)

\* Whom a call has still to write to is logged in as long as it takes, however
\* long the writes before it block: nobody is removed, and no name taken again,
\* behind a call that is going through the map (shared_clients.rs:29-66, 85, 95).
RecipientsStay ==
    ~remade => \A t \in Threads : pc[t] = "locked" => \A u \in to[t] :
        u \in Users /\ (InSession(clients[u]) \/ pc[clients[u]] = "panicked")
===============================================================================
