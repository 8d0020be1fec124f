---------------------------- MODULE ClientDirectory ----------------------------
(***************************************************************************)
(* What SharedClients promises its callers, without a lock: a directory of *)
(* logged-in users on which adding, removing and listing happen at one     *)
(* instant, and a send goes to exactly the users registered at the instant *)
(* it began, each of them still registered when its turn comes.            *)
(***************************************************************************)
EXTENDS ServerBase

VARIABLES members,   \* username -> socket, None when not registered
          intent     \* what each thread has asked for, and how far it is

dvars == <<members, intent>>

SendRequests == {"send_to_client", "send_to_all"}

Members == {u \in Usernames : members[u] # None}

Addressees(op, name) ==
    IF op = "send_to_client" THEN Members \cap {name} ELSE Members \ {name}

NoIntent == [op |-> "get_logged_in_users", name |-> None, sock |-> None,
             phase |-> "idle", to |-> {}, reached |-> {}, ok |-> FALSE]

Init == /\ members = [u \in Usernames |-> None]
        /\ intent = [t \in Threads |-> NoIntent]

Request(t, op, name, sock) ==
    /\ intent[t].phase = "idle"
    /\ intent' = [intent EXCEPT ![t] = [op |-> op, name |-> name, sock |-> sock,
                                        phase |-> "pending", to |-> {},
                                        reached |-> {}, ok |-> op \in SendRequests]]
    /\ UNCHANGED members

\* The request itself never changes, only what has become of it.
Progress(t, phase, to, reached, ok) ==
    intent' = [intent EXCEPT ![t] =
                  [op |-> intent[t].op, name |-> intent[t].name, sock |-> intent[t].sock,
                   phase |-> phase, to |-> to, reached |-> reached, ok |-> ok]]

BeginSend(t) ==
    /\ intent[t].phase = "pending" /\ intent[t].op \in SendRequests
    /\ Progress(t, "sending", Addressees(intent[t].op, intent[t].name),
                intent[t].reached, intent[t].ok)
    /\ UNCHANGED members

Deliver(t, u, sent) ==
    /\ intent[t].phase = "sending"
    /\ u \in intent[t].to \ intent[t].reached
    /\ u \in Members
    /\ Progress(t, "sending", intent[t].to, intent[t].reached \cup {u},
                intent[t].ok /\ sent)
    /\ UNCHANGED members

EndSend(t) ==
    /\ intent[t].phase = "sending"
    /\ intent[t].to \subseteq intent[t].reached
    /\ Progress(t, "idle", {}, {},
                intent[t].ok /\ (intent[t].op = "send_to_client" => intent[t].to # {}))
    /\ UNCHANGED members

List(t) ==
    /\ intent[t].phase = "pending" /\ intent[t].op = "get_logged_in_users"
    /\ Progress(t, "idle", {}, Members, intent[t].ok)
    /\ UNCHANGED members

\* A name is given to at most one of those who ask for it.
Add(t) ==
    /\ intent[t].phase = "pending" /\ intent[t].op = "add_new_user"
    /\ Progress(t, "idle", {}, intent[t].reached, intent[t].name \notin Members)
    /\ members' = IF intent[t].name \in Members THEN members
                  ELSE [members EXCEPT ![intent[t].name] = intent[t].sock]

\* Nobody leaves while a message is on its way to them.
Remove(t) ==
    /\ intent[t].phase = "pending" /\ intent[t].op = "log_out_user"
    /\ \A r \in Threads : intent[r].phase = "sending"
           => intent[t].name \notin intent[r].to \ intent[r].reached
    /\ Progress(t, "idle", {}, intent[t].reached, intent[t].name \in Members)
    /\ members' = [members EXCEPT ![intent[t].name] = None]

Next == \E t \in Threads :
            \/ Request(t, "get_logged_in_users", None, None)
            \/ \E u \in Usernames :
                   \/ \E op \in SendRequests \cup {"log_out_user"} :
                          Request(t, op, u, None)
                   \/ \E s \in Sockets : Request(t, "add_new_user", u, s)
            \/ BeginSend(t) \/ EndSend(t) \/ List(t) \/ Add(t) \/ Remove(t)
            \/ \E u \in Usernames, sent \in BOOLEAN : Deliver(t, u, sent)

Spec == Init /\ [][Next]_dvars
===============================================================================
