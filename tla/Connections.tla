------------------------------ MODULE Connections ------------------------------
(***************************************************************************)
(* The sockets of the server process, as the code in src/ uses them: POSIX *)
(* accept, send, read and close on blocking TCP sockets.  External: none   *)
(* of this is code of the repository.                                      *)
(*                                                                         *)
(* What happens to a peer shows only in what a send or a read returns, so  *)
(* peer records what the server has been told: nothing yet ("open"), the   *)
(* end of the stream ("closed"), or an error, after which the connection   *)
(* is "broken".  A send to a connection that is gone is accepted by the    *)
(* kernel until the RST arrives; the pending RST is reported once, as      *)
(* ECONNRESET; from then on, and without ECONNRESET when a FIN came before *)
(* the RST, a send raises SIGPIPE, for which main() sets no handler: the   *)
(* process ends.  A send to a peer that does not read blocks: the step is  *)
(* just not taken.                                                         *)
(***************************************************************************)
EXTENDS ServerBase, Sequences

CONSTANT PeerFaults    \* what peers do besides reading: "close", "reset"

VARIABLES fdtable,     \* socket -> the connection it refers to, None if free
          peer,        \* connection -> what the server knows of its peer
          outbox,      \* connection -> frames the kernel accepted for it
          server_up    \* the server process is running

connvars == <<fdtable, peer, outbox, server_up>>

ConnInit == /\ fdtable = [s \in Sockets |-> None]
            /\ peer = [t \in Threads |-> "open"]
            /\ outbox = [t \in Threads |-> <<>>]
            /\ server_up = TRUE

Free(s) == fdtable[s] = None

\* accept() returns the lowest free descriptor ...
AcceptOn(s, t) == /\ Free(s) /\ \A r \in Sockets : Free(r) => s <= r
                  /\ fdtable' = [fdtable EXCEPT ![s] = t]
                  /\ UNCHANGED <<peer, outbox, server_up>>

\* ... and fails when there is none, or when the connection it was to return
\* has been reset: accept() passes pending errors of the connection on.
AcceptErrs == (\A s \in Sockets : ~Free(s)) \/ "reset" \in PeerFaults

CloseSocket(s) == /\ fdtable' = [fdtable EXCEPT ![s] = None]
                  /\ UNCHANGED <<peer, outbox, server_up>>

ServerStops == server_up' = FALSE /\ UNCHANGED <<fdtable, peer, outbox>>

\* send(s, frame, 0) takes the whole frame.
Accepted(s, frame) ==
    /\ ~Free(s) /\ peer[fdtable[s]] # "broken"
    /\ outbox' = [outbox EXCEPT ![fdtable[s]] = Append(@, frame)]
    /\ UNCHANGED <<fdtable, peer, server_up>>

\* A pending reset of connection t is reported.
ResetSeen(t) == /\ "reset" \in PeerFaults
                /\ peer[t] = "open"
                /\ peer' = [peer EXCEPT ![t] = "broken"]

\* send(s, frame, 0) fails: the descriptor is closed, or a reset.
Rejected(s) == IF Free(s) THEN UNCHANGED connvars
               ELSE ResetSeen(fdtable[s]) /\ UNCHANGED <<fdtable, outbox, server_up>>

\* send(s, frame, 0) raises SIGPIPE.
SigPipe(s) == /\ ~Free(s)
              /\ peer[fdtable[s]] = "broken" \/ "close" \in PeerFaults
              /\ ServerStops

\* read() on connection t returns 0 or fails.
ReadEnds(t) == /\ \/ /\ "close" \in PeerFaults /\ peer[t] = "open"
                     /\ peer' = [peer EXCEPT ![t] = "closed"]
                  \/ ResetSeen(t)
                  \/ peer[t] # "open" /\ UNCHANGED peer
               /\ UNCHANGED <<fdtable, outbox, server_up>>
===============================================================================
