---------------------------- MODULE MessageDelivery ----------------------------
(***************************************************************************)
(* What the client promises of the messages its user types, without        *)
(* packet numbers, threads or a wire: a message is remembered from when it *)
(* is submitted until, and no shorter than until, the server has           *)
(* acknowledged it, and the server acknowledges it at most once, however   *)
(* often it had to be sent.  A message may stay pending for good: the      *)
(* server or the network need not answer.                                  *)
(***************************************************************************)
EXTENDS Integers, Sequences

CONSTANT MaxMessages   \* bound: the messages the user types

VARIABLES sent,        \* number of messages submitted; they are 1 .. sent
          pending,     \* those still remembered
          taken        \* those the server acknowledged, in order

dvars == <<sent, pending, taken>>

Init == sent = 0 /\ pending = {} /\ taken = <<>>

Taken == {taken[i] : i \in DOMAIN taken}

Submit == /\ sent < MaxMessages
          /\ sent' = sent + 1
          /\ pending' = pending \cup {sent + 1}
          /\ UNCHANGED taken

Take(m) == /\ m \in pending \ Taken
           /\ taken' = Append(taken, m)
           /\ UNCHANGED <<sent, pending>>

Settle(m) == /\ m \in pending \cap Taken
             /\ pending' = pending \ {m}
             /\ UNCHANGED <<sent, taken>>

Next == Submit \/ \E m \in 1..MaxMessages : Take(m) \/ Settle(m)

Spec == Init /\ [][Next]_dvars
===============================================================================
