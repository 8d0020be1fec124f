----------------------------- MODULE FrameChannel -----------------------------
(***************************************************************************)
(* One direction of a connection as ChatServer and ServerLink see it: whole *)
(* frames, numbered in the order they are written, which the other end gets *)
(* in that order, each at most once.  Only a channel that has been upset    *)
(* may leave frames out.                                                    *)
(***************************************************************************)
EXTENDS Integers, Sequences

VARIABLES written,    \* number of frames written
          got,        \* the frames the other end got
          upset       \* frames may be lost

cvars == <<written, got, upset>>

Init == written = 0 /\ got = <<>> /\ upset = FALSE

\* Whether the channel is upset is up to the writers and the kernel.
Upset == upset' \in BOOLEAN /\ (upset => upset')

Write == written' = written + 1 /\ Upset /\ UNCHANGED got

Last == IF got = <<>> THEN 0 ELSE got[Len(got)]

Get(i) == /\ i > Last /\ i <= written
          /\ i = Last + 1 \/ upset
          /\ got' = Append(got, i)
          /\ UNCHANGED <<written, upset>>

Next == Write \/ (\E i \in 1..written : Get(i)) \/ (Upset /\ UNCHANGED <<written, got>>)

Spec == Init /\ [][Next]_cvars
===============================================================================
