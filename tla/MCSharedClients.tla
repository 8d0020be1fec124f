--------------------------- MODULE MCSharedClients ---------------------------
(* SharedClients under every pattern of calls, for TLC. *)
EXTENDS SharedClients, TLC

\* Threads and names are interchangeable; sockets are numbers and are not.
Symmetry == Permutations(Threads) \cup Permutations(Usernames)
==============================================================================
