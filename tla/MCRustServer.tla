------------------------------ MODULE MCRustServer -----------------------------
(* The Rust server with a few connections, for TLC. *)
EXTENDS RustServer, TLC
CONSTANTS t1, t2, t3, ann, bob, cid
Symmetry == Permutations(Threads) \cup Permutations(Usernames)
===============================================================================
