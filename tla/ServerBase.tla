------------------------------ MODULE ServerBase ------------------------------
(***************************************************************************)
(* The constants the modules of the C++ server share.  Threads are the     *)
(* detached login_procedure threads, one per accepted connection, so that  *)
(* a thread also names the connection it serves.  Sockets are the file     *)
(* descriptors accept() can return, numbers because the kernel hands out   *)
(* the lowest one that is free.                                            *)
(***************************************************************************)
EXTENDS Integers

CONSTANTS Threads,     \* connections, and the thread that serves each
          Usernames,   \* the names clients log in with
          Sockets,     \* file descriptors for client connections
          None         \* no thread, no name, no socket

ASSUME ServerAssumption ==
    /\ Sockets \subseteq Int
    /\ None \notin Threads
    /\ None \notin Usernames
    /\ None \notin Sockets
===============================================================================
