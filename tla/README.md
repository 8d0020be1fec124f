# Models of ProjectMessagingApplication

A TLA+ development beside the chat application: what its C++ server and its Rust
server do when many clients log in, talk, leave and break off at the same time,
how the C++ client gets a message acknowledged and comes to an end, and how
either end finds the frames in a stream of bytes. TLC checks the models on
small instances; TLAPS proves the central results for any number of clients,
messages and packet numbers. File names without a path are those of
`src/cpp/src/server/`, `Client.cpp` is `src/cpp/src/client/Client.cpp`, and
those in `.rs` are in `src/rust/`.

## 1. The system

| Component | State | Operations | Interacts with |
|---|---|---|---|
| `SharedClients` (server, C++) | `client_objects`: username -> `MessagingClient` (here: its socket); `client_objects_lock`, a POSIX read-write lock | `send_to_client`, `send_to_all`, `get_logged_in_users` (readers), `add_new_user`, `log_out_user` (writers) | called by every client thread; sends on other clients' sockets while it holds the lock |
| `Server.cpp` | listening socket; per thread: `client_socket`, `username` | `main` (accept, one detached thread per connection), `login_procedure` | kernel; `SharedClients`; `MessagingClient::client` |
| `MessagingClient` (server, C++) | socket, username, packet number, message layer | `client` (the loop: LOGIN, ERROR, WHO, ACK, MESSAGE, DISCONNECT), `send_error_message`, `send_verification_message` | `SharedClients`, by calls; its peer, by frames |
| `Client.cpp` | `client_messages` (sent, not yet acknowledged) under `messages_mutex`; `is_running`; packet number | `message_receiver`, `message_sender`, `cleanup_on_exit`, `close_thread` | two threads and two signal handlers; the server |
| `MessageLayer` (C++) | a 166-byte header | field setters and getters, checksums, `build_message` | used by server and client |
| `CryptoLayer` (C++) | none | `derive_key_from_password`, `encrypt`, `decrypt` | libsodium; client |
| Rust server | `RwLock<HashMap>` in a mutable static, which the first to ask creates; per thread: connection, username, a header it reuses | `login`, `MessagingClient::client`, `SharedClients` (`get_instance`, `send_to_client`, `send_to_all`, `get_logged_in_users`, `add_user`, `remove_user`) | the same clients, by the same protocol |
| Rust `message_layer` | a header, a body buffer | `read_basic_message`, `write_basic_message`, field setters and getters | used by the Rust server |
| `picosha2.hpp`, unit tests | - | - | vendored; tests of pure functions |

### What is hard about it

* **Interleaving.** Any number of threads run the loop at once; the map is
  read, iterated and changed by all of them; each socket is written to by all of
  them.
* **Blocking under a lock.** `send()` blocks when its peer does not read, and it
  is called under the read lock.
* **Descriptors.** The map stores numbers. After `close()` the kernel gives the
  same number to the next client.
* **Failure.** A peer may close or reset at any point: a read returns 0 or
  fails, a send fails, or raises SIGPIPE.
* **Partial failure.** A login has three effects (map entry, LOGIN answer,
  announcement); a broadcast has one per recipient; each may fail alone.
* **Bytes.** `read()` returns what has arrived, `send()` hands over what fits,
  two threads write to one socket, lengths are 16 bits: the reader can lose the
  boundaries of frames.
* **Panics.** In the Rust server an `unwrap()` or an unknown message type ends the
  thread where it stands, without `remove_user`.
* **The client.** Resending races with acknowledgement, two threads end each
  other by signals, packet numbers wrap.

`PROJECT.json` ("hazards") lists these at the lines where they bite, with the
properties that cover them, or why none does yet.

### What makes each component correct

* `SharedClients`: at most one entry per name; nobody changes the map under a
  reader; every path unlocks; callers cannot tell the locked map from an atomic
  directory.
* Server: a session's entry is its own, open connection for as long as the
  session lasts; no entry outlives its session; messages reach the one they are
  for; every login is answered and every departure completed.
* Message loop: ACK or NACK decides whether a message is passed on; each client
  sees another's messages in order and once; who stays sees all.
* Client: a message is kept until acknowledged, sent again when rejected and not
  otherwise, is on the wire once, and both threads end.
* Rust server: the map and the sessions agree; frames come out on the connection
  they are for; what is passed on was acknowledged; nobody is removed behind a
  call that goes through the map.
* Framing and headers: what is sent is what is read, frame by frame and field by
  field, within 16 bits and 31 characters; where it is not, the ends get into
  step again, and no text is taken for another's.

## 2. The modules

| Module | What it is |
|---|---|
| `ServerBase` | the constants: `Threads`, `Usernames`, `Sockets`, `None` |
| `ClientDirectory` | abstract: the directory `SharedClients` promises, without a lock |
| `SharedClients` | `SharedClients.cpp`: the map, the read-write lock, the call each thread is in |
| `Connections` | external: accept, send, read and close on TCP sockets as the server uses them |
| `ChatServer` | `main`, `login_procedure` and `MessagingClient::client`, composed with the two above |
| `MessageDelivery` | abstract: what the client promises of the messages its user types |
| `ServerLink` | the client's connection, and either server reduced to how it answers one client |
| `Client` | `Client.cpp`: main thread, receiver thread, signal handlers, composed with `ServerLink` |
| `MessageHeader` | what header fields do to names, numbers and lengths, in `MessageLayer.cpp` and `message_header.rs`; sizes in `CryptoLayer.cpp` |
| `FrameChannel` | abstract: a channel of whole frames, as the modules above assume it |
| `Framing` | one direction of a connection on bytes: writers, the kernel's buffer, the read loop of either server or of the client |
| `RustServer` | `main.rs`, `messaging_client.rs` and `shared_clients.rs` on whole frames |
| `MCSharedClients`, `MCChatServer`, `MCClient`, `MCFraming`, `MCRustServer` | instances for TLC |
| `SharedClientsProofs`, `ChatServerProofs`, `ChatRoomProofs`, `ClientProofs`, `MessageHeaderProofs`, `RustServerProofs`, `RustRoomProofs`, `FramingProofs` | theorems |

**SharedClients.** A call goes through the phases *waiting* (for the lock),
*locked*, for `add_new_user` *checked* (looked up, not yet inserted), and back
to *idle* when it unlocks and returns. The loop of a broadcast is one step per
recipient (`SendTo`), because each `send()` may block and other readers run in
between; `visited` holds the users the loop has come to. Whatever the order
in which `unordered_map` iterates, it is one of the orders the model takes.
Errors of the lock functions, upon which the code exits, cannot occur with a
lock that is used as proved here and are left out.

**ClientDirectory** has no lock. Adding, removing and listing happen at one
instant. A send fixes its addressees at one instant and then delivers to each
of them; nobody is removed before their turn has come. `SharedClients`
implements it under a mapping in which the addressees of a send in progress are
read off the *current* map: it works only because the map cannot change under a
reader, and it is what callers rely on.

**Connections.** A descriptor refers to a connection or is free; `accept()`
returns the lowest free one, and fails when there is none or when the waiting
connection has been reset. Connections are named by the thread that serves
them. A frame the kernel accepted is appended to that connection's `outbox`,
the history the delivery properties speak of. `peer` records what the server
has been told: a reset shows once as an error and then as SIGPIPE; after the end
of the stream a send may be accepted or raise SIGPIPE. A send that blocks is a
step that is not taken.

**ChatServer.** `pc[t]` is where thread `t` is; a thread that has entered
`SharedClients` waits until its call is idle. `requests[t]` is what it has read
in `client()`; the position in it stands for the packet number. Each action is
one stretch of code up to the next call of `SharedClients` or of the kernel:

| Action | Code |
|---|---|
| `Accept`, `AcceptFails` | the loop of `main` (Server.cpp:216-228) |
| `BadLogin`, `Login` | `login_procedure` up to `add_new_user` (62-108) |
| `RefuseLogin`, `Greet`, `GreetFails`, `GreetKilled` | its answer and every way the send of it ends (114-156), and the announcement at the top of `client()` |
| `ReadSkipped` ... `ReadDisconnect`, `ReadFails` | one round of the loop of `client()` up to its first call |
| `AnswerWho`, `Forward`, `Report` | what follows when that call has returned |
| `LogOut`, `Close` | Server.cpp:157-162 |
| `InCall`, `Send`, `SendKilled` | the steps inside `SharedClients` |

A request is abstracted to its type, its destination and, for MESSAGE, what its
body turns out to be: *intact*, *damaged* (NACK), *short* (acknowledged and
dropped: the size is looked at after the checksum), or *empty* (acknowledged,
and the session ends as on a lost connection). Everything the loop drops
without an answer is one kind, *skipped*.

**Client.** `spc` is where the main thread is (`message_sender`, then
`cleanup_on_exit`), `rpc` where the receiver is. `client_messages` maps each
packet number to the message stored under it, or to `None`; a message is its
place in the order in which the user typed them. `mutex` is `messages_mutex`,
`client_thread` what the `std::thread` knows of the receiver, `usr1` a pending
SIGUSR1, and `status` how the process ended. A step is a stretch of code up to
the next point where a thread may block or reads what the other one writes.

| Action | Code (Client.cpp) |
|---|---|
| `CreateThread`, `ConnectFails`, `KeyFails`, `LogIn` | `main` from `connect()` on, and the login at the top of `message_sender` |
| `GetLine`, `GetLineStopped`, `SendWho`, `SendExit`, `RequestRejected` | the loop of `message_sender` and its commands without a message |
| `EncryptFails`, `Lock`, `Store`, `NumberInUse`, `SendMessage`, `MessageRejected` | `client_message_client`: encrypt, store under the mutex, send |
| `Interrupt`, `StopRunning`, `Kill`, `KillNobody`, `Join`, `JoinThrows`, `Joined`, `Exit` | `cleanup_on_exit`, called or as the handler of SIGINT |
| `Install`, `CheckRunning`, `Read...`, `GotHeader`, `Misread`, `Return` | the loop of `message_receiver` up to what a header means |
| `Erase`; `Find`, `NotFound`, `Resend`, `ResendFails`, `ResendKilled` | its ACK and NACK branches |
| `CloseThread`, `CloseThreadExits`, `DefaultAction` | SIGUSR1: the handler `close_thread`, or none yet |

Two details of the code decide much. `read_size` is a `size_t`, so that a failed
read passes both tests of its length (`ReadFails`). And the handler of SIGUSR1
does not return: it detaches the thread and calls `exit(0)`, wherever the
receiver was, be it waiting for the mutex.

**ServerLink** is the environment of `Client`: two buffers of `Cap` frames and a
server that handles one frame at a time. Its answers are those of
`MessagingClient.cpp` and `login_procedure`, or, with `server = "rust"`, of
`messaging_client.rs`, which differs in two of them. An ACK and the ERROR that
may follow it are two writes, so two steps, and other frames come in between
(`Acknowledge`, `Report`); until the second the server reads nothing
(`reporting`). `Events` says what else may
happen: frames the client did not ask for, frames a server drops unanswered
(a short or corrupt header), reads that lose the boundary of a frame, the server
hanging up, and resets.

**MessageDelivery** knows no numbers, threads or wire. A message is submitted,
is pending until it is settled, is settled only after the server has taken it,
and is taken once. In `Client` the pending messages are those in
`client_messages`, and the server takes a message when it acknowledges it.

**MessageHeader** has no state. A name is a sequence of non-zero bytes, a field a
function from 1 to `UsernameLen`, a short two bytes of `Byte` values each. The C++
setter cuts a name and ends it; the Rust setter writes over what is there, ends
nothing and fails on a long name, which the code unwraps. `Framing` uses its
lengths and sizes.

**Framing.** A byte is the frame it belongs to and its place in it. Bytes that
have been read are a header when they are exactly those of one frame's header:
that is what a matching sum means, SHA-256 taken as free of collisions. A body
matches its checksum likewise, with what was not read as zeros, for the buffer
was zeroed. `link` says which program is at either end. `HandOver` is what the
kernel takes of one `send()` or `write()`; the rest of the call waits, and
another thread's call may come between, which `mixed` records. The C++ ends read
once and take what they get (`ReadShort`, recorded in `short`, and `ReadWhole`);
the Rust server reads on (`ReadMore`, `ReadExact`). Which headers are followed
by a body is for the reader to say (`HasBody`), and the readers differ: the C++
server looks at the type, the Rust server at the length, the client at the type
again, with ERROR among those that have one. ERROR is what a server sends within
a session, where the Rust server leaves out the text (`Unsent`); a login that is
refused does get its text, and is one of the frames called WHO. `log` is what the reader made of
the frames it recognised, and `got` those of them it acted upon, as a
`FrameChannel` has it. A read that fails, or ends, in the middle of a body is
not a step: the session is over.

**FrameChannel** numbers frames in the order of their first byte and hands them
over in that order; only when it has been upset may it leave some out. It is
what `ChatServer` and `ServerLink` have for a connection.

**RustServer.** `pc[t]` is where thread `t` is, `calls[t]` the frames its handler
has yet to send. Each of `send_to_client`, `send_to_all` and
`get_logged_in_users` takes the read lock and keeps it until it returns: `Lock`,
one `Send` or `SendFails` per recipient, each of which may block, and `Unlock`;
the list of users has no recipient, and is written after it. `add_user` and
`remove_user` are one step each, for the write lock excludes everybody else
while they run. `clients` maps a name to a connection, not to a descriptor: the
`Rc` keeps the socket open. `CreateInstance` is the assignment in `get_instance`;
a second one (`remade`) drops the first map with whoever is in it or goes
through it, which is undefined behaviour; `SendAstray` lets such a call end, and
the properties, but for `LoggedInAreInMap`, speak of executions up to there.
`Faults` says whether connections break, and whether frames arrive on which the
server panics.

| Action | Code |
|---|---|
| `BadLogin`, `Login`, `CreateInstance`, `AddUser` | `login` (main.rs:12-65), `get_instance`, `add_user` |
| `Refuse`, `Greet`, `GreetPanics` | its answer, and the `unwrap()` of a failed one (main.rs:66-92) |
| `ReadSkipped` ... `ReadDisconnect`, `ReadEnds` | one round of the loop of `client()` up to its first call |
| `ReadPanics`, `ReadUnreadable` | a message type, or a recipient, that ends the thread |
| `Lock`, `Send`, `SendFails`, `Unlock` | the three calls under the read lock (shared_clients.rs:28-76) |
| `Leave` | `remove_user` (main.rs:94) |

## 3. The runs

| Run | Instance | What it shows |
|---|---|---|
| `shared_clients` | 3 threads, 2 names, 2 descriptors, any call at any time | lock discipline (`LockHeldInside`), the look-up of `add_new_user` still true at the insert (`CheckedNameStaysFree`), no change under a reader (`FrozenWhileRead`), refinement (`ImplementsDirectory`) |
| `chat_faulty` | 2 clients, every kind of request, closes and resets | types, `SessionOwnsEntry`, `EveryEntryHasASession`, `DirectMessagesReachAddressee`, `ForwardedWasAcked`, `AcceptedIsSettled`, and `UsesSharedClients`: the threads call nothing but its operations |
| `chat_room` | 3 clients in the room, direct messages, broadcasts, departures, resets | `RoomSeesAll`: who stays gets every broadcast, whoever else is lost; `SenderOrder`, `NothingTwice`: one sender's messages arrive in their order, and once |
| `chat_live` | 2 clients, broadcasts, departures, resets, `FairSpec` | `WritersBlockOnSendsOnly`: nothing but a send to a client that does not read keeps a login or a departure waiting; `LoginAnswered`, `DepartureCompletes`, while clients read (`PeersRead`) |
| `client_messages` | 2 packet numbers, 3 messages, buffers of 2, all `Events` | types; `OnePlace`: a number under way is stored and in one place only; `ImplementsDelivery` |
| `client_ends` | either server, 2 packet numbers, 2 messages, buffers of 1, `FairSpec` | `BothThreadsEnd`, with one exception: `Stranded`; and, where the C++ server serves the client (`ServerServes`), `SentUntilTaken`, with one exception: `FacingFullBuffers` |
| `framing` | all four pairs of ends, 2 writers, 3 frames, buffer of 6 bytes | `ImplementsChannel`: the channel of whole frames; `ResumesInStep`, `BodiesAreOwn`, `AcceptedBodies`: what happens where it is upset; and, before it starts, the two theorems about names on all short ones |
| `rust_server` | 3 connections, 3 names, 1 request, broken connections, panics | `EntriesAreServed`, `SessionsHaveEntries`, `FramesComeOutRight`, `PassedOnWasAcked`, `RoomHearsAll`, and `RecipientsStay`: nobody is removed, and no name taken again, behind a call that has still to write to it |
| `chat_orphan`, `chat_pipe`, `client_rust`, `rust_instance` | | the findings, below |

**Bounds of the server's runs, and why they are enough.** Three threads are the
fewest with which a third party changes the map between two steps of one call by
another; two names are the fewest for a sender and an addressee, and fewer names
than threads make threads compete. What comes of descriptors that are used again
by a third connection is left to the theorems, which have no bounds
(`SessionsOwnTheirEntries`, `EntriesHaveSessions`, `DirectReachAddressee`). One
request per client lets every pair of operations overlap. `chat_room` has two
requests in all, of one sender, for order, or of two who broadcast at once, while
the third leaves or is lost, for which it needs no request. `MaxRequests` (of one
client), `MaxInAll` and `Offered` are the only bounds of `ChatServer`. `chat_room`
starts from the room that sequential logins produce (`RoomInit`), since three
interleaved logins followed by broadcasts are too many states. Threads and names are symmetric; descriptors
are numbers and are not. The liveness runs use no symmetry.

**Bounds of `rust_server`.** Three connections are the fewest for a broadcast that
fails on one recipient with another still to come, or for a name to be lost and
taken while a third sends. The notices on entering and leaving are broadcasts of
every thread besides the one request, which is of any kind; two of them race with
every login and departure. Two connections and no faults suffice for
`rust_instance`. All seven invariants are proved without bounds.

**Bounds of `framing`.** The constants are scaled down and keep their order: a
header of 2 bytes (166), bytes of 2 values (256), so that 16-bit lengths end at 3
(65535), encryption adding 1 (41). Texts of 0, 3 and 4 make encrypted bodies of
1, which fits, and of 4 and 5, which a header announces as 0 and 1. A buffer of
6 holds one message or a header with half a body, so that calls wait and mix, and
reads are short, at every place. Three frames are the fewest for one to be
spoilt, one to be swallowed and one to be found again.

**Bounds of the client's runs.** `Wrap = 2` instead of 65536 makes packet numbers
come round after two frames, while earlier ones still wait for their answers:
LOGIN has 0, the first message 1, the second 0 again, the third 1. `MaxMessages`
bounds what the user types; three messages use one number twice and run into
one in use. `Cap` is the size of both socket buffers in frames; with 2 an ACK
and the ERROR after it fit, frames of both kinds queue behind each other, and
both buffers still fill up. In
`client_ends` buffers of 1 fill up both ways at once. `Wrap`, `MaxMessages` and
`Cap` are the only bounds.
Nothing in the model depends on 65536, and the theorems hold for any.

**Deadlock** is checked in every run. The server's model rests only in `Done`:
the process has ended, or every thread waits for its client. The client's rests
only when the process has ended; in particular SIGINT can always get it out of
a blocked call. `RustServer` rests in `Done`, when every thread waits for its
client or has ended, by a panic too; `Framing` when all is written and read, or
the client has taken a read of nothing for the end.

**Fairness of the server.** The scheduler runs a thread that can run: `FairSpec` is
weak fairness of every `Silent(t)`, the steps that wait at most for the lock.
Nothing in the server makes a client read: one that does not keeps a sender under
the read lock, for which `add_new_user` and `log_out_user` wait.
`WritersBlockOnSendsOnly` says that this is all they ever wait for: one and the
same thread is then in the middle of a send for ever; threads do not wait for each
other in a circle, nor for a lock that nobody holds. `LoginAnswered` and
`DepartureCompletes` need weak fairness of the sends, that is, that peers read
what they are sent, and state it as their premise (`PeersRead`). Clients owe
nothing: they may never send, never leave. Since the number of requests is
bounded, readers of the lock run out; with an endless supply a lock that prefers
readers, as glibc's default does, could starve a writer, and no run speaks of
that.

**Fairness of the client.** `FairSpec`: the scheduler runs both threads (weak
fairness of the steps of each) and delivers a pending signal. The user goes on
typing: that is a real assumption, since nothing wakes the main thread from
`getline` when the receiver has ended. Nothing is assumed of the server, which
need not read, answer or close, and a reset is not owed to anybody; nor is
SIGINT. `SentUntilTaken` needs more, and states it as its premise
(`ServerServes`): strong fairness of the server's answers and of `Acknowledge`
among them, for a copy that is damaged every time is rejected every time; and of
the two sends, which compete for room in one buffer. The premise is in the
property and not in the specification, so that `BothThreadsEnd` does not profit
from it.

No liveness is stated of the Rust server, whose lock is used as that of the C++
server is, nor of `Framing`, where a reader may wait for bytes that were announced
and never sent.

### What the runs refute

Each of these states what a comment says and fails in the model of the code.

1. `EntriesAreLoggedIn` (`chat_orphan`): when the LOGIN answer cannot be sent,
   `login_procedure` closes the socket without `log_out_user`. The name stays
   taken, WHO lists it, and messages to it go to whoever gets the descriptor.
   `EveryEntryHasASession` shows that this is the *only* path that leaves an
   entry behind, and `DirectMessagesReachAddressee` that nothing else makes a
   message go astray.
2. `FailedSendReturns` (`chat_pipe`): `send_to_all` is to return false when it was
   not able to send to one of the clients. When that client is gone the send
   raises SIGPIPE, and the server ends in the middle of the broadcast.
3. `NackNamesMessage` (`client_rust`): the Rust server puts the number of its own
   cleared header, 0, into every NACK. The client has nothing stored under it,
   and its receiver ends.
4. `LoggedInAreInMap` (`rust_instance`): two first logins both find no map and
   each make one. Whoever was added to the first is logged in and in no map.
   `SessionsHaveEntries` shows that nothing else separates the two.

### What else the models showed

* `FacingFullBuffers`: the receiver sends a message again while it holds the
  mutex and does not read. If the server is blocked in a send to this client,
  because the client does not read, both wait until one is ended. It takes full
  buffers both ways, and `SentUntilTaken` shows that it is the only way in which
  a rejected message is not sent until it is taken.
* `Stranded`: the main thread tests `is_running` and then sends. If the receiver
  ends in between while the session goes on, nobody reads, and the send may
  block for good. Only finding 3 makes that happen.
* The receiver is never joined in the usual sense: the handler of SIGUSR1 detaches
  it and ends the process with status 0, whatever `cleanup_on_exit` was called
  with; if `detach()` comes before `join()`, `join()` throws and the process may
  abort (`JoinThrows`). `BothThreadsEnd` needs this very `exit(0)`: a handler that
  returned would leave the receiver waiting for the mutex that `cleanup_on_exit`
  was called with (Client.cpp:622).
* A short read upsets a C++ reader for as long as bytes are under way, and no
  longer: once it has read everything it waits for a header again
  (`ResumesInStep`), because it drops what does not fit. The Rust server loses
  nothing by short reads, but after two mixed frames, or a length that does not
  fit 16 bits, it may wait for a body that never comes in full.
* The Rust server's error messages within a session announce a text that is not sent: the
  client takes the next frame's bytes for it. `BodiesAreOwn` and `ResumesInStep`
  name this (`BodyMissing`) as one of two ways in which a client can be shown
  bytes that are not of the frame it names; the other is mixed frames. The
  client does not look at the data checksum that would tell it.
* A panic of a thread of the Rust server, on a failed LOGIN answer, an unknown
  message type or an unreadable name, leaves its user in the map; nothing else
  does, a failed write in a session in particular (`EntriesAreServed`).
* One connection that is gone spoils a broadcast of the Rust server for everybody
  whom the loop has not come to. `RoomHearsAll` holds while none is but, maybe,
  the sender's: the message is passed on even if its ACK cannot be written.
* A body that lost its last bytes is acknowledged and dropped when those are zeros
  (`AcceptedBodies`); nothing else is acknowledged unread.
* A registered user whose connection was reset is reported to the sender as one
  that does not exist: `send_to_client` returns FALSE for both.
* SIGINT before the receiver exists makes `cleanup_on_exit` signal a thread
  handle of 0 (`KillNobody`; a crash in the model).

## 4. The proofs

The bounds of the runs play no part. The theorems about the server hold for any
`Threads`, `Usernames` and `Sockets` that satisfy `ServerAssumption` (descriptors
are integers; `None` is none of them, nor, by `BodyAssumption`, what a body can
be), any `Offered` among the requests, any `MaxRequests` and `MaxInAll`; those
about the client for any `Wrap`, `MaxMessages`, `Cap` and `Events` that satisfy
`LinkAssumption`, `EventsAssumption` and `MutexAssumption`. `NumbersInOnePlace`
and `ClientDelivers` assume `Servers \subseteq {"cpp"}`: with the Rust server
`OnePlace` is false, by finding 3. Those about headers hold for any
`HeaderAssumption` admits, in particular 32 and 256; those about bytes add any
`Writers`, `HeaderSize`, `Texts`, `Buffer` and `MaxFrames` under
`FramingAssumption`, in particular 166 bytes of header; those about the Rust server
for any `Threads`, `Usernames`, `Faults` and `MaxRequests` under `RustAssumption`.

* `SCTypes`, `LockDiscipline`, `CheckedNamesStayFree`, `MapFrozenWhileRead`. The inductive invariant `SCInv` is the
  three checked invariants and `CallShape`: only `add_new_user` is ever
  *checked*, and only sends begin with a result of TRUE. `LockHeldInside` ties
  the lock to the phases, so a thread that changes the map is alone inside, and
  a look-up stays true until the insert.
* `SharedClientsIsDirectory`. One lemma per kind of step. Taking the read lock
  for a send maps to `BeginSend`, each `SendTo` to `Deliver`, the unlock to
  `EndSend`, the insert to `Add`, the erase to `Remove`; waiting for the lock,
  the other locks and the look-up are stutters. The intents of the threads that
  do not move could only change through the map, and it does not change while
  anyone is sending (`OthersIntents`).
* `ServerTypes`, `SessionsOwnTheirEntries`, `ServerUsesSharedClients`,
  `ServerSeesDirectory`. `ServerInv` adds to `SCInv` and the types, per thread:
  which call it can be in, given where it is, with its own name and socket
  (`InStep`: without it a call could insert or erase another's entry); that a
  live thread's descriptor refers to its own connection (`OwnsSocket`: so two
  sessions never share a descriptor); and that a session's name maps to its
  descriptor (`OwnsEntry`). Another's `add_new_user` finds the name taken, by
  `CheckedNameStaysFree`; another's `log_out_user` erases its own name, which is
  a different one because its descriptor is; `close` comes after `log_out_user`.
* `EntriesHaveSessions`. Inductive with `ServerInv`: an entry appears by its own
  session's insert, the session of an entry goes on to the erase of that entry or
  ends in the failed LOGIN answer (`SessionsLast`), and no erase hits another's
  name.
* `DirectReachAddressee`. `DirectInv` adds to it that every entry is under the
  name its thread logged in with (`NamedByLogin`), and that a direct message sent
  so far came out at that name (`SendsToName`); a step that sends finds the
  connection behind the descriptor in the map by `OwnsSocket`, unless the entry
  is abandoned.
* `ForwardsWhatItAcked`, `AcceptedSettled`. What a thread has sent of its last
  request, and must still send, can be read off its place, that request and the
  call it is in (`FlowInv`); what a call under way has done, off `visited`. A
  request becomes handled in one of three ways only: it is skipped, `Report` finds
  it delivered, or its call returns (`NowHandled`).
* `RoomIsTold`. `RoomInv` adds that a client in the room is in the map until it
  erases its entry itself (`Listed`), so that a broadcast cannot return without
  having come to it, and that what it came to has been sent (`ToldAll`).
* `SendersInOrder`, `NothingSentTwice`. The number of every frame sent is bounded
  by the requests read (`FlowInv`), so that no frame comes after a later one
  (`Ordered`); this needs nothing of the map. That none comes twice
  needs `Fresh`, a frame that a thread has yet to send is not among those already
  sent to that connection, and `Unnamed`, nothing is sent to a connection that
  has no name yet: both hold as long as no entry is abandoned, behind which a
  descriptor may be somebody else's.

* `ClientTypes`. The inductive invariant adds to the types what a thread knows
  where it is: that the main thread may store another message, or has one to
  send, that the receiver holds an answer's number, and that whoever is between
  lock and unlock holds the mutex (`SenderPlace`, `ReceiverPlace`).
* `NumbersInOnePlace`. `OnePlace` is inductive with the types. Most steps only
  take frames out of a buffer or add others, so that whatever is left of a number
  is an old frame, moved up by at most one place (`Undisturbed`, `Plain`). Six
  steps move a number: storing, sending and resending it, the server's answer,
  reading and erasing it. Each finds it in one place, by `OnePlace`, and puts it
  in another. That a free number is not under way is what makes it safe to
  store the next message under it.
* `ClientDelivers`. `DeliveryInv` adds that messages are stored once and that
  what is under way of a message tells whether the server has it: a copy or a NACK
  that it has not, an ACK that it has (`TakenAsDue`). Storing maps to `Submit`,
  the server's acknowledgement to `Take`, erasing to `Settle`; every other step
  at most hands the message on (`Handover`) and is a stutter.

* `AllNamesKeptApart`, `AllNamesReturnUnchanged`, `ShortLengthsAreAnnounced`. What
  is read from a field is determined by its first zero (`NameLengthIs`), so that
  writing and reading is cutting (`ReadIsCut`).
* `RustTypes`. Types, and that a thread beyond its login has a name and one that
  sends has something to send (`Placed`).
* `RustEntriesServed`, `RustSessionsListed`. `ServedInv` is the two
  properties, that the readers of the lock are the threads inside a call
  (`LockHeld`), and that nobody is past `get_instance` before there is a map:
  so the first assignment of it throws nobody out.
* `RustFramesComeOutRight`, `RustPassedOnWasAcked`. `FramesInv` says what a handler
  has yet to send, given the request it is at (`Shape`: a MESSAGE is left alone
  only behind an ACK that is out, or a broken connection), and of every frame sent
  that it is for the connection it came out on (`RightFor`) and that its request
  justifies it (`GoodFrame`). It needs `ServedInv`: the ACK goes to the sender
  because the sender's name leads to its own connection.
* `RustRoomHearsAll`. `HearsInv` adds the broadcast in progress: whoever is in the
  room has the message or is among those the loop has still to come to; `ToInv`
  that these are in the map. Nobody enters the room meanwhile, since the read lock
  is held (`LockHeld`), and nobody who saw `entered` entered later. A write that
  fails while only the sender is lost is one to the sender itself, so none of a
  broadcast.
* `RustRecipientsStay`. From `ToInv`, and the sessions behind the entries from
  `EntriesAreServed`.

* `FramingTypes`, `ReaderResumes`, `BodiesOwn`, `AcceptedBodiesFit`,
  `FramingImplementsChannel`. The steps of `Framing` are first reduced to two
  forms: a writer hands over the first bytes of what it has (`WriterSteps`), a
  reader takes the first bytes of what has come and keeps, finds, misses or
  fills (`ReaderSteps`). `FramingInv` then has three layers. *Whatever happens*,
  every byte on its way is one of a written frame and is followed, some time, by
  the next of its frame (`Genuine`, `OnTheWay`, `Followed`, `BodyComes`), which
  is why a C++ reader that waits for a body cannot have run out of bytes; and
  first bytes come in the order of the frames, later than the last frame acted
  upon (`HeadsInOrder`), which is why none is got twice. *While nothing is
  mixed*, what the reader has yet to see, together with the rest of the one
  call under way, is whole frames in a row (`Unmixed`), for a writer puts a
  frame behind all that is there. *While that is so and bodies are sent*, the
  reader stands where it believes to stand: the client at the body of the header
  it read, the Rust server, if lengths fit, at a header or a body, and a reader
  nothing has upset at the first frame it has not got (`ClientInStep`,
  `RustInStep`, `InStep`). TLC finds each part true on the instance of `framing`,
  in whose configuration they are not listed. Writing a frame's first byte maps to the channel's `Write`, acting
  upon a frame to `Get`; every other step is a stutter, or upsets the channel.

**Only model-checked:** liveness (`WritersBlockOnSendsOnly`, `LoginAnswered`,
`DepartureCompletes`, `BothThreadsEnd`, `SentUntilTaken`), which needs ENABLED and is out of the
prover's reach. Every invariant and action property that a run checks, and every
refinement, is a theorem. No model uses induction over data or a recursive
operator. What the runs refute is shown by TLC's counterexamples.

## 5. Not modelled, and the plan

Not modelled:

* `picosha2.hpp` (vendored): a checksum matches or does not.
* `CryptoLayer` beyond its sizes: stateless calls of libsodium.
* Unit tests: they test pure functions.
* The handler of SIGINT in `Server.cpp`: its `exit()` destroys the static
  `SharedClients` under running threads, which is undefined, and no property
  could say what follows.
* The command line of the client: `message bob` without a text is sent with the
  whole line as its text, although Client.cpp:554-560 means to reject it.
* Console input and output, the set-up of the listening sockets, and an error of
  `accept()` in `main.rs`, which ends the process.

What could still be added: a starving writer under a read-write lock that prefers
readers, which needs an unbounded supply of requests and hence a model without
histories; the composition of `Client` with the byte stream, in place of the
event `Misread` of `ServerLink` (and *skipped* of `ChatServer`), for which the
product of the two state spaces is too large for TLC: `ImplementsChannel` is what
connects them, in that a channel that is not upset is theirs, and one that is
loses frames, as those events do.
