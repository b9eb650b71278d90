# Verification of the multi-client chat system

TLA+ models of the programs under `src/src/`, checked with TLC on small
instances, and proofs checked with TLAPS.  `PROJECT.json` lists the runs, the
source lines behind every definition, the hazards the properties are aimed at
and the disagreements found between the code and what the repository says of it.

## 1. The system

| Part | State | Operations | Talks to |
| --- | --- | --- | --- |
| Discovery server, `discovery_server.c` | `registry[]` under `reg_lock`; `running` | register, discover, validate; a detached thread per connection, one request each; SIGINT/SIGTERM | chat clients (register), chat servers (`validate()`) |
| Thread server, `chat_server_thread.c` | `clients[]` under `table_lock`, a `send_lock` per slot, the descriptor table, history files | accept, a detached thread per client that reads requests, routes them and writes to everybody's sockets, clean-up, shutdown | clients, discovery server |
| Fork server, `chat_server_fork.c` | `clients[]` in shared memory, two pipes per client | accept and fork; children bridge socket and pipes; the parent routes; `sigchld_handler()` | clients, discovery server |
| Epoll server, `chat_server_epoll.c` | `clients[]` with a receive and a send buffer each | one event loop, partial reads and writes | clients, discovery server |
| Wire protocol, `protocol.c`, `protocol.h` | none | pack, unpack, `send_message()`, `recv_message()` | everybody |
| Chat client, `chat_client.c` | `running`, `server_fd` | register, log in, a sending and a receiving thread | discovery server, one chat server |
| Benchmark, `benchmark.py` | pending sends, latencies | load and stress tests, plots | the chat servers |

What is hard in it:

* **threads** share `clients[]`; several reads of it are outside `table_lock`,
  and slot numbers and descriptors are used after the lock that made them
  meaningful has been released;
* **descriptors** are reused by the kernel the moment they are closed;
* **a signal handler** changes the client table of the fork server between any
  two statements of the parent;
* **pipes** are bounded and written to with blocking writes in both directions;
* **processes die** at any time, before or after their last messages are read;
* **edge triggering** reports a change once; what the loop leaves behind then it
  may never look at again;
* **bytes** come in any portions, and buffers are full at any of them;
* **two threads and a signal handler** of the client share one socket;
* **an RPC** to the discovery server lies between the search for a user's name
  and its entry in the table.

What makes each part correct:

* chat servers: one session per name; a slot belongs to one client from accept
  to clean-up; broadcasts reach all who stay, private messages only their
  receiver; a departure is announced once; writes to a client do not mix; every
  request is answered; slots of dead clients come back;
* discovery server: a map from names to accounts on which concurrent calls are
  atomic, and every call is answered;
* framing and buffers: the messages received are those sent, in order.

## 2. The modules

| Module | What it is |
| --- | --- |
| `ChatProtocol` | the requests and answers of the chat servers |
| `ThreadServer` | `chat_server_thread.c` |
| `ForkServer` | `chat_server_fork.c` |
| `EpollServer` | `chat_server_epoll.c` |
| `DiscoveryProtocol` | the requests and answers of the discovery server |
| `Registry` | the abstract specification of the discovery server |
| `DiscoveryServer` | `discovery_server.c`, with the refinement mapping to `Registry` |
| `Channel` | the abstract specification of one direction of a connection |
| `Wire` | `protocol.c`, with the refinement mapping to `Channel` |
| `ChatClient` | `chat_client.c` and the servers as far as it can see them |
| `ThreadServerProofs`, `ForkServerProofs`, `EpollServerProofs`, `DiscoveryServerProofs`, `WireProofs`, `ChatClientProofs` | the theorems about each of these modules and their proofs |
| `MCThreadServer`, `MCForkServer`, `MCEpollServer`, `MCDiscoveryServer`, `MCWire` | instances for TLC, with one `.cfg` per run; `ChatClient`'s constants are numbers, and it is run as it is |

Definitions have the names of the functions they model; an action that is part
of a function is named after it (`main_place` is the part of `main()` that
fills a slot, `route_login` the start of the `MSG_LOGIN` case of `route()`).
Definitions marked "Mutant" are wrong variants of the one that follows.  They
are in no specification; each stands for a plausible mistake in the code that
the property named with it in `PROJECT.json` would catch.

The modules build on each other in two ways.  `Wire` shows that whole messages
arrive in order, and the other models whose sockets carry whole messages rely
on it; only `EpollServer`, which does not call `recv_message()`, has sockets
that carry parts.  The server in `ChatClient` does to one connection what the
servers can do to it, as far as the client can tell: it is written by hand, not
an instance of their models, and keeps no table.

### ThreadServer

An action is a stretch of code between two points at which other threads can be
observed: acquiring a mutex, reading the shared table without one, a blocking
read or write, the RPC.  A thread is named by the connection it serves.

* `owner[s]` is `clients[s].in_use` together with the connection it was set for
  (the code does not record that; only properties read it).  `active`,
  `username`, `status`, `sockfd`, `sendLock` are the other fields.
* `file` is the process's descriptor table.  `accept()` takes the lowest free
  descriptor (`LowestFd`, external).  A blocked `read()` keeps its file
  (`rfile`) when the descriptor is closed; a `write()` goes to whatever the
  descriptor means by then (`wfd`).
* `main_place`, `main_full`, `main_spawn`, `main_spawn_fails` are the accept
  loop; `main_shutdown`, `main_close_slot`, `main_exit` the end of `main()`.
  Locking a destroyed mutex is undefined in C; the model takes what glibc does
  (a mutex in use is not destroyed, a destroyed one is not acquired).
* `client_thread_*`, `route_*`, `scan`, `scan_ends`, `slot_send_*` are the rest.
  `validate()` holds `table_lock` and ends either way.
* `owed`, `joined`, `announced` are history variables: no guard reads them.

### ForkServer

The parent's program counter is `at`.  `sigchld_handler` may run between any
two of the parent's steps, once per zombie batch as `waitpid()` in a loop does.
A child, its pid and its pipes are named by the connection: the parent never
closes its pipe ends, so descriptor numbers of pipes are not reused.
`inherits` are the ends of other children's pipes a child gets at the fork; they
decide when end of file is seen after the parent has gone.  `due` is the second
descriptor `select()` reported to a child.  `signal()` on Linux restarts
interrupted reads, so `EINTR` only repeats `select()`.

### EpollServer

One thread, so an action is what the loop does between two moments at which a
client or the kernel can make a difference: a `read()` loop up to `EAGAIN`, the
processing of one message with all its `slot_send()`s, a flush, one `accept()`.

* Bytes are counted in units: the header is one unit, the payload, if there is
  one, another.  Each unit carries the message it belongs to and its position,
  so a buffer shows whether framing is intact.
* `sock[c]` is the kernel's side of a connection and the client behind it:
  what is on its way, received (`rx`), to be read by the client (`tx`, at most
  `SockCap`), and the part of a message the client has read.
* `ready` is epoll's ready list, `batch` what `epoll_wait()` returned and is not
  handled.  A descriptor enters `ready` when something changes at its socket
  (an edge), and when `EPOLL_CTL_ADD` or `EPOLL_CTL_MOD` finds something to
  report; being reported removes it.  `batch` is a set: epoll does not promise
  an order.
* The descriptor of a slot is named by the slot; both are given back together
  and the lowest is taken.  An event's `for` is a history variable, the
  connection it was reported for; `missed` another, that `accept()` has failed
  since the last connection came.
* `rbuf_len` is kept apart from the contents of `rbuf`: the code subtracts from
  it after `MSG_LOGOUT` has cleared the slot.

### DiscoveryServer and Registry

`Registry` performs a call at one instant between arrival and answer.
`DiscoveryServer` fills a record in four steps under `reg_lock`.  The refinement
mapping counts a registration as done when its thread takes the lock
(`AccountOf`, `Stage`); nobody can see the record before it is whole, and TLC
checks and `ImplementsRegistry` proves that this is so (`Refines`).  `Word` is the conversion `%63s` of
`MSG_VALIDATE`, which stops at a blank where `%63[^:]` of `MSG_REGISTER` does
not.

### Wire and Channel

`Channel` is a queue: messages are received as they were sent and in that
order, and all of them unless the connection is cut.  `Wire` has the bytes: `make_message()` cuts
names and payloads to size, `pack_message()` and `unpack_message()` are the
layout with its NUL padding and big-endian numbers, `write()` and `read()`
transfer any part of what they are asked for, and an end may die at any byte.
The mapping takes the variables with the same names; a message counts as
received when `recv_message()` returns it.  A byte is a number below `Base`, so
that lengths and times that need two bytes are small enough to check.  `Weight`
is what `write_u64_be()` divides by when it shifts: the powers of `Base`, as a
recursive function because the provers know nothing of `^`.

### ChatClient

The main thread (`main`), `receiver_thread()` (`receiver`) and `sig_handler()`,
which runs on the main thread between any two of its steps.  `signal()` sets
`SA_RESTART`, so a signal does not end `fgets()`.  Closing and shutting the
socket down are told apart (`server_fd`): `shutdown()` wakes a blocked `read()`,
`close()` does not.  The server (`server_serves`, `server_note`, `server_ends`,
after `chat_server_thread.c`) may accept or refuse a login; write a message of
another client to the connection, between acceptance and acknowledgement and,
since the thread server's `slot_send()` may use a slot that was given away, even
before the login; leave the connection open upon `MSG_LOGOUT` (as the fork server
does); be silent; or go.

* `said` is a history variable, the last `MSG_LOGIN` or `MSG_LOGOUT` that got
  into the connection.
* `past` is another, what the properties make exceptions for: the end of the
  input (`eof`), a connection the server ended first (`dropped`), a signal before
  `MSG_LOGIN` was sent (`early`), a message of another client before the
  acceptance (`stray`).

## 3. The runs

| Run | Shows |
| --- | --- |
| `thread_all` | `TypeOK`, `UniqueUsers`, `SlotHasItsThread`, `SlotWritesSerialised`, `BroadcastReachesAll`, `DepartureAnnouncedOnce` hold; 3 clients, 2 slots |
| `thread_live` | `Served`: every request is served, with shutdown at any time |
| `thread_close` | refutes `ClosesOwnSocket` |
| `fork_all` | `TypeOK`, `LoginAckFirst`, `RecvNeverBlocks`; 3 clients, 2 slots, pipes of one message, failing `fopen()` |
| `fork_live` | `UniqueUsers`, `DeadChildForgotten`, `ChildrenExit`, `RoutingEnds`; 2 clients of one user, pipes of one message, failing `pipe()` and `fork()`, shutdown |
| `fork_ghost` | refutes `NoGhostUser` |
| `epoll_all` | `TypeOK`, `WellFramed`, `NoLostEdge`, `EventsFresh`; 3 clients, 2 slots, a client that dies, failing `accept()`, shutdown |
| `epoll_live` | `NothingLeftInRbuf`, `RbufLenExact`, `SendBufDrains`; 2 clients, every kind of request |
| `epoll_eof` | refutes `AssembledIsProcessed` |
| `discovery_all` | `TypeOK`, `RecordsUnique`, `Refines`, `Answered` |
| `wire` | `TypeOK`, `Refines` (of `Channel`), `RecvEnds` |
| `client` | `TypeOK`, `ReceiverOnOpenSocket`, `InputAfterLogin`, `PoliteExit`, `Ends` |

### What the refutations show

* `thread_close`: a thread clears `in_use` (line 215), may then spend long in
  `bcast_note()`, and closes `clients[s].sockfd` (line 223) which by then belongs
  to the next client.  The descriptor number may then be given to yet another
  connection while two slots refer to it, so that threads write to one socket
  under two `send_lock`s.
* `fork_ghost`: the child dies while the parent is in `validate()`; the handler
  clears the slot, the login then makes it active.  No child, no pid: the name
  stays taken, and the slot is lost for good, since `find_free_slot()` wants it
  inactive.
* `epoll_eof`: `handle_read()` reads until `EAGAIN` before it processes
  anything.  If a client sends a message and closes before the loop has read it,
  `read()` returns 0 after the message, and the session ends with the message in
  `rbuf`.  The same happens when `rbuf` is full of whole messages.

Visible in the models, without a run of their own:

* thread server: the slot found under `table_lock` (line 142) is used at line
  150; if its user has left and another client has it, that client gets the
  private message.  A slot is active before its login is acknowledged (line
  109): a broadcast in between is the first thing the client reads, which
  `login_to_chat()` takes for the answer.  There it is not misled, for it was
  accepted all the same; but a message sent for the slot's former client (lines
  54, 132, 150) may come before the login is looked at, and a client that is
  then refused goes on as if it were logged in.  `InputAfterLogin` shows that
  this is the only way it can;
* fork server: if the handler runs before the parent has read a child's last
  messages, the pipe is no longer looked at and the LOGOUT that should tell the
  others is lost (line 267).  Parent and child can block writing to each other's
  full pipes (line 54), for ever, since neither reads before its write is done
  (`Stuck`): in `fork_live` this happens, when a client that has not been
  delivered its last message sends another and leaves while the parent writes to
  its child.  The parent then serves nobody.  `RoutingEnds` shows that nothing
  else stops it, and `DeadChildForgotten` makes the same exception.  The parent
  never closes the pipe ends of clients that have gone (`held` only grows);
* epoll server: a message that does not fit in a send buffer is dropped whole and
  its sender told that it was delivered; a connection left in the backlog by a
  failed `accept()` waits for the next one (`missed` in `NoLostEdge`);
* discovery server: a password with a blank registers but never validates
  (`Word`);
* client: a signal between `/quit`'s `MSG_LOGOUT` and `running = 0` sends
  `MSG_LOGOUT` twice.  A signal between `tcp_connect()` and `MSG_LOGIN` (lines 69
  to 74) sends `MSG_LOGOUT` first; the fork server keeps the connection, accepts
  the login, and the client leaves without another `MSG_LOGOUT`.

### Bounds

* Connections 2 or 3, slots 2: with two slots every relation between slots
  (own, other, first, last) occurs, and a third connection finds the server full
  or reuses a slot.
* `Budget` caps the requests of a client.  Two from one client suffice for login
  then broadcast, private message, logout or second login.  A client with none
  connects and leaves, which is all it takes to reuse a slot.
* `MaxFd` = number of connections, so `accept()` never fails for want of
  descriptors.
* `Kinds` chooses who sends what; the passing runs of each server have every kind
  of request between them.
* Two names: enough for two users and for two clients of one user; one in
  `fork_live`, where the clients are rivals and need not log in to have a
  `MSG_LOGOUT` announced to the other.
* `PipeCap` 1 in `fork_all` and `fork_live`, so that pipes are full all the time
  and parent and child block on each other.  A client needs two requests for
  that, one answered and one left in the pipe, and the `MSG_LOGOUT` its child
  writes when it leaves.
* `RbufSize` 4, `SbufSize` 3, `SockCap` 1: `rbuf` holds the two messages a client
  may send at once, or is full of them; the send buffer can hold a message and a
  half, and every message of two units is cut by the socket.
* `Wire`: `Base` 3, `NameLen` 3, `TimeLen` 2, `MaxPayload` 4, three messages
  (`Edges`) with names and payloads that are empty, just fit and do not;
  `NetCap` 6 is less than a header, so that every message is cut.
* `ChatClient`: two lines, two notes, two signals: a signal before and after
  another, a note before and after the acceptance.
* Discovery: three calls, three users, two records, so that the registry can be
  full; two hosts, so that a mixture of two registrations can be told.

Deadlock is not checked: the system may stop when all clients have sent what
they have to send, or a program has ended.

### Fairness

Weak fairness for the main thread, parent or event loop, for every client
thread or child and for the delivery of SIGCHLD: the kernel schedules what can
run.  A blocked mutex, pipe or socket disables its action.  Nothing is assumed
of clients' connecting, sending or leaving.  It is assumed that `validate()`
returns and that clients read what is written to them.  In the thread and fork
servers writes to sockets do not block; a client that stops reading does block
a thread inside `send_lock`, which these two models leave out.  In the epoll
server they are non-blocking, and the model has the full socket.

`Wire`: the loops of `send_message()` and `recv_message()` go on while `write()`
and `read()` let them.  `ChatClient`: both threads run, and the user types a line
or ends the input at last, since nothing else ends `fgets()`; nothing is assumed
of the server, which may be silent for ever.

## 4. The proofs

Every invariant that a passing run checks is also a theorem, for any sets of
connections and names, any numbers of slots, records, descriptors and requests,
any sizes of pipes and buffers and any faults.  So are the two refinements, the
second without its fairness.

| Module | Theorem | Property |
| --- | --- | --- |
| `ThreadServerProofs` | `TypeCorrect` | `TypeOK` |
| | `NamesUnique` | `UniqueUsers` |
| | `SlotsOwned` | `SlotHasItsThread` |
| | `SlotSendExcludes` | `SlotWritesSerialised` |
| | `BroadcastComplete` | `BroadcastReachesAll` |
| | `DepartureOnce` | `DepartureAnnouncedOnce` |
| `ForkServerProofs` | `ForkTyped` | `TypeOK` |
| | `ForkNamesUnique` | `UniqueUsers` |
| | `AnswerFirst` | `LoginAckFirst` |
| | `ParentNeverBlocks` | `RecvNeverBlocks` |
| `EpollServerProofs` | `EpollTyped` | `TypeOK` |
| | `NoStaleEvents` | `EventsFresh` |
| | `RbufLenKept` | `RbufLenExact` |
| | `RbufServed` | `NothingLeftInRbuf` |
| | `EdgesKept` | `NoLostEdge` |
| | `FramingKept` | `WellFramed` |
| `DiscoveryServerProofs` | `TypeCorrect` | `TypeOK` |
| | `NoDuplicateRecords` | `RecordsUnique` |
| | `ImplementsRegistry` | `Refines`, the refinement of `Registry` |
| `WireProofs` | `WireTyped` | `TypeOK` |
| | `ChannelImplemented` | `Ch!Safe`, the safety part of the refinement of `Channel` |
| `ChatClientProofs` | `ClientTyped` | `TypeOK` |
| | `ReceiverSafe` | `ReceiverOnOpenSocket` |
| | `LoggedInFirst` | `InputAfterLogin` |
| | `LeavesPolitely` | `PoliteExit` |

The assumptions are the named `ASSUME`s of the modules the theorems are about and
of those they extend; TLC evaluates them on every run.  They say that the
numbers are numbers and the sets disjoint where the code tells their members
apart, and what the code's constants satisfy: a buffer holds at least a message
(`EpollAssumption`), a payload's length fits its two bytes (`WireAssumption`).

Few of these properties are inductive.  Each module defines an `IInv` that is,
with one lemma per part or per action saying that a step keeps it.  Those of the
servers and of the client were checked by TLC before they were proved.

**ThreadServer.**  `IInv` adds:

* `LoginInv`: a thread between the search for a name and its entry holds
  `table_lock` and the name is still free (for `UniqueUsers`);
* `OutInv`: a thread has something to send only in `slot_send()` and the sending
  loops, so that the note of a clean-up tells whether the slot was given back;
* `PlaceInv`: the slot `main` has filled and not yet handed to a thread has the
  new connection as owner and no session (for `SlotHasItsThread`: two threads
  before their clean-up cannot have one slot, since `owner` is a function);
* `SendInv`: a thread in `send_message()` holds the slot's `send_lock` unless it
  was destroyed (for `SlotWritesSerialised`);
* `LoopInv`: the slots a loop still owes are active and not behind its index (for
  `BroadcastReachesAll`);
* `DepartInv`: how often a departure was announced follows from where the thread
  is and whether its session is still open (for `DepartureAnnouncedOnce`).

**ForkServer.**  There is no lock, and the handler may run anywhere; the argument
is that it only removes.

* `ConnInv`, `PipesInv`, `RouteInv`: a connection gets its pipes once, no two
  slots have the same, and the slot in hand is the one whose pipe was read;
* `NameInv`: from the search for a name to its entry no other slot can get it,
  since only the parent enters names (for `UniqueUsers`);
* `HeadInv`, `AckInv`: a slot that is active has had its answer, or it is the
  next thing the parent writes, and nothing was in its pipe before (for
  `LoginAckFirst`);
* `ReadyInv`: a pipe that `select()` reported and the loop has not come to is
  readable still: only the parent reads it, and its writer going makes it
  readable too.  A slot that is cleared and filled again in between has new
  pipes, which are not among those reported (for `RecvNeverBlocks`).

**EpollServer.**

* `Shape`, `SlotInv`: what is in a slot that is not in use, and that no two slots
  have one connection.  `rbuf_len` may be negative there: the code subtracts from
  it after the slot was cleared, and `accept()` sets it to 0 again;
* `BatchInv`: a batch has one event for a descriptor, and the slot of an event is
  not given back before the event is handled, since only the event's own handler
  does that (for `EventsFresh`);
* `EdgeInv`: at every point of the loop, and not just when it waits, whatever
  there is to read, to flush or to accept is on the ready list, in the batch, or
  in hand (for `NoLostEdge`).  It needs that `handle_read()` reads until `EAGAIN`,
  that `accept()` is called until it fails, and that the order of reading and
  flushing within one event does not matter;
* `FrameInv`: what the client has read of a message, what its socket holds and
  what `SendBuf` holds are, put together, whole messages (for `WellFramed`).
  `FramedConcat` says that whole messages may be added at the end, `FramedRest`
  that one may be taken off the front; that `slot_send()` does the first and the
  client's reading the second is the rest.  A message is only cut when `SendBuf`
  is empty, and then the rest of it fits.

A step of this server sends to many clients, so its actions are first reduced to
a relation between the state before and after (`Sends`: every slot's stream is as
it was or has a whole message more, or the slot is closed), which the parts of
the invariant use.

**DiscoveryServer.**  `LockInv`: the thread that fills a record holds `reg_lock`;
`FillInv`: the record is the only one that may have the user's name, and has the
fields filled so far; `RecordInv`: every other record is whole or free.  The
refinement goes through `AccountFact`, what the mapping's `CHOOSE` picks: the
account being filled in, or that of the one record with the name.  Taking the
lock for a registration is then `Registry`'s step, the filling changes nothing of
what the mapping shows, and a lookup under the lock sees whole records.

**Wire.**  Two arguments.

* The layout: `Packed` says which byte of a packed message is what, `NameRead`,
  `TimeRead` and `LengthRead` that each field is read back as it was written, and
  `Unpacked` that `unpack_message()` undoes `pack_message()`, whatever the lengths
  of names, timestamp and payload.  `Weight` and the number read are recursive
  functions; that they exist and what they compute is shown by induction, which
  `UpTo` gives for sets of numbers from the well-foundedness of `<`.
* The bytes in transit: `Transit` says that there are positions `pos`, where
  each message ends in the stream of all that was sent, such that what
  `recv_message()` has read, what the sockets hold and, while the connection is
  not cut, what `send_message()` has left are the bytes from `pos[Len(got)]` on.
  Writing and reading only move the border between the three, and a connection
  that breaks loses bytes at the end only.  `InFits` says that `recv_message()`
  does not read into the next message: once it has the header, the length it
  finds there is the one `pack_message()` wrote.  When it returns, it has all
  bytes of the next message and no other, and unpacks what was sent.

**ChatClient.**  `SocketInv` and `ReceiverInv` say in which stretches of `main()`
the descriptor is open and the receiver runs; `LoginInv` that nothing but refusals
is on its way to the client, and no command to the server, before the login is
accepted or a stray message has come.  `LeaveInv` says that whatever makes the
client leave has parted it from the server (`Parted`: `MSG_LOGOUT` was said last,
or there is an exception), also while the `MSG_LOGOUT` is on its way; its last
part, that before `MSG_LOGIN` is sent only an exception can have done so, is what
lets the login be sent without undoing it.

Only model-checked:

* liveness (`Served`, `DeadChildForgotten`, `ChildrenExit`, `RoutingEnds`,
  `SendBufDrains`, `Answered`, `RecvEnds`, `Ends`, and that every message arrives,
  which is the fairness in `Channel!Spec`): the prover has no rules for fairness
  and `ENABLED`;
* the properties that are refuted.

## 5. Left out

* The benchmark and its plots: they measure the system and are no part of it.
* The texts of messages, the lines of history files and their truncation to one
  payload, timestamps, log output.
* In all models but `Wire` and `EpollServer` a message is written or read in one
  step.  `validate()`'s own descriptor is not in the descriptor table; a `pipe()`
  that fails makes neither of the two pipes.
* Failure of `socket()`, `bind()`, `listen()`, `mmap()`, `malloc()` at start, of
  `epoll_wait()` and `epoll_ctl()`.
* A `payload_len` above `MAX_PAYLOAD_LEN` in the epoll server: no program of the
  repository sends one.  `Wire` has the test in `recv_message()`; nothing that
  `pack_message()` makes meets it, and that it does not is part of what
  `Refines` shows.
* `sig_handler()` of the client inside a `send_message()` of the main thread,
  where its own message would be written into the middle of another; null
  pointers as arguments of `make_message()`.
* An abstract chat service that all three servers implement.  They do not: the
  refutations and the list after them name where each of them differs from any
  such service (a message to the wrong client, a session that outlives its
  client, messages that are dropped).

## 6. Plan

Every program of the system has its model and every invariant its proof.  Left
are strengthenings that would need a richer model first: a writer of the thread
and fork servers that blocks on a client that does not read, and the handler of
the client inside a `send_message()`.
