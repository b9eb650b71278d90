---------------------------- MODULE ThreadServer ----------------------------
(***************************************************************************)
(* chat_server_thread.c: the main thread accepts connections and gives     *)
(* each one a slot of clients[] and a detached pthread; the client threads *)
(* read requests and route them, writing directly to each other's sockets. *)
(*                                                                         *)
(* One action is one stretch of code between two points where another      *)
(* thread can be observed: acquiring a mutex, an unlocked read of the      *)
(* shared table, a blocking read or write, the RPC to the discovery        *)
(* server.  A client thread is named by the connection it was created for. *)
(***************************************************************************)
EXTENDS Naturals, ChatProtocol

CONSTANTS
    MaxClients,   \* MAX_CLIENTS
    MaxFd,        \* bound: descriptors the process can have open
    Budget,       \* bound: requests each client sends
    Faults,       \* what may go wrong: "signal" (SIGINT or SIGTERM arrives),
                  \* "spawn" (pthread_create fails), "fopen" (history file)
    Destroyed     \* a mutex after pthread_mutex_destroy()

ASSUME ConstantsAssumption ==
    /\ MaxClients \in Nat \ {0}
    /\ MaxFd \in Nat
    /\ Budget \in [Conns -> Nat]
    /\ Faults \subseteq {"signal", "spawn", "fopen"}
    /\ Destroyed \notin Conns \cup {Nobody}

Slots == 1..MaxClients
Fds   == 0..MaxFd              \* 0 is what memset leaves in sockfd

VARIABLES
    owner,      \* clients[s].in_use, with the connection it was set for
    active,     \* clients[s].active
    username,   \* clients[s].username
    status,     \* clients[s].status
    sockfd,     \* clients[s].sockfd
    tableLock,  \* holder of table_lock
    sendLock,   \* holder of clients[s].send_lock
    file,       \* the process's descriptor table: descriptor -> connection
    logged,     \* the users whose history/<user>.log has entries
    peer,       \* the client's end of the connection
    budget,     \* requests the client has yet to send
    main,       \* main's frame: pc, the accepted connection and its slot
    pc,         \* where each client thread is
    slot,       \* s of client_thread
    rfile,      \* the connection the blocked read() refers to
    wfd,        \* the descriptor send_message() was called with
    msg,        \* msg of client_thread
    idx,        \* i of the sending loops, t of MSG_PRIVATE
    out,        \* the message being sent
    \* history variables, read by no guard
    owed,       \* active slots the loop of a thread has not written to yet
    joined,     \* the thread's client has logged in
    announced   \* departures the thread has announced

table   == <<owner, active, username, status, sockfd>>
env     == <<peer, budget>>
frame   == <<slot, rfile, wfd, msg, idx, out>>
ghosts  == <<owed, joined, announced>>
locks   == <<tableLock, sendLock>>
vars    == <<table, locks, file, logged, env, main, pc, frame, ghosts>>

-----------------------------------------------------------------------------
(* Helpers *)

InUse(s) == owner[s] # Nobody

\* find_user(u) = s: the first active slot with that name.
find_user(u, s) ==
    /\ active[s] /\ username[s] = u
    /\ \A r \in Slots : active[r] /\ username[r] = u => s <= r

Online(u) == \E s \in Slots : active[s] /\ username[s] = u

\* Mutant of find_free: tests active, which a client not logged in has not set.
find_free_by_active(s) ==
    /\ ~active[s]
    /\ \A r \in Slots : ~active[r] => s <= r

\* find_free() = s: the first slot not in use.
find_free(s) ==
    /\ ~InUse(s)
    /\ \A r \in Slots : ~InUse(r) => s <= r

\* accept() returns the lowest free descriptor.
LowestFd(f) ==
    /\ file[f] = Nobody
    /\ \A g \in 1..MaxFd : file[g] = Nobody => f <= g

\* The slot slot_send() is called with.
Target(c) == IF out[c] \in Reply THEN slot[c] ELSE idx[c]

\* main's frame: where it is, and the connection, slot and descriptor in hand.
MainAt(label, c, s, f) == [pc |-> label, conn |-> c, slot |-> s, fd |-> f]

Goto(c, label) == pc' = [pc EXCEPT ![c] = label]

\* slot_send(s, &resp): the thread goes on to lock its own slot's send_lock.
Answer(c, reply) ==
    /\ Goto(c, "lock")
    /\ out' = [out EXCEPT ![c] = reply]

\* Mutant of StartLoop: the first slot is left out.
StartLoop_at_second(c, note) ==
    /\ Goto(c, "scan")
    /\ out' = [out EXCEPT ![c] = note]
    /\ idx' = [idx EXCEPT ![c] = 2]

\* The loops over clients[] of bcast_note() and of MSG_BROADCAST.
StartLoop(c, note) ==
    /\ Goto(c, "scan")
    /\ out' = [out EXCEPT ![c] = note]
    /\ idx' = [idx EXCEPT ![c] = 1]

\* The slots a loop started now has to reach if they stay active.
Owes(c) == {s \in Slots : s # slot[c] /\ active'[s]}

\* Appends to history/<u>.log; gives up silently when fopen() fails.
save_history(u) ==
    \/ logged' = logged \cup {u}
    \/ "fopen" \in Faults /\ UNCHANGED logged

\* The thread has not given its slot back yet.
BeforeCleanup(c) ==
    /\ pc[c] \notin {"none", "close", "done"}
    /\ out[c] # "disc"

-----------------------------------------------------------------------------
(* The client programs *)

\* The client closes its end, or dies.
ClientLeaves(c) ==
    /\ peer[c] = "open"
    /\ peer' = [peer EXCEPT ![c] = "gone"]
    /\ UNCHANGED <<table, locks, file, logged, budget, main, pc, frame, ghosts>>

-----------------------------------------------------------------------------
(* main() *)

\* select() and accept().
main_accept(c) ==
    /\ main.pc = "select"
    /\ peer[c] = "idle"
    /\ peer' = [peer EXCEPT ![c] = "open"]
    /\ \E f \in 1..MaxFd :
          /\ LowestFd(f)
          /\ file' = [file EXCEPT ![f] = c]
          /\ main' = MainAt("place", c, 1, f)
    /\ UNCHANGED <<table, locks, logged, budget, pc, frame, ghosts>>

\* find_free() and the new slot's fields, under table_lock.
main_place ==
    /\ main.pc = "place"
    /\ tableLock = Nobody
    /\ \E s \in Slots :
          /\ find_free(s)
          /\ owner'    = [owner EXCEPT ![s] = main.conn]
          /\ sockfd'   = [sockfd EXCEPT ![s] = main.fd]
          /\ active'   = [active EXCEPT ![s] = FALSE]
          /\ status'   = [status EXCEPT ![s] = "available"]
          /\ username' = [username EXCEPT ![s] = NoUser]
          /\ main'     = MainAt("spawn", main.conn, s, main.fd)
    /\ UNCHANGED <<locks, file, logged, env, pc, frame, ghosts>>

\* No slot is free: "Server full" is written to the new socket and it is closed.
main_full ==
    /\ main.pc = "place"
    /\ tableLock = Nobody
    /\ \A s \in Slots : InUse(s)
    /\ file' = [file EXCEPT ![main.fd] = Nobody]
    /\ main' = MainAt("select", Nobody, 1, 0)
    /\ UNCHANGED <<table, locks, logged, env, pc, frame, ghosts>>

\* pthread_create() succeeds.
main_spawn ==
    /\ main.pc = "spawn"
    /\ main' = MainAt("select", Nobody, 1, 0)
    /\ Goto(main.conn, "loop")
    /\ slot' = [slot EXCEPT ![main.conn] = main.slot]
    /\ UNCHANGED <<table, locks, file, logged, env, rfile, wfd, msg, idx, out, ghosts>>

\* pthread_create() fails: the slot is given back and the socket closed.
main_spawn_fails ==
    /\ "spawn" \in Faults
    /\ main.pc = "spawn"
    /\ main' = MainAt("select", Nobody, 1, 0)
    /\ owner' = [owner EXCEPT ![main.slot] = Nobody]
    /\ file' = [file EXCEPT ![main.fd] = Nobody]
    /\ UNCHANGED <<active, username, status, sockfd, locks, logged, env, pc,
                   frame, ghosts>>

\* SIGINT or SIGTERM: main leaves its loop.
main_shutdown ==
    /\ "signal" \in Faults
    /\ main.pc = "select"
    /\ main' = MainAt("closing", Nobody, 1, 0)
    /\ UNCHANGED <<table, locks, file, logged, env, pc, frame, ghosts>>

\* The closing loop: the socket of a slot in use is closed and its send_lock
\* destroyed, while the client threads still run.  A mutex that is held
\* survives (EBUSY); a destroyed one no longer excludes anybody (EINVAL).
main_close_slot ==
    LET s == main.slot IN
    /\ main.pc = "closing"
    /\ s <= MaxClients
    /\ file' = IF InUse(s) THEN [file EXCEPT ![sockfd[s]] = Nobody] ELSE file
    /\ sendLock' = IF sendLock[s] = Nobody
                   THEN [sendLock EXCEPT ![s] = Destroyed] ELSE sendLock
    /\ main' = [main EXCEPT !.slot = @ + 1]
    /\ UNCHANGED <<table, tableLock, logged, env, pc, frame, ghosts>>

\* main returns, which ends the process with its memory and all its threads.
main_exit ==
    /\ main.pc = "closing"
    /\ main.slot > MaxClients
    /\ main' = MainAt("down", Nobody, 1, 0)
    /\ active' = [s \in Slots |-> FALSE]
    /\ owner' = [s \in Slots |-> Nobody]
    /\ tableLock' = Nobody
    /\ sendLock' = [s \in Slots |-> Nobody]
    /\ file' = [f \in Fds |-> Nobody]
    /\ pc' = [c \in Conns |-> "none"]
    /\ idx' = [c \in Conns |-> 1]
    /\ out' = [c \in Conns |-> "none"]
    /\ owed' = [c \in Conns |-> {}]
    /\ joined' = [c \in Conns |-> FALSE]
    /\ announced' = [c \in Conns |-> 0]
    /\ UNCHANGED <<username, status, sockfd, logged, env, slot, rfile, wfd, msg>>

-----------------------------------------------------------------------------
(* client_thread() *)

\* recv_message() evaluates clients[s].sockfd and enters read(); the read stays
\* on that file even if the descriptor is closed meanwhile.
client_thread_loop(c) ==
    /\ pc[c] = "loop"
    /\ rfile' = [rfile EXCEPT ![c] = file[sockfd[slot[c]]]]
    /\ Goto(c, "read")
    /\ UNCHANGED <<table, locks, file, logged, env, main, slot, wfd, msg, idx, out, ghosts>>

\* recv_message() returns 0 with a message of the connection read from.
recv_message_ok(c) ==
    /\ pc[c] = "read"
    /\ rfile[c] # Nobody
    /\ budget[rfile[c]] > 0
    /\ budget' = [budget EXCEPT ![rfile[c]] = @ - 1]
    /\ \E m \in Requests(rfile[c]) : msg' = [msg EXCEPT ![c] = m]
    /\ rfile' = [rfile EXCEPT ![c] = Nobody]
    /\ Goto(c, "route")
    /\ UNCHANGED <<table, locks, file, logged, peer, main, slot, wfd, idx, out, ghosts>>

\* recv_message() returns -1: bad descriptor, end of file or reset.
recv_message_fails(c) ==
    /\ pc[c] = "read"
    /\ rfile[c] # Nobody => peer[rfile[c]] = "gone"
    /\ rfile' = [rfile EXCEPT ![c] = Nobody]
    /\ Goto(c, "cleanup")
    /\ UNCHANGED <<table, locks, file, logged, env, main, slot, wfd, msg, idx, out, ghosts>>

\* Mutant of client_thread_cleanup: was_active is read after active is cleared.
client_thread_cleanup_reads_late(c) ==
    LET s == slot[c] IN
    /\ pc[c] = "cleanup"
    /\ tableLock = Nobody
    /\ active' = [active EXCEPT ![s] = FALSE]
    /\ owner' = [owner EXCEPT ![s] = Nobody]
    /\ username' = [username EXCEPT ![s] = NoUser]
    /\ Goto(c, "close")
    /\ owed' = [d \in Conns |-> owed[d] \ {s}]
    /\ UNCHANGED <<status, sockfd, locks, file, logged, env, main, frame,
                   joined, announced>>

\* The thread gives its slot back, under table_lock.
client_thread_cleanup(c) ==
    LET s == slot[c] IN
    /\ pc[c] = "cleanup"
    /\ tableLock = Nobody
    /\ active' = [active EXCEPT ![s] = FALSE]
    /\ owner' = [owner EXCEPT ![s] = Nobody]
    /\ username' = [username EXCEPT ![s] = NoUser]
    /\ IF active[s]
       THEN /\ StartLoop(c, "disc")
            /\ announced' = [announced EXCEPT ![c] = @ + 1]
            /\ owed' = [d \in Conns |-> IF d = c THEN Owes(c) ELSE owed[d] \ {s}]
       ELSE /\ Goto(c, "close")
            /\ owed' = [d \in Conns |-> owed[d] \ {s}]
            /\ UNCHANGED <<out, idx, announced>>
    /\ UNCHANGED <<status, sockfd, locks, file, logged, env, main, slot, rfile, wfd, msg,
                   joined>>

\* close(clients[s].sockfd), read again from the slot.
client_thread_close(c) ==
    /\ pc[c] = "close"
    /\ file' = [file EXCEPT ![sockfd[slot[c]]] = Nobody]
    /\ Goto(c, "done")
    /\ UNCHANGED <<table, locks, logged, env, main, frame, ghosts>>

-----------------------------------------------------------------------------
(* route() *)

Routes(c, kind) == pc[c] = "route" /\ msg[c].kind = kind

\* A MSG_LOGIN that sscanf() rejects.
route_bad_login(c) == Routes(c, "BADLOGIN") /\ Answer(c, "err")

\* MSG_HISTORY_REQ: the log of the name the client sends under.
route_history(c) ==
    /\ Routes(c, "HISTORY")
    /\ Answer(c, IF msg[c].from \in logged THEN "hist" ELSE "nohist")

route_unknown(c) == Routes(c, "UNKNOWN") /\ Answer(c, "err")

\* The requests answered without touching the table.
route_plain(c) ==
    /\ route_bad_login(c) \/ route_history(c) \/ route_unknown(c)
    /\ UNCHANGED <<table, locks, file, logged, env, main, slot, rfile, wfd, msg, idx, ghosts>>

\* Mutant of route_login: table_lock is released before validate().
route_login_unlocks(c) ==
    /\ Routes(c, "LOGIN")
    /\ tableLock = Nobody
    /\ IF Online(msg[c].from)
       THEN Answer(c, "err")
       ELSE Goto(c, "validate") /\ UNCHANGED out
    /\ UNCHANGED <<table, locks, file, logged, env, main, slot, rfile, wfd, msg, idx, ghosts>>

\* MSG_LOGIN: the table is locked and searched; if the name is free the lock
\* is kept over validate().
route_login(c) ==
    /\ Routes(c, "LOGIN")
    /\ tableLock = Nobody
    /\ IF Online(msg[c].from)
       THEN Answer(c, "err") /\ UNCHANGED tableLock
       ELSE Goto(c, "validate") /\ tableLock' = c /\ UNCHANGED out
    /\ UNCHANGED <<table, sendLock, file, logged, env, main, slot, rfile, wfd, msg, idx, ghosts>>

\* The thread is in validate(), a blocking RPC whose outcome is anybody's guess.
validate(c) == pc[c] = "validate"

\* validate() returns 0 (valid, or no discovery server configured).
route_login_ok(c) ==
    LET s == slot[c] IN
    /\ validate(c)
    /\ tableLock' = Nobody
    /\ username' = [username EXCEPT ![s] = msg[c].from]
    /\ active' = [active EXCEPT ![s] = TRUE]
    /\ status' = [status EXCEPT ![s] = "available"]
    /\ joined' = [joined EXCEPT ![c] = TRUE]
    /\ Answer(c, "ack")
    /\ UNCHANGED <<owner, sockfd, sendLock, file, logged, env, main, slot, rfile,
                   wfd, msg, idx, owed, announced>>

\* Mutant of route_login_rejected: returns without unlocking table_lock.
route_login_rejected_keeps_lock(c) ==
    /\ validate(c)
    /\ Answer(c, "err")
    /\ UNCHANGED <<table, locks, file, logged, env, main, slot, rfile, wfd, msg, idx, ghosts>>

\* validate() returns -1 (rejected, or the discovery server is unreachable).
route_login_rejected(c) ==
    /\ validate(c)
    /\ tableLock' = Nobody
    /\ Answer(c, "err")
    /\ UNCHANGED <<table, sendLock, file, logged, env, main, slot, rfile, wfd, msg, idx, ghosts>>

\* MSG_LOGOUT: the session is closed under table_lock, then bcast_note().
route_logout(c) ==
    LET s == slot[c] IN
    /\ Routes(c, "LOGOUT")
    /\ tableLock = Nobody
    /\ active' = [active EXCEPT ![s] = FALSE]
    /\ username' = [username EXCEPT ![s] = NoUser]
    /\ StartLoop(c, "left")
    /\ announced' = [announced EXCEPT ![c] = @ + 1]
    /\ owed' = [d \in Conns |-> IF d = c THEN Owes(c) ELSE owed[d] \ {s}]
    /\ UNCHANGED <<owner, status, sockfd, locks, file, logged, env, main, slot,
                   rfile, wfd, msg, joined>>

\* MSG_BROADCAST
route_broadcast(c) ==
    /\ Routes(c, "BROADCAST")
    /\ IF active[slot[c]]
       THEN /\ save_history(msg[c].from)
            /\ StartLoop(c, "bcast")
            /\ owed' = [owed EXCEPT ![c] = {s \in Slots : s # slot[c] /\ active[s]}]
       ELSE Answer(c, "err") /\ UNCHANGED <<logged, idx, owed>>
    /\ UNCHANGED <<table, locks, file, env, main, slot, rfile, wfd, msg,
                   joined, announced>>

\* MSG_PRIVATE: the receiver's slot is looked up under table_lock and used
\* after the lock is released.
route_private(c) ==
    /\ Routes(c, "PRIVATE")
    /\ IF active[slot[c]]
       THEN /\ tableLock = Nobody
            /\ \/ \E t \in Slots :
                    /\ find_user(msg[c].arg, t)
                    /\ save_history(msg[c].from)
                    /\ idx' = [idx EXCEPT ![c] = t]
                    /\ Answer(c, "priv")
               \/ /\ ~Online(msg[c].arg)
                  /\ Answer(c, "err")
                  /\ UNCHANGED <<logged, idx>>
       ELSE Answer(c, "err") /\ UNCHANGED <<logged, idx>>
    /\ UNCHANGED <<table, locks, file, env, main, slot, rfile, wfd, msg, ghosts>>

\* MSG_LIST_USERS
route_list(c) ==
    /\ Routes(c, "LIST")
    /\ tableLock = Nobody
    /\ Answer(c, "list")
    /\ UNCHANGED <<table, locks, file, logged, env, main, slot, rfile, wfd, msg, idx, ghosts>>

\* MSG_STATUS_CHANGE, accepted from unauthenticated clients too.
route_status(c) ==
    /\ Routes(c, "STATUS")
    /\ tableLock = Nobody
    /\ status' = [status EXCEPT ![slot[c]] = msg[c].arg]
    /\ Answer(c, "ack")
    /\ UNCHANGED <<owner, active, username, sockfd, locks, file, logged, env, main,
                   slot, rfile, wfd, msg, idx, ghosts>>

-----------------------------------------------------------------------------
(* bcast_note(), the loop of MSG_BROADCAST, slot_send() *)

\* Mutant of scan: the loop body advances i as well as the loop header.
scan_advances_twice(c) ==
    /\ pc[c] = "scan"
    /\ idx[c] <= MaxClients
    /\ IF idx[c] # slot[c] /\ active[idx[c]]
       THEN Goto(c, "lock") /\ UNCHANGED idx
       ELSE idx' = [idx EXCEPT ![c] = @ + 2] /\ UNCHANGED pc
    /\ UNCHANGED <<table, locks, file, logged, env, main, slot, rfile, wfd, msg, out, ghosts>>

\* One iteration: the unlocked test of clients[i].active.
scan(c) ==
    /\ pc[c] = "scan"
    /\ idx[c] <= MaxClients
    /\ IF idx[c] # slot[c] /\ active[idx[c]]
       THEN Goto(c, "lock") /\ UNCHANGED idx
       ELSE idx' = [idx EXCEPT ![c] = @ + 1] /\ UNCHANGED pc
    /\ UNCHANGED <<table, locks, file, logged, env, main, slot, rfile, wfd, msg, out, ghosts>>

\* The loop is over: a broadcast is acknowledged, a logout goes on to the
\* clean-up of client_thread, a disconnect note to close().
scan_ends(c) ==
    /\ pc[c] = "scan"
    /\ idx[c] > MaxClients
    /\ idx' = [idx EXCEPT ![c] = 1]
    /\ \/ out[c] = "bcast" /\ Answer(c, "ack") /\ UNCHANGED msg
       \/ /\ out[c] = "left"
          /\ Goto(c, "cleanup")
          /\ out' = [out EXCEPT ![c] = "none"]
          /\ msg' = [msg EXCEPT ![c] = NoMsg]
       \/ /\ out[c] = "disc"
          /\ Goto(c, "close")
          /\ out' = [out EXCEPT ![c] = "none"]
          /\ UNCHANGED msg
    /\ UNCHANGED <<table, locks, file, logged, env, main, slot, rfile, wfd, ghosts>>

\* Mutant of slot_send_lock: writes without taking the lock.
slot_send_unlocked(c) ==
    /\ pc[c] = "lock"
    /\ wfd' = [wfd EXCEPT ![c] = sockfd[Target(c)]]
    /\ Goto(c, "write")
    /\ UNCHANGED <<table, locks, file, logged, env, main, slot, rfile, msg, idx,
                   out, ghosts>>

\* pthread_mutex_lock(&clients[s].send_lock), after which clients[s].sockfd is
\* evaluated.
slot_send_lock(c) ==
    LET s == Target(c) IN
    /\ pc[c] = "lock"
    /\ sendLock[s] \in {Nobody, Destroyed}
    /\ sendLock' = IF sendLock[s] = Nobody THEN [sendLock EXCEPT ![s] = c] ELSE sendLock
    /\ wfd' = [wfd EXCEPT ![c] = sockfd[s]]
    /\ Goto(c, "write")
    /\ UNCHANGED <<table, tableLock, file, logged, env, main, slot, rfile, msg, idx,
                   out, ghosts>>

\* send_message() and the unlock; a failed write is ignored, and so is which
\* file the descriptor is by now: a slot that was written to is owed no more.
\* Then the loop goes on, a private message is acknowledged, or the thread waits
\* for its next request.
slot_send_write(c) ==
    LET s == Target(c) IN
    /\ pc[c] = "write"
    /\ sendLock' = IF sendLock[s] = c THEN [sendLock EXCEPT ![s] = Nobody] ELSE sendLock
    /\ wfd' = [wfd EXCEPT ![c] = 0]
    /\ owed' = [owed EXCEPT ![c] = @ \ {s}]
    /\ \/ /\ out[c] \in Reply
          /\ Goto(c, "loop")
          /\ msg' = [msg EXCEPT ![c] = NoMsg]
          /\ out' = [out EXCEPT ![c] = "none"]
          /\ UNCHANGED idx
       \/ /\ out[c] = "priv"
          /\ Answer(c, "ack")
          /\ idx' = [idx EXCEPT ![c] = 1]
          /\ UNCHANGED msg
       \/ /\ out[c] \in Push \ {"priv"}
          /\ Goto(c, "scan")
          /\ idx' = [idx EXCEPT ![c] = @ + 1]
          /\ UNCHANGED <<msg, out>>
    /\ UNCHANGED <<table, tableLock, file, logged, env, main, slot, rfile,
                   joined, announced>>

-----------------------------------------------------------------------------
(* The specification *)

\* main() before its loop; history/ has just been made.
Init ==
    /\ owner = [s \in Slots |-> Nobody]
    /\ active = [s \in Slots |-> FALSE]
    /\ username = [s \in Slots |-> NoUser]
    /\ status = [s \in Slots |-> "available"]
    /\ sockfd = [s \in Slots |-> 0]
    /\ tableLock = Nobody
    /\ sendLock = [s \in Slots |-> Nobody]
    /\ file = [f \in Fds |-> Nobody]
    /\ pc = [c \in Conns |-> "none"]
    /\ slot = [c \in Conns |-> 1]
    /\ rfile = [c \in Conns |-> Nobody]
    /\ wfd = [c \in Conns |-> 0]
    /\ msg = [c \in Conns |-> NoMsg]
    /\ idx = [c \in Conns |-> 1]
    /\ out = [c \in Conns |-> "none"]
    /\ owed = [c \in Conns |-> {}]
    /\ logged = {}
    /\ peer = [c \in Conns |-> "idle"]
    /\ budget = Budget
    /\ main = MainAt("select", Nobody, 1, 0)
    /\ joined = [c \in Conns |-> FALSE]
    /\ announced = [c \in Conns |-> 0]

MainStep == main_place \/ main_full \/ main_spawn \/ main_close_slot \/ main_exit

ThreadStep(c) ==
    \/ client_thread_loop(c) \/ recv_message_fails(c)
    \/ client_thread_cleanup(c) \/ client_thread_close(c)
    \/ route_plain(c) \/ route_login(c) \/ route_login_ok(c) \/ route_login_rejected(c)
    \/ route_logout(c) \/ route_broadcast(c) \/ route_private(c)
    \/ route_list(c) \/ route_status(c)
    \/ scan(c) \/ scan_ends(c) \/ slot_send_lock(c) \/ slot_send_write(c)

Next ==
    \/ MainStep \/ main_spawn_fails \/ main_shutdown
    \/ \E c \in Conns : ClientLeaves(c) \/ main_accept(c) \/ recv_message_ok(c) \/ ThreadStep(c)

Spec == Init /\ [][Next]_vars

\* Threads that can run do run; the discovery server answers, or the
\* connection to it fails; the clients read what is written to them.  Nothing
\* makes a client connect, send or leave.
FairSpec == Spec /\ WF_vars(MainStep) /\ \A c \in Conns : WF_vars(ThreadStep(c))

-----------------------------------------------------------------------------
(* Properties *)

TableType ==
    /\ owner \in [Slots -> Conns \cup {Nobody}]
    /\ active \in [Slots -> BOOLEAN]
    /\ username \in [Slots -> Users \cup {NoUser}]
    /\ status \in [Slots -> Statuses]
    /\ sockfd \in [Slots -> Fds]
    /\ tableLock \in Conns \cup {Nobody}
    /\ sendLock \in [Slots -> Conns \cup {Nobody, Destroyed}]

EnvType ==
    /\ file \in [Fds -> Conns \cup {Nobody}]
    /\ logged \in SUBSET Users
    /\ peer \in [Conns -> {"idle", "open", "gone"}]
    /\ budget \in [Conns -> Nat]

MainType ==
    /\ main \in [pc : {"select", "place", "spawn", "closing", "down"},
                 conn : Conns \cup {Nobody}, slot : 1..(MaxClients + 1), fd : Fds]
    /\ main.pc \in {"place", "spawn"} => main.conn \in Conns
    /\ main.pc = "spawn" => main.slot \in Slots
    /\ main.pc \in {"place", "spawn"} => pc[main.conn] = "none" /\ peer[main.conn] # "idle"
    /\ \A c \in Conns : peer[c] = "idle" => pc[c] = "none"

ThreadType ==
    /\ pc \in [Conns -> {"none", "loop", "read", "route", "validate", "scan", "lock",
                         "write", "cleanup", "close", "done"}]
    /\ slot \in [Conns -> Slots]
    /\ rfile \in [Conns -> Conns \cup {Nobody}]
    /\ wfd \in [Conns -> Fds]
    /\ msg \in [Conns -> Request \cup {NoMsg}]
    /\ \A c \in Conns : pc[c] \in {"route", "validate"} => msg[c] \in Request
    /\ idx \in [Conns -> 1..(MaxClients + 1)]
    /\ \A c \in Conns : pc[c] # "scan" => idx[c] \in Slots
    /\ out \in [Conns -> Reply \cup Push \cup {"none"}]

GhostType ==
    /\ owed \in [Conns -> SUBSET Slots]
    /\ joined \in [Conns -> BOOLEAN]
    /\ announced \in [Conns -> Nat]

\* The types of the variables; besides, a thread that routes has a request, i
\* is a slot wherever it is used as an index, and a thread starts only after
\* main has placed its connection.
TypeOK == TableType /\ EnvType /\ MainType /\ ThreadType /\ GhostType

\* No two sessions carry the same name, although the search for the name
\* (find_user) and the entry of it (route, MSG_LOGIN) are separated by an RPC
\* to the discovery server.
UniqueUsers ==
    \A s, r \in Slots :
        active[s] /\ active[r] /\ username[s] = username[r] => s = r

\* A thread owns its slot until it cleans up, although main gives slots out
\* and takes them back without knowing the threads; and a user is on line only
\* while a thread that logged it in is there to take it off again.
SlotHasItsThread ==
    /\ \A c \in Conns : BeforeCleanup(c) => owner[slot[c]] = c
    /\ \A s \in Slots : active[s] =>
          /\ InUse(s)
          /\ BeforeCleanup(owner[s]) /\ slot[owner[s]] = s /\ joined[owner[s]]

\* No two threads are inside send_message() for one slot, until main has
\* destroyed the slot's mutex.
SlotWritesSerialised ==
    \A c, d \in Conns :
        /\ c # d
        /\ pc[c] = "write" /\ pc[d] = "write"
        /\ Target(c) = Target(d)
        => sendLock[Target(c)] = Destroyed

\* A broadcast or note is sent for every slot that was active when it started
\* and is still: the loop reads clients[i].active without table_lock while other
\* threads log in, log out and clean up.  This is about the slots the loop
\* visits; whether a slot's descriptor is still its client's is the question
\* ClosesOwnSocket asks.
BroadcastReachesAll ==
    \A c \in Conns : pc[c] = "scan" /\ idx[c] > MaxClients => owed[c] = {}

\* A session's end is announced exactly once, whether the client logged out,
\* disconnected or did both at once.
DepartureAnnouncedOnce ==
    \A c \in Conns :
        /\ announced[c] <= 1
        /\ joined[c] /\ pc[c] \in {"close", "done"} => announced[c] = 1

\* A request that has been received is eventually answered or ends the thread:
\* no interleaving of table_lock and the send_locks blocks a thread for ever.
Served ==
    \A c \in Conns : pc[c] = "route" ~> pc[c] \in {"loop", "close", "none"}

\* The clean-up of client_thread closes the socket of the client that
\* disconnected, not of another one.
ClosesOwnSocket ==
    \A c \in Conns : pc[c] = "close" =>
        file[sockfd[slot[c]]] \in {c, Nobody}

=============================================================================
