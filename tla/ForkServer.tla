----------------------------- MODULE ForkServer -----------------------------
(***************************************************************************)
(* chat_server_fork.c: the parent accepts connections and forks a child    *)
(* for each; a child bridges its client's socket and two pipes; the parent *)
(* reads the pipes and routes, one message at a time, writing to the pipes *)
(* of the receivers' children.  sigchld_handler() interrupts the parent    *)
(* between any two of its steps.                                           *)
(*                                                                         *)
(* A child, its process id and its two pipes are named by the connection   *)
(* they were made for: the parent closes none of its pipe ends before it   *)
(* exits, so their descriptor numbers are never used again.                *)
(***************************************************************************)
EXTENDS Naturals, Sequences, ChatProtocol

CONSTANTS
    MaxClients,   \* MAX_CLIENTS
    PipeCap,      \* messages a pipe holds
    Budget,       \* bound: requests each client sends
    Faults        \* what may go wrong: "signal" (SIGINT or SIGTERM arrives),
                  \* "pipe", "fork", "fopen" (they fail)

ASSUME ForkAssumption ==
    /\ MaxClients \in Nat \ {0}
    /\ PipeCap \in Nat \ {0}
    /\ Budget \in [Conns -> Nat]
    /\ Faults \subseteq {"signal", "pipe", "fork", "fopen"}

Slots == 1..MaxClients

\* What a child sends for a client that has disconnected.
LogoutNote == [kind |-> "LOGOUT", from |-> NoUser, arg |-> NoUser]

VARIABLES
    \* the shared client table
    pid, active, username, status,
    pipes,      \* to_child and from_child of a slot
    \* the processes and what connects them
    toChild,    \* contents of the pipes parent -> child
    fromChild,  \* contents of the pipes child -> parent
    held,       \* pipes the parent has open ends of
    inherits,   \* pipes of others a child has open ends of since the fork
    child,      \* where each child is
    cmsg,       \* the message a child is about to write
    due,        \* the pipe was readable too when the child's select() returned
    peer,       \* the client's end of a connection
    budget,     \* requests the client has yet to send
    logged,     \* the users whose history/<user>.log has entries
    \* the parent
    at,         \* where it is
    conn, slot, \* the connection just accepted and its slot
    ready,      \* rfds after select()
    i, rd,      \* index and descriptor of the loop at check_children
    msg,        \* msg of route_message()
    idx,        \* index of the sending loops, t of MSG_PRIVATE
    out,        \* the message being sent
    \* history variable, read by no guard
    greeted     \* whether the first message a client got was a reply or a push

table     == <<pid, active, username, status, pipes>>
procs     == <<toChild, fromChild, held, inherits, child, cmsg, due>>
env       == <<peer, budget>>
accepting == <<conn, slot>>
routing   == <<msg, idx, out>>
parent    == <<at, accepting, ready, i, rd, routing>>
vars      == <<table, procs, env, logged, parent, greeted>>

-----------------------------------------------------------------------------
(* Helpers *)

\* find_slot_by_username(u) = s: the first active slot with that name.
find_slot_by_username(u, s) ==
    /\ active[s] /\ username[s] = u
    /\ \A r \in Slots : active[r] /\ username[r] = u => s <= r

Online(u) == \E s \in Slots : active[s] /\ username[s] = u

Free(s) == ~active[s] /\ pid[s] = Nobody

\* find_free_slot() = s
find_free_slot(s) == Free(s) /\ \A r \in Slots : Free(r) => s <= r

Exited(c) == child[c] \in {"zombie", "reaped"}

\* Some process still has the parent's ends of c's pipes: the parent, or a
\* child forked while the parent had them.
EndsOpen(c) ==
    \/ c \in held
    \/ \E d \in Conns : child[d] # "none" /\ ~Exited(d) /\ c \in inherits[d]

\* The pipes in rfds that select() reports: a message or end of file.
Readable ==
    {c \in {pipes[s] : s \in {s \in Slots : pid[s] # Nobody}} :
        fromChild[c] # <<>> \/ Exited(c)}

\* A message written to client c's socket.  What is not pushed by another client
\* is a reply: the answer to a request, or "Server full".
Greet(c, m) ==
    greeted' = IF greeted[c] = "none"
               THEN [greeted EXCEPT ![c] = IF m \in Reply THEN "reply" ELSE "push"]
               ELSE greeted

\* pipe_send(from, &resp)
Answer(reply) == at' = "send" /\ out' = reply

\* The loops over clients[] of MSG_LOGOUT and MSG_BROADCAST.
StartLoop(note) == at' = "loop" /\ out' = note /\ idx' = 1

\* The connection just accepted has been dealt with.
Accepted == conn' = Nobody /\ slot' = 1

\* check_children: the loop over the slots starts, or goes on.
CheckFrom(k) == at' = "scan" /\ i' = k

\* Appends to history/<u>.log; gives up silently when fopen() fails.
save_history(u) ==
    \/ logged' = logged \cup {u}
    \/ "fopen" \in Faults /\ UNCHANGED logged

-----------------------------------------------------------------------------
(* The client programs *)

\* The client closes its end, or dies.
ClientLeaves(c) ==
    /\ peer[c] = "open"
    /\ peer' = [peer EXCEPT ![c] = "gone"]
    /\ UNCHANGED <<table, procs, budget, logged, parent, greeted>>

-----------------------------------------------------------------------------
(* child_main() *)

\* select() reports the socket and recv_message() reads a request from it.
child_recv(c) ==
    /\ child[c] = "select"
    /\ budget[c] > 0
    /\ budget' = [budget EXCEPT ![c] = @ - 1]
    /\ \E m \in Requests(c) : cmsg' = [cmsg EXCEPT ![c] = m]
    /\ due' = [due EXCEPT ![c] = toChild[c] # <<>> \/ ~EndsOpen(c)]
    /\ child' = [child EXCEPT ![c] = "forward"]
    /\ UNCHANGED <<table, toChild, fromChild, held, inherits, peer, logged, parent, greeted>>

\* recv_message() fails: the client is gone.
child_eof(c) ==
    /\ child[c] = "select"
    /\ peer[c] = "gone"
    /\ cmsg' = [cmsg EXCEPT ![c] = LogoutNote]
    /\ child' = [child EXCEPT ![c] = "last"]
    /\ UNCHANGED <<table, toChild, fromChild, held, inherits, due, env, logged, parent, greeted>>

\* write() to the parent: it blocks while the pipe is full, and fails once
\* nobody has the other end.  After the LOGOUT of a lost client the child
\* exits; otherwise it serves the pipe if that was readable too.
child_write(c) ==
    /\ child[c] \in {"forward", "last"}
    /\ \/ /\ EndsOpen(c)
          /\ Len(fromChild[c]) < PipeCap
          /\ fromChild' = [fromChild EXCEPT ![c] = Append(@, cmsg[c])]
       \/ ~EndsOpen(c) /\ UNCHANGED fromChild
    /\ cmsg' = [cmsg EXCEPT ![c] = NoMsg]
    /\ due' = [due EXCEPT ![c] = FALSE]
    /\ IF child[c] = "last"
       THEN /\ child' = [child EXCEPT ![c] = "zombie"]
            /\ toChild' = [toChild EXCEPT ![c] = <<>>]
       ELSE /\ child' = [child EXCEPT ![c] = IF due[c] THEN "deliver" ELSE "select"]
            /\ UNCHANGED toChild
    /\ UNCHANGED <<table, held, inherits, env, logged, parent, greeted>>

\* select() reports the pipe only, or the pipe was due.
ServesPipe(c) ==
    \/ child[c] = "deliver"
    \/ child[c] = "select" /\ peer[c] # "gone"

\* pipe_recv() and send_message() to the client, whose result is ignored.
child_deliver(c) ==
    /\ ServesPipe(c)
    /\ toChild[c] # <<>>
    /\ toChild' = [toChild EXCEPT ![c] = Tail(@)]
    /\ Greet(c, Head(toChild[c]))
    /\ child' = [child EXCEPT ![c] = "select"]
    /\ UNCHANGED <<table, fromChild, held, inherits, cmsg, due, env, logged, parent>>

\* pipe_recv() meets end of file: the child exits.
child_orphaned(c) ==
    /\ ServesPipe(c)
    /\ toChild[c] = <<>>
    /\ ~EndsOpen(c)
    /\ child' = [child EXCEPT ![c] = "zombie"]
    /\ UNCHANGED <<table, toChild, fromChild, held, inherits, cmsg, due, env, logged,
                   parent, greeted>>

-----------------------------------------------------------------------------
(* The signal handlers *)

\* Reaps every zombie and clears the slot that has its pid, if one has.
sigchld_handler ==
    LET Z == {c \in Conns : child[c] = "zombie"} IN
    /\ at # "down"
    /\ Z # {}
    /\ child' = [c \in Conns |-> IF c \in Z THEN "reaped" ELSE child[c]]
    /\ pid' = [s \in Slots |-> IF pid[s] \in Z THEN Nobody ELSE pid[s]]
    /\ active' = [s \in Slots |-> active[s] /\ pid[s] \notin Z]
    /\ username' = [s \in Slots |-> IF pid[s] \in Z THEN NoUser ELSE username[s]]
    /\ UNCHANGED <<status, pipes, toChild, fromChild, held, inherits, cmsg, due, env,
                   logged, parent, greeted>>

\* SIGINT or SIGTERM: the parent leaves its loop and exits.  The SIGTERM it
\* sends the children only runs the handler they inherited, sig_int().
main_stops ==
    /\ "signal" \in Faults
    /\ at = "select"
    /\ at' = "down"
    /\ held' = {}
    /\ UNCHANGED <<table, toChild, fromChild, inherits, child, cmsg, due, env, logged,
                   accepting, ready, i, rd, routing, greeted>>

-----------------------------------------------------------------------------
(* main(): new connections *)

\* select() reports the listening socket, and maybe pipes; accept().
main_accept(c) ==
    /\ at = "select"
    /\ peer[c] = "idle"
    /\ peer' = [peer EXCEPT ![c] = "open"]
    /\ conn' = c
    /\ ready' = Readable
    /\ at' = "place"
    /\ UNCHANGED <<table, procs, budget, logged, slot, i, rd, routing, greeted>>

\* select() reports pipes only.
main_select ==
    /\ at = "select"
    /\ Readable # {}
    /\ ready' = Readable
    /\ CheckFrom(1)
    /\ UNCHANGED <<table, procs, env, logged, accepting, rd, routing, greeted>>

\* pipe(), pipe() into a free slot.
MakePipes ==
    /\ at = "place"
    /\ \E s \in Slots :
          /\ find_free_slot(s)
          /\ pipes' = [pipes EXCEPT ![s] = conn]
          /\ slot' = s
    /\ held' = held \cup {conn}

\* Mutant of main_fork: the child keeps the write end of its own to_child.
main_fork_keeps_end ==
    /\ MakePipes
    /\ child' = [child EXCEPT ![conn] = "select"]
    /\ inherits' = [inherits EXCEPT ![conn] = held \cup {conn}]
    /\ at' = "forked"
    /\ UNCHANGED <<pid, active, username, status, toChild, fromChild, cmsg, due, env,
                   logged, conn, ready, i, rd, routing, greeted>>

\* fork() succeeds: child_main() starts.
main_fork ==
    /\ MakePipes
    /\ child' = [child EXCEPT ![conn] = "select"]
    /\ inherits' = [inherits EXCEPT ![conn] = held]
    /\ at' = "forked"
    /\ UNCHANGED <<pid, active, username, status, toChild, fromChild, cmsg, due, env,
                   logged, conn, ready, i, rd, routing, greeted>>

\* fork() fails: the connection is closed, the pipes are not.
main_fork_fails ==
    /\ "fork" \in Faults
    /\ MakePipes
    /\ CheckFrom(1) /\ conn' = Nobody
    /\ UNCHANGED <<pid, active, username, status, toChild, fromChild, inherits, child,
                   cmsg, due, env, logged, ready, rd, routing, greeted>>

\* No slot is free ("Server full"), or pipe() fails: the connection is closed.
main_refuse ==
    /\ at = "place"
    /\ \/ /\ \A s \in Slots : ~Free(s)
          /\ Greet(conn, "err")
       \/ /\ "pipe" \in Faults
          /\ \E s \in Slots : Free(s)
          /\ UNCHANGED greeted
    /\ CheckFrom(1) /\ Accepted
    /\ UNCHANGED <<table, procs, env, logged, ready, rd, routing>>

\* Mutant of main_enter_pid: the slot is made active before the login.
main_enter_pid_active ==
    /\ at = "forked"
    /\ pid' = [pid EXCEPT ![slot] = conn]
    /\ active' = [active EXCEPT ![slot] = TRUE]
    /\ CheckFrom(1) /\ Accepted
    /\ UNCHANGED <<username, status, pipes, procs, env, logged, ready, rd, routing, greeted>>

\* The parent goes on after fork() and enters the child's pid.
main_enter_pid ==
    /\ at = "forked"
    /\ pid' = [pid EXCEPT ![slot] = conn]
    /\ CheckFrom(1) /\ Accepted
    /\ UNCHANGED <<active, username, status, pipes, procs, env, logged, ready, rd,
                   routing, greeted>>

-----------------------------------------------------------------------------
(* main(): check_children *)

\* Mutant of check_children: a slot that has got a new child since select() is
\* taken for readable.
check_children_by_slot ==
    /\ at = "scan"
    /\ i \in Slots
    /\ IF pid[i] # Nobody
       THEN at' = "recv" /\ rd' = pipes[i] /\ UNCHANGED i
       ELSE CheckFrom(i + 1) /\ UNCHANGED rd
    /\ UNCHANGED <<table, procs, env, logged, accepting, ready, routing, greeted>>

\* One iteration: the tests of pid and rfds.
check_children ==
    /\ at = "scan"
    /\ i \in Slots
    /\ IF pid[i] # Nobody /\ pipes[i] \in ready
       THEN at' = "recv" /\ rd' = pipes[i] /\ UNCHANGED i
       ELSE CheckFrom(i + 1) /\ UNCHANGED rd
    /\ UNCHANGED <<table, procs, env, logged, accepting, ready, routing, greeted>>

check_children_ends ==
    /\ at = "scan"
    /\ i > MaxClients
    /\ at' = "select"
    /\ ready' = {} /\ rd' = Nobody /\ i' = 1
    /\ UNCHANGED <<table, procs, env, logged, accepting, routing, greeted>>

\* pipe_recv() returns a message.
pipe_recv_ok ==
    /\ at = "recv"
    /\ fromChild[rd] # <<>>
    /\ msg' = Head(fromChild[rd])
    /\ fromChild' = [fromChild EXCEPT ![rd] = Tail(@)]
    /\ at' = "route"
    /\ UNCHANGED <<table, toChild, held, inherits, child, cmsg, due, env, logged,
                   accepting, ready, i, rd, idx, out, greeted>>

\* Mutant of pipe_recv_eof: clearing the slot is left to sigchld_handler.
pipe_recv_eof_ignored ==
    /\ at = "recv"
    /\ fromChild[rd] = <<>>
    /\ Exited(rd)
    /\ CheckFrom(i + 1)
    /\ UNCHANGED <<table, procs, env, logged, accepting, ready, rd, routing, greeted>>

\* pipe_recv() meets end of file: the slot is cleared.
pipe_recv_eof ==
    /\ at = "recv"
    /\ fromChild[rd] = <<>>
    /\ Exited(rd)
    /\ active' = [active EXCEPT ![i] = FALSE]
    /\ pid' = [pid EXCEPT ![i] = Nobody]
    /\ username' = [username EXCEPT ![i] = NoUser]
    /\ CheckFrom(i + 1)
    /\ UNCHANGED <<status, pipes, procs, env, logged, accepting, ready, rd, routing, greeted>>

-----------------------------------------------------------------------------
(* route_message(i, &msg) *)

Routes(kind) == at = "route" /\ msg.kind = kind

\* A MSG_LOGIN that sscanf() rejects.
route_bad_login == Routes("BADLOGIN") /\ Answer("err")

\* MSG_LIST_USERS
route_list == Routes("LIST") /\ Answer("list")

\* MSG_HISTORY_REQ: the log of the name the client sends under.
route_history ==
    Routes("HISTORY") /\ Answer(IF msg.from \in logged THEN "hist" ELSE "nohist")

route_unknown == Routes("UNKNOWN") /\ Answer("err")

\* The requests answered without touching the table.
route_plain ==
    /\ route_bad_login \/ route_list \/ route_history \/ route_unknown
    /\ UNCHANGED <<table, procs, env, logged, accepting, ready, i, rd, msg, idx, greeted>>

\* Mutant of route_login: no search for the name.
route_login_unchecked ==
    /\ Routes("LOGIN")
    /\ at' = "validate"
    /\ UNCHANGED <<table, procs, env, logged, accepting, ready, i, rd, routing, greeted>>

\* MSG_LOGIN: the name may be in use by the same slot.
route_login ==
    /\ Routes("LOGIN")
    /\ IF \E s \in Slots : find_slot_by_username(msg.from, s) /\ s # i
       THEN Answer("err")
       ELSE at' = "validate" /\ UNCHANGED out
    /\ UNCHANGED <<table, procs, env, logged, accepting, ready, i, rd, msg, idx, greeted>>

\* The parent is in validate(), a blocking RPC whose outcome is anybody's guess.
validate == at = "validate"

\* validate() returns -1.
route_login_rejected ==
    /\ validate
    /\ Answer("err")
    /\ UNCHANGED <<table, procs, env, logged, accepting, ready, i, rd, msg, idx, greeted>>

\* validate() returns 0: the name is entered, ...
route_login_name ==
    /\ validate
    /\ username' = [username EXCEPT ![i] = msg.from]
    /\ at' = "activate"
    /\ UNCHANGED <<pid, active, status, pipes, procs, env, logged, accepting, ready, i,
                   rd, routing, greeted>>

\* ... then the slot is made active.
route_login_activate ==
    /\ at = "activate"
    /\ active' = [active EXCEPT ![i] = TRUE]
    /\ status' = [status EXCEPT ![i] = "available"]
    /\ Answer("ack")
    /\ UNCHANGED <<pid, username, pipes, procs, env, logged, accepting, ready, i, rd,
                   msg, idx, greeted>>

\* MSG_LOGOUT
route_logout ==
    /\ Routes("LOGOUT")
    /\ active' = [active EXCEPT ![i] = FALSE]
    /\ username' = [username EXCEPT ![i] = NoUser]
    /\ StartLoop("left")
    /\ UNCHANGED <<pid, status, pipes, procs, env, logged, accepting, ready, i, rd, msg,
                   greeted>>

\* MSG_BROADCAST
route_broadcast ==
    /\ Routes("BROADCAST")
    /\ IF active[i]
       THEN StartLoop("bcast") /\ save_history(msg.from)
       ELSE Answer("err") /\ UNCHANGED <<idx, logged>>
    /\ UNCHANGED <<table, procs, env, accepting, ready, i, rd, msg, greeted>>

\* MSG_PRIVATE
route_private ==
    /\ Routes("PRIVATE")
    /\ \/ \E t \in Slots :
            /\ active[i]
            /\ find_slot_by_username(msg.arg, t)
            /\ save_history(msg.from)
            /\ idx' = t
            /\ Answer("priv")
       \/ /\ ~active[i] \/ ~Online(msg.arg)
          /\ Answer("err")
          /\ UNCHANGED <<idx, logged>>
    /\ UNCHANGED <<table, procs, env, accepting, ready, i, rd, msg, greeted>>

\* MSG_STATUS_CHANGE, accepted from clients not logged in too.
route_status ==
    /\ Routes("STATUS")
    /\ status' = [status EXCEPT ![i] = msg.arg]
    /\ Answer("ack")
    /\ UNCHANGED <<pid, active, username, pipes, procs, env, logged, accepting, ready, i,
                   rd, msg, idx, greeted>>

\* Mutant of route_loop: the loop body advances i as well as the loop header.
route_loop_advances_twice ==
    /\ at = "loop"
    /\ idx <= MaxClients
    /\ IF idx # i /\ active[idx]
       THEN at' = "send" /\ UNCHANGED idx
       ELSE idx' = idx + 2 /\ UNCHANGED at
    /\ UNCHANGED <<table, procs, env, logged, accepting, ready, i, rd, msg, out, greeted>>

\* One iteration of a sending loop.
route_loop ==
    /\ at = "loop"
    /\ idx <= MaxClients
    /\ IF idx # i /\ active[idx]
       THEN at' = "send" /\ UNCHANGED idx
       ELSE idx' = idx + 1 /\ UNCHANGED at
    /\ UNCHANGED <<table, procs, env, logged, accepting, ready, i, rd, msg, out, greeted>>

\* The loop is over: a broadcast is acknowledged, a logout is done.
route_loop_ends ==
    /\ at = "loop"
    /\ idx > MaxClients
    /\ idx' = 1
    /\ \/ out = "bcast" /\ Answer("ack") /\ UNCHANGED <<i, msg>>
       \/ out = "left" /\ CheckFrom(i + 1) /\ out' = "none" /\ msg' = NoMsg
    /\ UNCHANGED <<table, procs, env, logged, accepting, ready, rd, greeted>>

\* The pipe pipe_send() writes to.
Target == pipes[IF out \in Reply THEN i ELSE idx]

\* The write, which blocks while the pipe is full.
PipeWrite ==
    /\ ~Exited(Target)
    /\ Len(toChild[Target]) < PipeCap
    /\ toChild' = [toChild EXCEPT ![Target] = Append(@, out)]

\* What follows pipe_send() in route_message().
AfterSend ==
    /\ \/ out \in Reply /\ CheckFrom(i + 1) /\ out' = "none" /\ msg' = NoMsg /\ UNCHANGED idx
       \/ out = "priv" /\ Answer("ack") /\ idx' = 1 /\ UNCHANGED <<i, msg>>
       \/ out \in Push \ {"priv"} /\ at' = "loop" /\ idx' = idx + 1 /\ UNCHANGED <<i, msg, out>>
    /\ UNCHANGED <<table, fromChild, held, inherits, child, cmsg, due, env, logged,
                   accepting, ready, rd, greeted>>

\* Mutant of pipe_send: a write that fails is tried again.
pipe_send_retries == at = "send" /\ PipeWrite /\ AfterSend

\* pipe_send(): the write fails, which is ignored, once the child has exited.
pipe_send ==
    /\ at = "send"
    /\ PipeWrite \/ (Exited(Target) /\ UNCHANGED toChild)
    /\ AfterSend

-----------------------------------------------------------------------------
(* The specification *)

Init ==
    /\ pid = [s \in Slots |-> Nobody]
    /\ active = [s \in Slots |-> FALSE]
    /\ username = [s \in Slots |-> NoUser]
    /\ status = [s \in Slots |-> "available"]
    /\ pipes = [s \in Slots |-> Nobody]
    /\ toChild = [c \in Conns |-> <<>>]
    /\ fromChild = [c \in Conns |-> <<>>]
    /\ held = {}
    /\ inherits = [c \in Conns |-> {}]
    /\ child = [c \in Conns |-> "none"]
    /\ cmsg = [c \in Conns |-> NoMsg]
    /\ due = [c \in Conns |-> FALSE]
    /\ peer = [c \in Conns |-> "idle"]
    /\ budget = Budget
    /\ logged = {}
    /\ at = "select" /\ conn = Nobody /\ slot = 1 /\ ready = {} /\ i = 1 /\ rd = Nobody
    /\ msg = NoMsg /\ idx = 1 /\ out = "none"
    /\ greeted = [c \in Conns |-> "none"]

RouteStep ==
    \/ route_plain \/ route_login \/ route_login_rejected \/ route_login_name
    \/ route_login_activate \/ route_logout \/ route_broadcast \/ route_private
    \/ route_status \/ route_loop \/ route_loop_ends \/ pipe_send

ParentStep ==
    \/ main_select \/ main_fork \/ main_refuse \/ main_enter_pid
    \/ check_children \/ check_children_ends \/ pipe_recv_ok \/ pipe_recv_eof
    \/ RouteStep

ChildStep(c) == child_eof(c) \/ child_write(c) \/ child_deliver(c) \/ child_orphaned(c)

Next ==
    \/ ParentStep \/ main_fork_fails \/ main_stops \/ sigchld_handler
    \/ \E c \in Conns :
          main_accept(c) \/ ClientLeaves(c) \/ child_recv(c) \/ ChildStep(c)

Spec == Init /\ [][Next]_vars

\* Processes that can run do run, and SIGCHLD is delivered; the discovery
\* server answers, or the connection to it fails; the clients read what is
\* written to them.  Nothing makes a client connect, send or leave.
FairSpec ==
    /\ Spec
    /\ WF_vars(ParentStep) /\ WF_vars(sigchld_handler)
    /\ \A c \in Conns : WF_vars(ChildStep(c))

-----------------------------------------------------------------------------
(* Properties *)

Messages == Request \cup {NoMsg, LogoutNote}
Maybe(S) == S \cup {Nobody}

TableType ==
    /\ pid \in [Slots -> Maybe(Conns)]
    /\ active \in [Slots -> BOOLEAN]
    /\ username \in [Slots -> Users \cup {NoUser}]
    /\ status \in [Slots -> Statuses]
    /\ pipes \in [Slots -> Maybe(Conns)]

ProcType ==
    /\ DOMAIN toChild = Conns
    /\ DOMAIN fromChild = Conns
    /\ \A c \in Conns : Len(toChild[c]) <= PipeCap /\ Len(fromChild[c]) <= PipeCap
    /\ held \subseteq Conns
    /\ inherits \in [Conns -> SUBSET Conns]
    /\ child \in [Conns -> {"none", "select", "forward", "last", "deliver", "zombie",
                            "reaped"}]
    /\ cmsg \in [Conns -> Messages]
    /\ due \in [Conns -> BOOLEAN]

EnvType ==
    /\ peer \in [Conns -> {"idle", "open", "gone"}]
    /\ budget \in [Conns -> Nat]
    /\ logged \subseteq Users
    /\ greeted \in [Conns -> {"none", "reply", "push"}]

ParentType ==
    /\ at \in {"select", "place", "forked", "scan", "recv", "route", "validate",
               "activate", "loop", "send", "down"}
    /\ conn \in Maybe(Conns) /\ slot \in Slots /\ ready \subseteq Conns
    /\ i \in 1..(MaxClients + 1) /\ rd \in Maybe(Conns)
    /\ msg \in Messages
    /\ idx \in 1..(MaxClients + 1)
    /\ out \in Reply \cup Push \cup {"none"}

\* The types of the variables.
TypeOK == TableType /\ ProcType /\ EnvType /\ ParentType

\* No two sessions carry the same name, although sigchld_handler() clears slots
\* while the parent is between the search for a name and the entry of it (which
\* can leave sessions without a name, see NoGhostUser).
UniqueUsers ==
    \A s, r \in Slots :
        /\ active[s] /\ active[r]
        /\ username[s] = username[r] /\ username[s] # NoUser
        => s = r

\* The first message on a connection is the answer to a request of its client, or
\* the refusal of the connection, as login_to_chat() and benchmark.py expect:
\* nothing is pushed to a client before its login is acknowledged.
LoginAckFirst == \A c \in Conns : greeted[c] # "push"

\* The parent never blocks in pipe_recv(): what it reads was readable when
\* select() returned, although slots have been cleared and given to new
\* children since.
RecvNeverBlocks == at = "recv" => fromChild[rd] # <<>> \/ Exited(rd)

\* The parent and a child write to each other, and both pipes are full: neither
\* reads any more.
Stuck ==
    /\ at = "send" /\ Len(toChild[Target]) = PipeCap
    /\ child[Target] \in {"forward", "last"} /\ Len(fromChild[Target]) = PipeCap

\* A child that has exited loses its slot, even if it exited before the parent
\* entered its pid and sigchld_handler() found no slot to clear, unless the
\* parent is stuck.
DeadChildForgotten ==
    \A c \in Conns :
        (Exited(c) /\ \E s \in Slots : pid[s] = c)
            ~> ((\A s \in Slots : pid[s] # c) \/ at = "down" \/ Stuck)

\* The children do not outlive the parent, although its SIGTERM does not stop
\* them and each has pipe ends of the children forked before it.
ChildrenExit ==
    at = "down" ~> \A c \in Conns : child[c] = "none" \/ Exited(c)

\* Full pipes both ways to one child are the only thing that can stop the parent
\* while it routes a message: it gets through or is stuck, whichever children are
\* slow, have full pipes or die while it writes to them.
RoutingEnds == at = "route" ~> at = "select" \/ Stuck

\* The SIGCHLD handler cleans up after finished children: a slot is active only
\* while it has a child.
NoGhostUser == \A s \in Slots : active[s] => pid[s] # Nobody

=============================================================================
