---------------------------- MODULE EpollServer -----------------------------
(***************************************************************************)
(* chat_server_epoll.c: one thread, an edge-triggered event loop, sockets  *)
(* that take and give part of a message, a receive and a send buffer per   *)
(* slot.                                                                   *)
(*                                                                         *)
(* Bytes are counted in units: the header is one, the payload another.     *)
(* A step is what the loop does between two moments at which a client or   *)
(* the kernel can make a difference.  The slot_send()s of a message to     *)
(* several sockets are one step: what a client does meanwhile might as     *)
(* well come before or after.                                              *)
(*                                                                         *)
(* The descriptor of a slot is named by the slot: accept() takes the       *)
(* lowest free descriptor as find_free() takes the lowest free slot, and   *)
(* disconnect_client() gives both back.                                    *)
(***************************************************************************)
EXTENDS Integers, Sequences, ChatProtocol

CONSTANTS
    MaxClients,   \* MAX_CLIENTS
    RbufSize,     \* RBUF_SIZE
    SbufSize,     \* SBUF_SIZE
    SockCap,      \* units the kernel holds for a client that does not read
    Budget,       \* bound: requests each client sends
    Mortal,       \* the clients that may die without closing
    Faults        \* what may go wrong: "signal" (SIGINT or SIGTERM arrives),
                  \* "accept", "fopen" (they fail)

MaxUnits == 2     \* units of the longest message

ASSUME EpollAssumption ==
    /\ MaxClients \in Nat \ {0}
    /\ RbufSize \in Nat /\ RbufSize > MaxUnits
    /\ SbufSize \in Nat /\ SbufSize >= MaxUnits
    /\ SockCap \in Nat \ {0}
    /\ Budget \in [Conns -> Nat]
    /\ Faults \subseteq {"signal", "accept", "fopen"}
    /\ Mortal \subseteq Conns

Slots == 1..MaxClients
Listener == 0     \* srv among the descriptors

\* What epoll_wait() reports; for is a history variable.
Event(fd, c, in, out, hup) == [fd |-> fd, for |-> c, in |-> in, out |-> out, hup |-> hup]
ListenerEvent == Event(Listener, Nobody, TRUE, FALSE, FALSE)
NoEvent       == Event(Listener, Nobody, FALSE, FALSE, FALSE)

VARIABLES
    clients,    \* clients[]; out is EPOLLOUT among the events asked for
    logged,     \* the users whose history/<user>.log has entries
    at,         \* where the loop is
    batch,      \* events[] not handled yet
    cur,        \* the event being handled
    ready,      \* the descriptors on epoll's ready list
    sock,       \* a connection and the client that makes it
    missed      \* history: accept() has failed since the last connection came

server == <<clients, logged, at, batch, cur>>
vars   == <<server, ready, sock, missed>>

\* state: not made, in the backlog, accepted or closed.  The client is open, has
\* closed, or is dead without having closed; it has budget requests to send.
\* way is what it has sent and has not arrived, rx what has; tx is what it has
\* yet to read, part what it has read of a message.
NewSock(c) == [state |-> "none", client |-> "open", budget |-> Budget[c],
               way |-> <<>>, rx |-> <<>>, tx |-> <<>>, part |-> <<>>]
Closed     == [state |-> "closed", client |-> "closed", budget |-> 0,
               way |-> <<>>, rx |-> <<>>, tx |-> <<>>, part |-> <<>>]

-----------------------------------------------------------------------------
(* Messages and buffers *)

\* Requests and answers that have no payload; other texts are left out, so an
\* acknowledgement is taken to have none.
Bare == {"LIST", "HISTORY", "ack"}

\* pack_message(): the k-th unit of n.
Units(kind, m) ==
    [k \in 1..(IF kind \in Bare THEN 1 ELSE 2) |->
        [m |-> m, k |-> k, n |-> IF kind \in Bare THEN 1 ELSE 2]]

\* A buffer starts with a whole message: payload_len is in the header.
Complete(b) == b # <<>> /\ Len(b) >= b[1].n

Drop(b, n) == SubSeq(b, n + 1, Len(b))

\* memset(c, 0, sizeof(Client))
FreeSlot == [conn |-> Nobody, active |-> FALSE, username |-> NoUser, status |-> "available",
             rbuf |-> <<>>, rbuf_len |-> 0, sbuf |-> <<>>, out |-> FALSE]

InUse(s) == clients[s].conn # Nobody
Sock(s)  == sock[clients[s].conn]

find_free(s) == ~InUse(s) /\ \A r \in Slots : ~InUse(r) => s <= r

find_by_user(u, s) ==
    /\ clients[s].active /\ clients[s].username = u
    /\ \A r \in Slots : clients[r].active /\ clients[r].username = u => s <= r

Online(u) == \E s \in Slots : find_by_user(u, s)

\* What epoll finds at socket k; w is whether it is asked for output.
Dead(k)    == k.client = "dead"
Eof(k)     == k.client = "closed" /\ k.way = <<>>
Input(k)   == k.rx # <<>> \/ Eof(k) \/ Dead(k)
Poll(k, w) == Input(k) \/ (w /\ Len(k.tx) < SockCap)

-----------------------------------------------------------------------------
(* Sending *)

\* Mutant of sb_push: no test after the buffer has been compacted.
sb_push_unchecked(b, u) == b \o u

\* sb_push(): nothing is added if it does not fit.
sb_push(b, u) == IF Len(b) + Len(u) <= SbufSize THEN b \o u ELSE b

\* How many of the units u socket k takes.
Takes(k, u) == LET room == SockCap - Len(k.tx) IN IF room < Len(u) THEN room ELSE Len(u)

\* A slot and its socket after n units of u are written and the others buffered.
Write(r, k, u, n) ==
    [slot |-> IF n = Len(u) THEN r
              ELSE [r EXCEPT !.sbuf = sb_push(@, Drop(u, n)), !.out = TRUE],
     sock |-> [k EXCEPT !.tx = @ \o SubSeq(u, 1, n)],
     mod  |-> n < Len(u)]

\* Mutant of slot_send: it writes although something is waiting in sbuf.
slot_send_overtakes(r, k, m) == Write(r, k, Units(m, m), Takes(k, Units(m, m)))

\* Mutant of slot_send: a failed write() to another client clears its slot.
slot_send_disconnects(r, k, m) ==
    IF Dead(k) /\ r.conn # cur.for THEN [slot |-> FreeSlot, sock |-> Closed, mod |-> FALSE]
    ELSE Write(r, k, Units(m, m), IF r.sbuf = <<>> THEN Takes(k, Units(m, m)) ELSE 0)

\* slot_send(): written as far as the socket takes it if nothing is waiting in
\* sbuf, else buffered whole.  An error is left to EPOLLERR.
slot_send(r, k, m) ==
    IF Dead(k) /\ r.sbuf = <<>> THEN [slot |-> r, sock |-> k, mod |-> FALSE]
    ELSE Write(r, k, Units(m, m), IF r.sbuf = <<>> THEN Takes(k, Units(m, m)) ELSE 0)

\* The loops of slot_send()s: table is clients[] before them, msgs[s] what is
\* sent to slot s.  epmod() looks at the socket again.  Afterwards the slots in
\* gone are closed and left as given, and their clients have no more to do.
SendAll(table, msgs, gone, left) ==
    LET res == [s \in DOMAIN msgs |-> slot_send(table[s], sock[table[s].conn], msgs[s])]
    IN  /\ clients' = [s \in Slots |-> IF s \in gone THEN left
                                       ELSE IF s \in DOMAIN res THEN res[s].slot ELSE table[s]]
        /\ sock' = [c \in Conns |->
                      IF \E s \in gone : table[s].conn = c THEN Closed
                      ELSE IF \E s \in DOMAIN res : table[s].conn = c
                      THEN res[CHOOSE s \in DOMAIN res : table[s].conn = c].sock
                      ELSE sock[c]]
        /\ ready' = (ready \ gone) \cup {s \in DOMAIN res : res[s].mod /\ Poll(res[s].sock, TRUE)}

\* bcast_note(skip, note)
bcast_note(skip, note) == [s \in {r \in Slots : r # skip /\ clients[r].active} |-> note]

Only(s, m) == [r \in {s} |-> m]

\* disconnect_client(s)
disconnect_client(s) ==
    SendAll(clients, IF clients[s].active THEN bcast_note(s, "disc") ELSE <<>>, {s}, FreeSlot)

-----------------------------------------------------------------------------
(* process_message() *)

\* process_message(s, &msg) handles a message of one of the kinds.
Processes(s, kinds) ==
    /\ at = "serve" /\ s = cur.fd
    /\ Complete(clients[s].rbuf) /\ clients[s].rbuf[1].m.kind \in kinds

\* The message at the head of rbuf, and clients[] once it is taken out.
Msg(s)   == clients[s].rbuf[1].m
Taken(s) == [clients EXCEPT ![s].rbuf = Drop(@, @[1].n),
                            ![s].rbuf_len = @ - clients[s].rbuf[1].n]

\* clients[] is table, and the message of slot s is answered.
Answer(table, s, m) == SendAll(table, Only(s, m), {}, FreeSlot)

\* Appends to history/<u>.log; gives up silently when fopen() fails.
save_history(u) ==
    \/ logged' = logged \cup {u}
    \/ "fopen" \in Faults /\ UNCHANGED logged

\* MSG_LOGIN: the name is looked for, validate() asks the discovery server,
\* while everything waits, and the name is entered.
process_login(s) ==
    /\ Processes(s, {"LOGIN", "BADLOGIN"})
    /\ \/ Answer(Taken(s), s, "err")
       \/ /\ Msg(s).kind = "LOGIN" /\ ~Online(Msg(s).from)
          /\ Answer([Taken(s) EXCEPT ![s].username = Msg(s).from, ![s].active = TRUE,
                                     ![s].status = "available"], s, "ack")
    /\ UNCHANGED <<logged, at>>

\* MSG_LOGOUT: the slot is cleared before total is subtracted from rbuf_len.
process_logout(s) ==
    /\ Processes(s, {"LOGOUT"})
    /\ SendAll(clients, bcast_note(s, "left"), {s},
               [FreeSlot EXCEPT !.rbuf_len = @ - clients[s].rbuf[1].n])
    /\ UNCHANGED <<logged, at>>

\* MSG_BROADCAST
process_broadcast(s) ==
    /\ Processes(s, {"BROADCAST"})
    /\ IF clients[s].active
       THEN /\ save_history(Msg(s).from)
            /\ SendAll(Taken(s),
                       [r \in {r \in Slots : clients[r].active} |->
                           IF r = s THEN "ack" ELSE "bcast"], {}, FreeSlot)
       ELSE Answer(Taken(s), s, "err") /\ UNCHANGED logged
    /\ UNCHANGED at

\* MSG_PRIVATE: the message, then the acknowledgement, maybe to one socket.
process_private(s) ==
    /\ Processes(s, {"PRIVATE"})
    /\ \/ \E t \in Slots :
            /\ clients[s].active /\ find_by_user(Msg(s).arg, t)
            /\ save_history(Msg(s).from)
            /\ Answer(clients, t, "priv")
            /\ at' = "ack"
       \/ /\ ~clients[s].active \/ ~Online(Msg(s).arg)
          /\ Answer(Taken(s), s, "err")
          /\ UNCHANGED <<logged, at>>

process_private_ack(s) ==
    /\ at = "ack" /\ s = cur.fd
    /\ Answer(Taken(s), s, "ack")
    /\ at' = "serve"
    /\ UNCHANGED logged

\* MSG_STATUS_CHANGE, accepted from clients not logged in too.
process_status(s) ==
    /\ Processes(s, {"STATUS"})
    /\ Answer([Taken(s) EXCEPT ![s].status = Msg(s).arg], s, "ack")
    /\ UNCHANGED <<logged, at>>

\* The requests answered without touching the table.
process_plain(s) ==
    /\ Processes(s, {"LIST", "HISTORY", "UNKNOWN"})
    /\ Answer(Taken(s), s,
              CASE Msg(s).kind = "LIST" -> "list"
                [] Msg(s).kind = "UNKNOWN" -> "err"
                [] OTHER -> IF Msg(s).from \in logged THEN "hist" ELSE "nohist")
    /\ UNCHANGED <<logged, at>>

process_message(s) ==
    /\ \/ process_login(s) \/ process_logout(s) \/ process_broadcast(s)
       \/ process_private(s) \/ process_private_ack(s) \/ process_status(s)
       \/ process_plain(s)
    /\ UNCHANGED <<batch, cur, missed>>

-----------------------------------------------------------------------------
(* handle_read() and handle_write() *)

\* The event e is taken from events[].
Handles(e) == at = "events" /\ e \in batch /\ batch' = batch \ {e}

\* EPOLLOUT of the event comes next, if it was reported.
Then(e) == /\ at' = IF e.out THEN "write" ELSE "events"
           /\ cur' = IF e.out THEN e ELSE NoEvent

Reads(e) == Handles(e) /\ e.fd # Listener /\ e.in /\ ~e.hup /\ InUse(e.fd)

\* n units are read into rbuf, then what is whole is processed.
Read(e, n) ==
    /\ clients' = [clients EXCEPT ![e.fd].rbuf = @ \o SubSeq(Sock(e.fd).rx, 1, n),
                                  ![e.fd].rbuf_len = @ + n]
    /\ sock' = [sock EXCEPT ![clients[e.fd].conn].rx = Drop(@, n)]
    /\ at' = "serve" /\ cur' = e
    /\ UNCHANGED ready

\* Mutant of handle_read: one read() instead of a loop.
handle_read_once(e) ==
    /\ Reads(e)
    /\ IF Sock(e.fd).rx = <<>> THEN disconnect_client(e.fd) /\ Then(e) ELSE Read(e, 1)
    /\ UNCHANGED <<logged, missed>>

\* handle_read(): reads until EAGAIN.  A full rbuf, end of file or an error
\* ends the session, whatever rbuf holds.
handle_read(e) ==
    LET k == Sock(e.fd) IN
    /\ Reads(e)
    /\ IF clients[e.fd].rbuf_len + Len(k.rx) >= RbufSize \/ Eof(k) \/ Dead(k)
       THEN disconnect_client(e.fd) /\ Then(e)
       ELSE Read(e, Len(k.rx))
    /\ UNCHANGED <<logged, missed>>

\* Mutant of handle_read_ends: one message per event.
handle_read_ends_early ==
    /\ at = "serve" /\ Then(cur)
    /\ UNCHANGED <<clients, logged, batch, ready, sock, missed>>

\* No whole message is left in rbuf.
handle_read_ends ==
    /\ at = "serve" /\ Then(cur)
    /\ ~Complete(clients[cur.fd].rbuf)
    /\ UNCHANGED <<clients, logged, batch, ready, sock, missed>>

\* sb_flush() until EAGAIN; keep is whether EPOLLOUT is still asked for then.
\* epmod() looks at the socket again.
Flush(keep) ==
    LET s == cur.fd
        b == clients[s].sbuf
        n == Takes(Sock(s), b)
    IN  /\ at = "write"
        /\ at' = "events" /\ cur' = NoEvent
        /\ IF ~InUse(s) THEN UNCHANGED <<clients, ready, sock>>
           ELSE IF Dead(Sock(s)) /\ b # <<>> THEN disconnect_client(s)
           ELSE /\ clients' = [clients EXCEPT ![s].sbuf = Drop(@, n),
                                              ![s].out = keep /\ n < Len(b)]
                /\ sock' = [sock EXCEPT ![clients[s].conn].tx = @ \o SubSeq(b, 1, n)]
                /\ ready' = ready \cup {r \in {s} : n = Len(b) /\ Poll(Sock(s), FALSE)}
        /\ UNCHANGED <<logged, batch, missed>>

\* Mutant of handle_write: EPOLLOUT is given up after a partial flush too.
handle_write_forgets == Flush(FALSE)

\* handle_write(): EPOLLOUT is asked for until all is written.
handle_write == Flush(TRUE)

-----------------------------------------------------------------------------
(* main() *)

\* The batch is done; epoll_wait() is next.
Waiting == at = "events" /\ batch = {}

\* epoll_wait(): an event for every descriptor on the ready list that still
\* has something to report.
epoll_wait ==
    /\ Waiting
    /\ ready # {}
    /\ batch' = {Event(s, clients[s].conn, Input(Sock(s)),
                       clients[s].out /\ Len(Sock(s).tx) < SockCap, Dead(Sock(s))) :
                    s \in {r \in ready \cap Slots : InUse(r) /\ Poll(Sock(r), clients[r].out)}}
                \cup {e \in {ListenerEvent} : Listener \in ready}
    /\ ready' = {}
    /\ UNCHANGED <<clients, logged, at, cur, sock, missed>>

\* EPOLLERR or EPOLLHUP.
handle_hup(e) ==
    /\ Handles(e) /\ e.hup
    /\ IF InUse(e.fd) THEN disconnect_client(e.fd) ELSE UNCHANGED <<clients, ready, sock>>
    /\ UNCHANGED <<logged, at, cur, missed>>

\* EPOLLOUT only, or EPOLLIN for a descriptor find_by_fd() does not know.
handle_other(e) ==
    /\ Handles(e) /\ e.fd # Listener /\ ~e.hup
    /\ e.in => ~InUse(e.fd)
    /\ Then(e)
    /\ UNCHANGED <<clients, logged, ready, sock, missed>>

main_listener(e) ==
    /\ Handles(e) /\ e.fd = Listener
    /\ at' = "accept"
    /\ UNCHANGED <<clients, logged, cur, ready, sock, missed>>

\* accept() gives connection c, which gets slot s, set to new[s], or is told
\* "Server full".  EPOLL_CTL_ADD reports what has come already.
Admit(c, new) ==
    /\ at = "accept"
    /\ sock[c].state = "backlog"
    /\ \/ \E s \in Slots :
            /\ find_free(s)
            /\ clients' = [clients EXCEPT ![s] = [new[s] EXCEPT !.conn = c]]
            /\ sock' = [sock EXCEPT ![c].state = "open"]
            /\ ready' = ready \cup {r \in {s} : Poll(sock[c], FALSE)}
       \/ /\ \A s \in Slots : InUse(s)
          /\ sock' = [sock EXCEPT ![c] = Closed]
          /\ UNCHANGED <<clients, ready>>
    /\ UNCHANGED <<logged, at, batch, cur, missed>>

\* Mutant of main_accept: no memset(), as disconnect_client() has done it.
main_accept_unzeroed(c) == Admit(c, clients)

\* memset() clears the slot first.
main_accept(c) == Admit(c, [s \in Slots |-> FreeSlot])

\* accept() fails: EAGAIN, or an error.
main_accept_ends ==
    LET left == \E c \in Conns : sock[c].state = "backlog" IN
    /\ at = "accept"
    /\ left => "accept" \in Faults
    /\ missed' = left
    /\ at' = "events"
    /\ UNCHANGED <<clients, logged, batch, cur, ready, sock>>

\* SIGINT or SIGTERM: running is read between two batches, then all descriptors
\* are closed.
main_exit ==
    /\ "signal" \in Faults
    /\ Waiting
    /\ at' = "down"
    /\ sock' = [c \in Conns |-> Closed]
    /\ ready' = {}
    /\ UNCHANGED <<clients, logged, batch, cur, missed>>

-----------------------------------------------------------------------------
(* The clients and the network *)

\* Something changes at the socket of connection c; its descriptor, if it has
\* one and wake holds, goes on the ready list.
Change(c, new, wake) ==
    /\ sock' = [sock EXCEPT ![c] = new]
    /\ ready' = ready \cup {s \in Slots : wake /\ clients[s].conn = c}
    /\ UNCHANGED server

Connected(k) == k.state \in {"backlog", "open"}

client_connect(c) ==
    /\ sock[c].state = "none"
    /\ sock' = [sock EXCEPT ![c].state = "backlog"]
    /\ ready' = ready \cup {Listener}
    /\ missed' = FALSE
    /\ UNCHANGED server

\* The client sends a request, and its header arrives; the rest may take longer.
client_send(c) ==
    LET k == sock[c] IN
    /\ Connected(k) /\ k.client = "open" /\ k.budget > 0 /\ k.way = <<>>
    /\ \E m \in Requests(c) :
          LET u == Units(m.kind, m) IN
          Change(c, [k EXCEPT !.rx = Append(@, u[1]), !.way = Tail(u), !.budget = @ - 1], TRUE)
    /\ UNCHANGED missed

\* The rest of a request arrives.
arrive(c) ==
    LET k == sock[c] IN
    /\ k.way # <<>>
    /\ Change(c, [k EXCEPT !.rx = Append(@, k.way[1]), !.way = Tail(@)], TRUE)
    /\ UNCHANGED missed

\* The client reads part of a message; the first room made in a full socket
\* is reported if EPOLLOUT was asked for.
client_read(c) ==
    LET k == sock[c]
        p == Append(k.part, k.tx[1])
    IN  /\ k.tx # <<>> /\ k.client = "open"
        /\ Change(c, [k EXCEPT !.tx = Tail(@), !.part = IF Complete(p) THEN <<>> ELSE p],
                  Len(k.tx) = SockCap /\ \E s \in Slots : clients[s].conn = c /\ clients[s].out)
        /\ UNCHANGED missed

\* The client closes its end: what it has sent still arrives.
client_close(c) ==
    LET k == sock[c] IN
    /\ Connected(k) /\ k.client = "open"
    /\ Change(c, [k EXCEPT !.client = "closed"], k.way = <<>>)
    /\ UNCHANGED missed

\* The client dies, or its host answers what the server sends with a reset.
client_reset(c) ==
    LET k == sock[c] IN
    /\ c \in Mortal /\ Connected(k) /\ ~Dead(k)
    /\ Change(c, [k EXCEPT !.client = "dead", !.rx = <<>>, !.way = <<>>, !.tx = <<>>,
                           !.part = <<>>], TRUE)
    /\ UNCHANGED missed

-----------------------------------------------------------------------------
(* The specification *)

Init ==
    /\ clients = [s \in Slots |-> FreeSlot]
    /\ logged = {}
    /\ at = "events" /\ batch = {} /\ cur = NoEvent
    /\ sock = [c \in Conns |-> NewSock(c)]
    /\ ready = {} /\ missed = FALSE

LoopStep ==
    \/ epoll_wait \/ main_accept_ends \/ handle_read_ends \/ handle_write
    \/ \E s \in Slots : process_message(s)
    \/ \E e \in batch : handle_read(e) \/ handle_hup(e) \/ handle_other(e) \/ main_listener(e)
    \/ \E c \in Conns : main_accept(c)

Next ==
    \/ LoopStep \/ main_exit
    \/ \E c \in Conns : \/ client_connect(c) \/ client_send(c) \/ arrive(c)
                        \/ client_read(c) \/ client_close(c) \/ client_reset(c)

Spec == Init /\ [][Next]_vars

\* The loop runs (the discovery server answers validate(), or the connection to
\* it fails), the network delivers, and the clients read what is sent to them.
FairSpec ==
    /\ Spec
    /\ WF_vars(LoopStep)
    /\ \A c \in Conns : WF_vars(arrive(c)) /\ WF_vars(client_read(c))

-----------------------------------------------------------------------------
(* Properties *)

\* The types of the variables, and the bounds of the buffers.
TypeOK ==
    /\ \A s \in Slots :
          /\ clients[s].conn \in Conns \cup {Nobody}
          /\ clients[s].active \in BOOLEAN /\ clients[s].out \in BOOLEAN
          /\ clients[s].username \in Users \cup {NoUser}
          /\ clients[s].status \in Statuses
          /\ clients[s].rbuf_len \in -MaxUnits..RbufSize
          /\ Len(clients[s].rbuf) <= RbufSize /\ Len(clients[s].sbuf) <= SbufSize
    /\ logged \subseteq Users /\ missed \in BOOLEAN
    /\ at \in {"events", "accept", "serve", "ack", "write", "down"}
    /\ \A e \in batch \cup {cur} : e.fd \in Slots \cup {Listener}
    /\ ready \subseteq Slots \cup {Listener}
    /\ \A c \in Conns :
          /\ sock[c].state \in {"none", "backlog", "open", "closed"}
          /\ sock[c].client \in {"open", "closed", "dead"}
          /\ sock[c].budget \in Nat
          /\ Len(sock[c].tx) <= SockCap

\* What a client has read and will read is a sequence of whole messages,
\* however write() cut them up and whatever a full SendBuf made sb_push() refuse.
WellFramed ==
    \A s \in Slots : InUse(s) /\ Connected(Sock(s)) /\ ~Dead(Sock(s)) =>
        LET b == Sock(s).part \o Sock(s).tx \o clients[s].sbuf
        IN  \A k \in 1..Len(b) :
               /\ b[k].k > 1 => k > 1 /\ b[k - 1] = [b[k] EXCEPT !.k = @ - 1]
               /\ b[k].k < b[k].n => k < Len(b) /\ b[k + 1] = [b[k] EXCEPT !.k = @ + 1]

\* Edge triggering loses nothing: when the loop waits, everything it has yet to
\* read, to write or to accept is on epoll's ready list or will get there when
\* the socket has room; only a connection left behind by a failed accept() waits
\* for the next one to come.
NoLostEdge ==
    Waiting =>
        /\ \A s \in Slots : InUse(s) =>
              /\ Poll(Sock(s), FALSE) => s \in ready
              /\ clients[s].sbuf # <<>> =>
                    clients[s].out /\ (Poll(Sock(s), TRUE) => s \in ready)
        /\ (\E c \in Conns : sock[c].state = "backlog") => Listener \in ready \/ missed

\* A message does not stay in rbuf once it is whole: after handle_read() no
\* event would ever bring the loop back to it.
NothingLeftInRbuf ==
    \A s \in Slots : Complete(clients[s].rbuf) => at \in {"serve", "ack"} /\ cur.fd = s

\* An event of the batch is never applied to another connection than the one it
\* was reported for, although descriptors and slots are reused within a batch.
EventsFresh ==
    \A e \in batch \cup {cur} :
        e.fd \in Slots /\ InUse(e.fd) => clients[e.fd].conn = e.for

\* While a slot is in use rbuf_len is the number of units in rbuf, although
\* handle_read() goes on subtracting from it after MSG_LOGOUT has cleared it.
RbufLenExact ==
    \A s \in Slots : InUse(s) =>
        clients[s].rbuf_len = Len(clients[s].rbuf) /\ clients[s].rbuf_len < RbufSize

\* What is buffered for a client is written, or the client goes and the slot is
\* cleared: again and again the send buffer is empty.
SendBufDrains == \A s \in Slots : []<>(clients[s].sbuf = <<>> \/ at = "down")

\* README: rbuf "accumulates bytes until a full message is assembled".  What
\* ends a session is no whole message waiting to be processed.
AssembledIsProcessed ==
    [][\A s \in Slots :
          InUse(s) /\ at = "events" /\ clients'[s].conn = Nobody =>
              ~Complete(clients[s].rbuf \o Sock(s).rx)]_vars

=============================================================================
