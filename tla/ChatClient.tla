----------------------------- MODULE ChatClient -----------------------------
(***************************************************************************)
(* chat_client.c: the main thread, which registers, logs in and reads the  *)
(* commands of the user; receiver_thread(); and sig_handler(), which runs  *)
(* on the main thread between any two of its steps; and what the chat      *)
(* servers do to one connection.                                           *)
(*                                                                         *)
(* The connection carries whole messages in order, which is what Wire      *)
(* shows of send_message() and recv_message().  Messages are kinds; what   *)
(* is printed is left out.                                                 *)
(***************************************************************************)
EXTENDS Naturals, Sequences

CONSTANTS
    Lines,      \* bound: commands the user types
    Notes,      \* bound: messages of other clients
    Signals     \* bound: SIGINTs and SIGTERMs

ASSUME ClientAssumption == Lines \in Nat /\ Notes \in Nat /\ Signals \in Nat

VARIABLES
    main,        \* where main() is
    receiver,    \* where receiver_thread() is
    running,
    server_fd,   \* none (-1), open, shut (down) or closed
    up, down,    \* messages on their way to the server and to the client
    session,     \* what the server makes of the connection
    accepted,    \* history: the server has accepted MSG_LOGIN
    left,        \* bounds: lines, notes and signals to come
    said,        \* history: the last MSG_LOGIN or MSG_LOGOUT sent
    past         \* history: what the properties make exceptions for

server == <<session, accepted>>
vars   == <<main, receiver, running, server_fd, up, down, server, left, said, past>>

Ended == {"exit", "failed"}

\* send_message(server_fd, m): the result is ignored everywhere.
Put(m) ==
    IF server_fd = "open" /\ session # "gone"
    THEN up' = Append(up, m) /\ said' = IF m = "LOGIN" \/ m = "LOGOUT" THEN m ELSE said
    ELSE UNCHANGED <<up, said>>

\* recv_message() returns -1: the server, or shutdown(), has ended the connection.
EndOfFile == down = <<>> /\ (session = "gone" \/ server_fd = "shut")

-----------------------------------------------------------------------------
(* main() up to the input loop *)

\* The user chooses to register, or not.
main_start ==
    /\ main = "start"
    /\ main' \in {"register", "connect"}
    /\ UNCHANGED <<receiver, running, server_fd, up, down, server, left, said, past>>

\* register_with_discovery(): it answers, or not, and the connection is closed.
register_with_discovery ==
    /\ main = "register"
    /\ main' \in {"connect", "failed"}
    /\ UNCHANGED <<receiver, running, server_fd, up, down, server, left, said, past>>

\* login_to_chat(): tcp_connect()
login_connect ==
    /\ main = "connect"
    /\ \/ main' = "login" /\ server_fd' = "open" /\ session' = "open"
       \/ main' = "failed" /\ UNCHANGED <<server_fd, session>>
    /\ UNCHANGED <<receiver, running, up, down, accepted, left, said, past>>

\* login_to_chat(): MSG_LOGIN is sent
login_send ==
    /\ main = "login" /\ main' = "answer"
    /\ Put("LOGIN")
    /\ UNCHANGED <<receiver, running, server_fd, down, server, left, past>>

\* login_to_chat(): the first message is the answer; those in bad refuse.
Answer(bad) ==
    /\ main = "answer"
    /\ down # <<>> \/ EndOfFile
    /\ IF down # <<>> /\ down[1] \notin bad
       THEN main' = "spawn" /\ down' = Tail(down) /\ UNCHANGED server_fd
       ELSE main' = "failed" /\ server_fd' = "none" /\ UNCHANGED down
    /\ UNCHANGED <<receiver, running, up, server, left, said, past>>

\* Mutant of login_recv: only the result of recv_message() is tested.
login_recv_any == Answer({})

login_recv == Answer({"err"})

\* pthread_create()
main_spawn ==
    /\ main = "spawn"
    /\ \/ main' = "input" /\ receiver' = "loop"
       \/ main' = "failed" /\ UNCHANGED receiver
    /\ UNCHANGED <<running, server_fd, up, down, server, left, said, past>>

-----------------------------------------------------------------------------
(* input_loop() and the end of main() *)

\* running is tested; then main() is in fgets(), which a signal does not end.
input_test ==
    /\ main = "input"
    /\ main' = IF running THEN "fgets" ELSE "leave"
    /\ UNCHANGED <<receiver, running, server_fd, up, down, server, left, said, past>>

\* A command that sends a message, also when running has been reset meanwhile.
input_command ==
    /\ main = "fgets" /\ left.lines > 0
    /\ Put("command")
    /\ left' = [left EXCEPT !.lines = @ - 1]
    /\ main' = "input"
    /\ UNCHANGED <<receiver, running, server_fd, down, server, past>>

\* Mutant of input_other: what is not a command is sent as it is.
input_other_sent ==
    /\ main = "fgets" /\ left.lines > 0
    /\ Put("line")
    /\ left' = [left EXCEPT !.lines = @ - 1]
    /\ main' = "input"
    /\ UNCHANGED <<receiver, running, server_fd, down, server, past>>

\* An empty line, /help, wrong usage or an unknown command.
input_other ==
    /\ main = "fgets" /\ left.lines > 0
    /\ left' = [left EXCEPT !.lines = @ - 1]
    /\ main' = "input"
    /\ UNCHANGED <<receiver, running, server_fd, up, down, server, said, past>>

\* /quit: MSG_LOGOUT is sent, then running is reset.
input_quit ==
    /\ main = "fgets" /\ main' = "quit"
    /\ Put("LOGOUT")
    /\ UNCHANGED <<receiver, running, server_fd, down, server, left, past>>

\* fgets() returns NULL: nothing is sent.
input_eof ==
    /\ main = "fgets" /\ main' = "leave"
    /\ past' = past \cup {"eof"}
    /\ UNCHANGED <<receiver, running, server_fd, up, down, server, left, said>>

\* running = 0, by /quit and after the loop.
main_leave ==
    /\ main \in {"quit", "leave"}
    /\ running' = FALSE
    /\ main' = IF main = "quit" THEN "leave" ELSE "shutdown"
    /\ UNCHANGED <<receiver, server_fd, up, down, server, left, said, past>>

\* Mutant of main_shutdown: left out.
main_shutdown_not ==
    /\ main = "shutdown" /\ main' = "join"
    /\ UNCHANGED <<receiver, running, server_fd, up, down, server, left, said, past>>

\* shutdown(server_fd, SHUT_RDWR): what has been sent still arrives.
main_shutdown ==
    /\ main = "shutdown" /\ main' = "join"
    /\ server_fd' = "shut"
    /\ UNCHANGED <<receiver, running, up, down, server, left, said, past>>

\* Mutant of main_join: pthread_detach() instead.
main_join_not ==
    /\ main = "join" /\ main' = "close"
    /\ UNCHANGED <<receiver, running, server_fd, up, down, server, left, said, past>>

\* pthread_join()
main_join ==
    /\ main = "join" /\ main' = "close"
    /\ receiver = "done"
    /\ UNCHANGED <<receiver, running, server_fd, up, down, server, left, said, past>>

main_close ==
    /\ main = "close" /\ main' = "exit"
    /\ server_fd' = "closed"
    /\ UNCHANGED <<receiver, running, up, down, server, left, said, past>>

-----------------------------------------------------------------------------
(* receiver_thread() and sig_handler() *)

receiver_loop ==
    /\ receiver = "loop"
    /\ receiver' = IF running THEN "recv" ELSE "done"
    /\ UNCHANGED <<main, running, server_fd, up, down, server, left, said, past>>

\* A message is received and printed.
receiver_message ==
    /\ receiver = "recv" /\ main \notin Ended
    /\ down # <<>>
    /\ down' = Tail(down) /\ receiver' = "loop"
    /\ UNCHANGED <<main, running, server_fd, up, server, left, said, past>>

receiver_fails ==
    /\ receiver = "recv" /\ main \notin Ended
    /\ EndOfFile
    /\ running' = FALSE /\ receiver' = "done"
    /\ UNCHANGED <<main, server_fd, up, down, server, left, said, past>>

\* SIGINT or SIGTERM: sig_handler() takes the step, then resets running.
Signal(step) ==
    /\ left.signals > 0 /\ main \notin Ended
    /\ left' = [left EXCEPT !.signals = @ - 1]
    /\ step
    /\ running' = FALSE
    /\ UNCHANGED <<main, receiver, server_fd, down, server>>

\* Mutant of sig_handler: it only resets running.
sig_handler_silent == Signal(UNCHANGED <<up, said, past>>)

\* sig_handler(): MSG_LOGOUT is sent if there is a connection and running is
\* set.  The signal is early if MSG_LOGIN has yet to be sent: nothing stops
\* login_to_chat() from sending it.
sig_handler ==
    Signal(/\ IF running /\ server_fd # "none" THEN Put("LOGOUT") ELSE UNCHANGED <<up, said>>
           /\ past' = past \cup {e \in {"early"} : server_fd = "none" \/ main = "login"})

-----------------------------------------------------------------------------
(* The chat servers, at the other end of the connection *)

\* A message reaches the server.  A login is accepted or refused; the thread
\* server may send a message of another client between the acceptance and the
\* acknowledgement.  The fork server does not end the connection upon
\* MSG_LOGOUT.  Some commands are carried out for clients not logged in too.
server_serves ==
    /\ up # <<>> /\ session # "gone"
    /\ up' = Tail(up)
    /\ \/ /\ up[1] = "LOGIN"
          /\ \/ /\ session' = "active" /\ accepted' = TRUE
                /\ \/ down' = Append(down, "ack") /\ UNCHANGED left
                   \/ /\ left.notes > 0
                      /\ down' = down \o <<"note", "ack">>
                      /\ left' = [left EXCEPT !.notes = @ - 1]
             \/ down' = Append(down, "err") /\ UNCHANGED <<server, left>>
       \/ /\ up[1] = "LOGOUT" /\ session' \in {"open", "gone"}
          /\ UNCHANGED <<down, accepted, left>>
       \/ /\ up[1] = "command"
          /\ \E answer \in {"ack", "err"} : down' = Append(down, answer)
          /\ UNCHANGED <<server, left>>
    /\ UNCHANGED <<main, receiver, running, server_fd, said, past>>

\* Another client's message is written to the connection.  The thread server's
\* slot_send() uses a slot found active before (in route() and bcast_note()),
\* which may have been given to this connection since: the client need not have
\* logged in, and the message is then stray.
server_note ==
    /\ session \in {"open", "active"} /\ left.notes > 0
    /\ down' = Append(down, "note")
    /\ left' = [left EXCEPT !.notes = @ - 1]
    /\ past' = past \cup {e \in {"stray"} : ~accepted}
    /\ UNCHANGED <<main, receiver, running, server_fd, up, server, said>>

\* The server, or the connection, ends; or the server sees that the client has.
server_ends ==
    /\ session \in {"open", "active"}
    /\ session' = "gone"
    /\ past' = past \cup {e \in {"dropped"} : server_fd = "open"}
    /\ UNCHANGED <<main, receiver, running, server_fd, up, down, accepted, left, said>>

-----------------------------------------------------------------------------
(* The specification *)

Init ==
    /\ main = "start" /\ receiver = "none" /\ running = TRUE /\ server_fd = "none"
    /\ up = <<>> /\ down = <<>> /\ session = "none" /\ accepted = FALSE
    /\ left = [lines |-> Lines, notes |-> Notes, signals |-> Signals]
    /\ said = "nothing" /\ past = {}

Main ==
    \/ main_start \/ register_with_discovery \/ login_connect \/ login_send \/ login_recv
    \/ main_spawn \/ input_test \/ input_command \/ input_other \/ input_quit \/ input_eof
    \/ main_leave \/ main_shutdown \/ main_join \/ main_close

Receiver == receiver_loop \/ receiver_message \/ receiver_fails

Next == Main \/ Receiver \/ sig_handler \/ server_serves \/ server_note \/ server_ends

\* Both threads run, and the user does not leave fgets() waiting for ever: it
\* has a line, or the end of the input, at last.  The server may be silent.
Spec == Init /\ [][Next]_vars /\ WF_vars(Main) /\ WF_vars(Receiver)

-----------------------------------------------------------------------------
(* Properties *)

\* The types of the variables; the server is sent nothing but commands.
TypeOK ==
    /\ main \in {"start", "register", "connect", "login", "answer", "spawn", "input", "fgets",
                 "quit", "leave", "shutdown", "join", "close"} \cup Ended
    /\ receiver \in {"none", "loop", "recv", "done"}
    /\ running \in BOOLEAN /\ accepted \in BOOLEAN
    /\ server_fd \in {"none", "open", "shut", "closed"}
    /\ \A k \in DOMAIN up : up[k] \in {"LOGIN", "LOGOUT", "command"}
    /\ \A k \in DOMAIN down : down[k] \in {"ack", "err", "note"}
    /\ session \in {"none", "open", "active", "gone"}
    /\ left \in [lines : 0..Lines, notes : 0..Notes, signals : 0..Signals]
    /\ said \in {"nothing", "LOGIN", "LOGOUT"}
    /\ past \subseteq {"eof", "dropped", "early", "stray"}

\* receiver_thread() never calls recv_message() on a descriptor that main() has
\* closed and that could be another file by then.
ReceiverOnOpenSocket == receiver = "recv" => server_fd \in {"open", "shut"}

\* The client takes commands only after the server has accepted its login,
\* whatever refusals and signals came before, with one exception: a message of
\* another client that the thread server wrote to a slot it had given away
\* meanwhile is, to login_to_chat(), an answer without an error.
InputAfterLogin ==
    main \in {"input", "fgets", "quit"} => accepted \/ "stray" \in past

\* What the client has told the server last, when it ends, is MSG_LOGOUT: no
\* login of its own stands after it.  The exceptions: the input ended, the
\* server ended the connection first, or the signal came before MSG_LOGIN was
\* sent, which then goes out after the handler's MSG_LOGOUT, if there was one.
PoliteExit ==
    main = "exit" => said = "LOGOUT" \/ past \cap {"eof", "dropped", "early"} # {}

\* Once the connection is lost, the user has quit or a signal came, the client
\* ends, although receiver_thread() may be in a read() that the server never
\* answers: shutdown() wakes it.
Ends == (receiver # "none" /\ ~running) ~> main = "exit"

=============================================================================
