-------------------------- MODULE ChatClientProofs --------------------------
(***************************************************************************)
(* Proofs about ChatClient, for any number of commands, of messages of     *)
(* other clients and of signals.                                           *)
(***************************************************************************)
EXTENDS ChatClient, SequenceTheorems, TLAPS

UpKind   == {"LOGIN", "LOGOUT", "command"}
DownKind == {"ack", "err", "note"}

Connecting == {"start", "register", "connect"}
LoggingIn  == {"login", "answer"}
Reading    == {"input", "fgets"}
Leaving    == {"quit", "leave", "shutdown"}
Stopped    == {"join", "close"}

\* What TypeOK leaves open: both directions are sequences.
WireInv == up \in Seq(UpKind) /\ down \in Seq(DownKind)

\* The descriptor is open from tcp_connect() to shutdown().
SocketInv ==
    /\ main \in Connecting => server_fd = "none" /\ session = "none" /\ up = <<>>
    /\ main \in LoggingIn \cup {"spawn"} \cup Reading \cup Leaving => server_fd = "open"
    /\ main \in Stopped => server_fd = "shut"
    /\ main = "exit" => server_fd = "closed"

\* The receiver runs from pthread_create() to pthread_join().
ReceiverInv ==
    /\ receiver # "none" => main \in Reading \cup Leaving \cup Stopped \cup {"exit"}
    /\ main \in {"close", "exit"} => receiver = "done"

\* Nothing but refusals comes before the acceptance or a stray message.
LoginInv ==
    /\ session = "active" => accepted
    /\ ~accepted /\ "stray" \notin past =>
          /\ \A k \in DOMAIN down : down[k] = "err"
          /\ \A k \in DOMAIN up : up[k] # "command"
    /\ main \in {"spawn"} \cup Reading \cup {"quit"} => accepted \/ "stray" \in past

\* MSG_LOGOUT is sent and no MSG_LOGIN after it, or there is an exception.
Excused == past \cap {"eof", "dropped", "early"} # {}
Parted  == said = "LOGOUT" \/ Excused

\* Whatever makes the client leave has parted it from the server, and a login
\* does not undo that.
LeaveInv ==
    /\ main \in Leaving \cup Stopped \cup {"exit"} => Parted
    /\ ~running => Parted
    /\ session = "gone" /\ main # "failed" => Parted
    /\ \A k \in DOMAIN up : up[k] = "LOGOUT" => Parted
    /\ main \in Connecting \cup {"login"} /\ Parted => Excused

IInv == TypeOK /\ WireInv /\ SocketInv /\ ReceiverInv /\ LoginInv /\ LeaveInv

-----------------------------------------------------------------------------
(* The connection *)

\* send_message() adds a message at the end, or nothing.
LEMMA PutStep ==
  ASSUME WireInv, NEW m \in UpKind, Put(m)
  PROVE  /\ up' \in Seq(UpKind)
         /\ \A k \in DOMAIN up' : up'[k] = m \/ (k \in DOMAIN up /\ up'[k] = up[k])
         /\ said' = said \/ (m # "command" /\ said' = m)
  <1>1. CASE server_fd = "open" /\ session # "gone"
    <2>1. up' = Append(up, m) /\ (said' = m \/ said' = said) /\ (m = "command" => said' = said)
      BY <1>1 DEF Put
    <2> QED
      BY <2>1 DEF WireInv
  <1>2. CASE ~(server_fd = "open" /\ session # "gone")
    BY <1>2 DEF WireInv, Put
  <1> QED
    BY <1>1, <1>2

\* A login or a logout that is sent is the last thing said.
LEMMA PutSaid ==
  ASSUME NEW m \in {"LOGIN", "LOGOUT"}, Put(m)
  PROVE  \/ said' = m
         \/ (server_fd # "open" \/ session = "gone") /\ UNCHANGED <<up, said>>
  BY DEF Put

\* What is received first is taken away.
LEMMA TailStep ==
  ASSUME NEW S, NEW q \in Seq(S), q # <<>>
  PROVE  /\ Tail(q) \in Seq(S) /\ q[1] \in S
         /\ \A k \in DOMAIN Tail(q) : k + 1 \in DOMAIN q /\ Tail(q)[k] = q[k + 1]
  OBVIOUS

\* Every step keeps both directions sequences of messages.
LEMMA WireStep == TypeOK /\ WireInv /\ [Next]_vars => WireInv'
<1> SUFFICES ASSUME TypeOK, WireInv, [Next]_vars PROVE WireInv'
  OBVIOUS
<1> USE DEF WireInv
<1>1. CASE main_start
  BY <1>1 DEF main_start
<1>2. CASE register_with_discovery
  BY <1>2 DEF register_with_discovery
<1>3. CASE login_connect
  BY <1>3 DEF login_connect
<1>4. CASE login_send
  BY <1>4, PutStep DEF login_send, UpKind
<1>5. CASE login_recv
  BY <1>5, TailStep DEF login_recv, Answer
<1>6. CASE main_spawn
  BY <1>6 DEF main_spawn
<1>7. CASE input_test
  BY <1>7 DEF input_test
<1>8. CASE input_command
  BY <1>8, PutStep DEF input_command, UpKind
<1>9. CASE input_other
  BY <1>9 DEF input_other
<1>10. CASE input_quit
  BY <1>10, PutStep DEF input_quit, UpKind
<1>11. CASE input_eof
  BY <1>11 DEF input_eof
<1>12. CASE main_leave
  BY <1>12 DEF main_leave
<1>13. CASE main_shutdown
  BY <1>13 DEF main_shutdown
<1>14. CASE main_join
  BY <1>14 DEF main_join
<1>15. CASE main_close
  BY <1>15 DEF main_close
<1>16. CASE receiver_loop
  BY <1>16 DEF receiver_loop
<1>17. CASE receiver_message
  BY <1>17, TailStep DEF receiver_message
<1>18. CASE receiver_fails
  BY <1>18 DEF receiver_fails, EndOfFile
<1>19. CASE sig_handler
  <2>1. CASE Put("LOGOUT")
    BY <1>19, <2>1, PutStep DEF sig_handler, Signal, UpKind
  <2>2. CASE UNCHANGED <<up, said>>
    BY <1>19, <2>2 DEF sig_handler, Signal
  <2> QED
    BY <1>19, <2>1, <2>2 DEF sig_handler, Signal
<1>20. CASE server_serves
  <2>1. up' \in Seq(UpKind)
    BY <1>20, TailStep DEF server_serves
  <2>2. \/ down' = down \/ down' = down \o <<"note", "ack">>
        \/ \E m \in DownKind : down' = Append(down, m)
    BY <1>20 DEF server_serves, DownKind
  <2>3. down \o <<"note", "ack">> \in Seq(DownKind)
    <3>1. <<"note", "ack">> \in Seq(DownKind)
      BY DEF DownKind
    <3> QED
      BY <3>1
  <2>4. ASSUME NEW m \in DownKind PROVE Append(down, m) \in Seq(DownKind)
    OBVIOUS
  <2>5. down' \in Seq(DownKind)
    BY <2>2, <2>3, <2>4
  <2> QED
    BY <2>1, <2>5
<1>21. CASE server_note
  BY <1>21 DEF server_note, DownKind
<1>22. CASE server_ends
  BY <1>22 DEF server_ends
<1>23. CASE UNCHANGED vars
  BY <1>23 DEF vars, server
<1> QED
  BY <1>1, <1>2, <1>3, <1>4, <1>5, <1>6, <1>7, <1>8, <1>9, <1>10, <1>11, <1>12, <1>13, <1>14,
     <1>15, <1>16, <1>17, <1>18, <1>19, <1>20, <1>21, <1>22, <1>23 DEF Next, Main, Receiver

\* Every step keeps the types.
LEMMA TypeStep == TypeOK /\ WireInv /\ WireInv' /\ [Next]_vars => TypeOK'
<1> SUFFICES ASSUME TypeOK, WireInv, WireInv', [Next]_vars PROVE TypeOK'
  OBVIOUS
<1>a. /\ \A k \in DOMAIN up' : up'[k] \in {"LOGIN", "LOGOUT", "command"}
      /\ \A k \in DOMAIN down' : down'[k] \in {"ack", "err", "note"}
  BY DEF WireInv, UpKind, DownKind
<1>b. ASSUME left' = left PROVE left' \in [lines : 0..Lines, notes : 0..Notes, signals : 0..Signals]
  BY <1>b DEF TypeOK
<1>c. ASSUME NEW m \in UpKind, Put(m) PROVE said' \in {"nothing", "LOGIN", "LOGOUT"}
  BY <1>c, PutStep DEF TypeOK, UpKind
<1> USE <1>a, <1>b, ClientAssumption DEF Ended
<1>1. CASE main_start
  BY <1>1 DEF main_start, TypeOK, server
<1>2. CASE register_with_discovery
  BY <1>2 DEF register_with_discovery, TypeOK, server
<1>3. CASE login_connect
  BY <1>3 DEF login_connect, TypeOK, server
<1>4. CASE login_send
  BY <1>4, <1>c DEF login_send, TypeOK, server, UpKind
<1>5. CASE login_recv
  BY <1>5 DEF login_recv, Answer, EndOfFile, TypeOK, server
<1>6. CASE main_spawn
  BY <1>6 DEF main_spawn, TypeOK, server
<1>7. CASE input_test
  BY <1>7 DEF input_test, TypeOK, server
<1>8. CASE input_command
  BY <1>8, <1>c DEF input_command, TypeOK, server, UpKind
<1>9. CASE input_other
  BY <1>9 DEF input_other, TypeOK, server
<1>10. CASE input_quit
  BY <1>10, <1>c DEF input_quit, TypeOK, server, UpKind
<1>11. CASE input_eof
  BY <1>11 DEF input_eof, TypeOK, server
<1>12. CASE main_leave
  BY <1>12 DEF main_leave, TypeOK, server
<1>13. CASE main_shutdown
  BY <1>13 DEF main_shutdown, TypeOK, server
<1>14. CASE main_join
  BY <1>14 DEF main_join, TypeOK, server
<1>15. CASE main_close
  BY <1>15 DEF main_close, TypeOK, server
<1>16. CASE receiver_loop
  BY <1>16 DEF receiver_loop, TypeOK, server
<1>17. CASE receiver_message
  BY <1>17 DEF receiver_message, TypeOK, server
<1>18. CASE receiver_fails
  BY <1>18 DEF receiver_fails, EndOfFile, TypeOK, server
<1>19. CASE sig_handler
  <2>1. left' \in [lines : 0..Lines, notes : 0..Notes, signals : 0..Signals]
    BY <1>19 DEF sig_handler, Signal, TypeOK
  <2>2. said' \in {"nothing", "LOGIN", "LOGOUT"}
    BY <1>19, <1>c DEF sig_handler, Signal, TypeOK, UpKind
  <2> QED
    BY <1>19, <2>1, <2>2 DEF sig_handler, Signal, TypeOK, server
<1>20. CASE server_serves
  <2>1. left' \in [lines : 0..Lines, notes : 0..Notes, signals : 0..Signals]
    <3>1. \/ left' = left
          \/ left.notes > 0 /\ left' = [left EXCEPT !.notes = @ - 1]
      BY <1>20 DEF server_serves
    <3> QED
      BY <3>1 DEF TypeOK
  <2>2. session' \in {"open", "active", "gone", session} /\ accepted' \in {TRUE, accepted}
    BY <1>20 DEF server_serves, server
  <2>3. UNCHANGED <<main, receiver, running, server_fd, said, past>>
    BY <1>20 DEF server_serves
  <2>4. accepted' \in BOOLEAN /\ session' \in {"none", "open", "active", "gone"}
    BY <2>2 DEF TypeOK
  <2> QED
    BY <2>1, <2>3, <2>4 DEF TypeOK
<1>21. CASE server_note
  BY <1>21 DEF server_note, TypeOK, server
<1>22. CASE server_ends
  BY <1>22 DEF server_ends, TypeOK, server
<1>23. CASE UNCHANGED vars
  BY <1>23 DEF vars, server, TypeOK, server
<1> QED
  BY <1>1, <1>2, <1>3, <1>4, <1>5, <1>6, <1>7, <1>8, <1>9, <1>10, <1>11, <1>12, <1>13, <1>14,
     <1>15, <1>16, <1>17, <1>18, <1>19, <1>20, <1>21, <1>22, <1>23 DEF Next, Main, Receiver

\* Every step keeps the descriptor and the receiver in step with main().
LEMMA ControlStep == IInv /\ [Next]_vars => (SocketInv /\ ReceiverInv)'
<1> SUFFICES ASSUME IInv, [Next]_vars PROVE (SocketInv /\ ReceiverInv)'
  OBVIOUS
<1> USE DEF IInv, TypeOK, SocketInv, ReceiverInv, Connecting, LoggingIn, Reading, Leaving,
   Stopped, Ended, server
<1>1. CASE main_start
  BY <1>1 DEF main_start
<1>2. CASE register_with_discovery
  BY <1>2 DEF register_with_discovery
<1>3. CASE login_connect
  BY <1>3 DEF login_connect
<1>4. CASE login_send
  BY <1>4 DEF login_send
<1>5. CASE login_recv
  BY <1>5 DEF login_recv, Answer, EndOfFile
<1>6. CASE main_spawn
  BY <1>6 DEF main_spawn
<1>7. CASE input_test
  BY <1>7 DEF input_test
<1>8. CASE input_command
  BY <1>8 DEF input_command
<1>9. CASE input_other
  BY <1>9 DEF input_other
<1>10. CASE input_quit
  BY <1>10 DEF input_quit
<1>11. CASE input_eof
  BY <1>11 DEF input_eof
<1>12. CASE main_leave
  BY <1>12 DEF main_leave
<1>13. CASE main_shutdown
  BY <1>13 DEF main_shutdown
<1>14. CASE main_join
  BY <1>14 DEF main_join
<1>15. CASE main_close
  BY <1>15 DEF main_close
<1>16. CASE receiver_loop
  BY <1>16 DEF receiver_loop
<1>17. CASE receiver_message
  BY <1>17 DEF receiver_message
<1>18. CASE receiver_fails
  BY <1>18 DEF receiver_fails, EndOfFile
<1>19. CASE sig_handler
  BY <1>19 DEF sig_handler, Signal
<1>20. CASE server_serves
  <2>1. main \notin Connecting /\ UNCHANGED <<main, receiver, server_fd>>
    BY <1>20 DEF server_serves
  <2> QED
    BY <2>1
<1>21. CASE server_note
  BY <1>21 DEF server_note
<1>22. CASE server_ends
  BY <1>22 DEF server_ends
<1>23. CASE UNCHANGED vars
  BY <1>23 DEF vars, server
<1> QED
  BY <1>1, <1>2, <1>3, <1>4, <1>5, <1>6, <1>7, <1>8, <1>9, <1>10, <1>11, <1>12, <1>13, <1>14,
     <1>15, <1>16, <1>17, <1>18, <1>19, <1>20, <1>21, <1>22, <1>23 DEF Next, Main, Receiver

\* Every step keeps what comes before the acceptance: refusals.
LEMMA LoginStep == IInv /\ [Next]_vars => LoginInv'
<1> SUFFICES ASSUME IInv, [Next]_vars PROVE LoginInv'
  OBVIOUS
<1> USE DEF IInv, LoginInv, Reading, Ended, server
<1>1. CASE main_start
  BY <1>1 DEF main_start
<1>2. CASE register_with_discovery
  BY <1>2 DEF register_with_discovery
<1>3. CASE login_connect
  BY <1>3 DEF login_connect
<1>4. CASE login_send
  BY <1>4, PutStep DEF login_send, UpKind
<1>5. CASE login_recv
  <2>1. CASE down # <<>> /\ down[1] \notin {"err"}
    <3>1. accepted \/ "stray" \in past
      BY <2>1 DEF WireInv
    <3> QED
      BY <1>5, <2>1, <3>1 DEF login_recv, Answer
  <2>2. CASE ~(down # <<>> /\ down[1] \notin {"err"})
    BY <1>5, <2>2 DEF login_recv, Answer
  <2> QED
    BY <2>1, <2>2
<1>6. CASE main_spawn
  BY <1>6 DEF main_spawn
<1>7. CASE input_test
  BY <1>7 DEF input_test
<1>8. CASE input_command
  BY <1>8 DEF input_command
<1>9. CASE input_other
  BY <1>9 DEF input_other
<1>10. CASE input_quit
  BY <1>10, PutStep DEF input_quit, UpKind
<1>11. CASE input_eof
  BY <1>11 DEF input_eof
<1>12. CASE main_leave
  BY <1>12 DEF main_leave
<1>13. CASE main_shutdown
  BY <1>13 DEF main_shutdown
<1>14. CASE main_join
  BY <1>14 DEF main_join
<1>15. CASE main_close
  BY <1>15 DEF main_close
<1>16. CASE receiver_loop
  BY <1>16 DEF receiver_loop
<1>17. CASE receiver_message
  <2>1. \A k \in DOMAIN down' : \E j \in DOMAIN down : down'[k] = down[j]
    BY <1>17, TailStep DEF receiver_message, WireInv
  <2> QED
    BY <1>17, <2>1 DEF receiver_message
<1>18. CASE receiver_fails
  BY <1>18 DEF receiver_fails, EndOfFile
<1>19. CASE sig_handler
  <2>1. \A k \in DOMAIN up' : up'[k] = "command" => k \in DOMAIN up /\ up[k] = "command"
    BY <1>19, PutStep DEF sig_handler, Signal, UpKind
  <2>2. past \subseteq past' /\ UNCHANGED <<main, down, session, accepted>>
    BY <1>19 DEF sig_handler, Signal
  <2> QED
    BY <2>1, <2>2
<1>20. CASE server_serves
  <2>1. CASE accepted'
    BY <1>20, <2>1 DEF server_serves
  <2>2. CASE ~accepted'
    <3>1. ~accepted /\ UNCHANGED <<main, past>> /\ session' # "active"
      BY <1>20, <2>2 DEF server_serves
    <3>2. \A k \in DOMAIN up' : \E j \in DOMAIN up : up'[k] = up[j]
      BY <1>20, TailStep DEF server_serves, WireInv
    <3>3. up[1] = "command" => "stray" \in past
      BY <1>20, <3>1 DEF server_serves, WireInv
    <3>4. CASE "stray" \in past
      BY <2>2, <3>1, <3>4
    <3>5. CASE "stray" \notin past
      <4>1. down' = down \/ down' = Append(down, "err")
        BY <1>20, <2>2, <3>1, <3>3, <3>5 DEF server_serves
      <4>2. \A k \in DOMAIN down' : down'[k] = "err"
        BY <3>1, <3>5, <4>1 DEF WireInv
      <4> QED
        BY <2>2, <3>1, <3>2, <3>5, <4>2
    <3> QED
      BY <3>4, <3>5
  <2> QED
    BY <2>1, <2>2
<1>21. CASE server_note
  <2>1. UNCHANGED <<main, up, session, accepted>> /\ past \subseteq past'
    BY <1>21 DEF server_note
  <2>2. accepted' \/ "stray" \in past'
    BY <1>21 DEF server_note
  <2> QED
    BY <2>1, <2>2
<1>22. CASE server_ends
  BY <1>22 DEF server_ends
<1>23. CASE UNCHANGED vars
  BY <1>23 DEF vars, server
<1> QED
  BY <1>1, <1>2, <1>3, <1>4, <1>5, <1>6, <1>7, <1>8, <1>9, <1>10, <1>11, <1>12, <1>13, <1>14,
     <1>15, <1>16, <1>17, <1>18, <1>19, <1>20, <1>21, <1>22, <1>23 DEF Next, Main, Receiver

\* Every step that makes the client leave parts it from the server.
LEMMA LeaveStep == IInv /\ [Next]_vars => LeaveInv'
<1> SUFFICES ASSUME IInv, [Next]_vars PROVE LeaveInv'
  OBVIOUS
<1>a. UNCHANGED <<said, past>> => (Parted' <=> Parted) /\ (Excused' <=> Excused)
  BY DEF Parted, Excused
<1>b. (Excused => Parted) /\ (Excused' => Parted')
  BY DEF Parted, Excused
<1>c. past \subseteq past' => (Excused => Excused')
  BY DEF Excused
<1>d. said' = "LOGOUT" => Parted'
  BY DEF Parted
<1> USE <1>a, <1>b DEF IInv, LeaveInv, SocketInv, ReceiverInv, Connecting, LoggingIn, Reading,
   Leaving, Stopped, Ended, server
<1>1. CASE main_start
  BY <1>1 DEF main_start, TypeOK
<1>2. CASE register_with_discovery
  BY <1>2 DEF register_with_discovery, TypeOK
<1>3. CASE login_connect
  BY <1>3 DEF login_connect, TypeOK
<1>4. CASE login_send
  <2>1. Put("LOGIN") /\ main = "login" /\ main' = "answer" /\ UNCHANGED <<running, session, past>>
    BY <1>4 DEF login_send, server
  <2>2. Parted => Parted'
    BY <2>1, <1>c
  <2>3. \A k \in DOMAIN up' : up'[k] = "LOGOUT" => Parted'
    BY <2>1, <2>2, PutStep DEF UpKind
  <2> QED
    BY <2>1, <2>2, <2>3
<1>5. CASE login_recv
  BY <1>5 DEF login_recv, Answer, EndOfFile, TypeOK
<1>6. CASE main_spawn
  BY <1>6 DEF main_spawn, TypeOK
<1>7. CASE input_test
  BY <1>7 DEF input_test, TypeOK
<1>8. CASE input_command
  <2>1. Put("command") /\ main = "fgets" /\ main' = "input" /\ UNCHANGED <<running, session, past>>
    BY <1>8 DEF input_command, server
  <2>2. UNCHANGED said
    BY <2>1, PutStep DEF UpKind
  <2>3. \A k \in DOMAIN up' : up'[k] = "LOGOUT" => Parted'
    BY <2>1, <2>2, PutStep DEF UpKind
  <2> QED
    BY <2>1, <2>2, <2>3
<1>9. CASE input_other
  BY <1>9 DEF input_other, TypeOK
<1>10. CASE input_quit
  <2>1. Put("LOGOUT") /\ main = "fgets" /\ main' = "quit" /\ UNCHANGED past
    BY <1>10 DEF input_quit
  <2>2. Parted'
    BY <2>1, <1>d, PutSaid
  <2> QED
    BY <2>1, <2>2
<1>11. CASE input_eof
  <2>1. Excused' /\ main' = "leave"
    BY <1>11 DEF input_eof, Excused
  <2> QED
    BY <2>1
<1>12. CASE main_leave
  BY <1>12 DEF main_leave, TypeOK
<1>13. CASE main_shutdown
  BY <1>13 DEF main_shutdown, TypeOK
<1>14. CASE main_join
  BY <1>14 DEF main_join, TypeOK
<1>15. CASE main_close
  BY <1>15 DEF main_close, TypeOK
<1>16. CASE receiver_loop
  BY <1>16 DEF receiver_loop, TypeOK
<1>17. CASE receiver_message
  BY <1>17 DEF receiver_message, TypeOK
<1>18. CASE receiver_fails
  BY <1>18 DEF receiver_fails, EndOfFile, TypeOK
<1>19. CASE sig_handler
  <2>1. UNCHANGED <<main, session>> /\ main \notin {"exit", "failed"}
    BY <1>19 DEF sig_handler, Signal
  <2>2. CASE server_fd = "none" \/ main = "login"
    <3>1. Excused'
      BY <1>19, <2>2 DEF sig_handler, Signal, Excused
    <3> QED
      BY <3>1
  <2>3. CASE ~(server_fd = "none" \/ main = "login")
    <3>1. UNCHANGED past
      BY <1>19, <2>3 DEF sig_handler, Signal
    <3>2. CASE running
      <4>1. Put("LOGOUT")
        BY <1>19, <2>3, <3>2 DEF sig_handler, Signal
      <4>2. server_fd # "open" => main \in Stopped
        BY <2>1, <2>3 DEF TypeOK
      <4>3. Parted'
        BY <2>1, <3>1, <4>1, <4>2, <1>d, PutSaid
      <4> QED
        BY <2>1, <2>3, <4>3
    <3>3. CASE ~running
      BY <1>19, <2>1, <2>3, <3>1, <3>3 DEF sig_handler, Signal
    <3> QED
      BY <3>2, <3>3
  <2> QED
    BY <2>2, <2>3
<1>20. CASE server_serves
  <2>1. UNCHANGED <<main, running, said, past>>
    BY <1>20 DEF server_serves
  <2>2. \A k \in DOMAIN up' : up'[k] = "LOGOUT" => Parted
    BY <1>20, TailStep DEF server_serves, WireInv
  <2>3. session' = "gone" => Parted
    <3>1. session' = "gone" => up[1] = "LOGOUT" /\ 1 \in DOMAIN up
      BY <1>20 DEF server_serves, WireInv
    <3> QED
      BY <3>1
  <2> QED
    BY <2>1, <2>2, <2>3
<1>21. CASE server_note
  <2>1. UNCHANGED <<main, running, up, session, said>>
    BY <1>21 DEF server_note
  <2>2. (Parted' <=> Parted) /\ (Excused' <=> Excused)
    BY <1>21 DEF server_note, Parted, Excused
  <2> QED
    BY <2>1, <2>2
<1>22. CASE server_ends
  <2>1. UNCHANGED <<main, running, up, said>> /\ past \subseteq past'
    BY <1>22 DEF server_ends
  <2>2. Parted => Parted'
    BY <2>1, <1>c DEF Parted
  <2>3. CASE server_fd = "open"
    <3>1. Excused'
      BY <1>22, <2>3 DEF server_ends, Excused
    <3> QED
      BY <3>1
  <2>4. CASE server_fd # "open"
    <3>1. main \in Stopped \cup {"exit", "failed"}
      BY <1>22, <2>4 DEF server_ends, TypeOK
    <3> QED
      BY <2>1, <2>2, <3>1
  <2> QED
    BY <2>3, <2>4
<1>23. CASE UNCHANGED vars
  BY <1>23 DEF vars, server
<1> QED
  BY <1>1, <1>2, <1>3, <1>4, <1>5, <1>6, <1>7, <1>8, <1>9, <1>10, <1>11, <1>12, <1>13, <1>14,
     <1>15, <1>16, <1>17, <1>18, <1>19, <1>20, <1>21, <1>22, <1>23 DEF Next, Main, Receiver

-----------------------------------------------------------------------------
(* The invariants *)

\* IInv holds in every state of the client.
LEMMA Invariance == Spec => []IInv
<1>1. Init => IInv
  <2>1. <<>> \in Seq(UpKind) /\ <<>> \in Seq(DownKind)
    OBVIOUS
  <2>2. Init => TypeOK
    <3>1. [lines |-> Lines, notes |-> Notes, signals |-> Signals]
            \in [lines : 0..Lines, notes : 0..Notes, signals : 0..Signals]
      BY ClientAssumption
    <3>2. Init => (\A k \in DOMAIN up : FALSE) /\ (\A k \in DOMAIN down : FALSE)
      BY DEF Init
    <3> QED
      BY <3>1, <3>2 DEF Init, TypeOK
  <2> QED
    BY <2>1, <2>2 DEF Init, IInv, WireInv, SocketInv, ReceiverInv, LoginInv, LeaveInv,
       Parted, Excused, Connecting, LoggingIn, Reading, Leaving, Stopped
<1>2. IInv /\ [Next]_vars => IInv'
  BY WireStep, TypeStep, ControlStep, LoginStep, LeaveStep DEF IInv
<1> QED
  BY <1>1, <1>2, PTL DEF Spec

\* The variables of the client keep their types, and it sends the server nothing
\* but MSG_LOGIN, MSG_LOGOUT and commands.
THEOREM ClientTyped == Spec => []TypeOK
  BY Invariance, PTL DEF IInv

\* receiver_thread() reads from a descriptor main() has opened and not closed.
THEOREM ReceiverSafe == Spec => []ReceiverOnOpenSocket
<1>1. IInv => ReceiverOnOpenSocket
  BY DEF IInv, TypeOK, SocketInv, ReceiverInv, ReceiverOnOpenSocket, Reading, Leaving, Stopped
<1> QED
  BY <1>1, Invariance, PTL

\* input_loop() takes commands only once the server has accepted MSG_LOGIN, or
\* has written another client's message to the connection before that.
THEOREM LoggedInFirst == Spec => []InputAfterLogin
<1>1. IInv => InputAfterLogin
  BY DEF IInv, LoginInv, InputAfterLogin, Reading
<1> QED
  BY <1>1, Invariance, PTL

\* When main() returns, MSG_LOGOUT was sent after MSG_LOGIN, unless one of the
\* exceptions of PoliteExit is the reason.
THEOREM LeavesPolitely == Spec => []PoliteExit
<1>1. IInv => PoliteExit
  BY DEF IInv, LeaveInv, PoliteExit, Parted, Excused
<1> QED
  BY <1>1, Invariance, PTL

=============================================================================
