------------------------- MODULE ThreadServerProofs -------------------------
(***************************************************************************)
(* Proofs about ThreadServer, for any number of connections, names, slots, *)
(* descriptors and requests.                                               *)
(***************************************************************************)
EXTENDS ThreadServer, TLAPS

\* What a client sends is a request.
LEMMA RequestsType == ASSUME NEW d \in Conns PROVE Requests(d) \subseteq Request
  BY ConstantsAssumption, ProtocolAssumption, SMT DEF Requests, Request, AllKinds

-----------------------------------------------------------------------------
(* Types *)

\* Every step of main, of a client thread or of a client keeps the types.
LEMMA TypeStep == TypeOK /\ [Next]_vars => TypeOK'
<1> SUFFICES ASSUME TypeOK, [Next]_vars PROVE TypeOK'
  OBVIOUS
<1> USE ConstantsAssumption, ProtocolAssumption
<1> USE DEF TypeOK, table, locks, env, frame, ghosts, Goto, MainAt, Answer, StartLoop,
   Routes
<1>1. CASE main_place
  <2>1. TableType'
    BY <1>1 DEF main_place, TableType, MainType, Statuses
  <2>2. MainType'
    BY <1>1 DEF main_place, MainType, Slots, ThreadType, EnvType
  <2>3. EnvType' /\ ThreadType' /\ GhostType'
    BY <1>1 DEF main_place, EnvType, ThreadType, GhostType
  <2> QED
    BY <2>1, <2>2, <2>3
<1>2. CASE main_full
  <2>1. EnvType'
    BY <1>2 DEF main_full, EnvType, MainType
  <2>2. MainType'
    BY <1>2 DEF main_full, MainType, Fds, ThreadType, EnvType
  <2>3. GhostType'
    BY <1>2 DEF main_full, GhostType, MainType, EnvType
  <2>4. TableType' /\ ThreadType'
    BY <1>2 DEF main_full, TableType, ThreadType
  <2> QED
    BY <2>1, <2>2, <2>3, <2>4
<1>3. CASE main_spawn
  <2>1. MainType'
    BY <1>3 DEF main_spawn, MainType, Fds, ThreadType, EnvType
  <2>2. ThreadType'
    BY <1>3 DEF main_spawn, ThreadType, MainType
  <2>3. TableType' /\ EnvType' /\ GhostType'
    BY <1>3 DEF main_spawn, TableType, EnvType, GhostType
  <2> QED
    BY <2>1, <2>2, <2>3
<1>4. CASE main_close_slot
  <2>1. TableType'
    BY <1>4 DEF main_close_slot, TableType, MainType, Slots
  <2>2. EnvType'
    BY <1>4 DEF main_close_slot, EnvType, TableType
  <2>3. MainType'
    BY <1>4 DEF main_close_slot, MainType, Slots, ThreadType, EnvType
  <2>4. ThreadType' /\ GhostType'
    BY <1>4 DEF main_close_slot, ThreadType, GhostType
  <2> QED
    BY <2>1, <2>2, <2>3, <2>4
<1>5. CASE main_exit
  <2>1. GhostType'
    BY <1>5 DEF main_exit, GhostType
  <2>2. TableType'
    BY <1>5 DEF main_exit, TableType
  <2>3. EnvType'
    BY <1>5 DEF main_exit, EnvType, Fds
  <2>4. MainType'
    BY <1>5 DEF main_exit, MainType, Fds, ThreadType, EnvType
  <2>5. ThreadType'
    BY <1>5 DEF main_exit, ThreadType, Slots
  <2> QED
    BY <2>1, <2>2, <2>3, <2>4, <2>5
<1>6. CASE main_spawn_fails
  <2>1. TableType'
    BY <1>6 DEF main_spawn_fails, TableType, MainType
  <2>2. EnvType'
    BY <1>6 DEF main_spawn_fails, EnvType, MainType
  <2>3. MainType'
    BY <1>6 DEF main_spawn_fails, MainType, Fds, ThreadType, EnvType
  <2>4. ThreadType' /\ GhostType'
    BY <1>6 DEF main_spawn_fails, ThreadType, GhostType
  <2> QED
    BY <2>1, <2>2, <2>3, <2>4
<1>7. CASE main_shutdown
  <2>1. MainType'
    BY <1>7 DEF main_shutdown, MainType, Fds, ThreadType, EnvType
  <2>2. TableType' /\ EnvType' /\ ThreadType' /\ GhostType'
    BY <1>7 DEF main_shutdown, TableType, EnvType, ThreadType, GhostType
  <2> QED
    BY <2>1, <2>2
<1>8. ASSUME NEW c \in Conns, ClientLeaves(c) PROVE TypeOK'
  <2>1. EnvType'
    BY <1>8 DEF ClientLeaves, EnvType
  <2>2. MainType'
    BY <1>8 DEF ClientLeaves, MainType, ThreadType, EnvType
  <2>3. TableType' /\ ThreadType' /\ GhostType'
    BY <1>8 DEF ClientLeaves, TableType, ThreadType, GhostType
  <2> QED
    BY <2>1, <2>2, <2>3
<1>9. ASSUME NEW c \in Conns, main_accept(c) PROVE TypeOK'
  <2>1. EnvType'
    BY <1>9 DEF main_accept, EnvType, LowestFd, Fds
  <2>2. MainType'
    BY <1>9 DEF main_accept, MainType, LowestFd, Fds, ThreadType, EnvType
  <2>3. TableType' /\ ThreadType' /\ GhostType'
    BY <1>9 DEF main_accept, TableType, ThreadType, GhostType
  <2> QED
    BY <2>1, <2>2, <2>3
<1>10. ASSUME NEW c \in Conns, client_thread_loop(c) PROVE TypeOK'
  <2>1. ThreadType'
    BY <1>10 DEF client_thread_loop, ThreadType, EnvType, TableType
  <2>2. MainType'
    BY <1>10 DEF client_thread_loop, MainType, ThreadType, EnvType
  <2>3. TableType' /\ EnvType' /\ GhostType'
    BY <1>10 DEF client_thread_loop, TableType, EnvType, GhostType
  <2> QED
    BY <2>1, <2>2, <2>3
<1>11. ASSUME NEW c \in Conns, recv_message_ok(c) PROVE TypeOK'
  <2>1. EnvType'
    BY <1>11 DEF recv_message_ok, EnvType, ThreadType
  <2>2. PICK m \in Requests(rfile[c]) : msg' = [msg EXCEPT ![c] = m]
    BY <1>11 DEF recv_message_ok
  <2>3. m \in Request
    BY <1>11, <2>2, RequestsType DEF recv_message_ok, ThreadType
  <2>4. ThreadType'
    BY <1>11, <2>2, <2>3 DEF recv_message_ok, ThreadType
  <2>5. MainType'
    BY <1>11 DEF recv_message_ok, MainType, ThreadType, EnvType
  <2>6. TableType' /\ GhostType'
    BY <1>11 DEF recv_message_ok, TableType, GhostType
  <2> QED
    BY <2>1, <2>2, <2>3, <2>4, <2>5, <2>6
<1>12. ASSUME NEW c \in Conns, recv_message_fails(c) PROVE TypeOK'
  <2>1. ThreadType'
    BY <1>12 DEF recv_message_fails, ThreadType
  <2>2. MainType'
    BY <1>12 DEF recv_message_fails, MainType, ThreadType, EnvType
  <2>3. TableType' /\ EnvType' /\ GhostType'
    BY <1>12 DEF recv_message_fails, TableType, EnvType, GhostType
  <2> QED
    BY <2>1, <2>2, <2>3
<1>13. ASSUME NEW c \in Conns, client_thread_cleanup(c) PROVE TypeOK'
  <2>1. TableType'
    BY <1>13 DEF client_thread_cleanup, TableType, ThreadType
  <2>2. ThreadType'
    BY <1>13 DEF client_thread_cleanup, ThreadType, Push
  <2>3. GhostType'
    BY <1>13 DEF client_thread_cleanup, GhostType, Owes
  <2>4. MainType'
    BY <1>13 DEF client_thread_cleanup, MainType, ThreadType, EnvType
  <2>5. EnvType'
    BY <1>13 DEF client_thread_cleanup, EnvType
  <2> QED
    BY <2>1, <2>2, <2>3, <2>4, <2>5
<1>14. ASSUME NEW c \in Conns, client_thread_close(c) PROVE TypeOK'
  <2>1. EnvType'
    BY <1>14 DEF client_thread_close, EnvType, ThreadType, TableType
  <2>2. ThreadType'
    BY <1>14 DEF client_thread_close, ThreadType
  <2>3. MainType'
    BY <1>14 DEF client_thread_close, MainType, ThreadType, EnvType
  <2>4. TableType' /\ GhostType'
    BY <1>14 DEF client_thread_close, TableType, GhostType
  <2> QED
    BY <2>1, <2>2, <2>3, <2>4
<1>15. ASSUME NEW c \in Conns, route_plain(c) PROVE TypeOK'
  <2>1. ThreadType'
    BY <1>15 DEF route_plain, route_bad_login, route_history,
      route_unknown, ThreadType, Reply
  <2>2. MainType'
    BY <1>15 DEF route_plain, route_bad_login, route_history,
      route_unknown, MainType, ThreadType, EnvType
  <2>3. TableType' /\ EnvType' /\ GhostType'
    BY <1>15 DEF route_plain, route_bad_login, route_history,
      route_unknown, TableType, EnvType, GhostType
  <2> QED
    BY <2>1, <2>2, <2>3
<1>16. ASSUME NEW c \in Conns, route_login(c) PROVE TypeOK'
  <2>1. TableType'
    BY <1>16 DEF route_login, TableType
  <2>2. ThreadType'
    BY <1>16 DEF route_login, ThreadType, Reply
  <2>3. MainType'
    BY <1>16 DEF route_login, MainType, ThreadType, EnvType
  <2>4. EnvType' /\ GhostType'
    BY <1>16 DEF route_login, EnvType, GhostType
  <2> QED
    BY <2>1, <2>2, <2>3, <2>4
<1>17. ASSUME NEW c \in Conns, route_login_ok(c) PROVE TypeOK'
  <2>1. TableType'
    BY <1>17 DEF route_login_ok, validate, TableType, ThreadType, Statuses, Request
  <2>2. ThreadType'
    BY <1>17 DEF route_login_ok, validate, ThreadType, Reply
  <2>3. GhostType'
    BY <1>17 DEF route_login_ok, validate, GhostType
  <2>4. MainType'
    BY <1>17 DEF route_login_ok, validate, MainType, ThreadType, EnvType
  <2>5. EnvType'
    BY <1>17 DEF route_login_ok, validate, EnvType
  <2> QED
    BY <2>1, <2>2, <2>3, <2>4, <2>5
<1>18. ASSUME NEW c \in Conns, route_login_rejected(c) PROVE TypeOK'
  <2>1. TableType'
    BY <1>18 DEF route_login_rejected, validate, TableType
  <2>2. ThreadType'
    BY <1>18 DEF route_login_rejected, validate, ThreadType, Reply
  <2>3. MainType'
    BY <1>18 DEF route_login_rejected, validate, MainType, ThreadType, EnvType
  <2>4. EnvType' /\ GhostType'
    BY <1>18 DEF route_login_rejected, validate, EnvType, GhostType
  <2> QED
    BY <2>1, <2>2, <2>3, <2>4
<1>19. ASSUME NEW c \in Conns, route_logout(c) PROVE TypeOK'
  <2>1. TableType'
    BY <1>19 DEF route_logout, TableType, ThreadType
  <2>2. ThreadType'
    BY <1>19 DEF route_logout, ThreadType, Push
  <2>3. GhostType'
    BY <1>19 DEF route_logout, GhostType, Owes
  <2>4. MainType'
    BY <1>19 DEF route_logout, MainType, ThreadType, EnvType
  <2>5. EnvType'
    BY <1>19 DEF route_logout, EnvType
  <2> QED
    BY <2>1, <2>2, <2>3, <2>4, <2>5
<1>20. ASSUME NEW c \in Conns, route_broadcast(c) PROVE TypeOK'
  <2>1. EnvType'
    BY <1>20 DEF route_broadcast, EnvType, save_history, ThreadType, Request
  <2>2. ThreadType'
    BY <1>20 DEF route_broadcast, ThreadType, Reply, Push
  <2>3. GhostType'
    BY <1>20 DEF route_broadcast, GhostType
  <2>4. MainType'
    BY <1>20 DEF route_broadcast, MainType, ThreadType, EnvType
  <2>5. TableType'
    BY <1>20 DEF route_broadcast, TableType
  <2> QED
    BY <2>1, <2>2, <2>3, <2>4, <2>5
<1>21. ASSUME NEW c \in Conns, route_private(c) PROVE TypeOK'
  <2>1. EnvType'
    BY <1>21 DEF route_private, EnvType, save_history, ThreadType, Request
  <2>2. ThreadType'
    BY <1>21 DEF route_private, ThreadType, Reply, Push, Slots
  <2>3. GhostType'
    BY <1>21 DEF route_private, GhostType, TableType
  <2>4. MainType'
    BY <1>21 DEF route_private, MainType, ThreadType, EnvType
  <2>5. TableType'
    BY <1>21 DEF route_private, TableType
  <2> QED
    BY <2>1, <2>2, <2>3, <2>4, <2>5
<1>22. ASSUME NEW c \in Conns, route_list(c) PROVE TypeOK'
  <2>1. ThreadType'
    BY <1>22 DEF route_list, ThreadType, Reply
  <2>2. MainType'
    BY <1>22 DEF route_list, MainType, ThreadType, EnvType
  <2>3. TableType' /\ EnvType' /\ GhostType'
    BY <1>22 DEF route_list, TableType, EnvType, GhostType
  <2> QED
    BY <2>1, <2>2, <2>3
<1>23. ASSUME NEW c \in Conns, route_status(c) PROVE TypeOK'
  <2>1. TableType'
    BY <1>23 DEF route_status, TableType, ThreadType, Request
  <2>2. ThreadType'
    BY <1>23 DEF route_status, ThreadType, Reply
  <2>3. MainType'
    BY <1>23 DEF route_status, MainType, ThreadType, EnvType
  <2>4. EnvType' /\ GhostType'
    BY <1>23 DEF route_status, EnvType, GhostType
  <2> QED
    BY <2>1, <2>2, <2>3, <2>4
<1>24. ASSUME NEW c \in Conns, scan(c) PROVE TypeOK'
  <2>1. ThreadType'
    BY <1>24 DEF scan, ThreadType, Slots
  <2>2. GhostType'
    BY <1>24 DEF scan, GhostType
  <2>3. MainType'
    BY <1>24 DEF scan, MainType, ThreadType, EnvType
  <2>4. TableType' /\ EnvType'
    BY <1>24 DEF scan, TableType, EnvType
  <2> QED
    BY <2>1, <2>2, <2>3, <2>4
<1>25. ASSUME NEW c \in Conns, scan_ends(c) PROVE TypeOK'
  <2>1. ThreadType'
    BY <1>25 DEF scan_ends, ThreadType, Slots, Reply
  <2>2. MainType'
    BY <1>25 DEF scan_ends, MainType, ThreadType, EnvType
  <2>3. TableType' /\ EnvType' /\ GhostType'
    BY <1>25 DEF scan_ends, TableType, EnvType, GhostType
  <2> QED
    BY <2>1, <2>2, <2>3
<1>26. ASSUME NEW c \in Conns, slot_send_lock(c) PROVE TypeOK'
  <2>1. TableType'
    BY <1>26 DEF slot_send_lock, TableType, ThreadType, Target
  <2>2. ThreadType'
    BY <1>26 DEF slot_send_lock, ThreadType, TableType, Target
  <2>3. MainType'
    BY <1>26 DEF slot_send_lock, MainType, ThreadType, EnvType
  <2>4. EnvType' /\ GhostType'
    BY <1>26 DEF slot_send_lock, EnvType, GhostType
  <2> QED
    BY <2>1, <2>2, <2>3, <2>4
<1>27. ASSUME NEW c \in Conns, slot_send_write(c) PROVE TypeOK'
  <2>1. TableType'
    BY <1>27 DEF slot_send_write, TableType, ThreadType, Target
  <2>2. ThreadType'
    BY <1>27 DEF slot_send_write, ThreadType, Slots, Fds, Reply, Push
  <2>3. GhostType'
    BY <1>27 DEF slot_send_write, GhostType, ThreadType, EnvType, Target
  <2>4. MainType'
    BY <1>27 DEF slot_send_write, MainType, ThreadType, EnvType
  <2>5. EnvType'
    BY <1>27 DEF slot_send_write, EnvType
  <2> QED
    BY <2>1, <2>2, <2>3, <2>4, <2>5
<1>28. CASE UNCHANGED vars
  BY <1>28 DEF vars, TableType, EnvType, MainType, ThreadType, GhostType
<1> QED
  BY <1>1, <1>2, <1>3, <1>4, <1>5, <1>6, <1>7, <1>8, <1>9, <1>10, <1>11, <1>12,
     <1>13, <1>14, <1>15, <1>16, <1>17, <1>18, <1>19, <1>20, <1>21, <1>22, <1>23,
     <1>24, <1>25, <1>26, <1>27, <1>28 DEF Next, MainStep, ThreadStep

\* What main() sets up before its loop has the types.
LEMMA InitType == Init => TypeOK
  BY ConstantsAssumption, ProtocolAssumption DEF Init, TypeOK, TableType, EnvType,
     MainType, ThreadType,
     GhostType, Slots, Fds, Statuses, NoMsg, MainAt

\* The variables hold values of their types in every reachable state of the
\* server; no loop of it indexes clients[] out of bounds.
THEOREM TypeCorrect == Spec => []TypeOK
  BY InitType, TypeStep, PTL DEF Spec

-----------------------------------------------------------------------------
(* The inductive invariant *)

\* A name is entered under the lock under which it was found to be free.
LoginInv ==
    \A c \in Conns : pc[c] = "validate" => tableLock = c /\ ~Online(msg[c].from)

\* A thread sends nothing except in slot_send() and its loops.
OutInv ==
    \A c \in Conns : pc[c] \notin {"scan", "lock", "write"} => out[c] = "none"

\* A slot being handed to a new thread belongs to nobody else.
PlaceInv ==
    main.pc = "spawn" => owner[main.slot] = main.conn /\ ~active[main.slot]

\* Who is inside send_message() holds the slot's mutex.
SendInv ==
    \A c \in Conns : pc[c] = "write" => sendLock[Target(c)] \in {c, Destroyed}

\* A loop has passed only slots it wrote to or found inactive.
LoopInv ==
    \A c \in Conns : \A s \in owed[c] :
        /\ pc[c] \in {"scan", "lock", "write"} /\ out[c] \in {"bcast", "left", "disc"}
        /\ s >= idx[c] /\ s # slot[c] /\ active[s]

\* Where a thread stands with announcing its client's departure.
DepartInv ==
    \A c \in Conns :
        /\ pc[c] = "none" => ~joined[c] /\ announced[c] = 0
        /\ BeforeCleanup(c) =>
              \/ announced[c] = 0 /\ (joined[c] => active[slot[c]])
              \/ announced[c] = 1 /\ ~active[slot[c]] /\ (out[c] = "left" \/ pc[c] = "cleanup")
        /\ out[c] = "disc" => announced[c] = 1
        /\ pc[c] \in {"close", "done"} => announced[c] <= 1 /\ (joined[c] => announced[c] = 1)

IInv ==
    /\ TypeOK /\ UniqueUsers /\ LoginInv
    /\ SlotHasItsThread /\ OutInv /\ PlaceInv
    /\ SendInv /\ LoopInv /\ DepartInv

-----------------------------------------------------------------------------
(* Every step preserves it *)

\* Names stay unique: only the holder of table_lock enters or removes one.
LEMMA LoginStep == IInv /\ [Next]_vars => LoginInv' /\ UniqueUsers'
<1> SUFFICES ASSUME IInv, [Next]_vars PROVE LoginInv' /\ UniqueUsers'
  OBVIOUS
<1> USE ConstantsAssumption, ProtocolAssumption
<1> USE DEF IInv, TypeOK, table, locks, env, frame, ghosts, Goto, MainAt, Answer,
   StartLoop, Routes
<1>1. CASE main_place
  BY <1>1 DEF main_place, TableType, ThreadType, LoginInv, UniqueUsers, Online
<1>2. CASE main_full
  BY <1>2 DEF main_full, TableType, ThreadType, LoginInv, UniqueUsers, Online
<1>3. CASE main_spawn
  BY <1>3 DEF main_spawn, TableType, ThreadType, LoginInv, UniqueUsers, Online
<1>4. CASE main_close_slot
  BY <1>4 DEF main_close_slot, TableType, ThreadType, LoginInv, UniqueUsers, Online
<1>5. CASE main_exit
  BY <1>5 DEF main_exit, TableType, ThreadType, LoginInv, UniqueUsers, Online
<1>6. CASE main_spawn_fails
  BY <1>6 DEF main_spawn_fails, TableType, ThreadType, LoginInv, UniqueUsers, Online
<1>7. CASE main_shutdown
  BY <1>7 DEF main_shutdown, TableType, ThreadType, LoginInv, UniqueUsers, Online
<1>8. ASSUME NEW c \in Conns, ClientLeaves(c) PROVE LoginInv' /\ UniqueUsers'
  BY <1>8 DEF ClientLeaves, TableType, ThreadType, LoginInv, UniqueUsers, Online
<1>9. ASSUME NEW c \in Conns, main_accept(c) PROVE LoginInv' /\ UniqueUsers'
  BY <1>9 DEF main_accept, TableType, ThreadType, LoginInv, UniqueUsers, Online
<1>10. ASSUME NEW c \in Conns, client_thread_loop(c) PROVE LoginInv' /\ UniqueUsers'
  BY <1>10 DEF client_thread_loop, TableType, ThreadType, LoginInv, UniqueUsers, Online
<1>11. ASSUME NEW c \in Conns, recv_message_ok(c) PROVE LoginInv' /\ UniqueUsers'
  BY <1>11 DEF recv_message_ok, TableType, ThreadType, LoginInv, UniqueUsers, Online
<1>12. ASSUME NEW c \in Conns, recv_message_fails(c) PROVE LoginInv' /\ UniqueUsers'
  BY <1>12 DEF recv_message_fails, TableType, ThreadType, LoginInv, UniqueUsers, Online
<1>13. ASSUME NEW c \in Conns, client_thread_cleanup(c) PROVE LoginInv' /\ UniqueUsers'
  BY <1>13 DEF client_thread_cleanup, TableType, ThreadType, LoginInv, UniqueUsers,
     Online
<1>14. ASSUME NEW c \in Conns, client_thread_close(c) PROVE LoginInv' /\ UniqueUsers'
  BY <1>14 DEF client_thread_close, TableType, ThreadType, LoginInv, UniqueUsers, Online
<1>15. ASSUME NEW c \in Conns, route_plain(c) PROVE LoginInv' /\ UniqueUsers'
  BY <1>15 DEF route_plain, route_bad_login, route_history,
      route_unknown, TableType, ThreadType, LoginInv, UniqueUsers, Online
<1>16. ASSUME NEW c \in Conns, route_login(c) PROVE LoginInv' /\ UniqueUsers'
  BY <1>16 DEF route_login, TableType, ThreadType, LoginInv, UniqueUsers, Online
<1>17. ASSUME NEW c \in Conns, route_login_ok(c) PROVE LoginInv' /\ UniqueUsers'
  BY <1>17 DEF route_login_ok, validate, TableType, ThreadType, LoginInv, UniqueUsers, Online
<1>18. ASSUME NEW c \in Conns, route_login_rejected(c) PROVE LoginInv' /\ UniqueUsers'
  BY <1>18 DEF route_login_rejected, validate, TableType, ThreadType, LoginInv, UniqueUsers,
     Online
<1>19. ASSUME NEW c \in Conns, route_logout(c) PROVE LoginInv' /\ UniqueUsers'
  BY <1>19 DEF route_logout, TableType, ThreadType, LoginInv, UniqueUsers, Online
<1>20. ASSUME NEW c \in Conns, route_broadcast(c) PROVE LoginInv' /\ UniqueUsers'
  BY <1>20 DEF route_broadcast, TableType, ThreadType, LoginInv, UniqueUsers, Online
<1>21. ASSUME NEW c \in Conns, route_private(c) PROVE LoginInv' /\ UniqueUsers'
  BY <1>21 DEF route_private, TableType, ThreadType, LoginInv, UniqueUsers, Online
<1>22. ASSUME NEW c \in Conns, route_list(c) PROVE LoginInv' /\ UniqueUsers'
  BY <1>22 DEF route_list, TableType, ThreadType, LoginInv, UniqueUsers, Online
<1>23. ASSUME NEW c \in Conns, route_status(c) PROVE LoginInv' /\ UniqueUsers'
  BY <1>23 DEF route_status, TableType, ThreadType, LoginInv, UniqueUsers, Online
<1>24. ASSUME NEW c \in Conns, scan(c) PROVE LoginInv' /\ UniqueUsers'
  BY <1>24 DEF scan, TableType, ThreadType, LoginInv, UniqueUsers, Online
<1>25. ASSUME NEW c \in Conns, scan_ends(c) PROVE LoginInv' /\ UniqueUsers'
  BY <1>25 DEF scan_ends, TableType, ThreadType, LoginInv, UniqueUsers, Online
<1>26. ASSUME NEW c \in Conns, slot_send_lock(c) PROVE LoginInv' /\ UniqueUsers'
  BY <1>26 DEF slot_send_lock, TableType, ThreadType, LoginInv, UniqueUsers, Online
<1>27. ASSUME NEW c \in Conns, slot_send_write(c) PROVE LoginInv' /\ UniqueUsers'
  BY <1>27 DEF slot_send_write, TableType, ThreadType, LoginInv, UniqueUsers, Online
<1>28. CASE UNCHANGED vars
  BY <1>28 DEF vars, TableType, ThreadType, LoginInv, UniqueUsers, Online
<1> QED
  BY <1>1, <1>2, <1>3, <1>4, <1>5, <1>6, <1>7, <1>8, <1>9, <1>10, <1>11, <1>12,
     <1>13, <1>14, <1>15, <1>16, <1>17, <1>18, <1>19, <1>20, <1>21, <1>22, <1>23,
     <1>24, <1>25, <1>26, <1>27, <1>28 DEF Next, MainStep, ThreadStep

\* Slots keep their threads: owner[slot[c]] = c tells apart any two threads
\* that have not cleaned up.
LEMMA OwnStep == IInv /\ [Next]_vars => SlotHasItsThread' /\ OutInv' /\ PlaceInv'
<1> SUFFICES ASSUME IInv, [Next]_vars PROVE SlotHasItsThread' /\ OutInv' /\ PlaceInv'
  OBVIOUS
<1> USE ConstantsAssumption, ProtocolAssumption
<1> USE DEF IInv, TypeOK, table, locks, env, frame, ghosts, Goto, MainAt, Answer,
   StartLoop, Routes
<1>1. CASE main_place
  <2>1. SlotHasItsThread'
    BY <1>1 DEF main_place, TableType, ThreadType, MainType, GhostType,
       SlotHasItsThread, OutInv, BeforeCleanup, InUse, find_free
  <2>2. OutInv'
    BY <1>1 DEF main_place, ThreadType, OutInv, find_free
  <2>3. PlaceInv'
    BY <1>1 DEF main_place, TableType, ThreadType, MainType, PlaceInv,
       SlotHasItsThread, BeforeCleanup, InUse, find_free
  <2> QED
    BY <2>1, <2>2, <2>3
<1>2. CASE main_full
  BY <1>2 DEF main_full, SlotHasItsThread, OutInv, PlaceInv, BeforeCleanup, InUse
<1>3. CASE main_spawn
  BY <1>3 DEF main_spawn, TableType, ThreadType, MainType, GhostType,
     SlotHasItsThread, OutInv, PlaceInv, BeforeCleanup, InUse
<1>4. CASE main_close_slot
  BY <1>4 DEF main_close_slot, TableType, ThreadType, MainType, GhostType,
     SlotHasItsThread, OutInv, PlaceInv, BeforeCleanup, InUse
<1>5. CASE main_exit
  BY <1>5 DEF main_exit, TableType, ThreadType, MainType, GhostType,
     SlotHasItsThread, OutInv, PlaceInv, BeforeCleanup, InUse
<1>6. CASE main_spawn_fails
  BY <1>6 DEF main_spawn_fails, TableType, ThreadType, MainType, GhostType,
     SlotHasItsThread, OutInv, PlaceInv, BeforeCleanup, InUse
<1>7. CASE main_shutdown
  BY <1>7 DEF main_shutdown, SlotHasItsThread, OutInv, PlaceInv, BeforeCleanup, InUse
<1>8. ASSUME NEW c \in Conns, ClientLeaves(c) PROVE SlotHasItsThread' /\ OutInv' /\ PlaceInv'
  BY <1>8 DEF ClientLeaves, SlotHasItsThread, OutInv, PlaceInv, BeforeCleanup, InUse
<1>9. ASSUME NEW c \in Conns, main_accept(c) PROVE SlotHasItsThread' /\ OutInv' /\ PlaceInv'
  BY <1>9 DEF main_accept, SlotHasItsThread, OutInv, PlaceInv, BeforeCleanup, InUse
<1>10. ASSUME NEW c \in Conns, client_thread_loop(c) PROVE SlotHasItsThread' /\ OutInv' /\ PlaceInv'
  <2>1. \A d \in Conns : BeforeCleanup(d)' <=> BeforeCleanup(d)
    BY <1>10 DEF client_thread_loop, ThreadType, OutInv, BeforeCleanup
  <2>2. SlotHasItsThread'
    BY <1>10, <2>1 DEF client_thread_loop, TableType, ThreadType,
       SlotHasItsThread, InUse
  <2>3. OutInv'
    BY <1>10 DEF client_thread_loop, ThreadType, OutInv
  <2>4. PlaceInv'
    BY <1>10 DEF client_thread_loop, TableType, ThreadType, MainType, PlaceInv
  <2> QED
    BY <2>2, <2>3, <2>4
<1>11. ASSUME NEW c \in Conns, recv_message_ok(c) PROVE SlotHasItsThread' /\ OutInv' /\ PlaceInv'
  <2>1. \A d \in Conns : BeforeCleanup(d)' <=> BeforeCleanup(d)
    BY <1>11 DEF recv_message_ok, ThreadType, OutInv, BeforeCleanup
  <2>2. SlotHasItsThread'
    BY <1>11, <2>1 DEF recv_message_ok, TableType, ThreadType, SlotHasItsThread, InUse
  <2>3. OutInv'
    BY <1>11 DEF recv_message_ok, ThreadType, OutInv
  <2>4. PlaceInv'
    BY <1>11 DEF recv_message_ok, TableType, ThreadType, MainType, PlaceInv
  <2> QED
    BY <2>2, <2>3, <2>4
<1>12. ASSUME NEW c \in Conns, recv_message_fails(c) PROVE SlotHasItsThread' /\ OutInv' /\ PlaceInv'
  <2>1. \A d \in Conns : BeforeCleanup(d)' <=> BeforeCleanup(d)
    BY <1>12 DEF recv_message_fails, ThreadType, OutInv, BeforeCleanup
  <2>2. SlotHasItsThread'
    BY <1>12, <2>1 DEF recv_message_fails, TableType, ThreadType,
       SlotHasItsThread, InUse
  <2>3. OutInv'
    BY <1>12 DEF recv_message_fails, ThreadType, OutInv
  <2>4. PlaceInv'
    BY <1>12 DEF recv_message_fails, TableType, ThreadType, MainType, PlaceInv
  <2> QED
    BY <2>2, <2>3, <2>4
<1>13. ASSUME NEW c \in Conns, client_thread_cleanup(c) PROVE SlotHasItsThread' /\ OutInv' /\ PlaceInv'
  <2>1. \A d \in Conns : BeforeCleanup(d)' <=> BeforeCleanup(d) /\ d # c
    BY <1>13 DEF client_thread_cleanup, ThreadType, BeforeCleanup
  <2>2. owner[slot[c]] = c
    BY <1>13 DEF client_thread_cleanup, OutInv, SlotHasItsThread, BeforeCleanup
  <2>3. SlotHasItsThread'
    BY <1>13, <2>1, <2>2 DEF client_thread_cleanup, TableType, ThreadType,
       SlotHasItsThread, InUse
  <2>4. OutInv'
    BY <1>13 DEF client_thread_cleanup, ThreadType, OutInv
  <2>5. PlaceInv'
    BY <1>13, <2>2 DEF client_thread_cleanup, TableType, ThreadType, MainType, PlaceInv
  <2> QED
    BY <2>3, <2>4, <2>5
<1>14. ASSUME NEW c \in Conns, client_thread_close(c) PROVE SlotHasItsThread' /\ OutInv' /\ PlaceInv'
  <2>1. \A d \in Conns : BeforeCleanup(d)' <=> BeforeCleanup(d)
    BY <1>14 DEF client_thread_close, ThreadType, OutInv, BeforeCleanup
  <2>2. SlotHasItsThread'
    BY <1>14, <2>1 DEF client_thread_close, TableType, ThreadType,
       SlotHasItsThread, InUse
  <2>3. OutInv'
    BY <1>14 DEF client_thread_close, ThreadType, OutInv
  <2>4. PlaceInv'
    BY <1>14 DEF client_thread_close, TableType, ThreadType, MainType, PlaceInv
  <2> QED
    BY <2>2, <2>3, <2>4
<1>15. ASSUME NEW c \in Conns, route_plain(c) PROVE SlotHasItsThread' /\ OutInv' /\ PlaceInv'
  <2>1. \A d \in Conns : BeforeCleanup(d)' <=> BeforeCleanup(d)
    BY <1>15 DEF route_plain, route_bad_login, route_history,
      route_unknown, ThreadType, OutInv, BeforeCleanup
  <2>2. SlotHasItsThread'
    BY <1>15, <2>1 DEF route_plain, route_bad_login, route_history,
      route_unknown, TableType, ThreadType, SlotHasItsThread, InUse
  <2>3. OutInv'
    BY <1>15 DEF route_plain, route_bad_login, route_history,
      route_unknown, ThreadType, OutInv
  <2>4. PlaceInv'
    BY <1>15 DEF route_plain, route_bad_login, route_history,
      route_unknown, TableType, ThreadType, MainType, PlaceInv
  <2> QED
    BY <2>2, <2>3, <2>4
<1>16. ASSUME NEW c \in Conns, route_login(c) PROVE SlotHasItsThread' /\ OutInv' /\ PlaceInv'
  <2>1. \A d \in Conns : BeforeCleanup(d)' <=> BeforeCleanup(d)
    BY <1>16 DEF route_login, ThreadType, OutInv, BeforeCleanup
  <2>2. SlotHasItsThread'
    BY <1>16, <2>1 DEF route_login, TableType, ThreadType, SlotHasItsThread, InUse
  <2>3. OutInv'
    BY <1>16 DEF route_login, ThreadType, OutInv
  <2>4. PlaceInv'
    BY <1>16 DEF route_login, TableType, ThreadType, MainType, PlaceInv
  <2> QED
    BY <2>2, <2>3, <2>4
<1>17. ASSUME NEW c \in Conns, route_login_ok(c) PROVE SlotHasItsThread' /\ OutInv' /\ PlaceInv'
  <2>1. \A d \in Conns : BeforeCleanup(d)' <=> BeforeCleanup(d)
    BY <1>17 DEF route_login_ok, validate, ThreadType, OutInv, BeforeCleanup
  <2>2. BeforeCleanup(c) /\ owner[slot[c]] = c
    BY <1>17 DEF route_login_ok, validate, OutInv, SlotHasItsThread, BeforeCleanup
  <2>3. SlotHasItsThread'
    BY <1>17, <2>1, <2>2 DEF route_login_ok, validate, TableType, ThreadType, GhostType,
       SlotHasItsThread, InUse
  <2>4. OutInv'
    BY <1>17 DEF route_login_ok, validate, ThreadType, OutInv
  <2>5. PlaceInv'
    BY <1>17, <2>2 DEF route_login_ok, validate, TableType, ThreadType, MainType, PlaceInv
  <2> QED
    BY <2>3, <2>4, <2>5
<1>18. ASSUME NEW c \in Conns, route_login_rejected(c) PROVE SlotHasItsThread' /\ OutInv' /\ PlaceInv'
  <2>1. \A d \in Conns : BeforeCleanup(d)' <=> BeforeCleanup(d)
    BY <1>18 DEF route_login_rejected, validate, ThreadType, OutInv, BeforeCleanup
  <2>2. SlotHasItsThread'
    BY <1>18, <2>1 DEF route_login_rejected, validate, TableType, ThreadType,
       SlotHasItsThread, InUse
  <2>3. OutInv'
    BY <1>18 DEF route_login_rejected, validate, ThreadType, OutInv
  <2>4. PlaceInv'
    BY <1>18 DEF route_login_rejected, validate, TableType, ThreadType, MainType, PlaceInv
  <2> QED
    BY <2>2, <2>3, <2>4
<1>19. ASSUME NEW c \in Conns, route_logout(c) PROVE SlotHasItsThread' /\ OutInv' /\ PlaceInv'
  <2>1. \A d \in Conns : BeforeCleanup(d)' <=> BeforeCleanup(d)
    BY <1>19 DEF route_logout, ThreadType, OutInv, BeforeCleanup
  <2>2. SlotHasItsThread'
    BY <1>19, <2>1 DEF route_logout, TableType, ThreadType, SlotHasItsThread, InUse
  <2>3. OutInv'
    BY <1>19 DEF route_logout, ThreadType, OutInv
  <2>4. PlaceInv'
    BY <1>19 DEF route_logout, TableType, ThreadType, MainType, PlaceInv
  <2> QED
    BY <2>2, <2>3, <2>4
<1>20. ASSUME NEW c \in Conns, route_broadcast(c) PROVE SlotHasItsThread' /\ OutInv' /\ PlaceInv'
  <2>1. \A d \in Conns : BeforeCleanup(d)' <=> BeforeCleanup(d)
    BY <1>20 DEF route_broadcast, ThreadType, OutInv, BeforeCleanup
  <2>2. SlotHasItsThread'
    BY <1>20, <2>1 DEF route_broadcast, TableType, ThreadType, SlotHasItsThread, InUse
  <2>3. OutInv'
    BY <1>20 DEF route_broadcast, ThreadType, OutInv
  <2>4. PlaceInv'
    BY <1>20 DEF route_broadcast, TableType, ThreadType, MainType, PlaceInv
  <2> QED
    BY <2>2, <2>3, <2>4
<1>21. ASSUME NEW c \in Conns, route_private(c) PROVE SlotHasItsThread' /\ OutInv' /\ PlaceInv'
  <2>1. \A d \in Conns : BeforeCleanup(d)' <=> BeforeCleanup(d)
    BY <1>21 DEF route_private, ThreadType, OutInv, BeforeCleanup
  <2>2. SlotHasItsThread'
    BY <1>21, <2>1 DEF route_private, TableType, ThreadType, SlotHasItsThread, InUse
  <2>3. OutInv'
    BY <1>21 DEF route_private, ThreadType, OutInv
  <2>4. PlaceInv'
    BY <1>21 DEF route_private, TableType, ThreadType, MainType, PlaceInv
  <2> QED
    BY <2>2, <2>3, <2>4
<1>22. ASSUME NEW c \in Conns, route_list(c) PROVE SlotHasItsThread' /\ OutInv' /\ PlaceInv'
  <2>1. \A d \in Conns : BeforeCleanup(d)' <=> BeforeCleanup(d)
    BY <1>22 DEF route_list, ThreadType, OutInv, BeforeCleanup
  <2>2. SlotHasItsThread'
    BY <1>22, <2>1 DEF route_list, TableType, ThreadType, SlotHasItsThread, InUse
  <2>3. OutInv'
    BY <1>22 DEF route_list, ThreadType, OutInv
  <2>4. PlaceInv'
    BY <1>22 DEF route_list, TableType, ThreadType, MainType, PlaceInv
  <2> QED
    BY <2>2, <2>3, <2>4
<1>23. ASSUME NEW c \in Conns, route_status(c) PROVE SlotHasItsThread' /\ OutInv' /\ PlaceInv'
  <2>1. \A d \in Conns : BeforeCleanup(d)' <=> BeforeCleanup(d)
    BY <1>23 DEF route_status, ThreadType, OutInv, BeforeCleanup
  <2>2. SlotHasItsThread'
    BY <1>23, <2>1 DEF route_status, TableType, ThreadType, SlotHasItsThread, InUse
  <2>3. OutInv'
    BY <1>23 DEF route_status, ThreadType, OutInv
  <2>4. PlaceInv'
    BY <1>23 DEF route_status, TableType, ThreadType, MainType, PlaceInv
  <2> QED
    BY <2>2, <2>3, <2>4
<1>24. ASSUME NEW c \in Conns, scan(c) PROVE SlotHasItsThread' /\ OutInv' /\ PlaceInv'
  <2>1. \A d \in Conns : BeforeCleanup(d)' <=> BeforeCleanup(d)
    BY <1>24 DEF scan, ThreadType, OutInv, BeforeCleanup
  <2>2. SlotHasItsThread'
    BY <1>24, <2>1 DEF scan, TableType, ThreadType, SlotHasItsThread, InUse
  <2>3. OutInv'
    BY <1>24 DEF scan, ThreadType, OutInv
  <2>4. PlaceInv'
    BY <1>24 DEF scan, TableType, ThreadType, MainType, PlaceInv
  <2> QED
    BY <2>2, <2>3, <2>4
<1>25. ASSUME NEW c \in Conns, scan_ends(c) PROVE SlotHasItsThread' /\ OutInv' /\ PlaceInv'
  <2>1. \A d \in Conns : BeforeCleanup(d)' <=> BeforeCleanup(d)
    BY <1>25 DEF scan_ends, ThreadType, OutInv, BeforeCleanup
  <2>2. SlotHasItsThread'
    BY <1>25, <2>1 DEF scan_ends, TableType, ThreadType, SlotHasItsThread, InUse
  <2>3. OutInv'
    BY <1>25 DEF scan_ends, ThreadType, OutInv
  <2>4. PlaceInv'
    BY <1>25 DEF scan_ends, TableType, ThreadType, MainType, PlaceInv
  <2> QED
    BY <2>2, <2>3, <2>4
<1>26. ASSUME NEW c \in Conns, slot_send_lock(c) PROVE SlotHasItsThread' /\ OutInv' /\ PlaceInv'
  <2>1. \A d \in Conns : BeforeCleanup(d)' <=> BeforeCleanup(d)
    BY <1>26 DEF slot_send_lock, ThreadType, OutInv, BeforeCleanup
  <2>2. SlotHasItsThread'
    BY <1>26, <2>1 DEF slot_send_lock, TableType, ThreadType, SlotHasItsThread, InUse
  <2>3. OutInv'
    BY <1>26 DEF slot_send_lock, ThreadType, OutInv
  <2>4. PlaceInv'
    BY <1>26 DEF slot_send_lock, TableType, ThreadType, MainType, PlaceInv
  <2> QED
    BY <2>2, <2>3, <2>4
<1>27. ASSUME NEW c \in Conns, slot_send_write(c) PROVE SlotHasItsThread' /\ OutInv' /\ PlaceInv'
  <2>1. \A d \in Conns : BeforeCleanup(d)' <=> BeforeCleanup(d)
    BY <1>27 DEF slot_send_write, ThreadType, OutInv, BeforeCleanup, Reply, Push
  <2>2. SlotHasItsThread'
    BY <1>27, <2>1 DEF slot_send_write, TableType, ThreadType, SlotHasItsThread, InUse
  <2>3. OutInv'
    BY <1>27 DEF slot_send_write, ThreadType, OutInv, Reply, Push
  <2>4. PlaceInv'
    BY <1>27 DEF slot_send_write, TableType, ThreadType, MainType, PlaceInv
  <2> QED
    BY <2>2, <2>3, <2>4
<1>28. CASE UNCHANGED vars
  BY <1>28 DEF vars, TableType, ThreadType, MainType, GhostType, SlotHasItsThread,
     OutInv, PlaceInv, BeforeCleanup, InUse
<1> QED
  BY <1>1, <1>2, <1>3, <1>4, <1>5, <1>6, <1>7, <1>8, <1>9, <1>10, <1>11, <1>12,
     <1>13, <1>14, <1>15, <1>16, <1>17, <1>18, <1>19, <1>20, <1>21, <1>22, <1>23,
     <1>24, <1>25, <1>26, <1>27, <1>28 DEF Next, MainStep, ThreadStep

\* A send_lock is taken when free and released by its holder.
LEMMA SendStep == IInv /\ [Next]_vars => SendInv'
<1> SUFFICES ASSUME IInv, [Next]_vars PROVE SendInv'
  OBVIOUS
<1> USE ConstantsAssumption, ProtocolAssumption
<1> USE DEF IInv, TypeOK, table, locks, env, frame, ghosts, Goto, MainAt, Answer,
   StartLoop, Routes
<1>1. CASE main_place
  BY <1>1 DEF main_place, TableType, ThreadType, OutInv, SendInv, Target
<1>2. CASE main_full
  BY <1>2 DEF main_full, TableType, ThreadType, OutInv, SendInv, Target
<1>3. CASE main_spawn
  BY <1>3 DEF main_spawn, TableType, ThreadType, OutInv, SendInv, Target
<1>4. CASE main_close_slot
  BY <1>4 DEF main_close_slot, TableType, ThreadType, OutInv, SendInv, Target
<1>5. CASE main_exit
  BY <1>5 DEF main_exit, TableType, ThreadType, OutInv, SendInv, Target
<1>6. CASE main_spawn_fails
  BY <1>6 DEF main_spawn_fails, TableType, ThreadType, OutInv, SendInv, Target
<1>7. CASE main_shutdown
  BY <1>7 DEF main_shutdown, TableType, ThreadType, OutInv, SendInv, Target
<1>8. ASSUME NEW c \in Conns, ClientLeaves(c) PROVE SendInv'
  BY <1>8 DEF ClientLeaves, TableType, ThreadType, OutInv, SendInv, Target
<1>9. ASSUME NEW c \in Conns, main_accept(c) PROVE SendInv'
  BY <1>9 DEF main_accept, TableType, ThreadType, OutInv, SendInv, Target
<1>10. ASSUME NEW c \in Conns, client_thread_loop(c) PROVE SendInv'
  BY <1>10 DEF client_thread_loop, TableType, ThreadType, OutInv, SendInv, Target
<1>11. ASSUME NEW c \in Conns, recv_message_ok(c) PROVE SendInv'
  BY <1>11 DEF recv_message_ok, TableType, ThreadType, OutInv, SendInv, Target
<1>12. ASSUME NEW c \in Conns, recv_message_fails(c) PROVE SendInv'
  BY <1>12 DEF recv_message_fails, TableType, ThreadType, OutInv, SendInv, Target
<1>13. ASSUME NEW c \in Conns, client_thread_cleanup(c) PROVE SendInv'
  BY <1>13 DEF client_thread_cleanup, TableType, ThreadType, OutInv, SendInv, Target
<1>14. ASSUME NEW c \in Conns, client_thread_close(c) PROVE SendInv'
  BY <1>14 DEF client_thread_close, TableType, ThreadType, OutInv, SendInv, Target
<1>15. ASSUME NEW c \in Conns, route_plain(c) PROVE SendInv'
  BY <1>15 DEF route_plain, route_bad_login, route_history,
      route_unknown, TableType, ThreadType, OutInv, SendInv, Target
<1>16. ASSUME NEW c \in Conns, route_login(c) PROVE SendInv'
  BY <1>16 DEF route_login, TableType, ThreadType, OutInv, SendInv, Target
<1>17. ASSUME NEW c \in Conns, route_login_ok(c) PROVE SendInv'
  BY <1>17 DEF route_login_ok, validate, TableType, ThreadType, OutInv, SendInv, Target
<1>18. ASSUME NEW c \in Conns, route_login_rejected(c) PROVE SendInv'
  BY <1>18 DEF route_login_rejected, validate, TableType, ThreadType, OutInv, SendInv, Target
<1>19. ASSUME NEW c \in Conns, route_logout(c) PROVE SendInv'
  BY <1>19 DEF route_logout, TableType, ThreadType, OutInv, SendInv, Target
<1>20. ASSUME NEW c \in Conns, route_broadcast(c) PROVE SendInv'
  BY <1>20 DEF route_broadcast, TableType, ThreadType, OutInv, SendInv, Target
<1>21. ASSUME NEW c \in Conns, route_private(c) PROVE SendInv'
  BY <1>21 DEF route_private, TableType, ThreadType, OutInv, SendInv, Target
<1>22. ASSUME NEW c \in Conns, route_list(c) PROVE SendInv'
  BY <1>22 DEF route_list, TableType, ThreadType, OutInv, SendInv, Target
<1>23. ASSUME NEW c \in Conns, route_status(c) PROVE SendInv'
  BY <1>23 DEF route_status, TableType, ThreadType, OutInv, SendInv, Target
<1>24. ASSUME NEW c \in Conns, scan(c) PROVE SendInv'
  BY <1>24 DEF scan, TableType, ThreadType, OutInv, SendInv, Target
<1>25. ASSUME NEW c \in Conns, scan_ends(c) PROVE SendInv'
  BY <1>25 DEF scan_ends, TableType, ThreadType, OutInv, SendInv, Target
<1>26. ASSUME NEW c \in Conns, slot_send_lock(c) PROVE SendInv'
  BY <1>26 DEF slot_send_lock, TableType, ThreadType, OutInv, SendInv, Target
<1>27. ASSUME NEW c \in Conns, slot_send_write(c) PROVE SendInv'
  BY <1>27 DEF slot_send_write, TableType, ThreadType, OutInv, SendInv, Target
<1>28. CASE UNCHANGED vars
  BY <1>28 DEF vars, TableType, ThreadType, OutInv, SendInv, Target
<1> QED
  BY <1>1, <1>2, <1>3, <1>4, <1>5, <1>6, <1>7, <1>8, <1>9, <1>10, <1>11, <1>12,
     <1>13, <1>14, <1>15, <1>16, <1>17, <1>18, <1>19, <1>20, <1>21, <1>22, <1>23,
     <1>24, <1>25, <1>26, <1>27, <1>28 DEF Next, MainStep, ThreadStep

\* A loop forgets no slot.
LEMMA LoopStep == IInv /\ [Next]_vars => LoopInv'
<1> SUFFICES ASSUME IInv, [Next]_vars PROVE LoopInv'
  OBVIOUS
<1> USE ConstantsAssumption, ProtocolAssumption
<1> USE DEF IInv, TypeOK, table, locks, env, frame, ghosts, Goto, MainAt, Answer,
   StartLoop, Routes
<1>1. CASE main_place
  BY <1>1 DEF main_place, TableType, ThreadType, MainType, GhostType,
     SlotHasItsThread, OutInv, LoopInv, BeforeCleanup, InUse, Slots, find_free
<1>2. CASE main_full
  BY <1>2 DEF main_full, LoopInv
<1>3. CASE main_spawn
  BY <1>3 DEF main_spawn, TableType, ThreadType, GhostType, SlotHasItsThread,
     OutInv, LoopInv, BeforeCleanup, InUse, MainType, Slots
<1>4. CASE main_close_slot
  BY <1>4 DEF main_close_slot, LoopInv
<1>5. CASE main_exit
  BY <1>5 DEF main_exit, TableType, ThreadType, GhostType, SlotHasItsThread, OutInv,
     LoopInv, BeforeCleanup, InUse, MainType, Slots
<1>6. CASE main_spawn_fails
  BY <1>6 DEF main_spawn_fails, LoopInv
<1>7. CASE main_shutdown
  BY <1>7 DEF main_shutdown, LoopInv
<1>8. ASSUME NEW c \in Conns, ClientLeaves(c) PROVE LoopInv'
  BY <1>8 DEF ClientLeaves, LoopInv
<1>9. ASSUME NEW c \in Conns, main_accept(c) PROVE LoopInv'
  BY <1>9 DEF main_accept, LoopInv
<1>10. ASSUME NEW c \in Conns, client_thread_loop(c) PROVE LoopInv'
  <2>1. owed[c] = {}
    BY <1>10 DEF client_thread_loop, LoopInv
  <2> QED
    BY <1>10, <2>1 DEF client_thread_loop, ThreadType, GhostType, LoopInv
<1>11. ASSUME NEW c \in Conns, recv_message_ok(c) PROVE LoopInv'
  <2>1. owed[c] = {}
    BY <1>11 DEF recv_message_ok, LoopInv
  <2> QED
    BY <1>11, <2>1 DEF recv_message_ok, ThreadType, GhostType, LoopInv
<1>12. ASSUME NEW c \in Conns, recv_message_fails(c) PROVE LoopInv'
  <2>1. owed[c] = {}
    BY <1>12 DEF recv_message_fails, LoopInv
  <2> QED
    BY <1>12, <2>1 DEF recv_message_fails, ThreadType, GhostType, LoopInv
<1>13. ASSUME NEW c \in Conns, client_thread_cleanup(c) PROVE LoopInv'
  <2> SUFFICES ASSUME NEW d \in Conns, NEW s \in owed'[d]
               PROVE  LoopInv!(d)!(s)'
    BY DEF LoopInv
  <2>1. owed[c] = {}
    BY <1>13 DEF client_thread_cleanup, LoopInv
  <2>2. CASE d # c
    <3>1. s \in owed[d] /\ s # slot[c] /\ s \in Slots
      BY <1>13, <2>2 DEF client_thread_cleanup, GhostType
    <3> QED
      BY <1>13, <2>2, <3>1 DEF client_thread_cleanup, TableType, ThreadType, LoopInv
  <2>3. CASE d = c
    BY <1>13, <2>1, <2>3 DEF client_thread_cleanup, ThreadType, GhostType, Owes, Slots
  <2> QED
    BY <2>2, <2>3
<1>14. ASSUME NEW c \in Conns, client_thread_close(c) PROVE LoopInv'
  <2>1. owed[c] = {}
    BY <1>14 DEF client_thread_close, LoopInv
  <2> QED
    BY <1>14, <2>1 DEF client_thread_close, ThreadType, GhostType, LoopInv
<1>15. ASSUME NEW c \in Conns, route_plain(c) PROVE LoopInv'
  <2>1. owed[c] = {}
    BY <1>15 DEF route_plain, route_bad_login, route_history,
      route_unknown, LoopInv
  <2> QED
    BY <1>15, <2>1 DEF route_plain, route_bad_login, route_history,
      route_unknown, ThreadType, GhostType, LoopInv
<1>16. ASSUME NEW c \in Conns, route_login(c) PROVE LoopInv'
  <2>1. owed[c] = {}
    BY <1>16 DEF route_login, LoopInv
  <2> QED
    BY <1>16, <2>1 DEF route_login, ThreadType, GhostType, LoopInv
<1>17. ASSUME NEW c \in Conns, route_login_ok(c) PROVE LoopInv'
  <2>1. owed[c] = {}
    BY <1>17 DEF route_login_ok, validate, LoopInv
  <2> QED
    BY <1>17, <2>1 DEF route_login_ok, validate, ThreadType, GhostType, LoopInv, TableType
<1>18. ASSUME NEW c \in Conns, route_login_rejected(c) PROVE LoopInv'
  <2>1. owed[c] = {}
    BY <1>18 DEF route_login_rejected, validate, LoopInv
  <2> QED
    BY <1>18, <2>1 DEF route_login_rejected, validate, ThreadType, GhostType, LoopInv
<1>19. ASSUME NEW c \in Conns, route_logout(c) PROVE LoopInv'
  <2> SUFFICES ASSUME NEW d \in Conns, NEW s \in owed'[d]
               PROVE  LoopInv!(d)!(s)'
    BY DEF LoopInv
  <2>1. owed[c] = {}
    BY <1>19 DEF route_logout, LoopInv
  <2>2. CASE d # c
    <3>1. s \in owed[d] /\ s # slot[c] /\ s \in Slots
      BY <1>19, <2>2 DEF route_logout, GhostType
    <3> QED
      BY <1>19, <2>2, <3>1 DEF route_logout, TableType, ThreadType, LoopInv
  <2>3. CASE d = c
    BY <1>19, <2>1, <2>3 DEF route_logout, ThreadType, GhostType, Owes, Slots
  <2> QED
    BY <2>2, <2>3
<1>20. ASSUME NEW c \in Conns, route_broadcast(c) PROVE LoopInv'
  <2> SUFFICES ASSUME NEW d \in Conns, NEW s \in owed'[d]
               PROVE  LoopInv!(d)!(s)'
    BY DEF LoopInv
  <2>1. owed[c] = {}
    BY <1>20 DEF route_broadcast, LoopInv
  <2>2. CASE d # c
    BY <1>20, <2>2 DEF route_broadcast, ThreadType, GhostType, LoopInv
  <2>3. CASE d = c
    BY <1>20, <2>1, <2>3 DEF route_broadcast, ThreadType, GhostType, Slots
  <2> QED
    BY <2>2, <2>3
<1>21. ASSUME NEW c \in Conns, route_private(c) PROVE LoopInv'
  <2>1. owed[c] = {}
    BY <1>21 DEF route_private, LoopInv
  <2> QED
    BY <1>21, <2>1 DEF route_private, ThreadType, GhostType, LoopInv
<1>22. ASSUME NEW c \in Conns, route_list(c) PROVE LoopInv'
  <2>1. owed[c] = {}
    BY <1>22 DEF route_list, LoopInv
  <2> QED
    BY <1>22, <2>1 DEF route_list, ThreadType, GhostType, LoopInv
<1>23. ASSUME NEW c \in Conns, route_status(c) PROVE LoopInv'
  <2>1. owed[c] = {}
    BY <1>23 DEF route_status, LoopInv
  <2> QED
    BY <1>23, <2>1 DEF route_status, ThreadType, GhostType, LoopInv
<1>24. ASSUME NEW c \in Conns, scan(c) PROVE LoopInv'
  <2> SUFFICES ASSUME NEW d \in Conns, NEW s \in owed'[d]
               PROVE  LoopInv!(d)!(s)'
    BY DEF LoopInv
  <2>1. s \in owed[d] /\ s \in Slots
    BY <1>24 DEF scan, GhostType
  <2> QED
    BY <1>24, <2>1 DEF scan, ThreadType, LoopInv, Slots
<1>25. ASSUME NEW c \in Conns, scan_ends(c) PROVE LoopInv'
  <2> SUFFICES ASSUME NEW d \in Conns, NEW s \in owed'[d]
               PROVE  LoopInv!(d)!(s)'
    BY DEF LoopInv
  <2>1. s \in owed[d] /\ s \in Slots
    BY <1>25 DEF scan_ends, GhostType
  <2>2. d # c
    BY <1>25, <2>1 DEF scan_ends, ThreadType, LoopInv, Slots
  <2> QED
    BY <1>25, <2>1, <2>2 DEF scan_ends, ThreadType, LoopInv
<1>26. ASSUME NEW c \in Conns, slot_send_lock(c) PROVE LoopInv'
  BY <1>26 DEF slot_send_lock, ThreadType, GhostType, LoopInv
<1>27. ASSUME NEW c \in Conns, slot_send_write(c) PROVE LoopInv'
  <2> SUFFICES ASSUME NEW d \in Conns, NEW s \in owed'[d]
               PROVE  LoopInv!(d)!(s)'
    BY DEF LoopInv
  <2>1. s \in owed[d] /\ s \in Slots
    BY <1>27 DEF slot_send_write, GhostType
  <2>2. CASE d # c
    BY <1>27, <2>1, <2>2 DEF slot_send_write, ThreadType, LoopInv
  <2>3. CASE d = c
    <3>1. out[c] \in {"bcast", "left", "disc"} /\ s # idx[c]
      BY <1>27, <2>1, <2>3 DEF slot_send_write, LoopInv, Target, Reply, GhostType
    <3>2. pc'[c] = "scan" /\ idx'[c] = idx[c] + 1 /\ out'[c] = out[c]
      BY <1>27, <3>1 DEF slot_send_write, ThreadType, Reply, Push
    <3>3. s >= idx[c] /\ s # slot[c] /\ active[s]
      BY <2>1, <2>3 DEF LoopInv
    <3>4. idx[c] \in Nat /\ s \in Nat
      BY <2>1 DEF ThreadType, Slots
    <3>5. s >= idx'[c]
      BY <3>1, <3>2, <3>3, <3>4
    <3> QED
      BY <1>27, <2>3, <3>1, <3>2, <3>3, <3>5 DEF slot_send_write
  <2> QED
    BY <2>2, <2>3
<1>28. CASE UNCHANGED vars
  BY <1>28 DEF vars, TableType, ThreadType, GhostType, SlotHasItsThread, OutInv,
     LoopInv, BeforeCleanup, InUse, MainType, Slots
<1> QED
  BY <1>1, <1>2, <1>3, <1>4, <1>5, <1>6, <1>7, <1>8, <1>9, <1>10, <1>11, <1>12,
     <1>13, <1>14, <1>15, <1>16, <1>17, <1>18, <1>19, <1>20, <1>21, <1>22, <1>23,
     <1>24, <1>25, <1>26, <1>27, <1>28 DEF Next, MainStep, ThreadStep

\* A departure is announced by the clean-up exactly if it was not by MSG_LOGOUT.
LEMMA DepartStep == IInv /\ [Next]_vars => DepartInv'
<1> SUFFICES ASSUME IInv, [Next]_vars PROVE DepartInv'
  OBVIOUS
<1> USE ConstantsAssumption, ProtocolAssumption
<1> USE DEF IInv, TypeOK, table, locks, env, frame, ghosts, Goto, MainAt, Answer,
   StartLoop, Routes
<1>1. CASE main_place
  BY <1>1 DEF main_place, TableType, ThreadType, MainType, GhostType,
     SlotHasItsThread, OutInv, DepartInv, BeforeCleanup, InUse, find_free
<1>2. CASE main_full
  BY <1>2 DEF main_full, TableType, ThreadType, MainType, GhostType,
     SlotHasItsThread, OutInv, DepartInv, BeforeCleanup, InUse
<1>3. CASE main_spawn
  BY <1>3 DEF main_spawn, TableType, ThreadType, MainType, GhostType,
     SlotHasItsThread, OutInv, DepartInv, BeforeCleanup, InUse
<1>4. CASE main_close_slot
  BY <1>4 DEF main_close_slot, TableType, ThreadType, MainType, GhostType,
     SlotHasItsThread, OutInv, DepartInv, BeforeCleanup, InUse
<1>5. CASE main_exit
  BY <1>5 DEF main_exit, TableType, ThreadType, MainType, GhostType,
     SlotHasItsThread, OutInv, DepartInv, BeforeCleanup, InUse
<1>6. CASE main_spawn_fails
  BY <1>6 DEF main_spawn_fails, TableType, ThreadType, MainType, GhostType,
     SlotHasItsThread, OutInv, DepartInv, BeforeCleanup, InUse
<1>7. CASE main_shutdown
  BY <1>7 DEF main_shutdown, TableType, ThreadType, MainType, GhostType,
     SlotHasItsThread, OutInv, DepartInv, BeforeCleanup, InUse
<1>8. ASSUME NEW c \in Conns, ClientLeaves(c) PROVE DepartInv'
  BY <1>8 DEF ClientLeaves, TableType, ThreadType, MainType, GhostType,
     SlotHasItsThread, OutInv, DepartInv, BeforeCleanup, InUse
<1>9. ASSUME NEW c \in Conns, main_accept(c) PROVE DepartInv'
  BY <1>9 DEF main_accept, TableType, ThreadType, MainType, GhostType,
     SlotHasItsThread, OutInv, DepartInv, BeforeCleanup, InUse
<1>10. ASSUME NEW c \in Conns, client_thread_loop(c) PROVE DepartInv'
  <2>1. \A d \in Conns : BeforeCleanup(d)' <=> BeforeCleanup(d)
    BY <1>10 DEF client_thread_loop, ThreadType, OutInv, BeforeCleanup
  <2> QED
    BY <1>10, <2>1 DEF client_thread_loop, ThreadType, OutInv, DepartInv, BeforeCleanup
<1>11. ASSUME NEW c \in Conns, recv_message_ok(c) PROVE DepartInv'
  <2>1. \A d \in Conns : BeforeCleanup(d)' <=> BeforeCleanup(d)
    BY <1>11 DEF recv_message_ok, ThreadType, OutInv, BeforeCleanup
  <2> QED
    BY <1>11, <2>1 DEF recv_message_ok, ThreadType, OutInv, DepartInv, BeforeCleanup
<1>12. ASSUME NEW c \in Conns, recv_message_fails(c) PROVE DepartInv'
  <2>1. \A d \in Conns : BeforeCleanup(d)' <=> BeforeCleanup(d)
    BY <1>12 DEF recv_message_fails, ThreadType, OutInv, BeforeCleanup
  <2> QED
    BY <1>12, <2>1 DEF recv_message_fails, ThreadType, OutInv, DepartInv, BeforeCleanup
<1>13. ASSUME NEW c \in Conns, client_thread_cleanup(c) PROVE DepartInv'
  <2> SUFFICES ASSUME NEW d \in Conns PROVE DepartInv!(d)'
    BY DEF DepartInv
  <2>1. CASE d # c
    <3>1. BeforeCleanup(d)' <=> BeforeCleanup(d)
      BY <1>13, <2>1 DEF client_thread_cleanup, ThreadType, BeforeCleanup
    <3>2. BeforeCleanup(d) => slot[d] # slot[c]
      BY <1>13, <2>1 DEF client_thread_cleanup, ThreadType, SlotHasItsThread,
         OutInv, BeforeCleanup
    <3> QED
      BY <1>13, <2>1, <3>1, <3>2 DEF client_thread_cleanup, TableType,
         ThreadType, GhostType, DepartInv
  <2>2. CASE d = c
    <3>1. \/ announced[c] = 0 /\ (joined[c] => active[slot[c]])
          \/ announced[c] = 1 /\ ~active[slot[c]]
      BY <1>13 DEF client_thread_cleanup, OutInv, DepartInv, BeforeCleanup
    <3>2. CASE active[slot[c]]
      <4>1. pc'[c] = "scan" /\ out'[c] = "disc" /\ announced'[c] = 1
        BY <1>13, <3>1, <3>2 DEF client_thread_cleanup, ThreadType, GhostType
      <4> QED
        BY <2>2, <4>1 DEF BeforeCleanup
    <3>3. CASE ~active[slot[c]]
      <4>1. pc'[c] = "close" /\ out'[c] = "none" /\ UNCHANGED <<announced, joined>>
        BY <1>13, <3>3 DEF client_thread_cleanup, ThreadType, OutInv
      <4> QED
        BY <2>2, <3>1, <3>3, <4>1 DEF BeforeCleanup
    <3> QED
      BY <3>2, <3>3
  <2> QED
    BY <2>1, <2>2
<1>14. ASSUME NEW c \in Conns, client_thread_close(c) PROVE DepartInv'
  BY <1>14 DEF client_thread_close, TableType, ThreadType, MainType, GhostType,
     SlotHasItsThread, OutInv, DepartInv, BeforeCleanup, InUse
<1>15. ASSUME NEW c \in Conns, route_plain(c) PROVE DepartInv'
  <2>1. \A d \in Conns : BeforeCleanup(d)' <=> BeforeCleanup(d)
    BY <1>15 DEF route_plain, route_bad_login, route_history,
      route_unknown, ThreadType, OutInv, BeforeCleanup
  <2> QED
    BY <1>15, <2>1 DEF route_plain, route_bad_login, route_history,
      route_unknown, ThreadType, OutInv, DepartInv, BeforeCleanup
<1>16. ASSUME NEW c \in Conns, route_login(c) PROVE DepartInv'
  <2>1. \A d \in Conns : BeforeCleanup(d)' <=> BeforeCleanup(d)
    BY <1>16 DEF route_login, ThreadType, OutInv, BeforeCleanup
  <2> QED
    BY <1>16, <2>1 DEF route_login, ThreadType, OutInv, DepartInv, BeforeCleanup
<1>17. ASSUME NEW c \in Conns, route_login_ok(c) PROVE DepartInv'
  <2>1. \A d \in Conns : BeforeCleanup(d)' <=> BeforeCleanup(d)
    BY <1>17 DEF route_login_ok, validate, ThreadType, OutInv, BeforeCleanup
  <2>2. BeforeCleanup(c) /\ announced[c] = 0
    BY <1>17 DEF route_login_ok, validate, OutInv, DepartInv, BeforeCleanup
  <2>3. \A d \in Conns : BeforeCleanup(d) /\ d # c => slot[d] # slot[c]
    BY <2>2 DEF SlotHasItsThread
  <2> QED
    BY <1>17, <2>1, <2>2, <2>3 DEF route_login_ok, validate, TableType, ThreadType,
       GhostType, DepartInv
<1>18. ASSUME NEW c \in Conns, route_login_rejected(c) PROVE DepartInv'
  <2>1. \A d \in Conns : BeforeCleanup(d)' <=> BeforeCleanup(d)
    BY <1>18 DEF route_login_rejected, validate, ThreadType, OutInv, BeforeCleanup
  <2> QED
    BY <1>18, <2>1 DEF route_login_rejected, validate, ThreadType, OutInv, DepartInv,
       BeforeCleanup
<1>19. ASSUME NEW c \in Conns, route_logout(c) PROVE DepartInv'
  <2> SUFFICES ASSUME NEW d \in Conns PROVE DepartInv!(d)'
    BY DEF DepartInv
  <2>1. CASE d # c
    <3>1. BeforeCleanup(d)' <=> BeforeCleanup(d)
      BY <1>19, <2>1 DEF route_logout, ThreadType, BeforeCleanup
    <3>2. BeforeCleanup(d) => slot[d] # slot[c]
      BY <1>19, <2>1 DEF route_logout, ThreadType, SlotHasItsThread, OutInv,
         BeforeCleanup
    <3> QED
      BY <1>19, <2>1, <3>1, <3>2 DEF route_logout, TableType, ThreadType,
         GhostType, DepartInv
  <2>2. CASE d = c
    <3>1. announced[c] = 0
      BY <1>19 DEF route_logout, OutInv, DepartInv, BeforeCleanup
    <3>2. /\ pc'[c] = "scan" /\ out'[c] = "left"
          /\ ~active'[slot'[c]] /\ announced'[c] = 1
      BY <1>19, <3>1 DEF route_logout, TableType, ThreadType, GhostType
    <3> QED
      BY <2>2, <3>2
  <2> QED
    BY <2>1, <2>2
<1>20. ASSUME NEW c \in Conns, route_broadcast(c) PROVE DepartInv'
  <2>1. \A d \in Conns : BeforeCleanup(d)' <=> BeforeCleanup(d)
    BY <1>20 DEF route_broadcast, ThreadType, OutInv, BeforeCleanup
  <2> QED
    BY <1>20, <2>1 DEF route_broadcast, ThreadType, OutInv, DepartInv, BeforeCleanup
<1>21. ASSUME NEW c \in Conns, route_private(c) PROVE DepartInv'
  <2>1. \A d \in Conns : BeforeCleanup(d)' <=> BeforeCleanup(d)
    BY <1>21 DEF route_private, ThreadType, OutInv, BeforeCleanup
  <2> QED
    BY <1>21, <2>1 DEF route_private, ThreadType, OutInv, DepartInv, BeforeCleanup
<1>22. ASSUME NEW c \in Conns, route_list(c) PROVE DepartInv'
  <2>1. \A d \in Conns : BeforeCleanup(d)' <=> BeforeCleanup(d)
    BY <1>22 DEF route_list, ThreadType, OutInv, BeforeCleanup
  <2> QED
    BY <1>22, <2>1 DEF route_list, ThreadType, OutInv, DepartInv, BeforeCleanup
<1>23. ASSUME NEW c \in Conns, route_status(c) PROVE DepartInv'
  <2>1. \A d \in Conns : BeforeCleanup(d)' <=> BeforeCleanup(d)
    BY <1>23 DEF route_status, ThreadType, OutInv, BeforeCleanup
  <2> QED
    BY <1>23, <2>1 DEF route_status, ThreadType, OutInv, DepartInv, BeforeCleanup
<1>24. ASSUME NEW c \in Conns, scan(c) PROVE DepartInv'
  <2>1. \A d \in Conns : BeforeCleanup(d)' <=> BeforeCleanup(d)
    BY <1>24 DEF scan, ThreadType, OutInv, BeforeCleanup
  <2> QED
    BY <1>24, <2>1 DEF scan, ThreadType, OutInv, DepartInv, BeforeCleanup
<1>25. ASSUME NEW c \in Conns, scan_ends(c) PROVE DepartInv'
  BY <1>25 DEF scan_ends, TableType, ThreadType, MainType, GhostType,
     SlotHasItsThread, OutInv, DepartInv, BeforeCleanup, InUse
<1>26. ASSUME NEW c \in Conns, slot_send_lock(c) PROVE DepartInv'
  <2>1. \A d \in Conns : BeforeCleanup(d)' <=> BeforeCleanup(d)
    BY <1>26 DEF slot_send_lock, ThreadType, OutInv, BeforeCleanup
  <2> QED
    BY <1>26, <2>1 DEF slot_send_lock, ThreadType, OutInv, DepartInv, BeforeCleanup
<1>27. ASSUME NEW c \in Conns, slot_send_write(c) PROVE DepartInv'
  BY <1>27 DEF slot_send_write, TableType, ThreadType, MainType, GhostType,
     SlotHasItsThread, OutInv, DepartInv, BeforeCleanup, InUse, Reply, Push
<1>28. CASE UNCHANGED vars
  BY <1>28 DEF vars, TableType, ThreadType, MainType, GhostType, SlotHasItsThread,
     OutInv, DepartInv, BeforeCleanup, InUse
<1> QED
  BY <1>1, <1>2, <1>3, <1>4, <1>5, <1>6, <1>7, <1>8, <1>9, <1>10, <1>11, <1>12,
     <1>13, <1>14, <1>15, <1>16, <1>17, <1>18, <1>19, <1>20, <1>21, <1>22, <1>23,
     <1>24, <1>25, <1>26, <1>27, <1>28 DEF Next, MainStep, ThreadStep

-----------------------------------------------------------------------------
(* The theorems *)

\* IInv holds in every reachable state.
THEOREM Invariance == Spec => []IInv
<1>1. Init => IInv
  <2> SUFFICES ASSUME Init PROVE IInv
    OBVIOUS
  <2>1. TypeOK
    BY InitType
  <2> QED
    BY <2>1, ConstantsAssumption, ProtocolAssumption DEF Init, IInv, UniqueUsers,
       LoginInv, SlotHasItsThread,
       BeforeCleanup, OutInv, PlaceInv, SendInv, LoopInv, DepartInv, MainAt
<1>2. IInv /\ [Next]_vars => IInv'
  BY TypeStep, LoginStep, OwnStep, SendStep, LoopStep, DepartStep DEF IInv
<1> QED
  BY <1>1, <1>2, PTL DEF Spec

\* No two sessions ever carry the same name, although find_user() and the
\* entry of the name are separated by the RPC of validate().
THEOREM NamesUnique == Spec => []UniqueUsers
  BY Invariance, PTL DEF IInv

\* A thread owns its slot until it cleans up, and every user on line is backed
\* by the thread that logged it in: client_thread() leaves no ghost users.
THEOREM SlotsOwned == Spec => []SlotHasItsThread
  BY Invariance, PTL DEF IInv

\* slot_send() keeps two threads from writing for one slot at once, until main
\* destroys the mutexes.
THEOREM SlotSendExcludes == Spec => []SlotWritesSerialised
<1>1. IInv => SlotWritesSerialised
  BY ConstantsAssumption, ProtocolAssumption DEF IInv, SendInv, SlotWritesSerialised
<1> QED
  BY <1>1, Invariance, PTL

\* The unlocked loops of MSG_BROADCAST and bcast_note() pass over no slot that
\* stays active.
THEOREM BroadcastComplete == Spec => []BroadcastReachesAll
<1>1. IInv => BroadcastReachesAll
  <2> SUFFICES ASSUME IInv, NEW c \in Conns, idx[c] > MaxClients, NEW s \in owed[c]
               PROVE  FALSE
    BY DEF BroadcastReachesAll
  <2>1. s \in Slots /\ s >= idx[c]
    BY DEF IInv, TypeOK, GhostType, LoopInv
  <2>2. idx[c] \in Nat
    BY DEF IInv, TypeOK, ThreadType
  <2> QED
    BY <2>1, <2>2, ConstantsAssumption, ProtocolAssumption DEF Slots
<1> QED
  BY <1>1, Invariance, PTL

\* client_thread() and MSG_LOGOUT between them announce a departure exactly
\* once.
THEOREM DepartureOnce == Spec => []DepartureAnnouncedOnce
<1>1. IInv => DepartureAnnouncedOnce
  <2> SUFFICES ASSUME IInv, NEW c \in Conns
               PROVE  /\ announced[c] <= 1
                      /\ joined[c] /\ pc[c] \in {"close", "done"} => announced[c] = 1
    BY DEF DepartureAnnouncedOnce
  <2>1. CASE BeforeCleanup(c) \/ out[c] = "disc" \/ pc[c] = "none"
    BY <2>1 DEF IInv, DepartInv, OutInv, BeforeCleanup
  <2>2. CASE pc[c] \in {"close", "done"}
    BY <2>2 DEF IInv, DepartInv
  <2> QED
    BY <2>1, <2>2 DEF BeforeCleanup
<1> QED
  BY <1>1, Invariance, PTL


=============================================================================
