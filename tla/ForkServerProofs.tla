-------------------------- MODULE ForkServerProofs --------------------------
(***************************************************************************)
(* Proofs about ForkServer, for any number of connections, names, slots    *)
(* and requests, any capacity of the pipes and any faults.                 *)
(***************************************************************************)
EXTENDS ForkServer, TLAPS

-----------------------------------------------------------------------------
(* The inductive invariant *)

\* Where the parent has a message of slot i in hand.
Routing == {"recv", "route", "validate", "activate", "loop", "send"}

\* pipe_recv() on c's pipe would not block.
Readied(c) == fromChild[c] # <<>> \/ Exited(c)

\* c's client has got a message, or there is one for it, or it gets none any more.
Acked(c) == greeted[c] # "none" \/ toChild[c] # <<>> \/ Exited(c)

\* What TypeOK leaves open of the pipes.
PipeType ==
    /\ toChild \in [Conns -> Seq(Reply \cup Push)]
    /\ fromChild \in [Conns -> Seq(Messages)]

\* A connection gets its pipes and its child once.
ConnInv ==
    /\ \A c \in Conns : peer[c] = "idle" =>
          child[c] = "none" /\ \A s \in Slots : pipes[s] # c
    /\ at = "place" => /\ conn \in Conns
                       /\ peer[conn] # "idle" /\ child[conn] = "none"
                       /\ \A s \in Slots : pipes[s] # conn
    /\ at = "forked" => conn \in Conns /\ pipes[slot] = conn

\* No two slots have the same pipes, and a slot in use has some.
PipesInv ==
    /\ \A s, r \in Slots : pipes[s] \in Conns /\ pipes[s] = pipes[r] => s = r
    /\ \A s \in Slots : pid[s] # Nobody \/ active[s] => pipes[s] \in Conns

\* The slot and the message in hand.
RouteInv ==
    /\ at \in Routing => i \in Slots /\ rd \in Conns /\ rd = pipes[i]
    /\ at = "recv" => rd \in ready
    /\ at = "send" /\ out \in Push => idx \in Slots /\ pipes[idx] \in Conns

\* From the search for a name to its entry, no other session gets it.
NameInv ==
    /\ at \in {"validate", "activate"} =>
          /\ msg.from \in Users
          /\ \A s \in Slots \ {i} : ~(active[s] /\ username[s] = msg.from)
    /\ at = "activate" => username[i] \in {msg.from, NoUser}

\* The first message a client got was a reply, or the first it gets will be.
HeadInv == \A c \in Conns :
    /\ greeted[c] # "push"
    /\ greeted[c] = "none" /\ toChild[c] # <<>> => toChild[c][1] \in Reply

\* A slot that is active has had its acknowledgement, or gets it next.
AckInv ==
    /\ \A s \in Slots : active[s] =>
          Acked(pipes[s]) \/ (at = "send" /\ out \in Reply /\ s = i)
    /\ at = "send" /\ out \in Push => Acked(pipes[idx])

\* What select() reported and the loop has yet to come to is still readable.
ReadyInv ==
    /\ at \in {"place", "forked"} => \A c \in ready : Readied(c)
    /\ at \in {"scan"} \cup Routing =>
          \A s \in Slots : /\ pipes[s] \in ready
                           /\ s > i \/ (s = i /\ at \in {"scan", "recv"})
                           => Readied(pipes[s])

IInv ==
    /\ TypeOK /\ PipeType /\ ConnInv /\ PipesInv /\ RouteInv /\ NameInv /\ UniqueUsers
    /\ HeadInv /\ AckInv /\ ReadyInv

-----------------------------------------------------------------------------
(* Types *)

\* What a client sends is a request.
LEMMA RequestsType == ASSUME NEW d \in Conns PROVE Requests(d) \subseteq Request
  BY ForkAssumption, ProtocolAssumption, SMT DEF Requests, Request, AllKinds

\* What the fields of a message are.
LEMMA MessageFields ==
  ASSUME NEW m \in Messages
  PROVE  /\ m.from \in Users \cup {NoUser}
         /\ m.kind = "STATUS" => m.arg \in Statuses
         /\ m.kind \notin {"UNKNOWN", "LOGOUT"} => m.from \in Users
<1>1. CASE m \in Request
  BY <1>1 DEF Request, AllKinds
<1>2. CASE m = NoMsg \/ m = LogoutNote
  BY <1>2 DEF NoMsg, LogoutNote
<1> QED
  BY <1>1, <1>2 DEF Messages

\* Every step keeps the types of the table.
LEMMA TableStep == IInv /\ [Next]_vars => TableType'
<1> SUFFICES ASSUME IInv, [Next]_vars PROVE TableType'
  OBVIOUS
<1> USE DEF IInv, TypeOK, TableType, ParentType, table, Maybe
<1>1. CASE main_fork
  BY <1>1 DEF main_fork, MakePipes
<1>2. CASE main_fork_fails
  BY <1>2 DEF main_fork_fails, MakePipes
<1>3. CASE main_enter_pid
  BY <1>3 DEF main_enter_pid
<1>4. CASE pipe_recv_eof
  BY <1>4 DEF pipe_recv_eof
<1>5. CASE route_login_name
  BY <1>5, MessageFields DEF route_login_name, validate
<1>6. CASE route_login_activate
  BY <1>6 DEF route_login_activate, Statuses
<1>7. CASE route_logout
  BY <1>7 DEF route_logout
<1>8. CASE route_status
  BY <1>8, MessageFields DEF route_status, Routes
<1>9. CASE sigchld_handler
  BY <1>9 DEF sigchld_handler
<1>10. CASE main_select \/ main_refuse \/ main_stops \/ check_children \/ check_children_ends
  BY <1>10 DEF main_select, main_refuse, main_stops, check_children, check_children_ends
<1>11. CASE pipe_recv_ok \/ route_plain \/ route_login \/ route_login_rejected \/
   route_broadcast \/ route_private \/ route_loop \/ route_loop_ends \/ pipe_send
  BY <1>11
     DEF pipe_recv_ok, route_plain, route_bad_login, route_list, route_history, route_unknown,
     route_login, route_login_rejected, validate, route_broadcast, route_private, route_loop,
     route_loop_ends, pipe_send, PipeWrite, AfterSend
<1>12. ASSUME NEW c \in Conns, main_accept(c) \/ ClientLeaves(c) \/ child_recv(c) \/
   child_eof(c) \/ child_write(c) \/ child_deliver(c) \/ child_orphaned(c) PROVE TableType'
  BY <1>12
     DEF main_accept, ClientLeaves, child_recv, child_eof, child_write, child_deliver,
     child_orphaned
<1>13. CASE UNCHANGED vars
  BY <1>13 DEF vars
<1> QED
  BY <1>1, <1>2, <1>3, <1>4, <1>5, <1>6, <1>7, <1>8, <1>9, <1>10, <1>11, <1>12, <1>13
     DEF Next, ParentStep, RouteStep, ChildStep

\* Writing to a pipe of a child.
LEMMA ToChildWrite ==
  ASSUME PipeType, NEW c \in Conns, NEW m \in Reply \cup Push,
         toChild' = [toChild EXCEPT ![c] = Append(@, m)]
  PROVE  /\ toChild' \in [Conns -> Seq(Reply \cup Push)]
         /\ toChild'[c] # <<>> /\ Len(toChild'[c]) = Len(toChild[c]) + 1
         /\ toChild'[c][1] = IF toChild[c] = <<>> THEN m ELSE toChild[c][1]
         /\ \A d \in Conns \ {c} : toChild'[d] = toChild[d]
  BY DEF PipeType

\* What a child writes to the parent is added at the end.
LEMMA FromChildWrite ==
  ASSUME IInv, NEW c \in Conns, child_write(c)
  PROVE  /\ fromChild' \in [Conns -> Seq(Messages)]
         /\ fromChild[c] # <<>> => fromChild'[c] # <<>>
         /\ Len(fromChild'[c]) <= PipeCap
         /\ \A d \in Conns \ {c} : fromChild'[d] = fromChild[d]
<1>1. /\ cmsg[c] \in Messages /\ fromChild \in [Conns -> Seq(Messages)]
      /\ Len(fromChild[c]) <= PipeCap
  BY DEF IInv, TypeOK, PipeType, ProcType
<1>2. CASE Len(fromChild[c]) < PipeCap /\ fromChild' = [fromChild EXCEPT ![c] = Append(@, cmsg[c])]
  <2>1. /\ fromChild' \in [Conns -> Seq(Messages)] /\ fromChild'[c] # <<>>
        /\ Len(fromChild'[c]) = Len(fromChild[c]) + 1 /\ Len(fromChild[c]) \in Nat
        /\ \A d \in Conns \ {c} : fromChild'[d] = fromChild[d]
    BY <1>1, <1>2
  <2> QED
    BY <1>2, <2>1, ForkAssumption
<1>3. CASE UNCHANGED fromChild
  BY <1>1, <1>3
<1> QED
  BY <1>2, <1>3 DEF child_write

\* pipe_send() writes to a pipe of some child.
LEMMA SendTarget ==
  ASSUME IInv, pipe_send
  PROVE  /\ out \in Reply \cup Push /\ Target \in Conns
         /\ Target = pipes[i] \/ (out \in Push /\ Target = pipes[idx])
         /\ \/ UNCHANGED toChild /\ Exited(Target)
            \/ /\ toChild' = [toChild EXCEPT ![Target] = Append(@, out)]
               /\ Len(toChild[Target]) < PipeCap /\ ~Exited(Target)
<1>1. at = "send" /\ out \in Reply \cup Push
  BY DEF pipe_send, AfterSend, Reply, Push
<1>2. /\ Target \in Conns
      /\ Target = pipes[i] \/ (out \in Push /\ Target = pipes[idx])
  BY <1>1 DEF IInv, RouteInv, Routing, Target
<1> QED
  BY <1>1, <1>2 DEF pipe_send, PipeWrite

\* Every step keeps the contents of the pipes.
LEMMA PipeStep == IInv /\ [Next]_vars => PipeType'
<1> SUFFICES ASSUME IInv, [Next]_vars PROVE PipeType'
  OBVIOUS
<1> USE DEF IInv, TypeOK, PipeType, ProcType, ParentType, procs
<1>1. CASE pipe_recv_ok
  BY <1>1 DEF pipe_recv_ok, RouteInv, Routing
<1>2. CASE pipe_send
  <2>1. UNCHANGED fromChild
    BY <1>2 DEF pipe_send, AfterSend
  <2>2. toChild' \in [Conns -> Seq(Reply \cup Push)]
    BY <1>2, SendTarget, ToChildWrite
  <2> QED
    BY <2>1, <2>2
<1>3. ASSUME NEW c \in Conns, child_write(c) PROVE PipeType'
  <2>1. fromChild' \in [Conns -> Seq(Messages)]
    BY <1>3, FromChildWrite
  <2>2. <<>> \in Seq(Reply \cup Push)
    OBVIOUS
  <2>3. toChild' = [toChild EXCEPT ![c] = <<>>] \/ UNCHANGED toChild
    BY <1>3 DEF child_write
  <2>4. toChild' \in [Conns -> Seq(Reply \cup Push)]
    BY <2>2, <2>3
  <2> QED
    BY <2>1, <2>4
<1>4. ASSUME NEW c \in Conns, child_deliver(c) PROVE PipeType'
  BY <1>4 DEF child_deliver
<1>5. CASE main_select \/ main_fork \/ main_fork_fails \/ main_refuse \/ main_enter_pid \/
   main_stops \/ check_children \/ check_children_ends
  BY <1>5
     DEF main_select, main_fork, MakePipes, main_fork_fails, MakePipes, main_refuse,
     main_enter_pid, main_stops, check_children, check_children_ends
<1>6. CASE pipe_recv_eof \/ route_plain \/ route_login \/ route_login_rejected \/
   route_login_name \/ route_login_activate \/ route_logout \/ route_broadcast \/ route_private
   \/ route_status \/ route_loop \/ route_loop_ends \/ sigchld_handler
  BY <1>6
     DEF pipe_recv_eof, route_plain, route_bad_login, route_list, route_history, route_unknown,
     route_login, route_login_rejected, validate, route_login_name, validate,
     route_login_activate, route_logout, route_broadcast, route_private, route_status,
     route_loop, route_loop_ends, sigchld_handler
<1>7. ASSUME NEW c \in Conns, main_accept(c) \/ ClientLeaves(c) \/ child_recv(c) \/
   child_eof(c) \/ child_orphaned(c) PROVE PipeType'
  BY <1>7 DEF main_accept, ClientLeaves, child_recv, child_eof, child_orphaned
<1>8. CASE UNCHANGED vars
  BY <1>8 DEF vars, procs
<1> QED
  BY <1>1, <1>2, <1>3, <1>4, <1>5, <1>6, <1>7, <1>8 DEF Next, ParentStep, RouteStep, ChildStep

\* Every step keeps the types of the processes and their pipes.
LEMMA ProcStep == IInv /\ PipeType' /\ [Next]_vars => ProcType'
<1> SUFFICES ASSUME IInv, PipeType', [Next]_vars PROVE ProcType'
  OBVIOUS
<1> USE ForkAssumption DEF IInv, TypeOK, PipeType, ProcType, procs
<1>1. CASE pipe_recv_ok
  BY <1>1 DEF pipe_recv_ok
<1>2. CASE pipe_send
  <2>1. UNCHANGED <<fromChild, held, inherits, child, cmsg, due>>
    BY <1>2 DEF pipe_send, AfterSend
  <2>2. ASSUME NEW c \in Conns PROVE Len(toChild'[c]) <= PipeCap
    <3>1. CASE UNCHANGED toChild
      BY <3>1
    <3>2. CASE toChild' = [toChild EXCEPT ![Target] = Append(@, out)] /\ Len(toChild[Target])
       < PipeCap
      <4>1. /\ Len(toChild'[Target]) = Len(toChild[Target]) + 1 /\ Len(toChild[Target]) \in Nat
            /\ c # Target => toChild'[c] = toChild[c]
        BY <1>2, <3>2, SendTarget, ToChildWrite
      <4> QED
        BY <3>2, <4>1
    <3> QED
      BY <1>2, <3>1, <3>2, SendTarget
  <2> QED
    BY <2>1, <2>2
<1>3. ASSUME NEW c \in Conns, child_write(c) PROVE ProcType'
  <2>1. \A d \in Conns : Len(fromChild'[d]) <= PipeCap
    BY <1>3, FromChildWrite
  <2>2. \A d \in Conns : Len(toChild'[d]) <= PipeCap
    <3>1. toChild' = [toChild EXCEPT ![c] = <<>>] \/ UNCHANGED toChild
      BY <1>3 DEF child_write
    <3>2. Len(<<>>) = 0
      OBVIOUS
    <3>3. \A d \in Conns : toChild'[d] = toChild[d] \/ toChild'[d] = <<>>
      BY <3>1
    <3> QED
      BY <3>2, <3>3
  <2>3. UNCHANGED <<held, inherits>>
    BY <1>3 DEF child_write
  <2>4. /\ child' \in [Conns -> {"none", "select", "forward", "last", "deliver", "zombie",
                              "reaped"}]
        /\ cmsg' \in [Conns -> Messages] /\ due' \in [Conns -> BOOLEAN]
    BY <1>3 DEF child_write, Messages
  <2> QED
    BY <2>1, <2>2, <2>3, <2>4
<1>4. ASSUME NEW c \in Conns, child_deliver(c) PROVE ProcType'
  BY <1>4 DEF child_deliver
<1>5. ASSUME NEW c \in Conns, child_recv(c) PROVE ProcType'
  BY <1>5, RequestsType DEF child_recv, Messages
<1>6. ASSUME NEW c \in Conns, child_eof(c) PROVE ProcType'
  BY <1>6 DEF child_eof, Messages
<1>7. ASSUME NEW c \in Conns, child_orphaned(c) PROVE ProcType'
  BY <1>7 DEF child_orphaned
<1>8. CASE main_fork
  BY <1>8 DEF main_fork, MakePipes, ConnInv
<1>9. CASE main_fork_fails
  BY <1>9 DEF main_fork_fails, MakePipes, ConnInv
<1>10. CASE main_stops
  BY <1>10 DEF main_stops
<1>11. CASE sigchld_handler
  BY <1>11 DEF sigchld_handler
<1>12. CASE main_select \/ main_refuse \/ main_enter_pid \/ check_children \/
   check_children_ends
  BY <1>12 DEF main_select, main_refuse, main_enter_pid, check_children, check_children_ends
<1>13. CASE pipe_recv_eof \/ route_plain \/ route_login \/ route_login_rejected \/
   route_login_name \/ route_login_activate \/ route_logout \/ route_broadcast \/ route_private
   \/ route_status \/ route_loop \/ route_loop_ends
  BY <1>13
     DEF pipe_recv_eof, route_plain, route_bad_login, route_list, route_history, route_unknown,
     route_login, route_login_rejected, validate, route_login_name, validate,
     route_login_activate, route_logout, route_broadcast, route_private, route_status,
     route_loop, route_loop_ends
<1>14. ASSUME NEW c \in Conns, main_accept(c) \/ ClientLeaves(c) PROVE ProcType'
  BY <1>14 DEF main_accept, ClientLeaves
<1>15. CASE UNCHANGED vars
  BY <1>15 DEF vars
<1> QED
  BY <1>1, <1>2, <1>3, <1>4, <1>5, <1>6, <1>7, <1>8, <1>9, <1>10, <1>11, <1>12, <1>13, <1>14, <1>15
     DEF Next, ParentStep, RouteStep, ChildStep

\* Every step keeps the types of the clients, the logs and the history variable.
LEMMA EnvStep == IInv /\ [Next]_vars => EnvType'
<1> SUFFICES ASSUME IInv, [Next]_vars PROVE EnvType'
  OBVIOUS
<1> USE DEF IInv, TypeOK, EnvType, ParentType, env
<1>1. CASE main_refuse
  BY <1>1 DEF main_refuse, Greet
<1>2. CASE route_broadcast
  <2>1. logged' \subseteq Users
    BY <1>2, MessageFields DEF route_broadcast, Routes, save_history
  <2> QED
    BY <1>2, <2>1 DEF route_broadcast
<1>3. CASE route_private
  <2>1. logged' \subseteq Users
    BY <1>3, MessageFields DEF route_private, Routes, save_history
  <2> QED
    BY <1>3, <2>1 DEF route_private
<1>4. ASSUME NEW c \in Conns, child_deliver(c) PROVE EnvType'
  BY <1>4 DEF child_deliver, Greet
<1>5. ASSUME NEW c \in Conns, main_accept(c) PROVE EnvType'
  BY <1>5 DEF main_accept
<1>6. ASSUME NEW c \in Conns, ClientLeaves(c) PROVE EnvType'
  BY <1>6 DEF ClientLeaves
<1>7. ASSUME NEW c \in Conns, child_recv(c) PROVE EnvType'
  BY <1>7 DEF child_recv
<1>8. CASE main_select \/ main_fork \/ main_fork_fails \/ main_enter_pid \/ main_stops \/
   check_children \/ check_children_ends
  BY <1>8
     DEF main_select, main_fork, MakePipes, main_fork_fails, MakePipes, main_enter_pid,
     main_stops, check_children, check_children_ends
<1>9. CASE pipe_recv_ok \/ pipe_send \/ pipe_recv_eof \/ route_plain \/ route_login \/
   route_login_rejected \/ route_login_name \/ route_login_activate \/ route_logout \/
   route_status \/ route_loop \/ route_loop_ends \/ sigchld_handler
  BY <1>9
     DEF pipe_recv_ok, pipe_send, PipeWrite, AfterSend, pipe_recv_eof, route_plain,
     route_bad_login, route_list, route_history, route_unknown, route_login,
     route_login_rejected, validate, route_login_name, validate, route_login_activate,
     route_logout, route_status, route_loop, route_loop_ends, sigchld_handler
<1>10. ASSUME NEW c \in Conns, child_eof(c) \/ child_write(c) \/ child_orphaned(c) PROVE
   EnvType'
  BY <1>10 DEF child_eof, child_write, child_orphaned
<1>11. CASE UNCHANGED vars
  BY <1>11 DEF vars, env
<1> QED
  BY <1>1, <1>2, <1>3, <1>4, <1>5, <1>6, <1>7, <1>8, <1>9, <1>10, <1>11
     DEF Next, ParentStep, RouteStep, ChildStep

\* select() reports pipes of children only.
LEMMA ReadableType == IInv => Readable \subseteq Conns /\ \A c \in Readable : Readied(c)
  BY DEF IInv, PipesInv, Readable, Readied

\* Every step keeps the types of the parent's variables.
LEMMA ParentTypeStep == IInv /\ [Next]_vars => ParentType'
<1> SUFFICES ASSUME IInv, [Next]_vars PROVE ParentType'
  OBVIOUS
<1> USE ForkAssumption DEF IInv, TypeOK, TableType, ParentType, RouteInv, Routing, parent,
   accepting, routing, CheckFrom, Accepted, Answer, StartLoop, Maybe, Slots
<1>1. CASE main_select
  BY <1>1, ReadableType DEF main_select
<1>2. ASSUME NEW c \in Conns, main_accept(c) PROVE ParentType'
  BY <1>2, ReadableType DEF main_accept
<1>3. CASE main_fork
  BY <1>3 DEF main_fork, MakePipes
<1>4. CASE main_fork_fails
  BY <1>4 DEF main_fork_fails, MakePipes
<1>5. CASE main_refuse
  BY <1>5 DEF main_refuse
<1>6. CASE main_enter_pid
  BY <1>6 DEF main_enter_pid
<1>7. CASE main_stops
  BY <1>7 DEF main_stops
<1>8. CASE check_children
  BY <1>8 DEF check_children
<1>9. CASE check_children_ends
  BY <1>9 DEF check_children_ends
<1>10. CASE pipe_recv_ok
  BY <1>10 DEF pipe_recv_ok, PipeType
<1>11. CASE pipe_recv_eof
  BY <1>11 DEF pipe_recv_eof
<1>12. CASE route_plain \/ route_login \/ route_login_rejected \/ route_login_name \/
   route_login_activate \/ route_status
  BY <1>12
     DEF route_plain, route_bad_login, route_list, route_history, route_unknown, route_login,
     route_login_rejected, validate, route_login_name, validate, route_login_activate,
     route_status, Reply
<1>13. CASE route_logout
  BY <1>13 DEF route_logout, Push
<1>14. CASE route_broadcast
  BY <1>14 DEF route_broadcast, Reply, Push
<1>15. CASE route_private
  BY <1>15 DEF route_private, Reply, Push
<1>16. CASE route_loop
  BY <1>16 DEF route_loop
<1>17. CASE route_loop_ends
  BY <1>17 DEF route_loop_ends, Reply, Messages
<1>18. CASE pipe_send
  BY <1>18 DEF pipe_send, PipeWrite, AfterSend, Reply, Messages
<1>19. CASE sigchld_handler
  BY <1>19 DEF sigchld_handler
<1>20. ASSUME NEW c \in Conns, ClientLeaves(c) \/ child_recv(c) \/ child_eof(c) \/
   child_write(c) \/ child_deliver(c) \/ child_orphaned(c) PROVE ParentType'
  BY <1>20 DEF ClientLeaves, child_recv, child_eof, child_write, child_deliver, child_orphaned
<1>21. CASE UNCHANGED vars
  BY <1>21 DEF vars
<1> QED
  BY <1>1, <1>2, <1>3, <1>4, <1>5, <1>6, <1>7, <1>8, <1>9, <1>10, <1>11, <1>12, <1>13, <1>14,
     <1>15, <1>16, <1>17, <1>18, <1>19, <1>20, <1>21
     DEF Next, ParentStep, RouteStep, ChildStep

-----------------------------------------------------------------------------
(* Connections, slots and pipes *)

\* Every step keeps a connection to one child and one pair of pipes.
LEMMA ConnStep == IInv /\ [Next]_vars => ConnInv'
<1> SUFFICES ASSUME IInv, [Next]_vars PROVE ConnInv'
  OBVIOUS
<1> USE ProtocolAssumption DEF IInv, TypeOK, TableType, ProcType, EnvType, ParentType, ConnInv,
   table, procs, env, parent, accepting, CheckFrom, Accepted, Answer, StartLoop, Maybe
<1>1. CASE main_select
  BY <1>1 DEF main_select
<1>2. CASE main_fork
  BY <1>2 DEF main_fork, MakePipes
<1>3. CASE main_fork_fails
  BY <1>3 DEF main_fork_fails, MakePipes
<1>4. CASE main_refuse
  BY <1>4 DEF main_refuse
<1>5. CASE main_enter_pid
  BY <1>5 DEF main_enter_pid
<1>6. CASE main_stops
  BY <1>6 DEF main_stops
<1>7. CASE check_children
  BY <1>7 DEF check_children
<1>8. CASE check_children_ends
  BY <1>8 DEF check_children_ends
<1>9. CASE pipe_recv_ok
  BY <1>9 DEF pipe_recv_ok
<1>10. CASE pipe_recv_eof
  BY <1>10 DEF pipe_recv_eof
<1>11. CASE route_plain \/ route_login \/ route_login_rejected \/ route_login_name \/
   route_login_activate \/ route_logout \/ route_broadcast \/ route_private \/ route_status
  BY <1>11
     DEF route_plain, route_bad_login, route_list, route_history, route_unknown, route_login,
     route_login_rejected, validate, route_login_name, validate, route_login_activate,
     route_logout, route_broadcast, route_private, route_status
<1>12. CASE route_loop
  BY <1>12 DEF route_loop
<1>13. CASE route_loop_ends
  BY <1>13 DEF route_loop_ends
<1>14. CASE pipe_send
  BY <1>14 DEF pipe_send, PipeWrite, AfterSend
<1>15. CASE sigchld_handler
  BY <1>15 DEF sigchld_handler
<1>16. ASSUME NEW c \in Conns, main_accept(c) PROVE ConnInv'
  BY <1>16 DEF main_accept
<1>17. ASSUME NEW c \in Conns, ClientLeaves(c) PROVE ConnInv'
  BY <1>17 DEF ClientLeaves
<1>18. ASSUME NEW c \in Conns, child_recv(c) PROVE ConnInv'
  BY <1>18 DEF child_recv
<1>19. ASSUME NEW c \in Conns, child_eof(c) PROVE ConnInv'
  BY <1>19 DEF child_eof
<1>20. ASSUME NEW c \in Conns, child_write(c) PROVE ConnInv'
  BY <1>20 DEF child_write
<1>21. ASSUME NEW c \in Conns, child_deliver(c) PROVE ConnInv'
  BY <1>21 DEF child_deliver, ServesPipe
<1>22. ASSUME NEW c \in Conns, child_orphaned(c) PROVE ConnInv'
  BY <1>22 DEF child_orphaned, ServesPipe
<1>23. CASE UNCHANGED vars
  BY <1>23 DEF vars
<1> QED
  BY <1>1, <1>2, <1>3, <1>4, <1>5, <1>6, <1>7, <1>8, <1>9, <1>10, <1>11, <1>12, <1>13, <1>14,
     <1>15, <1>16, <1>17, <1>18, <1>19, <1>20, <1>21, <1>22, <1>23
     DEF Next, ParentStep, RouteStep, ChildStep

\* Every step keeps the pipes of the slots apart.
LEMMA PipesStep == IInv /\ [Next]_vars => PipesInv'
<1> SUFFICES ASSUME IInv, [Next]_vars PROVE PipesInv'
  OBVIOUS
<1> USE DEF IInv, TypeOK, TableType, ParentType, PipesInv, table, Maybe
<1>1. CASE main_fork
  BY <1>1, ProtocolAssumption DEF main_fork, MakePipes, find_free_slot, Free, ConnInv
<1>2. CASE main_fork_fails
  BY <1>2, ProtocolAssumption DEF main_fork_fails, MakePipes, find_free_slot, Free, ConnInv
<1>3. CASE main_enter_pid
  BY <1>3 DEF main_enter_pid, ConnInv
<1>4. CASE pipe_recv_eof
  BY <1>4 DEF pipe_recv_eof
<1>5. CASE route_login_activate
  BY <1>5 DEF route_login_activate, RouteInv, Routing
<1>6. CASE route_logout
  BY <1>6 DEF route_logout
<1>7. CASE sigchld_handler
  BY <1>7 DEF sigchld_handler
<1>8. CASE main_select \/ main_refuse \/ main_stops \/ check_children \/ check_children_ends
  BY <1>8 DEF main_select, main_refuse, main_stops, check_children, check_children_ends
<1>9. CASE pipe_recv_ok \/ route_plain \/ route_login \/ route_login_rejected \/
   route_broadcast \/ route_private \/ route_loop \/ route_loop_ends \/ pipe_send \/
   route_login_name \/ route_status
  BY <1>9
     DEF pipe_recv_ok, route_plain, route_bad_login, route_list, route_history, route_unknown,
     route_login, route_login_rejected, validate, route_broadcast, route_private, route_loop,
     route_loop_ends, pipe_send, PipeWrite, AfterSend, route_login_name, validate, route_status
<1>10. ASSUME NEW c \in Conns, main_accept(c) \/ ClientLeaves(c) \/ child_recv(c) \/
   child_eof(c) \/ child_write(c) \/ child_deliver(c) \/ child_orphaned(c) PROVE PipesInv'
  BY <1>10
     DEF main_accept, ClientLeaves, child_recv, child_eof, child_write, child_deliver,
     child_orphaned
<1>11. CASE UNCHANGED vars
  BY <1>11 DEF vars
<1> QED
  BY <1>1, <1>2, <1>3, <1>4, <1>5, <1>6, <1>7, <1>8, <1>9, <1>10, <1>11
     DEF Next, ParentStep, RouteStep, ChildStep

\* Every step keeps the slot and the message in hand.
LEMMA RouteStepInv == IInv /\ [Next]_vars => RouteInv'
<1> SUFFICES ASSUME IInv, [Next]_vars PROVE RouteInv'
  OBVIOUS
<1> USE DEF IInv, TypeOK, ParentType, RouteInv, Routing, table, parent, routing, Slots
<1>1. CASE main_select \/ main_refuse \/ main_enter_pid \/ main_stops \/ check_children_ends
  BY <1>1
     DEF main_select, main_refuse, main_enter_pid, main_stops, check_children_ends, CheckFrom
<1>2. CASE main_fork \/ main_fork_fails
  BY <1>2 DEF main_fork, MakePipes, main_fork_fails, MakePipes, CheckFrom
<1>3. CASE check_children
  BY <1>3 DEF check_children, CheckFrom
<1>4. CASE pipe_recv_ok
  BY <1>4 DEF pipe_recv_ok
<1>5. CASE pipe_recv_eof
  BY <1>5 DEF pipe_recv_eof, CheckFrom
<1>6. CASE route_plain \/ route_login \/ route_login_rejected \/ route_login_name \/
   route_login_activate \/ route_status
  BY <1>6
     DEF route_plain, route_bad_login, route_list, route_history, route_unknown, route_login,
     route_login_rejected, validate, route_login_name, validate, route_login_activate,
     route_status, Routes, Answer, Reply, Push
<1>7. CASE route_logout
  BY <1>7 DEF route_logout, Routes, StartLoop, Reply, Push
<1>8. CASE route_broadcast
  BY <1>8 DEF route_broadcast, Routes, StartLoop, Answer, Reply, Push
<1>9. CASE route_private
  BY <1>9 DEF route_private, Routes, find_slot_by_username, Answer, Reply, Push, PipesInv
<1>10. CASE route_loop
  BY <1>10 DEF route_loop, PipesInv
<1>11. CASE route_loop_ends
  BY <1>11 DEF route_loop_ends, Answer, CheckFrom, Reply, Push
<1>12. CASE pipe_send
  BY <1>12 DEF pipe_send, PipeWrite, AfterSend, Answer, CheckFrom, Reply, Push
<1>13. CASE sigchld_handler
  BY <1>13 DEF sigchld_handler
<1>14. ASSUME NEW c \in Conns, main_accept(c) PROVE RouteInv'
  BY <1>14 DEF main_accept
<1>15. ASSUME NEW c \in Conns, ClientLeaves(c) \/ child_recv(c) \/ child_eof(c) \/
   child_write(c) \/ child_deliver(c) \/ child_orphaned(c) PROVE RouteInv'
  BY <1>15 DEF ClientLeaves, child_recv, child_eof, child_write, child_deliver, child_orphaned
<1>16. CASE UNCHANGED vars
  BY <1>16 DEF vars
<1> QED
  BY <1>1, <1>2, <1>3, <1>4, <1>5, <1>6, <1>7, <1>8, <1>9, <1>10, <1>11, <1>12, <1>13, <1>14,
     <1>15, <1>16
     DEF Next, ParentStep, RouteStep, ChildStep

-----------------------------------------------------------------------------
(* Names *)

\* Every step keeps names unique: the parent searches and enters a name in steps
\* of its own, and sigchld_handler() in between only takes names away.
LEMMA NameStep == IInv /\ [Next]_vars => (NameInv /\ UniqueUsers)'
<1> SUFFICES ASSUME IInv, [Next]_vars PROVE (NameInv /\ UniqueUsers)'
  OBVIOUS
<1> USE DEF IInv, TypeOK, TableType, ParentType, NameInv, UniqueUsers, RouteInv, Routing,
   table, parent, routing
<1>1. CASE main_select \/ main_refuse \/ main_enter_pid \/ main_stops \/ check_children \/
   check_children_ends
  BY <1>1
     DEF main_select, main_refuse, main_enter_pid, main_stops, check_children,
     check_children_ends, CheckFrom
<1>2. CASE main_fork \/ main_fork_fails
  BY <1>2 DEF main_fork, MakePipes, main_fork_fails, MakePipes, CheckFrom
<1>3. CASE pipe_recv_ok
  BY <1>3 DEF pipe_recv_ok
<1>4. CASE pipe_recv_eof
  BY <1>4 DEF pipe_recv_eof, CheckFrom
<1>5. CASE route_login
  <2>1. msg.from \in Users /\ msg.from # NoUser
    BY <1>5, MessageFields, ProtocolAssumption DEF route_login, Routes
  <2>2. CASE at' = "validate"
    <3>1. ASSUME NEW s \in Slots \ {i}, active[s], username[s] = msg.from PROVE FALSE
      <4>1. \A r \in Slots : active[r] /\ username[r] = msg.from => s = r
        BY <2>1, <3>1
      <4>2. find_slot_by_username(msg.from, s)
        BY <3>1, <4>1 DEF find_slot_by_username, Slots
      <4> QED
        BY <1>5, <2>2, <3>1, <4>2 DEF route_login, Answer
    <3> QED
      BY <1>5, <2>1, <2>2, <3>1 DEF route_login
  <2>3. CASE at' # "validate"
    BY <1>5, <2>3 DEF route_login, Answer
  <2> QED
    BY <2>2, <2>3
<1>6. CASE route_login_name
  BY <1>6 DEF route_login_name, validate
<1>7. CASE route_login_activate
  BY <1>7 DEF route_login_activate, Answer
<1>8. CASE route_logout
  BY <1>8 DEF route_logout, StartLoop
<1>9. CASE route_plain \/ route_login_rejected \/ route_broadcast \/ route_private \/
   route_status
  BY <1>9
     DEF route_plain, route_bad_login, route_list, route_history, route_unknown,
     route_login_rejected, validate, route_broadcast, route_private, route_status, Answer,
     StartLoop
<1>10. CASE route_loop \/ route_loop_ends \/ pipe_send
  BY <1>10 DEF route_loop, route_loop_ends, pipe_send, PipeWrite, AfterSend, Answer, CheckFrom
<1>11. CASE sigchld_handler
  BY <1>11, ProtocolAssumption DEF sigchld_handler
<1>12. ASSUME NEW c \in Conns, main_accept(c) PROVE (NameInv /\ UniqueUsers)'
  BY <1>12 DEF main_accept
<1>13. ASSUME NEW c \in Conns, ClientLeaves(c) \/ child_recv(c) \/ child_eof(c) \/
   child_write(c) \/ child_deliver(c) \/ child_orphaned(c) PROVE (NameInv /\ UniqueUsers)'
  BY <1>13 DEF ClientLeaves, child_recv, child_eof, child_write, child_deliver, child_orphaned
<1>14. CASE UNCHANGED vars
  BY <1>14 DEF vars
<1> QED
  BY <1>1, <1>2, <1>3, <1>4, <1>5, <1>6, <1>7, <1>8, <1>9, <1>10, <1>11, <1>12, <1>13, <1>14
     DEF Next, ParentStep, RouteStep, ChildStep

-----------------------------------------------------------------------------
(* The first message *)

\* A child that has exited does not come back: its connection got it once.
LEMMA ExitedStep == IInv /\ [Next]_vars => \A d \in Conns : Exited(d) => Exited(d)'
<1> DEFINE Stays == \A d \in Conns : Exited(d) => Exited(d)'
<1> SUFFICES ASSUME IInv, [Next]_vars PROVE Stays
  OBVIOUS
<1> USE DEF IInv, TypeOK, ProcType, Exited, procs
<1>1. CASE main_fork
  BY <1>1 DEF main_fork, MakePipes, ConnInv
<1>2. CASE sigchld_handler
  BY <1>2 DEF sigchld_handler
<1>3. ASSUME NEW c \in Conns, child_recv(c) PROVE Stays
  BY <1>3 DEF child_recv
<1>4. ASSUME NEW c \in Conns, child_eof(c) PROVE Stays
  BY <1>4 DEF child_eof
<1>5. ASSUME NEW c \in Conns, child_write(c) PROVE Stays
  BY <1>5 DEF child_write
<1>6. ASSUME NEW c \in Conns, child_deliver(c) \/ child_orphaned(c) PROVE Stays
  BY <1>6 DEF child_deliver, child_orphaned, ServesPipe
<1>7. CASE main_select \/ main_fork_fails \/ main_refuse \/ main_enter_pid \/ main_stops \/
   check_children \/ check_children_ends
  BY <1>7
     DEF main_select, main_fork_fails, MakePipes, main_refuse, main_enter_pid, main_stops,
     check_children, check_children_ends
<1>8. CASE route_plain \/ route_login \/ route_login_rejected \/ route_login_name \/
   route_login_activate \/ route_logout \/ route_broadcast \/ route_private \/ route_status
  BY <1>8
     DEF route_plain, route_bad_login, route_list, route_history, route_unknown, route_login,
     route_login_rejected, validate, route_login_name, validate, route_login_activate,
     route_logout, route_broadcast, route_private, route_status
<1>9. CASE pipe_recv_ok \/ pipe_recv_eof \/ route_loop \/ route_loop_ends \/ pipe_send
  BY <1>9
     DEF pipe_recv_ok, pipe_recv_eof, route_loop, route_loop_ends, pipe_send, PipeWrite,
     AfterSend
<1>10. ASSUME NEW c \in Conns, main_accept(c) \/ ClientLeaves(c) PROVE Stays
  BY <1>10 DEF main_accept, ClientLeaves
<1>11. CASE UNCHANGED vars
  BY <1>11 DEF vars
<1> QED
  BY <1>1, <1>2, <1>3, <1>4, <1>5, <1>6, <1>7, <1>8, <1>9, <1>10, <1>11
     DEF Next, ParentStep, RouteStep, ChildStep

\* Greet() notes the first message only.
LEMMA GreetStep ==
  ASSUME EnvType, NEW c \in Conns, NEW m, Greet(c, m)
  PROVE  /\ greeted'[c] # "none"
         /\ greeted[c] # "none" => greeted'[c] = greeted[c]
         /\ greeted[c] = "none" /\ m \in Reply => greeted'[c] = "reply"
         /\ \A d \in Conns \ {c} : greeted'[d] = greeted[d]
  BY DEF EnvType, Greet

\* Every step keeps a reply at the head of the first pipe contents, and a
\* connection that has had its reply, or has it coming, stays one.
LEMMA HeadStep == IInv /\ [Next]_vars => HeadInv' /\ \A c \in Conns : Acked(c) => Acked(c)'
<1> DEFINE Stays == \A c \in Conns : Acked(c) => Acked(c)'
<1> SUFFICES ASSUME IInv, [Next]_vars PROVE HeadInv' /\ Stays
  OBVIOUS
<1>a. HeadInv /\ EnvType /\ PipeType
  BY DEF IInv, TypeOK
<1>b. \A c \in Conns : Exited(c) => Exited(c)'
  BY ExitedStep
<1>c. ASSUME UNCHANGED <<toChild, greeted>> PROVE HeadInv' /\ Stays
  BY <1>a, <1>b, <1>c DEF HeadInv, Acked
<1>1. CASE main_refuse
  <2>1. UNCHANGED toChild
    BY <1>1 DEF main_refuse, procs
  <2>2. CASE Greet(conn, "err")
    <3>1. conn \in Conns
      BY <1>1 DEF main_refuse, IInv, ConnInv
    <3>2. "err" \in Reply
      BY DEF Reply
    <3> QED
      BY <1>a, <1>b, <2>1, <2>2, <3>1, <3>2, GreetStep DEF HeadInv, Acked
  <2>3. CASE UNCHANGED greeted
    BY <1>c, <2>1, <2>3
  <2> QED
    BY <1>1, <2>2, <2>3 DEF main_refuse
<1>2. ASSUME NEW c \in Conns, child_deliver(c) PROVE HeadInv' /\ Stays
  <2>1. /\ toChild[c] # <<>> /\ toChild' = [toChild EXCEPT ![c] = Tail(@)]
        /\ Greet(c, toChild[c][1])
    BY <1>2, <1>a DEF child_deliver, PipeType
  <2>2. /\ greeted'[c] # "none" /\ greeted'[c] # "push"
        /\ \A d \in Conns \ {c} : greeted'[d] = greeted[d]
    BY <1>a, <2>1, GreetStep DEF HeadInv
  <2>3. \A d \in Conns \ {c} : toChild'[d] = toChild[d]
    BY <1>a, <2>1 DEF PipeType
  <2> QED
    BY <1>a, <1>b, <2>2, <2>3 DEF HeadInv, Acked
<1>3. ASSUME NEW c \in Conns, child_write(c) PROVE HeadInv' /\ Stays
  <2>1. CASE UNCHANGED toChild
    BY <1>3, <1>c, <2>1 DEF child_write
  <2>2. CASE toChild' = [toChild EXCEPT ![c] = <<>>] /\ Exited(c)'
    <3>1. UNCHANGED greeted /\ \A d \in Conns : toChild'[d] = toChild[d] \/ (toChild'[d] =
       <<>> /\ d = c)
      BY <1>3, <1>a, <2>2 DEF child_write, PipeType
    <3> QED
      BY <1>a, <1>b, <2>2, <3>1 DEF HeadInv, Acked
  <2> QED
    BY <1>3, <2>1, <2>2 DEF child_write, Exited, IInv, TypeOK, ProcType
<1>4. CASE pipe_send
  <2>1. UNCHANGED greeted
    BY <1>4 DEF pipe_send, AfterSend
  <2>2. CASE UNCHANGED toChild
    BY <1>c, <2>1, <2>2
  <2>3. CASE toChild' = [toChild EXCEPT ![Target] = Append(@, out)] /\ ~Exited(Target)
    <3>1. /\ Target \in Conns /\ toChild'[Target] # <<>>
          /\ toChild'[Target][1] = IF toChild[Target] = <<>> THEN out ELSE toChild[Target][1]
          /\ \A d \in Conns \ {Target} : toChild'[d] = toChild[d]
      BY <1>4, <1>a, <2>3, SendTarget, ToChildWrite
    <3>2. out \in Reply \/ Acked(Target)
      BY <1>4, SendTarget DEF Target, pipe_send, IInv, AckInv
    <3> HIDE DEF Stays
    <3>3. HeadInv'
      BY <1>a, <2>1, <2>3, <3>1, <3>2 DEF HeadInv, Acked
    <3>4. Stays
      BY <1>b, <2>1, <3>1 DEF Acked, Stays
    <3> QED
      BY <3>3, <3>4
  <2> QED
    BY <1>4, <2>2, <2>3, SendTarget
<1>5. CASE main_select \/ main_fork \/ main_fork_fails \/ main_enter_pid \/ main_stops \/
   check_children \/ check_children_ends
  BY <1>5, <1>c
     DEF main_select, main_fork, MakePipes, main_fork_fails, MakePipes, main_enter_pid,
     main_stops, check_children, check_children_ends, procs
<1>6. CASE route_plain \/ route_login \/ route_login_rejected \/ route_login_name \/
   route_login_activate \/ route_logout \/ route_broadcast \/ route_private \/ route_status
  BY <1>6, <1>c
     DEF route_plain, route_bad_login, route_list, route_history, route_unknown, route_login,
     route_login_rejected, validate, route_login_name, validate, route_login_activate,
     route_logout, route_broadcast, route_private, route_status, procs
<1>7. CASE pipe_recv_ok \/ pipe_recv_eof \/ route_loop \/ route_loop_ends \/ sigchld_handler
  BY <1>7, <1>c
     DEF pipe_recv_ok, pipe_recv_eof, route_loop, route_loop_ends, sigchld_handler, procs
<1>8. ASSUME NEW c \in Conns, main_accept(c) \/ ClientLeaves(c) \/ child_recv(c) \/
   child_eof(c) \/ child_orphaned(c) PROVE HeadInv' /\ Stays
  BY <1>8, <1>c DEF main_accept, ClientLeaves, child_recv, child_eof, child_orphaned, procs
<1>9. CASE UNCHANGED vars
  BY <1>9, <1>c DEF vars, procs
<1> QED
  BY <1>1, <1>2, <1>3, <1>4, <1>5, <1>6, <1>7, <1>8, <1>9
     DEF Next, ParentStep, RouteStep, ChildStep

\* Every step keeps the acknowledgement of a login ahead of what is pushed.
LEMMA AckStep == IInv /\ [Next]_vars => AckInv'
<1> SUFFICES ASSUME IInv, [Next]_vars PROVE AckInv'
  OBVIOUS
<1>a. \A c \in Conns : Acked(c) => Acked(c)'
  BY HeadStep
<1>b. \A s \in Slots : active[s] => pipes[s] \in Conns
  BY DEF IInv, PipesInv
<1>c. ASSUME UNCHANGED <<pipes, at, out, i, idx>>, \A s \in Slots : active'[s] => active[s]
      PROVE  AckInv'
  BY <1>a, <1>b, <1>c DEF IInv, AckInv, RouteInv
<1>d. ASSUME UNCHANGED pipes, \A s \in Slots : active'[s] => active[s],
             at # "send", at' # "send" \/ out' \in Reply \ Push
      PROVE  AckInv'
  BY <1>a, <1>b, <1>d DEF IInv, AckInv
<1> USE DEF table, parent, routing
<1>1. CASE main_select \/ main_refuse \/ main_enter_pid \/ main_stops \/ check_children \/
   check_children_ends
  BY <1>1, <1>d
     DEF main_select, main_refuse, main_enter_pid, main_stops, check_children,
     check_children_ends, CheckFrom
<1>2. CASE main_fork
  <2>1. at # "send" /\ at' # "send" /\ UNCHANGED active
    BY <1>2 DEF main_fork, MakePipes, CheckFrom
  <2>2. \A s \in Slots : active[s] => pipes'[s] = pipes[s]
    BY <1>2 DEF main_fork, MakePipes, find_free_slot, Free, IInv, TypeOK, TableType
  <2> QED
    BY <1>a, <1>b, <2>1, <2>2 DEF IInv, AckInv
<1>3. CASE main_fork_fails
  <2>1. at # "send" /\ at' # "send" /\ UNCHANGED active
    BY <1>3 DEF main_fork_fails, MakePipes, CheckFrom
  <2>2. \A s \in Slots : active[s] => pipes'[s] = pipes[s]
    BY <1>3 DEF main_fork_fails, MakePipes, find_free_slot, Free, IInv, TypeOK, TableType
  <2> QED
    BY <1>a, <1>b, <2>1, <2>2 DEF IInv, AckInv
<1>4. CASE pipe_recv_ok
  BY <1>4, <1>d DEF pipe_recv_ok, CheckFrom
<1>5. CASE pipe_recv_eof
  <2>1. \A s \in Slots : active'[s] => active[s]
    BY <1>5 DEF pipe_recv_eof, IInv, TypeOK, TableType
  <2> QED
    BY <1>5, <1>d, <2>1 DEF pipe_recv_eof, CheckFrom
<1>6. CASE route_plain \/ route_login \/ route_login_rejected \/ route_login_name \/
   route_status
  BY <1>6, <1>d
     DEF route_plain, route_bad_login, route_list, route_history, route_unknown, route_login,
     route_login_rejected, validate, route_login_name, validate, route_status, Routes, Answer,
     Reply, Push
<1>7. CASE route_login_activate
  <2>1. /\ at' = "send" /\ out' \in Reply \ Push /\ UNCHANGED <<pipes, i>> /\ at # "send"
        /\ \A s \in Slots : active'[s] => active[s] \/ s = i
    BY <1>7 DEF route_login_activate, Answer, Reply, Push, IInv, TypeOK, TableType
  <2> QED
    BY <1>a, <1>b, <2>1 DEF IInv, AckInv
<1>8. CASE route_logout
  <2>1. \A s \in Slots : active'[s] => active[s]
    BY <1>8 DEF route_logout, IInv, TypeOK, TableType
  <2> QED
    BY <1>8, <1>d, <2>1 DEF route_logout, Routes, StartLoop
<1>9. CASE route_broadcast
  BY <1>9, <1>d DEF route_broadcast, Routes, StartLoop, Answer, Reply, Push
<1>10. CASE route_private
  <2>1. at = "route" /\ UNCHANGED table
    BY <1>10 DEF route_private, Routes
  <2>2. CASE out' = "err"
    BY <1>10, <1>d, <2>1, <2>2 DEF route_private, Reply, Push
  <2>3. CASE \E t \in Slots : active[t] /\ idx' = t /\ out' = "priv"
    BY <1>a, <1>b, <2>1, <2>3 DEF IInv, AckInv
  <2> QED
    BY <1>10, <2>2, <2>3 DEF route_private, Answer, find_slot_by_username
<1>11. CASE route_loop
  <2>1. CASE at' = "send"
    <3>1. idx \in Slots /\ active[idx] /\ UNCHANGED <<pipes, idx, active>> /\ at # "send"
      BY <1>11, <2>1, ForkAssumption DEF route_loop, IInv, TypeOK, ParentType, Slots
    <3> QED
      BY <1>a, <1>b, <3>1 DEF IInv, AckInv
  <2>2. CASE at' # "send"
    BY <1>11, <1>d, <2>2 DEF route_loop
  <2> QED
    BY <2>1, <2>2
<1>12. CASE route_loop_ends
  BY <1>12, <1>d DEF route_loop_ends, CheckFrom, Answer, Reply, Push
<1>13. CASE pipe_send
  <2>1. at = "send" /\ UNCHANGED <<pipes, active>> /\ (at' # "send" \/ out' \in Reply \ Push)
    BY <1>13 DEF pipe_send, AfterSend, CheckFrom, Answer, Reply, Push
  <2>2. out \in Reply => Target = pipes[i]
    BY DEF Target
  <2>3. PICK d \in Conns : d = Target
    BY <1>13, SendTarget
  <2>4. Acked(d)'
    <3>1. Exited(d)' \/ toChild'[d] # <<>>
      BY <1>13, <2>3, SendTarget, ExitedStep, ToChildWrite DEF IInv
    <3> QED
      BY <3>1 DEF Acked
  <2>5. \A s \in Slots : active[s] => Acked(pipes[s]) \/ pipes[s] = d
    BY <2>2, <2>3 DEF IInv, AckInv
  <2> QED
    BY <1>a, <1>b, <2>1, <2>4, <2>5 DEF AckInv
<1>14. CASE sigchld_handler
  BY <1>14, <1>c DEF sigchld_handler
<1>15. ASSUME NEW c \in Conns, main_accept(c) PROVE AckInv'
  BY <1>15, <1>d DEF main_accept
<1>16. ASSUME NEW c \in Conns, ClientLeaves(c) \/ child_recv(c) \/ child_eof(c) \/
   child_write(c) \/ child_deliver(c) \/ child_orphaned(c) PROVE AckInv'
  BY <1>16, <1>c
     DEF ClientLeaves, child_recv, child_eof, child_write, child_deliver, child_orphaned
<1>17. CASE UNCHANGED vars
  BY <1>17, <1>c DEF vars
<1> QED
  BY <1>1, <1>2, <1>3, <1>4, <1>5, <1>6, <1>7, <1>8, <1>9, <1>10, <1>11, <1>12, <1>13, <1>14,
     <1>15, <1>16, <1>17
     DEF Next, ParentStep, RouteStep, ChildStep

-----------------------------------------------------------------------------
(* What select() reported *)

\* A pipe that is readable stays so until the parent reads it.
LEMMA ReadiedStep ==
  IInv /\ [Next]_vars => \A d \in Conns : Readied(d) => Readied(d)' \/ (pipe_recv_ok /\ d = rd)
<1> DEFINE Stays == \A d \in Conns : Readied(d) => Readied(d)' \/ (pipe_recv_ok /\ d = rd)
<1> SUFFICES ASSUME IInv, [Next]_vars PROVE Stays
  OBVIOUS
<1>a. \A d \in Conns : Exited(d) => Exited(d)'
  BY ExitedStep
<1>b. ASSUME UNCHANGED fromChild PROVE Stays
  BY <1>a, <1>b DEF Readied
<1>1. CASE pipe_recv_ok
  <2>1. \A d \in Conns \ {rd} : fromChild'[d] = fromChild[d]
    BY <1>1 DEF pipe_recv_ok, IInv, PipeType
  <2> QED
    BY <1>1, <1>a, <2>1 DEF Readied
<1>2. ASSUME NEW c \in Conns, child_write(c) PROVE Stays
  BY <1>2, <1>a, FromChildWrite DEF Readied
<1>3. CASE main_select \/ main_fork \/ main_fork_fails \/ main_refuse \/ main_enter_pid \/
   main_stops \/ check_children \/ check_children_ends
  BY <1>3, <1>b
     DEF main_select, main_fork, MakePipes, main_fork_fails, MakePipes, main_refuse,
     main_enter_pid, main_stops, check_children, check_children_ends, procs
<1>4. CASE pipe_recv_eof \/ route_plain \/ route_login \/ route_login_rejected \/
   route_login_name \/ route_login_activate \/ route_logout \/ route_broadcast \/ route_private
   \/ route_status \/ route_loop \/ route_loop_ends \/ sigchld_handler
  BY <1>4, <1>b
     DEF pipe_recv_eof, route_plain, route_bad_login, route_list, route_history, route_unknown,
     route_login, route_login_rejected, validate, route_login_name, validate,
     route_login_activate, route_logout, route_broadcast, route_private, route_status,
     route_loop, route_loop_ends, sigchld_handler, procs
<1>5. CASE pipe_send
  BY <1>5, <1>b DEF pipe_send, PipeWrite, AfterSend, procs
<1>6. ASSUME NEW c \in Conns, main_accept(c) \/ ClientLeaves(c) \/ child_recv(c) \/
   child_eof(c) \/ child_deliver(c) \/ child_orphaned(c) PROVE Stays
  BY <1>6, <1>b
     DEF main_accept, ClientLeaves, child_recv, child_eof, child_deliver, child_orphaned, procs
<1>7. CASE UNCHANGED vars
  BY <1>7, <1>b DEF vars, procs
<1> QED
  BY <1>1, <1>2, <1>3, <1>4, <1>5, <1>6, <1>7 DEF Next, ParentStep, RouteStep, ChildStep

\* Every step keeps what is yet to be read readable.
LEMMA ReadyStep == IInv /\ [Next]_vars => ReadyInv'
<1> SUFFICES ASSUME IInv, [Next]_vars PROVE ReadyInv'
  OBVIOUS
<1>a. \A d \in Conns : Readied(d) => Readied(d)' \/ (pipe_recv_ok /\ d = rd)
  BY ReadiedStep
<1>b. TypeOK /\ ReadyInv /\ (at \in Routing => i \in Slots) /\ ready \subseteq Conns
  BY DEF IInv, TypeOK, ParentType, RouteInv
<1>c. i \in Nat /\ \A s \in Slots : s \in Nat
  BY <1>b, ForkAssumption DEF TypeOK, ParentType, Slots
\* The loop stands still, or goes on routing.
<1>d. ASSUME UNCHANGED <<pipes, ready, i>>, ~pipe_recv_ok,
             \/ at' = at \/ (at = "scan" /\ at' = "recv")
             \/ at' \in Routing \ {"recv"} /\ at \in Routing
      PROVE  ReadyInv'
  BY <1>a, <1>b, <1>c, <1>d DEF ReadyInv, Routing
\* The loop goes on to the next slot.
<1>e. ASSUME UNCHANGED <<pipes, ready>>, ~pipe_recv_ok, at \in {"scan"} \cup Routing,
             at' = "scan", i' = i + 1
      PROVE  ReadyInv'
  <2>1. \A s \in Slots : s >= i + 1 => s > i
    BY <1>c
  <2> QED
    BY <1>a, <1>b, <1>c, <1>e, <2>1 DEF ReadyInv, Routing
\* The loop starts.
<1>f. ASSUME UNCHANGED ready, ~pipe_recv_ok, at \in {"place", "forked"},
             at' \in {"scan", "forked"}
      PROVE  ReadyInv'
  BY <1>a, <1>b, <1>f DEF ReadyInv, Routing
<1> USE DEF table, parent, accepting
<1>1. CASE main_select
  <2>1. \A c \in ready' : Readied(c)'
    BY <1>1, ReadableType DEF main_select, Readied, Exited, procs
  <2> QED
    BY <1>1, <2>1 DEF main_select, CheckFrom, ReadyInv
<1>2. ASSUME NEW c \in Conns, main_accept(c) PROVE ReadyInv'
  <2>1. \A d \in ready' : Readied(d)'
    BY <1>2, ReadableType DEF main_accept, Readied, Exited, procs
  <2> QED
    BY <1>2, <2>1 DEF main_accept, ReadyInv, Routing
<1>3. CASE main_fork
  BY <1>3, <1>f DEF main_fork, MakePipes, pipe_recv_ok
<1>4. CASE main_fork_fails
  BY <1>4, <1>f DEF main_fork_fails, MakePipes, CheckFrom, pipe_recv_ok
<1>5. CASE main_refuse
  BY <1>5, <1>f DEF main_refuse, CheckFrom, pipe_recv_ok
<1>6. CASE main_enter_pid
  BY <1>6, <1>f DEF main_enter_pid, CheckFrom, pipe_recv_ok
<1>7. CASE main_stops \/ check_children_ends
  BY <1>7 DEF main_stops, check_children_ends, ReadyInv, Routing
<1>8. CASE check_children
  <2>1. CASE at' = "recv"
    BY <1>8, <1>d, <2>1 DEF check_children, CheckFrom, pipe_recv_ok
  <2>2. CASE at' # "recv"
    BY <1>8, <1>e, <2>2 DEF check_children, CheckFrom, pipe_recv_ok
  <2> QED
    BY <2>1, <2>2
<1>9. CASE pipe_recv_ok
  <2>1. /\ at = "recv" /\ at' = "route" /\ UNCHANGED <<pipes, ready, i, rd>>
        /\ i \in Slots /\ rd = pipes[i] /\ rd \in Conns
    BY <1>9 DEF pipe_recv_ok, IInv, RouteInv, Routing
  <2>2. ASSUME NEW s \in Slots, pipes[s] \in ready, s > i PROVE Readied(pipes[s])'
    <3>1. PICK d \in Conns : d = pipes[s]
      BY <1>b, <2>2
    <3>2. d # rd /\ Readied(d)
      BY <1>b, <1>c, <2>1, <2>2, <3>1 DEF IInv, PipesInv, ReadyInv, Routing
    <3> QED
      BY <1>a, <2>1, <3>1, <3>2
  <2> QED
    BY <2>1, <2>2 DEF ReadyInv, Routing
<1>10. CASE pipe_recv_eof
  BY <1>10, <1>e DEF pipe_recv_eof, CheckFrom, pipe_recv_ok, Routing
<1>11. CASE route_plain \/ route_login \/ route_login_rejected \/ route_login_name \/
   route_login_activate \/ route_logout \/ route_broadcast \/ route_private \/ route_status
  BY <1>11, <1>d
     DEF route_plain, route_bad_login, route_list, route_history, route_unknown, route_login,
     route_login_rejected, validate, route_login_name, validate, route_login_activate,
     route_logout, route_broadcast, route_private, route_status, Routes, Answer, StartLoop,
     Routing, pipe_recv_ok
<1>12. CASE route_loop
  BY <1>12, <1>d DEF route_loop, Routing, pipe_recv_ok
<1>13. CASE route_loop_ends
  BY <1>13, <1>d, <1>e DEF route_loop_ends, Answer, CheckFrom, Routing, pipe_recv_ok
<1>14. CASE pipe_send
  BY <1>14, <1>d, <1>e
     DEF pipe_send, PipeWrite, AfterSend, Answer, CheckFrom, Routing, pipe_recv_ok
<1>15. CASE sigchld_handler
  BY <1>15, <1>d DEF sigchld_handler, pipe_recv_ok, procs
<1>16. ASSUME NEW c \in Conns, ClientLeaves(c) \/ child_recv(c) \/ child_eof(c) \/
   child_write(c) \/ child_deliver(c) \/ child_orphaned(c) PROVE ReadyInv'
  BY <1>16, <1>d
     DEF ClientLeaves, child_recv, child_eof, child_write, child_deliver, child_orphaned,
     pipe_recv_ok, procs
<1>17. CASE UNCHANGED vars
  BY <1>17, <1>d DEF vars, pipe_recv_ok
<1> QED
  BY <1>1, <1>2, <1>3, <1>4, <1>5, <1>6, <1>7, <1>8, <1>9, <1>10, <1>11, <1>12, <1>13, <1>14,
     <1>15, <1>16, <1>17
     DEF Next, ParentStep, RouteStep, ChildStep

-----------------------------------------------------------------------------
(* The invariants *)

\* IInv holds in every state of the fork server.
LEMMA Invariance == Spec => []IInv
<1>1. Init => IInv
  <2> SUFFICES ASSUME Init PROVE IInv
    OBVIOUS
  <2> USE ForkAssumption, ProtocolAssumption DEF Init
  <2>1. TableType
    BY DEF TableType, Maybe, Statuses
  <2>2. PipeType
    <3>1. <<>> \in Seq(Reply \cup Push) /\ <<>> \in Seq(Messages)
      OBVIOUS
    <3> QED
      BY <3>1 DEF PipeType
  <2>3. ProcType
    <3>1. Len(<<>>) = 0
      OBVIOUS
    <3> QED
      BY <3>1 DEF ProcType, Messages
  <2>4. EnvType /\ ParentType
    BY DEF EnvType, ParentType, Maybe, Messages, Slots
  <2>5. ConnInv /\ PipesInv /\ RouteInv /\ NameInv /\ UniqueUsers /\ HeadInv /\ AckInv /\ ReadyInv
    BY DEF ConnInv, PipesInv, RouteInv, Routing, NameInv, UniqueUsers, HeadInv, AckInv, ReadyInv
  <2> QED
    BY <2>1, <2>2, <2>3, <2>4, <2>5 DEF IInv, TypeOK
<1>2. IInv /\ [Next]_vars => IInv'
  BY TableStep, PipeStep, ProcStep, EnvStep, ParentTypeStep, ConnStep, PipesStep, RouteStepInv,
     NameStep, HeadStep, AckStep, ReadyStep DEF IInv, TypeOK
<1> QED
  BY <1>1, <1>2, PTL DEF Spec

\* The variables of the fork server keep their types; no loop of the parent uses
\* an index outside clients[], and no pipe holds more than it can.
THEOREM ForkTyped == Spec => []TypeOK
  BY Invariance, PTL DEF IInv

\* No two sessions carry one name, although sigchld_handler() clears slots
\* between the search of route_message() for the name and its entry.
THEOREM ForkNamesUnique == Spec => []UniqueUsers
  BY Invariance, PTL DEF IInv

\* The first message a client gets is an answer to a request of its own or the
\* refusal of its connection: what route_message() sends the others reaches a
\* client after its acknowledgement.
THEOREM AnswerFirst == Spec => []LoginAckFirst
<1>1. IInv => LoginAckFirst
  BY DEF IInv, HeadInv, LoginAckFirst
<1> QED
  BY <1>1, Invariance, PTL

\* pipe_recv() of the parent never blocks: no pipe is read that select() has not
\* reported, and none twice.
THEOREM ParentNeverBlocks == Spec => []RecvNeverBlocks
<1>1. IInv => RecvNeverBlocks
  <2> SUFFICES ASSUME IInv, at = "recv" PROVE Readied(rd)
    BY DEF RecvNeverBlocks, Readied
  <2>1. i \in Slots /\ rd = pipes[i] /\ rd \in ready
    BY DEF IInv, RouteInv, Routing
  <2> QED
    BY <2>1 DEF IInv, ReadyInv, Routing
<1> QED
  BY <1>1, Invariance, PTL

=============================================================================
