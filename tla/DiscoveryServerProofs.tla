----------------------- MODULE DiscoveryServerProofs ------------------------
(***************************************************************************)
(* Proofs about DiscoveryServer, for any number of calls, users and        *)
(* records: the types, that records are unique, and that the server        *)
(* implements Registry.                                                    *)
(***************************************************************************)
EXTENDS DiscoveryServer, FiniteSetTheorems, TLAPS

\* What arrives on a connection is a request.
LEMMA RequestsType == ASSUME NEW t \in Calls PROVE Requests(t) \subseteq Request
  BY DEF Requests

-----------------------------------------------------------------------------
(* The inductive invariant *)

\* The thread that fills a record, and no other, holds reg_lock.
LockInv ==
    /\ \A t \in Calls : Filling(t) => regLock = t
    /\ regLock # None => Filling(regLock)

\* A record is filled for a registration, and is the only one that may have the
\* user's name.
FillInv ==
    \A t \in Calls : Filling(t) =>
        /\ req[t] \in Request /\ req[t].kind = "REGISTER"
        /\ \A j \in Records \ {idx[t]} : ~Has(req[t].user, j)
        /\ username[idx[t]] \in {None, req[t].user}
        /\ pc[t] = "active" => (active[idx[t]] <=> username[idx[t]] # None)
        /\ pc[t] # "active" => active[idx[t]] /\ port[idx[t]] = req[t].port
        /\ pc[t] \in {"pass", "ip"} => username[idx[t]] = req[t].user
        /\ pc[t] = "ip" => password[idx[t]] = req[t].pass

\* A record has a name if and only if it is in use, and is whole then, except
\* while a thread is filling it.
RecordInv ==
    \A k \in Records :
        \/ \E t \in Calls : Filling(t) /\ idx[t] = k
        \/ /\ active[k] <=> username[k] # None
           /\ active[k] => [pass |-> password[k], ip |-> ip[k], port |-> port[k]] \in Account

IInv == TypeOK /\ LockInv /\ FillInv /\ RecordInv /\ RecordsUnique

-----------------------------------------------------------------------------
(* Types *)

Response == [status : {"none", "ok", "error", "found"}, ip : Ips \cup {None},
             port : Ports \cup {None}]

\* Every step of main() or of a thread keeps the types.
LEMMA TypeStep == TypeOK /\ LockInv /\ FillInv /\ [Next]_vars => TypeOK'
<1> SUFFICES ASSUME TypeOK, FillInv, [Next]_vars PROVE TypeOK'
  OBVIOUS
<1> USE RegistryAssumption, StopsAssumption
<1> USE DEF TypeOK, registry, Goto, Respond, Enters
<1>1. ASSUME NEW t \in Calls, register_user(t) PROVE TypeOK'
  BY <1>1 DEF register_user
<1>2. ASSUME NEW t \in Calls, register_user_full(t) PROVE TypeOK'
  BY <1>2 DEF register_user_full, Answer
<1>3. ASSUME NEW t \in Calls, register_user_active(t) PROVE TypeOK'
  BY <1>3 DEF register_user_active, Filling, FillInv, Request
<1>4. ASSUME NEW t \in Calls, register_user_name(t) PROVE TypeOK'
  BY <1>4 DEF register_user_name, Filling, FillInv, Request
<1>5. ASSUME NEW t \in Calls, register_user_pass(t) PROVE TypeOK'
  BY <1>5 DEF register_user_pass, Filling, FillInv, Request
<1>6. ASSUME NEW t \in Calls, register_user_ip(t) PROVE TypeOK'
  <2>1. Answer("ok") \in Response
    BY DEF Answer, Response
  <2> QED
    BY <1>6, <2>1 DEF register_user_ip, Records, Response
<1>7. ASSUME NEW t \in Calls, discover(t) PROVE TypeOK'
  BY <1>7 DEF discover, Answer
<1>8. ASSUME NEW t \in Calls, validate(t) PROVE TypeOK'
  <2>1. \/ ans' = [ans EXCEPT ![t] = Answer("ok")]
        \/ ans' = [ans EXCEPT ![t] = Answer("error")]
    BY <1>8 DEF validate
  <2>2. Answer("ok") \in Response /\ Answer("error") \in Response
    BY DEF Answer, Response
  <2> QED
    BY <1>8, <2>1, <2>2 DEF validate, Response
<1>9. ASSUME NEW t \in Calls, reject(t) PROVE TypeOK'
  BY <1>9 DEF reject, Answer
<1>10. ASSUME NEW t \in Calls, reply(t) PROVE TypeOK'
  BY <1>10 DEF reply
<1>11. ASSUME NEW t \in Calls, main_accept(t) PROVE TypeOK'
  BY <1>11 DEF main_accept
<1>12. ASSUME NEW t \in Calls, recv_message_fails(t) PROVE TypeOK'
  BY <1>12 DEF recv_message_fails
<1>13. ASSUME NEW t \in Calls, recv_message_ok(t) PROVE TypeOK'
  BY <1>13, RequestsType DEF recv_message_ok
<1>14. CASE sig_handler
  BY <1>14 DEF sig_handler
<1>15. CASE main_exit
  BY <1>15 DEF main_exit
<1>16. CASE UNCHANGED vars
  BY <1>16 DEF vars
<1> QED
  BY <1>1, <1>2, <1>3, <1>4, <1>5, <1>6, <1>7, <1>8, <1>9, <1>10, <1>11, <1>12, <1>13, <1>14,
     <1>15, <1>16 DEF Next, Work

-----------------------------------------------------------------------------
(* The records *)

\* The steps that neither fill a record nor hold reg_lock: handle_connection()
\* answers from the records, or has not got so far.
Quiet(t) ==
    \/ register_user_full(t) \/ discover(t) \/ validate(t) \/ reject(t)
    \/ reply(t) \/ main_accept(t) \/ recv_message_fails(t) \/ recv_message_ok(t)

\* Such a step is one of a thread that fills no record before or after it.
LEMMA QuietStep ==
  ASSUME TypeOK, NEW t \in Calls, Quiet(t)
  PROVE  /\ UNCHANGED <<registry, regLock, idx>>
         /\ ~Filling(t) /\ ~Filling(t)'
         /\ \A r \in Calls \ {t} : pc'[r] = pc[r] /\ req'[r] = req[r]
<1> USE DEF TypeOK, registry, Goto, Respond, Enters, Filling
<1>1. CASE register_user_full(t)
  BY <1>1 DEF register_user_full
<1>2. CASE discover(t)
  BY <1>2 DEF discover
<1>3. CASE validate(t)
  BY <1>3 DEF validate
<1>4. CASE reject(t)
  BY <1>4 DEF reject
<1>5. CASE reply(t)
  BY <1>5 DEF reply
<1>6. CASE main_accept(t)
  BY <1>6 DEF main_accept
<1>7. CASE recv_message_fails(t)
  BY <1>7 DEF recv_message_fails
<1>8. CASE recv_message_ok(t)
  BY <1>8 DEF recv_message_ok
<1> QED
  BY Quiet(t), <1>1, <1>2, <1>3, <1>4, <1>5, <1>6, <1>7, <1>8 DEF Quiet

\* Every step keeps the rest of the inductive invariant: reg_lock keeps other
\* threads out while a record is filled.
LEMMA RecordStep == IInv /\ [Next]_vars => (LockInv /\ FillInv /\ RecordInv /\ RecordsUnique)'
<1> SUFFICES ASSUME IInv, [Next]_vars
             PROVE  (LockInv /\ FillInv /\ RecordInv /\ RecordsUnique)'
  OBVIOUS
<1> USE RegistryAssumption, StopsAssumption
<1> USE DEF IInv, TypeOK, LockInv, FillInv, RecordInv, RecordsUnique, registry, Goto, Respond, Filling, Has
<1>1. ASSUME NEW t \in Calls, Quiet(t) PROVE (LockInv /\ FillInv /\ RecordInv /\ RecordsUnique)'
  <2>1. /\ UNCHANGED <<registry, regLock, idx>>
        /\ ~Filling(t) /\ ~Filling(t)'
        /\ \A r \in Calls \ {t} : pc'[r] = pc[r] /\ req'[r] = req[r]
    BY <1>1, QuietStep
  <2> QED
    BY <2>1
<1>2. ASSUME NEW t \in Calls, register_user(t) PROVE (LockInv /\ FillInv /\ RecordInv /\ RecordsUnique)'
  <2>1. PICK k \in Records :
          /\ idx' = [idx EXCEPT ![t] = k]
          /\ \/ Has(req[t].user, k)
             \/ (\A j \in Records : ~Has(req[t].user, j)) /\ ~active[k]
    BY <1>2 DEF register_user, find_user, free_record, Known
  <2>2. /\ regLock = None /\ regLock' = t
        /\ pc' = [pc EXCEPT ![t] = "active"]
        /\ req[t] \in Request /\ req[t].kind = "REGISTER"
        /\ UNCHANGED <<registry, req>>
    BY <1>2 DEF register_user, Enters, NoRequest
  <2>3. \A r \in Calls : ~Filling(r)
    BY <2>2
  <2>4. \A j \in Records : active[j] <=> username[j] # None
    BY <2>3
  <2>5. LockInv'
    BY <2>2, <2>3
  <2>6. FillInv'
    BY <2>1, <2>2, <2>3, <2>4
  <2>7. RecordInv'
    BY <2>2, <2>3, <2>4
  <2>8. RecordsUnique'
    BY <2>2
  <2> QED
    BY <2>5, <2>6, <2>7, <2>8
<1>3. ASSUME NEW t \in Calls, register_user_active(t) PROVE (LockInv /\ FillInv /\ RecordInv /\ RecordsUnique)'
  <2>1. LockInv'
    BY <1>3 DEF register_user_active
  <2>2. FillInv'
    BY <1>3 DEF register_user_active
  <2>3. RecordInv'
    BY <1>3 DEF register_user_active
  <2>4. RecordsUnique'
    <3>1. \A r \in Calls : Filling(r) => r = t
      BY <1>3 DEF register_user_active
    <3>2. \A j \in Records \ {idx[t]} : active[j] => username[j] # None /\ username[j] # req[t].user
      BY <1>3, <3>1 DEF register_user_active
    <3>3. username[idx[t]] \in {None, req[t].user}
      BY <1>3 DEF register_user_active
    <3> QED
      BY <1>3, <3>2, <3>3 DEF register_user_active
  <2> QED
    BY <2>1, <2>2, <2>3, <2>4
<1>4. ASSUME NEW t \in Calls, register_user_name(t) PROVE (LockInv /\ FillInv /\ RecordInv /\ RecordsUnique)'
  <2>1. LockInv'
    BY <1>4 DEF register_user_name
  <2>2. FillInv'
    BY <1>4 DEF register_user_name
  <2>3. RecordInv'
    BY <1>4 DEF register_user_name
  <2>4. RecordsUnique'
    BY <1>4 DEF register_user_name
  <2> QED
    BY <2>1, <2>2, <2>3, <2>4
<1>5. ASSUME NEW t \in Calls, register_user_pass(t) PROVE (LockInv /\ FillInv /\ RecordInv /\ RecordsUnique)'
  <2>1. LockInv'
    BY <1>5 DEF register_user_pass
  <2>2. FillInv'
    BY <1>5 DEF register_user_pass
  <2>3. RecordInv'
    BY <1>5 DEF register_user_pass
  <2>4. RecordsUnique'
    BY <1>5 DEF register_user_pass
  <2> QED
    BY <2>1, <2>2, <2>3, <2>4
<1>6. ASSUME NEW t \in Calls, register_user_ip(t) PROVE (LockInv /\ FillInv /\ RecordInv /\ RecordsUnique)'
  <2>1. LockInv'
    BY <1>6 DEF register_user_ip
  <2>2. FillInv'
    BY <1>6 DEF register_user_ip
  <2>3. RecordInv'
    <3>1. \A r \in Calls : Filling(r) => r = t
      BY <1>6 DEF register_user_ip
    <3>2. /\ active[idx[t]] /\ username[idx[t]] = req[t].user /\ port[idx[t]] = req[t].port
          /\ password[idx[t]] = req[t].pass
          /\ idx[t] \in Records
          /\ req[t].user \in Users /\ req[t].pass \in Passwords /\ req[t].port \in Ports
      BY <1>6 DEF register_user_ip, Request
    <3>3. ASSUME NEW k \in Records, k # idx[t]
          PROVE  /\ (active[k] <=> username[k] # None)'
                 /\ active'[k] => [pass |-> password[k], ip |-> ip[k], port |-> port[k]]' \in Account
      BY <1>6, <3>1, <3>3 DEF register_user_ip
    <3>4. /\ active'[idx[t]] /\ username'[idx[t]] # None
          /\ password'[idx[t]] \in Passwords /\ ip'[idx[t]] \in Ips /\ port'[idx[t]] \in Ports
          /\ idx[t] \in Records
      BY <1>6, <3>2 DEF register_user_ip
    <3>5. ASSUME NEW k \in Records, k = idx[t]
          PROVE  /\ (active[k] <=> username[k] # None)'
                 /\ [pass |-> password[k], ip |-> ip[k], port |-> port[k]]' \in Account
      BY <1>6, <3>4, <3>5 DEF register_user_ip, Account
    <3> QED
      BY <3>3, <3>5
  <2>4. RecordsUnique'
    BY <1>6 DEF register_user_ip
  <2> QED
    BY <2>1, <2>2, <2>3, <2>4
<1>7. CASE UNCHANGED <<registry, regLock, pc, req, idx>>
  BY <1>7
<1> QED
  BY <1>1, <1>2, <1>3, <1>4, <1>5, <1>6, <1>7 DEF Next, Work, Quiet, vars, sig_handler, main_exit

-----------------------------------------------------------------------------
(* The invariants *)

\* IInv holds in every state of the discovery server.
LEMMA Invariance == Spec => []IInv
<1>1. Init => IInv
  <2> SUFFICES ASSUME Init PROVE IInv
    OBVIOUS
  <2> USE RegistryAssumption DEF Init
  <2>1. Answer("none") \in Response
    BY DEF Answer, Response
  <2>2. TypeOK
    BY <2>1 DEF TypeOK, Response, Records
  <2> QED
    BY <2>2 DEF IInv, LockInv, FillInv, RecordInv, RecordsUnique, Filling
<1>2. IInv /\ [Next]_vars => IInv'
  BY TypeStep, RecordStep DEF IInv
<1> QED
  BY <1>1, <1>2, PTL DEF Spec

\* The variables of the discovery server keep their types; registry[] is
\* never indexed outside its bounds.
THEOREM TypeCorrect == Spec => []TypeOK
  BY Invariance, PTL DEF IInv

\* Two registrations of one user never end up in two records, although the
\* search for the user and the entry of its name are steps apart.
THEOREM NoDuplicateRecords == Spec => []RecordsUnique
  BY Invariance, PTL DEF IInv

-----------------------------------------------------------------------------
(* The refinement of Registry *)

\* What AccountOf() chooses: the account being filled in, or that of the one
\* record with the user's name.
AccountFact ==
    \A u \in Users :
        /\ \A t \in Calls : Filling(t) /\ req[t].user = u =>
              AccountOf(u) = [pass |-> req[t].pass, ip |-> IpOf[t], port |-> req[t].port]
        /\ (\A t \in Calls : ~(Filling(t) /\ req[t].user = u)) =>
              /\ \A k \in Records : Has(u, k) =>
                    AccountOf(u) = [pass |-> password[k], ip |-> ip[k], port |-> port[k]]
              /\ ~Known(u) => AccountOf(u) = None

LEMMA AccountLemma == IInv => AccountFact
<1> SUFFICES ASSUME IInv, NEW u \in Users
    PROVE /\ \A t \in Calls : Filling(t) /\ req[t].user = u =>
              AccountOf(u) = [pass |-> req[t].pass, ip |-> IpOf[t], port |-> req[t].port]
          /\ (\A t \in Calls : ~(Filling(t) /\ req[t].user = u)) =>
              /\ \A k \in Records : Has(u, k) =>
                    AccountOf(u) = [pass |-> password[k], ip |-> ip[k], port |-> port[k]]
              /\ ~Known(u) => AccountOf(u) = None
  BY DEF AccountFact
<1>1. ASSUME NEW t \in Calls, Filling(t), req[t].user = u
      PROVE  AccountOf(u) = [pass |-> req[t].pass, ip |-> IpOf[t], port |-> req[t].port]
  <2> DEFINE c == CHOOSE r \in Calls : Filling(r) /\ req[r].user = u
  <2>1. c \in Calls /\ Filling(c)
    BY <1>1
  <2>2. c = t
    BY <1>1, <2>1 DEF IInv, LockInv
  <2> QED
    BY <1>1, <2>2 DEF AccountOf
<1>2. ASSUME \A t \in Calls : ~(Filling(t) /\ req[t].user = u), NEW k \in Records, Has(u, k)
      PROVE  AccountOf(u) = [pass |-> password[k], ip |-> ip[k], port |-> port[k]]
  <2> DEFINE c == CHOOSE j \in Records : Has(u, j)
  <2>1. c \in Records /\ Has(u, c)
    BY <1>2
  <2>2. c = k
    BY <1>2, <2>1 DEF IInv, RecordsUnique, Has
  <2> QED
    BY <1>2, <2>2 DEF AccountOf
<1>3. ASSUME \A t \in Calls : ~(Filling(t) /\ req[t].user = u), ~Known(u)
      PROVE  AccountOf(u) = None
  BY <1>3 DEF AccountOf, Known
<1> QED
  BY <1>1, <1>2, <1>3

\* While no record is being filled, the accounts are the records in use.
LEMMA RegisteredLemma ==
  ASSUME IInv, AccountFact, regLock = None
  PROVE  /\ \A u \in Users : u \in R!Registered <=> Known(u)
         /\ \A u \in Users, k \in Records : Has(u, k) =>
               AccountOf(u) = [pass |-> password[k], ip |-> ip[k], port |-> port[k]]
<1>1. \A t \in Calls : ~Filling(t)
  BY RegistryAssumption DEF IInv, LockInv
<1>2. ASSUME NEW u \in Users, NEW k \in Records, Has(u, k)
      PROVE  /\ AccountOf(u) = [pass |-> password[k], ip |-> ip[k], port |-> port[k]]
             /\ AccountOf(u) # None
  BY <1>1, <1>2, RegistryAssumption DEF AccountFact, IInv, RecordInv, Has
<1>3. ASSUME NEW u \in Users, ~Known(u) PROVE AccountOf(u) = None
  BY <1>1, <1>3 DEF AccountFact
<1> QED
  BY <1>2, <1>3 DEF R!Registered, Known, acctBar

\* Then Registry's test for room and register_user()'s search for a free record
\* come to the same.
LEMMA RoomLemma ==
  ASSUME IInv, AccountFact, regLock = None
  PROVE  /\ Cardinality(R!Registered) \in Nat
         /\ Cardinality(R!Registered) < MaxUsers <=> \E k \in Records : ~active[k]
<1> DEFINE T == R!Registered
           f == [u \in T |-> CHOOSE k \in Records : Has(u, k)]
<1>1. \A u \in T : u \in Users /\ f[u] \in Records /\ Has(u, f[u])
  BY RegisteredLemma DEF R!Registered, Known
<1>2. f \in Injection(T, Records)
  BY <1>1 DEF Injection, IsInjective, Has
<1>3. IsFiniteSet(Records) /\ Cardinality(Records) = MaxUsers
  BY RegistryAssumption, FS_Interval DEF Records
<1>4. /\ IsFiniteSet(T) /\ Cardinality(T) <= MaxUsers
      /\ Cardinality(T) = MaxUsers <=> f \in Surjection(T, Records)
  BY <1>2, <1>3, FS_Injection
<1>5. Cardinality(T) \in Nat
  BY <1>4, FS_CardinalityType
<1>6. ASSUME \A k \in Records : active[k] PROVE f \in Surjection(T, Records)
  <2>1. ASSUME NEW k \in Records PROVE \E u \in T : f[u] = k
    <3>1. username[k] \in Users /\ Has(username[k], k)
      BY <1>6, RegistryAssumption DEF IInv, TypeOK, RecordInv, LockInv, Has
    <3>2. username[k] \in T
      BY <3>1, RegisteredLemma DEF Known
    <3>3. f[username[k]] = k
      BY <1>1, <3>1, <3>2 DEF IInv, RecordsUnique, Has
    <3> QED
      BY <3>2, <3>3
  <2> QED
    BY <1>2, <2>1 DEF Surjection, Injection
<1>7. ASSUME f \in Surjection(T, Records), NEW k \in Records PROVE active[k]
  <2> HIDE DEF f, T
  <2>1. PICK u \in T : f[u] = k
    BY <1>7 DEF Surjection
  <2> QED
    BY <1>1, <2>1 DEF Has
<1>8. Cardinality(T) < MaxUsers <=> ~(f \in Surjection(T, Records))
  <2> HIDE DEF T, f
  <2> QED
    BY <1>4, <1>5, RegistryAssumption
<1> QED
  BY <1>5, <1>6, <1>7, <1>8

\* The accounts stay the same while a step changes neither the records in use
\* nor which call is filling one in.
LEMMA SameAccounts ==
  ASSUME AccountFact, AccountFact',
         \A t \in Calls : Filling(t)' <=> Filling(t),
         \A t \in Calls : Filling(t) => req'[t] = req[t],
         \A u \in Users :
            \/ \E t \in Calls : Filling(t) /\ req[t].user = u
            \/ \A k \in Records :
                  /\ Has(u, k)' <=> Has(u, k)
                  /\ Has(u, k) => /\ password'[k] = password[k]
                                  /\ ip'[k] = ip[k] /\ port'[k] = port[k]
  PROVE  UNCHANGED acctBar
<1>1. ASSUME NEW u \in Users PROVE AccountOf(u)' = AccountOf(u)
  <2>1. CASE \E t \in Calls : Filling(t) /\ req[t].user = u
    <3>1. PICK t \in Calls : Filling(t) /\ req[t].user = u
      BY <2>1
    <3>2. AccountOf(u) = [pass |-> req[t].pass, ip |-> IpOf[t], port |-> req[t].port]
      BY <3>1 DEF AccountFact
    <3>3. AccountOf(u)' = [pass |-> req[t].pass, ip |-> IpOf[t], port |-> req[t].port]
      BY <3>1 DEF AccountFact
    <3> QED
      BY <3>2, <3>3
  <2>2. CASE \A t \in Calls : ~(Filling(t) /\ req[t].user = u)
    <3>1. \A t \in Calls : ~(Filling(t) /\ req[t].user = u)'
      BY <2>2
    <3>2. CASE Known(u)
      <4>1. PICK k \in Records : Has(u, k)
        BY <3>2 DEF Known
      <4>2. AccountOf(u) = [pass |-> password[k], ip |-> ip[k], port |-> port[k]]
        BY <2>2, <4>1 DEF AccountFact
      <4>3. AccountOf(u)' = [pass |-> password[k], ip |-> ip[k], port |-> port[k]]
        BY <2>2, <3>1, <4>1 DEF AccountFact
      <4> QED
        BY <4>2, <4>3
    <3>3. CASE ~Known(u)
      BY <2>2, <3>1, <3>3 DEF AccountFact, Known
    <3> QED
      BY <3>2, <3>3
  <2> QED
    BY <2>1, <2>2
<1> QED
  BY <1>1 DEF acctBar

\* Registry has its own instance of the operators it shares with the server.
LEMMA SharedOperators ==
  /\ \A S : R!Cardinality(S) = Cardinality(S)
  /\ \A a : R!Answer(a) = Answer(a)
  /\ \A a : R!Found(a) = Found(a)
  /\ \A t : R!Requests(t) = Requests(t)
  /\ R!NoRequest = NoRequest
<1>1. \A S : R!Cardinality(S) = Cardinality(S)
  BY Zenon DEF R!Cardinality, Cardinality
<1>2. (\A a : R!Answer(a) = Answer(a)) /\ (\A a : R!Found(a) = Found(a))
  BY Zenon DEF R!Answer, Answer, R!Found, Found
<1>3. \A t : R!Requests(t) = Requests(t)
  BY Zenon DEF R!Requests, Requests, R!Request, Request
<1>4. R!NoRequest = NoRequest
  BY Zenon DEF R!NoRequest, NoRequest
<1> QED
  BY <1>1, <1>2, <1>3, <1>4

\* What a call has been answered changes with the response only.
LEMMA NoAnswerStep ==
  ASSUME TypeOK, NEW t \in Calls, NEW l, pc' = [pc EXCEPT ![t] = l], UNCHANGED ans,
         Filling(t)' <=> Filling(t)
  PROVE  UNCHANGED ansBar
  BY DEF TypeOK, ansBar, Filling

\* A response made under reg_lock is the instant the call takes effect.
LEMMA RespondStep ==
  ASSUME TypeOK, NEW t \in Calls, NEW a, Respond(t, a), pc[t] = "lock"
  PROVE  /\ ansBar' = [ansBar EXCEPT ![t] = a]
         /\ callBar' = [callBar EXCEPT ![t] = "performed"] /\ callBar[t] = "pending"
<1>1. pc' = [pc EXCEPT ![t] = "reply"] /\ ans' = [ans EXCEPT ![t] = a]
  BY DEF Respond, Goto
<1>2. ansBar' = [ansBar EXCEPT ![t] = a]
  BY <1>1 DEF TypeOK, ansBar, Filling
<1>3. callBar' = [callBar EXCEPT ![t] = "performed"] /\ callBar[t] = "pending"
  BY <1>1 DEF TypeOK, callBar, Stage
<1> QED
  BY <1>2, <1>3

\* A thread that only looks records up leaves the accounts alone.
LEMMA QuietAccounts ==
  ASSUME TypeOK, AccountFact, AccountFact', NEW t \in Calls, Quiet(t)
  PROVE  UNCHANGED acctBar
<1>1. /\ UNCHANGED <<registry, regLock, idx>>
      /\ ~Filling(t) /\ ~Filling(t)'
      /\ \A r \in Calls \ {t} : pc'[r] = pc[r] /\ req'[r] = req[r]
  BY QuietStep
<1>2. \A r \in Calls : (Filling(r)' <=> Filling(r)) /\ (Filling(r) => req'[r] = req[r])
  BY <1>1 DEF Filling
<1>3. \A u \in Users, k \in Records :
        /\ Has(u, k)' <=> Has(u, k)
        /\ password'[k] = password[k] /\ ip'[k] = ip[k] /\ port'[k] = port[k]
  BY <1>1 DEF registry, Has
<1> QED
  BY <1>2, <1>3, SameAccounts

\* Every step of the discovery server is a step of Registry, or none.
LEMMA RefinementStep == IInv /\ IInv' /\ [Next]_vars => [R!Next]_(R!vars)
<1> SUFFICES ASSUME IInv, IInv', [Next]_vars PROVE [R!Next]_(R!vars)
  OBVIOUS
<1>a. AccountFact /\ AccountFact'
  <2>1. IInv' => AccountFact'
    BY AccountLemma, PTL
  <2> QED
    BY <2>1, AccountLemma
<1>c. TypeOK
  BY DEF IInv
<1>p. /\ R!Answer("ok") = Answer("ok") /\ R!Answer("error") = Answer("error")
      /\ R!Cardinality(R!Registered) = Cardinality(R!Registered)
      /\ \A a : R!Found(a) = Found(a)
  BY SharedOperators
<1>1. ASSUME NEW t \in Calls, main_accept(t) PROVE R!HangUp(t) \/ UNCHANGED R!vars
  <2>1. UNCHANGED <<acctBar, req>>
    BY <1>1, <1>a, <1>c, QuietAccounts DEF Quiet, main_accept
  <2>2. pc[t] = "idle" /\ UNCHANGED ans
    BY <1>1 DEF main_accept
  <2>3. CASE pc' = [pc EXCEPT ![t] = "read"]
    <3>1. UNCHANGED ansBar
      BY <1>c, <2>2, <2>3, NoAnswerStep DEF Filling, TypeOK
    <3>2. callBar' = [callBar EXCEPT ![t] = callBar[t]]
      BY <1>c, <2>2, <2>3 DEF TypeOK, callBar, Stage
    <3>3. UNCHANGED callBar
      BY <3>2 DEF callBar
    <3> QED
      BY <2>1, <3>1, <3>3 DEF R!vars
  <2>4. CASE pc' = [pc EXCEPT ![t] = "done"]
    <3>1. UNCHANGED ansBar
      BY <1>c, <2>2, <2>4, NoAnswerStep DEF Filling, TypeOK
    <3>2. callBar[t] = "idle" /\ callBar' = [callBar EXCEPT ![t] = "done"]
      BY <1>c, <2>2, <2>4 DEF TypeOK, callBar, Stage
    <3> QED
      BY <2>1, <3>1, <3>2 DEF R!HangUp
  <2> QED
    BY <1>1, <2>3, <2>4 DEF main_accept, Goto
<1>2. ASSUME NEW t \in Calls, recv_message_fails(t) PROVE R!HangUp(t)
  <2>1. UNCHANGED <<acctBar, req>>
    BY <1>2, <1>a, <1>c, QuietAccounts DEF Quiet, recv_message_fails
  <2>2. pc[t] = "read" /\ UNCHANGED ans /\ pc' = [pc EXCEPT ![t] = "done"]
    BY <1>2 DEF recv_message_fails, Goto
  <2>3. UNCHANGED ansBar
    BY <1>c, <2>2, NoAnswerStep DEF Filling, TypeOK
  <2>4. callBar[t] = "idle" /\ callBar' = [callBar EXCEPT ![t] = "done"]
    BY <1>c, <2>2 DEF TypeOK, callBar, Stage
  <2> QED
    BY <2>1, <2>3, <2>4 DEF R!HangUp
<1>3. ASSUME NEW t \in Calls, recv_message_ok(t) PROVE \E r \in R!Requests(t) : R!Arrive(t, r)
  <2>1. UNCHANGED acctBar
    BY <1>3, <1>a, <1>c, QuietAccounts DEF Quiet
  <2>2. pc[t] = "read" /\ UNCHANGED ans /\ pc' = [pc EXCEPT ![t] = "lock"]
    BY <1>3 DEF recv_message_ok, Goto
  <2>3. UNCHANGED ansBar
    BY <1>c, <2>2, NoAnswerStep DEF Filling, TypeOK
  <2>4. callBar[t] = "idle" /\ callBar' = [callBar EXCEPT ![t] = "pending"]
    BY <1>c, <2>2 DEF TypeOK, callBar, Stage
  <2>5. PICK r \in Requests(t) : req' = [req EXCEPT ![t] = r]
    BY <1>3 DEF recv_message_ok
  <2>6. R!Arrive(t, r)
    BY <2>1, <2>3, <2>4, <2>5 DEF R!Arrive
  <2> QED
    BY <2>6, SharedOperators
<1>4. ASSUME NEW t \in Calls, reply(t) PROVE R!Return(t)
  <2>1. UNCHANGED <<acctBar, req>>
    BY <1>4, <1>a, <1>c, QuietAccounts DEF Quiet, reply
  <2>2. pc[t] = "reply" /\ UNCHANGED ans /\ pc' = [pc EXCEPT ![t] = "done"]
    BY <1>4 DEF reply, Goto
  <2>3. UNCHANGED ansBar
    BY <1>c, <2>2, NoAnswerStep DEF Filling, TypeOK
  <2>4. callBar[t] = "performed" /\ callBar' = [callBar EXCEPT ![t] = "done"]
    BY <1>c, <2>2 DEF TypeOK, callBar, Stage
  <2> QED
    BY <2>1, <2>3, <2>4 DEF R!Return
<1>5. ASSUME NEW t \in Calls, reject(t) PROVE R!Perform(t)
  <2>1. /\ UNCHANGED <<acctBar, req>>
        /\ ansBar' = [ansBar EXCEPT ![t] = Answer("error")]
        /\ callBar' = [callBar EXCEPT ![t] = "performed"] /\ callBar[t] = "pending"
        /\ req[t].kind = "BAD"
    BY <1>5, <1>a, <1>c, QuietAccounts, RespondStep DEF Quiet, reject, Filling
  <2> QED
    BY <1>p, <2>1 DEF R!Perform
<1>6. ASSUME NEW t \in Calls, register_user_full(t) PROVE R!Perform(t)
  <2>1. /\ UNCHANGED <<acctBar, req>>
        /\ ansBar' = [ansBar EXCEPT ![t] = Answer("error")]
        /\ callBar' = [callBar EXCEPT ![t] = "performed"] /\ callBar[t] = "pending"
        /\ req[t].kind = "REGISTER"
    BY <1>6, <1>a, <1>c, QuietAccounts, RespondStep DEF Quiet, register_user_full, Enters, Filling
  <2>2. req[t] \in Request /\ req[t].user \in Users
    BY <1>c, <2>1 DEF TypeOK, Request, NoRequest
  <2>3. req[t].user \notin R!Registered /\ Cardinality(R!Registered) >= MaxUsers
    BY <1>6, <1>a, <2>2, RegisteredLemma, RoomLemma, RegistryAssumption DEF register_user_full,
       Enters
  <2> QED
    BY <1>p, <2>1, <2>3 DEF R!Perform
<1>7. ASSUME NEW t \in Calls, discover(t) PROVE R!Perform(t)
  <2>1. /\ UNCHANGED <<acctBar, req>> /\ regLock = None
        /\ req[t].kind = "DISCOVER" /\ pc[t] = "lock"
    BY <1>7, <1>a, <1>c, QuietAccounts DEF Quiet, discover, Enters, Filling
  <2>2. req[t].user \in Users
    BY <1>c, <2>1 DEF TypeOK, Request, NoRequest
  <2>3. CASE ~Known(req[t].user) /\ Respond(t, Answer("error"))
    <3>1. req[t].user \notin R!Registered
      BY <1>a, <2>1, <2>2, <2>3, RegisteredLemma
    <3>2. /\ ansBar' = [ansBar EXCEPT ![t] = Answer("error")]
          /\ callBar' = [callBar EXCEPT ![t] = "performed"] /\ callBar[t] = "pending"
      BY <1>c, <2>1, <2>3, RespondStep
    <3> QED
      BY <1>p, <2>1, <3>1, <3>2 DEF R!Perform
  <2>4. CASE \E k \in Records :
               /\ find_user(req[t].user, k)
               /\ Respond(t, [status |-> "found", ip |-> ip[k], port |-> port[k]])
    <3>1. PICK k \in Records :
               /\ find_user(req[t].user, k)
               /\ Respond(t, [status |-> "found", ip |-> ip[k], port |-> port[k]])
      BY <2>4
    <3>2. /\ req[t].user \in R!Registered
          /\ AccountOf(req[t].user) = [pass |-> password[k], ip |-> ip[k], port |-> port[k]]
      BY <1>a, <2>1, <2>2, <3>1, RegisteredLemma DEF find_user, Known
    <3>3. Found(acctBar[req[t].user]) = [status |-> "found", ip |-> ip[k], port |-> port[k]]
      BY <2>2, <3>2 DEF Found, acctBar
    <3>4. /\ ansBar' = [ansBar EXCEPT ![t] = Found(acctBar[req[t].user])]
          /\ callBar' = [callBar EXCEPT ![t] = "performed"] /\ callBar[t] = "pending"
      BY <1>c, <2>1, <3>1, <3>3, RespondStep
    <3> QED
      BY <1>p, <2>1, <3>2, <3>4 DEF R!Perform
  <2> QED
    BY <1>7, <2>3, <2>4 DEF discover
<1>8. ASSUME NEW t \in Calls, validate(t) PROVE R!Perform(t)
  <2>1. /\ UNCHANGED <<acctBar, req>> /\ regLock = None
        /\ req[t].kind = "VALIDATE" /\ pc[t] = "lock"
    BY <1>8, <1>a, <1>c, QuietAccounts DEF Quiet, validate, Enters, Filling
  <2>2. req[t].user \in Users
    BY <1>c, <2>1 DEF TypeOK, Request, NoRequest
  <2>3. CASE ~Known(req[t].user) /\ Respond(t, Answer("error"))
    <3>1. req[t].user \notin R!Registered
      BY <1>a, <2>1, <2>2, <2>3, RegisteredLemma
    <3>2. /\ ansBar' = [ansBar EXCEPT ![t] = Answer("error")]
          /\ callBar' = [callBar EXCEPT ![t] = "performed"] /\ callBar[t] = "pending"
      BY <1>c, <2>1, <2>3, RespondStep
    <3> QED
      BY <1>p, <2>1, <3>1, <3>2 DEF R!Perform
  <2>4. CASE \E k \in Records :
               /\ find_user(req[t].user, k)
               /\ Respond(t, Answer(IF password[k] = Word[req[t].pass] THEN "ok" ELSE "error"))
    <3>1. PICK k \in Records :
               /\ find_user(req[t].user, k)
               /\ Respond(t, Answer(IF password[k] = Word[req[t].pass] THEN "ok" ELSE "error"))
      BY <2>4
    <3>2. /\ req[t].user \in R!Registered
          /\ AccountOf(req[t].user) = [pass |-> password[k], ip |-> ip[k], port |-> port[k]]
      BY <1>a, <2>1, <2>2, <3>1, RegisteredLemma DEF find_user, Known
    <3>3. acctBar[req[t].user].pass = password[k]
      BY <2>2, <3>2 DEF acctBar
    <3>4. /\ ansBar' = [ansBar EXCEPT ![t] = Answer(IF password[k] = Word[req[t].pass]
                                               THEN "ok" ELSE "error")]
          /\ callBar' = [callBar EXCEPT ![t] = "performed"] /\ callBar[t] = "pending"
      BY <1>c, <2>1, <3>1, RespondStep
    <3>5. CASE password[k] = Word[req[t].pass]
      BY <1>p, <2>1, <3>2, <3>3, <3>4, <3>5 DEF R!Perform
    <3>6. CASE password[k] # Word[req[t].pass]
      BY <1>p, <2>1, <3>2, <3>3, <3>4, <3>6 DEF R!Perform
    <3> QED
      BY <3>5, <3>6
  <2> QED
    BY <1>8, <2>3, <2>4 DEF validate
<1>9. ASSUME NEW t \in Calls, register_user(t) PROVE R!Perform(t)
  <2> DEFINE new == [pass |-> req[t].pass, ip |-> IpOf[t], port |-> req[t].port]
  <2>1. /\ regLock = None /\ pc[t] = "lock" /\ pc' = [pc EXCEPT ![t] = "active"]
        /\ req[t].kind = "REGISTER"
        /\ UNCHANGED <<registry, req, ans>>
    BY <1>9 DEF register_user, Enters, Goto
  <2>2. PICK u \in Users : u = req[t].user
    BY <1>c, <2>1 DEF TypeOK, Request, NoRequest
  <2>3. \A r \in Calls : ~Filling(r) /\ (Filling(r)' <=> r = t)
    BY <1>c, <2>1 DEF IInv, LockInv, Filling, TypeOK
  <2>4. AccountOf(u)' = new
    BY <1>a, <2>1, <2>2, <2>3 DEF AccountFact
  <2>5. ASSUME NEW w \in Users, w # u PROVE AccountOf(w)' = AccountOf(w)
    <3>1. /\ \A r \in Calls : ~(Filling(r) /\ req[r].user = w)
          /\ \A r \in Calls : ~(Filling(r) /\ req[r].user = w)'
      BY <2>1, <2>2, <2>3, <2>5
    <3>2. CASE Known(w)
      <4>1. PICK k \in Records : Has(w, k)
        BY <3>2 DEF Known
      <4>2. AccountOf(w) = [pass |-> password[k], ip |-> ip[k], port |-> port[k]]
        BY <1>a, <3>1, <4>1 DEF AccountFact
      <4>3. AccountOf(w)' = [pass |-> password[k], ip |-> ip[k], port |-> port[k]]
        BY <1>a, <2>1, <3>1, <4>1 DEF AccountFact, Has, registry
      <4> QED
        BY <4>2, <4>3
    <3>3. CASE ~Known(w)
      BY <1>a, <2>1, <3>1, <3>3 DEF AccountFact, Known, Has, registry
    <3> QED
      BY <3>2, <3>3
  <2>6. acctBar' = [acctBar EXCEPT ![u] = new]
    <3> HIDE DEF new
    <3> QED
      BY <2>2, <2>4, <2>5 DEF acctBar
  <2>7. /\ ansBar' = [ansBar EXCEPT ![t] = Answer("ok")]
        /\ callBar' = [callBar EXCEPT ![t] = "performed"] /\ callBar[t] = "pending"
    BY <1>c, <2>1, <2>3 DEF ansBar, callBar, Stage, TypeOK
  <2>8. u \in R!Registered \/ Cardinality(R!Registered) < MaxUsers
    <3>1. Known(u) \/ \E k \in Records : ~active[k]
      BY <1>9, <2>2 DEF register_user, find_user, free_record, Known
    <3> QED
      BY <1>a, <2>1, <2>2, <3>1, RegisteredLemma, RoomLemma
  <2> QED
    BY <1>p, <2>1, <2>2, <2>6, <2>7, <2>8 DEF R!Perform
\* The thread that has reg_lock is the only one that fills a record, and the
\* record it fills is no other user's.
<1>g. ASSUME NEW t \in Calls, Filling(t)
      PROVE  /\ \A r \in Calls : Filling(r) <=> r = t
             /\ req[t].user \in Users /\ idx[t] \in Records
             /\ username[idx[t]] \in {None, req[t].user}
             /\ \A w \in Users : w # req[t].user => ~Has(w, idx[t])
             /\ \A k \in Records \ {idx[t]} : ~Has(req[t].user, k)
  <2>1. /\ req[t] \in Request /\ req[t].kind = "REGISTER" /\ idx[t] \in Records
        /\ username[idx[t]] \in {None, req[t].user}
        /\ \A k \in Records \ {idx[t]} : ~Has(req[t].user, k)
    BY <1>c, <1>g DEF IInv, FillInv, TypeOK
  <2>2. req[t].user \in Users
    BY <2>1 DEF Request
  <2>3. \A r \in Calls : Filling(r) <=> r = t
    BY <1>g DEF IInv, LockInv
  <2> QED
    BY <2>1, <2>2, <2>3, RegistryAssumption DEF Has
<1>10. ASSUME NEW t \in Calls, register_user_active(t) \/ register_user_name(t) \/ register_user_pass(t)
       PROVE  UNCHANGED R!vars
  <2>1. Filling(t) /\ Filling(t)' /\ pc' = [pc EXCEPT ![t] = pc'[t]] /\ UNCHANGED <<req, ans>>
    BY <1>10, <1>c DEF register_user_active, register_user_name, register_user_pass, Filling,
       Goto, TypeOK
  <2>2. \A r \in Calls : Filling(r)' <=> Filling(r)
    BY <2>1, <1>c DEF Filling, TypeOK
  <2>3. ASSUME NEW w \in Users, w # req[t].user, NEW k \in Records
        PROVE  /\ Has(w, k)' <=> Has(w, k)
               /\ Has(w, k) => /\ password'[k] = password[k]
                               /\ ip'[k] = ip[k] /\ port'[k] = port[k]
    <3>1. CASE k # idx[t]
      BY <1>10, <1>c, <3>1 DEF register_user_active, register_user_name, register_user_pass,
         Has, TypeOK
    <3>2. CASE k = idx[t]
      <4>1. ~Has(w, k)
        BY <1>g, <2>1, <2>3, <3>2
      <4>2. username'[k] \in {None, req[t].user}
        BY <1>10, <1>c, <1>g, <2>1, <3>2
           DEF register_user_active, register_user_name, register_user_pass, TypeOK
      <4>3. ~Has(w, k)'
        BY <2>3, <4>2, RegistryAssumption DEF Has
      <4> QED
        BY <4>1, <4>3
    <3> QED
      BY <3>1, <3>2
  <2>4. UNCHANGED acctBar
    BY <1>a, <2>1, <2>2, <2>3, SameAccounts DEF acctBar
  <2>5. UNCHANGED ansBar /\ UNCHANGED callBar
    BY <1>c, <2>1, <2>2 DEF ansBar, callBar, Stage, Filling, TypeOK
  <2> QED
    BY <2>1, <2>4, <2>5 DEF R!vars
<1>11. ASSUME NEW t \in Calls, register_user_ip(t) PROVE UNCHANGED R!vars
  <2>0. PICK u, k : u = req[t].user /\ k = idx[t]
    OBVIOUS
  <2>1. /\ Filling(t) /\ pc[t] = "ip" /\ pc' = [pc EXCEPT ![t] = "reply"]
        /\ ip' = [ip EXCEPT ![k] = IpOf[t]]
        /\ ans' = [ans EXCEPT ![t] = Answer("ok")]
        /\ UNCHANGED <<active, username, password, port, req>>
    BY <1>11, <2>0 DEF register_user_ip, Filling, Goto, Respond
  <2>2. \A r \in Calls : ~Filling(r)'
    BY <1>c, <1>g, <2>1 DEF Filling, TypeOK
  <2>3. /\ u \in Users /\ k \in Records /\ Has(u, k)
        /\ password[k] = req[t].pass /\ port[k] = req[t].port
    BY <1>g, <2>0, <2>1 DEF IInv, FillInv, Has, Filling
  <2>4. AccountOf(u)' = AccountOf(u)
    <3>1. AccountOf(u) = [pass |-> req[t].pass, ip |-> IpOf[t], port |-> req[t].port]
      BY <1>a, <2>0, <2>1, <2>3 DEF AccountFact
    <3>2. /\ Has(u, k)' /\ ip'[k] = IpOf[t] /\ password'[k] = req[t].pass
          /\ port'[k] = req[t].port
      BY <1>c, <2>1, <2>3 DEF Has, TypeOK
    <3>3. AccountOf(u)' = [pass |-> password'[k], ip |-> ip'[k], port |-> port'[k]]
      BY <1>a, <2>2, <2>3, <3>2 DEF AccountFact
    <3> QED
      BY <3>1, <3>2, <3>3
  <2>5. ASSUME NEW w \in Users, w # u PROVE AccountOf(w)' = AccountOf(w)
    <3>1. \A r \in Calls : ~(Filling(r) /\ req[r].user = w)
      BY <1>g, <2>0, <2>1, <2>5
    <3>2. CASE Known(w)
      <4>1. PICK j \in Records : Has(w, j)
        BY <3>2 DEF Known
      <4>2. AccountOf(w) = [pass |-> password[j], ip |-> ip[j], port |-> port[j]]
        BY <1>a, <3>1, <4>1 DEF AccountFact
      <4>3. Has(w, j)' /\ ip'[j] = ip[j] /\ password'[j] = password[j] /\ port'[j] = port[j]
        BY <1>c, <1>g, <2>0, <2>1, <2>5, <4>1 DEF Has, TypeOK
      <4>4. AccountOf(w)' = [pass |-> password'[j], ip |-> ip'[j], port |-> port'[j]]
        BY <1>a, <2>2, <4>3 DEF AccountFact
      <4> QED
        BY <4>2, <4>3, <4>4
    <3>3. CASE ~Known(w)
      BY <1>a, <2>1, <2>2, <3>1, <3>3 DEF AccountFact, Known, Has
    <3> QED
      BY <3>2, <3>3
  <2>6. UNCHANGED acctBar
    BY <2>4, <2>5 DEF acctBar
  <2>7. UNCHANGED ansBar /\ UNCHANGED callBar
    BY <1>c, <1>g, <2>1, <2>2 DEF ansBar, callBar, Stage, Filling, TypeOK
  <2> QED
    BY <2>1, <2>6, <2>7 DEF R!vars
<1>12. CASE UNCHANGED <<registry, pc, req, ans>>
  <2>1. UNCHANGED acctBar
    BY <1>12 DEF acctBar, AccountOf, Filling, Has, registry
  <2>2. UNCHANGED ansBar /\ UNCHANGED callBar
    BY <1>12 DEF ansBar, callBar, Stage, Filling
  <2> QED
    BY <1>12, <2>1, <2>2 DEF R!vars
<1> QED
  BY <1>1, <1>2, <1>3, <1>4, <1>5, <1>6, <1>7, <1>8, <1>9, <1>10, <1>11, <1>12
     DEF Next, Work, vars, sig_handler, main_exit, R!Next

\* The discovery server implements Registry: every call takes effect at one
\* instant between its arrival and its answer, so that a lookup never answers
\* from a record register_user() is still filling.
THEOREM ImplementsRegistry == Spec => Refines
<1>1. Init => R!Init
  <2> SUFFICES ASSUME Init PROVE R!Init
    OBVIOUS
  <2>1. \A u \in Users : AccountOf(u) = None
    BY DEF Init, AccountOf, Filling, Has
  <2>2. \A t \in Calls : Stage(pc[t]) = "idle" /\ ~Filling(t)
    BY DEF Init, Stage, Filling
  <2>3. R!Answer("none") = Answer("none") /\ R!NoRequest = NoRequest
    BY SharedOperators
  <2>4. acctBar = [u \in Users |-> None] /\ callBar = [t \in Calls |-> "idle"]
    BY <2>1, <2>2 DEF acctBar, callBar
  <2>5. ansBar = [t \in Calls |-> Answer("none")]
    BY <2>2 DEF ansBar, Init
  <2> QED
    BY <2>3, <2>4, <2>5 DEF Init, R!Init
<1>2. IInv /\ IInv' /\ [Next]_vars => [R!Next]_(R!vars)
  BY RefinementStep
<1> QED
  BY <1>1, <1>2, Invariance, PTL DEF Spec, R!Spec, Refines

=============================================================================
