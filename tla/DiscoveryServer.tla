--------------------------- MODULE DiscoveryServer ---------------------------
(***************************************************************************)
(* discovery_server.c: main() starts a detached thread per connection; the *)
(* thread reads one request, works on registry[] under reg_lock, answers   *)
(* and closes.  register_user() fills a record field by field.             *)
(***************************************************************************)
EXTENDS Naturals, DiscoveryProtocol

CONSTANT Stops  \* whether SIGINT or SIGTERM may arrive

ASSUME StopsAssumption == Stops \in BOOLEAN

VARIABLES
    \* registry[]
    active, username, password, ip, port,
    regLock,    \* holder of reg_lock
    running,
    up,         \* the process exists
    pc,         \* where each handle_connection() is
    req,        \* its request
    idx,        \* idx of register_user()
    ans         \* resp

registry == <<active, username, password, ip, port>>
vars     == <<registry, regLock, running, up, pc, req, idx, ans>>

Records == 1..MaxUsers

\* While a record is being filled it counts as filled: register_user() holds
\* reg_lock, so nobody can tell.
Filling(t) == pc[t] \in {"active", "name", "pass", "ip"}

Has(u, k) == active[k] /\ username[k] = u

AccountOf(u) ==
    IF \E t \in Calls : Filling(t) /\ req[t].user = u
    THEN LET t == CHOOSE t \in Calls : Filling(t) /\ req[t].user = u
         IN  [pass |-> req[t].pass, ip |-> IpOf[t], port |-> req[t].port]
    ELSE IF \E k \in Records : Has(u, k)
    THEN LET k == CHOOSE k \in Records : Has(u, k)
         IN  [pass |-> password[k], ip |-> ip[k], port |-> port[k]]
    ELSE None

Stage(label) ==
    CASE label \in {"idle", "read"} -> "idle"
      [] label = "lock" -> "pending"
      [] label = "done" -> "done"
      [] OTHER -> "performed"

\* The refinement mapping.
acctBar == [u \in Users |-> AccountOf(u)]
callBar == [t \in Calls |-> Stage(pc[t])]
ansBar  == [t \in Calls |-> IF Filling(t) THEN Answer("ok") ELSE ans[t]]

R == INSTANCE Registry WITH acct <- acctBar, call <- callBar, ans <- ansBar

Goto(t, label) == pc' = [pc EXCEPT ![t] = label]

\* The response is made and the lock, if held, released.
Respond(t, a) ==
    /\ Goto(t, "reply")
    /\ ans' = [ans EXCEPT ![t] = a]

-----------------------------------------------------------------------------
(* main() *)

\* accept() and pthread_create(), which may fail.
main_accept(t) ==
    /\ up /\ running
    /\ pc[t] = "idle"
    /\ Goto(t, "read") \/ Goto(t, "done")
    /\ UNCHANGED <<registry, regLock, running, up, req, idx, ans>>

sig_handler ==
    /\ Stops
    /\ running
    /\ running' = FALSE
    /\ UNCHANGED <<registry, regLock, up, pc, req, idx, ans>>

\* main() returns, which ends the threads too: the requests under way are never
\* answered.
main_exit ==
    /\ up /\ ~running
    /\ up' = FALSE
    /\ UNCHANGED <<registry, regLock, running, pc, req, idx, ans>>

-----------------------------------------------------------------------------
(* handle_connection() *)

recv_message_fails(t) ==
    /\ up
    /\ pc[t] = "read"
    /\ Goto(t, "done")
    /\ UNCHANGED <<registry, regLock, running, up, req, idx, ans>>

recv_message_ok(t) ==
    /\ up
    /\ pc[t] = "read"
    /\ \E r \in Requests(t) : req' = [req EXCEPT ![t] = r]
    /\ Goto(t, "lock")
    /\ UNCHANGED <<registry, regLock, running, up, idx, ans>>

\* A thread that is about to lock reg_lock for a request of this kind.
Enters(t, kind) ==
    /\ up
    /\ pc[t] = "lock"
    /\ req[t].kind = kind
    /\ regLock = None

\* find_user(u) = k: the first active record with that name.
find_user(u, k) ==
    /\ Has(u, k)
    /\ \A j \in Records : Has(u, j) => k <= j

Known(u) == \E k \in Records : Has(u, k)

\* The loop of register_user() for a record to use.
free_record(k) ==
    /\ ~active[k]
    /\ \A j \in Records : ~active[j] => k <= j

\* Mutant: the user is not looked for, a new record is taken every time.
register_user_anew(t) ==
    /\ Enters(t, "REGISTER")
    /\ \E k \in Records : free_record(k) /\ idx' = [idx EXCEPT ![t] = k]
    /\ regLock' = t
    /\ Goto(t, "active")
    /\ UNCHANGED <<registry, running, up, req, ans>>

\* register_user(): the user's record, or a free one for a new user.
register_user(t) ==
    /\ Enters(t, "REGISTER")
    /\ \E k \in Records :
          /\ find_user(req[t].user, k) \/ (~Known(req[t].user) /\ free_record(k))
          /\ idx' = [idx EXCEPT ![t] = k]
    /\ regLock' = t
    /\ Goto(t, "active")
    /\ UNCHANGED <<registry, running, up, req, ans>>

\* Mutant: idx == MAX_USERS is not tested for.
register_user_past_the_end(t) ==
    /\ Enters(t, "REGISTER")
    /\ ~Known(req[t].user)
    /\ \A k \in Records : active[k]
    /\ idx' = [idx EXCEPT ![t] = MaxUsers + 1]
    /\ regLock' = t
    /\ Goto(t, "active")
    /\ UNCHANGED <<registry, running, up, req, ans>>

\* The registry is full.
register_user_full(t) ==
    /\ Enters(t, "REGISTER")
    /\ ~Known(req[t].user)
    /\ \A k \in Records : active[k]
    /\ Respond(t, Answer("error"))
    /\ UNCHANGED <<registry, regLock, running, up, req, idx>>

register_user_active(t) ==
    /\ up
    /\ pc[t] = "active"
    /\ active' = [active EXCEPT ![idx[t]] = TRUE]
    /\ port' = [port EXCEPT ![idx[t]] = req[t].port]
    /\ Goto(t, "name")
    /\ UNCHANGED <<username, password, ip, regLock, running, up, req, idx, ans>>

register_user_name(t) ==
    /\ up
    /\ pc[t] = "name"
    /\ username' = [username EXCEPT ![idx[t]] = req[t].user]
    /\ Goto(t, "pass")
    /\ UNCHANGED <<active, password, ip, port, regLock, running, up, req, idx, ans>>

register_user_pass(t) ==
    /\ up
    /\ pc[t] = "pass"
    /\ password' = [password EXCEPT ![idx[t]] = req[t].pass]
    /\ Goto(t, "ip")
    /\ UNCHANGED <<active, username, ip, port, regLock, running, up, req, idx, ans>>

\* The last field, and the unlock.
register_user_ip(t) ==
    /\ up
    /\ pc[t] = "ip"
    /\ ip' = [ip EXCEPT ![idx[t]] = IpOf[t]]
    /\ regLock' = None
    /\ idx' = [idx EXCEPT ![t] = 1]
    /\ Respond(t, Answer("ok"))
    /\ UNCHANGED <<active, username, password, port, running, up, req>>

\* Mutant: the lookup does not take reg_lock.
discover_unlocked(t) ==
    /\ up
    /\ pc[t] = "lock" /\ req[t].kind = "DISCOVER"
    /\ \/ \E k \in Records :
            /\ find_user(req[t].user, k)
            /\ Respond(t, [status |-> "found", ip |-> ip[k], port |-> port[k]])
       \/ ~Known(req[t].user) /\ Respond(t, Answer("error"))
    /\ UNCHANGED <<registry, regLock, running, up, req, idx>>

\* Mutant: the branch for an unknown user does not unlock.
discover_keeps_lock(t) ==
    /\ Enters(t, "DISCOVER")
    /\ \/ \E k \in Records :
            /\ find_user(req[t].user, k)
            /\ Respond(t, [status |-> "found", ip |-> ip[k], port |-> port[k]])
            /\ UNCHANGED regLock
       \/ ~Known(req[t].user) /\ Respond(t, Answer("error")) /\ regLock' = t
    /\ UNCHANGED <<registry, running, up, req, idx>>

\* MSG_DISCOVER
discover(t) ==
    /\ Enters(t, "DISCOVER")
    /\ \/ \E k \in Records :
            /\ find_user(req[t].user, k)
            /\ Respond(t, [status |-> "found", ip |-> ip[k], port |-> port[k]])
       \/ ~Known(req[t].user) /\ Respond(t, Answer("error"))
    /\ UNCHANGED <<registry, regLock, running, up, req, idx>>

\* MSG_VALIDATE: the password in the request ends at the first blank.
validate(t) ==
    /\ Enters(t, "VALIDATE")
    /\ \/ \E k \in Records :
            /\ find_user(req[t].user, k)
            /\ Respond(t, Answer(IF password[k] = Word[req[t].pass] THEN "ok" ELSE "error"))
       \/ ~Known(req[t].user) /\ Respond(t, Answer("error"))
    /\ UNCHANGED <<registry, regLock, running, up, req, idx>>

\* A malformed MSG_REGISTER or another type of message.
reject(t) ==
    /\ up
    /\ pc[t] = "lock"
    /\ req[t].kind = "BAD"
    /\ Respond(t, Answer("error"))
    /\ UNCHANGED <<registry, regLock, running, up, req, idx>>

\* send_message() and close()
reply(t) ==
    /\ up
    /\ pc[t] = "reply"
    /\ Goto(t, "done")
    /\ UNCHANGED <<registry, regLock, running, up, req, idx, ans>>

-----------------------------------------------------------------------------
(* The specification *)

Init ==
    /\ active = [k \in Records |-> FALSE]
    /\ username = [k \in Records |-> None]
    /\ password = [k \in Records |-> None]
    /\ ip = [k \in Records |-> None]
    /\ port = [k \in Records |-> None]
    /\ regLock = None
    /\ running = TRUE
    /\ up = TRUE
    /\ pc = [t \in Calls |-> "idle"]
    /\ req = [t \in Calls |-> NoRequest]
    /\ idx = [t \in Calls |-> 1]
    /\ ans = [t \in Calls |-> Answer("none")]

Work(t) ==
    \/ register_user(t) \/ register_user_full(t)
    \/ register_user_active(t) \/ register_user_name(t)
    \/ register_user_pass(t) \/ register_user_ip(t)
    \/ discover(t) \/ validate(t) \/ reject(t) \/ reply(t)

Next ==
    \/ sig_handler \/ main_exit
    \/ \E t \in Calls :
          main_accept(t) \/ recv_message_fails(t) \/ recv_message_ok(t) \/ Work(t)

Spec == Init /\ [][Next]_vars

\* A thread that has its request runs until it has answered.
FairSpec == Spec /\ \A t \in Calls : WF_vars(Work(t))

-----------------------------------------------------------------------------
(* Properties *)

\* The types of the variables.
TypeOK ==
    /\ active \in [Records -> BOOLEAN]
    /\ username \in [Records -> Users \cup {None}]
    /\ password \in [Records -> Passwords \cup {None}]
    /\ ip \in [Records -> Ips \cup {None}]
    /\ port \in [Records -> Ports \cup {None}]
    /\ regLock \in Calls \cup {None}
    /\ running \in BOOLEAN /\ up \in BOOLEAN
    /\ pc \in [Calls -> {"idle", "read", "lock", "active", "name", "pass", "ip",
                         "reply", "done"}]
    /\ req \in [Calls -> Request \cup {NoRequest}]
    /\ idx \in [Calls -> Records]
    /\ ans \in [Calls -> [status : {"none", "ok", "error", "found"},
                          ip : Ips \cup {None}, port : Ports \cup {None}]]

\* No two active records carry the same name, whatever registrations of one
\* user are under way together and however far register_user() has got: what
\* find_user(), which stops at the first record, relies on.
RecordsUnique == \A j, k \in Records :
    active[j] /\ active[k] /\ j # k => username[j] # username[k]

\* The calls of handle_connection() take effect one at a time: a MSG_DISCOVER or
\* MSG_VALIDATE answers from whole registrations, never from a record that
\* register_user() is filling, and the last registration of a user counts.
Refines == R!Spec

\* Every request handle_connection() has read is answered unless the process
\* ends first: each way out of register_user() and the lookups unlocks reg_lock.
Answered == \A t \in Calls : pc[t] = "lock" ~> pc[t] = "done" \/ ~up

=============================================================================
