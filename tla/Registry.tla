------------------------------ MODULE Registry ------------------------------
(***************************************************************************)
(* What the discovery server promises: a map from user names to accounts,  *)
(* on which every call takes effect at one instant between its arrival and *)
(* its answer, whatever other calls are under way.                         *)
(***************************************************************************)
EXTENDS FiniteSets, DiscoveryProtocol

VARIABLES
    acct,   \* the accounts
    call,   \* the stage of each call
    req,    \* what was asked
    ans     \* what is answered

vars == <<acct, call, req, ans>>

Init ==
    /\ acct = [u \in Users |-> None]
    /\ call = [t \in Calls |-> "idle"]
    /\ req = [t \in Calls |-> NoRequest]
    /\ ans = [t \in Calls |-> Answer("none")]

Arrive(t, r) ==
    /\ call[t] = "idle"
    /\ call' = [call EXCEPT ![t] = "pending"]
    /\ req' = [req EXCEPT ![t] = r]
    /\ UNCHANGED <<acct, ans>>

Registered == {u \in Users : acct[u] # None}

\* The new accounts and the answer, from the accounts at this instant.
Perform(t) ==
    LET r == req[t]
        Say(a) == ans' = [ans EXCEPT ![t] = a]
    IN
    /\ call[t] = "pending"
    /\ call' = [call EXCEPT ![t] = "performed"]
    /\ \/ /\ r.kind = "REGISTER"
          /\ r.user \in Registered \/ Cardinality(Registered) < MaxUsers
          /\ acct' = [acct EXCEPT ![r.user] =
                        [pass |-> r.pass, ip |-> IpOf[t], port |-> r.port]]
          /\ Say(Answer("ok"))
       \/ /\ r.kind = "REGISTER"
          /\ r.user \notin Registered /\ Cardinality(Registered) >= MaxUsers
          /\ Say(Answer("error"))
          /\ UNCHANGED acct
       \/ /\ r.kind = "DISCOVER"
          /\ Say(IF r.user \in Registered THEN Found(acct[r.user]) ELSE Answer("error"))
          /\ UNCHANGED acct
       \/ /\ r.kind = "VALIDATE"
          /\ Say(IF r.user \in Registered
                 THEN IF acct[r.user].pass = Word[r.pass] THEN Answer("ok") ELSE Answer("error")
                 ELSE Answer("error"))
          /\ UNCHANGED acct
       \/ /\ r.kind = "BAD"
          /\ Say(Answer("error"))
          /\ UNCHANGED acct
    /\ UNCHANGED req

\* The answer is sent; the caller may be gone.
Return(t) ==
    /\ call[t] = "performed"
    /\ call' = [call EXCEPT ![t] = "done"]
    /\ UNCHANGED <<acct, req, ans>>

\* The connection ends before a call has arrived on it.
HangUp(t) ==
    /\ call[t] = "idle"
    /\ call' = [call EXCEPT ![t] = "done"]
    /\ UNCHANGED <<acct, req, ans>>

Next == \E t \in Calls :
    \/ \E r \in Requests(t) : Arrive(t, r)
    \/ Perform(t) \/ Return(t) \/ HangUp(t)

Spec == Init /\ [][Next]_vars

=============================================================================
