---------------------------- MODULE MCForkServer ----------------------------
(* Instances of ForkServer for TLC. *)
EXTENDS ForkServer

CONSTANTS c1, c2, c3, alice, bob

\* c3 is a second client program of alice.
OneNameEach == [c \in Conns |-> IF c = c2 THEN {bob} ELSE {alice}]
\* All clients compete for one name.
OneName     == [c \in Conns |-> {alice}]

\* Requests per client.
TwoOneOne  == [c \in Conns |-> IF c = c1 THEN 2 ELSE 1]
TwoOneNone == [c \in Conns |-> IF c = c1 THEN 2 ELSE IF c = c2 THEN 1 ELSE 0]

\* Kinds of request.
ChatOnly == [c \in Conns |-> {"LOGIN", "LOGOUT", "BROADCAST", "PRIVATE"}]
TalkOfC1 == [c \in Conns |-> IF c = c1 THEN {"LOGIN", "BROADCAST", "PRIVATE"} ELSE {"LOGIN"}]
AskOfC2  == [c \in Conns |-> IF c = c2 THEN AllKinds \ {"BROADCAST", "PRIVATE"} ELSE {"LOGIN"}]

=============================================================================
