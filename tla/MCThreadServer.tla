--------------------------- MODULE MCThreadServer ---------------------------
(* Instances of ThreadServer for TLC. *)
EXTENDS ThreadServer

CONSTANTS c1, c2, c3, alice, bob

\* c3 is a second client program of alice.
OneNameEach == [c \in Conns |-> IF c = c2 THEN {bob} ELSE {alice}]

\* c2 may compete for alice's name.
C2EitherName == [c \in Conns |-> IF c = c2 THEN {alice, bob} ELSE {alice}]

\* Requests per client; a client that sends none connects and leaves.
TwoOneNone == [c \in Conns |-> CASE c = c1 -> 2 [] c = c2 -> 1 [] OTHER -> 0]
TwoOneOne  == [c \in Conns |-> IF c = c1 THEN 2 ELSE 1]

\* Kinds of request.
TalkOnly == [c \in Conns |-> {"LOGIN", "BROADCAST"}]
ChatOnly == [c \in Conns |-> {"LOGIN", "LOGOUT", "BROADCAST", "PRIVATE"}]
AllOfC1  == [c \in Conns |-> IF c = c1 THEN AllKinds ELSE {"LOGIN"}]

=============================================================================
