--------------------------- MODULE MCEpollServer ----------------------------
(* Instances of EpollServer for TLC. *)
EXTENDS EpollServer

CONSTANTS c1, c2, c3, alice, bob

\* c3 is a second client program of alice.
OneNameEach == [c \in Conns |-> IF c = c2 THEN {bob} ELSE {alice}]

\* Requests per client; one that sends nothing connects and leaves.
TwoOneNone  == [c \in Conns |-> CASE c = c1 -> 2 [] c = c2 -> 1 [] OTHER -> 0]
TwoNone     == [c \in Conns |-> IF c = c1 THEN 2 ELSE 0]

\* Kinds of request.
AllOfC1     == [c \in Conns |-> IF c = c1 THEN AllKinds ELSE {"LOGIN"}]
TalkOnly    == [c \in Conns |-> IF c = c1 THEN {"LOGIN", "BROADCAST"} ELSE {"LOGIN"}]

=============================================================================
