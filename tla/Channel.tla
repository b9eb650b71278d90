------------------------------ MODULE Channel -------------------------------
(***************************************************************************)
(* What send_message() and recv_message() promise the programs: messages   *)
(* come out whole and in the order in which they went in, all of them      *)
(* unless the connection is cut.                                           *)
(***************************************************************************)
EXTENDS Naturals, Sequences

CONSTANT Messages

VARIABLES
    sent,   \* the messages send_message() was called with
    got,    \* the messages recv_message() returned
    cut     \* an end died or was reset

vars == <<sent, got, cut>>

Init == sent = <<>> /\ got = <<>> /\ cut = FALSE

Send ==
    /\ \E m \in Messages : sent' = Append(sent, m)
    /\ UNCHANGED <<got, cut>>

Recv ==
    /\ Len(got) < Len(sent)
    /\ got' = Append(got, sent[Len(got) + 1])
    /\ UNCHANGED <<sent, cut>>

Cut == ~cut /\ cut' = TRUE /\ UNCHANGED <<sent, got>>

Next == Send \/ Recv \/ Cut

\* Nothing is lost, invented or reordered ...
Safe == Init /\ [][Next]_vars

\* ... and what is sent arrives.
Spec == Safe /\ WF_vars(Recv /\ ~cut)

=============================================================================
