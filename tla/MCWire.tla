------------------------------- MODULE MCWire -------------------------------
(* Instances of Wire for TLC. *)
EXTENDS Wire

Input(type, s, r, now, p) ==
    [type |-> type, sender |-> s, receiver |-> r, now |-> now, payload |-> p]

\* Names and payloads that are empty, that just fit and that do not; a length and
\* a time that need two bytes.
Edges == {Input(0, <<>>, <<1>>, 0, <<>>),
          Input(2, <<2, 1>>, <<1, 2, 1>>, 7, <<1, 2, 1, 2, 1>>),
          Input(1, <<1>>, <<>>, 5, <<2, 1, 1, 2>>)}

=============================================================================
