-------------------------------- MODULE Wire --------------------------------
(***************************************************************************)
(* protocol.c: the layout of a message, and one direction of a TCP         *)
(* connection between a program that calls send_message() and one that     *)
(* calls recv_message() in a loop, as the servers and receiver_thread() do.*)
(*                                                                         *)
(* write() and read() transfer any part of what they are asked for.  One   *)
(* that ends with EINTR is called again, which changes nothing and is no   *)
(* step of the model.                                                      *)
(***************************************************************************)
EXTENDS Integers, Sequences

CONSTANTS
    Base,         \* 256: a byte is in 0..Base-1
    NameLen,      \* MAX_USERNAME_LEN
    TimeLen,      \* 8: the bytes of the timestamp
    MaxPayload,   \* MAX_PAYLOAD_LEN
    Inputs,       \* what make_message() is called with
    NetCap,       \* bytes the sockets hold
    MaxSends      \* bound: calls of send_message()

Bytes == 0..(Base - 1)

\* What a byte is worth k places from the last: 1, 256, 256^2, ...
Weight[k \in 0..TimeLen] == IF k = 0 THEN 1 ELSE Base * Weight[k - 1]

ASSUME WireAssumption ==
    /\ Base \in Nat /\ Base > 1
    /\ NameLen \in Nat \ {0} /\ TimeLen \in Nat \ {0}
    /\ MaxPayload \in Nat /\ MaxPayload < Base * Base
    /\ NetCap \in Nat \ {0} /\ MaxSends \in Nat
    /\ \A i \in Inputs :
          /\ i.type \in Bytes /\ i.now \in 0..(Weight[TimeLen] - 1)
          /\ \A s \in {i.sender, i.receiver, i.payload} : s \in Seq(1..(Base - 1))

HeaderSize == 2 + 2 * NameLen + TimeLen + 2     \* HEADER_SIZE

VARIABLES
    sent,     \* history: the messages send_message() was called with
    out,      \* what send_message() has yet to write
    closed,   \* the sender has closed the connection, or shut it down
    cut,      \* an end has died, or the connection was reset
    net,      \* the bytes written and not read
    in,       \* what recv_message() has read
    failed,   \* recv_message() has returned -1, which ends the loop it is in
    got       \* history: the messages recv_message() returned

vars == <<sent, out, closed, cut, net, in, failed, got>>

-----------------------------------------------------------------------------
(* The layout of a message.  payload_len is the length of payload here. *)

\* The first n elements, as strncpy() and the limits on lengths take them.
AtMost(s, n) == IF Len(s) <= n THEN s ELSE SubSeq(s, 1, n)

NulPadded(s) == [k \in 1..NameLen |-> IF k <= Len(s) THEN s[k] ELSE 0]

\* The string in an array: what precedes the first NUL.
CString(b) ==
    LET n == CHOOSE k \in 0..Len(b) : (\A j \in 1..k : b[j] # 0) /\ (k < Len(b) => b[k + 1] = 0)
    IN  SubSeq(b, 1, n)

write_u64_be(val) == [k \in 1..TimeLen |-> (val \div Weight[TimeLen - k]) % Base]

read_u64_be(b) ==
    LET val[k \in 0..TimeLen] == IF k = 0 THEN 0 ELSE val[k - 1] * Base + b[k]
    IN  val[TimeLen]

Message(type, sender, receiver, now, payload) ==
    [type |-> type, status |-> 0, sender |-> sender, receiver |-> receiver,
     timestamp |-> now, payload |-> payload]

\* Mutant of make_message: the length of the payload is not limited.
make_message_unlimited(i) ==
    Message(i.type, AtMost(i.sender, NameLen - 1), AtMost(i.receiver, NameLen - 1), i.now,
            i.payload)

\* make_message(): what does not fit is cut off.
make_message(i) ==
    Message(i.type, AtMost(i.sender, NameLen - 1), AtMost(i.receiver, NameLen - 1), i.now,
            AtMost(i.payload, MaxPayload))

\* pack_message()
pack_message(m) ==
    LET p == AtMost(m.payload, MaxPayload) IN
    <<m.type, m.status>>
      \o NulPadded(AtMost(m.sender, NameLen - 1)) \o NulPadded(AtMost(m.receiver, NameLen - 1))
      \o write_u64_be(m.timestamp) \o <<(Len(p) \div Base) % Base, Len(p) % Base>> \o p

\* payload_len as b has it, and the bytes of a name or the timestamp.
payload_len(b) == b[HeaderSize - 1] * Base + b[HeaderSize]
Field(b, at, w) == SubSeq(b, at + 1, at + w)

\* unpack_message() of a whole message.
unpack_message(b) ==
    [type |-> b[1], status |-> b[2],
     sender    |-> CString(Field(b, 2, NameLen - 1)),
     receiver  |-> CString(Field(b, 2 + NameLen, NameLen - 1)),
     timestamp |-> read_u64_be(Field(b, 2 + 2 * NameLen, TimeLen)),
     payload   |-> Field(b, HeaderSize, payload_len(b))]

-----------------------------------------------------------------------------
(* send_message() *)

\* send_message(&m) is called.
send_message ==
    /\ out = <<>> /\ ~closed /\ Len(sent) < MaxSends
    /\ \E i \in Inputs :
          /\ sent' = Append(sent, make_message(i))
          /\ out' = pack_message(make_message(i))
    /\ UNCHANGED <<closed, cut, net, in, failed, got>>

\* write() takes n bytes, and rest[n] is left.
Write(rest) ==
    /\ ~cut
    /\ \E n \in 1..Len(out) :
          /\ Len(net) + n <= NetCap
          /\ net' = net \o SubSeq(out, 1, n)
          /\ out' = rest[n]
    /\ UNCHANGED <<sent, closed, cut, in, failed, got>>

\* Mutant of send_write: what write() did not take is forgotten.
send_write_once == Write([n \in 1..Len(out) |-> <<>>])

\* The loop of write()s.
send_write == Write([n \in 1..Len(out) |-> SubSeq(out, n + 1, Len(out))])

\* write() fails: send_message() returns -1, and the rest is not sent.
send_fails ==
    /\ cut /\ out # <<>>
    /\ out' = <<>>
    /\ UNCHANGED <<sent, closed, cut, net, in, failed, got>>

\* The sender is done: close() or shutdown().
send_close ==
    /\ out = <<>> /\ ~closed
    /\ closed' = TRUE
    /\ UNCHANGED <<sent, out, cut, net, in, failed, got>>

-----------------------------------------------------------------------------
(* recv_message() *)

\* How many bytes the loop recv_message() is in has to end with.
Wanted(b) == IF Len(b) < HeaderSize THEN HeaderSize ELSE HeaderSize + payload_len(b)

TooLong(b) == Len(b) >= HeaderSize /\ payload_len(b) > MaxPayload

\* read() gives n bytes of the header, then of the payload.
recv_read ==
    /\ ~failed /\ ~TooLong(in)
    /\ \E n \in 1..Len(net) :
          /\ Len(in) + n <= Wanted(in)
          /\ in' = in \o SubSeq(net, 1, n)
          /\ net' = SubSeq(net, n + 1, Len(net))
    /\ UNCHANGED <<sent, out, closed, cut, failed, got>>

\* The message is whole.
recv_returns ==
    /\ Len(in) >= HeaderSize /\ Len(in) >= Wanted(in) /\ ~TooLong(in)
    /\ got' = Append(got, unpack_message(in))
    /\ in' = <<>>
    /\ UNCHANGED <<sent, out, closed, cut, net, failed>>

\* recv_message() returns -1 if cond holds: half a message is thrown away.
Fails(cond) ==
    /\ ~failed /\ cond
    /\ failed' = TRUE /\ in' = <<>>
    /\ UNCHANGED <<sent, out, closed, cut, net, got>>

\* Nothing will come any more and the message is not whole.
EndOfFile == net = <<>> /\ (cut \/ closed) /\ Len(in) < Wanted(in)

\* Mutant of recv_fails: read() of 0 bytes is taken for EINTR, except at the
\* start of a message.
recv_fails_between == Fails((EndOfFile /\ in = <<>>) \/ TooLong(in))

\* End of file, an error, or a payload that would not fit.
recv_fails == Fails(EndOfFile \/ TooLong(in))

-----------------------------------------------------------------------------
(* The network, and the specification *)

\* An end dies or resets the connection: what was written may still arrive.
break ==
    /\ ~cut /\ cut' = TRUE
    /\ net' \in {net, <<>>}
    /\ UNCHANGED <<sent, out, closed, in, failed, got>>

Init ==
    /\ sent = <<>> /\ out = <<>> /\ closed = FALSE /\ cut = FALSE
    /\ net = <<>> /\ in = <<>> /\ failed = FALSE /\ got = <<>>

Next ==
    \/ send_message \/ send_write \/ send_fails \/ send_close
    \/ recv_read \/ recv_returns \/ recv_fails \/ break

\* send_message() and recv_message() go on while write() and read() let them.
Spec ==
    /\ Init /\ [][Next]_vars
    /\ WF_vars(send_write) /\ WF_vars(send_fails)
    /\ WF_vars(recv_read) /\ WF_vars(recv_returns) /\ WF_vars(recv_fails)

-----------------------------------------------------------------------------
(* Properties *)

\* The types of the variables: no array is longer than it is declared.
TypeOK ==
    /\ \A k \in DOMAIN sent :
          /\ Len(sent[k].sender) < NameLen /\ Len(sent[k].receiver) < NameLen
          /\ Len(sent[k].payload) <= MaxPayload
    /\ \A b \in {out, net, in} : \A k \in DOMAIN b : b[k] \in Bytes
    /\ Len(out) <= HeaderSize + MaxPayload /\ Len(in) <= HeaderSize + MaxPayload
    /\ Len(net) <= NetCap
    /\ closed \in BOOLEAN /\ cut \in BOOLEAN /\ failed \in BOOLEAN

\* However write() and read() cut the bytes up, and wherever the connection
\* breaks, recv_message() returns the messages send_message() was called with, in
\* order, and all of them unless the connection breaks.
Ch == INSTANCE Channel WITH Messages <- {make_message(i) : i \in Inputs}
Refines == Ch!Spec

\* recv_message() does not wait for ever on a connection that is closed or has
\* broken, also when it has read half a message.
RecvEnds == (closed \/ cut) ~> failed

=============================================================================
