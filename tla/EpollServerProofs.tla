------------------------- MODULE EpollServerProofs --------------------------
(***************************************************************************)
(* Proofs about EpollServer, for any number of connections, names, slots   *)
(* and requests, any sizes of the buffers and any faults.                  *)
(***************************************************************************)
EXTENDS EpollServer, SequenceTheorems, TLAPS

-----------------------------------------------------------------------------
(* The inductive invariant *)

Text      == Reply \cup Push
UnitOf(M) == [m : M, k : 1..MaxUnits, n : 1..MaxUnits]

SlotType ==
    [conn : Conns \cup {Nobody}, active : BOOLEAN, username : Users \cup {NoUser},
     status : Statuses, rbuf : Seq(UnitOf(Request)), rbuf_len : Int,
     sbuf : Seq(UnitOf(Text)), out : BOOLEAN]

SockType ==
    [state : {"none", "backlog", "open", "closed"}, client : {"open", "closed", "dead"},
     budget : Nat, way : Seq(UnitOf(Request)), rx : Seq(UnitOf(Request)),
     tx : Seq(UnitOf(Text)), part : Seq(UnitOf(Text))]

EventType == [fd : Slots \cup {Listener}, for : Conns \cup {Nobody}, in : BOOLEAN,
              out : BOOLEAN, hup : BOOLEAN]

\* What TypeOK leaves open: slots, sockets and events are records.
Shape ==
    /\ clients \in [Slots -> SlotType]
    /\ sock \in [Conns -> SockType]
    /\ batch \subseteq EventType /\ cur \in EventType

\* A slot that is not in use is empty; one in use has a connection of its own.
SlotInv ==
    /\ \A s \in Slots : ~InUse(s) =>
          /\ ~clients[s].active /\ clients[s].rbuf = <<>> /\ clients[s].sbuf = <<>>
          /\ clients[s].rbuf_len \in -MaxUnits..0
    /\ \A s, r \in Slots : InUse(s) /\ clients[s].conn = clients[r].conn => s = r
    /\ at # "down" => \A s \in Slots : InUse(s) => Sock(s).state = "open"

\* The event in hand has left the batch; the batch has one event for a
\* descriptor, and the slots of its events stay in use until they are handled.
BatchInv ==
    /\ \A e \in batch : e.fd = Listener => e = ListenerEvent
    /\ \A e \in batch : e.fd \in Slots => InUse(e.fd) /\ clients[e.fd].conn = e.for
    /\ \A e, f \in batch : e.fd = f.fd => e = f
    /\ at \in {"serve", "ack", "write"} =>
          /\ cur.fd \in Slots /\ InUse(cur.fd) => clients[cur.fd].conn = cur.for
          /\ cur.fd \in Slots /\ \A e \in batch : e.fd # cur.fd
    /\ at \notin {"serve", "ack", "write"} => cur = NoEvent
    /\ at = "ack" => Complete(clients[cur.fd].rbuf)

\* The descriptor s is on the ready list, or an event for it is yet to come.
InputDue(s)  == s \in ready \/ \E e \in batch : e.fd = s /\ (e.in \/ e.hup)
OutputDue(s) ==
    \/ s \in ready \/ \E e \in batch : e.fd = s /\ (e.out \/ e.hup)
    \/ at \in {"serve", "ack", "write"} /\ cur.fd = s /\ cur.out

\* Everything there is to read, to write or to accept is due.
EdgeInv ==
    at # "down" =>
        /\ \A s \in Slots : InUse(s) =>
              /\ Input(Sock(s)) => InputDue(s)
              /\ clients[s].sbuf # <<>> =>
                    clients[s].out /\ (Len(Sock(s).tx) < SockCap => OutputDue(s))
        /\ (\E c \in Conns : sock[c].state = "backlog") =>
              Listener \in ready \/ missed \/ ListenerEvent \in batch \/ at = "accept"

IInv ==
    /\ TypeOK /\ Shape /\ SlotInv /\ BatchInv /\ RbufLenExact /\ NothingLeftInRbuf /\ EdgeInv

-----------------------------------------------------------------------------
(* Buffers *)

\* pack_message() makes one or two units.
LEMMA UnitsType ==
  ASSUME NEW M, NEW m \in M, NEW kind
  PROVE  /\ Units(kind, m) \in Seq(UnitOf(M))
         /\ Len(Units(kind, m)) \in 1..MaxUnits
<1>1. CASE kind \in Bare
  BY <1>1 DEF Units, UnitOf, MaxUnits
<1>2. CASE kind \notin Bare
  BY <1>2 DEF Units, UnitOf, MaxUnits
<1> QED
  BY <1>1, <1>2

\* What memmove() leaves of a buffer.
LEMMA DropType ==
  ASSUME NEW S, NEW b \in Seq(S), NEW n \in 0..Len(b)
  PROVE  /\ Drop(b, n) \in Seq(S) /\ SubSeq(b, 1, n) \in Seq(S)
         /\ Len(Drop(b, n)) = Len(b) - n /\ Len(SubSeq(b, 1, n)) = n
  BY DEF Drop

\* A socket takes what there is room for.
LEMMA TakesType ==
  ASSUME NEW k \in SockType, NEW u \in Seq(UnitOf(Text)), Len(k.tx) <= SockCap
  PROVE  /\ Takes(k, u) \in 0..Len(u)
         /\ Len(k.tx) + Takes(k, u) <= SockCap
         /\ Takes(k, u) < Len(u) => Len(k.tx) + Takes(k, u) = SockCap
<1>1. k.tx \in Seq(UnitOf(Text))
  BY DEF SockType
<1>2. Len(k.tx) \in Nat /\ Len(u) \in Nat /\ SockCap \in Nat
  BY <1>1, EpollAssumption
<1>3. CASE SockCap - Len(k.tx) < Len(u)
  BY <1>2, <1>3 DEF Takes
<1>4. CASE ~(SockCap - Len(k.tx) < Len(u))
  BY <1>2, <1>4 DEF Takes
<1> QED
  BY <1>3, <1>4

\* A stream of units stays as it is, or gets a whole message more.
Appended(t, t0) == t = t0 \/ \E m \in Text : t = t0 \o Units(m, m)

\* Cutting a sequence in two loses nothing.
LEMMA SplitConcat ==
  ASSUME NEW S, NEW b \in Seq(S), NEW n \in 0..Len(b)
  PROVE  SubSeq(b, 1, n) \o Drop(b, n) = b
<1>1. 1 \in 1..(Len(b) + 1) /\ n \in (1 - 1)..Len(b) /\ Len(b) \in n..Len(b)
  OBVIOUS
<1>2. SubSeq(b, 1, n) \o SubSeq(b, n + 1, Len(b)) = SubSeq(b, 1, Len(b))
  BY <1>1, ConcatAdjacentSubSeq
<1> QED
  BY <1>2, SubSeqFull DEF Drop

LEMMA TextConcat ==
  ASSUME NEW a \in Seq(UnitOf(Text)), NEW b \in Seq(UnitOf(Text)), NEW c \in Seq(UnitOf(Text))
  PROVE  (a \o b) \o c = a \o (b \o c)
<1> DEFINE S == UnitOf(Text)
<1>1. a \in Seq(S) /\ b \in Seq(S) /\ c \in Seq(S)
  OBVIOUS
<1> HIDE DEF S
<1> QED
  BY <1>1, ConcatAssociative

\* What slot_send() does to the units on their way to the client: the message goes
\* whole, or not at all.  A message that is cut goes to an empty SendBuf, where
\* the rest of it fits.
LEMMA WriteStream ==
  ASSUME NEW r \in SlotType, NEW k \in SockType, NEW u \in Seq(UnitOf(Text)), NEW n \in 0..Len(u),
         Len(u) \in 1..MaxUnits, n = 0 \/ r.sbuf = <<>>
  PROVE  LET x == Write(r, k, u, n)
         IN  x.sock.tx \o x.slot.sbuf \in {k.tx \o r.sbuf, (k.tx \o r.sbuf) \o u}
<1> DEFINE x == Write(r, k, u, n)
           U == UnitOf(Text)
<1>1. r.sbuf \in Seq(U) /\ k.tx \in Seq(U) /\ SbufSize \in Nat /\ SbufSize >= MaxUnits
  BY EpollAssumption DEF SlotType, SockType
<1>2. /\ Drop(u, n) \in Seq(U) /\ SubSeq(u, 1, n) \in Seq(U) /\ Len(Drop(u, n)) = Len(u) - n
  BY DropType
<1>3. SubSeq(u, 1, n) \o Drop(u, n) = u
  BY SplitConcat
<1>4. x.sock.tx = k.tx \o SubSeq(u, 1, n)
  BY DEF Write, SockType
<1>5. CASE n = Len(u)
  <2>1. x.slot = r /\ r.sbuf = <<>>
    BY <1>5 DEF Write, MaxUnits
  <2>2. SubSeq(u, 1, n) = u
    BY <1>5, SubSeqFull
  <2>3. k.tx \o u \in Seq(U)
    BY <1>1, ConcatProperties
  <2>4. (k.tx \o u) \o <<>> = k.tx \o u /\ k.tx \o <<>> = k.tx
    BY <1>1, <2>3, ConcatEmptySeq
  <2> QED
    BY <1>4, <2>1, <2>2, <2>4
<1>6. CASE n # Len(u) /\ r.sbuf = <<>>
  <2>1. Len(<<>>) + Len(Drop(u, n)) <= SbufSize
    <3>1. Len(u) \in Nat /\ n \in Nat
      OBVIOUS
    <3>2. MaxUnits \in Nat
      BY DEF MaxUnits
    <3>3. Len(u) <= MaxUnits
      BY <3>2
    <3>4. Len(u) <= SbufSize
      BY <1>1, <3>1, <3>2, <3>3
    <3>5. 0 + (Len(u) - n) <= SbufSize
      BY <1>1, <3>1, <3>4
    <3>6. Len(<<>>) = 0
      OBVIOUS
    <3> QED
      BY <1>2, <3>5, <3>6
  <2>2. sb_push(<<>>, Drop(u, n)) = Drop(u, n)
    <3>1. <<>> \o Drop(u, n) = Drop(u, n)
      BY <1>2, ConcatEmptySeq
    <3> QED
      BY <2>1, <3>1 DEF sb_push
  <2>3. x.slot.sbuf = Drop(u, n)
    BY <1>6, <2>2 DEF Write, SlotType
  <2>4. (k.tx \o SubSeq(u, 1, n)) \o Drop(u, n) = k.tx \o u
    <3>1. (k.tx \o SubSeq(u, 1, n)) \o Drop(u, n) = k.tx \o (SubSeq(u, 1, n) \o Drop(u, n))
      BY <1>1, <1>2, TextConcat, Zenon
    <3> QED
      BY <1>3, <3>1
  <2>5. k.tx \o <<>> = k.tx
    BY <1>1, ConcatEmptySeq
  <2> QED
    BY <1>4, <1>6, <2>3, <2>4, <2>5
<1>7. CASE n # Len(u) /\ r.sbuf # <<>>
  <2>1. n = 0
    BY <1>7
  <2>2. SubSeq(u, 1, 0) = <<>> /\ Drop(u, 0) = u
    <3>1. SubSeq(u, 1, 0) = <<>>
      BY SubSeqEmpty
    <3>2. Drop(u, 0) = u
      BY SubSeqFull DEF Drop
    <3> QED
      BY <3>1, <3>2
  <2>3. k.tx \o <<>> = k.tx
    BY <1>1, ConcatEmptySeq
  <2>4. x.slot.sbuf \in {r.sbuf, r.sbuf \o u}
    BY <1>7, <2>1, <2>2 DEF Write, SlotType, sb_push
  <2>5. k.tx \o (r.sbuf \o u) = (k.tx \o r.sbuf) \o u
    BY <1>1, TextConcat, Zenon
  <2> QED
    BY <1>4, <2>1, <2>2, <2>3, <2>4, <2>5
<1> QED
  BY <1>5, <1>6, <1>7

\* What slot_send() does to a slot r and its socket k: the send buffer and what
\* EPOLLOUT is asked for change, and epmod() is called if they do.
Sent(r, k, x) ==
    /\ x.slot \in SlotType /\ x.sock \in SockType
    /\ x.slot = [r EXCEPT !.sbuf = x.slot.sbuf, !.out = x.slot.out]
    /\ x.sock = [k EXCEPT !.tx = x.sock.tx]
    /\ Len(x.slot.sbuf) <= SbufSize
    /\ Len(k.tx) <= Len(x.sock.tx) /\ Len(x.sock.tx) <= SockCap
    /\ (x.slot.sbuf = r.sbuf /\ x.slot.out = r.out) \/ (x.slot.out /\ x.mod)

\* ... and to the stream between them.
Streams(r, k, x) == Appended(x.sock.tx \o x.slot.sbuf, k.tx \o r.sbuf)

LEMMA WriteEffect ==
  ASSUME NEW r \in SlotType, NEW k \in SockType, NEW u \in Seq(UnitOf(Text)), NEW n \in 0..Len(u),
         Len(r.sbuf) <= SbufSize, Len(k.tx) + n <= SockCap
  PROVE  Sent(r, k, Write(r, k, u, n))
<1> DEFINE x == Write(r, k, u, n)
<1>1. /\ r.sbuf \in Seq(UnitOf(Text)) /\ k.tx \in Seq(UnitOf(Text))
      /\ SbufSize \in Nat /\ SockCap \in Nat
  BY EpollAssumption DEF SlotType, SockType
<1>2. /\ Drop(u, n) \in Seq(UnitOf(Text)) /\ SubSeq(u, 1, n) \in Seq(UnitOf(Text))
      /\ Len(SubSeq(u, 1, n)) = n
  BY DropType
<1>3. /\ sb_push(r.sbuf, Drop(u, n)) \in Seq(UnitOf(Text))
      /\ Len(sb_push(r.sbuf, Drop(u, n))) <= SbufSize
  BY <1>1, <1>2 DEF sb_push
<1>4. /\ k.tx \o SubSeq(u, 1, n) \in Seq(UnitOf(Text))
      /\ Len(k.tx \o SubSeq(u, 1, n)) = Len(k.tx) + n
  BY <1>1, <1>2, ConcatProperties
<1>5. Len(k.tx) \in Nat /\ n \in Nat /\ Len(u) \in Nat
  BY <1>1
<1>6. /\ x.sock = [k EXCEPT !.tx = x.sock.tx] /\ x.sock \in SockType
      /\ x.sock.tx = k.tx \o SubSeq(u, 1, n)
  BY <1>4 DEF Write, SockType
<1>7. /\ x.slot = [r EXCEPT !.sbuf = x.slot.sbuf, !.out = x.slot.out] /\ x.slot \in SlotType
      /\ Len(x.slot.sbuf) <= SbufSize
      /\ n # Len(u) => x.slot.out
      /\ n = Len(u) => x.slot = r
  <2>1. CASE n = Len(u)
    BY <2>1 DEF Write, SlotType
  <2>2. CASE n # Len(u)
    BY <1>3, <2>2 DEF Write, SlotType
  <2> QED
    BY <2>1, <2>2
<1>8. n # Len(u) => x.mod
  <2>1. x.mod = (n < Len(u))
    BY DEF Write
  <2>2. n # Len(u) => n < Len(u)
    BY <1>5
  <2> QED
    BY <2>1, <2>2
<1>9. Len(k.tx) <= Len(x.sock.tx) /\ Len(x.sock.tx) <= SockCap
  BY <1>1, <1>4, <1>5, <1>6
<1> HIDE DEF x
<1> QED
  BY <1>6, <1>7, <1>8, <1>9 DEF Sent, x

LEMMA SlotSend ==
  ASSUME NEW r \in SlotType, NEW k \in SockType, NEW m \in Text,
         Len(r.sbuf) <= SbufSize, Len(k.tx) <= SockCap
  PROVE  Sent(r, k, slot_send(r, k, m))
<1> DEFINE u == Units(m, m)
<1>1. u \in Seq(UnitOf(Text)) /\ Len(u) \in Nat
  BY UnitsType
<1>2. k.tx \in Seq(UnitOf(Text)) /\ Len(k.tx) \in Nat
  BY DEF SockType
<1>3. Takes(k, u) \in 0..Len(u) /\ Len(k.tx) + Takes(k, u) <= SockCap
  BY <1>1, TakesType
<1> HIDE DEF u
<1>4. Sent(r, k, Write(r, k, u, Takes(k, u)))
  BY <1>1, <1>3, WriteEffect
<1>5. Sent(r, k, Write(r, k, u, 0))
  <2>1. 0 \in 0..Len(u) /\ Len(k.tx) + 0 <= SockCap
    BY <1>1, <1>2
  <2> QED
    BY <1>1, <2>1, WriteEffect
<1>6. Sent(r, k, [slot |-> r, sock |-> k, mod |-> FALSE])
  <2>1. r = [r EXCEPT !.sbuf = r.sbuf, !.out = r.out] /\ k = [k EXCEPT !.tx = k.tx]
    BY DEF SlotType, SockType
  <2>2. Len(k.tx) <= Len(k.tx)
    BY <1>2
  <2> QED
    BY <2>1, <2>2 DEF Sent
<1> QED
  BY <1>4, <1>5, <1>6 DEF slot_send, u

LEMMA SlotStream ==
  ASSUME NEW r \in SlotType, NEW k \in SockType, NEW m \in Text,
         Len(k.tx) <= SockCap
  PROVE  Streams(r, k, slot_send(r, k, m))
<1> DEFINE u == Units(m, m)
           n == IF r.sbuf = <<>> THEN Takes(k, u) ELSE 0
<1>1. u \in Seq(UnitOf(Text)) /\ Len(u) \in 1..MaxUnits
  BY UnitsType
<1>2. n \in 0..Len(u) /\ (n = 0 \/ r.sbuf = <<>>)
  BY <1>1, TakesType DEF MaxUnits
<1> HIDE DEF n
<1>3. CASE Dead(k) /\ r.sbuf = <<>>
  BY <1>3 DEF slot_send, Streams, Appended
<1>4. CASE ~(Dead(k) /\ r.sbuf = <<>>)
  <2>1. slot_send(r, k, m) = Write(r, k, u, n)
    BY <1>4 DEF slot_send, n
  <2> DEFINE x == Write(r, k, u, n)
  <2> HIDE DEF u
  <2>2. x.sock.tx \o x.slot.sbuf \in {k.tx \o r.sbuf, (k.tx \o r.sbuf) \o u}
    BY <1>1, <1>2, WriteStream
  <2> HIDE DEF x
  <2>3. Streams(r, k, x)
    BY <2>2 DEF Streams, Appended, u
  <2> QED
    BY <2>1, <2>3 DEF x
<1> QED
  BY <1>3, <1>4

-----------------------------------------------------------------------------
(* The loops of slot_send()s *)

\* What slot_send() leaves alone of a slot, and of a socket.
Core(r) == <<r.conn, r.active, r.username, r.status, r.rbuf, r.rbuf_len>>
Line(k) == <<k.state, k.client, k.budget, k.way, k.rx, k.part>>

Bounded(table) ==
    /\ table \in [Slots -> SlotType]
    /\ \A s \in Slots : Len(table[s].sbuf) <= SbufSize
    /\ \A s, r \in Slots : table[s].conn \in Conns /\ table[s].conn = table[r].conn => s = r

\* The effect of SendAll(table, msgs, gone, left), whatever is sent: a slot that
\* something is buffered for asks for EPOLLOUT and has been looked at again.
SendEffect(table, gone, left) ==
    /\ clients' \in [Slots -> SlotType] /\ sock' \in [Conns -> SockType]
    /\ \A s \in gone : clients'[s] = left
    /\ \A s \in Slots \ gone :
          /\ Core(clients'[s]) = Core(table[s]) /\ Len(clients'[s].sbuf) <= SbufSize
          /\ \/ clients'[s].sbuf = table[s].sbuf /\ clients'[s].out = table[s].out
             \/ clients'[s].out /\ (Poll(sock'[table[s].conn], TRUE) => s \in ready')
    /\ \A s \in Slots \ gone : table[s].conn \notin Conns => clients'[s] = table[s]
    /\ \A s \in gone : table[s].conn \in Conns => sock'[table[s].conn] = Closed
    /\ \A c \in Conns : (\A s \in gone : table[s].conn # c) =>
          /\ Line(sock'[c]) = Line(sock[c])
          /\ Len(sock[c].tx) <= Len(sock'[c].tx) /\ Len(sock'[c].tx) <= SockCap
    /\ \A c \in Conns : (\A s \in Slots : table[s].conn # c) => sock'[c] = sock[c]
    /\ \A s \in Slots \ gone : table[s].conn \in Conns =>
          Appended(sock'[table[s].conn].tx \o clients'[s].sbuf, sock[table[s].conn].tx \o table[s].sbuf)
    /\ ready \ gone \subseteq ready' /\ ready' \subseteq (ready \cup Slots) \ gone

LEMMA SendLemma ==
  ASSUME TypeOK, Shape, NEW table, Bounded(table), NEW gone \in SUBSET Slots, NEW left \in SlotType,
         NEW msgs, DOMAIN msgs \subseteq Slots \ gone,
         \A s \in DOMAIN msgs : msgs[s] \in Text /\ table[s].conn \in Conns,
         SendAll(table, msgs, gone, left)
  PROVE  SendEffect(table, gone, left)
<1> DEFINE D == DOMAIN msgs
           res == [s \in D |-> slot_send(table[s], sock[table[s].conn], msgs[s])]
           owner(c) == CHOOSE s \in D : table[s].conn = c
<1>1. /\ clients' = [s \in Slots |-> IF s \in gone THEN left
                                     ELSE IF s \in D THEN res[s].slot ELSE table[s]]
      /\ sock' = [c \in Conns |->
                    IF \E s \in gone : table[s].conn = c THEN Closed
                    ELSE IF \E s \in D : table[s].conn = c THEN res[owner(c)].sock
                    ELSE sock[c]]
      /\ ready' = (ready \ gone) \cup {s \in D : res[s].mod /\ Poll(res[s].sock, TRUE)}
  BY DEF SendAll
<1>2. \A s \in D : /\ Sent(table[s], sock[table[s].conn], res[s])
                   /\ Streams(table[s], sock[table[s].conn], res[s])
  <2> SUFFICES ASSUME NEW s \in D
               PROVE  /\ Sent(table[s], sock[table[s].conn], res[s])
                      /\ Streams(table[s], sock[table[s].conn], res[s])
    OBVIOUS
  <2>1. /\ table[s] \in SlotType /\ Len(table[s].sbuf) <= SbufSize /\ msgs[s] \in Text
        /\ sock[table[s].conn] \in SockType /\ Len(sock[table[s].conn].tx) <= SockCap
    BY DEF Bounded, Shape, TypeOK
  <2> QED
    BY <2>1, SlotSend, SlotStream
<1> HIDE DEF res
<1>3. \A s \in D : owner(table[s].conn) = s
  BY DEF Bounded
<1>4. \A c \in Conns : (\E s \in D : table[s].conn = c) => owner(c) \in D /\ table[owner(c)].conn = c
  OBVIOUS
<1> HIDE DEF owner, D
<1>5. \A c \in Conns : sock[c] \in SockType /\ Len(sock[c].tx) <= SockCap
  BY DEF Shape, TypeOK
<1>6. \A s \in Slots \ gone : s \notin D => clients'[s] = table[s]
  BY <1>1
<1>7. \A s \in D : s \in Slots \ gone /\ clients'[s] = res[s].slot
  BY <1>1 DEF D
<1>8. \A s \in D : (\A r \in gone : table[r].conn # table[s].conn) /\ sock'[table[s].conn] = res[s].sock
  <2>1. \A s \in D : \A r \in gone : table[r].conn # table[s].conn
    BY <1>7 DEF Bounded, D
  <2> QED
    BY <1>1, <1>3, <2>1 DEF D
<1>9. \A s \in gone : clients'[s] = left
  BY <1>1
<1>10. \A s \in gone : table[s].conn \in Conns => sock'[table[s].conn] = Closed
  BY <1>1
<1>11. ASSUME NEW c \in Conns, \A s \in gone : table[s].conn # c
       PROVE  /\ Line(sock'[c]) = Line(sock[c]) /\ sock'[c] \in SockType
              /\ Len(sock[c].tx) <= Len(sock'[c].tx) /\ Len(sock'[c].tx) <= SockCap
  <2>1. CASE \E s \in D : table[s].conn = c
    <3>1. PICK s \in D : table[s].conn = c
      BY <2>1
    <3>2. sock'[c] = res[s].sock
      BY <1>8, <3>1
    <3>3. Sent(table[s], sock[c], res[s])
      BY <1>2, <3>1
    <3> QED
      BY <1>5, <3>2, <3>3 DEF Sent, Line, SockType
  <2>2. CASE ~\E s \in D : table[s].conn = c
    <3>1. sock'[c] = sock[c]
      BY <1>1, <1>11, <2>2
    <3>2. Len(sock[c].tx) \in Nat
      BY <1>5 DEF SockType
    <3> QED
      BY <1>5, <3>1, <3>2
  <2> QED
    BY <2>1, <2>2
<1>12. Closed \in SockType
  BY DEF Closed, SockType
<1>13. ASSUME NEW s \in Slots \ gone
       PROVE  /\ clients'[s] \in SlotType
              /\ Core(clients'[s]) = Core(table[s]) /\ Len(clients'[s].sbuf) <= SbufSize
              /\ \/ clients'[s].sbuf = table[s].sbuf /\ clients'[s].out = table[s].out
                 \/ clients'[s].out /\ (Poll(sock'[table[s].conn], TRUE) => s \in ready')
  <2>1. CASE s \in D
    <3>1. /\ clients'[s] = res[s].slot /\ sock'[table[s].conn] = res[s].sock
          /\ Sent(table[s], sock[table[s].conn], res[s])
      BY <1>2, <1>7, <1>8, <2>1
    <3>2. res[s].mod /\ Poll(res[s].sock, TRUE) => s \in ready'
      BY <1>1, <2>1
    <3> QED
      BY <3>1, <3>2 DEF Sent, Core, SlotType, Bounded
  <2>2. CASE s \notin D
    BY <1>6, <2>2 DEF Bounded
  <2> QED
    BY <2>1, <2>2
<1>14. clients' \in [Slots -> SlotType]
  BY <1>1, <1>9, <1>13
<1>15. sock' \in [Conns -> SockType]
  <2>1. \A c \in Conns : sock'[c] \in SockType
    BY <1>10, <1>11, <1>12
  <2> QED
    BY <1>1, <2>1
<1>16. ready \ gone \subseteq ready' /\ ready' \subseteq (ready \cup Slots) \ gone
  BY <1>1, <1>7
<1>17. \A s \in Slots \ gone : table[s].conn \notin Conns => clients'[s] = table[s]
  BY <1>6 DEF D
<1>18. \A c \in Conns : (\A s \in Slots : table[s].conn # c) => sock'[c] = sock[c]
  BY <1>1, <1>7
<1>19. ASSUME NEW s \in Slots \ gone, table[s].conn \in Conns
       PROVE  Appended(sock'[table[s].conn].tx \o clients'[s].sbuf,
                       sock[table[s].conn].tx \o table[s].sbuf)
  <2>1. CASE s \in D
    BY <1>2, <1>7, <1>8, <2>1 DEF Streams
  <2>2. CASE s \notin D
    <3>1. \A r \in D \cup gone : table[r].conn # table[s].conn
      BY <1>7, <1>19, <2>2 DEF Bounded
    <3>2. sock'[table[s].conn] = sock[table[s].conn]
      BY <1>1, <1>19, <3>1
    <3> QED
      BY <1>6, <2>2, <3>2 DEF Appended
  <2> QED
    BY <2>1, <2>2
<1> QED
  BY <1>9, <1>10, <1>11, <1>13, <1>14, <1>15, <1>16, <1>17, <1>18, <1>19 DEF SendEffect

-----------------------------------------------------------------------------
(* Sending in a reachable state *)

\* A slot after memset(), whatever is subtracted from rbuf_len later.
Emptied(r) ==
    /\ r \in SlotType /\ r.conn = Nobody /\ ~r.active /\ r.rbuf = <<>> /\ r.sbuf = <<>>
    /\ r.rbuf_len \in -MaxUnits..0

\* The table differs from clients[] at slot s only, where the connection and the
\* send buffer are the same.
Like(table, s) ==
    /\ table \in [Slots -> SlotType]
    /\ \A r \in Slots \ {s} : table[r] = clients[r]
    /\ table[s].conn = clients[s].conn /\ table[s].sbuf = clients[s].sbuf
    /\ table[s].out = clients[s].out

\* A step in which messages are sent, slot s changes and those in gone are closed.
Sends(s, gone) ==
    /\ clients' \in [Slots -> SlotType] /\ sock' \in [Conns -> SockType]
    /\ ready' \subseteq Slots \cup {Listener} /\ ready \ gone \subseteq ready'
    /\ \A r \in gone : Emptied(clients'[r])
    /\ \A r \in Slots \ gone : clients'[r].conn = clients[r].conn
    /\ \A r \in Slots \ {s} : Core(clients'[r]) = Core(clients[r])
    /\ \A r \in Slots : Len(clients'[r].sbuf) <= SbufSize
    /\ \A r \in Slots \ gone : clients'[r].sbuf # <<>> =>
          \/ clients'[r].out /\ (Poll(sock'[clients[r].conn], TRUE) => r \in ready')
          \/ clients[r].sbuf # <<>> /\ clients'[r].out = clients[r].out
    /\ \A r \in Slots \ gone : ~InUse(r) => clients'[r].sbuf = clients[r].sbuf
    /\ \A r \in Slots \ gone : InUse(r) =>
          /\ Line(sock'[clients[r].conn]) = Line(Sock(r))
          /\ Len(Sock(r).tx) <= Len(sock'[clients[r].conn].tx)
    /\ \A c \in Conns :
          /\ Len(sock'[c].tx) <= SockCap
          /\ sock'[c].state = "backlog" => sock[c].state = "backlog"
          /\ (\A r \in Slots : clients[r].conn # c) => sock'[c] = sock[c]
    /\ \A r \in gone : InUse(r) => sock'[clients[r].conn] = Closed
    /\ \A r \in Slots \ gone : InUse(r) =>
          Appended(sock'[clients[r].conn].tx \o clients'[r].sbuf, Sock(r).tx \o clients[r].sbuf)

LEMMA BoundedLemma ==
  ASSUME IInv, NEW s \in Slots, NEW table, Like(table, s)
  PROVE  Bounded(table)
<1>1. \A r \in Slots : table[r].conn = clients[r].conn /\ table[r].sbuf = clients[r].sbuf
  BY DEF Like
<1>2. \A r \in Slots : Len(table[r].sbuf) <= SbufSize
  BY <1>1 DEF IInv, TypeOK
<1>3. \A r, q \in Slots : table[r].conn \in Conns /\ table[r].conn = table[q].conn => r = q
  BY <1>1, ProtocolAssumption DEF IInv, SlotInv, InUse
<1> QED
  BY <1>2, <1>3 DEF Bounded, Like

LEMMA EmptiedLength ==
  ASSUME NEW r, Emptied(r)
  PROVE  Len(r.sbuf) <= SbufSize /\ Len(r.rbuf) <= RbufSize
<1>1. SbufSize \in Nat /\ RbufSize \in Nat
  BY EpollAssumption
<1>2. Len(<<>>) = 0
  OBVIOUS
<1>3. r.sbuf = <<>> /\ r.rbuf = <<>>
  BY DEF Emptied
<1>4. 0 <= SbufSize /\ 0 <= RbufSize
  BY <1>1
<1> QED
  BY <1>2, <1>3, <1>4

LEMMA SendsLemma ==
  ASSUME IInv, NEW s \in Slots, NEW gone \in SUBSET {s}, NEW table, Like(table, s),
         NEW left, Emptied(left),
         NEW msgs, DOMAIN msgs \subseteq Slots \ gone,
         \A r \in DOMAIN msgs : msgs[r] \in Text /\ InUse(r),
         SendAll(table, msgs, gone, left)
  PROVE  /\ Sends(s, gone)
         /\ s \notin gone => Core(clients'[s]) = Core(table[s])
         /\ s \in gone => clients'[s] = left
<1>1. Bounded(table)
  BY BoundedLemma
<1>2. gone \in SUBSET Slots /\ left \in SlotType /\ TypeOK /\ Shape
  BY DEF Emptied, IInv
<1>3. \A r \in Slots : table[r].conn = clients[r].conn /\ table[r].sbuf = clients[r].sbuf
                       /\ table[r].out = clients[r].out
  BY DEF Like
<1>4. \A r \in Slots : clients[r].conn \in Conns \cup {Nobody}
  BY <1>2 DEF TypeOK
<1>5. \A r \in DOMAIN msgs : msgs[r] \in Text /\ table[r].conn \in Conns
  BY <1>3, <1>4 DEF InUse
<1>6. SendEffect(table, gone, left)
  BY <1>1, <1>2, <1>5, SendLemma
<1>7. /\ clients' \in [Slots -> SlotType] /\ sock' \in [Conns -> SockType]
      /\ \A r \in gone : clients'[r] = left
  BY <1>6 DEF SendEffect
<1>8. ready' \subseteq Slots \cup {Listener} /\ ready \ gone \subseteq ready'
  BY <1>2, <1>6 DEF SendEffect, TypeOK
<1>9. \A r \in Slots \ gone : Core(clients'[r]) = Core(table[r])
  BY <1>6 DEF SendEffect
<1>10. \A r \in Slots \ gone : clients'[r].conn = clients[r].conn
  BY <1>3, <1>9 DEF Core
<1>11. \A r \in Slots \ {s} : Core(clients'[r]) = Core(clients[r])
  BY <1>9 DEF Like
<1>12. \A r \in Slots : Len(clients'[r].sbuf) <= SbufSize
  BY <1>6, <1>7, EmptiedLength DEF SendEffect
<1>13. \A r \in Slots \ gone : clients'[r].sbuf # <<>> =>
          \/ clients'[r].out /\ (Poll(sock'[clients[r].conn], TRUE) => r \in ready')
          \/ clients[r].sbuf # <<>> /\ clients'[r].out = clients[r].out
  BY <1>3, <1>6 DEF SendEffect
<1>14. \A r \in Slots \ gone : InUse(r) =>
          /\ Line(sock'[clients[r].conn]) = Line(Sock(r))
          /\ Len(Sock(r).tx) <= Len(sock'[clients[r].conn].tx)
  <2> SUFFICES ASSUME NEW r \in Slots \ gone, InUse(r)
               PROVE  /\ Line(sock'[clients[r].conn]) = Line(Sock(r))
                      /\ Len(Sock(r).tx) <= Len(sock'[clients[r].conn].tx)
    OBVIOUS
  <2>1. clients[r].conn \in Conns
    BY <1>4 DEF InUse
  <2>2. \A q \in gone : table[q].conn # clients[r].conn
    BY <1>1, <1>2, <1>3, <2>1 DEF Bounded
  <2> QED
    BY <1>6, <2>1, <2>2 DEF SendEffect, Sock
<1>15. ASSUME NEW c \in Conns
       PROVE  /\ Len(sock'[c].tx) <= SockCap
              /\ sock'[c].state = "backlog" => sock[c].state = "backlog"
  <2>1. CASE \A q \in gone : table[q].conn # c
    BY <1>6, <2>1 DEF SendEffect, Line
  <2>2. CASE ~\A q \in gone : table[q].conn # c
    <3>1. sock'[c] = Closed
      BY <1>6, <2>2 DEF SendEffect
    <3>2. Len(<<>>) = 0 /\ 0 <= SockCap
      BY EpollAssumption
    <3> QED
      BY <3>1, <3>2 DEF Closed
  <2> QED
    BY <2>1, <2>2
<1>16. \A r \in Slots \ gone : ~InUse(r) => clients'[r].sbuf = clients[r].sbuf
  BY <1>3, <1>6, ProtocolAssumption DEF SendEffect, InUse
<1>17. \A c \in Conns : (\A r \in Slots : clients[r].conn # c) => sock'[c] = sock[c]
  BY <1>3, <1>6 DEF SendEffect
<1>18. \A r \in gone : InUse(r) => sock'[clients[r].conn] = Closed
  BY <1>2, <1>3, <1>4, <1>6 DEF SendEffect, InUse
<1>19. \A r \in Slots \ gone : InUse(r) =>
          Appended(sock'[clients[r].conn].tx \o clients'[r].sbuf, Sock(r).tx \o clients[r].sbuf)
  <2> SUFFICES ASSUME NEW r \in Slots \ gone, InUse(r)
               PROVE  Appended(sock'[clients[r].conn].tx \o clients'[r].sbuf,
                               Sock(r).tx \o clients[r].sbuf)
    OBVIOUS
  <2>1. table[r].conn = clients[r].conn /\ clients[r].conn \in Conns /\ table[r].sbuf = clients[r].sbuf
    BY <1>3, <1>4 DEF InUse
  <2>2. Appended(sock'[table[r].conn].tx \o clients'[r].sbuf, sock[table[r].conn].tx \o table[r].sbuf)
    BY <1>6, <2>1 DEF SendEffect
  <2> QED
    BY <2>1, <2>2 DEF Sock
<1> QED
  BY <1>7, <1>8, <1>9, <1>10, <1>11, <1>12, <1>13, <1>14, <1>15, <1>16, <1>17, <1>18, <1>19
     DEF Sends

\* Sending keeps the slots apart.
LEMMA SendsSlots ==
  ASSUME IInv, at # "down", NEW s \in Slots, NEW gone \in SUBSET {s}, Sends(s, gone),
         s \notin gone => InUse(s)
  PROVE  SlotInv'
<1>1. \A r \in Slots : InUse(r)' => r \notin gone /\ InUse(r) /\ clients'[r].conn = clients[r].conn
  BY DEF Sends, Emptied, InUse
<1>2. ASSUME NEW r \in Slots, ~InUse(r)'
      PROVE  /\ ~clients'[r].active /\ clients'[r].rbuf = <<>> /\ clients'[r].sbuf = <<>>
             /\ clients'[r].rbuf_len \in -MaxUnits..0
  <2>1. CASE r \in gone
    BY <2>1 DEF Sends, Emptied
  <2>2. CASE r \notin gone
    <3>1. ~InUse(r)
      BY <1>2, <2>2 DEF Sends, InUse
    <3>2. r # s
      BY <2>2, <3>1
    <3>3. /\ clients'[r].active = clients[r].active /\ clients'[r].rbuf = clients[r].rbuf
          /\ clients'[r].rbuf_len = clients[r].rbuf_len
      BY <3>2 DEF Sends, Core
    <3>4. clients'[r].sbuf = <<>>
      BY <2>2, <3>1 DEF Sends, IInv, SlotInv
    <3> QED
      BY <3>1, <3>3, <3>4 DEF IInv, SlotInv
  <2> QED
    BY <2>1, <2>2
<1>3. ASSUME NEW r \in Slots, NEW q \in Slots, InUse(r)', clients'[r].conn = clients'[q].conn
      PROVE  r = q
  <2>1. InUse(q)'
    BY <1>3 DEF InUse
  <2>2. clients[r].conn = clients[q].conn /\ InUse(r)
    BY <1>1, <1>3, <2>1
  <2> QED
    BY <2>2 DEF IInv, SlotInv
<1>4. ASSUME NEW r \in Slots, InUse(r)'
      PROVE  Sock(r)'.state = "open"
  <2>1. r \notin gone /\ InUse(r) /\ clients'[r].conn = clients[r].conn
    BY <1>1, <1>4
  <2>2. Sock(r).state = "open"
    BY <2>1 DEF IInv, SlotInv
  <2>3. sock'[clients[r].conn].state = Sock(r).state
    BY <2>1 DEF Sends, Line
  <2> QED
    BY <2>1, <2>2, <2>3 DEF Sock
<1> QED
  BY <1>2, <1>3, <1>4 DEF SlotInv

\* Sending loses no edge: the sockets that something is buffered for have been
\* looked at again.
LEMMA SendsEdge ==
  ASSUME IInv, at \notin {"down", "accept"}, NEW s \in Slots, NEW gone \in SUBSET {s}, Sends(s, gone),
         missed' = missed, \A e \in batch : e \in batch' \/ e.fd \in gone,
         at \in {"serve", "ack", "write"} /\ cur.fd \notin gone =>
            at' \in {"serve", "ack", "write"} /\ cur' = cur
  PROVE  EdgeInv'
<1>1. \A r \in Slots : InUse(r)' => r \notin gone /\ InUse(r) /\ clients'[r].conn = clients[r].conn
  BY DEF Sends, Emptied, InUse
<1>2. \A r \in Slots \ gone : r \in ready => r \in ready'
  BY DEF Sends
<1>3. ASSUME NEW r \in Slots, InUse(r)', Input(Sock(r))'
      PROVE  InputDue(r)'
  <2>1. r \notin gone /\ InUse(r) /\ clients'[r].conn = clients[r].conn
    BY <1>1, <1>3
  <2>2. Line(Sock(r)') = Line(Sock(r))
    BY <2>1 DEF Sends, Sock
  <2>3. Input(Sock(r))
    BY <1>3, <2>2 DEF Input, Eof, Dead, Line
  <2>4. InputDue(r)
    BY <2>1, <2>3 DEF IInv, EdgeInv
  <2> QED
    BY <1>2, <2>1, <2>4 DEF InputDue
<1>4. ASSUME NEW r \in Slots, InUse(r)', clients'[r].sbuf # <<>>
      PROVE  clients'[r].out /\ (Len(Sock(r)'.tx) < SockCap => OutputDue(r)')
  <2>1. r \notin gone /\ InUse(r) /\ clients'[r].conn = clients[r].conn
    BY <1>1, <1>4
  <2>2. CASE clients'[r].out /\ (Poll(sock'[clients[r].conn], TRUE) => r \in ready')
    BY <2>1, <2>2 DEF Poll, Sock, OutputDue
  <2>3. CASE clients[r].sbuf # <<>> /\ clients'[r].out = clients[r].out
    <3>1. clients[r].out /\ (Len(Sock(r).tx) < SockCap => OutputDue(r))
      BY <2>1, <2>3 DEF IInv, EdgeInv
    <3>2. Len(Sock(r).tx) <= Len(Sock(r)'.tx)
      BY <2>1 DEF Sends, Sock
    <3>3. clients[r].conn \in Conns
      BY <2>1 DEF IInv, TypeOK, InUse
    <3>4. Len(Sock(r).tx) \in Nat /\ Len(Sock(r)'.tx) \in Nat /\ SockCap \in Nat
      <4>1. sock[clients[r].conn] \in SockType /\ sock'[clients[r].conn] \in SockType
        BY <3>3 DEF IInv, Shape, Sends
      <4>2. Sock(r) \in SockType /\ Sock(r)' \in SockType
        BY <2>1, <4>1 DEF Sock
      <4>3. \A k \in SockType : Len(k.tx) \in Nat
        BY DEF SockType
      <4> QED
        BY <4>2, <4>3, EpollAssumption
    <3>5. Len(Sock(r)'.tx) < SockCap => OutputDue(r)
      BY <3>1, <3>2, <3>4
    <3>6. OutputDue(r) => OutputDue(r)'
      BY <1>2, <2>1 DEF OutputDue
    <3> QED
      BY <2>3, <3>1, <3>5, <3>6
  <2> QED
    BY <1>4, <2>1, <2>2, <2>3 DEF Sends
<1>5. ASSUME \E c \in Conns : sock'[c].state = "backlog"
      PROVE  Listener \in ready' \/ missed' \/ ListenerEvent \in batch'
  <2>1. \E c \in Conns : sock[c].state = "backlog"
    BY <1>5 DEF Sends
  <2>2. Listener \in ready \/ missed \/ ListenerEvent \in batch
    BY <2>1 DEF IInv, EdgeInv
  <2>3. Listener \notin Slots
    BY EpollAssumption DEF Listener, Slots
  <2>4. ListenerEvent.fd = Listener
    BY DEF ListenerEvent, Event
  <2> QED
    BY <2>2, <2>3, <2>4 DEF Sends
<1> QED
  BY <1>3, <1>4, <1>5 DEF EdgeInv

-----------------------------------------------------------------------------
(* process_message() *)

\* The bounds of TypeOK, which Shape does not give.
Limits ==
    /\ \A s \in Slots :
          /\ clients[s].rbuf_len \in -MaxUnits..RbufSize
          /\ Len(clients[s].rbuf) <= RbufSize /\ Len(clients[s].sbuf) <= SbufSize
    /\ logged \subseteq Users /\ missed \in BOOLEAN
    /\ at \in {"events", "accept", "serve", "ack", "write", "down"}
    /\ ready \subseteq Slots \cup {Listener}
    /\ \A c \in Conns : Len(sock[c].tx) <= SockCap

LEMMA LimitsType ==
  ASSUME Shape', Limits'
  PROVE  TypeOK'
<1>1. \A s \in Slots : clients'[s] \in SlotType
  BY DEF Shape
<1>2. \A c \in Conns : sock'[c] \in SockType
  BY DEF Shape
<1>3. \A e \in batch' \cup {cur'} : e.fd \in Slots \cup {Listener}
  BY DEF Shape, EventType
<1>4. ASSUME NEW s \in Slots
      PROVE  /\ clients'[s].conn \in Conns \cup {Nobody}
             /\ clients'[s].active \in BOOLEAN /\ clients'[s].out \in BOOLEAN
             /\ clients'[s].username \in Users \cup {NoUser}
             /\ clients'[s].status \in Statuses
  BY <1>1 DEF SlotType
<1>5. ASSUME NEW c \in Conns
      PROVE  /\ sock'[c].state \in {"none", "backlog", "open", "closed"}
             /\ sock'[c].client \in {"open", "closed", "dead"} /\ sock'[c].budget \in Nat
  BY <1>2 DEF SockType
<1> QED
  BY <1>3, <1>4, <1>5 DEF TypeOK, Limits

LEMMA FreeSlotEmptied == Emptied(FreeSlot)
<1>1. 0 \in -MaxUnits..0
  BY DEF MaxUnits
<1>2. <<>> \in Seq(UnitOf(Request)) /\ <<>> \in Seq(UnitOf(Text))
  OBVIOUS
<1> QED
  BY <1>1, <1>2 DEF FreeSlot, Emptied, SlotType, Statuses

\* A slot with something in rbuf is in use; one that is logged in, too.
LEMMA BusyInUse ==
  ASSUME IInv, NEW s \in Slots, clients[s].active \/ Complete(clients[s].rbuf)
  PROVE  InUse(s)
  BY DEF IInv, SlotInv, Complete

\* The message at the head of rbuf is whole.
LEMMA HeadLemma ==
  ASSUME IInv, NEW s \in Slots, Complete(clients[s].rbuf)
  PROVE  /\ Msg(s) \in Request /\ clients[s].rbuf \in Seq(UnitOf(Request))
         /\ clients[s].rbuf[1].n \in 1..MaxUnits
         /\ clients[s].rbuf[1].n \in 0..Len(clients[s].rbuf)
<1> DEFINE b == clients[s].rbuf
<1>1. b \in Seq(UnitOf(Request))
  BY DEF IInv, Shape, SlotType
<1>2. b # <<>> /\ Len(b) >= b[1].n
  BY DEF Complete
<1> HIDE DEF b
<1>3. b[1] \in UnitOf(Request)
  BY <1>1, <1>2
<1>4. b[1].n \in 1..MaxUnits /\ b[1].m \in Request /\ Len(b) \in Nat
  BY <1>1, <1>3 DEF UnitOf
<1>5. b[1].n \in 0..Len(b)
  BY <1>2, <1>4 DEF MaxUnits
<1> QED
  BY <1>1, <1>4, <1>5 DEF b, Msg

LEMMA TakenLemma ==
  ASSUME IInv, NEW s \in Slots, Complete(clients[s].rbuf)
  PROVE  /\ Like(Taken(s), s)
         /\ Taken(s)[s].rbuf = Drop(clients[s].rbuf, clients[s].rbuf[1].n)
         /\ Taken(s)[s].rbuf_len = clients[s].rbuf_len - clients[s].rbuf[1].n
<1>1. /\ Drop(clients[s].rbuf, clients[s].rbuf[1].n) \in Seq(UnitOf(Request))
  BY HeadLemma, DropType
<1>2. clients \in [Slots -> SlotType]
  BY DEF IInv, Shape
<1>3. clients[s].rbuf_len \in Int
  BY <1>2 DEF SlotType
<1>4. clients[s].rbuf_len - clients[s].rbuf[1].n \in Int
  BY <1>3, HeadLemma DEF MaxUnits
<1>5. Taken(s) = [clients EXCEPT ![s] = [clients[s] EXCEPT
                    !.rbuf = Drop(clients[s].rbuf, clients[s].rbuf[1].n),
                    !.rbuf_len = clients[s].rbuf_len - clients[s].rbuf[1].n]]
  BY <1>2 DEF Taken, SlotType
<1> QED
  BY <1>1, <1>2, <1>4, <1>5 DEF Like, SlotType

LEMMA AnswerLemma ==
  ASSUME IInv, NEW s \in Slots, NEW t \in Slots, InUse(t), NEW table, Like(table, s),
         NEW m \in Text, Answer(table, t, m)
  PROVE  Sends(s, {}) /\ Core(clients'[s]) = Core(table[s])
<1>1. SendAll(table, Only(t, m), {}, FreeSlot)
  BY DEF Answer
<1>2. DOMAIN Only(t, m) = {t} /\ Only(t, m)[t] = m
  BY DEF Only
<1>3. DOMAIN Only(t, m) \subseteq Slots \ {}
  BY <1>2
<1>4. \A r \in DOMAIN Only(t, m) : Only(t, m)[r] \in Text /\ InUse(r)
  BY <1>2
<1>5. {} \in SUBSET {s}
  OBVIOUS
<1> QED
  BY <1>1, <1>3, <1>4, <1>5, FreeSlotEmptied, SendsLemma

\* What process_message() does to the slot whose message it is.
Processed(s, gone) ==
    /\ Sends(s, gone) /\ logged' \subseteq Users
    /\ \/ gone = {s} /\ at' = "serve"
       \/ /\ gone = {} /\ at' = "serve"
          /\ clients'[s].rbuf = Drop(clients[s].rbuf, clients[s].rbuf[1].n)
          /\ clients'[s].rbuf_len = clients[s].rbuf_len - clients[s].rbuf[1].n
       \/ /\ gone = {} /\ at' = "ack"
          /\ clients'[s].rbuf = clients[s].rbuf /\ clients'[s].rbuf_len = clients[s].rbuf_len

\* A message is taken out of rbuf and answered.
LEMMA AnsweredLemma ==
  ASSUME IInv, NEW s \in Slots, Complete(clients[s].rbuf),
         NEW table, Like(table, s), table[s].rbuf = Taken(s)[s].rbuf,
         table[s].rbuf_len = Taken(s)[s].rbuf_len,
         NEW m \in Text, Answer(table, s, m), logged' \subseteq Users, at' = "serve"
  PROVE  Processed(s, {})
<1>1. Sends(s, {}) /\ Core(clients'[s]) = Core(table[s])
  BY BusyInUse, AnswerLemma
<1> QED
  BY <1>1, TakenLemma DEF Processed, Core

LEMMA ProcessLemma ==
  ASSUME IInv, NEW s \in Slots, process_message(s)
  PROVE  /\ at \in {"serve", "ack"} /\ s = cur.fd /\ Complete(clients[s].rbuf) /\ InUse(s)
         /\ \E gone \in SUBSET {s} : Processed(s, gone)
<1>1. at \in {"serve", "ack"} /\ s = cur.fd /\ Complete(clients[s].rbuf)
  <2>1. CASE process_private_ack(s)
    BY <2>1 DEF process_private_ack, IInv, BatchInv
  <2>2. CASE ~process_private_ack(s)
    BY <2>2 DEF process_message, process_login, process_logout, process_broadcast, process_private,
                process_status, process_plain, Processes
  <2> QED
    BY <2>1, <2>2
<1>2. InUse(s)
  BY <1>1, BusyInUse
<1>3. logged \subseteq Users /\ Msg(s) \in Request /\ Msg(s).from \in Users
  <2>1. Msg(s) \in Request
    BY <1>1, HeadLemma
  <2> QED
    BY <2>1 DEF IInv, TypeOK, Request
<1>4. /\ Like(Taken(s), s) /\ Like(clients, s)
  BY <1>1, TakenLemma DEF Like, IInv, Shape
<1>5. {"ack", "err", "list", "hist", "nohist", "bcast", "left", "disc", "priv"} \subseteq Text
  BY DEF Text, Reply, Push
<1> SUFFICES Processed(s, {}) \/ Processed(s, {s})
  BY <1>1, <1>2
<1>6. CASE process_login(s)
  <2>1. at' = "serve" /\ logged' = logged
    BY <1>6 DEF process_login, Processes
  <2>2. CASE Answer(Taken(s), s, "err")
    BY <1>1, <1>3, <1>4, <1>5, <2>1, <2>2, AnsweredLemma
  <2>3. CASE ~Answer(Taken(s), s, "err")
    <3> DEFINE table == [Taken(s) EXCEPT ![s].username = Msg(s).from, ![s].active = TRUE,
                                         ![s].status = "available"]
    <3>1. Answer(table, s, "ack")
      BY <1>6, <2>3 DEF process_login
    <3>2. Like(table, s) /\ table[s].rbuf = Taken(s)[s].rbuf /\ table[s].rbuf_len = Taken(s)[s].rbuf_len
      <4> DEFINE t == Taken(s)
                 new == [t[s] EXCEPT !.username = Msg(s).from, !.active = TRUE, !.status = "available"]
      <4>1. t \in [Slots -> SlotType] /\ Like(t, s)
        BY <1>4 DEF Like
      <4> HIDE DEF t
      <4>2. t[s] \in SlotType /\ table = [t EXCEPT ![s] = new]
        BY <4>1 DEF t
      <4>3. new \in SlotType /\ new = [t[s] EXCEPT !.username = Msg(s).from, !.active = TRUE,
                                                 !.status = "available"]
        BY <1>3, <4>2 DEF SlotType, Statuses
      <4>4. /\ new.conn = t[s].conn /\ new.sbuf = t[s].sbuf /\ new.out = t[s].out
            /\ new.rbuf = t[s].rbuf /\ new.rbuf_len = t[s].rbuf_len
        BY <4>2, <4>3 DEF SlotType
      <4> HIDE DEF new, table
      <4>5. table \in [Slots -> SlotType] /\ table[s] = new /\ \A r \in Slots \ {s} : table[r] = t[r]
        BY <4>1, <4>2, <4>3
      <4> QED
        BY <4>1, <4>4, <4>5 DEF Like, t
    <3> HIDE DEF table
    <3> QED
      BY <1>1, <1>3, <1>5, <2>1, <3>1, <3>2, AnsweredLemma
  <2> QED
    BY <2>2, <2>3
<1>7. CASE process_logout(s)
  <2> DEFINE left == [FreeSlot EXCEPT !.rbuf_len = @ - clients[s].rbuf[1].n]
             msgs == bcast_note(s, "left")
  <2>1. at' = "serve" /\ logged' = logged /\ SendAll(clients, msgs, {s}, left)
    BY <1>7 DEF process_logout, Processes
  <2>2. Emptied(left)
    <3>1. clients[s].rbuf[1].n \in 1..MaxUnits
      BY <1>1, HeadLemma
    <3>2. 0 - clients[s].rbuf[1].n \in -MaxUnits..0
      BY <3>1 DEF MaxUnits
    <3>3. 0 - clients[s].rbuf[1].n \in Int
      BY <3>2
    <3>4. left = [FreeSlot EXCEPT !.rbuf_len = 0 - clients[s].rbuf[1].n]
      BY DEF FreeSlot
    <3> QED
      BY <3>2, <3>3, <3>4, FreeSlotEmptied DEF Emptied, SlotType
  <2>3. /\ DOMAIN msgs \subseteq Slots \ {s}
        /\ \A r \in DOMAIN msgs : msgs[r] \in Text /\ InUse(r)
    BY <1>5, BusyInUse DEF bcast_note
  <2> HIDE DEF left, msgs
  <2>4. Sends(s, {s})
    BY <1>4, <2>1, <2>2, <2>3, SendsLemma
  <2> QED
    BY <1>3, <2>1, <2>4 DEF Processed
<1>8. CASE process_broadcast(s)
  <2>1. at' = "serve"
    BY <1>8 DEF process_broadcast, Processes
  <2>2. CASE clients[s].active
    <3> DEFINE msgs == [r \in {r \in Slots : clients[r].active} |-> IF r = s THEN "ack" ELSE "bcast"]
    <3>1. save_history(Msg(s).from) /\ SendAll(Taken(s), msgs, {}, FreeSlot)
      BY <1>8, <2>2 DEF process_broadcast
    <3>2. logged' \subseteq Users
      BY <1>3, <3>1 DEF save_history
    <3>3. /\ DOMAIN msgs \subseteq Slots \ {} /\ {} \in SUBSET {s}
          /\ \A r \in DOMAIN msgs : msgs[r] \in Text /\ InUse(r)
      BY <1>5, BusyInUse
    <3> HIDE DEF msgs
    <3>4. Sends(s, {}) /\ Core(clients'[s]) = Core(Taken(s)[s])
      BY <1>4, <3>1, <3>3, FreeSlotEmptied, SendsLemma
    <3> QED
      BY <1>1, <2>1, <3>2, <3>4, TakenLemma DEF Processed, Core
  <2>3. CASE ~clients[s].active
    <3>1. Answer(Taken(s), s, "err") /\ logged' = logged
      BY <1>8, <2>3 DEF process_broadcast
    <3> QED
      BY <1>1, <1>3, <1>4, <1>5, <2>1, <3>1, AnsweredLemma
  <2> QED
    BY <2>2, <2>3
<1>9. CASE process_private(s)
  <2>1. CASE \E t \in Slots : /\ clients[s].active /\ find_by_user(Msg(s).arg, t)
                              /\ save_history(Msg(s).from) /\ Answer(clients, t, "priv")
                              /\ at' = "ack"
    <3>1. PICK t \in Slots : /\ clients[t].active /\ save_history(Msg(s).from)
                             /\ Answer(clients, t, "priv") /\ at' = "ack"
      BY <2>1 DEF find_by_user
    <3>2. Sends(s, {}) /\ Core(clients'[s]) = Core(clients[s])
      BY <1>4, <1>5, <3>1, BusyInUse, AnswerLemma
    <3>3. logged' \subseteq Users
      BY <1>3, <3>1 DEF save_history
    <3> QED
      BY <3>1, <3>2, <3>3 DEF Processed, Core
  <2>2. CASE Answer(Taken(s), s, "err") /\ UNCHANGED <<logged, at>>
    <3>1. at' = "serve" /\ logged' = logged
      BY <1>9, <2>2 DEF process_private, Processes
    <3> QED
      BY <1>1, <1>3, <1>4, <1>5, <2>2, <3>1, AnsweredLemma
  <2> QED
    BY <1>9, <2>1, <2>2 DEF process_private
<1>10. CASE process_private_ack(s)
  <2>1. Answer(Taken(s), s, "ack") /\ at' = "serve" /\ logged' = logged
    BY <1>10 DEF process_private_ack
  <2> QED
    BY <1>1, <1>3, <1>4, <1>5, <2>1, AnsweredLemma
<1>11. CASE process_status(s)
  <2> DEFINE table == [Taken(s) EXCEPT ![s].status = Msg(s).arg]
  <2>1. Answer(table, s, "ack") /\ at' = "serve" /\ logged' = logged /\ Msg(s).kind = "STATUS"
    BY <1>11 DEF process_status, Processes, Msg
  <2>2. Msg(s).arg \in Statuses
    BY <1>3, <2>1 DEF Request
  <2>3. Like(table, s) /\ table[s].rbuf = Taken(s)[s].rbuf /\ table[s].rbuf_len = Taken(s)[s].rbuf_len
    BY <1>4, <2>2 DEF Like, SlotType
  <2> HIDE DEF table
  <2> QED
    BY <1>1, <1>3, <1>5, <2>1, <2>3, AnsweredLemma
<1>12. CASE process_plain(s)
  <2> DEFINE m == CASE Msg(s).kind = "LIST" -> "list"
                    [] Msg(s).kind = "UNKNOWN" -> "err"
                    [] OTHER -> IF Msg(s).from \in logged THEN "hist" ELSE "nohist"
  <2>1. Answer(Taken(s), s, m) /\ at' = "serve" /\ logged' = logged
    BY <1>12 DEF process_plain, Processes
  <2>2. m \in Text
    BY <1>5
  <2> HIDE DEF m
  <2> QED
    BY <1>1, <1>3, <1>4, <2>1, <2>2, AnsweredLemma
<1> QED
  BY <1>6, <1>7, <1>8, <1>9, <1>10, <1>11, <1>12 DEF process_message

\* process_message() keeps the invariant.
LEMMA ProcessStep ==
  ASSUME IInv, NEW s \in Slots, process_message(s)
  PROVE  IInv'
<1>1. at \in {"serve", "ack"} /\ s = cur.fd /\ Complete(clients[s].rbuf) /\ InUse(s)
  BY ProcessLemma
<1>2. PICK gone \in SUBSET {s} : Processed(s, gone)
  BY ProcessLemma
<1>3. Sends(s, gone) /\ batch' = batch /\ cur' = cur /\ missed' = missed
  BY <1>2 DEF Processed, process_message
<1>4. at' \in {"serve", "ack"} /\ (at' = "ack" => s \notin gone)
  BY <1>2 DEF Processed
<1>5. \A e \in batch : e.fd # s
  BY <1>1 DEF IInv, BatchInv
<1>6. Shape'
  BY <1>3 DEF Shape, Sends, IInv
<1>7. /\ clients[s].rbuf \in Seq(UnitOf(Request)) /\ clients[s].rbuf[1].n \in 1..MaxUnits
      /\ clients[s].rbuf[1].n \in 0..Len(clients[s].rbuf)
  BY <1>1, HeadLemma
<1>8. /\ clients[s].rbuf_len = Len(clients[s].rbuf) /\ clients[s].rbuf_len < RbufSize
      /\ Len(clients[s].rbuf) \in Nat /\ RbufSize \in Nat
  BY <1>1, <1>7, EpollAssumption DEF IInv, RbufLenExact
<1>9. s \notin gone => /\ clients'[s].rbuf_len = Len(clients'[s].rbuf)
                       /\ clients'[s].rbuf_len < RbufSize /\ Len(clients'[s].rbuf) \in Nat
  <2>1. CASE s \in gone
    BY <2>1
  <2>2. CASE /\ clients'[s].rbuf = clients[s].rbuf /\ clients'[s].rbuf_len = clients[s].rbuf_len
    BY <1>8, <2>2
  <2>3. CASE /\ clients'[s].rbuf = Drop(clients[s].rbuf, clients[s].rbuf[1].n)
             /\ clients'[s].rbuf_len = clients[s].rbuf_len - clients[s].rbuf[1].n
    <3>1. Len(clients'[s].rbuf) = Len(clients[s].rbuf) - clients[s].rbuf[1].n
      BY <1>7, <2>3, DropType
    <3>2. clients[s].rbuf[1].n \in Nat /\ clients[s].rbuf[1].n <= Len(clients[s].rbuf)
      BY <1>7, <1>8
    <3> QED
      BY <1>8, <2>3, <3>1, <3>2
  <2> QED
    BY <1>2, <2>1, <2>2, <2>3 DEF Processed
<1>10. \A r \in Slots \ {s} : clients'[r].rbuf = clients[r].rbuf /\ clients'[r].rbuf_len = clients[r].rbuf_len
  BY <1>3 DEF Sends, Core
<1>11. SlotInv'
  BY <1>1, <1>3, SendsSlots
<1>12. RbufLenExact'
  <2> SUFFICES ASSUME NEW r \in Slots, InUse(r)'
               PROVE  clients'[r].rbuf_len = Len(clients'[r].rbuf) /\ clients'[r].rbuf_len < RbufSize
    BY DEF RbufLenExact
  <2>1. r \notin gone /\ InUse(r)
    BY <1>3 DEF Sends, Emptied, InUse
  <2> QED
    BY <1>9, <1>10, <2>1 DEF IInv, RbufLenExact
<1>13. NothingLeftInRbuf'
  <2> SUFFICES ASSUME NEW r \in Slots, r # s PROVE ~Complete(clients'[r].rbuf)
    BY <1>1, <1>3, <1>4 DEF NothingLeftInRbuf
  <2> QED
    BY <1>1, <1>10 DEF IInv, NothingLeftInRbuf
<1>14. BatchInv'
  <2>1. \A r \in Slots \ {s} : InUse(r)' <=> InUse(r)
    BY <1>3 DEF Sends, Core, InUse
  <2>2. \A r \in Slots : InUse(r)' => clients'[r].conn = clients[r].conn
    BY <1>3 DEF Sends, Emptied, InUse
  <2>3. InUse(s)' => clients'[s].conn = cur.for
    BY <1>1, <2>2 DEF IInv, BatchInv
  <2>4. \A e \in batch : e.fd \in Slots => InUse(e.fd)' /\ clients'[e.fd].conn = e.for
    BY <1>5, <2>1, <2>2 DEF IInv, BatchInv
  <2>5. at' = "ack" => Complete(clients'[s].rbuf)
    BY <1>1, <1>2 DEF Processed
  <2> QED
    BY <1>1, <1>3, <1>4, <1>5, <2>3, <2>4, <2>5 DEF IInv, BatchInv
<1>15. EdgeInv'
  BY <1>1, <1>3, <1>4, SendsEdge
<1>16. Limits'
  <2>1. ASSUME NEW r \in Slots
        PROVE  /\ clients'[r].rbuf_len \in -MaxUnits..RbufSize
               /\ Len(clients'[r].rbuf) <= RbufSize /\ Len(clients'[r].sbuf) <= SbufSize
    <3>1. Len(clients'[r].sbuf) <= SbufSize
      BY <1>3 DEF Sends
    <3>2. CASE r # s
      BY <1>10, <3>1, <3>2 DEF IInv, TypeOK
    <3>3. CASE r = s /\ s \in gone
      <4>1. Emptied(clients'[r])
        BY <1>3, <3>3 DEF Sends
      <4>2. clients'[r].rbuf_len \in -MaxUnits..0
        BY <4>1 DEF Emptied
      <4>3. clients'[r].rbuf_len \in -MaxUnits..RbufSize
        BY <1>8, <4>2 DEF MaxUnits
      <4> QED
        BY <3>1, <4>1, <4>3, EmptiedLength
    <3>4. CASE r = s /\ s \notin gone
      BY <1>8, <1>9, <3>1, <3>4 DEF MaxUnits
    <3> QED
      BY <3>2, <3>3, <3>4
  <2>2. missed' \in BOOLEAN /\ logged' \subseteq Users
    BY <1>2, <1>3 DEF IInv, TypeOK, Processed
  <2>3. ready' \subseteq Slots \cup {Listener} /\ \A c \in Conns : Len(sock'[c].tx) <= SockCap
    BY <1>3 DEF Sends
  <2> QED
    BY <1>4, <2>1, <2>2, <2>3 DEF Limits
<1>17. TypeOK'
  BY <1>6, <1>16, LimitsType
<1> QED
  BY <1>6, <1>11, <1>12, <1>13, <1>14, <1>15, <1>17 DEF IInv

-----------------------------------------------------------------------------
(* disconnect_client() *)

\* disconnect_client() tells the others and closes the slot.
LEMMA DisconnectSends ==
  ASSUME IInv, NEW s \in Slots, disconnect_client(s)
  PROVE  Sends(s, {s})
<1> DEFINE msgs == IF clients[s].active THEN bcast_note(s, "disc") ELSE <<>>
<1>1. SendAll(clients, msgs, {s}, FreeSlot)
  BY DEF disconnect_client
<1>2. /\ DOMAIN msgs \subseteq Slots \ {s}
      /\ \A r \in DOMAIN msgs : msgs[r] \in Text /\ InUse(r)
  <2>1. CASE clients[s].active
    BY <2>1, BusyInUse DEF bcast_note, Text, Push
  <2>2. CASE ~clients[s].active
    <3>1. DOMAIN msgs = {}
      BY <2>2
    <3> QED
      BY <3>1
  <2> QED
    BY <2>1, <2>2
<1> HIDE DEF msgs
<1>3. Like(clients, s)
  BY DEF Like, IInv, Shape
<1> QED
  BY <1>1, <1>2, <1>3, FreeSlotEmptied, SendsLemma

LEMMA DisconnectStep ==
  ASSUME IInv, NEW s \in Slots, InUse(s), disconnect_client(s),
         at \in {"events", "write"}, at = "write" => cur.fd = s,
         \A e \in EventType : e \in batch' <=> e \in batch /\ e.fd # s, batch' \subseteq batch,
         \/ at' = "events" /\ cur' = NoEvent
         \/ at' = "write" /\ cur' \in EventType /\ cur'.fd = s,
         logged' = logged, missed' = missed
  PROVE  IInv'
<1>4. Sends(s, {s})
  BY DisconnectSends
<1>5. NoEvent \in EventType /\ batch \subseteq EventType
  BY DEF NoEvent, Event, EventType, Listener, IInv, Shape
<1>6. Shape'
  BY <1>4, <1>5 DEF Shape, Sends
<1>7. Emptied(clients'[s]) /\ ~InUse(s)'
  BY <1>4 DEF Sends, Emptied, InUse
<1>8. \A r \in Slots \ {s} : /\ clients'[r].rbuf = clients[r].rbuf
                             /\ clients'[r].rbuf_len = clients[r].rbuf_len
                             /\ clients'[r].conn = clients[r].conn
  BY <1>4 DEF Sends, Core
<1>9. \A r \in Slots : ~Complete(clients[r].rbuf)
  BY DEF IInv, NothingLeftInRbuf
<1>10. SlotInv'
  BY <1>4, SendsSlots
<1>11. EdgeInv'
  BY <1>4, <1>5, SendsEdge
<1>12. RbufLenExact'
  BY <1>7, <1>8 DEF IInv, RbufLenExact, InUse
<1>13. NothingLeftInRbuf'
  <2>1. ~Complete(clients'[s].rbuf)
    BY <1>7 DEF Emptied, Complete
  <2> QED
    BY <1>8, <1>9, <2>1 DEF NothingLeftInRbuf
<1>14. BatchInv'
  <2>1. \A e \in batch' : e \in batch /\ e.fd # s
    BY <1>5
  <2>2. \A e \in batch' : e.fd \in Slots => InUse(e.fd)' /\ clients'[e.fd].conn = e.for
    BY <1>8, <2>1 DEF IInv, BatchInv, InUse
  <2> QED
    BY <1>7, <2>1, <2>2 DEF IInv, BatchInv
<1>15. Limits'
  <2>1. ASSUME NEW r \in Slots
        PROVE  /\ clients'[r].rbuf_len \in -MaxUnits..RbufSize
               /\ Len(clients'[r].rbuf) <= RbufSize /\ Len(clients'[r].sbuf) <= SbufSize
    <3>1. CASE r # s
      BY <1>4, <1>8, <3>1 DEF IInv, TypeOK, Sends
    <3>2. CASE r = s
      <4>1. clients'[r].rbuf_len \in -MaxUnits..0
        BY <1>7, <3>2 DEF Emptied
      <4>2. clients'[r].rbuf_len \in -MaxUnits..RbufSize
        BY <4>1, EpollAssumption DEF MaxUnits
      <4> QED
        BY <1>7, <3>2, <4>2, EmptiedLength
    <3> QED
      BY <3>1, <3>2
  <2>2. missed' \in BOOLEAN /\ logged' \subseteq Users
    BY DEF IInv, TypeOK
  <2>3. ready' \subseteq Slots \cup {Listener} /\ \A c \in Conns : Len(sock'[c].tx) <= SockCap
    BY <1>4 DEF Sends
  <2> QED
    BY <2>1, <2>2, <2>3 DEF Limits
<1>16. TypeOK'
  BY <1>6, <1>15, LimitsType
<1> QED
  BY <1>6, <1>10, <1>11, <1>12, <1>13, <1>14, <1>16 DEF IInv

-----------------------------------------------------------------------------
(* The clients and the network *)

\* A step of the client of connection c: what there is to read, to write or to
\* accept afterwards was there before, or has been reported.
LEMMA ClientStep ==
  ASSUME IInv, UNCHANGED server, NEW c \in Conns, NEW new \in SockType,
         sock' = [sock EXCEPT ![c] = new], Len(new.tx) <= SockCap,
         ready \subseteq ready', ready' \subseteq Slots \cup {Listener}, missed' \in BOOLEAN,
         missed => missed' \/ Listener \in ready',
         \/ new.state = sock[c].state
         \/ sock[c].state = "none" /\ new.state = "backlog" /\ Listener \in ready',
         Input(new) => Input(sock[c]) \/ \A s \in Slots : clients[s].conn = c => s \in ready',
         Len(new.tx) < SockCap =>
            \/ Len(sock[c].tx) < SockCap
            \/ \A s \in Slots : clients[s].conn = c /\ clients[s].out => s \in ready'
  PROVE  IInv'
<1>1. /\ clients' = clients /\ logged' = logged /\ at' = at /\ batch' = batch /\ cur' = cur
  BY DEF server
<1>2. sock \in [Conns -> SockType] /\ sock'[c] = new /\ \A d \in Conns \ {c} : sock'[d] = sock[d]
  BY DEF IInv, Shape
<1>3. Shape'
  BY <1>1, <1>2 DEF IInv, Shape
<1>4. Limits'
  BY <1>1, <1>2 DEF Limits, IInv, TypeOK
<1>5. \A s \in Slots : InUse(s)' <=> InUse(s)
  BY <1>1 DEF InUse
<1>6. \A s \in Slots : InUse(s) => clients[s].conn \in Conns
  BY DEF IInv, TypeOK, InUse
<1>7. SlotInv'
  <2>1. ASSUME at # "down", NEW s \in Slots, InUse(s) PROVE Sock(s)'.state = "open"
    <3>1. Sock(s).state = "open"
      BY <2>1 DEF IInv, SlotInv
    <3>2. sock[clients[s].conn].state = "open" /\ Sock(s)' = sock'[clients[s].conn]
      BY <1>1, <3>1 DEF Sock
    <3> QED
      BY <1>2, <1>6, <2>1, <3>2
  <2> QED
    BY <1>1, <1>5, <2>1 DEF IInv, SlotInv
<1>8. BatchInv' /\ RbufLenExact' /\ NothingLeftInRbuf'
  BY <1>1, <1>5 DEF IInv, BatchInv, RbufLenExact, NothingLeftInRbuf
<1>9. EdgeInv'
  <2> SUFFICES ASSUME at # "down" PROVE EdgeInv'
    BY <1>1 DEF EdgeInv
  <2>1. \A s \in Slots : (InputDue(s) \/ s \in ready' => InputDue(s)')
                         /\ (OutputDue(s) \/ s \in ready' => OutputDue(s)')
    BY <1>1 DEF InputDue, OutputDue
  <2>2. ASSUME NEW s \in Slots, InUse(s), Input(Sock(s))'
        PROVE  InputDue(s)'
    <3>1. Sock(s) = sock[clients[s].conn] /\ Sock(s)' = sock'[clients[s].conn]
      BY <1>1 DEF Sock
    <3>2. Input(Sock(s)) \/ s \in ready'
      BY <1>2, <1>6, <2>2, <3>1 DEF Input, Eof, Dead
    <3>3. Input(Sock(s)) => InputDue(s)
      BY <2>2 DEF IInv, EdgeInv
    <3> QED
      BY <2>1, <3>2, <3>3
  <2>3. ASSUME NEW s \in Slots, InUse(s), clients[s].sbuf # <<>>
        PROVE  clients[s].out /\ (Len(Sock(s)'.tx) < SockCap => OutputDue(s)')
    <3>1. Sock(s) = sock[clients[s].conn] /\ Sock(s)' = sock'[clients[s].conn]
      BY <1>1 DEF Sock
    <3>2. clients[s].out /\ (Len(Sock(s).tx) < SockCap => OutputDue(s))
      BY <2>3 DEF IInv, EdgeInv
    <3>3. Len(Sock(s)'.tx) < SockCap => Len(Sock(s).tx) < SockCap \/ s \in ready'
      BY <1>2, <1>6, <2>3, <3>1, <3>2
    <3> QED
      BY <2>1, <3>2, <3>3
  <2>4. ASSUME \E d \in Conns : sock'[d].state = "backlog"
        PROVE  Listener \in ready' \/ missed' \/ ListenerEvent \in batch \/ at = "accept"
    <3>1. (\E d \in Conns : sock[d].state = "backlog") \/ Listener \in ready'
      BY <1>2, <2>4
    <3> QED
      BY <3>1 DEF IInv, EdgeInv
  <2> QED
    BY <1>1, <1>5, <2>2, <2>3, <2>4 DEF EdgeInv
<1>10. TypeOK'
  BY <1>3, <1>4, LimitsType
<1> QED
  BY <1>3, <1>7, <1>8, <1>9, <1>10 DEF IInv

\* Change() is such a step when it wakes the descriptor for what it adds.
LEMMA ChangeStep ==
  ASSUME IInv, NEW c \in Conns, NEW new \in SockType, NEW wake \in BOOLEAN,
         Change(c, new, wake), UNCHANGED missed, new.state = sock[c].state, Len(new.tx) <= SockCap,
         Input(new) => Input(sock[c]) \/ wake,
         Len(new.tx) < SockCap =>
            \/ Len(sock[c].tx) < SockCap \/ wake
            \/ \A s \in Slots : ~(clients[s].conn = c /\ clients[s].out)
  PROVE  IInv'
<1>1. /\ sock' = [sock EXCEPT ![c] = new] /\ UNCHANGED server
      /\ ready' = ready \cup {s \in Slots : wake /\ clients[s].conn = c}
  BY DEF Change
<1>2. missed' \in BOOLEAN /\ missed' = missed /\ ready \subseteq Slots \cup {Listener}
  BY DEF IInv, TypeOK
<1>3. ready \subseteq ready' /\ ready' \subseteq Slots \cup {Listener}
  BY <1>1, <1>2
<1>4. Input(new) => Input(sock[c]) \/ \A s \in Slots : clients[s].conn = c => s \in ready'
  BY <1>1
<1>5. Len(new.tx) < SockCap =>
         \/ Len(sock[c].tx) < SockCap
         \/ \A s \in Slots : clients[s].conn = c /\ clients[s].out => s \in ready'
  BY <1>1
<1>6. missed => missed' \/ Listener \in ready'
  BY <1>2
<1> QED
  BY <1>1, <1>2, <1>3, <1>4, <1>5, <1>6, ClientStep

\* What a client sends is well-formed.
LEMMA RequestsType ==
  ASSUME NEW c \in Conns
  PROVE  Requests(c) \subseteq Request
  BY ProtocolAssumption DEF Requests, Request

LEMMA ClientsStep ==
  ASSUME IInv, NEW c \in Conns,
         \/ client_connect(c) \/ client_send(c) \/ arrive(c)
         \/ client_read(c) \/ client_close(c) \/ client_reset(c)
  PROVE  IInv'
<1> DEFINE k == sock[c]
<1>1. k \in SockType /\ Len(k.tx) <= SockCap /\ missed \in BOOLEAN
  BY DEF IInv, Shape, TypeOK
<1>2. /\ k.tx \in Seq(UnitOf(Text)) /\ k.part \in Seq(UnitOf(Text))
      /\ k.way \in Seq(UnitOf(Request)) /\ k.rx \in Seq(UnitOf(Request)) /\ k.budget \in Nat
      /\ Len(k.tx) \in Nat /\ SockCap \in Nat
  BY <1>1, EpollAssumption DEF SockType
<1>3. CASE client_connect(c)
  <2> DEFINE new == [k EXCEPT !.state = "backlog"]
  <2>1. /\ sock' = [sock EXCEPT ![c] = new] /\ ready' = ready \cup {Listener} /\ missed' = FALSE
        /\ UNCHANGED server /\ k.state = "none"
    BY <1>3 DEF client_connect
  <2>2. /\ new \in SockType /\ new.tx = k.tx /\ new.state = "backlog"
        /\ Input(new) => Input(k)
    BY <1>1 DEF SockType, Input, Eof, Dead
  <2>3. /\ ready \subseteq ready' /\ Listener \in ready' /\ ready' \subseteq Slots \cup {Listener}
        /\ missed' \in BOOLEAN
    BY <2>1 DEF IInv, TypeOK
  <2> HIDE DEF new
  <2> QED
    BY <1>1, <2>1, <2>2, <2>3, ClientStep
<1>4. CASE client_send(c)
  <2>1. PICK m \in Requests(c) :
           Change(c, [k EXCEPT !.rx = Append(@, Units(m.kind, m)[1]), !.way = Tail(Units(m.kind, m)),
                               !.budget = @ - 1], TRUE)
    BY <1>4 DEF client_send
  <2>2. k.budget > 0 /\ UNCHANGED missed
    BY <1>4 DEF client_send
  <2> DEFINE u == Units(m.kind, m)
  <2>3. u \in Seq(UnitOf(Request)) /\ Len(u) \in 1..MaxUnits
    BY RequestsType, UnitsType
  <2> HIDE DEF u
  <2>4. u[1] \in UnitOf(Request) /\ Tail(u) \in Seq(UnitOf(Request))
    BY <2>3 DEF MaxUnits
  <2> DEFINE new == [k EXCEPT !.rx = Append(@, u[1]), !.way = Tail(u), !.budget = @ - 1]
  <2>5. Append(k.rx, u[1]) \in Seq(UnitOf(Request)) /\ k.budget - 1 \in Nat
    BY <1>2, <2>2, <2>4
  <2>6. new \in SockType /\ new.tx = k.tx /\ new.state = k.state
    BY <1>1, <2>4, <2>5 DEF SockType
  <2>7. Change(c, new, TRUE)
    BY <2>1 DEF u
  <2> HIDE DEF new
  <2> QED
    BY <1>1, <2>2, <2>6, <2>7, ChangeStep
<1>5. CASE arrive(c)
  <2> DEFINE new == [k EXCEPT !.rx = Append(@, k.way[1]), !.way = Tail(@)]
  <2>1. k.way # <<>> /\ Change(c, new, TRUE) /\ UNCHANGED missed
    BY <1>5 DEF arrive
  <2>2. Append(k.rx, k.way[1]) \in Seq(UnitOf(Request)) /\ Tail(k.way) \in Seq(UnitOf(Request))
    BY <1>2, <2>1
  <2>3. new \in SockType /\ new.tx = k.tx /\ new.state = k.state
    BY <1>1, <2>2 DEF SockType
  <2> HIDE DEF new
  <2> QED
    BY <1>1, <2>1, <2>3, ChangeStep
<1>6. CASE client_read(c)
  <2> DEFINE p == Append(k.part, k.tx[1])
             new == [k EXCEPT !.tx = Tail(@), !.part = IF Complete(p) THEN <<>> ELSE p]
             wake == Len(k.tx) = SockCap /\ \E s \in Slots : clients[s].conn = c /\ clients[s].out
  <2>1. k.tx # <<>> /\ Change(c, new, wake) /\ UNCHANGED missed
    BY <1>6 DEF client_read
  <2>2. p \in Seq(UnitOf(Text)) /\ Tail(k.tx) \in Seq(UnitOf(Text)) /\ Len(Tail(k.tx)) = Len(k.tx) - 1
    BY <1>2, <2>1
  <2> HIDE DEF p
  <2>3. (IF Complete(p) THEN <<>> ELSE p) \in Seq(UnitOf(Text))
    BY <2>2
  <2>4. /\ new \in SockType /\ new.tx = Tail(k.tx) /\ new.state = k.state
        /\ new.rx = k.rx /\ new.client = k.client /\ new.way = k.way
    BY <1>1, <2>2, <2>3 DEF SockType
  <2>5. Input(new) => Input(k)
    BY <2>4 DEF Input, Eof, Dead
  <2>6. Len(new.tx) <= SockCap
    BY <1>1, <1>2, <2>2, <2>4
  <2> HIDE DEF new
  <2>7. \/ Len(k.tx) < SockCap \/ wake
        \/ \A s \in Slots : ~(clients[s].conn = c /\ clients[s].out)
    BY <1>1, <1>2
  <2>8. wake \in BOOLEAN
    OBVIOUS
  <2> HIDE DEF wake
  <2> QED
    BY <2>1, <2>4, <2>5, <2>6, <2>7, <2>8, ChangeStep
<1>7. CASE client_close(c)
  <2> DEFINE new == [k EXCEPT !.client = "closed"]
             wake == k.way = <<>>
  <2>1. Change(c, new, wake) /\ UNCHANGED missed /\ k.client = "open"
    BY <1>7 DEF client_close
  <2>2. /\ new \in SockType /\ new.tx = k.tx /\ new.state = k.state
        /\ Input(new) => Input(k) \/ wake
    BY <1>1, <2>1 DEF SockType, Input, Eof, Dead
  <2>3. wake \in BOOLEAN
    OBVIOUS
  <2> HIDE DEF new, wake
  <2> QED
    BY <1>1, <2>1, <2>2, <2>3, ChangeStep
<1>8. CASE client_reset(c)
  <2> DEFINE new == [k EXCEPT !.client = "dead", !.rx = <<>>, !.way = <<>>, !.tx = <<>>, !.part = <<>>]
  <2>1. Change(c, new, TRUE) /\ UNCHANGED missed
    BY <1>8 DEF client_reset
  <2>2. new \in SockType /\ new.tx = <<>> /\ new.state = k.state
    <3>1. <<>> \in Seq(UnitOf(Request)) /\ <<>> \in Seq(UnitOf(Text))
      OBVIOUS
    <3> QED
      BY <1>1, <3>1 DEF SockType
  <2>3. Len(<<>>) <= SockCap
    BY <1>2
  <2> HIDE DEF new
  <2> QED
    BY <2>1, <2>2, <2>3, ChangeStep
<1> QED
  BY <1>3, <1>4, <1>5, <1>6, <1>7, <1>8

-----------------------------------------------------------------------------
(* Steps that move neither a slot nor a socket *)

\* What such a step must keep.
LEMMA QuietStep ==
  ASSUME IInv, UNCHANGED <<clients, sock, logged>>, at # "down", at' # "down",
         Limits', Shape', BatchInv', NothingLeftInRbuf', EdgeInv'
  PROVE  IInv'
<1>1. \A s \in Slots : (InUse(s)' <=> InUse(s)) /\ Sock(s)' = Sock(s)
  BY DEF InUse, Sock
<1>2. SlotInv' /\ RbufLenExact'
  BY <1>1 DEF IInv, SlotInv, RbufLenExact
<1>3. TypeOK'
  BY LimitsType
<1> QED
  BY <1>2, <1>3 DEF IInv

LEMMA LimitsKept ==
  ASSUME IInv, UNCHANGED <<clients, sock, logged>>, ready' \subseteq ready, missed' \in BOOLEAN,
         at' \in {"events", "accept", "serve", "ack", "write", "down"}
  PROVE  Limits'
  BY DEF IInv, TypeOK, Limits

\* The loop of handle_read() ends.
LEMMA ReadEndsStep ==
  ASSUME IInv, handle_read_ends
  PROVE  IInv'
<1>1. /\ UNCHANGED <<clients, logged, batch, ready, sock, missed>> /\ at = "serve"
      /\ ~Complete(clients[cur.fd].rbuf)
  BY DEF handle_read_ends
<1>2. \/ cur.out /\ at' = "write" /\ cur' = cur
      \/ ~cur.out /\ at' = "events" /\ cur' = NoEvent
  BY DEF handle_read_ends, Then
<1>3. NoEvent \in EventType
  BY DEF NoEvent, Event, EventType, Listener
<1>4. missed \in BOOLEAN
  BY DEF IInv, TypeOK
<1>5. Limits'
  BY <1>1, <1>2, <1>4, LimitsKept
<1>6. Shape'
  BY <1>1, <1>2, <1>3 DEF IInv, Shape
<1>7. \A s \in Slots : (InUse(s)' <=> InUse(s)) /\ Sock(s)' = Sock(s)
  BY <1>1 DEF InUse, Sock
<1>8. BatchInv'
  BY <1>1, <1>2, <1>7 DEF IInv, BatchInv
<1>9. NothingLeftInRbuf'
  BY <1>1 DEF IInv, NothingLeftInRbuf
<1>10. \A s \in Slots : (InputDue(s) => InputDue(s)') /\ (OutputDue(s) => OutputDue(s)')
  BY <1>1, <1>2 DEF InputDue, OutputDue
<1>11. EdgeInv'
  BY <1>1, <1>2, <1>7, <1>10 DEF IInv, EdgeInv, Input, Eof, Dead
<1> QED
  BY <1>1, <1>2, <1>5, <1>6, <1>8, <1>9, <1>11, QuietStep

\* EPOLLOUT alone: handle_write() is next.
LEMMA OtherStep ==
  ASSUME IInv, NEW e \in batch, handle_other(e)
  PROVE  IInv'
<1>1. /\ UNCHANGED <<clients, logged, ready, sock, missed>> /\ at = "events"
      /\ batch' = batch \ {e} /\ e.fd # Listener /\ ~e.hup /\ (e.in => ~InUse(e.fd))
  BY DEF handle_other, Handles
<1>2. \/ e.out /\ at' = "write" /\ cur' = e
      \/ ~e.out /\ at' = "events" /\ cur' = NoEvent
  BY DEF handle_other, Then
<1>3. NoEvent \in EventType /\ e \in EventType /\ e.fd \in Slots
  BY <1>1 DEF NoEvent, Event, EventType, Listener, IInv, Shape
<1>4. InUse(e.fd) /\ clients[e.fd].conn = e.for /\ ~e.in /\ \A f \in batch' : f.fd # e.fd
  BY <1>1, <1>3 DEF IInv, BatchInv
<1>5. Limits'
  BY <1>1, <1>2, LimitsKept DEF IInv, TypeOK
<1>6. Shape'
  BY <1>1, <1>2, <1>3 DEF IInv, Shape
<1>7. \A s \in Slots : (InUse(s)' <=> InUse(s)) /\ Sock(s)' = Sock(s)
  BY <1>1 DEF InUse, Sock
<1>8. BatchInv'
  BY <1>1, <1>2, <1>3, <1>4, <1>7 DEF IInv, BatchInv
<1>9. NothingLeftInRbuf'
  BY <1>1 DEF IInv, NothingLeftInRbuf
<1>10. \A s \in Slots : (InputDue(s) => InputDue(s)') /\ (OutputDue(s) => OutputDue(s)')
  BY <1>1, <1>2, <1>4 DEF InputDue, OutputDue
<1>11. ListenerEvent \in batch => ListenerEvent \in batch'
  BY <1>1 DEF ListenerEvent, Event
<1>12. EdgeInv'
  BY <1>1, <1>2, <1>7, <1>10, <1>11 DEF IInv, EdgeInv, Input, Eof, Dead
<1> QED
  BY <1>1, <1>2, <1>5, <1>6, <1>8, <1>9, <1>12, QuietStep

\* The listener's event: accept() is next, and whoever waits gets its turn.
LEMMA ListenerStep ==
  ASSUME IInv, NEW e \in batch, main_listener(e)
  PROVE  IInv'
<1>1. /\ UNCHANGED <<clients, logged, cur, ready, sock, missed>> /\ at = "events" /\ at' = "accept"
      /\ batch' = batch \ {e} /\ e.fd = Listener
  BY DEF main_listener, Handles
<1>2. Listener \notin Slots
  BY EpollAssumption DEF Listener, Slots
<1>3. Limits'
  BY <1>1, LimitsKept DEF IInv, TypeOK
<1>4. Shape'
  BY <1>1 DEF IInv, Shape
<1>5. \A s \in Slots : (InUse(s)' <=> InUse(s)) /\ Sock(s)' = Sock(s)
  BY <1>1 DEF InUse, Sock
<1>6. BatchInv'
  BY <1>1, <1>5 DEF IInv, BatchInv
<1>7. NothingLeftInRbuf'
  BY <1>1 DEF IInv, NothingLeftInRbuf
<1>8. \A s \in Slots : (InputDue(s) => InputDue(s)') /\ (OutputDue(s) => OutputDue(s)')
  BY <1>1, <1>2 DEF InputDue, OutputDue
<1>9. EdgeInv'
  BY <1>1, <1>5, <1>8 DEF IInv, EdgeInv, Input, Eof, Dead
<1> QED
  BY <1>1, <1>3, <1>4, <1>6, <1>7, <1>9, QuietStep

\* accept() fails: if anybody is left in the backlog, missed says so.
LEMMA AcceptEndsStep ==
  ASSUME IInv, main_accept_ends
  PROVE  IInv'
<1>1. /\ UNCHANGED <<clients, logged, batch, cur, ready, sock>> /\ at = "accept" /\ at' = "events"
      /\ missed' = \E c \in Conns : sock[c].state = "backlog"
  BY DEF main_accept_ends
<1>2. missed' \in BOOLEAN /\ ((\E c \in Conns : sock[c].state = "backlog") => missed')
  BY <1>1
<1>3. Limits'
  BY <1>1, <1>2, LimitsKept
<1>4. Shape'
  BY <1>1 DEF IInv, Shape
<1>5. \A s \in Slots : (InUse(s)' <=> InUse(s)) /\ Sock(s)' = Sock(s)
  BY <1>1 DEF InUse, Sock
<1>6. BatchInv'
  BY <1>1, <1>5 DEF IInv, BatchInv
<1>7. NothingLeftInRbuf'
  BY <1>1 DEF IInv, NothingLeftInRbuf
<1>8. \A s \in Slots : (InputDue(s) => InputDue(s)') /\ (OutputDue(s) => OutputDue(s)')
  BY <1>1 DEF InputDue, OutputDue
<1>9. EdgeInv'
  BY <1>1, <1>2, <1>5, <1>8 DEF IInv, EdgeInv, Input, Eof, Dead
<1> QED
  BY <1>1, <1>3, <1>4, <1>6, <1>7, <1>9, QuietStep

\* epoll_wait(): everything on the ready list that has something to report
\* becomes an event.
LEMMA WaitStep ==
  ASSUME IInv, epoll_wait
  PROVE  IInv'
<1> DEFINE ev(s) == Event(s, clients[s].conn, Input(Sock(s)),
                          clients[s].out /\ Len(Sock(s).tx) < SockCap, Dead(Sock(s)))
           R == {r \in ready \cap Slots : InUse(r) /\ Poll(Sock(r), clients[r].out)}
<1>1. /\ UNCHANGED <<clients, logged, at, cur, sock, missed>> /\ at = "events" /\ batch = {}
      /\ ready' = {}
  BY DEF epoll_wait, Waiting
<1>2. batch' = {ev(s) : s \in R} \cup {e \in {ListenerEvent} : Listener \in ready}
  BY DEF epoll_wait
<1>3. \A s \in Slots : /\ ev(s).fd = s /\ ev(s).for = clients[s].conn
                       /\ ev(s).in = Input(Sock(s)) /\ ev(s).hup = Dead(Sock(s))
                       /\ ev(s).out = (clients[s].out /\ Len(Sock(s).tx) < SockCap)
  BY DEF Event
<1>4. ASSUME NEW s \in Slots, InUse(s) PROVE ev(s) \in EventType
  <2>1. clients[s].conn \in Conns /\ clients[s].out \in BOOLEAN
    BY <1>4 DEF IInv, TypeOK, InUse
  <2>2. Input(Sock(s)) \in BOOLEAN /\ Dead(Sock(s)) \in BOOLEAN
    BY DEF Input, Dead
  <2>3. (clients[s].out /\ Len(Sock(s).tx) < SockCap) \in BOOLEAN
    OBVIOUS
  <2> QED
    BY <2>1, <2>2, <2>3 DEF Event, EventType
<1>5. ListenerEvent \in EventType /\ ListenerEvent.fd = Listener /\ Listener \notin Slots
  BY EpollAssumption DEF ListenerEvent, Event, EventType, Listener, Slots
<1> HIDE DEF ev
<1>6. \A e \in batch' : (e = ListenerEvent /\ Listener \in ready) \/ \E s \in R : e = ev(s)
  BY <1>2
<1>7. \A s \in R : ev(s) \in batch'
  BY <1>2
<1>8. R \subseteq Slots /\ \A s \in R : InUse(s)
  OBVIOUS
<1>9. Limits'
  BY <1>1, LimitsKept DEF IInv, TypeOK
<1>10. Shape'
  BY <1>1, <1>4, <1>5, <1>6, <1>8 DEF IInv, Shape
<1>11. \A s \in Slots : (InUse(s)' <=> InUse(s)) /\ Sock(s)' = Sock(s)
  BY <1>1 DEF InUse, Sock
<1>12. BatchInv'
  <2>1. \A e \in batch' : e.fd = Listener => e = ListenerEvent
    BY <1>3, <1>5, <1>6, <1>8
  <2>2. \A e \in batch' : e.fd \in Slots => InUse(e.fd)' /\ clients'[e.fd].conn = e.for
    BY <1>1, <1>3, <1>5, <1>6, <1>8, <1>11
  <2>3. \A e, f \in batch' : e.fd = f.fd => e = f
    BY <1>3, <1>5, <1>6, <1>8
  <2> QED
    BY <1>1, <2>1, <2>2, <2>3 DEF IInv, BatchInv
<1>13. NothingLeftInRbuf'
  BY <1>1 DEF IInv, NothingLeftInRbuf
<1>14. ASSUME NEW s \in Slots, InUse(s), Input(Sock(s)) PROVE InputDue(s)'
  <2>1. s \in ready
    BY <1>1, <1>14 DEF IInv, EdgeInv, InputDue
  <2>2. s \in R
    BY <1>14, <2>1 DEF Poll
  <2> QED
    BY <1>3, <1>7, <1>14, <2>2 DEF InputDue
<1>15. ASSUME NEW s \in Slots, InUse(s), clients[s].sbuf # <<>>
       PROVE  clients[s].out /\ (Len(Sock(s).tx) < SockCap => OutputDue(s)')
  <2>1. clients[s].out /\ (Len(Sock(s).tx) < SockCap => s \in ready)
    BY <1>1, <1>15 DEF IInv, EdgeInv, OutputDue
  <2>2. Len(Sock(s).tx) < SockCap => s \in R
    BY <1>15, <2>1 DEF Poll
  <2> QED
    BY <1>3, <1>7, <2>1, <2>2 DEF OutputDue
<1>16. ASSUME \E c \in Conns : sock[c].state = "backlog" PROVE missed \/ ListenerEvent \in batch'
  BY <1>1, <1>2, <1>16 DEF IInv, EdgeInv
<1>17. EdgeInv'
  BY <1>1, <1>11, <1>14, <1>15, <1>16 DEF EdgeInv, Input, Eof, Dead
<1> QED
  BY <1>1, <1>9, <1>10, <1>12, <1>13, <1>17, QuietStep

-----------------------------------------------------------------------------
(* accept() and the end *)

LEMMA AcceptStep ==
  ASSUME IInv, NEW c \in Conns, main_accept(c)
  PROVE  IInv'
<1> DEFINE new == [s \in Slots |-> FreeSlot]
<1>1. /\ at = "accept" /\ at' = "accept" /\ sock[c].state = "backlog" /\ c # Nobody
      /\ logged' = logged /\ batch' = batch /\ cur' = cur /\ missed' = missed
  BY ProtocolAssumption DEF main_accept, Admit
<1>2. sock \in [Conns -> SockType] /\ clients \in [Slots -> SlotType]
  BY DEF IInv, Shape
<1>3. \A s \in Slots : ~Complete(clients[s].rbuf)
  BY <1>1 DEF IInv, NothingLeftInRbuf
<1>4. \A s \in Slots : clients[s].conn # c
  BY <1>1 DEF IInv, SlotInv, InUse, Sock
<1>5. CASE \E s \in Slots : /\ find_free(s)
                            /\ clients' = [clients EXCEPT ![s] = [new[s] EXCEPT !.conn = c]]
                            /\ sock' = [sock EXCEPT ![c].state = "open"]
                            /\ ready' = ready \cup {r \in {s} : Poll(sock[c], FALSE)}
  <2>1. PICK s \in Slots : /\ find_free(s)
                           /\ clients' = [clients EXCEPT ![s] = [FreeSlot EXCEPT !.conn = c]]
                           /\ sock' = [sock EXCEPT ![c].state = "open"]
                           /\ ready' = ready \cup {r \in {s} : Poll(sock[c], FALSE)}
    BY <1>5
  <2> DEFINE slot == [FreeSlot EXCEPT !.conn = c]
             k == [sock[c] EXCEPT !.state = "open"]
  <2>2. /\ slot \in SlotType /\ slot.conn = c /\ slot.rbuf = <<>> /\ slot.sbuf = <<>>
        /\ slot.rbuf_len = 0
    BY FreeSlotEmptied DEF Emptied, SlotType, FreeSlot
  <2>3. /\ k \in SockType /\ k.state = "open" /\ k.tx = sock[c].tx
        /\ Input(k) <=> Input(sock[c])
    BY <1>2 DEF SockType, Input, Eof, Dead
  <2> HIDE DEF slot, k
  <2>4. clients'[s] = slot /\ \A r \in Slots \ {s} : clients'[r] = clients[r]
    BY <1>2, <2>1 DEF slot
  <2>5. sock'[c] = k /\ \A d \in Conns \ {c} : sock'[d] = sock[d]
    BY <1>2, <2>1 DEF k
  <2>6. ~InUse(s) /\ InUse(s)' /\ Sock(s)' = k
    BY <1>1, <2>1, <2>2, <2>4, <2>5 DEF find_free, InUse, Sock
  <2>7. \A r \in Slots : InUse(r) => r # s /\ clients[r].conn \in Conns \ {c} /\ Sock(r)' = Sock(r)
    <3>1. \A r \in Slots : InUse(r) => r # s /\ clients[r].conn \in Conns \ {c}
      BY <1>4, <2>6 DEF IInv, TypeOK, InUse
    <3> QED
      BY <2>4, <2>5, <3>1 DEF Sock
  <2>8. \A r \in Slots \ {s} : InUse(r)' <=> InUse(r)
    BY <2>4 DEF InUse
  <2>9. clients' \in [Slots -> SlotType] /\ sock' \in [Conns -> SockType]
    <3>1. clients' = [clients EXCEPT ![s] = slot] /\ sock' = [sock EXCEPT ![c] = k]
      BY <2>1 DEF slot, k
    <3> QED
      BY <1>2, <2>2, <2>3, <3>1
  <2>10. Shape'
    BY <1>1, <2>9 DEF IInv, Shape
  <2>11. Limits'
    <3>1. ASSUME NEW r \in Slots
          PROVE  /\ clients'[r].rbuf_len \in -MaxUnits..RbufSize
                 /\ Len(clients'[r].rbuf) <= RbufSize /\ Len(clients'[r].sbuf) <= SbufSize
      <4>1. CASE r # s
        BY <2>4, <4>1 DEF IInv, TypeOK
      <4>2. Len(<<>>) = 0 /\ 0 \in -MaxUnits..RbufSize /\ 0 <= RbufSize /\ 0 <= SbufSize
        BY EpollAssumption DEF MaxUnits
      <4> QED
        BY <2>2, <2>4, <4>1, <4>2
    <3>2. \A d \in Conns : Len(sock'[d].tx) <= SockCap
      BY <2>3, <2>5 DEF IInv, TypeOK
    <3>3. ready' \subseteq Slots \cup {Listener}
      BY <2>1 DEF IInv, TypeOK
    <3> QED
      BY <1>1, <3>1, <3>2, <3>3 DEF Limits, IInv, TypeOK
  <2>12. SlotInv'
    <3>1. \A r \in Slots : ~InUse(r)' =>
             /\ ~clients'[r].active /\ clients'[r].rbuf = <<>> /\ clients'[r].sbuf = <<>>
             /\ clients'[r].rbuf_len \in -MaxUnits..0
      BY <2>4, <2>6, <2>8 DEF IInv, SlotInv
    <3>2. \A r, q \in Slots : InUse(r)' /\ clients'[r].conn = clients'[q].conn => r = q
      BY <1>4, <2>2, <2>4, <2>8 DEF IInv, SlotInv
    <3>3. \A r \in Slots : InUse(r)' => Sock(r)'.state = "open"
      BY <1>1, <2>3, <2>6, <2>7, <2>8 DEF IInv, SlotInv
    <3> QED
      BY <3>1, <3>2, <3>3 DEF SlotInv
  <2>13. RbufLenExact'
    <3>1. 0 < RbufSize /\ Len(<<>>) = 0
      BY EpollAssumption DEF MaxUnits
    <3> QED
      BY <2>2, <2>4, <2>8, <3>1 DEF IInv, RbufLenExact
  <2>14. NothingLeftInRbuf'
    BY <1>3, <2>2, <2>4 DEF NothingLeftInRbuf, Complete
  <2>15. BatchInv'
    <3>1. \A e \in batch : e.fd \in Slots => e.fd # s /\ InUse(e.fd)' /\ clients'[e.fd].conn = e.for
      BY <2>4, <2>6, <2>8 DEF IInv, BatchInv
    <3> QED
      BY <1>1, <3>1 DEF IInv, BatchInv
  <2>16. EdgeInv'
    <3>1. \A r \in Slots : (InputDue(r) => InputDue(r)') /\ (OutputDue(r) => OutputDue(r)')
      BY <1>1, <2>1 DEF InputDue, OutputDue
    <3>2. Input(k) => InputDue(s)'
      BY <2>1, <2>3 DEF Poll, InputDue
    <3>3. ASSUME NEW r \in Slots, InUse(r)'
          PROVE  /\ Input(Sock(r)') => InputDue(r)'
                 /\ clients'[r].sbuf # <<>> =>
                      clients'[r].out /\ (Len(Sock(r)'.tx) < SockCap => OutputDue(r)')
      <4>1. CASE r = s
        BY <2>2, <2>4, <2>6, <3>2, <4>1
      <4>2. CASE r # s
        <5>1. InUse(r) /\ clients'[r] = clients[r] /\ Sock(r)' = Sock(r)
          BY <2>4, <2>7, <2>8, <3>3, <4>2
        <5> QED
          BY <1>1, <3>1, <5>1 DEF IInv, EdgeInv
      <4> QED
        BY <4>1, <4>2
    <3>4. \A r \in Slots : Input(Sock(r))' <=> Input(Sock(r)')
      BY DEF Input, Eof, Dead
    <3> QED
      BY <1>1, <3>3, <3>4 DEF EdgeInv
  <2>17. TypeOK'
    BY <2>10, <2>11, LimitsType
  <2> QED
    BY <2>10, <2>12, <2>13, <2>14, <2>15, <2>16, <2>17 DEF IInv
<1>6. CASE sock' = [sock EXCEPT ![c] = Closed] /\ UNCHANGED <<clients, ready>>
  <2>1. Closed \in SockType /\ Closed.tx = <<>> /\ Closed.state = "closed"
    BY DEF Closed, SockType
  <2>2. sock'[c] = Closed /\ \A d \in Conns \ {c} : sock'[d] = sock[d]
    BY <1>2, <1>6
  <2>3. \A r \in Slots : InUse(r)' <=> InUse(r)
    BY <1>6 DEF InUse
  <2>4. \A r \in Slots : InUse(r) => Sock(r)' = Sock(r)
    <3>1. \A r \in Slots : InUse(r) => clients[r].conn \in Conns \ {c}
      BY <1>4 DEF IInv, TypeOK, InUse
    <3> QED
      BY <1>6, <2>2, <3>1 DEF Sock
  <2>5. Shape'
    BY <1>1, <1>2, <1>6, <2>1 DEF IInv, Shape
  <2>6. Limits'
    <3>1. Len(<<>>) = 0 /\ 0 <= SockCap
      BY EpollAssumption
    <3>2. \A d \in Conns : Len(sock'[d].tx) <= SockCap
      BY <2>1, <2>2, <3>1 DEF IInv, TypeOK
    <3> QED
      BY <1>1, <1>6, <3>2 DEF Limits, IInv, TypeOK
  <2>7. SlotInv' /\ RbufLenExact' /\ NothingLeftInRbuf' /\ BatchInv'
    BY <1>1, <1>6, <2>3, <2>4 DEF IInv, SlotInv, RbufLenExact, NothingLeftInRbuf, BatchInv
  <2>8. EdgeInv'
    <3>1. \A r \in Slots : (InputDue(r) => InputDue(r)') /\ (OutputDue(r) => OutputDue(r)')
      BY <1>1, <1>6 DEF InputDue, OutputDue
    <3>2. \A r \in Slots : Input(Sock(r))' <=> Input(Sock(r)')
      BY DEF Input, Eof, Dead
    <3> QED
      BY <1>1, <1>6, <2>3, <2>4, <3>1, <3>2 DEF IInv, EdgeInv
  <2>9. TypeOK'
    BY <2>5, <2>6, LimitsType
  <2> QED
    BY <2>5, <2>7, <2>8, <2>9 DEF IInv
<1> QED
  BY <1>5, <1>6 DEF main_accept, Admit

LEMMA ExitStep ==
  ASSUME IInv, main_exit
  PROVE  IInv'
<1>1. /\ at = "events" /\ at' = "down" /\ sock' = [c \in Conns |-> Closed] /\ ready' = {}
      /\ UNCHANGED <<clients, logged, batch, cur, missed>>
  BY DEF main_exit, Waiting
<1>2. Closed \in SockType /\ Closed.tx = <<>>
  BY DEF Closed, SockType
<1>3. Shape'
  BY <1>1, <1>2 DEF IInv, Shape
<1>4. Len(<<>>) <= SockCap
  BY EpollAssumption
<1>5. Limits'
  BY <1>1, <1>2, <1>4 DEF IInv, TypeOK, Limits
<1>6. \A s \in Slots : InUse(s)' <=> InUse(s)
  BY <1>1 DEF InUse
<1>7. SlotInv' /\ RbufLenExact' /\ NothingLeftInRbuf' /\ BatchInv' /\ EdgeInv'
  BY <1>1, <1>6 DEF IInv, SlotInv, RbufLenExact, NothingLeftInRbuf, BatchInv, EdgeInv
<1>8. TypeOK'
  BY <1>3, <1>5, LimitsType
<1> QED
  BY <1>3, <1>7, <1>8 DEF IInv

-----------------------------------------------------------------------------
(* handle_read() and handle_write() *)

\* An event of the batch, and what is left when it is taken from it.
LEMMA EventLemma ==
  ASSUME IInv, NEW e \in batch, e.fd # Listener, batch' = batch \ {e}
  PROVE  /\ e \in EventType /\ e.fd \in Slots /\ InUse(e.fd) /\ clients[e.fd].conn = e.for
         /\ \A f \in EventType : f \in batch' <=> f \in batch /\ f.fd # e.fd
         /\ \A f \in batch : f \in batch' \/ f = e
         /\ batch' \subseteq batch /\ NoEvent \in EventType
<1>1. e \in EventType /\ batch \subseteq EventType
  BY DEF IInv, Shape
<1>2. e.fd \in Slots
  BY <1>1 DEF EventType
<1>3. NoEvent \in EventType
  BY DEF NoEvent, Event, EventType, Listener
<1> QED
  BY <1>1, <1>2, <1>3 DEF IInv, BatchInv

\* Nothing is left of a buffer that is dropped whole.
LEMMA DropAll ==
  ASSUME NEW S, NEW b \in Seq(S)
  PROVE  Drop(b, Len(b)) = <<>> /\ SubSeq(b, 1, Len(b)) \in Seq(S) /\ Len(SubSeq(b, 1, Len(b))) = Len(b)
<1>1. Len(b) \in 0..Len(b)
  OBVIOUS
<1>2. Drop(b, Len(b)) \in Seq(S) /\ Len(Drop(b, Len(b))) = Len(b) - Len(b)
  BY <1>1, DropType
<1>3. Len(b) - Len(b) = 0
  OBVIOUS
<1> QED
  BY <1>1, <1>2, <1>3, DropType, EmptySeq

\* All that has arrived is read: the socket has nothing left to report, and
\* process_message() is next.
LEMMA ReadStep ==
  ASSUME IInv, NEW e \in batch, Reads(e), Read(e, Len(Sock(e.fd).rx)), UNCHANGED <<logged, missed>>,
         ~(clients[e.fd].rbuf_len + Len(Sock(e.fd).rx) >= RbufSize),
         ~Eof(Sock(e.fd)), ~Dead(Sock(e.fd))
  PROVE  IInv'
<1> DEFINE s == e.fd
           c == clients[s].conn
           x == sock[c].rx
           n == Len(x)
<1>1. /\ at = "events" /\ batch' = batch \ {e} /\ e.fd # Listener
      /\ at' = "serve" /\ cur' = e /\ ready' = ready
  BY DEF Reads, Handles, Read
<1>2. /\ e \in EventType /\ s \in Slots /\ InUse(s) /\ c = e.for
      /\ \A f \in EventType : f \in batch' <=> f \in batch /\ f.fd # s
      /\ \A f \in batch : f \in batch' \/ f = e
      /\ batch' \subseteq batch
  BY <1>1, EventLemma
<1>3. clients \in [Slots -> SlotType] /\ sock \in [Conns -> SockType] /\ batch \subseteq EventType
  BY DEF IInv, Shape
<1>4. c \in Conns
  BY <1>2 DEF IInv, TypeOK, InUse
<1>5. /\ x \in Seq(UnitOf(Request)) /\ clients[s].rbuf \in Seq(UnitOf(Request))
      /\ clients[s].rbuf_len \in Int /\ n \in Nat
  BY <1>2, <1>3, <1>4 DEF SlotType, SockType
<1>6. /\ clients' = [clients EXCEPT ![s].rbuf = @ \o SubSeq(x, 1, n), ![s].rbuf_len = @ + n]
      /\ sock' = [sock EXCEPT ![c].rx = Drop(@, n)]
  BY DEF Read, Sock
<1>7. /\ Drop(x, n) = <<>> /\ SubSeq(x, 1, n) \in Seq(UnitOf(Request)) /\ Len(SubSeq(x, 1, n)) = n
  BY <1>5, DropAll
<1>8. /\ clients[s].rbuf_len + n < RbufSize /\ ~Eof(sock[c]) /\ ~Dead(sock[c])
  <2> DEFINE l == clients[s].rbuf_len
  <2>1. ~(l + n >= RbufSize) /\ ~Eof(sock[c]) /\ ~Dead(sock[c])
    BY Zenon DEF Sock
  <2>2. RbufSize \in Nat /\ l \in Int /\ n \in Nat
    BY <1>5, EpollAssumption
  <2> HIDE DEF l, n
  <2>3. l + n < RbufSize
    BY <2>1, <2>2
  <2> QED
    BY <2>1, <2>3 DEF l, n
<1> DEFINE rb == clients[s].rbuf \o SubSeq(x, 1, n)
           slot == [clients[s] EXCEPT !.rbuf = rb, !.rbuf_len = clients[s].rbuf_len + n]
           k == [sock[c] EXCEPT !.rx = <<>>]
<1>9. rb \in Seq(UnitOf(Request)) /\ Len(rb) = Len(clients[s].rbuf) + n
  <2> DEFINE y == SubSeq(x, 1, n)
  <2>1. y \in Seq(UnitOf(Request)) /\ Len(y) = n
    BY <1>7
  <2> HIDE DEF y, n
  <2>2. clients[s].rbuf \o y \in Seq(UnitOf(Request)) /\ Len(clients[s].rbuf \o y) = Len(clients[s].rbuf) + n
    BY <1>5, <2>1, ConcatProperties
  <2> QED
    BY <2>2 DEF y
<1>10. clients[s].rbuf_len + n \in Int
  BY <1>5
<1>11. clients' = [clients EXCEPT ![s] = slot] /\ sock' = [sock EXCEPT ![c] = k]
  BY <1>2, <1>3, <1>4, <1>6, <1>7
<1> HIDE DEF rb, x, n, c, s
<1>12. /\ slot \in SlotType /\ slot.conn = clients[s].conn /\ slot.rbuf = rb
       /\ slot.rbuf_len = clients[s].rbuf_len + n /\ slot.sbuf = clients[s].sbuf
       /\ slot.out = clients[s].out /\ slot.active = clients[s].active
  BY <1>2, <1>3, <1>9, <1>10 DEF SlotType
<1>13. /\ k \in SockType /\ k.tx = sock[c].tx /\ k.state = sock[c].state /\ ~Input(k)
  <2>1. <<>> \in Seq(UnitOf(Request)) /\ sock[c] \in SockType
    BY <1>3, <1>4
  <2>2. /\ k \in SockType /\ k.tx = sock[c].tx /\ k.state = sock[c].state /\ k.rx = <<>>
        /\ k.client = sock[c].client /\ k.way = sock[c].way
    BY <2>1 DEF SockType
  <2> HIDE DEF k
  <2> QED
    BY <1>8, <2>2 DEF Input, Eof, Dead
<1> HIDE DEF slot, k
<1>14. clients'[s] = slot /\ \A r \in Slots \ {s} : clients'[r] = clients[r]
  BY <1>2, <1>3, <1>11
<1>15. sock'[c] = k /\ \A d \in Conns \ {c} : sock'[d] = sock[d]
  BY <1>3, <1>4, <1>11
<1>16. \A r \in Slots : (InUse(r)' <=> InUse(r)) /\ clients'[r].conn = clients[r].conn
  BY <1>12, <1>14 DEF InUse
<1>17. \A r \in Slots \ {s} : InUse(r) => clients[r].conn \in Conns \ {c} /\ Sock(r)' = Sock(r)
  <2>1. \A r \in Slots \ {s} : InUse(r) => clients[r].conn \in Conns \ {c}
    BY <1>2 DEF IInv, TypeOK, SlotInv, InUse, c
  <2> QED
    BY <1>15, <1>16, <2>1 DEF Sock
<1>18. Sock(s)' = k /\ Sock(s) = sock[c]
  <2>1. clients'[s].conn = c
    BY <1>2, <1>16 DEF c
  <2> QED
    BY <1>15, <2>1 DEF Sock, c
<1>19. Shape'
  BY <1>1, <1>2, <1>3, <1>11, <1>12, <1>13 DEF Shape
<1>20. clients[s].rbuf_len = Len(clients[s].rbuf)
  BY <1>2 DEF IInv, RbufLenExact
<1>21. slot.rbuf_len = Len(slot.rbuf) /\ slot.rbuf_len < RbufSize
  BY <1>8, <1>9, <1>12, <1>20 DEF s, c, x, n
<1>22. SlotInv'
  <2>1. \A r \in Slots : InUse(r)' => Sock(r)'.state = "open"
    BY <1>1, <1>2, <1>13, <1>16, <1>17, <1>18 DEF IInv, SlotInv
  <2>2. \A r \in Slots : ~InUse(r)' =>
           /\ ~clients'[r].active /\ clients'[r].rbuf = <<>> /\ clients'[r].sbuf = <<>>
           /\ clients'[r].rbuf_len \in -MaxUnits..0
    BY <1>2, <1>14, <1>16 DEF IInv, SlotInv
  <2> QED
    BY <1>16, <2>1, <2>2 DEF IInv, SlotInv
<1>23. RbufLenExact'
  BY <1>14, <1>16, <1>21 DEF IInv, RbufLenExact
<1>24. NothingLeftInRbuf'
  BY <1>1, <1>14 DEF IInv, NothingLeftInRbuf, s
<1>25. BatchInv'
  <2>1. \A f \in batch' : f \in batch /\ f.fd # s
    BY <1>2, <1>3
  <2>2. \A f \in batch' : f.fd \in Slots => InUse(f.fd)' /\ clients'[f.fd].conn = f.for
    BY <1>16, <2>1 DEF IInv, BatchInv
  <2>3. InUse(s)' => clients'[s].conn = e.for
    BY <1>2, <1>16 DEF c
  <2> QED
    BY <1>1, <1>2, <2>1, <2>2, <2>3 DEF IInv, BatchInv, s
<1>26. EdgeInv'
  <2>1. \A r \in Slots \ {s} : InputDue(r) => InputDue(r)'
    BY <1>1, <1>2 DEF InputDue, s
  <2>2. \A r \in Slots : OutputDue(r) => OutputDue(r)'
    <3>1. ~e.hup
      BY DEF Reads
    <3> QED
      BY <1>1, <1>2, <3>1 DEF OutputDue, s
  <2>3. ListenerEvent \in batch => ListenerEvent \in batch'
    BY <1>1 DEF ListenerEvent, Event
  <2>4. \A d \in Conns : sock'[d].state = sock[d].state
    BY <1>13, <1>15
  <2>5. \A r \in Slots : Input(Sock(r))' <=> Input(Sock(r)')
    BY DEF Input, Eof, Dead
  <2>6. ASSUME NEW r \in Slots, InUse(r)
        PROVE  /\ Input(Sock(r)') => InputDue(r)'
               /\ clients'[r].sbuf # <<>> =>
                    clients'[r].out /\ (Len(Sock(r)'.tx) < SockCap => OutputDue(r)')
    <3>1. CASE r = s
      <4>1. Sock(r)'.tx = Sock(r).tx /\ ~Input(Sock(r)')
        BY <1>13, <1>18, <3>1
      <4>2. clients'[r].sbuf = clients[r].sbuf /\ clients'[r].out = clients[r].out
        BY <1>12, <1>14, <3>1
      <4> QED
        BY <1>1, <2>2, <2>6, <4>1, <4>2 DEF IInv, EdgeInv
    <3>2. CASE r # s
      <4>1. Sock(r)' = Sock(r) /\ clients'[r] = clients[r]
        BY <1>14, <1>17, <2>6, <3>2
      <4> QED
        BY <1>1, <2>1, <2>2, <2>6, <3>2, <4>1 DEF IInv, EdgeInv
    <3> QED
      BY <3>1, <3>2
  <2>7. (\E d \in Conns : sock'[d].state = "backlog") =>
           Listener \in ready' \/ missed' \/ ListenerEvent \in batch'
    BY <1>1, <2>3, <2>4 DEF IInv, EdgeInv
  <2> QED
    BY <1>16, <2>5, <2>6, <2>7 DEF EdgeInv
<1>27. Limits'
  <2>1. ASSUME NEW r \in Slots
        PROVE  /\ clients'[r].rbuf_len \in -MaxUnits..RbufSize
               /\ Len(clients'[r].rbuf) <= RbufSize /\ Len(clients'[r].sbuf) <= SbufSize
    <3>1. CASE r # s
      BY <1>14, <3>1 DEF IInv, TypeOK
    <3>2. CASE r = s
      <4>1. slot.rbuf_len \in Nat /\ RbufSize \in Nat
        BY <1>9, <1>12, <1>21, EpollAssumption
      <4>2. slot.rbuf_len \in -MaxUnits..RbufSize /\ Len(slot.rbuf) <= RbufSize
        BY <1>21, <4>1 DEF MaxUnits
      <4> QED
        BY <1>12, <1>14, <3>2, <4>2 DEF IInv, TypeOK
    <3> QED
      BY <3>1, <3>2
  <2>2. \A d \in Conns : Len(sock'[d].tx) <= SockCap
    BY <1>13, <1>15 DEF IInv, TypeOK
  <2> QED
    BY <1>1, <2>1, <2>2 DEF Limits, IInv, TypeOK
<1>28. TypeOK'
  BY <1>19, <1>27, LimitsType
<1> QED
  BY <1>19, <1>22, <1>23, <1>24, <1>25, <1>26, <1>28 DEF IInv

LEMMA HandleReadStep ==
  ASSUME IInv, NEW e \in batch, handle_read(e)
  PROVE  IInv'
<1>1. Reads(e) /\ UNCHANGED <<logged, missed>>
  BY DEF handle_read
<1>2. /\ at = "events" /\ batch' = batch \ {e} /\ e.fd # Listener
  BY <1>1 DEF Reads, Handles
<1>3. CASE disconnect_client(e.fd) /\ Then(e)
  <2>1. \/ at' = "events" /\ cur' = NoEvent
        \/ at' = "write" /\ cur' = e
    BY <1>3 DEF Then
  <2> QED
    BY <1>1, <1>2, <1>3, <2>1, EventLemma, DisconnectStep
<1>4. CASE ~(disconnect_client(e.fd) /\ Then(e))
  BY <1>1, <1>4, ReadStep DEF handle_read
<1> QED
  BY <1>3, <1>4

LEMMA HupStep ==
  ASSUME IInv, NEW e \in batch, handle_hup(e)
  PROVE  IInv'
<1>1. /\ at = "events" /\ batch' = batch \ {e} /\ e.hup /\ UNCHANGED <<logged, at, cur, missed>>
  BY DEF handle_hup, Handles
<1>2. e.fd # Listener
  BY <1>1 DEF IInv, BatchInv, ListenerEvent, Event
<1>3. e.fd \in Slots /\ InUse(e.fd)
  BY <1>1, <1>2, EventLemma
<1>4. disconnect_client(e.fd)
  BY <1>3 DEF handle_hup
<1>5. at' = "events" /\ cur' = NoEvent
  BY <1>1 DEF IInv, BatchInv
<1> QED
  BY <1>1, <1>2, <1>3, <1>4, <1>5, EventLemma, DisconnectStep

\* sb_flush(): all is written, or the socket is full and EPOLLOUT is asked for.
LEMMA FlushStep ==
  ASSUME IInv, handle_write, NEW s \in Slots, s = cur.fd
  PROVE  IInv'
<1> DEFINE c == clients[s].conn
           b == clients[s].sbuf
           n == Takes(sock[c], b)
<1>1. /\ at = "write" /\ at' = "events" /\ cur' = NoEvent /\ UNCHANGED <<logged, batch, missed>>
  BY DEF handle_write, Flush
<1>2. s \in Slots /\ \A e \in batch : e.fd # s
  BY <1>1 DEF IInv, BatchInv
<1>3. NoEvent \in EventType /\ batch \subseteq EventType
  BY DEF NoEvent, Event, EventType, Listener, IInv, Shape
<1>4. CASE ~InUse(s)
  <2>1. UNCHANGED <<clients, ready, sock>>
    BY <1>4 DEF handle_write, Flush
  <2>2. Limits'
    BY <1>1, <2>1, LimitsKept DEF IInv, TypeOK
  <2>3. Shape'
    BY <1>1, <1>3, <2>1 DEF IInv, Shape
  <2>4. \A r \in Slots : (InUse(r)' <=> InUse(r)) /\ Sock(r)' = Sock(r)
    BY <2>1 DEF InUse, Sock
  <2>5. BatchInv'
    BY <1>1, <2>1, <2>4 DEF IInv, BatchInv
  <2>6. NothingLeftInRbuf'
    BY <1>1, <2>1 DEF IInv, NothingLeftInRbuf
  <2>7. \A r \in Slots : (InputDue(r) => InputDue(r)') /\ (r # s /\ OutputDue(r) => OutputDue(r)')
    BY <1>1, <2>1 DEF InputDue, OutputDue
  <2>8. EdgeInv'
    <3>1. \A r \in Slots : Input(Sock(r))' <=> Input(Sock(r))
      BY <2>4 DEF Input, Eof, Dead
    <3> QED
      BY <1>1, <1>4, <2>1, <2>4, <2>7, <3>1 DEF IInv, EdgeInv
  <2> QED
    BY <1>1, <2>1, <2>2, <2>3, <2>5, <2>6, <2>8, QuietStep
<1>5. CASE InUse(s) /\ Dead(Sock(s)) /\ b # <<>>
  <2>1. disconnect_client(s)
    BY <1>5 DEF handle_write, Flush
  <2>2. /\ \A e \in EventType : e \in batch' <=> e \in batch /\ e.fd # s
        /\ batch' \subseteq batch
    BY <1>1, <1>2
  <2> QED
    BY <1>1, <1>2, <1>5, <2>1, <2>2, DisconnectStep
<1>6. CASE InUse(s) /\ ~(Dead(Sock(s)) /\ b # <<>>)
  <2>1. /\ clients' = [clients EXCEPT ![s].sbuf = Drop(@, n), ![s].out = TRUE /\ n < Len(b)]
        /\ sock' = [sock EXCEPT ![c].tx = @ \o SubSeq(b, 1, n)]
        /\ ready' = ready \cup {r \in {s} : n = Len(b) /\ Poll(Sock(s), FALSE)}
    BY <1>6 DEF handle_write, Flush, Sock
  <2>2. clients \in [Slots -> SlotType] /\ sock \in [Conns -> SockType]
    BY DEF IInv, Shape
  <2>3. c \in Conns
    BY <1>2, <1>6 DEF IInv, TypeOK, InUse
  <2>4. /\ sock[c] \in SockType /\ sock[c].tx \in Seq(UnitOf(Text)) /\ Len(sock[c].tx) <= SockCap
        /\ b \in Seq(UnitOf(Text)) /\ Len(b) \in Nat /\ Len(b) <= SbufSize
    BY <1>2, <2>2, <2>3 DEF SlotType, SockType, IInv, TypeOK
  <2>5. /\ n \in 0..Len(b) /\ Len(sock[c].tx) + n <= SockCap
        /\ n < Len(b) => Len(sock[c].tx) + n = SockCap
    BY <2>4, TakesType
  <2>6. /\ Drop(b, n) \in Seq(UnitOf(Text)) /\ Len(Drop(b, n)) = Len(b) - n
        /\ SubSeq(b, 1, n) \in Seq(UnitOf(Text)) /\ Len(SubSeq(b, 1, n)) = n
    BY <2>4, <2>5, DropType
  <2> DEFINE slot == [clients[s] EXCEPT !.sbuf = Drop(b, n), !.out = n < Len(b)]
             k == [sock[c] EXCEPT !.tx = sock[c].tx \o SubSeq(b, 1, n)]
  <2>7. clients' = [clients EXCEPT ![s] = slot] /\ sock' = [sock EXCEPT ![c] = k]
    <3>1. (TRUE /\ n < Len(b)) = (n < Len(b))
      OBVIOUS
    <3> HIDE DEF n
    <3> QED
      BY <1>2, <2>1, <2>2, <2>3, <3>1
  <2>8. /\ sock[c].tx \o SubSeq(b, 1, n) \in Seq(UnitOf(Text))
        /\ Len(sock[c].tx \o SubSeq(b, 1, n)) = Len(sock[c].tx) + n
    BY <2>4, <2>6, ConcatProperties
  <2> HIDE DEF n, b, c
  <2>9. (n < Len(b)) \in BOOLEAN
    OBVIOUS
  <2>10. /\ slot \in SlotType /\ slot.conn = clients[s].conn /\ slot.active = clients[s].active
         /\ slot.rbuf = clients[s].rbuf /\ slot.rbuf_len = clients[s].rbuf_len
         /\ slot.sbuf = Drop(b, n) /\ slot.out = (n < Len(b))
    BY <1>2, <2>2, <2>6, <2>9 DEF SlotType
  <2>11. /\ k \in SockType /\ k.state = sock[c].state /\ k.client = sock[c].client
         /\ k.rx = sock[c].rx /\ k.way = sock[c].way
         /\ k.tx = sock[c].tx \o SubSeq(b, 1, n)
    BY <2>4, <2>8 DEF SockType
  <2> HIDE DEF slot, k
  <2>12. clients'[s] = slot /\ \A r \in Slots \ {s} : clients'[r] = clients[r]
    BY <1>2, <2>2, <2>7
  <2>13. sock'[c] = k /\ \A d \in Conns \ {c} : sock'[d] = sock[d]
    BY <2>2, <2>3, <2>7
  <2>14. \A r \in Slots : (InUse(r)' <=> InUse(r)) /\ clients'[r].conn = clients[r].conn
    BY <2>10, <2>12 DEF InUse
  <2>15. \A r \in Slots \ {s} : InUse(r) => Sock(r)' = Sock(r)
    <3>1. \A r \in Slots \ {s} : InUse(r) => clients[r].conn \in Conns \ {c}
      BY <1>2, <1>6 DEF IInv, TypeOK, SlotInv, InUse, c
    <3> QED
      BY <2>13, <2>14, <3>1 DEF Sock
  <2>16. Sock(s)' = k /\ Sock(s) = sock[c]
    <3>1. clients'[s].conn = c
      BY <1>2, <2>14 DEF c
    <3> QED
      BY <2>13, <3>1 DEF Sock, c
  <2>17. Shape'
    BY <1>1, <1>3, <2>2, <2>7, <2>10, <2>11 DEF Shape
  <2>18. Len(slot.sbuf) <= SbufSize /\ Len(k.tx) <= SockCap
    <3>1. SbufSize \in Nat /\ n \in Nat
      BY <2>5, EpollAssumption
    <3>2. Len(slot.sbuf) = Len(b) - n
      BY <2>6, <2>10
    <3>3. Len(slot.sbuf) <= SbufSize
      BY <2>4, <3>1, <3>2
    <3>4. Len(k.tx) = Len(sock[c].tx) + n
      BY <2>8, <2>11
    <3> QED
      BY <2>5, <3>3, <3>4
  <2>19. Limits'
    <3>1. ASSUME NEW r \in Slots
          PROVE  /\ clients'[r].rbuf_len \in -MaxUnits..RbufSize
                 /\ Len(clients'[r].rbuf) <= RbufSize /\ Len(clients'[r].sbuf) <= SbufSize
      BY <2>10, <2>12, <2>18 DEF IInv, TypeOK
    <3>2. \A d \in Conns : Len(sock'[d].tx) <= SockCap
      BY <2>13, <2>18 DEF IInv, TypeOK
    <3>3. ready' \subseteq Slots \cup {Listener}
      BY <1>2, <2>1 DEF IInv, TypeOK
    <3> QED
      BY <1>1, <3>1, <3>2, <3>3 DEF Limits, IInv, TypeOK
  <2>20. SlotInv'
    <3>1. \A r \in Slots : InUse(r)' => Sock(r)'.state = "open"
      BY <1>1, <1>2, <2>11, <2>14, <2>15, <2>16 DEF IInv, SlotInv
    <3>2. \A r \in Slots : ~InUse(r)' =>
             /\ ~clients'[r].active /\ clients'[r].rbuf = <<>> /\ clients'[r].sbuf = <<>>
             /\ clients'[r].rbuf_len \in -MaxUnits..0
      BY <1>6, <2>12, <2>14 DEF IInv, SlotInv
    <3> QED
      BY <2>14, <3>1, <3>2 DEF IInv, SlotInv
  <2>21. RbufLenExact' /\ NothingLeftInRbuf'
    <3>1. \A r \in Slots : clients'[r].rbuf = clients[r].rbuf /\ clients'[r].rbuf_len = clients[r].rbuf_len
      BY <2>10, <2>12
    <3> QED
      BY <1>1, <2>14, <3>1 DEF IInv, RbufLenExact, NothingLeftInRbuf
  <2>22. BatchInv'
    BY <1>1, <2>14 DEF IInv, BatchInv
  <2>23. EdgeInv'
    <3>1. \A r \in Slots : InputDue(r) => InputDue(r)'
      BY <1>1, <2>1 DEF InputDue
    <3>2. \A r \in Slots \ {s} : OutputDue(r) => OutputDue(r)'
      BY <1>1, <2>1 DEF OutputDue
    <3>3. \A r \in Slots : Input(Sock(r))' <=> Input(Sock(r)')
      BY DEF Input, Eof, Dead
    <3>4. Input(k) <=> Input(sock[c])
      BY <2>11 DEF Input, Eof, Dead
    <3>5. \A d \in Conns : sock'[d].state = sock[d].state
      BY <2>11, <2>13
    <3>6. slot.sbuf # <<>> => slot.out /\ ~(Len(k.tx) < SockCap)
      <4>1. CASE n < Len(b)
        <5>1. Len(k.tx) = SockCap /\ SockCap \in Nat
          BY <2>5, <2>8, <2>11, <4>1, EpollAssumption
        <5>2. ~(Len(k.tx) < SockCap)
          BY <5>1
        <5> QED
          BY <2>10, <4>1, <5>2
      <4>2. CASE ~(n < Len(b))
        <5>1. n = Len(b)
          BY <2>4, <2>5, <4>2
        <5>2. Drop(b, n) = <<>>
          BY <2>4, <5>1, DropAll
        <5> QED
          BY <2>10, <5>2
      <4> QED
        BY <4>1, <4>2
    <3>7. ASSUME NEW r \in Slots, InUse(r)
          PROVE  /\ Input(Sock(r)') => InputDue(r)'
                 /\ clients'[r].sbuf # <<>> =>
                      clients'[r].out /\ (Len(Sock(r)'.tx) < SockCap => OutputDue(r)')
      <4>1. CASE r = s
        <5>1. Input(Sock(r)') => InputDue(r)
          BY <1>1, <2>16, <3>4, <3>7, <4>1 DEF IInv, EdgeInv
        <5> QED
          BY <2>12, <2>16, <3>1, <3>6, <4>1, <5>1
      <4>2. CASE r # s
        <5>1. Sock(r)' = Sock(r) /\ clients'[r] = clients[r]
          BY <2>12, <2>15, <3>7, <4>2
        <5> QED
          BY <1>1, <3>1, <3>2, <3>7, <4>2, <5>1 DEF IInv, EdgeInv
      <4> QED
        BY <4>1, <4>2
    <3>8. (\E d \in Conns : sock'[d].state = "backlog") =>
             Listener \in ready' \/ missed' \/ ListenerEvent \in batch'
      BY <1>1, <2>1, <3>5 DEF IInv, EdgeInv
    <3> QED
      BY <2>14, <3>3, <3>7, <3>8 DEF EdgeInv
  <2>24. TypeOK'
    BY <2>17, <2>19, LimitsType
  <2> QED
    BY <2>17, <2>20, <2>21, <2>22, <2>23, <2>24 DEF IInv
<1> QED
  BY <1>4, <1>5, <1>6

LEMMA WriteStep ==
  ASSUME IInv, handle_write
  PROVE  IInv'
<1>1. at = "write"
  BY DEF handle_write, Flush
<1>2. PICK s \in Slots : s = cur.fd
  BY <1>1 DEF IInv, BatchInv
<1> QED
  BY <1>2, FlushStep

-----------------------------------------------------------------------------
(* The theorems *)

LEMMA InitLemma ==
  ASSUME Init
  PROVE  IInv
<1>1. /\ clients = [s \in Slots |-> FreeSlot] /\ sock = [c \in Conns |-> NewSock(c)]
      /\ logged = {} /\ at = "events" /\ batch = {} /\ cur = NoEvent /\ ready = {} /\ missed = FALSE
  BY DEF Init
<1>2. \A s \in Slots : clients[s] = FreeSlot /\ Emptied(clients[s]) /\ ~InUse(s)
  BY <1>1, FreeSlotEmptied DEF InUse, FreeSlot
<1>3. \A c \in Conns : NewSock(c) \in SockType /\ sock[c].state = "none" /\ sock[c].tx = <<>>
  <2>1. <<>> \in Seq(UnitOf(Request)) /\ <<>> \in Seq(UnitOf(Text))
    OBVIOUS
  <2>2. \A c \in Conns : Budget[c] \in Nat
    BY EpollAssumption
  <2> QED
    BY <1>1, <2>1, <2>2 DEF NewSock, SockType
<1>4. NoEvent \in EventType /\ NoEvent.fd = Listener
  BY DEF NoEvent, Event, EventType, Listener
<1>5. Shape
  BY <1>1, <1>2, <1>3, <1>4 DEF Shape, Emptied
<1>6. SlotInv /\ BatchInv /\ RbufLenExact /\ NothingLeftInRbuf /\ EdgeInv
  BY <1>1, <1>2, <1>3 DEF SlotInv, BatchInv, RbufLenExact, NothingLeftInRbuf, EdgeInv, Emptied,
     Complete
<1>7. TypeOK
  <2>1. \A s \in Slots :
          /\ clients[s].conn \in Conns \cup {Nobody}
          /\ clients[s].active \in BOOLEAN /\ clients[s].out \in BOOLEAN
          /\ clients[s].username \in Users \cup {NoUser}
          /\ clients[s].status \in Statuses
    BY <1>2 DEF Emptied, SlotType
  <2>2. \A s \in Slots :
          /\ clients[s].rbuf_len \in -MaxUnits..RbufSize
          /\ Len(clients[s].rbuf) <= RbufSize /\ Len(clients[s].sbuf) <= SbufSize
    <3>1. 0 \in -MaxUnits..RbufSize
      BY EpollAssumption DEF MaxUnits
    <3> QED
      BY <1>2, <3>1, EmptiedLength DEF FreeSlot
  <2>3. Len(<<>>) <= SockCap
    BY EpollAssumption
  <2>4. \A c \in Conns :
          /\ sock[c].state \in {"none", "backlog", "open", "closed"}
          /\ sock[c].client \in {"open", "closed", "dead"}
          /\ sock[c].budget \in Nat
          /\ Len(sock[c].tx) <= SockCap
    BY <1>1, <1>3, <2>3 DEF SockType
  <2> QED
    BY <1>1, <1>4, <2>1, <2>2, <2>4 DEF TypeOK
<1> QED
  BY <1>5, <1>6, <1>7 DEF IInv

LEMMA StutterStep ==
  ASSUME IInv, UNCHANGED vars
  PROVE  IInv'
<1>1. /\ clients' = clients /\ logged' = logged /\ at' = at /\ batch' = batch /\ cur' = cur
      /\ ready' = ready /\ sock' = sock /\ missed' = missed
  BY DEF vars, server
<1>2. TypeOK' /\ Shape'
  BY <1>1 DEF IInv, TypeOK, Shape
<1>3. \A s \in Slots : (InUse(s)' <=> InUse(s)) /\ Sock(s)' = Sock(s)
  BY <1>1 DEF InUse, Sock
<1>4. SlotInv' /\ BatchInv' /\ RbufLenExact' /\ NothingLeftInRbuf'
  BY <1>1, <1>3 DEF IInv, SlotInv, BatchInv, RbufLenExact, NothingLeftInRbuf
<1>5. \A s \in Slots : (InputDue(s)' <=> InputDue(s)) /\ (OutputDue(s)' <=> OutputDue(s))
                       /\ (Input(Sock(s))' <=> Input(Sock(s)))
  BY <1>1, <1>3 DEF InputDue, OutputDue, Input, Eof, Dead
<1>6. EdgeInv'
  BY <1>1, <1>3, <1>5 DEF IInv, EdgeInv
<1> QED
  BY <1>2, <1>4, <1>6 DEF IInv

\* The inductive invariant holds whatever the clients, the kernel and the loop do.
LEMMA Invariance == Spec => []IInv
<1>1. Init => IInv
  BY InitLemma
<1>2. IInv /\ [Next]_vars => IInv'
  <2> SUFFICES ASSUME IInv, [Next]_vars PROVE IInv'
    OBVIOUS
  <2>1. CASE LoopStep
    BY <2>1, WaitStep, AcceptEndsStep, ReadEndsStep, WriteStep, ProcessStep, HandleReadStep,
       HupStep,
       OtherStep, ListenerStep, AcceptStep DEF LoopStep
  <2>2. CASE main_exit
    BY <2>2, ExitStep
  <2>3. CASE \E c \in Conns : \/ client_connect(c) \/ client_send(c) \/ arrive(c)
                              \/ client_read(c) \/ client_close(c) \/ client_reset(c)
    BY <2>3, ClientsStep
  <2>4. CASE UNCHANGED vars
    BY <2>4, StutterStep
  <2> QED
    BY <2>1, <2>2, <2>3, <2>4 DEF Next
<1> QED
  BY <1>1, <1>2, PTL DEF Spec

\* The variables keep their types, and the buffers of a slot, the ready list and
\* the sockets their bounds: the length tests of handle_read() and sb_push() suffice.
THEOREM EpollTyped == Spec => []TypeOK
<1>1. IInv => TypeOK
  BY DEF IInv
<1> QED
  BY <1>1, Invariance, PTL

\* main() never applies an event to another connection than the one epoll_wait()
\* reported it for, although disconnect_client() frees descriptors and slots and
\* accept() reuses them within a batch.
THEOREM NoStaleEvents == Spec => []EventsFresh
<1>1. IInv => EventsFresh
  <2> SUFFICES ASSUME IInv, NEW e \in batch \cup {cur}, e.fd \in Slots, InUse(e.fd)
               PROVE  clients[e.fd].conn = e.for
    BY DEF EventsFresh
  <2>1. Listener \notin Slots /\ NoEvent.fd = Listener
    BY EpollAssumption DEF Listener, Slots, NoEvent, Event
  <2> QED
    BY <2>1 DEF IInv, BatchInv
<1> QED
  BY <1>1, Invariance, PTL

\* rbuf_len of a slot in use is the length of rbuf, although handle_read() goes on
\* subtracting from the slot that MSG_LOGOUT has cleared.
THEOREM RbufLenKept == Spec => []RbufLenExact
<1>1. IInv => RbufLenExact
  BY DEF IInv
<1> QED
  BY <1>1, Invariance, PTL

\* handle_read() leaves no whole message in rbuf, where no event would find it.
THEOREM RbufServed == Spec => []NothingLeftInRbuf
<1>1. IInv => NothingLeftInRbuf
  BY DEF IInv
<1> QED
  BY <1>1, Invariance, PTL

\* When the loop goes to epoll_wait(), everything it has yet to read, to write or to
\* accept is on the ready list or gets there when the socket has room: handle_read()
\* reads until EAGAIN, slot_send() and handle_write() ask for EPOLLOUT.
THEOREM EdgesKept == Spec => []NoLostEdge
<1>1. IInv => NoLostEdge
  <2> SUFFICES ASSUME IInv, at = "events", batch = {}
               PROVE  /\ \A s \in Slots : InUse(s) =>
                            /\ Poll(Sock(s), FALSE) => s \in ready
                            /\ clients[s].sbuf # <<>> =>
                                  clients[s].out /\ (Poll(Sock(s), TRUE) => s \in ready)
                      /\ (\E c \in Conns : sock[c].state = "backlog") => Listener \in ready \/ missed
    BY DEF NoLostEdge, Waiting
  <2>1. \A s \in Slots : InUse(s) =>
           /\ Input(Sock(s)) => InputDue(s)
           /\ clients[s].sbuf # <<>> =>
                 clients[s].out /\ (Len(Sock(s).tx) < SockCap => OutputDue(s))
    BY DEF IInv, EdgeInv
  <2>2. \A s \in Slots : (InputDue(s) => s \in ready) /\ (OutputDue(s) => s \in ready)
    BY DEF InputDue, OutputDue
  <2>3. (\E c \in Conns : sock[c].state = "backlog") => Listener \in ready \/ missed
    BY DEF IInv, EdgeInv
  <2> QED
    BY <2>1, <2>2, <2>3 DEF Poll
<1> QED
  BY <1>1, Invariance, PTL

-----------------------------------------------------------------------------
(* Framing *)

\* A sequence of whole messages; Units() makes no unit beyond the last.
Framed(b) ==
    \A i \in 1..Len(b) :
       /\ b[i].k <= b[i].n
       /\ b[i].k > 1 => i > 1 /\ b[i - 1] = [b[i] EXCEPT !.k = @ - 1]
       /\ b[i].k < b[i].n => i < Len(b) /\ b[i + 1] = [b[i] EXCEPT !.k = @ + 1]

\* What the client behind socket k of slot r has read of a message, and what is on
\* its way to it, are whole messages, the first of which is not yet read.
StreamOK(r, k) ==
    Connected(k) /\ ~Dead(k) => Framed(k.part \o (k.tx \o r.sbuf)) /\ ~Complete(k.part)

FrameInv ==
    /\ \A c \in Conns : sock[c].state \in {"none", "backlog"} =>
          sock[c].tx = <<>> /\ sock[c].part = <<>>
    /\ \A s \in Slots : InUse(s) => StreamOK(clients[s], Sock(s))
    /\ at = "down" => \A c \in Conns : sock[c].state = "closed"

\* A unit is told by its message, its number and the number of units.
LEMMA UnitEqual ==
  ASSUME NEW x \in UnitOf(Text), NEW y \in UnitOf(Text)
  PROVE  /\ x.k \in Int /\ x.n \in Int /\ x.k >= 1 /\ x.n >= 1 /\ x.n <= 2
         /\ x = [y EXCEPT !.k = @ - 1] => x.n = y.n /\ x.k = y.k - 1
         /\ x = [y EXCEPT !.k = @ + 1] => x.n = y.n /\ x.k = y.k + 1
  BY DEF UnitOf, MaxUnits

LEMMA UnitsFramed ==
  ASSUME NEW m \in Text
  PROVE  Units(m, m) \in Seq(UnitOf(Text)) /\ Framed(Units(m, m))
<1>1. Units(m, m) \in Seq(UnitOf(Text))
  BY UnitsType
<1>2. CASE m \in Bare
  <2>1. Units(m, m) = [k \in 1..1 |-> [m |-> m, k |-> k, n |-> 1]]
    BY <1>2 DEF Units
  <2>2. Len(Units(m, m)) = 1 /\ Units(m, m)[1] = [m |-> m, k |-> 1, n |-> 1]
    BY <2>1
  <2> QED
    BY <1>1, <2>2 DEF Framed
<1>3. CASE m \notin Bare
  <2> DEFINE u == Units(m, m)
  <2>1. u = [k \in 1..2 |-> [m |-> m, k |-> k, n |-> 2]]
    BY <1>3 DEF Units
  <2>2. Len(u) = 2 /\ u[1] = [m |-> m, k |-> 1, n |-> 2] /\ u[2] = [m |-> m, k |-> 2, n |-> 2]
    BY <2>1
  <2>3. u[1].k = 1 /\ u[1].n = 2 /\ u[2].k = 2 /\ u[2].n = 2
    BY <2>2
  <2>4. u[2] = [u[1] EXCEPT !.k = @ + 1] /\ u[1] = [u[2] EXCEPT !.k = @ - 1]
    BY <2>2
  <2> HIDE DEF u
  <2>5. \A i \in 1..2 : i = 1 \/ i = 2
    OBVIOUS
  <2>6. Framed(u)
    <3> SUFFICES ASSUME NEW i \in 1..2
                 PROVE  /\ u[i].k <= u[i].n
                        /\ u[i].k > 1 => i > 1 /\ u[i - 1] = [u[i] EXCEPT !.k = @ - 1]
                        /\ u[i].k < u[i].n => i < 2 /\ u[i + 1] = [u[i] EXCEPT !.k = @ + 1]
      BY <2>2 DEF Framed
    <3>1. CASE i = 1
      <4>1. u[i].k = 1 /\ u[i].n = 2 /\ i + 1 = 2
        BY <2>3, <3>1
      <4>2. u[i].k <= u[i].n /\ ~(u[i].k > 1) /\ i < 2
        BY <3>1, <4>1
      <4>3. u[i + 1] = [u[i] EXCEPT !.k = @ + 1]
        BY <2>4, <3>1, <4>1, Zenon
      <4> QED
        BY <4>2, <4>3, Zenon
    <3>2. CASE i = 2
      <4>1. u[i].k = 2 /\ u[i].n = 2 /\ i - 1 = 1
        BY <2>3, <3>2
      <4>2. u[i].k <= u[i].n /\ i > 1 /\ ~(u[i].k < u[i].n)
        BY <3>2, <4>1
      <4>3. u[i - 1] = [u[i] EXCEPT !.k = @ - 1]
        BY <2>4, <3>2, <4>1, Zenon
      <4> QED
        BY <4>2, <4>3, Zenon
    <3> QED
      BY <2>5, <3>1, <3>2
  <2> QED
    BY <1>1, <2>6 DEF u
<1> QED
  BY <1>2, <1>3

\* Whole messages after whole messages are whole messages.
LEMMA FramedConcat ==
  ASSUME NEW b \in Seq(UnitOf(Text)), NEW u \in Seq(UnitOf(Text)), Framed(b), Framed(u)
  PROVE  Framed(b \o u)
<1> DEFINE a == b \o u
<1>1. /\ a \in Seq(UnitOf(Text)) /\ Len(a) = Len(b) + Len(u)
      /\ \A i \in 1..(Len(b) + Len(u)) : a[i] = IF i <= Len(b) THEN b[i] ELSE u[i - Len(b)]
  BY ConcatProperties
<1> HIDE DEF a
<1>2. Len(b) \in Nat /\ Len(u) \in Nat
  OBVIOUS
<1>3. \A i \in 1..Len(b) : a[i] = b[i]
  BY <1>1, <1>2
<1>4. \A j \in 1..Len(u) : a[Len(b) + j] = u[j]
  <2> SUFFICES ASSUME NEW j \in 1..Len(u) PROVE a[Len(b) + j] = u[j]
    OBVIOUS
  <2>1. /\ Len(b) + j \in 1..(Len(b) + Len(u)) /\ ~(Len(b) + j <= Len(b))
        /\ (Len(b) + j) - Len(b) = j
    BY <1>2
  <2> QED
    BY <1>1, <2>1
<1> SUFFICES ASSUME NEW i \in 1..Len(a)
             PROVE  /\ a[i].k <= a[i].n
                    /\ a[i].k > 1 => i > 1 /\ a[i - 1] = [a[i] EXCEPT !.k = @ - 1]
                    /\ a[i].k < a[i].n => i < Len(a) /\ a[i + 1] = [a[i] EXCEPT !.k = @ + 1]
  BY DEF Framed, a
<1>5. CASE i <= Len(b)
  <2>1. i \in 1..Len(b)
    BY <1>5
  <2>2. a[i] = b[i]
    BY <1>3, <2>1
  <2>3. /\ b[i].k <= b[i].n
        /\ b[i].k > 1 => i > 1 /\ b[i - 1] = [b[i] EXCEPT !.k = @ - 1]
        /\ b[i].k < b[i].n => i < Len(b) /\ b[i + 1] = [b[i] EXCEPT !.k = @ + 1]
    BY <2>1 DEF Framed
  <2>4. i > 1 => a[i - 1] = b[i - 1]
    <3>1. i > 1 => i - 1 \in 1..Len(b)
      BY <1>2, <2>1
    <3> QED
      BY <1>3, <3>1
  <2>5. i < Len(b) => i < Len(a) /\ a[i + 1] = b[i + 1]
    <3>1. i < Len(b) => i + 1 \in 1..Len(b) /\ i < Len(a)
      BY <1>1, <1>2, <2>1
    <3> QED
      BY <1>3, <3>1
  <2> QED
    BY <2>2, <2>3, <2>4, <2>5
<1>6. CASE ~(i <= Len(b))
  <2>1. PICK j \in 1..Len(u) : i = Len(b) + j
    <3>1. i - Len(b) \in 1..Len(u) /\ i = Len(b) + (i - Len(b))
      BY <1>1, <1>2, <1>6
    <3> QED
      BY <3>1
  <2>2. a[i] = u[j]
    BY <1>4, <2>1
  <2>3. /\ u[j].k <= u[j].n
        /\ u[j].k > 1 => j > 1 /\ u[j - 1] = [u[j] EXCEPT !.k = @ - 1]
        /\ u[j].k < u[j].n => j < Len(u) /\ u[j + 1] = [u[j] EXCEPT !.k = @ + 1]
    BY DEF Framed
  <2>4. j > 1 => i > 1 /\ a[i - 1] = u[j - 1]
    <3>1. j > 1 => j - 1 \in 1..Len(u) /\ i > 1 /\ i - 1 = Len(b) + (j - 1)
      BY <1>2, <2>1
    <3> QED
      BY <1>4, <3>1
  <2>5. j < Len(u) => i < Len(a) /\ a[i + 1] = u[j + 1]
    <3>1. j < Len(u) => j + 1 \in 1..Len(u) /\ i < Len(a) /\ i + 1 = Len(b) + (j + 1)
      BY <1>1, <1>2, <2>1
    <3> QED
      BY <1>4, <3>1
  <2> QED
    BY <2>2, <2>3, <2>4, <2>5
<1> QED
  BY <1>5, <1>6

\* What comes after the first message is whole messages too.
LEMMA FramedRest ==
  ASSUME NEW p \in Seq(UnitOf(Text)), NEW t \in Seq(UnitOf(Text)), Framed(p \o t), p # <<>>, Len(p) = p[1].n
  PROVE  Framed(t)
<1> DEFINE a == p \o t
           q == Len(p)
<1>1. /\ a \in Seq(UnitOf(Text)) /\ Len(a) = Len(p) + Len(t)
      /\ \A i \in 1..(Len(p) + Len(t)) : a[i] = IF i <= Len(p) THEN p[i] ELSE t[i - Len(p)]
  BY ConcatProperties
<1>2. /\ \A i \in 1..Len(a) :
           /\ a[i].k <= a[i].n
           /\ a[i].k > 1 => i > 1 /\ a[i - 1] = [a[i] EXCEPT !.k = @ - 1]
           /\ a[i].k < a[i].n => i < Len(a) /\ a[i + 1] = [a[i] EXCEPT !.k = @ + 1]
  BY DEF Framed
<1> HIDE DEF a
<1>3. q \in Nat /\ Len(t) \in Nat /\ q >= 1 /\ q \in 1..Len(a) /\ 1 \in 1..Len(a)
  <2>1. Len(p) \in Nat /\ Len(t) \in Nat /\ Len(p) >= 1
    BY EmptySeq
  <2> QED
    BY <1>1, <2>1
<1> HIDE DEF q
<1>4. \A i \in 1..Len(a) : a[i] \in UnitOf(Text)
  BY <1>1
<1>5. a[1] = p[1] /\ a[1].n = q
  BY <1>1, <1>3 DEF q
<1>6. \A j \in 1..Len(t) : q + j \in 1..Len(a) /\ a[q + j] = t[j]
  <2> SUFFICES ASSUME NEW j \in 1..Len(t) PROVE q + j \in 1..Len(a) /\ a[q + j] = t[j]
    OBVIOUS
  <2>1. q + j \in 1..(q + Len(t)) /\ ~(q + j <= q) /\ (q + j) - q = j
    BY <1>3
  <2> QED
    BY <1>1, <2>1 DEF q
<1>7. a[1].k = 1
  <2>1. a[1].k \in Int /\ a[1].k >= 1
    BY <1>3, <1>4, UnitEqual
  <2>2. ~(a[1].k > 1)
    <3>1. a[1].k > 1 => 1 > 1
      BY <1>2, <1>3, Zenon
    <3> QED
      BY <3>1
  <2> QED
    BY <2>1, <2>2
<1>8. a[q].k = q /\ a[q].n = q
  <2>1. q \in {1, 2}
    <3>1. q <= 2
      BY <1>3, <1>4, <1>5, UnitEqual
    <3> QED
      BY <1>3, <3>1
  <2>2. CASE q = 1
    BY <1>5, <1>7, <2>2
  <2>3. CASE q = 2
    <3>1. a[1].k < a[1].n
      BY <1>5, <1>7, <2>3
    <3>2. a[1 + 1] = [a[1] EXCEPT !.k = @ + 1]
      BY <1>2, <1>3, <3>1
    <3>3. a[2] = [a[1] EXCEPT !.k = @ + 1] /\ a[2] \in UnitOf(Text) /\ a[1] \in UnitOf(Text)
      BY <1>3, <1>4, <2>3, <3>2
    <3>4. a[2].n = a[1].n /\ a[2].k = a[1].k + 1
      BY <3>3, UnitEqual
    <3> QED
      BY <1>5, <1>7, <2>3, <3>4
  <2> QED
    BY <2>1, <2>2, <2>3
<1> SUFFICES ASSUME NEW j \in 1..Len(t)
             PROVE  /\ t[j].k <= t[j].n
                    /\ t[j].k > 1 => j > 1 /\ t[j - 1] = [t[j] EXCEPT !.k = @ - 1]
                    /\ t[j].k < t[j].n => j < Len(t) /\ t[j + 1] = [t[j] EXCEPT !.k = @ + 1]
  BY DEF Framed
<1> DEFINE i == q + j
<1>9. i \in 1..Len(a) /\ a[i] = t[j]
  BY <1>6
<1>10. t[j].k <= t[j].n
  BY <1>2, <1>9
<1>11. ASSUME t[j].k > 1 PROVE j > 1 /\ t[j - 1] = [t[j] EXCEPT !.k = @ - 1]
  <2>1. a[i - 1] = [a[i] EXCEPT !.k = @ - 1]
    BY <1>2, <1>9, <1>11
  <2>2. CASE j = 1
    <3>1. i - 1 = q
      BY <1>3, <2>2
    <3>2. a[q] = [a[i] EXCEPT !.k = @ - 1] /\ a[q] \in UnitOf(Text) /\ a[i] \in UnitOf(Text)
      BY <1>3, <1>4, <1>9, <2>1, <3>1
    <3>3. a[q].n = a[i].n /\ a[q].k = a[i].k - 1 /\ a[i].k \in Int
      BY <3>2, UnitEqual
    <3>4. a[i].n = q /\ q = a[i].k - 1 /\ a[i].k <= a[i].n
      BY <1>8, <1>9, <1>10, <3>3
    <3>5. FALSE
      BY <1>3, <3>3, <3>4
    <3> QED
      BY <3>5
  <2>3. CASE j # 1
    <3>1. j > 1 /\ j - 1 \in 1..Len(t) /\ q + (j - 1) = i - 1
      BY <1>3, <2>3
    <3>2. a[i - 1] = t[j - 1]
      BY <1>6, <3>1
    <3> QED
      BY <1>9, <2>1, <3>1, <3>2
  <2> QED
    BY <2>2, <2>3
<1>12. ASSUME t[j].k < t[j].n PROVE j < Len(t) /\ t[j + 1] = [t[j] EXCEPT !.k = @ + 1]
  <2>1. i < Len(a) /\ a[i + 1] = [a[i] EXCEPT !.k = @ + 1]
    BY <1>2, <1>9, <1>12
  <2>2. j < Len(t) /\ j + 1 \in 1..Len(t) /\ q + (j + 1) = i + 1
    BY <1>1, <1>3, <2>1 DEF q
  <2>3. a[i + 1] = t[j + 1]
    BY <1>6, <2>2
  <2> QED
    BY <1>9, <2>1, <2>2, <2>3
<1> QED
  BY <1>10, <1>11, <1>12

\* slot_send() adds whole messages at the end of the stream.
LEMMA StreamSent ==
  ASSUME NEW r \in SlotType, NEW k \in SockType, NEW q \in SlotType, NEW x \in SockType,
         StreamOK(r, k), Line(x) = Line(k), Appended(x.tx \o q.sbuf, k.tx \o r.sbuf)
  PROVE  StreamOK(q, x)
<1> SUFFICES ASSUME Connected(x), ~Dead(x)
             PROVE  Framed(x.part \o (x.tx \o q.sbuf)) /\ ~Complete(x.part)
  BY DEF StreamOK
<1>1. x.part = k.part /\ x.state = k.state /\ x.client = k.client
  BY DEF Line
<1>2. Framed(k.part \o (k.tx \o r.sbuf)) /\ ~Complete(k.part)
  BY <1>1 DEF StreamOK, Connected, Dead
<1>3. k.part \in Seq(UnitOf(Text)) /\ k.tx \in Seq(UnitOf(Text)) /\ r.sbuf \in Seq(UnitOf(Text))
  BY DEF SockType, SlotType
<1> DEFINE t == k.tx \o r.sbuf
<1>4. t \in Seq(UnitOf(Text))
  BY <1>3, ConcatProperties
<1> HIDE DEF t
<1>5. CASE x.tx \o q.sbuf = t
  BY <1>1, <1>2, <1>5 DEF t
<1>6. ASSUME NEW m \in Text, x.tx \o q.sbuf = t \o Units(m, m)
      PROVE  Framed(x.part \o (x.tx \o q.sbuf))
  <2> DEFINE u == Units(m, m)
  <2>1. u \in Seq(UnitOf(Text)) /\ Framed(u)
    BY UnitsFramed
  <2> HIDE DEF u
  <2>2. (k.part \o t) \o u = k.part \o (t \o u)
    BY <1>3, <1>4, <2>1, TextConcat, Zenon
  <2>3. Framed(k.part \o t) /\ k.part \o t \in Seq(UnitOf(Text))
    BY <1>2, <1>3, <1>4, ConcatProperties DEF t
  <2>4. Framed((k.part \o t) \o u)
    BY <2>1, <2>3, FramedConcat
  <2> QED
    BY <1>1, <1>6, <2>2, <2>4 DEF u
<1> QED
  BY <1>1, <1>2, <1>5, <1>6 DEF Appended, t

\* The client reads a unit of the stream, and forgets the message that it ends.
LEMMA StreamRead ==
  ASSUME NEW r \in SlotType, NEW k \in SockType, StreamOK(r, k), k.tx # <<>>, NEW p,
         p = Append(k.part, k.tx[1])
  PROVE  StreamOK(r, [k EXCEPT !.tx = Tail(@), !.part = IF Complete(p) THEN <<>> ELSE p])
<1> DEFINE x == [k EXCEPT !.tx = Tail(@), !.part = IF Complete(p) THEN <<>> ELSE p]
           h == k.tx[1]
           t == Tail(k.tx)
<1>1. /\ x.part = (IF Complete(p) THEN <<>> ELSE p) /\ x.tx = t
      /\ x.state = k.state /\ x.client = k.client
  BY DEF SockType
<1>2. k.part \in Seq(UnitOf(Text)) /\ k.tx \in Seq(UnitOf(Text)) /\ r.sbuf \in Seq(UnitOf(Text))
  BY DEF SockType, SlotType
<1>3. h \in UnitOf(Text) /\ t \in Seq(UnitOf(Text)) /\ <<h>> \in Seq(UnitOf(Text))
  BY <1>2
<1>4. k.tx = <<h>> \o t
  <2>1. 1 \in 1..Len(k.tx) /\ Len(k.tx) \in 1..Len(k.tx)
    BY <1>2
  <2>2. SubSeq(k.tx, 1, Len(k.tx)) = <<k.tx[1]>> \o SubSeq(k.tx, 1 + 1, Len(k.tx))
    BY <1>2, <2>1, SubSeqRecursiveFirst
  <2>3. SubSeq(k.tx, 1, Len(k.tx)) = k.tx /\ t = SubSeq(k.tx, 2, Len(k.tx)) /\ 1 + 1 = 2
    BY <1>2, SubSeqFull, TailIsSubSeq
  <2> QED
    BY <2>2, <2>3
<1>5. p = k.part \o <<h>>
  BY <1>2, <1>3, AppendIsConcat
<1> HIDE DEF h, t, x
<1> SUFFICES ASSUME Connected(x), ~Dead(x)
             PROVE  Framed(x.part \o (x.tx \o r.sbuf)) /\ ~Complete(x.part)
  BY DEF StreamOK, x
<1>6. Framed(k.part \o (k.tx \o r.sbuf)) /\ ~Complete(k.part)
  BY <1>1 DEF StreamOK, Connected, Dead
<1>7. p \in Seq(UnitOf(Text)) /\ t \o r.sbuf \in Seq(UnitOf(Text))
  BY <1>2, <1>3, <1>5, ConcatProperties
<1>8. k.part \o (k.tx \o r.sbuf) = p \o (t \o r.sbuf)
  <2>1. (<<h>> \o t) \o r.sbuf = <<h>> \o (t \o r.sbuf)
    BY <1>2, <1>3, TextConcat, Zenon
  <2>2. (k.part \o <<h>>) \o (t \o r.sbuf) = k.part \o (<<h>> \o (t \o r.sbuf))
    <3> DEFINE v == t \o r.sbuf
               w == <<h>>
    <3>1. v \in Seq(UnitOf(Text)) /\ w \in Seq(UnitOf(Text)) /\ k.part \in Seq(UnitOf(Text))
      BY <1>2, <1>3, <1>7
    <3> HIDE DEF v, w
    <3>2. (k.part \o w) \o v = k.part \o (w \o v)
      BY <3>1, TextConcat, Zenon
    <3> QED
      BY <3>2 DEF v, w
  <2> QED
    BY <1>4, <1>5, <2>1, <2>2
<1>9. CASE ~Complete(p)
  BY <1>1, <1>6, <1>8, <1>9
<1>10. CASE Complete(p)
  <2>1. p # <<>> /\ Len(p) >= p[1].n
    BY <1>10 DEF Complete
  <2>2. Len(p) = Len(k.part) + 1 /\ Len(k.part) \in Nat
    BY <1>2, <1>3, AppendProperties DEF h
  <2>3. p[1] \in UnitOf(Text)
    BY <1>7, <2>1
  <2>4. p[1].n \in Int /\ p[1].n >= 1
    BY <2>3, UnitEqual
  <2>5. Len(p) = p[1].n
    <3>1. CASE k.part = <<>>
      <4>1. Len(k.part) = 0
        BY <3>1
      <4> QED
        BY <2>1, <2>2, <2>4, <4>1
    <3>2. CASE k.part # <<>>
      <4>1. ~(Len(k.part) >= k.part[1].n)
        BY <1>6, <3>2 DEF Complete
      <4>2. 1 \in 1..Len(k.part)
        BY <1>2, <3>2
      <4>3. p[1] = k.part[1]
        BY <1>2, <1>3, <4>2, AppendProperties DEF h
      <4> QED
        BY <2>1, <2>2, <2>4, <4>1, <4>3
    <3> QED
      BY <3>1, <3>2
  <2>6. Framed(t \o r.sbuf)
    BY <1>6, <1>7, <1>8, <2>1, <2>5, FramedRest
  <2>7. <<>> \o (t \o r.sbuf) = t \o r.sbuf
    BY <1>7, ConcatEmptySeq
  <2>8. ~Complete(<<>>)
    BY DEF Complete
  <2> QED
    BY <1>1, <1>10, <2>6, <2>7, <2>8
<1> QED
  BY <1>9, <1>10

\* Nothing sent is a stream of no message.
LEMMA StreamEmpty ==
  ASSUME NEW r, NEW k, k.part = <<>>, k.tx = <<>>, r.sbuf = <<>>
  PROVE  StreamOK(r, k)
<1>1. <<>> \o (<<>> \o <<>>) = <<>> /\ Len(<<>>) = 0
  BY ConcatEmptySeq, EmptySeq
<1>2. Framed(<<>>) /\ ~Complete(<<>>)
  BY <1>1 DEF Framed, Complete
<1> QED
  BY <1>1, <1>2 DEF StreamOK

LEMMA SendsFrame ==
  ASSUME IInv, FrameInv, at # "down", at' # "down", NEW s \in Slots, NEW gone \in SUBSET {s}, Sends(s, gone)
  PROVE  FrameInv'
<1>1. \A r \in Slots : InUse(r) => clients[r].conn \in Conns /\ Sock(r).state = "open"
  BY DEF IInv, TypeOK, SlotInv, InUse
<1>2. ASSUME NEW c \in Conns, sock'[c].state \in {"none", "backlog"}
      PROVE  sock'[c].tx = <<>> /\ sock'[c].part = <<>>
  <2>1. CASE \A r \in Slots : clients[r].conn # c
    BY <1>2, <2>1 DEF Sends, FrameInv
  <2>2. CASE \E r \in Slots : clients[r].conn = c
    <3>1. PICK r \in Slots : clients[r].conn = c
      BY <2>2
    <3>2. InUse(r)
      BY <3>1, ProtocolAssumption DEF InUse
    <3>3. CASE r \in gone
      BY <1>2, <3>1, <3>2, <3>3 DEF Sends, Closed
    <3>4. CASE r \notin gone
      <4>1. sock'[c].state = Sock(r).state
        BY <3>1, <3>2, <3>4 DEF Sends, Line
      <4> QED
        BY <1>1, <1>2, <3>2, <4>1
    <3> QED
      BY <3>3, <3>4
  <2> QED
    BY <2>1, <2>2
<1>3. ASSUME NEW r \in Slots, InUse(r)'
      PROVE  StreamOK(clients'[r], Sock(r)')
  <2>1. r \notin gone /\ InUse(r) /\ clients'[r].conn = clients[r].conn
    BY <1>3 DEF Sends, Emptied, InUse
  <2>2. Sock(r)' = sock'[clients[r].conn] /\ Sock(r) = sock[clients[r].conn]
    BY <2>1 DEF Sock
  <2>3. /\ Line(Sock(r)') = Line(Sock(r))
        /\ Appended(Sock(r)'.tx \o clients'[r].sbuf, Sock(r).tx \o clients[r].sbuf)
    BY <2>1, <2>2 DEF Sends
  <2>4. StreamOK(clients[r], Sock(r))
    BY <2>1 DEF FrameInv
  <2>5. /\ clients[r] \in SlotType /\ clients'[r] \in SlotType
        /\ Sock(r) \in SockType /\ Sock(r)' \in SockType
    BY <1>1, <2>1, <2>2 DEF IInv, Shape, Sends
  <2> QED
    BY <2>3, <2>4, <2>5, StreamSent
<1>4. \A r \in Slots : StreamOK(clients[r], Sock(r))' <=> StreamOK(clients'[r], Sock(r)')
  BY DEF StreamOK, Connected, Dead, Framed, Complete
<1> QED
  BY <1>2, <1>3, <1>4 DEF FrameInv

\* The streams are as they were where no socket and no SendBuf is touched.
LEMMA FrameUnchanged ==
  ASSUME FrameInv, clients' = clients, sock' = sock, at' = "down" => at = "down"
  PROVE  FrameInv'
<1>1. \A s \in Slots : (InUse(s)' <=> InUse(s)) /\ Sock(s)' = Sock(s)
  BY DEF InUse, Sock
<1>2. \A s \in Slots : StreamOK(clients[s], Sock(s))' <=> StreamOK(clients'[s], Sock(s)')
  BY DEF StreamOK, Connected, Dead, Framed, Complete
<1> QED
  BY <1>1, <1>2 DEF FrameInv

\* One slot and one socket change, and the stream between them is as it must be.
LEMMA FrameOne ==
  ASSUME IInv, FrameInv, NEW s \in Slots, NEW c \in Conns,
         \A r \in Slots \ {s} : clients'[r] = clients[r] /\ clients[r].conn # c,
         \A d \in Conns \ {c} : sock'[d] = sock[d],
         clients'[s].conn = c, sock'[c].state = "open", StreamOK(clients'[s], sock'[c]), at' # "down"
  PROVE  FrameInv'
<1>3. \A d \in Conns : sock'[d].state \in {"none", "backlog"} =>
         sock'[d].tx = <<>> /\ sock'[d].part = <<>>
  BY DEF FrameInv
<1>4. ASSUME NEW r \in Slots, InUse(r)' PROVE StreamOK(clients'[r], Sock(r)')
  <2>1. CASE r = s
    BY <2>1 DEF Sock
  <2>2. CASE r # s
    <3>1. clients'[r] = clients[r] /\ InUse(r)
      BY <1>4, <2>2 DEF InUse
    <3>2. clients[r].conn \in Conns \ {c}
      BY <2>2, <3>1 DEF IInv, TypeOK, InUse
    <3>3. Sock(r)' = Sock(r)
      BY <3>1, <3>2 DEF Sock
    <3> QED
      BY <3>1, <3>3 DEF FrameInv
  <2> QED
    BY <2>1, <2>2
<1>5. \A r \in Slots : StreamOK(clients[r], Sock(r))' <=> StreamOK(clients'[r], Sock(r)')
  BY DEF StreamOK, Connected, Dead, Framed, Complete
<1> QED
  BY <1>3, <1>4, <1>5 DEF FrameInv

\* A step of a client.
LEMMA FrameClient ==
  ASSUME IInv, FrameInv, UNCHANGED server, NEW c \in Conns, NEW k,
         sock' = [sock EXCEPT ![c] = k], k.state = "closed" \/ sock[c].state # "closed",
         k.state \in {"none", "backlog"} => k.tx = <<>> /\ k.part = <<>>,
         \A s \in Slots : InUse(s) /\ clients[s].conn = c => StreamOK(clients[s], k)
  PROVE  FrameInv'
<1>1. clients' = clients /\ at' = at
  BY DEF server
<1>2. sock'[c] = k /\ \A d \in Conns \ {c} : sock'[d] = sock[d]
  BY DEF IInv, Shape
<1>3. \A d \in Conns : sock'[d].state \in {"none", "backlog"} =>
         sock'[d].tx = <<>> /\ sock'[d].part = <<>>
  BY <1>2 DEF FrameInv
<1>4. ASSUME NEW r \in Slots, InUse(r) PROVE StreamOK(clients'[r], Sock(r)')
  <2>1. clients[r].conn \in Conns
    BY <1>4 DEF IInv, TypeOK, InUse
  <2>2. Sock(r)' = sock'[clients[r].conn] /\ Sock(r) = sock[clients[r].conn]
    BY <1>1 DEF Sock
  <2> QED
    BY <1>1, <1>2, <1>4, <2>1, <2>2 DEF FrameInv
<1>5. \A r \in Slots : StreamOK(clients[r], Sock(r))' <=> StreamOK(clients'[r], Sock(r)')
  BY DEF StreamOK, Connected, Dead, Framed, Complete
<1>6. \A r \in Slots : InUse(r)' <=> InUse(r)
  BY <1>1 DEF InUse
<1>7. at' = "down" => \A d \in Conns : sock'[d].state = "closed"
  BY <1>1, <1>2 DEF FrameInv
<1> QED
  BY <1>3, <1>4, <1>5, <1>6, <1>7 DEF FrameInv

LEMMA FrameClients ==
  ASSUME IInv, FrameInv, NEW c \in Conns,
         \/ client_connect(c) \/ client_send(c) \/ arrive(c)
         \/ client_read(c) \/ client_close(c) \/ client_reset(c)
  PROVE  FrameInv'
<1> DEFINE k == sock[c]
<1>1. k \in SockType /\ UNCHANGED server
  BY DEF IInv, Shape, client_connect, client_send, arrive, client_read, client_close, client_reset,
         Change
<1>2. k.state \in {"none", "backlog"} => k.tx = <<>> /\ k.part = <<>>
  BY DEF FrameInv
<1>3. \A s \in Slots : InUse(s) /\ clients[s].conn = c => StreamOK(clients[s], k)
  BY DEF FrameInv, Sock
<1>4. \A s \in Slots : InUse(s) /\ clients[s].conn = c => k.state # "none"
  BY DEF FrameInv, IInv, SlotInv, Sock
<1>5. ASSUME NEW x, sock' = [sock EXCEPT ![c] = x], x.tx = k.tx, x.part = k.part, x.state = k.state,
             ~Dead(x) => ~Dead(k)
      PROVE  FrameInv'
  <2>1. ASSUME NEW s \in Slots, InUse(s), clients[s].conn = c PROVE StreamOK(clients[s], x)
    BY <1>3, <1>5, <2>1 DEF StreamOK, Connected
  <2> QED
    BY <1>1, <1>2, <1>5, <2>1, FrameClient
<1>6. CASE client_connect(c)
  <2> DEFINE x == [k EXCEPT !.state = "backlog"]
  <2>1. sock' = [sock EXCEPT ![c] = x] /\ k.state = "none"
    BY <1>6 DEF client_connect
  <2>2. x.tx = k.tx /\ x.part = k.part
    BY <1>1 DEF SockType
  <2> HIDE DEF x
  <2> QED
    BY <1>1, <1>2, <1>4, <2>1, <2>2, FrameClient
<1>7. CASE client_send(c)
  <2>1. PICK m \in Requests(c) :
           Change(c, [k EXCEPT !.rx = Append(@, Units(m.kind, m)[1]), !.way = Tail(Units(m.kind, m)),
                               !.budget = @ - 1], TRUE)
    BY <1>7 DEF client_send
  <2> DEFINE x == [k EXCEPT !.rx = Append(@, Units(m.kind, m)[1]), !.way = Tail(Units(m.kind, m)),
                            !.budget = @ - 1]
  <2>2. sock' = [sock EXCEPT ![c] = x]
    BY <2>1 DEF Change
  <2>3. x.tx = k.tx /\ x.part = k.part /\ x.state = k.state /\ x.client = k.client
    BY <1>1 DEF SockType
  <2> HIDE DEF x
  <2> QED
    BY <1>5, <2>2, <2>3 DEF Dead
<1>8. CASE arrive(c)
  <2> DEFINE x == [k EXCEPT !.rx = Append(@, k.way[1]), !.way = Tail(@)]
  <2>1. sock' = [sock EXCEPT ![c] = x]
    BY <1>8 DEF arrive, Change
  <2>2. x.tx = k.tx /\ x.part = k.part /\ x.state = k.state /\ x.client = k.client
    BY <1>1 DEF SockType
  <2> HIDE DEF x
  <2> QED
    BY <1>5, <2>1, <2>2 DEF Dead
<1>9. CASE client_close(c)
  <2> DEFINE x == [k EXCEPT !.client = "closed"]
  <2>1. sock' = [sock EXCEPT ![c] = x] /\ k.client = "open"
    BY <1>9 DEF client_close, Change
  <2>2. x.tx = k.tx /\ x.part = k.part /\ x.state = k.state
    BY <1>1 DEF SockType
  <2> HIDE DEF x
  <2> QED
    BY <1>5, <2>1, <2>2 DEF Dead
<1>10. CASE client_reset(c)
  <2> DEFINE x == [k EXCEPT !.client = "dead", !.rx = <<>>, !.way = <<>>, !.tx = <<>>, !.part = <<>>]
  <2>1. sock' = [sock EXCEPT ![c] = x]
    BY <1>10 DEF client_reset, Change
  <2>2. x.tx = <<>> /\ x.part = <<>> /\ x.state = k.state /\ x.client = "dead"
    BY <1>1 DEF SockType
  <2> HIDE DEF x
  <2>3. \A s \in Slots : StreamOK(clients[s], x)
    BY <2>2 DEF StreamOK, Dead
  <2> QED
    BY <1>1, <2>1, <2>2, <2>3, FrameClient
<1>11. CASE client_read(c)
  <2> DEFINE p == Append(k.part, k.tx[1])
             x == [k EXCEPT !.tx = Tail(@), !.part = IF Complete(p) THEN <<>> ELSE p]
  <2>1. sock' = [sock EXCEPT ![c] = x] /\ k.tx # <<>>
    BY <1>11 DEF client_read, Change
  <2>2. x.state = k.state
    BY <1>1 DEF SockType
  <2>3. \A s \in Slots : InUse(s) /\ clients[s].conn = c => StreamOK(clients[s], x)
    <3>1. \A s \in Slots : clients[s] \in SlotType
      BY DEF IInv, Shape
    <3> QED
      BY <1>1, <1>3, <2>1, <3>1, StreamRead
  <2> HIDE DEF x
  <2> QED
    BY <1>1, <1>2, <2>1, <2>2, <2>3, FrameClient
<1> QED
  BY <1>6, <1>7, <1>8, <1>9, <1>10, <1>11

\* handle_read() moves units the client has sent, not those it gets.
LEMMA FrameRead ==
  ASSUME IInv, FrameInv, NEW e \in batch, handle_read(e)
  PROVE  FrameInv'
<1>1. Reads(e)
  BY DEF handle_read
<1>2. at = "events" /\ batch' = batch \ {e} /\ e.fd # Listener
  BY <1>1 DEF Reads, Handles
<1>3. e.fd \in Slots /\ InUse(e.fd)
  BY <1>2, EventLemma
<1>4. CASE disconnect_client(e.fd) /\ Then(e)
  <2>1. Sends(e.fd, {e.fd}) /\ at' # "down"
    BY <1>3, <1>4, DisconnectSends DEF Then
  <2> QED
    BY <1>2, <1>3, <2>1, SendsFrame
<1>5. CASE Read(e, Len(Sock(e.fd).rx))
  <2> DEFINE s == e.fd
             c == clients[s].conn
             n == Len(sock[c].rx)
             rb == clients[s].rbuf \o SubSeq(sock[c].rx, 1, n)
             slot == [clients[s] EXCEPT !.rbuf = rb, !.rbuf_len = clients[s].rbuf_len + n]
             k == [sock[c] EXCEPT !.rx = Drop(sock[c].rx, n)]
  <2>1. /\ clients \in [Slots -> SlotType] /\ sock \in [Conns -> SockType] /\ c \in Conns
        /\ \A r \in Slots \ {s} : clients[r].conn # c
        /\ sock[c].state = "open" /\ StreamOK(clients[s], sock[c])
    BY <1>2, <1>3 DEF IInv, Shape, TypeOK, SlotInv, FrameInv, InUse, Sock
  <2>2. clients' = [clients EXCEPT ![s] = slot] /\ sock' = [sock EXCEPT ![c] = k] /\ at' = "serve"
    BY <1>3, <1>5, <2>1 DEF Read, Sock
  <2> HIDE DEF n, rb
  <2>3. slot.conn = c /\ slot.sbuf = clients[s].sbuf
    BY <1>3, <2>1 DEF SlotType
  <2>4. k.part = sock[c].part /\ k.tx = sock[c].tx /\ k.state = sock[c].state /\ k.client = sock[c].client
    BY <2>1 DEF SockType
  <2> HIDE DEF slot, k, c, s
  <2>5. StreamOK(slot, k)
    BY <2>1, <2>3, <2>4 DEF StreamOK, Connected, Dead
  <2>6. s \in Slots
    BY <1>3 DEF s
  <2>7. clients'[s] = slot /\ \A r \in Slots \ {s} : clients'[r] = clients[r]
    BY <2>1, <2>2, <2>6
  <2>8. sock'[c] = k /\ \A d \in Conns \ {c} : sock'[d] = sock[d]
    BY <2>1, <2>2
  <2>9. at' # "down"
    BY <2>2
  <2> QED
    BY <2>1, <2>3, <2>4, <2>5, <2>6, <2>7, <2>8, <2>9, FrameOne
<1> QED
  BY <1>4, <1>5 DEF handle_read

\* sb_flush() moves units from SendBuf to the socket.
LEMMA FrameFlush ==
  ASSUME IInv, FrameInv, handle_write, NEW s \in Slots, s = cur.fd
  PROVE  FrameInv'
<1> DEFINE c == clients[s].conn
           b == clients[s].sbuf
           n == Takes(sock[c], b)
<1>1. at = "write" /\ at' = "events"
  BY DEF handle_write, Flush
<1>2. CASE ~InUse(s)
  <2>1. clients' = clients /\ sock' = sock
    BY <1>2 DEF handle_write, Flush
  <2> QED
    BY <1>1, <2>1, FrameUnchanged
<1>3. CASE InUse(s) /\ Dead(Sock(s)) /\ b # <<>>
  <2>1. disconnect_client(s)
    BY <1>3 DEF handle_write, Flush
  <2>2. Sends(s, {s})
    BY <2>1, DisconnectSends
  <2> QED
    BY <1>1, <2>2, SendsFrame
<1>4. CASE InUse(s) /\ ~(Dead(Sock(s)) /\ b # <<>>)
  <2>1. /\ clients' = [clients EXCEPT ![s].sbuf = Drop(@, n), ![s].out = TRUE /\ n < Len(b)]
        /\ sock' = [sock EXCEPT ![c].tx = @ \o SubSeq(b, 1, n)]
    BY <1>4 DEF handle_write, Flush, Sock
  <2>2. /\ clients \in [Slots -> SlotType] /\ sock \in [Conns -> SockType] /\ c \in Conns
        /\ \A r \in Slots \ {s} : clients[r].conn # c
        /\ sock[c].state = "open" /\ StreamOK(clients[s], sock[c])
    BY <1>1, <1>4 DEF IInv, Shape, TypeOK, SlotInv, FrameInv, InUse, Sock
  <2>3. /\ sock[c] \in SockType /\ sock[c].tx \in Seq(UnitOf(Text)) /\ Len(sock[c].tx) <= SockCap
        /\ b \in Seq(UnitOf(Text))
    BY <2>2 DEF SlotType, SockType, IInv, TypeOK
  <2>4. n \in 0..Len(b)
    BY <2>3, TakesType
  <2>5. /\ Drop(b, n) \in Seq(UnitOf(Text)) /\ SubSeq(b, 1, n) \in Seq(UnitOf(Text))
        /\ SubSeq(b, 1, n) \o Drop(b, n) = b
    BY <2>3, <2>4, DropType, SplitConcat
  <2> DEFINE slot == [clients[s] EXCEPT !.sbuf = Drop(b, n), !.out = TRUE /\ n < Len(b)]
             k == [sock[c] EXCEPT !.tx = sock[c].tx \o SubSeq(b, 1, n)]
  <2> HIDE DEF n
  <2>6. clients' = [clients EXCEPT ![s] = slot] /\ sock' = [sock EXCEPT ![c] = k]
    BY <2>1, <2>2
  <2>7. slot.conn = c /\ slot.sbuf = Drop(b, n)
    BY <2>2 DEF SlotType
  <2>8. /\ k.part = sock[c].part /\ k.state = sock[c].state /\ k.client = sock[c].client
        /\ k.tx = sock[c].tx \o SubSeq(b, 1, n)
    BY <2>3 DEF SockType
  <2>9. (sock[c].tx \o SubSeq(b, 1, n)) \o Drop(b, n) = sock[c].tx \o b
    <3> DEFINE y == SubSeq(b, 1, n)
               z == Drop(b, n)
    <3>1. y \in Seq(UnitOf(Text)) /\ z \in Seq(UnitOf(Text)) /\ y \o z = b
      BY <2>5
    <3> HIDE DEF y, z
    <3>2. (sock[c].tx \o y) \o z = sock[c].tx \o (y \o z)
      BY <2>3, <3>1, TextConcat, Zenon
    <3> QED
      BY <3>1, <3>2 DEF y, z
  <2> HIDE DEF slot, k, c
  <2>10. StreamOK(slot, k)
    BY <2>2, <2>7, <2>8, <2>9 DEF StreamOK, Connected, Dead
  <2>11. clients'[s] = slot /\ \A r \in Slots \ {s} : clients'[r] = clients[r]
    BY <2>2, <2>6
  <2>12. sock'[c] = k /\ \A d \in Conns \ {c} : sock'[d] = sock[d]
    BY <2>2, <2>6
  <2>13. /\ clients'[s].conn = c /\ sock'[c].state = "open" /\ at' # "down"
         /\ StreamOK(clients'[s], sock'[c])
    BY <1>1, <2>2, <2>7, <2>8, <2>10, <2>11, <2>12
  <2>14. /\ \A r \in Slots \ {s} : clients'[r] = clients[r] /\ clients[r].conn # c
         /\ \A d \in Conns \ {c} : sock'[d] = sock[d]
         /\ c \in Conns
    BY <2>2, <2>11, <2>12
  <2> QED
    BY <2>13, <2>14, FrameOne
<1> QED
  BY <1>2, <1>3, <1>4

\* accept() gives a connection nothing has been sent to a slot with an empty SendBuf.
LEMMA FrameAccept ==
  ASSUME IInv, FrameInv, NEW c \in Conns, main_accept(c)
  PROVE  FrameInv'
<1>1. at = "accept" /\ at' = "accept" /\ sock[c].state = "backlog" /\ c # Nobody
  BY ProtocolAssumption DEF main_accept, Admit
<1>2. /\ sock \in [Conns -> SockType] /\ clients \in [Slots -> SlotType]
      /\ \A s \in Slots : clients[s].conn # c
      /\ sock[c].tx = <<>> /\ sock[c].part = <<>>
  BY <1>1 DEF IInv, Shape, SlotInv, InUse, Sock, FrameInv
<1>3. CASE \E s \in Slots : /\ clients' = [clients EXCEPT ![s] = [FreeSlot EXCEPT !.conn = c]]
                            /\ sock' = [sock EXCEPT ![c].state = "open"]
  <2>1. PICK s \in Slots : /\ clients' = [clients EXCEPT ![s] = [FreeSlot EXCEPT !.conn = c]]
                           /\ sock' = [sock EXCEPT ![c].state = "open"]
    BY <1>3
  <2>2. /\ clients'[s] = [FreeSlot EXCEPT !.conn = c]
        /\ \A r \in Slots \ {s} : clients'[r] = clients[r]
    BY <1>2, <2>1
  <2>3. clients'[s].conn = c /\ clients'[s].sbuf = <<>>
    BY <2>2 DEF FreeSlot
  <2>4. /\ sock'[c] = [sock[c] EXCEPT !.state = "open"] /\ sock[c] \in SockType
        /\ \A d \in Conns \ {c} : sock'[d] = sock[d]
    BY <1>2, <2>1
  <2>5. sock'[c].state = "open" /\ sock'[c].tx = <<>> /\ sock'[c].part = <<>>
    BY <1>2, <2>4 DEF SockType
  <2>6. StreamOK(clients'[s], sock'[c])
    BY <2>3, <2>5, StreamEmpty
  <2>7. at' # "down" /\ \A r \in Slots \ {s} : clients'[r] = clients[r] /\ clients[r].conn # c
    BY <1>1, <1>2, <2>2
  <2>8. /\ clients'[s].conn = c /\ sock'[c].state = "open"
        /\ \A d \in Conns \ {c} : sock'[d] = sock[d]
    BY <2>3, <2>4, <2>5
  <2> QED
    BY <2>6, <2>7, <2>8, FrameOne
<1>4. CASE clients' = clients /\ sock' = [sock EXCEPT ![c] = Closed]
  <2>1. sock'[c] = Closed /\ \A d \in Conns \ {c} : sock'[d] = sock[d]
    BY <1>2, <1>4
  <2>2. \A d \in Conns : sock'[d].state \in {"none", "backlog"} =>
           sock'[d].tx = <<>> /\ sock'[d].part = <<>>
    BY <2>1 DEF FrameInv, Closed
  <2>3. ASSUME NEW r \in Slots, InUse(r)' PROVE StreamOK(clients'[r], Sock(r)')
    <3>1. InUse(r) /\ clients[r].conn \in Conns \ {c}
      BY <1>2, <1>4, <2>3 DEF IInv, TypeOK, InUse
    <3>2. Sock(r)' = Sock(r)
      BY <1>4, <2>1, <3>1 DEF Sock
    <3> QED
      BY <1>4, <3>1, <3>2 DEF FrameInv
  <2>4. \A r \in Slots : StreamOK(clients[r], Sock(r))' <=> StreamOK(clients'[r], Sock(r)')
    BY DEF StreamOK, Connected, Dead, Framed, Complete
  <2> QED
    BY <1>1, <2>2, <2>3, <2>4 DEF FrameInv
<1> QED
  BY <1>3, <1>4 DEF main_accept, Admit

LEMMA FrameExit ==
  ASSUME IInv, FrameInv, main_exit
  PROVE  FrameInv'
<1>1. clients' = clients /\ sock' = [c \in Conns |-> Closed]
  BY DEF main_exit
<1>2. \A c \in Conns : sock'[c].state = "closed"
  BY <1>1 DEF Closed
<1>3. ASSUME NEW r \in Slots, InUse(r)' PROVE StreamOK(clients'[r], Sock(r)')
  <2>1. clients'[r].conn \in Conns
    BY <1>1, <1>3 DEF IInv, TypeOK, InUse
  <2>2. Sock(r)'.state = "closed"
    BY <1>2, <2>1 DEF Sock
  <2> QED
    BY <2>2 DEF StreamOK, Connected
<1>4. \A r \in Slots : StreamOK(clients[r], Sock(r))' <=> StreamOK(clients'[r], Sock(r)')
  BY DEF StreamOK, Connected, Dead, Framed, Complete
<1> QED
  BY <1>2, <1>3, <1>4 DEF FrameInv

LEMMA FrameStep == IInv /\ FrameInv /\ [Next]_vars => FrameInv'
<1> SUFFICES ASSUME IInv, FrameInv, [Next]_vars PROVE FrameInv'
  OBVIOUS
<1>1. CASE epoll_wait \/ main_accept_ends \/ handle_read_ends
  <2>1. clients' = clients /\ sock' = sock /\ at' # "down"
    BY <1>1 DEF epoll_wait, Waiting, main_accept_ends, handle_read_ends, Then
  <2> QED
    BY <2>1, FrameUnchanged
<1>2. CASE handle_write
  <2>1. at = "write"
    BY <1>2 DEF handle_write, Flush
  <2>2. PICK s \in Slots : s = cur.fd
    BY <2>1 DEF IInv, BatchInv
  <2> QED
    BY <1>2, <2>2, FrameFlush
<1>3. ASSUME NEW s \in Slots, process_message(s) PROVE FrameInv'
  <2>1. at \in {"serve", "ack"}
    BY <1>3, ProcessLemma
  <2>2. PICK gone \in SUBSET {s} : Processed(s, gone)
    BY <1>3, ProcessLemma
  <2>3. Sends(s, gone) /\ at' # "down"
    BY <2>2 DEF Processed
  <2> QED
    BY <2>1, <2>3, SendsFrame
<1>4. ASSUME NEW e \in batch, handle_read(e) PROVE FrameInv'
  BY <1>4, FrameRead
<1>5. ASSUME NEW e \in batch, handle_hup(e) PROVE FrameInv'
  <2>1. at = "events" /\ batch' = batch \ {e} /\ e.hup /\ at' = at
    BY <1>5 DEF handle_hup, Handles
  <2>2. e.fd # Listener
    BY <2>1 DEF IInv, BatchInv, ListenerEvent, Event
  <2>3. e.fd \in Slots /\ InUse(e.fd)
    BY <2>1, <2>2, EventLemma
  <2>4. Sends(e.fd, {e.fd})
    BY <1>5, <2>3, DisconnectSends DEF handle_hup
  <2> QED
    BY <2>1, <2>3, <2>4, SendsFrame
<1>6. ASSUME NEW e \in batch, handle_other(e) \/ main_listener(e) PROVE FrameInv'
  <2>1. clients' = clients /\ sock' = sock /\ at' # "down"
    BY <1>6 DEF handle_other, main_listener, Then
  <2> QED
    BY <2>1, FrameUnchanged
<1>7. ASSUME NEW c \in Conns, main_accept(c) PROVE FrameInv'
  BY <1>7, FrameAccept
<1>8. CASE main_exit
  BY <1>8, FrameExit
<1>9. CASE \E c \in Conns : \/ client_connect(c) \/ client_send(c) \/ arrive(c)
                            \/ client_read(c) \/ client_close(c) \/ client_reset(c)
  BY <1>9, FrameClients
<1>10. CASE UNCHANGED vars
  BY <1>10, FrameUnchanged DEF vars, server
<1> QED
  BY <1>1, <1>2, <1>3, <1>4, <1>5, <1>6, <1>7, <1>8, <1>9, <1>10 DEF Next, LoopStep

\* What a client has read and will read is a sequence of whole messages, however
\* write() cuts them up: slot_send() buffers the rest of a message or, when
\* SendBuf is full, refuses it whole, and handle_write() keeps the order.
THEOREM FramingKept == Spec => []WellFramed
<1>1. Init => FrameInv
  <2> SUFFICES ASSUME Init PROVE FrameInv
    OBVIOUS
  <2>1. \A s \in Slots : ~InUse(s)
    BY DEF Init, InUse, FreeSlot
  <2>2. \A c \in Conns : sock[c].tx = <<>> /\ sock[c].part = <<>>
    BY DEF Init, NewSock
  <2>3. at # "down"
    BY DEF Init
  <2> QED
    BY <2>1, <2>2, <2>3 DEF FrameInv
<1>2. IInv /\ FrameInv => WellFramed
  <2> SUFFICES ASSUME IInv, FrameInv, NEW s \in Slots, InUse(s), Connected(Sock(s)), ~Dead(Sock(s))
               PROVE  LET b == Sock(s).part \o Sock(s).tx \o clients[s].sbuf
                      IN  \A k \in 1..Len(b) :
                            /\ b[k].k > 1 => k > 1 /\ b[k - 1] = [b[k] EXCEPT !.k = @ - 1]
                            /\ b[k].k < b[k].n => k < Len(b) /\ b[k + 1] = [b[k] EXCEPT !.k = @ + 1]
    BY DEF WellFramed
  <2>1. clients[s] \in SlotType /\ Sock(s) \in SockType
    BY DEF IInv, Shape, TypeOK, InUse, Sock
  <2>2. /\ Sock(s).part \in Seq(UnitOf(Text)) /\ Sock(s).tx \in Seq(UnitOf(Text))
        /\ clients[s].sbuf \in Seq(UnitOf(Text))
    BY <2>1 DEF SlotType, SockType
  <2>3. Framed(Sock(s).part \o (Sock(s).tx \o clients[s].sbuf))
    BY DEF FrameInv, StreamOK
  <2>4. (Sock(s).part \o Sock(s).tx) \o clients[s].sbuf
            = Sock(s).part \o (Sock(s).tx \o clients[s].sbuf)
    BY <2>2, TextConcat, Zenon
  <2>5. Framed(Sock(s).part \o Sock(s).tx \o clients[s].sbuf)
    BY <2>3, <2>4
  <2> QED
    BY <2>5 DEF Framed
<1> QED
  BY <1>1, <1>2, FrameStep, Invariance, PTL DEF Spec

=============================================================================
