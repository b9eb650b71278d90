------------------------- MODULE DiscoveryProtocol -------------------------
(***************************************************************************)
(* What a caller of the discovery server sends and receives: the payloads  *)
(* handle_connection() parses and the responses it makes, without text.    *)
(***************************************************************************)
EXTENDS Naturals

CONSTANTS
    Calls,      \* connections, each of which carries one call
    Users,      \* user names
    Passwords,
    Ips, Ports,
    Word,       \* what of a password sscanf("%63s") reads
    MaxUsers,   \* MAX_USERS
    IpOf,       \* the peer address of a call
    KindsOf,    \* the kinds of request that come on a connection
    None        \* no account, no name, no thread

Account == [pass : Passwords, ip : Ips, port : Ports]

\* Word stops at the first blank, so it changes nothing the second time.
ASSUME RegistryAssumption ==
    /\ Word \in [Passwords -> Passwords]
    /\ \A p \in Passwords : Word[Word[p]] = Word[p]
    /\ MaxUsers \in Nat \ {0}
    /\ IpOf \in [Calls -> Ips]
    /\ KindsOf \in [Calls -> SUBSET {"REGISTER", "VALIDATE", "DISCOVER", "BAD"}]
    /\ None \notin Users \cup Calls \cup Account

\* MSG_REGISTER, MSG_DISCOVER and MSG_VALIDATE with a well-formed payload, and
\* whatever else arrives.
Request ==
    [kind : {"REGISTER"}, user : Users, pass : Passwords, port : Ports]
    \cup [kind : {"VALIDATE"}, user : Users, pass : Passwords]
    \cup [kind : {"DISCOVER"}, user : Users]
    \cup [kind : {"BAD"}]

Requests(t) == {r \in Request : r.kind \in KindsOf[t]}

NoRequest == [kind |-> "NONE"]

\* Status of an answer, and the address it carries; "none" is no answer yet.
Answer(st) == [status |-> st, ip |-> None, port |-> None]
Found(acc) == [status |-> "found", ip |-> acc.ip, port |-> acc.port]

=============================================================================
