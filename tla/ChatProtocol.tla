---------------------------- MODULE ChatProtocol ----------------------------
(***************************************************************************)
(* protocol.h as the chat servers see it: who the clients are and what     *)
(* they send.  The payload of MSG_LOGIN is abstracted to the name in it    *)
(* (BADLOGIN is one sscanf() rejects), that of MSG_STATUS_CHANGE to the    *)
(* status it is read as; the texts of messages are left out.               *)
(***************************************************************************)

CONSTANTS
    Conns,        \* connections that may be made, each by one client program
    Users,        \* user names
    NamesOf,      \* the names a client logs in and sends under
    Kinds,        \* the kinds of request a client sends
    Nobody,       \* no connection, no process, no thread
    NoUser        \* the zeroed username

AllKinds == {"LOGIN", "BADLOGIN", "LOGOUT", "BROADCAST", "PRIVATE", "LIST",
             "HISTORY", "STATUS", "UNKNOWN"}

ASSUME ProtocolAssumption ==
    /\ NamesOf \in [Conns -> SUBSET Users]
    /\ Kinds \in [Conns -> SUBSET AllKinds]
    /\ Nobody \notin Conns
    /\ NoUser \notin Users

Statuses == {"available", "busy", "away"}

\* arg is the receiver of a private message or the new status.
Request ==
    [kind : AllKinds \ {"STATUS"}, from : Users, arg : Users \cup {NoUser}]
    \cup [kind : {"STATUS"}, from : Users, arg : Statuses]

NoMsg == [kind |-> "UNKNOWN", from |-> NoUser, arg |-> NoUser]

\* What a server writes to the client that asked, and to the others.
Reply == {"ack", "err", "list", "hist", "nohist"}
Push  == {"bcast", "left", "disc", "priv"}

\* What the client behind connection d may send.
Requests(d) ==
    LET Of(kinds, args) == [kind : kinds \cap Kinds[d], from : NamesOf[d], arg : args]
    IN  Of(AllKinds \ {"PRIVATE", "STATUS"}, {NoUser})
        \cup Of({"PRIVATE"}, Users) \cup Of({"STATUS"}, Statuses)

=============================================================================
