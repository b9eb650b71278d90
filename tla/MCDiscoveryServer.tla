-------------------------- MODULE MCDiscoveryServer --------------------------
(***************************************************************************)
(* Small instances of DiscoveryServer for TLC.                             *)
(***************************************************************************)
EXTENDS DiscoveryServer

CONSTANTS t1, t2, t3, p1, p2, ip1, ip2

\* Each connection but the first comes from the second host.
TwoHosts == [t \in Calls |-> IF t = t1 THEN ip1 ELSE ip2]

\* The second password is the first, a blank and more.
WithBlank == [p \in Passwords |-> IF p = p2 THEN p1 ELSE p]

\* Two connections that register, one of them maybe with a bad payload, and one
\* that asks for anything.
RegisterOrAny == [t \in Calls |->
    CASE t = t1 -> {"REGISTER"}
      [] t = t2 -> {"REGISTER", "BAD"}
      [] OTHER -> {"REGISTER", "VALIDATE", "DISCOVER", "BAD"}]

=============================================================================
