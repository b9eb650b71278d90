CONSTANTS
    t1 = t1
    t2 = t2
    t3 = t3
    p1 = p1
    p2 = p2
    ip1 = ip1
    ip2 = ip2
    Calls = {t1, t2, t3}
    Users = {alice, bob, carol}
    Passwords = {p1, p2}
    Ips = {ip1, ip2}
    Ports = {port1}
    Word <- WithBlank
    IpOf <- TwoHosts
    KindsOf <- RegisterOrAny
    MaxUsers = 2
    Stops = TRUE
    None = None
SPECIFICATION FairSpec
CHECK_DEADLOCK FALSE
INVARIANT TypeOK
INVARIANT RecordsUnique
PROPERTY Refines
PROPERTY Answered
