CONSTANTS
    c1 = c1
    c2 = c2
    c3 = c3
    alice = alice
    bob = bob
    Conns = {c1, c2}
    Users = {alice, bob}
    NamesOf <- OneNameEach
    Kinds <- AllOfC1
    MaxClients = 2
    RbufSize = 4
    SbufSize = 3
    SockCap = 1
    Budget <- TwoNone
    Mortal = {}
    Faults = {"fopen"}
    Nobody = Nobody
    NoUser = NoUser
SPECIFICATION FairSpec
CHECK_DEADLOCK FALSE
INVARIANT NothingLeftInRbuf
INVARIANT RbufLenExact
PROPERTY SendBufDrains
