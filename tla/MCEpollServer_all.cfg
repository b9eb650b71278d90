CONSTANTS
    c1 = c1
    c2 = c2
    c3 = c3
    alice = alice
    bob = bob
    Conns = {c1, c2, c3}
    Users = {alice, bob}
    NamesOf <- OneNameEach
    Kinds <- TalkOnly
    MaxClients = 2
    RbufSize = 4
    SbufSize = 3
    SockCap = 1
    Budget <- TwoOneNone
    Mortal = {c2}
    Faults = {"signal", "accept"}
    Nobody = Nobody
    NoUser = NoUser
SPECIFICATION Spec
CHECK_DEADLOCK FALSE
INVARIANT TypeOK
INVARIANT WellFramed
INVARIANT NoLostEdge
INVARIANT EventsFresh
