CONSTANTS
    c1 = c1
    c2 = c2
    c3 = c3
    alice = alice
    bob = bob
    Conns = {c1, c2}
    Users = {alice, bob}
    NamesOf <- OneNameEach
    Kinds <- TalkOnly
    MaxClients = 2
    RbufSize = 4
    SbufSize = 3
    SockCap = 1
    Budget <- TwoOneNone
    Mortal = {}
    Faults = {}
    Nobody = Nobody
    NoUser = NoUser
SPECIFICATION Spec
CHECK_DEADLOCK FALSE
PROPERTY AssembledIsProcessed
