CONSTANTS
    c1 = c1
    c2 = c2
    c3 = c3
    alice = alice
    bob = bob
    Conns = {c1, c2}
    Users = {alice, bob}
    NamesOf <- OneNameEach
    Kinds <- TalkOnly
    MaxClients = 2
    MaxFd = 2
    Budget <- TwoOneOne
    Faults = {"signal"}
    Nobody = Nobody
    Destroyed = Destroyed
    NoUser = NoUser
SPECIFICATION FairSpec
CHECK_DEADLOCK FALSE
PROPERTY Served
