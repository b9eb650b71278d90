CONSTANTS
    c1 = c1
    c2 = c2
    c3 = c3
    alice = alice
    bob = bob
    Conns = {c1, c2, c3}
    Users = {alice, bob}
    NamesOf <- OneNameEach
    Kinds <- ChatOnly
    MaxClients = 2
    MaxFd = 3
    Budget <- TwoOneOne
    Faults = {}
    Nobody = Nobody
    Destroyed = Destroyed
    NoUser = NoUser
SPECIFICATION Spec
CHECK_DEADLOCK FALSE
INVARIANT ClosesOwnSocket
