CONSTANTS
    c1 = c1
    c2 = c2
    c3 = c3
    alice = alice
    bob = bob
    Conns = {c1, c2}
    Users = {alice, bob}
    NamesOf <- OneName
    Kinds <- AskOfC2
    MaxClients = 2
    PipeCap = 1
    Budget <- TwoOneOne
    Faults = {"signal", "pipe", "fork"}
    Nobody = Nobody
    NoUser = NoUser
SPECIFICATION FairSpec
CHECK_DEADLOCK FALSE
INVARIANT UniqueUsers
PROPERTY DeadChildForgotten
PROPERTY ChildrenExit
PROPERTY RoutingEnds
