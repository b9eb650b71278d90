CONSTANTS
    c1 = c1
    c2 = c2
    c3 = c3
    alice = alice
    bob = bob
    Conns = {c1, c2, c3}
    Users = {alice, bob}
    NamesOf <- OneNameEach
    Kinds <- TalkOfC1
    MaxClients = 2
    PipeCap = 1
    Budget <- TwoOneNone
    Faults = {"fopen"}
    Nobody = Nobody
    NoUser = NoUser
SPECIFICATION Spec
CHECK_DEADLOCK FALSE
INVARIANT TypeOK
INVARIANT LoginAckFirst
INVARIANT RecvNeverBlocks
