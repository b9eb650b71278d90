CONSTANTS
    c1 = c1
    c2 = c2
    c3 = c3
    alice = alice
    bob = bob
    Conns = {c1, c2, c3}
    Users = {alice, bob}
    NamesOf <- C2EitherName
    Kinds <- AllOfC1
    MaxClients = 2
    MaxFd = 3
    Budget <- TwoOneNone
    Faults = {"spawn", "fopen"}
    Nobody = Nobody
    Destroyed = Destroyed
    NoUser = NoUser
SPECIFICATION Spec
CHECK_DEADLOCK FALSE
INVARIANT TypeOK
INVARIANT UniqueUsers
INVARIANT SlotHasItsThread
INVARIANT SlotWritesSerialised
INVARIANT BroadcastReachesAll
INVARIANT DepartureAnnouncedOnce
