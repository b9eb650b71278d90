CONSTANTS
    Lines = 2
    Notes = 2
    Signals = 2
SPECIFICATION Spec
CHECK_DEADLOCK FALSE
INVARIANT TypeOK
INVARIANT ReceiverOnOpenSocket
INVARIANT InputAfterLogin
INVARIANT PoliteExit
PROPERTY Ends
