SPECIFICATION ReadersSpec
CONSTANTS
    c1 = c1
    c2 = c2
    Serial = Serial
    Control = Control
    Clients <- OneClient
    NumChannels = 4
    MaxSends <- OneSend
    MaxData = 1
    MaxWire = 1
CHECK_DEADLOCK FALSE
PROPERTY ShutdownCompletes
