SPECIFICATION Spec
CONSTANTS
    c1 = c1
    c2 = c2
    Serial = Serial
    Control = Control
    Clients <- MCClients
    NumChannels = 4
    MaxSends <- MCSends
    MaxData = 1
    MaxWire = 1
CHECK_DEADLOCK FALSE
INVARIANTS
    QemudTypeOK
    ChannelsAgree
    DeliveredInOrder
    OutputIsWatched
PROPERTY AnswersArrive
