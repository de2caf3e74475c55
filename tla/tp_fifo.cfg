\* The buffer sizes of the code, two lines typed, two signals.
CONSTANTS
    HeaderLen = 6
    DataMax = 20
    SendSize = 27
    FifoCapacity = 40
    LineLengths = {3, 22}
    MaxLines = 2
    MaxSignals = 2
SPECIFICATION FairSpec
INVARIANTS
    TypeOK
    RoutedWhenAlone
    HandlersWrite
    SuccessMeansAllSent
    DeliveredWhenBothSucceed
PROPERTIES
    SentIsRead
    ReaderFollowsWriter
CHECK_DEADLOCK FALSE
