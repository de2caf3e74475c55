\* The buffer sizes of the code, two lines typed, two signals.
CONSTANTS
    HeaderLen = 6
    DataMax = 20
    SendSize = 27
    FifoCapacity = 40
    LineLengths = {3, 19}
    MaxLines = 2
    MaxSignals = 2
SPECIFICATION Spec
INVARIANTS
    RoutedByHeader
CHECK_DEADLOCK FALSE
