\* Alarm and deadline up to three seconds, in any order; main reads the clock within two.
CONSTANTS
    MaxSecs = 3
    MaxDelay = 2
    Never = Never
SPECIFICATION FairSpec
PROPERTIES
    ImplementsTimedWait
CHECK_DEADLOCK FALSE
