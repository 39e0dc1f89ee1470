SPECIFICATION FairSpec
CONSTANTS
    Off = Off
    Sent = Sent
    MaxVersion = 3
    MaxOutages = 2
CHECK_DEADLOCK FALSE
INVARIANT
    TypeOK
PROPERTIES
    NoStepBack
    CatchesUp
    OutageSurvived
