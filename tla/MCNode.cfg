CONSTANTS
    GroupSize = 3
    File <- MCFile
    Skew <- MCSkew
    Delay = 1
    MaxSilence = 9
    MaxView = 2
    MaxStart = 4
    MaxFault = 1
SPECIFICATION FairSpec
INVARIANTS
    TypeOK
    Watches
    QuietStart
    SuspectsInTime
PROPERTIES
    Settles
