CONSTANTS
    n1 = n1
    n2 = n2
    i1 = i1
    i2 = i2
    Nodes = {n1, n2}
    Images = {i1, i2}
    Checks <- TwoPods
    CheckTimes = 1
    Interval = 1
    Latency = 1
    TTL = 1
    MaxChecks = 2
    MaxFaults = 2
SPECIFICATION FairSpec
INVARIANTS TypeOK PassedImagesPulled HeldUpBriefly
PROPERTY CheckReturns
\* After MaxChecks checks the instance ends; CheckReturns shows it does not stop within one.
CHECK_DEADLOCK FALSE
