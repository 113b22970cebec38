SPECIFICATION FairSpec
CONSTANTS
    Devs = {nodev, nvme0n1}
    MaxIter = 2
    MaxTries = 2
PROPERTIES
    KunitReports
CHECK_DEADLOCK FALSE
