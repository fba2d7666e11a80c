SPECIFICATION Spec
CONSTANTS
    MaxBlock = 9
    EpochLengths = {0, 1, 2, 3, 5}
PROPERTIES
    EpochsKept
CHECK_DEADLOCK FALSE
