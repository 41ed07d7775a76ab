\* The sizes of a host that are not numbers.
CONSTANTS
    Base = 2
    Digits <- BinaryDigits
    MaxRead = 2
    MaxLen = 14
    MaxText = 4

SPECIFICATION MCSpec

INVARIANTS
    HostSizesInRange

\* A text that has ended, or been refused, is the end of the run.
CHECK_DEADLOCK FALSE
