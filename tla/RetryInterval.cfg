\* backend_retry_interval, of which only the upper end is tested.
CONSTANTS
    Base = 2
    Digits <- BinaryDigits
    MaxRead = 2
    MaxLen = 14
    MaxText = 4

SPECIFICATION MCSpec

INVARIANTS
    RetryIntervalInRange

\* A text that has ended, or been refused, is the end of the run.
CHECK_DEADLOCK FALSE
