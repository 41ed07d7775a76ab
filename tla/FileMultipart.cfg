\* The response of several ranges, in a file whose size has fewer digits than
\* the length of all its parts.
CONSTANTS
    FileSizes = {3}
    MaxRanges = 2
    HeadersLen = 20
    TypeLen = 4
    BoundaryLen = 2

SPECIFICATION ResponseSpec

INVARIANTS
    AnnouncedIsSent

\* A response that has been sent is the end of the run.
CHECK_DEADLOCK FALSE
