\* Three connections, so that a hole in the table of files in use can be in
\* its middle; two spare files, fewer than can be given back; five
\* descriptors, one of them not for files.
\* Lines of one byte and of more than the buffer, files that hold two buffers
\* but not three, enough lines for three files.
\* Files that are sent of up to three characters, and up to three ranges, in
\* any order and also overlapping.
\* Three backends, so that a failure can lie before, at and after the current
\* one; two connections under way, so that one can fail late, when the other
\* has already been noted down; a pause of two ticks.
CONSTANTS
    Holder = {c1, c2, p1}
    Fd = {0, 1, 2, 3, 4}
    Reserved = {0}
    MaxSpare = 2
    NameBound = 5
    None = None
    MaxSize = 4
    BufSize = 2
    Lengths = {1, 3}
    MaxLines = 6
    FileSizes = {0, 1, 3}
    MaxRanges = 3
    HeadersLen = 20
    TypeLen = 4
    BoundaryLen = 2
    N = 3
    Interval = 2
    Conn = {s1, s2}
    NoBackend = NoBackend

SPECIFICATION MCSpec

INVARIANTS
    IInv
    DirectoryClean
    FilesFit
    PartsInOrder
    AnnouncedAsCounted

PROPERTIES
    LendsToOneAtATime
    IsJournal
    Completes
    RefusedOnlyWhenAllDown
    TurnsAreTaken
    OnlyTheFailedGoDown
    EveryBackendTried

\* The bounds on names and lines end a behaviour, and so does a response that
\* has been sent.
CHECK_DEADLOCK FALSE
