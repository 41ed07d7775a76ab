\* Two requests of any kind but the one that is answered before its body has
\* been read; bodies of one piece or two, and one piece kept in memory; reads
\* of up to four pieces, so that they span two requests; arrivals cut them anywhere.
CONSTANTS
    Kinds = {"local", "missing", "refused", "forward", "post", "chunked"}
    Requests = 2
    Sizes = {1, 2}
    ReadSize = 4
    MaxMemory = 1
    None = None

SPECIFICATION FairSpec

INVARIANTS
    Framed
    PayloadIntact

PROPERTIES
    AnswersInOrder
    NoneForgotten

CHECK_DEADLOCK FALSE
