\* Every kind of response with a body of up to two pieces, one of which fits in
\* memory; reads of up to three pieces, so that they end before, in and
\* behind a body; a payload of none or one piece; up to four records of output.
CONSTANTS
    Kinds = {"length", "chunked", "close", "head", "empty", "refused", "fcgi"}
    Size = 2
    MaxRecords = 4
    Payload = 1
    ReadSize = 3
    MaxMemory = 1
    None = None

SPECIFICATION FairSpec

INVARIANTS
    FilesSettled

PROPERTIES
    AnswersWithTheWhole
    AnswerComes

\* The slot is free in the end.
CHECK_DEADLOCK FALSE
