\* One POST with a chunked body.
CONSTANTS
    Kinds = {"chunked"}
    Requests = 1
    Sizes = {1}
    ReadSize = 2
    MaxMemory = 1
    None = None

SPECIFICATION Spec

INVARIANTS
    ProcessesWhatItHas

CHECK_DEADLOCK FALSE
