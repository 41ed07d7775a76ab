\* Requests that are answered with a page of the server's own, with a body or
\* without.
CONSTANTS
    Kinds = {"local", "missing post"}
    Requests = 2
    Sizes = {1, 2}
    ReadSize = 4
    MaxMemory = 1
    None = None

SPECIFICATION Spec

INVARIANTS
    Framed

CHECK_DEADLOCK FALSE
