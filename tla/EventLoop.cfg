\* Without faults three descriptors: two clients and a backend, or a client, its
\* backend and the backend of its next request; each is reused as any of these.
\* With faults a client and its backend.  An idle time of two ticks, and of one
\* for responses of unknown size.
CONSTANTS
    Fd = {1, 2, 3}
    Listener = 0
    Modes <- Settings
    MaxIdle = 2
    MaxIdleUnknown = 1
    None = None

SPECIFICATION FairSpec

INVARIANTS
    Paired
    SlotsClean
    NothingLeftWhenBlocking
    ReadyListFits

PROPERTIES
    AnsweredByOwnBackend
    OrphansAreDropped
