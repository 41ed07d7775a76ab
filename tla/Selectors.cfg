\* Four descriptors: the listener and three connections, so that one can be
\* handled, one removed and one moved.
CONSTANTS
    Size = 4
    Listener = 1
    Kinds = {"poll", "select", "kqueue", "port"}
    NewsBound = 2

SPECIFICATION FairSelectorSpec

INVARIANTS
    IInv
    KernelWatchesAll
    EventsOfItsOwn

PROPERTIES
    SweepsEveryConnectionOnce
    Served
