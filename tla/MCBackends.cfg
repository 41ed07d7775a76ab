\* Two backends and two connections under way: the second retry.
CONSTANTS
    N = 2
    Interval = 2
    Conn = {s1, s2}
    NoBackend = NoBackend

SPECIFICATION MCSpec

PROPERTIES
    RetriesApart
