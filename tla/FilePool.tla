------------------------------ MODULE FilePool ------------------------------
(***************************************************************************)
(* What the cache of temporary files promises to the connections that keep *)
(* payloads on disk: a file is lent to one connection at a time, and it    *)
(* can be passed on from a backend connection to the client it serves.     *)
(***************************************************************************)

CONSTANTS Holder,   \* connections
          Fd,       \* descriptors
          None

VARIABLE lent       \* the descriptor each connection holds, or None

Free(fd) == \A h \in Holder : lent[h] # fd

Init == lent = [h \in Holder |-> None]

Lend(h, fd) ==
    /\ lent[h] = None
    /\ Free(fd)
    /\ lent' = [lent EXCEPT ![h] = fd]

Return(h) ==
    /\ lent[h] # None
    /\ lent' = [lent EXCEPT ![h] = None]

Pass(g, h) ==
    /\ lent[g] # None
    /\ lent[h] = None
    /\ lent' = [lent EXCEPT ![h] = lent[g], ![g] = None]

Next ==
    \E h \in Holder :
        \/ \E fd \in Fd : Lend(h, fd)
        \/ Return(h)
        \/ \E g \in Holder : Pass(g, h)

Spec == Init /\ [][Next]_lent
=============================================================================
