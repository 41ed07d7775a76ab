------------------------------- MODULE FdMap -------------------------------
(***************************************************************************)
(* The descriptor table of the selector (net/fdmap.cpp, seen through       *)
(* net/epoll_selector.cpp) and the loop the alarm runs over it             *)
(* (net/tcp_server.cpp and http/http_server.cpp, handle_alarm).            *)
(*                                                                         *)
(* _M_index holds the watched descriptors densely; _M_descriptors maps a   *)
(* descriptor to its place there, or to -1.  A removal fills the hole with *)
(* the last element, and the sweep stays on the same place after one, so   *)
(* the two arrays and the sweep's position have to agree at every moment.  *)
(* The part of _M_index beyond _M_used is never read and is left out.      *)
(***************************************************************************)
EXTENDS Integers

CONSTANTS Size,      \* RLIMIT_NOFILE: the length of both arrays
          Listener   \* the listening socket, watched before anything else

Fd == 0 .. (Size - 1)

ASSUME FdMapAssumption == Size \in Nat \ {0} /\ Listener \in Fd

VARIABLES descriptors, \* _M_descriptors
          index,       \* _M_index, its first _M_used elements
          used,        \* _M_used
          pos          \* the sweep's i, or Idle

vars == <<descriptors, index, used, pos>>

Idle == -1

NotWatched == -1

TypeOK ==
    /\ descriptors \in [Fd -> Nat \cup {NotWatched}]
    /\ used \in Nat
    /\ index \in [0 .. (used - 1) -> Fd]
    /\ pos \in Nat \cup {Idle}

(***************************************************************************)
(* tcp_server::create watches the listener before any connection exists.   *)
(***************************************************************************)
Init ==
    /\ descriptors = [fd \in Fd |-> IF fd = Listener THEN 0 ELSE NotWatched]
    /\ index = [i \in {0} |-> Listener]
    /\ used = 1
    /\ pos = Idle

Watched(fd) == descriptors[fd] # NotWatched

(***************************************************************************)
(* fdmap::add.  selector::add undoes it when epoll_ctl fails, which leaves *)
(* the table as it was, and so does adding what is watched already.        *)
(***************************************************************************)
Add(fd) ==
    /\ pos = Idle
    /\ ~Watched(fd)
    /\ descriptors' = [descriptors EXCEPT ![fd] = used]
    /\ index' = [i \in 0 .. used |-> IF i = used THEN fd ELSE index[i]]
    /\ used' = used + 1
    /\ UNCHANGED pos

\* The hole is filled, but the element moved into it keeps its old place.
ForgetsToRelocate(fd) ==
    LET hole == descriptors[fd]
        last == used - 1
    IN  /\ used' = last
        /\ index' = [i \in 0 .. (last - 1) |->
                        IF i = hole THEN index[last] ELSE index[i]]
        /\ descriptors' = [descriptors EXCEPT ![fd] = NotWatched]

(***************************************************************************)
(* fdmap::remove of a watched descriptor; selector::remove closes it.      *)
(***************************************************************************)
Unlink(fd) ==
    LET hole  == descriptors[fd]
        last  == used - 1
        moved == index[last]
    IN  /\ used' = last
        /\ index' = [i \in 0 .. (last - 1) |->
                        IF i = hole THEN moved ELSE index[i]]
        /\ descriptors' = [f \in Fd |-> IF f = fd THEN NotWatched
                                         ELSE IF f = moved THEN hole
                                         ELSE descriptors[f]]

(***************************************************************************)
(* A handler asks for a connection to be closed: the callers are           *)
(* process_events, process_ready_list and process_connection, none of      *)
(* which runs during a sweep and none of which names the listener.         *)
(***************************************************************************)
Remove(fd) ==
    /\ pos = Idle
    /\ Watched(fd)
    /\ fd # Listener
    /\ Unlink(fd)
    /\ UNCHANGED pos

----------------------------------------------------------------------------
(* handle_alarm: size_t i = 1; while (i < _M_used) ...                     *)

BeginSweep ==
    /\ pos = Idle
    /\ pos' = 1
    /\ UNCHANGED <<descriptors, index, used>>

\* The position moves on although another element has just been moved there.
SkipsTheMoved ==
    /\ pos # Idle
    /\ pos < used
    /\ Unlink(index[pos])
    /\ pos' = pos + 1

\* The connection at the sweep's place has timed out: remove(fd).
SweepDrop ==
    /\ pos # Idle
    /\ pos < used
    /\ Unlink(index[pos])
    /\ UNCHANGED pos

\* It has not: i++.
SweepKeep ==
    /\ pos # Idle
    /\ pos < used
    /\ pos' = pos + 1
    /\ UNCHANGED <<descriptors, index, used>>

EndSweep ==
    /\ pos # Idle
    /\ pos >= used
    /\ pos' = Idle
    /\ UNCHANGED <<descriptors, index, used>>

Next ==
    \/ \E fd \in Fd : Add(fd) \/ Remove(fd)
    \/ BeginSweep
    \/ SweepDrop
    \/ SweepKeep
    \/ EndSweep

Spec == Init /\ [][Next]_vars

\* handle_alarm is a plain loop of the only thread: once begun it goes on.
FairSpec == Spec /\ WF_vars(SweepDrop \/ SweepKeep) /\ WF_vars(EndSweep)

----------------------------------------------------------------------------
(***************************************************************************)
(* The two arrays are inverse to each other: a place that _M_descriptors   *)
(* gives is the place where _M_index holds the descriptor, and back.       *)
(***************************************************************************)
PlacesAgree ==
    /\ \A i \in 0 .. (used - 1) : descriptors[index[i]] = i
    /\ \A fd \in Fd : Watched(fd) => /\ descriptors[fd] \in 0 .. (used - 1)
                                     /\ index[descriptors[fd]] = fd

(***************************************************************************)
(* The listener stays in front, where handle_alarm's loop never looks, so  *)
(* no alarm ever closes the listening socket.                              *)
(***************************************************************************)
ListenerFirst == used > 0 /\ index[0] = Listener

(***************************************************************************)
(* _M_index[_M_used++] = fd stays inside the array: an addition that is    *)
(* still possible finds room.                                              *)
(***************************************************************************)
IndexInBounds == used <= Size /\ ((\E fd \in Fd : ~Watched(fd)) => used < Size)

SweepInBounds == pos = Idle \/ pos \in 1 .. used

IInv == TypeOK /\ PlacesAgree /\ ListenerFirst /\ SweepInBounds

(***************************************************************************)
(* The table seen as the set it implements.                                *)
(***************************************************************************)
Members == {fd \in Fd : Watched(fd)}

Unseen == IF pos = Idle THEN {} ELSE {index[i] : i \in pos .. (used - 1)}

Abs == INSTANCE FdSet WITH members <- Members, todo <- Unseen,
                           sweeping <- (pos # Idle)

(***************************************************************************)
(* The table implements a set whose sweep looks at every connection once:  *)
(* no connection escapes an alarm because a removal moved it, and none is  *)
(* looked at twice.                                                        *)
(***************************************************************************)
SweepsEveryConnectionOnce == Abs!Spec

(***************************************************************************)
(* A sweep ends: the loop's bound _M_used shrinks or its i grows.          *)
(***************************************************************************)
SweepEnds == (pos # Idle) ~> (pos = Idle)
=============================================================================
