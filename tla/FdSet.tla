------------------------------- MODULE FdSet -------------------------------
(***************************************************************************)
(* What the descriptor table of the selector promises to the servers built *)
(* on it: it is a set of watched descriptors that always holds the         *)
(* listener, and the idle sweep the alarm runs over it looks at every      *)
(* watched connection exactly once.                                        *)
(***************************************************************************)

CONSTANTS Fd,        \* descriptors of the process
          Listener   \* the listening socket

VARIABLES members,   \* the watched descriptors
          todo,      \* connections the running sweep has still to look at
          sweeping   \* whether the alarm's sweep is running

vars == <<members, todo, sweeping>>

Init ==
    /\ members = {Listener}
    /\ todo = {}
    /\ sweeping = FALSE

Watch(fd) ==
    /\ ~sweeping
    /\ fd \notin members
    /\ members' = members \cup {fd}
    /\ UNCHANGED <<todo, sweeping>>

Forget(fd) ==
    /\ ~sweeping
    /\ fd \in members \ {Listener}
    /\ members' = members \ {fd}
    /\ UNCHANGED <<todo, sweeping>>

BeginSweep ==
    /\ ~sweeping
    /\ sweeping' = TRUE
    /\ todo' = members \ {Listener}
    /\ UNCHANGED members

Keep(fd) ==
    /\ sweeping
    /\ fd \in todo
    /\ todo' = todo \ {fd}
    /\ UNCHANGED <<members, sweeping>>

Drop(fd) ==
    /\ sweeping
    /\ fd \in todo
    /\ todo' = todo \ {fd}
    /\ members' = members \ {fd}
    /\ UNCHANGED sweeping

EndSweep ==
    /\ sweeping
    /\ todo = {}
    /\ sweeping' = FALSE
    /\ UNCHANGED <<members, todo>>

Next ==
    \/ \E fd \in Fd : Watch(fd) \/ Forget(fd) \/ Keep(fd) \/ Drop(fd)
    \/ BeginSweep
    \/ EndSweep

Spec == Init /\ [][Next]_vars
=============================================================================
