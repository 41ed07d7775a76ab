---------------------------- MODULE MCEventLoop ----------------------------
(***************************************************************************)
(* The event loop in four settings, the first with room for two clients,   *)
(* the others with faults, which take more states.                         *)
(***************************************************************************)
EXTENDS EventLoop

Settings ==
    {[fds |-> Fd,     handler |-> "http", faults |-> {}],
     [fds |-> {1, 2}, handler |-> "http", faults |-> {"error", "tick"}],
     [fds |-> {1, 2}, handler |-> "http", faults |-> {"interrupted", "tick"}],
     [fds |-> {1, 2}, handler |-> "fcgi", faults |-> {"error", "tick"}]}
=============================================================================
