----------------------------- MODULE MCBackends -----------------------------
(***************************************************************************)
(* The list of backends with a clock for each backend that measures what   *)
(* the documentation speaks of: the time since the last retry, that is     *)
(* since a connection to it was last started while it was down.            *)
(***************************************************************************)
EXTENDS Backends

VARIABLE since \* ticks since the last retry of each backend, at most Interval

Retried(b) == Called /\ ~available[b] /\ b \in latest'.tried

MCInit ==
    /\ ListInit
    /\ since = [b \in Backend |-> Interval]

MCNext ==
    \/ /\ Request \/ \E c \in Conn : ConnectionFailed(c) \/ ConnectionSettled(c)
       /\ since' = [b \in Backend |-> IF Retried(b) THEN 0 ELSE since[b]]
    \/ /\ Tick
       /\ since' = [b \in Backend |-> IF since[b] < Interval THEN since[b] + 1
                                      ELSE since[b]]

MCSpec == MCInit /\ [][MCNext]_<<listVars, since>>

(***************************************************************************)
(* gweb++.txt:80 says of backend_retry_interval: "When the connection to a *)
(* backend fails, this is the minimum time interval between retries".      *)
(* connect starts a retry without noting it down, so that until it is      *)
(* known to have failed every request starts one more.                     *)
(***************************************************************************)
RetriesApart ==
    [][\A b \in Backend : Retried(b) => since[b] = Interval]_<<listVars, since>>
=============================================================================
