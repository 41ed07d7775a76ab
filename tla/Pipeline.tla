------------------------------ MODULE Pipeline ------------------------------
(***************************************************************************)
(* What the server promises to a client that sends one request after the   *)
(* other on a connection, without waiting for the answers: the requests    *)
(* are answered one by one, in the order in which they were sent, each not *)
(* before its headers have been received; a request that does not keep the *)
(* connection alive is the last to be answered; and at any time the        *)
(* connection may be closed instead.                                       *)
(***************************************************************************)
EXTENDS Integers, Sequences

VARIABLES final,       \* the requests that do not keep the connection alive
          received,    \* the number of requests received
          answered,    \* the requests answered
          open

vars == <<final, received, answered, open>>

Init ==
    /\ final \subseteq Nat
    /\ received = 0
    /\ answered = <<>>
    /\ open = TRUE

Receive ==
    /\ open
    /\ received' \in Nat /\ received' > received
    /\ UNCHANGED <<final, answered, open>>

Answer ==
    LET next == Len(answered) + 1
    IN  /\ open
        /\ next <= received
        /\ answered' = Append(answered, next)
        /\ open' \in BOOLEAN
        /\ next \in final => ~open'
        /\ UNCHANGED <<final, received>>

Close ==
    /\ open
    /\ open' = FALSE
    /\ UNCHANGED <<final, received, answered>>

Next == Receive \/ Answer \/ Close

Spec == Init /\ [][Next]_vars
=============================================================================
