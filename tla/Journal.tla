------------------------------- MODULE Journal -------------------------------
(***************************************************************************)
(* What a log promises: what has been written stays, in its place; what is *)
(* still pending is written behind it, in order, and nothing of it is left *)
(* out as long as the log remains open.                                    *)
(***************************************************************************)
EXTENDS Naturals, Sequences

CONSTANTS Lines  \* what one call may log, as a sequence of bytes

VARIABLES written, pending, open

Init == written = <<>> /\ pending = <<>> /\ open \in BOOLEAN

\* Everything so far, or, when the log closes, a part of it.
Write(all) ==
    /\ pending' = <<>>
    /\ \E n \in 0 .. Len(all) :
          /\ written' = written \o SubSeq(all, 1, n)
          /\ open' => n = Len(all)

Log ==
    \E line \in Lines :
        \/ pending' = pending \o line /\ UNCHANGED <<written, open>>
        \/ Write(pending \o line)

Next == (open /\ (Log \/ Write(pending))) \/ (~open /\ pending = <<>> /\ open' /\ UNCHANGED <<written, pending>>)

Spec == Init /\ [][Next]_<<written, pending, open>>
=============================================================================
