------------------------------ MODULE Exchange ------------------------------
(***************************************************************************)
(* What a backend connection promises to its client: the client gets one   *)
(* answer, after the backend has been sent the whole of the request.  The  *)
(* answer is what the backend has responded, all of it if the backend says *)
(* where it ends, or a page that tells of an error.                        *)
(***************************************************************************)
EXTENDS Naturals, Sequences, SequencesExt

CONSTANT None

VARIABLES request,   \* what the client asks the backend, piece by piece
          response,  \* the body of what the backend has to answer
          exact,     \* whether it says where that ends
          sent,      \* how much of the request the backend has been sent
          answer     \* "error", the body passed on, or None

vars == <<request, response, exact, sent, answer>>

Init ==
    /\ sent = <<>>
    /\ answer = None

Send ==
    /\ answer = None
    /\ IsStrictPrefix(sent, sent') /\ IsPrefix(sent', request)
    /\ UNCHANGED <<request, response, exact, answer>>

PassOn ==
    /\ answer = None
    /\ sent = request
    /\ \E n \in 0 .. Len(response) :
          /\ exact => n = Len(response)
          /\ answer' = [body |-> SubSeq(response, 1, n)]
    /\ UNCHANGED <<request, response, exact, sent>>

Fail ==
    /\ answer = None
    /\ answer' = [error |-> TRUE]
    /\ UNCHANGED <<request, response, exact, sent>>

Next == Send \/ PassOn \/ Fail

Spec == Init /\ [][Next]_vars
=============================================================================
