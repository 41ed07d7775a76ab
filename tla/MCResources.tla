----------------------------- MODULE MCResources -----------------------------
(***************************************************************************)
(* What connections use, in one run: the temporary files, the access log,  *)
(* the files that are sent and the list of backends, which have nothing to *)
(* do with each other.  A behaviour is of one of the four.                 *)
(***************************************************************************)
EXTENDS TmpFiles, AccessLog, FileResponse, Backends

VARIABLE subject  \* which of the four

mcVars == <<vars, logVars, responseVars, listVars, subject>>

\* There is no response to send any more: a HEAD request has been answered.
HasBeenSent ==
    /\ method = "HEAD" /\ st_size = 0 /\ ranges = <<>> /\ announced = 0 /\ filesize = 0
    /\ state = "REQUEST_COMPLETED" /\ out = [what |-> <<"headers", 1>>, len |-> HeadersLen]
    /\ outp = HeadersLen /\ nrange = 1 /\ writable = TRUE
    /\ flag = FALSE /\ queued = FALSE /\ loop = "running" /\ caller = "event" /\ cut = FALSE
    /\ sent = <<[what |-> <<"headers", 1>>, from |-> 0, to |-> HeadersLen]>>

MCInit ==
    /\ Init /\ LogInit /\ ListInit
    /\ \/ subject = "response" /\ ResponseInit
       \/ subject \in {"tmpfiles", "accesslog", "backends"} /\ HasBeenSent

MCNext ==
    \/ subject = "tmpfiles" /\ Next /\ UNCHANGED <<logVars, responseVars, listVars, subject>>
    \/ subject = "accesslog" /\ LogNext /\ UNCHANGED <<vars, responseVars, listVars, subject>>
    \/ subject = "response" /\ ResponseNext /\ UNCHANGED <<vars, logVars, listVars, subject>>
    \/ subject = "backends" /\ ListNext /\ UNCHANGED <<vars, logVars, responseVars, subject>>

InList(A) == subject = "backends" /\ A

\* SIGALRM keeps the clock running, a connection under way fails, succeeds or
\* times out, and clients go on sending requests that need a backend.
MCSpec ==
    /\ MCInit /\ [][MCNext]_mcVars
    /\ ResponseFairness
    /\ WF_listVars(InList(Tick))
    /\ \A c \in Conn : WF_listVars(InList(ConnectionFailed(c) \/ ConnectionSettled(c)))
    /\ SF_listVars(InList(Request))

(***************************************************************************)
(* No backend is forgotten, in the behaviours that are the list's: each is *)
(* tried again and again, for ever, also one that is down, which no code   *)
(* ever marks as available again.                                          *)
(***************************************************************************)
EveryBackendTried == \A b \in Backend : []<>(subject = "backends" => b \in latest.tried)
=============================================================================
