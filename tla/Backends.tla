------------------------------ MODULE Backends ------------------------------
(***************************************************************************)
(* The backends of a rule (http/backend_list.cpp): round-robin over those  *)
(* that are available, a pause of backend_retry_interval for those whose   *)
(* last connection has failed.                                             *)
(*                                                                         *)
(* A connection to a backend either fails inside connect, or is under way  *)
(* when connect returns and succeeds or fails later, when the event loop   *)
(* of its proxy or FastCGI connection asks for the socket's error.         *)
(*                                                                         *)
(* Time is told by the age of each backend's downtime, which counts the    *)
(* ticks of now::_M_time up to the interval, beyond which nothing differs. *)
(***************************************************************************)
EXTENDS Integers, FiniteSets

CONSTANTS N,         \* _M_used: the number of backends of the rule
          Interval,  \* _M_retry_interval, in ticks of the clock
          Conn,      \* sockets of connections under way
          NoBackend

Backend == 0 .. (N - 1)

ASSUME BackendsAssumption ==
    /\ N \in Nat \ {0}
    /\ Interval \in Nat \ {0}
    /\ NoBackend \notin Backend

VARIABLES available, \* available, of each backend
          age,       \* now::_M_time - downtime, at most Interval
          current,   \* _M_current
          pending,   \* _M_connections, of the sockets still connecting
          latest     \* the last call of connect: the backends it tried, the
                     \* one it got, and a mark that tells it from the call
                     \* before

listVars == <<available, age, current, pending, latest>>

ListTypeOK ==
    /\ available \in [Backend -> BOOLEAN]
    /\ age \in [Backend -> 0 .. Interval]
    /\ current \in Backend
    /\ pending \in [Conn -> Backend \cup {NoBackend}]
    /\ latest \in [tried : SUBSET Backend, got : Backend \cup {NoBackend}, mark : BOOLEAN]

ListInit ==
    /\ available = [b \in Backend |-> TRUE]
    /\ age = [b \in Backend |-> 0]
    /\ current = 0
    /\ pending = [c \in Conn |-> NoBackend]
    /\ latest = [tried |-> {}, got |-> NoBackend, mark |-> FALSE]

----------------------------------------------------------------------------
(* backend_list::connect                                                   *)

\* The k-th backend the loop looks at.
Turn(k) == (current + k) % N

\* A backend that is down is never looked at again.
NeverBack(b) == available[b]

Eligible(b) == available[b] \/ age[b] = Interval

\* The turns at which a connection could be started; those refusing fail at
\* once.
Accepting(refusing) ==
    {k \in 0 .. (N - 1) : Eligible(Turn(k)) /\ Turn(k) \notin refusing}

MarkDown(failed) ==
    /\ available' = [b \in Backend |-> available[b] /\ b \notin failed]
    /\ age' = [b \in Backend |-> IF b \in failed THEN 0 ELSE age[b]]

Returned(tried, got) == latest' = [tried |-> tried, got |-> got, mark |-> ~latest.mark]

\* Only the backend whose turn it is: the loop gives up after a failure.
GivesUpEarly(c, refusing) ==
    /\ pending[c] = NoBackend
    /\ current' = (current + 1) % N
    /\ IF Eligible(current) /\ current \notin refusing
       THEN /\ pending' = [pending EXCEPT ![c] = current]
            /\ Returned({current}, current)
            /\ UNCHANGED <<available, age>>
       ELSE /\ MarkDown({current} \cap refusing)
            /\ Returned({current}, NoBackend)
            /\ UNCHANGED pending

\* The next call starts at the backend that has just been used.
DoesNotMoveOn(c, refusing) ==
    /\ pending[c] = NoBackend
    /\ \E k \in Accepting(refusing) :
          /\ \A j \in Accepting(refusing) : k <= j
          /\ LET passed == {Turn(j) : j \in 0 .. (k - 1)}
                 failed == {b \in passed : Eligible(b)}
             IN  /\ MarkDown(failed)
                 /\ Returned(failed \cup {Turn(k)}, Turn(k))
          /\ pending' = [pending EXCEPT ![c] = Turn(k)]
          /\ current' = Turn(k)

\* A backend takes the connection: the first of those that would, counting
\* from the current one.  The eligible ones before it have failed.
Connect(c, refusing) ==
    /\ pending[c] = NoBackend
    /\ \E k \in Accepting(refusing) :
          /\ \A j \in Accepting(refusing) : k <= j
          /\ LET passed == {Turn(j) : j \in 0 .. (k - 1)}
                 failed == {b \in passed : Eligible(b)}
             IN  /\ MarkDown(failed)
                 /\ Returned(failed \cup {Turn(k)}, Turn(k))
          /\ pending' = [pending EXCEPT ![c] = Turn(k)]
          /\ current' = Turn(k + 1)

\* None does: the loop has come back to where it started and returns -1.
ConnectFails(refusing) ==
    /\ Accepting(refusing) = {}
    /\ LET failed == {b \in Backend : Eligible(b)}
       IN  /\ MarkDown(failed)
           /\ Returned(failed, NoBackend)
    /\ UNCHANGED <<current, pending>>

----------------------------------------------------------------------------
(* CONNECTING_STATE of the proxy and FastCGI connections, and the alarm.   *)

\* The failure is noted down for the backend whose turn is next.
BlamesTheNext(c) ==
    /\ pending[c] # NoBackend
    /\ MarkDown({current})
    /\ pending' = [pending EXCEPT ![c] = NoBackend]
    /\ UNCHANGED <<current, latest>>

\* get_socket_error reports a failure: backend_list::connection_failed.
ConnectionFailed(c) ==
    /\ pending[c] # NoBackend
    /\ MarkDown({pending[c]})
    /\ pending' = [pending EXCEPT ![c] = NoBackend]
    /\ UNCHANGED <<current, latest>>

\* The connection is established, or the alarm drops it while it is still
\* being established.  Neither is recorded in the list.
ConnectionSettled(c) ==
    /\ pending[c] # NoBackend
    /\ pending' = [pending EXCEPT ![c] = NoBackend]
    /\ UNCHANGED <<available, age, current, latest>>

Tick ==
    /\ age' = [b \in Backend |-> IF age[b] < Interval THEN age[b] + 1 ELSE age[b]]
    /\ UNCHANGED <<available, current, pending, latest>>

Request ==
    \E refusing \in SUBSET Backend :
        \/ \E c \in Conn : Connect(c, refusing)
        \/ ConnectFails(refusing)

ListNext ==
    \/ Request
    \/ \E c \in Conn : ConnectionFailed(c) \/ ConnectionSettled(c)
    \/ Tick

ListSpec == ListInit /\ [][ListNext]_listVars

----------------------------------------------------------------------------
Called == latest'.mark # latest.mark

(***************************************************************************)
(* connect returns -1 only when it leaves every backend down and inside    *)
(* its pause: a request is never refused while a backend might have served *)
(* it.                                                                     *)
(***************************************************************************)
RefusedOnlyWhenAllDown ==
    [][Called /\ latest'.got = NoBackend =>
          \A b \in Backend : ~available'[b] /\ age'[b] < Interval]_listVars

(***************************************************************************)
(* As long as every backend is well, connections go round: whatever has    *)
(* become of the earlier ones, the next goes to the next backend.          *)
(***************************************************************************)
AllWell == \A b \in Backend : available[b]

TurnsAreTaken ==
    [][Called /\ AllWell /\ AllWell' /\ latest.got # NoBackend
          => latest'.got = (latest.got + 1) % N]_listVars

(***************************************************************************)
(* A backend is taken for down, or its pause starts anew, only because a   *)
(* connection to this very backend has failed: one that this call of       *)
(* connect tried and did not get, or one that was under way to it.         *)
(***************************************************************************)
OnlyTheFailedGoDown ==
    [][\A b \in Backend :
          \/ available[b] /\ ~available'[b]
          \/ age'[b] < age[b]
          => \/ Called /\ b \in latest'.tried \ {latest'.got}
             \/ \E c \in Conn : pending[c] = b /\ pending'[c] = NoBackend]_listVars
=============================================================================
