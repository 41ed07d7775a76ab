----------------------------- MODULE EventLoop -----------------------------
(***************************************************************************)
(* The event loop of the server (net/tcp_server.cpp, net/epoll_selector.cpp*)
(* and http/http_server.cpp) and the two kinds of connection it drives: a  *)
(* client's, in the slot _M_http_connections[fd], and a backend's, in the  *)
(* slot _M_proxy_connections[fd] or _M_fcgi_connections[fd].               *)
(*                                                                         *)
(* Slots are indexed by descriptor and outlive the connections: accept and *)
(* prepare_http_request fill in a few of their fields and trust that the   *)
(* rest was reset when the descriptor was last closed.  A client that      *)
(* waits for a backend names the backend's descriptor (_M_fd), and the     *)
(* backend's slot names the client's (_M_fd and _M_client, set and reset   *)
(* together), across any number of rounds of the loop.                     *)
(*                                                                         *)
(* One round: the alarm's sweep if SIGALRM has come, the ready list,       *)
(* epoll_wait, the events it has returned.  A handler's loop is a step;    *)
(* what it achieves depends on the sockets and is chosen freely among what *)
(* the states it stands for can lead to.  The descriptor table itself is   *)
(* the module FdMap: here it is the set it implements.                     *)
(***************************************************************************)
EXTENDS Integers, Sequences, FiniteSets

CONSTANTS Fd,           \* descriptors of connections
          Listener,     \* _M_listener
          MaxIdle,      \* _M_max_idle_time
          MaxIdleUnknown, \* _M_max_idle_time_unknown_size_body
          Modes,        \* what a behaviour may be: see Mode
          None          \* -1 and NULL

\* What happens rarely but can: an error event, a read or write that a signal
\* interrupts, and a SIGALRM between two timestamps of one handler.
AllFaults == {"error", "interrupted", "tick"}

\* The descriptors the process may have, the handler of all the rules, and the
\* faults that happen.
Mode == [fds : SUBSET Fd, handler : {"http", "fcgi"}, faults : SUBSET AllFaults]

ASSUME EventLoopAssumption ==
    /\ IsFiniteSet(Fd)
    /\ Listener \notin Fd /\ None \notin Fd
    /\ MaxIdle \in Nat \ {0} /\ MaxIdleUnknown \in Nat \ {0}
    /\ Modes \subseteq Mode

VARIABLES mode,       \* of this behaviour
          at,         \* where tcp_server::start is
          alarm,      \* _M_handle_alarm
          open,       \* the descriptors watched by the selector
          handler,    \* _M_connection_handlers
          client,     \* _M_http_connections
          backend,    \* _M_proxy_connections or _M_fcgi_connections
          idle,       \* now::_M_time - _M_timestamp, of the open descriptors
          ready,      \* _M_ready_list, its first _M_nready elements
          batch,      \* the events epoll_wait has returned, to be processed
          call        \* what is left of process_connection for a backend

vars == <<mode, at, alarm, open, handler, client, backend, idle, ready, batch, call>>

(***************************************************************************)
(* The state of a client slot: "own" stands for all the states in which    *)
(* the client is read from or served locally, "waiting" for                *)
(* WAITING_FOR_BACKEND_STATE, "answering" for SENDING_BACKEND_HEADERS_STATE*)
(* and SENDING_BACKEND_BODY_STATE.                                         *)
(***************************************************************************)
ClientSlot == [state : {"own", "waiting", "answering"},
               peer  : Fd \cup {None},   \* _M_fd while not "own"
               flag  : BOOLEAN]          \* _M_in_ready_list

(***************************************************************************)
(* The state of a backend slot: "exchange" stands for everything from      *)
(* CONNECTING_STATE to the response's last byte, "unknown" for             *)
(* READING_UNKNOWN_SIZE_BODY_STATE with some of the body read already.     *)
(***************************************************************************)
BackendSlot == [state : {"exchange", "unknown", "completed"},
                peer  : Fd \cup {None}]  \* _M_fd and _M_client

\* http_connection::free and proxy_connection::reset.
FreshClient == [state |-> "own", peer |-> None, flag |-> FALSE]

FreshBackend == [state |-> "exchange", peer |-> None]

(***************************************************************************)
(* process_connection for a backend that has finished: first the loop of   *)
(* its client, then the backend's own slot and descriptor.                 *)
(***************************************************************************)
Call == [step : {"client", "close"}, backend : Fd, client : Fd]

NoCall == [step |-> "none"]

\* An age beyond which nothing differs.
Oldest == (IF MaxIdle > MaxIdleUnknown THEN MaxIdle ELSE MaxIdleUnknown) + 1

Event == (Fd \X {"io", "error"}) \cup {<<Listener, "io">>}

TypeOK ==
    /\ mode \in Modes
    /\ at \in {"alarm", "ready", "wait", "events"}
    /\ alarm \in BOOLEAN
    /\ open \subseteq Fd
    /\ handler \in [Fd -> {"local", mode.handler}]
    /\ client \in [Fd -> ClientSlot]
    /\ backend \in [Fd -> BackendSlot]
    /\ idle \in [Fd -> 0 .. Oldest]
    /\ ready \in Seq(Fd)
    /\ batch \subseteq Event
    /\ call \in Call \cup {NoCall}

Init ==
    /\ mode \in Modes
    /\ at = "alarm"
    /\ alarm = FALSE
    /\ open = {}
    /\ handler = [fd \in Fd |-> "local"]
    /\ client = [fd \in Fd |-> FreshClient]
    /\ backend = [fd \in Fd |-> FreshBackend]
    /\ idle = [fd \in Fd |-> 0]
    /\ ready = <<>>
    /\ batch = {}
    /\ call = NoCall

IsClient(fd) == fd \in open /\ handler[fd] = "local"

IsBackend(fd) == fd \in open /\ handler[fd] # "local"

\* A turn of the ready list, or the events, can be taken.
Turn(where) == at = where /\ call = NoCall

----------------------------------------------------------------------------
(* http_connection::loop for the descriptor c, its slot being me.          *)

\* Nothing about the backends changes: the client is read from, served
\* locally, sent more of an answer, or its request is completed and the
\* connection kept alive.  The loop leaves early, flagged, when a call was
\* interrupted.
ClientKeeps(c, me) ==
    /\ \/ client' = [client EXCEPT ![c] = me]
       \/ /\ me.state = "answering"
          /\ client' = [client EXCEPT ![c] = FreshClient]
       \/ /\ "interrupted" \in mode.faults
          /\ me.state # "waiting"
          /\ client' = [client EXCEPT ![c] = [me EXCEPT !.flag = TRUE]]
    /\ \/ UNCHANGED idle
       \/ c \in open /\ me.state # "waiting" /\ idle' = [idle EXCEPT ![c] = 0]
    /\ UNCHANGED <<alarm, open, handler, backend>>

\* The loop returns false: the slot is freed and the descriptor closed.
ClientCloses(c, me) ==
    /\ me.state # "waiting"
    /\ client' = [client EXCEPT ![c] = FreshClient]
    /\ open' = open \ {c}
    /\ idle' = [idle EXCEPT ![c] = 0]
    /\ UNCHANGED <<alarm, handler, backend>>

\* Only a loop that leaves after each state, being flagged, may have read the
\* request at an earlier time.
ReadEarlier(me) == me.flag /\ me.state = "own"

\* now::update: the clock has moved on by a second.
Aged == [fd \in Fd |-> IF fd \in open /\ idle[fd] < Oldest THEN idle[fd] + 1
                        ELSE idle[fd]]

\* prepare_http_request: a connection to a backend is under way.  Between the
\* timestamp of the client, when its request is read, and the backend's the
\* clock may tick.
ClientForwards(c, me, b) ==
    /\ c \in open
    /\ me.state # "waiting"
    /\ b \notin open
    /\ client' = [client EXCEPT ![c] =
                     [state |-> "waiting", peer |-> b, flag |-> ReadEarlier(me)]]
    /\ backend' = [backend EXCEPT ![b].peer = c]
    /\ handler' = [handler EXCEPT ![b] = mode.handler]
    /\ open' = open \cup {b}
    /\ \/ /\ \/ idle' = [idle EXCEPT ![b] = 0, ![c] = 0]
             \/ ReadEarlier(me) /\ idle' = [idle EXCEPT ![b] = 0]
          /\ UNCHANGED alarm
       \/ /\ "tick" \in mode.faults
          /\ idle' = [Aged EXCEPT ![b] = 0, ![c] = 1]
          /\ alarm' = TRUE

\* The same when no connection can be started: _M_error is set, but
\* prepare_http_request returns true all the same.
ClientFindsNoBackend(c, me) ==
    /\ c \in open
    /\ me.state # "waiting"
    /\ client' = [client EXCEPT ![c] =
                     [state |-> "waiting", peer |-> None, flag |-> ReadEarlier(me)]]
    /\ \/ idle' = [idle EXCEPT ![c] = 0]
       \/ ReadEarlier(me) /\ UNCHANGED idle
    /\ UNCHANGED <<alarm, open, handler, backend>>

ClientLoop(c, me) ==
    \/ ClientKeeps(c, me)
    \/ ClientCloses(c, me)
    \/ \E b \in mode.fds : ClientForwards(c, me, b)
    \/ ClientFindsNoBackend(c, me)

----------------------------------------------------------------------------
(* proxy_connection::loop and fcgi_connection::loop for the descriptor b.  *)

\* The client's timestamp is forgotten.
RefreshesOwn(c, b) ==
    \E fresh \in {{}, {b}} :
        idle' = [fd \in Fd |-> IF fd \in fresh THEN 0 ELSE idle[fd]]

\* The timestamps: a read refreshes both, a write that would block only the
\* client's.
Refreshes(c, b) ==
    LET clients == IF IsClient(c) THEN {c} ELSE {}
    IN  \E fresh \in {{}, clients, clients \cup {b}} :
           idle' = [fd \in Fd |-> IF fd \in fresh THEN 0 ELSE idle[fd]]

\* More of the request is sent or more of the response read.
BackendKeeps(b) ==
    LET me == backend[b]
    IN  /\ me.state # "completed"
        /\ \/ UNCHANGED backend
           \/ /\ mode.handler = "http"
              /\ backend' = [backend EXCEPT ![b].state = "unknown"]
        /\ Refreshes(me.peer, b)
        /\ UNCHANGED <<alarm, open, handler, client, call>>

\* The client is not flagged, so its loop is not run.
AnswersUnflagged(b) ==
    LET c == backend[b].peer
    IN  /\ client' = [client EXCEPT ![c] =
                         [state |-> "answering", peer |-> None, flag |-> FALSE]]
        /\ call' = [step |-> "close", backend |-> b, client |-> c]
        /\ Refreshes(c, b)
        /\ UNCHANGED <<alarm, open, handler, backend>>

\* RESPONSE_COMPLETED_STATE or PREPARING_ERROR_PAGE_STATE: the client gets an
\* answer, and process_connection goes on with the client's loop.
BackendAnswers(b) ==
    LET c == backend[b].peer
    IN  /\ client' = [client EXCEPT ![c] =
                         [state |-> "answering", peer |-> None, flag |-> FALSE]]
        /\ call' = [step |-> "client", backend |-> b, client |-> c]
        /\ Refreshes(c, b)
        /\ UNCHANGED <<alarm, open, handler, backend>>

\* The error page cannot be built: the client is left as it is.
BackendGivesUp(b) ==
    LET c == backend[b].peer
    IN  /\ client' = [client EXCEPT ![c] =
                         [state |-> @.state, peer |-> None, flag |-> FALSE]]
        /\ call' = [step |-> IF client[c].flag THEN "client" ELSE "close",
                    backend |-> b, client |-> c]
        /\ Refreshes(c, b)
        /\ UNCHANGED <<alarm, open, handler, backend>>

\* A slot without a client is left to what process_connection does with
\* _M_http_connections[-1]: see HasPeer.
BackendLoop(b) ==
    /\ backend[b].peer # None
    /\ BackendKeeps(b) \/ BackendAnswers(b) \/ BackendGivesUp(b)

\* process_connection, continued: the client's loop, then the backend's end.
CallClient ==
    /\ call.step = "client"
    /\ ClientLoop(call.client, client[call.client])
    /\ call' = [call EXCEPT !.step = "close"]
    /\ UNCHANGED <<at, ready, batch>>

\* The backend's slot is left as it is.
CloseWithoutReset ==
    /\ call.step = "close"
    /\ open' = open \ {call.backend}
    /\ idle' = [idle EXCEPT ![call.backend] = 0]
    /\ call' = NoCall
    /\ UNCHANGED <<at, alarm, handler, client, backend, ready, batch>>

CallClose ==
    /\ call.step = "close"
    /\ backend' = [backend EXCEPT ![call.backend] = FreshBackend]
    /\ open' = open \ {call.backend}
    /\ idle' = [idle EXCEPT ![call.backend] = 0]
    /\ call' = NoCall
    /\ UNCHANGED <<at, alarm, handler, client, ready, batch>>
----------------------------------------------------------------------------
(* tcp_server::start: the alarm.                                           *)

\* Clients that wait for a backend are spared.
TimedOutButWaiting ==
    {fd \in open : /\ idle[fd] > MaxIdle
                   /\ handler[fd] = "local" => client[fd].state # "waiting"}

TimedOut == {fd \in open : idle[fd] > MaxIdle}

\* Responses of unknown size that have been silent for long enough are taken
\* to be complete.
Silent ==
    {b \in open \ TimedOut :
        /\ handler[b] = "http"
        /\ backend[b].state = "unknown"
        /\ idle[b] > MaxIdleUnknown}

\* The orders in which the sweep can meet the elements of a set.
Orders(S) ==
    {o \in [1 .. Cardinality(S) -> S] : \A i, j \in DOMAIN o : o[i] = o[j] => i = j}

\* Silent responses are completed but not put in the ready list.
SweepWithoutQueue ==
    /\ Turn("alarm") /\ alarm
    /\ client' = [fd \in Fd |-> IF fd \in TimedOut /\ handler[fd] = "local"
                                THEN FreshClient ELSE client[fd]]
    /\ backend' = [fd \in Fd |-> IF fd \in TimedOut /\ handler[fd] # "local"
                                 THEN FreshBackend
                                 ELSE IF fd \in Silent
                                 THEN [backend[fd] EXCEPT !.state = "completed"]
                                 ELSE backend[fd]]
    /\ open' = open \ TimedOut
    /\ idle' = [fd \in Fd |-> IF fd \in TimedOut THEN 0 ELSE idle[fd]]
    /\ alarm' = FALSE
    /\ at' = "ready"
    /\ UNCHANGED <<handler, ready, batch, call>>

\* http_server::handle_alarm
Sweep ==
    /\ Turn("alarm") /\ alarm
    /\ client' = [fd \in Fd |-> IF fd \in TimedOut /\ handler[fd] = "local"
                                THEN FreshClient ELSE client[fd]]
    /\ backend' = [fd \in Fd |-> IF fd \in TimedOut /\ handler[fd] # "local"
                                 THEN FreshBackend
                                 ELSE IF fd \in Silent
                                 THEN [backend[fd] EXCEPT !.state = "completed"]
                                 ELSE backend[fd]]
    /\ open' = open \ TimedOut
    /\ idle' = [fd \in Fd |-> IF fd \in TimedOut THEN 0 ELSE idle[fd]]
    /\ \E order \in Orders(Silent) : ready' = ready \o order
    /\ alarm' = FALSE
    /\ at' = "ready"
    /\ UNCHANGED <<handler, batch, call>>

NoSweep ==
    /\ Turn("alarm") /\ ~alarm
    /\ at' = "ready"
    /\ UNCHANGED <<alarm, open, handler, client, backend, idle, ready, batch, call>>

----------------------------------------------------------------------------
(* http_server::process_ready_list                                         *)

\* A descriptor that was closed since it was queued has a slot that cannot be
\* read or written: its loop changes nothing or frees the slot once more.
TakeReady ==
    /\ Turn("ready") /\ ready # <<>>
    /\ LET fd == Head(ready)
       IN  IF handler[fd] = "local"
           THEN ClientLoop(fd, [client[fd] EXCEPT !.flag = FALSE]) /\ UNCHANGED call
           ELSE BackendLoop(fd)
    /\ ready' = Tail(ready)
    /\ UNCHANGED <<at, batch>>

\* A round processes some of the list and leaves the rest for the next.
ReadyDoneEarly ==
    /\ Turn("ready")
    /\ Len(ready) <= 2 * Cardinality(mode.fds)
    /\ at' = "wait"
    /\ UNCHANGED <<alarm, open, handler, client, backend, idle, ready, batch, call>>

ReadyDone ==
    /\ Turn("ready") /\ ready = <<>>
    /\ at' = "wait"
    /\ UNCHANGED <<alarm, open, handler, client, backend, idle, ready, batch, call>>

----------------------------------------------------------------------------
(* selector::wait_for_event and process_events                             *)

\* What epoll_wait can return: each descriptor at most once.
CanHappen ==
    {e \in Event : /\ e[1] \in open \cup {Listener}
                   /\ e[2] = "error" => "error" \in mode.faults}

Wait ==
    /\ Turn("wait")
    /\ \E events \in SUBSET CanHappen \ {{}} :
          /\ \A d, e \in events : d[1] = e[1] => d = e
          /\ batch' = events
    /\ at' = "events"
    /\ UNCHANGED <<alarm, open, handler, client, backend, idle, ready, call>>

\* SIGALRM interrupts epoll_wait.  One that comes just before it is noticed
\* when the next event, or the next SIGALRM, comes.
WaitInterrupted ==
    /\ Turn("wait") /\ alarm
    /\ at' = "alarm"
    /\ UNCHANGED <<alarm, open, handler, client, backend, idle, ready, batch, call>>

\* The listener is ready: a connection is accepted on a descriptor that is
\* not open, or accept fails.  Its slot is not reset.
Accept ==
    /\ Turn("events") /\ <<Listener, "io">> \in batch
    /\ batch' = batch \ {<<Listener, "io">>}
    /\ \/ \E c \in mode.fds \ open :
             /\ open' = open \cup {c}
             /\ handler' = [handler EXCEPT ![c] = "local"]
             /\ idle' = [idle EXCEPT ![c] = 0]
       \/ UNCHANGED <<open, handler, idle>>
    /\ UNCHANGED <<at, alarm, client, backend, ready, call>>

\* on_event looks at the client slot of the descriptor, whatever its handler.
Queue(fd) ==
    ready' = IF client'[fd].flag THEN Append(ready, fd) ELSE ready

ClientEvent(fd) ==
    /\ Turn("events") /\ <<fd, "io">> \in batch
    /\ IsClient(fd)
    /\ batch' = batch \ {<<fd, "io">>}
    /\ ClientLoop(fd, client[fd])
    /\ IF fd \in open' THEN Queue(fd) ELSE UNCHANGED ready
    /\ UNCHANGED <<at, call>>

BackendEvent(fd) ==
    /\ Turn("events") /\ <<fd, "io">> \in batch
    /\ IsBackend(fd)
    /\ batch' = batch \ {<<fd, "io">>}
    /\ BackendLoop(fd)
    /\ IF call' = NoCall THEN Queue(fd) ELSE UNCHANGED ready
    /\ UNCHANGED at

\* on_event_error frees the client slot, whatever the descriptor's handler.
ErrorEvent(fd) ==
    /\ Turn("events") /\ <<fd, "error">> \in batch
    /\ fd \in open
    /\ batch' = batch \ {<<fd, "error">>}
    /\ client' = [client EXCEPT ![fd] = FreshClient]
    /\ open' = open \ {fd}
    /\ idle' = [idle EXCEPT ![fd] = 0]
    /\ UNCHANGED <<at, alarm, handler, backend, ready, call>>

\* The descriptor was closed by the handler of an earlier event.
SkipEvent(fd) ==
    /\ Turn("events")
    /\ fd \notin open
    /\ \E e \in batch : e[1] = fd /\ batch' = batch \ {e}
    /\ UNCHANGED <<at, alarm, open, handler, client, backend, idle, ready, call>>

EventsDone ==
    /\ Turn("events") /\ batch = {}
    /\ at' = "alarm"
    /\ UNCHANGED <<alarm, open, handler, client, backend, idle, ready, batch, call>>

----------------------------------------------------------------------------

\* SIGALRM: now::update and on_alarm.
Tick ==
    /\ alarm' = TRUE
    /\ idle' = Aged
    /\ UNCHANGED <<at, open, handler, client, backend, ready, batch, call>>

\* What the loop does by itself, without waiting for anything.
Runs ==
    \/ Sweep
    \/ NoSweep
    \/ TakeReady
    \/ ReadyDone
    \/ WaitInterrupted
    \/ Accept
    \/ \E fd \in Fd : \/ ClientEvent(fd) \/ BackendEvent(fd)
                      \/ ErrorEvent(fd) \/ SkipEvent(fd)
    \/ EventsDone
    \/ CallClient
    \/ CallClose

Next == (Runs \/ Wait \/ Tick) /\ UNCHANGED mode

Spec == Init /\ [][Next]_vars

\* The loop is the only thread and blocks nowhere but in epoll_wait; the
\* interval timer goes on for ever.  Nothing is assumed of the peers.
FairSpec == Spec /\ WF_vars(Runs /\ UNCHANGED mode) /\ WF_vars(Tick /\ UNCHANGED mode)

----------------------------------------------------------------------------
Closing(b) == call.step # "none" /\ call.backend = b

\* Error events, interrupted calls and a clock that ticks within a handler are
\* known to break what the next three say.
NoFaults == mode.faults = {}

AtWork(b) == IsBackend(b) /\ ~Closing(b)

\* process_connection never uses the -1 of a backend slot without a client as an
\* index: neither for an event nor for the ready list.
HasPeer ==
    /\ \A b \in Fd : IsBackend(b) => backend[b].peer # None
    /\ Turn("ready") /\ ready # <<>> /\ handler[Head(ready)] # "local"
          => backend[Head(ready)].peer # None

(***************************************************************************)
(* Every backend connection works for exactly the client that waits for    *)
(* it: the pointer into _M_http_connections that it follows on each event  *)
(* leads to an open client connection, and that client waits for no other, *)
(* so no answer reaches a client that has not asked for it.  The alarm     *)
(* cannot separate such a pair from the client's side: the client is never *)
(* idle for longer than the backend it waits for.                          *)
(***************************************************************************)
Paired ==
    NoFaults =>
        /\ HasPeer
        /\ \A b \in Fd : AtWork(b) =>
              LET c == backend[b].peer
              IN  /\ IsClient(c)
                  /\ client[c].state = "waiting"
                  /\ client[c].peer = b
                  /\ idle[c] <= idle[b]

(***************************************************************************)
(* What accept and prepare_http_request take for granted: the slots of a   *)
(* descriptor that is not open, and the slot of the other kind of one that *)
(* is, are as reset leaves them.                                           *)
(***************************************************************************)
SlotsClean ==
    NoFaults =>
        \A fd \in Fd :
            /\ ~IsClient(fd) => client[fd] = FreshClient
            /\ ~IsBackend(fd) => backend[fd] = FreshBackend

(***************************************************************************)
(* The server never blocks in epoll_wait with work left that no event will *)
(* announce: nothing is in the ready list, and no response that has been   *)
(* taken to be complete waits to be passed on.                             *)
(***************************************************************************)
NothingLeftWhenBlocking ==
    at = "wait" => /\ ready = <<>>
                   /\ \A b \in Fd : IsBackend(b) => backend[b].state # "completed"

(***************************************************************************)
(* The ready list stays inside its 2 * _M_size elements (the listener is   *)
(* never in it): the events and the alarm together add a descriptor at     *)
(* most twice before the list is drained.                                  *)
(***************************************************************************)
ReadyListFits == Len(ready) <= 2 * Cardinality(mode.fds)

(***************************************************************************)
(* An answer ends the exchange it answers: a client that waits for a       *)
(* backend leaves that state only when that backend has finished, and the  *)
(* backend then goes on to close.                                          *)
(***************************************************************************)
AnsweredByOwnBackend ==
    [][NoFaults =>
        \A c \in Fd :
          IsClient(c) /\ client[c].state = "waiting" /\ client'[c].state = "answering"
          => /\ client[c].peer # None
             /\ IsBackend(client[c].peer)
             /\ call'.step = "client"
             /\ call'.backend = client[c].peer]_vars

(***************************************************************************)
(* Nobody waits for ever: a client whose backend is gone, or that never    *)
(* got one, is closed in the end, though no event will ever concern it;    *)
(* error events and a clock that ticks within a handler make such clients. *)
(* An interrupted call may lead to a backend slot without a client in the  *)
(* ready list, the -1 of which is an index: nothing is said of that case.  *)
(***************************************************************************)
Orphan(c) ==
    /\ IsClient(c)
    /\ client[c].state = "waiting"
    /\ ~ \E b \in Fd : IsBackend(b) /\ backend[b].peer = c

OrphansAreDropped ==
    \A c \in Fd : Orphan(c) /\ "interrupted" \notin mode.faults ~> c \notin open
=============================================================================
