------------------------------ MODULE Selectors ------------------------------
(***************************************************************************)
(* The selectors that Makefile compiles where there is no epoll            *)
(* (net/poll_selector.cpp, select_selector.cpp, kqueue_selector.cpp and    *)
(* port_selector.cpp), each on top of the descriptor table of FdMap.  Each *)
(* keeps a second account of what is watched: poll an array of pollfd      *)
(* parallel to _M_index, select two bit sets and the highest descriptor,   *)
(* port the events to associate again after each one-shot event.  While    *)
(* process_events goes through a result, the handlers it calls add, remove *)
(* and modify descriptors, whose numbers the kernel uses again.            *)
(*                                                                         *)
(* Conditions of a descriptor are "R", "W" and "E", an error.              *)
(***************************************************************************)
EXTENDS FdMap, FiniteSets

CONSTANTS Kinds,     \* the selectors looked at
          NewsBound  \* bound on the conditions that hold at one time

ASSUME SelectorsAssumption ==
    /\ Kinds \subseteq {"poll", "select", "kqueue", "port"}
    /\ NewsBound \in Nat \ {0}

VARIABLES kind,     \* which of them is compiled
          want,     \* what add or modify asked for last
          news,     \* conditions of the sockets that hold
          pollfds,  \* poll: _M_events
          sets,     \* select: _M_rfds, _M_wfds and _M_highest_fd
          assoc,    \* port: what the kernel has associated
          asked,    \* port: _M_events
          round,    \* where the loop is, with process_events' variables
          reopened  \* poll: descriptors opened since the result being processed

own  == <<pollfds, sets, assoc, asked>>
all  == <<vars, kind, want, news, own, round, reopened>>
Way == {"R", "W"}

EmptySet  == -2
Undefined == -1
Nothing   == [fd |-> Listener, events |-> {}, revents |-> {}]
NoRound(at) == [at |-> at, i |-> 0, nevents |-> 0, got |-> {}, cur |-> Listener]

SelectorInit ==
    /\ Init
    /\ kind \in Kinds
    /\ want = [fd \in Fd |-> IF fd = Listener THEN "R" ELSE "none"]
    /\ news = [fd \in Fd |-> {}]
    /\ pollfds = IF kind = "poll"
                 THEN [i \in Fd |-> IF i = 0 THEN [Nothing EXCEPT !.events = {"R"}] ELSE Nothing]
                 ELSE <<>>
    /\ sets = [r |-> IF kind = "select" THEN {Listener} ELSE {}, w |-> {},
               highest |-> IF kind = "select" THEN Listener ELSE EmptySet]
    /\ assoc = [fd \in Fd |-> IF fd = Listener /\ kind = "port" THEN "R" ELSE "none"]
    /\ asked = assoc
    /\ round = NoRound("turn")
    /\ reopened = {}

----------------------------------------------------------------------------
(* selector::add, remove and modify, for each selector.                    *)

\* revents is left as it was in the place.
AddsWithOldEvents(fd, way) ==
    /\ pollfds' = IF kind = "poll"
                  THEN [pollfds EXCEPT ![used].fd = fd, ![used].events = {way}]
                  ELSE pollfds
    /\ UNCHANGED <<sets, assoc, asked>>
    /\ want' = [want EXCEPT ![fd] = way]

PollAdds(fd, way) == [pollfds EXCEPT ![used] = [fd |-> fd, events |-> {way}, revents |-> {}]]

Bits(fd, way, other) == IF way = other THEN {fd} ELSE {}

SelectAdds(fd, way) ==
    [r |-> sets.r \cup Bits(fd, way, "R"),
     w |-> sets.w \cup Bits(fd, way, "W"),
     highest |-> IF \/ sets.highest = EmptySet
                    \/ sets.highest # Undefined /\ fd > sets.highest
                 THEN fd ELSE sets.highest]

KernelAdds(fd, way) ==
    /\ pollfds' = IF kind = "poll" THEN PollAdds(fd, way) ELSE pollfds
    /\ sets' = IF kind = "select" THEN SelectAdds(fd, way) ELSE sets
    /\ assoc' = IF kind = "port" THEN [assoc EXCEPT ![fd] = way] ELSE assoc
    /\ asked' = IF kind = "port" THEN [asked EXCEPT ![fd] = way] ELSE asked
    /\ want' = [want EXCEPT ![fd] = way]

\* The pollfd of the descriptor that fills the hole is not moved along.
LeavesThePollfd(fd) ==
    /\ UNCHANGED <<pollfds, sets, asked>>
    /\ assoc' = [assoc EXCEPT ![fd] = "none"]
    /\ want' = [want EXCEPT ![fd] = "none"]
    /\ news' = [news EXCEPT ![fd] = {}]

\* Of a pollfd that is not used any more only what add could leave in it, its
\* revents, is kept.
PollRemoves(fd) ==
    LET hole == descriptors[fd]
        last == used - 1
    IN  [i \in Fd |-> IF i = last THEN [Nothing EXCEPT !.revents = pollfds[last].revents]
                      ELSE IF i = hole THEN pollfds[last]
                      ELSE pollfds[i]]

SelectRemoves(fd) ==
    [r |-> sets.r \ {fd}, w |-> sets.w \ {fd},
     highest |-> IF fd = sets.highest THEN Undefined ELSE sets.highest]

KernelRemoves(fd) ==
    /\ pollfds' = IF kind = "poll" THEN PollRemoves(fd) ELSE pollfds
    /\ sets' = IF kind = "select" THEN SelectRemoves(fd) ELSE sets
    /\ assoc' = [assoc EXCEPT ![fd] = "none"]
    /\ UNCHANGED asked
    /\ want' = [want EXCEPT ![fd] = "none"]
    /\ news' = [news EXCEPT ![fd] = {}]

PollModifies(fd, way) ==
    [pollfds EXCEPT ![descriptors[fd]].events = {way}, ![descriptors[fd]].revents = {}]

SelectModifies(fd, way) ==
    [sets EXCEPT !.r = (@ \ {fd}) \cup Bits(fd, way, "R"),
                 !.w = (@ \ {fd}) \cup Bits(fd, way, "W")]

KernelModifies(fd, way) ==
    /\ pollfds' = IF kind = "poll" THEN PollModifies(fd, way) ELSE pollfds
    /\ sets' = IF kind = "select" THEN SelectModifies(fd, way) ELSE sets
    /\ asked' = IF kind = "port" THEN [asked EXCEPT ![fd] = way] ELSE asked
    /\ UNCHANGED assoc
    /\ want' = [want EXCEPT ![fd] = way]

----------------------------------------------------------------------------
(* What a handler of process_events calls: never for the listener, and it  *)
(* does not remove its own descriptor.  The calls that process_ready_list  *)
(* makes change what those of the last handler before it do.               *)

CallAdd(fd, way) ==
    /\ round.at = "handler"
    /\ Add(fd)
    /\ KernelAdds(fd, way)
    /\ kind = "kqueue" => way = "R"
    /\ reopened' = IF kind = "poll" THEN reopened \cup {fd} ELSE reopened
    /\ UNCHANGED <<kind, news, round>>

CallRemove(fd) ==
    /\ round.at = "handler" /\ fd # round.cur
    /\ Remove(fd)
    /\ KernelRemoves(fd)
    /\ UNCHANGED <<kind, round, reopened>>

\* kqueue is always told of both ways, and modify does nothing.
CallModify(fd, way) ==
    /\ round.at = "handler" /\ kind # "kqueue"
    /\ Watched(fd) /\ fd # Listener /\ want[fd] # way
    /\ KernelModifies(fd, way)
    /\ UNCHANGED <<vars, kind, news, round, reopened>>

----------------------------------------------------------------------------
(* tcp_server::start: the alarm, then the wait.                            *)

Turn(at) == round' = NoRound(at)

AlarmBegins ==
    /\ round.at = "turn" /\ BeginSweep
    /\ UNCHANGED <<kind, want, news, own, round, reopened>>

AlarmDrops ==
    /\ SweepDrop
    /\ KernelRemoves(index[pos])
    /\ UNCHANGED <<kind, round, reopened>>

AlarmKeeps ==
    /\ SweepKeep
    /\ UNCHANGED <<kind, want, news, own, round, reopened>>

AlarmEnds ==
    /\ EndSweep
    /\ Turn("wait")
    /\ UNCHANGED <<kind, want, news, own, reopened>>

NoAlarm ==
    /\ round.at = "turn" /\ pos = Idle
    /\ Turn("wait")
    /\ UNCHANGED <<vars, kind, want, news, own, reopened>>

\* The kernel: a condition comes to hold, by the time of the next wait, since
\* nothing looks for it before.
Happens(fd, what) ==
    /\ round.at = "wait"
    /\ Watched(fd) /\ what \notin news[fd]
    /\ what = "E" => fd # Listener
    /\ Cardinality({p \in Fd \X {"R", "W", "E"} : p[2] \in news[p[1]]}) < NewsBound
    /\ news' = [news EXCEPT ![fd] = @ \cup {what}]
    /\ UNCHANGED <<vars, kind, want, own, round, reopened>>

----------------------------------------------------------------------------
(* wait_for_event: what the kernel has to report about what it was given.  *)

Result(fd, ways) == (ways \cup {"E"}) \cap news[fd]

PollHits == {i \in 0 .. (used - 1) : Result(pollfds[i].fd, pollfds[i].events) # {}}

\* The search starts and ends with the first descriptor of the table.
HighestOfTheFirst == IF sets.highest # Undefined THEN sets.highest ELSE index[0]

\* compute_highest_fd, which keeps what it has found out.
Highest ==
    IF sets.highest # Undefined THEN sets.highest
    ELSE CHOOSE fd \in Members : \A f \in Members : f <= fd

\* An error makes a descriptor both readable and writable.
SelectHits(set, way) == {fd \in set : fd <= Highest /\ Result(fd, {way}) # {}}

\* Each filter of kqueue has an event of its own.
KqueueHits == UNION {{[fd |-> fd, events |-> {c}] : c \in news[fd]} : fd \in Fd}

PortHits == {fd \in Fd : assoc[fd] # "none" /\ Result(fd, {assoc[fd]}) # {}}

ReadWrite == [r |-> SelectHits(sets.r, "R"), w |-> SelectHits(sets.w, "W")]

Begin(got, n) == round' = [NoRound("loop") EXCEPT !.got = got, !.nevents = n]

WaitPoll ==
    /\ kind = "poll" /\ PollHits # {}
    /\ pollfds' = [i \in Fd |-> IF i < used
                                THEN [pollfds[i] EXCEPT !.revents =
                                          Result(pollfds[i].fd, pollfds[i].events)]
                                ELSE pollfds[i]]
    /\ Begin({}, Cardinality(PollHits))
    /\ UNCHANGED <<news, sets, assoc>>

WaitSelect ==
    /\ kind = "select" /\ ReadWrite.r \cup ReadWrite.w # {}
    /\ sets' = [sets EXCEPT !.highest = Highest]
    /\ Begin(ReadWrite, Cardinality(ReadWrite.r) + Cardinality(ReadWrite.w))
    /\ UNCHANGED <<news, pollfds, assoc>>

\* EV_CLEAR: what has been reported is not reported again.
WaitKqueue ==
    /\ kind = "kqueue" /\ KqueueHits # {}
    /\ news' = [fd \in Fd |-> {}]
    /\ Begin(KqueueHits, 0)
    /\ UNCHANGED <<pollfds, sets, assoc>>

\* The event that it reports uses an association up.
WaitPort ==
    /\ kind = "port" /\ PortHits # {}
    /\ assoc' = [fd \in Fd |-> IF fd \in PortHits THEN "none" ELSE assoc[fd]]
    /\ Begin({[fd |-> fd, events |-> Result(fd, {assoc[fd]})] : fd \in PortHits}, 0)
    /\ UNCHANGED <<news, pollfds, sets>>

Wait ==
    /\ round.at = "wait"
    /\ WaitPoll \/ WaitSelect \/ WaitKqueue \/ WaitPort
    /\ reopened' = {}
    /\ UNCHANGED <<vars, kind, want, asked>>

\* The time is up, or a signal comes, before there is anything to report.
WaitEndsEmpty ==
    /\ round.at = "wait"
    /\ \/ kind = "poll" /\ PollHits = {}
       \/ kind = "select" /\ ReadWrite.r \cup ReadWrite.w = {}
       \/ kind = "kqueue" /\ KqueueHits = {}
       \/ kind = "port" /\ PortHits = {}
    /\ Turn("turn")
    /\ UNCHANGED <<vars, kind, want, news, own, reopened>>

----------------------------------------------------------------------------
(* process_events.  poll and select go through the table, in which every   *)
(* descriptor is watched; kqueue and port go through a batch, in any       *)
(* order, that can be about descriptors closed, or opened anew, since.     *)

Scans == kind \in {"poll", "select"}

InTable == Scans /\ round.i < used /\ round.nevents # 0

Here == [fd |-> index[round.i],
         events |-> IF kind = "poll" THEN pollfds[round.i].revents
                    ELSE {c \in Way : index[round.i] \in (IF c = "R" THEN round.got.r ELSE round.got.w)}]

\* After a removal the same place of the table, where another element is.
AfterRemoval == [round EXCEPT !.at = "loop", !.cur = Listener]

\* unsigned nevents: a bit of a descriptor opened anew is counted as well.
Counted(e) == IF kind = "poll" THEN 1 ELSE Cardinality(e.events)

Taken(e) == IF Scans THEN [round EXCEPT !.nevents = @ - Counted(e)]
            ELSE [round EXCEPT !.got = @ \ {e}]

LoopSkips ==
    /\ round.at = "loop" /\ InTable
    /\ Here.events = {}
    /\ round' = [round EXCEPT !.i = @ + 1]
    /\ UNCHANGED <<vars, kind, want, news, own, reopened>>

LoopIgnores ==
    /\ round.at = "loop" /\ ~Scans
    /\ \E e \in round.got : ~Watched(e.fd) /\ round' = Taken(e)
    /\ UNCHANGED <<vars, kind, want, news, own, reopened>>

\* The event that is next.
Due(e) ==
    /\ round.at = "loop"
    /\ \/ InTable /\ e = Here /\ e.events # {}
       \/ ~Scans /\ e \in round.got /\ Watched(e.fd)

\* kqueue looks at EV_ERROR and EV_EOF first, poll and port at the ways.
IsError(e) == IF kind = "kqueue" THEN "E" \in e.events ELSE e.events \cap Way = {}

Candidates == IF Scans THEN IF InTable THEN {Here} ELSE {} ELSE round.got

\* on_event: the handler takes all that there is.
Deliver ==
    \E e \in Candidates :
        /\ Due(e) /\ ~IsError(e)
        /\ round' = [Taken(e) EXCEPT !.at = "handler", !.cur = e.fd]
        /\ news' = [news EXCEPT ![e.fd] = @ \ e.events]
        /\ UNCHANGED <<vars, kind, want, own, reopened>>

\* on_event_error, and the descriptor is removed.
DeliverError ==
    \E e \in Candidates :
        /\ Due(e) /\ IsError(e) /\ e.fd # Listener
        /\ Unlink(e.fd)
        /\ KernelRemoves(e.fd)
        /\ round' = [Taken(e) EXCEPT !.at = "loop", !.cur = Listener]
        /\ UNCHANGED <<pos, kind, reopened>>

\* on_event has returned true; port associates the descriptor again.
HandlerKeeps ==
    /\ round.at = "handler"
    /\ round' = IF Scans THEN [AfterRemoval EXCEPT !.i = @ + 1] ELSE AfterRemoval
    /\ assoc' = IF kind = "port" THEN [assoc EXCEPT ![round.cur] = asked[round.cur]] ELSE assoc
    /\ UNCHANGED <<vars, kind, want, news, pollfds, sets, asked, reopened>>

\* on_event has returned false.
HandlerDrops ==
    /\ round.at = "handler" /\ round.cur # Listener
    /\ Unlink(round.cur)
    /\ KernelRemoves(round.cur)
    /\ round' = AfterRemoval
    /\ UNCHANGED <<pos, kind, reopened>>

\* The revents that remain are not read again before poll sets them.
LoopEnds ==
    /\ round.at = "loop"
    /\ IF Scans THEN ~InTable ELSE round.got = {}
    /\ Turn("turn")
    /\ reopened' = {}
    /\ pollfds' = [i \in DOMAIN pollfds |-> [pollfds[i] EXCEPT !.revents = {}]]
    /\ UNCHANGED <<vars, kind, want, news, sets, assoc, asked>>

Process ==
    \/ LoopSkips \/ LoopIgnores \/ Deliver \/ DeliverError
    \/ HandlerKeeps \/ HandlerDrops \/ LoopEnds

Alarm == AlarmBegins \/ AlarmDrops \/ AlarmKeeps \/ AlarmEnds \/ NoAlarm

SelectorNext ==
    \/ Alarm
    \/ Wait \/ WaitEndsEmpty
    \/ Process
    \/ \E fd \in Fd :
          \/ \E way \in Way : CallAdd(fd, way) \/ CallModify(fd, way)
          \/ CallRemove(fd)
          \/ \E what \in Way \cup {"E"} : Happens(fd, what)

SelectorSpec == SelectorInit /\ [][SelectorNext]_all

(***************************************************************************)
(* The only thread goes on: each of its steps is taken in the end, and the *)
(* handlers return.                                                        *)
(***************************************************************************)
FairSelectorSpec ==
    /\ SelectorSpec
    /\ WF_all(NoAlarm) /\ WF_all(AlarmDrops \/ AlarmKeeps) /\ WF_all(AlarmEnds)
    /\ WF_all(Wait \/ WaitEndsEmpty)
    /\ WF_all(LoopSkips \/ LoopIgnores \/ Deliver \/ DeliverError \/ LoopEnds)
    /\ WF_all(HandlerKeeps \/ HandlerDrops)

----------------------------------------------------------------------------
(***************************************************************************)
(* The second account of every selector agrees with the table at every     *)
(* moment: the kernel is asked about each watched descriptor, for what was *)
(* asked for last, and about no other.  For port, whose modify waits for   *)
(* the handler of the descriptor to return, it is asked for something.     *)
(***************************************************************************)
KernelWatchesAll ==
    /\ kind = "poll" => \A i \in 0 .. (used - 1) :
          pollfds[i].fd = index[i] /\ pollfds[i].events = {want[index[i]]}
    /\ kind = "select" =>
          /\ sets.r = {fd \in Fd : want[fd] = "R"}
          /\ sets.w = {fd \in Fd : want[fd] = "W"}
          /\ sets.highest # Undefined => \A fd \in Members : fd <= sets.highest
    /\ kind = "port" => \A fd \in Members :
          \/ assoc[fd] # "none"
          \/ round.at = "handler" /\ round.cur = fd
          \/ \E e \in round.got : e.fd = fd
    /\ Members = {fd \in Fd : want[fd] # "none"}

(***************************************************************************)
(* With poll no handler is called for what was reported of an earlier      *)
(* connection with the same descriptor, however descriptors are closed,    *)
(* opened anew and moved in the array while a result is processed.         *)
(***************************************************************************)
EventsOfItsOwn ==
    kind = "poll" /\ round.at = "handler" => round.cur \notin reopened

(***************************************************************************)
(* poll and select report what holds again and again, and every descriptor *)
(* is served in the end although each round passes by those that a removal *)
(* has moved to a place it has already left.                               *)
(***************************************************************************)
Served ==
    \A fd \in Fd : Scans /\ want[fd] \in news[fd] ~> want[fd] \notin news[fd]
=============================================================================
