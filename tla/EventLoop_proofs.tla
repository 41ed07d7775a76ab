-------------------------- MODULE EventLoop_proofs --------------------------
(***************************************************************************)
(* Proofs about the event loop, for every number of descriptors, every     *)
(* idle time and whatever faults happen.                                   *)
(***************************************************************************)
EXTENDS EventLoop, FiniteSetTheorems, TLAPS

\* What is in a list, and that it is there once.
In(s) == {s[i] : i \in DOMAIN s}

Once(s) == \A i, j \in DOMAIN s : s[i] = s[j] => i = j

(***************************************************************************)
(* The ready list and the batch.  Between two drains of the list an event  *)
(* adds its descriptor once, and the alarm once more: the list has no      *)
(* element twice before the alarm's sweep, and none that an event is still *)
(* to be processed for.                                                    *)
(***************************************************************************)
Queued == In(ready)

QueuedOnce == Queued \subseteq mode.fds /\ Once(ready)

BatchOnce ==
    /\ \A d, e \in batch : d[1] = e[1] => d = e
    /\ \A e \in batch : e[1] \notin Queued

\* A response that was taken to be complete is in the list, or being passed on.
CompletedQueued ==
    \A b \in Fd : backend[b].state = "completed" =>
        /\ handler[b] # "local"
        /\ Closing(b) \/ (at = "ready" /\ b \in Queued)

QueueInv ==
    /\ TypeOK
    /\ open \subseteq mode.fds
    /\ at \in {"alarm", "wait"} => call = NoCall
    /\ at = "wait" => ready = <<>>
    /\ at \in {"events", "alarm"} => QueuedOnce
    /\ at = "events" => BatchOnce
    /\ ReadyListFits
    /\ CompletedQueued

(***************************************************************************)
(* Without faults: a backend that is not being closed and its client name  *)
(* each other; nobody is flagged, so that only silent backends are queued, *)
(* in the round that serves them; a client that has got its answer is open *)
(* when process_connection comes to its loop.                              *)
(***************************************************************************)
PairOf(b) ==
    /\ IsClient(backend[b].peer)
    /\ client[backend[b].peer].state = "waiting"
    /\ client[backend[b].peer].peer = b
    /\ idle[backend[b].peer] <= idle[b]

CallInPlace ==
    /\ call.step # "none" => IsBackend(call.backend)
    /\ call.step = "client" => /\ IsClient(call.client)
                               /\ client[call.client].state = "answering"

ServedAtOnce ==
    /\ ready # <<>> => at = "ready"
    /\ \A fd \in Queued : IsBackend(fd) /\ ~Closing(fd)
    /\ Once(ready)

Clean(fd) ==
    /\ ~client[fd].flag
    /\ ~IsClient(fd) => client[fd] = FreshClient
    /\ ~IsBackend(fd) => backend[fd] = FreshBackend
    /\ IsBackend(fd) => backend[fd].peer \in Fd

PairInv ==
    /\ TypeOK
    /\ mode.faults = {}
    /\ \A fd \in Fd : Clean(fd) /\ (AtWork(fd) => PairOf(fd))
    /\ CallInPlace /\ ServedAtOnce
    /\ \A e \in batch : e[2] # "error"

LoopInv == QueueInv /\ (NoFaults => PairInv)

----------------------------------------------------------------------------
(***************************************************************************)
(* What is known of the mode, and what a step of a handler may leave in    *)
(* the slots.                                                              *)
(***************************************************************************)
Handlers == {"local", mode.handler}

SlotsTyped ==
    /\ alarm \in BOOLEAN
    /\ open \subseteq Fd
    /\ handler \in [Fd -> Handlers]
    /\ client \in [Fd -> ClientSlot]
    /\ backend \in [Fd -> BackendSlot]
    /\ idle \in [Fd -> 0 .. Oldest]

\* The constants of a run, whichever it is.
LEMMA ModeKnown ==
    ASSUME mode \in Modes
    PROVE  /\ mode.fds \subseteq Fd
           /\ mode.handler \in {"http", "fcgi"}
           /\ mode.faults \subseteq AllFaults
           /\ IsFiniteSet(mode.fds) /\ Cardinality(mode.fds) \in Nat
           /\ Oldest \in Nat /\ Oldest > 1
           /\ None \notin Fd /\ Listener \notin Fd
<1>1. /\ mode.fds \subseteq Fd
      /\ mode.handler \in {"http", "fcgi"}
      /\ mode.faults \subseteq AllFaults
  BY EventLoopAssumption DEF Mode
<1>2. IsFiniteSet(mode.fds) /\ Cardinality(mode.fds) \in Nat
  BY <1>1, EventLoopAssumption, FS_Subset, FS_CardinalityType
<1>3. Oldest \in Nat /\ Oldest > 1
  BY EventLoopAssumption DEF Oldest
<1>4. QED
  BY <1>1, <1>2, <1>3, EventLoopAssumption

\* A second that passes keeps who is idle for longer.
LEMMA AgedTyped ==
    ASSUME TypeOK
    PROVE  /\ Aged \in [Fd -> 0 .. Oldest]
           /\ \A c, b \in open : idle[c] <= idle[b] => Aged[c] <= Aged[b]
<1> USE ModeKnown DEF TypeOK
<1>1. \A fd \in Fd : idle[fd] \in 0 .. Oldest
  OBVIOUS
<1>2. \A fd \in Fd : Aged[fd] = IF fd \in open /\ idle[fd] < Oldest THEN idle[fd] + 1 ELSE idle[fd]
  BY DEF Aged
<1>3. \A fd \in Fd : Aged[fd] \in 0 .. Oldest
  BY <1>1, <1>2
<1>4. Aged \in [Fd -> 0 .. Oldest]
  BY <1>3 DEF Aged
<1>5. \A c, b \in open : idle[c] <= idle[b] => Aged[c] <= Aged[b]
  BY <1>1, <1>2, SMTT(40)
<1>6. QED
  BY <1>4, <1>5

\* The loop of a client, whatever descriptor it is called for.
LEMMA ClientLoopTyped ==
    ASSUME TypeOK, NEW c \in Fd, NEW me \in ClientSlot, ClientLoop(c, me), mode' = mode
    PROVE  SlotsTyped'
<1> USE ModeKnown DEF TypeOK, SlotsTyped, Handlers
<1>1. /\ FreshClient \in ClientSlot
      /\ \A m \in ClientSlot : [m EXCEPT !.flag = TRUE] \in ClientSlot
      /\ 0 \in 0 .. Oldest /\ 1 \in 0 .. Oldest
  <2>1. FreshClient \in ClientSlot
    BY DEF FreshClient, ClientSlot
  <2>2. \A m \in ClientSlot : [m EXCEPT !.flag = TRUE] \in ClientSlot
    BY DEF ClientSlot
  <2>3. QED
    BY <2>1, <2>2
<1>2. CASE ClientKeeps(c, me)
  <2>1. \E m \in ClientSlot : client' = [client EXCEPT ![c] = m]
    BY <1>1, <1>2 DEF ClientKeeps
  <2>2. client' \in [Fd -> ClientSlot]
    BY <2>1
  <2>3. idle' \in [Fd -> 0 .. Oldest]
    BY <1>1, <1>2 DEF ClientKeeps
  <2>4. UNCHANGED <<alarm, open, handler, backend>>
    BY <1>2 DEF ClientKeeps
  <2>5. QED
    BY <2>2, <2>3, <2>4
<1>3. CASE ClientCloses(c, me)
  BY <1>1, <1>3 DEF ClientCloses
<1>4. ASSUME NEW b \in mode.fds, ClientForwards(c, me, b)
      PROVE  SlotsTyped'
  <2>1. b \in Fd
    OBVIOUS
  <2>2. [state |-> "waiting", peer |-> b, flag |-> ReadEarlier(me)] \in ClientSlot
    BY <2>1 DEF ClientSlot, ReadEarlier
  <2>3. \A s \in BackendSlot : [s EXCEPT !.peer = c] \in BackendSlot
    BY DEF BackendSlot
  <2>4. client' \in [Fd -> ClientSlot] /\ backend' \in [Fd -> BackendSlot]
    BY <1>4, <2>1, <2>2, <2>3 DEF ClientForwards
  <2>5. idle' \in [Fd -> 0 .. Oldest] /\ alarm' \in BOOLEAN
    <3>1. PICK f \in [Fd -> 0 .. Oldest], k \in {0, 1} :
             idle' = [f EXCEPT ![b] = 0] \/ idle' = [f EXCEPT ![b] = 0, ![c] = k]
      BY <1>4, AgedTyped DEF ClientForwards
    <3>2. 0 \in 0 .. Oldest /\ 1 \in 0 .. Oldest
      BY <1>1
    <3>3. idle' \in [Fd -> 0 .. Oldest]
      <4>1. k \in 0 .. Oldest
        BY <3>2
      <4> DEFINE g == [f EXCEPT ![b] = 0]
      <4>2. g \in [Fd -> 0 .. Oldest]
        BY <3>2
      <4>3. [g EXCEPT ![c] = k] \in [Fd -> 0 .. Oldest]
        BY <4>1, <4>2
      <4>4. [f EXCEPT ![b] = 0, ![c] = k] = [g EXCEPT ![c] = k]
        OBVIOUS
      <4>5. QED
        BY <3>1, <4>2, <4>3, <4>4
    <3>4. alarm' \in BOOLEAN
      BY <1>4 DEF ClientForwards
    <3>5. QED
      BY <3>3, <3>4
  <2>6. open' \subseteq Fd /\ handler' \in [Fd -> Handlers']
    BY <1>4, <2>1 DEF ClientForwards
  <2>7. QED
    BY <2>4, <2>5, <2>6
<1>5. CASE ClientFindsNoBackend(c, me)
  <2>1. [state |-> "waiting", peer |-> None, flag |-> ReadEarlier(me)] \in ClientSlot
    BY DEF ClientSlot, ReadEarlier
  <2>2. QED
    BY <1>1, <1>5, <2>1 DEF ClientFindsNoBackend
<1>6. QED
  BY <1>2, <1>3, <1>4, <1>5 DEF ClientLoop

(***************************************************************************)
(* The loop of a client changes no response and makes nothing local.       *)
(***************************************************************************)
LEMMA ClientLoopSpares ==
    ASSUME TypeOK, open \subseteq mode.fds, NEW c \in Fd, NEW me, ClientLoop(c, me)
    PROVE  /\ open' \subseteq mode.fds
           /\ \A b \in Fd : backend'[b].state = backend[b].state
           /\ \A b \in Fd : handler[b] # "local" => handler'[b] # "local"
<1> USE ModeKnown DEF TypeOK
<1>1. CASE ClientKeeps(c, me) \/ ClientCloses(c, me) \/ ClientFindsNoBackend(c, me)
  BY <1>1 DEF ClientKeeps, ClientCloses, ClientFindsNoBackend
<1>2. ASSUME NEW b \in mode.fds, ClientForwards(c, me, b)
      PROVE  /\ open' \subseteq mode.fds
             /\ \A d \in Fd : backend'[d].state = backend[d].state
             /\ \A d \in Fd : handler[d] # "local" => handler'[d] # "local"
  <2>1. \A s \in BackendSlot : [s EXCEPT !.peer = c].state = s.state
    BY DEF BackendSlot
  <2>2. backend' = [backend EXCEPT ![b].peer = c]
    BY <1>2 DEF ClientForwards
  <2>3. \A d \in Fd : backend'[d].state = backend[d].state
    BY <2>1, <2>2
  <2>4. open' = open \cup {b} /\ handler' = [handler EXCEPT ![b] = mode.handler]
    BY <1>2 DEF ClientForwards
  <2>5. \A d \in Fd : handler[d] # "local" => handler'[d] # "local"
    BY <2>4
  <2>6. QED
    BY <2>3, <2>4, <2>5
<1>3. QED
  BY <1>1, <1>2 DEF ClientLoop

(***************************************************************************)
(* A backend goes on with its exchange, or its end begins.                 *)
(***************************************************************************)
GoesOn(b) ==
    /\ BackendKeeps(b)
    /\ backend[b].state # "completed"
    /\ UNCHANGED <<client, call>>
    /\ \A d \in Fd : /\ backend'[d].peer = backend[d].peer
                     /\ backend'[d] # backend[d] => d = b /\ backend'[d].state = "unknown"

Ends(b) ==
    /\ BackendAnswers(b) \/ BackendGivesUp(b)
    /\ UNCHANGED backend
    /\ \E step \in {"client", "close"} :
          call' = [step |-> step, backend |-> b, client |-> backend[b].peer]
    /\ \E m \in ClientSlot : /\ client' = [client EXCEPT ![backend[b].peer] = m]
                             /\ ~m.flag /\ m.peer = None

\* A client and its backend have been heard of: the others have not.
LEMMA RefreshesTyped ==
    ASSUME TypeOK, NEW c, NEW b \in Fd, Refreshes(c, b)
    PROVE  idle' \in [Fd -> 0 .. Oldest]
<1>1. PICK fresh : idle' = [fd \in Fd |-> IF fd \in fresh THEN 0 ELSE idle[fd]]
  BY DEF Refreshes
<1>2. \A fd \in Fd : idle[fd] \in 0 .. Oldest /\ 0 \in 0 .. Oldest
  BY ModeKnown DEF TypeOK
<1>3. QED
  BY <1>1, <1>2

\* All that the loop of a backend does to the slots.
LEMMA BackendLoopDoes ==
    ASSUME TypeOK, NEW b \in Fd, BackendLoop(b), mode' = mode
    PROVE  /\ SlotsTyped' /\ UNCHANGED <<open, handler, alarm>>
           /\ backend[b].peer \in Fd
           /\ Refreshes(backend[b].peer, b)
           /\ GoesOn(b) \/ Ends(b)
<1> USE ModeKnown DEF TypeOK
<1> DEFINE c == backend[b].peer
<1>1. c \in Fd
  BY DEF BackendLoop, BackendSlot
<1>2. Refreshes(c, b) /\ UNCHANGED <<alarm, open, handler>>
  BY DEF BackendLoop, BackendKeeps, BackendAnswers, BackendGivesUp
<1>3. CASE BackendKeeps(b)
  <2>1. \/ backend' = backend
        \/ backend' = [backend EXCEPT ![b].state = "unknown"]
    BY <1>3 DEF BackendKeeps
  <2> DEFINE now(d) == backend'[d]
  <2>2. \A d \in Fd : now(d) = backend[d] \/ (d = b /\ now(d) = [backend[d] EXCEPT !.state = "unknown"])
    BY <2>1
  <2>3. \A s \in BackendSlot : /\ [s EXCEPT !.state = "unknown"] \in BackendSlot
                              /\ [s EXCEPT !.state = "unknown"].peer = s.peer
                              /\ [s EXCEPT !.state = "unknown"].state = "unknown"
    BY DEF BackendSlot
  <2>4. ASSUME NEW d \in Fd
        PROVE  /\ now(d) \in BackendSlot /\ now(d).peer = backend[d].peer
               /\ now(d) # backend[d] => d = b /\ now(d).state = "unknown"
    <3>1. backend[d] \in BackendSlot
      OBVIOUS
    <3> HIDE DEF now
    <3>2. QED
      BY <2>2, <2>3, <3>1
  <2>5. backend' \in [Fd -> BackendSlot]
    BY <2>1, <2>4
  <2>6. GoesOn(b)
    BY <1>3, <2>4 DEF GoesOn, BackendKeeps
  <2>7. client' = client
    BY <1>3 DEF BackendKeeps
  <2>8. QED
    BY <1>1, <1>2, <2>5, <2>6, <2>7, RefreshesTyped DEF SlotsTyped, Handlers
<1>4. CASE BackendAnswers(b) \/ BackendGivesUp(b)
  <2>1. \E step \in {"client", "close"} : call' = [step |-> step, backend |-> b, client |-> c]
    BY <1>4 DEF BackendAnswers, BackendGivesUp
  <2>2. PICK m \in ClientSlot : client' = [client EXCEPT ![c] = m] /\ ~m.flag /\ m.peer = None
    <3>1. CASE BackendAnswers(b)
      <4> DEFINE m == [state |-> "answering", peer |-> None, flag |-> FALSE]
      <4>1. m \in ClientSlot /\ ~m.flag /\ m.peer = None
        BY DEF ClientSlot
      <4>2. client' = [client EXCEPT ![c] = m]
        BY <3>1 DEF BackendAnswers
      <4>3. QED
        BY <4>1, <4>2
    <3>2. CASE BackendGivesUp(b)
      <4> DEFINE m == [state |-> client[c].state, peer |-> None, flag |-> FALSE]
      <4>1. client' = [client EXCEPT ![c] = m]
        BY <1>1, <3>2 DEF BackendGivesUp
      <4>2. client[c] \in ClientSlot
        BY <1>1
      <4>3. m \in ClientSlot /\ ~m.flag /\ m.peer = None
        BY <4>2 DEF ClientSlot
      <4>4. QED
        BY <4>1, <4>3
    <3>3. QED
      BY <1>4, <3>1, <3>2
  <2>3. backend' = backend
    BY <1>4 DEF BackendAnswers, BackendGivesUp
  <2>4. Ends(b)
    BY <1>4, <2>1, <2>2, <2>3 DEF Ends
  <2>5. client' \in [Fd -> ClientSlot] /\ backend' \in [Fd -> BackendSlot]
    BY <2>2, <2>3
  <2>6. QED
    BY <1>1, <1>2, <2>4, <2>5, RefreshesTyped DEF SlotsTyped, Handlers
<1>5. QED
  BY <1>3, <1>4 DEF BackendLoop

----------------------------------------------------------------------------
(***************************************************************************)
(* Lists of descriptors: what is in one, without its first element, with   *)
(* one more at its end, with another behind it.                            *)
(***************************************************************************)
LEMMA WithoutHead ==
    ASSUME NEW s \in Seq(Fd), s # <<>>
    PROVE  /\ Head(s) \in Fd /\ Tail(s) \in Seq(Fd)
           /\ Len(Tail(s)) = Len(s) - 1 /\ Len(s) \in Nat
           /\ In(s) = In(Tail(s)) \cup {Head(s)}
           /\ Once(s) => Once(Tail(s)) /\ Head(s) \notin In(Tail(s))
<1>1. /\ Head(s) \in Fd /\ Tail(s) \in Seq(Fd)
      /\ Len(Tail(s)) = Len(s) - 1 /\ Len(s) \in Nat /\ Len(s) > 0
      /\ Head(s) = s[1]
      /\ DOMAIN s = 1 .. Len(s) /\ DOMAIN Tail(s) = 1 .. (Len(s) - 1)
      /\ \A i \in 1 .. (Len(s) - 1) : Tail(s)[i] = s[i + 1]
  OBVIOUS
<1>2. In(s) = In(Tail(s)) \cup {Head(s)}
  <2>1. ASSUME NEW i \in DOMAIN s PROVE s[i] \in In(Tail(s)) \cup {Head(s)}
    <3>1. CASE i = 1
      BY <1>1, <3>1
    <3>2. CASE i # 1
      <4>1. i - 1 \in DOMAIN Tail(s) /\ Tail(s)[i - 1] = s[i]
        BY <1>1, <3>2
      <4>2. QED
        BY <4>1 DEF In
    <3>3. QED
      BY <3>1, <3>2
  <2>2. ASSUME NEW i \in DOMAIN Tail(s) PROVE Tail(s)[i] \in In(s)
    <3>1. i + 1 \in DOMAIN s /\ Tail(s)[i] = s[i + 1]
      BY <1>1
    <3>2. QED
      BY <3>1 DEF In
  <2>3. 1 \in DOMAIN s
    BY <1>1
  <2>4. QED
    BY <1>1, <2>1, <2>2, <2>3 DEF In
<1>3. ASSUME Once(s) PROVE Once(Tail(s)) /\ Head(s) \notin In(Tail(s))
  <2>1. ASSUME NEW i \in DOMAIN Tail(s), NEW j \in DOMAIN Tail(s), Tail(s)[i] = Tail(s)[j]
        PROVE  i = j
    <3>1. i + 1 \in DOMAIN s /\ j + 1 \in DOMAIN s /\ s[i + 1] = s[j + 1] /\ i \in Int /\ j \in Int
      BY <1>1, <2>1
    <3>2. QED
      BY <1>3, <3>1 DEF Once
  <2>2. ASSUME NEW i \in DOMAIN Tail(s) PROVE Tail(s)[i] # Head(s)
    <3>1. i + 1 \in DOMAIN s /\ 1 \in DOMAIN s /\ i + 1 # 1 /\ Tail(s)[i] = s[i + 1]
      BY <1>1
    <3>2. QED
      BY <1>1, <1>3, <3>1 DEF Once
  <2>3. QED
    BY <2>1, <2>2 DEF Once, In
<1>4. QED
  BY <1>1, <1>2, <1>3

\* The descriptors in two lists, one after the other.
LEMMA WithAnother ==
    ASSUME NEW s \in Seq(Fd), NEW t \in Seq(Fd)
    PROVE  /\ s \o t \in Seq(Fd)
           /\ Len(s \o t) = Len(s) + Len(t) /\ Len(s) \in Nat /\ Len(t) \in Nat
           /\ In(s \o t) = In(s) \cup In(t)
<1>1. /\ s \o t \in Seq(Fd) /\ Len(s \o t) = Len(s) + Len(t)
      /\ Len(s) \in Nat /\ Len(t) \in Nat
      /\ DOMAIN s = 1 .. Len(s) /\ DOMAIN t = 1 .. Len(t)
      /\ DOMAIN (s \o t) = 1 .. (Len(s) + Len(t))
      /\ \A i \in 1 .. (Len(s) + Len(t)) :
            (s \o t)[i] = IF i <= Len(s) THEN s[i] ELSE t[i - Len(s)]
  OBVIOUS
<1>2. ASSUME NEW i \in DOMAIN (s \o t) PROVE (s \o t)[i] \in In(s) \cup In(t)
  <2>1. CASE i <= Len(s)
    BY <1>1, <2>1 DEF In
  <2>2. CASE i > Len(s)
    <3>1. i - Len(s) \in DOMAIN t /\ (s \o t)[i] = t[i - Len(s)]
      BY <1>1, <2>2
    <3>2. QED
      BY <3>1 DEF In
  <2>3. QED
    BY <1>1, <2>1, <2>2
<1>3. ASSUME NEW i \in DOMAIN s PROVE s[i] \in In(s \o t)
  <2>1. i \in DOMAIN (s \o t) /\ (s \o t)[i] = s[i]
    BY <1>1
  <2>2. QED
    BY <2>1 DEF In
<1>4. ASSUME NEW i \in DOMAIN t PROVE t[i] \in In(s \o t)
  <2>1. i + Len(s) \in DOMAIN (s \o t) /\ (s \o t)[i + Len(s)] = t[i]
    BY <1>1
  <2>2. QED
    BY <2>1 DEF In
<1>5. In(s \o t) = In(s) \cup In(t)
  BY <1>2, <1>3, <1>4 DEF In
<1>6. QED
  BY <1>1, <1>5

\* A list with one more descriptor at its end.
LEMMA WithOneMore ==
    ASSUME NEW s \in Seq(Fd), NEW fd \in Fd
    PROVE  /\ Append(s, fd) \in Seq(Fd)
           /\ Len(Append(s, fd)) = Len(s) + 1 /\ Len(s) \in Nat
           /\ In(Append(s, fd)) = In(s) \cup {fd}
           /\ Once(s) /\ fd \notin In(s) => Once(Append(s, fd))
<1> DEFINE t == Append(s, fd)
<1>1. /\ t \in Seq(Fd) /\ Len(t) = Len(s) + 1 /\ Len(s) \in Nat
      /\ DOMAIN s = 1 .. Len(s) /\ DOMAIN t = 1 .. (Len(s) + 1)
      /\ \A i \in 1 .. Len(s) : t[i] = s[i]
      /\ t[Len(s) + 1] = fd
  OBVIOUS
<1> HIDE DEF t
<1>2. \A i \in DOMAIN t : (i \in DOMAIN s /\ t[i] = s[i]) \/ (i = Len(s) + 1 /\ t[i] = fd)
  BY <1>1
<1>3. \A i \in DOMAIN s : i \in DOMAIN t /\ t[i] = s[i]
  BY <1>1
<1>4. Len(s) + 1 \in DOMAIN t
  BY <1>1
<1>5. In(t) = In(s) \cup {fd}
  BY <1>1, <1>2, <1>3, <1>4 DEF In
<1>6. ASSUME Once(s), fd \notin In(s) PROVE Once(t)
  BY <1>1, <1>2, <1>6 DEF Once, In
<1>7. QED
  BY <1>1, <1>5, <1>6 DEF t

(***************************************************************************)
(* A list without repetition is not longer than what it is made of, and an *)
(* order of a set is one that has all of it.                               *)
(***************************************************************************)
LEMMA OnceIsShort ==
    ASSUME NEW T, IsFiniteSet(T), NEW s \in Seq(Fd), Once(s), In(s) \subseteq T
    PROVE  /\ Len(s) <= Cardinality(T)
           /\ Len(s) = Cardinality(T) => In(s) = T
<1>1. DOMAIN s = 1 .. Len(s) /\ Len(s) \in Nat
  OBVIOUS
<1>2. s \in [1 .. Len(s) -> T]
  BY <1>1 DEF In
<1>3. s \in Injection(1 .. Len(s), T)
  BY <1>1, <1>2 DEF Injection, IsInjective, Once
<1>4. Cardinality(1 .. Len(s)) = Len(s)
  <2>1. 1 \in Int /\ Len(s) \in Int
    BY <1>1
  <2>2. Cardinality(1 .. Len(s)) = IF 1 > Len(s) THEN 0 ELSE Len(s) - 1 + 1
    BY <2>1, FS_Interval
  <2>3. QED
    BY <1>1, <2>2
<1>5. Len(s) <= Cardinality(T) /\ (Len(s) = Cardinality(T) => s \in Surjection(1 .. Len(s), T))
  BY <1>3, <1>4, FS_Injection
<1>6. s \in Surjection(1 .. Len(s), T) => In(s) = T
  BY <1>1 DEF Surjection, In
<1>7. QED
  BY <1>5, <1>6

\* A batch of events names each descriptor of a set once.
LEMMA OrderHasAll ==
    ASSUME NEW S, S \subseteq Fd, NEW order \in Orders(S)
    PROVE  /\ order \in Seq(Fd) /\ Once(order) /\ In(order) = S
           /\ Len(order) = Cardinality(S)
<1>1. IsFiniteSet(S) /\ Cardinality(S) \in Nat
  BY EventLoopAssumption, FS_Subset, FS_CardinalityType
<1>2. order \in [1 .. Cardinality(S) -> S] /\ Once(order)
  BY DEF Orders, Once
<1>3. order \in Seq(Fd) /\ Len(order) = Cardinality(S) /\ In(order) \subseteq S
  BY <1>1, <1>2 DEF In
<1>4. QED
  BY <1>1, <1>2, <1>3, OnceIsShort

----------------------------------------------------------------------------
(***************************************************************************)
(* What a step has to establish for QueueInv.                              *)
(***************************************************************************)
LEMMA TypedFromParts ==
    ASSUME TypeOK, mode' = mode, SlotsTyped',
           at' \in {"alarm", "ready", "wait", "events"},
           ready' \in Seq(Fd), batch' \subseteq Event, call' \in Call \cup {NoCall}
    PROVE  TypeOK'
  BY DEF TypeOK, SlotsTyped, Handlers

\* A call that is being made tells of a client and a backend.
LEMMA CallKinds ==
    ASSUME call \in Call \cup {NoCall}
    PROVE  /\ call.step # "none" <=> call \in Call
           /\ call = NoCall <=> call.step = "none"
           /\ call \in Call => call.backend \in Fd /\ call.client \in Fd
  BY DEF Call, NoCall

\* The ready list when it gets shorter, or does not change.
LEMMA ShorterFits ==
    ASSUME TypeOK, mode' = mode, ReadyListFits, ready' = ready \/ (ready # <<>> /\ ready' = Tail(ready))
    PROVE  ReadyListFits'
<1>1. Len(ready) \in Nat /\ Cardinality(mode.fds) \in Nat
  BY ModeKnown DEF TypeOK
<1>2. Len(ready') <= Len(ready) /\ Len(ready') \in Nat
  BY <1>1, WithoutHead DEF TypeOK
<1>3. QED
  BY <1>1, <1>2 DEF ReadyListFits

(***************************************************************************)
(* A step of process_connection: the queue is not looked at.               *)
(***************************************************************************)
LEMMA CallKeepsQueue ==
    ASSUME QueueInv, CallClient \/ CallClose, mode' = mode
    PROVE  QueueInv'
<1> USE DEF QueueInv
<1>1. /\ call \in Call /\ call.backend \in Fd /\ call.client \in Fd
      /\ at \notin {"alarm", "wait"}
      /\ UNCHANGED <<at, ready, batch>>
  BY CallKinds DEF CallClient, CallClose, TypeOK
<1>2. ReadyListFits' /\ (at' \in {"events", "alarm"} => QueuedOnce') /\ (at' = "events" => BatchOnce')
  BY <1>1 DEF ReadyListFits, QueuedOnce, Queued, BatchOnce
<1>3. CASE CallClient
  <2>1. /\ ClientLoop(call.client, client[call.client])
        /\ call' = [call EXCEPT !.step = "close"]
    BY <1>3 DEF CallClient
  <2>2. client[call.client] \in ClientSlot
    BY <1>1 DEF TypeOK
  <2>3. call' \in Call /\ call'.backend = call.backend
    BY <1>1, <2>1 DEF Call
  <2>4. SlotsTyped'
    BY <1>1, <2>1, <2>2, ClientLoopTyped
  <2>5. TypeOK'
    BY <1>1, <2>3, <2>4, TypedFromParts DEF TypeOK
  <2>6. /\ open' \subseteq mode.fds
        /\ \A b \in Fd : backend'[b].state = backend[b].state
        /\ \A b \in Fd : handler[b] # "local" => handler'[b] # "local"
    BY <1>1, <2>1, ClientLoopSpares
  <2>7. \A b \in Fd : Closing(b) <=> Closing(b)'
    BY <1>1, <2>3 DEF Closing, Call
  <2>8. CompletedQueued'
    BY <1>1, <2>6, <2>7 DEF CompletedQueued, Queued
  <2>9. QED
    BY <1>1, <1>2, <2>5, <2>6, <2>8
<1>4. CASE CallClose
  <2>1. /\ backend' = [backend EXCEPT ![call.backend] = FreshBackend]
        /\ open' = open \ {call.backend}
        /\ idle' = [idle EXCEPT ![call.backend] = 0]
        /\ call' = NoCall
        /\ UNCHANGED <<alarm, handler, client>>
    BY <1>4 DEF CallClose
  <2>2. FreshBackend \in BackendSlot /\ FreshBackend.state # "completed"
    BY DEF FreshBackend, BackendSlot
  <2>3. SlotsTyped'
    BY <1>1, <2>1, <2>2, ModeKnown DEF TypeOK, SlotsTyped, Handlers
  <2>4. TypeOK'
    BY <1>1, <2>1, <2>3, TypedFromParts DEF TypeOK
  <2>5. \A b \in Fd : Closing(b) => b = call.backend
    BY DEF Closing
  <2>6. CompletedQueued'
    BY <1>1, <2>1, <2>2, <2>5 DEF CompletedQueued, Queued, TypeOK
  <2>7. QED
    BY <1>1, <1>2, <2>1, <2>4, <2>6
<1>5. QED
  BY <1>3, <1>4

(***************************************************************************)
(* The alarm's sweep: what it adds to the list is not in it twice, and so  *)
(* the list grows by the size of the table at most.                        *)
(***************************************************************************)
LEMMA SweepKeepsQueue ==
    ASSUME QueueInv, Sweep, mode' = mode
    PROVE  QueueInv'
<1> USE DEF QueueInv
<1>1. /\ at = "alarm" /\ call = NoCall /\ call' = call /\ at' = "ready"
      /\ handler' = handler /\ batch' = batch /\ alarm' = FALSE
      /\ open' = open \ TimedOut
      /\ client' = [fd \in Fd |-> IF fd \in TimedOut /\ handler[fd] = "local"
                                  THEN FreshClient ELSE client[fd]]
      /\ backend' = [fd \in Fd |-> IF fd \in TimedOut /\ handler[fd] # "local"
                                   THEN FreshBackend
                                   ELSE IF fd \in Silent
                                   THEN [backend[fd] EXCEPT !.state = "completed"]
                                   ELSE backend[fd]]
      /\ idle' = [fd \in Fd |-> IF fd \in TimedOut THEN 0 ELSE idle[fd]]
  BY DEF Sweep, Turn
<1>2. PICK order \in Orders(Silent) : ready' = ready \o order
  BY DEF Sweep
<1>3. Silent \subseteq open /\ open \subseteq mode.fds /\ mode.fds \subseteq Fd
  BY ModeKnown DEF Silent, TypeOK
<1>4. /\ order \in Seq(Fd) /\ Len(order) = Cardinality(Silent) /\ In(order) = Silent
  BY <1>3, OrderHasAll
<1>5. SlotsTyped'
  <2>1. FreshClient \in ClientSlot
    BY DEF FreshClient, ClientSlot
  <2>2. FreshBackend \in BackendSlot
    BY DEF FreshBackend, BackendSlot
  <2>3. \A s \in BackendSlot : [s EXCEPT !.state = "completed"] \in BackendSlot
    BY DEF BackendSlot
  <2>4. client' \in [Fd -> ClientSlot]
    BY <1>1, <2>1 DEF TypeOK
  <2>5. backend' \in [Fd -> BackendSlot]
    BY <1>1, <2>2, <2>3 DEF TypeOK
  <2>6. idle' \in [Fd -> 0 .. Oldest]
    <3>1. 0 \in 0 .. Oldest /\ idle \in [Fd -> 0 .. Oldest]
      BY ModeKnown DEF TypeOK
    <3>2. QED
      BY <1>1, <3>1
  <2>7. open' \subseteq Fd /\ handler' \in [Fd -> Handlers']
    BY <1>1 DEF TypeOK, Handlers
  <2>8. QED
    BY <1>1, <2>4, <2>5, <2>6, <2>7 DEF SlotsTyped
<1>6. /\ ready' \in Seq(Fd) /\ Len(ready') = Len(ready) + Len(order)
      /\ In(ready') = In(ready) \cup In(order)
      /\ Len(ready) \in Nat
  BY <1>2, <1>4, WithAnother DEF TypeOK
<1>7. TypeOK'
  BY <1>1, <1>5, <1>6, TypedFromParts DEF TypeOK
<1>8. ReadyListFits'
  <2>1. Len(ready) <= Cardinality(mode.fds) /\ Cardinality(mode.fds) \in Nat
    BY <1>1, OnceIsShort, ModeKnown DEF QueuedOnce, Queued, TypeOK
  <2>2. Cardinality(Silent) <= Cardinality(mode.fds) /\ Cardinality(Silent) \in Nat
    BY <1>3, FS_Subset, FS_CardinalityType, ModeKnown DEF TypeOK
  <2>3. QED
    BY <1>4, <1>6, <2>1, <2>2 DEF ReadyListFits
<1>9. CompletedQueued'
  <2>1. ASSUME NEW b \in Fd, backend'[b].state = "completed" PROVE b \in Silent
    <3>1. backend[b].state # "completed"
      BY <1>1 DEF CompletedQueued, Closing, NoCall
    <3>2. FreshBackend.state # "completed"
      BY DEF FreshBackend
    <3>3. QED
      BY <1>1, <2>1, <3>1, <3>2
  <2>2. \A b \in Silent : handler[b] # "local" /\ b \in Queued'
    BY <1>4, <1>6 DEF Silent, Queued
  <2>3. QED
    BY <1>1, <2>1, <2>2 DEF CompletedQueued
<1>10. QED
  BY <1>1, <1>3, <1>7, <1>8, <1>9

(***************************************************************************)
(* The first of the list is served, or left.                               *)
(***************************************************************************)
LEMMA TakeReadyKeepsQueue ==
    ASSUME QueueInv, TakeReady, mode' = mode
    PROVE  QueueInv'
<1> USE DEF QueueInv
<1> DEFINE fd == Head(ready)
<1>1. /\ at = "ready" /\ at' = at /\ batch' = batch /\ call = NoCall
      /\ ready # <<>> /\ ready' = Tail(ready)
  BY DEF TakeReady, Turn
<1>2. /\ fd \in Fd /\ ready' \in Seq(Fd) /\ Queued = Queued' \cup {fd}
  BY <1>1, WithoutHead DEF TypeOK, Queued
<1>3. ReadyListFits'
  BY <1>1, ShorterFits
<1> HIDE DEF fd
<1>4. CASE handler[fd] = "local"
  <2>1. call' = call /\ ClientLoop(fd, [client[fd] EXCEPT !.flag = FALSE])
    BY <1>4 DEF TakeReady, fd
  <2>2. [client[fd] EXCEPT !.flag = FALSE] \in ClientSlot
    <3>1. client[fd] \in ClientSlot
      BY <1>2 DEF TypeOK
    <3>2. \A m \in ClientSlot : [m EXCEPT !.flag = FALSE] \in ClientSlot
      BY DEF ClientSlot
    <3>3. QED
      BY <3>1, <3>2
  <2>3. TypeOK'
    <3>1. SlotsTyped'
      BY <1>2, <2>1, <2>2, ClientLoopTyped
    <3>2. QED
      BY <1>1, <1>2, <2>1, <3>1, TypedFromParts DEF TypeOK
  <2>4. /\ open' \subseteq mode.fds
        /\ \A b \in Fd : backend'[b].state = backend[b].state
        /\ \A b \in Fd : handler[b] # "local" => handler'[b] # "local"
    BY <1>2, <2>1, ClientLoopSpares
  <2>5. CompletedQueued'
    BY <1>1, <1>2, <1>4, <2>1, <2>4 DEF CompletedQueued, Closing
  <2>6. QED
    BY <1>1, <1>3, <2>3, <2>4, <2>5
<1>5. CASE handler[fd] # "local"
  <2>1. BackendLoop(fd)
    BY <1>5 DEF TakeReady, fd
  <2>2. /\ SlotsTyped' /\ UNCHANGED <<open, handler, alarm>>
        /\ backend[fd].peer \in Fd
        /\ GoesOn(fd) \/ Ends(fd)
    BY <1>2, <2>1, BackendLoopDoes
  <2>3. CASE GoesOn(fd)
    <3>1. TypeOK'
      BY <1>1, <1>2, <2>2, <2>3, TypedFromParts DEF TypeOK, GoesOn
    <3>2. CompletedQueued'
      BY <1>1, <1>2, <2>2, <2>3 DEF CompletedQueued, Closing, GoesOn
    <3>3. QED
      BY <1>1, <1>3, <2>2, <3>1, <3>2
  <2>4. CASE Ends(fd)
    <3>1. call' \in Call /\ call'.step # "none" /\ call'.backend = fd
      BY <1>2, <2>2, <2>4 DEF Ends, Call
    <3>2. TypeOK'
      BY <1>1, <1>2, <2>2, <3>1, TypedFromParts DEF TypeOK
    <3>3. CompletedQueued'
      BY <1>1, <1>2, <2>2, <2>4, <3>1 DEF CompletedQueued, Closing, Ends, NoCall
    <3>4. QED
      BY <1>1, <1>3, <2>2, <3>2, <3>3
  <2>5. QED
    BY <2>2, <2>3, <2>4
<1>6. QED
  BY <1>4, <1>5

(***************************************************************************)
(* epoll_wait reports a descriptor once, and one that is watched.          *)
(***************************************************************************)
LEMMA WaitKeepsQueue ==
    ASSUME QueueInv, Wait, mode' = mode
    PROVE  QueueInv'
<1> USE DEF QueueInv
<1>1. /\ at = "wait" /\ at' = "events" /\ call = NoCall /\ ready = <<>>
      /\ UNCHANGED <<alarm, open, handler, client, backend, idle, ready, call>>
  BY DEF Wait, Turn
<1>2. /\ batch' \subseteq Event
      /\ \A d, e \in batch' : d[1] = e[1] => d = e
  BY DEF Wait, CanHappen
<1>3. Queued' = {} /\ Once(ready)'
  BY <1>1 DEF Queued, In, Once
<1>4. TypeOK'
  BY <1>1, <1>2 DEF TypeOK
<1>5. CompletedQueued'
  BY <1>1 DEF CompletedQueued, Closing, NoCall
<1>6. QED
  BY <1>1, <1>2, <1>3, <1>4, <1>5 DEF QueuedOnce, BatchOnce, ReadyListFits

(***************************************************************************)
(* An event of a descriptor adds it to the list once, as the next event    *)
(* that can add it comes with the next batch.                              *)
(***************************************************************************)
LEMMA EventKeepsQueue ==
    ASSUME QueueInv, at = "events", at' = at, mode' = mode,
           NEW e \in batch, batch' = batch \ {e},
           ready' = ready \/ (e[1] \in open /\ e[1] \in Fd /\ ready' = Append(ready, e[1]))
    PROVE  ready' \in Seq(Fd) /\ QueuedOnce' /\ BatchOnce' /\ ReadyListFits'
<1> USE DEF QueueInv
<1>1. QueuedOnce /\ BatchOnce /\ ready \in Seq(Fd)
  BY DEF TypeOK
<1>2. \A d \in batch' : d[1] # e[1]
  BY <1>1 DEF BatchOnce
<1>3. ready' \in Seq(Fd) /\ QueuedOnce' /\ BatchOnce'
  <2>1. CASE ready' = ready
    BY <1>1, <2>1 DEF QueuedOnce, BatchOnce, Queued
  <2>2. CASE e[1] \in open /\ e[1] \in Fd /\ ready' = Append(ready, e[1])
    <3>1. e[1] \notin Queued /\ e[1] \in mode.fds
      BY <1>1, <2>2 DEF BatchOnce
    <3>2. ready' \in Seq(Fd) /\ Queued' = Queued \cup {e[1]} /\ Once(ready)'
      BY <1>1, <2>2, <3>1, WithOneMore DEF QueuedOnce, Queued
    <3>3. QED
      BY <1>1, <1>2, <3>1, <3>2 DEF QueuedOnce, BatchOnce
  <2>3. QED
    BY <2>1, <2>2
<1>4. ReadyListFits'
  <2>1. IsFiniteSet(mode.fds) /\ Cardinality(mode.fds) \in Nat
    BY ModeKnown DEF TypeOK
  <2>2. Len(ready') <= Cardinality(mode.fds) /\ Len(ready') \in Nat
    BY <1>3, <2>1, OnceIsShort DEF QueuedOnce, Queued
  <2>3. QED
    BY <2>1, <2>2 DEF ReadyListFits
<1>5. QED
  BY <1>3, <1>4

\* on_event, for the event of a client, of a backend, or an error.
LEMMA EventsKeepQueue ==
    ASSUME QueueInv, mode' = mode, NEW fd \in Fd,
           ClientEvent(fd) \/ BackendEvent(fd) \/ ErrorEvent(fd) \/ SkipEvent(fd)
    PROVE  QueueInv'
<1> USE DEF QueueInv
<1>1. /\ at = "events" /\ at' = at /\ call = NoCall
      /\ \A b \in Fd : ~Closing(b) /\ backend[b].state # "completed"
  BY DEF ClientEvent, BackendEvent, ErrorEvent, SkipEvent, Turn, CompletedQueued, Closing, NoCall
<1>2. CASE ClientEvent(fd)
  <2>1. /\ <<fd, "io">> \in batch /\ batch' = batch \ {<<fd, "io">>} /\ fd \in open
        /\ ClientLoop(fd, client[fd]) /\ call' = call
        /\ ready' = ready \/ ready' = Append(ready, fd)
    BY <1>2 DEF ClientEvent, IsClient, Queue
  <2>2. ready' \in Seq(Fd) /\ QueuedOnce' /\ BatchOnce' /\ ReadyListFits'
    BY <1>1, <2>1, EventKeepsQueue
  <2>3. client[fd] \in ClientSlot
    BY DEF TypeOK
  <2>4. SlotsTyped'
    BY <2>1, <2>3, ClientLoopTyped
  <2>5. TypeOK'
    BY <1>1, <2>1, <2>2, <2>4, TypedFromParts DEF TypeOK
  <2>6. /\ open' \subseteq mode.fds
        /\ \A b \in Fd : backend'[b].state = backend[b].state
    BY <2>1, ClientLoopSpares
  <2>7. QED
    BY <1>1, <2>2, <2>5, <2>6 DEF CompletedQueued
<1>3. CASE BackendEvent(fd)
  <2>1. /\ <<fd, "io">> \in batch /\ batch' = batch \ {<<fd, "io">>} /\ fd \in open
        /\ BackendLoop(fd) /\ handler[fd] # "local"
        /\ ready' = ready \/ ready' = Append(ready, fd)
    BY <1>3 DEF BackendEvent, IsBackend, Queue
  <2>2. ready' \in Seq(Fd) /\ QueuedOnce' /\ BatchOnce' /\ ReadyListFits'
    BY <1>1, <2>1, EventKeepsQueue
  <2>3. /\ SlotsTyped' /\ UNCHANGED <<open, handler, alarm>>
        /\ backend[fd].peer \in Fd
        /\ GoesOn(fd) \/ Ends(fd)
    BY <2>1, BackendLoopDoes
  <2>4. call' \in Call \cup {NoCall}
    BY <1>1, <2>3 DEF GoesOn, Ends, Call
  <2>5. TypeOK'
    BY <1>1, <2>1, <2>2, <2>3, <2>4, TypedFromParts DEF TypeOK
  <2>6. CompletedQueued'
    BY <1>1, <2>3 DEF CompletedQueued, GoesOn, Ends
  <2>7. QED
    BY <1>1, <2>2, <2>3, <2>5, <2>6
<1>4. CASE ErrorEvent(fd)
  <2>1. /\ <<fd, "error">> \in batch /\ batch' = batch \ {<<fd, "error">>}
        /\ client' = [client EXCEPT ![fd] = FreshClient]
        /\ open' = open \ {fd}
        /\ idle' = [idle EXCEPT ![fd] = 0]
        /\ UNCHANGED <<alarm, handler, backend, ready, call>>
    BY <1>4 DEF ErrorEvent
  <2>2. ready' \in Seq(Fd) /\ QueuedOnce' /\ BatchOnce' /\ ReadyListFits'
    BY <1>1, <2>1, EventKeepsQueue
  <2>3. FreshClient \in ClientSlot
    BY DEF FreshClient, ClientSlot
  <2>4. SlotsTyped'
    BY <2>1, <2>3, ModeKnown DEF TypeOK, SlotsTyped, Handlers
  <2>5. TypeOK'
    BY <1>1, <2>1, <2>2, <2>4, TypedFromParts DEF TypeOK
  <2>6. QED
    BY <1>1, <2>1, <2>2, <2>5 DEF CompletedQueued
<1>5. CASE SkipEvent(fd)
  <2>1. PICK e \in batch : batch' = batch \ {e}
    BY <1>5 DEF SkipEvent
  <2>2. UNCHANGED <<alarm, open, handler, client, backend, idle, ready, call>>
    BY <1>5 DEF SkipEvent
  <2>3. ready' \in Seq(Fd) /\ QueuedOnce' /\ BatchOnce' /\ ReadyListFits'
    BY <1>1, <2>1, <2>2, EventKeepsQueue
  <2>4. TypeOK'
    BY <1>1, <2>1, <2>2, <2>3 DEF TypeOK
  <2>5. QED
    BY <1>1, <2>2, <2>3, <2>4 DEF CompletedQueued
<1>6. QED
  BY <1>2, <1>3, <1>4, <1>5

\* on_event for the listener: every connection it accepts is put into a slot of
\* its own.
LEMMA AcceptKeepsQueue ==
    ASSUME QueueInv, Accept, mode' = mode
    PROVE  QueueInv'
<1> USE DEF QueueInv
<1>1. /\ at = "events" /\ at' = at /\ call = NoCall
      /\ <<Listener, "io">> \in batch /\ batch' = batch \ {<<Listener, "io">>}
      /\ UNCHANGED <<alarm, client, backend, ready, call>>
  BY DEF Accept, Turn
<1>2. \A b \in Fd : backend[b].state # "completed"
  BY <1>1 DEF CompletedQueued, Closing, NoCall
<1>3. ready' \in Seq(Fd) /\ QueuedOnce' /\ BatchOnce' /\ ReadyListFits'
  BY <1>1, EventKeepsQueue
<1>4. SlotsTyped' /\ open' \subseteq mode.fds
  <2>1. CASE UNCHANGED <<open, handler, idle>>
    BY <1>1, <2>1 DEF TypeOK, SlotsTyped, Handlers
  <2>2. ASSUME NEW c \in mode.fds \ open,
               open' = open \cup {c}, handler' = [handler EXCEPT ![c] = "local"],
               idle' = [idle EXCEPT ![c] = 0]
        PROVE  SlotsTyped' /\ open' \subseteq mode.fds
    <3>1. c \in Fd /\ 0 \in 0 .. Oldest
      BY ModeKnown DEF TypeOK
    <3>2. open' \subseteq Fd /\ handler' \in [Fd -> Handlers'] /\ idle' \in [Fd -> 0 .. Oldest]
      BY <2>2, <3>1 DEF TypeOK, Handlers
    <3>3. QED
      BY <1>1, <2>2, <3>2 DEF TypeOK, SlotsTyped
  <2>3. QED
    BY <2>1, <2>2 DEF Accept
<1>5. TypeOK'
  BY <1>1, <1>3, <1>4, TypedFromParts DEF TypeOK
<1>6. QED
  BY <1>1, <1>2, <1>3, <1>4, <1>5 DEF CompletedQueued

(***************************************************************************)
(* The loop goes from one place to the next, or time passes.               *)
(***************************************************************************)
LEMMA TurnKeepsQueue ==
    ASSUME QueueInv, mode' = mode,
           NoSweep \/ ReadyDone \/ WaitInterrupted \/ EventsDone \/ Tick
    PROVE  QueueInv'
<1> USE DEF QueueInv
<1>1. /\ UNCHANGED <<open, handler, client, backend, ready, batch, call>>
      /\ alarm' \in BOOLEAN
      /\ \/ /\ idle' = idle /\ call = NoCall
            /\ \/ at = "alarm" /\ at' = "ready"
               \/ at = "ready" /\ at' = "wait" /\ ready = <<>>
               \/ at = "wait" /\ at' = "alarm"
               \/ at = "events" /\ at' = "alarm"
         \/ idle' = Aged /\ at' = at
  BY DEF NoSweep, ReadyDone, WaitInterrupted, EventsDone, Tick, Turn, TypeOK
<1>2. SlotsTyped'
  BY <1>1, AgedTyped DEF TypeOK, SlotsTyped, Handlers
<1>3. TypeOK'
  BY <1>1, <1>2, TypedFromParts DEF TypeOK
<1>4. CompletedQueued'
  BY <1>1 DEF CompletedQueued, Closing, NoCall, Queued, In
<1>5. QueuedOnce => QueuedOnce'
  BY <1>1 DEF QueuedOnce, Queued
<1>6. ready = <<>> => QueuedOnce
  BY DEF QueuedOnce, Queued, In, Once
<1>7. BatchOnce => BatchOnce'
  BY <1>1 DEF BatchOnce, Queued
<1>8. QED
  BY <1>1, <1>3, <1>4, <1>5, <1>6, <1>7 DEF ReadyListFits

\* Every step keeps the lists in order.
LEMMA StepKeepsQueue ==
    ASSUME QueueInv, [Next]_vars
    PROVE  QueueInv'
<1>1. CASE UNCHANGED vars
  BY <1>1 DEF vars, QueueInv, TypeOK, QueuedOnce, BatchOnce, ReadyListFits, CompletedQueued,
     Queued, Closing
<1>2. CASE Next
  BY <1>2, CallKeepsQueue, SweepKeepsQueue, TakeReadyKeepsQueue, WaitKeepsQueue,
     EventsKeepQueue, AcceptKeepsQueue, TurnKeepsQueue DEF Next, Runs
<1>3. QED
  BY <1>1, <1>2

\* The lists are empty to begin with.
LEMMA QueueBegins == Init => QueueInv
<1> SUFFICES ASSUME Init PROVE QueueInv
  OBVIOUS
<1>1. mode \in Modes /\ mode.fds \subseteq Fd /\ Cardinality(mode.fds) \in Nat
  BY ModeKnown DEF Init
<1>2. FreshClient \in ClientSlot /\ FreshBackend \in BackendSlot /\ 0 \in 0 .. Oldest
  BY <1>1, ModeKnown DEF FreshClient, FreshBackend, ClientSlot, BackendSlot
<1>3. TypeOK
  <2>1. /\ client \in [Fd -> ClientSlot] /\ backend \in [Fd -> BackendSlot]
        /\ idle \in [Fd -> 0 .. Oldest] /\ handler \in [Fd -> {"local", mode.handler}]
    BY <1>2 DEF Init
  <2>2. ready \in Seq(Fd) /\ alarm \in BOOLEAN /\ batch \subseteq Event /\ open \subseteq Fd
    <3>1. <<>> \in Seq(Fd)
      OBVIOUS
    <3>2. ready = <<>> /\ alarm = FALSE /\ batch = {} /\ open = {}
      BY DEF Init
    <3>3. QED
      BY <3>1, <3>2
  <2>3. at \in {"alarm", "ready", "wait", "events"} /\ call \in Call \cup {NoCall}
    BY DEF Init
  <2>4. QED
    BY <1>1, <2>1, <2>2, <2>3 DEF TypeOK
<1>4. \A b \in Fd : backend[b].state # "completed"
  BY DEF Init, FreshBackend
<1>5. QED
  BY <1>1, <1>3, <1>4 DEF Init, QueueInv, QueuedOnce, Queued, In, Once, ReadyListFits, CompletedQueued

----------------------------------------------------------------------------
(***************************************************************************)
(* Without faults the loop of a client leaves the other pairs alone, and a *)
(* backend that it starts is paired with it.                               *)
(***************************************************************************)
LEMMA PeerOfOne ==
    ASSUME PairInv, NEW b \in Fd, AtWork(b)
    PROVE  /\ backend[b].peer \in Fd /\ PairOf(b) /\ IsBackend(b) /\ b \in open
           /\ IsClient(backend[b].peer) /\ backend[b].peer \in open /\ backend[b].peer # b
           /\ \A d \in Fd : AtWork(d) /\ backend[d].peer = backend[b].peer => d = b
           /\ \A d \in Fd : IsClient(d) => d # b
  BY DEF PairInv, Clean, AtWork, PairOf, IsClient, IsBackend

PairsSpared ==
    /\ \A fd \in Fd : Clean(fd)'
    /\ \A b \in Fd : IsBackend(b) => IsBackend(b)'
    /\ \A b \in Fd : AtWork(b) => PairOf(b)'
    /\ \A b \in Fd : IsBackend(b)' /\ ~IsBackend(b) => b \notin open /\ PairOf(b)'

\* The loop of a client's connection, in which it may get a backend.
LEMMA ClientLoopKeepsPairs ==
    ASSUME PairInv, NEW c \in Fd, IsClient(c), ClientLoop(c, client[c]), mode' = mode
    PROVE  PairsSpared
<1> USE DEF PairInv
<1> DEFINE me == client[c]
<1>1. /\ client \in [Fd -> ClientSlot] /\ backend \in [Fd -> BackendSlot]
      /\ idle \in [Fd -> 0 .. Oldest] /\ handler \in [Fd -> Handlers]
      /\ me \in ClientSlot /\ ~me.flag /\ c \in open /\ ~IsBackend(c) /\ ~ReadEarlier(me)
      /\ handler[c] = "local" /\ 0 \in 0 .. Oldest
  BY ModeKnown DEF TypeOK, Handlers, Clean, IsClient, IsBackend, ReadEarlier
<1>2. \A b \in Fd : AtWork(b) =>
         /\ backend[b].peer \in Fd /\ backend[b].peer # b /\ b # c
         /\ me.state # "waiting" => backend[b].peer # c
  BY PeerOfOne DEF PairOf
<1> HIDE DEF me
<1>3. CASE ClientKeeps(c, client[c])
  <2>1. /\ UNCHANGED <<open, handler, backend>>
        /\ \/ client' = client
           \/ me.state = "answering" /\ client' = [client EXCEPT ![c] = FreshClient]
        /\ \/ idle' = idle
           \/ me.state # "waiting" /\ idle' = [idle EXCEPT ![c] = 0]
    BY <1>1, <1>3 DEF ClientKeeps, me
  <2>2. \A fd \in Fd : Clean(fd)'
    <3>1. ~FreshClient.flag
      BY DEF FreshClient
    <3>2. \A fd \in Fd : client'[fd] = client[fd] \/ (fd = c /\ client'[fd] = FreshClient)
      BY <1>1, <2>1
    <3>3. \A fd \in Fd : (IsClient(fd) <=> IsClient(fd)') /\ (IsBackend(fd) <=> IsBackend(fd)')
      BY <2>1 DEF IsClient, IsBackend
    <3>4. QED
      BY <2>1, <3>1, <3>2, <3>3 DEF Clean
  <2>3. \A b \in Fd : AtWork(b) => PairOf(b)'
    BY <1>1, <1>2, <2>1 DEF PairOf, IsClient
  <2>4. QED
    BY <2>1, <2>2, <2>3 DEF PairsSpared, IsBackend
<1>4. CASE ClientCloses(c, client[c])
  <2>1. /\ UNCHANGED <<handler, backend>> /\ open' = open \ {c}
        /\ client' = [client EXCEPT ![c] = FreshClient] /\ idle' = [idle EXCEPT ![c] = 0]
        /\ me.state # "waiting"
    BY <1>4 DEF ClientCloses, me
  <2>2. \A fd \in Fd : Clean(fd)'
    BY <1>1, <2>1 DEF Clean, IsClient, IsBackend, FreshClient
  <2>3. \A b \in Fd : AtWork(b) => PairOf(b)'
    BY <1>1, <1>2, <2>1 DEF PairOf, IsClient
  <2>4. QED
    BY <1>1, <2>1, <2>2, <2>3 DEF PairsSpared, IsBackend
<1>5. ASSUME NEW b0 \in mode.fds, ClientForwards(c, client[c], b0)
      PROVE  PairsSpared
  <2>1. b0 \in Fd /\ mode.handler # "local"
    BY ModeKnown DEF TypeOK
  <2>2. /\ b0 \notin open /\ b0 # c /\ me.state # "waiting"
        /\ client' = [client EXCEPT ![c] = [state |-> "waiting", peer |-> b0, flag |-> FALSE]]
        /\ backend' = [backend EXCEPT ![b0].peer = c]
        /\ handler' = [handler EXCEPT ![b0] = mode.handler]
        /\ open' = open \cup {b0}
        /\ idle' = [idle EXCEPT ![b0] = 0, ![c] = 0]
    BY <1>1, <1>5 DEF ClientForwards, me, ReadEarlier
  <2>3. /\ client[b0] = FreshClient /\ backend[b0] = FreshBackend
    BY <2>1, <2>2 DEF Clean, IsClient, IsBackend
  <2>4. /\ \A d \in Fd : d # b0 => backend'[d] = backend[d] /\ handler'[d] = handler[d]
        /\ backend'[b0].peer = c /\ handler'[b0] # "local"
        /\ \A d \in Fd : d # c => client'[d] = client[d]
        /\ client'[c] = [state |-> "waiting", peer |-> b0, flag |-> FALSE]
        /\ idle'[b0] = 0 /\ idle'[c] = 0
        /\ \A d \in Fd : d # b0 /\ d # c => idle'[d] = idle[d]
    <3>1. backend'[b0] = [FreshBackend EXCEPT !.peer = c]
      BY <1>1, <2>1, <2>2, <2>3
    <3>2. backend'[b0].peer = c
      BY <3>1 DEF FreshBackend
    <3>3. QED
      BY <1>1, <2>1, <2>2, <3>2
  <2>5. \A fd \in Fd : Clean(fd)'
    <3>1. ASSUME NEW fd \in Fd, fd # c, fd # b0 PROVE Clean(fd)'
      <4>1. /\ client'[fd] = client[fd] /\ backend'[fd] = backend[fd]
            /\ (IsClient(fd) <=> IsClient(fd)') /\ (IsBackend(fd) <=> IsBackend(fd)')
        BY <2>2, <2>4, <3>1 DEF IsClient, IsBackend
      <4>2. QED
        BY <4>1 DEF Clean
    <3>2. Clean(c)'
      <4>1. ~client'[c].flag /\ IsClient(c)' /\ backend'[c] = backend[c]
            /\ ~IsBackend(c)' /\ ~IsBackend(c)
        BY <1>1, <2>2, <2>4 DEF IsClient, IsBackend
      <4>2. QED
        BY <4>1 DEF Clean
    <3>3. Clean(b0)'
      <4>1. client'[b0] = FreshClient /\ backend'[b0].peer = c /\ IsBackend(b0)'
        BY <2>1, <2>2, <2>3, <2>4 DEF IsBackend
      <4>2. ~FreshClient.flag
        BY DEF FreshClient
      <4>3. QED
        BY <4>1, <4>2 DEF Clean
    <3>4. QED
      BY <3>1, <3>2, <3>3
  <2>6. \A b \in Fd : AtWork(b) => b # b0 /\ backend[b].peer # b0
    BY <2>2, PeerOfOne
  <2>7. \A b \in Fd : AtWork(b) => PairOf(b)'
    BY <1>1, <1>2, <2>2, <2>4, <2>6 DEF PairOf, IsClient
  <2>8. PairOf(b0)'
    BY <1>1, <2>2, <2>4 DEF PairOf, IsClient
  <2>9. \A b \in Fd : IsBackend(b) => IsBackend(b)'
    BY <2>2, <2>4 DEF IsBackend
  <2>10. \A b \in Fd : IsBackend(b)' /\ ~IsBackend(b) => b = b0
    BY <2>2, <2>4 DEF IsBackend
  <2>11. QED
    BY <2>2, <2>5, <2>7, <2>8, <2>9, <2>10 DEF PairsSpared
<1>6. CASE ClientFindsNoBackend(c, client[c])
  <2>1. /\ UNCHANGED <<open, handler, backend>> /\ me.state # "waiting"
        /\ client' = [client EXCEPT ![c] = [state |-> "waiting", peer |-> None, flag |-> FALSE]]
        /\ idle' = [idle EXCEPT ![c] = 0]
    BY <1>1, <1>6 DEF ClientFindsNoBackend, me, ReadEarlier
  <2>2. \A fd \in Fd : Clean(fd)'
    BY <1>1, <2>1 DEF Clean, IsClient, IsBackend
  <2>3. \A b \in Fd : AtWork(b) => PairOf(b)'
    BY <1>1, <1>2, <2>1 DEF PairOf, IsClient
  <2>4. QED
    BY <1>1, <2>1, <2>2, <2>3 DEF PairsSpared, IsBackend
<1>7. QED
  BY <1>3, <1>4, <1>5, <1>6 DEF ClientLoop

(***************************************************************************)
(* The loop of a backend that is not being closed leaves the other pairs   *)
(* alone.  When it ends, its client is open and has an answer, or its      *)
(* loop is not run.                                                        *)
(***************************************************************************)
LEMMA BackendLoopKeepsPairs ==
    ASSUME PairInv, NEW b \in Fd, AtWork(b), BackendLoop(b), call = NoCall, mode' = mode
    PROVE  /\ UNCHANGED <<open, handler>>
           /\ \A fd \in Fd : Clean(fd)'
           /\ \A d \in Fd : AtWork(d)' => PairOf(d)'
           /\ \A d \in Fd : Closing(d)' => d = b
           /\ CallInPlace'
<1> USE DEF PairInv
<1> DEFINE c == backend[b].peer
<1>1. /\ UNCHANGED <<open, handler>> /\ Refreshes(c, b)
      /\ GoesOn(b) \/ Ends(b)
  BY BackendLoopDoes
<1>2. /\ c \in Fd /\ IsClient(c) /\ c # b /\ PairOf(b) /\ IsBackend(b)
      /\ client[c].state = "waiting" /\ client[c].peer = b /\ idle[c] <= idle[b]
  BY PeerOfOne DEF PairOf
<1>3. \A d \in Fd : (IsClient(d)' <=> IsClient(d)) /\ (IsBackend(d)' <=> IsBackend(d))
  BY <1>1 DEF IsClient, IsBackend
<1>4. \A d \in Fd : AtWork(d) /\ d # b =>
         /\ PairOf(d) /\ backend[d].peer \in Fd
         /\ backend[d].peer # c /\ backend[d].peer # b /\ d # c
  BY <1>2, PeerOfOne
<1> HIDE DEF c
<1>5. /\ idle'[c] <= idle'[b]
      /\ \A d \in Fd : d # c /\ d # b => idle'[d] = idle[d]
  <2>1. PICK fresh \in {{}, {c}, {c, b}} :
           idle' = [d \in Fd |-> IF d \in fresh THEN 0 ELSE idle[d]]
    <3>1. (IF IsClient(c) THEN {c} ELSE {}) = {c} /\ {c} \cup {b} = {c, b}
      BY <1>2
    <3>2. QED
      BY <1>1, <3>1 DEF Refreshes
  <2>2. idle[b] \in 0 .. Oldest /\ idle[c] \in 0 .. Oldest /\ Oldest \in Nat
    BY <1>2, ModeKnown DEF TypeOK
  <2>3. QED
    BY <1>2, <2>1, <2>2
<1>6. CASE GoesOn(b)
  <2>1. /\ UNCHANGED <<client, call>>
        /\ \A d \in Fd : backend'[d].peer = backend[d].peer
        /\ \A d \in Fd : d # b => backend'[d] = backend[d]
    BY <1>6 DEF GoesOn
  <2>2. \A fd \in Fd : Clean(fd)'
    BY <1>2, <1>3, <2>1 DEF Clean
  <2>3. \A d \in Fd : ~Closing(d)'
    BY <2>1 DEF Closing, NoCall
  <2>4. ASSUME NEW d \in Fd, AtWork(d)' PROVE PairOf(d)'
    <3>1. AtWork(d)
      BY <1>3, <2>3, <2>4 DEF AtWork, Closing, NoCall
    <3>2. CASE d = b
      BY <1>2, <1>3, <1>5, <2>1, <3>2 DEF PairOf, c
    <3>3. CASE d # b
      BY <1>3, <1>4, <1>5, <2>1, <3>1, <3>3 DEF PairOf
    <3>4. QED
      BY <3>2, <3>3
  <2>5. QED
    BY <1>1, <2>1, <2>2, <2>3, <2>4 DEF CallInPlace, NoCall
<1>7. CASE Ends(b)
  <2>1. PICK m \in ClientSlot : client' = [client EXCEPT ![c] = m] /\ ~m.flag
    BY <1>7 DEF Ends, c
  <2>2. PICK step \in {"client", "close"} : call' = [step |-> step, backend |-> b, client |-> c]
    BY <1>7 DEF Ends, c
  <2>3. /\ backend' = backend
        /\ call'.step = step /\ call'.backend = b /\ call'.client = c
        /\ client'[c] = m /\ \A d \in Fd : d # c => client'[d] = client[d]
    BY <1>2, <1>7, <2>1, <2>2 DEF Ends, TypeOK
  <2>4. step = "client" => m.state = "answering"
    <3>1. CASE BackendAnswers(b)
      BY <2>3, <3>1, <1>2 DEF BackendAnswers, TypeOK, c
    <3>2. CASE BackendGivesUp(b)
      <4>1. ~client[c].flag
        BY <1>2 DEF Clean
      <4>2. call'.step = "close"
        BY <3>2, <4>1 DEF BackendGivesUp, c
      <4>3. QED
        BY <2>3, <4>2
    <3>3. QED
      BY <1>7, <3>1, <3>2 DEF Ends
  <2>5. \A fd \in Fd : Clean(fd)'
    BY <1>2, <1>3, <2>1, <2>3 DEF Clean
  <2>6. \A d \in Fd : Closing(d)' <=> d = b
    BY <2>3 DEF Closing
  <2>7. ASSUME NEW d \in Fd, AtWork(d)' PROVE PairOf(d)'
    <3>1. d # b /\ AtWork(d)
      BY <1>3, <2>6, <2>7 DEF AtWork, Closing, NoCall
    <3>2. QED
      BY <1>3, <1>4, <1>5, <2>3, <3>1 DEF PairOf
  <2>8. CallInPlace'
    BY <1>2, <1>3, <2>3, <2>4 DEF CallInPlace
  <2>9. QED
    BY <1>1, <2>5, <2>6, <2>7, <2>8
<1>8. QED
  BY <1>1, <1>6, <1>7

----------------------------------------------------------------------------
\* What on_event and process_ready_list do after the loop of a backend: they
\* run the loop of its client, or close the two.
LEMMA CallKeepsPairs ==
    ASSUME PairInv, TypeOK', CallClient \/ CallClose, mode' = mode
    PROVE  PairInv'
<1> USE DEF PairInv
<1>1. /\ call \in Call /\ call.backend \in Fd /\ call.client \in Fd /\ IsBackend(call.backend)
      /\ UNCHANGED <<at, ready, batch>>
  BY CallKinds DEF CallClient, CallClose, TypeOK, CallInPlace
<1>2. \A b \in Fd : Closing(b) <=> b = call.backend
  BY <1>1, CallKinds DEF Closing
<1>3. CASE CallClient
  <2>1. /\ ClientLoop(call.client, client[call.client])
        /\ call' = [call EXCEPT !.step = "close"] /\ IsClient(call.client)
    BY <1>3 DEF CallClient, CallInPlace
  <2>2. PairsSpared
    BY <1>1, <2>1, ClientLoopKeepsPairs
  <2>3. call'.step = "close" /\ call'.backend = call.backend
    BY <1>1, <2>1 DEF Call
  <2>4. \A b \in Fd : Closing(b)' <=> b = call.backend
    BY <2>3 DEF Closing
  <2>5. \A b \in Fd : AtWork(b)' => PairOf(b)'
    BY <1>2, <2>2, <2>4 DEF AtWork, PairsSpared
  <2>6. CallInPlace'
    BY <1>1, <2>2, <2>3 DEF CallInPlace, PairsSpared
  <2>7. \A fd \in Queued : fd \in Fd
    BY DEF Queued, In, TypeOK
  <2>8. ServedAtOnce'
    BY <1>1, <1>2, <2>2, <2>4, <2>7 DEF ServedAtOnce, Queued, PairsSpared
  <2>9. QED
    BY <1>1, <2>2, <2>5, <2>6, <2>8 DEF PairsSpared
<1>4. CASE CallClose
  <2>0. PICK b \in Fd : b = call.backend
    BY <1>1
  <2>1. /\ backend' = [backend EXCEPT ![b] = FreshBackend]
        /\ open' = open \ {b} /\ idle' = [idle EXCEPT ![b] = 0]
        /\ call' = NoCall /\ UNCHANGED <<handler, client>>
    BY <1>4, <2>0 DEF CallClose
  <2>2. b \in Fd /\ IsBackend(b) /\ \A d \in Fd : Closing(d) <=> d = b
    BY <1>1, <1>2, <2>0
  <2>3. /\ backend'[b] = FreshBackend /\ \A d \in Fd : d # b => backend'[d] = backend[d]
        /\ \A d \in Fd : d # b => idle'[d] = idle[d]
        /\ \A d \in Fd : ~Closing(d)'
        /\ ~IsBackend(b)' /\ ~IsClient(b)' /\ ~IsClient(b)
        /\ \A d \in Fd : d # b => (IsClient(d)' <=> IsClient(d)) /\ (IsBackend(d)' <=> IsBackend(d))
    <3>1. /\ backend'[b] = FreshBackend /\ \A d \in Fd : d # b => backend'[d] = backend[d]
          /\ \A d \in Fd : d # b => idle'[d] = idle[d]
      BY <2>1, <2>2 DEF TypeOK
    <3>2. \A d \in Fd : ~Closing(d)'
      BY <2>1 DEF Closing, NoCall
    <3>3. b \notin open' /\ handler[b] # "local"
      BY <2>1, <2>2 DEF IsBackend
    <3>4. \A d \in Fd : d # b => (d \in open' <=> d \in open) /\ handler'[d] = handler[d]
      BY <2>1
    <3>5. QED
      BY <3>1, <3>2, <3>3, <3>4 DEF IsClient, IsBackend
  <2>4. \A fd \in Fd : Clean(fd)'
    BY <2>1, <2>2, <2>3 DEF Clean
  <2>5. ASSUME NEW d \in Fd, AtWork(d)' PROVE PairOf(d)'
    <3>1. AtWork(d) /\ d # b
      BY <2>2, <2>3, <2>5 DEF AtWork
    <3>2. backend[d].peer \in Fd /\ backend[d].peer # b /\ PairOf(d)
      BY <2>3, <3>1, PeerOfOne
    <3>3. QED
      BY <2>1, <2>3, <3>1, <3>2 DEF PairOf
  <2>6. ServedAtOnce' /\ CallInPlace'
    <3>1. \A fd \in Queued : fd \in Fd /\ fd # b
      BY <2>2 DEF Queued, In, TypeOK, ServedAtOnce
    <3>2. QED
      BY <1>1, <2>1, <2>3, <3>1 DEF ServedAtOnce, Queued, CallInPlace, NoCall
  <2>7. QED
    BY <1>1, <2>4, <2>5, <2>6
<1>5. QED
  BY <1>3, <1>4

(***************************************************************************)
(* The alarm cannot close a client and leave its backend: the backend has  *)
(* been idle for as long as the client, or longer.                         *)
(***************************************************************************)
LEMMA SweepKeepsPairs ==
    ASSUME PairInv, TypeOK', Sweep, mode' = mode
    PROVE  PairInv'
<1> USE DEF PairInv
<1>1. /\ at = "alarm" /\ call = NoCall /\ call' = call /\ at' = "ready"
      /\ handler' = handler /\ batch' = batch
      /\ open' = open \ TimedOut
      /\ client' = [fd \in Fd |-> IF fd \in TimedOut /\ handler[fd] = "local"
                                  THEN FreshClient ELSE client[fd]]
      /\ backend' = [fd \in Fd |-> IF fd \in TimedOut /\ handler[fd] # "local"
                                   THEN FreshBackend
                                   ELSE IF fd \in Silent
                                   THEN [backend[fd] EXCEPT !.state = "completed"]
                                   ELSE backend[fd]]
      /\ idle' = [fd \in Fd |-> IF fd \in TimedOut THEN 0 ELSE idle[fd]]
  BY DEF Sweep, Turn
<1>2. ready = <<>>
  BY <1>1 DEF ServedAtOnce
<1>3. PICK order \in Orders(Silent) : ready' = ready \o order
  BY DEF Sweep
<1>4. Silent \subseteq Fd /\ Silent \cap TimedOut = {} /\ \A b \in Silent : IsBackend(b)
  BY DEF Silent, TypeOK, IsBackend
<1>5. /\ order \in Seq(Fd) /\ Once(order) /\ In(order) = Silent
  BY <1>4, OrderHasAll
<1>6. ready' = order
  BY <1>2, <1>3, <1>5
<1>7. \A fd \in Fd : /\ fd \in TimedOut => ~IsClient(fd)' /\ ~IsBackend(fd)'
                     /\ fd \notin TimedOut => /\ IsClient(fd)' <=> IsClient(fd)
                                              /\ IsBackend(fd)' <=> IsBackend(fd)
  BY <1>1 DEF IsClient, IsBackend
<1>8. \A s \in BackendSlot : [s EXCEPT !.state = "completed"].peer = s.peer
  BY DEF BackendSlot
<1>9. \A fd \in Fd : /\ ~IsBackend(fd) => backend'[fd] = backend[fd]
                     /\ fd \notin TimedOut => backend'[fd].peer = backend[fd].peer
                     /\ fd \in TimedOut /\ IsBackend(fd) => backend'[fd] = FreshBackend
                     /\ ~IsClient(fd) => client'[fd] = client[fd]
                     /\ fd \notin TimedOut => client'[fd] = client[fd]
                     /\ fd \in TimedOut /\ IsClient(fd) => client'[fd] = FreshClient
  <2>1. \A fd \in TimedOut : fd \in open
    BY DEF TimedOut
  <2>2. \A fd \in Fd : fd \in TimedOut /\ handler[fd] = "local" <=> fd \in TimedOut /\ IsClient(fd)
    BY <2>1 DEF IsClient
  <2>3. \A fd \in Fd : fd \in TimedOut /\ handler[fd] # "local" <=> fd \in TimedOut /\ IsBackend(fd)
    BY <2>1 DEF IsBackend
  <2>4. \A fd \in Fd : fd \notin TimedOut => backend'[fd].peer = backend[fd].peer
    BY <1>1, <1>8 DEF TypeOK
  <2>5. QED
    BY <1>1, <1>4, <2>2, <2>3, <2>4
<1>10. \A fd \in Fd : Clean(fd)'
  <2>1. ~FreshClient.flag
    BY DEF FreshClient
  <2>2. \A fd \in Fd : ~(IsClient(fd) /\ IsBackend(fd))
    BY DEF IsClient, IsBackend
  <2>3. SUFFICES ASSUME NEW fd \in Fd PROVE Clean(fd)'
    OBVIOUS
  <2>4. CASE fd \in TimedOut
    BY <1>7, <1>9, <2>1, <2>2, <2>4 DEF Clean
  <2>5. CASE fd \notin TimedOut
    BY <1>7, <1>9, <2>5 DEF Clean
  <2>6. QED
    BY <2>4, <2>5
<1>11. ASSUME NEW b \in Fd, AtWork(b)' PROVE PairOf(b)'
  <2>1. b \notin TimedOut /\ IsBackend(b)
    BY <1>7, <1>11 DEF AtWork
  <2>2. AtWork(b)
    BY <1>1, <2>1 DEF AtWork, Closing, NoCall
  <2>3. PICK c \in Fd : /\ c = backend[b].peer /\ IsClient(c) /\ c \in open /\ b \in open
                        /\ client[c].state = "waiting" /\ client[c].peer = b /\ idle[c] <= idle[b]
    BY <2>2, PeerOfOne DEF PairOf
  <2>4. c \notin TimedOut
    <3>1. idle[b] \in Nat /\ idle[c] \in Nat /\ MaxIdle \in Nat
      BY ModeKnown, EventLoopAssumption DEF TypeOK
    <3>2. ~(idle[b] > MaxIdle)
      BY <2>1, <2>3 DEF TimedOut
    <3>3. ~(idle[c] > MaxIdle)
      BY <2>3, <3>1, <3>2
    <3>4. QED
      BY <3>3 DEF TimedOut
  <2>5. /\ backend'[b].peer = c /\ client'[c] = client[c] /\ IsClient(c)'
        /\ idle'[b] = idle[b] /\ idle'[c] = idle[c]
    BY <1>1, <1>7, <1>9, <2>1, <2>3, <2>4
  <2>6. QED
    BY <2>3, <2>5 DEF PairOf
<1>12. ServedAtOnce' /\ CallInPlace'
  <2>1. \A fd \in Silent : IsBackend(fd)'
    BY <1>4, <1>7
  <2>2. QED
    BY <1>1, <1>5, <1>6, <2>1 DEF ServedAtOnce, CallInPlace, Queued, Closing, NoCall
<1>13. QED
  BY <1>1, <1>10, <1>11, <1>12

\* process_ready_list takes the next descriptor.
LEMMA TakeReadyKeepsPairs ==
    ASSUME PairInv, TypeOK', TakeReady, mode' = mode
    PROVE  PairInv'
<1> USE DEF PairInv
<1>1. /\ at = "ready" /\ at' = at /\ batch' = batch /\ call = NoCall
      /\ ready # <<>> /\ ready' = Tail(ready)
  BY DEF TakeReady, Turn
<1>2. PICK fd \in Fd : fd = Head(ready)
  BY <1>1, WithoutHead DEF TypeOK
<1>3. /\ Queued = Queued' \cup {fd} /\ fd \notin Queued' /\ Once(ready)'
  BY <1>1, <1>2, WithoutHead DEF TypeOK, Queued, ServedAtOnce
<1>4. IsBackend(fd) /\ AtWork(fd)
  BY <1>3 DEF ServedAtOnce, AtWork
<1>5. BackendLoop(fd)
  BY <1>2, <1>4 DEF TakeReady, IsBackend
<1>6. /\ UNCHANGED <<open, handler>>
      /\ \A d \in Fd : Clean(d)'
      /\ \A d \in Fd : AtWork(d)' => PairOf(d)'
      /\ \A d \in Fd : Closing(d)' => d = fd
      /\ CallInPlace'
  BY <1>1, <1>4, <1>5, BackendLoopKeepsPairs
<1>7. ServedAtOnce'
  <2>1. \A d \in Queued' : d \in Fd
    BY DEF Queued, In, TypeOK
  <2>2. \A d \in Queued' : IsBackend(d)'
    BY <1>3, <1>6 DEF ServedAtOnce, IsBackend
  <2>3. QED
    BY <1>1, <1>3, <1>6, <2>1, <2>2 DEF ServedAtOnce
<1>8. QED
  BY <1>1, <1>6, <1>7

\* on_event, whatever the event.
LEMMA EventsKeepPairs ==
    ASSUME PairInv, TypeOK', mode' = mode, NEW fd \in Fd,
           ClientEvent(fd) \/ BackendEvent(fd) \/ ErrorEvent(fd) \/ SkipEvent(fd)
    PROVE  PairInv'
<1> USE DEF PairInv
<1>1. /\ at = "events" /\ at' = at /\ call = NoCall /\ ready = <<>> /\ Queued = {}
      /\ batch' \subseteq batch
      /\ \A b \in Fd : AtWork(b) <=> IsBackend(b)
  BY DEF ClientEvent, BackendEvent, ErrorEvent, SkipEvent, Turn, ServedAtOnce, AtWork, Closing,
     NoCall, Queued, In
<1>2. CASE ClientEvent(fd)
  <2>1. IsClient(fd) /\ ClientLoop(fd, client[fd]) /\ call' = call
    BY <1>2 DEF ClientEvent
  <2>2. PairsSpared
    BY <2>1, ClientLoopKeepsPairs
  <2>3. ready' = ready
    BY <1>2, <2>2 DEF ClientEvent, Queue, PairsSpared, Clean
  <2>4. \A b \in Fd : AtWork(b)' => PairOf(b)'
    BY <1>1, <2>2 DEF AtWork, PairsSpared
  <2>5. QED
    BY <1>1, <2>1, <2>2, <2>3, <2>4 DEF PairsSpared, CallInPlace, ServedAtOnce, Queued, NoCall
<1>3. CASE BackendEvent(fd)
  <2>1. AtWork(fd) /\ BackendLoop(fd)
    BY <1>1, <1>3 DEF BackendEvent
  <2>2. /\ \A d \in Fd : Clean(d)' /\ (AtWork(d)' => PairOf(d)')
        /\ CallInPlace'
    BY <1>1, <2>1, BackendLoopKeepsPairs
  <2>3. ready' = ready
    BY <1>3, <2>2 DEF BackendEvent, Queue, Clean
  <2>4. QED
    BY <1>1, <2>2, <2>3 DEF ServedAtOnce, Queued
<1>4. CASE ErrorEvent(fd)
  <2>1. <<fd, "error">> \in batch /\ <<fd, "error">>[2] = "error"
    BY <1>4 DEF ErrorEvent
  <2>2. QED
    BY <2>1
<1>5. CASE SkipEvent(fd)
  <2>1. UNCHANGED <<open, handler, client, backend, idle, ready, call>>
    BY <1>5 DEF SkipEvent
  <2>2. QED
    BY <1>1, <2>1 DEF Clean, AtWork, PairOf, IsClient, IsBackend, Closing, CallInPlace, ServedAtOnce, Queued
<1>6. QED
  BY <1>2, <1>3, <1>4, <1>5

(***************************************************************************)
(* A connection that is accepted finds its slots as they were reset.       *)
(***************************************************************************)
LEMMA AcceptKeepsPairs ==
    ASSUME PairInv, TypeOK', Accept, mode' = mode
    PROVE  PairInv'
<1> USE DEF PairInv
<1>1. /\ at' = at /\ call = NoCall /\ call' = call /\ batch' \subseteq batch
      /\ UNCHANGED <<client, backend, ready>> /\ at = "events" /\ ready = <<>> /\ Queued = {}
  BY DEF Accept, Turn, ServedAtOnce, Queued, In
<1>2. \A b \in Fd : ~Closing(b) /\ ~Closing(b)'
  BY <1>1 DEF Closing, NoCall
<1>3. \A fd \in Fd : Clean(fd)' /\ (AtWork(fd)' => PairOf(fd)')
  <2>1. CASE UNCHANGED <<open, handler, idle>>
    BY <1>1, <2>1 DEF Clean, AtWork, PairOf, IsClient, IsBackend, Closing
  <2>2. ASSUME NEW c \in mode.fds \ open,
               open' = open \cup {c}, handler' = [handler EXCEPT ![c] = "local"],
               idle' = [idle EXCEPT ![c] = 0]
        PROVE  \A fd \in Fd : Clean(fd)' /\ (AtWork(fd)' => PairOf(fd)')
    <3>1. c \in Fd /\ ~IsClient(c) /\ ~IsBackend(c)
      BY ModeKnown DEF TypeOK, IsClient, IsBackend
    <3>2. /\ IsClient(c)' /\ ~IsBackend(c)'
          /\ \A d \in Fd : d # c => /\ (IsClient(d)' <=> IsClient(d)) /\ (IsBackend(d)' <=> IsBackend(d))
                                    /\ idle'[d] = idle[d]
      BY <2>2, <3>1 DEF TypeOK, IsClient, IsBackend
    <3>3. \A fd \in Fd : Clean(fd)'
      BY <1>1, <3>1, <3>2 DEF Clean
    <3>4. ASSUME NEW b \in Fd, AtWork(b)' PROVE PairOf(b)'
      <4>1. AtWork(b) /\ b # c
        BY <1>2, <3>2, <3>4 DEF AtWork
      <4>2. backend[b].peer \in Fd /\ backend[b].peer # c /\ PairOf(b)
        BY <3>1, <4>1, PeerOfOne
      <4>3. QED
        BY <1>1, <3>2, <4>1, <4>2 DEF PairOf
    <3>5. QED
      BY <3>3, <3>4
  <2>3. QED
    BY <2>1, <2>2 DEF Accept
<1>4. QED
  BY <1>1, <1>3 DEF CallInPlace, ServedAtOnce, Queued, NoCall

\* The steps of the loop of the server that run no connection.
LEMMA TurnKeepsPairs ==
    ASSUME PairInv, TypeOK', mode' = mode,
           NoSweep \/ ReadyDone \/ Wait \/ WaitInterrupted \/ EventsDone \/ Tick
    PROVE  PairInv'
<1> USE DEF PairInv
<1>1. /\ UNCHANGED <<open, handler, client, backend, ready, call>>
      /\ at' = at \/ ready = <<>>
      /\ idle' = idle \/ idle' = Aged
  BY DEF NoSweep, ReadyDone, Wait, WaitInterrupted, EventsDone, Tick, Turn, ServedAtOnce
<1>2. \A e \in batch' : e[2] # "error"
  BY DEF NoSweep, ReadyDone, Wait, WaitInterrupted, EventsDone, Tick, CanHappen
<1>3. \A fd \in Fd : (IsClient(fd)' <=> IsClient(fd)) /\ (IsBackend(fd)' <=> IsBackend(fd))
  BY <1>1 DEF IsClient, IsBackend
<1>4. \A fd \in Fd : (Closing(fd)' <=> Closing(fd)) /\ (AtWork(fd)' <=> AtWork(fd))
  BY <1>1, <1>3 DEF Closing, AtWork
<1>5. \A c, b \in open : idle[c] <= idle[b] => idle'[c] <= idle'[b]
  BY <1>1, AgedTyped
<1>6. ASSUME NEW b \in Fd, AtWork(b)' PROVE PairOf(b)'
  <2>1. PairOf(b) /\ backend[b].peer \in Fd /\ backend[b].peer \in open /\ b \in open
    BY <1>4, <1>6, PeerOfOne
  <2>2. QED
    BY <1>1, <1>3, <1>5, <2>1 DEF PairOf
<1>7. \A fd \in Fd : Clean(fd)'
  BY <1>1, <1>3 DEF Clean
<1>8. ServedAtOnce' /\ CallInPlace'
  <2>1. Queued' = Queued /\ \A fd \in Queued : fd \in Fd
    BY <1>1 DEF Queued, In, TypeOK
  <2>2. ServedAtOnce'
    BY <1>1, <1>3, <1>4, <2>1 DEF ServedAtOnce
  <2>3. CallInPlace'
    BY <1>1 DEF CallInPlace, IsClient, IsBackend
  <2>4. QED
    BY <2>2, <2>3
<1>9. QED
  BY <1>2, <1>6, <1>7, <1>8

----------------------------------------------------------------------------
\* Every step keeps the pairs together, when no system call fails.
LEMMA StepKeepsPairs ==
    ASSUME PairInv, TypeOK', [Next]_vars
    PROVE  PairInv'
<1>1. CASE UNCHANGED vars
  BY <1>1 DEF vars, PairInv, Clean, AtWork, PairOf, IsClient, IsBackend, Closing, CallInPlace,
     ServedAtOnce, Queued
<1>2. CASE Next
  BY <1>2, CallKeepsPairs, SweepKeepsPairs, TakeReadyKeepsPairs, EventsKeepPairs,
     AcceptKeepsPairs, TurnKeepsPairs DEF Next, Runs
<1>3. QED
  BY <1>1, <1>2

\* There is no backend to begin with.
LEMMA PairsBegin == Init /\ mode.faults = {} => PairInv
<1> SUFFICES ASSUME Init, mode.faults = {} PROVE PairInv
  OBVIOUS
<1>1. TypeOK
  BY QueueBegins DEF QueueInv
<1>2. \A fd \in Fd : client[fd] = FreshClient /\ backend[fd] = FreshBackend /\ fd \notin open
  BY DEF Init
<1>3. ~FreshClient.flag
  BY DEF FreshClient
<1>4. ready = <<>> /\ batch = {} /\ call.step = "none" /\ Queued = {}
  BY DEF Init, NoCall, Queued, In
<1>5. \A fd \in Fd : Clean(fd) /\ ~AtWork(fd)
  BY <1>2, <1>3 DEF Clean, AtWork, IsClient, IsBackend
<1>6. Once(ready)
  BY <1>4 DEF Once
<1>7. QED
  BY <1>1, <1>4, <1>5, <1>6 DEF PairInv, CallInPlace, ServedAtOnce

(***************************************************************************)
(* The inductive invariant of the event loop.  Paired alone would not be:  *)
(* that a new backend gets a client of its own takes slots that are clean, *)
(* that the ready list serves a backend for the client it had takes that   *)
(* only silent backends are queued and none of them twice, and that        *)
(* process_connection runs the loop of a client that is there takes what   *)
(* is known of its two steps.                                              *)
(***************************************************************************)
THEOREM LoopInvariant == Spec => []LoopInv
<1>1. Init => LoopInv
  BY QueueBegins, PairsBegin DEF LoopInv, NoFaults
<1>2. LoopInv /\ [Next]_vars => LoopInv'
  <2>1. ASSUME LoopInv, [Next]_vars PROVE LoopInv'
    <3>1. QueueInv'
      BY <2>1, StepKeepsQueue DEF LoopInv
    <3>2. mode' = mode
      BY <2>1 DEF Next, vars
    <3>3. ASSUME NoFaults' PROVE PairInv'
      <4>1. PairInv
        BY <2>1, <3>2, <3>3 DEF LoopInv, NoFaults
      <4>2. QED
        BY <2>1, <3>1, <4>1, StepKeepsPairs DEF QueueInv
    <3>4. QED
      BY <3>1, <3>3 DEF LoopInv
  <2>2. QED
    BY <2>1
<1>3. QED
  BY <1>1, <1>2, PTL DEF Spec

(***************************************************************************)
(* The state keeps its types, whatever faults happen.                      *)
(***************************************************************************)
THEOREM LoopTyped == Spec => []TypeOK
<1>1. LoopInv => TypeOK
  BY DEF LoopInv, QueueInv
<1>2. QED
  BY <1>1, LoopInvariant, PTL

(***************************************************************************)
(* process_connection and the alarm never separate a backend from the      *)
(* client that waits for it, and no pointer of a backend's slot leads      *)
(* anywhere but to that client, as long as no fault happens.               *)
(***************************************************************************)
THEOREM BackendsArePaired == Spec => []Paired
<1>1. LoopInv => Paired
  <2>1. ASSUME PairInv PROVE Paired
    <3> USE <2>1 DEF PairInv
    <3>1. \A b \in Fd : IsBackend(b) => backend[b].peer # None
      BY EventLoopAssumption DEF Clean
    <3>2. Turn("ready") /\ ready # <<>> => backend[Head(ready)].peer # None
      <4>1. ready # <<>> => Head(ready) \in Fd /\ Head(ready) \in Queued
        BY WithoutHead DEF TypeOK, Queued
      <4>2. QED
        BY <3>1, <4>1 DEF ServedAtOnce
    <3>3. \A b \in Fd : AtWork(b) => PairOf(b)
      OBVIOUS
    <3>4. QED
      BY <3>1, <3>2, <3>3 DEF Paired, HasPeer, PairOf
  <2>2. QED
    BY <2>1 DEF LoopInv, Paired, NoFaults
<1>2. QED
  BY <1>1, LoopInvariant, PTL

(***************************************************************************)
(* accept and prepare_http_request find every slot they fill in as it was  *)
(* when it was reset.                                                      *)
(***************************************************************************)
THEOREM SlotsAreClean == Spec => []SlotsClean
<1>1. LoopInv => SlotsClean
  BY DEF LoopInv, PairInv, SlotsClean, NoFaults, Clean
<1>2. QED
  BY <1>1, LoopInvariant, PTL

(***************************************************************************)
(* Nothing is left to do when the loop blocks, whatever faults happen.     *)
(***************************************************************************)
THEOREM BlocksWithNothingLeft == Spec => []NothingLeftWhenBlocking
<1>1. LoopInv => NothingLeftWhenBlocking
  BY DEF LoopInv, QueueInv, CompletedQueued, Closing, NoCall, NothingLeftWhenBlocking
<1>2. QED
  BY <1>1, LoopInvariant, PTL

(***************************************************************************)
(* The array of the ready list is large enough, whatever faults happen.    *)
(***************************************************************************)
THEOREM ReadyListIsLargeEnough == Spec => []ReadyListFits
<1>1. LoopInv => ReadyListFits
  BY DEF LoopInv, QueueInv
<1>2. QED
  BY <1>1, LoopInvariant, PTL

\* Only BackendAnswers answers a client, and it does so for a paired one.
LEMMA AnswerStep ==
    ASSUME PairInv, [Next]_vars, NEW c \in Fd,
           IsClient(c), client[c].state = "waiting", client'[c].state = "answering"
    PROVE  /\ client[c].peer # None
           /\ IsBackend(client[c].peer)
           /\ call'.step = "client"
           /\ call'.backend = client[c].peer
<1> USE DEF PairInv
<1>1. client'[c] # client[c] /\ FreshClient.state = "own"
  BY DEF FreshClient
<1>2. ASSUME NEW d \in Fd, ClientLoop(d, client[d]) PROVE FALSE
  <2>1. /\ client \in [Fd -> ClientSlot]
        /\ \/ client' = client
           \/ \E m : client' = [client EXCEPT ![d] = m] /\ client[d].state # "waiting"
    BY <1>2 DEF TypeOK, ClientLoop, ClientKeeps, ClientCloses, ClientForwards, ClientFindsNoBackend
  <2>2. d # c => client'[c] = client[c]
    BY <2>1
  <2>3. QED
    BY <1>1, <2>1, <2>2
<1>3. ASSUME NEW b \in Fd, AtWork(b), BackendLoop(b)
      PROVE  /\ client[c].peer = b /\ IsBackend(b)
             /\ call'.step = "client" /\ call'.backend = b
  <2>1. /\ backend[b].peer \in Fd /\ IsBackend(b)
        /\ client[backend[b].peer].peer = b
    BY <1>3, PeerOfOne DEF PairOf
  <2>2. ~BackendKeeps(b)
    BY <1>1 DEF BackendKeeps
  <2>3. ~BackendGivesUp(b)
    <3>1. ASSUME BackendGivesUp(b) PROVE FALSE
      <4>1. client' = [client EXCEPT ![backend[b].peer] =
                          [state |-> client[backend[b].peer].state, peer |-> None, flag |-> FALSE]]
        BY <2>1, <3>1 DEF BackendGivesUp, TypeOK
      <4>2. client'[c].state = client[c].state
        BY <2>1, <4>1 DEF TypeOK
      <4>3. QED
        BY <4>2
    <3>2. QED
      BY <3>1
  <2>4. BackendAnswers(b)
    BY <1>3, <2>2, <2>3 DEF BackendLoop
  <2>5. c = backend[b].peer
    BY <1>1, <2>1, <2>4 DEF BackendAnswers, TypeOK
  <2>6. QED
    BY <2>1, <2>4, <2>5 DEF BackendAnswers
<1>4. None \notin Fd
  BY EventLoopAssumption
<1>5. CASE CallClient
  <2>1. call \in Call /\ call.client \in Fd
    BY <1>5, CallKinds DEF CallClient, TypeOK
  <2>2. QED
    BY <1>2, <1>5, <2>1 DEF CallClient
<1>6. CASE TakeReady
  <2>1. call = NoCall /\ ready # <<>>
    BY <1>6 DEF TakeReady, Turn
  <2>2. Head(ready) \in Fd /\ Head(ready) \in Queued
    BY <2>1, WithoutHead DEF TypeOK, Queued
  <2>3. IsBackend(Head(ready)) /\ AtWork(Head(ready))
    BY <2>2 DEF ServedAtOnce, AtWork
  <2>4. BackendLoop(Head(ready))
    BY <1>6, <2>3 DEF TakeReady, IsBackend
  <2>5. QED
    BY <1>3, <1>4, <2>2, <2>3, <2>4
<1>7. ASSUME NEW fd \in Fd, ClientEvent(fd) PROVE FALSE
  BY <1>2, <1>7 DEF ClientEvent
<1>8. ASSUME NEW fd \in Fd, BackendEvent(fd)
      PROVE  /\ client[c].peer = fd /\ IsBackend(fd)
             /\ call'.step = "client" /\ call'.backend = fd
  <2>1. BackendLoop(fd) /\ AtWork(fd)
    BY <1>8 DEF BackendEvent, AtWork, Closing, Turn, NoCall
  <2>2. QED
    BY <1>3, <2>1
<1>9. ASSUME NEW fd \in Fd, ErrorEvent(fd) PROVE FALSE
  BY <1>1, <1>9 DEF ErrorEvent, TypeOK
<1>10. ~Sweep
  BY <1>1 DEF Sweep
<1>11. CASE \/ CallClose \/ NoSweep \/ ReadyDone \/ Wait \/ WaitInterrupted \/ Accept
            \/ EventsDone \/ Tick \/ (\E fd \in Fd : SkipEvent(fd)) \/ UNCHANGED vars
  BY <1>1, <1>11 DEF CallClose, NoSweep, ReadyDone, Wait, WaitInterrupted, Accept, EventsDone,
     Tick, SkipEvent, vars
<1>12. QED
  BY <1>4, <1>5, <1>6, <1>7, <1>8, <1>9, <1>10, <1>11 DEF Next, Runs

(***************************************************************************)
(* A client that waits gets its answer from the backend it waits for, and  *)
(* that backend's end begins with it.                                      *)
(***************************************************************************)
THEOREM AnswersComeFromTheBackend == Spec => AnsweredByOwnBackend
<1> DEFINE A(c) == IsClient(c) /\ client[c].state = "waiting" /\ client'[c].state = "answering"
                   => /\ client[c].peer # None
                      /\ IsBackend(client[c].peer)
                      /\ call'.step = "client"
                      /\ call'.backend = client[c].peer
<1>1. LoopInv /\ [Next]_vars => (NoFaults => \A c \in Fd : A(c))
  BY AnswerStep DEF LoopInv
<1>2. QED
  BY <1>1, LoopInvariant, PTL DEF Spec, AnsweredByOwnBackend
=============================================================================
