-------------------------- MODULE Selectors_proofs --------------------------
(***************************************************************************)
(* Proofs about the descriptor table and the selectors that use it, those  *)
(* without epoll, for every number of descriptors and whatever happens to  *)
(* the sockets: the table first, by itself.                                *)
(***************************************************************************)
EXTENDS Selectors, FiniteSetTheorems, WellFoundedInduction, TLAPS

(***************************************************************************)
(* Unlink keeps the arrays inverse to each other and the listener in       *)
(* front.  Both callers need it: Remove and SweepDrop.                     *)
(***************************************************************************)
LEMMA UnlinkKeepsPlaces ==
    ASSUME TypeOK, PlacesAgree, ListenerFirst,
           NEW fd \in Fd, Watched(fd), fd # Listener, Unlink(fd)
    PROVE  /\ descriptors' \in [Fd -> Nat \cup {NotWatched}]
           /\ used' \in Nat
           /\ index' \in [0 .. (used' - 1) -> Fd]
           /\ PlacesAgree'
           /\ ListenerFirst'
<1> DEFINE hole  == descriptors[fd]
           last  == used - 1
           moved == index[last]
<1> USE DEF TypeOK, Watched, NotWatched
<1>1. /\ hole \in 0 .. last
      /\ index[hole] = fd
      /\ hole # 0
      /\ last \in Nat
      /\ last > 0
  BY DEF PlacesAgree, ListenerFirst
<1>2. moved \in Fd /\ descriptors[moved] = last
  BY <1>1 DEF PlacesAgree
<1>3. /\ used' = last
      /\ index' = [i \in 0 .. (last - 1) |-> IF i = hole THEN moved ELSE index[i]]
      /\ descriptors' = [f \in Fd |-> IF f = fd THEN NotWatched
                                       ELSE IF f = moved THEN hole
                                       ELSE descriptors[f]]
  BY DEF Unlink
<1> HIDE DEF moved, last, hole
<1>4. descriptors' \in [Fd -> Nat \cup {NotWatched}]
  BY <1>1, <1>2, <1>3
<1>5. used' \in Nat /\ index' \in [0 .. (used' - 1) -> Fd]
  BY <1>1, <1>2, <1>3 DEF last
<1>6. ASSUME NEW i \in 0 .. (used' - 1)
      PROVE  descriptors'[index'[i]] = i
  <2>1. i \in 0 .. (last - 1)
    BY <1>3
  <2>2. CASE i = hole
    <3>1. index'[i] = moved
      BY <1>3, <2>1, <2>2
    <3>2. moved # fd
      BY <1>1, <1>2, <2>1, <2>2 DEF hole
    <3>3. QED
      BY <1>2, <1>3, <2>2, <3>1, <3>2
  <2>3. CASE i # hole
    <3>1. index'[i] = index[i] /\ index[i] \in Fd /\ descriptors[index[i]] = i
      BY <1>1, <1>3, <2>1, <2>3 DEF PlacesAgree, last
    <3>2. index[i] # fd
      BY <2>3, <3>1 DEF hole
    <3>3. index[i] # moved
      BY <1>1, <1>2, <2>1, <3>1
    <3>4. QED
      BY <1>3, <3>1, <3>2, <3>3
  <2>4. QED
    BY <2>2, <2>3
<1>7. ASSUME NEW f \in Fd, descriptors'[f] # NotWatched
      PROVE  /\ descriptors'[f] \in 0 .. (used' - 1)
             /\ index'[descriptors'[f]] = f
  <2>1. f # fd
    BY <1>3, <1>7
  <2>2. CASE f = moved
    <3>1. descriptors'[f] = hole
      BY <1>3, <2>1, <2>2
    <3>2. hole # last
      BY <1>1, <2>1, <2>2 DEF moved
    <3>3. hole \in 0 .. (last - 1)
      BY <1>1, <3>2
    <3>4. QED
      BY <1>3, <2>2, <3>1, <3>3
  <2>3. CASE f # moved
    <3>1. descriptors'[f] = descriptors[f]
      BY <1>3, <2>1, <2>3
    <3>2. descriptors[f] \in 0 .. last /\ index[descriptors[f]] = f
      BY <1>7, <3>1 DEF PlacesAgree, last
    <3>3. descriptors[f] # last /\ descriptors[f] # hole
      BY <1>1, <2>1, <2>3, <3>2 DEF moved
    <3>4. descriptors[f] \in 0 .. (last - 1)
      BY <1>1, <3>2, <3>3
    <3>5. QED
      BY <1>3, <3>1, <3>2, <3>3, <3>4
  <2>4. QED
    BY <2>2, <2>3
<1>8. PlacesAgree'
  BY <1>6, <1>7 DEF PlacesAgree
<1>9. ListenerFirst'
  BY <1>1, <1>3 DEF ListenerFirst
<1>10. QED
  BY <1>4, <1>5, <1>8, <1>9

(***************************************************************************)
(* Adding at the end keeps them too.                                       *)
(***************************************************************************)
LEMMA AddKeepsPlaces ==
    ASSUME IInv, NEW fd \in Fd, Add(fd)
    PROVE  IInv'
<1> USE FdMapAssumption DEF TypeOK, IInv, Watched, NotWatched, Add
<1>1. TypeOK'
  OBVIOUS
<1>2. PlacesAgree'
  <2>1. ASSUME NEW i \in 0 .. (used' - 1)
        PROVE  descriptors'[index'[i]] = i
    <3>1. CASE i = used
      BY <3>1
    <3>2. CASE i # used
      <4>1. i \in 0 .. (used - 1) /\ index'[i] = index[i]
        BY <3>2
      <4>2. index[i] \in Fd /\ descriptors[index[i]] = i
        BY <4>1 DEF PlacesAgree
      <4>3. index[i] # fd
        BY <4>2
      <4>4. QED
        BY <4>1, <4>2, <4>3
    <3>3. QED
      BY <3>1, <3>2
  <2>2. ASSUME NEW f \in Fd, descriptors'[f] # NotWatched
        PROVE  /\ descriptors'[f] \in 0 .. (used' - 1)
               /\ index'[descriptors'[f]] = f
    <3>1. CASE f = fd
      BY <3>1
    <3>2. CASE f # fd
      <4>1. descriptors[f] \in 0 .. (used - 1) /\ index[descriptors[f]] = f
        BY <2>2, <3>2 DEF PlacesAgree
      <4>2. QED
        BY <3>2, <4>1
    <3>3. QED
      BY <3>1, <3>2
  <2>3. QED
    BY <2>1, <2>2 DEF PlacesAgree
<1>3. ListenerFirst'
  BY DEF ListenerFirst
<1>4. SweepInBounds'
  BY DEF SweepInBounds
<1>5. QED
  BY <1>1, <1>2, <1>3, <1>4

(***************************************************************************)
(* The element a sweep stands on is a watched connection, never the        *)
(* listener.                                                               *)
(***************************************************************************)
LEMMA SweepStandsOnConnection ==
    ASSUME IInv, pos # Idle, pos < used
    PROVE  /\ pos \in 1 .. (used - 1)
           /\ index[pos] \in Fd
           /\ Watched(index[pos])
           /\ descriptors[index[pos]] = pos
           /\ index[pos] # Listener
<1> USE DEF IInv, TypeOK, Idle, SweepInBounds
<1>1. pos \in 1 .. (used - 1) /\ pos \in 0 .. (used - 1) /\ 0 \in 0 .. (used - 1)
  OBVIOUS
<1>2. index[pos] \in Fd /\ descriptors[index[pos]] = pos
  BY <1>1 DEF PlacesAgree
<1>3. descriptors[index[0]] = 0
  BY <1>1 DEF PlacesAgree
<1>4. QED
  BY <1>1, <1>2, <1>3 DEF ListenerFirst, Watched, NotWatched

(***************************************************************************)
(* The invariant of the table is inductive.  PlacesAgree alone would not   *)
(* be: it takes the listener's place to know that a sweep never removes    *)
(* the front element, and the sweep's bounds to know that what it removes  *)
(* is watched.                                                             *)
(***************************************************************************)
LEMMA NextKeepsTable ==
    ASSUME IInv, [Next]_vars
    PROVE  IInv'
<1>1. ASSUME NEW fd \in Fd, Add(fd) PROVE IInv'
  BY <1>1, AddKeepsPlaces
<1>2. ASSUME NEW fd \in Fd, Remove(fd) PROVE IInv'
  <2>1. TypeOK /\ PlacesAgree /\ ListenerFirst /\ pos = Idle /\ pos' = pos
    BY <1>2 DEF Remove, IInv
  <2>2. Watched(fd) /\ fd # Listener /\ Unlink(fd)
    BY <1>2 DEF Remove
  <2>3. /\ descriptors' \in [Fd -> Nat \cup {NotWatched}]
        /\ used' \in Nat
        /\ index' \in [0 .. (used' - 1) -> Fd]
        /\ PlacesAgree'
        /\ ListenerFirst'
    BY <2>1, <2>2, UnlinkKeepsPlaces
  <2>4. QED
    BY <2>1, <2>3 DEF IInv, TypeOK, SweepInBounds
<1>3. ASSUME BeginSweep PROVE IInv'
  BY <1>3 DEF BeginSweep, IInv, TypeOK, PlacesAgree, ListenerFirst,
     SweepInBounds, Watched
<1>4. ASSUME SweepDrop PROVE IInv'
  <2>1. TypeOK /\ PlacesAgree /\ ListenerFirst /\ pos # Idle /\ pos < used
    BY <1>4 DEF SweepDrop, IInv
  <2>2. /\ pos \in 1 .. (used - 1)
        /\ index[pos] \in Fd
        /\ Watched(index[pos])
        /\ index[pos] # Listener
    BY <2>1, SweepStandsOnConnection
  <2>3. Unlink(index[pos]) /\ pos' = pos
    BY <1>4 DEF SweepDrop
  <2>4. /\ descriptors' \in [Fd -> Nat \cup {NotWatched}]
        /\ used' \in Nat
        /\ index' \in [0 .. (used' - 1) -> Fd]
        /\ PlacesAgree'
        /\ ListenerFirst'
    BY <2>1, <2>2, <2>3, UnlinkKeepsPlaces
  <2>5. used' = used - 1
    BY <2>3 DEF Unlink
  <2>6. QED
    BY <2>1, <2>2, <2>3, <2>4, <2>5 DEF IInv, TypeOK, SweepInBounds
<1>5. ASSUME SweepKeep PROVE IInv'
  <2>1. pos \in 1 .. (used - 1)
    BY <1>5, SweepStandsOnConnection DEF SweepKeep
  <2>2. QED
    BY <1>5, <2>1 DEF SweepKeep, IInv, TypeOK, PlacesAgree, ListenerFirst,
       SweepInBounds, Watched
<1>6. ASSUME EndSweep PROVE IInv'
  BY <1>6 DEF EndSweep, IInv, TypeOK, PlacesAgree, ListenerFirst,
     SweepInBounds, Watched
<1>7. CASE UNCHANGED vars
  BY <1>7 DEF vars, IInv, TypeOK, PlacesAgree, ListenerFirst, SweepInBounds, Watched
<1>8. QED
  BY <1>1, <1>2, <1>3, <1>4, <1>5, <1>6, <1>7 DEF Next

(***************************************************************************)
(* The inductive invariant of the table.                                   *)
(***************************************************************************)
THEOREM TableInvariant == Spec => []IInv
<1>1. Init => IInv
  BY FdMapAssumption DEF Init, IInv, TypeOK, PlacesAgree, ListenerFirst,
     SweepInBounds, Watched, NotWatched, Idle
<1>2. IInv /\ [Next]_vars => IInv'
  BY NextKeepsTable
<1>3. QED
  BY <1>1, <1>2, PTL DEF Spec

(***************************************************************************)
(* The table keeps its types: no place is negative but the mark of what is *)
(* not watched, and every element in use is a descriptor.                  *)
(***************************************************************************)
THEOREM TableTyped == Spec => []TypeOK
<1>1. IInv => TypeOK
  BY DEF IInv
<1>2. QED
  BY <1>1, TableInvariant, PTL

(***************************************************************************)
(* The listening socket is never closed by an alarm.                       *)
(***************************************************************************)
THEOREM ListenerStays == Spec => []ListenerFirst
<1>1. IInv => ListenerFirst
  BY DEF IInv
<1>2. QED
  BY <1>1, TableInvariant, PTL

(***************************************************************************)
(* The arrays are inverse to each other.                                   *)
(***************************************************************************)
THEOREM ArraysInverse == Spec => []PlacesAgree
<1>1. IInv => PlacesAgree
  BY DEF IInv
<1>2. QED
  BY <1>1, TableInvariant, PTL

(***************************************************************************)
(* By counting: index is an injection of the used places into the          *)
(* descriptors, and it misses any that is not watched.                     *)
(***************************************************************************)
LEMMA TableFitsArrays == IInv => IndexInBounds
<1>1. ASSUME IInv PROVE IndexInBounds
  <2> USE <1>1, FdMapAssumption DEF IInv, TypeOK
  <2> DEFINE Places == 0 .. (used - 1)
  <2>1. IsFiniteSet(Places) /\ Cardinality(Places) = used
    <3>1. used > 0
      BY DEF ListenerFirst
    <3>2. QED
      BY <3>1, FS_Interval
  <2>2. IsFiniteSet(Fd) /\ Cardinality(Fd) = Size
    BY FS_Interval DEF Fd
  <2>3. \A i, j \in Places : index[i] = index[j] => i = j
    BY DEF PlacesAgree
  <2>4. used <= Size
    <3>1. index \in Injection(Places, Fd)
      BY <2>3 DEF Injection, IsInjective
    <3>2. QED
      BY <2>1, <2>2, <3>1, FS_Injection
  <2>5. ASSUME NEW fd \in Fd, ~Watched(fd) PROVE used < Size
    <3>1. index \in [Places -> Fd \ {fd}]
      BY <2>5 DEF PlacesAgree, Watched, NotWatched
    <3>2. index \in Injection(Places, Fd \ {fd})
      BY <2>3, <3>1 DEF Injection, IsInjective
    <3>3. IsFiniteSet(Fd \ {fd}) /\ Cardinality(Fd \ {fd}) = Size - 1
      BY <2>2, FS_RemoveElement
    <3>4. QED
      BY <2>1, <3>2, <3>3, FS_Injection
  <2>6. QED
    BY <2>4, <2>5 DEF IndexInBounds
<1>2. QED
  BY <1>1

(***************************************************************************)
(* The table never outgrows its arrays.                                    *)
(***************************************************************************)
THEOREM TableFits == Spec => []IndexInBounds
<1>1. IInv => IndexInBounds
  BY TableFitsArrays
<1>2. QED
  BY <1>1, TableInvariant, PTL

----------------------------------------------------------------------------
(***************************************************************************)
(* A removal takes exactly the one descriptor out of the set.              *)
(***************************************************************************)
LEMMA UnlinkForgetsOne ==
    ASSUME TypeOK, PlacesAgree, ListenerFirst,
           NEW fd \in Fd, Watched(fd), fd # Listener, Unlink(fd)
    PROVE  Members' = Members \ {fd}
<1> USE DEF TypeOK, Watched, NotWatched
<1> DEFINE last == used - 1
<1>1. /\ descriptors[fd] \in 0 .. last
      /\ last \in 0 .. last
      /\ index[last] \in Fd
      /\ descriptors[index[last]] = last
  BY DEF PlacesAgree, ListenerFirst
<1>2. \A f \in Fd : descriptors'[f] # NotWatched <=>
                     f # fd /\ descriptors[f] # NotWatched
  BY <1>1 DEF Unlink
<1>3. QED
  BY <1>2 DEF Members

(***************************************************************************)
(* What the sweep has still to look at, place by place: the watched        *)
(* connections whose place is not before the sweep's.                      *)
(***************************************************************************)
NotBefore(i) == {fd \in Fd : Watched(fd) /\ descriptors[fd] >= i}

\* While a sweep runs these are the ones it has still to look at.
LEMMA UnseenByPlace == IInv /\ pos # Idle => Unseen = NotBefore(pos)
<1> SUFFICES ASSUME IInv, pos # Idle PROVE Unseen = NotBefore(pos)
  OBVIOUS
<1> USE DEF IInv, TypeOK, SweepInBounds, Idle, Watched, NotWatched
<1>1. pos \in 1 .. used
  OBVIOUS
<1>2. ASSUME NEW i \in pos .. (used - 1)
      PROVE  index[i] \in NotBefore(pos)
  <2>1. i \in 0 .. (used - 1)
    BY <1>1
  <2>2. index[i] \in Fd /\ descriptors[index[i]] = i
    BY <2>1 DEF PlacesAgree
  <2>3. QED
    BY <1>1, <2>2 DEF NotBefore
<1>3. ASSUME NEW fd \in NotBefore(pos)
      PROVE  descriptors[fd] \in pos .. (used - 1) /\ index[descriptors[fd]] = fd
  BY <1>1, <1>3 DEF PlacesAgree, NotBefore
<1>4. Unseen = {index[i] : i \in pos .. (used - 1)}
  BY DEF Unseen
<1>5. QED
  BY <1>2, <1>3, <1>4

(***************************************************************************)
(* Every step of the table is a step of the set it implements, or none.    *)
(***************************************************************************)
LEMMA TableStep ==
    ASSUME IInv, IInv', [Next]_vars
    PROVE  [Abs!Next]_(Abs!vars)
<1> USE DEF Idle
<1>0. /\ pos # Idle => Unseen = NotBefore(pos)
      /\ pos' # Idle => Unseen' = NotBefore(pos)'
  <2>1. (IInv /\ pos # Idle => Unseen = NotBefore(pos))'
    BY UnseenByPlace, PTL
  <2>2. QED
    BY <2>1, UnseenByPlace
<1>1. ASSUME NEW fd \in Fd, Add(fd) PROVE Abs!Watch(fd)
  <2>1. Members' = Members \cup {fd} /\ fd \notin Members
    BY <1>1 DEF Add, Members, Watched, NotWatched, IInv, TypeOK
  <2>2. QED
    BY <1>1, <2>1 DEF Add, Unseen, Abs!Watch
<1>2. ASSUME NEW fd \in Fd, Remove(fd) PROVE Abs!Forget(fd)
  <2>1. Members' = Members \ {fd}
    BY <1>2, UnlinkForgetsOne DEF Remove, IInv
  <2>2. fd \in Members \ {Listener}
    BY <1>2 DEF Remove, Members
  <2>3. QED
    BY <1>2, <2>1, <2>2 DEF Remove, Unseen, Abs!Forget
<1>3. ASSUME BeginSweep PROVE Abs!BeginSweep
  <2>1. Unseen' = {fd \in Fd : Watched(fd) /\ descriptors[fd] >= 1}
    BY <1>0, <1>3 DEF BeginSweep, NotBefore, Watched
  <2>2. \A fd \in Fd : Watched(fd) /\ descriptors[fd] >= 1 <=>
                       Watched(fd) /\ fd # Listener
    BY DEF IInv, TypeOK, PlacesAgree, ListenerFirst, Watched, NotWatched
  <2>3. Unseen' = Members \ {Listener} /\ Members' = Members
    BY <1>3, <2>1, <2>2 DEF BeginSweep, Members, Watched
  <2>4. QED
    BY <1>3, <2>3 DEF BeginSweep, Abs!BeginSweep
<1>4. ASSUME SweepDrop PROVE \E fd \in Fd : Abs!Drop(fd)
  <2> DEFINE gone == index[pos]
  <2>1. pos # Idle /\ pos < used /\ Unlink(gone) /\ pos' = pos
    BY <1>4 DEF SweepDrop
  <2>2. /\ pos \in 1 .. (used - 1)
        /\ gone \in Fd /\ Watched(gone) /\ gone # Listener
        /\ descriptors[gone] = pos
    BY <2>1, SweepStandsOnConnection
  <2> HIDE DEF gone
  <2>3. Members' = Members \ {gone}
    BY <2>1, <2>2, UnlinkForgetsOne DEF IInv
  <2>4. gone \in Unseen
    BY <1>0, <2>1, <2>2 DEF NotBefore
  <2>5. \A f \in Fd : Watched(f)' /\ descriptors'[f] >= pos <=>
                      f # gone /\ Watched(f) /\ descriptors[f] >= pos
    <3> USE DEF IInv, TypeOK, Watched, NotWatched
    <3>1. /\ index[used - 1] \in Fd
          /\ descriptors[index[used - 1]] = used - 1
      BY <2>2 DEF PlacesAgree
    <3>2. QED
      BY <2>1, <2>2, <3>1 DEF Unlink
  <2>6. Unseen' = Unseen \ {gone}
    <3>1. Unseen' = NotBefore(pos)' /\ Unseen = NotBefore(pos)
      BY <1>0, <2>1
    <3>2. QED
      BY <2>1, <2>5, <3>1 DEF NotBefore
  <2>7. QED
    BY <2>1, <2>2, <2>3, <2>4, <2>6 DEF Abs!Drop
<1>5. ASSUME SweepKeep PROVE \E fd \in Fd : Abs!Keep(fd)
  <2> DEFINE kept == index[pos]
  <2>1. pos # Idle /\ pos < used /\ pos' = pos + 1 /\ UNCHANGED <<descriptors, index, used>>
    BY <1>5 DEF SweepKeep
  <2>2. /\ pos \in 1 .. (used - 1)
        /\ kept \in Fd /\ Watched(kept) /\ descriptors[kept] = pos
    BY <2>1, SweepStandsOnConnection
  <2> HIDE DEF kept
  <2>3. kept \in Unseen /\ pos' # Idle
    BY <1>0, <2>1, <2>2 DEF NotBefore
  <2>4. \A f \in Fd : descriptors[f] = pos => f = kept \/ ~Watched(f)
    BY <2>2 DEF IInv, PlacesAgree
  <2>5. Unseen' = Unseen \ {kept}
    <3>1. Unseen' = NotBefore(pos)' /\ Unseen = NotBefore(pos)
      BY <1>0, <2>1, <2>3
    <3>2. \A f \in Fd : Watched(f) => descriptors[f] \in Nat
      BY DEF IInv, TypeOK, Watched, NotWatched
    <3>3. \A f \in Fd : Watched(f) /\ descriptors[f] >= pos + 1 <=>
                        f # kept /\ Watched(f) /\ descriptors[f] >= pos
      BY <2>2, <2>4, <3>2
    <3>4. QED
      BY <2>1, <3>1, <3>3 DEF NotBefore, Watched
  <2>6. QED
    BY <2>1, <2>2, <2>3, <2>5 DEF Abs!Keep, Members, Watched
<1>6. ASSUME EndSweep PROVE Abs!EndSweep
  <2>1. Unseen = {}
    BY <1>6 DEF EndSweep, Unseen, IInv, TypeOK
  <2>2. QED
    BY <1>6, <2>1 DEF EndSweep, Unseen, Members, Watched, Abs!EndSweep
<1>7. CASE UNCHANGED vars
  BY <1>7 DEF vars, Members, Unseen, Watched, Abs!vars
<1>8. QED
  BY <1>1, <1>2, <1>3, <1>4, <1>5, <1>6, <1>7 DEF Next, Abs!Next

(***************************************************************************)
(* The table implements the set, and so an alarm looks at every connection *)
(* once whatever it drops on the way.                                      *)
(***************************************************************************)
THEOREM TableImplementsSet == Spec => SweepsEveryConnectionOnce
<1>1. Init => Abs!Init
  BY FdMapAssumption DEF Init, Abs!Init, Members, Unseen, Watched, NotWatched, Idle
<1>2. IInv /\ IInv' /\ [Next]_vars => [Abs!Next]_(Abs!vars)
  BY TableStep
<1>3. QED
  BY <1>1, <1>2, TableInvariant, PTL DEF Spec, SweepsEveryConnectionOnce, Abs!Spec

----------------------------------------------------------------------------
(***************************************************************************)
(* The selectors.                                                          *)
(***************************************************************************)

Conditions == Way \cup {"E"}

Pollfd == [fd : Fd, events : SUBSET Conditions, revents : SUBSET Conditions]

Ways == [Fd -> Way \cup {"none"}]

AccountsTyped ==
    /\ kind \in {"poll", "select", "kqueue", "port"}
    /\ want \in Ways /\ assoc \in Ways /\ asked \in Ways
    /\ news \in [Fd -> SUBSET Conditions]
    /\ kind = "poll" => pollfds \in [Fd -> Pollfd]
    /\ sets \in [r : SUBSET Fd, w : SUBSET Fd, highest : Int]
    /\ reopened \subseteq Fd

\* Nothing is needed of nevents.
RoundTyped ==
    /\ round = [at |-> round.at, i |-> round.i, nevents |-> round.nevents,
                got |-> round.got, cur |-> round.cur]
    /\ round.at \in {"turn", "wait", "loop", "handler"}
    /\ round.i \in Nat
    /\ round.cur \in Fd
    /\ ~Scans => \A e \in round.got : e.fd \in Fd

(***************************************************************************)
(* process_events and the alarm's sweep take turns, nothing is left of a   *)
(* result between two rounds, and the descriptor a handler was called for  *)
(* is watched until it returns.                                            *)
(***************************************************************************)
RoundInPlace ==
    /\ pos # Idle => round.at = "turn"
    /\ round.at \in {"turn", "wait"} => round.got = {}
    /\ round.at = "handler" => Watched(round.cur)

(***************************************************************************)
(* The parts of KernelWatchesAll.                                          *)
(***************************************************************************)
WantAgrees == \A fd \in Fd : Watched(fd) <=> want[fd] # "none"

PollAgrees ==
    kind = "poll" => \A i \in 0 .. (used - 1) :
        pollfds[i].fd = index[i] /\ pollfds[i].events = {want[index[i]]}

SetsAgree ==
    kind = "select" =>
        /\ sets.r = {fd \in Fd : want[fd] = "R"}
        /\ sets.w = {fd \in Fd : want[fd] = "W"}

HighestAgrees ==
    kind = "select" /\ sets.highest # Undefined =>
        \A fd \in Fd : Watched(fd) => fd <= sets.highest

Associated(fd) ==
    \/ assoc[fd] # "none"
    \/ round.at = "handler" /\ round.cur = fd
    \/ \E e \in round.got : e.fd = fd

PortAgrees ==
    kind = "port" => \A fd \in Fd : Watched(fd) =>
        Associated(fd) /\ asked[fd] # "none"

(***************************************************************************)
(* With poll the pollfd of a descriptor opened since the result came has   *)
(* nothing in its revents.                                                 *)
(***************************************************************************)
NothingForTheNew ==
    kind = "poll" => \A i \in 0 .. (used - 1) :
        index[i] \in reopened => pollfds[i].revents = {}

SelectorInv ==
    /\ IInv
    /\ AccountsTyped /\ RoundTyped /\ RoundInPlace
    /\ WantAgrees /\ PollAgrees /\ SetsAgree /\ HighestAgrees /\ PortAgrees
    /\ NothingForTheNew /\ EventsOfItsOwn

----------------------------------------------------------------------------
(***************************************************************************)
(* The places of the table, as the accounts need them.                     *)
(***************************************************************************)
LEMMA ListenerWatched ==
    ASSUME IInv
    PROVE  Watched(Listener) /\ descriptors[Listener] = 0 /\ used > 0 /\ used \in Nat
<1>1. index[0] = Listener /\ used > 0 /\ used \in Nat
  BY DEF IInv, TypeOK, ListenerFirst
<1>2. descriptors[index[0]] = 0
  BY <1>1 DEF IInv, PlacesAgree
<1>3. QED
  BY <1>1, <1>2 DEF Watched, NotWatched

\* What is in the table has its place there.
LEMMA PlaceOf ==
    ASSUME IInv, NEW i \in 0 .. (used - 1)
    PROVE  /\ index[i] \in Fd /\ Watched(index[i]) /\ descriptors[index[i]] = i
           /\ i \in Fd
<1>1. index[i] \in Fd /\ descriptors[index[i]] = i
  BY DEF IInv, TypeOK, PlacesAgree
<1>2. used <= Size /\ used \in Nat /\ Size \in Nat
  BY TableFitsArrays, FdMapAssumption DEF IndexInBounds, IInv, TypeOK
<1>3. QED
  BY <1>1, <1>2 DEF Watched, NotWatched, Fd

\* What is watched is in the table.
LEMMA PlaceIn ==
    ASSUME IInv, NEW fd \in Fd, Watched(fd)
    PROVE  descriptors[fd] \in 0 .. (used - 1) /\ index[descriptors[fd]] = fd
  BY DEF IInv, PlacesAgree

(***************************************************************************)
(* After a removal.                                                        *)
(***************************************************************************)
LEMMA AfterUnlink ==
    ASSUME IInv, NEW fd \in Fd, Watched(fd), fd # Listener, Unlink(fd)
    PROVE  /\ \A f \in Fd : Watched(f)' <=> Watched(f) /\ f # fd
           /\ used' = used - 1 /\ used' \in Nat /\ used' \in Fd
           /\ descriptors[fd] \in 0 .. (used - 1)
           /\ \A i \in 0 .. (used' - 1) :
                 index'[i] = (IF i = descriptors[fd] THEN index[used'] ELSE index[i])
           /\ \A i \in 0 .. (used' - 1) : index'[i] # fd
<1>1. Members' = Members \ {fd}
  BY UnlinkForgetsOne DEF IInv
<1>2. \A f \in Fd : Watched(f)' <=> Watched(f) /\ f # fd
  BY <1>1 DEF Members
<1>3. used' = used - 1 /\ used \in Nat /\ used > 0 /\ descriptors[fd] \in 0 .. (used - 1)
  BY ListenerWatched, PlaceIn DEF Unlink
<1>4. used' \in 0 .. (used - 1) /\ used' \in Nat
  BY <1>3
<1>5. used' \in Fd
  BY <1>4, PlaceOf
<1>6. \A i \in 0 .. (used' - 1) :
         index'[i] = (IF i = descriptors[fd] THEN index[used'] ELSE index[i])
  BY <1>3 DEF Unlink
<1>7. ASSUME NEW i \in 0 .. (used' - 1) PROVE index'[i] # fd
  <2>1. i \in 0 .. (used - 1) /\ i # used'
    BY <1>3
  <2>2. CASE i = descriptors[fd]
    BY <1>4, <1>6, <2>1, <2>2, PlaceOf
  <2>3. CASE i # descriptors[fd]
    BY <1>6, <2>1, <2>3, PlaceOf
  <2>4. QED
    BY <2>2, <2>3
<1>8. QED
  BY <1>2, <1>3, <1>4, <1>5, <1>6, <1>7

(***************************************************************************)
(* A removal keeps the accounts of what is still watched.                  *)
(***************************************************************************)
LEMMA RemovalKeepsAccounts ==
    ASSUME SelectorInv, NEW fd \in Fd, Watched(fd), fd # Listener,
           Unlink(fd), KernelRemoves(fd), UNCHANGED <<kind, reopened>>
    PROVE  /\ AccountsTyped' /\ WantAgrees'
           /\ PollAgrees' /\ SetsAgree' /\ HighestAgrees' /\ NothingForTheNew'
           /\ \A f \in Fd : f # fd => assoc'[f] = assoc[f]
           /\ asked' = asked
<1> USE DEF SelectorInv
<1>0. /\ \A f \in Fd : Watched(f)' <=> Watched(f) /\ f # fd
      /\ used' = used - 1 /\ used' \in Nat /\ used' \in Fd
      /\ descriptors[fd] \in 0 .. (used - 1)
      /\ \A i \in 0 .. (used' - 1) :
            index'[i] = (IF i = descriptors[fd] THEN index[used'] ELSE index[i])
      /\ \A i \in 0 .. (used' - 1) : index'[i] # fd
  BY AfterUnlink
<1>1. /\ want' = [want EXCEPT ![fd] = "none"]
      /\ assoc' = [assoc EXCEPT ![fd] = "none"]
      /\ news' = [news EXCEPT ![fd] = {}]
      /\ asked' = asked
      /\ kind' = kind /\ reopened' = reopened
      /\ kind = "poll" => pollfds' = PollRemoves(fd)
      /\ sets' = IF kind = "select" THEN SelectRemoves(fd) ELSE sets
  BY DEF KernelRemoves
<1> DEFINE hole == descriptors[fd]
           last == used'
<1>2. ASSUME kind = "poll"
      PROVE  /\ pollfds' \in [Fd -> Pollfd]
             /\ \A i \in 0 .. (last - 1) :
                   pollfds'[i] = (IF i = hole THEN pollfds[last] ELSE pollfds[i])
  <2>1. last = used - 1 /\ hole \in Fd /\ pollfds \in [Fd -> Pollfd]
    BY <1>0, <1>2, PlaceOf DEF AccountsTyped
  <2>2. pollfds' = [i \in Fd |-> IF i = last
                                 THEN [Nothing EXCEPT !.revents = pollfds[last].revents]
                                 ELSE IF i = hole THEN pollfds[last] ELSE pollfds[i]]
    BY <1>0, <1>1, <1>2 DEF PollRemoves
  <2>3. [Nothing EXCEPT !.revents = pollfds[last].revents] \in Pollfd
    BY <1>0, <2>1, FdMapAssumption DEF Nothing, Pollfd
  <2>4. \A i \in 0 .. (last - 1) : i \in Fd /\ i # last
    BY <1>0, PlaceOf
  <2>5. QED
    BY <1>0, <2>1, <2>2, <2>3, <2>4
<1>3. AccountsTyped'
  BY <1>1, <1>2 DEF AccountsTyped, Ways, SelectRemoves, Undefined
<1>4. WantAgrees'
  BY <1>0, <1>1 DEF WantAgrees, AccountsTyped, Ways
<1>5. \A f \in Fd : f # fd => want'[f] = want[f] /\ assoc'[f] = assoc[f]
  BY <1>1 DEF AccountsTyped, Ways
<1>6. ASSUME kind = "poll", NEW i \in 0 .. (last - 1)
      PROVE  /\ pollfds'[i].fd = index'[i] /\ pollfds'[i].events = {want'[index'[i]]}
             /\ index'[i] \in reopened => pollfds'[i].revents = {}
  <2>1. PICK j \in 0 .. (used - 1) : index'[i] = index[j] /\ pollfds'[i] = pollfds[j]
    <3>1. CASE i = hole
      BY <1>0, <1>2, <1>6, <3>1
    <3>2. CASE i # hole
      BY <1>0, <1>2, <1>6, <3>2
    <3>3. QED
      BY <3>1, <3>2
  <2>2. index[j] \in Fd /\ index[j] # fd
    BY <1>0, <2>1, PlaceOf
  <2>3. QED
    BY <1>5, <1>6, <2>1, <2>2 DEF PollAgrees, NothingForTheNew
<1>7. PollAgrees' /\ NothingForTheNew'
  BY <1>1, <1>6 DEF PollAgrees, NothingForTheNew
<1>8. SetsAgree'
  BY <1>1, <1>5 DEF SetsAgree, SelectRemoves, AccountsTyped, Ways
<1>9. HighestAgrees'
  BY <1>0, <1>1 DEF HighestAgrees, SelectRemoves, AccountsTyped
<1>10. QED
  BY <1>1, <1>3, <1>4, <1>5, <1>7, <1>8, <1>9

(***************************************************************************)
(* So does an addition, at the end of the table.                           *)
(***************************************************************************)
LEMMA AdditionKeepsAccounts ==
    ASSUME SelectorInv, NEW fd \in Fd, NEW way \in Way, Add(fd), KernelAdds(fd, way),
           UNCHANGED <<kind, news>>, reopened' \in {reopened, reopened \cup {fd}}
    PROVE  /\ AccountsTyped' /\ WantAgrees'
           /\ PollAgrees' /\ SetsAgree' /\ HighestAgrees' /\ NothingForTheNew'
           /\ \A f \in Fd : f # fd => (Watched(f)' <=> Watched(f))
           /\ \A f \in Fd : f # fd => assoc'[f] = assoc[f] /\ asked'[f] = asked[f]
           /\ kind = "port" => assoc'[fd] = way /\ asked'[fd] = way
<1> USE DEF SelectorInv
<1>1. /\ ~Watched(fd) /\ used \in Nat /\ used' = used + 1 /\ used \in Fd
      /\ \A f \in Fd : f # fd => (Watched(f)' <=> Watched(f))
      /\ Watched(fd)'
      /\ \A i \in 0 .. (used' - 1) : index'[i] = (IF i = used THEN fd ELSE index[i])
  <2>1. used \in Nat /\ used < Size
    BY TableFitsArrays DEF Add, IndexInBounds, IInv, TypeOK
  <2>2. QED
    BY <2>1, FdMapAssumption DEF Add, IInv, TypeOK, Watched, NotWatched, Fd
<1>2. /\ want' = [want EXCEPT ![fd] = way]
      /\ kind' = kind /\ news' = news
      /\ kind = "poll" => pollfds' = PollAdds(fd, way)
      /\ sets' = IF kind = "select" THEN SelectAdds(fd, way) ELSE sets
      /\ assoc' = IF kind = "port" THEN [assoc EXCEPT ![fd] = way] ELSE assoc
      /\ asked' = IF kind = "port" THEN [asked EXCEPT ![fd] = way] ELSE asked
  BY DEF KernelAdds
<1>3. /\ want'[fd] = way
      /\ \A f \in Fd : f # fd => /\ want'[f] = want[f]
                                 /\ assoc'[f] = assoc[f] /\ asked'[f] = asked[f]
  BY <1>2 DEF AccountsTyped, Ways
<1>4. ASSUME kind = "poll"
      PROVE  /\ pollfds' \in [Fd -> Pollfd]
             /\ pollfds'[used] = [fd |-> fd, events |-> {way}, revents |-> {}]
             /\ \A i \in 0 .. (used - 1) : pollfds'[i] = pollfds[i]
  <2>1. pollfds' = [pollfds EXCEPT ![used] = [fd |-> fd, events |-> {way}, revents |-> {}]]
    BY <1>2, <1>4 DEF PollAdds
  <2>2. [fd |-> fd, events |-> {way}, revents |-> {}] \in Pollfd
    BY DEF Pollfd, Conditions
  <2>3. pollfds \in [Fd -> Pollfd]
    BY <1>4 DEF AccountsTyped
  <2>4. \A i \in 0 .. (used - 1) : i \in Fd /\ i # used
    BY <1>1, PlaceOf
  <2>5. QED
    BY <1>1, <2>1, <2>2, <2>3, <2>4
<1>5. AccountsTyped'
  BY <1>2, <1>4 DEF AccountsTyped, Ways, SelectAdds, Bits, Fd
<1>6. WantAgrees'
  <2>1. way # "none"
    BY DEF Way
  <2>2. QED
    BY <1>1, <1>3, <2>1 DEF WantAgrees
<1>7. ASSUME kind = "poll", NEW i \in 0 .. (used' - 1)
      PROVE  /\ pollfds'[i].fd = index'[i] /\ pollfds'[i].events = {want'[index'[i]]}
             /\ index'[i] \in reopened' => pollfds'[i].revents = {}
  <2>1. CASE i = used
    BY <1>1, <1>3, <1>4, <1>7, <2>1
  <2>2. CASE i # used
    <3>1. i \in 0 .. (used - 1)
      BY <1>1, <2>2
    <3>2. index'[i] = index[i] /\ pollfds'[i] = pollfds[i]
      BY <1>1, <1>4, <1>7, <2>2, <3>1
    <3>3. index[i] \in Fd /\ index[i] # fd
      BY <1>1, <3>1, PlaceOf
    <3>4. QED
      BY <1>3, <1>7, <3>1, <3>2, <3>3 DEF PollAgrees, NothingForTheNew
  <2>3. QED
    BY <2>1, <2>2
<1>8. PollAgrees' /\ NothingForTheNew'
  BY <1>2, <1>7 DEF PollAgrees, NothingForTheNew
<1>9. SetsAgree'
  <2>1. kind = "select" => want[fd] = "none"
    BY <1>1 DEF WantAgrees
  <2>2. QED
    BY <1>2, <1>3, <2>1 DEF SetsAgree, SelectAdds, Bits, AccountsTyped, Ways, Way
<1>10. HighestAgrees'
  <2>1. sets.highest # Undefined /\ kind = "select" => Listener <= sets.highest
    BY ListenerWatched, FdMapAssumption DEF HighestAgrees
  <2>2. sets.highest # EmptySet \/ kind # "select"
    BY <2>1, FdMapAssumption DEF EmptySet, Undefined, Fd
  <2>3. QED
    BY <1>1, <1>2, <2>2 DEF HighestAgrees, SelectAdds, AccountsTyped, Fd
<1>11. kind = "port" => assoc'[fd] = way /\ asked'[fd] = way
  BY <1>2 DEF AccountsTyped, Ways
<1>12. QED
  BY <1>1, <1>3, <1>5, <1>6, <1>8, <1>9, <1>10, <1>11

(***************************************************************************)
(* And a modification.                                                     *)
(***************************************************************************)
LEMMA ModificationKeepsAccounts ==
    ASSUME SelectorInv, NEW fd \in Fd, Watched(fd), NEW way \in Way,
           KernelModifies(fd, way), UNCHANGED <<vars, kind, news, reopened>>
    PROVE  /\ AccountsTyped' /\ WantAgrees'
           /\ PollAgrees' /\ SetsAgree' /\ HighestAgrees' /\ NothingForTheNew'
           /\ assoc' = assoc
           /\ \A f \in Fd : asked[f] # "none" => asked'[f] # "none"
<1> USE DEF SelectorInv
<1>1. /\ want' = [want EXCEPT ![fd] = way] /\ want \in Ways
      /\ kind' = kind /\ news' = news /\ reopened' = reopened /\ assoc' = assoc
      /\ index' = index /\ descriptors' = descriptors /\ used' = used
      /\ kind = "poll" => pollfds' = PollModifies(fd, way)
      /\ sets' = IF kind = "select" THEN SelectModifies(fd, way) ELSE sets
      /\ asked' = IF kind = "port" THEN [asked EXCEPT ![fd] = way] ELSE asked
  BY DEF KernelModifies, vars, AccountsTyped
<1>2. \A f \in Fd : Watched(f)' <=> Watched(f)
  BY <1>1 DEF Watched
<1>3. want'[fd] = way /\ \A f \in Fd : f # fd => want'[f] = want[f]
  BY <1>1 DEF Ways
<1> DEFINE place == descriptors[fd]
<1>4. place \in 0 .. (used - 1) /\ index[place] = fd /\ place \in Fd
  BY PlaceIn, PlaceOf
<1>5. ASSUME kind = "poll"
      PROVE  /\ pollfds' \in [Fd -> Pollfd]
             /\ pollfds'[place] = [pollfds[place] EXCEPT !.events = {way}, !.revents = {}]
             /\ \A i \in 0 .. (used - 1) : i # place => pollfds'[i] = pollfds[i]
  <2>1. pollfds \in [Fd -> Pollfd]
    BY <1>5 DEF AccountsTyped
  <2>2. pollfds' = [pollfds EXCEPT ![place] = [pollfds[place] EXCEPT !.events = {way},
                                                                     !.revents = {}]]
    BY <1>1, <1>4, <1>5, <2>1 DEF PollModifies, Pollfd
  <2>3. [pollfds[place] EXCEPT !.events = {way}, !.revents = {}] \in Pollfd
    <3>1. \A p \in Pollfd : [p EXCEPT !.events = {way}, !.revents = {}] \in Pollfd
      BY DEF Pollfd, Conditions
    <3>2. QED
      BY <1>4, <2>1, <3>1
  <2>4. \A i \in 0 .. (used - 1) : i \in Fd
    BY PlaceOf
  <2>5. QED
    BY <1>4, <2>1, <2>2, <2>3, <2>4
<1>6. AccountsTyped'
  BY <1>1, <1>5 DEF AccountsTyped, Ways, SelectModifies, Bits
<1>7. way # "none"
  BY DEF Way
<1>8. WantAgrees'
  BY <1>2, <1>3, <1>7 DEF WantAgrees
<1>9. ASSUME kind = "poll", NEW i \in 0 .. (used - 1)
      PROVE  /\ pollfds'[i].fd = index[i] /\ pollfds'[i].events = {want'[index[i]]}
             /\ index[i] \in reopened => pollfds'[i].revents = {}
  <2>1. CASE i = place
    <3>1. pollfds[place] \in Pollfd /\ pollfds[place].fd = fd
      BY <1>4, <1>9 DEF AccountsTyped, PollAgrees
    <3>2. QED
      BY <1>3, <1>4, <1>5, <1>9, <2>1, <3>1 DEF Pollfd
  <2>2. CASE i # place
    <3>1. index[i] \in Fd /\ index[i] # fd
      BY <2>2, PlaceOf
    <3>2. QED
      BY <1>3, <1>5, <1>9, <2>2, <3>1 DEF PollAgrees, NothingForTheNew
  <2>3. QED
    BY <2>1, <2>2
<1>10. PollAgrees' /\ NothingForTheNew'
  BY <1>1, <1>9 DEF PollAgrees, NothingForTheNew
<1>11. SetsAgree'
  BY <1>1, <1>3 DEF SetsAgree, SelectModifies, Bits, AccountsTyped, Ways, Way
<1>12. HighestAgrees'
  BY <1>1, <1>2 DEF HighestAgrees, SelectModifies, AccountsTyped
<1>13. \A f \in Fd : asked[f] # "none" => asked'[f] # "none"
  BY <1>1, <1>7 DEF AccountsTyped, Ways
<1>14. QED
  BY <1>1, <1>6, <1>8, <1>10, <1>11, <1>12, <1>13

(***************************************************************************)
(* Nothing changes for the accounts in a step that leaves them alone.      *)
(***************************************************************************)
LEMMA QuietStepKeepsAccounts ==
    ASSUME SelectorInv, UNCHANGED <<descriptors, index, used, kind, want, own, reopened>>,
           news' \in [Fd -> SUBSET Conditions]
    PROVE  /\ AccountsTyped' /\ WantAgrees'
           /\ PollAgrees' /\ SetsAgree' /\ HighestAgrees' /\ NothingForTheNew'
           /\ \A f \in Fd : Watched(f)' <=> Watched(f)
           /\ assoc' = assoc /\ asked' = asked
<1>1. \A f \in Fd : Watched(f)' <=> Watched(f)
  BY DEF Watched
<1>2. /\ AccountsTyped' /\ WantAgrees'
      /\ PollAgrees' /\ SetsAgree' /\ HighestAgrees' /\ NothingForTheNew'
      /\ assoc' = assoc /\ asked' = asked
  BY <1>1 DEF SelectorInv, own, AccountsTyped, WantAgrees, PollAgrees, SetsAgree,
     HighestAgrees, NothingForTheNew
<1>3. QED
  BY <1>1, <1>2

----------------------------------------------------------------------------
(***************************************************************************)
(* A set of natural numbers has a least element, and one of descriptors a  *)
(* greatest one, which compute_highest_fd looks for.                       *)
(***************************************************************************)
LEMMA LeastNatural ==
    ASSUME NEW S, S \subseteq Nat, S # {}
    PROVE  \E x \in S : \A y \in S : x <= y
<1> DEFINE R == OpToRel(<, Nat)
<1>1. IsWellFoundedOn(R, Nat)
  BY NatLessThanWellFounded
<1>2. \A x, y \in Nat : y < x => <<y, x>> \in R
  BY DEF OpToRel
<1> HIDE DEF R
<1>3. PICK x \in S : \A y \in S : ~ (<<y, x>> \in R)
  BY <1>1, WFMin
<1>4. ASSUME NEW y \in S PROVE x <= y
  <2>1. x \in Nat /\ y \in Nat
    OBVIOUS
  <2>2. ~ (y < x)
    BY <1>2, <1>3, <2>1
  <2>3. QED
    BY <2>1, <2>2
<1>5. QED
  BY <1>4

\* Of some descriptors one is the greatest.
LEMMA GreatestDescriptor ==
    ASSUME NEW S, S \subseteq Fd, S # {}
    PROVE  \E x \in S : \A y \in S : y <= x
<1> DEFINE Mirror == {n \in Nat : Size - n \in S}
<1>1. Mirror # {}
  <2>1. PICK x \in S : TRUE
    OBVIOUS
  <2>2. Size - x \in Nat /\ Size - (Size - x) = x
    BY <2>1, FdMapAssumption DEF Fd
  <2>3. QED
    BY <2>1, <2>2
<1>2. PICK n \in Mirror : \A m \in Mirror : n <= m
  <2>1. Mirror \subseteq Nat
    OBVIOUS
  <2> HIDE DEF Mirror
  <2>2. QED
    BY <1>1, <2>1, LeastNatural
<1>3. ASSUME NEW y \in S PROVE y <= Size - n
  <2>1. y \in Int /\ Size \in Int /\ Size - y \in Nat /\ Size - (Size - y) = y
    BY FdMapAssumption DEF Fd
  <2>2. Size - y \in Mirror
    BY <2>1
  <2>3. n <= Size - y
    BY <1>2, <2>2
  <2>4. n \in Nat
    OBVIOUS
  <2>5. QED
    BY <2>1, <2>3, <2>4
<1>4. QED
  BY <1>2, <1>3

\* select is told of every descriptor: nfds is above all that are watched.
LEMMA HighestIsGreatest ==
    ASSUME SelectorInv, kind = "select"
    PROVE  Highest \in Int /\ \A fd \in Fd : Watched(fd) => fd <= Highest
<1> USE DEF SelectorInv
<1>1. CASE sets.highest # Undefined
  BY <1>1 DEF Highest, HighestAgrees, AccountsTyped
<1>2. CASE sets.highest = Undefined
  <2>1. Members \subseteq Fd /\ Listener \in Members
    BY ListenerWatched, FdMapAssumption DEF Members
  <2>2. \E x \in Members : \A y \in Members : y <= x
    BY <2>1, GreatestDescriptor
  <2>3. Highest \in Members /\ \A y \in Members : y <= Highest
    BY <1>2, <2>2 DEF Highest
  <2>4. QED
    BY <2>1, <2>3 DEF Members, Fd
<1>3. QED
  BY <1>1, <1>2

----------------------------------------------------------------------------
(***************************************************************************)
(* The steps, each one step of the table or none.                          *)
(***************************************************************************)
LEMMA SelectorInvFromParts ==
    ASSUME SelectorInv, [Next]_vars,
           AccountsTyped', RoundTyped', RoundInPlace',
           WantAgrees', PollAgrees', SetsAgree', HighestAgrees', PortAgrees',
           NothingForTheNew', EventsOfItsOwn'
    PROVE  [Next]_vars /\ SelectorInv'
  BY NextKeepsTable DEF SelectorInv

\* add, which a handler of the server calls.
LEMMA CallAddStep ==
    ASSUME SelectorInv, NEW fd \in Fd, NEW way \in Way, CallAdd(fd, way)
    PROVE  [Next]_vars /\ SelectorInv'
<1>1. /\ round.at = "handler" /\ Add(fd) /\ KernelAdds(fd, way)
      /\ kind' = kind /\ news' = news /\ round' = round
      /\ reopened' = IF kind = "poll" THEN reopened \cup {fd} ELSE reopened
  BY DEF CallAdd
<1>2. /\ AccountsTyped' /\ WantAgrees'
      /\ PollAgrees' /\ SetsAgree' /\ HighestAgrees' /\ NothingForTheNew'
      /\ \A f \in Fd : f # fd => (Watched(f)' <=> Watched(f))
      /\ \A f \in Fd : f # fd => assoc'[f] = assoc[f] /\ asked'[f] = asked[f]
      /\ kind = "port" => assoc'[fd] = way /\ asked'[fd] = way
  BY <1>1, AdditionKeepsAccounts
<1>3. ~Watched(fd) /\ pos' = pos /\ [Next]_vars
  BY <1>1 DEF Add, Next
<1>4. RoundTyped' /\ RoundInPlace' /\ EventsOfItsOwn'
  BY <1>1, <1>2, <1>3 DEF SelectorInv, RoundTyped, RoundInPlace, EventsOfItsOwn, Scans
<1>5. PortAgrees'
  <2>1. way # "none"
    BY DEF Way
  <2>2. QED
    BY <1>1, <1>2, <2>1 DEF SelectorInv, PortAgrees, Associated
<1>6. QED
  BY <1>2, <1>3, <1>4, <1>5, SelectorInvFromParts

\* A removal, within the round or apart from it, is a step of the table.
LEMMA RemovalStep ==
    ASSUME SelectorInv, NEW fd \in Fd, Watched(fd), fd # Listener,
           Unlink(fd), KernelRemoves(fd), UNCHANGED <<kind, reopened>>,
           (pos = Idle /\ pos' = pos) \/ SweepDrop,
           RoundTyped', RoundInPlace', EventsOfItsOwn',
           \A f \in Fd : f # fd /\ Watched(f) /\ Associated(f) => Associated(f)'
    PROVE  [Next]_vars /\ SelectorInv'
<1>1. /\ AccountsTyped' /\ WantAgrees'
      /\ PollAgrees' /\ SetsAgree' /\ HighestAgrees' /\ NothingForTheNew'
      /\ asked' = asked
  BY RemovalKeepsAccounts
<1>2. \A f \in Fd : Watched(f)' <=> Watched(f) /\ f # fd
  BY AfterUnlink DEF SelectorInv
<1>3. PortAgrees'
  BY <1>1, <1>2 DEF SelectorInv, PortAgrees
<1>4. [Next]_vars
  BY DEF Next, Remove
<1>5. QED
  BY <1>1, <1>3, <1>4, SelectorInvFromParts

\* remove, which a handler calls for another descriptor than its own.
LEMMA CallRemoveStep ==
    ASSUME SelectorInv, NEW fd \in Fd, CallRemove(fd)
    PROVE  [Next]_vars /\ SelectorInv'
<1>1. /\ round.at = "handler" /\ fd # round.cur /\ round' = round
      /\ pos = Idle /\ pos' = pos /\ Watched(fd) /\ fd # Listener /\ Unlink(fd)
      /\ KernelRemoves(fd) /\ kind' = kind /\ reopened' = reopened
  BY DEF CallRemove, Remove
<1>2. \A f \in Fd : Watched(f)' <=> Watched(f) /\ f # fd
  BY <1>1, AfterUnlink DEF SelectorInv
<1>3. RoundTyped' /\ RoundInPlace' /\ EventsOfItsOwn'
  BY <1>1, <1>2 DEF SelectorInv, RoundTyped, RoundInPlace, EventsOfItsOwn, Scans
<1>4. \A f \in Fd : f # fd => assoc'[f] = assoc[f]
  BY <1>1, RemovalKeepsAccounts
<1>5. \A f \in Fd : f # fd /\ Watched(f) /\ Associated(f) => Associated(f)'
  BY <1>1, <1>4 DEF Associated
<1>6. QED
  BY <1>1, <1>3, <1>5, RemovalStep

\* modify, which a handler calls.
LEMMA CallModifyStep ==
    ASSUME SelectorInv, NEW fd \in Fd, NEW way \in Way, CallModify(fd, way)
    PROVE  [Next]_vars /\ SelectorInv'
<1>1. /\ round' = round /\ Watched(fd) /\ KernelModifies(fd, way)
      /\ UNCHANGED <<vars, kind, news, reopened>>
  BY DEF CallModify
<1>2. /\ AccountsTyped' /\ WantAgrees'
      /\ PollAgrees' /\ SetsAgree' /\ HighestAgrees' /\ NothingForTheNew'
      /\ assoc' = assoc
      /\ \A f \in Fd : asked[f] # "none" => asked'[f] # "none"
  BY <1>1, ModificationKeepsAccounts
<1>3. /\ \A f \in Fd : Watched(f)' <=> Watched(f)
      /\ pos' = pos /\ kind' = kind /\ reopened' = reopened
  BY <1>1 DEF vars, Watched
<1>4. RoundTyped' /\ RoundInPlace' /\ EventsOfItsOwn'
  BY <1>1, <1>3 DEF SelectorInv, RoundTyped, RoundInPlace, EventsOfItsOwn, Scans
<1>5. PortAgrees'
  BY <1>1, <1>2, <1>3 DEF SelectorInv, PortAgrees, Associated
<1>6. QED
  BY <1>1, <1>2, <1>4, <1>5, SelectorInvFromParts

\* The alarm's sweep of the connections: it begins, keeps or drops one, ends.
LEMMA AlarmStep ==
    ASSUME SelectorInv, Alarm
    PROVE  [Next]_vars /\ SelectorInv'
<1> USE DEF SelectorInv
<1>1. ASSUME AlarmDrops PROVE [Next]_vars /\ SelectorInv'
  <2> DEFINE fd == index[pos]
  <2>1. /\ SweepDrop /\ KernelRemoves(fd) /\ kind' = kind /\ reopened' = reopened
        /\ round' = round /\ pos # Idle /\ pos < used /\ Unlink(fd) /\ pos' = pos
    BY <1>1 DEF AlarmDrops, SweepDrop
  <2>2. fd \in Fd /\ Watched(fd) /\ fd # Listener
    BY <2>1, SweepStandsOnConnection
  <2> HIDE DEF fd
  <2>3. round.at = "turn"
    BY <2>1 DEF RoundInPlace
  <2>4. RoundTyped' /\ RoundInPlace' /\ EventsOfItsOwn'
    BY <2>1, <2>3 DEF RoundTyped, RoundInPlace, EventsOfItsOwn, Scans
  <2>5. \A f \in Fd : f # fd => assoc'[f] = assoc[f]
    BY <2>1, <2>2, RemovalKeepsAccounts
  <2>6. \A f \in Fd : f # fd /\ Watched(f) /\ Associated(f) => Associated(f)'
    BY <2>1, <2>5 DEF Associated
  <2>7. QED
    BY <2>1, <2>2, <2>4, <2>6, RemovalStep
<1>2. ASSUME ~AlarmDrops PROVE [Next]_vars /\ SelectorInv'
  <2>1. /\ UNCHANGED <<descriptors, index, used, kind, want, news, own, reopened>>
        /\ [Next]_vars
        /\ round.at = "turn" /\ round.got = {}
        /\ round' = round \/ (round' = NoRound("wait") /\ pos' = Idle)
    BY <1>2 DEF Alarm, AlarmBegins, AlarmKeeps, AlarmEnds, NoAlarm, Turn, BeginSweep,
       SweepKeep, EndSweep, Next, vars, RoundInPlace
  <2>2. /\ AccountsTyped' /\ WantAgrees'
        /\ PollAgrees' /\ SetsAgree' /\ HighestAgrees' /\ NothingForTheNew'
        /\ \A f \in Fd : Watched(f)' <=> Watched(f)
        /\ assoc' = assoc /\ asked' = asked
    BY <2>1, QuietStepKeepsAccounts DEF AccountsTyped
  <2>3. RoundTyped' /\ RoundInPlace' /\ EventsOfItsOwn'
    BY <2>1, FdMapAssumption
       DEF RoundTyped, RoundInPlace, EventsOfItsOwn, Scans, NoRound
  <2>4. PortAgrees'
    BY <2>1, <2>2 DEF PortAgrees, Associated
  <2>5. QED
    BY <2>1, <2>2, <2>3, <2>4, SelectorInvFromParts
<1>3. QED
  BY <1>1, <1>2

\* Waiting: what happens to descriptors meanwhile, and the kernel's report.
LEMMA WaitStep ==
    ASSUME SelectorInv,
           \/ Wait \/ WaitEndsEmpty
           \/ \E fd \in Fd, what \in Conditions : Happens(fd, what)
    PROVE  [Next]_vars /\ SelectorInv'
<1> USE DEF SelectorInv
<1>1. /\ UNCHANGED <<vars, kind, want, asked>>
      /\ round.at = "wait" /\ round.got = {} /\ pos = Idle
  BY DEF Wait, WaitEndsEmpty, Happens, own, RoundInPlace
<1>2. /\ UNCHANGED <<descriptors, index, used, pos>> /\ [Next]_vars
      /\ \A f \in Fd : Watched(f)' <=> Watched(f)
  BY <1>1 DEF vars, Watched
<1>3. kind = "port" => \A f \in Fd : Watched(f) => assoc[f] # "none"
  BY <1>1 DEF PortAgrees, Associated
<1>4. ASSUME NEW fd \in Fd, NEW what \in Conditions, Happens(fd, what)
      PROVE  SelectorInv'
  <2>1. /\ UNCHANGED <<descriptors, index, used, pos, kind, want, own, reopened, round>>
        /\ news' = [news EXCEPT ![fd] = @ \cup {what}]
    BY <1>4 DEF Happens, vars
  <2>2. news' \in [Fd -> SUBSET Conditions]
    BY <2>1 DEF AccountsTyped
  <2>3. /\ AccountsTyped' /\ WantAgrees'
        /\ PollAgrees' /\ SetsAgree' /\ HighestAgrees' /\ NothingForTheNew'
        /\ assoc' = assoc /\ asked' = asked
    BY <2>1, <2>2, QuietStepKeepsAccounts
  <2>4. RoundTyped' /\ RoundInPlace' /\ EventsOfItsOwn'
    BY <1>2, <2>1 DEF RoundTyped, RoundInPlace, EventsOfItsOwn, Scans
  <2>5. PortAgrees'
    BY <1>2, <2>1, <2>3 DEF PortAgrees, Associated
  <2>6. QED
    BY <1>2, <2>3, <2>4, <2>5, SelectorInvFromParts
<1>5. ASSUME WaitEndsEmpty PROVE SelectorInv'
  <2>1. /\ UNCHANGED <<descriptors, index, used, pos, kind, want, news, own, reopened>>
        /\ round' = NoRound("turn")
    BY <1>5 DEF WaitEndsEmpty, vars, Turn
  <2>2. /\ AccountsTyped' /\ WantAgrees'
        /\ PollAgrees' /\ SetsAgree' /\ HighestAgrees' /\ NothingForTheNew'
        /\ assoc' = assoc /\ asked' = asked
    BY <2>1, QuietStepKeepsAccounts DEF AccountsTyped
  <2>3. RoundTyped' /\ RoundInPlace' /\ EventsOfItsOwn'
    BY <1>2, <2>1, FdMapAssumption
       DEF RoundTyped, RoundInPlace, EventsOfItsOwn, Scans, NoRound
  <2>4. PortAgrees'
    BY <1>2, <1>3, <2>1, <2>2 DEF PortAgrees, Associated
  <2>5. QED
    BY <1>2, <2>2, <2>3, <2>4, SelectorInvFromParts
<1>6. ASSUME Wait,
             NEW got, NEW n, Begin(got, n), ~Scans => \A e \in got : e.fd \in Fd,
             AccountsTyped', PollAgrees', SetsAgree', HighestAgrees', PortAgrees'
      PROVE  SelectorInv'
  <2>1. UNCHANGED <<kind, want>> /\ reopened' = {}
    BY <1>1, <1>6 DEF Wait
  <2>2. round' = [at |-> "loop", i |-> 0, nevents |-> n, got |-> got, cur |-> Listener]
    BY <1>6 DEF Begin, NoRound
  <2>3. RoundTyped' /\ RoundInPlace' /\ EventsOfItsOwn' /\ NothingForTheNew' /\ WantAgrees'
    BY <1>1, <1>2, <1>6, <2>1, <2>2, FdMapAssumption
       DEF RoundTyped, RoundInPlace, EventsOfItsOwn, NothingForTheNew, WantAgrees, Scans
  <2>4. QED
    BY <1>2, <1>6, <2>3, SelectorInvFromParts
<1>7. ASSUME Wait, WaitPoll PROVE SelectorInv'
  <2>1. /\ kind = "poll" /\ kind' = kind /\ want' = want /\ asked' = asked
        /\ news' = news /\ sets' = sets /\ assoc' = assoc /\ reopened' = {}
    BY <1>1, <1>7 DEF WaitPoll, Wait
  <2>2. pollfds \in [Fd -> Pollfd]
    BY <2>1 DEF AccountsTyped
  <2> DEFINE Hit(i) == [pollfds[i] EXCEPT !.revents = Result(pollfds[i].fd, pollfds[i].events)]
  <2>3. ASSUME NEW i \in Fd
        PROVE  /\ Hit(i) \in Pollfd
               /\ Hit(i).fd = pollfds[i].fd /\ Hit(i).events = pollfds[i].events
    <3>1. pollfds[i] \in Pollfd /\ pollfds[i].fd \in Fd
      BY <2>2 DEF Pollfd
    <3>2. Result(pollfds[i].fd, pollfds[i].events) \in SUBSET Conditions
      BY <3>1 DEF AccountsTyped, Result
    <3>3. \A p \in Pollfd, c \in SUBSET Conditions :
             /\ [p EXCEPT !.revents = c] \in Pollfd
             /\ [p EXCEPT !.revents = c].fd = p.fd
             /\ [p EXCEPT !.revents = c].events = p.events
      BY DEF Pollfd
    <3>4. QED
      BY <3>1, <3>2, <3>3
  <2>4. pollfds' = [i \in Fd |-> IF i < used THEN Hit(i) ELSE pollfds[i]]
    BY <1>7 DEF WaitPoll
  <2> HIDE DEF Hit
  <2>5. /\ pollfds' \in [Fd -> Pollfd]
        /\ \A i \in Fd : pollfds'[i].fd = pollfds[i].fd /\ pollfds'[i].events = pollfds[i].events
    BY <2>2, <2>3, <2>4
  <2>6. AccountsTyped'
    BY <2>1, <2>5 DEF AccountsTyped
  <2>7. PollAgrees'
    <3>1. \A i \in 0 .. (used - 1) : i \in Fd
      BY PlaceOf
    <3>2. QED
      BY <1>2, <2>1, <2>5, <3>1 DEF PollAgrees
  <2>8. SetsAgree' /\ HighestAgrees' /\ PortAgrees'
    BY <2>1 DEF SetsAgree, HighestAgrees, PortAgrees
  <2>9. Scans /\ \E got, n : Begin(got, n)
    BY <1>7, <2>1 DEF WaitPoll, Scans
  <2>10. QED
    BY <1>6, <1>7, <2>6, <2>7, <2>8, <2>9
<1>8. ASSUME Wait, WaitSelect PROVE SelectorInv'
  <2>1. /\ kind = "select" /\ kind' = kind /\ want' = want /\ asked' = asked
        /\ news' = news /\ pollfds' = pollfds /\ assoc' = assoc /\ reopened' = {}
        /\ sets' = [sets EXCEPT !.highest = Highest]
    BY <1>1, <1>8 DEF WaitSelect, Wait
  <2>2. Highest \in Int /\ \A fd \in Fd : Watched(fd) => fd <= Highest
    BY <2>1, HighestIsGreatest
  <2>3. AccountsTyped'
    BY <2>1, <2>2 DEF AccountsTyped
  <2>4. SetsAgree' /\ HighestAgrees' /\ PollAgrees' /\ PortAgrees'
    BY <1>2, <2>1, <2>2 DEF AccountsTyped, SetsAgree, HighestAgrees, PollAgrees, PortAgrees
  <2>5. Scans /\ \E got, n : Begin(got, n)
    BY <1>8, <2>1 DEF WaitSelect, Scans
  <2>6. QED
    BY <1>6, <1>8, <2>3, <2>4, <2>5
<1>9. ASSUME Wait, WaitKqueue PROVE SelectorInv'
  <2>1. /\ kind = "kqueue" /\ kind' = kind /\ want' = want /\ asked' = asked
        /\ pollfds' = pollfds /\ sets' = sets /\ assoc' = assoc /\ reopened' = {}
        /\ news' = [fd \in Fd |-> {}]
    BY <1>1, <1>9 DEF WaitKqueue, Wait
  <2>2. AccountsTyped'
    BY <2>1 DEF AccountsTyped
  <2>3. SetsAgree' /\ HighestAgrees' /\ PollAgrees' /\ PortAgrees'
    BY <2>1 DEF SetsAgree, HighestAgrees, PollAgrees, PortAgrees
  <2>4. \A e \in KqueueHits : e.fd \in Fd
    BY DEF KqueueHits
  <2>5. Begin(KqueueHits, 0)
    BY <1>9 DEF WaitKqueue
  <2>6. QED
    BY <1>6, <1>9, <2>2, <2>3, <2>4, <2>5
<1>10. ASSUME Wait, WaitPort PROVE SelectorInv'
  <2> DEFINE got == {[fd |-> fd, events |-> Result(fd, {assoc[fd]})] : fd \in PortHits}
  <2>1. /\ kind = "port" /\ kind' = kind /\ want' = want /\ asked' = asked
        /\ pollfds' = pollfds /\ sets' = sets /\ news' = news /\ reopened' = {}
        /\ assoc' = [fd \in Fd |-> IF fd \in PortHits THEN "none" ELSE assoc[fd]]
        /\ Begin(got, 0)
    BY <1>1, <1>10 DEF WaitPort, Wait
  <2>2. AccountsTyped'
    BY <2>1 DEF AccountsTyped, Ways
  <2>3. /\ \A e \in got : e.fd \in Fd
        /\ \A fd \in PortHits : \E e \in got : e.fd = fd
    <3>1. ASSUME NEW e \in got PROVE e.fd \in Fd
      <4>1. PICK fd \in PortHits : e = [fd |-> fd, events |-> Result(fd, {assoc[fd]})]
        OBVIOUS
      <4>2. QED
        BY <4>1 DEF PortHits
    <3>2. ASSUME NEW fd \in PortHits PROVE \E e \in got : e.fd = fd
      <4> DEFINE e == [fd |-> fd, events |-> Result(fd, {assoc[fd]})]
      <4>1. e \in got /\ e.fd = fd
        OBVIOUS
      <4>2. QED
        BY <4>1
    <3>3. QED
      BY <3>1, <3>2
  <2>4. round'.got = got
    BY <2>1 DEF Begin, NoRound
  <2> HIDE DEF got
  <2>5. PortAgrees'
    <3>1. SUFFICES ASSUME NEW fd \in Fd, Watched(fd)
                   PROVE  Associated(fd)' /\ asked'[fd] # "none"
      BY <1>2 DEF PortAgrees
    <3>2. asked'[fd] # "none" /\ assoc[fd] # "none"
      BY <1>3, <2>1, <3>1 DEF PortAgrees
    <3>3. CASE fd \in PortHits
      BY <2>3, <2>4, <3>2, <3>3 DEF Associated
    <3>4. CASE fd \notin PortHits
      BY <2>1, <3>2, <3>4 DEF Associated
    <3>5. QED
      BY <3>2, <3>3, <3>4
  <2>6. SetsAgree' /\ HighestAgrees' /\ PollAgrees'
    BY <2>1 DEF SetsAgree, HighestAgrees, PollAgrees
  <2>7. QED
    BY <1>6, <1>10, <2>1, <2>2, <2>3, <2>5, <2>6
<1>11. QED
  BY <1>2, <1>4, <1>5, <1>7, <1>8, <1>9, <1>10 DEF Wait

(***************************************************************************)
(* What the loop calls a handler for, or drops, is a watched descriptor.   *)
(***************************************************************************)
LEMMA DueIsWatched ==
    ASSUME SelectorInv, NEW e \in Candidates, Due(e)
    PROVE  /\ e.fd \in Fd /\ Watched(e.fd)
           /\ round.at = "loop" /\ pos = Idle
           /\ kind = "poll" => e.fd \notin reopened
<1> USE DEF SelectorInv
<1>1. round.at = "loop" /\ pos = Idle
  BY DEF Due, RoundInPlace
<1>2. CASE Scans
  <2>1. e = Here /\ InTable /\ Here.events # {}
    BY <1>2 DEF Due
  <2>2. round.i \in 0 .. (used - 1)
    BY <2>1 DEF InTable, RoundTyped, IInv, TypeOK
  <2>3. e.fd = index[round.i]
    BY <2>1 DEF Here
  <2>4. kind = "poll" => pollfds[round.i].revents # {}
    BY <2>1 DEF Here
  <2>5. kind = "poll" => e.fd \notin reopened
    BY <2>2, <2>3, <2>4 DEF NothingForTheNew
  <2>6. QED
    BY <1>1, <2>2, <2>3, <2>5, PlaceOf
<1>3. CASE ~Scans
  BY <1>1, <1>3 DEF Due, RoundTyped, Scans, InTable
<1>4. QED
  BY <1>2, <1>3

\* Where the loop goes from a round, and with what.
LEMMA RoundGoesOn ==
    ASSUME NEW at, NEW i, NEW n, NEW got, NEW cur, NEW at2, NEW cur2, NEW r,
           r = [at |-> at, i |-> i, nevents |-> n, got |-> got, cur |-> cur]
    PROVE  [r EXCEPT !.at = at2, !.cur = cur2] =
           [at |-> at2, i |-> i, nevents |-> n, got |-> got, cur |-> cur2]
<1> DEFINE s == [r EXCEPT !.at = at2]
<1>1. s = [at |-> at2, i |-> i, nevents |-> n, got |-> got, cur |-> cur]
  OBVIOUS
<1>2. [r EXCEPT !.at = at2, !.cur = cur2] = [s EXCEPT !.cur = cur2]
  OBVIOUS
<1> HIDE DEF s
<1>3. QED
  BY <1>1, <1>2

\* A round written out, field by field.
LEMMA RoundWritten ==
    ASSUME NEW at, NEW i, NEW n, NEW got, NEW cur, NEW r,
           r = [at |-> at, i |-> i, nevents |-> n, got |-> got, cur |-> cur]
    PROVE  /\ r = [at |-> r.at, i |-> r.i, nevents |-> r.nevents, got |-> r.got, cur |-> r.cur]
           /\ r.at = at /\ r.i = i /\ r.got = got /\ r.cur = cur
  OBVIOUS

\* What Taken leaves of the result and of the round.
LEMMA TakenRound ==
    ASSUME SelectorInv, NEW e
    PROVE  \E n, got :
              /\ Taken(e) = [at |-> round.at, i |-> round.i, nevents |-> n,
                             got |-> got, cur |-> round.cur]
              /\ ~Scans => got = round.got \ {e}
<1> DEFINE r == [at |-> round.at, i |-> round.i, nevents |-> round.nevents,
                 got |-> round.got, cur |-> round.cur]
<1>1. round = r
  BY DEF SelectorInv, RoundTyped
<1>2. [r EXCEPT !.nevents = @ - Counted(e)] =
        [at |-> round.at, i |-> round.i, nevents |-> round.nevents - Counted(e),
         got |-> round.got, cur |-> round.cur]
  OBVIOUS
<1>3. [r EXCEPT !.got = @ \ {e}] =
        [at |-> round.at, i |-> round.i, nevents |-> round.nevents,
         got |-> round.got \ {e}, cur |-> round.cur]
  OBVIOUS
<1>4. Taken(e) = IF Scans THEN [r EXCEPT !.nevents = @ - Counted(e)]
                 ELSE [r EXCEPT !.got = @ \ {e}]
  BY <1>1 DEF Taken
<1> HIDE DEF r
<1>5. QED
  BY <1>2, <1>3, <1>4

\* The loop over the reports passes by what is not to be delivered.
LEMMA LoopStep ==
    ASSUME SelectorInv, LoopSkips \/ LoopIgnores \/ LoopEnds
    PROVE  [Next]_vars /\ SelectorInv'
<1> USE DEF SelectorInv
<1>1. /\ UNCHANGED <<vars, kind, want, news, sets, assoc, asked>>
      /\ round.at = "loop" /\ pos = Idle
  BY DEF LoopSkips, LoopIgnores, LoopEnds, own, RoundInPlace
<1>2. /\ UNCHANGED <<descriptors, index, used, pos>> /\ [Next]_vars
      /\ \A f \in Fd : Watched(f)' <=> Watched(f)
  BY <1>1 DEF vars, Watched
<1>3. ASSUME LoopSkips PROVE SelectorInv'
  <2>1. /\ UNCHANGED <<own, reopened>>
        /\ round' = [round EXCEPT !.i = @ + 1]
    BY <1>3 DEF LoopSkips
  <2>2. round' = [at |-> "loop", i |-> round.i + 1, nevents |-> round.nevents,
                  got |-> round.got, cur |-> round.cur]
    <3>1. round = [at |-> "loop", i |-> round.i, nevents |-> round.nevents,
                   got |-> round.got, cur |-> round.cur]
      BY <1>1 DEF RoundTyped
    <3>2. QED
      BY <2>1, <3>1
  <2>3. /\ AccountsTyped' /\ WantAgrees'
        /\ PollAgrees' /\ SetsAgree' /\ HighestAgrees' /\ NothingForTheNew'
    BY <1>1, <1>2, <2>1, QuietStepKeepsAccounts DEF AccountsTyped
  <2>4. RoundTyped' /\ RoundInPlace' /\ EventsOfItsOwn'
    BY <1>1, <1>2, <2>1, <2>2 DEF RoundTyped, RoundInPlace, EventsOfItsOwn, Scans
  <2>5. PortAgrees'
    BY <1>1, <1>2, <2>2 DEF PortAgrees, Associated
  <2>6. QED
    BY <1>2, <2>3, <2>4, <2>5, SelectorInvFromParts
<1>4. ASSUME LoopIgnores PROVE SelectorInv'
  <2>1. PICK e \in round.got : ~Watched(e.fd) /\ round' = Taken(e)
    BY <1>4 DEF LoopIgnores
  <2>2. UNCHANGED <<own, reopened>> /\ ~Scans
    BY <1>4 DEF LoopIgnores
  <2>3. PICK n, got : /\ round' = [at |-> round.at, i |-> round.i, nevents |-> n,
                                   got |-> got, cur |-> round.cur]
                      /\ got = round.got \ {e}
    BY <2>1, <2>2, TakenRound
  <2>4. /\ AccountsTyped' /\ WantAgrees'
        /\ PollAgrees' /\ SetsAgree' /\ HighestAgrees' /\ NothingForTheNew'
    BY <1>1, <1>2, <2>2, QuietStepKeepsAccounts DEF AccountsTyped
  <2>5. RoundTyped' /\ RoundInPlace' /\ EventsOfItsOwn'
    BY <1>1, <1>2, <2>2, <2>3 DEF RoundTyped, RoundInPlace, EventsOfItsOwn, Scans
  <2>6. PortAgrees'
    BY <1>1, <1>2, <2>1, <2>3 DEF PortAgrees, Associated
  <2>7. QED
    BY <1>2, <2>4, <2>5, <2>6, SelectorInvFromParts
<1>5. ASSUME LoopEnds PROVE SelectorInv'
  <2>1. /\ round' = NoRound("turn") /\ reopened' = {}
        /\ ~Scans => round.got = {}
        /\ pollfds' = [i \in DOMAIN pollfds |-> [pollfds[i] EXCEPT !.revents = {}]]
    BY <1>5 DEF LoopEnds, Turn
  <2>2. ASSUME kind = "poll"
        PROVE  /\ pollfds' \in [Fd -> Pollfd]
               /\ \A i \in Fd : /\ pollfds'[i].fd = pollfds[i].fd
                                /\ pollfds'[i].events = pollfds[i].events
    <3>1. pollfds \in [Fd -> Pollfd]
      BY <2>2 DEF AccountsTyped
    <3>2. \A p \in Pollfd : /\ [p EXCEPT !.revents = {}] \in Pollfd
                            /\ [p EXCEPT !.revents = {}].fd = p.fd
                            /\ [p EXCEPT !.revents = {}].events = p.events
      BY DEF Pollfd
    <3>3. pollfds' = [i \in Fd |-> [pollfds[i] EXCEPT !.revents = {}]]
      BY <2>1, <3>1
    <3>4. QED
      BY <3>1, <3>2, <3>3
  <2>3. AccountsTyped'
    BY <1>1, <2>1, <2>2 DEF AccountsTyped
  <2>4. PollAgrees'
    <3>1. \A i \in 0 .. (used - 1) : i \in Fd
      BY PlaceOf
    <3>2. QED
      BY <1>1, <1>2, <2>2, <3>1 DEF PollAgrees
  <2>5. WantAgrees' /\ SetsAgree' /\ HighestAgrees' /\ NothingForTheNew'
    BY <1>1, <1>2, <2>1 DEF WantAgrees, SetsAgree, HighestAgrees, NothingForTheNew
  <2>6. RoundTyped' /\ RoundInPlace' /\ EventsOfItsOwn'
    BY <1>1, <1>2, <2>1, FdMapAssumption
       DEF RoundTyped, RoundInPlace, EventsOfItsOwn, Scans, NoRound
  <2>7. PortAgrees'
    BY <1>1, <1>2, <2>1 DEF PortAgrees, Associated, Scans
  <2>8. QED
    BY <1>2, <2>3, <2>4, <2>5, <2>6, <2>7, SelectorInvFromParts
<1>6. QED
  BY <1>2, <1>3, <1>4, <1>5

\* A report is delivered, if its descriptor is still watched.
LEMMA DeliverStep ==
    ASSUME SelectorInv, Deliver \/ DeliverError
    PROVE  [Next]_vars /\ SelectorInv'
<1> USE DEF SelectorInv
<1>1. ASSUME Deliver PROVE [Next]_vars /\ SelectorInv'
  <2>1. PICK e \in Candidates :
           /\ Due(e)
           /\ round' = [Taken(e) EXCEPT !.at = "handler", !.cur = e.fd]
           /\ news' = [news EXCEPT ![e.fd] = @ \ e.events]
           /\ UNCHANGED <<vars, kind, want, own, reopened>>
    BY <1>1 DEF Deliver
  <2>2. /\ e.fd \in Fd /\ Watched(e.fd) /\ round.at = "loop" /\ pos = Idle
        /\ kind = "poll" => e.fd \notin reopened
    BY <2>1, DueIsWatched
  <2>3. PICK n, got : /\ round' = [at |-> "handler", i |-> round.i, nevents |-> n,
                                   got |-> got, cur |-> e.fd]
                      /\ ~Scans => got = round.got \ {e}
    <3>1. PICK n, got : /\ Taken(e) = [at |-> round.at, i |-> round.i, nevents |-> n,
                                       got |-> got, cur |-> round.cur]
                        /\ ~Scans => got = round.got \ {e}
      BY TakenRound
    <3>2. round' = [at |-> "handler", i |-> round.i, nevents |-> n,
                    got |-> got, cur |-> e.fd]
      <4> DEFINE t == Taken(e)
      <4>1. t = [at |-> round.at, i |-> round.i, nevents |-> n, got |-> got, cur |-> round.cur]
        BY <3>1
      <4>2. round' = [t EXCEPT !.at = "handler", !.cur = e.fd]
        BY <2>1
      <4> HIDE DEF t
      <4>3. QED
        BY <4>1, <4>2, RoundGoesOn
    <3>3. QED
      BY <3>1, <3>2
  <2>4. /\ UNCHANGED <<descriptors, index, used, pos>> /\ [Next]_vars
        /\ \A f \in Fd : Watched(f)' <=> Watched(f)
    BY <2>1 DEF vars, Watched
  <2>5. news' \in [Fd -> SUBSET Conditions]
    BY <2>1 DEF AccountsTyped
  <2>6. /\ AccountsTyped' /\ WantAgrees'
        /\ PollAgrees' /\ SetsAgree' /\ HighestAgrees' /\ NothingForTheNew'
        /\ assoc' = assoc /\ asked' = asked
    BY <2>1, <2>4, <2>5, QuietStepKeepsAccounts
  <2>7. RoundTyped' /\ RoundInPlace' /\ EventsOfItsOwn'
    <3>1. /\ round' = [at |-> round'.at, i |-> round'.i, nevents |-> round'.nevents,
                       got |-> round'.got, cur |-> round'.cur]
          /\ round'.at = "handler" /\ round'.i = round.i
          /\ round'.got = got /\ round'.cur = e.fd
      BY <2>3
    <3>2. (~Scans)' => \A d \in round'.got : d.fd \in Fd
      BY <2>1, <2>3, <3>1 DEF RoundTyped, Scans
    <3>3. RoundTyped'
      BY <2>2, <3>1, <3>2 DEF RoundTyped
    <3>4. RoundInPlace' /\ EventsOfItsOwn'
      BY <2>1, <2>2, <2>4, <3>1 DEF RoundInPlace, EventsOfItsOwn
    <3>5. QED
      BY <3>3, <3>4
  <2>8. PortAgrees'
    <3>1. SUFFICES ASSUME kind = "port", NEW f \in Fd, Watched(f)
                   PROVE  Associated(f)' /\ asked'[f] # "none"
      BY <2>1, <2>4 DEF PortAgrees
    <3>2. Associated(f) /\ asked'[f] # "none"
      BY <2>6, <3>1 DEF PortAgrees
    <3>3. round'.at = "handler" /\ round'.cur = e.fd /\ round'.got = round.got \ {e}
      BY <2>3, <3>1 DEF Scans
    <3>4. QED
      BY <2>2, <2>6, <3>2, <3>3 DEF Associated
  <2>9. QED
    BY <2>4, <2>6, <2>7, <2>8, SelectorInvFromParts
<1>2. ASSUME DeliverError PROVE [Next]_vars /\ SelectorInv'
  <2>1. PICK e \in Candidates :
           /\ Due(e) /\ e.fd # Listener
           /\ Unlink(e.fd) /\ KernelRemoves(e.fd)
           /\ round' = [Taken(e) EXCEPT !.at = "loop", !.cur = Listener]
           /\ UNCHANGED <<pos, kind, reopened>>
    BY <1>2 DEF DeliverError
  <2>2. e.fd \in Fd /\ Watched(e.fd) /\ round.at = "loop" /\ pos = Idle
    BY <2>1, DueIsWatched
  <2>3. PICK n, got : /\ round' = [at |-> "loop", i |-> round.i, nevents |-> n,
                                   got |-> got, cur |-> Listener]
                      /\ ~Scans => got = round.got \ {e}
    <3>1. PICK n, got : /\ Taken(e) = [at |-> round.at, i |-> round.i, nevents |-> n,
                                       got |-> got, cur |-> round.cur]
                        /\ ~Scans => got = round.got \ {e}
      BY TakenRound
    <3>2. round' = [at |-> "loop", i |-> round.i, nevents |-> n,
                    got |-> got, cur |-> Listener]
      <4> DEFINE t == Taken(e)
      <4>1. t = [at |-> round.at, i |-> round.i, nevents |-> n, got |-> got, cur |-> round.cur]
        BY <3>1
      <4>2. round' = [t EXCEPT !.at = "loop", !.cur = Listener]
        BY <2>1
      <4> HIDE DEF t
      <4>3. QED
        BY <4>1, <4>2, RoundGoesOn
    <3>3. QED
      BY <3>1, <3>2
  <2>4. RoundTyped' /\ RoundInPlace' /\ EventsOfItsOwn'
    <3>1. /\ round' = [at |-> round'.at, i |-> round'.i, nevents |-> round'.nevents,
                       got |-> round'.got, cur |-> round'.cur]
          /\ round'.at = "loop" /\ round'.i = round.i
          /\ round'.got = got /\ round'.cur = Listener
      BY <2>3
    <3>2. (~Scans)' => \A d \in round'.got : d.fd \in Fd
      BY <2>1, <2>3, <3>1 DEF RoundTyped, Scans
    <3>3. RoundTyped'
      BY <3>1, <3>2, FdMapAssumption DEF RoundTyped
    <3>4. RoundInPlace' /\ EventsOfItsOwn'
      BY <2>1, <2>2, <3>1 DEF RoundInPlace, EventsOfItsOwn
    <3>5. QED
      BY <3>3, <3>4
  <2>5. \A f \in Fd : f # e.fd => assoc'[f] = assoc[f]
    BY <2>1, <2>2, RemovalKeepsAccounts
  <2>6. CASE kind = "port"
    <3>1. \A f \in Fd : f # e.fd /\ Watched(f) /\ Associated(f) => Associated(f)'
      BY <2>2, <2>3, <2>5, <2>6 DEF Associated, Scans
    <3>2. QED
      BY <2>1, <2>2, <2>4, <3>1, RemovalStep
  <2>7. CASE kind # "port"
    <3>1. /\ AccountsTyped' /\ WantAgrees'
          /\ PollAgrees' /\ SetsAgree' /\ HighestAgrees' /\ NothingForTheNew'
      BY <2>1, <2>2, RemovalKeepsAccounts
    <3>2. PortAgrees'
      BY <2>1, <2>7 DEF PortAgrees
    <3>3. [Next]_vars
      BY <2>1, <2>2 DEF Next, Remove
    <3>4. QED
      BY <2>4, <3>1, <3>2, <3>3, SelectorInvFromParts
  <2>8. QED
    BY <2>6, <2>7
<1>3. QED
  BY <1>1, <1>2

\* on_event returns: the descriptor stays, or is removed.
LEMMA HandlerStep ==
    ASSUME SelectorInv, HandlerKeeps \/ HandlerDrops
    PROVE  [Next]_vars /\ SelectorInv'
<1> USE DEF SelectorInv
<1>1. /\ round.at = "handler" /\ Watched(round.cur) /\ round.cur \in Fd /\ pos = Idle
      /\ \E i \in Nat :
            round' = [at |-> "loop", i |-> i, nevents |-> round.nevents,
                      got |-> round.got, cur |-> Listener]
  <2> DEFINE r(at, i, cur) == [at |-> at, i |-> i, nevents |-> round.nevents,
                               got |-> round.got, cur |-> cur]
  <2>1. round.at = "handler"
    BY DEF HandlerKeeps, HandlerDrops
  <2>2. round = r("handler", round.i, round.cur) /\ round.i \in Nat
    BY <2>1 DEF RoundTyped
  <2>3. AfterRemoval = r("loop", round.i, Listener)
    <3> DEFINE t == round
    <3>1. t = [at |-> "handler", i |-> round.i, nevents |-> round.nevents,
               got |-> round.got, cur |-> round.cur]
      BY <2>2
    <3>2. AfterRemoval = [t EXCEPT !.at = "loop", !.cur = Listener]
      BY DEF AfterRemoval
    <3> HIDE DEF t
    <3>3. QED
      BY <3>1, <3>2, RoundGoesOn
  <2>4. [AfterRemoval EXCEPT !.i = @ + 1] = r("loop", round.i + 1, Listener)
    BY <2>3
  <2>5. round' = AfterRemoval \/ round' = [AfterRemoval EXCEPT !.i = @ + 1]
    BY DEF HandlerKeeps, HandlerDrops
  <2>6. QED
    BY <2>1, <2>2, <2>3, <2>4, <2>5 DEF RoundInPlace, RoundTyped
<1>2. ASSUME HandlerKeeps PROVE [Next]_vars /\ SelectorInv'
  <2>1. /\ UNCHANGED <<vars, kind, want, news, pollfds, sets, asked, reopened>>
        /\ assoc' = IF kind = "port" THEN [assoc EXCEPT ![round.cur] = asked[round.cur]]
                    ELSE assoc
    BY <1>2 DEF HandlerKeeps
  <2>2. /\ UNCHANGED <<descriptors, index, used, pos>> /\ [Next]_vars
        /\ \A f \in Fd : Watched(f)' <=> Watched(f)
    BY <2>1 DEF vars, Watched
  <2>3. AccountsTyped'
    BY <1>1, <2>1 DEF AccountsTyped, Ways
  <2>4. WantAgrees' /\ PollAgrees' /\ SetsAgree' /\ HighestAgrees' /\ NothingForTheNew'
    BY <2>1, <2>2 DEF WantAgrees, PollAgrees, SetsAgree, HighestAgrees, NothingForTheNew
  <2>5. RoundTyped' /\ RoundInPlace' /\ EventsOfItsOwn'
    BY <1>1, <2>1, <2>2, FdMapAssumption
       DEF RoundTyped, RoundInPlace, EventsOfItsOwn, Scans
  <2>6. PortAgrees'
    BY <1>1, <2>1, <2>2 DEF PortAgrees, Associated, AccountsTyped, Ways
  <2>7. QED
    BY <2>2, <2>3, <2>4, <2>5, <2>6, SelectorInvFromParts
<1>3. ASSUME HandlerDrops PROVE [Next]_vars /\ SelectorInv'
  <2>1. /\ round.cur # Listener /\ Unlink(round.cur) /\ KernelRemoves(round.cur)
        /\ UNCHANGED <<pos, kind, reopened>>
    BY <1>3 DEF HandlerDrops
  <2>2. RoundTyped' /\ RoundInPlace' /\ EventsOfItsOwn'
    BY <1>1, <2>1, FdMapAssumption
       DEF RoundTyped, RoundInPlace, EventsOfItsOwn, Scans
  <2>3. \A f \in Fd : f # round.cur => assoc'[f] = assoc[f]
    BY <1>1, <2>1, RemovalKeepsAccounts
  <2>4. \A f \in Fd : f # round.cur /\ Watched(f) /\ Associated(f) => Associated(f)'
    BY <1>1, <2>3 DEF Associated
  <2>5. QED
    BY <1>1, <2>1, <2>2, <2>4, RemovalStep
<1>4. QED
  BY <1>2, <1>3

(***************************************************************************)
(* Every step keeps the invariant and is one of the table's, or none.      *)
(***************************************************************************)
LEMMA SelectorStep ==
    ASSUME SelectorInv, [SelectorNext]_all
    PROVE  [Next]_vars /\ SelectorInv'
<1>1. CASE UNCHANGED all
  <2>1. UNCHANGED <<vars, kind, want, news, own, round, reopened>>
    BY <1>1 DEF all
  <2>2. UNCHANGED <<descriptors, index, used, pos>>
    BY <2>1 DEF vars
  <2>3. /\ AccountsTyped' /\ WantAgrees'
        /\ PollAgrees' /\ SetsAgree' /\ HighestAgrees' /\ NothingForTheNew'
        /\ \A f \in Fd : Watched(f)' <=> Watched(f)
        /\ assoc' = assoc /\ asked' = asked
    BY <2>1, <2>2, QuietStepKeepsAccounts DEF SelectorInv, AccountsTyped
  <2>4. RoundTyped' /\ RoundInPlace' /\ EventsOfItsOwn' /\ PortAgrees'
    BY <2>1, <2>2, <2>3 DEF SelectorInv, RoundTyped, RoundInPlace, EventsOfItsOwn,
       PortAgrees, Associated, Scans
  <2>5. QED
    BY <2>1, <2>3, <2>4, SelectorInvFromParts
<1>2. CASE SelectorNext
  BY <1>2, AlarmStep, WaitStep, LoopStep, DeliverStep, HandlerStep,
     CallAddStep, CallRemoveStep, CallModifyStep
     DEF SelectorNext, Process, Conditions
<1>3. QED
  BY <1>1, <1>2

\* The selector as it is created, with the listener alone.
LEMMA SelectorBegins == SelectorInit => Init /\ SelectorInv
<1> SUFFICES ASSUME SelectorInit PROVE Init /\ SelectorInv
  OBVIOUS
<1> USE FdMapAssumption, SelectorsAssumption DEF SelectorInit
<1>1. Init /\ IInv
  BY DEF Init, IInv, TypeOK, PlacesAgree, ListenerFirst, SweepInBounds, Watched,
     NotWatched, Idle
<1>2. \A fd \in Fd : Watched(fd) <=> fd = Listener
  BY <1>1 DEF Init, Watched, NotWatched
<1>3. used = 1 /\ index[0] = Listener /\ 0 \in Fd /\ pos = Idle
  BY <1>1 DEF Init, Fd
<1>4. kind = "poll" =>
        /\ pollfds \in [Fd -> Pollfd]
        /\ pollfds[0].fd = Listener /\ pollfds[0].events = {"R"}
  <2>1. Nothing \in Pollfd /\ [Nothing EXCEPT !.events = {"R"}] \in Pollfd
        /\ [Nothing EXCEPT !.events = {"R"}].fd = Listener
        /\ [Nothing EXCEPT !.events = {"R"}].events = {"R"}
    BY DEF Nothing, Pollfd, Conditions, Way
  <2>2. QED
    BY <1>3, <2>1
<1>5. AccountsTyped
  <2>1. want \in Ways /\ assoc \in Ways /\ asked \in Ways
    BY DEF Ways, Way
  <2>2. sets \in [r : SUBSET Fd, w : SUBSET Fd, highest : Int]
    BY DEF EmptySet, Fd
  <2>3. news \in [Fd -> SUBSET Conditions] /\ reopened \subseteq Fd
    OBVIOUS
  <2>4. kind \in {"poll", "select", "kqueue", "port"}
    OBVIOUS
  <2>5. QED
    BY <1>4, <2>1, <2>2, <2>3, <2>4 DEF AccountsTyped
<1>6. RoundTyped /\ RoundInPlace /\ EventsOfItsOwn
  BY <1>3 DEF RoundTyped, RoundInPlace, EventsOfItsOwn, NoRound, Scans
<1>7. WantAgrees /\ PollAgrees /\ NothingForTheNew
  BY <1>2, <1>3, <1>4 DEF WantAgrees, PollAgrees, NothingForTheNew
<1>8. SetsAgree /\ HighestAgrees /\ PortAgrees
  <2>1. \A fd \in Fd : want[fd] = IF fd = Listener THEN "R" ELSE "none"
    OBVIOUS
  <2>2. SetsAgree
    <3>1. CASE kind = "select"
      <4>1. sets.r = {Listener} /\ sets.w = {}
        BY <3>1
      <4>2. QED
        BY <2>1, <4>1 DEF SetsAgree
    <3>2. QED
      BY <3>1 DEF SetsAgree
  <2>3. HighestAgrees
    <3>1. Listener <= Listener
      BY DEF Fd
    <3>2. kind = "select" => sets.highest = Listener
      OBVIOUS
    <3>3. QED
      BY <1>2, <3>1, <3>2 DEF HighestAgrees
  <2>4. PortAgrees
    BY <1>2 DEF PortAgrees, Associated
  <2>5. QED
    BY <2>2, <2>3, <2>4
<1>9. QED
  BY <1>1, <1>5, <1>6, <1>7, <1>8 DEF SelectorInv

----------------------------------------------------------------------------
(***************************************************************************)
(* The inductive invariant of the selectors.  KernelWatchesAll alone would *)
(* not be: a removal keeps the accounts only where the places of the table *)
(* agree, and port's associations come back only if what was asked for is  *)
(* known for all that is watched.                                          *)
(***************************************************************************)
THEOREM SelectorInvariant == SelectorSpec => []SelectorInv
<1>1. SelectorInit => SelectorInv
  BY SelectorBegins
<1>2. SelectorInv /\ [SelectorNext]_all => SelectorInv'
  BY SelectorStep
<1>3. QED
  BY <1>1, <1>2, PTL DEF SelectorSpec

(***************************************************************************)
(* Whatever a selector does, its table does what the table of FdMap does.  *)
(***************************************************************************)
THEOREM SelectorsUseTheTable == SelectorSpec => Spec
<1>1. SelectorInit => Init
  BY SelectorBegins
<1>2. SelectorInv /\ [SelectorNext]_all => [Next]_vars
  BY SelectorStep
<1>3. QED
  BY <1>1, <1>2, SelectorInvariant, PTL DEF SelectorSpec, Spec

(***************************************************************************)
(* So the arrays of the table agree with each other under every selector.  *)
(***************************************************************************)
THEOREM SelectorTableInvariant == SelectorSpec => []IInv
<1>1. QED
  BY SelectorsUseTheTable, TableInvariant, PTL

(***************************************************************************)
(* And an alarm looks at every connection once, whichever is compiled.     *)
(***************************************************************************)
THEOREM SelectorsSweepOnce == SelectorSpec => SweepsEveryConnectionOnce
<1>1. QED
  BY SelectorsUseTheTable, TableImplementsSet, PTL

(***************************************************************************)
(* The kernel is asked about what is watched, for what was asked for last, *)
(* and about nothing else.                                                 *)
(***************************************************************************)
THEOREM SelectorsWatchAll == SelectorSpec => []KernelWatchesAll
<1>1. ASSUME SelectorInv PROVE KernelWatchesAll
  <2> USE <1>1 DEF SelectorInv
  <2>1. Members = {fd \in Fd : want[fd] # "none"}
    BY DEF WantAgrees, Members
  <2>2. \A fd \in Members : fd \in Fd /\ Watched(fd)
    BY DEF Members
  <2>3. QED
    BY <2>1, <2>2 DEF KernelWatchesAll, PollAgrees, SetsAgree, HighestAgrees,
       PortAgrees, Associated
<1>2. QED
  BY <1>1, SelectorInvariant, PTL

(***************************************************************************)
(* With poll no handler is called for an earlier connection's events.      *)
(***************************************************************************)
THEOREM PollDeliversOwnEvents == SelectorSpec => []EventsOfItsOwn
<1>1. SelectorInv => EventsOfItsOwn
  BY DEF SelectorInv
<1>2. QED
  BY <1>1, SelectorInvariant, PTL
=============================================================================
