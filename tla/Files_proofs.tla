---------------------------- MODULE Files_proofs ----------------------------
(***************************************************************************)
(* Proofs about what the server keeps on disk besides its documents.       *)
(*                                                                         *)
(* The cache of temporary files, for every set of connections and          *)
(* descriptors and every limit on the spare files.  The access log, for    *)
(* every maximum size, every buffer and every set of lengths of its lines: *)
(* a file grows above its maximum only by a buffer that would not fit in   *)
(* any, _M_size is the size of the file, and the files, read by their      *)
(* numbers, are a journal of what was logged, whatever fails on the way.   *)
(***************************************************************************)
EXTENDS TmpFiles, AccessLog, FiniteSetTheorems, SequenceTheorems, WellFoundedInduction, TLAPS

(***************************************************************************)
(* What the two tables contain after each of the cache's three changes: an *)
(* element added at the end, the last one taken, one removed from within.  *)
(***************************************************************************)
LEMMA Appended ==
    ASSUME NEW s \in Seq(File), NEW file \in File
    PROVE  /\ Append(s, file) \in Seq(File)
           /\ Len(Append(s, file)) = Len(s) + 1
           /\ \A k \in 1 .. Len(s) : Append(s, file)[k] = s[k]
           /\ Append(s, file)[Len(s) + 1] = file
OBVIOUS

\* One is taken from within, and the last one takes its place.
LEMMA Removed ==
    ASSUME NEW s \in Seq(File), NEW i \in 1 .. Len(s)
    PROVE  /\ WithoutPlace(s, i) \in Seq(File)
           /\ Len(WithoutPlace(s, i)) = Len(s) - 1
           /\ \A k \in 1 .. (Len(s) - 1) :
                 WithoutPlace(s, i)[k] = IF k = i THEN s[Len(s)] ELSE s[k]
<1>1. Len(s) - 1 \in Nat /\ \A k \in 1 .. Len(s) : s[k] \in File
  OBVIOUS
<1>2. WithoutPlace(s, i) \in [1 .. (Len(s) - 1) -> File]
  BY <1>1 DEF WithoutPlace
<1>3. WithoutPlace(s, i) \in Seq(File)
  BY <1>1, <1>2, SeqDef
<1>4. QED
  BY <1>1, <1>2, <1>3 DEF WithoutPlace

\* The last one is taken.
LEMMA LastTaken ==
    ASSUME NEW s \in Seq(File), s # <<>>
    PROVE  LET t == [k \in 1 .. (Len(s) - 1) |-> s[k]]
           IN  /\ t \in Seq(File)
               /\ Len(t) = Len(s) - 1
               /\ \A k \in 1 .. (Len(s) - 1) : t[k] = s[k]
               /\ Len(s) \in Nat /\ Len(s) > 0
               /\ s[Len(s)] \in File
<1> DEFINE t == [k \in 1 .. (Len(s) - 1) |-> s[k]]
<1>1. Len(s) \in Nat /\ Len(s) > 0 /\ \A k \in 1 .. Len(s) : s[k] \in File
  BY EmptySeq
<1>2. t \in [1 .. (Len(s) - 1) -> File]
  BY <1>1
<1>3. t \in Seq(File)
  BY <1>1, <1>2, SeqDef
<1>4. Len(t) = Len(s) - 1
  BY <1>1, <1>2, <1>3
<1>5. QED
  BY <1>1, <1>3, <1>4

(***************************************************************************)
(* Whatever file an opening lends out, the invariant holds afterwards if   *)
(* the file was free: not in use, not spare any more, its name used up.    *)
(***************************************************************************)
LEMMA LendingKeepsInvariant ==
    ASSUME IInv, NEW h \in Holder, NEW file \in File,
           held[h] = None, file.fd \in Fd \ Reserved,
           inUse' = Append(inUse, file),
           held' = [held EXCEPT ![h] = file.fd],
           spare' \in Seq(File), Len(spare') <= Len(spare),
           \A k \in 1 .. Len(spare') : spare'[k] = spare[k],
           \A k \in 1 .. Len(inUse) : inUse[k].fd # file.fd /\ inUse[k].count # file.count,
           \A k \in 1 .. Len(spare') : spare[k].fd # file.fd /\ spare[k].count # file.count,
           next' \in Nat, next <= next', file.count < next',
           disk' \subseteq Nat
    PROVE  IInv'
<1> DEFINE n == Len(inUse)
<1>1. /\ inUse' \in Seq(File)
      /\ Len(inUse') = n + 1
      /\ \A k \in 1 .. n : inUse'[k] = inUse[k]
      /\ inUse'[n + 1] = file
      /\ n \in Nat
  BY Appended DEF IInv, TypeOK
<1>2. /\ Len(spare) \in Nat /\ Len(spare') \in Nat
      /\ \A k \in 1 .. n : inUse[k] \in File
      /\ \A k \in 1 .. Len(spare) : spare[k] \in File
      /\ held \in [Holder -> Fd \cup {None}]
      /\ next \in Nat
  BY DEF IInv, TypeOK
<1> HIDE DEF n
<1>3. TypeOK'
  BY <1>1, <1>2 DEF TypeOK
<1>4. file.fd # None
  BY TmpFilesAssumption
<1>5. held'[h] = file.fd /\ \A g \in Holder \ {h} : held'[g] = held[g]
  BY <1>2
<1>6. NothingLost'
  <2>1. ASSUME NEW g \in Holder, held'[g] # None
        PROVE  \E k \in 1 .. Len(inUse') : inUse'[k].fd = held'[g]
    <3>1. CASE g = h
      BY <1>1, <1>5, <3>1
    <3>2. CASE g # h
      <4>1. PICK k \in 1 .. n : inUse[k].fd = held[g]
        BY <1>5, <2>1, <3>2 DEF IInv, NothingLost, n
      <4>2. QED
        BY <1>1, <1>5, <3>2, <4>1
    <3>3. QED
      BY <3>1, <3>2
  <2>2. ASSUME NEW k \in 1 .. Len(inUse')
        PROVE  \E g \in Holder : held'[g] = inUse'[k].fd
    <3>1. CASE k = n + 1
      BY <1>1, <1>5, <3>1
    <3>2. CASE k # n + 1
      <4>1. k \in 1 .. n
        BY <1>1, <3>2
      <4>2. PICK g \in Holder : held[g] = inUse[k].fd
        BY <4>1 DEF IInv, NothingLost, n
      <4>3. g # h
        BY <1>2, <4>1, <4>2, TmpFilesAssumption DEF IInv, NotReserved, File
      <4>4. QED
        BY <1>1, <1>5, <4>1, <4>2, <4>3
    <3>3. QED
      BY <3>1, <3>2
  <2>3. QED
    BY <2>1, <2>2 DEF NothingLost
<1>7. OneHolder'
  <2>1. ASSUME NEW g \in Holder PROVE held[g] # file.fd
    BY <1>1, <1>4 DEF IInv, NothingLost, n
  <2>2. QED
    BY <1>5, <2>1 DEF IInv, OneHolder
<1>8. NoAliasing'
  <2>1. Distinct(inUse)'
    <3>1. SUFFICES ASSUME NEW j \in 1 .. (n + 1), NEW k \in 1 .. (n + 1),
                          \/ inUse'[j].fd = inUse'[k].fd
                          \/ inUse'[j].count = inUse'[k].count
                   PROVE  j = k
      BY <1>1 DEF Distinct
    <3>2. CASE j \in 1 .. n /\ k \in 1 .. n
      BY <1>1, <3>1, <3>2 DEF IInv, NoAliasing, Distinct, n
    <3>3. CASE j = n + 1 /\ k \in 1 .. n
      BY <1>1, <3>1, <3>3 DEF n
    <3>4. CASE k = n + 1 /\ j \in 1 .. n
      BY <1>1, <3>1, <3>4 DEF n
    <3>5. QED
      BY <1>1, <3>2, <3>3, <3>4
  <2>2. Distinct(spare)'
    BY <1>2 DEF IInv, NoAliasing, Distinct
  <2>3. Apart(inUse, spare)'
    <3>1. SUFFICES ASSUME NEW j \in 1 .. (n + 1), NEW k \in 1 .. Len(spare')
                   PROVE  /\ inUse'[j].fd # spare'[k].fd
                          /\ inUse'[j].count # spare'[k].count
      BY <1>1 DEF Apart
    <3>2. k \in 1 .. Len(spare) /\ spare'[k] = spare[k]
      BY <1>2
    <3>3. CASE j \in 1 .. n
      BY <1>1, <3>2, <3>3 DEF IInv, NoAliasing, Apart, n
    <3>4. CASE j = n + 1
      BY <1>1, <3>2, <3>4
    <3>5. QED
      BY <1>1, <3>3, <3>4
  <2>4. QED
    BY <2>1, <2>2, <2>3 DEF NoAliasing
<1>9. NamesUsedUp'
  <2>1. ASSUME NEW k \in 1 .. (n + 1) PROVE inUse'[k].count < next'
    <3>1. CASE k = n + 1
      BY <1>1, <3>1
    <3>2. CASE k \in 1 .. n
      BY <1>1, <1>2, <3>2 DEF IInv, NamesUsedUp, File, n
    <3>3. QED
      BY <1>1, <3>1, <3>2
  <2>2. ASSUME NEW k \in 1 .. Len(spare') PROVE spare'[k].count < next'
    <3>1. k \in 1 .. Len(spare) /\ spare'[k] = spare[k]
      BY <1>2
    <3>2. spare[k].count < next /\ spare[k].count \in Nat
      BY <1>2, <3>1 DEF IInv, NamesUsedUp, File
    <3>3. QED
      BY <1>2, <3>1, <3>2
  <2>3. QED
    BY <1>1, <2>1, <2>2 DEF NamesUsedUp
<1>10. NotReserved'
  <2>1. ASSUME NEW k \in 1 .. (n + 1) PROVE inUse'[k].fd \notin Reserved
    BY <1>1 DEF IInv, NotReserved, n
  <2>2. ASSUME NEW k \in 1 .. Len(spare') PROVE spare'[k].fd \notin Reserved
    <3>1. k \in 1 .. Len(spare) /\ spare'[k] = spare[k]
      BY <1>2
    <3>2. QED
      BY <3>1 DEF IInv, NotReserved
  <2>3. QED
    BY <1>1, <2>1, <2>2 DEF NotReserved
<1>11. SpareBounded'
  BY <1>2, TmpFilesAssumption DEF IInv, SpareBounded
<1>12. QED
  BY <1>3, <1>6, <1>7, <1>8, <1>9, <1>10, <1>11 DEF IInv

(***************************************************************************)
(* tmpfiles_cache::open, its two ways to find a file.                      *)
(***************************************************************************)
LEMMA OpeningKeepsInvariant ==
    ASSUME IInv, NEW h \in Holder, OpenSpare(h) \/ OpenNew(h)
    PROVE  IInv'
<1>1. /\ Len(inUse) \in Nat /\ Len(spare) \in Nat /\ next \in Nat
      /\ \A k \in 1 .. Len(inUse) : inUse[k] \in File
      /\ \A k \in 1 .. Len(spare) : spare[k] \in File
  BY DEF IInv, TypeOK
<1>2. CASE OpenSpare(h)
  <2> DEFINE n == Len(spare)
             file == spare[n]
  <2>1. /\ spare' \in Seq(File)
        /\ Len(spare') = n - 1
        /\ \A k \in 1 .. (n - 1) : spare'[k] = spare[k]
        /\ n \in Nat /\ n > 0
        /\ file \in File
    BY <1>2, LastTaken DEF OpenSpare, IInv, TypeOK
  <2>2. /\ held[h] = None
        /\ inUse' = Append(inUse, file)
        /\ held' = [held EXCEPT ![h] = file.fd]
        /\ UNCHANGED <<next, disk>>
    BY <1>2 DEF OpenSpare
  <2>3. file.fd \in Fd \ Reserved /\ file.count < next
    BY <2>1 DEF IInv, NotReserved, NamesUsedUp, File
  <2>4. \A k \in 1 .. Len(inUse) :
           inUse[k].fd # file.fd /\ inUse[k].count # file.count
    BY <2>1 DEF IInv, NoAliasing, Apart
  <2>5. ASSUME NEW k \in 1 .. Len(spare')
        PROVE  spare[k].fd # file.fd /\ spare[k].count # file.count
    <3>1. k \in 1 .. n /\ n \in 1 .. n /\ k # n
      BY <2>1
    <3>2. QED
      BY <3>1 DEF IInv, NoAliasing, Distinct
  <2>6. disk' \subseteq Nat /\ next' \in Nat /\ next <= next' /\ file.count < next'
    BY <1>1, <2>2, <2>3 DEF IInv, TypeOK
  <2>7. Len(spare') <= Len(spare) /\ \A k \in 1 .. Len(spare') : spare'[k] = spare[k]
    BY <2>1
  <2> HIDE DEF n, file
  <2>8. QED
    BY <2>1, <2>2, <2>3, <2>4, <2>5, <2>6, <2>7, LendingKeepsInvariant
<1>3. CASE OpenNew(h)
  <2>1. PICK new \in Fd \ (Reserved \cup Fds(inUse)) :
           /\ inUse' = Append(inUse, [count |-> next, fd |-> new])
           /\ held' = [held EXCEPT ![h] = new]
    BY <1>3 DEF OpenNew
  <2> DEFINE file == [count |-> next, fd |-> new]
  <2>2. /\ held[h] = None
        /\ spare = <<>>
        /\ disk' = disk \cup {next}
        /\ next' = next + 1
        /\ spare' = spare
    BY <1>3 DEF OpenNew
  <2>3. file \in File /\ file.fd \in Fd \ Reserved /\ file.fd = new /\ file.count = next
    BY <1>1 DEF File
  <2>4. ASSUME NEW k \in 1 .. Len(inUse)
        PROVE  inUse[k].fd # file.fd /\ inUse[k].count # file.count
    <3>1. inUse[k].count < next /\ inUse[k].count \in Nat
      BY <1>1 DEF IInv, NamesUsedUp, File
    <3>2. inUse[k].fd # new
      BY DEF Fds, IInv, TypeOK
    <3>3. QED
      BY <1>1, <2>3, <3>1, <3>2
  <2>5. Len(spare') = 0
    BY <2>2
  <2>6. disk' \subseteq Nat /\ next' \in Nat /\ next <= next' /\ next < next'
    BY <1>1, <2>2 DEF IInv, TypeOK
  <2>7. inUse' = Append(inUse, file) /\ held' = [held EXCEPT ![h] = file.fd]
    BY <2>1
  <2>8. spare' \in Seq(File) /\ Len(spare') <= Len(spare)
    BY <2>2, <1>1 DEF IInv, TypeOK
  <2>9. /\ \A k \in 1 .. Len(spare') : spare'[k] = spare[k]
        /\ \A k \in 1 .. Len(spare') : spare[k].fd # file.fd /\ spare[k].count # file.count
    BY <2>5
  <2> HIDE DEF file
  <2>10. QED
    BY <2>2, <2>3, <2>4, <2>6, <2>7, <2>8, <2>9, LendingKeepsInvariant
<1>4. QED
  BY <1>2, <1>3

(***************************************************************************)
(* tmpfiles_cache::close: the file leaves the table of those in use, whose *)
(* last element takes its place, and is spare or gone.                     *)
(***************************************************************************)
LEMMA ClosingKeepsInvariant ==
    ASSUME IInv, NEW h \in Holder, Close(h)
    PROVE  IInv'
<1> DEFINE n == Len(inUse)
           m == Len(spare)
<1>1. PICK i \in 1 .. n : /\ inUse[i].fd = held[h]
                          /\ inUse' = WithoutPlace(inUse, i)
                          /\ Retire(inUse[i])
  BY DEF Close
<1>2. /\ n \in Nat /\ m \in Nat /\ next \in Nat
      /\ \A k \in 1 .. n : inUse[k] \in File
      /\ \A k \in 1 .. m : spare[k] \in File
      /\ held \in [Holder -> Fd \cup {None}]
      /\ inUse \in Seq(File) /\ spare \in Seq(File)
      /\ disk \subseteq Nat
  BY DEF IInv, TypeOK
<1>3. /\ held[h] # None
      /\ held'[h] = None
      /\ \A g \in Holder \ {h} : held'[g] = held[g]
      /\ next' = next
      /\ held' \in [Holder -> Fd \cup {None}]
  BY <1>2 DEF Close
<1>4. /\ inUse' \in Seq(File)
      /\ Len(inUse') = n - 1
      /\ \A k \in 1 .. (n - 1) : inUse'[k] = IF k = i THEN inUse[n] ELSE inUse[k]
  BY <1>1, <1>2, Removed
<1>5. \/ /\ spare' = spare
         /\ disk' = disk \ {inUse[i].count}
      \/ /\ m # MaxSpare
         /\ spare' = Append(spare, inUse[i])
         /\ disk' = disk
  BY <1>1 DEF Retire
<1>6. /\ spare' \in Seq(File)
      /\ \/ Len(spare') = m
         \/ Len(spare') = m + 1 /\ m # MaxSpare /\ spare'[m + 1] = inUse[i]
      /\ \A k \in 1 .. m : spare'[k] = spare[k]
  <2>1. CASE spare' = spare
    BY <1>2, <2>1
  <2>2. CASE m # MaxSpare /\ spare' = Append(spare, inUse[i])
    <3>1. inUse[i] \in File
      BY <1>2
    <3>2. /\ Append(spare, inUse[i]) \in Seq(File)
          /\ Len(Append(spare, inUse[i])) = m + 1
          /\ \A k \in 1 .. m : Append(spare, inUse[i])[k] = spare[k]
          /\ Append(spare, inUse[i])[m + 1] = inUse[i]
      BY <1>2, <3>1, Appended
    <3>3. QED
      BY <2>2, <3>2
  <2>3. QED
    BY <1>5, <2>1, <2>2
<1> HIDE DEF n, m
<1>7. \A k \in 1 .. Len(inUse') : \E j \in 1 .. n : j # i /\ inUse'[k] = inUse[j]
  <2>1. SUFFICES ASSUME NEW k \in 1 .. (n - 1)
                 PROVE  \E j \in 1 .. n : j # i /\ inUse'[k] = inUse[j]
    BY <1>4
  <2>2. CASE k = i
    <3>1. n \in 1 .. n /\ n # i
      BY <1>2, <2>2
    <3>2. inUse'[k] = inUse[n]
      BY <1>4, <2>2
    <3>3. QED
      BY <3>1, <3>2
  <2>3. CASE k # i
    <3>1. k \in 1 .. n
      BY <1>2
    <3>2. QED
      BY <1>4, <2>3, <3>1
  <2>4. QED
    BY <2>2, <2>3
<1>8. ASSUME NEW j \in 1 .. n, j # i
      PROVE  \E k \in 1 .. Len(inUse') : inUse'[k] = inUse[j]
  <2>1. CASE j = n
    <3>1. i \in 1 .. (n - 1)
      BY <1>2, <1>8, <2>1
    <3>2. QED
      BY <1>4, <2>1, <3>1
  <2>2. CASE j # n
    <3>1. j \in 1 .. (n - 1)
      BY <1>2, <2>2
    <3>2. QED
      BY <1>4, <1>8, <3>1
  <2>3. QED
    BY <2>1, <2>2
<1>9. TypeOK'
  BY <1>2, <1>3, <1>4, <1>5, <1>6 DEF TypeOK
<1>10. NothingLost'
  <2>1. ASSUME NEW g \in Holder, held'[g] # None
        PROVE  \E k \in 1 .. Len(inUse') : inUse'[k].fd = held'[g]
    <3>1. g # h /\ held'[g] = held[g]
      BY <1>3, <2>1
    <3>2. PICK j \in 1 .. n : inUse[j].fd = held[g]
      BY <2>1, <3>1 DEF IInv, NothingLost, n
    <3>3. j # i
      BY <1>1, <1>3, <3>1, <3>2 DEF IInv, OneHolder
    <3>4. QED
      BY <1>8, <3>1, <3>2, <3>3
  <2>2. ASSUME NEW k \in 1 .. Len(inUse')
        PROVE  \E g \in Holder : held'[g] = inUse'[k].fd
    <3>1. PICK j \in 1 .. n : j # i /\ inUse'[k] = inUse[j]
      BY <1>7
    <3>2. PICK g \in Holder : held[g] = inUse[j].fd
      BY DEF IInv, NothingLost, n
    <3>3. g # h
      BY <1>1, <3>1, <3>2 DEF IInv, NoAliasing, Distinct, n
    <3>4. QED
      BY <1>3, <3>1, <3>2, <3>3
  <2>3. QED
    BY <2>1, <2>2 DEF NothingLost
<1>11. OneHolder'
  BY <1>3 DEF IInv, OneHolder
<1>12. NoAliasing'
  <2>1. Distinct(inUse)'
    <3>1. SUFFICES ASSUME NEW j \in 1 .. (n - 1), NEW k \in 1 .. (n - 1),
                          \/ inUse'[j].fd = inUse'[k].fd
                          \/ inUse'[j].count = inUse'[k].count
                   PROVE  j = k
      BY <1>4 DEF Distinct
    <3> DEFINE a == IF j = i THEN n ELSE j
               b == IF k = i THEN n ELSE k
    <3>2. a \in 1 .. n /\ b \in 1 .. n /\ inUse'[j] = inUse[a] /\ inUse'[k] = inUse[b]
      BY <1>2, <1>4
    <3>3. a = b
      BY <3>1, <3>2 DEF IInv, NoAliasing, Distinct, n
    <3>4. QED
      BY <1>2, <3>3
  <2>2. Distinct(spare)'
    <3>1. SUFFICES ASSUME NEW j \in 1 .. Len(spare'), NEW k \in 1 .. Len(spare'),
                          \/ spare'[j].fd = spare'[k].fd
                          \/ spare'[j].count = spare'[k].count
                   PROVE  j = k
      BY DEF Distinct
    <3>2. ASSUME NEW p \in 1 .. m
          PROVE  spare[p].fd # inUse[i].fd /\ spare[p].count # inUse[i].count
      BY DEF IInv, NoAliasing, Apart, n, m
    <3>3. CASE j \in 1 .. m /\ k \in 1 .. m
      BY <1>6, <3>1, <3>3 DEF IInv, NoAliasing, Distinct, m
    <3>4. CASE j \notin 1 .. m \/ k \notin 1 .. m
      <4>1. Len(spare') = m + 1 /\ spare'[m + 1] = inUse[i]
        BY <1>2, <1>6, <3>4
      <4>2. CASE j = m + 1 /\ k \in 1 .. m
        BY <1>6, <3>1, <3>2, <4>1, <4>2
      <4>3. CASE k = m + 1 /\ j \in 1 .. m
        BY <1>6, <3>1, <3>2, <4>1, <4>3
      <4>4. QED
        BY <1>2, <3>4, <4>1, <4>2, <4>3
    <3>5. QED
      BY <3>3, <3>4
  <2>3. Apart(inUse, spare)'
    <3>1. SUFFICES ASSUME NEW p \in 1 .. Len(inUse'), NEW k \in 1 .. Len(spare')
                   PROVE  /\ inUse'[p].fd # spare'[k].fd
                          /\ inUse'[p].count # spare'[k].count
      BY DEF Apart
    <3>2. PICK j \in 1 .. n : j # i /\ inUse'[p] = inUse[j]
      BY <1>7
    <3>3. CASE k \in 1 .. m
      BY <1>6, <3>2, <3>3 DEF IInv, NoAliasing, Apart, n, m
    <3>4. CASE k \notin 1 .. m
      <4>1. spare'[k] = inUse[i]
        BY <1>2, <1>6, <3>4
      <4>2. QED
        BY <3>2, <4>1 DEF IInv, NoAliasing, Distinct, n
    <3>5. QED
      BY <3>3, <3>4
  <2>4. QED
    BY <2>1, <2>2, <2>3 DEF NoAliasing
<1>13. ASSUME NEW k \in 1 .. Len(spare')
       PROVE  spare'[k].count < next /\ spare'[k].fd \notin Reserved
  <2>1. CASE k \in 1 .. m
    BY <1>6, <2>1 DEF IInv, NamesUsedUp, NotReserved, m
  <2>2. CASE k \notin 1 .. m
    <3>1. spare'[k] = inUse[i]
      BY <1>2, <1>6, <2>2
    <3>2. QED
      BY <3>1 DEF IInv, NamesUsedUp, NotReserved, n
  <2>3. QED
    BY <2>1, <2>2
<1>14. NamesUsedUp' /\ NotReserved'
  BY <1>3, <1>7, <1>13 DEF IInv, NamesUsedUp, NotReserved, n
<1>15. SpareBounded'
  BY <1>2, <1>6, TmpFilesAssumption DEF IInv, SpareBounded, m
<1>16. QED
  BY <1>9, <1>10, <1>11, <1>12, <1>14, <1>15 DEF IInv

(***************************************************************************)
(* RESPONSE_COMPLETED_STATE: the file changes hands, the cache is as it    *)
(* was.                                                                    *)
(***************************************************************************)
LEMMA PassingKeepsInvariant ==
    ASSUME IInv, NEW g \in Holder, NEW h \in Holder, PassOn(g, h)
    PROVE  IInv'
<1>1. /\ held[g] # None /\ held[h] = None
      /\ held' = [held EXCEPT ![h] = held[g], ![g] = None]
      /\ inUse' = inUse /\ spare' = spare /\ next' = next /\ disk' = disk
      /\ held \in [Holder -> Fd \cup {None}]
  BY DEF PassOn, IInv, TypeOK
<1>2. g # h
  BY <1>1
<1>3. /\ held'[h] = held[g]
      /\ held'[g] = None
      /\ \A f \in Holder \ {g, h} : held'[f] = held[f]
      /\ held' \in [Holder -> Fd \cup {None}]
  BY <1>1, <1>2
<1>4. TypeOK'
  BY <1>1, <1>3 DEF IInv, TypeOK
<1>5. NothingLost'
  <2>1. ASSUME NEW f \in Holder, held'[f] # None
        PROVE  \E k \in 1 .. Len(inUse) : inUse[k].fd = held'[f]
    <3>1. \E e \in Holder : held[e] = held'[f]
      BY <1>3, <2>1
    <3>2. QED
      BY <2>1, <3>1 DEF IInv, NothingLost
  <2>2. ASSUME NEW k \in 1 .. Len(inUse)
        PROVE  \E f \in Holder : held'[f] = inUse[k].fd
    <3>1. PICK f \in Holder : held[f] = inUse[k].fd
      BY DEF IInv, NothingLost
    <3>2. f # h
      <4>1. inUse[k] \in File
        BY DEF IInv, TypeOK
      <4>2. inUse[k].fd \in Fd
        BY <4>1 DEF File
      <4>3. QED
        BY <1>1, <3>1, <4>2, TmpFilesAssumption
    <3>3. CASE f = g
      BY <1>3, <3>1, <3>3
    <3>4. CASE f # g
      BY <1>3, <3>1, <3>2, <3>4
    <3>5. QED
      BY <3>3, <3>4
  <2>3. QED
    BY <1>1, <2>1, <2>2 DEF NothingLost
<1>6. OneHolder'
  BY <1>1, <1>2, <1>3 DEF IInv, OneHolder
<1>7. NoAliasing' /\ NamesUsedUp' /\ NotReserved' /\ SpareBounded'
  BY <1>1 DEF IInv, NoAliasing, Distinct, Apart, NamesUsedUp, NotReserved, SpareBounded
<1>8. QED
  BY <1>4, <1>5, <1>6, <1>7 DEF IInv

----------------------------------------------------------------------------

(***************************************************************************)
(* The bookkeeping of the cache is right at every moment: the descriptors  *)
(* lent are the ones in its table, none is lent or kept twice, no name     *)
(* is given out while its file is still known.                             *)
(***************************************************************************)
THEOREM CacheInvariant == Spec => []IInv
<1>1. Init => IInv
  <2> SUFFICES ASSUME Init PROVE IInv
    OBVIOUS
  <2>1. Len(inUse) = 0 /\ Len(spare) = 0 /\ inUse = <<>> /\ spare = <<>>
    BY DEF Init
  <2>2. TypeOK
    BY DEF Init, TypeOK
  <2>3. QED
    BY <2>1, <2>2, TmpFilesAssumption
       DEF Init, IInv, NothingLost, OneHolder, NoAliasing, Distinct, Apart,
           NamesUsedUp, NotReserved, SpareBounded
<1>2. IInv /\ [Next]_vars => IInv'
  <2> SUFFICES ASSUME IInv, [Next]_vars PROVE IInv'
    OBVIOUS
  <2>1. ASSUME NEW h \in Holder, OpenSpare(h) \/ OpenNew(h) PROVE IInv'
    BY <2>1, OpeningKeepsInvariant
  <2>2. ASSUME NEW h \in Holder, OpenFails(h) PROVE IInv'
    <3>1. /\ next' = next + 1 /\ next \in Nat
          /\ UNCHANGED <<inUse, spare, disk, held>>
          /\ \A k \in 1 .. Len(inUse) : inUse[k].count \in Nat
          /\ \A k \in 1 .. Len(spare) : spare[k].count \in Nat
      <4>1. /\ \A k \in 1 .. Len(inUse) : inUse[k] \in File
            /\ \A k \in 1 .. Len(spare) : spare[k] \in File
            /\ next \in Nat
        BY DEF IInv, TypeOK
      <4>2. QED
        BY <2>2, <4>1 DEF OpenFails, File
    <3>2. TypeOK'
      BY <3>1 DEF IInv, TypeOK
    <3>3. NamesUsedUp'
      BY <3>1 DEF IInv, NamesUsedUp
    <3>4. QED
      BY <3>1, <3>2, <3>3
         DEF IInv, NothingLost, OneHolder, NoAliasing, Distinct, Apart,
             NotReserved, SpareBounded
  <2>3. ASSUME NEW h \in Holder, Close(h) PROVE IInv'
    BY <2>3, ClosingKeepsInvariant
  <2>4. ASSUME NEW h \in Holder, NEW g \in Holder, PassOn(g, h) PROVE IInv'
    BY <2>4, PassingKeepsInvariant
  <2>5. CASE UNCHANGED vars
    BY <2>5 DEF vars, IInv, TypeOK, NothingLost, OneHolder, NoAliasing, Distinct,
                Apart, NamesUsedUp, NotReserved, SpareBounded
  <2>6. QED
    BY <2>1, <2>2, <2>3, <2>4, <2>5 DEF Next
<1>3. QED
  BY <1>1, <1>2, PTL DEF Spec

(***************************************************************************)
(* tmpfiles_cache::close always finds what a connection gives back.        *)
(***************************************************************************)
THEOREM NoFileLost == Spec => []NothingLost
<1>1. IInv => NothingLost
  BY DEF IInv
<1>2. QED
  BY <1>1, CacheInvariant, PTL

(***************************************************************************)
(* No two files of the cache share a descriptor or a name.                 *)
(***************************************************************************)
THEOREM FilesApart == Spec => []NoAliasing
<1>1. IInv => NoAliasing
  BY DEF IInv
<1>2. QED
  BY <1>1, CacheInvariant, PTL

(***************************************************************************)
(* An opening finds room in _M_in_use and a closing in _M_spare_files: the *)
(* descriptors in use are distinct, and the listener has one too.          *)
(***************************************************************************)
LEMMA InUseFits == IInv => TablesFit
<1> SUFFICES ASSUME IInv PROVE TablesFit
  OBVIOUS
<1> DEFINE n == Len(inUse)
           room == Fd \ Reserved
           f == [k \in 1 .. n |-> inUse[k].fd]
<1>1. n \in Nat /\ \A k \in 1 .. n : inUse[k].fd \in room
  <2>1. n \in Nat /\ \A k \in 1 .. n : inUse[k] \in File
    BY DEF IInv, TypeOK
  <2>2. \A k \in 1 .. n : inUse[k].fd \notin Reserved
    BY DEF IInv, NotReserved
  <2>3. QED
    BY <2>1, <2>2 DEF File
<1>2. f \in Injection(1 .. n, room)
  <2>1. f \in [1 .. n -> room]
    BY <1>1
  <2>2. \A j, k \in 1 .. n : f[j] = f[k] => j = k
    BY DEF IInv, NoAliasing, Distinct
  <2>3. QED
    BY <2>1, <2>2 DEF Injection, IsInjective
<1>3. PICK r \in Reserved : r \in Fd
  BY TmpFilesAssumption
<1>4. IsFiniteSet(room) /\ IsFiniteSet(Fd \ {r})
  BY FS_Subset, TmpFilesAssumption
<1>5. Cardinality(1 .. n) <= Cardinality(room)
  BY <1>2, <1>4, FS_Injection
<1>6. Cardinality(1 .. n) = n
  <2> HIDE DEF n
  <2>1. n \in Int /\ 1 \in Int /\ (IF 1 > n THEN 0 ELSE n - 1 + 1) = n
    BY <1>1
  <2>2. Cardinality(1 .. n) = IF 1 > n THEN 0 ELSE n - 1 + 1
    BY <2>1, FS_Interval
  <2>3. QED
    BY <2>1, <2>2
<1>7. Cardinality(room) <= Cardinality(Fd \ {r})
  BY <1>3, <1>4, FS_Subset
<1>8. Cardinality(Fd \ {r}) = Cardinality(Fd) - 1
  BY <1>3, FS_RemoveElement, TmpFilesAssumption
<1>9. /\ Cardinality(Fd) \in Nat /\ Cardinality(room) \in Nat
      /\ Cardinality(Fd \ {r}) \in Nat
  BY <1>4, FS_CardinalityType, TmpFilesAssumption
<1> HIDE DEF room, n, f
<1>10. n < Cardinality(Fd)
  BY <1>1, <1>5, <1>6, <1>7, <1>8, <1>9
<1>11. QED
  BY <1>10 DEF TablesFit, MaxOpenFiles, n, IInv, SpareBounded

(***************************************************************************)
(* Neither of the cache's tables is ever written beyond its end.           *)
(***************************************************************************)
THEOREM CacheFits == Spec => []TablesFit
  BY CacheInvariant, InUseFits, PTL

----------------------------------------------------------------------------
(***************************************************************************)
(* Every step of the cache is one of the abstract pool: an opening lends a *)
(* file nobody has, a closing takes it back, RESPONSE_COMPLETED_STATE      *)
(* passes it on.                                                           *)
(***************************************************************************)
LEMMA LentIsInUse ==
    ASSUME IInv, NEW new \in Fd, \A k \in 1 .. Len(inUse) : inUse[k].fd # new
    PROVE  Abs!Free(new)
  BY TmpFilesAssumption DEF IInv, NothingLost, Abs!Free

\* Every step is one of the pool or none.
LEMMA CacheStepIsPoolStep == IInv /\ [Next]_vars => [Abs!Next]_held
<1> SUFFICES ASSUME IInv, [Next]_vars PROVE [Abs!Next]_held
  OBVIOUS
<1>1. ASSUME NEW h \in Holder, OpenSpare(h) PROVE Abs!Next
  <2> DEFINE file == spare[Len(spare)]
  <2>1. /\ file \in File
        /\ Len(spare) \in 1 .. Len(spare)
    BY <1>1, LastTaken DEF OpenSpare, IInv, TypeOK
  <2>2. file.fd \in Fd
    BY <2>1 DEF File
  <2>3. \A k \in 1 .. Len(inUse) : inUse[k].fd # file.fd
    BY <2>1 DEF IInv, NoAliasing, Apart
  <2>4. Abs!Free(file.fd)
    BY <2>2, <2>3, LentIsInUse
  <2>5. Abs!Lend(h, file.fd)
    BY <1>1, <2>4 DEF OpenSpare, Abs!Lend
  <2>6. QED
    BY <2>2, <2>5 DEF Abs!Next
<1>2. ASSUME NEW h \in Holder, OpenNew(h) PROVE Abs!Next
  <2>1. PICK new \in Fd \ (Reserved \cup Fds(inUse)) :
           held' = [held EXCEPT ![h] = new]
    BY <1>2 DEF OpenNew
  <2>2. \A k \in 1 .. Len(inUse) : inUse[k].fd # new
    BY DEF Fds, IInv, TypeOK
  <2>3. Abs!Lend(h, new)
    BY <1>2, <2>1, <2>2, LentIsInUse DEF OpenNew, Abs!Lend
  <2>4. QED
    BY <2>3 DEF Abs!Next
<1>3. ASSUME NEW h \in Holder, OpenFails(h) PROVE UNCHANGED held
  BY <1>3 DEF OpenFails
<1>4. ASSUME NEW h \in Holder, Close(h) PROVE Abs!Next
  <2>1. Abs!Return(h)
    BY <1>4 DEF Close, Abs!Return
  <2>2. QED
    BY <2>1 DEF Abs!Next
<1>5. ASSUME NEW h \in Holder, NEW g \in Holder, PassOn(g, h) PROVE Abs!Next
  <2>1. Abs!Pass(g, h)
    BY <1>5 DEF PassOn, Abs!Pass
  <2>2. QED
    BY <2>1 DEF Abs!Next
<1>6. CASE UNCHANGED vars
  BY <1>6 DEF vars
<1>7. QED
  BY <1>1, <1>2, <1>3, <1>4, <1>5, <1>6 DEF Next

(***************************************************************************)
(* The cache lends each file to one connection at a time: it implements    *)
(* the abstract pool.                                                      *)
(***************************************************************************)
THEOREM CacheImplementsPool == Spec => LendsToOneAtATime
<1>1. Init => Abs!Init
  BY DEF Init, Abs!Init
<1>2. QED
  BY <1>1, CacheStepIsPoolStep, CacheInvariant, PTL
     DEF Spec, LendsToOneAtATime, Abs!Spec

(***************************************************************************)
(* A closing removes from the directory exactly what it makes the cache    *)
(* forget, and an opening adds to it exactly what it makes it know.        *)
(***************************************************************************)
LEMMA KnownAfterClosing ==
    ASSUME IInv, NEW h \in Holder, Close(h), DirectoryClean
    PROVE  DirectoryClean'
<1> DEFINE n == Len(inUse)
           m == Len(spare)
<1>1. PICK i \in 1 .. n : /\ inUse' = WithoutPlace(inUse, i)
                          /\ Retire(inUse[i])
  BY DEF Close
<1>2. /\ n \in Nat /\ m \in Nat
      /\ inUse \in Seq(File) /\ spare \in Seq(File)
      /\ \A k \in 1 .. n : inUse[k] \in File
  BY DEF IInv, TypeOK
<1>3. /\ inUse' \in Seq(File)
      /\ Len(inUse') = n - 1
      /\ \A k \in 1 .. (n - 1) : inUse'[k] = IF k = i THEN inUse[n] ELSE inUse[k]
  BY <1>1, <1>2, Removed
<1>4. \A j, k \in 1 .. n : inUse[j].count = inUse[k].count => j = k
  BY DEF IInv, NoAliasing, Distinct
<1>5. \A j \in 1 .. n, k \in 1 .. m : inUse[j].count # spare[k].count
  BY DEF IInv, NoAliasing, Apart
<1>6. /\ Names(inUse) = {inUse[k].count : k \in 1 .. n}
      /\ Names(inUse') = {inUse'[k].count : k \in 1 .. (n - 1)}
      /\ Names(spare) = {spare[k].count : k \in 1 .. m}
  BY <1>2, <1>3 DEF Names
<1> HIDE DEF n, m
<1>7. Names(inUse') = Names(inUse) \ {inUse[i].count}
  <2>1. ASSUME NEW k \in 1 .. (n - 1)
        PROVE  inUse'[k].count \in Names(inUse) \ {inUse[i].count}
    <3> DEFINE a == IF k = i THEN n ELSE k
    <3>1. a \in 1 .. n /\ a # i /\ inUse'[k] = inUse[a]
      BY <1>2, <1>3
    <3>2. QED
      BY <1>4, <1>6, <3>1
  <2>2. ASSUME NEW j \in 1 .. n, j # i
        PROVE  \E k \in 1 .. (n - 1) : inUse'[k].count = inUse[j].count
    <3> DEFINE a == IF j = n THEN i ELSE j
    <3>1. a \in 1 .. (n - 1) /\ inUse'[a] = inUse[j]
      BY <1>2, <1>3, <2>2
    <3>2. QED
      BY <3>1
  <2>3. QED
    BY <1>6, <2>1, <2>2
<1>8. CASE disk' = disk \ {inUse[i].count} /\ spare' = spare
  BY <1>5, <1>6, <1>7, <1>8 DEF DirectoryClean
<1>9. CASE disk' = disk /\ spare' = Append(spare, inUse[i])
  <2>1. /\ Len(spare') = m + 1 /\ spare' \in Seq(File)
        /\ \A k \in 1 .. m : spare'[k] = spare[k]
        /\ spare'[m + 1] = inUse[i]
    <3>1. inUse[i] \in File
      BY <1>2
    <3>2. QED
      BY <1>2, <1>9, <3>1, Appended DEF m
  <2>2. Names(spare') = {spare'[k].count : k \in 1 .. (m + 1)}
    BY <2>1 DEF Names
  <2>3. Names(spare') = Names(spare) \cup {inUse[i].count}
    <3>1. ASSUME NEW k \in 1 .. (m + 1)
          PROVE  spare'[k].count \in Names(spare) \cup {inUse[i].count}
      <4>1. CASE k \in 1 .. m
        BY <1>6, <2>1, <4>1
      <4>2. CASE k = m + 1
        BY <2>1, <4>2
      <4>3. QED
        BY <1>2, <4>1, <4>2
    <3>2. ASSUME NEW k \in 1 .. m PROVE spare[k].count \in Names(spare')
      <4>1. k \in 1 .. (m + 1) /\ spare'[k] = spare[k]
        BY <1>2, <2>1
      <4>2. QED
        BY <2>2, <4>1
    <3>3. inUse[i].count \in Names(spare')
      BY <1>2, <2>1, <2>2
    <3>4. QED
      BY <1>6, <2>2, <3>1, <3>2, <3>3
  <2>4. inUse[i].count \in Names(inUse)
    BY <1>6
  <2>5. QED
    BY <1>7, <1>9, <2>3, <2>4 DEF DirectoryClean
<1>10. QED
  BY <1>1, <1>8, <1>9 DEF Retire

\* What an opening adds to the files in use it adds to those known.
LEMMA KnownAfterLending ==
    ASSUME IInv, NEW h \in Holder, OpenSpare(h) \/ OpenNew(h), DirectoryClean
    PROVE  DirectoryClean'
<1> DEFINE n == Len(inUse)
           m == Len(spare)
<1>1. /\ n \in Nat /\ m \in Nat /\ next \in Nat
      /\ inUse \in Seq(File) /\ spare \in Seq(File)
  BY DEF IInv, TypeOK
<1>2. ASSUME NEW file \in File, inUse' = Append(inUse, file)
      PROVE  Names(inUse') = Names(inUse) \cup {file.count}
  <2>1. /\ Len(inUse') = n + 1 /\ inUse' \in Seq(File)
        /\ \A k \in 1 .. n : inUse'[k] = inUse[k]
        /\ inUse'[n + 1] = file
    BY <1>1, <1>2, Appended
  <2>2. /\ Names(inUse') = {inUse'[k].count : k \in 1 .. (n + 1)}
        /\ Names(inUse) = {inUse[k].count : k \in 1 .. n}
    <3>1. ASSUME NEW s \in Seq(File)
          PROVE  Names(s) = {s[k].count : k \in 1 .. Len(s)}
      BY DEF Names
    <3>2. Names(inUse') = {inUse'[k].count : k \in 1 .. Len(inUse')}
      BY <2>1, <3>1
    <3>3. QED
      BY <1>1, <2>1, <3>1, <3>2
  <2> HIDE DEF n
  <2>3. QED
    BY <1>1, <2>1, <2>2
<1>3. CASE OpenSpare(h)
  <2>1. /\ spare' \in Seq(File)
        /\ Len(spare') = m - 1
        /\ \A k \in 1 .. (m - 1) : spare'[k] = spare[k]
        /\ m > 0
        /\ spare[m] \in File
    BY <1>1, <1>3, LastTaken DEF OpenSpare
  <2>2. inUse' = Append(inUse, spare[m]) /\ disk' = disk
    BY <1>3 DEF OpenSpare
  <2>3. Names(inUse') = Names(inUse) \cup {spare[m].count}
    BY <1>2, <2>1, <2>2
  <2>4. /\ Names(spare) = {spare[k].count : k \in 1 .. m}
        /\ Names(spare') = {spare'[k].count : k \in 1 .. (m - 1)}
    BY <1>1, <2>1, SMTT(40) DEF Names
  <2> HIDE DEF m
  <2>5. Names(spare) = Names(spare') \cup {spare[m].count}
    <3>1. ASSUME NEW k \in 1 .. m
          PROVE  spare[k].count \in Names(spare') \cup {spare[m].count}
      <4>1. CASE k = m
        BY <4>1
      <4>2. CASE k \in 1 .. (m - 1)
        BY <2>1, <2>4, <4>2
      <4>3. QED
        BY <1>1, <4>1, <4>2
    <3>2. \A k \in 1 .. (m - 1) : spare'[k].count \in Names(spare)
      BY <1>1, <2>1, <2>4
    <3>3. spare[m].count \in Names(spare)
      BY <1>1, <2>1, <2>4
    <3>4. QED
      BY <2>4, <3>1, <3>2, <3>3
  <2>6. QED
    BY <2>2, <2>3, <2>5 DEF DirectoryClean
<1>4. CASE OpenNew(h)
  <2>1. PICK new \in Fd : inUse' = Append(inUse, [count |-> next, fd |-> new])
    BY <1>4 DEF OpenNew
  <2> DEFINE file == [count |-> next, fd |-> new]
  <2>2. file \in File /\ file.count = next
    BY <1>1 DEF File
  <2>3. Names(inUse') = Names(inUse) \cup {next}
    BY <1>2, <2>1, <2>2
  <2>4. QED
    BY <1>4, <2>3 DEF OpenNew, DirectoryClean
<1>5. QED
  BY <1>3, <1>4

(***************************************************************************)
(* The payload directory never holds a file that the cache has forgotten.  *)
(***************************************************************************)
THEOREM DirectoryStaysClean == Spec => []DirectoryClean
<1>1. Init => DirectoryClean
  <2>1. Names(<<>>) = {}
    BY DEF Names
  <2>2. QED
    BY <2>1 DEF Init, DirectoryClean
<1>2. IInv /\ DirectoryClean /\ [Next]_vars => DirectoryClean'
  BY KnownAfterClosing, KnownAfterLending
     DEF Next, vars, OpenFails, PassOn, DirectoryClean
<1>3. QED
  BY <1>1, <1>2, CacheInvariant, PTL DEF Spec

----------------------------------------------------------------------------
(***************************************************************************)
(* The access log.                                                         *)
(***************************************************************************)

(***************************************************************************)
(* A set of natural numbers has a least element, and one with a bound has a*)
(* greatest one.                                                           *)
(***************************************************************************)
LEMMA LeastNatural ==
    ASSUME NEW S, S \subseteq Nat, S # {}
    PROVE  Min(S) \in S /\ \A y \in S : Min(S) <= y
<1> DEFINE R == OpToRel(<, Nat)
<1>1. IsWellFoundedOn(R, Nat)
  BY NatLessThanWellFounded
<1>2. \A x, y \in Nat : y < x => <<y, x>> \in R
  BY DEF OpToRel
<1> HIDE DEF R
<1>3. PICK x \in S : \A y \in S : ~ (<<y, x>> \in R)
  BY <1>1, WFMin
<1>4. ASSUME NEW y \in S PROVE x <= y
  <2>1. x \in Nat /\ y \in Nat
    OBVIOUS
  <2>2. ~ (y < x)
    BY <1>2, <1>3, <2>1
  <2>3. QED
    BY <2>1, <2>2
<1>5. QED
  BY <1>4 DEF Min

\* The greatest is the least of the bounds that are in the set.
LEMMA GreatestNatural ==
    ASSUME NEW S, S \subseteq Nat, S # {}, NEW b \in Nat, \A y \in S : y <= b
    PROVE  Max(S) \in S /\ \A y \in S : Max(S) >= y
<1> DEFINE Bounds == {n \in Nat : \A y \in S : y <= n}
           least == Min(Bounds)
<1>1. least \in Bounds /\ \A n \in Bounds : least <= n
  <2>1. b \in Bounds
    OBVIOUS
  <2>2. QED
    BY <2>1, LeastNatural
<1> HIDE DEF least
<1>2. least \in S
  <2> SUFFICES ASSUME least \notin S PROVE FALSE
    OBVIOUS
  <2>1. PICK y \in S : TRUE
    OBVIOUS
  <2>2. \A x \in S : x < least
    BY <1>1
  <2>3. least - 1 \in Bounds
    <3>1. least \in Nat /\ y \in Nat /\ y < least
      BY <1>1, <2>2
    <3>2. least - 1 \in Nat
      BY <3>1
    <3>3. \A x \in S : x \in Nat /\ x <= least - 1
      BY <2>2, <3>1
    <3>4. QED
      BY <3>2, <3>3
  <2>4. least <= least - 1
    BY <1>1, <2>3
  <2>5. QED
    BY <1>1, <2>4
<1>3. \A y \in S : least >= y
  BY <1>1
<1>4. QED
  BY <1>2, <1>3 DEF Max

(***************************************************************************)
(* A finite set of natural numbers has a bound: the least number k such    *)
(* that the first k of its elements have none cannot be.                   *)
(***************************************************************************)
LEMMA FiniteIsBounded ==
    ASSUME NEW S, S \subseteq Nat, IsFiniteSet(S)
    PROVE  \E b \in Nat : \A y \in S : y <= b
<1>1. \E n \in Nat : \E f \in [1 .. n -> S] : \A y \in S : \E i \in 1 .. n : f[i] = y
  <2> DEFINE n == Cardinality(S)
  <2>1. n \in Nat /\ ExistsBijection(1 .. n, S)
    BY FS_CardinalityType
  <2>2. PICK f \in Bijection(1 .. n, S) : TRUE
    BY <2>1 DEF ExistsBijection
  <2>3. QED
    BY <2>1, <2>2 DEF Bijection, Surjection, Injection
<1>2. PICK n \in Nat : \E f \in [1 .. n -> S] : \A y \in S : \E i \in 1 .. n : f[i] = y
  BY <1>1
<1>3. PICK f \in [1 .. n -> S] : \A y \in S : \E i \in 1 .. n : f[i] = y
  BY <1>2
<1> DEFINE Bounded(k) == \E b \in Nat : \A i \in 1 .. k : f[i] <= b
           Bad == {k \in 0 .. n : ~ Bounded(k)}
           k0 == Min(Bad)
<1>4. Bounded(0)
  OBVIOUS
<1>5. ASSUME NEW k \in 1 .. n, Bounded(k - 1) PROVE Bounded(k)
  <2>1. PICK b \in Nat : \A i \in 1 .. (k - 1) : f[i] <= b
    BY <1>5
  <2>2. \A i \in 1 .. k : f[i] \in Nat
    <3>1. \A i \in 1 .. k : i \in 1 .. n
      OBVIOUS
    <3>2. QED
      BY <1>3, <3>1
  <2>3. b + f[k] \in Nat /\ \A i \in 1 .. k : f[i] <= b + f[k]
    <3>1. \A i \in 1 .. k : i = k \/ i \in 1 .. (k - 1)
      OBVIOUS
    <3>2. QED
      BY <2>1, <2>2, <3>1
  <2>4. QED
    BY <2>3
<1>6. Bounded(n)
  <2> HIDE DEF Bounded
  <2> SUFFICES ASSUME ~ Bounded(n) PROVE FALSE
    OBVIOUS
  <2>1. n \in Bad /\ Bad \subseteq Nat
    OBVIOUS
  <2>2. k0 \in Bad /\ \A k \in Bad : k0 <= k
    BY <2>1, LeastNatural
  <2> HIDE DEF k0
  <2>3. k0 \in 1 .. n
    BY <1>4, <2>2
  <2>4. k0 - 1 \in 0 .. n /\ k0 - 1 \notin Bad
    BY <2>2, <2>3
  <2>5. QED
    BY <1>5, <2>2, <2>3, <2>4
<1>7. QED
  BY <1>3, <1>6

(***************************************************************************)
(* The first number that is free is the one after those in use, if these   *)
(* have no gap and the search does not begin behind them.                  *)
(***************************************************************************)
LEMMA NextNumber ==
    ASSUME NEW D, D \subseteq Nat, IsFiniteSet(D), NEW k \in Nat, D \ {0} = 1 .. k,
           NEW m \in Nat, m <= k
    PROVE  Min({n \in (m + 1) .. (m + Cardinality(D) + 1) : n \notin D}) = k + 1
<1> DEFINE c == Cardinality(D)
           free == {n \in (m + 1) .. (m + c + 1) : n \notin D}
<1>1. c \in Nat
  BY FS_CardinalityType
<1>2. k <= c
  <2>1. IsFiniteSet(1 .. k) /\ Cardinality(1 .. k) = k
    <3>1. 1 \in Int /\ k \in Int /\ (1 > k => k = 0) /\ k - 1 + 1 = k
      OBVIOUS
    <3>2. QED
      BY <3>1, FS_Interval
  <2>2. 1 .. k \subseteq D
    OBVIOUS
  <2>3. QED
    BY <2>1, <2>2, FS_Subset
<1>3. k + 1 \in free
  <2>1. k + 1 \notin D
    <3>1. k + 1 \notin 1 .. k /\ k + 1 # 0
      OBVIOUS
    <3>2. QED
      BY <3>1
  <2>2. QED
    BY <1>1, <1>2, <2>1
<1>4. Min(free) \in free /\ Min(free) <= k + 1
  <2>1. free \subseteq Nat /\ free # {}
    BY <1>1, <1>3
  <2> HIDE DEF free
  <2>2. QED
    BY <1>3, <2>1, LeastNatural
<1> DEFINE x == Min(free)
<1>5. x \in Nat /\ x # 0 /\ x \notin D
  BY <1>1, <1>4
<1> HIDE DEF x
<1>6. x \notin 1 .. k
  BY <1>5
<1>7. x > k
  BY <1>5, <1>6
<1>8. x = k + 1
  BY <1>4, <1>5, <1>7 DEF x
<1>9. QED
  BY <1>8 DEF x

----------------------------------------------------------------------------
(***************************************************************************)
(* Induction from 1 to n, for sets.                                        *)
(***************************************************************************)
LEMMA UpToTheEnd ==
    ASSUME NEW n \in Nat, NEW S, \A k \in 1 .. n : (k = 1 \/ k - 1 \in S) => k \in S
    PROVE  1 .. n \subseteq S
<1> DEFINE Bad == {k \in 1 .. n : k \notin S}
           k0 == Min(Bad)
<1> SUFFICES ASSUME Bad # {} PROVE FALSE
  OBVIOUS
<1>1. k0 \in Bad /\ \A k \in Bad : k0 <= k
  BY LeastNatural
<1> HIDE DEF k0
<1>2. k0 \in 1 .. n /\ k0 \notin S
  BY <1>1
<1>3. k0 # 1 => k0 - 1 \in 1 .. n /\ k0 - 1 \notin Bad
  BY <1>1, <1>2
<1>4. QED
  BY <1>2, <1>3

----------------------------------------------------------------------------
\* What a sequence of sequences amounts to, up to each of them.
Joins(s, n, f) == f = [i \in 1 .. n |-> IF i = 1 THEN s[i] ELSE f[i - 1] \o s[i]]

\* There is such a function for every part of it.
LEMMA JoinsExist ==
    ASSUME NEW s, NEW n \in Nat
    PROVE  \A k \in 1 .. n : \E f : Joins(s, k, f)
<1> DEFINE Some(k) == \E f : Joins(s, k, f)
           S == {k \in 1 .. n : Some(k)}
<1>1. Some(1)
  <2> DEFINE f == [i \in 1 .. 1 |-> s[i]]
  <2>1. \A i \in 1 .. 1 : i = 1
    OBVIOUS
  <2>2. f = [i \in 1 .. 1 |-> IF i = 1 THEN s[i] ELSE f[i - 1] \o s[i]]
    BY <2>1
  <2>3. QED
    BY <2>2 DEF Joins
<1>2. ASSUME NEW k \in 2 .. n, Some(k - 1) PROVE Some(k)
  <2>1. PICK f : Joins(s, k - 1, f)
    BY <1>2
  <2> DEFINE g == [i \in 1 .. k |-> IF i = k THEN f[k - 1] \o s[k] ELSE f[i]]
  <2>2. \A i \in 1 .. (k - 1) : f[i] = IF i = 1 THEN s[i] ELSE f[i - 1] \o s[i]
    BY <2>1 DEF Joins
  <2>3. \A i \in 1 .. k : g[i] = IF i = 1 THEN s[i] ELSE g[i - 1] \o s[i]
    <3> TAKE i \in 1 .. k
    <3>1. CASE i = k
      <4>1. k # 1 /\ k - 1 \in 1 .. k /\ k - 1 # k
        OBVIOUS
      <4>4. g[i] = f[k - 1] \o s[k]
        BY <3>1, Zenon
      <4>2. g[k - 1] = f[k - 1]
        BY <4>1
      <4>3. QED
        BY <3>1, <4>1, <4>2, <4>4
    <3>2. CASE i # k
      <4>1. i \in 1 .. (k - 1) /\ g[i] = f[i]
        BY <3>2
      <4>2. i # 1 => i - 1 \in 1 .. k /\ i - 1 # k
        OBVIOUS
      <4>3. i # 1 => g[i - 1] = f[i - 1]
        BY <4>2
      <4>4. QED
        BY <2>2, <4>1, <4>3
    <3>3. QED
      BY <3>1, <3>2
  <2>4. g = [i \in 1 .. k |-> IF i = 1 THEN s[i] ELSE g[i - 1] \o s[i]]
    <3>1. g = [i \in 1 .. k |-> g[i]]
      OBVIOUS
    <3> HIDE DEF g
    <3>2. QED
      BY <2>3, <3>1, Zenon
  <2>5. QED
    BY <2>4 DEF Joins
<1> HIDE DEF Some
<1>3. \A k \in 1 .. n : (k = 1 \/ k - 1 \in S) => k \in S
  <2> TAKE k \in 1 .. n
  <2>1. CASE k = 1
    BY <1>1, <2>1
  <2>2. CASE k # 1 /\ k - 1 \in S
    <3>1. k \in 2 .. n /\ Some(k - 1)
      BY <2>2
    <3>2. QED
      BY <1>2, <3>1
  <2>3. QED
    BY <2>1, <2>2
<1> HIDE DEF S
<1>4. 1 .. n \subseteq S
  BY <1>3, UpToTheEnd
<1>5. QED
  BY <1>4 DEF S, Some

\* And only one.
LEMMA JoinsAgree ==
    ASSUME NEW s, NEW t, NEW m \in Nat, NEW n \in Nat, NEW f, NEW g,
           Joins(s, m, f), Joins(t, n, g), m <= n, \A i \in 1 .. m : s[i] = t[i]
    PROVE  \A i \in 1 .. m : f[i] = g[i]
<1> DEFINE S == {i \in 1 .. m : f[i] = g[i]}
<1>1. \A k \in 1 .. m : (k = 1 \/ k - 1 \in S) => k \in S
  <2> SUFFICES ASSUME NEW k \in 1 .. m, k = 1 \/ k - 1 \in S PROVE k \in S
    OBVIOUS
  <2>1. k \in 1 .. n
    OBVIOUS
  <2>2. f[k] = IF k = 1 THEN s[k] ELSE f[k - 1] \o s[k]
    BY DEF Joins
  <2>3. g[k] = IF k = 1 THEN t[k] ELSE g[k - 1] \o t[k]
    BY <2>1 DEF Joins
  <2>4. k # 1 => f[k - 1] = g[k - 1]
    OBVIOUS
  <2>5. QED
    BY <2>2, <2>3, <2>4
<1> HIDE DEF S
<1>2. 1 .. m \subseteq S
  BY <1>1, UpToTheEnd
<1>3. QED
  BY <1>2 DEF S

\* What FlattenSeq makes of a sequence that is not empty.
LEMMA FlattenJoins ==
    ASSUME NEW n \in Nat \ {0}, NEW s, Len(s) = n
    PROVE  \E f : Joins(s, n, f) /\ FlattenSeq(s) = f[n]
<1> DEFINE flatten == CHOOSE f : f = [i \in 1 .. n |-> IF i = 1 THEN s[i] ELSE f[i - 1] \o s[i]]
<1>1. \E f : Joins(s, n, f)
  <2>1. n \in Nat /\ n \in 1 .. n
    OBVIOUS
  <2>2. QED
    BY <2>1, JoinsExist
<1>2. flatten = [i \in 1 .. n |-> IF i = 1 THEN s[i] ELSE flatten[i - 1] \o s[i]]
  BY <1>1 DEF Joins
<1>3. FlattenSeq(s) = flatten[n]
  BY DEF FlattenSeq
<1> HIDE DEF flatten
<1>4. QED
  BY <1>2, <1>3 DEF Joins

(***************************************************************************)
(* One more sequence comes behind the others.                              *)
(***************************************************************************)
LEMMA FlattenGrows ==
    ASSUME NEW B, NEW n \in Nat, NEW s, NEW t, Len(s) = n, Len(t) = n + 1,
           n = 0 => s = <<>>,
           \A i \in 1 .. n : s[i] = t[i], t[n + 1] \in Seq(B)
    PROVE  FlattenSeq(t) = FlattenSeq(s) \o t[n + 1]
<1> DEFINE m == n + 1
<1>1. /\ m \in Nat \ {0} /\ m \in 1 .. m /\ m - 1 = n /\ (m = 1 <=> n = 0) /\ n <= m
      /\ m \in Nat /\ Len(t) = m /\ t[m] = t[n + 1]
  OBVIOUS
<1> HIDE DEF m
<1>2. PICK g : Joins(t, m, g) /\ FlattenSeq(t) = g[m]
  BY <1>1, FlattenJoins
<1>3. g[m] = IF m = 1 THEN t[m] ELSE g[n] \o t[m]
  BY <1>1, <1>2 DEF Joins
<1>4. CASE n = 0
  <2>1. FlattenSeq(s) = <<>>
    BY <1>4 DEF FlattenSeq
  <2>2. QED
    BY <1>1, <1>2, <1>3, <1>4, <2>1
<1>5. CASE n # 0
  <2>1. n \in Nat \ {0} /\ n \in 1 .. n
    BY <1>5
  <2>2. PICK f : Joins(s, n, f) /\ FlattenSeq(s) = f[n]
    BY <2>1, FlattenJoins
  <2>3. f[n] = g[n]
    <3>0. /\ n \in Nat /\ m \in Nat /\ Joins(s, n, f) /\ Joins(t, m, g) /\ n <= m
          /\ \A i \in 1 .. n : s[i] = t[i]
      BY <1>1, <1>2, <2>2
    <3>1. \A i \in 1 .. n : f[i] = g[i]
      BY ONLY <3>0, JoinsAgree
    <3>2. QED
      BY <2>1, <3>1
  <2>4. QED
    BY <1>1, <1>2, <1>3, <1>5, <2>2, <2>3
<1>6. QED
  BY <1>4, <1>5

----------------------------------------------------------------------------
(***************************************************************************)
(* The system calls, field by field.                                       *)
(***************************************************************************)
Log(d, f, n, s, b, u) == [logs |-> d, fd |-> f, last |-> n, size |-> s, buf |-> b, up |-> u]

\* What is read of a log.
LEMMA Fields ==
    ASSUME NEW d, NEW f, NEW n, NEW s, NEW b, NEW u, NEW l, l = Log(d, f, n, s, b, u)
    PROVE  l.logs = d /\ l.fd = f /\ l.last = n /\ l.size = s /\ l.buf = b /\ l.up = u
  BY DEF Log

\* What is closed, dropped or killed.
LEMMA Forgets ==
    ASSUME NEW d, NEW f, NEW n, NEW s, NEW b, NEW u, NEW l, l = Log(d, f, n, s, b, u)
    PROVE  /\ Closed(l) = Log(d, -1, n, s, b, u)
           /\ Dropped(l) = Log(d, f, n, s, <<>>, u)
<1>1. Closed(l) = Log(d, -1, n, s, b, u)
  BY DEF Log, Closed
<1>2. Dropped(l) = Log(d, f, n, s, <<>>, u)
  BY DEF Log, Dropped
<1>3. QED
  BY <1>1, <1>2

\* A server that does not run.
Down == FALSE

\* What a killed server leaves.
LEMMA Dies ==
    ASSUME NEW d, NEW f, NEW n, NEW s, NEW b, NEW u, NEW l, l = Log(d, f, n, s, b, u)
    PROVE  /\ Killed(l) = Log(d, -1, 0, 0, <<>>, Down)
           /\ Dropped(Killed(l)) = Log(d, -1, 0, 0, <<>>, Down)
<1> DEFINE t1 == [l EXCEPT !.fd = -1]
           t2 == [t1 EXCEPT !.last = 0]
           t3 == [t2 EXCEPT !.size = 0]
           t4 == [t3 EXCEPT !.buf = <<>>]
<1>1. Killed(l) = [t4 EXCEPT !.up = FALSE]
  BY DEF Killed
<1>2. t1 = Log(d, -1, n, s, b, u)
  BY DEF Log
<1> HIDE DEF t1
<1>3. t2 = Log(d, -1, 0, s, b, u)
  BY <1>2 DEF Log
<1> HIDE DEF t2
<1>4. t3 = Log(d, -1, 0, 0, b, u)
  BY <1>3 DEF Log
<1> HIDE DEF t3
<1>5. t4 = Log(d, -1, 0, 0, <<>>, u)
  BY <1>4 DEF Log
<1> HIDE DEF t4
<1>6. Killed(l) = Log(d, -1, 0, 0, <<>>, Down)
  BY <1>1, <1>5 DEF Log, Down
<1>7. \A k : k = Log(d, -1, 0, 0, <<>>, Down) => Dropped(k) = k
  BY DEF Log, Dropped
<1>8. QED
  BY <1>6, <1>7

\* The files with the current one opened, renamed, or written at the offset f.
WithCurrent(d) ==
    IF 0 \in DOMAIN d THEN d ELSE [k \in DOMAIN d \cup {0} |-> IF k = 0 THEN <<>> ELSE d[k]]

MovedTo(d, m) == [k \in (DOMAIN d \ {0}) \cup {m} |-> IF k = m THEN d[0] ELSE d[k]]

WrittenAt(d, f, bytes) ==
    [d EXCEPT ![0] = SubSeq(d[0], 1, f) \o bytes \o SubSeq(d[0], f + Len(bytes) + 1, Len(d[0]))]

\* What is opened, renamed or written.
LEMMA Touches ==
    ASSUME NEW d, NEW f, NEW n, NEW s, NEW b, NEW u, NEW l, l = Log(d, f, n, s, b, u)
    PROVE  /\ Opened(l) = Log(WithCurrent(d), 0, n, s, b, u)
           /\ \A m : Renamed(l, m) = Log(MovedTo(d, m), f, n, s, b, u)
           /\ \A bytes : Put(l, bytes) = Log(WrittenAt(d, f, bytes), f + Len(bytes), n, s, b, u)
<1>1. Opened(l) = Log(WithCurrent(d), 0, n, s, b, u)
  <2> DEFINE t == [l EXCEPT !.logs = WithCurrent(d)]
  <2>1. l.logs = d
    BY Fields
  <2>2. Opened(l) = [t EXCEPT !.fd = 0]
    BY <2>1 DEF Opened, WithCurrent
  <2>3. t = Log(WithCurrent(d), f, n, s, b, u)
    BY DEF Log
  <2> HIDE DEF t
  <2>4. QED
    BY <2>2, <2>3 DEF Log
<1>2. ASSUME NEW m PROVE Renamed(l, m) = Log(MovedTo(d, m), f, n, s, b, u)
  BY DEF Log, Renamed, MovedTo
<1>3. ASSUME NEW bytes PROVE Put(l, bytes) = Log(WrittenAt(d, f, bytes), f + Len(bytes), n, s, b, u)
  <2> DEFINE t == [l EXCEPT !.logs = WrittenAt(d, f, bytes)]
  <2>1. l.logs = d /\ l.fd = f
    BY Fields
  <2>2. Put(l, bytes) = [t EXCEPT !.fd = f + Len(bytes)]
    BY <2>1 DEF Put, WrittenAt
  <2>3. t = Log(WrittenAt(d, f, bytes), f, n, s, b, u)
    BY DEF Log
  <2> HIDE DEF t
  <2>4. QED
    BY <2>2, <2>3 DEF Log
<1>4. QED
  BY <1>1, <1>2, <1>3

----------------------------------------------------------------------------
(***************************************************************************)
(* The log as one reads it, in the files d: those that have been rotated,  *)
(* which have the numbers from 1 up to the newest, and the current one.    *)
(***************************************************************************)
Numbered(d) == \E m \in Nat : DOMAIN d \ {0} = 1 .. m

Top(d) == Max({n \in DOMAIN d : n # 0} \cup {0})

Old(d, k) == FlattenSeq([n \in 1 .. k |-> d[n]])

Newest(d) == IF 0 \in DOMAIN d THEN d[0] ELSE <<>>

Disk(d) == Old(d, Top(d)) \o Newest(d)

\* The last number.
LEMMA TopIs ==
    ASSUME NEW d, NEW m \in Nat, DOMAIN d \ {0} = 1 .. m
    PROVE  Top(d) = m
<1> DEFINE S == {n \in DOMAIN d : n # 0} \cup {0}
<1>1. S = 0 .. m
  <2>1. S = (DOMAIN d \ {0}) \cup {0}
    OBVIOUS
  <2>2. (1 .. m) \cup {0} = 0 .. m
    OBVIOUS
  <2>3. QED
    BY <2>1, <2>2
<1> HIDE DEF S
<1>2. Max(S) \in S /\ \A y \in S : Max(S) >= y
  <2>1. S \subseteq Nat /\ S # {} /\ \A y \in S : y <= m
    BY <1>1
  <2>2. QED
    BY <2>1, GreatestNatural
<1>3. m \in S
  BY <1>1
<1>4. Max(S) = m
  BY <1>1, <1>2, <1>3
<1>5. QED
  BY <1>4 DEF Top, S

\* The file with the next number comes behind the others.
LEMMA OldGrows ==
    ASSUME NEW B, NEW d, NEW k \in Nat, d[k + 1] \in Seq(B)
    PROVE  Old(d, k + 1) = Old(d, k) \o d[k + 1]
<1> DEFINE s == [n \in 1 .. k |-> d[n]]
           t == [n \in 1 .. (k + 1) |-> d[n]]
<1>1. Len(s) = k /\ (k = 0 => s = <<>>)
  OBVIOUS
<1>2. Len(t) = k + 1 /\ t[k + 1] = d[k + 1]
  OBVIOUS
<1>3. \A i \in 1 .. k : s[i] = t[i]
  OBVIOUS
<1> HIDE DEF s, t
<1>4. t[k + 1] \in Seq(B)
  BY <1>2
<1>5. FlattenSeq(t) = FlattenSeq(s) \o t[k + 1]
  <2>1. /\ k \in Nat /\ Len(s) = k /\ Len(t) = k + 1 /\ (k = 0 => s = <<>>)
        /\ (\A i \in 1 .. k : s[i] = t[i]) /\ t[k + 1] \in Seq(B)
    BY <1>1, <1>2, <1>3, <1>4
  <2>2. QED
    BY ONLY <2>1, FlattenGrows
<1>6. QED
  BY <1>2, <1>5 DEF Old, s, t

\* Without a rotated file it is empty.
LEMMA NoneIsOld ==
    ASSUME NEW d
    PROVE  Old(d, 0) = <<>>
<1> DEFINE s == [n \in 1 .. 0 |-> d[n]]
<1>1. s = <<>>
  OBVIOUS
<1> HIDE DEF s
<1>2. Len(s) = 0
  BY <1>1
<1>3. Old(d, 0) = FlattenSeq(s)
  BY DEF Old, s
<1>4. FlattenSeq(s) = <<>>
  BY <1>1, <1>2 DEF FlattenSeq
<1>5. QED
  BY <1>3, <1>4

\* There are only bytes in it.
LEMMA OldIs ==
    ASSUME NEW B, NEW d, NEW m \in Nat, \A n \in 1 .. m : d[n] \in Seq(B)
    PROVE  Old(d, m) \in Seq(B)
<1> DEFINE S == {k \in 1 .. m : Old(d, k) \in Seq(B)}
<1>1. Old(d, 0) = <<>>
  BY NoneIsOld
<1>2. \A k \in 1 .. m : (k = 1 \/ k - 1 \in S) => k \in S
  <2> SUFFICES ASSUME NEW k \in 1 .. m, k = 1 \/ k - 1 \in S PROVE k \in S
    OBVIOUS
  <2> DEFINE j == k - 1
  <2>1. j \in Nat /\ j + 1 = k /\ (k = 1 => j = 0) /\ d[j + 1] \in Seq(B)
    OBVIOUS
  <2>2. Old(d, j) \in Seq(B)
    <3>1. <<>> \in Seq(B)
      OBVIOUS
    <3>2. QED
      BY <1>1, <2>1, <3>1
  <2> HIDE DEF j
  <2>3. Old(d, j + 1) = Old(d, j) \o d[j + 1]
    BY <2>1, OldGrows
  <2>4. Old(d, k) \in Seq(B)
    <3>1. \A p, q \in Seq(B) : p \o q \in Seq(B)
      OBVIOUS
    <3>2. Old(d, j) \o d[j + 1] \in Seq(B)
      BY <2>1, <2>2, <3>1
    <3>3. QED
      BY <2>1, <2>3, <3>2
  <2>5. QED
    BY <2>4
<1> HIDE DEF S
<1>3. 1 .. m \subseteq S
  BY <1>2, UpToTheEnd
<1>4. CASE m = 0
  <2>1. <<>> \in Seq(B)
    OBVIOUS
  <2>2. QED
    BY <1>1, <1>4, <2>1
<1>5. CASE m # 0
  <2>1. m \in S
    BY <1>3, <1>5
  <2>2. QED
    BY <2>1 DEF S
<1>6. QED
  BY <1>4, <1>5

\* Files that have the same numbers and are the same.
LEMMA OldAgree ==
    ASSUME NEW d, NEW e, NEW m \in Nat, \A n \in 1 .. m : d[n] = e[n]
    PROVE  Old(d, m) = Old(e, m)
<1>1. [n \in 1 .. m |-> d[n]] = [n \in 1 .. m |-> e[n]]
  OBVIOUS
<1>2. QED
  BY <1>1 DEF Old

(***************************************************************************)
(* What holds of a log of bytes from B at any time: the files, of which    *)
(* none is too long; the current one, whose end is where the log is        *)
(* written and whose length is _M_size; and that nothing waits for a log   *)
(* that is closed.                                                         *)
(***************************************************************************)
Longest == Max({MaxSize, BufSize + Max(Lengths)})

Kept(B, d) ==
    /\ d \in [DOMAIN d -> Seq(B)]
    /\ DOMAIN d \subseteq Nat /\ IsFiniteSet(DOMAIN d)
    /\ \A k \in DOMAIN d : Len(d[k]) <= Longest
    /\ Numbered(d)

Sound(B, d, f, n, s, b, u) ==
    /\ Kept(B, d)
    /\ f \in Nat \cup {-1} /\ n \in Nat /\ s \in Nat
    /\ b \in Seq(B) /\ u \in BOOLEAN
    /\ f # -1 => u /\ 0 \in DOMAIN d /\ s = Len(d[0]) /\ f = s /\ n <= Top(d)
    /\ b # <<>> => f # -1

\* A log whose buffer b has been written behind w, which was on the disk, or a
\* part of it if the log has been closed.
Emptied(B, w, b, l) ==
    \E d, f, n, s, u :
        /\ l = Log(d, f, n, s, <<>>, u) /\ Sound(B, d, f, n, s, <<>>, u)
        /\ \E k \in 0 .. Len(b) : Disk(d) = w \o SubSeq(b, 1, k) /\ (f # -1 => k = Len(b))

\* What is on the disk is made of bytes, and nothing of a buffer adds nothing.
LEMMA WritesNothing ==
    ASSUME NEW B, NEW d, Kept(B, d), NEW b \in Seq(B)
    PROVE  0 \in 0 .. Len(b) /\ Disk(d) \o SubSeq(b, 1, 0) = Disk(d)
<1>1. PICK m \in Nat : DOMAIN d \ {0} = 1 .. m
  BY DEF Kept, Numbered
<1>2. Old(d, m) \in Seq(B)
  <2>1. \A n \in 1 .. m : d[n] \in Seq(B)
    BY <1>1 DEF Kept
  <2>2. QED
    BY <2>1, OldIs
<1>3. Newest(d) \in Seq(B)
  BY DEF Newest, Kept
<1>4. Disk(d) \in Seq(B)
  <2>1. Top(d) = m
    BY <1>1, TopIs
  <2>2. QED
    BY <1>2, <1>3, <2>1 DEF Disk
<1>5. SubSeq(b, 1, 0) = <<>>
  OBVIOUS
<1>6. QED
  BY <1>4, <1>5

(***************************************************************************)
(* The maximum, and a buffer with one more line, fit.                      *)
(***************************************************************************)
LEMMA LongestIsLarge ==
    /\ Longest \in Nat /\ MaxSize <= Longest
    /\ \A k \in Lengths : k \in Nat \ {0} /\ BufSize + k <= Longest
<1>1. PICK b \in Nat : \A y \in Lengths : y <= b
  BY FiniteIsBounded, AccessLogAssumption
<1>2. Max(Lengths) \in Lengths /\ \A y \in Lengths : Max(Lengths) >= y
  BY <1>1, GreatestNatural, AccessLogAssumption
<1> DEFINE m == BufSize + Max(Lengths)
           S == {MaxSize, m}
<1>3. m \in Nat /\ \A k \in Lengths : BufSize + k <= m
  <2>1. BufSize \in Nat /\ Max(Lengths) \in Nat /\ \A k \in Lengths : k \in Nat
    BY <1>2, AccessLogAssumption
  <2>2. QED
    BY <1>2, <2>1
<1> HIDE DEF m
<1>4. S \subseteq Nat /\ S # {} /\ MaxSize + m \in Nat /\ \A y \in S : y <= MaxSize + m
  BY <1>3, AccessLogAssumption
<1>5. Max(S) \in S /\ \A y \in S : Max(S) >= y
  <2> HIDE DEF S
  <2>1. QED
    BY <1>4, GreatestNatural
<1>6. Longest = Max(S)
  BY DEF Longest, m
<1>7. Longest \in Nat /\ MaxSize <= Longest /\ m <= Longest
  <2>1. MaxSize \in S /\ m \in S
    OBVIOUS
  <2>2. Max(S) \in Nat
    BY <1>4, <1>5
  <2>3. QED
    BY <1>3, <1>5, <1>6, <2>1, <2>2
<1>8. QED
  BY <1>3, <1>7, AccessLogAssumption

(***************************************************************************)
(* The three changes of the files: written at its end, the current one     *)
(* grows; renamed, there is none; opened, it is what it was or empty.      *)
(***************************************************************************)
LEMMA GrowsAtItsEnd ==
    ASSUME NEW B, NEW d, Kept(B, d), 0 \in DOMAIN d, NEW bytes \in Seq(B),
           Longest \in Nat, Len(d[0]) + Len(bytes) <= Longest
    PROVE  LET e == WrittenAt(d, Len(d[0]), bytes)
           IN  /\ Kept(B, e) /\ 0 \in DOMAIN e /\ Len(e[0]) = Len(d[0]) + Len(bytes)
               /\ Top(e) = Top(d) /\ Disk(e) = Disk(d) \o bytes
<1> DEFINE f == Len(d[0])
           new == SubSeq(d[0], 1, f) \o bytes \o SubSeq(d[0], f + Len(bytes) + 1, Len(d[0]))
           e == [d EXCEPT ![0] = new]
<1>1. d[0] \in Seq(B) /\ f \in Nat /\ Len(bytes) \in Nat
  BY DEF Kept
<1>2. new \in Seq(B) /\ Len(new) = f + Len(bytes) /\ new = d[0] \o bytes
  <2>1. SubSeq(d[0], 1, f) = d[0]
    BY <1>1, SubSeqFull
  <2>2. SubSeq(d[0], f + Len(bytes) + 1, Len(d[0])) = <<>>
    BY <1>1
  <2>3. new = d[0] \o bytes
    BY <1>1, <2>1, <2>2
  <2>4. QED
    BY <1>1, <2>3
<1> HIDE DEF new
<1>3. DOMAIN e = DOMAIN d /\ e[0] = new /\ \A k \in DOMAIN d : k # 0 => e[k] = d[k]
  BY DEF Kept
<1>4. e \in [DOMAIN d -> Seq(B)]
  BY <1>2 DEF Kept
<1>5. Kept(B, e)
  <2>1. Numbered(e)
    BY <1>3 DEF Kept, Numbered
  <2>2. QED
    BY <1>1, <1>2, <1>3, <1>4, <2>1 DEF Kept
<1>6. PICK m \in Nat : DOMAIN d \ {0} = 1 .. m
  BY DEF Kept, Numbered
<1>7. Top(d) = m /\ Top(e) = m
  BY <1>3, <1>6, TopIs
<1>8. Disk(e) = Disk(d) \o bytes
  <2>1. \A n \in 1 .. m : e[n] = d[n] /\ d[n] \in Seq(B)
    <3>1. \A n \in 1 .. m : n \in DOMAIN d /\ n # 0
      BY <1>6
    <3>2. QED
      BY <1>3, <3>1 DEF Kept
  <2> HIDE DEF e
  <2>2. Old(e, m) = Old(d, m) /\ Old(d, m) \in Seq(B)
    BY <2>1, OldAgree, OldIs
  <2>3. Old(d, m) \o (d[0] \o bytes) = (Old(d, m) \o d[0]) \o bytes
    <3>1. PICK p, q : p = Old(d, m) /\ q = d[0]
      OBVIOUS
    <3>2. p \in Seq(B) /\ q \in Seq(B) /\ bytes \in Seq(B)
      BY <1>1, <2>2, <3>1
    <3>3. (p \o q) \o bytes = p \o (q \o bytes)
      BY ONLY <3>2, ConcatAssociative
    <3>4. QED
      BY <3>1, <3>3
  <2>4. QED
    BY <1>2, <1>3, <1>7, <2>2, <2>3 DEF Disk, Newest
<1>9. QED
  BY <1>2, <1>3, <1>5, <1>7, <1>8 DEF new, WrittenAt

\* The file keeps its content under its new name.
LEMMA MovesAway ==
    ASSUME NEW B, NEW d, Kept(B, d), 0 \in DOMAIN d, NEW m \in Nat, m = Top(d) + 1
    PROVE  LET e == MovedTo(d, m)
           IN  /\ Kept(B, e) /\ 0 \notin DOMAIN e
               /\ Top(e) = m /\ Disk(e) = Disk(d)
<1> DEFINE e == MovedTo(d, m)
<1>1. PICK k \in Nat : DOMAIN d \ {0} = 1 .. k
  BY DEF Kept, Numbered
<1>2. Top(d) = k /\ m = k + 1
  BY <1>1, TopIs
<1>3. DOMAIN e = 1 .. m
  <2>1. DOMAIN e = (DOMAIN d \ {0}) \cup {m}
    BY DEF MovedTo
  <2>2. (1 .. k) \cup {m} = 1 .. m
    BY <1>2
  <2>3. QED
    BY <1>1, <2>1, <2>2
<1>4. e[m] = d[0] /\ \A n \in 1 .. k : e[n] = d[n]
  <2>1. m \in 1 .. m /\ \A n \in 1 .. k : n \in 1 .. m /\ n # m
    BY <1>2
  <2>2. e = [n \in DOMAIN e |-> IF n = m THEN d[0] ELSE d[n]]
    BY DEF MovedTo
  <2> HIDE DEF e
  <2>3. QED
    BY <1>3, <2>1, <2>2
<1>5. d[0] \in Seq(B) /\ \A n \in 1 .. k : d[n] \in Seq(B)
  BY <1>1 DEF Kept
<1>6. Kept(B, e)
  <2>1. IsFiniteSet(DOMAIN e) /\ DOMAIN e \subseteq Nat
    <3>1. 1 \in Int /\ m \in Int
      OBVIOUS
    <3>2. IsFiniteSet(1 .. m)
      BY <3>1, FS_Interval
    <3>3. QED
      BY <1>3, <3>2
  <2>2. \A n \in 1 .. m : e[n] \in Seq(B) /\ Len(e[n]) <= Longest
    <3> TAKE n \in 1 .. m
    <3>1. n = m \/ n \in 1 .. k
      BY <1>2
    <3>2. \A j \in 1 .. k : Len(d[j]) <= Longest
      BY <1>1 DEF Kept
    <3>3. Len(d[0]) <= Longest
      BY DEF Kept
    <3> HIDE DEF e
    <3>4. QED
      BY <1>4, <1>5, <3>1, <3>2, <3>3
  <2>3. Numbered(e)
    <3>1. DOMAIN e \ {0} = 1 .. m
      BY <1>3
    <3>2. QED
      BY <3>1 DEF Numbered
  <2>4. e = [n \in DOMAIN e |-> e[n]]
    BY DEF MovedTo
  <2> HIDE DEF e
  <2>5. e \in [DOMAIN e -> Seq(B)]
    BY <1>3, <2>2, <2>4
  <2>6. QED
    BY <1>3, <2>1, <2>2, <2>3, <2>5 DEF Kept
<1>7. Top(e) = m
  <2>1. DOMAIN e \ {0} = 1 .. m
    BY <1>3
  <2> HIDE DEF e
  <2>2. QED
    BY <2>1, TopIs
<1> HIDE DEF e
<1>8. Disk(e) = Disk(d)
  <2>1. Old(e, k + 1) = Old(e, k) \o e[k + 1]
    <3>1. e[k + 1] \in Seq(B)
      BY <1>2, <1>4, <1>5
    <3>2. QED
      BY <3>1, OldGrows
  <2>2. Old(e, k) = Old(d, k) /\ Old(d, k) \in Seq(B)
    BY <1>4, <1>5, OldAgree, OldIs
  <2>3. Old(e, m) = Old(d, k) \o d[0]
    BY <1>2, <1>4, <2>1, <2>2
  <2>4. Old(d, k) \o d[0] \o <<>> = Old(d, k) \o d[0]
    BY <1>5, <2>2
  <2>5. 0 \notin DOMAIN e
    BY <1>3
  <2>6. QED
    BY <1>2, <1>7, <2>3, <2>4, <2>5 DEF Disk, Newest
<1>9. 0 \notin DOMAIN e
  BY <1>3
<1>10. QED
  BY <1>6, <1>7, <1>8, <1>9 DEF e

\* A file that is there is not emptied.
LEMMA IsThere ==
    ASSUME NEW B, NEW d, Kept(B, d), Longest \in Nat
    PROVE  LET e == WithCurrent(d)
           IN  /\ Kept(B, e) /\ 0 \in DOMAIN e /\ (0 \notin DOMAIN d => e[0] = <<>>)
               /\ Top(e) = Top(d) /\ Disk(e) = Disk(d)
<1>1. CASE 0 \in DOMAIN d
  BY <1>1 DEF WithCurrent
<1>2. CASE 0 \notin DOMAIN d
  <2> DEFINE e == [k \in DOMAIN d \cup {0} |-> IF k = 0 THEN <<>> ELSE d[k]]
  <2>1. DOMAIN e = DOMAIN d \cup {0} /\ e[0] = <<>>
    OBVIOUS
  <2>2. IsFiniteSet(DOMAIN d \cup {0})
    BY FS_AddElement DEF Kept
  <2>3. <<>> \in Seq(B) /\ Len(<<>>) = 0
    OBVIOUS
  <2>4. PICK m \in Nat : DOMAIN d \ {0} = 1 .. m
    BY DEF Kept, Numbered
  <2>5. DOMAIN e \ {0} = 1 .. m
    BY <2>1, <2>4
  <2>6. Kept(B, e)
    <3>1. Numbered(e)
      BY <2>5 DEF Numbered
    <3>2. QED
      BY <2>1, <2>2, <2>3, <3>1 DEF Kept
  <2>7. Top(e) = m /\ Top(d) = m
    <3> HIDE DEF e
    <3>1. QED
      BY <2>4, <2>5, TopIs
  <2>8. Old(e, m) = Old(d, m)
    <3>1. \A n \in 1 .. m : n \in DOMAIN d /\ n # 0
      BY <2>4
    <3>2. \A n \in 1 .. m : e[n] = d[n]
      BY <3>1
    <3> HIDE DEF e
    <3>3. QED
      BY <3>2, OldAgree
  <2> HIDE DEF e
  <2>9. Disk(e) = Disk(d)
    BY <1>2, <2>1, <2>7, <2>8 DEF Disk, Newest
  <2>10. QED
    BY <1>2, <2>1, <2>6, <2>7, <2>9 DEF WithCurrent, e
<1>3. QED
  BY <1>1, <1>2

----------------------------------------------------------------------------
(***************************************************************************)
(* flush.  The buffer is written, all of it or, the log being closed then  *)
(* or the server killed, a part of it.                                     *)
(***************************************************************************)
LEMMA WrittenIsSound ==
    ASSUME NEW B, NEW d, NEW f, NEW n, NEW s, NEW b, NEW u,
           Sound(B, d, f, n, s, b, u), f # -1,
           Longest \in Nat, s + Len(b) <= Longest,
           NEW r \in Written(Log(d, f, n, s, b, u))
    PROVE  Emptied(B, Disk(d), b, r)
<1> DEFINE l == Log(d, f, n, s, b, u)
           e(x) == WrittenAt(d, f, x)
<1>1. /\ Kept(B, d) /\ 0 \in DOMAIN d /\ b \in Seq(B) /\ Len(b) \in Nat
      /\ f = Len(d[0]) /\ f = s /\ s \in Nat /\ n \in Nat /\ u = TRUE
      /\ n <= Top(d)
  BY DEF Sound
<1>2. l.buf = b /\ l.size = s
  BY Fields
<1>3. \A x : Put(l, x) = Log(e(x), f + Len(x), n, s, b, u)
  BY Touches
<1>4. ASSUME NEW x \in Seq(B), Len(x) <= Len(b)
      PROVE  /\ Kept(B, e(x)) /\ 0 \in DOMAIN e(x) /\ Len(e(x)[0]) = f + Len(x)
             /\ Top(e(x)) = Top(d) /\ Disk(e(x)) = Disk(d) \o x
  <2>1. Len(x) \in Nat /\ Len(d[0]) + Len(x) <= Longest
    BY <1>1, <1>4
  <2>2. QED
    BY <1>1, <2>1, GrowsAtItsEnd
<1> HIDE DEF l, e
<1>5. CASE r = [Dropped(Put(l, l.buf)) EXCEPT !.size = @ + Len(l.buf)]
  <2> DEFINE p == Put(l, b)
             q == Dropped(p)
  <2>1. p = Log(e(b), f + Len(b), n, s, b, u)
    BY <1>3
  <2>2. q = Log(e(b), f + Len(b), n, s, <<>>, u) /\ q.size = s
    <3> HIDE DEF p
    <3>1. q = Log(e(b), f + Len(b), n, s, <<>>, u)
      BY <2>1, Forgets
    <3> HIDE DEF q
    <3>2. QED
      BY <3>1, Fields
  <2>3. r = [q EXCEPT !.size = s + Len(b)]
    BY <1>2, <1>5, <2>2
  <2> HIDE DEF p, q
  <2>4. r = Log(e(b), f + Len(b), n, s + Len(b), <<>>, u)
    BY <2>2, <2>3 DEF Log
  <2>5. /\ Kept(B, e(b)) /\ 0 \in DOMAIN e(b) /\ Len(e(b)[0]) = f + Len(b)
        /\ Top(e(b)) = Top(d) /\ Disk(e(b)) = Disk(d) \o b
    BY <1>1, <1>4
  <2>6. Sound(B, e(b), f + Len(b), n, s + Len(b), <<>>, u)
    BY <1>1, <2>5 DEF Sound
  <2>7. SubSeq(b, 1, Len(b)) = b /\ Len(b) \in 0 .. Len(b)
    BY <1>1, SubSeqFull
  <2>8. \E k \in 0 .. Len(b) : Disk(e(b)) = Disk(d) \o SubSeq(b, 1, k) /\ k = Len(b)
    BY <2>5, <2>7
  <2>9. QED
    BY <2>4, <2>6, <2>8 DEF Emptied
<1>6. CASE \E k \in 0 .. (Len(b) - 1) :
              LET part == Put(l, SubSeq(b, 1, k)) IN r \in {Dropped(Closed(part)), Killed(part)}
  <2>1. PICK k \in 0 .. (Len(b) - 1) : r \in {Dropped(Closed(Put(l, SubSeq(b, 1, k)))), Killed(Put(l, SubSeq(b, 1, k)))}
    BY <1>6
  <2> DEFINE x == SubSeq(b, 1, k)
             p == Put(l, x)
             q == Closed(p)
  <2>2. x \in Seq(B) /\ Len(x) <= Len(b)
    <3>1. k \in Nat /\ k < Len(b)
      BY <1>1, <2>1
    <3>2. QED
      BY <1>1, <3>1, SubSeqProperties
  <2>3. p = Log(e(x), f + Len(x), n, s, b, u)
    BY <1>3
  <2>4. Kept(B, e(x)) /\ Disk(e(x)) = Disk(d) \o SubSeq(b, 1, k) /\ k \in 0 .. Len(b)
    <3>1. k \in 0 .. Len(b)
      BY <1>1, <2>1
    <3>2. Kept(B, e(x)) /\ Disk(e(x)) = Disk(d) \o x
      BY <1>4, <2>2
    <3>3. QED
      BY <3>1, <3>2
  <2> HIDE DEF x
  <2>5. r = Dropped(q) \/ r = Killed(p)
    BY <2>1 DEF x
  <2> HIDE DEF p
  <2>6. q = Log(e(x), -1, n, s, b, u)
    BY <2>3, Forgets
  <2>10. Killed(p) = Log(e(x), -1, 0, 0, <<>>, Down)
    BY <2>3, Dies
  <2> HIDE DEF q
  <2>7. Dropped(q) = Log(e(x), -1, n, s, <<>>, u)
    BY <2>6, Forgets
  <2>8. Sound(B, e(x), -1, n, s, <<>>, u) /\ Sound(B, e(x), -1, 0, 0, <<>>, Down)
    BY <1>1, <2>4 DEF Sound, Down
  <2>9. QED
    BY <2>4, <2>5, <2>7, <2>8, <2>10 DEF Emptied
<1>7. QED
  <2>1. r \in Written(l)
    BY DEF l
  <2>2. QED
    BY <1>2, <1>5, <1>6, <2>1 DEF Written

(***************************************************************************)
(* rotate, from the log as flush finds it: the file has gone and a new one *)
(* has been begun, or the log is closed, or the server has been killed.    *)
(***************************************************************************)
LEMMA RotatedIsSound ==
    ASSUME NEW B, NEW d, NEW f, NEW n, NEW s, NEW b, NEW u,
           Sound(B, d, f, n, s, b, u), f # -1, Longest \in Nat,
           NEW r \in Rotated(Log(d, f, n, s, b, u))
    PROVE  IF r.rotated
           THEN \E e, m : /\ r.log = Log(e, 0, m, 0, b, u) /\ Sound(B, e, 0, m, 0, b, u)
                          /\ Disk(e) = Disk(d)
           ELSE Emptied(B, Disk(d), b, Dropped(r.log))
<1> DEFINE l == Log(d, f, n, s, b, u)
           m == FreeNumber(l)
           t == [l EXCEPT !.last = m]
           away == Renamed(t, m)
           e == MovedTo(d, m)
           o == Opened(away)
           g == WithCurrent(e)
<1>1. /\ Kept(B, d) /\ 0 \in DOMAIN d /\ b \in Seq(B) /\ n \in Nat /\ s \in Nat /\ u = TRUE
      /\ n <= Top(d)
  BY DEF Sound
<1>2. m \in Nat /\ m = Top(d) + 1
  <2>1. l.logs = d /\ l.last = n
    BY Fields
  <2>2. PICK k \in Nat : DOMAIN d \ {0} = 1 .. k
    BY <1>1 DEF Kept, Numbered
  <2>3. Top(d) = k
    BY <2>2, TopIs
  <2> DEFINE D == DOMAIN d
  <2>4. D \subseteq Nat /\ IsFiniteSet(D) /\ k \in Nat /\ D \ {0} = 1 .. k /\ n \in Nat /\ n <= k
    BY <1>1, <2>2, <2>3 DEF Kept
  <2>5. m = Min({i \in (n + 1) .. (n + Cardinality(D) + 1) : i \notin D})
    BY <2>1 DEF FreeNumber
  <2> HIDE DEF D, m
  <2>6. Min({i \in (n + 1) .. (n + Cardinality(D) + 1) : i \notin D}) = k + 1
    BY ONLY <2>4, NextNumber
  <2>7. QED
    BY <2>3, <2>4, <2>5, <2>6
<1>3. r \in {[rotated |-> TRUE, log |-> [o EXCEPT !.size = 0]],
             [rotated |-> FALSE, log |-> Closed(t)],
             [rotated |-> FALSE, log |-> Closed(away)],
             [rotated |-> FALSE, log |-> Killed(away)]}
  BY DEF Rotated
<1> HIDE DEF m
<1>4. t = Log(d, f, m, s, b, u)
  BY DEF Log
<1> HIDE DEF t, l
<1>5. /\ away = Log(e, f, m, s, b, u) /\ Kept(B, e) /\ 0 \notin DOMAIN e
      /\ Top(e) = m /\ Disk(e) = Disk(d)
  <2>1. away = Log(e, f, m, s, b, u)
    BY <1>4, Touches
  <2>2. QED
    BY <1>1, <1>2, <2>1, MovesAway
<1> HIDE DEF away, e
<1>0. 0 \in 0 .. Len(b) /\ Disk(d) \o SubSeq(b, 1, 0) = Disk(d)
  BY <1>1, WritesNothing
<1>6. /\ o = Log(g, 0, m, s, b, u) /\ Kept(B, g) /\ 0 \in DOMAIN g /\ g[0] = <<>>
      /\ Top(g) = m /\ Disk(g) = Disk(d)
  <2>1. o = Log(g, 0, m, s, b, u)
    BY <1>5, Touches
  <2>2. QED
    BY <1>5, <2>1, IsThere
<1> HIDE DEF g, o
<1>7. CASE r = [rotated |-> TRUE, log |-> [o EXCEPT !.size = 0]]
  <2>1. r.rotated = TRUE /\ r.log = [o EXCEPT !.size = 0]
    BY <1>7
  <2>2. r.log = Log(g, 0, m, 0, b, u)
    BY <1>6, <2>1 DEF Log
  <2>3. Sound(B, g, 0, m, 0, b, u)
    BY <1>1, <1>2, <1>6 DEF Sound
  <2>4. QED
    BY <1>6, <2>1, <2>2, <2>3
<1>8. CASE r = [rotated |-> FALSE, log |-> Closed(t)]
  <2>1. r.rotated = FALSE /\ r.log = Closed(t)
    BY <1>8
  <2>2. r.log = Log(d, -1, m, s, b, u)
    BY <1>4, <2>1, Forgets
  <2>3. Dropped(r.log) = Log(d, -1, m, s, <<>>, u)
    BY <2>2, Forgets
  <2>4. Sound(B, d, -1, m, s, <<>>, u)
    BY <1>1, <1>2 DEF Sound
  <2>5. QED
    BY <1>0, <2>1, <2>3, <2>4 DEF Emptied
<1>9. CASE r = [rotated |-> FALSE, log |-> Closed(away)]
  <2>1. r.rotated = FALSE /\ r.log = Closed(away)
    BY <1>9
  <2>2. r.log = Log(e, -1, m, s, b, u)
    BY <1>5, <2>1, Forgets
  <2>3. Dropped(r.log) = Log(e, -1, m, s, <<>>, u)
    BY <2>2, Forgets
  <2>4. Sound(B, e, -1, m, s, <<>>, u)
    BY <1>1, <1>2, <1>5 DEF Sound
  <2>5. QED
    BY <1>0, <1>5, <2>1, <2>3, <2>4 DEF Emptied
<1>10. CASE r = [rotated |-> FALSE, log |-> Killed(away)]
  <2>1. r.rotated = FALSE /\ r.log = Killed(away)
    BY <1>10
  <2>2. away = Log(e, f, m, s, b, u)
    BY <1>5
  <2>3. Dropped(r.log) = Log(e, -1, 0, 0, <<>>, Down)
    BY <2>1, <2>2, Dies
  <2>4. Sound(B, e, -1, 0, 0, <<>>, Down)
    BY <1>1, <1>5 DEF Sound, Down
  <2>5. QED
    BY <1>0, <1>5, <2>1, <2>3, <2>4 DEF Emptied
<1>11. QED
  BY <1>3, <1>7, <1>8, <1>9, <1>10

(***************************************************************************)
(* flush as a whole.                                                       *)
(***************************************************************************)
LEMMA FlushIsSound ==
    ASSUME NEW B, NEW d, NEW f, NEW n, NEW s, NEW b, NEW u,
           Sound(B, d, f, n, s, b, u), f # -1,
           Longest \in Nat, MaxSize \in Nat, MaxSize <= Longest, Len(b) <= Longest,
           NEW r \in Flush(Log(d, f, n, s, b, u))
    PROVE  Emptied(B, Disk(d), b, r)
<1> DEFINE l == Log(d, f, n, s, b, u)
<1>1. l.buf = b /\ l.size = s /\ s \in Nat /\ b \in Seq(B) /\ Len(b) \in Nat
  <2>1. s \in Nat /\ b \in Seq(B)
    BY DEF Sound
  <2>2. QED
    BY <2>1, Fields
<1>2. CASE ~ (s + Len(b) > MaxSize)
  <2>1. r \in Written(l) /\ s + Len(b) <= Longest
    BY <1>1, <1>2 DEF Flush
  <2>2. QED
    BY <2>1, WrittenIsSound
<1>3. CASE s + Len(b) > MaxSize
  <2> HIDE DEF l
  <2>1. PICK q \in Rotated(l) : r \in IF q.rotated THEN Written(q.log) ELSE {Dropped(q.log)}
    BY <1>1, <1>3 DEF Flush, l
  <2>2. IF q.rotated
        THEN \E e, m : /\ q.log = Log(e, 0, m, 0, b, u) /\ Sound(B, e, 0, m, 0, b, u)
                       /\ Disk(e) = Disk(d)
        ELSE Emptied(B, Disk(d), b, Dropped(q.log))
    BY <2>1, RotatedIsSound DEF l
  <2>3. CASE q.rotated
    <3>1. PICK e, m : /\ q.log = Log(e, 0, m, 0, b, u) /\ Sound(B, e, 0, m, 0, b, u)
                      /\ Disk(e) = Disk(d)
      BY <2>2, <2>3
    <3>2. r \in Written(Log(e, 0, m, 0, b, u))
      BY <2>1, <2>3, <3>1
    <3>3. 0 + Len(b) <= Longest
      BY <1>1
    <3>4. Emptied(B, Disk(e), b, r)
      BY <3>1, <3>2, <3>3, WrittenIsSound
    <3>5. QED
      BY <3>1, <3>4
  <2>4. CASE ~ q.rotated
    BY <2>1, <2>2, <2>4
  <2>5. QED
    BY <2>3, <2>4
<1>4. QED
  BY <1>2, <1>3

----------------------------------------------------------------------------
(***************************************************************************)
(* The inductive invariant: the log is sound, and what waits for the next  *)
(* flush fits into the buffer.                                             *)
(***************************************************************************)
LogInv ==
    /\ Sound(1 .. count, logs, fd, last, size, buf, up)
    /\ Len(buf) <= BufSize
    /\ count \in 0 .. MaxLines

\* More numbers of lines may appear in a log than those in use.
LEMMA SoundOfMore ==
    ASSUME NEW B, NEW C, B \subseteq C, NEW d, NEW f, NEW n, NEW s, NEW b, NEW u,
           Sound(B, d, f, n, s, b, u)
    PROVE  Sound(C, d, f, n, s, b, u)
<1>1. \A x \in Seq(B) : x \in Seq(C)
  OBVIOUS
<1>2. Kept(C, d)
  <2>1. Kept(B, d)
    BY DEF Sound
  <2>2. d \in [DOMAIN d -> Seq(C)]
    BY <1>1, <2>1 DEF Kept
  <2>3. QED
    BY <2>1, <2>2 DEF Kept
<1>3. QED
  BY <1>1, <1>2 DEF Sound

\* What has become of the log is what the variables say.
LEMMA BecomesFields ==
    ASSUME NEW d, NEW f, NEW n, NEW s, NEW b, NEW u, Becomes(Log(d, f, n, s, b, u))
    PROVE  logs' = d /\ fd' = f /\ last' = n /\ size' = s /\ buf' = b /\ up' = u
<1> DEFINE l == Log(d, f, n, s, b, u)
<1>1. l.logs = d /\ l.fd = f /\ l.last = n /\ l.size = s /\ l.buf = b /\ l.up = u
  BY Fields
<1>2. QED
  BY <1>1 DEF Becomes

\* A log that has been flushed keeps the invariant.
LEMMA EmptiedKeeps ==
    ASSUME NEW w, NEW b, NEW l, Emptied(1 .. count', w, b, l), Becomes(l),
           count' \in 0 .. MaxLines
    PROVE  LogInv'
<1>1. PICK d, f, n, s, u : l = Log(d, f, n, s, <<>>, u) /\ Sound(1 .. count', d, f, n, s, <<>>, u)
  BY DEF Emptied
<1>2. logs' = d /\ fd' = f /\ last' = n /\ size' = s /\ buf' = <<>> /\ up' = u
  BY <1>1, BecomesFields
<1>3. Len(buf') <= BufSize
  BY <1>2, AccessLogAssumption
<1>4. QED
  BY <1>1, <1>2, <1>3 DEF LogInv

\* The log in the files is the one that is read.
LEMMA OnDiskIs == OnDisk = Disk(logs) /\ OnDisk' = Disk(logs')
  BY DEF OnDisk, Current, Rotations, Disk, Old, Newest, Top

(***************************************************************************)
(* A write, in Journal: what has waited is on the disk, or a part of it if *)
(* the log is now closed.                                                  *)
(***************************************************************************)
LEMMA EmptiedWrites ==
    ASSUME NEW b, NEW l, Emptied(1 .. count', Disk(logs), b, l), Becomes(l)
    PROVE  J!Write(b)
<1>1. PICK d, f, n, s, u :
         /\ l = Log(d, f, n, s, <<>>, u) /\ Sound(1 .. count', d, f, n, s, <<>>, u)
         /\ \E k \in 0 .. Len(b) : Disk(d) = Disk(logs) \o SubSeq(b, 1, k) /\ (f # -1 => k = Len(b))
  BY DEF Emptied
<1>2. logs' = d /\ fd' = f /\ buf' = <<>>
  BY <1>1, BecomesFields
<1>3. PICK k \in 0 .. Len(b) :
         Disk(logs') = Disk(logs) \o SubSeq(b, 1, k) /\ (fd' # -1 => k = Len(b))
  BY <1>1, <1>2
<1>4. OnDisk' = OnDisk \o SubSeq(b, 1, k)
  BY <1>3, OnDiskIs
<1>5. QED
  BY <1>2, <1>3, <1>4 DEF J!Write

\* The lines there may be: one call logs one.
Lines == {[i \in 1 .. length |-> n] : length \in Lengths, n \in 1 .. MaxLines}

\* What a step of the log is in Journal.
Journals == J!Next \/ UNCHANGED <<OnDisk, buf, up /\ fd # -1>>

\* A killed server leaves its files as they are.
LEMMA KilledIsSound ==
    ASSUME NEW B, NEW d, NEW f, NEW n, NEW s, NEW b, NEW u, Sound(B, d, f, n, s, b, u)
    PROVE  Emptied(B, Disk(d), b, Killed(Log(d, f, n, s, b, u)))
<1>1. Killed(Log(d, f, n, s, b, u)) = Log(d, -1, 0, 0, <<>>, Down)
  BY Dies
<1>2. Sound(B, d, -1, 0, 0, <<>>, Down)
  BY DEF Sound, Down
<1>3. 0 \in 0 .. Len(b) /\ Disk(d) \o SubSeq(b, 1, 0) = Disk(d)
  BY WritesNothing DEF Sound
<1>4. QED
  BY <1>1, <1>2, <1>3 DEF Emptied

\* Also when it has just written what was in its buffer.
LEMMA KilledWhenEmptied ==
    ASSUME NEW B, NEW w, NEW b, NEW l, Emptied(B, w, b, l)
    PROVE  Emptied(B, w, b, Killed(l))
<1>1. PICK d, f, n, s, u :
         /\ l = Log(d, f, n, s, <<>>, u) /\ Sound(B, d, f, n, s, <<>>, u)
         /\ \E k \in 0 .. Len(b) : Disk(d) = w \o SubSeq(b, 1, k) /\ (f # -1 => k = Len(b))
  BY DEF Emptied
<1>2. Killed(l) = Log(d, -1, 0, 0, <<>>, Down)
  BY <1>1, Dies
<1>3. Sound(B, d, -1, 0, 0, <<>>, Down)
  BY <1>1 DEF Sound, Down
<1>4. \E k \in 0 .. Len(b) : Disk(d) = w \o SubSeq(b, 1, k)
  BY <1>1
<1>5. QED
  BY <1>2, <1>3, <1>4 DEF Emptied

(***************************************************************************)
(* Nothing is on the disk to begin with.                                   *)
(***************************************************************************)
LEMMA LogBegins ==
    ASSUME LogInit
    PROVE  LogInv
<1>1. Kept(1 .. count, logs)
  <2>1. DOMAIN logs = {} /\ logs = [n \in {} |-> <<>>]
    BY DEF LogInit
  <2>2. DOMAIN logs \ {0} = 1 .. 0
    BY <2>1
  <2>3. Numbered(logs)
    BY <2>2 DEF Numbered
  <2>4. QED
    BY <2>1, <2>3, FS_EmptySet DEF Kept
<1>2. Sound(1 .. count, logs, fd, last, size, buf, up)
  <2>1. fd = -1 /\ last = 0 /\ size = 0 /\ buf = <<>>
    BY DEF LogInit
  <2>2. <<>> \in Seq(1 .. count)
    OBVIOUS
  <2>3. up \in BOOLEAN
    BY DEF LogInit
  <2>4. QED
    BY <1>1, <2>1, <2>2, <2>3 DEF Sound
<1>3. Len(buf) <= BufSize /\ count \in 0 .. MaxLines
  BY AccessLogAssumption DEF LogInit
<1>4. QED
  BY <1>2, <1>3 DEF LogInv

(***************************************************************************)
(* A server starts with the number before the first that is missing and at *)
(* the end of the file that is there.                                      *)
(***************************************************************************)
LEMMA CreateKeeps ==
    ASSUME LogInv, Create
    PROVE  LogInv' /\ Journals
<1> DEFINE free == {k \in (0 + 1) .. (0 + Cardinality(DOMAIN logs) + 1) : k \notin DOMAIN logs}
           n == Min(free)
           t == [log EXCEPT !.last = n - 1]
           l == [log EXCEPT !.last = n - 1, !.up = TRUE]
           o == Opened(l)
           e == WithCurrent(logs)
           p == [o EXCEPT !.fd = Len(o.logs[0])]
<1>1. /\ Kept(1 .. count, logs) /\ size \in Nat
      /\ buf = <<>> /\ ~ up
  BY DEF Create, LogInv, Sound
<1>2. n - 1 \in Nat /\ n - 1 = Top(logs)
  <2>1. PICK k \in Nat : DOMAIN logs \ {0} = 1 .. k
    BY <1>1 DEF Kept, Numbered
  <2>2. Top(logs) = k
    BY <2>1, TopIs
  <2>3. PICK m : m = 0
    OBVIOUS
  <2> DEFINE D == DOMAIN logs
  <2>4. D \subseteq Nat /\ IsFiniteSet(D) /\ k \in Nat /\ D \ {0} = 1 .. k /\ m \in Nat /\ m <= k
    BY <1>1, <2>1, <2>3 DEF Kept
  <2>5. n = Min({i \in (m + 1) .. (m + Cardinality(D) + 1) : i \notin D})
    BY <2>3
  <2> HIDE DEF D, n
  <2>6. Min({i \in (m + 1) .. (m + Cardinality(D) + 1) : i \notin D}) = k + 1
    BY ONLY <2>4, NextNumber
  <2>7. n = k + 1
    BY <2>5, <2>6
  <2>8. QED
    BY <2>1, <2>2, <2>7
<1>3. Becomes(AtTheEnd(l)) /\ count' = count
  <2>1. \A c : 0 + c + 1 = 0 + c + 1
    OBVIOUS
  <2>2. free = {k \in 1 .. (Cardinality(DOMAIN logs) + 1) : k \notin DOMAIN logs}
    <3>1. Cardinality(DOMAIN logs) \in Nat
      BY <1>1, FS_CardinalityType DEF Kept
    <3>2. QED
      BY <3>1
  <2>3. QED
    BY <2>2 DEF Create
<1> HIDE DEF n, free
<1>4. l = Log(logs, fd, n - 1, size, buf, TRUE)
  <2>1. log = Log(logs, fd, last, size, buf, up)
    BY DEF log, Log
  <2>2. t = Log(logs, fd, n - 1, size, buf, up)
    BY <2>1 DEF Log
  <2>3. l = [t EXCEPT !.up = TRUE]
    OBVIOUS
  <2> HIDE DEF t, l
  <2>4. QED
    BY <2>2, <2>3 DEF Log
<1>5. PICK u : u = TRUE
  OBVIOUS
<1>6. l = Log(logs, fd, n - 1, size, buf, u)
  BY <1>4, <1>5
<1> HIDE DEF l
<1>7. o = Log(e, 0, n - 1, size, buf, u)
  BY <1>6, Touches
<1>8. /\ Kept(1 .. count, e) /\ 0 \in DOMAIN e
      /\ Top(e) = Top(logs) /\ Disk(e) = Disk(logs)
  BY <1>1, LongestIsLarge, IsThere
<1> HIDE DEF o, e
<1>9. AtTheEnd(l) = Log(e, Len(e[0]), n - 1, Len(e[0]), buf, u)
  <2>1. o.logs = e
    BY <1>7, Fields
  <2>2. AtTheEnd(l) = [p EXCEPT !.size = Len(e[0])]
    BY <2>1 DEF AtTheEnd, o
  <2>3. p = Log(e, Len(e[0]), n - 1, size, buf, u)
    BY <1>7, <2>1 DEF Log
  <2> HIDE DEF p
  <2>4. QED
    BY <2>2, <2>3 DEF Log
<1>10. Sound(1 .. count, e, Len(e[0]), n - 1, Len(e[0]), <<>>, u)
  <2>1. Len(e[0]) \in Nat
    BY <1>8 DEF Kept
  <2>2. QED
    BY <1>2, <1>5, <1>8, <2>1 DEF Sound
<1>11. /\ logs' = e /\ fd' = Len(e[0]) /\ last' = n - 1 /\ size' = Len(e[0])
       /\ buf' = buf /\ up' = u
  BY <1>3, <1>9, BecomesFields
<1>12. LogInv'
  BY <1>1, <1>3, <1>10, <1>11 DEF LogInv
<1>13. OnDisk' = OnDisk
  BY <1>8, <1>11, OnDiskIs
<1>14. Len(e[0]) # -1
  BY <1>10 DEF Sound
<1>15. QED
  BY <1>1, <1>5, <1>11, <1>12, <1>13, <1>14 DEF Journals, J!Next

(***************************************************************************)
(* A line gathers in the buffer, or goes with it into the file.            *)
(***************************************************************************)
LEMMA LogLineKeeps ==
    ASSUME LogInv, LogLine
    PROVE  LogInv' /\ Journals
<1>1. PICK length \in Lengths :
         LET more == [log EXCEPT !.buf = @ \o [i \in 1 .. length |-> count + 1]]
         IN  IF Len(more.buf) <= BufSize THEN Becomes(more) ELSE \E l \in Flush(more) : Becomes(l)
  BY DEF LogLine
<1> DEFINE line == [i \in 1 .. length |-> count + 1]
           b == buf \o line
           more == [log EXCEPT !.buf = b]
<1>2. count' = count + 1 /\ count' \in 0 .. MaxLines /\ count \in Nat /\ up /\ fd # -1
  BY AccessLogAssumption DEF LogLine, LogInv
<1>3. line \in Seq(1 .. count') /\ Len(line) = length
  <2>1. length \in Nat
    BY LongestIsLarge
  <2>2. line \in [1 .. length -> 1 .. count']
    BY <1>2
  <2>3. QED
    BY <2>1, <2>2, SeqDef
<1>4. Sound(1 .. count', logs, fd, last, size, buf, up)
  <2>1. 1 .. count \subseteq 1 .. count'
    BY <1>2
  <2>2. QED
    BY <2>1, SoundOfMore DEF LogInv
<1>5. b \in Seq(1 .. count') /\ Len(b) = Len(buf) + length
  <2>1. buf \in Seq(1 .. count')
    BY <1>4 DEF Sound
  <2> HIDE DEF line
  <2>2. QED
    BY <1>3, <2>1
<1>6. Sound(1 .. count', logs, fd, last, size, b, up)
  BY <1>2, <1>4, <1>5 DEF Sound
<1>7. Len(b) <= Longest /\ Longest \in Nat /\ MaxSize <= Longest /\ MaxSize \in Nat
  <2>1. /\ Longest \in Nat /\ MaxSize <= Longest /\ MaxSize \in Nat
        /\ length \in Nat /\ BufSize \in Nat /\ BufSize + length <= Longest
    BY LongestIsLarge, AccessLogAssumption
  <2>2. Len(buf) \in Nat /\ Len(buf) <= BufSize
    BY DEF LogInv, Sound
  <2>3. QED
    BY <1>5, <2>1, <2>2
<1>8. log = Log(logs, fd, last, size, buf, up) /\ log.buf = buf
  BY DEF log, Log
<1>15. line \in Lines
  BY <1>2 DEF LogLine, Lines
<1> HIDE DEF line
<1>9. more = Log(logs, fd, last, size, b, up)
  <2>1. log = Log(logs, fd, last, size, buf, up)
    BY <1>8
  <2> HIDE DEF b
  <2>2. QED
    BY <2>1 DEF Log
<1>10. more.buf = b
  BY <1>9, Fields
<1> HIDE DEF more
<1>11. IF Len(b) <= BufSize THEN Becomes(more) ELSE \E l \in Flush(more) : Becomes(l)
  BY <1>1, <1>8, <1>10 DEF more, line
<1> HIDE DEF b
<1>12. CASE Len(b) <= BufSize
  <2>1. Becomes(Log(logs, fd, last, size, b, up))
    BY <1>9, <1>11, <1>12
  <2>2. logs' = logs /\ fd' = fd /\ last' = last /\ size' = size /\ buf' = b /\ up' = up
    BY <2>1, BecomesFields
  <2>3. OnDisk' = OnDisk
    BY <2>2, OnDiskIs
  <2>4. J!Log
    BY <1>15, <2>2, <2>3 DEF J!Log, Lines, b
  <2>5. QED
    BY <1>2, <1>6, <1>12, <2>2, <2>4 DEF LogInv, Journals, J!Next
<1>13. CASE ~ (Len(b) <= BufSize)
  <2>1. PICK l \in Flush(Log(logs, fd, last, size, b, up)) : Becomes(l)
    BY <1>9, <1>11, <1>13
  <2>2. Emptied(1 .. count', Disk(logs), b, l)
    BY <1>2, <1>6, <1>7, <2>1, FlushIsSound
  <2>3. LogInv' /\ J!Write(b)
    BY <1>2, <2>1, <2>2, EmptiedKeeps, EmptiedWrites
  <2>4. J!Log
    BY <1>15, <2>3 DEF J!Log, Lines, b
  <2>5. QED
    BY <1>2, <2>3, <2>4 DEF Journals, J!Next
<1>14. QED
  BY <1>12, <1>13

(***************************************************************************)
(* The alarm, the end of the server and its death.                         *)
(***************************************************************************)
LEMMA FlushKeeps ==
    ASSUME LogInv, fd # -1, NEW l \in Flush(log)
    PROVE  Emptied(1 .. count, Disk(logs), buf, l)
<1>1. log = Log(logs, fd, last, size, buf, up)
  BY DEF log, Log
<1>2. Longest \in Nat /\ MaxSize <= Longest /\ MaxSize \in Nat /\ Len(buf) <= Longest
  <2>1. Longest \in Nat /\ MaxSize <= Longest /\ \A k \in Lengths : k \in Nat /\ BufSize + k <= Longest
    BY LongestIsLarge
  <2>2. PICK k \in Lengths : TRUE
    BY AccessLogAssumption
  <2>3. MaxSize \in Nat /\ BufSize \in Nat /\ k \in Nat /\ BufSize + k <= Longest
    BY <2>1, AccessLogAssumption
  <2>4. Len(buf) \in Nat /\ Len(buf) <= BufSize
    BY DEF LogInv, Sound
  <2>5. QED
    BY <2>1, <2>3, <2>4
<1>3. QED
  BY <1>1, <1>2, FlushIsSound DEF LogInv

\* access_log::sync, run by the alarm.
LEMMA SyncKeeps ==
    ASSUME LogInv, Sync
    PROVE  LogInv' /\ Journals
<1>1. PICK l \in Flush(log) : Becomes(l)
  BY DEF Sync
<1>2. up /\ fd # -1 /\ count' = count /\ count \in 0 .. MaxLines
  BY DEF Sync, LogInv
<1>3. Emptied(1 .. count', Disk(logs), buf, l)
  BY <1>1, <1>2, FlushKeeps
<1>4. LogInv' /\ J!Write(buf)
  BY <1>1, <1>2, <1>3, EmptiedKeeps, EmptiedWrites
<1>5. QED
  BY <1>2, <1>4 DEF Journals, J!Next

\* A server that ends has written what was buffered, or a part of it; if its log
\* was closed already, nothing changes.
LEMMA KilledJournals ==
    ASSUME LogInv, NEW l, Emptied(1 .. count', Disk(logs), buf, Killed(l)), Becomes(Killed(l)),
           count' \in 0 .. MaxLines
    PROVE  LogInv' /\ Journals
<1>1. LogInv' /\ J!Write(buf)
  BY EmptiedKeeps, EmptiedWrites
<1>2. CASE up /\ fd # -1
  BY <1>1, <1>2 DEF Journals, J!Next
<1>3. CASE ~ (up /\ fd # -1)
  <2>1. buf = <<>> /\ fd = -1
    BY <1>3 DEF LogInv, Sound
  <2>2. buf' = <<>> /\ fd' = -1
    BY DEF Becomes, Killed
  <2>3. PICK k \in 0 .. Len(buf) : OnDisk' = OnDisk \o SubSeq(buf, 1, k)
    BY <1>1 DEF J!Write
  <2>4. SubSeq(buf, 1, k) = SubSeq(buf, 1, 0)
    BY <2>1, <2>3
  <2>5. OnDisk' = OnDisk
    BY <2>1, <2>3, <2>4, OnDiskIs, WritesNothing DEF LogInv, Sound
  <2>6. QED
    BY <1>1, <2>1, <2>2, <2>5 DEF Journals
<1>4. QED
  BY <1>2, <1>3

\* The server stops: what is buffered is written.
LEMMA StopKeeps ==
    ASSUME LogInv, Stop
    PROVE  LogInv' /\ Journals
<1>1. PICK l \in (IF fd # -1 /\ buf # <<>> THEN Flush(log) ELSE {log}) : Becomes(Killed(l))
  BY DEF Stop
<1>2. count' = count /\ count \in 0 .. MaxLines
  BY DEF Stop, LogInv
<1>3. Emptied(1 .. count', Disk(logs), buf, Killed(l))
  <2>1. CASE fd # -1 /\ buf # <<>>
    <3>1. Emptied(1 .. count, Disk(logs), buf, l)
      BY <1>1, <2>1, FlushKeeps
    <3>2. QED
      BY <1>2, <3>1, KilledWhenEmptied
  <2>2. CASE ~ (fd # -1 /\ buf # <<>>)
    <3>1. l = Log(logs, fd, last, size, buf, up)
      BY <1>1, <2>2 DEF log, Log
    <3>2. QED
      BY <1>2, <3>1, KilledIsSound DEF LogInv
  <2>3. QED
    BY <2>1, <2>2
<1>4. QED
  BY <1>1, <1>2, <1>3, KilledJournals

\* The process is killed: what is buffered is lost, the file is not.
LEMMA CrashKeeps ==
    ASSUME LogInv, Crash
    PROVE  LogInv' /\ Journals
<1>1. log = Log(logs, fd, last, size, buf, up)
  BY DEF log, Log
<1>2. Becomes(Killed(log)) /\ count' = count /\ count \in 0 .. MaxLines
  BY DEF Crash, LogInv
<1>3. Emptied(1 .. count', Disk(logs), buf, Killed(log))
  BY <1>1, <1>2, KilledIsSound DEF LogInv
<1>4. QED
  BY <1>2, <1>3, KilledJournals

----------------------------------------------------------------------------
(***************************************************************************)
(* The log is sound after every call, rotation, failure, crash and restart.*)
(***************************************************************************)
THEOREM LogInvariant == LogSpec => []LogInv
<1>1. LogInit => LogInv
  BY LogBegins
<1>2. LogInv /\ [LogNext]_logVars => LogInv'
  <2> SUFFICES ASSUME LogInv, [LogNext]_logVars PROVE LogInv'
    OBVIOUS
  <2>1. CASE Create
    BY <2>1, CreateKeeps
  <2>2. CASE LogLine
    BY <2>2, LogLineKeeps
  <2>3. CASE Sync
    BY <2>3, SyncKeeps
  <2>4. CASE Stop
    BY <2>4, StopKeeps
  <2>5. CASE Crash
    BY <2>5, CrashKeeps
  <2>6. CASE UNCHANGED logVars
    BY <2>6 DEF logVars, LogInv, Sound, Kept
  <2>7. QED
    BY <2>1, <2>2, <2>3, <2>4, <2>5, <2>6 DEF LogNext
<1>3. QED
  BY <1>1, <1>2, PTL DEF LogSpec

(***************************************************************************)
(* The log is a journal: rotations, failures, crashes and restarts take    *)
(* nothing away from what is on the disk, overwrite and reorder nothing,   *)
(* and while it stays open no line of it gets lost.                        *)
(***************************************************************************)
THEOREM LogImplementsJournal == LogSpec => IsJournal
<1>1. LogInit => J!Init
  <2> SUFFICES ASSUME LogInit PROVE J!Init
    OBVIOUS
  <2>1. DOMAIN logs = {} /\ buf = <<>> /\ up = FALSE
    BY DEF LogInit
  <2>2. Top(logs) = 0
    <3>1. DOMAIN logs \ {0} = 1 .. 0
      BY <2>1
    <3>2. QED
      BY <3>1, TopIs
  <2>3. Old(logs, 0) = <<>>
    BY NoneIsOld
  <2>4. OnDisk = <<>>
    BY <2>1, <2>2, <2>3, OnDiskIs DEF Disk, Newest
  <2>5. QED
    BY <2>1, <2>4 DEF J!Init
<1>2. LogInv /\ [LogNext]_logVars => [J!Next]_<<OnDisk, buf, up /\ fd # -1>>
  <2> SUFFICES ASSUME LogInv, [LogNext]_logVars PROVE Journals
    BY DEF Journals
  <2>1. CASE UNCHANGED logVars
    <3>1. logs' = logs /\ fd' = fd /\ buf' = buf /\ up' = up
      BY <2>1 DEF logVars
    <3>2. OnDisk' = OnDisk
      BY <3>1, OnDiskIs
    <3>3. QED
      BY <3>1, <3>2 DEF Journals
  <2>2. QED
    BY <2>1, CreateKeeps, LogLineKeeps, SyncKeeps, StopKeeps, CrashKeeps DEF LogNext
<1>3. QED
  BY <1>1, <1>2, LogInvariant, PTL DEF LogSpec, IsJournal, J!Spec

(***************************************************************************)
(* A file grows above access_log_max_file_size only by a buffer that would *)
(* not fit in any, and _M_size never loses track of the file.              *)
(***************************************************************************)
THEOREM FilesStaySmall == LogSpec => []FilesFit
<1>1. LogInv => FilesFit
  <2> SUFFICES ASSUME LogInv PROVE FilesFit
    OBVIOUS
  <2>1. \A n \in DOMAIN logs : Len(logs[n]) <= Longest
    BY DEF LogInv, Sound, Kept
  <2>2. up /\ fd # -1 => size = Len(Current) /\ fd = size
    BY DEF LogInv, Sound, Current
  <2>3. QED
    BY <2>1, <2>2 DEF FilesFit, Longest
<1>2. QED
  BY <1>1, LogInvariant, PTL

==============================================================================
