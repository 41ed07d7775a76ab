------------------------ MODULE HttpConnection_proofs ------------------------
(***************************************************************************)
(* Proofs about a client's connection, for any number of requests, of any  *)
(* size, cut anywhere, and for every size of the reads and of the payload  *)
(* kept in memory.                                                         *)
(***************************************************************************)
EXTENDS HttpConnection, FiniteSetTheorems, SequenceTheorems, WellFoundedInduction, TLAPS

(***************************************************************************)
(* What is true of n + 1, and of each number below it once it is true of   *)
(* the next, is true from 1 on: for the requests, of which each is followed*)
(* by the rest.                                                            *)
(***************************************************************************)
LEMMA FromTheEnd ==
    ASSUME NEW n \in Nat, NEW S, n + 1 \in S,
           \A k \in 1 .. n : k + 1 \in S => k \in S
    PROVE  1 .. (n + 1) \subseteq S
<1> DEFINE R == OpToRel(<, Nat)
           Bad == {m \in Nat : m <= n /\ n + 1 - m \notin S}
<1> SUFFICES ASSUME NEW k \in 1 .. (n + 1), k \notin S PROVE FALSE
  OBVIOUS
<1>1. n + 1 - k \in Bad
  <2>1. n + 1 - k \in Nat /\ n + 1 - k <= n /\ n + 1 - (n + 1 - k) = k
    OBVIOUS
  <2>2. QED
    BY <2>1
<1>2. IsWellFoundedOn(R, Nat)
  BY NatLessThanWellFounded
<1>3. \A x, y \in Nat : y < x => <<y, x>> \in R
  BY DEF OpToRel
<1> HIDE DEF R
<1>4. PICK m \in Bad : \A y \in Bad : ~ (<<y, m>> \in R)
  <2>1. Bad \subseteq Nat /\ Bad # {}
    BY <1>1
  <2> HIDE DEF Bad
  <2>2. QED
    BY <1>2, <2>1, WFMin
<1>5. m # 0
  BY <1>4
<1>6. m - 1 \in Nat /\ m - 1 <= n /\ m - 1 \notin Bad
  <2>1. m \in Nat /\ m <= n
    BY <1>4
  <2>2. m - 1 \in Nat /\ m - 1 < m
    BY <1>5, <2>1
  <2>3. <<m - 1, m>> \in R
    BY <1>3, <2>1, <2>2
  <2> HIDE DEF Bad
  <2>4. m - 1 \notin Bad
    BY <1>4, <2>3
  <2>5. QED
    BY <2>1, <2>2, <2>4
<1>7. n + 1 - (m - 1) \in S
  BY <1>6
<1>8. n + 1 - m \in 1 .. n /\ (n + 1 - m) + 1 = n + 1 - (m - 1)
  BY <1>4, <1>5
<1>9. n + 1 - m \in S
  BY <1>7, <1>8
<1>10. QED
  BY <1>4, <1>9

----------------------------------------------------------------------------
(***************************************************************************)
(* Sequences without their first pieces.                                   *)
(***************************************************************************)
Drop(s, k) == SubSeq(s, k + 1, Len(s))

\* What is left without the first k.
LEMMA DropIs ==
    ASSUME NEW S, NEW s \in Seq(S), NEW k \in 0 .. Len(s)
    PROVE  /\ Drop(s, k) \in Seq(S)
           /\ Len(Drop(s, k)) = Len(s) - k
           /\ \A i \in 1 .. (Len(s) - k) : Drop(s, k)[i] = s[k + i]
<1>1. Len(s) \in Nat /\ k \in Nat /\ k <= Len(s)
  OBVIOUS
<1>2. \A i \in (k + 1) .. Len(s) : s[i] \in S
  BY <1>1
<1>3. Drop(s, k) \in Seq(S) /\ Len(Drop(s, k)) = Len(s) - k
  BY <1>1, <1>2 DEF Drop
<1>4. QED
  BY <1>1, <1>3 DEF Drop

\* The beginning and the rest.
LEMMA Cut ==
    ASSUME NEW S, NEW s \in Seq(S), NEW k \in 0 .. Len(s)
    PROVE  /\ SubSeq(s, 1, k) \in Seq(S) /\ Len(SubSeq(s, 1, k)) = k
           /\ \A i \in 1 .. k : SubSeq(s, 1, k)[i] = s[i]
           /\ SubSeq(s, 1, k) \o Drop(s, k) = s
<1>1. Len(s) \in Nat /\ k \in Nat /\ k <= Len(s)
  OBVIOUS
<1>2. \A i \in 1 .. k : s[i] \in S
  BY <1>1
<1>3. SubSeq(s, 1, k) \in Seq(S) /\ Len(SubSeq(s, 1, k)) = k
  BY <1>1, <1>2
<1>4. \A i \in 1 .. k : SubSeq(s, 1, k)[i] = s[i]
  BY <1>1
<1> DEFINE a == SubSeq(s, 1, k)
           d == Drop(s, k)
           t == a \o d
<1>5. d \in Seq(S) /\ Len(d) = Len(s) - k /\ \A i \in 1 .. (Len(s) - k) : d[i] = s[k + i]
  BY DropIs
<1> HIDE DEF a, d
<1>6. a \in Seq(S) /\ Len(a) = k /\ \A i \in 1 .. k : a[i] = s[i]
  BY <1>3, <1>4 DEF a
<1>7. t \in Seq(S) /\ Len(t) = Len(s)
      /\ \A i \in 1 .. Len(s) : t[i] = IF i <= k THEN a[i] ELSE d[i - k]
  <2>1. /\ t \in Seq(S)
        /\ Len(t) = Len(a) + Len(d)
        /\ \A i \in 1 .. (Len(a) + Len(d)) : t[i] = IF i <= Len(a) THEN a[i] ELSE d[i - Len(a)]
    BY <1>6, <1>5, ConcatProperties
  <2>2. Len(a) + Len(d) = Len(s)
    BY <1>1, <1>6, <1>5
  <2>3. QED
    BY <1>6, <2>1, <2>2
<1> HIDE DEF t
<1>8. \A i \in 1 .. Len(s) : t[i] = s[i]
  <2> TAKE i \in 1 .. Len(s)
  <2>1. CASE i <= k
    <3>1. i \in 1 .. k
      BY <1>1, <2>1
    <3>2. QED
      BY <1>7, <1>6, <2>1, <3>1
  <2>2. CASE i > k
    <3>1. i - k \in 1 .. (Len(s) - k) /\ k + (i - k) = i /\ ~ (i <= k)
      BY <1>1, <2>2
    <3>2. t[i] = d[i - k]
      BY <1>7, <3>1
    <3>3. d[i - k] = s[k + (i - k)]
      BY <1>5, <3>1
    <3>4. QED
      BY <3>1, <3>2, <3>3
  <2>3. i <= k \/ i > k
    BY <1>1
  <2>4. QED
    BY <2>1, <2>2, <2>3
<1>9. t = s
  BY <1>7, <1>8, SeqEqual
<1>10. QED
  BY <1>3, <1>4, <1>9 DEF t, a, d

\* Three sequences can be put together in either order.
LEMMA Associative ==
    \A a, b, c \in Seq(Piece) : (a \o b) \o c = a \o (b \o c)
<1> SUFFICES ASSUME NEW a \in Seq(Piece), NEW b \in Seq(Piece), NEW c \in Seq(Piece)
             PROVE  (a \o b) \o c = a \o (b \o c)
  OBVIOUS
<1>1. QED
  OBVIOUS

\* What is dropped of two sequences that follow one another.
LEMMA DropOfTwo ==
    ASSUME NEW S, NEW s \in Seq(S), NEW t \in Seq(S)
    PROVE  /\ \A k \in 0 .. Len(s) : Drop(s \o t, k) = Drop(s, k) \o t
           /\ Drop(s \o t, Len(s)) = t
<1>1. ASSUME NEW k \in 0 .. Len(s) PROVE Drop(s \o t, k) = Drop(s, k) \o t
  <2>1. k \in 0 .. Len(s \o t) /\ Len(s \o t) = Len(s) + Len(t) /\ s \o t \in Seq(S)
    OBVIOUS
  <2> DEFINE w == s \o t
             u == Drop(w, k)
             d == Drop(s, k)
             v == d \o t
             m == Len(s) - k
  <2>2. /\ w \in Seq(S) /\ Len(w) = Len(s) + Len(t) /\ k \in 0 .. Len(w)
        /\ \A i \in 1 .. (Len(s) + Len(t)) :
              w[i] = IF i <= Len(s) THEN s[i] ELSE t[i - Len(s)]
    BY <2>1, ConcatProperties
  <2> HIDE DEF w
  <2>3. d \in Seq(S) /\ Len(d) = m /\ \A i \in 1 .. m : d[i] = s[k + i]
    BY DropIs
  <2>4. u \in Seq(S) /\ Len(u) = Len(w) - k /\ \A i \in 1 .. (Len(w) - k) : u[i] = w[k + i]
    <3>1. w \in Seq(S) /\ k \in 0 .. Len(w)
      BY <2>2
    <3>2. QED
      BY <3>1, DropIs
  <2> HIDE DEF d, u
  <2>5. /\ v \in Seq(S) /\ Len(v) = Len(d) + Len(t)
        /\ \A i \in 1 .. (Len(d) + Len(t)) : v[i] = IF i <= Len(d) THEN d[i] ELSE t[i - Len(d)]
    BY <2>3, ConcatProperties
  <2> HIDE DEF v
  <2>6. /\ Len(s) \in Nat /\ Len(t) \in Nat /\ k \in Nat /\ k <= Len(s) /\ m \in Nat
        /\ Len(w) - k = m + Len(t) /\ Len(d) + Len(t) = m + Len(t)
    BY <2>2, <2>3
  <2>7. Len(u) = m + Len(t) /\ Len(v) = m + Len(t)
    BY <2>4, <2>5, <2>6
  <2>8. \A i \in 1 .. Len(u) : u[i] = v[i]
    <3> TAKE i \in 1 .. Len(u)
    <3> HIDE DEF m
    <3>1. i \in 1 .. (m + Len(t)) /\ i \in 1 .. (Len(w) - k) /\ i \in 1 .. (Len(d) + Len(t))
      BY <2>6, <2>7
    <3>2. k + i \in 1 .. (Len(s) + Len(t)) /\ (k + i <= Len(s) <=> i <= m) /\ (k + i) - Len(s) = i - m
      <4>1. i \in Nat /\ i >= 1 /\ i <= (Len(s) - k) + Len(t)
        BY <2>6, <3>1 DEF m
      <4>2. QED
        BY <2>6, <4>1 DEF m
    <3>3. u[i] = w[k + i]
      BY <2>4, <3>1
    <3>4. w[k + i] = IF i <= m THEN s[k + i] ELSE t[i - m]
      BY <2>2, <3>2
    <3>5. v[i] = IF i <= m THEN d[i] ELSE t[i - m]
      <4>1. Len(d) = m
        BY <2>3
      <4>2. QED
        BY <2>5, <3>1, <4>1
    <3>6. i <= m => d[i] = s[k + i]
      <4>1. i <= m => i \in 1 .. m
        BY <2>6, <3>1
      <4>2. QED
        BY <4>1, <2>3
    <3>7. QED
      BY <3>3, <3>4, <3>5, <3>6
  <2>9. u = v
    BY <2>4, <2>5, <2>7, <2>8, SeqEqual
  <2>10. QED
    BY <2>9 DEF u, v, w, d
<1>2. Drop(s \o t, Len(s)) = t
  <2>1. Drop(s, Len(s)) = <<>>
    BY DEF Drop
  <2>2. Len(s) \in 0 .. Len(s) /\ <<>> \o t = t
    OBVIOUS
  <2>3. QED
    BY <1>1, <2>1, <2>2
<1>3. QED
  BY <1>1, <1>2

\* To drop some and then others is to drop all of them.
LEMMA DropTwice ==
    ASSUME NEW S, NEW s \in Seq(S), NEW j \in Nat, NEW k \in Nat, j + k <= Len(s)
    PROVE  Drop(Drop(s, j), k) = Drop(s, j + k)
<1> DEFINE d == Drop(s, j)
           u == Drop(d, k)
           v == Drop(s, j + k)
<1>1. d \in Seq(S) /\ Len(d) = Len(s) - j /\ \A i \in 1 .. (Len(s) - j) : d[i] = s[j + i]
  BY DropIs, SMTT(40)
<1>2. v \in Seq(S) /\ Len(v) = Len(s) - (j + k)
      /\ \A i \in 1 .. (Len(s) - (j + k)) : v[i] = s[j + k + i]
  <2>1. j + k \in 0 .. Len(s)
    OBVIOUS
  <2>2. QED
    BY <2>1, DropIs
<1> HIDE DEF d, v
<1>3. u \in Seq(S) /\ Len(u) = Len(d) - k /\ \A i \in 1 .. (Len(d) - k) : u[i] = d[k + i]
  <2>1. k \in 0 .. Len(d)
    BY <1>1
  <2>2. QED
    BY <1>1, <2>1, DropIs
<1> HIDE DEF u
<1>4. \A i \in 1 .. Len(u) : u[i] = v[i]
  <2> TAKE i \in 1 .. Len(u)
  <2>1. i \in 1 .. (Len(s) - (j + k)) /\ k + i \in 1 .. (Len(s) - j) /\ i \in 1 .. (Len(d) - k)
    BY <1>1, <1>3
  <2>2. u[i] = s[j + (k + i)]
    BY <1>1, <1>3, <2>1
  <2>3. j + (k + i) = j + k + i
    BY <2>1
  <2>4. QED
    BY <1>2, <2>1, <2>2, <2>3
<1>5. u = v
  <2>1. Len(u) = Len(v)
    BY <1>1, <1>2, <1>3
  <2>2. QED
    BY <1>2, <1>3, <1>4, <2>1, SeqEqual
<1>6. QED
  BY <1>5 DEF u, v, d

\* Two that are equal begin with what they begin with.
LEMMA SameBeginning ==
    ASSUME NEW S, NEW a \in Seq(S), NEW b \in Seq(S), NEW c \in Seq(S), NEW d \in Seq(S),
           a \o b = c \o d
    PROVE  \A i \in 1 .. Len(a) : i <= Len(c) => a[i] = c[i]
<1> TAKE i \in 1 .. Len(a)
<1>1. (a \o b)[i] = a[i]
  OBVIOUS
<1>2. i <= Len(c) => (c \o d)[i] = c[i]
  OBVIOUS
<1>3. QED
  BY <1>1, <1>2

----------------------------------------------------------------------------
(***************************************************************************)
(* What the client sends.                                                  *)
(***************************************************************************)
Line(i) == [req |-> i, part |-> "line"]

Headers(i) == [req |-> i, part |-> "headers"]

Last(i) == [req |-> i, part |-> "end"]

Data(i, n) == [k \in 1 .. n |-> [req |-> i, part |-> "data"]]

\* From the n-th last piece of the body of the i-th request of s on.
Behind(s, i, n) ==
    Data(i, n) \o ((IF s[i].kind = "chunked" THEN <<Last(i)>> ELSE <<>>) \o StreamFrom(s, i + 1))

\* Pieces of a body are pieces.
LEMMA DataIs ==
    ASSUME NEW i \in Nat, NEW n \in Nat
    PROVE  /\ Data(i, n) \in Seq(Piece) /\ Len(Data(i, n)) = n
           /\ \A k \in 1 .. n : Data(i, n)[k] = [req |-> i, part |-> "data"]
<1>1. Data(i, n) \in [1 .. n -> Piece]
  BY DEF Data, Piece
<1>2. QED
  BY <1>1, SeqDef DEF Data

\* Some of a body, and the rest of it.
LEMMA DataOfTwo ==
    ASSUME NEW i \in Nat, NEW m \in Nat, NEW n \in Nat
    PROVE  Data(i, m) \o Data(i, n) = Data(i, m + n)
<1> DEFINE a == Data(i, m)
           b == Data(i, n)
           c == Data(i, m + n)
<1>1. /\ a \in Seq(Piece) /\ Len(a) = m
      /\ \A k \in 1 .. m : a[k] = [req |-> i, part |-> "data"]
  BY DataIs
<1>2. /\ b \in Seq(Piece) /\ Len(b) = n
      /\ \A k \in 1 .. n : b[k] = [req |-> i, part |-> "data"]
  BY DataIs
<1>3. /\ c \in Seq(Piece) /\ Len(c) = m + n
      /\ \A k \in 1 .. (m + n) : c[k] = [req |-> i, part |-> "data"]
  <2>1. m + n \in Nat
    OBVIOUS
  <2>2. QED
    BY <2>1, DataIs
<1> HIDE DEF a, b, c
<1> DEFINE d == a \o b
<1>4. d \in Seq(Piece) /\ Len(d) = m + n
  BY <1>1, <1>2
<1>5. \A k \in 1 .. (m + n) : d[k] = c[k]
  <2> TAKE k \in 1 .. (m + n)
  <2>1. CASE k <= m
    <3>1. d[k] = a[k] /\ k \in 1 .. m
      BY <1>1, <1>2, <2>1
    <3>2. QED
      BY <1>1, <1>3, <3>1
  <2>2. CASE k > m
    <3>1. d[k] = b[k - m] /\ k - m \in 1 .. n
      BY <1>1, <1>2, <2>2
    <3>2. QED
      BY <1>2, <1>3, <3>1
  <2>3. k <= m \/ k > m
    OBVIOUS
  <2>4. QED
    BY <2>1, <2>2, <2>3
<1> HIDE DEF d
<1>6. d = c
  BY <1>3, <1>4, <1>5, SeqEqual
<1>7. QED
  BY <1>6 DEF a, b, c, d

(***************************************************************************)
(* The stream of the requests from the i-th on is its pieces, followed by  *)
(* the stream of the next.                                                 *)
(***************************************************************************)
LEMMA StreamUnfolds ==
    ASSUME NEW s, Len(s) \in Nat
    PROVE  /\ StreamFrom(s, Len(s) + 1) = <<>>
           /\ \A i \in 1 .. Len(s) : StreamFrom(s, i) = Pieces(i, s[i]) \o StreamFrom(s, i + 1)
<1> DEFINE n == Len(s)
           Rule(k, f) == [j \in k .. (n + 1) |-> IF j > n THEN <<>> ELSE Pieces(j, s[j]) \o f[j + 1]]
           Some(k) == \E f : f = Rule(k, f)
           S == {k \in 1 .. (n + 1) : Some(k)}
<1>1. Some(n + 1)
  <2> DEFINE f == [j \in (n + 1) .. (n + 1) |-> <<>>]
  <2>1. \A j \in (n + 1) .. (n + 1) : j > n
    OBVIOUS
  <2>2. f = Rule(n + 1, f)
    BY <2>1
  <2>3. QED
    BY <2>2
<1>2. ASSUME NEW k \in 1 .. n, Some(k + 1) PROVE Some(k)
  <2>1. PICK f : f = Rule(k + 1, f)
    BY <1>2
  <2> DEFINE g == [j \in k .. (n + 1) |-> IF j = k THEN Pieces(k, s[k]) \o f[k + 1] ELSE f[j]]
  <2>2. \A j \in (k + 1) .. (n + 1) : g[j] = f[j]
    OBVIOUS
  <2>3. \A j \in k .. (n + 1) : g[j] = IF j > n THEN <<>> ELSE Pieces(j, s[j]) \o g[j + 1]
    <3> TAKE j \in k .. (n + 1)
    <3>1. CASE j = k
      <4>1. g[j] = Pieces(k, s[k]) \o f[k + 1] /\ g[k + 1] = f[k + 1] /\ ~ (j > n)
        <5>1. k + 1 \in (k + 1) .. (n + 1) /\ k \in k .. (n + 1) /\ ~ (k > n)
          OBVIOUS
        <5>2. QED
          BY <2>2, <3>1, <5>1
      <4>2. QED
        BY <3>1, <4>1
    <3>2. CASE j # k
      <4>1. j \in (k + 1) .. (n + 1) /\ (~ (j > n) => j + 1 \in (k + 1) .. (n + 1))
        BY <3>2
      <4>2. f[j] = IF j > n THEN <<>> ELSE Pieces(j, s[j]) \o f[j + 1]
        BY <2>1, <4>1
      <4>3. QED
        BY <2>2, <4>1, <4>2
    <3>3. QED
      BY <3>1, <3>2
  <2>4. g = Rule(k, g)
    BY <2>3
  <2>5. QED
    BY <2>4
<1>3. Some(1)
  <2> HIDE DEF Some
  <2>1. n + 1 \in S /\ \A k \in 1 .. n : k + 1 \in S => k \in S
    BY <1>1, <1>2
  <2> HIDE DEF S
  <2>2. 1 .. (n + 1) \subseteq S
    BY <2>1, FromTheEnd
  <2>3. 1 \in 1 .. (n + 1)
    OBVIOUS
  <2>4. QED
    BY <2>2, <2>3 DEF S
<1> DEFINE from == CHOOSE f : f = Rule(1, f)
<1>4. from = Rule(1, from)
  BY <1>3
<1>5. \A i : StreamFrom(s, i) = from[i]
  BY DEF StreamFrom
<1> HIDE DEF from
<1>6. \A i \in 1 .. (n + 1) : from[i] = IF i > n THEN <<>> ELSE Pieces(i, s[i]) \o from[i + 1]
  BY <1>4
<1>7. n + 1 \in 1 .. (n + 1) /\ n + 1 > n
  OBVIOUS
<1>8. \A i \in 1 .. n : i \in 1 .. (n + 1) /\ ~ (i > n)
  OBVIOUS
<1>9. QED
  BY <1>5, <1>6, <1>7, <1>8

\* A request.
LEMMA RequestIs ==
    ASSUME NEW r \in Request
    PROVE  r.kind \in Kinds /\ r.size \in Nat /\ r.keep \in BOOLEAN
<1>1. r.kind \in Kinds /\ r.size \in {0} \cup Sizes /\ r.keep \in BOOLEAN
  BY DEF Request
<1>2. \A x : x \in {0} \cup Sizes => x \in Nat
  BY HttpConnectionAssumption
<1>3. r.size \in Nat
  BY <1>1, <1>2, Zenon
<1>4. QED
  BY <1>1, <1>3

\* The pieces of one request.
LEMMA PiecesAre ==
    ASSUME NEW i \in Nat, NEW r \in Request
    PROVE  LET e == IF r.kind = "chunked" THEN <<Last(i)>> ELSE <<>>
           IN  /\ Pieces(i, r) = <<Line(i), Headers(i)>> \o (Data(i, r.size) \o e)
               /\ Pieces(i, r) \in Seq(Piece)
               /\ e \in Seq(Piece) /\ <<Line(i), Headers(i)>> \in Seq(Piece)
               /\ Data(i, r.size) \in Seq(Piece)
<1> DEFINE e == IF r.kind = "chunked" THEN <<Last(i)>> ELSE <<>>
           h == <<Line(i), Headers(i)>>
           b == Data(i, r.size)
<1>1. e \in Seq(Piece) /\ h \in Seq(Piece)
  <2>1. Line(i) \in Piece /\ Headers(i) \in Piece /\ Last(i) \in Piece
    BY DEF Piece, Last, Line, Headers
  <2>2. QED
    BY <2>1
<1>2. b \in Seq(Piece)
  <2>1. r.size \in Nat
    BY RequestIs
  <2>2. QED
    BY <2>1, DataIs
<1>3. Pieces(i, r) = h \o b \o e
  BY DEF Pieces, Body, Data, Line, Headers, Last
<1> HIDE DEF e, h, b
<1>4. h \o b \o e = h \o (b \o e) /\ h \o b \o e \in Seq(Piece)
  BY <1>1, <1>2
<1>5. QED
  BY <1>1, <1>2, <1>3, <1>4 DEF e, h, b

\* What is sent is made of pieces.
LEMMA StreamTyped ==
    ASSUME NEW s \in Seq(Request)
    PROVE  \A i \in 1 .. (Len(s) + 1) : StreamFrom(s, i) \in Seq(Piece)
<1> DEFINE n == Len(s)
           S == {i \in 1 .. (n + 1) : StreamFrom(s, i) \in Seq(Piece)}
<1>1. n \in Nat
  OBVIOUS
<1>2. n + 1 \in S
  <2>1. StreamFrom(s, n + 1) = <<>>
    BY <1>1, StreamUnfolds
  <2>2. <<>> \in Seq(Piece) /\ n + 1 \in 1 .. (n + 1)
    BY <1>1
  <2>3. QED
    BY <2>1, <2>2
<1>3. ASSUME NEW i \in 1 .. n, i + 1 \in S PROVE i \in S
  <2>1. i \in Nat /\ s[i] \in Request
    BY <1>1
  <2>2. Pieces(i, s[i]) \in Seq(Piece)
    BY <2>1, PiecesAre
  <2>3. StreamFrom(s, i) = Pieces(i, s[i]) \o StreamFrom(s, i + 1)
    BY <1>1, StreamUnfolds
  <2>4. StreamFrom(s, i + 1) \in Seq(Piece)
    BY <1>3
  <2>5. Pieces(i, s[i]) \o StreamFrom(s, i + 1) \in Seq(Piece)
    BY <2>2, <2>4
  <2>6. StreamFrom(s, i) \in Seq(Piece)
    BY <2>3, <2>5
  <2>7. i \in 1 .. (n + 1)
    BY <1>1
  <2>8. QED
    BY <2>6, <2>7
<1>4. QED
  <2>0. \A k \in 1 .. n : k + 1 \in S => k \in S
    BY <1>3
  <2> HIDE DEF S
  <2>1. 1 .. (n + 1) \subseteq S
    BY <1>1, <1>2, <2>0, FromTheEnd
  <2>2. QED
    BY <2>1 DEF S

----------------------------------------------------------------------------
(***************************************************************************)
(* A body and what follows it.                                             *)
(***************************************************************************)
LEMMA BehindIs ==
    ASSUME NEW s \in Seq(Request), NEW i \in 1 .. Len(s), NEW n \in Nat
    PROVE  /\ StreamFrom(s, i + 1) \in Seq(Piece)
           /\ Behind(s, i, n) \in Seq(Piece)
           /\ \A k \in 0 .. n : Behind(s, i, n) = Data(i, k) \o Behind(s, i, n - k)
           /\ s[i].kind = "chunked" => Behind(s, i, 0) = <<Last(i)>> \o StreamFrom(s, i + 1)
           /\ s[i].kind # "chunked" => Behind(s, i, 0) = StreamFrom(s, i + 1)
<1> DEFINE e == IF s[i].kind = "chunked" THEN <<Last(i)>> ELSE <<>>
           t == StreamFrom(s, i + 1)
<1>1. i \in Nat /\ i + 1 \in 1 .. (Len(s) + 1) /\ s[i] \in Request
  OBVIOUS
<1>2. t \in Seq(Piece) /\ e \in Seq(Piece)
  <2>1. Last(i) \in Piece
    BY <1>1 DEF Last, Piece
  <2>2. t \in Seq(Piece)
    BY <1>1, StreamTyped
  <2>3. QED
    BY <2>1, <2>2
<1>3. \A m : Behind(s, i, m) = Data(i, m) \o (e \o t)
  BY DEF Behind
<1>4. e \o t \in Seq(Piece)
  BY <1>2
<1> DEFINE u == e \o t
<1>5. u \in Seq(Piece) /\ \A m : Behind(s, i, m) = Data(i, m) \o u
  BY <1>3, <1>4
<1> HIDE DEF t, e, u
<1>6. \A m \in Nat : Data(i, m) \in Seq(Piece)
  BY <1>1, DataIs
<1>7. ASSUME NEW k \in 0 .. n PROVE Behind(s, i, n) = Data(i, k) \o Behind(s, i, n - k)
  <2>1. k \in Nat /\ n - k \in Nat /\ k + (n - k) = n
    OBVIOUS
  <2>2. Data(i, k) \o Data(i, n - k) = Data(i, n)
    <3>1. Data(i, k) \o Data(i, n - k) = Data(i, k + (n - k))
      BY <1>1, <2>1, DataOfTwo
    <3>2. QED
      BY <2>1, <3>1
  <2>3. (Data(i, k) \o Data(i, n - k)) \o u = Data(i, k) \o (Data(i, n - k) \o u)
    <3>1. Data(i, k) \in Seq(Piece) /\ Data(i, n - k) \in Seq(Piece)
      BY <1>6, <2>1
    <3>2. QED
      BY <1>5, <3>1, Associative
  <2>4. QED
    BY <1>5, <2>2, <2>3
<1>8. Behind(s, i, 0) = u
  <2>1. Data(i, 0) = <<>>
    BY DEF Data
  <2>2. QED
    BY <1>5, <2>1
<1>9. Behind(s, i, n) \in Seq(Piece)
  <2>1. Data(i, n) \in Seq(Piece) /\ Behind(s, i, n) = Data(i, n) \o u
    BY <1>5, <1>6
  <2> DEFINE d == Data(i, n)
  <2> HIDE DEF d
  <2>2. \A x : x \in Seq(Piece) => x \o u \in Seq(Piece)
    BY <1>5
  <2>3. QED
    BY <2>1, <2>2
<1>10. s[i].kind # "chunked" => u = t
  BY <1>2 DEF u, e
<1>11. QED
  BY <1>2, <1>7, <1>8, <1>9, <1>10 DEF u, e, t

\* A request is its line, its headers and its body.
LEMMA StreamIs ==
    ASSUME NEW s \in Seq(Request), NEW i \in 1 .. Len(s)
    PROVE  /\ s[i].size \in Nat
           /\ StreamFrom(s, i) = <<Line(i)>> \o (<<Headers(i)>> \o Behind(s, i, s[i].size))
           /\ <<Line(i)>> \in Seq(Piece) /\ <<Headers(i)>> \in Seq(Piece)
<1> DEFINE e == IF s[i].kind = "chunked" THEN <<Last(i)>> ELSE <<>>
           t == StreamFrom(s, i + 1)
           d == Data(i, s[i].size)
           h == <<Line(i), Headers(i)>>
<1>1. i \in Nat /\ s[i] \in Request /\ Len(s) \in Nat
  OBVIOUS
<1>2. /\ Pieces(i, s[i]) = h \o (d \o e)
      /\ e \in Seq(Piece) /\ h \in Seq(Piece) /\ d \in Seq(Piece)
  BY <1>1, PiecesAre
<1>3. s[i].size \in Nat
  BY <1>1, RequestIs
<1>4. t \in Seq(Piece)
  BY <1>3, BehindIs
<1>5. StreamFrom(s, i) = Pieces(i, s[i]) \o t
  BY <1>1, StreamUnfolds
<1>6. Behind(s, i, s[i].size) = d \o (e \o t)
  BY DEF Behind
<1>7. Line(i) \in Piece /\ Headers(i) \in Piece
  BY <1>1 DEF Line, Headers, Piece
<1>8. h = <<Line(i)>> \o <<Headers(i)>>
  BY <1>7
<1> HIDE DEF e, t, d
<1>9. (h \o (d \o e)) \o t = <<Line(i)>> \o (<<Headers(i)>> \o (d \o (e \o t)))
  <2> DEFINE l == <<Line(i)>>
             g == <<Headers(i)>>
  <2>1. l \in Seq(Piece) /\ g \in Seq(Piece) /\ h = l \o g
    BY <1>7, <1>8
  <2> HIDE DEF l, g, h
  <2>4. d \o e \in Seq(Piece) /\ e \o t \in Seq(Piece) /\ l \o g \in Seq(Piece)
    BY <1>2, <1>4, <2>1
  <2>5. ((l \o g) \o (d \o e)) \o t = (l \o g) \o ((d \o e) \o t)
    BY <1>4, <2>4, Associative, Zenon
  <2>6. (d \o e) \o t = d \o (e \o t)
    BY <1>2, <1>4, Associative, Zenon
  <2>7. d \o (e \o t) \in Seq(Piece)
    BY <1>2, <2>4
  <2>2. ((l \o g) \o (d \o e)) \o t = l \o (g \o (d \o (e \o t)))
    <3>1. (l \o g) \o (d \o (e \o t)) = l \o (g \o (d \o (e \o t)))
      BY <2>1, <2>7, Associative, Zenon
    <3>2. QED
      BY <2>5, <2>6, <3>1
  <2>3. QED
    BY <2>1, <2>2 DEF l, g
<1>10. <<Line(i)>> \in Seq(Piece) /\ <<Headers(i)>> \in Seq(Piece)
  BY <1>7
<1>11. StreamFrom(s, i) = <<Line(i)>> \o (<<Headers(i)>> \o Behind(s, i, s[i].size))
  BY <1>2, <1>5, <1>6, <1>9
<1>12. QED
  BY <1>3, <1>10, <1>11

\* What lies behind the place p of w is c, followed by d.
Begins(w, p, c, d) == Drop(w, p) = c \o d

(***************************************************************************)
(* What lies behind a place of the buffer begins with c: c is in the buffer*)
(* as far as the buffer reaches, and what follows it lies behind.          *)
(***************************************************************************)
LEMMA Consumed ==
    ASSUME NEW S, NEW a \in Seq(S), NEW b \in Seq(S), NEW p \in 0 .. Len(a),
           NEW c \in Seq(S), NEW d \in Seq(S), Begins(a \o b, p, c, d),
           Len(c) <= Len(a) - p
    PROVE  /\ Drop(a \o b, p + Len(c)) = d
           /\ \A i \in 1 .. Len(c) : a[p + i] = c[i]
           /\ SubSeq(a, p + 1, p + Len(c)) = c
<1> DEFINE w == a \o b
           k == Len(c)
<1>1. w \in Seq(S) /\ Len(w) = Len(a) + Len(b) /\ p \in 0 .. Len(w) /\ k \in Nat /\ p \in Nat
      /\ p + k <= Len(w) /\ Len(a) \in Nat /\ p + k <= Len(a)
  OBVIOUS
<1>2. \A i \in 1 .. Len(a) : w[i] = a[i]
  OBVIOUS
<1>3. \A i \in 1 .. k : (c \o d)[i] = c[i]
  OBVIOUS
<1> HIDE DEF w, k
<1>4. Drop(w, p + k) = Drop(Drop(w, p), k)
  BY <1>1, DropTwice
<1>5. Drop(c \o d, k) = d
  BY DropOfTwo DEF k
<1>6. Drop(w, p) = c \o d
  BY DEF w, Begins
<1>7. \A i \in 1 .. k : a[p + i] = c[i]
  <2> TAKE i \in 1 .. k
  <2>1. i \in 1 .. (Len(w) - p) /\ p + i \in 1 .. Len(a)
    BY <1>1
  <2>2. Drop(w, p)[i] = w[p + i]
    BY <1>1, <2>1, DropIs
  <2>3. QED
    BY <1>2, <1>3, <1>6, <2>1, <2>2
<1> DEFINE x == SubSeq(a, p + 1, p + k)
<1>8. x \in Seq(S) /\ Len(x) = k /\ \A i \in 1 .. k : x[i] = a[p + i]
  <2>1. \A i \in (p + 1) .. (p + k) : a[i] \in S
    BY <1>1
  <2>2. p + 1 <= p + k + 1 /\ (p + k) - (p + 1) + 1 = k
    BY <1>1
  <2>3. x \in Seq(S) /\ Len(x) = k
    BY <1>1, <2>1, <2>2
  <2>4. \A i \in 1 .. k : x[i] = a[p + i]
    BY <1>1, <2>3
  <2>5. QED
    BY <2>3, <2>4
<1> HIDE DEF x
<1>9. x = c
  BY <1>7, <1>8, SeqEqual DEF k
<1>10. QED
  BY <1>4, <1>5, <1>6, <1>7, <1>9 DEF w, k, x

----------------------------------------------------------------------------
(***************************************************************************)
(* The requests whose headers are still to be read.                        *)
(***************************************************************************)
LEMMA OutstandingOfTwo ==
    ASSUME NEW a \in Seq(Piece), NEW b \in Seq(Piece)
    PROVE  Outstanding(a \o b) = Outstanding(a) \cup Outstanding(b)
<1> DEFINE w == a \o b
<1>1. w \in Seq(Piece) /\ Len(w) = Len(a) + Len(b) /\ Len(a) \in Nat /\ Len(b) \in Nat
  OBVIOUS
<1>2. \A k \in 1 .. Len(a) : w[k] = a[k]
  OBVIOUS
<1>3. \A k \in 1 .. Len(b) : w[Len(a) + k] = b[k]
  OBVIOUS
<1>4. DOMAIN w = 1 .. Len(w) /\ DOMAIN a = 1 .. Len(a) /\ DOMAIN b = 1 .. Len(b)
  OBVIOUS
<1> HIDE DEF w
<1>5. ASSUME NEW r \in Outstanding(w) PROVE r \in Outstanding(a) \cup Outstanding(b)
  <2>1. PICK k \in 1 .. Len(w) : w[k].part = "headers" /\ w[k].req = r
    BY <1>4 DEF Outstanding
  <2>2. CASE k <= Len(a)
    <3>1. k \in 1 .. Len(a)
      BY <1>1, <2>2
    <3>2. a[k].part = "headers" /\ a[k].req = r
      BY <1>2, <2>1, <3>1
    <3>3. QED
      BY <1>4, <3>1, <3>2 DEF Outstanding
  <2>3. CASE k > Len(a)
    <3>1. k - Len(a) \in 1 .. Len(b) /\ Len(a) + (k - Len(a)) = k
      BY <1>1, <2>3
    <3>2. b[k - Len(a)].part = "headers" /\ b[k - Len(a)].req = r
      BY <1>3, <2>1, <3>1
    <3>3. QED
      BY <1>4, <3>1, <3>2 DEF Outstanding
  <2>4. QED
    BY <1>1, <2>2, <2>3
<1>6. ASSUME NEW r \in Outstanding(a) PROVE r \in Outstanding(w)
  <2>1. PICK k \in 1 .. Len(a) : a[k].part = "headers" /\ a[k].req = r
    BY <1>4 DEF Outstanding
  <2>2. w[k].part = "headers" /\ w[k].req = r /\ k \in 1 .. Len(w)
    BY <1>1, <1>2, <2>1
  <2>3. QED
    BY <1>4, <2>2 DEF Outstanding
<1>7. ASSUME NEW r \in Outstanding(b) PROVE r \in Outstanding(w)
  <2>1. PICK k \in 1 .. Len(b) : b[k].part = "headers" /\ b[k].req = r
    BY <1>4 DEF Outstanding
  <2>2. w[Len(a) + k].part = "headers" /\ w[Len(a) + k].req = r /\ Len(a) + k \in 1 .. Len(w)
    BY <1>1, <1>3, <2>1
  <2>3. QED
    BY <1>4, <2>2 DEF Outstanding
<1>8. QED
  BY <1>5, <1>6, <1>7 DEF w

\* Fewer when some pieces have been read.
LEMMA OutstandingShrinks ==
    ASSUME NEW a \in Seq(Piece), NEW k \in 0 .. Len(a)
    PROVE  Outstanding(Drop(a, k)) \subseteq Outstanding(a)
<1>1. SubSeq(a, 1, k) \in Seq(Piece) /\ Drop(a, k) \in Seq(Piece) /\ SubSeq(a, 1, k) \o Drop(a, k) = a
  BY Cut, DropIs
<1>2. QED
  BY <1>1, OutstandingOfTwo, ZenonT(40)

\* From a request on, the stream has the headers of this request and of those
\* that follow; behind them, of those that follow.
LEMMA OutstandingOfStream ==
    ASSUME NEW s \in Seq(Request)
    PROVE  /\ \A i \in 1 .. (Len(s) + 1) : Outstanding(StreamFrom(s, i)) = i .. Len(s)
           /\ \A i \in 1 .. Len(s), n \in Nat : Outstanding(Behind(s, i, n)) = (i + 1) .. Len(s)
<1> DEFINE m == Len(s)
           Known(i) == Outstanding(StreamFrom(s, i)) = i .. m
           S == {i \in 1 .. (m + 1) : Known(i)}
<1>1. m \in Nat
  OBVIOUS
<1>2. \A i \in Nat, n \in Nat : Outstanding(Data(i, n)) = {}
  <2> TAKE i \in Nat, n \in Nat
  <2>1. DOMAIN Data(i, n) = 1 .. n /\ \A k \in 1 .. n : Data(i, n)[k].part = "data"
    BY DEF Data
  <2>2. QED
    BY <2>1 DEF Outstanding
<1>3. \A i \in Nat : /\ Outstanding(<<Line(i)>>) = {}
                     /\ Outstanding(<<Headers(i)>>) = {i}
                     /\ Outstanding(<<Last(i)>>) = {}
  <2> TAKE i \in Nat
  <2>1. \A x : DOMAIN <<x>> = {1} /\ <<x>>[1] = x
    OBVIOUS
  <2>2. Line(i).part = "line" /\ Headers(i).part = "headers" /\ Headers(i).req = i /\ Last(i).part = "end"
    BY DEF Line, Headers, Last
  <2>3. Outstanding(<<Line(i)>>) = {}
    BY <2>1, <2>2 DEF Outstanding
  <2>4. Outstanding(<<Headers(i)>>) = {i}
    BY <2>1, <2>2 DEF Outstanding
  <2>5. Outstanding(<<Last(i)>>) = {}
    BY <2>1, <2>2 DEF Outstanding
  <2>6. QED
    BY <2>3, <2>4, <2>5
<1>4. ASSUME NEW i \in 1 .. m, NEW n \in Nat
      PROVE  Outstanding(Behind(s, i, n)) = Outstanding(StreamFrom(s, i + 1))
  <2>1. i \in Nat /\ n \in 0 .. n /\ n - n = 0
    BY <1>1
  <2>2. Behind(s, i, n) = Data(i, n) \o Behind(s, i, 0)
    BY <2>1, BehindIs
  <2>3. Data(i, n) \in Seq(Piece) /\ Behind(s, i, 0) \in Seq(Piece) /\ StreamFrom(s, i + 1) \in Seq(Piece)
    <3>1. 0 \in Nat
      OBVIOUS
    <3>2. Data(i, n) \in Seq(Piece)
      BY <2>1, DataIs
    <3>3. Behind(s, i, 0) \in Seq(Piece) /\ StreamFrom(s, i + 1) \in Seq(Piece)
      BY <3>1, BehindIs
    <3>4. QED
      BY <3>2, <3>3
  <2>4. Outstanding(Behind(s, i, n)) = Outstanding(Behind(s, i, 0))
    <3>1. Outstanding(Behind(s, i, n)) = Outstanding(Data(i, n)) \cup Outstanding(Behind(s, i, 0))
      BY <2>2, <2>3, OutstandingOfTwo, Zenon
    <3>2. Outstanding(Data(i, n)) = {}
      BY <1>2, <2>1
    <3>3. QED
      BY <3>1, <3>2
  <2>5. CASE s[i].kind = "chunked"
    <3>1. Behind(s, i, 0) = <<Last(i)>> \o StreamFrom(s, i + 1)
      BY <2>5, BehindIs
    <3>2. <<Last(i)>> \in Seq(Piece)
      <4>1. Last(i) \in Piece
        BY <2>1 DEF Last, Piece
      <4>2. QED
        BY <4>1
    <3>3. Outstanding(Behind(s, i, 0)) = Outstanding(<<Last(i)>>) \cup Outstanding(StreamFrom(s, i + 1))
      BY <2>3, <3>1, <3>2, OutstandingOfTwo, Zenon
    <3>4. QED
      BY <1>3, <2>1, <2>4, <3>3
  <2>6. CASE s[i].kind # "chunked"
    BY <2>4, <2>6, BehindIs
  <2>7. QED
    BY <2>5, <2>6
<1>5. Known(m + 1)
  <2>1. StreamFrom(s, m + 1) = <<>>
    BY <1>1, StreamUnfolds
  <2>2. Outstanding(<<>>) = {}
    BY DEF Outstanding
  <2>3. (m + 1) .. m = {}
    BY <1>1
  <2>4. QED
    BY <2>1, <2>2, <2>3
<1>6. ASSUME NEW i \in 1 .. m, Known(i + 1) PROVE Known(i)
  <2> DEFINE h == <<Headers(i)>> \o Behind(s, i, s[i].size)
  <2>1. i \in Nat /\ s[i].size \in Nat
    <3>1. s[i].size \in Nat
      BY StreamIs
    <3>2. QED
      BY <1>1, <3>1
  <2>2. StreamFrom(s, i) = <<Line(i)>> \o h /\ <<Line(i)>> \in Seq(Piece) /\ <<Headers(i)>> \in Seq(Piece)
    BY StreamIs
  <2>3. Behind(s, i, s[i].size) \in Seq(Piece)
    BY <2>1, BehindIs
  <2>4. Outstanding(h) = {i} \cup Outstanding(Behind(s, i, s[i].size)) /\ h \in Seq(Piece)
    <3>1. h \in Seq(Piece)
      BY <2>2, <2>3
    <3>2. Outstanding(h) = Outstanding(<<Headers(i)>>) \cup Outstanding(Behind(s, i, s[i].size))
      BY <2>2, <2>3, OutstandingOfTwo, Zenon
    <3>3. QED
      BY <1>3, <2>1, <3>1, <3>2
  <2>5. Outstanding(StreamFrom(s, i)) = Outstanding(h)
    <3> HIDE DEF h
    <3>1. Outstanding(StreamFrom(s, i)) = Outstanding(<<Line(i)>>) \cup Outstanding(h)
      BY <2>2, <2>4, OutstandingOfTwo, Zenon
    <3>2. QED
      BY <1>3, <2>1, <3>1
  <2>6. Outstanding(Behind(s, i, s[i].size)) = (i + 1) .. m
    BY <1>4, <1>6, <2>1
  <2>7. {i} \cup ((i + 1) .. m) = i .. m
    BY <1>1
  <2>8. QED
    BY <2>4, <2>5, <2>6, <2>7
<1>7. \A i \in 1 .. (m + 1) : Known(i)
  <2> HIDE DEF Known
  <2>1. m + 1 \in S /\ \A k \in 1 .. m : k + 1 \in S => k \in S
    BY <1>1, <1>5, <1>6
  <2> HIDE DEF S
  <2>2. 1 .. (m + 1) \subseteq S
    BY <1>1, <2>1, FromTheEnd
  <2>3. QED
    BY <2>2 DEF S
<1>8. ASSUME NEW i \in 1 .. m, NEW n \in Nat PROVE Outstanding(Behind(s, i, n)) = (i + 1) .. m
  <2>1. i + 1 \in 1 .. (m + 1)
    BY <1>1
  <2>2. QED
    BY <1>4, <1>7, <2>1
<1>9. QED
  BY <1>7, <1>8

(***************************************************************************)
(* The data that comes before the last chunk, in a buffer in which a       *)
(* chunked body begins.                                                    *)
(***************************************************************************)
LEMMA FirstBodyIs ==
    ASSUME NEW b \in Seq(Piece), NEW c \in Seq(Piece), NEW i \in Nat, NEW m \in Nat,
           NEW t \in Seq(Piece), b \o c = Data(i, m) \o (<<Last(i)>> \o t)
    PROVE  /\ Len(b) <= m => ~ HasEnd(b) /\ FirstBody(b) = b /\ b = Data(i, Len(b))
           /\ Len(b) > m => HasEnd(b) /\ FirstBody(b) = Data(i, m)
<1> DEFINE w == b \o c
           d == Data(i, m)
           u == <<Last(i)>> \o t
           n == Len(b)
           before == {k \in DOMAIN b : \A e \in 1 .. k : b[e].part # "end"}
<1>1. n \in Nat /\ DOMAIN b = 1 .. n
  OBVIOUS
<1>2. d \in Seq(Piece) /\ Len(d) = m /\ \A k \in 1 .. m : d[k].part = "data"
  <2>1. d \in Seq(Piece) /\ Len(d) = m /\ \A k \in 1 .. m : d[k] = [req |-> i, part |-> "data"]
    BY DataIs
  <2> HIDE DEF d
  <2>2. QED
    BY <2>1
<1>3. u \in Seq(Piece) /\ Len(u) >= 1 /\ u[1].part = "end"
  <2>1. Last(i) \in Piece /\ Last(i).part = "end"
    BY DEF Last, Piece
  <2>2. QED
    BY <2>1
<1>4. \A k \in 1 .. n : w[k] = b[k]
  <2>1. \A k \in 1 .. (n + Len(c)) : w[k] = IF k <= n THEN b[k] ELSE c[k - n]
    BY ConcatProperties
  <2>2. Len(c) \in Nat
    OBVIOUS
  <2>3. \A k \in 1 .. n : k \in 1 .. (n + Len(c)) /\ k <= n
    BY <1>1, <2>2
  <2> HIDE DEF w
  <2>4. QED
    BY <2>1, <2>3
<1>5. w = d \o u
  OBVIOUS
<1> HIDE DEF u
<1>6. (\A k \in 1 .. m : w[k] = d[k]) /\ w[m + 1] = u[1]
  <2> HIDE DEF d
  <2>1. \A k \in 1 .. (Len(d) + Len(u)) : (d \o u)[k] = IF k <= Len(d) THEN d[k] ELSE u[k - Len(d)]
    BY <1>2, <1>3, ConcatProperties
  <2> HIDE DEF w
  <2>2. \A k \in 1 .. (m + Len(u)) : w[k] = IF k <= m THEN d[k] ELSE u[k - m]
    BY <1>2, <1>5, <2>1
  <2>3. /\ \A k \in 1 .. m : k \in 1 .. (m + Len(u)) /\ k <= m
        /\ m + 1 \in 1 .. (m + Len(u)) /\ ~ (m + 1 <= m) /\ (m + 1) - m = 1
    BY <1>3
  <2>4. QED
    BY <2>2, <2>3
<1> HIDE DEF w
<1>7. \A k \in 1 .. n : k <= m => b[k] = d[k] /\ b[k].part = "data"
  BY <1>1, <1>2, <1>4, <1>6
<1>8. n > m => b[m + 1].part = "end" /\ m + 1 \in 1 .. n
  <2>1. n > m => m + 1 \in 1 .. n
    BY <1>1
  <2>2. QED
    BY <1>3, <1>4, <1>6, <2>1
<1>9. FirstBody(b) = SubSeq(b, 1, Cardinality(before))
  BY DEF FirstBody
<1>10. CASE n <= m
  <2>1. \A k \in 1 .. n : b[k].part # "end"
    BY <1>1, <1>7, <1>10
  <2>2. ~ HasEnd(b)
    BY <1>1, <2>1 DEF HasEnd
  <2>3. before = 1 .. n
    <3>1. \A k \in 1 .. n : \A e \in 1 .. k : e \in 1 .. n
      BY <1>1
    <3>2. QED
      BY <1>1, <2>1, <3>1
  <2>4. Cardinality(before) = n
    <3>1. 1 \in Int /\ n \in Int /\ (IF 1 > n THEN 0 ELSE n - 1 + 1) = n
      BY <1>1
    <3>2. Cardinality(1 .. n) = n
      BY <3>1, FS_Interval
    <3>3. QED
      BY <2>3, <3>2
  <2>5. FirstBody(b) = b
    BY <1>9, <2>4, SubSeqFull
  <2> DEFINE x == Data(i, n)
  <2>6. x \in Seq(Piece) /\ Len(x) = n /\ \A k \in 1 .. n : x[k] = [req |-> i, part |-> "data"]
    BY <1>1, DataIs
  <2>7. \A k \in 1 .. m : d[k] = [req |-> i, part |-> "data"]
    BY DataIs
  <2>8. \A k \in 1 .. n : b[k] = x[k]
    BY <1>1, <1>7, <1>10, <2>6, <2>7
  <2> HIDE DEF x
  <2>9. b = x
    BY <2>6, <2>8, SeqEqual
  <2>10. QED
    BY <1>1, <1>10, <2>2, <2>5, <2>9 DEF x
<1>11. CASE n > m
  <2>1. HasEnd(b)
    BY <1>1, <1>8, <1>11 DEF HasEnd
  <2>2. before = 1 .. m
    <3>1. ASSUME NEW k \in before PROVE k \in 1 .. m
      <4>1. k \in 1 .. n /\ ~ (m + 1 \in 1 .. k)
        BY <1>1, <1>8, <1>11, <3>1
      <4>2. QED
        BY <1>1, <4>1
    <3>2. ASSUME NEW k \in 1 .. m PROVE k \in before
      <4>1. k \in 1 .. n /\ \A e \in 1 .. k : e \in 1 .. n /\ e <= m
        BY <1>1, <1>11
      <4>2. QED
        BY <1>1, <1>7, <4>1
    <3>3. QED
      BY <3>1, <3>2
  <2>3. Cardinality(before) = m
    <3>1. 1 \in Int /\ m \in Int /\ (IF 1 > m THEN 0 ELSE m - 1 + 1) = m
      OBVIOUS
    <3>2. Cardinality(1 .. m) = m
      BY <3>1, FS_Interval
    <3>3. QED
      BY <2>2, <3>2
  <2>4. FirstBody(b) = SubSeq(b, 1, m)
    BY <1>9, <2>3
  <2> DEFINE x == SubSeq(b, 1, m)
  <2>5. x \in Seq(Piece) /\ Len(x) = m /\ \A k \in 1 .. m : x[k] = b[k]
    <3>1. m \in 0 .. Len(b)
      BY <1>1, <1>11
    <3>2. QED
      BY <3>1, Cut
  <2>6. \A k \in 1 .. m : x[k] = d[k]
    BY <1>1, <1>7, <1>11, <2>5
  <2> HIDE DEF x, d
  <2>7. x = d
    BY <1>2, <2>5, <2>6, SeqEqual
  <2>8. QED
    BY <1>1, <1>11, <2>1, <2>4, <2>7 DEF x, d
<1>12. QED
  BY <1>1, <1>10, <1>11

----------------------------------------------------------------------------
(***************************************************************************)
(* The inductive invariant.  What the loop has not looked at yet, in the   *)
(* buffer, in the socket and at the client, is in each state the rest of   *)
(* the stream from a certain place of the request whose turn it is; the    *)
(* request's body is where the state says it is; and the connection is     *)
(* kept alive only by a request that asks for it and that has been read to *)
(* its end.                                                                *)
(***************************************************************************)
All == in \o (wire \o todo)

Unread == Drop(All, inp)

Turn == Len(answered) + 1

Requested == script[cur]

Sensible ==
    /\ Len(script) <= Requests
    /\ \A i \in DOMAIN script : HasBody(script[i].kind) <=> script[i].size > 0

WaitsForRequest ==
    /\ cur = None /\ file = None /\ ~keep
    /\ Turn \in 1 .. (Len(script) + 1)
    /\ Unread = StreamFrom(script, Turn)

HasLine == cur = Turn /\ cur \in DOMAIN script

ReadsHeaders == ~keep /\ Unread = <<Headers(cur)>> \o Behind(script, cur, Requested.size)

\* A chunked body of which nothing has come with the headers leaves a buffer
\* that is shorter than they are.
HasHeaders ==
    /\ ~keep /\ header > 0
    /\ IF header <= Len(in) THEN inp = header /\ Unread = Behind(script, cur, Requested.size)
       ELSE Requested.kind = "chunked"

ReadsBody ==
    /\ ~keep /\ Requested.kind = "post" /\ size = Requested.size
    /\ left \in 1 .. size
    /\ Unread = Behind(script, cur, left)
    /\ IF memory
       THEN /\ header + (size - left) = inp /\ inp = Len(in)
            /\ SubSeq(in, header + 1, inp) = Data(cur, size - left)
       ELSE in = <<>> /\ file = Data(cur, size - left)

ReadsChunks ==
    /\ ~keep /\ Requested.kind = "chunked"
    /\ ~memory /\ in = <<>>
    /\ size <= Requested.size
    /\ file = Data(cur, size)
    /\ Unread = Behind(script, cur, Requested.size - size)

AtItsEnd == Unread = StreamFrom(script, cur + 1)

HasPayload ==
    /\ Requested.kind \in {"forward", "post", "chunked"}
    /\ size = Requested.size
    /\ Payload = Body(cur, Requested)
    /\ AtItsEnd
    /\ keep => Requested.keep

IsAnswered == keep => AtItsEnd /\ Requested.keep /\ Requested.kind # "refused"

Stage ==
    /\ state = "BEGIN_REQUEST" => WaitsForRequest
    /\ state # "BEGIN_REQUEST" => HasLine
    /\ state = "READING_HEADERS" => ReadsHeaders
    /\ state = "PROCESSING_REQUEST" => HasHeaders
    /\ state = "READING_BODY" => ReadsBody
    /\ state = "READING_CHUNKED_BODY" => ReadsChunks
    /\ state \in {"PREPARING_HTTP_REQUEST", "WAITING_FOR_BACKEND"} => HasPayload
    /\ state \in Sending \cup {"PREPARING_ERROR_PAGE", "REQUEST_COMPLETED"} => IsAnswered

\* The headers that have not been read are of requests whose turn is to come.
ToCome ==
    /\ Outstanding(wire \o todo) \subseteq DOMAIN script
    /\ open /\ state \notin {"BEGIN_REQUEST", "READING_HEADERS"} =>
          Outstanding(wire \o todo) \subseteq (cur + 1) .. Len(script)

ConnectionInv ==
    /\ TypeOK /\ Sensible /\ ToCome
    /\ IF open THEN Stage ELSE state = "BEGIN_REQUEST" /\ cur = None /\ file = None

----------------------------------------------------------------------------
(***************************************************************************)
(* What a read and an arrival leave as it is: all that there is.           *)
(***************************************************************************)
LEMMA Parts ==
    ASSUME ConnectionInv
    PROVE  /\ script \in Seq(Request) /\ Len(script) \in Nat /\ DOMAIN script = 1 .. Len(script)
           /\ in \in Seq(Piece) /\ wire \in Seq(Piece) /\ todo \in Seq(Piece)
           /\ wire \o todo \in Seq(Piece)
           /\ inp \in 0 .. Len(in) /\ Len(in) \in Nat
           /\ Len(answered) \in Nat /\ answered \in Seq(0 .. Requests)
<1>1. TypeOK
  BY DEF ConnectionInv
<1>2. QED
  BY <1>1 DEF TypeOK

\* A read moves pieces from the socket to the end of the buffer.
LEMMA ReadIs ==
    ASSUME ConnectionInv, Read
    PROVE  /\ Got \in Seq(Piece) /\ in \o Got \in Seq(Piece)
           /\ wire' \in Seq(Piece) /\ todo' = todo /\ script' = script
           /\ wire' \o todo \in Seq(Piece)
           /\ All = (in \o Got) \o (wire' \o todo)
           /\ Outstanding(wire' \o todo) \subseteq Outstanding(wire \o todo)
           /\ readable' \in BOOLEAN /\ edge' = edge /\ writable' = writable
<1> DEFINE n == IF Len(wire) < ReadSize THEN Len(wire) ELSE ReadSize
           g == SubSeq(wire, 1, n)
           d == Drop(wire, n)
<1>1. in \in Seq(Piece) /\ wire \in Seq(Piece) /\ todo \in Seq(Piece)
  BY Parts
<1>2. n \in 0 .. Len(wire)
  BY <1>1, HttpConnectionAssumption
<1> HIDE DEF n
<1>3. g \in Seq(Piece) /\ Len(g) = n /\ d \in Seq(Piece) /\ g \o d = wire
  BY <1>1, <1>2, Cut, DropIs
<1>4. Got = g
  BY DEF Got, n
<1>5. wire' = d
  BY <1>3, <1>4 DEF Read, Drop
<1>6. todo' = todo /\ script' = script /\ edge' = edge /\ writable' = writable /\ readable' \in BOOLEAN
  BY DEF Read
<1> HIDE DEF g, d
<1>7. in \o g \in Seq(Piece) /\ d \o todo \in Seq(Piece) /\ wire \o todo \in Seq(Piece)
  BY <1>1, <1>3
<1>8. wire \o todo = g \o (d \o todo)
  <2>1. g \in Seq(Piece) /\ d \in Seq(Piece) /\ todo \in Seq(Piece)
    BY <1>1, <1>3
  <2>2. (g \o d) \o todo = g \o (d \o todo)
    BY <2>1, Associative, Zenon
  <2>3. QED
    BY <1>3, <2>2
<1>9. All = (in \o g) \o (d \o todo)
  <2>1. in \in Seq(Piece) /\ g \in Seq(Piece) /\ d \o todo \in Seq(Piece)
    BY <1>1, <1>3, <1>7
  <2>2. (in \o g) \o (d \o todo) = in \o (g \o (d \o todo))
    BY <2>1, Associative, Zenon
  <2>3. QED
    BY <1>8, <2>2 DEF All
<1>10. Outstanding(wire \o todo) = Outstanding(g) \cup Outstanding(d \o todo)
  BY <1>3, <1>7, <1>8, OutstandingOfTwo, Zenon
<1>11. QED
  BY <1>3, <1>4, <1>5, <1>6, <1>7, <1>9, <1>10

(***************************************************************************)
(* From the parts of the next state to the invariant.                      *)
(***************************************************************************)
LEMMA StaysOpen ==
    ASSUME ConnectionInv, TypeOK', script' = script, open, open', Stage',
           Outstanding(wire' \o todo') \subseteq Outstanding(wire \o todo),
           state' \notin {"BEGIN_REQUEST", "READING_HEADERS"} =>
              \/ state \notin {"BEGIN_REQUEST", "READING_HEADERS"} /\ cur' = cur
              \/ Outstanding(wire' \o todo') \subseteq (cur' + 1) .. Len(script)
    PROVE  ConnectionInv'
<1>1. Sensible'
  BY DEF ConnectionInv, Sensible
<1>2. ToCome'
  <2>1. Outstanding(wire' \o todo') \subseteq DOMAIN script'
    BY DEF ConnectionInv, ToCome
  <2>2. ASSUME state' \notin {"BEGIN_REQUEST", "READING_HEADERS"}
        PROVE  Outstanding(wire' \o todo') \subseteq (cur' + 1) .. Len(script')
    BY <2>2 DEF ConnectionInv, ToCome
  <2>3. QED
    BY <2>1, <2>2 DEF ToCome
<1>3. QED
  BY <1>1, <1>2 DEF ConnectionInv

\* The connection is closed.
LEMMA ClosedKeeps ==
    ASSUME ConnectionInv, Closed, answered' \in Seq(0 .. Requests)
    PROVE  ConnectionInv'
<1>1. TypeOK'
  <2>1. /\ UNCHANGED <<script, todo, wire, edge, header, size, left, memory>>
        /\ in' = <<>> /\ inp' = 0 /\ cur' = None /\ file' = None
    BY DEF Closed, netVars
  <2>2. <<>> \in Seq(Piece) /\ 0 \in 0 .. Len(<<>>)
    OBVIOUS
  <2>3. /\ {open', running', readable', writable', keep'} \subseteq BOOLEAN
        /\ state' \in States
    BY DEF Closed, States, Reading
  <2>4. QED
    BY <2>1, <2>2, <2>3 DEF ConnectionInv, TypeOK
<1>2. Sensible'
  BY DEF ConnectionInv, Sensible, Closed, netVars
<1>3. ToCome'
  BY DEF ConnectionInv, ToCome, Closed, netVars
<1>4. QED
  BY <1>1, <1>2, <1>3 DEF ConnectionInv, Closed

(***************************************************************************)
(* Steps that leave the connection where it is.                            *)
(***************************************************************************)
LEMMA StageSame ==
    ASSUME Stage, wire' \o todo' = wire \o todo,
           UNCHANGED <<script, state, in, inp, cur, header, size, left, memory, file, keep, answered>>
    PROVE  Stage'
<1>1. Unread' = Unread /\ Turn' = Turn /\ Requested' = Requested /\ Payload' = Payload
  BY DEF Unread, All, Turn, Requested, Payload
<1>2. WaitsForRequest' <=> WaitsForRequest
  BY <1>1 DEF WaitsForRequest
<1>3. HasLine' <=> HasLine
  BY <1>1 DEF HasLine
<1>4. ReadsHeaders' <=> ReadsHeaders
  BY <1>1 DEF ReadsHeaders
<1>5. HasHeaders' <=> HasHeaders
  BY <1>1 DEF HasHeaders
<1>6. ReadsBody' <=> ReadsBody
  BY <1>1 DEF ReadsBody
<1>7. ReadsChunks' <=> ReadsChunks
  BY <1>1 DEF ReadsChunks
<1>8. HasPayload' <=> HasPayload
  BY <1>1 DEF HasPayload, AtItsEnd
<1>9. IsAnswered' <=> IsAnswered
  BY <1>1 DEF IsAnswered, AtItsEnd
<1>10. QED
  BY <1>2, <1>3, <1>4, <1>5, <1>6, <1>7, <1>8, <1>9 DEF Stage

\* What arrives has only gone from the client to the socket.
LEMMA ArriveIs ==
    ASSUME ConnectionInv, Arrive
    PROVE  wire' \in Seq(Piece) /\ todo' \in Seq(Piece) /\ wire' \o todo' = wire \o todo
<1>1. wire \in Seq(Piece) /\ todo \in Seq(Piece)
  BY Parts
<1>2. PICK n \in 1 .. Len(todo) : wire' = wire \o SubSeq(todo, 1, n) /\ todo' = Drop(todo, n)
  BY DEF Arrive, Drop
<1> DEFINE g == SubSeq(todo, 1, n)
           d == Drop(todo, n)
<1>3. g \in Seq(Piece) /\ d \in Seq(Piece) /\ g \o d = todo
  <2>1. n \in 0 .. Len(todo)
    BY <1>1
  <2>2. QED
    BY <1>1, <2>1, Cut, DropIs
<1>4. wire' = wire \o g /\ todo' = d
  BY <1>2
<1> HIDE DEF g, d
<1>5. wire' \o todo' = wire \o todo
  BY <1>1, <1>3, <1>4, Associative, Zenon
<1>6. QED
  BY <1>1, <1>3, <1>4, <1>5

\* An arrival keeps the invariant.
LEMMA ArriveKeeps ==
    ASSUME ConnectionInv, Arrive
    PROVE  ConnectionInv'
<1>1. wire' \in Seq(Piece) /\ todo' \in Seq(Piece) /\ wire' \o todo' = wire \o todo
  BY ArriveIs
<1>2. /\ open /\ open' /\ edge' \in BOOLEAN
      /\ UNCHANGED <<script, readable, writable, state, in, inp, cur, header, size, left, memory,
                     file, keep, running, answered>>
  BY DEF Arrive, bufVars, requestVars
<1>3. TypeOK'
  BY <1>1, <1>2 DEF ConnectionInv, TypeOK
<1>4. Stage'
  BY <1>1, <1>2, StageSame DEF ConnectionInv
<1>5. QED
  BY <1>1, <1>2, <1>3, <1>4, StaysOpen DEF ConnectionInv, ToCome

\* An event is reported, the loop returns, or the socket's buffer is full.
LEMMA FlagsKeep ==
    ASSUME ConnectionInv, open, open',
           {edge', readable', writable', running'} \subseteq BOOLEAN,
           UNCHANGED <<script, todo, wire, state, in, inp, cur, header, size, left, memory,
                       file, keep, answered>>
    PROVE  ConnectionInv'
<1>1. TypeOK'
  BY DEF ConnectionInv, TypeOK
<1>2. Stage'
  BY StageSame DEF ConnectionInv
<1>3. QED
  BY <1>1, <1>2, StaysOpen DEF ConnectionInv, ToCome

----------------------------------------------------------------------------
(***************************************************************************)
(* Parsing.  b is the buffer after a read, or without one: with what is in *)
(* the socket and at the client it is all that there is.                   *)
(***************************************************************************)
Buffered(b) ==
    /\ b \in Seq(Piece) /\ inp <= Len(b)
    /\ wire' \in Seq(Piece) /\ todo' \in Seq(Piece) /\ wire' \o todo' \in Seq(Piece)
    /\ All = b \o (wire' \o todo')
    /\ Outstanding(wire' \o todo') \subseteq Outstanding(wire \o todo)
    /\ script' = script
    /\ {edge', readable', writable'} \subseteq BOOLEAN

\* The buffer after a read.
LEMMA ReadBuffers ==
    ASSUME ConnectionInv, Read
    PROVE  Buffered(in \o Got)
<1>1. /\ in \in Seq(Piece) /\ Got \in Seq(Piece) /\ in \o Got \in Seq(Piece)
      /\ inp \in 0 .. Len(in) /\ todo \in Seq(Piece)
  BY Parts, ReadIs
<1>2. inp <= Len(in \o Got)
  BY <1>1
<1>3. edge \in BOOLEAN /\ writable \in BOOLEAN
  BY DEF ConnectionInv, TypeOK
<1>4. QED
  BY <1>1, <1>2, <1>3, ReadIs DEF Buffered

\* The buffer as it was.
LEMMA NoReadBuffers ==
    ASSUME ConnectionInv, NoRead
    PROVE  Buffered(in)
<1>1. /\ UNCHANGED <<script, todo, wire, edge, readable, writable>>
  BY DEF NoRead, netVars
<1>2. {edge, readable, writable} \subseteq BOOLEAN
  BY DEF ConnectionInv, TypeOK
<1>3. /\ in \in Seq(Piece) /\ wire \in Seq(Piece) /\ todo \in Seq(Piece)
      /\ wire \o todo \in Seq(Piece) /\ inp \in 0 .. Len(in) /\ Len(in) \in Nat
  BY Parts
<1>4. inp <= Len(in)
  BY <1>3
<1>5. QED
  BY <1>1, <1>2, <1>3, <1>4 DEF Buffered, All

\* The headers that have not been read are among those behind the position.
LEMMA BehindBuffer ==
    ASSUME NEW b \in Seq(Piece), NEW w \in Seq(Piece), NEW p \in 0 .. Len(b)
    PROVE  Outstanding(w) \subseteq Outstanding(Drop(b \o w, p))
<1>1. Drop(b \o w, p) = Drop(b, p) \o w
  BY DropOfTwo
<1>2. Drop(b, p) \in Seq(Piece)
  BY DropIs
<1>3. Outstanding(Drop(b, p) \o w) = Outstanding(Drop(b, p)) \cup Outstanding(w)
  BY <1>2, OutstandingOfTwo, Zenon
<1>4. QED
  BY <1>1, <1>3

(***************************************************************************)
(* parse_headers, from the place at which the headers of the request whose *)
(* turn it is begin.                                                       *)
(***************************************************************************)
LEMMA HeadersParsed ==
    ASSUME ConnectionInv, open, ~keep, NEW b \in Seq(Piece), NEW p \in 0 .. Len(b), Buffered(b),
           ParseHeaders(b, p), Turn \in DOMAIN script, cur' = Turn,
           Drop(All, p) = <<Headers(Turn)>> \o Behind(script, Turn, script[Turn].size),
           UNCHANGED <<size, left, memory, file, keep, running, open, answered>>
    PROVE  ConnectionInv'
<1> DEFINE w == wire' \o todo'
           h == <<Headers(Turn)>>
           d == Behind(script, Turn, script[Turn].size)
<1>1. /\ script \in Seq(Request) /\ Len(script) \in Nat /\ Turn \in 1 .. Len(script)
      /\ Len(script) <= Requests /\ p \in Nat /\ Len(b) \in Nat /\ Requests \in Nat
  <2>1. DOMAIN script = 1 .. Len(script) /\ Len(script) \in Nat /\ script \in Seq(Request)
    BY Parts
  <2>2. QED
    BY <2>1, HttpConnectionAssumption DEF ConnectionInv, Sensible
<1>2. w \in Seq(Piece) /\ All = b \o w /\ script' = script
  BY DEF Buffered
<1>3. h \in Seq(Piece) /\ Len(h) = 1 /\ h[1].part = "headers" /\ d \in Seq(Piece)
  <2>1. script[Turn].size \in Nat /\ h \in Seq(Piece)
    BY <1>1, StreamIs
  <2>2. d \in Seq(Piece)
    BY <1>1, <2>1, BehindIs
  <2>3. QED
    BY <2>1, <2>2 DEF Headers
<1>4. Turn' = Turn /\ Requested' = script[Turn]
  BY <1>2 DEF Turn, Requested
<1>5. HasLine'
  BY <1>2, <1>4 DEF HasLine
<1>6. in' = b /\ All' = All
  BY <1>2 DEF ParseHeaders, All
<1>7. CASE p < Len(b)
  <2>1. Len(h) <= Len(b) - p
    BY <1>1, <1>3, <1>7
  <2> HIDE DEF h, d, w
  <2>2. Begins(b \o w, p, h, d)
    BY <1>2 DEF h, d, Begins
  <2>3. Drop(b \o w, p + Len(h)) = d /\ \A i \in 1 .. Len(h) : b[p + i] = h[i]
    <3>1. b \in Seq(Piece) /\ w \in Seq(Piece) /\ h \in Seq(Piece) /\ d \in Seq(Piece)
      BY <1>2, <1>3
    <3>2. p \in 0 .. Len(b)
      OBVIOUS
    <3>3. QED
      BY <2>1, <2>2, <3>1, <3>2, Consumed
  <2>4. b[p + 1].part = "headers" /\ Drop(All, p + 1) = d
    BY <1>2, <1>3, <2>3
  <2>5. inp' = p + 1 /\ header' = p + 1 /\ state' = "PROCESSING_REQUEST"
    BY <1>7, <2>4 DEF ParseHeaders
  <2>6. HasHeaders'
    <3>1. Unread' = d /\ header' <= Len(in') /\ header' > 0 /\ ~keep'
      BY <1>1, <1>6, <1>7, <2>4, <2>5 DEF Unread
    <3>2. QED
      BY <1>2, <1>4, <2>5, <3>1 DEF HasHeaders, d
  <2>7. Stage'
    BY <1>5, <2>5, <2>6 DEF Stage, Sending
  <2>8. TypeOK'
    <3>1. inp' \in 0 .. Len(in') /\ header' \in Nat /\ cur' \in 0 .. Requests /\ state' \in States
      BY <1>1, <1>6, <1>7, <2>5 DEF States
    <3>2. QED
      BY <1>6, <3>1 DEF ConnectionInv, TypeOK, Buffered
  <2>9. Outstanding(w) \subseteq (Turn + 1) .. Len(script)
    <3>1. Outstanding(d) = (Turn + 1) .. Len(script)
      <4>1. script[Turn].size \in Nat
        BY <1>1, StreamIs
      <4>2. QED
        BY <1>1, <4>1, OutstandingOfStream DEF d
    <3>2. p + 1 \in 0 .. Len(b)
      BY <1>1, <1>7
    <3>3. Outstanding(w) \subseteq Outstanding(Drop(b \o w, p + 1))
      BY <1>2, <3>2, BehindBuffer
    <3>4. QED
      BY <1>2, <2>4, <3>1, <3>3
  <2>10. QED
    BY <1>2, <2>7, <2>8, <2>9, StaysOpen DEF Buffered, w
<1>8. CASE ~ (p < Len(b))
  <2>1. inp' = p /\ header' = header /\ state' = "READING_HEADERS"
    BY <1>8 DEF ParseHeaders
  <2>2. ReadsHeaders'
    <3>1. Unread' = Drop(All, p) /\ ~keep'
      BY <1>6, <2>1 DEF Unread
    <3>2. QED
      BY <1>2, <1>4, <3>1 DEF ReadsHeaders
  <2>3. Stage'
    BY <1>5, <2>1, <2>2 DEF Stage, Sending
  <2>4. TypeOK'
    <3>1. inp' \in 0 .. Len(in') /\ cur' \in 0 .. Requests /\ state' \in States
      BY <1>1, <1>6, <2>1 DEF States, Reading
    <3>2. QED
      BY <1>6, <2>1, <3>1 DEF ConnectionInv, TypeOK, Buffered
  <2>5. QED
    BY <1>2, <2>1, <2>3, <2>4, StaysOpen DEF Buffered
<1>9. QED
  BY <1>7, <1>8

\* parse_request_line.
LEMMA RequestParsed ==
    ASSUME ConnectionInv, open, state = "BEGIN_REQUEST", NEW b \in Seq(Piece), Buffered(b),
           ParseRequest(b),
           UNCHANGED <<size, left, memory, file, keep, running, open, answered>>
    PROVE  ConnectionInv'
<1> DEFINE w == wire' \o todo'
<1>1. WaitsForRequest
  BY DEF ConnectionInv, Stage
<1>2. /\ w \in Seq(Piece) /\ All = b \o w /\ script' = script
      /\ inp \in 0 .. Len(b) /\ inp \in Nat /\ Len(b) \in Nat
  <2>1. inp \in 0 .. Len(in) /\ Len(in) \in Nat
    BY Parts
  <2>2. QED
    BY <2>1 DEF Buffered
<1>3. Unread = StreamFrom(script, Turn) /\ Turn \in 1 .. (Len(script) + 1) /\ ~keep
  BY <1>1 DEF WaitsForRequest
<1>4. script \in Seq(Request) /\ Len(script) \in Nat /\ DOMAIN script = 1 .. Len(script)
  BY Parts
<1>5. CASE inp = Len(b)
  <2>1. in' = b /\ inp' = inp /\ state' = state /\ cur' = cur /\ header' = header
    BY <1>5 DEF ParseRequest
  <2>2. WaitsForRequest'
    <3>1. Unread' = Unread /\ Turn' = Turn
      BY <1>2, <2>1 DEF Unread, All, Turn
    <3>2. QED
      BY <1>1, <1>2, <2>1, <3>1 DEF WaitsForRequest
  <2>3. Stage'
    BY <2>1, <2>2 DEF Stage, Sending
  <2>4. TypeOK'
    BY <1>2, <2>1 DEF ConnectionInv, TypeOK, Buffered
  <2>5. QED
    BY <1>2, <2>1, <2>3, <2>4, StaysOpen DEF Buffered
<1>6. CASE inp # Len(b)
  <2>1. inp < Len(b)
    BY <1>2, <1>6
  <2>2. Turn \in 1 .. Len(script)
    <3>1. Len(Unread) > 0
      <4>1. All \in Seq(Piece) /\ Len(All) >= Len(b) /\ inp \in 0 .. Len(All) /\ Len(All) \in Nat
        BY <1>2
      <4>2. Len(Unread) = Len(All) - inp
        BY <4>1, DropIs DEF Unread
      <4>3. QED
        BY <1>2, <2>1, <4>1, <4>2
    <3>2. Turn # Len(script) + 1
      BY <1>3, <1>4, <3>1, StreamUnfolds
    <3>3. QED
      BY <1>3, <1>4, <3>2
  <2> DEFINE l == <<Line(Turn)>>
             u == <<Headers(Turn)>> \o Behind(script, Turn, script[Turn].size)
  <2>3. Unread = l \o u /\ l \in Seq(Piece) /\ Len(l) = 1
    BY <1>3, <1>4, <2>2, StreamIs
  <2>4. l[1].part = "line" /\ l[1].req = Turn
    BY DEF Line
  <2>5. u \in Seq(Piece)
    <3>1. script[Turn].size \in Nat /\ <<Headers(Turn)>> \in Seq(Piece)
      BY <1>4, <2>2, StreamIs
    <3>2. Behind(script, Turn, script[Turn].size) \in Seq(Piece)
      BY <1>4, <2>2, <3>1, BehindIs
    <3>3. QED
      BY <3>1, <3>2
  <2> HIDE DEF l, u
  <2>6. Drop(b \o w, inp + 1) = u /\ b[inp + 1] = l[1]
    <3>1. Begins(b \o w, inp, l, u) /\ Len(l) <= Len(b) - inp
      BY <1>2, <2>1, <2>3 DEF Unread, Begins
    <3> HIDE DEF w
    <3>2. b \in Seq(Piece) /\ w \in Seq(Piece) /\ l \in Seq(Piece) /\ u \in Seq(Piece)
          /\ inp \in 0 .. Len(b)
      BY <1>2, <2>3, <2>5
    <3>4. Drop(b \o w, inp + Len(l)) = u /\ \A i \in 1 .. Len(l) : b[inp + i] = l[i]
      BY <3>1, <3>2, Consumed
    <3>5. QED
      BY <2>3, <3>4
  <2>7. cur' = Turn /\ ParseHeaders(b, inp + 1)
    BY <1>6, <2>4, <2>6 DEF ParseRequest
  <2>8. inp + 1 \in 0 .. Len(b)
    BY <1>2, <2>1
  <2>9. Drop(All, inp + 1) = <<Headers(Turn)>> \o Behind(script, Turn, script[Turn].size)
    BY <1>2, <2>6 DEF u
  <2>10. QED
    BY <1>3, <1>4, <2>2, <2>7, <2>8, <2>9, HeadersParsed
<1>7. QED
  BY <1>5, <1>6

\* read_request_line keeps the invariant.
LEMMA BeginRequestKeeps ==
    ASSUME ConnectionInv, BeginRequest
    PROVE  ConnectionInv'
<1>1. open /\ state = "BEGIN_REQUEST"
      /\ UNCHANGED <<size, left, memory, file, keep, running, open, answered>>
  BY DEF BeginRequest, In
<1>2. CASE inp = Len(in)
  <2>1. Read /\ ParseRequest(in \o Got)
    BY <1>2 DEF BeginRequest
  <2>2. Buffered(in \o Got) /\ in \o Got \in Seq(Piece)
    BY <2>1, ReadBuffers DEF Buffered
  <2>3. QED
    BY <1>1, <2>1, <2>2, RequestParsed
<1>3. CASE inp # Len(in)
  <2>1. NoRead /\ ParseRequest(in)
    BY <1>3 DEF BeginRequest
  <2>2. Buffered(in) /\ in \in Seq(Piece)
    BY <2>1, NoReadBuffers DEF Buffered
  <2>3. QED
    BY <1>1, <2>1, <2>2, RequestParsed
<1>4. QED
  BY <1>2, <1>3

\* read_headers keeps it.
LEMMA ReadHeadersKeeps ==
    ASSUME ConnectionInv, ReadHeaders
    PROVE  ConnectionInv'
<1> DEFINE b == in \o Got
<1>1. /\ open /\ state = "READING_HEADERS" /\ Read /\ ParseHeaders(b, inp)
      /\ UNCHANGED <<cur, size, left, memory, file, keep, running, open, answered>>
  BY DEF ReadHeaders, In
<1>2. Buffered(b) /\ b \in Seq(Piece)
  BY <1>1, ReadBuffers DEF Buffered
<1> HIDE DEF b
<1>3. HasLine /\ ReadsHeaders
  BY <1>1 DEF ConnectionInv, Stage
<1>4. cur = Turn /\ Turn \in DOMAIN script /\ ~keep
  BY <1>3 DEF HasLine, ReadsHeaders
<1>5. Drop(All, inp) = <<Headers(Turn)>> \o Behind(script, Turn, script[Turn].size)
  BY <1>3, <1>4 DEF ReadsHeaders, Unread, Requested
<1>6. inp \in 0 .. Len(b)
  <2>1. inp \in 0 .. Len(in) /\ Len(in) \in Nat /\ Len(b) \in Nat
    BY <1>2, Parts
  <2>2. QED
    BY <1>2, <2>1 DEF Buffered
<1>7. cur' = Turn
  BY <1>1, <1>4
<1>8. QED
  BY <1>1, <1>2, <1>4, <1>5, <1>6, <1>7, HeadersParsed

----------------------------------------------------------------------------
(***************************************************************************)
(* From PROCESSING_REQUEST on the request is in cur, and what is left as it*)
(* is says the same of the next state.                                     *)
(***************************************************************************)
LEMMA AfterTheHeaders ==
    ASSUME ConnectionInv, open, state \notin {"BEGIN_REQUEST", "READING_HEADERS"}
    PROVE  /\ HasLine /\ cur \in 1 .. Len(script) /\ cur \in Nat
           /\ script \in Seq(Request) /\ Requested \in Request /\ Requested.size \in Nat
           /\ Kind = Requested.kind
           /\ HasBody(Requested.kind) <=> Requested.size > 0
           /\ StreamFrom(script, cur + 1) \in Seq(Piece)
<1>1. HasLine
  BY DEF ConnectionInv, Stage
<1>2. script \in Seq(Request) /\ DOMAIN script = 1 .. Len(script) /\ Len(script) \in Nat
  BY Parts
<1>3. cur \in 1 .. Len(script) /\ cur \in Nat /\ cur \in DOMAIN script
  BY <1>1, <1>2 DEF HasLine
<1>4. Requested \in Request /\ Requested.size \in Nat
  <2>1. script[cur] \in Request
    BY <1>2, <1>3
  <2>2. script[cur].size \in Nat
    BY <1>2, <1>3, StreamIs
  <2>3. QED
    BY <2>1, <2>2 DEF Requested
<1>5. Kind = Requested.kind
  BY <1>3 DEF Kind, Requested
<1>6. HasBody(Requested.kind) <=> Requested.size > 0
  BY <1>3 DEF ConnectionInv, Sensible, Requested
<1>7. StreamFrom(script, cur + 1) \in Seq(Piece)
  <2>1. cur + 1 \in 1 .. (Len(script) + 1)
    BY <1>2, <1>3
  <2>2. QED
    BY <1>2, <2>1, StreamTyped
<1>8. QED
  BY <1>1, <1>2, <1>3, <1>4, <1>5, <1>6, <1>7

\* Without a body, the request ends with its headers.
LEMMA NoBody ==
    ASSUME ConnectionInv, open, state = "PROCESSING_REQUEST", ~ HasBody(Requested.kind)
    PROVE  AtItsEnd /\ Requested.size = 0 /\ inp = header /\ header <= Len(in)
<1>1. /\ Requested.size = 0 /\ script \in Seq(Request) /\ cur \in 1 .. Len(script)
      /\ Requested.kind # "chunked"
  <2>1. Requested.size \in Nat /\ ~ (Requested.size > 0)
    BY AfterTheHeaders
  <2>2. Requested.size = 0
    BY <2>1
  <2>3. Requested.kind # "chunked"
    BY DEF HasBody
  <2>4. QED
    BY <2>2, <2>3, AfterTheHeaders
<1>2. HasHeaders
  BY DEF ConnectionInv, Stage
<1>3. header <= Len(in) /\ inp = header /\ Unread = Behind(script, cur, 0)
  BY <1>1, <1>2 DEF HasHeaders
<1>4. Behind(script, cur, 0) = StreamFrom(script, cur + 1)
  <2>1. script[cur].kind # "chunked" /\ 0 \in Nat
    BY <1>1 DEF Requested
  <2>2. QED
    BY <1>1, <2>1, BehindIs
<1>5. QED
  BY <1>1, <1>3, <1>4 DEF AtItsEnd

(***************************************************************************)
(* A step to a state of the answer, with or without a read of which nothing*)
(* is looked at.                                                           *)
(***************************************************************************)
LEMMA AnsweredKeeps ==
    ASSUME ConnectionInv, open, open', state \notin {"BEGIN_REQUEST", "READING_HEADERS"},
           state' \in Sending \cup {"PREPARING_ERROR_PAGE", "REQUEST_COMPLETED"},
           NEW b \in Seq(Piece), Buffered(b), in' = b, inp' = inp,
           UNCHANGED <<cur, header, size, left, answered>>,
           {memory', running', keep'} \subseteq BOOLEAN, file' \in Seq(Piece) \cup {None},
           keep' => AtItsEnd /\ Requested.keep /\ Requested.kind # "refused"
    PROVE  ConnectionInv'
<1>1. HasLine /\ inp \in Nat /\ Len(b) \in Nat
  BY AfterTheHeaders, Parts
<1>2. script' = script /\ All' = All /\ inp <= Len(b)
  BY DEF Buffered, All
<1>3. Requested' = Requested /\ Turn' = Turn
  BY <1>2 DEF Requested, Turn
<1>4. AtItsEnd' <=> AtItsEnd
  BY <1>2 DEF AtItsEnd, Unread
<1>5. IsAnswered'
  BY <1>3, <1>4 DEF IsAnswered
<1>6. HasLine'
  BY <1>1, <1>2, <1>3 DEF HasLine
<1>7. Stage'
  BY <1>5, <1>6 DEF Stage, Sending
<1>8. TypeOK'
  <2>1. inp' \in 0 .. Len(in') /\ state' \in States
    BY <1>1, <1>2 DEF States
  <2>2. QED
    BY <1>2, <2>1 DEF ConnectionInv, TypeOK, Buffered
<1>9. QED
  BY <1>2, <1>7, <1>8, StaysOpen DEF Buffered

\* The same without a read.
LEMMA AnsweredInPlace ==
    ASSUME ConnectionInv, open, open', state \notin {"BEGIN_REQUEST", "READING_HEADERS"},
           state' \in Sending \cup {"PREPARING_ERROR_PAGE", "REQUEST_COMPLETED"},
           NoRead, UNCHANGED <<bufVars, cur, header, size, left, answered>>,
           {memory', running', keep'} \subseteq BOOLEAN, file' \in Seq(Piece) \cup {None},
           keep' => AtItsEnd /\ Requested.keep /\ Requested.kind # "refused"
    PROVE  ConnectionInv'
<1>1. Buffered(in) /\ in \in Seq(Piece)
  BY NoReadBuffers DEF Buffered
<1>2. in' = in /\ inp' = inp
  BY DEF bufVars
<1>3. UNCHANGED <<cur, header, size, left, answered>>
  OBVIOUS
<1>4. QED
  BY <1>1, <1>2, <1>3, AnsweredKeeps

\* The types that the steps need.
LEMMA Kept ==
    ASSUME ConnectionInv
    PROVE  {memory, running, keep} \subseteq BOOLEAN /\ file \in Seq(Piece) \cup {None}
           /\ {edge, readable, writable} \subseteq BOOLEAN
           /\ header \in Nat /\ size \in Nat /\ left \in Nat
BY DEF ConnectionInv, TypeOK

\* The value of keep a request has asked for.
LEMMA KeepTyped ==
    ASSUME ConnectionInv, open, state \notin {"BEGIN_REQUEST", "READING_HEADERS"}
    PROVE  script[cur].keep \in BOOLEAN /\ Requested.kind \in Kinds
<1>1. Requested \in Request
  BY AfterTheHeaders
<1>2. QED
  BY <1>1 DEF Requested, Request

(***************************************************************************)
(* The requests that are answered without a backend.                       *)
(***************************************************************************)
LEMMA ProcessLocalKeeps ==
    ASSUME ConnectionInv, ProcessLocal
    PROVE  ConnectionInv'
<1>1. /\ open /\ open' /\ state = "PROCESSING_REQUEST" /\ Kind = "local" /\ keep' = script[cur].keep
      /\ state' \in Sending \cup {"PREPARING_ERROR_PAGE", "REQUEST_COMPLETED"}
      /\ NoRead /\ UNCHANGED <<bufVars, cur, header, size, left, memory, file, running, answered>>
  BY DEF ProcessLocal, In, Sending
<1>2. Requested.kind = "local"
  BY <1>1, AfterTheHeaders
<1>3. AtItsEnd
  BY <1>1, <1>2, NoBody DEF HasBody
<1>4. keep' \in BOOLEAN
  BY <1>1, KeepTyped
<1>5. {memory', running', keep'} \subseteq BOOLEAN /\ file' \in Seq(Piece) \cup {None}
  BY <1>1, <1>4, Kept
<1>6. keep' => AtItsEnd /\ Requested.keep /\ Requested.kind # "refused"
  BY <1>1, <1>2, <1>3 DEF Requested
<1>7. QED
  BY <1>1, <1>5, <1>6, AnsweredInPlace

\* not_found, for a request that has no body.
LEMMA ProcessMissingKeeps ==
    ASSUME ConnectionInv, ProcessMissing, "missing post" \notin Kinds
    PROVE  ConnectionInv'
<1>1. /\ open /\ open' /\ state = "PROCESSING_REQUEST" /\ keep' = script[cur].keep
      /\ Kind \in {"missing", "missing post"}
      /\ state' \in Sending \cup {"PREPARING_ERROR_PAGE", "REQUEST_COMPLETED"}
      /\ NoRead /\ UNCHANGED <<bufVars, cur, header, size, left, memory, file, running, answered>>
  BY DEF ProcessMissing, In, Sending
<1>2. Requested.kind = "missing"
  <2>1. Requested.kind \in Kinds
    BY <1>1, KeepTyped
  <2>2. QED
    BY <1>1, <2>1, AfterTheHeaders
<1>3. AtItsEnd
  BY <1>1, <1>2, NoBody DEF HasBody
<1>4. keep' \in BOOLEAN
  BY <1>1, KeepTyped
<1>5. {memory', running', keep'} \subseteq BOOLEAN /\ file' \in Seq(Piece) \cup {None}
  BY <1>1, <1>4, Kept
<1>6. keep' => AtItsEnd /\ Requested.keep /\ Requested.kind # "refused"
  BY <1>1, <1>2, <1>3 DEF Requested
<1>7. QED
  BY <1>1, <1>5, <1>6, AnsweredInPlace

\* The other errors leave the connection to be closed.
LEMMA ProcessRefusedKeeps ==
    ASSUME ConnectionInv, ProcessRefused
    PROVE  ConnectionInv'
<1>1. /\ open /\ open' /\ state = "PROCESSING_REQUEST"
      /\ state' \in Sending \cup {"PREPARING_ERROR_PAGE", "REQUEST_COMPLETED"}
      /\ NoRead /\ UNCHANGED <<bufVars, cur, header, size, left, memory, file, keep, running, answered>>
  BY DEF ProcessRefused, In, requestVars
<1>2. ~keep
  BY <1>1 DEF ConnectionInv, Stage, HasHeaders
<1>3. {memory', running', keep'} \subseteq BOOLEAN /\ file' \in Seq(Piece) \cup {None}
  BY <1>1, Kept
<1>4. keep' => AtItsEnd /\ Requested.keep /\ Requested.kind # "refused"
  BY <1>1, <1>2
<1>5. QED
  BY <1>1, <1>3, <1>4, AnsweredInPlace

\* The temporary file has failed: the connection will not be kept alive.
LEMMA FileFailsKeeps ==
    ASSUME ConnectionInv, FileFails
    PROVE  ConnectionInv'
<1>1. /\ open /\ open' /\ state \in {"PROCESSING_REQUEST", "READING_BODY", "READING_CHUNKED_BODY"}
      /\ state' \in Sending \cup {"PREPARING_ERROR_PAGE", "REQUEST_COMPLETED"}
      /\ UNCHANGED <<inp, cur, header, size, left, keep, running, answered>>
  BY DEF FileFails, In
<1>2. ~keep
  BY <1>1 DEF ConnectionInv, Stage, HasHeaders, ReadsBody, ReadsChunks
<1>3. {memory', running', keep'} \subseteq BOOLEAN /\ file' \in Seq(Piece) \cup {None}
  <2>1. {memory, running, keep} \subseteq BOOLEAN /\ file \in Seq(Piece) \cup {None}
    BY Kept
  <2>2. <<>> \in Seq(Piece)
    OBVIOUS
  <2>3. memory' \in BOOLEAN /\ file' \in Seq(Piece) \cup {None}
    BY <2>1, <2>2 DEF FileFails
  <2>4. QED
    BY <1>1, <2>1, <2>3
<1>4. keep' => AtItsEnd /\ Requested.keep /\ Requested.kind # "refused"
  BY <1>1, <1>2
<1>5. (NoRead /\ in' = in) \/ (Read /\ in' = in \o Got)
  BY DEF FileFails
<1>6. PICK b \in Seq(Piece) : Buffered(b) /\ in' = b
  BY <1>5, NoReadBuffers, ReadBuffers DEF Buffered
<1>7. QED
  BY <1>1, <1>3, <1>4, <1>6, AnsweredKeeps

(***************************************************************************)
(* The answer itself.                                                      *)
(***************************************************************************)
LEMMA BackendAnswersKeeps ==
    ASSUME ConnectionInv, BackendAnswers
    PROVE  ConnectionInv'
<1>1. /\ open /\ open' /\ state = "WAITING_FOR_BACKEND"
      /\ state' \in Sending \cup {"PREPARING_ERROR_PAGE", "REQUEST_COMPLETED"}
      /\ NoRead /\ UNCHANGED <<bufVars, cur, header, size, left, keep, answered>>
      /\ {memory', running'} \subseteq BOOLEAN
      /\ file' \in {None, <<>>, file}
  BY DEF BackendAnswers, Sending
<1>2. HasPayload
  BY <1>1 DEF ConnectionInv, Stage
<1>3. {memory', running', keep'} \subseteq BOOLEAN /\ file' \in Seq(Piece) \cup {None}
  <2>1. <<>> \in Seq(Piece)
    OBVIOUS
  <2>2. QED
    BY <1>1, <2>1, Kept
<1>4. keep' => AtItsEnd /\ Requested.keep /\ Requested.kind # "refused"
  BY <1>1, <1>2 DEF HasPayload
<1>5. QED
  BY <1>1, <1>3, <1>4, AnsweredInPlace

\* The error page is sent in the place of a body.
LEMMA PrepareErrorPageKeeps ==
    ASSUME ConnectionInv, PrepareErrorPage
    PROVE  ConnectionInv'
<1>1. /\ open /\ open' /\ state = "PREPARING_ERROR_PAGE"
      /\ state' \in Sending \cup {"PREPARING_ERROR_PAGE", "REQUEST_COMPLETED"}
      /\ NoRead /\ UNCHANGED <<bufVars, cur, header, size, left, memory, file, keep, running, answered>>
  BY DEF PrepareErrorPage, In, Sending, requestVars
<1>2. IsAnswered
  BY <1>1 DEF ConnectionInv, Stage
<1>3. {memory', running', keep'} \subseteq BOOLEAN /\ file' \in Seq(Piece) \cup {None}
  BY <1>1, Kept
<1>4. keep' => AtItsEnd /\ Requested.keep /\ Requested.kind # "refused"
  BY <1>1, <1>2 DEF IsAnswered
<1>5. QED
  BY <1>1, <1>3, <1>4, AnsweredInPlace

\* The last of an answer, or of its headers, is written.
LEMMA SendRestKeeps ==
    ASSUME ConnectionInv, SendRest
    PROVE  ConnectionInv'
<1>1. /\ open /\ open' /\ state \in Sending
      /\ NoRead /\ UNCHANGED <<bufVars, cur, header, size, left, memory, file, keep, running, answered>>
  BY DEF SendRest, requestVars, netVars, NoRead
<1>2. state \notin {"BEGIN_REQUEST", "READING_HEADERS"}
      /\ state' \in Sending \cup {"PREPARING_ERROR_PAGE", "REQUEST_COMPLETED"}
  BY <1>1 DEF SendRest, AfterSending, Sending
<1>3. IsAnswered
  BY <1>1 DEF ConnectionInv, Stage
<1>4. {memory', running', keep'} \subseteq BOOLEAN /\ file' \in Seq(Piece) \cup {None}
  BY <1>1, Kept
<1>5. keep' => AtItsEnd /\ Requested.keep /\ Requested.kind # "refused"
  BY <1>1, <1>3 DEF IsAnswered
<1>6. QED
  BY <1>1, <1>2, <1>4, <1>5, AnsweredInPlace

----------------------------------------------------------------------------
(***************************************************************************)
(* A step after which a backend can be sent the payload.                   *)
(***************************************************************************)
LEMMA PayloadReady ==
    ASSUME ConnectionInv, open, open', state \notin {"BEGIN_REQUEST", "READING_HEADERS"},
           state' \in {"PREPARING_HTTP_REQUEST", "WAITING_FOR_BACKEND"},
           NEW b \in Seq(Piece), Buffered(b), in' = b, inp' \in 0 .. Len(b),
           Drop(All, inp') = StreamFrom(script, cur + 1),
           UNCHANGED <<cur, header, answered>>,
           {memory', running', keep'} \subseteq BOOLEAN, file' \in Seq(Piece) \cup {None},
           left' \in Nat, size' = Requested.size,
           Requested.kind \in {"forward", "post", "chunked"},
           keep' => Requested.keep,
           Payload' = Data(cur, Requested.size)
    PROVE  ConnectionInv'
<1>1. HasLine /\ Requested.size \in Nat
  BY AfterTheHeaders
<1>2. script' = script /\ All' = All
  BY DEF Buffered, All
<1>3. Requested' = Requested /\ Turn' = Turn /\ cur' = cur
  BY <1>2 DEF Requested, Turn
<1>4. AtItsEnd'
  BY <1>2, <1>3 DEF AtItsEnd, Unread
<1>5. HasPayload'
  <2>1. Payload' = Body(cur', Requested')
    BY <1>3 DEF Body, Data
  <2>2. QED
    BY <1>3, <1>4, <2>1 DEF HasPayload
<1>6. HasLine'
  BY <1>1, <1>2, <1>3 DEF HasLine
<1>7. Stage'
  BY <1>5, <1>6 DEF Stage, Sending
<1>8. TypeOK'
  <2>1. inp' \in 0 .. Len(in') /\ state' \in States /\ size' \in Nat
    BY <1>1 DEF States
  <2>2. QED
    BY <1>2, <2>1 DEF ConnectionInv, TypeOK, Buffered
<1>9. QED
  BY <1>2, <1>7, <1>8, StaysOpen DEF Buffered

\* A backend has been found for the request, or is waited for.
LEMMA PrepareHttpRequestKeeps ==
    ASSUME ConnectionInv, PrepareHttpRequest
    PROVE  ConnectionInv'
<1>1. /\ open /\ open' /\ state = "PREPARING_HTTP_REQUEST" /\ state' = "WAITING_FOR_BACKEND"
      /\ keep' = script[cur].keep
      /\ NoRead /\ UNCHANGED <<in, inp, cur, header, size, left, memory, file, running, answered>>
  BY DEF PrepareHttpRequest, In, bufVars
<1>2. HasPayload
  BY <1>1 DEF ConnectionInv, Stage
<1>3. Buffered(in) /\ in \in Seq(Piece)
  BY <1>1, NoReadBuffers DEF Buffered
<1>4. inp' \in 0 .. Len(in) /\ Drop(All, inp') = StreamFrom(script, cur + 1)
  BY <1>1, <1>2, Parts DEF HasPayload, AtItsEnd, Unread
<1>5. {memory', running', keep'} \subseteq BOOLEAN /\ file' \in Seq(Piece) \cup {None} /\ left' \in Nat
  BY <1>1, Kept, KeepTyped
<1>6. Payload' = Data(cur, Requested.size)
  <2>1. Payload' = Payload
    BY <1>1 DEF Payload
  <2>2. Body(cur, Requested) = Data(cur, Requested.size)
    BY DEF Body, Data
  <2>3. QED
    BY <1>2, <2>1, <2>2 DEF HasPayload
<1>7. /\ size' = Requested.size /\ Requested.kind \in {"forward", "post", "chunked"}
      /\ keep' => Requested.keep
  BY <1>1, <1>2 DEF HasPayload, Requested
<1>8. QED
  BY <1>1, <1>3, <1>4, <1>5, <1>6, <1>7, PayloadReady

\* A GET or HEAD for a backend has no payload.
LEMMA ProcessForwardKeeps ==
    ASSUME ConnectionInv, ProcessForward
    PROVE  ConnectionInv'
<1>1. /\ open /\ open' /\ state = "PROCESSING_REQUEST" /\ state' = "PREPARING_HTTP_REQUEST"
      /\ Kind = "forward" /\ size' = 0 /\ memory' = TRUE
      /\ NoRead /\ UNCHANGED <<in, inp, cur, header, left, file, keep, running, answered>>
  BY DEF ProcessForward, In, bufVars
<1>2. Requested.kind = "forward"
  BY <1>1, AfterTheHeaders
<1>3. AtItsEnd /\ Requested.size = 0
  BY <1>1, <1>2, NoBody DEF HasBody
<1>4. Buffered(in) /\ in \in Seq(Piece)
  BY <1>1, NoReadBuffers DEF Buffered
<1>5. inp' \in 0 .. Len(in) /\ Drop(All, inp') = StreamFrom(script, cur + 1)
  BY <1>1, <1>3, Parts DEF AtItsEnd, Unread
<1>6. {memory', running', keep'} \subseteq BOOLEAN /\ file' \in Seq(Piece) \cup {None} /\ left' \in Nat
  BY <1>1, Kept
<1>7. Payload' = Data(cur, Requested.size)
  <2>1. Payload' = SubSeq(in, header + 1, header)
    <3>1. header \in Nat
      BY Kept
    <3>2. Payload' = SubSeq(in', header' + 1, header' + size')
      BY <1>1 DEF Payload
    <3>3. header' + size' = header
      BY <1>1, <3>1
    <3>4. QED
      BY <1>1, <3>2, <3>3
  <2>2. SubSeq(in, header + 1, header) = <<>>
    <3>1. header \in Nat /\ in \in Seq(Piece)
      BY Kept, Parts
    <3>2. QED
      BY <3>1
  <2>3. Data(cur, 0) = <<>>
    <3>1. cur \in Nat
      BY <1>1, AfterTheHeaders
    <3>2. Data(cur, 0) \in Seq(Piece) /\ Len(Data(cur, 0)) = 0
      BY <3>1, DataIs
    <3>3. QED
      BY <3>2
  <2>4. QED
    BY <1>3, <2>1, <2>2, <2>3
<1>8. /\ size' = Requested.size /\ Requested.kind \in {"forward", "post", "chunked"}
      /\ keep' => Requested.keep
  BY <1>1, <1>2, <1>3 DEF ConnectionInv, Stage, HasHeaders
<1>9. QED
  BY <1>1, <1>4, <1>5, <1>6, <1>7, <1>8, PayloadReady

(***************************************************************************)
(* A piece of a body of which n pieces are to come: as much as the buffer  *)
(* b has of it from the place p on.                                        *)
(***************************************************************************)
LEMMA SomeOfTheBody ==
    ASSUME NEW s \in Seq(Request), NEW i \in 1 .. Len(s), NEW n \in Nat, NEW k \in 0 .. n,
           NEW b \in Seq(Piece), NEW w \in Seq(Piece), NEW p \in 0 .. Len(b), k <= Len(b) - p,
           Drop(b \o w, p) = Behind(s, i, n)
    PROVE  /\ Drop(b \o w, p + k) = Behind(s, i, n - k)
           /\ SubSeq(b, p + 1, p + k) = Data(i, k)
           /\ p + k = Len(b) => w = Behind(s, i, n - k)
<1> DEFINE c == Data(i, k)
           d == Behind(s, i, n - k)
<1>1. i \in Nat /\ k \in Nat /\ n - k \in Nat /\ p \in Nat /\ Len(b) \in Nat
  OBVIOUS
<1>2. c \in Seq(Piece) /\ Len(c) = k
  BY <1>1, DataIs
<1>3. d \in Seq(Piece)
  BY <1>1, BehindIs
<1>4. Behind(s, i, n) = c \o d
  BY BehindIs
<1> HIDE DEF c, d
<1>5. Begins(b \o w, p, c, d)
  BY <1>4 DEF Begins
<1>6. Len(c) <= Len(b) - p
  BY <1>2
<1>7. Drop(b \o w, p + Len(c)) = d /\ SubSeq(b, p + 1, p + Len(c)) = c
  BY <1>2, <1>3, <1>5, <1>6, Consumed, ZenonT(40)
<1>8. Drop(b \o w, Len(b)) = w
  BY DropOfTwo
<1>9. QED
  BY <1>2, <1>7, <1>8 DEF c, d

\* All of the payload of a POST has come with its headers.
LEMMA ProcessPostWholeKeeps ==
    ASSUME ConnectionInv, ProcessPostWhole
    PROVE  ConnectionInv'
<1> DEFINE w == wire \o todo
           n == Requested.size
<1>1. /\ open /\ open' /\ state = "PROCESSING_REQUEST" /\ state' = "PREPARING_HTTP_REQUEST"
      /\ Kind = "post" /\ size' = script[cur].size /\ header + size' <= Len(in)
      /\ memory' = TRUE /\ inp' = inp + size'
      /\ NoRead /\ UNCHANGED <<in, cur, header, left, file, keep, running, answered>>
  BY DEF ProcessPostWhole, In
<1>2. /\ Requested.kind = "post" /\ n \in Nat /\ script \in Seq(Request) /\ cur \in 1 .. Len(script)
      /\ cur \in Nat
  BY <1>1, AfterTheHeaders
<1>3. size' = n
  BY <1>1 DEF Requested
<1>4. /\ in \in Seq(Piece) /\ w \in Seq(Piece) /\ Len(in) \in Nat /\ header \in Nat
      /\ inp \in 0 .. Len(in)
  BY Parts, Kept
<1>5. HasHeaders
  BY <1>1 DEF ConnectionInv, Stage
<1>6. header <= Len(in) /\ inp = header /\ Unread = Behind(script, cur, n) /\ ~keep
  BY <1>2, <1>5 DEF HasHeaders
<1>7. Drop(in \o w, inp) = Behind(script, cur, n)
  BY <1>6 DEF Unread, All
<1>8. n <= Len(in) - inp
  <2> HIDE DEF n
  <2>1. QED
    BY <1>1, <1>2, <1>3, <1>4, <1>6
<1>9. Drop(in \o w, inp + n) = Behind(script, cur, n - n) /\ SubSeq(in, inp + 1, inp + n) = Data(cur, n)
  <2> HIDE DEF n, w
  <2>1. n \in 0 .. n
    BY <1>2
  <2>2. QED
    BY <1>2, <1>4, <1>7, <1>8, <2>1, SomeOfTheBody
<1>10. Behind(script, cur, n - n) = StreamFrom(script, cur + 1)
  <2>1. script[cur].kind # "chunked" /\ n - n = 0 /\ 0 \in Nat
    BY <1>2 DEF Requested
  <2>2. QED
    BY <1>2, <2>1, BehindIs
<1>11. Buffered(in)
  BY <1>1, NoReadBuffers
<1>12. inp' \in 0 .. Len(in)
  <2> HIDE DEF n
  <2>1. QED
    BY <1>1, <1>2, <1>3, <1>4, <1>8
<1>13. Drop(All, inp') = StreamFrom(script, cur + 1)
  BY <1>1, <1>3, <1>9, <1>10 DEF All
<1>14. {memory', running', keep'} \subseteq BOOLEAN /\ file' \in Seq(Piece) \cup {None} /\ left' \in Nat
  BY <1>1, Kept
<1>15. Payload' = Data(cur, n)
  <2>1. Payload' = SubSeq(in', header' + 1, header' + size')
    BY <1>1 DEF Payload
  <2>2. QED
    BY <1>1, <1>3, <1>6, <1>9, <2>1
<1>16. Requested.kind \in {"forward", "post", "chunked"} /\ (keep' => Requested.keep)
  BY <1>1, <1>2, <1>6
<1>17. QED
  BY <1>1, <1>3, <1>4, <1>11, <1>12, <1>13, <1>14, <1>15, <1>16, PayloadReady

----------------------------------------------------------------------------
(***************************************************************************)
(* read_body.  What the buffer has after a step is all of the body that has*)
(* been read, and then the buffer has been looked at to its end, or none of*)
(* it, and then the file has it.                                           *)
(***************************************************************************)
LEMMA BodyGoesOn ==
    ASSUME ConnectionInv, open, open', state \notin {"BEGIN_REQUEST", "READING_HEADERS"},
           state' = "READING_BODY",
           NEW b \in Seq(Piece), Buffered(b), UNCHANGED <<cur, header, answered>>,
           {memory', running', keep'} \subseteq BOOLEAN, file' \in Seq(Piece) \cup {None},
           ~keep', Requested.kind = "post", size' = Requested.size, left' \in 1 .. size',
           wire' \o todo' = Behind(script, cur, left'),
           memory' => /\ in' = b /\ inp' = Len(b) /\ header + (size' - left') = inp'
                      /\ SubSeq(b, header + 1, inp') = Data(cur, size' - left'),
           ~memory' => in' = <<>> /\ inp' = 0 /\ file' = Data(cur, size' - left')
    PROVE  ConnectionInv'
<1> DEFINE w == wire' \o todo'
<1>1. HasLine /\ Requested.size \in Nat
  BY AfterTheHeaders
<1>2. script' = script /\ w \in Seq(Piece) /\ Len(b) \in Nat
  BY DEF Buffered
<1>3. Requested' = Requested /\ Turn' = Turn /\ cur' = cur /\ header' = header
  BY <1>2 DEF Requested, Turn
<1>4. Unread' = w
  <2>1. CASE memory'
    <3>1. Unread' = Drop(b \o w, Len(b))
      BY <2>1 DEF Unread, All
    <3>2. QED
      BY <1>2, <3>1, DropOfTwo
  <2>2. CASE ~memory'
    <3>1. Unread' = Drop(<<>> \o w, 0)
      BY <2>2 DEF Unread, All
    <3>2. <<>> \o w = w /\ Drop(w, 0) = w
      BY <1>2 DEF Drop
    <3>3. QED
      BY <3>1, <3>2
  <2>3. QED
    BY <2>1, <2>2
<1>5. ReadsBody'
  <2>1. Unread' = Behind(script', cur', left')
    BY <1>2, <1>3, <1>4
  <2>2. IF memory'
        THEN /\ header' + (size' - left') = inp' /\ inp' = Len(in')
             /\ SubSeq(in', header' + 1, inp') = Data(cur', size' - left')
        ELSE in' = <<>> /\ file' = Data(cur', size' - left')
    BY <1>3
  <2>3. QED
    BY <1>3, <2>1, <2>2 DEF ReadsBody
<1>6. HasLine'
  BY <1>1, <1>2, <1>3 DEF HasLine
<1>7. Stage'
  BY <1>5, <1>6 DEF Stage, Sending
<1>8. TypeOK'
  <2>1. state' \in States /\ size' \in Nat /\ left' \in Nat
    BY <1>1 DEF States, Reading
  <2>2. in' \in Seq(Piece) /\ inp' \in 0 .. Len(in')
    <3>1. CASE memory'
      BY <1>2, <3>1
    <3>2. CASE ~memory'
      <4>1. <<>> \in Seq(Piece) /\ 0 \in 0 .. Len(<<>>)
        OBVIOUS
      <4>2. QED
        BY <3>2, <4>1
    <3>3. QED
      BY <3>1, <3>2
  <2>3. QED
    BY <1>2, <2>1, <2>2 DEF ConnectionInv, TypeOK, Buffered
<1>9. QED
  BY <1>2, <1>7, <1>8, StaysOpen DEF Buffered

\* Some of the payload of a POST has come with its headers.
LEMMA ProcessPostPartKeeps ==
    ASSUME ConnectionInv, ProcessPostPart
    PROVE  ConnectionInv'
<1> DEFINE w == wire \o todo
           n == Requested.size
           k == Len(in) - header
<1>1. /\ open /\ open' /\ state = "PROCESSING_REQUEST" /\ state' = "READING_BODY"
      /\ Kind = "post" /\ size' = script[cur].size /\ header + size' > Len(in)
      /\ left' = size' - Len(Rest) /\ memory' \in BOOLEAN
      /\ NoRead /\ UNCHANGED <<cur, header, keep, running, answered>>
  BY DEF ProcessPostPart, In
<1>2. /\ Requested.kind = "post" /\ n \in Nat /\ script \in Seq(Request) /\ cur \in 1 .. Len(script)
      /\ cur \in Nat
  BY <1>1, AfterTheHeaders
<1>3. size' = n
  BY <1>1 DEF Requested
<1>4. /\ in \in Seq(Piece) /\ w \in Seq(Piece) /\ Len(in) \in Nat /\ header \in Nat
      /\ inp \in 0 .. Len(in)
  BY Parts, Kept
<1>5. HasHeaders
  BY <1>1 DEF ConnectionInv, Stage
<1>6. header <= Len(in) /\ inp = header /\ Unread = Behind(script, cur, n) /\ ~keep
  BY <1>2, <1>5 DEF HasHeaders
<1>7. Drop(in \o w, inp) = Behind(script, cur, n)
  BY <1>6 DEF Unread, All
<1>8. k \in Nat /\ k < n /\ inp + k = Len(in) /\ k <= Len(in) - inp
  <2> HIDE DEF n
  <2>1. QED
    BY <1>1, <1>2, <1>3, <1>4, <1>6
<1>9. /\ SubSeq(in, inp + 1, inp + k) = Data(cur, k) /\ w = Behind(script, cur, n - k)
  <2> HIDE DEF n, w, k
  <2>1. k \in 0 .. n
    BY <1>2, <1>8
  <2>2. QED
    BY <1>2, <1>4, <1>7, <1>8, <2>1, SomeOfTheBody
<1>10. Rest = Data(cur, k) /\ Len(Rest) = k
  <2> HIDE DEF k
  <2>1. Rest = SubSeq(in, inp + 1, inp + k)
    BY <1>6, <1>8 DEF Rest
  <2>2. Len(Data(cur, k)) = k
    BY <1>2, <1>8, DataIs
  <2>3. QED
    BY <1>9, <2>1, <2>2
<1>11. left' = n - k /\ left' \in 1 .. size' /\ size' - left' = k
  <2> HIDE DEF n, k
  <2>1. QED
    BY <1>1, <1>2, <1>3, <1>8, <1>10
<1>12. Buffered(in)
  BY <1>1, NoReadBuffers
<1>13. wire' \o todo' = Behind(script, cur, left')
  <2>1. wire' = wire /\ todo' = todo
    BY <1>1 DEF NoRead, netVars
  <2>2. QED
    BY <1>9, <1>11, <2>1
<1>14. {memory', running', keep'} \subseteq BOOLEAN /\ file' \in Seq(Piece) \cup {None}
  <2>1. file' \in {file, Rest}
    BY DEF ProcessPostPart
  <2>2. Rest \in Seq(Piece)
    <3> HIDE DEF k
    <3>1. QED
      BY <1>2, <1>8, <1>10, DataIs
  <2>3. QED
    BY <1>1, <2>1, <2>2, Kept
<1>15. memory' => /\ in' = in /\ inp' = Len(in) /\ header + (size' - left') = inp'
                  /\ SubSeq(in, header + 1, inp') = Data(cur, size' - left')
  <2> SUFFICES ASSUME memory'
               PROVE  /\ in' = in /\ inp' = Len(in) /\ header + (size' - left') = inp'
                      /\ SubSeq(in, header + 1, inp') = Data(cur, size' - left')
    OBVIOUS
  <2>1. in' = in /\ inp' = inp + Len(Rest)
    BY DEF ProcessPostPart
  <2> HIDE DEF k
  <2>2. inp' = inp + k
    BY <1>10, <2>1
  <2>3. QED
    BY <1>6, <1>8, <1>9, <1>11, <2>1, <2>2
<1>16. ~memory' => in' = <<>> /\ inp' = 0 /\ file' = Data(cur, size' - left')
  <2> SUFFICES ASSUME ~memory' PROVE in' = <<>> /\ inp' = 0 /\ file' = Data(cur, size' - left')
    OBVIOUS
  <2>1. in' = <<>> /\ inp' = 0 /\ file' = Rest
    BY DEF ProcessPostPart
  <2>2. QED
    BY <1>10, <1>11, <2>1
<1>17. UNCHANGED <<cur, header, answered>> /\ ~keep'
  BY <1>1, <1>6
<1>18. QED
  BY <1>1, <1>2, <1>3, <1>4, <1>11, <1>12, <1>13, <1>14, <1>15, <1>16, <1>17, BodyGoesOn

\* More of it is read, perhaps the last of it.
LEMMA ReadBodyKeeps ==
    ASSUME ConnectionInv, ReadBody
    PROVE  ConnectionInv'
<1> DEFINE w == wire' \o todo'
           b == in \o Got
           n == Requested.size
           k == IF left < Len(b) - inp THEN left ELSE Len(b) - inp
           had == n - left
<1>1. /\ open /\ open' /\ state = "READING_BODY" /\ Read
      /\ file' = IF memory THEN file ELSE file \o SubSeq(b, 1, k)
      /\ IF k = left
         THEN /\ in' = b /\ inp' = inp + k
              /\ state' = "PREPARING_HTTP_REQUEST"
              /\ left' = left
         ELSE /\ left' = left - k
              /\ IF memory THEN in' = b /\ inp' = inp + k ELSE in' = <<>> /\ inp' = inp
              /\ state' = state
      /\ UNCHANGED <<cur, header, size, memory, keep, running, answered>>
  BY DEF ReadBody, In
<1>2. /\ n \in Nat /\ script \in Seq(Request) /\ cur \in 1 .. Len(script) /\ cur \in Nat
  BY <1>1, AfterTheHeaders
<1>3. ReadsBody
  BY <1>1 DEF ConnectionInv, Stage
<1>4. /\ Requested.kind = "post" /\ size = n /\ left \in 1 .. n /\ Unread = Behind(script, cur, left)
      /\ ~keep
  BY <1>3 DEF ReadsBody
<1>5. /\ in \in Seq(Piece) /\ Len(in) \in Nat /\ header \in Nat /\ inp \in 0 .. Len(in)
      /\ inp \in Nat
  BY Parts, Kept
<1>6. Buffered(b)
  BY <1>1, ReadBuffers
<1>7. b \in Seq(Piece) /\ w \in Seq(Piece) /\ All = b \o w /\ Len(b) \in Nat /\ inp \in 0 .. Len(b)
  <2>1. b \in Seq(Piece) /\ w \in Seq(Piece) /\ All = b \o w /\ inp <= Len(b)
    BY <1>6 DEF Buffered
  <2> HIDE DEF b
  <2>2. QED
    BY <1>5, <2>1
<1>8. Got \in Seq(Piece)
  BY <1>1, ReadIs
<1>9. k \in 0 .. left /\ k <= Len(b) - inp /\ k \in Nat /\ inp + k <= Len(b)
      /\ (k = left \/ inp + k = Len(b))
  <2> HIDE DEF b, n
  <2>1. left \in Nat
    BY <1>2, <1>4
  <2>2. QED
    BY <1>5, <1>7, <2>1
<1>10. had \in Nat /\ left \in Nat /\ left <= n
  <2> HIDE DEF n
  <2>1. QED
    BY <1>2, <1>4
<1> HIDE DEF k
<1>11. Drop(b \o w, inp) = Behind(script, cur, left)
  BY <1>4, <1>7 DEF Unread
<1>12. /\ Drop(b \o w, inp + k) = Behind(script, cur, left - k)
       /\ SubSeq(b, inp + 1, inp + k) = Data(cur, k)
       /\ inp + k = Len(b) => w = Behind(script, cur, left - k)
  <2> HIDE DEF b, w, n, had
  <2>1. QED
    BY <1>2, <1>7, <1>9, <1>10, <1>11, SomeOfTheBody
<1>13. Data(cur, had) \o Data(cur, k) = Data(cur, had + k)
  <2> HIDE DEF had
  <2>1. QED
    BY <1>2, <1>9, <1>10, DataOfTwo
<1>14. memory => /\ header + had = inp
                 /\ SubSeq(b, header + 1, inp + k) = Data(cur, had + k)
  <2> SUFFICES ASSUME memory
               PROVE  header + had = inp /\ SubSeq(b, header + 1, inp + k) = Data(cur, had + k)
    OBVIOUS
  <2>1. header + had = inp /\ inp = Len(in) /\ SubSeq(in, header + 1, inp) = Data(cur, had)
    BY <1>3, <1>4 DEF ReadsBody
  <2>3. SubSeq(b, header + 1, inp) = SubSeq(in, header + 1, inp)
    <3> DEFINE x == SubSeq(b, header + 1, inp)
               y == SubSeq(in, header + 1, inp)
    <3>1. b = in \o Got
      OBVIOUS
    <3> HIDE DEF b
    <3>2. \A i \in 1 .. inp : b[i] = in[i]
      BY <1>5, <1>8, <2>1, <3>1
    <3> HIDE DEF had
    <3>3. header <= inp
      BY <1>5, <1>10, <2>1
    <3>4. \A i \in (header + 1) .. inp : b[i] \in Piece /\ in[i] \in Piece
      BY <1>5, <1>7, <2>1
    <3>5. x \in Seq(Piece) /\ Len(x) = inp - header
      BY <1>5, <3>3, <3>4
    <3>6. y \in Seq(Piece) /\ Len(y) = inp - header
      BY <1>5, <3>3, <3>4
    <3>7. \A i \in 1 .. (inp - header) : x[i] = b[header + i] /\ y[i] = in[header + i]
      BY <1>5, <3>3
    <3>8. \A i \in 1 .. (inp - header) : x[i] = y[i]
      <4> HIDE DEF x, y
      <4> TAKE i \in 1 .. (inp - header)
      <4>1. header + i \in 1 .. inp
        BY <1>5, <3>3
      <4>2. QED
        BY <3>2, <3>7, <4>1
    <3> HIDE DEF x, y
    <3>9. x = y
      BY <3>5, <3>6, <3>8, SeqEqual
    <3>10. QED
      BY <3>9 DEF x, y
  <2>4. SubSeq(b, header + 1, inp) \o SubSeq(b, inp + 1, inp + k) = SubSeq(b, header + 1, inp + k)
    <3> HIDE DEF b, had
    <3>1. header + 1 \in 1 .. (Len(b) + 1) /\ inp \in header .. Len(b) /\ inp + k \in inp .. Len(b)
      BY <1>5, <1>7, <1>9, <1>10, <2>1
    <3>2. (header + 1) - 1 = header
      BY <1>5
    <3>3. QED
      BY <1>7, <3>1, <3>2, ConcatAdjacentSubSeq
  <2>5. QED
    BY <1>12, <1>13, <2>1, <2>3, <2>4
<1>15. ~memory => in = <<>> /\ inp = 0 /\ file' = Data(cur, had + k)
  <2> SUFFICES ASSUME ~memory PROVE in = <<>> /\ inp = 0 /\ file' = Data(cur, had + k)
    OBVIOUS
  <2>1. in = <<>> /\ file = Data(cur, had)
    BY <1>3, <1>4 DEF ReadsBody
  <2>2. inp = 0
    BY <1>5, <2>1
  <2>3. SubSeq(b, 1, k) = Data(cur, k)
    <3>1. inp + 1 = 1 /\ inp + k = k
      BY <1>9, <2>2
    <3> HIDE DEF b
    <3>2. QED
      BY <1>12, <3>1
  <2>4. QED
    BY <1>1, <1>13, <2>1, <2>2, <2>3
<1>16. {memory', running', keep'} \subseteq BOOLEAN /\ file' \in Seq(Piece) \cup {None} /\ ~keep'
  <2>1. {memory, running, keep} \subseteq BOOLEAN /\ file \in Seq(Piece) \cup {None}
    BY Kept
  <2>2. ~memory => file' \in Seq(Piece)
    <3>1. Data(cur, had + k) \in Seq(Piece)
      <4> HIDE DEF had
      <4>1. had + k \in Nat
        BY <1>9, <1>10
      <4>2. QED
        BY <1>2, <4>1, DataIs
    <3>2. QED
      BY <1>15, <3>1
  <2>3. QED
    BY <1>1, <1>4, <2>1, <2>2
<1>17. size' = n
  BY <1>1, <1>4
<1> HIDE DEF b, w
<1>18. CASE k = left
  <2>1. /\ in' = b /\ inp' = inp + k /\ state' = "PREPARING_HTTP_REQUEST" /\ left' \in Nat
    BY <1>1, <1>10, <1>18
  <2>2. inp' \in 0 .. Len(b)
    BY <1>5, <1>7, <1>9, <2>1
  <2>3. Drop(All, inp') = StreamFrom(script, cur + 1)
    <3>1. script[cur].kind # "chunked" /\ left - k = 0 /\ 0 \in Nat
      BY <1>4, <1>10, <1>18 DEF Requested
    <3>2. Behind(script, cur, 0) = StreamFrom(script, cur + 1)
      BY <1>2, <3>1, BehindIs
    <3>3. QED
      BY <1>7, <1>12, <2>1, <3>1, <3>2
  <2>4. had + k = n
    <3> HIDE DEF n
    <3>1. QED
      BY <1>2, <1>10, <1>18
  <2>5. Payload' = Data(cur, n)
    <3>1. CASE memory
      <4>1. header + n = inp + k
        <5> HIDE DEF n
        <5>1. QED
          BY <1>2, <1>5, <1>10, <1>14, <1>18, <3>1
      <4>2. Payload' = SubSeq(in', header' + 1, header' + size')
        BY <1>1, <3>1 DEF Payload
      <4>3. QED
        BY <1>1, <1>14, <1>17, <2>1, <2>4, <3>1, <4>1, <4>2
    <3>2. CASE ~memory
      <4>1. Payload' = file'
        BY <1>1, <3>2 DEF Payload
      <4>2. QED
        BY <1>15, <2>4, <3>2, <4>1
    <3>3. QED
      BY <3>1, <3>2
  <2>6. UNCHANGED <<cur, header, answered>> /\ Requested.kind \in {"forward", "post", "chunked"}
        /\ (keep' => Requested.keep)
    BY <1>1, <1>4, <1>16
  <2>7. QED
    BY <1>1, <1>6, <1>7, <1>16, <1>17, <2>1, <2>2, <2>3, <2>5, <2>6, PayloadReady
<1>19. CASE k # left
  <2>1. /\ left' = left - k /\ state' = "READING_BODY"
        /\ IF memory THEN in' = b /\ inp' = inp + k ELSE in' = <<>> /\ inp' = inp
    BY <1>1, <1>19
  <2>2. inp + k = Len(b)
    BY <1>9, <1>19
  <2>3. left' \in 1 .. size' /\ size' - left' = had + k
    <3> HIDE DEF n
    <3>1. QED
      BY <1>2, <1>9, <1>10, <1>17, <1>19, <2>1 DEF had
  <2>4. wire' \o todo' = Behind(script, cur, left')
    BY <1>12, <2>1, <2>2 DEF w
  <2>5. memory' => /\ in' = b /\ inp' = Len(b) /\ header + (size' - left') = inp'
                   /\ SubSeq(b, header + 1, inp') = Data(cur, size' - left')
    <3> HIDE DEF had
    <3>1. memory => header + (had + k) = inp + k
      BY <1>5, <1>9, <1>10, <1>14
    <3>2. QED
      BY <1>1, <1>14, <2>1, <2>2, <2>3, <3>1
  <2>6. ~memory' => in' = <<>> /\ inp' = 0 /\ file' = Data(cur, size' - left')
    BY <1>1, <1>15, <2>1, <2>3
  <2>7. UNCHANGED <<cur, header, answered>>
    BY <1>1
  <2>8. QED
    BY <1>1, <1>4, <1>6, <1>7, <1>16, <1>17, <2>1, <2>3, <2>4, <2>5, <2>6, <2>7, BodyGoesOn
<1>20. QED
  BY <1>18, <1>19

----------------------------------------------------------------------------
(***************************************************************************)
(* parse_chunk.  The pieces b are the next of a chunked body of which m are*)
(* to come: all data, or the rest of it, the last chunk and maybe more.    *)
(***************************************************************************)
LEMMA ChunksIn ==
    ASSUME NEW s \in Seq(Request), NEW i \in 1 .. Len(s), s[i].kind = "chunked",
           NEW b \in Seq(Piece), NEW w \in Seq(Piece), NEW m \in Nat,
           b \o w = Behind(s, i, m)
    PROVE  /\ Len(b) <= m => /\ ~ HasEnd(b) /\ FirstBody(b) = Data(i, Len(b))
                             /\ w = Behind(s, i, m - Len(b))
           /\ Len(b) > m => /\ HasEnd(b) /\ FirstBody(b) = Data(i, m)
                            /\ Drop(b \o w, m + 1) = StreamFrom(s, i + 1)
<1> DEFINE l == <<Last(i)>>
           t == StreamFrom(s, i + 1)
           d == Data(i, m)
<1>1. i \in Nat /\ Len(b) \in Nat
  OBVIOUS
<1>2. t \in Seq(Piece) /\ Behind(s, i, 0) = l \o t
  <2>1. 0 \in Nat
    OBVIOUS
  <2>2. QED
    BY <2>1, BehindIs
<1>3. l \in Seq(Piece) /\ Len(l) = 1
  BY <1>1 DEF Last, Piece
<1>4. d \in Seq(Piece) /\ Len(d) = m
  BY <1>1, DataIs
<1>5. Behind(s, i, m) = d \o Behind(s, i, 0)
  <2>1. m \in 0 .. m /\ m - m = 0
    OBVIOUS
  <2>2. QED
    BY <2>1, BehindIs
<1>6. b \o w = Data(i, m) \o (<<Last(i)>> \o StreamFrom(s, i + 1))
  BY <1>2, <1>5
<1>7. /\ Len(b) <= m => ~ HasEnd(b) /\ FirstBody(b) = b /\ b = Data(i, Len(b))
      /\ Len(b) > m => HasEnd(b) /\ FirstBody(b) = Data(i, m)
  BY <1>1, <1>2, <1>6, FirstBodyIs, ZenonT(40)
<1>8. ASSUME Len(b) <= m PROVE w = Behind(s, i, m - Len(b))
  <2>1. Drop(b \o w, 0) = Behind(s, i, m)
    <3>1. b \o w \in Seq(Piece)
      BY BehindIs
    <3>2. Drop(b \o w, 0) = b \o w
      BY <3>1 DEF Drop
    <3>3. QED
      BY <3>2
  <2>2. /\ Len(b) \in 0 .. m /\ 0 \in 0 .. Len(b) /\ Len(b) <= Len(b) - 0
    BY <1>1, <1>8
  <2>3. 0 + Len(b) = Len(b) => w = Behind(s, i, m - Len(b))
    BY <2>1, <2>2, SomeOfTheBody, ZenonT(40)
  <2>4. QED
    BY <1>1, <2>3
<1>9. ASSUME Len(b) > m PROVE Drop(b \o w, m + 1) = t
  <2> HIDE DEF l, t, d
  <2>1. d \o l \in Seq(Piece) /\ Len(d \o l) = m + 1
    <3>1. d \in Seq(Piece) /\ l \in Seq(Piece)
      BY <1>3, <1>4
    <3>2. d \o l \in Seq(Piece) /\ Len(d \o l) = Len(d) + Len(l)
      BY <3>1
    <3>3. QED
      BY <1>3, <1>4, <3>2
  <2>2. (d \o l) \o t = d \o (l \o t)
    BY <1>2, <1>3, <1>4, Associative, Zenon
  <2>3. b \o w = (d \o l) \o t
    BY <1>2, <1>5, <2>2
  <2> DEFINE c == d \o l
  <2>4. c \in Seq(Piece) /\ Len(c) = m + 1 /\ b \o w = c \o t
    BY <2>1, <2>3
  <2> HIDE DEF c
  <2>5. QED
    BY <1>2, <2>4, DropOfTwo
<1>10. QED
  BY <1>7, <1>8, <1>9

(***************************************************************************)
(* More of a chunked body is to come: what there is of it is in the file.  *)
(***************************************************************************)
LEMMA ChunksGoOn ==
    ASSUME ConnectionInv, open, open', state \notin {"BEGIN_REQUEST", "READING_HEADERS"},
           state' = "READING_CHUNKED_BODY",
           NEW b \in Seq(Piece), Buffered(b), UNCHANGED <<cur, header, left, answered>>,
           running' \in BOOLEAN, keep' \in BOOLEAN, ~keep', memory' \in BOOLEAN, ~memory',
           in' = <<>>, inp' = 0, Requested.kind = "chunked",
           size' \in 0 .. Requested.size, file' = Data(cur, size'),
           wire' \o todo' = Behind(script, cur, Requested.size - size')
    PROVE  ConnectionInv'
<1> DEFINE w == wire' \o todo'
<1>1. HasLine /\ Requested.size \in Nat /\ cur \in Nat
  BY AfterTheHeaders
<1>2. script' = script /\ w \in Seq(Piece)
  BY DEF Buffered
<1>3. Requested' = Requested /\ Turn' = Turn /\ cur' = cur
  BY <1>2 DEF Requested, Turn
<1>4. Unread' = w
  <2>1. Unread' = Drop(<<>> \o w, 0)
    BY DEF Unread, All
  <2>2. <<>> \o w = w /\ Drop(w, 0) = w
    BY <1>2 DEF Drop
  <2>3. QED
    BY <2>1, <2>2
<1>5. size' \in Nat /\ size' <= Requested.size
  BY <1>1
<1>6. ReadsChunks'
  <2>1. Unread' = Behind(script', cur', Requested'.size - size')
    BY <1>2, <1>3, <1>4
  <2>2. QED
    BY <1>3, <1>5, <2>1 DEF ReadsChunks
<1>7. HasLine'
  BY <1>1, <1>2, <1>3 DEF HasLine
<1>8. Stage'
  BY <1>6, <1>7 DEF Stage, Sending
<1>9. TypeOK'
  <2>1. state' \in States
    BY DEF States, Reading
  <2>2. in' \in Seq(Piece) /\ inp' \in 0 .. Len(in')
    <3>1. <<>> \in Seq(Piece) /\ 0 \in 0 .. Len(<<>>)
      OBVIOUS
    <3>2. QED
      BY <3>1
  <2>3. file' \in Seq(Piece)
    BY <1>1, <1>5, DataIs
  <2>4. QED
    BY <1>2, <1>5, <2>1, <2>2, <2>3 DEF ConnectionInv, TypeOK, Buffered
<1>10. QED
  BY <1>2, <1>8, <1>9, StaysOpen DEF Buffered

\* Some of a chunked body has come with the headers.
LEMMA ProcessChunkedKeeps ==
    ASSUME ConnectionInv, ProcessChunked
    PROVE  ConnectionInv'
<1> DEFINE w == wire \o todo
           m == Requested.size
           r == Len(Rest)
<1>1. /\ open /\ open' /\ state = "PROCESSING_REQUEST"
      /\ Kind = "chunked" /\ header <= Len(in)
      /\ size' = Len(FirstBody(Rest)) /\ file' = FirstBody(Rest) /\ ~memory' /\ memory' \in BOOLEAN
      /\ IF HasEnd(Rest)
         THEN /\ inp' = inp + Len(FirstBody(Rest)) + 1
              /\ state' = "PREPARING_HTTP_REQUEST"
              /\ in' = in
         ELSE /\ in' = <<>> /\ inp' = 0
              /\ state' = "READING_CHUNKED_BODY"
      /\ NoRead /\ UNCHANGED <<cur, header, left, keep, running, answered>>
  BY DEF ProcessChunked, In
<1>2. /\ Requested.kind = "chunked" /\ m \in Nat /\ script \in Seq(Request)
      /\ cur \in 1 .. Len(script) /\ cur \in Nat /\ script[cur].kind = "chunked"
  BY <1>1, AfterTheHeaders DEF Requested
<1>3. /\ in \in Seq(Piece) /\ w \in Seq(Piece) /\ Len(in) \in Nat /\ header \in Nat
      /\ inp \in 0 .. Len(in)
  BY Parts, Kept
<1>4. inp = header /\ Unread = Behind(script, cur, m) /\ ~keep
  <2>1. HasHeaders
    BY <1>1 DEF ConnectionInv, Stage
  <2>2. QED
    BY <1>1, <2>1 DEF HasHeaders
<1>5. Rest = Drop(in, inp) /\ Rest \in Seq(Piece) /\ r \in Nat /\ r = Len(in) - inp
  BY <1>3, <1>4, DropIs DEF Rest, Drop
<1>6. Drop(in \o w, inp) = Rest \o w /\ Rest \o w = Behind(script, cur, m)
  <2>1. Unread = Drop(in \o w, inp)
    BY DEF Unread, All
  <2> HIDE DEF w, m
  <2>2. Drop(in \o w, inp) = Drop(in, inp) \o w
    BY <1>3, DropOfTwo
  <2>3. QED
    BY <1>4, <1>5, <2>1, <2>2
<1> HIDE DEF m, w, r
<1>7. /\ r <= m => /\ ~ HasEnd(Rest) /\ FirstBody(Rest) = Data(cur, r)
                   /\ w = Behind(script, cur, m - r)
      /\ r > m => /\ HasEnd(Rest) /\ FirstBody(Rest) = Data(cur, m)
                  /\ Drop(Rest \o w, m + 1) = StreamFrom(script, cur + 1)
  <2>1. /\ script \in Seq(Request) /\ cur \in 1 .. Len(script) /\ script[cur].kind = "chunked"
        /\ Rest \in Seq(Piece) /\ w \in Seq(Piece) /\ m \in Nat
    BY <1>2, <1>3, <1>5
  <2>2. Rest \o w = Behind(script, cur, m)
    BY <1>6
  <2>3. QED
    BY <2>1, <2>2, ChunksIn DEF r
<1>8. Buffered(in)
  BY <1>1, NoReadBuffers
<1>9. wire' \o todo' = w
  BY <1>1 DEF NoRead, netVars, w
<1>10. {memory', running', keep'} \subseteq BOOLEAN /\ left' \in Nat /\ ~keep'
  BY <1>1, <1>4, Kept
<1>11. CASE r <= m
  <2>1. size' = r /\ file' = Data(cur, r) /\ in' = <<>> /\ inp' = 0 /\ state' = "READING_CHUNKED_BODY"
    <3>1. Len(Data(cur, r)) = r
      BY <1>2, <1>5, DataIs
    <3>2. QED
      BY <1>1, <1>7, <1>11, <3>1
  <2>2. size' \in 0 .. Requested.size
    BY <1>2, <1>5, <1>11, <2>1 DEF m
  <2>3. wire' \o todo' = Behind(script, cur, Requested.size - size')
    BY <1>7, <1>9, <1>11, <2>1 DEF m
  <2>4. QED
    BY <1>1, <1>2, <1>3, <1>8, <1>10, <2>1, <2>2, <2>3, ChunksGoOn
<1>12. CASE r > m
  <2>1. size' = m /\ file' = Data(cur, m) /\ in' = in /\ inp' = inp + m + 1
        /\ state' = "PREPARING_HTTP_REQUEST"
    <3>1. Len(Data(cur, m)) = m
      BY <1>2, DataIs
    <3>2. QED
      BY <1>1, <1>7, <1>12, <3>1
  <2>2. inp' \in 0 .. Len(in)
    BY <1>2, <1>3, <1>5, <1>12, <2>1
  <2>3. Drop(All, inp') = StreamFrom(script, cur + 1)
    <3> DEFINE a == in \o w
    <3>1. a \in Seq(Piece) /\ inp \in Nat /\ m + 1 \in Nat /\ inp + (m + 1) <= Len(a)
          /\ inp + (m + 1) = inp'
      BY <1>2, <1>3, <1>5, <1>12, <2>1
    <3>2. Drop(a, inp) = Rest \o w
      BY <1>6
    <3>3. All = a
      BY DEF All, w
    <3> HIDE DEF a
    <3>4. Drop(Drop(a, inp), m + 1) = Drop(a, inp + (m + 1))
      BY <3>1, DropTwice
    <3>5. QED
      BY <1>7, <1>12, <3>1, <3>2, <3>3, <3>4
  <2>4. file' \in Seq(Piece) \cup {None}
    BY <1>2, <2>1, DataIs
  <2>5. Payload' = Data(cur, Requested.size)
    BY <1>1, <2>1 DEF Payload, m
  <2>6. size' = Requested.size /\ (keep' => Requested.keep)
        /\ Requested.kind \in {"forward", "post", "chunked"}
    BY <1>2, <1>10, <2>1 DEF m
  <2>7. QED
    BY <1>1, <1>3, <1>8, <1>10, <2>1, <2>2, <2>3, <2>4, <2>5, <2>6, PayloadReady
<1>13. r <= m \/ r > m
  BY <1>2, <1>5 DEF m
<1>14. QED
  BY <1>11, <1>12, <1>13

\* More of it is read, perhaps with the last chunk.
LEMMA ReadChunkedBodyKeeps ==
    ASSUME ConnectionInv, ReadChunkedBody
    PROVE  ConnectionInv'
<1> DEFINE w == wire' \o todo'
           b == in \o Got
           n == Requested.size
           m == n - size
           r == Len(b)
<1>1. /\ open /\ open' /\ state = "READING_CHUNKED_BODY" /\ Read
      /\ size' = size + Len(FirstBody(b)) /\ file' = file \o FirstBody(b)
      /\ IF HasEnd(b)
         THEN /\ in' = b /\ inp' = inp + Len(FirstBody(b)) + 1
              /\ state' = "PREPARING_HTTP_REQUEST"
         ELSE in' = <<>> /\ inp' = inp /\ state' = state
      /\ UNCHANGED <<cur, header, left, memory, keep, running, answered>>
  BY DEF ReadChunkedBody, In
<1>2. /\ n \in Nat /\ script \in Seq(Request) /\ cur \in 1 .. Len(script) /\ cur \in Nat
  BY <1>1, AfterTheHeaders
<1>3. /\ ~keep /\ Requested.kind = "chunked" /\ ~memory /\ in = <<>> /\ size <= n
      /\ file = Data(cur, size) /\ Unread = Behind(script, cur, m)
  <2>1. ReadsChunks
    BY <1>1 DEF ConnectionInv, Stage
  <2>2. QED
    BY <2>1 DEF ReadsChunks
<1>4. inp = 0 /\ size \in Nat /\ m \in Nat
  <2>1. inp \in 0 .. Len(in) /\ size \in Nat
    BY Parts, Kept
  <2>2. inp = 0
    BY <1>3, <2>1
  <2> HIDE DEF n
  <2>3. QED
    BY <1>2, <1>3, <2>1, <2>2
<1>5. Buffered(b)
  BY <1>1, ReadBuffers
<1>6. b \in Seq(Piece) /\ w \in Seq(Piece) /\ All = b \o w
  BY <1>5 DEF Buffered
<1>7. script[cur].kind = "chunked"
  BY <1>3 DEF Requested
<1> HIDE DEF b, w, n
<1>8. r \in Nat
  BY <1>6
<1>9. b \o w = Behind(script, cur, m)
  <2>1. Unread = Drop(b \o w, 0)
    BY <1>4, <1>6 DEF Unread
  <2>2. Drop(b \o w, 0) = b \o w
    <3>1. b \o w \in Seq(Piece)
      BY <1>6
    <3>2. QED
      BY <3>1 DEF Drop
  <2>3. QED
    BY <1>3, <2>1, <2>2
<1> HIDE DEF m, r
<1>10. /\ r <= m => /\ ~ HasEnd(b) /\ FirstBody(b) = Data(cur, r)
                    /\ w = Behind(script, cur, m - r)
       /\ r > m => /\ HasEnd(b) /\ FirstBody(b) = Data(cur, m)
                   /\ Drop(b \o w, m + 1) = StreamFrom(script, cur + 1)
  BY <1>2, <1>4, <1>6, <1>7, <1>9, ChunksIn DEF r
<1>11. {memory', running', keep'} \subseteq BOOLEAN /\ left' \in Nat /\ ~keep' /\ ~memory'
  BY <1>1, <1>3, Kept
<1>12. CASE r <= m
  <2>1. Len(Data(cur, r)) = r /\ Data(cur, size) \o Data(cur, r) = Data(cur, size + r)
    BY <1>2, <1>4, <1>8, DataIs, DataOfTwo
  <2>2. size' = size + r /\ file' = Data(cur, size') /\ in' = <<>> /\ inp' = 0
        /\ state' = "READING_CHUNKED_BODY"
    BY <1>1, <1>3, <1>4, <1>10, <1>12, <2>1
  <2>3. size' \in 0 .. Requested.size /\ Requested.size - size' = m - r
    BY <1>2, <1>4, <1>8, <1>12, <2>2 DEF m, n
  <2>4. wire' \o todo' = Behind(script, cur, Requested.size - size')
    BY <1>10, <1>12, <2>3 DEF w
  <2>5. QED
    BY <1>1, <1>3, <1>5, <1>6, <1>11, <2>2, <2>3, <2>4, ChunksGoOn
<1>13. CASE r > m
  <2>1. /\ Len(Data(cur, m)) = m /\ Data(cur, size) \o Data(cur, m) = Data(cur, size + m)
        /\ size + m = Requested.size
    <3>1. size + m = Requested.size
      BY <1>2, <1>4 DEF m, n
    <3>2. QED
      BY <1>2, <1>4, <3>1, DataIs, DataOfTwo
  <2>2. size' = Requested.size /\ file' = Data(cur, Requested.size) /\ in' = b /\ inp' = m + 1
        /\ state' = "PREPARING_HTTP_REQUEST"
    BY <1>1, <1>3, <1>4, <1>10, <1>13, <2>1
  <2>3. inp' \in 0 .. Len(b)
    BY <1>4, <1>8, <1>13, <2>2 DEF r
  <2>4. Drop(All, inp') = StreamFrom(script, cur + 1)
    BY <1>6, <1>10, <1>13, <2>2
  <2>5. file' \in Seq(Piece) \cup {None}
    BY <1>2, <2>2, DataIs DEF n
  <2>6. Payload' = Data(cur, Requested.size)
    BY <1>11, <2>2 DEF Payload
  <2>7. (keep' => Requested.keep) /\ Requested.kind \in {"forward", "post", "chunked"}
    BY <1>3, <1>11
  <2>8. QED
    BY <1>1, <1>5, <1>6, <1>11, <2>2, <2>3, <2>4, <2>5, <2>6, <2>7, PayloadReady
<1>14. r <= m \/ r > m
  BY <1>4, <1>8
<1>15. QED
  BY <1>12, <1>13, <1>14

\* None of a chunked body has come: the request is looked at once more.
LEMMA ProcessChunkedEmptyKeeps ==
    ASSUME ConnectionInv, ProcessChunkedEmpty
    PROVE  ConnectionInv'
<1>1. /\ open /\ open' /\ state = "PROCESSING_REQUEST" /\ Kind = "chunked"
      /\ size' = 0 /\ file' = <<>> /\ memory' = FALSE /\ in' = <<>> /\ inp' = 0
      /\ NoRead /\ UNCHANGED <<state, cur, header, left, keep, running, answered>>
  BY DEF ProcessChunkedEmpty, In
<1>2. HasLine /\ Requested.kind = "chunked"
  BY <1>1, AfterTheHeaders
<1>3. UNCHANGED <<script, todo, wire, edge, readable, writable>>
  BY <1>1 DEF NoRead, netVars
<1>4. header > 0 /\ ~keep /\ header \in Nat
  BY <1>1, Kept DEF ConnectionInv, Stage, HasHeaders
<1>5. Requested' = Requested /\ Turn' = Turn
  BY <1>1, <1>3 DEF Requested, Turn
<1>6. HasHeaders'
  <2>1. ~ (header' <= Len(in')) /\ header' > 0
    BY <1>1, <1>4
  <2>2. QED
    BY <1>1, <1>2, <1>4, <1>5, <2>1 DEF HasHeaders
<1>7. HasLine'
  BY <1>1, <1>2, <1>3, <1>5 DEF HasLine
<1>8. Stage'
  BY <1>1, <1>6, <1>7 DEF Stage, Sending
<1>9. TypeOK'
  <2>1. <<>> \in Seq(Piece) /\ 0 \in 0 .. Len(<<>>)
    OBVIOUS
  <2>2. QED
    BY <1>1, <1>3, <2>1 DEF ConnectionInv, TypeOK
<1>10. wire' \o todo' = wire \o todo
  BY <1>3
<1>11. QED
  BY <1>1, <1>3, <1>8, <1>9, <1>10, StaysOpen

\* Nothing is said of what follows.
LEMMA ProcessChunkedAgainKeeps ==
    ASSUME ConnectionInv, ProcessChunkedAgain
    PROVE  ConnectionInv'
<1>1. /\ open /\ open' /\ state = "PROCESSING_REQUEST" /\ state' = "UNDEFINED"
      /\ UNCHANGED <<in, inp, cur, header, size, left, memory, file, keep, running, answered>>
      /\ UNCHANGED <<script, todo, wire, edge, readable, writable>>
  BY DEF ProcessChunkedAgain, In, NoRead, netVars, bufVars, requestVars
<1>2. HasLine
  BY <1>1, AfterTheHeaders
<1>3. HasLine'
  BY <1>1, <1>2 DEF HasLine, Turn
<1>4. Stage'
  BY <1>1, <1>3 DEF Stage, Sending
<1>5. TypeOK'
  BY <1>1 DEF ConnectionInv, TypeOK, States
<1>6. wire' \o todo' = wire \o todo
  BY <1>1
<1>7. QED
  BY <1>1, <1>4, <1>5, <1>6, StaysOpen

(***************************************************************************)
(* The end of an answer: what is left in the buffer is the beginning of the*)
(* next request.                                                           *)
(***************************************************************************)
LEMMA CompleteKeeps ==
    ASSUME ConnectionInv, Complete
    PROVE  ConnectionInv'
<1> DEFINE w == wire \o todo
<1>1. open /\ state = "REQUEST_COMPLETED" /\ answered' = Append(answered, cur)
  BY DEF Complete, In
<1>2. /\ cur = Turn /\ cur \in 1 .. Len(script) /\ cur \in Nat /\ cur \in 0 .. Requests
      /\ script \in Seq(Request)
  <2>1. HasLine /\ cur \in 1 .. Len(script) /\ cur \in Nat /\ script \in Seq(Request)
    BY <1>1, AfterTheHeaders
  <2>2. Len(script) <= Requests /\ Len(script) \in Nat /\ Requests \in Nat
    BY Parts, HttpConnectionAssumption DEF ConnectionInv, Sensible
  <2>3. QED
    BY <2>1, <2>2 DEF HasLine
<1>3. answered \in Seq(0 .. Requests) /\ Len(answered) \in Nat
  BY Parts
<1>4. answered' \in Seq(0 .. Requests) /\ Len(answered') = Len(answered) + 1
  BY <1>1, <1>2, <1>3
<1>5. CASE ~keep
  <2>1. Closed
    BY <1>5 DEF Complete
  <2>2. QED
    BY <1>4, <2>1, ClosedKeeps
<1>6. CASE keep
  <2>1. /\ state' = "BEGIN_REQUEST" /\ in' = Drop(in, inp) /\ inp' = 0
        /\ cur' = None /\ file' = None /\ keep' = FALSE
        /\ UNCHANGED <<header, size, left, memory, running, open>>
        /\ UNCHANGED <<script, todo, wire, edge, readable, writable>>
    BY <1>6 DEF Complete, Drop, NoRead, netVars
  <2>2. /\ in \in Seq(Piece) /\ w \in Seq(Piece) /\ inp \in 0 .. Len(in) /\ Len(in) \in Nat
    BY Parts
  <2>3. AtItsEnd
    BY <1>1, <1>6 DEF ConnectionInv, Stage, IsAnswered
  <2>4. in' \in Seq(Piece) /\ inp' \in 0 .. Len(in')
    <3>1. Drop(in, inp) \in Seq(Piece)
      BY <2>2, DropIs
    <3> DEFINE d == Drop(in, inp)
    <3>2. d \in Seq(Piece) /\ in' = d
      BY <2>1, <3>1
    <3> HIDE DEF d
    <3>3. Len(d) \in Nat
      BY <3>2
    <3>4. QED
      BY <2>1, <3>2, <3>3
  <2>5. Unread' = StreamFrom(script', Turn')
    <3>1. Unread' = Drop(Drop(in, inp) \o w, 0)
      BY <2>1 DEF Unread, All
    <3>2. Drop(in, inp) \o w = Drop(in \o w, inp)
      <4> HIDE DEF w
      <4>1. QED
        BY <2>2, DropOfTwo
    <3>3. Drop(in \o w, inp) = StreamFrom(script, cur + 1)
      BY <2>3 DEF AtItsEnd, Unread, All
    <3>4. Drop(StreamFrom(script, cur + 1), 0) = StreamFrom(script, cur + 1)
      <4>1. StreamFrom(script, cur + 1) \in Seq(Piece)
        BY <1>1, AfterTheHeaders
      <4>2. QED
        BY <4>1 DEF Drop
    <3>5. Turn' = cur + 1
      BY <1>2, <1>4 DEF Turn
    <3>6. QED
      BY <2>1, <3>1, <3>2, <3>3, <3>4, <3>5
  <2>6. Turn' \in 1 .. (Len(script') + 1)
    <3>1. Turn' = cur + 1 /\ Len(script) \in Nat
      BY <1>2, <1>4, Parts DEF Turn
    <3>2. QED
      BY <1>2, <2>1, <3>1
  <2>7. WaitsForRequest'
    BY <2>1, <2>5, <2>6 DEF WaitsForRequest
  <2>8. Stage'
    BY <2>1, <2>7 DEF Stage, Sending
  <2>9. TypeOK'
    BY <1>4, <2>1, <2>4 DEF ConnectionInv, TypeOK, States, Reading
  <2>10. wire' \o todo' = wire \o todo
    BY <2>1
  <2>11. QED
    BY <1>1, <2>1, <2>8, <2>9, <2>10, StaysOpen
<1>7. QED
  BY <1>5, <1>6

----------------------------------------------------------------------------
(***************************************************************************)
(* Every step keeps the invariant, unless a request with a body is answered*)
(* before its body has been read.                                          *)
(***************************************************************************)
LEMMA StepKeeps ==
    ASSUME ConnectionInv, [Next]_vars, "missing post" \notin Kinds
    PROVE  ConnectionInv'
<1>1. CASE UNCHANGED vars
  <2>1. UNCHANGED <<script, todo, wire, edge, readable, writable, state, in, inp, cur, header, size,
                    left, memory, file, keep, running, open, answered>>
    BY <1>1 DEF vars, netVars, bufVars, requestVars
  <2>2. CASE open
    <3>1. {edge', readable', writable', running'} \subseteq BOOLEAN
      BY <2>1 DEF ConnectionInv, TypeOK
    <3>2. QED
      BY <2>1, <2>2, <3>1, FlagsKeep
  <2>3. CASE ~open
    <3>1. TypeOK' /\ Sensible' /\ ToCome'
      <4>1. TypeOK'
        BY <2>1 DEF ConnectionInv, TypeOK
      <4>2. Sensible'
        BY <2>1 DEF ConnectionInv, Sensible
      <4>3. ToCome'
        BY <2>1 DEF ConnectionInv, ToCome
      <4>4. QED
        BY <4>1, <4>2, <4>3
    <3>2. QED
      BY <2>1, <2>3, <3>1 DEF ConnectionInv
  <2>4. QED
    BY <2>2, <2>3
<1>2. CASE Arrive
  BY <1>2, ArriveKeeps
<1>3. CASE ReadEvent \/ WriteEvent \/ Return \/ SendSome
  <2>1. /\ open /\ open'
        /\ {edge', readable', writable', running'} \subseteq BOOLEAN
        /\ UNCHANGED <<script, todo, wire, state, in, inp, cur, header, size, left, memory,
                       file, keep, answered>>
    <3>1. {edge, readable, writable, running} \subseteq BOOLEAN
      BY DEF ConnectionInv, TypeOK
    <3>2. CASE ReadEvent
      BY <3>1, <3>2 DEF ReadEvent, bufVars, requestVars
    <3>3. CASE WriteEvent
      BY <3>1, <3>3 DEF WriteEvent, netVars, bufVars, requestVars
    <3>4. CASE Return
      BY <3>1, <3>4 DEF Return, netVars, bufVars, requestVars
    <3>5. CASE SendSome
      BY <3>1, <3>5 DEF SendSome, netVars, bufVars, requestVars
    <3>6. QED
      BY <1>3, <3>2, <3>3, <3>4, <3>5
  <2>2. QED
    BY <2>1, FlagsKeep
<1>4. CASE IoFails \/ TimeOut
  <2>1. Closed /\ answered' = answered
    BY <1>4 DEF IoFails, TimeOut
  <2>2. answered' \in Seq(0 .. Requests)
    BY <2>1, Parts
  <2>3. QED
    BY <2>1, <2>2, ClosedKeeps
<1>5. CASE BeginRequest \/ ReadHeaders \/ ReadBody \/ ReadChunkedBody
  BY <1>5, BeginRequestKeeps, ReadHeadersKeeps, ReadBodyKeeps, ReadChunkedBodyKeeps
<1>6. CASE ProcessLocal \/ ProcessMissing \/ ProcessRefused \/ ProcessForward
  BY <1>6, ProcessLocalKeeps, ProcessMissingKeeps, ProcessRefusedKeeps, ProcessForwardKeeps
<1>7. CASE ProcessPostWhole \/ ProcessPostPart \/ FileFails
  BY <1>7, ProcessPostWholeKeeps, ProcessPostPartKeeps, FileFailsKeeps
<1>8. CASE ProcessChunked \/ ProcessChunkedEmpty \/ ProcessChunkedAgain
  BY <1>8, ProcessChunkedKeeps, ProcessChunkedEmptyKeeps, ProcessChunkedAgainKeeps
<1>9. CASE PrepareHttpRequest \/ PrepareErrorPage \/ SendRest \/ Complete \/ BackendAnswers
  BY <1>9, PrepareHttpRequestKeeps, PrepareErrorPageKeeps, SendRestKeeps, CompleteKeeps,
     BackendAnswersKeeps
<1>10. QED
  BY <1>1, <1>2, <1>3, <1>4, <1>5, <1>6, <1>7, <1>8, <1>9 DEF Next, Loop

\* A slot as accept finds it.
LEMMA ConnectionBegins ==
    ASSUME Init
    PROVE  ConnectionInv
<1>1. /\ script \in Seq(Request) /\ Len(script) \in Nat /\ Len(script) <= Requests
      /\ DOMAIN script = 1 .. Len(script)
      /\ \A i \in DOMAIN script : HasBody(script[i].kind) <=> script[i].size > 0
  <2> DEFINE sensible == {r \in Request : /\ HasBody(r.kind) <=> r.size > 0
                                          /\ r.kind = "refused" => r.keep}
  <2>1. PICK n \in 1 .. Requests : script \in [1 .. n -> sensible]
    BY DEF Init, Scripts
  <2>2. n \in Nat /\ n <= Requests
    BY <2>1, HttpConnectionAssumption
  <2>3. \A r \in sensible : r \in Request /\ (HasBody(r.kind) <=> r.size > 0)
    OBVIOUS
  <2> HIDE DEF sensible
  <2>4. /\ script \in [1 .. n -> Request] /\ DOMAIN script = 1 .. n
        /\ \A i \in DOMAIN script : HasBody(script[i].kind) <=> script[i].size > 0
    BY <2>1, <2>3
  <2>5. script \in Seq(Request) /\ Len(script) = n
    BY <2>2, <2>4, SeqDef
  <2>6. QED
    BY <2>2, <2>4, <2>5
<1>2. /\ todo = StreamFrom(script, 1) /\ todo \in Seq(Piece)
      /\ Outstanding(todo) = 1 .. Len(script)
  <2>1. todo = StreamFrom(script, 1)
    BY DEF Init, Stream
  <2>2. 1 \in 1 .. (Len(script) + 1)
    BY <1>1
  <2>3. QED
    BY <1>1, <2>1, <2>2, StreamTyped, OutstandingOfStream
<1>3. /\ wire = <<>> /\ in = <<>> /\ inp = 0 /\ answered = <<>> /\ state = "BEGIN_REQUEST"
      /\ cur = None /\ file = None /\ keep = FALSE /\ open = TRUE
      /\ edge = FALSE /\ readable = FALSE /\ writable = FALSE /\ running = FALSE /\ memory = FALSE
      /\ header = 0 /\ size = 0 /\ left = 0
  BY DEF Init
<1>4. wire \o todo = todo /\ All = todo
  BY <1>2, <1>3 DEF All
<1>5. TypeOK
  <2>1. <<>> \in Seq(Piece) /\ 0 \in 0 .. Len(<<>>) /\ <<>> \in Seq(0 .. Requests)
    OBVIOUS
  <2>2. QED
    BY <1>1, <1>2, <1>3, <2>1 DEF TypeOK, States, Reading
<1>6. Stage
  <2>1. Unread = todo
    BY <1>2, <1>3, <1>4 DEF Unread, Drop
  <2>2. Turn = 1 /\ 1 \in 1 .. (Len(script) + 1)
    BY <1>1, <1>3 DEF Turn
  <2>3. WaitsForRequest
    BY <1>2, <1>3, <2>1, <2>2 DEF WaitsForRequest
  <2>4. QED
    BY <1>3, <2>3 DEF Stage, Sending
<1>7. ToCome
  BY <1>1, <1>2, <1>3, <1>4 DEF ToCome
<1>8. QED
  BY <1>1, <1>3, <1>5, <1>6, <1>7 DEF ConnectionInv, Sensible

(***************************************************************************)
(* Wherever reads have cut what the client sends, what the loop has not    *)
(* looked at yet is the rest of it, from the place its state says.  A POST *)
(* that not_found answers is left out: its body stays in the buffer and is *)
(* taken for a request (the run pipelining_404).                          *)
(***************************************************************************)
THEOREM ConnectionInvariant ==
    ASSUME "missing post" \notin Kinds
    PROVE  Spec => []ConnectionInv
<1>1. Init => ConnectionInv
  BY ConnectionBegins
<1>2. ConnectionInv /\ [Next]_vars => ConnectionInv'
  BY StepKeeps
<1>3. QED
  BY <1>1, <1>2, PTL DEF Spec

(***************************************************************************)
(* Each request is parsed from its first byte, in the order of sending.    *)
(***************************************************************************)
THEOREM RequestsAreFramed ==
    ASSUME "missing post" \notin Kinds
    PROVE  Spec => []Framed
<1>1. ConnectionInv => Framed
  <2> SUFFICES ASSUME ConnectionInv PROVE Framed
    OBVIOUS
  <2>1. CASE open /\ state = "BEGIN_REQUEST"
    BY <2>1 DEF ConnectionInv, Stage, WaitsForRequest, Framed
  <2>2. CASE open /\ state # "BEGIN_REQUEST"
    BY <2>2 DEF ConnectionInv, Stage, HasLine, Turn, Framed
  <2>3. CASE ~open
    BY <2>3 DEF ConnectionInv, Framed
  <2>4. QED
    BY <2>1, <2>2, <2>3
<1>2. QED
  BY <1>1, ConnectionInvariant, PTL

(***************************************************************************)
(* What a backend is sent as the payload is the body of the request, from  *)
(* memory or from the file.                                                *)
(***************************************************************************)
THEOREM PayloadsAreIntact ==
    ASSUME "missing post" \notin Kinds
    PROVE  Spec => []PayloadIntact
<1>1. ConnectionInv => PayloadIntact
  <2> SUFFICES ASSUME ConnectionInv PROVE PayloadIntact
    OBVIOUS
  <2>1. ASSUME state \in {"PREPARING_HTTP_REQUEST", "WAITING_FOR_BACKEND"}
        PROVE  Payload = Body(cur, script[cur]) /\ size = script[cur].size
    BY <2>1 DEF ConnectionInv, Stage, HasPayload, Requested
  <2>2. ASSUME state = "BEGIN_REQUEST" PROVE file = None
    BY <2>2 DEF ConnectionInv, Stage, WaitsForRequest
  <2>3. QED
    BY <2>1, <2>2 DEF PayloadIntact
<1>2. QED
  BY <1>1, ConnectionInvariant, PTL

----------------------------------------------------------------------------
(***************************************************************************)
(* The connection implements the pipeline.  First what the steps do to the *)
(* headers that have not been read and to the answers.                     *)
(***************************************************************************)
ToRead == Outstanding(todo) \cup Outstanding(wire)

Counted ==
    /\ ToRead = Outstanding(wire \o todo)
    /\ ToRead \subseteq 1 .. Len(script) /\ IsFiniteSet(ToRead)
    /\ Cardinality(ToRead) \in 0 .. Len(script)
    /\ Received = Len(script) - Cardinality(ToRead)
    /\ Received \in Nat /\ Final \subseteq Nat

\* The headers to be read, and how many have been received.
LEMMA HeadersAreCounted ==
    ASSUME ConnectionInv
    PROVE  Counted
<1>1. /\ wire \in Seq(Piece) /\ todo \in Seq(Piece)
      /\ DOMAIN script = 1 .. Len(script) /\ Len(script) \in Nat
  BY Parts
<1>2. Outstanding(wire \o todo) = Outstanding(wire) \cup Outstanding(todo)
  BY <1>1, OutstandingOfTwo, Zenon
<1>3. ToRead = Outstanding(wire \o todo)
  BY <1>2 DEF ToRead
<1>4. ToRead \subseteq 1 .. Len(script)
  BY <1>1, <1>3 DEF ConnectionInv, ToCome
<1>5. IsFiniteSet(1 .. Len(script)) /\ Cardinality(1 .. Len(script)) = Len(script)
  <2>1. 1 \in Int /\ Len(script) \in Int /\ (IF 1 > Len(script) THEN 0 ELSE Len(script) - 1 + 1) = Len(script)
    BY <1>1
  <2>2. QED
    BY <2>1, FS_Interval
<1>6. IsFiniteSet(ToRead) /\ Cardinality(ToRead) \in Nat /\ Cardinality(ToRead) <= Len(script)
  <2>1. IsFiniteSet(ToRead) /\ Cardinality(ToRead) <= Cardinality(1 .. Len(script))
    BY <1>4, <1>5, FS_Subset
  <2>2. QED
    BY <1>5, <2>1, FS_CardinalityType
<1>7. Received = Len(script) - Cardinality(ToRead)
  BY DEF Received, ToRead
<1>8. Final \subseteq Nat
  BY <1>1 DEF Final
<1>9. QED
  BY <1>1, <1>3, <1>4, <1>6, <1>7, <1>8 DEF Counted

\* Only Complete answers, and otherwise the connection stays open or is closed.
LEMMA OtherSteps ==
    ASSUME ConnectionInv, Next, ~ Complete
    PROVE  /\ open /\ script' = script /\ answered' = answered
           /\ Outstanding(wire' \o todo') \subseteq Outstanding(wire \o todo)
           /\ open' = TRUE \/ (open' = FALSE /\ wire' = wire /\ todo' = todo)
<1> DEFINE Goal == /\ open /\ script' = script /\ answered' = answered
                   /\ Outstanding(wire' \o todo') \subseteq Outstanding(wire \o todo)
                   /\ open' = TRUE \/ (open' = FALSE /\ wire' = wire /\ todo' = todo)
<1>1. open \in BOOLEAN
  BY DEF ConnectionInv, TypeOK
<1>2. CASE Arrive
  <2>1. open /\ open' = open /\ answered' = answered /\ script' = script
    BY <1>2 DEF Arrive
  <2>2. wire' \o todo' = wire \o todo
    BY <1>2, ArriveIs
  <2>3. QED
    BY <1>1, <2>1, <2>2
<1>3. CASE IoFails \/ TimeOut
  BY <1>3 DEF IoFails, TimeOut, Closed, netVars
<1>4. ASSUME Read, open' = open, open, answered' = answered
      PROVE  Goal
  <2>1. todo' = todo /\ script' = script
        /\ Outstanding(wire' \o todo) \subseteq Outstanding(wire \o todo)
    BY <1>4, ReadIs
  <2>2. QED
    BY <1>4, <2>1
<1>5. ASSUME NoRead, open' = open, open, answered' = answered
      PROVE  Goal
  BY <1>5 DEF NoRead, netVars
<1>6. CASE ReadEvent \/ WriteEvent \/ Return \/ SendSome
  BY <1>1, <1>6 DEF ReadEvent, WriteEvent, Return, SendSome, netVars
<1>7. CASE BeginRequest
  BY <1>1, <1>4, <1>5, <1>7 DEF BeginRequest, In
<1>8. CASE ReadHeaders \/ ReadBody \/ ReadChunkedBody
  BY <1>1, <1>4, <1>8 DEF ReadHeaders, ReadBody, ReadChunkedBody, In
<1>9. CASE FileFails
  BY <1>1, <1>4, <1>5, <1>9 DEF FileFails, In
<1>10. CASE ProcessLocal \/ ProcessMissing \/ ProcessRefused \/ ProcessForward
  BY <1>1, <1>5, <1>10 DEF ProcessLocal, ProcessMissing, ProcessRefused, ProcessForward, In
<1>11. CASE ProcessPostWhole \/ ProcessPostPart
  BY <1>1, <1>5, <1>11 DEF ProcessPostWhole, ProcessPostPart, In
<1>12. CASE ProcessChunked \/ ProcessChunkedEmpty \/ ProcessChunkedAgain
  BY <1>1, <1>5, <1>12 DEF ProcessChunked, ProcessChunkedEmpty, ProcessChunkedAgain, In
<1>13. CASE PrepareHttpRequest \/ PrepareErrorPage \/ SendRest \/ BackendAnswers
  BY <1>1, <1>5, <1>13
  DEF PrepareHttpRequest, PrepareErrorPage, SendRest, BackendAnswers, In, NoRead, netVars
<1>14. QED
  BY <1>2, <1>3, <1>6, <1>7, <1>8, <1>9, <1>10, <1>11, <1>12, <1>13 DEF Next, Loop

\* A step between two states that satisfy the invariant.
LEMMA PipelineStep ==
    ASSUME ConnectionInv, ConnectionInv', Counted, Counted', Next
    PROVE  Abs!Next \/ UNCHANGED <<Final, Received, answered, open>>
<1> DEFINE n == Len(script)
           c == Cardinality(ToRead)
<1>1. /\ ToRead = Outstanding(wire \o todo) /\ IsFiniteSet(ToRead) /\ c \in 0 .. n
      /\ Received = n - c /\ Received \in Nat
  BY DEF Counted
<1>2. /\ ToRead' = Outstanding(wire' \o todo') /\ c' \in 0 .. n'
      /\ Received' = n' - c' /\ Received' \in Nat
  BY DEF Counted
<1>3. n \in Nat /\ Len(answered) \in Nat
  BY Parts
<1>4. CASE ~ Complete
  <2>1. /\ open /\ script' = script /\ answered' = answered
        /\ Outstanding(wire' \o todo') \subseteq Outstanding(wire \o todo)
        /\ open' = TRUE \/ (open' = FALSE /\ wire' = wire /\ todo' = todo)
    BY <1>4, OtherSteps
  <2>2. Final' = Final /\ n' = n
    BY <2>1 DEF Final
  <2>3. CASE ToRead' = ToRead
    <3>1. Received' = Received
      BY <1>1, <1>2, <2>2, <2>3
    <3>2. CASE open' = FALSE
      BY <2>1, <2>2, <3>1, <3>2 DEF Abs!Next, Abs!Close
    <3>3. CASE open' = TRUE
      <4>1. open = TRUE
        BY <2>1 DEF ConnectionInv, TypeOK
      <4>2. QED
        BY <2>1, <2>2, <3>1, <3>3, <4>1
    <3>4. QED
      BY <2>1, <3>2, <3>3
  <2>4. CASE ToRead' # ToRead
    <3>1. ToRead' \subseteq ToRead
      BY <1>1, <1>2, <2>1
    <3>2. c' < c
      BY <1>1, <2>4, <3>1, FS_Subset, FS_CardinalityType
    <3>3. Received' > Received
      <4>1. Received = n - c /\ Received' = n - c' /\ n \in Nat
        BY <1>1, <1>2, <1>3, <2>2
      <4>2. c \in Nat /\ c' \in Nat
        BY <1>1, <1>2, FS_CardinalityType DEF Counted
      <4>3. QED
        BY <3>2, <4>1, <4>2
    <3>4. open' = open
      <4>1. ~ (wire' = wire /\ todo' = todo)
        BY <1>1, <1>2, <2>4
      <4>2. open = TRUE
        BY <2>1 DEF ConnectionInv, TypeOK
      <4>3. QED
        BY <2>1, <4>1, <4>2
    <3>5. QED
      BY <1>2, <2>1, <2>2, <3>3, <3>4 DEF Abs!Next, Abs!Receive
  <2>5. QED
    BY <2>3, <2>4
<1>5. CASE Complete
  <2>1. open /\ state = "REQUEST_COMPLETED" /\ answered' = Append(answered, cur)
    BY <1>5 DEF Complete, In
  <2>2. cur = Len(answered) + 1 /\ cur \in 1 .. n
    BY <2>1, AfterTheHeaders DEF HasLine, Turn
  <2>3. UNCHANGED <<script, wire, todo>>
    BY <1>5 DEF Complete, Closed, NoRead, netVars
  <2>4. Final' = Final /\ Received' = Received
    BY <2>3 DEF Final, Received
  <2>5. cur <= Received
    <3>1. ToRead \subseteq (cur + 1) .. n
      BY <1>1, <2>1 DEF ConnectionInv, ToCome
    <3>2. IsFiniteSet((cur + 1) .. n) /\ Cardinality((cur + 1) .. n) = n - cur
      <4>1. /\ cur + 1 \in Int /\ n \in Int
            /\ (IF cur + 1 > n THEN 0 ELSE n - (cur + 1) + 1) = n - cur
        <5> HIDE DEF n
        <5>1. QED
          BY <1>3, <2>2
      <4>2. QED
        BY <4>1, FS_Interval
    <3>3. c <= n - cur
      BY <3>1, <3>2, FS_Subset
    <3> HIDE DEF c, n
    <3>4. QED
      BY <1>1, <1>3, <2>2, <3>3
  <2>6. open' \in BOOLEAN
    BY DEF ConnectionInv, TypeOK
  <2>7. cur \in Final => ~open'
    <3>1. CASE keep
      <4>1. Requested.keep /\ Requested.kind # "refused"
        BY <2>1, <3>1 DEF ConnectionInv, Stage, IsAnswered
      <4>2. QED
        BY <4>1 DEF Final, Requested
    <3>2. CASE ~keep
      BY <1>5, <3>2 DEF Complete, Closed
    <3>3. QED
      BY <3>1, <3>2
  <2>8. QED
    BY <2>1, <2>2, <2>4, <2>5, <2>6, <2>7 DEF Abs!Next, Abs!Answer
<1>6. QED
  BY <1>4, <1>5

\* The first state.
LEMMA PipelineBegins ==
    ASSUME Init
    PROVE  Abs!Init
<1>1. ConnectionInv
  BY ConnectionBegins
<1>2. script \in Seq(Request) /\ Len(script) \in Nat
  BY <1>1, Parts
<1>3. ToRead = 1 .. Len(script)
  <2>1. todo = StreamFrom(script, 1) /\ wire = <<>>
    BY DEF Init, Stream
  <2>2. 1 \in 1 .. (Len(script) + 1)
    BY <1>2
  <2>3. Outstanding(todo) = 1 .. Len(script)
    BY <1>2, <2>1, <2>2, OutstandingOfStream
  <2>4. Outstanding(<<>>) = {}
    BY DEF Outstanding
  <2>5. QED
    BY <2>1, <2>3, <2>4 DEF ToRead
<1>4. Cardinality(1 .. Len(script)) = Len(script)
  <2>1. 1 \in Int /\ Len(script) \in Int /\ (IF 1 > Len(script) THEN 0 ELSE Len(script) - 1 + 1) = Len(script)
    BY <1>2
  <2>2. QED
    BY <2>1, FS_Interval
<1>5. Received = 0 /\ Final \subseteq Nat
  <2>1. Received = Len(script) - Cardinality(ToRead) /\ Final \subseteq Nat
    BY <1>1, HeadersAreCounted DEF Counted
  <2>2. QED
    BY <1>2, <1>3, <1>4, <2>1
<1>6. answered = <<>> /\ open = TRUE
  BY DEF Init
<1>7. QED
  BY <1>5, <1>6 DEF Abs!Init

(***************************************************************************)
(* The connection implements the pipeline: the requests are answered in the*)
(* order of sending, each once and not before its headers have been read,  *)
(* and none after one that closes the connection.                          *)
(***************************************************************************)
THEOREM ConnectionImplementsPipeline ==
    ASSUME "missing post" \notin Kinds
    PROVE  Spec => AnswersInOrder
<1>1. Init => Abs!Init
  BY PipelineBegins
<1>2. ConnectionInv => Counted
  BY HeadersAreCounted
<1>3. ConnectionInv /\ ConnectionInv' /\ Counted /\ Counted' /\ [Next]_vars => [Abs!Next]_(Abs!vars)
  <2> SUFFICES ASSUME ConnectionInv, ConnectionInv', Counted, Counted', [Next]_vars
               PROVE  [Abs!Next]_(Abs!vars)
    OBVIOUS
  <2>1. CASE Next
    BY <2>1, PipelineStep DEF Abs!vars
  <2>2. CASE UNCHANGED vars
    BY <2>2 DEF vars, netVars, Abs!vars, Final, Received
  <2>3. QED
    BY <2>1, <2>2
<1>4. QED
  BY <1>1, <1>2, <1>3, ConnectionInvariant, PTL DEF Spec, Abs!Spec, AnswersInOrder

==============================================================================
