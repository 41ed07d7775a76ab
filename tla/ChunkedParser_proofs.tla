------------------------ MODULE ChunkedParser_proofs ------------------------
(***************************************************************************)
(* Proofs about the parser of chunked bodies, for every base, every text   *)
(* and every division of it into buffers: it ends where the body does, with*)
(* the data of its chunks, and what it refuses no rest makes a body.       *)
(***************************************************************************)
EXTENDS MCChunkedParser, SequenceTheorems, WellFoundedInduction, TLAPS

(***************************************************************************)
(* A set of natural numbers has a least element, which is why what is true *)
(* of 1, and of each number after one it is true of, is true up to n.      *)
(***************************************************************************)
LEMMA LeastNumber ==
    ASSUME NEW S, S \subseteq Nat, S # {}
    PROVE  \E x \in S : \A y \in S : x <= y
<1> DEFINE R == OpToRel(<, Nat)
<1>1. IsWellFoundedOn(R, Nat)
  BY NatLessThanWellFounded
<1>2. \A x, y \in Nat : y < x => <<y, x>> \in R
  BY DEF OpToRel
<1> HIDE DEF R
<1>3. PICK x \in S : \A y \in S : ~ (<<y, x>> \in R)
  BY <1>1, WFMin
<1>4. ASSUME NEW y \in S PROVE x <= y
  <2>1. x \in Nat /\ y \in Nat
    OBVIOUS
  <2>2. ~ (y < x)
    BY <1>2, <1>3, <2>1
  <2>3. QED
    BY <2>1, <2>2
<1>5. QED
  BY <1>4

\* The same for a set of which one knows what follows from one number to the next.
LEMMA UpToTheEnd ==
    ASSUME NEW n \in Nat, NEW S, \A k \in 1 .. n : (k = 1 \/ k - 1 \in S) => k \in S
    PROVE  1 .. n \subseteq S
<1> DEFINE Bad == {k \in 1 .. n : k \notin S}
<1> SUFFICES ASSUME Bad # {} PROVE FALSE
  OBVIOUS
<1>1. PICK k0 \in Bad : \A k \in Bad : k0 <= k
  <2>1. Bad \subseteq Nat
    OBVIOUS
  <2> HIDE DEF Bad
  <2>2. QED
    BY <2>1, LeastNumber
<1>2. k0 \in 1 .. n /\ k0 \notin S
  BY <1>1
<1>3. k0 # 1 => k0 - 1 \in 1 .. n /\ k0 - 1 \notin Bad
  BY <1>1, <1>2
<1>4. QED
  BY <1>2, <1>3

\* And from the last number down.
LEMMA DownToTheFirst ==
    ASSUME NEW n \in Nat, NEW S, \A k \in 1 .. n : (\A m \in (k + 1) .. n : m \in S) => k \in S
    PROVE  1 .. n \subseteq S
<1> DEFINE Bad == {k \in 1 .. n : n - k + 1 \notin S}
<1> SUFFICES ASSUME Bad # {} PROVE FALSE
  <2> SUFFICES ASSUME NEW k \in 1 .. n, k \notin S PROVE n - k + 1 \in Bad
    OBVIOUS
  <2>1. n - k + 1 \in 1 .. n /\ n - (n - k + 1) + 1 = k
    OBVIOUS
  <2>2. QED
    BY <2>1
<1>1. PICK k0 \in Bad : \A k \in Bad : k0 <= k
  <2>1. Bad \subseteq Nat
    OBVIOUS
  <2> HIDE DEF Bad
  <2>2. QED
    BY <2>1, LeastNumber
<1>2. k0 \in 1 .. n /\ n - k0 + 1 \in 1 .. n /\ n - k0 + 1 \notin S
  BY <1>1
<1>3. \A m \in (n - k0 + 2) .. n : m \in S
  <2> SUFFICES ASSUME NEW m \in (n - k0 + 2) .. n, m \notin S PROVE FALSE
    OBVIOUS
  <2>1. n - m + 1 \in 1 .. n /\ n - (n - m + 1) + 1 = m /\ n - m + 1 < k0
    BY <1>2
  <2>2. n - m + 1 \in Bad
    BY <2>1
  <2>3. QED
    BY <1>1, <1>2, <2>1, <2>2
<1>4. (n - k0 + 1) + 1 = n - k0 + 2
  BY <1>2
<1>5. QED
  BY <1>2, <1>3, <1>4

----------------------------------------------------------------------------
\* H says what a function g of the places up to n is at each of them, and goes by
\* nothing but what g is behind the place.
Backward(n, R, G, H) ==
    /\ n \in Nat /\ R # {} /\ G = [1 .. n -> R]
    /\ \A i \in 1 .. n : \A g \in G : H[i][g] \in R
    /\ \A i \in 1 .. n : \A g \in G : \A h \in G :
          (\A k \in (i + 1) .. n : g[k] = h[k]) => H[i][g] = H[i][h]

(***************************************************************************)
(* Then there is such a function: one finds it from the last place to the  *)
(* first.                                                                  *)
(***************************************************************************)
LEMMA FromTheEnd ==
    ASSUME NEW n, NEW R, NEW G, NEW H, Backward(n, R, G, H)
    PROVE  \E g \in G : \A i \in 1 .. n : g[i] = H[i][g]
<1> USE DEF Backward
<1>0. n \in Nat /\ G = [1 .. n -> R]
  OBVIOUS
<1> PICK r \in R : TRUE
  OBVIOUS
<1> DEFINE Known(m, g) == \A i \in (n - m + 1) .. n : g[i] = H[i][g]
           S == {m \in 1 .. n : \E g \in [1 .. n -> R] : Known(m, g)}
<1>1. \E g \in [1 .. n -> R] : Known(0, g)
  <2>1. [i \in 1 .. n |-> r] \in [1 .. n -> R]
    OBVIOUS
  <2>2. (n - 0 + 1) .. n = {}
    OBVIOUS
  <2>3. QED
    BY <2>1, <2>2
<1>2. \A m \in 1 .. n : (m = 1 \/ m - 1 \in S) => m \in S
  <2> SUFFICES ASSUME NEW m \in 1 .. n, m = 1 \/ m - 1 \in S PROVE m \in S
    OBVIOUS
  <2>1. PICK g \in [1 .. n -> R] : Known(m - 1, g)
    <3>1. m = 1 => m - 1 = 0
      OBVIOUS
    <3> HIDE DEF Known
    <3>2. QED
      BY <1>1, <3>1
  <2> DEFINE p == n - m + 1
             h == [g EXCEPT ![p] = H[p][g]]
  <2>2. p \in 1 .. n
    OBVIOUS
  <2>0. H[p][g] \in R
    BY <2>2
  <2>3. h \in [1 .. n -> R] /\ h[p] = H[p][g] /\ \A i \in 1 .. n : i # p => h[i] = g[i]
    BY <2>0, <2>2
  <2> HIDE DEF h
  <2>4. ASSUME NEW i \in p .. n PROVE h[i] = H[i][h]
    <3>1. i \in 1 .. n /\ \A k \in (i + 1) .. n : k \in 1 .. n /\ k # p
      BY <2>2
    <3>2. H[i][g] = H[i][h]
      <4>1. g \in G /\ h \in G /\ i \in 1 .. n
        BY <2>3, <3>1
      <4>2. \A k \in (i + 1) .. n : g[k] = h[k]
        BY <2>3, <3>1
      <4>3. QED
        BY <4>1, <4>2
    <3>3. CASE i = p
      BY <2>3, <3>2, <3>3
    <3>4. CASE i # p
      <4>1. i \in (n - (m - 1) + 1) .. n
        BY <3>4
      <4>2. g[i] = H[i][g]
        BY <2>1, <4>1
      <4>3. QED
        BY <2>3, <3>1, <3>2, <3>4, <4>2
    <3>5. QED
      BY <3>3, <3>4
  <2>5. Known(m, h)
    BY <2>4
  <2> HIDE DEF Known
  <2>6. QED
    BY <2>3, <2>5
<1> HIDE DEF S
<1>3. 1 .. n \subseteq S
  BY <1>2, UpToTheEnd
<1>4. CASE n = 0
  <2>1. 1 .. n = {}
    BY <1>4
  <2>2. QED
    BY <1>1, <2>1
<1>5. CASE n # 0
  <2>1. n \in S
    BY <1>3, <1>5
  <2>2. PICK g \in [1 .. n -> R] : Known(n, g)
    BY <2>1 DEF S
  <2>3. (n - n + 1) .. n = 1 .. n
    OBVIOUS
  <2>4. QED
    BY <2>2, <2>3
<1>6. QED
  BY <1>4, <1>5

----------------------------------------------------------------------------
(***************************************************************************)
(* The number that digits stand for, one digit after the other.            *)
(***************************************************************************)
Numbers(s, n, f) == f = [k \in 0 .. n |-> IF k = 0 THEN 0 ELSE f[k - 1] * Base + Value(s[k])]

\* One more digit.
LEMMA OneMoreDigit ==
    ASSUME NEW s, NEW n \in Nat \ {0}, NEW f, Numbers(s, n - 1, f)
    PROVE  \E g : Numbers(s, n, g)
<1> DEFINE g == [k \in 0 .. n |-> IF k = n THEN f[n - 1] * Base + Value(s[n]) ELSE f[k]]
<1>1. \A k \in 0 .. (n - 1) : f[k] = IF k = 0 THEN 0 ELSE f[k - 1] * Base + Value(s[k])
  <2>1. f = [k \in 0 .. (n - 1) |-> IF k = 0 THEN 0 ELSE f[k - 1] * Base + Value(s[k])]
    BY DEF Numbers
  <2>2. QED
    BY <2>1, Zenon
<1>2. \A k \in 0 .. n : k # n => g[k] = f[k]
  BY Zenon
<1>3. n \in 0 .. n /\ g[n] = f[n - 1] * Base + Value(s[n])
  <2>1. n \in 0 .. n
    OBVIOUS
  <2>2. QED
    BY <2>1, Zenon
<1>4. g = [k \in 0 .. n |-> g[k]]
  OBVIOUS
<1> HIDE DEF g
<1>5. \A k \in 0 .. n : g[k] = IF k = 0 THEN 0 ELSE g[k - 1] * Base + Value(s[k])
  <2> TAKE k \in 0 .. n
  <2>1. CASE k = n
    <3>1. k # 0 /\ k - 1 \in 0 .. n /\ k - 1 # n
      BY <2>1
    <3>2. g[k - 1] = f[n - 1]
      BY <1>2, <2>1, <3>1
    <3>3. QED
      BY <1>3, <2>1, <3>1, <3>2
  <2>2. CASE k # n
    <3>1. k \in 0 .. (n - 1) /\ (k # 0 => k - 1 \in 0 .. n /\ k - 1 # n)
      BY <2>2
    <3>2. g[k] = f[k] /\ (k # 0 => g[k - 1] = f[k - 1])
      BY <1>2, <2>2, <3>1
    <3>3. QED
      BY <1>1, <3>1, <3>2
  <2>3. QED
    BY <2>1, <2>2
<1>6. Numbers(s, n, g)
  BY <1>4, <1>5, Zenon DEF Numbers
<1>7. QED
  BY <1>6

\* The numbers that the first digits stand for, as many of them as one likes.
LEMMA NumbersExist ==
    ASSUME NEW s, NEW n \in Nat
    PROVE  \E f : Numbers(s, n, f)
<1> DEFINE S == {k \in 1 .. n : \E f : Numbers(s, k, f)}
<1>1. \E f : Numbers(s, 0, f)
  <2> DEFINE f == [k \in 0 .. 0 |-> 0]
  <2>1. \A k \in 0 .. 0 : k = 0
    OBVIOUS
  <2>2. f = [k \in 0 .. 0 |-> IF k = 0 THEN 0 ELSE f[k - 1] * Base + Value(s[k])]
    BY <2>1
  <2>3. QED
    BY <2>2 DEF Numbers
<1>2. \A k \in 1 .. n : (k = 1 \/ k - 1 \in S) => k \in S
  <2> SUFFICES ASSUME NEW k \in 1 .. n, k = 1 \/ k - 1 \in S PROVE k \in S
    OBVIOUS
  <2>1. k \in Nat \ {0} /\ (k = 1 => k - 1 = 0)
    OBVIOUS
  <2>2. PICK f : Numbers(s, k - 1, f)
    BY <1>1, <2>1
  <2>3. \E g : Numbers(s, k, g)
    BY <2>1, <2>2, OneMoreDigit
  <2>4. QED
    BY <2>3
<1> HIDE DEF S
<1>3. 1 .. n \subseteq S
  BY <1>2, UpToTheEnd
<1>4. CASE n = 0
  BY <1>1, <1>4
<1>5. CASE n # 0
  <2>1. n \in S
    BY <1>3, <1>5
  <2>2. QED
    BY <2>1 DEF S
<1>6. QED
  BY <1>4, <1>5

\* The number is the last of them.
LEMMA NumberIs ==
    ASSUME NEW n \in Nat, NEW s, Len(s) = n
    PROVE  \E f : /\ Number(s) = f[n] /\ f[0] = 0
                  /\ \A k \in 1 .. n : f[k] = f[k - 1] * Base + Value(s[k])
<1> DEFINE upTo == CHOOSE f : f = [k \in 0 .. n |-> IF k = 0 THEN 0 ELSE f[k - 1] * Base + Value(s[k])]
<1>1. \E f : f = [k \in 0 .. n |-> IF k = 0 THEN 0 ELSE f[k - 1] * Base + Value(s[k])]
  BY NumbersExist DEF Numbers
<1>2. upTo = [k \in 0 .. n |-> IF k = 0 THEN 0 ELSE upTo[k - 1] * Base + Value(s[k])]
  BY <1>1
<1>3. Number(s) = upTo[n]
  BY DEF Number
<1> HIDE DEF upTo
<1>4. \A k \in 0 .. n : upTo[k] = IF k = 0 THEN 0 ELSE upTo[k - 1] * Base + Value(s[k])
  BY <1>2, Zenon
<1>5. 0 \in 0 .. n /\ \A k \in 1 .. n : k \in 0 .. n /\ k # 0
  OBVIOUS
<1>6. QED
  BY <1>3, <1>4, <1>5

\* What a digit is worth.
LEMMA ValueIs ==
    ASSUME NEW c \in Digit
    PROVE  Value(c) \in Nat
<1>1. \E d \in DOMAIN Digits : Digits[d] = c
  BY DEF Digit
<1>2. Value(c) \in DOMAIN Digits
  BY <1>1 DEF Value
<1>3. DOMAIN Digits = 0 .. (Base - 1)
  BY ChunkedParserAssumption
<1>4. QED
  BY <1>2, <1>3

(***************************************************************************)
(* Digits stand for a number, and one more digit for so many times the base*)
(* and its value.                                                          *)
(***************************************************************************)
LEMMA NumberOfDigits ==
    ASSUME NEW n \in Nat, NEW s, Len(s) = n, \A k \in 1 .. n : s[k] \in Digit
    PROVE  Number(s) \in Nat
<1>0. n \in Nat /\ Len(s) = n
  OBVIOUS
<1>1. PICK f : /\ Number(s) = f[n] /\ f[0] = 0
               /\ \A k \in 1 .. n : f[k] = f[k - 1] * Base + Value(s[k])
  BY ONLY <1>0, NumberIs
<1> DEFINE S == {k \in 1 .. n : f[k] \in Nat}
<1>2. \A k \in 1 .. n : (k = 1 \/ k - 1 \in S) => k \in S
  <2> SUFFICES ASSUME NEW k \in 1 .. n, k = 1 \/ k - 1 \in S PROVE k \in S
    OBVIOUS
  <2>1. f[k] = f[k - 1] * Base + Value(s[k]) /\ (k = 1 => k - 1 = 0)
    BY <1>1
  <2>2. f[k - 1] \in Nat /\ Value(s[k]) \in Nat /\ Base \in Nat
    <3>1. f[k - 1] \in Nat
      BY <1>1, <2>1
    <3>2. s[k] \in Digit
      OBVIOUS
    <3>3. Value(s[k]) \in Nat
      BY ONLY <3>2, ValueIs
    <3>4. Base \in Nat
      BY ChunkedParserAssumption
    <3>5. QED
      BY <3>1, <3>3, <3>4
  <2>3. f[k - 1] * Base \in Nat
    BY ONLY <2>2
  <2>4. QED
    BY <2>1, <2>2, <2>3
<1> HIDE DEF S
<1>3. 1 .. n \subseteq S
  BY <1>2, UpToTheEnd
<1>4. n # 0 => n \in S
  BY <1>3
<1>5. QED
  BY <1>1, <1>4 DEF S

\* One more digit: so many times the base and what the digit is worth.
LEMMA NumberGrows ==
    ASSUME NEW n \in Nat, NEW s, NEW t, Len(s) = n, Len(t) = n + 1,
           \A k \in 1 .. n : s[k] = t[k]
    PROVE  Number(t) = Number(s) * Base + Value(t[n + 1])
<1>1. n \in Nat /\ Len(s) = n
  OBVIOUS
<1>2. PICK f : /\ Number(s) = f[n] /\ f[0] = 0
               /\ \A k \in 1 .. n : f[k] = f[k - 1] * Base + Value(s[k])
  BY ONLY <1>1, NumberIs
<1>3. PICK m : m = n + 1
  OBVIOUS
<1>4. m \in Nat /\ Len(t) = m /\ m \in 1 .. m /\ m - 1 = n
  BY <1>3
<1>5. PICK g : /\ Number(t) = g[m] /\ g[0] = 0
               /\ \A k \in 1 .. m : g[k] = g[k - 1] * Base + Value(t[k])
  BY ONLY <1>4, NumberIs
<1> DEFINE S == {k \in 1 .. n : f[k] = g[k]}
<1>6. \A k \in 1 .. n : (k = 1 \/ k - 1 \in S) => k \in S
  <2> SUFFICES ASSUME NEW k \in 1 .. n, k = 1 \/ k - 1 \in S PROVE k \in S
    OBVIOUS
  <2>1. k \in 1 .. m /\ (k = 1 => k - 1 = 0) /\ s[k] = t[k]
    BY <1>3
  <2>2. f[k - 1] = g[k - 1]
    BY <1>2, <1>5, <2>1
  <2>3. f[k] = f[k - 1] * Base + Value(s[k]) /\ g[k] = g[k - 1] * Base + Value(t[k])
    BY <1>2, <1>5, <2>1
  <2>4. QED
    BY <2>1, <2>2, <2>3
<1> HIDE DEF S
<1>7. 1 .. n \subseteq S
  BY <1>6, UpToTheEnd
<1>8. f[n] = g[n]
  <2>1. n # 0 => n \in S
    BY <1>7
  <2>2. QED
    BY <1>2, <1>5, <2>1 DEF S
<1>9. g[m] = g[m - 1] * Base + Value(t[m])
  BY <1>4, <1>5
<1>10. QED
  BY <1>2, <1>3, <1>4, <1>5, <1>8, <1>9

\* The empty string stands for nothing.
LEMMA NumberOfNone == Number(<<>>) = 0
<1>1. 0 \in Nat /\ Len(<<>>) = 0
  OBVIOUS
<1>2. QED
  BY <1>1, NumberIs

----------------------------------------------------------------------------
(***************************************************************************)
(* The trailer and the chunks from a place on are what their definitions   *)
(* say they are.                                                           *)
(***************************************************************************)
\* The characters of what is read and of what may still come.
Sign == Char \cup {"0"}

\* Where a line can end.
LEMMA LinesEnd ==
    ASSUME NEW s, Len(s) \in Nat, NEW i \in Nat \ {0}, NEW j \in LineEnds(s, i)
    PROVE  j \in Nat /\ i <= j /\ j + 1 <= Len(s) /\ s[j] = "CR" /\ s[j + 1] = "LF"
BY DEF LineEnds, LineEnd

\* With the trailers behind the place i, given as g.
TrailerStep(s, i, g) ==
    \/ LineEnd(s, i) /\ i + 1 = Len(s)
    \/ \E j \in LineEnds(s, i) : j > i /\ g[j + 2]

\* The trailer at a place is made of the trailers behind it.
LEMMA TrailerIs ==
    ASSUME NEW s, Len(s) \in Nat
    PROVE  \A i \in 1 .. (Len(s) + 1) : Trailer(s)[i] = TrailerStep(s, i, Trailer(s))
<1> DEFINE n == Len(s) + 1
           H == [i \in 1 .. n |-> [g \in [1 .. n -> BOOLEAN] |-> TrailerStep(s, i, g)]]
           t == CHOOSE g : g = [i \in 1 .. n |-> TrailerStep(s, i, g)]
<1>1. n \in Nat
  OBVIOUS
<1>2. \A i \in 1 .. n : \A g \in [1 .. n -> BOOLEAN] : H[i][g] = TrailerStep(s, i, g)
  OBVIOUS
<1>3. \A i \in 1 .. n : \A g \in [1 .. n -> BOOLEAN] : TrailerStep(s, i, g) \in BOOLEAN
  BY DEF TrailerStep
<1>4. ASSUME NEW i \in 1 .. n, NEW g \in [1 .. n -> BOOLEAN], NEW h \in [1 .. n -> BOOLEAN],
             \A k \in (i + 1) .. n : g[k] = h[k]
      PROVE  TrailerStep(s, i, g) = TrailerStep(s, i, h)
  <2>1. \A j \in LineEnds(s, i) : j + 2 \in (i + 1) .. n
    <3> TAKE j \in LineEnds(s, i)
    <3>1. i \in Nat \ {0}
      OBVIOUS
    <3>2. j \in Nat /\ i <= j /\ j + 1 <= Len(s)
      BY <3>1, LinesEnd
    <3>3. QED
      BY <3>2
  <2>2. \A j \in LineEnds(s, i) : g[j + 2] = h[j + 2]
    BY <1>4, <2>1
  <2> HIDE DEF n
  <2>3. QED
    BY <2>2 DEF TrailerStep
<1> HIDE DEF H
<1>5. \E g \in [1 .. n -> BOOLEAN] : \A i \in 1 .. n : g[i] = H[i][g]
  <2>1. TRUE \in BOOLEAN
    OBVIOUS
  <2>2. \A i \in 1 .. n : \A g \in [1 .. n -> BOOLEAN] : H[i][g] \in BOOLEAN
    BY <1>2, <1>3
  <2>3. \A i \in 1 .. n : \A g, h \in [1 .. n -> BOOLEAN] :
           (\A k \in (i + 1) .. n : g[k] = h[k]) => H[i][g] = H[i][h]
    BY <1>2, <1>4
  <2> HIDE DEF n
  <2>4. Backward(n, BOOLEAN, [1 .. n -> BOOLEAN], H)
    BY <1>1, <2>1, <2>2, <2>3 DEF Backward
  <2>5. QED
    BY ONLY <2>4, FromTheEnd
<1>6. \E g : g = [i \in 1 .. n |-> TrailerStep(s, i, g)]
  <2>1. PICK g \in [1 .. n -> BOOLEAN] : \A i \in 1 .. n : g[i] = H[i][g]
    BY <1>5
  <2>2. \A i \in 1 .. n : g[i] = TrailerStep(s, i, g)
    BY <1>2, <2>1
  <2>3. g = [i \in 1 .. n |-> g[i]]
    OBVIOUS
  <2> HIDE DEF n
  <2>4. g = [i \in 1 .. n |-> TrailerStep(s, i, g)]
    BY <2>2, <2>3, Zenon
  <2>5. QED
    BY <2>4
<1>7. Trailer(s) = t
  BY DEF Trailer, TrailerStep
<1>8. t = [i \in 1 .. n |-> TrailerStep(s, i, t)]
  BY <1>6
<1> HIDE DEF t
<1>9. \A i \in 1 .. n : t[i] = TrailerStep(s, i, t)
  BY <1>8, Zenon
<1>10. QED
  BY <1>7, <1>9

\* A chunk of count characters from the place first on, and what is behind it.
ChunkStep(s, count, first, g) ==
    IF count = 0 THEN IF Trailer(s)[first] THEN {<<>>} ELSE {}
    ELSE IF LineEnd(s, first + count)
         THEN {SubSeq(s, first, first + count - 1) \o d : d \in g[first + count + 2]}
         ELSE {}

SizeOf(s, i, n) == Number(SubSeq(s, i, n - 1))

ChunksStep(s, i, g) ==
    UNION {UNION {ChunkStep(s, SizeOf(s, i, n), j + 2, g) : n \in Sizes(s, i, j)} : j \in LineEnds(s, i)}

\* What a size is.
LEMMA SizeIs ==
    ASSUME NEW s \in Seq(Sign), NEW i \in Nat \ {0}, NEW j \in Nat, j <= Len(s), NEW n \in Sizes(s, i, j)
    PROVE  SizeOf(s, i, n) \in Nat
<1> DEFINE t == SubSeq(s, i, n - 1)
           m == n - i
<1>1. n \in (i + 1) .. j /\ \A k \in i .. (n - 1) : s[k] \in Digit
  BY DEF Sizes
<1>2. m \in Nat /\ Len(t) = m
  BY <1>1
<1>3. \A k \in 1 .. m : t[k] \in Digit
  <2> TAKE k \in 1 .. m
  <2>1. t[k] = s[i + k - 1] /\ i + k - 1 \in i .. (n - 1)
    BY <1>1
  <2>2. QED
    BY <1>1, <2>1
<1> HIDE DEF t, m
<1>4. Number(t) \in Nat
  BY <1>2, <1>3, NumberOfDigits
<1>5. QED
  BY <1>4 DEF t, SizeOf

\* The chunks at a place are made of the chunks behind it, and their data is a string.
LEMMA ChunksAre ==
    ASSUME NEW s \in Seq(Sign)
    PROVE  \A i \in 1 .. (Len(s) + 1) :
              Chunks(s)[i] = ChunksStep(s, i, Chunks(s)) /\ Chunks(s)[i] \in SUBSET Seq(Sign)
<1> DEFINE n == Len(s) + 1
           R == SUBSET Seq(Sign)
           H == [i \in 1 .. n |-> [g \in [1 .. n -> R] |-> ChunksStep(s, i, g)]]
           t == CHOOSE g : g = [i \in 1 .. n |-> ChunksStep(s, i, g)]
<1>1. n \in Nat /\ Len(s) \in Nat
  OBVIOUS
<1>2. \A i \in 1 .. n : \A g \in [1 .. n -> R] : H[i][g] = ChunksStep(s, i, g)
  OBVIOUS
<1>3. ASSUME NEW i \in 1 .. n, NEW j \in LineEnds(s, i), NEW m \in Sizes(s, i, j)
      PROVE  /\ SizeOf(s, i, m) \in Nat
             /\ LineEnd(s, j + 2 + SizeOf(s, i, m)) => j + 2 + SizeOf(s, i, m) + 2 \in (i + 1) .. n
             /\ j + 2 \in Nat \ {0} /\ j + 2 <= n
  <2>1. i \in Nat \ {0}
    OBVIOUS
  <2>2. j \in Nat /\ i <= j /\ j + 1 <= Len(s)
    BY <1>1, <2>1, LinesEnd
  <2>3. j \in Nat /\ j <= Len(s)
    BY <1>1, <2>2
  <2>4. SizeOf(s, i, m) \in Nat
    BY <2>1, <2>3, SizeIs
  <2>5. QED
    BY <1>1, <2>1, <2>2, <2>4 DEF LineEnd
<1>4. ASSUME NEW i \in 1 .. n, NEW g, \A k \in (i + 1) .. n : g[k] \in R
      PROVE  ChunksStep(s, i, g) \in R
  <2>1. ASSUME NEW j \in LineEnds(s, i), NEW m \in Sizes(s, i, j)
        PROVE  ChunkStep(s, SizeOf(s, i, m), j + 2, g) \in R
    <3> DEFINE count == SizeOf(s, i, m)
               first == j + 2
    <3>1. count \in Nat /\ first \in Nat \ {0}
          /\ (LineEnd(s, first + count) => first + count + 2 \in (i + 1) .. n)
      BY <1>3
    <3>2. CASE count # 0 /\ LineEnd(s, first + count)
      <4> HIDE DEF count, first
      <4>1. g[first + count + 2] \in R
        BY <1>4, <3>1, <3>2
      <4>2. SubSeq(s, first, first + count - 1) \in Seq(Sign)
        <5>1. first + count + 1 <= Len(s)
          BY <3>2 DEF LineEnd
        <5>2. \A k \in first .. (first + count - 1) : s[k] \in Sign
          BY <1>1, <3>1, <5>1
        <5>3. first \in Int /\ first + count - 1 \in Int
          BY <3>1
        <5>4. QED
          BY <1>1, <3>1, <5>1, <5>2, <5>3
      <4>3. \A d \in g[first + count + 2] : SubSeq(s, first, first + count - 1) \o d \in Seq(Sign)
        BY <4>1, <4>2
      <4>4. ChunkStep(s, count, first, g) = {SubSeq(s, first, first + count - 1) \o d : d \in g[first + count + 2]}
        BY <3>2 DEF ChunkStep
      <4>5. QED
        BY <4>3, <4>4 DEF count, first
    <3>3. CASE ~ (count # 0 /\ LineEnd(s, first + count))
      <4>1. <<>> \in Seq(Sign)
        OBVIOUS
      <4> HIDE DEF count, first
      <4>2. ChunkStep(s, count, first, g) \subseteq {<<>>}
        BY <3>3 DEF ChunkStep
      <4>3. QED
        BY <4>1, <4>2 DEF count, first
    <3>4. QED
      BY <3>2, <3>3
  <2> HIDE DEF n
  <2>2. QED
    BY <2>1 DEF ChunksStep
<1>5. ASSUME NEW i \in 1 .. n, NEW g \in [1 .. n -> R], NEW h \in [1 .. n -> R],
             \A k \in (i + 1) .. n : g[k] = h[k]
      PROVE  ChunksStep(s, i, g) = ChunksStep(s, i, h)
  <2>1. ASSUME NEW j \in LineEnds(s, i), NEW m \in Sizes(s, i, j)
        PROVE  ChunkStep(s, SizeOf(s, i, m), j + 2, g) = ChunkStep(s, SizeOf(s, i, m), j + 2, h)
    <3>1. LineEnd(s, j + 2 + SizeOf(s, i, m)) => j + 2 + SizeOf(s, i, m) + 2 \in (i + 1) .. n
      BY <1>3
    <3>2. LineEnd(s, j + 2 + SizeOf(s, i, m)) => g[j + 2 + SizeOf(s, i, m) + 2] = h[j + 2 + SizeOf(s, i, m) + 2]
      BY <1>5, <3>1
    <3>3. QED
      BY <3>2 DEF ChunkStep
  <2> HIDE DEF n
  <2> DEFINE G(j) == UNION {ChunkStep(s, SizeOf(s, i, m), j + 2, g) : m \in Sizes(s, i, j)}
             F(j) == UNION {ChunkStep(s, SizeOf(s, i, m), j + 2, h) : m \in Sizes(s, i, j)}
  <2>2. ASSUME NEW j \in LineEnds(s, i) PROVE G(j) = F(j)
    BY <2>1
  <2>3. ChunksStep(s, i, g) = UNION {G(j) : j \in LineEnds(s, i)}
    BY DEF ChunksStep
  <2>4. ChunksStep(s, i, h) = UNION {F(j) : j \in LineEnds(s, i)}
    BY DEF ChunksStep
  <2> HIDE DEF G, F
  <2>5. QED
    BY <2>2, <2>3, <2>4
<1> HIDE DEF H, R
<1>6. \E g \in [1 .. n -> R] : \A i \in 1 .. n : g[i] = H[i][g]
  <2>1. {} \in R
    BY DEF R
  <2>2. \A i \in 1 .. n : \A g \in [1 .. n -> R] : H[i][g] \in R
    <3> TAKE i \in 1 .. n
    <3> TAKE g \in [1 .. n -> R]
    <3>1. \A k \in (i + 1) .. n : k \in 1 .. n
      OBVIOUS
    <3>2. ChunksStep(s, i, g) \in R
      BY <1>4, <3>1
    <3>3. QED
      BY <1>2, <3>2
  <2>3. \A i \in 1 .. n : \A g, h \in [1 .. n -> R] :
           (\A k \in (i + 1) .. n : g[k] = h[k]) => H[i][g] = H[i][h]
    <3> SUFFICES ASSUME NEW i \in 1 .. n, NEW g \in [1 .. n -> R], NEW h \in [1 .. n -> R],
                        \A k \in (i + 1) .. n : g[k] = h[k]
                 PROVE  H[i][g] = H[i][h]
      OBVIOUS
    <3>1. ChunksStep(s, i, g) = ChunksStep(s, i, h)
      BY <1>5
    <3>2. QED
      BY <1>2, <3>1
  <2> HIDE DEF n
  <2>4. Backward(n, R, [1 .. n -> R], H)
    BY <1>1, <2>1, <2>2, <2>3 DEF Backward
  <2>5. QED
    BY ONLY <2>4, FromTheEnd
<1>7. \E g \in [1 .. n -> R] : g = [i \in 1 .. n |-> ChunksStep(s, i, g)]
  <2>1. PICK g \in [1 .. n -> R] : \A i \in 1 .. n : g[i] = H[i][g]
    BY <1>6
  <2>2. \A i \in 1 .. n : g[i] = ChunksStep(s, i, g)
    BY <1>2, <2>1
  <2>3. g = [i \in 1 .. n |-> g[i]]
    OBVIOUS
  <2> HIDE DEF n
  <2>4. g = [i \in 1 .. n |-> ChunksStep(s, i, g)]
    BY <2>2, <2>3, Zenon
  <2>5. QED
    BY <2>4
<1>8. Chunks(s) = t
  BY DEF Chunks, ChunksStep, ChunkStep, SizeOf
<1>9. t = [i \in 1 .. n |-> ChunksStep(s, i, t)]
  BY <1>7
<1> HIDE DEF t
<1>10. \A i \in 1 .. n : t[i] = ChunksStep(s, i, t)
  BY <1>9, Zenon
<1> DEFINE S == {i \in 1 .. n : t[i] \in R}
<1>11. \A i \in 1 .. n : (\A k \in (i + 1) .. n : k \in S) => i \in S
  <2> SUFFICES ASSUME NEW i \in 1 .. n, \A k \in (i + 1) .. n : k \in S PROVE i \in S
    OBVIOUS
  <2>1. ChunksStep(s, i, t) \in R
    BY <1>4
  <2>2. QED
    BY <1>10, <2>1
<1>12. 1 .. n \subseteq S
  <2> HIDE DEF S, n
  <2>1. QED
    BY <1>1, <1>11, DownToTheFirst
<1>13. QED
  BY <1>8, <1>10, <1>12 DEF R

----------------------------------------------------------------------------
(***************************************************************************)
(* The characters differ, and so do the places they are at.                *)
(***************************************************************************)
LEMMA Characters ==
    /\ " " \notin Digit /\ " " \in Text /\ Digit \subseteq Text
    /\ "CR" \notin Text /\ "LF" \notin Text /\ Char \subseteq Sign
<1>1. \A d \in DOMAIN Digits : Digits[d] \notin {" ", "CR", "LF"}
  BY ChunkedParserAssumption
<1>2. " " \notin Digit /\ "CR" \notin Digit /\ "LF" \notin Digit
  BY <1>1 DEF Digit
<1>3. " " # "CR" /\ " " # "LF" /\ "x" # "CR" /\ "x" # "LF"
  OBVIOUS
<1>4. QED
  BY <1>2, <1>3 DEF Text, Char, Sign

\* Text up to the end of the line: there is only one end of it.
LEMMA OneLineEnd ==
    ASSUME NEW s \in Seq(Sign), NEW p \in Nat \ {0}, NEW j \in Nat, p <= j, LineEnd(s, j),
           \A k \in p .. (j - 1) : s[k] \in Text
    PROVE  LineEnds(s, p) = {j}
<1>1. Len(s) \in Nat /\ s[j] = "CR"
  BY DEF LineEnd
<1>2. j \in LineEnds(s, p)
  BY <1>1 DEF LineEnds, LineEnd
<1>3. "CR" \notin Text
  BY Characters
<1>4. \A i \in LineEnds(s, p) : i = j
  <2> TAKE i \in LineEnds(s, p)
  <2> i \in p .. Len(s)
    BY DEF LineEnds
  <2>1. s[i] = "CR" /\ \A k \in p .. (i - 1) : s[k] \in Text
    BY DEF LineEnds, LineEnd
  <2>2. i \in Int /\ p <= i
    BY <1>1
  <2>3. s[i] \notin Text /\ s[j] \notin Text
    BY <1>1, <1>3, <2>1
  <2>4. ~ (i < j)
    <3>1. i < j => i \in p .. (j - 1)
      BY <2>2
    <3>2. QED
      BY <2>3, <3>1
  <2>5. ~ (j < i)
    <3>1. j < i => j \in p .. (i - 1)
      BY <2>2
    <3>2. QED
      BY <2>1, <2>3, <3>1
  <2>6. QED
    BY <2>2, <2>4, <2>5
<1>5. QED
  BY <1>2, <1>4

----------------------------------------------------------------------------
(***************************************************************************)
(* Chunks.  A size from p up to n, and an extension up to j, is the only   *)
(* one there is before the end of its line.                                *)
(***************************************************************************)
Blank == {" "}

SizeAt(x, p, n, j) ==
    /\ j \in Nat /\ n \in (p + 1) .. j
    /\ \A k \in p .. (n - 1) : x[k] \in Digit
    /\ n = j \/ x[n] \in Blank
    /\ \A k \in p .. (j - 1) : x[k] \in Text

\* With its size, a chunk is as long as this says, and nothing else.
LEMMA OneChunk ==
    ASSUME NEW s \in Seq(Sign), NEW p \in Nat \ {0}, NEW n, NEW j, SizeAt(s, p, n, j), LineEnd(s, j)
    PROVE  Chunks(s)[p] = ChunkStep(s, SizeOf(s, p, n), j + 2, Chunks(s))
<1>1. j \in Nat /\ n \in (p + 1) .. j /\ j + 1 <= Len(s) /\ s[j] = "CR" /\ s[j + 1] = "LF"
  BY DEF SizeAt, LineEnd
<1>2. \A k \in p .. (j - 1) : s[k] \in Text
  BY DEF SizeAt
<1>3. "CR" \notin Text /\ " " \notin Digit
  BY Characters
<1>4. j \in Nat /\ p <= j
  BY <1>1
<1>5. LineEnds(s, p) = {j}
  BY <1>2, <1>4, OneLineEnd
<1>6. n \in Sizes(s, p, j)
  BY DEF Sizes, SizeAt, Blank
<1>7. \A m \in Sizes(s, p, j) : m = n
  <2> TAKE m \in Sizes(s, p, j)
  <2> m \in (p + 1) .. j
    BY DEF Sizes
  <2>1. (\A k \in p .. (m - 1) : s[k] \in Digit) /\ (m = j \/ s[m] = " ")
    BY DEF Sizes
  <2>2. (\A k \in p .. (n - 1) : s[k] \in Digit) /\ (n = j \/ s[n] = " ")
    BY DEF SizeAt, Blank
  <2>3. m \in Int /\ n \in Int /\ p \in Int /\ p < m /\ p < n /\ m <= j /\ n <= j /\ j \in Int
    <3>1. p \in Int /\ j \in Int
      BY <1>1
    <3>2. m \in Int /\ p + 1 <= m /\ m <= j
      BY <3>1
    <3>3. n \in Int /\ p + 1 <= n /\ n <= j
      BY <1>1, <3>1
    <3>4. QED
      BY <3>1, <3>2, <3>3
  <2>4. ~ (m < n)
    <3>1. m < n => m \in p .. (n - 1) /\ m # j
      BY <2>3
    <3>2. QED
      BY <1>3, <2>1, <2>2, <3>1
  <2>5. ~ (n < m)
    <3>1. n < m => n \in p .. (m - 1) /\ n # j
      BY <2>3
    <3>2. QED
      BY <1>3, <2>1, <2>2, <3>1
  <2>6. QED
    BY <2>3, <2>4, <2>5
<1>8. Sizes(s, p, j) = {n}
  BY <1>6, <1>7
<1>9. p \in 1 .. (Len(s) + 1)
  BY <1>1
<1>10. Chunks(s)[p] = ChunksStep(s, p, Chunks(s))
  BY <1>9, ChunksAre
<1>11. ChunksStep(s, p, Chunks(s)) = ChunkStep(s, SizeOf(s, p, n), j + 2, Chunks(s))
  BY <1>5, <1>8 DEF ChunksStep
<1>12. QED
  BY <1>10, <1>11

\* Without a size there is no chunk.
LEMMA NoChunk ==
    ASSUME NEW s \in Seq(Sign), NEW p \in 1 .. (Len(s) + 1),
           \A j \in LineEnds(s, p) : Sizes(s, p, j) = {}
    PROVE  Chunks(s)[p] = {}
<1>1. ChunksStep(s, p, Chunks(s)) = {}
  BY DEF ChunksStep
<1>2. QED
  BY <1>1, ChunksAre

----------------------------------------------------------------------------
(***************************************************************************)
(* What is no body.                                                        *)
(***************************************************************************)
\* Text up to z, and there neither more of it nor the end of the line.
LEMMA NoLineEnd ==
    ASSUME NEW s \in Seq(Sign), NEW p \in Nat \ {0}, NEW z \in Nat, p <= z,
           \A k \in p .. (z - 1) : s[k] \in Text, z <= Len(s) => s[z] \notin Text, ~ LineEnd(s, z)
    PROVE  LineEnds(s, p) = {}
<1> SUFFICES ASSUME NEW j \in LineEnds(s, p) PROVE FALSE
  OBVIOUS
<1> j \in p .. Len(s)
  BY DEF LineEnds
<1>1. LineEnd(s, j) /\ s[j] = "CR" /\ \A k \in p .. (j - 1) : s[k] \in Text
  BY DEF LineEnds, LineEnd
<1>2. Len(s) \in Nat
  OBVIOUS
<1>3. j \in Int /\ p <= j /\ j <= Len(s)
  BY <1>2
<1>4. "CR" \notin Text
  BY Characters
<1>5. ~ (j < z)
  <2>1. j < z => j \in p .. (z - 1)
    BY <1>3
  <2>2. QED
    BY <1>1, <1>4, <2>1
<1>6. j # z
  BY <1>1
<1>7. ~ (z < j)
  <2>1. z < j => z \in p .. (j - 1) /\ z <= Len(s)
    BY <1>2, <1>3
  <2>2. QED
    BY <1>1, <2>1
<1>8. QED
  BY <1>3, <1>5, <1>6, <1>7

AfterSize == {" ", "CR"}

\* Digits up to z, and there neither more of them nor what may end them.
LEMMA NoSize ==
    ASSUME NEW s \in Seq(Sign), NEW p \in Nat \ {0}, NEW z \in Nat, p <= z, p <= Len(s) + 1,
           \A k \in p .. (z - 1) : s[k] \in Digit,
           z <= Len(s) => s[z] \notin Digit /\ (p = z \/ s[z] \notin AfterSize)
    PROVE  Chunks(s)[p] = {}
<1>1. ASSUME NEW j \in LineEnds(s, p), NEW n \in Sizes(s, p, j) PROVE FALSE
  <2> j \in p .. Len(s) /\ n \in (p + 1) .. j
    BY DEF LineEnds, Sizes
  <2>1. s[j] = "CR" /\ (\A k \in p .. (n - 1) : s[k] \in Digit) /\ (n = j \/ s[n] = " ")
    BY DEF LineEnds, LineEnd, Sizes
  <2>2. Len(s) \in Nat
    OBVIOUS
  <2>3. j \in Int /\ p <= j /\ j <= Len(s)
    BY <2>2
  <2>4. n \in Int /\ p + 1 <= n /\ n <= j
    BY <2>3
  <2>5. "CR" \notin Digit /\ " " \notin Digit
    BY Characters
  <2>6. s[n] \in AfterSize /\ s[n] \notin Digit
    BY <2>1, <2>5 DEF AfterSize
  <2>7. ~ (n < z)
    <3>1. n < z => n \in p .. (z - 1)
      BY <2>4
    <3>2. QED
      BY <2>6, <3>1
  <2>8. n # z
    BY <2>2, <2>3, <2>4, <2>6
  <2>9. ~ (z < n)
    <3>1. z < n => z \in p .. (n - 1) /\ z <= Len(s)
      BY <2>2, <2>3, <2>4
    <3>2. QED
      BY <2>1, <3>1
  <2>10. QED
    BY <2>4, <2>7, <2>8, <2>9
<1>2. p \in 1 .. (Len(s) + 1)
  OBVIOUS
<1>3. \A j \in LineEnds(s, p) : Sizes(s, p, j) = {}
  BY <1>1
<1>4. QED
  BY ONLY s \in Seq(Sign), <1>2, <1>3, NoChunk

\* Without the end of a line there is no trailer.
LEMMA NoTrailer ==
    ASSUME NEW s \in Seq(Sign), NEW q \in 1 .. (Len(s) + 1), LineEnds(s, q) = {}
    PROVE  ~ Trailer(s)[q]
<1>1. Len(s) \in Nat
  OBVIOUS
<1>2. ~ LineEnd(s, q)
  <2>1. LineEnd(s, q) => q \in q .. Len(s) /\ q .. (q - 1) = {}
    BY <1>1 DEF LineEnd
  <2>2. QED
    BY <2>1 DEF LineEnds
<1>3. Trailer(s)[q] = TrailerStep(s, q, Trailer(s))
  BY <1>1, TrailerIs
<1>4. QED
  BY <1>2, <1>3 DEF TrailerStep

----------------------------------------------------------------------------
(***************************************************************************)
(* How far the parser is in a string s after its first c characters.  A    *)
(* chunk or the trailer begins at a place p, and the body is what has been *)
(* delivered before and what the string from p on amounts to.              *)
(***************************************************************************)
ChunksFrom(s, p, f) == Bodies(s) = {f \o e : e \in Chunks(s)[p]}
TrailerFrom(s, p, f) == Bodies(s) = IF Trailer(s)[p] THEN {f} ELSE {}

\* In the size of the chunk at p, or behind it in the same line.
InSize(s, c, st, sz, p) ==
    \/ st = 0 /\ p = c + 1
    \/ st = 1 /\ SizeAt(s, p, c + 1, c + 1) /\ sz = SizeOf(s, p, c + 1)
    \/ \E n \in Nat : st = 2 /\ n <= c /\ SizeAt(s, p, n, c + 1) /\ sz = SizeOf(s, p, n)
    \/ \E n \in Nat : st = 3 /\ SizeAt(s, p, n, c) /\ s[c] = "CR" /\ sz = SizeOf(s, p, n)

\* The line of the size ends at j and announces count characters.
Sized(s, p, n, j, count) ==
    SizeAt(s, p, n, j) /\ LineEnd(s, j) /\ SizeOf(s, p, n) = count /\ count > 0

\* In the count characters behind j, or in the line end behind these.
InData(s, c, st, sz, j, count, e) ==
    \/ st = 4 /\ sz > 0 /\ j < c /\ c + sz = j + 1 + count /\ e = SubSeq(s, j + 2, c)
    \/ st = 5 /\ c = j + 1 + count /\ e = SubSeq(s, j + 2, c)
    \/ st = 6 /\ c = j + 2 + count /\ s[c] = "CR" /\ e = SubSeq(s, j + 2, c - 1)

\* In a line of the trailer that begins at p.
InTrailer(s, c, st, p) ==
    \/ st = 7 /\ p = c + 1
    \/ st = 8 /\ p <= c /\ \A k \in p .. c : s[k] \in Text
    \/ st = 9 /\ p < c /\ (\A k \in p .. (c - 1) : s[k] \in Text) /\ s[c] = "CR"
    \/ st = 10 /\ p = c /\ s[c] = "CR"

ReadSize(s, c, st, sz, d) ==
    \E p \in Nat \ {0} : ChunksFrom(s, p, d) /\ InSize(s, c, st, sz, p)
ReadData(s, c, st, sz, d) ==
    \E p \in Nat \ {0}, n \in Nat, j \in Nat, count \in Nat, f \in Seq(Sign), e \in Seq(Sign) :
        /\ ChunksFrom(s, p, f) /\ d = f \o e
        /\ Sized(s, p, n, j, count) /\ InData(s, c, st, sz, j, count, e)
ReadTrailer(s, c, st, d) ==
    \E p \in Nat \ {0} : TrailerFrom(s, p, d) /\ InTrailer(s, c, st, p)

Read(s, c, st, sz, d) ==
    ReadSize(s, c, st, sz, d) \/ ReadData(s, c, st, sz, d) \/ ReadTrailer(s, c, st, d)

\* The character h is not accepted in the state st.
Stops(st, h) ==
    /\ st \in {0, 1} => h \notin Digit
    /\ st = 1 => h \notin AfterSize
    /\ st = 2 => h # "CR"
    /\ st = 2 => h \notin Text
    /\ st = 5 => h # "CR"
    /\ st \in {7, 8} => h \notin Text
    /\ st \in {7, 8} => h # "CR"
    /\ st \in {3, 6, 9, 10} => h # "LF"
    /\ st # 4

\* The string ends at c, or goes on there with what is not accepted.
Stuck(s, c, st) == c = Len(s) \/ Stops(st, s[c + 1])

\* The places of a size.
LEMMA SizeAtPlaces ==
    ASSUME NEW s, NEW p \in Nat \ {0}, NEW n, NEW j, SizeAt(s, p, n, j)
    PROVE  j \in Nat /\ n \in Nat /\ p < n /\ n <= j
<1>1. j \in Nat
  BY DEF SizeAt
<1>2. n \in (p + 1) .. j
  BY DEF SizeAt
<1>3. QED
  BY <1>1, <1>2

\* A string that stops in a size, or goes on there with what is not accepted.
LEMMA StuckInSize ==
    ASSUME NEW s \in Seq(Sign), NEW c \in Nat, c <= Len(s), NEW st, NEW sz, NEW d,
           ReadSize(s, c, st, sz, d), Stuck(s, c, st)
    PROVE  Bodies(s) = {}
<1>1. PICK p \in Nat \ {0} : ChunksFrom(s, p, d) /\ InSize(s, c, st, sz, p)
  BY DEF ReadSize
<1>2. p <= c + 1
  <2>1. CASE st = 0
    BY <1>1, <2>1 DEF InSize
  <2>2. CASE st # 0
    <3>1. \E n : SizeAt(s, p, n, c + 1) \/ SizeAt(s, p, n, c)
      BY <1>1, <2>2 DEF InSize
    <3>2. QED
      BY <3>1, SizeAtPlaces
  <2>3. QED
    BY <2>1, <2>2
<1>3. Len(s) \in Nat
  OBVIOUS
<1>4. PICK z \in Nat : z = c + 1
  OBVIOUS
<1>5. z <= Len(s) => Stops(st, s[z])
  BY <1>3, <1>4 DEF Stuck
<1>6. Chunks(s)[p] = {}
  <2>1. CASE st = 0
    <3>1. p = z
      BY <1>1, <1>4, <2>1 DEF InSize
    <3>2. z <= Len(s) => s[z] \notin Digit
      BY <1>5, <2>1 DEF Stops
    <3>3. p <= z /\ p <= Len(s) + 1 /\ p .. (z - 1) = {}
      BY <1>3, <1>4, <3>1
    <3>4. QED
      BY <3>1, <3>2, <3>3, NoSize
  <2>2. CASE st = 1
    <3>1. SizeAt(s, p, z, z)
      BY <1>1, <1>4, <2>2 DEF InSize
    <3>2. z <= Len(s) => s[z] \notin Digit /\ s[z] \notin AfterSize
      BY <1>5, <2>2 DEF Stops
    <3>3. \A k \in p .. (z - 1) : s[k] \in Digit
      BY <3>1 DEF SizeAt
    <3>4. p <= z /\ p <= Len(s) + 1
      BY <1>2, <1>3, <1>4
    <3>5. QED
      BY <3>2, <3>3, <3>4, NoSize
  <2>3. CASE st \notin {0, 1}
    <3> SUFFICES LineEnds(s, p) = {}
      <4>1. p \in 1 .. (Len(s) + 1)
        BY <1>2, <1>3
      <4>2. QED
        BY <4>1, NoChunk
    <3>1. CASE st = 2
      <4>1. PICK n \in Nat : SizeAt(s, p, n, z)
        BY <1>1, <1>4, <3>1 DEF InSize
      <4>2. \A k \in p .. (z - 1) : s[k] \in Text
        BY <4>1 DEF SizeAt
      <4>3. z <= Len(s) => s[z] \notin Text
        BY <1>5, <3>1 DEF Stops
      <4>4. ~ LineEnd(s, z)
        <5>1. z <= Len(s) => s[z] # "CR"
          BY <1>5, <3>1 DEF Stops
        <5>2. QED
          BY <1>3, <5>1 DEF LineEnd
      <4>5. p <= z
        BY <1>2, <1>4
      <4>6. QED
        BY <4>2, <4>3, <4>4, <4>5, NoLineEnd
    <3>2. CASE st = 3
      <4>1. PICK n \in Nat : SizeAt(s, p, n, c) /\ s[c] = "CR"
        BY <1>1, <3>2 DEF InSize
      <4>2. p <= c /\ \A k \in p .. (c - 1) : s[k] \in Text
        <5>1. \A k \in p .. (c - 1) : s[k] \in Text
          BY <4>1 DEF SizeAt
        <5>2. QED
          BY <4>1, <5>1, SizeAtPlaces
      <4>3. s[c] \notin Text
        BY <4>1, Characters
      <4>4. ~ LineEnd(s, c)
        <5>1. z <= Len(s) => s[z] # "LF"
          BY <1>5, <3>2 DEF Stops
        <5>2. QED
          BY <1>3, <1>4, <5>1 DEF LineEnd
      <4>5. QED
        BY <4>2, <4>3, <4>4, NoLineEnd
    <3>3. QED
      BY <1>1, <2>3, <3>1, <3>2 DEF InSize
  <2>4. QED
    BY <2>1, <2>2, <2>3
<1>7. QED
  BY <1>1, <1>6 DEF ChunksFrom

\* The same in the data of a chunk, or in the line end behind it.
LEMMA StuckInData ==
    ASSUME NEW s \in Seq(Sign), NEW c \in Nat, c <= Len(s), NEW st, NEW sz \in Nat, NEW d,
           ReadData(s, c, st, sz, d), Stuck(s, c, st)
    PROVE  Bodies(s) = {}
<1>1. PICK p \in Nat \ {0}, n \in Nat, j \in Nat, count \in Nat, f \in Seq(Sign), e \in Seq(Sign) :
         ChunksFrom(s, p, f) /\ Sized(s, p, n, j, count) /\ InData(s, c, st, sz, j, count, e)
  BY DEF ReadData
<1>2. Len(s) \in Nat
  OBVIOUS
<1>3. PICK z \in Nat : z = c + 1
  OBVIOUS
<1>4. z <= Len(s) => Stops(st, s[z])
  BY <1>2, <1>3 DEF Stuck
<1>5. PICK k \in Nat : k = j + 2 + count
  OBVIOUS
<1>6. ~ LineEnd(s, k)
  <2>1. CASE st = 4
    <3>1. c = Len(s)
      BY <2>1 DEF Stuck, Stops
    <3>2. c + sz = j + 1 + count /\ sz > 0
      BY <1>1, <2>1 DEF InData
    <3>3. k > Len(s)
      BY <1>5, <3>1, <3>2
    <3>4. QED
      BY <1>2, <3>3 DEF LineEnd
  <2>2. CASE st = 5
    <3>1. c = j + 1 + count
      BY <1>1, <2>2 DEF InData
    <3>2. z = k
      BY <1>3, <1>5, <3>1
    <3>3. z <= Len(s) => s[z] # "CR"
      BY <1>4, <2>2 DEF Stops
    <3>4. QED
      BY <1>2, <3>2, <3>3 DEF LineEnd
  <2>3. CASE st = 6
    <3>1. c = j + 2 + count
      BY <1>1, <2>3 DEF InData
    <3>2. z = k + 1
      BY <1>3, <1>5, <3>1
    <3>3. z <= Len(s) => s[z] # "LF"
      BY <1>4, <2>3 DEF Stops
    <3>4. QED
      BY <1>2, <3>2, <3>3 DEF LineEnd
  <2>4. QED
    BY <1>1, <2>1, <2>2, <2>3 DEF InData
<1>7. Chunks(s)[p] = ChunkStep(s, count, j + 2, Chunks(s))
  BY <1>1, OneChunk DEF Sized
<1>8. ChunkStep(s, count, j + 2, Chunks(s)) = {}
  <2>1. count # 0
    BY <1>1 DEF Sized
  <2>2. ~ LineEnd(s, j + 2 + count)
    BY <1>5, <1>6
  <2>3. QED
    BY <2>1, <2>2 DEF ChunkStep
<1>9. QED
  BY <1>1, <1>7, <1>8 DEF ChunksFrom

\* The same in the trailer.
LEMMA StuckInTrailer ==
    ASSUME NEW s \in Seq(Sign), NEW c \in Nat, c <= Len(s), NEW st, NEW d,
           ReadTrailer(s, c, st, d), Stuck(s, c, st)
    PROVE  Bodies(s) = {}
<1>1. PICK p \in Nat \ {0} : TrailerFrom(s, p, d) /\ InTrailer(s, c, st, p)
  BY DEF ReadTrailer
<1>2. Len(s) \in Nat
  OBVIOUS
<1>3. p <= c + 1
  BY <1>1 DEF InTrailer
<1>4. PICK z \in Nat : z = c + 1
  OBVIOUS
<1>5. z <= Len(s) => Stops(st, s[z])
  BY <1>2, <1>4 DEF Stuck
<1>6. LineEnds(s, p) = {}
  <2>1. CASE st \in {7, 8}
    <3>1. \A k \in p .. (z - 1) : s[k] \in Text
      BY <1>1, <1>4, <2>1 DEF InTrailer
    <3>2. z <= Len(s) => s[z] \notin Text
      BY <1>5, <2>1 DEF Stops
    <3>3. ~ LineEnd(s, z)
      <4>1. z <= Len(s) => s[z] # "CR"
        BY <1>5, <2>1 DEF Stops
      <4>2. QED
        BY <1>2, <4>1 DEF LineEnd
    <3>4. p <= z
      BY <1>3, <1>4
    <3>5. QED
      BY <3>1, <3>2, <3>3, <3>4, NoLineEnd
  <2>2. CASE st \in {9, 10}
    <3>1. p <= c /\ s[c] = "CR"
      BY <1>1, <2>2 DEF InTrailer
    <3>2. \A k \in p .. (c - 1) : s[k] \in Text
      BY <1>1, <2>2 DEF InTrailer
    <3>3. s[c] \notin Text
      BY <3>1, Characters
    <3>4. ~ LineEnd(s, c)
      <4>1. z <= Len(s) => s[z] # "LF"
        BY <1>5, <2>2 DEF Stops
      <4>2. QED
        BY <1>2, <1>4, <4>1 DEF LineEnd
    <3>5. QED
      BY <3>1, <3>2, <3>3, <3>4, NoLineEnd
  <2>3. QED
    BY <1>1, <2>1, <2>2 DEF InTrailer
<1>7. ~ Trailer(s)[p]
  <2>1. p \in 1 .. (Len(s) + 1)
    BY <1>2, <1>3
  <2>2. QED
    BY <1>6, <2>1, NoTrailer
<1>8. QED
  BY <1>1, <1>7 DEF TrailerFrom

\* A string in which the parser stops, or that ends there, is no body.
LEMMA StuckIsNoBody ==
    ASSUME NEW s \in Seq(Sign), NEW c \in Nat, c <= Len(s), NEW st, NEW sz \in Nat, NEW d,
           Read(s, c, st, sz, d), Stuck(s, c, st)
    PROVE  Bodies(s) = {}
BY StuckInSize, StuckInData, StuckInTrailer DEF Read

----------------------------------------------------------------------------
(***************************************************************************)
(* One character more.                                                     *)
(***************************************************************************)
LEMMA SizeGrows ==
    ASSUME NEW s \in Seq(Sign), NEW p \in Nat \ {0}, NEW n \in Nat, p <= n, n <= Len(s)
    PROVE  SizeOf(s, p, n + 1) = SizeOf(s, p, n) * Base + Value(s[n])
<1> DEFINE t == SubSeq(s, p, n - 1)
           u == SubSeq(s, p, n)
<1>1. PICK m \in Nat : m = n - p
  OBVIOUS
<1>2. Len(t) = m /\ Len(u) = m + 1
  BY <1>1
<1>3. \A k \in 1 .. m : t[k] = s[p + k - 1] /\ u[k] = s[p + k - 1]
  BY <1>1
<1>4. u[m + 1] = s[n]
  BY <1>1
<1>5. SizeOf(s, p, n) = Number(t) /\ SizeOf(s, p, n + 1) = Number(u)
  <2>1. n + 1 - 1 = n
    OBVIOUS
  <2>2. QED
    BY <2>1 DEF SizeOf
<1> HIDE DEF t, u
<1>6. m \in Nat /\ Len(t) = m /\ Len(u) = m + 1 /\ \A k \in 1 .. m : t[k] = u[k]
  BY <1>2, <1>3
<1>7. Number(u) = Number(t) * Base + Value(u[m + 1])
  BY ONLY <1>6, NumberGrows
<1>8. QED
  BY <1>4, <1>5, <1>7

\* The first digit of a size, or one more.
LEMMA DigitInSize ==
    ASSUME NEW s \in Seq(Sign), NEW c \in Nat, c < Len(s), NEW st \in {0, 1}, NEW sz \in Nat, NEW d,
           ReadSize(s, c, st, sz, d), s[c + 1] \in Digit
    PROVE  ReadSize(s, c + 1, 1, (IF st = 0 THEN 0 ELSE sz * Base) + Value(s[c + 1]), d)
<1>1. PICK p \in Nat \ {0} : ChunksFrom(s, p, d) /\ InSize(s, c, st, sz, p)
  BY DEF ReadSize
<1>2. PICK z \in Nat : z = c + 1
  OBVIOUS
<1>3. s[z] \in Digit /\ s[z] \in Text /\ z <= Len(s)
  <2>1. Len(s) \in Nat
    OBVIOUS
  <2>2. s[z] \in Digit /\ z <= Len(s)
    BY <1>2, <2>1
  <2>3. QED
    BY <2>2, Characters
<1> DEFINE new == (IF st = 0 THEN 0 ELSE sz * Base) + Value(s[z])
<1>4. p <= z /\ (\A k \in p .. (z - 1) : s[k] \in Digit) /\ new = SizeOf(s, p, z) * Base + Value(s[z])
  <2>1. CASE st = 0
    <3>1. p = z
      BY <1>1, <1>2, <2>1 DEF InSize
    <3>2. SizeOf(s, p, z) = 0
      <4>1. p \in Int /\ p - 1 \in Int /\ p - 1 < p
        OBVIOUS
      <4>2. SubSeq(s, p, p - 1) = <<>>
        BY ONLY <4>1, SubSeqEmpty
      <4>3. QED
        BY <3>1, <4>2, NumberOfNone DEF SizeOf
    <3>3. 0 * Base = 0
      <4>1. Base \in Nat
        BY ChunkedParserAssumption
      <4>2. QED
        BY <4>1
    <3>4. QED
      BY <2>1, <3>1, <3>2, <3>3
  <2>2. CASE st = 1
    <3>1. SizeAt(s, p, z, z) /\ sz = SizeOf(s, p, z)
      BY <1>1, <1>2, <2>2 DEF InSize
    <3>2. \A k \in p .. (z - 1) : s[k] \in Digit
      BY <3>1 DEF SizeAt
    <3>3. p <= z
      BY <3>1, SizeAtPlaces
    <3>4. QED
      BY <2>2, <3>1, <3>2, <3>3
  <2>3. QED
    BY <2>1, <2>2
<1>5. new = SizeOf(s, p, z + 1)
  BY <1>3, <1>4, SizeGrows
<1>6. SizeAt(s, p, z + 1, z + 1)
  <2>1. \A k \in p .. (z + 1 - 1) : s[k] \in Digit
    BY <1>3, <1>4
  <2>2. \A k \in p .. (z + 1 - 1) : s[k] \in Text
    BY <2>1, Characters
  <2>3. z + 1 \in Nat /\ z + 1 \in (p + 1) .. (z + 1)
    BY <1>4
  <2>4. QED
    BY <2>1, <2>2, <2>3 DEF SizeAt
<1>7. InSize(s, z, 1, new, p)
  BY <1>5, <1>6 DEF InSize
<1>8. QED
  BY <1>1, <1>2, <1>7 DEF ReadSize

\* The blank behind a size, and the extension behind it.
LEMMA TextInSize ==
    ASSUME NEW s \in Seq(Sign), NEW c \in Nat, c < Len(s), NEW st \in {1, 2}, NEW sz \in Nat, NEW d,
           ReadSize(s, c, st, sz, d), s[c + 1] \in Text, st = 1 => s[c + 1] \in Blank
    PROVE  ReadSize(s, c + 1, 2, sz, d)
<1>1. PICK p \in Nat \ {0} : ChunksFrom(s, p, d) /\ InSize(s, c, st, sz, p)
  BY DEF ReadSize
<1>2. PICK z \in Nat : z = c + 1
  OBVIOUS
<1>3. s[z] \in Text /\ (st = 1 => s[z] \in Blank)
  BY <1>2
<1>4. PICK n \in Nat : n <= z /\ SizeAt(s, p, n, z) /\ sz = SizeOf(s, p, n) /\ (n = z => s[z] \in Blank)
  <2>1. CASE st = 1
    BY <1>1, <1>2, <1>3, <2>1 DEF InSize
  <2>2. CASE st = 2
    BY <1>1, <1>2, <2>2 DEF InSize
  <2>3. QED
    BY <2>1, <2>2
<1>5. SizeAt(s, p, n, z + 1)
  <2>1. \A k \in p .. (z - 1) : s[k] \in Text
    BY <1>4 DEF SizeAt
  <2>2. \A k \in p .. (z + 1 - 1) : s[k] \in Text
    BY <1>3, <2>1
  <2>3. \A k \in p .. (n - 1) : s[k] \in Digit
    BY <1>4 DEF SizeAt
  <2>4. s[n] \in Blank
    BY <1>4 DEF SizeAt
  <2>5. n \in (p + 1) .. (z + 1) /\ z + 1 \in Nat
    BY <1>4, SizeAtPlaces
  <2>6. QED
    BY <2>2, <2>3, <2>4, <2>5 DEF SizeAt
<1>6. InSize(s, z, 2, sz, p)
  BY <1>4, <1>5 DEF InSize
<1>7. QED
  BY <1>1, <1>2, <1>6 DEF ReadSize

\* The carriage return behind a size.
LEMMA ReturnInSize ==
    ASSUME NEW s \in Seq(Sign), NEW c \in Nat, c < Len(s), NEW st \in {1, 2}, NEW sz \in Nat, NEW d,
           ReadSize(s, c, st, sz, d), s[c + 1] = "CR"
    PROVE  ReadSize(s, c + 1, 3, sz, d)
<1>1. PICK p \in Nat \ {0} : ChunksFrom(s, p, d) /\ InSize(s, c, st, sz, p)
  BY DEF ReadSize
<1>2. PICK z \in Nat : z = c + 1
  OBVIOUS
<1>3. PICK n \in Nat : SizeAt(s, p, n, z) /\ sz = SizeOf(s, p, n)
  <2>1. CASE st = 1
    BY <1>1, <1>2, <2>1 DEF InSize
  <2>2. CASE st = 2
    BY <1>1, <1>2, <2>2 DEF InSize
  <2>3. QED
    BY <2>1, <2>2
<1>4. InSize(s, z, 3, sz, p)
  BY <1>2, <1>3 DEF InSize
<1>5. QED
  BY <1>1, <1>2, <1>4 DEF ReadSize

\* The size ends: there is data to come, or the trailer.
LEMMA LineFeedInSize ==
    ASSUME NEW s \in Seq(Sign), NEW c \in Nat, c < Len(s), NEW sz \in Nat, NEW d \in Seq(Sign),
           ReadSize(s, c, 3, sz, d), s[c + 1] = "LF"
    PROVE  /\ sz > 0 => ReadData(s, c + 1, 4, sz, d)
           /\ sz = 0 => ReadTrailer(s, c + 1, 7, d)
<1>1. PICK p \in Nat \ {0} : ChunksFrom(s, p, d) /\ InSize(s, c, 3, sz, p)
  BY DEF ReadSize
<1>2. PICK n \in Nat : SizeAt(s, p, n, c) /\ s[c] = "CR" /\ sz = SizeOf(s, p, n)
  BY <1>1 DEF InSize
<1>3. Len(s) \in Nat
  OBVIOUS
<1>4. LineEnd(s, c)
  BY <1>2, <1>3 DEF LineEnd
<1>5. ASSUME sz > 0 PROVE ReadData(s, c + 1, 4, sz, d)
  <2>1. Sized(s, p, n, c, sz)
    BY <1>2, <1>4, <1>5 DEF Sized
  <2>2. SubSeq(s, c + 2, c + 1) = <<>>
    <3>1. c + 2 \in Int /\ c + 1 \in Int /\ c + 1 < c + 2
      OBVIOUS
    <3>2. QED
      BY ONLY <3>1, SubSeqEmpty
  <2>3. InData(s, c + 1, 4, sz, c, sz, <<>>)
    BY <1>5, <2>2 DEF InData
  <2>4. d = d \o <<>> /\ <<>> \in Seq(Sign)
    BY ConcatEmptySeq
  <2>5. QED
    BY <1>1, <2>1, <2>3, <2>4 DEF ReadData
<1>6. ASSUME sz = 0 PROVE ReadTrailer(s, c + 1, 7, d)
  <2>1. Chunks(s)[p] = ChunkStep(s, sz, c + 2, Chunks(s))
    BY <1>2, <1>4, OneChunk
  <2>2. Chunks(s)[p] = IF Trailer(s)[c + 2] THEN {<<>>} ELSE {}
    BY <1>6, <2>1 DEF ChunkStep
  <2>3. d \o <<>> = d
    BY ConcatEmptySeq
  <2>4. Bodies(s) = IF Trailer(s)[c + 2] THEN {d} ELSE {}
    <3>1. CASE Trailer(s)[c + 2]
      BY <1>1, <2>2, <2>3, <3>1 DEF ChunksFrom
    <3>2. CASE ~ Trailer(s)[c + 2]
      BY <1>1, <2>2, <3>2 DEF ChunksFrom
    <3>3. QED
      BY <3>1, <3>2
  <2>5. TrailerFrom(s, c + 2, d) /\ InTrailer(s, c + 1, 7, c + 2) /\ c + 2 \in Nat \ {0}
    BY <2>4 DEF TrailerFrom, InTrailer
  <2>6. QED
    BY <2>5 DEF ReadTrailer
<1>7. QED
  BY <1>5, <1>6

\* Three strings one after the other.
LEMMA ThreeStrings ==
    \A a, b, c \in Seq(Sign) : (a \o b) \o c = a \o (b \o c)
<1> TAKE a, b, c \in Seq(Sign)
<1>1. a \in Seq(Sign) /\ b \in Seq(Sign) /\ c \in Seq(Sign)
  OBVIOUS
<1>2. QED
  BY ONLY <1>1, ConcatAssociative

\* Some of the data, and the rest of it if that is all that is missing.
LEMMA DataOfChunk ==
    ASSUME NEW s \in Seq(Sign), NEW c \in Nat, NEW sz \in Nat, NEW d, NEW m \in Nat,
           ReadData(s, c, 4, sz, d), m <= sz, c + m <= Len(s)
    PROVE  /\ m < sz => ReadData(s, c + m, 4, sz - m, d \o SubSeq(s, c + 1, c + m))
           /\ m = sz => \A any : ReadData(s, c + m, 5, any, d \o SubSeq(s, c + 1, c + m))
<1>1. PICK p \in Nat \ {0}, n \in Nat, j \in Nat, count \in Nat, f \in Seq(Sign), e \in Seq(Sign) :
        /\ ChunksFrom(s, p, f) /\ d = f \o e
        /\ Sized(s, p, n, j, count) /\ InData(s, c, 4, sz, j, count, e)
  BY DEF ReadData
<1>2. sz > 0 /\ j < c /\ c + sz = j + 1 + count /\ e = SubSeq(s, j + 2, c)
  BY <1>1 DEF InData
<1> DEFINE u == SubSeq(s, c + 1, c + m)
           v == SubSeq(s, j + 2, c + m)
<1>3. Len(s) \in Nat
  OBVIOUS
<1>4. e \o u = v
  <2>1. j + 2 \in 1 .. (Len(s) + 1) /\ c \in (j + 2 - 1) .. Len(s) /\ c + m \in c .. Len(s)
    BY <1>2, <1>3
  <2>2. SubSeq(s, j + 2, c) \o SubSeq(s, c + 1, c + m) = SubSeq(s, j + 2, c + m)
    BY ONLY s \in Seq(Sign), <2>1, ConcatAdjacentSubSeq
  <2>3. QED
    BY <1>2, <2>2
<1>5. u \in Seq(Sign) /\ v \in Seq(Sign)
  BY <1>2, <1>3
<1> HIDE DEF u, v
<1>6. d \o u = f \o v
  <2>1. f \in Seq(Sign) /\ e \in Seq(Sign) /\ u \in Seq(Sign)
    BY <1>5
  <2>2. (f \o e) \o u = f \o (e \o u)
    BY ONLY <2>1, ThreeStrings
  <2>3. QED
    BY <1>1, <1>4, <2>2
<1>7. m < sz => InData(s, c + m, 4, sz - m, j, count, v)
  BY <1>2 DEF InData, v
<1>8. m = sz => \A any : InData(s, c + m, 5, any, j, count, v)
  BY <1>2 DEF InData, v
<1>9. QED
  BY <1>1, <1>5, <1>6, <1>7, <1>8 DEF ReadData, u

\* The carriage return behind the data.
LEMMA ReturnAfterData ==
    ASSUME NEW s \in Seq(Sign), NEW c \in Nat, c < Len(s), NEW sz \in Nat, NEW d,
           ReadData(s, c, 5, sz, d), s[c + 1] = "CR"
    PROVE  ReadData(s, c + 1, 6, sz, d)
<1>1. PICK p \in Nat \ {0}, n \in Nat, j \in Nat, count \in Nat, f \in Seq(Sign), e \in Seq(Sign) :
        /\ ChunksFrom(s, p, f) /\ d = f \o e
        /\ Sized(s, p, n, j, count) /\ InData(s, c, 5, sz, j, count, e)
  BY DEF ReadData
<1>2. c = j + 1 + count /\ e = SubSeq(s, j + 2, c)
  BY <1>1 DEF InData
<1>3. c + 1 = j + 2 + count /\ c + 1 - 1 = c
  BY <1>2
<1>4. InData(s, c + 1, 6, sz, j, count, e)
  BY <1>2, <1>3 DEF InData
<1>5. QED
  BY <1>1, <1>4 DEF ReadData

\* The next chunk begins behind the line end.
LEMMA LineFeedAfterData ==
    ASSUME NEW s \in Seq(Sign), NEW c \in Nat, c < Len(s), NEW sz \in Nat, NEW d,
           ReadData(s, c, 6, sz, d), s[c + 1] = "LF"
    PROVE  ReadSize(s, c + 1, 0, sz, d)
<1>1. PICK p \in Nat \ {0}, n \in Nat, j \in Nat, count \in Nat, f \in Seq(Sign), e \in Seq(Sign) :
        /\ ChunksFrom(s, p, f) /\ d = f \o e
        /\ Sized(s, p, n, j, count) /\ InData(s, c, 6, sz, j, count, e)
  BY DEF ReadData
<1>2. c = j + 2 + count /\ s[c] = "CR" /\ e = SubSeq(s, j + 2, c - 1)
  BY <1>1 DEF InData
<1>3. Len(s) \in Nat
  OBVIOUS
<1>4. Chunks(s)[p] = ChunkStep(s, count, j + 2, Chunks(s)) /\ count # 0
  BY <1>1, OneChunk DEF Sized
<1>5. LineEnd(s, j + 2 + count)
  BY <1>2, <1>3 DEF LineEnd
<1>6. j + 2 + count - 1 = c - 1 /\ j + 2 + count + 2 = c + 2
  BY <1>2
<1>7. Chunks(s)[p] = {e \o g : g \in Chunks(s)[c + 2]}
  BY <1>2, <1>4, <1>5, <1>6 DEF ChunkStep
<1>8. Chunks(s)[c + 2] \in SUBSET Seq(Sign)
  <2>1. c + 2 \in 1 .. (Len(s) + 1)
    BY <1>3
  <2>2. QED
    BY <2>1, ChunksAre
<1>9. ASSUME NEW g \in Chunks(s)[c + 2] PROVE f \o (e \o g) = d \o g
  <2>1. f \in Seq(Sign) /\ e \in Seq(Sign) /\ g \in Seq(Sign)
    BY <1>8
  <2>2. (f \o e) \o g = f \o (e \o g)
    BY ONLY <2>1, ThreeStrings
  <2>3. QED
    BY <1>1, <2>2
<1>10. Bodies(s) = {d \o g : g \in Chunks(s)[c + 2]}
  <2>1. Bodies(s) = {f \o h : h \in {e \o g : g \in Chunks(s)[c + 2]}}
    BY <1>1, <1>7 DEF ChunksFrom
  <2>2. Bodies(s) = {f \o (e \o g) : g \in Chunks(s)[c + 2]}
    BY <2>1
  <2>3. QED
    BY <1>9, <2>2
<1>11. ChunksFrom(s, c + 2, d) /\ InSize(s, c + 1, 0, sz, c + 2) /\ c + 2 \in Nat \ {0}
  BY <1>10 DEF ChunksFrom, InSize
<1>12. QED
  BY <1>11 DEF ReadSize

\* Text in a line of the trailer, and the carriage return behind it.
LEMMA InALineOfTheTrailer ==
    ASSUME NEW s \in Seq(Sign), NEW c \in Nat, c < Len(s), NEW st, NEW d, ReadTrailer(s, c, st, d)
    PROVE  /\ st \in {7, 8} /\ s[c + 1] \in Text => ReadTrailer(s, c + 1, 8, d)
           /\ st = 7 /\ s[c + 1] = "CR" => ReadTrailer(s, c + 1, 10, d)
           /\ st = 8 /\ s[c + 1] = "CR" => ReadTrailer(s, c + 1, 9, d)
<1>1. PICK p \in Nat \ {0} : TrailerFrom(s, p, d) /\ InTrailer(s, c, st, p)
  BY DEF ReadTrailer
<1>2. PICK z \in Nat : z = c + 1
  OBVIOUS
<1>3. ASSUME st \in {7, 8}, s[z] \in Text PROVE ReadTrailer(s, z, 8, d)
  <2>1. p <= z /\ \A k \in p .. (z - 1) : s[k] \in Text
    BY <1>1, <1>2, <1>3 DEF InTrailer
  <2>2. \A k \in p .. z : s[k] \in Text
    BY <1>3, <2>1
  <2>3. InTrailer(s, z, 8, p)
    BY <2>1, <2>2 DEF InTrailer
  <2>4. QED
    BY <1>1, <2>3 DEF ReadTrailer
<1>4. ASSUME st = 7, s[z] = "CR" PROVE ReadTrailer(s, z, 10, d)
  <2>1. InTrailer(s, z, 10, p)
    BY <1>1, <1>2, <1>4 DEF InTrailer
  <2>2. QED
    BY <1>1, <2>1 DEF ReadTrailer
<1>5. ASSUME st = 8, s[z] = "CR" PROVE ReadTrailer(s, z, 9, d)
  <2>1. p < z /\ \A k \in p .. (z - 1) : s[k] \in Text
    BY <1>1, <1>2, <1>5 DEF InTrailer
  <2>2. InTrailer(s, z, 9, p)
    BY <1>5, <2>1 DEF InTrailer
  <2>3. QED
    BY <1>1, <2>2 DEF ReadTrailer
<1>6. QED
  BY <1>2, <1>3, <1>4, <1>5

\* The next line of the trailer.
LEMMA LineFeedInTrailer ==
    ASSUME NEW s \in Seq(Sign), NEW c \in Nat, c < Len(s), NEW d,
           ReadTrailer(s, c, 9, d), s[c + 1] = "LF"
    PROVE  ReadTrailer(s, c + 1, 7, d)
<1>1. PICK p \in Nat \ {0} : TrailerFrom(s, p, d) /\ InTrailer(s, c, 9, p)
  BY DEF ReadTrailer
<1>2. p < c /\ (\A k \in p .. (c - 1) : s[k] \in Text) /\ s[c] = "CR"
  BY <1>1 DEF InTrailer
<1>3. Len(s) \in Nat
  OBVIOUS
<1>4. LineEnd(s, c)
  BY <1>2, <1>3 DEF LineEnd
<1>5. LineEnds(s, p) = {c}
  BY <1>2, <1>4, OneLineEnd
<1>6. ~ LineEnd(s, p)
  <2>1. p \in p .. (c - 1)
    BY <1>2
  <2>2. s[p] \in Text
    BY <1>2, <2>1
  <2>3. QED
    BY <2>2, Characters DEF LineEnd
<1>7. Trailer(s)[p] = TrailerStep(s, p, Trailer(s))
  <2>1. p \in 1 .. (Len(s) + 1)
    BY <1>2, <1>3
  <2>2. QED
    BY <1>3, <2>1, TrailerIs
<1>8. TrailerStep(s, p, Trailer(s)) <=> Trailer(s)[c + 2]
  BY <1>2, <1>5, <1>6 DEF TrailerStep
<1>9. Bodies(s) = IF Trailer(s)[c + 2] THEN {d} ELSE {}
  <2>1. Bodies(s) = IF Trailer(s)[p] THEN {d} ELSE {}
    BY <1>1 DEF TrailerFrom
  <2>2. QED
    BY <1>7, <1>8, <2>1
<1>10. TrailerFrom(s, c + 2, d) /\ InTrailer(s, c + 1, 7, c + 2) /\ c + 2 \in Nat \ {0}
  BY <1>9 DEF TrailerFrom, InTrailer
<1>11. QED
  BY <1>10 DEF ReadTrailer

\* The body ends with the character c.
Ended(s, c, d) == \E p \in Nat \ {0} : TrailerFrom(s, p, d) /\ LineEnd(s, p) /\ c = p + 1

\* The line feed of the empty line.
LEMMA LineFeedAtTheEnd ==
    ASSUME NEW s \in Seq(Sign), NEW c \in Nat, c < Len(s), NEW d,
           ReadTrailer(s, c, 10, d), s[c + 1] = "LF"
    PROVE  Ended(s, c + 1, d)
<1>1. PICK p \in Nat \ {0} : TrailerFrom(s, p, d) /\ InTrailer(s, c, 10, p)
  BY DEF ReadTrailer
<1>2. p = c /\ s[c] = "CR"
  BY <1>1 DEF InTrailer
<1>3. Len(s) \in Nat
  OBVIOUS
<1>4. LineEnd(s, p)
  BY <1>2, <1>3 DEF LineEnd
<1>5. QED
  BY <1>1, <1>2, <1>4 DEF Ended

\* A string that ends where the body does is one.
LEMMA EndedIsBody ==
    ASSUME NEW s \in Seq(Sign), NEW d, Ended(s, Len(s), d)
    PROVE  Bodies(s) = {d}
<1>1. PICK p \in Nat \ {0} : TrailerFrom(s, p, d) /\ LineEnd(s, p) /\ Len(s) = p + 1
  BY DEF Ended
<1>2. Len(s) \in Nat /\ p \in 1 .. (Len(s) + 1)
  BY <1>1
<1>3. Trailer(s)[p] = TrailerStep(s, p, Trailer(s))
  BY <1>2, TrailerIs
<1>4. TrailerStep(s, p, Trailer(s))
  BY <1>1 DEF TrailerStep
<1>5. QED
  BY <1>1, <1>3, <1>4 DEF TrailerFrom

----------------------------------------------------------------------------
(***************************************************************************)
(* The transitions, one by one.                                            *)
(***************************************************************************)
Return == {"CR"}
LineFeed == {"LF"}

\* Every transition is one of these.
LEMMA TransitionIs ==
    ASSUME NEW t \in Transitions
    PROVE  \/ t.from \in {0, 1} /\ t.on \in Digit /\ t.to = 1
           \/ t.from \in {1} /\ t.on \in Blank /\ t.to = 2
           \/ t.from \in {1, 2} /\ t.on \in Return /\ t.to = 3
           \/ t.from \in {2} /\ t.on \in Text /\ t.to = 2
           \/ t.from \in {5} /\ t.on \in Return /\ t.to = 6
           \/ t.from \in {6} /\ t.on \in LineFeed /\ t.to = 0
           \/ t.from \in {7, 8} /\ t.on \in Text /\ t.to = 8
           \/ t.from \in {7} /\ t.on \in Return /\ t.to = 10
           \/ t.from \in {8} /\ t.on \in Return /\ t.to = 9
           \/ t.from \in {9} /\ t.on \in LineFeed /\ t.to = 7
<1> DEFINE A(from, on, to) == [from : from, on : on, to : {to}]
<1>1. \/ t \in A({0, 1}, Digit, 1)
      \/ t \in A({1}, Blank, 2)
      \/ t \in A({1, 2}, Return, 3)
      \/ t \in A({2}, Text, 2)
      \/ t \in A({5}, Return, 6)
      \/ t \in A({6}, LineFeed, 0)
      \/ t \in A({7, 8}, Text, 8)
      \/ t \in A({7}, Return, 10)
      \/ t \in A({8}, Return, 9)
      \/ t \in A({9}, LineFeed, 7)
  BY DEF Transitions, Blank, Return, LineFeed
<1>2. \A from, on, to : t \in A(from, on, to) => t.from \in from /\ t.on \in on /\ t.to = to
  OBVIOUS
<1> HIDE DEF A
<1>3. QED
  BY <1>1, <1>2

\* Without a transition the character is not accepted.
LEMMA NoTransition ==
    ASSUME NEW st \in 0 .. 10, NEW h, ~ \E t \in Transitions : t.from = st /\ t.on = h,
           st # 4, ~ (st \in {3, 10} /\ h = "LF")
    PROVE  Stops(st, h)
<1> DEFINE T(to) == [from |-> st, on |-> h, to |-> to]
<1>1. \A to : T(to) \notin Transitions
  OBVIOUS
<1>2. st \in {0, 1} => h \notin Digit
  BY <1>1 DEF Transitions
<1>3. st = 1 => h \notin AfterSize
  BY <1>1 DEF Transitions, AfterSize
<1>4. st = 2 => h # "CR"
  BY <1>1 DEF Transitions
<1>5. st = 2 => h \notin Text
  BY <1>1 DEF Transitions
<1>6. st = 5 => h # "CR"
  BY <1>1 DEF Transitions
<1>7. st \in {7, 8} => h \notin Text
  BY <1>1 DEF Transitions
<1>8. st \in {7, 8} => h # "CR"
  BY <1>1 DEF Transitions
<1>9. st \in {3, 6, 9, 10} => h # "LF"
  BY <1>1 DEF Transitions
<1>10. QED
  BY <1>2, <1>3, <1>4, <1>5, <1>6, <1>7, <1>8, <1>9 DEF Stops

\* What is read in which states.
LEMMA ReadBy ==
    ASSUME NEW s, NEW c, NEW st, NEW sz, NEW d, Read(s, c, st, sz, d)
    PROVE  /\ st \in 0 .. 3 => ReadSize(s, c, st, sz, d)
           /\ st \in 4 .. 6 => ReadData(s, c, st, sz, d)
           /\ st \in 7 .. 10 => ReadTrailer(s, c, st, d)
<1>1. ReadSize(s, c, st, sz, d) => st \in 0 .. 3
  BY DEF ReadSize, InSize
<1>2. ReadData(s, c, st, sz, d) => st \in 4 .. 6
  BY DEF ReadData, InData
<1>3. ReadTrailer(s, c, st, d) => st \in 7 .. 10
  BY DEF ReadTrailer, InTrailer
<1>4. QED
  BY <1>1, <1>2, <1>3 DEF Read

\* Reading one more character of s by a transition.
LEMMA ReadOn ==
    ASSUME NEW s \in Seq(Sign), NEW c \in Nat, c < Len(s), NEW st, NEW sz \in Nat, NEW d \in Seq(Sign),
           Read(s, c, st, sz, d), NEW t \in Transitions, t.from = st, t.on = s[c + 1]
    PROVE  Read(s, c + 1, t.to,
                IF t.to # 1 THEN sz ELSE (IF t.from = 0 THEN 0 ELSE sz * Base) + Value(t.on), d)
<1>1. CASE t.from \in {0, 1} /\ t.on \in Digit /\ t.to = 1
  <2>1. st \in {0, 1} /\ ReadSize(s, c, st, sz, d) /\ s[c + 1] \in Digit
    BY <1>1, ReadBy
  <2>2. ReadSize(s, c + 1, 1, (IF st = 0 THEN 0 ELSE sz * Base) + Value(s[c + 1]), d)
    BY <2>1, DigitInSize
  <2>3. QED
    BY <1>1, <2>2 DEF Read
<1>2. CASE t.from \in {1} /\ t.on \in Blank /\ t.to = 2
  <2>1. Blank \subseteq Text
    BY Characters DEF Blank
  <2>2. st \in {1, 2} /\ ReadSize(s, c, st, sz, d) /\ s[c + 1] \in Text /\ s[c + 1] \in Blank
    BY <1>2, <2>1, ReadBy
  <2>3. ReadSize(s, c + 1, 2, sz, d)
    BY <2>2, TextInSize
  <2>4. QED
    BY <1>2, <2>3 DEF Read
<1>3. CASE t.from \in {1, 2} /\ t.on \in Return /\ t.to = 3
  <2>1. st \in {1, 2} /\ ReadSize(s, c, st, sz, d) /\ s[c + 1] = "CR"
    BY <1>3, ReadBy DEF Return
  <2>2. ReadSize(s, c + 1, 3, sz, d)
    BY <2>1, ReturnInSize
  <2>3. QED
    BY <1>3, <2>2 DEF Read
<1>4. CASE t.from \in {2} /\ t.on \in Text /\ t.to = 2
  <2>1. st \in {1, 2} /\ st # 1 /\ ReadSize(s, c, st, sz, d) /\ s[c + 1] \in Text
    BY <1>4, ReadBy
  <2>2. ReadSize(s, c + 1, 2, sz, d)
    BY <2>1, TextInSize
  <2>3. QED
    BY <1>4, <2>2 DEF Read
<1>5. CASE t.from \in {5} /\ t.on \in Return /\ t.to = 6
  <2>1. ReadData(s, c, 5, sz, d) /\ s[c + 1] = "CR"
    BY <1>5, ReadBy DEF Return
  <2>2. ReadData(s, c + 1, 6, sz, d)
    BY <2>1, ReturnAfterData
  <2>3. QED
    BY <1>5, <2>2 DEF Read
<1>6. CASE t.from \in {6} /\ t.on \in LineFeed /\ t.to = 0
  <2>1. ReadData(s, c, 6, sz, d) /\ s[c + 1] = "LF"
    BY <1>6, ReadBy DEF LineFeed
  <2>2. ReadSize(s, c + 1, 0, sz, d)
    BY <2>1, LineFeedAfterData
  <2>3. QED
    BY <1>6, <2>2 DEF Read
<1>7. CASE t.from \in {7, 8} /\ t.on \in Text /\ t.to = 8
  <2>1. st \in {7, 8} /\ ReadTrailer(s, c, st, d) /\ s[c + 1] \in Text
    BY <1>7, ReadBy
  <2>2. ReadTrailer(s, c + 1, 8, d)
    BY <2>1, InALineOfTheTrailer
  <2>3. QED
    BY <1>7, <2>2 DEF Read
<1>8. CASE t.from \in {7} /\ t.on \in Return /\ t.to = 10
  <2>1. st = 7 /\ ReadTrailer(s, c, st, d) /\ s[c + 1] = "CR"
    BY <1>8, ReadBy DEF Return
  <2>2. ReadTrailer(s, c + 1, 10, d)
    BY <2>1, InALineOfTheTrailer
  <2>3. QED
    BY <1>8, <2>2 DEF Read
<1>9. CASE t.from \in {8} /\ t.on \in Return /\ t.to = 9
  <2>1. st = 8 /\ ReadTrailer(s, c, st, d) /\ s[c + 1] = "CR"
    BY <1>9, ReadBy DEF Return
  <2>2. ReadTrailer(s, c + 1, 9, d)
    BY <2>1, InALineOfTheTrailer
  <2>3. QED
    BY <1>9, <2>2 DEF Read
<1>10. CASE t.from \in {9} /\ t.on \in LineFeed /\ t.to = 7
  <2>1. ReadTrailer(s, c, 9, d) /\ s[c + 1] = "LF"
    BY <1>10, ReadBy DEF LineFeed
  <2>2. ReadTrailer(s, c + 1, 7, d)
    BY <2>1, LineFeedInTrailer
  <2>3. QED
    BY <1>10, <2>2 DEF Read
<1>11. QED
  BY <1>1, <1>2, <1>3, <1>4, <1>5, <1>6, <1>7, <1>8, <1>9, <1>10, TransitionIs

----------------------------------------------------------------------------
(***************************************************************************)
(* The invariant: whatever the calls have read so far, the parser is in    *)
(* every string that begins with it as far as it has looked at it.         *)
(***************************************************************************)
At == Len(seen) - Len(buf)
Agrees(s) == At <= Len(s) /\ \A i \in 1 .. At : s[i] = seen[i]

BufferIsTheRest ==
    Len(buf) <= Len(seen) /\ \A i \in 1 .. Len(buf) : buf[i] = seen[At + i]
ReadSoFar ==
    \A s \in Seq(Sign) : Agrees(s) =>
        IF result = "end" THEN Ended(s, At, data) ELSE Read(s, At, state, size, data)
RefusedForGood == result = "invalid" => buf # <<>> /\ Stops(state, Head(buf))

ParserInv == TypeOK /\ BufferIsTheRest /\ ReadSoFar /\ RefusedForGood

\* The data and the characters are of those that may occur.
LEMMA Signs ==
    ASSUME TypeOK
    PROVE  data \in Seq(Sign) /\ seen \in Seq(Sign) /\ buf \in Seq(Sign)
BY Characters, SeqMonotonic DEF TypeOK

\* A call looks at one character more.
LEMMA OneCharacter ==
    ASSUME TypeOK, BufferIsTheRest, buf # <<>>, buf' = Tail(buf), seen' = seen
    PROVE  /\ At \in Nat /\ At' = At + 1 /\ BufferIsTheRest' /\ buf' \in Seq(Char)
           /\ \A s \in Seq(Sign) : Agrees(s)' =>
                 Agrees(s) /\ At < Len(s) /\ s[At + 1] = Head(buf)
<1>1. seen \in Seq(Char) /\ buf \in Seq(Char) /\ Len(seen) \in Nat /\ Len(buf) \in Nat /\ Len(buf) > 0
  BY DEF TypeOK
<1>2. buf' \in Seq(Char) /\ Len(buf') = Len(buf) - 1 /\ \A i \in 1 .. Len(buf') : buf'[i] = buf[i + 1]
  BY <1>1
<1>3. At \in Nat /\ At' = At + 1
  BY <1>1, <1>2 DEF At, BufferIsTheRest
<1>4. \A i \in 1 .. Len(buf) : buf[i] = seen[At + i]
  BY DEF BufferIsTheRest
<1>5. PICK c \in Nat : c = At
  BY <1>3
<1>6. PICK n \in Nat : n = Len(buf)
  BY <1>1
<1>7. BufferIsTheRest'
  <2>1. \A i \in 1 .. Len(buf') : buf'[i] = seen'[At' + i]
    <3> TAKE i \in 1 .. Len(buf')
    <3>1. i \in 1 .. (n - 1)
      BY <1>2, <1>6
    <3>2. i + 1 \in 1 .. n /\ c + (i + 1) = c + 1 + i
      BY <3>1
    <3>3. buf[i + 1] = seen[c + (i + 1)]
      BY <1>4, <1>5, <1>6, <3>2
    <3>4. buf'[i] = buf[i + 1]
      BY <1>2
    <3>5. QED
      BY <1>3, <1>5, <3>2, <3>3, <3>4
  <2>2. Len(buf') <= Len(seen')
    BY <1>1, <1>2 DEF BufferIsTheRest
  <2>3. QED
    BY <2>1, <2>2 DEF BufferIsTheRest
<1>8. ASSUME NEW s \in Seq(Sign), Agrees(s)'
      PROVE  Agrees(s) /\ At < Len(s) /\ s[At + 1] = Head(buf)
  <2>1. c + 1 <= Len(s) /\ \A i \in 1 .. (c + 1) : s[i] = seen[i]
    BY <1>3, <1>5, <1>8 DEF Agrees
  <2>2. Len(s) \in Nat
    OBVIOUS
  <2>3. Agrees(s)
    BY <1>5, <2>1, <2>2 DEF Agrees
  <2>4. s[c + 1] = seen[c + 1]
    BY <2>1
  <2>5. Head(buf) = buf[1] /\ buf[1] = seen[c + 1]
    BY <1>1, <1>4, <1>5
  <2>6. QED
    BY <1>5, <2>1, <2>2, <2>3, <2>4, <2>5
<1>9. QED
  BY <1>2, <1>3, <1>7, <1>8

\* Before anything is read, every string is ahead.
LEMMA InitParser == Init => ParserInv
<1> SUFFICES ASSUME Init PROVE ParserInv
  OBVIOUS
<1>1. buf = <<>> /\ seen = <<>> /\ data = <<>> /\ state = 0 /\ size = 0 /\ result = "more"
  BY DEF Init
<1>2. <<>> \in Seq(Char) /\ Len(<<>>) = 0
  OBVIOUS
<1>3. TypeOK
  BY <1>1, <1>2 DEF TypeOK
<1>4. At = 0 /\ BufferIsTheRest
  BY <1>1, <1>2 DEF At, BufferIsTheRest
<1>5. ASSUME NEW s \in Seq(Sign) PROVE Read(s, 0, 0, 0, <<>>)
  <2>1. 1 \in 1 .. (Len(s) + 1)
    OBVIOUS
  <2>2. Chunks(s)[1] \in SUBSET Seq(Sign)
    BY <2>1, ChunksAre
  <2>3. \A e \in Chunks(s)[1] : <<>> \o e = e
    BY <2>2, ConcatEmptySeq
  <2>4. Chunks(s)[1] = {<<>> \o e : e \in Chunks(s)[1]}
    BY <2>3
  <2>5. ChunksFrom(s, 1, <<>>)
    BY <2>4 DEF ChunksFrom, Bodies
  <2>6. 1 \in Nat \ {0} /\ InSize(s, 0, 0, 0, 1)
    BY DEF InSize
  <2>7. QED
    BY <2>5, <2>6 DEF Read, ReadSize
<1>6. ReadSoFar
  BY <1>1, <1>4, <1>5 DEF ReadSoFar
<1>7. QED
  BY <1>1, <1>3, <1>4, <1>6 DEF ParserInv, RefusedForGood

\* What is read is the beginning of fewer strings.
LEMMA FeedParser == ASSUME ParserInv, Feed PROVE ParserInv'
<1>1. TypeOK /\ BufferIsTheRest /\ ReadSoFar
  BY DEF ParserInv
<1>2. result = "more" /\ buf = <<>> /\ UNCHANGED <<state, size, data, result>>
  BY DEF Feed
<1>3. PICK n \in 1 .. MaxRead : \E b \in [1 .. n -> Char] : buf' = b /\ seen' = seen \o b
  BY DEF Feed
<1>4. PICK b \in [1 .. n -> Char] : buf' = b /\ seen' = seen \o b
  BY <1>3
<1>5. n \in Nat /\ b \in Seq(Char) /\ Len(b) = n
  <2>1. n \in Nat
    <3>1. MaxRead \in Nat
      BY ChunkedParserAssumption
    <3>2. QED
      BY <3>1
  <2>2. QED
    BY <2>1
<1>6. PICK c \in Nat : c = Len(seen)
  BY <1>1 DEF TypeOK
<1>7. seen \in Seq(Char) /\ At = c
  BY <1>1, <1>2, <1>6 DEF At, TypeOK
<1>8. /\ seen' \in Seq(Char) /\ Len(seen') = c + n
      /\ \A i \in 1 .. (c + n) : seen'[i] = IF i <= c THEN seen[i] ELSE b[i - c]
  BY <1>4, <1>5, <1>6, <1>7, ConcatProperties
<1>9. At' = c
  BY <1>4, <1>5, <1>8 DEF At
<1>10. TypeOK'
  BY <1>1, <1>2, <1>4, <1>5, <1>8 DEF TypeOK
<1>11. BufferIsTheRest'
  <2>1. \A i \in 1 .. n : seen'[c + i] = b[i]
    <3> TAKE i \in 1 .. n
    <3>1. c + i \in 1 .. (c + n) /\ ~ (c + i <= c) /\ c + i - c = i
      BY <1>5
    <3>2. QED
      BY <1>8, <3>1
  <2>2. QED
    BY <1>4, <1>5, <1>8, <1>9, <2>1 DEF BufferIsTheRest
<1>12. ReadSoFar'
  <2>1. ASSUME NEW s \in Seq(Sign), Agrees(s)' PROVE Read(s, At, state, size, data)'
    <3>1. c <= Len(s) /\ \A i \in 1 .. c : s[i] = seen'[i]
      BY <1>9, <2>1 DEF Agrees
    <3>2. \A i \in 1 .. c : seen'[i] = seen[i]
      <4> TAKE i \in 1 .. c
      <4>1. i \in 1 .. (c + n) /\ i <= c
        BY <1>5
      <4>2. QED
        BY <1>8, <4>1
    <3>3. Agrees(s)
      BY <1>7, <3>1, <3>2 DEF Agrees
    <3>4. Read(s, At, state, size, data)
      BY <1>1, <1>2, <3>3 DEF ReadSoFar
    <3>5. QED
      BY <1>2, <1>7, <1>9, <3>4
  <2>2. QED
    BY <1>2, <2>1 DEF ReadSoFar
<1>13. QED
  BY <1>2, <1>10, <1>11, <1>12 DEF ParserInv, RefusedForGood

\* A transition reads one character more.
LEMMA MoveParser == ASSUME ParserInv, Move PROVE ParserInv'
<1>1. TypeOK /\ BufferIsTheRest /\ ReadSoFar
  BY DEF ParserInv
<1>2. result = "more" /\ buf # <<>> /\ buf' = Tail(buf) /\ UNCHANGED <<seen, data, result>>
  BY DEF Move, Parsing
<1>3. PICK t \in Transitions :
        /\ t.from = state /\ t.on = Head(buf) /\ state' = t.to
        /\ size' = IF t.to # 1 THEN size ELSE (IF t.from = 0 THEN 0 ELSE size * Base) + Value(t.on)
  BY DEF Move
<1>4. /\ At \in Nat /\ At' = At + 1 /\ BufferIsTheRest' /\ buf' \in Seq(Char)
      /\ \A s \in Seq(Sign) : Agrees(s)' => Agrees(s) /\ At < Len(s) /\ s[At + 1] = Head(buf)
  BY <1>1, <1>2, OneCharacter
<1>5. TypeOK'
  <2>1. t.to \in 0 .. 10
    BY TransitionIs
  <2>2. size' \in Nat
    <3>1. CASE t.to # 1
      BY <1>1, <1>3, <3>1 DEF TypeOK
    <3>2. CASE t.to = 1
      <4>1. t.on \in Digit
        BY <3>2, TransitionIs
      <4>2. Value(t.on) \in Nat
        BY <4>1, ValueIs
      <4>3. size \in Nat /\ Base \in Nat
        BY <1>1, ChunkedParserAssumption DEF TypeOK
      <4>4. size * Base \in Nat
        BY <4>3
      <4>5. QED
        BY <1>3, <3>2, <4>2, <4>4
    <3>3. QED
      BY <3>1, <3>2
  <2>3. QED
    BY <1>1, <1>2, <1>3, <1>4, <2>1, <2>2 DEF TypeOK
<1>6. ReadSoFar'
  <2>1. ASSUME NEW s \in Seq(Sign), Agrees(s)' PROVE Read(s, At', state', size', data')
    <3>1. Agrees(s) /\ At \in Nat /\ At < Len(s) /\ s[At + 1] = t.on
      BY <1>3, <1>4, <2>1
    <3>2. Read(s, At, state, size, data)
      BY <1>1, <1>2, <3>1 DEF ReadSoFar
    <3>3. size \in Nat /\ data \in Seq(Sign)
      BY <1>1, Signs DEF TypeOK
    <3>4. Read(s, At + 1, t.to,
               IF t.to # 1 THEN size ELSE (IF t.from = 0 THEN 0 ELSE size * Base) + Value(t.on), data)
      BY <1>3, <3>1, <3>2, <3>3, ReadOn
    <3>5. QED
      BY <1>2, <1>3, <1>4, <3>4
  <2>2. QED
    BY <1>2, <2>1 DEF ReadSoFar
<1>7. QED
  BY <1>2, <1>4, <1>5, <1>6 DEF ParserInv, RefusedForGood

\* The line feed behind a size.
LEMMA SizeEndsParser == ASSUME ParserInv, SizeEnds PROVE ParserInv'
<1>1. TypeOK /\ BufferIsTheRest /\ ReadSoFar
  BY DEF ParserInv
<1>2. /\ result = "more" /\ buf # <<>> /\ buf' = Tail(buf) /\ UNCHANGED <<size, seen, data, result>>
      /\ state = 3 /\ Head(buf) = "LF" /\ state' = IF size > 0 THEN 4 ELSE 7
  BY DEF SizeEnds, Parsing
<1>3. /\ At \in Nat /\ At' = At + 1 /\ BufferIsTheRest' /\ buf' \in Seq(Char)
      /\ \A s \in Seq(Sign) : Agrees(s)' => Agrees(s) /\ At < Len(s) /\ s[At + 1] = Head(buf)
  BY <1>1, <1>2, OneCharacter
<1>4. TypeOK'
  BY <1>1, <1>2, <1>3 DEF TypeOK
<1>5. ReadSoFar'
  <2>1. ASSUME NEW s \in Seq(Sign), Agrees(s)' PROVE Read(s, At', state', size', data')
    <3>1. Agrees(s) /\ At \in Nat /\ At < Len(s) /\ s[At + 1] = "LF"
      BY <1>2, <1>3, <2>1
    <3>2. Read(s, At, 3, size, data)
      BY <1>1, <1>2, <3>1 DEF ReadSoFar
    <3>3. size \in Nat /\ data \in Seq(Sign)
      BY <1>1, Signs DEF TypeOK
    <3>4. ReadSize(s, At, 3, size, data)
      BY <3>2, ReadBy
    <3>5. /\ size > 0 => ReadData(s, At + 1, 4, size, data)
          /\ size = 0 => ReadTrailer(s, At + 1, 7, data)
      BY <3>1, <3>3, <3>4, LineFeedInSize
    <3>6. QED
      BY <1>2, <1>3, <3>3, <3>5 DEF Read
  <2>2. QED
    BY <1>2, <2>1 DEF ReadSoFar
<1>6. QED
  BY <1>2, <1>3, <1>4, <1>5 DEF ParserInv, RefusedForGood

\* The last line feed.
LEMMA FinishParser == ASSUME ParserInv, Finish PROVE ParserInv'
<1>1. TypeOK /\ BufferIsTheRest /\ ReadSoFar
  BY DEF ParserInv
<1>2. /\ result = "more" /\ buf # <<>> /\ buf' = Tail(buf) /\ UNCHANGED <<state, size, seen, data>>
      /\ state = 10 /\ Head(buf) = "LF" /\ result' = "end"
  BY DEF Finish, Parsing
<1>3. /\ At \in Nat /\ At' = At + 1 /\ BufferIsTheRest' /\ buf' \in Seq(Char)
      /\ \A s \in Seq(Sign) : Agrees(s)' => Agrees(s) /\ At < Len(s) /\ s[At + 1] = Head(buf)
  BY <1>1, <1>2, OneCharacter
<1>4. TypeOK'
  BY <1>1, <1>2, <1>3 DEF TypeOK
<1>5. ReadSoFar'
  <2>1. ASSUME NEW s \in Seq(Sign), Agrees(s)' PROVE Ended(s, At', data')
    <3>1. Agrees(s) /\ At \in Nat /\ At < Len(s) /\ s[At + 1] = "LF"
      BY <1>2, <1>3, <2>1
    <3>2. Read(s, At, 10, size, data)
      BY <1>1, <1>2, <3>1 DEF ReadSoFar
    <3>3. ReadTrailer(s, At, 10, data)
      BY <3>2, ReadBy
    <3>4. Ended(s, At + 1, data)
      BY <3>1, <3>3, LineFeedAtTheEnd
    <3>5. QED
      BY <1>2, <1>3, <3>4
  <2>2. QED
    BY <1>2, <2>1 DEF ReadSoFar
<1>6. QED
  BY <1>2, <1>3, <1>4, <1>5 DEF ParserInv, RefusedForGood

\* As much of the data as the buffer has.
LEMMA DataParser == ASSUME ParserInv, Data PROVE ParserInv'
<1>1. TypeOK /\ BufferIsTheRest /\ ReadSoFar
  BY DEF ParserInv
<1>2. result = "more" /\ state = 4 /\ UNCHANGED <<seen, result>>
  BY DEF Data, Parsing
<1>3. PICK n : /\ n = IF size <= Len(buf) THEN size ELSE Len(buf)
               /\ data' = data \o SubSeq(buf, 1, n) /\ buf' = SubSeq(buf, n + 1, Len(buf))
               /\ IF size <= Len(buf) THEN state' = 5 /\ UNCHANGED size
                  ELSE size' = size - n /\ UNCHANGED state
  BY DEF Data
<1>4. PICK b \in Nat : b = Len(buf)
  BY <1>1 DEF TypeOK
<1>5. PICK a \in Nat : a = Len(seen)
  BY <1>1 DEF TypeOK
<1>6. /\ size \in Nat /\ n \in Nat /\ n <= b /\ n <= size /\ b <= a
      /\ (size <= b => n = size) /\ (~ (size <= b) => n < size)
  BY <1>1, <1>3, <1>4, <1>5 DEF TypeOK, BufferIsTheRest
<1>7. PICK c \in Nat : c = At
  BY <1>4, <1>5, <1>6 DEF At
<1>8. c = a - b /\ \A i \in 1 .. b : buf[i] = seen[c + i]
  BY <1>1, <1>4, <1>5, <1>7 DEF BufferIsTheRest, At
<1> DEFINE u == SubSeq(buf, 1, n)
           v == SubSeq(buf, n + 1, b)
<1>9. buf \in Seq(Char)
  BY <1>1 DEF TypeOK
<1>10. u \in Seq(Char) /\ Len(u) = n /\ \A i \in 1 .. n : u[i] = buf[i]
  BY <1>4, <1>6, <1>9
<1>11. v \in Seq(Char) /\ Len(v) = b - n /\ \A i \in 1 .. (b - n) : v[i] = buf[n + i]
  BY <1>4, <1>6, <1>9
<1>12. data' = data \o u /\ buf' = v
  BY <1>3, <1>4
<1> HIDE DEF u, v
<1>13. At' = c + n
  <2>1. Len(seen') = a /\ Len(buf') = b - n
    BY <1>2, <1>5, <1>11, <1>12
  <2>2. QED
    BY <1>6, <1>8, <2>1 DEF At
<1>14. TypeOK'
  <2>1. data' \in Seq(Char)
    BY <1>1, <1>10, <1>12 DEF TypeOK
  <2>2. size' \in Nat /\ state' \in 0 .. 10
    BY <1>2, <1>3, <1>4, <1>6
  <2>3. QED
    BY <1>1, <1>2, <1>11, <1>12, <2>1, <2>2 DEF TypeOK
<1>15. BufferIsTheRest'
  <2>1. \A i \in 1 .. (b - n) : v[i] = seen[c + n + i]
    <3> TAKE i \in 1 .. (b - n)
    <3>1. n + i \in 1 .. b /\ c + (n + i) = c + n + i
      BY <1>6
    <3>2. buf[n + i] = seen[c + (n + i)]
      BY <1>8, <3>1
    <3>3. QED
      BY <1>11, <3>1, <3>2
  <2>2. b - n <= a
    BY <1>6
  <2>3. QED
    BY <1>2, <1>5, <1>11, <1>12, <1>13, <2>1, <2>2 DEF BufferIsTheRest
<1>16. ReadSoFar'
  <2>1. ASSUME NEW s \in Seq(Sign), Agrees(s)' PROVE Read(s, At', state', size', data')
    <3>1. c + n <= Len(s) /\ \A i \in 1 .. (c + n) : s[i] = seen[i]
      BY <1>2, <1>13, <2>1 DEF Agrees
    <3>2. Len(s) \in Nat
      OBVIOUS
    <3>3. Agrees(s)
      BY <1>6, <1>7, <3>1, <3>2 DEF Agrees
    <3>4. Read(s, c, 4, size, data)
      BY <1>1, <1>2, <1>7, <3>3 DEF ReadSoFar
    <3>5. ReadData(s, c, 4, size, data)
      BY <3>4, ReadBy
    <3>6. u = SubSeq(s, c + 1, c + n)
      <4> DEFINE w == SubSeq(s, c + 1, c + n)
      <4>1. w \in Seq(Sign) /\ Len(w) = n /\ \A i \in 1 .. n : w[i] = s[c + i]
        BY <1>6, <3>1, <3>2
      <4>2. \A i \in 1 .. n : s[c + i] = seen[c + i]
        <5> TAKE i \in 1 .. n
        <5>1. c + i \in 1 .. (c + n)
          BY <1>6
        <5>2. QED
          BY <3>1, <5>1
      <4>3. \A i \in 1 .. n : u[i] = seen[c + i]
        BY <1>6, <1>8, <1>10
      <4>4. u \in Seq(Sign)
        BY <1>10, Characters, SeqMonotonic
      <4> HIDE DEF w
      <4>5. u \in Seq(Sign) /\ w \in Seq(Sign) /\ Len(u) = Len(w) /\ \A i \in 1 .. Len(u) : u[i] = w[i]
        BY <1>10, <4>1, <4>2, <4>3, <4>4
      <4>6. u = w
        BY ONLY <4>5, SeqEqual
      <4>7. QED
        BY <4>6 DEF w
    <3>7. /\ n < size => ReadData(s, c + n, 4, size - n, data \o u)
          /\ n = size => ReadData(s, c + n, 5, size, data \o u)
      BY <1>6, <3>1, <3>5, <3>6, DataOfChunk
    <3>8. QED
      BY <1>2, <1>3, <1>4, <1>6, <1>12, <1>13, <3>7 DEF Read
  <2>2. QED
    BY <1>2, <2>1 DEF ReadSoFar
<1>17. QED
  BY <1>2, <1>14, <1>15, <1>16 DEF ParserInv, RefusedForGood

\* A failure, or a refusal, leaves everything as it is.
LEMMA StopParser == ASSUME ParserInv, DataFails \/ Reject PROVE ParserInv'
<1>1. TypeOK /\ BufferIsTheRest /\ ReadSoFar
  BY DEF ParserInv
<1>2. result = "more" /\ buf # <<>> /\ result' # "end" /\ result' \in {"failed", "invalid"}
      /\ UNCHANGED <<state, size, buf, seen, data>>
  BY DEF DataFails, Reject, Parsing
<1>3. TypeOK' /\ BufferIsTheRest' /\ At' = At
  BY <1>1, <1>2 DEF TypeOK, BufferIsTheRest, At
<1>4. ReadSoFar'
  <2>1. ASSUME NEW s \in Seq(Sign), Agrees(s)' PROVE Read(s, At', state', size', data')
    <3>1. Agrees(s)
      BY <1>2, <1>3, <2>1 DEF Agrees
    <3>2. Read(s, At, state, size, data)
      BY <1>1, <1>2, <3>1 DEF ReadSoFar
    <3>3. QED
      BY <1>2, <1>3, <3>2
  <2>2. QED
    BY <1>2, <2>1 DEF ReadSoFar
<1>5. RefusedForGood'
  <2>1. CASE DataFails
    BY <2>1 DEF DataFails, RefusedForGood
  <2>2. CASE Reject
    <3>1. /\ state \in 0 .. 10 /\ state # 4 /\ ~ (state \in {3, 10} /\ Head(buf) = "LF")
          /\ ~ \E t \in Transitions : t.from = state /\ t.on = Head(buf)
      BY <1>1, <2>2 DEF Reject, TypeOK
    <3>2. Stops(state, Head(buf))
      BY ONLY <3>1, NoTransition
    <3>3. QED
      BY <1>2, <3>2 DEF RefusedForGood
  <2>3. QED
    BY <2>1, <2>2
<1>6. QED
  BY <1>3, <1>4, <1>5 DEF ParserInv

(***************************************************************************)
(* The invariant holds of every behaviour: of every string that begins with*)
(* what has been read, the parser has read what its state, its size and the*)
(* data delivered say, and what it refuses it does not accept.             *)
(***************************************************************************)
THEOREM ParserInvariant == Spec => []ParserInv
<1>1. ParserInv /\ [Next]_vars => ParserInv'
  <2> SUFFICES ASSUME ParserInv, [Next]_vars PROVE ParserInv'
    OBVIOUS
  <2>1. CASE Feed
    BY <2>1, FeedParser
  <2>2. CASE Move
    BY <2>2, MoveParser
  <2>3. CASE SizeEnds
    BY <2>3, SizeEndsParser
  <2>4. CASE Data
    BY <2>4, DataParser
  <2>5. CASE Finish
    BY <2>5, FinishParser
  <2>6. CASE DataFails \/ Reject
    BY <2>6, StopParser
  <2>7. CASE UNCHANGED vars
    <3>1. TypeOK' /\ BufferIsTheRest' /\ RefusedForGood' /\ At' = At
      BY <2>7 DEF ParserInv, TypeOK, BufferIsTheRest, RefusedForGood, At, vars
    <3>2. ReadSoFar'
      BY <2>7, <3>1 DEF ParserInv, ReadSoFar, Agrees, At, vars
    <3>3. QED
      BY <3>1, <3>2 DEF ParserInv
  <2>8. QED
    BY <2>1, <2>2, <2>3, <2>4, <2>5, <2>6, <2>7 DEF Next
<1>2. QED
  BY InitParser, <1>1, PTL DEF Spec

----------------------------------------------------------------------------
(***************************************************************************)
(* What the calls have consumed is a string of its own, and the parser is  *)
(* in it as far as it goes.                                                *)
(***************************************************************************)
LEMMA ConsumedAgrees ==
    ASSUME ParserInv
    PROVE  /\ At \in Nat /\ Consumed \in Seq(Sign) /\ Len(Consumed) = At /\ Agrees(Consumed)
<1>1. seen \in Seq(Sign) /\ buf \in Seq(Sign) /\ Len(buf) <= Len(seen)
  BY Signs DEF ParserInv, BufferIsTheRest
<1>2. PICK a \in Nat : a = Len(seen)
  BY <1>1
<1>3. PICK b \in Nat : b = Len(buf)
  BY <1>1
<1>4. At = a - b /\ b <= a
  BY <1>1, <1>2, <1>3 DEF At
<1>5. PICK c \in Nat : c = At
  <2>1. At \in Nat
    BY <1>4
  <2>2. QED
    BY <2>1
<1>6. c <= a
  BY <1>4, <1>5
<1> DEFINE w == SubSeq(seen, 1, c)
<1>7. w \in Seq(Sign) /\ Len(w) = c /\ \A i \in 1 .. c : w[i] = seen[i]
  BY <1>1, <1>2, <1>6
<1>8. Consumed = w
  BY <1>5 DEF Consumed, At
<1> HIDE DEF w
<1>9. QED
  BY <1>5, <1>7, <1>8 DEF Agrees

(***************************************************************************)
(* The end is reported right after the last line feed of the body, never   *)
(* before and never later, and the data of its chunks has then been        *)
(* delivered, wherever the buffers were cut, for every base of the sizes   *)
(* and chunks of every length.                                             *)
(***************************************************************************)
THEOREM EndsWhereItEnds == Spec => []EndsWhereTheBodyEnds
<1>1. ParserInv => EndsWhereTheBodyEnds
  <2> SUFFICES ASSUME ParserInv PROVE EndsWhereTheBodyEnds
    OBVIOUS
  <2>1. At \in Nat /\ Consumed \in Seq(Sign) /\ Len(Consumed) = At /\ Agrees(Consumed)
    BY ConsumedAgrees
  <2>2. CASE result = "end"
    <3>1. Ended(Consumed, At, data)
      BY <2>1, <2>2 DEF ParserInv, ReadSoFar
    <3>2. Bodies(Consumed) = {data}
      BY <2>1, <3>1, EndedIsBody
    <3>3. QED
      BY <2>2, <3>2 DEF EndsWhereTheBodyEnds
  <2>3. CASE result = "more"
    <3>1. Read(Consumed, At, state, size, data)
      BY <2>1, <2>3 DEF ParserInv, ReadSoFar
    <3>2. size \in Nat /\ Stuck(Consumed, At, state) /\ At <= Len(Consumed)
      BY <2>1 DEF ParserInv, TypeOK, Stuck
    <3>3. Bodies(Consumed) = {}
      BY <2>1, <3>1, <3>2, StuckIsNoBody
    <3>4. QED
      BY <2>3, <3>3 DEF EndsWhereTheBodyEnds
  <2>4. QED
    BY <2>2, <2>3 DEF EndsWhereTheBodyEnds
<1>2. QED
  BY <1>1, ParserInvariant, PTL

\* What has been refused is the beginning of no body, whatever could follow.
RefusesTheBeginningOfNone ==
    result = "invalid" =>
        \A rest \in Seq(Sign) : Bodies(Append(Consumed, Head(buf)) \o rest) = {}

(***************************************************************************)
(* No body is refused because of where it was cut, or at all: no string    *)
(* that begins with what has been refused is one.                          *)
(***************************************************************************)
THEOREM RefusesNone == Spec => []RefusesTheBeginningOfNone
<1>1. ParserInv => RefusesTheBeginningOfNone
  <2> SUFFICES ASSUME ParserInv, result = "invalid", NEW rest \in Seq(Sign)
               PROVE  Bodies(Append(Consumed, Head(buf)) \o rest) = {}
    BY DEF RefusesTheBeginningOfNone
  <2>1. At \in Nat /\ Consumed \in Seq(Sign) /\ Len(Consumed) = At /\ Agrees(Consumed)
    BY ConsumedAgrees
  <2>2. buf # <<>> /\ Stops(state, Head(buf)) /\ buf \in Seq(Sign) /\ size \in Nat
    BY Signs DEF ParserInv, RefusedForGood, TypeOK
  <2>3. Head(buf) \in Sign
    BY <2>2, HeadTailProperties
  <2>4. PICK c \in Nat : c = At
    BY <2>1
  <2> DEFINE t == Append(Consumed, Head(buf))
             s == t \o rest
  <2>5. t \in Seq(Sign) /\ Len(t) = c + 1 /\ t[c + 1] = Head(buf)
        /\ \A i \in 1 .. c : t[i] = Consumed[i]
    BY <2>1, <2>3, <2>4
  <2> HIDE DEF t
  <2>6. /\ s \in Seq(Sign) /\ Len(s) = c + 1 + Len(rest)
        /\ \A i \in 1 .. (c + 1) : s[i] = t[i]
    <3>1. t \in Seq(Sign) /\ rest \in Seq(Sign)
      BY <2>5
    <3>2. /\ s \in Seq(Sign) /\ Len(s) = Len(t) + Len(rest)
          /\ \A i \in 1 .. Len(t) + Len(rest) : s[i] = IF i <= Len(t) THEN t[i] ELSE rest[i - Len(t)]
      BY ONLY <3>1, ConcatProperties
    <3>3. Len(rest) \in Nat
      OBVIOUS
    <3>4. QED
      BY <2>5, <3>2, <3>3
  <2> HIDE DEF s
  <2>7. Len(rest) \in Nat
    OBVIOUS
  <2>8. c < Len(s) /\ s[c + 1] = Head(buf)
    BY <2>5, <2>6, <2>7
  <2>9. \A i \in 1 .. c : s[i] = Consumed[i]
    BY <2>5, <2>6, <2>7
  <2>10. Agrees(s)
    <3>1. \A i \in 1 .. c : Consumed[i] = seen[i]
      BY <2>1, <2>4 DEF Agrees
    <3>2. QED
      BY <2>4, <2>8, <2>9, <3>1 DEF Agrees
  <2>11. Read(s, c, state, size, data)
    BY <2>4, <2>6, <2>10 DEF ParserInv, ReadSoFar
  <2>12. Stuck(s, c, state) /\ c <= Len(s)
    BY <2>2, <2>6, <2>7, <2>8 DEF Stuck
  <2>13. Bodies(s) = {}
    BY <2>2, <2>6, <2>11, <2>12, StuckIsNoBody
  <2>14. QED
    BY <2>13 DEF s, t
<1>2. QED
  BY <1>1, ParserInvariant, PTL

(***************************************************************************)
(* However the body is cut into buffers, its end and its data are those    *)
(* that the definition of a chunked body gives it, and no body is refused. *)
(***************************************************************************)
THEOREM ParsedAsDefined == Spec => []ChunkedAsDefined
<1>1. Rests \subseteq Seq(Sign)
  <2>1. "CR" \in Sign /\ "LF" \in Sign /\ "0" \in Sign
    BY DEF Sign, Char
  <2>2. QED
    BY <2>1 DEF Rests
<1>2. RefusesTheBeginningOfNone => RefusesNoBody
  BY <1>1 DEF RefusesTheBeginningOfNone, RefusesNoBody
<1>3. QED
  BY <1>2, EndsWhereItEnds, RefusesNone, PTL DEF ChunkedAsDefined
=============================================================================
