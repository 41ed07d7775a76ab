---------------------------- MODULE Routing_proofs ----------------------------
(***************************************************************************)
(* Proofs about where a request goes.  The host it names and the rule it is*)
(* handled by, for all tables, names, rules and orders in which a file may *)
(* give them; and the backend of the rule, for every number of backends, of*)
(* connections under way and of ticks of a pause.                          *)
(***************************************************************************)
EXTENDS Backends, Lookups, SequenceTheorems, WellFoundedInduction, TLAPS

\* A set of natural numbers has a least one, which is what induction over the
\* turns of a loop rests on here: the first number for which it failed.
LEMMA LeastNumber ==
    ASSUME NEW S, S \subseteq Nat, S # {}
    PROVE  \E x \in S : \A y \in S : x <= y
<1> DEFINE R == OpToRel(<, Nat)
<1>1. IsWellFoundedOn(R, Nat)
  BY NatLessThanWellFounded
<1>2. \A x, y \in Nat : y < x => <<y, x>> \in R
  BY DEF OpToRel
<1> HIDE DEF R
<1>3. PICK x \in S : \A y \in S : ~ (<<y, x>> \in R)
  BY <1>1, WFMin
<1>4. ASSUME NEW y \in S PROVE x <= y
  <2>1. x \in Nat /\ y \in Nat
    OBVIOUS
  <2>2. ~ (y < x)
    BY <1>2, <1>3, <2>1
  <2>3. QED
    BY <2>1, <2>2
<1>5. QED
  BY <1>4

\* What is so of 0 and of each number after one it is so of.
LEMMA AllNumbers ==
    ASSUME NEW S, 0 \in S, \A n \in Nat : n \in S => n + 1 \in S
    PROVE  Nat \subseteq S
<1> SUFFICES ASSUME Nat \ S # {} PROVE FALSE
  OBVIOUS
<1>1. PICK least \in Nat \ S : \A n \in Nat \ S : least <= n
  BY LeastNumber
<1>2. least # 0 /\ least - 1 \in Nat
  BY <1>1
<1>3. least - 1 \in S
  BY <1>1, <1>2
<1>4. QED
  BY <1>1, <1>2, <1>3

----------------------------------------------------------------------------
Keys == Seq(DOMAIN Order)

\* Where two keys part, at i, the first one has ended or has the smaller character.
PartAt(a, b, i) ==
    /\ i <= Len(a) + 1 /\ i <= Len(b)
    /\ \A j \in 1 .. (i - 1) : a[j] = b[j]
    /\ i <= Len(a) => a[i] # b[i] /\ Order[a[i]] < Order[b[i]]

Precedes(a, b) == \E i \in Nat \ {0} : PartAt(a, b, i)

\* Every character of a key has its place in the order.
LEMMA KeyIsOf ==
    ASSUME TellsApart, NEW a \in Keys
    PROVE  /\ Len(a) \in Nat
           /\ \A i \in 1 .. Len(a) : a[i] \in DOMAIN Order /\ Order[a[i]] \in Nat
  BY DEF Keys, TellsApart

\* No key precedes itself, and no two precede each other.
LEMMA NoneBoth ==
    ASSUME TellsApart, NEW a \in Keys, NEW b \in Keys, Precedes(a, b)
    PROVE  a # b /\ ~ Precedes(b, a)
<1>1. PICK i \in Nat \ {0} : PartAt(a, b, i)
  BY DEF Precedes
<1>2. a # b
  BY <1>1, KeyIsOf DEF PartAt
<1>3. ASSUME NEW k \in Nat \ {0}, PartAt(b, a, k) PROVE FALSE
  <2>1. CASE i < k
    BY <2>1, <1>1, <1>3, KeyIsOf DEF PartAt
  <2>2. CASE k < i
    BY <2>2, <1>1, <1>3, KeyIsOf DEF PartAt
  <2>3. CASE i = k
    BY <2>3, <1>1, <1>3, KeyIsOf DEF PartAt
  <2>4. QED
    BY <2>1, <2>2, <2>3
<1>4. QED
  BY <1>2, <1>3 DEF Precedes

\* What precedes a key that precedes another precedes that one too.
LEMMA PrecedesOnward ==
    ASSUME TellsApart, NEW a \in Keys, NEW b \in Keys, NEW c \in Keys,
           Precedes(a, b), Precedes(b, c)
    PROVE  Precedes(a, c)
<1>1. PICK i \in Nat \ {0} : PartAt(a, b, i)
  BY DEF Precedes
<1>2. PICK k \in Nat \ {0} : PartAt(b, c, k)
  BY DEF Precedes
<1>3. CASE i < k
  <2>1. PartAt(a, c, i)
    BY <1>1, <1>2, <1>3, KeyIsOf DEF PartAt
  <2>2. QED
    BY <2>1 DEF Precedes
<1>4. CASE k < i
  <2>1. PartAt(a, c, k)
    BY <1>1, <1>2, <1>4, KeyIsOf DEF PartAt
  <2>2. QED
    BY <2>1 DEF Precedes
<1>5. CASE i = k
  <2>1. PartAt(a, c, k)
    <3>1. i <= Len(a) => i <= Len(b) /\ i <= Len(c) /\ Order[a[i]] \in Nat /\ Order[b[i]] \in Nat /\ Order[c[i]] \in Nat
      BY <1>1, <1>2, <1>5, KeyIsOf DEF PartAt
    <3>2. QED
      BY <1>1, <1>2, <1>5, <3>1, KeyIsOf DEF PartAt
  <2>2. QED
    BY <2>1 DEF Precedes
<1>6. QED
  BY <1>3, <1>4, <1>5

\* memcmp of what two keys share, and then their lengths, is the order of keys:
\* three cases, of which one holds.
LEMMA GoesWhereItPrecedes ==
    ASSUME TellsApart, NEW key \in Keys, NEW other \in Keys
    PROVE  /\ Goes(key, other) = "before" => Precedes(key, other)
           /\ Goes(key, other) = "same" => key = other
           /\ Goes(key, other) = "behind" => Precedes(other, key)
           /\ Goes(key, other) \in {"before", "same", "behind"}
<1> DEFINE n      == Smaller(Len(key), Len(other))
           differ == {i \in 1 .. n : key[i] # other[i]}
           first  == CHOOSE i \in differ : \A j \in differ : i <= j
<1>1. n \in Nat /\ n <= Len(key) /\ n <= Len(other) /\ (n = Len(key) \/ n = Len(other))
  BY KeyIsOf DEF Smaller
<1>2. CASE differ = {}
  <2>1. Compare(key, other, n) = 0
    BY <1>2 DEF Compare
  <2>2. Len(key) < Len(other) => PartAt(key, other, Len(key) + 1)
    BY <1>1, <1>2, KeyIsOf DEF PartAt
  <2>3. Len(other) < Len(key) => PartAt(other, key, Len(other) + 1)
    BY <1>1, <1>2, KeyIsOf DEF PartAt
  <2>4. Len(key) = Len(other) => key = other
    BY <1>1, <1>2, KeyIsOf DEF Keys
  <2> HIDE DEF n
  <2>5. QED
    BY <2>1, <2>2, <2>3, <2>4, <1>1, KeyIsOf DEF Goes, Precedes, n
<1>3. CASE differ # {}
  <2>1. PICK i \in differ : \A j \in differ : i <= j
    <3>1. differ \subseteq Nat
      OBVIOUS
    <3> HIDE DEF differ
    <3>2. QED
      BY <1>3, <3>1, LeastNumber
  <2>2. first \in differ /\ \A j \in differ : first <= j
    BY <2>1
  <2> HIDE DEF first
  <2>3. first \in Nat \ {0} /\ first <= n /\ key[first] # other[first] /\ \A j \in 1 .. (first - 1) : key[j] = other[j]
    BY <2>2, <1>1
  <2>4. Compare(key, other, n) = IF Order[key[first]] < Order[other[first]] THEN -1 ELSE 1
    BY <1>3 DEF Compare, first
  <2>5. /\ Order[key[first]] \in Nat /\ Order[other[first]] \in Nat
        /\ Order[key[first]] # Order[other[first]]
    BY <2>3, <1>1, KeyIsOf DEF TellsApart
  <2>6. Order[key[first]] < Order[other[first]] => PartAt(key, other, first)
    BY <2>3, <1>1, KeyIsOf DEF PartAt
  <2>7. Order[other[first]] < Order[key[first]] => PartAt(other, key, first)
    BY <2>3, <1>1, KeyIsOf DEF PartAt
  <2> HIDE DEF n, differ
  <2>8. CASE Order[key[first]] < Order[other[first]]
    BY <2>8, <2>3, <2>4, <2>6 DEF Goes, Precedes, n
  <2>9. CASE Order[other[first]] < Order[key[first]]
    BY <2>9, <2>3, <2>4, <2>5, <2>7 DEF Goes, Precedes, n
  <2>10. QED
    BY <2>5, <2>8, <2>9
<1>4. QED
  BY <1>2, <1>3

----------------------------------------------------------------------------
Sorted(table) == \A p, q \in DOMAIN table : p < q => Precedes(table[p].key, table[q].key)

Entry == [key : Keys, idx : Nat]

Tables == {table \in Seq(Entry) : Sorted(table)}

\* What search says of a key is so.
Right(table, key, result) ==
    /\ result.found \in BOOLEAN
    /\ result.found => result.pos \in DOMAIN table /\ table[result.pos].key = key
    /\ ~ result.found =>
          /\ result.pos \in 1 .. (Len(table) + 1)
          /\ \A p \in DOMAIN table : IF p < result.pos THEN Precedes(table[p].key, key)
                                     ELSE Precedes(key, table[p].key)

Spans(table) == (1 .. (Len(table) + 1)) \X (0 .. Len(table))

\* A turn of the loop, looking further with "from".
Turned(table, key, from, w) ==
    LET pivot == (w[1] + w[2]) \div 2
        goes  == Goes(key, table[pivot].key)
    IN  IF w[1] > w[2] THEN [found |-> FALSE, pos |-> w[1]]
        ELSE IF goes = "before" THEN from[<<w[1], pivot - 1>>]
        ELSE IF goes = "same" THEN [found |-> TRUE, pos |-> pivot]
        ELSE from[<<pivot + 1, w[2]>>]

\* The pivot is between the bounds, and both halves are shorter.
LEMMA SpansOf ==
    ASSUME NEW n \in Nat, NEW w \in (1 .. (n + 1)) \X (0 .. n)
    PROVE  /\ w[1] \in 1 .. (n + 1) /\ w[2] \in 0 .. n /\ w = <<w[1], w[2]>>
           /\ w[1] <= w[2] =>
                LET pivot == (w[1] + w[2]) \div 2
                IN  /\ pivot \in w[1] .. w[2] /\ pivot \in 1 .. n
                    /\ <<w[1], pivot - 1>> \in (1 .. (n + 1)) \X (0 .. n)
                    /\ <<pivot + 1, w[2]>> \in (1 .. (n + 1)) \X (0 .. n)
                    /\ pivot - 1 - w[1] < w[2] - w[1]
                    /\ w[2] - (pivot + 1) < w[2] - w[1]
<1>1. w[1] \in 1 .. (n + 1) /\ w[2] \in 0 .. n /\ w = <<w[1], w[2]>>
  OBVIOUS
<1> DEFINE pivot == (w[1] + w[2]) \div 2
<1>2. w[1] <= w[2] => pivot \in w[1] .. w[2]
  BY <1>1
<1> HIDE DEF pivot
<1>3. w[1] <= w[2] => pivot \in 1 .. n /\ pivot - 1 \in 0 .. n /\ pivot + 1 \in 1 .. (n + 1)
  BY <1>1, <1>2
<1>4. w[1] <= w[2] => pivot - 1 - w[1] < w[2] - w[1] /\ w[2] - (pivot + 1) < w[2] - w[1]
  BY <1>1, <1>2
<1>5. QED
  BY <1>1, <1>2, <1>3, <1>4 DEF pivot

\* The function the loop is exists, and is what a turn of it says.
LEMMA SearchTurns ==
    ASSUME NEW table \in Seq(Entry), NEW key \in Keys
    PROVE  \E from : /\ Search(table, key) = from[<<1, Len(table)>>]
                     /\ \A w \in Spans(table) : from[w] = Turned(table, key, from, w)
<1> DEFINE Whole(g) == [w \in Spans(table) |-> Turned(table, key, g, w)]
           from == CHOOSE g : g = Whole(g)
           Longer(n) == \E g : \A w \in Spans(table) :
                           w[2] - w[1] < n => g[w] = Turned(table, key, g, w)
           Done == {n \in Nat : Longer(n)}
<1> USE DEF Spans
<1>1. Len(table) \in Nat
  OBVIOUS
<1>2. Longer(0)
  <2> DEFINE g == Whole(0)
  <2>1. ASSUME NEW w \in Spans(table), w[2] - w[1] < 0 PROVE g[w] = Turned(table, key, g, w)
    <3>1. w[1] > w[2]
      BY <1>1, <2>1, SpansOf
    <3>2. QED
      BY <3>1 DEF Turned
  <2> HIDE DEF g
  <2>2. QED
    BY <2>1
<1>3. ASSUME NEW n \in Nat, Longer(n) PROVE Longer(n + 1)
  <2>1. PICK h : \A w \in Spans(table) : w[2] - w[1] < n => h[w] = Turned(table, key, h, w)
    BY <1>3
  <2> DEFINE g == Whole(h)
  <2>2. ASSUME NEW w \in Spans(table), w[2] - w[1] < n + 1 PROVE g[w] = Turned(table, key, g, w)
    <3>1. g[w] = Turned(table, key, h, w)
      OBVIOUS
    <3> DEFINE pivot == (w[1] + w[2]) \div 2
    <3>2. ASSUME w[1] <= w[2]
          PROVE  /\ g[<<w[1], pivot - 1>>] = h[<<w[1], pivot - 1>>]
                 /\ g[<<pivot + 1, w[2]>>] = h[<<pivot + 1, w[2]>>]
      <4>1. /\ <<w[1], pivot - 1>> \in Spans(table) /\ pivot - 1 - w[1] < n
            /\ <<pivot + 1, w[2]>> \in Spans(table) /\ w[2] - (pivot + 1) < n
        <5>1. w[1] \in Int /\ w[2] \in Int /\ w[2] - w[1] <= n
          BY <1>1, <2>2, SpansOf
        <5>2. /\ <<w[1], pivot - 1>> \in Spans(table) /\ <<pivot + 1, w[2]>> \in Spans(table)
              /\ pivot \in Int /\ pivot - 1 - w[1] < w[2] - w[1] /\ w[2] - (pivot + 1) < w[2] - w[1]
          <6>1. w[1] <= w[2] /\ w \in (1 .. (Len(table) + 1)) \X (0 .. Len(table))
            BY <3>2
          <6> DEFINE m == Len(table)
          <6>2. m \in Nat /\ w \in (1 .. (m + 1)) \X (0 .. m) /\ Spans(table) = (1 .. (m + 1)) \X (0 .. m)
            BY <1>1
          <6> HIDE DEF m, Spans
          <6>3. pivot \in w[1] .. w[2] /\ w[1] \in Int /\ w[2] \in Int
            BY <6>1, <6>2, SpansOf
          <6>4. <<w[1], pivot - 1>> \in Spans(table) /\ <<pivot + 1, w[2]>> \in Spans(table)
            BY <6>1, <6>2, SpansOf
          <6> HIDE DEF pivot
          <6>5. QED
            BY <6>3, <6>4
        <5> HIDE DEF pivot
        <5>3. QED
          BY <5>1, <5>2
      <4> HIDE DEF pivot
      <4>2. /\ h[<<w[1], pivot - 1>>] = Turned(table, key, h, <<w[1], pivot - 1>>)
            /\ h[<<pivot + 1, w[2]>>] = Turned(table, key, h, <<pivot + 1, w[2]>>)
        BY <2>1, <4>1
      <4>3. QED
        BY <4>1, <4>2
    <3>3. w[1] \in Int /\ w[2] \in Int
      BY <1>1, SpansOf
    <3> HIDE DEF g
    <3>4. QED
      BY <3>1, <3>2, <3>3 DEF Turned
  <2> HIDE DEF g
  <2>3. QED
    BY <2>2
<1> HIDE DEF Longer
<1>4. Nat \subseteq Done
  <2>1. 0 \in Done /\ \A n \in Nat : n \in Done => n + 1 \in Done
    BY <1>2, <1>3
  <2> HIDE DEF Done
  <2>2. QED
    BY <2>1, AllNumbers
<1>5. \E g : g = Whole(g)
  <2>1. Longer(Len(table))
    BY <1>1, <1>4
  <2>2. PICK h : \A w \in Spans(table) : w[2] - w[1] < Len(table) => h[w] = Turned(table, key, h, w)
    BY <2>1 DEF Longer
  <2>3. ASSUME NEW w \in Spans(table) PROVE w[2] - w[1] < Len(table)
    BY <1>1, SpansOf
  <2> DEFINE g == [w \in Spans(table) |-> h[w]]
  <2>4. ASSUME NEW w \in Spans(table) PROVE g[w] = Turned(table, key, g, w)
    <3>1. g[w] = Turned(table, key, h, w)
      BY <2>2, <2>3
    <3>2. w[1] <= w[2] => /\ <<w[1], ((w[1] + w[2]) \div 2) - 1>> \in Spans(table)
                          /\ <<((w[1] + w[2]) \div 2) + 1, w[2]>> \in Spans(table)
      BY <1>1, SpansOf
    <3>3. w[1] \in Int /\ w[2] \in Int
      BY <1>1, SpansOf
    <3>4. QED
      BY <3>1, <3>2, <3>3 DEF Turned
  <2>5. g = Whole(g)
    <3> HIDE DEF g
    <3>1. g = [w \in Spans(table) |-> g[w]]
      BY DEF g
    <3>2. QED
      BY <2>4, <3>1
  <2>6. QED
    BY <2>5
<1>6. from = Whole(from)
  <2> HIDE DEF Whole
  <2>1. QED
    BY <1>5
<1>7. Search(table, key) = from[<<1, Len(table)>>]
  BY DEF Search, Turned
<1>8. \A w \in Spans(table) : from[w] = Turned(table, key, from, w)
  <2> HIDE DEF from
  <2>1. QED
    BY <1>6
<1>9. QED
  BY <1>7, <1>8

(***************************************************************************)
(* The search finds a key that is there and, for one that is not, the only *)
(* place where it may go, in every table in order and for every key.       *)
(***************************************************************************)
THEOREM SearchFinds ==
    ASSUME TellsApart, NEW table \in Tables, NEW key \in Keys
    PROVE  Right(table, key, Search(table, key))
<1> DEFINE n == Len(table)
           K(p) == table[p].key
           Holds(w) == /\ \A p \in DOMAIN table : p < w[1] => Precedes(K(p), key)
                       /\ \A p \in DOMAIN table : p > w[2] => Precedes(key, K(p))
<1>1. PICK from : /\ Search(table, key) = from[<<1, Len(table)>>]
                  /\ \A w \in Spans(table) : from[w] = Turned(table, key, from, w)
  BY SearchTurns DEF Tables
<1>2. /\ n \in Nat /\ DOMAIN table = 1 .. n
      /\ \A p \in 1 .. n : K(p) \in Keys
      /\ \A p, q \in 1 .. n : p < q => Precedes(K(p), K(q))
  <2>1. table \in Seq(Entry) /\ Sorted(table)
    BY DEF Tables
  <2>2. n \in Nat /\ DOMAIN table = 1 .. n
    BY <2>1
  <2>3. ASSUME NEW p \in 1 .. n PROVE K(p) \in Keys
    <3>1. table[p] \in Entry
      BY <2>1, <2>2, ElementOfSeq
    <3>2. QED
      BY <3>1 DEF Entry
  <2>4. \A p, q \in 1 .. n : p < q => Precedes(K(p), K(q))
    BY <2>1, <2>2 DEF Sorted
  <2>5. QED
    BY <2>2, <2>3, <2>4
<1> DEFINE Good(d) == \A w \in Spans(table) : w[2] - w[1] < d /\ Holds(w) => Right(table, key, from[w])
           All == {d \in Nat : Good(d)}
<1>3. ASSUME NEW w \in Spans(table), w[1] > w[2], Holds(w) PROVE Right(table, key, from[w])
  <2>1. from[w] = [found |-> FALSE, pos |-> w[1]]
    BY <1>1, <1>3 DEF Turned
  <2>2. w[1] \in 1 .. (n + 1) /\ w[2] \in 0 .. n
    BY <1>2 DEF Spans
  <2>3. ASSUME NEW p \in 1 .. n
        PROVE  IF p < w[1] THEN Precedes(K(p), key) ELSE Precedes(key, K(p))
    BY <1>2, <1>3, <2>2
  <2>4. QED
    BY <1>2, <2>1, <2>2, <2>3 DEF Right
<1>4. Good(0)
  <2>1. ASSUME NEW w \in Spans(table), w[2] - w[1] < 0 PROVE w[1] > w[2]
    BY <1>2, <2>1 DEF Spans
  <2>2. QED
    BY <1>3, <2>1
<1>5. ASSUME NEW d \in Nat, Good(d) PROVE Good(d + 1)
  <2> SUFFICES ASSUME NEW w \in Spans(table), w[2] - w[1] < d + 1, Holds(w)
               PROVE  Right(table, key, from[w])
    OBVIOUS
  <2> DEFINE pivot == (w[1] + w[2]) \div 2
             left  == <<w[1], pivot - 1>>
             right == <<pivot + 1, w[2]>>
  <2>1. w[1] \in 1 .. (n + 1) /\ w[2] \in 0 .. n
    BY <1>2, SpansOf DEF Spans
  <2>2. CASE w[1] > w[2]
    BY <2>2, <1>3
  <2>3. CASE w[1] <= w[2]
    <3>1. pivot \in w[1] .. w[2] /\ pivot \in 1 .. n /\ left \in Spans(table) /\ right \in Spans(table)
      BY <1>2, <2>3, SpansOf DEF Spans
    <3>2. pivot - 1 - w[1] < d /\ w[2] - (pivot + 1) < d
      <4> HIDE DEF pivot
      <4>1. QED
        BY <2>1, <3>1
    <3>3. from[w] = IF Goes(key, K(pivot)) = "before" THEN from[left]
                    ELSE IF Goes(key, K(pivot)) = "same" THEN [found |-> TRUE, pos |-> pivot]
                    ELSE from[right]
      <4>1. from[w] = Turned(table, key, from, w)
        BY <1>1
      <4>2. ~ (w[1] > w[2])
        BY <2>1, <2>3
      <4>3. QED
        BY <4>1, <4>2 DEF Turned
    <3> HIDE DEF pivot
    <3>4. K(pivot) \in Keys
      BY <1>2, <3>1
    <3>5. /\ Goes(key, K(pivot)) = "before" => Precedes(key, K(pivot))
          /\ Goes(key, K(pivot)) = "same" => key = K(pivot)
          /\ Goes(key, K(pivot)) = "behind" => Precedes(K(pivot), key)
          /\ Goes(key, K(pivot)) \in {"before", "same", "behind"}
      <4> HIDE DEF K
      <4>1. QED
        BY <3>4, GoesWhereItPrecedes
    <3>6. CASE Goes(key, K(pivot)) = "before"
      <4>1. Holds(left)
        <5>1. ASSUME NEW p \in 1 .. n, p > pivot - 1 PROVE Precedes(key, K(p))
          <6>1. p = pivot \/ (p > pivot /\ Precedes(K(pivot), K(p)) /\ K(p) \in Keys)
            BY <1>2, <3>1, <5>1
          <6> HIDE DEF K
          <6>2. QED
            BY <3>4, <3>5, <3>6, <6>1, PrecedesOnward
        <5>2. QED
          BY <1>2, <5>1
      <4>2. left[2] - left[1] < d
        BY <3>2
      <4>3. Right(table, key, from[left])
        <5> HIDE DEF left, Holds
        <5>1. QED
          BY <1>5, <3>1, <4>1, <4>2
      <4>4. QED
        BY <3>3, <3>6, <4>3
    <3>7. CASE Goes(key, K(pivot)) = "same"
      BY <1>2, <3>1, <3>3, <3>5, <3>7 DEF Right
    <3>8. CASE Goes(key, K(pivot)) = "behind"
      <4>1. Holds(right)
        <5>1. ASSUME NEW p \in 1 .. n, p < pivot + 1 PROVE Precedes(K(p), key)
          <6>1. p = pivot \/ (p < pivot /\ Precedes(K(p), K(pivot)) /\ K(p) \in Keys)
            BY <1>2, <3>1, <5>1
          <6> HIDE DEF K
          <6>2. QED
            BY <3>4, <3>5, <3>8, <6>1, PrecedesOnward
        <5>2. QED
          BY <1>2, <5>1
      <4>2. right[2] - right[1] < d
        BY <3>2
      <4>3. Right(table, key, from[right])
        <5> HIDE DEF right, Holds
        <5>1. QED
          BY <1>5, <3>1, <4>1, <4>2
      <4>4. QED
        BY <3>3, <3>8, <4>3
    <3>9. QED
      BY <3>5, <3>6, <3>7, <3>8
  <2>4. QED
    BY <2>1, <2>2, <2>3
<1> HIDE DEF Good
<1>6. Nat \subseteq All
  <2>1. 0 \in All /\ \A d \in Nat : d \in All => d + 1 \in All
    BY <1>4, <1>5
  <2> HIDE DEF All
  <2>2. QED
    BY <2>1, AllNumbers
<1>7. Good(n)
  BY <1>2, <1>6
<1>8. <<1, n>> \in Spans(table) /\ n - 1 < n /\ Holds(<<1, n>>)
  BY <1>2 DEF Spans
<1>9. QED
  <2> DEFINE w == <<1, n>>
  <2>1. w[2] - w[1] < n
    BY <1>2
  <2>2. Right(table, key, from[w])
    <3> HIDE DEF w, Holds
    <3>1. w \in Spans(table) /\ Holds(w)
      BY <1>8 DEF w
    <3>2. QED
      BY <1>7, <2>1, <3>1 DEF Good
  <2>3. QED
    BY <1>1, <2>2

----------------------------------------------------------------------------
Entries(table) == {table[p] : p \in DOMAIN table}

\* What an entry of a table is.
LEMMA TableIsOf ==
    ASSUME NEW table \in Tables
    PROVE  /\ table \in Seq(Entry) /\ Len(table) \in Nat /\ DOMAIN table = 1 .. Len(table)
           /\ \A p \in 1 .. Len(table) : /\ table[p] \in Entry /\ table[p].key \in Keys
                                         /\ table[p].idx \in Nat
           /\ \A p, q \in 1 .. Len(table) : p < q => Precedes(table[p].key, table[q].key)
<1>1. table \in Seq(Entry) /\ Sorted(table)
  BY DEF Tables
<1>2. Len(table) \in Nat /\ DOMAIN table = 1 .. Len(table)
  BY <1>1
<1>3. ASSUME NEW p \in 1 .. Len(table)
      PROVE  table[p] \in Entry /\ table[p].key \in Keys /\ table[p].idx \in Nat
  <2>1. table[p] \in Entry
    BY <1>1, <1>2, ElementOfSeq
  <2>2. QED
    BY <2>1 DEF Entry
<1>4. QED
  BY <1>1, <1>2, <1>3 DEF Sorted

\* Inserting moves what is at the place, and after it, one further.
LEMMA InsertedAt ==
    ASSUME NEW S, NEW s \in Seq(S), NEW i \in 1 .. (Len(s) + 1), NEW e \in S
    PROVE  /\ InsertAt(s, i, e) \in Seq(S) /\ Len(InsertAt(s, i, e)) = Len(s) + 1
           /\ \A p \in 1 .. (Len(s) + 1) :
                InsertAt(s, i, e)[p] = IF p < i THEN s[p] ELSE IF p = i THEN e ELSE s[p - 1]
<1>1. Len(s) \in Nat
  OBVIOUS
<1> DEFINE left == SubSeq(s, 1, i - 1)
           right == SubSeq(s, i, Len(s))
<1>2. left \in Seq(S) /\ Len(left) = i - 1 /\ \A p \in 1 .. (i - 1) : left[p] = s[p]
  BY <1>1
<1>3. right \in Seq(S) /\ Len(right) = Len(s) - i + 1 /\ \A p \in 1 .. (Len(s) - i + 1) : right[p] = s[i + p - 1]
  BY <1>1
<1> HIDE DEF left, right
<1> DEFINE most == left \o <<e>>
<1>4. most \in Seq(S) /\ Len(most) = i /\ \A p \in 1 .. i : most[p] = IF p < i THEN s[p] ELSE e
  BY <1>1, <1>2
<1> HIDE DEF most
<1> DEFINE both == most \o right
<1>5. /\ both \in Seq(S) /\ Len(both) = Len(s) + 1
      /\ \A p \in 1 .. (Len(s) + 1) : both[p] = IF p <= i THEN most[p] ELSE right[p - i]
  <2>1. /\ both \in Seq(S) /\ Len(both) = Len(most) + Len(right)
        /\ \A p \in 1 .. Len(most) + Len(right) :
              both[p] = IF p <= Len(most) THEN most[p] ELSE right[p - Len(most)]
    BY <1>3, <1>4, ConcatProperties
  <2> HIDE DEF both
  <2>2. Len(most) + Len(right) = Len(s) + 1
    BY <1>1, <1>3, <1>4
  <2>3. QED
    BY <1>4, <2>1, <2>2
<1>6. InsertAt(s, i, e) = both
  BY DEF InsertAt, most, left, right
<1> HIDE DEF both
<1>7. ASSUME NEW p \in 1 .. (Len(s) + 1)
      PROVE  both[p] = IF p < i THEN s[p] ELSE IF p = i THEN e ELSE s[p - 1]
  <2>1. CASE p <= i
    BY <1>4, <1>5, <2>1
  <2>2. CASE p > i
    <3>1. p - i \in 1 .. (Len(s) - i + 1) /\ i + (p - i) - 1 = p - 1
      BY <1>1, <2>2
    <3>2. both[p] = right[p - i] /\ right[p - i] = s[p - 1]
      BY <1>1, <1>3, <1>5, <2>2, <3>1
    <3>3. QED
      BY <1>1, <2>2, <3>2
  <2>3. QED
    BY <1>1, <2>1, <2>2
<1>8. QED
  BY <1>5, <1>6, <1>7

(***************************************************************************)
(* What is inserted where the search says keeps the table in order, with   *)
(* all that has been there.                                                *)
(***************************************************************************)
THEOREM InsertKeepsOrder ==
    ASSUME TellsApart, NEW table \in Tables, NEW key \in Keys, NEW idx \in Nat,
           ~ Search(table, key).found
    PROVE  /\ Insert(table, key, idx) \in Tables
           /\ Entries(Insert(table, key, idx)) = Entries(table) \cup {[key |-> key, idx |-> idx]}
<1> DEFINE n   == Len(table)
           i   == Search(table, key).pos
           e   == [key |-> key, idx |-> idx]
           new == Insert(table, key, idx)
<1>1. /\ i \in 1 .. (n + 1)
      /\ \A p \in 1 .. n : IF p < i THEN Precedes(table[p].key, key) ELSE Precedes(key, table[p].key)
  BY SearchFinds, TableIsOf DEF Right
<1>2. /\ table \in Seq(Entry) /\ n \in Nat /\ DOMAIN table = 1 .. n
      /\ \A p, q \in 1 .. n : p < q => Precedes(table[p].key, table[q].key)
  BY TableIsOf
<1>3. e \in Entry
  BY DEF Entry
<1>4. new = InsertAt(table, i, e)
  BY DEF Insert
<1> HIDE DEF i, new, e
<1>5. /\ new \in Seq(Entry) /\ Len(new) = n + 1 /\ DOMAIN new = 1 .. (n + 1)
      /\ \A p \in 1 .. (n + 1) : new[p] = IF p < i THEN table[p] ELSE IF p = i THEN e ELSE table[p - 1]
  <2>1. table \in Seq(Entry) /\ i \in 1 .. (Len(table) + 1)
    BY <1>1, <1>2
  <2>2. /\ InsertAt(table, i, e) \in Seq(Entry) /\ Len(InsertAt(table, i, e)) = Len(table) + 1
        /\ \A p \in 1 .. (Len(table) + 1) :
             InsertAt(table, i, e)[p] = IF p < i THEN table[p] ELSE IF p = i THEN e ELSE table[p - 1]
    <3> HIDE DEF n
    <3>1. QED
      BY <1>3, <2>1, InsertedAt
  <2>3. new \in Seq(Entry) /\ Len(new) = n + 1
    BY <1>4, <2>2
  <2>4. DOMAIN new = 1 .. (n + 1)
    BY <2>3
  <2>5. QED
    BY <1>4, <2>2, <2>3, <2>4
<1> HIDE DEF n
<1>6. Sorted(new)
  <2> SUFFICES ASSUME NEW p \in 1 .. (n + 1), NEW q \in 1 .. (n + 1), p < q
               PROVE  Precedes(new[p].key, new[q].key)
    BY <1>5 DEF Sorted
  <2>1. e.key = key
    BY DEF e
  <2>2. CASE q < i
    BY <1>1, <1>2, <1>5, <2>2
  <2>3. CASE q = i
    BY <1>1, <1>2, <1>5, <2>1, <2>3
  <2>4. CASE i < q /\ p = i
    BY <1>1, <1>2, <1>5, <2>1, <2>4
  <2>5. CASE i < q /\ p < i
    <3>1. q - 1 \in 1 .. n /\ p \in 1 .. n /\ p < q - 1
      BY <1>1, <1>2, <2>5
    <3>2. new[p] = table[p] /\ new[q] = table[q - 1]
      BY <1>1, <1>5, <2>5
    <3>3. QED
      BY <1>2, <3>1, <3>2
  <2>6. CASE i < q /\ i < p
    <3>1. q - 1 \in 1 .. n /\ p - 1 \in 1 .. n /\ p - 1 < q - 1
      BY <1>1, <1>2, <2>6
    <3>2. new[p] = table[p - 1] /\ new[q] = table[q - 1]
      BY <1>1, <1>5, <2>6
    <3>3. QED
      BY <1>2, <3>1, <3>2
  <2>7. QED
    BY <1>1, <1>2, <2>2, <2>3, <2>4, <2>5, <2>6
<1>7. Entries(new) = Entries(table) \cup {e}
  <2>1. ASSUME NEW x \in Entries(new) PROVE x \in Entries(table) \cup {e}
    <3>1. PICK p \in 1 .. (n + 1) : x = new[p]
      BY <1>5 DEF Entries
    <3>2. \/ p < i /\ p \in 1 .. n /\ x = table[p]
          \/ p = i /\ x = e
          \/ p > i /\ p - 1 \in 1 .. n /\ x = table[p - 1]
      BY <1>1, <1>2, <1>5, <3>1
    <3>3. QED
      BY <1>2, <3>2 DEF Entries
  <2>2. ASSUME NEW x \in Entries(table) PROVE x \in Entries(new)
    <3>1. PICK p \in 1 .. n : x = table[p]
      BY <1>2 DEF Entries
    <3>2. CASE p < i
      <4>1. p \in 1 .. (n + 1) /\ new[p] = x
        BY <1>2, <1>5, <3>1, <3>2
      <4>2. QED
        BY <1>5, <4>1 DEF Entries
    <3>3. CASE i <= p
      <4>1. p + 1 \in 1 .. (n + 1) /\ new[p + 1] = x
        BY <1>1, <1>2, <1>5, <3>1, <3>3
      <4>2. QED
        BY <1>5, <4>1 DEF Entries
    <3>4. QED
      BY <1>1, <1>2, <3>2, <3>3
  <2>3. e \in Entries(new)
    <3>1. new[i] = e
      BY <1>1, <1>2, <1>5
    <3>2. QED
      BY <1>1, <1>5, <3>1 DEF Entries
  <2>4. QED
    BY <2>1, <2>2, <2>3
<1>8. QED
  BY <1>5, <1>6, <1>7 DEF Tables, new, e

\* What is there is found, under the one entry it has.
LEMMA FoundIfThere ==
    ASSUME TellsApart, NEW table \in Tables, NEW key \in Keys
    PROVE  /\ Search(table, key).found = (\E e \in Entries(table) : e.key = key)
           /\ \A e \in Entries(table) : e.key = key => /\ Search(table, key).pos \in DOMAIN table
                                                       /\ table[Search(table, key).pos] = e
<1> DEFINE n == Len(table)
           r == Search(table, key)
<1>1. Right(table, key, r)
  BY SearchFinds
<1>2. /\ n \in Nat /\ DOMAIN table = 1 .. n
      /\ \A p \in 1 .. n : table[p].key \in Keys
      /\ \A p, q \in 1 .. n : p < q => Precedes(table[p].key, table[q].key)
  BY TableIsOf
<1> HIDE DEF r
<1>3. CASE r.found
  <2>1. r.pos \in 1 .. n /\ table[r.pos].key = key
    BY <1>1, <1>2, <1>3 DEF Right
  <2>2. ASSUME NEW p \in 1 .. n, table[p].key = key PROVE p = r.pos
    <3>1. ~ Precedes(key, key)
      BY NoneBoth
    <3>2. QED
      BY <1>2, <2>1, <2>2, <3>1
  <2>3. QED
    BY <1>2, <1>3, <2>1, <2>2 DEF Entries, r
<1>4. CASE ~ r.found
  <2>1. ASSUME NEW p \in 1 .. n PROVE table[p].key # key
    <3>1. Precedes(table[p].key, key) \/ Precedes(key, table[p].key)
      BY <1>1, <1>2, <1>4 DEF Right
    <3>2. QED
      BY <1>2, <3>1, NoneBoth
  <2>2. QED
    BY <1>1, <1>2, <1>4, <2>1 DEF Entries, r, Right
<1>5. QED
  BY <1>3, <1>4

----------------------------------------------------------------------------
\* What the hosts are as they are being added: every name is of one of them.
HostTables ==
    {hosts \in [used : Nat, index : Tables, default : Nat, ok : BOOLEAN] :
        /\ hosts.default <= hosts.used
        /\ \A e \in Entries(hosts.index) : e.idx \in 1 .. hosts.used}

Known(hosts, name) == \E e \in Entries(hosts.index) : e.key = name

\* The server starts without names.
LEMMA NoHostsYet == NoHosts \in HostTables /\ \A name \in Keys : ~ Known(NoHosts, name)
<1>1. <<>> \in Tables /\ Entries(<<>>) = {}
  BY DEF Tables, Sorted, Entries
<1>2. QED
  BY <1>1 DEF NoHosts, HostTables, Known

\* get_host answers with the host of the one entry of the name.
LEMMA HostOfEntry ==
    ASSUME TellsApart, NEW hosts, hosts.index \in Tables, NEW name \in Keys
    PROVE  /\ \A e \in Entries(hosts.index) : e.key = name => GetHost(hosts, name) = e.idx
           /\ ~ Known(hosts, name) => GetHost(hosts, name) = 0
<1> DEFINE index == hosts.index
<1>1. /\ Search(index, name).found = (\E e \in Entries(index) : e.key = name)
      /\ \A e \in Entries(index) : e.key = name => index[Search(index, name).pos] = e
  <2>1. index \in Tables
    OBVIOUS
  <2> HIDE DEF index
  <2>2. QED
    BY <2>1, FoundIfThere
<1>2. GetHost(hosts, name) = IF Search(index, name).found THEN index[Search(index, name).pos].idx ELSE 0
  BY DEF GetHost
<1>3. QED
  BY <1>1, <1>2 DEF Known

\* add_host_index refuses a name that is there; another one it adds, without a
\* change to what any name stood for.
LEMMA NameIsAdded ==
    ASSUME TellsApart, NEW hosts \in HostTables, hosts.ok, NEW name \in Keys, NEW idx \in Nat
    PROVE  /\ Known(hosts, name) => AddHostIndex(hosts, name, idx) = Refused(hosts)
           /\ ~ Known(hosts, name) =>
                LET new == AddHostIndex(hosts, name, idx)
                IN  /\ new = [hosts EXCEPT !.index = Insert(hosts.index, name, idx)]
                    /\ new.index \in Tables
                    /\ Entries(new.index) = Entries(hosts.index) \cup {[key |-> name, idx |-> idx]}
                    /\ \A other \in Keys : GetHost(new, other) = IF other = name THEN idx ELSE GetHost(hosts, other)
<1> DEFINE new == AddHostIndex(hosts, name, idx)
<1>1. hosts \in [used : Nat, index : Tables, default : Nat, ok : BOOLEAN]
  BY DEF HostTables
<1>2. hosts.index \in Tables
  BY <1>1
<1>3. Search(hosts.index, name).found = Known(hosts, name)
  BY <1>2, FoundIfThere DEF Known
<1>4. CASE Known(hosts, name)
  BY <1>3, <1>4 DEF AddHostIndex
<1>5. CASE ~ Known(hosts, name)
  <2>1. new = [hosts EXCEPT !.index = Insert(hosts.index, name, idx)]
    BY <1>3, <1>5 DEF AddHostIndex
  <2>2. new.index = Insert(hosts.index, name, idx)
    BY <1>1, <2>1
  <2>3. /\ new.index \in Tables
        /\ Entries(new.index) = Entries(hosts.index) \cup {[key |-> name, idx |-> idx]}
    BY <1>2, <1>3, <1>5, <2>2, InsertKeepsOrder
  <2> HIDE DEF new
  <2>4. ASSUME NEW other \in Keys
        PROVE  GetHost(new, other) = IF other = name THEN idx ELSE GetHost(hosts, other)
    <3>1. CASE other = name
      <4> DEFINE e == [key |-> name, idx |-> idx]
      <4>1. e \in Entries(new.index) /\ e.key = name /\ e.idx = idx
        BY <2>3
      <4> HIDE DEF e
      <4>2. GetHost(new, name) = e.idx
        BY <2>3, <4>1, HostOfEntry
      <4>3. QED
        BY <3>1, <4>1, <4>2
    <3>2. CASE other # name /\ Known(hosts, other)
      <4>1. PICK e \in Entries(hosts.index) : e.key = other
        BY <3>2 DEF Known
      <4>2. e \in Entries(new.index)
        BY <2>3
      <4>3. GetHost(new, other) = e.idx /\ GetHost(hosts, other) = e.idx
        BY <1>2, <2>3, <4>1, <4>2, HostOfEntry
      <4>4. QED
        BY <3>2, <4>3
    <3>3. CASE other # name /\ ~ Known(hosts, other)
      <4>1. ~ Known(new, other)
        BY <2>3, <3>3 DEF Known
      <4>2. GetHost(new, other) = 0 /\ GetHost(hosts, other) = 0
        BY <1>2, <2>3, <3>3, <4>1, HostOfEntry
      <4>3. QED
        BY <3>3, <4>2
    <3>4. QED
      BY <3>1, <3>2, <3>3
  <2>5. QED
    BY <1>5, <2>1, <2>3, <2>4 DEF new
<1>6. QED
  BY <1>4, <1>5

(***************************************************************************)
(* A host is refused exactly for a name that is there or for a second      *)
(* default one; after any other its name stands for it, and all other names*)
(* for what they stood for.                                                *)
(***************************************************************************)
THEOREM HostIsAdded ==
    ASSUME TellsApart, NEW hosts \in HostTables, hosts.ok, NEW name \in Keys, NEW default \in BOOLEAN
    PROVE  LET new == AddHost(hosts, name, default)
           IN  /\ new.ok = (~ Known(hosts, name) /\ ~ (default /\ hosts.default # 0))
               /\ new.ok =>
                     /\ new \in HostTables /\ new.used = hosts.used + 1
                     /\ new.default = IF default THEN new.used ELSE hosts.default
                     /\ \A other \in Keys :
                           GetHost(new, other) = IF other = name THEN new.used ELSE GetHost(hosts, other)
<1> DEFINE idx   == hosts.used + 1
           added == AddHostIndex(hosts, name, idx)
           new   == AddHost(hosts, name, default)
<1>1. /\ hosts \in [used : Nat, index : Tables, default : Nat, ok : BOOLEAN]
      /\ hosts.default <= hosts.used
      /\ \A e \in Entries(hosts.index) : e.idx \in 1 .. hosts.used
  BY DEF HostTables
<1>2. idx \in Nat
  BY <1>1
<1>3. CASE default /\ hosts.default # 0
  <2>1. new.ok = FALSE
    BY <1>1, <1>3 DEF AddHost, Refused
  <2>2. QED
    BY <1>3, <2>1
<1>4. CASE ~ (default /\ hosts.default # 0) /\ Known(hosts, name)
  <2>1. added = Refused(hosts)
    BY <1>2, <1>4, NameIsAdded
  <2>2. added.ok = FALSE
    BY <1>1, <2>1 DEF Refused
  <2> HIDE DEF added
  <2>3. new = added
    BY <1>4, <2>2 DEF AddHost, added
  <2>4. QED
    BY <1>4, <2>2, <2>3
<1>5. CASE ~ (default /\ hosts.default # 0) /\ ~ Known(hosts, name)
  <2>1. /\ added = [hosts EXCEPT !.index = Insert(hosts.index, name, idx)]
        /\ added.index \in Tables
        /\ Entries(added.index) = Entries(hosts.index) \cup {[key |-> name, idx |-> idx]}
        /\ \A other \in Keys : GetHost(added, other) = IF other = name THEN idx ELSE GetHost(hosts, other)
    BY <1>2, <1>5, NameIsAdded
  <2>2. /\ added \in [used : Nat, index : Tables, default : Nat, ok : BOOLEAN]
        /\ added.ok /\ added.used = hosts.used /\ added.default = hosts.default
    BY <1>1, <2>1
  <2>3. new = [added EXCEPT !.used = idx, !.default = IF default THEN idx ELSE @]
    BY <1>5, <2>2 DEF AddHost
  <2> HIDE DEF added
  <2>4. /\ new \in [used : Nat, index : Tables, default : Nat, ok : BOOLEAN]
        /\ new.ok /\ new.used = idx /\ new.default = (IF default THEN idx ELSE hosts.default)
        /\ new.index = added.index
    BY <1>2, <2>2, <2>3
  <2> HIDE DEF new
  <2>5. ASSUME NEW other \in Keys PROVE GetHost(new, other) = GetHost(added, other)
    BY <2>4 DEF GetHost
  <2>6. ASSUME NEW e \in Entries(new.index) PROVE e.idx \in 1 .. new.used
    BY <1>1, <1>2, <2>1, <2>4
  <2>7. new.default <= new.used
    BY <1>1, <2>4
  <2>8. new \in HostTables
    BY <2>4, <2>6, <2>7 DEF HostTables
  <2>9. QED
    BY <1>5, <2>1, <2>4, <2>5, <2>8 DEF new
<1>6. QED
  BY <1>3, <1>4, <1>5

(***************************************************************************)
(* An alias stands for the host that has been added last, and is refused if*)
(* it is a name already.                                                   *)
(***************************************************************************)
THEOREM AliasIsAdded ==
    ASSUME TellsApart, NEW hosts \in HostTables, hosts.ok, hosts.used # 0, NEW name \in Keys
    PROVE  LET new == AddAlias(hosts, name)
           IN  /\ new.ok = ~ Known(hosts, name)
               /\ new.ok =>
                     /\ new \in HostTables /\ new.used = hosts.used /\ new.default = hosts.default
                     /\ \A other \in Keys :
                           GetHost(new, other) = IF other = name THEN hosts.used ELSE GetHost(hosts, other)
<1> DEFINE new == AddAlias(hosts, name)
<1>1. /\ hosts \in [used : Nat, index : Tables, default : Nat, ok : BOOLEAN]
      /\ hosts.default <= hosts.used
      /\ \A e \in Entries(hosts.index) : e.idx \in 1 .. hosts.used
  BY DEF HostTables
<1>2. new = AddHostIndex(hosts, name, hosts.used) /\ hosts.used \in Nat
  BY <1>1 DEF AddAlias
<1>3. CASE Known(hosts, name)
  <2>1. new = Refused(hosts)
    BY <1>2, <1>3, NameIsAdded
  <2>2. new.ok = FALSE
    BY <1>1, <2>1 DEF Refused
  <2>3. QED
    BY <1>3, <2>2
<1>4. CASE ~ Known(hosts, name)
  <2>1. /\ new = [hosts EXCEPT !.index = Insert(hosts.index, name, hosts.used)]
        /\ new.index \in Tables
        /\ Entries(new.index) = Entries(hosts.index) \cup {[key |-> name, idx |-> hosts.used]}
        /\ \A other \in Keys : GetHost(new, other) = IF other = name THEN hosts.used ELSE GetHost(hosts, other)
    BY <1>2, <1>4, NameIsAdded
  <2> HIDE DEF new
  <2>2. /\ new \in [used : Nat, index : Tables, default : Nat, ok : BOOLEAN]
        /\ new.ok /\ new.used = hosts.used /\ new.default = hosts.default
    BY <1>1, <2>1
  <2>3. ASSUME NEW e \in Entries(new.index) PROVE e.idx \in 1 .. new.used
    BY <1>1, <2>1, <2>2
  <2>4. new \in HostTables
    BY <1>1, <2>2, <2>3 DEF HostTables
  <2>5. QED
    BY <1>4, <2>1, <2>2, <2>4 DEF new
<1>5. QED
  BY <1>3, <1>4

----------------------------------------------------------------------------
\* What is so of a number if it is so of all after it, up to the last.
LEMMA DownFrom ==
    ASSUME NEW n \in Nat, NEW S, \A k \in 1 .. n : (\A m \in (k + 1) .. n : m \in S) => k \in S
    PROVE  1 .. n \subseteq S
<1> DEFINE Bad == {k \in 0 .. n : n - k \notin S /\ k # n}
<1> SUFFICES ASSUME NEW j \in 1 .. n, j \notin S PROVE FALSE
  OBVIOUS
<1>1. n - j \in Bad
  <2>1. n - j \in 0 .. n /\ n - (n - j) = j /\ n - j # n
    OBVIOUS
  <2>2. QED
    BY <2>1
<1>2. Bad \subseteq Nat
  OBVIOUS
<1>3. PICK b \in Bad : \A c \in Bad : b <= c
  <2> HIDE DEF Bad
  <2>1. QED
    BY <1>1, <1>2, LeastNumber
<1>4. b \in 0 .. n /\ b # n /\ n - b \notin S /\ n - b \in 1 .. n
  BY <1>3
<1>5. ASSUME NEW m \in (n - b + 1) .. n PROVE m \in S
  <2>1. n - m \in 0 .. n /\ n - m < b /\ n - (n - m) = m /\ n - m # n
    BY <1>4
  <2>2. n - m \notin Bad
    BY <1>3, <1>4, <2>1
  <2>3. QED
    BY <2>1, <2>2
<1>6. QED
  BY <1>4, <1>5

\* The least number up to n of which something is so.
LEMMA LeastUpTo ==
    ASSUME NEW i \in Nat, NEW n \in Nat, NEW S, NEW k \in i .. n, k \in S
    PROVE  \E m \in i .. n : m \in S /\ \A j \in i .. (m - 1) : j \notin S
<1> DEFINE Fit == {m \in i .. n : m \in S}
<1>1. Fit \subseteq Nat /\ k \in Fit
  OBVIOUS
<1>2. PICK m \in Fit : \A j \in Fit : m <= j
  <2> HIDE DEF Fit
  <2>1. QED
    BY <1>1, LeastNumber
<1>3. m \in i .. n /\ m \in S
  BY <1>2
<1>4. ASSUME NEW j \in i .. (m - 1), j \in S PROVE FALSE
  <2>1. j \in Fit /\ j < m
    BY <1>3, <1>4
  <2>2. QED
    BY <1>2, <1>3, <2>1
<1>5. QED
  BY <1>3, <1>4

(***************************************************************************)
(* The rule that is found is the first one that matches, and none is found *)
(* only where none does.                                                   *)
(***************************************************************************)
THEOREM FirstIsFound ==
    ASSUME NEW rules, Len(rules) \in Nat, NEW method, NEW path, NEW extension
    PROVE  LET found   == Find(rules, method, path, extension)
               Fits(i) == Match(rules[i], method, path, extension)
           IN  /\ found \in 0 .. Len(rules)
               /\ found # 0 => Fits(found) /\ \A i \in 1 .. (found - 1) : ~ Fits(i)
               /\ found = 0 => \A i \in 1 .. Len(rules) : ~ Fits(i)
<1> DEFINE n == Len(rules)
           Fits(i) == Match(rules[i], method, path, extension)
           Fit == {i \in 1 .. n : Fits(i)}
           Whole(g) == [i \in 1 .. (n + 1) |-> IF i > n THEN 0 ELSE IF Fits(i) THEN i ELSE g[i + 1]]
           from == CHOOSE g : g = Whole(g)
           IsFirst(i, m) == /\ m \in i .. n /\ m \in Fit /\ \A j \in i .. (m - 1) : j \notin Fit
           Least(i, m) == \/ IsFirst(i, m)
                          \/ m = 0 /\ \A j \in i .. n : j \notin Fit
<1>1. \A i \in 1 .. (n + 1) : \E m : Least(i, m)
  <2> SUFFICES ASSUME NEW i \in 1 .. (n + 1) PROVE \E m : Least(i, m)
    OBVIOUS
  <2> HIDE DEF Fit
  <2>1. CASE \E k \in i .. n : k \in Fit
    <3>1. PICK k \in i .. n : k \in Fit
      BY <2>1
    <3>2. i \in Nat /\ n \in Nat
      OBVIOUS
    <3> HIDE DEF n
    <3>3. \E m \in i .. n : m \in Fit /\ \A j \in i .. (m - 1) : j \notin Fit
      BY <3>1, <3>2, LeastUpTo
    <3>4. QED
      BY <3>3
  <2>2. CASE \A k \in i .. n : k \notin Fit
    BY <2>2
  <2>3. QED
    BY <2>1, <2>2
<1>2. \E g : g = Whole(g)
  <2> DEFINE g == [i \in 1 .. (n + 1) |-> CHOOSE m : Least(i, m)]
  <2>1. ASSUME NEW i \in 1 .. (n + 1) PROVE Least(i, g[i])
    <3> HIDE DEF Least
    <3>1. QED
      BY <1>1
  <2> HIDE DEF g
  <2>2. ASSUME NEW i \in 1 .. (n + 1)
        PROVE  g[i] = IF i > n THEN 0 ELSE IF Fits(i) THEN i ELSE g[i + 1]
    <3> HIDE DEF Fits
    <3>1. CASE i > n
      BY <2>1, <3>1
    <3>2. CASE i <= n /\ Fits(i)
      <4>1. i \in i .. n /\ i \in Fit
        BY <3>2
      <4>2. QED
        BY <2>1, <3>2, <4>1
    <3>3. CASE i <= n /\ ~ Fits(i)
      <4>1. i \notin Fit /\ i + 1 \in 1 .. (n + 1)
        BY <3>3
      <4>2. Least(i, g[i]) /\ Least(i + 1, g[i + 1])
        BY <2>1, <4>1
      <4> HIDE DEF Fit
      <4>3. g[i] = g[i + 1]
        BY <3>3, <4>1, <4>2
      <4>4. QED
        BY <3>3, <4>3
    <3>4. QED
      BY <3>1, <3>2, <3>3
  <2>3. g = Whole(g)
    <3>1. g = [i \in 1 .. (n + 1) |-> g[i]]
      <4> HIDE DEF Least
      <4>1. QED
        BY DEF g
    <3>2. QED
      BY <2>2, <3>1
  <2>4. QED
    BY <2>3
<1>3. from = Whole(from)
  <2> HIDE DEF Whole
  <2>1. QED
    BY <1>2
<1>4. Find(rules, method, path, extension) = from[1]
  BY DEF Find
<1> HIDE DEF from, Fits
<1>5. \A i \in 1 .. (n + 1) : from[i] = IF i > n THEN 0 ELSE IF Fits(i) THEN i ELSE from[i + 1]
  BY <1>3
<1> DEFINE Good == {i \in 1 .. (n + 1) : Least(i, from[i])}
<1>6. ASSUME NEW i \in 1 .. (n + 1), \A m \in (i + 1) .. (n + 1) : m \in Good PROVE i \in Good
  <2>1. CASE i > n
    BY <1>5, <2>1
  <2>2. CASE i <= n /\ Fits(i)
    <3>1. i \in Fit /\ i \in i .. n /\ from[i] = i
      BY <1>5, <2>2
    <3>2. QED
      BY <3>1
  <2>3. CASE i <= n /\ ~ Fits(i)
    <3>1. i \notin Fit /\ from[i] = from[i + 1] /\ Least(i + 1, from[i + 1])
      BY <1>5, <1>6, <2>3
    <3> HIDE DEF Fit
    <3>2. Least(i, from[i + 1])
      BY <2>3, <3>1
    <3>3. QED
      BY <3>1, <3>2
  <2>4. QED
    BY <2>1, <2>2, <2>3
<1>7. 1 .. (n + 1) \subseteq Good
  <2> HIDE DEF Good
  <2>1. n + 1 \in Nat
    OBVIOUS
  <2>2. QED
    BY <1>6, <2>1, DownFrom
<1>8. Least(1, from[1])
  BY <1>7
<1>9. QED
  BY <1>4, <1>8 DEF Fits

----------------------------------------------------------------------------
Paths == {path \in Keys : path # <<>> /\ path[1] = "/"}

\* The paths a file may name but for those that end in two slashes.
RulePaths == {path \in Paths : Len(path) > 1 /\ path[Len(path)] = "/" => path[Len(path) - 1] # "/"}

Has(table, key) == \E e \in Entries(table) : e.key = key

\* What a path begins with is a path.
LEMMA PathIsOf ==
    ASSUME NEW path \in Paths
    PROVE  /\ path \in Keys /\ path[1] = "/" /\ Len(path) \in Nat \ {0} /\ DOMAIN path = 1 .. Len(path)
           /\ \A l \in 1 .. Len(path) : /\ SubSeq(path, 1, l) \in Paths /\ Len(SubSeq(path, 1, l)) = l
                                        /\ \A i \in 1 .. l : SubSeq(path, 1, l)[i] = path[i]
<1>1. path \in Seq(DOMAIN Order) /\ path # <<>> /\ path[1] = "/"
  BY DEF Paths, Keys
<1>2. Len(path) \in Nat \ {0} /\ DOMAIN path = 1 .. Len(path)
  BY <1>1
<1>3. ASSUME NEW l \in 1 .. Len(path)
      PROVE  /\ SubSeq(path, 1, l) \in Paths /\ Len(SubSeq(path, 1, l)) = l
             /\ \A i \in 1 .. l : SubSeq(path, 1, l)[i] = path[i]
  <2> DEFINE part == SubSeq(path, 1, l)
  <2>1. part \in Seq(DOMAIN Order) /\ Len(part) = l /\ \A i \in 1 .. l : part[i] = path[i]
    BY <1>1, <1>2
  <2> HIDE DEF part
  <2>2. part # <<>> /\ part[1] = "/"
    BY <1>1, <2>1
  <2>3. QED
    BY <2>1, <2>2 DEF Paths, Keys, part
<1>4. QED
  BY <1>1, <1>2, <1>3 DEF Keys

\* A path without the slash at its end is what it begins with.
LEMMA TrimmedIsOf ==
    ASSUME NEW path \in Paths
    PROVE  /\ Trimmed(path) \in Paths
           /\ LET len == Len(Trimmed(path))
              IN  /\ len \in 1 .. Len(path) /\ Trimmed(path) = SubSeq(path, 1, len)
                  /\ len = IF Len(path) > 1 /\ path[Len(path)] = "/" THEN Len(path) - 1 ELSE Len(path)
                  /\ \A i \in 1 .. len : Trimmed(path)[i] = path[i]
<1>1. /\ path \in Keys /\ path[1] = "/" /\ Len(path) \in Nat \ {0}
      /\ \A l \in 1 .. Len(path) : /\ SubSeq(path, 1, l) \in Paths /\ Len(SubSeq(path, 1, l)) = l
                                   /\ \A i \in 1 .. l : SubSeq(path, 1, l)[i] = path[i]
  BY PathIsOf
<1>2. CASE Len(path) > 1 /\ path[Len(path)] = "/"
  <2>1. Trimmed(path) = SubSeq(path, 1, Len(path) - 1) /\ Len(path) - 1 \in 1 .. Len(path)
    BY <1>1, <1>2 DEF Trimmed, Last, Front
  <2>2. QED
    BY <1>1, <1>2, <2>1
<1>3. CASE ~ (Len(path) > 1 /\ path[Len(path)] = "/")
  <2>1. Trimmed(path) = path
    BY <1>3 DEF Trimmed, Last
  <2>2. path = SubSeq(path, 1, Len(path))
    <3>1. path \in Seq(DOMAIN Order)
      BY <1>1 DEF Keys
    <3>2. QED
      BY <3>1
  <2>3. Len(path) \in 1 .. Len(path) /\ path \in Paths
    BY <1>1
  <2>4. QED
    BY <1>3, <2>1, <2>2, <2>3
<1>4. QED
  BY <1>2, <1>3

(***************************************************************************)
(* A path is in the list if it, or what it begins with up to a slash, is an*)
(* entry.                                                                  *)
(***************************************************************************)
LEMMA PathIsFound ==
    ASSUME TellsApart, NEW paths \in Tables, NEW path \in Paths
    PROVE  LET len == Len(Trimmed(path))
           IN  PathExists(paths, path) <=>
                  \E l \in 1 .. len : /\ l = 1 \/ l = len \/ path[l + 1] = "/"
                                      /\ Has(paths, SubSeq(path, 1, l))
<1> DEFINE len == Len(Trimmed(path))
           Stop == {l \in 1 .. len : l = len \/ path[l + 1] = "/"}
           rest(l) == {m \in (l + 1) .. len : m = len \/ path[m + 1] = "/"}
           next(l) == CHOOSE m \in rest(l) : \A k \in rest(l) : m <= k
           Here(l) == Search(paths, SubSeq(path, 1, l)).found
           Whole(g) == [l \in 1 .. len |-> \/ Here(l)
                                           \/ l # len /\ g[next(l)]]
           from == CHOOSE g : g = Whole(g)
           There(l) == Here(l) \/ \E m \in (l + 1) .. len : m \in Stop /\ Here(m)
<1>1. len \in Nat \ {0} /\ len <= Len(path)
  BY PathIsOf, TrimmedIsOf
<1>2. \A l \in 1 .. len : Here(l) = Has(paths, SubSeq(path, 1, l))
  <2> SUFFICES ASSUME NEW l \in 1 .. len PROVE Here(l) = Has(paths, SubSeq(path, 1, l))
    OBVIOUS
  <2>1. SubSeq(path, 1, l) \in Keys
    <3>1. l \in 1 .. Len(path)
      BY <1>1, PathIsOf
    <3>2. QED
      BY <3>1, PathIsOf
  <2>2. QED
    BY <2>1, FoundIfThere DEF Has
<1>3. PathExists(paths, path) = from[1]
  BY DEF PathExists
<1> HIDE DEF len
<1>4. ASSUME NEW l \in 1 .. len, l # len
      PROVE  /\ next(l) \in (l + 1) .. len /\ next(l) \in Stop
             /\ \A m \in (l + 1) .. (next(l) - 1) : m \notin Stop
  <2>1. len \in (l + 1) .. len /\ len \in Stop /\ l + 1 \in Nat /\ len \in Nat
    BY <1>1, <1>4
  <2>2. PICK m \in (l + 1) .. len : m \in Stop /\ \A j \in (l + 1) .. (m - 1) : j \notin Stop
    <3> HIDE DEF Stop
    <3>1. QED
      BY <2>1, LeastUpTo
  <2>3. \A k \in (l + 1) .. len : k \in rest(l) <=> k \in Stop
    BY <1>1
  <2>4. m \in rest(l) /\ \A k \in rest(l) : m <= k
    <3>1. m \in rest(l)
      BY <2>2, <2>3
    <3>2. ASSUME NEW k \in rest(l), k < m PROVE FALSE
      <4>1. k \in (l + 1) .. (m - 1) /\ k \in Stop
        BY <1>1, <2>2, <2>3, <3>2
      <4>2. QED
        BY <2>2, <4>1
    <3>3. ASSUME NEW k \in rest(l) PROVE m <= k
      <4>1. k \in Int /\ m \in Int
        BY <2>2
      <4>2. QED
        BY <3>2, <4>1
    <3>4. QED
      BY <3>1, <3>3
  <2>5. next(l) \in rest(l) /\ \A k \in rest(l) : next(l) <= k
    <3> HIDE DEF rest
    <3>1. QED
      BY <2>4
  <2> HIDE DEF next
  <2>6. next(l) \in (l + 1) .. len /\ next(l) \in Stop
    BY <2>3, <2>5
  <2>7. ASSUME NEW j \in (l + 1) .. (next(l) - 1), j \in Stop PROVE FALSE
    <3>1. j \in rest(l) /\ ~ (next(l) <= j)
      BY <1>1, <2>3, <2>6, <2>7
    <3>2. QED
      BY <2>5, <3>1
  <2>8. QED
    BY <2>6, <2>7
<1> HIDE DEF next, Here, Stop
<1>5. ASSUME NEW l \in 1 .. len
      PROVE  There(l) <=> Here(l) \/ (l # len /\ There(next(l)))
  <2>1. CASE l = len
    BY <1>1, <2>1
  <2>2. CASE l # len
    <3>1. /\ next(l) \in (l + 1) .. len /\ next(l) \in Stop
          /\ \A m \in (l + 1) .. (next(l) - 1) : m \notin Stop
      BY <1>4, <2>2
    <3>2. ASSUME NEW m \in (l + 1) .. len, m \in Stop, Here(m) PROVE There(next(l))
      <4>1. m = next(l) \/ m \in (next(l) + 1) .. len
        BY <1>1, <3>1, <3>2
      <4>2. QED
        BY <3>2, <4>1
    <3>3. ASSUME There(next(l)) PROVE \E m \in (l + 1) .. len : m \in Stop /\ Here(m)
      <4>1. CASE Here(next(l))
        BY <3>1, <4>1
      <4>2. ASSUME NEW m \in (next(l) + 1) .. len, m \in Stop, Here(m)
            PROVE  \E k \in (l + 1) .. len : k \in Stop /\ Here(k)
        <5>1. m \in (l + 1) .. len
          BY <1>1, <3>1
        <5>2. QED
          BY <4>2, <5>1
      <4>3. QED
        BY <3>3, <4>1, <4>2
    <3>4. QED
      BY <2>2, <3>2, <3>3
  <2>3. QED
    BY <2>1, <2>2
<1>6. \E g : g = Whole(g)
  <2> DEFINE g == [l \in 1 .. len |-> There(l)]
  <2>1. ASSUME NEW l \in 1 .. len PROVE g[l] = (Here(l) \/ (l # len /\ g[next(l)]))
    <3>1. l # len => next(l) \in 1 .. len
      BY <1>1, <1>4
    <3>2. (l # len /\ g[next(l)]) <=> (l # len /\ There(next(l)))
      BY <3>1
    <3>3. QED
      BY <1>5, <3>2
  <2>2. g = Whole(g)
    <3> HIDE DEF There
    <3>1. g = [l \in 1 .. len |-> g[l]]
      OBVIOUS
    <3> HIDE DEF g
    <3>2. QED
      BY <2>1, <3>1
  <2>3. QED
    BY <2>2
<1>7. from = Whole(from)
  <2> HIDE DEF Whole
  <2>1. QED
    BY <1>6
<1> HIDE DEF from
<1>8. \A l \in 1 .. len : from[l] = (Here(l) \/ (l # len /\ from[next(l)]))
  BY <1>7
<1> DEFINE Good == {l \in 1 .. len : from[l] <=> There(l)}
<1>9. ASSUME NEW l \in 1 .. len, \A m \in (l + 1) .. len : m \in Good PROVE l \in Good
  <2>1. CASE l = len
    BY <1>5, <1>8, <2>1
  <2>2. CASE l # len
    <3>1. next(l) \in Good
      BY <1>4, <1>9, <2>2
    <3>2. from[next(l)] <=> There(next(l))
      BY <3>1
    <3> HIDE DEF There
    <3>3. QED
      BY <1>5, <1>8, <3>2
  <2>3. QED
    BY <2>1, <2>2
<1>10. 1 .. len \subseteq Good
  <2> HIDE DEF Good
  <2>1. QED
    BY <1>1, <1>9, DownFrom
<1>11. from[1] <=> There(1)
  <2>1. 1 \in Good
    <3>1. 1 \in 1 .. len
      BY <1>1
    <3>2. QED
      BY <1>10, <3>1
  <2>2. QED
    BY <2>1
<1>12. There(1) <=> \E l \in 1 .. len : /\ l = 1 \/ l = len \/ path[l + 1] = "/"
                                        /\ Has(paths, SubSeq(path, 1, l))
  BY <1>1, <1>2 DEF Stop
<1>13. QED
  BY <1>3, <1>11, <1>12 DEF len

\* To be an entry, or below one, is that a part of the path up to a slash is the
\* entry, with or without a slash at its end in the file.
LEMMA UnderItsKey ==
    ASSUME NEW path \in Paths, NEW value \in RulePaths
    PROVE  LET len == Len(Trimmed(path))
           IN  Under(path, value) <=>
                  \E l \in 1 .. len : /\ l = 1 \/ l = len \/ path[l + 1] = "/"
                                      /\ SubSeq(path, 1, l) = Trimmed(value)
<1> DEFINE len == Len(Trimmed(path))
           key == Trimmed(value)
           d   == Len(key)
           dir == IF Last(value) = "/" THEN Front(value) ELSE value
           Stop(l) == l = 1 \/ l = len \/ path[l + 1] = "/"
           Agree == d <= Len(path) /\ \A i \in 1 .. d : path[i] = key[i]
<1>1. /\ path \in Seq(DOMAIN Order) /\ path[1] = "/" /\ Len(path) \in Nat \ {0}
      /\ \A l \in 1 .. Len(path) : /\ SubSeq(path, 1, l) \in Paths /\ Len(SubSeq(path, 1, l)) = l
                                   /\ \A i \in 1 .. l : SubSeq(path, 1, l)[i] = path[i]
      /\ len \in 1 .. Len(path)
      /\ len = IF Len(path) > 1 /\ path[Len(path)] = "/" THEN Len(path) - 1 ELSE Len(path)
  BY PathIsOf, TrimmedIsOf DEF Keys
<1>2. /\ value \in Paths /\ value \in Seq(DOMAIN Order) /\ value[1] = "/" /\ Len(value) \in Nat \ {0}
      /\ Len(value) > 1 /\ value[Len(value)] = "/" => value[Len(value) - 1] # "/"
  BY PathIsOf DEF RulePaths, Keys
<1>3. /\ key \in Seq(DOMAIN Order) /\ d \in Nat \ {0} /\ key[1] = "/" /\ d <= Len(value)
      /\ d = IF Len(value) > 1 /\ value[Len(value)] = "/" THEN Len(value) - 1 ELSE Len(value)
      /\ \A i \in 1 .. d : key[i] = value[i]
  <2>1. key \in Paths
    BY <1>2, TrimmedIsOf
  <2>2. key \in Seq(DOMAIN Order) /\ key[1] = "/" /\ d \in Nat \ {0}
    BY <2>1, PathIsOf DEF Keys
  <2>3. QED
    BY <1>2, <2>2, TrimmedIsOf
<1> HIDE DEF len, key
<1>4. ASSUME NEW l \in 1 .. Len(path)
      PROVE  SubSeq(path, 1, l) = key <=> l = d /\ Agree
  <2> DEFINE part == SubSeq(path, 1, l)
  <2>1. part \in Seq(DOMAIN Order) /\ Len(part) = l /\ \A i \in 1 .. l : part[i] = path[i]
    BY <1>1 DEF Paths, Keys
  <2> HIDE DEF part
  <2>2. part = key => l = d /\ Agree
    BY <1>1, <2>1
  <2>3. ASSUME l = d, Agree PROVE part = key
    <3>1. Len(part) = Len(key) /\ \A i \in 1 .. Len(part) : part[i] = key[i]
      BY <2>1, <2>3
    <3>2. QED
      BY <1>3, <2>1, <3>1, SeqEqual
  <2>4. QED
    BY <2>2, <2>3 DEF part
<1>5. CASE d = 1
  <2>1. Len(value) = 1
    BY <1>2, <1>3, <1>5
  <2>2. dir = <<>>
    BY <1>2, <2>1 DEF Last, Front
  <2>3. IsPrefix(dir \o <<"/">>, path)
    <3> DEFINE one  == <<"/">>
               part == SubSeq(path, 1, 1)
    <3>1. one \in Seq(DOMAIN Order) /\ Len(one) = 1 /\ one[1] = "/"
      <4>1. path[1] \in DOMAIN Order
        BY <1>1
      <4>2. QED
        BY <1>1, <4>1
    <3>2. part \in Seq(DOMAIN Order) /\ Len(part) = 1 /\ part[1] = "/"
      BY <1>1 DEF Paths, Keys
    <3> HIDE DEF one, part
    <3>3. part = one
      BY <3>1, <3>2, SeqEqual
    <3>4. dir \o one = one
      BY <2>2, <3>1, ConcatEmptySeq
    <3>5. SubSeq(one, 1, Len(one)) = one
      BY <3>1
    <3>6. IsPrefix(one, path)
      BY <1>1, <3>1, <3>3, <3>5 DEF IsPrefix, part
    <3>7. QED
      BY <3>4, <3>6 DEF one
  <2>4. Agree
    <3>1. d <= Len(path)
      BY <1>1, <1>5
    <3>2. ASSUME NEW i \in 1 .. d PROVE path[i] = key[i]
      <4>1. i = 1
        BY <1>5
      <4>2. QED
        BY <1>1, <1>3, <4>1
    <3>3. QED
      BY <3>1, <3>2
  <2>5. 1 \in 1 .. len /\ Stop(1) /\ SubSeq(path, 1, 1) = key
    BY <1>1, <1>4, <1>5, <2>4
  <2>6. QED
    BY <2>3, <2>5 DEF Under, len, key
<1>6. CASE d # 1
  <2>1. dir = key /\ key[d] # "/"
    <3>1. CASE value[Len(value)] = "/"
      <4>1. Len(value) > 1 /\ d = Len(value) - 1
        <5> DEFINE v == Len(value)
        <5>1. v \in Nat \ {0} /\ d # 1 /\ d = IF v > 1 THEN v - 1 ELSE v
          BY <1>2, <1>3, <1>6, <3>1
        <5> HIDE DEF v, d
        <5>2. v > 1 /\ d = v - 1
          BY <5>1
        <5>3. QED
          BY <5>2 DEF v
      <4>2. dir = key
        BY <3>1, <4>1 DEF Last, Front, Trimmed, key
      <4>3. QED
        BY <1>2, <1>3, <3>1, <4>1, <4>2
    <3>2. CASE value[Len(value)] # "/"
      <4>1. d = Len(value)
        BY <1>3, <3>2
      <4>2. dir = key
        BY <3>2 DEF Last, Trimmed, key
      <4>3. QED
        BY <1>2, <1>3, <3>2, <4>1, <4>2
    <3>3. QED
      BY <3>1, <3>2
  <2>2. IsPrefix(key \o <<"/">>, path) <=> Agree /\ d + 1 <= Len(path) /\ path[d + 1] = "/"
    <3> DEFINE below == key \o <<"/">>
    <3>1. /\ below \in Seq(DOMAIN Order \cup {"/"}) /\ Len(below) = d + 1
          /\ \A i \in 1 .. (d + 1) : below[i] = IF i <= d THEN key[i] ELSE "/"
      BY <1>3
    <3> HIDE DEF below
    <3>2. SubSeq(below, 1, Len(below)) = below
      BY <3>1
    <3>3. ASSUME d + 1 <= Len(path)
          PROVE  below = SubSeq(path, 1, d + 1) <=> \A i \in 1 .. (d + 1) : below[i] = path[i]
      <4> DEFINE part == SubSeq(path, 1, d + 1)
      <4>1. part \in Seq(DOMAIN Order) /\ Len(part) = d + 1 /\ \A i \in 1 .. (d + 1) : part[i] = path[i]
        BY <1>1, <1>3, <3>3 DEF Paths, Keys
      <4> HIDE DEF part
      <4>2. below = part => \A i \in 1 .. (d + 1) : below[i] = path[i]
        BY <4>1
      <4>3. ASSUME \A i \in 1 .. (d + 1) : below[i] = path[i] PROVE below = part
        <5>1. part \in Seq(DOMAIN Order \cup {"/"})
          BY <4>1
        <5>2. Len(below) = Len(part) /\ \A i \in 1 .. Len(below) : below[i] = part[i]
          BY <3>1, <4>1, <4>3
        <5>3. QED
          BY <3>1, <5>1, <5>2, SeqEqual
      <4>4. QED
        BY <4>2, <4>3 DEF part
    <3>4. IsPrefix(below, path) <=> d + 1 <= Len(path) /\ \A i \in 1 .. (d + 1) : below[i] = path[i]
      BY <3>1, <3>2, <3>3 DEF IsPrefix
    <3>5. ASSUME d + 1 <= Len(path)
          PROVE  (\A i \in 1 .. (d + 1) : below[i] = path[i]) <=> Agree /\ path[d + 1] = "/"
      <4>1. ASSUME \A i \in 1 .. (d + 1) : below[i] = path[i] PROVE Agree /\ path[d + 1] = "/"
        BY <1>1, <1>3, <3>1, <3>5, <4>1
      <4>2. ASSUME Agree, path[d + 1] = "/", NEW i \in 1 .. (d + 1) PROVE below[i] = path[i]
        BY <1>3, <3>1, <4>2
      <4>3. QED
        BY <4>1, <4>2
    <3>6. QED
      BY <1>1, <1>3, <3>4, <3>5 DEF below
  <2>3. path = key <=> Agree /\ d = Len(path)
    <3>1. ASSUME Agree, d = Len(path) PROVE path = key
      <4>1. Len(path) = Len(key) /\ \A i \in 1 .. Len(path) : path[i] = key[i]
        BY <3>1
      <4>2. QED
        BY <1>1, <1>3, <4>1, SeqEqual
    <3>2. path = key => Agree /\ d = Len(path)
      BY <1>1
    <3>3. QED
      BY <3>1, <3>2
  <2>4. Under(path, value) <=> Agree /\ (d = Len(path) \/ (d + 1 <= Len(path) /\ path[d + 1] = "/"))
    BY <2>1, <2>2, <2>3 DEF Under
  <2>5. Agree /\ d = Len(path) => len = Len(path)
    BY <1>1, <1>3, <2>1
  <2>6. Agree => ((d = Len(path) \/ (d + 1 <= Len(path) /\ path[d + 1] = "/")) <=> d <= len /\ Stop(d))
    <3> SUFFICES ASSUME Agree
                 PROVE  (d = Len(path) \/ (d + 1 <= Len(path) /\ path[d + 1] = "/")) <=> d <= len /\ Stop(d)
      OBVIOUS
    <3>1. CASE len = Len(path)
      BY <1>1, <1>3, <1>6, <3>1
    <3>2. CASE len = Len(path) - 1 /\ path[Len(path)] = "/"
      <4>1. d # Len(path)
        BY <1>1, <2>5, <3>2
      <4>2. d = len => path[d + 1] = "/" /\ d + 1 <= Len(path)
        BY <1>1, <3>2
      <4>3. QED
        BY <1>1, <1>3, <1>6, <3>2, <4>1, <4>2
    <3>3. QED
      BY <1>1, <3>1, <3>2
  <2>7. (\E l \in 1 .. len : Stop(l) /\ SubSeq(path, 1, l) = key) <=> d <= len /\ Stop(d) /\ Agree
    <3>1. ASSUME NEW l \in 1 .. len PROVE SubSeq(path, 1, l) = key <=> l = d /\ Agree
      <4>1. l \in 1 .. Len(path)
        BY <1>1
      <4>2. QED
        BY <1>4, <4>1
    <3>2. d <= len => d \in 1 .. len
      BY <1>1, <1>3
    <3> HIDE DEF Stop, Agree, d
    <3>3. QED
      BY <1>1, <3>1, <3>2
  <2>8. QED
    BY <2>4, <2>6, <2>7 DEF len, key
<1>7. QED
  BY <1>5, <1>6

----------------------------------------------------------------------------
\* Every value becomes an entry, one that is there already none of its own.
Plus(table, key) == IF Search(table, key).found THEN table ELSE Insert(table, key, 0)

\* What has been made of the values at the places s, the last one of which is Max(s).
Made(keys, from, s) == IF s = {} THEN <<>> ELSE Plus(from[s \ {Max(s)}], keys[Max(s)])

\* Adding a value keeps the order and all that is there.
LEMMA PlusKeepsOrder ==
    ASSUME TellsApart, NEW table \in Tables, NEW key \in Keys
    PROVE  /\ Plus(table, key) \in Tables
           /\ \A other : Has(Plus(table, key), other) <=> Has(table, other) \/ other = key
<1>1. CASE Search(table, key).found
  <2>1. Plus(table, key) = table /\ Has(table, key)
    BY <1>1, FoundIfThere DEF Plus, Has
  <2>2. QED
    BY <2>1
<1>2. CASE ~ Search(table, key).found
  <2> DEFINE new == Insert(table, key, 0)
  <2>1. new \in Tables /\ Entries(new) = Entries(table) \cup {[key |-> key, idx |-> 0]}
    BY <1>2, InsertKeepsOrder
  <2>2. Plus(table, key) = new
    BY <1>2 DEF Plus
  <2> HIDE DEF new
  <2> DEFINE e == [key |-> key, idx |-> 0]
  <2>3. e.key = key
    OBVIOUS
  <2> HIDE DEF e
  <2>4. Entries(new) = Entries(table) \cup {e}
    BY <2>1 DEF e
  <2>5. QED
    BY <2>1, <2>2, <2>3, <2>4 DEF Has
<1>3. QED
  BY <1>1, <1>2

\* A set of places has a last one.
LEMMA LastPlace ==
    ASSUME NEW n \in Nat, NEW s \in SUBSET (1 .. n), s # {}
    PROVE  /\ Max(s) \in s /\ \A p \in s : p <= Max(s)
           /\ s \ {Max(s)} \in SUBSET (1 .. (Max(s) - 1))
<1> DEFINE Back == {k \in 0 .. n : n - k \in s}
<1>1. Back \subseteq Nat /\ Back # {}
  <2>1. PICK p \in s : TRUE
    OBVIOUS
  <2>2. p \in 1 .. n
    OBVIOUS
  <2>3. n - p \in 0 .. n /\ n - (n - p) = p
    BY <2>2
  <2>4. n - p \in Back
    BY <2>1, <2>3
  <2>5. QED
    BY <2>4
<1>2. PICK b \in Back : \A c \in Back : b <= c
  <2> HIDE DEF Back
  <2>1. QED
    BY <1>1, LeastNumber
<1>3. n - b \in s /\ b \in 0 .. n
  BY <1>2
<1>4. ASSUME NEW p \in s PROVE n - b >= p
  <2>1. p \in 1 .. n
    OBVIOUS
  <2>2. n - p \in 0 .. n /\ n - (n - p) = p
    BY <2>1
  <2>3. b <= n - p
    BY <1>2, <2>2
  <2>4. QED
    BY <1>3, <2>1, <2>3
<1>5. Max(s) \in s /\ \A p \in s : Max(s) >= p
  BY <1>3, <1>4 DEF Max
<1>6. \A p \in s : p \in 1 .. n
  OBVIOUS
<1> DEFINE m == Max(s)
<1> HIDE DEF m
<1>7. m \in 1 .. n /\ \A p \in s : p <= m
  BY <1>5, <1>6 DEF m
<1>8. ASSUME NEW p \in s, p # m PROVE p \in 1 .. (m - 1)
  BY <1>6, <1>7, <1>8
<1>9. QED
  BY <1>5, <1>7, <1>8 DEF m

\* A fold over places is a function there is.
LEMMA MadeIsThere ==
    ASSUME NEW keys, NEW n \in Nat
    PROVE  \E g : g = [s \in SUBSET (1 .. n) |-> Made(keys, g, s)]
<1> DEFINE Whole(k, g) == [s \in SUBSET (1 .. k) |-> Made(keys, g, s)]
           Fits(k) == \E g : \A s \in SUBSET (1 .. k) : g[s] = Made(keys, g, s)
           Done == {k \in Nat : Fits(k)}
<1>1. Fits(0)
  <2> DEFINE g == [s \in SUBSET (1 .. 0) |-> <<>>]
  <2>1. \A s \in SUBSET (1 .. 0) : s = {}
    OBVIOUS
  <2>2. \A s \in SUBSET (1 .. 0) : g[s] = <<>>
    OBVIOUS
  <2> HIDE DEF g
  <2>3. QED
    BY <2>1, <2>2 DEF Made
<1>2. ASSUME NEW k \in Nat, Fits(k) PROVE Fits(k + 1)
  <2>1. PICK h : \A s \in SUBSET (1 .. k) : h[s] = Made(keys, h, s)
    BY <1>2
  <2> DEFINE g == Whole(k + 1, h)
  <2>2. ASSUME NEW s \in SUBSET (1 .. (k + 1)) PROVE g[s] = Made(keys, g, s)
    <3>1. g[s] = Made(keys, h, s)
      OBVIOUS
    <3>2. CASE s = {}
      BY <3>1, <3>2 DEF Made
    <3>3. CASE s # {}
      <4> DEFINE r == s \ {Max(s)}
      <4>1. r \in SUBSET (1 .. k)
        <5>1. Max(s) \in s /\ r \in SUBSET (1 .. (Max(s) - 1))
          <6>1. k + 1 \in Nat
            OBVIOUS
          <6>2. QED
            BY <3>3, <6>1, LastPlace
        <5>2. Max(s) \in 1 .. (k + 1)
          BY <5>1
        <5>3. \A p \in 1 .. (Max(s) - 1) : p \in 1 .. k
          BY <5>2
        <5> HIDE DEF r
        <5>4. QED
          BY <5>1, <5>3
      <4> HIDE DEF r
      <4>2. r \in SUBSET (1 .. (k + 1))
        BY <4>1
      <4>3. g[r] = h[r]
        BY <2>1, <4>1, <4>2
      <4> HIDE DEF g
      <4>4. QED
        BY <3>1, <3>3, <4>3 DEF Made, r
    <3>4. QED
      BY <3>2, <3>3
  <2> HIDE DEF g
  <2>3. QED
    BY <2>2
<1> HIDE DEF Fits
<1>3. Nat \subseteq Done
  <2>1. 0 \in Done /\ \A k \in Nat : k \in Done => k + 1 \in Done
    BY <1>1, <1>2
  <2> HIDE DEF Done
  <2>2. QED
    BY <2>1, AllNumbers
<1>4. Fits(n)
  BY <1>3
<1>5. PICK h : \A s \in SUBSET (1 .. n) : h[s] = Made(keys, h, s)
  BY <1>4 DEF Fits
<1> DEFINE g == Whole(n, h)
<1>6. ASSUME NEW s \in SUBSET (1 .. n) PROVE g[s] = Made(keys, g, s)
  <2>1. g[s] = Made(keys, h, s) /\ (s \ {Max(s)}) \in SUBSET (1 .. n)
    OBVIOUS
  <2>2. g[s \ {Max(s)}] = h[s \ {Max(s)}]
    BY <1>5, <2>1
  <2> HIDE DEF g
  <2>3. QED
    BY <2>1, <2>2 DEF Made
<1>7. g = Whole(n, g)
  <2>1. g = [s \in SUBSET (1 .. n) |-> g[s]]
    OBVIOUS
  <2> HIDE DEF g
  <2>2. QED
    BY <1>6, <2>1
<1> HIDE DEF g
<1>8. QED
  BY <1>7

AllKeys(n, keys) == \A i \in 1 .. n : keys[i] \in Keys

AllMade(n, keys, from) == \A s \in SUBSET (1 .. n) : from[s] = Made(keys, from, s)

\* A table of these keys, and of no other.
TableOf(n, keys, table) ==
    /\ table \in Tables
    /\ \A key : Has(table, key) <=> \E i \in 1 .. n : keys[i] = key

\* The table made of all values has an entry for each of them and no other.
LEMMA MadeOfAll ==
    ASSUME TellsApart, NEW n \in Nat, NEW keys, AllKeys(n, keys), NEW from, AllMade(n, keys, from)
    PROVE  TableOf(n, keys, from[1 .. n])
<1> USE DEF AllKeys, AllMade, TableOf
<1> DEFINE Made1(k) == /\ from[1 .. k] \in Tables
                        /\ \A key : Has(from[1 .. k], key) <=> \E i \in 1 .. k : keys[i] = key
           Done == {k \in Nat : k <= n => Made1(k)}
<1>1. Made1(0)
  <2>1. 1 .. 0 = {} /\ {} \in SUBSET (1 .. n)
    OBVIOUS
  <2>2. from[1 .. 0] = <<>>
    BY <2>1 DEF Made
  <2>3. <<>> \in Tables /\ Entries(<<>>) = {}
    BY DEF Tables, Sorted, Entries
  <2>4. QED
    BY <2>1, <2>2, <2>3 DEF Has
<1>2. ASSUME NEW k \in Nat, Made1(k), k + 1 <= n PROVE Made1(k + 1)
  <2> DEFINE s == 1 .. (k + 1)
  <2>1. s \in SUBSET (1 .. n) /\ s # {} /\ k + 1 \in s
    <3>1. k + 1 \in s /\ \A p \in s : p \in 1 .. n
      BY <1>2
    <3> HIDE DEF s
    <3>2. QED
      BY <3>1
  <2>2. Max(s) = k + 1
    <3>1. Max(s) \in s /\ k + 1 <= Max(s)
      <4> HIDE DEF s
      <4>1. QED
        BY <2>1, LastPlace
    <3>2. QED
      BY <3>1
  <2>3. s \ {k + 1} = 1 .. k
    OBVIOUS
  <2>4. from[s] = Plus(from[1 .. k], keys[k + 1])
    <3> HIDE DEF s
    <3>1. QED
      BY <2>1, <2>2, <2>3 DEF Made
  <2>5. keys[k + 1] \in Keys
    <3>1. k + 1 \in 1 .. n
      BY <1>2
    <3>2. QED
      BY <3>1
  <2>6. /\ from[s] \in Tables
        /\ \A key : Has(from[s], key) <=> Has(from[1 .. k], key) \/ key = keys[k + 1]
    <3> HIDE DEF s
    <3>1. QED
      BY <1>2, <2>4, <2>5, PlusKeepsOrder
  <2>7. ASSUME NEW key
        PROVE  (\E i \in 1 .. (k + 1) : keys[i] = key) <=> (\E i \in 1 .. k : keys[i] = key) \/ key = keys[k + 1]
    <3>1. \A i : i \in 1 .. (k + 1) <=> i \in 1 .. k \/ i = k + 1
      OBVIOUS
    <3>2. QED
      BY <3>1
  <2>8. QED
    BY <1>2, <2>6, <2>7
<1> HIDE DEF Made1
<1>3. Nat \subseteq Done
  <2>1. 0 \in Done /\ \A k \in Nat : k \in Done => k + 1 \in Done
    BY <1>1, <1>2
  <2> HIDE DEF Done
  <2>2. QED
    BY <2>1, AllNumbers
<1>4. Made1(n)
  BY <1>3
<1>5. QED
  BY <1>4 DEF Made1

\* The paths of a rule are in its list, without the slash at their end.
LEMMA PathsAreAdded ==
    ASSUME TellsApart, NEW values \in Seq(Paths)
    PROVE  LET paths == FoldLeft(AddPath, <<>>, values)
           IN  /\ paths \in Tables
               /\ \A key : Has(paths, key) <=> \E i \in 1 .. Len(values) : Trimmed(values[i]) = key
<1> DEFINE n == Len(values)
           keys == [i \in 1 .. n |-> Trimmed(values[i])]
           Whole(g) == [s \in SUBSET (DOMAIN values) |->
                           IF s = {} THEN <<>> ELSE AddPath(g[s \ {Max(s)}], values[Max(s)])]
           from == CHOOSE g : g = Whole(g)
<1>1. n \in Nat /\ DOMAIN values = 1 .. n /\ \A i \in 1 .. n : values[i] \in Paths
  BY ElementOfSeq
<1>2. \A i \in 1 .. n : keys[i] \in Keys /\ keys[i] = Trimmed(values[i])
  BY <1>1, TrimmedIsOf, PathIsOf
<1>3. FoldLeft(AddPath, <<>>, values) = from[DOMAIN values]
  BY DEF FoldLeft, MapThenFoldSet
<1> HIDE DEF keys, n
<1>4. ASSUME NEW g, NEW s \in SUBSET (1 .. n)
      PROVE  Whole(g)[s] = Made(keys, g, s)
  <2>1. CASE s = {}
    BY <1>1, <2>1 DEF Made
  <2>2. CASE s # {}
    <3>1. Max(s) \in 1 .. n
      BY <1>1, <2>2, LastPlace
    <3>2. AddPath(g[s \ {Max(s)}], values[Max(s)]) = Plus(g[s \ {Max(s)}], keys[Max(s)])
      BY <1>2, <3>1 DEF AddPath, Plus, Insert
    <3>3. QED
      BY <1>1, <2>2, <3>2 DEF Made
  <2>3. QED
    BY <2>1, <2>2
<1>5. \E g : g = Whole(g)
  <2>1. PICK g : g = [s \in SUBSET (1 .. n) |-> Made(keys, g, s)]
    BY <1>1, MadeIsThere
  <2>2. Whole(g) = [s \in SUBSET (1 .. n) |-> Whole(g)[s]]
    BY <1>1
  <2>3. g = Whole(g)
    <3> HIDE DEF Whole
    <3>1. QED
      BY <1>4, <2>1, <2>2
  <2>4. QED
    BY <2>3
<1>6. from = Whole(from)
  <2> HIDE DEF Whole
  <2>1. QED
    BY <1>5
<1> HIDE DEF from
<1>7. ASSUME NEW s \in SUBSET (1 .. n) PROVE from[s] = Made(keys, from, s)
  <2> HIDE DEF Whole
  <2>1. QED
    BY <1>4, <1>6
<1>8. TableOf(n, keys, from[1 .. n])
  <2>1. AllKeys(n, keys)
    BY <1>2 DEF AllKeys
  <2>2. AllMade(n, keys, from)
    BY <1>7 DEF AllMade
  <2>3. n \in Nat
    BY <1>1
  <2> HIDE DEF Whole
  <2>4. QED
    BY <2>1, <2>2, <2>3, MadeOfAll
<1>9. QED
  BY <1>1, <1>2, <1>3, <1>8 DEF n, TableOf

\* The extensions of a rule are in its list.
LEMMA StringsAreAdded ==
    ASSUME TellsApart, NEW values \in Seq(Keys)
    PROVE  LET strings == FoldLeft(AddString, <<>>, values)
           IN  /\ strings \in Tables
               /\ \A key : Has(strings, key) <=> \E i \in 1 .. Len(values) : values[i] = key
<1> DEFINE n == Len(values)
           keys == [i \in 1 .. n |-> values[i]]
           Whole(g) == [s \in SUBSET (DOMAIN values) |->
                           IF s = {} THEN <<>> ELSE AddString(g[s \ {Max(s)}], values[Max(s)])]
           from == CHOOSE g : g = Whole(g)
<1>1. n \in Nat /\ DOMAIN values = 1 .. n /\ \A i \in 1 .. n : values[i] \in Keys
  BY ElementOfSeq
<1>2. \A i \in 1 .. n : keys[i] \in Keys /\ keys[i] = values[i]
  BY <1>1
<1>3. FoldLeft(AddString, <<>>, values) = from[DOMAIN values]
  BY DEF FoldLeft, MapThenFoldSet
<1> HIDE DEF keys, n
<1>4. ASSUME NEW g, NEW s \in SUBSET (1 .. n)
      PROVE  Whole(g)[s] = Made(keys, g, s)
  <2>1. CASE s = {}
    BY <1>1, <2>1 DEF Made
  <2>2. CASE s # {}
    <3>1. Max(s) \in 1 .. n
      BY <1>1, <2>2, LastPlace
    <3>2. AddString(g[s \ {Max(s)}], values[Max(s)]) = Plus(g[s \ {Max(s)}], keys[Max(s)])
      BY <1>2, <3>1 DEF AddString, Plus, Insert
    <3>3. QED
      BY <1>1, <2>2, <3>2 DEF Made
  <2>3. QED
    BY <2>1, <2>2
<1>5. \E g : g = Whole(g)
  <2>1. PICK g : g = [s \in SUBSET (1 .. n) |-> Made(keys, g, s)]
    BY <1>1, MadeIsThere
  <2>2. Whole(g) = [s \in SUBSET (1 .. n) |-> Whole(g)[s]]
    BY <1>1
  <2>3. g = Whole(g)
    <3> HIDE DEF Whole
    <3>1. QED
      BY <1>4, <2>1, <2>2
  <2>4. QED
    BY <2>3
<1>6. from = Whole(from)
  <2> HIDE DEF Whole
  <2>1. QED
    BY <1>5
<1> HIDE DEF from
<1>7. ASSUME NEW s \in SUBSET (1 .. n) PROVE from[s] = Made(keys, from, s)
  <2> HIDE DEF Whole
  <2>1. QED
    BY <1>4, <1>6
<1>8. TableOf(n, keys, from[1 .. n])
  <2>1. AllKeys(n, keys)
    BY <1>2 DEF AllKeys
  <2>2. AllMade(n, keys, from)
    BY <1>7 DEF AllMade
  <2>3. n \in Nat
    BY <1>1
  <2> HIDE DEF Whole
  <2>4. QED
    BY <2>1, <2>2, <2>3, MadeOfAll
<1>9. QED
  BY <1>1, <1>2, <1>3, <1>8 DEF n, TableOf

----------------------------------------------------------------------------
\* The rules a file may say.
Written ==
    [criterion : {"path"}, values : Seq(RulePaths)]
      \cup [criterion : {"extension"}, values : Seq(Keys \ {<<>>})]
      \cup [criterion : {"method"}, values : Seq(STRING)]

\* A rule with its tables matches what its values in the file say.
LEMMA MatchesAsWritten ==
    ASSUME TellsApart, NEW rule \in Written, NEW method, NEW path \in Paths, NEW extension \in Keys
    PROVE  Match(Rule(rule.criterion, rule.values), method, path, extension)
              <=> MatchesRule(rule, method, path, extension)
<1> DEFINE values == rule.values
           made   == Rule(rule.criterion, rule.values)
<1>1. CASE rule.criterion = "path"
  <2>1. values \in Seq(RulePaths)
    BY <1>1 DEF Written
  <2> DEFINE n   == Len(values)
             len == Len(Trimmed(path))
             paths == FoldLeft(AddPath, <<>>, values)
  <2>2. n \in Nat /\ DOMAIN values = 1 .. n /\ \A i \in 1 .. n : values[i] \in RulePaths
    <3> HIDE DEF values
    <3>1. QED
      BY <2>1, ElementOfSeq
  <2>3. values \in Seq(Paths)
    <3>1. RulePaths \subseteq Paths
      BY DEF RulePaths
    <3> HIDE DEF values
    <3>2. QED
      BY <2>1, <3>1
  <2>4. /\ paths \in Tables
        /\ \A key : Has(paths, key) <=> \E i \in 1 .. n : Trimmed(values[i]) = key
    <3> HIDE DEF values
    <3>1. QED
      BY <2>3, PathsAreAdded
  <2>5. made.criterion = "path" /\ made.paths = paths
    BY <1>1 DEF Rule
  <2> HIDE DEF made, paths
  <2>6. Match(made, method, path, extension) <=> PathExists(paths, path)
    BY <2>5 DEF Match
  <2> HIDE DEF values
  <2>7. PathExists(paths, path) <=> \E l \in 1 .. len : /\ l = 1 \/ l = len \/ path[l + 1] = "/"
                                                       /\ Has(paths, SubSeq(path, 1, l))
    BY <2>4, PathIsFound
  <2>8. \A i \in 1 .. n : Under(path, values[i]) <=>
            \E l \in 1 .. len : /\ l = 1 \/ l = len \/ path[l + 1] = "/"
                                /\ SubSeq(path, 1, l) = Trimmed(values[i])
    BY <2>2, UnderItsKey
  <2> HIDE DEF n, len
  <2>9. PathExists(paths, path) <=> \E i \in 1 .. n : Under(path, values[i])
    BY <2>4, <2>7, <2>8
  <2>10. MatchesRule(rule, method, path, extension) <=> \E i \in DOMAIN values : Under(path, values[i])
    BY <1>1 DEF MatchesRule, values
  <2>11. QED
    BY <2>2, <2>6, <2>9, <2>10 DEF made, n
<1>2. CASE rule.criterion = "extension"
  <2>1. values \in Seq(Keys \ {<<>>})
    BY <1>2 DEF Written
  <2> DEFINE n       == Len(values)
             strings == FoldLeft(AddString, <<>>, values)
  <2>2. n \in Nat /\ DOMAIN values = 1 .. n /\ \A i \in 1 .. n : values[i] # <<>>
    <3> HIDE DEF values
    <3>1. QED
      BY <2>1, ElementOfSeq
  <2>3. values \in Seq(Keys)
    <3> HIDE DEF values
    <3>1. QED
      BY <2>1
  <2>4. /\ strings \in Tables
        /\ \A key : Has(strings, key) <=> \E i \in 1 .. n : values[i] = key
    <3> HIDE DEF values
    <3>1. QED
      BY <2>3, StringsAreAdded
  <2>5. made.criterion = "extension" /\ made.extensions = strings
    BY <1>2 DEF Rule
  <2> HIDE DEF made, strings
  <2>6. Match(made, method, path, extension) <=> extension # <<>> /\ Search(strings, extension).found
    BY <2>5 DEF Match
  <2>7. Search(strings, extension).found <=> Has(strings, extension)
    BY <2>4, FoundIfThere DEF Has
  <2>8. MatchesRule(rule, method, path, extension) <=> \E i \in DOMAIN values : values[i] = extension
    BY <1>2 DEF MatchesRule, ToSet
  <2> HIDE DEF values
  <2>9. QED
    BY <2>2, <2>4, <2>6, <2>7, <2>8 DEF made, n
<1>3. CASE rule.criterion = "method"
  <2>1. made.criterion = "method" /\ made.methods = ToSet(values)
    BY <1>3 DEF Rule
  <2> HIDE DEF made
  <2>2. QED
    BY <1>3, <2>1 DEF Match, MatchesRule, made
<1>4. rule.criterion \in {"path", "extension", "method"}
  BY DEF Written
<1>5. QED
  BY <1>1, <1>2, <1>3, <1>4

(***************************************************************************)
(* A request is handled by the first rule in the file that matches, and by *)
(* the default one only where none does: however many rules there are, of  *)
(* however many values in whatever order, with values in the tables that   *)
(* the search goes through.                                                *)
(***************************************************************************)
THEOREM FirstRuleDecides ==
    ASSUME TellsApart, NEW given \in Seq(Written), NEW method, NEW path \in Paths, NEW extension \in Keys
    PROVE  LET rules   == [i \in DOMAIN given |-> Rule(given[i].criterion, given[i].values)]
               found   == Find(rules, method, path, extension)
               Fits(i) == MatchesRule(given[i], method, path, extension)
           IN  /\ found \in 0 .. Len(given)
               /\ found # 0 => Fits(found) /\ \A i \in 1 .. (found - 1) : ~ Fits(i)
               /\ found = 0 => \A i \in DOMAIN given : ~ Fits(i)
<1> DEFINE n       == Len(given)
           rules   == [i \in DOMAIN given |-> Rule(given[i].criterion, given[i].values)]
           found   == Find(rules, method, path, extension)
           Fits(i) == MatchesRule(given[i], method, path, extension)
           Meets(i) == Match(rules[i], method, path, extension)
<1>1. n \in Nat /\ DOMAIN given = 1 .. n /\ \A i \in 1 .. n : given[i] \in Written
  BY ElementOfSeq
<1>2. Len(rules) = n
  BY <1>1
<1>3. ASSUME NEW i \in 1 .. n PROVE Meets(i) <=> Fits(i)
  <2>1. rules[i] = Rule(given[i].criterion, given[i].values) /\ given[i] \in Written
    BY <1>1
  <2> HIDE DEF rules
  <2>2. QED
    BY <2>1, MatchesAsWritten
<1> HIDE DEF rules, n
<1>4. /\ found \in 0 .. n
      /\ found # 0 => Meets(found) /\ \A i \in 1 .. (found - 1) : ~ Meets(i)
      /\ found = 0 => \A i \in 1 .. n : ~ Meets(i)
  BY <1>1, <1>2, FirstIsFound
<1> HIDE DEF found, Fits, Meets
<1>5. found # 0 => found \in 1 .. n /\ \A i \in 1 .. (found - 1) : i \in 1 .. n
  BY <1>1, <1>4
<1>6. /\ found \in 0 .. n
      /\ found # 0 => Fits(found) /\ \A i \in 1 .. (found - 1) : ~ Fits(i)
      /\ found = 0 => \A i \in DOMAIN given : ~ Fits(i)
  BY <1>1, <1>3, <1>4, <1>5
<1>7. QED
  BY <1>6 DEF found, Fits, rules, n

----------------------------------------------------------------------------
(***************************************************************************)
(* What % is within one turn round the list.                               *)
(***************************************************************************)
LEMMA OneTurn ==
    ASSUME NEW x \in 0 .. (2 * N - 1)
    PROVE  x % N = IF x < N THEN x ELSE x - N
  BY BackendsAssumption

(***************************************************************************)
(* Every turn is a backend's, and the backend after it is the next turn.   *)
(***************************************************************************)
LEMMA TurnsAreBackends ==
    ASSUME ListTypeOK, NEW k \in 0 .. (N - 1)
    PROVE  /\ Turn(k) \in Backend
           /\ Turn(k + 1) = (Turn(k) + 1) % N
           /\ Turn(k + 1) \in Backend
           /\ Turn(0) = current
<1>1. current \in 0 .. (N - 1) /\ N \in Nat \ {0}
  BY BackendsAssumption DEF ListTypeOK, Backend
<1>2. Turn(k) = IF current + k < N THEN current + k ELSE current + k - N
  BY <1>1, OneTurn DEF Turn
<1> DEFINE next == current + (k + 1)
<1>3. next \in 0 .. (2 * N - 1)
  BY <1>1
<1>4. Turn(k + 1) = IF next < N THEN next ELSE next - N
  <2> HIDE DEF next
  <2>1. next % N = IF next < N THEN next ELSE next - N
    BY <1>3, OneTurn
  <2>2. QED
    BY <2>1 DEF Turn, next
<1> DEFINE after == Turn(k) + 1
<1>5. after \in 0 .. (2 * N - 1)
  BY <1>1, <1>2
<1>6. after % N = IF after < N THEN after ELSE after - N
  <2> HIDE DEF after
  <2>1. QED
    BY <1>5, OneTurn
<1>7. Turn(0) = current
  BY <1>1, OneTurn DEF Turn
<1>8. QED
  BY <1>1, <1>2, <1>4, <1>6, <1>7 DEF Backend

(***************************************************************************)
(* Marking backends down keeps the types, and ages of others alone.        *)
(***************************************************************************)
LEMMA MarkDownTyped ==
    ASSUME ListTypeOK, NEW failed, MarkDown(failed)
    PROVE  /\ available' \in [Backend -> BOOLEAN]
           /\ age' \in [Backend -> 0 .. Interval]
  BY BackendsAssumption DEF ListTypeOK, MarkDown

(***************************************************************************)
(* Those marked down are down, and their pause has just begun.             *)
(***************************************************************************)
LEMMA MarksDown ==
    ASSUME NEW failed, MarkDown(failed), NEW b \in Backend, b \in failed
    PROVE  ~available'[b] /\ age'[b] = 0
  BY DEF MarkDown

(***************************************************************************)
(* What a call of connect that gets a backend does: the backends it passes *)
(* and marks down are none it could have got.                              *)
(***************************************************************************)
LEMMA ConnectGets ==
    ASSUME ListTypeOK, NEW c \in Conn, NEW refusing \in SUBSET Backend,
           Connect(c, refusing)
    PROVE  \E k \in 0 .. (N - 1), failed \in SUBSET Backend :
              /\ Turn(k) \notin failed
              /\ failed = {b \in {Turn(j) : j \in 0 .. (k - 1)} : Eligible(b)}
              /\ MarkDown(failed)
              /\ Returned(failed \cup {Turn(k)}, Turn(k))
              /\ pending' = [pending EXCEPT ![c] = Turn(k)]
              /\ current' = Turn(k + 1)
<1>1. PICK k \in Accepting(refusing) :
          /\ \A j \in Accepting(refusing) : k <= j
          /\ LET passed == {Turn(j) : j \in 0 .. (k - 1)}
                 failed == {b \in passed : Eligible(b)}
             IN  /\ MarkDown(failed)
                 /\ Returned(failed \cup {Turn(k)}, Turn(k))
          /\ pending' = [pending EXCEPT ![c] = Turn(k)]
          /\ current' = Turn(k + 1)
  BY DEF Connect
<1> DEFINE failed == {b \in {Turn(j) : j \in 0 .. (k - 1)} : Eligible(b)}
<1>2. k \in 0 .. (N - 1) /\ Eligible(Turn(k)) /\ Turn(k) \notin refusing
  BY <1>1 DEF Accepting
<1>3. failed \subseteq Backend
  <2>1. ASSUME NEW j \in 0 .. (k - 1) PROVE Turn(j) \in Backend
    <3>1. j \in 0 .. (N - 1)
      BY <1>2, BackendsAssumption
    <3>2. QED
      BY <3>1, TurnsAreBackends
  <2>2. QED
    BY <2>1
<1>4. Turn(k) \notin failed
  <2>1. SUFFICES ASSUME NEW j \in 0 .. (k - 1), Turn(j) = Turn(k) PROVE FALSE
    OBVIOUS
  <2>2. j \in 0 .. (N - 1) /\ j < k
    BY <1>2, BackendsAssumption
  <2>3. j \in Accepting(refusing)
    BY <1>2, <2>1, <2>2 DEF Accepting
  <2>4. QED
    BY <1>1, <1>2, <2>2, <2>3
<1>5. QED
  BY <1>1, <1>2, <1>3, <1>4

(***************************************************************************)
(* After a call that got a backend, the turn is that of the next one.  The *)
(* turn only moves with such a call, whatever becomes of the connection.   *)
(***************************************************************************)
NextInTurn == latest.got # NoBackend => current = (latest.got + 1) % N

ListInv == ListTypeOK /\ NextInTurn

(***************************************************************************)
(* The lists of backends keep their types: in particular the turn, which   *)
(* is an index into _M_backends, is always one of the backends.            *)
(***************************************************************************)
THEOREM ListInvariant == ListSpec => []ListInv
<1>1. ListInit => ListInv
  BY BackendsAssumption DEF ListInit, ListInv, ListTypeOK, NextInTurn, Backend
<1>2. ListInv /\ [ListNext]_listVars => ListInv'
  <2> SUFFICES ASSUME ListInv, [ListNext]_listVars PROVE ListInv'
    OBVIOUS
  <2> USE DEF ListInv
  <2>1. ASSUME NEW c \in Conn, NEW refusing \in SUBSET Backend, Connect(c, refusing)
        PROVE  ListInv'
    <3>1. PICK k \in 0 .. (N - 1), failed \in SUBSET Backend :
             /\ MarkDown(failed)
             /\ Returned(failed \cup {Turn(k)}, Turn(k))
             /\ pending' = [pending EXCEPT ![c] = Turn(k)]
             /\ current' = Turn(k + 1)
      BY <2>1, ConnectGets
    <3>2. Turn(k) \in Backend /\ Turn(k + 1) = (Turn(k) + 1) % N /\ Turn(k + 1) \in Backend
      BY TurnsAreBackends
    <3>3. ListTypeOK'
      BY <3>1, <3>2, MarkDownTyped DEF ListTypeOK, Returned
    <3>4. NextInTurn'
      BY <3>1, <3>2 DEF NextInTurn, Returned
    <3>5. QED
      BY <3>3, <3>4
  <2>2. ASSUME NEW refusing \in SUBSET Backend, ConnectFails(refusing) PROVE ListInv'
    BY <2>2, MarkDownTyped DEF ConnectFails, Returned, ListTypeOK, NextInTurn
  <2>3. ASSUME NEW c \in Conn, ConnectionFailed(c) PROVE ListInv'
    BY <2>3, MarkDownTyped DEF ConnectionFailed, ListTypeOK, NextInTurn
  <2>4. ASSUME NEW c \in Conn, ConnectionSettled(c) PROVE ListInv'
    BY <2>4 DEF ConnectionSettled, ListTypeOK, NextInTurn
  <2>5. ASSUME Tick PROVE ListInv'
    BY <2>5, BackendsAssumption DEF Tick, ListTypeOK, NextInTurn
  <2>6. CASE UNCHANGED listVars
    BY <2>6 DEF listVars, ListTypeOK, NextInTurn
  <2>7. QED
    BY <2>1, <2>2, <2>3, <2>4, <2>5, <2>6 DEF ListNext, Request
<1>3. QED
  BY <1>1, <1>2, PTL DEF ListSpec

(***************************************************************************)
(* Only the two outcomes of connect count as a call of it.                 *)
(***************************************************************************)
LEMMA OnlyRequestsCall ==
    ASSUME [ListNext]_listVars, Called
    PROVE  \E refusing \in SUBSET Backend :
              \/ \E c \in Conn : Connect(c, refusing)
              \/ ConnectFails(refusing)
  BY DEF ListNext, Request, Called, ConnectionFailed, ConnectionSettled, Tick, listVars

(***************************************************************************)
(* connect returns -1 only when it leaves every backend down and inside    *)
(* its pause.                                                              *)
(***************************************************************************)
THEOREM RefusalIsJustified == ListSpec => RefusedOnlyWhenAllDown
<1>1. ASSUME ListInv, [ListNext]_listVars, Called, latest'.got = NoBackend, NEW b \in Backend
      PROVE  ~available'[b] /\ age'[b] < Interval
  <2> USE DEF ListInv
  <2>1. PICK refusing \in SUBSET Backend :
            (\E c \in Conn : Connect(c, refusing)) \/ ConnectFails(refusing)
    BY <1>1, OnlyRequestsCall
  <2>2. ASSUME NEW c \in Conn, Connect(c, refusing) PROVE FALSE
    <3>1. PICK k \in 0 .. (N - 1) : \E failed : Returned(failed \cup {Turn(k)}, Turn(k))
      BY <1>1, <2>2, ConnectGets
    <3>2. Turn(k) \in Backend /\ latest'.got = Turn(k)
      BY <1>1, <3>1, TurnsAreBackends DEF Returned
    <3>3. QED
      BY <1>1, <3>2, BackendsAssumption
  <2>3. ConnectFails(refusing)
    BY <2>1, <2>2
  <2>4. CASE Eligible(b)
    <3>1. b \in {x \in Backend : Eligible(x)}
      BY <1>1, <2>4
    <3>2. MarkDown({x \in Backend : Eligible(x)})
      BY <2>3 DEF ConnectFails
    <3>3. ~available'[b] /\ age'[b] = 0
      BY <1>1, <3>1, <3>2, MarksDown
    <3>4. QED
      BY <3>3, BackendsAssumption
  <2>5. CASE ~Eligible(b)
    BY <1>1, <2>3, <2>5, BackendsAssumption DEF ConnectFails, MarkDown, Eligible, ListTypeOK
  <2>6. QED
    BY <2>4, <2>5
<1>2. ListInv /\ [ListNext]_listVars =>
        [Called /\ latest'.got = NoBackend =>
            \A b \in Backend : ~available'[b] /\ age'[b] < Interval]_listVars
  BY <1>1
<1>3. QED
  BY <1>2, ListInvariant, PTL DEF ListSpec, RefusedOnlyWhenAllDown

(***************************************************************************)
(* As long as every backend is well, connections go round.                 *)
(***************************************************************************)
THEOREM ConnectionsGoRound == ListSpec => TurnsAreTaken
<1>1. ASSUME ListInv, [ListNext]_listVars, Called, AllWell, AllWell', latest.got # NoBackend
      PROVE  latest'.got = (latest.got + 1) % N
  <2> USE DEF ListInv
  <2>1. PICK refusing \in SUBSET Backend :
            (\E c \in Conn : Connect(c, refusing)) \/ ConnectFails(refusing)
    BY <1>1, OnlyRequestsCall
  <2>2. ASSUME ConnectFails(refusing) PROVE FALSE
    BY <1>1, <2>2, BackendsAssumption
       DEF ConnectFails, MarkDown, AllWell, Eligible, ListTypeOK
  <2>3. PICK c \in Conn : Connect(c, refusing)
    BY <2>1, <2>2
  <2>4. PICK k \in 0 .. (N - 1), failed \in SUBSET Backend :
           /\ failed = {b \in {Turn(j) : j \in 0 .. (k - 1)} : Eligible(b)}
           /\ MarkDown(failed)
           /\ Returned(failed \cup {Turn(k)}, Turn(k))
    BY <1>1, <2>3, ConnectGets
  <2>5. failed = {}
    BY <1>1, <2>4 DEF MarkDown, AllWell
  <2>6. k = 0
    <3>1. SUFFICES ASSUME k # 0 PROVE FALSE
      OBVIOUS
    <3>2. 0 \in 0 .. (k - 1) /\ 0 \in 0 .. (N - 1)
      BY <3>1, BackendsAssumption
    <3>3. Turn(0) \in Backend
      BY <1>1, <3>2, TurnsAreBackends
    <3>4. Turn(0) \in failed
      BY <1>1, <2>4, <3>2, <3>3 DEF AllWell, Eligible
    <3>5. QED
      BY <2>5, <3>4
  <2>7. latest'.got = current
    BY <1>1, <2>4, <2>6, TurnsAreBackends DEF Returned
  <2>8. QED
    BY <1>1, <2>7 DEF NextInTurn
<1>2. ListInv /\ [ListNext]_listVars =>
        [Called /\ AllWell /\ AllWell' /\ latest.got # NoBackend
            => latest'.got = (latest.got + 1) % N]_listVars
  BY <1>1
<1>3. QED
  BY <1>2, ListInvariant, PTL DEF ListSpec, TurnsAreTaken

\* What happens to a backend, and what it is for.
GoesDown(b) == (available[b] /\ ~available'[b]) \/ age'[b] < age[b]

HasFailed(b) ==
    \/ Called /\ b \in latest'.tried \ {latest'.got}
    \/ \E c \in Conn : pending[c] = b /\ pending'[c] = NoBackend

\* Only the backends that have just failed are taken for down.
LEMMA MarkedDown ==
    ASSUME ListTypeOK, NEW failed, MarkDown(failed), NEW b \in Backend, GoesDown(b)
    PROVE  b \in failed
  BY DEF MarkDown, GoesDown, ListTypeOK

(***************************************************************************)
(* Nothing but the failure of a connection to it takes a backend for down  *)
(* or starts its pause anew.                                               *)
(***************************************************************************)
THEOREM BlameIsDeserved == ListSpec => OnlyTheFailedGoDown
<1>1. ASSUME ListInv, [ListNext]_listVars, NEW b \in Backend, GoesDown(b)
      PROVE  HasFailed(b)
  <2> USE <1>1 DEF ListInv
  <2>1. ASSUME NEW c \in Conn, NEW refusing \in SUBSET Backend, Connect(c, refusing)
        PROVE  HasFailed(b)
    <3>1. PICK k \in 0 .. (N - 1), failed \in SUBSET Backend :
             /\ Turn(k) \notin failed
             /\ MarkDown(failed)
             /\ Returned(failed \cup {Turn(k)}, Turn(k))
      BY <2>1, ConnectGets
    <3>2. b \in failed
      BY <3>1, MarkedDown
    <3>3. Called /\ latest'.tried = failed \cup {Turn(k)} /\ latest'.got = Turn(k)
      BY <3>1 DEF Returned, Called, ListTypeOK
    <3>4. QED
      BY <3>1, <3>2, <3>3 DEF HasFailed
  <2>2. ASSUME NEW refusing \in SUBSET Backend, ConnectFails(refusing)
        PROVE  HasFailed(b)
    <3>1. b \in {x \in Backend : Eligible(x)}
      BY <2>2, MarkedDown DEF ConnectFails
    <3>2. Called /\ latest'.tried = {x \in Backend : Eligible(x)} /\ latest'.got = NoBackend
      BY <2>2 DEF ConnectFails, Returned, Called, ListTypeOK
    <3>3. QED
      BY <3>1, <3>2, BackendsAssumption DEF HasFailed
  <2>3. ASSUME NEW c \in Conn, ConnectionFailed(c) PROVE HasFailed(b)
    <3>1. b \in {pending[c]}
      BY <2>3, MarkedDown DEF ConnectionFailed
    <3>2. QED
      BY <2>3, <3>1 DEF ConnectionFailed, HasFailed, ListTypeOK
  <2>4. ASSUME NEW c \in Conn, ConnectionSettled(c) PROVE FALSE
    BY <2>4 DEF ConnectionSettled, GoesDown, ListTypeOK
  <2>5. ASSUME Tick PROVE FALSE
    BY <2>5, BackendsAssumption DEF Tick, GoesDown, ListTypeOK
  <2>6. ASSUME UNCHANGED listVars PROVE FALSE
    BY <2>6 DEF listVars, GoesDown, ListTypeOK
  <2>7. QED
    BY <2>1, <2>2, <2>3, <2>4, <2>5, <2>6 DEF ListNext, Request
<1>2. ListInv /\ [ListNext]_listVars =>
        [\A b \in Backend :
            \/ available[b] /\ ~available'[b]
            \/ age'[b] < age[b]
            => \/ Called /\ b \in latest'.tried \ {latest'.got}
               \/ \E c \in Conn : pending[c] = b /\ pending'[c] = NoBackend]_listVars
  BY <1>1 DEF GoesDown, HasFailed
<1>3. QED
  BY <1>2, ListInvariant, PTL DEF ListSpec, OnlyTheFailedGoDown
=============================================================================
