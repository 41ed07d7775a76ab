------------------------- MODULE FileResponse_proofs -------------------------
(***************************************************************************)
(* Proofs about the response that carries a file, for every size, every    *)
(* sequence of ranges and every way the socket takes it, whoever calls: what*)
(* the client is sent is the response, piece by piece, and by how much its *)
(* length differs from the one that has been announced.  The ranges are    *)
(* those RangeParser finds: behind, that they are in the file.             *)
(***************************************************************************)
EXTENDS FileResponse, RangeParser, SequenceTheorems, WellFoundedInduction, TLAPS

(***************************************************************************)
(* A set of natural numbers has a least element, which is why what is true *)
(* of 1, and of each number after one it is true of, is true up to n.      *)
(***************************************************************************)
LEMMA LeastNumber ==
    ASSUME NEW S, S \subseteq Nat, S # {}
    PROVE  \E x \in S : \A y \in S : x <= y
<1> DEFINE R == OpToRel(<, Nat)
<1>1. IsWellFoundedOn(R, Nat)
  BY NatLessThanWellFounded
<1>2. \A x, y \in Nat : y < x => <<y, x>> \in R
  BY DEF OpToRel
<1> HIDE DEF R
<1>3. PICK x \in S : \A y \in S : ~ (<<y, x>> \in R)
  BY <1>1, WFMin
<1>4. ASSUME NEW y \in S PROVE x <= y
  <2>1. x \in Nat /\ y \in Nat
    OBVIOUS
  <2>2. ~ (y < x)
    BY <1>2, <1>3, <2>1
  <2>3. QED
    BY <2>1, <2>2
<1>5. QED
  BY <1>4

\* The same for a set of which one knows what follows from one number to the next.
LEMMA UpToTheEnd ==
    ASSUME NEW n \in Nat, NEW S, \A k \in 1 .. n : (k = 1 \/ k - 1 \in S) => k \in S
    PROVE  1 .. n \subseteq S
<1> DEFINE Bad == {k \in 1 .. n : k \notin S}
<1> SUFFICES ASSUME Bad # {} PROVE FALSE
  OBVIOUS
<1>1. PICK k0 \in Bad : \A k \in Bad : k0 <= k
  <2>1. Bad \subseteq Nat
    OBVIOUS
  <2> HIDE DEF Bad
  <2>2. QED
    BY <2>1, LeastNumber
<1>2. k0 \in 1 .. n /\ k0 \notin S
  BY <1>1
<1>3. k0 # 1 => k0 - 1 \in 1 .. n /\ k0 - 1 \notin Bad
  BY <1>1, <1>2
<1>4. QED
  BY <1>2, <1>3

----------------------------------------------------------------------------
(***************************************************************************)
(* The sums of a sequence of lengths.                                      *)
(***************************************************************************)
Sums(s, n, f) == f = [k \in 0 .. n |-> IF k = 0 THEN 0 ELSE f[k - 1] + s[k]]

\* One more length is added to the sum of those before.
LEMMA OneMoreSum ==
    ASSUME NEW s, NEW n \in Nat \ {0}, NEW f, Sums(s, n - 1, f)
    PROVE  \E g : Sums(s, n, g)
<1> DEFINE g == [k \in 0 .. n |-> IF k = n THEN f[n - 1] + s[n] ELSE f[k]]
<1>1. \A k \in 0 .. (n - 1) : f[k] = IF k = 0 THEN 0 ELSE f[k - 1] + s[k]
  <2>1. f = [k \in 0 .. (n - 1) |-> IF k = 0 THEN 0 ELSE f[k - 1] + s[k]]
    BY DEF Sums
  <2>2. QED
    BY <2>1, Zenon
<1>2. \A k \in 0 .. n : k # n => g[k] = f[k]
  BY Zenon
<1>3. n \in 0 .. n /\ g[n] = f[n - 1] + s[n]
  <2>1. n \in 0 .. n
    OBVIOUS
  <2>2. QED
    BY <2>1, Zenon
<1>4. g = [k \in 0 .. n |-> g[k]]
  OBVIOUS
<1> HIDE DEF g
<1>5. \A k \in 0 .. n : g[k] = IF k = 0 THEN 0 ELSE g[k - 1] + s[k]
  <2> TAKE k \in 0 .. n
  <2>1. CASE k = n
    <3>1. k # 0 /\ k - 1 \in 0 .. n /\ k - 1 # n
      BY <2>1
    <3>2. g[k - 1] = f[n - 1]
      BY <1>2, <2>1, <3>1
    <3>3. QED
      BY <1>3, <2>1, <3>1, <3>2
  <2>2. CASE k # n
    <3>1. k \in 0 .. (n - 1) /\ (k # 0 => k - 1 \in 0 .. n /\ k - 1 # n)
      BY <2>2
    <3>2. g[k] = f[k] /\ (k # 0 => g[k - 1] = f[k - 1])
      BY <1>2, <2>2, <3>1
    <3>3. QED
      BY <1>1, <3>1, <3>2
  <2>3. QED
    BY <2>1, <2>2
<1>6. Sums(s, n, g)
  BY <1>4, <1>5, Zenon DEF Sums
<1>7. QED
  BY <1>6

\* There are such sums, as many as one likes.
LEMMA SumsExist ==
    ASSUME NEW s, NEW n \in Nat
    PROVE  \E f : Sums(s, n, f)
<1> DEFINE S == {k \in 1 .. n : \E f : Sums(s, k, f)}
<1>1. \E f : Sums(s, 0, f)
  <2> DEFINE f == [k \in 0 .. 0 |-> 0]
  <2>1. \A k \in 0 .. 0 : k = 0
    OBVIOUS
  <2>2. f = [k \in 0 .. 0 |-> IF k = 0 THEN 0 ELSE f[k - 1] + s[k]]
    BY <2>1
  <2>3. QED
    BY <2>2 DEF Sums
<1>2. \A k \in 1 .. n : (k = 1 \/ k - 1 \in S) => k \in S
  <2> SUFFICES ASSUME NEW k \in 1 .. n, k = 1 \/ k - 1 \in S PROVE k \in S
    OBVIOUS
  <2>1. k \in Nat \ {0} /\ (k = 1 => k - 1 = 0)
    OBVIOUS
  <2>2. PICK f : Sums(s, k - 1, f)
    BY <1>1, <2>1
  <2>3. \E g : Sums(s, k, g)
    BY <2>1, <2>2, OneMoreSum
  <2>4. QED
    BY <2>3
<1> HIDE DEF S
<1>3. 1 .. n \subseteq S
  BY <1>2, UpToTheEnd
<1>4. CASE n = 0
  BY <1>1, <1>4
<1>5. CASE n # 0
  <2>1. n \in S
    BY <1>3, <1>5
  <2>2. QED
    BY <2>1 DEF S
<1>6. QED
  BY <1>4, <1>5

\* The sum of a sequence is the last of them.
LEMMA SumIs ==
    ASSUME NEW n \in Nat, NEW s, Len(s) = n
    PROVE  \E f : /\ Sum(s) = f[n] /\ f[0] = 0
                  /\ \A k \in 1 .. n : f[k] = f[k - 1] + s[k]
<1> DEFINE upTo == CHOOSE f : f = [k \in 0 .. n |-> IF k = 0 THEN 0 ELSE f[k - 1] + s[k]]
<1>1. \E f : f = [k \in 0 .. n |-> IF k = 0 THEN 0 ELSE f[k - 1] + s[k]]
  BY SumsExist DEF Sums
<1>2. upTo = [k \in 0 .. n |-> IF k = 0 THEN 0 ELSE upTo[k - 1] + s[k]]
  BY <1>1
<1>3. Sum(s) = upTo[n]
  BY DEF Sum
<1> HIDE DEF upTo
<1>4. \A k \in 0 .. n : upTo[k] = IF k = 0 THEN 0 ELSE upTo[k - 1] + s[k]
  BY <1>2, Zenon
<1>5. 0 \in 0 .. n /\ \A k \in 1 .. n : k \in 0 .. n /\ k # 0
  OBVIOUS
<1>6. QED
  BY <1>3, <1>4, <1>5

\* A sum of lengths is one.
LEMMA SumIsLength ==
    ASSUME NEW n \in Nat, NEW s, Len(s) = n, \A k \in 1 .. n : s[k] \in Nat
    PROVE  Sum(s) \in Nat
<1>0. n \in Nat /\ Len(s) = n
  OBVIOUS
<1>1. PICK f : /\ Sum(s) = f[n] /\ f[0] = 0
               /\ \A k \in 1 .. n : f[k] = f[k - 1] + s[k]
  BY ONLY <1>0, SumIs
<1> DEFINE S == {k \in 1 .. n : f[k] \in Nat}
<1>2. \A k \in 1 .. n : (k = 1 \/ k - 1 \in S) => k \in S
  <2> SUFFICES ASSUME NEW k \in 1 .. n, k = 1 \/ k - 1 \in S PROVE k \in S
    OBVIOUS
  <2>1. f[k] = f[k - 1] + s[k] /\ (k = 1 => k - 1 = 0)
    BY <1>1
  <2>2. f[k - 1] \in Nat /\ s[k] \in Nat
    BY <1>1, <2>1
  <2>3. QED
    BY <2>1, <2>2
<1> HIDE DEF S
<1>3. 1 .. n \subseteq S
  BY <1>2, UpToTheEnd
<1>4. n # 0 => n \in S
  BY <1>3
<1>5. QED
  BY <1>1, <1>4 DEF S

----------------------------------------------------------------------------
(***************************************************************************)
(* The lengths of the texts.  Of the length that a part header says the    *)
(* file has only the number of digits matters.                             *)
(***************************************************************************)
LEMMA DigitsAreFew == \A n : DigitsOf(n) \in 1 .. 18
<1> SUFFICES ASSUME NEW n PROVE DigitsOf(n) \in 1 .. 18
  OBVIOUS
<1> DEFINE Fits(d) == n < 10 ^ d
           S == {d \in 1 .. 18 : d = 18 \/ Fits(d)}
<1>1. DigitsOf(n) = CHOOSE d \in 1 .. 18 : /\ d = 18 \/ Fits(d)
                                           /\ \A e \in 1 .. (d - 1) : ~ Fits(e)
  BY DEF DigitsOf
<1> HIDE DEF Fits
<1>2. PICK d \in S : \A e \in S : d <= e
  <2>1. S \subseteq Nat /\ 18 \in S
    OBVIOUS
  <2> HIDE DEF S
  <2>2. QED
    BY <2>1, LeastNumber
<1>3. \A e \in 1 .. (d - 1) : ~ Fits(e)
  <2> SUFFICES ASSUME NEW e \in 1 .. (d - 1), Fits(e) PROVE FALSE
    OBVIOUS
  <2>1. d \in 1 .. 18
    OBVIOUS
  <2>2. e \in 1 .. 18 /\ ~ (d <= e)
    BY <2>1
  <2>3. QED
    BY <1>2, <2>2
<1>4. d \in 1 .. 18 /\ (d = 18 \/ Fits(d))
  OBVIOUS
<1> HIDE DEF S
<1>5. QED
  BY <1>1, <1>3, <1>4

\* A part header and the footer are not empty.
LEMMA TextsAreLong ==
    /\ \A r, a : PartHeaderLen(r, a) \in Nat \ {0}
    /\ \A r, a, b : PartHeaderLen(r, a) + DigitsOf(b) = PartHeaderLen(r, b) + DigitsOf(a)
    /\ FooterLen \in Nat \ {0} /\ HeadersLen \in Nat \ {0}
<1>1. BoundaryLen \in Nat /\ TypeLen \in Nat /\ HeadersLen \in Nat \ {0}
  BY FileResponseAssumption
<1>2. \A n : DigitsOf(n) \in Nat
  BY DigitsAreFew
<1>3. ASSUME NEW r, NEW a, NEW b
      PROVE  /\ PartHeaderLen(r, a) \in Nat \ {0}
             /\ PartHeaderLen(r, a) + DigitsOf(b) = PartHeaderLen(r, b) + DigitsOf(a)
  <2>1. /\ DigitsOf(r.from) \in Nat /\ DigitsOf(r.to) \in Nat
        /\ DigitsOf(a) \in Nat /\ DigitsOf(b) \in Nat
    BY <1>2
  <2>2. QED
    BY <1>1, <2>1 DEF PartHeaderLen
<1>4. FooterLen \in Nat \ {0}
  BY <1>1 DEF FooterLen
<1>5. QED
  BY <1>1, <1>3, <1>4

----------------------------------------------------------------------------
(***************************************************************************)
(* The request.                                                            *)
(***************************************************************************)
Asked ==
    /\ method \in {"GET", "HEAD"} /\ st_size \in Nat
    /\ ranges \in Seq(RangesOf(st_size)) /\ (method = "HEAD" => ranges = <<>>)
    /\ announced = ContentLength(st_size, ranges)
    /\ filesize = IF method = "HEAD" THEN 0 ELSE announced

\* Where a range is, and how long.
LEMMA RangeIs ==
    ASSUME Asked
    PROVE  /\ Len(ranges) \in Nat /\ (ranges = <<>> <=> Len(ranges) = 0)
           /\ \A i \in 1 .. Len(ranges) :
                 /\ ranges[i].from \in Nat /\ ranges[i].to \in Nat /\ ranges[i].from <= ranges[i].to
                 /\ ranges[i].to < st_size /\ RangeLen(ranges[i]) \in Nat \ {0}
<1>1. ASSUME NEW i \in 1 .. Len(ranges)
      PROVE  /\ ranges[i].from \in Nat /\ ranges[i].to \in Nat /\ ranges[i].from <= ranges[i].to
             /\ ranges[i].to < st_size /\ RangeLen(ranges[i]) \in Nat \ {0}
  <2>1. ranges[i] \in RangesOf(st_size) /\ st_size \in Nat
    BY DEF Asked
  <2>2. /\ ranges[i].from \in 0 .. (st_size - 1) /\ ranges[i].to \in 0 .. (st_size - 1)
        /\ ranges[i].from <= ranges[i].to
    BY <2>1 DEF RangesOf
  <2>3. QED
    BY <2>1, <2>2 DEF RangeLen
<1>2. QED
  BY <1>1 DEF Asked

\* Nothing is announced if and only if the file is empty.
LEMMA AnnouncedIs ==
    ASSUME Asked
    PROVE  announced \in Nat /\ (announced = 0 <=> st_size = 0) /\ (st_size = 0 => ranges = <<>>)
<1>1. /\ Len(ranges) \in Nat /\ (ranges = <<>> <=> Len(ranges) = 0) /\ st_size \in Nat
      /\ \A i \in 1 .. Len(ranges) :
            /\ ranges[i].to \in Nat /\ ranges[i].to < st_size /\ RangeLen(ranges[i]) \in Nat \ {0}
  BY RangeIs DEF Asked
<1>2. Len(ranges) # 0 => st_size # 0
  <2>1. Len(ranges) # 0 => 1 \in 1 .. Len(ranges)
    BY <1>1
  <2>2. QED
    BY <1>1, <2>1
<1>3. CASE Len(ranges) = 0
  BY <1>1, <1>3 DEF Asked, ContentLength
<1>4. CASE Len(ranges) = 1
  <2>1. announced = RangeLen(ranges[1])
    BY <1>4 DEF Asked, ContentLength
  <2>2. QED
    BY <1>1, <1>2, <1>4, <2>1
<1>5. CASE Len(ranges) > 1
  <2> DEFINE s == [i \in 1 .. Len(ranges) |-> PartHeaderLen(ranges[i], st_size) + RangeLen(ranges[i])]
  <2>1. announced = Sum(s) + FooterLen
    BY <1>1, <1>5 DEF Asked, ContentLength
  <2>2. \A i \in 1 .. Len(ranges) : s[i] \in Nat
    BY <1>1, TextsAreLong
  <2>3. Len(s) = Len(ranges)
    BY <1>1
  <2> HIDE DEF s
  <2>4. Sum(s) \in Nat
    BY <1>1, <2>2, <2>3, SumIsLength
  <2>5. QED
    BY <1>1, <1>2, <1>5, <2>1, <2>4, TextsAreLong
<1>6. Len(ranges) = 0 \/ Len(ranges) = 1 \/ Len(ranges) > 1
  <2>1. PICK m \in Nat : m = Len(ranges)
    BY <1>1
  <2>2. m = 0 \/ m = 1 \/ m > 1
    OBVIOUS
  <2>3. QED
    BY <2>1, <2>2
<1>7. QED
  BY <1>3, <1>4, <1>5, <1>6

(***************************************************************************)
(* The pieces of the response: none is empty, a text is followed by a part *)
(* of the file and this by a text.                                         *)
(***************************************************************************)
LEMMA PiecesAre ==
    ASSUME Asked
    PROVE  /\ Pieces \in Nat \ {0} /\ Len(Response) = Pieces
           /\ \A k \in 1 .. Pieces :
                 Response[k] = IF k % 2 = 1 THEN TextOf((k + 1) \div 2) ELSE FileOf(k \div 2)
<1>1. Len(ranges) \in Nat
  BY RangeIs
<1>2. Pieces \in Nat \ {0}
  BY <1>1 DEF Pieces
<1>3. QED
  BY <1>2 DEF Response

\* What the proofs need to know of a piece.
IsPiece(r, w, a, b) ==
    r = [what |-> w, from |-> a, to |-> b] /\ a \in Nat /\ b \in Nat /\ a < b

\* Text i, whatever its number.
LEMMA TextIs ==
    ASSUME Asked, NEW i
    PROVE  \E w, n : IsPiece(TextOf(i), w, 0, n) /\ w # <<"file", 0>>
<1>1. /\ \A j : PartHeaderLen(ranges[j], announced) \in Nat \ {0}
      /\ FooterLen \in Nat \ {0} /\ HeadersLen \in Nat \ {0}
  BY TextsAreLong
<1>2. CASE i = 1
  <2> DEFINE n == HeadersLen + IF Len(ranges) > 1 THEN PartHeaderLen(ranges[1], announced) ELSE 0
  <2>1. TextOf(i) = [what |-> <<"headers", 1>>, from |-> 0, to |-> n]
    BY <1>2 DEF TextOf, Text
  <2>2. n \in Nat \ {0}
    BY <1>1
  <2> HIDE DEF n
  <2>3. IsPiece(TextOf(i), <<"headers", 1>>, 0, n)
    BY <2>1, <2>2 DEF IsPiece
  <2>4. <<"headers", 1>> # <<"file", 0>>
    OBVIOUS
  <2>5. QED
    BY <2>3, <2>4, Zenon
<1>3. CASE i # 1 /\ i \in 2 .. Len(ranges)
  <2>1. TextOf(i) = [what |-> <<"part", i>>, from |-> 0, to |-> PartHeaderLen(ranges[i], announced)]
    BY <1>3 DEF TextOf, Text
  <2>2. IsPiece(TextOf(i), <<"part", i>>, 0, PartHeaderLen(ranges[i], announced))
    BY <1>1, <2>1 DEF IsPiece
  <2>3. <<"part", i>> # <<"file", 0>>
    OBVIOUS
  <2>4. QED
    BY <2>2, <2>3, Zenon
<1>4. CASE i # 1 /\ i \notin 2 .. Len(ranges)
  <2>1. TextOf(i) = [what |-> <<"footer", Len(ranges)>>, from |-> 0, to |-> FooterLen]
    BY <1>4 DEF TextOf, Text
  <2>2. IsPiece(TextOf(i), <<"footer", Len(ranges)>>, 0, FooterLen)
    BY <1>1, <2>1 DEF IsPiece
  <2>3. <<"footer", Len(ranges)>> # <<"file", 0>>
    OBVIOUS
  <2>4. QED
    BY <2>2, <2>3, Zenon
<1>5. QED
  BY <1>2, <1>3, <1>4

\* What is sent of the file for range i, or of a file without ranges.
FileFrom(i) == IF ranges = <<>> THEN 0 ELSE ranges[i].from

FileTo(i) == IF ranges = <<>> THEN st_size ELSE ranges[i].to + 1

LEMMA FileIs ==
    ASSUME Asked, st_size # 0, NEW i \in Nat \ {0}, i <= Len(ranges) \/ ranges = <<>>
    PROVE  IsPiece(FileOf(i), <<"file", 0>>, FileFrom(i), FileTo(i))
<1>1. CASE ranges = <<>>
  <2>1. FileOf(i) = [what |-> <<"file", 0>>, from |-> 0, to |-> st_size] /\ st_size \in Nat
    BY <1>1 DEF FileOf, Stretch, Asked
  <2>2. FileFrom(i) = 0 /\ FileTo(i) = st_size
    BY <1>1 DEF FileFrom, FileTo
  <2>3. QED
    BY <2>1, <2>2 DEF IsPiece
<1>2. CASE ranges # <<>>
  <2>1. i \in 1 .. Len(ranges) /\ Len(ranges) \in Nat
    BY <1>2, RangeIs
  <2>2. ranges[i].from \in Nat /\ ranges[i].to \in Nat /\ ranges[i].from <= ranges[i].to
    BY <2>1, RangeIs
  <2>3. FileOf(i) = [what |-> <<"file", 0>>, from |-> ranges[i].from, to |-> ranges[i].to + 1]
    BY <1>2 DEF FileOf, Stretch
  <2>4. FileFrom(i) = ranges[i].from /\ FileTo(i) = ranges[i].to + 1
    BY <1>2 DEF FileFrom, FileTo
  <2>5. QED
    BY <2>2, <2>3, <2>4 DEF IsPiece
<1>3. QED
  BY <1>1, <1>2

LEMMA EachIsPiece ==
    ASSUME Asked, NEW k \in 1 .. Pieces
    PROVE  \E w, a, b : /\ IsPiece(Response[k], w, a, b)
                        /\ (w = <<"file", 0>>) <=> (k % 2 = 0)
<1>1. /\ Len(ranges) \in Nat /\ (ranges = <<>> <=> Len(ranges) = 0) /\ Pieces \in Nat
      /\ Response[k] = IF k % 2 = 1 THEN TextOf((k + 1) \div 2) ELSE FileOf(k \div 2)
  BY RangeIs, PiecesAre
<1>2. CASE k % 2 = 1
  <2>1. PICK w, n : IsPiece(TextOf((k + 1) \div 2), w, 0, n) /\ w # <<"file", 0>>
    BY TextIs
  <2>2. IsPiece(Response[k], w, 0, n)
    BY <1>1, <1>2, <2>1
  <2>3. QED
    BY <1>2, <2>1, <2>2
<1>3. CASE k % 2 # 1
  <2> DEFINE i == k \div 2
  <2>1. k % 2 = 0 /\ k = 2 * i /\ i \in Nat \ {0}
    BY <1>1, <1>3
  <2> HIDE DEF i
  <2>2. st_size # 0 /\ (i <= Len(ranges) \/ ranges = <<>>)
    BY <1>1, <2>1 DEF Pieces
  <2>3. IsPiece(FileOf(i), <<"file", 0>>, FileFrom(i), FileTo(i))
    BY <2>1, <2>2, FileIs
  <2>4. Response[k] = FileOf(i)
    BY <1>1, <1>3 DEF i
  <2>5. QED
    BY <2>1, <2>3, <2>4
<1>4. QED
  BY <1>2, <1>3

----------------------------------------------------------------------------
(***************************************************************************)
(* The inductive invariant: loop is at a piece of the response, of which   *)
(* what lies before outp has been sent, behind all the pieces before it.   *)
(***************************************************************************)
PlaceOf(at, n) == IF at = "SENDING_BODY" THEN 2 * n ELSE 2 * n - 1

Stage(at, n) ==
    \/ at = "SENDING_HEADERS" /\ n = 1
    \/ at = "SENDING_PART_HEADER" /\ n \in 2 .. Len(ranges)
    \/ /\ at = "SENDING_BODY" /\ method = "GET" /\ st_size # 0
       /\ (n = 1 /\ Len(ranges) < 2) \/ (n \in 1 .. Len(ranges) /\ Len(ranges) > 1)
    \/ at = "SENDING_MULTIPART_FOOTER" /\ Len(ranges) > 1 /\ n = Len(ranges) + 1

Place == PlaceOf(state, nrange)

SentTo(k, p) ==
    sent = IF p = Response[k].from THEN SubSeq(Response, 1, k - 1)
           ELSE Append(SubSeq(Response, 1, k - 1), [Response[k] EXCEPT !.to = p])

Sending ==
    /\ Stage(state, nrange)
    /\ state # "SENDING_BODY" => out = [what |-> Response[Place].what, len |-> Response[Place].to]
    /\ outp \in Response[Place].from .. Response[Place].to
    /\ SentTo(Place, outp)

ResponseInv ==
    /\ Asked
    /\ IF state = "REQUEST_COMPLETED" THEN sent = Response ELSE Sending

\* How many pieces there are.
LEMMA PiecesCount ==
    ASSUME Asked
    PROVE  /\ method = "HEAD" \/ st_size = 0 => Pieces = 1
           /\ method = "GET" /\ st_size # 0 /\ Len(ranges) < 2 => Pieces = 2
           /\ Len(ranges) > 1 => Pieces = 2 * Len(ranges) + 1 /\ st_size # 0 /\ method = "GET"
<1>1. /\ Len(ranges) \in Nat /\ (ranges = <<>> <=> Len(ranges) = 0)
      /\ st_size = 0 => ranges = <<>>
  BY RangeIs, AnnouncedIs
<1>2. method \in {"GET", "HEAD"} /\ (method = "HEAD" => ranges = <<>>)
  BY DEF Asked
<1>3. "HEAD" # "GET"
  OBVIOUS
<1>4. QED
  BY <1>1, <1>2, <1>3 DEF Pieces

\* The piece where loop is.
LEMMA PlaceIs ==
    ASSUME Asked, NEW at, NEW n, Stage(at, n)
    PROVE  /\ PlaceOf(at, n) \in 1 .. Pieces /\ n \in Nat \ {0}
           /\ Response[PlaceOf(at, n)] = IF at = "SENDING_BODY" THEN FileOf(n) ELSE TextOf(n)
<1> DEFINE k == PlaceOf(at, n)
<1>1. /\ Pieces \in Nat \ {0} /\ Len(ranges) \in Nat
      /\ \A i \in 1 .. Pieces :
            Response[i] = IF i % 2 = 1 THEN TextOf((i + 1) \div 2) ELSE FileOf(i \div 2)
  BY PiecesAre, RangeIs
<1>2. CASE at # "SENDING_BODY"
  <2>1. n \in Nat \ {0} /\ k = 2 * n - 1
    BY <1>1, <1>2 DEF Stage, PlaceOf
  <2>2. k \in 1 .. Pieces
    BY <1>1, <1>2, <2>1, PiecesCount DEF Stage
  <2>3. k % 2 = 1 /\ (k + 1) \div 2 = n
    BY <2>1
  <2>4. QED
    BY <1>1, <1>2, <2>1, <2>2, <2>3
<1>3. CASE at = "SENDING_BODY"
  <2>1. n \in Nat \ {0} /\ k = 2 * n
    BY <1>1, <1>3 DEF Stage, PlaceOf
  <2>2. k \in 1 .. Pieces
    BY <1>1, <1>3, <2>1, PiecesCount DEF Stage
  <2>3. k % 2 # 1 /\ k \div 2 = n
    BY <2>1
  <2>4. QED
    BY <1>1, <1>3, <2>1, <2>2, <2>3
<1>4. QED
  BY <1>2, <1>3

\* Of the file it is the range, or all of it, and it ends where loop thinks.
LEMMA EndIs ==
    ASSUME Asked, Sending
    PROVE  /\ EndOfStretch = Response[Place].to /\ What = Response[Place].what
           /\ state = "SENDING_BODY" => /\ Response[Place].from = FileFrom(nrange)
                                        /\ nrange <= Len(ranges) \/ ranges = <<>>
<1>1. CASE state # "SENDING_BODY"
  BY <1>1 DEF Sending, EndOfStretch, What
<1>2. CASE state = "SENDING_BODY"
  <2>1. Response[Place] = FileOf(nrange) /\ nrange \in Nat \ {0} /\ st_size # 0 /\ method = "GET"
    BY <1>2, PlaceIs DEF Sending, Stage, Place
  <2>2. nrange <= Len(ranges) \/ ranges = <<>>
    <3>1. Len(ranges) \in Nat /\ (ranges = <<>> <=> Len(ranges) = 0)
      BY RangeIs
    <3>2. (nrange = 1 /\ Len(ranges) < 2) \/ nrange \in 1 .. Len(ranges)
      BY <1>2 DEF Sending, Stage
    <3>3. QED
      BY <3>1, <3>2
  <2>3. IsPiece(FileOf(nrange), <<"file", 0>>, FileFrom(nrange), FileTo(nrange))
    BY <2>1, <2>2, FileIs
  <2>4. ranges = <<>> => filesize = st_size
    <3>1. ranges = <<>> => Len(ranges) = 0
      BY RangeIs
    <3>2. "GET" # "HEAD"
      OBVIOUS
    <3>3. QED
      BY <2>1, <3>1, <3>2 DEF Asked, ContentLength
  <2>5. EndOfStretch = FileTo(nrange) /\ What = <<"file", 0>>
    BY <1>2, <2>4 DEF EndOfStretch, What, FileTo
  <2>6. QED
    BY <2>1, <2>2, <2>3, <2>5 DEF IsPiece
<1>3. QED
  BY <1>1, <1>2

\* The request stays as it is, and so does the response.
LEMMA SameResponse ==
    ASSUME UNCHANGED <<request, filesize>>
    PROVE  /\ Asked => Asked'
           /\ Response' = Response /\ Pieces' = Pieces
           /\ \A i : FileOf(i)' = FileOf(i) /\ TextOf(i)' = TextOf(i)
<1>1. method' = method /\ st_size' = st_size /\ ranges' = ranges /\ announced' = announced /\ filesize' = filesize
  BY DEF request
<1>2. Asked => Asked'
  BY <1>1 DEF Asked
<1>3. Pieces' = Pieces
  BY <1>1 DEF Pieces
<1>4. Response' = Response
  BY <1>1, <1>3 DEF Response, TextOf, FileOf, Text, Stretch
<1>5. QED
  BY <1>1, <1>2, <1>3, <1>4 DEF TextOf, FileOf, Text, Stretch

----------------------------------------------------------------------------
(***************************************************************************)
(* A round that sends.                                                     *)
(***************************************************************************)
\* The response is a sequence.
LEMMA ResponseIsSeq ==
    ASSUME Asked
    PROVE  \E T : Response \in Seq(T)
<1> DEFINE T == {Response[i] : i \in 1 .. Pieces}
<1>1. Response = [i \in 1 .. Pieces |-> Response[i]]
  BY DEF Response
<1>2. Response \in [1 .. Pieces -> T]
  BY <1>1
<1> HIDE DEF T
<1>3. Response \in Seq(T)
  BY <1>2, PiecesAre, SeqDef
<1>4. QED
  BY <1>3

\* The last of a sequence is made another.
LEMMA LastReplaced ==
    ASSUME NEW T, NEW S \in Seq(T), NEW e, NEW f
    PROVE  /\ Len(Append(S, e)) = Len(S) + 1 /\ Append(S, e)[Len(S) + 1] = e
           /\ [Append(S, e) EXCEPT ![Len(S) + 1] = f] = Append(S, f)
<1> DEFINE U == T \cup {e, f}
<1>1. S \in Seq(U) /\ e \in U /\ f \in U /\ Len(S) \in Nat
  OBVIOUS
<1> HIDE DEF U
<1>2. PICK n : n = Len(S) + 1 /\ n \in Nat
  BY <1>1
<1>3. /\ Append(S, e) \in Seq(U) /\ Len(Append(S, e)) = n /\ Append(S, e)[n] = e
      /\ \A i \in 1 .. n : i # n => Append(S, e)[i] = S[i]
      /\ DOMAIN Append(S, e) = 1 .. n /\ n \in 1 .. n
  BY <1>1, <1>2
<1>4. /\ Append(S, f) \in Seq(U) /\ Len(Append(S, f)) = n /\ Append(S, f)[n] = f
      /\ \A i \in 1 .. n : i # n => Append(S, f)[i] = S[i]
      /\ DOMAIN Append(S, f) = 1 .. n
  BY <1>1, <1>2
<1>5. PICK g, h : g = Append(S, e) /\ h = Append(S, f)
  OBVIOUS
<1>6. g = [i \in 1 .. n |-> g[i]] /\ h = [i \in 1 .. n |-> h[i]]
  <2>1. g \in Seq(U) /\ Len(g) = n /\ h \in Seq(U) /\ Len(h) = n
    BY <1>3, <1>4, <1>5
  <2>2. g \in [1 .. n -> U] /\ h \in [1 .. n -> U]
    BY <2>1, LenProperties
  <2>3. QED
    BY <2>2
<1>7. \A i \in 1 .. n : [g EXCEPT ![n] = f][i] = h[i]
  BY <1>3, <1>4, <1>5, <1>6
<1>8. [g EXCEPT ![n] = f] = h
  BY <1>6, <1>7
<1>9. QED
  BY <1>2, <1>3, <1>5, <1>8

\* Some of a piece has been sent that had been begun, or has been begun now.
LEMMA SendGrows ==
    ASSUME Asked, NEW k \in 1 .. Pieces, NEW p, NEW q \in Nat, SentTo(k, p),
           p \in Response[k].from .. Response[k].to, p < q,
           sent' = Send(Response[k].what, p, q), UNCHANGED <<request, filesize>>
    PROVE  sent' = Append(SubSeq(Response, 1, k - 1), [Response[k] EXCEPT !.to = q])
<1> DEFINE S == SubSeq(Response, 1, k - 1)
<1>1. PICK w, a, b : IsPiece(Response[k], w, a, b) /\ ((w = <<"file", 0>>) <=> (k % 2 = 0))
  BY EachIsPiece
<1>2. /\ Response[k] = [what |-> w, from |-> a, to |-> b] /\ a \in Nat /\ b \in Nat
      /\ Response[k].what = w /\ Response[k].from = a /\ Response[k].to = b
  BY <1>1 DEF IsPiece
<1>3. [Response[k] EXCEPT !.to = q] = [what |-> w, from |-> a, to |-> q]
  BY <1>2
<1>4. Len(Response) = Pieces /\ Pieces \in Nat /\ k \in Nat \ {0} /\ k <= Pieces
  BY PiecesAre
<1>5. Len(S) = k - 1 /\ \A i \in 1 .. (k - 1) : S[i] = Response[i]
  BY <1>4 DEF Response
<1>6. CASE p = a
  <2>1. sent = S
    BY <1>2, <1>6 DEF SentTo
  <2>2. ~ (sent # <<>> /\ Last(sent).what = w)
    <3>1. CASE k = 1
      <4>1. S = <<>>
        BY <3>1 DEF Response
      <4>2. QED
        BY <2>1, <4>1
    <3>2. CASE k # 1
      <4>1. k - 1 \in 1 .. Pieces
        BY <1>4, <3>2
      <4>2. PICK v, c, d : IsPiece(Response[k - 1], v, c, d) /\ ((v = <<"file", 0>>) <=> ((k - 1) % 2 = 0))
        BY <4>1, EachIsPiece
      <4>3. ((k - 1) % 2 = 0) <=> ~ (k % 2 = 0)
        BY <1>4
      <4>4. v # w
        BY <1>1, <4>2, <4>3
      <4>5. Last(S) = Response[k - 1]
        BY <1>5, <1>4, <3>2 DEF Last
      <4>6. Response[k - 1].what = v
        BY <4>2 DEF IsPiece
      <4>7. QED
        BY <2>1, <4>4, <4>5, <4>6
    <3>3. QED
      BY <3>1, <3>2
  <2>3. sent' = Append(sent, [what |-> w, from |-> p, to |-> q])
    BY <1>2, <2>2 DEF Send
  <2>4. QED
    BY <1>3, <1>6, <2>1, <2>3
<1>7. CASE p # a
  <2> DEFINE piece == [what |-> w, from |-> a, to |-> p]
             more == [what |-> w, from |-> a, to |-> q]
  <2>1. sent = Append(S, piece)
    BY <1>2, <1>7 DEF SentTo
  <2>9. PICK T : Response \in Seq(T)
    BY ResponseIsSeq
  <2>2. S \in Seq(T)
    <3>1. k - 1 \in 0 .. Len(Response)
      BY <1>4
    <3>2. QED
      BY <2>9, <3>1, SubSeqProperties
  <2>3. /\ Len(sent) = k /\ sent[k] = piece /\ sent # <<>>
        /\ [sent EXCEPT ![k] = more] = Append(S, more)
    <3> HIDE DEF piece, more, S
    <3>2. /\ Len(Append(S, piece)) = Len(S) + 1 /\ Append(S, piece)[Len(S) + 1] = piece
          /\ [Append(S, piece) EXCEPT ![Len(S) + 1] = more] = Append(S, more)
      BY <2>2, LastReplaced
    <3>3. Len(S) + 1 = k
      BY <1>4, <1>5
    <3>4. QED
      BY <1>4, <2>1, <3>2, <3>3
  <2>4. Last(sent) = piece /\ piece.what = w /\ piece.to = p
    BY <2>3 DEF Last
  <2>5. sent' = [sent EXCEPT ![k].to = q]
    BY <1>2, <2>3, <2>4 DEF Send
  <2>6. [sent[k] EXCEPT !.to = q] = more
    BY <2>3
  <2>7. sent' = [sent EXCEPT ![k] = more]
    BY <2>5, <2>6
  <2>8. QED
    BY <1>3, <2>3, <2>7
<1>8. QED
  BY <1>6, <1>7

\* A piece that has been sent is one of those that have.
LEMMA PieceSent ==
    ASSUME Asked, NEW k \in 1 .. Pieces, SentTo(k, Response[k].to)
    PROVE  sent = SubSeq(Response, 1, k) /\ (k = Pieces => sent = Response)
<1>1. PICK w, a, b : IsPiece(Response[k], w, a, b)
  BY EachIsPiece
<1>2. /\ Response[k] = [what |-> w, from |-> a, to |-> b] /\ a # b
      /\ Response[k].from = a /\ Response[k].to = b
  BY <1>1 DEF IsPiece
<1>3. [Response[k] EXCEPT !.to = b] = Response[k]
  BY <1>2
<1>4. sent = Append(SubSeq(Response, 1, k - 1), Response[k])
  BY <1>2, <1>3 DEF SentTo
<1>5. PICK T : Response \in Seq(T)
  BY ResponseIsSeq
<1>6. Len(Response) = Pieces /\ Pieces \in Nat \ {0} /\ k \in Nat \ {0} /\ k <= Pieces
  BY PiecesAre
<1>7. SubSeq(Response, 1, k) = SubSeq(Response, 1, k - 1) \o <<Response[k]>>
  <2>1. 1 \in 1 .. Len(Response) /\ k \in 1 .. Len(Response)
    BY <1>6
  <2>2. QED
    BY <1>5, <2>1, SubSeqRecursiveSecond
<1>8. SubSeq(Response, 1, k - 1) \in Seq(T) /\ Response[k] \in T
  <2>1. k - 1 \in 0 .. Len(Response) /\ k \in 1 .. Len(Response)
    BY <1>6
  <2>2. SubSeq(Response, 1, k - 1) \in Seq(T)
    BY <1>5, <2>1, SubSeqProperties
  <2>3. QED
    BY <1>5, <2>1, <2>2, ElementOfSeq
<1>9. sent = SubSeq(Response, 1, k)
  BY <1>4, <1>7, <1>8, AppendIsConcat
<1>10. k = Pieces => SubSeq(Response, 1, k) = Response
  BY <1>5, <1>6, SubSeqFull
<1>11. QED
  BY <1>9, <1>10

\* At the beginning of a piece all before it has been sent.
LEMMA PieceBegins ==
    ASSUME NEW k, sent = SubSeq(Response, 1, k - 1)
    PROVE  SentTo(k, Response[k].from)
  BY DEF SentTo

\* What a round leaves as it is.
LEMMA SameSending ==
    ASSUME ResponseInv,
           UNCHANGED <<request, filesize, state, out, outp, nrange, sent>>
    PROVE  ResponseInv'
<1>1. Asked' /\ Response' = Response
  BY SameResponse DEF ResponseInv
<1>2. Place' = Place
  BY DEF Place, PlaceOf
<1>3. Stage(state, nrange)' <=> Stage(state, nrange)
  BY DEF Stage, request
<1>4. state # "REQUEST_COMPLETED" => Sending'
  BY <1>1, <1>2, <1>3 DEF ResponseInv, Sending, SentTo
<1>5. QED
  BY <1>1, <1>4 DEF ResponseInv

(***************************************************************************)
(* A round of loop that sends keeps the invariant: an error that passes, or*)
(* some of the piece.                                                      *)
(***************************************************************************)
LEMMA WriteKeeps ==
    ASSUME ResponseInv, Write
    PROVE  ResponseInv'
<1>1. /\ UNCHANGED <<request, filesize, state, out, nrange>> /\ state # "REQUEST_COMPLETED"
      /\ outp < EndOfStretch
  BY DEF Write
<1>2. Asked /\ Sending
  BY <1>1 DEF ResponseInv
<1>3. CASE Blocks \/ Interrupted
  <2>1. UNCHANGED <<outp, sent>>
    BY <1>3 DEF Blocks, Interrupted
  <2>2. QED
    BY <1>1, <1>2, <2>1, SameSending
<1>4. CASE Sends(What, EndOfStretch - outp)
  <2> DEFINE k == Place
             left == EndOfStretch - outp
  <2>1. PICK n \in Takes(left) : sent' = Send(What, outp, outp + n) /\ outp' = outp + n
    BY <1>4 DEF Sends
  <2>3. k \in 1 .. Pieces /\ EndOfStretch = Response[k].to /\ What = Response[k].what
    BY <1>2, PlaceIs, EndIs DEF Sending, Place
  <2>4. PICK w, a, b : IsPiece(Response[k], w, a, b)
    BY <1>2, <2>3, EachIsPiece
  <2>5. Response[k].from = a /\ Response[k].to = b /\ a \in Nat /\ b \in Nat
    BY <2>4 DEF IsPiece
  <2>6. outp \in a .. b /\ SentTo(k, outp)
    BY <1>2, <2>5 DEF Sending
  <2>7. left \in Nat \ {0} /\ left = b - outp
    BY <1>1, <2>3, <2>5, <2>6
  <2> HIDE DEF left, k
  <2>8. n \in Nat /\ 0 < n /\ n <= left
    BY <2>1, <2>7 DEF Takes
  <2>9. outp + n \in a .. b /\ outp < outp + n /\ outp + n # a
    BY <1>1, <1>2, <2>5, <2>6, <2>7, <2>8
  <2> DEFINE q == outp + n
  <2>10. q \in Nat /\ outp < q /\ outp \in Response[k].from .. Response[k].to /\ sent' = Send(Response[k].what, outp, q)
    BY <2>1, <2>3, <2>5, <2>6, <2>9
  <2> HIDE DEF q
  <2>11. sent' = Append(SubSeq(Response, 1, k - 1), [Response[k] EXCEPT !.to = q])
    BY <1>1, <1>2, <2>3, <2>6, <2>10, SendGrows
  <2>12. Asked' /\ Response' = Response
    BY <1>1, <1>2, SameResponse
  <2>13. Place' = k
    BY <1>1 DEF Place, PlaceOf, k
  <2>14. Stage(state, nrange)'
    BY <1>1, <1>2 DEF Sending, Stage, request
  <2>15. outp' = q /\ q # Response'[k].from /\ q \in Response'[k].from .. Response'[k].to
    BY <2>1, <2>5, <2>9, <2>12 DEF q
  <2>16. SentTo(Place, outp)'
    BY <2>11, <2>12, <2>13, <2>15 DEF SentTo
  <2>17. state' # "SENDING_BODY" => out' = [what |-> Response'[Place'].what, len |-> Response'[Place'].to]
    BY <1>1, <1>2, <2>12, <2>13 DEF Sending, k
  <2>18. Sending'
    BY <2>13, <2>14, <2>15, <2>16, <2>17 DEF Sending
  <2>19. QED
    BY <1>1, <2>1, <2>9, <2>12, <2>18 DEF ResponseInv
<1>5. QED
  BY <1>3, <1>4 DEF Write

----------------------------------------------------------------------------
(***************************************************************************)
(* What follows when a piece has been sent.                                *)
(***************************************************************************)
\* The next one begins.
LEMMA NextBegins ==
    ASSUME Asked, UNCHANGED <<request, filesize>>, sent' = sent,
           Place \in 1 .. Pieces, SentTo(Place, Response[Place].to),
           state' # "REQUEST_COMPLETED", Stage(state', nrange'), Place' = Place + 1,
           outp' = IF state' = "SENDING_BODY" THEN FileFrom(nrange') ELSE 0,
           state' # "SENDING_BODY" =>
               out' = [what |-> TextOf(nrange').what, len |-> TextOf(nrange').to]
    PROVE  ResponseInv'
<1> DEFINE k == PlaceOf(state', nrange')
<1>1. sent = SubSeq(Response, 1, Place) /\ Place \in Nat
  BY PieceSent, PiecesAre
<1>2. Place' = k /\ k - 1 = Place
  BY <1>1 DEF Place, PlaceOf
<1>3. /\ k \in 1 .. Pieces /\ nrange' \in Nat \ {0}
      /\ Response[k] = IF state' = "SENDING_BODY" THEN FileOf(nrange') ELSE TextOf(nrange')
  BY PlaceIs
<1>4. Asked' /\ Response' = Response
  BY SameResponse
<1>5. /\ outp' = Response[k].from /\ outp' \in Response[k].from .. Response[k].to
      /\ state' # "SENDING_BODY" => out' = [what |-> Response[k].what, len |-> Response[k].to]
  <2>1. CASE state' = "SENDING_BODY"
    <3>1. st_size # 0 /\ (nrange' <= Len(ranges) \/ ranges = <<>>)
      <4>1. Len(ranges) \in Nat /\ (ranges = <<>> <=> Len(ranges) = 0)
        BY RangeIs
      <4>2. st_size # 0 /\ ((nrange' = 1 /\ Len(ranges) < 2) \/ nrange' \in 1 .. Len(ranges))
        BY <2>1 DEF Stage
      <4>3. QED
        BY <4>1, <4>2
    <3>2. IsPiece(Response[k], <<"file", 0>>, FileFrom(nrange'), FileTo(nrange'))
      BY <1>3, <2>1, <3>1, FileIs
    <3>3. QED
      BY <2>1, <3>2 DEF IsPiece
  <2>2. CASE state' # "SENDING_BODY"
    <3>1. PICK w, n : IsPiece(TextOf(nrange'), w, 0, n)
      BY TextIs
    <3>2. QED
      BY <1>3, <2>2, <3>1 DEF IsPiece
  <2>3. QED
    BY <2>1, <2>2
<1>6. SentTo(Place, outp)'
  BY <1>1, <1>2, <1>4, <1>5 DEF SentTo
<1>7. Stage(state, nrange)'
  BY DEF Stage, request
<1>8. Sending'
  BY <1>2, <1>4, <1>5, <1>6, <1>7 DEF Sending
<1>9. QED
  BY <1>4, <1>8 DEF ResponseInv

\* It was the last one.
LEMMA LastEnds ==
    ASSUME Asked, UNCHANGED <<request, filesize>>, sent' = sent,
           Place = Pieces, SentTo(Place, Response[Place].to), state' = "REQUEST_COMPLETED"
    PROVE  ResponseInv'
<1>1. Place \in 1 .. Pieces
  BY PiecesAre
<1>2. sent = Response
  BY <1>1, PieceSent
<1>3. Asked' /\ Response' = Response
  BY SameResponse
<1>4. QED
  BY <1>2, <1>3 DEF ResponseInv

(***************************************************************************)
(* What a round of loop does when everything has gone keeps the invariant. *)
(***************************************************************************)
LEMMA FinishKeeps ==
    ASSUME ResponseInv, Finish
    PROVE  ResponseInv'
<1>1. /\ UNCHANGED <<request, filesize>> /\ sent' = sent
      /\ state # "REQUEST_COMPLETED" /\ outp = EndOfStretch
  BY DEF Finish
<1>2. Asked /\ Sending
  BY <1>1 DEF ResponseInv
<1>3. Place \in 1 .. Pieces /\ SentTo(Place, Response[Place].to) /\ nrange \in Nat \ {0}
  BY <1>1, <1>2, PlaceIs, EndIs DEF Sending, Place
<1>4. Len(ranges) \in Nat /\ (ranges = <<>> <=> Len(ranges) = 0)
  BY <1>2, RangeIs
<1>5. CASE HeadersSent
  <2>1. state = "SENDING_HEADERS" /\ nrange = 1 /\ nrange' = 1 /\ Place = 1
    BY <1>2, <1>5 DEF HeadersSent, Sending, Stage, Place, PlaceOf
  <2>2. CASE method = "HEAD" \/ filesize = 0
    <3>1. state' = "REQUEST_COMPLETED"
      BY <1>5, <2>2 DEF HeadersSent
    <3>2. method = "HEAD" \/ st_size = 0
      BY <1>2, <2>2, AnnouncedIs DEF Asked
    <3>3. Place = Pieces
      BY <1>2, <2>1, <3>2, PiecesCount
    <3>4. QED
      BY <1>1, <1>2, <1>3, <3>1, <3>3, LastEnds
  <2>3. CASE ~ (method = "HEAD" \/ filesize = 0)
    <3>1. state' = "SENDING_BODY" /\ outp' = FileFrom(nrange')
      BY <1>5, <2>1, <2>3 DEF HeadersSent, FileFrom
    <3>2. method = "GET" /\ st_size # 0
      BY <1>2, <2>3, AnnouncedIs DEF Asked
    <3>3. Stage(state', nrange')
      BY <1>4, <2>1, <3>1, <3>2 DEF Stage
    <3>4. Place' = Place + 1
      BY <2>1, <3>1 DEF Place, PlaceOf
    <3>5. QED
      BY <1>1, <1>2, <1>3, <3>1, <3>3, <3>4, NextBegins
  <2>4. QED
    BY <2>2, <2>3
<1>6. CASE PartHeaderSent
  <2>1. /\ state = "SENDING_PART_HEADER" /\ nrange \in 2 .. Len(ranges) /\ nrange' = nrange
        /\ state' = "SENDING_BODY" /\ outp' = ranges[nrange].from
    BY <1>2, <1>6 DEF PartHeaderSent, Sending, Stage
  <2>2. Len(ranges) > 1 /\ ranges # <<>>
    BY <1>4, <2>1
  <2>3. method = "GET" /\ st_size # 0
    BY <1>2, <2>2, PiecesCount
  <2>4. Stage(state', nrange')
    BY <1>4, <2>1, <2>2, <2>3 DEF Stage
  <2>5. outp' = FileFrom(nrange')
    BY <2>1, <2>2 DEF FileFrom
  <2>6. Place' = Place + 1
    BY <1>3, <2>1 DEF Place, PlaceOf
  <2>7. QED
    BY <1>1, <1>2, <1>3, <2>1, <2>4, <2>5, <2>6, NextBegins
<1>7. CASE FooterSent
  <2>1. /\ state = "SENDING_MULTIPART_FOOTER" /\ state' = "REQUEST_COMPLETED"
        /\ Len(ranges) > 1 /\ nrange = Len(ranges) + 1
    BY <1>2, <1>7 DEF FooterSent, Sending, Stage
  <2>2. Place = Pieces
    BY <1>2, <1>4, <2>1, PiecesCount DEF Place, PlaceOf
  <2>3. QED
    BY <1>1, <1>2, <1>3, <2>1, <2>2, LastEnds
<1>8. CASE BodySent
  <2>1. /\ state = "SENDING_BODY" /\ method = "GET" /\ st_size # 0
        /\ (nrange = 1 /\ Len(ranges) < 2) \/ (nrange \in 1 .. Len(ranges) /\ Len(ranges) > 1)
    BY <1>2, <1>8 DEF BodySent, Sending, Stage
  <2>2. CASE Len(ranges) < 2
    <3>1. state' = "REQUEST_COMPLETED"
      BY <1>8, <2>2 DEF BodySent
    <3>2. Place = Pieces
      BY <1>2, <1>4, <2>1, <2>2, PiecesCount DEF Place, PlaceOf
    <3>3. QED
      BY <1>1, <1>2, <1>3, <3>1, <3>2, LastEnds
  <2>3. CASE ~ (Len(ranges) < 2)
    <3>1. nrange \in 1 .. Len(ranges) /\ Len(ranges) > 1
      BY <1>4, <2>1, <2>3
    <3>2. nrange' = nrange + 1 /\ outp' = 0
      BY <1>8, <2>3 DEF BodySent
    <3>3. CASE nrange = Len(ranges)
      <4>1. state' = "SENDING_MULTIPART_FOOTER" /\ out' = [what |-> <<"footer", nrange>>, len |-> FooterLen]
        BY <1>8, <2>3, <3>3 DEF BodySent
      <4>2. TextOf(nrange') = [what |-> <<"footer", Len(ranges)>>, from |-> 0, to |-> FooterLen]
        BY <1>4, <3>1, <3>2, <3>3 DEF TextOf, Text
      <4>3. out' = [what |-> TextOf(nrange').what, len |-> TextOf(nrange').to]
        BY <3>3, <4>1, <4>2
      <4>4. Stage(state', nrange')
        BY <3>1, <3>2, <3>3, <4>1 DEF Stage
      <4>5. Place' = Place + 1
        BY <1>3, <2>1, <3>2, <4>1 DEF Place, PlaceOf
      <4>6. QED
        BY <1>1, <1>2, <1>3, <3>2, <4>1, <4>3, <4>4, <4>5, NextBegins
    <3>4. CASE nrange # Len(ranges)
      <4>1. /\ state' = "SENDING_PART_HEADER"
            /\ out' = [what |-> <<"part", nrange + 1>>, len |-> PartHeaderLen(ranges[nrange + 1], filesize)]
        BY <1>8, <2>3, <3>4 DEF BodySent
      <4>2. nrange' \in 2 .. Len(ranges) /\ nrange' # 1
        BY <1>3, <1>4, <3>1, <3>2, <3>4
      <4>3. filesize = announced
        BY <1>2, <2>1 DEF Asked
      <4>4. TextOf(nrange') = [what |-> <<"part", nrange'>>, from |-> 0, to |-> PartHeaderLen(ranges[nrange'], announced)]
        BY <4>2 DEF TextOf, Text
      <4>5. out' = [what |-> TextOf(nrange').what, len |-> TextOf(nrange').to]
        BY <3>2, <4>1, <4>3, <4>4
      <4>6. Stage(state', nrange')
        BY <4>1, <4>2 DEF Stage
      <4>7. Place' = Place + 1
        BY <1>3, <2>1, <3>2, <4>1 DEF Place, PlaceOf
      <4>8. QED
        BY <1>1, <1>2, <1>3, <3>2, <4>1, <4>5, <4>6, <4>7, NextBegins
    <3>5. QED
      BY <3>3, <3>4
  <2>4. QED
    BY <2>2, <2>3
<1>9. QED
  BY <1>5, <1>6, <1>7, <1>8 DEF Finish

\* loop returns or is called: nothing of the response is touched.
LEMMA CallsKeep ==
    ASSUME ResponseInv, Returns \/ TakeReady \/ WriteEvent \/ ReadEvent
    PROVE  ResponseInv'
<1>1. UNCHANGED <<request, filesize, state, out, outp, nrange, sent>>
  BY DEF Returns, TakeReady, WriteEvent, ReadEvent, Calls
<1>2. QED
  BY <1>1, SameSending

\* A response that has been prepared begins with its headers.
LEMMA ResponseBegins ==
    ASSUME ResponseInit
    PROVE  ResponseInv
<1>1. /\ method \in {"GET", "HEAD"} /\ st_size \in FileSizes /\ state = "SENDING_HEADERS"
      /\ outp = 0 /\ nrange = 1 /\ sent = <<>>
      /\ announced = ContentLength(st_size, ranges)
      /\ filesize = IF method = "HEAD" THEN 0 ELSE announced
      /\ ranges \in IF method = "HEAD" THEN {<<>>}
                    ELSE UNION {[1 .. n -> RangesOf(st_size)] : n \in 0 .. MaxRanges}
  BY DEF ResponseInit
<1>2. ranges \in Seq(RangesOf(st_size))
  <2>1. CASE method = "HEAD"
    BY <1>1, <2>1
  <2>2. CASE method # "HEAD"
    <3>1. PICK n \in 0 .. MaxRanges : ranges \in [1 .. n -> RangesOf(st_size)]
      BY <1>1, <2>2
    <3>2. n \in Nat
      BY <3>1, FileResponseAssumption
    <3>3. QED
      BY <3>1, <3>2, SeqDef
  <2>3. QED
    BY <2>1, <2>2
<1>3. Asked
  BY <1>1, <1>2, FileResponseAssumption DEF Asked
<1>4. Stage(state, nrange) /\ Place = 1
  BY <1>1 DEF Stage, Place, PlaceOf
<1>5. 1 \in 1 .. Pieces /\ Response[1] = TextOf(1)
  <2>1. /\ PlaceOf("SENDING_HEADERS", 1) \in 1 .. Pieces
        /\ Response[PlaceOf("SENDING_HEADERS", 1)] =
             IF "SENDING_HEADERS" = "SENDING_BODY" THEN FileOf(1) ELSE TextOf(1)
    BY <1>1, <1>3, <1>4, PlaceIs
  <2>2. QED
    BY <1>1, <1>4, <2>1 DEF Place
<1>6. PICK w, n : IsPiece(TextOf(1), w, 0, n)
  BY <1>3, TextIs
<1>7. outp = Response[1].from /\ outp \in Response[1].from .. Response[1].to
  BY <1>1, <1>5, <1>6 DEF IsPiece
<1>8. out = [what |-> Response[1].what, len |-> Response[1].to]
  BY <1>5 DEF ResponseInit, TextOf, Text
<1>9. SentTo(1, outp)
  <2>1. SubSeq(Response, 1, 1 - 1) = <<>>
    BY SubSeqEmpty
  <2>2. QED
    BY <1>1, <1>7, <2>1 DEF SentTo
<1>10. Sending
  BY <1>4, <1>7, <1>8, <1>9 DEF Sending
<1>11. QED
  BY <1>1, <1>3, <1>10 DEF ResponseInv

----------------------------------------------------------------------------
(***************************************************************************)
(* At any time, however the socket has taken it and however often loop has *)
(* been called, all pieces before the one loop is at have been sent, and of*)
(* this one what lies before outp.                                         *)
(***************************************************************************)
THEOREM ResponseInvariant == ResponseSpec => []ResponseInv
<1>1. ResponseInit => ResponseInv
  BY ResponseBegins
<1>2. ResponseInv /\ [ResponseNext]_responseVars => ResponseInv'
  <2> SUFFICES ASSUME ResponseInv, [ResponseNext]_responseVars PROVE ResponseInv'
    OBVIOUS
  <2>1. CASE UNCHANGED responseVars
    <3>1. UNCHANGED <<request, filesize, state, out, outp, nrange, sent>>
      BY <2>1 DEF responseVars, request
    <3>2. QED
      BY <3>1, SameSending
  <2>2. QED
    BY <2>1, WriteKeeps, FinishKeeps, CallsKeep DEF ResponseNext
<1>3. QED
  BY <1>1, <1>2, PTL DEF ResponseSpec

\* The first pieces of the response, and of the last of them what lies before p.
LEMMA Began ==
    ASSUME Asked, NEW m \in 1 .. Pieces, NEW p, p <= Response[m].to,
           sent = Append(SubSeq(Response, 1, m - 1), [Response[m] EXCEPT !.to = p])
    PROVE  /\ Len(sent) <= Len(Response)
           /\ Front(sent) = SubSeq(Response, 1, Len(sent) - 1)
           /\ Last(sent).what = Response[Len(sent)].what
           /\ Last(sent).from = Response[Len(sent)].from
           /\ Last(sent).to <= Response[Len(sent)].to
<1> DEFINE S == SubSeq(Response, 1, m - 1)
           e == [Response[m] EXCEPT !.to = p]
<1>1. PICK w, a, b : IsPiece(Response[m], w, a, b)
  BY EachIsPiece
<1>2. /\ Response[m] = [what |-> w, from |-> a, to |-> b]
      /\ e.what = Response[m].what /\ e.from = Response[m].from /\ e.to = p
  BY <1>1 DEF IsPiece
<1>3. Len(Response) = Pieces /\ Pieces \in Nat /\ m \in Nat \ {0} /\ m <= Pieces
  BY PiecesAre
<1>4. PICK T : Response \in Seq(T)
  BY ResponseIsSeq
<1>5. S \in Seq(T) /\ Len(S) = m - 1
  <2>1. m - 1 \in 0 .. Len(Response)
    BY <1>3
  <2>2. QED
    BY <1>3, <1>4, <2>1, SubSeqProperties
<1> HIDE DEF S, e
<1>6. Len(sent) = m /\ sent[m] = e
  <2>1. Len(Append(S, e)) = Len(S) + 1 /\ Append(S, e)[Len(S) + 1] = e
    BY <1>5, LastReplaced
  <2>2. Len(S) + 1 = m
    BY <1>3, <1>5
  <2>3. QED
    BY <2>1, <2>2 DEF S, e
<1>7. Last(sent) = e
  BY <1>6 DEF Last
<1>8. Front(sent) = S
  <2> DEFINE U == T \cup {e}
             F == SubSeq(sent, 1, m - 1)
  <2>1. S \in Seq(U) /\ e \in U
    BY <1>5
  <2> HIDE DEF U
  <2>2. /\ Append(S, e) \in Seq(U) /\ \A i \in 1 .. Len(S) : Append(S, e)[i] = S[i]
    BY <2>1, AppendProperties
  <2>3. sent \in Seq(U) /\ \A i \in 1 .. (m - 1) : sent[i] = S[i]
    BY <1>5, <2>2 DEF S, e
  <2>4. F \in Seq(U) /\ Len(F) = m - 1 /\ \A i \in 1 .. (m - 1) : F[i] = sent[i]
    <3>1. m - 1 \in 0 .. Len(sent)
      BY <1>3, <1>6
    <3>2. QED
      BY <1>3, <1>6, <2>3, <3>1, SubSeqProperties
  <2>5. F = S
    <3> HIDE DEF F
    <3>1. Len(F) = Len(S) /\ \A i \in 1 .. Len(F) : F[i] = S[i]
      BY <1>5, <2>3, <2>4
    <3>2. QED
      BY <2>1, <2>4, <3>1, SeqEqual
  <2>6. QED
    BY <1>6, <2>5 DEF Front
<1>9. QED
  BY <1>2, <1>3, <1>6, <1>7, <1>8 DEF S

\* The same of the first pieces alone.
LEMMA WholePieces ==
    ASSUME Asked, NEW m \in 1 .. Pieces, sent = SubSeq(Response, 1, m)
    PROVE  sent = Append(SubSeq(Response, 1, m - 1), [Response[m] EXCEPT !.to = Response[m].to])
<1>1. PICK w, a, b : IsPiece(Response[m], w, a, b)
  BY EachIsPiece
<1>2. [Response[m] EXCEPT !.to = Response[m].to] = Response[m]
  BY <1>1 DEF IsPiece
<1>3. PICK T : Response \in Seq(T)
  BY ResponseIsSeq
<1>4. Len(Response) = Pieces /\ Pieces \in Nat /\ m \in Nat \ {0} /\ m <= Pieces
  BY PiecesAre
<1>5. 1 \in 1 .. Len(Response) /\ m \in 1 .. Len(Response) /\ m - 1 \in 0 .. Len(Response)
  BY <1>4
<1>6. SubSeq(Response, 1, m) = SubSeq(Response, 1, m - 1) \o <<Response[m]>>
  BY <1>3, <1>5, SubSeqRecursiveSecond
<1>7. SubSeq(Response, 1, m - 1) \in Seq(T)
  BY <1>3, <1>5, SubSeqProperties
<1>8. Response[m] \in T
  BY <1>3, <1>5, ElementOfSeq
<1>9. Append(SubSeq(Response, 1, m - 1), Response[m]) = SubSeq(Response, 1, m - 1) \o <<Response[m]>>
  BY <1>7, <1>8, AppendIsConcat
<1>10. QED
  BY <1>2, <1>6, <1>9

(***************************************************************************)
(* The client is sent the headers, each range in the order it was asked    *)
(* for with its part header in front of it, and the footer, however the    *)
(* socket takes them.                                                      *)
(***************************************************************************)
THEOREM PartsStayInOrder == ResponseSpec => []PartsInOrder
<1>1. ResponseInv => PartsInOrder
  <2> SUFFICES ASSUME ResponseInv PROVE PartsInOrder
    OBVIOUS
  <2>1. Asked
    BY DEF ResponseInv
  <2>2. state = "REQUEST_COMPLETED" => sent = Response
    BY DEF ResponseInv
  <2>3. Len(Response) = Pieces /\ Pieces \in Nat \ {0}
    BY <2>1, PiecesAre
  <2>4. sent = <<>> \/ \E m \in 1 .. Pieces : \E p :
            /\ p <= Response[m].to
            /\ sent = Append(SubSeq(Response, 1, m - 1), [Response[m] EXCEPT !.to = p])
    <3>1. ASSUME NEW m \in 1 .. Pieces, sent = SubSeq(Response, 1, m)
          PROVE  /\ Response[m].to <= Response[m].to
                 /\ sent = Append(SubSeq(Response, 1, m - 1), [Response[m] EXCEPT !.to = Response[m].to])
      <4>1. PICK w, a, b : IsPiece(Response[m], w, a, b)
        BY <2>1, EachIsPiece
      <4>2. Response[m].to <= Response[m].to
        BY <4>1 DEF IsPiece
      <4>3. QED
        BY <2>1, <3>1, <4>2, WholePieces
    <3>2. CASE state = "REQUEST_COMPLETED"
      <4>1. PICK T : Response \in Seq(T)
        BY <2>1, ResponseIsSeq
      <4>2. sent = SubSeq(Response, 1, Pieces)
        BY <2>2, <2>3, <3>2, <4>1, SubSeqFull
      <4>3. Pieces \in 1 .. Pieces
        BY <2>3
      <4>4. QED
        BY <3>1, <4>2, <4>3
    <3>3. CASE state # "REQUEST_COMPLETED"
      <4> DEFINE k == Place
      <4>1. Sending
        BY <3>3 DEF ResponseInv
      <4>2. k \in 1 .. Pieces /\ SentTo(k, outp) /\ outp <= Response[k].to
        <5>1. k \in 1 .. Pieces
          BY <2>1, <4>1, PlaceIs DEF Sending, Place
        <5>2. SentTo(k, outp) /\ outp \in Response[k].from .. Response[k].to
          BY <4>1 DEF Sending
        <5>3. PICK w, a, b : IsPiece(Response[k], w, a, b)
          BY <2>1, <5>1, EachIsPiece
        <5>4. QED
          BY <5>1, <5>2, <5>3 DEF IsPiece
      <4> HIDE DEF k
      <4>3. CASE outp # Response[k].from
        BY <4>2, <4>3 DEF SentTo
      <4>4. CASE outp = Response[k].from /\ k # 1
        <5>1. k - 1 \in 1 .. Pieces /\ sent = SubSeq(Response, 1, k - 1)
          BY <2>3, <4>2, <4>4 DEF SentTo
        <5>2. QED
          BY <3>1, <5>1
      <4>5. CASE outp = Response[k].from /\ k = 1
        <5>1. sent = SubSeq(Response, 1, 1 - 1)
          BY <4>2, <4>5 DEF SentTo
        <5>2. QED
          BY <5>1, SubSeqEmpty
      <4>6. QED
        BY <4>3, <4>4, <4>5
    <3>4. QED
      BY <3>2, <3>3
  <2>5. CASE sent = <<>>
    BY <2>2, <2>5 DEF PartsInOrder
  <2>6. CASE sent # <<>>
    <3>1. PICK m \in 1 .. Pieces : \E p :
            /\ p <= Response[m].to
            /\ sent = Append(SubSeq(Response, 1, m - 1), [Response[m] EXCEPT !.to = p])
      BY <2>4, <2>6
    <3>4. PICK p :
            /\ p <= Response[m].to
            /\ sent = Append(SubSeq(Response, 1, m - 1), [Response[m] EXCEPT !.to = p])
      BY <3>1
    <3>2. /\ Len(sent) <= Len(Response)
          /\ Front(sent) = SubSeq(Response, 1, Len(sent) - 1)
          /\ Last(sent).what = Response[Len(sent)].what
          /\ Last(sent).from = Response[Len(sent)].from
          /\ Last(sent).to <= Response[Len(sent)].to
      BY <2>1, <3>4, Began
    <3>3. QED
      BY <2>2, <3>2 DEF PartsInOrder
  <2>7. QED
    BY <2>5, <2>6
<1>2. QED
  BY <1>1, ResponseInvariant, PTL

----------------------------------------------------------------------------
(***************************************************************************)
(* Content-Length.  For each piece, what its stretch adds to the length.   *)
(***************************************************************************)
PieceLen(k) == Response[k].to - Response[k].from

LEMMA SentIsSum ==
    ASSUME Asked, sent = Response
    PROVE  \E f : /\ SentLen = f[Pieces] /\ f[0] = 0
                  /\ \A k \in 1 .. Pieces : f[k] = f[k - 1] + PieceLen(k)
<1> DEFINE s == [i \in 1 .. Len(sent) |-> sent[i].to - sent[i].from]
<1>1. Len(sent) = Pieces /\ Pieces \in Nat
  BY PiecesAre
<1>2. Len(s) = Pieces /\ \A k \in 1 .. Pieces : s[k] = PieceLen(k)
  BY <1>1 DEF PieceLen
<1>3. SentLen = Sum(s)
  BY DEF SentLen
<1> HIDE DEF s
<1>4. Pieces \in Nat /\ Len(s) = Pieces
  BY <1>1, <1>2
<1>5. PICK f : /\ Sum(s) = f[Pieces] /\ f[0] = 0
               /\ \A k \in 1 .. Pieces : f[k] = f[k - 1] + s[k]
  BY ONLY <1>4, SumIs
<1>6. QED
  BY <1>2, <1>3, <1>5

\* A range is as long as it says, and the whole file too.
LEMMA FileLen ==
    ASSUME Asked, st_size # 0, NEW i \in Nat \ {0}, i <= Len(ranges) \/ ranges = <<>>
    PROVE  FileOf(i).to - FileOf(i).from = IF ranges = <<>> THEN st_size ELSE RangeLen(ranges[i])
<1>1. IsPiece(FileOf(i), <<"file", 0>>, FileFrom(i), FileTo(i))
  BY FileIs
<1>2. FileOf(i).to = FileTo(i) /\ FileOf(i).from = FileFrom(i)
  BY <1>1 DEF IsPiece
<1>3. CASE ranges = <<>>
  <2>1. FileTo(i) = st_size /\ FileFrom(i) = 0 /\ st_size \in Nat
    BY <1>3 DEF FileTo, FileFrom, Asked
  <2>2. QED
    BY <1>2, <1>3, <2>1
<1>4. CASE ranges # <<>>
  <2>1. i \in 1 .. Len(ranges)
    BY <1>4, RangeIs
  <2>2. ranges[i].from \in Nat /\ ranges[i].to \in Nat
    BY <2>1, RangeIs
  <2>3. FileTo(i) = ranges[i].to + 1 /\ FileFrom(i) = ranges[i].from
    BY <1>4 DEF FileTo, FileFrom
  <2>4. QED
    BY <1>2, <1>4, <2>2, <2>3 DEF RangeLen
<1>5. QED
  BY <1>3, <1>4

(***************************************************************************)
(* The file or its only range is as long as Content-Length has said.       *)
(***************************************************************************)
THEOREM AnnouncedIsSentForOne == ResponseSpec => []AnnouncedForOne
<1>1. ResponseInv => AnnouncedForOne
  <2> SUFFICES ASSUME ResponseInv, state = "REQUEST_COMPLETED", Len(ranges) < 2, method = "GET"
               PROVE  SentLen = HeadersLen + announced
    BY DEF AnnouncedForOne
  <2>1. Asked /\ sent = Response
    BY DEF ResponseInv
  <2>2. PICK f : /\ SentLen = f[Pieces] /\ f[0] = 0
                 /\ \A k \in 1 .. Pieces : f[k] = f[k - 1] + PieceLen(k)
    BY <2>1, SentIsSum
  <2>3. /\ Pieces \in Nat \ {0}
        /\ \A k \in 1 .. Pieces :
              Response[k] = IF k % 2 = 1 THEN TextOf((k + 1) \div 2) ELSE FileOf(k \div 2)
    BY <2>1, PiecesAre
  <2>4. Response[1] = TextOf(1) /\ TextOf(1) = [what |-> <<"headers", 1>>, from |-> 0, to |-> HeadersLen]
    <3>1. HeadersLen \in Nat
      BY TextsAreLong
    <3>2. TextOf(1) = [what |-> <<"headers", 1>>, from |-> 0, to |-> HeadersLen]
      BY <3>1 DEF TextOf, Text
    <3>3. 1 \in 1 .. Pieces /\ 1 % 2 = 1 /\ (1 + 1) \div 2 = 1
      BY <2>3
    <3>4. QED
      BY <2>3, <3>2, <3>3
  <2>5. f[1] = HeadersLen /\ HeadersLen \in Nat
    <3>1. PieceLen(1) = HeadersLen /\ HeadersLen \in Nat
      BY <2>4, TextsAreLong DEF PieceLen
    <3>2. f[1] = f[1 - 1] + PieceLen(1)
      BY <2>2, <2>3
    <3>3. QED
      BY <2>2, <3>1, <3>2
  <2>6. CASE st_size = 0
    <3>1. Pieces = 1 /\ announced = 0
      BY <2>1, <2>6, PiecesCount, AnnouncedIs
    <3>2. QED
      BY <2>2, <2>5, <3>1
  <2>7. CASE st_size # 0
    <3>1. Pieces = 2
      BY <2>1, <2>7, PiecesCount
    <3>2. Len(ranges) \in Nat /\ (ranges = <<>> <=> Len(ranges) = 0)
      BY <2>1, RangeIs
    <3>3. 1 <= Len(ranges) \/ ranges = <<>>
      BY <3>2
    <3>4. FileOf(1).to - FileOf(1).from = IF ranges = <<>> THEN st_size ELSE RangeLen(ranges[1])
      BY <2>1, <2>7, <3>3, FileLen
    <3>5. Response[2] = FileOf(1)
      <4>1. 2 \in 1 .. Pieces /\ 2 % 2 # 1 /\ 2 \div 2 = 1
        BY <3>1
      <4>2. QED
        BY <2>3, <4>1
    <3>6. announced = (IF ranges = <<>> THEN st_size ELSE RangeLen(ranges[1])) /\ announced \in Nat
      <4>1. Len(ranges) = 0 \/ Len(ranges) = 1
        <5>1. PICK m \in Nat : m = Len(ranges) /\ m < 2
          BY <3>2
        <5>2. m = 0 \/ m = 1
          BY <5>1
        <5>3. QED
          BY <5>1, <5>2
      <4>2. QED
        BY <2>1, <3>2, <4>1, AnnouncedIs DEF Asked, ContentLength
    <3>7. PieceLen(2) = announced
      BY <3>4, <3>5, <3>6 DEF PieceLen
    <3>8. f[2] = f[2 - 1] + PieceLen(2)
      BY <2>2, <3>1
    <3>9. QED
      BY <2>2, <2>5, <3>1, <3>6, <3>7, <3>8
  <2>8. QED
    BY <2>6, <2>7
<1>2. QED
  BY <1>1, ResponseInvariant, PTL

\* The parts, one after the other: what has been sent, f, and counted, g.
LEMMA PartsCounted ==
    ASSUME Asked, NEW n \in Nat, n = Len(ranges), n > 1, NEW f, NEW g, f[0] = 0, g[0] = 0,
           \A k \in 1 .. Pieces : f[k] = f[k - 1] + PieceLen(k),
           \A i \in 1 .. n : g[i] = g[i - 1] + (PartHeaderLen(ranges[i], st_size) + RangeLen(ranges[i]))
    PROVE  /\ f[2 * n] \in Int /\ g[n] \in Int
           /\ f[2 * n] + n * DigitsOf(st_size) = HeadersLen + g[n] + n * DigitsOf(announced)
<1> DEFINE a == DigitsOf(st_size)
           c == DigitsOf(announced)
           Adds(i) == f[2 * i] \in Int /\ g[i] \in Int /\ f[2 * i] + i * a = HeadersLen + g[i] + i * c
           S == {i \in 1 .. n : Adds(i)}
<1>1. a \in Nat /\ c \in Nat /\ HeadersLen \in Nat
  <2>1. \A d : DigitsOf(d) \in Nat
    BY ONLY DigitsAreFew
  <2>2. QED
    BY <2>1, TextsAreLong
<1>2. Pieces = 2 * n + 1 /\ st_size # 0 /\ method = "GET"
  BY PiecesCount
<1>3. \A k \in 1 .. Pieces : Response[k] = IF k % 2 = 1 THEN TextOf((k + 1) \div 2) ELSE FileOf(k \div 2)
  BY PiecesAre
<1>4. ASSUME NEW i \in 1 .. n
      PROVE  \E p, q, r \in Nat :
                /\ f[2 * i - 1] = f[2 * i - 2] + ((IF i = 1 THEN HeadersLen ELSE 0) + p)
                /\ f[2 * i] = f[2 * i - 1] + r
                /\ g[i] = g[i - 1] + (q + r)
                /\ p + a = q + c
  <2> DEFINE p == PartHeaderLen(ranges[i], announced)
             q == PartHeaderLen(ranges[i], st_size)
             r == RangeLen(ranges[i])
  <2>1. p \in Nat /\ q \in Nat /\ r \in Nat /\ p + a = q + c
    BY TextsAreLong, RangeIs
  <2>2. g[i] = g[i - 1] + (q + r)
    OBVIOUS
  <2>3. TextOf(i).to - TextOf(i).from = (IF i = 1 THEN HeadersLen ELSE 0) + p
    <3>1. CASE i = 1
      <4>1. TextOf(i) = [what |-> <<"headers", 1>>, from |-> 0, to |-> HeadersLen + p]
        BY <3>1 DEF TextOf, Text
      <4> HIDE DEF p, q, r
      <4>2. QED
        BY <1>1, <2>1, <3>1, <4>1
    <3>2. CASE i # 1
      <4>1. i \in 2 .. Len(ranges)
        BY <3>2
      <4>2. TextOf(i) = [what |-> <<"part", i>>, from |-> 0, to |-> p]
        BY <3>2, <4>1 DEF TextOf, Text
      <4> HIDE DEF p, q, r
      <4>3. QED
        BY <2>1, <3>2, <4>2
    <3>3. QED
      BY <3>1, <3>2
  <2>4. FileOf(i).to - FileOf(i).from = r
    <3>1. i \in Nat \ {0} /\ i <= Len(ranges) /\ ranges # <<>>
      BY RangeIs
    <3>2. QED
      BY <1>2, <3>1, FileLen
  <2> HIDE DEF p, q, r
  <2>5. Response[2 * i - 1] = TextOf(i) /\ 2 * i - 1 \in 1 .. Pieces
    <3>1. 2 * i - 1 \in 1 .. Pieces /\ (2 * i - 1) % 2 = 1 /\ ((2 * i - 1) + 1) \div 2 = i
      BY <1>2
    <3>2. QED
      BY <1>3, <3>1
  <2>6. Response[2 * i] = FileOf(i) /\ 2 * i \in 1 .. Pieces
    <3>1. 2 * i \in 1 .. Pieces /\ (2 * i) % 2 # 1 /\ (2 * i) \div 2 = i
      BY <1>2
    <3>2. QED
      BY <1>3, <3>1
  <2>7. f[2 * i - 1] = f[2 * i - 2] + PieceLen(2 * i - 1)
    <3>1. (2 * i - 1) - 1 = 2 * i - 2
      OBVIOUS
    <3>2. QED
      BY <2>5, <3>1
  <2>8. f[2 * i] = f[2 * i - 1] + PieceLen(2 * i)
    BY <2>6
  <2>9. QED
    BY <2>1, <2>2, <2>3, <2>4, <2>5, <2>6, <2>7, <2>8 DEF PieceLen
<1> HIDE DEF a, c
<1>5. \A i \in 1 .. n : (i = 1 \/ i - 1 \in S) => i \in S
  <2> SUFFICES ASSUME NEW i \in 1 .. n, i = 1 \/ i - 1 \in S PROVE Adds(i)
    OBVIOUS
  <2>1. PICK p \in Nat, q \in Nat, r \in Nat :
                /\ f[2 * i - 1] = f[2 * i - 2] + ((IF i = 1 THEN HeadersLen ELSE 0) + p)
                /\ f[2 * i] = f[2 * i - 1] + r
                /\ g[i] = g[i - 1] + (q + r)
                /\ p + a = q + c
    BY <1>4
  <2>2. CASE i = 1
    <3>1. 2 * i - 2 = 0 /\ i - 1 = 0 /\ i * a = a /\ i * c = c
      BY <1>1, <2>2
    <3>2. f[2 * i - 1] = 0 + (HeadersLen + p) /\ g[i] = 0 + (q + r)
      BY <2>1, <2>2, <3>1
    <3>3. f[2 * i] = 0 + (HeadersLen + p) + r
      BY <2>1, <3>2
    <3>4. /\ 0 + (HeadersLen + p) + r \in Int /\ 0 + (q + r) \in Int
          /\ 0 + (HeadersLen + p) + r + a = HeadersLen + (0 + (q + r)) + c
      BY <1>1, <2>1
    <3>5. QED
      BY <3>1, <3>2, <3>3, <3>4
  <2>3. CASE i # 1
    <3>1. Adds(i - 1) /\ 2 * (i - 1) = 2 * i - 2
      BY <2>3
    <3>2. i * a = (i - 1) * a + a /\ i * c = (i - 1) * c + c /\ (i - 1) * a \in Int /\ (i - 1) * c \in Int
      BY <1>1
    <3>3. PICK u, v, x, y : /\ u = f[2 * i - 2] /\ v = g[i - 1]
                            /\ x = (i - 1) * a /\ y = (i - 1) * c
      OBVIOUS
    <3>4. /\ u \in Int /\ v \in Int /\ x \in Int /\ y \in Int
          /\ u + x = HeadersLen + v + y
      BY <3>1, <3>2, <3>3
    <3>5. f[2 * i - 1] = u + (0 + p) /\ g[i] = v + (q + r)
      BY <2>1, <2>3, <3>3
    <3>6. f[2 * i] = u + (0 + p) + r
      BY <2>1, <3>5
    <3>7. /\ u + (0 + p) + r \in Int /\ v + (q + r) \in Int
          /\ u + (0 + p) + r + (x + a) = HeadersLen + (v + (q + r)) + (y + c)
      <4>1. p \in Nat /\ q \in Nat /\ r \in Nat /\ p + a = q + c
        BY <2>1
      <4>2. QED
        BY ONLY <1>1, <3>4, <4>1
    <3>8. QED
      BY <3>2, <3>3, <3>5, <3>6, <3>7
  <2>4. QED
    BY <2>2, <2>3
<1> HIDE DEF Adds
<1>6. 1 .. n \subseteq S
  <2> HIDE DEF S
  <2>1. QED
    BY <1>5, UpToTheEnd
<1>7. Adds(n)
  BY <1>6
<1>8. QED
  BY <1>7 DEF Adds, a, c

(***************************************************************************)
(* Of several ranges the client is sent as many characters more than it has*)
(* been told, for each of them, as the length of all the parts has more    *)
(* digits than the size of the file.                                       *)
(***************************************************************************)
THEOREM SentIsLonger == ResponseSpec => []ShortByTheDigits
<1>1. ResponseInv => ShortByTheDigits
  <2> DEFINE n == Len(ranges)
             s == [i \in 1 .. n |-> PartHeaderLen(ranges[i], st_size) + RangeLen(ranges[i])]
  <2> SUFFICES ASSUME ResponseInv, state = "REQUEST_COMPLETED", method = "GET", n > 1
               PROVE  SentLen + n * DigitsOf(st_size) = HeadersLen + announced + n * DigitsOf(announced)
    BY DEF ShortByTheDigits
  <2>1. Asked /\ sent = Response
    BY DEF ResponseInv
  <2>2. PICK f : /\ SentLen = f[Pieces] /\ f[0] = 0
                 /\ \A k \in 1 .. Pieces : f[k] = f[k - 1] + PieceLen(k)
    BY <2>1, SentIsSum
  <2>3. n \in Nat /\ Len(s) = n /\ announced = Sum(s) + FooterLen
    <3>1. n \in Nat
      BY <2>1, RangeIs
    <3>2. QED
      BY <2>1, <3>1 DEF Asked, ContentLength
  <2>4. \A i \in 1 .. n : s[i] = PartHeaderLen(ranges[i], st_size) + RangeLen(ranges[i])
    OBVIOUS
  <2> HIDE DEF s, n
  <2>5. n \in Nat /\ Len(s) = n
    BY <2>3
  <2>6. PICK g : /\ Sum(s) = g[n] /\ g[0] = 0
                 /\ \A i \in 1 .. n : g[i] = g[i - 1] + s[i]
    BY ONLY <2>5, SumIs
  <2>7. \A i \in 1 .. n : g[i] = g[i - 1] + (PartHeaderLen(ranges[i], st_size) + RangeLen(ranges[i]))
    BY <2>4, <2>6
  <2>8. /\ f[2 * n] \in Int /\ g[n] \in Int
        /\ f[2 * n] + n * DigitsOf(st_size) = HeadersLen + g[n] + n * DigitsOf(announced)
    <3>1. n = Len(ranges)
      BY DEF n
    <3>2. QED
      BY <2>1, <2>2, <2>5, <2>6, <2>7, <3>1, PartsCounted
  <2>9. Pieces = 2 * n + 1 /\ Response[Pieces] = TextOf(n + 1)
    <3>1. Pieces = 2 * n + 1
      BY <2>1, PiecesCount DEF n
    <3>2. Pieces \in 1 .. Pieces /\ Pieces % 2 = 1 /\ (Pieces + 1) \div 2 = n + 1
      BY <2>3, <3>1
    <3>3. QED
      BY <2>1, <3>1, <3>2, PiecesAre
  <2>10. TextOf(n + 1) = [what |-> <<"footer", n>>, from |-> 0, to |-> FooterLen]
    <3>1. n + 1 # 1 /\ n + 1 \notin 2 .. n
      BY <2>3
    <3>2. QED
      BY <3>1 DEF TextOf, Text, n
  <2>11. PieceLen(Pieces) = FooterLen /\ FooterLen \in Nat
    BY <2>9, <2>10, TextsAreLong DEF PieceLen
  <2>12. f[Pieces] = f[2 * n] + FooterLen
    <3>1. Pieces \in 1 .. Pieces /\ Pieces - 1 = 2 * n
      BY <2>3, <2>9
    <3>2. QED
      BY <2>2, <2>11, <3>1
  <2>13. \A d : DigitsOf(d) \in Nat
    BY ONLY DigitsAreFew
  <2>14. n * DigitsOf(st_size) \in Int /\ n * DigitsOf(announced) \in Int /\ HeadersLen \in Int
    BY <2>3, <2>13, TextsAreLong
  <2>15. PICK u, v, x, y : /\ u = f[2 * n] /\ v = g[n]
                           /\ x = n * DigitsOf(st_size) /\ y = n * DigitsOf(announced)
    OBVIOUS
  <2>16. /\ u \in Int /\ v \in Int /\ x \in Int /\ y \in Int
         /\ u + x = HeadersLen + v + y
    BY <2>8, <2>14, <2>15
  <2>17. SentLen = u + FooterLen /\ announced = v + FooterLen
    BY <2>2, <2>3, <2>6, <2>11, <2>12, <2>15
  <2>18. u + FooterLen + x = HeadersLen + (v + FooterLen) + y
    <3>1. FooterLen \in Nat /\ HeadersLen \in Int
      BY <2>11, <2>14
    <3>2. QED
      BY ONLY <2>16, <3>1
  <2>19. QED
    BY <2>15, <2>17, <2>18
<1>2. QED
  BY <1>1, ResponseInvariant, PTL

(***************************************************************************)
(* Content-Length says what is sent, but for the digits of several ranges. *)
(***************************************************************************)
THEOREM AnnouncedIsSentAsCounted == ResponseSpec => []AnnouncedAsCounted
<1>1. AnnouncedForOne /\ ShortByTheDigits => AnnouncedAsCounted
  BY DEF AnnouncedAsCounted
<1>2. QED
  BY <1>1, AnnouncedIsSentForOne, SentIsLonger, PTL

----------------------------------------------------------------------------
(***************************************************************************)
(* The ranges: the parser folds its step over the text, and what is so of  *)
(* the state it begins in and stays so by each step is so at the end.      *)
(***************************************************************************)

\* What is so of 0 and of each number after one it is so of.
LEMMA AllNumbers ==
    ASSUME NEW S, 0 \in S, \A n \in Nat : n \in S => n + 1 \in S
    PROVE  Nat \subseteq S
<1> SUFFICES ASSUME Nat \ S # {} PROVE FALSE
  OBVIOUS
<1>1. PICK least \in Nat \ S : \A n \in Nat \ S : least <= n
  BY LeastNumber
<1>2. least # 0 /\ least - 1 \in Nat
  BY <1>1
<1>3. least - 1 \in S
  BY <1>1, <1>2
<1>4. QED
  BY <1>1, <1>2, <1>3

\* A set of places has a last one.
LEMMA LastPlace ==
    ASSUME NEW n \in Nat, NEW s \in SUBSET (1 .. n), s # {}
    PROVE  /\ Max(s) \in s /\ \A p \in s : p <= Max(s)
           /\ s \ {Max(s)} \in SUBSET (1 .. (Max(s) - 1))
<1> DEFINE Back == {k \in 0 .. n : n - k \in s}
<1>1. Back \subseteq Nat /\ Back # {}
  <2>1. PICK p \in s : TRUE
    OBVIOUS
  <2>2. p \in 1 .. n
    OBVIOUS
  <2>3. n - p \in 0 .. n /\ n - (n - p) = p
    BY <2>2
  <2>4. n - p \in Back
    BY <2>1, <2>3
  <2>5. QED
    BY <2>4
<1>2. PICK b \in Back : \A c \in Back : b <= c
  <2> HIDE DEF Back
  <2>1. QED
    BY <1>1, LeastNumber
<1>3. n - b \in s /\ b \in 0 .. n
  BY <1>2
<1>4. ASSUME NEW p \in s PROVE n - b >= p
  <2>1. p \in 1 .. n
    OBVIOUS
  <2>2. n - p \in 0 .. n /\ n - (n - p) = p
    BY <2>1
  <2>3. b <= n - p
    BY <1>2, <2>2
  <2>4. QED
    BY <1>3, <2>1, <2>3
<1>5. Max(s) \in s /\ \A p \in s : Max(s) >= p
  BY <1>3, <1>4 DEF Max
<1>6. \A p \in s : p \in 1 .. n
  OBVIOUS
<1> DEFINE m == Max(s)
<1> HIDE DEF m
<1>7. m \in 1 .. n /\ \A p \in s : p <= m
  BY <1>5, <1>6 DEF m
<1>8. ASSUME NEW p \in s, p # m PROVE p \in 1 .. (m - 1)
  BY <1>6, <1>7, <1>8
<1>9. QED
  BY <1>5, <1>7, <1>8 DEF m

\* What has been read of a text at the places s, the last one of which is Max(s).
ReadAt(text, length, from, s) ==
    IF s = {} THEN RangeBegins
    ELSE IF from[s \ {Max(s)}].ok THEN RangeStep(from[s \ {Max(s)}], text[Max(s)], length)
    ELSE from[s \ {Max(s)}]

\* The fold over a text is a function there is.
LEMMA ReadingExists ==
    ASSUME NEW text, NEW length, NEW n \in Nat
    PROVE  \E g : g = [s \in SUBSET (1 .. n) |-> ReadAt(text, length, g, s)]
<1> DEFINE Whole(k, g) == [s \in SUBSET (1 .. k) |-> ReadAt(text, length, g, s)]
           Fits(k) == \E g : \A s \in SUBSET (1 .. k) : g[s] = ReadAt(text, length, g, s)
           Done == {k \in Nat : Fits(k)}
<1>1. Fits(0)
  <2> DEFINE g == [s \in SUBSET (1 .. 0) |-> RangeBegins]
  <2>1. \A s \in SUBSET (1 .. 0) : s = {}
    OBVIOUS
  <2>2. \A s \in SUBSET (1 .. 0) : g[s] = RangeBegins
    OBVIOUS
  <2> HIDE DEF g
  <2>3. QED
    BY <2>1, <2>2 DEF ReadAt
<1>2. ASSUME NEW k \in Nat, Fits(k) PROVE Fits(k + 1)
  <2>1. PICK h : \A s \in SUBSET (1 .. k) : h[s] = ReadAt(text, length, h, s)
    BY <1>2
  <2> DEFINE g == Whole(k + 1, h)
  <2>2. ASSUME NEW s \in SUBSET (1 .. (k + 1)) PROVE g[s] = ReadAt(text, length, g, s)
    <3>1. g[s] = ReadAt(text, length, h, s)
      OBVIOUS
    <3>2. CASE s = {}
      BY <3>1, <3>2 DEF ReadAt
    <3>3. CASE s # {}
      <4> DEFINE r == s \ {Max(s)}
      <4>1. r \in SUBSET (1 .. k)
        <5>1. Max(s) \in s /\ r \in SUBSET (1 .. (Max(s) - 1))
          <6>1. k + 1 \in Nat
            OBVIOUS
          <6>2. QED
            BY <3>3, <6>1, LastPlace
        <5>2. Max(s) \in 1 .. (k + 1)
          BY <5>1
        <5>3. \A p \in 1 .. (Max(s) - 1) : p \in 1 .. k
          BY <5>2
        <5> HIDE DEF r
        <5>4. QED
          BY <5>1, <5>3
      <4> HIDE DEF r
      <4>2. r \in SUBSET (1 .. (k + 1))
        BY <4>1
      <4>3. g[r] = h[r]
        BY <2>1, <4>1, <4>2
      <4> HIDE DEF g
      <4>4. QED
        BY <3>1, <3>3, <4>3 DEF ReadAt, r
    <3>4. QED
      BY <3>2, <3>3
  <2> HIDE DEF g
  <2>3. QED
    BY <2>2
<1> HIDE DEF Fits
<1>3. Nat \subseteq Done
  <2>1. 0 \in Done /\ \A k \in Nat : k \in Done => k + 1 \in Done
    BY <1>1, <1>2
  <2> HIDE DEF Done
  <2>2. QED
    BY <2>1, AllNumbers
<1>4. Fits(n)
  BY <1>3
<1>5. PICK h : \A s \in SUBSET (1 .. n) : h[s] = ReadAt(text, length, h, s)
  BY <1>4 DEF Fits
<1> DEFINE g == Whole(n, h)
<1>6. ASSUME NEW s \in SUBSET (1 .. n) PROVE g[s] = ReadAt(text, length, g, s)
  <2>1. g[s] = ReadAt(text, length, h, s) /\ (s \ {Max(s)}) \in SUBSET (1 .. n)
    OBVIOUS
  <2>2. g[s \ {Max(s)}] = h[s \ {Max(s)}]
    BY <1>5, <2>1
  <2> HIDE DEF g
  <2>3. QED
    BY <2>1, <2>2 DEF ReadAt
<1>7. g = Whole(n, g)
  <2>1. g = [s \in SUBSET (1 .. n) |-> g[s]]
    OBVIOUS
  <2> HIDE DEF g
  <2>2. QED
    BY <1>6, <2>1
<1> HIDE DEF g
<1>8. QED
  BY <1>7

----------------------------------------------------------------------------
\* Numbers have not become negative, and the ranges so far are in the file.
ReadsInside(p, length) ==
    p \in [state : Nat, from : Nat, number : Nat, ranges : Seq(RangesOf(length)), ok : BOOLEAN]

\* A number that wraps is one.
LEMMA Wraps == ASSUME Limit \in Nat \ {0}, NEW n \in Nat PROVE Wrap(n) \in Int
  BY DEF Wrap

\* What is kept when a field and the state change: the state alone,
LEMMA StateChanges ==
    ASSUME NEW length \in Nat, NEW p, ReadsInside(p, length), NEW reached \in Nat
    PROVE  ReadsInside([p EXCEPT !.state = reached], length)
<1> DEFINE Ranges == Seq(RangesOf(length))
           q == [p EXCEPT !.state = reached]
<1>1. p \in [state : Nat, from : Nat, number : Nat, ranges : Ranges, ok : BOOLEAN]
  BY DEF ReadsInside
<1>2. q \in [state : Nat, from : Nat, number : Nat, ranges : Ranges, ok : BOOLEAN]
  <2> HIDE DEF Ranges
  <2>1. QED
    BY <1>1
<1> HIDE DEF q
<1>3. ReadsInside(q, length)
  BY <1>2 DEF ReadsInside
<1>4. QED
  BY <1>3 DEF q

\* the beginning of a range,
LEMMA FromChanges ==
    ASSUME NEW length \in Nat, NEW p, ReadsInside(p, length), NEW reached \in Nat, NEW from \in Nat
    PROVE  ReadsInside([p EXCEPT !.from = from, !.state = reached], length)
<1> DEFINE Ranges == Seq(RangesOf(length))
           q == [p EXCEPT !.from = from, !.state = reached]
<1>1. p \in [state : Nat, from : Nat, number : Nat, ranges : Ranges, ok : BOOLEAN]
  BY DEF ReadsInside
<1>2. q \in [state : Nat, from : Nat, number : Nat, ranges : Ranges, ok : BOOLEAN]
  <2> HIDE DEF Ranges
  <2>1. QED
    BY <1>1
<1> HIDE DEF q
<1>3. ReadsInside(q, length)
  BY <1>2 DEF ReadsInside
<1>4. QED
  BY <1>3 DEF q

\* a number,
LEMMA NumberChanges ==
    ASSUME NEW length \in Nat, NEW p, ReadsInside(p, length), NEW reached \in Nat, NEW number \in Nat
    PROVE  ReadsInside([p EXCEPT !.number = number, !.state = reached], length)
<1> DEFINE Ranges == Seq(RangesOf(length))
           q == [p EXCEPT !.number = number, !.state = reached]
<1>1. p \in [state : Nat, from : Nat, number : Nat, ranges : Ranges, ok : BOOLEAN]
  BY DEF ReadsInside
<1>2. q \in [state : Nat, from : Nat, number : Nat, ranges : Ranges, ok : BOOLEAN]
  <2> HIDE DEF Ranges
  <2>1. QED
    BY <1>1
<1> HIDE DEF q
<1>3. ReadsInside(q, length)
  BY <1>2 DEF ReadsInside
<1>4. QED
  BY <1>3 DEF q

\* the ranges.
LEMMA RangesChange ==
    ASSUME NEW length \in Nat, NEW p, ReadsInside(p, length), NEW reached \in Nat,
           NEW found \in Seq(RangesOf(length))
    PROVE  ReadsInside([p EXCEPT !.ranges = found, !.state = reached], length)
<1> DEFINE Ranges == Seq(RangesOf(length))
           q == [p EXCEPT !.ranges = found, !.state = reached]
<1>1. p \in [state : Nat, from : Nat, number : Nat, ranges : Ranges, ok : BOOLEAN]
  BY DEF ReadsInside
<1> HIDE DEF Ranges
<1>2. q \in [state : Nat, from : Nat, number : Nat, ranges : Ranges, ok : BOOLEAN]
  <2>1. found \in Ranges
    BY DEF Ranges
  <2>2. QED
    BY <1>1, <2>1
<1> HIDE DEF q
<1>3. ReadsInside(q, length)
  BY <1>2 DEF ReadsInside, Ranges
<1>4. QED
  BY <1>3 DEF q

\* A range that ends in the file is added or refused.
LEMMA RangeAdded ==
    ASSUME NEW length \in Nat, NEW p, ReadsInside(p, length), NEW from \in Nat, NEW to \in Int, to < length
    PROVE  ReadsInside(AddRange(p, from, to), length)
<1>1. CASE to < from
  BY <1>1 DEF AddRange, Fails, ReadsInside
<1>2. CASE from <= to
  <2> DEFINE range == [from |-> from, to |-> to]
  <2>1. range \in RangesOf(length)
    BY <1>2 DEF RangesOf
  <2>2. AddRange(p, from, to) = [p EXCEPT !.ranges = Append(@, range), !.state = 6]
    BY <1>2 DEF AddRange
  <2> HIDE DEF range
  <2>3. p.ranges \in Seq(RangesOf(length))
    BY DEF ReadsInside
  <2>4. Append(p.ranges, range) \in Seq(RangesOf(length))
    BY <2>1, <2>3
  <2>5. [p EXCEPT !.ranges = Append(@, range), !.state = 6]
          = [p EXCEPT !.ranges = Append(p.ranges, range), !.state = 6]
    OBVIOUS
  <2> DEFINE found == Append(p.ranges, range)
  <2>6. found \in Seq(RangesOf(length)) /\ 6 \in Nat
    BY <2>4
  <2>7. AddRange(p, from, to) = [p EXCEPT !.ranges = found, !.state = 6]
    BY <2>2, <2>5
  <2> HIDE DEF found
  <2>8. ReadsInside([p EXCEPT !.ranges = found, !.state = 6], length)
    BY <2>6, RangesChange
  <2>9. QED
    BY <2>7, <2>8
<1>3. QED
  BY <1>1, <1>2

\* A comma or the end: the end of the range is in the file then.
LEMMA RangeEndsInside ==
    ASSUME NEW length \in Nat, NEW p, ReadsInside(p, length)
    PROVE  ReadsInside(RangeEnds(p, length), length)
<1>1. p.from \in Nat /\ p.number \in Nat
  BY DEF ReadsInside
<1>2. CASE p.state = 3
  BY <1>1, <1>2, RangeAdded DEF RangeEnds
<1>3. CASE p.state \in {4, 5}
  <2>1. Lesser(p.number, length - 1) \in Int /\ Lesser(p.number, length - 1) < length
    BY <1>1 DEF Lesser
  <2>2. RangeEnds(p, length) = AddRange(p, p.from, Lesser(p.number, length - 1))
    BY <1>3 DEF RangeEnds
  <2>3. QED
    BY <1>1, <2>1, <2>2, RangeAdded
<1>4. CASE p.state \in {8, 9}
  <2>1. length - Lesser(p.number, length) \in Nat /\ length - 1 \in Int /\ length - 1 < length
    BY <1>1 DEF Lesser
  <2>2. RangeEnds(p, length) = Suffix(p, length)
    BY <1>4 DEF RangeEnds
  <2>3. CASE p.number = 0
    BY <2>2, <2>3 DEF Suffix, Fails, ReadsInside
  <2>4. CASE p.number # 0
    <3>1. RangeEnds(p, length) = AddRange(p, length - Lesser(p.number, length), length - 1)
      BY <2>2, <2>4 DEF Suffix
    <3>2. QED
      BY <2>1, <3>1, RangeAdded
  <2>5. QED
    BY <2>3, <2>4
<1>5. CASE p.state \notin {3, 4, 5, 8, 9}
  BY <1>5 DEF RangeEnds, Fails, ReadsInside
<1>6. QED
  BY <1>2, <1>3, <1>4, <1>5

\* A character keeps the ranges in the file.
LEMMA StepInside ==
    ASSUME OffsetsHold, NEW length \in Nat, NEW p, ReadsInside(p, length), NEW c
    PROVE  ReadsInside(RangeStep(p, c, length), length)
<1>1. p.from \in Nat /\ p.number \in Nat /\ p.state \in Nat
  BY DEF ReadsInside
<1>2. CASE c \in DOMAIN Digits
  <2> DEFINE d == Digits[c]
             from == Wrap(p.from * 10 + d)
             next == Wrap(p.number * 10 + d)
  <2>1. d \in Nat
    BY <1>2 DEF OffsetsHold
  <2>2. from \in Int /\ next \in Int
    <3>1. p.from * 10 + d \in Nat /\ p.number * 10 + d \in Nat
      BY <1>1, <2>1
    <3>2. QED
      BY <3>1, Wraps DEF OffsetsHold
  <2>3. RangeStep(p, c, length) = Digit(p, d, length)
    BY <1>2 DEF RangeStep
  <2> HIDE DEF d, from, next
  <2>4. CASE p.state \in {0, 6}
    <3>1. Digit(p, d, length) = [p EXCEPT !.from = d, !.state = 1]
      BY <2>4 DEF Digit
    <3>2. ReadsInside([p EXCEPT !.from = d, !.state = 1], length)
      BY <2>1, FromChanges
    <3>3. QED
      BY <2>3, <3>1, <3>2
  <2>5. CASE p.state = 1
    <3>1. Digit(p, d, length) = IF from < p.from \/ from >= length THEN Fails(p) ELSE [p EXCEPT !.from = from]
      BY <2>5 DEF Digit, from
    <3>2. from < p.from \/ from \in Nat
      BY <1>1, <2>2
    <3>3. QED
      BY <2>3, <3>1, <3>2 DEF ReadsInside, Fails
  <2>6. CASE p.state \in {3, 7}
    <3>1. Digit(p, d, length) = [p EXCEPT !.number = d, !.state = @ + 1]
      BY <2>6 DEF Digit
    <3>2. Digit(p, d, length) = [p EXCEPT !.number = d, !.state = p.state + 1] /\ p.state + 1 \in Nat
      BY <1>1, <3>1
    <3> DEFINE reached == p.state + 1
    <3>3. Digit(p, d, length) = [p EXCEPT !.number = d, !.state = reached] /\ reached \in Nat
      BY <3>2
    <3> HIDE DEF reached
    <3>4. ReadsInside([p EXCEPT !.number = d, !.state = reached], length)
      BY <2>1, <3>3, NumberChanges
    <3>5. QED
      BY <2>3, <3>3, <3>4
  <2>7. CASE p.state \in {4, 8}
    <3>1. Digit(p, d, length) = IF next < p.number THEN Fails(p) ELSE [p EXCEPT !.number = next]
      BY <2>7 DEF Digit, next
    <3>2. next < p.number \/ next \in Nat
      BY <1>1, <2>2
    <3>3. QED
      BY <2>3, <3>1, <3>2 DEF ReadsInside, Fails
  <2>8. CASE p.state \notin {0, 1, 3, 4, 6, 7, 8}
    <3>1. Digit(p, d, length) = Fails(p)
      BY <2>8 DEF Digit
    <3>2. QED
      BY <2>3, <3>1 DEF ReadsInside, Fails
  <2>9. QED
    BY <2>4, <2>5, <2>6, <2>7, <2>8
<1>3. CASE c \notin DOMAIN Digits /\ c = " "
  <2>1. RangeStep(p, c, length) = Blank(p)
    BY <1>3 DEF RangeStep
  <2>2. QED
    BY <1>1, <2>1 DEF Blank, ReadsInside
<1>4. CASE c \notin DOMAIN Digits /\ c = "-"
  <2>1. RangeStep(p, c, length) = Dash(p)
    BY <1>4 DEF RangeStep
  <2>2. ReadsInside([p EXCEPT !.state = 7], length) /\ ReadsInside([p EXCEPT !.state = 3], length)
    BY StateChanges
  <2>3. ReadsInside(Fails(p), length)
    BY DEF Fails, ReadsInside
  <2>4. QED
    BY <2>1, <2>2, <2>3 DEF Dash
<1>5. CASE c \notin DOMAIN Digits /\ c = ","
  <2>1. RangeStep(p, c, length) = RangeEnds(p, length)
    BY <1>5 DEF RangeStep
  <2>2. QED
    BY <2>1, RangeEndsInside
<1>6. CASE c \notin DOMAIN Digits /\ c \notin {" ", "-", ","}
  BY <1>6 DEF RangeStep, Fails, ReadsInside
<1>7. QED
  BY <1>2, <1>3, <1>4, <1>5, <1>6

\* And so does a text.
LEMMA ReadingIsInside ==
    ASSUME OffsetsHold, NEW S, NEW text \in Seq(S), NEW length \in Nat
    PROVE  ReadsInside(ReadRanges(text, length), length)
<1> DEFINE n == Len(text)
           Whole(g) == [s \in SUBSET (DOMAIN text) |->
                           IF s = {} THEN RangeBegins
                           ELSE IF g[s \ {Max(s)}].ok THEN RangeStep(g[s \ {Max(s)}], text[Max(s)], length)
                           ELSE g[s \ {Max(s)}]]
           from == CHOOSE g : g = Whole(g)
<1>1. n \in Nat /\ DOMAIN text = 1 .. n
  OBVIOUS
<1>2. ReadRanges(text, length) = from[DOMAIN text]
  BY DEF ReadRanges, FoldLeft, MapThenFoldSet
<1>3. \A g : Whole(g) = [s \in SUBSET (1 .. n) |-> ReadAt(text, length, g, s)]
  BY <1>1 DEF ReadAt
<1> HIDE DEF n
<1>4. \E g : g = Whole(g)
  <2> HIDE DEF Whole
  <2>1. PICK g : g = [s \in SUBSET (1 .. n) |-> ReadAt(text, length, g, s)]
    BY <1>1, ReadingExists
  <2>2. QED
    BY <1>3, <2>1
<1>5. from = Whole(from)
  <2> HIDE DEF Whole
  <2>1. QED
    BY <1>4
<1> HIDE DEF from
<1>6. ASSUME NEW s \in SUBSET (1 .. n) PROVE from[s] = ReadAt(text, length, from, s)
  <2> HIDE DEF Whole
  <2>1. from = [r \in SUBSET (1 .. n) |-> ReadAt(text, length, from, r)]
    BY <1>3, <1>5
  <2>2. QED
    BY <2>1
<1> DEFINE Done == {k \in Nat : k <= n => ReadsInside(from[1 .. k], length)}
<1>7. ReadsInside(from[1 .. 0], length)
  <2>1. 1 .. 0 = {} /\ {} \in SUBSET (1 .. n)
    OBVIOUS
  <2>2. from[1 .. 0] = RangeBegins
    BY <1>6, <2>1 DEF ReadAt
  <2>3. <<>> \in Seq(RangesOf(length))
    OBVIOUS
  <2>4. QED
    BY <2>2, <2>3 DEF RangeBegins, ReadsInside
<1>8. ASSUME NEW k \in Nat, ReadsInside(from[1 .. k], length), k + 1 <= n
      PROVE  ReadsInside(from[1 .. (k + 1)], length)
  <2> DEFINE s == 1 .. (k + 1)
  <2>1. s \in SUBSET (1 .. n) /\ s # {} /\ k + 1 \in s
    <3>1. k + 1 \in s /\ \A p \in s : p \in 1 .. n
      BY <1>1, <1>8
    <3> HIDE DEF s
    <3>2. QED
      BY <3>1
  <2>2. Max(s) = k + 1
    <3>1. Max(s) \in s /\ k + 1 <= Max(s)
      <4> HIDE DEF s
      <4>1. QED
        BY <1>1, <2>1, LastPlace
    <3>2. QED
      BY <3>1
  <2>3. s \ {k + 1} = 1 .. k
    OBVIOUS
  <2>4. from[s] = IF from[1 .. k].ok THEN RangeStep(from[1 .. k], text[k + 1], length) ELSE from[1 .. k]
    <3> HIDE DEF s
    <3>1. QED
      BY <1>6, <2>1, <2>2, <2>3 DEF ReadAt
  <2>5. QED
    BY <1>8, <2>4, StepInside
<1>9. Nat \subseteq Done
  <2>1. 0 \in Done /\ \A k \in Nat : k \in Done => k + 1 \in Done
    BY <1>1, <1>7, <1>8
  <2> HIDE DEF Done
  <2>2. QED
    BY <2>1, AllNumbers
<1>10. ReadsInside(from[1 .. n], length)
  BY <1>1, <1>9
<1>11. QED
  BY <1>1, <1>2, <1>10

(***************************************************************************)
(* However long the Range header is, whatever its numbers overflow to and  *)
(* however large the file: the ranges it is parsed into are in the file,   *)
(* which is what the response with the file takes them for.                *)
(***************************************************************************)
THEOREM RangesAreInTheFile ==
    ASSUME OffsetsHold, NEW S, NEW text \in Seq(S), NEW length \in Nat
    PROVE  ParseRanges(text, length).ranges \in Seq(RangesOf(length))
<1> DEFINE p == ReadRanges(text, length)
           q == IF ~ p.ok \/ p.state = 0 THEN p ELSE RangeEnds(p, length)
<1>1. ReadsInside(p, length)
  BY ReadingIsInside
<1>2. ReadsInside(q, length)
  <2> HIDE DEF p
  <2>1. QED
    BY <1>1, RangeEndsInside
<1>3. ParseRanges(text, length).ranges = q.ranges
  BY DEF ParseRanges
<1> HIDE DEF q
<1>4. QED
  BY <1>2, <1>3 DEF ReadsInside
=============================================================================
