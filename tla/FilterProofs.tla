---------------------------- MODULE FilterProofs ----------------------------
(***************************************************************************)
(* The DSR filter of Terminal: its recursion is well defined, and one call *)
(* on the bytes that follow a place between the queries and responses of   *)
(* the text leads to another such place.  Induction over the data goes by  *)
(* the least place at which a claim fails.                                 *)
(***************************************************************************)
EXTENDS Terminal, SequenceTheorems, FiniteSetTheorems, WellFoundedInduction, TLAPS

LessOnNat == {ss \in Nat \X Nat : ss[1] < ss[2]}

\* Induction over a set of numbers.
LEMMA SetInduction ==
    ASSUME NEW S, 0 \in S, \A n \in Nat : n \in S => n + 1 \in S
    PROVE  Nat \subseteq S
<1> DEFINE T == Nat \ S
<1>1. SUFFICES ASSUME T # {} PROVE FALSE
  OBVIOUS
<1>2. IsWellFoundedOn(LessOnNat, Nat)
  BY NatLessThanWellFounded DEF OpToRel, LessOnNat
<1>3. T \subseteq Nat
  OBVIOUS
<1>4. PICK n \in T : \A m \in T : ~ (<<m, n>> \in LessOnNat)
  <2> HIDE DEF T
  <2> QED BY <1>1, <1>2, <1>3, WFMin
<1>5. n \in Nat /\ n # 0 /\ n - 1 \in Nat
  OBVIOUS
<1>6. <<n - 1, n>> \in LessOnNat
  BY <1>5 DEF LessOnNat
<1>7. n - 1 \in S
  BY <1>4, <1>5, <1>6
<1> QED BY <1>5, <1>7
-----------------------------------------------------------------------------
(* The recursion of the filter *)

\* What the filter does at a place depends on later places only.
LEMMA LooksAhead ==
    ASSUME NEW data \in Seq(Bytes), NEW i \in 1 .. Len(data) + 1, NEW f, NEW g,
           \A j \in i + 1 .. Len(data) + 1 : f[j] = g[j]
    PROVE  ScanStep(data, f, i) = ScanStep(data, g, i)
<1> DEFINE n == Len(data)
           rest == SubSeq(data, i, n)
<1>1. n \in Nat /\ i \in Nat /\ 1 <= i /\ i <= n + 1
  OBVIOUS
<1>2. Len(Query) = 4 /\ Len(Response) = 6
  BY DEF Query, Response
<1>3. \A j \in i .. n : data[j] \in Bytes
  BY <1>1
<1>4. i <= n => Len(rest) = n - i + 1
  BY <1>1, <1>3, SubSeqProperties
<1>5. i <= n /\ IsPrefix(Query, rest) => f[i + Len(Query)] = g[i + Len(Query)]
  BY <1>1, <1>2, <1>4 DEF IsPrefix
<1>6. i <= n /\ IsPrefix(Response, rest) => f[i + Len(Response)] = g[i + Len(Response)]
  BY <1>1, <1>2, <1>4 DEF IsPrefix
<1>7. i <= n => f[i + 1] = g[i + 1]
  BY <1>1
<1> HIDE DEF rest
<1>8. i # n + 1 => i <= n
  BY <1>1
<1> QED BY <1>5, <1>6, <1>7, <1>8 DEF ScanStep, rest

\* There is a function that satisfies the equation of the filter.
LEMMA ScanExists ==
    ASSUME NEW data \in Seq(Bytes)
    PROVE  \E g : g = [i \in 1 .. Len(data) + 1 |-> ScanStep(data, g, i)]
<1> DEFINE n == Len(data)
           Solves(f, k) == \A i \in 1 .. n + 1 : i >= n + 1 - k => f[i] = ScanStep(data, f, i)
           S == {k \in Nat : \E f : Solves(f, k)}
<1>0. n \in Nat
  OBVIOUS
<1>1. 0 \in S
  <2> DEFINE f == [i \in 1 .. n + 1 |-> ScanStep(data, <<>>, i)]
  <2>1. ASSUME NEW i \in 1 .. n + 1, i >= n + 1
        PROVE  f[i] = ScanStep(data, f, i)
    <3>1. f[i] = ScanStep(data, <<>>, i)
      OBVIOUS
    <3>2. \A j \in i + 1 .. Len(data) + 1 : <<>>[j] = f[j]
      BY <2>1
    <3> HIDE DEF f
    <3> QED BY <3>1, <3>2, LooksAhead
  <2> HIDE DEF f
  <2>2. Solves(f, 0)
    BY <1>0, <2>1
  <2> QED BY <2>2
<1>2. ASSUME NEW k \in Nat, k \in S PROVE k + 1 \in S
  <2>1. PICK f : Solves(f, k)
    BY <1>2
  <2> DEFINE m == n - k
             g == [i \in 1 .. n + 1 |-> IF i > m THEN f[i] ELSE ScanStep(data, f, i)]
  <2>2. ASSUME NEW i \in 1 .. n + 1, i >= n + 1 - (k + 1)
        PROVE  g[i] = ScanStep(data, g, i)
    <3>1. g[i] = ScanStep(data, f, i)
      BY <1>0, <2>1, <2>2
    <3>2. \A j \in i + 1 .. Len(data) + 1 : f[j] = g[j]
      BY <1>0, <2>2
    <3> HIDE DEF g
    <3> QED BY <3>1, <3>2, LooksAhead
  <2> HIDE DEF g
  <2>3. Solves(g, k + 1)
    BY <2>2
  <2> QED BY <2>3
<1>3. n \in S
  <2> HIDE DEF S
  <2> QED BY <1>0, <1>1, <1>2, SetInduction
<1>4. PICK f : Solves(f, n)
  BY <1>3
<1> DEFINE g == [i \in 1 .. n + 1 |-> f[i]]
<1>5. ASSUME NEW i \in 1 .. n + 1 PROVE f[i] = ScanStep(data, g, i)
  <2>1. f[i] = ScanStep(data, f, i)
    BY <1>0, <1>4
  <2>2. \A j \in i + 1 .. Len(data) + 1 : f[j] = g[j]
    BY <1>0
  <2> HIDE DEF g
  <2> QED BY <2>1, <2>2, LooksAhead
<1>6. g = [i \in 1 .. n + 1 |-> ScanStep(data, g, i)]
  <2> DEFINE h == [i \in 1 .. n + 1 |-> ScanStep(data, g, i)]
  <2>1. \A i \in 1 .. n + 1 : g[i] = h[i]
    BY <1>5
  <2> QED BY <2>1
<1> QED BY <1>6

\* The filter computes that function.
LEMMA ScanUnfolds ==
    ASSUME NEW data \in Seq(Bytes), NEW i \in 1 .. Len(data) + 1
    PROVE  Scan(data)[i] = ScanStep(data, Scan(data), i)
<1> DEFINE Solution(g) == g = [j \in 1 .. Len(data) + 1 |-> ScanStep(data, g, j)]
<1>1. \E g : Solution(g)
  BY ScanExists
<1>2. Scan(data) = CHOOSE g : Solution(g)
  BY DEF Scan
<1>3. Solution(Scan(data))
  <2> HIDE DEF Solution
  <2> QED BY <1>1, <1>2
<1> QED BY <1>3
-----------------------------------------------------------------------------
(* Queries and responses in a text *)

\* A query or response at a place, byte by byte.
LEMMA QueryBytes ==
    ASSUME NEW t \in Seq(Bytes), NEW i \in Nat \ {0}, i + 3 <= Len(t)
    PROVE  SubSeq(t, i, i + 3) = Query
               <=> t[i] = "ESC" /\ t[i + 1] = "[" /\ t[i + 2] = "6" /\ t[i + 3] = "n"
<1> DEFINE s == SubSeq(t, i, i + 3)
           V == Bytes \cup {"ESC", "[", "6", "n"}
<1>0. \A j \in 1 .. Len(t) : t[j] \in Bytes
  BY ElementOfSeq
<1>1. \A j \in i .. i + 3 : t[j] \in V
  <2>1. ASSUME NEW j \in i .. i + 3 PROVE j \in 1 .. Len(t)
    OBVIOUS
  <2> QED BY <1>0, <2>1
<1>2. /\ s \in Seq(V) /\ Len(s) = 4
      /\ \A j \in 1 .. 4 : s[j] = t[i + j - 1]
  <2>1. i \in Int /\ i + 3 \in Int /\ i <= i + 3 /\ i + 3 - i + 1 = 4
    OBVIOUS
  <2> HIDE DEF V
  <2> QED BY <1>1, <2>1, SubSeqProperties
<1>3. Query \in Seq(V) /\ Len(Query) = 4
  BY DEF Query
<1>4. Query[1] = "ESC" /\ Query[2] = "[" /\ Query[3] = "6" /\ Query[4] = "n"
  BY DEF Query
<1>5. s[1] = t[i] /\ s[2] = t[i + 1] /\ s[3] = t[i + 2] /\ s[4] = t[i + 3]
  BY <1>2
<1> HIDE DEF s, V
<1>6. s = Query <=> \A j \in 1 .. 4 : s[j] = Query[j]
  BY <1>2, <1>3, SeqEqual
<1>7. (\A j \in 1 .. 4 : s[j] = Query[j])
          <=> s[1] = Query[1] /\ s[2] = Query[2] /\ s[3] = Query[3] /\ s[4] = Query[4]
  OBVIOUS
<1> QED BY <1>4, <1>5, <1>6, <1>7 DEF s

LEMMA ResponseBytes ==
    ASSUME NEW t \in Seq(Bytes), NEW i \in Nat \ {0}, i + 5 <= Len(t)
    PROVE  SubSeq(t, i, i + 5) = Response
               <=> /\ t[i] = "ESC" /\ t[i + 1] = "[" /\ t[i + 2] = "1"
                   /\ t[i + 3] = ";" /\ t[i + 4] = "1" /\ t[i + 5] = "R"
<1> DEFINE s == SubSeq(t, i, i + 5)
           V == Bytes \cup {"ESC", "[", "1", ";", "R"}
<1>0. \A j \in 1 .. Len(t) : t[j] \in Bytes
  BY ElementOfSeq
<1>1. \A j \in i .. i + 5 : t[j] \in V
  <2>1. ASSUME NEW j \in i .. i + 5 PROVE j \in 1 .. Len(t)
    OBVIOUS
  <2> QED BY <1>0, <2>1
<1>2. /\ s \in Seq(V) /\ Len(s) = 6
      /\ \A j \in 1 .. 6 : s[j] = t[i + j - 1]
  <2>1. i \in Int /\ i + 5 \in Int /\ i <= i + 5 /\ i + 5 - i + 1 = 6
    OBVIOUS
  <2> HIDE DEF V
  <2> QED BY <1>1, <2>1, SubSeqProperties
<1>3. Response \in Seq(V) /\ Len(Response) = 6
  BY DEF Response
<1>4. /\ Response[1] = "ESC" /\ Response[2] = "[" /\ Response[3] = "1"
      /\ Response[4] = ";" /\ Response[5] = "1" /\ Response[6] = "R"
  BY DEF Response
<1>5. /\ s[1] = t[i] /\ s[2] = t[i + 1] /\ s[3] = t[i + 2]
      /\ s[4] = t[i + 3] /\ s[5] = t[i + 4] /\ s[6] = t[i + 5]
  <2>1. /\ s[1] = t[i + 1 - 1] /\ s[2] = t[i + 2 - 1] /\ s[3] = t[i + 3 - 1]
        /\ s[4] = t[i + 4 - 1] /\ s[5] = t[i + 5 - 1] /\ s[6] = t[i + 6 - 1]
    <3> HIDE DEF s, V
    <3> QED BY <1>2
  <2> HIDE DEF s
  <2> QED BY <2>1
<1> HIDE DEF s, V
<1>6. s = Response <=> \A j \in 1 .. 6 : s[j] = Response[j]
  BY <1>2, <1>3, SeqEqual
<1>7. (\A j \in 1 .. 6 : s[j] = Response[j])
          <=> /\ s[1] = Response[1] /\ s[2] = Response[2] /\ s[3] = Response[3]
              /\ s[4] = Response[4] /\ s[5] = Response[5] /\ s[6] = Response[6]
  OBVIOUS
<1> QED BY <1>4, <1>5, <1>6, <1>7 DEF s

\* At a place between queries and responses of the text the bytes s have been shown, and a queries answered.
Good(t, s, a, b) == /\ b \in 0 .. Len(t) /\ Boundary(t, b)
                    /\ s \in Seq(Bytes) /\ Shows(s, t, b)
                    /\ a = Cardinality(Queries(t, b))

\* Two of them never overlap: the escape byte is only at their beginning.
LEMMA OneAtATime ==
    ASSUME NEW t \in Seq(Bytes), NEW p \in {Query, Response}, NEW k \in Nat \ {0},
           Occurs(p, t, k)
    PROVE  /\ Len(p) \in {4, 6} /\ k + Len(p) - 1 <= Len(t)
           /\ \A q \in {Query, Response} : \A j \in k .. k + Len(p) - 1 :
                 Occurs(q, t, j) => j = k /\ q = p
<1>1. Len(Query) = 4 /\ Len(Response) = 6
  BY DEF Query, Response
<1>2. ASSUME NEW j \in Nat \ {0}, Occurs(Query, t, j)
      PROVE  /\ j + 3 <= Len(t)
             /\ t[j] = "ESC" /\ t[j + 1] = "[" /\ t[j + 2] = "6" /\ t[j + 3] = "n"
  <2>1. j + Len(Query) - 1 = j + 3
    BY <1>1
  <2>2. j + 3 <= Len(t) /\ SubSeq(t, j, j + 3) = Query
    BY <1>2, <2>1 DEF Occurs
  <2> QED BY <2>2, QueryBytes
<1>3. ASSUME NEW j \in Nat \ {0}, Occurs(Response, t, j)
      PROVE  /\ j + 5 <= Len(t)
             /\ t[j] = "ESC" /\ t[j + 1] = "[" /\ t[j + 2] = "1"
             /\ t[j + 3] = ";" /\ t[j + 4] = "1" /\ t[j + 5] = "R"
  <2>1. j + Len(Response) - 1 = j + 5
    BY <1>1
  <2>2. j + 5 <= Len(t) /\ SubSeq(t, j, j + 5) = Response
    BY <1>3, <2>1 DEF Occurs
  <2> QED BY <2>2, ResponseBytes
<1>4. ASSUME NEW q \in {Query, Response}, NEW j \in k .. k + Len(p) - 1, Occurs(q, t, j)
      PROVE  j = k /\ q = p
  <2>0. k \in Nat \ {0} /\ j \in Nat \ {0} /\ k <= j /\ j <= k + Len(p) - 1
    BY <1>1
  <2>1. t[j] = "ESC"
    BY <1>2, <1>3, <1>4, <2>0
  <2>2. CASE p = Query
    <3>1. j <= k + 3
      <4>1. Len(p) = 4
        BY <1>1, <2>2
      <4> QED BY <2>0, <4>1
    <3>2. t[k + 1] # "ESC" /\ t[k + 2] # "ESC" /\ t[k + 3] # "ESC"
      BY <1>2, <2>2
    <3>3. j = k
      BY <2>0, <2>1, <3>1, <3>2
    <3> QED BY <1>2, <1>3, <1>4, <2>1, <2>2, <3>3
  <2>3. CASE p = Response
    <3>1. j <= k + 5
      <4>1. Len(p) = 6
        BY <1>1, <2>3
      <4> QED BY <2>0, <4>1
    <3>2. /\ t[k + 1] # "ESC" /\ t[k + 2] # "ESC" /\ t[k + 3] # "ESC"
          /\ t[k + 4] # "ESC" /\ t[k + 5] # "ESC"
      BY <1>3, <2>3
    <3>3. j = k
      <4>1. \/ j = k \/ j = k + 1 \/ j = k + 2 \/ j = k + 3 \/ j = k + 4 \/ j = k + 5
        BY <2>0, <3>1
      <4> QED BY <2>1, <3>2, <4>1
    <3> QED BY <1>2, <1>3, <1>4, <2>1, <2>3, <3>3
  <2> QED BY <2>2, <2>3
<1> QED BY <1>1, <1>4 DEF Occurs
-----------------------------------------------------------------------------
(* From one place between queries and responses to the next *)

LEMMA LenOfMarks == Len(Query) = 4 /\ Len(Response) = 6 /\ Query # Response
BY DEF Query, Response

LEMMA PlacesAreFinite ==
    ASSUME NEW t, NEW n \in Nat
    PROVE  /\ IsFiniteSet(Visible(t, n)) /\ IsFiniteSet(Queries(t, n))
           /\ Cardinality(Visible(t, n)) \in 0 .. n
           /\ Cardinality(Queries(t, n)) \in 0 .. n
<1>1. IsFiniteSet(1 .. n) /\ Cardinality(1 .. n) = n
  BY FS_Interval
<1>2. Visible(t, n) \subseteq 1 .. n /\ Queries(t, n) \subseteq 1 .. n
  BY DEF Visible, Queries
<1>3. ASSUME NEW S \in SUBSET (1 .. n) PROVE IsFiniteSet(S) /\ Cardinality(S) \in 0 .. n
  <2>1. IsFiniteSet(S) /\ Cardinality(S) <= n
    BY <1>1, FS_Subset
  <2> QED BY <2>1, FS_CardinalityType
<1> QED BY <1>2, <1>3

\* A query or response at the next place is skipped.
LEMMA MarkIsHidden ==
    ASSUME NEW t \in Seq(Bytes), NEW p \in {Query, Response}, NEW b \in 0 .. Len(t),
           Boundary(t, b), Occurs(p, t, b + 1)
    PROVE  /\ b + Len(p) \in 0 .. Len(t) /\ Boundary(t, b + Len(p))
           /\ Visible(t, b + Len(p)) = Visible(t, b)
           /\ Queries(t, b + Len(p)) = IF p = Query THEN Queries(t, b) \cup {b + 1}
                                       ELSE Queries(t, b)
<1> DEFINE e == b + Len(p)
<1>1. Len(p) \in {4, 6} /\ b \in Nat /\ e \in Nat /\ e <= Len(t) /\ b < e
  <2>1. b + 1 \in Nat \ {0}
    OBVIOUS
  <2>2. Len(p) \in {4, 6} /\ b + 1 + Len(p) - 1 <= Len(t)
    BY <2>1, OneAtATime
  <2>3. b \in Nat /\ Len(t) \in Nat
    OBVIOUS
  <2>4. CASE Len(p) = 4
    BY <2>2, <2>3, <2>4
  <2>5. CASE Len(p) = 6
    BY <2>2, <2>3, <2>5
  <2> QED BY <2>2, <2>4, <2>5
<1>2. ASSUME NEW q \in {Query, Response}, NEW k \in b + 1 .. e, Occurs(q, t, k)
      PROVE  k = b + 1 /\ q = p
  BY <1>1, <1>2, OneAtATime
<1>3. ASSUME NEW q \in {Query, Response}, NEW k \in 1 .. b, Occurs(q, t, k)
      PROVE  k + Len(q) - 1 <= b
  BY <1>3 DEF Boundary
<1>4. Boundary(t, e)
  <2>1. ASSUME NEW q \in {Query, Response}, NEW k \in 1 .. e, Occurs(q, t, k)
        PROVE  k + Len(q) - 1 <= e
    <3>0. Len(q) \in {4, 6}
      BY LenOfMarks
    <3>1. CASE k \in 1 .. b
      BY <1>1, <1>3, <2>1, <3>0, <3>1
    <3>2. CASE k \in b + 1 .. e
      BY <1>1, <1>2, <2>1, <3>0, <3>2
    <3> QED BY <1>1, <3>1, <3>2
  <2> QED BY <2>1 DEF Boundary
<1>5. Visible(t, e) = Visible(t, b)
  <2>1. ASSUME NEW i \in b + 1 .. e PROVE i \notin Visible(t, e)
    <3>1. Covers(p, t, b + 1, i) /\ b + 1 \in 1 .. i
      BY <1>1 DEF Covers
    <3> QED BY <3>1 DEF Visible
  <2>2. ASSUME NEW i \in Visible(t, e) PROVE i \in 1 .. b
    <3>1. i \in 1 .. e
      BY DEF Visible
    <3> QED BY <1>1, <2>1, <3>1
  <2>3. 1 .. b \subseteq 1 .. e
    BY <1>1
  <2> QED BY <2>2, <2>3 DEF Visible
<1>6. ASSUME NEW i \in 1 .. e, Occurs(Query, t, i), i + 3 <= e
      PROVE  i \in Queries(t, b) \/ (i = b + 1 /\ p = Query)
  <2>1. CASE i \in 1 .. b
    BY <1>1, <1>3, <1>6, <2>1, LenOfMarks DEF Queries
  <2>2. CASE i \in b + 1 .. e
    BY <1>2, <1>6, <2>2
  <2> QED BY <1>1, <2>1, <2>2
<1>7. Queries(t, b) \subseteq Queries(t, e)
  <2>1. ASSUME NEW i \in Queries(t, b) PROVE i \in Queries(t, e)
    <3>1. i \in 1 .. b /\ Occurs(Query, t, i) /\ i + Len(Query) - 1 <= b
      BY DEF Queries
    <3>2. i \in 1 .. e /\ i + Len(Query) - 1 <= e
      BY <1>1, <3>1, LenOfMarks
    <3> QED BY <3>1, <3>2 DEF Queries
  <2> QED BY <2>1
<1>8. p = Query => b + 1 \in Queries(t, e)
  BY <1>1, LenOfMarks DEF Queries
<1>9. ASSUME NEW i \in Queries(t, e)
      PROVE  i \in 1 .. e /\ Occurs(Query, t, i) /\ i + 3 <= e
  BY LenOfMarks DEF Queries
<1>10. Queries(t, e) = IF p = Query THEN Queries(t, b) \cup {b + 1} ELSE Queries(t, b)
  BY <1>6, <1>7, <1>8, <1>9
<1> QED BY <1>1, <1>4, <1>5, <1>10

LEMMA SkipsQuery ==
    ASSUME NEW t \in Seq(Bytes), NEW s, NEW a, NEW b, Good(t, s, a, b), Occurs(Query, t, b + 1)
    PROVE  Good(t, s, a + 1, b + 4)
<1>1. b \in 0 .. Len(t) /\ Boundary(t, b)
  BY DEF Good
<1>2. /\ b + 4 \in 0 .. Len(t) /\ Boundary(t, b + 4)
      /\ Visible(t, b + 4) = Visible(t, b)
      /\ Queries(t, b + 4) = Queries(t, b) \cup {b + 1}
  BY <1>1, MarkIsHidden, LenOfMarks
<1>3. b + 1 \notin Queries(t, b)
  BY <1>1 DEF Queries
<1>4. Cardinality(Queries(t, b + 4)) = Cardinality(Queries(t, b)) + 1
  <2>1. IsFiniteSet(Queries(t, b))
    BY <1>1, PlacesAreFinite
  <2> QED BY <1>2, <1>3, <2>1, FS_AddElement
<1> QED BY <1>2, <1>4 DEF Good, Shows

LEMMA SkipsResponse ==
    ASSUME NEW t \in Seq(Bytes), NEW s, NEW a, NEW b, Good(t, s, a, b), Occurs(Response, t, b + 1)
    PROVE  Good(t, s, a, b + 6)
<1>1. b \in 0 .. Len(t) /\ Boundary(t, b)
  BY DEF Good
<1>2. /\ b + 6 \in 0 .. Len(t) /\ Boundary(t, b + 6)
      /\ Visible(t, b + 6) = Visible(t, b)
      /\ Queries(t, b + 6) = Queries(t, b)
  BY <1>1, MarkIsHidden, LenOfMarks
<1> QED BY <1>2 DEF Good, Shows

\* A byte that begins neither is shown.
LEMMA ShowsByte ==
    ASSUME NEW t \in Seq(Bytes), NEW s, NEW a, NEW b, Good(t, s, a, b), b < Len(t),
           ~Occurs(Query, t, b + 1), ~Occurs(Response, t, b + 1)
    PROVE  Good(t, s \o <<t[b + 1]>>, a, b + 1)
<1> DEFINE e == b + 1
           u == s \o <<t[e]>>
<1>1. b \in Nat /\ e \in 1 .. Len(t) /\ e \in Nat /\ Boundary(t, b) /\ s \in Seq(Bytes)
  BY DEF Good
<1>2. ASSUME NEW q \in {Query, Response}, NEW k \in 1 .. e, Occurs(q, t, k)
      PROVE  k <= b /\ k + Len(q) - 1 <= b
  <2>1. k # e
    BY <1>2
  <2>2. k \in 1 .. b
    BY <1>1, <2>1
  <2> QED BY <1>1, <1>2, <2>2 DEF Boundary
<1>3. Boundary(t, e)
  <2>1. ASSUME NEW q \in {Query, Response}, NEW k \in 1 .. e, Occurs(q, t, k)
        PROVE  k + Len(q) - 1 <= e
    <3>1. Len(q) \in {4, 6} /\ k + Len(q) - 1 <= b
      BY <1>2, <2>1, LenOfMarks
    <3> QED BY <1>1, <3>1
  <2> QED BY <2>1 DEF Boundary
<1>4. e \in Visible(t, e)
  <2>1. ASSUME NEW q \in {Query, Response}, NEW k \in 1 .. e PROVE ~Covers(q, t, k, e)
    <3>1. SUFFICES ASSUME Occurs(q, t, k), e <= k + Len(q) - 1 PROVE FALSE
      BY DEF Covers
    <3>2. Len(q) \in {4, 6} /\ k + Len(q) - 1 <= b
      BY <1>2, <3>1, LenOfMarks
    <3> QED BY <1>1, <3>1, <3>2
  <2> QED BY <1>1, <2>1 DEF Visible
<1>5. Visible(t, e) = Visible(t, b) \cup {e} /\ e \notin Visible(t, b)
  <2>1. 1 .. e = (1 .. b) \cup {e} /\ e \notin 1 .. b
    BY <1>1
  <2> QED BY <1>4, <2>1 DEF Visible
<1>6. Cardinality(Visible(t, e)) = Cardinality(Visible(t, b)) + 1
  <2>1. IsFiniteSet(Visible(t, b))
    BY <1>1, PlacesAreFinite
  <2> QED BY <1>5, <2>1, FS_AddElement
<1>7. Shows(u, t, e)
  <2>1. /\ Len(s) = Cardinality(Visible(t, b))
        /\ \A i \in Visible(t, b) : s[Cardinality(Visible(t, i))] = t[i]
    BY DEF Good, Shows
  <2>2. t[e] \in Bytes
    BY <1>1, ElementOfSeq
  <2>3. /\ u \in Seq(Bytes) /\ Len(u) = Len(s) + 1 /\ u[Len(s) + 1] = t[e]
        /\ \A k \in 1 .. Len(s) : u[k] = s[k]
    BY <1>1, <2>2
  <2>4. ASSUME NEW i \in Visible(t, b)
        PROVE  Cardinality(Visible(t, i)) \in 1 .. Len(s)
    <3>1. i \in 1 .. b
      BY DEF Visible
    <3>2. i \in Visible(t, i) /\ Visible(t, i) \subseteq Visible(t, b)
      BY <1>1, <3>1 DEF Visible
    <3>3. IsFiniteSet(Visible(t, b)) /\ IsFiniteSet(Visible(t, i))
      BY <1>1, <3>1, PlacesAreFinite
    <3>4. Cardinality(Visible(t, i)) <= Cardinality(Visible(t, b))
      BY <3>2, <3>3, FS_Subset
    <3>5. Cardinality(Visible(t, i)) \in Nat /\ Cardinality(Visible(t, i)) # 0
      BY <3>2, <3>3, FS_EmptySet, FS_CardinalityType
    <3> QED BY <1>1, <2>1, <3>4, <3>5
  <2>5. ASSUME NEW i \in Visible(t, e) PROVE u[Cardinality(Visible(t, i))] = t[i]
    <3>1. CASE i = e
      BY <1>6, <2>1, <2>3, <3>1
    <3>2. CASE i \in Visible(t, b)
      BY <2>1, <2>3, <2>4, <3>2
    <3> QED BY <1>5, <3>1, <3>2
  <2> HIDE DEF u
  <2> QED BY <1>6, <2>1, <2>3, <2>5 DEF Shows
<1>8. Queries(t, e) = Queries(t, b)
  <2>1. ASSUME NEW i \in 1 .. e, Occurs(Query, t, i) PROVE i \in 1 .. b /\ i + 3 <= b
    <3>1. i <= b /\ i + Len(Query) - 1 <= b
      BY <1>2, <2>1
    <3> QED BY <1>1, <3>1, LenOfMarks
  <2>2. 1 .. b \subseteq 1 .. e /\ b <= e
    BY <1>1
  <2>3. Queries(t, e) = {i \in 1 .. e : Occurs(Query, t, i) /\ i + 3 <= e}
    BY LenOfMarks DEF Queries
  <2>4. Queries(t, b) = {i \in 1 .. b : Occurs(Query, t, i) /\ i + 3 <= b}
    BY LenOfMarks DEF Queries
  <2> QED BY <1>1, <2>1, <2>2, <2>3, <2>4
<1>9. u \in Seq(Bytes)
  BY <1>1, ElementOfSeq
<1>10. a = Cardinality(Queries(t, b))
  BY DEF Good
<1> HIDE DEF u
<1> QED BY <1>1, <1>3, <1>7, <1>8, <1>9, <1>10 DEF Good, u
-----------------------------------------------------------------------------
(* One call of the filter *)

MarkBytes == Bytes \cup {"ESC", "[", "6", "n", "1", ";", "R"}

LEMMA MarksAreSequences == {Query, Response} \subseteq Seq(MarkBytes)
<1>1. Query \in Seq(MarkBytes)
  BY DEF Query, MarkBytes
<1>2. Response \in Seq(MarkBytes)
  BY DEF Response, MarkBytes
<1> QED BY <1>1, <1>2

LEMMA PartOfText ==
    ASSUME NEW t \in Seq(Bytes), NEW m \in Nat \ {0}, NEW r \in m .. Len(t)
    PROVE  /\ SubSeq(t, m, r) \in Seq(Bytes) /\ SubSeq(t, m, r) \in Seq(MarkBytes)
           /\ Len(SubSeq(t, m, r)) = r - m + 1
           /\ \A i \in 1 .. r - m + 1 : SubSeq(t, m, r)[i] = t[m + i - 1]
<1>1. \A i \in m .. r : t[i] \in Bytes
  <2>1. ASSUME NEW i \in m .. r PROVE i \in 1 .. Len(t)
    OBVIOUS
  <2> QED BY <2>1, ElementOfSeq
<1>2. \A i \in m .. r : t[i] \in MarkBytes
  BY <1>1 DEF MarkBytes
<1>3. m \in Int /\ r \in Int /\ m <= r
  OBVIOUS
<1> QED BY <1>1, <1>2, <1>3, SubSeqProperties

\* The filter compares the beginning of what is left with a query and a response.
LEMMA PrefixMeansOccurs ==
    ASSUME NEW t \in Seq(Bytes), NEW m \in Nat \ {0}, NEW r \in m .. Len(t),
           NEW p \in {Query, Response}
    PROVE  /\ IsPrefix(p, SubSeq(t, m, r)) => Occurs(p, t, m) /\ m + Len(p) - 1 <= r
           /\ Occurs(p, t, m) =>
                 IsPrefix(p, SubSeq(t, m, r)) \/ IsPrefix(SubSeq(t, m, r), p)
<1> DEFINE rest == SubSeq(t, m, r)
           l == Len(p)
<1>1. l \in {4, 6} /\ l \in Nat /\ m \in Nat /\ r \in Nat /\ m >= 1 /\ m <= r
  BY LenOfMarks
<1>2. p \in Seq(MarkBytes) /\ SubSeq(p, 1, l) = p
  BY MarksAreSequences, SubSeqFull
<1>3. /\ rest \in Seq(MarkBytes) /\ Len(rest) = r - m + 1
      /\ \A i \in 1 .. r - m + 1 : rest[i] = t[m + i - 1]
  BY PartOfText
<1>4. ASSUME m + l - 1 <= r
      PROVE  SubSeq(rest, 1, l) = SubSeq(t, m, m + l - 1)
  <2>1. m + l - 1 \in m .. Len(t) /\ m + l - 1 - m + 1 = l
    <3> HIDE DEF l
    <3> QED BY <1>1, <1>4
  <2>2. /\ SubSeq(t, m, m + l - 1) \in Seq(MarkBytes)
        /\ Len(SubSeq(t, m, m + l - 1)) = l
        /\ \A i \in 1 .. l : SubSeq(t, m, m + l - 1)[i] = t[m + i - 1]
    BY <2>1, PartOfText
  <2>3. \A i \in 1 .. l : rest[i] \in MarkBytes /\ i \in 1 .. r - m + 1
    <3> HIDE DEF rest
    <3>1. 1 .. l \subseteq 1 .. Len(rest)
      BY <1>1, <1>3, <1>4
    <3> QED BY <1>3, <3>1, ElementOfSeq
  <2>4. /\ SubSeq(rest, 1, l) \in Seq(MarkBytes) /\ Len(SubSeq(rest, 1, l)) = l
        /\ \A i \in 1 .. l : SubSeq(rest, 1, l)[i] = rest[i]
    <3> HIDE DEF rest, l
    <3>1. 1 \in Int /\ l \in Int /\ 1 <= l /\ l - 1 + 1 = l
      BY <1>1
    <3>2. \A i \in 1 .. l : 1 + i - 1 = i
      BY <1>1
    <3> QED BY <2>3, <3>1, <3>2, SubSeqProperties
  <2>5. \A i \in 1 .. l : SubSeq(rest, 1, l)[i] = SubSeq(t, m, m + l - 1)[i]
    <3> HIDE DEF rest, l
    <3> QED BY <1>3, <2>2, <2>3, <2>4
  <2> HIDE DEF rest, l
  <2> QED BY <2>2, <2>4, <2>5, SeqEqual
<1>5. ASSUME IsPrefix(p, rest)
      PROVE  Occurs(p, t, m) /\ m + l - 1 <= r
  <2>1. l <= Len(rest) /\ p = SubSeq(rest, 1, l)
    BY <1>2, <1>5 DEF IsPrefix
  <2>2. m + l - 1 <= r
    <3> HIDE DEF rest, l
    <3> QED BY <1>1, <1>3, <2>1
  <2>3. m + l - 1 <= Len(t)
    <3> HIDE DEF l
    <3> QED BY <1>1, <2>2
  <2> QED BY <1>1, <1>4, <2>1, <2>2, <2>3 DEF Occurs
<1>6. ASSUME Occurs(p, t, m), m + l - 1 <= r
      PROVE  IsPrefix(p, rest)
  <2>1. p = SubSeq(t, m, m + l - 1)
    BY <1>6 DEF Occurs
  <2>2. l <= Len(rest)
    <3> HIDE DEF rest, l
    <3> QED BY <1>1, <1>3, <1>6
  <2> QED BY <1>2, <1>4, <1>6, <2>1, <2>2 DEF IsPrefix
<1>7. ASSUME Occurs(p, t, m), ~ (m + l - 1 <= r)
      PROVE  IsPrefix(rest, p)
  <2> DEFINE n == Len(rest)
  <2>1. n = r - m + 1 /\ n \in Nat /\ n <= l /\ m + n - 1 <= m + l - 1
    <3> HIDE DEF rest, l
    <3> QED BY <1>1, <1>3, <1>7
  <2>2. p = SubSeq(t, m, m + l - 1) /\ m + l - 1 \in m .. Len(t)
    <3>1. m + l - 1 <= Len(t)
      BY <1>7 DEF Occurs
    <3> QED BY <1>1, <1>7, <3>1 DEF Occurs
  <2>3. \A i \in 1 .. l : p[i] = t[m + i - 1]
    <3>1. m + l - 1 - m + 1 = l
      BY <1>1
    <3>2. \A i \in 1 .. m + l - 1 - m + 1 :
             SubSeq(t, m, m + l - 1)[i] = t[m + i - 1]
      BY <2>2, PartOfText
    <3> HIDE DEF l
    <3> QED BY <2>2, <3>1, <3>2
  <2>4. 1 .. n \subseteq 1 .. l
    BY <1>1, <2>1
  <2>5. /\ SubSeq(p, 1, n) \in Seq(MarkBytes) /\ Len(SubSeq(p, 1, n)) = n
        /\ \A i \in 1 .. n : SubSeq(p, 1, n)[i] = p[i]
    <3>1. \A i \in 1 .. n : p[i] \in MarkBytes
      BY <1>2, <2>4, ElementOfSeq
    <3>2. 1 \in Int /\ n \in Int /\ n - 1 + 1 = n /\ (1 <= n \/ n = 0)
      BY <2>1
    <3>3. \A i \in 1 .. n : 1 + i - 1 = i
      BY <2>1
    <3> HIDE DEF n
    <3> QED BY <3>1, <3>2, <3>3, SubSeqProperties
  <2>6. \A i \in 1 .. n : SubSeq(p, 1, n)[i] = rest[i]
    <3> HIDE DEF rest, l, n
    <3> QED BY <1>3, <2>1, <2>3, <2>4, <2>5
  <2>7. SubSeq(p, 1, n) = rest
    <3> HIDE DEF rest
    <3> QED BY <1>3, <2>5, <2>6, SeqEqual
  <2>8. SubSeq(rest, 1, n) = rest
    BY <1>3, SubSeqFull
  <2> QED BY <2>1, <2>7, <2>8 DEF IsPrefix
<1> QED BY <1>5, <1>6, <1>7

FilterResult == [out : Seq(Bytes), pending : Seq(Bytes), answers : Nat]

\* When s was shown and a answered before the filter gave f, all is well at place r.
Continues(t, r, s, a, f) == /\ f \in FilterResult /\ Withheld(t, r, f.pending)
                            /\ Good(t, s \o f.out, a + f.answers, r - Len(f.pending))

\* The filter is right from place i of the bytes b + 1 to r of the text on.
Works(t, b, r, i) ==
    \A s \in Seq(Bytes), a \in Nat :
        Good(t, s, a, b + i - 1) => Continues(t, r, s, a, Scan(SubSeq(t, b + 1, r))[i])

LEMMA Regroup ==
    \A s, x, y \in Seq(Bytes) : s \o (x \o y) = (s \o x) \o y
<1> SUFFICES ASSUME NEW s \in Seq(Bytes), NEW x \in Seq(Bytes), NEW y \in Seq(Bytes)
             PROVE  s \o (x \o y) = (s \o x) \o y
  OBVIOUS
<1> DEFINE S == Bytes
<1>1. s \in Seq(S) /\ x \in Seq(S) /\ y \in Seq(S)
  OBVIOUS
<1> HIDE DEF S
<1>2. (s \o x) \o y = s \o (x \o y)
  BY <1>1, ConcatAssociative
<1> QED BY <1>2

LEMMA ScanStepWorks ==
    ASSUME NEW t \in Seq(Bytes), NEW b \in 0 .. Len(t), NEW r \in b .. Len(t),
           NEW i \in 1 .. r - b + 1, \A j \in i + 1 .. r - b + 1 : Works(t, b, r, j)
    PROVE  Works(t, b, r, i)
<1> DEFINE data == SubSeq(t, b + 1, r)
           n == r - b
           m == b + i
           f == Scan(data)
<1>1. /\ b \in Nat /\ r \in Nat /\ n \in Nat /\ b <= r /\ r <= Len(t) /\ Len(t) \in Nat
      /\ i \in Nat /\ 1 <= i /\ i <= n + 1 /\ m \in Nat \ {0} /\ m - 1 = b + i - 1
  OBVIOUS
<1>2. /\ data \in Seq(Bytes) /\ Len(data) = n
      /\ \A j \in 1 .. n : data[j] = t[b + j]
  <2>1. CASE b = r
    <3>1. b + 1 \in Int /\ r \in Int /\ r < b + 1 /\ n = 0
      BY <1>1, <2>1
    <3>2. data = <<>>
      BY <3>1, SubSeqEmpty
    <3> HIDE DEF data, n
    <3>3. <<>> \in Seq(Bytes) /\ Len(<<>>) = 0 /\ 1 .. n = {}
      BY <3>1
    <3> QED BY <3>1, <3>2, <3>3
  <2>2. CASE b < r
    <3>1. b + 1 \in Nat \ {0} /\ r \in b + 1 .. Len(t) /\ r - (b + 1) + 1 = n
      BY <1>1, <2>2
    <3>2. /\ data \in Seq(Bytes) /\ Len(data) = r - (b + 1) + 1
          /\ \A j \in 1 .. r - (b + 1) + 1 : data[j] = t[b + 1 + j - 1]
      BY <3>1, PartOfText
    <3>3. \A j \in 1 .. n : b + 1 + j - 1 = b + j
      BY <1>1
    <3> HIDE DEF data
    <3> QED BY <3>1, <3>2, <3>3
  <2>3. b = r \/ b < r
    BY <1>1
  <2> HIDE DEF data, n
  <2> QED BY <2>1, <2>2, <2>3
<1>3. f[i] = ScanStep(data, f, i)
  <2>1. i \in 1 .. Len(data) + 1
    BY <1>1, <1>2
  <2> HIDE DEF data
  <2> QED BY <1>2, <2>1, ScanUnfolds
<1>4. SUFFICES ASSUME NEW s \in Seq(Bytes), NEW a \in Nat, Good(t, s, a, m - 1)
               PROVE  Continues(t, r, s, a, f[i])
  BY <1>1 DEF Works
<1>5. CASE i = n + 1
  <2>1. f[i] = [out |-> <<>>, pending |-> <<>>, answers |-> 0]
    BY <1>2, <1>3, <1>5 DEF ScanStep
  <2>2. f[i] \in FilterResult /\ f[i].out = <<>> /\ f[i].pending = <<>> /\ f[i].answers = 0
    <3>1. <<>> \in Seq(Bytes)
      OBVIOUS
    <3> HIDE DEF f
    <3> QED BY <2>1, <3>1 DEF FilterResult
  <2>3. m - 1 = r /\ s \o <<>> = s /\ a + 0 = a /\ Len(<<>>) = 0 /\ r - 0 = r
    BY <1>1, <1>5
  <2>4. Withheld(t, r, <<>>)
    BY <1>1, SubSeqEmpty DEF Withheld
  <2> QED BY <1>4, <2>2, <2>3, <2>4 DEF Continues
<1>6. CASE i <= n
  <2> DEFINE rest == SubSeq(data, i, n)
  <2>1. m \in Nat \ {0} /\ r \in m .. Len(t) /\ m <= Len(t)
    BY <1>1, <1>6
  <2>2. rest = SubSeq(t, m, r)
    <3>1. /\ SubSeq(t, m, r) \in Seq(Bytes) /\ Len(SubSeq(t, m, r)) = r - m + 1
          /\ \A j \in 1 .. r - m + 1 : SubSeq(t, m, r)[j] = t[m + j - 1]
      BY <2>1, PartOfText
    <3>2. \A j \in i .. n : data[j] \in Bytes
      <4>1. i .. n \subseteq 1 .. n
        BY <1>1
      <4> HIDE DEF data, n
      <4> QED BY <1>2, <4>1, ElementOfSeq
    <3>3. /\ rest \in Seq(Bytes) /\ Len(rest) = n - i + 1
          /\ \A j \in 1 .. n - i + 1 : rest[j] = data[i + j - 1]
      BY <1>1, <1>6, <3>2, SubSeqProperties
    <3>4. n - i + 1 = r - m + 1
      BY <1>1
    <3>5. ASSUME NEW j \in 1 .. n - i + 1
          PROVE  rest[j] = SubSeq(t, m, r)[j]
      <4>1. i + j - 1 \in 1 .. n /\ b + (i + j - 1) = m + j - 1
        BY <1>1
      <4> HIDE DEF data, rest, n, m
      <4> QED BY <1>2, <3>1, <3>3, <3>4, <3>5, <4>1
    <3> HIDE DEF rest
    <3> QED BY <3>1, <3>3, <3>4, <3>5, SeqEqual
  <2>3. /\ rest \in Seq(Bytes) /\ Len(rest) = r - m + 1
    <3>1. m \in Nat \ {0} /\ r \in m .. Len(t)
      BY <2>1
    <3> HIDE DEF rest, m
    <3>2. SubSeq(t, m, r) \in Seq(Bytes) /\ Len(SubSeq(t, m, r)) = r - m + 1
      BY <3>1, PartOfText
    <3> QED BY <2>2, <3>2
  <2>4. \A p \in {Query, Response} :
           /\ IsPrefix(p, rest) => Occurs(p, t, m) /\ m + Len(p) - 1 <= r
           /\ Occurs(p, t, m) => IsPrefix(p, rest) \/ IsPrefix(rest, p)
    BY <2>1, <2>2, PrefixMeansOccurs
  <2>5. /\ \A j \in i + 1 .. n + 1 : Works(t, b, r, j)
        /\ i # Len(data) + 1
    <3>1. \A j \in i + 1 .. n + 1 : Works(t, b, r, j)
      OBVIOUS
    <3>2. i # n + 1
      BY <1>1, <1>6
    <3> HIDE DEF data
    <3> QED BY <1>2, <3>1, <3>2
  <2>6. m - 1 \in 0 .. Len(t) /\ m - 1 + 1 = m
    BY <1>1, <2>1
  <2> HIDE DEF rest
  <2>7. CASE IsPrefix(Query, rest)
    <3> DEFINE g == f[i + 4]
    <3>1. f[i] = [g EXCEPT !.answers = @ + 1]
      BY <1>2, <1>3, <2>5, <2>7, LenOfMarks DEF ScanStep, rest
    <3>2. i + 4 \in i + 1 .. n + 1 /\ b + (i + 4) - 1 = m - 1 + 4
      <4>1. m + Len(Query) - 1 <= r
        BY <2>4, <2>7
      <4>2. m + 4 - 1 <= r
        BY <4>1, LenOfMarks
      <4> QED BY <1>1, <4>2
    <3>3. Good(t, s, a + 1, m - 1 + 4)
      BY <1>4, <2>4, <2>6, <2>7, SkipsQuery
    <3>4. Continues(t, r, s, a + 1, g)
      BY <2>5, <3>2, <3>3 DEF Works
    <3>5. /\ f[i] \in FilterResult /\ f[i].out = g.out /\ f[i].pending = g.pending
          /\ f[i].answers = g.answers + 1 /\ g.answers \in Nat
      <4> HIDE DEF g
      <4>1. g \in FilterResult
        BY <3>4 DEF Continues
      <4>2. g.answers \in Nat /\ g.answers + 1 \in Nat
        BY <4>1 DEF FilterResult
      <4> DEFINE v == g.answers + 1
      <4>3. f[i] = [g EXCEPT !.answers = v]
        BY <3>1
      <4>4. v \in Nat
        BY <4>2
      <4> HIDE DEF f, v
      <4>5. /\ f[i] \in FilterResult /\ f[i].out = g.out /\ f[i].pending = g.pending
            /\ f[i].answers = v
        BY <4>1, <4>3, <4>4 DEF FilterResult
      <4> QED BY <4>2, <4>5 DEF v
    <3>6. a + (g.answers + 1) = a + 1 + g.answers
      <4> DEFINE v == g.answers
      <4>1. v \in Nat /\ a \in Nat
        BY <3>5
      <4> HIDE DEF v
      <4>2. a + (v + 1) = a + 1 + v
        BY <4>1
      <4> QED BY <4>2 DEF v
    <3> HIDE DEF g
    <3> QED BY <3>4, <3>5, <3>6 DEF Continues
  <2>8. CASE ~IsPrefix(Query, rest) /\ IsPrefix(Response, rest)
    <3>1. f[i] = f[i + 6]
      BY <1>2, <1>3, <2>5, <2>8, LenOfMarks DEF ScanStep, rest
    <3>2. i + 6 \in i + 1 .. n + 1 /\ b + (i + 6) - 1 = m - 1 + 6
      <4>1. m + Len(Response) - 1 <= r
        BY <2>4, <2>8
      <4>2. m + 6 - 1 <= r
        BY <4>1, LenOfMarks
      <4> QED BY <1>1, <4>2
    <3>3. Good(t, s, a, m - 1 + 6)
      BY <1>4, <2>4, <2>6, <2>8, SkipsResponse
    <3> QED BY <2>5, <3>1, <3>2, <3>3 DEF Works
  <2>9. CASE /\ ~IsPrefix(Query, rest) /\ ~IsPrefix(Response, rest)
             /\ IsPrefix(rest, Query) \/ IsPrefix(rest, Response)
    <3>1. f[i] = [out |-> <<>>, pending |-> rest, answers |-> 0]
      BY <1>2, <1>3, <2>5, <2>9 DEF ScanStep, rest
    <3>2. f[i] \in FilterResult /\ f[i].out = <<>> /\ f[i].pending = rest /\ f[i].answers = 0
      <4>1. <<>> \in Seq(Bytes)
        OBVIOUS
      <4> HIDE DEF f
      <4> QED BY <2>3, <3>1, <4>1 DEF FilterResult
    <3>3. s \o <<>> = s /\ a + 0 = a /\ r - Len(rest) = m - 1 /\ r - Len(rest) + 1 = m
      BY <1>1, <2>1, <2>3
    <3>4. \E p \in {Query, Response} : IsStrictPrefix(rest, p)
      BY <2>9 DEF IsStrictPrefix
    <3>5. Withheld(t, r, rest)
      BY <1>1, <2>1, <2>2, <2>3, <3>3, <3>4 DEF Withheld
    <3> QED BY <1>4, <3>2, <3>3, <3>5 DEF Continues
  <2>10. CASE /\ ~IsPrefix(Query, rest) /\ ~IsPrefix(Response, rest)
              /\ ~IsPrefix(rest, Query) /\ ~IsPrefix(rest, Response)
    <3> DEFINE g == f[i + 1]
               x == <<data[i]>>
    <3>1. f[i] = [g EXCEPT !.out = x \o @]
      BY <1>2, <1>3, <2>5, <2>10 DEF ScanStep, rest
    <3>2. i + 1 \in i + 1 .. n + 1 /\ b + (i + 1) - 1 = m
      BY <1>1, <1>6
    <3>3. data[i] = t[m] /\ t[m] \in Bytes
      BY <1>1, <1>2, <1>6, <2>1, ElementOfSeq
    <3>4. x \in Seq(Bytes) /\ s \o x \in Seq(Bytes)
      <4>1. <<t[m]>> \in Seq(Bytes)
        BY <3>3
      <4>2. x = <<t[m]>>
        BY <3>3
      <4> HIDE DEF x, m, data
      <4> QED BY <4>1, <4>2
    <3>5. Good(t, s \o x, a, m)
      <4>1. ~Occurs(Query, t, m) /\ ~Occurs(Response, t, m)
        BY <2>4, <2>10
      <4>2. m - 1 < Len(t)
        BY <2>1
      <4> QED BY <1>4, <2>6, <3>3, <4>1, <4>2, ShowsByte
    <3>6. Continues(t, r, s \o x, a, g)
      BY <2>5, <3>2, <3>4, <3>5 DEF Works
    <3>7. g \in FilterResult
      BY <3>6 DEF Continues
    <3> HIDE DEF g, x
    <3>8. x \o g.out \in Seq(Bytes)
      BY <3>4, <3>7 DEF FilterResult
    <3>9. /\ f[i].out = x \o g.out /\ f[i].pending = g.pending
          /\ f[i].answers = g.answers /\ f[i] \in FilterResult
      BY <3>1, <3>7, <3>8 DEF FilterResult
    <3>10. s \o (x \o g.out) = (s \o x) \o g.out
      <4>1. g.out \in Seq(Bytes)
        BY <3>7 DEF FilterResult
      <4> DEFINE y == g.out
      <4> HIDE DEF y, data, n, m, f
      <4>2. s \in Seq(Bytes) /\ x \in Seq(Bytes) /\ y \in Seq(Bytes)
        BY <3>4, <4>1 DEF y
      <4>3. s \o (x \o y) = (s \o x) \o y
        BY <4>2, Regroup
      <4> QED BY <4>3 DEF y
    <3> QED BY <3>6, <3>9, <3>10 DEF Continues
  <2> QED BY <2>7, <2>8, <2>9, <2>10
<1> QED BY <1>1, <1>5, <1>6

\* One call of the filter, on the text from a good place b to r.
LEMMA FilterWorks ==
    ASSUME NEW t \in Seq(Bytes), NEW b \in 0 .. Len(t), NEW r \in b .. Len(t),
           NEW s \in Seq(Bytes), NEW a \in Nat, Good(t, s, a, b)
    PROVE  Continues(t, r, s, a, Scan(SubSeq(t, b + 1, r))[1])
<1> DEFINE n == r - b
           S == {k \in Nat : \A i \in 1 .. n + 1 : i >= n + 1 - k => Works(t, b, r, i)}
<1>0. b \in Nat /\ r \in Nat /\ n \in Nat
  OBVIOUS
<1>1. ASSUME NEW i \in 1 .. n + 1, \A j \in i + 1 .. n + 1 : Works(t, b, r, j)
      PROVE  Works(t, b, r, i)
  BY <1>1, ScanStepWorks
<1> HIDE DEF n
<1>2. 0 \in S
  <2>1. ASSUME NEW i \in 1 .. n + 1, i >= n + 1 - 0 PROVE Works(t, b, r, i)
    <3>1. i + 1 .. n + 1 = {}
      BY <1>0, <2>1
    <3> QED BY <1>1, <3>1
  <2> QED BY <2>1
<1>3. ASSUME NEW k \in Nat, k \in S PROVE k + 1 \in S
  <2>1. ASSUME NEW i \in 1 .. n + 1, i >= n + 1 - (k + 1) PROVE Works(t, b, r, i)
    <3>1. \A j \in i + 1 .. n + 1 : Works(t, b, r, j)
      <4>1. ASSUME NEW j \in i + 1 .. n + 1 PROVE j \in 1 .. n + 1 /\ j >= n + 1 - k
        BY <1>0, <2>1
      <4> QED BY <1>3, <4>1
    <3> QED BY <1>1, <3>1
  <2> QED BY <2>1
<1>4. n \in S
  <2> HIDE DEF S
  <2> QED BY <1>0, <1>2, <1>3, SetInduction
<1>5. Works(t, b, r, 1)
  <2>1. 1 \in 1 .. n + 1 /\ 1 >= n + 1 - n
    BY <1>0
  <2> QED BY <1>4, <2>1
<1>6. b + 1 - 1 = b
  BY <1>0
<1> QED BY <1>5, <1>6 DEF Works

\* What is withheld contains no query.
LEMMA QueriesAreAnswered ==
    ASSUME NEW t \in Seq(Bytes), NEW r \in 0 .. Len(t), NEW x \in Seq(Bytes), Withheld(t, r, x),
           Boundary(t, r - Len(x))
    PROVE  Queries(t, r) = Queries(t, r - Len(x))
<1> DEFINE l == Len(x)
           b == r - l
<1>1. r \in Nat /\ l \in Nat /\ b \in Nat /\ b + l = r /\ x \in Seq(Bytes) /\ b <= r
  BY DEF Withheld
<1>2. \A j \in 1 .. l : x[j] = t[b + j]
  <2>1. CASE l = 0
    BY <2>1
  <2>2. CASE l > 0
    <3>1. b + 1 \in Nat \ {0} /\ r \in b + 1 .. Len(t) /\ r - (b + 1) + 1 = l
      BY <1>1, <2>2
    <3>2. x = SubSeq(t, b + 1, r)
      BY DEF Withheld
    <3>3. \A j \in 1 .. r - (b + 1) + 1 : x[j] = t[b + 1 + j - 1]
      <4>1. \A j \in 1 .. r - (b + 1) + 1 : SubSeq(t, b + 1, r)[j] = t[b + 1 + j - 1]
        BY <3>1, PartOfText
      <4> HIDE DEF l, b
      <4> QED BY <3>2, <4>1
    <3>4. \A j \in 1 .. l : b + 1 + j - 1 = b + j
      BY <1>1
    <3> HIDE DEF l, b
    <3> QED BY <3>1, <3>3, <3>4
  <2>3. l = 0 \/ l > 0
    BY <1>1
  <2> QED BY <2>1, <2>2, <2>3
<1>3. /\ Queries(t, r) = {i \in 1 .. r : Occurs(Query, t, i) /\ i + 3 <= r}
      /\ Queries(t, b) = {i \in 1 .. b : Occurs(Query, t, i) /\ i + 3 <= b}
  BY LenOfMarks DEF Queries
<1>4. ASSUME NEW i \in 1 .. r, Occurs(Query, t, i), i + 3 <= r
      PROVE  i \in 1 .. b /\ i + 3 <= b
  <2>1. CASE i <= b
    <3>1. i + Len(Query) - 1 <= b
      BY <1>1, <1>4, <2>1 DEF Boundary
    <3> QED BY <1>1, <2>1, <3>1, LenOfMarks
  <2>2. CASE i > b
    <3> DEFINE k == i - b
    <3>1. k \in 1 .. l /\ k + 3 <= l /\ b + k = i /\ b + (k + 2) = i + 2 /\ k + 2 \in 1 .. l
      BY <1>1, <1>4, <2>2
    <3>2. t[i] = "ESC" /\ t[i + 2] = "6"
      <4>1. i \in Nat \ {0} /\ i + 4 - 1 = i + 3
        BY <1>1
      <4>2. i + 3 <= Len(t) /\ SubSeq(t, i, i + 3) = Query
        BY <1>4, <4>1, LenOfMarks DEF Occurs
      <4> QED BY <4>1, <4>2, QueryBytes
    <3>3. x[k] = "ESC" /\ x[k + 2] = "6"
      <4> HIDE DEF k, b, l
      <4>1. x[k] = t[b + k] /\ x[k + 2] = t[b + (k + 2)]
        BY <1>2, <3>1
      <4> QED BY <3>1, <3>2, <4>1
    <3>4. PICK p \in {Query, Response} : IsStrictPrefix(x, p)
      BY <1>1, <3>1 DEF Withheld
    <3>5. l <= Len(p) /\ \A j \in 1 .. l : x[j] = p[j]
      <4>1. l <= Len(p) /\ SubSeq(x, 1, l) = SubSeq(p, 1, l)
        BY <3>4 DEF IsStrictPrefix, IsPrefix
      <4>2. p \in Seq(MarkBytes)
        BY MarksAreSequences
      <4> HIDE DEF l
      <4>3. \A j \in 1 .. l : SubSeq(x, 1, l)[j] = x[j]
        BY <1>1, SubSeqFull DEF l
      <4>4. \A j \in 1 .. l : SubSeq(p, 1, l)[j] = p[j]
        <5>1. \A j \in 1 .. l : p[j] \in MarkBytes
          <6>1. 1 .. l \subseteq 1 .. Len(p)
            BY <1>1, <4>1, <4>2
          <6> QED BY <4>2, <6>1, ElementOfSeq
        <5>2. 1 \in Int /\ l \in Int /\ l - 1 + 1 = l /\ \A j \in 1 .. l : 1 + j - 1 = j
          BY <1>1
        <5> QED BY <5>1, <5>2, SubSeqProperties
      <4> QED BY <4>1, <4>3, <4>4
    <3>6. p[k] = "ESC" /\ p[k + 2] = "6"
      BY <3>1, <3>3, <3>5
    <3> HIDE DEF k, l
    <3>7. CASE p = Query
      <4>1. k \in 1 .. 1 /\ l <= 4
        <5>1. Query[2] # "ESC" /\ Query[3] # "ESC" /\ Query[4] # "ESC"
          BY DEF Query
        <5>2. l <= 4
          BY <3>5, <3>7, LenOfMarks
        <5> QED BY <1>1, <3>1, <3>6, <3>7, <5>1, <5>2
      <4>2. l = 4 /\ Len(x) = 4
        <5>1. k = 1 /\ k + 3 <= l
          BY <3>1, <4>1
        <5>2. l = 4
          BY <1>1, <4>1, <5>1
        <5> QED BY <5>2 DEF l
      <4>3. x = p
        <5>1. x \in Seq(MarkBytes) /\ p \in Seq(MarkBytes)
          BY <1>1, MarksAreSequences, SeqMonotonic DEF MarkBytes
        <5>2. Len(p) = 4 /\ \A j \in 1 .. 4 : x[j] = p[j]
          BY <3>5, <3>7, <4>2, LenOfMarks
        <5> QED BY <4>2, <5>1, <5>2, SeqEqual
      <4> QED BY <3>4, <4>3 DEF IsStrictPrefix
    <3>8. CASE p = Response
      <4>1. /\ Response[3] # "6" /\ Response[4] # "6" /\ Response[5] # "6"
            /\ Response[6] # "6"
        BY DEF Response
      <4>2. l <= 6
        BY <3>5, <3>8, LenOfMarks
      <4> DEFINE j == k + 2
      <4>3. j \in 3 .. 6
        <5>1. k \in Nat \ {0} /\ k + 3 <= l /\ l \in Nat
          BY <1>1, <3>1
        <5> QED BY <4>2, <5>1
      <4>4. p[j] = "6"
        BY <3>6
      <4> HIDE DEF j
      <4>5. j = 3 \/ j = 4 \/ j = 5 \/ j = 6
        BY <4>3
      <4> QED BY <3>8, <4>1, <4>4, <4>5
    <3> QED BY <3>7, <3>8
  <2> QED BY <1>1, <2>1, <2>2
<1>5. 1 .. b \subseteq 1 .. r
  BY <1>1
<1>6. \A i \in 1 .. b : i + 3 <= b => i + 3 <= r
  BY <1>1
<1> HIDE DEF b, l
<1> QED BY <1>3, <1>4, <1>5, <1>6 DEF b, l
=============================================================================
