---------------------------- MODULE SearchProofs ----------------------------
(***************************************************************************)
(* Proofs about searches, for any number of memories and keys, any limits  *)
(* and offsets, and any order the queries return their rows in.            *)
(***************************************************************************)
EXTENDS RouterSearch, FiniteSetTheorems, SequenceTheorems, TLAPS

\* A list without repetition.
Ranking(l) == l \in Seq(Memories) /\ Distinct(l)

LEMMA RankingsAreFunctions ==
  ASSUME NEW l, Ranking(l)
  PROVE  /\ Len(l) \in Nat /\ l \in [1..Len(l) -> Memories]
         /\ InList(l) \subseteq Memories
         /\ \A i \in 1..Len(l) : l[i] \in Memories /\ l[i] \in InList(l)
         /\ \A m \in InList(l) : \E i \in 1..Len(l) : l[i] = m
         /\ \A i, j \in 1..Len(l) : l[i] = l[j] => i = j
<1>1. Len(l) \in Nat /\ l \in [1..Len(l) -> Memories]
  BY LenProperties DEF Ranking
<1> QED
  BY <1>1 DEF Ranking, InList, Distinct

LEMMA EmptyIsARanking == Ranking(<<>>) /\ Len(<<>>) = 0 /\ InList(<<>>) = {}
<1>1. <<>> \in Seq(Memories) /\ Len(<<>>) = 0
  BY EmptySeq
<1>2. 1..0 = {}
  OBVIOUS
<1> QED
  BY <1>1, <1>2 DEF Ranking, Distinct, InList

LEMMA Interval == \A n \in Nat : IsFiniteSet(1..n) /\ Cardinality(1..n) = n
<1> SUFFICES ASSUME NEW n \in Nat
             PROVE  IsFiniteSet(1..n) /\ Cardinality(1..n) = n
  OBVIOUS
<1> QED
  BY FS_Interval

\* A ranking is as long as it has members.
LEMMA RankingsCount ==
  ASSUME NEW l, Ranking(l)
  PROVE  IsFiniteSet(InList(l)) /\ Cardinality(InList(l)) = Len(l)
<1>1. /\ Len(l) \in Nat /\ l \in [1..Len(l) -> Memories]
      /\ \A i \in 1..Len(l) : l[i] \in InList(l)
      /\ \A m \in InList(l) : \E i \in 1..Len(l) : l[i] = m
      /\ \A i, j \in 1..Len(l) : l[i] = l[j] => i = j
  BY RankingsAreFunctions
<1>2. l \in [1..Len(l) -> InList(l)]
  BY <1>1
<1>3. l \in Surjection(1..Len(l), InList(l)) /\ l \in Injection(1..Len(l), InList(l))
  BY <1>1, <1>2 DEF Surjection, Injection, IsInjective
<1>4. IsFiniteSet(1..Len(l)) /\ Cardinality(1..Len(l)) = Len(l)
  BY <1>1, Interval
<1>5. l \in Bijection(1..Len(l), InList(l))
  BY <1>3 DEF Bijection
<1>6. ExistsBijection(1..Len(l), InList(l))
  BY <1>5 DEF ExistsBijection
<1> QED
  BY <1>4, <1>6, FS_Bijection

\* The listings of a set of memories are the rankings of its members.
LEMMA ListingsAreRankings ==
  ASSUME NEW set \in SUBSET Memories, NEW l \in Listings(set)
  PROVE  Ranking(l) /\ InList(l) = set
<1> DEFINE n == Cardinality(set)
<1>1. IsFiniteSet(set)
  BY FS_Subset, HybridSearchAssumption
<1>2. n \in Nat
  BY <1>1, FS_CardinalityType
<1>3. l \in [1..n -> set] /\ InList(l) = set
  BY DEF Listings
<1>4. l \in Seq(set) /\ l \in Seq(Memories)
  BY <1>2, <1>3
<1>5. Len(l) = n
  BY <1>2, <1>3, <1>4
<1>6. \A m \in set : \E i \in 1..n : l[i] = m
  BY <1>3, <1>5 DEF InList
<1>7. l \in Surjection(1..n, set)
  BY <1>3, <1>6 DEF Surjection
<1>8. IsFiniteSet(1..n) /\ Cardinality(1..n) = n
  BY <1>2, Interval
<1>9. l \in Injection(1..n, set)
  BY <1>7, <1>8, FS_SurjSameCardinalityImpliesInj
<1>10. Distinct(l)
  BY <1>3, <1>5, <1>9 DEF Distinct, Injection, IsInjective
<1> QED
  BY <1>3, <1>4, <1>10 DEF Ranking

\* A part of a ranking is one.
LEMMA PartsAreRankings ==
  ASSUME NEW l, Ranking(l), NEW a \in Nat, NEW b \in Nat, b =< Len(l)
  PROVE  /\ Ranking(SubSeq(l, a + 1, b))
         /\ Len(SubSeq(l, a + 1, b)) = IF a < b THEN b - a ELSE 0
         /\ \A i \in 1..Len(SubSeq(l, a + 1, b)) :
              a + i \in 1..Len(l) /\ SubSeq(l, a + 1, b)[i] = l[a + i]
         /\ InList(SubSeq(l, a + 1, b)) \subseteq InList(l)
<1> DEFINE s == SubSeq(l, a + 1, b)
<1>1. /\ Len(l) \in Nat
      /\ \A i \in 1..Len(l) : l[i] \in Memories /\ l[i] \in InList(l)
      /\ \A i, j \in 1..Len(l) : l[i] = l[j] => i = j
  BY RankingsAreFunctions
<1>2. \A i \in (a + 1)..b : l[i] \in Memories
  BY <1>1
<1>3. /\ s \in Seq(Memories)
      /\ Len(s) = IF a + 1 =< b THEN b - (a + 1) + 1 ELSE 0
      /\ \A i \in 1..(b - (a + 1) + 1) : s[i] = l[(a + 1) + i - 1]
  BY <1>2, SubSeqProperties
<1> HIDE DEF s
<1>4. Len(s) = IF a < b THEN b - a ELSE 0
  BY <1>3
<1>5. \A i \in 1..Len(s) : a + i \in 1..Len(l) /\ s[i] = l[a + i]
  <2> SUFFICES ASSUME NEW i \in 1..Len(s)
               PROVE  a + i \in 1..Len(l) /\ s[i] = l[a + i]
    OBVIOUS
  <2>1. a < b /\ i \in 1..(b - a)
    BY <1>4
  <2>2. s[i] = l[(a + 1) + i - 1]
    BY <1>3, <2>1
  <2>3. (a + 1) + i - 1 = a + i
    BY <2>1
  <2> QED
    BY <1>1, <2>1, <2>2, <2>3
<1>6. Distinct(s)
  <2> SUFFICES ASSUME NEW i \in 1..Len(s), NEW j \in 1..Len(s), s[i] = s[j]
               PROVE  i = j
    BY DEF Distinct
  <2>1. a + i = a + j
    BY <1>1, <1>5
  <2>2. i \in Int /\ j \in Int
    BY <1>4
  <2> QED
    BY <2>1, <2>2
<1>7. InList(s) \subseteq InList(l)
  BY <1>1, <1>5 DEF InList
<1> QED
  BY <1>3, <1>4, <1>5, <1>6, <1>7 DEF Ranking, s

\* In particular its first members.
LEMMA StartsAreRankings ==
  ASSUME NEW l, Ranking(l), NEW b \in Nat, b =< Len(l)
  PROVE  /\ Ranking(SubSeq(l, 1, b)) /\ Len(SubSeq(l, 1, b)) = b
         /\ \A i \in 1..b : SubSeq(l, 1, b)[i] = l[i]
         /\ InList(SubSeq(l, 1, b)) \subseteq InList(l)
<1>1. ASSUME NEW z, z = 0
      PROVE  /\ Ranking(SubSeq(l, z + 1, b)) /\ Len(SubSeq(l, z + 1, b)) = b
             /\ \A i \in 1..b : SubSeq(l, z + 1, b)[i] = l[z + i]
             /\ InList(SubSeq(l, z + 1, b)) \subseteq InList(l)
  <2>1. z \in Nat
    BY <1>1
  <2>2. /\ Ranking(SubSeq(l, z + 1, b))
        /\ Len(SubSeq(l, z + 1, b)) = IF z < b THEN b - z ELSE 0
        /\ \A i \in 1..Len(SubSeq(l, z + 1, b)) :
             z + i \in 1..Len(l) /\ SubSeq(l, z + 1, b)[i] = l[z + i]
        /\ InList(SubSeq(l, z + 1, b)) \subseteq InList(l)
    BY <2>1, PartsAreRankings
  <2>3. Len(SubSeq(l, z + 1, b)) = IF z < b THEN b - z ELSE 0
    BY <2>2
  <2>4. Len(SubSeq(l, z + 1, b)) = b
    BY <1>1, <2>3
  <2> QED
    BY ONLY <2>2, <2>4
<1>2. 0 + 1 = 1 /\ \A i \in 1..b : 0 + i = i
  OBVIOUS
<1>3. /\ Ranking(SubSeq(l, 0 + 1, b)) /\ Len(SubSeq(l, 0 + 1, b)) = b
      /\ \A i \in 1..b : SubSeq(l, 0 + 1, b)[i] = l[0 + i]
      /\ InList(SubSeq(l, 0 + 1, b)) \subseteq InList(l)
  BY <1>1
<1> QED
  BY <1>2, <1>3

LEMMA Ranks ==
  ASSUME NEW l, Ranking(l)
  PROVE  /\ \A i \in 1..Len(l) : Rank(l, l[i]) = i
         /\ \A m : Rank(l, m) \in 0..Len(l)
         /\ \A m : m \in InList(l) <=> Rank(l, m) # 0
         /\ \A m : Rank(l, m) # 0 => l[Rank(l, m)] = m
<1>1. /\ Len(l) \in Nat
      /\ \A i, j \in 1..Len(l) : l[i] = l[j] => i = j
  BY RankingsAreFunctions
<1>2. ASSUME NEW m, \E i \in 1..Len(l) : l[i] = m
      PROVE  Rank(l, m) \in 1..Len(l) /\ l[Rank(l, m)] = m
  BY <1>2 DEF Rank
<1>3. ASSUME NEW m, ~ \E i \in 1..Len(l) : l[i] = m
      PROVE  Rank(l, m) = 0
  BY <1>3 DEF Rank
<1>4. ASSUME NEW i \in 1..Len(l)
      PROVE  Rank(l, l[i]) = i
  BY <1>1, <1>2
<1>5. ASSUME NEW m
      PROVE  /\ Rank(l, m) \in 0..Len(l)
             /\ m \in InList(l) <=> Rank(l, m) # 0
             /\ Rank(l, m) # 0 => l[Rank(l, m)] = m
  <2>1. m \in InList(l) <=> \E i \in 1..Len(l) : l[i] = m
    BY DEF InList
  <2>2. CASE m \in InList(l)
    BY <1>1, <1>2, <2>1, <2>2
  <2>3. CASE m \notin InList(l)
    BY <1>1, <1>3, <2>1, <2>3
  <2> QED
    BY <2>2, <2>3
<1> QED
  BY <1>4, <1>5

-----------------------------------------------------------------------------
(* Scores.                                                                 *)

LEMMA Products ==
  /\ \A x, y, z \in Nat : x =< y => x * z =< y * z
  /\ \A x, y, z \in Nat : x < y /\ z > 0 => x * z < y * z
  /\ \A x, y \in Nat : x * y \in Nat /\ x * y = y * x
<1>1. ASSUME NEW x \in Nat, NEW y \in Nat, NEW z \in Nat, x =< y
      PROVE  x * z =< y * z
  BY <1>1, SMTT(30)
<1>2. ASSUME NEW x \in Nat, NEW y \in Nat, NEW z \in Nat, x < y, z > 0
      PROVE  x * z < y * z
  BY <1>2, SMTT(30)
<1>3. \A x, y \in Nat : x * y \in Nat /\ x * y = y * x
  BY SMTT(30)
<1> QED
  BY <1>1, <1>2, <1>3

\* 1/a + 1/b against 1/c + 1/d, and against a single reciprocal.
LEMMA SumsOfReciprocals ==
  ASSUME NEW a \in Nat, NEW b \in Nat, NEW c \in Nat, NEW d \in Nat,
         a > 0, b > 0, a =< c, b =< d, a < c \/ b < d
  PROVE  (b + a) * (c * d) > (d + c) * (a * b)
<1>1. (b + a) * (c * d) = (b * d) * c + (a * c) * d
  BY SMTT(30)
<1>2. (d + c) * (a * b) = (b * d) * a + (a * c) * b
  BY SMTT(30)
<1>3. b * d \in Nat /\ b * d > 0 /\ a * c \in Nat /\ a * c > 0
  BY Products
<1>4. (b * d) * a =< (b * d) * c /\ (a * c) * b =< (a * c) * d
  BY <1>3, Products
<1>5. (b * d) * a < (b * d) * c \/ (a * c) * b < (a * c) * d
  BY <1>3, Products
<1>6. /\ (b * d) * a \in Nat /\ (b * d) * c \in Nat
      /\ (a * c) * b \in Nat /\ (a * c) * d \in Nat
  BY <1>3, Products
<1> QED
  BY <1>1, <1>2, <1>4, <1>5, <1>6

LEMMA SumsBeatParts ==
  ASSUME NEW a \in Nat, NEW b \in Nat, NEW c \in Nat, a > 0, b > 0, a =< c
  PROVE  (b + a) * c > 1 * (a * b)
<1>1. (b + a) * c = b * c + a * c
  BY SMTT(30)
<1>2. a * b =< c * b /\ a * c > 0
  BY Products
<1>3. c * b = b * c /\ b * c \in Nat /\ a * c \in Nat /\ a * b \in Nat
  BY Products
<1> QED
  BY <1>1, <1>2, <1>3

\* Two reciprocals of at most 121 are more than one of at least 61.
LEMMA TwoBeatOne ==
  ASSUME NEW a \in 61..121, NEW b \in 61..121, NEW c \in Nat, c >= 61
  PROVE  (b + a) * c > 1 * (a * b)
<1>1. a * b =< 121 * b /\ b * a =< 121 * a
  BY Products
<1>2. a * b \in Nat /\ b * a = a * b
  BY Products
<1>3. 61 * (b + a) =< c * (b + a) /\ c * (b + a) = (b + a) * c /\ (b + a) * c \in Nat
  BY Products
<1> QED
  BY <1>1, <1>2, <1>3

LEMMA ScoresAre ==
  ASSUME NEW a \in Nat, NEW b \in Nat
  PROVE  /\ a = 0 => Score(a, b) = [num |-> 1, den |-> 60 + b]
         /\ a # 0 /\ b = 0 => Score(a, b) = [num |-> 1, den |-> 60 + a]
         /\ a # 0 /\ b # 0 =>
              Score(a, b) = [num |-> (60 + b) + (60 + a), den |-> (60 + a) * (60 + b)]
<1>1. 1 * (60 + b) + 1 * (60 + a) = (60 + b) + (60 + a)
  OBVIOUS
<1> QED
  BY <1>1 DEF Score, Reciprocal, Plus, K

\* A rank ahead in one list and not behind in the other makes a higher score.
LEMMA AheadIsHigher ==
  ASSUME NEW a \in Nat, NEW b \in Nat, NEW c \in Nat, NEW d \in Nat,
         c # 0 \/ d # 0,
         (a # 0 /\ (c = 0 \/ a < c)) \/ a = c,
         (b # 0 /\ (d = 0 \/ b < d)) \/ b = d,
         a # c \/ b # d
  PROVE  Higher(Score(a, b), Score(c, d))
<1>1. CASE a = 0
  <2>1. c = 0 /\ b # 0 /\ d # 0 /\ b < d
    BY <1>1
  <2>2. Score(a, b) = [num |-> 1, den |-> 60 + b] /\ Score(c, d) = [num |-> 1, den |-> 60 + d]
    BY <1>1, <2>1, ScoresAre
  <2> QED
    BY <2>1, <2>2 DEF Higher
<1>2. CASE a # 0 /\ b = 0
  <2>1. d = 0 /\ c # 0 /\ a < c
    BY <1>2
  <2>2. Score(a, b) = [num |-> 1, den |-> 60 + a] /\ Score(c, d) = [num |-> 1, den |-> 60 + c]
    BY <1>2, <2>1, ScoresAre
  <2> QED
    BY <2>1, <2>2 DEF Higher
<1>3. CASE a # 0 /\ b # 0
  <2>0. Score(a, b) = [num |-> (60 + b) + (60 + a), den |-> (60 + a) * (60 + b)]
    BY <1>3, ScoresAre
  <2>1. CASE c = 0
    <3>1. d # 0 /\ b =< d
      BY <1>3, <2>1
    <3>2. Score(c, d) = [num |-> 1, den |-> 60 + d]
      BY <2>1, ScoresAre
    <3>3. ((60 + a) + (60 + b)) * (60 + d) > 1 * ((60 + b) * (60 + a))
      BY <3>1, SumsBeatParts
    <3>4. (60 + b) * (60 + a) = (60 + a) * (60 + b) /\ (60 + a) + (60 + b) = (60 + b) + (60 + a)
      BY Products
    <3> QED
      BY <2>0, <3>2, <3>3, <3>4 DEF Higher
  <2>2. CASE c # 0 /\ d = 0
    <3>1. a =< c
      BY <1>3, <2>2
    <3>2. Score(c, d) = [num |-> 1, den |-> 60 + c]
      BY <2>2, ScoresAre
    <3>3. ((60 + b) + (60 + a)) * (60 + c) > 1 * ((60 + a) * (60 + b))
      BY <3>1, SumsBeatParts
    <3> QED
      BY <2>0, <3>2, <3>3 DEF Higher
  <2>3. CASE c # 0 /\ d # 0
    <3>1. a =< c /\ b =< d /\ (a < c \/ b < d)
      BY <1>3, <2>3
    <3>2. Score(c, d) = [num |-> (60 + d) + (60 + c), den |-> (60 + c) * (60 + d)]
      BY <2>3, ScoresAre
    <3>3. ((60 + b) + (60 + a)) * ((60 + c) * (60 + d)) > ((60 + d) + (60 + c)) * ((60 + a) * (60 + b))
      <4>1. /\ 60 + a \in Nat /\ 60 + b \in Nat /\ 60 + c \in Nat /\ 60 + d \in Nat
            /\ 60 + a > 0 /\ 60 + b > 0 /\ 60 + a =< 60 + c /\ 60 + b =< 60 + d
            /\ 60 + a < 60 + c \/ 60 + b < 60 + d
        BY <3>1
      <4> QED
        BY <4>1, SumsOfReciprocals
    <3> QED
      BY <2>0, <3>2, <3>3 DEF Higher
  <2> QED
    BY <2>1, <2>2, <2>3
<1> QED
  BY <1>1, <1>2, <1>3

\* Being found twice, among the first 61 of each list, beats any single rank.
LEMMA BothAreHigher ==
  ASSUME NEW a \in 1..61, NEW b \in 1..61, NEW c \in Nat, NEW d \in Nat,
         c = 0 \/ d = 0, c # 0 \/ d # 0
  PROVE  Higher(Score(a, b), Score(c, d))
<1>a. a \in Nat /\ b \in Nat /\ a # 0 /\ b # 0
  OBVIOUS
<1>0. Score(a, b) = [num |-> (60 + b) + (60 + a), den |-> (60 + a) * (60 + b)]
  BY <1>a, ScoresAre
<1>1. PICK e \in Nat : e >= 61 /\ Score(c, d) = [num |-> 1, den |-> e]
  <2>1. CASE c = 0
    <3>1. Score(c, d) = [num |-> 1, den |-> 60 + d] /\ 60 + d >= 61 /\ 60 + d \in Nat
      BY <2>1, ScoresAre
    <3> QED
      BY <3>1
  <2>2. CASE c # 0
    <3>1. Score(c, d) = [num |-> 1, den |-> 60 + c] /\ 60 + c >= 61 /\ 60 + c \in Nat
      BY <2>2, ScoresAre
    <3> QED
      BY <3>1
  <2> QED
    BY <2>1, <2>2
<1>2. ((60 + b) + (60 + a)) * e > 1 * ((60 + a) * (60 + b))
  <2>1. 60 + a \in 61..121 /\ 60 + b \in 61..121
    OBVIOUS
  <2> QED
    BY <1>1, <2>1, TwoBeatOne
<1> QED
  BY <1>0, <1>1, <1>2 DEF Higher

-----------------------------------------------------------------------------
(* Fusion, filter and page.                                                *)

Lower(s, k, x, y) == ~Higher(RRFScore(s, k, y), RRFScore(s, k, x))

\* What the fusion returns: the memories of both lists, none ahead of a higher one.
LEMMA FusionsAreRankings ==
  ASSUME NEW s, Ranking(s), NEW k, Ranking(k), NEW l \in ReciprocalRankFusion(s, k)
  PROVE  /\ Ranking(l) /\ InList(l) = InList(s) \cup InList(k)
         /\ \A i, j \in 1..Len(l) : i < j => Lower(s, k, l[i], l[j])
<1>1. /\ l \in Listings(InList(s) \cup InList(k))
      /\ \A i, j \in 1..Len(l) : i < j => ~Higher(RRFScore(s, k, l[j]), RRFScore(s, k, l[i]))
  BY DEF ReciprocalRankFusion
<1>2. InList(s) \cup InList(k) \in SUBSET Memories
  BY RankingsAreFunctions
<1> QED
  BY <1>1, <1>2, ListingsAreRankings DEF Lower

LEMMA FusionsAgree ==
  ASSUME NEW s, Ranking(s), NEW k, Ranking(k), NEW l \in ReciprocalRankFusion(s, k),
         NEW i \in 1..Len(l), NEW j \in 1..Len(l), l[i] # l[j],
         NotBehind(s, l[i], l[j]), NotBehind(k, l[i], l[j])
  PROVE  i < j
<1> DEFINE x == l[i]
           y == l[j]
           a == Rank(s, x)
           b == Rank(k, x)
           c == Rank(s, y)
           d == Rank(k, y)
<1>1. /\ Ranking(l) /\ InList(l) = InList(s) \cup InList(k)
      /\ \A p, q \in 1..Len(l) : p < q => Lower(s, k, l[p], l[q])
  BY FusionsAreRankings
<1>2. Len(l) \in Nat /\ x \in InList(l) /\ y \in InList(l)
  BY <1>1, RankingsAreFunctions
<1>3. a \in Nat /\ b \in Nat /\ c \in Nat /\ d \in Nat
  BY Ranks, RankingsAreFunctions
<1>4. (a # 0 \/ b # 0) /\ (c # 0 \/ d # 0)
  BY <1>1, <1>2, Ranks
<1>5. a # c \/ b # d
  <2>1. a # 0 => s[a] = x
    BY Ranks
  <2>2. b # 0 => k[b] = x
    BY Ranks
  <2>3. c # 0 => s[c] = y
    BY Ranks
  <2>4. d # 0 => k[d] = y
    BY Ranks
  <2> QED
    BY <1>4, <2>1, <2>2, <2>3, <2>4
<1>6. /\ (a # 0 /\ (c = 0 \/ a < c)) \/ a = c
      /\ (b # 0 /\ (d = 0 \/ b < d)) \/ b = d
  BY DEF NotBehind, Ahead
<1>7. Higher(Score(a, b), Score(c, d))
  <2> HIDE DEF a, b, c, d
  <2> QED
    BY <1>3, <1>4, <1>5, <1>6, AheadIsHigher
<1>8. ~Lower(s, k, y, x)
  BY <1>7 DEF Lower, RRFScore
<1>9. ~(j < i) /\ i # j
  BY <1>1, <1>8
<1> QED
  BY <1>2, <1>9

LEMMA FusionsPreferBoth ==
  ASSUME NEW s, Ranking(s), NEW k, Ranking(k),
         NEW l \in ReciprocalRankFusion(s, k), NEW i \in 1..Len(l), NEW j \in 1..Len(l),
         l[i] \in InList(s) \cap InList(k), l[j] \notin InList(s) \cap InList(k),
         Rank(s, l[i]) =< K + 1, Rank(k, l[i]) =< K + 1
  PROVE  i < j
<1> DEFINE x == l[i]
           y == l[j]
           a == Rank(s, x)
           b == Rank(k, x)
           c == Rank(s, y)
           d == Rank(k, y)
<1>1. /\ Ranking(l) /\ InList(l) = InList(s) \cup InList(k)
      /\ \A p, q \in 1..Len(l) : p < q => Lower(s, k, l[p], l[q])
  BY FusionsAreRankings
<1>2. Len(l) \in Nat /\ x \in InList(l) /\ y \in InList(l)
  BY <1>1, RankingsAreFunctions
<1>3. a \in 0..Len(s) /\ b \in 0..Len(k) /\ c \in 0..Len(s) /\ d \in 0..Len(k)
  BY Ranks
<1>4. Len(s) \in Nat /\ Len(k) \in Nat
  BY RankingsAreFunctions
<1>5. a # 0 /\ b # 0 /\ (c = 0 \/ d = 0) /\ (c # 0 \/ d # 0)
  BY <1>1, <1>2, Ranks
<1>6. a =< 61 /\ b =< 61
  BY DEF K
<1>7. Higher(Score(a, b), Score(c, d))
  <2>1. a \in 1..61 /\ b \in 1..61 /\ c \in Nat /\ d \in Nat
    <3> HIDE DEF a, b, c, d
    <3> QED
      BY <1>3, <1>4, <1>5, <1>6
  <2> HIDE DEF a, b, c, d
  <2> QED
    BY <1>5, <2>1, BothAreHigher
<1>8. ~Lower(s, k, y, x)
  BY <1>7 DEF Lower, RRFScore
<1>9. ~(j < i) /\ i # j
  BY <1>1, <1>8
<1> QED
  BY <1>2, <1>9

Passed(l, kept) == {i \in 1..Len(l) : l[i] \in kept}
UpTo(l, kept, i) == {j \in Passed(l, kept) : j =< i}
Nth(l, kept, n) == CHOOSE i \in Passed(l, kept) : Cardinality(UpTo(l, kept, i)) = n

\* The position of what comes nth exists, and the positions rise.
LEMMA PositionsExist ==
  ASSUME NEW l, Ranking(l), NEW kept
  PROVE  LET passed == Passed(l, kept)
             total == Cardinality(passed)
         IN /\ total \in 0..Len(l)
            /\ \A n \in 1..total : Nth(l, kept, n) \in passed
            /\ \A i \in passed : \E n \in 1..total : Nth(l, kept, n) = i
            /\ \A n, m \in 1..total : n < m => Nth(l, kept, n) < Nth(l, kept, m)
<1> DEFINE passed == Passed(l, kept)
           total == Cardinality(passed)
           upto(i) == UpTo(l, kept, i)
           count == [i \in passed |-> Cardinality(upto(i))]
<1>1. Len(l) \in Nat /\ passed \in SUBSET (1..Len(l))
  BY RankingsAreFunctions DEF Passed
<1>2. IsFiniteSet(1..Len(l)) /\ Cardinality(1..Len(l)) = Len(l)
  BY <1>1, Interval
<1>3. IsFiniteSet(passed) /\ total \in Nat /\ total =< Len(l)
  <2>1. IsFiniteSet(passed) /\ total =< Len(l)
    BY <1>1, <1>2, FS_Subset
  <2> QED
    BY <2>1, FS_CardinalityType
<1> HIDE DEF total
<1>4. ASSUME NEW i
      PROVE  /\ upto(i) \in SUBSET passed /\ IsFiniteSet(upto(i))
             /\ Cardinality(upto(i)) \in Nat /\ Cardinality(upto(i)) =< total
  <2>1. upto(i) \in SUBSET passed
    BY DEF UpTo
  <2> HIDE DEF passed, upto
  <2>2. IsFiniteSet(upto(i)) /\ Cardinality(upto(i)) =< total
    BY <1>3, <2>1, FS_Subset DEF total
  <2> QED
    BY <2>1, <2>2, FS_CardinalityType
<1>5. ASSUME NEW i \in passed
      PROVE  Cardinality(upto(i)) \in 1..total
  <2>1. i \in upto(i)
    BY <1>1 DEF UpTo
  <2>2. Cardinality(upto(i)) # 0
    <3> HIDE DEF upto
    <3> QED
      BY <1>4, <2>1, FS_EmptySet
  <2> QED
    BY <1>3, <1>4, <2>2
<1>6. ASSUME NEW i \in passed, NEW j \in passed, i < j
      PROVE  Cardinality(upto(i)) < Cardinality(upto(j))
  <2>1. upto(i) \in SUBSET upto(j) /\ j \in upto(j) /\ j \notin upto(i)
    BY <1>1, <1>6 DEF UpTo
  <2>2. IsFiniteSet(upto(j)) /\ Cardinality(upto(i)) \in Nat /\ Cardinality(upto(j)) \in Nat
    BY <1>4
  <2> HIDE DEF upto
  <2>3. Cardinality(upto(i)) =< Cardinality(upto(j)) /\ Cardinality(upto(i)) # Cardinality(upto(j))
    BY <2>1, <2>2, FS_Subset
  <2> QED
    BY <2>2, <2>3
<1>7. \A i \in passed : i \in Nat
  BY <1>1
<1>8. count \in Injection(passed, 1..total)
  <2>1. count \in [passed -> 1..total]
    BY <1>5
  <2>2. \A i, j \in passed : count[i] = count[j] => i = j
    <3> SUFFICES ASSUME NEW i \in passed, NEW j \in passed, count[i] = count[j]
                 PROVE  i = j
      OBVIOUS
    <3>1. ~(i < j) /\ ~(j < i)
      BY <1>4, <1>6
    <3> QED
      BY <1>7, <3>1
  <2> HIDE DEF count
  <2> QED
    BY <2>1, <2>2 DEF Injection, IsInjective
<1>9. count \in Surjection(passed, 1..total)
  <2>1. IsFiniteSet(1..total) /\ Cardinality(1..total) = total
    BY <1>3, Interval
  <2> HIDE DEF count, passed
  <2> QED
    BY <1>8, <2>1, FS_Injection DEF total
<1>10. \A n \in 1..total : \E i \in passed : Cardinality(upto(i)) = n
  BY <1>9 DEF Surjection
<1>11. ASSUME NEW n \in 1..total
       PROVE  Nth(l, kept, n) \in passed /\ Cardinality(upto(Nth(l, kept, n))) = n
  BY <1>10 DEF Nth
<1>12. ASSUME NEW n \in 1..total, NEW m \in 1..total, n < m
       PROVE  Nth(l, kept, n) < Nth(l, kept, m)
  <2> DEFINE i == Nth(l, kept, n)
             j == Nth(l, kept, m)
  <2>1. i \in passed /\ j \in passed /\ Cardinality(upto(i)) = n /\ Cardinality(upto(j)) = m
    BY <1>11
  <2> HIDE DEF i, j
  <2>2. ~(j < i) /\ i # j
    BY <1>3, <1>6, <1>12, <2>1
  <2>3. i < j
    BY <1>7, <2>1, <2>2
  <2> QED
    BY <2>3 DEF i, j
<1>13. ASSUME NEW i \in passed
       PROVE  \E n \in 1..total : Nth(l, kept, n) = i
  <2> DEFINE n == Cardinality(upto(i))
             j == Nth(l, kept, n)
  <2>1. n \in 1..total
    BY <1>5
  <2>2. j \in passed /\ Cardinality(upto(j)) = n
    BY <1>11, <2>1
  <2>3. ~(i < j) /\ ~(j < i)
    BY <1>4, <1>6, <2>2
  <2>4. i = j
    BY <1>7, <2>2, <2>3
  <2> QED
    BY <2>1, <2>4
<1> QED
  BY <1>1, <1>3, <1>11, <1>12, <1>13 DEF total

\* Filtering keeps what passes, in its order.
LEMMA FiltersKeepOrder ==
  ASSUME NEW l, Ranking(l), NEW kept
  PROVE  /\ Ranking(Filter(l, kept)) /\ Len(Filter(l, kept)) =< Len(l)
         /\ InList(Filter(l, kept)) = InList(l) \cap kept
         /\ \A n, m \in 1..Len(Filter(l, kept)) : n < m =>
              \E i, j \in 1..Len(l) :
                i < j /\ Filter(l, kept)[n] = l[i] /\ Filter(l, kept)[m] = l[j]
<1> DEFINE passed == Passed(l, kept)
           total == Cardinality(passed)
           nth(n) == Nth(l, kept, n)
           f == Filter(l, kept)
<1>1. f = [n \in 1..total |-> l[nth(n)]]
  BY DEF Filter, Passed, Nth, UpTo
<1>2. /\ total \in 0..Len(l)
      /\ \A n \in 1..total : nth(n) \in passed
      /\ \A i \in passed : \E n \in 1..total : nth(n) = i
      /\ \A n, m \in 1..total : n < m => nth(n) < nth(m)
  BY PositionsExist
<1>3. /\ Len(l) \in Nat
      /\ \A i \in 1..Len(l) : l[i] \in Memories /\ l[i] \in InList(l)
      /\ \A m \in InList(l) : \E i \in 1..Len(l) : l[i] = m
      /\ \A i, j \in 1..Len(l) : l[i] = l[j] => i = j
  BY RankingsAreFunctions
<1>4. /\ \A i \in passed : i \in 1..Len(l) /\ l[i] \in kept
      /\ \A i \in 1..Len(l) : l[i] \in kept => i \in passed
  BY DEF Passed
<1> HIDE DEF f, total, nth, passed
<1>5. total \in Nat
  BY <1>2, <1>3
<1>6. f \in [1..total -> Memories] /\ \A n \in 1..total : f[n] = l[nth(n)]
  BY <1>1, <1>2, <1>3, <1>4
<1>7. f \in Seq(Memories) /\ Len(f) = total
  BY <1>5, <1>6
<1>8. ASSUME NEW n \in 1..total, NEW m \in 1..total, n < m
      PROVE  \E i, j \in 1..Len(l) : i < j /\ f[n] = l[i] /\ f[m] = l[j]
  BY <1>2, <1>4, <1>6, <1>8
<1>9. Distinct(f)
  <2> SUFFICES ASSUME NEW n \in 1..total, NEW m \in 1..total, f[n] = f[m]
               PROVE  n = m
    BY <1>7 DEF Distinct
  <2>1. ~(n < m)
    <3> SUFFICES ASSUME n < m
                 PROVE  FALSE
      OBVIOUS
    <3>1. PICK i \in 1..Len(l), j \in 1..Len(l) : i < j /\ f[n] = l[i] /\ f[m] = l[j]
      BY <1>8
    <3>2. l[i] = l[j]
      BY <3>1
    <3>3. i = j
      BY <1>3, <3>2
    <3> QED
      BY <1>3, <3>1, <3>3
  <2>2. ~(m < n)
    <3> SUFFICES ASSUME m < n
                 PROVE  FALSE
      OBVIOUS
    <3>1. PICK i \in 1..Len(l), j \in 1..Len(l) : i < j /\ f[m] = l[i] /\ f[n] = l[j]
      BY <1>8
    <3>2. l[i] = l[j]
      BY <3>1
    <3>3. i = j
      BY <1>3, <3>2
    <3> QED
      BY <1>3, <3>1, <3>3
  <2> QED
    BY <1>5, <2>1, <2>2
<1>10. InList(f) = InList(l) \cap kept
  <2>1. InList(f) = {f[n] : n \in 1..total}
    BY <1>7 DEF InList
  <2>2. ASSUME NEW n \in 1..total
        PROVE  f[n] \in InList(l) \cap kept
    BY <1>2, <1>3, <1>4, <1>6
  <2>3. ASSUME NEW m \in InList(l) \cap kept
        PROVE  \E n \in 1..total : f[n] = m
    <3>1. PICK i \in 1..Len(l) : l[i] = m
      BY <1>3
    <3>2. i \in passed
      BY <1>4, <3>1
    <3>3. PICK n \in 1..total : nth(n) = i
      BY <1>2, <3>2
    <3> QED
      BY <1>6, <3>1, <3>3
  <2> QED
    BY <2>1, <2>2, <2>3
<1>11. Len(f) =< Len(l)
  BY <1>2, <1>3, <1>7
<1> QED
  BY <1>7, <1>8, <1>9, <1>10, <1>11 DEF Ranking, f

LEMMA PagesAreWindows ==
  ASSUME NEW f, Ranking(f), NEW offset \in Nat, NEW limit \in Nat
  PROVE  /\ Ranking(Page(f, offset, limit)) /\ InList(Page(f, offset, limit)) \subseteq InList(f)
         /\ Len(Page(f, offset, limit)) =
              (IF offset >= Len(f) THEN 0 ELSE AtMost(limit, Len(f) - offset))
         /\ \A i \in 1..Len(Page(f, offset, limit)) :
              offset + i \in 1..Len(f) /\ Page(f, offset, limit)[i] = f[offset + i]
<1> DEFINE total == Len(f)
           end == AtMost(offset + limit, total)
           start == IF offset > total THEN total ELSE offset
<1>1. total \in Nat
  BY RankingsAreFunctions
<1>2. Page(f, offset, limit) = SubSeq(f, start + 1, end)
  BY DEF Page
<1>3. start \in Nat /\ end \in Nat /\ end =< total
  BY <1>1 DEF AtMost
<1>4. start < end => start = offset
  BY <1>1 DEF AtMost
<1>5. (IF start < end THEN end - start ELSE 0)
        = (IF offset >= total THEN 0 ELSE AtMost(limit, total - offset))
  <2>1. CASE offset >= total
    <3>1. start = total
      BY <1>1, <2>1
    <3>2. ~(start < end)
      BY <1>1, <1>3, <3>1
    <3> QED
      BY <2>1, <3>2
  <2>2. CASE offset < total /\ offset + limit < total
    <3>1. start = offset /\ end = offset + limit
      BY <1>1, <2>2 DEF AtMost
    <3>2. AtMost(limit, total - offset) = limit
      BY <1>1, <2>2 DEF AtMost
    <3>3. (IF start < end THEN end - start ELSE 0) = limit
      <4> HIDE DEF start, end
      <4> QED
        BY ONLY <3>1, limit \in Nat, offset \in Nat
    <3> QED
      BY <1>1, <2>2, <3>2, <3>3
  <2>3. CASE offset < total /\ ~(offset + limit < total)
    <3>1. start = offset /\ end = total
      BY <1>1, <2>3 DEF AtMost
    <3>2. AtMost(limit, total - offset) = total - offset
      BY <1>1, <2>3 DEF AtMost
    <3>3. (IF start < end THEN end - start ELSE 0) = total - offset
      <4> HIDE DEF start, end
      <4> QED
        BY <1>1, <2>3, <3>1
    <3> QED
      BY <1>1, <2>3, <3>2, <3>3
  <2> QED
    BY <1>1, <2>1, <2>2, <2>3
<1> HIDE DEF start, end, total
<1>6. /\ Ranking(SubSeq(f, start + 1, end))
      /\ Len(SubSeq(f, start + 1, end)) = IF start < end THEN end - start ELSE 0
      /\ \A i \in 1..Len(SubSeq(f, start + 1, end)) :
           start + i \in 1..Len(f) /\ SubSeq(f, start + 1, end)[i] = f[start + i]
      /\ InList(SubSeq(f, start + 1, end)) \subseteq InList(f)
  BY <1>3, PartsAreRankings DEF total
<1>7. ASSUME NEW i \in 1..Len(SubSeq(f, start + 1, end))
      PROVE  start = offset
  <2>1. CASE start < end
    BY <1>4, <2>1
  <2>2. CASE ~(start < end)
    <3>1. i \in 1..0
      BY <1>6, <2>2
    <3> QED
      BY <3>1
  <2> QED
    BY <2>1, <2>2
<1> QED
  BY <1>2, <1>5, <1>6, <1>7 DEF total

\* Where a memory is in a list by falling score: behind those that are better, and
\* not behind more than those that are no worse.
LEMMA PositionsFit ==
  ASSUME NEW s, Ranking(s), NEW k, Ranking(k), NEW f, Ranking(f),
         \A i, j \in 1..Len(f) : i < j => Lower(s, k, f[i], f[j]),
         NEW n \in 1..Len(f)
  PROVE  LET score(m) == RRFScore(s, k, m)
             better == {m \in InList(f) : Higher(score(m), score(f[n]))}
             notWorse == {m \in InList(f) : ~Higher(score(f[n]), score(m))}
         IN n \in (Cardinality(better) + 1)..Cardinality(notWorse)
<1> DEFINE score(m) == RRFScore(s, k, m)
           better == {m \in InList(f) : Higher(score(m), score(f[n]))}
           notWorse == {m \in InList(f) : ~Higher(score(f[n]), score(m))}
           before == SubSeq(f, 1, n - 1)
           until == SubSeq(f, 1, n)
<1>1. /\ Len(f) \in Nat
      /\ \A i \in 1..Len(f) : f[i] \in InList(f)
      /\ \A m \in InList(f) : \E i \in 1..Len(f) : f[i] = m
  BY RankingsAreFunctions
<1>2. ~Higher(score(f[n]), score(f[n]))
  <2> DEFINE a == Rank(s, f[n])
             b == Rank(k, f[n])
  <2>1. a \in Nat /\ b \in Nat
    BY Ranks, RankingsAreFunctions
  <2> HIDE DEF a, b
  <2>2. Score(a, b).num \in Nat /\ Score(a, b).den \in Nat
    <3>1. (60 + a) * (60 + b) \in Nat
      BY <2>1, Products
    <3>2. CASE a = 0
      <4>1. Score(a, b) = [num |-> 1, den |-> 60 + b]
        BY <2>1, <3>2, ScoresAre
      <4> QED
        BY <2>1, <4>1
    <3>3. CASE a # 0 /\ b = 0
      <4>1. Score(a, b) = [num |-> 1, den |-> 60 + a]
        BY <2>1, <3>3, ScoresAre
      <4> QED
        BY <2>1, <4>1
    <3>4. CASE a # 0 /\ b # 0
      <4>1. Score(a, b) = [num |-> (60 + b) + (60 + a), den |-> (60 + a) * (60 + b)]
        BY <2>1, <3>4, ScoresAre
      <4> QED
        BY <2>1, <3>1, <4>1
    <3> QED
      BY <3>2, <3>3, <3>4
  <2>3. Score(a, b).num * Score(a, b).den \in Nat
    BY <2>2, Products
  <2>4. ~(Score(a, b).num * Score(a, b).den > Score(a, b).num * Score(a, b).den)
    BY <2>3
  <2> QED
    BY <2>4 DEF Higher, RRFScore, a, b
<1>3. n - 1 \in Nat /\ n \in Nat /\ n - 1 =< Len(f) /\ n =< Len(f)
  BY <1>1
<1>4. /\ Ranking(before) /\ Len(before) = n - 1
      /\ \A i \in 1..(n - 1) : before[i] = f[i]
  BY <1>3, StartsAreRankings
<1>5. /\ Ranking(until) /\ Len(until) = n
      /\ \A i \in 1..n : until[i] = f[i]
  BY <1>3, StartsAreRankings
<1> HIDE DEF before, until
<1>6. better \in SUBSET InList(before)
  <2> SUFFICES ASSUME NEW m \in better
               PROVE  m \in InList(before)
    OBVIOUS
  <2>1. PICK i \in 1..Len(f) : f[i] = m
    BY <1>1
  <2>2. ~(n < i) /\ i # n
    BY <1>2, <2>1 DEF Lower
  <2>3. i \in 1..(n - 1)
    BY <1>1, <2>1, <2>2
  <2>4. before[i] = m
    BY <1>4, <2>1, <2>3
  <2> QED
    BY <1>4, <2>3, <2>4, RankingsAreFunctions
<1>7. InList(until) \in SUBSET notWorse
  <2> SUFFICES ASSUME NEW m \in InList(until)
               PROVE  m \in notWorse
    OBVIOUS
  <2>1. PICK i \in 1..n : until[i] = m
    BY <1>5, RankingsAreFunctions
  <2>2. i \in 1..Len(f) /\ f[i] = m
    BY <1>3, <1>5, <2>1
  <2>3. i < n \/ i = n
    BY <1>3, <2>1
  <2>4. ~Higher(score(f[n]), score(m))
    BY <1>2, <2>2, <2>3 DEF Lower
  <2> QED
    BY <1>1, <2>2, <2>4
<1>8. /\ IsFiniteSet(InList(before)) /\ Cardinality(InList(before)) = n - 1
      /\ IsFiniteSet(InList(until)) /\ Cardinality(InList(until)) = n
      /\ IsFiniteSet(InList(f))
  BY <1>4, <1>5, RankingsCount
<1>9. notWorse \in SUBSET InList(f)
  OBVIOUS
<1> HIDE DEF better, notWorse
<1>10. IsFiniteSet(better) /\ Cardinality(better) =< n - 1
  BY <1>6, <1>8, FS_Subset
<1>11. IsFiniteSet(notWorse)
  BY <1>8, <1>9, FS_Subset
<1>12. n =< Cardinality(notWorse)
  BY <1>7, <1>8, <1>11, FS_Subset
<1>13. n \in (Cardinality(better) + 1)..Cardinality(notWorse)
  BY <1>3, <1>10, <1>11, <1>12, FS_CardinalityType
<1> QED
  BY <1>13 DEF better, notWorse

-----------------------------------------------------------------------------
(* The search.                                                             *)

Rankings == {l \in Seq(Memories) : Distinct(l)}

\* All of a set is in the list, or the list is as long as a query's may be.
Complete(l, set, limit) == set \subseteq InList(l) \/ Len(l) = Candidates(limit)

SearchRecords ==
  [pc : {"idle", "semantic", "keyword", "fuse", "done", "failed"}, limit : Limits \cup {1},
   offset : Nat, embeds : BOOLEAN, kept : SUBSET Memories, semantic : Rankings,
   keyword : Rankings, merged : Rankings, page : Rankings, ever : SUBSET Memories,
   always : [Queries -> SUBSET Memories]]

\* The rankings hold what was findable at some moment, and all that was at every
\* moment as far as they go; the rest is made from them at the end.
SoundSearch(s) ==
  /\ s \in SearchRecords
  /\ Len(s.semantic) =< Candidates(s.limit) /\ Len(s.keyword) =< Candidates(s.limit)
  /\ InList(s.semantic) \subseteq s.ever /\ InList(s.keyword) \subseteq s.ever
  /\ s.pc \in {"keyword", "fuse", "done"} => Complete(s.semantic, s.always["semantic"], s.limit)
  /\ s.pc \in {"fuse", "done"} => Complete(s.keyword, s.always["keyword"], s.limit)
  /\ IF s.pc = "done"
     THEN /\ s.merged \in ReciprocalRankFusion(s.semantic, s.keyword)
          /\ s.page = Page(Filter(s.merged, s.kept), s.offset, s.limit)
     ELSE s.merged = <<>> /\ s.page = <<>>

\* The history fields watch the table while the queries are sent.
Watched(f, s) ==
  s.pc \in {"semantic", "keyword"} =>
    /\ \A m \in Memories : f[m] # {} => m \in s.ever
    /\ \A q \in Queries : \A m \in s.always[q] : q \in f[m]

SearchInvariant ==
  /\ found \in [Memories -> SUBSET Queries] /\ writes \in 0..MaxWrites
  /\ SoundSearch(search) /\ Watched(found, search)

LEMMA LimitsAreNatural == \A limit \in Limits \cup {1} : limit \in Nat \ {0}
  BY HybridSearchAssumption

LEMMA RankingsAre == \A l : l \in Rankings <=> Ranking(l)
  BY DEF Rankings, Ranking

LEMMA CandidatesAre ==
  \A limit \in Limits \cup {1} : Candidates(limit) \in Nat /\ Candidates(limit) >= limit
  BY LimitsAreNatural DEF Candidates

LEMMA NoSearchIsSound == SoundSearch(NoSearch) /\ Watched(NotFound, NoSearch)
<1>1. <<>> \in Rankings
  BY EmptyIsARanking, RankingsAre
<1>2. NoSearch \in SearchRecords
  BY <1>1 DEF NoSearch, SearchRecords
<1>3. Len(<<>>) =< Candidates(1)
  BY EmptyIsARanking DEF Candidates
<1>4. SoundSearch(NoSearch)
  BY <1>2, <1>3, EmptyIsARanking DEF SoundSearch, NoSearch
<1>5. Watched(NotFound, NoSearch)
  BY DEF Watched, NoSearch
<1> QED
  BY <1>4, <1>5

\* What a query returns: some of what it finds, and all of it unless there is too
\* much.
LEMMA ResultsAreRankings ==
  ASSUME SearchInvariant, NEW q \in Queries, NEW r \in Results(q)
  PROVE  /\ r \in Rankings /\ Len(r) =< Candidates(search.limit)
         /\ InList(r) \subseteq FoundBy(q)
         /\ Complete(r, FoundBy(q), search.limit)
<1> DEFINE n == Candidates(search.limit)
<1>1. n \in Nat
  BY CandidatesAre DEF SearchInvariant, SoundSearch, SearchRecords
<1>2. PICK l \in Listings(FoundBy(q)) : r = SubSeq(l, 1, AtMost(Len(l), n))
  BY DEF Results
<1>3. Ranking(l) /\ InList(l) = FoundBy(q)
  <2>1. FoundBy(q) \in SUBSET Memories
    BY DEF FoundBy
  <2> QED
    BY <1>2, <2>1, ListingsAreRankings
<1>4. Len(l) \in Nat /\ l \in Seq(Memories)
  BY <1>3, RankingsAreFunctions DEF Ranking
<1> DEFINE b == AtMost(Len(l), n)
<1>5. b \in Nat /\ b =< Len(l) /\ b =< n /\ (b = n \/ b = Len(l))
  BY <1>1, <1>4 DEF AtMost
<1> HIDE DEF b, n
<1>6. r = SubSeq(l, 1, b)
  BY <1>2 DEF b, n
<1>7. Ranking(r) /\ Len(r) = b /\ InList(r) \subseteq InList(l)
  BY <1>3, <1>5, <1>6, StartsAreRankings
<1>8. Len(r) = b
  BY <1>7
<1>9. b = Len(l) => r = l
  <2>1. SubSeq(l, 1, Len(l)) = l
    BY <1>4, SubSeqFull
  <2> QED
    BY <1>6, <2>1
<1> QED
  BY <1>1, <1>3, <1>5, <1>7, <1>8, <1>9, RankingsAre DEF Complete, n

\* Less of a set is in the list all the more.
LEMMA CompleteOfLess ==
  ASSUME NEW l, NEW set, NEW less, less \subseteq set, NEW limit, Complete(l, set, limit)
  PROVE  Complete(l, less, limit)
BY DEF Complete

LEMMA SearchKeepsSound ==
  ASSUME SearchInvariant, NEW limit \in Limits, NEW offset \in Offsets, Search(limit, offset)
  PROVE  SearchInvariant'
<1> DEFINE e == Findable'
           a == [q \in Queries |-> FoundBy(q)']
<1>1. PICK embeds \in BOOLEAN :
        search' = [NoSearch EXCEPT !.pc = "semantic", !.limit = limit, !.offset = offset,
                                   !.embeds = embeds, !.ever = e, !.always = a]
  BY DEF Search
<1>2. /\ found' \in [Memories -> SUBSET Queries] /\ writes' = writes
      /\ writes \in 0..MaxWrites
  BY DEF Search, SearchInvariant
<1>3. e \in SUBSET Memories /\ a \in [Queries -> SUBSET Memories]
  BY <1>2 DEF Findable, FoundBy
<1>4. /\ \A m \in Memories : found'[m] # {} => m \in e
      /\ \A q \in Queries : \A m \in a[q] : q \in found'[m]
  BY <1>2 DEF Findable, FoundBy
<1>5. <<>> \in Rankings
  BY EmptyIsARanking, RankingsAre
<1>6. limit \in Limits \cup {1} /\ offset \in Nat
  BY HybridSearchAssumption
<1> HIDE DEF e, a
<1>7. search' = [pc |-> "semantic", limit |-> limit, offset |-> offset, embeds |-> embeds,
                 kept |-> {}, semantic |-> <<>>, keyword |-> <<>>, merged |-> <<>>,
                 page |-> <<>>, ever |-> e, always |-> a]
  BY <1>1 DEF NoSearch
<1>8. search' \in SearchRecords
  BY <1>3, <1>5, <1>6, <1>7 DEF SearchRecords
<1>9. Candidates(limit) \in Nat
  BY <1>6, CandidatesAre
<1>10. SoundSearch(search')
  BY <1>7, <1>8, <1>9, EmptyIsARanking DEF SoundSearch
<1>11. Watched(found', search')
  BY <1>4, <1>7 DEF Watched
<1> QED
  BY <1>2, <1>10, <1>11 DEF SearchInvariant

LEMMA SemanticSearchKeepsSound ==
  ASSUME SearchInvariant, SemanticSearch
  PROVE  SearchInvariant'
<1>1. PICK l \in Results("semantic") :
        search' = [search EXCEPT !.pc = "keyword", !.semantic = l]
  BY DEF SemanticSearch
<1>2. search.pc = "semantic" /\ found' = found /\ writes' = writes
  BY DEF SemanticSearch
<1>3. /\ search \in SearchRecords /\ SoundSearch(search) /\ Watched(found, search)
      /\ found \in [Memories -> SUBSET Queries] /\ writes \in 0..MaxWrites
  BY DEF SearchInvariant, SoundSearch
<1>4. /\ l \in Rankings /\ Len(l) =< Candidates(search.limit)
      /\ InList(l) \subseteq FoundBy("semantic")
      /\ Complete(l, FoundBy("semantic"), search.limit)
  BY <1>1, ResultsAreRankings DEF Queries
<1>5. FoundBy("semantic") \subseteq search.ever
  BY <1>2, <1>3 DEF FoundBy, Watched
<1>6. search.always["semantic"] \subseteq FoundBy("semantic")
  BY <1>2, <1>3 DEF FoundBy, Watched, Queries, SearchRecords
<1>7. Complete(l, search.always["semantic"], search.limit)
  BY <1>4, <1>6, CompleteOfLess
<1>8. /\ search' \in SearchRecords /\ search'.pc = "keyword" /\ search'.semantic = l
      /\ search'.limit = search.limit /\ search'.keyword = search.keyword
      /\ search'.merged = search.merged /\ search'.page = search.page
      /\ search'.ever = search.ever /\ search'.always = search.always
  BY <1>1, <1>3, <1>4 DEF SearchRecords
<1>9. SoundSearch(search')
  BY <1>2, <1>3, <1>4, <1>5, <1>7, <1>8 DEF SoundSearch
<1>10. Watched(found', search')
  BY <1>2, <1>3, <1>8 DEF Watched
<1> QED
  BY <1>2, <1>3, <1>9, <1>10 DEF SearchInvariant

LEMMA KeywordSearchKeepsSound ==
  ASSUME SearchInvariant, KeywordSearch
  PROVE  SearchInvariant'
<1>1. PICK l \in Results("keyword") :
        search' = [search EXCEPT !.pc = "fuse", !.keyword = l]
  BY DEF KeywordSearch
<1>2. search.pc = "keyword" /\ found' = found /\ writes' = writes
  BY DEF KeywordSearch
<1>3. /\ search \in SearchRecords /\ SoundSearch(search) /\ Watched(found, search)
      /\ found \in [Memories -> SUBSET Queries] /\ writes \in 0..MaxWrites
  BY DEF SearchInvariant, SoundSearch
<1>4. /\ l \in Rankings /\ Len(l) =< Candidates(search.limit)
      /\ InList(l) \subseteq FoundBy("keyword")
      /\ Complete(l, FoundBy("keyword"), search.limit)
  BY <1>1, ResultsAreRankings DEF Queries
<1>5. FoundBy("keyword") \subseteq search.ever
  BY <1>2, <1>3 DEF FoundBy, Watched
<1>6. search.always["keyword"] \subseteq FoundBy("keyword")
  BY <1>2, <1>3 DEF FoundBy, Watched, Queries, SearchRecords
<1>7. Complete(l, search.always["keyword"], search.limit)
  BY <1>4, <1>6, CompleteOfLess
<1>8. /\ search' \in SearchRecords /\ search'.pc = "fuse" /\ search'.keyword = l
      /\ search'.limit = search.limit /\ search'.semantic = search.semantic
      /\ search'.merged = search.merged /\ search'.page = search.page
      /\ search'.ever = search.ever /\ search'.always = search.always
  BY <1>1, <1>3, <1>4 DEF SearchRecords
<1>9. SoundSearch(search')
  BY <1>2, <1>3, <1>4, <1>5, <1>7, <1>8 DEF SoundSearch
<1>10. Watched(found', search')
  BY <1>8 DEF Watched
<1> QED
  BY <1>2, <1>3, <1>9, <1>10 DEF SearchInvariant

LEMMA AnswerKeepsSound ==
  ASSUME SearchInvariant, Answer
  PROVE  SearchInvariant'
<1> DEFINE fusions == ReciprocalRankFusion(search.semantic, search.keyword)
<1>0. PICK l \in fusions : \E kept \in {Memories} \cup SUBSET InList(l) :
        search' = [search EXCEPT !.pc = "done", !.merged = l, !.kept = kept,
                                 !.page = Page(Filter(l, kept), search.offset, search.limit)]
  BY DEF Answer
<1>1. PICK kept \in {Memories} \cup SUBSET InList(l) :
        search' = [search EXCEPT !.pc = "done", !.merged = l, !.kept = kept,
                                 !.page = Page(Filter(l, kept), search.offset, search.limit)]
  BY <1>0
<1>2. search.pc = "fuse" /\ found' = found /\ writes' = writes
  BY DEF Answer
<1>3. /\ search \in SearchRecords /\ SoundSearch(search)
      /\ found \in [Memories -> SUBSET Queries] /\ writes \in 0..MaxWrites
  BY DEF SearchInvariant, SoundSearch
<1>4. Ranking(search.semantic) /\ Ranking(search.keyword)
  BY <1>3, RankingsAre DEF SearchRecords
<1>5. Ranking(l)
  BY <1>1, <1>4, FusionsAreRankings
<1>6. search.limit \in Nat /\ search.offset \in Nat
  BY <1>3, LimitsAreNatural DEF SearchRecords
<1> DEFINE p == Page(Filter(l, kept), search.offset, search.limit)
<1>7. Ranking(p)
  <2>1. Ranking(Filter(l, kept))
    BY <1>5, FiltersKeepOrder
  <2> QED
    BY <1>6, <2>1, PagesAreWindows
<1>8. l \in Rankings /\ p \in Rankings
  BY <1>5, <1>7, RankingsAre
<1>9. kept \in SUBSET Memories
  BY <1>1, <1>5, RankingsAreFunctions
<1>10. search' = [search EXCEPT !.pc = "done", !.merged = l, !.kept = kept, !.page = p]
  BY <1>1
<1>11. l \in ReciprocalRankFusion(search.semantic, search.keyword)
  BY <1>1
<1>12. p = Page(Filter(l, kept), search.offset, search.limit)
  OBVIOUS
<1> HIDE DEF p, fusions
<1>13. /\ search' \in SearchRecords /\ search'.pc = "done" /\ search'.semantic = search.semantic
       /\ search'.limit = search.limit /\ search'.keyword = search.keyword
       /\ search'.merged = l /\ search'.page = p /\ search'.kept = kept
       /\ search'.ever = search.ever /\ search'.always = search.always
       /\ search'.offset = search.offset
  BY <1>3, <1>8, <1>9, <1>10 DEF SearchRecords
<1>14. SoundSearch(search')
  BY <1>2, <1>3, <1>11, <1>12, <1>13 DEF SoundSearch
<1>15. Watched(found', search')
  BY <1>13 DEF Watched
<1> QED
  BY <1>2, <1>3, <1>14, <1>15 DEF SearchInvariant

LEMMA FailKeepsSound ==
  ASSUME SearchInvariant, Fail
  PROVE  SearchInvariant'
<1>1. /\ search.pc \in {"semantic", "keyword"} /\ found' = found /\ writes' = writes
      /\ search' = [search EXCEPT !.pc = "failed"]
  BY DEF Fail
<1>2. /\ search \in SearchRecords /\ SoundSearch(search)
      /\ found \in [Memories -> SUBSET Queries] /\ writes \in 0..MaxWrites
  BY DEF SearchInvariant, SoundSearch
<1>3. /\ search' \in SearchRecords /\ search'.pc = "failed"
      /\ search'.semantic = search.semantic /\ search'.keyword = search.keyword
      /\ search'.limit = search.limit
      /\ search'.merged = search.merged /\ search'.page = search.page
      /\ search'.ever = search.ever /\ search'.always = search.always
  BY <1>1, <1>2 DEF SearchRecords
<1>4. SoundSearch(search')
  BY <1>1, <1>2, <1>3 DEF SoundSearch
<1>5. Watched(found', search')
  BY <1>3 DEF Watched
<1> QED
  BY <1>1, <1>2, <1>4, <1>5 DEF SearchInvariant

LEMMA WriteKeepsSound ==
  ASSUME SearchInvariant, NEW m \in Memories, NEW by \in SUBSET Queries, Write(m, by)
  PROVE  SearchInvariant'
<1> DEFINE e == IF by = {} THEN search.ever ELSE search.ever \cup {m}
           a == [q \in Queries |-> IF q \in by THEN search.always[q] ELSE search.always[q] \ {m}]
<1>1. /\ search.pc \in {"semantic", "keyword"} /\ writes < MaxWrites
      /\ writes' = writes + 1 /\ found' = [found EXCEPT ![m] = by]
  BY DEF Write
<1>2. /\ search \in SearchRecords /\ SoundSearch(search) /\ Watched(found, search)
      /\ found \in [Memories -> SUBSET Queries] /\ writes \in 0..MaxWrites
  BY DEF SearchInvariant, SoundSearch
<1>3. /\ search.always \in [Queries -> SUBSET Memories] /\ search.ever \in SUBSET Memories
  BY <1>2 DEF SearchRecords
<1>4. search' = [search EXCEPT !.ever = e, !.always = a]
  <2>1. search' = [search EXCEPT
                    !.ever = IF by = {} THEN @ ELSE @ \cup {m},
                    !.always = [q \in Queries |-> IF q \in by THEN @[q] ELSE @[q] \ {m}]]
    BY DEF Write
  <2> QED
    BY <1>2, <2>1 DEF SearchRecords
<1>5. e \in SUBSET Memories /\ a \in [Queries -> SUBSET Memories]
  BY <1>3
<1>6. search.ever \subseteq e /\ \A q \in Queries : a[q] \subseteq search.always[q]
  BY <1>3
<1>7. \A n \in Memories : found'[n] = IF n = m THEN by ELSE found[n]
  BY <1>1, <1>2
<1>8. /\ \A n \in Memories : found'[n] # {} => n \in e
      /\ \A q \in Queries : \A n \in a[q] : q \in found'[n]
  <2>1. ASSUME NEW n \in Memories, found'[n] # {}
        PROVE  n \in e
    BY <1>1, <1>2, <1>7, <2>1 DEF Watched
  <2>2. ASSUME NEW q \in Queries, NEW n \in a[q]
        PROVE  q \in found'[n]
    <3>1. n \in search.always[q] /\ n \in Memories /\ (n = m => q \in by)
      BY <1>3
    <3>2. q \in found[n]
      BY <1>1, <1>2, <3>1 DEF Watched
    <3> QED
      BY <1>7, <3>1, <3>2
  <2> QED
    BY <2>1, <2>2
<1> HIDE DEF e, a
<1>9. /\ search' \in SearchRecords /\ search'.pc = search.pc
      /\ search'.semantic = search.semantic /\ search'.keyword = search.keyword
      /\ search'.limit = search.limit
      /\ search'.merged = search.merged /\ search'.page = search.page
      /\ search'.ever = e /\ search'.always = a
  BY <1>2, <1>4, <1>5 DEF SearchRecords
<1>10. search.pc = "keyword" =>
         Complete(search.semantic, a["semantic"], search.limit)
  <2>1. search.pc = "keyword" =>
          Complete(search.semantic, search.always["semantic"], search.limit)
    BY <1>2 DEF SoundSearch
  <2> QED
    BY <1>6, <2>1, CompleteOfLess DEF Queries
<1>11. SoundSearch(search')
  BY <1>1, <1>2, <1>6, <1>9, <1>10 DEF SoundSearch
<1>12. Watched(found', search')
  BY <1>8, <1>9 DEF Watched
<1>13. found' \in [Memories -> SUBSET Queries] /\ writes' \in 0..MaxWrites
  BY <1>1, <1>2, HybridSearchAssumption
<1> QED
  BY <1>11, <1>12, <1>13 DEF SearchInvariant

LEMMA StepsKeepSound ==
  ASSUME SearchInvariant,
         \/ SemanticSearch \/ KeywordSearch \/ Answer \/ Fail
         \/ \E m \in Memories, by \in SUBSET Queries : Write(m, by)
  PROVE  SearchInvariant' /\ search'.limit = search.limit
<1>0. search \in SearchRecords
  BY DEF SearchInvariant, SoundSearch
<1>1. CASE SemanticSearch
  <2>1. search'.limit = search.limit
    BY <1>0, <1>1 DEF SemanticSearch, SearchRecords
  <2> QED
    BY <1>1, <2>1, SemanticSearchKeepsSound
<1>2. CASE KeywordSearch
  <2>1. search'.limit = search.limit
    BY <1>0, <1>2 DEF KeywordSearch, SearchRecords
  <2> QED
    BY <1>2, <2>1, KeywordSearchKeepsSound
<1>3. CASE Answer
  <2>1. search'.limit = search.limit
    BY <1>0, <1>3 DEF Answer, SearchRecords
  <2> QED
    BY <1>3, <2>1, AnswerKeepsSound
<1>4. CASE Fail
  <2>1. search'.limit = search.limit
    BY <1>0, <1>4 DEF Fail, SearchRecords
  <2> QED
    BY <1>4, <2>1, FailKeepsSound
<1>5. ASSUME NEW m \in Memories, NEW by \in SUBSET Queries, Write(m, by)
      PROVE  SearchInvariant' /\ search'.limit = search.limit
  <2>1. search'.limit = search.limit
    BY <1>0, <1>5 DEF Write, SearchRecords
  <2> QED
    BY <1>5, <2>1, WriteKeepsSound
<1> QED
  BY <1>1, <1>2, <1>3, <1>4, <1>5

LEMMA UntouchedStaysSound ==
  ASSUME SearchInvariant, UNCHANGED vars
  PROVE  SearchInvariant' /\ search' = search
<1>1. found' = found /\ search' = search /\ writes' = writes
  BY DEF vars
<1> QED
  BY <1>1 DEF SearchInvariant

LEMMA ResetIsSound ==
  ASSUME found' = NotFound, search' = NoSearch, writes' = 0
  PROVE  SearchInvariant'
<1>1. NotFound \in [Memories -> SUBSET Queries]
  BY DEF NotFound
<1>2. 0 \in 0..MaxWrites
  BY HybridSearchAssumption
<1> QED
  BY <1>1, <1>2, NoSearchIsSound DEF SearchInvariant

-----------------------------------------------------------------------------
(* The properties of the search, from its invariant.                       *)

LEMMA AnswersAreFusions ==
  ASSUME SearchInvariant, Done
  PROVE  /\ Ranking(search.semantic) /\ Ranking(search.keyword)
         /\ search.merged \in ReciprocalRankFusion(search.semantic, search.keyword)
         /\ search.page = Page(Filtered, search.offset, search.limit)
         /\ search.limit \in Nat \ {0} /\ search.offset \in Nat
<1>1. search \in SearchRecords
  BY DEF SearchInvariant, SoundSearch
<1>2. Ranking(search.semantic) /\ Ranking(search.keyword)
  BY <1>1, RankingsAre DEF SearchRecords
<1>3. search.limit \in Nat \ {0} /\ search.offset \in Nat
  BY <1>1, LimitsAreNatural DEF SearchRecords
<1> QED
  BY <1>2, <1>3 DEF SearchInvariant, SoundSearch, Done, Filtered

LEMMA NothingMergedYet ==
  ASSUME SearchInvariant, ~Done
  PROVE  search.merged = <<>> /\ search.page = <<>>
BY DEF SearchInvariant, SoundSearch, Done

LEMMA SoundIsTyped == SearchInvariant => TypeOK
<1> SUFFICES ASSUME SearchInvariant
             PROVE  TypeOK
  OBVIOUS
<1>1. /\ search \in SearchRecords
      /\ Len(search.semantic) =< Candidates(search.limit)
      /\ Len(search.keyword) =< Candidates(search.limit)
  BY DEF SearchInvariant, SoundSearch
<1>2. \A list \in {search.semantic, search.keyword, search.merged, search.page} : Ranking(list)
  BY <1>1, RankingsAre DEF SearchRecords
<1>3. \A list \in {search.semantic, search.keyword, search.merged, search.page} :
        InList(list) \subseteq Memories /\ Distinct(list)
  BY <1>2, RankingsAreFunctions DEF Ranking
<1>4. search.pc \in {"idle", "semantic", "keyword", "fuse", "done", "failed"}
  BY <1>1 DEF SearchRecords
<1> QED
  BY <1>1, <1>3, <1>4 DEF TypeOK, SearchInvariant

LEMMA SoundAgrees == SearchInvariant => AgreementIsKept
<1> SUFFICES ASSUME SearchInvariant,
                    NEW i \in 1..Len(search.merged), NEW j \in 1..Len(search.merged),
                    NotBehind(search.semantic, search.merged[i], search.merged[j]),
                    NotBehind(search.keyword, search.merged[i], search.merged[j]),
                    search.merged[i] # search.merged[j]
             PROVE  i < j
  BY DEF AgreementIsKept
<1>1. CASE Done
  BY <1>1, AnswersAreFusions, FusionsAgree
<1>2. CASE ~Done
  <2>1. 1..Len(search.merged) = {}
    BY <1>2, NothingMergedYet, EmptyIsARanking
  <2> QED
    BY <2>1
<1> QED
  BY <1>1, <1>2

LEMMA SoundPrefersBoth == SearchInvariant => BothBeatOne
<1> SUFFICES ASSUME SearchInvariant,
                    NEW i \in 1..Len(search.merged), NEW j \in 1..Len(search.merged),
                    search.merged[i] \in InBoth, search.merged[j] \notin InBoth,
                    Rank(search.semantic, search.merged[i]) =< K + 1,
                    Rank(search.keyword, search.merged[i]) =< K + 1
             PROVE  i < j
  BY DEF BothBeatOne
<1>1. CASE Done
  BY <1>1, AnswersAreFusions, FusionsPreferBoth DEF InBoth
<1>2. CASE ~Done
  <2>1. 1..Len(search.merged) = {}
    BY <1>2, NothingMergedYet, EmptyIsARanking
  <2> QED
    BY <2>1
<1> QED
  BY <1>1, <1>2

\* What the answer is made of: the members of both rankings, what the filters keep
\* of them in the same order, and the page of that.
LEMMA AnswersAre ==
  ASSUME SearchInvariant, Done
  PROVE  /\ Ranking(search.merged)
         /\ InList(search.merged) = InList(search.semantic) \cup InList(search.keyword)
         /\ Ranking(Filtered) /\ InList(Filtered) = InList(search.merged) \cap search.kept
         /\ Ranking(search.page) /\ InList(search.page) \subseteq InList(Filtered)
         /\ \A i, j \in 1..Len(Filtered) :
              i < j => Lower(search.semantic, search.keyword, Filtered[i], Filtered[j])
<1>1. /\ Ranking(search.semantic) /\ Ranking(search.keyword)
      /\ search.merged \in ReciprocalRankFusion(search.semantic, search.keyword)
      /\ search.page = Page(Filtered, search.offset, search.limit)
      /\ search.limit \in Nat /\ search.offset \in Nat
  BY AnswersAreFusions
<1>2. /\ Ranking(search.merged)
      /\ InList(search.merged) = InList(search.semantic) \cup InList(search.keyword)
      /\ \A i, j \in 1..Len(search.merged) : i < j =>
           Lower(search.semantic, search.keyword, search.merged[i], search.merged[j])
  BY <1>1, FusionsAreRankings
<1>3. /\ Ranking(Filtered) /\ InList(Filtered) = InList(search.merged) \cap search.kept
      /\ \A n, m \in 1..Len(Filtered) : n < m =>
           \E i, j \in 1..Len(search.merged) :
             i < j /\ Filtered[n] = search.merged[i] /\ Filtered[m] = search.merged[j]
  BY <1>2, FiltersKeepOrder DEF Filtered
<1>4. \A i, j \in 1..Len(Filtered) :
        i < j => Lower(search.semantic, search.keyword, Filtered[i], Filtered[j])
  BY <1>2, <1>3
<1>5. Ranking(search.page) /\ InList(search.page) \subseteq InList(Filtered)
  BY <1>1, <1>3, PagesAreWindows
<1> QED
  BY <1>2, <1>3, <1>4, <1>5

LEMMA SoundIsHonest == SearchInvariant => SearchIsHonest
<1> SUFFICES ASSUME SearchInvariant, Done
             PROVE  /\ InList(search.page) \subseteq search.ever \cap search.kept
                    /\ \A q \in Queries :
                         \/ search.always[q] \subseteq InList(search.merged)
                         \/ Len(IF q = "semantic" THEN search.semantic ELSE search.keyword)
                              = Candidates(search.limit)
  BY DEF SearchIsHonest
<1>1. /\ InList(search.semantic) \subseteq search.ever
      /\ InList(search.keyword) \subseteq search.ever
      /\ Complete(search.semantic, search.always["semantic"], search.limit)
      /\ Complete(search.keyword, search.always["keyword"], search.limit)
  BY DEF SearchInvariant, SoundSearch, Done
<1>2. /\ InList(search.merged) = InList(search.semantic) \cup InList(search.keyword)
      /\ InList(Filtered) = InList(search.merged) \cap search.kept
      /\ InList(search.page) \subseteq InList(Filtered)
  BY AnswersAre
<1>3. InList(search.page) \subseteq search.ever \cap search.kept
  BY <1>1, <1>2
<1>4. \/ search.always["semantic"] \subseteq InList(search.merged)
      \/ Len(search.semantic) = Candidates(search.limit)
  BY <1>1, <1>2 DEF Complete
<1>5. \/ search.always["keyword"] \subseteq InList(search.merged)
      \/ Len(search.keyword) = Candidates(search.limit)
  BY <1>1, <1>2 DEF Complete
<1> QED
  BY <1>3, <1>4, <1>5 DEF Queries

LEMMA SoundPagesAreWindows == SearchInvariant => PageIsTheWindow
<1> DEFINE s == search.semantic
           k == search.keyword
           f == Filtered
           score(m) == RRFScore(s, k, m)
           Better(m) == {n \in InList(f) : Higher(score(n), score(m))}
           NotWorse(m) == {n \in InList(f) : ~Higher(score(m), score(n))}
<1> SUFFICES ASSUME SearchInvariant, Done
             PROVE  /\ Len(search.page) =
                         (IF search.offset >= Len(f) THEN 0
                          ELSE AtMost(search.limit, Len(f) - search.offset))
                    /\ \A i \in 1..Len(search.page) :
                         search.offset + i \in
                           (Cardinality(Better(search.page[i])) + 1)
                             ..Cardinality(NotWorse(search.page[i]))
  BY DEF PageIsTheWindow
<1>1. /\ Ranking(s) /\ Ranking(k)
      /\ search.page = Page(f, search.offset, search.limit)
      /\ search.limit \in Nat /\ search.offset \in Nat
  BY AnswersAreFusions
<1>2. Ranking(f) /\ \A i, j \in 1..Len(f) : i < j => Lower(s, k, f[i], f[j])
  BY AnswersAre
<1> HIDE DEF f, s, k
<1>3. /\ Len(search.page) =
           (IF search.offset >= Len(f) THEN 0 ELSE AtMost(search.limit, Len(f) - search.offset))
      /\ \A i \in 1..Len(search.page) :
           search.offset + i \in 1..Len(f) /\ search.page[i] = f[search.offset + i]
  BY <1>1, <1>2, PagesAreWindows
<1>4. ASSUME NEW i \in 1..Len(search.page)
      PROVE  search.offset + i \in
               (Cardinality(Better(search.page[i])) + 1)..Cardinality(NotWorse(search.page[i]))
  <2> DEFINE n == search.offset + i
  <2>1. n \in 1..Len(f) /\ search.page[i] = f[n]
    BY <1>3
  <2> HIDE DEF n
  <2>2. n \in (Cardinality(Better(f[n])) + 1)..Cardinality(NotWorse(f[n]))
    BY <1>1, <1>2, <2>1, PositionsFit
  <2> QED
    BY <2>1, <2>2 DEF n
<1> QED
  BY <1>3, <1>4

\* A first page of fewer than the limit is all that the queries would have found
\* throughout.
LEMMA SmallPagesAreComplete ==
  ASSUME SearchInvariant, Done, Len(Filtered) < search.limit,
         search.kept = Memories, search.offset = 0
  PROVE  \A q \in Queries : search.always[q] \subseteq InList(search.page)
<1> DEFINE f == Filtered
<1>1. /\ Ranking(search.semantic) /\ Ranking(search.keyword)
      /\ search.page = Page(f, 0, search.limit)
      /\ search.limit \in Nat \ {0} /\ 0 \in Nat
  BY AnswersAreFusions
<1>2. /\ Ranking(search.merged) /\ Ranking(f)
      /\ InList(search.merged) = InList(search.semantic) \cup InList(search.keyword)
      /\ InList(f) = InList(search.merged) \cap Memories
  BY AnswersAre
<1>3. InList(f) = InList(search.merged)
  BY <1>2, RankingsAreFunctions
<1>4. Len(f) < search.limit
  OBVIOUS
<1> HIDE DEF f
<1>5. InList(search.page) = InList(f)
  <2>1. Len(f) \in Nat /\ InList(f) = {f[i] : i \in 1..Len(f)}
    BY <1>2, RankingsAreFunctions DEF InList
  <2>2. /\ Len(search.page) = (IF 0 >= Len(f) THEN 0 ELSE AtMost(search.limit, Len(f) - 0))
        /\ \A i \in 1..Len(search.page) :
             0 + i \in 1..Len(f) /\ search.page[i] = f[0 + i]
    BY <1>1, <1>2, PagesAreWindows
  <2>3. (IF 0 >= Len(f) THEN 0 ELSE AtMost(search.limit, Len(f) - 0)) = Len(f)
    BY <1>1, <1>4, <2>1 DEF AtMost
  <2>4. Len(search.page) = Len(f)
    BY <2>2, <2>3
  <2>5. \A i \in 1..Len(f) : 0 + i = i
    BY <2>1
  <2>6. \A i \in 1..Len(f) : search.page[i] = f[i]
    BY <2>2, <2>4, <2>5
  <2> QED
    BY <2>4, <2>6 DEF InList
<1>6. ASSUME NEW l, Ranking(l), InList(l) \subseteq InList(f)
      PROVE  Len(l) # Candidates(search.limit)
  <2>1. /\ IsFiniteSet(InList(f)) /\ Cardinality(InList(f)) = Len(f)
        /\ Cardinality(InList(l)) = Len(l)
    BY <1>2, <1>6, RankingsCount
  <2>2. Len(l) =< Len(f)
    BY <1>6, <2>1, FS_Subset
  <2>3. Len(l) \in Nat /\ Len(f) \in Nat
    BY <1>2, <1>6, RankingsAreFunctions
  <2>4. Candidates(search.limit) >= search.limit /\ Candidates(search.limit) \in Nat
    BY <1>1 DEF Candidates
  <2> QED
    BY <1>1, <1>4, <2>2, <2>3, <2>4
<1>7. /\ Len(search.semantic) # Candidates(search.limit)
      /\ Len(search.keyword) # Candidates(search.limit)
  BY <1>1, <1>2, <1>3, <1>6
<1>8. /\ Complete(search.semantic, search.always["semantic"], search.limit)
      /\ Complete(search.keyword, search.always["keyword"], search.limit)
  BY DEF SearchInvariant, SoundSearch, Done
<1>9. /\ search.always["semantic"] \subseteq InList(search.semantic)
      /\ search.always["keyword"] \subseteq InList(search.keyword)
  BY <1>7, <1>8 DEF Complete
<1> QED
  BY <1>2, <1>3, <1>5, <1>9 DEF Queries

-----------------------------------------------------------------------------
(* The router.                                                             *)

Routes ==
  [pc : {"idle", "persistent", "working", "scan", "get", "done", "failed"},
   stores : SUBSET Stores, limit : Limits \cup {1}, total : Nat, missed : SUBSET Memories]

Scans ==
  [batch : SUBSET Keys, last : BOOLEAN, hits : SUBSET Keys, n : Nat, changes : Nat,
   owed : SUBSET Keys, ever : SUBSET Keys, always : SUBSET Keys, lost : SUBSET Keys]

\* The hybrid search runs with the limit of the router's; below it, nothing is
\* missed.
SoundRoute(r, s) ==
  /\ r \in Routes
  /\ r.pc = "persistent" => s.limit = r.limit
  /\ r.total < r.limit => r.missed = {}

\* What was a hit throughout and is not among the hits is still to be returned by
\* SCAN, or waits in the batch.
SoundScan(r, s, d) ==
  LET overlooked == s.always \ (s.hits \cup s.lost) IN
  /\ s \in Scans
  /\ r.pc \in {"scan", "get"} =>
       s.hits \subseteq s.ever /\ s.always \subseteq Hits(d) /\ Hits(d) \subseteq s.ever /\ s.n =< r.limit
  /\ r.pc = "scan" => s.batch = {} /\ overlooked \subseteq s.owed
  /\ r.pc = "get" => overlooked \subseteq s.owed \cup s.batch /\ (s.last => s.owed = {})
  /\ r.pc = "done" /\ "working" \in r.stores =>
       /\ s.hits \subseteq s.ever /\ s.n =< r.limit /\ s.n =< r.total
       /\ s.n < r.limit => overlooked = {}

RouterInvariant ==
  /\ SearchInvariant
  /\ data \in [Keys -> {"none", "miss", "hit"}]
  /\ SoundRoute(router, search)
  /\ SoundScan(router, scan, data)

LEMMA RouterInitIsSound == RouterInit => RouterInvariant
<1> SUFFICES ASSUME RouterInit
             PROVE  RouterInvariant
  OBVIOUS
<1>1. found = NotFound /\ search = NoSearch /\ writes = 0
  BY DEF RouterInit, Init
<1>2. SearchInvariant
  <2>1. NotFound \in [Memories -> SUBSET Queries]
    BY DEF NotFound
  <2>2. 0 \in 0..MaxWrites
    BY HybridSearchAssumption
  <2> QED
    BY <1>1, <2>1, <2>2, NoSearchIsSound DEF SearchInvariant
<1>3. data \in [Keys -> {"none", "miss", "hit"}]
  BY DEF RouterInit
<1>4. SoundRoute(router, search)
  BY DEF RouterInit, NoRoute, SoundRoute, Routes
<1>5. SoundScan(router, scan, data)
  BY DEF RouterInit, NoRoute, NoScan, SoundScan, Scans
<1> QED
  BY <1>2, <1>3, <1>4, <1>5 DEF RouterInvariant

LEMMA RouteKeepsSound ==
  ASSUME RouterInvariant, NEW stores \in SUBSET Stores \ {{}}, NEW limit \in Limits,
         NEW offset \in Offsets, Route(stores, limit, offset)
  PROVE  RouterInvariant'
<1> DEFINE pc == IF "persistent" \in stores THEN "persistent" ELSE "working"
<1>1. /\ router' = [NoRoute EXCEPT !.stores = stores, !.limit = limit, !.pc = pc]
      /\ data' = data /\ scan' = scan
      /\ IF "persistent" \in stores THEN Search(limit, offset) ELSE UNCHANGED vars
  BY DEF Route
<1>2. /\ SearchInvariant /\ data \in [Keys -> {"none", "miss", "hit"}]
      /\ SoundScan(router, scan, data) /\ scan \in Scans
  BY DEF RouterInvariant, SoundScan
<1>3. SearchInvariant'
  BY <1>1, <1>2, SearchKeepsSound, UntouchedStaysSound
<1>4. router' = [pc |-> pc, stores |-> stores, limit |-> limit, total |-> 0, missed |-> {}]
  BY <1>1 DEF NoRoute
<1>5. router' \in Routes
  BY <1>4 DEF Routes
<1>6. router'.pc = "persistent" => search'.limit = limit
  <2> SUFFICES ASSUME "persistent" \in stores
               PROVE  search'.limit = limit
    BY <1>4
  <2> QED
    BY <1>1 DEF Search, NoSearch
<1>7. SoundRoute(router', search')
  BY <1>4, <1>5, <1>6 DEF SoundRoute
<1>8. SoundScan(router', scan', data')
  BY <1>1, <1>2, <1>4 DEF SoundScan
<1> QED
  BY <1>1, <1>2, <1>3, <1>7, <1>8 DEF RouterInvariant

LEMMA PersistentKeepsSound ==
  ASSUME RouterInvariant, Persistent
  PROVE  RouterInvariant'
<1>1. /\ \/ SemanticSearch \/ KeywordSearch \/ Answer \/ Fail
         \/ \E m \in Memories, by \in SUBSET Queries : Write(m, by)
      /\ data' = data /\ router' = router /\ scan' = scan
  BY DEF Persistent
<1>2. SearchInvariant
  BY DEF RouterInvariant
<1>3. SearchInvariant' /\ search'.limit = search.limit
  BY <1>1, <1>2, StepsKeepSound
<1> QED
  BY <1>1, <1>3 DEF RouterInvariant, SoundRoute

LEMMA TakePersistentKeepsSound ==
  ASSUME RouterInvariant, TakePersistent
  PROVE  RouterInvariant'
<1> DEFINE pc == IF "working" \in router.stores THEN "working" ELSE "done"
           total == router.total + Len(Filtered)
           missed == IF search.kept = Memories /\ search.offset = 0
                     THEN (UNION {search.always[q] : q \in Queries}) \ InList(search.page)
                     ELSE {}
<1>1. /\ router.pc = "persistent" /\ Done /\ data' = data /\ scan' = scan
      /\ router' = [router EXCEPT !.pc = pc, !.total = total, !.missed = missed]
      /\ search' = NoSearch /\ found' = NotFound /\ writes' = 0
  BY DEF TakePersistent, Done, Joined
<1>2. /\ SearchInvariant /\ data \in [Keys -> {"none", "miss", "hit"}]
      /\ SoundScan(router, scan, data) /\ scan \in Scans
      /\ SoundRoute(router, search) /\ router \in Routes
  BY DEF RouterInvariant, SoundScan, SoundRoute
<1>3. SearchInvariant'
  BY <1>1, ResetIsSound
<1>4. Len(Filtered) \in Nat
  BY <1>1, <1>2, AnswersAre, RankingsAreFunctions
<1>5. total \in Nat
  BY <1>2, <1>4 DEF Routes
<1>6. missed \in SUBSET Memories
  <2>1. search.always \in [Queries -> SUBSET Memories]
    BY <1>2 DEF SearchInvariant, SoundSearch, SearchRecords
  <2> QED
    BY <2>1
<1>7. total < router.limit => missed = {}
  <2> SUFFICES ASSUME total < router.limit, search.kept = Memories, search.offset = 0
               PROVE  (UNION {search.always[q] : q \in Queries}) \ InList(search.page) = {}
    OBVIOUS
  <2>1. router.limit = search.limit /\ search.limit \in Nat
    BY <1>1, <1>2, AnswersAreFusions DEF SoundRoute
  <2>2. Len(Filtered) < search.limit
    BY <1>2, <1>4, <2>1 DEF Routes
  <2>3. \A q \in Queries : search.always[q] \subseteq InList(search.page)
    BY <1>1, <1>2, <2>2, SmallPagesAreComplete
  <2> DEFINE all == UNION {search.always[q] : q \in Queries}
  <2>4. \A m \in all : m \in InList(search.page)
    BY ONLY <2>3
  <2> HIDE DEF all
  <2>5. all \ InList(search.page) = {}
    BY ONLY <2>4
  <2> QED
    BY <2>5 DEF all
<1>8. pc \in {"working", "done"} /\ (pc = "done" => "working" \notin router.stores)
  OBVIOUS
<1> HIDE DEF pc, total, missed
<1>9. /\ router' \in Routes /\ router'.pc = pc /\ router'.stores = router.stores
      /\ router'.limit = router.limit /\ router'.total = total /\ router'.missed = missed
  BY <1>1, <1>2, <1>5, <1>6, <1>8 DEF Routes
<1>10. SoundRoute(router', search')
  BY <1>7, <1>8, <1>9 DEF SoundRoute
<1>11. SoundScan(router', scan', data')
  BY <1>1, <1>2, <1>8, <1>9 DEF SoundScan
<1> QED
  BY <1>1, <1>2, <1>3, <1>10, <1>11 DEF RouterInvariant

LEMMA FailuresKeepSound ==
  ASSUME RouterInvariant, FailPersistent \/ ScanFails
  PROVE  RouterInvariant'
<1>1. /\ router' = [router EXCEPT !.pc = "failed"] /\ UNCHANGED vars
      /\ data' = data /\ scan' = scan
  BY DEF FailPersistent, ScanFails
<1>2. /\ SearchInvariant /\ data \in [Keys -> {"none", "miss", "hit"}]
      /\ SoundScan(router, scan, data) /\ scan \in Scans
      /\ SoundRoute(router, search) /\ router \in Routes
  BY DEF RouterInvariant, SoundScan, SoundRoute
<1>3. SearchInvariant' /\ search' = search
  BY <1>1, <1>2, UntouchedStaysSound
<1>4. /\ router' \in Routes /\ router'.pc = "failed" /\ router'.stores = router.stores
      /\ router'.limit = router.limit /\ router'.total = router.total
      /\ router'.missed = router.missed
  BY <1>1, <1>2 DEF Routes
<1>5. SoundRoute(router', search')
  BY <1>2, <1>4 DEF SoundRoute
<1>6. SoundScan(router', scan', data')
  BY <1>1, <1>2, <1>4 DEF SoundScan
<1> QED
  BY <1>1, <1>2, <1>3, <1>5, <1>6 DEF RouterInvariant

LEMMA BeginScanKeepsSound ==
  ASSUME RouterInvariant, BeginScan
  PROVE  RouterInvariant'
<1> DEFINE live == Live(data')
           hits == Hits(data')
<1>1. /\ router' = [router EXCEPT !.pc = "scan"] /\ UNCHANGED vars
      /\ data' \in [Keys -> {"none", "miss", "hit"}]
      /\ scan' = [NoScan EXCEPT !.owed = live, !.ever = hits, !.always = hits]
  BY DEF BeginScan
<1>2. /\ SearchInvariant /\ SoundRoute(router, search) /\ router \in Routes
  BY DEF RouterInvariant, SoundRoute
<1>3. SearchInvariant' /\ search' = search
  BY <1>1, <1>2, UntouchedStaysSound
<1>4. live \in SUBSET Keys /\ hits \in SUBSET live /\ hits = Hits(data')
  BY DEF Live, Hits
<1> HIDE DEF live, hits
<1>5. /\ router' \in Routes /\ router'.pc = "scan" /\ router'.limit = router.limit
      /\ router'.total = router.total /\ router'.missed = router.missed
  BY <1>1, <1>2 DEF Routes
<1>6. scan' = [batch |-> {}, last |-> FALSE, hits |-> {}, n |-> 0, changes |-> 0,
               owed |-> live, ever |-> hits, always |-> hits, lost |-> {}]
  BY <1>1 DEF NoScan
<1>7. scan' \in Scans
  BY <1>4, <1>6 DEF Scans
<1>8. router.limit \in Nat
  BY <1>2, LimitsAreNatural DEF Routes
<1>9. SoundRoute(router', search')
  BY <1>2, <1>5 DEF SoundRoute
<1>10. SoundScan(router', scan', data')
  BY <1>4, <1>5, <1>6, <1>7, <1>8 DEF SoundScan
<1> QED
  BY <1>1, <1>3, <1>9, <1>10 DEF RouterInvariant

LEMMA ScanBatchKeepsSound ==
  ASSUME RouterInvariant, ScanBatch
  PROVE  RouterInvariant'
<1>1. PICK batch \in SUBSET Live(data), last \in BOOLEAN :
        /\ last => scan.owed \subseteq batch
        /\ scan' = [scan EXCEPT !.batch = batch, !.last = last, !.owed = @ \ batch]
  BY DEF ScanBatch
<1>2. /\ router.pc = "scan" /\ router' = [router EXCEPT !.pc = "get"] /\ UNCHANGED vars
      /\ data' = data
  BY DEF ScanBatch
<1>3. /\ SearchInvariant /\ data \in [Keys -> {"none", "miss", "hit"}]
      /\ SoundScan(router, scan, data) /\ scan \in Scans
      /\ SoundRoute(router, search) /\ router \in Routes
  BY DEF RouterInvariant, SoundScan, SoundRoute
<1>4. SearchInvariant' /\ search' = search
  BY <1>2, <1>3, UntouchedStaysSound
<1>5. /\ router' \in Routes /\ router'.pc = "get" /\ router'.limit = router.limit
      /\ router'.total = router.total /\ router'.missed = router.missed
  BY <1>2, <1>3 DEF Routes
<1>6. batch \in SUBSET Keys
  BY DEF Live
<1>7. /\ scan' \in Scans /\ scan'.batch = batch /\ scan'.last = last
      /\ scan'.owed = scan.owed \ batch /\ scan'.hits = scan.hits /\ scan'.lost = scan.lost
      /\ scan'.n = scan.n /\ scan'.ever = scan.ever /\ scan'.always = scan.always
  BY <1>1, <1>3, <1>6 DEF Scans
<1>8. SoundRoute(router', search')
  BY <1>3, <1>5 DEF SoundRoute
<1>9. SoundScan(router', scan', data')
  BY <1>1, <1>2, <1>3, <1>5, <1>7 DEF SoundScan
<1> QED
  BY <1>2, <1>3, <1>4, <1>8, <1>9 DEF RouterInvariant

LEMMA GetKeepsSound ==
  ASSUME RouterInvariant, NEW k \in Keys, GetKey(k) \/ GetFails(k)
  PROVE  RouterInvariant'
<1>1. /\ router.pc = "get" /\ k \in scan.batch /\ scan.n < router.limit
      /\ UNCHANGED vars /\ data' = data /\ router' = router
  BY DEF GetKey, GetFails
<1>2. \/ /\ data[k] = "hit"
         /\ scan' = [scan EXCEPT !.batch = @ \ {k}, !.hits = @ \cup {k}, !.n = @ + 1]
      \/ data[k] # "hit" /\ scan' = [scan EXCEPT !.batch = @ \ {k}]
      \/ scan' = [scan EXCEPT !.batch = @ \ {k}, !.lost = @ \cup {k}]
  BY DEF GetKey, GetFails
<1>3. /\ SearchInvariant /\ data \in [Keys -> {"none", "miss", "hit"}]
      /\ SoundScan(router, scan, data) /\ scan \in Scans
      /\ SoundRoute(router, search) /\ router \in Routes
  BY DEF RouterInvariant, SoundScan, SoundRoute
<1>4. SearchInvariant' /\ search' = search
  BY <1>1, <1>3, UntouchedStaysSound
<1>5. router.limit \in Nat
  BY <1>3, LimitsAreNatural DEF Routes
<1>6. /\ scan' \in Scans /\ scan'.batch = scan.batch \ {k} /\ scan'.last = scan.last
      /\ scan'.owed = scan.owed /\ scan'.ever = scan.ever /\ scan'.always = scan.always
      /\ \/ /\ k \in Hits(data) /\ scan'.hits = scan.hits \cup {k} /\ scan'.lost = scan.lost
            /\ scan'.n = scan.n + 1
         \/ /\ k \notin Hits(data) /\ scan'.hits = scan.hits /\ scan'.lost = scan.lost
            /\ scan'.n = scan.n
         \/ /\ scan'.hits = scan.hits /\ scan'.lost = scan.lost \cup {k}
            /\ scan'.n = scan.n
  <2>1. CASE /\ data[k] = "hit"
             /\ scan' = [scan EXCEPT !.batch = @ \ {k}, !.hits = @ \cup {k}, !.n = @ + 1]
    <3>1. k \in Hits(data)
      BY <2>1 DEF Hits
    <3>2. scan.n + 1 \in Nat /\ scan.batch \ {k} \in SUBSET Keys /\ scan.hits \cup {k} \in SUBSET Keys
      BY <1>3 DEF Scans
    <3>3. scan' = [scan EXCEPT !.batch = scan.batch \ {k}, !.hits = scan.hits \cup {k},
                               !.n = scan.n + 1]
      BY <2>1
    <3>4. /\ scan' \in Scans /\ scan'.batch = scan.batch \ {k} /\ scan'.last = scan.last
          /\ scan'.owed = scan.owed /\ scan'.ever = scan.ever /\ scan'.always = scan.always
          /\ scan'.hits = scan.hits \cup {k} /\ scan'.lost = scan.lost
          /\ scan'.n = scan.n + 1
      BY ONLY <1>3, <3>2, <3>3 DEF Scans
    <3> QED
      BY <3>1, <3>4
  <2>2. CASE data[k] # "hit" /\ scan' = [scan EXCEPT !.batch = @ \ {k}]
    BY <1>3, <2>2 DEF Scans, Hits
  <2>3. CASE scan' = [scan EXCEPT !.batch = @ \ {k}, !.lost = @ \cup {k}]
    <3>1. scan.batch \ {k} \in SUBSET Keys /\ scan.lost \cup {k} \in SUBSET Keys
      BY <1>3 DEF Scans
    <3>2. scan' = [scan EXCEPT !.batch = scan.batch \ {k}, !.lost = scan.lost \cup {k}]
      BY <2>3
    <3>3. /\ scan' \in Scans /\ scan'.batch = scan.batch \ {k} /\ scan'.last = scan.last
          /\ scan'.owed = scan.owed /\ scan'.ever = scan.ever /\ scan'.always = scan.always
          /\ scan'.hits = scan.hits /\ scan'.lost = scan.lost \cup {k}
          /\ scan'.n = scan.n
      BY ONLY <1>3, <3>1, <3>2 DEF Scans
    <3> QED
      BY <3>3
  <2> QED
    BY <1>2, <2>1, <2>2, <2>3
<1>7. SoundRoute(router', search')
  BY <1>1, <1>3, <1>4 DEF SoundRoute
<1>8. SoundScan(router', scan', data')
  <2>1. /\ scan.hits \subseteq scan.ever /\ scan.always \subseteq Hits(data)
        /\ Hits(data) \subseteq scan.ever /\ scan.n =< router.limit
        /\ scan.always \ (scan.hits \cup scan.lost) \subseteq scan.owed \cup scan.batch
        /\ scan.last => scan.owed = {}
    BY <1>1, <1>3 DEF SoundScan
  <2>2. scan.n \in Nat
    BY <1>3 DEF Scans
  <2>3. scan'.hits \subseteq scan'.ever /\ scan'.n =< router.limit
    BY <1>1, <1>5, <1>6, <2>1, <2>2
  <2>4. scan'.always \ (scan'.hits \cup scan'.lost) \subseteq scan'.owed \cup scan'.batch
    BY <1>6, <2>1
  <2>5. /\ scan'.always \subseteq Hits(data) /\ Hits(data) \subseteq scan'.ever
        /\ scan'.last => scan'.owed = {}
    BY <1>6, <2>1
  <2> QED
    BY <1>1, <1>6, <2>3, <2>4, <2>5 DEF SoundScan
<1> QED
  BY <1>1, <1>3, <1>4, <1>7, <1>8 DEF RouterInvariant

LEMMA EndBatchKeepsSound ==
  ASSUME RouterInvariant, EndBatch
  PROVE  RouterInvariant'
<1>1. /\ router.pc = "get" /\ (scan.batch = {} \/ scan.n >= router.limit)
      /\ UNCHANGED vars /\ data' = data /\ scan' = scan
  BY DEF EndBatch
<1>2. \/ /\ scan.last \/ scan.n >= router.limit
         /\ router' = [router EXCEPT !.pc = "done", !.total = @ + scan.n]
      \/ /\ ~scan.last /\ ~(scan.n >= router.limit)
         /\ router' = [router EXCEPT !.pc = "scan"]
  BY DEF EndBatch, Joined
<1>3. /\ SearchInvariant /\ data \in [Keys -> {"none", "miss", "hit"}]
      /\ SoundScan(router, scan, data) /\ scan \in Scans
      /\ SoundRoute(router, search) /\ router \in Routes
  BY DEF RouterInvariant, SoundScan, SoundRoute
<1>4. SearchInvariant' /\ search' = search
  BY <1>1, <1>3, UntouchedStaysSound
<1>5. router.limit \in Nat /\ router.total \in Nat /\ scan.n \in Nat
  BY <1>3, LimitsAreNatural DEF Routes, Scans
<1>6. /\ router' \in Routes /\ router'.limit = router.limit /\ router'.missed = router.missed
      /\ router'.stores = router.stores
      /\ \/ /\ scan.last \/ scan.n >= router.limit
            /\ router'.pc = "done" /\ router'.total = router.total + scan.n
         \/ /\ ~scan.last /\ ~(scan.n >= router.limit)
            /\ router'.pc = "scan" /\ router'.total = router.total
  <2>1. CASE /\ scan.last \/ scan.n >= router.limit
             /\ router' = [router EXCEPT !.pc = "done", !.total = @ + scan.n]
    <3>1. router.total + scan.n \in Nat
      BY <1>5
    <3>2. router' = [router EXCEPT !.pc = "done", !.total = router.total + scan.n]
      BY <2>1
    <3>3. /\ router' \in Routes /\ router'.limit = router.limit
          /\ router'.missed = router.missed /\ router'.stores = router.stores
          /\ router'.pc = "done" /\ router'.total = router.total + scan.n
      BY ONLY <1>3, <3>1, <3>2 DEF Routes
    <3> QED
      BY <2>1, <3>3
  <2>2. CASE /\ ~scan.last /\ ~(scan.n >= router.limit)
             /\ router' = [router EXCEPT !.pc = "scan"]
    <3>1. /\ router' \in Routes /\ router'.limit = router.limit
          /\ router'.missed = router.missed /\ router'.stores = router.stores
          /\ router'.pc = "scan" /\ router'.total = router.total
      BY <1>3, <2>2 DEF Routes
    <3> QED
      BY <2>2, <3>1
  <2> QED
    BY <1>2, <2>1, <2>2
<1>7. SoundRoute(router', search')
  BY <1>3, <1>5, <1>6 DEF SoundRoute
<1>8. SoundScan(router', scan', data')
  <2>1. /\ scan.hits \subseteq scan.ever /\ scan.always \subseteq Hits(data)
        /\ Hits(data) \subseteq scan.ever /\ scan.n =< router.limit
        /\ scan.always \ (scan.hits \cup scan.lost) \subseteq scan.owed \cup scan.batch
        /\ scan.last => scan.owed = {}
    BY <1>1, <1>3 DEF SoundScan
  <2>2. scan.n < router.limit => scan.batch = {}
    BY <1>1, <1>5
  <2> QED
    BY <1>1, <1>3, <1>5, <1>6, <2>1, <2>2 DEF SoundScan
<1> QED
  BY <1>1, <1>3, <1>4, <1>7, <1>8 DEF RouterInvariant

LEMMA ChangeKeepsSound ==
  ASSUME RouterInvariant, NEW k \in Keys, NEW v \in {"none", "miss", "hit"}, Change(k, v)
  PROVE  RouterInvariant'
<1> DEFINE live == Live(data')
           hits == Hits(data')
<1>1. /\ router.pc \in {"scan", "get"} /\ UNCHANGED vars /\ router' = router
      /\ data' = [data EXCEPT ![k] = v]
      /\ scan' = [scan EXCEPT !.changes = @ + 1, !.owed = @ \cap live,
                              !.ever = @ \cup hits, !.always = @ \cap hits]
  BY DEF Change
<1>2. /\ SearchInvariant /\ data \in [Keys -> {"none", "miss", "hit"}]
      /\ SoundScan(router, scan, data) /\ scan \in Scans
      /\ SoundRoute(router, search) /\ router \in Routes
  BY DEF RouterInvariant, SoundScan, SoundRoute
<1>3. SearchInvariant' /\ search' = search
  BY <1>1, <1>2, UntouchedStaysSound
<1>4. data' \in [Keys -> {"none", "miss", "hit"}]
  BY <1>1, <1>2
<1>5. live \in SUBSET Keys /\ hits \in SUBSET live /\ hits = Hits(data')
  BY DEF Live, Hits
<1> HIDE DEF live, hits
<1>6. /\ scan' \in Scans /\ scan'.batch = scan.batch /\ scan'.last = scan.last
      /\ scan'.owed = scan.owed \cap live /\ scan'.ever = scan.ever \cup hits
      /\ scan'.always = scan.always \cap hits /\ scan'.hits = scan.hits
      /\ scan'.lost = scan.lost /\ scan'.n = scan.n
  <2>1. scan.changes + 1 \in Nat
    BY <1>2 DEF Scans
  <2>2. /\ scan.owed \cap live \in SUBSET Keys /\ scan.ever \cup hits \in SUBSET Keys
        /\ scan.always \cap hits \in SUBSET Keys
    BY <1>2, <1>5 DEF Scans
  <2>3. scan' = [scan EXCEPT !.changes = scan.changes + 1, !.owed = scan.owed \cap live,
                             !.ever = scan.ever \cup hits, !.always = scan.always \cap hits]
    BY <1>1
  <2> QED
    BY ONLY <1>2, <2>1, <2>2, <2>3 DEF Scans
<1>7. SoundRoute(router', search')
  BY <1>1, <1>2, <1>3 DEF SoundRoute
<1>8. SoundScan(router', scan', data')
  BY <1>1, <1>2, <1>5, <1>6 DEF SoundScan
<1> QED
  BY <1>3, <1>4, <1>7, <1>8 DEF RouterInvariant

LEMMA RouterStaysSound == RouterInvariant /\ [RouterNext]_routerVars => RouterInvariant'
<1> SUFFICES ASSUME RouterInvariant, [RouterNext]_routerVars
             PROVE  RouterInvariant'
  OBVIOUS
<1>1. ASSUME NEW stores \in SUBSET Stores \ {{}}, NEW limit \in Limits, NEW offset \in Offsets,
             Route(stores, limit, offset)
      PROVE  RouterInvariant'
  BY <1>1, RouteKeepsSound
<1>2. CASE Persistent
  BY <1>2, PersistentKeepsSound
<1>3. CASE TakePersistent
  BY <1>3, TakePersistentKeepsSound
<1>4. CASE FailPersistent \/ ScanFails
  BY <1>4, FailuresKeepSound
<1>5. CASE BeginScan
  BY <1>5, BeginScanKeepsSound
<1>6. CASE ScanBatch
  BY <1>6, ScanBatchKeepsSound
<1>7. CASE EndBatch
  BY <1>7, EndBatchKeepsSound
<1>8. ASSUME NEW k \in Keys, GetKey(k) \/ GetFails(k)
      PROVE  RouterInvariant'
  BY <1>8, GetKeepsSound
<1>9. ASSUME NEW k \in Keys, NEW v \in {"none", "miss", "hit"}, Change(k, v)
      PROVE  RouterInvariant'
  BY <1>9, ChangeKeepsSound
<1>10. CASE UNCHANGED routerVars
  <2>1. UNCHANGED vars /\ data' = data /\ router' = router /\ scan' = scan
    BY <1>10 DEF routerVars
  <2>2. SearchInvariant' /\ search' = search
    BY <2>1, UntouchedStaysSound DEF RouterInvariant
  <2> QED
    BY <2>1, <2>2 DEF RouterInvariant
<1> QED
  BY <1>1, <1>2, <1>3, <1>4, <1>5, <1>6, <1>7, <1>8, <1>9, <1>10 DEF RouterNext

LEMMA RoutersAreSound == RouterSpec => []RouterInvariant
  BY RouterInitIsSound, RouterStaysSound, PTL DEF RouterSpec

\* In every search, alone or as a part of the router's, no list has a memory twice,
\* although a memory can be in both rankings (search.go:195-201), and no query
\* returns more than three times the limit.
THEOREM SearchTypeCorrect == RouterSpec => []TypeOK
<1>1. RouterInvariant => TypeOK
  BY SoundIsTyped DEF RouterInvariant
<1> QED
  BY <1>1, RoutersAreSound, PTL

\* Fusion respects what both rankings agree on, however long they are
\* (search.go:203-238).
THEOREM FusionKeepsAgreement == RouterSpec => []AgreementIsKept
<1>1. RouterInvariant => AgreementIsKept
  BY SoundAgrees DEF RouterInvariant
<1> QED
  BY <1>1, RoutersAreSound, PTL

\* Whatever the limit, to be found by both queries at ranks up to 61 counts for more
\* than to be first in one (search.go:183, 203-238): at rank 61 of both the two
\* reciprocals make 2/121, and the best of one ranking has 1/61.
THEOREM BothQueriesBeatOne == RouterSpec => []BothBeatOne
<1>1. RouterInvariant => BothBeatOne
  BY SoundPrefersBoth DEF RouterInvariant
<1> QED
  BY <1>1, RoutersAreSound, PTL

\* Nothing is returned that was not findable while the search ran, and what a query
\* would have found all along is not lost in the fusion, unless that query had more
\* than it returns (search.go:46-57).
THEOREM SearchesAreHonest == RouterSpec => []SearchIsHonest
<1>1. RouterInvariant => SearchIsHonest
  BY SoundIsHonest DEF RouterInvariant
<1> QED
  BY <1>1, RoutersAreSound, PTL

\* A page is the window of the filtered list that its offset and limit name, and its
\* scores are those of that window in any other order of the ties
\* (search.go:59-70, 243-283).
THEOREM PagesAreTheWindow == RouterSpec => []PageIsTheWindow
<1>1. RouterInvariant => PageIsTheWindow
  BY SoundPagesAreWindows DEF RouterInvariant
<1> QED
  BY <1>1, RoutersAreSound, PTL

\* A search of the working memories gives only what was a hit while it ran, no more
\* than the limit, and, below the limit, all that was a hit throughout and that
\* Valkey could be asked for (valkey_store.go:122-160).
THEOREM WorkingSearchesAreHonest == RouterSpec => []WorkingSearchIsHonest
<1>1. RouterInvariant => WorkingSearchIsHonest
  BY DEF RouterInvariant, SoundScan, WorkingSearchIsHonest, Answered, Asked, Overlooked
<1> QED
  BY <1>1, RoutersAreSound, PTL

\* An answer with a total below the limit leaves out nothing that either store could
\* have found all along (router.go:141-168).
THEOREM SmallTotalsMissNothing == RouterSpec => []SmallTotalsAreComplete
<1>1. RouterInvariant => SmallTotalsAreComplete
  <2> SUFFICES ASSUME RouterInvariant, Answered, router.total < router.limit
               PROVE  router.missed = {} /\ (Asked("working") => Overlooked = {})
    BY DEF SmallTotalsAreComplete
  <2>1. /\ router.missed = {} /\ router \in Routes /\ scan \in Scans
        /\ SoundScan(router, scan, data)
    BY DEF RouterInvariant, SoundRoute, SoundScan
  <2>2. router.limit \in Nat /\ router.total \in Nat /\ scan.n \in Nat
    BY <2>1, LimitsAreNatural DEF Routes, Scans
  <2>3. Asked("working") =>
          scan.n =< router.total /\ (scan.n < router.limit => Overlooked = {})
    BY <2>1 DEF SoundScan, Answered, Asked, Overlooked
  <2> QED
    BY <2>1, <2>2, <2>3
<1> QED
  BY <1>1, RoutersAreSound, PTL
=============================================================================
