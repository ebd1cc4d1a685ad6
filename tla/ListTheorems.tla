------------------------------ MODULE ListTheorems ------------------------------
(***************************************************************************)
(* Facts about finite sets and lists that the proofs share: least and      *)
(* greatest elements, images and unions, lists without repetition.         *)
(***************************************************************************)
EXTENDS Integers, SequencesExt, FiniteSetTheorems, SequenceTheorems, WellFoundedInduction, TLAPS

-----------------------------------------------------------------------------
(* Finite sets *)

\* A finite set that a relation orders has a least element.
LEMMA FiniteLeast ==
    ASSUME NEW S, IsFiniteSet(S), S # {}, NEW R,
           \A x, y \in S : x # y => <<x, y>> \in R \/ <<y, x>> \in R,
           \A x, y, z \in S : <<x, y>> \in R /\ <<y, z>> \in R => <<x, z>> \in R
    PROVE  \E x \in S : \A y \in S \ {x} : <<x, y>> \in R
<1> DEFINE Led(T)  == \E x \in T : \A y \in T \ {x} : <<x, y>> \in R
           Bad     == {T \in SUBSET S : T # {} /\ ~Led(T)}
           sizes   == {Cardinality(T) : T \in Bad}
           less    == {p \in Nat \X Nat : p[1] < p[2]}
<1> SUFFICES ASSUME ~Led(S) PROVE FALSE
  OBVIOUS
<1>1. \A T \in Bad : IsFiniteSet(T) /\ Cardinality(T) \in Nat
  <2> TAKE T \in Bad
  <2>1. IsFiniteSet(T)
    BY FS_Subset
  <2> QED BY <2>1, FS_CardinalityType
<1>2. S \in Bad
  OBVIOUS
<1>3. sizes \subseteq Nat /\ sizes # {}
  <2> HIDE DEF Bad
  <2> QED BY <1>1, <1>2
<1>4. IsWellFoundedOn(less, Nat)
  BY NatLessThanWellFounded, Zenon DEF OpToRel
<1> HIDE DEF less, sizes
<1>5. PICK n \in sizes : \A m \in sizes : ~(<<m, n>> \in less)
  BY <1>3, <1>4, WFMin
<1>6. PICK T \in Bad : n = Cardinality(T)
  BY <1>5 DEF sizes
<1>7. PICK x \in T : TRUE
  OBVIOUS
<1> DEFINE rest == T \ {x}
<1>8. IsFiniteSet(rest) /\ Cardinality(rest) = n - 1 /\ n \in Nat
  BY <1>1, <1>6, <1>7, FS_RemoveElement
<1>9. Cardinality(rest) \in Nat
  BY <1>8, FS_CardinalityType
<1> DEFINE p == <<Cardinality(rest), n>>
<1>10. p[1] < p[2]
  <2>1. Cardinality(rest) < n
    <3> HIDE DEF rest
    <3> QED BY <1>8, <1>9
  <2> QED BY <2>1
<1>11. p \in less
  <2>1. p \in Nat \X Nat
    BY <1>8, <1>9
  <2> HIDE DEF p
  <2> QED BY <1>10, <2>1 DEF less
<1>12. rest \notin Bad
  <2> SUFFICES ASSUME rest \in Bad PROVE FALSE
    OBVIOUS
  <2>1. Cardinality(rest) \in sizes
    BY DEF sizes
  <2> QED BY <2>1, <1>5, <1>11
<1>13. rest = {} \/ Led(rest)
  <2>1. rest \in SUBSET S
    OBVIOUS
  <2> HIDE DEF rest, Led
  <2> QED BY <2>1, <1>12
<1>14. CASE rest = {}
  <2>1. \A y \in T \ {x} : <<x, y>> \in R
    BY <1>14
  <2> QED BY <2>1, <1>6, <1>7
<1>15. CASE rest # {}
  <2>1. PICK m \in rest : \A y \in rest \ {m} : <<m, y>> \in R
    BY <1>13, <1>15
  <2>2. T \subseteq S /\ x \in S /\ m \in S /\ m # x
    BY <1>7, <2>1
  <2>3. CASE <<m, x>> \in R
    <3>1. \A y \in T \ {m} : <<m, y>> \in R
      BY <2>1, <2>3
    <3> QED BY <3>1, <2>1, <1>6
  <2>4. CASE <<x, m>> \in R
    <3>1. \A y \in T \ {x} : <<x, y>> \in R
      BY <2>1, <2>2, <2>4
    <3> QED BY <3>1, <1>6, <1>7
  <2> QED BY <2>2, <2>3, <2>4
<1> QED BY <1>14, <1>15

\* The least and the greatest of finitely many numbers.
LEMMA MinOf ==
    ASSUME NEW S, IsFiniteSet(S), S # {}, S \subseteq Int
    PROVE  Min(S) \in S /\ \A y \in S : Min(S) <= y
<1> DEFINE R == {p \in S \X S : p[1] <= p[2]}
<1>1. \A x, y \in S : <<x, y>> \in R <=> x <= y
  OBVIOUS
<1> HIDE DEF R
<1>2. PICK x \in S : \A y \in S \ {x} : <<x, y>> \in R
  <2>1. \A x, y \in S : x # y => <<x, y>> \in R \/ <<y, x>> \in R
    BY <1>1
  <2>2. \A x, y, z \in S : <<x, y>> \in R /\ <<y, z>> \in R => <<x, z>> \in R
    BY <1>1
  <2>3. IsFiniteSet(S) /\ S # {}
    OBVIOUS
  <2> QED BY ONLY <2>1, <2>2, <2>3, FiniteLeast
<1>3. ASSUME NEW y \in S PROVE x <= y
  <2>1. x \in Int /\ (y = x \/ y \in S \ {x})
    OBVIOUS
  <2>2. y \in S \ {x} => <<x, y>> \in R
    BY <1>2
  <2> QED BY <1>1, <2>1, <2>2
<1> QED BY <1>3 DEF Min

LEMMA MaxOf ==
    ASSUME NEW S, IsFiniteSet(S), S # {}, S \subseteq Int
    PROVE  Max(S) \in S /\ \A y \in S : y <= Max(S)
<1> DEFINE R == {p \in S \X S : p[1] >= p[2]}
<1>1. \A x, y \in S : <<x, y>> \in R <=> x >= y
  OBVIOUS
<1> HIDE DEF R
<1>2. PICK x \in S : \A y \in S \ {x} : <<x, y>> \in R
  <2>1. \A x, y \in S : x # y => <<x, y>> \in R \/ <<y, x>> \in R
    BY <1>1
  <2>2. \A x, y, z \in S : <<x, y>> \in R /\ <<y, z>> \in R => <<x, z>> \in R
    BY <1>1
  <2>3. IsFiniteSet(S) /\ S # {}
    OBVIOUS
  <2> QED BY ONLY <2>1, <2>2, <2>3, FiniteLeast
<1>3. ASSUME NEW y \in S PROVE x >= y
  <2>1. x \in Int /\ (y = x \/ y \in S \ {x})
    OBVIOUS
  <2>2. y \in S \ {x} => <<x, y>> \in R
    BY <1>2
  <2> QED BY <1>1, <2>1, <2>2
<1>4. \A y \in S : y <= x
  BY <1>3
<1>5. Max(S) \in S /\ \A y \in S : Max(S) >= y
  BY <1>3 DEF Max
<1> QED BY <1>5

\* What a function makes of finitely many things is finite.
LEMMA FiniteImage ==
    ASSUME NEW S, IsFiniteSet(S), NEW f, DOMAIN f = S, NEW T, T = {f[x] : x \in S}
    PROVE  IsFiniteSet(T)
<1> DEFINE g == [x \in S |-> f[x]]
<1>1. g \in Surjection(S, T)
  BY DEF Surjection
<1> QED BY <1>1, FS_Surjection

\* Nor do finitely many finite sets make more.
LEMMA FiniteUnion ==
    ASSUME NEW f, IsFiniteSet(DOMAIN f), \A i \in DOMAIN f : IsFiniteSet(f[i])
    PROVE  IsFiniteSet(UNION {f[i] : i \in DOMAIN f})
<1> DEFINE S == DOMAIN f  T == {f[i] : i \in DOMAIN f}  g == [i \in S |-> f[i]]
<1>1. g \in Surjection(S, T)
  BY DEF Surjection
<1>2. IsFiniteSet(T)
  <2> HIDE DEF g, T
  <2> QED BY <1>1, FS_Surjection
<1>3. \A U \in T : IsFiniteSet(U)
  OBVIOUS
<1> HIDE DEF T
<1> QED BY <1>2, <1>3, FS_UNION DEF T

-----------------------------------------------------------------------------
(* Lists without repetition *)

\* Lists that share nothing make one list.
LEMMA Joined ==
    ASSUME NEW S, NEW s \in Seq(S), NEW t \in Seq(S), IsInjective(s), IsInjective(t),
           Range(s) \cap Range(t) = {}
    PROVE  /\ s \o t \in Seq(S) /\ IsInjective(s \o t) /\ Range(s \o t) = Range(s) \cup Range(t)
           /\ DOMAIN s \subseteq DOMAIN (s \o t) /\ \A i \in DOMAIN s : (s \o t)[i] = s[i]
           /\ \A i \in DOMAIN (s \o t) : i \notin DOMAIN s =>
                 (s \o t)[i] \in Range(t) /\ \A j \in DOMAIN s : j < i
<1> DEFINE r == s \o t  m == Len(s)  n == Len(t)
<1>1. /\ r \in Seq(S) /\ Len(r) = m + n /\ m \in Nat /\ n \in Nat
      /\ DOMAIN s = 1..m /\ DOMAIN t = 1..n
      /\ \A i \in 1..m + n : r[i] = IF i <= m THEN s[i] ELSE t[i - m]
  BY ConcatProperties, LenProperties
<1>2. DOMAIN r = 1..m + n
  BY <1>1, LenProperties
<1>3. Range(r) = Range(s) \cup Range(t)
  BY RangeConcatenation
<1> HIDE DEF r, m, n
<1>4. \A i \in 1..m : i \in DOMAIN r /\ r[i] = s[i] /\ r[i] \in Range(s)
  <2> TAKE i \in 1..m
  <2>1. i \in 1..m + n /\ i <= m
    BY <1>1
  <2>2. r[i] = s[i] /\ s[i] \in Range(s)
    BY <1>1, <2>1 DEF Range
  <2> QED BY <1>2, <2>1, <2>2
<1>5. \A i \in DOMAIN r : i \notin 1..m => i - m \in 1..n /\ r[i] = t[i - m] /\ r[i] \in Range(t)
  <2> TAKE i \in DOMAIN r
  <2> HAVE i \notin 1..m
  <2>1. i - m \in 1..n /\ r[i] = t[i - m]
    BY <1>1, <1>2
  <2> QED BY <1>1, <2>1 DEF Range
<1>6. \A i, j \in DOMAIN r : r[i] = r[j] => i = j
  <2> TAKE i, j \in DOMAIN r
  <2> HAVE r[i] = r[j]
  <2>1. CASE i \in 1..m /\ j \in 1..m
    BY <1>1, <1>4, <2>1 DEF IsInjective
  <2>2. CASE i \notin 1..m /\ j \notin 1..m
    <3>1. i - m = j - m
      BY <1>1, <1>5, <2>2 DEF IsInjective
    <3> QED BY <1>1, <1>2, <3>1
  <2>3. (i \in 1..m) <=> (j \in 1..m)
    BY <1>4, <1>5
  <2> QED BY <2>1, <2>2, <2>3
<1>7. IsInjective(r)
  BY <1>6 DEF IsInjective
<1>8. \A i \in DOMAIN r : i \notin 1..m => \A j \in 1..m : j < i
  BY <1>1, <1>2
<1> QED BY <1>1, <1>3, <1>4, <1>5, <1>7, <1>8 DEF r

\* The head of a list leaves it.
LEMMA Shifted ==
    ASSUME NEW S, NEW s \in Seq(S), IsInjective(s), s # <<>>
    PROVE  /\ Tail(s) \in Seq(S) /\ IsInjective(Tail(s)) /\ Head(s) \in Range(s)
           /\ Range(Tail(s)) = Range(s) \ {Head(s)}
<1> DEFINE t == Tail(s)  m == Len(s)
<1>1. /\ t \in Seq(S) /\ Len(t) = m - 1 /\ \A i \in 1..m - 1 : t[i] = s[i + 1]
      /\ m \in Nat \ {0} /\ DOMAIN s = 1..m /\ Head(s) = s[1]
  BY HeadTailProperties, EmptySeq, LenProperties
<1>2. DOMAIN t = 1..m - 1
  BY <1>1, LenProperties
<1> HIDE DEF t, m
<1>3. IsInjective(t)
  <2> SUFFICES ASSUME NEW i \in DOMAIN t, NEW j \in DOMAIN t, t[i] = t[j] PROVE i = j
    BY DEF IsInjective
  <2>1. i + 1 \in DOMAIN s /\ j + 1 \in DOMAIN s /\ s[i + 1] = s[j + 1]
    BY <1>1, <1>2
  <2>2. i + 1 = j + 1
    BY <2>1 DEF IsInjective
  <2> QED BY <1>1, <1>2, <2>2
<1>4. ASSUME NEW a \in Range(t) PROVE a \in Range(s) \ {Head(s)}
  <2>1. PICK i \in DOMAIN t : t[i] = a
    BY DEF Range
  <2>2. i + 1 \in DOMAIN s /\ s[i + 1] = a /\ 1 \in DOMAIN s /\ i + 1 # 1
    BY <1>1, <1>2, <2>1
  <2> QED BY <1>1, <2>2 DEF Range, IsInjective
<1>5. ASSUME NEW a \in Range(s), a # Head(s) PROVE a \in Range(t)
  <2>1. PICK i \in DOMAIN s : s[i] = a
    BY DEF Range
  <2>2. i - 1 \in DOMAIN t /\ t[i - 1] = a
    BY <1>1, <1>2, <1>5, <2>1
  <2> QED BY <2>2 DEF Range
<1>6. Head(s) \in Range(s)
  <2>1. 1 \in DOMAIN s
    BY <1>1
  <2> QED BY <1>1, <2>1 DEF Range
<1> QED BY <1>1, <1>3, <1>4, <1>5, <1>6 DEF t

\* A sequence has at most as many elements as places.
LEMMA RangeCounted ==
    ASSUME NEW S, NEW s \in Seq(S)
    PROVE  IsFiniteSet(Range(s)) /\ Cardinality(Range(s)) <= Len(s) /\ Cardinality(Range(s)) \in Nat
<1>1. DOMAIN s = 1..Len(s) /\ Len(s) \in Nat /\ s \in [1..Len(s) -> S]
  BY LenProperties
<1>2. IsFiniteSet(1..Len(s)) /\ Cardinality(1..Len(s)) = Len(s)
  <2> DEFINE n == Len(s)
  <2>1. n \in Nat /\ 1 \in Int /\ n \in Int
    BY <1>1
  <2> HIDE DEF n
  <2>2. IsFiniteSet(1..n) /\ Cardinality(1..n) = IF 1 > n THEN 0 ELSE n - 1 + 1
    BY <2>1, FS_Interval
  <2> QED BY <2>1, <2>2 DEF n
<1>3. s \in Surjection(1..Len(s), Range(s))
  BY <1>1 DEF Surjection, Range
<1>4. IsFiniteSet(Range(s)) /\ Cardinality(Range(s)) <= Len(s)
  BY <1>2, <1>3, FS_Surjection
<1> QED BY <1>4, FS_CardinalityType

=============================================================================
