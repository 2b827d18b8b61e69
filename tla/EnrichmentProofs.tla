-------------------------- MODULE EnrichmentProofs --------------------------
(***************************************************************************)
(* What is proved of the two enrichments: of stored documents by the       *)
(* worker that runs in the background (DeepEnrich), and of a question by   *)
(* the pipeline that retrieves, reranks and selects (Enricher with         *)
(* HybridSearch and Reranker).  They share lemmas about finite sets,       *)
(* sequences and folds; the folds of the community modules are choices of  *)
(* a recursive function, whose existence is shown here once.               *)
(***************************************************************************)
EXTENDS DeepEnrich, Enricher, FiniteSetTheorems, WellFoundedInduction, TLAPS

-----------------------------------------------------------------------------
(* Finite sets, sequences and folds *)

(* A set of subsets of a finite set has a minimal member.                    *)
LEMMA LeastSet ==
  ASSUME NEW S, IsFiniteSet(S), NEW F \in SUBSET (SUBSET S), F # {}
  PROVE  \E T \in F : \A U \in F : U \subseteq T => U = T
<1>1. F \subseteq FiniteSubsetsOf(S)
  BY FS_Subset DEF FiniteSubsetsOf
<1>2. IsWellFoundedOn(StrictSubsetOrdering(S), FiniteSubsetsOf(S))
  BY FS_StrictSubsetOrderingWellFounded
<1>3. \E T \in F : \A U \in F : ~(<<U, T>> \in StrictSubsetOrdering(S))
  BY <1>1, <1>2, WFMin
<1>4. QED
  BY <1>3 DEF StrictSubsetOrdering

(* Induction up to n, over a set in place of a predicate.                    *)
LEMMA UpTo ==
  ASSUME NEW n \in Nat, NEW P, 0 \in P, \A k \in 0 .. n - 1 : k \in P => k + 1 \in P
  PROVE  0 .. n \subseteq P
<1> SUFFICES ASSUME NEW j \in 0 .. n, j \notin P PROVE FALSE
  OBVIOUS
<1>1. PICK F : F = {T \in SUBSET (0 .. n) : \E k \in 0 .. n : k \notin P /\ T = 0 .. k}
  OBVIOUS
<1>2. PICK N : N = 0 .. n
  OBVIOUS
<1>3. PICK T \in F : \A U \in F : U \subseteq T => U = T
  <2>1. IsFiniteSet(N)
    BY <1>2, FS_Interval
  <2>2. F \in SUBSET (SUBSET N)
    BY <1>1, <1>2
  <2>3. F # {}
    <3>1. 0 .. j \in F
      BY <1>1
    <3>2. QED
      BY <3>1
  <2>4. QED
    BY <2>1, <2>2, <2>3, LeastSet
<1>4. PICK k \in 0 .. n : k \notin P /\ T = 0 .. k
  BY <1>1
<1>5. k - 1 \in 0 .. n - 1 /\ 0 .. k - 1 \subseteq T /\ k \in T /\ k \notin 0 .. k - 1
  BY <1>4
<1>6. 0 .. k - 1 \notin F
  BY <1>3, <1>5
<1>7. k - 1 \in P
  BY <1>1, <1>5, <1>6
<1>8. QED
  BY <1>4, <1>5, <1>7

(* h is the value of a fold on every subset of D: b on the empty set, else g *)
(* of the element c takes out and of the value on the rest.                  *)
IsFold(h, D, c, b, g) ==
  h[{}] = b /\ \A T \in (SUBSET D) \ {{}} : h[T] = g[c[T]][h[T \ {c[T]}]]

(* A function on the subsets of D that is defined by taking out one element  *)
(* after another exists.                                                     *)
LEMMA FoldExists ==
  ASSUME NEW D, IsFiniteSet(D), NEW Typ, NEW b \in Typ,
         NEW c, \A T \in (SUBSET D) \ {{}} : c[T] \in T,
         NEW g, \A x \in D, v \in Typ : g[x][v] \in Typ
  PROVE  \E h \in [SUBSET D -> Typ] : IsFold(h, D, c, b, g)
<1> DEFINE Small(k) == {T \in SUBSET D : Cardinality(T) <= k}
           Good(k, h) == \A T \in Small(k) : h[T] = IF T = {} THEN b ELSE g[c[T]][h[T \ {c[T]}]]
           P == {k \in Nat : \E h \in [Small(k) -> Typ] : Good(k, h)}
           n == Cardinality(D)
<1>1. n \in Nat /\ \A T \in SUBSET D : Cardinality(T) \in Nat /\ Cardinality(T) <= n
  BY FS_CardinalityType, FS_Subset
<1>2. Small(0) = {{}} /\ Small(n) = SUBSET D
  BY <1>1, FS_EmptySet, FS_Subset
<1>3. ASSUME NEW T \in SUBSET D, T # {}
      PROVE  T \ {c[T]} \in SUBSET D /\ Cardinality(T \ {c[T]}) = Cardinality(T) - 1
  BY <1>3, FS_Subset, FS_RemoveElement
<1>4. 0 \in P
  <2>1. [T \in Small(0) |-> b] \in [Small(0) -> Typ] /\ Good(0, [T \in Small(0) |-> b])
    BY <1>2
  <2>2. QED
    BY <2>1
<1>5. ASSUME NEW k \in 0 .. n - 1, k \in P PROVE k + 1 \in P
  <2>1. PICK h \in [Small(k) -> Typ] : Good(k, h)
    BY <1>5
  <2> DEFINE e == [T \in Small(k + 1) |-> IF T = {} THEN b ELSE g[c[T]][h[T \ {c[T]}]]]
  <2>2. ASSUME NEW T \in Small(k + 1), T # {} PROVE T \ {c[T]} \in Small(k) /\ c[T] \in D
    BY <1>1, <1>3, <2>2
  <2>3. e \in [Small(k + 1) -> Typ]
    BY <2>2
  <2>4. ASSUME NEW T \in Small(k) PROVE T \in Small(k + 1) /\ e[T] = h[T]
    <3>1. T \in Small(k + 1)
      BY <1>1
    <3>2. h[T] = IF T = {} THEN b ELSE g[c[T]][h[T \ {c[T]}]]
      BY <2>1
    <3>3. QED
      BY <3>1, <3>2
  <2>5. Good(k + 1, e)
    <3>1. ASSUME NEW T \in Small(k + 1), T # {}
          PROVE  e[T] = g[c[T]][h[T \ {c[T]}]] /\ e[T \ {c[T]}] = h[T \ {c[T]}]
      BY <2>2, <2>4, <3>1
    <3>2. {} \in Small(k + 1) => e[{}] = b
      OBVIOUS
    <3>3. ASSUME NEW T \in Small(k + 1)
          PROVE  e[T] = IF T = {} THEN b ELSE g[c[T]][e[T \ {c[T]}]]
      <4> HIDE DEF e
      <4>1. QED
        BY <3>1, <3>2
    <3>4. QED
      BY <3>3
  <2>6. k + 1 \in Nat
    OBVIOUS
  <2> HIDE DEF e, Small, Good
  <2>7. QED
    BY <2>3, <2>5, <2>6
<1>6. n \in P
  <2> HIDE DEF P, n
  <2>1. 0 .. n \subseteq P
    BY <1>1, <1>4, <1>5, UpTo
  <2>2. QED
    BY <1>1, <2>1
<1>7. PICK h \in [SUBSET D -> Typ] : \A T \in SUBSET D : h[T] = IF T = {} THEN b ELSE g[c[T]][h[T \ {c[T]}]]
  BY <1>2, <1>6
<1>8. IsFold(h, D, c, b, g)
  BY <1>7 DEF IsFold
<1>9. QED
  BY <1>8

(* A set of places that is not empty has a last one.                         *)
LEMMA MaxExists ==
  ASSUME NEW n \in Nat, NEW T, T \subseteq 1 .. n, T # {}
  PROVE  Max(T) \in T /\ \A y \in T : y <= Max(T)
<1> DEFINE Has(k) == \A U : U \subseteq 1 .. k /\ U # {} => \E x \in U : \A y \in U : x >= y
           P == {k \in Nat : Has(k)}
<1>1. 0 \in P
  <2>1. 1 .. 0 = {}
    OBVIOUS
  <2>2. QED
    BY <2>1
<1>2. ASSUME NEW k \in 0 .. n - 1, k \in P PROVE k + 1 \in P
  <2>1. ASSUME NEW U, U \subseteq 1 .. k + 1, U # {} PROVE \E x \in U : \A y \in U : x >= y
    <3>1. CASE k + 1 \in U
      BY <2>1, <3>1
    <3>2. CASE k + 1 \notin U
      <4>1. U \subseteq 1 .. k
        BY <2>1, <3>2
      <4>2. QED
        BY <1>2, <2>1, <4>1
    <3>3. QED
      BY <3>1, <3>2
  <2>2. k + 1 \in Nat
    OBVIOUS
  <2>3. QED
    BY <2>1, <2>2
<1>3. n \in P
  <2> HIDE DEF P
  <2>1. 0 .. n \subseteq P
    BY <1>1, <1>2, UpTo
  <2>2. QED
    BY <2>1
<1>4. QED
  BY <1>3 DEF Max

(* The last of the first k places.                                           *)
LEMMA MaxOfPrefix ==
  ASSUME NEW k \in Nat, k # 0
  PROVE  Max(1 .. k) = k /\ (1 .. k) \ {Max(1 .. k)} = 1 .. k - 1
<1>1. PICK T : T = 1 .. k
  OBVIOUS
<1>2. k \in T /\ T \subseteq 1 .. k
  BY <1>1
<1>3. Max(T) \in T /\ k <= Max(T)
  <2>1. T # {}
    BY <1>2
  <2>2. QED
    BY <1>2, <2>1, MaxExists
<1>4. QED
  BY <1>1, <1>3

(* The element a left fold takes out of each set of places.                  *)
Maxima(D) == [T \in SUBSET D |-> Max(T)]

(* A left fold takes out the last place of those that are left.              *)
LEMMA LeftFoldExists ==
  ASSUME NEW n \in Nat, NEW D, D = 1 .. n, NEW Typ, NEW b \in Typ,
         NEW g, \A x \in D, v \in Typ : g[x][v] \in Typ
  PROVE  \E h \in [SUBSET D -> Typ] : IsFold(h, D, Maxima(D), b, g)
<1>1. PICK E : E = D
  OBVIOUS
<1>2. IsFiniteSet(E)
  BY <1>1, FS_Interval
<1>3. \A T \in (SUBSET E) \ {{}} : Maxima(E)[T] \in T
  BY <1>1, MaxExists DEF Maxima
<1>4. \A x \in E, v \in Typ : g[x][v] \in Typ
  BY <1>1
<1>5. \E h \in [SUBSET E -> Typ] : IsFold(h, E, Maxima(E), b, g)
  BY <1>2, <1>3, <1>4, FoldExists
<1>6. QED
  BY <1>1, <1>5

(* Any enumeration of a finite set names each of its members once.           *)
LEMMA Enumerated ==
  ASSUME NEW S, IsFiniteSet(S), NEW s \in SetToSeqs(S)
  PROVE  s \in Seq(S) /\ IsInjective(s) /\ ToSet(s) = S
<1>1. PICK D : D = 1 .. Cardinality(S)
  OBVIOUS
<1>2. Cardinality(S) \in Nat
  BY FS_CardinalityType
<1>3. s \in [D -> S] /\ IsInjective(s)
  BY <1>1 DEF SetToSeqs, IsInjective
<1>4. IsFiniteSet(D) /\ Cardinality(D) = Cardinality(S)
  BY <1>1, <1>2, FS_Interval
<1>5. s \in Injection(D, S)
  BY <1>3 DEF Injection
<1>6. s \in Surjection(D, S)
  BY <1>4, <1>5, FS_Injection
<1>7. ToSet(s) = S
  BY <1>3, <1>6 DEF Surjection, ToSet
<1>8. s \in Seq(S)
  BY <1>1, <1>2, <1>3
<1>9. QED
  BY <1>3, <1>7, <1>8

(* The image of a finite set is finite and not larger, and as large exactly  *)
(* if no two elements have one image.                                        *)
LEMMA ImageIsFinite ==
  ASSUME NEW S, IsFiniteSet(S), NEW f
  PROVE  /\ IsFiniteSet({f[x] : x \in S}) /\ Cardinality({f[x] : x \in S}) \in Nat
         /\ Cardinality(S) \in Nat /\ Cardinality({f[x] : x \in S}) <= Cardinality(S)
         /\ (\A x, y \in S : f[x] = f[y] => x = y) => Cardinality({f[x] : x \in S}) = Cardinality(S)
         /\ Cardinality({f[x] : x \in S}) = Cardinality(S) => \A x, y \in S : f[x] = f[y] => x = y
<1> DEFINE T == {f[x] : x \in S}
           g == [x \in S |-> f[x]]
<1>1. g \in Surjection(S, T)
  BY DEF Surjection
<1>2. /\ IsFiniteSet(T) /\ Cardinality(T) <= Cardinality(S)
      /\ Cardinality(T) = Cardinality(S) <=> g \in Injection(S, T)
  <2> HIDE DEF g, T
  <2>1. QED
    BY <1>1, FS_Surjection
<1>3. g \in Injection(S, T) <=> \A x, y \in S : f[x] = f[y] => x = y
  BY DEF Injection, IsInjective
<1>4. Cardinality(T) \in Nat /\ Cardinality(S) \in Nat
  <2> HIDE DEF T
  <2>1. QED
    BY <1>2, FS_CardinalityType
<1>5. QED
  BY <1>2, <1>3, <1>4

(* The smaller of two numbers.                                               *)
LEMMA MinOfTwo ==
  ASSUME NEW a \in Int, NEW b \in Int
  PROVE  Min({a, b}) = IF a <= b THEN a ELSE b
<1> DEFINE m == IF a <= b THEN a ELSE b
<1>1. m \in {a, b} /\ \A y \in {a, b} : m <= y
  OBVIOUS
<1>2. \A x \in {a, b} : (\A y \in {a, b} : x <= y) => x = m
  OBVIOUS
<1>3. QED
  BY <1>1, <1>2 DEF Min

(* The smallest of three numbers.                                            *)
LEMMA MinOfThree ==
  ASSUME NEW a \in Int, NEW b \in Int, NEW c \in Int
  PROVE  /\ Min({a, b, c}) \in Int /\ Min({a, b, c}) <= a /\ Min({a, b, c}) <= b /\ Min({a, b, c}) <= c
         /\ Min({a, b, c}) \in {a, b, c}
<1> DEFINE m == IF a <= b /\ a <= c THEN a ELSE IF b <= c THEN b ELSE c
<1>1. m \in {a, b, c} /\ \A y \in {a, b, c} : m <= y
  OBVIOUS
<1>2. Min({a, b, c}) \in {a, b, c} /\ \A y \in {a, b, c} : Min({a, b, c}) <= y
  <2> HIDE DEF m
  <2>1. QED
    BY <1>1 DEF Min
<1>3. QED
  BY <1>2

(* A set of numbers that is not empty.                                       *)
Numbers(S) == S # {} /\ \A x \in S : x \in Int

(* A finite set of numbers that is not empty has a least and a greatest.     *)
LEMMA BoundsExist ==
  ASSUME NEW S, IsFiniteSet(S), Numbers(S)
  PROVE  /\ \E x \in S : \A y \in S : x <= y
         /\ \E x \in S : \A y \in S : x >= y
<1> DEFINE Has(T) == (\E x \in T : \A y \in T : x <= y) /\ (\E x \in T : \A y \in T : x >= y)
           F == {T \in SUBSET S : T # {} /\ ~Has(T)}
<1>1. F = {}
  <2> SUFFICES ASSUME F # {} PROVE FALSE
    OBVIOUS
  <2>1. F \in SUBSET (SUBSET S)
    OBVIOUS
  <2>2. PICK T \in F : \A U \in F : U \subseteq T => U = T
    <3> HIDE DEF F
    <3>1. QED
      BY <2>1, LeastSet
  <2>3. T \in SUBSET S /\ T # {} /\ ~Has(T) /\ \A x \in T : x \in Int
    BY DEF Numbers
  <2>4. PICK x \in T : TRUE
    BY <2>3
  <2>5. CASE T \ {x} = {}
    <3>1. T = {x} /\ x \in Int
      BY <2>3, <2>5
    <3>2. QED
      BY <2>3, <3>1
  <2>6. CASE T \ {x} # {}
    <3>1. T \ {x} \notin F
      BY <2>2
    <3>2. Has(T \ {x})
      BY <2>3, <2>6, <3>1
    <3>3. PICK l \in T \ {x} : \A y \in T \ {x} : l <= y
      BY <3>2
    <3>4. PICK h \in T \ {x} : \A y \in T \ {x} : h >= y
      BY <3>2
    <3>5. x \in Int /\ l \in Int /\ h \in Int /\ l \in T /\ h \in T
      BY <2>3
    <3>6. \E z \in T : \A y \in T : z <= y
      <4>1. CASE l <= x
        BY <3>3, <3>5, <4>1
      <4>2. CASE ~(l <= x)
        <5>1. \A y \in T : x <= y
          BY <2>3, <3>3, <3>5, <4>2
        <5>2. QED
          BY <5>1
      <4>3. QED
        BY <4>1, <4>2
    <3>7. \E z \in T : \A y \in T : z >= y
      <4>1. CASE h >= x
        BY <3>4, <3>5, <4>1
      <4>2. CASE ~(h >= x)
        <5>1. \A y \in T : x >= y
          BY <2>3, <3>4, <3>5, <4>2
        <5>2. QED
          BY <5>1
      <4>3. QED
        BY <4>1, <4>2
    <3>8. QED
      BY <2>3, <3>6, <3>7
  <2>7. QED
    BY <2>5, <2>6
<1>2. S # {}
  BY DEF Numbers
<1>3. QED
  BY <1>1, <1>2

(* A product of natural numbers is one.                                      *)
LEMMA Product ==
  ASSUME NEW a \in Nat, NEW b \in Nat
  PROVE  a * b \in Nat
OBVIOUS

(* A quotient of natural numbers is one.                                     *)
LEMMA Quotient ==
  ASSUME NEW a \in Nat, NEW b \in Nat \ {0}
  PROVE  a \div b \in Nat
OBVIOUS

(* A number is not larger than its multiples.                                *)
LEMMA Widened ==
  ASSUME NEW a \in Nat, NEW w \in Nat \ {0}
  PROVE  w * a \in Nat /\ w * a >= a
<1>1. w * a = a + (w - 1) * a
  OBVIOUS
<1>2. (w - 1) * a \in Nat
  <2>1. w - 1 \in Nat
    OBVIOUS
  <2>2. QED
    BY <2>1, Product
<1>3. QED
  BY <1>1, <1>2

(* No entry is repeated.                                                     *)
Once(q) == \A i, j \in DOMAIN q : q[i] = q[j] => i = j

(* One entry more.                                                           *)
LEMMA AppendOnce ==
  ASSUME NEW A, NEW q \in Seq(A), NEW x \in A
  PROVE  /\ Append(q, x) \in Seq(A) /\ Len(Append(q, x)) = Len(q) + 1
         /\ ToSet(Append(q, x)) = ToSet(q) \cup {x}
         /\ Once(q) /\ x \notin ToSet(q) => Once(Append(q, x))
<1>1. PICK p : p = Append(q, x)
  OBVIOUS
<1>2. p \in Seq(A) /\ Len(p) = Len(q) + 1 /\ DOMAIN p = 1 .. Len(q) + 1 /\ DOMAIN q = 1 .. Len(q) /\ Len(q) \in Nat
  BY <1>1
<1>3. p[Len(q) + 1] = x /\ \A i \in 1 .. Len(q) : p[i] = q[i]
  BY <1>1
<1>4. ToSet(p) = ToSet(q) \cup {x}
  <2>1. ToSet(p) \subseteq ToSet(q) \cup {x}
    BY <1>2, <1>3 DEF ToSet
  <2>2. ToSet(q) \subseteq ToSet(p)
    BY <1>2, <1>3 DEF ToSet
  <2>3. x \in ToSet(p)
    BY <1>2, <1>3 DEF ToSet
  <2>4. QED
    BY <2>1, <2>2, <2>3
<1>5. Once(q) /\ x \notin ToSet(q) => Once(p)
  BY <1>2, <1>3 DEF ToSet, Once
<1>6. QED
  BY <1>1, <1>2, <1>4, <1>5

(* The first entry is taken.                                                 *)
LEMMA TailOnce ==
  ASSUME NEW A, NEW q \in Seq(A), q # <<>>
  PROVE  /\ Head(q) \in A /\ Tail(q) \in Seq(A)
         /\ ToSet(q) = ToSet(Tail(q)) \cup {Head(q)}
         /\ Once(q) => Once(Tail(q)) /\ Head(q) \notin ToSet(Tail(q))
<1>1. PICK p : p = Tail(q)
  OBVIOUS
<1>2. PICK h : h = Head(q)
  OBVIOUS
<1>3. p \in Seq(A) /\ Len(p) = Len(q) - 1 /\ DOMAIN p = 1 .. Len(q) - 1 /\ DOMAIN q = 1 .. Len(q) /\ Len(q) \in Nat \ {0}
  BY <1>1
<1>4. h \in A /\ h = q[1] /\ \A i \in 1 .. Len(q) - 1 : p[i] = q[i + 1]
  BY <1>1, <1>2
<1>5. ToSet(q) = ToSet(p) \cup {h}
  <2>1. ASSUME NEW i \in DOMAIN q PROVE q[i] \in ToSet(p) \cup {h}
    <3>1. CASE i = 1
      BY <1>4, <3>1
    <3>2. CASE i # 1
      <4>1. i - 1 \in DOMAIN p /\ p[i - 1] = q[i]
        BY <1>3, <1>4, <3>2
      <4>2. QED
        BY <4>1 DEF ToSet
    <3>3. QED
      BY <3>1, <3>2
  <2>2. \A i \in DOMAIN p : p[i] \in ToSet(q)
    BY <1>3, <1>4 DEF ToSet
  <2>3. h \in ToSet(q)
    BY <1>3, <1>4 DEF ToSet
  <2>4. QED
    BY <2>1, <2>2, <2>3 DEF ToSet
<1>6. ASSUME Once(q) PROVE Once(p) /\ h \notin ToSet(p)
  <2>1. ASSUME NEW i \in DOMAIN p, NEW j \in DOMAIN p, p[i] = p[j] PROVE i = j
    <3>1. i + 1 \in DOMAIN q /\ j + 1 \in DOMAIN q /\ q[i + 1] = q[j + 1]
      BY <1>3, <1>4, <2>1
    <3>2. QED
      BY <1>3, <1>6, <3>1 DEF Once
  <2>2. ASSUME NEW i \in DOMAIN p PROVE p[i] # h
    <3>1. i + 1 \in DOMAIN q /\ 1 \in DOMAIN q /\ i + 1 # 1 /\ p[i] = q[i + 1]
      BY <1>3, <1>4
    <3>2. QED
      BY <1>4, <1>6, <3>1 DEF Once
  <2>3. QED
    BY <2>1, <2>2 DEF Once, ToSet
<1>7. QED
  BY <1>1, <1>2, <1>3, <1>4, <1>5, <1>6

(* Without repetition there are as many entries as places.                   *)
LEMMA OnceCounted ==
  ASSUME NEW A, NEW q \in Seq(A), Once(q)
  PROVE  IsFiniteSet(ToSet(q)) /\ Cardinality(ToSet(q)) = Len(q)
<1>1. PICK D : D = 1 .. Len(q)
  OBVIOUS
<1>2. IsFiniteSet(D) /\ Cardinality(D) = Len(q) /\ D = DOMAIN q
  BY <1>1, FS_Interval
<1>3. ToSet(q) = {q[i] : i \in D}
  BY <1>2 DEF ToSet
<1>4. \A i, j \in D : q[i] = q[j] => i = j
  BY <1>2 DEF Once
<1>5. IsFiniteSet({q[i] : i \in D}) /\ Cardinality({q[i] : i \in D}) = Cardinality(D)
  <2>1. IsFiniteSet({q[i] : i \in D})
    BY <1>2, ImageIsFinite
  <2>2. Cardinality({q[i] : i \in D}) = Cardinality(D)
    BY <1>2, <1>4, ImageIsFinite
  <2>3. QED
    BY <2>1, <2>2
<1>6. QED
  BY <1>2, <1>3, <1>5

(* Head and tail of a sequence by places.                                    *)
LEMMA RestOfSequence ==
  ASSUME NEW S, NEW s \in Seq(S), s # <<>>
  PROVE  /\ Head(s) \in S /\ Head(s) = s[1] /\ 1 \in DOMAIN s /\ Tail(s) \in Seq(S)
         /\ \A k \in DOMAIN Tail(s) : k + 1 \in DOMAIN s /\ k + 1 # 1 /\ Tail(s)[k] = s[k + 1]
         /\ \A k \in DOMAIN s : k = 1 \/ (k - 1 \in DOMAIN Tail(s) /\ Tail(s)[k - 1] = s[k])
         /\ \A k, l \in DOMAIN Tail(s) : k + 1 = l + 1 => k = l
OBVIOUS

-----------------------------------------------------------------------------
(* The worker *)

(* The tokens of a sequence of documents are summed prefix by prefix: the    *)
(* fold in Sum, unrolled.                                                    *)
LEMMA SumAtPrefixes ==
  ASSUME NEW s \in Seq(Snapshot)
  PROVE  \E p \in [0 .. Len(s) -> Nat] :
           /\ p[0] = 0 /\ Sum(s) = p[Len(s)]
           /\ \A k \in 1 .. Len(s) : p[k] = p[k - 1] + Tokens[s[k].id]
<1> DEFINE D == DOMAIN s
           n == Len(s)
           Body(f) == [T \in SUBSET D |->
                         IF T = {} THEN 0 ELSE f[T \ {Max(T)}] + Tokens[s[Max(T)].id]]
           f == CHOOSE h : h = Body(h)
           g == [x \in D |-> [v \in Nat |-> v + Tokens[s[x].id]]]
<1>1. Sum(s) = f[D]
  BY DEF Sum, FoldLeft, MapThenFoldSet
<1>2. D = 1 .. n /\ n \in Nat
  OBVIOUS
<1>3. \A x \in D : Tokens[s[x].id] \in Nat
  <2>1. \A d \in Snapshot : Tokens[d.id] \in Nat
    BY DeepAssumption DEF Snapshot
  <2>2. \A x \in D : s[x] \in Snapshot
    OBVIOUS
  <2>3. QED
    BY <2>1, <2>2
<1>4. PICK h \in [SUBSET D -> Nat] : IsFold(h, D, Maxima(D), 0, g)
  <2>1. \A x \in D, v \in Nat : g[x][v] \in Nat
    BY <1>3
  <2>2. 0 \in Nat
    OBVIOUS
  <2> HIDE DEF g, D, n
  <2>3. QED
    BY <1>2, <2>1, <2>2, LeftFoldExists
<1>5. h = Body(h)
  <2>1. ASSUME NEW T \in SUBSET D, T # {}
        PROVE  h[T] = h[T \ {Max(T)}] + Tokens[s[Max(T)].id]
    <3>1. Max(T) \in D
      BY <1>2, <2>1, MaxExists
    <3>2. h[T] = g[Max(T)][h[T \ {Max(T)}]] /\ h[T \ {Max(T)}] \in Nat
      BY <1>4, <2>1 DEF IsFold, Maxima
    <3>3. QED
      BY <3>1, <3>2
  <2>2. QED
    BY <1>4, <2>1 DEF IsFold
<1>6. f = Body(f)
  BY <1>5
<1> HIDE DEF f
<1>7. f[{}] = 0 /\ \A k \in 1 .. n : f[1 .. k] = f[1 .. k - 1] + Tokens[s[k].id]
  <2>1. ASSUME NEW k \in 1 .. n PROVE f[1 .. k] = f[1 .. k - 1] + Tokens[s[k].id]
    <3>1. PICK T : T = 1 .. k
      OBVIOUS
    <3>2. T \in SUBSET D /\ T # {} /\ Max(T) = k /\ T \ {Max(T)} = 1 .. k - 1
      BY <1>2, <3>1, MaxOfPrefix
    <3>3. QED
      BY <1>6, <3>1, <3>2
  <2>2. QED
    BY <1>6, <2>1
<1> DEFINE p == [k \in 0 .. n |-> f[1 .. k]]
<1>8. p[0] = 0 /\ p[n] = f[D] /\ \A k \in 1 .. n : p[k] = p[k - 1] + Tokens[s[k].id]
  <2>1. 1 .. 0 = {}
    OBVIOUS
  <2>2. QED
    BY <1>2, <1>7, <2>1
<1>9. 0 .. n \subseteq {k \in Int : p[k] \in Nat}
  <2> HIDE DEF p, n
  <2> DEFINE P == {k \in Int : p[k] \in Nat}
  <2>1. 0 \in P
    BY <1>8
  <2>2. ASSUME NEW k \in 0 .. n - 1, k \in P PROVE k + 1 \in P
    BY <1>2, <1>3, <1>8, <2>2
  <2> HIDE DEF P
  <2>3. QED
    BY <1>2, <2>1, <2>2, UpTo DEF P
<1>10. p \in [0 .. n -> Nat]
  BY <1>9
<1>11. QED
  BY <1>1, <1>8, <1>10

(* A document adds its tokens to the sum of a batch.                         *)
LEMMA SumAppend ==
  ASSUME NEW c \in Seq(Snapshot), NEW d \in Snapshot
  PROVE  /\ Sum(<<>>) = 0 /\ Sum(c) \in Nat
         /\ Sum(Append(c, d)) = Sum(c) + Tokens[d.id]
<1> DEFINE n == Len(c)
           e == Append(c, d)
<1>1. Sum(<<>>) = 0
  <2>1. <<>> \in Seq(Snapshot) /\ Len(<<>>) = 0
    OBVIOUS
  <2>2. QED
    BY <2>1, SumAtPrefixes
<1>2. PICK p \in [0 .. n -> Nat] :
        p[0] = 0 /\ Sum(c) = p[n] /\ \A k \in 1 .. n : p[k] = p[k - 1] + Tokens[c[k].id]
  BY SumAtPrefixes
<1>3. e \in Seq(Snapshot) /\ Len(e) = n + 1 /\ n \in Nat /\ e[n + 1] = d /\ \A k \in 1 .. n : e[k] = c[k]
  OBVIOUS
<1> HIDE DEF e, n
<1>4. PICK q \in [0 .. Len(e) -> Nat] :
        q[0] = 0 /\ Sum(e) = q[Len(e)] /\ \A k \in 1 .. Len(e) : q[k] = q[k - 1] + Tokens[e[k].id]
  BY <1>3, SumAtPrefixes
<1>5. p[n] = q[n]
  <2> DEFINE P == {k \in 0 .. n : p[k] = q[k]}
  <2>1. 0 \in P
    BY <1>2, <1>3, <1>4
  <2>2. ASSUME NEW k \in 0 .. n - 1, k \in P PROVE k + 1 \in P
    <3>1. k + 1 \in 1 .. n /\ k + 1 \in 1 .. Len(e) /\ (k + 1) - 1 = k /\ p[k] = q[k]
      BY <1>3, <2>2
    <3>2. p[k + 1] = p[k] + Tokens[c[k + 1].id] /\ q[k + 1] = q[k] + Tokens[e[k + 1].id]
      BY <1>2, <1>4, <3>1
    <3>3. QED
      BY <1>3, <3>1, <3>2
  <2> HIDE DEF P
  <2>3. 0 .. n \subseteq P
    BY <1>3, <2>1, <2>2, UpTo
  <2>4. QED
    BY <1>3, <2>3 DEF P
<1>6. Sum(e) = q[n] + Tokens[d.id]
  <2>1. n + 1 \in 1 .. Len(e) /\ (n + 1) - 1 = n
    BY <1>3
  <2>2. QED
    BY <1>3, <1>4, <2>1
<1>7. QED
  BY <1>1, <1>2, <1>3, <1>5, <1>6 DEF e, n

(* What BatchDocuments carries from document to document.                    *)
Packing == [done : Seq(Seq(Snapshot)), current : Seq(Snapshot)]

(* What it begins with.                                                      *)
NoPacking == [done |-> <<>>, current |-> <<>>]

(* A document is packed into a packing.                                      *)
LEMMA PackType ==
  ASSUME NEW q \in Packing, NEW d \in Snapshot
  PROVE  Close(q) \in Seq(Seq(Snapshot)) /\ Pack(q, d) \in Packing
<1>1. Close(q) \in Seq(Seq(Snapshot))
  BY DEF Packing, Close
<1>2. <<d>> \in Seq(Snapshot) /\ <<>> \in Seq(Snapshot) /\ Append(q.current, d) \in Seq(Snapshot)
  BY DEF Packing
<1>3. Append(Close(q), <<d>>) \in Seq(Seq(Snapshot))
  BY <1>1, <1>2
<1>4. [q EXCEPT !.current = Append(q.current, d)] \in Packing
  BY <1>2 DEF Packing
<1>5. QED
  BY <1>1, <1>2, <1>3, <1>4 DEF Packing, Pack

(* BatchDocuments packs document by document: its fold, unrolled.            *)
LEMMA PackedAtPrefixes ==
  ASSUME NEW s \in Seq(Snapshot)
  PROVE  \E p \in [0 .. Len(s) -> Packing] :
           /\ p[0] = NoPacking /\ BatchDocuments(s) = Close(p[Len(s)])
           /\ \A k \in 1 .. Len(s) : p[k] = Pack(p[k - 1], s[k])
<1> DEFINE D == DOMAIN s
           n == Len(s)
           Body(f) == [T \in SUBSET D |->
                         IF T = {} THEN NoPacking ELSE Pack(f[T \ {Max(T)}], s[Max(T)])]
           f == CHOOSE h : h = Body(h)
           g == [x \in D |-> [v \in Packing |-> Pack(v, s[x])]]
<1>1. BatchDocuments(s) = Close(f[D])
  BY DEF BatchDocuments, FoldLeft, MapThenFoldSet, NoPacking
<1>2. D = 1 .. n /\ n \in Nat
  OBVIOUS
<1>3. \A x \in D, v \in Packing : Pack(v, s[x]) \in Packing
  <2>1. \A x \in D : s[x] \in Snapshot
    OBVIOUS
  <2>2. QED
    BY <2>1, PackType
<1>4. PICK h \in [SUBSET D -> Packing] : IsFold(h, D, Maxima(D), NoPacking, g)
  <2>1. \A x \in D, v \in Packing : g[x][v] \in Packing
    BY <1>3
  <2>2. NoPacking \in Packing
    BY DEF NoPacking, Packing
  <2> HIDE DEF g, D, n
  <2>3. QED
    BY <1>2, <2>1, <2>2, LeftFoldExists
<1>5. h = Body(h)
  <2>1. ASSUME NEW T \in SUBSET D, T # {}
        PROVE  h[T] = Pack(h[T \ {Max(T)}], s[Max(T)])
    <3>1. Max(T) \in D
      BY <1>2, <2>1, MaxExists
    <3>2. h[T] = g[Max(T)][h[T \ {Max(T)}]] /\ h[T \ {Max(T)}] \in Packing
      BY <1>4, <2>1 DEF IsFold, Maxima
    <3>3. QED
      BY <3>1, <3>2
  <2>2. QED
    BY <1>4, <2>1 DEF IsFold
<1>6. f = Body(f)
  BY <1>5
<1> HIDE DEF f
<1>7. f[{}] = NoPacking /\ \A k \in 1 .. n : f[1 .. k] = Pack(f[1 .. k - 1], s[k])
  <2>1. ASSUME NEW k \in 1 .. n PROVE f[1 .. k] = Pack(f[1 .. k - 1], s[k])
    <3>1. PICK T : T = 1 .. k
      OBVIOUS
    <3>2. T \in SUBSET D /\ T # {} /\ Max(T) = k /\ T \ {Max(T)} = 1 .. k - 1
      BY <1>2, <3>1, MaxOfPrefix
    <3>3. QED
      BY <1>6, <3>1, <3>2
  <2>2. QED
    BY <1>6, <2>1
<1> DEFINE p == [k \in 0 .. n |-> f[1 .. k]]
<1>8. p[0] = NoPacking /\ p[n] = f[D] /\ \A k \in 1 .. n : p[k] = Pack(p[k - 1], s[k])
  <2>1. 1 .. 0 = {}
    OBVIOUS
  <2>2. QED
    BY <1>2, <1>7, <2>1
<1>9. \A k \in 0 .. n : p[k] \in Packing
  <2> HIDE DEF p, n
  <2> DEFINE P == {k \in 0 .. n : p[k] \in Packing}
  <2>1. 0 \in P
    <3>1. NoPacking \in Packing /\ 0 \in 0 .. n
      BY <1>2 DEF NoPacking, Packing
    <3>2. QED
      BY <1>8, <3>1
  <2>2. ASSUME NEW k \in 0 .. n - 1, k \in P PROVE k + 1 \in P
    <3>1. k + 1 \in 1 .. n /\ k + 1 \in 0 .. n /\ (k + 1) - 1 = k /\ p[k] \in Packing
      BY <1>2, <2>2
    <3>2. p[k + 1] = Pack(p[k], s[k + 1])
      BY <1>8, <3>1
    <3>3. s[k + 1] \in Snapshot
      BY <1>2, <3>1
    <3>4. QED
      BY <3>1, <3>2, <3>3, PackType
  <2> HIDE DEF P
  <2>3. 0 .. n \subseteq P
    BY <1>2, <2>1, <2>2, UpTo
  <2>4. QED
    BY <2>3 DEF P
<1>10. p \in [0 .. n -> Packing]
  BY <1>9
<1>11. QED
  BY <1>1, <1>8, <1>10

(* A sequence of documents without repetition.                               *)
Distinct(c) == \A i, j \in DOMAIN c : c[i].id = c[j].id => i = j

(* A batch is within the budget, or one document that is beyond it.          *)
Fits(b) == Len(b) = 1 \/ Sum(b) <= MaxTokens

(* The documents of a sequence of batches.                                   *)
Held(B) == {x \in Doc : \E m \in DOMAIN B : x \in Ids(B[m])}

(* No batch is empty, repeats a document, is beyond the budget or shares a   *)
(* document with another.                                                    *)
SoundBatches(B) ==
  /\ B \in Seq(Seq(Snapshot))
  /\ \A m \in DOMAIN B : B[m] # <<>> /\ Distinct(B[m]) /\ Fits(B[m])
  /\ \A l, m \in DOMAIN B : l # m => Ids(B[l]) \cap Ids(B[m]) = {}

(* A document appended adds its id.                                          *)
LEMMA IdsAppend ==
  ASSUME NEW c \in Seq(Snapshot), NEW d \in Snapshot
  PROVE  /\ Ids(<<>>) = {} /\ Ids(<<d>>) = {d.id} /\ Ids(c) \subseteq Doc
         /\ Ids(Append(c, d)) = Ids(c) \cup {d.id}
         /\ Distinct(<<>>) /\ Distinct(<<d>>)
         /\ Distinct(c) /\ d.id \notin Ids(c) => Distinct(Append(c, d))
<1> DEFINE e == Append(c, d)
<1>1. /\ DOMAIN e = DOMAIN c \cup {Len(c) + 1} /\ e[Len(c) + 1] = d
      /\ \A k \in DOMAIN c : e[k] = c[k]
  OBVIOUS
<1>2. \A k \in DOMAIN c : c[k] \in Snapshot
  OBVIOUS
<1>3. Ids(c) \subseteq Doc
  BY <1>2 DEF Ids, Snapshot
<1> HIDE DEF e
<1>4. Ids(e) = Ids(c) \cup {d.id}
  BY <1>1 DEF Ids
<1>5. Distinct(c) /\ d.id \notin Ids(c) => Distinct(e)
  BY <1>1 DEF Distinct, Ids
<1>6. Ids(<<>>) = {} /\ Ids(<<d>>) = {d.id} /\ Distinct(<<>>) /\ Distinct(<<d>>)
  BY DEF Ids, Distinct
<1>7. QED
  BY <1>3, <1>4, <1>5, <1>6 DEF e

(* A batch of other documents can be closed.                                 *)
LEMMA SoundAppend ==
  ASSUME NEW B, SoundBatches(B), NEW c \in Seq(Snapshot), c # <<>>, Distinct(c), Fits(c),
         Ids(c) \cap Held(B) = {}
  PROVE  SoundBatches(Append(B, c)) /\ Held(Append(B, c)) = Held(B) \cup Ids(c)
<1> DEFINE e == Append(B, c)
<1>1. e \in Seq(Seq(Snapshot))
  BY DEF SoundBatches
<1>2. /\ DOMAIN e = DOMAIN B \cup {Len(B) + 1} /\ e[Len(B) + 1] = c
      /\ \A k \in DOMAIN B : e[k] = B[k]
  BY DEF SoundBatches
<1>3. Ids(c) \subseteq Doc
  <2>1. \A k \in DOMAIN c : c[k] \in Snapshot
    OBVIOUS
  <2>2. QED
    BY <2>1 DEF Ids, Snapshot
<1> HIDE DEF e
<1>4. Held(e) = Held(B) \cup Ids(c)
  BY <1>2, <1>3 DEF Held
<1>5. \A m \in DOMAIN B : Ids(B[m]) \cap Ids(c) = {}
  BY <1>3 DEF Held
<1>6. \A m \in DOMAIN e : e[m] # <<>> /\ Distinct(e[m]) /\ Fits(e[m])
  BY <1>2 DEF SoundBatches
<1>7. \A l, m \in DOMAIN e : l # m => Ids(e[l]) \cap Ids(e[m]) = {}
  BY <1>2, <1>5 DEF SoundBatches
<1>8. QED
  BY <1>1, <1>4, <1>6, <1>7 DEF SoundBatches, e

(* The packing q holds the documents X, each once.                           *)
SoundPacking(q, X) ==
  /\ q \in Packing
  /\ SoundBatches(q.done) /\ Distinct(q.current) /\ Sum(q.current) <= MaxTokens
  /\ Ids(q.current) \cap Held(q.done) = {}
  /\ Ids(q.current) \cup Held(q.done) = X

(* Closing the current batch keeps what is held.                             *)
LEMMA CloseIsSound ==
  ASSUME NEW q, NEW X, SoundPacking(q, X)
  PROVE  SoundBatches(Close(q)) /\ Held(Close(q)) = X
<1>1. CASE q.current = <<>>
  <2>1. Ids(q.current) = {}
    BY <1>1 DEF Ids
  <2>2. QED
    BY <1>1, <2>1 DEF SoundPacking, Close
<1>2. CASE q.current # <<>>
  BY <1>2, SoundAppend DEF SoundPacking, Close, Packing, Fits
<1>3. QED
  BY <1>1, <1>2

(* The tokens of no and of one document.                                     *)
LEMMA SumShort == Sum(<<>>) = 0 /\ \A d \in Snapshot : Sum(<<d>>) = Tokens[d.id]
<1>1. Sum(<<>>) = 0
  <2>1. <<>> \in Seq(Snapshot) /\ Len(<<>>) = 0
    OBVIOUS
  <2>2. QED
    BY <2>1, SumAtPrefixes
<1>2. ASSUME NEW d \in Snapshot PROVE Sum(<<d>>) = Tokens[d.id]
  <2> DEFINE s == <<d>>
  <2>1. s \in Seq(Snapshot) /\ s = <<d>>
    OBVIOUS
  <2>2. Len(s) = 1 /\ s[1] = d /\ Tokens[d.id] \in Nat
    BY DeepAssumption DEF Snapshot
  <2> HIDE DEF s
  <2>3. Sum(s) = 0 + Tokens[d.id]
    <3>1. PICK p \in [0 .. Len(s) -> Nat] :
            p[0] = 0 /\ Sum(s) = p[Len(s)] /\ \A k \in 1 .. Len(s) : p[k] = p[k - 1] + Tokens[s[k].id]
      BY <2>1, SumAtPrefixes
    <3>2. p[1] = p[1 - 1] + Tokens[s[1].id]
      BY <2>2, <3>1
    <3>3. QED
      BY <2>2, <3>1, <3>2
  <2>4. QED
    BY <2>1, <2>2, <2>3
<1>3. QED
  BY <1>1, <1>2

(* A document is packed and nothing that was packed is dropped.              *)
LEMMA PackIsSound ==
  ASSUME NEW q, NEW X, SoundPacking(q, X), NEW d \in Snapshot, d.id \notin X
  PROVE  SoundPacking(Pack(q, d), X \cup {d.id})
<1>1. Tokens[d.id] \in Nat /\ MaxTokens \in Nat /\ Sum(<<>>) = 0 /\ <<d>> \in Seq(Snapshot)
  BY DeepAssumption, SumShort DEF Snapshot
<1>2. /\ q.current \in Seq(Snapshot) /\ Sum(q.current) \in Nat
      /\ Sum(Append(q.current, d)) = Sum(q.current) + Tokens[d.id]
  BY SumAppend DEF SoundPacking, Packing
<1>3. Sum(<<d>>) = Tokens[d.id]
  BY SumShort
<1>4. Pack(q, d) \in Packing
  BY PackType DEF SoundPacking
<1>5. SoundBatches(Close(q)) /\ Held(Close(q)) = X
  BY CloseIsSound
<1>6. CASE Tokens[d.id] >= MaxTokens
  <2>1. Pack(q, d).done = Append(Close(q), <<d>>) /\ Pack(q, d).current = <<>>
    BY <1>6 DEF Pack
  <2>2. /\ <<d>> # <<>> /\ Distinct(<<d>>) /\ Fits(<<d>>)
        /\ Ids(<<d>>) = {d.id} /\ Ids(<<>>) = {} /\ Distinct(<<>>)
    <3>1. <<d>> # <<>> /\ Len(<<d>>) = 1
      OBVIOUS
    <3>2. Distinct(<<d>>) /\ Ids(<<d>>) = {d.id} /\ Ids(<<>>) = {} /\ Distinct(<<>>)
      BY <1>2, IdsAppend
    <3>3. QED
      BY <3>1, <3>2 DEF Fits
  <2>3. SoundBatches(Append(Close(q), <<d>>)) /\ Held(Append(Close(q), <<d>>)) = X \cup {d.id}
    <3>1. PICK c : c = <<d>>
      OBVIOUS
    <3>2. c \in Seq(Snapshot) /\ c # <<>> /\ Distinct(c) /\ Fits(c) /\ Ids(c) = {d.id}
      BY <1>1, <2>2, <3>1
    <3>3. SoundBatches(Append(Close(q), c)) /\ Held(Append(Close(q), c)) = Held(Close(q)) \cup Ids(c)
      BY <1>5, <3>2, SoundAppend
    <3>4. QED
      BY <1>5, <3>1, <3>2, <3>3
  <2>4. QED
    BY <1>1, <1>4, <2>1, <2>2, <2>3 DEF SoundPacking
<1>7. CASE ~(Tokens[d.id] >= MaxTokens) /\ Sum(q.current) + Tokens[d.id] > MaxTokens
  <2>1. Pack(q, d).done = Close(q) /\ Pack(q, d).current = <<d>>
    BY <1>7 DEF Pack
  <2>2. Distinct(<<d>>) /\ Ids(<<d>>) = {d.id}
    BY <1>1, IdsAppend
  <2>3. Sum(<<d>>) <= MaxTokens
    BY <1>1, <1>3, <1>7
  <2>4. QED
    BY <1>4, <1>5, <2>1, <2>2, <2>3 DEF SoundPacking
<1>8. CASE ~(Tokens[d.id] >= MaxTokens) /\ ~(Sum(q.current) + Tokens[d.id] > MaxTokens)
  <2>1. Pack(q, d).done = q.done /\ Pack(q, d).current = Append(q.current, d)
    BY <1>8 DEF Pack, SoundPacking, Packing
  <2>2. Sum(Append(q.current, d)) <= MaxTokens
    BY <1>1, <1>2, <1>8
  <2>3. d.id \notin Ids(q.current) /\ d.id \notin Held(q.done) /\ Distinct(q.current)
    BY DEF SoundPacking
  <2>4. Ids(Append(q.current, d)) = Ids(q.current) \cup {d.id} /\ Distinct(Append(q.current, d))
    BY <1>2, <2>3, IdsAppend
  <2>5. QED
    BY <1>4, <2>1, <2>2, <2>3, <2>4 DEF SoundPacking
<1>9. QED
  BY <1>6, <1>7, <1>8

(* BatchDocuments: every document is in one batch, and every batch fits.     *)
(* (batcher.go)                                                              *)
LEMMA BatchesAreSound ==
  ASSUME NEW s \in Seq(Snapshot), Distinct(s)
  PROVE  SoundBatches(BatchDocuments(s)) /\ Held(BatchDocuments(s)) = Ids(s)
<1> DEFINE n == Len(s)
           X(k) == {s[i].id : i \in 1 .. k}
<1>1. PICK p \in [0 .. n -> Packing] :
           /\ p[0] = NoPacking /\ BatchDocuments(s) = Close(p[n])
           /\ \A k \in 1 .. n : p[k] = Pack(p[k - 1], s[k])
  BY PackedAtPrefixes
<1>2. n \in Nat /\ DOMAIN s = 1 .. n /\ \A k \in 1 .. n : s[k] \in Snapshot
  OBVIOUS
<1> DEFINE P == {k \in 0 .. n : SoundPacking(p[k], X(k))}
<1>3. 0 \in P
  <2>1. X(0) = {} /\ Ids(<<>>) = {} /\ Distinct(<<>>) /\ Held(<<>>) = {} /\ SoundBatches(<<>>)
    BY DEF Ids, Distinct, Held, SoundBatches
  <2>2. Sum(<<>>) <= MaxTokens
    BY DeepAssumption, SumShort
  <2>3. p[0] = NoPacking /\ NoPacking \in Packing
    BY <1>1 DEF NoPacking, Packing
  <2>4. NoPacking.done = <<>> /\ NoPacking.current = <<>>
    BY DEF NoPacking
  <2>5. SoundPacking(p[0], X(0))
    BY <2>1, <2>2, <2>3, <2>4 DEF SoundPacking
  <2>6. 0 \in 0 .. n
    BY <1>2
  <2>7. QED
    <3> HIDE DEF X, n
    <3>1. QED
      BY <2>5, <2>6
<1>4. ASSUME NEW k \in 0 .. n - 1, k \in P PROVE k + 1 \in P
  <2>1. k + 1 \in 1 .. n /\ (k + 1) - 1 = k /\ k + 1 \in 0 .. n
    BY <1>2
  <2>2. p[k + 1] = Pack(p[k], s[k + 1]) /\ s[k + 1] \in Snapshot
    BY <1>1, <1>2, <2>1
  <2>3. s[k + 1].id \notin X(k) /\ X(k + 1) = X(k) \cup {s[k + 1].id}
    BY <1>2, <2>1 DEF Distinct
  <2>4. SoundPacking(p[k], X(k))
    BY <1>4
  <2> HIDE DEF X
  <2>5. SoundPacking(p[k + 1], X(k + 1))
    BY <2>2, <2>3, <2>4, PackIsSound
  <2>6. QED
    BY <2>1, <2>5
<1>5. SoundPacking(p[n], X(n))
  <2> HIDE DEF P, X, n
  <2>1. 0 .. n \subseteq P
    BY <1>2, <1>3, <1>4, UpTo
  <2>2. QED
    BY <1>2, <2>1 DEF P
<1>6. X(n) = Ids(s)
  BY <1>2 DEF Ids
<1>7. QED
  BY <1>1, <1>5, <1>6, CloseIsSound

(* The element a fold over sets takes out of each.                           *)
Picks(D) == [T \in SUBSET D |-> CHOOSE x \in T : TRUE]

(* Similarity of tags does not depend on the order.                          *)
LEMMA SimilarSymmetric ==
  ASSUME NEW a, NEW b, Similar(a, b)
  PROVE  Similar(b, a)
<1>1. a.tags \cap b.tags = b.tags \cap a.tags /\ a.tags \cup b.tags = b.tags \cup a.tags
  OBVIOUS
<1>2. QED
  BY <1>1 DEF Similar, jaccard

(* The pairs the loops of groupIDs look at are finitely many.                *)
LEMMA PairsAreFinite ==
  ASSUME NEW s \in Seq(Snapshot)
  PROVE  IsFiniteSet(SimilarPairs(s))
<1>1. PICK D : D = DOMAIN s
  OBVIOUS
<1>2. IsFiniteSet(D)
  <2>1. D = 1 .. Len(s) /\ Len(s) \in Nat
    BY <1>1
  <2>2. QED
    BY <2>1, FS_Interval
<1>3. IsFiniteSet(D \X D)
  BY <1>2, FS_Product
<1>4. SimilarPairs(s) \subseteq D \X D
  BY <1>1 DEF SimilarPairs
<1>5. QED
  BY <1>3, <1>4, FS_Subset

(* With a place C has all places whose documents are similar to its own.     *)
ClosedUnder(s, C) == \A a \in C, b \in DOMAIN s : Similar(s[a], s[b]) => b \in C

(* A chain of similar documents leads from i to j.                           *)
Linked(s, i, j) == \A C \in SUBSET (DOMAIN s) : i \in C /\ ClosedUnder(s, C) => j \in C

(* Chains can be walked back and joined.                                     *)
LEMMA LinkedIsEquivalence ==
  ASSUME NEW s, NEW i \in DOMAIN s, NEW j \in DOMAIN s, Linked(s, i, j)
  PROVE  Linked(s, j, i) /\ \A k \in DOMAIN s : Linked(s, j, k) => Linked(s, i, k)
<1>1. ASSUME NEW C \in SUBSET (DOMAIN s), j \in C, ClosedUnder(s, C), i \notin C PROVE FALSE
  <2> DEFINE E == (DOMAIN s) \ C
  <2>1. i \in E /\ E \in SUBSET (DOMAIN s) /\ j \notin E
    BY <1>1
  <2>2. ClosedUnder(s, E)
    BY <1>1, SimilarSymmetric DEF ClosedUnder
  <2> HIDE DEF E
  <2>3. QED
    BY <2>1, <2>2 DEF Linked
<1>2. QED
  BY <1>1 DEF Linked

(* P divides D into blocks that are not empty.                               *)
Partition(P, D) ==
  /\ P \subseteq SUBSET D /\ {} \notin P
  /\ \A i \in D : \E X \in P : i \in X
  /\ \A X, Y \in P : X # Y => X \cap Y = {}

(* The blocks of the union-find after the pairs T: each of these is in one   *)
(* block, and what is in one block is linked.                                *)
Blocks(s, P, T) ==
  /\ Partition(P, DOMAIN s)
  /\ \A p \in T : \E X \in P : p[1] \in X /\ p[2] \in X
  /\ \A X \in P : \A i, j \in X : Linked(s, i, j)

(* One call of union for a similar pair.                                     *)
LEMMA UnionKeepsBlocks ==
  ASSUME NEW s, NEW P, NEW T, Blocks(s, P, T), NEW p \in SimilarPairs(s)
  PROVE  Blocks(s, Union(P, p[1], p[2]), T \cup {p})
<1> DEFINE D == DOMAIN s
           i == p[1]
           j == p[2]
           Q == Union(P, i, j)
<1>1. i \in D /\ j \in D /\ Similar(s[i], s[j])
  BY DEF SimilarPairs
<1>2. PICK X \in P : i \in X
  BY <1>1 DEF Blocks, Partition
<1>3. PICK Y \in P : j \in Y
  BY <1>1 DEF Blocks, Partition
<1>4. \A Z \in P : Z # X => Z \cap X = {}
  BY DEF Blocks, Partition
<1>5. \A Z \in P : Z # Y => Z \cap Y = {}
  BY DEF Blocks, Partition
<1>6. {Z \in P : {i, j} \cap Z # {}} = {X, Y}
  BY <1>2, <1>3, <1>4, <1>5
<1>7. {Z \in P : {i, j} \cap Z = {}} = P \ {X, Y}
  BY <1>2, <1>3, <1>4, <1>5
<1>8. Q = (P \ {X, Y}) \cup {X \cup Y}
  BY <1>6, <1>7 DEF Union
<1>9. X \in SUBSET D /\ Y \in SUBSET D /\ X # {}
  BY DEF Blocks, Partition
<1> HIDE DEF Q, D, i, j
<1>10. Partition(Q, D)
  <2>1. Q \subseteq SUBSET D /\ {} \notin Q
    BY <1>8, <1>9 DEF Blocks, Partition, D
  <2>2. ASSUME NEW k \in D PROVE \E Z \in Q : k \in Z
    <3>1. PICK Z \in P : k \in Z
      BY DEF Blocks, Partition, D
    <3>2. CASE Z \in {X, Y}
      BY <1>8, <3>1, <3>2
    <3>3. CASE Z \notin {X, Y}
      BY <1>8, <3>1, <3>3
    <3>4. QED
      BY <3>2, <3>3
  <2>3. ASSUME NEW A \in Q, NEW B \in Q, A # B PROVE A \cap B = {}
    <3>1. CASE A \in P /\ B \in P
      BY <2>3, <3>1 DEF Blocks, Partition
    <3>2. CASE A = X \cup Y
      BY <1>4, <1>5, <1>8, <2>3, <3>2
    <3>3. CASE B = X \cup Y
      BY <1>4, <1>5, <1>8, <2>3, <3>3
    <3>4. QED
      BY <1>8, <3>1, <3>2, <3>3
  <2>4. QED
    BY <2>1, <2>2, <2>3 DEF Partition
<1>11. ASSUME NEW q \in T \cup {p} PROVE \E Z \in Q : q[1] \in Z /\ q[2] \in Z
  <2>1. CASE q = p
    BY <1>2, <1>3, <1>8, <2>1 DEF i, j
  <2>2. CASE q \in T
    <3>1. PICK Z \in P : q[1] \in Z /\ q[2] \in Z
      BY <2>2 DEF Blocks
    <3>2. CASE Z \in {X, Y}
      <4>1. Z \subseteq X \cup Y /\ X \cup Y \in Q
        BY <1>8, <3>2
      <4>2. QED
        BY <3>1, <4>1
    <3>3. CASE Z \notin {X, Y}
      <4>1. Z \in Q
        BY <1>8, <3>3
      <4>2. QED
        BY <3>1, <4>1
    <3>4. QED
      BY <3>2, <3>3
  <2>3. QED
    BY <2>1, <2>2
<1>12. ASSUME NEW Z \in Q, NEW k \in Z, NEW l \in Z PROVE Linked(s, k, l)
  <2>1. CASE Z \in P
    BY <2>1 DEF Blocks
  <2>2. CASE Z = X \cup Y
    <3>1. Linked(s, i, j)
      BY <1>1 DEF Linked, ClosedUnder, D
    <3>2. Linked(s, j, i)
      BY <1>1, <3>1, LinkedIsEquivalence DEF D
    <3>3. \A a \in X : Linked(s, a, i) /\ Linked(s, i, a)
      BY <1>2 DEF Blocks
    <3>4. \A a \in Y : Linked(s, a, j) /\ Linked(s, j, a)
      BY <1>3 DEF Blocks
    <3>5. \A a \in X \cup Y : Linked(s, a, i) /\ Linked(s, i, a)
      BY <1>1, <1>9, <3>1, <3>2, <3>3, <3>4, LinkedIsEquivalence DEF D
    <3>6. k \in D /\ l \in D
      BY <1>9, <2>2
    <3>7. QED
      BY <1>1, <2>2, <3>5, <3>6, LinkedIsEquivalence DEF D
  <2>3. QED
    BY <1>8, <2>1, <2>2
<1>13. QED
  BY <1>10, <1>11, <1>12 DEF Blocks, Q, D, i, j

(* After the two loops the blocks of the union-find are the classes of the   *)
(* chains of similar documents.                                              *)
LEMMA GroupIDsAreBlocks ==
  ASSUME NEW s \in Seq(Snapshot)
  PROVE  Blocks(s, GroupID(s), SimilarPairs(s))
<1> DEFINE D == SimilarPairs(s)
           Typ == SUBSET (SUBSET (DOMAIN s))
           b == {{i} : i \in DOMAIN s}
           Body(f) == [T \in SUBSET D |->
                         IF T = {} THEN b
                         ELSE Union(f[T \ {CHOOSE x \in T : TRUE}], (CHOOSE x \in T : TRUE)[1], (CHOOSE x \in T : TRUE)[2])]
           f == CHOOSE h : h = Body(h)
           g == [p \in D |-> [P \in Typ |-> Union(P, p[1], p[2])]]
<1>1. GroupID(s) = f[D]
  BY DEF GroupID, FoldSet, MapThenFoldSet
<1>2. IsFiniteSet(D)
  BY PairsAreFinite
<1>3. \A p \in D, P \in Typ : Union(P, p[1], p[2]) \in Typ
  BY DEF Union
<1>4. b \in Typ
  OBVIOUS
<1>5. PICK h \in [SUBSET D -> Typ] : IsFold(h, D, Picks(D), b, g)
  <2>1. \A p \in D, P \in Typ : g[p][P] \in Typ
    BY <1>3
  <2>2. \A T \in (SUBSET D) \ {{}} : Picks(D)[T] \in T
    BY DEF Picks
  <2> HIDE DEF g, D, Typ, b
  <2>3. QED
    BY <1>2, <1>4, <2>1, <2>2, FoldExists
<1>6. h = Body(h)
  <2> HIDE DEF D, Typ, b
  <2>1. ASSUME NEW T \in SUBSET D, T # {}
        PROVE  h[T] = Union(h[T \ {CHOOSE x \in T : TRUE}], (CHOOSE x \in T : TRUE)[1], (CHOOSE x \in T : TRUE)[2])
    <3>1. PICK x : x = CHOOSE y \in T : TRUE
      OBVIOUS
    <3>2. Picks(D)[T] = x /\ x \in D
      BY <2>1, <3>1 DEF Picks
    <3>3. h[T] = g[x][h[T \ {x}]] /\ h[T \ {x}] \in Typ
      BY <1>5, <2>1, <3>2 DEF IsFold
    <3>4. h[T] = Union(h[T \ {x}], x[1], x[2])
      BY <3>2, <3>3
    <3>5. QED
      BY <3>1, <3>4
  <2>2. h[{}] = b
    BY <1>5 DEF IsFold
  <2>3. QED
    BY <1>5, <2>1, <2>2
<1>7. f = Body(f)
  BY <1>6
<1> HIDE DEF f, D, b
<1>8. Blocks(s, f[{}], {})
  <2>1. f[{}] = b
    BY <1>7
  <2>2. Partition(b, DOMAIN s)
    BY DEF Partition, b
  <2>3. \A X \in b : \A i, j \in X : Linked(s, i, j)
    BY DEF Linked, b
  <2>4. QED
    BY <2>1, <2>2, <2>3 DEF Blocks
<1> DEFINE Bad == {T \in SUBSET D : ~Blocks(s, f[T], T)}
<1>9. Bad = {}
  <2> SUFFICES ASSUME Bad # {} PROVE FALSE
    OBVIOUS
  <2>1. PICK T \in Bad : \A U \in Bad : U \subseteq T => U = T
    <3>1. Bad \in SUBSET (SUBSET D)
      OBVIOUS
    <3> HIDE DEF Bad
    <3>2. QED
      BY <1>2, <3>1, LeastSet
  <2>2. PICK x : x = CHOOSE y \in T : TRUE
    OBVIOUS
  <2>3. T # {} /\ T \in SUBSET D
    BY <1>8, <2>1
  <2>4. x \in T /\ x \in D /\ T \ {x} \in SUBSET D
    BY <2>2, <2>3
  <2>5. Blocks(s, f[T \ {x}], T \ {x})
    BY <2>1, <2>4
  <2>6. f[T] = Union(f[T \ {x}], x[1], x[2])
    BY <1>7, <2>2, <2>3
  <2>7. Blocks(s, f[T], (T \ {x}) \cup {x})
    <3>1. PICK P : P = f[T \ {x}]
      OBVIOUS
    <3>2. PICK U : U = T \ {x}
      OBVIOUS
    <3>3. x \in SimilarPairs(s) /\ Blocks(s, P, U)
      BY <2>4, <2>5, <3>1, <3>2 DEF D
    <3>4. Blocks(s, Union(P, x[1], x[2]), U \cup {x})
      BY <3>3, UnionKeepsBlocks
    <3>5. QED
      BY <2>6, <3>1, <3>2, <3>4
  <2>8. (T \ {x}) \cup {x} = T
    BY <2>4
  <2>9. QED
    BY <2>1, <2>7, <2>8
<1>10. QED
  BY <1>1, <1>9 DEF D

(* How many of the places I are up to i.                                     *)
Rank(I, i) == Cardinality({j \in I : j <= i})

(* Ranks are numbers from 1 on and follow the places.                        *)
LEMMA RankGrows ==
  ASSUME NEW n \in Nat, NEW I \in SUBSET (1 .. n)
  PROVE  /\ IsFiniteSet(I) /\ Cardinality(I) \in Nat
         /\ \A i \in I : Rank(I, i) \in 1 .. Cardinality(I)
         /\ \A i, j \in I : i < j => Rank(I, i) < Rank(I, j)
<1>1. IsFiniteSet(I) /\ Cardinality(I) \in Nat
  <2>1. PICK N : N = 1 .. n
    OBVIOUS
  <2>2. IsFiniteSet(N)
    BY <2>1, FS_Interval
  <2>3. QED
    BY <2>1, <2>2, FS_Subset, FS_CardinalityType
<1>2. ASSUME NEW i \in I PROVE Rank(I, i) \in 1 .. Cardinality(I)
  <2> DEFINE B == {j \in I : j <= i}
  <2>1. i \in B /\ B \subseteq I /\ B # {}
    <3>1. i \in B
      OBVIOUS
    <3>2. QED
      BY <3>1
  <2> HIDE DEF B
  <2>2. IsFiniteSet(B) /\ Cardinality(B) \in Nat /\ Cardinality(B) <= Cardinality(I)
    BY <1>1, <2>1, FS_Subset, FS_CardinalityType
  <2>3. Cardinality(B) # 0
    BY <2>1, <2>2, FS_EmptySet
  <2>4. QED
    BY <1>1, <2>2, <2>3 DEF Rank, B
<1>3. ASSUME NEW i \in I, NEW j \in I, i < j PROVE Rank(I, i) < Rank(I, j)
  <2> DEFINE A == {k \in I : k <= i}
             B == {k \in I : k <= j}
  <2>1. A \subseteq B /\ A # B /\ B \subseteq I
    <3>1. j \in B /\ j \notin A
      BY <1>3
    <3>2. \A k \in I : k <= i => k <= j
      BY <1>3
    <3>3. QED
      BY <3>1, <3>2
  <2> HIDE DEF A, B
  <2>2. IsFiniteSet(B)
    BY <1>1, <2>1, FS_Subset
  <2>3. Cardinality(A) <= Cardinality(B) /\ (Cardinality(A) = Cardinality(B) => A = B)
    BY <2>1, <2>2, FS_Subset
  <2>4. IsFiniteSet(A)
    BY <2>1, <2>2, FS_Subset
  <2>5. Cardinality(A) \in Nat /\ Cardinality(B) \in Nat
    BY <2>2, <2>4, FS_CardinalityType
  <2>6. QED
    BY <2>1, <2>3, <2>5 DEF Rank, A, B
<1>4. QED
  BY <1>1, <1>2, <1>3

(* The place of rank k.                                                      *)
At(I, k) == CHOOSE i \in I : Rank(I, i) = k

(* Every rank has one place, and every place a rank.                         *)
LEMMA RankIsBijective ==
  ASSUME NEW n \in Nat, NEW I \in SUBSET (1 .. n)
  PROVE  /\ \A k \in 1 .. Cardinality(I) : At(I, k) \in I /\ Rank(I, At(I, k)) = k
         /\ \A i \in I : \E k \in 1 .. Cardinality(I) : At(I, k) = i
<1> DEFINE c == Cardinality(I)
           rank == [i \in I |-> Rank(I, i)]
<1>1. IsFiniteSet(I) /\ c \in Nat /\ \A i \in I : Rank(I, i) \in 1 .. c
  BY RankGrows
<1>2. \A i, j \in I : i # j => Rank(I, i) # Rank(I, j)
  <2>1. \A i, j \in I : i # j => i < j \/ j < i
    OBVIOUS
  <2>2. \A i, j \in I : i < j => Rank(I, i) \in Nat /\ Rank(I, j) \in Nat /\ Rank(I, i) < Rank(I, j)
    <3>1. \A i, j \in I : i < j => Rank(I, i) < Rank(I, j)
      BY RankGrows
    <3>2. \A i \in I : Rank(I, i) \in Nat
      BY <1>1
    <3>3. QED
      BY <3>1, <3>2
  <2>3. QED
    BY <2>1, <2>2
<1>3. rank \in Injection(I, 1 .. c)
  BY <1>1, <1>2 DEF Injection, IsInjective
<1>4. IsFiniteSet(1 .. c) /\ Cardinality(1 .. c) = c
  BY <1>1, FS_Interval
<1>5. rank \in Surjection(I, 1 .. c)
  BY <1>3, <1>4, FS_Injection
<1>6. \A k \in 1 .. c : \E i \in I : Rank(I, i) = k
  BY <1>5 DEF Surjection
<1>7. \A k \in 1 .. c : At(I, k) \in I /\ Rank(I, At(I, k)) = k
  BY <1>6 DEF At
<1>8. \A i \in I : Rank(I, i) \in 1 .. c /\ At(I, Rank(I, i)) = i
  BY <1>1, <1>2, <1>7
<1>9. QED
  BY <1>7, <1>8

(* The members of a group are the documents at its places, each of them      *)
(* once.                                                                     *)
LEMMA MembersOfPlaces ==
  ASSUME NEW s \in Seq(Snapshot), NEW I \in SUBSET (DOMAIN s)
  PROVE  /\ Members(s, I) \in Seq(Snapshot)
         /\ ToSet(Members(s, I)) = {s[i] : i \in I}
         /\ Ids(Members(s, I)) = {s[i].id : i \in I}
         /\ Distinct(s) => Distinct(Members(s, I))
         /\ I # {} => Members(s, I) # <<>>
<1> DEFINE c == Cardinality(I)
           m == Members(s, I)
<1>1. m = [k \in 1 .. c |-> s[At(I, k)]]
  BY DEF Members, At, Rank
<1>2. DOMAIN s = 1 .. Len(s) /\ Len(s) \in Nat /\ \A i \in DOMAIN s : s[i] \in Snapshot
  OBVIOUS
<1>3. /\ \A k \in 1 .. c : At(I, k) \in I /\ Rank(I, At(I, k)) = k
      /\ \A i \in I : \E k \in 1 .. c : At(I, k) = i
      /\ c \in Nat
  BY <1>2, RankIsBijective, RankGrows
<1> HIDE DEF m, c
<1>4. m \in Seq(Snapshot) /\ DOMAIN m = 1 .. c
  <2>1. \A k \in 1 .. c : s[At(I, k)] \in Snapshot
    BY <1>2, <1>3
  <2>2. m \in [1 .. c -> Snapshot]
    BY <1>1, <2>1
  <2>3. QED
    BY <1>3, <2>2
<1>5. \A k \in 1 .. c : m[k] = s[At(I, k)]
  BY <1>1
<1>6. ToSet(m) = {s[i] : i \in I}
  BY <1>3, <1>4, <1>5 DEF ToSet
<1>7. Ids(m) = {s[i].id : i \in I}
  BY <1>3, <1>4, <1>5 DEF Ids
<1>8. Distinct(s) => Distinct(m)
  BY <1>3, <1>4, <1>5 DEF Distinct
<1>9. I # {} => m # <<>>
  <2> SUFFICES ASSUME I # {}, m = <<>> PROVE FALSE
    OBVIOUS
  <2>1. Ids(m) = {}
    BY DEF Ids
  <2>2. QED
    BY <1>7, <2>1
<1>10. QED
  BY <1>4, <1>6, <1>7, <1>8, <1>9 DEF m

(* The places of the groups: the classes of tagged documents and, if there   *)
(* are any, the documents without tags together.                             *)
Parts(s) == {J \in GroupID(s) : ~(J \subseteq Mixed(s))} \cup ({Mixed(s)} \ {{}})

(* GroupByTopics divides the places, and the groups are their members.       *)
LEMMA PartsOfDocuments ==
  ASSUME NEW s \in Seq(Snapshot)
  PROVE  /\ Partition(Parts(s), DOMAIN s)
         /\ GroupByTopics(s) = {Members(s, I) : I \in Parts(s)}
         /\ \A I \in Parts(s) : \A i \in I, j \in DOMAIN s :
              j \in I <=> IF s[i].tags = {} THEN s[j].tags = {} ELSE Linked(s, i, j)
<1> DEFINE D == DOMAIN s
           M == Mixed(s)
           G == GroupID(s)
<1>1. Partition(G, D) /\ \A X \in G : \A i, j \in X : Linked(s, i, j)
  BY GroupIDsAreBlocks DEF Blocks
<1>2. \A p \in SimilarPairs(s) : \E X \in G : p[1] \in X /\ p[2] \in X
  BY GroupIDsAreBlocks DEF Blocks
<1>3. ASSUME NEW i \in M, NEW j \in D, Linked(s, i, j) PROVE i = j
  <2>1. {i} \in SUBSET D /\ ClosedUnder(s, {i})
    BY DEF ClosedUnder, Similar, Mixed
  <2>2. QED
    BY <1>3, <2>1 DEF Linked
<1>4. ASSUME NEW X \in G, ~(X \subseteq M) PROVE X \cap M = {}
  <2>1. PICK k \in X : k \notin M
    BY <1>4
  <2>2. X \subseteq D
    BY <1>1 DEF Partition
  <2>3. QED
    BY <1>1, <1>3, <2>1, <2>2
<1>5. ASSUME NEW X \in G, NEW a \in X, NEW b \in D, Similar(s[a], s[b]) PROVE b \in X
  <2>1. X \subseteq D
    BY <1>1 DEF Partition
  <2>2. a \in Int /\ b \in Int
    BY <2>1
  <2>3. CASE a < b
    <3>1. <<a, b>> \in SimilarPairs(s)
      BY <1>5, <2>1, <2>3 DEF SimilarPairs
    <3>2. PICK Y \in G : a \in Y /\ b \in Y
      BY <1>2, <3>1
    <3>3. QED
      BY <1>1, <3>2 DEF Partition
  <2>4. CASE b < a
    <3>1. <<b, a>> \in SimilarPairs(s)
      BY <1>5, <2>1, <2>4, SimilarSymmetric DEF SimilarPairs
    <3>2. PICK Y \in G : a \in Y /\ b \in Y
      BY <1>2, <3>1
    <3>3. QED
      BY <1>1, <3>2 DEF Partition
  <2>5. QED
    BY <2>2, <2>3, <2>4
<1>6. ASSUME NEW X \in G, NEW i \in X, NEW j \in D PROVE j \in X <=> Linked(s, i, j)
  <2>1. X \in SUBSET D /\ ClosedUnder(s, X)
    BY <1>1, <1>5 DEF Partition, ClosedUnder
  <2>2. QED
    BY <1>1, <2>1 DEF Linked
<1>7. M \subseteq D /\ \A i \in D : i \in M <=> s[i].tags = {}
  BY DEF Mixed
<1> HIDE DEF D, M, G
<1>8. \A I \in Parts(s) : (I \in G /\ I \cap M = {}) \/ (I = M /\ M # {})
  BY <1>4 DEF Parts, G, M
<1>9. \A X \in G : X \subseteq M \/ X \in Parts(s)
  BY DEF Parts, G, M
<1>10. M # {} => M \in Parts(s)
  BY DEF Parts, M
<1>11. Partition(Parts(s), D)
  <2>1. Parts(s) \subseteq SUBSET D /\ {} \notin Parts(s)
    BY <1>1, <1>7, <1>8 DEF Partition
  <2>2. ASSUME NEW i \in D PROVE \E X \in Parts(s) : i \in X
    <3>1. CASE i \in M
      BY <1>10, <3>1
    <3>2. CASE i \notin M
      <4>1. PICK X \in G : i \in X
        BY <1>1 DEF Partition
      <4>2. QED
        BY <1>9, <3>2, <4>1
    <3>3. QED
      BY <3>1, <3>2
  <2>3. ASSUME NEW X \in Parts(s), NEW Y \in Parts(s), X # Y PROVE X \cap Y = {}
    BY <1>1, <1>8, <2>3 DEF Partition
  <2>4. QED
    BY <2>1, <2>2, <2>3 DEF Partition
<1>12. GroupByTopics(s) = {Members(s, I) : I \in Parts(s)}
  BY DEF GroupByTopics, Parts
<1>13. ASSUME NEW I \in Parts(s), NEW i \in I, NEW j \in D
       PROVE  j \in I <=> IF s[i].tags = {} THEN s[j].tags = {} ELSE Linked(s, i, j)
  <2>1. CASE I \in G /\ I \cap M = {}
    <3>1. i \in D /\ i \notin M
      BY <1>1, <2>1 DEF Partition
    <3>2. QED
      BY <1>6, <1>7, <2>1, <3>1
  <2>2. CASE I = M
    BY <1>7, <2>2
  <2>3. QED
    BY <1>8, <2>1, <2>2
<1>14. QED
  BY <1>11, <1>12, <1>13 DEF D

(* No group is empty, repeats a document or shares one with another.         *)
SoundGroups(G) ==
  /\ G \subseteq Seq(Snapshot)
  /\ \A g \in G : g # <<>> /\ Distinct(g)
  /\ \A g, h \in G : g # h => Ids(g) \cap Ids(h) = {}

(* Grouping loses no document and gives none to two groups.                  *)
LEMMA GroupsAreSound ==
  ASSUME NEW s \in Seq(Snapshot), Distinct(s)
  PROVE  SoundGroups(GroupByTopics(s)) /\ UNION {Ids(g) : g \in GroupByTopics(s)} = Ids(s)
<1> DEFINE P == Parts(s)
<1>1. Partition(P, DOMAIN s) /\ GroupByTopics(s) = {Members(s, I) : I \in P}
  BY PartsOfDocuments
<1> HIDE DEF P
<1>2. \A I \in P : I \in SUBSET (DOMAIN s) /\ I # {}
  BY <1>1 DEF Partition
<1>3. \A I \in P : /\ Members(s, I) \in Seq(Snapshot) /\ Distinct(Members(s, I)) /\ Members(s, I) # <<>>
                   /\ Ids(Members(s, I)) = {s[i].id : i \in I}
  BY <1>2, MembersOfPlaces
<1>4. ASSUME NEW I \in P, NEW J \in P, Members(s, I) # Members(s, J)
      PROVE  Ids(Members(s, I)) \cap Ids(Members(s, J)) = {}
  <2>1. I \cap J = {}
    BY <1>1, <1>4 DEF Partition
  <2>2. {s[i].id : i \in I} \cap {s[i].id : i \in J} = {}
    BY <1>2, <2>1 DEF Distinct
  <2>3. QED
    BY <1>3, <2>2
<1>5. SoundGroups(GroupByTopics(s))
  BY <1>1, <1>3, <1>4 DEF SoundGroups
<1>6. UNION {Ids(g) : g \in GroupByTopics(s)} = UNION {{s[i].id : i \in I} : I \in P}
  BY <1>1, <1>3
<1>7. UNION {{s[i].id : i \in I} : I \in P} = Ids(s)
  <2>1. \A i \in DOMAIN s : \E I \in P : i \in I
    BY <1>1 DEF Partition
  <2>2. QED
    BY <1>2, <2>1 DEF Ids
<1>8. QED
  BY <1>5, <1>6, <1>7

(* A set of documents closed under similarity, and the set of their places.  *)
LEMMA ChainsByPlace ==
  ASSUME NEW s \in Seq(Snapshot), Distinct(s), NEW i \in DOMAIN s, NEW j \in DOMAIN s
  PROVE  Connected(ToSet(s), s[i], s[j]) <=> Linked(s, i, j)
<1> DEFINE S == ToSet(s)
<1>1. S = {s[k] : k \in DOMAIN s} /\ \A k, l \in DOMAIN s : s[k] = s[l] => k = l
  BY DEF ToSet, Distinct
<1> HIDE DEF S
<1>2. ASSUME Connected(S, s[i], s[j]), NEW C \in SUBSET (DOMAIN s), i \in C, ClosedUnder(s, C)
      PROVE  j \in C
  <2> DEFINE E == {s[k] : k \in C}
  <2>1. E \in SUBSET S /\ s[i] \in E
    BY <1>1, <1>2
  <2>2. \A a \in E, b \in S : Similar(a, b) => b \in E
    BY <1>1, <1>2 DEF ClosedUnder
  <2>3. s[j] \in E
    <3> HIDE DEF E
    <3>1. QED
      BY <1>2, <2>1, <2>2 DEF Connected
  <2>4. QED
    BY <1>1, <2>3
<1>3. ASSUME Linked(s, i, j), NEW C \in SUBSET S, s[i] \in C,
             \A a \in C, b \in S : Similar(a, b) => b \in C
      PROVE  s[j] \in C
  <2> DEFINE E == {k \in DOMAIN s : s[k] \in C}
  <2>1. E \in SUBSET (DOMAIN s) /\ i \in E
    BY <1>3
  <2>2. ClosedUnder(s, E)
    BY <1>1, <1>3 DEF ClosedUnder
  <2>3. j \in E
    <3> HIDE DEF E
    <3>1. QED
      BY <1>3, <2>1, <2>2 DEF Linked
  <2>4. QED
    BY <2>3
<1>4. QED
  BY <1>2, <1>3 DEF Connected, Linked, S

(* GroupsAreComponents, of the groups before the first is taken.             *)
LEMMA GroupsAreClasses ==
  ASSUME NEW s \in Seq(Snapshot), Distinct(s), NEW x \in ToSet(s), NEW y \in ToSet(s)
  PROVE  (\E g \in GroupByTopics(s) : {x, y} \subseteq ToSet(g))
            <=> IF x.tags = {} THEN y.tags = {} ELSE Connected(ToSet(s), x, y)
<1>1. PICK i \in DOMAIN s : x = s[i]
  BY DEF ToSet
<1>2. PICK j \in DOMAIN s : y = s[j]
  BY DEF ToSet
<1>3. Connected(ToSet(s), x, y) <=> Linked(s, i, j)
  BY <1>1, <1>2, ChainsByPlace
<1>4. Partition(Parts(s), DOMAIN s) /\ GroupByTopics(s) = {Members(s, I) : I \in Parts(s)}
  BY PartsOfDocuments
<1>5. \A I \in Parts(s) : i \in I => (j \in I <=> IF x.tags = {} THEN y.tags = {} ELSE Linked(s, i, j))
  BY <1>1, <1>2, PartsOfDocuments
<1>6. \A I \in Parts(s) : I \in SUBSET (DOMAIN s) /\ ToSet(Members(s, I)) = {s[k] : k \in I}
  BY <1>4, MembersOfPlaces DEF Partition
<1>7. \A k \in DOMAIN s : (s[k] = x => k = i) /\ (s[k] = y => k = j)
  BY <1>1, <1>2 DEF Distinct
<1>8. \A I \in Parts(s) : {x, y} \subseteq ToSet(Members(s, I)) <=> i \in I /\ j \in I
  BY <1>1, <1>2, <1>6, <1>7
<1>9. \E I \in Parts(s) : i \in I
  BY <1>4 DEF Partition
<1>10. (\E g \in GroupByTopics(s) : {x, y} \subseteq ToSet(g)) <=> \E I \in Parts(s) : i \in I /\ j \in I
  BY <1>4, <1>8
<1>11. QED
  BY <1>3, <1>5, <1>9, <1>10

(* One job less to load.                                                     *)
LEMMA RestOfClaim ==
  ASSUME NEW s \in Seq(Doc), s # <<>>, IsInjective(s)
  PROVE  /\ Head(s) \in Doc /\ Tail(s) \in Seq(Doc) /\ IsInjective(Tail(s))
         /\ Head(s) \in ToSet(s) /\ ToSet(Tail(s)) = ToSet(s) \ {Head(s)}
<1>1. Head(s) \in Doc /\ Tail(s) \in Seq(Doc)
  OBVIOUS
<1>2. IsInjective(Tail(s))
  BY RestOfSequence DEF IsInjective
<1>3. Head(s) \in ToSet(s)
  BY RestOfSequence DEF ToSet
<1>4. ToSet(Tail(s)) = ToSet(s) \ {Head(s)}
  BY RestOfSequence DEF ToSet, IsInjective
<1>5. QED
  BY <1>1, <1>2, <1>3, <1>4

(* One document less in a batch.                                             *)
LEMMA RestOfDocuments ==
  ASSUME NEW s \in Seq(Snapshot), s # <<>>, Distinct(s)
  PROVE  /\ Head(s) \in Snapshot /\ Head(s).id \in Doc /\ Head(s).tags \subseteq Topic
         /\ Tail(s) \in Seq(Snapshot) /\ Distinct(Tail(s))
         /\ Head(s).id \in Ids(s) /\ Ids(Tail(s)) = Ids(s) \ {Head(s).id}
<1>1. Head(s) \in Snapshot /\ Tail(s) \in Seq(Snapshot)
  OBVIOUS
<1>2. Distinct(Tail(s))
  BY RestOfSequence DEF Distinct
<1>3. Head(s).id \in Ids(s)
  BY RestOfSequence DEF Ids
<1>4. Ids(Tail(s)) = Ids(s) \ {Head(s).id}
  <2> DEFINE t == Tail(s)
  <2>1. /\ Head(s) = s[1] /\ 1 \in DOMAIN s
        /\ \A k \in DOMAIN t : k + 1 \in DOMAIN s /\ k + 1 # 1 /\ t[k] = s[k + 1]
        /\ \A k \in DOMAIN s : k = 1 \/ (k - 1 \in DOMAIN t /\ t[k - 1] = s[k])
    BY RestOfSequence
  <2> HIDE DEF t
  <2>2. \A k \in DOMAIN t : t[k].id \in Ids(s) /\ t[k].id # s[1].id
    BY <2>1 DEF Ids, Distinct
  <2>3. \A k \in DOMAIN s : s[k].id = s[1].id \/ s[k].id \in Ids(t)
    BY <2>1 DEF Ids
  <2>4. Ids(t) = Ids(s) \ {s[1].id}
    BY <2>2, <2>3 DEF Ids
  <2>5. QED
    BY <2>1, <2>4 DEF t
<1>5. QED
  BY <1>1, <1>2, <1>3, <1>4 DEF Snapshot

(* The ids of a sequence of documents are documents.                         *)
LEMMA IdsAreDocuments ==
  ASSUME NEW s \in Seq(Snapshot)
  PROVE  Ids(s) \subseteq Doc
<1>1. \A k \in DOMAIN s : s[k] \in Snapshot
  OBVIOUS
<1>2. QED
  BY <1>1 DEF Ids, Snapshot

(* One batch less.                                                           *)
LEMMA RestOfBatches ==
  ASSUME NEW B, SoundBatches(B), B # <<>>
  PROVE  /\ Head(B) \in Seq(Snapshot) /\ Distinct(Head(B))
         /\ SoundBatches(Tail(B))
         /\ Held(B) = Ids(Head(B)) \cup Held(Tail(B))
         /\ Ids(Head(B)) \cap Held(Tail(B)) = {}
<1> DEFINE S == Seq(Snapshot)
           t == Tail(B)
<1>1. B \in Seq(S)
  BY DEF SoundBatches
<1>2. Head(B) \in S /\ Distinct(Head(B))
  BY <1>1, RestOfSequence DEF SoundBatches
<1>3. /\ Head(B) = B[1] /\ 1 \in DOMAIN B /\ t \in Seq(S)
      /\ \A k \in DOMAIN t : k + 1 \in DOMAIN B /\ k + 1 # 1 /\ t[k] = B[k + 1]
      /\ \A k \in DOMAIN B : k = 1 \/ (k - 1 \in DOMAIN t /\ t[k - 1] = B[k])
      /\ \A k, l \in DOMAIN t : k + 1 = l + 1 => k = l
  <2> HIDE DEF S
  <2>1. QED
    BY <1>1, RestOfSequence
<1>4. Ids(Head(B)) \subseteq Doc
  BY <1>2, IdsAreDocuments
<1> HIDE DEF t, S
<1>5. Held(B) = Ids(B[1]) \cup Held(t)
  <2>1. Ids(B[1]) \subseteq Held(B)
    BY <1>3, <1>4 DEF Held
  <2>2. Held(t) \subseteq Held(B)
    BY <1>3 DEF Held
  <2>3. Held(B) \subseteq Ids(B[1]) \cup Held(t)
    BY <1>3 DEF Held
  <2>4. QED
    BY <2>1, <2>2, <2>3
<1>6. Ids(B[1]) \cap Held(t) = {}
  <2>1. \A k \in DOMAIN t : Ids(B[1]) \cap Ids(t[k]) = {}
    BY <1>3 DEF SoundBatches
  <2>2. QED
    BY <2>1 DEF Held
<1>7. SoundBatches(t)
  <2>1. \A m \in DOMAIN t : t[m] # <<>> /\ Distinct(t[m]) /\ Fits(t[m])
    BY <1>3 DEF SoundBatches
  <2>2. \A l, m \in DOMAIN t : l # m => Ids(t[l]) \cap Ids(t[m]) = {}
    BY <1>3 DEF SoundBatches
  <2>3. QED
    BY <1>3, <2>1, <2>2 DEF SoundBatches, S
<1>8. QED
  BY <1>2, <1>3, <1>5, <1>6, <1>7 DEF t, S

(* States of a row of jobs; none is no row.                                  *)
JobState == {"none", "pending", "running", "completed", "failed"}

(* Where Run is.                                                             *)
Place == {"idle", "claim", "load", "group", "batch", "call", "apply", "fail", "leftover"}

(* The type of the rows.                                                     *)
JobsTyped == job \in [Doc -> [state : JobState, attempts : 0 .. MaxAttempts]]

(* The type of the other state that outlives a pass.                         *)
TablesTyped ==
  /\ docs \subseteq Doc /\ tags \in [Doc -> SUBSET Topic]
  /\ deep \in [Doc -> SUBSET (SUBSET Doc)]
  /\ cancelled \in BOOLEAN /\ pc \in Place
  /\ faults \in 0 .. MaxFaults
  /\ stranded \subseteq Doc /\ unanswered \subseteq Doc

(* The type of what a pass works on.                                         *)
WorkTyped ==
  /\ claimed \in Seq(Doc) /\ loaded \in Seq(Snapshot)
  /\ unresolved \subseteq Doc
  /\ groups \subseteq Seq(Snapshot) /\ batches \in Seq(Seq(Snapshot))
  /\ batch \in Seq(Snapshot)
  /\ answer \in [docs : SUBSET Doc, topics : SUBSET Topic, refs : SUBSET Doc]

(* A job that may still be handed out, or is, has an attempt left.           *)
AttemptsLeft ==
  \A d \in Doc :
    /\ job[d].state \in {"pending", "running", "completed"} => job[d].attempts < MaxAttempts
    /\ job[d].state = "none" => job[d].attempts = 0

(* Only a job nobody holds grows old.                                        *)
OldAreStranded == old \subseteq stranded

(* A claim holds each job once, and none of them is loaded twice.            *)
LoadedOnce ==
  /\ Distinct(loaded) /\ IsInjective(claimed)
  /\ ToSet(claimed) \cap Ids(loaded) = {}

(* The work variables are empty where Run does not use them.                 *)
WorkInPlace ==
  /\ pc \in {"idle", "claim"} => loaded = <<>>
  /\ pc # "load" => claimed = <<>>
  /\ pc \in {"idle", "claim", "load"} => unresolved = {} /\ groups = {} /\ batches = <<>>
  /\ pc \notin {"call", "apply", "fail"} => batch = <<>>

(* The documents of a set of groups.                                         *)
Grouped(G) == UNION {Ids(g) : g \in G}

(* While batches are made and called, the documents without outcome are      *)
(* divided among the groups, the batches and the batch.                      *)
WorkIsDivided ==
  pc \in {"group", "batch", "call", "apply", "fail"} =>
    /\ SoundGroups(groups) /\ groups \subseteq GroupByTopics(loaded)
    /\ SoundBatches(batches) /\ Distinct(batch)
    /\ unresolved = Ids(batch) \cup Held(batches) \cup Grouped(groups)
    /\ Ids(batch) \cap Held(batches) = {}
    /\ (Ids(batch) \cup Held(batches)) \cap Grouped(groups) = {}
    /\ pc = "group" /\ ~cancelled => batches = <<>>

(* The inductive invariant of the worker.                                    *)
DeepInv ==
  /\ JobsTyped /\ TablesTyped /\ WorkTyped
  /\ AttemptsLeft /\ RunningIsAccounted /\ OldAreStranded
  /\ LoadedOnce /\ WorkInPlace /\ WorkIsDivided
  /\ CompletedMeansEnriched

(* The rows handed out.                                                      *)
Running == {d \in Doc : job[d].state = "running"}

(* Nothing is held by the empty sequence.                                    *)
LEMMA EmptyIds == Ids(<<>>) = {} /\ Held(<<>>) = {} /\ ToSet(<<>>) = {} /\ Distinct(<<>>) /\ SoundBatches(<<>>)
BY DEF Ids, Held, ToSet, Distinct, SoundBatches

(* What the pass has in hand, and what is stranded or old, is handed out.    *)
LEMMA InHandIsRunning ==
  ASSUME DeepInv
  PROVE  InHand \subseteq Running /\ stranded \subseteq Running /\ old \subseteq Running /\ Running \subseteq Doc
BY DEF DeepInv, RunningIsAccounted, OldAreStranded, Running

(* What one step does to the row of a job.                                   *)
RowMove(d) ==
  \/ job'[d] = job[d]
  \/ job[d].state = "none" /\ job'[d] = [state |-> "pending", attempts |-> job[d].attempts]
  \/ job[d].state = "pending" /\ job'[d] = [state |-> "running", attempts |-> job[d].attempts]
  \/ job[d].state = "running" /\ job'[d] = Failed(job[d])
  \/ job[d].state = "running" /\ job'[d] = [state |-> "completed", attempts |-> job[d].attempts]

(* What one step does to all rows.                                           *)
RowsMove == job' = [d \in Doc |-> job'[d]] /\ \A d \in Doc : RowMove(d)

(* No step of a row leaves its type or gives a job an attempt too many.      *)
LEMMA RowsStaySound ==
  ASSUME JobsTyped, AttemptsLeft, RowsMove
  PROVE  JobsTyped' /\ AttemptsLeft'
<1> DEFINE Row == [state : JobState, attempts : 0 .. MaxAttempts]
<1>1. ASSUME NEW d \in Doc
      PROVE  /\ job'[d] \in Row
             /\ job'[d].state \in {"pending", "running", "completed"} => job'[d].attempts < MaxAttempts
             /\ job'[d].state = "none" => job'[d].attempts = 0
  <2>1. job[d] \in Row /\ MaxAttempts \in Nat
    BY DeepAssumption DEF JobsTyped
  <2>2. /\ job[d].state \in {"pending", "running", "completed"} => job[d].attempts < MaxAttempts
        /\ job[d].state = "none" => job[d].attempts = 0
    BY DEF AttemptsLeft
  <2>3. CASE job'[d] = job[d]
    BY <2>1, <2>2, <2>3
  <2>4. CASE job[d].state = "none" /\ job'[d] = [state |-> "pending", attempts |-> job[d].attempts]
    BY <2>1, <2>2, <2>4, DeepAssumption DEF JobState
  <2>5. CASE job[d].state = "pending" /\ job'[d] = [state |-> "running", attempts |-> job[d].attempts]
    BY <2>1, <2>2, <2>5 DEF JobState
  <2>6. CASE job[d].state = "running" /\ job'[d] = Failed(job[d])
    BY <2>1, <2>2, <2>6 DEF JobState, Failed
  <2>7. CASE job[d].state = "running" /\ job'[d] = [state |-> "completed", attempts |-> job[d].attempts]
    BY <2>1, <2>2, <2>7 DEF JobState
  <2>8. QED
    BY <2>3, <2>4, <2>5, <2>6, <2>7 DEF RowsMove, RowMove
<1>2. job' \in [Doc -> Row]
  <2> HIDE DEF Row
  <2>1. QED
    BY <1>1 DEF RowsMove
<1>3. QED
  BY <1>1, <1>2 DEF JobsTyped, AttemptsLeft

(* A verdict on one job, taken by the store or not.                          *)
Settles(d) ==
  \/ job' = [job EXCEPT ![d] = Failed(@)] /\ stranded' = stranded
  \/ job' = [job EXCEPT ![d].state = "completed"] /\ stranded' = stranded
  \/ job' = job /\ stranded' = stranded \cup {d}

(* The three ways a verdict is given are alike.                              *)
LEMMA VerdictsSettle ==
  ASSUME NEW d, \/ FailJobOrNot(d) \/ CompleteJobOrNot(d)
                \/ job' = [job EXCEPT ![d] = Failed(@)] /\ UNCHANGED stranded
  PROVE  Settles(d)
BY DEF FailJobOrNot, CompleteJobOrNot, FailJob, CompleteJob, VerdictLost, Settles

(* A verdict moves one row, which is stranded if the store did not take it.  *)
LEMMA SettledRow ==
  ASSUME JobsTyped, NEW d \in Doc, job[d].state = "running", Settles(d)
  PROVE  /\ RowsMove
         /\ \A x \in Doc : x # d => job'[x] = job[x]
         /\ IF job'[d].state = "running" THEN stranded' = stranded \cup {d} ELSE stranded' = stranded
<1>1. job[d] \in [state : JobState, attempts : 0 .. MaxAttempts]
  BY DEF JobsTyped
<1>2. CASE job' = [job EXCEPT ![d] = Failed(@)] /\ stranded' = stranded
  <2>1. job'[d] = Failed(job[d]) /\ \A x \in Doc : x # d => job'[x] = job[x]
    BY <1>2 DEF JobsTyped
  <2>2. Failed(job[d]).state # "running"
    BY DEF Failed
  <2>3. job' = [x \in Doc |-> job'[x]]
    BY <1>2 DEF JobsTyped
  <2>4. QED
    BY <1>2, <2>1, <2>2, <2>3 DEF RowsMove, RowMove
<1>3. CASE job' = [job EXCEPT ![d].state = "completed"] /\ stranded' = stranded
  <2>1. /\ job'[d] = [state |-> "completed", attempts |-> job[d].attempts]
        /\ \A x \in Doc : x # d => job'[x] = job[x]
    BY <1>1, <1>3 DEF JobsTyped
  <2>2. job' = [x \in Doc |-> job'[x]]
    BY <1>3 DEF JobsTyped
  <2>3. QED
    BY <1>3, <2>1, <2>2 DEF RowsMove, RowMove
<1>4. CASE job' = job /\ stranded' = stranded \cup {d}
  BY <1>4 DEF JobsTyped, RowsMove, RowMove
<1>5. QED
  BY <1>2, <1>3, <1>4 DEF Settles

(* The one place a verdict is given at takes the job out of the pass's hand. *)
LEMMA SettledIsAccounted ==
  ASSUME DeepInv, NEW d \in InHand, Settles(d), InHand' = InHand \ {d}
  PROVE  RowsMove /\ RunningIsAccounted' /\ stranded \subseteq stranded' /\ stranded' \subseteq Doc
<1>1. d \in Doc /\ job[d].state = "running" /\ JobsTyped
  BY InHandIsRunning DEF DeepInv, Running
<1>2. /\ RowsMove
      /\ \A x \in Doc : x # d => job'[x] = job[x]
      /\ IF job'[d].state = "running" THEN stranded' = stranded \cup {d} ELSE stranded' = stranded
  BY <1>1, SettledRow
<1>3. stranded \subseteq Doc /\ InHand \cap stranded = {} /\ Running = InHand \cup stranded
  BY DEF DeepInv, TablesTyped, RunningIsAccounted, Running
<1>4. Running' = InHand' \cup stranded' /\ InHand' \cap stranded' = {}
  BY <1>1, <1>2, <1>3 DEF Running
<1>5. QED
  BY <1>1, <1>2, <1>3, <1>4 DEF RunningIsAccounted, Running

(* The next job to load is in hand.                                          *)
LEMMA HeadOfClaim ==
  ASSUME DeepInv, pc = "load", claimed # <<>>
  PROVE  /\ Head(claimed) \in Doc /\ Head(claimed) \in InHand
         /\ Tail(claimed) \in Seq(Doc) /\ IsInjective(Tail(claimed))
         /\ ToSet(Tail(claimed)) = ToSet(claimed) \ {Head(claimed)}
         /\ Head(claimed) \in ToSet(claimed) /\ Head(claimed) \notin Ids(loaded)
<1>1. claimed \in Seq(Doc) /\ IsInjective(claimed) /\ ToSet(claimed) \cap Ids(loaded) = {}
  BY DEF DeepInv, WorkTyped, LoadedOnce
<1>2. /\ Head(claimed) \in Doc /\ Tail(claimed) \in Seq(Doc) /\ IsInjective(Tail(claimed))
      /\ Head(claimed) \in ToSet(claimed) /\ ToSet(Tail(claimed)) = ToSet(claimed) \ {Head(claimed)}
  BY <1>1, RestOfClaim
<1>3. QED
  BY <1>1, <1>2 DEF InHand

(* The next document of a batch is in hand.                                  *)
LEMMA HeadOfBatch ==
  ASSUME DeepInv, batch # <<>>
  PROVE  /\ This \in Doc /\ This \in unresolved /\ This \in InHand
         /\ pc \in {"call", "apply", "fail"} /\ ToSet(claimed) = {}
         /\ InHand = unresolved
         /\ Head(batch).tags \subseteq Topic
         /\ Tail(batch) \in Seq(Snapshot) /\ Distinct(Tail(batch))
         /\ This \in Ids(batch) /\ Ids(Tail(batch)) = Ids(batch) \ {This}
<1>1. pc \in {"call", "apply", "fail"} /\ claimed = <<>>
  BY DEF DeepInv, WorkInPlace
<1>2. batch \in Seq(Snapshot) /\ Distinct(batch) /\ Ids(batch) \subseteq unresolved
  BY <1>1 DEF DeepInv, WorkTyped, WorkIsDivided
<1>3. /\ This \in Doc /\ Head(batch).tags \subseteq Topic
      /\ Tail(batch) \in Seq(Snapshot) /\ Distinct(Tail(batch))
      /\ This \in Ids(batch) /\ Ids(Tail(batch)) = Ids(batch) \ {This}
  BY <1>2, RestOfDocuments DEF This
<1>4. ToSet(claimed) = {}
  BY <1>1, EmptyIds
<1>5. QED
  BY <1>1, <1>2, <1>3, <1>4 DEF InHand

(* Between passes nothing is in hand.                                        *)
LEMMA HandAtRest ==
  ASSUME DeepInv, pc \in {"idle", "claim"}
  PROVE  InHand = {}
BY EmptyIds DEF DeepInv, WorkInPlace, InHand

(* After loading, what has no outcome is in hand.                            *)
LEMMA HandAfterLoad ==
  ASSUME DeepInv, pc \notin {"load"}
  PROVE  InHand = unresolved /\ ToSet(claimed) = {}
BY EmptyIds DEF DeepInv, WorkInPlace, InHand

(* When the work is over nothing is in hand.                                 *)
LEMMA NoHand ==
  ASSUME WorkIsOver
  PROVE  InHand' = {}
<1>1. pc' = "idle" /\ claimed' = <<>> /\ unresolved' = {}
  BY DEF WorkIsOver
<1>2. QED
  BY <1>1, EmptyIds DEF InHand

(* A step that leaves the rows and the hand alone.                           *)
LEMMA StillAccounted ==
  ASSUME DeepInv, UNCHANGED <<job, stranded>>, InHand' = InHand
  PROVE  RowsMove /\ RunningIsAccounted' /\ stranded' \subseteq Doc
<1>1. RowsMove
  BY DEF DeepInv, JobsTyped, RowsMove, RowMove
<1>2. RunningIsAccounted'
  BY DEF DeepInv, RunningIsAccounted
<1>3. QED
  BY <1>1, <1>2 DEF DeepInv, TablesTyped

(* The pass lets go of all it holds.                                         *)
LEMMA LetGoIsAccounted ==
  ASSUME DeepInv, UNCHANGED job, InHand' = {}, stranded' = stranded \cup InHand
  PROVE  RowsMove /\ RunningIsAccounted' /\ stranded' \subseteq Doc
<1>1. RowsMove
  BY DEF DeepInv, JobsTyped, RowsMove, RowMove
<1>2. RunningIsAccounted'
  BY DEF DeepInv, RunningIsAccounted
<1>3. QED
  BY <1>1, <1>2, InHandIsRunning DEF DeepInv, TablesTyped

(* A step moves rows as they may be moved and keeps RunningIsAccounted.      *)
LEMMA HandStep ==
  ASSUME DeepInv, Next
  PROVE  RowsMove /\ RunningIsAccounted' /\ stranded' \subseteq Doc
<1> DEFINE Goal == RowsMove /\ RunningIsAccounted' /\ stranded' \subseteq Doc
<1>1. JobsTyped /\ stranded \subseteq Doc /\ Running = InHand \cup stranded /\ InHand \cap stranded = {}
  BY DEF DeepInv, TablesTyped, RunningIsAccounted, Running
<1> SUFFICES Goal
  OBVIOUS
<1>2. CASE ResetStaleJobs
  <2>1. InHand = {} /\ pc' = "claim" /\ UNCHANGED work
    BY <1>2, HandAtRest DEF ResetStaleJobs
  <2>2. InHand' = {}
    BY <1>2, <2>1, HandAfterLoad, EmptyIds DEF InHand, work, ResetStaleJobs, DeepInv, WorkInPlace
  <2>3. CASE job' = [d \in Doc |-> IF d \in old THEN Failed(job[d]) ELSE job[d]] /\ stranded' = stranded \ old
    <3>1. job' = [d \in Doc |-> job'[d]]
      BY <2>3
    <3>2. \A d \in Doc : d \in old => job[d].state = "running" /\ job'[d] = Failed(job[d])
      BY <2>3, InHandIsRunning DEF Running
    <3>3. \A d \in Doc : d \notin old => job'[d] = job[d]
      BY <2>3
    <3>4. \A d \in Doc : Failed(job[d]).state # "running"
      BY DEF Failed
    <3>5. RowsMove
      BY <3>1, <3>2, <3>3 DEF RowsMove, RowMove
    <3>6. Running' = stranded'
      BY <1>1, <2>1, <2>3, <3>2, <3>3, <3>4 DEF Running
    <3>7. QED
      BY <1>1, <2>2, <2>3, <3>5, <3>6 DEF RunningIsAccounted, Running
  <2>4. CASE UNCHANGED <<job, stranded>>
    BY <2>1, <2>2, <2>4, StillAccounted
  <2>5. QED
    BY <1>2, <2>3, <2>4 DEF ResetStaleJobs
<1>3. CASE ClaimJobs
  <2>1. PICK S \in SUBSET Pending :
          /\ \E s \in SetToSeqs(S) : claimed' = s
          /\ job' = [d \in Doc |-> IF d \in S THEN [job[d] EXCEPT !.state = "running"] ELSE job[d]]
    BY <1>3 DEF ClaimJobs
  <2>2. /\ pc = "claim" /\ pc' = "load" /\ UNCHANGED <<loaded, stranded>> /\ loaded = <<>>
    BY <1>3 DEF ClaimJobs, history, DeepInv, WorkInPlace
  <2>3. IsFiniteSet(S) /\ S \subseteq Doc /\ \A d \in S : job[d].state = "pending"
    BY DeepAssumption, FS_Subset DEF Pending
  <2>4. ToSet(claimed') = S
    BY <2>1, <2>3, Enumerated
  <2>5. InHand' = S
    BY <2>2, <2>4, EmptyIds DEF InHand
  <2>6. \A d \in S : job'[d] = [state |-> "running", attempts |-> job[d].attempts]
    BY <1>1, <2>1, <2>3 DEF JobsTyped
  <2>7. \A d \in Doc : d \notin S => job'[d] = job[d]
    BY <2>1
  <2>8. RowsMove
    BY <2>1, <2>3, <2>6, <2>7 DEF RowsMove, RowMove
  <2>9. Running' = S \cup stranded /\ S \cap stranded = {}
    <3>1. InHand = {}
      BY <2>2, HandAtRest
    <3>2. \A d \in S : d \notin Running
      BY <2>3 DEF Running
    <3>3. Running' = S \cup Running
      <4>1. ASSUME NEW d \in S PROVE job'[d].state = "running"
        <5>1. job'[d] = [state |-> "running", attempts |-> job[d].attempts]
          BY <2>6
        <5>2. QED
          BY <5>1
      <4>2. QED
        BY <2>3, <2>7, <4>1 DEF Running
    <3>4. QED
      BY <1>1, <3>1, <3>2, <3>3
  <2>10. QED
    BY <1>1, <2>2, <2>5, <2>8, <2>9 DEF RunningIsAccounted, Running
<1>4. CASE NothingClaimed
  <2>1. pc = "claim" /\ pc' = "idle" /\ UNCHANGED <<job, stranded, claimed, unresolved>>
    BY <1>4 DEF NothingClaimed, tables, work, history
  <2>2. InHand' = InHand
    BY <2>1 DEF InHand
  <2>3. QED
    BY <2>1, <2>2, StillAccounted
<1>5. CASE GetContextDoc
  <2>1. /\ pc = "load" /\ pc' = "load" /\ claimed # <<>> /\ UNCHANGED <<job, stranded>>
        /\ loaded' = Append(loaded, [id |-> Head(claimed), tags |-> tags[Head(claimed)]])
        /\ claimed' = Tail(claimed)
    BY <1>5 DEF GetContextDoc, history
  <2>2. [id |-> Head(claimed), tags |-> tags[Head(claimed)]] \in Snapshot
    BY <2>1, HeadOfClaim DEF Snapshot, DeepInv, TablesTyped
  <2>3. Ids(loaded') = Ids(loaded) \cup {Head(claimed)}
    BY <2>1, <2>2, IdsAppend DEF DeepInv, WorkTyped
  <2>4. InHand' = InHand
    BY <2>1, <2>3, HeadOfClaim DEF InHand
  <2>5. QED
    BY <2>1, <2>4, StillAccounted
<1>6. CASE GetContextDocFails \/ FailUnloaded
  <2>1. /\ pc = "load" /\ pc' = "load" /\ claimed # <<>> /\ UNCHANGED loaded
        /\ claimed' = Tail(claimed)
    BY <1>6 DEF GetContextDocFails, FailUnloaded
  <2>2. Settles(Head(claimed))
    BY <1>6, VerdictsSettle DEF GetContextDocFails, FailUnloaded
  <2>3. InHand' = InHand \ {Head(claimed)}
    BY <2>1, HeadOfClaim DEF InHand
  <2>4. QED
    BY <2>1, <2>2, <2>3, HeadOfClaim, SettledIsAccounted
<1>7. CASE CancelledInLoad
  <2>1. /\ pc = "load" /\ claimed = <<>> /\ UNCHANGED job /\ stranded' = stranded \cup Ids(loaded)
        /\ WorkIsOver
    BY <1>7 DEF CancelledInLoad, tables
  <2>2. InHand = Ids(loaded)
    BY <2>1, EmptyIds DEF InHand
  <2>3. QED
    BY <2>1, <2>2, NoHand, LetGoIsAccounted
<1>8. CASE NothingLoaded
  <2>1. /\ pc = "load" /\ claimed = <<>> /\ UNCHANGED <<job, stranded>> /\ loaded = <<>> /\ WorkIsOver
    BY <1>8 DEF NothingLoaded, tables, history
  <2>2. InHand = {}
    BY <2>1, EmptyIds DEF InHand
  <2>3. QED
    BY <2>1, <2>2, NoHand, StillAccounted
<1>9. CASE FormGroups
  <2>1. /\ pc = "load" /\ pc' = "group" /\ UNCHANGED <<job, stranded, claimed>>
        /\ unresolved' = Ids(loaded)
    BY <1>9 DEF FormGroups, tables, history
  <2>2. InHand' = InHand
    BY <2>1 DEF InHand
  <2>3. QED
    BY <2>1, <2>2, StillAccounted
<1>10. CASE \/ GroupsDone \/ NextBatch \/ BatchesDone \/ (\E g \in groups : NextGroup(g))
            \/ (\E a \in Answer : EnrichBatch(a)) \/ EnrichFails \/ BatchDone
  <2>1. /\ pc # "load" /\ pc' # "load" /\ UNCHANGED <<job, stranded, claimed, unresolved>>
    BY <1>10 DEF GroupsDone, NextBatch, BatchesDone, NextGroup, EnrichBatch, EnrichFails, BatchDone,
                 tables, work, history
  <2>2. InHand' = InHand
    BY <2>1 DEF InHand
  <2>3. QED
    BY <2>1, <2>2, StillAccounted
<1>11. CASE FailBatch \/ NoResult \/ Update \/ UpdateFails
  <2>1. batch # <<>> /\ Settles(This)
    BY <1>11, VerdictsSettle DEF FailBatch, NoResult, Update, UpdateFails
  <2>2. unresolved' = unresolved \ {This} /\ UNCHANGED <<claimed, pc>>
    BY <1>11 DEF FailBatch, NoResult, Update, UpdateFails, Resolve
  <2>3. InHand' = InHand \ {This}
    BY <2>1, <2>2, HeadOfBatch DEF InHand
  <2>4. QED
    BY <2>1, <2>3, HeadOfBatch, SettledIsAccounted
<1>12. ASSUME NEW d \in Doc, FailLeftover(d) PROVE Goal
  <2>1. /\ pc = "leftover" /\ pc' = "leftover" /\ d \in unresolved /\ UNCHANGED claimed
        /\ unresolved' = unresolved \ {d}
    BY <1>12 DEF FailLeftover
  <2>2. Settles(d)
    BY <1>12, VerdictsSettle DEF FailLeftover
  <2>3. InHand = unresolved /\ ToSet(claimed) = {}
    BY <2>1, HandAfterLoad
  <2>4. InHand' = InHand \ {d}
    BY <2>1, <2>3 DEF InHand
  <2>5. QED
    BY <2>1, <2>2, <2>3, <2>4, SettledIsAccounted
<1>13. CASE RunEnds
  <2>1. pc = "leftover" /\ unresolved = {} /\ WorkIsOver /\ UNCHANGED <<job, stranded>>
    BY <1>13 DEF RunEnds, tables, history
  <2>2. InHand = {}
    BY <2>1, HandAfterLoad
  <2>3. QED
    BY <2>1, <2>2, NoHand, StillAccounted
<1>14. ASSUME NEW d \in Doc, Ingest(d) PROVE Goal
  <2>1. /\ job[d].state = "none" /\ job' = [job EXCEPT ![d].state = "pending"]
        /\ UNCHANGED <<pc, claimed, loaded, unresolved, stranded>>
    BY <1>14 DEF Ingest, work, history
  <2>2. /\ job'[d] = [state |-> "pending", attempts |-> job[d].attempts]
        /\ \A x \in Doc : x # d => job'[x] = job[x]
        /\ job' = [x \in Doc |-> job'[x]]
    BY <1>1, <2>1 DEF JobsTyped
  <2>3. RowsMove
    BY <2>1, <2>2 DEF RowsMove, RowMove
  <2>4. Running' = Running
    BY <2>1, <2>2 DEF Running
  <2>5. InHand' = InHand
    BY <2>1 DEF InHand
  <2>6. QED
    BY <1>1, <2>1, <2>3, <2>4, <2>5 DEF RunningIsAccounted, Running
<1>15. CASE (\E d \in Doc : Delete(d) \/ GrowsOld(d)) \/ Stop \/ Restart
  <2>1. UNCHANGED <<job, stranded, pc, claimed, loaded, unresolved>>
    BY <1>15 DEF Delete, GrowsOld, Stop, Restart, tables, work, history
  <2>2. InHand' = InHand
    BY <2>1 DEF InHand
  <2>3. QED
    BY <2>1, <2>2, StillAccounted
<1>16. CASE Crash
  <2>1. WorkIsOver /\ UNCHANGED job /\ stranded' = stranded \cup InHand
    BY <1>16 DEF Crash, tables
  <2>2. QED
    BY <2>1, NoHand, LetGoIsAccounted
<1>17. QED
  BY <1>2, <1>3, <1>4, <1>5, <1>6, <1>7, <1>8, <1>9, <1>10, <1>11, <1>12, <1>13, <1>14, <1>15, <1>16
     DEF Next, RunNext

(* A step keeps OldAreStranded.                                              *)
LEMMA OldStep ==
  ASSUME DeepInv, Next
  PROVE  OldAreStranded'
<1>1. old \subseteq stranded
  BY DEF DeepInv, OldAreStranded
<1>2. CASE ResetStaleJobs
  BY <1>1, <1>2 DEF ResetStaleJobs, OldAreStranded
<1>3. CASE \E d \in Doc : GrowsOld(d)
  BY <1>1, <1>3 DEF GrowsOld, history, OldAreStranded
<1>4. CASE GetContextDocFails \/ FailUnloaded
  <2>1. Settles(Head(claimed)) /\ UNCHANGED old
    BY <1>4, VerdictsSettle DEF GetContextDocFails, FailUnloaded, LoadUnchanged
  <2>2. QED
    BY <1>1, <2>1 DEF Settles, OldAreStranded
<1>5. CASE FailBatch \/ NoResult \/ Update \/ UpdateFails
  <2>1. Settles(This) /\ UNCHANGED old
    BY <1>5, VerdictsSettle DEF FailBatch, NoResult, Update, UpdateFails, Resolve
  <2>2. QED
    BY <1>1, <2>1 DEF Settles, OldAreStranded
<1>6. CASE \E d \in Doc : FailLeftover(d)
  <2>1. PICK d \in Doc : Settles(d) /\ UNCHANGED old
    BY <1>6, VerdictsSettle DEF FailLeftover
  <2>2. QED
    BY <1>1, <2>1 DEF Settles, OldAreStranded
<1>7. CASE \/ ClaimJobs \/ NothingClaimed \/ GetContextDoc \/ NothingLoaded \/ FormGroups \/ GroupsDone
           \/ NextBatch \/ BatchesDone \/ (\E g \in groups : NextGroup(g))
           \/ (\E a \in Answer : EnrichBatch(a)) \/ EnrichFails \/ BatchDone \/ RunEnds
           \/ (\E d \in Doc : Ingest(d) \/ Delete(d)) \/ Stop \/ Restart
  <2>1. UNCHANGED <<old, stranded>>
    BY <1>7 DEF ClaimJobs, NothingClaimed, GetContextDoc, NothingLoaded, FormGroups, GroupsDone, NextBatch,
                BatchesDone, NextGroup, EnrichBatch, EnrichFails, BatchDone, RunEnds, Ingest, Delete, Stop,
                Restart, LoadUnchanged, tables, history
  <2>2. QED
    BY <1>1, <2>1 DEF OldAreStranded
<1>8. CASE CancelledInLoad \/ Crash
  <2>1. UNCHANGED old /\ stranded \subseteq stranded'
    BY <1>8 DEF CancelledInLoad, Crash, tables
  <2>2. QED
    BY <1>1, <2>1 DEF OldAreStranded
<1>9. QED
  BY <1>2, <1>3, <1>4, <1>5, <1>6, <1>7, <1>8 DEF Next, RunNext

(* The clock of faults, and every history but stranded.                      *)
LEMMA FaultStep == ASSUME DeepInv, Fault \/ UNCHANGED faults PROVE faults' \in 0 .. MaxFaults
BY DeepAssumption DEF DeepInv, TablesTyped, Fault

(* A verdict the store does not take is a fault.                             *)
LEMMA VerdictFaults ==
  ASSUME NEW d, FailJobOrNot(d) \/ CompleteJobOrNot(d)
  PROVE  Fault \/ UNCHANGED faults
BY DEF FailJobOrNot, CompleteJobOrNot, FailJob, CompleteJob, VerdictLost

(* A step keeps TablesTyped.                                                 *)
LEMMA TablesStep ==
  ASSUME DeepInv, Next
  PROVE  TablesTyped'
<1>1. stranded' \subseteq Doc
  BY HandStep
<1>2. TablesTyped
  BY DEF DeepInv
<1>3. Fault \/ UNCHANGED faults
  <2>1. CASE \/ GetContextDocFails \/ FailUnloaded \/ FailBatch \/ NoResult \/ Update \/ UpdateFails
             \/ (\E d \in Doc : FailLeftover(d))
    BY <2>1, VerdictFaults DEF GetContextDocFails, FailUnloaded, FailBatch, NoResult, Update, UpdateFails,
                               FailLeftover
  <2>2. CASE ~ \/ GetContextDocFails \/ FailUnloaded \/ FailBatch \/ NoResult \/ Update \/ UpdateFails
               \/ (\E d \in Doc : FailLeftover(d))
    BY <2>2 DEF Next, RunNext, ResetStaleJobs, ClaimJobs, NothingClaimed, GetContextDoc, CancelledInLoad,
                NothingLoaded, FormGroups, GroupsDone, NextBatch, BatchesDone, NextGroup, EnrichBatch,
                EnrichFails, BatchDone, RunEnds, Ingest, Delete, GrowsOld, Stop, Restart, Crash
  <2>3. QED
    BY <2>1, <2>2
<1>4. faults' \in 0 .. MaxFaults
  BY <1>3, FaultStep
<1>5. pc' \in Place /\ cancelled' \in BOOLEAN
  BY <1>2 DEF TablesTyped, Place, Next, RunNext, ResetStaleJobs, ClaimJobs, NothingClaimed, GetContextDoc,
              GetContextDocFails, FailUnloaded, CancelledInLoad, NothingLoaded, FormGroups, GroupsDone,
              NextBatch, BatchesDone, NextGroup, EnrichBatch, EnrichFails, FailBatch, NoResult, Update,
              UpdateFails, BatchDone, FailLeftover, RunEnds, Ingest, Delete, GrowsOld, Stop, Restart, Crash,
              Resolve, LoadUnchanged, WorkIsOver
<1>6. docs' \subseteq Doc /\ unanswered' \subseteq Doc
  <2>1. CASE NoResult
    BY <1>2, <2>1, HeadOfBatch DEF NoResult, Resolve, TablesTyped
  <2>2. CASE ~NoResult
    BY <1>2, <2>2 DEF TablesTyped, tables, history, Next, RunNext, ResetStaleJobs, ClaimJobs,
              NothingClaimed, GetContextDoc,
              GetContextDocFails, FailUnloaded, CancelledInLoad, NothingLoaded, FormGroups, GroupsDone,
              NextBatch, BatchesDone, NextGroup, EnrichBatch, EnrichFails, FailBatch, Update,
              UpdateFails, BatchDone, FailLeftover, RunEnds, Ingest, Delete, GrowsOld, Stop, Restart, Crash,
              Resolve, LoadUnchanged
  <2>3. QED
    BY <2>1, <2>2
<1>7. tags' \in [Doc -> SUBSET Topic] /\ deep' \in [Doc -> SUBSET (SUBSET Doc)]
  <2>1. CASE Update
    <3>1. This \in Doc /\ Head(batch).tags \subseteq Topic
      BY <2>1, HeadOfBatch DEF Update
    <3>2. answer.topics \subseteq Topic /\ answer.refs \subseteq Doc
      BY DEF DeepInv, WorkTyped
    <3>3. QED
      BY <1>2, <2>1, <3>1, <3>2 DEF Update, mergeTags, TablesTyped
  <2>2. CASE \E d \in Doc : Ingest(d)
    <3>1. PICK d \in Doc : Ingest(d)
      BY <2>2
    <3>2. PICK t \in FirstTags[d] : tags' = [tags EXCEPT ![d] = t]
      BY <3>1 DEF Ingest
    <3>3. t \in SUBSET Topic
      BY DeepAssumption
    <3>4. QED
      BY <1>2, <3>1, <3>2, <3>3 DEF Ingest, TablesTyped
  <2>3. CASE ~Update /\ ~\E d \in Doc : Ingest(d)
    BY <1>2, <2>3 DEF TablesTyped, tables, Next, RunNext, ResetStaleJobs, ClaimJobs,
              NothingClaimed, GetContextDoc,
              GetContextDocFails, FailUnloaded, CancelledInLoad, NothingLoaded, FormGroups, GroupsDone,
              NextBatch, BatchesDone, NextGroup, EnrichBatch, EnrichFails, FailBatch, NoResult,
              UpdateFails, BatchDone, FailLeftover, RunEnds, Delete, GrowsOld, Stop, Restart, Crash,
              Resolve, LoadUnchanged
  <2>4. QED
    BY <2>1, <2>2, <2>3
<1>8. QED
  BY <1>1, <1>4, <1>5, <1>6, <1>7 DEF TablesTyped

(* No work variable changes.                                                 *)
WorkUnchanged == UNCHANGED <<claimed, loaded, unresolved, groups, batches, batch>>

(* What the steps leave of the work variables that they do not set.          *)
LEMMA QuietSteps ==
  ASSUME \/ ResetStaleJobs \/ NothingClaimed \/ GroupsDone \/ BatchesDone \/ EnrichFails \/ BatchDone
         \/ (\E a \in Answer : EnrichBatch(a))
         \/ (\E d \in Doc : Ingest(d) \/ Delete(d) \/ GrowsOld(d)) \/ Stop \/ Restart
  PROVE  WorkUnchanged
BY DEF ResetStaleJobs, NothingClaimed, GroupsDone, BatchesDone, EnrichFails, EnrichBatch, BatchDone, Ingest,
       Delete, GrowsOld, Stop, Restart, work, WorkUnchanged

(* These steps end the pass and forget its work.                             *)
LEMMA EndingSteps ==
  ASSUME CancelledInLoad \/ NothingLoaded \/ RunEnds \/ Crash
  PROVE  WorkIsOver
BY DEF CancelledInLoad, NothingLoaded, RunEnds, Crash

(* These steps drop the next job of the claim.                               *)
LEMMA LoadingSteps ==
  ASSUME GetContextDocFails \/ FailUnloaded
  PROVE  /\ pc = "load" /\ pc' = "load" /\ claimed # <<>> /\ claimed' = Tail(claimed)
         /\ UNCHANGED <<loaded, unresolved, groups, batches, batch, cancelled>>
BY DEF GetContextDocFails, FailUnloaded, LoadUnchanged

(* These steps give the next document of the batch its outcome.              *)
LEMMA ResolvingSteps ==
  ASSUME FailBatch \/ NoResult \/ Update \/ UpdateFails
  PROVE  batch # <<>> /\ Resolve
BY DEF FailBatch, NoResult, Update, UpdateFails

(* A step keeps the type of the answer.                                      *)
LEMMA AnswerStep ==
  ASSUME DeepInv, Next
  PROVE  answer' \in [docs : SUBSET Doc, topics : SUBSET Topic, refs : SUBSET Doc]
<1> DEFINE T == [docs : SUBSET Doc, topics : SUBSET Topic, refs : SUBSET Doc]
<1> SUFFICES answer' \in T
  OBVIOUS
<1>1. answer \in T
  BY DEF DeepInv, WorkTyped
<1>2. NoAnswer \in T
  BY DEF NoAnswer
<1>3. ASSUME NEW a \in Answer, EnrichBatch(a) PROVE answer' \in T
  <2>1. a \in T
    BY DeepAssumption
  <2>2. QED
    BY <1>3, <2>1 DEF EnrichBatch
<1> HIDE DEF T
<1>4. CASE CancelledInLoad \/ NothingLoaded \/ RunEnds \/ Crash \/ BatchDone
  BY <1>2, <1>4, EndingSteps DEF WorkIsOver, BatchDone
<1>5. CASE ~ \/ CancelledInLoad \/ NothingLoaded \/ RunEnds \/ Crash \/ BatchDone
             \/ (\E a \in Answer : EnrichBatch(a))
  <2>1. UNCHANGED answer
    BY <1>5 DEF work, Next, RunNext, ResetStaleJobs, ClaimJobs,
              NothingClaimed, GetContextDoc, GetContextDocFails, FailUnloaded, FormGroups, GroupsDone,
              NextBatch, BatchesDone, NextGroup, EnrichFails, FailBatch, NoResult, Update,
              UpdateFails, FailLeftover, Ingest, Delete, GrowsOld, Stop, Restart, Resolve, LoadUnchanged
  <2>2. QED
    BY <1>1, <2>1
<1>6. QED
  BY <1>3, <1>4, <1>5

(* What ClaimJobs hands out is loaded job by job.                            *)
LEMMA ClaimingStep ==
  ASSUME DeepInv, ClaimJobs
  PROVE  /\ claimed' \in Seq(Doc) /\ IsInjective(claimed')
         /\ pc = "claim" /\ pc' = "load"
         /\ UNCHANGED <<loaded, unresolved, groups, batches, batch>>
<1>1. PICK S \in SUBSET Pending : \E s \in SetToSeqs(S) : claimed' = s
  BY DEF ClaimJobs
<1>2. IsFiniteSet(S) /\ S \subseteq Doc
  BY DeepAssumption, FS_Subset DEF Pending
<1>3. claimed' \in Seq(S) /\ IsInjective(claimed')
  BY <1>1, <1>2, Enumerated
<1>4. claimed' \in Seq(Doc)
  BY <1>2, <1>3
<1>5. QED
  BY <1>3, <1>4 DEF ClaimJobs

(* A document that was loaded is no longer to load.                          *)
LEMMA LoadingStep ==
  ASSUME DeepInv, GetContextDoc
  PROVE  /\ pc = "load" /\ pc' = "load"
         /\ claimed' \in Seq(Doc) /\ IsInjective(claimed')
         /\ loaded' \in Seq(Snapshot) /\ Distinct(loaded')
         /\ ToSet(claimed') \cap Ids(loaded') = {}
         /\ UNCHANGED <<unresolved, groups, batches, batch>>
<1> DEFINE d == [id |-> Head(claimed), tags |-> tags[Head(claimed)]]
<1>1. /\ pc = "load" /\ pc' = "load" /\ claimed # <<>> /\ claimed' = Tail(claimed)
      /\ loaded' = Append(loaded, d) /\ UNCHANGED <<unresolved, groups, batches, batch>>
  BY DEF GetContextDoc, LoadUnchanged
<1>2. /\ Head(claimed) \in Doc /\ Tail(claimed) \in Seq(Doc) /\ IsInjective(Tail(claimed))
      /\ ToSet(Tail(claimed)) = ToSet(claimed) \ {Head(claimed)} /\ Head(claimed) \notin Ids(loaded)
  BY <1>1, HeadOfClaim
<1>3. d \in Snapshot /\ d.id = Head(claimed)
  BY <1>2 DEF DeepInv, TablesTyped, Snapshot
<1>4. loaded \in Seq(Snapshot) /\ Distinct(loaded) /\ ToSet(claimed) \cap Ids(loaded) = {}
  BY DEF DeepInv, WorkTyped, LoadedOnce
<1> HIDE DEF d
<1>5. Append(loaded, d) \in Seq(Snapshot)
  BY <1>3, <1>4
<1>6. Ids(Append(loaded, d)) = Ids(loaded) \cup {Head(claimed)} /\ Distinct(Append(loaded, d))
  BY <1>2, <1>3, <1>4, IdsAppend
<1>7. QED
  BY <1>1, <1>2, <1>4, <1>5, <1>6

(* A step keeps LoadedOnce.                                                  *)
LEMMA LoadedStep ==
  ASSUME DeepInv, Next
  PROVE  LoadedOnce' /\ claimed' \in Seq(Doc) /\ loaded' \in Seq(Snapshot)
<1>1. LoadedOnce /\ claimed \in Seq(Doc) /\ loaded \in Seq(Snapshot)
  BY DEF DeepInv, WorkTyped
<1>2. CASE UNCHANGED <<claimed, loaded>>
  BY <1>1, <1>2 DEF LoadedOnce
<1>3. CASE ClaimJobs
  <2>1. loaded = <<>>
    BY <1>3, ClaimingStep DEF DeepInv, WorkInPlace
  <2>2. QED
    BY <1>1, <1>3, <2>1, ClaimingStep, EmptyIds DEF LoadedOnce
<1>4. CASE GetContextDoc
  BY <1>4, LoadingStep DEF LoadedOnce
<1>5. CASE GetContextDocFails \/ FailUnloaded
  BY <1>1, <1>5, LoadingSteps, HeadOfClaim DEF LoadedOnce
<1>6. CASE WorkIsOver
  <2>1. claimed' = <<>> /\ loaded' = <<>>
    BY <1>6 DEF WorkIsOver
  <2>2. IsInjective(<<>>) /\ <<>> \in Seq(Doc) /\ <<>> \in Seq(Snapshot)
    BY DEF IsInjective
  <2>3. QED
    BY <2>1, <2>2, EmptyIds DEF LoadedOnce
<1>7. CASE \/ FormGroups \/ NextBatch \/ (\E g \in groups : NextGroup(g))
           \/ FailBatch \/ NoResult \/ Update \/ UpdateFails \/ (\E d \in Doc : FailLeftover(d))
  <2>1. UNCHANGED <<claimed, loaded>>
    BY <1>7, ResolvingSteps DEF FormGroups, NextBatch, NextGroup, FailLeftover, Resolve
  <2>2. QED
    BY <1>2, <2>1
<1>8. QED
  BY <1>2, <1>3, <1>4, <1>5, <1>6, <1>7, QuietSteps, EndingSteps DEF Next, RunNext, WorkUnchanged

(* The places at which a batch is in hand.                                   *)
Calling == {"call", "apply", "fail"}

(* The places at which the work is divided.                                  *)
Dividing == {"group", "batch"} \cup Calling

(* The documents of a step's work, divided.                                  *)
Divided(G, B, b, U) ==
  /\ SoundGroups(G) /\ SoundBatches(B) /\ Distinct(b) /\ b \in Seq(Snapshot)
  /\ U = Ids(b) \cup Held(B) \cup Grouped(G)
  /\ Ids(b) \cap Held(B) = {}
  /\ (Ids(b) \cup Held(B)) \cap Grouped(G) = {}

(* WorkIsDivided, as a division.                                             *)
LEMMA DividedWork ==
  ASSUME DeepInv, pc \in Dividing
  PROVE  /\ Divided(groups, batches, batch, unresolved) /\ groups \subseteq GroupByTopics(loaded)
         /\ claimed = <<>> /\ (pc \notin Calling => batch = <<>>)
         /\ pc = "group" /\ ~cancelled => batches = <<>>
BY DEF DeepInv, WorkTyped, WorkIsDivided, WorkInPlace, Divided, Dividing, Calling

(* A division is of documents.                                               *)
LEMMA DividedTyped ==
  ASSUME NEW G, NEW B, NEW b, NEW U, Divided(G, B, b, U)
  PROVE  /\ G \subseteq Seq(Snapshot) /\ B \in Seq(Seq(Snapshot)) /\ b \in Seq(Snapshot)
         /\ U \subseteq Doc
<1>1. \A g \in G : Ids(g) \subseteq Doc
  BY IdsAreDocuments DEF Divided, SoundGroups
<1>2. Ids(b) \subseteq Doc
  BY IdsAreDocuments DEF Divided
<1>3. QED
  BY <1>1, <1>2 DEF Divided, SoundGroups, SoundBatches, Held, Grouped

(* The first division: the groups of what was loaded.                        *)
LEMMA FormGroupsDivides ==
  ASSUME DeepInv, FormGroups
  PROVE  /\ Divided(groups', batches', batch', unresolved') /\ groups' = GroupByTopics(loaded)
         /\ pc' = "group" /\ batches' = <<>> /\ batch' = <<>> /\ UNCHANGED <<claimed, loaded>>
         /\ claimed = <<>>
<1>1. /\ batches = <<>> /\ batch = <<>> /\ claimed = <<>> /\ pc' = "group"
      /\ groups' = GroupByTopics(loaded) /\ unresolved' = Ids(loaded)
      /\ UNCHANGED <<claimed, loaded, batches, batch>>
  BY DEF FormGroups, DeepInv, WorkInPlace
<1>2. SoundGroups(groups') /\ Grouped(groups') = Ids(loaded)
  BY <1>1, GroupsAreSound DEF DeepInv, WorkTyped, LoadedOnce, Grouped
<1>3. <<>> \in Seq(Snapshot)
  OBVIOUS
<1>4. Divided(groups', <<>>, <<>>, Ids(loaded))
  BY <1>2, <1>3, EmptyIds DEF Divided
<1>5. QED
  BY <1>1, <1>4

(* A group becomes batches.                                                  *)
LEMMA NextGroupDivides ==
  ASSUME DeepInv, NEW g \in groups, NextGroup(g)
  PROVE  /\ Divided(groups', batches', batch', unresolved') /\ groups' \subseteq groups
         /\ pc = "group" /\ pc' = "batch" /\ UNCHANGED <<claimed, loaded, batch>>
<1>1. /\ pc = "group" /\ ~cancelled /\ pc' = "batch"
      /\ groups' = groups \ {g} /\ batches' = BatchDocuments(g)
      /\ UNCHANGED <<claimed, loaded, batch, unresolved>>
  BY DEF NextGroup
<1>2. Divided(groups, batches, batch, unresolved) /\ batches = <<>> /\ batch = <<>>
  BY <1>1, DividedWork DEF Dividing, Calling
<1>3. g \in Seq(Snapshot) /\ Distinct(g)
  BY <1>2 DEF Divided, SoundGroups
<1>4. SoundBatches(batches') /\ Held(batches') = Ids(g)
  BY <1>1, <1>3, BatchesAreSound
<1>5. SoundGroups(groups') /\ Grouped(groups) = Ids(g) \cup Grouped(groups') /\ Ids(g) \cap Grouped(groups') = {}
  BY <1>1, <1>2 DEF Divided, SoundGroups, Grouped
<1>6. Divided(groups', batches', batch, unresolved)
  BY <1>2, <1>4, <1>5, EmptyIds DEF Divided
<1>7. QED
  BY <1>1, <1>6

(* A batch is taken.                                                         *)
LEMMA NextBatchDivides ==
  ASSUME DeepInv, NextBatch
  PROVE  /\ Divided(groups', batches', batch', unresolved')
         /\ pc = "batch" /\ pc' = "call" /\ UNCHANGED <<claimed, loaded, groups>>
<1>1. /\ pc = "batch" /\ pc' = "call" /\ batches # <<>> /\ batch' = Head(batches) /\ batches' = Tail(batches)
      /\ UNCHANGED <<claimed, loaded, unresolved, groups>>
  BY DEF NextBatch
<1>2. Divided(groups, batches, batch, unresolved) /\ batch = <<>>
  BY <1>1, DividedWork DEF Dividing, Calling
<1>3. /\ batch' \in Seq(Snapshot) /\ Distinct(batch') /\ SoundBatches(batches')
      /\ Held(batches) = Ids(batch') \cup Held(batches') /\ Ids(batch') \cap Held(batches') = {}
  BY <1>1, <1>2, RestOfBatches DEF Divided
<1>4. Ids(batch) = {}
  BY <1>2, EmptyIds
<1>5. Divided(groups, batches', batch', unresolved)
  BY <1>2, <1>3, <1>4 DEF Divided
<1>6. QED
  BY <1>1, <1>5

(* A document of the batch gets its outcome.                                 *)
LEMMA ResolveDivides ==
  ASSUME DeepInv, batch # <<>>, Resolve
  PROVE  /\ Divided(groups', batches', batch', unresolved')
         /\ pc \in Calling /\ UNCHANGED <<pc, claimed, loaded, groups>>
<1>1. /\ batch' = Tail(batch) /\ unresolved' = unresolved \ {This}
      /\ UNCHANGED <<pc, claimed, loaded, groups, batches>>
  BY DEF Resolve
<1>2. /\ pc \in Calling /\ Tail(batch) \in Seq(Snapshot) /\ Distinct(Tail(batch))
      /\ This \in Ids(batch) /\ Ids(Tail(batch)) = Ids(batch) \ {This}
  BY HeadOfBatch DEF Calling
<1>3. Divided(groups, batches, batch, unresolved)
  BY <1>2, DividedWork DEF Dividing
<1>4. Divided(groups, batches, Tail(batch), unresolved \ {This})
  BY <1>2, <1>3 DEF Divided
<1>5. QED
  BY <1>1, <1>2, <1>4

(* The conjuncts of the invariant about the work.                            *)
WorkSound == WorkTyped /\ WorkInPlace /\ WorkIsDivided

(* Where Run divides its work, a division is all that has to be shown.       *)
LEMMA DividedSuffices ==
  ASSUME DeepInv, Next, pc' \in Dividing, claimed' = <<>>, pc' \notin Calling => batch' = <<>>,
         Divided(groups', batches', batch', unresolved'), groups' \subseteq GroupByTopics(loaded'),
         pc' = "group" /\ ~cancelled' => batches' = <<>>
  PROVE  WorkSound'
<1>1. /\ groups' \subseteq Seq(Snapshot) /\ batches' \in Seq(Seq(Snapshot)) /\ batch' \in Seq(Snapshot)
      /\ unresolved' \subseteq Doc
  BY DividedTyped
<1>2. WorkTyped'
  BY <1>1, AnswerStep, LoadedStep DEF WorkTyped
<1>3. WorkInPlace'
  BY DEF WorkInPlace, Dividing, Calling
<1>4. WorkIsDivided'
  BY DEF WorkIsDivided, Divided
<1>5. QED
  BY <1>2, <1>3, <1>4 DEF WorkSound

(* Where the steps that leave the work alone lead.                           *)
LEMMA QuietMoves ==
  ASSUME \/ ResetStaleJobs \/ NothingClaimed \/ GroupsDone \/ BatchesDone \/ EnrichFails \/ BatchDone
         \/ (\E a \in Answer : EnrichBatch(a))
         \/ (\E d \in Doc : Ingest(d) \/ Delete(d) \/ GrowsOld(d)) \/ Stop \/ Restart
  PROVE  \/ pc' = pc /\ (cancelled' \/ cancelled' = cancelled \/ pc = "idle")
         \/ pc \in {"idle", "claim"} /\ pc' \in {"idle", "claim"}
         \/ pc = "group" /\ pc' = "leftover"
         \/ pc = "batch" /\ pc' = "group" /\ (cancelled' \/ batches = <<>>)
         \/ pc = "call" /\ pc' \in {"apply", "fail"}
         \/ pc \in Calling /\ pc' = "batch" /\ batch = <<>>
<1>1. CASE ResetStaleJobs \/ NothingClaimed
  BY <1>1 DEF ResetStaleJobs, NothingClaimed
<1>2. CASE GroupsDone \/ BatchesDone \/ BatchDone
  BY <1>2 DEF GroupsDone, BatchesDone, BatchDone, Calling
<1>3. CASE EnrichFails \/ \E a \in Answer : EnrichBatch(a)
  BY <1>3 DEF EnrichFails, EnrichBatch
<1>4. CASE \E d \in Doc : Ingest(d) \/ Delete(d) \/ GrowsOld(d)
  <2>1. pc' = pc /\ cancelled' = cancelled
    BY <1>4 DEF Ingest, Delete, GrowsOld
  <2>2. QED
    BY <2>1
<1>5. CASE Stop \/ Restart
  <2>1. pc' = pc /\ (cancelled' \/ pc = "idle")
    BY <1>5 DEF Stop, Restart
  <2>2. QED
    BY <2>1
<1>6. QED
  BY <1>1, <1>2, <1>3, <1>4, <1>5

(* A step keeps the invariants about the work.                               *)
LEMMA WorkStep ==
  ASSUME DeepInv, Next
  PROVE  WorkSound'
<1>1. WorkTyped /\ WorkInPlace /\ WorkIsDivided
  BY DEF DeepInv
<1>2. claimed' \in Seq(Doc) /\ loaded' \in Seq(Snapshot)
  BY LoadedStep
<1>3. CASE WorkIsOver
  <2>1. /\ pc' = "idle" /\ claimed' = <<>> /\ loaded' = <<>> /\ unresolved' = {}
        /\ groups' = {} /\ batches' = <<>> /\ batch' = <<>>
    BY <1>3 DEF WorkIsOver
  <2>2. <<>> \in Seq(Snapshot) /\ <<>> \in Seq(Seq(Snapshot))
    OBVIOUS
  <2>3. WorkTyped'
    BY <1>2, <2>1, <2>2, AnswerStep DEF WorkTyped
  <2>4. WorkInPlace' /\ WorkIsDivided'
    BY <2>1 DEF WorkInPlace, WorkIsDivided
  <2>5. QED
    BY <2>3, <2>4 DEF WorkSound
<1>4. CASE \/ ResetStaleJobs \/ NothingClaimed \/ GroupsDone \/ BatchesDone \/ EnrichFails \/ BatchDone
           \/ (\E a \in Answer : EnrichBatch(a))
           \/ (\E d \in Doc : Ingest(d) \/ Delete(d) \/ GrowsOld(d)) \/ Stop \/ Restart
  <2>1. WorkUnchanged
    BY <1>4, QuietSteps
  <2>2. \/ pc' = pc /\ (cancelled' \/ cancelled' = cancelled \/ pc = "idle")
        \/ pc \in {"idle", "claim"} /\ pc' \in {"idle", "claim"}
        \/ pc = "group" /\ pc' = "leftover"
        \/ pc = "batch" /\ pc' = "group" /\ (cancelled' \/ batches = <<>>)
        \/ pc = "call" /\ pc' \in {"apply", "fail"}
        \/ pc \in Calling /\ pc' = "batch" /\ batch = <<>>
    BY <1>4, QuietMoves
  <2>3. CASE pc' \in Dividing
    <3>1. pc \in Dividing
      BY <2>2, <2>3 DEF Dividing, Calling
    <3>2. /\ Divided(groups, batches, batch, unresolved) /\ groups \subseteq GroupByTopics(loaded)
          /\ claimed = <<>> /\ (pc \notin Calling => batch = <<>>)
          /\ pc = "group" /\ ~cancelled => batches = <<>>
      BY <3>1, DividedWork
    <3>3. (pc' \notin Calling => batch = <<>>) /\ (pc' = "group" /\ ~cancelled' => batches = <<>>)
      BY <2>2, <3>2 DEF Calling
    <3>4. QED
      BY <2>1, <2>3, <3>2, <3>3, DividedSuffices DEF WorkUnchanged
  <2>4. CASE pc' \notin Dividing
    <3>1. WorkTyped'
      BY <1>1, <2>1, AnswerStep DEF WorkTyped, WorkUnchanged
    <3>2. WorkInPlace'
      BY <1>1, <2>1, <2>2, <2>4 DEF WorkInPlace, WorkUnchanged, Dividing, Calling
    <3>3. WorkIsDivided'
      BY <2>4 DEF WorkIsDivided, Dividing, Calling
    <3>4. QED
      BY <3>1, <3>2, <3>3 DEF WorkSound
  <2>5. QED
    BY <2>3, <2>4
<1>5. CASE ClaimJobs \/ GetContextDoc \/ GetContextDocFails \/ FailUnloaded
  <2>1. pc \in {"claim", "load"} /\ pc' = "load" /\ UNCHANGED <<unresolved, groups, batches, batch>>
    BY <1>5, ClaimingStep, LoadingStep, LoadingSteps
  <2>2. WorkTyped'
    BY <1>1, <1>2, <2>1, AnswerStep DEF WorkTyped
  <2>3. WorkInPlace' /\ WorkIsDivided'
    BY <1>1, <2>1 DEF WorkInPlace, WorkIsDivided
  <2>4. QED
    BY <2>2, <2>3 DEF WorkSound
<1>6. CASE FormGroups
  BY <1>6, FormGroupsDivides, DividedSuffices DEF Dividing
<1>7. ASSUME NEW g \in groups, NextGroup(g) PROVE WorkSound'
  <2>1. claimed = <<>> /\ batch = <<>> /\ groups \subseteq GroupByTopics(loaded)
    BY <1>7, NextGroupDivides, DividedWork DEF Dividing, Calling
  <2>2. QED
    BY <1>7, <2>1, NextGroupDivides, DividedSuffices DEF Dividing
<1>8. CASE NextBatch
  <2>1. claimed = <<>> /\ groups \subseteq GroupByTopics(loaded)
    BY <1>8, NextBatchDivides, DividedWork DEF Dividing
  <2>2. QED
    BY <1>8, <2>1, NextBatchDivides, DividedSuffices DEF Dividing, Calling
<1>9. CASE FailBatch \/ NoResult \/ Update \/ UpdateFails
  <2>1. batch # <<>> /\ Resolve
    BY <1>9, ResolvingSteps
  <2>2. /\ Divided(groups', batches', batch', unresolved')
        /\ pc \in Calling /\ UNCHANGED <<pc, claimed, loaded, groups>>
    BY <2>1, ResolveDivides
  <2>3. claimed = <<>> /\ groups \subseteq GroupByTopics(loaded)
    BY <2>2, DividedWork DEF Dividing
  <2>4. QED
    BY <2>2, <2>3, DividedSuffices DEF Dividing, Calling
<1>10. ASSUME NEW d \in Doc, FailLeftover(d) PROVE WorkSound'
  <2>1. /\ pc = "leftover" /\ pc' = "leftover" /\ unresolved' \subseteq unresolved
        /\ UNCHANGED <<claimed, loaded, groups, batches, batch>>
    BY <1>10 DEF FailLeftover
  <2>2. WorkTyped'
    BY <1>1, <2>1, AnswerStep DEF WorkTyped
  <2>3. WorkInPlace' /\ WorkIsDivided'
    BY <1>1, <2>1 DEF WorkInPlace, WorkIsDivided
  <2>4. QED
    BY <2>2, <2>3 DEF WorkSound
<1>11. QED
  BY <1>3, <1>4, <1>5, <1>6, <1>7, <1>8, <1>9, <1>10, EndingSteps DEF Next, RunNext

(* No other step completes a job.                                            *)
LEMMA OthersDoNotComplete ==
  ASSUME JobsTyped, Next, ~Update, ~NoResult, NEW d \in Doc, job'[d].state = "completed"
  PROVE  job[d].state = "completed"
<1>1. CASE UNCHANGED job
  BY <1>1
<1>2. ASSUME NEW x, FailJobOrNot(x) \/ job' = [job EXCEPT ![x] = Failed(@)] PROVE job[d].state = "completed"
  BY <1>2 DEF FailJobOrNot, FailJob, VerdictLost, Failed, JobsTyped
<1>3. CASE ResetStaleJobs
  BY <1>3 DEF ResetStaleJobs, Failed
<1>4. CASE ClaimJobs
  <2>1. PICK S \in SUBSET Pending :
          job' = [x \in Doc |-> IF x \in S THEN [job[x] EXCEPT !.state = "running"] ELSE job[x]]
    BY <1>4 DEF ClaimJobs
  <2>2. QED
    BY <2>1 DEF JobsTyped
<1>5. CASE \E x \in Doc : Ingest(x)
  BY <1>5 DEF Ingest, JobsTyped
<1>6. CASE GetContextDocFails \/ FailUnloaded \/ FailBatch \/ UpdateFails \/ \E x \in Doc : FailLeftover(x)
  BY <1>2, <1>6 DEF GetContextDocFails, FailUnloaded, FailBatch, UpdateFails, FailLeftover
<1>7. CASE ~ \/ ResetStaleJobs \/ ClaimJobs \/ (\E x \in Doc : Ingest(x) \/ FailLeftover(x))
             \/ GetContextDocFails \/ FailUnloaded \/ FailBatch \/ UpdateFails
  BY <1>1, <1>7 DEF tables, Next, RunNext, NothingClaimed, GetContextDoc, CancelledInLoad, NothingLoaded,
                    FormGroups, GroupsDone, NextBatch, BatchesDone, NextGroup, EnrichBatch, EnrichFails,
                    BatchDone, RunEnds, Delete, GrowsOld, Stop, Restart, Crash
<1>8. QED
  BY <1>3, <1>4, <1>5, <1>6, <1>7

(* A job is completed where its document was enriched or had no result.      *)
LEMMA EnrichedStep ==
  ASSUME DeepInv, Next
  PROVE  CompletedMeansEnriched'
<1>1. CompletedMeansEnriched /\ JobsTyped /\ deep \in [Doc -> SUBSET (SUBSET Doc)] /\ RowsMove
  BY HandStep DEF DeepInv, TablesTyped
<1>2. unanswered \subseteq unanswered' /\ \A d \in Doc : deep[d] # {} => deep'[d] # {}
  <2>1. CASE Update
    <3>1. deep' = [deep EXCEPT ![This] = {answer.refs}] /\ UNCHANGED unanswered
      BY <2>1 DEF Update
    <3>2. QED
      BY <1>1, <3>1
  <2>2. CASE NoResult
    BY <2>2 DEF NoResult
  <2>3. CASE ~Update /\ ~NoResult
    BY <2>3 DEF tables, history, Next, RunNext, ResetStaleJobs, ClaimJobs,
              NothingClaimed, GetContextDoc,
              GetContextDocFails, FailUnloaded, CancelledInLoad, NothingLoaded, FormGroups, GroupsDone,
              NextBatch, BatchesDone, NextGroup, EnrichBatch, EnrichFails, FailBatch,
              UpdateFails, BatchDone, FailLeftover, RunEnds, Ingest, Delete, GrowsOld, Stop, Restart, Crash,
              Resolve, LoadUnchanged
  <2>4. QED
    BY <2>1, <2>2, <2>3
<1>3. ASSUME NEW d \in Doc, job'[d].state = "completed", job[d].state # "completed"
      PROVE  deep'[d] # {} \/ d \in unanswered'
  <2>1. CASE Update
    <3>1. This \in Doc /\ deep' = [deep EXCEPT ![This] = {answer.refs}] /\ CompleteJobOrNot(This)
      BY <2>1, HeadOfBatch DEF Update
    <3>2. d = This
      BY <1>1, <1>3, <3>1 DEF CompleteJobOrNot, CompleteJob, VerdictLost, JobsTyped
    <3>3. QED
      BY <1>1, <3>1, <3>2
  <2>2. CASE NoResult
    <3>1. This \in Doc /\ unanswered' = unanswered \cup {This} /\ CompleteJobOrNot(This)
      BY <2>2, HeadOfBatch DEF NoResult
    <3>2. d = This
      BY <1>1, <1>3, <3>1 DEF CompleteJobOrNot, CompleteJob, VerdictLost, JobsTyped
    <3>3. QED
      BY <3>1, <3>2
  <2>3. CASE ~Update /\ ~NoResult
    BY <1>1, <1>3, <2>3, OthersDoNotComplete
  <2>4. QED
    BY <2>1, <2>2, <2>3
<1>4. QED
  BY <1>1, <1>2, <1>3 DEF CompletedMeansEnriched

(* The invariant holds at the beginning.                                     *)
LEMMA InitDeepInv == Init => DeepInv
<1> SUFFICES ASSUME Init PROVE DeepInv
  OBVIOUS
<1>1. JobsTyped /\ AttemptsLeft /\ CompletedMeansEnriched
  <2>1. job = [d \in Doc |-> [state |-> "none", attempts |-> 0]] /\ MaxAttempts \in Nat
    BY DeepAssumption DEF Init
  <2>2. [state |-> "none", attempts |-> 0] \in [state : JobState, attempts : 0 .. MaxAttempts]
    BY <2>1 DEF JobState
  <2>3. JobsTyped
    BY <2>1, <2>2 DEF JobsTyped
  <2>4. \A d \in Doc : job[d].state = "none" /\ job[d].attempts = 0
    BY <2>1
  <2>5. QED
    BY <2>3, <2>4 DEF AttemptsLeft, CompletedMeansEnriched
<1>2. TablesTyped
  <2>1. tags \in [Doc -> SUBSET Topic] /\ deep \in [Doc -> SUBSET (SUBSET Doc)]
    <3>1. tags = [d \in Doc |-> {}] /\ deep = [d \in Doc |-> {}]
      BY DEF Init
    <3>2. {} \in SUBSET Topic /\ {} \in SUBSET (SUBSET Doc)
      OBVIOUS
    <3>3. QED
      BY <3>1, <3>2
  <2>2. faults \in 0 .. MaxFaults
    BY DeepAssumption DEF Init
  <2>3. QED
    BY <2>1, <2>2 DEF Init, TablesTyped, Place
<1>3. WorkTyped
  BY DEF Init, WorkTyped, NoAnswer
<1>4. WorkInPlace /\ WorkIsDivided /\ OldAreStranded
  BY DEF Init, WorkInPlace, WorkIsDivided, OldAreStranded
<1>5. LoadedOnce
  BY EmptyIds DEF Init, LoadedOnce, IsInjective
<1>6. RunningIsAccounted
  <2>1. InHand = {}
    BY EmptyIds DEF Init, InHand
  <2>2. QED
    BY <2>1 DEF Init, RunningIsAccounted
<1>7. QED
  BY <1>1, <1>2, <1>3, <1>4, <1>5, <1>6 DEF DeepInv

(* A step keeps the invariant.                                               *)
LEMMA DeepInvStep == DeepInv /\ [Next]_vars => DeepInv'
<1>1. ASSUME DeepInv, Next PROVE DeepInv'
  <2>1. JobsTyped' /\ AttemptsLeft'
    BY <1>1, HandStep, RowsStaySound DEF DeepInv
  <2>2. RunningIsAccounted'
    BY <1>1, HandStep
  <2>3. OldAreStranded' /\ TablesTyped' /\ LoadedOnce' /\ CompletedMeansEnriched'
    BY <1>1, OldStep, TablesStep, LoadedStep, EnrichedStep
  <2>4. WorkTyped' /\ WorkInPlace' /\ WorkIsDivided'
    BY <1>1, WorkStep DEF WorkSound
  <2>5. QED
    BY <2>1, <2>2, <2>3, <2>4 DEF DeepInv
<1>2. ASSUME DeepInv, UNCHANGED vars PROVE DeepInv'
  <2>1. UNCHANGED <<docs, tags, deep, job, old, cancelled, pc, claimed, loaded, unresolved, groups, batches,
                    batch, answer, faults, stranded, unanswered>>
    BY <1>2 DEF vars, tables, work, history
  <2>2. UNCHANGED InHand
    BY <2>1 DEF InHand
  <2>3. JobsTyped' /\ TablesTyped' /\ WorkTyped'
    BY <1>2, <2>1 DEF DeepInv, JobsTyped, TablesTyped, WorkTyped
  <2>4. AttemptsLeft' /\ RunningIsAccounted' /\ OldAreStranded' /\ CompletedMeansEnriched'
    BY <1>2, <2>1, <2>2 DEF DeepInv, AttemptsLeft, RunningIsAccounted, OldAreStranded, CompletedMeansEnriched
  <2>5. LoadedOnce' /\ WorkInPlace' /\ WorkIsDivided'
    BY <1>2, <2>1 DEF DeepInv, LoadedOnce, WorkInPlace, WorkIsDivided
  <2>6. QED
    BY <2>3, <2>4, <2>5 DEF DeepInv
<1>3. QED
  BY <1>1, <1>2

(* The invariant always holds.                                               *)
LEMMA DeepInvariant == Spec => []DeepInv
BY InitDeepInv, DeepInvStep, PTL DEF Spec

(* The invariant contains the type.                                          *)
LEMMA DeepInvTyped == DeepInv => TypeOK
<1> SUFFICES ASSUME DeepInv PROVE TypeOK
  OBVIOUS
<1>1. old \subseteq {d \in Doc : job[d].state = "running"}
  BY InHandIsRunning DEF Running
<1>2. QED
  BY <1>1 DEF DeepInv, JobsTyped, JobState, TablesTyped, Place, WorkTyped, TypeOK

(* Type correctness of the worker.                                           *)
THEOREM DeepEnrichTyped == Spec => []TypeOK
BY DeepInvariant, DeepInvTyped, PTL

(* A job handed out is in the hand of the pass or waits to be reset: no      *)
(* other row runs, whatever fails, stops or crashes. (Run, Stop, ClaimJobs,  *)
(* ResetStaleJobs)                                                           *)
THEOREM RunningJobsAccounted == Spec => []RunningIsAccounted
<1>1. DeepInv => RunningIsAccounted
  BY DEF DeepInv
<1>2. QED
  BY <1>1, DeepInvariant, PTL

(* A job is completed only with its document updated, deleted or without     *)
(* result. (processBatch)                                                    *)
THEOREM CompletedAreEnriched == Spec => []CompletedMeansEnriched
<1>1. DeepInv => CompletedMeansEnriched
  BY DEF DeepInv
<1>2. QED
  BY <1>1, DeepInvariant, PTL

(* The documents of the batches of a sequence, as a union.                   *)
LEMMA HeldByBatches ==
  ASSUME NEW B, SoundBatches(B)
  PROVE  /\ UNION {Ids(b) : b \in ToSet(B)} = Held(B)
         /\ \A b \in ToSet(B) : b \in Seq(Snapshot) /\ Distinct(b) /\ Fits(b)
         /\ \A b, c \in ToSet(B) : b # c => Ids(b) \cap Ids(c) = {}
<1>1. ToSet(B) = {B[m] : m \in DOMAIN B}
  BY DEF ToSet
<1>2. \A m \in DOMAIN B : B[m] \in Seq(Snapshot)
  <2> DEFINE S == Seq(Snapshot)
  <2>1. B \in Seq(S)
    BY DEF SoundBatches
  <2> HIDE DEF S
  <2>2. \A m \in DOMAIN B : B[m] \in S
    BY <2>1
  <2>3. QED
    BY <2>2 DEF S
<1>3. \A m \in DOMAIN B : Ids(B[m]) \subseteq Doc
  BY <1>2, IdsAreDocuments
<1>4. UNION {Ids(b) : b \in ToSet(B)} = Held(B)
  BY <1>1, <1>3 DEF Held
<1>5. \A b, c \in ToSet(B) : b # c => Ids(b) \cap Ids(c) = {}
  BY <1>1 DEF SoundBatches
<1>6. QED
  BY <1>1, <1>2, <1>4, <1>5 DEF SoundBatches

(* The invariant contains PassLosesNothing.                                  *)
LEMMA DividedLosesNothing == DeepInv => PassLosesNothing
<1> SUFFICES ASSUME DeepInv, pc \in Dividing
             PROVE  LET parts == {batch} \cup ToSet(batches) \cup groups
                    IN /\ UNION {Ids(g) : g \in parts} = unresolved
                       /\ \A g, h \in parts : g # h => Ids(g) \cap Ids(h) = {}
                       /\ \A g \in parts : IsInjective(g)
                       /\ \A b \in ToSet(batches) : Len(b) = 1 \/ Sum(b) <= MaxTokens
  BY DEF PassLosesNothing, Dividing, Calling
<1> DEFINE parts == {batch} \cup ToSet(batches) \cup groups
<1>1. Divided(groups, batches, batch, unresolved)
  BY DividedWork
<1>2. /\ UNION {Ids(b) : b \in ToSet(batches)} = Held(batches)
      /\ \A b \in ToSet(batches) : b \in Seq(Snapshot) /\ Distinct(b) /\ Fits(b)
      /\ \A b, c \in ToSet(batches) : b # c => Ids(b) \cap Ids(c) = {}
  BY <1>1, HeldByBatches DEF Divided
<1>3. UNION {Ids(g) : g \in parts} = unresolved
  <2>1. PICK B : B = ToSet(batches)
    OBVIOUS
  <2>2. UNION {Ids(g) : g \in {batch} \cup B \cup groups}
          = Ids(batch) \cup (UNION {Ids(b) : b \in B}) \cup (UNION {Ids(g) : g \in groups})
    OBVIOUS
  <2>3. QED
    BY <1>1, <1>2, <2>1, <2>2 DEF Divided, Grouped
<1>4. ASSUME NEW g \in parts, NEW h \in parts, g # h PROVE Ids(g) \cap Ids(h) = {}
  <2>1. \A b \in ToSet(batches) : Ids(b) \subseteq Held(batches)
    BY <1>2
  <2>2. \A k \in groups : Ids(k) \subseteq Grouped(groups)
    BY DEF Grouped
  <2>3. \A b, c \in groups : b # c => Ids(b) \cap Ids(c) = {}
    BY <1>1 DEF Divided, SoundGroups
  <2>4. Ids(batch) \cap Held(batches) = {} /\ (Ids(batch) \cup Held(batches)) \cap Grouped(groups) = {}
    BY <1>1 DEF Divided
  <2>5. QED
    BY <1>2, <1>4, <2>1, <2>2, <2>3, <2>4
<1>5. ASSUME NEW g \in parts PROVE IsInjective(g)
  <2>1. Distinct(g)
    BY <1>1, <1>2 DEF Divided, SoundGroups
  <2>2. QED
    BY <2>1 DEF Distinct, IsInjective
<1>6. QED
  BY <1>2, <1>3, <1>4, <1>5 DEF Fits

(* Whatever is grouped, batched and called, a document of the pass without   *)
(* outcome is in exactly one group, batch or call, and every batch fits into *)
(* the budget. (processGroups, BatchDocuments)                               *)
THEOREM NoDocumentLost == Spec => []PassLosesNothing
BY DeepInvariant, DividedLosesNothing, PTL

(* Before the first group is taken the groups are all of them.               *)
LEMMA WholeIsAllGroups ==
  ASSUME DeepInv, pc = "group", unresolved = Ids(loaded), batches = <<>>
  PROVE  groups = GroupByTopics(loaded)
<1> DEFINE G == GroupByTopics(loaded)
<1>1. /\ Divided(groups, batches, batch, unresolved) /\ groups \subseteq G /\ batch = <<>>
  BY DividedWork DEF Dividing, Calling
<1>2. Grouped(groups) = Ids(loaded)
  BY <1>1, EmptyIds DEF Divided
<1>3. SoundGroups(G) /\ UNION {Ids(g) : g \in G} = Ids(loaded)
  BY GroupsAreSound DEF DeepInv, WorkTyped, LoadedOnce
<1>4. ASSUME NEW g \in G, g \notin groups PROVE FALSE
  <2>1. g \in Seq(Snapshot) /\ g # <<>> /\ Distinct(g)
    BY <1>3 DEF SoundGroups
  <2>2. Head(g).id \in Ids(g)
    BY <2>1, RestOfDocuments
  <2>3. PICK h \in groups : Head(g).id \in Ids(h)
    BY <1>2, <1>3, <2>2 DEF Grouped
  <2>4. h # g /\ h \in G
    BY <1>1, <1>4
  <2>5. QED
    BY <1>3, <2>2, <2>3, <2>4 DEF SoundGroups
<1>5. QED
  BY <1>1, <1>4

(* Two tagged documents are in one group exactly when a chain of similar     *)
(* documents connects them. (GroupByTopics)                                  *)
THEOREM GroupsAreTheComponents == Spec => []GroupsAreComponents
<1>1. DeepInv => GroupsAreComponents
  <2> SUFFICES ASSUME DeepInv, pc = "group", unresolved = Ids(loaded), batches = <<>>,
                      NEW x \in ToSet(loaded), NEW y \in ToSet(loaded)
               PROVE  (\E g \in groups : {x, y} \subseteq ToSet(g))
                         <=> IF x.tags = {} THEN y.tags = {} ELSE Connected(ToSet(loaded), x, y)
    BY DEF GroupsAreComponents
  <2>1. groups = GroupByTopics(loaded)
    BY WholeIsAllGroups
  <2>2. loaded \in Seq(Snapshot) /\ Distinct(loaded)
    BY DEF DeepInv, WorkTyped, LoadedOnce
  <2>3. QED
    BY <2>1, <2>2, GroupsAreClasses
<1>2. QED
  BY <1>1, DeepInvariant, PTL

(* The initial states are initial states of the ledger.                      *)
LEMMA LedgerInit == Init => Ledger!Init
BY DEF Init, Ledger!Init, phase, starts

(* Every step is a step of the ledger or leaves it alone.                    *)
LEMMA LedgerStep == DeepInv /\ DeepInv' /\ [Next]_vars => [Ledger!Next]_(Ledger!vars)
<1>1. ASSUME DeepInv, DeepInv', Next PROVE Ledger!Next
  <2>1. phase' \in [Doc -> Ledger!Phase]
    BY DEF phase, Ledger!Phase
  <2>2. starts' \in [Doc -> Nat]
    <3>1. \A d \in Doc : job'[d].attempts \in Nat
      BY <1>1, DeepAssumption DEF DeepInv, JobsTyped
    <3>2. QED
      BY <3>1 DEF starts
  <2>3. ASSUME NEW d \in Doc
        PROVE  \/ Ledger!Stay(d) \/ Ledger!Submit(d) \/ Ledger!Take(d)
               \/ Ledger!PutBack(d) \/ Ledger!Close(d)
    <3>1. RowMove(d)
      BY <1>1, HandStep DEF RowsMove
    <3>2. job[d] \in [state : JobState, attempts : 0 .. MaxAttempts] /\ MaxAttempts \in Nat
      BY <1>1, DeepAssumption DEF DeepInv, JobsTyped
    <3>3. job[d].state = "pending" => job[d].attempts < MaxAttempts
      BY <1>1 DEF DeepInv, AttemptsLeft
    <3>4. CASE job'[d] = job[d]
      BY <3>4 DEF Ledger!Stay, phase, starts
    <3>5. CASE job[d].state = "none" /\ job'[d] = [state |-> "pending", attempts |-> job[d].attempts]
      BY <3>2, <3>5 DEF Ledger!Submit, phase, starts
    <3>6. CASE job[d].state = "pending" /\ job'[d] = [state |-> "running", attempts |-> job[d].attempts]
      BY <3>2, <3>3, <3>6 DEF Ledger!Take, phase, starts
    <3>7. CASE job[d].state = "running" /\ job'[d] = Failed(job[d])
      BY <3>2, <3>7 DEF Ledger!PutBack, Ledger!Close, phase, starts, Failed
    <3>8. CASE job[d].state = "running" /\ job'[d] = [state |-> "completed", attempts |-> job[d].attempts]
      BY <3>2, <3>8 DEF Ledger!Close, phase, starts
    <3>9. QED
      BY <3>1, <3>4, <3>5, <3>6, <3>7, <3>8 DEF RowMove
  <2>4. QED
    BY <2>1, <2>2, <2>3 DEF Ledger!Next
<1>2. UNCHANGED vars => UNCHANGED Ledger!vars
  BY DEF vars, tables, Ledger!vars, phase, starts
<1>3. QED
  BY <1>1, <1>2

(* The rows of jobs, as deep enrichment uses them, implement the abstract    *)
(* ledger of JobLedger.                                                      *)
THEOREM DeepEnrichImplementsLedger == Spec => ImplementsLedger
<1>1. DeepInv /\ DeepInv' /\ [Next]_vars => [Ledger!Next]_(Ledger!vars)
  BY LedgerStep
<1>2. QED
  BY <1>1, LedgerInit, DeepInvariant, PTL DEF Spec, ImplementsLedger, Ledger!Spec

-----------------------------------------------------------------------------
(* The search *)

(* The ids of a set of scores.                                               *)
IdsIn(S) == {a.id : a \in S}

(* A set of scores with one for each id it has.                              *)
OneScoreEach(S) == S \subseteq Scored /\ \A a, b \in S : a.id = b.id => a = b

(* The constants of the search, from SearchAssumption.                       *)
LEMMA SearchFacts ==
  /\ IsFiniteSet(Record) /\ IsFiniteSet(Query) /\ RetrieveK \in Nat \ {0} /\ Widen \in Nat \ {0}
  /\ Cardinality(Record) \in Nat /\ Stored \subseteq Record
  /\ Quality \subseteq Nat /\ 10 \in Quality
  /\ \A t \in Query, r \in Record : Similarity[t][r] \in Nat /\ Relevance[t][r] \in Nat
<1>1. IsFiniteSet(Record) /\ IsFiniteSet(Query) /\ RetrieveK \in Nat \ {0} /\ Widen \in Nat \ {0}
      /\ Stored \subseteq Record
  BY SearchAssumption
<1>2. Cardinality(Record) \in Nat
  BY <1>1, FS_CardinalityType
<1>3. Quality \subseteq 1 .. 20 /\ 10 \in Quality
  BY SearchAssumption
<1>4. Quality \subseteq Nat
  BY <1>3
<1>5. Similarity \in [Query -> [Record -> 0 .. 10]] /\ Relevance \in [Query -> [Record -> Nat]]
  BY SearchAssumption
<1>6. \A t \in Query, r \in Record : Similarity[t][r] \in Nat /\ Relevance[t][r] \in Nat
  BY <1>5
<1>7. QED
  BY <1>1, <1>2, <1>3, <1>4, <1>6

(* A set with one score for each id is as large as its set of ids.           *)
LEMMA CountedByIds ==
  ASSUME NEW S, OneScoreEach(S)
  PROVE  IsFiniteSet(S) /\ Cardinality(S) \in Nat /\ Cardinality(S) = Cardinality(IdsIn(S))
         /\ IdsIn(S) \subseteq Record /\ IsFiniteSet(IdsIn(S))
<1> DEFINE f == [a \in S |-> a.id]
           R == IdsIn(S)
<1>1. R \subseteq Record
  BY DEF OneScoreEach, Scored, IdsIn
<1>2. IsFiniteSet(R)
  BY <1>1, SearchFacts, FS_Subset
<1>3. f \in Injection(S, R) /\ f \in Surjection(S, R)
  BY DEF OneScoreEach, IdsIn, Injection, Surjection, IsInjective
<1> HIDE DEF f, R
<1>4. IsFiniteSet(S) /\ Cardinality(S) = Cardinality(R)
  BY <1>2, <1>3, FS_Injection
<1>5. QED
  BY <1>1, <1>2, <1>4, FS_CardinalityType DEF R

(* The k best of a finite set: all, or k of them.                            *)
LEMMA BestFew ==
  ASSUME NEW S, IsFiniteSet(S), NEW k \in Nat, NEW T \in TopSets(S, k)
  PROVE  /\ T \subseteq S /\ IsFiniteSet(T)
         /\ Cardinality(S) <= k => T = S
         /\ Cardinality(S) > k => Cardinality(T) = k
         /\ Cardinality(T) \in Nat /\ Cardinality(T) <= k
<1>1. Cardinality(S) \in Nat
  BY FS_CardinalityType
<1>2. T \subseteq S /\ Cardinality(T) = Min({k, Cardinality(S)})
  <2>1. T \in kSubset(Min({k, Cardinality(S)}), S)
    BY DEF TopSets
  <2>2. QED
    BY <2>1 DEF kSubset
<1>3. Cardinality(T) = IF k <= Cardinality(S) THEN k ELSE Cardinality(S)
  BY <1>1, <1>2, MinOfTwo
<1>4. IsFiniteSet(T)
  BY <1>2, FS_Subset
<1>5. Cardinality(S) <= k => T = S
  BY <1>1, <1>2, <1>3, FS_Subset
<1>6. QED
  BY <1>1, <1>2, <1>3, <1>4, <1>5

(* A list of all of a finite set, the best first.                            *)
LEMMA InOrder ==
  ASSUME NEW S, IsFiniteSet(S), NEW q \in Sorted(S)
  PROVE  /\ q \in Seq(S) /\ Len(q) = Cardinality(S) /\ DOMAIN q = 1 .. Len(q)
         /\ \A i, j \in DOMAIN q : i # j => q[i] # q[j]
         /\ \A a \in S : \E i \in DOMAIN q : q[i] = a
         /\ \A i \in DOMAIN q : q[i] \in S
         /\ \A i, j \in DOMAIN q : i < j => q[i].score >= q[j].score
<1>1. q \in SetToSeqs(S) /\ \A i, j \in DOMAIN q : i < j => q[i].score >= q[j].score
  BY DEF Sorted
<1>2. q \in Seq(S) /\ IsInjective(q) /\ ToSet(q) = S
  BY <1>1, Enumerated
<1>3. Cardinality(S) \in Nat
  BY FS_CardinalityType
<1>4. q \in [1 .. Cardinality(S) -> S]
  BY <1>1 DEF SetToSeqs
<1>5. Len(q) = Cardinality(S) /\ DOMAIN q = 1 .. Len(q)
  BY <1>2, <1>3, <1>4
<1>6. \A i \in DOMAIN q : q[i] \in S
  BY <1>4
<1>7. QED
  BY <1>1, <1>2, <1>5, <1>6 DEF IsInjective, ToSet

(* More records have no fewer sources, and no more sources than records.     *)
LEMMA SourcesGrow ==
  ASSUME NEW X \in SUBSET Record, NEW Y \in SUBSET X
  PROVE  /\ IsFiniteSet(Sources(X)) /\ Cardinality(Sources(X)) \in Nat
         /\ Cardinality(Sources(Y)) <= Cardinality(Sources(X))
         /\ Cardinality(Sources(Y)) \in Nat /\ Cardinality(X) \in Nat
         /\ Cardinality(Sources(X)) <= Cardinality(X)
<1>1. IsFiniteSet(X) /\ IsFiniteSet(Y)
  BY SearchFacts, FS_Subset
<1>2. IsFiniteSet(Sources(X)) /\ Cardinality(Sources(X)) \in Nat
      /\ Cardinality(Sources(X)) <= Cardinality(X) /\ Cardinality(X) \in Nat
  BY <1>1, ImageIsFinite DEF Sources
<1>3. Sources(Y) \in SUBSET Sources(X)
  BY DEF Sources
<1>4. Cardinality(Sources(Y)) <= Cardinality(Sources(X)) /\ IsFiniteSet(Sources(Y))
  BY <1>2, <1>3, FS_Subset
<1>5. QED
  BY <1>2, <1>4, FS_CardinalityType

(* A set of records has at most as many second records of a source as there  *)
(* are at all.                                                               *)
LEMMA FewDoubles ==
  ASSUME NEW X \in SUBSET Record
  PROVE  /\ Cardinality(X) - (Cardinality(Record) - Cardinality(Sources(Record))) <= Cardinality(Sources(X))
         /\ Cardinality(Record) - Cardinality(Sources(Record)) \in Nat
<1> DEFINE Y == Record \ X
<1>1. IsFiniteSet(Record) /\ IsFiniteSet(X) /\ IsFiniteSet(Y)
  BY SearchFacts, FS_Subset
<1>2. Record = X \cup Y /\ X \cap Y = {} /\ Sources(Record) = Sources(X) \cup Sources(Y)
  BY DEF Sources
<1>3. Y \in SUBSET Record /\ Record \in SUBSET Record
  OBVIOUS
<1> HIDE DEF Y
<1>4. /\ IsFiniteSet(Sources(X)) /\ IsFiniteSet(Sources(Y)) /\ Cardinality(Sources(Y)) <= Cardinality(Y)
      /\ Cardinality(Sources(X)) \in Nat /\ Cardinality(Sources(Y)) \in Nat /\ Cardinality(Y) \in Nat
      /\ Cardinality(X) \in Nat /\ Cardinality(Sources(Record)) \in Nat /\ Cardinality(Record) \in Nat
      /\ Cardinality(Sources(Record)) <= Cardinality(Record)
  BY <1>3, SourcesGrow
<1>5. Cardinality(Record) = Cardinality(X) + Cardinality(Y)
  <2>1. Cardinality(X \cup Y) = Cardinality(X) + Cardinality(Y) - Cardinality(X \cap Y)
    BY <1>1, FS_Union
  <2>2. QED
    BY <1>2, <1>4, <2>1, FS_EmptySet
<1>6. Cardinality(Sources(Record)) <= Cardinality(Sources(X)) + Cardinality(Sources(Y))
  <2>1. PICK Z : Z = Sources(X) \cap Sources(Y)
    OBVIOUS
  <2>2. Cardinality(Sources(X) \cup Sources(Y)) = Cardinality(Sources(X)) + Cardinality(Sources(Y)) - Cardinality(Z)
    BY <1>4, <2>1, FS_Union
  <2>3. Z \in SUBSET Sources(X)
    BY <2>1
  <2>4. Cardinality(Z) \in Nat
    BY <1>4, <2>3, FS_Subset, FS_CardinalityType
  <2>5. Cardinality(Sources(Record)) = Cardinality(Sources(X)) + Cardinality(Sources(Y)) - Cardinality(Z)
    BY <1>2, <2>2
  <2>6. QED
    BY <1>4, <2>4, <2>5
<1>7. QED
  BY <1>4, <1>5, <1>6

(* The ids of a list of scores.                                              *)
IdsOf(c) == {c[i].id : i \in DOMAIN c}

(* deduplicateAndTrim: no source twice, the best first, and either as many   *)
(* as asked for or one for each source that was found. (retriever.go)        *)
LEMMA BestOfEachSource ==
  ASSUME NEW S, IsFiniteSet(S), S \subseteq Scored, NEW c \in deduplicateAndTrim(S)
  PROVE  /\ c \in Seq(S) /\ Len(c) <= RetrieveK
         /\ Cardinality(Sources(IdsOf(c))) = Len(c)
         /\ \A i, j \in DOMAIN c : i < j => c[i].score >= c[j].score
         /\ Len(c) = RetrieveK \/ Len(c) = Cardinality(Sources(IdsIn(S)))
<1> DEFINE best == {a \in S : \A b \in S : SourceOf[b.id] = SourceOf[a.id] => a.score >= b.score}
           f == [a \in S |-> SourceOf[a.id]]
<1>1. PICK U \in SUBSET best :
        /\ \A a \in best : \E b \in U : SourceOf[b.id] = SourceOf[a.id]
                                        /\ \A d \in U : SourceOf[d.id] = SourceOf[b.id] => d = b
        /\ c \in UNION {Sorted(T) : T \in TopSets(U, RetrieveK)}
  BY DEF deduplicateAndTrim
<1>2. PICK T \in TopSets(U, RetrieveK) : c \in Sorted(T)
  BY <1>1
<1>3. U \subseteq S /\ IsFiniteSet(U)
  <2>1. U \in SUBSET S
    OBVIOUS
  <2>2. QED
    BY <2>1, FS_Subset
<1>4. ASSUME NEW a \in S PROVE \E b \in U : f[b] = f[a]
  <2> DEFINE G == {x \in S : SourceOf[x.id] = SourceOf[a.id]}
             points == [x \in S |-> x.score]
             N == {points[x] : x \in G}
  <2>1. a \in G /\ G \in SUBSET S
    OBVIOUS
  <2>2. IsFiniteSet(G)
    <3> HIDE DEF G
    <3>1. QED
      BY <2>1, FS_Subset
  <2>3. IsFiniteSet(N)
    <3> HIDE DEF G, points
    <3>1. QED
      BY <2>2, ImageIsFinite
  <2>4. Numbers(N)
    BY <2>1 DEF Numbers, Scored
  <2>5. PICK h \in N : \A y \in N : h >= y
    <3> HIDE DEF N
    <3>1. QED
      BY <2>3, <2>4, BoundsExist
  <2>6. PICK b \in G : b.score = h
    BY <2>5
  <2>7. b \in best
    BY <2>5, <2>6
  <2>8. PICK d \in U : SourceOf[d.id] = SourceOf[b.id]
    BY <1>1, <2>7
  <2>9. SourceOf[d.id] = SourceOf[a.id] /\ d \in S
    BY <1>3, <2>6, <2>8
  <2>10. QED
    BY <2>9
<1>5. ASSUME NEW a \in U, NEW b \in U, f[a] = f[b] PROVE a = b
  BY <1>1, <1>3, <1>5
<1>6. T \subseteq U /\ IsFiniteSet(T) /\ Cardinality(T) \in Nat /\ Cardinality(T) <= RetrieveK
      /\ (Cardinality(U) <= RetrieveK => T = U) /\ (Cardinality(U) > RetrieveK => Cardinality(T) = RetrieveK)
  BY <1>2, <1>3, BestFew, SearchFacts
<1>7. /\ c \in Seq(T) /\ Len(c) = Cardinality(T)
      /\ \A a \in T : \E i \in DOMAIN c : c[i] = a
      /\ \A i \in DOMAIN c : c[i] \in T
      /\ \A i, j \in DOMAIN c : i < j => c[i].score >= c[j].score
  BY <1>2, <1>6, InOrder
<1>8. Sources(IdsOf(c)) = {f[a] : a \in T} /\ Sources(IdsIn(S)) = {f[a] : a \in U}
  <2>1. Sources(IdsOf(c)) = {SourceOf[a.id] : a \in T}
    BY <1>7 DEF Sources, IdsOf
  <2>2. {f[a] : a \in T} = {SourceOf[a.id] : a \in T}
    BY <1>3, <1>6
  <2>3. Sources(IdsIn(S)) = {f[a] : a \in S}
    BY DEF Sources, IdsIn
  <2>4. {f[a] : a \in S} = {f[a] : a \in U}
    <3> HIDE DEF f
    <3>1. QED
      BY <1>3, <1>4
  <2>5. QED
    BY <2>1, <2>2, <2>3, <2>4
<1>9. Cardinality({f[a] : a \in T}) = Cardinality(T) /\ Cardinality({f[a] : a \in U}) = Cardinality(U)
      /\ Cardinality(U) \in Nat
  <2> HIDE DEF f, best
  <2>1. \A a, b \in T : f[a] = f[b] => a = b
    BY <1>5, <1>6
  <2>2. \A a, b \in U : f[a] = f[b] => a = b
    BY <1>5
  <2>3. IsFiniteSet(T) /\ IsFiniteSet(U)
    BY <1>3, <1>6
  <2>4. /\ Cardinality({f[a] : a \in T}) = Cardinality(T)
        /\ Cardinality({f[a] : a \in U}) = Cardinality(U)
    BY <2>1, <2>2, <2>3, ImageIsFinite
  <2>5. QED
    BY <2>3, <2>4, FS_CardinalityType
<1>10. Len(c) = RetrieveK \/ Len(c) = Cardinality(Sources(IdsIn(S)))
  BY <1>6, <1>7, <1>8, <1>9, SearchFacts
<1>11. c \in Seq(S)
  BY <1>3, <1>6, <1>7
<1>12. QED
  BY <1>6, <1>7, <1>8, <1>9, <1>10, <1>11

(* Similarity times quality is a score.                                      *)
LEMMA VectorScores ==
  ASSUME quality \in [Record -> Quality], NEW t \in Query, NEW r \in Record
  PROVE  VectorScore(t, r) \in Nat
<1>1. Similarity[t][r] \in Nat /\ quality[r] \in Nat
  BY SearchFacts
<1>2. Similarity[t][r] * quality[r] \in Nat
  BY <1>1, Product
<1>3. RankUnit \div 10 \in Nat
  BY DEF RankUnit
<1>4. QED
  BY <1>2, <1>3, Product DEF VectorScore

(* A normalized rank is a score.                                             *)
LEMMA NormalizedScores ==
  ASSUME NEW M, OneScoreEach(M), NEW m \in M
  PROVE  Normalized(M, m) \in Nat
<1> DEFINE f == [n \in M |-> n.score]
           N == {f[n] : n \in M}
           low == Min(N)
           high == Max(N)
<1>1. IsFiniteSet(N)
  <2> HIDE DEF f
  <2>1. QED
    BY CountedByIds, ImageIsFinite
<1>2. M \subseteq Scored
  BY DEF OneScoreEach
<1>3. Numbers(N) /\ m.score \in N /\ N \subseteq Nat
  BY <1>2 DEF Numbers, Scored
<1> HIDE DEF N
<1>4. low \in N /\ \A y \in N : low <= y
  <2>1. \E x \in N : \A y \in N : x <= y
    BY <1>1, <1>3, BoundsExist
  <2>2. QED
    BY <2>1 DEF Min
<1>5. high \in N /\ \A y \in N : high >= y
  <2>1. \E x \in N : \A y \in N : x >= y
    BY <1>1, <1>3, BoundsExist
  <2>2. QED
    BY <2>1 DEF Max
<1>6. low \in Nat /\ high \in Nat /\ m.score \in Nat /\ low <= m.score /\ low <= high
  BY <1>3, <1>4, <1>5
<1>7. N = {n.score : n \in M}
  BY DEF N
<1>8. Normalized(M, m) = IF low = high THEN RankUnit ELSE (RankUnit * (m.score - low)) \div (high - low)
  BY <1>7 DEF Normalized
<1> HIDE DEF low, high
<1>9. RankUnit * (m.score - low) \in Nat
  <2>1. RankUnit \in Nat /\ m.score - low \in Nat
    BY <1>6 DEF RankUnit
  <2>2. QED
    BY <2>1, Product
<1>10. low # high => high - low \in Nat \ {0}
  BY <1>6
<1>11. low # high => (RankUnit * (m.score - low)) \div (high - low) \in Nat
  BY <1>9, <1>10, Quotient
<1>12. RankUnit \in Nat
  BY DEF RankUnit
<1>13. QED
  BY <1>8, <1>11, <1>12

(* The share of a record in a ranking is a score.                            *)
LEMMA Shares ==
  ASSUME NEW q, NEW n \in Nat, DOMAIN q = 1 .. n, NEW w \in Nat, NEW r
  PROVE  Share(q, w, r) \in Nat
<1> DEFINE P == {i \in DOMAIN q : q[i].id = r}
           i == CHOOSE x \in P : TRUE
<1>1. CASE P = {}
  BY <1>1 DEF Share
<1>2. CASE P # {}
  <2>1. i \in P
    BY <1>2
  <2>2. i \in Nat
    BY <2>1
  <2>3. Share(q, w, r) = w * (RankUnit \div (60 + i))
    BY <1>2 DEF Share
  <2> HIDE DEF i
  <2>4. 60 + i \in Nat \ {0} /\ RankUnit \in Nat
    BY <2>2 DEF RankUnit
  <2>5. RankUnit \div (60 + i) \in Nat
    BY <2>4, Quotient
  <2>6. QED
    BY <2>3, <2>5, Product
<1>3. QED
  BY <1>1, <1>2

(* The weights of the two rankings are numbers.                              *)
LEMMA Weights ==
  ASSUME strategy \in Strategy
  PROVE  VectorWeight \in Nat /\ 10 - VectorWeight \in Nat
<1>1. CASE HybridRatio[strategy] = {}
  BY <1>1 DEF VectorWeight
<1>2. CASE HybridRatio[strategy] # {}
  <2>1. PICK n : n = CHOOSE h \in HybridRatio[strategy] : TRUE
    OBVIOUS
  <2>2. HybridRatio \in [Strategy -> SUBSET Int]
    BY SearchAssumption
  <2>3. n \in HybridRatio[strategy] /\ HybridRatio[strategy] \subseteq Int
    BY <1>2, <2>1, <2>2
  <2>4. n \in Int
    BY <2>3
  <2>5. VectorWeight = IF n < 0 THEN 0 ELSE IF n > 10 THEN 10 ELSE n
    BY <1>2, <2>1 DEF VectorWeight
  <2>6. QED
    BY <2>4, <2>5
<1>3. QED
  BY <1>1, <1>2

(* The fusion of two rankings gives each of their records one score, and     *)
(* drops none. (store.go)                                                    *)
LEMMA FusionOfBoth ==
  ASSUME NEW V, OneScoreEach(V), NEW W, OneScoreEach(W), NEW v \in Sorted(V), NEW k \in Sorted(W),
         strategy \in Strategy
  PROVE  OneScoreEach(Fusion(v, k)) /\ IdsIn(V) \subseteq IdsIn(Fusion(v, k))
<1> DEFINE R == {v[i].id : i \in DOMAIN v} \cup {k[i].id : i \in DOMAIN k}
           s(r) == Share(v, VectorWeight, r) + Share(k, 10 - VectorWeight, r)
<1>1. /\ \A a \in V : \E i \in DOMAIN v : v[i] = a
      /\ \A i \in DOMAIN v : v[i] \in V
      /\ Len(v) \in Nat /\ DOMAIN v = 1 .. Len(v)
  BY CountedByIds, InOrder
<1>2. (\A i \in DOMAIN k : k[i] \in W) /\ Len(k) \in Nat /\ DOMAIN k = 1 .. Len(k)
  BY CountedByIds, InOrder
<1>3. R \subseteq Record /\ IdsIn(V) \subseteq R
  <2>1. IdsIn(V) \subseteq Record /\ IdsIn(W) \subseteq Record
    BY CountedByIds
  <2>2. \A i \in DOMAIN v : v[i].id \in Record
    BY <1>1, <2>1 DEF IdsIn
  <2>3. \A i \in DOMAIN k : k[i].id \in Record
    BY <1>2, <2>1 DEF IdsIn
  <2>4. IdsIn(V) \subseteq {v[i].id : i \in DOMAIN v}
    BY <1>1 DEF IdsIn
  <2>5. QED
    BY <2>2, <2>3, <2>4
<1>4. VectorWeight \in Nat /\ 10 - VectorWeight \in Nat
  BY Weights
<1>5. ASSUME NEW r \in R PROVE s(r) \in Nat
  <2>1. Share(v, VectorWeight, r) \in Nat
    BY <1>1, <1>4, Shares
  <2>2. Share(k, 10 - VectorWeight, r) \in Nat
    BY <1>2, <1>4, Shares
  <2>3. QED
    BY <2>1, <2>2
<1>6. Fusion(v, k) = {[id |-> r, score |-> s(r)] : r \in R}
  BY DEF Fusion
<1> HIDE DEF s, R
<1>7. Fusion(v, k) \subseteq Scored
  BY <1>3, <1>5, <1>6 DEF Scored
<1>8. \A a, b \in Fusion(v, k) : a.id = b.id => a = b
  BY <1>6
<1>9. R \subseteq IdsIn(Fusion(v, k))
  <2>1. ASSUME NEW r \in R PROVE \E a \in Fusion(v, k) : a.id = r
    <3>1. [id |-> r, score |-> s(r)] \in Fusion(v, k)
      BY <1>6
    <3>2. [id |-> r, score |-> s(r)].id = r
      OBVIOUS
    <3>3. QED
      BY <3>1, <3>2
  <2>2. QED
    BY <2>1 DEF IdsIn
<1>10. QED
  BY <1>3, <1>7, <1>8, <1>9 DEF OneScoreEach

(* A result with the ids R holds all of st, or k records but for g.          *)
Reach(st, g, R, k) == st \subseteq R \/ Cardinality(R) + g >= k

(* Before the request nothing was searched for.                              *)
SearchFresh ==
  strategy = "none" =>
    /\ ~retrieved
    /\ \A t \in Query : fused[t] = {} /\ \A kind \in Kind : at[t][kind] = "scan"

(* No result has two scores for one record.                                  *)
OneScores ==
  \A t \in Query : /\ \A kind \in Kind : OneScoreEach(hits[t][kind]) /\ OneScoreEach(found[t][kind])
                   /\ \A S \in fused[t] : OneScoreEach(S)

(* A text has one result, and only after its search by similarity ended.     *)
FusedLast ==
  \A t \in Query : fused[t] # {} => (\E S : fused[t] = {S}) /\ Ended(t, "vector")

(* What a search by similarity found, and what the result for its text kept, *)
(* has all records that stayed, or as many as were asked for, but for those  *)
(* deleted meanwhile.                                                        *)
VectorReach ==
  \A t \in Query :
    /\ at[t]["vector"] = "fetch" => Reach(steady, gone, IdsIn(hits[t]["vector"]) \cap records, SearchK(t))
    /\ at[t]["vector"] = "done" => /\ Reach(steady, gone, IdsIn(found[t]["vector"]), SearchK(t))
                                   /\ \A S \in fused[t] : Reach(steady, gone, IdsIn(S), PerSearchK)

(* The inductive invariant of the search.                                    *)
SearchInv == SearchTypeOK /\ SearchFresh /\ OneScores /\ FusedLast /\ VectorReach /\ CandidatesComplete

(* More ids, fewer records that stayed, more deletions or fewer asked for:   *)
(* the reach remains.                                                        *)
LEMMA ReachGrows ==
  ASSUME NEW st, NEW g \in Int, NEW R \in SUBSET Record, NEW k \in Int, Reach(st, g, R, k),
         NEW su \in SUBSET st, NEW h \in Int, g <= h, NEW Q \in SUBSET Record, R \subseteq Q, NEW l \in Int, l <= k
  PROVE  Reach(su, h, Q, l)
<1>1. IsFiniteSet(Q)
  BY SearchFacts, FS_Subset
<1>2. Cardinality(R) <= Cardinality(Q) /\ Cardinality(R) \in Nat /\ Cardinality(Q) \in Nat
  BY <1>1, FS_Subset, FS_CardinalityType
<1>3. QED
  BY <1>2 DEF Reach

(* A deletion takes one id at most.                                          *)
LEMMA ReachDelete ==
  ASSUME NEW st, NEW g \in Int, NEW R \in SUBSET Record, NEW k \in Int, Reach(st, g, R, k), NEW r
  PROVE  Reach(st \ {r}, g + 1, R \ {r}, k)
<1>1. IsFiniteSet(R)
  BY SearchFacts, FS_Subset
<1>2. Cardinality(R \ {r}) >= Cardinality(R) - 1 /\ Cardinality(R) \in Nat /\ Cardinality(R \ {r}) \in Nat
  <2>1. Cardinality(R) \in Nat
    BY <1>1, FS_CardinalityType
  <2>2. Cardinality(R \ {r}) = IF r \in R THEN Cardinality(R) - 1 ELSE Cardinality(R)
    BY <1>1, FS_RemoveElement
  <2>3. IsFiniteSet(R \ {r})
    BY <1>1, FS_RemoveElement
  <2>4. Cardinality(R \ {r}) \in Nat
    BY <2>3, FS_CardinalityType
  <2>5. QED
    BY <2>1, <2>2, <2>4
<1>3. CASE st \subseteq R
  BY <1>3 DEF Reach
<1>4. CASE Cardinality(R) + g >= k
  BY <1>2, <1>4 DEF Reach
<1>5. QED
  BY <1>3, <1>4 DEF Reach

(* The limits of the queries are numbers, and a query asks for no less than  *)
(* is kept.                                                                  *)
LEMMA SearchSizes == PerSearchK \in Nat /\ \A t \in Query : SearchK(t) \in Nat /\ SearchK(t) >= PerSearchK
<1>1. 2 * RetrieveK \in Nat /\ RetrieveK \in Nat
  BY SearchFacts
<1>2. Widen * RetrieveK \in Nat
  BY SearchFacts, Widened
<1>3. PerSearchK \in Nat
  BY <1>1, <1>2 DEF PerSearchK
<1>4. Widen * PerSearchK \in Nat /\ Widen * PerSearchK >= PerSearchK
  BY <1>3, SearchFacts, Widened
<1>5. QED
  BY <1>3, <1>4 DEF SearchK

(* Setting one search's entry.                                               *)
LEMMA Put ==
  ASSUME NEW X, NEW f \in [Query -> [Kind -> X]], NEW t \in Query, NEW kind \in Kind, NEW x \in X
  PROVE  /\ [f EXCEPT ![t][kind] = x] \in [Query -> [Kind -> X]]
         /\ \A u \in Query : \A k \in Kind :
              [f EXCEPT ![t][kind] = x][u][k] = IF u = t /\ k = kind THEN x ELSE f[u][k]
OBVIOUS

(* The conjuncts of SearchTypeOK by name.                                    *)
LEMMA Typed ==
  ASSUME SearchTypeOK
  PROVE  /\ records \subseteq Record /\ quality \in [Record -> Quality]
         /\ strategy \in Strategy \cup {"none"}
         /\ at \in [Query -> [Kind -> {"scan", "fetch", "done", "failed"}]]
         /\ hits \in [Query -> [Kind -> SUBSET Scored]]
         /\ found \in [Query -> [Kind -> SUBSET Scored]]
         /\ fused \in [Query -> SUBSET SUBSET Scored]
         /\ candidates \in Seq(Scored) /\ retrieved \in BOOLEAN
         /\ writes \in 0 .. MaxWrites /\ failures \in 0 .. MaxFailures
         /\ steady \subseteq records /\ gone \in Nat
         /\ "vector" \in Kind /\ "keyword" \in Kind
BY DEF SearchTypeOK, Kind

(* A request begins with all records there.                                  *)
LEMMA Begins ==
  ASSUME SearchInv, NEW s \in Strategy, RetrieveForIntent(s)
  PROVE  SearchInv'
<1> USE DEF RetrieveForIntent, SearchInv, searching, table
<1>1. SearchTypeOK'
  BY DEF SearchTypeOK
<1>2. SearchFresh'
  <2>1. s # "none"
    BY SearchAssumption
  <2>2. QED
    BY <2>1 DEF SearchFresh
<1>3. OneScores'
  BY DEF OneScores
<1>4. FusedLast'
  BY DEF FusedLast, Ended
<1>5. VectorReach'
  <2>1. \A t \in Query : at'[t]["vector"] = "scan"
    BY DEF SearchFresh, Kind
  <2>2. QED
    BY <2>1 DEF VectorReach
<1>6. CandidatesComplete'
  <2>1. ~retrieved'
    BY DEF SearchFresh
  <2>2. QED
    BY <2>1 DEF CandidatesComplete
<1>7. QED
  BY <1>1, <1>2, <1>3, <1>4, <1>5, <1>6

(* A scan by similarity that ended.                                          *)
LEMMA VectorScans ==
  ASSUME SearchInv, NEW t \in Query, VectorScan(t)
  PROVE  SearchInv'
<1> DEFINE All == {[id |-> r, score |-> VectorScore(t, r)] : r \in records}
<1>1. PICK H \in TopSets(All, SearchK(t)) : hits' = [hits EXCEPT ![t]["vector"] = H]
  BY DEF VectorScan
<1>2. /\ Searching /\ fused[t] = {} /\ at[t]["vector"] = "scan"
      /\ at' = [at EXCEPT ![t]["vector"] = "fetch"]
      /\ UNCHANGED <<table, strategy, found, fused, candidates, retrieved, writes, failures, steady, gone>>
  BY DEF VectorScan, Scan
<1>3. SearchTypeOK /\ OneScores /\ FusedLast /\ VectorReach
  BY DEF SearchInv
<1>4. OneScoreEach(All) /\ IdsIn(All) = records
  <2>1. All \subseteq Scored
    BY <1>3, Typed, SearchFacts, VectorScores DEF Scored
  <2>2. \A a, b \in All : a.id = b.id => a = b
    OBVIOUS
  <2>3. IdsIn(All) \subseteq records
    BY DEF IdsIn
  <2>4. ASSUME NEW r \in records PROVE r \in IdsIn(All)
    <3>1. PICK a : a = [id |-> r, score |-> VectorScore(t, r)]
      OBVIOUS
    <3>2. a \in All /\ a.id = r
      BY <3>1
    <3> HIDE DEF All
    <3>3. QED
      BY <3>2 DEF IdsIn
  <2>5. QED
    BY <2>1, <2>2, <2>3, <2>4 DEF OneScoreEach
<1> HIDE DEF All
<1>5. IsFiniteSet(All) /\ Cardinality(All) \in Nat
  BY <1>4, CountedByIds
<1>6. H \subseteq All /\ (Cardinality(All) <= SearchK(t) => H = All) /\ (Cardinality(All) > SearchK(t) => Cardinality(H) = SearchK(t))
  BY <1>5, SearchSizes, BestFew
<1>7. OneScoreEach(H) /\ IdsIn(H) \subseteq records
  BY <1>4, <1>6 DEF OneScoreEach, IdsIn
<1>8. Reach(steady, gone, IdsIn(H) \cap records, SearchK(t))
  <2>1. steady \subseteq records /\ gone \in Nat
    BY <1>3, Typed
  <2>2. CASE Cardinality(All) <= SearchK(t)
    BY <1>4, <1>6, <2>1, <2>2 DEF Reach
  <2>3. CASE Cardinality(All) > SearchK(t)
    <3>1. Cardinality(IdsIn(H)) = SearchK(t)
      BY <1>6, <1>7, <2>3, CountedByIds
    <3>2. IdsIn(H) \cap records = IdsIn(H)
      BY <1>7
    <3>3. QED
      BY <2>1, <3>1, <3>2, SearchSizes DEF Reach
  <2>4. QED
    BY <1>5, <2>2, <2>3, SearchSizes
<1>9. H \in SUBSET Scored
  BY <1>7 DEF OneScoreEach
<1>10. /\ at' \in [Query -> [Kind -> {"scan", "fetch", "done", "failed"}]]
       /\ \A u \in Query, k \in Kind : at'[u][k] = IF u = t /\ k = "vector" THEN "fetch" ELSE at[u][k]
  BY <1>2, <1>3, Typed, Put
<1>11. /\ hits' \in [Query -> [Kind -> SUBSET Scored]]
       /\ \A u \in Query, k \in Kind : hits'[u][k] = IF u = t /\ k = "vector" THEN H ELSE hits[u][k]
  BY <1>1, <1>3, <1>9, Typed, Put
<1>12. SearchTypeOK'
  BY <1>2, <1>3, <1>10, <1>11 DEF SearchTypeOK, table
<1>13. SearchFresh' /\ CandidatesComplete'
  BY <1>2 DEF Searching, SearchFresh, CandidatesComplete
<1>14. OneScores'
  BY <1>2, <1>3, <1>7, <1>11 DEF OneScores
<1>15. FusedLast'
  BY <1>2, <1>3, <1>10 DEF FusedLast, Ended, Kind
<1>16. VectorReach'
  <2>1. (\A u \in Query : SearchK(u)' = SearchK(u)) /\ PerSearchK' = PerSearchK /\ records' = records
    BY <1>2 DEF SearchK, OnlyVectors, PerSearchK, table
  <2>2. UNCHANGED <<found, fused, steady, gone>>
    BY <1>2
  <2>3. /\ at'[t]["vector"] = "fetch" /\ hits'[t]["vector"] = H
        /\ \A u \in Query \ {t} : at'[u]["vector"] = at[u]["vector"] /\ hits'[u]["vector"] = hits[u]["vector"]
    BY <1>10, <1>11 DEF Kind
  <2>4. Reach(steady, gone, IdsIn(hits'[t]["vector"]) \cap records, SearchK(t))
    BY <1>8, <2>3
  <2>5. ASSUME NEW u \in Query \ {t}
        PROVE  /\ at'[u]["vector"] = "fetch" =>
                    Reach(steady, gone, IdsIn(hits'[u]["vector"]) \cap records, SearchK(u))
               /\ at'[u]["vector"] = "done" => /\ Reach(steady, gone, IdsIn(found[u]["vector"]), SearchK(u))
                                               /\ \A S \in fused[u] : Reach(steady, gone, IdsIn(S), PerSearchK)
    BY <1>3, <2>3 DEF VectorReach
  <2>6. QED
    BY <2>1, <2>2, <2>3, <2>4, <2>5 DEF VectorReach
<1>17. QED
  BY <1>12, <1>13, <1>14, <1>15, <1>16 DEF SearchInv

(* A scan by keyword that ended.                                             *)
LEMMA KeywordScans ==
  ASSUME SearchInv, NEW t \in Query, KeywordScan(t)
  PROVE  SearchInv'
<1> DEFINE All == {[id |-> r, score |-> Relevance[t][r]] : r \in {q \in records : Relevance[t][q] > 0}}
<1>1. PICK M \in TopSets(All, 2 * SearchK(t)) : \E H \in TopSets(M, SearchK(t)) :
        hits' = [hits EXCEPT ![t]["keyword"] = {[id |-> m.id, score |-> Normalized(M, m)] : m \in H}]
  BY DEF KeywordScan
<1>2. PICK H \in TopSets(M, SearchK(t)) :
        hits' = [hits EXCEPT ![t]["keyword"] = {[id |-> m.id, score |-> Normalized(M, m)] : m \in H}]
  BY <1>1
<1>3. /\ Searching /\ fused[t] = {} /\ at[t]["keyword"] = "scan"
      /\ at' = [at EXCEPT ![t]["keyword"] = "fetch"]
      /\ UNCHANGED <<table, strategy, found, fused, candidates, retrieved, writes, failures, steady, gone>>
  BY DEF KeywordScan, Scan
<1>4. SearchTypeOK /\ OneScores /\ FusedLast /\ VectorReach
  BY DEF SearchInv
<1>5. OneScoreEach(All)
  <2>1. All \subseteq Scored
    BY <1>4, Typed, SearchFacts DEF Scored
  <2>2. \A a, b \in All : a.id = b.id => a = b
    OBVIOUS
  <2> HIDE DEF All
  <2>3. QED
    BY <2>1, <2>2 DEF OneScoreEach
<1> HIDE DEF All
<1>6. M \subseteq All
  <2>1. IsFiniteSet(All)
    BY <1>5, CountedByIds
  <2>2. 2 * SearchK(t) \in Nat
    BY SearchSizes
  <2>3. QED
    BY <2>1, <2>2, BestFew
<1>7. OneScoreEach(M)
  BY <1>5, <1>6 DEF OneScoreEach
<1>8. H \subseteq M
  BY <1>7, CountedByIds, SearchSizes, BestFew
<1> DEFINE f == [m \in M |-> Normalized(M, m)]
           N == {[id |-> m.id, score |-> f[m]] : m \in H}
<1>9. OneScoreEach(N)
  <2>1. \A m \in H : f[m] \in Nat /\ m.id \in Record
    BY <1>7, <1>8, NormalizedScores DEF OneScoreEach, Scored
  <2>2. \A m, n \in H : m.id = n.id => m = n
    BY <1>7, <1>8 DEF OneScoreEach
  <2> HIDE DEF f
  <2>3. N \subseteq Scored
    BY <2>1 DEF Scored
  <2>4. \A a, b \in N : a.id = b.id => a = b
    BY <2>2
  <2> HIDE DEF N
  <2>5. QED
    BY <2>3, <2>4 DEF OneScoreEach
<1>10. hits' = [hits EXCEPT ![t]["keyword"] = N]
  <2>1. \A m \in H : f[m] = Normalized(M, m)
    BY <1>8
  <2> HIDE DEF f
  <2>2. N = {[id |-> m.id, score |-> Normalized(M, m)] : m \in H}
    BY <2>1
  <2> HIDE DEF N
  <2>3. QED
    BY <1>2, <2>2
<1> HIDE DEF N
<1>11. N \in SUBSET Scored
  BY <1>9 DEF OneScoreEach
<1>12. /\ at' \in [Query -> [Kind -> {"scan", "fetch", "done", "failed"}]]
       /\ \A u \in Query, k \in Kind : at'[u][k] = IF u = t /\ k = "keyword" THEN "fetch" ELSE at[u][k]
  BY <1>3, <1>4, Typed, Put
<1>13. /\ hits' \in [Query -> [Kind -> SUBSET Scored]]
       /\ \A u \in Query, k \in Kind : hits'[u][k] = IF u = t /\ k = "keyword" THEN N ELSE hits[u][k]
  BY <1>4, <1>10, <1>11, Typed, Put
<1>14. SearchTypeOK'
  BY <1>3, <1>4, <1>12, <1>13 DEF SearchTypeOK, table
<1>15. SearchFresh' /\ CandidatesComplete'
  BY <1>3 DEF Searching, SearchFresh, CandidatesComplete
<1>16. OneScores'
  BY <1>3, <1>4, <1>9, <1>13 DEF OneScores
<1>17. FusedLast'
  BY <1>3, <1>4, <1>12 DEF FusedLast, Ended, Kind
<1>18. VectorReach'
  <2>1. (\A u \in Query : SearchK(u)' = SearchK(u)) /\ PerSearchK' = PerSearchK /\ records' = records
    BY <1>3 DEF SearchK, OnlyVectors, PerSearchK, table
  <2>2. \A u \in Query : at'[u]["vector"] = at[u]["vector"] /\ hits'[u]["vector"] = hits[u]["vector"]
    BY <1>12, <1>13 DEF Kind
  <2>3. QED
    BY <1>3, <1>4, <2>1, <2>2 DEF VectorReach
<1>19. QED
  BY <1>14, <1>15, <1>16, <1>17, <1>18 DEF SearchInv

(* A fetch that ended with the result S.                                     *)
LEMMA Fetches ==
  ASSUME SearchInv, NEW t \in Query, NEW kind \in Kind, NEW S, OneScoreEach(S), Fetch(t, kind, S),
         kind = "vector" => Reach(steady, gone, IdsIn(S), SearchK(t))
  PROVE  SearchInv'
<1>1. /\ Searching /\ at[t][kind] = "fetch"
      /\ at' = [at EXCEPT ![t][kind] = "done"]
      /\ found' = [found EXCEPT ![t][kind] = S]
      /\ UNCHANGED <<table, strategy, hits, fused, candidates, retrieved, writes, failures, steady, gone>>
  BY DEF Fetch
<1>2. SearchTypeOK /\ OneScores /\ FusedLast /\ VectorReach
  BY DEF SearchInv
<1>3. S \in SUBSET Scored
  BY DEF OneScoreEach
<1>4. /\ at' \in [Query -> [Kind -> {"scan", "fetch", "done", "failed"}]]
      /\ \A u \in Query, k \in Kind : at'[u][k] = IF u = t /\ k = kind THEN "done" ELSE at[u][k]
  BY <1>1, <1>2, Typed, Put
<1>5. /\ found' \in [Query -> [Kind -> SUBSET Scored]]
      /\ \A u \in Query, k \in Kind : found'[u][k] = IF u = t /\ k = kind THEN S ELSE found[u][k]
  BY <1>1, <1>2, <1>3, Typed, Put
<1>6. SearchTypeOK'
  BY <1>1, <1>2, <1>4, <1>5 DEF SearchTypeOK, table
<1>7. SearchFresh' /\ CandidatesComplete'
  BY <1>1 DEF Searching, SearchFresh, CandidatesComplete
<1>8. OneScores'
  BY <1>1, <1>2, <1>5 DEF OneScores
<1>9. FusedLast'
  BY <1>1, <1>2, <1>4 DEF FusedLast, Ended, Kind
<1>10. VectorReach'
  <2>1. (\A u \in Query : SearchK(u)' = SearchK(u)) /\ PerSearchK' = PerSearchK /\ records' = records
    BY <1>1 DEF SearchK, OnlyVectors, PerSearchK, table
  <2>2. kind = "vector" => fused[t] = {}
    BY <1>1, <1>2 DEF FusedLast, Ended
  <2>3. "vector" \in Kind /\ UNCHANGED <<hits, fused, records, steady, gone>>
    BY <1>1 DEF Kind, table
  <2>4. ASSUME NEW u \in Query, at'[u]["vector"] = "fetch"
        PROVE  Reach(steady, gone, IdsIn(hits[u]["vector"]) \cap records, SearchK(u))
    <3>1. at[u]["vector"] = "fetch"
      BY <1>4, <2>3, <2>4
    <3>2. QED
      BY <1>2, <3>1 DEF VectorReach
  <2>5. ASSUME NEW u \in Query, at'[u]["vector"] = "done"
        PROVE  /\ Reach(steady, gone, IdsIn(found'[u]["vector"]), SearchK(u))
               /\ \A A \in fused[u] : Reach(steady, gone, IdsIn(A), PerSearchK)
    <3>1. CASE u = t /\ kind = "vector"
      <4>1. found'[u]["vector"] = S
        BY <1>5, <2>3, <3>1
      <4>2. QED
        BY <2>2, <3>1, <4>1
    <3>2. CASE ~(u = t /\ kind = "vector")
      <4>1. found'[u]["vector"] = found[u]["vector"] /\ at[u]["vector"] = "done"
        BY <1>4, <1>5, <2>3, <2>5, <3>2
      <4>2. QED
        BY <1>2, <4>1 DEF VectorReach
    <3>3. QED
      BY <3>1, <3>2
  <2>6. QED
    BY <2>1, <2>3, <2>4, <2>5 DEF VectorReach
<1>11. QED
  BY <1>6, <1>7, <1>8, <1>9, <1>10 DEF SearchInv

(* Of the ids found by similarity, those not deleted.                        *)
LEMMA VectorFetches ==
  ASSUME SearchInv, NEW t \in Query, VectorFetch(t)
  PROVE  SearchInv'
<1> DEFINE G == hits[t]["vector"]
           S == {h \in G : h.id \in records}
<1>1. Fetch(t, "vector", S) /\ at[t]["vector"] = "fetch"
  BY DEF VectorFetch, Fetch
<1>2. OneScoreEach(G) /\ Reach(steady, gone, IdsIn(G) \cap records, SearchK(t))
  BY <1>1 DEF SearchInv, OneScores, VectorReach, Kind
<1>3. OneScoreEach(S) /\ IdsIn(S) = IdsIn(G) \cap records
  BY <1>2 DEF OneScoreEach, IdsIn
<1> HIDE DEF S, G
<1>4. "vector" \in Kind
  BY DEF Kind
<1>5. QED
  BY <1>1, <1>2, <1>3, <1>4, Fetches

(* Of the ids found by keyword, those not deleted, weighted by quality.      *)
LEMMA KeywordFetches ==
  ASSUME SearchInv, NEW t \in Query, KeywordFetch(t)
  PROVE  SearchInv'
<1> DEFINE G == {g \in hits[t]["keyword"] : g.id \in records}
           S == {[h EXCEPT !.score = @ * quality[h.id]] : h \in G}
           P == {[id |-> h.id, score |-> h.score * quality[h.id]] : h \in G}
<1>1. Fetch(t, "keyword", S)
  BY DEF KeywordFetch
<1>2. OneScoreEach(hits[t]["keyword"]) /\ SearchTypeOK
  BY DEF SearchInv, OneScores, Kind
<1>3. OneScoreEach(G)
  BY <1>2 DEF OneScoreEach
<1> HIDE DEF G
<1>4. \A h \in G : h \in Scored /\ h.score * quality[h.id] \in Nat
  <2>1. ASSUME NEW h \in G PROVE h \in Scored /\ h.score * quality[h.id] \in Nat
    <3>1. h \in Scored /\ h.id \in Record /\ h.score \in Nat
      BY <1>3 DEF OneScoreEach, Scored
    <3>2. quality[h.id] \in Nat
      BY <1>2, <3>1, Typed, SearchFacts
    <3>3. QED
      BY <3>1, <3>2, Product
  <2>2. QED
    BY <2>1
<1>5. S = P
  BY <1>4 DEF Scored
<1>6. OneScoreEach(P)
  <2>1. P \subseteq Scored
    BY <1>4 DEF Scored
  <2>2. \A a, b \in P : a.id = b.id => a = b
    BY <1>3 DEF OneScoreEach
  <2> HIDE DEF P
  <2>3. QED
    BY <2>1, <2>2 DEF OneScoreEach
<1> HIDE DEF S, P
<1>7. "keyword" \in Kind /\ "keyword" # "vector"
  BY DEF Kind
<1>8. QED
  BY <1>1, <1>5, <1>6, <1>7, Fetches

(* A search, or all of a text, that failed.                                  *)
LEMMA Failures ==
  ASSUME SearchInv, NEW t \in Query, Searching, fused[t] = {},
         at' \in [Query -> [Kind -> {"scan", "fetch", "done", "failed"}]],
         \A u \in Query, k \in Kind : at'[u][k] = "failed" \/ at'[u][k] = at[u][k],
         \A u \in Query, k \in Kind : u # t => at'[u][k] = at[u][k],
         (fused' = fused \/ (fused' = [fused EXCEPT ![t] = {{}}] /\ at'[t]["vector"] = "failed")),
         failures < MaxFailures, failures' = failures + 1,
         UNCHANGED <<table, strategy, hits, found, candidates, retrieved, writes, steady, gone>>
  PROVE  SearchInv'
<1>1. SearchTypeOK /\ OneScores /\ FusedLast /\ VectorReach
  BY DEF SearchInv
<1>2. /\ fused' \in [Query -> SUBSET SUBSET Scored]
      /\ \A u \in Query : fused'[u] = fused[u] \/ (u = t /\ fused'[u] = {{}} /\ at'[u]["vector"] = "failed")
  <2>1. fused \in [Query -> SUBSET SUBSET Scored]
    BY <1>1, Typed
  <2>2. CASE fused' = fused
    BY <2>1, <2>2
  <2>3. CASE fused' = [fused EXCEPT ![t] = {{}}] /\ at'[t]["vector"] = "failed"
    BY <2>1, <2>3
  <2>4. QED
    BY <2>2, <2>3
<1>3. MaxFailures \in Nat
  BY SearchAssumption
<1>4. failures' \in 0 .. MaxFailures
  BY <1>1, <1>3, Typed
<1>5. SearchTypeOK'
  BY <1>1, <1>2, <1>4 DEF SearchTypeOK, table
<1>6. SearchFresh' /\ CandidatesComplete'
  BY DEF Searching, SearchFresh, CandidatesComplete
<1>7. OneScores'
  <2>1. OneScoreEach({})
    BY DEF OneScoreEach
  <2>2. QED
    BY <1>1, <1>2, <2>1 DEF OneScores
<1>8. FusedLast'
  <2> SUFFICES ASSUME NEW u \in Query, fused'[u] # {}
               PROVE  (\E S : fused'[u] = {S}) /\ at'[u]["vector"] \in {"done", "failed"}
    BY DEF FusedLast, Ended
  <2>1. CASE fused'[u] = fused[u]
    <3>1. (\E S : fused[u] = {S}) /\ at[u]["vector"] \in {"done", "failed"}
      BY <1>1, <2>1 DEF FusedLast, Ended
    <3>2. QED
      BY <2>1, <3>1 DEF Kind
  <2>2. CASE fused'[u] = {{}} /\ at'[u]["vector"] = "failed"
    BY <2>2
  <2>3. QED
    BY <1>2, <2>1, <2>2
<1>9. VectorReach'
  <2>1. (\A u \in Query : SearchK(u)' = SearchK(u)) /\ PerSearchK' = PerSearchK /\ records' = records
    BY DEF SearchK, OnlyVectors, PerSearchK, table
  <2>2. \A u \in Query : at'[u]["vector"] = "failed" \/ (at'[u]["vector"] = at[u]["vector"] /\ fused'[u] = fused[u])
    BY <1>2 DEF Kind
  <2>3. QED
    BY <1>1, <2>1, <2>2 DEF VectorReach
<1>10. QED
  BY <1>5, <1>6, <1>7, <1>8, <1>9 DEF SearchInv

(* One search failed.                                                        *)
LEMMA SearchesFail ==
  ASSUME SearchInv, NEW t \in Query, NEW kind \in Kind, SearchFails(t, kind)
  PROVE  SearchInv'
<1>1. /\ Searching /\ fused[t] = {} /\ failures < MaxFailures /\ failures' = failures + 1
      /\ at' = [at EXCEPT ![t][kind] = "failed"]
      /\ UNCHANGED <<table, strategy, hits, found, fused, candidates, retrieved, writes, steady, gone>>
  BY DEF SearchFails
<1>2. SearchTypeOK
  BY DEF SearchInv
<1>3. /\ at' \in [Query -> [Kind -> {"scan", "fetch", "done", "failed"}]]
      /\ \A u \in Query, k \in Kind : at'[u][k] = IF u = t /\ k = kind THEN "failed" ELSE at[u][k]
  BY <1>1, <1>2, Typed, Put
<1>4. QED
  BY <1>1, <1>3, Failures

(* A text was not embedded.                                                  *)
LEMMA EmbedsFail ==
  ASSUME SearchInv, NEW t \in Query, EmbedFails(t)
  PROVE  SearchInv'
<1>1. /\ Searching /\ fused[t] = {} /\ failures < MaxFailures /\ failures' = failures + 1
      /\ at' = [at EXCEPT ![t] = [kind \in Kind |-> "failed"]]
      /\ fused' = [fused EXCEPT ![t] = {{}}]
      /\ UNCHANGED <<table, strategy, hits, found, candidates, retrieved, writes, steady, gone>>
  BY DEF EmbedFails
<1>2. at \in [Query -> [Kind -> {"scan", "fetch", "done", "failed"}]] /\ "vector" \in Kind
  BY Typed DEF SearchInv
<1>3. /\ at' \in [Query -> [Kind -> {"scan", "fetch", "done", "failed"}]]
      /\ \A u \in Query, k \in Kind : at'[u][k] = IF u = t THEN "failed" ELSE at[u][k]
  BY <1>1, <1>2
<1>4. QED
  BY <1>1, <1>2, <1>3, Failures

(* The result for a text.                                                    *)
LEMMA SearchesEnd ==
  ASSUME SearchInv, NEW t \in Query, NEW S, OneScoreEach(S), SearchDone(t, S), Ended(t, "vector"),
         at[t]["vector"] = "done" => Reach(steady, gone, IdsIn(S), PerSearchK)
  PROVE  SearchInv'
<1>1. /\ Searching /\ fused[t] = {} /\ fused' = [fused EXCEPT ![t] = {S}]
      /\ UNCHANGED <<table, strategy, at, hits, found, candidates, retrieved, writes, failures, steady, gone>>
  BY DEF SearchDone
<1>2. SearchTypeOK /\ OneScores /\ FusedLast /\ VectorReach
  BY DEF SearchInv
<1>3. S \in SUBSET Scored
  BY DEF OneScoreEach
<1>4. /\ fused' \in [Query -> SUBSET SUBSET Scored]
      /\ \A u \in Query : fused'[u] = IF u = t THEN {S} ELSE fused[u]
  BY <1>1, <1>2, <1>3, Typed
<1>5. SearchTypeOK'
  BY <1>1, <1>2, <1>4 DEF SearchTypeOK, table
<1>6. SearchFresh' /\ CandidatesComplete'
  BY <1>1 DEF Searching, SearchFresh, CandidatesComplete
<1>7. OneScores'
  BY <1>1, <1>2, <1>4 DEF OneScores
<1>8. FusedLast'
  BY <1>1, <1>2, <1>4 DEF FusedLast, Ended
<1>9. VectorReach'
  <2>1. (\A u \in Query : SearchK(u)' = SearchK(u)) /\ PerSearchK' = PerSearchK /\ records' = records
    BY <1>1 DEF SearchK, OnlyVectors, PerSearchK, table
  <2>2. QED
    BY <1>1, <1>2, <1>4, <2>1 DEF VectorReach
<1>10. QED
  BY <1>5, <1>6, <1>7, <1>8, <1>9 DEF SearchInv

(* The fused result has the reach of the search by similarity.               *)
LEMMA HybridSearches ==
  ASSUME SearchInv, NEW t \in Query, SearchHybrid(t)
  PROVE  SearchInv'
<1> DEFINE V == found[t]["vector"]
           W == found[t]["keyword"]
<1>1. PICK v \in Sorted(V), k \in Sorted(W) :
        \E S \in TopSets(Fusion(v, k), PerSearchK) : SearchDone(t, S)
  BY DEF SearchHybrid
<1>2. PICK S \in TopSets(Fusion(v, k), PerSearchK) : SearchDone(t, S)
  BY <1>1
<1>3. Ended(t, "vector") /\ OneScoreEach(V) /\ OneScoreEach(W) /\ SearchTypeOK
  BY DEF SearchHybrid, Kind, SearchInv, OneScores
<1>4. at[t]["vector"] = "done" => Reach(steady, gone, IdsIn(V), SearchK(t))
  BY DEF SearchInv, VectorReach
<1> HIDE DEF V, W
<1>5. PICK F : F = Fusion(v, k)
  OBVIOUS
<1>6. OneScoreEach(F) /\ IdsIn(V) \subseteq IdsIn(F)
  <2>1. strategy \in Strategy
    BY <1>2, <1>3, Typed DEF SearchDone, Searching
  <2>2. QED
    BY <1>3, <1>5, <2>1, FusionOfBoth
<1>7. IsFiniteSet(F) /\ Cardinality(F) \in Nat
  BY <1>6, CountedByIds
<1>8. S \subseteq F /\ (Cardinality(F) <= PerSearchK => S = F) /\ (Cardinality(F) > PerSearchK => Cardinality(S) = PerSearchK)
  BY <1>2, <1>5, <1>7, SearchSizes, BestFew
<1>9. OneScoreEach(S)
  BY <1>6, <1>8 DEF OneScoreEach
<1>10. IdsIn(V) \in SUBSET Record /\ IdsIn(F) \in SUBSET Record /\ gone \in Nat
  BY <1>3, <1>6, CountedByIds, Typed
<1>11. ASSUME at[t]["vector"] = "done" PROVE Reach(steady, gone, IdsIn(S), PerSearchK)
  <2>1. CASE Cardinality(F) <= PerSearchK
    <3>1. Reach(steady, gone, IdsIn(F), PerSearchK)
      BY <1>4, <1>6, <1>10, <1>11, SearchSizes, ReachGrows
    <3>2. QED
      BY <1>8, <2>1, <3>1
  <2>2. CASE Cardinality(F) > PerSearchK
    <3>1. Cardinality(IdsIn(S)) = PerSearchK
      BY <1>8, <1>9, <2>2, CountedByIds
    <3>2. QED
      BY <1>10, <3>1, SearchSizes DEF Reach
  <2>3. QED
    BY <1>7, <2>1, <2>2, SearchSizes
<1>12. QED
  BY <1>2, <1>3, <1>9, <1>11, SearchesEnd

(* The result of the search by similarity alone.                             *)
LEMMA VectorSearches ==
  ASSUME SearchInv, NEW t \in Query, SearchVectorOnly(t)
  PROVE  SearchInv'
<1> DEFINE S == found[t]["vector"]
<1>1. OnlyVectors(t) /\ Ended(t, "vector") /\ SearchDone(t, S)
  BY DEF SearchVectorOnly
<1>2. OneScoreEach(S)
  BY DEF SearchInv, OneScores, Kind
<1>3. SearchK(t) = PerSearchK
  BY <1>1 DEF SearchK
<1>4. at[t]["vector"] = "done" => Reach(steady, gone, IdsIn(S), PerSearchK)
  BY <1>3 DEF SearchInv, VectorReach
<1> HIDE DEF S
<1>5. QED
  BY <1>1, <1>2, <1>4, SearchesEnd

(* The results of all texts become the candidates.                           *)
LEMMA Merges ==
  ASSUME SearchInv, Merge
  PROVE  SearchInv'
<1> DEFINE F == {UNION fused[t] : t \in Query}
           A == UNION F
           doubles == Cardinality(Record) - Cardinality(Sources(Record))
<1>1. SearchTypeOK /\ OneScores /\ FusedLast /\ VectorReach /\ SearchFresh
  BY DEF SearchInv
<1>2. PICK c \in deduplicateAndTrim(A) : candidates' = c
  BY DEF Merge
<1>3. /\ Searching /\ (\A t \in Query : fused[t] # {}) /\ retrieved' = TRUE
      /\ UNCHANGED <<table, strategy, searching, writes, failures, steady, gone>>
  BY DEF Merge
<1>4. \A t \in Query : IsFiniteSet(UNION fused[t]) /\ UNION fused[t] \subseteq Scored
  <2>1. SUFFICES ASSUME NEW t \in Query PROVE IsFiniteSet(UNION fused[t]) /\ UNION fused[t] \subseteq Scored
    OBVIOUS
  <2>2. PICK S : fused[t] = {S}
    BY <1>1, <1>3 DEF FusedLast
  <2>3. OneScoreEach(S)
    BY <1>1, <2>2 DEF OneScores
  <2>4. UNION fused[t] = S
    BY <2>2
  <2>5. IsFiniteSet(S) /\ S \subseteq Scored
    BY <2>3, CountedByIds DEF OneScoreEach
  <2>6. QED
    BY <2>4, <2>5
<1>5. IsFiniteSet(A) /\ A \subseteq Scored
  <2> DEFINE f == [t \in Query |-> UNION fused[t]]
  <2>1. F = {f[t] : t \in Query}
    OBVIOUS
  <2>2. IsFiniteSet({f[t] : t \in Query})
    <3> HIDE DEF f
    <3>1. QED
      BY SearchFacts, ImageIsFinite
  <2>3. \A S \in F : IsFiniteSet(S) /\ S \subseteq Scored
    BY <1>4
  <2>4. IsFiniteSet(F)
    BY <2>1, <2>2
  <2> HIDE DEF F
  <2>5. IsFiniteSet(UNION F)
    BY <2>3, <2>4, FS_UNION
  <2>6. QED
    BY <2>3, <2>5
<1>6. \A t \in Query : \A S \in fused[t] : IdsIn(S) \subseteq IdsIn(A)
  <2>1. \A t \in Query : \A S \in fused[t] : S \subseteq A
    OBVIOUS
  <2> HIDE DEF A
  <2>2. QED
    BY <2>1 DEF IdsIn
<1> HIDE DEF A
<1>7. /\ c \in Seq(A) /\ Len(c) <= RetrieveK
      /\ Cardinality(Sources(IdsOf(c))) = Len(c)
      /\ \A i, j \in DOMAIN c : i < j => c[i].score >= c[j].score
      /\ Len(c) = RetrieveK \/ Len(c) = Cardinality(Sources(IdsIn(A)))
  BY <1>2, <1>5, BestOfEachSource
<1>8. c \in Seq(Scored)
  BY <1>5, <1>7
<1>9. IdsIn(A) \in SUBSET Record
  BY <1>5 DEF IdsIn, Scored
<1>10. steady \in SUBSET Record /\ gone \in Nat
  BY <1>1, Typed
<1>11. doubles \in Int /\ Cardinality(Sources(steady)) \in Nat
  BY <1>10, SourcesGrow, FewDoubles
<1>12. ASSUME NEW t \in Query, at[t]["vector"] = "done"
       PROVE  Len(c) + gone >= Min({RetrieveK, Cardinality(Sources(steady)), PerSearchK - doubles})
  <2> DEFINE m == Min({RetrieveK, Cardinality(Sources(steady)), PerSearchK - doubles})
  <2>1. m \in Int /\ m <= RetrieveK /\ m <= Cardinality(Sources(steady)) /\ m <= PerSearchK - doubles
    <3>1. PICK p : p = PerSearchK - doubles
      OBVIOUS
    <3>2. PICK z : z = Cardinality(Sources(steady))
      OBVIOUS
    <3>3. p \in Int /\ z \in Int /\ RetrieveK \in Int
      BY <1>11, <3>1, <3>2, SearchFacts, SearchSizes
    <3> HIDE DEF doubles
    <3>4. m = Min({RetrieveK, z, p})
      BY <3>1, <3>2
    <3>5. Min({RetrieveK, z, p}) \in Int /\ Min({RetrieveK, z, p}) <= RetrieveK
          /\ Min({RetrieveK, z, p}) <= z /\ Min({RetrieveK, z, p}) <= p
      BY <3>3, MinOfThree
    <3>6. QED
      BY <3>1, <3>2, <3>4, <3>5
  <2>2. PICK S \in fused[t] : Reach(steady, gone, IdsIn(S), PerSearchK)
    <3>1. PICK S : S \in fused[t]
      BY <1>3
    <3>2. Reach(steady, gone, IdsIn(S), PerSearchK)
      BY <1>1, <1>12, <3>1 DEF VectorReach
    <3>3. QED
      BY <3>1, <3>2
  <2> HIDE DEF m
  <2>3. PICK X : X = IdsIn(S)
    OBVIOUS
  <2>4. X \in SUBSET IdsIn(A) /\ X \in SUBSET Record
    BY <1>6, <1>9, <2>3
  <2>5. Cardinality(Sources(X)) <= Cardinality(Sources(IdsIn(A))) /\ Cardinality(Sources(X)) \in Nat
        /\ Cardinality(Sources(IdsIn(A))) \in Nat
    BY <1>9, <2>4, SourcesGrow
  <2>6. Cardinality(X) - doubles <= Cardinality(Sources(X)) /\ Cardinality(X) \in Nat
    BY <2>4, FewDoubles, SourcesGrow
  <2> HIDE DEF doubles
  <2>7. Cardinality(Sources(X)) + gone >= m
    <3>1. CASE steady \subseteq X
      <4>1. Cardinality(Sources(steady)) <= Cardinality(Sources(X))
        BY <2>4, <3>1, SourcesGrow
      <4>2. QED
        BY <1>10, <1>11, <2>1, <2>5, <4>1
    <3>2. CASE Cardinality(X) + gone >= PerSearchK
      BY <1>10, <1>11, <2>1, <2>5, <2>6, <3>2, SearchSizes
    <3>3. QED
      BY <2>2, <2>3, <3>1, <3>2 DEF Reach
  <2>8. Len(c) + gone >= m
    <3>1. Len(c) \in Nat /\ RetrieveK \in Nat
      BY <1>7, SearchFacts
    <3>2. QED
      BY <1>7, <1>10, <2>1, <2>5, <2>7, <3>1
  <2>9. QED
    BY <2>8 DEF m, doubles
<1>13. SearchTypeOK'
  BY <1>1, <1>2, <1>3, <1>8 DEF SearchTypeOK, table, searching
<1>14. SearchFresh'
  BY <1>3 DEF Searching, SearchFresh
<1>15. OneScores' /\ FusedLast'
  BY <1>1, <1>3 DEF OneScores, FusedLast, Ended, searching
<1>16. (\A u \in Query : SearchK(u)' = SearchK(u)) /\ PerSearchK' = PerSearchK
  BY <1>3 DEF SearchK, OnlyVectors, PerSearchK
<1>17. VectorReach'
  BY <1>1, <1>3, <1>16 DEF VectorReach, searching, table
<1>18. CandidatesComplete'
  <2>1. candidates' = c /\ at' = at /\ steady' = steady /\ gone' = gone
    BY <1>2, <1>3 DEF searching
  <2>2. Cardinality(Sources({c[i].id : i \in DOMAIN c})) = Len(c)
    BY <1>7 DEF IdsOf
  <2> HIDE DEF doubles
  <2>3. QED
    BY <1>7, <1>12, <1>16, <2>1, <2>2 DEF CandidatesComplete, doubles
<1>19. QED
  BY <1>13, <1>14, <1>15, <1>17, <1>18 DEF SearchInv

(* A write of others that takes no more from the reach than it deletes.      *)
LEMMA Writes ==
  ASSUME SearchInv, Write, records' \subseteq Record, quality' \in [Record -> Quality],
         steady' \subseteq records', steady' \subseteq steady, gone' \in Nat, gone' >= gone,
         \A t \in Query : at[t]["vector"] = "fetch" =>
           Reach(steady', gone', IdsIn(hits[t]["vector"]) \cap records', SearchK(t))
  PROVE  SearchInv'
<1>1. SearchTypeOK /\ OneScores /\ FusedLast /\ VectorReach
  BY DEF SearchInv
<1>2. /\ Searching /\ writes < MaxWrites /\ writes' = writes + 1
      /\ UNCHANGED <<strategy, searching, candidates, retrieved, failures>>
  BY DEF Write
<1>3. writes' \in 0 .. MaxWrites
  <2>1. MaxWrites \in Nat
    BY SearchAssumption
  <2>2. QED
    BY <1>1, <1>2, <2>1, Typed
<1>4. SearchTypeOK'
  BY <1>1, <1>2, <1>3 DEF SearchTypeOK, searching
<1>5. SearchFresh' /\ CandidatesComplete'
  BY <1>2 DEF Searching, SearchFresh, CandidatesComplete
<1>6. OneScores' /\ FusedLast'
  BY <1>1, <1>2 DEF OneScores, FusedLast, Ended, searching
<1>7. (\A u \in Query : SearchK(u)' = SearchK(u)) /\ PerSearchK' = PerSearchK
  BY <1>2 DEF SearchK, OnlyVectors, PerSearchK
<1>8. VectorReach'
  <2> SUFFICES ASSUME NEW t \in Query
      PROVE  /\ at[t]["vector"] = "fetch" => Reach(steady', gone', IdsIn(hits[t]["vector"]) \cap records', SearchK(t))
             /\ at[t]["vector"] = "done" => /\ Reach(steady', gone', IdsIn(found[t]["vector"]), SearchK(t))
                                            /\ \A S \in fused[t] : Reach(steady', gone', IdsIn(S), PerSearchK)
    BY <1>2, <1>7 DEF VectorReach, searching
  <2>1. ASSUME NEW S, OneScoreEach(S), NEW k \in Nat, Reach(steady, gone, IdsIn(S), k)
        PROVE  Reach(steady', gone', IdsIn(S), k)
    <3>1. IdsIn(S) \in SUBSET Record /\ gone \in Int /\ gone' \in Int
      BY <1>1, <2>1, CountedByIds, Typed
    <3>2. steady' \in SUBSET steady /\ k <= k /\ k \in Int
      OBVIOUS
    <3>3. QED
      BY <2>1, <3>1, <3>2, ReachGrows
  <2>2. OneScoreEach(found[t]["vector"]) /\ \A S \in fused[t] : OneScoreEach(S)
    BY <1>1 DEF OneScores, Kind
  <2>3. at[t]["vector"] = "done" => /\ Reach(steady, gone, IdsIn(found[t]["vector"]), SearchK(t))
                                    /\ \A S \in fused[t] : Reach(steady, gone, IdsIn(S), PerSearchK)
    BY <1>1 DEF VectorReach
  <2>4. QED
    BY <2>1, <2>2, <2>3, SearchSizes
<1>9. QED
  BY <1>4, <1>5, <1>6, <1>8 DEF SearchInv

(* A record is added.                                                        *)
LEMMA Inserts ==
  ASSUME SearchInv, NEW r \in Record, Insert(r)
  PROVE  SearchInv'
<1>1. Write /\ records' = records \cup {r} /\ UNCHANGED <<quality, steady, gone>>
  BY DEF Insert
<1>2. SearchTypeOK /\ OneScores /\ VectorReach
  BY DEF SearchInv
<1>3. records \subseteq Record /\ quality \in [Record -> Quality] /\ steady \subseteq records /\ gone \in Nat
  BY <1>2, Typed
<1>4. ASSUME NEW t \in Query, at[t]["vector"] = "fetch"
      PROVE  Reach(steady', gone', IdsIn(hits[t]["vector"]) \cap records', SearchK(t))
  <2>1. PICK R : R = IdsIn(hits[t]["vector"]) \cap records
    OBVIOUS
  <2>2. PICK Q : Q = IdsIn(hits[t]["vector"]) \cap records'
    OBVIOUS
  <2>3. Reach(steady, gone, R, SearchK(t))
    BY <1>2, <1>4, <2>1 DEF VectorReach
  <2>4. R \in SUBSET Record /\ Q \in SUBSET Record /\ R \subseteq Q
    BY <1>1, <1>3, <2>1, <2>2
  <2>5. steady \in SUBSET steady /\ gone \in Int /\ gone <= gone /\ SearchK(t) \in Int /\ SearchK(t) <= SearchK(t)
    BY <1>3, SearchSizes
  <2>6. Reach(steady, gone, Q, SearchK(t))
    BY <2>3, <2>4, <2>5, ReachGrows
  <2>7. QED
    BY <1>1, <2>2, <2>6
<1>5. records' \subseteq Record /\ quality' \in [Record -> Quality] /\ steady' \subseteq records'
      /\ steady' \subseteq steady /\ gone' \in Nat /\ gone' >= gone
  BY <1>1, <1>3
<1>6. QED
  BY <1>1, <1>4, <1>5, Writes

(* A record is deleted between scan and fetch, or at another time.           *)
LEMMA Deletes ==
  ASSUME SearchInv, NEW r \in Record, DeleteRecord(r)
  PROVE  SearchInv'
<1>1. Write /\ records' = records \ {r} /\ steady' = steady \ {r} /\ gone' = gone + 1 /\ quality' = quality
  BY DEF DeleteRecord
<1>2. SearchTypeOK /\ OneScores /\ VectorReach
  BY DEF SearchInv
<1>3. records \subseteq Record /\ quality \in [Record -> Quality] /\ steady \subseteq records /\ gone \in Nat
  BY <1>2, Typed
<1>4. ASSUME NEW t \in Query, at[t]["vector"] = "fetch"
      PROVE  Reach(steady', gone', IdsIn(hits[t]["vector"]) \cap records', SearchK(t))
  <2>1. PICK R : R = IdsIn(hits[t]["vector"]) \cap records
    OBVIOUS
  <2>2. Reach(steady, gone, R, SearchK(t)) /\ R \in SUBSET Record
    BY <1>2, <1>3, <1>4, <2>1 DEF VectorReach
  <2>3. Reach(steady \ {r}, gone + 1, R \ {r}, SearchK(t))
    <3>1. gone \in Int /\ SearchK(t) \in Int
      BY <1>3, SearchSizes
    <3>2. QED
      BY <2>2, <3>1, ReachDelete
  <2>4. R \ {r} = IdsIn(hits[t]["vector"]) \cap records'
    BY <1>1, <2>1
  <2>5. QED
    BY <1>1, <2>3, <2>4
<1>5. records' \subseteq Record /\ quality' \in [Record -> Quality] /\ steady' \subseteq records'
      /\ steady' \subseteq steady /\ gone' \in Nat /\ gone' >= gone
  BY <1>1, <1>3
<1>6. QED
  BY <1>1, <1>4, <1>5, Writes

(* A quality changes.                                                        *)
LEMMA Adjusts ==
  ASSUME SearchInv, NEW r \in Record, NEW q \in Quality, AdjustQualityScores(r, q)
  PROVE  SearchInv'
<1>1. Write /\ quality' = [quality EXCEPT ![r] = q] /\ UNCHANGED <<records, steady, gone>>
  BY DEF AdjustQualityScores
<1>2. SearchTypeOK /\ VectorReach
  BY DEF SearchInv
<1>3. records \subseteq Record /\ quality \in [Record -> Quality] /\ steady \subseteq records /\ gone \in Nat
  BY <1>2, Typed
<1>4. \A t \in Query : at[t]["vector"] = "fetch" =>
        Reach(steady', gone', IdsIn(hits[t]["vector"]) \cap records', SearchK(t))
  BY <1>1, <1>2 DEF VectorReach
<1>5. records' \subseteq Record /\ quality' \in [Record -> Quality] /\ steady' \subseteq records'
      /\ steady' \subseteq steady /\ gone' \in Nat /\ gone' >= gone
  BY <1>1, <1>3
<1>6. QED
  BY <1>1, <1>4, <1>5, Writes

(* A step of the search keeps its invariant.                                 *)
LEMMA SearchKept ==
  ASSUME SearchInv, SearchNext
  PROVE  SearchInv'
BY Begins, VectorScans, KeywordScans, VectorFetches, KeywordFetches, EmbedsFail, HybridSearches,
   VectorSearches, SearchesFail, Merges, Inserts, Deletes, Adjusts DEF SearchNext

(* Steps of others keep it.                                                  *)
LEMMA SearchRests ==
  ASSUME SearchInv, UNCHANGED searchVars
  PROVE  SearchInv'
<1> USE DEF searchVars, table, searching
<1>1. SearchTypeOK'
  BY DEF SearchInv, SearchTypeOK
<1>2. SearchFresh' /\ OneScores' /\ FusedLast'
  BY DEF SearchInv, SearchFresh, OneScores, FusedLast, Ended
<1>3. (\A u \in Query : SearchK(u)' = SearchK(u)) /\ PerSearchK' = PerSearchK
  BY DEF SearchK, OnlyVectors, PerSearchK
<1>4. VectorReach'
  BY <1>3 DEF SearchInv, VectorReach
<1>5. CandidatesComplete'
  BY <1>3 DEF SearchInv, CandidatesComplete
<1>6. QED
  BY <1>1, <1>2, <1>4, <1>5 DEF SearchInv

(* It holds at the beginning.                                                *)
LEMMA SearchStarts ==
  ASSUME SearchInit
  PROVE  SearchInv
<1> USE DEF SearchInit
<1>1. SearchTypeOK
  <2>1. MaxWrites \in Nat /\ MaxFailures \in Nat
    BY SearchAssumption
  <2>2. /\ at \in [Query -> [Kind -> {"scan", "fetch", "done", "failed"}]]
        /\ hits \in [Query -> [Kind -> SUBSET Scored]]
        /\ found \in [Query -> [Kind -> SUBSET Scored]]
        /\ fused \in [Query -> SUBSET SUBSET Scored]
    OBVIOUS
  <2>3. records \subseteq Record /\ quality \in [Record -> Quality] /\ candidates \in Seq(Scored)
    BY SearchFacts
  <2>4. writes \in 0 .. MaxWrites /\ failures \in 0 .. MaxFailures /\ gone \in Nat
    BY <2>1
  <2>5. steady \subseteq records /\ strategy \in Strategy \cup {"none"} /\ retrieved \in BOOLEAN
    OBVIOUS
  <2> QED
    BY <2>2, <2>3, <2>4, <2>5 DEF SearchTypeOK
<1>2. SearchFresh /\ FusedLast /\ VectorReach /\ CandidatesComplete
  BY DEF SearchFresh, FusedLast, VectorReach, CandidatesComplete, Kind
<1>3. OneScores
  BY DEF OneScores, OneScoreEach
<1>4. QED
  BY <1>1, <1>2, <1>3 DEF SearchInv

(* Of the candidates none is there twice.                                    *)
LEMMA CandidatesDiffer ==
  ASSUME SearchInv, retrieved
  PROVE  /\ \A i, j \in DOMAIN candidates : candidates[i].id = candidates[j].id => i = j
         /\ candidates \in Seq(Scored) /\ Len(candidates) <= RetrieveK /\ Len(candidates) \in Nat
<1> DEFINE f == [i \in DOMAIN candidates |-> SourceOf[candidates[i].id]]
<1>1. candidates \in Seq(Scored)
  BY Typed DEF SearchInv
<1>2. Cardinality(Sources(IdsOf(candidates))) = Len(candidates) /\ Len(candidates) <= RetrieveK
  BY DEF SearchInv, CandidatesComplete, IdsOf
<1>3. PICK D : D = 1 .. Len(candidates)
  OBVIOUS
<1>4. IsFiniteSet(D) /\ Cardinality(D) = Len(candidates) /\ D = DOMAIN candidates
  BY <1>1, <1>3, FS_Interval
<1>5. Sources(IdsOf(candidates)) = {f[i] : i \in D}
  BY <1>4 DEF Sources, IdsOf
<1>6. \A i, j \in D : f[i] = f[j] => i = j
  <2> HIDE DEF f
  <2>1. Cardinality({f[i] : i \in D}) = Cardinality(D)
    BY <1>2, <1>4, <1>5
  <2>2. QED
    BY <1>4, <2>1, ImageIsFinite
<1>7. \A i, j \in DOMAIN candidates : candidates[i].id = candidates[j].id => i = j
  BY <1>4, <1>6
<1>8. Len(candidates) \in Nat
  BY <1>1
<1>9. QED
  BY <1>1, <1>2, <1>7, <1>8

-----------------------------------------------------------------------------
(* The reranker *)

(* The chunks of a call.                                                     *)
ChunksTyped == chunks \in Seq(Scored) /\ Len(chunks) <= MaxChunks

(* Each chunk's result is sent once and collected once, by a goroutine that  *)
(* ended.                                                                    *)
ResultsOnce ==
  /\ Once(results) /\ Once(scored) /\ ToSet(results) \cap ToSet(scored) = {}
  /\ \A n \in ToSet(results) \cup ToSet(scored) : n \in Goroutine /\ scorer[n] = "ended"

(* While the context is live, a goroutine that ended has sent its result.    *)
EndedAccounted ==
  \A n \in Goroutine : scorer[n] = "ended" => n \in ToSet(results) \cup ToSet(scored) \/ ctx # "live"

(* As many chunks are scored as are kept.                                    *)
EnoughScored == Cardinality(ToSet(scored)) >= Min({KeepK, Len(chunks)})

(* What the stages of a call know of the context and the scores.             *)
RerankStages ==
  /\ rerank = "off" => chunks = <<>> /\ results = <<>> /\ scored = <<>> /\ ctx = "live"
  /\ rerank = "collect" => ctx \in {"live", "timedOut"}
  /\ rerank \in {"returned", "failed"} => ctx # "live" \/ chunks = <<>>
  /\ rerank = "returned" => EnoughScored \/ ctx = "timedOut"

(* The inductive invariant of the reranker.                                  *)
RerankInv == RerankTypeOK /\ ChunksTyped /\ ResultsOnce /\ EndedAccounted /\ RerankStages

(* The constants of the reranker, from its assumptions.                      *)
LEMMA RerankFacts ==
  /\ MaxChunks \in Nat /\ KeepK \in Nat \ {0} /\ ModelScore \subseteq Nat /\ RetrieveK <= MaxChunks
  /\ ChunkTokens \in [Record -> Nat] /\ ContextBudget \in Nat
BY RerankAssumption, EnrichAssumption

(* There is a goroutine for each chunk.                                      *)
LEMMA Goroutines ==
  ASSUME ChunksTyped
  PROVE  Goroutine = 1 .. Len(chunks) /\ Len(chunks) \in Nat /\ Goroutine \in SUBSET Chunk
BY RerankFacts DEF ChunksTyped, Goroutine, Chunk

(* The type of the reranker's variables.                                     *)
LEMMA RerankTyped ==
  ASSUME RerankInv
  PROVE  /\ scorer \in [Chunk -> {"none", "waiting", "scoring", "sending", "ended"}]
         /\ score \in [Chunk -> Nat]
         /\ results \in Seq(Chunk) /\ scored \in Seq(Chunk)
         /\ ctx \in {"live", "timedOut", "cancelled"}
         /\ rerank \in {"off", "collect", "returned", "failed"}
         /\ answered \subseteq Chunk
         /\ chunks \in Seq(Scored) /\ Goroutine \in SUBSET Chunk
BY Goroutines DEF RerankInv, RerankTypeOK, ChunksTyped

(* A goroutine goes on without a result.                                     *)
LEMMA ScorerMoves ==
  ASSUME RerankInv, NEW n \in Goroutine, scorer[n] # "ended",
         NEW st \in {"scoring", "sending", "ended"}, st = "ended" => ctx # "live", Goes(n, st),
         score' \in [Chunk -> Nat], answered' \subseteq Chunk,
         UNCHANGED <<chunks, results, scored, ctx, rerank>>
  PROVE  RerankInv'
<1>1. scorer' = [scorer EXCEPT ![n] = st] /\ n \in Chunk
  BY RerankTyped DEF Goes
<1>2. \A m \in Chunk : scorer'[m] = IF m = n THEN st ELSE scorer[m]
  BY <1>1, RerankTyped
<1>3. RerankTypeOK'
  BY <1>1, RerankTyped DEF RerankTypeOK
<1>4. ChunksTyped' /\ RerankStages'
  BY DEF RerankInv, ChunksTyped, RerankStages, EnoughScored
<1>5. ResultsOnce'
  BY <1>2, RerankTyped DEF RerankInv, ResultsOnce, Goroutine
<1>6. EndedAccounted'
  BY <1>2, RerankTyped DEF RerankInv, EndedAccounted, Goroutine
<1>7. QED
  BY <1>3, <1>4, <1>5, <1>6 DEF RerankInv

(* A goroutine sends its result and ends.                                    *)
LEMMA Sends ==
  ASSUME RerankInv, NEW n \in Goroutine, Send(n)
  PROVE  RerankInv'
<1>1. /\ scorer[n] = "sending" /\ results' = Append(results, n)
      /\ scorer' = [scorer EXCEPT ![n] = "ended"]
      /\ UNCHANGED <<chunks, score, scored, ctx, rerank, answered>>
  BY DEF Send, Goes
<1>2. n \in Chunk
  BY RerankTyped
<1>3. \A m \in Chunk : scorer'[m] = IF m = n THEN "ended" ELSE scorer[m]
  BY <1>1, <1>2, RerankTyped
<1>4. n \notin ToSet(results) \cup ToSet(scored)
  BY <1>1 DEF RerankInv, ResultsOnce
<1>5. results' \in Seq(Chunk) /\ ToSet(results') = ToSet(results) \cup {n} /\ Once(results')
  BY <1>1, <1>2, <1>4, RerankTyped, AppendOnce DEF RerankInv, ResultsOnce
<1>6. RerankTypeOK'
  BY <1>1, <1>2, <1>5, RerankTyped DEF RerankTypeOK
<1>7. ChunksTyped'
  BY <1>1 DEF RerankInv, ChunksTyped
<1>8. RerankStages'
  <2>1. rerank # "off"
    BY DEF RerankInv, RerankStages, Goroutine
  <2>2. QED
    BY <1>1, <2>1 DEF RerankInv, RerankStages, EnoughScored
<1>9. ResultsOnce'
  BY <1>1, <1>3, <1>4, <1>5, RerankTyped DEF RerankInv, ResultsOnce, Goroutine
<1>10. EndedAccounted'
  BY <1>1, <1>3, <1>5, RerankTyped DEF RerankInv, EndedAccounted, Goroutine
<1>11. QED
  BY <1>6, <1>7, <1>8, <1>9, <1>10 DEF RerankInv

(* A step of a goroutine keeps the invariant.                                *)
LEMMA ScorersKeep ==
  ASSUME RerankInv, NEW n \in Goroutine, ScorerNext(n)
  PROVE  RerankInv'
<1>1. CASE Acquire(n)
  BY <1>1, RerankTyped, ScorerMoves DEF Acquire
<1>2. CASE GiveUpWaiting(n)
  BY <1>2, RerankTyped, ScorerMoves DEF GiveUpWaiting
<1>3. CASE ScoreFails(n)
  BY <1>3, RerankTyped, ScorerMoves DEF ScoreFails
<1>4. CASE ScoreMissing(n)
  <2>1. n \in Chunk /\ 0 \in Nat
    BY RerankTyped
  <2>2. score' \in [Chunk -> Nat]
    BY <1>4, <2>1, RerankTyped DEF ScoreMissing
  <2>3. QED
    BY <1>4, <2>2, RerankTyped, ScorerMoves DEF ScoreMissing
<1>5. CASE Interrupted(n)
  BY <1>5, RerankTyped, ScorerMoves DEF Interrupted
<1>6. CASE Send(n)
  BY <1>6, Sends
<1>7. ASSUME NEW s \in ModelScore, Answered(n, s) PROVE RerankInv'
  <2>1. s \in Nat /\ n \in Chunk
    BY RerankFacts, RerankTyped
  <2>2. score' \in [Chunk -> Nat] /\ answered' \subseteq Chunk
    BY <1>7, <2>1, RerankTyped DEF Answered
  <2>3. QED
    BY <1>7, <2>2, ScorerMoves DEF Answered
<1>8. QED
  BY <1>1, <1>2, <1>3, <1>4, <1>5, <1>6, <1>7 DEF ScorerNext

(* A score is collected; enough of them end the call.                        *)
LEMMA Collects ==
  ASSUME RerankInv, Collect
  PROVE  RerankInv'
<1> DEFINE h == Head(results)
<1>1. /\ rerank = "collect" /\ results # <<>> /\ scored' = Append(scored, h) /\ results' = Tail(results)
      /\ UNCHANGED <<chunks, scorer, score, answered>>
      /\ \/ /\ earlyReturnAt > 0 /\ Len(scored') >= earlyReturnAt
            /\ rerank' = "returned" /\ ctx' = IF ctx = "live" THEN "cancelled" ELSE ctx
         \/ UNCHANGED <<rerank, ctx>>
  BY DEF Collect, Returns
<1>2. /\ h \in Chunk /\ Tail(results) \in Seq(Chunk)
      /\ ToSet(results) = ToSet(Tail(results)) \cup {h}
      /\ Once(results) => Once(Tail(results)) /\ h \notin ToSet(Tail(results))
  BY <1>1, RerankTyped, TailOnce
<1> HIDE DEF h
<1>3. /\ Once(results) /\ Once(scored) /\ ToSet(results) \cap ToSet(scored) = {}
      /\ \A n \in ToSet(results) \cup ToSet(scored) : n \in Goroutine /\ scorer[n] = "ended"
  BY DEF RerankInv, ResultsOnce
<1>4. h \notin ToSet(scored)
  BY <1>2, <1>3
<1>5. scored' \in Seq(Chunk) /\ ToSet(scored') = ToSet(scored) \cup {h} /\ Once(scored')
  BY <1>1, <1>2, <1>3, <1>4, RerankTyped, AppendOnce
<1>6. results' \in Seq(Chunk) /\ Once(results') /\ h \notin ToSet(results') /\ ToSet(results) = ToSet(results') \cup {h}
  BY <1>1, <1>2, <1>3
<1>7. RerankTypeOK'
  BY <1>1, <1>5, <1>6, RerankTyped DEF RerankTypeOK
<1>8. ChunksTyped'
  BY <1>1 DEF RerankInv, ChunksTyped
<1>9. ResultsOnce'
  BY <1>1, <1>3, <1>5, <1>6 DEF ResultsOnce, Goroutine
<1>10. EndedAccounted'
  <2>1. ctx' = ctx \/ ctx' # "live"
    BY <1>1
  <2>2. QED
    BY <1>1, <1>5, <1>6, <2>1 DEF RerankInv, EndedAccounted, Goroutine
<1>11. RerankStages'
  <2>1. CASE UNCHANGED <<rerank, ctx>>
    BY <1>1, <2>1 DEF RerankInv, RerankStages
  <2>2. CASE /\ earlyReturnAt > 0 /\ Len(scored') >= earlyReturnAt
             /\ rerank' = "returned" /\ ctx' = IF ctx = "live" THEN "cancelled" ELSE ctx
    <3>1. ctx' # "live"
      BY <2>2
    <3>2. KeepK < Len(chunks) /\ Len(scored') >= KeepK
      BY <2>2 DEF earlyReturnAt
    <3>3. Min({KeepK, Len(chunks)}) = KeepK
      <4>1. PICK n : n = Len(chunks)
        OBVIOUS
      <4>2. n \in Int /\ KeepK \in Int /\ KeepK < n
        BY <3>2, <4>1, RerankFacts, RerankTyped
      <4>3. Min({KeepK, n}) = KeepK
        BY <4>2, MinOfTwo
      <4>4. QED
        BY <4>1, <4>3
    <3>4. Cardinality(ToSet(scored')) = Len(scored')
      BY <1>5, OnceCounted
    <3>5. EnoughScored'
      BY <1>1, <3>2, <3>3, <3>4 DEF EnoughScored
    <3>6. QED
      BY <2>2, <3>1, <3>5 DEF RerankStages
  <2>3. QED
    BY <1>1, <2>1, <2>2
<1>12. QED
  BY <1>7, <1>8, <1>9, <1>10, <1>11 DEF RerankInv

(* All goroutines have ended: with the time not up they all have scores.     *)
LEMMA Closes ==
  ASSUME RerankInv, Closed
  PROVE  RerankInv'
<1>1. /\ rerank = "collect" /\ results = <<>> /\ (\A n \in Goroutine : scorer[n] = "ended")
      /\ rerank' = "returned" /\ ctx' = IF ctx = "live" THEN "cancelled" ELSE ctx
      /\ UNCHANGED <<chunks, scorer, score, results, scored, answered>>
  BY DEF Closed, Returns
<1>2. ctx' # "live" /\ ctx' \in {"live", "timedOut", "cancelled"}
  BY <1>1, RerankTyped
<1>3. RerankTypeOK'
  BY <1>1, <1>2, RerankTyped DEF RerankTypeOK
<1>4. ChunksTyped' /\ ResultsOnce' /\ EndedAccounted'
  BY <1>1, <1>2 DEF RerankInv, ChunksTyped, ResultsOnce, EndedAccounted, Goroutine
<1>5. ctx = "live" => EnoughScored
  <2> SUFFICES ASSUME ctx = "live" PROVE EnoughScored
    OBVIOUS
  <2>1. ToSet(results) = {}
    BY <1>1 DEF ToSet
  <2>2. Goroutine \subseteq ToSet(scored)
    BY <1>1, <2>1 DEF RerankInv, EndedAccounted
  <2>3. IsFiniteSet(ToSet(scored)) /\ Cardinality(ToSet(scored)) \in Nat
    BY RerankTyped, OnceCounted, FS_CardinalityType DEF RerankInv, ResultsOnce
  <2>4. Goroutine = 1 .. Len(chunks) /\ Len(chunks) \in Nat
    BY Goroutines DEF RerankInv
  <2>5. Cardinality(Goroutine) = Len(chunks)
    BY <2>4, FS_Interval
  <2>6. Cardinality(Goroutine) <= Cardinality(ToSet(scored))
    BY <2>2, <2>3, FS_Subset
  <2>7. Min({KeepK, Len(chunks)}) <= Len(chunks) /\ Min({KeepK, Len(chunks)}) \in Int
    BY <2>4, RerankFacts, MinOfTwo
  <2>8. QED
    BY <2>3, <2>4, <2>5, <2>6, <2>7 DEF EnoughScored
<1>6. RerankStages'
  BY <1>1, <1>2, <1>5 DEF RerankInv, RerankStages, EnoughScored
<1>7. QED
  BY <1>3, <1>4, <1>6 DEF RerankInv

(* The time is up, or was.                                                   *)
LEMMA TimesOut ==
  ASSUME RerankInv, Timeout \/ TimedOut
  PROVE  RerankInv'
<1>1. /\ rerank = "collect" /\ ctx' = "timedOut" /\ rerank' \in {"collect", "failed"}
      /\ UNCHANGED <<chunks, scorer, score, results, scored, answered>>
  BY DEF Timeout, TimedOut
<1>2. RerankTypeOK'
  BY <1>1, RerankTyped DEF RerankTypeOK
<1>3. ChunksTyped' /\ ResultsOnce' /\ EndedAccounted' /\ RerankStages'
  BY <1>1 DEF RerankInv, ChunksTyped, ResultsOnce, EndedAccounted, Goroutine, RerankStages
<1>4. QED
  BY <1>2, <1>3 DEF RerankInv

(* A step of the reranker keeps its invariant.                               *)
LEMMA RerankKept ==
  ASSUME RerankInv, RerankNext
  PROVE  RerankInv'
BY ScorersKeep, Collects, Closes, TimesOut DEF RerankNext

(* What a call returned does not change, whatever its goroutines still do.   *)
LEMMA ReturnedStays ==
  ASSUME RerankInv, RerankNext, rerank \in {"returned", "failed"}
  PROVE  UNCHANGED <<chunks, score, scored, ctx, rerank>>
<1>1. PICK n \in Goroutine : ScorerNext(n)
  BY DEF RerankNext, Collect, Closed, Timeout, TimedOut
<1>2. ctx # "live"
  BY <1>1 DEF RerankInv, RerankStages, Goroutine
<1>3. QED
  BY <1>1, <1>2 DEF ScorerNext, Acquire, GiveUpWaiting, ScoreFails, ScoreMissing, Interrupted, Send, Answered

-----------------------------------------------------------------------------
(* The pipeline *)

(* The stages of Enrich and of the calls it makes.                           *)
Stages ==
  /\ stage \in {"search", "rerank", "done"} /\ (stage = "search" <=> rerank = "off")
  /\ stage # "search" => retrieved /\ chunks = candidates
  /\ stage = "done" => rerank \in {"returned", "failed"}

(* The inductive invariant of the pipeline.                                  *)
EnrichInv == SearchInv /\ RerankInv /\ Stages /\ used \in Seq(Scored) /\ selected \in Seq(Scored) /\ ContextIsSound

(* The first KeepK of a list.                                                *)
LEMMA CutOff ==
  ASSUME NEW A, NEW q \in Seq(A)
  PROVE  /\ Cut(q) \in Seq(A) /\ Len(Cut(q)) = Min({Len(q), KeepK})
         /\ Len(Cut(q)) <= Len(q) /\ Len(Cut(q)) <= KeepK /\ Len(Cut(q)) \in Nat
         /\ Len(Cut(q)) < KeepK => Len(Cut(q)) = Len(q)
         /\ \A i \in DOMAIN Cut(q) : i \in DOMAIN q /\ Cut(q)[i] = q[i]
<1>1. PICK n : n = Len(q)
  OBVIOUS
<1>2. n \in Nat /\ KeepK \in Nat
  BY <1>1, RerankFacts
<1>3. PICK m : m = Min({n, KeepK})
  OBVIOUS
<1>4. m = IF n <= KeepK THEN n ELSE KeepK
  BY <1>2, <1>3, MinOfTwo
<1>5. Cut(q) = SubSeq(q, 1, m)
  BY <1>1, <1>3 DEF Cut
<1>6. m \in Nat /\ m <= n
  BY <1>2, <1>4
<1>7. PICK p : p = SubSeq(q, 1, m)
  OBVIOUS
<1>8. p \in Seq(A) /\ Len(p) = m /\ DOMAIN p = 1 .. m /\ \A i \in 1 .. m : p[i] = q[i]
  BY <1>1, <1>6, <1>7
<1>9. DOMAIN q = 1 .. n
  BY <1>1
<1>10. Len(p) <= n /\ Len(p) <= KeepK /\ Len(p) \in Nat /\ (Len(p) < KeepK => Len(p) = n)
  BY <1>2, <1>4, <1>8
<1>11. \A i \in DOMAIN p : i \in DOMAIN q /\ p[i] = q[i]
  BY <1>2, <1>6, <1>8, <1>9
<1>12. QED
  BY <1>1, <1>3, <1>5, <1>7, <1>8, <1>10, <1>11

(* Only chunks of the list are selected: the fold in Select.                 *)
LEMMA SelectedAreOfThem ==
  ASSUME NEW A, NEW s \in Seq(A)
  PROVE  Select(s) \in Seq(ToSet(s))
<1> DEFINE D == DOMAIN s
           n == Len(s)
           Typ == Seq(ToSet(s))
           Body(f) == [T \in SUBSET D |->
                         IF T = {} THEN <<>> ELSE TakeIfFits(f[T \ {Max(T)}], s[Max(T)])]
           f == CHOOSE h : h = Body(h)
           g == [x \in D |-> [v \in Typ |-> TakeIfFits(v, s[x])]]
<1>1. Select(s) = f[D]
  BY DEF Select, FoldLeft, MapThenFoldSet
<1>2. D = 1 .. n /\ n \in Nat
  OBVIOUS
<1>3. \A x \in D, v \in Typ : TakeIfFits(v, s[x]) \in Typ
  <2>1. ASSUME NEW x \in D, NEW v \in Typ PROVE TakeIfFits(v, s[x]) \in Typ
    <3>1. s[x] \in ToSet(s)
      BY DEF ToSet
    <3>2. Append(v, s[x]) \in Typ
      BY <3>1
    <3> HIDE DEF Typ
    <3>3. QED
      BY <3>2 DEF TakeIfFits
  <2>2. QED
    BY <2>1
<1>4. <<>> \in Typ
  OBVIOUS
<1> HIDE DEF Typ
<1>5. PICK h \in [SUBSET D -> Typ] : IsFold(h, D, Maxima(D), <<>>, g)
  <2>1. \A x \in D, v \in Typ : g[x][v] \in Typ
    BY <1>3
  <2> HIDE DEF g, D, n
  <2>2. QED
    BY <1>2, <1>4, <2>1, LeftFoldExists
<1>6. \A T \in SUBSET D : T # {} => Max(T) \in T
  BY <1>2, MaxExists
<1>7. h = Body(h)
  <2>1. ASSUME NEW T \in SUBSET D, T # {}
        PROVE  h[T] = TakeIfFits(h[T \ {Max(T)}], s[Max(T)])
    <3>1. Max(T) \in D
      BY <1>6, <2>1
    <3>2. h[T] = g[Max(T)][h[T \ {Max(T)}]] /\ h[T \ {Max(T)}] \in Typ
      BY <1>5, <2>1 DEF IsFold, Maxima
    <3>3. QED
      BY <3>1, <3>2
  <2>2. QED
    BY <1>5, <2>1 DEF IsFold
<1>8. f = Body(f)
  BY <1>7
<1> HIDE DEF f, g
<1> DEFINE Bad == {T \in SUBSET D : f[T] \notin Typ}
<1>9. Bad = {}
  <2> SUFFICES ASSUME Bad # {} PROVE FALSE
    OBVIOUS
  <2>1. PICK E : E = D
    OBVIOUS
  <2>2. IsFiniteSet(E)
    BY <1>2, <2>1, FS_Interval
  <2>3. Bad \in SUBSET (SUBSET E)
    BY <2>1
  <2>4. PICK T \in Bad : \A U \in Bad : U \subseteq T => U = T
    <3> HIDE DEF Bad
    <3>1. QED
      BY <2>2, <2>3, LeastSet
  <2>5. T # {}
    BY <1>4, <1>8, <2>4
  <2>6. Max(T) \in T /\ T \in SUBSET D
    BY <1>6, <2>4, <2>5
  <2>7. T \ {Max(T)} \notin Bad
    BY <2>4, <2>6
  <2>8. f[T \ {Max(T)}] \in Typ
    BY <2>6, <2>7
  <2>9. f[T] = TakeIfFits(f[T \ {Max(T)}], s[Max(T)])
    BY <1>8, <2>5, <2>6
  <2>10. QED
    BY <1>3, <2>4, <2>6, <2>8, <2>9
<1>10. f[D] \in Typ
  BY <1>9
<1>11. QED
  BY <1>1, <1>10 DEF Typ

(* A list whose records differ has as many ids as places.                    *)
LEMMA AsManyIds ==
  ASSUME NEW q \in Seq(Scored), \A i, j \in DOMAIN q : q[i].id = q[j].id => i = j
  PROVE  Cardinality({q[i].id : i \in DOMAIN q}) = Len(q) /\ IsFiniteSet(ToSet(q))
<1>1. PICK D : D = 1 .. Len(q)
  OBVIOUS
<1>2. IsFiniteSet(D) /\ Cardinality(D) = Len(q) /\ D = DOMAIN q
  BY <1>1, FS_Interval
<1> DEFINE f == [i \in D |-> q[i].id]
<1>3. \A i, j \in D : f[i] = f[j] => i = j
  BY <1>2
<1>4. {q[i].id : i \in DOMAIN q} = {f[i] : i \in D}
  BY <1>2
<1> HIDE DEF f
<1>5. Cardinality({f[i] : i \in D}) = Cardinality(D)
  <2>1. IsFiniteSet(D)
    BY <1>2
  <2>2. QED
    BY <1>3, <2>1, ImageIsFinite
<1>6. ToSet(q) = {q[i] : i \in D}
  BY <1>2 DEF ToSet
<1>7. IsFiniteSet({q[i] : i \in D})
  BY <1>2, ImageIsFinite
<1>8. QED
  BY <1>2, <1>4, <1>5, <1>6, <1>7

(* The ranking has each chunk that passed the threshold once, the best       *)
(* first.                                                                    *)
LEMMA RankedOnce ==
  ASSUME RerankInv, NEW q \in Ranked
  PROVE  /\ q \in Seq(Filtered) /\ Len(q) = Cardinality(Filtered) /\ Len(q) \in Nat /\ DOMAIN q = 1 .. Len(q)
         /\ \A i \in DOMAIN q : q[i] \in Filtered
         /\ \A i, j \in DOMAIN q : q[i] = q[j] => i = j
         /\ \A n \in Filtered : \E i \in DOMAIN q : q[i] = n
         /\ \A i, j \in DOMAIN q : i < j => score[q[i]] >= score[q[j]]
         /\ Filtered \subseteq Goroutine
<1>1. PICK F : F = Filtered
  OBVIOUS
<1>2. F \subseteq ToSet(scored)
  BY <1>1 DEF Filtered, ToSet
<1>3. IsFiniteSet(ToSet(scored)) /\ ToSet(scored) \subseteq Goroutine
  BY RerankTyped, OnceCounted DEF RerankInv, ResultsOnce
<1>4. IsFiniteSet(F) /\ Cardinality(F) \in Nat
  BY <1>2, <1>3, FS_Subset, FS_CardinalityType
<1>5. PICK D : D = 1 .. Cardinality(F)
  OBVIOUS
<1>6. IsFiniteSet(D) /\ Cardinality(D) = Cardinality(F)
  BY <1>4, <1>5, FS_Interval
<1>7. /\ q \in [D -> F]
      /\ \A n \in F : \E i \in DOMAIN q : q[i] = n
      /\ \A i, j \in DOMAIN q : i < j => score[q[i]] >= score[q[j]]
  BY <1>1, <1>5 DEF Ranked
<1>8. q \in Surjection(D, F)
  BY <1>7 DEF Surjection
<1>9. q \in Injection(D, F)
  BY <1>6, <1>8, FS_Surjection
<1>10. \A i, j \in DOMAIN q : q[i] = q[j] => i = j
  BY <1>7, <1>9 DEF Injection, IsInjective
<1>11. q \in Seq(F) /\ Len(q) = Cardinality(F) /\ DOMAIN q = 1 .. Len(q)
  BY <1>4, <1>5, <1>7
<1>12. \A i \in DOMAIN q : q[i] \in F
  BY <1>7
<1>13. QED
  BY <1>1, <1>2, <1>3, <1>4, <1>7, <1>10, <1>11, <1>12

(* What is used is the first part of a list without repetition, and what is  *)
(* selected is of it.                                                        *)
LEMMA Uses ==
  ASSUME NEW q \in Seq(Scored), \A i, j \in DOMAIN q : q[i].id = q[j].id => i = j, Use(q)
  PROVE  /\ used' = Cut(q) /\ used' \in Seq(Scored) /\ Len(used') <= KeepK
         /\ Cardinality({used'[i].id : i \in DOMAIN used'}) = Len(used')
         /\ selected' \in Seq(Scored) /\ ToSet(selected') \subseteq ToSet(used')
<1>1. PICK u : u = Cut(q)
  OBVIOUS
<1>2. /\ u \in Seq(Scored) /\ Len(u) <= KeepK
      /\ \A i \in DOMAIN u : i \in DOMAIN q /\ u[i] = q[i]
  BY <1>1, CutOff
<1>3. Cardinality({u[i].id : i \in DOMAIN u}) = Len(u) /\ IsFiniteSet(ToSet(u))
  <2>1. \A i, j \in DOMAIN u : u[i].id = u[j].id => i = j
    BY <1>2
  <2>2. QED
    BY <1>2, <2>1, AsManyIds
<1>4. PICK s \in SetToSeqs(ToSet(u)) : selected' = Select(s)
  BY <1>1 DEF Use
<1>5. s \in Seq(ToSet(u)) /\ ToSet(s) = ToSet(u)
  BY <1>3, <1>4, Enumerated
<1>6. selected' \in Seq(ToSet(u))
  BY <1>4, <1>5, SelectedAreOfThem
<1>7. ToSet(u) \subseteq Scored
  BY <1>2 DEF ToSet
<1>8. selected' \in Seq(Scored)
  BY <1>6, <1>7
<1>9. ToSet(selected') \subseteq ToSet(u)
  <2>1. PICK A : A = ToSet(u)
    OBVIOUS
  <2>2. selected' \in Seq(A)
    BY <1>6, <2>1
  <2>3. \A i \in DOMAIN selected' : selected'[i] \in A
    BY <2>2
  <2>4. ToSet(selected') \subseteq A
    BY <2>3 DEF ToSet
  <2>5. QED
    BY <2>1, <2>4
<1>10. used' = u
  BY <1>1 DEF Use
<1>11. QED
  BY <1>1, <1>2, <1>3, <1>8, <1>9, <1>10

(* Steps of others keep the invariant of the reranker.                       *)
LEMMA RerankRests ==
  ASSUME RerankInv, UNCHANGED rerankVars
  PROVE  RerankInv'
<1> USE DEF rerankVars
<1>1. RerankTypeOK'
  BY DEF RerankInv, RerankTypeOK
<1>2. ChunksTyped' /\ ResultsOnce' /\ EndedAccounted' /\ RerankStages'
  BY DEF RerankInv, ChunksTyped, ResultsOnce, EndedAccounted, RerankStages, EnoughScored, Goroutine
<1>3. QED
  BY <1>1, <1>2 DEF RerankInv

(* ContextIsSound looks at these variables only.                             *)
LEMMA SoundRests ==
  ASSUME ContextIsSound, UNCHANGED <<stage, used, selected, candidates, rerank, scored, score, ctx, chunks>>
  PROVE  ContextIsSound'
<1>1. Filtered' = Filtered
  BY DEF Filtered
<1>2. QED
  BY <1>1 DEF ContextIsSound

(* The candidates are handed to the reranker.                                *)
LEMMA BeginsRerank ==
  ASSUME EnrichInv, BeginRerank
  PROVE  EnrichInv'
<1>1. /\ stage = "search" /\ retrieved /\ chunks' = candidates /\ stage' = "rerank"
      /\ scorer' = [n \in Chunk |-> IF n \in DOMAIN candidates THEN "waiting" ELSE "none"]
      /\ score' = [n \in Chunk |-> IF n \in DOMAIN candidates THEN candidates[n].score ELSE 0]
      /\ rerank' = IF candidates = <<>> THEN "returned" ELSE "collect"
      /\ UNCHANGED <<results, scored, ctx, answered>>
  BY DEF BeginRerank, Rerank
<1>2. /\ at' = [t \in Query |-> [kind \in Kind |-> "scan"]]
      /\ hits' = [t \in Query |-> [kind \in Kind |-> {}]] /\ found' = hits'
      /\ fused' = [t \in Query |-> {}]
      /\ steady' = {} /\ gone' = 0 /\ writes' = 0 /\ failures' = 0
      /\ UNCHANGED <<table, strategy, candidates, retrieved, used, selected>>
  BY DEF BeginRerank
<1>3. SearchInv /\ RerankInv /\ Stages /\ used \in Seq(Scored) /\ selected \in Seq(Scored)
  BY DEF EnrichInv
<1>4. results = <<>> /\ scored = <<>> /\ ctx = "live"
  BY <1>1, <1>3 DEF Stages, RerankInv, RerankStages
<1>5. candidates \in Seq(Scored) /\ Len(candidates) <= MaxChunks
  <2>1. candidates \in Seq(Scored) /\ Len(candidates) <= RetrieveK /\ Len(candidates) \in Nat
    BY <1>1, <1>3, CandidatesDiffer
  <2>2. QED
    BY <2>1, RerankFacts, SearchFacts
<1>6. SearchInv'
  <2>1. MaxWrites \in Nat /\ MaxFailures \in Nat
    BY SearchAssumption
  <2>2. writes' \in 0 .. MaxWrites /\ failures' \in 0 .. MaxFailures /\ gone' \in Nat
    BY <1>2, <2>1
  <2>3. /\ at' \in [Query -> [Kind -> {"scan", "fetch", "done", "failed"}]]
        /\ hits' \in [Query -> [Kind -> SUBSET Scored]]
        /\ found' \in [Query -> [Kind -> SUBSET Scored]]
        /\ fused' \in [Query -> SUBSET SUBSET Scored]
    BY <1>2
  <2>4. /\ records' \subseteq Record /\ quality' \in [Record -> Quality] /\ steady' \subseteq records'
        /\ strategy' \in Strategy \cup {"none"} /\ candidates' \in Seq(Scored) /\ retrieved' \in BOOLEAN
    BY <1>2, <1>3, Typed DEF SearchInv, table
  <2>5. SearchTypeOK'
    BY <2>2, <2>3, <2>4 DEF SearchTypeOK
  <2>6. SearchFresh'
    BY <1>1, <1>2, <1>3 DEF SearchInv, SearchFresh
  <2>7. OneScores'
    BY <1>2 DEF OneScores, OneScoreEach
  <2>8. FusedLast' /\ VectorReach'
    BY <1>2 DEF FusedLast, VectorReach, Kind
  <2>9. CandidatesComplete'
    <3>1. \A t \in Query : at'[t]["vector"] = "scan"
      BY <1>2 DEF Kind
    <3>2. QED
      BY <1>2, <1>3, <3>1 DEF SearchInv, CandidatesComplete
  <2>10. QED
    BY <2>5, <2>6, <2>7, <2>8, <2>9 DEF SearchInv
<1>7. RerankTypeOK'
  <2>1. \A n \in DOMAIN candidates : candidates[n].score \in Nat
    <3>1. \A n \in DOMAIN candidates : candidates[n] \in Scored
      BY <1>5
    <3>2. \A a \in Scored : a.score \in Nat
      BY DEF Scored
    <3>3. QED
      BY <3>1, <3>2
  <2>2. score' \in [Chunk -> Nat]
    BY <1>1, <2>1
  <2>3. scorer' \in [Chunk -> {"none", "waiting", "scoring", "sending", "ended"}]
    BY <1>1
  <2>4. QED
    BY <1>1, <1>3, <2>2, <2>3, RerankTyped DEF RerankTypeOK
<1>8. ChunksTyped'
  BY <1>1, <1>5 DEF ChunksTyped
<1>9. ResultsOnce'
  BY <1>1, <1>4 DEF ResultsOnce, Once, ToSet
<1>10. EndedAccounted'
  <2>1. \A n \in DOMAIN candidates : n \in Chunk
    BY <1>5, RerankFacts DEF Chunk
  <2>2. QED
    BY <1>1, <2>1 DEF EndedAccounted, Goroutine
<1>11. RerankStages'
  <2>1. candidates = <<>> => EnoughScored'
    <3> SUFFICES ASSUME candidates = <<>> PROVE Cardinality(ToSet(scored')) >= Min({KeepK, Len(chunks')})
      BY DEF EnoughScored
    <3>1. ToSet(scored') = {} /\ Len(chunks') = 0
      BY <1>1, <1>4 DEF ToSet
    <3>2. Min({KeepK, 0}) = 0
      BY RerankFacts, MinOfTwo
    <3>3. QED
      BY <3>1, <3>2, FS_EmptySet
  <2>2. QED
    BY <1>1, <1>4, <2>1 DEF RerankStages
<1>12. Stages'
  BY <1>1, <1>2 DEF Stages
<1>13. used' \in Seq(Scored) /\ selected' \in Seq(Scored) /\ ContextIsSound'
  BY <1>1, <1>2, <1>3 DEF ContextIsSound
<1>14. QED
  BY <1>6, <1>7, <1>8, <1>9, <1>10, <1>11, <1>12, <1>13 DEF EnrichInv, RerankInv

(* The reranker goes on, perhaps after its call returned.                    *)
LEMMA ReranksOn ==
  ASSUME EnrichInv, Reranking
  PROVE  EnrichInv'
<1>1. RerankNext /\ UNCHANGED <<searchVars, stage, used, selected>>
  BY DEF Reranking
<1>2. SearchInv /\ RerankInv /\ Stages /\ used \in Seq(Scored) /\ selected \in Seq(Scored) /\ ContextIsSound
  BY DEF EnrichInv
<1>3. SearchInv'
  BY <1>1, <1>2, SearchRests
<1>4. RerankInv'
  BY <1>1, <1>2, RerankKept
<1>5. chunks' = chunks /\ rerank # "off" /\ rerank' # "off"
  <2>1. CASE \E n \in Goroutine : ScorerNext(n)
    <3>1. chunks # <<>>
      BY <2>1 DEF Goroutine
    <3>2. rerank # "off"
      BY <1>2, <3>1 DEF RerankInv, RerankStages
    <3>3. QED
      BY <2>1, <3>2 DEF ScorerNext, Acquire, GiveUpWaiting, ScoreFails, ScoreMissing, Interrupted, Send, Answered
  <2>2. CASE Collect \/ Closed \/ Timeout \/ TimedOut
    BY <2>2 DEF Collect, Closed, Timeout, TimedOut, Returns
  <2>3. QED
    BY <1>1, <2>1, <2>2 DEF RerankNext
<1>6. stage = "done" => UNCHANGED <<chunks, score, scored, ctx, rerank>>
  BY <1>1, <1>2, ReturnedStays DEF Stages
<1>7. UNCHANGED <<candidates, retrieved>>
  BY <1>1 DEF searchVars
<1>8. Stages'
  BY <1>1, <1>2, <1>5, <1>6, <1>7 DEF Stages
<1>9. ContextIsSound'
  <2>1. CASE stage = "done"
    BY <1>1, <1>2, <1>6, <1>7, <2>1, SoundRests
  <2>2. CASE stage # "done"
    BY <1>1, <2>2 DEF ContextIsSound
  <2>3. QED
    BY <2>1, <2>2
<1>10. QED
  BY <1>1, <1>2, <1>3, <1>4, <1>8, <1>9 DEF EnrichInv

(* Either list, when its first part was used.                                *)
LEMMA UsedIsKept ==
  ASSUME EnrichInv, stage = "rerank", rerank \in {"returned", "failed"},
         NEW q, Use(q), used' \in Seq(Scored), selected' \in Seq(Scored), ContextIsSound'
  PROVE  EnrichInv'
<1>1. stage' = "done" /\ UNCHANGED <<searchVars, rerankVars>>
  BY DEF Use
<1>2. SearchInv' /\ RerankInv'
  BY <1>1, SearchRests, RerankRests DEF EnrichInv
<1>3. Stages'
  BY <1>1 DEF EnrichInv, Stages, searchVars, rerankVars
<1>4. QED
  BY <1>2, <1>3 DEF EnrichInv

(* The candidates in the order of retrieval are used.                        *)
LEMMA FallsBack ==
  ASSUME EnrichInv, FallBack
  PROVE  EnrichInv'
<1>1. stage = "rerank" /\ rerank = "failed" /\ Use(candidates)
  BY DEF FallBack
<1>2. retrieved
  BY <1>1 DEF EnrichInv, Stages
<1>3. /\ candidates \in Seq(Scored)
      /\ \A i, j \in DOMAIN candidates : candidates[i].id = candidates[j].id => i = j
  BY <1>2, CandidatesDiffer DEF EnrichInv
<1>4. /\ used' = Cut(candidates) /\ used' \in Seq(Scored) /\ Len(used') <= KeepK
      /\ Cardinality({used'[i].id : i \in DOMAIN used'}) = Len(used')
      /\ selected' \in Seq(Scored) /\ ToSet(selected') \subseteq ToSet(used')
  BY <1>1, <1>3, Uses
<1>5. \A i \in DOMAIN used' : i \in DOMAIN candidates /\ used'[i] = candidates[i]
  BY <1>3, <1>4, CutOff
<1>6. {used'[i].id : i \in DOMAIN used'} \subseteq {candidates[i].id : i \in DOMAIN candidates}
  BY <1>5
<1>7. candidates' = candidates /\ rerank' = "failed"
  BY <1>1 DEF Use, searchVars, rerankVars
<1>8. ContextIsSound'
  BY <1>4, <1>6, <1>7 DEF ContextIsSound, Cut
<1>9. QED
  BY <1>1, <1>4, <1>8, UsedIsKept

(* The ranking is used: a chunk that is left out is not better than one that *)
(* is not.                                                                   *)
LEMMA UsesReranked ==
  ASSUME EnrichInv, UseReranked
  PROVE  EnrichInv'
<1>1. stage = "rerank" /\ rerank = "returned"
  BY DEF UseReranked
<1>2. PICK q \in Ranked : Use([i \in DOMAIN q |-> [id |-> chunks[q[i]].id, score |-> score[q[i]]]])
  BY DEF UseReranked
<1>3. PICK Q : Q = [i \in DOMAIN q |-> [id |-> chunks[q[i]].id, score |-> score[q[i]]]]
  OBVIOUS
<1>4. SearchInv /\ RerankInv /\ retrieved /\ chunks = candidates
  BY <1>1 DEF EnrichInv, Stages
<1>5. /\ Len(q) = Cardinality(Filtered) /\ Len(q) \in Nat /\ DOMAIN q = 1 .. Len(q)
      /\ \A i \in DOMAIN q : q[i] \in Filtered
      /\ \A i, j \in DOMAIN q : q[i] = q[j] => i = j
      /\ \A n \in Filtered : \E i \in DOMAIN q : q[i] = n
      /\ \A i, j \in DOMAIN q : i < j => score[q[i]] >= score[q[j]]
      /\ Filtered \subseteq Goroutine
  BY <1>4, RankedOnce
<1>6. /\ \A i, j \in DOMAIN chunks : chunks[i].id = chunks[j].id => i = j
      /\ chunks \in Seq(Scored) /\ Goroutine = DOMAIN chunks /\ Goroutine \in SUBSET Chunk
      /\ score \in [Chunk -> Nat]
  BY <1>4, CandidatesDiffer, RerankTyped DEF Goroutine
<1>7. \A n \in Filtered : n \in DOMAIN chunks /\ chunks[n].id \in Record /\ score[n] \in Nat
  <2>1. \A n \in Filtered : n \in DOMAIN chunks /\ n \in Chunk
    BY <1>5, <1>6
  <2>2. \A n \in DOMAIN chunks : chunks[n] \in Scored
    BY <1>6
  <2>3. \A a \in Scored : a.id \in Record
    BY DEF Scored
  <2>4. QED
    BY <1>6, <2>1, <2>2, <2>3
<1>8. DOMAIN Q = DOMAIN q /\ \A i \in DOMAIN q : Q[i].id = chunks[q[i]].id /\ Q[i].score = score[q[i]]
  BY <1>3
<1>9. Q \in Seq(Scored) /\ Len(Q) = Len(q)
  <2>1. \A i \in DOMAIN q : [id |-> chunks[q[i]].id, score |-> score[q[i]]] \in Scored
    BY <1>5, <1>7 DEF Scored
  <2>2. PICK n : n = Len(q)
    OBVIOUS
  <2>3. Q \in [1 .. n -> Scored] /\ n \in Nat
    BY <1>3, <1>5, <2>1, <2>2
  <2>4. Q \in Seq(Scored) /\ Len(Q) = n
    BY <2>3
  <2>5. QED
    BY <2>2, <2>4
<1>10. \A i, j \in DOMAIN Q : Q[i].id = Q[j].id => i = j
  <2>1. ASSUME NEW i \in DOMAIN q, NEW j \in DOMAIN q, chunks[q[i]].id = chunks[q[j]].id PROVE i = j
    <3>1. q[i] \in DOMAIN chunks /\ q[j] \in DOMAIN chunks
      BY <1>5, <1>7
    <3>2. q[i] = q[j]
      BY <1>6, <2>1, <3>1
    <3>3. QED
      BY <1>5, <3>2
  <2>2. QED
    BY <1>8, <2>1
<1>11. Use(Q)
  BY <1>2, <1>3
<1>12. /\ used' = Cut(Q) /\ used' \in Seq(Scored) /\ Len(used') <= KeepK
       /\ Cardinality({used'[i].id : i \in DOMAIN used'}) = Len(used')
       /\ selected' \in Seq(Scored) /\ ToSet(selected') \subseteq ToSet(used')
  BY <1>9, <1>10, <1>11, Uses
<1>13. PICK u : u = Cut(Q)
  OBVIOUS
<1>14. /\ \A i \in DOMAIN u : i \in DOMAIN Q /\ u[i] = Q[i]
       /\ u \in Seq(Scored) /\ Len(u) = Min({Len(Q), KeepK}) /\ Len(u) \in Nat
       /\ (Len(u) < KeepK => Len(u) = Len(Q)) /\ Len(u) <= KeepK /\ Len(u) <= Len(Q)
  BY <1>9, <1>13, CutOff
<1>15. \A i \in DOMAIN u : i \in DOMAIN q /\ u[i].id = chunks[q[i]].id /\ u[i].score = score[q[i]]
  BY <1>8, <1>14
<1>16. {u[i].id : i \in DOMAIN u} \subseteq {candidates[i].id : i \in DOMAIN candidates}
  BY <1>4, <1>5, <1>7, <1>15
<1>17. ASSUME NEW n \in Filtered, NEW i \in DOMAIN u
       PROVE  chunks[n].id \in {u[j].id : j \in DOMAIN u} \/ score[n] <= u[i].score
  <2>1. PICK j \in DOMAIN q : q[j] = n
    BY <1>5
  <2>2. CASE j \in DOMAIN u
    BY <1>15, <2>1, <2>2
  <2>3. CASE j \notin DOMAIN u
    <3>1. DOMAIN u = 1 .. Len(u)
      BY <1>14
    <3>2. i < j /\ i \in DOMAIN q
      BY <1>5, <1>14, <1>15, <2>3, <3>1
    <3>3. score[q[i]] >= score[n]
      BY <1>5, <2>1, <3>2
    <3>4. score[q[i]] \in Nat /\ score[n] \in Nat
      BY <1>5, <1>7, <3>2
    <3>5. QED
      BY <1>15, <3>3, <3>4
  <2>4. QED
    BY <2>2, <2>3
<1>18. UNCHANGED <<candidates, rerank, scored, score, ctx, chunks>>
  BY <1>11 DEF Use, searchVars, rerankVars
<1>19. Filtered' = Filtered
  BY <1>18 DEF Filtered
<1>20. Cardinality({scored[i] : i \in DOMAIN scored}) >= Min({KeepK, Len(chunks)}) \/ ctx = "timedOut"
  BY <1>1, <1>4 DEF RerankInv, RerankStages, EnoughScored, ToSet
<1>21. Len(u) = Min({KeepK, Cardinality(Filtered)})
  <2>1. {Len(Q), KeepK} = {KeepK, Len(Q)}
    OBVIOUS
  <2>2. Len(u) = Min({KeepK, Len(Q)})
    BY <1>14, <2>1
  <2>3. QED
    BY <1>5, <1>9, <2>2
<1>22. ContextIsSound'
  <2>1. used' = u
    BY <1>12, <1>13
  <2>2. \A n \in Filtered, i \in DOMAIN u : chunks[n].id \in {u[j].id : j \in DOMAIN u} \/ score[n] <= u[i].score
    BY <1>17
  <2>3. QED
    BY <1>1, <1>12, <1>16, <1>18, <1>19, <1>20, <1>21, <2>1, <2>2 DEF ContextIsSound
<1>23. QED
  BY <1>1, <1>11, <1>12, <1>22, UsedIsKept

(* The invariant holds at the beginning.                                     *)
LEMMA EnrichStarts ==
  ASSUME EnrichInit
  PROVE  EnrichInv
<1> USE DEF EnrichInit, RerankInit
<1>1. SearchInv
  BY SearchStarts
<1>2. RerankTypeOK
  BY DEF RerankTypeOK
<1>3. ChunksTyped /\ ResultsOnce /\ EndedAccounted /\ RerankStages
  BY RerankFacts DEF ChunksTyped, ResultsOnce, EndedAccounted, RerankStages, Goroutine, Once, ToSet
<1>4. Stages /\ used \in Seq(Scored) /\ selected \in Seq(Scored) /\ ContextIsSound
  BY DEF Stages, ContextIsSound
<1>5. QED
  BY <1>1, <1>2, <1>3, <1>4 DEF EnrichInv, RerankInv

(* A step of the pipeline keeps it.                                          *)
LEMMA EnrichKept ==
  ASSUME EnrichInv, [EnrichNext]_enrichVars
  PROVE  EnrichInv'
<1>1. CASE Retrieval
  <2>1. stage = "search" /\ SearchNext /\ UNCHANGED <<rerankVars, stage, used, selected>>
    BY <1>1 DEF Retrieval
  <2>2. SearchInv' /\ RerankInv'
    BY <2>1, SearchKept, RerankRests DEF EnrichInv
  <2>3. QED
    BY <2>1, <2>2 DEF EnrichInv, Stages, ContextIsSound, rerankVars
<1>2. CASE BeginRerank
  BY <1>2, BeginsRerank
<1>3. CASE Reranking
  BY <1>3, ReranksOn
<1>4. CASE UseReranked
  BY <1>4, UsesReranked
<1>5. CASE FallBack
  BY <1>5, FallsBack
<1>6. CASE UNCHANGED enrichVars
  <2>1. UNCHANGED searchVars /\ UNCHANGED rerankVars /\ UNCHANGED <<stage, used, selected>>
    BY <1>6 DEF enrichVars
  <2>2. SearchInv' /\ RerankInv'
    BY <2>1, SearchRests, RerankRests DEF EnrichInv
  <2>3. UNCHANGED <<stage, used, selected, candidates, retrieved, rerank, scored, score, ctx, chunks>>
    BY <2>1 DEF searchVars, rerankVars
  <2>4. ContextIsSound' /\ Stages'
    BY <2>3, SoundRests DEF EnrichInv, Stages
  <2>5. QED
    BY <2>2, <2>3, <2>4 DEF EnrichInv
<1>7. QED
  BY <1>1, <1>2, <1>3, <1>4, <1>5, <1>6 DEF EnrichNext

(* It always holds.                                                          *)
LEMMA EnrichInvariant == EnrichSpec => []EnrichInv
<1>1. EnrichInit => EnrichInv
  BY EnrichStarts
<1>2. EnrichInv /\ [EnrichNext]_enrichVars => EnrichInv'
  BY EnrichKept
<1>3. QED
  BY <1>1, <1>2, PTL DEF EnrichSpec

(* Type correctness of search, reranker and pipeline.                        *)
THEOREM EnrichTyped == EnrichSpec => []EnrichTypeOK
<1>1. EnrichInv => EnrichTypeOK
  BY DEF EnrichInv, SearchInv, RerankInv, Stages, EnrichTypeOK
<1>2. QED
  BY <1>1, EnrichInvariant, PTL

(* What retrieval returns names no source twice, the best first, and is      *)
(* short only by what was deleted between scan and fetch, by second records  *)
(* of a source and by failed searches. (RetrieveForIntent,                   *)
(* deduplicateAndTrim)                                                       *)
THEOREM RetrievalIsComplete == EnrichSpec => []CandidatesComplete
<1>1. EnrichInv => CandidatesComplete
  BY DEF EnrichInv, SearchInv
<1>2. QED
  BY <1>1, EnrichInvariant, PTL

(* The context of a prompt is a part of the candidates without repetition:   *)
(* the best of retrieval when the reranker failed; otherwise no chunk above  *)
(* the threshold is passed over for a worse one, and chunks are missing only *)
(* when the time was up. (Enrich, Rerank, buildEnrichment)                   *)
THEOREM ContextSound == EnrichSpec => []ContextIsSound
<1>1. EnrichInv => ContextIsSound
  BY DEF EnrichInv
<1>2. QED
  BY <1>1, EnrichInvariant, PTL
=============================================================================
