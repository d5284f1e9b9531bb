-------------------------- MODULE Diagnosis_proofs --------------------------
(***************************************************************************)
(* Proofs about Diagnosis: the steps of a served runbook keep their names, *)
(* and a gate that passes has seen the true total of its numbers.          *)
(***************************************************************************)
EXTENDS Diagnosis, FiniteSetTheorems, SequenceTheorems, WellFoundedInduction, TLAPS

-----------------------------------------------------------------------------
(* Totals. *)

(* A set with 0 that is closed under successors has all numbers: otherwise *)
(* take the least one that is missing.                                     *)
LEMMA Induction ==
    ASSUME NEW S, 0 \in S, \A n \in Nat : n \in S => n + 1 \in S
    PROVE  Nat \subseteq S
<1> DEFINE T == Nat \ S
<1> SUFFICES ASSUME T # {} PROVE FALSE
  OBVIOUS
<1>1. PICK x \in T : \A y \in T : ~(<<y, x>> \in OpToRel(<, Nat))
  <2>1. T \subseteq Nat
    OBVIOUS
  <2> HIDE DEF T
  <2> QED
    BY <2>1, WFMin, NatLessThanWellFounded, Zenon
<1>2. \A y \in T : ~(y < x)
  BY <1>1 DEF OpToRel
<1>3. x # 0 /\ x \in Nat
  OBVIOUS
<1>4. x - 1 \in Nat /\ x - 1 < x
  BY <1>3
<1>5. x - 1 \in S
  BY <1>2, <1>4
<1> QED
  BY <1>3, <1>4, <1>5

(* The numbers of a NaN-aware sum. *)
LEMMA PlusFacts ==
    \A a, b, c \in Number :
        /\ Plus(a, b) \in Number
        /\ Plus(a, Plus(b, c)) = Plus(b, Plus(a, c))
BY NumberAssumption DEF Number, Plus

(* What a fold takes next, and what it makes of the rest. *)
Pick(T) == CHOOSE x \in T : TRUE
Adding(g, f, T) == IF T = {} THEN 0 ELSE Plus(f[Pick(T)], g[T \ {Pick(T)}])
Sums(g, f, S) == g = [ T \in SUBSET S |-> Adding(g, f, T) ]

(* Total is what such a function says of the whole set. *)
LEMMA TotalIs ==
    ASSUME NEW f, NEW S, \E g : Sums(g, f, S)
    PROVE  \E g : Sums(g, f, S) /\ Total(f, S) = g[S]
<1> DEFINE g == CHOOSE g : Sums(g, f, S)
<1>1. Sums(g, f, S)
  OBVIOUS
<1>2. Total(f, S) = g[S]
  BY DEF Total, FoldFunctionOnSet, MapThenFoldSet, Sums, Adding, Pick
<1> QED
  BY <1>1, <1>2

(* Removing the next element leaves a smaller subset. *)
LEMMA PickSmaller ==
    ASSUME NEW S, IsFiniteSet(S), NEW T \in SUBSET S
    PROVE  /\ IsFiniteSet(T) /\ Cardinality(T) \in Nat
           /\ Cardinality(T) <= Cardinality(S)
           /\ T # {} => /\ Pick(T) \in T
                        /\ T \ {Pick(T)} \in SUBSET S
                        /\ Cardinality(T \ {Pick(T)}) = Cardinality(T) - 1
           /\ Cardinality(T) = 0 <=> T = {}
<1>1. IsFiniteSet(T) /\ Cardinality(T) \in Nat /\ Cardinality(T) <= Cardinality(S)
  BY FS_Subset, FS_CardinalityType
<1>2. T # {} => Pick(T) \in T
  BY DEF Pick
<1>3. T # {} => Cardinality(T \ {Pick(T)}) = Cardinality(T) - 1
  BY <1>1, <1>2, FS_RemoveElement
<1>4. Cardinality(T) = 0 <=> T = {}
  BY <1>1, FS_EmptySet
<1> QED
  BY <1>1, <1>2, <1>3, <1>4

(* There is such a function: right for the sets of up to n elements, for   *)
(* every n.                                                                *)
LEMMA SumsExist ==
    ASSUME NEW f, NEW S, IsFiniteSet(S)
    PROVE  \E g : Sums(g, f, S)
<1> DEFINE Right(g, n) == \A T \in SUBSET S : Cardinality(T) <= n => g[T] = Adding(g, f, T)
           N == { n \in Nat : \E g : Right(g, n) }
<1>1. 0 \in N
  <2> DEFINE g == [ T \in SUBSET S |-> 0 ]
  <2>1. ASSUME NEW T \in SUBSET S, Cardinality(T) <= 0
        PROVE  g[T] = Adding(g, f, T)
    <3>1. Cardinality(T) \in Nat /\ (Cardinality(T) = 0 <=> T = {})
      BY PickSmaller
    <3>2. T = {} /\ g[T] = 0
      BY <2>1, <3>1
    <3> QED
      BY <3>2 DEF Adding
  <2>2. Right(g, 0)
    BY <2>1
  <2> QED
    BY <2>2
<1>2. ASSUME NEW n \in Nat, n \in N
      PROVE  n + 1 \in N
  <2>1. PICK g : Right(g, n)
    BY <1>2
  <2> DEFINE h == [ T \in SUBSET S |-> Adding(g, f, T) ]
  <2>2. ASSUME NEW T \in SUBSET S, Cardinality(T) <= n + 1
        PROVE  h[T] = Adding(h, f, T)
    <3>1. CASE T = {}
      BY <3>1 DEF Adding
    <3>2. CASE T # {}
      <4> DEFINE U == T \ {Pick(T)}
      <4>1. U \in SUBSET S /\ Cardinality(U) = Cardinality(T) - 1 /\ Cardinality(T) \in Nat
        BY <3>2, PickSmaller
      <4>2. Cardinality(U) <= n
        BY <2>2, <4>1
      <4>3. g[U] = Adding(g, f, U)
        BY <2>1, <4>1, <4>2
      <4>4. h[U] = g[U]
        BY <4>1, <4>3
      <4>5. h[T] = Plus(f[Pick(T)], g[U])
        BY <3>2 DEF Adding
      <4> HIDE DEF h
      <4> QED
        BY <3>2, <4>4, <4>5 DEF Adding
    <3> QED
      BY <3>1, <3>2
  <2>3. Right(h, n + 1)
    BY <2>2
  <2> HIDE DEF h, Right
  <2>4. \E k : Right(k, n + 1)
    BY <2>3
  <2> QED
    BY <2>4
<1> HIDE DEF N
<1>3. Nat \subseteq N
  BY <1>1, <1>2, Induction
<1>4. Cardinality(S) \in N
  BY <1>3, FS_CardinalityType
<1>f. \A T \in SUBSET S : Cardinality(T) <= Cardinality(S)
  BY PickSmaller
<1>5. PICK g : Right(g, Cardinality(S))
  BY <1>4 DEF N
<1>6. \A T \in SUBSET S : g[T] = Adding(g, f, T)
  BY <1>5, <1>f
<1> DEFINE h == [ T \in SUBSET S |-> g[T] ]
<1>7. ASSUME NEW T \in SUBSET S
      PROVE  h[T] = Adding(h, f, T)
  <2>1. CASE T = {}
    BY <1>6, <2>1 DEF Adding
  <2>2. CASE T # {}
    <3>1. T \ {Pick(T)} \in SUBSET S
      OBVIOUS
    <3>2. h[T \ {Pick(T)}] = g[T \ {Pick(T)}] /\ h[T] = g[T]
      BY <3>1
    <3> HIDE DEF h
    <3> QED
      BY <1>6, <2>2, <3>2 DEF Adding
  <2> QED
    BY <2>1, <2>2
<1>8. h = [ T \in SUBSET S |-> h[T] ]
  OBVIOUS
<1> HIDE DEF h
<1>9. Sums(h, f, S)
  BY <1>7, <1>8 DEF Sums
<1> QED
  BY <1>9

(* On common subsets, two such functions say the same. *)
LEMMA SumsAgree ==
    ASSUME NEW f, NEW S, IsFiniteSet(S), NEW R \in SUBSET S,
           NEW g, Sums(g, f, S), NEW h, Sums(h, f, R)
    PROVE  g[R] = h[R]
<1> DEFINE N == { n \in Nat : \A T \in SUBSET R : Cardinality(T) = n => g[T] = h[T] }
<1>0. \A T \in SUBSET R : g[T] = Adding(g, f, T) /\ h[T] = Adding(h, f, T)
  BY DEF Sums
<1>1. 0 \in N
  <2>1. ASSUME NEW T \in SUBSET R, Cardinality(T) = 0 PROVE g[T] = h[T]
    <3>1. T = {}
      BY <2>1, PickSmaller
    <3> QED
      BY <1>0, <3>1 DEF Adding
  <2> QED
    BY <2>1
<1>2. ASSUME NEW n \in Nat, n \in N
      PROVE  n + 1 \in N
  <2>1. ASSUME NEW T \in SUBSET R, Cardinality(T) = n + 1
        PROVE  g[T] = h[T]
    <3> DEFINE U == T \ {Pick(T)}
    <3>1. T # {} /\ U \in SUBSET R /\ Cardinality(U) = n
      <4>1. T \in SUBSET S
        OBVIOUS
      <4> QED
        BY <2>1, <4>1, PickSmaller
    <3>2. g[U] = h[U]
      BY <1>2, <3>1
    <3> QED
      BY <1>0, <3>1, <3>2 DEF Adding
  <2> QED
    BY <2>1
<1> HIDE DEF N
<1>3. Nat \subseteq N
  BY <1>1, <1>2, Induction
<1>4. Cardinality(R) \in Nat
  BY PickSmaller
<1> QED
  BY <1>3, <1>4 DEF N

(* The total of nothing, and of the next number and the rest. *)
LEMMA TotalPick ==
    ASSUME NEW f, NEW S, IsFiniteSet(S)
    PROVE  /\ S = {} => Total(f, S) = 0
           /\ S # {} => Total(f, S) = Plus(f[Pick(S)], Total(f, S \ {Pick(S)}))
<1>1. PICK g : Sums(g, f, S) /\ Total(f, S) = g[S]
  BY SumsExist, TotalIs
<1>2. S = {} => Total(f, S) = 0
  BY <1>1 DEF Sums, Adding
<1>3. ASSUME S # {}
      PROVE  Total(f, S) = Plus(f[Pick(S)], Total(f, S \ {Pick(S)}))
  <2> DEFINE R == S \ {Pick(S)}
  <2>1. R \in SUBSET S /\ IsFiniteSet(R)
    BY FS_Subset
  <2>2. PICK h : Sums(h, f, R) /\ Total(f, R) = h[R]
    BY <2>1, SumsExist, TotalIs
  <2>3. g[R] = h[R]
    BY <1>1, <2>1, <2>2, SumsAgree
  <2>4. g[S] = Plus(f[Pick(S)], g[R])
    BY <1>1, <1>3 DEF Sums, Adding
  <2> QED
    BY <1>1, <2>2, <2>3, <2>4
<1> QED
  BY <1>2, <1>3

(* The total is a number. *)
LEMMA TotalType ==
    ASSUME NEW f, NEW S, IsFiniteSet(S), \A x \in S : f[x] \in Number
    PROVE  Total(f, S) \in Number
<1> DEFINE N == { n \in Nat : \A T \in SUBSET S : Cardinality(T) = n => Total(f, T) \in Number }
<1>1. 0 \in N
  <2>1. ASSUME NEW T \in SUBSET S, Cardinality(T) = 0 PROVE Total(f, T) \in Number
    <3>1. T = {} /\ IsFiniteSet(T)
      BY <2>1, PickSmaller
    <3>2. Total(f, T) = 0
      BY <3>1, TotalPick
    <3> QED
      BY <3>2 DEF Number
  <2> QED
    BY <2>1
<1>2. ASSUME NEW n \in Nat, n \in N
      PROVE  n + 1 \in N
  <2>1. ASSUME NEW T \in SUBSET S, Cardinality(T) = n + 1
        PROVE  Total(f, T) \in Number
    <3> DEFINE U == T \ {Pick(T)}
    <3>0. IsFiniteSet(T) /\ T # {}
      <4>1. IsFiniteSet(T) /\ (Cardinality(T) = 0 <=> T = {})
        BY PickSmaller
      <4>2. Cardinality(T) # 0
        BY <2>1
      <4> QED
        BY <4>1, <4>2
    <3>1. T # {} /\ IsFiniteSet(T) /\ Pick(T) \in S /\ U \in SUBSET S /\ Cardinality(U) = n
      BY <2>1, <3>0, PickSmaller
    <3>2. Total(f, U) \in Number /\ f[Pick(T)] \in Number
      BY <1>2, <3>1
    <3>3. Total(f, T) = Plus(f[Pick(T)], Total(f, U))
      BY <3>1, TotalPick
    <3> QED
      BY <3>2, <3>3, PlusFacts
  <2> QED
    BY <2>1
<1> HIDE DEF N
<1>3. Nat \subseteq N
  BY <1>1, <1>2, Induction
<1>4. Cardinality(S) \in Nat
  BY PickSmaller
<1> QED
  BY <1>3, <1>4 DEF N

(* The order of the numbers does not matter: any of them may be the first. *)
LEMMA TotalAny ==
    ASSUME NEW f, NEW S, IsFiniteSet(S), \A x \in S : f[x] \in Number,
           NEW x \in S
    PROVE  Total(f, S) = Plus(f[x], Total(f, S \ {x}))
<1> DEFINE N == { n \in Nat : \A T \in SUBSET S : Cardinality(T) = n =>
                                \A y \in T : Total(f, T) = Plus(f[y], Total(f, T \ {y})) }
<1>1. 0 \in N
  <2>1. \A T \in SUBSET S : Cardinality(T) = 0 => T = {}
    BY PickSmaller
  <2> QED
    BY <2>1
<1>2. ASSUME NEW n \in Nat, n \in N
      PROVE  n + 1 \in N
  <2>1. ASSUME NEW T \in SUBSET S, Cardinality(T) = n + 1, NEW y \in T
        PROVE  Total(f, T) = Plus(f[y], Total(f, T \ {y}))
    <3> DEFINE p == Pick(T)
    <3>1. T # {} /\ IsFiniteSet(T) /\ p \in T /\ Cardinality(T \ {p}) = n
      BY <2>1, PickSmaller
    <3>2. Total(f, T) = Plus(f[p], Total(f, T \ {p}))
      BY <3>1, TotalPick
    <3> HIDE DEF p
    <3>3. CASE y = p
      BY <3>2, <3>3
    <3>4. CASE y # p
      <4> DEFINE R == (T \ {p}) \ {y}
      <4>1. R = (T \ {y}) \ {p} /\ y \in T \ {p} /\ p \in T \ {y}
        BY <3>1, <3>4
      <4>2. Cardinality(T \ {y}) = n
        BY <2>1, <3>1, FS_RemoveElement
      <4>3. Total(f, T \ {p}) = Plus(f[y], Total(f, R))
        BY <1>2, <3>1, <4>1
      <4>4. Total(f, T \ {y}) = Plus(f[p], Total(f, R))
        BY <1>2, <4>1, <4>2
      <4>5. IsFiniteSet(R) /\ R \subseteq S
        BY <3>1, FS_Subset
      <4>6. f[y] \in Number /\ f[p] \in Number /\ Total(f, R) \in Number
        BY <3>1, <4>5, TotalType
      <4> HIDE DEF R
      <4>7. Plus(f[p], Plus(f[y], Total(f, R))) = Plus(f[y], Plus(f[p], Total(f, R)))
        BY <4>6, PlusFacts
      <4> QED
        BY <3>2, <4>3, <4>4, <4>7
    <3> QED
      BY <3>3, <3>4
  <2> QED
    BY <2>1
<1> HIDE DEF N
<1>3. Nat \subseteq N
  BY <1>1, <1>2, Induction
<1>4. Cardinality(S) \in Nat
  BY PickSmaller
<1> QED
  BY <1>3, <1>4 DEF N

(* Numbers may be added up under other names. *)
LEMMA TotalRenamed ==
    ASSUME NEW S, IsFiniteSet(S), NEW f, NEW g, NEW h,
           \A x, y \in S : h[x] = h[y] => x = y,
           \A x \in S : f[x] = g[h[x]] /\ f[x] \in Number
    PROVE  Total(f, S) = Total(g, { h[x] : x \in S })
<1> DEFINE Image(T) == { h[x] : x \in T }
           N == { n \in Nat : \A T \in SUBSET S :
                     Cardinality(T) = n =>
                         IsFiniteSet(Image(T)) /\ Total(f, T) = Total(g, Image(T)) }
<1>1. 0 \in N
  <2>1. ASSUME NEW T \in SUBSET S, Cardinality(T) = 0
        PROVE  IsFiniteSet(Image(T)) /\ Total(f, T) = Total(g, Image(T))
    <3>0. T = {} /\ IsFiniteSet({})
      BY <2>1, PickSmaller
    <3>1. T = {} /\ Image(T) = {} /\ IsFiniteSet({})
      BY <3>0
    <3> HIDE DEF Image
    <3>2. Total(f, {}) = 0 /\ Total(g, {}) = 0
      BY <3>1, TotalPick
    <3> QED
      BY <3>1, <3>2
  <2> QED
    BY <2>1
<1>2. ASSUME NEW n \in Nat, n \in N
      PROVE  n + 1 \in N
  <2>1. ASSUME NEW T \in SUBSET S, Cardinality(T) = n + 1
        PROVE  IsFiniteSet(Image(T)) /\ Total(f, T) = Total(g, Image(T))
    <3>0. IsFiniteSet(T) /\ T # {}
      <4>1. IsFiniteSet(T) /\ (Cardinality(T) = 0 <=> T = {})
        BY PickSmaller
      <4>2. Cardinality(T) # 0
        BY <2>1
      <4> QED
        BY <4>1, <4>2
    <3> DEFINE x == Pick(T)
               U == T \ {x}
    <3>1. x \in T /\ x \in S /\ U \in SUBSET S /\ Cardinality(U) = n
      BY <2>1, <3>0, PickSmaller
    <3>2. Total(f, T) = Plus(f[x], Total(f, U))
      BY <3>0, TotalPick
    <3> HIDE DEF x
    <3>3. h[x] \in Image(T) /\ Image(T) \ {h[x]} = Image(U) /\ Image(T) = Image(U) \cup {h[x]}
      BY <3>1
    <3>4. IsFiniteSet(Image(U)) /\ IsFiniteSet(Image(T))
      <4>1. IsFiniteSet(Image(U))
        BY <1>2, <3>1
      <4> HIDE DEF Image
      <4>2. IsFiniteSet(Image(U) \cup {h[x]})
        BY <4>1, FS_AddElement
      <4> QED
        BY <3>3, <4>1, <4>2
    <3>5. \A i \in Image(T) : g[i] \in Number
      OBVIOUS
    <3>6. f[x] = g[h[x]] /\ Total(f, U) = Total(g, Image(U))
      BY <1>2, <3>1
    <3> HIDE DEF Image, U
    <3>7. Total(g, Image(T)) = Plus(g[h[x]], Total(g, Image(U)))
      BY <3>3, <3>4, <3>5, TotalAny
    <3> QED
      BY <3>2, <3>4, <3>6, <3>7
  <2> QED
    BY <2>1
<1> HIDE DEF N
<1>3. Nat \subseteq N
  BY <1>1, <1>2, Induction
<1>4. Cardinality(S) \in Nat
  BY PickSmaller
<1> QED
  BY <1>3, <1>4 DEF N

-----------------------------------------------------------------------------
(* What a gate sees. *)

(* The readable series of a matrix, and their numeric points. *)
LEMMA MatrixTyped ==
    ASSUME NEW res \in Matrix
    PROVE  /\ IsFiniteSet(Readable(res))
           /\ \A k \in Readable(res) :
                 /\ \A p \in NumericPoints(res[k]) : p.t \in Int /\ p.v \in Number
                 /\ \A p, q \in NumericPoints(res[k]) : p.t = q.t => p = q
<1>1. res \in Seq({Bad} \cup Series)
  BY DEF Matrix
<1>2. DOMAIN res = 1..Len(res) /\ Len(res) \in Nat
  BY <1>1, LenProperties
<1>3. Readable(res) \in SUBSET (1..Len(res)) /\ IsFiniteSet(1..Len(res))
  BY <1>2, FS_Interval DEF Readable
<1>4. \A k \in Readable(res) : res[k] \in Series
  <2>1. \A k \in 1..Len(res) : res[k] \in {Bad} \cup Series
    BY <1>1, ElementOfSeq
  <2> QED
    BY <1>2, <2>1 DEF Readable
<1>5. \A ps \in Series :
         /\ \A p \in NumericPoints(ps) : p.t \in Int /\ p.v \in Number
         /\ \A p, q \in NumericPoints(ps) : p.t = q.t => p = q
  BY DEF Series, NumericPoints
<1> QED
  BY <1>3, <1>4, <1>5, FS_Subset

(* Series that end together: the sums at the last time add up their last   *)
(* numbers.                                                                *)
LEMMA LastSumIsTotal ==
    ASSUME NEW res \in Matrix, NEW t \in Int, Readable(res) # {},
           \A k \in Readable(res) :
              /\ \E p \in NumericPoints(res[k]) : p.t = t
              /\ \A p \in NumericPoints(res[k]) : p.t <= t
    PROVE  LET ys == byTS(res)
           IN  ys[Latest(ys)] = Total([ k \in Readable(res) |-> LastOf(res[k]) ], Readable(res))
<1> DEFINE R == Readable(res)
           P(k) == CHOOSE p \in NumericPoints(res[k]) : p.t = t
           h == [ k \in R |-> <<k, P(k)>> ]
           f == [ k \in R |-> LastOf(res[k]) ]
           g == [ q \in Points(res) |-> q[2].v ]
           ys == byTS(res)
<1>1. \A k \in R : P(k) \in NumericPoints(res[k]) /\ P(k).t = t
  OBVIOUS
<1>2. \A k \in R : \A p \in NumericPoints(res[k]) : p.t \in Int /\ p.v \in Number /\ p.t <= t
  BY MatrixTyped
<1>3. \A k \in R : \A p \in NumericPoints(res[k]) : p.t = t => p = P(k)
  BY <1>1, MatrixTyped
<1> HIDE DEF P
<1>4. \A k \in R : LastOf(res[k]) = P(k).v
  <2> SUFFICES ASSUME NEW k \in R PROVE LastOf(res[k]) = P(k).v
    OBVIOUS
  <2> DEFINE ps == NumericPoints(res[k])
             Is(p) == \A q \in ps : q.t <= p.t
  <2>1. P(k) \in ps /\ Is(P(k))
    BY <1>1, <1>2
  <2>2. \A p \in ps : Is(p) => p = P(k)
    <3> SUFFICES ASSUME NEW p \in ps, Is(p) PROVE p = P(k)
      OBVIOUS
    <3>1. t <= p.t /\ p.t <= t /\ p.t \in Int
      BY <1>1, <1>2
    <3>2. p.t = t
      BY <3>1
    <3> QED
      BY <1>3, <3>2
  <2> QED
    BY <2>1, <2>2 DEF LastOf
<1>5. \A q \in Points(res) : q = <<q[1], q[2]>> /\ q[1] \in R /\ q[2] \in NumericPoints(res[q[1]])
  BY DEF Points
<1>6. \A k \in R : \A p \in NumericPoints(res[k]) : <<k, p>> \in Points(res)
  BY DEF Points
<1>7. { h[k] : k \in R } = { q \in Points(res) : q[2].t = t }
  <2>1. \A k \in R : h[k] \in Points(res) /\ h[k][2].t = t
    BY <1>1, <1>6
  <2>2. ASSUME NEW q \in Points(res), q[2].t = t
        PROVE  q[1] \in R /\ q = h[q[1]]
    BY <1>3, <1>5, <2>2
  <2> HIDE DEF R, h
  <2>3. { h[k] : k \in R } \subseteq { q \in Points(res) : q[2].t = t }
    BY <2>1
  <2>4. { q \in Points(res) : q[2].t = t } \subseteq { h[k] : k \in R }
    BY <2>2
  <2> QED
    BY <2>3, <2>4
<1>8. Total(f, R) = Total(g, { h[k] : k \in R })
  <2>1. IsFiniteSet(R)
    BY MatrixTyped
  <2>2. \A k, l \in R : h[k] = h[l] => k = l
    OBVIOUS
  <2>3. \A k \in R : f[k] = g[h[k]] /\ f[k] \in Number
    BY <1>1, <1>2, <1>4, <1>6
  <2> HIDE DEF R, h, f, g
  <2> QED
    BY <2>1, <2>2, <2>3, TotalRenamed
<1>9. DOMAIN ys = { q[2].t : q \in Points(res) }
  BY DEF byTS
<1>10. t \in DOMAIN ys /\ \A u \in DOMAIN ys : u \in Int /\ u <= t
  <2>1. PICK k \in R : TRUE
    OBVIOUS
  <2>2. <<k, P(k)>> \in Points(res) /\ <<k, P(k)>>[2].t = t
    BY <1>1, <1>6
  <2>3. t \in DOMAIN ys
    BY <1>9, <2>2
  <2>4. \A q \in Points(res) : q[2].t \in Int /\ q[2].t <= t
    BY <1>2, <1>5
  <2> QED
    BY <1>9, <2>3, <2>4
<1>11. Latest(ys) = t
  <2> HIDE DEF ys
  <2>1. \A u \in DOMAIN ys : (\A w \in DOMAIN ys : w <= u) => u = t
    BY <1>10
  <2> QED
    BY <1>10, <2>1 DEF Latest
<1>12. ys[t] = Total(g, { q \in Points(res) : q[2].t = t })
  BY <1>9, <1>10 DEF byTS
<1> QED
  BY <1>7, <1>8, <1>11, <1>12

(* The "value" of aligned data is its true total. *)
LEMMA ValueIsTotal ==
    ASSUME NEW answer, answer.type = "matrix" => answer.result \in Matrix, Aligned(answer),
           NEW range, NEW sig,
           sig = parseLokiSignals(range, answer) \/ sig = prometheusSignals(range, answer),
           "value" \in DOMAIN sig
    PROVE  sig["value"] = TrueTotal(answer)
<1> DEFINE res == answer.result
<1>0. DOMAIN NoSignals = {} 
  BY DEF NoSignals
<1>1. \/ answer.type = "streams" /\ sig = parseStreams(res)
      \/ answer.type = "vector" /\ sig = parseVector(res)
      \/ answer.type = "matrix" /\ sig = parseMatrix(res)
  BY <1>0 DEF parseLokiSignals, prometheusSignals
<1>2. CASE answer.type = "streams" /\ sig = parseStreams(res)
  BY <1>2 DEF parseStreams, TrueTotal
<1>3. CASE answer.type = "vector" /\ sig = parseVector(res)
  BY <1>0, <1>3 DEF parseVector, TrueTotal
<1>4. CASE answer.type = "matrix" /\ sig = parseMatrix(res)
  <2>1. PICK t \in UNION { { p.t : p \in NumericPoints(res[k]) } : k \in Readable(res) } :
            \A k \in Readable(res) :
                /\ \E p \in NumericPoints(res[k]) : p.t = t
                /\ \A p \in NumericPoints(res[k]) : p.t <= t
    BY <1>4 DEF Aligned
  <2>2. t \in Int /\ Readable(res) # {} /\ res \in Matrix
    BY <1>4, <2>1, MatrixTyped
  <2> DEFINE ys == byTS(res)
             min == Extreme(ys, Less)
             max == Extreme(ys, LAMBDA a, b : Less(b, a))
  <2>3. sig["value"] = ys[Latest(ys)]
    <3>1. sig = [ value |-> ys[Latest(ys)], last |-> ys[Latest(ys)], min |-> min, max |-> max,
                  avg |-> Average(ys), samples |-> Cardinality(DOMAIN ys),
                  series |-> Cardinality(Readable(res)) ]
      BY <1>0, <1>4, Zenon DEF parseMatrix
    <3> HIDE DEF ys, min, max
    <3> QED
      BY <3>1
  <2>4. ys[Latest(ys)] = Total([ k \in Readable(res) |-> LastOf(res[k]) ], Readable(res))
    BY <2>1, <2>2, LastSumIsTotal
  <2>5. TrueTotal(answer) = Total([ k \in Readable(res) |-> LastOf(res[k]) ], Readable(res))
    BY <1>4 DEF TrueTotal
  <2> QED
    BY <2>3, <2>4, <2>5
<1> QED
  BY <1>1, <1>2, <1>3, <1>4

-----------------------------------------------------------------------------
(* The names of steps. *)

(* A name put behind a prefix is within it, and keeps its identity. *)
LEMMA Prefixed ==
    ASSUME NEW S, NEW prefix \in Seq(S), NEW a \in Seq(S), NEW b \in Seq(S)
    PROVE  /\ a # <<>> => Within(prefix \o a, prefix)
           /\ prefix \o a = prefix \o b => a = b
<1> DEFINE n == Len(prefix)
           s == prefix \o a
           t == prefix \o b
<1>1. /\ s \in Seq(S) /\ Len(s) = n + Len(a) /\ n \in Nat /\ Len(a) \in Nat
      /\ \A i \in 1..n : s[i] = prefix[i]
      /\ \A i \in 1..Len(a) : s[n + i] = a[i]
  OBVIOUS
<1>2. /\ t \in Seq(S) /\ Len(t) = n + Len(b) /\ Len(b) \in Nat
      /\ \A i \in 1..Len(b) : t[n + i] = b[i]
  OBVIOUS
<1>3. ASSUME a # <<>> PROVE Within(s, prefix)
  <2>1. Len(a) > 0
    BY <1>3, <1>1, EmptySeq
  <2>2. SubSeq(prefix, 1, n) = SubSeq(s, 1, n)
    <3>1. SubSeq(prefix, 1, n) = [ i \in 1..n |-> prefix[i] ]
      BY <1>1
    <3>2. SubSeq(s, 1, n) = [ i \in 1..n |-> s[i] ]
      BY <1>1
    <3> HIDE DEF s, n
    <3> QED
      BY <1>1, <3>1, <3>2
  <2>3. n <= Len(s) /\ s # prefix
    BY <1>1, <2>1
  <2> QED
    BY <2>2, <2>3 DEF Within, IsPrefix
<1>4. ASSUME s = t PROVE a = b
  <2>1. Len(a) = Len(b)
    <3> HIDE DEF s, t, n
    <3> QED
      BY <1>1, <1>2, <1>4
  <2>2. \A i \in 1..Len(a) : a[i] = b[i]
    <3> HIDE DEF s, t, n
    <3> QED
      BY <1>1, <1>2, <1>4, <2>1
  <2> QED
    BY <2>1, <2>2, SeqEqual
<1> QED
  BY <1>3, <1>4

(* The task's variables, and its runbook. *)
Rendered(rb, service) == NormalizeIDs(Render(rb, [ x \in {"{{service}}"} |-> service ]))

(* What becomes of a step, and of its id. *)
Prepared(rb, service, s) ==
    normalizeStepID(Namespace(rb), renderStep(s, [ x \in {"{{service}}"} |-> service ]))

NamedIn(rb, id) ==
    IF Within(id.names, Namespace(rb)) THEN id ELSE Plain(Namespace(rb) \o id.names)

(* A step keeps everything but its id and the text of its query. *)
LEMMA PreparedStep ==
    ASSUME NEW rb \in Runbook, NEW service \in STRING, NEW s \in RunbookStep
    PROVE  /\ Namespace(rb) \in Seq(Names)
           /\ Prepared(rb, service, s) \in RunbookStep
           /\ Prepared(rb, service, s).ID = NamedIn(rb, s.ID)
<1> DEFINE v == [ x \in {"{{service}}"} |-> service ]
           r == renderStep(s, v)
           text == Replace(s.query.text, v)
<1>1. Namespace(rb) \in Seq(Names)
  BY DEF Runbook, ID, Namespace
<1>2. text \in STRING
  BY DEF Replace, RunbookStep, Query
<1>3. r = [ s EXCEPT !.query = [ s.query EXCEPT !.text = text ] ]
  BY DEF renderStep, RunbookStep, Query
<1> HIDE DEF text
<1>4. [ s.query EXCEPT !.text = text ] \in Query
  BY <1>2 DEF RunbookStep, Query
<1>5. r \in RunbookStep /\ r.ID = s.ID
  <2> DEFINE q == [ s.query EXCEPT !.text = text ]
  <2> HIDE DEF q
  <2>1. q \in Query /\ r = [ s EXCEPT !.query = q ]
    BY <1>3, <1>4 DEF q
  <2> QED
    BY <2>1 DEF RunbookStep
<1> HIDE DEF r
<1>6. Plain(Namespace(rb) \o s.ID.names) \in ID
  BY <1>1 DEF RunbookStep, ID, Plain
<1>7. Prepared(rb, service, s) = [ r EXCEPT !.ID = NamedIn(rb, s.ID) ]
  BY <1>5 DEF Prepared, normalizeStepID, NamedIn, RunbookStep, r
<1>8. NamedIn(rb, s.ID) \in ID
  BY <1>6 DEF NamedIn, RunbookStep
<1> QED
  BY <1>1, <1>5, <1>7, <1>8 DEF RunbookStep

(* What is served of a runbook, step by step. *)
LEMMA ServedSteps ==
    ASSUME NEW rb \in Runbook, NEW service \in STRING
    PROVE  LET s == Rendered(rb, service)
           IN  /\ s \in Runbook
               /\ s.ID = rb.ID /\ s.Version = rb.Version
               /\ Len(Steps(s)) = Len(Steps(rb))
               /\ Steps(rb) \in Seq(RunbookStep)
               /\ Steps(s) \in Seq(RunbookStep)
               /\ \A i \in 1..Len(Steps(rb)) : Steps(s)[i].ID = NamedIn(rb, Steps(rb)[i].ID)
<1> DEFINE s == Rendered(rb, service)
           ds == rb.Diagnostics
           as == rb.Actions
           D == [ i \in DOMAIN ds |-> Prepared(rb, service, ds[i]) ]
           A == [ i \in DOMAIN as |-> Prepared(rb, service, as[i]) ]
<1>1. /\ ds \in Seq(RunbookStep) /\ as \in Seq(RunbookStep)
      /\ DOMAIN ds = 1..Len(ds) /\ DOMAIN as = 1..Len(as)
      /\ Len(ds) \in Nat /\ Len(as) \in Nat
  BY DEF Runbook
<1>2. /\ \A i \in DOMAIN ds : ds[i] \in RunbookStep
      /\ \A i \in DOMAIN as : as[i] \in RunbookStep
  BY <1>1, ElementOfSeq
<1>3. s = [ rb EXCEPT !.Diagnostics = D, !.Actions = A ]
  BY DEF Rendered, Render, NormalizeIDs, Prepared, Namespace, Runbook
<1>4. /\ \A i \in DOMAIN ds : D[i] \in RunbookStep /\ D[i].ID = NamedIn(rb, ds[i].ID)
      /\ \A i \in DOMAIN as : A[i] \in RunbookStep /\ A[i].ID = NamedIn(rb, as[i].ID)
  BY <1>2, PreparedStep
<1>5. D \in Seq(RunbookStep) /\ Len(D) = Len(ds)
  <2>1. D \in [ 1..Len(ds) -> RunbookStep ]
    BY <1>1, <1>4
  <2> QED
    BY <1>1, <2>1, SeqDef, LenProperties
<1>6. A \in Seq(RunbookStep) /\ Len(A) = Len(as)
  <2>1. A \in [ 1..Len(as) -> RunbookStep ]
    BY <1>1, <1>4
  <2> QED
    BY <1>1, <2>1, SeqDef, LenProperties
<1> HIDE DEF D, A
<1>7. s \in Runbook /\ s.ID = rb.ID /\ s.Version = rb.Version /\ Steps(s) = D \o A
  BY <1>3, <1>5, <1>6 DEF Runbook, Steps
<1>8. /\ Steps(rb) \in Seq(RunbookStep) /\ Len(Steps(rb)) = Len(ds) + Len(as)
      /\ \A i \in 1..Len(Steps(rb)) :
            Steps(rb)[i] = IF i <= Len(ds) THEN ds[i] ELSE as[i - Len(ds)]
  BY <1>1, ConcatProperties DEF Steps
<1>9. /\ D \o A \in Seq(RunbookStep) /\ Len(D \o A) = Len(ds) + Len(as)
      /\ \A i \in 1..Len(D \o A) :
            (D \o A)[i] = IF i <= Len(ds) THEN D[i] ELSE A[i - Len(ds)]
  <2>1. /\ D \o A \in Seq(RunbookStep) /\ Len(D \o A) = Len(D) + Len(A)
        /\ \A i \in 1..Len(D \o A) :
              (D \o A)[i] = IF i <= Len(D) THEN D[i] ELSE A[i - Len(D)]
    <3> HIDE DEF s, ds, as
    <3>1. \A a, b \in Seq(RunbookStep) :
             /\ a \o b \in Seq(RunbookStep) /\ Len(a \o b) = Len(a) + Len(b)
             /\ \A i \in 1..Len(a) + Len(b) :
                   (a \o b)[i] = IF i <= Len(a) THEN a[i] ELSE b[i - Len(a)]
      BY ConcatProperties, Zenon
    <3> QED
      BY <1>5, <1>6, <3>1
  <2> QED
    BY <1>5, <1>6, <2>1
<1> HIDE DEF s, ds, as
<1>10. ASSUME NEW i \in 1..Len(Steps(rb))
       PROVE  Steps(s)[i].ID = NamedIn(rb, Steps(rb)[i].ID)
  <2> DEFINE m == Len(ds)
             k == Len(as)
  <2>3. m \in Nat /\ k \in Nat /\ Len(Steps(rb)) = m + k /\ Len(D \o A) = m + k
    BY <1>1, <1>8, <1>9
  <2>0. i \in Nat /\ 1 <= i /\ i <= m + k /\ i \in 1..Len(D \o A)
    <3> HIDE DEF m, k
    <3> QED
      BY <2>3
  <2>1. CASE i <= m
    <3>1. i \in DOMAIN ds
      BY <1>1, <2>0, <2>1
    <3>2. Steps(s)[i] = D[i] /\ Steps(rb)[i] = ds[i]
      BY <1>7, <1>8, <1>9, <2>0, <2>1
    <3> QED
      BY <1>4, <3>1, <3>2
  <2>2. CASE ~(i <= m)
    <3>1. i - Len(ds) \in DOMAIN as
      <4>1. DOMAIN as = 1..k
        BY <1>1
      <4> HIDE DEF m, k
      <4>2. i - m \in 1..k
        BY <2>3, <2>0, <2>2
      <4> QED
        BY <4>1, <4>2 DEF m
    <3>2. Steps(s)[i] = A[i - Len(ds)] /\ Steps(rb)[i] = as[i - Len(ds)]
      BY <1>7, <1>8, <1>9, <2>0, <2>2
    <3> QED
      BY <1>4, <3>1, <3>2
  <2> QED
    BY <2>1, <2>2
<1> QED
  BY <1>7, <1>8, <1>9, <1>10 DEF s, ds, as

(* A valid runbook's steps are served with ids in its namespace, and with  *)
(* an id each if the file's ids are well named.                            *)
LEMMA ServedNames ==
    ASSUME NEW rb \in Runbook, NEW service \in STRING, ValidateRunbook(rb)
    PROVE  LET s == Rendered(rb, service)
           IN  /\ \A i \in DOMAIN Steps(s) : Within(Steps(s)[i].ID.names, Namespace(s))
               /\ WellNamed(rb) => DistinctIDs(Steps(s))
<1> DEFINE s == Rendered(rb, service)
           n == Len(Steps(rb))
           id(i) == Steps(rb)[i].ID
<1>1. /\ s.ID = rb.ID /\ s.Version = rb.Version
      /\ DOMAIN Steps(rb) = 1..n /\ DOMAIN Steps(s) = 1..n
      /\ \A i \in 1..n : Steps(s)[i].ID = NamedIn(rb, id(i))
  BY ServedSteps
<1>2. \A i \in 1..n : id(i) \in ID /\ id(i).names # <<>>
  <2>1. \A i \in 1..n : Steps(rb)[i] \in RunbookStep
    BY ServedSteps, ElementOfSeq
  <2> QED
    BY <1>1, <2>1 DEF ValidateRunbook, ValidStep, Blank, RunbookStep
<1>3. Namespace(s) = Namespace(rb) /\ Namespace(rb) \in Seq(Names)
  BY <1>1 DEF Namespace, Runbook, ID
<1> HIDE DEF s, n, id
<1>p. \A a, b \in Seq(Names) :
         /\ a # <<>> => Within(Namespace(rb) \o a, Namespace(rb))
         /\ Namespace(rb) \o a = Namespace(rb) \o b => a = b
  BY <1>3, Prefixed
<1>4. ASSUME NEW i \in 1..n
      PROVE  Within(Steps(s)[i].ID.names, Namespace(s))
  <2>1. id(i).names \in Seq(Names) /\ id(i).names # <<>>
    BY <1>2 DEF ID
  <2>2. Within(Namespace(rb) \o id(i).names, Namespace(rb))
    BY <1>p, <2>1
  <2>3. Within(NamedIn(rb, id(i)).names, Namespace(rb))
    BY <2>2 DEF NamedIn, Plain
  <2> QED
    BY <1>1, <1>3, <2>3
<1>5. ASSUME WellNamed(rb), NEW i \in 1..n, NEW j \in 1..n, Steps(s)[i].ID = Steps(s)[j].ID
      PROVE  i = j
  <2>1. /\ ~id(i).pad /\ ~Within(id(i).names, Namespace(rb))
        /\ ~id(j).pad /\ ~Within(id(j).names, Namespace(rb))
    BY <1>1, <1>5 DEF WellNamed, id
  <2>2. Plain(Namespace(rb) \o id(i).names) = Plain(Namespace(rb) \o id(j).names)
    BY <1>1, <1>5, <2>1 DEF NamedIn
  <2>3. Namespace(rb) \o id(i).names = Namespace(rb) \o id(j).names
    BY <2>2 DEF Plain
  <2>4. id(i).names = id(j).names
    BY <1>2, <1>p, <2>3 DEF ID
  <2>5. id(i) = id(j)
    BY <1>2, <2>1, <2>4 DEF ID
  <2> QED
    BY <1>1, <2>5 DEF ValidateRunbook, DistinctIDs, id
<1> QED
  BY <1>1, <1>4, <1>5 DEF DistinctIDs, s

-----------------------------------------------------------------------------
(* The inductive invariant. *)

Outputs == { execute(c, s.query, a) : c \in Configured, s \in RunbookStep, a \in Answers }
           \cup {Degraded}

Entry == [ step : RunbookStep, answer : Answers \cup {NoAnswer}, out : Outputs,
           verdict : {"passed", "failed", "error"} ]

TypeInv ==
    /\ pc \in {"load", "ask", "diagnose", "act", "closed"}
    /\ dir \in Dirs /\ configured \in Configured
    /\ served.Diagnostics \in Seq(RunbookStep)
    /\ seen \in Seq(Entry)

(* A running agent has loaded a valid directory. *)
Library == pc \in {"ask", "diagnose", "act"} => Loads(dir) /\ rbs = LoadDir(dir)

(* The runbook of a task is one of its files, rendered for the task. *)
Served ==
    pc \in {"diagnose", "act"} =>
        \E rb \in LoadDir(dir), service \in Services : served = Rendered(rb, service)

(* A judgement that passed: the step's query was executed, and its gate    *)
(* held of the output.                                                     *)
Judgement(e) ==
    /\ e.answer \in Answers
    /\ e.out = execute(configured, e.step.query, e.answer)
    /\ Encodable(e.out)
    /\ evalDiagnosticGate(e.step, Judged(e.step, e.out))

(* The entries so far are those of the first diagnostics, in their order;  *)
(* after one that failed nothing is asked, and none is missing when the    *)
(* actions begin.                                                          *)
Seen ==
    /\ pc \in {"load", "ask"} => seen = <<>>
    /\ Len(seen) <= Len(served.Diagnostics)
    /\ \A n \in 1..Len(seen) :
          /\ seen[n].step = served.Diagnostics[n]
          /\ seen[n].verdict = "passed" => Judgement(seen[n])
          /\ pc \in {"diagnose", "act"} => seen[n].verdict # "failed"
    /\ pc = "act" => Len(seen) = Len(served.Diagnostics)

IInv == TypeInv /\ Library /\ Served /\ Seen

(* A loaded runbook is well-formed and valid, and what is served of it has *)
(* its diagnostics typed.                                                  *)
LEMMA LoadedRunbook ==
    ASSUME NEW d \in Dirs, Loads(d), NEW rb \in LoadDir(d), NEW service \in Services
    PROVE  /\ rb \in Runbook /\ ValidateRunbook(rb)
           /\ Rendered(rb, service).Diagnostics \in Seq(RunbookStep)
<1>1. rb \in Runbook /\ ValidateRunbook(rb)
  BY DiagnosisAssumption DEF Loads, LoadDir, RunbookFiles
<1>2. Rendered(rb, service) \in Runbook
  BY <1>1, DiagnosisAssumption, ServedSteps
<1> QED
  BY <1>1, <1>2 DEF Runbook

(* One entry more. *)
LEMMA OneMore ==
    ASSUME NEW s \in Seq(Entry), NEW e \in Entry
    PROVE  /\ Append(s, e) \in Seq(Entry)
           /\ Len(Append(s, e)) = Len(s) + 1 /\ Len(s) \in Nat
           /\ \A n \in 1..Len(s) : Append(s, e)[n] = s[n]
           /\ Append(s, e)[Len(s) + 1] = e
BY AppendProperties

(* An agent that has not started has seen nothing. *)
LEMMA InitIInv == Init => IInv
BY EmptySeq DEF Init, IInv, TypeInv, Library, Served, Seen, NoRunbook

(* Starting loads the directory or ends the run. *)
LEMMA LoadKeeps == IInv /\ Load => IInv'
<1> SUFFICES ASSUME IInv, Load PROVE IInv'
  OBVIOUS
<1> USE DEF IInv, Load
<1>1. TypeInv'
  BY DEF TypeInv
<1>2. Library'
  BY DEF Library
<1>3. Served'
  BY DEF Served
<1>4. Seen'
  BY DEF Seen
<1> QED
  BY <1>1, <1>2, <1>3, <1>4

(* A task is served one of the loaded runbooks, or none. *)
LEMMA AskKeeps ==
    ASSUME IInv, NEW asked \in Asked, NEW service \in Services, Ask(asked, service)
    PROVE  IInv'
<1> DEFINE found == Serve(rbs, default, asked, [ x \in {"{{service}}"} |-> service ])
<1>1. /\ pc = "ask" /\ seen = <<>>
      /\ dir \in Dirs /\ Loads(dir) /\ rbs = LoadDir(dir)
      /\ UNCHANGED <<dir, env, configured, rbs, default, seen>>
  BY DEF IInv, TypeInv, Library, Seen, Ask
<1>2. CASE found = {}
  <2>1. pc' = "closed" /\ served' = served
    BY <1>2 DEF Ask
  <2> QED
    BY <1>1, <2>1 DEF IInv, TypeInv, Library, Served, Seen
<1>3. CASE found # {}
  <2>1. pc' = "diagnose" /\ served' \in found
    BY <1>3 DEF Ask
  <2>2. PICK rb \in LoadDir(dir) : served' = Rendered(rb, service)
    BY <1>1, <2>1 DEF Serve, Rendered
  <2>3. served'.Diagnostics \in Seq(RunbookStep)
    BY <1>1, <2>2, LoadedRunbook
  <2>4. TypeInv'
    BY <1>1, <2>1, <2>3 DEF IInv, TypeInv
  <2>5. Library'
    BY <1>1, <2>1 DEF Library
  <2>6. Served'
    BY <1>1, <2>1, <2>2 DEF Served
  <2>7. Seen'
    <3>1. seen' = <<>> /\ Len(seen') = 0 /\ Len(served'.Diagnostics) \in Nat
      BY <1>1, <2>3, LenProperties, EmptySeq
    <3>2. Len(seen') <= Len(served'.Diagnostics) /\ 1..Len(seen') = {}
      BY <3>1
    <3> QED
      BY <2>1, <3>1, <3>2 DEF Seen
  <2> QED
    BY <2>4, <2>5, <2>6, <2>7 DEF IInv
<1> QED
  BY <1>2, <1>3

(* An entry about the next diagnostic is added: the run goes on, or ends   *)
(* if the entry is a failure; one that passed is a judgement.              *)
LEMMA EntryKeeps ==
    ASSUME IInv, pc = "diagnose", Len(seen) < Len(served.Diagnostics),
           NEW e \in Entry, e.step = served.Diagnostics[Len(seen) + 1],
           e.verdict = "passed" => Judgement(e),
           seen' = Append(seen, e),
           pc' = IF e.verdict = "failed" THEN "closed" ELSE pc,
           UNCHANGED <<dir, env, configured, rbs, default, served>>
    PROVE  IInv'
<1>1. seen \in Seq(Entry) /\ served.Diagnostics \in Seq(RunbookStep)
  BY DEF IInv, TypeInv
<1>2. /\ seen' \in Seq(Entry) /\ Len(seen') = Len(seen) + 1 /\ Len(seen) \in Nat
      /\ \A n \in 1..Len(seen) : seen'[n] = seen[n]
      /\ seen'[Len(seen) + 1] = e
  BY <1>1, OneMore
<1>3. TypeInv'
  BY <1>2 DEF IInv, TypeInv
<1>4. Library' /\ Served'
  BY DEF IInv, Library, Served
<1>5. Seen'
  <2>1. Len(served.Diagnostics) \in Nat
    BY <1>1, LenProperties
  <2>2. Len(seen') <= Len(served'.Diagnostics)
    BY <1>2, <2>1
  <2>3. ASSUME NEW n \in 1..Len(seen')
        PROVE  /\ seen'[n].step = served'.Diagnostics[n]
               /\ seen'[n].verdict = "passed" => Judgement(seen[n])'
               /\ pc' \in {"diagnose", "act"} => seen'[n].verdict # "failed"
    <3>1. CASE n \in 1..Len(seen)
      <4>1. /\ seen[n].step = served.Diagnostics[n]
            /\ seen[n].verdict = "passed" => Judgement(seen[n])
            /\ seen[n].verdict # "failed"
        BY <3>1 DEF IInv, Seen
      <4>2. seen'[n] = seen[n]
        BY <1>2, <3>1
      <4> QED
        BY <4>1, <4>2 DEF Judgement
    <3>2. CASE n = Len(seen) + 1
      <4>1. seen'[n] = e
        BY <1>2, <3>2
      <4> QED
        BY <3>2, <4>1 DEF Judgement
    <3> QED
      BY <1>2, <3>1, <3>2
  <2>4. pc' \notin {"load", "ask", "act"}
    OBVIOUS
  <2> QED
    BY <2>2, <2>3, <2>4 DEF Seen
<1> QED
  BY <1>3, <1>4, <1>5 DEF IInv

(* A diagnostic is answered and judged. *)
LEMMA DiagnoseKeeps ==
    ASSUME IInv, NEW answer \in Answers, Diagnose(answer)
    PROVE  IInv'
<1> DEFINE step == served.Diagnostics[Len(seen) + 1]
           out  == execute(configured, step.query, answer)
           entry(verdict) == [ step |-> step, answer |-> answer, out |-> out, verdict |-> verdict ]
<1>1. /\ pc = "diagnose" /\ Len(seen) < Len(served.Diagnostics)
      /\ UNCHANGED <<dir, env, configured, rbs, default, served>>
  BY DEF Diagnose
<1>2. step \in RunbookStep /\ out \in Outputs
  <2>1. /\ seen \in Seq(Entry) /\ served.Diagnostics \in Seq(RunbookStep)
        /\ configured \in Configured
    BY DEF IInv, TypeInv
  <2>2. Len(seen) + 1 \in 1..Len(served.Diagnostics)
    BY <1>1, <2>1, LenProperties
  <2>3. step \in RunbookStep
    BY <2>1, <2>2, ElementOfSeq
  <2> HIDE DEF step
  <2> QED
    BY <2>1, <2>3 DEF Outputs
<1>3. \A v \in {"passed", "failed", "error"} : entry(v) \in Entry
  <2> HIDE DEF step, out
  <2> QED
    BY <1>2 DEF Entry
<1>4. PICK v \in {"passed", "failed", "error"} :
          /\ seen' = Append(seen, entry(v))
          /\ pc' = IF v = "failed" THEN "closed" ELSE pc
          /\ v = "passed" => Encodable(out) /\ evalDiagnosticGate(step, Judged(step, out))
  <2>1. CASE ~Encodable(out)
    <3>1. seen' = Append(seen, entry("error")) /\ pc' = pc
      BY <2>1 DEF Diagnose
    <3> QED
      BY <3>1
  <2>2. CASE Encodable(out) /\ evalDiagnosticGate(step, Judged(step, out))
    <3>1. seen' = Append(seen, entry("passed")) /\ pc' = pc
      BY <2>2 DEF Diagnose
    <3> QED
      BY <2>2, <3>1
  <2>3. CASE Encodable(out) /\ ~evalDiagnosticGate(step, Judged(step, out))
    <3>1. seen' = Append(seen, entry("failed")) /\ pc' = "closed"
      BY <2>3 DEF Diagnose
    <3> QED
      BY <3>1
  <2> QED
    BY <2>1, <2>2, <2>3
<1> DEFINE e == entry(v)
<1>5. /\ e \in Entry /\ e.step = step /\ e.answer = answer /\ e.out = out /\ e.verdict = v
  BY <1>3
<1> HIDE DEF e
<1>6. e.verdict = "passed" => Judgement(e)
  BY <1>4, <1>5 DEF Judgement
<1>7. seen' = Append(seen, e) /\ pc' = IF e.verdict = "failed" THEN "closed" ELSE pc
  BY <1>4, <1>5 DEF e
<1> HIDE DEF step, out
<1>8. e.step = served.Diagnostics[Len(seen) + 1]
  BY <1>5 DEF step
<1> QED
  BY <1>1, <1>5, <1>6, <1>7, <1>8, EntryKeeps

(* The agent is not reached. *)
LEMMA UnreachedKeeps == IInv /\ Unreached => IInv'
<1> SUFFICES ASSUME IInv, Unreached PROVE IInv'
  OBVIOUS
<1> DEFINE step == served.Diagnostics[Len(seen) + 1]
           e == [ step |-> step, answer |-> NoAnswer, out |-> Degraded, verdict |-> "error" ]
<1>1. /\ pc = "diagnose" /\ Len(seen) < Len(served.Diagnostics)
      /\ seen' = Append(seen, e) /\ pc' = pc
      /\ UNCHANGED <<dir, env, configured, rbs, default, served>>
  BY DEF Unreached
<1>2. step \in RunbookStep
  <2>1. seen \in Seq(Entry) /\ served.Diagnostics \in Seq(RunbookStep)
    BY DEF IInv, TypeInv
  <2>2. Len(seen) + 1 \in 1..Len(served.Diagnostics)
    BY <1>1, <2>1, LenProperties
  <2> QED
    BY <2>1, <2>2, ElementOfSeq
<1>3. e \in Entry /\ e.step = step /\ e.verdict = "error"
  <2> HIDE DEF step
  <2> QED
    BY <1>2 DEF Entry, Outputs
<1>4. e.step = served.Diagnostics[Len(seen) + 1]
  BY <1>3
<1> HIDE DEF step, e
<1> QED
  BY <1>1, <1>3, <1>4, EntryKeeps

(* All diagnostics were asked. *)
LEMMA ActKeeps == IInv /\ Act => IInv'
BY DEF IInv, Act, TypeInv, Library, Served, Seen, Judgement

(* Every step of Diagnosis keeps the invariant. *)
THEOREM Inductive == Spec => []IInv
<1>1. ASSUME IInv, [Next]_vars PROVE IInv'
  <2>1. CASE Load
    BY <1>1, <2>1, LoadKeeps
  <2>2. CASE \E asked \in Asked, service \in Services : Ask(asked, service)
    BY <1>1, <2>2, AskKeeps
  <2>3. CASE \E answer \in Answers : Diagnose(answer)
    BY <1>1, <2>3, DiagnoseKeeps
  <2>4. CASE Unreached
    BY <1>1, <2>4, UnreachedKeeps
  <2>5. CASE Act
    BY <1>1, <2>5, ActKeeps
  <2>6. CASE UNCHANGED vars
    BY <1>1, <2>6 DEF vars, IInv, TypeInv, Library, Served, Seen, Judgement
  <2> QED
    BY <1>1, <2>1, <2>2, <2>3, <2>4, <2>5, <2>6 DEF Next
<1> QED
  BY InitIInv, <1>1, PTL DEF Spec

(* The steps of a served runbook have ids in its namespace, and one each   *)
(* if its file is well named: validation compares the ids before they are  *)
(* normalized.                                                             *)
THEOREM NamesKept == Spec => []StepsKeepTheirNames
<1>1. IInv => StepsKeepTheirNames
  <2> SUFFICES ASSUME IInv, pc \in {"diagnose", "act"}
               PROVE  /\ \A i \in DOMAIN Steps(served) :
                             Within(Steps(served)[i].ID.names, Namespace(served))
                      /\ WellNamed(Source.rb) => DistinctIDs(Steps(served))
    BY DEF StepsKeepTheirNames
  <2>1. PICK rb \in LoadDir(dir), service \in Services : served = Rendered(rb, service)
    BY DEF IInv, Served
  <2>2. dir \in Dirs /\ Loads(dir)
    BY DEF IInv, TypeInv, Library
  <2>3. rb \in Runbook /\ ValidateRunbook(rb) /\ service \in STRING
    BY <2>2, LoadedRunbook, DiagnosisAssumption
  <2>4. served.ID = rb.ID
    BY <2>1, <2>3, ServedSteps
  <2>5. Source.rb = rb
    <3>1. PICK f \in RunbookFiles(dir) : f.rb = rb
      BY DEF LoadDir
    <3>2. \A g \in RunbookFiles(dir) : g.rb.ID = served.ID => g = f
      BY <2>2, <2>4, <3>1 DEF Loads
    <3>3. Source = f
      BY <2>4, <3>1, <3>2 DEF Source
    <3> QED
      BY <3>1, <3>3
  <2> QED
    BY <2>1, <2>3, <2>5, ServedNames
<1> QED
  BY <1>1, Inductive, PTL

(* The fields of an output. *)
LEMMA Outputted ==
    ASSUME NEW d \in BOOLEAN, NEW sig
    PROVE  Output(d, sig).Degraded = d /\ Output(d, sig).Signals = sig
BY DEF Output

(* A gate that passed was asked of a configured backend that answered, and *)
(* a gate on the value of aligned data compared their true total.          *)
THEOREM TruthJudged == Spec => []GatesPassOnTruth
<1>1. ASSUME IInv, NEW n \in DOMAIN seen, seen[n].verdict = "passed", seen[n].step.gate_op # ""
      PROVE  /\ seen[n].answer.kind = "ok"
             /\ seen[n].step.query.text # ""
             /\ Engine(seen[n].step.query) \in configured
             /\ seen[n].step.gate_signal = "value" /\ Aligned(seen[n].answer) =>
                    \E thr \in seen[n].step.gate_threshold :
                        compareFloat(TrueTotal(seen[n].answer), seen[n].step.gate_op, thr)
  <2> DEFINE e == seen[n]
             range == shouldRangeQuery(e.step.query.params)
             sig == IF Engine(e.step.query) = "loki" THEN parseLokiSignals(range, e.answer)
                    ELSE prometheusSignals(range, e.answer)
  <2>1. Judgement(e)
    <3>1. n \in 1..Len(seen)
      BY LenProperties DEF IInv, TypeInv
    <3> QED
      BY <1>1, <3>1 DEF IInv, Seen
  <2>2. /\ ~e.out.Degraded
        /\ \E v \in Judged(e.step, e.out).Signal, thr \in e.step.gate_threshold :
               compareFloat(v, e.step.gate_op, thr)
    BY <1>1, <2>1 DEF Judgement, evalDiagnosticGate, Judged
  <2> HIDE DEF e
  <2>3. /\ e.answer.kind = "ok" /\ e.step.query.text # "" /\ Engine(e.step.query) \in configured
        /\ e.out = Output(FALSE, sig)
    <3>1. e.out = execute(configured, e.step.query, e.answer) /\ ~e.out.Degraded
      BY <2>1, <2>2 DEF Judgement
    <3>2. ~(e.step.query.text = "" \/ Engine(e.step.query) \notin configured)
      BY <3>1, Outputted DEF execute, Degraded
    <3>3. e.out = queryBackend(e.step.query, e.answer)
      BY <3>1, <3>2 DEF execute
    <3>4. \/ e.out = Degraded
          \/ e.answer.kind = "ok" /\ e.out = Output(FALSE, sig)
      BY <3>3, Zenon DEF queryBackend
    <3>5. e.out # Degraded
      BY <3>1, Outputted DEF Degraded
    <3> QED
      BY <3>2, <3>4, <3>5
  <2>4. ASSUME e.step.gate_signal = "value", Aligned(e.answer)
        PROVE  \E thr \in e.step.gate_threshold :
                   compareFloat(TrueTotal(e.answer), e.step.gate_op, thr)
    <3>1. "value" \in DOMAIN sig /\ Judged(e.step, e.out).Signal = { sig["value"] }
      <4> HIDE DEF sig
      <4>1. e.out.Signals = sig
        BY <2>3, Outputted
      <4>2. Judged(e.step, e.out).Signal =
                IF "value" \in DOMAIN sig THEN { sig["value"] } ELSE {}
        BY <2>4, <4>1 DEF Judged
      <4> QED
        BY <2>2, <4>2
    <3>2. e.answer.type = "matrix" => e.answer.result \in Matrix
      BY <2>1, DiagnosisAssumption DEF Judgement
    <3>3. sig["value"] = TrueTotal(e.answer)
      <4>1. sig = parseLokiSignals(range, e.answer) \/ sig = prometheusSignals(range, e.answer)
        OBVIOUS
      <4> HIDE DEF sig, range
      <4> QED
        BY <2>4, <3>1, <3>2, <4>1, ValueIsTotal
    <3> HIDE DEF sig
    <3> QED
      BY <2>2, <3>1, <3>3
  <2> QED
    BY <2>3, <2>4 DEF e
<1>2. IInv => GatesPassOnTruth
  BY <1>1 DEF GatesPassOnTruth
<1> QED
  BY <1>2, Inductive, PTL

(* What GateFailsClosed leaves true: when the actions begin, every gated   *)
(* diagnostic has been asked, in order, and its gate passed on the output  *)
(* of its own query, or its activity failed.                               *)
ActionsFollowJudgement ==
    pc = "act" =>
        \A n \in DOMAIN served.Diagnostics :
            /\ n \in DOMAIN seen /\ seen[n].step = served.Diagnostics[n]
            /\ seen[n].verdict = "error" \/ Judgement(seen[n])

(* The actions follow the judgement of every gate, errors aside. *)
THEOREM ActionsJudged == Spec => []ActionsFollowJudgement
<1>1. ASSUME IInv, pc = "act", NEW n \in DOMAIN served.Diagnostics
      PROVE  /\ n \in DOMAIN seen /\ seen[n].step = served.Diagnostics[n]
             /\ seen[n].verdict = "error" \/ Judgement(seen[n])
  <2>1. /\ seen \in Seq(Entry) /\ served.Diagnostics \in Seq(RunbookStep)
        /\ Len(seen) = Len(served.Diagnostics)
    BY <1>1 DEF IInv, TypeInv, Seen
  <2>2. n \in 1..Len(seen) /\ n \in DOMAIN seen
    BY <2>1, LenProperties
  <2>3. seen[n].verdict \in {"passed", "failed", "error"}
    <3>1. seen[n] \in Entry
      BY <2>1, <2>2, ElementOfSeq
    <3> QED
      BY <3>1 DEF Entry
  <2> QED
    BY <1>1, <2>2, <2>3 DEF IInv, Seen
<1>2. IInv => ActionsFollowJudgement
  BY <1>1 DEF ActionsFollowJudgement
<1> QED
  BY <1>2, Inductive, PTL

=============================================================================
