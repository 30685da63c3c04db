---------------------------------- MODULE Sums ----------------------------------
(***************************************************************************)
(* Induction where the library's induction theorems cannot be used, which  *)
(* take an operator as a parameter: by the least counterexample.  And what *)
(* it shows of sums over the points ledgers.                               *)
(***************************************************************************)
EXTENDS FiniteSetsExt, Functions, FiniteSetTheorems, NaturalsInduction, TLAPS

\* Sets of numbers have a least element.
LEMMA Smallest == ASSUME NEW S \in SUBSET Nat, S # {} PROVE \E n \in S : \A m \in S : n <= m
<1>1. PICK n \in S : \A m \in S : ~(<<m, n>> \in OpToRel(<, Nat))
  BY NatLessThanWellFounded, WFMin
<1>2. ASSUME NEW m \in S PROVE n <= m
  <2>1. m \in Nat /\ n \in Nat
    OBVIOUS
  <2>2. m < n => <<m, n>> \in OpToRel(<, Nat)
    BY <2>1, Zenon DEF OpToRel
  <2>3. ~(m < n)
    BY <1>1, <2>2, Zenon
  <2>. QED  BY <2>1, <2>3
<1>. QED  BY <1>2

\* What holds of 0 and passes from each number to the next one holds of all.
LEMMA Climb ==
    ASSUME NEW S \in SUBSET Nat, 0 \in S, \A n \in S : n + 1 \in S
    PROVE  S = Nat
<1>1. SUFFICES ASSUME Nat \ S # {} PROVE FALSE
  OBVIOUS
<1>2. PICK n \in Nat \ S : \A m \in Nat \ S : n <= m
  BY <1>1, Smallest
<1>3. n # 0 /\ n - 1 \in Nat /\ ~(n <= n - 1)
  BY <1>2
<1>4. n - 1 \in S
  BY <1>2, <1>3
<1>. QED  BY <1>2, <1>3, <1>4

-----------------------------------------------------------------------------
(* Finite sets                                                               *)

\* What passes to each subset of a finite set from those with one element less holds of all.
LEMMA Shrink ==
    ASSUME NEW S, IsFiniteSet(S), NEW Q \in SUBSET SUBSET S,
           \A T \in SUBSET S : (\A x \in T : T \ {x} \in Q) => T \in Q
    PROVE  Q = SUBSET S
<1>. DEFINE N == {n \in Nat : \A T \in SUBSET S : Cardinality(T) = n => T \in Q}
<1>1. \A T \in SUBSET S : /\ IsFiniteSet(T) /\ Cardinality(T) \in Nat
                          /\ Cardinality(T) = 0 => T = {}
  BY FS_Subset, FS_CardinalityType, FS_EmptySet
<1>2. 0 \in N
  BY <1>1
<1>3. ASSUME NEW n \in N PROVE n + 1 \in N
  <2>1. ASSUME NEW T \in SUBSET S, Cardinality(T) = n + 1 PROVE T \in Q
    <3>1. ASSUME NEW x \in T PROVE T \ {x} \in Q
      <4>1. IsFiniteSet(T)
        BY <1>1
      <4>2. Cardinality(T \ {x}) = Cardinality(T) - 1
        BY <4>1, FS_RemoveElement
      <4>3. Cardinality(T \ {x}) = n
        BY <2>1, <4>2
      <4>. QED  BY <4>3
    <3>. QED  BY <3>1
  <2>. QED  BY <2>1
<1>4. N = Nat
  <2>1. N \in SUBSET Nat
    OBVIOUS
  <2>. HIDE DEF N
  <2>. QED  BY <2>1, <1>2, <1>3, Climb
<1>. QED  BY <1>1, <1>4

-----------------------------------------------------------------------------
(* Sums                                                                      *)

\* g is how the sums over the subsets of S are defined.
Some(s) == CHOOSE x \in s : TRUE
Sums(g, w, S) ==
    g = [s \in SUBSET S |-> IF s = {} THEN 0 ELSE w[Some(s)] + g[s \ {Some(s)}]]

LEMMA SumsExist ==
    ASSUME NEW S, IsFiniteSet(S), NEW w \in [S -> Int]
    PROVE  \E g : Sums(g, w, S)
<1>. DEFINE Rest(s) == s \ {Some(s)}
            Good(n, g) == \A s \in SUBSET S : Cardinality(s) <= n =>
                              g[s] = IF s = {} THEN 0 ELSE w[Some(s)] + g[Rest(s)]
            N == {n \in Nat : \E g \in [SUBSET S -> Int] : Good(n, g)}
<1>1. \A s \in SUBSET S : /\ IsFiniteSet(s) /\ Cardinality(s) \in Nat
                          /\ Cardinality(s) = 0 => s = {}
                          /\ Cardinality(s) <= Cardinality(S)
  BY FS_Subset, FS_CardinalityType, FS_EmptySet
<1>2. \A s \in SUBSET S : s # {} => /\ Some(s) \in S /\ Rest(s) \in SUBSET S
                                    /\ Cardinality(Rest(s)) = Cardinality(s) - 1
  <2>1. ASSUME NEW s \in SUBSET S, s # {} PROVE Some(s) \in s
    BY <2>1 DEF Some
  <2>2. ASSUME NEW s \in SUBSET S, NEW x \in s PROVE Cardinality(s \ {x}) = Cardinality(s) - 1
    BY <1>1, FS_RemoveElement
  <2>. QED  BY <2>1, <2>2
<1>. HIDE DEF Rest
<1>3. 0 \in N
  <2>1. Good(0, [s \in SUBSET S |-> 0])
    <3>1. \A s \in SUBSET S : Cardinality(s) <= 0 => s = {}
      BY <1>1
    <3>. QED  BY <3>1
  <2>2. [s \in SUBSET S |-> 0] \in [SUBSET S -> Int]
    OBVIOUS
  <2>. QED  BY <2>1, <2>2
<1>4. ASSUME NEW n \in N PROVE n + 1 \in N
  <2>1. PICK g \in [SUBSET S -> Int] : Good(n, g)
    OBVIOUS
  <2>2. PICK h : h = [s \in SUBSET S |-> IF s = {} THEN 0 ELSE w[Some(s)] + g[Rest(s)]]
    OBVIOUS
  <2>3. h \in [SUBSET S -> Int]
    BY <1>2, <2>2
  <2>4. ASSUME NEW s \in SUBSET S, Cardinality(s) <= n PROVE h[s] = g[s]
    BY <2>1, <2>2, <2>4
  <2>5. ASSUME NEW s \in SUBSET S, Cardinality(s) <= n + 1
        PROVE  h[s] = IF s = {} THEN 0 ELSE w[Some(s)] + h[Rest(s)]
    <3>1. CASE s = {}
      BY <2>2, <3>1
    <3>2. CASE s # {}
      <4>1. Rest(s) \in SUBSET S /\ Cardinality(Rest(s)) <= n
        BY <1>1, <1>2, <2>5, <3>2
      <4>2. h[Rest(s)] = g[Rest(s)]
        BY <4>1, <2>4
      <4>. QED  BY <2>2, <3>2, <4>2
    <3>. QED  BY <3>1, <3>2
  <2>6. Good(n + 1, h) /\ n + 1 \in Nat
    BY <2>5
  <2>. HIDE DEF Good
  <2>. QED  BY <2>3, <2>6
<1>5. N = Nat
  <2>1. N \in SUBSET Nat
    OBVIOUS
  <2>. HIDE DEF N
  <2>. QED  BY <2>1, <1>3, <1>4, Climb
<1>6. PICK g \in [SUBSET S -> Int] : Good(Cardinality(S), g)
  <2>1. Cardinality(S) \in N
    BY <1>1, <1>5
  <2>. QED  BY <2>1
<1>7. g = [s \in SUBSET S |-> IF s = {} THEN 0 ELSE w[Some(s)] + g[Rest(s)]]
  BY <1>1, <1>6
<1>. QED  BY <1>7 DEF Sums, Rest

\* How a sum is put together, and that it is a number.
LEMMA SumsAreNumbers ==
    ASSUME NEW S, IsFiniteSet(S), NEW w \in [S -> Int], NEW g, Sums(g, w, S)
    PROVE  \A s \in SUBSET S : /\ g[s] \in Int
                               /\ s # {} => \E c \in s : g[s] = w[c] + g[s \ {c}]
<1>. DEFINE Q == {s \in SUBSET S : g[s] \in Int}
<1>1. \A s \in SUBSET S : IF s = {} THEN g[s] = 0
                          ELSE Some(s) \in s /\ g[s] = w[Some(s)] + g[s \ {Some(s)}]
  BY DEF Sums, Some
<1>2. ASSUME NEW s \in SUBSET S, \A x \in s : s \ {x} \in Q PROVE s \in Q
  <2>1. CASE s = {}
    <3>1. g[s] = 0
      BY <1>1, <2>1
    <3>. QED  BY <3>1
  <2>2. CASE s # {}
    <3>1. PICK c \in s : g[s] = w[c] + g[s \ {c}]
      BY <1>1, <2>2
    <3>2. w[c] \in Int /\ g[s \ {c}] \in Int
      BY <1>2
    <3>3. g[s] \in Int
      BY <3>1, <3>2
    <3>. QED  BY <3>3
  <2>. QED  BY <2>1, <2>2
<1>3. Q = SUBSET S
  <2>1. Q \in SUBSET SUBSET S
    OBVIOUS
  <2>. HIDE DEF Q
  <2>. QED  BY <2>1, <1>2, Shrink
<1>. QED  BY <1>1, <1>3

\* Which element is taken first does not matter.
LEMMA SumsAdd ==
    ASSUME NEW S, IsFiniteSet(S), NEW w \in [S -> Int], NEW g, Sums(g, w, S)
    PROVE  \A s \in SUBSET S : \A x \in s : g[s] = w[x] + g[s \ {x}]
<1>. DEFINE Q == {s \in SUBSET S : \A x \in s : g[s] = w[x] + g[s \ {x}]}
<1>1. \A s \in SUBSET S : /\ g[s] \in Int
                          /\ s # {} => \E c \in s : g[s] = w[c] + g[s \ {c}]
  BY SumsAreNumbers
<1>2. ASSUME NEW s \in SUBSET S, \A x \in s : s \ {x} \in Q PROVE s \in Q
  <2>1. ASSUME NEW x \in s PROVE g[s] = w[x] + g[s \ {x}]
    <3>1. PICK c \in s : g[s] = w[c] + g[s \ {c}]
      BY <1>1
    <3>2. CASE x = c
      BY <3>1, <3>2
    <3>3. CASE x # c
      <4>1. g[s \ {c}] = w[x] + g[(s \ {c}) \ {x}]
        BY <1>2, <3>3
      <4>2. g[s \ {x}] = w[c] + g[(s \ {x}) \ {c}]
        BY <1>2, <3>3
      <4>3. PICK t \in SUBSET S : t = (s \ {c}) \ {x} /\ t = (s \ {x}) \ {c}
        OBVIOUS
      <4>4. g[t] \in Int /\ w[x] \in Int /\ w[c] \in Int
        BY <1>1
      <4>5. g[s \ {c}] = w[x] + g[t] /\ g[s \ {x}] = w[c] + g[t]
        BY <4>1, <4>2, <4>3
      <4>6. g[s] = w[c] + (w[x] + g[t]) /\ w[x] + g[s \ {x}] = w[x] + (w[c] + g[t])
        BY <3>1, <4>5
      <4>. QED  BY <4>4, <4>6
    <3>. QED  BY <3>2, <3>3
  <2>. QED  BY <2>1
<1>3. Q = SUBSET S
  <2>1. Q \in SUBSET SUBSET S
    OBVIOUS
  <2>. HIDE DEF Q
  <2>. QED  BY <2>1, <1>2, Shrink
<1>. QED  BY <1>3

\* Nor does it matter of which set the summed one is a part.
LEMMA SumsAgree ==
    ASSUME NEW S, NEW T, IsFiniteSet(S), S \subseteq T, NEW w, NEW g, NEW h,
           Sums(g, w, S), Sums(h, w, T)
    PROVE  g[S] = h[S]
<1>. DEFINE Q == {s \in SUBSET S : g[s] = h[s]}
<1>1. ASSUME NEW s \in SUBSET S, \A x \in s : s \ {x} \in Q PROVE s \in Q
  <2>1. s = {} \/ Some(s) \in s
    BY DEF Some
  <2>2. /\ g[s] = IF s = {} THEN 0 ELSE w[Some(s)] + g[s \ {Some(s)}]
        /\ h[s] = IF s = {} THEN 0 ELSE w[Some(s)] + h[s \ {Some(s)}]
    BY DEF Sums
  <2>. QED  BY <1>1, <2>1, <2>2
<1>2. Q = SUBSET S
  <2>1. Q \in SUBSET SUBSET S
    OBVIOUS
  <2>. HIDE DEF Q
  <2>. QED  BY <2>1, <1>1, Shrink
<1>. QED  BY <1>2

-----------------------------------------------------------------------------
(* Ledgers                                                                   *)

Total(S) == MapThenSumSet(LAMBDA e : e.amount, S)

LEMMA TotalIsSum ==
    ASSUME NEW S, IsFiniteSet(S), \A e \in S : e.amount \in Int, NEW w, \A e \in S : w[e] = e.amount
    PROVE  \E g : Sums(g, w, S) /\ Total(S) = g[S]
<1>. DEFINE F(h) == [s \in SUBSET S |-> IF s = {} THEN 0
                       ELSE (CHOOSE x \in s : TRUE).amount + h[s \ {CHOOSE x \in s : TRUE}]]
            v == [e \in S |-> e.amount]
            g == CHOOSE h : h = F(h)
<1>1. Total(S) = g[S]
  BY DEF Total, MapThenSumSet, MapThenFoldSet
<1>2. PICK f : Sums(f, v, S)
  <2>1. v \in [S -> Int]
    OBVIOUS
  <2>. HIDE DEF v
  <2>. QED  BY <2>1, SumsExist
<1>3. \A s \in SUBSET S : s # {} => Some(s) \in S
  BY DEF Some
<1>4. f = F(f)
  <2>1. ASSUME NEW s \in SUBSET S, s # {} PROVE v[Some(s)] = (CHOOSE x \in s : TRUE).amount
    BY <1>3, <2>1 DEF Some
  <2>. QED  BY <1>2, <2>1 DEF Sums, Some
<1>5. g = F(g)
  <2>. HIDE DEF F
  <2>. QED  BY <1>4
<1>. HIDE DEF g
<1>6. Sums(g, w, S)
  <2>1. ASSUME NEW s \in SUBSET S, s # {} PROVE w[Some(s)] = (CHOOSE x \in s : TRUE).amount
    BY <1>3, <2>1 DEF Some
  <2>. QED  BY <1>5, <2>1 DEF Sums, Some
<1>. QED  BY <1>1, <1>6

\* A new entry adds its amount.
LEMMA TotalAdds ==
    ASSUME NEW S, IsFiniteSet(S), \A e \in S : e.amount \in Int, NEW e, e \notin S, e.amount \in Int
    PROVE  Total(S \cup {e}) = Total(S) + e.amount /\ Total(S) \in Int
<1>. DEFINE T == S \cup {e}
            w == [d \in T |-> d.amount]
<1>1. IsFiniteSet(T)
  BY FS_AddElement
<1>2. w \in [T -> Int] /\ \A d \in T : w[d] = d.amount
  OBVIOUS
<1>3. S \subseteq T /\ e \in T /\ S \cup {e} = T
  OBVIOUS
<1>. HIDE DEF T, w
<1>4. PICK g : Sums(g, w, T) /\ Total(T) = g[T]
  BY <1>1, <1>2, TotalIsSum
<1>5. PICK f : Sums(f, w, S) /\ Total(S) = f[S]
  BY <1>2, <1>3, TotalIsSum
<1>6. f[S] = g[S]
  BY <1>1, <1>2, <1>3, <1>4, <1>5, SumsAgree
<1>7. \A s \in SUBSET T : g[s] \in Int /\ \A x \in s : g[s] = w[x] + g[s \ {x}]
  BY <1>1, <1>2, <1>4, SumsAdd, SumsAreNumbers
<1>8. T \ {e} = S /\ T \in SUBSET T /\ S \in SUBSET T /\ w[e] = e.amount
  BY <1>2, <1>3 DEF T
<1>9. g[T] = e.amount + g[S] /\ g[S] \in Int
  <2>1. T \in SUBSET T /\ S \in SUBSET T /\ e \in T
    BY <1>3, <1>8
  <2>2. g[T] = w[e] + g[T \ {e}]
    BY <1>7, <2>1
  <2>3. g[S] \in Int
    BY <1>7, <2>1
  <2>. QED  BY <2>2, <2>3, <1>8
<1>10. Total(T) = Total(S) + e.amount /\ Total(S) \in Int
  BY <1>4, <1>5, <1>6, <1>9
<1>. QED  BY <1>10, <1>3

LEMMA TotalIsNumber ==
    ASSUME NEW S, IsFiniteSet(S), \A e \in S : e.amount \in Int
    PROVE  Total(S) \in Int
<1>. DEFINE w == [d \in S |-> d.amount]
<1>1. PICK g : Sums(g, w, S) /\ Total(S) = g[S]
  BY TotalIsSum
<1>2. w \in [S -> Int]
  OBVIOUS
<1>. HIDE DEF w
<1>3. g[S] \in Int
  BY <1>1, <1>2, SumsAreNumbers
<1>. QED  BY <1>1, <1>3

\* One entry is worth its amount.
LEMMA TotalOfOne == ASSUME NEW e, e.amount \in Int PROVE Total({e}) = e.amount
<1>1. IsFiniteSet({}) /\ {} \cup {e} = {e}
  BY FS_EmptySet
<1>2. Total({}) = 0
  <2>1. PICK g : Sums(g, [d \in {} |-> d.amount], {}) /\ Total({}) = g[{}]
    BY <1>1, TotalIsSum
  <2>. QED  BY <2>1 DEF Sums
<1>3. Total({} \cup {e}) = Total({}) + e.amount
  BY <1>1, TotalAdds
<1>. QED  BY <1>1, <1>2, <1>3

-----------------------------------------------------------------------------
(* Folds                                                                     *)

\* A fold with + adds the sum to what it begins with.
Folded(b, w, S) == FoldFunctionOnSet(+, b, w, S)

LEMMA FoldIsSum ==
    ASSUME NEW S, IsFiniteSet(S), NEW w, \A x \in S : w[x] \in Int, NEW b \in Int
    PROVE  \E g : Sums(g, [x \in S |-> w[x]], S) /\ Folded(b, w, S) = b + g[S]
<1>. DEFINE v == [x \in S |-> w[x]]
            F(h) == [s \in SUBSET S |-> IF s = {} THEN b
                       ELSE w[CHOOSE x \in s : TRUE] + h[s \ {CHOOSE x \in s : TRUE}]]
            k == CHOOSE h : h = F(h)
<1>1. Folded(b, w, S) = k[S]
  BY DEF Folded, FoldFunctionOnSet, MapThenFoldSet
<1>v. v \in [S -> Int] /\ \A x \in S : v[x] = w[x]
  OBVIOUS
<1>. HIDE DEF v
<1>2. PICK g : Sums(g, v, S)
  BY <1>v, SumsExist
<1>3. \A s \in SUBSET S : g[s] \in Int
  BY <1>v, <1>2, SumsAreNumbers
<1>4. \A s \in SUBSET S : s # {} => (CHOOSE x \in s : TRUE) \in S
  OBVIOUS
<1>0. {} \in SUBSET S
  OBVIOUS
<1>5. /\ g[{}] = 0
      /\ \A s \in SUBSET S : s # {} =>
             g[s] = w[CHOOSE x \in s : TRUE] + g[s \ {CHOOSE x \in s : TRUE}]
  BY <1>v, <1>0, <1>2, <1>4 DEF Sums, Some
<1>6. \E h : h = F(h)
  <2>. DEFINE h == [s \in SUBSET S |-> b + g[s]]
  <2>1. ASSUME NEW s \in SUBSET S
        PROVE  h[s] = IF s = {} THEN b
                      ELSE w[CHOOSE x \in s : TRUE] + h[s \ {CHOOSE x \in s : TRUE}]
    <3>1. CASE s = {}
      <4>1. g[{}] = 0 /\ h[{}] = b + g[{}] /\ b + 0 = b
        BY <1>0, <1>5
      <4>. QED  BY <3>1, <4>1
    <3>2. CASE s # {}
      <4>. DEFINE c == CHOOSE x \in s : TRUE
      <4>1. c \in S /\ w[c] \in Int /\ s \ {c} \in SUBSET S
        BY <1>4, <3>2
      <4>2. g[s] = w[c] + g[s \ {c}] /\ g[s \ {c}] \in Int
        BY <1>3, <1>5, <3>2, <4>1
      <4>. HIDE DEF c
      <4>3. h[s] = w[c] + h[s \ {c}]
        BY <4>1, <4>2
      <4>. QED  BY <3>2, <4>3 DEF c
    <3>. QED  BY <3>1, <3>2
  <2>2. h = F(h)
    BY <2>1
  <2>. QED  BY <2>2
<1>7. k = F(k)
  <2>. HIDE DEF F
  <2>. QED  BY <1>6
<1>. HIDE DEF k
<1>8. /\ k[{}] = b
      /\ \A s \in SUBSET S : s # {} =>
             k[s] = w[CHOOSE x \in s : TRUE] + k[s \ {CHOOSE x \in s : TRUE}]
  BY <1>0, <1>7
<1>. DEFINE Q == {s \in SUBSET S : k[s] = b + g[s]}
<1>9. ASSUME NEW s \in SUBSET S, \A x \in s : s \ {x} \in Q PROVE s \in Q
  <2>1. CASE s = {}
    <3>1. g[{}] = 0 /\ k[{}] = b /\ b + 0 = b
      BY <1>0, <1>5, <1>8
    <3>. QED  BY <2>1, <3>1
  <2>2. CASE s # {}
    <3>. DEFINE c == CHOOSE x \in s : TRUE
    <3>1. c \in s /\ c \in S /\ w[c] \in Int
      BY <1>4, <2>2
    <3>2. g[s] = w[c] + g[s \ {c}] /\ k[s] = w[c] + k[s \ {c}] /\ g[s \ {c}] \in Int
      BY <1>3, <1>5, <1>8, <2>2
    <3>. HIDE DEF c
    <3>3. k[s \ {c}] = b + g[s \ {c}]
      BY <1>9, <3>1
    <3>4. k[s] = b + g[s]
      BY <3>1, <3>2, <3>3
    <3>. QED  BY <3>4
  <2>. QED  BY <2>1, <2>2
<1>10. S \in Q
  <2>1. Q \in SUBSET SUBSET S
    OBVIOUS
  <2>2. S \in SUBSET S
    OBVIOUS
  <2>. HIDE DEF Q
  <2>3. Q = SUBSET S
    BY <2>1, <1>9, Shrink
  <2>. QED  BY <2>2, <2>3
<1>11. k[S] = b + g[S]
  BY <1>10
<1>. HIDE DEF Q, F
<1>12. Folded(b, w, S) = b + g[S]
  <2>. HIDE DEF k
  <2>. QED  BY <1>1, <1>11
<1>. QED  BY <1>2, <1>12 DEF v

\* Nor does it add anything where there is only 0 to add.
LEMMA FoldOfZeros ==
    ASSUME NEW S, IsFiniteSet(S), NEW w, \A x \in S : w[x] = 0, NEW b \in Int
    PROVE  Folded(b, w, S) = b
<1>. DEFINE v == [x \in S |-> w[x]]
<1>1. v \in [S -> Int] /\ \A x \in S : v[x] = 0
  OBVIOUS
<1>2. PICK g : Sums(g, v, S) /\ Folded(b, w, S) = b + g[S]
  BY FoldIsSum
<1>. HIDE DEF v
<1>3. \A s \in SUBSET S : s # {} => \E c \in s : g[s] = v[c] + g[s \ {c}]
  BY <1>1, <1>2, SumsAreNumbers
<1>4. {} \in SUBSET S /\ S \in SUBSET S
  OBVIOUS
<1>5. g[{}] = 0
  BY <1>2, <1>4 DEF Sums
<1>. DEFINE Q == {s \in SUBSET S : g[s] = 0}
<1>6. ASSUME NEW s \in SUBSET S, \A x \in s : s \ {x} \in Q PROVE s \in Q
  <2>1. CASE s = {}
    BY <1>5, <2>1
  <2>2. CASE s # {}
    <3>1. PICK c \in s : g[s] = v[c] + g[s \ {c}]
      BY <1>3, <2>2
    <3>2. v[c] = 0 /\ g[s \ {c}] = 0
      BY <1>1, <1>6
    <3>. QED  BY <3>1, <3>2
  <2>. QED  BY <2>1, <2>2
<1>7. Q = SUBSET S
  <2>1. Q \in SUBSET SUBSET S
    OBVIOUS
  <2>. HIDE DEF Q
  <2>. QED  BY <2>1, <1>6, Shrink
<1>8. g[S] = 0
  BY <1>4, <1>7
<1>. QED  BY <1>2, <1>8

\* How such a sum is put together, one element at a time.
Stepwise(g, w, S) ==
    /\ g[{}] = 0
    /\ \A s \in SUBSET S : g[s] \in Int /\ \A x \in s : g[s] = w[x] + g[s \ {x}]
LEMMA FoldStepwise ==
    ASSUME NEW S, IsFiniteSet(S), NEW w \in [S -> Int], NEW n \in Int
    PROVE  \E g : Stepwise(g, w, S) /\ Folded(n, w, S) = n + g[S]
<1>1. [x \in S |-> w[x]] = w /\ \A x \in S : w[x] \in Int
  OBVIOUS
<1>2. PICK g : Sums(g, w, S) /\ Folded(n, w, S) = n + g[S]
  <2>1. \E g : Sums(g, [x \in S |-> w[x]], S) /\ Folded(n, w, S) = n + g[S]
    BY <1>1, FoldIsSum
  <2>. QED  BY <1>1, <2>1
<1>3. \A s \in SUBSET S : g[s] \in Int /\ \A x \in s : g[s] = w[x] + g[s \ {x}]
  BY <1>2, SumsAdd, SumsAreNumbers
<1>4. {} \in SUBSET S
  OBVIOUS
<1>5. g[{}] = 0
  BY <1>2, <1>4 DEF Sums
<1>6. Stepwise(g, w, S)
  BY <1>3, <1>5 DEF Stepwise
<1>. QED  BY <1>2, <1>6

\* What a fold over five elements adds.
Apart(a, b, c, d, e) ==
    /\ a # b /\ a # c /\ a # d /\ a # e /\ b # c /\ b # d /\ b # e
    /\ c # d /\ c # e /\ d # e
Together(n, w, a, b, c, d, e) == n + w[a] + w[b] + w[c] + w[d] + w[e]
LEMMA FoldOfFive ==
    ASSUME NEW a, NEW b, NEW c, NEW d, NEW e, Apart(a, b, c, d, e), NEW S, S = {a, b, c, d, e},
           NEW w \in [S -> Int], NEW n \in Int
    PROVE  Folded(n, w, S) = Together(n, w, a, b, c, d, e)
<1>1. IsFiniteSet(S)
  <2>1. \A T, x : IsFiniteSet(T) => IsFiniteSet(T \cup {x})
    BY FS_AddElement
  <2>2. IsFiniteSet({} \cup {a})
    BY <2>1, FS_EmptySet
  <2>3. IsFiniteSet(({} \cup {a}) \cup {b})
    BY <2>1, <2>2
  <2>4. IsFiniteSet((({} \cup {a}) \cup {b}) \cup {c})
    BY <2>1, <2>3
  <2>5. IsFiniteSet(((({} \cup {a}) \cup {b}) \cup {c}) \cup {d})
    BY <2>1, <2>4
  <2>6. IsFiniteSet((((({} \cup {a}) \cup {b}) \cup {c}) \cup {d}) \cup {e})
    BY <2>1, <2>5
  <2>7. (((({} \cup {a}) \cup {b}) \cup {c}) \cup {d}) \cup {e} = S
    OBVIOUS
  <2>. QED  BY <2>6, <2>7
<1>2. w \in [S -> Int] /\ [x \in S |-> w[x]] = w /\ \A x \in S : w[x] \in Int
  OBVIOUS
<1>3. a \in S /\ b \in S /\ c \in S /\ d \in S /\ e \in S
  OBVIOUS
<1>4. /\ S \in SUBSET S /\ {b, c, d, e} \in SUBSET S /\ {c, d, e} \in SUBSET S
      /\ {d, e} \in SUBSET S /\ {e} \in SUBSET S /\ {} \in SUBSET S
  OBVIOUS
<1>5. /\ S \ {a} = {b, c, d, e} /\ {b, c, d, e} \ {b} = {c, d, e} /\ {c, d, e} \ {c} = {d, e}
      /\ {d, e} \ {d} = {e} /\ {e} \ {e} = {}
  BY DEF Apart
<1>6. PICK g : Stepwise(g, w, S) /\ Folded(n, w, S) = n + g[S]
  BY <1>1, <1>2, FoldStepwise
<1>7. g[S] = w[a] + g[{b, c, d, e}] /\ g[{b, c, d, e}] = w[b] + g[{c, d, e}]
  <2>1. a \in S /\ b \in {b, c, d, e}
    BY <1>3
  <2>2. \A s \in SUBSET S : \A x \in s : g[s] = w[x] + g[s \ {x}]
    BY <1>6 DEF Stepwise
  <2>3. g[S] = w[a] + g[S \ {a}]
    BY <1>4, <2>1, <2>2
  <2>4. g[{b, c, d, e}] = w[b] + g[{b, c, d, e} \ {b}]
    BY <1>4, <2>1, <2>2, Zenon
  <2>. QED  BY <1>5, <2>3, <2>4
<1>8. g[{c, d, e}] = w[c] + g[{d, e}] /\ g[{d, e}] = w[d] + g[{e}] /\ g[{e}] = w[e] + g[{}]
  <2>1. c \in {c, d, e} /\ d \in {d, e} /\ e \in {e}
    OBVIOUS
  <2>. QED  BY <1>4, <1>5, <1>6, <2>1 DEF Stepwise
<1>9. w[a] \in Int /\ w[b] \in Int /\ w[c] \in Int /\ w[d] \in Int /\ w[e] \in Int
  BY <1>2, <1>3
<1>10. g[S] = w[a] + w[b] + w[c] + w[d] + w[e]
  <2>1. g[{}] = 0
    BY <1>6 DEF Stepwise
  <2>. QED  BY <1>7, <1>8, <1>9, <2>1
<1>11. Folded(n, w, S) = n + w[a] + w[b] + w[c] + w[d] + w[e]
  BY <1>6, <1>9, <1>10
<1>. QED  BY <1>11 DEF Together
=================================================================================
