------------------------------ MODULE Turns_proofs ------------------------------
(***************************************************************************)
(* Who gets a chore, in a behaviour of the server and for every crew,      *)
(* number of chores and points: the strategy picks one of those it may, a  *)
(* rotation rotates, a fair share is one, a sweep settles.  The argument:  *)
(* the order of the keys is total, so somebody comes first and nobody else *)
(* does (ComesFirst); the sweep is a chain of picks (SweepIsFold), so what *)
(* every pick keeps the sweep keeps (SweepKeeps).                          *)
(***************************************************************************)
EXTENDS Server, Sums, FunctionTheorems

-----------------------------------------------------------------------------
(* The order of the keys: compared number by number, from the left.          *)

KeysOf(d) == [1..d -> Int]

LEMMA PrecedesTransitive ==
    ASSUME NEW d \in Nat, NEW a \in KeysOf(d), NEW b \in KeysOf(d), NEW c \in KeysOf(d),
           Precedes(a, b), Precedes(b, c)
    PROVE  Precedes(a, c)
<1>1. PICK i \in 1..d : a[i] < b[i] /\ \A j \in 1..(i - 1) : a[j] = b[j]
  BY DEF Precedes, KeysOf
<1>2. PICK k \in 1..d : b[k] < c[k] /\ \A j \in 1..(k - 1) : b[j] = c[j]
  BY DEF Precedes, KeysOf
<1>3. \A j \in 1..d : a[j] \in Int /\ b[j] \in Int /\ c[j] \in Int
  BY DEF KeysOf
<1>4. ASSUME NEW m \in 1..d, m <= i, m <= k, m = i \/ m = k
      PROVE  a[m] < c[m] /\ \A j \in 1..(m - 1) : a[j] = c[j]
  <2>1. \A j \in 1..(m - 1) : j \in 1..(i - 1) /\ j \in 1..(k - 1) /\ j \in 1..d
    BY <1>4
  <2>2. m = i \/ m \in 1..(i - 1)
    BY <1>4
  <2>3. m = k \/ m \in 1..(k - 1)
    BY <1>4
  <2>4. a[m] < c[m]
    <3>1. a[m] <= b[m] /\ b[m] <= c[m] /\ (a[m] < b[m] \/ b[m] < c[m])
      BY <1>1, <1>2, <1>3, <1>4, <2>2, <2>3
    <3>. QED  BY <1>3, <3>1
  <2>. QED  BY <1>1, <1>2, <2>1, <2>4
<1>5. \E m \in 1..d : m <= i /\ m <= k /\ (m = i \/ m = k)
  <2>1. CASE i <= k
    BY <2>1
  <2>2. CASE k <= i
    BY <2>2
  <2>. QED  BY <2>1, <2>2
<1>. QED  BY <1>4, <1>5 DEF Precedes, KeysOf

LEMMA PrecedesOneWay ==
    ASSUME NEW d \in Nat, NEW a \in KeysOf(d), NEW b \in KeysOf(d), Precedes(a, b)
    PROVE  ~Precedes(b, a)
<1>1. SUFFICES ASSUME Precedes(b, a) PROVE FALSE
  OBVIOUS
<1>2. Precedes(a, a)
  BY <1>1, PrecedesTransitive
<1>. QED  BY <1>2 DEF Precedes, KeysOf

LEMMA PrecedesTotal ==
    ASSUME NEW d \in Nat, NEW a \in KeysOf(d), NEW b \in KeysOf(d), a # b
    PROVE  Precedes(a, b) \/ Precedes(b, a)
<1>. DEFINE D == {i \in 1..d : a[i] # b[i]}
<1>1. D # {} /\ D \in SUBSET Nat
  BY DEF KeysOf
<1>. HIDE DEF D
<1>2. PICK i \in D : \A m \in D : i <= m
  BY <1>1, Smallest
<1>. USE DEF D
<1>3. i \in 1..d /\ a[i] # b[i] /\ \A j \in 1..(i - 1) : a[j] = b[j]
  <2>1. ASSUME NEW j \in 1..(i - 1) PROVE a[j] = b[j]
    <3>1. j \in 1..d /\ ~(i <= j)
      OBVIOUS
    <3>. QED  BY <1>2, <3>1
  <2>. QED  BY <1>2, <2>1
<1>4. a[i] < b[i] \/ b[i] < a[i]
  BY <1>3 DEF KeysOf
<1>. QED  BY <1>3, <1>4 DEF Precedes, KeysOf

\* Of some members whose keys differ one comes first.
First(K, A, m) == m \in A /\ \A o \in A \ {m} : Precedes(K[m], K[o])

LEMMA FirstExists ==
    ASSUME NEW A, IsFiniteSet(A), A # {}, NEW d \in Nat, NEW K \in [A -> KeysOf(d)],
           \A m, o \in A : m # o => K[m] # K[o]
    PROVE  \E m \in A : First(K, A, m)
<1>. DEFINE Q == {S \in SUBSET A : S # {} => \E m \in S : First(K, S, m)}
<1>1. ASSUME NEW S \in SUBSET A, \A x \in S : S \ {x} \in Q PROVE S \in Q
  <2>1. SUFFICES ASSUME S # {} PROVE \E m \in S : First(K, S, m)
    OBVIOUS
  <2>2. PICK x \in S : TRUE
    BY <2>1
  <2>3. CASE S \ {x} = {}
    BY <2>2, <2>3 DEF First
  <2>4. CASE S \ {x} # {}
    <3>1. PICK m \in S \ {x} : First(K, S \ {x}, m)
      BY <1>1, <2>4
    <3>2. K[m] \in KeysOf(d) /\ K[x] \in KeysOf(d) /\ K[m] # K[x]
      OBVIOUS
    <3>3. CASE Precedes(K[m], K[x])
      BY <3>1, <3>3 DEF First
    <3>4. CASE Precedes(K[x], K[m])
      <4>1. ASSUME NEW o \in S \ {x} PROVE Precedes(K[x], K[o])
        <5>1. CASE o = m
          BY <3>4, <5>1
        <5>2. CASE o # m
          <6>1. Precedes(K[m], K[o]) /\ K[o] \in KeysOf(d)
            BY <3>1, <5>2 DEF First
          <6>. QED  BY <3>2, <3>4, <6>1, PrecedesTransitive
        <5>. QED  BY <5>1, <5>2
      <4>. QED  BY <4>1 DEF First
    <3>. QED  BY <3>2, <3>3, <3>4, PrecedesTotal
  <2>. QED  BY <2>3, <2>4
<1>2. Q = SUBSET A
  <2>1. Q \in SUBSET SUBSET A
    OBVIOUS
  <2>. HIDE DEF Q
  <2>. QED  BY <2>1, <1>1, Shrink
<1>. QED  BY <1>2

LEMMA FirstIsOne ==
    ASSUME NEW A, NEW d \in Nat, NEW K, \A m \in A : K[m] \in KeysOf(d), NEW m, NEW o,
           First(K, A, m), First(K, A, o)
    PROVE  m = o
<1>1. SUFFICES ASSUME m # o PROVE FALSE
  OBVIOUS
<1>2. Precedes(K[m], K[o]) /\ Precedes(K[o], K[m]) /\ m \in A /\ o \in A
  BY <1>1 DEF First
<1>. QED  BY <1>2, PrecedesOneWay

-----------------------------------------------------------------------------
(* Who comes first.                                                          *)

LEMMA MaxIsGreatest ==
    ASSUME NEW S \in SUBSET Nat, IsFiniteSet(S), S # {}
    PROVE  Max(S) \in S /\ \A n \in S : Max(S) >= n
<1>. DEFINE Q == {T \in SUBSET S : T # {} => \E m \in T : \A n \in T : m >= n}
<1>1. ASSUME NEW T \in SUBSET S, \A x \in T : T \ {x} \in Q PROVE T \in Q
  <2>1. SUFFICES ASSUME T # {} PROVE \E m \in T : \A n \in T : m >= n
    OBVIOUS
  <2>2. PICK x \in T : TRUE
    BY <2>1
  <2>3. CASE T \ {x} = {}
    BY <2>2, <2>3
  <2>4. CASE T \ {x} # {}
    <3>1. PICK m \in T \ {x} : \A n \in T \ {x} : m >= n
      BY <1>1, <2>4
    <3>2. CASE m >= x
      BY <3>1, <3>2
    <3>3. CASE x >= m
      <4>1. \A n \in T : x >= n
        BY <3>1, <3>3
      <4>. QED  BY <4>1
    <3>. QED  BY <3>2, <3>3
  <2>. QED  BY <2>3, <2>4
<1>2. Q = SUBSET S
  <2>1. Q \in SUBSET SUBSET S
    OBVIOUS
  <2>. HIDE DEF Q
  <2>. QED  BY <2>1, <1>1, Shrink
<1>3. \E m \in S : \A n \in S : m >= n
  BY <1>2
<1>. QED  BY <1>3 DEF Max

LEMMA MinIsLeast ==
    ASSUME NEW S \in SUBSET Nat, S # {}
    PROVE  Min(S) \in S /\ \A n \in S : Min(S) <= n
<1>1. \E m \in S : \A n \in S : m <= n
  BY Smallest
<1>. DEFINE m == CHOOSE x \in S : \A y \in S : x <= y
<1>2. m \in S /\ \A n \in S : m <= n
  BY <1>1
<1>3. Min(S) = m
  BY DEF Min
<1>. QED  BY <1>2, <1>3

LEMMA PlacesInAlphabet ==
    /\ IsFiniteSet(Crew)
    /\ \A m \in Crew : Position(Alphabet, m) \in Nat /\ Alphabet[Position(Alphabet, m)] = m
<1>1. Alphabet \in Seq(Crew) /\ Crew = {Alphabet[i] : i \in DOMAIN Alphabet}
  BY TurnsAssumption DEF ToSet
<1>2. DOMAIN Alphabet = 1..Len(Alphabet) /\ Len(Alphabet) \in Nat
  BY <1>1
<1>3. IsFiniteSet(1..Len(Alphabet))
  BY <1>2, FS_Interval
<1>4. IsFiniteSet(Crew)
  <2>1. Alphabet \in Surjection(1..Len(Alphabet), Crew)
    BY <1>1, <1>2 DEF Surjection
  <2>. QED  BY <2>1, <1>3, FS_Surjection
<1>5. ASSUME NEW m \in Crew
      PROVE  Position(Alphabet, m) \in DOMAIN Alphabet /\ Alphabet[Position(Alphabet, m)] = m
  BY <1>1 DEF Position
<1>. QED  BY <1>2, <1>4, <1>5

Rotas == [Numbers -> Turn]
Fames == [Crew -> [streak: Nat, points: Nat]]

\* TurnsTypeOK, but for the chores.
RulesTypeOK ==
    /\ strategy \in Strategies /\ audience \in Audiences
    /\ fixed \in Crew \cup {NoneOfThem} /\ roster \in Seq(Crew) /\ IsInjective(roster)
    /\ errands \in [Crew -> Nat] /\ fame \in Fames

LEMMA RulesOfTurns == TurnsTypeOK <=> RulesTypeOK /\ rota \in Rotas
BY DEF TurnsTypeOK, RulesTypeOK, Rotas, Fames

LEMMA NumbersFinite ==
    MaxTurns \in Nat /\ IsFiniteSet(Numbers) /\ Numbers \in SUBSET Nat
    /\ \A S \in SUBSET Numbers : IsFiniteSet(S) /\ Cardinality(S) \in Nat
<1>1. MaxTurns \in Nat /\ Numbers = 1..MaxTurns
  BY TurnsAssumption DEF Numbers
<1>2. IsFiniteSet(Numbers)
  BY <1>1, FS_Interval
<1>3. ASSUME NEW S \in SUBSET Numbers PROVE IsFiniteSet(S) /\ Cardinality(S) \in Nat
  BY <1>2, FS_Subset, FS_CardinalityType
<1>4. Numbers \in SUBSET Nat
  BY <1>1
<1>. QED  BY <1>1, <1>2, <1>3, <1>4

LEMMA LoadIsKey ==
    ASSUME RulesTypeOK, NEW t, NEW me, NEW m \in Crew
    PROVE  /\ Carried(t, me, m) \in Nat
           /\ LoadOf(t, me, m)[1] = Carried(t, me, m) + errands[m]
           /\ LoadOf(t, me, m)[2] = OwnPoints * Carried(t, me, m) + ErrandPoints * errands[m]
           /\ LoadOf(t, me, m)[3] = Position(Alphabet, m)
           /\ LoadOf(t, me, m) \in KeysOf(3)
<1>1. {n \in Others(t, me) : t[n].at = "active" /\ t[n].who = m} \in SUBSET Numbers
  BY DEF Others
<1>2. Carried(t, me, m) \in Nat
  BY <1>1, NumbersFinite DEF Carried
<1>. DEFINE c == Carried(t, me, m)
            p == Position(Alphabet, m)
<1>3. c \in Nat /\ p \in Nat /\ errands[m] \in Nat /\ OwnPoints \in Nat /\ ErrandPoints \in Nat
  BY <1>2, PlacesInAlphabet, TurnsAssumption DEF RulesTypeOK
<1>4. LoadOf(t, me, m) = <<c + errands[m], OwnPoints * c + ErrandPoints * errands[m], p>>
  BY DEF LoadOf
<1>. HIDE DEF c, p
<1>5. OwnPoints * c \in Int /\ ErrandPoints * errands[m] \in Int
  BY <1>3
<1>6. OwnPoints * c + ErrandPoints * errands[m] \in Int
  BY <1>5
<1>7. LoadOf(t, me, m) \in KeysOf(3)
  BY <1>3, <1>4, <1>6 DEF KeysOf
<1>. QED  BY <1>2, <1>4, <1>7 DEF c, p

LEMMA Prefixed ==
    ASSUME NEW e \in Nat, NEW d \in Nat, NEW p \in KeysOf(e), NEW k \in KeysOf(d)
    PROVE  /\ p \o k \in KeysOf(e + d)
           /\ \A i \in 1..e : (p \o k)[i] = p[i]
           /\ \A i \in 1..d : (p \o k)[e + i] = k[i]
<1>1. k \in Seq(Int) /\ Len(k) = d /\ p \in Seq(Int) /\ Len(p) = e
  BY DEF KeysOf
<1>2. Len(p \o k) = e + d /\ p \o k \in Seq(Int)
  BY <1>1
<1>3. \A i \in 1..(e + d) : (p \o k)[i] = IF i <= e THEN p[i] ELSE k[i - e]
  BY <1>1
<1>4. ASSUME NEW i \in 1..e PROVE (p \o k)[i] = p[i]
  <2>1. i \in 1..(e + d) /\ i <= e
    OBVIOUS
  <2>. QED  BY <1>3, <2>1
<1>5. ASSUME NEW i \in 1..d PROVE (p \o k)[e + i] = k[i]
  <2>1. e + i \in 1..(e + d) /\ ~(e + i <= e) /\ (e + i) - e = i
    OBVIOUS
  <2>. QED  BY <1>3, <2>1
<1>6. p \o k \in [1..(e + d) -> Int]
  <2>1. ASSUME NEW w \in Seq(Int), Len(w) = e + d PROVE w \in [1..(e + d) -> Int]
    BY <2>1
  <2>. QED  BY <1>2, <2>1, Zenon
<1>7. \A i \in 1..e : (p \o k)[i] = p[i]
  BY <1>4
<1>8. \A i \in 1..d : (p \o k)[e + i] = k[i]
  BY <1>5
<1>. QED  BY <1>6, <1>7, <1>8, Zenon DEF KeysOf

\* When a load grows in its first number, its owner falls behind.
LEMMA MoreIsLater ==
    ASSUME NEW e \in Nat, NEW p \in KeysOf(e), NEW k \in KeysOf(3), NEW j \in KeysOf(3),
           k[1] < j[1]
    PROVE  Precedes(p \o k, p \o j)
<1>1. /\ p \o k \in KeysOf(e + 3) /\ p \o j \in KeysOf(e + 3)
      /\ \A i \in 1..e : (p \o k)[i] = p[i] /\ (p \o j)[i] = p[i]
      /\ (p \o k)[e + 1] = k[1] /\ (p \o j)[e + 1] = j[1]
  <2>1. 3 \in Nat /\ 1 \in 1..3
    OBVIOUS
  <2>. QED  BY <2>1, Prefixed, Zenon
<1>2. e + 1 \in DOMAIN (p \o k)
  <2>1. DOMAIN (p \o k) = 1..(e + 3)
    BY <1>1, Zenon DEF KeysOf
  <2>. QED  BY <2>1
<1>3. \A i \in 1..((e + 1) - 1) : (p \o k)[i] = (p \o j)[i]
  <2>1. (e + 1) - 1 = e
    OBVIOUS
  <2>. QED  BY <1>1, <2>1
<1>4. (p \o k)[e + 1] < (p \o j)[e + 1]
  BY <1>1, Zenon
<1>. QED  BY <1>2, <1>3, <1>4, Zenon DEF Precedes

LEMMA LastDoneIsLatest ==
    ASSUME NEW t \in Rotas, NEW me, NEW m
    PROVE  /\ LastDone(t, me, m) \in Nat
           /\ \A n \in Others(t, me) :
                  t[n].at = "done" /\ t[n].who = m => t[n].done <= LastDone(t, me, m)
           /\ \/ LastDone(t, me, m) = 0
              \/ \E n \in Others(t, me) : /\ t[n].at = "done" /\ t[n].who = m
                                          /\ t[n].done = LastDone(t, me, m)
<1>. DEFINE N == {n \in Others(t, me) : t[n].at = "done" /\ t[n].who = m}
            S == {0} \cup {t[n].done : n \in N}
<1>1. N \subseteq Numbers
  BY DEF Others
<1>2. \A n \in Numbers : t[n].done \in 0..MaxTurns
  BY DEF Rotas, Turn
<1>3. S \subseteq 0..MaxTurns /\ MaxTurns \in Nat
  <2>1. MaxTurns \in Nat /\ 0 \in 0..MaxTurns
    BY NumbersFinite
  <2>2. \A n \in N : t[n].done \in 0..MaxTurns
    BY <1>1, <1>2
  <2>. QED  BY <2>1, <2>2, Zenon
<1>4. IsFiniteSet(S) /\ S \in SUBSET Nat /\ S # {}
  <2>1. IsFiniteSet(0..MaxTurns)
    BY <1>3, FS_Interval
  <2>2. IsFiniteSet(S)
    BY <1>3, <2>1, FS_Subset
  <2>3. 0..MaxTurns \subseteq Nat
    BY <1>3
  <2>. QED  BY <1>3, <2>2, <2>3
<1>5. Max(S) \in S /\ \A n \in S : Max(S) >= n
  <2>. HIDE DEF S
  <2>. QED  BY <1>4, MaxIsGreatest
<1>6. LastDone(t, me, m) = Max(S)
  BY DEF LastDone
<1>7. Max(S) \in Nat
  BY <1>4, <1>5
<1>8. ASSUME NEW n \in N PROVE t[n].done <= Max(S)
  <2>1. t[n].done \in S /\ t[n].done \in Nat
    BY <1>1, <1>2, <1>3
  <2>. HIDE DEF S
  <2>. QED  BY <1>5, <1>7, <2>1
<1>9. Max(S) = 0 \/ \E n \in N : t[n].done = Max(S)
  BY <1>5
<1>. HIDE DEF S
<1>. QED  BY <1>6, <1>7, <1>8, <1>9

LEMMA ShortIsNumber ==
    ASSUME NEW f \in Fames, NEW m \in Crew, NEW k \in {"streak", "points"}
    PROVE  Short(f, m, k) \in Int
<1>. DEFINE S == {f[o][k] : o \in Crew}
            g == [o \in Crew |-> f[o][k]]
<1>1. \A o \in Crew : f[o][k] \in Nat
  BY DEF Fames
<1>2. S \in SUBSET Nat /\ S # {} /\ g \in Surjection(Crew, S)
  BY <1>1 DEF Surjection
<1>3. IsFiniteSet(S)
  <2>. HIDE DEF S, g
  <2>. QED  BY <1>2, PlacesInAlphabet, FS_Surjection
<1>4. Max(S) \in Nat
  <2>. HIDE DEF S
  <2>. QED  BY <1>2, <1>3, MaxIsGreatest
<1>5. Short(f, m, k) = Max(S) - f[m][k]
  BY DEF Short
<1>. HIDE DEF S
<1>. QED  BY <1>1, <1>4, <1>5

\* The key of each member under a strategy that compares: what it looks at first,
\* which no sweep changes, and the load.
Ahead == CASE strategy = "least_recently" -> 1
           [] strategy = "highest_streak" -> 2
           [] OTHER -> 0
Merit(t, f, me, m) ==
    CASE strategy = "least_recently" -> <<LastDone(t, me, m)>>
      [] strategy = "highest_streak" -> <<Short(f, m, "streak"), Short(f, m, "points")>>
      [] OTHER -> <<>>
Rank(t, f, me) == [m \in Crew |-> Merit(t, f, me, m) \o LoadOf(t, me, m)]

LEMMA MeritIsKey ==
    ASSUME NEW t \in Rotas, NEW f \in Fames, NEW me, NEW m \in Crew
    PROVE  Ahead \in Nat /\ Merit(t, f, me, m) \in KeysOf(Ahead)
<1>1. CASE strategy = "least_recently"
  <2>1. LastDone(t, me, m) \in Int
    <3>1. LastDone(t, me, m) \in Nat
      BY LastDoneIsLatest
    <3>. QED  BY <3>1
  <2>2. Ahead = 1 /\ Merit(t, f, me, m) = <<LastDone(t, me, m)>>
    BY <1>1 DEF Ahead, Merit
  <2>3. \A a \in Int : <<a>> \in KeysOf(1)
    BY DEF KeysOf
  <2>. QED  BY <2>1, <2>2, <2>3
<1>2. CASE strategy = "highest_streak"
  <2>1. Short(f, m, "streak") \in Int /\ Short(f, m, "points") \in Int
    BY ShortIsNumber
  <2>2. Ahead = 2 /\ Merit(t, f, me, m) = <<Short(f, m, "streak"), Short(f, m, "points")>>
    BY <1>2 DEF Ahead, Merit
  <2>3. \A a, b \in Int : <<a, b>> \in KeysOf(2)
    BY DEF KeysOf
  <2>. QED  BY <2>1, <2>2, <2>3
<1>3. CASE strategy # "least_recently" /\ strategy # "highest_streak"
  <2>1. Ahead = 0 /\ Merit(t, f, me, m) = <<>>
    BY <1>3 DEF Ahead, Merit
  <2>2. <<>> \in KeysOf(0)
    BY DEF KeysOf
  <2>. QED  BY <2>1, <2>2
<1>. QED  BY <1>1, <1>2, <1>3

LEMMA RankIsKey ==
    ASSUME RulesTypeOK, NEW t \in Rotas, NEW f \in Fames, NEW me
    PROVE  /\ Rank(t, f, me) \in [Crew -> KeysOf(Ahead + 3)]
           /\ \A m, o \in Crew : m # o => Rank(t, f, me)[m] # Rank(t, f, me)[o]
<1>1. ASSUME NEW m \in Crew
      PROVE  /\ Rank(t, f, me)[m] \in KeysOf(Ahead + 3)
             /\ Rank(t, f, me)[m][Ahead + 3] = Position(Alphabet, m)
  <2>1. Rank(t, f, me)[m] = Merit(t, f, me, m) \o LoadOf(t, me, m)
    BY DEF Rank
  <2>2. /\ Ahead \in Nat /\ Merit(t, f, me, m) \in KeysOf(Ahead) /\ LoadOf(t, me, m) \in KeysOf(3)
        /\ LoadOf(t, me, m)[3] = Position(Alphabet, m)
    BY MeritIsKey, LoadIsKey
  <2>3. ASSUME NEW p \in KeysOf(Ahead), NEW k \in KeysOf(3)
        PROVE  p \o k \in KeysOf(Ahead + 3) /\ (p \o k)[Ahead + 3] = k[3]
    <3>1. 3 \in Nat /\ 3 \in 1..3 /\ Ahead \in Nat
      BY <2>2
    <3>. QED  BY <3>1, Prefixed, Zenon
  <2>4. /\ Merit(t, f, me, m) \o LoadOf(t, me, m) \in KeysOf(Ahead + 3)
        /\ (Merit(t, f, me, m) \o LoadOf(t, me, m))[Ahead + 3] = LoadOf(t, me, m)[3]
    BY <2>2, <2>3, Zenon
  <2>. QED  BY <2>1, <2>2, <2>4, Zenon
<1>2. \A m, o \in Crew : m # o => Position(Alphabet, m) # Position(Alphabet, o)
  BY PlacesInAlphabet, Zenon
<1>3. Rank(t, f, me) \in [Crew -> KeysOf(Ahead + 3)]
  BY <1>1 DEF Rank
<1>. QED  BY <1>1, <1>2, <1>3, Zenon

LEMMA AheadIs == Ahead \in Nat /\ Ahead + 3 \in Nat
BY DEF Ahead

LEMMA AbleOnes ==
    ASSUME RulesTypeOK
    PROVE  Able \subseteq Crew /\ IsFiniteSet(Able) /\ \A m \in Able : \E i \in DOMAIN roster : roster[i] = m
<1>1. Able \subseteq Crew /\ \A m \in Able : \E i \in DOMAIN roster : roster[i] = m
  BY DEF Able, ToSet, RulesTypeOK
<1>. QED  BY <1>1, PlacesInAlphabet, FS_Subset

LEMMA ComesFirst ==
    ASSUME RulesTypeOK, NEW t \in Rotas, NEW f \in Fames, NEW me, Able # {}
    PROVE  /\ strategy = "round_robin" => First(Rank(t, f, me), Able, LeastLoaded(t, me))
           /\ strategy \in {"least_recently", "highest_streak"} =>
                  First(Rank(t, f, me), Able, Chosen(t, f, me))
<1>. DEFINE R == Rank(t, f, me)
<1>1. \E m \in Able : First(R, Able, m)
  <2>. DEFINE K == [m \in Able |-> R[m]]
  <2>1. /\ K \in [Able -> KeysOf(Ahead + 3)] /\ Ahead + 3 \in Nat
        /\ \A m, o \in Able : m # o => K[m] # K[o]
    <3>1. Ahead \in Nat
      BY DEF Ahead
    <3>. QED  BY <3>1, AbleOnes, RankIsKey
  <2>2. \A m \in Able : K[m] = R[m]
    OBVIOUS
  <2>. HIDE DEF K, R
  <2>3. PICK m \in Able : First(K, Able, m)
    BY <2>1, AbleOnes, FirstExists
  <2>. QED  BY <2>2, <2>3 DEF First
<1>2. ASSUME NEW m \in Able PROVE R[m] = Merit(t, f, me, m) \o LoadOf(t, me, m)
  BY AbleOnes DEF Rank
<1>3. CASE strategy = "round_robin"
  <2>. DEFINE G(m) == \A o \in Able \ {m} : Precedes(LoadOf(t, me, m), LoadOf(t, me, o))
              c == CHOOSE m \in Able : G(m)
  <2>1. ASSUME NEW m \in Able PROVE R[m] = LoadOf(t, me, m)
    <3>1. Merit(t, f, me, m) = <<>>
      BY <1>3 DEF Merit
    <3>2. m \in Crew
      BY AbleOnes
    <3>3. LoadOf(t, me, m) \in Seq(Int)
      <4>1. LoadOf(t, me, m) \in KeysOf(3)
        BY <3>2, LoadIsKey
      <4>2. ASSUME NEW d \in Nat, NEW k \in KeysOf(d) PROVE k \in Seq(Int)
        BY DEF KeysOf
      <4>3. 3 \in Nat
        OBVIOUS
      <4>. QED  BY <4>1, <4>2, <4>3, Zenon
    <3>4. \A s \in Seq(Int) : <<>> \o s = s
      OBVIOUS
    <3>. QED  BY <1>2, <3>1, <3>3, <3>4
  <2>2. LeastLoaded(t, me) = c
    BY DEF LeastLoaded, Foremost
  <2>. HIDE DEF R
  <2>3. \E m \in Able : G(m)
    BY <1>1, <2>1 DEF First
  <2>4. c \in Able /\ G(c)
    BY <2>3
  <2>. HIDE DEF c
  <2>5. First(R, Able, c)
    BY <2>1, <2>4, Zenon DEF First
  <2>. QED  BY <1>3, <2>2, <2>5 DEF R
<1>4. CASE strategy = "least_recently"
  <2>. DEFINE G(m) == \A o \in Able \ {m} :
                  Precedes(<<LastDone(t, me, m)>> \o LoadOf(t, me, m),
                           <<LastDone(t, me, o)>> \o LoadOf(t, me, o))
              c == CHOOSE m \in Able : G(m)
  <2>1. \A m \in Able : R[m] = <<LastDone(t, me, m)>> \o LoadOf(t, me, m)
    BY <1>2, <1>4 DEF Merit
  <2>2. Chosen(t, f, me) = c
    BY <1>4 DEF Chosen, LeastRecently, Foremost
  <2>. HIDE DEF R
  <2>3. \E m \in Able : G(m)
    BY <1>1, <2>1 DEF First
  <2>4. c \in Able /\ G(c)
    BY <2>3
  <2>. HIDE DEF c
  <2>5. First(R, Able, c)
    BY <2>1, <2>4, Zenon DEF First
  <2>. QED  BY <1>4, <2>2, <2>5 DEF R
<1>5. CASE strategy = "highest_streak"
  <2>. DEFINE K(m) == <<Short(f, m, "streak"), Short(f, m, "points")>> \o LoadOf(t, me, m)
              G(m) == \A o \in Able \ {m} : Precedes(K(m), K(o))
              c == CHOOSE m \in Able : G(m)
  <2>1. \A m \in Able : R[m] = K(m)
    BY <1>2, <1>5 DEF Merit
  <2>2. Chosen(t, f, me) = c
    BY <1>5 DEF Chosen, HighestStreak, Foremost
  <2>. HIDE DEF R, K
  <2>3. \E m \in Able : G(m)
    BY <1>1, <2>1 DEF First
  <2>4. c \in Able /\ G(c)
    BY <2>3
  <2>. HIDE DEF c
  <2>5. First(R, Able, c)
    BY <2>1, <2>4, Zenon DEF First
  <2>. QED  BY <1>5, <2>2, <2>5 DEF R
<1>. QED  BY <1>3, <1>4, <1>5

LEMMA TwoMembers ==
    ASSUME RulesTypeOK, Cardinality(Able) > 1, NEW m
    PROVE  \E o \in Able : o # m
<1>1. SUFFICES ASSUME Able \subseteq {m} PROVE FALSE
  OBVIOUS
<1>2. IsFiniteSet({m}) /\ Cardinality({m}) = 1
  BY FS_Singleton
<1>3. Cardinality(Able) <= 1 /\ Cardinality(Able) \in Nat
  BY <1>1, <1>2, FS_Subset, FS_CardinalityType
<1>. QED  BY <1>3

LEMMA AbleThere ==
    ASSUME RulesTypeOK, Cardinality(Able) > 1
    PROVE  Able # {}
<1>1. Cardinality(Able) > 1
  OBVIOUS
<1>2. \E o \in Able : o # NoneOfThem
  BY <1>1, TwoMembers
<1>. QED  BY <1>2

LEMMA NextSeat ==
    ASSUME NEW S \in SUBSET Nat, NEW p \in S
    PROVE  LET next == Min(IF {i \in S : i > p} = {} THEN S ELSE {i \in S : i > p})
           IN  next \in S /\ (S # {p} => next # p)
<1>1. CASE {i \in S : i > p} # {}
  <2>. DEFINE N == {i \in S : i > p}
  <2>1. Min(N) \in N
    <3>1. N \in SUBSET Nat /\ N # {}
      BY <1>1
    <3>. HIDE DEF N
    <3>. QED  BY <3>1, MinIsLeast
  <2>2. Min(N) \in S /\ Min(N) # p
    <3>1. \A n \in N : n \in S /\ n # p
      OBVIOUS
    <3>. HIDE DEF N
    <3>. QED  BY <2>1, <3>1
  <2>. QED  BY <1>1, <2>2
<1>2. CASE {i \in S : i > p} = {}
  <2>1. Min(S) \in S /\ \A i \in S : Min(S) <= i
    BY MinIsLeast
  <2>2. ASSUME NEW i \in S, i # p PROVE Min(S) # p
    <3>1. ~(i > p) /\ i \in Nat /\ p \in Nat
      BY <1>2
    <3>2. i < p
      BY <2>2, <3>1
    <3>3. Min(S) \in Nat /\ Min(S) <= i
      BY <2>1, Zenon
    <3>. QED  BY <3>1, <3>2, <3>3
  <2>3. S # {p} => \E i \in S : i # p
    OBVIOUS
  <2>. QED  BY <1>2, <2>1, <2>2, <2>3
<1>. QED  BY <1>1, <1>2

LEMMA SeatNumbers ==
    ASSUME RulesTypeOK
    PROVE  /\ DOMAIN roster \in SUBSET Nat
           /\ \A i, j \in DOMAIN roster : roster[i] = roster[j] => i = j
<1>1. ASSUME NEW s \in Seq(Crew) PROVE DOMAIN s \in SUBSET Nat
  <2>1. DOMAIN s = 1..Len(s) /\ Len(s) \in Nat
    OBVIOUS
  <2>. QED  BY <2>1
<1>. QED  BY <1>1 DEF RulesTypeOK, IsInjective

\* The turn passes on to a member who may do the chore, another one if there is one.
LEMMA AfterOne ==
    ASSUME RulesTypeOK, NEW m \in Able
    PROVE  LET after == {i \in Seats : i > Position(roster, m)}
               next == roster[Min(IF after = {} THEN Seats ELSE after)]
           IN  next \in Able /\ (Cardinality(Able) > 1 => next # m)
<1>. DEFINE p == Position(roster, m)
            free == IF {i \in Seats : i > p} = {} THEN Seats ELSE {i \in Seats : i > p}
<1>1. Seats \in SUBSET Nat /\ \A i \in Seats : i \in DOMAIN roster /\ roster[i] \in Able
  BY SeatNumbers DEF Seats
<1>2. p \in DOMAIN roster /\ roster[p] = m
  <2>1. \E i \in DOMAIN roster : roster[i] = m
    BY AbleOnes
  <2>. QED  BY <2>1 DEF Position
<1>3. p \in Seats
  BY <1>2 DEF Seats
<1>. HIDE DEF p
<1>4. Min(free) \in Seats /\ (Seats # {p} => Min(free) # p)
  BY <1>1, <1>3, NextSeat
<1>. HIDE DEF free
<1>5. ASSUME Cardinality(Able) > 1 PROVE Seats # {p}
  <2>1. PICK o \in Able : o # m
    BY <1>5, TwoMembers
  <2>2. PICK i \in DOMAIN roster : roster[i] = o
    BY AbleOnes
  <2>. QED  BY <1>2, <2>1, <2>2 DEF Seats
<1>6. ASSUME Min(free) # p PROVE roster[Min(free)] # m
  BY <1>1, <1>2, <1>4, <1>6, SeatNumbers
<1>7. roster[Min(free)] \in Able /\ (Cardinality(Able) > 1 => roster[Min(free)] # m)
  BY <1>1, <1>4, <1>5, <1>6
<1>. QED  BY <1>7 DEF free, p

LEMMA TurnPasses ==
    ASSUME RulesTypeOK, strategy = "round_robin", Able # {}, NEW t \in Rotas, NEW f \in Fames, NEW me
    PROVE  /\ Chosen(t, f, me) \in Able
           /\ Cardinality(Able) > 1 /\ Others(t, me) # {} =>
                  Chosen(t, f, me) # t[Max(Others(t, me))].who
<1>. DEFINE last == t[Max(Others(t, me))].who
            next(m) == roster[Min(IF {i \in Seats : i > Position(roster, m)} = {} THEN Seats
                                  ELSE {i \in Seats : i > Position(roster, m)})]
<1>1. Chosen(t, f, me) = IF Others(t, me) = {} \/ last \notin Able THEN LeastLoaded(t, me)
                         ELSE next(last)
  BY DEF Chosen, NextInTurn
<1>2. LeastLoaded(t, me) \in Able
  BY ComesFirst DEF First
<1>3. \A m \in Able : next(m) \in Able /\ (Cardinality(Able) > 1 => next(m) # m)
  BY AfterOne
<1>. HIDE DEF last, next
<1>4. Chosen(t, f, me) \in Able
  BY <1>1, <1>2, <1>3
<1>5. Cardinality(Able) > 1 /\ Others(t, me) # {} => Chosen(t, f, me) # last
  BY <1>1, <1>2, <1>3
<1>. QED  BY <1>4, <1>5 DEF last

LEMMA ChosenIsMember ==
    ASSUME RulesTypeOK, NEW t \in Rotas, NEW f \in Fames, NEW me
    PROVE  /\ Chosen(t, f, me) \in Crew \cup {NoneOfThem}
           /\ strategy # "fixed" /\ Able # {} => Chosen(t, f, me) \in Able
<1>1. CASE strategy = "fixed"
  BY <1>1 DEF Chosen, RulesTypeOK
<1>2. CASE strategy # "fixed" /\ Able = {}
  BY <1>2 DEF Chosen
<1>3. CASE strategy # "fixed" /\ Able # {}
  <2>1. strategy \in {"round_robin", "least_recently", "highest_streak"}
    BY <1>3 DEF RulesTypeOK, Strategies
  <2>2. CASE strategy = "round_robin"
    BY <1>3, <2>2, TurnPasses, AbleOnes
  <2>3. CASE strategy \in {"least_recently", "highest_streak"}
    BY <1>3, <2>3, ComesFirst, AbleOnes DEF First
  <2>. QED  BY <2>1, <2>2, <2>3
<1>. QED  BY <1>1, <1>2, <1>3

-----------------------------------------------------------------------------
(* The sweep, chore by chore.                                                *)

\* Folds(g, ...): g is how the folds over the subsets of S are defined.
Folds(g, S, b, step, pick) ==
    g = [s \in SUBSET S |-> IF s = {} THEN b ELSE step[<<pick[s], g[s \ {pick[s]}]>>]]

LEMMA FoldsExist ==
    ASSUME NEW S, IsFiniteSet(S), NEW R, NEW b \in R, NEW step \in [S \X R -> R], NEW pick,
           \A s \in SUBSET S : s # {} => pick[s] \in s
    PROVE  \E g \in [SUBSET S -> R] : Folds(g, S, b, step, pick)
<1>. DEFINE Rest(s) == s \ {pick[s]}
            Further(h, s) == IF s = {} THEN b ELSE step[<<pick[s], h[Rest(s)]>>]
            Good(n, g) == \A s \in SUBSET S : Cardinality(s) <= n => g[s] = Further(g, s)
            N == {n \in Nat : \E g \in [SUBSET S -> R] : Good(n, g)}
<1>1. \A s \in SUBSET S : /\ IsFiniteSet(s) /\ Cardinality(s) \in Nat
                          /\ Cardinality(s) = 0 => s = {}
                          /\ Cardinality(s) <= Cardinality(S)
  BY FS_Subset, FS_CardinalityType, FS_EmptySet
<1>2. \A s \in SUBSET S : s # {} => /\ pick[s] \in S /\ Rest(s) \in SUBSET S
                                    /\ Cardinality(Rest(s)) = Cardinality(s) - 1
  <2>1. ASSUME NEW s \in SUBSET S, NEW x \in s PROVE Cardinality(s \ {x}) = Cardinality(s) - 1
    BY <1>1, FS_RemoveElement
  <2>. QED  BY <2>1
<1>. HIDE DEF Rest
<1>3. 0 \in N
  <2>1. [s \in SUBSET S |-> b] \in [SUBSET S -> R]
    OBVIOUS
  <2>2. Good(0, [s \in SUBSET S |-> b])
    <3>1. \A s \in SUBSET S : Cardinality(s) <= 0 => s = {}
      BY <1>1
    <3>. QED  BY <3>1
  <2>. HIDE DEF Good
  <2>. QED  BY <2>1, <2>2
<1>4. ASSUME NEW n \in N PROVE n + 1 \in N
  <2>1. PICK g \in [SUBSET S -> R] : Good(n, g)
    OBVIOUS
  <2>2. PICK h : h = [s \in SUBSET S |-> Further(g, s)]
    OBVIOUS
  <2>3. h \in [SUBSET S -> R]
    <3>1. ASSUME NEW s \in SUBSET S PROVE Further(g, s) \in R
      <4>1. CASE s = {}
        BY <4>1
      <4>2. CASE s # {}
        <5>1. <<pick[s], g[Rest(s)]>> \in S \X R
          BY <1>2, <4>2
        <5>. QED  BY <4>2, <5>1
      <4>. QED  BY <4>1, <4>2
    <3>. HIDE DEF Further
    <3>. QED  BY <2>2, <3>1
  <2>4. ASSUME NEW s \in SUBSET S, Cardinality(s) <= n PROVE h[s] = g[s]
    <3>. HIDE DEF Further
    <3>. QED  BY <2>1, <2>2, <2>4
  <2>5. ASSUME NEW s \in SUBSET S, Cardinality(s) <= n + 1 PROVE h[s] = Further(h, s)
    <3>1. CASE s = {}
      BY <2>2, <3>1
    <3>2. CASE s # {}
      <4>1. Rest(s) \in SUBSET S /\ Cardinality(Rest(s)) <= n
        BY <1>1, <1>2, <2>5, <3>2
      <4>2. h[Rest(s)] = g[Rest(s)]
        BY <4>1, <2>4
      <4>. QED  BY <2>2, <3>2, <4>2
    <3>. QED  BY <3>1, <3>2
  <2>6. Good(n + 1, h) /\ n + 1 \in Nat
    <3>. HIDE DEF Further
    <3>. QED  BY <2>5
  <2>. HIDE DEF Good
  <2>. QED  BY <2>3, <2>6
<1>5. N = Nat
  <2>1. N \in SUBSET Nat
    OBVIOUS
  <2>. HIDE DEF N
  <2>. QED  BY <2>1, <1>3, <1>4, Climb
<1>6. PICK g \in [SUBSET S -> R] : Good(Cardinality(S), g)
  <2>1. Cardinality(S) \in N
    BY <1>1, <1>5
  <2>. QED  BY <2>1
<1>7. g = [s \in SUBSET S |-> Further(g, s)]
  <2>. HIDE DEF Further
  <2>. QED  BY <1>1, <1>6
<1>. QED  BY <1>7 DEF Folds, Rest

LEMMA LastDueIsOne ==
    ASSUME NEW t \in Rotas, NEW S \in SUBSET Numbers, S # {}
    PROVE  LastDue(t, S) \in S
<1>. DEFINE D == {t[n].due : n \in S}
            d == Max(D)
            T == {n \in S : t[n].due = d}
            n == Max(T)
<1>1. \A i \in S : t[i].due \in 0..2 /\ i \in Nat
  BY NumbersFinite DEF Rotas, Turn
<1>2. D \in SUBSET Nat /\ IsFiniteSet(D) /\ D # {}
  <2>1. D \subseteq 0..2 /\ D # {}
    BY <1>1
  <2>2. IsFiniteSet(0..2) /\ 0..2 \subseteq Nat
    <3>1. 0 \in Int /\ 2 \in Int /\ 0..2 \subseteq Nat
      OBVIOUS
    <3>. QED  BY <3>1, FS_Interval, Zenon
  <2>. HIDE DEF D
  <2>3. IsFiniteSet(D)
    BY <2>1, <2>2, FS_Subset, Zenon
  <2>. QED  BY <2>1, <2>2, <2>3, Zenon
<1>3. d \in D /\ \A i \in D : d >= i
  <2>. HIDE DEF D
  <2>. QED  BY <1>2, MaxIsGreatest
<1>4. d \in Nat /\ \A i \in S : t[i].due <= d
  <2>1. \A i \in S : t[i].due \in D
    OBVIOUS
  <2>. HIDE DEF D, d
  <2>. QED  BY <1>1, <1>2, <1>3, <2>1
<1>5. T \in SUBSET Numbers /\ T # {} /\ T \in SUBSET Nat
  <2>1. \E i \in S : t[i].due = d
    BY <1>3
  <2>. HIDE DEF d
  <2>. QED  BY <2>1, <1>1
<1>. HIDE DEF D, d
<1>6. n \in T /\ \A i \in T : n >= i
  <2>. HIDE DEF T
  <2>. QED  BY <1>5, NumbersFinite, MaxIsGreatest
<1>7. n \in S /\ t[n].due = d
  BY <1>6
<1>8. ASSUME NEW i \in S \ {n} PROVE Sooner(t, i, n)
  <2>1. t[i].due <= d /\ t[i].due \in Nat /\ d \in Nat /\ i \in Nat /\ n \in Nat
    BY <1>1, <1>4, <1>7
  <2>2. t[i].due = d => n >= i /\ i # n
    BY <1>6
  <2>. HIDE DEF n, T
  <2>. QED  BY <1>7, <2>1, <2>2 DEF Sooner
<1>. HIDE DEF n
<1>9. \E x \in S : \A i \in S \ {x} : Sooner(t, i, x)
  BY <1>7, <1>8
<1>. QED  BY <1>9 DEF LastDue

LEMMA ReassignedIs ==
    ASSUME TurnsTypeOK, NEW t \in Rotas, NEW f \in Fames, NEW n
    PROVE  /\ Reassigned(t, f, n) \in Rotas
           /\ \A i \in Numbers : i # n => Reassigned(t, f, n)[i] = t[i]
           /\ n \in Numbers => /\ Reassigned(t, f, n)[n].at = t[n].at
                               /\ Reassigned(t, f, n)[n].due = t[n].due
                               /\ Reassigned(t, f, n)[n].done = t[n].done
                               /\ Reassigned(t, f, n)[n].how = "rule"
                               /\ Reassigned(t, f, n)[n].who = Chosen(t, f, n)
<1>. DEFINE m == Chosen(t, f, n)
<1>1. m \in Crew \cup {NoneOfThem}
  BY RulesOfTurns, ChosenIsMember
<1>2. Reassigned(t, f, n) = [t EXCEPT ![n].who = m, ![n].how = "rule"]
  BY DEF Reassigned
<1>. HIDE DEF m
<1>3. CASE n \in Numbers
  <2>1. [t[n] EXCEPT !.who = m, !.how = "rule"] \in Turn
    BY <1>1, <1>3 DEF Rotas, Turn
  <2>2. Reassigned(t, f, n) = [t EXCEPT ![n] = [t[n] EXCEPT !.who = m, !.how = "rule"]]
    BY <1>2, <1>3 DEF Rotas
  <2>3. t[n] \in Turn
    BY <1>3 DEF Rotas
  <2>. QED  BY <1>3, <2>1, <2>2, <2>3 DEF Rotas, Turn, m
<1>4. CASE n \notin Numbers
  <2>1. Reassigned(t, f, n) = t
    BY <1>2, <1>4 DEF Rotas
  <2>. QED  BY <1>4, <2>1
<1>. QED  BY <1>3, <1>4

\* g holds the chores after each part of a sweep that ends with the last to be due.
Sweeping(g, t, f, D) ==
    /\ g \in [SUBSET D -> Rotas] /\ g[{}] = t
    /\ \A s \in SUBSET D : s # {} =>
           /\ LastDue(t, s) \in s
           /\ g[s] = Reassigned(g[s \ {LastDue(t, s)}], f, LastDue(t, s))

LEMMA SweepIsFold ==
    ASSUME TurnsTypeOK, NEW t \in Rotas, NEW f \in Fames, NEW spared
    PROVE  \E g : Sweeping(g, t, f, Loose(t) \ spared) /\ Swept(t, f, spared) = g[Loose(t) \ spared]
<1>. DEFINE D == Loose(t) \ spared
            F(h) == [s \in SUBSET D |-> IF s = {} THEN t
                       ELSE Reassigned(h[s \ {LastDue(t, s)}], f, LastDue(t, s))]
            k == CHOOSE h : h = F(h)
            step == [x \in D \X Rotas |-> Reassigned(x[2], f, x[1])]
            pick == [s \in SUBSET D |-> LastDue(t, s)]
<1>1. D \in SUBSET Numbers /\ IsFiniteSet(D)
  BY NumbersFinite DEF Loose
<1>2. Swept(t, f, spared) = k[D]
  BY DEF Swept, MapThenFoldSet
<1>3. step \in [D \X Rotas -> Rotas]
  <2>1. \A x \in D \X Rotas : Reassigned(x[2], f, x[1]) \in Rotas
    BY ReassignedIs
  <2>. QED  BY <2>1
<1>4. ASSUME NEW s \in SUBSET D, s # {} PROVE LastDue(t, s) \in s
  BY <1>1, <1>4, LastDueIsOne
<1>. HIDE DEF D
<1>5. PICK g \in [SUBSET D -> Rotas] : Folds(g, D, t, step, pick)
  <2>1. \A s \in SUBSET D : s # {} => pick[s] \in s
    BY <1>4
  <2>. HIDE DEF step, pick
  <2>. QED  BY <1>1, <1>3, <2>1, FoldsExist
<1>6. ASSUME NEW s \in SUBSET D
      PROVE  g[s] = IF s = {} THEN t
                    ELSE Reassigned(g[s \ {LastDue(t, s)}], f, LastDue(t, s))
  <2>1. pick[s] = LastDue(t, s)
    OBVIOUS
  <2>2. g[s] = IF s = {} THEN t ELSE step[<<pick[s], g[s \ {pick[s]}]>>]
    <3>. HIDE DEF step, pick
    <3>. QED  BY <1>5 DEF Folds
  <2>3. ASSUME s # {}
        PROVE  step[<<LastDue(t, s), g[s \ {LastDue(t, s)}]>>]
                 = Reassigned(g[s \ {LastDue(t, s)}], f, LastDue(t, s))
    <3>1. LastDue(t, s) \in D /\ g[s \ {LastDue(t, s)}] \in Rotas
      BY <1>4, <2>3
    <3>2. ASSUME NEW i \in D, NEW u \in Rotas PROVE step[<<i, u>>] = Reassigned(u, f, i)
      OBVIOUS
    <3>. HIDE DEF step
    <3>. QED  BY <3>1, <3>2, Zenon
  <2>. HIDE DEF step, pick
  <2>. QED  BY <2>1, <2>2, <2>3
<1>7. g = F(g)
  <2>. HIDE DEF pick, step
  <2>. QED  BY <1>6
<1>8. k = F(k)
  <2>. HIDE DEF F
  <2>. QED  BY <1>7
<1>. HIDE DEF k
<1>9. ASSUME NEW s \in SUBSET D
      PROVE  k[s] = IF s = {} THEN t
                    ELSE Reassigned(k[s \ {LastDue(t, s)}], f, LastDue(t, s))
  BY <1>8
<1>10. k \in [SUBSET D -> Rotas]
  <2>. DEFINE Q == {s \in SUBSET D : k[s] \in Rotas}
  <2>1. ASSUME NEW s \in SUBSET D, \A x \in s : s \ {x} \in Q PROVE s \in Q
    <3>1. CASE s = {}
      BY <1>9, <3>1
    <3>2. CASE s # {}
      <4>1. LastDue(t, s) \in s /\ k[s \ {LastDue(t, s)}] \in Rotas
        BY <1>4, <2>1, <3>2
      <4>2. k[s] = Reassigned(k[s \ {LastDue(t, s)}], f, LastDue(t, s))
        BY <1>9, <3>2
      <4>3. k[s] \in Rotas
        BY <4>1, <4>2, ReassignedIs
      <4>. QED  BY <4>3
    <3>. QED  BY <3>1, <3>2
  <2>2. Q = SUBSET D
    <3>1. Q \in SUBSET SUBSET D
      OBVIOUS
    <3>. HIDE DEF Q
    <3>. QED  BY <3>1, <2>1, <1>1, Shrink
  <2>3. \A s \in SUBSET D : k[s] \in Rotas
    BY <2>2
  <2>4. k = [s \in SUBSET D |-> k[s]]
    BY <1>8
  <2>. HIDE DEF Q
  <2>. QED  BY <2>3, <2>4
<1>11. k[{}] = t
  BY <1>9
<1>12. Sweeping(k, t, f, D)
  BY <1>4, <1>9, <1>10, <1>11 DEF Sweeping
<1>. QED  BY <1>2, <1>12 DEF D

\* What each new assignment keeps, a sweep keeps.
LEMMA SweepKeeps ==
    ASSUME TurnsTypeOK, NEW t \in Rotas, NEW f \in Fames, NEW spared, NEW P \in SUBSET Rotas,
           t \in P, \A u \in P : \A n \in Loose(t) \ spared : Reassigned(u, f, n) \in P
    PROVE  Swept(t, f, spared) \in P
<1>. DEFINE D == Loose(t) \ spared
<1>1. PICK g : Sweeping(g, t, f, D) /\ Swept(t, f, spared) = g[D]
  BY SweepIsFold
<1>2. IsFiniteSet(D)
  BY NumbersFinite DEF Loose
<1>3. \A u \in P : \A n \in D : Reassigned(u, f, n) \in P
  OBVIOUS
<1>. HIDE DEF D
<1>. DEFINE Q == {s \in SUBSET D : g[s] \in P}
<1>4. ASSUME NEW s \in SUBSET D, \A x \in s : s \ {x} \in Q PROVE s \in Q
  <2>1. CASE s = {}
    BY <1>1, <2>1 DEF Sweeping
  <2>2. CASE s # {}
    <3>1. /\ LastDue(t, s) \in s
          /\ g[s] = Reassigned(g[s \ {LastDue(t, s)}], f, LastDue(t, s))
      BY <1>1, <2>2 DEF Sweeping
    <3>2. g[s \ {LastDue(t, s)}] \in P /\ LastDue(t, s) \in D
      BY <1>4, <3>1
    <3>. QED  BY <1>3, <3>1, <3>2
  <2>. QED  BY <2>1, <2>2
<1>5. Q = SUBSET D
  <2>1. Q \in SUBSET SUBSET D
    OBVIOUS
  <2>. HIDE DEF Q
  <2>. QED  BY <2>1, <1>2, <1>4, Shrink
<1>. QED  BY <1>1, <1>5

LEMMA SweepIsRota ==
    ASSUME TurnsTypeOK, NEW t \in Rotas, NEW f \in Fames, NEW spared
    PROVE  Swept(t, f, spared) \in Rotas
<1>1. \A u \in Rotas : \A n \in Loose(t) \ spared : Reassigned(u, f, n) \in Rotas
  BY ReassignedIs
<1>2. Rotas \in SUBSET Rotas
  OBVIOUS
<1>. QED  BY <1>1, <1>2, SweepKeeps

-----------------------------------------------------------------------------
(* The chores stay well formed.                                              *)

LEMMA RoomInRota ==
    ASSUME TurnsTypeOK
    PROVE  /\ Cardinality(Made) \in Nat
           /\ RoomLeft <=> Cardinality(Made) + 1 <= MaxTurns
           /\ NextNumber = Cardinality(Made) + 1
<1>1. Cardinality(Made) \in Nat /\ MaxTurns \in Nat
  BY NumbersFinite DEF Made
<1>2. \A c \in Nat : c + 1 \in Numbers <=> c + 1 <= MaxTurns
  BY <1>1 DEF Numbers
<1>. QED  BY <1>1, <1>2 DEF RoomLeft, NextNumber

LEMMA PlacedIs ==
    ASSUME TurnsTypeOK, RoomLeft, NEW t \in Rotas, NEW m \in Crew \cup {NoneOfThem},
           NEW how \in {"rule", "hand", "sticky"}, NEW dueAt \in 0..2
    PROVE  /\ Placed(t, m, how, dueAt) \in Rotas
           /\ \A i \in Numbers : i # NextNumber => Placed(t, m, how, dueAt)[i] = t[i]
           /\ NextNumber \in Numbers
           /\ Placed(t, m, how, dueAt)[NextNumber] =
                  [at |-> "active", who |-> m, how |-> how, due |-> dueAt, done |-> 0]
<1>. DEFINE row == [at |-> "active", who |-> m, how |-> how, due |-> dueAt, done |-> 0]
<1>1. row \in Turn
  <2>1. 0 \in 0..MaxTurns
    BY NumbersFinite
  <2>. QED  BY <2>1 DEF Turn
<1>3. Placed(t, m, how, dueAt) = [t EXCEPT ![NextNumber] = row] /\ NextNumber \in Numbers
  BY DEF Placed, RoomLeft
<1>. HIDE DEF row
<1>4. /\ Placed(t, m, how, dueAt) \in Rotas
      /\ \A i \in Numbers : i # NextNumber => Placed(t, m, how, dueAt)[i] = t[i]
      /\ Placed(t, m, how, dueAt)[NextNumber] = row
  BY <1>1, <1>3 DEF Rotas
<1>. QED  BY <1>3, <1>4 DEF row

\* A completion is stamped with the next number.
Stamp == 1 + Cardinality({x \in Made : rota[x].at = "done"})
Closed(n) == [rota EXCEPT ![n].at = "done", ![n].done = Stamp]

LEMMA ClosedIs ==
    ASSUME TurnsTypeOK, NEW n \in Active
    PROVE  /\ Stamp \in 1..MaxTurns /\ n \in Numbers
           /\ Closed(n) = [rota EXCEPT ![n] = [rota[n] EXCEPT !.at = "done", !.done = Stamp]]
           /\ Closed(n) \in Rotas
<1>. DEFINE T == {x \in Made : rota[x].at = "done"}
<1>1. n \in Numbers /\ rota[n].at = "active" /\ n \notin T
  BY DEF Active, Made
<1>2. T \subseteq Numbers \ {n}
  BY <1>1 DEF Made
<1>3. IsFiniteSet(Numbers \ {n}) /\ Cardinality(Numbers \ {n}) = MaxTurns - 1
  <2>1. IsFiniteSet(Numbers) /\ Cardinality(Numbers) = MaxTurns
    BY NumbersFinite, FS_Interval DEF Numbers
  <2>. QED  BY <1>1, <2>1, FS_RemoveElement
<1>4. Cardinality(T) <= MaxTurns - 1 /\ Cardinality(T) \in Nat
  BY <1>2, <1>3, FS_Subset, FS_CardinalityType
<1>5. Stamp \in 1..MaxTurns
  BY <1>4, NumbersFinite DEF Stamp
<1>6. rota[n] \in Turn /\ rota \in [Numbers -> Turn]
  BY <1>1 DEF TurnsTypeOK
<1>7. Closed(n) = [rota EXCEPT ![n] = [rota[n] EXCEPT !.at = "done", !.done = Stamp]]
  BY <1>6 DEF Closed
<1>8. [rota[n] EXCEPT !.at = "done", !.done = Stamp] \in Turn
  <2>1. Stamp \in 0..MaxTurns
    BY <1>5
  <2>. QED  BY <1>6, <2>1 DEF Turn
<1>. QED  BY <1>1, <1>5, <1>6, <1>7, <1>8 DEF Rotas

LEMMA FewerTurns ==
    ASSUME TurnsTypeOK, NEW n \in Numbers
    PROVE  /\ [rota EXCEPT ![n].at = "cancelled"] \in Rotas
           /\ [rota EXCEPT ![n].due = 0] \in Rotas
           /\ \A m \in Crew : [rota EXCEPT ![n].who = m, ![n].how = "hand"] \in Rotas
<1>1. rota[n] \in Turn /\ rota \in Rotas
  BY DEF TurnsTypeOK, Rotas
<1>2. [rota EXCEPT ![n].at = "cancelled"] \in Rotas
  <2>1. [rota[n] EXCEPT !.at = "cancelled"] \in Turn
    BY <1>1 DEF Turn
  <2>2. [rota EXCEPT ![n].at = "cancelled"] = [rota EXCEPT ![n] = [rota[n] EXCEPT !.at = "cancelled"]]
    BY <1>1 DEF Rotas
  <2>. QED  BY <1>1, <2>1, <2>2 DEF Rotas
<1>3. [rota EXCEPT ![n].due = 0] \in Rotas
  <2>1. [rota[n] EXCEPT !.due = 0] \in Turn
    BY <1>1 DEF Turn
  <2>2. [rota EXCEPT ![n].due = 0] = [rota EXCEPT ![n] = [rota[n] EXCEPT !.due = 0]]
    BY <1>1 DEF Rotas
  <2>. QED  BY <1>1, <2>1, <2>2 DEF Rotas
<1>4. ASSUME NEW m \in Crew PROVE [rota EXCEPT ![n].who = m, ![n].how = "hand"] \in Rotas
  <2>1. [rota[n] EXCEPT !.who = m, !.how = "hand"] \in Turn
    BY <1>1 DEF Turn
  <2>2. [rota EXCEPT ![n].who = m, ![n].how = "hand"]
          = [rota EXCEPT ![n] = [rota[n] EXCEPT !.who = m, !.how = "hand"]]
    BY <1>1 DEF Rotas
  <2>. QED  BY <1>1, <2>1, <2>2 DEF Rotas
<1>. QED  BY <1>2, <1>3, <1>4

LEMMA RenewedIs ==
    ASSUME TurnsTypeOK, RoomLeft, NEW t \in Rotas, NEW f \in Fames, NEW dueAt \in 0..2
    PROVE  /\ Renewed(t, f, dueAt) = Placed(t, Chosen(t, f, 0), "rule", dueAt)
           /\ Renewed(t, f, dueAt) \in Rotas
<1>1. Chosen(t, f, 0) \in Crew \cup {NoneOfThem}
  BY RulesOfTurns, ChosenIsMember
<1>. QED  BY <1>1, PlacedIs DEF Renewed

\* What becomes of the fame of a member who completes a chore.
LEMMA FameGrows ==
    ASSUME TurnsTypeOK, NEW n \in Numbers, rota[n].who # NoneOfThem,
           fame' = [fame EXCEPT ![rota[n].who] =
                        [streak |-> @.streak + 1, points |-> @.points + OwnPoints]]
    PROVE  fame' \in Fames
<1>1. rota[n].who \in Crew
  BY DEF TurnsTypeOK, Turn
<1>2. fame \in Fames /\ OwnPoints \in Nat
  BY TurnsAssumption DEF TurnsTypeOK, Fames
<1>3. [streak |-> fame[rota[n].who].streak + 1, points |-> fame[rota[n].who].points + OwnPoints]
          \in [streak : Nat, points : Nat]
  BY <1>1, <1>2 DEF Fames
<1>. QED  BY <1>1, <1>2, <1>3 DEF Fames

LEMMA TurnsTyped ==
    ASSUME TurnsTypeOK, NEW some, TurnsNext(some)
    PROVE  TurnsTypeOK'
<1>0. rota \in Rotas /\ fame \in Fames
  BY DEF TurnsTypeOK, Rotas, Fames
<1>1. ASSUME rota' \in Rotas, fame' \in Fames, UNCHANGED <<strategy, audience, fixed, roster, errands>>
      PROVE  TurnsTypeOK'
  BY <1>1 DEF TurnsTypeOK, Rotas, Fames
<1>2. ASSUME NEW n \in Active, FreezeTurn(n) PROVE TurnsTypeOK'
  <2>1. n \in Numbers
    BY DEF Active, Made
  <2>2. rota' \in Rotas
    BY <1>2, <2>1, FewerTurns DEF FreezeTurn
  <2>. QED  BY <1>0, <1>1, <1>2, <2>2 DEF FreezeTurn
<1>3. ASSUME NEW n \in Active, NEW dueAt \in {0, 2}, CompleteTurn(n, dueAt) PROVE TurnsTypeOK'
  <2>1. fame' \in Fames /\ n \in Numbers
    BY <1>3, FameGrows DEF CompleteTurn, Active, Made
  <2>2. Closed(n) \in Rotas
    BY ClosedIs
  <2>3. Renewed(Closed(n), fame', dueAt) \in Rotas
    BY <1>3, <2>1, <2>2, RenewedIs DEF CompleteTurn
  <2>4. rota' = Swept(Renewed(Closed(n), fame', dueAt), fame', {})
    BY <1>3 DEF CompleteTurn, Closed, Stamp
  <2>5. rota' \in Rotas
    BY <2>1, <2>3, <2>4, SweepIsRota
  <2>. QED  BY <1>1, <1>3, <2>1, <2>5 DEF CompleteTurn
<1>4. ASSUME NEW n \in Active, NEW dueAt \in {0, 2}, CancelTurn(n, dueAt) PROVE TurnsTypeOK'
  <2>1. [rota EXCEPT ![n].at = "cancelled"] \in Rotas /\ RoomLeft
    BY <1>4, FewerTurns DEF CancelTurn, Active, Made
  <2>2. Renewed([rota EXCEPT ![n].at = "cancelled"], fame, dueAt) \in Rotas
    BY <1>0, <2>1, RenewedIs
  <2>3. rota' \in Rotas
    BY <1>0, <1>4, <2>2, SweepIsRota DEF CancelTurn
  <2>. QED  BY <1>0, <1>1, <1>4, <2>3 DEF CancelTurn
<1>5. ASSUME NEW m \in ToSet(roster) PROVE m \in Crew
  BY DEF ToSet, TurnsTypeOK
<1>6. ASSUME NEW n \in Active, NEW m \in Crew, TakeTurn(n, m) PROVE TurnsTypeOK'
  <2>1. [rota EXCEPT ![n].who = m, ![n].how = "hand"] \in Rotas
    BY FewerTurns DEF Active, Made
  <2>2. rota' \in Rotas
    BY <1>0, <1>6, <2>1, SweepIsRota DEF TakeTurn
  <2>. QED  BY <1>0, <1>1, <1>6, <2>2 DEF TakeTurn
<1>7. ASSUME NEW n \in Active, ReassignTurn(n) PROVE TurnsTypeOK'
  <2>1. Reassigned(rota, fame, n) \in Rotas
    BY <1>0, ReassignedIs
  <2>2. rota' \in Rotas
    BY <1>0, <1>7, <2>1, SweepIsRota DEF ReassignTurn
  <2>. QED  BY <1>0, <1>1, <1>7, <2>2 DEF ReassignTurn
<1>8. ASSUME NEW dueAt \in {0, 1}, CreateTurn(dueAt) PROVE TurnsTypeOK'
  <2>1. \A m \in ToSet(roster) : Placed(rota, m, "hand", dueAt) \in Rotas
    <3>1. RoomLeft /\ dueAt \in 0..2
      BY <1>8 DEF CreateTurn
    <3>. QED  BY <1>0, <1>5, <3>1, PlacedIs
  <2>2. Renewed(rota, fame, dueAt) \in Rotas
    BY <1>0, <1>8, RenewedIs DEF CreateTurn
  <2>3. rota' \in Rotas
    BY <1>0, <1>8, <2>1, <2>2, SweepIsRota DEF CreateTurn
  <2>. QED  BY <1>0, <1>1, <1>8, <2>3 DEF CreateTurn
<1>9. ASSUME NEW m \in Crew, NEW dueAt \in {0, 1}, FollowTurn(m, dueAt) PROVE TurnsTypeOK'
  <2>1. Placed(rota, m, "sticky", dueAt) \in Rotas
    <3>1. RoomLeft /\ dueAt \in 0..2
      BY <1>9 DEF FollowTurn
    <3>. QED  BY <1>0, <3>1, PlacedIs
  <2>2. Renewed(rota, fame, dueAt) \in Rotas
    BY <1>0, <1>9, RenewedIs DEF FollowTurn
  <2>3. rota' \in Rotas
    BY <1>0, <1>9, <2>1, <2>2, SweepIsRota DEF FollowTurn
  <2>. QED  BY <1>0, <1>1, <1>9, <2>3 DEF FollowTurn
<1>10. ASSUME NEW m \in Crew, JoinCrew(m) PROVE TurnsTypeOK'
  <2>1. roster' = Append(roster, m) /\ m \notin ToSet(roster) /\ roster \in Seq(Crew) /\ IsInjective(roster)
    BY <1>10 DEF JoinCrew, TurnsTypeOK
  <2>2. roster' \in Seq(Crew)
    BY <2>1
  <2>3. /\ Len(roster') = Len(roster) + 1 /\ Len(roster) \in Nat
        /\ DOMAIN roster = 1..Len(roster) /\ DOMAIN roster' = 1..Len(roster')
        /\ roster'[Len(roster) + 1] = m /\ \A i \in 1..Len(roster) : roster'[i] = roster[i]
    BY <2>1
  <2>4. \A i \in 1..Len(roster) : roster[i] # m
    BY <2>1, <2>3 DEF ToSet
  <2>5. ASSUME NEW i \in DOMAIN roster', NEW j \in DOMAIN roster', roster'[i] = roster'[j] PROVE i = j
    <3>1. \A k \in DOMAIN roster' : k = Len(roster) + 1 \/ k \in 1..Len(roster)
      BY <2>3
    <3>2. \A k, l \in 1..Len(roster) : roster[k] = roster[l] => k = l
      BY <2>1, <2>3 DEF IsInjective
    <3>3. CASE i \in 1..Len(roster) /\ j \in 1..Len(roster)
      BY <2>3, <2>5, <3>2, <3>3, Zenon
    <3>4. CASE i = Len(roster) + 1 \/ j = Len(roster) + 1
      BY <2>3, <2>4, <2>5, <3>1, <3>4, Zenon
    <3>. QED  BY <3>1, <3>3, <3>4
  <2>6. IsInjective(roster)'
    BY <2>5 DEF IsInjective
  <2>. QED  BY <1>10, <2>2, <2>6 DEF JoinCrew, TurnsTypeOK
<1>. QED  BY <1>2, <1>3, <1>4, <1>6, <1>7, <1>8, <1>9, <1>10 DEF TurnsNext

-----------------------------------------------------------------------------
(* Taking turns.                                                             *)

\* The first k numbers are the chores made; members have them all; and the two
\* newest went to different members if the strategy gave out both.
Numbered(t, k) ==
    \A n \in Numbers : /\ t[n].at # "unborn" <=> n <= k
                       /\ n <= k => t[n].who \in Crew
NewestDiffer(t, k) ==
    k > 1 /\ t[k].how = "rule" /\ t[k - 1].how = "rule" => t[k].who # t[k - 1].who
Rotating(k) == {t \in Rotas : Numbered(t, k) /\ NewestDiffer(t, k)}

TurnInv == TurnsTypeOK /\ Cardinality(Able) > 1
           /\ (strategy = "round_robin" => \E k \in 0..MaxTurns : rota \in Rotating(k))

LEMMA OthersAre ==
    ASSUME NEW k \in 0..MaxTurns, NEW t \in Rotas, Numbered(t, k), NEW me
    PROVE  Others(t, me) = (1..k) \ {me}
<1>1. ASSUME NEW n \in Numbers, n <= k PROVE t[n].who # NoneOfThem
  BY <1>1, TurnsAssumption DEF Numbered
<1>2. \A n : n \in 1..k <=> n \in Numbers /\ n <= k
  BY NumbersFinite DEF Numbers
<1>3. \A n : n \in Others(t, me) <=> n \in (1..k) \ {me}
  BY <1>1, <1>2 DEF Others, Numbered
<1>. QED  BY <1>3

LEMMA LastOfMany ==
    ASSUME NEW k \in Nat, NEW me
    PROVE  /\ k > 0 /\ me # k => (1..k) \ {me} # {} /\ Max((1..k) \ {me}) = k
           /\ k > 1 /\ me = k => (1..k) \ {me} # {} /\ Max((1..k) \ {me}) = k - 1
<1>1. ASSUME NEW S \in SUBSET (1..k), NEW j \in S, \A i \in S : i <= j PROVE Max(S) = j
  <2>1. S \in SUBSET Nat /\ IsFiniteSet(S) /\ S # {}
    <3>1. IsFiniteSet(1..k) /\ 1..k \in SUBSET Nat
      BY FS_Interval
    <3>. QED  BY <3>1, FS_Subset
  <2>2. Max(S) \in S /\ Max(S) >= j
    BY <2>1, MaxIsGreatest
  <2>3. Max(S) <= j /\ Max(S) \in Nat /\ j \in Nat
    BY <1>1, <2>1, <2>2
  <2>. QED  BY <2>2, <2>3
<1>2. ASSUME k > 0, me # k PROVE (1..k) \ {me} # {} /\ Max((1..k) \ {me}) = k
  <2>. DEFINE S == (1..k) \ {me}
  <2>1. S \in SUBSET (1..k) /\ k \in S /\ \A i \in S : i <= k
    BY <1>2
  <2>. HIDE DEF S
  <2>2. Max(S) = k /\ S # {}
    BY <2>1, <1>1
  <2>. QED  BY <2>2 DEF S
<1>3. ASSUME k > 1, me = k PROVE (1..k) \ {me} # {} /\ Max((1..k) \ {me}) = k - 1
  <2>. DEFINE S == (1..k) \ {me}
  <2>1. S \in SUBSET (1..k) /\ k - 1 \in S /\ \A i \in S : i <= k - 1
    BY <1>3
  <2>. HIDE DEF S
  <2>2. Max(S) = k - 1 /\ S # {}
    BY <2>1, <1>1
  <2>. QED  BY <2>2 DEF S
<1>. QED  BY <1>2, <1>3

LEMMA CountIsNumber ==
    ASSUME NEW k \in 0..MaxTurns
    PROVE  /\ k \in Nat /\ k + 1 \in Nat /\ (k > 0 => 0 # k)
           /\ k + 1 \in Numbers => k + 1 \in 0..MaxTurns
           /\ \A n \in Numbers : n \in Nat
BY NumbersFinite DEF Numbers

LEMMA NewestNumbers ==
    ASSUME NEW k \in 0..MaxTurns, k > 1
    PROVE  k \in Numbers /\ k - 1 \in Numbers /\ k - 1 # k /\ k > 0
<1>1. ASSUME NEW M \in Nat, NEW i \in 0..M, i > 1 PROVE i \in 1..M /\ i - 1 \in 1..M /\ i - 1 # i /\ i > 0
  BY <1>1
<1>2. k \in 1..MaxTurns /\ k - 1 \in 1..MaxTurns /\ k - 1 # k /\ k > 0
  BY <1>1, NumbersFinite
<1>. QED  BY <1>2 DEF Numbers

\* Whatever chore is assigned anew, the two newest stay with different members.
LEMMA RotatingStays ==
    ASSUME TurnsTypeOK, strategy = "round_robin", Cardinality(Able) > 1,
           NEW k \in 0..MaxTurns, NEW t \in Rotating(k), NEW f \in Fames, NEW n \in Numbers
    PROVE  Reassigned(t, f, n) \in Rotating(k)
<1>. DEFINE u == Reassigned(t, f, n)
            m == Chosen(t, f, n)
<1>0. RulesTypeOK /\ Cardinality(Able) > 1
  BY RulesOfTurns
<1>1. t \in Rotas /\ Numbered(t, k) /\ NewestDiffer(t, k) /\ k \in Nat /\ n \in Nat
  <2>1. t \in Rotas /\ Numbered(t, k) /\ NewestDiffer(t, k)
    BY DEF Rotating
  <2>2. MaxTurns \in Nat /\ n \in Nat
    BY NumbersFinite
  <2>3. k \in Nat
    BY CountIsNumber
  <2>. QED  BY <2>1, <2>2, <2>3
<1>2. Able # {}
  BY <1>0, AbleThere, Zenon
<1>3. /\ u \in Rotas /\ \A i \in Numbers : i # n => u[i] = t[i]
      /\ u[n].at = t[n].at /\ u[n].how = "rule" /\ u[n].who = m
  BY <1>1, ReassignedIs
<1>4. m \in Able /\ m \in Crew
  BY <1>0, <1>1, <1>2, TurnPasses, AbleOnes
<1>5. Others(t, n) # {} => m # t[Max(Others(t, n))].who
  BY <1>0, <1>1, <1>2, TurnPasses
<1>6. Others(t, n) = (1..k) \ {n}
  BY <1>1, OthersAre
<1>. HIDE DEF u, m
<1>7. Numbered(u, k)
  BY <1>1, <1>3, <1>4 DEF Numbered
<1>8. NewestDiffer(u, k)
  <2>1. SUFFICES ASSUME k > 1 PROVE u[k].how = "rule" /\ u[k - 1].how = "rule" => u[k].who # u[k - 1].who
    BY DEF NewestDiffer
  <2>2. k \in Numbers /\ k - 1 \in Numbers /\ k - 1 # k /\ k > 0
    BY <2>1, NewestNumbers
  <2>3. CASE n = k
    <3>1. m # t[k - 1].who
      BY <1>1, <1>5, <1>6, <2>1, <2>3, LastOfMany
    <3>. QED  BY <1>3, <2>2, <2>3, <3>1
  <2>4. CASE n = k - 1
    <3>1. m # t[k].who
      <4>1. (1..k) \ {n} # {} /\ Max((1..k) \ {n}) = k
        <5>1. k > 0 /\ n # k
          BY <2>2, <2>4
        <5>. QED  BY <1>1, <5>1, LastOfMany
      <4>. QED  BY <1>5, <1>6, <4>1
    <3>. QED  BY <1>3, <2>2, <2>4, <3>1
  <2>5. CASE n # k /\ n # k - 1
    <3>1. u[k] = t[k] /\ u[k - 1] = t[k - 1]
      BY <1>3, <2>2, <2>5
    <3>. QED  BY <1>1, <2>1, <3>1 DEF NewestDiffer
  <2>. QED  BY <2>3, <2>4, <2>5
<1>. QED  BY <1>3, <1>7, <1>8 DEF Rotating, u

LEMMA SweepRotates ==
    ASSUME TurnsTypeOK, strategy = "round_robin", Cardinality(Able) > 1,
           NEW k \in 0..MaxTurns, NEW t \in Rotating(k), NEW f \in Fames, NEW spared
    PROVE  Swept(t, f, spared) \in Rotating(k)
<1>1. Rotating(k) \in SUBSET Rotas /\ t \in Rotas
  BY DEF Rotating
<1>2. \A u \in Rotating(k) : \A n \in Loose(t) \ spared : Reassigned(u, f, n) \in Rotating(k)
  BY RotatingStays DEF Loose
<1>. QED  BY <1>1, <1>2, SweepKeeps

LEMMA HowMany ==
    ASSUME NEW k \in Nat
    PROVE  Cardinality(1..k) = k
<1>1. 1 \in Int /\ k \in Int
  OBVIOUS
<1>2. Cardinality(1..k) = IF k < 1 THEN 0 ELSE (k - 1) + 1
  BY <1>1, FS_Interval
<1>. QED  BY <1>2

LEMMA MadeAre ==
    ASSUME TurnsTypeOK, NEW k \in 0..MaxTurns, Numbered(rota, k)
    PROVE  Made = 1..k /\ NextNumber = k + 1
<1>1. k \in Nat
  BY CountIsNumber
<1>2. \A n : n \in 1..k <=> n \in Numbers /\ n <= k
  BY NumbersFinite DEF Numbers
<1>3. Made = 1..k
  BY <1>2 DEF Made, Numbered
<1>4. Cardinality(1..k) = k
  BY <1>1, HowMany
<1>. QED  BY <1>3, <1>4 DEF NextNumber

\* To complete, cancel or freeze a chore changes neither its owner nor how it got it.
LEMMA RelabelledRotates ==
    ASSUME NEW k \in 0..MaxTurns, NEW t \in Rotas, Numbered(t, k), NewestDiffer(t, k),
           NEW u \in Rotas,
           \A i \in Numbers : /\ u[i].at = "unborn" <=> t[i].at = "unborn"
                              /\ u[i].who = t[i].who /\ u[i].how = t[i].how
    PROVE  u \in Rotating(k)
<1>1. Numbered(u, k)
  BY DEF Numbered
<1>2. NewestDiffer(u, k)
  <2>1. SUFFICES ASSUME k > 1 PROVE u[k].how = "rule" /\ u[k - 1].how = "rule" => u[k].who # u[k - 1].who
    BY DEF NewestDiffer
  <2>2. k \in Numbers /\ k - 1 \in Numbers
    BY <2>1, NewestNumbers
  <2>. QED  BY <2>1, <2>2 DEF NewestDiffer
<1>. QED  BY <1>1, <1>2 DEF Rotating

LEMMA TakenRotates ==
    ASSUME NEW k \in 0..MaxTurns, NEW t \in Rotas, Numbered(t, k), NewestDiffer(t, k),
           NEW n \in Numbers, NEW u \in Rotas, \A i \in Numbers : i # n => u[i] = t[i],
           u[n].at = t[n].at, u[n].who \in Crew, u[n].how = "hand"
    PROVE  u \in Rotating(k)
<1>1. Numbered(u, k)
  BY DEF Numbered
<1>2. NewestDiffer(u, k)
  <2>1. SUFFICES ASSUME k > 1 PROVE u[k].how = "rule" /\ u[k - 1].how = "rule" => u[k].who # u[k - 1].who
    BY DEF NewestDiffer
  <2>2. k \in Numbers /\ k - 1 \in Numbers
    BY <2>1, NewestNumbers
  <2>. QED  BY <2>1, <2>2 DEF NewestDiffer
<1>. QED  BY <1>1, <1>2 DEF Rotating

LEMMA PlacedRotates ==
    ASSUME TurnsTypeOK, RoomLeft, NEW k \in 0..MaxTurns, Numbered(rota, k),
           NEW t \in Rotating(k), NEW m \in Crew, NEW how \in {"rule", "hand", "sticky"},
           NEW dueAt \in 0..2, how = "rule" /\ k > 0 => m # t[k].who
    PROVE  k + 1 \in 0..MaxTurns /\ Placed(t, m, how, dueAt) \in Rotating(k + 1)
<1>. DEFINE u == Placed(t, m, how, dueAt)
<1>1. NextNumber = k + 1 /\ k \in Nat
  BY MadeAre, CountIsNumber
<1>2. t \in Rotas /\ Numbered(t, k)
  BY DEF Rotating
<1>3. /\ u \in Rotas /\ k + 1 \in Numbers
      /\ \A i \in Numbers : i # k + 1 => u[i] = t[i]
      /\ u[k + 1].at = "active" /\ u[k + 1].who = m /\ u[k + 1].how = how
  <2>. DEFINE row == [at |-> "active", who |-> m, how |-> how, due |-> dueAt, done |-> 0]
  <2>1. m \in Crew \cup {NoneOfThem}
    OBVIOUS
  <2>2. /\ u \in Rotas /\ NextNumber \in Numbers
        /\ \A i \in Numbers : i # NextNumber => u[i] = t[i]
        /\ u[NextNumber] = row
    BY <1>2, <2>1, PlacedIs, Zenon
  <2>3. row.at = "active" /\ row.who = m /\ row.how = how
    OBVIOUS
  <2>. HIDE DEF u, row
  <2>. QED  BY <1>1, <2>2, <2>3, Zenon
<1>. HIDE DEF u
<1>4. k + 1 \in 0..MaxTurns /\ \A n \in Numbers : n \in Nat
  BY <1>3, CountIsNumber, Zenon
<1>5. Numbered(u, k + 1)
  <2>1. ASSUME NEW n \in Numbers
        PROVE  (u[n].at # "unborn" <=> n <= k + 1) /\ (n <= k + 1 => u[n].who \in Crew)
    <3>1. CASE n = k + 1
      BY <1>3, <1>4, <3>1
    <3>2. CASE n # k + 1
      <4>1. n <= k + 1 <=> n <= k
        BY <1>1, <1>4, <3>2
      <4>. QED  BY <1>2, <1>3, <3>2, <4>1 DEF Numbered
    <3>. QED  BY <3>1, <3>2
  <2>. QED  BY <2>1 DEF Numbered
<1>6. NewestDiffer(u, k + 1)
  <2>1. SUFFICES ASSUME k + 1 > 1, how = "rule" PROVE m # u[k].who
    <3>1. (k + 1) - 1 = k
      BY <1>1
    <3>. QED  BY <1>3, <3>1 DEF NewestDiffer
  <2>2. k > 0 /\ k # k + 1 /\ k \in Numbers
    <3>1. \A M \in Nat, j \in Nat : j + 1 \in 1..M /\ j + 1 > 1 => j \in 1..M /\ j > 0 /\ j # j + 1
      OBVIOUS
    <3>2. k + 1 \in 1..MaxTurns
      BY <1>3 DEF Numbers
    <3>3. k \in 1..MaxTurns /\ k > 0 /\ k # k + 1
      BY <1>1, <2>1, <3>1, <3>2, NumbersFinite
    <3>. QED  BY <3>3 DEF Numbers
  <2>. QED  BY <1>3, <2>1, <2>2
<1>. QED  BY <1>3, <1>4, <1>5, <1>6 DEF Rotating, u

LEMMA RenewedRotates ==
    ASSUME TurnsTypeOK, strategy = "round_robin", Cardinality(Able) > 1, RoomLeft,
           NEW k \in 0..MaxTurns, Numbered(rota, k),
           NEW t \in Rotating(k), NEW f \in Fames, NEW dueAt \in 0..2
    PROVE  k + 1 \in 0..MaxTurns /\ Renewed(t, f, dueAt) \in Rotating(k + 1)
<1>. DEFINE m == Chosen(t, f, 0)
<1>0. RulesTypeOK /\ Cardinality(Able) > 1 /\ Able # {}
  <2>1. RulesTypeOK /\ Cardinality(Able) > 1
    BY RulesOfTurns
  <2>. QED  BY <2>1, AbleThere
<1>1. t \in Rotas /\ Numbered(t, k)
  BY DEF Rotating
<1>2. m \in Able /\ (Others(t, 0) # {} => m # t[Max(Others(t, 0))].who)
  BY <1>0, <1>1, TurnPasses, Zenon
<1>3. m \in Crew
  BY <1>0, <1>2, AbleOnes
<1>4. k > 0 => Others(t, 0) # {} /\ Max(Others(t, 0)) = k
  <2>1. Others(t, 0) = (1..k) \ {0}
    BY <1>1, OthersAre
  <2>2. k > 0 => (1..k) \ {0} # {} /\ Max((1..k) \ {0}) = k
    <3>1. k \in Nat /\ (k > 0 => 0 # k)
      BY CountIsNumber, Zenon
    <3>. QED  BY <3>1, LastOfMany
  <2>. QED  BY <2>1, <2>2
<1>5. k > 0 => m # t[k].who
  BY <1>2, <1>4
<1>6. Renewed(t, f, dueAt) = Placed(t, m, "rule", dueAt)
  BY DEF Renewed
<1>. HIDE DEF m
<1>. QED  BY <1>3, <1>5, <1>6, PlacedRotates

LEMMA FewerTurnsAre ==
    ASSUME TurnsTypeOK, NEW n \in Numbers, rota[n].at # "unborn"
    PROVE  /\ \A i \in Numbers : LET u == [rota EXCEPT ![n].at = "cancelled"] IN
                  /\ u[i].at = "unborn" <=> rota[i].at = "unborn"
                  /\ u[i].who = rota[i].who /\ u[i].how = rota[i].how
           /\ \A i \in Numbers : LET u == [rota EXCEPT ![n].due = 0] IN
                  /\ u[i].at = rota[i].at /\ u[i].who = rota[i].who /\ u[i].how = rota[i].how
           /\ \A m \in Crew : LET u == [rota EXCEPT ![n].who = m, ![n].how = "hand"] IN
                  /\ \A i \in Numbers : i # n => u[i] = rota[i]
                  /\ u[n].at = rota[n].at /\ u[n].who = m /\ u[n].how = "hand"
<1>1. rota \in [Numbers -> Turn] /\ rota[n] \in Turn
  BY DEF TurnsTypeOK
<1>2. ASSUME NEW i \in Numbers
      PROVE  LET u == [rota EXCEPT ![n].at = "cancelled"] IN
                  /\ u[i].at = "unborn" <=> rota[i].at = "unborn"
                  /\ u[i].who = rota[i].who /\ u[i].how = rota[i].how
  BY <1>1 DEF Turn
<1>3. ASSUME NEW i \in Numbers
      PROVE  LET u == [rota EXCEPT ![n].due = 0] IN
                  /\ u[i].at = rota[i].at /\ u[i].who = rota[i].who /\ u[i].how = rota[i].how
  BY <1>1 DEF Turn
<1>4. ASSUME NEW m \in Crew
      PROVE  LET u == [rota EXCEPT ![n].who = m, ![n].how = "hand"] IN
                  /\ \A i \in Numbers : i # n => u[i] = rota[i]
                  /\ u[n].at = rota[n].at /\ u[n].who = m /\ u[n].how = "hand"
  BY <1>1 DEF Turn
<1>. QED  BY <1>2, <1>3, <1>4

LEMMA ClosedAre ==
    ASSUME TurnsTypeOK, NEW n \in Active
    PROVE  \A i \in Numbers :
               /\ Closed(n)[i].at = "unborn" <=> rota[i].at = "unborn"
               /\ Closed(n)[i].who = rota[i].who /\ Closed(n)[i].how = rota[i].how
<1>1. rota \in [Numbers -> Turn] /\ n \in Numbers /\ rota[n] \in Turn /\ rota[n].at = "active"
  BY DEF TurnsTypeOK, Active, Made
<1>2. Closed(n) = [rota EXCEPT ![n] = [rota[n] EXCEPT !.at = "done", !.done = Stamp]]
  BY ClosedIs
<1>. QED  BY <1>1, <1>2 DEF Turn

\* The members stay, so those who may do the chore do.
LEMMA CrewGrows ==
    ASSUME TurnsTypeOK, NEW m \in Crew, JoinCrew(m), Cardinality(Able) > 1
    PROVE  TurnsTypeOK' /\ Cardinality(Able)' > 1
<1>1. TurnsTypeOK'
  <2>1. TurnsNext({"join"})
    BY DEF TurnsNext
  <2>. QED  BY <2>1, TurnsTyped
<1>2. Able \subseteq Able'
  <2>1. \A o : Eligible(o) <=> Eligible(o)'
    BY DEF Eligible, JoinCrew
  <2>2. ToSet(roster) \subseteq ToSet(roster)'
    <3>1. roster \in Seq(Crew) /\ roster' = Append(roster, m)
      BY DEF TurnsTypeOK, JoinCrew
    <3>. QED  BY <3>1 DEF ToSet
  <2>. QED  BY <2>1, <2>2 DEF Able
<1>3. Able' \subseteq Crew
  BY <1>1 DEF Able, ToSet, TurnsTypeOK
<1>4. IsFiniteSet(Able')
  BY <1>3, PlacesInAlphabet, FS_Subset
<1>5. Cardinality(Able) <= Cardinality(Able') /\ Cardinality(Able) \in Nat /\ Cardinality(Able') \in Nat
  BY <1>2, <1>4, FS_Subset, FS_CardinalityType
<1>. QED  BY <1>1, <1>5

LEMMA TurnInvHolds ==
    ASSUME TurnInv, NEW some, TurnsNext(some)
    PROVE  TurnInv'
<1>0. TurnsTypeOK /\ Cardinality(Able) > 1 /\ rota \in Rotas /\ fame \in Fames
  BY DEF TurnInv, TurnsTypeOK, Rotas, Fames
<1>1. TurnsTypeOK'
  BY <1>0, TurnsTyped
<1>2. ASSUME NEW m \in Crew, JoinCrew(m) PROVE TurnInv'
  <2>1. Cardinality(Able)' > 1
    BY <1>0, <1>2, CrewGrows
  <2>2. UNCHANGED <<strategy, rota>>
    BY <1>2 DEF JoinCrew
  <2>. QED  BY <1>1, <2>1, <2>2 DEF TurnInv, Rotating, Rotas, Numbered, NewestDiffer
<1>3. ASSUME UNCHANGED <<strategy, audience, fixed, roster, errands>>,
             strategy = "round_robin" =>
                 \A k \in 0..MaxTurns : rota \in Rotating(k) => \E j \in 0..MaxTurns : rota' \in Rotating(j)
      PROVE  TurnInv'
  <2>1. Able' = Able
    BY <1>3 DEF Able, Eligible
  <2>. QED  BY <1>0, <1>1, <1>3, <2>1 DEF TurnInv, Rotating, Rotas, Numbered, NewestDiffer
<1>4. ASSUME strategy = "round_robin", NEW k \in 0..MaxTurns, rota \in Rotating(k)
      PROVE  /\ Numbered(rota, k) /\ NewestDiffer(rota, k)
             /\ \A t \in Rotating(k), f \in Fames : \A spared : Swept(t, f, spared) \in Rotating(k)
             /\ k + 1 \in 0..MaxTurns =>
                    \A t \in Rotating(k + 1), f \in Fames : \A spared : Swept(t, f, spared) \in Rotating(k + 1)
             /\ RoomLeft => \A t \in Rotating(k), f \in Fames, dueAt \in 0..2 :
                    k + 1 \in 0..MaxTurns /\ Renewed(t, f, dueAt) \in Rotating(k + 1)
             /\ RoomLeft => \A m \in Crew, how \in {"hand", "sticky"}, dueAt \in 0..2 :
                    k + 1 \in 0..MaxTurns /\ Placed(rota, m, how, dueAt) \in Rotating(k + 1)
  <2>1. Numbered(rota, k) /\ NewestDiffer(rota, k)
    BY <1>4 DEF Rotating
  <2>2. ASSUME NEW j \in 0..MaxTurns, NEW t \in Rotating(j), NEW f \in Fames, NEW spared
        PROVE  Swept(t, f, spared) \in Rotating(j)
    BY <1>0, <1>4, <2>2, SweepRotates, Zenon
  <2>3. ASSUME RoomLeft, NEW t \in Rotating(k), NEW f \in Fames, NEW dueAt \in 0..2
        PROVE  k + 1 \in 0..MaxTurns /\ Renewed(t, f, dueAt) \in Rotating(k + 1)
    BY <1>0, <1>4, <2>1, <2>3, RenewedRotates, Zenon
  <2>4. ASSUME RoomLeft, NEW m \in Crew, NEW how \in {"hand", "sticky"}, NEW dueAt \in 0..2
        PROVE  k + 1 \in 0..MaxTurns /\ Placed(rota, m, how, dueAt) \in Rotating(k + 1)
    <3>1. how # "rule" /\ how \in {"rule", "hand", "sticky"}
      BY <2>4
    <3>. QED  BY <1>0, <1>4, <2>1, <2>4, <3>1, PlacedRotates, Zenon
  <2>. QED  BY <2>1, <2>2, <2>3, <2>4
<1>5. ASSUME NEW n \in Active, FreezeTurn(n) PROVE TurnInv'
  <2>1. n \in Numbers /\ rota[n].at # "unborn"
    BY DEF Active, Made
  <2>2. rota' = [rota EXCEPT ![n].due = 0] /\ rota' \in Rotas
    BY <1>0, <1>5, <2>1, FewerTurns DEF FreezeTurn
  <2>3. \A i \in Numbers : rota'[i].at = rota[i].at /\ rota'[i].who = rota[i].who /\ rota'[i].how = rota[i].how
    BY <1>0, <2>1, <2>2, FewerTurnsAre
  <2>4. ASSUME NEW k \in 0..MaxTurns, rota \in Rotating(k), strategy = "round_robin" PROVE rota' \in Rotating(k)
    BY <1>0, <1>4, <2>2, <2>3, <2>4, RelabelledRotates
  <2>. QED  BY <1>3, <1>5, <2>4 DEF FreezeTurn
<1>6. ASSUME NEW n \in Active, NEW dueAt \in {0, 2}, CompleteTurn(n, dueAt) PROVE TurnInv'
  <2>0. RoomLeft /\ dueAt \in 0..2 /\ n \in Numbers
    BY <1>6 DEF CompleteTurn, Active, Made
  <2>1. fame' \in Fames /\ RoomLeft /\ dueAt \in 0..2
    BY <1>0, <1>6, <2>0, FameGrows DEF CompleteTurn
  <2>2. Closed(n) \in Rotas
    BY <1>0, ClosedIs
  <2>3. rota' = Swept(Renewed(Closed(n), fame', dueAt), fame', {})
    BY <1>6 DEF CompleteTurn, Closed, Stamp
  <2>4. ASSUME NEW k \in 0..MaxTurns, rota \in Rotating(k), strategy = "round_robin"
        PROVE  k + 1 \in 0..MaxTurns /\ rota' \in Rotating(k + 1)
    <3>1. Closed(n) \in Rotating(k)
      BY <1>0, <1>4, <2>2, <2>4, ClosedAre, RelabelledRotates
    <3>2. k + 1 \in 0..MaxTurns /\ Renewed(Closed(n), fame', dueAt) \in Rotating(k + 1)
      BY <1>4, <2>1, <2>4, <3>1, Zenon
    <3>. QED  BY <1>4, <2>1, <2>3, <2>4, <3>2, Zenon
  <2>. QED  BY <1>3, <1>6, <2>4 DEF CompleteTurn
<1>7. ASSUME NEW n \in Active, NEW dueAt \in {0, 2}, CancelTurn(n, dueAt) PROVE TurnInv'
  <2>. DEFINE u == [rota EXCEPT ![n].at = "cancelled"]
  <2>1. n \in Numbers /\ rota[n].at # "unborn" /\ RoomLeft /\ dueAt \in 0..2
    BY <1>7 DEF CancelTurn, Active, Made
  <2>2. u \in Rotas
    BY <1>0, <2>1, FewerTurns
  <2>3. rota' = Swept(Renewed(u, fame, dueAt), fame, {})
    BY <1>7 DEF CancelTurn
  <2>5. \A i \in Numbers : /\ u[i].at = "unborn" <=> rota[i].at = "unborn"
                           /\ u[i].who = rota[i].who /\ u[i].how = rota[i].how
    BY <1>0, <2>1, FewerTurnsAre
  <2>. HIDE DEF u
  <2>4. ASSUME NEW k \in 0..MaxTurns, rota \in Rotating(k), strategy = "round_robin"
        PROVE  k + 1 \in 0..MaxTurns /\ rota' \in Rotating(k + 1)
    <3>1. u \in Rotating(k)
      BY <1>0, <1>4, <2>2, <2>4, <2>5, RelabelledRotates
    <3>2. k + 1 \in 0..MaxTurns /\ Renewed(u, fame, dueAt) \in Rotating(k + 1)
      BY <1>0, <1>4, <2>1, <2>4, <3>1, Zenon
    <3>. QED  BY <1>0, <1>4, <2>3, <2>4, <3>2, Zenon
  <2>. QED  BY <1>3, <1>7, <2>4 DEF CancelTurn
<1>8. \A m \in ToSet(roster) : m \in Crew
  BY <1>0 DEF ToSet, TurnsTypeOK
<1>9. ASSUME NEW n \in Active, NEW m \in Crew, TakeTurn(n, m) PROVE TurnInv'
  <2>. DEFINE u == [rota EXCEPT ![n].who = m, ![n].how = "hand"]
  <2>1. n \in Numbers /\ rota[n].at # "unborn"
    BY DEF Active, Made
  <2>2. u \in Rotas
    BY <1>0, <2>1, FewerTurns
  <2>3. rota' = Swept(u, fame, {n})
    BY <1>9 DEF TakeTurn
  <2>5. /\ \A i \in Numbers : i # n => u[i] = rota[i]
        /\ u[n].at = rota[n].at /\ u[n].who = m /\ u[n].how = "hand"
    BY <1>0, <2>1, FewerTurnsAre
  <2>. HIDE DEF u
  <2>4. ASSUME NEW k \in 0..MaxTurns, rota \in Rotating(k), strategy = "round_robin"
        PROVE  rota' \in Rotating(k)
    <3>1. u \in Rotating(k)
      BY <1>0, <1>4, <2>1, <2>2, <2>4, <2>5, TakenRotates
    <3>. QED  BY <1>0, <1>4, <2>3, <2>4, <3>1, Zenon
  <2>. QED  BY <1>3, <1>9, <2>4 DEF TakeTurn
<1>10. ASSUME NEW n \in Active, ReassignTurn(n) PROVE TurnInv'
  <2>1. n \in Numbers
    BY DEF Active, Made
  <2>2. rota' = Swept(Reassigned(rota, fame, n), fame, {n})
    BY <1>10 DEF ReassignTurn
  <2>4. ASSUME NEW k \in 0..MaxTurns, rota \in Rotating(k), strategy = "round_robin"
        PROVE  rota' \in Rotating(k)
    <3>1. Reassigned(rota, fame, n) \in Rotating(k)
      BY <1>0, <2>1, <2>4, RotatingStays, Zenon
    <3>. QED  BY <1>0, <1>4, <2>2, <2>4, <3>1, Zenon
  <2>. QED  BY <1>3, <1>10, <2>4 DEF ReassignTurn
<1>11. ASSUME NEW dueAt \in {0, 1}, CreateTurn(dueAt) PROVE TurnInv'
  <2>1. RoomLeft /\ dueAt \in 0..2
    BY <1>11 DEF CreateTurn
  <2>2. \E u, spared : /\ rota' = Swept(u, fame, spared)
                       /\ \/ \E m \in Crew : u = Placed(rota, m, "hand", dueAt)
                          \/ u = Renewed(rota, fame, dueAt)
    <3>1. \/ \E m \in ToSet(roster) : rota' = Swept(Placed(rota, m, "hand", dueAt), fame, {NextNumber})
          \/ rota' = Swept(Renewed(rota, fame, dueAt), fame, {NextNumber})
      BY <1>11 DEF CreateTurn
    <3>. QED  BY <1>8, <3>1, Zenon
  <2>3. PICK u, spared : /\ rota' = Swept(u, fame, spared)
                         /\ \/ \E m \in Crew : u = Placed(rota, m, "hand", dueAt)
                            \/ u = Renewed(rota, fame, dueAt)
    BY <2>2, Zenon
  <2>4. ASSUME NEW k \in 0..MaxTurns, rota \in Rotating(k), strategy = "round_robin"
        PROVE  k + 1 \in 0..MaxTurns /\ rota' \in Rotating(k + 1)
    <3>1. k + 1 \in 0..MaxTurns /\ u \in Rotating(k + 1)
      <4>1. CASE u = Renewed(rota, fame, dueAt)
        BY <1>0, <1>4, <2>1, <2>4, <4>1, Zenon
      <4>2. ASSUME NEW m \in Crew, u = Placed(rota, m, "hand", dueAt)
            PROVE  k + 1 \in 0..MaxTurns /\ u \in Rotating(k + 1)
        <5>1. "hand" \in {"hand", "sticky"}
          OBVIOUS
        <5>. QED  BY <1>4, <2>1, <2>4, <4>2, <5>1, Zenon
      <4>. QED  BY <2>3, <4>1, <4>2, Zenon
    <3>. QED  BY <1>0, <1>4, <2>3, <2>4, <3>1, Zenon
  <2>. QED  BY <1>3, <1>11, <2>4 DEF CreateTurn
<1>12. ASSUME NEW m \in Crew, NEW dueAt \in {0, 1}, FollowTurn(m, dueAt) PROVE TurnInv'
  <2>1. RoomLeft /\ dueAt \in 0..2
    BY <1>12 DEF FollowTurn
  <2>2. rota' = Swept(Placed(rota, m, "sticky", dueAt), fame, {}) \/ rota' = Swept(Renewed(rota, fame, dueAt), fame, {})
    BY <1>12 DEF FollowTurn
  <2>4. ASSUME NEW k \in 0..MaxTurns, rota \in Rotating(k), strategy = "round_robin"
        PROVE  k + 1 \in 0..MaxTurns /\ rota' \in Rotating(k + 1)
    <3>1. k + 1 \in 0..MaxTurns /\ Renewed(rota, fame, dueAt) \in Rotating(k + 1)
      BY <1>0, <1>4, <2>1, <2>4, Zenon
    <3>2. Placed(rota, m, "sticky", dueAt) \in Rotating(k + 1)
      <4>1. "sticky" \in {"hand", "sticky"}
        OBVIOUS
      <4>. QED  BY <1>4, <2>1, <2>4, <4>1, Zenon
    <3>. QED  BY <1>0, <1>4, <2>2, <2>4, <3>1, <3>2, Zenon
  <2>. QED  BY <1>3, <1>12, <2>4 DEF FollowTurn
<1>. QED  BY <1>2, <1>5, <1>6, <1>7, <1>9, <1>10, <1>11, <1>12 DEF TurnsNext

LEMMA TurnInvIsEnough ==
    ASSUME TurnInv
    PROVE  TakesTurns
<1>0. TurnsTypeOK /\ rota \in Rotas
  BY DEF TurnInv, TurnsTypeOK, Rotas
<1>1. SUFFICES ASSUME strategy = "round_robin", Cardinality(Given) > 1,
                      {rota[Latest].how, rota[Previous].how} = {"rule"}
               PROVE  rota[Latest].who # rota[Previous].who
  BY DEF TakesTurns
<1>2. PICK k \in 0..MaxTurns : Numbered(rota, k) /\ NewestDiffer(rota, k)
  BY <1>1 DEF TurnInv, Rotating
<1>3. Given = 1..k
  <2>1. Given = Others(rota, 0)
    <3>1. Numbers \ {0} = Numbers
      BY NumbersFinite DEF Numbers
    <3>. QED  BY <3>1 DEF Given, Made, Others
  <2>2. Others(rota, 0) = (1..k) \ {0}
    BY <1>0, <1>2, OthersAre
  <2>3. (1..k) \ {0} = 1..k
    OBVIOUS
  <2>. QED  BY <2>1, <2>2, <2>3
<1>4. k > 1 /\ k \in Nat
  <2>1. k \in Nat
    BY CountIsNumber
  <2>2. Cardinality(1..k) = k
    BY <2>1, HowMany
  <2>. QED  BY <1>1, <1>3, <2>1, <2>2
<1>5. Latest = k
  <2>1. k > 0 /\ 0 # k
    BY <1>4
  <2>2. Max((1..k) \ {0}) = k
    BY <1>4, <2>1, LastOfMany
  <2>3. (1..k) \ {0} = 1..k
    OBVIOUS
  <2>. QED  BY <1>3, <2>2, <2>3 DEF Latest
<1>6. Previous = k - 1
  <2>1. Max((1..k) \ {k}) = k - 1
    BY <1>4, LastOfMany
  <2>. QED  BY <1>3, <1>5, <2>1 DEF Previous
<1>. QED  BY <1>1, <1>2, <1>4, <1>5, <1>6 DEF NewestDiffer

LEMMA TurnsMove == ASSUME [ServerNext]_<<vars, parts>> PROVE [\E some : TurnsNext(some)]_turns
BY DEF ServerNext, vars, parts, AccountsStep, TemplatesStep, BonusesStep, DashboardStep, TurnsStep,
      CalendarStep, StartersStep, PrizesStep

LEMMA RulesBeginWell == ServerInit => RulesTypeOK
<1>1. SUFFICES ASSUME ServerInit PROVE RulesTypeOK
  OBVIOUS
<1>2. /\ strategy \in Strategies /\ audience \in Audiences /\ fixed \in Crew \cup {NoneOfThem}
      /\ errands \in [Crew -> Nat] /\ roster \in Seq(Crew) /\ IsInjective(roster)
      /\ fame = [m \in Crew |-> [streak |-> 0, points |-> 0]]
  BY <1>1, ServerAssumption DEF ServerInit, Init, Orderly, TurnsInit
<1>3. fame \in Fames
  BY <1>2 DEF Fames
<1>. QED  BY <1>2, <1>3 DEF RulesTypeOK

NoTurns == [n \in Numbers |-> NoTurn]

LEMMA FirstTurn ==
    ASSUME NEW m \in Crew \cup {NoneOfThem}, NEW row, row = [NoTurn EXCEPT !.at = "active", !.who = m]
    PROVE  /\ NoTurn \in Turn /\ row \in Turn
           /\ row.at = "active" /\ row.who = m /\ row.how = "rule" /\ row.due = 0 /\ row.done = 0
<1>1. 0 \in 0..MaxTurns
  BY NumbersFinite
<1>2. NoTurn \in Turn
  BY <1>1 DEF NoTurn, Turn
<1>3. NoTurn.how = "rule" /\ NoTurn.due = 0 /\ NoTurn.done = 0
  BY DEF NoTurn
<1>. QED  BY <1>2, <1>3 DEF Turn

\* In the beginning the first chore is there, given to whom the strategy finds.
LEMMA TurnsBegin ==
    ASSUME RulesTypeOK, TurnsInit
    PROVE  /\ TurnsTypeOK /\ NoTurns \in Rotas
           /\ 1 \notin Numbers => rota = NoTurns
           /\ 1 \in Numbers =>
                  /\ \A i \in Numbers : i # 1 => rota[i] = NoTurn
                  /\ rota[1].at = "active" /\ rota[1].who = Chosen(NoTurns, fame, 0)
                  /\ rota[1].how = "rule" /\ rota[1].due = 0 /\ rota[1].done = 0
<1>. DEFINE m == Chosen(NoTurns, fame, 0)
            row == [NoTurn EXCEPT !.at = "active", !.who = m]
<1>1. NoTurn \in Turn /\ NoTurns \in Rotas
  <2>1. NoTurn \in Turn
    BY FirstTurn
  <2>. QED  BY <2>1 DEF NoTurns, Rotas
<1>2. m \in Crew \cup {NoneOfThem} /\ fame \in Fames
  <2>1. fame \in Fames
    BY DEF RulesTypeOK
  <2>. QED  BY <1>1, <2>1, ChosenIsMember
<1>3. rota = [NoTurns EXCEPT ![1] = row]
  BY DEF TurnsInit, NoTurns
<1>. HIDE DEF m
<1>5. /\ row \in Turn
      /\ row.at = "active" /\ row.who = m /\ row.how = "rule" /\ row.due = 0 /\ row.done = 0
  BY <1>2, FirstTurn
<1>. HIDE DEF row
<1>7. rota \in Rotas
  BY <1>1, <1>3, <1>5 DEF Rotas
<1>8. TurnsTypeOK
  BY <1>7, RulesOfTurns
<1>9. 1 \notin Numbers => rota = NoTurns
  BY <1>3 DEF NoTurns
<1>10. 1 \in Numbers => rota[1] = row /\ \A i \in Numbers : i # 1 => rota[i] = NoTurn
  BY <1>3 DEF NoTurns
<1>. QED  BY <1>1, <1>5, <1>8, <1>9, <1>10 DEF m

LEMMA TurnInvBegins == ServerInit /\ Cardinality(Able) > 1 => TurnInv
<1>1. SUFFICES ASSUME ServerInit, Cardinality(Able) > 1 PROVE TurnInv
  OBVIOUS
<1>2. RulesTypeOK /\ TurnsInit /\ Cardinality(Able) > 1
  BY <1>1, RulesBeginWell DEF ServerInit
<1>3. Able # {} /\ fame \in Fames
  BY <1>2, AbleThere DEF RulesTypeOK
<1>4. TurnsTypeOK /\ rota \in Rotas
  BY <1>2, TurnsBegin, RulesOfTurns
<1>5. ASSUME strategy = "round_robin" PROVE \E k \in 0..MaxTurns : rota \in Rotating(k)
  <2>1. Chosen(NoTurns, fame, 0) \in Able
    BY <1>2, <1>3, <1>5, TurnsBegin, TurnPasses
  <2>2. Chosen(NoTurns, fame, 0) \in Crew
    BY <1>2, <2>1, AbleOnes
  <2>3. NoTurn.at = "unborn"
    BY DEF NoTurn
  <2>4. CASE 1 \in Numbers
    <3>1. rota[1].at = "active" /\ rota[1].who \in Crew /\ \A i \in Numbers : i # 1 => rota[i].at = "unborn"
      BY <1>2, <2>2, <2>3, <2>4, TurnsBegin
    <3>2. \A n \in Numbers : n <= 1 <=> n = 1
      BY NumbersFinite DEF Numbers
    <3>3. Numbered(rota, 1)
      BY <3>1, <3>2 DEF Numbered
    <3>4. 1 \in 0..MaxTurns /\ ~(1 > 1)
      BY <2>4, NumbersFinite DEF Numbers
    <3>. QED  BY <1>4, <3>3, <3>4 DEF Rotating, NewestDiffer
  <2>5. CASE 1 \notin Numbers
    <3>1. \A i \in Numbers : rota[i].at = "unborn" /\ ~(i <= 0)
      BY <1>2, <2>3, <2>5, TurnsBegin, NumbersFinite DEF NoTurns, Numbers
    <3>2. Numbered(rota, 0)
      BY <3>1 DEF Numbered
    <3>3. 0 \in 0..MaxTurns /\ ~(0 > 1)
      BY NumbersFinite
    <3>. QED  BY <1>4, <3>2, <3>3 DEF Rotating, NewestDiffer
  <2>. QED  BY <2>4, <2>5
<1>. QED  BY <1>2, <1>4, <1>5 DEF TurnInv

LEMMA TurnInvKept == ServerSpec /\ Cardinality(Able) > 1 => []TurnInv
<1>1. TurnInv /\ [ServerNext]_<<vars, parts>> => TurnInv'
  <2>1. SUFFICES ASSUME TurnInv, [ServerNext]_<<vars, parts>> PROVE TurnInv'
    OBVIOUS
  <2>2. CASE \E some : TurnsNext(some)
    BY <2>1, <2>2, TurnInvHolds
  <2>3. CASE UNCHANGED turns
    BY <2>1, <2>3 DEF turns, TurnInv, TurnsTypeOK, Able, Eligible, Rotating, Rotas, Numbered, NewestDiffer
  <2>. QED  BY <2>1, <2>2, <2>3, TurnsMove
<1>. QED  BY <1>1, TurnInvBegins, PTL DEF ServerSpec

\* Of a template in rotation that several members may do from the first, the two newest
\* chores the strategy gave out are different members', however chores are completed,
\* cancelled, taken over, edited, frozen and swept, and whoever joins.
THEOREM TurnsAreTaken == ServerSpec /\ Cardinality(Able) > 1 => []TakesTurns
BY TurnInvKept, TurnInvIsEnough, PTL

-----------------------------------------------------------------------------
(* A sweep settles.                                                          *)

\* The keys when one of them has one chore more than in K, and so the key in J.
With(K, J, A, x) == [m \in A |-> IF m = x THEN J[m] ELSE K[m]]

\* z takes a chore from x, when y has another one, which y took before: y would take it again.
LEMMA TakenAgain ==
    ASSUME NEW A, NEW d \in Nat, NEW K \in [A -> KeysOf(d)], NEW J \in [A -> KeysOf(d)],
           \A m \in A : Precedes(K[m], J[m]),
           NEW x, NEW y, NEW z,
           First(With(K, J, A, x), A, y), First(With(K, J, A, y), A, z)
    PROVE  First(With(K, J, A, z), A, y)
<1>1. y \in A /\ z \in A
  BY DEF First
<1>2. \A m \in A : K[m] \in KeysOf(d) /\ J[m] \in KeysOf(d)
  OBVIOUS
<1>3. CASE y = z
  BY <1>3
<1>4. CASE y # z
  <2>1. Precedes(K[z], J[y]) /\ \A o \in A \ {y, z} : Precedes(K[z], K[o])
    BY <1>1, <1>4 DEF First, With
  <2>2. x # y
    <3>1. SUFFICES ASSUME x = y PROVE FALSE
      OBVIOUS
    <3>2. Precedes(J[y], K[z])
      BY <1>1, <1>4, <3>1 DEF First, With
    <3>. QED  BY <1>1, <1>2, <2>1, <3>2, PrecedesOneWay
  <2>3. \A o \in A \ {y} : Precedes(K[y], IF o = x THEN J[o] ELSE K[o])
    BY <1>1, <2>2 DEF First, With
  <2>4. Precedes(K[y], J[z])
    <3>1. CASE x = z
      BY <1>1, <1>4, <2>3, <3>1
    <3>2. CASE x # z
      <4>1. Precedes(K[y], K[z]) /\ Precedes(K[z], J[z])
        BY <1>1, <1>4, <2>3, <3>2
      <4>. QED  BY <1>1, <1>2, <4>1, PrecedesTransitive
    <3>. QED  BY <3>1, <3>2
  <2>5. ASSUME NEW o \in A \ {y, z} PROVE Precedes(K[y], K[o])
    <3>1. CASE x # o
      BY <2>3, <3>1
    <3>2. CASE x = o
      <4>1. Precedes(K[y], K[z]) /\ Precedes(K[z], K[o])
        BY <1>1, <1>4, <2>1, <2>3, <3>2
      <4>. QED  BY <1>1, <1>2, <4>1, PrecedesTransitive
    <3>. QED  BY <3>1, <3>2
  <2>. QED  BY <1>1, <1>4, <2>4, <2>5 DEF First, With
<1>. QED  BY <1>3, <1>4

\* What a member has besides the chores n and l.
Besides(t, n, l, m) == Cardinality({i \in Numbers \ {n, l} : t[i].at = "active" /\ t[i].who = m})

LEMMA CarriedIs ==
    ASSUME NEW t \in Rotas, NEW n \in Numbers, NEW l \in Numbers, n # l, t[n].at = "active", NEW m \in Crew
    PROVE  /\ Besides(t, n, l, m) \in Nat
           /\ Carried(t, l, m) = IF t[n].who = m THEN Besides(t, n, l, m) + 1 ELSE Besides(t, n, l, m)
<1>. DEFINE B == {i \in Numbers \ {n, l} : t[i].at = "active" /\ t[i].who = m}
            C == {i \in Others(t, l) : t[i].at = "active" /\ t[i].who = m}
<1>1. IsFiniteSet(B) /\ Cardinality(B) \in Nat /\ n \notin B
  BY NumbersFinite
<1>2. m # NoneOfThem
  BY TurnsAssumption
<1>3. C = IF t[n].who = m THEN B \cup {n} ELSE B
  BY <1>2 DEF Others
<1>4. Cardinality(B \cup {n}) = Cardinality(B) + 1
  <2>. HIDE DEF B
  <2>. QED  BY <1>1, FS_AddElement
<1>. HIDE DEF B, C
<1>5. Cardinality(C) = IF t[n].who = m THEN Cardinality(B) + 1 ELSE Cardinality(B)
  BY <1>3, <1>4
<1>. QED  BY <1>1, <1>5 DEF B, C, Carried, Besides

LEMMA SameMerit ==
    ASSUME NEW t, NEW u, NEW f, NEW me, NEW you,
           \A i \in Numbers : t[i].at = "done" <=> u[i].at = "done",
           \A i \in Numbers : t[i].at = "done" => u[i] = t[i],
           me \in Numbers => t[me].at = "active",
           you \in Numbers => u[you].at = "active",
           NEW m
    PROVE  Merit(t, f, me, m) = Merit(u, f, you, m)
<1>. DEFINE N == {x \in Others(t, me) : t[x].at = "done" /\ t[x].who = m}
            M == {x \in Others(u, you) : u[x].at = "done" /\ u[x].who = m}
<1>1. N = M /\ \A x \in N : t[x].done = u[x].done
  BY DEF Others
<1>. HIDE DEF N, M
<1>2. {t[x].done : x \in N} = {u[x].done : x \in M}
  BY <1>1
<1>3. LastDone(t, me, m) = LastDone(u, you, m)
  BY <1>2 DEF LastDone, N, M
<1>. QED  BY <1>3, Zenon DEF Merit

LEMMA MeritStays ==
    ASSUME NEW t \in Rotas, NEW u \in Rotas, NEW f \in Fames,
           NEW n \in Numbers, NEW l \in Numbers, n # l,
           t[n].at = "active", t[l].at = "active", u[l].at = "active",
           \A i \in Numbers : i # l => u[i] = t[i], NEW m \in Crew
    PROVE  Merit(t, f, l, m) = Merit(t, f, n, m) /\ Merit(u, f, n, m) = Merit(t, f, n, m)
<1>1. /\ \A i \in Numbers : t[i].at = "done" <=> u[i].at = "done"
      /\ \A i \in Numbers : t[i].at = "done" => u[i] = t[i]
      /\ u[n].at = "active"
  OBVIOUS
<1>2. Merit(t, f, n, m) = Merit(u, f, n, m)
  BY <1>1, SameMerit
<1>3. Merit(t, f, n, m) = Merit(t, f, l, m)
  BY SameMerit
<1>. QED  BY <1>2, <1>3

LEMMA MeritOfOne ==
    ASSUME NEW t \in Rotas, NEW u \in Rotas, NEW f \in Fames, NEW l \in Numbers,
           t[l].at = "active", u[l].at = "active",
           \A i \in Numbers : i # l => u[i] = t[i], NEW m \in Crew
    PROVE  Merit(t, f, l, m) = Merit(u, f, l, m)
<1>1. /\ \A i \in Numbers : t[i].at = "done" <=> u[i].at = "done"
      /\ \A i \in Numbers : t[i].at = "done" => u[i] = t[i]
  OBVIOUS
<1>. QED  BY <1>1, SameMerit

\* The load of a member with c chores.
Load(c, m) == <<c + errands[m], OwnPoints * c + ErrandPoints * errands[m], Position(Alphabet, m)>>

LEMMA LoadGrows ==
    ASSUME RulesTypeOK, NEW c \in Nat, NEW m \in Crew
    PROVE  /\ Load(c, m) \in KeysOf(3) /\ Load(c + 1, m) \in KeysOf(3)
           /\ Load(c, m)[1] < Load(c + 1, m)[1]
<1>1. errands[m] \in Nat /\ OwnPoints \in Nat /\ ErrandPoints \in Nat /\ Position(Alphabet, m) \in Nat
  BY PlacesInAlphabet, TurnsAssumption DEF RulesTypeOK
<1>2. PICK p \in Nat, e \in Nat : p = Position(Alphabet, m) /\ e = errands[m]
  BY <1>1
<1>3. ASSUME NEW k \in Nat PROVE Load(k, m) \in KeysOf(3) /\ Load(k, m)[1] = k + e
  <2>1. OwnPoints * k \in Int /\ ErrandPoints * e \in Int
    BY <1>1
  <2>2. OwnPoints * k + ErrandPoints * e \in Int
    BY <2>1
  <2>3. Load(k, m) = <<k + e, OwnPoints * k + ErrandPoints * e, p>>
    BY <1>2 DEF Load
  <2>. QED  BY <1>1, <1>2, <2>2, <2>3 DEF KeysOf
<1>. QED  BY <1>3

LEMMA RankIs ==
    ASSUME RulesTypeOK, NEW t \in Rotas, NEW f \in Fames, NEW n \in Numbers, NEW l \in Numbers, n # l,
           t[l].at = "active", NEW m \in Crew
    PROVE  Rank(t, f, n)[m] =
               Merit(t, f, n, m) \o (IF t[l].who = m THEN Load(Besides(t, l, n, m) + 1, m)
                                     ELSE Load(Besides(t, l, n, m), m))
<1>1. Carried(t, n, m) = IF t[l].who = m THEN Besides(t, l, n, m) + 1 ELSE Besides(t, l, n, m)
  BY CarriedIs
<1>2. Rank(t, f, n)[m] = Merit(t, f, n, m) \o LoadOf(t, n, m)
  BY DEF Rank
<1>3. LoadOf(t, n, m) = Load(Carried(t, n, m), m)
  BY DEF LoadOf, Load
<1>. QED  BY <1>1, <1>2, <1>3

LEMMA FirstAlike ==
    ASSUME NEW A, NEW K, NEW J, \A m \in A : K[m] = J[m], NEW m, First(K, A, m)
    PROVE  First(J, A, m)
BY DEF First

\* When chore l is assigned anew, chore n would still go to the member who has it.
LEMMA SettledStays ==
    ASSUME RulesTypeOK, strategy \in {"least_recently", "highest_streak"}, Able # {},
           NEW t \in Rotas, NEW f \in Fames, NEW u \in Rotas,
           NEW n \in Numbers, NEW l \in Numbers, n # l, t[n].at = "active", t[l].at = "active",
           t[n].who = Chosen(t, f, n),
           \A i \in Numbers : i # l => u[i] = t[i], u[l].at = "active", u[l].who = Chosen(t, f, l)
    PROVE  u[n].who = Chosen(u, f, n)
<1>0. ASSUME NEW m \in Crew PROVE Merit(t, f, n, m) = Merit(t, f, l, m) /\ Merit(t, f, n, m) = Merit(u, f, n, m)
  <2>1. /\ n # l /\ t[n].at = "active" /\ t[l].at = "active" /\ u[l].at = "active"
        /\ \A i \in Numbers : i # l => u[i] = t[i]
    OBVIOUS
  <2>2. Merit(t, f, l, m) = Merit(t, f, n, m) /\ Merit(u, f, n, m) = Merit(t, f, n, m)
    BY <2>1, MeritStays
  <2>. QED  BY <2>2
<1>. DEFINE E(m) == Besides(t, n, l, m)
            K == [m \in Able |-> Merit(t, f, n, m) \o Load(E(m), m)]
            J == [m \in Able |-> Merit(t, f, n, m) \o Load(E(m) + 1, m)]
            d == Ahead + 3
            x == t[l].who
            y == t[n].who
            z == u[l].who
<1>1. Able \subseteq Crew /\ Ahead \in Nat /\ Ahead + 3 \in Nat
  BY AheadIs, AbleOnes
<1>2. ASSUME NEW m \in Able
      PROVE  K[m] \in KeysOf(d) /\ J[m] \in KeysOf(d) /\ Precedes(K[m], J[m])
  <2>1. m \in Crew /\ E(m) \in Nat
    BY <1>1, CarriedIs
  <2>2. Merit(t, f, n, m) \in KeysOf(Ahead)
    BY <2>1, MeritIsKey
  <2>3. Load(E(m), m) \in KeysOf(3) /\ Load(E(m) + 1, m) \in KeysOf(3) /\ Load(E(m), m)[1] < Load(E(m) + 1, m)[1]
    BY <2>1, LoadGrows
  <2>4. 3 \in Nat
    OBVIOUS
  <2>. HIDE DEF E
  <2>. QED  BY <1>1, <2>2, <2>3, <2>4, Prefixed, MoreIsLater, Zenon
<1>3. ASSUME NEW m \in Able PROVE Rank(t, f, n)[m] = With(K, J, Able, x)[m]
  <2>1. Besides(t, l, n, m) = E(m)
    <3>1. Numbers \ {l, n} = Numbers \ {n, l}
      OBVIOUS
    <3>. QED  BY <3>1 DEF Besides
  <2>2. Rank(t, f, n)[m] = Merit(t, f, n, m) \o (IF x = m THEN Load(E(m) + 1, m) ELSE Load(E(m), m))
    <3>1. m \in Crew
      BY <1>1
    <3>2. Rank(t, f, n)[m] = Merit(t, f, n, m) \o (IF x = m THEN Load(Besides(t, l, n, m) + 1, m)
                                                   ELSE Load(Besides(t, l, n, m), m))
      BY <3>1, RankIs
    <3>. QED  BY <2>1, <3>2, Zenon
  <2>. HIDE DEF E
  <2>. QED  BY <2>2 DEF With
<1>4. ASSUME NEW m \in Able PROVE Rank(t, f, l)[m] = With(K, J, Able, y)[m]
  <2>1. Merit(t, f, n, m) = Merit(t, f, l, m)
    BY <1>0, <1>1
  <2>2. Rank(t, f, l)[m] = Merit(t, f, l, m) \o (IF y = m THEN Load(E(m) + 1, m) ELSE Load(E(m), m))
    <3>1. m \in Crew
      BY <1>1
    <3>. QED  BY <3>1, RankIs
  <2>. HIDE DEF E
  <2>. QED  BY <2>1, <2>2 DEF With
<1>5. ASSUME NEW m \in Able PROVE Rank(u, f, n)[m] = With(K, J, Able, z)[m]
  <2>1. Merit(t, f, n, m) = Merit(u, f, n, m)
    BY <1>0, <1>1
  <2>2. Besides(u, l, n, m) = E(m)
    <3>1. {i \in Numbers \ {l, n} : u[i].at = "active" /\ u[i].who = m}
            = {i \in Numbers \ {n, l} : t[i].at = "active" /\ t[i].who = m}
      OBVIOUS
    <3>. QED  BY <3>1 DEF Besides
  <2>3. Rank(u, f, n)[m] = Merit(u, f, n, m) \o (IF z = m THEN Load(E(m) + 1, m) ELSE Load(E(m), m))
    <3>1. m \in Crew
      BY <1>1
    <3>2. Rank(u, f, n)[m] = Merit(u, f, n, m) \o (IF z = m THEN Load(Besides(u, l, n, m) + 1, m)
                                                   ELSE Load(Besides(u, l, n, m), m))
      BY <3>1, RankIs
    <3>. QED  BY <2>2, <3>2, Zenon
  <2>. HIDE DEF E
  <2>. QED  BY <2>1, <2>3 DEF With
<1>6. /\ First(Rank(t, f, n), Able, y) /\ First(Rank(t, f, l), Able, z)
      /\ First(Rank(u, f, n), Able, Chosen(u, f, n))
  BY ComesFirst
<1>7. K \in [Able -> KeysOf(d)] /\ J \in [Able -> KeysOf(d)] /\ d \in Nat
  <2>1. d \in Nat
    BY <1>1, Zenon
  <2>2. \A m \in Able : K[m] \in KeysOf(d) /\ J[m] \in KeysOf(d)
    BY <1>2, Zenon
  <2>3. K = [m \in Able |-> K[m]] /\ J = [m \in Able |-> J[m]]
    OBVIOUS
  <2>. HIDE DEF K, J, d
  <2>. QED  BY <2>1, <2>2, <2>3
<1>8. Rank(u, f, n) \in [Crew -> KeysOf(d)]
  BY RankIsKey
<1>9. y = u[n].who
  OBVIOUS
<1>. HIDE DEF K, J, d, x, y, z
<1>10. First(With(K, J, Able, x), Able, y) /\ First(With(K, J, Able, y), Able, z)
  BY <1>3, <1>4, <1>6, FirstAlike
<1>11. First(With(K, J, Able, z), Able, y)
  BY <1>2, <1>7, <1>10, TakenAgain
<1>12. First(Rank(u, f, n), Able, y)
  BY <1>5, <1>11, FirstAlike
<1>13. \A m \in Able : Rank(u, f, n)[m] \in KeysOf(d)
  BY <1>1, <1>8
<1>. QED  BY <1>6, <1>7, <1>9, <1>12, <1>13, FirstIsOne

LEMMA OwnTurnIgnored ==
    ASSUME RulesTypeOK, strategy \in {"least_recently", "highest_streak"}, Able # {},
           NEW t \in Rotas, NEW f \in Fames, NEW u \in Rotas,
           NEW l \in Numbers, t[l].at = "active", u[l].at = "active",
           \A i \in Numbers : i # l => u[i] = t[i]
    PROVE  Chosen(u, f, l) = Chosen(t, f, l)
<1>1. ASSUME NEW m \in Crew PROVE Rank(t, f, l)[m] = Rank(u, f, l)[m]
  <2>1. Merit(t, f, l, m) = Merit(u, f, l, m)
    BY MeritOfOne
  <2>2. {n \in Others(t, l) : t[n].at = "active" /\ t[n].who = m}
          = {n \in Others(u, l) : u[n].at = "active" /\ u[n].who = m}
    BY DEF Others
  <2>3. Carried(t, l, m) = Carried(u, l, m)
    BY <2>2 DEF Carried
  <2>4. LoadOf(t, l, m) = LoadOf(u, l, m)
    BY <2>3 DEF LoadOf
  <2>. QED  BY <2>1, <2>4 DEF Rank
<1>2. First(Rank(t, f, l), Able, Chosen(t, f, l)) /\ First(Rank(u, f, l), Able, Chosen(u, f, l))
  BY ComesFirst
<1>3. \A m \in Able : Rank(t, f, l)[m] = Rank(u, f, l)[m]
  BY <1>1, AbleOnes
<1>4. First(Rank(u, f, l), Able, Chosen(t, f, l))
  BY <1>2, <1>3, FirstAlike
<1>5. /\ \A m \in Able : Rank(u, f, l)[m] \in KeysOf(Ahead + 3)
      /\ Ahead + 3 \in Nat
  <2>1. Rank(u, f, l) \in [Crew -> KeysOf(Ahead + 3)]
    BY RankIsKey
  <2>. QED  BY <2>1, AbleOnes, AheadIs
<1>. QED  BY <1>2, <1>4, <1>5, FirstIsOne

\* The chores s are with those whom the strategy would find for them; the others as in t.
SettledIn(t, f, s) ==
    {u \in Rotas : /\ \A i \in Numbers : /\ u[i].at = t[i].at /\ u[i].due = t[i].due
                                         /\ i \notin s => u[i] = t[i]
                   /\ \A n \in s : u[n].how = "rule" /\ u[n].who = Chosen(u, f, n)}

LEMMA SettledGrows ==
    ASSUME TurnsTypeOK, strategy # "round_robin", NEW t \in Rotas, NEW f \in Fames,
           NEW s \in SUBSET Numbers, \A i \in s : t[i].at = "active",
           NEW l \in Numbers, l \notin s, t[l].at = "active", NEW u \in SettledIn(t, f, s)
    PROVE  Reassigned(u, f, l) \in SettledIn(t, f, s \cup {l})
<1>1. PICK v : v = Reassigned(u, f, l)
  OBVIOUS
<1>2. /\ u \in Rotas /\ \A i \in Numbers : u[i].at = t[i].at /\ u[i].due = t[i].due
      /\ \A i \in Numbers : i \notin s => u[i] = t[i]
      /\ \A n \in s : u[n].how = "rule" /\ u[n].who = Chosen(u, f, n)
  BY DEF SettledIn
<1>3. /\ v \in Rotas /\ \A i \in Numbers : i # l => v[i] = u[i]
      /\ v[l].at = u[l].at /\ v[l].due = u[l].due /\ v[l].how = "rule" /\ v[l].who = Chosen(u, f, l)
  BY <1>1, <1>2, ReassignedIs
<1>4. RulesTypeOK
  BY RulesOfTurns
<1>5. Chosen(v, f, l) = Chosen(u, f, l) /\ \A n \in s : v[n].who = Chosen(v, f, n)
  <2>1. CASE strategy = "fixed" \/ Able = {}
    <3>1. \A n, i : Chosen(v, f, n) = Chosen(u, f, i)
      <4>1. CASE strategy = "fixed"
        BY <4>1 DEF Chosen
      <4>2. CASE strategy # "fixed" /\ Able = {}
        BY <4>2 DEF Chosen
      <4>. QED  BY <2>1, <4>1, <4>2
    <3>. QED  BY <1>2, <1>3, <3>1
  <2>2. CASE strategy \in {"least_recently", "highest_streak"} /\ Able # {}
    <3>1. u[l].at = "active" /\ v[l].at = "active"
      BY <1>2, <1>3
    <3>2. Chosen(v, f, l) = Chosen(u, f, l)
      BY <1>2, <1>3, <1>4, <2>2, <3>1, OwnTurnIgnored
    <3>3. ASSUME NEW n \in s PROVE v[n].who = Chosen(v, f, n)
      <4>1. n \in Numbers /\ n # l /\ u[n].at = "active" /\ u[n].who = Chosen(u, f, n)
        BY <1>2
      <4>. QED  BY <1>2, <1>3, <1>4, <2>2, <3>1, <4>1, SettledStays
    <3>. QED  BY <3>2, <3>3
  <2>. QED  BY <1>4, <2>1, <2>2 DEF RulesTypeOK, Strategies
<1>6. \A i \in Numbers : /\ v[i].at = t[i].at /\ v[i].due = t[i].due
                         /\ i \notin s \cup {l} => v[i] = t[i]
  BY <1>2, <1>3
<1>7. \A n \in s \cup {l} : v[n].how = "rule" /\ v[n].who = Chosen(v, f, n)
  BY <1>2, <1>3, <1>5
<1>. QED  BY <1>1, <1>3, <1>6, <1>7 DEF SettledIn

LEMMA SweepSettled ==
    ASSUME TurnsTypeOK, strategy # "round_robin", NEW t \in Rotas, NEW f \in Fames
    PROVE  Swept(t, f, {}) \in SettledIn(t, f, Loose(t))
<1>. DEFINE D == Loose(t) \ {}
<1>1. PICK g : Sweeping(g, t, f, D) /\ Swept(t, f, {}) = g[D]
  BY SweepIsFold
<1>2. IsFiniteSet(D) /\ D \in SUBSET Numbers /\ D = Loose(t) /\ \A i \in D : t[i].at = "active"
  BY NumbersFinite DEF Loose
<1>. HIDE DEF D
<1>. DEFINE Q == {s \in SUBSET D : g[s] \in SettledIn(t, f, s)}
<1>4. ASSUME NEW s \in SUBSET D, \A x \in s : s \ {x} \in Q PROVE s \in Q
  <2>1. CASE s = {}
    <3>1. g[s] = t
      BY <1>1, <2>1 DEF Sweeping
    <3>. QED  BY <2>1, <3>1 DEF SettledIn
  <2>2. CASE s # {}
    <3>1. PICK l \in s : l = LastDue(t, s) /\ g[s] = Reassigned(g[s \ {l}], f, l)
      BY <1>1, <2>2 DEF Sweeping
    <3>2. g[s \ {l}] \in SettledIn(t, f, s \ {l}) /\ (s \ {l}) \cup {l} = s
      BY <1>4, <3>1
    <3>3. s \ {l} \in SUBSET Numbers /\ l \in Numbers /\ l \notin s \ {l}
      BY <1>2
    <3>4. \A i \in s : t[i].at = "active"
      BY <1>2
    <3>. HIDE DEF Q
    <3>5. \A i \in s \ {l} : t[i].at = "active"
      BY <3>4
    <3>6. PICK w \in SettledIn(t, f, s \ {l}) : w = g[s \ {l}]
      BY <3>2
    <3>7. Reassigned(w, f, l) \in SettledIn(t, f, (s \ {l}) \cup {l})
      <4>1. t[l].at = "active"
        BY <3>4
      <4>. QED  BY <3>3, <3>5, <4>1, SettledGrows
    <3>8. g[s] \in SettledIn(t, f, s)
      BY <3>1, <3>2, <3>6, <3>7
    <3>. QED  BY <3>8 DEF Q
  <2>. QED  BY <2>1, <2>2
<1>5. Q = SUBSET D
  <2>1. Q \in SUBSET SUBSET D
    OBVIOUS
  <2>. HIDE DEF Q
  <2>. QED  BY <2>1, <1>2, <1>4, Shrink
<1>. QED  BY <1>1, <1>2, <1>5

LEMMA SweptTwice ==
    ASSUME TurnsTypeOK
    PROVE  SweepSettles
<1>1. SUFFICES ASSUME strategy # "round_robin"
               PROVE  Swept(Swept(rota, fame, {}), fame, {}) = Swept(rota, fame, {})
  BY DEF SweepSettles
<1>2. rota \in Rotas /\ fame \in Fames
  BY RulesOfTurns DEF RulesTypeOK
<1>3. PICK u : u = Swept(rota, fame, {})
  OBVIOUS
<1>4. u \in SettledIn(rota, fame, Loose(rota))
  BY <1>1, <1>2, <1>3, SweepSettled
<1>5. u \in Rotas /\ \A n \in Loose(rota) : u[n].how = "rule" /\ u[n].who = Chosen(u, fame, n)
  BY <1>4 DEF SettledIn
<1>6. Loose(u) = Loose(rota)
  <2>1. ASSUME NEW i \in Numbers PROVE i \in Loose(u) <=> i \in Loose(rota)
    BY <1>4 DEF SettledIn, Loose
  <2>. QED  BY <2>1 DEF Loose
<1>7. ASSUME NEW n \in Loose(u) PROVE Reassigned(u, fame, n) = u
  <2>1. n \in Numbers
    BY DEF Loose
  <2>2. PICK v : v = Reassigned(u, fame, n)
    OBVIOUS
  <2>3. /\ v \in Rotas /\ \A i \in Numbers : i # n => v[i] = u[i]
        /\ v[n].at = u[n].at /\ v[n].due = u[n].due /\ v[n].done = u[n].done
        /\ v[n].how = u[n].how /\ v[n].who = u[n].who
    BY <1>2, <1>5, <1>6, <2>1, <2>2, ReassignedIs
  <2>4. v[n] = u[n]
    <3>1. v[n] \in Turn /\ u[n] \in Turn
      BY <1>5, <2>1, <2>3 DEF Rotas
    <3>. QED  BY <2>3, <3>1 DEF Turn
  <2>5. v = u
    BY <1>5, <2>3, <2>4 DEF Rotas
  <2>. QED  BY <2>2, <2>5
<1>8. Swept(u, fame, {}) \in {u}
  <2>1. {u} \in SUBSET Rotas /\ u \in {u}
    BY <1>5
  <2>2. \A w \in {u} : \A n \in Loose(u) \ {} : Reassigned(w, fame, n) \in {u}
    BY <1>7
  <2>. QED  BY <1>2, <1>5, <2>1, <2>2, SweepKeeps
<1>. QED  BY <1>3, <1>8

LEMMA TurnsTypeKept == ServerSpec => []TurnsTypeOK
<1>1. ServerInit => TurnsTypeOK
  BY RulesBeginWell, TurnsBegin DEF ServerInit
<1>2. TurnsTypeOK /\ [ServerNext]_<<vars, parts>> => TurnsTypeOK'
  <2>1. SUFFICES ASSUME TurnsTypeOK, [ServerNext]_<<vars, parts>> PROVE TurnsTypeOK'
    OBVIOUS
  <2>2. CASE \E some : TurnsNext(some)
    BY <2>1, <2>2, TurnsTyped
  <2>3. CASE UNCHANGED turns
    BY <2>1, <2>3 DEF turns, TurnsTypeOK
  <2>. QED  BY <2>1, <2>2, <2>3, TurnsMove
<1>. QED  BY <1>1, <1>2, PTL DEF ServerSpec

\* In every state, whatever the strategy but rotation, whoever may do the chores and
\* however many they have of other templates: a sweep leaves nothing for a second one,
\* although each chore is assigned anew in the light of the others.
THEOREM OneSweepIsEnough == ServerSpec => []SweepSettles
BY TurnsTypeKept, SweptTwice, PTL

-----------------------------------------------------------------------------
(* Even shares.                                                              *)

DoneIn(t) == {n \in Numbers : t[n].at = "done"}
DoneBy(t, m) == Cardinality({n \in Numbers : t[n].at = "done" /\ t[n].who = m})
LastOf(t, m) == LastDone(t, 0, m)

\* Of two founders, who did one longer ago has done as many or one fewer.
EvenlyDone(t) ==
    \A m, o \in Founders : LastOf(t, m) <= LastOf(t, o) =>
        DoneBy(t, m) <= DoneBy(t, o) /\ DoneBy(t, o) <= DoneBy(t, m) + 1
\* A founder whom the strategy gave a chore did one longest ago.
WellGiven(t) ==
    \A n \in Numbers : t[n].at = "active" /\ t[n].how = "rule" =>
        \A m, o \in Founders : t[n].who = m => LastOf(t, m) <= LastOf(t, o)
EvenSoFar(t) ==
    (\A n \in DoneIn(t) : t[n].how = "rule") => EvenlyDone(t) /\ WellGiven(t)

LEMMA FoundersAre ==
    ASSUME RulesTypeOK
    PROVE  \A m \in Founders : m \in Able /\ m \in Crew /\ m # NoneOfThem
BY AbleOnes, TurnsAssumption DEF Founders

LEMMA SameLast ==
    ASSUME NEW t \in Rotas, NEW u \in Rotas, NEW me, NEW you,
           \A i \in Numbers : t[i].at = "done" <=> u[i].at = "done",
           \A i \in Numbers : t[i].at = "done" => u[i].who = t[i].who /\ u[i].done = t[i].done,
           me \in Numbers => t[me].at # "done",
           you \in Numbers => u[you].at # "done",
           NEW m
    PROVE  LastDone(t, me, m) = LastDone(u, you, m)
<1>. DEFINE N == {x \in Others(t, me) : t[x].at = "done" /\ t[x].who = m}
            M == {x \in Others(u, you) : u[x].at = "done" /\ u[x].who = m}
<1>1. N = M /\ \A x \in N : t[x].done = u[x].done
  BY DEF Others
<1>. HIDE DEF N, M
<1>2. {t[x].done : x \in N} = {u[x].done : x \in M}
  BY <1>1
<1>. QED  BY <1>2 DEF LastDone, N, M

\* What is done decides.
LEMMA SameDone ==
    ASSUME NEW t \in Rotas, NEW u \in Rotas,
           \A i \in Numbers : t[i].at = "done" <=> u[i].at = "done",
           \A i \in Numbers : t[i].at = "done" => u[i].who = t[i].who /\ u[i].done = t[i].done
    PROVE  /\ DoneIn(t) = DoneIn(u)
           /\ \A m : LastOf(t, m) = LastOf(u, m) /\ DoneBy(t, m) = DoneBy(u, m)
<1>1. DoneIn(t) = DoneIn(u)
  BY DEF DoneIn
<1>2. ASSUME NEW m PROVE LastOf(t, m) = LastOf(u, m)
  <2>1. 0 \notin Numbers
    BY NumbersFinite DEF Numbers
  <2>. QED  BY <2>1, SameLast DEF LastOf
<1>3. ASSUME NEW m PROVE DoneBy(t, m) = DoneBy(u, m)
  <2>1. {n \in Numbers : t[n].at = "done" /\ t[n].who = m} = {n \in Numbers : u[n].at = "done" /\ u[n].who = m}
    OBVIOUS
  <2>. QED  BY <2>1 DEF DoneBy
<1>. QED  BY <1>1, <1>2, <1>3

LEMMA DoneNumbers ==
    ASSUME NEW t \in Rotas, NEW m
    PROVE  DoneBy(t, m) \in Nat /\ LastOf(t, m) \in Nat /\ Cardinality(DoneIn(t)) \in Nat
<1>1. LastOf(t, m) \in Nat
  BY LastDoneIsLatest DEF LastOf
<1>. QED  BY <1>1, NumbersFinite DEF DoneBy, DoneIn

\* Whom the strategy finds did one longest ago.
LEMMA ChosenWaitedLongest ==
    ASSUME RulesTypeOK, strategy = "least_recently", NEW t \in Rotas, NEW f \in Fames, NEW me \in Nat,
           me \in Numbers => t[me].at # "done",
           NEW m \in Founders, NEW o \in Founders, Chosen(t, f, me) = m
    PROVE  LastOf(t, m) <= LastOf(t, o)
<1>1. m \in Able /\ o \in Able /\ m \in Crew /\ o \in Crew
  BY FoundersAre
<1>2. First(Rank(t, f, me), Able, m)
  <2>1. Able # {}
    BY <1>1
  <2>. QED  BY <2>1, ComesFirst
<1>3. ASSUME NEW c \in Crew PROVE Rank(t, f, me)[c][1] = LastOf(t, c) /\ LastOf(t, c) \in Nat
  <2>1. LastDone(t, me, c) = LastOf(t, c)
    <3>1. 0 \notin Numbers
      BY NumbersFinite DEF Numbers
    <3>. QED  BY <3>1, SameLast DEF LastOf
  <2>2. LastOf(t, c) \in Nat
    BY DoneNumbers
  <2>3. Rank(t, f, me)[c] = <<LastOf(t, c)>> \o LoadOf(t, me, c)
    BY <2>1 DEF Rank, Merit
  <2>4. LoadOf(t, me, c) \in KeysOf(3) /\ <<LastOf(t, c)>> \in KeysOf(1)
    <3>1. \A a \in Nat : <<a>> \in KeysOf(1)
      BY DEF KeysOf
    <3>2. LoadOf(t, me, c) \in KeysOf(3)
      BY LoadIsKey
    <3>. QED  BY <2>2, <3>1, <3>2
  <2>5. (<<LastOf(t, c)>> \o LoadOf(t, me, c))[1] = <<LastOf(t, c)>>[1]
    <3>1. 1 \in Nat /\ 3 \in Nat /\ 1 \in 1..1
      OBVIOUS
    <3>. QED  BY <2>4, <3>1, Prefixed, Zenon
  <2>. QED  BY <2>2, <2>3, <2>5
<1>4. CASE m = o
  BY <1>1, <1>3, <1>4
<1>5. CASE m # o
  <2>1. Precedes(Rank(t, f, me)[m], Rank(t, f, me)[o])
    BY <1>1, <1>2, <1>5 DEF First
  <2>2. ASSUME NEW a \in KeysOf(4), NEW b \in KeysOf(4), Precedes(a, b) PROVE a[1] <= b[1]
    <3>1. PICK i \in 1..4 : a[i] < b[i] /\ \A j \in 1..(i - 1) : a[j] = b[j]
      BY <2>2 DEF Precedes, KeysOf
    <3>2. i = 1 \/ 1 \in 1..(i - 1)
      OBVIOUS
    <3>. QED  BY <3>1, <3>2 DEF KeysOf
  <2>3. Rank(t, f, me) \in [Crew -> KeysOf(4)]
    <3>1. Ahead + 3 = 4
      BY DEF Ahead
    <3>2. Rank(t, f, me) \in [Crew -> KeysOf(Ahead + 3)]
      BY RankIsKey
    <3>. QED  BY <3>1, <3>2
  <2>. QED  BY <1>1, <1>3, <2>1, <2>2, <2>3
<1>. QED  BY <1>4, <1>5

LEMMA EvenCarriesOver ==
    ASSUME NEW t \in Rotas, NEW u \in Rotas, EvenSoFar(t),
           \A i \in Numbers : t[i].at = "done" <=> u[i].at = "done",
           \A i \in Numbers : t[i].at = "done" =>
               u[i].who = t[i].who /\ u[i].done = t[i].done /\ u[i].how = t[i].how,
           \A i \in Numbers : u[i].at = "active" /\ u[i].how = "rule" =>
               \/ t[i].at = "active" /\ t[i].how = "rule" /\ u[i].who = t[i].who
               \/ \A m, o \in Founders : u[i].who = m => LastOf(t, m) <= LastOf(t, o)
    PROVE  EvenSoFar(u)
<1>1. /\ DoneIn(t) = DoneIn(u)
      /\ \A m : LastOf(t, m) = LastOf(u, m) /\ DoneBy(t, m) = DoneBy(u, m)
  BY SameDone
<1>2. SUFFICES ASSUME \A n \in DoneIn(u) : u[n].how = "rule" PROVE EvenlyDone(u) /\ WellGiven(u)
  BY DEF EvenSoFar
<1>3. \A n \in DoneIn(t) : t[n].how = "rule"
  BY <1>1, <1>2 DEF DoneIn
<1>4. EvenlyDone(t) /\ WellGiven(t)
  BY <1>3 DEF EvenSoFar
<1>5. EvenlyDone(u)
  BY <1>1, <1>4 DEF EvenlyDone
<1>6. WellGiven(u)
  <2>1. ASSUME NEW n \in Numbers, u[n].at = "active", u[n].how = "rule",
               NEW m \in Founders, NEW o \in Founders, u[n].who = m
        PROVE  LastOf(t, m) <= LastOf(t, o)
    BY <1>4, <2>1 DEF WellGiven
  <2>. QED  BY <1>1, <2>1 DEF WellGiven
<1>. QED  BY <1>5, <1>6

LEMMA ReassignedEven ==
    ASSUME TurnsTypeOK, strategy = "least_recently", NEW t \in Rotas, NEW f \in Fames, EvenSoFar(t),
           NEW n \in Numbers, t[n].at = "active"
    PROVE  EvenSoFar(Reassigned(t, f, n))
<1>1. PICK u : u = Reassigned(t, f, n)
  OBVIOUS
<1>2. /\ u \in Rotas /\ \A i \in Numbers : i # n => u[i] = t[i]
      /\ u[n].at = t[n].at /\ u[n].who = Chosen(t, f, n)
  BY <1>1, ReassignedIs
<1>3. ASSUME NEW m \in Founders, NEW o \in Founders, u[n].who = m PROVE LastOf(t, m) <= LastOf(t, o)
  <2>1. RulesTypeOK /\ n \in Nat
    BY RulesOfTurns, NumbersFinite
  <2>. QED  BY <1>2, <1>3, <2>1, ChosenWaitedLongest
<1>4. /\ \A i \in Numbers : t[i].at = "done" <=> u[i].at = "done"
      /\ \A i \in Numbers : t[i].at = "done" =>
             u[i].who = t[i].who /\ u[i].done = t[i].done /\ u[i].how = t[i].how
  BY <1>2
<1>5. \A i \in Numbers : u[i].at = "active" /\ u[i].how = "rule" =>
               \/ t[i].at = "active" /\ t[i].how = "rule" /\ u[i].who = t[i].who
               \/ \A m, o \in Founders : u[i].who = m => LastOf(t, m) <= LastOf(t, o)
  BY <1>2, <1>3
<1>6. EvenSoFar(u)
  BY <1>2, <1>4, <1>5, EvenCarriesOver
<1>. QED  BY <1>1, <1>6

LEMMA SweptEven ==
    ASSUME TurnsTypeOK, strategy = "least_recently", NEW t \in Rotas, NEW f \in Fames, EvenSoFar(t), NEW spared
    PROVE  EvenSoFar(Swept(t, f, spared))
<1>. DEFINE P == {u \in Rotas : EvenSoFar(u) /\ \A i \in Numbers : u[i].at = t[i].at}
<1>1. ASSUME NEW u \in P, NEW n \in Loose(t) \ spared PROVE Reassigned(u, f, n) \in P
  <2>1. n \in Numbers /\ u \in Rotas /\ EvenSoFar(u) /\ u[n].at = "active"
    BY DEF Loose
  <2>2. EvenSoFar(Reassigned(u, f, n))
    BY <2>1, ReassignedEven
  <2>3. PICK v : v = Reassigned(u, f, n)
    OBVIOUS
  <2>4. v \in Rotas /\ \A i \in Numbers : v[i].at = u[i].at
    BY <2>1, <2>3, ReassignedIs
  <2>. QED  BY <2>2, <2>3, <2>4
<1>2. P \in SUBSET Rotas /\ t \in P
  OBVIOUS
<1>. HIDE DEF P
<1>3. Swept(t, f, spared) \in P
  BY <1>1, <1>2, SweepKeeps
<1>. QED  BY <1>3 DEF P

\* The next chore is the strategy's choice, or not by rule.
LEMMA PlacedEven ==
    ASSUME TurnsTypeOK, strategy = "least_recently", RoomLeft, NEW t \in Rotas, EvenSoFar(t),
           NEW m \in Crew \cup {NoneOfThem}, NEW how \in {"rule", "hand", "sticky"}, NEW dueAt \in 0..2,
           t[NextNumber].at = "unborn", NEW f \in Fames, how = "rule" => m = Chosen(t, f, 0)
    PROVE  EvenSoFar(Placed(t, m, how, dueAt))
<1>1. PICK u, N : u = Placed(t, m, how, dueAt) /\ N = NextNumber
  OBVIOUS
<1>2. /\ u \in Rotas /\ N \in Numbers /\ \A i \in Numbers : i # N => u[i] = t[i]
      /\ u[N].at = "active" /\ u[N].who = m /\ u[N].how = how
  <2>. DEFINE row == [at |-> "active", who |-> m, how |-> how, due |-> dueAt, done |-> 0]
  <2>1. /\ u \in Rotas /\ N \in Numbers /\ u[N] = row
        /\ \A i \in Numbers : i # N => u[i] = t[i]
    BY <1>1, PlacedIs, Zenon
  <2>2. row.at = "active" /\ row.who = m /\ row.how = how
    OBVIOUS
  <2>. HIDE DEF row
  <2>. QED  BY <2>1, <2>2
<1>3. ASSUME how = "rule", NEW a \in Founders, NEW o \in Founders, m = a PROVE LastOf(t, a) <= LastOf(t, o)
  <2>1. RulesTypeOK /\ 0 \in Nat /\ 0 \notin Numbers
    BY RulesOfTurns, NumbersFinite DEF Numbers
  <2>. QED  BY <1>3, <2>1, ChosenWaitedLongest
<1>4. /\ \A i \in Numbers : t[i].at = "done" <=> u[i].at = "done"
      /\ \A i \in Numbers : t[i].at = "done" =>
             u[i].who = t[i].who /\ u[i].done = t[i].done /\ u[i].how = t[i].how
  BY <1>1, <1>2
<1>5. \A i \in Numbers : u[i].at = "active" /\ u[i].how = "rule" =>
               \/ t[i].at = "active" /\ t[i].how = "rule" /\ u[i].who = t[i].who
               \/ \A a, o \in Founders : u[i].who = a => LastOf(t, a) <= LastOf(t, o)
  BY <1>2, <1>3
<1>6. EvenSoFar(u)
  BY <1>2, <1>4, <1>5, EvenCarriesOver
<1>. QED  BY <1>1, <1>6

LEMMA RenewedEven ==
    ASSUME TurnsTypeOK, strategy = "least_recently", RoomLeft, NEW t \in Rotas, EvenSoFar(t),
           NEW dueAt \in 0..2, t[NextNumber].at = "unborn", NEW f \in Fames
    PROVE  EvenSoFar(Renewed(t, f, dueAt))
<1>1. Chosen(t, f, 0) \in Crew \cup {NoneOfThem}
  BY RulesOfTurns, ChosenIsMember
<1>2. Renewed(t, f, dueAt) = Placed(t, Chosen(t, f, 0), "rule", dueAt)
  BY DEF Renewed
<1>. QED  BY <1>1, <1>2, PlacedEven

\* The only chore there is, done by the one whom the strategy gave it.
LEMMA ClosedEven ==
    ASSUME TurnsTypeOK, NEW n \in Active, EvenSoFar(rota), \A i \in Active : i = n,
           \A i \in DoneIn(rota) : rota[i].done <= Cardinality(DoneIn(rota))
    PROVE  EvenSoFar(Closed(n))
<1>1. PICK t, d, p : t = Closed(n) /\ d = Stamp /\ p = rota[n].who
  OBVIOUS
<1>2. rota \in Rotas /\ n \in Numbers /\ rota[n] \in Turn /\ rota[n].at = "active"
  BY DEF TurnsTypeOK, Rotas, Active, Made
<1>3. d = 1 + Cardinality(DoneIn(rota)) /\ Cardinality(DoneIn(rota)) \in Nat
  <2>1. {x \in Made : rota[x].at = "done"} = DoneIn(rota)
    BY DEF Made, DoneIn
  <2>. QED  BY <1>1, <1>2, <2>1, DoneNumbers DEF Stamp
<1>4. /\ t \in Rotas /\ \A i \in Numbers : i # n => t[i] = rota[i]
      /\ t[n].at = "done" /\ t[n].who = p /\ t[n].done = d /\ t[n].how = rota[n].how
  <2>1. t = [rota EXCEPT ![n] = [rota[n] EXCEPT !.at = "done", !.done = d]] /\ t \in Rotas
    BY <1>1, ClosedIs
  <2>. QED  BY <1>1, <1>2, <2>1 DEF Rotas, Turn
<1>5. SUFFICES ASSUME \A i \in DoneIn(t) : t[i].how = "rule" PROVE EvenlyDone(t) /\ WellGiven(t)
  BY <1>1 DEF EvenSoFar
<1>6. EvenlyDone(rota) /\ WellGiven(rota) /\ rota[n].how = "rule"
  <2>1. n \in DoneIn(t) /\ \A i \in DoneIn(rota) : i \in DoneIn(t) /\ i # n
    BY <1>2, <1>4 DEF DoneIn
  <2>2. \A i \in DoneIn(rota) : rota[i].how = "rule"
    BY <1>4, <1>5, <2>1 DEF DoneIn
  <2>. QED  BY <1>4, <1>5, <2>1, <2>2 DEF EvenSoFar
<1>7. WellGiven(t)
  <2>1. ASSUME NEW i \in Numbers, t[i].at = "active" PROVE FALSE
    <3>1. i # n /\ rota[i].at = "active"
      BY <1>4, <2>1
    <3>. QED  BY <3>1 DEF Active, Made
  <2>. QED  BY <2>1 DEF WellGiven
<1>8. ASSUME NEW m \in Founders
      PROVE  /\ LastOf(rota, m) < d /\ LastOf(rota, m) \in Nat /\ LastOf(t, m) \in Nat
             /\ LastOf(t, m) = IF m = p THEN d ELSE LastOf(rota, m)
             /\ DoneBy(rota, m) \in Nat
             /\ DoneBy(t, m) = IF m = p THEN DoneBy(rota, m) + 1 ELSE DoneBy(rota, m)
  <2>0. m # NoneOfThem
    BY FoundersAre, RulesOfTurns
  <2>1. LastOf(rota, m) < d /\ LastOf(rota, m) \in Nat /\ LastOf(t, m) \in Nat
    <3>1. LastOf(rota, m) \in Nat /\ LastOf(t, m) \in Nat
      BY <1>2, <1>4, DoneNumbers
    <3>2. \/ LastOf(rota, m) = 0
          \/ \E i \in Others(rota, 0) : rota[i].at = "done" /\ rota[i].done = LastOf(rota, m)
      BY <1>2, LastDoneIsLatest DEF LastOf
    <3>3. LastOf(rota, m) = 0 \/ \E i \in DoneIn(rota) : rota[i].done = LastOf(rota, m)
      BY <3>2 DEF Others, DoneIn
    <3>. QED  BY <1>3, <3>1, <3>3
  <2>2. CASE m = p
    <3>1. LastOf(t, m) = d
      <4>1. n \in Others(t, 0)
        <5>1. 0 \notin Numbers
          BY NumbersFinite DEF Numbers
        <5>. QED  BY <1>2, <1>4, <2>0, <2>2, <5>1 DEF Others
      <4>2. d <= LastOf(t, m)
        BY <1>4, <2>2, <4>1, LastDoneIsLatest DEF LastOf
      <4>3. \/ LastOf(t, m) = 0
            \/ \E i \in Others(t, 0) : /\ t[i].at = "done" /\ t[i].who = m
                                       /\ t[i].done = LastOf(t, m)
        BY <1>4, LastDoneIsLatest DEF LastOf
      <4>4. \A i \in Others(t, 0) : t[i].at = "done" => t[i].done <= d /\ t[i].done \in Nat
        <5>1. ASSUME NEW i \in Others(t, 0), t[i].at = "done", i # n
              PROVE  t[i].done <= d /\ t[i].done \in Nat
          <6>1. i \in Numbers /\ t[i] = rota[i] /\ i \in DoneIn(rota)
            BY <1>4, <5>1 DEF Others, DoneIn
          <6>2. rota[i].done \in Nat
            BY <1>2, <6>1, NumbersFinite DEF Rotas, Turn
          <6>. QED  BY <1>3, <6>1, <6>2
        <5>. QED  BY <1>3, <1>4, <5>1
      <4>. QED  BY <1>3, <2>1, <4>2, <4>3, <4>4
    <3>2. DoneBy(t, m) = DoneBy(rota, m) + 1
      <4>. DEFINE B == {i \in Numbers : rota[i].at = "done" /\ rota[i].who = m}
      <4>1. {i \in Numbers : t[i].at = "done" /\ t[i].who = m} = B \cup {n} /\ n \notin B /\ IsFiniteSet(B)
        BY <1>2, <1>4, <2>2, NumbersFinite
      <4>2. Cardinality(B \cup {n}) = Cardinality(B) + 1
        <5>. HIDE DEF B
        <5>. QED  BY <4>1, FS_AddElement
      <4>. QED  BY <4>1, <4>2 DEF DoneBy
    <3>. QED  BY <1>2, <2>1, <2>2, <3>1, <3>2, DoneNumbers
  <2>3. CASE m # p
    <3>1. {i \in Numbers : t[i].at = "done" /\ t[i].who = m}
            = {i \in Numbers : rota[i].at = "done" /\ rota[i].who = m}
      BY <1>2, <1>4, <2>3
    <3>2. /\ {x \in Others(t, 0) : t[x].at = "done" /\ t[x].who = m}
                = {x \in Others(rota, 0) : rota[x].at = "done" /\ rota[x].who = m}
          /\ \A x \in {x \in Others(t, 0) : t[x].at = "done" /\ t[x].who = m} : t[x].done = rota[x].done
      BY <1>2, <1>4, <2>3 DEF Others
    <3>3. {t[x].done : x \in {x \in Others(t, 0) : t[x].at = "done" /\ t[x].who = m}}
            = {rota[x].done : x \in {x \in Others(rota, 0) : rota[x].at = "done" /\ rota[x].who = m}}
      BY <3>2
    <3>4. LastOf(t, m) = LastOf(rota, m)
      BY <3>3 DEF LastOf, LastDone
    <3>5. DoneBy(t, m) = DoneBy(rota, m) /\ DoneBy(rota, m) \in Nat
      BY <1>2, <3>1, DoneNumbers DEF DoneBy
    <3>. QED  BY <2>1, <2>3, <3>4, <3>5
  <2>. QED  BY <2>2, <2>3
<1>9. ASSUME NEW m \in Founders, NEW o \in Founders, LastOf(t, m) <= LastOf(t, o)
      PROVE  DoneBy(t, m) <= DoneBy(t, o) /\ DoneBy(t, o) <= DoneBy(t, m) + 1
  <2>1. CASE m = p /\ o # p
    BY <1>3, <1>8, <1>9, <2>1
  <2>2. CASE m = o
    BY <1>8, <2>2
  <2>3. CASE m # p /\ o # p
    BY <1>6, <1>8, <1>9, <2>3 DEF EvenlyDone
  <2>4. CASE m # p /\ o = p
    <3>1. LastOf(rota, o) <= LastOf(rota, m)
      BY <1>1, <1>2, <1>6, <2>4 DEF WellGiven
    <3>2. DoneBy(rota, o) <= DoneBy(rota, m) /\ DoneBy(rota, m) <= DoneBy(rota, o) + 1
      BY <1>6, <3>1 DEF EvenlyDone
    <3>. QED  BY <1>8, <2>4, <3>2
  <2>. QED  BY <2>1, <2>2, <2>3, <2>4
<1>. QED  BY <1>7, <1>9 DEF EvenlyDone

\* How many chores are made, when the first so many numbers are theirs.
MadeUpTo(k) == \A n \in Numbers : rota[n].at # "unborn" <=> n <= k
ActiveIn(t) == {n \in Numbers : t[n].at = "active"}
Stamped(t) == \A n \in DoneIn(t) : t[n].done <= Cardinality(DoneIn(t))

EvenInv ==
    /\ TurnsTypeOK /\ Len(roster) >= 2
    /\ \E k \in 0..MaxTurns : MadeUpTo(k)
    /\ Stamped(rota)
    /\ strategy = "least_recently" /\ Cardinality(ActiveIn(rota)) <= 1 => EvenSoFar(rota)

LEMMA NextIsUnborn ==
    ASSUME TurnsTypeOK, RoomLeft, NEW k \in 0..MaxTurns, MadeUpTo(k)
    PROVE  /\ NextNumber = k + 1 /\ k + 1 \in 0..MaxTurns /\ rota[NextNumber].at = "unborn"
           /\ NextNumber \in Numbers
           /\ \A n \in Numbers : n <= k + 1 <=> n <= k \/ n = NextNumber
<1>1. k \in Nat /\ (k + 1 \in Numbers => k + 1 \in 0..MaxTurns) /\ \A n \in Numbers : n \in Nat
  BY CountIsNumber
<1>2. \A n : n \in 1..k <=> n \in Numbers /\ n <= k
  BY NumbersFinite DEF Numbers
<1>3. Made = 1..k
  BY <1>2 DEF Made, MadeUpTo
<1>4. NextNumber = k + 1
  BY <1>1, <1>3, HowMany DEF NextNumber
<1>5. NextNumber \in Numbers
  BY DEF RoomLeft
<1>6. ~(k + 1 <= k)
  BY <1>1
<1>7. \A n \in Numbers : n <= k + 1 <=> n <= k \/ n = k + 1
  BY <1>1
<1>. QED  BY <1>1, <1>4, <1>5, <1>6, <1>7 DEF MadeUpTo

\* A step that makes no chore.
LEMMA EvenWithout ==
    ASSUME EvenInv, TurnsTypeOK', UNCHANGED <<strategy, audience, fixed, roster, errands>>,
           \A n \in Numbers : rota'[n].at = rota[n].at /\ (rota[n].at = "done" => rota'[n] = rota[n]),
           strategy = "least_recently" /\ EvenSoFar(rota) => EvenSoFar(rota')
    PROVE  EvenInv'
<1>1. Founders' = Founders
  BY DEF Founders, Able, Eligible, Position
<1>2. DoneIn(rota') = DoneIn(rota) /\ ActiveIn(rota') = ActiveIn(rota)
  BY DEF DoneIn, ActiveIn
<1>3. Stamped(rota')
  BY <1>2 DEF EvenInv, Stamped, DoneIn
<1>4. EvenSoFar(rota)' <=> EvenSoFar(rota')
  BY <1>1 DEF EvenSoFar, EvenlyDone, WellGiven, DoneIn, LastOf, DoneBy, LastDone, Others
<1>5. \E k \in 0..MaxTurns : MadeUpTo(k)'
  BY DEF EvenInv, MadeUpTo
<1>6. Stamped(rota)' /\ ActiveIn(rota)' = ActiveIn(rota)
  BY <1>2, <1>3 DEF Stamped, DoneIn, ActiveIn
<1>7. Len(roster)' >= 2 /\ (strategy = "least_recently")' = (strategy = "least_recently")
  BY DEF EvenInv
<1>. QED  BY <1>4, <1>5, <1>6, <1>7 DEF EvenInv

LEMMA SweptAlike ==
    ASSUME TurnsTypeOK, NEW t \in Rotas, NEW f \in Fames, NEW spared
    PROVE  \A i \in Numbers : /\ Swept(t, f, spared)[i].at = t[i].at
                              /\ t[i].at # "active" => Swept(t, f, spared)[i] = t[i]
<1>. DEFINE P == {u \in Rotas : \A i \in Numbers : u[i].at = t[i].at /\ (t[i].at # "active" => u[i] = t[i])}
<1>1. ASSUME NEW u \in P, NEW n \in Loose(t) \ spared PROVE Reassigned(u, f, n) \in P
  <2>1. n \in Numbers /\ u \in Rotas /\ t[n].at = "active"
    BY DEF Loose
  <2>2. PICK v : v = Reassigned(u, f, n)
    OBVIOUS
  <2>3. v \in Rotas /\ v[n].at = u[n].at /\ \A i \in Numbers : i # n => v[i] = u[i]
    BY <2>1, <2>2, ReassignedIs
  <2>. QED  BY <2>1, <2>2, <2>3
<1>2. P \in SUBSET Rotas /\ t \in P
  OBVIOUS
<1>. HIDE DEF P
<1>3. Swept(t, f, spared) \in P
  BY <1>1, <1>2, SweepKeeps
<1>. QED  BY <1>3 DEF P

\* A step that makes the next chore, when those before it have become c.
LEMMA EvenWith ==
    ASSUME EvenInv, TurnsTypeOK', UNCHANGED <<strategy, audience, fixed, roster, errands>>, RoomLeft,
           NEW c \in Rotas, \A i \in Numbers : c[i].at = "unborn" <=> rota[i].at = "unborn",
           Stamped(c),
           NEW u \in Rotas, \A i \in Numbers : i # NextNumber => u[i] = c[i], u[NextNumber].at = "active",
           NEW f \in Fames, NEW spared, rota' = Swept(u, f, spared),
           strategy = "least_recently" /\ Cardinality(ActiveIn(u)) <= 1 => EvenSoFar(u)
    PROVE  EvenInv'
<1>0. TurnsTypeOK
  BY DEF EvenInv
<1>1. PICK v : v = rota'
  OBVIOUS
<1>2. \A i \in Numbers : v[i].at = u[i].at /\ (u[i].at # "active" => v[i] = u[i])
  BY <1>0, <1>1, SweptAlike
<1>3. PICK k \in 0..MaxTurns : MadeUpTo(k)
  BY DEF EvenInv
<1>4. /\ NextNumber = k + 1 /\ k + 1 \in 0..MaxTurns /\ rota[NextNumber].at = "unborn"
      /\ NextNumber \in Numbers /\ \A n \in Numbers : n <= k + 1 <=> n <= k \/ n = NextNumber
  BY <1>0, <1>3, NextIsUnborn
<1>5. \E j \in 0..MaxTurns : MadeUpTo(j)'
  <2>1. \A n \in Numbers : v[n].at # "unborn" <=> n <= k + 1
    <3>1. ASSUME NEW n \in Numbers PROVE v[n].at # "unborn" <=> n <= k + 1
      <4>1. CASE n = NextNumber
        BY <1>2, <1>4, <4>1
      <4>2. CASE n # NextNumber
        <5>1. v[n].at # "unborn" <=> rota[n].at # "unborn"
          BY <1>2, <4>2
        <5>. QED  BY <1>3, <1>4, <4>2, <5>1 DEF MadeUpTo
      <4>. QED  BY <4>1, <4>2
    <3>. QED  BY <3>1
  <2>. QED  BY <1>1, <1>4, <2>1 DEF MadeUpTo
<1>6. DoneIn(v) = DoneIn(c) /\ \A n \in DoneIn(v) : v[n] = c[n]
  <2>1. c[NextNumber].at = "unborn"
    BY <1>4
  <2>. QED  BY <1>2, <2>1 DEF DoneIn
<1>7. Stamped(v)
  BY <1>6 DEF Stamped
<1>8. ActiveIn(v) = ActiveIn(u)
  BY <1>2 DEF ActiveIn
<1>9. strategy = "least_recently" /\ Cardinality(ActiveIn(v)) <= 1 => EvenSoFar(v)
  BY <1>0, <1>1, <1>8, SweptEven
<1>10. Founders' = Founders
  BY DEF Founders, Able, Eligible, Position
<1>11. EvenSoFar(rota)' <=> EvenSoFar(v)
  BY <1>1, <1>10 DEF EvenSoFar, EvenlyDone, WellGiven, DoneIn, LastOf, DoneBy, LastDone, Others
<1>12. Stamped(rota)' /\ ActiveIn(rota)' = ActiveIn(v)
  BY <1>1, <1>7 DEF Stamped, DoneIn, ActiveIn
<1>13. Len(roster)' >= 2 /\ (strategy = "least_recently")' = (strategy = "least_recently")
  BY DEF EvenInv
<1>. QED  BY <1>5, <1>9, <1>11, <1>12, <1>13 DEF EvenInv

\* The next chore as well: as many active ones, or one more.
LEMMA ActiveGrow ==
    ASSUME TurnsTypeOK, NEW c \in Rotas, NEW u \in Rotas, NEW N \in Numbers,
           rota[N].at = "unborn", u[N].at = "active", \A i \in Numbers : i # N => u[i] = c[i]
    PROVE  /\ c = rota => Cardinality(ActiveIn(rota)) <= Cardinality(ActiveIn(u))
           /\ \A n \in ActiveIn(rota) :
                  c[n].at # "active" /\ (\A i \in Numbers : i # n => c[i] = rota[i])
                      => Cardinality(ActiveIn(u)) = Cardinality(ActiveIn(rota))
           /\ \A n \in ActiveIn(rota) : Cardinality(ActiveIn(rota)) <= 1 => \A i \in ActiveIn(rota) : i = n
<1>1. \A S \in SUBSET Numbers : IsFiniteSet(S) /\ Cardinality(S) \in Nat
  BY NumbersFinite
<1>2. ActiveIn(rota) \in SUBSET Numbers /\ ActiveIn(u) \in SUBSET Numbers
  BY DEF ActiveIn
<1>3. ASSUME c = rota PROVE Cardinality(ActiveIn(rota)) <= Cardinality(ActiveIn(u))
  <2>1. ActiveIn(rota) \subseteq ActiveIn(u)
    BY <1>3 DEF ActiveIn
  <2>. QED  BY <1>1, <1>2, <2>1, FS_Subset
<1>4. ASSUME NEW n \in ActiveIn(rota), c[n].at # "active", \A i \in Numbers : i # n => c[i] = rota[i]
      PROVE  Cardinality(ActiveIn(u)) = Cardinality(ActiveIn(rota))
  <2>. DEFINE B == ActiveIn(rota) \ {n}
  <2>1. ActiveIn(u) = B \cup {N} /\ N \notin B /\ B \in SUBSET Numbers
    BY <1>4 DEF ActiveIn
  <2>2. Cardinality(B) = Cardinality(ActiveIn(rota)) - 1
    BY <1>1, <1>2, FS_RemoveElement
  <2>. HIDE DEF B
  <2>3. Cardinality(B \cup {N}) = Cardinality(B) + 1
    BY <1>1, <2>1, FS_AddElement
  <2>. QED  BY <1>1, <1>2, <2>1, <2>2, <2>3
<1>5. ASSUME NEW n \in ActiveIn(rota), Cardinality(ActiveIn(rota)) <= 1, NEW i \in ActiveIn(rota)
      PROVE  i = n
  <2>1. Cardinality(ActiveIn(rota) \ {n}) = Cardinality(ActiveIn(rota)) - 1
    BY <1>1, <1>2, FS_RemoveElement
  <2>2. ActiveIn(rota) \ {n} \in SUBSET Numbers
    BY <1>2
  <2>3. Cardinality(ActiveIn(rota) \ {n}) = 0
    <3>1. Cardinality(ActiveIn(rota) \ {n}) \in Nat /\ Cardinality(ActiveIn(rota)) \in Nat
      BY <1>1, <1>2, <2>2
    <3>. QED  BY <1>5, <2>1, <3>1
  <2>4. ActiveIn(rota) \ {n} = {}
    BY <1>1, <2>2, <2>3, FS_EmptySet
  <2>. QED  BY <2>4
<1>. QED  BY <1>3, <1>4, <1>5

\* A step that makes no chore and ends with a sweep, when it has made u of the chores.
LEMMA EvenSwept ==
    ASSUME EvenInv, TurnsTypeOK', UNCHANGED <<strategy, audience, fixed, roster, errands>>,
           NEW u \in Rotas,
           \A n \in Numbers : u[n].at = rota[n].at /\ (rota[n].at = "done" => u[n] = rota[n]),
           strategy = "least_recently" /\ EvenSoFar(rota) => EvenSoFar(u),
           NEW f \in Fames, NEW spared, rota' = Swept(u, f, spared)
    PROVE  EvenInv'
<1>0. TurnsTypeOK
  BY DEF EvenInv
<1>1. PICK v : v = rota'
  OBVIOUS
<1>2. \A i \in Numbers : v[i].at = u[i].at /\ (u[i].at # "active" => v[i] = u[i])
  BY <1>0, <1>1, SweptAlike
<1>3. \A n \in Numbers : v[n].at = rota[n].at /\ (rota[n].at = "done" => v[n] = rota[n])
  BY <1>2
<1>4. strategy = "least_recently" /\ EvenSoFar(rota) => EvenSoFar(v)
  BY <1>0, <1>1, SweptEven
<1>. QED  BY <1>1, <1>3, <1>4, EvenWithout

LEMMA ActiveOne ==
    ASSUME TurnsTypeOK, NEW n \in Active
    PROVE  n \in Numbers /\ rota[n].at = "active" /\ rota \in Rotas /\ rota[n] \in Turn /\ fame \in Fames
           /\ n \in ActiveIn(rota)
BY DEF TurnsTypeOK, Rotas, Fames, Active, Made, ActiveIn

LEMMA FrozenEven ==
    ASSUME EvenInv, NEW n \in Active, FreezeTurn(n)
    PROVE  EvenInv'
<1>0. TurnsTypeOK /\ TurnsNext({})
  BY DEF EvenInv, TurnsNext
<1>1. TurnsTypeOK'
  BY <1>0, TurnsTyped
<1>2. n \in Numbers /\ rota[n].at = "active" /\ rota \in Rotas /\ rota[n] \in Turn
  BY <1>0, ActiveOne
<1>3. PICK u : u = rota'
  OBVIOUS
<1>4. /\ u \in Rotas /\ \A i \in Numbers : i # n => u[i] = rota[i]
      /\ u[n].at = "active" /\ u[n].who = rota[n].who /\ u[n].how = rota[n].how
  <2>1. u = [rota EXCEPT ![n].due = 0]
    BY <1>3 DEF FreezeTurn
  <2>2. u \in Rotas
    BY <1>0, <1>2, <2>1, FewerTurns
  <2>3. \A i \in Numbers : i # n => u[i] = rota[i]
    BY <1>2, <2>1 DEF Rotas
  <2>4. u[n].at = rota[n].at /\ u[n].who = rota[n].who /\ u[n].how = rota[n].how
    BY <1>0, <1>2, <2>1, FewerTurnsAre
  <2>. QED  BY <1>2, <2>2, <2>3, <2>4
<1>5. ASSUME EvenSoFar(rota) PROVE EvenSoFar(u)
  <2>1. \A i \in Numbers : rota[i].at = "done" <=> u[i].at = "done"
    BY <1>2, <1>4
  <2>2. \A i \in Numbers : rota[i].at = "done" =>
               u[i].who = rota[i].who /\ u[i].done = rota[i].done /\ u[i].how = rota[i].how
    BY <1>2, <1>4
  <2>3. \A i \in Numbers : u[i].at = "active" /\ u[i].how = "rule" =>
               rota[i].at = "active" /\ rota[i].how = "rule" /\ u[i].who = rota[i].who
    BY <1>2, <1>4
  <2>. QED  BY <1>2, <1>4, <1>5, <2>1, <2>2, <2>3, EvenCarriesOver
<1>6. \A i \in Numbers : u[i].at = rota[i].at /\ (rota[i].at = "done" => u[i] = rota[i])
  BY <1>2, <1>4
<1>7. UNCHANGED <<strategy, audience, fixed, roster, errands>>
  BY DEF FreezeTurn
<1>. QED  BY <1>1, <1>3, <1>5, <1>6, <1>7, EvenWithout

LEMMA TakenEven ==
    ASSUME EvenInv, NEW n \in Active, NEW m \in Crew, TakeTurn(n, m)
    PROVE  EvenInv'
<1>0. TurnsTypeOK /\ TurnsNext({"take"})
  BY DEF EvenInv, TurnsNext
<1>1. TurnsTypeOK'
  BY <1>0, TurnsTyped
<1>2. n \in Numbers /\ rota[n].at = "active" /\ rota \in Rotas /\ rota[n] \in Turn /\ fame \in Fames
  BY <1>0, ActiveOne
<1>3. PICK u : u = [rota EXCEPT ![n].who = m, ![n].how = "hand"]
  OBVIOUS
<1>4. /\ u \in Rotas /\ \A i \in Numbers : i # n => u[i] = rota[i]
      /\ u[n].at = "active" /\ u[n].how = "hand"
  <2>1. u \in Rotas
    BY <1>0, <1>2, <1>3, FewerTurns
  <2>2. \A i \in Numbers : i # n => u[i] = rota[i]
    BY <1>2, <1>3 DEF Rotas
  <2>3. u[n].at = "active" /\ u[n].how = "hand"
    BY <1>2, <1>3 DEF Rotas, Turn
  <2>. QED  BY <2>1, <2>2, <2>3
<1>5. ASSUME EvenSoFar(rota) PROVE EvenSoFar(u)
  <2>1. \A i \in Numbers : rota[i].at = "done" <=> u[i].at = "done"
    BY <1>2, <1>4
  <2>2. \A i \in Numbers : rota[i].at = "done" =>
               u[i].who = rota[i].who /\ u[i].done = rota[i].done /\ u[i].how = rota[i].how
    BY <1>2, <1>4
  <2>3. \A i \in Numbers : u[i].at = "active" /\ u[i].how = "rule" =>
               rota[i].at = "active" /\ rota[i].how = "rule" /\ u[i].who = rota[i].who
    BY <1>2, <1>4
  <2>. QED  BY <1>2, <1>4, <1>5, <2>1, <2>2, <2>3, EvenCarriesOver
<1>6. \A i \in Numbers : u[i].at = rota[i].at /\ (rota[i].at = "done" => u[i] = rota[i])
  BY <1>2, <1>4
<1>7. /\ UNCHANGED <<strategy, audience, fixed, roster, errands>>
      /\ rota' = Swept(u, fame, {n})
  BY <1>3 DEF TakeTurn
<1>. QED  BY <1>1, <1>2, <1>4, <1>5, <1>6, <1>7, EvenSwept

LEMMA AnewEven ==
    ASSUME EvenInv, NEW n \in Active, ReassignTurn(n)
    PROVE  EvenInv'
<1>0. TurnsTypeOK /\ TurnsNext({"edit"})
  BY DEF EvenInv, TurnsNext
<1>1. TurnsTypeOK'
  BY <1>0, TurnsTyped
<1>2. n \in Numbers /\ rota[n].at = "active" /\ rota \in Rotas /\ rota[n] \in Turn /\ fame \in Fames
  BY <1>0, ActiveOne
<1>3. PICK u : u = Reassigned(rota, fame, n)
  OBVIOUS
<1>4. u \in Rotas /\ u[n].at = "active" /\ \A i \in Numbers : i # n => u[i] = rota[i]
  BY <1>0, <1>2, <1>3, ReassignedIs
<1>5. ASSUME strategy = "least_recently", EvenSoFar(rota) PROVE EvenSoFar(u)
  BY <1>0, <1>2, <1>3, <1>5, ReassignedEven
<1>6. \A i \in Numbers : u[i].at = rota[i].at /\ (rota[i].at = "done" => u[i] = rota[i])
  BY <1>2, <1>4
<1>7. /\ UNCHANGED <<strategy, audience, fixed, roster, errands>>
      /\ rota' = Swept(u, fame, {n})
  BY <1>3 DEF ReassignTurn
<1>. QED  BY <1>1, <1>2, <1>4, <1>5, <1>6, <1>7, EvenSwept

LEMMA RenewedOne ==
    ASSUME TurnsTypeOK, RoomLeft, NEW t \in Rotas, NEW f \in Fames, NEW dueAt \in 0..2
    PROVE  /\ Renewed(t, f, dueAt) \in Rotas /\ Renewed(t, f, dueAt)[NextNumber].at = "active"
           /\ \A i \in Numbers : i # NextNumber => Renewed(t, f, dueAt)[i] = t[i]
<1>1. PICK m : m = Chosen(t, f, 0)
  OBVIOUS
<1>2. m \in Crew \cup {NoneOfThem}
  BY <1>1, RulesOfTurns, ChosenIsMember
<1>3. Renewed(t, f, dueAt) = Placed(t, m, "rule", dueAt)
  BY <1>1 DEF Renewed
<1>4. \A d : [at |-> "active", who |-> m, how |-> "rule", due |-> d, done |-> 0].at = "active"
  OBVIOUS
<1>5. "rule" \in {"rule", "hand", "sticky"}
  OBVIOUS
<1>6. /\ Placed(t, m, "rule", dueAt) \in Rotas
      /\ \A i \in Numbers : i # NextNumber => Placed(t, m, "rule", dueAt)[i] = t[i]
      /\ Placed(t, m, "rule", dueAt)[NextNumber]
            = [at |-> "active", who |-> m, how |-> "rule", due |-> dueAt, done |-> 0]
  BY <1>2, <1>5, PlacedIs, Zenon
<1>. QED  BY <1>3, <1>4, <1>6

LEMMA CancelledEven ==
    ASSUME EvenInv, NEW n \in Active, NEW dueAt \in {0, 2}, CancelTurn(n, dueAt)
    PROVE  EvenInv'
<1>0. TurnsTypeOK /\ TurnsNext({"cancel"})
  BY DEF EvenInv, TurnsNext
<1>1. TurnsTypeOK'
  BY <1>0, TurnsTyped
<1>2. /\ n \in Numbers /\ rota[n].at = "active" /\ rota \in Rotas /\ rota[n] \in Turn /\ fame \in Fames
      /\ n \in ActiveIn(rota)
  BY <1>0, ActiveOne
<1>3. RoomLeft /\ dueAt \in 0..2
  BY DEF CancelTurn
<1>4. PICK c : c = [rota EXCEPT ![n].at = "cancelled"]
  OBVIOUS
<1>5. /\ c \in Rotas /\ \A i \in Numbers : i # n => c[i] = rota[i]
      /\ c[n].at = "cancelled"
  <2>1. c \in Rotas
    BY <1>0, <1>2, <1>4, FewerTurns
  <2>2. \A i \in Numbers : i # n => c[i] = rota[i]
    BY <1>2, <1>4 DEF Rotas
  <2>3. c[n].at = "cancelled"
    BY <1>2, <1>4 DEF Rotas, Turn
  <2>. QED  BY <2>1, <2>2, <2>3
<1>6. PICK u : u = Renewed(c, fame, dueAt)
  OBVIOUS
<1>7. u \in Rotas /\ u[NextNumber].at = "active" /\ \A i \in Numbers : i # NextNumber => u[i] = c[i]
  BY <1>0, <1>2, <1>3, <1>5, <1>6, RenewedOne
<1>8. \A i \in Numbers : c[i].at = "unborn" <=> rota[i].at = "unborn"
  BY <1>2, <1>5
<1>9. Stamped(c)
  <2>1. DoneIn(c) = DoneIn(rota) /\ \A i \in DoneIn(c) : c[i] = rota[i]
    BY <1>2, <1>5 DEF DoneIn
  <2>. QED  BY <2>1 DEF EvenInv, Stamped
<1>10. rota[NextNumber].at = "unborn" /\ NextNumber \in Numbers
  BY <1>0, <1>3, NextIsUnborn DEF EvenInv
<1>11. ASSUME strategy = "least_recently", Cardinality(ActiveIn(u)) <= 1 PROVE EvenSoFar(u)
  <2>1. Cardinality(ActiveIn(u)) = Cardinality(ActiveIn(rota))
    <3>1. c[n].at # "active"
      BY <1>5
    <3>. QED  BY <1>0, <1>2, <1>5, <1>7, <1>10, <3>1, ActiveGrow
  <2>2. EvenSoFar(rota)
    BY <1>11, <2>1 DEF EvenInv
  <2>3. EvenSoFar(c)
    <3>1. \A i \in Numbers : rota[i].at = "done" <=> c[i].at = "done"
      BY <1>2, <1>5
    <3>2. \A i \in Numbers : rota[i].at = "done" =>
                 c[i].who = rota[i].who /\ c[i].done = rota[i].done /\ c[i].how = rota[i].how
      BY <1>2, <1>5
    <3>3. \A i \in Numbers : c[i].at = "active" /\ c[i].how = "rule" =>
                 rota[i].at = "active" /\ rota[i].how = "rule" /\ c[i].who = rota[i].who
      BY <1>2, <1>5
    <3>. QED  BY <1>2, <1>5, <2>2, <3>1, <3>2, <3>3, EvenCarriesOver
  <2>4. c[NextNumber].at = "unborn"
    BY <1>8, <1>10
  <2>. QED  BY <1>0, <1>2, <1>3, <1>5, <1>6, <1>11, <2>3, <2>4, RenewedEven
<1>12. /\ UNCHANGED <<strategy, audience, fixed, roster, errands>>
       /\ rota' = Swept(u, fame, {})
  BY <1>4, <1>6 DEF CancelTurn
<1>. QED  BY <1>1, <1>2, <1>3, <1>5, <1>7, <1>8, <1>9, <1>11, <1>12, EvenWith

LEMMA CompletedEven ==
    ASSUME EvenInv, NEW n \in Active, NEW dueAt \in {0, 2}, CompleteTurn(n, dueAt)
    PROVE  EvenInv'
<1>0. TurnsTypeOK /\ TurnsNext({})
  BY DEF EvenInv, TurnsNext
<1>1. TurnsTypeOK'
  BY <1>0, TurnsTyped
<1>2. /\ n \in Numbers /\ rota[n].at = "active" /\ rota \in Rotas /\ rota[n] \in Turn
      /\ n \in ActiveIn(rota)
  BY <1>0, ActiveOne
<1>3. RoomLeft /\ dueAt \in 0..2
  BY DEF CompleteTurn
<1>4. PICK c, f : c = Closed(n) /\ f = fame'
  OBVIOUS
<1>5. /\ c \in Rotas /\ \A i \in Numbers : i # n => c[i] = rota[i]
      /\ c[n].at = "done" /\ c[n].done = Stamp /\ f \in Fames
  <2>1. c \in Rotas /\ c = [rota EXCEPT ![n] = [rota[n] EXCEPT !.at = "done", !.done = Stamp]]
    BY <1>0, <1>4, ClosedIs
  <2>2. \A i \in Numbers : i # n => c[i] = rota[i]
    BY <1>2, <2>1 DEF Rotas
  <2>3. c[n].at = "done" /\ c[n].done = Stamp
    BY <1>2, <2>1 DEF Rotas, Turn
  <2>4. f \in Fames
    BY <1>0, <1>2, <1>4, FameGrows DEF CompleteTurn
  <2>. QED  BY <2>1, <2>2, <2>3, <2>4
<1>6. PICK u : u = Renewed(c, f, dueAt)
  OBVIOUS
<1>7. u \in Rotas /\ u[NextNumber].at = "active" /\ \A i \in Numbers : i # NextNumber => u[i] = c[i]
  BY <1>0, <1>3, <1>5, <1>6, RenewedOne
<1>8. \A i \in Numbers : c[i].at = "unborn" <=> rota[i].at = "unborn"
  BY <1>2, <1>5
<1>9. Stamped(c)
  <2>1. DoneIn(c) = DoneIn(rota) \cup {n} /\ n \notin DoneIn(rota) /\ DoneIn(rota) \in SUBSET Numbers
    BY <1>2, <1>5 DEF DoneIn
  <2>2. Cardinality(DoneIn(c)) = Cardinality(DoneIn(rota)) + 1 /\ Cardinality(DoneIn(rota)) \in Nat
    BY <2>1, NumbersFinite, FS_AddElement
  <2>3. Stamp = 1 + Cardinality(DoneIn(rota))
    <3>1. {x \in Made : rota[x].at = "done"} = DoneIn(rota)
      BY DEF Made, DoneIn
    <3>. QED  BY <3>1 DEF Stamp
  <2>4. \A i \in DoneIn(rota) : rota[i].done \in Nat /\ rota[i].done <= Cardinality(DoneIn(rota))
    <3>1. \A i \in DoneIn(rota) : rota[i].done \in Nat
      BY <1>2, NumbersFinite DEF DoneIn, Rotas, Turn
    <3>. QED  BY <3>1 DEF EvenInv, Stamped
  <2>5. ASSUME NEW i \in DoneIn(c) PROVE c[i].done <= Cardinality(DoneIn(c))
    <3>1. CASE i = n
      BY <1>5, <2>2, <2>3, <3>1
    <3>2. CASE i # n
      <4>1. i \in DoneIn(rota) /\ c[i] = rota[i]
        BY <1>5, <2>1, <3>2
      <4>. QED  BY <2>2, <2>4, <4>1
    <3>. QED  BY <3>1, <3>2
  <2>. QED  BY <2>5 DEF Stamped
<1>10. rota[NextNumber].at = "unborn" /\ NextNumber \in Numbers
  BY <1>0, <1>3, NextIsUnborn DEF EvenInv
<1>11. ASSUME strategy = "least_recently", Cardinality(ActiveIn(u)) <= 1 PROVE EvenSoFar(u)
  <2>1. Cardinality(ActiveIn(u)) = Cardinality(ActiveIn(rota))
    <3>1. c[n].at # "active"
      BY <1>5
    <3>. QED  BY <1>0, <1>2, <1>5, <1>7, <1>10, <3>1, ActiveGrow
  <2>2. EvenSoFar(rota)
    BY <1>11, <2>1 DEF EvenInv
  <2>3. \A i \in Active : i = n
    <3>1. \A i \in ActiveIn(rota) : i = n
      BY <1>0, <1>2, <1>5, <1>7, <1>10, <1>11, <2>1, ActiveGrow
    <3>. QED  BY <3>1 DEF ActiveIn, Active, Made
  <2>4. \A i \in DoneIn(rota) : rota[i].done <= Cardinality(DoneIn(rota))
    BY DEF EvenInv, Stamped
  <2>5. EvenSoFar(c)
    BY <1>0, <1>4, <2>2, <2>3, <2>4, ClosedEven
  <2>6. c[NextNumber].at = "unborn"
    BY <1>8, <1>10
  <2>. QED  BY <1>0, <1>3, <1>5, <1>6, <1>11, <2>5, <2>6, RenewedEven
<1>12. /\ UNCHANGED <<strategy, audience, fixed, roster, errands>>
       /\ rota' = Swept(u, f, {})
  BY <1>4, <1>6 DEF CompleteTurn, Closed, Stamp
<1>. QED  BY <1>1, <1>3, <1>5, <1>7, <1>8, <1>9, <1>11, <1>12, EvenWith

\* A chore made beside those there are.
LEMMA MadeEven ==
    ASSUME EvenInv, TurnsTypeOK', UNCHANGED <<strategy, audience, fixed, roster, errands>>, RoomLeft,
           NEW dueAt \in 0..2, NEW m \in Crew, NEW how \in {"hand", "sticky"}, NEW spared,
           \/ rota' = Swept(Placed(rota, m, how, dueAt), fame, spared)
           \/ rota' = Swept(Renewed(rota, fame, dueAt), fame, spared)
    PROVE  EvenInv'
<1>0. TurnsTypeOK /\ rota \in Rotas /\ fame \in Fames
  BY DEF EvenInv, TurnsTypeOK, Rotas, Fames
<1>1. Stamped(rota)
  BY DEF EvenInv
<1>2. rota[NextNumber].at = "unborn" /\ NextNumber \in Numbers
  BY <1>0, NextIsUnborn DEF EvenInv
<1>3. ASSUME NEW u \in Rotas, \A i \in Numbers : i # NextNumber => u[i] = rota[i], u[NextNumber].at = "active",
             rota' = Swept(u, fame, spared), strategy = "least_recently" /\ EvenSoFar(rota) => EvenSoFar(u)
      PROVE  EvenInv'
  <2>1. ASSUME strategy = "least_recently", Cardinality(ActiveIn(u)) <= 1 PROVE EvenSoFar(u)
    <3>1. Cardinality(ActiveIn(rota)) <= Cardinality(ActiveIn(u))
      BY <1>0, <1>2, <1>3, ActiveGrow
    <3>2. Cardinality(ActiveIn(rota)) \in Nat /\ Cardinality(ActiveIn(u)) \in Nat
      BY NumbersFinite DEF ActiveIn
    <3>3. Cardinality(ActiveIn(rota)) <= 1
      BY <2>1, <3>1, <3>2
    <3>. QED  BY <1>3, <2>1, <3>3 DEF EvenInv
  <2>. QED  BY <1>0, <1>1, <1>3, <2>1, EvenWith
<1>4. CASE rota' = Swept(Placed(rota, m, how, dueAt), fame, spared)
  <2>1. PICK u : u = Placed(rota, m, how, dueAt)
    OBVIOUS
  <2>2. how \in {"rule", "hand", "sticky"} /\ how # "rule" /\ m \in Crew \cup {NoneOfThem}
    OBVIOUS
  <2>3. u \in Rotas /\ u[NextNumber].at = "active" /\ \A i \in Numbers : i # NextNumber => u[i] = rota[i]
    <3>1. [at |-> "active", who |-> m, how |-> how, due |-> dueAt, done |-> 0].at = "active"
      OBVIOUS
    <3>2. /\ u \in Rotas /\ \A i \in Numbers : i # NextNumber => u[i] = rota[i]
          /\ u[NextNumber] = [at |-> "active", who |-> m, how |-> how, due |-> dueAt, done |-> 0]
      BY <1>0, <2>1, <2>2, PlacedIs, Zenon
    <3>. QED  BY <3>1, <3>2
  <2>4. ASSUME strategy = "least_recently", EvenSoFar(rota) PROVE EvenSoFar(u)
    BY <1>0, <1>2, <2>1, <2>2, <2>4, PlacedEven, Zenon
  <2>. QED  BY <1>3, <1>4, <2>1, <2>3, <2>4
<1>5. CASE rota' = Swept(Renewed(rota, fame, dueAt), fame, spared)
  <2>1. PICK u : u = Renewed(rota, fame, dueAt)
    OBVIOUS
  <2>2. u \in Rotas /\ u[NextNumber].at = "active" /\ \A i \in Numbers : i # NextNumber => u[i] = rota[i]
    BY <1>0, <2>1, RenewedOne
  <2>3. ASSUME strategy = "least_recently", EvenSoFar(rota) PROVE EvenSoFar(u)
    BY <1>0, <1>2, <2>1, <2>3, RenewedEven, Zenon
  <2>. QED  BY <1>3, <1>5, <2>1, <2>2, <2>3
<1>. QED  BY <1>4, <1>5

\* A third member is no founder.
LEMMA FoundersStay ==
    ASSUME TurnsTypeOK, Len(roster) >= 2, NEW m \in Crew, JoinCrew(m), roster' \in Seq(Crew), IsInjective(roster')
    PROVE  Founders' = Founders /\ Len(roster') >= 2
<1>1. /\ roster' = Append(roster, m) /\ m \notin ToSet(roster) /\ roster \in Seq(Crew) /\ IsInjective(roster)
      /\ audience' = audience
  BY DEF JoinCrew, TurnsTypeOK
<1>2. /\ Len(roster) \in Nat /\ Len(roster') = Len(roster) + 1
      /\ DOMAIN roster = 1..Len(roster) /\ DOMAIN roster' = 1..(Len(roster) + 1)
      /\ roster'[Len(roster) + 1] = m /\ \A i \in 1..Len(roster) : roster'[i] = roster[i]
  BY <1>1
<1>3. ASSUME NEW s, IsInjective(s), NEW i \in DOMAIN s PROVE Position(s, s[i]) = i
  BY <1>3 DEF Position, IsInjective
<1>4. \A o : Eligible(o)' <=> Eligible(o)
  BY <1>1 DEF Eligible
<1>5. ASSUME NEW o \in ToSet(roster) PROVE o \in ToSet(roster') /\ Position(roster', o) = Position(roster, o)
  <2>1. PICK i \in 1..Len(roster) : roster[i] = o
    BY <1>2 DEF ToSet
  <2>2. i \in DOMAIN roster /\ i \in DOMAIN roster' /\ roster'[i] = o
    BY <1>2, <2>1
  <2>3. Position(roster, o) = i /\ Position(roster', o) = i
    BY <1>1, <1>3, <2>1, <2>2
  <2>4. o \in ToSet(roster')
    BY <2>2 DEF ToSet
  <2>. QED  BY <2>3, <2>4
<1>6. ASSUME NEW o \in ToSet(roster'), o \notin ToSet(roster) PROVE ~(Position(roster', o) <= 2)
  <2>1. PICK i \in DOMAIN roster' : roster'[i] = o
    BY DEF ToSet
  <2>2. i \notin 1..Len(roster)
    BY <1>2, <1>6, <2>1 DEF ToSet
  <2>3. i = Len(roster) + 1
    BY <1>2, <2>2
  <2>4. Position(roster', o) = i
    BY <1>3, <2>1
  <2>. QED  BY <1>2, <2>3, <2>4
<1>7. Founders' = {o \in Able' : Position(roster', o) <= 2}
  BY DEF Founders, Position
<1>8. \A o : (o \in Able' <=> o \in ToSet(roster') /\ Eligible(o)) /\ (o \in Able <=> o \in ToSet(roster) /\ Eligible(o))
  BY <1>4 DEF Able
<1>9. Founders' \subseteq Founders
  BY <1>5, <1>6, <1>7, <1>8 DEF Founders
<1>10. Founders \subseteq Founders'
  <2>1. ASSUME NEW o \in Founders PROVE o \in Founders'
    <3>1. o \in Able /\ Position(roster, o) <= 2
      BY DEF Founders
    <3>2. o \in ToSet(roster) /\ o \in Able'
      BY <1>5, <1>8, <3>1
    <3>3. Position(roster', o) = Position(roster, o)
      BY <1>5, <3>2
    <3>. QED  BY <1>7, <3>1, <3>2, <3>3
  <2>. QED  BY <2>1
<1>11. Founders' = Founders
  BY <1>9, <1>10, Zenon
<1>12. Len(roster') >= 2
  BY <1>2
<1>. QED  BY <1>11, <1>12

LEMMA JoinedEven ==
    ASSUME EvenInv, NEW m \in Crew, JoinCrew(m)
    PROVE  EvenInv'
<1>0. TurnsTypeOK /\ TurnsNext({"join"}) /\ Len(roster) >= 2
  BY DEF EvenInv, TurnsNext
<1>1. TurnsTypeOK'
  BY <1>0, TurnsTyped
<1>2. roster' \in Seq(Crew) /\ IsInjective(roster')
  BY <1>1 DEF TurnsTypeOK
<1>3. Founders' = Founders /\ Len(roster') >= 2
  BY <1>0, <1>2, FoundersStay
<1>4. rota' = rota /\ strategy' = strategy
  BY DEF JoinCrew
<1>5. EvenSoFar(rota)' <=> EvenSoFar(rota)
  BY <1>3, <1>4 DEF EvenSoFar, EvenlyDone, WellGiven, DoneIn, LastOf, DoneBy, LastDone, Others
<1>6. Stamped(rota)' /\ ActiveIn(rota)' = ActiveIn(rota)
  BY <1>4 DEF EvenInv, Stamped, DoneIn, ActiveIn
<1>7. \E k \in 0..MaxTurns : MadeUpTo(k)'
  BY <1>4 DEF EvenInv, MadeUpTo
<1>. QED  BY <1>1, <1>3, <1>4, <1>5, <1>6, <1>7 DEF EvenInv

LEMMA EvenInvHolds ==
    ASSUME EvenInv, NEW some, TurnsNext(some)
    PROVE  EvenInv'
<1>0. TurnsTypeOK
  BY DEF EvenInv
<1>1. TurnsTypeOK'
  BY <1>0, TurnsTyped
<1>2. \A o \in ToSet(roster) : o \in Crew
  BY <1>0 DEF ToSet, TurnsTypeOK
<1>3. ASSUME NEW dueAt \in {0, 1}, CreateTurn(dueAt) PROVE EvenInv'
  <2>1. RoomLeft /\ dueAt \in 0..2 /\ UNCHANGED <<strategy, audience, fixed, roster, errands>>
    BY <1>3 DEF CreateTurn
  <2>2. ASSUME NEW m \in ToSet(roster), rota' = Swept(Placed(rota, m, "hand", dueAt), fame, {NextNumber})
        PROVE  EvenInv'
    <3>1. m \in Crew /\ "hand" \in {"hand", "sticky"}
      BY <1>2
    <3>. QED  BY <1>1, <2>1, <2>2, <3>1, MadeEven, Zenon
  <2>3. ASSUME rota' = Swept(Renewed(rota, fame, dueAt), fame, {NextNumber}) PROVE EvenInv'
    <3>1. PICK m : m \in Crew
      <4>1. Len(roster) >= 2 /\ roster \in Seq(Crew)
        BY <1>0 DEF EvenInv, TurnsTypeOK
      <4>2. roster[1] \in Crew
        BY <4>1
      <4>. QED  BY <4>2
    <3>2. "hand" \in {"hand", "sticky"}
      OBVIOUS
    <3>. QED  BY <1>1, <2>1, <2>3, <3>1, <3>2, MadeEven, Zenon
  <2>. QED  BY <1>3, <2>2, <2>3 DEF CreateTurn
<1>4. ASSUME NEW m \in Crew, NEW dueAt \in {0, 1}, FollowTurn(m, dueAt) PROVE EvenInv'
  <2>1. /\ RoomLeft /\ dueAt \in 0..2 /\ UNCHANGED <<strategy, audience, fixed, roster, errands>>
        /\ "sticky" \in {"hand", "sticky"}
    BY <1>4 DEF FollowTurn
  <2>2. \/ rota' = Swept(Placed(rota, m, "sticky", dueAt), fame, {})
        \/ rota' = Swept(Renewed(rota, fame, dueAt), fame, {})
    BY <1>4 DEF FollowTurn
  <2>. QED  BY <1>1, <2>1, <2>2, MadeEven, Zenon
<1>5. ASSUME NEW n \in Active, FreezeTurn(n) PROVE EvenInv'
  BY <1>5, FrozenEven
<1>6. ASSUME NEW n \in Active, NEW dueAt \in {0, 2}, CompleteTurn(n, dueAt) PROVE EvenInv'
  BY <1>6, CompletedEven
<1>7. ASSUME NEW n \in Active, NEW dueAt \in {0, 2}, CancelTurn(n, dueAt) PROVE EvenInv'
  BY <1>7, CancelledEven
<1>8. ASSUME NEW n \in Active, NEW m \in Crew, TakeTurn(n, m) PROVE EvenInv'
  BY <1>8, TakenEven
<1>9. ASSUME NEW n \in Active, ReassignTurn(n) PROVE EvenInv'
  BY <1>9, AnewEven
<1>10. ASSUME NEW m \in Crew, JoinCrew(m) PROVE EvenInv'
  BY <1>10, JoinedEven
<1>. QED  BY <1>3, <1>4, <1>5, <1>6, <1>7, <1>8, <1>9, <1>10 DEF TurnsNext

LEMMA EvenInvBegins == ServerInit /\ Len(roster) >= 2 => EvenInv
<1>1. SUFFICES ASSUME ServerInit, Len(roster) >= 2 PROVE EvenInv
  OBVIOUS
<1>2. RulesTypeOK /\ TurnsInit
  BY <1>1, RulesBeginWell DEF ServerInit
<1>3. TurnsTypeOK /\ rota \in Rotas /\ fame \in Fames
  BY <1>2, TurnsBegin, RulesOfTurns DEF RulesTypeOK
<1>4. NoTurn.at = "unborn" /\ NoTurns \in Rotas
  BY <1>2, TurnsBegin DEF NoTurn
<1>5. \A n \in Numbers : rota[n].at = IF n = 1 THEN "active" ELSE "unborn"
  <2>1. CASE 1 \in Numbers
    BY <1>2, <1>4, <2>1, TurnsBegin
  <2>2. CASE 1 \notin Numbers
    BY <1>2, <1>4, <2>2, TurnsBegin DEF NoTurns
  <2>. QED  BY <2>1, <2>2
<1>6. \E k \in 0..MaxTurns : MadeUpTo(k)
  <2>1. CASE 1 \in Numbers
    <3>1. 1 \in 0..MaxTurns /\ \A n \in Numbers : n <= 1 <=> n = 1
      BY <2>1, NumbersFinite DEF Numbers
    <3>2. MadeUpTo(1)
      BY <1>5, <3>1 DEF MadeUpTo
    <3>. QED  BY <3>1, <3>2
  <2>2. CASE 1 \notin Numbers
    <3>1. 0 \in 0..MaxTurns /\ \A n \in Numbers : ~(n <= 0) /\ n # 1
      BY <2>2, NumbersFinite DEF Numbers
    <3>2. MadeUpTo(0)
      BY <1>5, <3>1 DEF MadeUpTo
    <3>. QED  BY <3>1, <3>2
  <2>. QED  BY <2>1, <2>2
<1>7. DoneIn(rota) = {}
  BY <1>5 DEF DoneIn
<1>8. ASSUME NEW m PROVE LastOf(rota, m) = 0 /\ DoneBy(rota, m) = 0
  <2>1. {n \in Numbers : rota[n].at = "done" /\ rota[n].who = m} = {}
    BY <1>5
  <2>2. DoneBy(rota, m) = 0
    BY <2>1, FS_EmptySet DEF DoneBy
  <2>3. \A i \in Others(rota, 0) : rota[i].at # "done"
    BY <1>5 DEF Others
  <2>4. LastOf(rota, m) = 0
    BY <1>3, <2>3, LastDoneIsLatest DEF LastOf
  <2>. QED  BY <2>2, <2>4
<1>9. EvenSoFar(rota)
  <2>1. EvenlyDone(rota)
    BY <1>8 DEF EvenlyDone
  <2>2. WellGiven(rota)
    BY <1>8 DEF WellGiven
  <2>. QED  BY <2>1, <2>2 DEF EvenSoFar
<1>10. Stamped(rota)
  BY <1>7 DEF Stamped
<1>. QED  BY <1>1, <1>3, <1>6, <1>9, <1>10 DEF EvenInv

LEMMA EvenInvIsEnough == EvenInv => EvenShares
<1>1. SUFFICES ASSUME EvenInv, strategy = "least_recently", Single, \A n \in Made : rota[n].how = "rule",
                      NEW m \in Founders, NEW o \in Founders
               PROVE  Share(m) <= Share(o) + 1
  BY DEF EvenShares
<1>2. Active = ActiveIn(rota)
  BY DEF Active, Made, ActiveIn
<1>3. EvenSoFar(rota)
  BY <1>1, <1>2 DEF EvenInv, Single
<1>4. \A n \in DoneIn(rota) : rota[n].how = "rule"
  BY <1>1 DEF DoneIn, Made
<1>5. EvenlyDone(rota)
  BY <1>3, <1>4 DEF EvenSoFar
<1>6. ASSUME NEW a PROVE Share(a) = DoneBy(rota, a)
  <2>1. {n \in Made : rota[n].at = "done" /\ rota[n].who = a} = {n \in Numbers : rota[n].at = "done" /\ rota[n].who = a}
    BY DEF Made
  <2>. QED  BY <2>1 DEF Share, DoneBy
<1>7. rota \in Rotas
  BY <1>1 DEF EvenInv, TurnsTypeOK, Rotas
<1>8. /\ DoneBy(rota, m) \in Nat /\ DoneBy(rota, o) \in Nat
      /\ LastOf(rota, m) \in Nat /\ LastOf(rota, o) \in Nat
  BY <1>7, DoneNumbers
<1>9. LastOf(rota, m) <= LastOf(rota, o) \/ LastOf(rota, o) <= LastOf(rota, m)
  BY <1>8
<1>10. DoneBy(rota, m) <= DoneBy(rota, o) + 1
  BY <1>5, <1>8, <1>9 DEF EvenlyDone
<1>. QED  BY <1>6, <1>10

\* Of two who were there from the start, none completes two chores more than the other,
\* as long as there is one chore at a time and the strategy "least_recently" gave them
\* all, whoever else joins and whatever is cancelled: who did one longer ago has done
\* as many or one fewer, and the next one is theirs.
THEOREM SharesAreEven == ServerSpec /\ Len(roster) >= 2 => []EvenShares
<1>1. EvenInv /\ [ServerNext]_<<vars, parts>> => EvenInv'
  <2>1. SUFFICES ASSUME EvenInv, [ServerNext]_<<vars, parts>> PROVE EvenInv'
    OBVIOUS
  <2>2. CASE \E some : TurnsNext(some)
    BY <2>1, <2>2, EvenInvHolds
  <2>3. CASE UNCHANGED turns
    <3>1. UNCHANGED <<strategy, audience, fixed, roster, errands, fame, rota>>
      BY <2>3 DEF turns
    <3>2. TurnsTypeOK'
      BY <2>1, <3>1 DEF EvenInv, TurnsTypeOK
    <3>3. EvenSoFar(rota) => EvenSoFar(rota')
      BY <3>1
    <3>. QED  BY <2>1, <3>1, <3>2, <3>3, EvenWithout
  <2>. QED  BY <2>1, <2>2, <2>3, TurnsMove
<1>. QED  BY <1>1, EvenInvBegins, EvenInvIsEnough, PTL DEF ServerSpec
=============================================================================
