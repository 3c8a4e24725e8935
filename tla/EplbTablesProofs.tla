-------------------------- MODULE EplbTablesProofs --------------------------
(* What process_final_placement makes of lists in which no device has an
   expert twice, for any number of devices and experts; and, for the modules
   that add up traffic, induction in the form of sets and what it says of the
   sums of a function over finite sets. *)
EXTENDS EplbTables, Functions, SequenceTheorems, FiniteSetTheorems, WellFoundedInduction, TLAPS

(* The position of an expert is found, and is the right one. *)
LEMMA IndexFound ==
  ASSUME NEW l \in [Devices -> Seq(Experts)], NoCopyTwice(l),
         NEW d \in Devices, NEW e \in On(l, d)
  PROVE  /\ LocalIndex(l, d, e) \in 0 .. Len(l[d]) - 1
         /\ l[d][LocalIndex(l, d, e) + 1] = e
  <1>. DEFINE Right(i) == l[d][i + 1] = e /\ \A k \in i + 2 .. Len(l[d]) : l[d][k] # e
  <1>1. DOMAIN l[d] = 1 .. Len(l[d]) /\ Len(l[d]) \in Nat
    BY LenProperties
  <1>2. PICK p \in 1 .. Len(l[d]) : l[d][p] = e
    BY <1>1 DEF On
  <1>3. p - 1 \in 0 .. Len(l[d]) - 1 /\ (p - 1) + 1 = p
    BY <1>1
  <1>4. \A k \in (p - 1) + 2 .. Len(l[d]) : k \in 1 .. Len(l[d]) /\ k # p
    BY <1>1
  <1>5. \A k \in 1 .. Len(l[d]) : k # p => l[d][k] # e
    BY <1>1, <1>2 DEF NoCopyTwice
  <1>6. Right(p - 1)
    BY <1>2, <1>3, <1>4, <1>5
  <1>7. LocalIndex(l, d, e) = CHOOSE i \in 0 .. Len(l[d]) - 1 : Right(i)
    BY DEF LocalIndex
  <1>. HIDE DEF Right
  <1>8. LocalIndex(l, d, e) \in 0 .. Len(l[d]) - 1 /\ Right(LocalIndex(l, d, e))
    BY <1>3, <1>6, <1>7, Zenon
  <1>. QED  BY <1>8 DEF Right

(* Lists that give every expert a holder, and no device an expert twice, make
   tables by which every token arrives at its expert. *)
THEOREM TablesArrive ==
  ASSUME NEW l \in [Devices -> Seq(Experts)], NoCopyTwice(l), Routable(l)
  PROVE  ArrivesAtExpert(l)
  <1>. SUFFICES ASSUME NEW d \in Devices, NEW e \in Experts
                PROVE  /\ Targets(l, d, e) # {}
                       /\ \A h \in Targets(l, d, e) :
                            /\ LocalIndex(l, h, e) \in 0 .. Len(l[h]) - 1
                            /\ l[h][LocalIndex(l, h, e) + 1] = e
    BY DEF ArrivesAtExpert
  <1>1. Targets(l, d, e) # {}
    BY DEF Targets, Routable
  <1>2. \A h \in Targets(l, d, e) : h \in Devices /\ e \in On(l, h)
    BY DEF Targets, Holders
  <1>. QED  BY <1>1, <1>2, IndexFound

-----------------------------------------------------------------------------
(* Quotient and remainder of a number in row d. *)
LEMMA Row ==
  ASSUME NEW n \in Nat, NEW d \in Nat, NEW j \in 0 .. n - 1
  PROVE  (d * n + j) \div n = d /\ (d * n + j) % n = j
  <1>. DEFINE q == (d * n + j) \div n
              r == (d * n + j) % n
  <1>1. n > 0 /\ d * n \in Nat
    OBVIOUS
  <1>2. q \in Int /\ r \in 0 .. n - 1 /\ d * n + j = n * q + r
    BY <1>1
  <1>. HIDE DEF q, r
  <1>3. n * (d - q) = r - j
    BY <1>2
  <1>4. r - j < n /\ r - j > 0 - n
    BY <1>2
  <1>5. ~(d - q >= 1)
    <2>1. d - q >= 1 => n * (d - q) >= n
      BY <1>1, <1>2
    <2>. QED  BY <1>3, <1>4, <2>1, <1>2
  <1>6. ~(d - q <= -1)
    <2>1. d - q <= -1 => n * (d - q) <= 0 - n
      BY <1>1, <1>2
    <2>. QED  BY <1>3, <1>4, <2>1, <1>2
  <1>7. d = q
    BY <1>2, <1>5, <1>6
  <1>8. r = j
    BY <1>2, <1>3, <1>7
  <1>. QED  BY <1>7, <1>8 DEF q, r

-----------------------------------------------------------------------------
(* Induction. *)
Below == {p \in Nat \X Nat : p[1] < p[2]}

LEMMA LeastOf ==
  ASSUME NEW T \in SUBSET Nat, T # {}
  PROVE  \E x \in T : \A y \in T : x <= y
  <1>1. IsWellFoundedOn(Below, Nat)
    BY NatLessThanWellFounded DEF OpToRel, Below
  <1>2. PICK x \in T : \A y \in T : ~ (<<y, x>> \in Below)
    BY <1>1, WFMin
  <1>3. \A y \in T : ~ (y < x)
    BY <1>2 DEF Below
  <1>. QED  BY <1>3

LEMMA Induction ==
  ASSUME NEW T, 0 \in T, \A n \in Nat : n \in T => n + 1 \in T
  PROVE  Nat \subseteq T
  <1>. SUFFICES ASSUME ~ (Nat \subseteq T) PROVE FALSE
    OBVIOUS
  <1>1. Nat \ T \in SUBSET Nat /\ Nat \ T # {}
    OBVIOUS
  <1>2. PICK x \in Nat \ T : \A y \in Nat \ T : x <= y
    BY <1>1, LeastOf
  <1>3. x - 1 \in Nat /\ ~ x <= x - 1 /\ (x - 1) + 1 = x
    BY <1>2
  <1>4. x - 1 \in T
    BY <1>2, <1>3
  <1>. QED  BY <1>2, <1>3, <1>4

(* A set of finite sets that has {} and with every other set S of finite sets one without
   an element of it. *)
LEMMA SetInduction ==
  ASSUME NEW U, IsFiniteSet(U), NEW T, {} \in T,
         \A S \in SUBSET U : S # {} /\ (\A x \in S : S \ {x} \in T) => S \in T
  PROVE  U \in T
  <1>. DEFINE N == {n \in Nat : \A S \in SUBSET U : Cardinality(S) = n => S \in T}
  <1>1. \A S \in SUBSET U : IsFiniteSet(S) /\ Cardinality(S) \in Nat
    BY FS_Subset, FS_CardinalityType
  <1>2. 0 \in N
    <2>1. \A S \in SUBSET U : Cardinality(S) = 0 => S = {}
      BY <1>1, FS_EmptySet
    <2>. QED  BY <2>1
  <1>3. ASSUME NEW n \in Nat, n \in N
        PROVE  n + 1 \in N
    <2>1. ASSUME NEW S \in SUBSET U, Cardinality(S) = n + 1
          PROVE  S \in T
      <3>1. S # {}
        BY <2>1, FS_EmptySet
      <3>2. ASSUME NEW x \in S
            PROVE  S \ {x} \in T
        <4>1. S \ {x} \in SUBSET U /\ Cardinality(S \ {x}) = (n + 1) - 1
          BY <1>1, <2>1, FS_RemoveElement
        <4>. QED  BY <4>1, <1>3
      <3>. QED  BY <3>1, <3>2
    <2>. QED  BY <2>1
  <1>. HIDE DEF N
  <1>4. Nat \subseteq N
    BY <1>2, <1>3, Induction
  <1>. QED  BY <1>1, <1>4 DEF N

-----------------------------------------------------------------------------
(* Sums. *)
Chosen(S) == CHOOSE x \in S : TRUE

Sums(f, S, g) ==
  g = [T \in SUBSET S |-> IF T = {} THEN 0 ELSE f[Chosen(T)] + g[T \ {Chosen(T)}]]

LEMMA SumDefined ==
  ASSUME NEW f, NEW S
  PROVE  SumFunctionOnSet(f, S) = (CHOOSE g : Sums(f, S, g))[S]
  BY DEF SumFunctionOnSet, FoldFunctionOnSet, MapThenFoldSet, Sums, Chosen

LEMMA ChosenFrom ==
  ASSUME NEW S, S # {}
  PROVE  Chosen(S) \in S
  BY DEF Chosen

LEMMA SumsExist ==
  ASSUME NEW f, NEW S, IsFiniteSet(S)
  PROVE  \E g : Sums(f, S, g)
  <1>. DEFINE Small(n) == {T \in SUBSET S : Cardinality(T) <= n}
              Value(g, T) == IF T = {} THEN 0 ELSE f[Chosen(T)] + g[T \ {Chosen(T)}]
              N == {n \in Nat : \E g : g = [T \in Small(n) |-> Value(g, T)]}
  <1>1. \A T \in SUBSET S : IsFiniteSet(T) /\ Cardinality(T) \in Nat
    BY FS_Subset, FS_CardinalityType
  <1>2. 0 \in N
    <2>1. \A T \in Small(0) : T = {}
      BY <1>1, FS_EmptySet
    <2>. DEFINE g == [T \in Small(0) |-> 0]
    <2>2. g = [T \in Small(0) |-> Value(g, T)]
      BY <2>1
    <2>. QED  BY <2>2
  <1>3. ASSUME NEW n \in Nat, n \in N
        PROVE  n + 1 \in N
    <2>1. PICK g : g = [T \in Small(n) |-> Value(g, T)]
      BY <1>3
    <2>. DEFINE h == [T \in Small(n + 1) |-> Value(g, T)]
    <2>2. ASSUME NEW T \in Small(n + 1), T # {}
          PROVE  h[T \ {Chosen(T)}] = g[T \ {Chosen(T)}]
      <3>. DEFINE R == T \ {Chosen(T)}
      <3>1. R \in SUBSET S /\ Cardinality(R) = Cardinality(T) - 1
        BY <2>2, <1>1, ChosenFrom, FS_RemoveElement
      <3>2. R \in Small(n) /\ R \in Small(n + 1)
        BY <3>1, <1>1
      <3>. HIDE DEF R
      <3>3. g[R] = Value(g, R) /\ h[R] = Value(g, R)
        <4>. HIDE DEF Small, Value
        <4>. QED  BY <2>1, <3>2
      <3>. QED  BY <3>3 DEF R
    <2>3. \A T \in Small(n + 1) : Value(h, T) = Value(g, T)
      <3>. SUFFICES ASSUME NEW T \in Small(n + 1)
                    PROVE  Value(h, T) = Value(g, T)
        OBVIOUS
      <3>. HIDE DEF h, Small
      <3>1. CASE T = {}
        BY <3>1
      <3>2. CASE T # {}
        BY <3>2, <2>2
      <3>. QED  BY <3>1, <3>2
    <2>4. h = [T \in Small(n + 1) |-> Value(h, T)]
      <3>1. h = [T \in Small(n + 1) |-> Value(g, T)]
        OBVIOUS
      <3>. HIDE DEF Small, Value, h
      <3>. QED  BY <2>3, <3>1, Zenon
    <2>. HIDE DEF Small, Value, h
    <2>5. \E k : k = [T \in Small(n + 1) |-> Value(k, T)]
      BY <2>4
    <2>. QED  BY <2>5
  <1>. HIDE DEF N
  <1>4. Cardinality(S) \in N
    BY <1>1, <1>2, <1>3, Induction
  <1>5. PICK g : g = [T \in Small(Cardinality(S)) |-> Value(g, T)]
    BY <1>4 DEF N
  <1>6. Small(Cardinality(S)) = SUBSET S
    BY FS_Subset
  <1>7. g = [T \in SUBSET S |-> Value(g, T)]
    <2>. HIDE DEF Small, Value
    <2>. QED  BY <1>5, <1>6
  <1>. QED  BY <1>7 DEF Sums

LEMMA SumsAgree ==
  ASSUME NEW f, NEW S, IsFiniteSet(S), NEW g, Sums(f, S, g),
         NEW T \in SUBSET S, NEW h, Sums(f, T, h)
  PROVE  h[T] = g[T]
  <1>. DEFINE A == {R \in SUBSET T : \A k : Sums(f, R, k) => k[R] = g[R]}
  <1>1. \A R \in SUBSET S : g[R] = IF R = {} THEN 0 ELSE f[Chosen(R)] + g[R \ {Chosen(R)}]
    BY DEF Sums
  <1>2. {} \in A
    <2>1. \A k : Sums(f, {}, k) => k[{}] = 0
      BY DEF Sums
    <2>. QED  BY <2>1, <1>1
  <1>3. ASSUME NEW R \in SUBSET T, R # {}, \A x \in R : R \ {x} \in A
        PROVE  R \in A
    <2>1. ASSUME NEW k, Sums(f, R, k)
          PROVE  k[R] = g[R]
      <3>. DEFINE Q == R \ {Chosen(R)}
                  j == [P \in SUBSET Q |-> k[P]]
      <3>1. Q \in A /\ Q \in SUBSET R
        BY <1>3, ChosenFrom
      <3>2. \A P \in SUBSET R : k[P] = IF P = {} THEN 0 ELSE f[Chosen(P)] + k[P \ {Chosen(P)}]
        BY <2>1 DEF Sums
      <3>3. Sums(f, Q, j)
        <4>1. ASSUME NEW P \in SUBSET Q
              PROVE  j[P] = IF P = {} THEN 0 ELSE f[Chosen(P)] + j[P \ {Chosen(P)}]
          BY <3>2
        <4>. HIDE DEF Q
        <4>2. j = [P \in SUBSET Q |-> IF P = {} THEN 0 ELSE f[Chosen(P)] + j[P \ {Chosen(P)}]]
          <5>1. j = [P \in SUBSET Q |-> j[P]]
            OBVIOUS
          <5>. HIDE DEF j
          <5>. QED  BY <4>1, <5>1, Zenon
        <4>. QED  BY <4>2 DEF Sums
      <3>4. j[Q] = g[Q] /\ j[Q] = k[Q]
        <4>1. j[Q] = k[Q]
          OBVIOUS
        <4>2. j[Q] = g[Q]
          <5>. HIDE DEF j, Q
          <5>. QED  BY <3>1, <3>3
        <4>. QED  BY <4>1, <4>2
      <3>5. k[R] = f[Chosen(R)] + k[Q] /\ g[R] = f[Chosen(R)] + g[Q]
        BY <3>2, <1>1, <1>3
      <3>. QED  BY <3>4, <3>5
    <2>. QED  BY <2>1
  <1>. HIDE DEF A
  <1>4. T \in A
    BY <1>2, <1>3, SetInduction, FS_Subset
  <1>. QED  BY <1>4 DEF A

LEMMA SumOfChosen ==
  ASSUME NEW f, NEW S, IsFiniteSet(S)
  PROVE  /\ SumFunctionOnSet(f, {}) = 0
         /\ S # {} => SumFunctionOnSet(f, S)
                        = f[Chosen(S)] + SumFunctionOnSet(f, S \ {Chosen(S)})
  <1>. DEFINE g(T) == CHOOSE k : Sums(f, T, k)
  <1>1. ASSUME NEW T \in SUBSET S
        PROVE  Sums(f, T, g(T)) /\ SumFunctionOnSet(f, T) = g(T)[T]
    <2>1. IsFiniteSet(T)
      BY FS_Subset
    <2>. QED  BY <2>1, SumsExist, SumDefined
  <1>. HIDE DEF g
  <1>2. \A T \in SUBSET S : g(S)[T] = IF T = {} THEN 0 ELSE f[Chosen(T)] + g(S)[T \ {Chosen(T)}]
    BY <1>1 DEF Sums
  <1>3. \A T \in SUBSET S : SumFunctionOnSet(f, T) = g(S)[T]
    BY <1>1, SumsAgree
  <1>4. S # {} => Chosen(S) \in S
    BY ChosenFrom
  <1>. QED  BY <1>2, <1>3, <1>4


LEMMA SumEmpty ==
  ASSUME NEW f
  PROVE  SumFunctionOnSet(f, {}) = 0
  <1>1. IsFiniteSet({})
    BY FS_EmptySet
  <1>. QED  BY <1>1, SumOfChosen

(* The sum of integers is an integer, and that of natural numbers a natural number. *)
LEMMA SumType ==
  ASSUME NEW f, NEW S, IsFiniteSet(S), \A x \in S : f[x] \in Int
  PROVE  /\ SumFunctionOnSet(f, S) \in Int
         /\ (\A x \in S : f[x] \in Nat) => SumFunctionOnSet(f, S) \in Nat
  <1>. DEFINE A == {R \in SUBSET S :
                      /\ SumFunctionOnSet(f, R) \in Int
                      /\ (\A x \in R : f[x] \in Nat) => SumFunctionOnSet(f, R) \in Nat}
  <1>1. {} \in A
    BY SumEmpty
  <1>2. ASSUME NEW R \in SUBSET S, R # {}, \A x \in R : R \ {x} \in A
        PROVE  R \in A
    <2>1. Chosen(R) \in R /\ R \ {Chosen(R)} \in A
      BY <1>2, ChosenFrom
    <2>2. SumFunctionOnSet(f, R) = f[Chosen(R)] + SumFunctionOnSet(f, R \ {Chosen(R)})
      BY <1>2, SumOfChosen, FS_Subset
    <2>. QED  BY <2>1, <2>2
  <1>. HIDE DEF A
  <1>3. S \in A
    BY <1>1, <1>2, SetInduction
  <1>. QED  BY <1>3 DEF A

(* The order of the summands does not matter: any of them can be taken out. *)
LEMMA SumRemove ==
  ASSUME NEW f, NEW S, IsFiniteSet(S), \A x \in S : f[x] \in Int, NEW y \in S
  PROVE  SumFunctionOnSet(f, S) = f[y] + SumFunctionOnSet(f, S \ {y})
  <1>. DEFINE sum(R) == SumFunctionOnSet(f, R)
              A == {R \in SUBSET S : \A z \in R : sum(R) = f[z] + sum(R \ {z})}
  <1>1. {} \in A
    OBVIOUS
  <1>2. ASSUME NEW R \in SUBSET S, R # {}, \A x \in R : R \ {x} \in A
        PROVE  R \in A
    <2>. SUFFICES ASSUME NEW z \in R
                  PROVE  sum(R) = f[z] + sum(R \ {z})
      OBVIOUS
    <2>. DEFINE c == Chosen(R)
                rest == (R \ {z}) \ {c}
    <2>1. c \in R /\ sum(R) = f[c] + sum(R \ {c})
      BY <1>2, SumOfChosen, ChosenFrom, FS_Subset
    <2>2. CASE z = c
      BY <2>1, <2>2
    <2>3. CASE z # c
      <3>1. rest = (R \ {c}) \ {z}
        OBVIOUS
      <3>2. sum(R \ {c}) = f[z] + sum(rest)
        BY <1>2, <2>1, <2>3, <3>1
      <3>3. sum(R \ {z}) = f[c] + sum(rest)
        BY <1>2, <2>1, <2>3
      <3>4. sum(rest) \in Int
        BY SumType, FS_Subset, rest \in SUBSET S
      <3>5. f[c] \in Int /\ f[z] \in Int
        BY <2>1
      <3>. HIDE DEF sum, c, rest
      <3>. QED  BY <2>1, <3>2, <3>3, <3>4, <3>5
    <2>. QED  BY <2>2, <2>3
  <1>. HIDE DEF A
  <1>3. S \in A
    BY <1>1, <1>2, SetInduction
  <1>. QED  BY <1>3 DEF A

(* Functions that agree on a set have the same sum over it. *)
LEMMA SumSame ==
  ASSUME NEW f, NEW g, NEW S, IsFiniteSet(S), \A x \in S : f[x] = g[x]
  PROVE  SumFunctionOnSet(f, S) = SumFunctionOnSet(g, S)
  <1>. DEFINE A == {R \in SUBSET S : SumFunctionOnSet(f, R) = SumFunctionOnSet(g, R)}
  <1>1. {} \in A
    BY SumEmpty
  <1>2. ASSUME NEW R \in SUBSET S, R # {}, \A x \in R : R \ {x} \in A
        PROVE  R \in A
    <2>1. Chosen(R) \in R /\ R \ {Chosen(R)} \in A
      BY <1>2, ChosenFrom
    <2>2. /\ SumFunctionOnSet(f, R) = f[Chosen(R)] + SumFunctionOnSet(f, R \ {Chosen(R)})
          /\ SumFunctionOnSet(g, R) = g[Chosen(R)] + SumFunctionOnSet(g, R \ {Chosen(R)})
      BY <1>2, SumOfChosen, FS_Subset
    <2>. QED  BY <2>1, <2>2
  <1>. HIDE DEF A
  <1>3. S \in A
    BY <1>1, <1>2, SetInduction
  <1>. QED  BY <1>3 DEF A

(* Of two functions that differ at one point of a set, the sums differ by what the
   functions differ by there. *)
LEMMA SumOneChange ==
  ASSUME NEW f, NEW g, NEW S, IsFiniteSet(S), NEW y \in S,
         \A x \in S : f[x] \in Int /\ g[x] \in Int,
         \A x \in S \ {y} : f[x] = g[x]
  PROVE  SumFunctionOnSet(g, S) = SumFunctionOnSet(f, S) - f[y] + g[y]
  <1>1. IsFiniteSet(S \ {y})
    BY FS_Subset
  <1>2. SumFunctionOnSet(f, S \ {y}) = SumFunctionOnSet(g, S \ {y})
    BY <1>1, SumSame
  <1>3. /\ SumFunctionOnSet(f, S) = f[y] + SumFunctionOnSet(f, S \ {y})
        /\ SumFunctionOnSet(g, S) = g[y] + SumFunctionOnSet(g, S \ {y})
    BY SumRemove
  <1>4. SumFunctionOnSet(f, S \ {y}) \in Int
    BY <1>1, SumType
  <1>. QED  BY <1>2, <1>3, <1>4

(* A set of at least as many elements, none of them with a value below one outside
   of it, has no smaller sum. *)
LEMMA SumOfLargest ==
  ASSUME NEW f, NEW U, IsFiniteSet(U), \A x \in U : f[x] \in Nat,
         NEW S \in SUBSET U, NEW C \in SUBSET U,
         Cardinality(S) <= Cardinality(C),
         \A x \in C, y \in S \ C : f[y] <= f[x]
  PROVE  SumFunctionOnSet(f, S) <= SumFunctionOnSet(f, C)
  <1>. DEFINE sum(R) == SumFunctionOnSet(f, R)
              Ahead(R, D) == /\ Cardinality(R) <= Cardinality(D)
                             /\ \A x \in D, y \in R \ D : f[y] <= f[x]
              A == {R \in SUBSET S :
                      \A D \in SUBSET C : Ahead(R, D) => sum(R) <= sum(D)}
  <1>1. \A R \in SUBSET U : IsFiniteSet(R) /\ Cardinality(R) \in Nat /\ sum(R) \in Nat
    BY FS_Subset, FS_CardinalityType, SumType
  <1>2. \A R \in SUBSET U : \A x \in R :
          /\ sum(R) = f[x] + sum(R \ {x})
          /\ Cardinality(R \ {x}) = Cardinality(R) - 1
    <2>1. \A x \in U : f[x] \in Int
      OBVIOUS
    <2>2. \A R \in SUBSET U : \A x \in R : sum(R) = f[x] + sum(R \ {x})
      BY <1>1, <2>1, SumRemove
    <2>3. \A R \in SUBSET U : \A x \in R : Cardinality(R \ {x}) = Cardinality(R) - 1
      BY <1>1, FS_RemoveElement
    <2>. QED  BY <2>2, <2>3
  <1>3. {} \in A
    <2>1. sum({}) = 0
      BY SumEmpty
    <2>. QED  BY <1>1, <2>1
  <1>4. ASSUME NEW R \in SUBSET S, R # {}, \A x \in R : R \ {x} \in A
        PROVE  R \in A
    <2>. SUFFICES ASSUME NEW D \in SUBSET C, Ahead(R, D)
                  PROVE  sum(R) <= sum(D)
      OBVIOUS
    <2>0. R \in SUBSET U /\ D \in SUBSET U
      OBVIOUS
    <2>1. CASE R \subseteq D
      <3>1. PICK y \in R : TRUE
        BY <1>4
      <3>2. Ahead(R \ {y}, D \ {y})
        <4>1. Cardinality(R \ {y}) = Cardinality(R) - 1 /\ Cardinality(D \ {y}) = Cardinality(D) - 1
          BY <1>2, <2>0, <2>1
        <4>2. Cardinality(R) \in Nat /\ Cardinality(D) \in Nat
          BY <1>1, <2>0
        <4>. QED  BY <4>1, <4>2, <2>1
      <3>3. sum(R \ {y}) <= sum(D \ {y})
        BY <1>4, <3>2, D \ {y} \in SUBSET C
      <3>4. sum(R) = f[y] + sum(R \ {y}) /\ sum(D) = f[y] + sum(D \ {y})
        BY <1>2, <2>0, <2>1
      <3>5. f[y] \in Nat /\ sum(R \ {y}) \in Nat /\ sum(D \ {y}) \in Nat
        BY <1>1, <2>0
      <3>. HIDE DEF sum
      <3>. QED  BY <3>3, <3>4, <3>5
    <2>2. CASE ~ (R \subseteq D)
      <3>1. PICK y \in R : y \notin D
        BY <2>2
      <3>2. PICK x \in D : x \notin R
        <4>1. ASSUME D \subseteq R
              PROVE  FALSE
          <5>1. D \subseteq R \ {y}
            BY <3>1, <4>1
          <5>2. Cardinality(D) <= Cardinality(R \ {y})
            BY <1>1, <2>0, <5>1, FS_Subset, R \ {y} \in SUBSET U
          <5>. QED  BY <1>1, <1>2, <2>0, <5>2
        <4>. QED  BY <4>1
      <3>3. Ahead(R \ {y}, D \ {x})
        <4>1. Cardinality(R \ {y}) = Cardinality(R) - 1 /\ Cardinality(D \ {x}) = Cardinality(D) - 1
          BY <1>2, <2>0
        <4>2. Cardinality(R) \in Nat /\ Cardinality(D) \in Nat
          BY <1>1, <2>0
        <4>. QED  BY <4>1, <4>2, <3>2
      <3>4. sum(R \ {y}) <= sum(D \ {x})
        BY <1>4, <3>3, D \ {x} \in SUBSET C
      <3>5. sum(R) = f[y] + sum(R \ {y}) /\ sum(D) = f[x] + sum(D \ {x}) /\ f[y] <= f[x]
        BY <1>2, <2>0, <3>1
      <3>6. f[y] \in Nat /\ f[x] \in Nat /\ sum(R \ {y}) \in Nat /\ sum(D \ {x}) \in Nat
        BY <1>1, <2>0
      <3>. HIDE DEF sum
      <3>. QED  BY <3>4, <3>5, <3>6
    <2>. QED  BY <2>1, <2>2
  <1>. HIDE DEF A
  <1>5. S \in A
    BY <1>1, <1>3, <1>4, SetInduction
  <1>. QED  BY <1>5 DEF A

(* So has a set with everything that is not 0. *)
LEMMA SumOfPositive ==
  ASSUME NEW f, NEW U, IsFiniteSet(U), \A x \in U : f[x] \in Nat,
         NEW S \in SUBSET U, NEW C \in SUBSET U, \A y \in S \ C : f[y] = 0
  PROVE  SumFunctionOnSet(f, S) <= SumFunctionOnSet(f, C)
  <1>. DEFINE sum(R) == SumFunctionOnSet(f, R)
              A == {R \in SUBSET S :
                      \A D \in SUBSET C : (\A y \in R \ D : f[y] = 0) => sum(R) <= sum(D)}
  <1>1. \A R \in SUBSET U : IsFiniteSet(R) /\ sum(R) \in Nat
    BY FS_Subset, SumType
  <1>2. \A R \in SUBSET U : \A x \in R : sum(R) = f[x] + sum(R \ {x})
    <2>1. \A x \in U : f[x] \in Int
      OBVIOUS
    <2>. QED  BY <1>1, <2>1, SumRemove
  <1>3. {} \in A
    <2>1. sum({}) = 0
      BY SumEmpty
    <2>. QED  BY <1>1, <2>1
  <1>4. ASSUME NEW R \in SUBSET S, R # {}, \A x \in R : R \ {x} \in A
        PROVE  R \in A
    <2>. SUFFICES ASSUME NEW D \in SUBSET C, \A y \in R \ D : f[y] = 0
                  PROVE  sum(R) <= sum(D)
      OBVIOUS
    <2>0. R \in SUBSET U /\ D \in SUBSET U
      OBVIOUS
    <2>1. PICK y \in R : TRUE
      BY <1>4
    <2>2. sum(R) = f[y] + sum(R \ {y})
      BY <1>2, <2>0
    <2>3. f[y] \in Nat /\ sum(R \ {y}) \in Nat /\ sum(D \ {y}) \in Nat /\ sum(D) \in Nat
      BY <1>1, <2>0
    <2>4. CASE y \in D
      <3>1. sum(R \ {y}) <= sum(D \ {y})
        BY <1>4, D \ {y} \in SUBSET C
      <3>2. sum(D) = f[y] + sum(D \ {y})
        BY <1>2, <2>0, <2>4
      <3>. HIDE DEF sum
      <3>. QED  BY <2>2, <2>3, <3>1, <3>2
    <2>5. CASE y \notin D
      <3>1. sum(R \ {y}) <= sum(D)
        BY <1>4
      <3>2. f[y] = 0
        BY <2>5
      <3>. HIDE DEF sum
      <3>. QED  BY <2>2, <2>3, <3>1, <3>2
    <2>. QED  BY <2>4, <2>5
  <1>. HIDE DEF A
  <1>5. S \in A
    BY <1>1, <1>3, <1>4, SetInduction
  <1>. QED  BY <1>5 DEF A

(* A finite set of integers has a maximum. *)
LEMMA LargestOf ==
  ASSUME NEW S, IsFiniteSet(S), S # {}, S \subseteq Int
  PROVE  \E m \in S : \A x \in S : m >= x
  <1>. DEFINE A == {R \in SUBSET S : R = {} \/ \E m \in R : \A x \in R : m >= x}
  <1>1. ASSUME NEW R \in SUBSET S, R # {}, \A x \in R : R \ {x} \in A
        PROVE  R \in A
    <2>1. PICK y \in R : TRUE
      BY <1>1
    <2>2. CASE R = {y}
      BY <2>2
    <2>3. CASE R # {y}
      <3>0. R \ {y} \in A /\ R \ {y} # {}
        BY <1>1, <2>1, <2>3
      <3>1. PICK m \in R \ {y} : \A x \in R \ {y} : m >= x
        BY <3>0
      <3>2. CASE m >= y
        BY <3>1, <3>2
      <3>3. CASE ~ m >= y
        BY <3>1, <3>3
      <3>. QED  BY <3>2, <3>3
    <2>. QED  BY <2>2, <2>3
  <1>2. {} \in A
    OBVIOUS
  <1>. HIDE DEF A
  <1>3. S \in A
    BY <1>1, <1>2, SetInduction
  <1>. QED  BY <1>3 DEF A
=============================================================================
