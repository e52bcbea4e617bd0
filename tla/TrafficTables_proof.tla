------------------------ MODULE TrafficTables_proof ------------------------
(***************************************************************************)
(* Proofs about TrafficTables for every length of the two tables, every    *)
(* period and every set of packets.                                        *)
(***************************************************************************)
EXTENDS TrafficTables, SequenceTheorems, FiniteSetTheorems, WellFoundedInduction, TLAPS

(* Remainders of a division by a variable. *)
LEMMA Division ==
  ASSUME NEW w \in Nat \ {0}, NEW a \in Nat
  PROVE  /\ a \div w \in Nat /\ a % w \in 0 .. w - 1
         /\ a = w * (a \div w) + (a % w)
OBVIOUS

LEMMA NoMultiple ==
  ASSUME NEW w \in Nat \ {0}, NEW z \in Int, w * z < w, -w < w * z
  PROVE  z = 0
<1>1. CASE z >= 1
  BY <1>1
<1>2. CASE z <= -1
  BY <1>2
<1> QED  BY <1>1, <1>2

LEMMA SameRemainder ==
  ASSUME NEW w \in Nat \ {0}, NEW a \in Nat, NEW b \in Nat, NEW q \in Int, a = b + w * q
  PROVE  a % w = b % w
<1> DEFINE m == a \div w
           n == b \div w
           r == a % w
           s == b % w
           z == m - n - q
<1>1. /\ m \in Nat /\ n \in Nat /\ r \in 0 .. w - 1 /\ s \in 0 .. w - 1
      /\ a = w * m + r /\ b = w * n + s
  BY Division
<1> HIDE DEF m, n, r, s
<1>2. w * m + r = w * n + s + w * q
  BY <1>1
<1>3. z \in Int /\ w * z = w * m - w * n - w * q
  BY <1>1
<1>4. w * m \in Int /\ w * n \in Int /\ w * q \in Int
  BY <1>1
<1>5. w * z = s - r
  BY <1>1, <1>2, <1>3, <1>4
<1>6. w * z < w /\ -w < w * z
  BY <1>1, <1>5
<1> HIDE DEF z
<1>7. z = 0
  BY <1>3, <1>6, NoMultiple
<1>8. s = r
  BY <1>1, <1>5, <1>7
<1> QED  BY <1>8 DEF r, s

LEMMA RemainderAdd ==
  ASSUME NEW w \in Nat \ {0}, NEW a \in Nat, NEW b \in Nat
  PROVE  ((a % w) + b) % w = (a + b) % w
<1> DEFINE q == a \div w
           r == a % w
<1>1. q \in Nat /\ r \in 0 .. w - 1 /\ a = w * q + r
  BY Division
<1> HIDE DEF q, r
<1>2. w * q \in Nat /\ r + b \in Nat /\ a + b \in Nat /\ a + b = (r + b) + w * q
  BY <1>1
<1>3. (a + b) % w = (r + b) % w
  <2> DEFINE c == a + b
             d == r + b
  <2>1. c \in Nat /\ d \in Nat /\ q \in Int /\ c = d + w * q
    BY <1>1, <1>2
  <2> HIDE DEF c, d
  <2>2. c % w = d % w
    BY <2>1, SameRemainder
  <2> QED  BY <2>2 DEF c, d
<1> QED  BY <1>3 DEF r

LEMMA SmallRemainder ==
  ASSUME NEW w \in Nat \ {0}, NEW a \in 0 .. w - 1
  PROVE  a % w = a
OBVIOUS

-----------------------------------------------------------------------------
(* Induction over finite sets without an operator as parameter: a set of   *)
(* subsets of a finite set has a minimal one.                              *)
LEMMA Minimal ==
  ASSUME NEW S, IsFiniteSet(S), NEW B \in SUBSET SUBSET S, B # {}
  PROVE  \E T \in B : \A U \in B : U \subseteq T => U = T
<1>1. IsWellFoundedOn(StrictSubsetOrdering(S), SUBSET S)
  BY FS_StrictSubsetOrderingWellFounded, FS_FiniteSubsetsOfFinite
<1>2. PICK T \in B : \A U \in B : <<U, T>> \notin StrictSubsetOrdering(S)
  BY <1>1, WFMin
<1>3. ASSUME NEW U \in B, U \subseteq T, U # T
      PROVE  FALSE
  BY <1>2, <1>3 DEF StrictSubsetOrdering
<1> QED  BY <1>3

(* A set of positive numbers that is not empty has a least element.        *)
LEMMA LeastOf ==
  ASSUME NEW n \in Nat, NEW C \in SUBSET (1 .. n), C # {}
  PROVE  \E m \in C : \A j \in 1 .. m - 1 : j \notin C
<1> DEFINE D == 1 .. n
           B == {1 .. m : m \in C}
<1>1. PICK T \in B : \A U \in B : U \subseteq T => U = T
  <2>1. B # {}
    OBVIOUS
  <2>2. B \in SUBSET SUBSET D
    <3> SUFFICES ASSUME NEW m \in C PROVE 1 .. m \in SUBSET D
      OBVIOUS
    <3> QED  OBVIOUS
  <2>3. IsFiniteSet(D)
    BY FS_Interval
  <2> HIDE DEF B, D
  <2> QED  BY <2>1, <2>2, <2>3, Minimal
<1>2. PICK m \in C : T = 1 .. m
  OBVIOUS
<1>3. ASSUME NEW j \in 1 .. m - 1, j \in C
      PROVE  FALSE
  <2>1. j \in Nat /\ m \in Nat /\ m >= 1 /\ j < m
    OBVIOUS
  <2>2. 1 .. j \in B /\ 1 .. j \subseteq T
    BY <1>2, <1>3, <2>1
  <2>3. 1 .. j = 1 .. m
    BY <1>1, <1>2, <2>2
  <2>4. m \in 1 .. m /\ m \notin 1 .. j
    BY <2>1
  <2> QED  BY <2>3, <2>4
<1> QED  BY <1>3

(* The recursion that a sum stands for.                                    *)
First(s) == CHOOSE x \in s : TRUE
Body(it, f, S) ==
  [s \in SUBSET S |-> IF s = {} THEN 0 ELSE f[First(s)] + it[s \ {First(s)}]]
Folded(f, S) == CHOOSE it : it = Body(it, f, S)

LEMMA FirstIn == \A s : s # {} => First(s) \in s
BY DEF First

LEMMA SumIs ==
  ASSUME NEW f, NEW S
  PROVE  SumFunctionOnSet(f, S) = Folded(f, S)[S]
BY Zenon DEF SumFunctionOnSet, FoldFunctionOnSet, MapThenFoldSet, First, Body, Folded

LEMMA FoldedMeets ==
  ASSUME NEW f, NEW S, NEW h, h = Body(h, f, S)
  PROVE  Folded(f, S) = Body(Folded(f, S), f, S)
BY Zenon DEF Folded

LEMMA BodyUnique ==
  ASSUME NEW f, NEW S, IsFiniteSet(S), NEW g, g = Body(g, f, S), NEW h, h = Body(h, f, S)
  PROVE  g[S] = h[S]
<1> DEFINE B == {T \in SUBSET S : g[T] # h[T]}
<1>1. SUFFICES ASSUME B # {} PROVE FALSE
  OBVIOUS
<1>2. PICK T \in B : \A U \in B : U \subseteq T => U = T
  <2>1. B \in SUBSET SUBSET S
    OBVIOUS
  <2> HIDE DEF B
  <2> QED  BY <1>1, <2>1, Minimal
<1>3. g[T] = IF T = {} THEN 0 ELSE f[First(T)] + g[T \ {First(T)}]
  BY DEF Body
<1>4. h[T] = IF T = {} THEN 0 ELSE f[First(T)] + h[T \ {First(T)}]
  BY DEF Body
<1>5. T # {} => g[T \ {First(T)}] = h[T \ {First(T)}]
  BY <1>2, FirstIn
<1> QED  BY <1>3, <1>4, <1>5

(* A sum is its first term and the sum of the others. *)
LEMMA SumStep ==
  ASSUME NEW f, NEW S, IsFiniteSet(S)
  PROVE  SumFunctionOnSet(f, S) = IF S = {} THEN 0 ELSE f[First(S)] + SumFunctionOnSet(f, S \ {First(S)})
<1> DEFINE Step(T) == IF T = {} THEN 0 ELSE f[First(T)] + SumFunctionOnSet(f, T \ {First(T)})
           B == {T \in SUBSET S : SumFunctionOnSet(f, T) # Step(T)}
<1>1. SUFFICES ASSUME B # {} PROVE FALSE
  OBVIOUS
<1>2. PICK T \in B : \A U \in B : U \subseteq T => U = T
  <2>1. B \in SUBSET SUBSET S
    OBVIOUS
  <2> HIDE DEF B
  <2> QED  BY <1>1, <2>1, Minimal
<1> DEFINE h == [s \in SUBSET T |-> Step(s)]
<1>3. ASSUME NEW s \in SUBSET T, s # {}
      PROVE  SumFunctionOnSet(f, s \ {First(s)}) = h[s \ {First(s)}]
  <2>1. First(s) \in s
    BY <1>3, FirstIn
  <2>2. s \ {First(s)} \in SUBSET T /\ s \ {First(s)} # T /\ s \ {First(s)} \in SUBSET S
    BY <2>1
  <2>3. s \ {First(s)} \notin B
    BY <1>2, <2>2
  <2> QED  BY <2>2, <2>3
<1>4. h = Body(h, f, T)
  BY <1>3, Zenon DEF Body
<1>5. Folded(f, T) = Body(Folded(f, T), f, T)
  BY <1>4, FoldedMeets
<1>6. IsFiniteSet(T)
  BY FS_Subset
<1>7. Folded(f, T)[T] = h[T]
  BY <1>4, <1>5, <1>6, BodyUnique
<1> QED  BY <1>7, SumIs

LEMMA SumEmpty ==
  ASSUME NEW f
  PROVE  SumFunctionOnSet(f, {}) = 0
BY SumStep, FS_EmptySet

LEMMA SumNatural ==
  ASSUME NEW f, NEW S, IsFiniteSet(S), \A i \in S : f[i] \in Nat
  PROVE  SumFunctionOnSet(f, S) \in Nat
<1> DEFINE B == {T \in SUBSET S : SumFunctionOnSet(f, T) \notin Nat}
<1>1. SUFFICES ASSUME B # {} PROVE FALSE
  OBVIOUS
<1>2. PICK T \in B : \A U \in B : U \subseteq T => U = T
  <2>1. B \in SUBSET SUBSET S
    OBVIOUS
  <2> HIDE DEF B
  <2> QED  BY <1>1, <2>1, Minimal
<1>3. SumFunctionOnSet(f, T) = IF T = {} THEN 0 ELSE f[First(T)] + SumFunctionOnSet(f, T \ {First(T)})
  BY SumStep, FS_Subset
<1>4. CASE T = {}
  BY <1>3, <1>4
<1>5. CASE T # {}
  <2>1. First(T) \in T
    BY <1>5, FirstIn
  <2>2. SumFunctionOnSet(f, T \ {First(T)}) \in Nat /\ f[First(T)] \in Nat
    BY <1>2, <2>1
  <2> QED  BY <1>3, <1>5, <2>2
<1> QED  BY <1>4, <1>5

(* The order does not matter. *)
LEMMA SumRemove ==
  ASSUME NEW f, NEW S, IsFiniteSet(S), \A i \in S : f[i] \in Nat, NEW x \in S
  PROVE  SumFunctionOnSet(f, S) = f[x] + SumFunctionOnSet(f, S \ {x})
<1> DEFINE B == {T \in SUBSET S : \E y \in T : SumFunctionOnSet(f, T) # f[y] + SumFunctionOnSet(f, T \ {y})}
<1>1. SUFFICES ASSUME B # {} PROVE FALSE
  OBVIOUS
<1>2. PICK T \in B : \A U \in B : U \subseteq T => U = T
  <2>1. B \in SUBSET SUBSET S
    OBVIOUS
  <2> HIDE DEF B
  <2> QED  BY <1>1, <2>1, Minimal
<1>3. PICK y \in T : SumFunctionOnSet(f, T) # f[y] + SumFunctionOnSet(f, T \ {y})
  BY <1>2
<1> DEFINE c == First(T)
<1>4. c \in T /\ SumFunctionOnSet(f, T) = f[c] + SumFunctionOnSet(f, T \ {c})
  BY SumStep, FS_Subset, FirstIn
<1> HIDE DEF c
<1>5. c # y
  BY <1>3, <1>4
<1>6. SumFunctionOnSet(f, T \ {c}) = f[y] + SumFunctionOnSet(f, (T \ {c}) \ {y})
  BY <1>2, <1>4, <1>5
<1>7. SumFunctionOnSet(f, T \ {y}) = f[c] + SumFunctionOnSet(f, (T \ {y}) \ {c})
  BY <1>2, <1>4, <1>5
<1> DEFINE r == SumFunctionOnSet(f, (T \ {c}) \ {y})
<1>8. f[c] \in Nat /\ f[y] \in Nat /\ r \in Nat
  <2>1. (T \ {c}) \ {y} \in SUBSET S
    OBVIOUS
  <2>2. IsFiniteSet((T \ {c}) \ {y}) /\ \A i \in (T \ {c}) \ {y} : f[i] \in Nat
    BY <2>1, FS_Subset
  <2> QED  BY <1>4, <2>2, SumNatural
<1>9. (T \ {y}) \ {c} = (T \ {c}) \ {y}
  OBVIOUS
<1> HIDE DEF r
<1>10. SumFunctionOnSet(f, T) = f[c] + (f[y] + r) /\ SumFunctionOnSet(f, T \ {y}) = f[c] + r
  BY <1>4, <1>6, <1>7, <1>9 DEF r
<1> QED  BY <1>3, <1>8, <1>10

LEMMA SumAdd ==
  ASSUME NEW f, NEW S, IsFiniteSet(S), NEW x, x \notin S, \A i \in S \cup {x} : f[i] \in Nat
  PROVE  SumFunctionOnSet(f, S \cup {x}) = SumFunctionOnSet(f, S) + f[x]
<1>1. IsFiniteSet(S \cup {x}) /\ (S \cup {x}) \ {x} = S
  BY FS_AddElement
<1>2. SumFunctionOnSet(f, S \cup {x}) = f[x] + SumFunctionOnSet(f, S)
  BY <1>1, SumRemove
<1>3. SumFunctionOnSet(f, S) \in Nat /\ f[x] \in Nat
  BY SumNatural
<1> QED  BY <1>2, <1>3

(* Only the terms count. *)
LEMMA SumAgrees ==
  ASSUME NEW f, NEW g, NEW S, IsFiniteSet(S), \A i \in S : f[i] = g[i]
  PROVE  SumFunctionOnSet(f, S) = SumFunctionOnSet(g, S)
<1> DEFINE B == {T \in SUBSET S : SumFunctionOnSet(f, T) # SumFunctionOnSet(g, T)}
<1>1. SUFFICES ASSUME B # {} PROVE FALSE
  OBVIOUS
<1>2. PICK T \in B : \A U \in B : U \subseteq T => U = T
  <2>1. B \in SUBSET SUBSET S
    OBVIOUS
  <2> HIDE DEF B
  <2> QED  BY <1>1, <2>1, Minimal
<1>3. IsFiniteSet(T)
  BY FS_Subset
<1>4. /\ SumFunctionOnSet(f, T) = IF T = {} THEN 0 ELSE f[First(T)] + SumFunctionOnSet(f, T \ {First(T)})
      /\ SumFunctionOnSet(g, T) = IF T = {} THEN 0 ELSE g[First(T)] + SumFunctionOnSet(g, T \ {First(T)})
  BY <1>3, SumStep
<1>5. CASE T # {}
  <2>1. First(T) \in T
    BY <1>5, FirstIn
  <2>2. SumFunctionOnSet(f, T \ {First(T)}) = SumFunctionOnSet(g, T \ {First(T)}) /\ f[First(T)] = g[First(T)]
    BY <1>2, <2>1
  <2> QED  BY <1>4, <1>5, <2>2
<1> QED  BY <1>4, <1>5

(* The sum over two sets without a common element.                         *)
LEMMA SumUnion ==
  ASSUME NEW f, NEW A, NEW C, IsFiniteSet(A), IsFiniteSet(C), A \cap C = {},
         \A i \in A \cup C : f[i] \in Nat
  PROVE  SumFunctionOnSet(f, A \cup C) = SumFunctionOnSet(f, A) + SumFunctionOnSet(f, C)
<1> DEFINE B == {T \in SUBSET C :
                   SumFunctionOnSet(f, A \cup T) # SumFunctionOnSet(f, A) + SumFunctionOnSet(f, T)}
<1>1. SUFFICES ASSUME B # {} PROVE FALSE
  OBVIOUS
<1>2. PICK T \in B : \A U \in B : U \subseteq T => U = T
  <2>1. B \in SUBSET SUBSET C
    OBVIOUS
  <2> HIDE DEF B
  <2> QED  BY <1>1, <2>1, Minimal
<1>3. SumFunctionOnSet(f, A) \in Nat
  BY SumNatural
<1>4. T # {}
  <2> SUFFICES ASSUME T = {} PROVE FALSE
    OBVIOUS
  <2>1. SumFunctionOnSet(f, T) = 0
    BY SumEmpty
  <2>2. A \cup T = A
    OBVIOUS
  <2>3. SumFunctionOnSet(f, A) # SumFunctionOnSet(f, A) + SumFunctionOnSet(f, T)
    BY <1>2, <2>2
  <2> QED  BY <1>3, <2>1, <2>3
<1>5. PICK x : x \in T
  BY <1>4
<1> DEFINE U == T \ {x}
<1>6. /\ U \in SUBSET C /\ x \in C /\ x \notin U /\ x \notin A \cup U
      /\ T = U \cup {x} /\ A \cup T = (A \cup U) \cup {x}
  BY <1>5
<1>7. U \notin B
  BY <1>2, <1>5
<1>8. IsFiniteSet(U) /\ IsFiniteSet(A \cup U)
  BY <1>6, FS_Subset, FS_Union
<1>9. SumFunctionOnSet(f, A \cup U) = SumFunctionOnSet(f, A) + SumFunctionOnSet(f, U)
  BY <1>6, <1>7
<1>10. \A i \in U \cup {x} : f[i] \in Nat
  BY <1>6
<1>11. \A i \in (A \cup U) \cup {x} : f[i] \in Nat
  BY <1>6
<1> HIDE DEF U
<1>12. SumFunctionOnSet(f, T) = SumFunctionOnSet(f, U) + f[x]
  BY <1>6, <1>8, <1>10, SumAdd
<1>13. SumFunctionOnSet(f, A \cup T) = SumFunctionOnSet(f, A \cup U) + f[x]
  <2> DEFINE V == A \cup U
  <2>1. IsFiniteSet(V) /\ x \notin V /\ \A i \in V \cup {x} : f[i] \in Nat
    BY <1>6, <1>8, <1>11
  <2> HIDE DEF V
  <2>2. SumFunctionOnSet(f, V \cup {x}) = SumFunctionOnSet(f, V) + f[x]
    BY <2>1, SumAdd
  <2> QED  BY <1>6, <2>2 DEF V
<1>14. SumFunctionOnSet(f, U) \in Nat /\ f[x] \in Nat
  BY <1>8, <1>10, SumNatural
<1> QED  BY <1>2, <1>3, <1>9, <1>12, <1>13, <1>14

(* The sum of zeros and ones counts the ones.                              *)
LEMMA SumCounts ==
  ASSUME NEW f, NEW S, IsFiniteSet(S), \A i \in S : f[i] \in {0, 1}
  PROVE  SumFunctionOnSet(f, S) = Cardinality({i \in S : f[i] = 1})
<1> DEFINE Ones(T) == {i \in T : f[i] = 1}
           B == {T \in SUBSET S : SumFunctionOnSet(f, T) # Cardinality(Ones(T))}
<1>1. SUFFICES ASSUME B # {} PROVE FALSE
  OBVIOUS
<1>2. PICK T \in B : \A U \in B : U \subseteq T => U = T
  <2>1. B \in SUBSET SUBSET S
    OBVIOUS
  <2> HIDE DEF B
  <2> QED  BY <1>1, <2>1, Minimal
<1>3. T # {}
  <2>1. Ones({}) = {}
    OBVIOUS
  <2> QED  BY <1>2, <2>1, SumEmpty, FS_EmptySet
<1>4. PICK x : x \in T
  BY <1>3
<1> DEFINE U == T \ {x}
<1>5. U \in SUBSET S /\ x \in S /\ x \notin U /\ T = U \cup {x}
  BY <1>4
<1>6. SumFunctionOnSet(f, U) = Cardinality(Ones(U))
  BY <1>2, <1>4, <1>5
<1>7. IsFiniteSet(U) /\ \A i \in U \cup {x} : f[i] \in Nat
  BY <1>5, FS_Subset
<1>8. SumFunctionOnSet(f, T) = SumFunctionOnSet(f, U) + f[x]
  <2> HIDE DEF U
  <2> QED  BY <1>5, <1>7, SumAdd
<1>9. IsFiniteSet(Ones(U)) /\ Cardinality(Ones(U)) \in Nat
  BY <1>7, FS_Subset, FS_CardinalityType
<1>10. Cardinality(Ones(T)) = Cardinality(Ones(U)) + f[x]
  <2>1. CASE f[x] = 1
    <3>1. Ones(T) = Ones(U) \cup {x} /\ x \notin Ones(U)
      BY <1>5, <2>1
    <3> HIDE DEF Ones
    <3> QED  BY <1>9, <2>1, <3>1, FS_AddElement
  <2>2. CASE f[x] = 0
    <3>1. Ones(T) = Ones(U)
      BY <1>5, <2>2
    <3>2. Cardinality(Ones(T)) = Cardinality(Ones(U))
      BY <3>1, Zenon
    <3> HIDE DEF Ones
    <3> QED  BY <1>9, <2>2, <3>2
  <2> QED  BY <1>5, <2>1, <2>2
<1> QED  BY <1>2, <1>6, <1>8, <1>10

(* If each f[i] is, in words, the sum of g over G[i], then the sum of f is *)
(* the sum of g over all of them.                                          *)
LEMMA SumFamily ==
  ASSUME NEW w \in Nat \ {0}, NEW I, IsFiniteSet(I), NEW f, \A i \in I : f[i] \in Nat,
         NEW D, IsFiniteSet(D), NEW g, \A d \in D : g[d] \in Nat,
         NEW G \in [I -> SUBSET D], \A i, j \in I : i # j => G[i] \cap G[j] = {},
         \A i \in I : f[i] % w = SumFunctionOnSet(g, G[i]) % w
  PROVE  SumFunctionOnSet(f, I) % w = SumFunctionOnSet(g, UNION {G[i] : i \in I}) % w
<1> DEFINE Whole(T) == UNION {G[i] : i \in T}
           B == {T \in SUBSET I :
                   SumFunctionOnSet(f, T) % w # SumFunctionOnSet(g, Whole(T)) % w}
<1>1. SUFFICES ASSUME B # {} PROVE FALSE
  OBVIOUS
<1>2. PICK T \in B : \A U \in B : U \subseteq T => U = T
  <2>1. B \in SUBSET SUBSET I
    OBVIOUS
  <2> HIDE DEF B
  <2> QED  BY <1>1, <2>1, Minimal
<1>3. T # {}
  <2>1. Whole({}) = {}
    OBVIOUS
  <2>2. SumFunctionOnSet(f, {}) = SumFunctionOnSet(g, Whole({}))
    BY <2>1, SumEmpty
  <2> QED  BY <1>2, <2>2
<1>4. PICK x : x \in T
  BY <1>3
<1> DEFINE U == T \ {x}
<1>5. U \in SUBSET I /\ x \in I /\ x \notin U /\ T = U \cup {x}
  BY <1>4
<1>6. SumFunctionOnSet(f, U) % w = SumFunctionOnSet(g, Whole(U)) % w
  BY <1>2, <1>4, <1>5
<1>7. IsFiniteSet(U) /\ \A i \in U \cup {x} : f[i] \in Nat
  BY <1>5, FS_Subset
<1>8. SumFunctionOnSet(f, T) = SumFunctionOnSet(f, U) + f[x]
  <2> HIDE DEF U
  <2> QED  BY <1>5, <1>7, SumAdd
<1>9. Whole(U) \in SUBSET D /\ G[x] \in SUBSET D /\ Whole(U) \cap G[x] = {}
  BY <1>5
<1>10. Whole(T) = Whole(U) \cup G[x]
  BY <1>5
<1> DEFINE a == SumFunctionOnSet(f, U)
           b == SumFunctionOnSet(g, Whole(U))
           c == SumFunctionOnSet(g, G[x])
           d == f[x]
<1>11. /\ IsFiniteSet(Whole(U)) /\ IsFiniteSet(G[x])
       /\ \A i \in Whole(U) \cup G[x] : g[i] \in Nat
  BY <1>9, FS_Subset
<1>12. SumFunctionOnSet(g, Whole(T)) = b + c
  <2> HIDE DEF Whole, U
  <2> QED  BY <1>9, <1>10, <1>11, SumUnion
<1>13. a \in Nat /\ b \in Nat /\ c \in Nat /\ d \in Nat
  <2> HIDE DEF Whole, U
  <2> QED  BY <1>7, <1>11, SumNatural
<1>14. a % w = b % w /\ d % w = c % w
  BY <1>5, <1>6
<1> HIDE DEF a, b, c, d, Whole, U
<1>15. (a + d) % w = (b + c) % w
  <2>1. (a + d) % w = ((a % w) + d) % w /\ (b + d) % w = ((b % w) + d) % w
    BY <1>13, RemainderAdd
  <2>2. (d + b) % w = ((d % w) + b) % w /\ (c + b) % w = ((c % w) + b) % w
    BY <1>13, RemainderAdd
  <2>3. d + b = b + d /\ c + b = b + c
    BY <1>13
  <2>4. (a + d) % w = (b + d) % w /\ (d + b) % w = (c + b) % w
    BY <1>14, <2>1, <2>2, Zenon
  <2> QED  BY <2>3, <2>4, Zenon
<1>16. (SumFunctionOnSet(f, T)) % w = (SumFunctionOnSet(g, Whole(T))) % w
  BY <1>8, <1>12, <1>15 DEF a, b, c, d
<1> QED  BY <1>2, <1>16

-----------------------------------------------------------------------------
(* The part of the state that the tables' indices depend on.               *)
Shape ==
  /\ now \in Nat /\ from_time \in Nat
  /\ next1 \in 0 .. FirstLength
  /\ table1 = [i \in 0 .. FirstLength - 1 |-> table1[i]]
  /\ next2 \in 0 .. SecondLength
  /\ table2 = [i \in 0 .. SecondLength - 1 |-> table2[i]]

(* Updating an entry keeps a function on its domain.                       *)
LEMMA ExceptDomain ==
  ASSUME NEW S, NEW f, f = [i \in S |-> f[i]], NEW j, NEW v
  PROVE  [f EXCEPT ![j] = v] = [i \in S |-> [f EXCEPT ![j] = v][i]]
OBVIOUS

(* Adding a packet to a table of n records, with distinct addresses.       *)
Distinct(t, n) == \A i, j \in 0 .. n - 1 : t[i].saddr = t[j].saddr => i = j

LEMMA AddKeeps ==
  ASSUME NEW n \in 0 .. FirstLength, NEW k, Add(n, k), Distinct(table1, n),
         table1 = [i \in 0 .. FirstLength - 1 |-> table1[i]]
  PROVE  /\ next1' \in 1 .. FirstLength
         /\ table1' = [i \in 0 .. FirstLength - 1 |-> table1'[i]]
         /\ Distinct(table1', next1')
<1> USE TrafficAssumption
<1>1. CASE /\ Known(n, k) # {}
           /\ table1' = [table1 EXCEPT ![FirstKnown(n, k)] = Counted(@, k)]
           /\ next1' = n
  <2>1. n >= 1
    BY <1>1 DEF Known
  <2>2. \A i \in 0 .. FirstLength - 1 : table1'[i].saddr = table1[i].saddr
    BY <1>1 DEF Counted
  <2>3. table1' = [i \in 0 .. FirstLength - 1 |-> table1'[i]]
    BY <1>1, ExceptDomain
  <2>4. \A i \in 0 .. n - 1 : i \in 0 .. FirstLength - 1
    OBVIOUS
  <2>5. Distinct(table1', n)
    BY <2>2, <2>4 DEF Distinct
  <2> QED  BY <1>1, <2>1, <2>3, <2>5
<1>2. CASE /\ Known(n, k) = {} /\ n < FirstLength
           /\ table1' = [table1 EXCEPT ![n] = [saddr |-> k.saddr, count |-> 1,
                   tot_len |-> TotLen(k), tcp |-> k.is_tcp, syn |-> k.is_syn]]
           /\ next1' = n + 1
  <2>1. table1'[n].saddr = k.saddr
    BY <1>2
  <2>2. \A i \in 0 .. n - 1 : table1'[i] = table1[i] /\ table1[i].saddr # k.saddr
    <3>1. \A i \in 0 .. n - 1 : table1[i].saddr # k.saddr
      BY <1>2 DEF Known
    <3>2. \A i \in 0 .. n - 1 : i \in 0 .. FirstLength - 1 /\ i # n
      BY <1>2
    <3> QED  BY <1>2, <3>1, <3>2
  <2>3. table1' = [i \in 0 .. FirstLength - 1 |-> table1'[i]]
    BY <1>2, ExceptDomain
  <2>4. \A i \in 0 .. (n + 1) - 1 : i = n \/ i \in 0 .. n - 1
    OBVIOUS
  <2>5. Distinct(table1', n + 1)
    BY <2>1, <2>2, <2>4 DEF Distinct
  <2> QED  BY <1>2, <2>3, <2>5
<1>3. CASE n >= FirstLength /\ table1' = table1 /\ next1' = n
  BY <1>3
<1> QED  BY <1>1, <1>2, <1>3 DEF Add

-----------------------------------------------------------------------------
(* Inspecting a table of j + 1 slices touches at most the last of them.    *)
LEMMA InspectMarks ==
  ASSUME NEW t, NEW j \in Nat
  PROVE  \/ InspectLast(t, j + 1) = t
         \/ \E s : InspectLast(t, j + 1) = [t EXCEPT ![j] = s]
<1> DEFINE n == j + 1
           c == Critical(t, n)
<1>1. n - 1 = j
  OBVIOUS
<1>2. InspectLast(t, n) = IF n < 2 THEN t ELSE [t EXCEPT ![n - 1].crit = c]
  BY DEF InspectLast
<1> HIDE DEF n, c
<1>3. InspectLast(t, n) = t \/ InspectLast(t, n) = [t EXCEPT ![j].crit = c]
  BY <1>1, <1>2
<1>4. [t EXCEPT ![j].crit = c] = [t EXCEPT ![j] = [t[j] EXCEPT !.crit = c]]
  OBVIOUS
<1>5. InspectLast(t, n) = t \/ \E s : InspectLast(t, n) = [t EXCEPT ![j] = s]
  BY <1>3, <1>4
<1> QED  BY <1>5 DEF n

(* The table after a dump: the slices that stay, moved if the table was    *)
(* full, and a new one.                                                    *)
LEMMA DumpMoves ==
  ASSUME Shape, NEW time, Dump(time)
  PROVE  /\ FreeIndex \in 0 .. SecondLength - 1
         /\ next2' = FreeIndex + 1
         /\ table2' = [i \in 0 .. SecondLength - 1 |-> table2'[i]]
         /\ \A i \in 0 .. FreeIndex - 1 :
              table2'[i] = IF next2 < SecondLength THEN table2[i] ELSE table2[i + 1]
<1> USE TrafficAssumption DEF Shape
<1> DEFINE new == [from_time |-> time \div Second, vec |-> Summary(table1, next1),
                   crit |-> NoCrit]
           t == [Shifted EXCEPT ![FreeIndex] = new]
<1>1. FreeIndex \in 0 .. SecondLength - 1 /\ next2' = FreeIndex + 1
  BY DEF Dump, FreeIndex
<1>2. Shifted = [i \in 0 .. SecondLength - 1 |-> Shifted[i]]
  BY DEF Shifted
<1>3. \A i \in 0 .. FreeIndex - 1 :
        Shifted[i] = IF next2 < SecondLength THEN table2[i] ELSE table2[i + 1]
  BY DEF Shifted, FreeIndex
<1>4. t = [i \in 0 .. SecondLength - 1 |-> t[i]]
  BY <1>2, ExceptDomain
<1>5. \A i \in 0 .. FreeIndex - 1 : t[i] = Shifted[i]
  BY <1>1, <1>2
<1>6. table2' = InspectLast(t, FreeIndex + 1)
  BY DEF Dump
<1>7. table2' = t \/ \E s : table2' = [t EXCEPT ![FreeIndex] = s]
  <2> HIDE DEF t
  <2>1. FreeIndex \in Nat
    BY <1>1
  <2>2. \/ InspectLast(t, FreeIndex + 1) = t
        \/ \E s : InspectLast(t, FreeIndex + 1) = [t EXCEPT ![FreeIndex] = s]
    BY <2>1, InspectMarks, Zenon
  <2> QED  BY <1>6, <2>2, Zenon
<1>8. table2' = [i \in 0 .. SecondLength - 1 |-> table2'[i]]
  <2> HIDE DEF t
  <2> QED  BY <1>4, <1>7, ExceptDomain
<1>9. \A i \in 0 .. FreeIndex - 1 : table2'[i] = t[i]
  <2> HIDE DEF t
  <2>1. \A i \in 0 .. FreeIndex - 1 : i \in 0 .. SecondLength - 1 /\ i # FreeIndex
    BY <1>1
  <2> QED  BY <1>4, <1>7, <2>1
<1> QED  BY <1>1, <1>3, <1>5, <1>8, <1>9

-----------------------------------------------------------------------------
IndexInv == Shape /\ UniqueAddresses /\ DivisionDefined

LEMMA InitIndex == Init => IndexInv
<1> SUFFICES ASSUME Init PROVE IndexInv
  OBVIOUS
<1>1. Shape
  BY TrafficAssumption DEF Init, Shape
<1>2. 0 .. next1 - 1 = {}
  BY DEF Init
<1> QED  BY <1>1, <1>2 DEF Init, IndexInv, UniqueAddresses, DivisionDefined

LEMMA NextIndex ==
  ASSUME IndexInv, [Next]_vars
  PROVE  IndexInv'
<1> USE TrafficAssumption DEF IndexInv, Shape
<1>1. Distinct(table1, next1) /\ Distinct(table1, 0)
  <2>1. 0 .. 0 - 1 = {}
    OBVIOUS
  <2>2. Distinct(table1, 0)
    BY <2>1, Zenon DEF Distinct
  <2>3. Distinct(table1, next1)
    BY Zenon DEF UniqueAddresses, Distinct
  <2> QED  BY <2>2, <2>3
<1>2. ASSUME NEW k, CatchInPeriod(k)
      PROVE  IndexInv'
  <2>1. /\ next1' \in 1 .. FirstLength
        /\ table1' = [i \in 0 .. FirstLength - 1 |-> table1'[i]]
        /\ Distinct(table1', next1')
    BY <1>1, <1>2, AddKeeps DEF CatchInPeriod
  <2> QED  BY <1>2, <2>1 DEF CatchInPeriod, Distinct, UniqueAddresses, DivisionDefined
<1>3. ASSUME NEW k, NEW time \in now .. now + 1, CatchFirst(k, time)
      PROVE  IndexInv'
  <2>1. /\ next1' \in 1 .. FirstLength
        /\ table1' = [i \in 0 .. FirstLength - 1 |-> table1'[i]]
        /\ Distinct(table1', next1')
    BY <1>1, <1>3, AddKeeps DEF CatchFirst
  <2> QED  BY <1>3, <2>1 DEF CatchFirst, Distinct, UniqueAddresses, DivisionDefined
<1>4. ASSUME NEW k, NEW time \in now .. now + 1, NEW dumped, CatchAndDump(k, dumped, time)
      PROVE  IndexInv'
  <2>1. 0 \in 0 .. FirstLength
    OBVIOUS
  <2>2. /\ next1' \in 1 .. FirstLength
        /\ table1' = [i \in 0 .. FirstLength - 1 |-> table1'[i]]
        /\ Distinct(table1', next1')
    BY <1>1, <1>4, <2>1, AddKeeps DEF CatchAndDump
  <2>3. /\ next2' \in 0 .. SecondLength
        /\ table2' = [i \in 0 .. SecondLength - 1 |-> table2'[i]]
    BY <1>4, DumpMoves DEF CatchAndDump
  <2>4. now' \in Nat /\ from_time' \in Nat
    BY <1>4 DEF CatchAndDump
  <2> QED  BY <2>2, <2>3, <2>4 DEF Distinct, UniqueAddresses, DivisionDefined
<1>5. CASE Tick
  <2>1. now' \in Nat
    BY <1>5 DEF Tick
  <2>2. Shape'
    BY <1>5, <2>1 DEF Tick
  <2>3. UniqueAddresses'
    BY <1>5, Zenon DEF Tick, UniqueAddresses
  <2> QED  BY <1>5, <2>2, <2>3 DEF Tick, DivisionDefined
<1>6. CASE UNCHANGED vars
  <2>1. UniqueAddresses'
    BY <1>6, Zenon DEF vars, UniqueAddresses
  <2> QED  BY <1>6, <2>1 DEF vars, DivisionDefined
<1> QED  BY <1>2, <1>3, <1>4, <1>5, <1>6 DEF Next, CatchTraffic

(* Both indices stay within their tables.                                  *)
THEOREM IndexCorrect == Spec => []IndexInv
<1>1. IndexInv /\ [Next]_vars => IndexInv'
  BY NextIndex
<1> QED  BY <1>1, InitIndex, PTL DEF Spec

(* No period is closed with an empty table: the division is defined.       *)
THEOREM DivisionDefinedHolds == Spec => []DivisionDefined
<1>1. IndexInv => DivisionDefined
  BY DEF IndexInv
<1> QED  BY <1>1, IndexCorrect, PTL

(* No address has two records.                                             *)
THEOREM UniqueAddressesHolds == Spec => []UniqueAddresses
<1>1. IndexInv => UniqueAddresses
  BY DEF IndexInv
<1> QED  BY <1>1, IndexCorrect, PTL

-----------------------------------------------------------------------------
LEMMA SumNat == \A x, y \in Nat : x + y \in Nat
OBVIOUS

LEMMA RemainderNat ==
  ASSUME NEW w \in Nat \ {0}, NEW x \in Nat
  PROVE  x % w \in Nat
OBVIOUS

LEMMA SingletonSeq ==
  ASSUME NEW S, NEW x \in S
  PROVE  <<x>> \in Seq(S)
OBVIOUS

(* A packet changes a table of records into a table of records.            *)
LEMMA AddTypes ==
  ASSUME NEW n \in 0 .. FirstLength, NEW k \in Packet, Add(n, k),
         table1 \in [0 .. FirstLength - 1 -> Record]
  PROVE  /\ table1' \in [0 .. FirstLength - 1 -> Record]
         /\ next1' \in 0 .. FirstLength
<1> USE TrafficAssumption, InspectionAssumption
<1>1. k.saddr \in Sources /\ k.size \in Nat /\ k.is_tcp \in Nat /\ k.is_syn \in Nat
  BY DEF Packet, Packets
<1>2. TotLen(k) \in Nat
  BY <1>1 DEF TotLen
<1>3. ASSUME NEW r \in Record
      PROVE  Counted(r, k) \in Record
  <2>1. /\ r.saddr \in Sources \cup {NoAddr} /\ r.count \in Nat /\ r.tot_len \in Nat
        /\ r.tcp \in Nat /\ r.syn \in Nat
    BY DEF Record
  <2>2. \A x \in Nat : x % Word \in Nat
    <3>1. Word \in Nat \ {0}
      BY InspectionAssumption
    <3> QED  BY <3>1, RemainderNat, Zenon
  <2>3. /\ (r.count + 1) % Word \in Nat /\ (r.tot_len + TotLen(k)) % Word \in Nat
        /\ (r.tcp + k.is_tcp) % Word \in Nat /\ (r.syn + k.is_syn) % Word \in Nat
    <3>1. /\ r.count + 1 \in Nat /\ r.tot_len + TotLen(k) \in Nat
          /\ r.tcp + k.is_tcp \in Nat /\ r.syn + k.is_syn \in Nat
      <4>1. 1 \in Nat
        OBVIOUS
      <4> QED  BY <1>1, <1>2, <2>1, <4>1, SumNat, Zenon
    <3> QED  BY <2>2, <3>1, Zenon
  <2> QED  BY <2>1, <2>3 DEF Counted, Record
<1>4. CASE /\ table1' = [table1 EXCEPT ![FirstKnown(n, k)] = Counted(@, k)]
           /\ next1' = n
  <2> DEFINE j == FirstKnown(n, k)
  <2> HIDE DEF j
  <2>1. j \in 0 .. FirstLength - 1 => Counted(table1[j], k) \in Record
    BY <1>3
  <2> QED  BY <1>4, <2>1 DEF j
<1>5. CASE /\ table1' = [table1 EXCEPT ![n] = [saddr |-> k.saddr, count |-> 1,
                   tot_len |-> TotLen(k), tcp |-> k.is_tcp, syn |-> k.is_syn]]
           /\ next1' = n + 1 /\ n < FirstLength
  <2>1. [saddr |-> k.saddr, count |-> 1,
         tot_len |-> TotLen(k), tcp |-> k.is_tcp, syn |-> k.is_syn] \in Record
    BY <1>1, <1>2 DEF Record
  <2> QED  BY <1>5, <2>1
<1>6. CASE table1' = table1 /\ next1' = n
  BY <1>6
<1> QED  BY <1>4, <1>5, <1>6 DEF Add

(* A dump records the window; a full history loses its oldest one.         *)
LEMMA DumpTypes ==
  ASSUME TypeOK, NEW time, Dump(time)
  PROVE  /\ next2' \in 0 .. SecondLength
         /\ table2' = [i \in 0 .. SecondLength - 1 |-> table2'[i]]
         /\ closed' \in Seq(Seq(Packet)) /\ Len(closed') = next2'
<1> USE TrafficAssumption
<1>1. Shape
  BY DEF TypeOK, Shape
<1>2. /\ FreeIndex \in 0 .. SecondLength - 1
      /\ next2' = FreeIndex + 1
      /\ table2' = [i \in 0 .. SecondLength - 1 |-> table2'[i]]
  BY <1>1, DumpMoves
<1> DEFINE kept == IF next2 < SecondLength THEN closed ELSE Tail(closed)
<1>3. kept \in Seq(Seq(Packet)) /\ Len(kept) = FreeIndex
  <2>1. CASE next2 < SecondLength
    BY <2>1 DEF TypeOK, FreeIndex
  <2>2. CASE ~(next2 < SecondLength)
    <3>1. closed \in Seq(Seq(Packet)) /\ closed # <<>>
      BY <2>2 DEF TypeOK
    <3>2. Tail(closed) \in Seq(Seq(Packet)) /\ Len(Tail(closed)) = Len(closed) - 1
      BY <3>1
    <3> QED  BY <2>2, <3>2 DEF TypeOK, FreeIndex
  <2> QED  BY <2>1, <2>2
<1>4. closed' = Append(kept, window) /\ window \in Seq(Packet)
  BY DEF Dump, TypeOK
<1> HIDE DEF kept
<1>5. closed' \in Seq(Seq(Packet)) /\ Len(closed') = FreeIndex + 1
  BY <1>2, <1>3, <1>4
<1> QED  BY <1>2, <1>5

(* The state stays in its types; VecCorrect below adds those of a slice.   *)
THEOREM TypeCorrect == Spec => []TypeOK
<1> USE TrafficAssumption
<1>1. Init => TypeOK
  <2> SUFFICES ASSUME Init PROVE TypeOK
    OBVIOUS
  <2>1. ZeroRecord \in Record
    BY DEF ZeroRecord, Record
  <2>2. table1 \in [0 .. FirstLength - 1 -> Record]
    BY <2>1 DEF Init
  <2> QED  BY <2>2 DEF Init, TypeOK
<1>2. TypeOK /\ [Next]_vars => TypeOK'
  <2> SUFFICES ASSUME TypeOK, [Next]_vars PROVE TypeOK'
    OBVIOUS
  <2>1. ASSUME NEW k \in Packet, packets' = packets + 1, CatchInPeriod(k)
        PROVE  TypeOK'
    <3>1. /\ table1' \in [0 .. FirstLength - 1 -> Record]
          /\ next1' \in 0 .. FirstLength
      BY <2>1, AddTypes DEF CatchInPeriod, TypeOK
    <3>2. window' \in Seq(Packet)
      BY <2>1 DEF CatchInPeriod, TypeOK
    <3> QED  BY <2>1, <3>1, <3>2 DEF CatchInPeriod, TypeOK
  <2>2. ASSUME NEW k \in Packet, packets' = packets + 1,
               NEW time \in now .. now + 1, CatchFirst(k, time)
        PROVE  TypeOK'
    <3>1. /\ table1' \in [0 .. FirstLength - 1 -> Record]
          /\ next1' \in 0 .. FirstLength
      BY <2>2, AddTypes DEF CatchFirst, TypeOK
    <3>2. window' \in Seq(Packet)
      BY <2>2 DEF CatchFirst, TypeOK
    <3>3. now' \in Nat /\ from_time' \in 0 .. now'
      BY <2>2 DEF CatchFirst, TypeOK
    <3> QED  BY <2>2, <3>1, <3>2, <3>3 DEF CatchFirst, TypeOK
  <2>3. ASSUME NEW k \in Packet, packets' = packets + 1,
               NEW time \in now .. now + 1, NEW dumped, CatchAndDump(k, dumped, time)
        PROVE  TypeOK'
    <3>1. /\ table1' \in [0 .. FirstLength - 1 -> Record]
          /\ next1' \in 0 .. FirstLength
      <4>1. 0 \in 0 .. FirstLength /\ Add(0, k)
        BY <2>3 DEF CatchAndDump
      <4>2. table1 \in [0 .. FirstLength - 1 -> Record]
        BY DEF TypeOK
      <4> QED  BY <4>1, <4>2, AddTypes
    <3>2. window' \in Seq(Packet)
      <4>1. <<k>> \in Seq(Packet)
        BY SingletonSeq, Zenon
      <4>2. window' = <<k>>
        BY <2>3 DEF CatchAndDump
      <4> QED  BY <4>1, <4>2, Zenon
    <3>3. now' \in Nat /\ from_time' \in 0 .. now'
      BY <2>3 DEF CatchAndDump, TypeOK
    <3>4. /\ next2' \in 0 .. SecondLength
          /\ table2' = [i \in 0 .. SecondLength - 1 |-> table2'[i]]
          /\ closed' \in Seq(Seq(Packet)) /\ Len(closed') = next2'
      BY <2>3, DumpTypes DEF CatchAndDump
    <3>5. packets' \in Nat
      BY <2>3 DEF TypeOK
    <3> QED  BY <3>1, <3>2, <3>3, <3>4, <3>5 DEF TypeOK
  <2>4. CASE Tick
    BY <2>4 DEF Tick, TypeOK
  <2>5. CASE UNCHANGED vars
    BY <2>5 DEF vars, TypeOK
  <2> QED  BY <2>1, <2>2, <2>3, <2>4, <2>5 DEF Next, CatchTraffic
<1> QED  BY <1>1, <1>2, PTL DEF Spec

-----------------------------------------------------------------------------
(* What can be read of the second-layer table, as the history sees it. *)
Visible == [i \in 1 .. next2 |-> table2[i - 1]]

(* A sequence v one longer than h or than its tail, with the same elements *)
(* before the last one, is h remembering that one.                         *)
LEMMA RememberIs ==
  ASSUME NEW S, NEW m \in Nat \ {0}, NEW h \in Seq(S), Len(h) <= m, NEW v \in Seq(S),
         Len(v) = IF Len(h) < m THEN Len(h) + 1 ELSE Len(h),
         \A i \in 1 .. Len(v) - 1 : v[i] = IF Len(h) < m THEN h[i] ELSE h[i + 1]
  PROVE  v = Append(IF Len(h) = m THEN Tail(h) ELSE h, v[Len(v)])
<1> DEFINE l == Len(v)
           k == IF Len(h) = m THEN Tail(h) ELSE h
           a == Append(k, v[l])
<1>1. Len(h) \in Nat /\ l \in 1 .. m /\ v[l] \in S
  BY LenProperties, ElementOfSeq
<1>2. k \in Seq(S) /\ Len(k) = l - 1 /\ \A i \in 1 .. l - 1 : v[i] = k[i]
  <2>1. CASE Len(h) < m
    BY <1>1, <2>1
  <2>2. CASE ~(Len(h) < m)
    <3>1. Len(h) = m /\ h # <<>> /\ l = m
      BY <1>1, <2>2, EmptySeq
    <3>2. /\ Tail(h) \in Seq(S) /\ Len(Tail(h)) = m - 1
          /\ \A i \in 1 .. m - 1 : Tail(h)[i] = h[i + 1]
      BY <3>1, HeadTailProperties
    <3> QED  BY <2>2, <3>1, <3>2
  <2> QED  BY <2>1, <2>2
<1> HIDE DEF k
<1>3. /\ a \in Seq(S) /\ Len(a) = Len(k) + 1
      /\ \A i \in 1 .. Len(k) : a[i] = k[i]
      /\ a[Len(k) + 1] = v[l]
  BY <1>1, <1>2, AppendProperties
<1>4. Len(a) = Len(v) /\ \A i \in 1 .. Len(v) : v[i] = a[i]
  BY <1>1, <1>2, <1>3
<1> HIDE DEF a
<1>5. v = a
  BY <1>3, <1>4, SeqEqual
<1> QED  BY <1>5 DEF a, k

(* The second-layer table implements the sliding history: the slices that  *)
(* can be read are the last ones closed, in order, and stay as they are.   *)
THEOREM Implementation == Spec => Implements
<1>1. Init => SH!HInit
  <2> SUFFICES ASSUME Init PROVE SH!HInit
    OBVIOUS
  <2>1. next2 = 0
    BY DEF Init
  <2>2. [i \in 1 .. next2 |-> table2[i - 1]] = <<>>
    BY <2>1
  <2> QED  BY <2>2 DEF SH!HInit
<1>2. IndexInv /\ [Next]_vars => [SH!HNext]_Visible
  <2> SUFFICES ASSUME IndexInv, [Next]_vars PROVE [SH!HNext]_Visible
    OBVIOUS
  <2>1. ASSUME NEW time, Dump(time)
        PROVE  SH!HNext
    <3>1. /\ FreeIndex \in 0 .. SecondLength - 1
          /\ next2' = FreeIndex + 1
          /\ \A i \in 0 .. FreeIndex - 1 :
               table2'[i] = IF next2 < SecondLength THEN table2[i] ELSE table2[i + 1]
      BY <2>1, DumpMoves DEF IndexInv
    <3>2. next2 \in 0 .. SecondLength /\ SecondLength \in Nat \ {0}
      BY TrafficAssumption DEF IndexInv, Shape
    <3> DEFINE h == Visible
               v == Visible'
               S == {table2[i] : i \in 0 .. SecondLength - 1}
                      \cup {table2'[i] : i \in 0 .. SecondLength - 1}
    <3>3. next2' \in 1 .. SecondLength /\ next2' = IF next2 < SecondLength THEN next2 + 1 ELSE next2
      BY <3>1, <3>2 DEF FreeIndex
    <3>4. h \in Seq(S) /\ Len(h) = next2 /\ \A i \in 1 .. next2 : h[i] = table2[i - 1]
      <4>1. \A i \in 1 .. next2 : table2[i - 1] \in S
        BY <3>2
      <4> HIDE DEF S
      <4> QED  BY <3>2, <4>1 DEF Visible
    <3>5. v \in Seq(S) /\ Len(v) = next2' /\ \A i \in 1 .. next2' : v[i] = table2'[i - 1]
      <4>1. \A i \in 1 .. next2' : table2'[i - 1] \in S
        BY <3>2, <3>3
      <4> HIDE DEF S
      <4> QED  BY <3>3, <4>1 DEF Visible
    <3> HIDE DEF h, v, S
    <3>6. ASSUME NEW i \in 1 .. next2' - 1
          PROVE  v[i] = IF next2 < SecondLength THEN h[i] ELSE h[i + 1]
      <4>1. i - 1 \in 0 .. FreeIndex - 1 /\ i \in 1 .. next2' /\ (i - 1) + 1 = i /\ (i + 1) - 1 = i
        BY <3>1, <3>3
      <4>2. v[i] = table2'[i - 1]
        BY <3>5, <4>1
      <4>3. CASE next2 < SecondLength
        <5>1. i \in 1 .. next2
          BY <3>2, <3>3, <4>3
        <5> QED  BY <3>1, <3>4, <4>1, <4>2, <4>3, <5>1
      <4>4. CASE ~(next2 < SecondLength)
        <5>1. i + 1 \in 1 .. next2
          BY <3>2, <3>3, <4>4
        <5> QED  BY <3>1, <3>4, <4>1, <4>2, <4>4, <5>1
      <4> QED  BY <4>3, <4>4
    <3>7. v = Append(IF Len(h) = SecondLength THEN Tail(h) ELSE h, v[Len(v)])
      <4>1. /\ SecondLength \in Nat \ {0} /\ h \in Seq(S) /\ Len(h) <= SecondLength /\ v \in Seq(S)
            /\ Len(v) = IF Len(h) < SecondLength THEN Len(h) + 1 ELSE Len(h)
        BY <3>2, <3>3, <3>4, <3>5
      <4>2. \A i \in 1 .. Len(v) - 1 : v[i] = IF Len(h) < SecondLength THEN h[i] ELSE h[i + 1]
        BY <3>4, <3>5, <3>6
      <4> QED  BY <4>1, <4>2, RememberIs
    <3>8. Len(v) > 0 /\ v = SH!Remember(h, v[Len(v)])
      BY <3>3, <3>5, <3>7 DEF SH!Remember
    <3> QED  BY <3>8 DEF SH!HNext, h, v, Visible
  <2>2. ASSUME UNCHANGED <<table2, next2>>
        PROVE  UNCHANGED Visible
    BY <2>2 DEF Visible
  <2>3. Dump(0) \/ (\E time : Dump(time)) \/ UNCHANGED <<table2, next2>>
    BY DEF Next, Tick, CatchTraffic, CatchInPeriod, CatchFirst, CatchAndDump, vars
  <2> QED  BY <2>1, <2>2, <2>3
<1> QED  BY <1>1, <1>2, IndexCorrect, PTL DEF Spec, Implements, SH!HSpec, Visible
-----------------------------------------------------------------------------
(* FirstSeen is the first packet of an address in a window.                *)
LEMMA FirstSeenUnique ==
  ASSUME NEW S, NEW w \in Seq(S), NEW a, NEW n \in DOMAIN w, w[n].saddr = a,
         \A m \in 1 .. n - 1 : w[m].saddr # a
  PROVE  FirstSeen(w, a) = n
<1> DEFINE P(m) == w[m].saddr = a /\ \A l \in 1 .. m - 1 : w[l].saddr # a
<1>1. Len(w) \in Nat /\ DOMAIN w = 1 .. Len(w)
  BY LenProperties
<1>2. P(n)
  OBVIOUS
<1>3. ASSUME NEW m \in DOMAIN w, P(m)
      PROVE  m = n
  <2>1. m \in Nat /\ n \in Nat /\ m >= 1 /\ n >= 1
    BY <1>1
  <2>2. CASE m < n
    <3>1. m \in 1 .. n - 1
      BY <2>1, <2>2
    <3> QED  BY <1>3, <3>1
  <2>3. CASE n < m
    <3>1. n \in 1 .. m - 1
      BY <2>1, <2>3
    <3> QED  BY <1>3, <3>1
  <2> QED  BY <2>1, <2>2, <2>3
<1>4. FirstSeen(w, a) = CHOOSE m \in DOMAIN w : P(m)
  BY DEF FirstSeen
<1> HIDE DEF P
<1> QED  BY <1>2, <1>3, <1>4

LEMMA FirstSeenIs ==
  ASSUME NEW S, NEW w \in Seq(S), NEW a \in Addresses(w)
  PROVE  /\ FirstSeen(w, a) \in DOMAIN w
         /\ w[FirstSeen(w, a)].saddr = a
         /\ \A m \in 1 .. FirstSeen(w, a) - 1 : w[m].saddr # a
<1> DEFINE C == {m \in DOMAIN w : w[m].saddr = a}
<1>1. Len(w) \in Nat /\ DOMAIN w = 1 .. Len(w)
  BY LenProperties
<1>2. PICK n \in C : \A j \in 1 .. n - 1 : j \notin C
  <2>1. C # {} /\ C \in SUBSET (1 .. Len(w))
    BY <1>1 DEF Addresses
  <2> HIDE DEF C
  <2> QED  BY <1>1, <2>1, LeastOf
<1>3. n \in DOMAIN w /\ w[n].saddr = a
  OBVIOUS
<1>4. ASSUME NEW j \in 1 .. n - 1
      PROVE  w[j].saddr # a
  <2>1. j \in DOMAIN w
    BY <1>1, <1>3
  <2> QED  BY <1>2, <2>1
<1>5. FirstSeen(w, a) = n
  BY <1>3, <1>4, FirstSeenUnique
<1> QED  BY <1>3, <1>4, <1>5

(* One more packet leaves the first packets of the others as they are.     *)
LEMMA FirstSeenAppend ==
  ASSUME NEW S, NEW w \in Seq(S), NEW k \in S
  PROVE  /\ Addresses(Append(w, k)) = Addresses(w) \cup {k.saddr}
         /\ \A a \in Addresses(w) :
              FirstSeen(Append(w, k), a) = FirstSeen(w, a) /\ FirstSeen(w, a) \in 1 .. Len(w)
         /\ k.saddr \notin Addresses(w) => FirstSeen(Append(w, k), k.saddr) = Len(w) + 1
<1> DEFINE v == Append(w, k)
           l == Len(w)
<1>1. /\ v \in Seq(S) /\ l \in Nat /\ Len(v) = l + 1
      /\ DOMAIN v = 1 .. l + 1 /\ DOMAIN w = 1 .. l
      /\ \A i \in 1 .. l : v[i] = w[i]
      /\ v[l + 1] = k
  BY AppendProperties, LenProperties
<1> HIDE DEF v, l
<1>2. Addresses(v) = Addresses(w) \cup {k.saddr}
  <2>1. 1 .. l + 1 = (1 .. l) \cup {l + 1}
    BY <1>1
  <2> QED  BY <1>1, <2>1 DEF Addresses
<1>3. ASSUME NEW a \in Addresses(w)
      PROVE  FirstSeen(v, a) = FirstSeen(w, a) /\ FirstSeen(w, a) \in 1 .. l
  <2> DEFINE n == FirstSeen(w, a)
  <2>1. n \in 1 .. l /\ w[n].saddr = a /\ \A m \in 1 .. n - 1 : w[m].saddr # a
    BY <1>1, FirstSeenIs
  <2> HIDE DEF n
  <2>2. n \in DOMAIN v /\ v[n].saddr = a
    BY <1>1, <2>1
  <2>3. \A m \in 1 .. n - 1 : m \in 1 .. l
    BY <1>1, <2>1
  <2>4. \A m \in 1 .. n - 1 : v[m].saddr # a
    BY <1>1, <2>1, <2>3
  <2>5. FirstSeen(v, a) = n
    BY <1>1, <2>2, <2>4, FirstSeenUnique
  <2> QED  BY <2>1, <2>5 DEF n
<1>4. ASSUME k.saddr \notin Addresses(w)
      PROVE  FirstSeen(v, k.saddr) = l + 1
  <2>1. \A m \in 1 .. l : v[m].saddr # k.saddr
    BY <1>1, <1>4 DEF Addresses
  <2>2. l + 1 \in DOMAIN v /\ v[l + 1].saddr = k.saddr /\ (l + 1) - 1 = l
    BY <1>1
  <2> DEFINE n == l + 1
  <2>3. n \in DOMAIN v /\ v[n].saddr = k.saddr /\ \A m \in 1 .. n - 1 : v[m].saddr # k.saddr
    BY <2>1, <2>2
  <2> HIDE DEF n
  <2>4. FirstSeen(v, k.saddr) = n
    BY <1>1, <2>3, FirstSeenUnique
  <2> QED  BY <2>4 DEF n
<1> QED  BY <1>2, <1>3, <1>4 DEF v, l

(* The packets of an address in a window with one more.                    *)
LEMMA OfAppend ==
  ASSUME NEW S, NEW w \in Seq(S), NEW k \in S, NEW a
  PROVE  Of(Append(w, k), a) = IF k.saddr = a THEN Of(w, a) \cup {Len(w) + 1} ELSE Of(w, a)
<1> DEFINE v == Append(w, k)
           l == Len(w)
<1>1. /\ l \in Nat /\ DOMAIN v = 1 .. l + 1 /\ DOMAIN w = 1 .. l
      /\ \A i \in 1 .. l : v[i] = w[i]
      /\ v[l + 1] = k
  BY AppendProperties, LenProperties
<1>2. 1 .. l + 1 = (1 .. l) \cup {l + 1}
  BY <1>1
<1> HIDE DEF v, l
<1>3. Of(v, a) = IF k.saddr = a THEN Of(w, a) \cup {l + 1} ELSE Of(w, a)
  BY <1>1, <1>2 DEF Of
<1> QED  BY <1>3 DEF v, l

-----------------------------------------------------------------------------
(* What a packet adds to each counter of its record, and the sum of it     *)
(* over a set of packets of a window.                                      *)
Fields == {"count", "tot_len", "tcp", "syn"}
Worth(k) == [count |-> 1, tot_len |-> TotLen(k), tcp |-> k.is_tcp, syn |-> k.is_syn]
Worths(w, field) == [n \in DOMAIN w |-> Worth(w[n])[field]]
Amount(w, S, field) == SumFunctionOnSet(Worths(w, field), S)

LEMMA WorthSmall ==
  ASSUME NEW k \in Packet, NEW field \in Fields
  PROVE  Worth(k)[field] \in 0 .. Word - 1
<1>1. k.size \in Nat
  BY TrafficAssumption DEF Packet, Packets
<1>2. k.is_tcp \in {0, 1}
  BY DEF Packet, Packets
<1>3. k.is_syn \in {0, 1}
  BY DEF Packet, Packets
<1>4. TotLen(k) \in Nat
  BY <1>1 DEF TotLen
<1>5. TotLen(k) \in 0 .. Word - 1
  BY <1>4, WidthAssumption, InspectionAssumption
<1>6. 0 \in 0 .. Word - 1 /\ 1 \in 0 .. Word - 1
  BY WidthAssumption, InspectionAssumption
<1>7. \/ Worth(k)[field] = 1 \/ Worth(k)[field] = TotLen(k)
      \/ Worth(k)[field] = k.is_tcp \/ Worth(k)[field] = k.is_syn
  <2>1. /\ Worth(k).count = 1 /\ Worth(k).tot_len = TotLen(k)
        /\ Worth(k).tcp = k.is_tcp /\ Worth(k).syn = k.is_syn
    BY Zenon DEF Worth
  <2>2. field = "count" \/ field = "tot_len" \/ field = "tcp" \/ field = "syn"
    BY DEF Fields
  <2> QED  BY <2>1, <2>2, Zenon
<1> QED  BY <1>2, <1>3, <1>5, <1>6, <1>7

LEMMA WorthsIs ==
  ASSUME NEW w \in Seq(Packet), NEW field \in Fields
  PROVE  \A n \in DOMAIN w : Worths(w, field)[n] = Worth(w[n])[field] /\ Worths(w, field)[n] \in Nat
<1>1. \A n \in DOMAIN w : w[n] \in Packet
  BY LenProperties, ElementOfSeq
<1>2. \A n \in DOMAIN w : Worth(w[n])[field] \in 0 .. Word - 1
  BY <1>1, WorthSmall
<1>3. \A x \in 0 .. Word - 1 : x \in Nat
  BY InspectionAssumption
<1> QED  BY <1>2, <1>3 DEF Worths

LEMMA OfFinite ==
  ASSUME NEW S, NEW w \in Seq(S), NEW a
  PROVE  IsFiniteSet(DOMAIN w) /\ Of(w, a) \in SUBSET DOMAIN w /\ IsFiniteSet(Of(w, a))
<1>1. Len(w) \in Nat /\ DOMAIN w = 1 .. Len(w)
  BY LenProperties
<1>2. IsFiniteSet(DOMAIN w)
  BY <1>1, FS_Interval
<1>3. Of(w, a) \in SUBSET DOMAIN w
  BY DEF Of
<1> QED  BY <1>2, <1>3, FS_Subset

LEMMA AmountNatural ==
  ASSUME NEW w \in Seq(Packet), NEW field \in Fields, NEW S \in SUBSET DOMAIN w
  PROVE  Amount(w, S, field) \in Nat
<1>1. IsFiniteSet(S)
  BY OfFinite, FS_Subset
<1>2. \A n \in S : Worths(w, field)[n] \in Nat
  BY WorthsIs
<1> QED  BY <1>1, <1>2, SumNatural DEF Amount

(* One more packet adds its worth to the amount of its address.            *)
LEMMA AmountAppend ==
  ASSUME NEW w \in Seq(Packet), NEW k \in Packet, NEW field \in Fields, NEW a
  PROVE  Amount(Append(w, k), Of(Append(w, k), a), field) =
           IF k.saddr = a THEN Amount(w, Of(w, a), field) + Worth(k)[field]
           ELSE Amount(w, Of(w, a), field)
<1> DEFINE v == Append(w, k)
           l == Len(w)
           f == Worths(v, field)
           g == Worths(w, field)
           S == Of(w, a)
<1>1. /\ v \in Seq(Packet) /\ l \in Nat /\ DOMAIN v = 1 .. l + 1 /\ DOMAIN w = 1 .. l
      /\ \A i \in 1 .. l : v[i] = w[i]
      /\ v[l + 1] = k
  BY AppendProperties, LenProperties
<1>2. Of(v, a) = IF k.saddr = a THEN S \cup {l + 1} ELSE S
  BY OfAppend
<1>3. IsFiniteSet(S) /\ S \in SUBSET (1 .. l)
  BY <1>1, OfFinite
<1> HIDE DEF v, l, S
<1>4. \A i \in 1 .. l : f[i] = g[i]
  BY <1>1, WorthsIs
<1>5. f[l + 1] = Worth(k)[field]
  BY <1>1, WorthsIs
<1>6. \A i \in S \cup {l + 1} : f[i] \in Nat
  BY <1>1, <1>3, WorthsIs
<1> HIDE DEF f, g
<1>7. SumFunctionOnSet(f, S) = SumFunctionOnSet(g, S)
  BY <1>3, <1>4, SumAgrees
<1>8. SumFunctionOnSet(f, S \cup {l + 1}) = SumFunctionOnSet(f, S) + f[l + 1]
  <2> DEFINE x == l + 1
  <2>1. x \notin S
    BY <1>1, <1>3
  <2>2. \A i \in S \cup {x} : f[i] \in Nat
    BY <1>6
  <2> HIDE DEF x
  <2>3. SumFunctionOnSet(f, S \cup {x}) = SumFunctionOnSet(f, S) + f[x]
    BY <1>3, <2>1, <2>2, SumAdd
  <2> QED  BY <2>3 DEF x
<1>9. SumFunctionOnSet(f, Of(v, a)) =
        IF k.saddr = a THEN SumFunctionOnSet(g, S) + Worth(k)[field] ELSE SumFunctionOnSet(g, S)
  BY <1>2, <1>5, <1>7, <1>8
<1> QED  BY <1>9 DEF Amount, f, g, v, l, S

(* An address that is not in a window has no packets there.                *)
LEMMA AmountNone ==
  ASSUME NEW w, NEW field, NEW a, a \notin Addresses(w)
  PROVE  Amount(w, Of(w, a), field) = 0
<1>1. Of(w, a) = {}
  BY DEF Of, Addresses
<1> QED  BY <1>1, SumEmpty DEF Amount

-----------------------------------------------------------------------------
(* The first n records of t say of the window w: their addresses are the   *)
(* first to appear in it, all of them unless the table is full, and the    *)
(* counters are the amounts of the packets of the address, in words.       *)
Recorded(t, n) == {t[i].saddr : i \in 0 .. n - 1}
Says(t, n, w) ==
  /\ Recorded(t, n) \subseteq Addresses(w)
  /\ \A i \in 0 .. n - 1 : \A field \in Fields :
       t[i][field] = Amount(w, Of(w, t[i].saddr), field) % Word
  /\ \A a \in Addresses(w) \ Recorded(t, n) :
       /\ n = FirstLength
       /\ \A i \in 0 .. n - 1 : FirstSeen(w, t[i].saddr) < FirstSeen(w, a)

LEMMA CountedIs ==
  ASSUME NEW r, NEW k, NEW field \in Fields
  PROVE  /\ Counted(r, k)[field] = (r[field] + Worth(k)[field]) % Word
         /\ Counted(r, k).saddr = r.saddr
<1>1. /\ Counted(r, k).saddr = r.saddr
      /\ Counted(r, k).count = (r.count + 1) % Word
      /\ Counted(r, k).tot_len = (r.tot_len + TotLen(k)) % Word
      /\ Counted(r, k).tcp = (r.tcp + k.is_tcp) % Word
      /\ Counted(r, k).syn = (r.syn + k.is_syn) % Word
  BY Zenon DEF Counted
<1>2. /\ Worth(k).count = 1 /\ Worth(k).tot_len = TotLen(k)
      /\ Worth(k).tcp = k.is_tcp /\ Worth(k).syn = k.is_syn
  BY Zenon DEF Worth
<1>3. field = "count" \/ field = "tot_len" \/ field = "tcp" \/ field = "syn"
  BY DEF Fields
<1> QED  BY <1>1, <1>2, <1>3, Zenon

Opened(k) == [saddr |-> k.saddr, count |-> 1,
              tot_len |-> TotLen(k), tcp |-> k.is_tcp, syn |-> k.is_syn]

LEMMA OpenedIs ==
  ASSUME NEW k, NEW field \in Fields
  PROVE  Opened(k)[field] = Worth(k)[field] /\ Opened(k).saddr = k.saddr
<1>1. /\ Opened(k).saddr = k.saddr /\ Opened(k).count = 1 /\ Opened(k).tot_len = TotLen(k)
      /\ Opened(k).tcp = k.is_tcp /\ Opened(k).syn = k.is_syn
  BY Zenon DEF Opened
<1>2. /\ Worth(k).count = 1 /\ Worth(k).tot_len = TotLen(k)
      /\ Worth(k).tcp = k.is_tcp /\ Worth(k).syn = k.is_syn
  BY Zenon DEF Worth
<1>3. field = "count" \/ field = "tot_len" \/ field = "tcp" \/ field = "syn"
  BY DEF Fields
<1> QED  BY <1>1, <1>2, <1>3, Zenon

(* A packet counted, opening a record or finding none free.               *)
LEMMA AddSays ==
  ASSUME NEW n \in 0 .. FirstLength, NEW k \in Packet, NEW w \in Seq(Packet),
         table1 = [i \in 0 .. FirstLength - 1 |-> table1[i]],
         Distinct(table1, n), Says(table1, n, w), Add(n, k)
  PROVE  Says(table1', next1', Append(w, k))
<1> DEFINE v == Append(w, k)
           t == table1
           u == table1'
           l == Len(w)
<1>1. FirstLength \in Nat /\ n \in Nat /\ \A i \in 0 .. n - 1 : i \in 0 .. FirstLength - 1
  BY TrafficAssumption
<1>2. Addresses(v) = Addresses(w) \cup {k.saddr}
  BY FirstSeenAppend
<1>3. \A a \in Addresses(w) : FirstSeen(v, a) = FirstSeen(w, a) /\ FirstSeen(w, a) \in 1 .. l
  BY FirstSeenAppend
<1>4. k.saddr \notin Addresses(w) => FirstSeen(v, k.saddr) = l + 1
  BY FirstSeenAppend
<1>5. l \in Nat
  BY LenProperties
<1>6. \A a : \A field \in Fields :
        Amount(v, Of(v, a), field) =
          IF k.saddr = a THEN Amount(w, Of(w, a), field) + Worth(k)[field]
          ELSE Amount(w, Of(w, a), field)
  BY AmountAppend
<1>7. \A a : \A field \in Fields : Amount(w, Of(w, a), field) \in Nat
  <2>1. \A a : Of(w, a) \in SUBSET DOMAIN w
    BY OfFinite
  <2> QED  BY <2>1, AmountNatural
<1>8. \A field \in Fields : Worth(k)[field] \in 0 .. Word - 1 /\ Worth(k)[field] \in Nat
  <2>1. \A field \in Fields : Worth(k)[field] \in 0 .. Word - 1
    BY WorthSmall
  <2>2. Word \in Nat \ {0}
    BY InspectionAssumption
  <2> QED  BY <2>1, <2>2
<1>9. /\ Recorded(t, n) \subseteq Addresses(w)
      /\ \A i \in 0 .. n - 1 : \A field \in Fields :
           t[i][field] = Amount(w, Of(w, t[i].saddr), field) % Word
      /\ \A a \in Addresses(w) \ Recorded(t, n) :
           /\ n = FirstLength
           /\ \A i \in 0 .. n - 1 : FirstSeen(w, t[i].saddr) < FirstSeen(w, a)
  BY DEF Says
<1>10. \A i \in 0 .. n - 1 : t[i].saddr \in Addresses(w)
  BY <1>9 DEF Recorded
<1>11. Distinct(t, n)
  OBVIOUS
<1> HIDE DEF v, l
<1>12. CASE /\ Known(n, k) # {}
            /\ table1' = [table1 EXCEPT ![FirstKnown(n, k)] = Counted(@, k)]
            /\ next1' = n
  <2> DEFINE j == FirstKnown(n, k)
  <2>1. j \in 0 .. n - 1 /\ t[j].saddr = k.saddr
    <3>1. PICK i \in Known(n, k) : TRUE
      BY <1>12
    <3>2. Known(n, k) = {i}
      BY <1>11 DEF Known, Distinct
    <3>3. i \in 0 .. n - 1 /\ t[i].saddr = k.saddr /\ i <= i
      BY <1>1 DEF Known
    <3>4. FirstKnown(n, k) = CHOOSE m \in Known(n, k) : \A o \in Known(n, k) : m <= o
      BY DEF FirstKnown
    <3>5. FirstKnown(n, k) = i
      <4>1. \A m \in Known(n, k) : (\A o \in Known(n, k) : m <= o) <=> m = i
        BY <3>2, <3>3
      <4> QED  BY <3>1, <3>4, <4>1, Zenon
    <3> QED  BY <3>3, <3>5
  <2> HIDE DEF j
  <2>2. \A i \in 0 .. n - 1 : u[i] = IF i = j THEN Counted(t[i], k) ELSE t[i]
    BY <1>1, <1>12 DEF j
  <2>3. \A i \in 0 .. n - 1 : u[i].saddr = t[i].saddr
    <3>1. \A r : Counted(r, k).saddr = r.saddr
      BY Zenon DEF Counted
    <3> QED  BY <2>2, <3>1
  <2>4. Recorded(u, n) = Recorded(t, n) /\ k.saddr \in Recorded(t, n)
    BY <2>1, <2>3 DEF Recorded
  <2>5. ASSUME NEW i \in 0 .. n - 1, NEW field \in Fields
        PROVE  u[i][field] = Amount(v, Of(v, u[i].saddr), field) % Word
    <3>1. CASE i = j
      <4> DEFINE a == Amount(w, Of(w, k.saddr), field)
                 b == Worth(k)[field]
      <4>1. a \in Nat /\ b \in Nat /\ Word \in Nat \ {0}
        BY <1>7, <1>8, InspectionAssumption
      <4>2. u[i][field] = (t[i][field] + b) % Word
        <5>1. u[i] = Counted(t[i], k)
          BY <2>2, <3>1
        <5> QED  BY <5>1, CountedIs
      <4>3. t[i][field] = a % Word
        BY <1>9, <2>1, <3>1
      <4>4. Amount(v, Of(v, u[i].saddr), field) = a + b
        BY <1>6, <2>1, <2>3, <3>1
      <4> HIDE DEF a, b
      <4>5. ((a % Word) + b) % Word = (a + b) % Word
        BY <4>1, RemainderAdd
      <4> QED  BY <4>2, <4>3, <4>4, <4>5
    <3>2. CASE i # j
      <4>1. u[i] = t[i]
        BY <2>2, <3>2
      <4>2. k.saddr # t[i].saddr
        BY <1>11, <2>1, <3>2 DEF Distinct
      <4>3. Amount(v, Of(v, t[i].saddr), field) = Amount(w, Of(w, t[i].saddr), field)
        BY <1>6, <4>2
      <4>4. t[i][field] = Amount(w, Of(w, t[i].saddr), field) % Word
        BY <1>9
      <4> QED  BY <4>1, <4>3, <4>4
    <3> QED  BY <3>1, <3>2
  <2>6. ASSUME NEW a \in Addresses(v) \ Recorded(u, n)
        PROVE  /\ n = FirstLength
               /\ \A i \in 0 .. n - 1 : FirstSeen(v, u[i].saddr) < FirstSeen(v, a)
    <3>1. a \in Addresses(w) \ Recorded(t, n)
      BY <1>2, <2>4
    <3>2. FirstSeen(v, a) = FirstSeen(w, a)
      BY <1>3, <3>1
    <3>3. \A i \in 0 .. n - 1 : FirstSeen(v, u[i].saddr) = FirstSeen(w, t[i].saddr)
      BY <1>3, <1>10, <2>3
    <3> QED  BY <1>9, <3>1, <3>2, <3>3
  <2>7. Recorded(u, n) \subseteq Addresses(v)
    BY <1>2, <1>9, <2>4
  <2> QED  BY <1>12, <2>5, <2>6, <2>7 DEF Says, v
<1>13. CASE /\ Known(n, k) = {} /\ n < FirstLength
            /\ table1' = [table1 EXCEPT ![n] = [saddr |-> k.saddr, count |-> 1,
                    tot_len |-> TotLen(k), tcp |-> k.is_tcp, syn |-> k.is_syn]]
            /\ next1' = n + 1
  <2>1. \A i \in 0 .. n - 1 : t[i].saddr # k.saddr
    BY <1>13 DEF Known
  <2>2. Addresses(w) = Recorded(t, n)
    <3>1. n # FirstLength
      BY <1>1, <1>13
    <3> QED  BY <1>9, <3>1
  <2>3. k.saddr \notin Addresses(w)
    BY <2>1, <2>2 DEF Recorded
  <2>4. n \in 0 .. FirstLength - 1
    BY <1>1, <1>13
  <2>5. u[n] = Opened(k) /\ \A i \in 0 .. n - 1 : u[i] = t[i]
    <3>1. \A i \in 0 .. n - 1 : i # n
      BY <1>1
    <3>2. u = [table1 EXCEPT ![n] = Opened(k)]
      BY <1>13 DEF Opened
    <3> QED  BY <1>1, <2>4, <3>1, <3>2
  <2>6. (0 .. (n + 1) - 1) = (0 .. n - 1) \cup {n}
    BY <1>1
  <2>7. Opened(k).saddr = k.saddr
    BY Zenon DEF Opened
  <2>8. Recorded(u, n + 1) = Recorded(t, n) \cup {k.saddr}
    BY <2>5, <2>6, <2>7 DEF Recorded
  <2>9. Recorded(u, n + 1) = Addresses(v)
    BY <1>2, <2>2, <2>8
  <2>10. ASSUME NEW i \in 0 .. (n + 1) - 1, NEW field \in Fields
         PROVE  u[i][field] = Amount(v, Of(v, u[i].saddr), field) % Word
    <3>1. CASE i = n
      <4> DEFINE b == Worth(k)[field]
      <4>1. u[i].saddr = k.saddr /\ u[i][field] = b
        BY <2>5, <3>1, OpenedIs
      <4>2. Amount(w, Of(w, k.saddr), field) = 0
        BY <2>3, AmountNone
      <4>3. Amount(v, Of(v, k.saddr), field) = b
        BY <1>6, <1>8, <4>2
      <4>4. b \in 0 .. Word - 1 /\ Word \in Nat \ {0}
        BY <1>8, InspectionAssumption
      <4> HIDE DEF b
      <4>5. b % Word = b
        BY <4>4, SmallRemainder
      <4> QED  BY <4>1, <4>3, <4>5
    <3>2. CASE i # n
      <4>1. i \in 0 .. n - 1
        BY <2>6, <3>2
      <4>2. u[i] = t[i] /\ k.saddr # t[i].saddr
        BY <2>1, <2>5, <4>1
      <4>3. Amount(v, Of(v, t[i].saddr), field) = Amount(w, Of(w, t[i].saddr), field)
        BY <1>6, <4>2
      <4>4. t[i][field] = Amount(w, Of(w, t[i].saddr), field) % Word
        BY <1>9, <4>1
      <4> QED  BY <4>2, <4>3, <4>4
    <3> QED  BY <3>1, <3>2
  <2> QED  BY <1>13, <2>9, <2>10 DEF Says, v
<1>14. CASE Known(n, k) = {} /\ n >= FirstLength /\ table1' = table1 /\ next1' = n
  <2>1. n = FirstLength
    BY <1>1, <1>14
  <2>2. \A i \in 0 .. n - 1 : t[i].saddr # k.saddr
    BY <1>14 DEF Known
  <2>3. ASSUME NEW i \in 0 .. n - 1, NEW field \in Fields
        PROVE  t[i][field] = Amount(v, Of(v, t[i].saddr), field) % Word
    <3>1. Amount(v, Of(v, t[i].saddr), field) = Amount(w, Of(w, t[i].saddr), field)
      BY <1>6, <2>2
    <3>2. t[i][field] = Amount(w, Of(w, t[i].saddr), field) % Word
      BY <1>9
    <3> QED  BY <3>1, <3>2
  <2>4. ASSUME NEW a \in Addresses(v) \ Recorded(t, n), NEW i \in 0 .. n - 1
        PROVE  FirstSeen(v, t[i].saddr) < FirstSeen(v, a)
    <3>1. FirstSeen(v, t[i].saddr) = FirstSeen(w, t[i].saddr) /\ FirstSeen(w, t[i].saddr) \in 1 .. l
      BY <1>3, <1>10
    <3>2. CASE a \in Addresses(w)
      <4>1. FirstSeen(v, a) = FirstSeen(w, a)
        BY <1>3, <3>2
      <4>2. FirstSeen(w, t[i].saddr) < FirstSeen(w, a)
        BY <1>9, <3>2
      <4> QED  BY <3>1, <4>1, <4>2
    <3>3. CASE a \notin Addresses(w)
      <4>1. a = k.saddr /\ FirstSeen(v, a) = l + 1
        BY <1>2, <1>4, <3>3
      <4> QED  BY <1>5, <3>1, <4>1
    <3> QED  BY <3>2, <3>3
  <2>5. Recorded(t, n) \subseteq Addresses(v)
    BY <1>2, <1>9
  <2> QED  BY <1>14, <2>1, <2>3, <2>4, <2>5 DEF Says, v
<1> QED  BY <1>12, <1>13, <1>14 DEF Add

(* n records with distinct addresses have n addresses.                     *)
LEMMA RecordedCount ==
  ASSUME NEW n \in Nat, NEW t, Distinct(t, n)
  PROVE  IsFiniteSet(Recorded(t, n)) /\ Cardinality(Recorded(t, n)) = n
<1> DEFINE I == 0 .. n - 1
           R == Recorded(t, n)
           f == [i \in I |-> t[i].saddr]
<1>1. IsFiniteSet(I) /\ Cardinality(I) = n
  BY FS_Interval
<1>2. R = {f[i] : i \in I}
  BY DEF Recorded
<1>3. \A i, j \in I : f[i] = f[j] => i = j
  BY DEF Distinct
<1> HIDE DEF I, R
<1>4. f \in [I -> R]
  BY <1>2
<1>5. f \in Bijection(I, R)
  <2> HIDE DEF f
  <2>1. \A y \in R : \E x \in I : f[x] = y
    BY <1>2
  <2>2. f \in Injection(I, R)
    BY <1>3, <1>4, Zenon DEF Injection, IsInjective
  <2>3. f \in Surjection(I, R)
    BY <1>4, <2>1, Zenon DEF Surjection
  <2> QED  BY <2>2, <2>3, Zenon DEF Bijection
<1>6. ExistsBijection(I, R)
  BY <1>5, Zenon DEF ExistsBijection
<1>7. IsFiniteSet(R) /\ Cardinality(R) = Cardinality(I)
  BY <1>1, <1>6, FS_Bijection
<1> QED  BY <1>1, <1>7 DEF R

(* What the records say is what TableFaithful asks for.                    *)
LEMMA SaysAdmitted ==
  ASSUME NEW n \in 0 .. FirstLength, NEW t, NEW w \in Seq(Packet), Distinct(t, n), Says(t, n, w)
  PROVE  Recorded(t, n) = Admitted(w)
<1> DEFINE R == Recorded(t, n)
           Earlier(a) == {b \in Addresses(w) : FirstSeen(w, b) < FirstSeen(w, a)}
<1>1. FirstLength \in Nat /\ n \in Nat /\ n <= FirstLength
  BY TrafficAssumption
<1>2. IsFiniteSet(R) /\ Cardinality(R) = n
  BY <1>1, RecordedCount
<1>3. R \subseteq Addresses(w)
  BY DEF Says
<1>4. \A a \in Addresses(w) : FirstSeen(w, a) \in Nat
  <2>1. DOMAIN w \subseteq Nat
    BY LenProperties
  <2> QED  BY <2>1, FirstSeenIs
<1>5. IsFiniteSet(Addresses(w))
  <2> DEFINE D == DOMAIN w
             A == Addresses(w)
             f == [m \in D |-> w[m].saddr]
  <2>1. IsFiniteSet(D)
    BY OfFinite
  <2>2. A = {f[m] : m \in D}
    BY DEF Addresses
  <2> HIDE DEF D, A
  <2>3. f \in Surjection(D, A)
    <3>1. f \in [D -> A]
      BY <2>2
    <3> HIDE DEF f
    <3> QED  BY <2>2, <3>1 DEF Surjection
  <2>4. IsFiniteSet(A)
    BY <2>1, <2>3, FS_Surjection
  <2> QED  BY <2>4 DEF A
<1>6. ASSUME NEW a \in R
      PROVE  a \in Admitted(w)
  <2>1. a \in Addresses(w) /\ FirstSeen(w, a) \in Nat
    BY <1>3, <1>4
  <2>2. Earlier(a) \subseteq R \ {a}
    <3> SUFFICES ASSUME NEW b \in Earlier(a), b \notin R PROVE FALSE
      BY <2>1
    <3>1. b \in Addresses(w) \ R /\ FirstSeen(w, b) < FirstSeen(w, a) /\ FirstSeen(w, b) \in Nat
      BY <1>4
    <3>2. PICK i \in 0 .. n - 1 : a = t[i].saddr
      BY DEF Recorded
    <3>3. FirstSeen(w, t[i].saddr) < FirstSeen(w, b)
      BY <3>1 DEF Says
    <3> QED  BY <2>1, <3>1, <3>2, <3>3
  <2>3. IsFiniteSet(R \ {a}) /\ Cardinality(R \ {a}) = n - 1
    BY <1>2, FS_RemoveElement
  <2>4. IsFiniteSet(Earlier(a)) /\ Cardinality(Earlier(a)) <= n - 1
    <3> HIDE DEF R, Earlier
    <3> QED  BY <2>2, <2>3, FS_Subset
  <2>5. Cardinality(Earlier(a)) \in Nat
    <3> HIDE DEF Earlier
    <3> QED  BY <2>4, FS_CardinalityType
  <2>6. Cardinality(Earlier(a)) < FirstLength
    <3> HIDE DEF Earlier
    <3> QED  BY <1>1, <2>4, <2>5
  <2> QED  BY <2>1, <2>6 DEF Admitted
<1>7. ASSUME NEW a \in Addresses(w) \ R
      PROVE  a \notin Admitted(w)
  <2>1. n = FirstLength /\ \A i \in 0 .. n - 1 : FirstSeen(w, t[i].saddr) < FirstSeen(w, a)
    BY <1>7 DEF Says
  <2>2. R \subseteq Earlier(a)
    <3> SUFFICES ASSUME NEW b \in R PROVE b \in Earlier(a)
      OBVIOUS
    <3>1. PICK i \in 0 .. n - 1 : b = t[i].saddr
      BY DEF Recorded
    <3>2. FirstSeen(w, b) < FirstSeen(w, a)
      BY <2>1, <3>1
    <3> QED  BY <1>3, <3>2
  <2>3. IsFiniteSet(Earlier(a))
    <3>1. Earlier(a) \in SUBSET Addresses(w)
      OBVIOUS
    <3> HIDE DEF Earlier
    <3> QED  BY <1>5, <3>1, FS_Subset
  <2>4. Cardinality(R) <= Cardinality(Earlier(a)) /\ Cardinality(Earlier(a)) \in Nat
    <3> HIDE DEF R, Earlier
    <3> QED  BY <2>2, <2>3, FS_Subset, FS_CardinalityType
  <2>5. ~(Cardinality(Earlier(a)) < FirstLength)
    <3> HIDE DEF R, Earlier
    <3> QED  BY <1>1, <1>2, <2>1, <2>4
  <2> QED  BY <2>5 DEF Admitted
<1>8. Admitted(w) \subseteq Addresses(w)
  BY DEF Admitted
<1> QED  BY <1>3, <1>6, <1>7, <1>8

(* The amounts are the numbers of packets, and their bytes.                *)
LEMMA AmountIs ==
  ASSUME NEW w \in Seq(Packet), NEW S \in SUBSET DOMAIN w
  PROVE  /\ Amount(w, S, "count") = Cardinality(S)
         /\ Amount(w, S, "tot_len") = Bytes(w, S)
         /\ Amount(w, S, "tcp") = Cardinality({n \in S : w[n].is_tcp = 1})
         /\ Amount(w, S, "syn") = Cardinality({n \in S : w[n].is_syn = 1})
<1>1. IsFiniteSet(S)
  BY OfFinite, FS_Subset
<1>2. \A n \in S : w[n] \in Packet
  BY LenProperties, ElementOfSeq
<1>3. /\ "count" \in Fields /\ "tot_len" \in Fields /\ "tcp" \in Fields /\ "syn" \in Fields
  BY DEF Fields
<1>4. \A n \in S : \A field \in Fields : Worths(w, field)[n] = Worth(w[n])[field]
  BY WorthsIs
<1>5. \A k : /\ Worth(k).count = 1 /\ Worth(k).tot_len = TotLen(k)
             /\ Worth(k).tcp = k.is_tcp /\ Worth(k).syn = k.is_syn
  BY Zenon DEF Worth
<1>6. Amount(w, S, "count") = Cardinality(S)
  <2> DEFINE f == Worths(w, "count")
  <2>1. \A n \in S : f[n] = 1
    BY <1>3, <1>4, <1>5
  <2> HIDE DEF f
  <2>2. {n \in S : f[n] = 1} = S
    BY <2>1
  <2>3. SumFunctionOnSet(f, S) = Cardinality({n \in S : f[n] = 1})
    BY <1>1, <2>1, SumCounts
  <2> QED  BY <2>2, <2>3 DEF Amount, f
<1>7. Amount(w, S, "tot_len") = Bytes(w, S)
  <2> DEFINE f == Worths(w, "tot_len")
             g == [n \in S |-> TotLen(w[n])]
  <2>1. \A n \in S : f[n] = g[n]
    BY <1>3, <1>4, <1>5
  <2>2. Bytes(w, S) = SumFunctionOnSet(g, S)
    BY Zenon DEF Bytes, SumFunction
  <2> HIDE DEF f, g
  <2>3. SumFunctionOnSet(f, S) = SumFunctionOnSet(g, S)
    BY <1>1, <2>1, SumAgrees
  <2> QED  BY <2>2, <2>3 DEF Amount, f
<1>8. Amount(w, S, "tcp") = Cardinality({n \in S : w[n].is_tcp = 1})
  <2> DEFINE f == Worths(w, "tcp")
  <2>1. \A n \in S : f[n] = w[n].is_tcp
    BY <1>3, <1>4, <1>5
  <2>2. \A n \in S : w[n].is_tcp \in {0, 1}
    BY <1>2 DEF Packet, Packets
  <2> HIDE DEF f
  <2>3. {n \in S : f[n] = 1} = {n \in S : w[n].is_tcp = 1}
    BY <2>1
  <2>4. \A n \in S : f[n] \in {0, 1}
    BY <2>1, <2>2
  <2>5. SumFunctionOnSet(f, S) = Cardinality({n \in S : f[n] = 1})
    BY <1>1, <2>4, SumCounts
  <2> QED  BY <2>3, <2>5 DEF Amount, f
<1>9. Amount(w, S, "syn") = Cardinality({n \in S : w[n].is_syn = 1})
  <2> DEFINE f == Worths(w, "syn")
  <2>1. \A n \in S : f[n] = w[n].is_syn
    BY <1>3, <1>4, <1>5
  <2>2. \A n \in S : w[n].is_syn \in {0, 1}
    BY <1>2 DEF Packet, Packets
  <2> HIDE DEF f
  <2>3. {n \in S : f[n] = 1} = {n \in S : w[n].is_syn = 1}
    BY <2>1
  <2>4. \A n \in S : f[n] \in {0, 1}
    BY <2>1, <2>2
  <2>5. SumFunctionOnSet(f, S) = Cardinality({n \in S : f[n] = 1})
    BY <1>1, <2>4, SumCounts
  <2> QED  BY <2>3, <2>5 DEF Amount, f
<1> QED  BY <1>6, <1>7, <1>8, <1>9

(* Nothing is said of the empty window.                                    *)
LEMMA SaysNothing ==
  ASSUME NEW t
  PROVE  Says(t, 0, <<>>)
<1>1. 0 .. 0 - 1 = {}
  OBVIOUS
<1>2. DOMAIN <<>> = {}
  OBVIOUS
<1>3. Recorded(t, 0) = {}
  BY <1>1 DEF Recorded
<1>4. Addresses(<<>>) = {}
  BY <1>2 DEF Addresses
<1> QED  BY <1>1, <1>3, <1>4 DEF Says

SaysInv == Says(table1, next1, window)

LEMMA NextSays ==
  ASSUME IndexInv, TypeOK, SaysInv, [Next]_vars
  PROVE  SaysInv'
<1>1. /\ next1 \in 0 .. FirstLength /\ 0 \in 0 .. FirstLength
      /\ table1 = [i \in 0 .. FirstLength - 1 |-> table1[i]]
      /\ window \in Seq(Packet)
  BY TrafficAssumption DEF IndexInv, Shape, TypeOK
<1>2. Distinct(table1, next1) /\ Distinct(table1, 0)
  <2>1. 0 .. 0 - 1 = {}
    OBVIOUS
  <2>2. Distinct(table1, 0)
    BY <2>1, Zenon DEF Distinct
  <2>3. Distinct(table1, next1)
    BY Zenon DEF IndexInv, UniqueAddresses, Distinct
  <2> QED  BY <2>2, <2>3
<1>3. Says(table1, next1, window) /\ Says(table1, 0, <<>>)
  BY SaysNothing DEF SaysInv
<1>4. ASSUME NEW k \in Packet, Add(next1, k), window' = Append(window, k)
      PROVE  SaysInv'
  <2>1. Says(table1', next1', Append(window, k))
    BY <1>1, <1>2, <1>3, <1>4, AddSays
  <2> QED  BY <1>4, <2>1 DEF SaysInv
<1>5. ASSUME NEW k \in Packet, Add(0, k), window' = <<k>>
      PROVE  SaysInv'
  <2>1. <<>> \in Seq(Packet) /\ <<k>> = Append(<<>>, k)
    OBVIOUS
  <2>2. Says(table1', next1', Append(<<>>, k))
    BY <1>1, <1>2, <1>3, <1>5, <2>1, AddSays
  <2> QED  BY <1>5, <2>1, <2>2 DEF SaysInv
<1>6. CASE Tick
  BY <1>3, <1>6 DEF Tick, SaysInv
<1>7. CASE UNCHANGED vars
  BY <1>3, <1>7 DEF vars, SaysInv
<1>8. ASSUME NEW k \in Packet, CatchTraffic(k)
      PROVE  SaysInv'
  <2>1. \/ Add(next1, k) /\ window' = Append(window, k)
        \/ Add(0, k) /\ window' = <<k>>
    BY <1>8 DEF CatchTraffic, CatchInPeriod, CatchFirst, CatchAndDump
  <2> QED  BY <1>4, <1>5, <2>1
<1> QED  BY <1>6, <1>7, <1>8 DEF Next

(* Every record says of its window what the packets of its address add up  *)
(* to.                                                                     *)
THEOREM SaysCorrect == Spec => []SaysInv
<1>1. Init => SaysInv
  BY SaysNothing DEF Init, SaysInv
<1>2. IndexInv /\ TypeOK /\ SaysInv /\ [Next]_vars => SaysInv'
  BY NextSays
<1> QED  BY <1>1, <1>2, IndexCorrect, TypeCorrect, PTL DEF Spec

(* The first-layer table says of the running window exactly what it should:*)
(* the first FirstLength addresses, with all their packets.                *)
THEOREM TableFaithfulHolds == Spec => []TableFaithful
<1>1. IndexInv /\ TypeOK /\ SaysInv => TableFaithful
  <2> SUFFICES ASSUME IndexInv, TypeOK, SaysInv PROVE TableFaithful
    OBVIOUS
  <2>1. next1 \in 0 .. FirstLength /\ window \in Seq(Packet) /\ Distinct(table1, next1)
    BY DEF IndexInv, Shape, TypeOK, UniqueAddresses, Distinct
  <2>2. {table1[i].saddr : i \in 0 .. next1 - 1} = Admitted(window)
    BY <2>1, SaysAdmitted, Zenon DEF SaysInv, Recorded
  <2>3. ASSUME NEW i \in 0 .. next1 - 1
        PROVE  LET own == Of(window, table1[i].saddr)
               IN  /\ table1[i].count = Cardinality(own) % Word
                   /\ table1[i].tot_len = Bytes(window, own) % Word
                   /\ table1[i].tcp = Cardinality({n \in own : window[n].is_tcp = 1}) % Word
                   /\ table1[i].syn = Cardinality({n \in own : window[n].is_syn = 1}) % Word
    <3> DEFINE own == Of(window, table1[i].saddr)
    <3>1. own \in SUBSET DOMAIN window
      BY <2>1, OfFinite
    <3>2. /\ table1[i].count = Amount(window, own, "count") % Word
          /\ table1[i].tot_len = Amount(window, own, "tot_len") % Word
          /\ table1[i].tcp = Amount(window, own, "tcp") % Word
          /\ table1[i].syn = Amount(window, own, "syn") % Word
      BY Zenon DEF SaysInv, Says, Fields
    <3> HIDE DEF own
    <3>3. /\ Amount(window, own, "count") = Cardinality(own)
          /\ Amount(window, own, "tot_len") = Bytes(window, own)
          /\ Amount(window, own, "tcp") = Cardinality({n \in own : window[n].is_tcp = 1})
          /\ Amount(window, own, "syn") = Cardinality({n \in own : window[n].is_syn = 1})
      BY <2>1, <3>1, AmountIs
    <3>4. /\ table1[i].count = Cardinality(own) % Word
          /\ table1[i].tot_len = Bytes(window, own) % Word
          /\ table1[i].tcp = Cardinality({n \in own : window[n].is_tcp = 1}) % Word
          /\ table1[i].syn = Cardinality({n \in own : window[n].is_syn = 1}) % Word
      BY <3>2, <3>3, Zenon
    <3> QED  BY <3>4, Zenon DEF own
  <2> QED  BY <2>2, <2>3, Zenon DEF TableFaithful
<1> QED  BY <1>1, IndexCorrect, TypeCorrect, SaysCorrect, PTL
-----------------------------------------------------------------------------
(* One of finitely many natural values is the greatest.                    *)
LEMMA GreatestValue ==
  ASSUME NEW S, IsFiniteSet(S), S # {}, NEW f, \A i \in S : f[i] \in Nat
  PROVE  \E x \in S : \A y \in S : f[x] >= f[y]
<1> DEFINE Topped(T) == \E x \in T : \A y \in T : f[x] >= f[y]
           B == {T \in SUBSET S : T # {} /\ ~Topped(T)}
<1>1. SUFFICES ASSUME B # {} PROVE FALSE
  OBVIOUS
<1>2. PICK T \in B : \A U \in B : U \subseteq T => U = T
  <2>1. B \in SUBSET SUBSET S
    OBVIOUS
  <2> HIDE DEF B
  <2> QED  BY <1>1, <2>1, Minimal
<1>3. PICK x : x \in T
  OBVIOUS
<1> DEFINE U == T \ {x}
<1>4. U \notin B /\ U \in SUBSET S /\ T \in SUBSET S /\ f[x] \in Nat
  BY <1>2, <1>3
<1>5. CASE U = {}
  <2>1. \A y \in T : y = x
    BY <1>5
  <2> QED  BY <1>3, <1>4, <2>1
<1>6. CASE U # {}
  <2>1. PICK m \in U : \A y \in U : f[m] >= f[y]
    BY <1>4, <1>6
  <2>2. m \in T /\ f[m] \in Nat
    BY <1>4, <2>1
  <2>3. CASE f[m] >= f[x]
    <3>1. \A y \in T : f[m] >= f[y]
      BY <2>1, <2>3
    <3> QED  BY <2>2, <3>1
  <2>4. CASE ~(f[m] >= f[x])
    <3>1. \A y \in T : f[x] >= f[y]
      BY <1>4, <2>1, <2>2, <2>4
    <3> QED  BY <1>3, <3>1
  <2> QED  BY <2>3, <2>4
<1> QED  BY <1>5, <1>6

LEMMA MaxIs ==
  ASSUME NEW S, S \subseteq Nat, IsFiniteSet(S), S # {}
  PROVE  Max(S) \in S /\ \A y \in S : Max(S) >= y
<1> DEFINE f == [x \in S |-> x]
<1>1. \A x \in S : f[x] = x /\ f[x] \in Nat
  OBVIOUS
<1> HIDE DEF f
<1>2. PICK x \in S : \A y \in S : f[x] >= f[y]
  BY <1>1, GreatestValue
<1>3. \A y \in S : x >= y
  BY <1>1, <1>2
<1> QED  BY <1>3 DEF Max

(* The search for a maximum may start from zero.                           *)
LEMMA MaxFromZero ==
  ASSUME NEW S, S \subseteq Nat, IsFiniteSet(S), S # {}
  PROVE  Max({0} \cup S) = Max(S)
<1> DEFINE T == {0} \cup S
           m == Max(S)
           n == Max(T)
<1>1. m \in S /\ \A y \in S : m >= y
  BY MaxIs
<1>2. T \in SUBSET Nat /\ IsFiniteSet(T) /\ T # {}
  <2>1. IsFiniteSet(T)
    BY FS_AddElement, {0} \cup S = S \cup {0}
  <2> QED  BY <2>1
<1> HIDE DEF m
<1>3. n \in T /\ \A y \in T : n >= y
  <2> HIDE DEF T
  <2> QED  BY <1>2, MaxIs
<1> HIDE DEF n
<1>4. m \in Nat /\ n \in Nat /\ n >= m
  BY <1>1, <1>3
<1>5. m >= n
  BY <1>1, <1>3
<1>6. m = n
  BY <1>4, <1>5
<1> QED  BY <1>6 DEF m, n

-----------------------------------------------------------------------------
(* What a slice with the values v should say of its window.                *)
Told(v, w) ==
  LET all == UNION {Of(w, a) : a \in Admitted(w)}
      n   == Cardinality(Admitted(w))
  IN  /\ v.unique_saddr_count = n
      /\ v.catched_packets_count = Cardinality(all) % Word
      /\ v.tot_len = Bytes(w, all) % Word
      /\ v.max_catched_packets = Max({Cardinality(Of(w, a)) % Word : a \in Admitted(w)})
      /\ v.max_len = Max({Bytes(w, Of(w, a)) % Word : a \in Admitted(w)})
      /\ n * v.avg_catched_packets <= v.catched_packets_count
      /\ v.catched_packets_count < n * (v.avg_catched_packets + 1)
      /\ n * v.avg_len <= v.tot_len /\ v.tot_len < n * (v.avg_len + 1)
      /\ v.tot_syn = Cardinality({m \in all : w[m].is_syn = 1}) % Word
      /\ v.tot_tcp = Cardinality({m \in all : w[m].is_tcp = 1}) % Word

LEMMA TotalIs ==
  ASSUME NEW n \in 0 .. FirstLength, NEW t, NEW w \in Seq(Packet), Distinct(t, n), Says(t, n, w),
         NEW field \in Fields
  PROVE  LET all == UNION {Of(w, a) : a \in Admitted(w)}
         IN  all \in SUBSET DOMAIN w /\ Total(t, n, field) = Amount(w, all, field) % Word
<1> DEFINE I == 0 .. n - 1
           f == [i \in I |-> t[i][field]]
           D == DOMAIN w
           g == Worths(w, field)
           G == [i \in I |-> Of(w, t[i].saddr)]
           all == UNION {Of(w, a) : a \in Admitted(w)}
<1>1. n \in Nat /\ Word \in Nat \ {0}
  BY TrafficAssumption, InspectionAssumption
<1>2. IsFiniteSet(I)
  BY <1>1, FS_Interval
<1>3. IsFiniteSet(D) /\ \A a : Of(w, a) \in SUBSET D
  BY OfFinite
<1>4. \A d \in D : g[d] \in Nat
  BY WorthsIs
<1>5. G \in [I -> SUBSET D]
  BY <1>3
<1>6. \A i, j \in I : i # j => G[i] \cap G[j] = {}
  BY DEF Distinct, Of
<1>7. \A i \in I : f[i] \in Nat /\ f[i] % Word = SumFunctionOnSet(g, G[i]) % Word
  <2> SUFFICES ASSUME NEW i \in I
               PROVE  f[i] \in Nat /\ f[i] % Word = SumFunctionOnSet(g, G[i]) % Word
    OBVIOUS
  <2> DEFINE x == Amount(w, Of(w, t[i].saddr), field)
             y == x % Word
  <2>1. x \in Nat
    BY <1>3, AmountNatural
  <2>2. f[i] = y
    BY DEF Says
  <2>3. x = SumFunctionOnSet(g, G[i])
    BY DEF Amount
  <2> HIDE DEF x
  <2>4. y \in 0 .. Word - 1
    BY <1>1, <2>1, Division
  <2> HIDE DEF y
  <2>5. y % Word = y /\ y \in Nat
    BY <1>1, <2>4, SmallRemainder
  <2>6. f[i] \in Nat /\ f[i] % Word = y
    BY <2>2, <2>5, Zenon
  <2>7. y = SumFunctionOnSet(g, G[i]) % Word
    BY <2>3, Zenon DEF y
  <2> QED  BY <2>6, <2>7, Zenon
<1>8. all = UNION {G[i] : i \in I}
  <2>1. Admitted(w) = {t[i].saddr : i \in I}
    BY SaysAdmitted DEF Recorded
  <2> QED  BY <2>1
<1>9. all \in SUBSET D
  BY <1>3
<1>10. Total(t, n, field) = SumFunctionOnSet(f, I) % Word
  BY Zenon DEF Total, SumFunction
<1>11. SumFunctionOnSet(f, I) % Word = SumFunctionOnSet(g, UNION {G[i] : i \in I}) % Word
  <2>1. \A i \in I : f[i] \in Nat
    BY <1>7
  <2>2. \A i \in I : f[i] % Word = SumFunctionOnSet(g, G[i]) % Word
    BY <1>7
  <2> HIDE DEF f, I, D, g, G
  <2> QED  BY <1>1, <1>2, <1>3, <1>4, <1>5, <1>6, <2>1, <2>2, SumFamily
<1>12. Total(t, n, field) = Amount(w, all, field) % Word
  <2> HIDE DEF f, I, G, all
  <2> QED  BY <1>8, <1>10, <1>11, Zenon DEF Amount
<1> QED  BY <1>9, <1>12, Zenon

(* The values that a maximum is taken of. *)
Column(t, n, field) == {t[i][field] : i \in 0 .. n - 1}

LEMMA LargestFinite ==
  ASSUME NEW n \in 1 .. FirstLength, NEW t, NEW w \in Seq(Packet), Says(t, n, w),
         NEW field \in Fields
  PROVE  /\ Column(t, n, field) \in SUBSET Nat
         /\ IsFiniteSet(Column(t, n, field)) /\ Column(t, n, field) # {}
         /\ Largest(t, n, field) = Max({0} \cup Column(t, n, field))
<1> DEFINE I == 0 .. n - 1
           S == {t[i][field] : i \in I}
<1>1. n \in Nat /\ n >= 1 /\ Word \in Nat \ {0}
  BY TrafficAssumption, InspectionAssumption
<1>2. S \in SUBSET Nat
  <2> SUFFICES ASSUME NEW i \in I PROVE t[i][field] \in Nat
    OBVIOUS
  <2> DEFINE x == Amount(w, Of(w, t[i].saddr), field)
  <2>1. x \in Nat
    BY OfFinite, AmountNatural
  <2>2. t[i][field] = x % Word
    BY DEF Says
  <2> HIDE DEF x
  <2>3. x % Word \in Nat
    BY <1>1, <2>1, RemainderNat
  <2> QED  BY <2>2, <2>3
<1>3. IsFiniteSet(S) /\ S # {}
  <2> DEFINE f == [i \in I |-> t[i][field]]
  <2>1. IsFiniteSet(I)
    BY <1>1, FS_Interval
  <2>2. S = {f[i] : i \in I}
    OBVIOUS
  <2>3. 0 \in I
    BY <1>1
  <2>4. S # {}
    BY <2>3
  <2> HIDE DEF I, S
  <2>5. f \in [I -> S]
    BY <2>2
  <2> HIDE DEF f
  <2>6. f \in Surjection(I, S)
    BY <2>2, <2>5 DEF Surjection
  <2> QED  BY <2>1, <2>4, <2>6, FS_Surjection
<1>4. Largest(t, n, field) = Max({0} \cup S)
  BY Zenon DEF Largest
<1>5. Column(t, n, field) = S
  BY Zenon DEF Column
<1> QED  BY <1>2, <1>3, <1>4, <1>5, Zenon

LEMMA LargestIs ==
  ASSUME NEW n \in 1 .. FirstLength, NEW t, NEW w \in Seq(Packet), Distinct(t, n), Says(t, n, w),
         NEW field \in Fields
  PROVE  Largest(t, n, field) = Max({Amount(w, Of(w, a), field) % Word : a \in Admitted(w)})
<1> DEFINE I == 0 .. n - 1
           S == Column(t, n, field)
<1>1. n \in Nat /\ n >= 1 /\ Word \in Nat \ {0} /\ n \in 0 .. FirstLength
  BY TrafficAssumption, InspectionAssumption
<1>2. S = {Amount(w, Of(w, a), field) % Word : a \in Admitted(w)}
  <2>1. Admitted(w) = {t[i].saddr : i \in I}
    BY <1>1, SaysAdmitted DEF Recorded
  <2>2. \A i \in I : t[i][field] = Amount(w, Of(w, t[i].saddr), field) % Word
    BY DEF Says
  <2>3. S = {t[i][field] : i \in I}
    BY Zenon DEF Column
  <2> HIDE DEF I, S
  <2> QED  BY <2>1, <2>2, <2>3
<1>3. S \in SUBSET Nat /\ IsFiniteSet(S) /\ S # {} /\ Largest(t, n, field) = Max({0} \cup S)
  BY LargestFinite
<1> HIDE DEF S
<1>4. Largest(t, n, field) = Max(S)
  BY <1>3, MaxFromZero
<1> QED  BY <1>2, <1>4, Zenon

(* The mean of a total over n, without a division.                         *)
LEMMA MeanIs ==
  ASSUME NEW n \in Nat \ {0}, NEW c \in Nat
  PROVE  n * (c \div n) <= c /\ c < n * ((c \div n) + 1)
<1> DEFINE q == c \div n
           r == c % n
<1>1. q \in Nat /\ r \in 0 .. n - 1 /\ c = n * q + r
  BY Division
<1> HIDE DEF q, r
<1>2. n * q \in Nat /\ n * (q + 1) = n * q + n
  BY <1>1
<1>3. n * q <= c /\ c < n * (q + 1)
  BY <1>1, <1>2
<1> QED  BY <1>3 DEF q

(* The slice made of the table's records says of the window what it should.*)
LEMMA SummaryTold ==
  ASSUME NEW n \in 1 .. FirstLength, NEW t, NEW w \in Seq(Packet), Distinct(t, n), Says(t, n, w)
  PROVE  Told(Summary(t, n), w)
<1> DEFINE A == Admitted(w)
           all == UNION {Of(w, a) : a \in A}
           s == Summary(t, n)
           m == Cardinality(A)
<1>1. n \in Nat \ {0} /\ n \in 0 .. FirstLength /\ Word \in Nat \ {0}
  BY TrafficAssumption, InspectionAssumption
<1>2. n = m
  BY <1>1, RecordedCount, SaysAdmitted
<1>3. /\ "count" \in Fields /\ "tot_len" \in Fields /\ "tcp" \in Fields /\ "syn" \in Fields
  BY DEF Fields
<1>4. all \in SUBSET DOMAIN w
  BY OfFinite
<1>5. \A field \in Fields : Total(t, n, field) = Amount(w, all, field) % Word
  BY <1>1, TotalIs
<1>6. \A field \in Fields :
        Largest(t, n, field) = Max({Amount(w, Of(w, a), field) % Word : a \in A})
  BY LargestIs
<1>7. \A field \in Fields : Total(t, n, field) \in Nat
  <2> SUFFICES ASSUME NEW field \in Fields PROVE Total(t, n, field) \in Nat
    OBVIOUS
  <2> DEFINE x == Amount(w, all, field)
  <2>1. x \in Nat
    BY <1>4, AmountNatural
  <2>2. Total(t, n, field) = x % Word
    BY <1>5
  <2> HIDE DEF x
  <2>3. x % Word \in Nat
    BY <1>1, <2>1, RemainderNat
  <2> QED  BY <2>2, <2>3
<1>8. /\ s.unique_saddr_count = n
      /\ s.catched_packets_count = Total(t, n, "count")
      /\ s.tot_len = Total(t, n, "tot_len")
      /\ s.avg_catched_packets = Total(t, n, "count") \div n
      /\ s.max_catched_packets = Largest(t, n, "count")
      /\ s.avg_len = Total(t, n, "tot_len") \div n
      /\ s.max_len = Largest(t, n, "tot_len")
      /\ s.tot_tcp = Total(t, n, "tcp")
      /\ s.tot_syn = Total(t, n, "syn")
  BY Zenon DEF Summary
<1>9. /\ Amount(w, all, "count") = Cardinality(all)
      /\ Amount(w, all, "tot_len") = Bytes(w, all)
      /\ Amount(w, all, "tcp") = Cardinality({k \in all : w[k].is_tcp = 1})
      /\ Amount(w, all, "syn") = Cardinality({k \in all : w[k].is_syn = 1})
  BY <1>4, AmountIs
<1>10. \A a : /\ Amount(w, Of(w, a), "count") = Cardinality(Of(w, a))
              /\ Amount(w, Of(w, a), "tot_len") = Bytes(w, Of(w, a))
  BY OfFinite, AmountIs
<1>11. /\ {Amount(w, Of(w, a), "count") % Word : a \in A} = {Cardinality(Of(w, a)) % Word : a \in A}
       /\ {Amount(w, Of(w, a), "tot_len") % Word : a \in A} = {Bytes(w, Of(w, a)) % Word : a \in A}
  BY <1>10, Zenon
<1> HIDE DEF A, s
<1>12. s.unique_saddr_count = m
  BY <1>2, <1>8, Zenon
<1>13. /\ s.catched_packets_count = Cardinality(all) % Word
       /\ s.tot_len = Bytes(w, all) % Word
  BY <1>3, <1>5, <1>8, <1>9, Zenon
<1>14. /\ s.tot_syn = Cardinality({k \in all : w[k].is_syn = 1}) % Word
       /\ s.tot_tcp = Cardinality({k \in all : w[k].is_tcp = 1}) % Word
  BY <1>3, <1>5, <1>8, <1>9, Zenon
<1>15. s.max_catched_packets = Max({Cardinality(Of(w, a)) % Word : a \in A})
  BY <1>3, <1>6, <1>8, <1>11, Zenon
<1>16. s.max_len = Max({Bytes(w, Of(w, a)) % Word : a \in A})
  BY <1>3, <1>6, <1>8, <1>11, Zenon
<1>17. /\ n * s.avg_catched_packets <= s.catched_packets_count
       /\ s.catched_packets_count < n * (s.avg_catched_packets + 1)
  <2> DEFINE c == Total(t, n, "count")
  <2>1. c \in Nat
    BY <1>3, <1>7
  <2> HIDE DEF c
  <2>2. n * (c \div n) <= c /\ c < n * ((c \div n) + 1)
    BY <1>1, <2>1, MeanIs
  <2>3. s.catched_packets_count = c /\ s.avg_catched_packets = c \div n
    BY <1>8, Zenon DEF c
  <2> QED  BY <2>2, <2>3, Zenon
<1>18. n * s.avg_len <= s.tot_len /\ s.tot_len < n * (s.avg_len + 1)
  <2> DEFINE c == Total(t, n, "tot_len")
  <2>1. c \in Nat
    BY <1>3, <1>7
  <2> HIDE DEF c
  <2>2. n * (c \div n) <= c /\ c < n * ((c \div n) + 1)
    BY <1>1, <2>1, MeanIs
  <2>3. s.tot_len = c /\ s.avg_len = c \div n
    BY <1>8, Zenon DEF c
  <2> QED  BY <2>2, <2>3, Zenon
<1>19. /\ m * s.avg_catched_packets <= s.catched_packets_count
       /\ s.catched_packets_count < m * (s.avg_catched_packets + 1)
       /\ m * s.avg_len <= s.tot_len /\ s.tot_len < m * (s.avg_len + 1)
  <2> HIDE DEF m
  <2> QED  BY <1>2, <1>17, <1>18, Zenon
<1>20. Told(s, w)
  BY <1>12, <1>13, <1>14, <1>15, <1>16, <1>19, Zenon DEF Told, A
<1> QED  BY <1>20 DEF s

-----------------------------------------------------------------------------
(* The table that a dump has inspected: the last entry is the new slice.   *)
Fresh(time) == [from_time |-> time \div Second, vec |-> Summary(table1, next1), crit |-> NoCrit]

(* The inspection changes no value, and sets crit of the newest slice.     *)
LEMMA DumpInspects ==
  ASSUME Shape, NEW time, Dump(time)
  PROVE  \E t : /\ \A p : \A i \in 0 .. FreeIndex : table2'[i].vec[p] = t[i].vec[p]
                /\ t[FreeIndex] = Fresh(time)
                /\ table2'[FreeIndex].vec = Summary(table1, next1)
                /\ next2' >= 2 => table2'[FreeIndex].crit = Critical(t, next2')
<1> USE TrafficAssumption DEF Shape
<1> DEFINE j == FreeIndex
           I == 0 .. SecondLength - 1
           t == [Shifted EXCEPT ![j] = Fresh(time)]
           c == Critical(t, j + 1)
<1>1. j \in I /\ j \in Nat /\ next2' = j + 1 /\ \A i \in 0 .. j : i \in I
  BY DEF Dump, FreeIndex
<1>2. Shifted = [i \in I |-> Shifted[i]]
  BY DEF Shifted
<1>3. t = [i \in I |-> t[i]]
  BY <1>2, ExceptDomain
<1>4. t[j] = Fresh(time)
  BY <1>1, <1>2
<1>5. table2' = InspectLast(t, j + 1)
  BY DEF Dump, Fresh
<1> HIDE DEF t, j, c
<1>6. Fresh(time).vec = Summary(table1, next1)
  BY Zenon DEF Fresh
<1>7. CASE j + 1 < 2
  <2>1. table2' = t
    BY <1>5, <1>7 DEF InspectLast
  <2>2. ~(next2' >= 2)
    BY <1>1, <1>7
  <2>3. \A p : \A i \in 0 .. j : table2'[i].vec[p] = t[i].vec[p]
    BY <2>1
  <2>4. table2'[j].vec = Summary(table1, next1)
    BY <1>4, <1>6, <2>1
  <2> QED  BY <1>4, <2>2, <2>3, <2>4, Zenon DEF j
<1>8. CASE ~(j + 1 < 2)
  <2>1. (j + 1) - 1 = j
    BY <1>1
  <2>2. table2' = [t EXCEPT ![j].crit = c]
    BY <1>5, <1>8, <2>1 DEF InspectLast, c
  <2>3. \A i \in I : table2'[i] = IF i = j THEN [t[j] EXCEPT !.crit = c] ELSE t[i]
    <3> DEFINE e == [t[j] EXCEPT !.crit = c]
    <3>1. table2' = [t EXCEPT ![j] = e]
      BY <2>2
    <3> HIDE DEF e
    <3>2. \A i \in I : table2'[i] = IF i = j THEN e ELSE t[i]
      BY <1>1, <1>3, <3>1
    <3> QED  BY <3>2 DEF e
  <2>4. [Fresh(time) EXCEPT !.crit = c].vec = Fresh(time).vec
    BY Zenon DEF Fresh
  <2>5. [Fresh(time) EXCEPT !.crit = c].crit = c
    BY DEF Fresh
  <2>6. table2'[j].vec = Summary(table1, next1) /\ table2'[j].crit = c
    BY <1>1, <1>4, <1>6, <2>3, <2>4, <2>5
  <2>7. t[j].vec = Summary(table1, next1)
    BY <1>4, <1>6
  <2>8. \A i \in I : table2'[i].vec = t[i].vec
    BY <2>3, <2>6, <2>7
  <2>9. \A p : \A i \in 0 .. j : table2'[i].vec[p] = t[i].vec[p]
    BY <1>1, <2>8
  <2>10. c = Critical(t, next2')
    BY <1>1 DEF c
  <2> QED  BY <1>4, <2>6, <2>9, <2>10 DEF j
<1> QED  BY <1>7, <1>8

(* A dump appends the window to those of the slices that stay.             *)
LEMMA DumpCloses ==
  ASSUME TypeOK, NEW time, Dump(time)
  PROVE  /\ FreeIndex \in 0 .. SecondLength - 1 /\ next2' = FreeIndex + 1
         /\ Len(closed') = next2'
         /\ closed'[next2'] = window
         /\ \A s \in 1 .. FreeIndex :
              closed'[s] = IF next2 < SecondLength THEN closed[s] ELSE closed[s + 1]
<1> USE TrafficAssumption
<1> DEFINE kept == IF next2 < SecondLength THEN closed ELSE Tail(closed)
           W == Seq(Packet)
<1>1. /\ closed \in Seq(W) /\ Len(closed) = next2 /\ next2 \in 0 .. SecondLength /\ window \in W
      /\ FreeIndex \in 0 .. SecondLength - 1 /\ next2' = FreeIndex + 1
  BY DEF TypeOK, Dump, FreeIndex
<1> HIDE DEF W
<1>2. /\ kept \in Seq(W) /\ Len(kept) = FreeIndex
      /\ \A s \in 1 .. FreeIndex :
           kept[s] = IF next2 < SecondLength THEN closed[s] ELSE closed[s + 1]
  <2>1. CASE next2 < SecondLength
    BY <1>1, <2>1 DEF FreeIndex
  <2>2. CASE ~(next2 < SecondLength)
    <3>1. closed # <<>> /\ next2 = SecondLength /\ FreeIndex = SecondLength - 1
      BY <1>1, <2>2, EmptySeq DEF FreeIndex
    <3>2. /\ Tail(closed) \in Seq(W) /\ Len(Tail(closed)) = Len(closed) - 1
          /\ \A s \in 1 .. Len(closed) - 1 : Tail(closed)[s] = closed[s + 1]
      BY <1>1, <3>1, HeadTailProperties
    <3> QED  BY <1>1, <2>2, <3>1, <3>2
  <2> QED  BY <2>1, <2>2
<1>3. closed' = Append(kept, window)
  BY DEF Dump
<1> HIDE DEF kept
<1>4. /\ Len(Append(kept, window)) = Len(kept) + 1
      /\ \A s \in 1 .. Len(kept) : Append(kept, window)[s] = kept[s]
      /\ Append(kept, window)[Len(kept) + 1] = window
  BY <1>1, <1>2, AppendProperties
<1> QED  BY <1>1, <1>2, <1>3, <1>4

SlicesInv == \A s \in 1 .. next2 : Told(table2[s - 1].vec, closed[s])

LEMMA DumpTold ==
  ASSUME IndexInv, TypeOK, SaysInv, SlicesInv, from_time # 0, NEW time, Dump(time)
  PROVE  SlicesInv'
<1>1. Shape /\ Distinct(table1, next1) /\ window \in Seq(Packet) /\ Says(table1, next1, window)
  BY DEF IndexInv, UniqueAddresses, Distinct, TypeOK, SaysInv
<1>2. next1 \in 1 .. FirstLength
  BY <1>1 DEF IndexInv, DivisionDefined, Shape
<1>3. Told(Summary(table1, next1), window)
  BY <1>1, <1>2, SummaryTold
<1>4. table2'[FreeIndex].vec = Summary(table1, next1)
  BY <1>1, DumpInspects
<1>5. /\ FreeIndex \in 0 .. SecondLength - 1 /\ next2' = FreeIndex + 1
      /\ closed'[next2'] = window
      /\ \A s \in 1 .. FreeIndex :
           closed'[s] = IF next2 < SecondLength THEN closed[s] ELSE closed[s + 1]
  BY DumpCloses
<1>6. \A i \in 0 .. FreeIndex - 1 :
        table2'[i] = IF next2 < SecondLength THEN table2[i] ELSE table2[i + 1]
  BY <1>1, DumpMoves
<1>7. next2 \in 0 .. SecondLength /\ SecondLength \in Nat \ {0}
  BY <1>1, TrafficAssumption DEF Shape
<1>8. ASSUME NEW s \in 1 .. next2'
      PROVE  Told(table2'[s - 1].vec, closed'[s])
  <2>1. CASE s = next2'
    <3>1. s - 1 = FreeIndex
      BY <1>5, <2>1
    <3> QED  BY <1>3, <1>4, <1>5, <2>1, <3>1
  <2>2. CASE s # next2'
    <3>1. s \in 1 .. FreeIndex /\ s - 1 \in 0 .. FreeIndex - 1
      BY <1>5, <2>2
    <3>2. CASE next2 < SecondLength
      <4>1. s \in 1 .. next2
        BY <1>5, <1>7, <3>1, <3>2 DEF FreeIndex
      <4>2. table2'[s - 1] = table2[s - 1] /\ closed'[s] = closed[s]
        BY <1>5, <1>6, <3>1, <3>2
      <4>3. Told(table2[s - 1].vec, closed[s])
        BY <4>1 DEF SlicesInv
      <4> QED  BY <4>2, <4>3
    <3>3. CASE ~(next2 < SecondLength)
      <4>1. s + 1 \in 1 .. next2 /\ (s + 1) - 1 = (s - 1) + 1
        BY <1>5, <1>7, <3>1, <3>3 DEF FreeIndex
      <4>2. table2'[s - 1] = table2[(s - 1) + 1] /\ closed'[s] = closed[s + 1]
        BY <1>5, <1>6, <3>1, <3>3
      <4>3. Told(table2[(s + 1) - 1].vec, closed[s + 1])
        BY <4>1 DEF SlicesInv
      <4> QED  BY <4>1, <4>2, <4>3
    <3> QED  BY <3>2, <3>3
  <2> QED  BY <2>1, <2>2
<1> QED  BY <1>8 DEF SlicesInv

(* Each slice says of its own window, however it was moved since, what it  *)
(* should: counts in words, means and maxima per admitted address.         *)
THEOREM SlicesFaithfulHolds == Spec => []SlicesFaithful
<1>1. Init => SlicesInv
  <2> SUFFICES ASSUME Init PROVE SlicesInv
    OBVIOUS
  <2>1. 1 .. next2 = {}
    BY DEF Init
  <2> QED  BY <2>1 DEF SlicesInv
<1>2. IndexInv /\ TypeOK /\ SaysInv /\ SlicesInv /\ [Next]_vars => SlicesInv'
  <2> SUFFICES ASSUME IndexInv, TypeOK, SaysInv, SlicesInv, [Next]_vars PROVE SlicesInv'
    OBVIOUS
  <2>1. \/ from_time # 0 /\ \E time : Dump(time)
        \/ UNCHANGED <<table2, next2, closed>>
    BY DEF Next, Tick, CatchTraffic, CatchInPeriod, CatchFirst, CatchAndDump, vars
  <2>2. CASE UNCHANGED <<table2, next2, closed>>
    BY <2>2 DEF SlicesInv
  <2> QED  BY <2>1, <2>2, DumpTold
<1>3. TypeOK /\ SlicesInv => SlicesFaithful
  <2> SUFFICES ASSUME TypeOK, SlicesInv PROVE SlicesFaithful
    OBVIOUS
  <2>1. Len(closed) = next2
    BY DEF TypeOK
  <2> QED  BY <2>1, Zenon DEF SlicesInv, SlicesFaithful, Told
<1> QED  BY <1>1, <1>2, <1>3, IndexCorrect, TypeCorrect, SaysCorrect, PTL DEF Spec

-----------------------------------------------------------------------------
LEMMA Monotone ==
  ASSUME NEW m \in Nat, NEW x \in Int, NEW y \in Int, x <= y
  PROVE  m * x <= m * y
OBVIOUS

LimitOf(s, m, e, b, w) == ((((((s % w) \div m) * (100 + e)) % w) \div 100) + b) % w
Over(s, m, e, b, v, margin) == 100 * m * (v + margin) > (100 + e) * s + 100 * m * b

(* The limit, computed with two divisions in words of w, against the mean  *)
(* of m slices with the sum s: exact above it, and within three below it.  *)
LEMMA LimitIs ==
  ASSUME NEW w \in Nat \ {0}, NEW s \in 0 .. w - 1, NEW m \in Nat \ {0}, NEW e \in 0 .. 200,
         NEW b \in Nat, b < w \div 2, (100 + e) * (s \div m) < w, NEW v \in Nat
  PROVE  /\ ~(v > LimitOf(s, m, e, b, w)) => ~Over(s, m, e, b, v, 0)
         /\ v > LimitOf(s, m, e, b, w) => Over(s, m, e, b, v, 3)
<1> DEFINE a == s \div m
           r == s % m
           p == 100 + e
           q == a * p
           d == q \div 100
           l == d + b
<1>1. a \in Nat /\ r \in 0 .. m - 1 /\ s = m * a + r
  <2>1. s \in Nat
    OBVIOUS
  <2> QED  BY <2>1, Division, Zenon
<1>2. s % w = s
  BY SmallRemainder
<1> HIDE DEF a, r
<1>3. p \in 100 .. 300 /\ p \in Nat
  OBVIOUS
<1>4. p * a < w
  BY DEF a
<1> HIDE DEF p
<1>5. q \in Nat /\ q = p * a /\ q < w
  BY <1>1, <1>3, <1>4
<1> HIDE DEF q
<1>6. q \in 0 .. w - 1
  BY <1>5
<1>7. q % w = q
  BY <1>6, SmallRemainder
<1>8. d \in Nat /\ 100 * d <= q /\ q <= 100 * d + 99
  BY <1>5
<1> HIDE DEF d
<1>9. l \in 0 .. w - 1
  BY <1>5, <1>8
<1>10. l % w = l
  BY <1>9, SmallRemainder
<1> DEFINE X == m * v
           Y == m * d
           Z == m * b
           Q == m * q
           A == m * a
<1>11. /\ X \in Nat /\ Y \in Nat /\ Z \in Nat /\ Q \in Nat /\ A \in Nat /\ p * A \in Nat
       /\ p * r \in Nat
  BY <1>1, <1>3, <1>5, <1>8
<1>12. 100 * Y <= Q /\ Q <= 100 * Y + 99 * m
  <2>1. m * (100 * d) <= m * q
    BY <1>5, <1>8, Monotone
  <2>2. m * q <= m * (100 * d + 99)
    BY <1>5, <1>8, Monotone
  <2>3. m * (100 * d) = 100 * (m * d) /\ m * (100 * d + 99) = 100 * (m * d) + 99 * m
    BY <1>8
  <2> QED  BY <2>1, <2>2, <2>3
<1>13. Q = p * A
  BY <1>1, <1>3, <1>5
<1>14. p * s = p * A + p * r
  BY <1>1, <1>3
<1>15. p * r <= 300 * m
  <2>1. r * p <= r * 300
    BY <1>1, <1>3, Monotone
  <2> QED  BY <1>1, <1>3, <2>1
<1>16. 100 * m * (v + 0) = 100 * X /\ 100 * m * (v + 3) = 100 * X + 300 * m /\ 100 * m * b = 100 * Z
  OBVIOUS
<1>17. ~(v > l) => X <= Y + Z
  <2> SUFFICES ASSUME v <= d + b PROVE X <= Y + Z
    BY <1>8
  <2>1. m * v <= m * (d + b)
    BY <1>8, Monotone
  <2>2. m * (d + b) = m * d + m * b
    BY <1>8
  <2> QED  BY <2>1, <2>2
<1>18. v > l => X >= Y + Z + m
  <2> SUFFICES ASSUME v >= d + b + 1 PROVE X >= Y + Z + m
    BY <1>8
  <2>1. m * (d + b + 1) <= m * v
    BY <1>8, Monotone
  <2>2. m * (d + b + 1) = m * d + m * b + m
    BY <1>8
  <2> QED  BY <2>1, <2>2
<1> HIDE DEF X, Y, Z, Q, A
<1> DEFINE ps == p * s
           pr == p * r
           pa == p * A
<1>19. ~(v > l) => ~(100 * m * (v + 0) > p * s + 100 * m * b)
  <2>1. ps = pa + pr /\ Q = pa /\ pr \in Nat /\ pa \in Nat
    BY <1>11, <1>13, <1>14
  <2> HIDE DEF ps, pr, pa, l
  <2>2. ~(v > l) => ~(100 * X > ps + 100 * Z)
    BY <1>11, <1>12, <1>17, <2>1
  <2> QED  BY <1>16, <2>2 DEF ps
<1>20. v > l => 100 * m * (v + 3) > p * s + 100 * m * b
  <2>1. ps = pa + pr /\ Q = pa /\ pr \in Nat /\ pa \in Nat /\ pr <= 300 * m
    BY <1>11, <1>13, <1>14, <1>15
  <2> HIDE DEF ps, pr, pa, l
  <2>2. v > l => 100 * X + 300 * m > ps + 100 * Z
    BY <1>11, <1>12, <1>18, <2>1
  <2> QED  BY <1>16, <2>2 DEF ps
<1>21. LimitOf(s, m, e, b, w) = l
  <2>1. (s % w) \div m = a
    BY <1>2 DEF a
  <2>2. (a * (100 + e)) % w = q
    BY <1>7 DEF q, p
  <2>3. (q \div 100 + b) % w = l
    BY <1>10 DEF d
  <2> QED  BY <2>1, <2>2, <2>3 DEF LimitOf
<1> HIDE DEF l
<1>22. ~(v > l) => ~Over(s, m, e, b, v, 0)
  BY <1>19, Zenon DEF Over, p
<1>23. v > l => Over(s, m, e, b, v, 3)
  BY <1>20, Zenon DEF Over, p
<1> QED  BY <1>21, <1>22, <1>23, Zenon

(* A sum or a product that wraps only lowers the limit.                    *)
LEMMA LimitBelow ==
  ASSUME NEW w \in Nat \ {0}, NEW s \in Nat, NEW m \in Nat \ {0}, NEW e \in 0 .. 200,
         NEW b \in Nat, b < w \div 2, NEW v \in Nat, ~(v > LimitOf(s, m, e, b, w))
  PROVE  ~Over(s, m, e, b, v, 0)
<1> DEFINE S == s % w
           a == S \div m
           p == 100 + e
           P == a * p
           q == P % w
           d == q \div 100
<1>1. S \in Nat /\ S <= s
  <2>1. S \in 0 .. w - 1 /\ s \div w \in Nat /\ s = w * (s \div w) + S
    BY Division
  <2>2. w * (s \div w) \in Nat
    BY <2>1
  <2> QED  BY <2>1, <2>2
<1> HIDE DEF S
<1>2. a \in Nat /\ m * a <= S
  <2>1. S \in Nat
    BY <1>1
  <2>2. a \in Nat /\ S % m \in 0 .. m - 1 /\ S = m * a + (S % m)
    BY <2>1, Division, Zenon
  <2> HIDE DEF a
  <2> QED  BY <1>1, <2>2
<1> HIDE DEF a
<1>3. p \in Nat
  OBVIOUS
<1> HIDE DEF p
<1>4. P \in Nat
  BY <1>2, <1>3
<1> HIDE DEF P
<1>5. q \in 0 .. w - 1 /\ q <= P
  <2>1. q \in 0 .. w - 1 /\ P \div w \in Nat /\ P = w * (P \div w) + q
    BY <1>4, Division
  <2>2. w * (P \div w) \in Nat
    BY <2>1
  <2> QED  BY <2>1, <2>2
<1> HIDE DEF q
<1>6. d \in Nat /\ 100 * d <= q
  BY <1>5
<1> HIDE DEF d
<1>7. v <= d + b
  <2>1. d + b \in 0 .. w - 1
    BY <1>5, <1>6
  <2>2. (d + b) % w = d + b
    BY <2>1, SmallRemainder
  <2>3. LimitOf(s, m, e, b, w) = d + b
    BY <2>2 DEF LimitOf, d, q, P, p, a, S
  <2> QED  BY <2>1, <2>3
<1> DEFINE X == m * v
           Y == m * d
           Z == m * b
           Q == m * P
           A == m * a
           pA == p * A
           ps == p * s
<1>8. X <= Y + Z
  <2>1. m * v <= m * (d + b)
    BY <1>6, <1>7, Monotone
  <2>2. m * (d + b) = m * d + m * b
    BY <1>6
  <2> QED  BY <2>1, <2>2
<1>9. 100 * Y <= Q
  <2>1. 100 * d <= P
    BY <1>4, <1>5, <1>6
  <2>2. m * (100 * d) <= m * P
    BY <1>4, <1>6, <2>1, Monotone
  <2>3. m * (100 * d) = 100 * (m * d)
    BY <1>6
  <2> QED  BY <2>2, <2>3
<1>10. Q = pA
  BY <1>2, <1>3 DEF P
<1>11. pA <= ps
  <2>1. A \in Int /\ A <= s
    BY <1>1, <1>2
  <2> HIDE DEF A
  <2> QED  BY <1>3, <2>1, Monotone
<1>12. X \in Nat /\ Y \in Nat /\ Z \in Nat /\ Q \in Nat /\ ps \in Nat
  BY <1>3, <1>4, <1>6
<1>13. 100 * m * (v + 0) = 100 * X /\ 100 * m * b = 100 * Z
  OBVIOUS
<1> HIDE DEF X, Y, Z, Q, A, pA
<1>14. ~(100 * m * (v + 0) > ps + 100 * m * b)
  <2> HIDE DEF ps
  <2>1. pA \in Nat
    BY <1>10, <1>12
  <2> QED  BY <1>8, <1>9, <1>10, <1>11, <1>12, <1>13, <2>1
<1> QED  BY <1>14, Zenon DEF Over, ps, p

(* The property found critical exceeds its limit; if none is, none does.   *)
LEMMA CriticalIs ==
  ASSUME NEW t, NEW n
  PROVE  /\ Critical(t, n) = NoCrit => \A p \in Properties : ~Exceeds(t, n, p)
         /\ Critical(t, n) \in Properties => Exceeds(t, n, Critical(t, n))
<1> DEFINE E(k) == Exceeds(t, n, PropertyOrder[k])
           C == {k \in 1 .. 9 : E(k)}
           Lowest == CHOOSE k \in 1 .. 9 : E(k) /\ \A j \in 1 .. k - 1 : ~E(j)
<1>1. Properties = {PropertyOrder[k] : k \in 1 .. 9}
  BY Zenon DEF Properties
<1>2. NoCrit \notin Properties
  BY DEF NoCrit, Properties, PropertyOrder
<1>3. CASE \E p \in Properties : Exceeds(t, n, p)
  <2>1. C # {}
    BY <1>1, <1>3
  <2>2. \E k \in C : \A j \in 1 .. k - 1 : j \notin C
    <3>1. C \in SUBSET (1 .. 9) /\ 9 \in Nat
      OBVIOUS
    <3> HIDE DEF C
    <3> QED  BY <2>1, <3>1, LeastOf
  <2>3. \E k \in 1 .. 9 : E(k) /\ \A j \in 1 .. k - 1 : ~E(j)
    <3>1. PICK k \in C : \A j \in 1 .. k - 1 : j \notin C
      BY <2>2
    <3>2. k \in 1 .. 9 /\ E(k) /\ \A j \in 1 .. k - 1 : j \in 1 .. 9
      OBVIOUS
    <3>3. \A j \in 1 .. k - 1 : ~E(j)
      BY <3>1, <3>2
    <3> QED  BY <3>2, <3>3
  <2>4. Critical(t, n) = PropertyOrder[Lowest]
    BY <1>3, Zenon DEF Critical
  <2>5. Lowest \in 1 .. 9 /\ E(Lowest)
    <3> HIDE DEF E
    <3> QED  BY <2>3
  <2>6. Critical(t, n) \in Properties /\ Exceeds(t, n, Critical(t, n))
    <3> HIDE DEF Lowest
    <3> QED  BY <1>1, <2>4, <2>5
  <2> QED  BY <1>2, <2>6
<1>4. CASE ~ \E p \in Properties : Exceeds(t, n, p)
  <2>1. Critical(t, n) = NoCrit
    BY <1>4, Zenon DEF Critical
  <2> QED  BY <1>2, <1>4, <2>1
<1> QED  BY <1>3, <1>4

(* The values of a slice are naturals.                                     *)
LEMMA SummaryNatural ==
  ASSUME NEW n \in 1 .. FirstLength, NEW t, NEW w \in Seq(Packet), Distinct(t, n), Says(t, n, w),
         NEW p \in Properties
  PROVE  Summary(t, n)[p] \in Nat
<1> DEFINE s == Summary(t, n)
<1>1. n \in Nat \ {0} /\ n \in 0 .. FirstLength /\ Word \in Nat \ {0}
  BY TrafficAssumption, InspectionAssumption
<1>2. \A x \in Nat : x % Word \in Nat /\ x \div n \in Nat
  BY <1>1, RemainderNat, Division
<1>3. \A field \in Fields : Total(t, n, field) \in Nat /\ Largest(t, n, field) \in Nat
  <2> SUFFICES ASSUME NEW field \in Fields
               PROVE  Total(t, n, field) \in Nat /\ Largest(t, n, field) \in Nat
    OBVIOUS
  <2> DEFINE G == {Amount(w, Of(w, a), field) % Word : a \in Admitted(w)}
             all == UNION {Of(w, a) : a \in Admitted(w)}
  <2>1. Total(t, n, field) = Amount(w, all, field) % Word /\ all \in SUBSET DOMAIN w
    BY <1>1, TotalIs
  <2>2. Amount(w, all, field) \in Nat
    BY <2>1, AmountNatural
  <2>3. Total(t, n, field) \in Nat
    BY <1>2, <2>1, <2>2
  <2>4. Largest(t, n, field) \in Nat
    <3> DEFINE S == Column(t, n, field)
    <3>1. S \in SUBSET Nat /\ IsFiniteSet(S) /\ S # {} /\ Largest(t, n, field) = Max({0} \cup S)
      BY LargestFinite
    <3> HIDE DEF S
    <3>2. Max(S) \in S
      BY <3>1, MaxIs
    <3> QED  BY <3>1, <3>2, MaxFromZero
  <2> QED  BY <2>3, <2>4
<1>4. /\ "count" \in Fields /\ "tot_len" \in Fields /\ "tcp" \in Fields /\ "syn" \in Fields
  BY DEF Fields
<1>5. /\ s.unique_saddr_count = n
      /\ s.catched_packets_count = Total(t, n, "count")
      /\ s.tot_len = Total(t, n, "tot_len")
      /\ s.avg_catched_packets = Total(t, n, "count") \div n
      /\ s.max_catched_packets = Largest(t, n, "count")
      /\ s.avg_len = Total(t, n, "tot_len") \div n
      /\ s.max_len = Largest(t, n, "tot_len")
      /\ s.tot_tcp = Total(t, n, "tcp")
      /\ s.tot_syn = Total(t, n, "syn")
  BY Zenon DEF Summary
<1>6. /\ s.unique_saddr_count \in Nat /\ s.catched_packets_count \in Nat /\ s.tot_len \in Nat
      /\ s.avg_catched_packets \in Nat /\ s.max_catched_packets \in Nat /\ s.avg_len \in Nat
      /\ s.max_len \in Nat /\ s.tot_tcp \in Nat /\ s.tot_syn \in Nat
  <2> HIDE DEF s
  <2> QED  BY <1>1, <1>2, <1>3, <1>4, <1>5, Zenon
<1>7. p \in {"unique_saddr_count", "catched_packets_count", "tot_len", "avg_catched_packets",
             "max_catched_packets", "avg_len", "max_len", "tot_tcp", "tot_syn"}
  <2>1. \A k \in 1 .. 9 : k = 1 \/ k = 2 \/ k = 3 \/ k = 4 \/ k = 5 \/ k = 6 \/ k = 7 \/ k = 8 \/ k = 9
    OBVIOUS
  <2> QED  BY <2>1 DEF Properties, PropertyOrder
<1> HIDE DEF s
<1>8. s[p] \in Nat
  BY <1>6, <1>7, Zenon
<1> QED  BY <1>8 DEF s

VecInv == \A i \in 0 .. next2 - 1 : \A p \in Properties : table2[i].vec[p] \in Nat

(* A step that closes a period is a dump. *)
LEMMA ClosingDumps ==
  ASSUME [Next]_vars
  PROVE  \/ from_time # 0 /\ \E time : Dump(time)
         \/ UNCHANGED <<table2, next2, closed>>
BY DEF Next, Tick, CatchTraffic, CatchInPeriod, CatchFirst, CatchAndDump, vars

LEMMA DumpVec ==
  ASSUME IndexInv, TypeOK, SaysInv, VecInv, from_time # 0, NEW time, Dump(time)
  PROVE  VecInv'
<1>1. Shape /\ Distinct(table1, next1) /\ window \in Seq(Packet) /\ Says(table1, next1, window)
  BY DEF IndexInv, UniqueAddresses, Distinct, TypeOK, SaysInv
<1>2. next1 \in 1 .. FirstLength
  BY <1>1 DEF IndexInv, DivisionDefined, Shape
<1>3. \A p \in Properties : Summary(table1, next1)[p] \in Nat
  BY <1>1, <1>2, SummaryNatural
<1>4. table2'[FreeIndex].vec = Summary(table1, next1)
  BY <1>1, DumpInspects
<1>5. FreeIndex \in 0 .. SecondLength - 1 /\ next2' = FreeIndex + 1
      /\ \A i \in 0 .. FreeIndex - 1 :
           table2'[i] = IF next2 < SecondLength THEN table2[i] ELSE table2[i + 1]
  BY <1>1, DumpMoves
<1>6. next2 \in 0 .. SecondLength /\ SecondLength \in Nat \ {0}
  BY <1>1, TrafficAssumption DEF Shape
<1>7. ASSUME NEW i \in 0 .. next2' - 1, NEW p \in Properties
      PROVE  table2'[i].vec[p] \in Nat
  <2>1. CASE i = FreeIndex
    BY <1>3, <1>4, <2>1
  <2>2. CASE i # FreeIndex
    <3>1. i \in 0 .. FreeIndex - 1
      BY <1>5, <2>2
    <3>2. CASE next2 < SecondLength
      <4>1. table2'[i] = table2[i] /\ i \in 0 .. next2 - 1
        BY <1>5, <1>6, <3>1, <3>2 DEF FreeIndex
      <4> QED  BY <4>1 DEF VecInv
    <3>3. CASE ~(next2 < SecondLength)
      <4>1. table2'[i] = table2[i + 1] /\ i + 1 \in 0 .. next2 - 1
        BY <1>5, <1>6, <3>1, <3>3 DEF FreeIndex
      <4> QED  BY <4>1 DEF VecInv
    <3> QED  BY <3>2, <3>3
  <2> QED  BY <2>1, <2>2
<1> QED  BY <1>7 DEF VecInv

(* The properties of a slice that can be read are numbers.                  *)
THEOREM VecCorrect == Spec => []VecInv
<1>1. Init => VecInv
  <2> SUFFICES ASSUME Init PROVE VecInv
    OBVIOUS
  <2>1. 0 .. next2 - 1 = {}
    BY DEF Init
  <2> QED  BY <2>1 DEF VecInv
<1>2. IndexInv /\ TypeOK /\ SaysInv /\ VecInv /\ [Next]_vars => VecInv'
  <2> SUFFICES ASSUME IndexInv, TypeOK, SaysInv, VecInv, [Next]_vars PROVE VecInv'
    OBVIOUS
  <2>1. CASE UNCHANGED <<table2, next2, closed>>
    BY <2>1 DEF VecInv
  <2> QED  BY <2>1, ClosingDumps, DumpVec
<1> QED  BY <1>1, <1>2, IndexCorrect, TypeCorrect, SaysCorrect, PTL DEF Spec

(* A value that is not over its limit does not exceed the mean; within its *)
(* word, one over its limit exceeds the mean up to the rounding.           *)
LEMMA ExceedsIs ==
  ASSUME NEW t, NEW n \in Nat, n >= 2, NEW p \in Properties,
         \A i \in 0 .. n - 1 : t[i].vec[p] \in Nat
  PROVE  /\ ~Exceeds(t, n, p) => ~ExcessOver(t, n, p, 0)
         /\ InWord(t, n, p) /\ Exceeds(t, n, p) => ExcessOver(t, n, p, 3)
<1> DEFINE s == SumBefore(t, n, p)
           m == n - 1
           e == EpsPercent
           b == InitialVec[p]
           v == t[m].vec[p]
           l == LimitOf(s, m, e, b, Word)
<1>1. s \in Nat
  <2> DEFINE I == 0 .. n - 2
             f == Before(t, n, p)
  <2>1. IsFiniteSet(I)
    BY FS_Interval
  <2>2. \A i \in I : f[i] \in Nat
    BY DEF Before
  <2>3. SumFunction(f) = SumFunctionOnSet(f, I)
    BY Zenon DEF SumFunction, Before
  <2> HIDE DEF f, I
  <2>4. SumFunctionOnSet(f, I) \in Nat
    BY <2>1, <2>2, SumNatural
  <2> QED  BY <2>3, <2>4 DEF SumBefore, f
<1>2. InWord(t, n, p) <=> s < Word /\ (100 + e) * (s \div m) < Word
  BY Zenon DEF InWord
<1>3. /\ Word \in Nat \ {0} /\ e \in 0 .. 200 /\ b \in Nat /\ b < Word \div 2
      /\ m \in Nat \ {0} /\ v \in Nat
  BY InspectionAssumption
<1>4. Exceeds(t, n, p) <=> v > l
  BY Zenon DEF Exceeds, Limit, LimitOf, Average, SumBefore
<1>5. \A x : ExcessOver(t, n, p, x) <=> Over(s, m, e, b, v, x)
  BY Zenon DEF ExcessOver, Over
<1> HIDE DEF s, m, e, b, v
<1>6. ~(v > l) => ~Over(s, m, e, b, v, 0)
  BY <1>1, <1>3, LimitBelow
<1>7. InWord(t, n, p) /\ v > l => Over(s, m, e, b, v, 3)
  <2> SUFFICES ASSUME InWord(t, n, p), v > l PROVE Over(s, m, e, b, v, 3)
    OBVIOUS
  <2>1. s \in 0 .. Word - 1
    BY <1>1, <1>2, <1>3
  <2> QED  BY <1>2, <1>3, <2>1, LimitIs
<1> HIDE DEF l
<1> QED  BY <1>4, <1>5, <1>6, <1>7, Zenon

(* A slice is flagged when a value exceeds the mean of those before it by  *)
(* the percentage and the constant, wraps or not; where nothing wraps,     *)
(* only when it comes within 3 of that.                                    *)
THEOREM FlagsMeanExcessHolds == Spec => FlagsMeanExcess
<1> DEFINE A ==
      closed' # closed /\ next2' >= 2 =>
        LET crit == table2'[next2' - 1].crit
        IN  /\ crit = NoCrit => \A p \in Properties : ~ExcessOver(table2', next2', p, 0)
            /\ crit \in Properties /\ InWord(table2', next2', crit) => ExcessOver(table2', next2', crit, 3)
<1>1. IndexInv /\ VecInv' /\ [Next]_vars => A
  <2> SUFFICES ASSUME IndexInv, VecInv', [Next]_vars, closed' # closed, next2' >= 2
               PROVE  A
    OBVIOUS
  <2>1. PICK time : Dump(time)
    BY ClosingDumps
  <2>2. Shape
    BY DEF IndexInv
  <2> DEFINE u == table2'
             n == next2'
             j == FreeIndex
  <2>3. /\ n = j + 1 /\ j \in 0 .. SecondLength - 1 /\ SecondLength \in Nat
        /\ n \in Nat /\ n >= 2 /\ n - 1 = j
    BY <2>1, <2>2, DumpMoves, TrafficAssumption
  <2>4. PICK t : /\ \A p : \A i \in 0 .. j : u[i].vec[p] = t[i].vec[p]
                 /\ u[j].crit = Critical(t, n)
    BY <2>1, <2>2, DumpInspects
  <2>5. \A p : Before(u, n, p) = Before(t, n, p)
    <3>1. \A i \in 0 .. n - 2 : i \in 0 .. j
      BY <2>3
    <3> QED  BY <2>4, <3>1 DEF Before
  <2>6. \A p : /\ InWord(u, n, p) <=> InWord(t, n, p)
               /\ \A x : ExcessOver(u, n, p, x) <=> ExcessOver(t, n, p, x)
    <3>1. \A p : SumBefore(u, n, p) = SumBefore(t, n, p)
      BY <2>5, Zenon DEF SumBefore
    <3>2. \A p : u[n - 1].vec[p] = t[n - 1].vec[p]
      BY <2>3, <2>4
    <3> QED  BY <3>1, <3>2, Zenon DEF InWord, ExcessOver
  <2>7. \A p \in Properties : \A i \in 0 .. n - 1 : t[i].vec[p] \in Nat
    BY <2>3, <2>4 DEF VecInv
  <2> HIDE DEF u, n, j
  <2>8. ASSUME NEW p \in Properties
        PROVE  /\ ~Exceeds(t, n, p) => ~ExcessOver(u, n, p, 0)
               /\ InWord(u, n, p) /\ Exceeds(t, n, p) => ExcessOver(u, n, p, 3)
    <3>1. /\ ~Exceeds(t, n, p) => ~ExcessOver(t, n, p, 0)
          /\ InWord(t, n, p) /\ Exceeds(t, n, p) => ExcessOver(t, n, p, 3)
      BY <2>3, <2>7, ExceedsIs
    <3> QED  BY <2>6, <3>1
  <2> DEFINE crit == u[n - 1].crit
  <2>9. crit = Critical(t, n)
    BY <2>3, <2>4
  <2>10. crit = NoCrit => \A p \in Properties : ~ExcessOver(u, n, p, 0)
    BY <2>8, <2>9, CriticalIs
  <2>11. crit \in Properties /\ InWord(u, n, crit) => ExcessOver(u, n, crit, 3)
    <3> HIDE DEF crit
    <3> QED  BY <2>8, <2>9, CriticalIs
  <2> QED  BY <2>10, <2>11, Zenon DEF u, n
<1> QED  BY <1>1, IndexCorrect, VecCorrect, PTL DEF Spec, FlagsMeanExcess
=============================================================================
