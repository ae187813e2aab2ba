----------------------------- MODULE FigureProofs -----------------------------
(* The engines, over any history: a passed limit is told whatever the units and  *)
(* the rounding, days and driving never make anything better, and the screens    *)
(* agree about which paper has lapsed. The lemmas on sums are those of every     *)
(* total in the reports.                                                         *)
EXTENDS Upkeep, Obligations, TLAPS, FiniteSetTheorems, WellFoundedInduction

(* A set of numbers that is not empty has a least one.                           *)

LEMMA LeastNumber ==
  ASSUME NEW S \in SUBSET Nat, S # {}
  PROVE  \E n \in S : \A m \in S : n <= m
<1> DEFINE R == {p \in Nat \X Nat : p[1] < p[2]}
<1>1. IsWellFoundedOn(R, Nat)
  BY NatLessThanWellFounded DEF OpToRel
<1>2. \A m, n \in Nat : m < n => <<m, n>> \in R
  OBVIOUS
<1> HIDE DEF R
<1>3. PICK n \in S : \A m \in S : ~(<<m, n>> \in R)
  BY <1>1, WFMin
<1>4. ASSUME NEW m \in S PROVE n <= m
  <2>1. n \in Nat /\ m \in Nat /\ ~(m < n)
    BY <1>2, <1>3
  <2> QED BY <2>1
<1> QED BY <1>4

-----------------------------------------------------------------------------
(* Sums. A family of finite sets that is not empty has a member of which no      *)
(* set with one element less is in it: what holds of {}, and of a set when it    *)
(* holds of those with one element less, holds of all.                           *)

LEMMA SmallestSet ==
  ASSUME NEW S, IsFiniteSet(S), NEW F \in SUBSET SUBSET S, F # {}
  PROVE  \E s \in F : \A x \in s : s \ {x} \notin F
<1> DEFINE C == {Cardinality(s) : s \in F}
<1>1. \A s \in F : IsFiniteSet(s) /\ Cardinality(s) \in Nat
  BY FS_Subset, FS_CardinalityType
<1>2. C \in SUBSET Nat /\ C # {}
  BY <1>1
<1> HIDE DEF C
<1>3. PICK n \in C : \A m \in C : n <= m
  BY <1>2, LeastNumber
<1>4. PICK s \in F : n = Cardinality(s)
  BY <1>3 DEF C
<1>5. ASSUME NEW x \in s, s \ {x} \in F PROVE FALSE
  <2>1. Cardinality(s \ {x}) = Cardinality(s) - 1
    BY <1>1, <1>5, FS_RemoveElement
  <2>2. Cardinality(s \ {x}) \in C
    BY <1>5 DEF C
  <2> QED BY <1>1, <1>3, <1>4, <2>1, <2>2
<1> QED BY <1>5

LEMMA GreatestNumber ==
  ASSUME NEW T \in SUBSET Int, IsFiniteSet(T), T # {}
  PROVE  \E n \in T : \A m \in T : n >= m
<1> DEFINE F == {t \in SUBSET T : t # {} /\ ~ \E n \in t : \A m \in t : n >= m}
<1>1. F = {}
  <2> SUFFICES ASSUME F # {} PROVE FALSE
    OBVIOUS
  <2>1. PICK t \in F : \A x \in t : t \ {x} \notin F
    BY SmallestSet
  <2>2. PICK x \in t : t \ {x} # {}
    <3>1. PICK x \in t : x \in Int
      BY <2>1
    <3>2. t \ {x} = {} => \A m \in t : x >= m
      BY <3>1
    <3> QED BY <2>1, <3>1, <3>2
  <2>3. PICK y \in t \ {x} : \A m \in t \ {x} : y >= m
    BY <2>1, <2>2
  <2>4. x \in Int /\ y \in Int /\ t \subseteq Int
    BY <2>1
  <2>5. x >= y => \A m \in t : x >= m
    BY <2>3, <2>4
  <2>6. y >= x => \A m \in t : y >= m
    BY <2>3, <2>4
  <2> QED BY <2>1, <2>3, <2>4, <2>5, <2>6
<1> QED BY <1>1

Pick(s) == CHOOSE x \in s : TRUE
Body(f, S, g) == [s \in SUBSET S |-> IF s = {} THEN 0 ELSE f[Pick(s)] + g[s \ {Pick(s)}]]

\* The sum over a part of the domain.
Over(f, T) == SumOf([x \in T |-> f[x]])

LEMMA PickIn == \A s : s # {} => Pick(s) \in s
BY DEF Pick

LEMMA SumIsFold ==
  ASSUME NEW T, NEW f
  PROVE  Over(f, T) = (CHOOSE g : g = Body(f, T, g))[T]
<1> DEFINE h == [x \in T |-> f[x]]
<1>1. SumOf(h) = (CHOOSE g : g = Body(h, T, g))[T]
  <2>1. DOMAIN h = T
    OBVIOUS
  <2> HIDE DEF h
  <2> QED BY <2>1 DEF SumOf, FoldFunction, FoldFunctionOnSet, MapThenFoldSet, Body, Pick
<1>2. \A g : Body(h, T, g) = Body(f, T, g)
  BY PickIn DEF Body
<1> QED BY <1>1, <1>2 DEF Over

\* The recursion has a solution over a finite domain.
LEMMA FoldExists ==
  ASSUME NEW S, IsFiniteSet(S), NEW f \in [S -> Int]
  PROVE  \E g \in [SUBSET S -> Int] : g = Body(f, S, g)
<1> DEFINE Right(g, n) == \A s \in SUBSET S : Cardinality(s) <= n => g[s] = Body(f, S, g)[s]
           Bad == {n \in Nat : ~ \E g \in [SUBSET S -> Int] : Right(g, n)}
<1>1. \A s \in SUBSET S : IsFiniteSet(s) /\ Cardinality(s) \in Nat /\ Cardinality(s) <= Cardinality(S)
  BY FS_Subset, FS_CardinalityType
<1>2. \A g \in [SUBSET S -> Int] : Body(f, S, g) \in [SUBSET S -> Int]
  BY PickIn DEF Body
<1>3. Bad = {}
  <2> SUFFICES ASSUME Bad # {} PROVE FALSE
    OBVIOUS
  <2>1. PICK n \in Bad : \A m \in Bad : n <= m
    BY LeastNumber
  <2>2. n # 0
    <3>1. \A s \in SUBSET S : Cardinality(s) <= 0 => s = {}
      BY <1>1, FS_EmptySet
    <3> DEFINE z == [s \in SUBSET S |-> 0]
    <3>2. z \in [SUBSET S -> Int] /\ Right(z, 0)
      BY <3>1 DEF Body
    <3> QED BY <3>2, <2>1
  <2>3. n - 1 \in Nat /\ n - 1 \notin Bad
    <3>1. n \in Nat
      BY <2>1
    <3> HIDE DEF Bad
    <3> QED BY <2>1, <2>2, <3>1
  <2>4. PICK g \in [SUBSET S -> Int] : Right(g, n - 1)
    BY <2>3
  <2> DEFINE k == Body(f, S, g)
  <2>5. Right(k, n)
    <3>1. ASSUME NEW s \in SUBSET S, Cardinality(s) <= n, s # {} 
          PROVE  k[s] = Body(f, S, k)[s]
      <4> DEFINE t == s \ {Pick(s)}
      <4>1. Cardinality(t) = Cardinality(s) - 1 /\ t \in SUBSET S
        BY <1>1, <3>1, PickIn, FS_RemoveElement
      <4>2. g[t] = k[t]
        BY <2>1, <2>4, <4>1, <1>1, <3>1
      <4> HIDE DEF k
      <4>3. Body(f, S, k)[s] = f[Pick(s)] + k[t]
        BY <3>1 DEF Body
      <4>4. k[s] = f[Pick(s)] + g[t]
        BY <3>1 DEF Body, k
      <4> QED BY <4>2, <4>3, <4>4
    <3>2. ASSUME NEW s \in SUBSET S, s = {} PROVE k[s] = Body(f, S, k)[s]
      BY <3>2 DEF Body
    <3> QED BY <3>1, <3>2
  <2>6. k \in [SUBSET S -> Int]
    BY <1>2
  <2> HIDE DEF k
  <2> QED BY <2>1, <2>5, <2>6
<1>4. PICK g \in [SUBSET S -> Int] : Right(g, Cardinality(S))
  BY <1>1, <1>3
<1>5. g = Body(f, S, g)
  <2>1. \A s \in SUBSET S : g[s] = Body(f, S, g)[s]
    BY <1>1, <1>4
  <2>2. Body(f, S, g) \in [SUBSET S -> Int]
    BY <1>2
  <2> QED BY <2>1, <2>2
<1> QED BY <1>5

\* And only one, on whatever part of the domain it is solved.
LEMMA FoldIsUnique ==
  ASSUME NEW S, IsFiniteSet(S), NEW T \in SUBSET S, NEW f,
         NEW g, g = Body(f, S, g), NEW h, h = Body(f, T, h)
  PROVE  \A s \in SUBSET T : g[s] = h[s]
<1> DEFINE F == {s \in SUBSET T : g[s] # h[s]}
<1> SUFFICES ASSUME F # {} PROVE FALSE
  OBVIOUS
<1>1. F \in SUBSET SUBSET S
  OBVIOUS
<1>2. PICK s \in F : \A x \in s : s \ {x} \notin F
  BY <1>1, SmallestSet
<1>3. s # {}
  BY <1>2 DEF Body
<1>4. s \ {Pick(s)} \notin F /\ s \ {Pick(s)} \in SUBSET T
  BY <1>2, <1>3, PickIn
<1>5. g[s] = f[Pick(s)] + g[s \ {Pick(s)}]
  BY <1>2, <1>3 DEF Body
<1>6. h[s] = f[Pick(s)] + h[s \ {Pick(s)}]
  BY <1>2, <1>3 DEF Body
<1> QED BY <1>2, <1>4, <1>5, <1>6

LEMMA SumSteps ==
  ASSUME NEW S, IsFiniteSet(S), NEW f \in [S -> Int], NEW T \in SUBSET S
  PROVE  /\ Over(f, T) \in Int
         /\ Over(f, {}) = 0
         /\ T # {} => Over(f, T) = f[Pick(T)] + Over(f, T \ {Pick(T)})
<1> DEFINE Fold(t) == CHOOSE g : g = Body(f, t, g)
<1>1. PICK g \in [SUBSET S -> Int] : g = Body(f, S, g)
  BY FoldExists
<1>2. ASSUME NEW t \in SUBSET S PROVE Over(f, t) = g[t]
  <2>1. IsFiniteSet(t)
    BY FS_Subset
  <2>2. \E h : h = Body(f, t, h)
    <3> DEFINE k == [x \in t |-> f[x]]
    <3>1. k \in [t -> Int]
      OBVIOUS
    <3>2. \A h : Body(k, t, h) = Body(f, t, h)
      BY PickIn DEF Body
    <3> HIDE DEF k
    <3>3. PICK h \in [SUBSET t -> Int] : h = Body(k, t, h)
      BY <2>1, <3>1, FoldExists
    <3> QED BY <3>2, <3>3
  <2>3. Fold(t) = Body(f, t, Fold(t))
    BY <2>2
  <2>4. \A s \in SUBSET t : g[s] = Fold(t)[s]
    <3> HIDE DEF Fold
    <3> QED BY <1>1, <2>3, FoldIsUnique
  <2> QED BY <2>4, SumIsFold
<1>3. Over(f, {}) = 0
  <2>1. g[{}] = Body(f, S, g)[{}]
    BY <1>1
  <2> QED BY <1>2, <2>1 DEF Body
<1>4. ASSUME T # {} PROVE Over(f, T) = f[Pick(T)] + Over(f, T \ {Pick(T)})
  <2>1. g[T] = Body(f, S, g)[T]
    BY <1>1
  <2> QED BY <1>2, <1>4, <2>1 DEF Body
<1> QED BY <1>1, <1>2, <1>3, <1>4

\* It does not matter which is taken first.
LEMMA SumTake ==
  ASSUME NEW S, IsFiniteSet(S), NEW f \in [S -> Int], NEW T \in SUBSET S, NEW x \in T
  PROVE  Over(f, T) = f[x] + Over(f, T \ {x})
<1> DEFINE Bad == {t \in SUBSET S : \E y \in t : Over(f, t) # f[y] + Over(f, t \ {y})}
<1>1. Bad = {}
  <2> SUFFICES ASSUME Bad # {} PROVE FALSE
    OBVIOUS
  <2>1. PICK t \in Bad : \A y \in t : t \ {y} \notin Bad
    BY SmallestSet
  <2>2. PICK y \in t : Over(f, t) # f[y] + Over(f, t \ {y})
    BY <2>1
  <2>3. PICK p \in t : p = Pick(t)
    BY <2>2, PickIn
  <2>4. Over(f, t) = f[p] + Over(f, t \ {p})
    BY <2>1, <2>2, <2>3, SumSteps
  <2>5. p # y
    BY <2>2, <2>4
  <2>6. Over(f, t \ {p}) = f[y] + Over(f, (t \ {p}) \ {y})
    BY <2>1, <2>5
  <2>7. Over(f, t \ {y}) = f[p] + Over(f, (t \ {y}) \ {p})
    BY <2>1, <2>5
  <2>8. (t \ {p}) \ {y} = (t \ {y}) \ {p} /\ f[p] \in Int /\ f[y] \in Int
    BY <2>1
  <2>9. PICK r \in Int : r = Over(f, (t \ {y}) \ {p})
    BY <2>1, SumSteps
  <2>10. Over(f, t \ {p}) = f[y] + r
    BY <2>6, <2>8, <2>9
  <2>11. Over(f, t \ {y}) = f[p] + r
    BY <2>7, <2>9
  <2> QED BY <2>2, <2>4, <2>8, <2>9, <2>10, <2>11
<1> QED BY <1>1

\* Two parts that have nothing in common.
LEMMA SumSplit ==
  ASSUME NEW S, IsFiniteSet(S), NEW f \in [S -> Int],
         NEW A \in SUBSET S, NEW B \in SUBSET S, A \cap B = {}
  PROVE  Over(f, A \cup B) = Over(f, A) + Over(f, B)
<1> DEFINE Bad == {t \in SUBSET B : Over(f, A \cup t) # Over(f, A) + Over(f, t)}
<1>1. Bad = {}
  <2> SUFFICES ASSUME Bad # {} PROVE FALSE
    OBVIOUS
  <2>1. PICK t \in Bad : \A y \in t : t \ {y} \notin Bad
    <3>1. Bad \in SUBSET SUBSET S
      OBVIOUS
    <3> HIDE DEF Bad
    <3> QED BY <3>1, SmallestSet
  <2>2. t # {}
    <3>1. A \cup {} = A /\ Over(f, {}) = 0 /\ Over(f, A) \in Int
      BY SumSteps
    <3> QED BY <2>1, <3>1
  <2>3. PICK y \in t : TRUE
    BY <2>2
  <2>4. (A \cup t) \ {y} = A \cup (t \ {y})
    BY <2>1, <2>3
  <2>5. Over(f, A \cup t) = f[y] + Over(f, A \cup (t \ {y}))
    BY <2>1, <2>3, <2>4, SumTake
  <2>6. Over(f, t) = f[y] + Over(f, t \ {y})
    BY <2>1, <2>3, SumTake
  <2>7. Over(f, A \cup (t \ {y})) = Over(f, A) + Over(f, t \ {y})
    BY <2>1, <2>3
  <2>8. Over(f, A) \in Int /\ Over(f, t \ {y}) \in Int /\ f[y] \in Int
    BY <2>1, SumSteps
  <2> QED BY <2>1, <2>5, <2>6, <2>7, <2>8
<1> QED BY <1>1

\* Parts that have nothing in common, one for each key.
LEMMA SumByParts ==
  ASSUME NEW S, IsFiniteSet(S), NEW f \in [S -> Int], NEW K, IsFiniteSet(K),
         NEW part \in [K -> SUBSET S],
         \A a, b \in K : a # b => part[a] \cap part[b] = {}
  PROVE  SumOf([a \in K |-> Over(f, part[a])]) = Over(f, UNION {part[a] : a \in K})
<1> DEFINE h == [a \in K |-> Over(f, part[a])]
           All(L) == UNION {part[a] : a \in L}
           Bad == {L \in SUBSET K : Over(h, L) # Over(f, All(L))}
<1>1. h \in [K -> Int]
  BY SumSteps
<1>2. Bad = {}
  <2> SUFFICES ASSUME Bad # {} PROVE FALSE
    OBVIOUS
  <2>1. PICK L \in Bad : \A a \in L : L \ {a} \notin Bad
    <3>1. Bad \in SUBSET SUBSET K
      OBVIOUS
    <3> HIDE DEF Bad
    <3> QED BY <3>1, SmallestSet
  <2>2. L # {}
    <3>1. All({}) = {} /\ Over(f, {}) = 0
      BY SumSteps
    <3>2. Over(h, {}) = 0
      <4> HIDE DEF h
      <4> QED BY <1>1, SumSteps
    <3> HIDE DEF h
    <3> QED BY <2>1, <3>1, <3>2
  <2>3. PICK a \in L : a \in K
    BY <2>1, <2>2
  <2>4. h[a] = Over(f, part[a])
    BY <2>3
  <2>5. All(L) = part[a] \cup All(L \ {a}) /\ part[a] \cap All(L \ {a}) = {}
    BY <2>1, <2>3
  <2>6. All(L \ {a}) \in SUBSET S /\ part[a] \in SUBSET S
    BY <2>1, <2>3
  <2>7. Over(h, L \ {a}) = Over(f, All(L \ {a}))
    BY <2>1, <2>3
  <2>8. Over(h, L) # Over(f, All(L)) /\ L \in SUBSET K
    BY <2>1
  <2> HIDE DEF h, All, Bad
  <2>9. Over(f, All(L)) = Over(f, part[a]) + Over(f, All(L \ {a}))
    <3>1. PICK B \in SUBSET S : B = All(L \ {a})
      BY <2>6
    <3>2. PICK A \in SUBSET S : A = part[a]
      BY <2>6
    <3>3. All(L) = A \cup B /\ A \cap B = {}
      BY <2>5, <3>1, <3>2
    <3>4. Over(f, A \cup B) = Over(f, A) + Over(f, B)
      BY <3>3, SumSplit
    <3> QED BY <3>1, <3>2, <3>3, <3>4
  <2>10. Over(h, L) = h[a] + Over(h, L \ {a})
    BY <1>1, <2>3, <2>8, SumTake
  <2> QED BY <2>4, <2>7, <2>8, <2>9, <2>10
<1>3. Over(h, K) = Over(f, All(K))
  BY <1>2
<1>4. [a \in K |-> h[a]] = h
  OBVIOUS
<1> QED BY <1>3, <1>4 DEF Over

\* Term by term, up to a factor on each side.
LEMMA SumAtMost ==
  ASSUME NEW S, IsFiniteSet(S), NEW f \in [S -> Int], NEW h \in [S -> Int],
         NEW T \in SUBSET S, NEW a \in Int, NEW b \in Int, \A x \in T : a * f[x] <= b * h[x]
  PROVE  a * Over(f, T) <= b * Over(h, T)
<1> DEFINE Bad == {t \in SUBSET T : ~ (a * Over(f, t) <= b * Over(h, t))}
<1>1. Bad = {}
  <2> SUFFICES ASSUME Bad # {} PROVE FALSE
    OBVIOUS
  <2>1. PICK t \in Bad : \A x \in t : t \ {x} \notin Bad
    <3>1. Bad \in SUBSET SUBSET S
      OBVIOUS
    <3> HIDE DEF Bad
    <3> QED BY <3>1, SmallestSet
  <2>2. t # {}
    <3>1. Over(f, {}) = 0 /\ Over(h, {}) = 0
      BY SumSteps
    <3>2. a * 0 <= b * 0
      OBVIOUS
    <3> QED BY <2>1, <3>1, <3>2
  <2>3. PICK x \in t : x \in T
    BY <2>1, <2>2
  <2>4. Over(f, t) = f[x] + Over(f, t \ {x}) /\ Over(h, t) = h[x] + Over(h, t \ {x})
    BY <2>1, <2>3, SumTake
  <2>5. a * f[x] <= b * h[x] /\ f[x] \in Int /\ h[x] \in Int
    BY <2>3
  <2>6. a * Over(f, t \ {x}) <= b * Over(h, t \ {x})
    BY <2>1, <2>3
  <2>7. PICK u, v \in Int : u = Over(f, t \ {x}) /\ v = Over(h, t \ {x})
    BY <2>1, SumSteps
  <2>8. ~ (a * (f[x] + u) <= b * (h[x] + v))
    BY <2>1, <2>4, <2>7
  <2>9. a * (f[x] + u) = a * f[x] + a * u /\ b * (h[x] + v) = b * h[x] + b * v
    BY <2>5, <2>7
  <2>10. a * u <= b * v
    BY <2>6, <2>7
  <2> QED BY <2>5, <2>8, <2>9, <2>10
<1> QED BY <1>1
LEMMA SumBelow ==
  ASSUME NEW S, IsFiniteSet(S), NEW f \in [S -> Int], NEW h \in [S -> Int],
         NEW T \in SUBSET S, T # {},
         NEW a \in Int, NEW b \in Int, \A x \in T : a * f[x] < b * h[x]
  PROVE  a * Over(f, T) < b * Over(h, T)
<1>1. PICK x \in T : TRUE
  OBVIOUS
<1>2. Over(f, T) = f[x] + Over(f, T \ {x}) /\ Over(h, T) = h[x] + Over(h, T \ {x})
  BY SumTake
<1>3. PICK u, v \in Int : u = Over(f, T \ {x}) /\ v = Over(h, T \ {x})
  BY SumSteps
<1>4. a * u <= b * v
  <2>1. \A y \in T \ {x} : a * f[y] <= b * h[y]
    <3> TAKE y \in T \ {x}
    <3>1. f[y] \in Int /\ h[y] \in Int /\ a * f[y] < b * h[y]
      OBVIOUS
    <3>2. a * f[y] \in Int /\ b * h[y] \in Int
      BY <3>1
    <3> QED BY <3>1, <3>2
  <2>2. a * Over(f, T \ {x}) <= b * Over(h, T \ {x})
    BY <2>1, SumAtMost
  <2> QED BY <1>3, <2>2
<1>5. f[x] \in Int /\ h[x] \in Int /\ a * f[x] < b * h[x]
  OBVIOUS
<1>6. a * (f[x] + u) = a * f[x] + a * u /\ b * (h[x] + v) = b * h[x] + b * v
  BY <1>3, <1>5
<1> QED BY <1>2, <1>3, <1>4, <1>5, <1>6

LEMMA SumIsPositive ==
  ASSUME NEW S, IsFiniteSet(S), NEW f \in [S -> Int],
         NEW T \in SUBSET S, T # {}, \A x \in T : f[x] > 0
  PROVE  Over(f, T) > 0
<1>1. PICK a, b \in Int : a = 0 /\ b = 1
  OBVIOUS
<1>2. \A x \in T : a * f[x] < b * f[x]
  BY <1>1
<1>3. a * Over(f, T) < b * Over(f, T)
  BY <1>2, SumBelow
<1>4. Over(f, T) \in Int
  BY SumSteps
<1> QED BY <1>1, <1>3, <1>4

\* What is nowhere negative adds up to no less over more of it.
LEMMA SumOfMore ==
  ASSUME NEW S, IsFiniteSet(S), NEW f \in [S -> Int],
         NEW A \in SUBSET S, NEW B \in SUBSET A, \A x \in A : f[x] >= 0
  PROVE  Over(f, B) <= Over(f, A)
<1> DEFINE C == A \ B
<1>1. C \in SUBSET S /\ B \in SUBSET S /\ B \cap C = {} /\ A = B \cup C
  OBVIOUS
<1>2. \A x \in C : 0 * f[x] <= 1 * f[x]
  OBVIOUS
<1> HIDE DEF C
<1>3. 0 * Over(f, C) <= 1 * Over(f, C)
  BY <1>1, <1>2, SumAtMost
<1>4. Over(f, A) = Over(f, B) + Over(f, C)
  BY <1>1, SumSplit
<1>5. Over(f, B) \in Int /\ Over(f, C) \in Int
  BY <1>1, SumSteps
<1> QED BY <1>3, <1>4, <1>5

\* The same terms under other names.
Renames(f, S, name, W) ==
  /\ IsFiniteSet(S) /\ f \in [S -> Int]
  /\ IsFiniteSet(W) /\ name \in [W -> S]
  /\ \A v, w \in W : name[v] = name[w] => v = w

LEMMA SumRenamed ==
  ASSUME NEW f, NEW S, NEW name, NEW W, Renames(f, S, name, W)
  PROVE  SumOf([w \in W |-> f[name[w]]]) = Over(f, {name[w] : w \in W})
<1> USE DEF Renames
<1> DEFINE part == [w \in W |-> {name[w]}]
<1>1. part \in [W -> SUBSET S] /\ \A v, w \in W : v # w => part[v] \cap part[w] = {}
  OBVIOUS
<1>2. UNION {part[w] : w \in W} = {name[w] : w \in W}
  OBVIOUS
<1>3. ASSUME NEW w \in W PROVE Over(f, part[w]) = f[name[w]]
  <2>1. Over(f, {name[w]}) = f[name[w]] + Over(f, {name[w]} \ {name[w]})
    BY SumTake
  <2>2. {name[w]} \ {name[w]} = {} /\ Over(f, {}) = 0 /\ f[name[w]] \in Int
    BY SumSteps
  <2> QED BY <2>1, <2>2
<1> HIDE DEF part
<1>4. SumOf([w \in W |-> Over(f, part[w])]) = Over(f, UNION {part[w] : w \in W})
  BY <1>1, SumByParts
<1>5. [w \in W |-> Over(f, part[w])] = [w \in W |-> f[name[w]]]
  BY <1>3
<1> QED BY <1>2, <1>4, <1>5

-----------------------------------------------------------------------------
(* Limits of a rule: the sign of what is left survives the rounding into a unit.  *)

PeriodRows ==
  [at : Optional(Nat), unit : Units, off : BOOLEAN, offAt : Optional(Nat),
   tread : Optional(Nat), when : Optional(Nat)]

\* A set has at most one open period, which has no reading of its end, and its
\* measurements have days that have come.
UpkeepInv ==
  /\ today \in Nat /\ reading \in Optional(ReadingRows) /\ rule \in RuleRows
  /\ cover \in CoverRows /\ periods \in Seq(PeriodRows)
  /\ \A i, j \in CurrentInstallation : i = j
  /\ \A i \in CurrentInstallation : periods[i].offAt = Unset
  /\ \A i \in Treads : periods[i].when \in 0..today

LEMMA UnsetIsNothing ==
  /\ Unset \notin Nat /\ Unset \notin Int /\ Unset \notin Units /\ Unset \notin Distances
  /\ Unset \notin ReadingRows
BY UpkeepConstants

LEMMA SignKept ==
  ASSUME NEW m \in Int, NEW u \in Units
  PROVE  /\ InUnit(m, u) \in Int
         /\ m <= -Factor[u] => InUnit(m, u) < 0
         /\ InUnit(m, u) < 0 => m < 0
         /\ InUnit(m, u) * Factor[u] \in Int
         /\ InUnit(m, u) * Factor[u] < 0 <=> InUnit(m, u) < 0
<1>1. PICK f \in Nat \ {0} : f = Factor[u]
  BY UpkeepConstants
<1>2. \A a \in Int : (2 * a + f) \div (2 * f) \in Int
  OBVIOUS
<1> DEFINE q == (2 * m + f) \div (2 * f)
<1>3. q \in Int /\ 2 * f * q <= 2 * m + f /\ 2 * m + f < 2 * f * q + 2 * f
  OBVIOUS
<1>4. InUnit(m, u) = q
  BY <1>1 DEF InUnit
<1> HIDE DEF q
<1>5. q >= 0 => f * q >= 0
  BY <1>3
<1>6. q < 0 => f * q <= -f
  BY <1>3
<1> QED BY <1>1, <1>3, <1>4, <1>5, <1>6

GradeNames == {"OK", "DUE_SOON", "DUE", "OVERDUE"}

LEMMA Ranks ==
  /\ DOMAIN Grades = 1..4
  /\ \A i \in 1..4 : Grades[i] \in GradeNames
  /\ \A i, j \in 1..4 : Grades[i] = Grades[j] => i = j
  /\ \A s \in GradeNames : \E i \in 1..4 : Grades[i] = s
  /\ \A s \in GradeNames : s # Unset
BY UpkeepConstants DEF Grades, GradeNames

LEMMA RankOf ==
  /\ Rank(Unset) = 0
  /\ \A s \in GradeNames : Rank(s) \in 1..4 /\ Grades[Rank(s)] = s
  /\ \A s \in GradeNames : Rank(s) = 4 <=> s = "OVERDUE"
<1>1. Rank(Unset) = 0
  BY DEF Rank, Given
<1>2. ASSUME NEW s \in GradeNames PROVE Rank(s) \in 1..4 /\ Grades[Rank(s)] = s
  <2>1. Rank(s) = CHOOSE i \in 1..4 : Grades[i] = s
    BY Ranks DEF Rank, Given
  <2> QED BY <2>1, Ranks
<1>3. Grades[4] = "OVERDUE" /\ 4 \in 1..4
  BY DEF Grades
<1> QED BY <1>1, <1>2, <1>3, Ranks

\* The worse of two grades is the worst there is exactly when one of them is.
LEMMA WorstIsEither ==
  ASSUME NEW a \in Optional(GradeNames), NEW b \in Optional(GradeNames)
  PROVE  Worst(a, b) = "OVERDUE" <=> a = "OVERDUE" \/ b = "OVERDUE"
<1>1. "OVERDUE" \in GradeNames /\ "OVERDUE" # Unset /\ "OK" # "OVERDUE"
  BY Ranks DEF GradeNames
<1>2. Rank(a) \in 0..4 /\ Rank(b) \in 0..4
  BY RankOf DEF Optional
<1>3. /\ Rank(a) = 4 <=> a = "OVERDUE"
      /\ Rank(b) = 4 <=> b = "OVERDUE"
  BY RankOf, <1>1 DEF Optional
<1>4. Rank(a) = 0 <=> ~Given(a)
  BY RankOf, Ranks DEF Optional, Given
<1>5. Rank(b) = 0 <=> ~Given(b)
  BY RankOf, Ranks DEF Optional, Given
<1> QED BY <1>1, <1>2, <1>3, <1>4, <1>5 DEF Worst

LEMMA StatusOf ==
  ASSUME NEW left \in Int, NEW threshold \in Int
  PROVE  /\ StatusFromLeft(left, threshold) \in GradeNames
         /\ StatusFromLeft(left, threshold) = "OVERDUE" <=> left < 0
<1>1. left < 0 \/ left = 0 \/ left > 0
  OBVIOUS
<1> QED BY <1>1 DEF StatusFromLeft, GradeNames

LEMMA RuleFacts ==
  ASSUME UpkeepInv
  PROVE  /\ UnitOf(rule) \in Units
         /\ ThresholdMetres(rule) \in Int
         /\ UsesDate(rule) => rule.days \in Nat
         /\ Given(rule.on) => rule.on \in Nat
         /\ UsesDistance(rule) => rule.distance \in Nat
         /\ Given(rule.odo) => Metres(rule.odo) \in Nat
         /\ Given(reading) => Metres(reading) \in Nat
<1>1. rule \in RuleRows /\ reading \in Optional(ReadingRows)
  BY DEF UpkeepInv
<1>2. /\ rule.days \in Optional(Nat) /\ rule.distance \in Optional(Nat)
      /\ rule.unit \in Optional(Units) /\ rule.warnDistance \in Optional(Nat)
      /\ rule.on \in Optional(Nat) /\ rule.odo \in Optional(Distances)
  BY <1>1 DEF RuleRows
<1>3. Given(reading) => reading.value \in Nat /\ reading.unit \in Units
  BY <1>1 DEF Optional, ReadingRows, Given
<1>4. Given(rule.odo) => rule.odo.value \in Nat /\ rule.odo.unit \in Units
  BY <1>2 DEF Optional, Distances, Given
<1>5. \A u \in Units : Factor[u] \in Nat /\ ThresholdOf[u] \in Nat
  BY UpkeepConstants
<1>6. "MILES" \in Units
  BY DEF Units
<1>7. UnitOf(rule) \in Units
  BY <1>2, <1>3, <1>4, <1>6 DEF UnitOf, Optional, Given
<1>8. (IF Given(rule.warnDistance) THEN rule.warnDistance ELSE ThresholdOf[UnitOf(rule)]) \in Nat
  BY <1>2, <1>5, <1>7 DEF Optional, Given
<1>9. ThresholdMetres(rule) \in Int
  BY <1>5, <1>7, <1>8 DEF ThresholdMetres
<1> QED BY <1>2, <1>3, <1>4, <1>5, <1>7, <1>9
        DEF UsesDate, UsesDistance, Optional, Given, Metres

LEMMA OverdueIsSeen == UpkeepInv => LimitsAreSeen
<1> SUFFICES ASSUME UpkeepInv PROVE LimitsAreSeen
  OBVIOUS
<1>1. today \in Nat
  BY DEF UpkeepInv
<1>2. /\ DateStatus(rule) \in Optional(GradeNames)
      /\ DateStatus(rule) = "OVERDUE" <=> PastDate
  <2>1. CASE UsesDate(rule) /\ Given(rule.on)
    <3> DEFINE left == rule.on + rule.days - today
               threshold == IF Given(rule.warnDays) THEN rule.warnDays ELSE ThresholdDays
    <3>1. left \in Int /\ (left < 0 <=> today > rule.on + rule.days)
      BY <1>1, <2>1, RuleFacts
    <3>2. threshold \in Int
      BY UpkeepConstants DEF UpkeepInv, RuleRows, Optional, Given
    <3>3. DaysLeft(rule) = left /\ Given(left)
      BY <2>1, <3>1, UnsetIsNothing DEF DaysLeft, Given
    <3>4. DateStatus(rule) = StatusFromLeft(left, threshold)
      BY <3>3 DEF DateStatus
    <3> HIDE DEF left, threshold
    <3> QED BY <2>1, <3>1, <3>2, <3>4, StatusOf DEF PastDate, Optional
  <2>2. CASE ~(UsesDate(rule) /\ Given(rule.on))
    <3>1. DateStatus(rule) = Unset
      BY <2>2 DEF DateStatus, DaysLeft, Given
    <3> QED BY <2>2, <3>1, Ranks DEF PastDate, Optional, GradeNames
  <2> QED BY <2>1, <2>2
<1>3. /\ DistanceStatus(rule) \in Optional(GradeNames)
      /\ Overrun >= Factor[UnitOf(rule)] => DistanceStatus(rule) = "OVERDUE"
      /\ DistanceStatus(rule) = "OVERDUE" => Overrun > 0
      /\ Given(DistanceLeft(rule)) => UsesDistance(rule) /\ Given(reading)
  <2>1. Factor[UnitOf(rule)] \in Nat \ {0}
    BY RuleFacts, UpkeepConstants
  <2>2. CASE UsesDistance(rule) /\ Given(rule.odo) /\ Given(reading)
    <3> DEFINE m == DueMetres(rule) - Metres(reading)
               left == InUnit(m, UnitOf(rule))
    <3>1. DueMetres(rule) \in Nat
      BY <2>1, <2>2, RuleFacts DEF DueMetres
    <3>2. m \in Int /\ Overrun = -m
      BY <2>2, <3>1, RuleFacts DEF Overrun
    <3> HIDE DEF m
    <3>3. /\ left \in Int /\ left * Factor[UnitOf(rule)] \in Int
          /\ m <= -Factor[UnitOf(rule)] => left < 0
          /\ left < 0 => m < 0
          /\ left * Factor[UnitOf(rule)] < 0 <=> left < 0
      BY <3>2, RuleFacts, SignKept
    <3>4. DistanceLeft(rule) = left /\ Given(left)
      BY <2>2, <3>3, UnsetIsNothing DEF DistanceLeft, Given, m
    <3>5. DistanceStatus(rule) = StatusFromLeft(left * Factor[UnitOf(rule)], ThresholdMetres(rule))
      BY <3>4 DEF DistanceStatus
    <3> HIDE DEF left
    <3>6. /\ DistanceStatus(rule) \in GradeNames
          /\ DistanceStatus(rule) = "OVERDUE" <=> left < 0
      BY <3>3, <3>5, RuleFacts, StatusOf
    <3> QED BY <2>1, <2>2, <3>2, <3>3, <3>6 DEF Optional
  <2>3. CASE ~(UsesDistance(rule) /\ Given(rule.odo) /\ Given(reading))
    <3>1. DistanceStatus(rule) = Unset /\ ~Given(DistanceLeft(rule))
      BY <2>3 DEF DistanceStatus, DistanceLeft, Given
    <3>2. Overrun = 0
      BY <2>3 DEF Overrun
    <3> QED BY <2>1, <3>1, <3>2, Ranks DEF Optional, GradeNames
  <2> QED BY <2>2, <2>3
<1>4. EvaluateRule(rule) = "OVERDUE" <=>
        DateStatus(rule) = "OVERDUE" \/ DistanceStatus(rule) = "OVERDUE"
  BY <1>2, <1>3, WorstIsEither DEF EvaluateRule
<1>5. Confidence(rule) = "STALE" => AsksForReading
  BY <1>3 DEF Confidence, AsksForReading, UsesDistance
<1> QED BY <1>2, <1>3, <1>4, <1>5 DEF LimitsAreSeen

\* Some period holds the latest measurement, if any holds one.
LEMMA SomeIsLatest == UpkeepInv /\ Treads # {} => LatestMeasured # {}
<1> SUFFICES ASSUME UpkeepInv, Treads # {} PROVE LatestMeasured # {}
  OBVIOUS
<1> DEFINE Ages == {today - periods[i].when : i \in Treads}
<1>1. \A i \in Treads : periods[i].when \in Nat /\ today - periods[i].when \in Nat
  BY DEF UpkeepInv
<1>2. PICK age \in Ages : \A b \in Ages : age <= b
  <2>1. Ages \in SUBSET Nat /\ Ages # {}
    BY <1>1
  <2> HIDE DEF Ages
  <2> QED BY <2>1, LeastNumber
<1>3. PICK i \in Treads : age = today - periods[i].when
  BY <1>2
<1>4. ASSUME NEW j \in Treads PROVE periods[j].when <= periods[i].when
  <2>1. today - periods[i].when <= today - periods[j].when
    BY <1>2, <1>3
  <2> QED BY <1>1, <2>1 DEF UpkeepInv
<1> QED BY <1>4 DEF LatestMeasured

LEMMA TyresAreTold == UpkeepInv => WornTyresAreTold
<1> SUFFICES ASSUME UpkeepInv PROVE WornTyresAreTold
  OBVIOUS
<1>1. CurrentInstallation = {} => TyreAlerts = {}
  BY DEF TyreAlerts
<1>2. ASSUME LatestMeasured \subseteq CurrentInstallation
      PROVE  TyreAlerts = TreadStates \cap Worn
  <2>1. CASE Treads = {}
    BY <2>1 DEF TyreAlerts, TreadStates, Worn
  <2>2. CASE Treads # {}
    <3>1. PICK i \in LatestMeasured : TRUE
      BY <2>2, SomeIsLatest
    <3>2. CurrentInstallation = {i} /\ i \in Treads
      BY <1>2, <3>1 DEF UpkeepInv, LatestMeasured
    <3>3. LatestMeasured = {i} /\ Treads \cap CurrentInstallation = {i}
      BY <1>2, <3>1, <3>2
    <3> QED BY <2>2, <3>3 DEF TyreAlerts, TreadStates
  <2> QED BY <2>1, <2>2
<1> QED BY <1>1, <1>2 DEF WornTyresAreTold

LEMMA UpkeepInitial == UpkeepInit => UpkeepInv
<1> SUFFICES ASSUME UpkeepInit PROVE UpkeepInv
  OBVIOUS
<1>1. rule \in RuleRows /\ today \in Nat /\ reading \in Optional(ReadingRows) /\ cover \in CoverRows
  BY UpkeepConstants DEF UpkeepInit, Optional, CoverRows
<1>2. periods = << >> /\ DOMAIN periods = {}
  BY DEF UpkeepInit
<1> QED BY <1>1, <1>2 DEF UpkeepInv, CurrentInstallation, Treads

LEMMA UpkeepStep ==
  UpkeepInv /\ [RuleNext \/ CoverNext \/ TyreNext \/ TreadNext]_upkeepVars => UpkeepInv'
<1> SUFFICES ASSUME UpkeepInv, [RuleNext \/ CoverNext \/ TyreNext \/ TreadNext]_upkeepVars
             PROVE  UpkeepInv'
  OBVIOUS
<1>1. /\ today \in Nat /\ reading \in Optional(ReadingRows) /\ rule \in RuleRows
      /\ cover \in CoverRows /\ periods \in Seq(PeriodRows)
      /\ \A i, j \in CurrentInstallation : i = j
      /\ \A i \in CurrentInstallation : periods[i].offAt = Unset
      /\ \A i \in Treads : periods[i].when \in 0..today
  BY DEF UpkeepInv
<1>2. CASE UNCHANGED upkeepVars
  BY <1>1, <1>2 DEF upkeepVars, UpkeepInv, CurrentInstallation, Treads
<1>3. CASE PassDay
  <2>1. today' = today + 1 /\ UNCHANGED <<reading, rule, cover, periods>>
    BY <1>3 DEF PassDay
  <2>2. \A i \in Treads : periods[i].when \in 0..today'
    BY <1>1, <2>1
  <2> QED BY <1>1, <2>1, <2>2 DEF UpkeepInv, CurrentInstallation, Treads
<1>4. ASSUME NEW d \in Readings, Drive(d) \/ Correct(d) PROVE UpkeepInv'
  <2>1. reading' = [value |-> d.value, unit |-> d.unit, on |-> today]
        /\ UNCHANGED <<today, rule, cover, periods>>
    BY <1>4 DEF Drive, Correct, TakeReading
  <2>2. d \in Distances
    BY UpkeepConstants
  <2>3. reading' \in Optional(ReadingRows)
    BY <1>1, <2>1, <2>2 DEF Optional, ReadingRows, Distances
  <2> QED BY <1>1, <2>1, <2>3 DEF UpkeepInv, CurrentInstallation, Treads
<1>5. ASSUME NEW o \in CurrentOrNone, Complete(o) PROVE UpkeepInv'
  <2>1. o \in Optional(Distances)
    BY <1>1 DEF CurrentOrNone, Shown, Given, Optional, ReadingRows, Distances
  <2>2. rule' = [rule EXCEPT !.on = today, !.odo = IF Given(o) THEN o ELSE @]
        /\ UNCHANGED <<today, reading, cover, periods>>
    BY <1>5 DEF Complete, ApplyCompletion
  <2>3. rule' \in RuleRows
    BY <1>1, <2>1, <2>2 DEF RuleRows, Optional, Given
  <2> QED BY <1>1, <2>2, <2>3 DEF UpkeepInv, CurrentInstallation, Treads
<1>6. ASSUME UNCHANGED <<today, reading, rule, periods>>, cover' \in CoverRows PROVE UpkeepInv'
  BY <1>1, <1>6 DEF UpkeepInv, CurrentInstallation, Treads
<1>7. CASE CreateCover \/ RemoveCover \/ \E c \in Covers : UpdateCover(c)
  <2>1. cover' \in CoverRows
    BY <1>1, <1>7, UpkeepConstants DEF CreateCover, RemoveCover, UpdateCover, CoverRows
  <2> QED BY <1>6, <1>7, <2>1 DEF CreateCover, RemoveCover, UpdateCover
\* A fitting or a measurement of a period that is or becomes the open one.
<1>8. ASSUME NEW d \in CurrentOrNone, NEW u \in Units, NEW t \in Optional(Nat), PutOn(d, u, t)
      PROVE  UpkeepInv'
  <2> DEFINE p == [at |-> IF Given(d) THEN d.value ELSE Unset, unit |-> u, off |-> FALSE,
                   offAt |-> Unset, tread |-> t, when |-> IF Given(t) THEN today ELSE Unset]
  <2>1. /\ CurrentInstallation = {} /\ periods' = Append(periods, p)
        /\ UNCHANGED <<today, reading, rule, cover>>
    BY <1>8 DEF PutOn
  <2>2. Given(d) => d.value \in Nat
    BY <1>1 DEF CurrentOrNone, Shown, Given, Optional, ReadingRows
  <2>3. p \in PeriodRows
    BY <1>1, <2>2 DEF PeriodRows, Optional, Given
  <2>4. ~p.off /\ p.offAt = Unset /\ p.tread = t /\ (Given(t) => p.when = today)
    OBVIOUS
  <2> HIDE DEF p
  <2>5. /\ periods' \in Seq(PeriodRows) /\ Len(periods') = Len(periods) + 1
        /\ \A i \in DOMAIN periods : periods'[i] = periods[i]
        /\ periods'[Len(periods) + 1] = p
        /\ DOMAIN periods' = DOMAIN periods \cup {Len(periods) + 1}
    BY <1>1, <2>1, <2>3
  <2>6. CurrentInstallation' = {Len(periods) + 1}
    BY <2>1, <2>4, <2>5 DEF CurrentInstallation
  <2>7. \A i \in Treads' : periods'[i].when \in 0..today'
    BY <1>1, <2>1, <2>4, <2>5 DEF Treads
  <2>8. \A i \in CurrentInstallation' : periods'[i].offAt = Unset
    BY <2>4, <2>5, <2>6
  <2> QED BY <1>1, <2>1, <2>5, <2>6, <2>7, <2>8 DEF UpkeepInv
<1>9. ASSUME NEW i \in CurrentInstallation, NEW p \in PeriodRows,
             periods' = [periods EXCEPT ![i] = p], UNCHANGED <<today, reading, rule, cover>>,
             Given(p.tread) => p.when \in 0..today, p.off \/ p.offAt = Unset
      PROVE  UpkeepInv'
  <2>1. i \in DOMAIN periods
    BY DEF CurrentInstallation
  <2>2. /\ periods' \in Seq(PeriodRows) /\ DOMAIN periods' = DOMAIN periods
        /\ periods'[i] = p /\ \A j \in DOMAIN periods \ {i} : periods'[j] = periods[j]
    BY <1>1, <1>9, <2>1
  <2>3. CurrentInstallation' \subseteq CurrentInstallation
    BY <1>9, <2>2 DEF CurrentInstallation
  <2>4. \A j \in Treads' : periods'[j].when \in 0..today'
    BY <1>1, <1>9, <2>2 DEF Treads
  <2>5. \A j \in CurrentInstallation' : periods'[j].offAt = Unset
    BY <1>1, <1>9, <2>2 DEF CurrentInstallation
  <2> QED BY <1>1, <1>9, <2>2, <2>3, <2>4, <2>5 DEF UpkeepInv
<1>10. ASSUME NEW d \in CurrentOrNone, NEW t \in Optional(Nat), TakeOff(d, t) PROVE UpkeepInv'
  <2>1. PICK i \in CurrentInstallation :
           periods' = [periods EXCEPT ![i].off = TRUE,
                                      ![i].offAt = IF Given(d) THEN d.value ELSE Unset,
                                      ![i].tread = IF Given(t) THEN t ELSE @,
                                      ![i].when = IF Given(t) THEN today ELSE @]
    BY <1>10 DEF TakeOff
  <2> DEFINE p == [periods[i] EXCEPT !.off = TRUE,
                                     !.offAt = IF Given(d) THEN d.value ELSE Unset,
                                     !.tread = IF Given(t) THEN t ELSE @,
                                     !.when = IF Given(t) THEN today ELSE @]
  <2>2. Given(d) => d.value \in Nat
    BY <1>1 DEF CurrentOrNone, Shown, Given, Optional, ReadingRows
  <2>3. periods[i] \in PeriodRows /\ i \in DOMAIN periods
    BY <1>1 DEF CurrentInstallation
  <2>4. p \in PeriodRows /\ p.off
    BY <1>1, <2>2, <2>3 DEF PeriodRows, Optional, Given
  <2>5. Given(p.tread) => p.when \in 0..today
    BY <1>1, <2>3 DEF PeriodRows, Treads, Given
  <2>6. periods' = [periods EXCEPT ![i] = p]
    BY <1>1, <2>1, <2>3 DEF PeriodRows
  <2> HIDE DEF p
  <2> QED BY <1>9, <1>10, <2>4, <2>5, <2>6 DEF TakeOff
<1>11. ASSUME NEW t \in Nat, NEW d \in 0..today, MeasureTread(t, d) PROVE UpkeepInv'
  <2>1. PICK i \in CurrentInstallation : periods' = [periods EXCEPT ![i].tread = t, ![i].when = d]
    BY <1>11 DEF MeasureTread
  <2> DEFINE p == [periods[i] EXCEPT !.tread = t, !.when = d]
  <2>2. periods[i] \in PeriodRows /\ i \in DOMAIN periods
    BY <1>1 DEF CurrentInstallation
  <2>3. d \in Optional(Nat) /\ t \in Optional(Nat)
    BY <1>1 DEF Optional
  <2>4. p \in PeriodRows /\ p.when = d /\ p.offAt = Unset
    BY <1>1, <2>2, <2>3 DEF PeriodRows
  <2>5. periods' = [periods EXCEPT ![i] = p]
    BY <1>1, <2>1, <2>2 DEF PeriodRows
  <2> HIDE DEF p
  <2> QED BY <1>9, <1>11, <2>4, <2>5 DEF MeasureTread
<1>12. CASE TyreNext
  <2>1. Unset \in Optional(Nat)
    BY DEF Optional
  <2> QED BY <1>4, <1>8, <1>10, <1>12, <2>1 DEF TyreNext
<1>13. CASE TreadNext
  <2>1. /\ Unset \in CurrentOrNone /\ "MILES" \in Units /\ Depths \subseteq Nat
        /\ \A t \in Depths \cup {Unset} : t \in Optional(Nat)
    BY UpkeepConstants DEF CurrentOrNone, Units, Optional
  <2> QED BY <1>3, <1>8, <1>10, <1>11, <1>13, <2>1 DEF TreadNext
<1> QED BY <1>2, <1>3, <1>4, <1>5, <1>7, <1>12, <1>13 DEF RuleNext, CoverNext

\* A rule past its day or by a whole unit past its distance is overdue, a rule within
\* both is not, an old reading that a distance is counted from is asked for, and the tyre
\* reminder and the page agree, for any units, readings, rules and treads.
THEOREM LimitsStayTold == UpkeepSpec => []LimitsAreTold
<1>1. UpkeepInv => LimitsAreTold
  BY OverdueIsSeen, TyresAreTold DEF LimitsAreTold
<1> QED BY <1>1, UpkeepInitial, UpkeepStep, PTL DEF UpkeepSpec

-----------------------------------------------------------------------------
(* Wear: days and driving never make anything better.                             *)

\* Rounding into a unit keeps the order.
LEMMA RoundedInOrder ==
  ASSUME NEW m \in Int, NEW n \in Int, m <= n, NEW u \in Units
  PROVE  InUnit(m, u) <= InUnit(n, u)
<1>1. PICK f \in Nat \ {0} : f = Factor[u]
  BY UpkeepConstants
<1> DEFINE q == (2 * m + f) \div (2 * f)
           r == (2 * n + f) \div (2 * f)
<1>2. q \in Int /\ 2 * f * q <= 2 * m + f /\ 2 * m + f < 2 * f * q + 2 * f
  OBVIOUS
<1>3. r \in Int /\ 2 * f * r <= 2 * n + f /\ 2 * n + f < 2 * f * r + 2 * f
  OBVIOUS
<1>4. InUnit(m, u) = q /\ InUnit(n, u) = r
  BY <1>1 DEF InUnit
<1> HIDE DEF q, r
<1>5. ASSUME r < q PROVE FALSE
  <2>1. PICK d \in Nat : q = r + 1 + d
    <3>1. q - r - 1 \in Nat /\ q = r + 1 + (q - r - 1)
      BY <1>2, <1>3, <1>5
    <3> QED BY <3>1
  <2>2. f * q = f * r + f + f * d /\ f * d >= 0
    BY <1>2, <1>3, <2>1
  <2>3. f * q \in Int /\ f * r \in Int
    BY <1>2, <1>3
  <2>4. 2 * f * q = 2 * (f * q) /\ 2 * f * r = 2 * (f * r)
    BY <1>2, <1>3
  <2> QED BY <1>2, <1>3, <2>2, <2>3, <2>4
<1> QED BY <1>2, <1>3, <1>4, <1>5

\* What a step that days and driving account for does.
LEMMA OnwardMoves ==
  ASSUME UpkeepInv, UpkeepInv', [RuleNext \/ CoverNext \/ TyreNext \/ TreadNext]_upkeepVars, Onward
  PROVE  /\ UNCHANGED <<rule, cover, periods>>
         /\ today \in Nat /\ today' \in Nat /\ today <= today'
         /\ reading \in Optional(ReadingRows) /\ reading' \in Optional(ReadingRows)
         /\ Given(reading) => Given(reading') /\ Metres(reading) <= Metres(reading')
<1>1. /\ today \in Nat /\ today' \in Nat
      /\ reading \in Optional(ReadingRows) /\ reading' \in Optional(ReadingRows)
  BY DEF UpkeepInv
<1>2. \A x \in ReadingRows : Given(x) /\ Metres(x) \in Nat
  BY UpkeepConstants DEF ReadingRows, Given, Metres
<1>3. /\ today' # today \/ reading' # reading
      /\ Given(reading) => Metres(reading') >= Metres(reading)
  BY DEF Onward
<1>4. CASE PassDay
  <2>1. Given(reading) => Metres(reading) \in Nat
    BY <1>1, <1>2 DEF Optional, Given
  <2> QED BY <1>1, <1>4, <2>1 DEF PassDay
<1>5. ASSUME NEW d \in Readings, Drive(d) \/ Correct(d)
      PROVE  /\ UNCHANGED <<today, rule, cover, periods>>
             /\ Given(reading) => Given(reading') /\ Metres(reading) <= Metres(reading')
  <2>1. reading' = [value |-> d.value, unit |-> d.unit, on |-> today]
        /\ UNCHANGED <<today, rule, cover, periods>>
    BY <1>5 DEF Drive, Correct, TakeReading
  <2>2. d \in Distances
    BY UpkeepConstants
  <2>3. reading' \in ReadingRows
    BY <1>1, <2>1, <2>2 DEF Distances, ReadingRows
  <2>4. Given(reading) => Metres(reading) \in Nat
    BY <1>1, <1>2 DEF Optional, Given
  <2> QED BY <1>2, <1>3, <2>1, <2>3, <2>4
<1>6. ASSUME UNCHANGED <<today, reading>> PROVE FALSE
  BY <1>3, <1>6
<1>7. CASE TyreNext
  <2>1. ASSUME NEW d \in CurrentOrNone, TakeOff(d, Unset) PROVE FALSE
    BY <1>6, <2>1 DEF TakeOff
  <2>2. ASSUME NEW d \in CurrentOrNone, NEW u \in Units, PutOn(d, u, Unset) PROVE FALSE
    BY <1>6, <2>2 DEF PutOn
  <2> QED BY <1>1, <1>5, <1>7, <2>1, <2>2 DEF TyreNext
<1>8. CASE TreadNext
  BY <1>1, <1>4, <1>6, <1>8 DEF TreadNext, TakeOff, PutOn, MeasureTread
<1>9. CASE RuleNext
  BY <1>1, <1>4, <1>5, <1>6, <1>9 DEF RuleNext, Complete
<1>10. CASE CoverNext
  BY <1>1, <1>4, <1>5, <1>6, <1>10 DEF CoverNext, CreateCover, RemoveCover, UpdateCover
<1> QED BY <1>6, <1>7, <1>8, <1>9, <1>10 DEF upkeepVars

LEMMA WorstOfWorse ==
  ASSUME NEW a \in Optional(GradeNames), NEW b \in Optional(GradeNames),
         NEW c \in Optional(GradeNames), NEW d \in Optional(GradeNames),
         Rank(a) <= Rank(c), Rank(b) <= Rank(d)
  PROVE  Rank(Worst(a, b)) <= Rank(Worst(c, d))
<1>1. "OK" \in GradeNames /\ Rank("OK") = 1
  <2>1. Grades[1] = "OK" /\ 1 \in 1..4 /\ "OK" \in GradeNames
    BY DEF Grades, GradeNames
  <2> QED BY <2>1, RankOf, Ranks
<1>2. \A s \in Optional(GradeNames) : Rank(s) \in 0..4 /\ (Given(s) <=> Rank(s) # 0)
  BY RankOf, Ranks DEF Optional, Given
<1>3. \A s, t \in Optional(GradeNames) :
        /\ Rank(Worst(s, t)) \in Nat /\ Rank(s) <= Rank(Worst(s, t)) /\ Rank(t) <= Rank(Worst(s, t))
        /\ 1 <= Rank(Worst(s, t))
        /\ Rank(Worst(s, t)) \in {1, Rank(s), Rank(t)}
  BY <1>1, <1>2 DEF Worst
<1> QED BY <1>2, <1>3

LEMMA LessLeftIsWorse ==
  ASSUME NEW m \in Int, NEW n \in Int, m <= n, NEW t \in Int
  PROVE  Rank(StatusFromLeft(n, t)) <= Rank(StatusFromLeft(m, t))
<1>1. Rank("OK") = 1 /\ Rank("DUE_SOON") = 2 /\ Rank("DUE") = 3 /\ Rank("OVERDUE") = 4
  <2>1. /\ Grades[1] = "OK" /\ Grades[2] = "DUE_SOON" /\ Grades[3] = "DUE" /\ Grades[4] = "OVERDUE"
        /\ {"OK", "DUE_SOON", "DUE", "OVERDUE"} \subseteq GradeNames
    BY DEF Grades, GradeNames
  <2> QED BY <2>1, RankOf, Ranks
<1>2. \A x \in Int : StatusFromLeft(x, t) = IF x < 0 THEN "OVERDUE" ELSE IF x = 0 THEN "DUE"
                                            ELSE IF x <= t THEN "DUE_SOON" ELSE "OK"
  BY DEF StatusFromLeft
<1> QED BY <1>1, <1>2

\* A rule that is not completed looks no better.
LEMMA RuleWorsens ==
  ASSUME UpkeepInv, UpkeepInv', UNCHANGED rule, Given(rule.unit), today <= today',
         Given(reading) => Given(reading') /\ Metres(reading) <= Metres(reading')
  PROVE  Rank(EvaluateRule(rule))' >= Rank(EvaluateRule(rule))
<1>1. /\ today \in Nat /\ today' \in Nat /\ rule \in RuleRows
      /\ reading \in Optional(ReadingRows) /\ reading' \in Optional(ReadingRows)
  BY DEF UpkeepInv
<1>2. /\ rule.days \in Optional(Nat) /\ rule.warnDays \in Optional(Nat) /\ rule.unit \in Units
      /\ rule.on \in Optional(Nat)
  BY <1>1 DEF RuleRows, Optional, Given
<1>3. \A x \in ReadingRows : Given(x) /\ Metres(x) \in Nat
  BY UpkeepConstants DEF ReadingRows, Given, Metres
<1>4. Unset \notin Int
  BY UpkeepConstants
<1> DEFINE Soon == IF Given(rule.warnDays) THEN rule.warnDays ELSE ThresholdDays
           Far == ThresholdMetres(rule)
           u == rule.unit
           Due == Metres(rule.odo) + rule.distance * Factor[u]
           byDate == UsesDate(rule) /\ Given(rule.on)
           byDistance == UsesDistance(rule) /\ Given(rule.odo)
           Left(x) == InUnit(Due - Metres(x), u)
           DateGrade(t) == IF byDate THEN StatusFromLeft(rule.on + rule.days - t, Soon) ELSE Unset
           Grade(x) == IF byDistance /\ Given(x) THEN StatusFromLeft(Left(x) * Factor[u], Far) ELSE Unset
<1>5. Soon \in Int /\ Far \in Int /\ UnitOf(rule) = u /\ u \in Units
  BY <1>2, RuleFacts, UpkeepConstants DEF UnitOf, Given, Optional
<1>6. byDate => rule.on \in Nat /\ rule.days \in Nat
  BY RuleFacts
<1>7. byDistance => Due \in Int
  <2>1. byDistance => Metres(rule.odo) \in Nat /\ rule.distance \in Nat
    BY RuleFacts
  <2>2. Factor[u] \in Nat
    BY <1>5, UpkeepConstants
  <2> QED BY <2>1, <2>2
<1>8. DateStatus(rule) = DateGrade(today)
  BY <1>1, <1>4, <1>6 DEF DateStatus, DaysLeft, Given
<1>9. DateStatus(rule)' = DateGrade(today')
  BY <1>1, <1>4, <1>6 DEF DateStatus, DaysLeft, Given, UsesDate
<1>10. ASSUME NEW x \in ReadingRows, byDistance PROVE Left(x) \in Int
  <2>1. Due - Metres(x) \in Int
    BY <1>3, <1>7, <1>10
  <2> HIDE DEF Due
  <2> QED BY <1>5, <2>1, SignKept

<1>11. DistanceStatus(rule) = Grade(reading)
  <2>1. DistanceLeft(rule) = IF byDistance /\ Given(reading) THEN Left(reading) ELSE Unset
    BY <1>5 DEF DistanceLeft, DueMetres
  <2>2. byDistance /\ Given(reading) => Left(reading) \in Int
    BY <1>1, <1>10 DEF Optional, Given
  <2> HIDE DEF Left, Far, byDistance
  <2> QED BY <1>4, <1>5, <2>1, <2>2 DEF DistanceStatus, Given, Far
<1>12. DistanceStatus(rule)' = Grade(reading')
  <2>1. UnitOf(rule)' = u /\ DueMetres(rule)' = Due
    BY <1>5 DEF UnitOf, Given, DueMetres, Metres
  <2>2. ThresholdMetres(rule)' = Far
    BY <1>5, <2>1 DEF ThresholdMetres, Given
  <2>3. DistanceLeft(rule)' = IF byDistance /\ Given(reading') THEN Left(reading') ELSE Unset
    BY <2>1 DEF DistanceLeft, UsesDistance, Given, InUnit, Metres
  <2>4. byDistance /\ Given(reading') => Left(reading') \in Int
    BY <1>1, <1>10 DEF Optional, Given
  <2>5. DistanceStatus(rule)' = IF DistanceLeft(rule)' # Unset
                                THEN StatusFromLeft(DistanceLeft(rule)' * Factor[u], Far) ELSE Unset
    BY <2>1, <2>2 DEF DistanceStatus, Given, StatusFromLeft
  <2> HIDE DEF Left, Far, byDistance
  <2> QED BY <1>4, <2>3, <2>4, <2>5 DEF Given
<1> HIDE DEF Left, Soon, Far, byDate, byDistance
<1>13. /\ DateGrade(today) \in Optional(GradeNames) /\ DateGrade(today') \in Optional(GradeNames)
       /\ Grade(reading) \in Optional(GradeNames) /\ Grade(reading') \in Optional(GradeNames)
  <2>1. \A n \in Int : /\ StatusFromLeft(n, Soon) \in GradeNames
                       /\ StatusFromLeft(n, Far) \in GradeNames
    BY <1>5, StatusOf
  <2>2. ASSUME NEW t \in Nat PROVE DateGrade(t) \in Optional(GradeNames)
    BY <1>6, <2>1 DEF Optional
  <2>3. ASSUME NEW x \in Optional(ReadingRows) PROVE Grade(x) \in Optional(GradeNames)
    <3>1. byDistance /\ Given(x) => Left(x) * Factor[u] \in Int
      <4>1. Factor[u] \in Int
        BY <1>5, UpkeepConstants
      <4>2. byDistance /\ Given(x) => Left(x) \in Int
        BY <1>10 DEF Optional, Given
      <4> QED BY <4>1, <4>2
    <3> QED BY <2>1, <3>1 DEF Optional
  <2> HIDE DEF DateGrade, Grade
  <2> QED BY <1>1, <2>2, <2>3
<1>14. Rank(DateGrade(today)) <= Rank(DateGrade(today'))
  <2>1. CASE byDate
    <3>1. PICK m, n \in Int : /\ m = rule.on + rule.days - today' /\ n = rule.on + rule.days - today
                              /\ m <= n
      BY <1>1, <1>6, <2>1
    <3>2. Rank(StatusFromLeft(n, Soon)) <= Rank(StatusFromLeft(m, Soon))
      BY <1>5, <3>1, LessLeftIsWorse
    <3> QED BY <2>1, <3>1, <3>2
  <2>2. CASE ~byDate
    BY <2>2, RankOf
  <2> QED BY <2>1, <2>2
<1>15. Rank(Grade(reading)) <= Rank(Grade(reading'))
  <2>1. CASE byDistance /\ Given(reading)
    <3>1. /\ reading \in ReadingRows /\ reading' \in ReadingRows /\ Given(reading')
          /\ Metres(reading) <= Metres(reading')
      BY <1>1, <2>1 DEF Optional, Given
    <3>2. Left(reading') <= Left(reading)
      <4>1. PICK m, n \in Int : m = Due - Metres(reading') /\ n = Due - Metres(reading) /\ m <= n
        BY <1>3, <1>7, <2>1, <3>1
      <4>2. InUnit(m, u) <= InUnit(n, u)
        BY <1>5, <4>1, RoundedInOrder
      <4> QED BY <4>1, <4>2 DEF Left
    <3>3. Left(reading') \in Int /\ Left(reading) \in Int
      BY <1>10, <2>1, <3>1
    <3>4. PICK m, n \in Int : /\ m = Left(reading') * Factor[u] /\ n = Left(reading) * Factor[u]
                              /\ m <= n
      <4>1. PICK k \in Nat : k = Factor[u]
        BY <1>5, UpkeepConstants
      <4>2. PICK x, y \in Int : x = Left(reading') /\ y = Left(reading) /\ x <= y
        BY <3>2, <3>3
      <4>3. x * k <= y * k /\ x * k \in Int /\ y * k \in Int
        BY <4>1, <4>2
      <4> QED BY <4>1, <4>2, <4>3
    <3>5. Rank(StatusFromLeft(n, Far)) <= Rank(StatusFromLeft(m, Far))
      BY <1>5, <3>4, LessLeftIsWorse
    <3> QED BY <2>1, <3>1, <3>4, <3>5
  <2>2. CASE ~ (byDistance /\ Given(reading))
    <3>1. Grade(reading) = Unset
      BY <2>2
    <3>2. Rank(Grade(reading')) \in Nat
      <4> HIDE DEF Grade
      <4> QED BY <1>13, RankOf DEF Optional
    <3> QED BY <3>1, <3>2, RankOf
  <2> QED BY <2>1, <2>2
<1> HIDE DEF DateGrade, Grade
<1>16. EvaluateRule(rule) = Worst(DateGrade(today), Grade(reading))
  BY <1>8, <1>11 DEF EvaluateRule
<1>17. Rank(EvaluateRule(rule))' = Rank(Worst(DateGrade(today'), Grade(reading')))
  BY <1>9, <1>12 DEF EvaluateRule, Rank, Given, Worst
<1>18. /\ Rank(EvaluateRule(rule)) \in Nat
       /\ Rank(Worst(DateGrade(today'), Grade(reading'))) \in Nat
  BY <1>13, <1>16, RankOf, Ranks DEF Worst, Optional, GradeNames
<1>19. Rank(Worst(DateGrade(today), Grade(reading)))
         <= Rank(Worst(DateGrade(today'), Grade(reading')))
  BY <1>13, <1>14, <1>15, WorstOfWorse
<1> QED BY <1>16, <1>17, <1>18, <1>19

\* A warranty that has ended stays ended, on either clock.
LEMMA CoverStaysEnded ==
  ASSUME UpkeepInv, UpkeepInv', UNCHANGED cover, today <= today',
         Given(reading) => Given(reading') /\ Metres(reading) <= Metres(reading'),
         CoverState(cover) = "EXPIRED"
  PROVE  CoverState(cover)' = "EXPIRED"
<1>1. /\ today \in Nat /\ today' \in Nat /\ cover \in CoverRows
      /\ reading \in Optional(ReadingRows) /\ reading' \in Optional(ReadingRows)
  BY DEF UpkeepInv
<1>2. /\ cover.starts \in Int /\ cover.ends \in Optional(Int)
      /\ cover.limit \in Optional(Distances) /\ cover.start \in Optional(Distances)
  BY <1>1 DEF CoverRows
<1>3. \A x \in ReadingRows : Given(x) /\ Metres(x) \in Nat
  BY UpkeepConstants DEF ReadingRows, Given, Metres
<1>4. Unset \notin Int
  BY UpkeepConstants
<1> DEFINE u == cover.limit.unit
           All == Allowance(cover)
           Left(x) == InUnit(All - Metres(x), u)
           OnDate(t) == Given(cover.ends) /\ cover.ends - t < 0
           OnDistance(x) == Given(cover.limit) /\ Given(x) /\ Left(x) < 0
<1>5. Given(cover.limit) => u \in Units /\ All \in Int
  <2>1. \A x \in Distances : x.unit \in Units /\ Metres(x) \in Nat
    BY UpkeepConstants DEF Distances, Metres
  <2> QED BY <1>2, <2>1 DEF Optional, Given, Allowance
<1>6. All' = All
  BY DEF Allowance, Metres, Given
<1>7. CoverState(cover) = "EXPIRED" <=> cover.starts <= today /\ (OnDate(today) \/ OnDistance(reading))
  <2>1. Below(CoverDays(cover), 0) <=> OnDate(today)
    BY <1>1, <1>2, <1>4 DEF Below, CoverDays, Given, Optional
  <2>2. Given(cover.limit) /\ Given(reading) => Left(reading) \in Int
    <3>1. Given(cover.limit) /\ Given(reading) => All - Metres(reading) \in Int
      BY <1>1, <1>3, <1>5 DEF Optional, Given
    <3> QED BY <1>5, <3>1, SignKept
  <2>3. Below(CoverDistance(cover), 0) <=> OnDistance(reading)
    BY <1>4, <2>2 DEF Below, CoverDistance, Given
  <2>4. Below(CoverDays(cover), 0) => Given(CoverDays(cover))
    BY DEF Below
  <2>5. Below(CoverDistance(cover), 0) => Given(CoverDistance(cover))
    BY DEF Below
  <2> HIDE DEF OnDate, OnDistance
  <2> QED BY <2>1, <2>3, <2>4, <2>5 DEF CoverState, Started
<1>8. cover.starts <= today' /\ (OnDate(today') \/ OnDistance(reading')) => CoverState(cover)' = "EXPIRED"
  <2>1. Below(CoverDays(cover), 0)' <=> OnDate(today')
    BY <1>1, <1>2, <1>4 DEF Below, CoverDays, Given, Optional
  <2>2. Given(cover.limit) /\ Given(reading') => Left(reading') \in Int
    <3>1. Given(cover.limit) /\ Given(reading') => All - Metres(reading') \in Int
      BY <1>1, <1>3, <1>5 DEF Optional, Given
    <3> QED BY <1>5, <3>1, SignKept
  <2>3. CoverDistance(cover)' = IF Given(cover.limit) /\ Given(reading') THEN Left(reading') ELSE Unset
    BY <1>6 DEF CoverDistance, Given, InUnit, Metres
  <2>4. Below(CoverDistance(cover), 0)' <=> OnDistance(reading')
    <3>1. Below(CoverDistance(cover), 0)' <=> CoverDistance(cover)' # Unset /\ CoverDistance(cover)' < 0
      BY DEF Below, Given
    <3> HIDE DEF Left
    <3> QED BY <1>4, <2>2, <2>3, <3>1 DEF Given
  <2>5. Below(CoverDays(cover), 0)' => Given(CoverDays(cover))'
    BY DEF Below
  <2>6. Below(CoverDistance(cover), 0)' => Given(CoverDistance(cover))'
    BY DEF Below
  <2>7. Started(cover)' <=> cover.starts <= today'
    BY DEF Started
  <2> HIDE DEF OnDate, OnDistance
  <2> QED BY <2>1, <2>4, <2>5, <2>6, <2>7 DEF CoverState
<1>9. cover.starts <= today'
  BY <1>1, <1>2, <1>7
<1>10. OnDate(today) => OnDate(today')
  BY <1>1, <1>2 DEF Optional, Given
<1>11. ASSUME OnDistance(reading) PROVE OnDistance(reading')
  <2>1. /\ reading \in ReadingRows /\ reading' \in ReadingRows /\ Given(reading') /\ u \in Units
        /\ Metres(reading) <= Metres(reading') /\ Given(cover.limit) /\ All \in Int
    BY <1>1, <1>5, <1>11 DEF Optional, Given
  <2>2. PICK m, n \in Int : m = All - Metres(reading') /\ n = All - Metres(reading) /\ m <= n
    BY <1>3, <2>1
  <2>3. /\ InUnit(m, u) <= InUnit(n, u) /\ InUnit(m, u) \in Int /\ InUnit(n, u) \in Int
    BY <2>1, <2>2, RoundedInOrder, SignKept
  <2>4. InUnit(n, u) < 0
    BY <1>11, <2>2
  <2>5. Left(reading') < 0
    BY <2>2, <2>3, <2>4
  <2> QED BY <2>1, <2>5
<1> HIDE DEF OnDate, OnDistance
<1> QED BY <1>7, <1>8, <1>9, <1>10, <1>11

LEMMA SumGrows ==
  ASSUME NEW T, IsFiniteSet(T), NEW S \in SUBSET T, NEW f \in [S -> Int], NEW g \in [T -> Int],
         \A x \in S : f[x] <= g[x], \A x \in T : g[x] >= 0
  PROVE  SumOf(f) <= SumOf(g)
<1> DEFINE h == [x \in S |-> g[x]]
<1>1. IsFiniteSet(S) /\ h \in [S -> Int]
  BY FS_Subset
<1>2. SumOf(f) = Over(f, S) /\ SumOf(g) = Over(g, T)
  <2>1. [x \in S |-> f[x]] = f /\ [x \in T |-> g[x]] = g
    OBVIOUS
  <2> QED BY <2>1 DEF Over
<1>3. Over(h, S) = Over(g, S)
  <2>1. [x \in S |-> h[x]] = [x \in S |-> g[x]]
    OBVIOUS
  <2> HIDE DEF h
  <2> QED BY <2>1 DEF Over
<1>4. \A x \in S : 1 * f[x] <= 1 * h[x]
  OBVIOUS
<1> HIDE DEF h
<1>5. 1 * Over(f, S) <= 1 * Over(h, S)
  BY <1>1, <1>4, SumAtMost
<1>6. Over(g, S) <= Over(g, T)
  BY SumOfMore
<1>7. Over(f, S) \in Int /\ Over(h, S) \in Int /\ Over(g, T) \in Int
  BY <1>1, SumSteps
<1> QED BY <1>2, <1>3, <1>5, <1>6, <1>7

\* What a period has run when the car's reading is x.
EndAt(p, x) ==
  IF Given(p.offAt) THEN p.offAt * Factor[p.unit] ELSE IF Given(x) THEN Metres(x) ELSE Unset
Ran(p, x) ==
  IF ~Given(p.at) \/ ~Given(EndAt(p, x)) THEN 0
  ELSE IF EndAt(p, x) - p.at * Factor[p.unit] >= 0 THEN EndAt(p, x) - p.at * Factor[p.unit] ELSE 0

LEMMA NotBelowZero ==
  ASSUME NEW x \in Int
  PROVE  Max({0, x}) = IF x >= 0 THEN x ELSE 0
<1>1. \E m \in {0, x} : \A y \in {0, x} : m >= y
  OBVIOUS
<1>2. Max({0, x}) \in {0, x} /\ \A y \in {0, x} : Max({0, x}) >= y
  BY <1>1, Zenon DEF Max
<1>3. PICK m \in {0, x} : m = Max({0, x}) /\ m >= 0 /\ m >= x
  BY <1>2
<1> QED BY <1>3

LEMMA PeriodFacts ==
  ASSUME NEW p \in PeriodRows, NEW x \in Optional(ReadingRows)
  PROVE  /\ Given(p.at) => p.at * Factor[p.unit] \in Nat
         /\ Given(EndAt(p, x)) => EndAt(p, x) \in Nat
         /\ Ran(p, x) \in Nat
<1>1. p.at \in Optional(Nat) /\ p.offAt \in Optional(Nat) /\ p.unit \in Units
  BY DEF PeriodRows
<1>2. Factor[p.unit] \in Nat
  BY <1>1, UpkeepConstants
<1>3. Given(p.at) => p.at * Factor[p.unit] \in Nat
  BY <1>1, <1>2 DEF Given, Optional
<1>4. Given(p.offAt) => p.offAt * Factor[p.unit] \in Nat
  BY <1>1, <1>2 DEF Given, Optional
<1>5. Given(x) => Metres(x) \in Nat
  BY UpkeepConstants DEF ReadingRows, Given, Metres, Optional
<1>6. Given(EndAt(p, x)) => EndAt(p, x) \in Nat
  BY <1>4, <1>5 DEF EndAt, Given
<1> HIDE DEF EndAt
<1> QED BY <1>3, <1>6 DEF Ran

LEMMA RunIsRan ==
  ASSUME NEW p \in PeriodRows, reading \in Optional(ReadingRows)
  PROVE  Run(p) = Ran(p, reading)
<1>1. EndMetres(p) = EndAt(p, reading)
  BY DEF EndMetres, EndAt, Given
<1>2. CASE ~Given(p.at) \/ ~Given(EndAt(p, reading))
  BY <1>1, <1>2 DEF Run, Ran
<1>3. CASE Given(p.at) /\ Given(EndAt(p, reading))
  <2>1. EndAt(p, reading) - p.at * Factor[p.unit] \in Int
    BY <1>3, PeriodFacts
  <2> QED BY <1>1, <1>3, <2>1, NotBelowZero DEF Run, Ran
<1> QED BY <1>2, <1>3

LEMMA RunLaterIsRan ==
  ASSUME NEW p \in PeriodRows, reading' \in Optional(ReadingRows), NEW i, periods'[i] = p
  PROVE  Run(periods[i])' = Ran(p, reading')
<1>1. EndMetres(periods[i])' = EndAt(p, reading')
  BY DEF EndMetres, EndAt, Given, Metres
<1>2. Run(periods[i])' = IF ~Given(p.at) \/ ~Given(EndAt(p, reading')) THEN 0
                         ELSE Max({0, EndAt(p, reading') - p.at * Factor[p.unit]})
  BY <1>1 DEF Run, Given, Max
<1>3. CASE ~Given(p.at) \/ ~Given(EndAt(p, reading'))
  BY <1>2, <1>3 DEF Ran
<1>4. CASE Given(p.at) /\ Given(EndAt(p, reading'))
  <2>1. EndAt(p, reading') - p.at * Factor[p.unit] \in Int
    BY <1>4, PeriodFacts
  <2> QED BY <1>2, <1>4, <2>1, NotBelowZero DEF Ran
<1> QED BY <1>3, <1>4

\* Every period that was there is still there and has run as far.
LEMMA SetAges ==
  ASSUME UpkeepInv, UpkeepInv',
         \A i \in DOMAIN periods : /\ i \in DOMAIN periods'
                                   /\ Ran(periods[i], reading) <= Ran(periods'[i], reading')
  PROVE  DistanceOnSet(periods)' >= DistanceOnSet(periods)
<1> DEFINE f == [i \in DOMAIN periods |-> Ran(periods[i], reading)]
           g == [i \in DOMAIN periods' |-> Ran(periods'[i], reading')]
<1>1. /\ \A i \in DOMAIN periods : periods[i] \in PeriodRows
      /\ \A i \in DOMAIN periods' : periods'[i] \in PeriodRows
      /\ reading \in Optional(ReadingRows) /\ reading' \in Optional(ReadingRows)
  BY DEF UpkeepInv
<1>2. DistanceOnSet(periods) = SumOf(f)
  <2>1. [i \in DOMAIN periods |-> Run(periods[i])] = f
    BY <1>1, RunIsRan
  <2> HIDE DEF f
  <2> QED BY <2>1 DEF DistanceOnSet
<1>3. DistanceOnSet(periods)' = SumOf(g)
  <2>1. [i \in DOMAIN periods' |-> Run(periods[i])'] = g
    BY <1>1, RunLaterIsRan
  <2>2. DistanceOnSet(periods)' = SumOf([i \in DOMAIN periods' |-> Run(periods[i])'])
    BY DEF DistanceOnSet
  <2> HIDE DEF g
  <2> QED BY <2>1, <2>2
<1>4. IsFiniteSet(DOMAIN periods')
  <2>1. Len(periods') \in Nat /\ DOMAIN periods' = 1..Len(periods')
    BY DEF UpkeepInv
  <2> QED BY <2>1, FS_Interval
<1>5. f \in [DOMAIN periods -> Int] /\ g \in [DOMAIN periods' -> Int]
  BY <1>1, PeriodFacts
<1>6. \A i \in DOMAIN periods' : g[i] >= 0
  BY <1>1, PeriodFacts
<1>7. \A i \in DOMAIN periods : f[i] <= g[i]
  OBVIOUS
<1>8. DOMAIN periods \in SUBSET DOMAIN periods'
  OBVIOUS
<1> HIDE DEF f, g
<1>9. SumOf(f) <= SumOf(g)
  BY <1>4, <1>5, <1>6, <1>7, <1>8, SumGrows
<1> QED BY <1>2, <1>3, <1>9

\* A reading further on: no period has run less.
LEMMA PeriodAges ==
  ASSUME NEW p \in PeriodRows, NEW x \in Optional(ReadingRows), NEW y \in Optional(ReadingRows),
         Given(x) => Given(y) /\ Metres(x) <= Metres(y)
  PROVE  Ran(p, x) <= Ran(p, y)
<1>1. CASE ~Given(p.at) \/ ~Given(EndAt(p, x))
  <2>1. Ran(p, x) = 0
    BY <1>1 DEF Ran
  <2> QED BY <2>1, PeriodFacts
<1>2. CASE Given(p.at) /\ Given(EndAt(p, x))
  <2>1. Given(EndAt(p, y)) /\ EndAt(p, x) <= EndAt(p, y)
    <3>1. CASE Given(p.offAt)
      <4>1. EndAt(p, x) = EndAt(p, y)
        BY <3>1 DEF EndAt
      <4> QED BY <1>2, <4>1, PeriodFacts
    <3>2. CASE ~Given(p.offAt)
      <4>1. Given(x)
        BY <1>2, <3>2 DEF EndAt, Given
      <4>2. EndAt(p, x) = Metres(x) /\ EndAt(p, y) = Metres(y)
        BY <3>2, <4>1 DEF EndAt
      <4>3. Given(Metres(y))
        <5>1. Metres(y) \in Nat
          BY <4>1, UpkeepConstants DEF ReadingRows, Given, Metres, Optional
        <5> QED BY <5>1, UpkeepConstants DEF Given
      <4> QED BY <4>1, <4>2, <4>3
    <3> QED BY <3>1, <3>2
  <2>2. /\ EndAt(p, x) \in Nat /\ EndAt(p, y) \in Nat
        /\ p.at * Factor[p.unit] \in Nat
    BY <1>2, <2>1, PeriodFacts
  <2>3. PICK a, b, k \in Nat : a = EndAt(p, x) /\ b = EndAt(p, y) /\ k = p.at * Factor[p.unit] /\ a <= b
    BY <2>1, <2>2
  <2> QED BY <1>2, <2>1, <2>3 DEF Ran
<1> QED BY <1>1, <1>2

\* The open period is changed: it has run as far.
LEMMA PeriodChanged ==
  ASSUME UpkeepInv, UpkeepInv', OwnUnit, NEW d \in CurrentOrNone, NEW i \in CurrentInstallation,
         UNCHANGED reading, DOMAIN periods' = DOMAIN periods,
         \A j \in DOMAIN periods \ {i} : periods'[j] = periods[j],
         periods'[i].at = periods[i].at, periods'[i].unit = periods[i].unit,
         periods'[i].offAt = IF Given(d) THEN d.value ELSE Unset
  PROVE  DistanceOnSet(periods)' >= DistanceOnSet(periods)
<1>1. /\ i \in DOMAIN periods /\ reading \in Optional(ReadingRows) /\ periods[i].offAt = Unset
      /\ \A j \in DOMAIN periods : periods[j] \in PeriodRows
  BY DEF UpkeepInv, CurrentInstallation
<1>2. Given(d) => Given(reading) /\ d = Shown(reading) /\ Given(d.value)
  <2>1. Given(reading) => reading.value \in Nat
    BY <1>1 DEF Optional, Given, ReadingRows
  <2> QED BY <2>1, UpkeepConstants DEF CurrentOrNone, Given, Shown
<1>3. EndAt(periods'[i], reading') = EndAt(periods[i], reading)
  <2>1. CASE Given(d)
    <3>1. periods[i].unit = reading.unit
      BY <1>1, <1>2, <2>1 DEF OwnUnit
    <3>2. EndAt(periods'[i], reading') = reading.value * Factor[reading.unit]
      BY <1>2, <2>1, <3>1 DEF EndAt, Shown
    <3> QED BY <1>1, <1>2, <2>1, <3>2 DEF EndAt, Given, Metres
  <2>2. CASE ~Given(d)
    BY <1>1, <2>2 DEF EndAt, Given
  <2> QED BY <2>1, <2>2
<1>4. Ran(periods'[i], reading') = Ran(periods[i], reading)
  BY <1>3 DEF Ran
<1>5. ASSUME NEW j \in DOMAIN periods PROVE Ran(periods[j], reading) <= Ran(periods'[j], reading')
  <2>1. Ran(periods[j], reading) \in Nat
    BY <1>1, PeriodFacts
  <2>2. Ran(periods'[j], reading') = Ran(periods[j], reading)
    BY <1>4
  <2> QED BY <2>1, <2>2
<1> QED BY <1>5, SetAges

\* The set has run no less, whatever is fitted, removed, measured or driven.
LEMMA TyresAge ==
  ASSUME UpkeepInv, UpkeepInv', [RuleNext \/ CoverNext \/ TyreNext \/ TreadNext]_upkeepVars,
         Onward \/ periods' # periods, OwnUnit
  PROVE  DistanceOnSet(periods)' >= DistanceOnSet(periods)
<1>1. /\ periods \in Seq(PeriodRows) /\ periods' \in Seq(PeriodRows)
      /\ \A i \in DOMAIN periods : periods[i] \in PeriodRows
      /\ reading \in Optional(ReadingRows) /\ reading' \in Optional(ReadingRows)
  BY DEF UpkeepInv
<1>2. ASSUME Onward PROVE DistanceOnSet(periods)' >= DistanceOnSet(periods)
  <2>1. /\ periods' = periods
        /\ Given(reading) => Given(reading') /\ Metres(reading) <= Metres(reading')
    BY <1>2, OnwardMoves
  <2>2. \A i \in DOMAIN periods : Ran(periods[i], reading) <= Ran(periods'[i], reading')
    BY <1>1, <2>1, PeriodAges
  <2> QED BY <2>1, <2>2, SetAges
<1>3. ASSUME NEW d, NEW u, NEW t, PutOn(d, u, t)
      PROVE  DistanceOnSet(periods)' >= DistanceOnSet(periods)
  <2>1. PICK p : periods' = Append(periods, p) /\ reading' = reading
    BY <1>3 DEF PutOn
  <2>2. \A i \in DOMAIN periods : i \in DOMAIN periods' /\ periods'[i] = periods[i]
    BY <1>1, <2>1
  <2>3. \A i \in DOMAIN periods : Ran(periods[i], reading) \in Nat
    BY <1>1, PeriodFacts
  <2>4. \A i \in DOMAIN periods : Ran(periods[i], reading) <= Ran(periods'[i], reading')
    BY <2>1, <2>2, <2>3
  <2> QED BY <2>2, <2>4, SetAges
<1>4. ASSUME NEW d \in CurrentOrNone, NEW t, TakeOff(d, t)
      PROVE  DistanceOnSet(periods)' >= DistanceOnSet(periods)
  <2>1. /\ UNCHANGED reading
        /\ \E i \in CurrentInstallation :
             periods' = [periods EXCEPT ![i].off = TRUE,
                                        ![i].offAt = IF Given(d) THEN d.value ELSE Unset,
                                        ![i].tread = IF Given(t) THEN t ELSE @,
                                        ![i].when = IF Given(t) THEN today ELSE @]
    BY <1>4 DEF TakeOff
  <2>2. PICK i \in CurrentInstallation :
             periods' = [periods EXCEPT ![i].off = TRUE,
                                        ![i].offAt = IF Given(d) THEN d.value ELSE Unset,
                                        ![i].tread = IF Given(t) THEN t ELSE @,
                                        ![i].when = IF Given(t) THEN today ELSE @]
    BY <2>1
  <2>3. i \in DOMAIN periods /\ periods[i] \in PeriodRows
    BY <1>1 DEF CurrentInstallation
  <2>4. /\ DOMAIN periods' = DOMAIN periods /\ \A j \in DOMAIN periods \ {i} : periods'[j] = periods[j]
        /\ periods'[i].at = periods[i].at /\ periods'[i].unit = periods[i].unit
        /\ periods'[i].offAt = IF Given(d) THEN d.value ELSE Unset
    BY <1>1, <2>2, <2>3 DEF PeriodRows
  <2> QED BY <2>1, <2>4, PeriodChanged
<1>5. ASSUME NEW t, NEW day, MeasureTread(t, day)
      PROVE  DistanceOnSet(periods)' >= DistanceOnSet(periods)
  <2>1. /\ UNCHANGED reading
        /\ \E i \in CurrentInstallation : periods' = [periods EXCEPT ![i].tread = t, ![i].when = day]
    BY <1>5 DEF MeasureTread
  <2>2. PICK i \in CurrentInstallation : periods' = [periods EXCEPT ![i].tread = t, ![i].when = day]
    BY <2>1
  <2>3. i \in DOMAIN periods /\ periods[i] \in PeriodRows /\ periods[i].offAt = Unset
    BY <1>1 DEF CurrentInstallation, UpkeepInv
  <2>4. /\ DOMAIN periods' = DOMAIN periods /\ \A j \in DOMAIN periods \ {i} : periods'[j] = periods[j]
        /\ periods'[i].at = periods[i].at /\ periods'[i].unit = periods[i].unit
        /\ periods'[i].offAt = periods[i].offAt
    BY <1>1, <2>2, <2>3 DEF PeriodRows
  <2>5. PICK d \in CurrentOrNone : d = Unset
    BY DEF CurrentOrNone
  <2>6. periods'[i].offAt = IF Given(d) THEN d.value ELSE Unset
    BY <2>3, <2>4, <2>5 DEF Given
  <2> QED BY <2>1, <2>4, <2>6, PeriodChanged
<1>6. ASSUME UNCHANGED periods, ~Onward PROVE FALSE
  BY <1>6
<1>7. CASE TyreNext
  <2>1. ASSUME NEW d \in Readings, Drive(d) \/ Correct(d) PROVE UNCHANGED periods
    BY <2>1 DEF Drive, Correct
  <2> QED BY <1>2, <1>3, <1>4, <1>6, <1>7, <2>1 DEF TyreNext
<1>8. CASE TreadNext
  <2>1. PassDay => UNCHANGED periods
    BY DEF PassDay
  <2>2. Unset \in CurrentOrNone
    BY DEF CurrentOrNone
  <2> QED BY <1>2, <1>3, <1>4, <1>5, <1>6, <1>8, <2>1, <2>2 DEF TreadNext
<1>9. CASE RuleNext \/ CoverNext \/ UNCHANGED upkeepVars
  <2>1. UNCHANGED periods
    BY <1>9 DEF RuleNext, CoverNext, upkeepVars, PassDay, Drive, Complete, CreateCover, RemoveCover, UpdateCover
  <2> QED BY <1>2, <1>6, <2>1
<1> QED BY <1>7, <1>8, <1>9

\* Days and driving never make a rule look better, never bring an ended warranty back and
\* never take distance off a set of tyres, for any units, rules, warranties and readings.
THEOREM NothingImproves == UpkeepSpec => WearOnlyGrows
<1>1. UpkeepInv /\ UpkeepInv' /\ [RuleNext \/ CoverNext \/ TyreNext \/ TreadNext]_upkeepVars
      => /\ [Onward /\ Given(rule.unit)
             => Rank(EvaluateRule(rule))' >= Rank(EvaluateRule(rule))]_upkeepVars
         /\ [Onward /\ CoverState(cover) = "EXPIRED" => CoverState(cover)' = "EXPIRED"]_upkeepVars
         /\ [(Onward \/ periods' # periods) /\ OwnUnit /\ OwnUnit'
             => DistanceOnSet(periods)' >= DistanceOnSet(periods)]_upkeepVars
  <2> SUFFICES ASSUME UpkeepInv, UpkeepInv', [RuleNext \/ CoverNext \/ TyreNext \/ TreadNext]_upkeepVars
               PROVE  /\ Onward /\ Given(rule.unit)
                         => Rank(EvaluateRule(rule))' >= Rank(EvaluateRule(rule))
                      /\ Onward /\ CoverState(cover) = "EXPIRED" => CoverState(cover)' = "EXPIRED"
                      /\ (Onward \/ periods' # periods) /\ OwnUnit
                         => DistanceOnSet(periods)' >= DistanceOnSet(periods)
    OBVIOUS
  <2>1. Onward => /\ UNCHANGED <<rule, cover, periods>> /\ today <= today'
                  /\ Given(reading) => Given(reading') /\ Metres(reading) <= Metres(reading')
    BY OnwardMoves
  <2>2. Onward /\ Given(rule.unit) => Rank(EvaluateRule(rule))' >= Rank(EvaluateRule(rule))
    BY <2>1, RuleWorsens
  <2>3. Onward /\ CoverState(cover) = "EXPIRED" => CoverState(cover)' = "EXPIRED"
    BY <2>1, CoverStaysEnded
  <2>4. (Onward \/ periods' # periods) /\ OwnUnit => DistanceOnSet(periods)' >= DistanceOnSet(periods)
    BY TyresAge
  <2> QED BY <2>2, <2>3, <2>4
<1> QED BY <1>1, UpkeepInitial, UpkeepStep, PTL
        DEF UpkeepSpec, WearOnlyGrows, StatusOnlyWorsens, CoverEndsForGood, TyresOnlyAge

-----------------------------------------------------------------------------
(* Papers that lapse: the row whose cover lasts longest decides for its kind.     *)

\* Only so many papers are filed at a time, so there is a day after all they cover.
PaperInv ==
  /\ papers \in [Papers -> PaperRows \cup {NoPaper}] /\ garage \in [Cars -> {"ACTIVE", "SOLD", "DELETED"}]
  /\ now \in Nat
  /\ IsFiniteSet(Filed)
  /\ \E b \in Nat : \A p \in Filed : papers[p].ends \in Nat => papers[p].ends <= b

\* The papers that a reminder may be about.
Owed(k) == InUse(Of(Kept, k))

LEMMA PaperFacts ==
  ASSUME PaperInv
  PROVE  /\ \A p \in Filed : papers[p] \in PaperRows
         /\ \A k : Of(Kept, k) \subseteq PaperRows /\ Of(Filed, k) \subseteq PaperRows
         /\ \A k : \A r \in Of(Filed, k) : r.kind = k /\ \E p \in Filed : papers[p] = r
         /\ \A k : \A r \in Of(Kept, k) : r.kind = k /\ \E p \in Kept : papers[p] = r
         /\ \A k : \A p \in Filed : papers[p].kind = k => papers[p] \in Of(Filed, k)
         /\ \A k : \A p \in Kept : papers[p].kind = k => papers[p] \in Of(Kept, k)
<1>1. \A p \in Filed : papers[p] \in PaperRows
  BY DEF PaperInv, Filed
<1>2. Kept \subseteq Filed
  BY DEF Kept
<1> QED BY <1>1, <1>2 DEF Of

\* Of the dated papers of a vehicle one lasts longest.
LEMMA SomeLastsLongest ==
  ASSUME PaperInv, NEW rows, NEW r \in Dated(rows),
         \A s \in rows : s \in PaperRows /\ \E p \in Filed : papers[p] = s
  PROVE  \E s \in LatestPerVehicle(rows) : s.car = r.car
<1>1. PICK b \in Nat : \A p \in Filed : papers[p].ends \in Nat => papers[p].ends <= b
  BY DEF PaperInv
<1> DEFINE Same == {s \in Dated(rows) : s.car = r.car}
           Left == {b - s.ends : s \in Same}
<1>2. \A s \in Dated(rows) : s.ends \in Nat /\ s.ends <= b
  BY <1>1 DEF Dated, PaperRows
<1>3. PICK n \in Left : \A m \in Left : n <= m
  <2>1. Left \in SUBSET Nat /\ Left # {}
    BY <1>2
  <2> HIDE DEF Left
  <2> QED BY <2>1, LeastNumber
<1>4. PICK s \in Same : n = b - s.ends
  BY <1>3
<1>5. ASSUME NEW t \in Dated(rows), t.car = s.car PROVE t.ends <= s.ends
  <2>1. b - s.ends <= b - t.ends
    BY <1>3, <1>4, <1>5
  <2> QED BY <1>2, <1>4, <2>1
<1> QED BY <1>4, <1>5 DEF LatestPerVehicle

LEMMA OwedFacts ==
  ASSUME PaperInv, NEW k
  PROVE  /\ \A r \in Owed(k) : /\ r \in PaperRows /\ r.kind = k /\ garage[r.car] = "ACTIVE"
                               /\ \E p \in Kept : papers[p] = r
                               /\ \E p \in Filed : papers[p] = r
         /\ \A r \in LatestPerVehicle(Owed(k)) : r \in Owed(k) /\ r.ends \in Nat
<1>1. \A r \in Owed(k) : r \in Of(Kept, k) /\ garage[r.car] = "ACTIVE"
  BY DEF Owed, InUse
<1>2. \A r \in LatestPerVehicle(Owed(k)) : r \in Owed(k) /\ r.ends # NoEnd
  BY DEF LatestPerVehicle, Dated
<1>3. Kept \subseteq Filed
  BY DEF Kept
<1>4. \A r \in Owed(k) : r \in PaperRows /\ r.kind = k /\ \E p \in Kept : papers[p] = r
  BY <1>1, PaperFacts
<1>5. \A r \in LatestPerVehicle(Owed(k)) : r.ends \in Nat
  BY <1>2, <1>4 DEF PaperRows
<1> QED BY <1>1, <1>2, <1>3, <1>4, <1>5

\* What is said of a kind is said of a latest paper that ends within the horizon.
LEMMA WhatIsSaid ==
  ASSUME PaperInv, NEW k \in PaperKinds, NEW i
  PROVE  i \in Reminders /\ i.kind = k <=>
           \E r \in LatestPerVehicle(Owed(k)) : WithinHorizon(r) /\ i = Item(r)
<1>1. \A j \in PaperKinds : \A x \in Scan(j) : x.kind = j
  BY OwedFacts DEF Scan, Owed, Item
<1>2. Scan(k) = {Item(r) : r \in {s \in LatestPerVehicle(Owed(k)) : WithinHorizon(s)}}
  BY DEF Scan, Owed
<1>3. i \in Reminders <=> \E j \in PaperKinds : i \in Scan(j)
  BY DEF Reminders, InspectionReminders, InsuranceReminders, RoadTaxReminders, PaperKinds
<1> QED BY <1>1, <1>2, <1>3

LEMMA LapsesTold == PaperInv => LapsesAreTold
<1> SUFFICES ASSUME PaperInv, NEW c \in Cars, NEW k \in PaperKinds
             PROVE  (\E i \in Reminders : i.car = c /\ i.kind = k /\ i.overdue)
                    <=> garage[c] = "ACTIVE" /\ Live(c, k) # {} /\ ~Covered(c, k)
  BY DEF LapsesAreTold
<1>1. now \in Nat /\ HorizonDays \in Nat
  BY ObligationConstants DEF PaperInv
\* The vehicle's papers of the kind, as rows and as members of Live.
<1>2. ASSUME garage[c] = "ACTIVE", NEW p \in Live(c, k)
      PROVE  papers[p] \in Dated(Owed(k)) /\ papers[p].car = c
  BY <1>2, PaperFacts DEF Live, Owed, InUse, Dated
<1>3. ASSUME NEW r \in LatestPerVehicle(Owed(k)), r.car = c
      PROVE  \E p \in Live(c, k) : papers[p] = r
  BY <1>3, OwedFacts, ObligationConstants DEF Live
<1>4. ASSUME NEW i \in Reminders, i.car = c, i.kind = k, i.overdue
      PROVE  garage[c] = "ACTIVE" /\ Live(c, k) # {} /\ ~Covered(c, k)
  <2>1. PICK r \in LatestPerVehicle(Owed(k)) : WithinHorizon(r) /\ i = Item(r)
    BY <1>4, WhatIsSaid
  <2>2. r.car = c /\ r.ends < now
    BY <1>4, <2>1 DEF Item
  <2>3. garage[c] = "ACTIVE" /\ Live(c, k) # {}
    BY <1>3, <2>2, OwedFacts
  <2>4. ASSUME NEW p \in Live(c, k) PROVE ~(papers[p].ends >= now)
    <3>1. papers[p].ends <= r.ends
      BY <1>2, <2>2, <2>3 DEF LatestPerVehicle
    <3>2. papers[p].ends \in Nat /\ r.ends \in Nat
      BY <1>2, <2>3, OwedFacts DEF Dated, PaperRows
    <3> QED BY <1>1, <2>2, <3>1, <3>2
  <2> QED BY <2>3, <2>4 DEF Covered
<1>5. ASSUME garage[c] = "ACTIVE", Live(c, k) # {}, ~Covered(c, k)
      PROVE  \E i \in Reminders : i.car = c /\ i.kind = k /\ i.overdue
  <2>1. PICK p \in Live(c, k) : TRUE
    BY <1>5
  <2>2. PICK r \in LatestPerVehicle(Owed(k)) : r.car = c
    BY <1>2, <1>5, OwedFacts, SomeLastsLongest
  <2>3. r.ends \in Nat /\ r.kind = k /\ ~(r.ends >= now)
    BY <1>3, <1>5, <2>2, OwedFacts DEF Covered
  <2>4. WithinHorizon(r) /\ r.ends < now
    BY <1>1, <2>3 DEF WithinHorizon
  <2>5. Item(r).car = c /\ Item(r).kind = k /\ Item(r).overdue
    BY <2>2, <2>3, <2>4 DEF Item
  <2> QED BY <2>4, <2>5, WhatIsSaid
<1> QED BY <1>4, <1>5

\* What an expiry's status says of its day.
LEMMA StatusOfDay ==
  ASSUME PaperInv, NEW r, r.ends \in Nat
  PROVE  /\ ExpiryStatus(r) = "EXPIRED" <=> r.ends < now
         /\ ExpiryStatus(r) = "VALID" <=> ~(r.ends < now) /\ ~WithinHorizon(r)
         /\ r.ends < now => WithinHorizon(r)
<1>1. now \in Nat /\ HorizonDays \in Nat /\ r.ends # NoEnd
  BY ObligationConstants DEF PaperInv
<1>2. r.ends >= now <=> ~(r.ends < now)
  BY <1>1
<1>3. r.ends < now => WithinHorizon(r)
  BY <1>1 DEF WithinHorizon
<1> QED BY <1>1, <1>2, <1>3 DEF ExpiryStatus

LEMMA LongestLinesAgree ==
  ASSUME PaperInv, NEW k \in PaperKinds, NEW r \in LatestPerVehicle(Owed(k))
  PROVE  LineAgrees(r)
<1> DEFINE told == Told(r.car, k)
<1>0. r.kind = k /\ \A i : i \in told <=> i \in Reminders /\ i.car = r.car /\ i.kind = k
  BY OwedFacts DEF Told, ToldOf
<1>1. now \in Nat /\ HorizonDays \in Nat /\ r.ends \in Nat /\ r.ends # NoEnd
  BY OwedFacts, ObligationConstants DEF PaperInv
<1>2. ASSUME NEW s \in LatestPerVehicle(Owed(k)), s.car = r.car PROVE s.ends = r.ends
  <2>1. s.ends \in Nat /\ s.ends <= r.ends /\ r.ends <= s.ends
    BY <1>2, OwedFacts DEF LatestPerVehicle
  <2> QED BY <1>1, <2>1
\* What is told of the vehicle is told of its day.
<1>3. ASSUME NEW i \in told PROVE WithinHorizon(r) /\ i.overdue = (r.ends < now)
  <2>1. PICK s \in LatestPerVehicle(Owed(k)) : WithinHorizon(s) /\ i = Item(s)
    BY <1>0, WhatIsSaid
  <2>2. i.car = s.car /\ i.overdue = (s.ends < now) /\ s.car = r.car
    BY <1>0, <2>1 DEF Item
  <2>3. s.ends = r.ends
    BY <1>2, <2>2
  <2> QED BY <2>1, <2>2, <2>3 DEF WithinHorizon
<1>4. WithinHorizon(r) => Item(r) \in told
  <2>1. Item(r).car = r.car /\ Item(r).kind = k
    BY <1>0 DEF Item
  <2> QED BY <1>0, <2>1, WhatIsSaid
<1>5. Item(r).overdue <=> r.ends < now
  BY DEF Item
<1>6. /\ ExpiryStatus(r) = "EXPIRED" <=> r.ends < now
      /\ ExpiryStatus(r) = "VALID" <=> ~(r.ends < now) /\ ~WithinHorizon(r)
      /\ r.ends < now => WithinHorizon(r)
  BY <1>1, StatusOfDay
<1> HIDE DEF told
<1>7. ExpiryStatus(r) = "VALID" <=> told = {}
  BY <1>3, <1>4, <1>6
<1>8. ExpiryStatus(r) = "EXPIRED" <=> \E i \in told : i.overdue
  BY <1>3, <1>4, <1>5, <1>6
<1> QED BY <1>0, <1>7, <1>8 DEF told, LineAgrees

\* The card's row is one of those the reminder chose from, so it ends no later.
LEMMA PagesAgree == PaperInv => PageAgrees
<1> SUFFICES ASSUME PaperInv, NEW k \in PaperKinds, NEW c \in Cars, NEW r \in OnCard(c, k), garage[r.car] = "ACTIVE"
             PROVE  /\ Orderly(r.car, k) => LineAgrees(r)
                    /\ r.ends # NoEnd =>
                         /\ ExpiryStatus(r) = "VALID" => Told(r.car, k) = {}
                         /\ (\E i \in Told(r.car, k) : i.overdue) => ExpiryStatus(r) = "EXPIRED"
  BY LongestLinesAgree DEF PageAgrees, Owed, InUse
<1>1. r \in Owed(k) /\ r.car = c /\ r \in PaperRows
  BY PaperFacts DEF OnCard, Owed, InUse
<1>2. ASSUME Orderly(c, k) PROVE LineAgrees(r)
  <2> DEFINE rows == {x \in Of(Kept, k) : x.car = c}
  <2>1. /\ \A x \in rows : x.ends # NoEnd /\ x \in PaperRows
        /\ \A x, y \in rows : x.ends < y.ends => x.starts < y.starts \/ (x.starts = y.starts /\ x.entered < y.entered)
    BY <1>2, PaperFacts DEF Orderly
  <2>2. r \in rows /\ \A s \in rows : s = r \/ Newer(r, s)
    BY <1>1 DEF OnCard
  <2>3. ASSUME NEW s \in Dated(Owed(k)), s.car = r.car PROVE s.ends <= r.ends
    <3>1. s \in rows
      BY <1>1, <2>3 DEF Dated, Owed, InUse
    <3>2. /\ s.ends \in Nat /\ s.starts \in Nat /\ s.entered \in Nat
          /\ r.ends \in Nat /\ r.starts \in Nat /\ r.entered \in Nat
      BY <2>1, <2>2, <3>1 DEF PaperRows
    <3>3. CASE s = r
      BY <3>2, <3>3
    <3>4. CASE Newer(r, s)
      <4>1. ~(r.starts < s.starts \/ (r.starts = s.starts /\ r.entered < s.entered))
        BY <3>2, <3>4 DEF Newer
      <4>2. ~(r.ends < s.ends)
        BY <2>1, <2>2, <3>1, <4>1
      <4> QED BY <3>2, <4>2
    <3> QED BY <2>2, <3>1, <3>3, <3>4
  <2>4. r \in LatestPerVehicle(Owed(k))
    BY <1>1, <2>1, <2>2, <2>3 DEF LatestPerVehicle, Dated
  <2> QED BY <2>4, LongestLinesAgree
<1>3. ASSUME r.ends # NoEnd
      PROVE  /\ ExpiryStatus(r) = "VALID" => Told(c, k) = {}
             /\ (\E i \in Told(c, k) : i.overdue) => ExpiryStatus(r) = "EXPIRED"
  <2>1. r \in Dated(Owed(k)) /\ r.ends \in Nat
    BY <1>1, <1>3 DEF Dated, PaperRows
  <2>2. PICK s \in LatestPerVehicle(Owed(k)) : s.car = c
    BY <1>1, <2>1, OwedFacts, SomeLastsLongest
  <2>3. /\ s.ends \in Nat /\ r.ends <= s.ends /\ s.kind = k
        /\ now \in Nat /\ HorizonDays \in Nat
    BY <1>1, <2>1, <2>2, OwedFacts, ObligationConstants DEF LatestPerVehicle, PaperInv
  <2>4. /\ ExpiryStatus(s) = "VALID" <=> Told(c, k) = {}
        /\ ExpiryStatus(s) = "EXPIRED" <=> \E i \in Told(c, k) : i.overdue
    BY <2>2, <2>3, LongestLinesAgree DEF LineAgrees
  <2>5. /\ s.ends < now => r.ends < now
        /\ WithinHorizon(s) => WithinHorizon(r)
    BY <2>1, <2>3 DEF WithinHorizon
  <2>6. /\ ExpiryStatus(r) = "EXPIRED" <=> r.ends < now
        /\ ExpiryStatus(r) = "VALID" <=> ~(r.ends < now) /\ ~WithinHorizon(r)
    BY <2>1, StatusOfDay
  <2>7. /\ ExpiryStatus(s) = "EXPIRED" <=> s.ends < now
        /\ ExpiryStatus(s) = "VALID" <=> ~(s.ends < now) /\ ~WithinHorizon(s)
    BY <2>3, StatusOfDay
  <2> QED BY <2>4, <2>5, <2>6, <2>7
<1> QED BY <1>1, <1>2, <1>3

\* With no paper removed, a vehicle in use owes in the report what it is reminded of.
LEMMA OneListOfPapers ==
  ASSUME PaperInv, NEW c \in Cars, garage[c] = "ACTIVE",
         \A p \in Filed : papers[p].car = c => papers[p].live
  PROVE  \A r : r \in ObligationsOf(c) <=>
           r.car = c /\ \E k \in PaperKinds : r \in LatestPerVehicle(Owed(k))
<1>1. ASSUME NEW k, NEW r
      PROVE  r.car = c => (r \in Listed(Of(Filed, k)) <=> r \in Owed(k))
  <2>1. "ACTIVE" # "DELETED"
    OBVIOUS
  <2>2. ASSUME r.car = c
        PROVE  r \in Of(Filed, k) <=> r \in Of(Kept, k)
    BY <2>2 DEF Of, Kept
  <2> QED BY <2>1, <2>2 DEF Listed, Owed, InUse
<1>2. ASSUME NEW k, NEW r
      PROVE  r.car = c => (r \in LatestPerVehicle(Listed(Of(Filed, k)))
                            <=> r \in LatestPerVehicle(Owed(k)))
  BY <1>1 DEF LatestPerVehicle, Dated
<1>3. \A r : r \in ObligationsOf(c) <=>
        r.car = c /\ \E k \in PaperKinds : r \in LatestPerVehicle(Listed(Of(Filed, k)))
  BY DEF ObligationsOf
<1> QED BY <1>2, <1>3

LEMMA FleetsAgree == PaperInv => FleetAgrees
<1> SUFFICES ASSUME PaperInv, NEW c \in Cars, garage[c] = "ACTIVE",
                    \A p \in Filed : papers[p].car = c => papers[p].live
             PROVE  LET lapsed == \E i \in ToldOf(c) : i.overdue IN
                    /\ ComplianceOf(c) = "EXPIRED" <=> lapsed
                    /\ ComplianceOf(c) = "DUE_SOON" <=>
                         ~lapsed /\ \E i \in ToldOf(c) : i.due - now <= DueSoonDays
                    /\ ComplianceOf(c) = "UNKNOWN" => ToldOf(c) = {}
  BY DEF FleetAgrees
<1> DEFINE told == ToldOf(c)
           owed == ObligationsOf(c)
           soonest == CHOOSE r \in owed : \A s \in owed : r.ends <= s.ends
<1>1. /\ now \in Nat /\ HorizonDays \in Nat /\ DueSoonDays \in Nat
      /\ DueSoonDays <= HorizonDays
  BY ObligationConstants DEF PaperInv
<1>2. \A r \in owed : r.ends \in Nat /\ r.car = c
                      /\ \E k \in PaperKinds : r \in LatestPerVehicle(Owed(k))
  BY OneListOfPapers, OwedFacts
<1>3. \A i \in told : \E r \in owed : WithinHorizon(r) /\ i = Item(r)
  <2> SUFFICES ASSUME NEW i \in told PROVE \E r \in owed : WithinHorizon(r) /\ i = Item(r)
    OBVIOUS
  <2>1. i.kind \in PaperKinds
    <3>1. \A k \in PaperKinds : \A j \in Scan(k) : j.kind = k
      BY OwedFacts DEF Scan, Owed, Item
    <3>2. \E k \in PaperKinds : i \in Scan(k)
      BY DEF ToldOf, Reminders, InspectionReminders, InsuranceReminders, RoadTaxReminders, PaperKinds
    <3> QED BY <3>1, <3>2
  <2>2. PICK r \in LatestPerVehicle(Owed(i.kind)) : WithinHorizon(r) /\ i = Item(r)
    BY <2>1, WhatIsSaid DEF ToldOf
  <2>3. r.car = c
    BY <2>2 DEF Item, ToldOf
  <2> QED BY <2>1, <2>2, <2>3, OneListOfPapers
<1>4. ASSUME NEW r \in owed, WithinHorizon(r) PROVE Item(r) \in told
  <2>1. PICK k \in PaperKinds : r \in LatestPerVehicle(Owed(k))
    BY <1>2
  <2>2. Item(r).car = c
    BY <1>2 DEF Item
  <2>3. Item(r).kind = k
    BY <2>1, OwedFacts DEF Item
  <2> QED BY <1>4, <2>1, <2>2, <2>3, WhatIsSaid DEF ToldOf
<1>5. \A r : Item(r).overdue = (r.ends < now) /\ Item(r).due = r.ends
  BY DEF Item
<1>6. \A r \in owed : /\ r.ends < now => WithinHorizon(r)
                      /\ r.ends - now <= DueSoonDays => WithinHorizon(r)
  BY <1>1, <1>2 DEF WithinHorizon
<1>7. owed # {} => soonest \in owed /\ \A s \in owed : soonest.ends <= s.ends
  <2> SUFFICES ASSUME owed # {} PROVE \E r \in owed : \A s \in owed : r.ends <= s.ends
    OBVIOUS
  <2> DEFINE Days == {r.ends : r \in owed}
  <2>1. Days \in SUBSET Nat /\ Days # {}
    BY <1>2
  <2>2. \E n \in Days : \A m \in Days : n <= m
    <3> HIDE DEF Days
    <3> QED BY <2>1, LeastNumber
  <2> QED BY <2>2
<1>8. /\ ComplianceOf(c) = "EXPIRED" <=> owed # {} /\ soonest.ends < now
      /\ ComplianceOf(c) = "DUE_SOON" <=>
           owed # {} /\ ~(soonest.ends < now) /\ soonest.ends - now <= DueSoonDays
      /\ ComplianceOf(c) = "UNKNOWN" => owed = {}
  <2> HIDE DEF owed
  <2>1. ComplianceOf(c) = CASE owed = {} -> "UNKNOWN"
          [] owed # {} /\ soonest.ends < now -> "EXPIRED"
          [] owed # {} /\ soonest.ends >= now /\ soonest.ends - now <= DueSoonDays -> "DUE_SOON"
          [] OTHER -> "OK"
    BY DEF ComplianceOf, owed
  <2>2. owed # {} => soonest.ends \in Nat
    BY <1>2, <1>7
  <2>3. owed # {} => (soonest.ends >= now <=> ~(soonest.ends < now))
    BY <1>1, <2>2
  <2> HIDE DEF soonest
  <2> QED BY <2>1, <2>3
<1> HIDE DEF told, owed, soonest
<1>9. ASSUME ComplianceOf(c) = "EXPIRED" PROVE \E i \in told : i.overdue
  BY <1>4, <1>5, <1>6, <1>7, <1>8, <1>9
<1>10. ASSUME NEW i \in told, i.overdue PROVE ComplianceOf(c) = "EXPIRED"
  <2>1. PICK r \in owed : i = Item(r)
    BY <1>3
  <2>2. r.ends < now /\ soonest.ends <= r.ends /\ r.ends \in Nat /\ soonest.ends \in Nat
    BY <1>2, <1>5, <1>7, <1>10, <2>1
  <2> QED BY <1>1, <1>8, <2>1, <2>2
<1>11. ASSUME ComplianceOf(c) = "DUE_SOON"
       PROVE  (~\E i \in told : i.overdue) /\ \E i \in told : i.due - now <= DueSoonDays
  <2>1. ComplianceOf(c) # "EXPIRED"
    BY <1>11
  <2>2. soonest \in owed /\ soonest.ends - now <= DueSoonDays
    BY <1>7, <1>8, <1>11
  <2>3. Item(soonest) \in told /\ Item(soonest).due = soonest.ends
    BY <1>4, <1>5, <1>6, <2>2
  <2> QED BY <1>10, <2>1, <2>2, <2>3
<1>12. ASSUME ~\E i \in told : i.overdue, NEW i \in told, i.due - now <= DueSoonDays
       PROVE  ComplianceOf(c) = "DUE_SOON"
  <2>1. PICK r \in owed : i = Item(r)
    BY <1>3
  <2>2. /\ soonest \in owed /\ soonest.ends <= r.ends /\ r.ends \in Nat /\ soonest.ends \in Nat
        /\ r.ends - now <= DueSoonDays
    BY <1>2, <1>5, <1>7, <1>12, <2>1
  <2>3. ~(soonest.ends < now)
    BY <1>4, <1>5, <1>6, <1>12, <2>2
  <2>4. soonest.ends - now <= DueSoonDays
    BY <1>1, <2>2
  <2> QED BY <1>8, <2>1, <2>3, <2>4
<1>13. ComplianceOf(c) = "UNKNOWN" => told = {}
  BY <1>3, <1>8
<1> QED BY <1>9, <1>10, <1>11, <1>12, <1>13 DEF told

LEMMA PapersInitial == PaperInit => PaperInv
<1> SUFFICES ASSUME PaperInit PROVE PaperInv
  OBVIOUS
<1>1. Filed = {} /\ 0 \in Nat
  BY DEF PaperInit, Filed
<1>2. \E b \in Nat : \A p \in Filed : papers[p].ends \in Nat => papers[p].ends <= b
  BY <1>1
<1>3. IsFiniteSet(Filed)
  BY <1>1, FS_EmptySet
<1> QED BY <1>2, <1>3 DEF PaperInit, PaperInv

LEMMA PapersStep == PaperInv /\ [PaperNext]_paperVars => PaperInv'
<1> SUFFICES ASSUME PaperInv, [PaperNext]_paperVars PROVE PaperInv'
  OBVIOUS
<1>1. PICK b \in Nat : \A p \in Filed : papers[p].ends \in Nat => papers[p].ends <= b
  BY DEF PaperInv
<1>2. papers \in [Papers -> PaperRows \cup {NoPaper}] /\ now \in Nat
  BY DEF PaperInv
\* One row is written.
<1>3. ASSUME NEW p \in Papers, NEW r \in PaperRows, papers' = [papers EXCEPT ![p] = r],
             UNCHANGED <<garage, now>>
      PROVE  PaperInv'
  <2>1. papers' \in [Papers -> PaperRows \cup {NoPaper}]
    BY <1>2, <1>3
  <2>2. papers'[p] = r /\ \A q \in Papers \ {p} : papers'[q] = papers[q]
    BY <1>2, <1>3
  <2>3. PICK n \in Nat : n >= b /\ (r.ends \in Nat => r.ends <= n)
    <3>1. CASE r.ends \in Nat
      <4>1. b + r.ends \in Nat /\ b + r.ends >= b /\ r.ends <= b + r.ends
        BY <3>1
      <4> QED BY <4>1
    <3>2. CASE r.ends \notin Nat
      BY <3>2
    <3> QED BY <3>1, <3>2
  <2>4. ASSUME NEW q \in Papers, papers'[q] # NoPaper, papers'[q].ends \in Nat
        PROVE  papers'[q].ends <= n
    <3>1. CASE q = p
      BY <2>2, <2>3, <2>4, <3>1
    <3>2. CASE q # p
      <4>1. papers'[q] = papers[q] /\ papers[q].ends <= b
        BY <1>1, <2>2, <2>4, <3>2 DEF Filed
      <4> QED BY <2>3, <2>4, <4>1
    <3> QED BY <3>1, <3>2
  <2>5. \A q \in Filed' : papers'[q].ends \in Nat => papers'[q].ends <= n
    BY <2>4 DEF Filed
  <2>6. IsFiniteSet(Filed')
    <3>1. Filed' \subseteq Filed \cup {p} /\ IsFiniteSet(Filed)
      BY <2>2 DEF Filed, PaperInv
    <3> QED BY <3>1, FS_AddElement, FS_Subset
  <2> QED BY <1>3, <2>1, <2>5, <2>6 DEF PaperInv
<1>4. ASSUME NEW p \in Papers, NEW c \in Cars, NEW k \in PaperKinds, NEW d \in Starts,
             NEW e \in Ends \cup {NoEnd}, File(p, c, k, d, e)
      PROVE  PaperInv'
  <2> DEFINE n == Cardinality(Filed)
             r == [car |-> c, kind |-> k, starts |-> d, ends |-> e, entered |-> n, live |-> TRUE]
  <2>0. n \in Nat
    BY FS_CardinalityType DEF PaperInv
  <2> HIDE DEF n
  <2>1. r \in PaperRows
    BY <2>0, ObligationConstants DEF PaperRows
  <2>2. papers' = [papers EXCEPT ![p] = r] /\ UNCHANGED <<garage, now>>
    BY <1>4 DEF File, n
  <2> HIDE DEF r
  <2> QED BY <1>3, <2>1, <2>2
<1>5. ASSUME NEW p \in Papers, NEW k, NEW d \in Starts \cup {NoEnd}, NEW e \in Ends \cup {NoEnd},
             Amend(p, k, d, e)
      PROVE  PaperInv'
  <2> DEFINE old == papers[p]
             r == [old EXCEPT !.starts = Sent(old.starts, d), !.ends = Sent(old.ends, e)]
  <2>1. papers[p] \in PaperRows
    BY <1>5, PaperFacts DEF Amend, Kept
  <2>2. r \in PaperRows
    <3>1. Sent(papers[p].starts, d) \in Nat /\ Sent(papers[p].ends, e) \in Nat \cup {NoEnd}
      BY <2>1, ObligationConstants DEF Sent, PaperRows
    <3> QED BY <2>1, <3>1 DEF PaperRows
  <2>3. papers' = [papers EXCEPT ![p] = r] /\ UNCHANGED <<garage, now>>
    BY <1>2, <1>5, <2>1 DEF Amend
  <2> HIDE DEF r
  <2> QED BY <1>3, <2>2, <2>3
<1>6. ASSUME NEW p \in Papers, NEW k, Discard(p, k) PROVE PaperInv'
  <2> DEFINE r == [papers[p] EXCEPT !.live = FALSE]
  <2>1. papers[p] \in PaperRows
    BY <1>6, PaperFacts DEF Discard, Kept
  <2>2. r \in PaperRows
    BY <2>1 DEF PaperRows
  <2>3. papers' = [papers EXCEPT ![p] = r] /\ UNCHANGED <<garage, now>>
    BY <1>2, <1>6, <2>1 DEF Discard
  <2> HIDE DEF r
  <2> QED BY <1>3, <2>2, <2>3
<1>7. ASSUME UNCHANGED papers, now' \in Nat,
             garage' \in [Cars -> {"ACTIVE", "SOLD", "DELETED"}]
      PROVE  PaperInv'
  BY <1>2, <1>7 DEF PaperInv, Filed
<1>8. ASSUME NEW c \in Cars, NEW s \in {"ACTIVE", "SOLD", "DELETED"}, SetVehicle(c, s)
      PROVE  PaperInv'
  BY <1>2, <1>7, <1>8 DEF SetVehicle, PaperInv
<1>9. CASE DayPasses
  BY <1>2, <1>7, <1>9 DEF DayPasses, PaperInv
<1>10. CASE UNCHANGED paperVars
  BY <1>2, <1>7, <1>10 DEF paperVars, PaperInv
<1>11. {"INSPECTION", "INSURANCE", "TAX"} \subseteq PaperKinds
  BY DEF PaperKinds
<1> QED BY <1>4, <1>5, <1>6, <1>8, <1>9, <1>10, <1>11
        DEF PaperNext, CreateInspection, CreateInsurance, CreateRoadTax, UpdateInspection,
            UpdateInsurance, UpdateRoadTax, RemoveInspection, RemoveInsurance, RemoveRoadTax

\* An owner is told that something lapsed exactly when nothing covers the vehicle any
\* more, the record's page says the same, and so does the fleet table while no paper was
\* removed, for any number of papers and vehicles and any horizons.
THEOREM ScreensStayTrue == PaperSpec => []ScreensAreTrue
<1>1. PaperInv => ScreensAreTrue
  BY LapsesTold, PagesAgree, FleetsAgree DEF ScreensAreTrue
<1> QED BY <1>1, PapersInitial, PapersStep, PTL DEF PaperSpec
===============================================================================
