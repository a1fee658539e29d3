---------------------------- MODULE DataInduction ----------------------------
(***************************************************************************)
(* Induction over the natural numbers, stated of a set rather than of a    *)
(* predicate, and functions defined by recursion along a sequence: what    *)
(* the proofs about the loops over a layout and the sums over a ledger     *)
(* rest on.                                                                *)
(***************************************************************************)
EXTENDS Integers, FiniteSetTheorems, WellFoundedInduction, TLAPS

LEMMA LeastElement ==
  ASSUME NEW T, T \subseteq Nat, T # {}
  PROVE  \E x \in T : \A y \in T : x <= y
<1> DEFINE R == OpToRel(<, Nat)
<1>1. IsWellFoundedOn(R, Nat)
  BY NatLessThanWellFounded
<1>2. \A x, y \in Nat : x < y => <<x, y>> \in R
  BY DEF OpToRel
<1> HIDE DEF R
<1>3. PICK x \in T : \A y \in T : ~(<<y, x>> \in R)
  BY <1>1, WFMin
<1>4. ASSUME NEW y \in T
      PROVE  x <= y
  <2>1. x \in Nat /\ y \in Nat
    OBVIOUS
  <2>2. ~(y < x)
    BY <1>2, <1>3, <2>1
  <2> QED BY <2>1, <2>2
<1> QED BY <1>4

LEMMA Induction ==
  ASSUME NEW S, 0 \in S, \A n \in Nat : n \in S => n + 1 \in S
  PROVE  Nat \subseteq S
<1> SUFFICES ASSUME ~(Nat \subseteq S)
             PROVE  FALSE
  OBVIOUS
<1> DEFINE T == Nat \ S
<1>1. PICK x \in T : \A y \in T : x <= y
  BY LeastElement
<1>2. x # 0 /\ x \in Nat
  OBVIOUS
<1>3. x - 1 \in Nat /\ x - 1 \notin T
  BY <1>1, <1>2
<1>4. x - 1 \in S
  BY <1>3
<1> QED BY <1>2, <1>3, <1>4

(* The recursion of a bounded loop: each value is made from the one before *)
(* it.                                                                     *)
Follows(f, D, v, N, step) ==
  /\ f \in [0 .. N -> D]
  /\ f[0] = v
  /\ \A n \in 1 .. N : f[n] = step[n][f[n - 1]]

LEMMA Recursion ==
  ASSUME NEW D, NEW v \in D, NEW N \in Nat, NEW step \in [1 .. N -> [D -> D]]
  PROVE  \E f : Follows(f, D, v, N, step)
<1> DEFINE Upto(m) ==
             \E f \in [0 .. m -> D] :
               f[0] = v /\ \A n \in 1 .. m : f[n] = step[n][f[n - 1]]
           S == {m \in Nat : m <= N => Upto(m)}
<1>1. 0 \in S
  <2> DEFINE f == [n \in 0 .. 0 |-> v]
  <2>1. f \in [0 .. 0 -> D] /\ f[0] = v
    OBVIOUS
  <2>2. 1 .. 0 = {}
    OBVIOUS
  <2> HIDE DEF f
  <2>3. Upto(0)
    BY <2>1, <2>2
  <2> QED BY <2>3
<1>2. ASSUME NEW m \in Nat, m \in S
      PROVE  m + 1 \in S
  <2> SUFFICES ASSUME m + 1 <= N
               PROVE  Upto(m + 1)
    OBVIOUS
  <2>1. PICK f \in [0 .. m -> D] :
          f[0] = v /\ \A n \in 1 .. m : f[n] = step[n][f[n - 1]]
    <3>1. m <= N
      OBVIOUS
    <3> QED BY <1>2, <3>1
  <2>2. m \in 0 .. m /\ m + 1 \in 1 .. N
    OBVIOUS
  <2>3. step[m + 1][f[m]] \in D
    BY <2>1, <2>2
  <2> DEFINE g == [n \in 0 .. m + 1 |->
                     IF n = m + 1 THEN step[m + 1][f[m]] ELSE f[n]]
  <2>4. g \in [0 .. m + 1 -> D]
    <3>1. \A n \in 0 .. m + 1 : n # m + 1 => n \in 0 .. m
      OBVIOUS
    <3> QED BY <2>1, <2>3, <3>1
  <2>5. /\ g[m + 1] = step[m + 1][f[m]]
        /\ \A n \in 0 .. m : g[n] = f[n]
    OBVIOUS
  <2> HIDE DEF g
  <2>6. ASSUME NEW n \in 1 .. m + 1
        PROVE  g[n] = step[n][g[n - 1]]
    <3>1. CASE n = m + 1
      <4>1. n - 1 = m
        BY <3>1
      <4> QED BY <2>2, <2>5, <3>1, <4>1
    <3>2. CASE n # m + 1
      <4>1. n \in 1 .. m /\ n \in 0 .. m /\ n - 1 \in 0 .. m
        BY <3>2
      <4> QED BY <2>1, <2>5, <4>1
    <3> QED BY <3>1, <3>2
  <2>7. g[0] = v
    BY <2>1, <2>5
  <2> QED BY <2>4, <2>6, <2>7
<1> HIDE DEF S
<1>3. Nat \subseteq S
  BY <1>1, <1>2, Induction
<1>4. N \in S
  BY <1>3
<1> QED BY <1>4 DEF S, Follows

-----------------------------------------------------------------------------
(* Sums over a finite set, as the fold of the community modules takes them *)
(* up: one element at a time, whichever CHOOSE picks.                      *)

Chosen(s) == CHOOSE x \in s : TRUE

(* g[s] is the sum of f over the subset s of S.                            *)
SumsUp(g, f, S) ==
  /\ g \in [SUBSET S -> Int]
  /\ g[{}] = 0
  /\ \A s \in SUBSET S :
       s # {} => g[s] = f[Chosen(s)] + g[s \ {Chosen(s)}]

(* The sets of at most n elements.                                         *)
UpTo(n, S) == {s \in SUBSET S : Cardinality(s) <= n}

LEMMA ChosenIn ==
  ASSUME NEW s, s # {}
  PROVE  Chosen(s) \in s
BY DEF Chosen

LEMMA OneLess ==
  ASSUME NEW S, IsFiniteSet(S), NEW s \in SUBSET S, NEW x \in s
  PROVE  /\ IsFiniteSet(s)
         /\ s \ {x} \in SUBSET S
         /\ Cardinality(s) \in Nat
         /\ Cardinality(s) >= 1
         /\ Cardinality(s \ {x}) = Cardinality(s) - 1
<1>1. IsFiniteSet(s)
  BY FS_Subset
<1>2. Cardinality(s) \in Nat /\ Cardinality(s \ {x}) \in Nat
  <2>1. IsFiniteSet(s \ {x})
    BY <1>1, FS_RemoveElement
  <2> QED BY <1>1, <2>1, FS_CardinalityType
<1>3. Cardinality(s \ {x}) = Cardinality(s) - 1
  BY <1>1, FS_RemoveElement
<1> QED BY <1>1, <1>2, <1>3

LEMMA SumExists ==
  ASSUME NEW S, IsFiniteSet(S), NEW f \in [S -> Int]
  PROVE  \E g : SumsUp(g, f, S)
<1> DEFINE Part(n, g) ==
             /\ g \in [UpTo(n, S) -> Int]
             /\ g[{}] = 0
             /\ \A s \in UpTo(n, S) :
                  s # {} => g[s] = f[Chosen(s)] + g[s \ {Chosen(s)}]
           N == {n \in Nat : \E g : Part(n, g)}
<1>1. \A s \in SUBSET S : IsFiniteSet(s) /\ Cardinality(s) \in Nat
  BY FS_Subset, FS_CardinalityType
<1>2. \A n \in Nat : {} \in UpTo(n, S)
  BY FS_EmptySet DEF UpTo
<1>3. 0 \in N
  <2> DEFINE g == [s \in UpTo(0, S) |-> 0]
  <2>1. \A s \in UpTo(0, S) : s = {}
    BY <1>1, FS_EmptySet DEF UpTo
  <2>2. g \in [UpTo(0, S) -> Int] /\ g[{}] = 0
    BY <1>2
  <2> HIDE DEF g
  <2>3. Part(0, g)
    BY <2>1, <2>2
  <2> QED BY <2>3
<1>4. ASSUME NEW n \in Nat, n \in N
      PROVE  n + 1 \in N
  <2>1. PICK g : Part(n, g)
    BY <1>4
  <2> DEFINE h == [s \in UpTo(n + 1, S) |->
                     IF s = {} THEN 0
                     ELSE f[Chosen(s)] + g[s \ {Chosen(s)}]]
  <2>2. \A s \in UpTo(n + 1, S) :
          s # {} => /\ Chosen(s) \in S
                    /\ s \ {Chosen(s)} \in UpTo(n, S)
                    /\ s \ {Chosen(s)} \in UpTo(n + 1, S)
    <3> TAKE s \in UpTo(n + 1, S)
    <3> HAVE s # {}
    <3>1. s \in SUBSET S /\ Cardinality(s) <= n + 1 /\ Chosen(s) \in s
      BY ChosenIn DEF UpTo
    <3>2. /\ s \ {Chosen(s)} \in SUBSET S
          /\ Cardinality(s) \in Nat
          /\ Cardinality(s \ {Chosen(s)}) = Cardinality(s) - 1
      BY <3>1, OneLess
    <3>3. Cardinality(s) - 1 <= n /\ Cardinality(s) - 1 <= n + 1
      BY <3>1, <3>2
    <3> QED BY <3>1, <3>2, <3>3 DEF UpTo
  <2>3. h \in [UpTo(n + 1, S) -> Int]
    <3>1. \A s \in UpTo(n + 1, S) :
            s # {} => f[Chosen(s)] \in Int /\ g[s \ {Chosen(s)}] \in Int
      BY <2>1, <2>2
    <3>2. \A s \in UpTo(n + 1, S) :
            s # {} => f[Chosen(s)] + g[s \ {Chosen(s)}] \in Int
      BY <3>1
    <3> QED BY <3>2
  <2>4. h[{}] = 0
    <3>1. {} \in UpTo(n + 1, S)
      BY <1>2
    <3> QED BY <3>1
  <2>5. \A s \in UpTo(n, S) : s \in UpTo(n + 1, S)
    BY <1>1 DEF UpTo
  <2>6. \A s \in UpTo(n, S) : h[s] = g[s]
    BY <2>1, <2>5
  <2>7. \A s \in UpTo(n + 1, S) :
          s # {} => h[s] = f[Chosen(s)] + g[s \ {Chosen(s)}]
    OBVIOUS
  <2> HIDE DEF h
  <2>8. \A s \in UpTo(n + 1, S) :
          s # {} => h[s] = f[Chosen(s)] + h[s \ {Chosen(s)}]
    BY <2>2, <2>6, <2>7
  <2>9. Part(n + 1, h)
    BY <2>3, <2>4, <2>8
  <2> HIDE DEF Part
  <2> QED BY <2>9
<1> HIDE DEF N
<1>5. Nat \subseteq N
  BY <1>3, <1>4, Induction
<1>6. Cardinality(S) \in N
  BY <1>1, <1>5
<1>7. UpTo(Cardinality(S), S) = SUBSET S
  BY FS_Subset DEF UpTo
<1>8. PICK g : Part(Cardinality(S), g)
  BY <1>6 DEF N
<1>9. SumsUp(g, f, S)
  BY <1>7, <1>8 DEF SumsUp
<1> QED BY <1>9

(* Any element can be counted last.                                        *)
LEMMA SumOfOneMore ==
  ASSUME NEW S, IsFiniteSet(S), NEW f \in [S -> Int], NEW g,
         SumsUp(g, f, S), NEW s \in SUBSET S, NEW x \in s
  PROVE  g[s] = f[x] + g[s \ {x}]
<1> DEFINE Good(t) == \A y \in t : g[t] = f[y] + g[t \ {y}]
           N == {n \in Nat : \A t \in SUBSET S : Cardinality(t) = n => Good(t)}
<1>1. \A t \in SUBSET S : IsFiniteSet(t) /\ Cardinality(t) \in Nat
  BY FS_Subset, FS_CardinalityType
<1>2. /\ \A t \in SUBSET S : g[t] \in Int
      /\ \A t \in SUBSET S :
           t # {} => g[t] = f[Chosen(t)] + g[t \ {Chosen(t)}]
      /\ \A y \in S : f[y] \in Int
  BY DEF SumsUp
<1>3. 0 \in N
  <2>1. \A t \in SUBSET S : Cardinality(t) = 0 => t = {}
    BY <1>1, FS_EmptySet
  <2> QED BY <2>1
<1>4. ASSUME NEW n \in Nat, n \in N
      PROVE  n + 1 \in N
  <2> SUFFICES ASSUME NEW t \in SUBSET S, Cardinality(t) = n + 1, NEW y \in t
               PROVE  g[t] = f[y] + g[t \ {y}]
    OBVIOUS
  <2> DEFINE z == Chosen(t)
             rest == t \ {y, z}
  <2>1. z \in t /\ y \in S /\ z \in S
    BY ChosenIn
  <2>2. g[t] = f[z] + g[t \ {z}]
    BY <1>2
  <2>3. CASE y = z
    BY <2>2, <2>3
  <2>4. CASE y # z
    <3>1. Cardinality(t \ {z}) = n /\ Cardinality(t \ {y}) = n
      BY <2>1, OneLess
    <3>2. t \ {z} \in SUBSET S /\ t \ {y} \in SUBSET S /\ rest \in SUBSET S
      OBVIOUS
    <3>3. Good(t \ {z}) /\ Good(t \ {y})
      BY <1>4, <3>1, <3>2
    <3>4. g[t \ {z}] = f[y] + g[rest]
      <4>1. y \in t \ {z} /\ (t \ {z}) \ {y} = rest
        BY <2>1, <2>4
      <4> QED BY <3>3, <4>1
    <3>5. g[t \ {y}] = f[z] + g[rest]
      <4>1. z \in t \ {y} /\ (t \ {y}) \ {z} = rest
        BY <2>1, <2>4
      <4> QED BY <3>3, <4>1
    <3>6. f[y] \in Int /\ f[z] \in Int /\ g[rest] \in Int
      BY <1>2, <2>1, <3>2
    <3> HIDE DEF z, rest
    <3> QED BY <2>2, <3>4, <3>5, <3>6
  <2> QED BY <2>3, <2>4
<1> HIDE DEF N
<1>5. Nat \subseteq N
  BY <1>3, <1>4, Induction
<1>6. Cardinality(s) \in N
  BY <1>1, <1>5
<1>7. Good(s)
  BY <1>6 DEF N
<1> QED BY <1>7

(* Functions that agree on a set have the same sum over it.                *)
LEMMA SameSum ==
  ASSUME NEW S, IsFiniteSet(S), NEW f1 \in [S -> Int], NEW f2 \in [S -> Int],
         NEW g1, SumsUp(g1, f1, S), NEW g2, SumsUp(g2, f2, S),
         NEW s \in SUBSET S, \A x \in s : f1[x] = f2[x]
  PROVE  g1[s] = g2[s]
<1> DEFINE Good(t) == (\A x \in t : f1[x] = f2[x]) => g1[t] = g2[t]
           N == {n \in Nat : \A t \in SUBSET S : Cardinality(t) = n => Good(t)}
<1>1. \A t \in SUBSET S : IsFiniteSet(t) /\ Cardinality(t) \in Nat
  BY FS_Subset, FS_CardinalityType
<1>2. 0 \in N
  <2>1. \A t \in SUBSET S : Cardinality(t) = 0 => t = {}
    BY <1>1, FS_EmptySet
  <2>2. g1[{}] = g2[{}]
    BY DEF SumsUp
  <2> QED BY <2>1, <2>2
<1>3. ASSUME NEW n \in Nat, n \in N
      PROVE  n + 1 \in N
  <2> SUFFICES ASSUME NEW t \in SUBSET S, Cardinality(t) = n + 1,
                      \A x \in t : f1[x] = f2[x]
               PROVE  g1[t] = g2[t]
    OBVIOUS
  <2> DEFINE z == Chosen(t)
  <2>1. t # {}
    BY FS_EmptySet
  <2>2. z \in t
    BY <2>1, ChosenIn
  <2>3. Cardinality(t \ {z}) = n /\ t \ {z} \in SUBSET S
    BY <2>2, OneLess
  <2>4. g1[t \ {z}] = g2[t \ {z}]
    BY <1>3, <2>3
  <2>5. /\ g1[t] = f1[z] + g1[t \ {z}]
        /\ g2[t] = f2[z] + g2[t \ {z}]
    BY <2>1 DEF SumsUp
  <2>6. f1[z] = f2[z]
    BY <2>2
  <2> QED BY <2>4, <2>5, <2>6
<1> HIDE DEF N
<1>4. Nat \subseteq N
  BY <1>2, <1>3, Induction
<1>5. Cardinality(s) \in N
  BY <1>1, <1>4
<1>6. Good(s)
  BY <1>5 DEF N
<1> QED BY <1>6

(* What one place gains or loses, the sum does.                            *)
LEMMA SumChanged ==
  ASSUME NEW S, IsFiniteSet(S), NEW f1 \in [S -> Int], NEW f2 \in [S -> Int],
         NEW g1, SumsUp(g1, f1, S), NEW g2, SumsUp(g2, f2, S),
         NEW x \in S, NEW d \in Int,
         f2[x] = f1[x] + d, \A y \in S \ {x} : f2[y] = f1[y]
  PROVE  g2[S] = g1[S] + d
<1>1. g1[S] = f1[x] + g1[S \ {x}] /\ g2[S] = f2[x] + g2[S \ {x}]
  BY SumOfOneMore
<1>2. g1[S \ {x}] = g2[S \ {x}]
  BY SameSum
<1>3. f1[x] \in Int /\ g1[S \ {x}] \in Int
  BY DEF SumsUp
<1> QED BY <1>1, <1>2, <1>3

(* The same number at each place of W, and nothing elsewhere.              *)
LEMMA SumOfEqual ==
  ASSUME NEW S, IsFiniteSet(S), NEW W \in SUBSET S, NEW k \in Int,
         NEW f \in [S -> Int], \A x \in S : f[x] = IF x \in W THEN k ELSE 0,
         NEW g, SumsUp(g, f, S)
  PROVE  g[S] = k * Cardinality(W)
<1> DEFINE Good(t) == g[t] = k * Cardinality(t \cap W)
           N == {n \in Nat : \A t \in SUBSET S : Cardinality(t) = n => Good(t)}
<1>1. \A t \in SUBSET S : IsFiniteSet(t) /\ Cardinality(t) \in Nat
  BY FS_Subset, FS_CardinalityType
<1>2. 0 \in N
  <2>1. \A t \in SUBSET S : Cardinality(t) = 0 => t = {}
    BY <1>1, FS_EmptySet
  <2>2. g[{}] = 0
    BY DEF SumsUp
  <2>3. Cardinality({} \cap W) = 0
    <3>1. {} \cap W = {}
      OBVIOUS
    <3> QED BY <3>1, FS_EmptySet
  <2>4. Good({})
    BY <2>2, <2>3
  <2> QED BY <2>1, <2>4
<1>3. ASSUME NEW n \in Nat, n \in N
      PROVE  n + 1 \in N
  <2> SUFFICES ASSUME NEW t \in SUBSET S, Cardinality(t) = n + 1
               PROVE  g[t] = k * Cardinality(t \cap W)
    OBVIOUS
  <2> DEFINE z == Chosen(t)
             rest == t \ {z}
             c == Cardinality(rest \cap W)
  <2>1. t # {}
    BY FS_EmptySet
  <2>2. z \in t
    BY <2>1, ChosenIn
  <2>3. Cardinality(rest) = n /\ rest \in SUBSET S
    BY <2>2, OneLess
  <2>4. g[rest] = k * c
    BY <1>3, <2>3
  <2>5. g[t] = f[z] + g[rest]
    BY <2>1 DEF SumsUp
  <2>6. c \in Nat
    <3>1. rest \cap W \in SUBSET S
      OBVIOUS
    <3> QED BY <1>1, <3>1
  <2> HIDE DEF z
  <2>7. CASE z \in W
    <3>1. t \cap W = (rest \cap W) \cup {z} /\ z \notin rest \cap W
      BY <2>2, <2>7
    <3>2. IsFiniteSet(rest \cap W)
      BY <1>1, <2>3
    <3>3. Cardinality(t \cap W) = c + 1
      BY <3>1, <3>2, FS_AddElement
    <3>4. f[z] = k
      BY <2>2, <2>7
    <3> HIDE DEF c, rest
    <3>5. k * (c + 1) = k + k * c
      BY <2>6
    <3> QED BY <2>4, <2>5, <3>3, <3>4, <3>5
  <2>8. CASE z \notin W
    <3>1. t \cap W = rest \cap W
      BY <2>8
    <3>2. f[z] = 0
      BY <2>2, <2>8
    <3>3. k * c \in Int
      BY <2>6
    <3> HIDE DEF c, rest
    <3>4. g[t] = k * c
      BY <2>4, <2>5, <3>2, <3>3
    <3> QED BY <3>1, <3>4 DEF c
  <2> QED BY <2>7, <2>8
<1> HIDE DEF N
<1>4. Nat \subseteq N
  BY <1>2, <1>3, Induction
<1>5. Cardinality(S) \in N
  BY <1>1, <1>4
<1>6. Good(S)
  BY <1>5 DEF N
<1>7. S \cap W = W
  OBVIOUS
<1> QED BY <1>6, <1>7

(* What adds nothing need not be counted.                                  *)
LEMMA SumOfPart ==
  ASSUME NEW S, IsFiniteSet(S), NEW W \in SUBSET S, IsFiniteSet(W),
         NEW f \in [S -> Int], NEW part \in [W -> Int],
         \A x \in S : f[x] = IF x \in W THEN part[x] ELSE 0,
         NEW g, SumsUp(g, f, S), NEW h, SumsUp(h, part, W)
  PROVE  g[S] = h[W]
<1> DEFINE Good(t) == g[t] = h[t \cap W]
           N == {n \in Nat : \A t \in SUBSET S : Cardinality(t) = n => Good(t)}
<1>1. \A t \in SUBSET S : IsFiniteSet(t) /\ Cardinality(t) \in Nat
  BY FS_Subset, FS_CardinalityType
<1>2. 0 \in N
  <2>1. \A t \in SUBSET S : Cardinality(t) = 0 => t = {}
    BY <1>1, FS_EmptySet
  <2>2. g[{}] = 0 /\ h[{}] = 0
    BY DEF SumsUp
  <2>3. {} \cap W = {}
    OBVIOUS
  <2>4. Good({})
    BY <2>2, <2>3
  <2> QED BY <2>1, <2>4
<1>3. ASSUME NEW n \in Nat, n \in N
      PROVE  n + 1 \in N
  <2> SUFFICES ASSUME NEW t \in SUBSET S, Cardinality(t) = n + 1
               PROVE  Good(t)
    BY <1>1
  <2> DEFINE z == Chosen(t)
             rest == t \ {z}
  <2>1. t # {}
    BY FS_EmptySet
  <2>2. z \in t
    BY <2>1, ChosenIn
  <2>3. Cardinality(rest) = n /\ rest \in SUBSET S
    BY <2>2, OneLess
  <2>4. g[rest] = h[rest \cap W]
    BY <1>3, <2>3
  <2>5. g[t] = f[z] + g[rest]
    BY <2>1 DEF SumsUp
  <2>6. g[rest] \in Int
    BY <2>3 DEF SumsUp
  <2> HIDE DEF z
  <2>7. CASE z \in W
    <3>1. z \in t \cap W /\ t \cap W \in SUBSET W
          /\ (t \cap W) \ {z} = rest \cap W
      BY <2>2, <2>7
    <3>2. h[t \cap W] = part[z] + h[(t \cap W) \ {z}]
      BY <3>1, SumOfOneMore
    <3>3. f[z] = part[z]
      BY <2>7
    <3> QED BY <2>4, <2>5, <3>1, <3>2, <3>3
  <2>8. CASE z \notin W
    <3>1. t \cap W = rest \cap W
      BY <2>8
    <3>2. f[z] = 0
      BY <2>2, <2>8
    <3>3. g[t] = g[rest]
      BY <2>5, <2>6, <3>2
    <3>4. h[t \cap W] = h[rest \cap W]
      BY <3>1
    <3> QED BY <2>4, <3>3, <3>4
  <2> QED BY <2>7, <2>8
<1> HIDE DEF N
<1>4. Nat \subseteq N
  BY <1>2, <1>3, Induction
<1>5. Cardinality(S) \in N
  BY <1>1, <1>4
<1>6. S \cap W = W
  OBVIOUS
<1> QED BY <1>5, <1>6 DEF N

=============================================================================
