---------------------------- MODULE NumberLemmas ----------------------------
(* Induction over the naturals stated for a set instead of a predicate, the   *)
(* existence of functions defined by recursion on 0..n, remainders and        *)
(* quotients, sums, the greatest of a set, and lists in an order; and, with   *)
(* those, what the summary of a list of samples is (Statistics).  The byte    *)
(* account of the push buffer rests on the first two, the positions of the    *)
(* dedup window on remainders, the oldest of a set of stamps on the           *)
(* well-ordering, and the grids, the records and the views of the measurement *)
(* path on the rest.                                                          *)
EXTENDS Statistics, FiniteSetsExt, SequenceTheorems, FiniteSetTheorems, WellFoundedInduction, TLAPS

Below == {p \in Nat \X Nat : p[1] < p[2]}

(* The order of the naturals has no infinite descent.                         *)
LEMMA BelowWellFounded == IsWellFoundedOn(Below, Nat)
<1>1. OpToRel(<, Nat) = Below
  BY Zenon DEF OpToRel, Below
<1>2. IsWellFoundedOn(OpToRel(<, Nat), Nat)
  BY Zenon, NatLessThanWellFounded
<1> QED BY Zenon, <1>1, <1>2

(* A set of naturals that holds 0 and, with each member, its successor holds  *)
(* every natural: the complement would have a least member.                   *)
LEMMA NatSetInduction ==
  ASSUME NEW S \in SUBSET Nat, 0 \in S, \A n \in S : n + 1 \in S
  PROVE  S = Nat
<1> DEFINE T == Nat \ S
<1>1. SUFFICES ASSUME T # {} PROVE FALSE
  OBVIOUS
<1>2. PICK x \in T : \A y \in T : <<y, x>> \notin Below
  BY <1>1, BelowWellFounded, WFMin
<1>3. x - 1 \in Nat /\ <<x - 1, x>> \in Below
  BY DEF Below
<1>4. x - 1 \in S
  BY <1>2, <1>3
<1> QED BY <1>3, <1>4

(* A set of naturals that is not empty has a least member. *)
LEMMA LeastNatural ==
  ASSUME NEW T \in SUBSET Nat, T # {}
  PROVE  \E x \in T : \A y \in T : x <= y
<1>1. PICK x \in T : \A y \in T : <<y, x>> \notin Below
  BY BelowWellFounded, WFMin
<1>2. \A y \in T : ~(y < x) BY <1>1 DEF Below
<1> QED BY <1>2

(* NatSetInduction up to a bound. *)
LEMMA UpToInduction ==
  ASSUME NEW n \in Nat, NEW S, 0 \in S, \A i \in 0..(n - 1) : i \in S => i + 1 \in S
  PROVE  \A i \in 0..n : i \in S
<1> DEFINE U == {i \in Nat : i <= n => i \in S}
<1>1. U \in SUBSET Nat /\ 0 \in U
  OBVIOUS
<1>2. \A i \in U : i + 1 \in U
  OBVIOUS
<1>3. U = Nat
  <2> HIDE DEF U
  <2> QED BY <1>1, <1>2, NatSetInduction
<1>4. ASSUME NEW i \in 0..n PROVE i \in S
  <2>1. i \in U
    <3> HIDE DEF U
    <3> QED BY <1>3
  <2> QED BY <2>1
<1> QED BY <1>4

(* Recursion on 0..n: from a first value and a step there is a function that  *)
(* starts at the one and follows the other.                                   *)
IsStep(step, n, D) == step \in [1..n -> [D -> D]]

Follows(g, n, D, init, step) ==
  /\ g \in [0..n -> D]
  /\ g[0] = init
  /\ \A k \in 1..n : g[k] = step[k][g[k - 1]]

(* A primitive recursion up to a bound has a solution.                        *)
LEMMA PrimitiveRecursion ==
  ASSUME NEW D, NEW n \in Nat, NEW init \in D, NEW step, IsStep(step, n, D)
  PROVE  \E g : Follows(g, n, D, init, step)
<1> DEFINE Good(m) == \E g : Follows(g, m, D, init, step)
           S == {m \in Nat : m <= n => Good(m)}
<1>1. 0 \in S
  <2>1. Good(0)
    <3> DEFINE g == [i \in 0..0 |-> init]
    <3>1. g \in [0..0 -> D] /\ g[0] = init
      OBVIOUS
    <3>2. 1..0 = {}
      OBVIOUS
    <3>3. Follows(g, 0, D, init, step)
      BY <3>1, <3>2 DEF Follows
    <3> QED BY <3>3
  <2> QED BY <2>1
<1>2. ASSUME NEW m \in S PROVE m + 1 \in S
  <2>1. ASSUME m + 1 <= n PROVE Good(m + 1)
    <3>1. PICK g : Follows(g, m, D, init, step)
      BY <2>1
    <3>2. /\ g \in [0..m -> D] /\ g[0] = init
          /\ \A k \in 1..m : g[k] = step[k][g[k - 1]]
      BY <3>1 DEF Follows
    <3> DEFINE h == [i \in 0..(m + 1) |-> IF i = m + 1 THEN step[m + 1][g[m]] ELSE g[i]]
    <3>3. step[m + 1][g[m]] \in D
      <4>1. m + 1 \in 1..n /\ g[m] \in D
        BY <2>1, <3>2
      <4> QED BY <4>1 DEF IsStep
    <3>4. h \in [0..(m + 1) -> D]
      BY <3>2, <3>3
    <3>5. h[0] = init
      BY <3>2
    <3>6. ASSUME NEW k \in 1..(m + 1) PROVE h[k] = step[k][h[k - 1]]
      <4>1. CASE k = m + 1
        BY <4>1
      <4>2. CASE k # m + 1
        <5>1. k \in 1..m /\ k - 1 \in 0..m
          BY <4>2
        <5>2. h[k] = g[k] /\ h[k - 1] = g[k - 1]
          BY <5>1, <4>2
        <5> QED BY <5>1, <5>2, <3>2
      <4> QED BY <4>1, <4>2
    <3>7. Follows(h, m + 1, D, init, step)
      <4> HIDE DEF h
      <4> QED BY <3>4, <3>5, <3>6 DEF Follows
    <3> HIDE DEF h
    <3> QED BY <3>7
  <2> HIDE DEF Good
  <2> QED BY <2>1
<1>3. S = Nat
  <2> HIDE DEF S
  <2>1. S \in SUBSET Nat
    BY DEF S
  <2> QED BY <1>1, <1>2, <2>1, NatSetInduction
<1>4. n \in S
  <2> HIDE DEF S
  <2> QED BY <1>3
<1>5. Good(n)
  <2> HIDE DEF Good
  <2> QED BY <1>4
<1> QED BY <1>5

(* The equation of a sum over 1..n, as RECURSIVE-free modules write it:       *)
(* sum[i \in 0..n] == IF i = 0 THEN 0 ELSE sum[i - 1] + w[i].                 *)
SumEquation(f, n, w) == f = [i \in 0..n |-> IF i = 0 THEN 0 ELSE f[i - 1] + w[i]]

(* The equation of a running sum has a solution.                              *)
LEMMA SumEquationSolvable ==
  ASSUME NEW n \in Nat, NEW w \in [1..n -> Nat]
  PROVE  \E f : SumEquation(f, n, w)
<1> DEFINE step == [i \in 1..n |-> [v \in Nat |-> v + w[i]]]
<1>1. IsStep(step, n, Nat) /\ 0 \in Nat
  BY DEF IsStep
<1>2. PICK g : Follows(g, n, Nat, 0, step)
  <2> HIDE DEF step
  <2> QED BY <1>1, PrimitiveRecursion
<1>3. g \in [0..n -> Nat] /\ g[0] = 0 /\ \A i \in 1..n : g[i] = step[i][g[i - 1]]
  <2> HIDE DEF step
  <2> QED BY <1>2 DEF Follows
<1>4. ASSUME NEW i \in 1..n PROVE g[i] = g[i - 1] + w[i]
  <2>1. g[i - 1] \in Nat
    BY <1>3
  <2> QED BY <1>3, <2>1
<1> QED BY <1>3, <1>4, SMTT(30) DEF SumEquation

(* What a solution of that equation is. *)
LEMMA SumEquationFacts ==
  ASSUME NEW n \in Nat, NEW w \in [1..n -> Nat], NEW f, SumEquation(f, n, w)
  PROVE  /\ f \in [0..n -> Nat]
         /\ f[0] = 0
         /\ \A i \in 1..n : f[i] = f[i - 1] + w[i]
<1>1. f[0] = 0
  BY DEF SumEquation
<1>2. ASSUME NEW i \in 1..n PROVE f[i] = f[i - 1] + w[i]
  <2>1. i \in 0..n /\ i # 0
    OBVIOUS
  <2> QED BY <2>1 DEF SumEquation
<1> DEFINE S == {i \in Nat : i <= n => f[i] \in Nat}
<1>3. ASSUME NEW i \in S, i + 1 <= n PROVE f[i + 1] \in Nat
  <2>1. i + 1 \in 1..n /\ f[i] \in Nat /\ i \in Nat /\ i + 1 - 1 = i
    BY <1>3
  <2>2. w[i + 1] \in Nat
    BY <2>1
  <2>3. f[i + 1] = f[i + 1 - 1] + w[i + 1]
    BY <1>2, <2>1
  <2>4. f[i + 1] = f[i] + w[i + 1]
    BY <2>1, <2>3, Zenon
  <2> QED BY <2>1, <2>2, <2>4
<1>4. \A i \in S : i + 1 \in S
  <2> SUFFICES ASSUME NEW i \in S PROVE i + 1 \in S
    OBVIOUS
  <2>1. CASE i + 1 <= n
    BY <1>3, <2>1
  <2>2. CASE ~(i + 1 <= n)
    BY <2>2
  <2> QED BY <2>1, <2>2
<1>5. S \in SUBSET Nat /\ 0 \in S
  BY <1>1
<1>6. S = Nat
  <2> HIDE DEF S
  <2> QED BY <1>4, <1>5, NatSetInduction
<1>7. ASSUME NEW i \in 0..n PROVE f[i] \in Nat
  <2>1. i \in S
    <3> HIDE DEF S
    <3> QED BY <1>6
  <2> QED BY <2>1
<1>8. f \in [0..n -> Nat]
  <2>1. f = [i \in 0..n |-> IF i = 0 THEN 0 ELSE f[i - 1] + w[i]]
    BY DEF SumEquation
  <2>2. DOMAIN f = 0..n /\ f = [i \in DOMAIN f |-> f[i]]
    BY <2>1
  <2> QED BY <2>2, <1>7
<1> QED BY <1>1, <1>2, <1>8

-----------------------------------------------------------------------------
(* A remainder is in range. *)
LEMMA ModRange == ASSUME NEW W \in Nat \ {0}, NEW a \in Int PROVE a % W \in 0..(W - 1)
OBVIOUS

(* Quotient and remainder make up the dividend. *)
LEMMA ModDef ==
  ASSUME NEW W \in Nat \ {0}, NEW a \in Int
  PROVE  a = W * (a \div W) + (a % W) /\ a \div W \in Int
OBVIOUS

(* Two numbers with one remainder are at least the divisor apart. *)
LEMMA ModApart ==
  ASSUME NEW W \in Nat \ {0}, NEW a \in Int, NEW b \in Int, a % W = b % W, a < b
  PROVE  a + W <= b
<1> DEFINE q == a \div W
           r == b \div W
<1>1. a = W * q + (a % W) /\ q \in Int BY ModDef
<1>2. b = W * r + (b % W) /\ r \in Int BY ModDef
<1>3. a % W \in Int BY ModRange
<1> HIDE DEF q, r
<1>4. b - a = W * (r - q) BY <1>1, <1>2, <1>3
<1>5. CASE r - q <= 0
  <2>1. W * (r - q) <= 0 BY <1>5, <1>1, <1>2
  <2> QED BY <2>1, <1>4
<1>6. CASE r - q >= 1
  <2>1. W * (r - q) >= W BY <1>6, <1>1, <1>2
  <2> QED BY <2>1, <1>4
<1> QED BY <1>1, <1>2, <1>5, <1>6

(* A shift by the divisor keeps the remainder. *)
LEMMA ModShift ==
  ASSUME NEW W \in Nat \ {0}, NEW a \in Int
  PROVE  (a - W) % W = a % W
<1> DEFINE q == a \div W
           r == (a - W) \div W
           x == a % W
           y == (a - W) % W
<1>1. a = W * q + x /\ q \in Int /\ x \in 0..(W - 1) BY ModDef, ModRange
<1>2. a - W = W * r + y /\ r \in Int /\ y \in 0..(W - 1) BY ModDef, ModRange, SMTT(30)
<1> HIDE DEF q, r, x, y
<1>3. x - y = W * (r + 1 - q) BY <1>1, <1>2
<1>4. CASE r + 1 - q <= -1
  <2>1. W * (r + 1 - q) <= -W BY <1>4, <1>1, <1>2
  <2> QED BY <2>1, <1>3, <1>1, <1>2
<1>5. CASE r + 1 - q >= 1
  <2>1. W * (r + 1 - q) >= W BY <1>5, <1>1, <1>2
  <2> QED BY <2>1, <1>3, <1>1, <1>2
<1>6. CASE r + 1 - q = 0
  <2>1. W * (r + 1 - q) = 0 BY <1>6, <1>1, <1>2
  <2>2. x = y BY <2>1, <1>3, <1>1, <1>2
  <2> QED BY <2>2 DEF x, y
<1> QED BY <1>1, <1>2, <1>4, <1>5, <1>6

(* A number below the divisor is its own remainder. *)
LEMMA ModSmall == ASSUME NEW W \in Nat \ {0}, NEW a \in 0..(W - 1) PROVE a % W = a
<1> DEFINE q == a \div W
           x == a % W
<1>1. a = W * q + x /\ q \in Int /\ x \in 0..(W - 1) BY ModDef, ModRange
<1> HIDE DEF q, x
<1>2. CASE q >= 1
  <2>1. W * q >= W BY <1>2, <1>1
  <2> QED BY <2>1, <1>1
<1>3. CASE q <= -1
  <2>1. W * q <= -W BY <1>3, <1>1
  <2> QED BY <2>1, <1>1
<1>4. CASE q = 0
  <2>1. W * q = 0 BY <1>4
  <2>2. a = x BY <2>1, <1>1
  <2> QED BY <2>2 DEF x
<1> QED BY <1>1, <1>2, <1>3, <1>4

(* A quotient is the number of whole divisors.                                *)
LEMMA QuotientIs ==
  ASSUME NEW b \in Nat \ {0}, NEW a \in Int
  PROVE  /\ a \div b \in Int /\ b * (a \div b) <= a /\ a < b * (a \div b) + b
<1>1. a = b * (a \div b) + (a % b) /\ a \div b \in Int
  BY ModDef
<1>2. a % b \in 0..(b - 1)
  BY ModRange
<1> QED BY <1>1, <1>2

(* A dividend short of a multiple has a quotient short of it.                 *)
LEMMA QuotientBelow ==
  ASSUME NEW b \in Nat \ {0}, NEW a \in Int, NEW k \in Int, a < b * k
  PROVE  a \div b < k
<1> DEFINE q == a \div b
<1>1. q \in Int /\ b * q <= a
  BY QuotientIs
<1> HIDE DEF q
<1>2. SUFFICES ASSUME q >= k PROVE FALSE
  BY <1>1 DEF q
<1>3. b * q >= b * k
  BY <1>1, <1>2
<1> QED BY <1>1, <1>3

(* A dividend of at least a multiple has a quotient of at least that.         *)
LEMMA QuotientFrom ==
  ASSUME NEW b \in Nat \ {0}, NEW a \in Int, NEW k \in Int, b * k <= a
  PROVE  k <= a \div b
<1> DEFINE q == a \div b
<1>1. q \in Int /\ a < b * q + b
  BY QuotientIs
<1> HIDE DEF q
<1>2. SUFFICES ASSUME q + 1 <= k PROVE FALSE
  BY <1>1 DEF q
<1>3. b * (q + 1) <= b * k /\ b * (q + 1) = b * q + b
  BY <1>1, <1>2
<1> QED BY <1>1, <1>3

(* A multiple has the quotient it is made of and no remainder.                *)
LEMMA QuotientOfMultiple ==
  ASSUME NEW b \in Nat \ {0}, NEW k \in Int
  PROVE  (k * b) \div b = k /\ (k * b) % b = 0
<1> DEFINE a == k * b
<1>1. a \in Int /\ b * k = a /\ b * (k + 1) = a + b
  OBVIOUS
<1>2. a \div b \in Int
  BY <1>1, QuotientIs
<1> HIDE DEF a
<1>3. k <= a \div b
  BY <1>1, QuotientFrom
<1>4. a < b * (k + 1)
  BY <1>1
<1>5. a \div b < k + 1
  BY <1>1, <1>4, QuotientBelow
<1>6. a \div b = k
  BY <1>2, <1>3, <1>5
<1>7. a = b * (a \div b) + (a % b) /\ a % b \in 0..(b - 1)
  BY <1>1, ModDef, ModRange
<1> QED BY <1>1, <1>6, <1>7 DEF a


-----------------------------------------------------------------------------
(* Sums.                                                                      *)

(* A set of sets that holds the empty one and, with each, the one with an     *)
(* element of R more, holds R.                                                *)
LEMMA GrowingSets ==
  ASSUME NEW R, IsFiniteSet(R), NEW T, {} \in T,
         \A s \in SUBSET R, x \in R : s \in T /\ x \notin s => s \cup {x} \in T
  PROVE  \A s \in SUBSET R : s \in T
<1> DEFINE S == {m \in Nat : \A s \in SUBSET R : Cardinality(s) = m => s \in T}
<1>1. 0 \in S
  <2>1. ASSUME NEW s \in SUBSET R, Cardinality(s) = 0 PROVE s = {}
    BY <2>1, FS_Subset, FS_EmptySet
  <2> QED BY <2>1
<1>2. ASSUME NEW m \in S PROVE m + 1 \in S
  <2>1. ASSUME NEW s \in SUBSET R, Cardinality(s) = m + 1 PROVE s \in T
    <3>1. IsFiniteSet(s) /\ s # {}
      BY <2>1, FS_Subset, FS_EmptySet
    <3>2. PICK x \in s : TRUE
      BY <3>1
    <3>3. Cardinality(s \ {x}) = m
      <4>1. Cardinality(s \ {x}) = Cardinality(s) - 1
        BY <3>1, <3>2, FS_RemoveElement
      <4> QED BY <2>1, <4>1
    <3>4. s \ {x} \in T /\ s \ {x} \in SUBSET R /\ x \in R /\ x \notin s \ {x}
      BY <3>3
    <3>5. (s \ {x}) \cup {x} \in T
      BY <3>4
    <3>6. (s \ {x}) \cup {x} = s
      BY <3>2
    <3> QED BY <3>5, <3>6
  <2> QED BY <2>1
<1>3. S = Nat
  <2>1. S \in SUBSET Nat
    OBVIOUS
  <2> HIDE DEF S
  <2> QED BY <1>1, <1>2, <2>1, NatSetInduction
<1>4. ASSUME NEW s \in SUBSET R PROVE s \in T
  <2>1. Cardinality(s) \in Nat
    BY FS_Subset, FS_CardinalityType
  <2>2. Cardinality(s) \in S
    <3> HIDE DEF S
    <3> QED BY <1>3, <2>1
  <2> QED BY <2>2
<1> QED BY <1>4

(* The equation of the community modules' sum.                                *)
SumSolves(it, w, R) ==
  it = [s \in SUBSET R |-> IF s = {} THEN 0
          ELSE w[CHOOSE x \in s : TRUE] + it[s \ {CHOOSE x \in s : TRUE}]]

(* As much as R has of w, one element at a time. *)
SumsUp(F, w, R) ==
  /\ F \in [SUBSET R -> Nat] /\ F[{}] = 0
  /\ \A s \in SUBSET R : \A x \in s : F[s] = w[x] + F[s \ {x}]

(* There is a function that adds up the weights of any set, in any order.     *)
LEMMA Additive ==
  ASSUME NEW R, IsFiniteSet(R), NEW w, \A x \in R : w[x] \in Nat
  PROVE  \E F : SumsUp(F, w, R)
<1> DEFINE T == {U \in SUBSET R : \E F : SumsUp(F, w, U)}
<1>1. {} \in T
  <2> DEFINE F == [s \in SUBSET {} |-> 0]
  <2>1. SumsUp(F, w, {})
    <3>1. F \in [SUBSET {} -> Nat] /\ F[{}] = 0
      OBVIOUS
    <3>2. \A s \in SUBSET {} : s = {}
      OBVIOUS
    <3> HIDE DEF F
    <3> QED BY <3>1, <3>2 DEF SumsUp
  <2> HIDE DEF F
  <2> QED BY <2>1
<1>2. ASSUME NEW U \in SUBSET R, NEW a \in R, U \in T, a \notin U PROVE U \cup {a} \in T
  <2>1. PICK F : SumsUp(F, w, U)
    BY <1>2
  <2>2. /\ F \in [SUBSET U -> Nat] /\ F[{}] = 0
        /\ \A s \in SUBSET U : \A x \in s : F[s] = w[x] + F[s \ {x}]
    BY <2>1 DEF SumsUp
  <2> DEFINE V == U \cup {a}
             G == [s \in SUBSET V |-> IF a \in s THEN w[a] + F[s \ {a}] ELSE F[s]]
  <2>3. ASSUME NEW s \in SUBSET V PROVE s \ {a} \in SUBSET U /\ (a \notin s => s \in SUBSET U)
    OBVIOUS
  <2>4. G \in [SUBSET V -> Nat]
    <3>1. w[a] \in Nat
      OBVIOUS
    <3>2. ASSUME NEW s \in SUBSET V PROVE (IF a \in s THEN w[a] + F[s \ {a}] ELSE F[s]) \in Nat
      BY <2>2, <2>3, <3>1
    <3> QED BY <3>2
  <2>5. G[{}] = 0
    BY <2>2
  <2>6. ASSUME NEW s \in SUBSET V, NEW x \in s PROVE G[s] = w[x] + G[s \ {x}]
    <3>1. w[a] \in Nat /\ w[x] \in Nat
      OBVIOUS
    <3>2. CASE x = a
      <4>1. G[s] = w[a] + F[s \ {a}] /\ G[s \ {a}] = F[s \ {a}]
        BY <3>2
      <4> QED BY <3>2, <4>1
    <3>3. CASE x # a /\ a \in s
      <4>1. G[s] = w[a] + F[s \ {a}] /\ G[s \ {x}] = w[a] + F[(s \ {x}) \ {a}]
        BY <3>3
      <4>2. s \ {a} \in SUBSET U /\ x \in s \ {a} /\ (s \ {x}) \ {a} = (s \ {a}) \ {x}
        BY <2>3, <3>3
      <4>3. F[s \ {a}] = w[x] + F[(s \ {a}) \ {x}] /\ F[(s \ {a}) \ {x}] \in Nat
        BY <2>2, <4>2
      <4> HIDE DEF G
      <4>4. G[s \ {x}] = w[a] + F[(s \ {a}) \ {x}]
        BY <4>1, <4>2, Zenon
      <4> DEFINE b == w[a]
                 c == F[(s \ {a}) \ {x}]
                 d == w[x]
      <4>5. b \in Nat /\ c \in Nat /\ d \in Nat /\ G[s \ {x}] = b + c /\ G[s] = b + (d + c)
        BY <3>1, <4>1, <4>3, <4>4
      <4> HIDE DEF b, c, d
      <4>6. G[s] = d + G[s \ {x}]
        BY <4>5
      <4> QED BY <4>6 DEF d
    <3>4. CASE a \notin s
      <4>1. G[s] = F[s] /\ G[s \ {x}] = F[s \ {x}]
        BY <3>4
      <4>2. s \in SUBSET U /\ x \in s
        BY <2>3, <3>4
      <4>3. F[s] = w[x] + F[s \ {x}]
        BY <2>2, <4>2
      <4> HIDE DEF G
      <4> QED BY <4>1, <4>3
    <3> QED BY <3>2, <3>3, <3>4
  <2>7. SumsUp(G, w, V)
    <3> HIDE DEF G, V
    <3> QED BY <2>4, <2>5, <2>6 DEF SumsUp
  <2> HIDE DEF G
  <2> QED BY <2>7
<1> HIDE DEF T
<1>3. R \in T
  <2>1. \A s \in SUBSET R, x \in R : s \in T /\ x \notin s => s \cup {x} \in T
    BY <1>2
  <2>2. \A s \in SUBSET R : s \in T
    BY <1>1, <2>1, GrowingSets
  <2> QED BY <2>2
<1> QED BY <1>3 DEF T

(* What solves the equation of the sum adds up.                               *)
LEMMA SolutionAdds ==
  ASSUME NEW R, IsFiniteSet(R), NEW w, NEW F, SumsUp(F, w, R)
  PROVE  (CHOOSE it : SumSolves(it, w, R))[R] = F[R]
<1> DEFINE pick(s) == CHOOSE x \in s : TRUE
<1>0. F \in [SUBSET R -> Nat] /\ F[{}] = 0
      /\ \A s \in SUBSET R : \A x \in s : F[s] = w[x] + F[s \ {x}]
  BY DEF SumsUp
<1>1. \A s \in SUBSET R : s # {} => pick(s) \in s
  OBVIOUS
<1>2. SumSolves(F, w, R)
  <2> DEFINE G == [s \in SUBSET R |-> IF s = {} THEN 0 ELSE w[pick(s)] + F[s \ {pick(s)}]]
  <2>1. ASSUME NEW s \in SUBSET R PROVE F[s] = G[s]
    <3> HIDE DEF pick
    <3> QED BY <1>0, <1>1
  <2>2. F = G
    BY <1>0, <2>1
  <2> QED BY <2>2 DEF SumSolves
<1> DEFINE it == CHOOSE f : SumSolves(f, w, R)
<1>3. SumSolves(it, w, R)
  BY <1>2
<1>4. /\ it[{}] = 0
      /\ \A s \in SUBSET R : s # {} => it[s] = w[pick(s)] + it[s \ {pick(s)}]
  <2> HIDE DEF it
  <2> QED BY <1>3 DEF SumSolves
<1> HIDE DEF it, pick
<1> DEFINE S == {m \in Nat : \A s \in SUBSET R : Cardinality(s) = m => it[s] = F[s]}
<1>7. 0 \in S
  <2>1. ASSUME NEW s \in SUBSET R, Cardinality(s) = 0 PROVE s = {}
    BY <2>1, FS_Subset, FS_EmptySet
  <2> QED BY <1>0, <1>4, <2>1
<1>8. ASSUME NEW m \in S PROVE m + 1 \in S
  <2>1. ASSUME NEW s \in SUBSET R, Cardinality(s) = m + 1 PROVE it[s] = F[s]
    <3>1. IsFiniteSet(s) /\ s # {}
      BY <2>1, FS_Subset, FS_EmptySet
    <3>2. pick(s) \in s
      BY <1>1, <3>1
    <3>3. Cardinality(s \ {pick(s)}) = m
      <4>1. Cardinality(s \ {pick(s)}) = Cardinality(s) - 1
        BY <3>1, <3>2, FS_RemoveElement
      <4> QED BY <2>1, <4>1
    <3>4. it[s \ {pick(s)}] = F[s \ {pick(s)}]
      BY <3>3
    <3> HIDE DEF S
    <3> QED BY <1>0, <1>4, <3>1, <3>2, <3>4
  <2> QED BY <2>1
<1>9. S = Nat
  <2>1. S \in SUBSET Nat
    OBVIOUS
  <2> HIDE DEF S
  <2> QED BY <1>7, <1>8, <2>1, NatSetInduction
<1>10. Cardinality(R) \in S
  <2>1. Cardinality(R) \in Nat
    BY FS_CardinalityType
  <2> HIDE DEF S
  <2> QED BY <1>9, <2>1
<1> QED BY <1>10 DEF it

(* The sum over a set is a natural, 0 for none, and any element can be taken  *)
(* out of it.                                                                 *)
LEMMA SumFacts ==
  ASSUME NEW R, IsFiniteSet(R), NEW w, \A x \in R : w[x] \in Nat
  PROVE  /\ SumFunctionOnSet(w, R) \in Nat
         /\ R = {} => SumFunctionOnSet(w, R) = 0
         /\ \A x \in R : SumFunctionOnSet(w, R) = w[x] + SumFunctionOnSet(w, R \ {x})
<1>1. ASSUME NEW S \in SUBSET R, NEW F, SumsUp(F, w, S) PROVE SumFunctionOnSet(w, S) = F[S]
  <2>1. SumFunctionOnSet(w, S) = (CHOOSE it : SumSolves(it, w, S))[S]
    BY Zenon DEF SumFunctionOnSet, FoldFunctionOnSet, MapThenFoldSet, SumSolves
  <2> QED BY <1>1, <2>1, FS_Subset, SolutionAdds
<1>2. PICK F : SumsUp(F, w, R)
  BY Additive
<1>3. /\ F \in [SUBSET R -> Nat] /\ F[{}] = 0
      /\ \A s \in SUBSET R : \A x \in s : F[s] = w[x] + F[s \ {x}]
  BY <1>2 DEF SumsUp
<1>4. SumFunctionOnSet(w, R) = F[R]
  BY <1>1, <1>2
<1>5. ASSUME NEW S \in SUBSET R PROVE SumFunctionOnSet(w, S) = F[S]
  <2> DEFINE G == [s \in SUBSET S |-> F[s]]
  <2>1. SumsUp(G, w, S)
    <3>1. G \in [SUBSET S -> Nat] /\ G[{}] = 0
      BY <1>3
    <3>2. ASSUME NEW s \in SUBSET S, NEW x \in s PROVE G[s] = w[x] + G[s \ {x}]
      BY <1>3
    <3> HIDE DEF G
    <3> QED BY <3>1, <3>2 DEF SumsUp
  <2>2. G[S] = F[S]
    OBVIOUS
  <2> HIDE DEF G
  <2> QED BY <1>1, <2>1, <2>2
<1> QED BY <1>3, <1>4, <1>5
-----------------------------------------------------------------------------
(* Lists in order.                                                            *)

(* Before orders the places of S one after the other. *)
IsOrder(S, Before) ==
  /\ \A i, j \in S : i # j => (<<i, j>> \in Before \/ <<j, i>> \in Before)
  /\ \A i, j \in S : <<i, j>> \in Before => <<j, i>> \notin Before
  /\ \A i, j, k \in S : <<i, j>> \in Before /\ <<j, k>> \in Before => <<i, k>> \in Before

Earlier(S, Before, i) == {j \in S : <<j, i>> \in Before}
TurnOf(S, Before, k) == CHOOSE i \in S : Cardinality(Earlier(S, Before, i)) = k - 1

(* Earlier places have fewer places before them. *)
LEMMA FewerBefore ==
  ASSUME NEW S, IsFiniteSet(S), NEW Before, IsOrder(S, Before), NEW i \in S
  PROVE  /\ Cardinality(Earlier(S, Before, i)) \in 0..(Cardinality(S) - 1)
         /\ \A j \in S : <<j, i>> \in Before =>
              Cardinality(Earlier(S, Before, j)) < Cardinality(Earlier(S, Before, i))
<1>1. ASSUME NEW j \in S
      PROVE  /\ Earlier(S, Before, j) \in SUBSET S /\ j \notin Earlier(S, Before, j)
             /\ IsFiniteSet(Earlier(S, Before, j)) /\ Cardinality(Earlier(S, Before, j)) \in Nat
  <2>1. Earlier(S, Before, j) \in SUBSET S /\ j \notin Earlier(S, Before, j)
    BY DEF Earlier, IsOrder
  <2> QED BY <2>1, FS_Subset, FS_CardinalityType
<1>2. Cardinality(Earlier(S, Before, i)) < Cardinality(S)
  <2>1. Cardinality(Earlier(S, Before, i)) <= Cardinality(S)
        /\ Cardinality(Earlier(S, Before, i)) # Cardinality(S)
    BY <1>1, FS_Subset
  <2> QED BY <1>1, <2>1, FS_CardinalityType
<1>3. ASSUME NEW j \in S, <<j, i>> \in Before
      PROVE  Cardinality(Earlier(S, Before, j)) < Cardinality(Earlier(S, Before, i))
  <2> DEFINE E == Earlier(S, Before, i)
             D == Earlier(S, Before, j)
  <2>1. D \in SUBSET E /\ j \in E /\ j \notin D
    BY <1>3 DEF Earlier, IsOrder
  <2>2. Cardinality(D) <= Cardinality(E) /\ Cardinality(D) # Cardinality(E)
    <3>1. IsFiniteSet(E)
      BY <1>1
    <3> HIDE DEF D, E
    <3> QED BY <2>1, <3>1, FS_Subset
  <2> QED BY <1>1, <2>2
<1>4. Cardinality(S) \in Nat
  BY FS_CardinalityType
<1> QED BY <1>1, <1>2, <1>3, <1>4

(* Every place has its turn, and the turns are in order. *)
LEMMA Turns ==
  ASSUME NEW S, IsFiniteSet(S), NEW Before, IsOrder(S, Before)
  PROVE  /\ \A k \in 1..Cardinality(S) :
              /\ TurnOf(S, Before, k) \in S
              /\ Cardinality(Earlier(S, Before, TurnOf(S, Before, k))) = k - 1
         /\ \A i \in S :
              LET k == Cardinality(Earlier(S, Before, i)) + 1
              IN  k \in 1..Cardinality(S) /\ TurnOf(S, Before, k) = i
         /\ \A k, l \in 1..Cardinality(S) :
              k < l <=> <<TurnOf(S, Before, k), TurnOf(S, Before, l)>> \in Before
<1> DEFINE n == Cardinality(S)
           rank(i) == Cardinality(Earlier(S, Before, i))
           turn(k) == TurnOf(S, Before, k)
<1>0. n \in Nat
  BY FS_CardinalityType
<1>1. \A i \in S : rank(i) \in 0..(n - 1)
  BY FewerBefore
<1>2. \A i, j \in S : <<i, j>> \in Before => rank(i) < rank(j)
  BY FewerBefore
<1>3. \A i, j \in S : i # j => (<<i, j>> \in Before \/ <<j, i>> \in Before)
  BY DEF IsOrder
<1>4. \A i, j \in S : rank(i) = rank(j) => i = j
  <2> SUFFICES ASSUME NEW i \in S, NEW j \in S, i # j PROVE rank(i) # rank(j)
    OBVIOUS
  <2>1. rank(i) < rank(j) \/ rank(j) < rank(i)
    BY <1>2, <1>3
  <2>2. rank(i) \in Int /\ rank(j) \in Int
    BY <1>1
  <2> HIDE DEF rank
  <2> QED BY <2>1, <2>2
<1>5. \A m \in 0..(n - 1) : \E i \in S : rank(i) = m
  <2> DEFINE f == [i \in S |-> rank(i)]
             T == 0..(n - 1)
  <2>1. f \in Injection(S, T)
    <3>1. f \in [S -> T]
      <4> HIDE DEF rank, n
      <4> QED BY <1>1
    <3>2. \A i, j \in S : f[i] = f[j] => i = j
      <4> HIDE DEF rank
      <4> QED BY <1>4
    <3> HIDE DEF f, T
    <3> QED BY <3>1, <3>2 DEF Injection, IsInjective
  <2>2. IsFiniteSet(T) /\ Cardinality(T) = n
    <3>1. 0 \in Int /\ n - 1 \in Int
      BY <1>0
    <3>2. IsFiniteSet(0..(n - 1)) /\ Cardinality(0..(n - 1)) = IF 0 > n - 1 THEN 0 ELSE n - 1 - 0 + 1
      <4> HIDE DEF n
      <4> QED BY <3>1, FS_Interval
    <3> HIDE DEF n
    <3> QED BY <1>0, <3>2
  <2>3. f \in Surjection(S, T)
    <3> HIDE DEF f, T
    <3> QED BY <2>1, <2>2, FS_Injection
  <2>4. \A m \in T : \E i \in S : f[i] = m
    <3> HIDE DEF f, T
    <3> QED BY <2>3 DEF Surjection
  <2> HIDE DEF rank
  <2> QED BY <2>4
<1>6. ASSUME NEW k \in 1..n PROVE turn(k) \in S /\ rank(turn(k)) = k - 1
  <2>1. k - 1 \in 0..(n - 1)
    BY <1>0
  <2>2. \E i \in S : Cardinality(Earlier(S, Before, i)) = k - 1
    BY <1>5, <2>1
  <2> QED BY <2>2 DEF TurnOf
<1>7. ASSUME NEW i \in S PROVE rank(i) + 1 \in 1..n /\ turn(rank(i) + 1) = i
  <2> DEFINE k == rank(i) + 1
  <2>1. k \in 1..n /\ k - 1 = rank(i)
    <3> HIDE DEF rank, n
    <3> QED BY <1>0, <1>1
  <2> HIDE DEF k
  <2>2. turn(k) \in S /\ rank(turn(k)) = k - 1
    BY <1>6, <2>1
  <2>3. turn(k) = i
    <3> HIDE DEF rank, turn
    <3> QED BY <1>4, <2>1, <2>2
  <2> QED BY <2>1, <2>3 DEF k
<1>8. ASSUME NEW k \in 1..n, NEW l \in 1..n PROVE k < l <=> <<turn(k), turn(l)>> \in Before
  <2> HIDE DEF rank, turn, n
  <2>1. k < l => rank(turn(k)) < rank(turn(l)) /\ turn(k) # turn(l)
    BY <1>0, <1>6
  <2>2. <<turn(k), turn(l)>> \in Before => k < l
    BY <1>0, <1>2, <1>6
  <2>3. rank(turn(k)) < rank(turn(l)) => <<turn(l), turn(k)>> \notin Before
    BY <1>0, <1>2, <1>6
  <2> QED BY <1>3, <1>6, <2>1, <2>2, <2>3
<1> QED BY <1>6, <1>7, <1>8

(* f names the places of P one after the other. *)
Picks(f, seq, P) ==
  /\ f \in [1..Cardinality(P) -> P]
  /\ \A k \in 1..Cardinality(P) : Picked(seq, P)[k] = seq[f[k]]
  /\ \A k, l \in 1..Cardinality(P) : k < l => f[k] < f[l]
  /\ \A i \in P : \E k \in 1..Cardinality(P) : f[k] = i

(* Some places of a list, as they were.                                       *)
LEMMA PickedFacts ==
  ASSUME NEW S, NEW seq \in Seq(S), NEW P \in SUBSET (DOMAIN seq)
  PROVE  /\ Cardinality(P) \in Nat
         /\ Picked(seq, P) \in Seq(S) /\ Len(Picked(seq, P)) = Cardinality(P)
         /\ \E f : Picks(f, seq, P)
<1> DEFINE B == {p \in P \X P : p[1] < p[2]}
           m == Cardinality(P)
           f == [k \in 1..m |-> TurnOf(P, B, k)]
<1>1. DOMAIN seq = 1..Len(seq) /\ Len(seq) \in Nat /\ P \subseteq Int
  OBVIOUS
<1>2. IsFiniteSet(P) /\ m \in Nat
  <2>1. IsFiniteSet(1..Len(seq))
    BY <1>1, FS_Interval
  <2> QED BY <1>1, <2>1, FS_Subset, FS_CardinalityType
<1>3. \A i, j \in P : <<i, j>> \in B <=> i < j
  OBVIOUS
<1>4. IsOrder(P, B)
  <2> HIDE DEF B
  <2> QED BY <1>1, <1>3 DEF IsOrder
<1>5. Picked(seq, P) = [k \in 1..m |-> seq[TurnOf(P, B, k)]]
  BY DEF Picked, Listed, TurnOf, Earlier
<1> HIDE DEF B, m
<1>6. /\ \A k \in 1..m : TurnOf(P, B, k) \in P
      /\ \A i \in P : \E k \in 1..m : TurnOf(P, B, k) = i
      /\ \A k, l \in 1..m : k < l => TurnOf(P, B, k) < TurnOf(P, B, l)
  <2>1. /\ \A k \in 1..m : TurnOf(P, B, k) \in P
        /\ \A i \in P : LET k == Cardinality(Earlier(P, B, i)) + 1
                        IN  k \in 1..m /\ TurnOf(P, B, k) = i
        /\ \A k, l \in 1..m : k < l <=> <<TurnOf(P, B, k), TurnOf(P, B, l)>> \in B
    BY <1>2, <1>4, Turns DEF m
  <2>2. ASSUME NEW i \in P PROVE \E k \in 1..m : TurnOf(P, B, k) = i
    <3> DEFINE k == Cardinality(Earlier(P, B, i)) + 1
    <3>1. k \in 1..m /\ TurnOf(P, B, k) = i
      BY <2>1
    <3> HIDE DEF k
    <3> QED BY <3>1
  <2> QED BY <1>3, <2>1, <2>2
<1>7. f \in [1..m -> P]
  BY <1>6
<1>8. /\ \A k \in 1..m : Picked(seq, P)[k] = seq[f[k]]
      /\ \A k, l \in 1..m : k < l => f[k] < f[l]
      /\ \A i \in P : \E k \in 1..m : f[k] = i
  <2>1. \A k \in 1..m : f[k] = TurnOf(P, B, k)
    OBVIOUS
  <2> HIDE DEF f
  <2> QED BY <1>5, <1>6, <2>1
<1>9. Picked(seq, P) \in Seq(S) /\ Len(Picked(seq, P)) = m
  <2>1. \A k \in 1..m : seq[TurnOf(P, B, k)] \in S
    BY <1>1, <1>6
  <2>2. Picked(seq, P) \in [1..m -> S]
    BY <1>5, <2>1
  <2> QED BY <1>2, <2>2
<1> HIDE DEF f
<1>10. Picks(f, seq, P)
  BY <1>7, <1>8 DEF Picks, m
<1> QED BY <1>2, <1>9, <1>10 DEF m

(* The places in the order of a key, those of one key as they were. *)
ByKey(S, key) ==
  {p \in S \X S : key[p[1]] < key[p[2]] \/ (p[1] < p[2] /\ ~(key[p[2]] < key[p[1]]))}

(* That is an order. *)
LEMMA ByKeyIsOrder ==
  ASSUME NEW S \in SUBSET Int, NEW key, \A i \in S : key[i] \in Int
  PROVE  /\ IsOrder(S, ByKey(S, key))
         /\ \A i, j \in S : <<i, j>> \in ByKey(S, key) <=>
              key[i] < key[j] \/ (key[i] = key[j] /\ i < j)
<1>1. ASSUME NEW i \in S, NEW j \in S
      PROVE  <<i, j>> \in ByKey(S, key) <=> key[i] < key[j] \/ (key[i] = key[j] /\ i < j)
  <2>1. <<i, j>> \in ByKey(S, key) <=> key[i] < key[j] \/ (i < j /\ ~(key[j] < key[i]))
    BY DEF ByKey
  <2>2. key[i] \in Int /\ key[j] \in Int
    OBVIOUS
  <2> QED BY <2>1, <2>2
<1>2. \A i, j \in S : i # j => (<<i, j>> \in ByKey(S, key) \/ <<j, i>> \in ByKey(S, key))
  BY <1>1
<1>3. \A i, j \in S : <<i, j>> \in ByKey(S, key) => <<j, i>> \notin ByKey(S, key)
  BY <1>1
<1>4. \A i, j, k \in S : <<i, j>> \in ByKey(S, key) /\ <<j, k>> \in ByKey(S, key)
                           => <<i, k>> \in ByKey(S, key)
  BY <1>1
<1> QED BY <1>1, <1>2, <1>3, <1>4 DEF IsOrder

-----------------------------------------------------------------------------
(* The statistics of a cycle.                                                 *)

AtMostIn(samples, v) == {i \in DOMAIN samples : samples[i] <= v}
BelowIn(samples, v) == {i \in DOMAIN samples : samples[i] < v}

(* The sorted samples are samples, ascend, and as many are below the one at a *)
(* rank as its rank allows, and at least as many not above it.                *)
LEMMA SortedFacts ==
  ASSUME NEW samples \in Seq(Nat)
  PROVE  LET s == Sorted(samples)
             n == Len(samples)
         IN  /\ s \in Seq(Nat) /\ Len(s) = n
             /\ \A k \in 1..n : \E i \in 1..n : s[k] = samples[i]
             /\ \A i \in 1..n : \E k \in 1..n : s[k] = samples[i]
             /\ \A k, l \in 1..n : k <= l => s[k] <= s[l]
             /\ \A k \in 1..n : /\ Cardinality(BelowIn(samples, s[k])) <= k - 1
                                /\ k <= Cardinality(AtMostIn(samples, s[k]))
<1> DEFINE S == DOMAIN samples
           n == Len(samples)
           B == ByKey(S, samples)
           turn(k) == TurnOf(S, B, k)
           s == Sorted(samples)
<1>1. n \in Nat /\ S = 1..n /\ \A i \in S : samples[i] \in Nat
  OBVIOUS
<1>2. IsFiniteSet(S) /\ Cardinality(S) = n
  <2>1. IsFiniteSet(1..n) /\ Cardinality(1..n) = IF 1 > n THEN 0 ELSE n - 1 + 1
    BY <1>1, FS_Interval
  <2> QED BY <1>1, <2>1
<1>3. /\ IsOrder(S, B)
      /\ \A i, j \in S : <<i, j>> \in B <=>
           samples[i] < samples[j] \/ (samples[i] = samples[j] /\ i < j)
  <2>1. S \in SUBSET Int /\ \A i \in S : samples[i] \in Int
    BY <1>1
  <2> HIDE DEF S
  <2> QED BY <2>1, ByKeyIsOrder
<1>4. s = [k \in 1..Cardinality(S) |-> samples[turn(k)]]
  BY Zenon DEF Sorted, Ordered, Listed, ByKey, TurnOf, Earlier
<1>5. /\ \A k \in 1..n : turn(k) \in S /\ Cardinality(Earlier(S, B, turn(k))) = k - 1
      /\ \A k, l \in 1..n : k < l <=> <<turn(k), turn(l)>> \in B
      /\ \A i \in S : \E k \in 1..n : turn(k) = i
  <2> HIDE DEF S, B, n
  <2> QED BY <1>2, <1>3, Turns
<1> HIDE DEF turn, s, B
<1>6. s = [k \in 1..n |-> samples[turn(k)]]
  BY <1>2, <1>4, Zenon
<1>7. s \in Seq(Nat) /\ Len(s) = n /\ \A k \in 1..n : s[k] = samples[turn(k)]
  BY <1>1, <1>5, <1>6
<1>8. /\ \A k \in 1..n : \E i \in 1..n : s[k] = samples[i]
      /\ \A i \in 1..n : \E k \in 1..n : s[k] = samples[i]
  BY <1>1, <1>5, <1>7
<1>9. ASSUME NEW k \in 1..n, NEW l \in 1..n, k <= l PROVE s[k] <= s[l]
  <2>0. /\ turn(k) \in S /\ s[k] = samples[turn(k)] /\ samples[turn(k)] \in Nat
        /\ turn(l) \in S /\ s[l] = samples[turn(l)] /\ samples[turn(l)] \in Nat
    BY <1>1, <1>5, <1>7
  <2>1. CASE k = l
    BY <2>0, <2>1
  <2>2. CASE k < l
    <3>1. <<turn(k), turn(l)>> \in B
      BY <1>5, <2>2
    <3>2. samples[turn(k)] < samples[turn(l)] \/ samples[turn(k)] = samples[turn(l)]
      BY <1>3, <2>0, <3>1, Zenon
    <3> QED BY <2>0, <3>2
  <2> QED BY <1>1, <1>9, <2>1, <2>2
<1>10. ASSUME NEW k \in 1..n
       PROVE  /\ Cardinality(BelowIn(samples, s[k])) <= k - 1
              /\ k <= Cardinality(AtMostIn(samples, s[k]))
  <2> DEFINE E == Earlier(S, B, turn(k))
             D == BelowIn(samples, s[k])
             U == AtMostIn(samples, s[k])
  <2>1. turn(k) \in S /\ s[k] = samples[turn(k)] /\ Cardinality(E) = k - 1
    BY <1>5, <1>7
  <2>2. E \in SUBSET S /\ IsFiniteSet(E)
    <3>1. E \in SUBSET S
      BY DEF Earlier
    <3> HIDE DEF E
    <3> QED BY <1>2, <3>1, FS_Subset
  <2>3. D \in SUBSET E
    <3> SUFFICES ASSUME NEW i \in S, samples[i] < s[k] PROVE i \in E
      BY DEF BelowIn
    <3>1. <<i, turn(k)>> \in B
      BY <1>3, <2>1
    <3> QED BY <3>1 DEF Earlier
  <2>4. E \cup {turn(k)} \in SUBSET U
    <3>1. ASSUME NEW i \in E PROVE i \in S /\ samples[i] <= s[k]
      <4>1. i \in S /\ <<i, turn(k)>> \in B
        BY DEF Earlier
      <4> QED BY <1>1, <1>3, <2>1, <4>1, SMTT(30)
    <3>2. turn(k) \in S /\ samples[turn(k)] <= s[k]
      BY <1>1, <2>1
    <3> QED BY <3>1, <3>2 DEF AtMostIn
  <2>5. turn(k) \notin E
    <3>1. <<turn(k), turn(k)>> \notin B
      BY <1>3, <2>1 DEF IsOrder
    <3> QED BY <3>1 DEF Earlier
  <2>6. U \in SUBSET S
    BY DEF AtMostIn
  <2> HIDE DEF D, E, U
  <2>7. Cardinality(D) <= k - 1
    <3>1. Cardinality(D) <= Cardinality(E)
      BY <2>2, <2>3, FS_Subset
    <3> QED BY <2>1, <3>1
  <2>8. k <= Cardinality(U)
    <3>1. Cardinality(E \cup {turn(k)}) = k - 1 + 1
      BY <2>1, <2>2, <2>5, FS_AddElement
    <3>2. IsFiniteSet(U)
      BY <1>2, <2>6, FS_Subset
    <3>3. Cardinality(E \cup {turn(k)}) <= Cardinality(U)
      BY <2>4, <3>2, FS_Subset
    <3> QED BY <3>1, <3>3
  <2> QED BY <2>7, <2>8 DEF D, U
<1> QED BY <1>7, <1>8, <1>9, <1>10 DEF s

(* Two naturals have a natural product that is not below 0.                   *)
LEMMA NaturalProduct == ASSUME NEW a \in Nat, NEW b \in Nat PROVE a * b \in Nat
OBVIOUS

(* What a set of c samples between m and M, their sum t and the sum q of      *)
(* their squares say of each other: the second and third are the bounds of    *)
(* the mean and of the variance, the last two that a variance is not below 0. *)
SumsFit(c, t, q, m, M) ==
  /\ c * m <= t /\ t <= c * M
  /\ q <= (M + m) * t - c * (m * M)
  /\ t * t <= c * q
  /\ \A y \in Nat : 0 <= q - 2 * (y * t) + c * (y * y)

(* One sample more keeps them.                                                *)
LEMMA MomentsGrow ==
  ASSUME NEW c \in Nat, NEW t \in Nat, NEW q \in Nat, NEW m \in Nat, NEW M \in Nat,
         NEW x \in Nat, m <= x, x <= M, SumsFit(c, t, q, m, M)
  PROVE  SumsFit(c + 1, t + x, q + x * x, m, M)
<1>1. /\ c * m <= t /\ t <= c * M
      /\ q <= (M + m) * t - c * (m * M)
      /\ t * t <= c * q
      /\ \A y \in Nat : 0 <= q - 2 * (y * t) + c * (y * y)
  BY DEF SumsFit
<1>2. (c + 1) * m <= t + x /\ t + x <= (c + 1) * M
  BY <1>1
<1>3. q + x * x <= (M + m) * (t + x) - (c + 1) * (m * M)
  <2>1. 0 <= (M - x) * (x - m)
    <3>1. M - x \in Nat /\ x - m \in Nat
      OBVIOUS
    <3> QED BY <3>1, NaturalProduct
  <2>2. (M - x) * (x - m) = M * x - m * M - x * x + m * x
    OBVIOUS
  <2>3. /\ (M + m) * (t + x) = (M + m) * t + M * x + m * x
        /\ (c + 1) * (m * M) = c * (m * M) + m * M
    OBVIOUS
  <2> QED BY <1>1, <2>1, <2>2, <2>3
<1>4. (t + x) * (t + x) <= (c + 1) * (q + x * x)
  <2>1. 0 <= q - 2 * (x * t) + c * (x * x)
    BY <1>1
  <2>2. /\ (t + x) * (t + x) = t * t + 2 * (x * t) + x * x
        /\ (c + 1) * (q + x * x) = c * q + c * (x * x) + q + x * x
    OBVIOUS
  <2> QED BY <1>1, <2>1, <2>2
<1>5. ASSUME NEW y \in Nat
      PROVE  0 <= (q + x * x) - 2 * (y * (t + x)) + (c + 1) * (y * y)
  <2>1. 0 <= q - 2 * (y * t) + c * (y * y)
    BY <1>1
  <2>2. 0 <= (y - x) * (y - x)
    <3>1. y - x \in Nat \/ x - y \in Nat
      OBVIOUS
    <3>2. (y - x) * (y - x) = (x - y) * (x - y)
      OBVIOUS
    <3> QED BY <3>1, <3>2, NaturalProduct
  <2>3. /\ (y - x) * (y - x) = y * y - 2 * (y * x) + x * x
        /\ y * (t + x) = y * t + y * x
        /\ (c + 1) * (y * y) = c * (y * y) + y * y
    OBVIOUS
  <2> QED BY <2>1, <2>2, <2>3
<1> QED BY <1>2, <1>3, <1>4, <1>5 DEF SumsFit

(* The moments of all samples.                                                *)
LEMMA SampleMoments ==
  ASSUME NEW samples \in Seq(Nat), NEW m \in Nat, NEW M \in Nat,
         \A i \in 1..Len(samples) : m <= samples[i] /\ samples[i] <= M
  PROVE  LET squares == [i \in DOMAIN samples |-> samples[i] * samples[i]]
         IN  /\ TotalOf(samples) \in Nat /\ TotalOf(squares) \in Nat
             /\ SumsFit(Len(samples), TotalOf(samples), TotalOf(squares), m, M)
             /\ \A i \in DOMAIN samples : samples[i] <= TotalOf(samples)
<1> DEFINE R == DOMAIN samples
           squares == [i \in R |-> samples[i] * samples[i]]
           t(s) == SumFunctionOnSet(samples, s)
           q(s) == SumFunctionOnSet(squares, s)
           T == {s \in SUBSET R : SumsFit(Cardinality(s), t(s), q(s), m, M)}
<1>1. /\ R = 1..Len(samples) /\ IsFiniteSet(R) /\ Cardinality(R) = Len(samples)
      /\ \A i \in R : samples[i] \in Nat /\ m <= samples[i] /\ samples[i] <= M
  <2>1. R = 1..Len(samples) /\ Len(samples) \in Nat /\ \A i \in R : samples[i] \in Nat
    OBVIOUS
  <2>2. IsFiniteSet(1..Len(samples)) /\ Cardinality(1..Len(samples)) = Len(samples)
    <3> DEFINE n == Len(samples)
    <3>1. n \in Nat
      OBVIOUS
    <3> HIDE DEF n
    <3>2. IsFiniteSet(1..n) /\ Cardinality(1..n) = IF 1 > n THEN 0 ELSE n - 1 + 1
      BY <3>1, FS_Interval
    <3> QED BY <3>1, <3>2 DEF n
  <2> QED BY <2>1, <2>2
<1>2. \A i \in R : squares[i] = samples[i] * samples[i] /\ squares[i] \in Nat
  BY <1>1
<1>3. TotalOf(samples) = t(R) /\ TotalOf(squares) = q(R)
  BY DEF TotalOf, SumFunction
<1> HIDE DEF R, squares
<1>4. ASSUME NEW s \in SUBSET R
      PROVE  /\ IsFiniteSet(s) /\ t(s) \in Nat /\ q(s) \in Nat
             /\ s = {} => t(s) = 0 /\ q(s) = 0
             /\ \A x \in s : t(s) = samples[x] + t(s \ {x}) /\ q(s) = squares[x] + q(s \ {x})
  <2>1. IsFiniteSet(s) /\ (\A x \in s : samples[x] \in Nat) /\ (\A x \in s : squares[x] \in Nat)
    BY <1>1, <1>2, FS_Subset
  <2> QED BY <2>1, SumFacts
<1> HIDE DEF t, q
<1>5. {} \in T
  <2>1. t({}) = 0 /\ q({}) = 0 /\ Cardinality({}) = 0
    BY <1>4, FS_EmptySet
  <2>2. SumsFit(0, 0, 0, m, M)
    BY DEF SumsFit
  <2> QED BY <2>1, <2>2
<1>6. ASSUME NEW s \in SUBSET R, NEW x \in R, s \in T, x \notin s PROVE s \cup {x} \in T
  <2> DEFINE u == s \cup {x}
  <2>1. u \in SUBSET R /\ x \in u /\ u \ {x} = s
    BY <1>6
  <2> HIDE DEF u
  <2>2. /\ t(u) = samples[x] + t(s) /\ q(u) = squares[x] + q(s)
        /\ t(s) \in Nat /\ q(s) \in Nat /\ IsFiniteSet(s)
    BY <1>4, <2>1
  <2>3. Cardinality(u) = Cardinality(s) + 1 /\ Cardinality(s) \in Nat
    BY <1>6, <2>2, FS_AddElement, FS_CardinalityType DEF u
  <2>4. samples[x] \in Nat /\ m <= samples[x] /\ samples[x] <= M
        /\ squares[x] = samples[x] * samples[x]
    BY <1>1, <1>2
  <2>5. SumsFit(Cardinality(s), t(s), q(s), m, M)
    BY <1>6
  <2>6. SumsFit(Cardinality(s) + 1, t(s) + samples[x], q(s) + samples[x] * samples[x], m, M)
    BY <2>2, <2>3, <2>4, <2>5, MomentsGrow
  <2>7. t(u) = t(s) + samples[x] /\ q(u) = q(s) + samples[x] * samples[x]
    BY <2>2, <2>4, SMTT(30)
  <2>8. SumsFit(Cardinality(u), t(u), q(u), m, M)
    BY <2>3, <2>6, <2>7
  <2> QED BY <2>1, <2>8 DEF u
<1>7. R \in T
  <2> HIDE DEF T
  <2>1. \A s \in SUBSET R : s \in T
    BY <1>1, <1>5, <1>6, GrowingSets
  <2> QED BY <2>1
<1>8. ASSUME NEW i \in R PROVE samples[i] <= t(R)
  <2>1. t(R) = samples[i] + t(R \ {i}) /\ R \ {i} \in SUBSET R
    BY <1>4
  <2>2. t(R \ {i}) \in Nat /\ samples[i] \in Nat
    BY <1>1, <1>4, <2>1
  <2> QED BY <2>1, <2>2
<1>9. SumsFit(Len(samples), t(R), q(R), m, M)
  BY <1>1, <1>7
<1> QED BY <1>3, <1>4, <1>8, <1>9 DEF R, squares

(* A square that is scaled alike and no larger has no larger root.            *)
LEMMA SquareRoots ==
  ASSUME NEW n \in Nat \ {0}, NEW d \in Nat, NEW e \in Nat, d * d * n * n <= e * e * n * n
  PROVE  d <= e
<1> SUFFICES ASSUME e + 1 <= d PROVE FALSE
  OBVIOUS
<1>1. e * n < d * n /\ e * n \in Nat /\ d * n \in Nat
  <2>1. (e + 1) * n <= d * n
    <3>1. d - (e + 1) \in Nat
      OBVIOUS
    <3>2. (d - (e + 1)) * n \in Nat
      BY <3>1, NaturalProduct
    <3>3. (d - (e + 1)) * n = d * n - (e + 1) * n
      OBVIOUS
    <3> QED BY <3>2, <3>3
  <2> QED BY <2>1, NaturalProduct
<1> DEFINE a == e * n
           b == d * n
<1>2. a * a = e * e * n * n /\ b * b = d * d * n * n
  OBVIOUS
<1>3. a \in Nat /\ b \in Nat /\ a < b
  BY <1>1
<1>4. b * b <= a * a
  BY <1>2
<1> HIDE DEF a, b
<1>5. a * (b - a) \in Nat /\ (b - a) * b \in Nat \ {0}
  <2> DEFINE r == b - a
  <2>1. r \in Nat \ {0} /\ b \in Nat \ {0}
    BY <1>3
  <2> HIDE DEF r
  <2>2. a * r \in Nat /\ r * b \in Nat \ {0}
    BY <1>3, <2>1
  <2> QED BY <2>2 DEF r
<1>6. b * b = a * a + a * (b - a) + (b - a) * b
  BY <1>3
<1> QED BY <1>3, <1>4, <1>5, <1>6

(* The variance of samples between m and M, times the square of their number. *)
LEMMA VarianceBounds ==
  ASSUME NEW n \in Nat, NEW t \in Nat, NEW q \in Nat, NEW m \in Nat, NEW M \in Nat,
         SumsFit(n, t, q, m, M), m <= M
  PROVE  0 <= n * q - t * t /\ n * q - t * t <= (M - m) * (M - m) * n * n
<1>1. n * m <= t /\ t <= n * M /\ q <= (M + m) * t - n * (m * M) /\ t * t <= n * q
  BY DEF SumsFit
<1> DEFINE a == n * M - t
           b == t - n * m
<1>2. a \in Nat /\ b \in Nat
  BY <1>1
<1>3. n * q <= n * ((M + m) * t - n * (m * M))
  <2> DEFINE v == (M + m) * t - n * (m * M)
  <2>1. v \in Int /\ q <= v
    BY <1>1
  <2> HIDE DEF v
  <2>2. n * q <= n * v
    <3>1. v - q \in Nat
      BY <2>1
    <3>2. n * (v - q) \in Nat
      BY <3>1, NaturalProduct
    <3>3. n * (v - q) = n * v - n * q
      BY <2>1
    <3> QED BY <2>1, <3>2, <3>3
  <2> QED BY <2>2 DEF v
<1>4. n * ((M + m) * t - n * (m * M)) - t * t = a * b
  OBVIOUS
<1>5. a * b <= (a + b) * (a + b)
  <2> HIDE DEF a, b
  <2>1. a * a \in Nat /\ b * b \in Nat /\ a * b \in Nat
    BY <1>2, NaturalProduct
  <2>2. (a + b) * (a + b) = a * a + b * b + a * b + a * b
    BY <1>2
  <2> QED BY <2>1, <2>2
<1>6. (a + b) * (a + b) = (M - m) * (M - m) * n * n
  <2>1. a + b = n * (M - m)
    OBVIOUS
  <2> DEFINE r == M - m
  <2>2. r \in Int
    OBVIOUS
  <2> HIDE DEF r, a, b
  <2>3. a + b = n * r
    BY <2>1 DEF r
  <2>4. (n * r) * (n * r) = r * r * n * n
    BY <2>2
  <2> QED BY <2>3, <2>4 DEF r
<1> QED BY <1>1, <1>3, <1>4, <1>5, <1>6

(* A scaled square bounded by one has its root below that one's.              *)
LEMMA RootExists ==
  ASSUME NEW n \in Nat \ {0}, NEW v \in Nat, NEW e \in Nat, v <= e * e * n * n
  PROVE  /\ \E d \in 0..e : d * d * n * n <= v /\ v < (d + 1) * (d + 1) * n * n
         /\ \A d \in Nat : d * d * n * n <= v => d <= e
<1> DEFINE sq(d) == d * d * n * n
           T == {d \in Nat : v < sq(d + 1)}
<1>1. ASSUME NEW d \in Nat PROVE sq(d) \in Nat
  <2>1. d * d \in Nat /\ d * d * n \in Nat
    BY NaturalProduct
  <2> QED BY <2>1, NaturalProduct
<1>2. \A d \in Nat : sq(d) <= v => d <= e
  <2> SUFFICES ASSUME NEW d \in Nat, sq(d) <= v PROVE d <= e
    OBVIOUS
  <2>1. sq(d) <= sq(e)
    BY <1>1
  <2> QED BY <2>1, SquareRoots
<1>3. e \in T
  <2>1. ~(sq(e + 1) <= v)
    BY <1>2
  <2>2. sq(e + 1) \in Nat
    BY <1>1
  <2> HIDE DEF sq
  <2> QED BY <2>1, <2>2
<1> HIDE DEF sq
<1>4. PICK d \in T : \A c \in T : d <= c
  <2>1. T \in SUBSET Nat /\ T # {}
    BY <1>3
  <2> HIDE DEF T
  <2> QED BY <2>1, LeastNatural
<1>5. d \in 0..e
  BY <1>3, <1>4
<1>6. sq(d) <= v
  <2>1. CASE d = 0
    <3>1. sq(0) = 0
      BY DEF sq
    <3> QED BY <2>1, <3>1
  <2>2. CASE d # 0
    <3>1. d - 1 \in Nat /\ ~(d <= d - 1)
      BY <1>4, <2>2
    <3>2. ~(v < sq((d - 1) + 1))
      BY <1>4, <3>1
    <3>3. (d - 1) + 1 = d /\ sq(d) \in Nat
      BY <1>1, <1>4
    <3> QED BY <3>2, <3>3
  <2> QED BY <2>1, <2>2
<1>7. v < sq(d + 1)
  BY <1>4
<1> QED BY <1>2, <1>5, <1>6, <1>7 DEF sq

(* A quotient grows with the dividend.                                        *)
LEMMA QuotientGrows ==
  ASSUME NEW b \in Nat \ {0}, NEW a \in Int, NEW c \in Int, a <= c
  PROVE  a \div b <= c \div b
<1> DEFINE q == a \div b
<1>1. q \in Int /\ b * q <= a
  BY QuotientIs
<1> HIDE DEF q
<1>2. b * q <= c
  BY <1>1
<1>3. q <= c \div b
  BY <1>1, <1>2, QuotientFrom
<1> QED BY <1>3 DEF q

(* Where a percentile is looked for: between the ranks low and low + 1 of n,  *)
(* frac hundredths of the way.                                                *)
Place(p, n, low, frac) ==
  /\ low \in 1..n /\ frac \in 0..99
  /\ p * (n - 1) = 100 * (low - 1) + frac
  /\ frac # 0 => low + 1 \in 1..n

(* Every percentile has its place, and a higher one a place no lower.         *)
LEMMA PlaceFacts ==
  ASSUME NEW n \in Nat \ {0}, NEW p \in 1..99
  PROVE  Place(p, n, 1 + (p * (n - 1)) \div 100, (p * (n - 1)) % 100)
<1> DEFINE x == p * (n - 1)
           low == 1 + x \div 100
           frac == x % 100
           b == 100
<1>1. x \in Nat /\ x <= 99 * (n - 1)
  <2>1. n - 1 \in Nat /\ 99 - p \in Nat /\ p \in Nat
    OBVIOUS
  <2>2. (99 - p) * (n - 1) \in Nat /\ p * (n - 1) \in Nat
    BY <2>1, NaturalProduct
  <2>3. (99 - p) * (n - 1) = 99 * (n - 1) - p * (n - 1)
    OBVIOUS
  <2> QED BY <2>2, <2>3
<1> HIDE DEF x
<1>2. x = b * (x \div b) + (x % b) /\ x \div b \in Int /\ x % b \in 0..(b - 1)
  <2>1. b \in Nat \ {0}
    OBVIOUS
  <2> HIDE DEF b
  <2> QED BY <1>1, <2>1, ModDef, ModRange
<1>3. x = 100 * (low - 1) + frac /\ low \in Int /\ frac \in 0..99
  BY <1>2
<1> HIDE DEF low, frac, b
<1>4. low \in 1..n
  BY <1>1, <1>3
<1>5. frac # 0 => low + 1 \in 1..n
  BY <1>1, <1>3, <1>4
<1> QED BY <1>3, <1>4, <1>5 DEF Place, x, low, frac

(* The value of a percentile at its place: between the values of the two      *)
(* ranks.                                                                     *)
Found(s, n, p, low, frac) ==
  /\ Place(p, n, low, frac)
  /\ Percentile(s, p) \in Nat /\ s[low] <= Percentile(s, p)
  /\ frac = 0 => Percentile(s, p) = s[low]
  /\ frac # 0 => /\ Percentile(s, p) = s[low] + (frac * (s[low + 1] - s[low])) \div 100
                 /\ Percentile(s, p) <= s[low + 1]

(* A percentile of a list that ascends is found at its place.                 *)
LEMMA PercentileBetween ==
  ASSUME NEW s \in Seq(Nat), NEW n \in Nat \ {0}, Len(s) = n,
         \A k, l \in 1..n : k <= l => s[k] <= s[l], NEW p \in 1..99
  PROVE  \E low, frac \in Int : Found(s, n, p, low, frac)
<1> DEFINE v == Percentile(s, p)
           low == 1 + (p * (n - 1)) \div 100
           frac == (p * (n - 1)) % 100
<1>0. Place(p, n, low, frac)
  BY PlaceFacts
<1>1. v = IF frac = 0 THEN s[low] ELSE s[low] + (frac * (s[low + 1] - s[low])) \div 100
  BY DEF Percentile
<1> HIDE DEF low, frac
<1>2. /\ low \in 1..n /\ frac \in 0..99 /\ (frac # 0 => low + 1 \in 1..n)
      /\ low \in Int /\ frac \in Int
  BY <1>0 DEF Place
<1>3. s[low] \in Nat
  BY <1>2
<1> HIDE DEF v
<1> SUFFICES /\ v \in Nat /\ s[low] <= v /\ (frac = 0 => v = s[low])
             /\ frac # 0 => /\ v = s[low] + (frac * (s[low + 1] - s[low])) \div 100
                            /\ v <= s[low + 1]
  BY <1>0, <1>2 DEF Found, v
<1>4. CASE frac = 0
  BY <1>1, <1>3, <1>4
<1>5. CASE frac # 0
  <2> DEFINE d == s[low + 1] - s[low]
             b == 100
             q == (frac * d) \div b
  <2>1. d \in Nat /\ s[low + 1] \in Nat
    <3>1. low \in 1..n /\ low + 1 \in 1..n /\ low <= low + 1
      BY <1>2, <1>5
    <3>2. s[low] <= s[low + 1] /\ s[low + 1] \in Nat
      BY <3>1
    <3> QED BY <1>3, <3>2
  <2>2. v = s[low] + q
    BY <1>1, <1>5
  <2>3. frac * d \in Nat /\ frac * d < b * (d + 1) /\ b \in Nat \ {0}
    <3>1. frac \in Nat /\ 100 - frac \in Nat
      BY <1>2
    <3> HIDE DEF d
    <3>2. frac * d \in Nat /\ (100 - frac) * d \in Nat
      BY <2>1, <3>1, NaturalProduct
    <3>3. (100 - frac) * d = 100 * d - frac * d
      BY <2>1, <3>1
    <3> QED BY <2>1, <3>1, <3>2, <3>3
  <2>4. q \in Nat /\ q <= d
    <3> DEFINE y == frac * d
    <3>1. y \in Int /\ b * 0 <= y /\ y < b * (d + 1) /\ d + 1 \in Int /\ b \in Nat \ {0}
      BY <2>1, <2>3
    <3>2. q = y \div b
      OBVIOUS
    <3>3. y \div b \in Int /\ y < b * (y \div b) + b
      <4> HIDE DEF y, b
      <4> QED BY <3>1, QuotientIs
    <3>4. y \div b < d + 1
      <4> HIDE DEF y, b, d
      <4> QED BY <3>1, QuotientBelow
    <3> HIDE DEF y, q, d
    <3>5. 0 <= y \div b
      BY <3>1, <3>3
    <3> QED BY <2>1, <3>2, <3>3, <3>4, <3>5
  <2>5. s[low + 1] = s[low] + d
    BY <1>3, <2>1
  <2>6. v \in Nat /\ s[low] <= v /\ v <= s[low + 1] /\ v = s[low] + q
    <3> DEFINE lo == s[low]
               hi == s[low + 1]
    <3>1. lo \in Nat /\ hi = lo + d /\ v = lo + q
      BY <1>3, <2>2, <2>5
    <3> HIDE DEF q, d, lo, hi
    <3>2. v \in Nat /\ lo <= v /\ v <= hi
      BY <2>1, <2>4, <3>1
    <3> QED BY <2>2, <3>2 DEF lo, hi
  <2> QED BY <1>1, <1>5, <2>6
<1> QED BY <1>4, <1>5

(* A percentile of the samples, and how many of them are about it.            *)
LEMMA PercentileRank ==
  ASSUME NEW samples \in Seq(Nat), samples # <<>>, NEW p \in 1..99
  PROVE  LET s == Sorted(samples)
             n == Len(samples)
             v == Percentile(s, p)
         IN  /\ v \in Nat /\ s[1] <= v /\ v <= s[n]
             /\ 100 * (Cardinality(BelowIn(samples, v)) - 1) < p * (n - 1)
             /\ p * (n - 1) < 100 * Cardinality(AtMostIn(samples, v))
<1> DEFINE s == Sorted(samples)
           n == Len(samples)
           v == Percentile(s, p)
           x == p * (n - 1)
<1>1. n \in Nat \ {0} /\ DOMAIN samples = 1..n
  <2>1. n \in Nat /\ n # 0 /\ DOMAIN samples = 1..n
    BY EmptySeq
  <2> QED BY <2>1
<1>2. /\ s \in Seq(Nat) /\ Len(s) = n
      /\ \A k, l \in 1..n : k <= l => s[k] <= s[l]
      /\ \A k \in 1..n : /\ Cardinality(BelowIn(samples, s[k])) <= k - 1
                         /\ k <= Cardinality(AtMostIn(samples, s[k]))
  BY SortedFacts
<1> HIDE DEF s, n
<1>3. PICK low \in Int, frac \in Int : Found(s, n, p, low, frac)
  BY <1>1, <1>2, PercentileBetween
<1>4. /\ v \in Nat /\ s[low] <= v
      /\ frac = 0 => v = s[low]
      /\ frac # 0 => v <= s[low + 1]
  BY <1>3 DEF Found
<1>5. /\ low \in 1..n /\ frac \in 0..99 /\ x = 100 * (low - 1) + frac
      /\ frac # 0 => low + 1 \in 1..n
  BY <1>3 DEF Found, Place
<1> HIDE DEF v, x
<1>6. \A k \in 1..n : s[k] \in Nat
  BY <1>2
<1>0. ASSUME NEW a \in Nat
      PROVE  /\ IsFiniteSet(BelowIn(samples, a)) /\ Cardinality(BelowIn(samples, a)) \in Nat
             /\ IsFiniteSet(AtMostIn(samples, a)) /\ Cardinality(AtMostIn(samples, a)) \in Nat
  <2>1. IsFiniteSet(DOMAIN samples)
    BY <1>1, FS_Interval
  <2>2. /\ BelowIn(samples, a) \subseteq DOMAIN samples
        /\ AtMostIn(samples, a) \subseteq DOMAIN samples
    BY DEF BelowIn, AtMostIn
  <2> QED BY <2>1, <2>2, FS_Subset, FS_CardinalityType
<1>7. ASSUME NEW a \in Nat, NEW b \in Nat, a <= b
      PROVE  /\ Cardinality(BelowIn(samples, a)) <= Cardinality(BelowIn(samples, b))
             /\ Cardinality(AtMostIn(samples, a)) <= Cardinality(AtMostIn(samples, b))
  <2>1. \A i \in DOMAIN samples : samples[i] \in Nat
    BY <1>1
  <2>2. /\ BelowIn(samples, a) \subseteq BelowIn(samples, b)
        /\ AtMostIn(samples, a) \subseteq AtMostIn(samples, b)
    BY <1>7, <2>1 DEF BelowIn, AtMostIn
  <2> QED BY <1>0, <2>2, FS_Subset
<1>8. s[1] <= v /\ v <= s[n]
  <2>1. s[1] <= s[low] /\ s[low] <= s[n] /\ s[1] \in Nat /\ s[low] \in Nat /\ s[n] \in Nat
    BY <1>1, <1>2, <1>5, <1>6
  <2>2. CASE frac = 0
    BY <1>4, <2>1, <2>2
  <2>3. CASE frac # 0
    <3>1. s[low + 1] <= s[n] /\ s[low + 1] \in Nat
      BY <1>1, <1>2, <1>5, <1>6, <2>3
    <3> QED BY <1>4, <2>1, <2>3, <3>1
  <2> QED BY <2>2, <2>3
<1>9. x < 100 * Cardinality(AtMostIn(samples, v))
  <2> DEFINE u == Cardinality(AtMostIn(samples, v))
             w == Cardinality(AtMostIn(samples, s[low]))
  <2>1. low <= w /\ w <= u /\ w \in Nat /\ u \in Nat
    <3>1. s[low] \in Nat
      BY <1>5, <1>6
    <3>2. w <= u /\ w \in Nat /\ u \in Nat
      BY <1>0, <1>4, <1>7, <3>1
    <3> QED BY <1>2, <1>5, <3>2
  <2> HIDE DEF u, w
  <2>2. x < 100 * u
    BY <1>1, <1>5, <2>1
  <2> QED BY <2>2 DEF u
<1>10. 100 * (Cardinality(BelowIn(samples, v)) - 1) < x
  <2> DEFINE u == Cardinality(BelowIn(samples, v))
  <2>1. u \in Nat
    BY <1>0, <1>4
  <2>2. CASE frac = 0
    <3>1. u <= low - 1
      BY <1>2, <1>4, <1>5, <2>2
    <3> HIDE DEF u
    <3>2. 100 * (u - 1) < x
      BY <1>1, <1>5, <2>1, <3>1
    <3> QED BY <3>2 DEF u
  <2>3. CASE frac # 0
    <3> DEFINE w == Cardinality(BelowIn(samples, s[low + 1]))
    <3>1. w <= low + 1 - 1 /\ s[low + 1] \in Nat
      BY <1>2, <1>5, <1>6, <2>3
    <3>2. u <= w /\ w \in Nat
      BY <1>0, <1>4, <1>7, <2>3, <3>1
    <3> HIDE DEF u, w
    <3>3. 100 * (u - 1) < x
      BY <1>1, <1>5, <2>1, <2>3, <3>1, <3>2
    <3> QED BY <3>3 DEF u
  <2> QED BY <2>2, <2>3
<1> QED BY <1>4, <1>8, <1>9, <1>10 DEF s, n, v, x

(* A higher percentile is no lower value.                                     *)
LEMMA PercentilesAscend ==
  ASSUME NEW samples \in Seq(Nat), samples # <<>>, NEW p \in 1..99, NEW r \in 1..99, p < r
  PROVE  Percentile(Sorted(samples), p) <= Percentile(Sorted(samples), r)
<1> DEFINE s == Sorted(samples)
           n == Len(samples)
           v == Percentile(s, p)
           w == Percentile(s, r)
<1> SUFFICES v <= w
  OBVIOUS
<1>1. n \in Nat \ {0}
  <2>1. n \in Nat /\ n # 0
    BY EmptySeq
  <2> QED BY <2>1
<1>2. /\ s \in Seq(Nat) /\ Len(s) = n
      /\ \A k, l \in 1..n : k <= l => s[k] <= s[l]
  BY SortedFacts
<1> HIDE DEF s, n
<1>3. PICK a \in Int, f \in Int : Found(s, n, p, a, f)
  BY <1>1, <1>2, PercentileBetween
<1>0. PICK b \in Int, g \in Int : Found(s, n, r, b, g)
  BY <1>1, <1>2, PercentileBetween
<1>9. p * (n - 1) = 100 * (a - 1) + f /\ r * (n - 1) = 100 * (b - 1) + g
  BY <1>3, <1>0 DEF Found, Place
<1>4. /\ a \in 1..n /\ f \in 0..99
      /\ f # 0 => a + 1 \in 1..n
      /\ v \in Nat /\ s[a] <= v /\ (f = 0 => v = s[a])
      /\ f # 0 => v = s[a] + (f * (s[a + 1] - s[a])) \div 100 /\ v <= s[a + 1]
  BY <1>3 DEF Found, Place
<1>5. /\ b \in 1..n /\ g \in 0..99
      /\ w \in Nat /\ s[b] <= w
      /\ g # 0 => w = s[b] + (g * (s[b + 1] - s[b])) \div 100
  BY <1>0 DEF Found, Place
<1>6. p * (n - 1) <= r * (n - 1)
  <2>1. n - 1 \in Nat /\ r - p \in Nat
    BY <1>1
  <2>2. (r - p) * (n - 1) \in Nat
    BY <2>1, NaturalProduct
  <2>3. (r - p) * (n - 1) = r * (n - 1) - p * (n - 1)
    BY <1>1
  <2> DEFINE e == n - 1
  <2> HIDE DEF e
  <2>4. p * e \in Int /\ r * e \in Int
    BY <2>1 DEF e
  <2> QED BY <2>2, <2>3, <2>4 DEF e
<1> HIDE DEF v, w
<1>7. a < b \/ (a = b /\ f <= g)
  <2> DEFINE x == p * (n - 1)
             z == r * (n - 1)
  <2>1. x = 100 * (a - 1) + f /\ z = 100 * (b - 1) + g /\ x <= z
    BY <1>6, <1>9
  <2> HIDE DEF x, z
  <2> QED BY <1>1, <1>4, <1>5, <2>1
<1>8. s[a] \in Nat /\ s[b] \in Nat /\ (f # 0 => s[a + 1] \in Nat /\ s[a] <= s[a + 1])
  <2>1. \A k \in 1..n : s[k] \in Nat
    BY <1>2
  <2>2. f # 0 => a <= a + 1
    BY <1>4
  <2> QED BY <1>2, <1>4, <1>5, <2>1, <2>2
<1>10. CASE a < b
  <2>1. s[a] <= s[b]
    BY <1>2, <1>4, <1>5, <1>10
  <2>2. f # 0 => s[a + 1] <= s[b]
    <3>1. f # 0 => a + 1 <= b
      BY <1>1, <1>4, <1>5, <1>10
    <3> QED BY <1>2, <1>4, <1>5, <3>1
  <2>3. v <= s[b]
    BY <1>4, <1>8, <2>1, <2>2
  <2> QED BY <1>4, <1>5, <1>8, <2>3
<1>11. CASE a = b /\ f <= g
  <2>1. CASE f = 0
    BY <1>4, <1>5, <1>8, <1>11, <2>1
  <2>2. CASE f # 0
    <3> DEFINE d == s[a + 1] - s[a]
    <3>1. d \in Nat
      BY <1>8, <2>2
    <3>2. f \in Nat /\ g \in Nat /\ f <= g /\ g # 0
      BY <1>4, <1>5, <1>11, <2>2
    <3>3. v = s[a] + (f * d) \div 100 /\ w = s[a] + (g * d) \div 100
      BY <1>4, <1>5, <1>11, <2>2, <3>2
    <3> HIDE DEF d
    <3>4. f * d \in Int /\ g * d \in Int /\ f * d <= g * d
      <4>1. g - f \in Nat
        BY <3>2
      <4>2. (g - f) * d \in Nat /\ f * d \in Nat /\ g * d \in Nat
        BY <3>1, <3>2, <4>1, NaturalProduct
      <4>3. (g - f) * d = g * d - f * d
        BY <3>1, <4>1
      <4> QED BY <4>2, <4>3
    <3>5. (f * d) \div 100 <= (g * d) \div 100
      <4> DEFINE c == 100
                 y == f * d
                 z == g * d
      <4>1. c \in Nat \ {0} /\ y \in Int /\ z \in Int /\ y <= z
        BY <3>4
      <4> HIDE DEF c, y, z
      <4>2. y \div c <= z \div c
        BY <4>1, QuotientGrows
      <4> QED BY <4>2 DEF c, y, z
    <3> DEFINE i == (f * d) \div 100
               j == (g * d) \div 100
    <3>6. v = s[a] + i /\ w = s[a] + j /\ i <= j /\ i \in Int /\ j \in Int
      BY <3>3, <3>4, <3>5
    <3> HIDE DEF i, j
    <3> QED BY <1>8, <3>6
  <2> QED BY <2>1, <2>2
<1> QED BY <1>7, <1>10, <1>11

(* The mean lies within the samples, and the deviation within their spread.   *)
LEMMA MeanAndSpread ==
  ASSUME NEW samples \in Seq(Nat), samples # <<>>
  PROVE  LET s == Sorted(samples)
             n == Len(samples)
         IN  /\ s[1] \in Nat /\ s[n] \in Nat /\ s[1] <= s[n]
             /\ Mean(samples) \in Nat /\ s[1] <= Mean(samples) /\ Mean(samples) <= s[n]
             /\ StdDev(samples) \in Nat /\ StdDev(samples) <= s[n] - s[1]
<1> DEFINE n == Len(samples)
           m == Sorted(samples)[1]
           M == Sorted(samples)[n]
           squares == [i \in DOMAIN samples |-> samples[i] * samples[i]]
           t == TotalOf(samples)
           q == TotalOf(squares)
<1>1. n \in Nat \ {0} /\ DOMAIN samples = 1..n
  <2>1. n \in Nat /\ n # 0 /\ DOMAIN samples = 1..n
    BY EmptySeq
  <2> QED BY <2>1
<1>2. /\ m \in Nat /\ M \in Nat /\ m <= M
      /\ \A i \in 1..n : m <= samples[i] /\ samples[i] <= M
      /\ \E i \in 1..n : M = samples[i]
  <2> DEFINE s == Sorted(samples)
  <2>1. /\ s \in Seq(Nat) /\ Len(s) = n
        /\ \A k \in 1..n : \E i \in 1..n : s[k] = samples[i]
        /\ \A k, l \in 1..n : k <= l => s[k] <= s[l]
        /\ \A i \in 1..n : \E k \in 1..n : s[k] = samples[i]
    BY SortedFacts
  <2> HIDE DEF s
  <2>3. 1 \in 1..n /\ n \in 1..n /\ \A k \in 1..n : 1 <= k /\ k <= n
    BY <1>1
  <2>2. \A k \in 1..n : s[k] \in Nat /\ s[1] <= s[k] /\ s[k] <= s[n]
    <3> HIDE DEF n
    <3>1. s \in Seq(Nat) /\ Len(s) = n
      BY <2>1
    <3>2. \A k \in 1..n : s[k] \in Nat
      BY <3>1
    <3> QED BY <2>1, <2>3, <3>2
  <2> HIDE DEF n
  <2>4. s[1] \in Nat /\ s[n] \in Nat /\ s[1] <= s[n] /\ \E i \in 1..n : s[n] = samples[i]
    BY <2>1, <2>2, <2>3
  <2>5. \A i \in 1..n : s[1] <= samples[i] /\ samples[i] <= s[n]
    BY <2>1, <2>2
  <2> QED BY <2>4, <2>5 DEF s
<1>3. /\ t \in Nat /\ q \in Nat /\ SumsFit(n, t, q, m, M)
      /\ \A i \in DOMAIN samples : samples[i] <= t
  <2> HIDE DEF m, M
  <2> QED BY <1>2, SampleMoments
<1>4. M <= t
  BY <1>1, <1>2, <1>3
<1> HIDE DEF m, M, t, q, n
<1>5. n * m <= t /\ t <= n * M
  BY <1>3 DEF SumsFit
<1>6. t \div n \in Nat /\ m <= t \div n /\ t \div n <= M
  <2>1. m <= t \div n
    <3>1. m \in Int /\ t \in Int
      BY <1>2, <1>3
    <3> QED BY <1>1, <1>5, <3>1, QuotientFrom
  <2>2. t < n * (M + 1)
    BY <1>1, <1>2, <1>3, <1>5
  <2>3. t \div n \in Int /\ t \div n < M + 1
    <3> DEFINE k == M + 1
    <3>1. k \in Int /\ t < n * k
      BY <1>2, <2>2
    <3> HIDE DEF k
    <3>2. t \div n < k /\ t \div n \in Int
      BY <1>1, <1>3, <3>1, QuotientBelow, QuotientIs
    <3> QED BY <3>2 DEF k
  <2> QED BY <1>2, <2>1, <2>3
<1> DEFINE v == n * q - t * t
           e == M - m
<1>7. v \in Nat /\ v <= e * e * n * n
  <2>1. 0 <= n * q - t * t /\ n * q - t * t <= (M - m) * (M - m) * n * n
    BY <1>1, <1>2, <1>3, VarianceBounds
  <2>2. v \in Int
    BY <1>1, <1>3
  <2> QED BY <2>1, <2>2
<1>8. e \in Nat /\ e <= t
  BY <1>2, <1>3, <1>4
<1>9. StdDev(samples) = CHOOSE d \in 0..t : d * d * n * n <= v /\ v < (d + 1) * (d + 1) * n * n
  BY Zenon DEF StdDev, n, t, q, v
<1> HIDE DEF v, e
<1>10. /\ \E d \in 0..e : d * d * n * n <= v /\ v < (d + 1) * (d + 1) * n * n
       /\ \A d \in Nat : d * d * n * n <= v => d <= e
  BY <1>1, <1>7, <1>8, RootExists
<1>11. \E d \in 0..t : d * d * n * n <= v /\ v < (d + 1) * (d + 1) * n * n
  <2>1. 0..e \subseteq 0..t
    BY <1>3, <1>8
  <2> QED BY <1>10, <2>1
<1> DEFINE root == StdDev(samples)
<1>12. root \in 0..t /\ root * root * n * n <= v
  BY <1>9, <1>11, Zenon
<1> HIDE DEF root
<1>13. root \in Nat /\ root <= e
  BY <1>3, <1>10, <1>12
<1> QED BY <1>2, <1>6, <1>13 DEF m, M, n, t, root, e, Mean

(* The summary of any cycle is ordered. *)
THEOREM SummariesAreOrdered ==
  ASSUME NEW samples \in Seq(Nat)
  PROVE  SummaryIsOrdered(samples)
<1> DEFINE s == Sorted(samples)
           n == Len(samples)
           c == Compute(samples)
           D == PercentileSet \cup {50}
           band == [p \in D |-> IF p = 50 THEN c.median ELSE c.percentiles[p]]
<1> SUFFICES ASSUME samples # <<>>
             PROVE  /\ \A p, r \in DOMAIN band : p < r => band[p] <= band[r]
                    /\ \A p \in DOMAIN band :
                         /\ c.min <= band[p] /\ band[p] <= c.max
                         /\ 100 * (Cardinality(BelowIn(samples, band[p])) - 1) < p * (n - 1)
                         /\ p * (n - 1) < 100 * Cardinality(AtMostIn(samples, band[p]))
                    /\ c.min <= c.mean /\ c.mean <= c.max
                    /\ c.stddev <= c.max - c.min
  BY Zenon DEF SummaryIsOrdered, BelowIn, AtMostIn
<1>0. DOMAIN band = D
  OBVIOUS
<1>1. D \subseteq 1..99
  BY DEF PercentileSet
<1>2. /\ c.min = s[1] /\ c.max = s[n] /\ c.mean = Mean(samples) /\ c.stddev = StdDev(samples)
      /\ c.median = Percentile(s, 50)
      /\ \A p \in PercentileSet : c.percentiles[p] = Percentile(s, p)
  <2>1. Len(s) = n
    BY SortedFacts
  <2>2. c = [min |-> s[1], max |-> s[Len(s)], mean |-> Mean(samples), median |-> Percentile(s, 50),
             stddev |-> StdDev(samples),
             percentiles |-> [p \in PercentileSet |-> Percentile(s, p)]]
    BY DEF Compute
  <2> HIDE DEF c, s, n
  <2> QED BY <2>1, <2>2
<1>3. \A p \in D : band[p] = Percentile(s, p)
  <2> HIDE DEF c, s
  <2> QED BY <1>2
<1>4. \A p, r \in 1..99 : p < r => Percentile(s, p) <= Percentile(s, r)
  BY PercentilesAscend
<1>5. \A p \in 1..99 :
        LET v == Percentile(s, p)
        IN  /\ v \in Nat /\ s[1] <= v /\ v <= s[n]
            /\ 100 * (Cardinality(BelowIn(samples, v)) - 1) < p * (n - 1)
            /\ p * (n - 1) < 100 * Cardinality(AtMostIn(samples, v))
  BY PercentileRank
<1>6. /\ s[1] <= Mean(samples) /\ Mean(samples) <= s[n]
      /\ StdDev(samples) <= s[n] - s[1]
  BY MeanAndSpread
<1> HIDE DEF s, n, c, band, D
<1>7. \A p, r \in D : p < r => band[p] <= band[r]
  BY <1>1, <1>3, <1>4
<1>8. ASSUME NEW p \in D
      PROVE  /\ c.min <= band[p] /\ band[p] <= c.max
             /\ 100 * (Cardinality(BelowIn(samples, band[p])) - 1) < p * (n - 1)
             /\ p * (n - 1) < 100 * Cardinality(AtMostIn(samples, band[p]))
  <2>1. p \in 1..99 /\ band[p] = Percentile(s, p)
    BY <1>1, <1>3
  <2> QED BY <1>2, <1>5, <2>1, Zenon
<1>9. c.min <= c.mean /\ c.mean <= c.max /\ c.stddev <= c.max - c.min
  BY <1>2, <1>6, Zenon
<1> QED BY <1>0, <1>7, <1>8, <1>9, Zenon

(* What a summary is made of. *)
Figures(s) == {s.min, s.max, s.mean, s.median, s.stddev} \cup {s.percentiles[p] : p \in PercentileSet}

(* The figures of a summary lie within any bound of the samples, and those of *)
(* no samples are 0.                                                          *)
LEMMA SummaryWithin ==
  ASSUME NEW k \in Nat, NEW samples \in Seq(0..k)
  PROVE  /\ Figures(Compute(samples)) \subseteq 0..k
         /\ samples = <<>> => Figures(Compute(samples)) \subseteq {0}
<1> DEFINE c == Compute(samples)
<1>1. CASE samples = <<>>
  <2>1. c = [min |-> 0, max |-> 0, mean |-> 0, median |-> 0, stddev |-> 0,
             percentiles |-> [p \in PercentileSet |-> 0]]
    BY <1>1, Zenon DEF Compute
  <2> HIDE DEF c
  <2>2. /\ c.min = 0 /\ c.max = 0 /\ c.mean = 0 /\ c.median = 0 /\ c.stddev = 0
        /\ c.percentiles = [p \in PercentileSet |-> 0]
    BY <2>1
  <2>3. \A p \in PercentileSet : c.percentiles[p] = 0
    BY <2>2
  <2>4. Figures(c) \subseteq {0}
    BY <2>2, <2>3 DEF Figures
  <2> QED BY <2>4 DEF c
<1>2. CASE samples # <<>>
  <2> DEFINE s == Sorted(samples)
             n == Len(samples)
  <2>1. samples \in Seq(Nat) /\ n \in Nat \ {0}
    <3>1. samples \in Seq(Nat) /\ n \in Nat
      OBVIOUS
    <3> QED BY <1>2, <3>1, EmptySeq
  <2>2. Len(s) = n /\ \A j \in 1..n : \E i \in 1..n : s[j] = samples[i]
    BY <2>1, SortedFacts
  <2>3. \A i \in 1..n : samples[i] \in 0..k
    BY ElementOfSeq
  <2> HIDE DEF s, n
  <2>4. s[1] \in 0..k /\ s[n] \in 0..k
    <3>1. 1 \in 1..n /\ n \in 1..n
      BY <2>1
    <3> QED BY <2>2, <2>3, <3>1
  <2>5. c = [min |-> s[1], max |-> s[n], mean |-> Mean(samples), median |-> Percentile(s, 50),
             stddev |-> StdDev(samples),
             percentiles |-> [p \in PercentileSet |-> Percentile(s, p)]]
    BY <1>2, <2>2, Zenon DEF Compute, s
  <2>6. Mean(samples) \in 0..k /\ StdDev(samples) \in 0..k
    <3>1. /\ Mean(samples) \in Nat /\ Mean(samples) <= s[n]
          /\ StdDev(samples) \in Nat /\ StdDev(samples) <= s[n] - s[1]
      BY <1>2, <2>1, MeanAndSpread DEF s, n
    <3> QED BY <2>4, <3>1
  <2>7. ASSUME NEW p \in 1..99 PROVE Percentile(s, p) \in 0..k
    <3>1. Percentile(s, p) \in Nat /\ Percentile(s, p) <= s[n]
      BY <1>2, <2>1, PercentileRank DEF s, n
    <3> QED BY <2>4, <3>1
  <2>8. 50 \in 1..99 /\ PercentileSet \subseteq 1..99
    BY DEF PercentileSet
  <2> HIDE DEF c
  <2>9. /\ c.min \in 0..k /\ c.max \in 0..k /\ c.mean \in 0..k /\ c.median \in 0..k /\ c.stddev \in 0..k
    BY <2>4, <2>5, <2>6, <2>7, <2>8
  <2>10. \A p \in PercentileSet : c.percentiles[p] \in 0..k
    BY <2>5, <2>7, <2>8
  <2>11. Figures(c) \subseteq 0..k
    BY <2>9, <2>10 DEF Figures
  <2> QED BY <1>2, <2>11 DEF c
<1> QED BY <1>1, <1>2

-----------------------------------------------------------------------------
(* Sums over other sets, the greatest of a set, and lists of some places.     *)

(* What a sum may be taken of. *)
Weights(w, R) == IsFiniteSet(R) /\ \A x \in R : w[x] \in Nat

(* One element more. *)
LEMMA SumGrows ==
  ASSUME NEW R, NEW w, Weights(w, R), NEW s \in SUBSET R
  PROVE  /\ IsFiniteSet(s) /\ SumFunctionOnSet(w, s) \in Nat
         /\ s = {} => SumFunctionOnSet(w, s) = 0
         /\ \A y \in R : y \notin s =>
              SumFunctionOnSet(w, s \cup {y}) = w[y] + SumFunctionOnSet(w, s)
<1>1. \A u \in SUBSET R : IsFiniteSet(u) /\ \A x \in u : w[x] \in Nat
  BY FS_Subset DEF Weights
<1>2. ASSUME NEW y \in R, y \notin s
      PROVE  SumFunctionOnSet(w, s \cup {y}) = w[y] + SumFunctionOnSet(w, s)
  <2> DEFINE u == s \cup {y}
  <2>1. u \in SUBSET R /\ y \in u /\ u \ {y} = s
    BY <1>2
  <2> HIDE DEF u
  <2>2. SumFunctionOnSet(w, u) = w[y] + SumFunctionOnSet(w, u \ {y})
    BY <1>1, <2>1, SumFacts
  <2> QED BY <2>1, <2>2 DEF u
<1> QED BY <1>1, <1>2, SumFacts

(* h takes the places of S to different ones of R with the same weight; the   *)
(* others have none.                                                          *)
Carries(h, v, S, w, R) ==
  /\ h \in [S -> R] /\ \A x, y \in S : h[x] = h[y] => x = y
  /\ \A x \in S : w[h[x]] = v[x]
  /\ \A y \in R : w[y] # 0 => \E x \in S : h[x] = y

(* Then both have the same sum. *)
LEMMA SumsAlike ==
  ASSUME NEW R, NEW w, Weights(w, R), NEW S, NEW v, Weights(v, S), NEW h, Carries(h, v, S, w, R)
  PROVE  SumFunctionOnSet(w, R) = SumFunctionOnSet(v, S)
<1> DEFINE Back(s) == {x \in S : h[x] \in s}
           T == {s \in SUBSET R : SumFunctionOnSet(w, s) = SumFunctionOnSet(v, Back(s))}
<1>1. {} \in T
  <2>1. SumFunctionOnSet(w, {}) = 0 /\ SumFunctionOnSet(v, {}) = 0
    BY SumGrows
  <2>2. Back({}) = {}
    OBVIOUS
  <2> QED BY <2>1, <2>2
<1>2. ASSUME NEW s \in SUBSET R, NEW y \in R, s \in T, y \notin s PROVE s \cup {y} \in T
  <2> DEFINE b == Back(s)
  <2>1. SumFunctionOnSet(w, s) = SumFunctionOnSet(v, b) /\ b \in SUBSET S
    BY <1>2
  <2>2. /\ SumFunctionOnSet(w, s \cup {y}) = w[y] + SumFunctionOnSet(w, s)
        /\ SumFunctionOnSet(w, s) \in Nat
    BY <1>2, SumGrows
  <2>3. SumFunctionOnSet(w, s \cup {y}) = SumFunctionOnSet(v, Back(s \cup {y}))
    <3>1. CASE \E x \in S : h[x] = y
      <4>1. PICK x \in S : h[x] = y
        BY <3>1
      <4>2. Back(s \cup {y}) = b \cup {x} /\ x \notin b /\ w[y] = v[x]
        BY <1>2, <4>1 DEF Carries
      <4> HIDE DEF b, Back
      <4>3. SumFunctionOnSet(v, b \cup {x}) = v[x] + SumFunctionOnSet(v, b)
        BY <2>1, <4>2, SumGrows
      <4> QED BY <2>1, <2>2, <4>2, <4>3
    <3>2. CASE ~\E x \in S : h[x] = y
      <4>1. Back(s \cup {y}) = b
        BY <3>2
      <4>2. w[y] = 0
        BY <3>2 DEF Carries
      <4> HIDE DEF b, Back
      <4> QED BY <2>1, <2>2, <4>1, <4>2
    <3> QED BY <3>1, <3>2
  <2> HIDE DEF Back
  <2> QED BY <1>2, <2>3
<1>3. R \in T
  <2> HIDE DEF T
  <2>1. \A s \in SUBSET R : s \in T
    BY <1>1, <1>2, GrowingSets DEF Weights
  <2> QED BY <2>1
<1>4. Back(R) = S
  BY DEF Carries
<1> HIDE DEF Back
<1> QED BY <1>3, <1>4

(* The same weights have the same sum. *)
LEMMA SameSums ==
  ASSUME NEW R, NEW w, NEW v, Weights(w, R), \A x \in R : v[x] = w[x]
  PROVE  SumFunctionOnSet(v, R) = SumFunctionOnSet(w, R)
<1> DEFINE h == [x \in R |-> x]
<1>1. Weights(v, R)
  BY DEF Weights
<1>2. Carries(h, v, R, w, R)
  BY DEF Carries
<1> HIDE DEF h
<1> QED BY <1>1, <1>2, SumsAlike

(* Zeros may be left out. *)
LEMMA SumWithoutZeros ==
  ASSUME NEW R, NEW w, Weights(w, R), NEW S \in SUBSET R, \A x \in R : w[x] # 0 => x \in S
  PROVE  SumFunctionOnSet(w, R) = SumFunctionOnSet(w, S)
<1> DEFINE h == [x \in S |-> x]
<1>1. Weights(w, S)
  BY FS_Subset DEF Weights
<1>2. Carries(h, w, S, w, R)
  BY DEF Carries
<1> HIDE DEF h
<1> QED BY <1>1, <1>2, SumsAlike

(* A sum is at least each of its weights, and some weight if there is any.    *)
LEMMA SumPositive ==
  ASSUME NEW R, NEW w, Weights(w, R)
  PROVE  /\ SumFunctionOnSet(w, R) \in Nat
         /\ SumFunctionOnSet(w, R) > 0 <=> \E x \in R : w[x] > 0
         /\ \A x \in R : w[x] <= SumFunctionOnSet(w, R)
<1>1. SumFunctionOnSet(w, R) \in Nat
  BY SumGrows
<1>2. ASSUME NEW x \in R PROVE w[x] <= SumFunctionOnSet(w, R)
  <2> DEFINE s == R \ {x}
  <2>1. s \in SUBSET R /\ x \notin s /\ s \cup {x} = R
    OBVIOUS
  <2> HIDE DEF s
  <2>2. SumFunctionOnSet(w, s \cup {x}) = w[x] + SumFunctionOnSet(w, s) /\ SumFunctionOnSet(w, s) \in Nat
    BY <2>1, SumGrows
  <2>3. w[x] \in Nat
    BY DEF Weights
  <2> QED BY <2>1, <2>2, <2>3
<1>3. ASSUME NEW x \in R, w[x] > 0 PROVE SumFunctionOnSet(w, R) > 0
  BY <1>1, <1>2, <1>3 DEF Weights
<1>4. ASSUME \A x \in R : ~(w[x] > 0) PROVE SumFunctionOnSet(w, R) = 0
  <2>1. \A x \in R : w[x] = 0
    BY <1>4 DEF Weights
  <2>2. SumFunctionOnSet(w, R) = SumFunctionOnSet(w, {})
    BY <2>1, SumWithoutZeros
  <2>3. SumFunctionOnSet(w, {}) = 0
    BY SumGrows
  <2> QED BY <2>2, <2>3
<1> QED BY <1>1, <1>2, <1>3, <1>4

(* label names the part of each place, and q[g] is the sum over part g.       *)
Parted(q, G, label, w, R) ==
  /\ G = {label[x] : x \in R}
  /\ \A g \in G : q[g] = SumFunctionOnSet(w, {x \in R : label[x] = g})

(* The whole is the sum of the parts. *)
LEMMA SumOfParts ==
  ASSUME NEW R, NEW w, Weights(w, R), NEW label, NEW G, NEW q, Parted(q, G, label, w, R)
  PROVE  Weights(q, G) /\ SumFunctionOnSet(q, G) = SumFunctionOnSet(w, R)
<1> DEFINE Of(s) == {x \in R : label[x] \in s}
           Part(g) == {x \in R : label[x] = g}
           T == {s \in SUBSET G : SumFunctionOnSet(q, s) = SumFunctionOnSet(w, Of(s))}
<1>0. /\ IsFiniteSet(R) /\ \A x \in R : w[x] \in Nat
      /\ G = {label[x] : x \in R}
      /\ \A g \in G : q[g] = SumFunctionOnSet(w, Part(g))
  BY DEF Weights, Parted
<1>1. Weights(q, G)
  <2>1. IsFiniteSet(G)
    <3> DEFINE f == [x \in R |-> label[x]]
    <3>1. f \in Surjection(R, G)
      BY <1>0 DEF Surjection
    <3> HIDE DEF f
    <3> QED BY <1>0, <3>1, FS_Surjection
  <2>2. ASSUME NEW g \in G PROVE q[g] \in Nat
    <3>1. Part(g) \in SUBSET R
      OBVIOUS
    <3> HIDE DEF Part
    <3>2. SumFunctionOnSet(w, Part(g)) \in Nat
      BY <3>1, SumGrows
    <3> QED BY <1>0, <3>2
  <2> QED BY <2>1, <2>2 DEF Weights
<1>2. {} \in T
  <2>1. SumFunctionOnSet(w, {}) = 0 /\ SumFunctionOnSet(q, {}) = 0
    BY <1>1, SumGrows
  <2>2. Of({}) = {}
    OBVIOUS
  <2> QED BY <2>1, <2>2
<1>3. ASSUME NEW A \in SUBSET R, NEW B \in SUBSET R, A \cap B = {}
      PROVE  SumFunctionOnSet(w, A \cup B) = SumFunctionOnSet(w, A) + SumFunctionOnSet(w, B)
  <2> DEFINE U == {s \in SUBSET B :
                     SumFunctionOnSet(w, A \cup s) = SumFunctionOnSet(w, A) + SumFunctionOnSet(w, s)}
  <2>1. {} \in U
    <3>1. SumFunctionOnSet(w, {}) = 0 /\ SumFunctionOnSet(w, A) \in Nat
      BY SumGrows
    <3>2. A \cup {} = A
      OBVIOUS
    <3> QED BY <3>1, <3>2
  <2>2. ASSUME NEW s \in SUBSET B, NEW y \in B, s \in U, y \notin s PROVE s \cup {y} \in U
    <3> DEFINE a == A \cup s
    <3>1. a \in SUBSET R /\ s \in SUBSET R /\ y \in R /\ y \notin a /\ A \cup (s \cup {y}) = a \cup {y}
      BY <1>3, <2>2
    <3>2. SumFunctionOnSet(w, a) = SumFunctionOnSet(w, A) + SumFunctionOnSet(w, s)
      BY <2>2
    <3> HIDE DEF a
    <3>3. /\ SumFunctionOnSet(w, a \cup {y}) = w[y] + SumFunctionOnSet(w, a)
          /\ SumFunctionOnSet(w, s \cup {y}) = w[y] + SumFunctionOnSet(w, s)
          /\ SumFunctionOnSet(w, s) \in Nat /\ SumFunctionOnSet(w, A) \in Nat /\ w[y] \in Nat
      BY <1>0, <2>2, <3>1, SumGrows
    <3>4. SumFunctionOnSet(w, a \cup {y}) = SumFunctionOnSet(w, A) + SumFunctionOnSet(w, s \cup {y})
      <4> DEFINE k == SumFunctionOnSet(w, a \cup {y})
                 l == SumFunctionOnSet(w, s \cup {y})
                 m == SumFunctionOnSet(w, a)
                 n == SumFunctionOnSet(w, s)
                 o == SumFunctionOnSet(w, A)
      <4>1. k = w[y] + m /\ l = w[y] + n /\ n \in Nat /\ o \in Nat /\ w[y] \in Nat /\ m = o + n
        BY <3>2, <3>3
      <4> HIDE DEF k, l, m, n, o
      <4>2. k = o + l
        BY <4>1
      <4> QED BY <4>2 DEF k, l, o
    <3>5. SumFunctionOnSet(w, A \cup (s \cup {y})) = SumFunctionOnSet(w, A) + SumFunctionOnSet(w, s \cup {y})
      BY <3>1, <3>4
    <3> QED BY <2>2, <3>5
  <2>3. B \in U
    <3> HIDE DEF U
    <3>1. IsFiniteSet(B)
      BY <1>0, FS_Subset
    <3>2. \A s \in SUBSET B : s \in U
      BY <2>1, <2>2, <3>1, GrowingSets
    <3> QED BY <3>2
  <2> QED BY <2>3
<1>4. ASSUME NEW s \in SUBSET G, NEW g \in G, s \in T, g \notin s PROVE s \cup {g} \in T
  <2> DEFINE A == Of(s)
             B == Part(g)
  <2>1. Of(s \cup {g}) = A \cup B /\ A \cap B = {} /\ A \in SUBSET R /\ B \in SUBSET R
    BY <1>4
  <2>2. q[g] = SumFunctionOnSet(w, B) /\ SumFunctionOnSet(q, s) = SumFunctionOnSet(w, A)
    BY <1>0, <1>4
  <2>3. SumFunctionOnSet(q, s \cup {g}) = q[g] + SumFunctionOnSet(q, s)
    BY <1>1, <1>4, SumGrows
  <2> HIDE DEF A, B, Of
  <2>4. /\ SumFunctionOnSet(w, A \cup B) = SumFunctionOnSet(w, A) + SumFunctionOnSet(w, B)
        /\ SumFunctionOnSet(w, A) \in Nat /\ SumFunctionOnSet(w, B) \in Nat
    BY <1>3, <2>1, SumGrows
  <2>5. SumFunctionOnSet(q, s \cup {g}) = SumFunctionOnSet(w, A \cup B)
    <3> DEFINE k == SumFunctionOnSet(w, A)
               l == SumFunctionOnSet(w, B)
    <3>1. /\ SumFunctionOnSet(q, s \cup {g}) = l + k /\ SumFunctionOnSet(w, A \cup B) = k + l
          /\ k \in Nat /\ l \in Nat
      BY <2>2, <2>3, <2>4
    <3> HIDE DEF k, l
    <3> QED BY <3>1
  <2>6. SumFunctionOnSet(q, s \cup {g}) = SumFunctionOnSet(w, Of(s \cup {g}))
    BY <2>1, <2>5
  <2> QED BY <1>4, <2>6
<1>5. G \in T
  <2> HIDE DEF T
  <2>1. \A s \in SUBSET G : s \in T
    BY <1>1, <1>2, <1>4, GrowingSets DEF Weights
  <2> QED BY <2>1
<1>6. Of(G) = R
  BY <1>0
<1> HIDE DEF Of
<1> QED BY <1>1, <1>5, <1>6

(* A finite set of integers has a greatest and a least element. *)
LEMMA MaxMinFacts ==
  ASSUME NEW S \in SUBSET Int, IsFiniteSet(S), S # {}
  PROVE  /\ Max(S) \in S /\ \A x \in S : x <= Max(S)
         /\ Min(S) \in S /\ \A x \in S : Min(S) <= x
<1> DEFINE T == {s \in SUBSET S : s # {} => /\ \E x \in s : \A y \in s : x >= y
                                            /\ \E x \in s : \A y \in s : x <= y}
<1>1. {} \in T
  OBVIOUS
<1>2. ASSUME NEW s \in SUBSET S, NEW z \in S, s \in T, z \notin s PROVE s \cup {z} \in T
  <2>1. CASE s = {}
    BY <2>1
  <2>2. CASE s # {}
    <3>1. PICK a \in s : \A y \in s : a >= y
      BY <1>2, <2>2
    <3>2. PICK b \in s : \A y \in s : b <= y
      BY <1>2, <2>2
    <3>3. \E x \in s \cup {z} : \A y \in s \cup {z} : x >= y
      <4>1. CASE z >= a
        BY <3>1, <4>1
      <4>2. CASE ~(z >= a)
        BY <3>1, <4>2
      <4> QED BY <4>1, <4>2
    <3>4. \E x \in s \cup {z} : \A y \in s \cup {z} : x <= y
      <4>1. CASE z <= b
        BY <3>2, <4>1
      <4>2. CASE ~(z <= b)
        BY <3>2, <4>2
      <4> QED BY <4>1, <4>2
    <3> QED BY <3>3, <3>4
  <2> QED BY <2>1, <2>2
<1>3. S \in T
  <2> HIDE DEF T
  <2>1. \A s \in SUBSET S : s \in T
    BY <1>1, <1>2, GrowingSets
  <2> QED BY <2>1
<1>4. /\ \E x \in S : \A y \in S : x >= y
      /\ \E x \in S : \A y \in S : x <= y
  BY <1>3
<1> QED BY <1>4 DEF Max, Min

(* f names the places of P as they are listed.                                *)
Lists(f, seq, P, Before) ==
  /\ f \in [1..Cardinality(P) -> P]
  /\ \A k, l \in 1..Cardinality(P) : k < l <=> <<f[k], f[l]>> \in Before
  /\ \A i \in P : \E k \in 1..Cardinality(P) : f[k] = i
  /\ \A k, l \in 1..Cardinality(P) : f[k] = f[l] => k = l
  /\ \A k \in 1..Cardinality(P) : Listed(seq, P, Before)[k] = seq[f[k]]

(* Listing in an order. *)
LEMMA ListedFacts ==
  ASSUME NEW S, NEW seq \in Seq(S), NEW P \in SUBSET (DOMAIN seq), NEW B, IsOrder(P, B)
  PROVE  /\ IsFiniteSet(P) /\ Cardinality(P) \in Nat
         /\ Listed(seq, P, B) \in Seq(S) /\ Len(Listed(seq, P, B)) = Cardinality(P)
         /\ \E f : Lists(f, seq, P, B)
<1> DEFINE m == Cardinality(P)
           f == [k \in 1..m |-> TurnOf(P, B, k)]
<1>1. DOMAIN seq = 1..Len(seq) /\ Len(seq) \in Nat
  OBVIOUS
<1>2. IsFiniteSet(P) /\ m \in Nat
  <2>1. IsFiniteSet(1..Len(seq))
    BY <1>1, FS_Interval
  <2> QED BY <1>1, <2>1, FS_Subset, FS_CardinalityType
<1>3. Listed(seq, P, B) = [k \in 1..m |-> seq[TurnOf(P, B, k)]]
  BY DEF Listed, TurnOf, Earlier
<1> HIDE DEF m
<1>4. /\ \A k \in 1..m : TurnOf(P, B, k) \in P
      /\ \A i \in P : LET k == Cardinality(Earlier(P, B, i)) + 1
                      IN  k \in 1..m /\ TurnOf(P, B, k) = i
      /\ \A k, l \in 1..m : k < l <=> <<TurnOf(P, B, k), TurnOf(P, B, l)>> \in B
  BY <1>2, Turns DEF m
<1>5. f \in [1..m -> P] /\ \A k \in 1..m : f[k] = TurnOf(P, B, k)
  BY <1>4
<1>6. \A i \in P : \E k \in 1..m : f[k] = i
  <2> SUFFICES ASSUME NEW i \in P PROVE \E k \in 1..m : f[k] = i
    OBVIOUS
  <2> DEFINE k == Cardinality(Earlier(P, B, i)) + 1
  <2>1. k \in 1..m /\ TurnOf(P, B, k) = i
    BY <1>4
  <2> HIDE DEF k, f
  <2> QED BY <1>5, <2>1
<1> HIDE DEF f
<1>7. \A k, l \in 1..m : k < l <=> <<f[k], f[l]>> \in B
  BY <1>4, <1>5
<1>8. \A k, l \in 1..m : f[k] = f[l] => k = l
  <2> SUFFICES ASSUME NEW k \in 1..m, NEW l \in 1..m, f[k] = f[l] PROVE k = l
    OBVIOUS
  <2>1. ~(k < k) /\ k < l <=> <<f[k], f[k]>> \in B
    BY <1>7
  <2>2. k < k <=> <<f[k], f[k]>> \in B
    BY <1>7
  <2>3. l < k <=> <<f[k], f[k]>> \in B
    BY <1>7
  <2> QED BY <1>2, <2>1, <2>2, <2>3
<1>9. Listed(seq, P, B) \in Seq(S) /\ Len(Listed(seq, P, B)) = m
  <2>1. \A k \in 1..m : seq[TurnOf(P, B, k)] \in S
    BY <1>1, <1>4
  <2>2. Listed(seq, P, B) \in [1..m -> S]
    BY <1>3, <2>1
  <2> QED BY <1>2, <2>2
<1>10. \A k \in 1..m : Listed(seq, P, B)[k] = seq[f[k]]
  BY <1>3, <1>5
<1>11. Lists(f, seq, P, B)
  BY <1>5, <1>6, <1>7, <1>8, <1>10 DEF Lists, m
<1> QED BY <1>2, <1>9, <1>11 DEF m

(* Places in the order of their places. *)
LEMMA PlacesInOrder ==
  ASSUME NEW P \in SUBSET Int
  PROVE  IsOrder(P, {p \in P \X P : p[1] < p[2]})
<1> DEFINE B == {p \in P \X P : p[1] < p[2]}
<1>1. \A i, j \in P : <<i, j>> \in B <=> i < j
  OBVIOUS
<1> HIDE DEF B
<1> QED BY <1>1 DEF IsOrder

(* The places of a list, and what stands at some of them, are finitely many.  *)
LEMMA PlacesFinite ==
  ASSUME NEW S, NEW seq \in Seq(S), NEW P \in SUBSET (DOMAIN seq), NEW f
  PROVE  IsFiniteSet(P) /\ IsFiniteSet({f[i] : i \in P})
<1>1. DOMAIN seq = 1..Len(seq) /\ Len(seq) \in Nat
  OBVIOUS
<1>2. IsFiniteSet(P)
  <2>1. IsFiniteSet(1..Len(seq))
    BY <1>1, FS_Interval
  <2> QED BY <1>1, <2>1, FS_Subset
<1> DEFINE T == {f[i] : i \in P}
           h == [i \in P |-> f[i]]
<1>3. h \in Surjection(P, T)
  BY DEF Surjection
<1> HIDE DEF h, T
<1>4. IsFiniteSet(T)
  BY <1>2, <1>3, FS_Surjection
<1> QED BY <1>2, <1>4 DEF T

(* f climbs through the places of P.                                          *)
Climbs(f, n, P) ==
  /\ n \in Nat /\ f \in [1..n -> P]
  /\ \A k, l \in 1..n : k < l => f[k] < f[l]
  /\ \A i \in P : \E k \in 1..n : f[k] = i

(* There is one way to climb through them. *)
LEMMA OneWayUp ==
  ASSUME NEW S, NEW seq \in Seq(S), NEW P \in SUBSET (DOMAIN seq), NEW n, NEW f, Climbs(f, n, P)
  PROVE  /\ Cardinality(P) = n
         /\ Picked(seq, P) = [k \in 1..n |-> seq[f[k]]]
<1> DEFINE B == {p \in P \X P : p[1] < p[2]}
<1>1. DOMAIN seq = 1..Len(seq) /\ P \in SUBSET Int /\ IsFiniteSet(P)
  <2>1. DOMAIN seq = 1..Len(seq)
    OBVIOUS
  <2>2. IsFiniteSet(P)
    BY PlacesFinite
  <2> QED BY <2>1, <2>2
<1>2. n \in Nat /\ f \in [1..n -> P] /\ \A k \in 1..n : f[k] \in P /\ f[k] \in Int
  BY <1>1 DEF Climbs
<1>3. \A k, l \in 1..n : f[k] < f[l] <=> k < l
  <2> SUFFICES ASSUME NEW k \in 1..n, NEW l \in 1..n PROVE f[k] < f[l] <=> k < l
    OBVIOUS
  <2>1. k < l => f[k] < f[l]
    BY DEF Climbs
  <2>2. l < k => f[l] < f[k]
    BY DEF Climbs
  <2>3. k \in Int /\ l \in Int /\ f[k] \in Int /\ f[l] \in Int
    BY <1>2
  <2> QED BY <2>1, <2>2, <2>3
<1>4. \A k, l \in 1..n : f[k] = f[l] => k = l
  <2> SUFFICES ASSUME NEW k \in 1..n, NEW l \in 1..n, f[k] = f[l] PROVE k = l
    OBVIOUS
  <2>1. ~(k < l) /\ ~(l < k)
    BY <1>2, <1>3
  <2> QED BY <1>2, <2>1
<1>5. ASSUME NEW m \in 0..n PROVE IsFiniteSet({f[l] : l \in 1..m}) /\ Cardinality({f[l] : l \in 1..m}) = m
  <2> DEFINE T == {f[l] : l \in 1..m}
             g == [l \in 1..m |-> f[l]]
  <2>0. \A l \in 1..m : l \in 1..n
    BY <1>2
  <2>1. g \in Surjection(1..m, T)
    BY DEF Surjection
  <2>2. g \in Injection(1..m, T)
    <3>1. \A k, l \in 1..m : g[k] = g[l] => k = l
      BY <1>4, <2>0
    <3> QED BY <3>1 DEF Injection, IsInjective
  <2>3. IsFiniteSet(1..m) /\ Cardinality(1..m) = m
    BY <1>2, FS_Interval
  <2> HIDE DEF T, g
  <2>4. IsFiniteSet(T) /\ Cardinality(T) = m
    BY <2>1, <2>2, <2>3, FS_Surjection
  <2> QED BY <2>4 DEF T
<1>6. Cardinality(P) = n
  <2>1. P = {f[l] : l \in 1..n}
    BY <1>2 DEF Climbs
  <2>2. n \in 0..n
    BY <1>2
  <2> QED BY <1>5, <2>1, <2>2
<1>7. IsOrder(P, B) /\ \A i, j \in P : <<i, j>> \in B <=> i < j
  BY <1>1, PlacesInOrder
<1> HIDE DEF B
<1>8. ASSUME NEW k \in 1..n PROVE TurnOf(P, B, k) = f[k]
  <2>1. Earlier(P, B, f[k]) = {f[l] : l \in 1..(k - 1)}
    <3>1. ASSUME NEW j \in Earlier(P, B, f[k]) PROVE \E l \in 1..(k - 1) : j = f[l]
      <4>1. j \in P /\ j < f[k]
        BY <1>2, <1>7 DEF Earlier
      <4>2. PICK l \in 1..n : f[l] = j
        BY <4>1 DEF Climbs
      <4>3. l < k
        BY <1>3, <4>1, <4>2
      <4> QED BY <1>2, <4>2, <4>3
    <3>2. ASSUME NEW l \in 1..(k - 1) PROVE f[l] \in Earlier(P, B, f[k])
      <4>1. l \in 1..n /\ l < k
        BY <1>2
      <4>2. f[l] < f[k] /\ f[l] \in P /\ f[k] \in P
        BY <1>2, <1>3, <4>1
      <4> QED BY <1>7, <4>2 DEF Earlier
    <3> QED BY <3>1, <3>2
  <2>2. Cardinality(Earlier(P, B, f[k])) = k - 1
    <3>1. k - 1 \in 0..n
      BY <1>2
    <3> QED BY <1>5, <2>1, <3>1
  <2>3. \A i \in P : TurnOf(P, B, Cardinality(Earlier(P, B, i)) + 1) = i
    BY <1>1, <1>7, Turns
  <2>4. (k - 1) + 1 = k /\ f[k] \in P
    BY <1>2
  <2> QED BY <2>2, <2>3, <2>4
<1>9. Picked(seq, P) = [k \in 1..n |-> seq[TurnOf(P, B, k)]]
  <2>1. Picked(seq, P) = [k \in 1..Cardinality(P) |-> seq[TurnOf(P, B, k)]]
    BY DEF Picked, Listed, TurnOf, Earlier, B
  <2> QED BY <1>6, <2>1
<1> QED BY <1>6, <1>8, <1>9

(* What is picked: its places, its elements. *)
LEMMA PickedIs ==
  ASSUME NEW S, NEW seq \in Seq(S), NEW P \in SUBSET (DOMAIN seq)
  PROVE  LET part == Picked(seq, P)
         IN  /\ part \in Seq(S) /\ DOMAIN part = 1..Len(part) /\ Len(part) = Cardinality(P) /\ Len(part) \in Nat
             /\ \A x : x \in Range(part) <=> \E i \in P : seq[i] = x
             /\ \E f : Climbs(f, Len(part), P) /\ \A k \in DOMAIN part : part[k] = seq[f[k]] /\ f[k] \in P
<1> DEFINE part == Picked(seq, P)
           n == Cardinality(P)
<1>1. n \in Nat /\ part \in Seq(S) /\ Len(part) = n /\ \E f : Picks(f, seq, P)
  BY PickedFacts
<1>2. DOMAIN part = 1..n
  BY <1>1
<1>3. PICK f : Picks(f, seq, P)
  BY <1>1
<1>4. Climbs(f, n, P) /\ \A k \in 1..n : part[k] = seq[f[k]] /\ f[k] \in P
  BY <1>1, <1>3 DEF Picks, Climbs
<1> HIDE DEF part, n
<1>5. \A x : x \in Range(part) <=> \E i \in P : seq[i] = x
  BY <1>2, <1>4 DEF Range, Climbs
<1> QED BY <1>1, <1>2, <1>4, <1>5 DEF part, n

(* Picking from what was picked is picking once. *)
Sifted(Q, seq, P, T) == Q = {i \in P : seq[i] \in T}
LEMMA PickedTwice ==
  ASSUME NEW S, NEW seq \in Seq(S), NEW P \in SUBSET (DOMAIN seq), NEW T,
         NEW Q, Sifted(Q, Picked(seq, P), DOMAIN Picked(seq, P), T), NEW R, Sifted(R, seq, P, T)
  PROVE  Picked(Picked(seq, P), Q) = Picked(seq, R)
<1> DEFINE part == Picked(seq, P)
           again == Picked(part, Q)
<1>0. Q = {k \in DOMAIN part : part[k] \in T} /\ R = {i \in P : seq[i] \in T}
  BY DEF Sifted
<1>1. /\ part \in Seq(S) /\ DOMAIN part = 1..Len(part) /\ Len(part) \in Nat
      /\ \E f : Climbs(f, Len(part), P) /\ \A k \in DOMAIN part : part[k] = seq[f[k]] /\ f[k] \in P
  BY PickedIs
<1>2. PICK f : Climbs(f, Len(part), P) /\ \A k \in DOMAIN part : part[k] = seq[f[k]] /\ f[k] \in P
  BY <1>1
<1>3. Q \in SUBSET (DOMAIN part) /\ R \in SUBSET (DOMAIN seq)
  BY <1>0
<1> HIDE DEF part
<1>4. /\ again \in Seq(S) /\ DOMAIN again = 1..Len(again) /\ Len(again) \in Nat
      /\ \E g : Climbs(g, Len(again), Q) /\ \A k \in DOMAIN again : again[k] = part[g[k]] /\ g[k] \in Q
  BY <1>1, <1>3, PickedIs
<1>5. PICK g : Climbs(g, Len(again), Q) /\ \A k \in DOMAIN again : again[k] = part[g[k]] /\ g[k] \in Q
  BY <1>4
<1> DEFINE n == Len(again)
           h == [k \in 1..n |-> f[g[k]]]
<1> HIDE DEF again
<1>6. \A k \in 1..n : g[k] \in Q /\ g[k] \in DOMAIN part /\ again[k] = seq[f[g[k]]] /\ f[g[k]] \in R
  BY <1>0, <1>2, <1>4, <1>5
<1>7. \A k, l \in 1..n : k < l => f[g[k]] < f[g[l]]
  <2> SUFFICES ASSUME NEW k \in 1..n, NEW l \in 1..n, k < l PROVE f[g[k]] < f[g[l]]
    OBVIOUS
  <2>1. g[k] < g[l] /\ g[k] \in DOMAIN part /\ g[l] \in DOMAIN part
    BY <1>5, <1>6 DEF Climbs
  <2> QED BY <1>1, <1>2, <2>1 DEF Climbs
<1>8. ASSUME NEW i \in R PROVE \E k \in 1..n : f[g[k]] = i
  <2>1. PICK k \in DOMAIN part : f[k] = i
    BY <1>0, <1>1, <1>2 DEF Climbs
  <2>2. k \in Q
    BY <1>0, <1>2, <2>1
  <2>3. PICK l \in 1..n : g[l] = k
    BY <1>5, <2>2 DEF Climbs
  <2> QED BY <2>1, <2>3
<1>9. Climbs(h, n, R)
  <2>1. \A k \in 1..n : h[k] = f[g[k]]
    OBVIOUS
  <2>2. h \in [1..n -> R]
    BY <1>6
  <2>3. \A k, l \in 1..n : k < l => h[k] < h[l]
    BY <1>7, <2>1
  <2>4. \A i \in R : \E k \in 1..n : h[k] = i
    BY <1>8, <2>1
  <2> HIDE DEF h
  <2> QED BY <1>4, <2>2, <2>3, <2>4 DEF Climbs
<1>10. Picked(seq, R) = [k \in 1..n |-> seq[h[k]]]
  <2> HIDE DEF h, n
  <2> QED BY <1>3, <1>9, OneWayUp
<1>11. again = [k \in 1..n |-> again[k]]
  BY <1>4
<1>12. again = Picked(seq, R)
  <2>1. \A k \in 1..n : again[k] = seq[h[k]]
    BY <1>6
  <2> HIDE DEF h, n
  <2> QED BY <1>10, <1>11, <2>1
<1> QED BY <1>12 DEF again, part

(* The first few of an order. *)
LEMMA FirstOfOrder ==
  ASSUME NEW S, IsFiniteSet(S), NEW B, IsOrder(S, B), NEW m \in Nat
  PROVE  LET E == {i \in S : Cardinality(Earlier(S, B, i)) < m}
         IN  /\ Cardinality(E) = Min({Cardinality(S), m})
             /\ \A i \in E, j \in S \ E : <<i, j>> \in B
<1> DEFINE E == {i \in S : Cardinality(Earlier(S, B, i)) < m}
           n == Cardinality(S)
           turn(k) == TurnOf(S, B, k)
           rank(i) == Cardinality(Earlier(S, B, i))
           least == Min({n, m})
<1>1. n \in Nat
  BY FS_CardinalityType
<1>2. least \in Nat /\ least <= n /\ least <= m /\ (least = n \/ least = m)
  <2>1. {n, m} \in SUBSET Int /\ {n, m} # {} /\ IsFiniteSet({n, m})
    <3>1. IsFiniteSet({n}) /\ {n} \cup {m} = {n, m}
      BY FS_Singleton
    <3> QED BY <1>1, <3>1, FS_AddElement
  <2>2. Min({n, m}) \in {n, m} /\ \A x \in {n, m} : Min({n, m}) <= x
    <3> HIDE DEF n
    <3> QED BY <2>1, MaxMinFacts
  <2> QED BY <1>1, <2>2
<1>3. /\ \A k \in 1..n : turn(k) \in S /\ rank(turn(k)) = k - 1
      /\ \A i \in S : rank(i) + 1 \in 1..n /\ turn(rank(i) + 1) = i
      /\ \A k, l \in 1..n : k < l <=> <<turn(k), turn(l)>> \in B
  <2>1. /\ \A k \in 1..n : turn(k) \in S /\ rank(turn(k)) = k - 1
        /\ \A i \in S : LET k == rank(i) + 1 IN k \in 1..n /\ turn(k) = i
        /\ \A k, l \in 1..n : k < l <=> <<turn(k), turn(l)>> \in B
    BY Turns
  <2> HIDE DEF turn, rank, n
  <2> QED BY <2>1
<1>4. \A i \in S : rank(i) \in Nat
  <2> SUFFICES ASSUME NEW i \in S PROVE rank(i) \in Nat
    OBVIOUS
  <2>1. Earlier(S, B, i) \in SUBSET S
    BY DEF Earlier
  <2> QED BY <2>1, FS_Subset, FS_CardinalityType
<1>5. \A i \in S : i \in E <=> rank(i) < m
  OBVIOUS
<1>6. E \in SUBSET S
  OBVIOUS
<1> HIDE DEF E, n, turn, rank, least
<1> DEFINE h == [k \in 1..least |-> turn(k)]
<1>7. \A k \in 1..least : k \in 1..n /\ turn(k) \in E
  BY <1>1, <1>2, <1>3, <1>5
<1>8. h \in Surjection(1..least, E)
  <2>1. h \in [1..least -> E]
    BY <1>7
  <2>2. ASSUME NEW i \in E PROVE \E k \in 1..least : h[k] = i
    <3>1. rank(i) + 1 \in 1..least /\ turn(rank(i) + 1) = i
      BY <1>1, <1>2, <1>3, <1>4, <1>5, <1>6
    <3> QED BY <3>1
  <2> HIDE DEF h
  <2> QED BY <2>1, <2>2 DEF Surjection
<1>9. h \in Injection(1..least, E)
  <2>1. \A k, l \in 1..least : h[k] = h[l] => k = l
    <3> SUFFICES ASSUME NEW k \in 1..least, NEW l \in 1..least, turn(k) = turn(l) PROVE k = l
      OBVIOUS
    <3>1. rank(turn(k)) = k - 1 /\ rank(turn(l)) = l - 1
      BY <1>3, <1>7
    <3>2. k - 1 = l - 1
      BY <3>1
    <3> QED BY <1>2, <3>2
  <2>2. h \in [1..least -> E]
    BY <1>7
  <2> HIDE DEF h
  <2> QED BY <2>1, <2>2 DEF Injection, IsInjective
<1>10. Cardinality(E) = least
  <2>1. IsFiniteSet(1..least) /\ Cardinality(1..least) = least
    BY <1>2, FS_Interval
  <2> HIDE DEF h
  <2> QED BY <1>8, <1>9, <2>1, FS_Surjection
<1>11. ASSUME NEW i \in E, NEW j \in S \ E PROVE <<i, j>> \in B
  <2>1. rank(i) + 1 < rank(j) + 1
    BY <1>4, <1>5, <1>6
  <2>2. /\ rank(i) + 1 \in 1..n /\ turn(rank(i) + 1) = i
        /\ rank(j) + 1 \in 1..n /\ turn(rank(j) + 1) = j
    BY <1>3, <1>6
  <2>3. <<turn(rank(i) + 1), turn(rank(j) + 1)>> \in B
    BY <1>3, <2>1, <2>2
  <2> QED BY <2>2, <2>3
<1> QED BY <1>10, <1>11 DEF E, n, least, rank

(* The later part of a climb. *)
LEMMA ClimbsOn ==
  ASSUME NEW P \in SUBSET Int, NEW n, NEW f, Climbs(f, n, P), NEW m \in 0..n, NEW Q \in SUBSET P,
         \A k \in 1..n : f[k] \in Q <=> k > m
  PROVE  Climbs([k \in 1..(n - m) |-> f[m + k]], n - m, Q)
<1> DEFINE h == [k \in 1..(n - m) |-> f[m + k]]
<1>1. n \in Nat /\ m \in Nat /\ m <= n /\ n - m \in Nat
  BY DEF Climbs
<1>2. \A k \in 1..(n - m) : m + k \in 1..n /\ m + k > m
  BY <1>1
<1>3. h \in [1..(n - m) -> Q]
  BY <1>2
<1>4. \A k, l \in 1..(n - m) : k < l => h[k] < h[l]
  <2> SUFFICES ASSUME NEW k \in 1..(n - m), NEW l \in 1..(n - m), k < l PROVE f[m + k] < f[m + l]
    OBVIOUS
  <2>1. m + k \in 1..n /\ m + l \in 1..n /\ m + k < m + l
    BY <1>1, <1>2
  <2> QED BY <2>1 DEF Climbs
<1>5. ASSUME NEW i \in Q PROVE \E k \in 1..(n - m) : h[k] = i
  <2>1. PICK l \in 1..n : f[l] = i
    BY DEF Climbs
  <2>2. l > m
    BY <2>1
  <2>3. l - m \in 1..(n - m) /\ m + (l - m) = l
    BY <1>1, <2>2
  <2> QED BY <2>1, <2>3
<1> HIDE DEF h
<1> QED BY <1>1, <1>3, <1>4, <1>5 DEF Climbs, h

(* Of two sums over the same places, the one that is nowhere less.            *)
LEMMA SumsApart ==
  ASSUME NEW R, NEW w, Weights(w, R), NEW v, Weights(v, R), \A x \in R : w[x] <= v[x]
  PROVE  SumFunctionOnSet(w, R) < SumFunctionOnSet(v, R) <=> \E x \in R : w[x] < v[x]
<1> DEFINE Less(s) == SumFunctionOnSet(w, s) < SumFunctionOnSet(v, s)
           Some(s) == \E x \in s : w[x] < v[x]
           T == {s \in SUBSET R : /\ SumFunctionOnSet(w, s) <= SumFunctionOnSet(v, s)
                                  /\ Less(s) <=> Some(s)}
<1>1. {} \in T
  <2>1. SumFunctionOnSet(w, {}) = 0 /\ SumFunctionOnSet(v, {}) = 0
    BY SumGrows
  <2> QED BY <2>1
<1>2. ASSUME NEW s \in SUBSET R, NEW y \in R, s \in T, y \notin s PROVE s \cup {y} \in T
  <2> DEFINE a == SumFunctionOnSet(w, s)
             b == SumFunctionOnSet(v, s)
             c == SumFunctionOnSet(w, s \cup {y})
             d == SumFunctionOnSet(v, s \cup {y})
  <2>1. a <= b /\ (a < b <=> Some(s))
    BY <1>2
  <2>2. c = w[y] + a /\ d = v[y] + b /\ a \in Nat /\ b \in Nat
    BY <1>2, SumGrows
  <2>3. w[y] \in Nat /\ v[y] \in Nat /\ w[y] <= v[y]
    BY DEF Weights
  <2>4. Some(s \cup {y}) <=> Some(s) \/ w[y] < v[y]
    OBVIOUS
  <2> HIDE DEF a, b, c, d, Some
  <2>5. c <= d /\ (c < d <=> Some(s \cup {y}))
    BY <2>1, <2>2, <2>3, <2>4
  <2> QED BY <2>5 DEF c, d
<1>3. R \in T
  <2> HIDE DEF T
  <2>1. \A s \in SUBSET R : s \in T
    BY <1>1, <1>2, GrowingSets DEF Weights
  <2> QED BY <2>1
<1> QED BY <1>3

(* A quotient of naturals is one. *)
LEMMA NaturalQuotient == ASSUME NEW b \in Nat \ {0}, NEW a \in Nat PROVE a \div b \in Nat
<1>1. a \div b \in Int
  BY QuotientIs
<1>2. b * 0 <= a
  OBVIOUS
<1>3. 0 <= a \div b
  BY <1>2, QuotientFrom
<1> QED BY <1>1, <1>3

(* Something of an order is before everything else. *)
LEMMA FirstIs ==
  ASSUME NEW S, IsFiniteSet(S), S # {}, NEW B, IsOrder(S, B)
  PROVE  \E r \in S : \A q \in S \ {r} : <<r, q>> \in B
<1> DEFINE n == Cardinality(S)
           turn(k) == TurnOf(S, B, k)
           rank(i) == Cardinality(Earlier(S, B, i))
<1>1. n \in Nat /\ n # 0
  BY FS_CardinalityType, FS_EmptySet
<1>2. /\ \A k \in 1..n : turn(k) \in S
      /\ \A i \in S : rank(i) + 1 \in 1..n /\ turn(rank(i) + 1) = i
      /\ \A k, l \in 1..n : k < l <=> <<turn(k), turn(l)>> \in B
  <2>1. /\ \A k \in 1..n : turn(k) \in S /\ rank(turn(k)) = k - 1
        /\ \A i \in S : LET k == rank(i) + 1 IN k \in 1..n /\ turn(k) = i
        /\ \A k, l \in 1..n : k < l <=> <<turn(k), turn(l)>> \in B
    BY Turns
  <2> HIDE DEF turn, rank, n
  <2> QED BY <2>1
<1> HIDE DEF turn, rank, n
<1>3. 1 \in 1..n
  BY <1>1
<1>4. ASSUME NEW q \in S \ {turn(1)} PROVE <<turn(1), q>> \in B
  <2> DEFINE k == rank(q) + 1
  <2>1. k \in 1..n /\ turn(k) = q
    BY <1>2
  <2> HIDE DEF k
  <2>2. 1 < k
    BY <1>1, <2>1
  <2> QED BY <1>2, <1>3, <2>1, <2>2
<1> QED BY <1>2, <1>3, <1>4
=============================================================================
