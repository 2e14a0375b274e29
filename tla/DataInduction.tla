---------------------------- MODULE DataInduction ----------------------------
(* Induction over the naturals and definition by recursion, stated of sets    *)
(* and functions, so that the provers can apply them: the library states them *)
(* of operators. They rest on one of its facts, that no set of finite sets    *)
(* descends for ever.                                                         *)
EXTENDS Chunks, FiniteSetTheorems, SequenceTheorems,
        WellFoundedInduction, TLAPS

(* A set of naturals that is not empty has a least member.                    *)
THEOREM LeastNatural ==
  ASSUME NEW S \in SUBSET Nat, S # {}
  PROVE  \E n \in S : \A m \in S : n <= m
<1> DEFINE Below == {0 .. n : n \in S}
<1>1. IsWellFoundedOn(StrictSubsetOrdering(Nat), FiniteSubsetsOf(Nat))
  BY FS_StrictSubsetOrderingWellFounded
<1>2. \A n \in S : 0 .. n \in FiniteSubsetsOf(Nat)
  <2>1. ASSUME NEW n \in S PROVE IsFiniteSet(0 .. n)
    BY FS_Interval
  <2> QED BY <2>1 DEF FiniteSubsetsOf
<1>3. Below \subseteq FiniteSubsetsOf(Nat) /\ Below # {}
  BY <1>2
<1>4. \E B \in Below : \A C \in Below : <<C, B>> \notin StrictSubsetOrdering(Nat)
  <2> HIDE DEF Below
  <2> QED BY <1>1, <1>3, WFMin
<1>5. PICK n \in S : \A m \in S : <<0 .. m, 0 .. n>> \notin StrictSubsetOrdering(Nat)
  BY <1>4
<1>6. ASSUME NEW m \in S, m < n
      PROVE  FALSE
  <2>1. 0 .. m \subseteq 0 .. n /\ n \in 0 .. n /\ n \notin 0 .. m
    BY <1>6
  <2>2. <<0 .. m, 0 .. n>> \in StrictSubsetOrdering(Nat)
    BY <2>1 DEF StrictSubsetOrdering
  <2> QED BY <2>2, <1>5
<1> QED BY <1>6

(* Induction: a set with 0 and every successor of its members is Nat.          *)
THEOREM InductiveSet ==
  ASSUME NEW S \in SUBSET Nat, 0 \in S, \A n \in S : n + 1 \in S
  PROVE  S = Nat
<1> SUFFICES ASSUME Nat \ S # {} PROVE FALSE
  OBVIOUS
<1>1. PICK n \in Nat \ S : \A m \in Nat \ S : n <= m
  BY LeastNatural
<1>2. n # 0 /\ n - 1 \in Nat /\ n - 1 \in S
  BY <1>1
<1> QED BY <1>2

(* Course-of-values induction: a set with every number up to N below which it *)
(* has all, has all of them.                                                  *)
THEOREM CourseOfValues ==
  ASSUME NEW N \in Nat, NEW S, \A i \in 1 .. N : 1 .. i - 1 \subseteq S => i \in S
  PROVE  1 .. N \subseteq S
<1> DEFINE T == (1 .. N) \ S
<1> SUFFICES ASSUME T # {} PROVE FALSE
  OBVIOUS
<1>1. T \in SUBSET Nat
  OBVIOUS
<1>2. PICK n \in T : \A m \in T : n <= m
  <2> HIDE DEF T
  <2> QED BY <1>1, LeastNatural
<1>3. n \in 1 .. N /\ \A m \in 1 .. n - 1 : m \in 1 .. N /\ ~(n <= m)
  OBVIOUS
<1> QED BY <1>2, <1>3

(* f solves the recurrence of step from v, up to N.                           *)
Solves(f, v, N, step) == f[0] = v /\ \A n \in 1 .. N : f[n] = step[n][f[n - 1]]

(* A recurrence within a set has a solution.                                  *)
THEOREM RecurrenceHasSolution ==
  ASSUME NEW V, NEW v \in V, NEW N \in Nat, NEW step \in [1 .. N -> [V -> V]]
  PROVE  \E f \in [0 .. N -> V] : Solves(f, v, N, step)
<1> USE DEF Solves
<1> DEFINE Upto(f, n) == Solves(f, v, n, step)
           S == {n \in Nat : n <= N => \E f \in [0 .. n -> V] : Upto(f, n)}
<1>1. 0 \in S
  <2>1. [i \in 0 .. 0 |-> v] \in [0 .. 0 -> V] /\ Upto([i \in 0 .. 0 |-> v], 0)
    OBVIOUS
  <2> QED BY <2>1
<1>2. ASSUME NEW n \in S, n + 1 <= N
      PROVE  \E f \in [0 .. n + 1 -> V] : Upto(f, n + 1)
  <2>1. PICK f \in [0 .. n -> V] : Upto(f, n)
    BY <1>2
  <2> DEFINE g == [i \in 0 .. n + 1 |-> IF i = n + 1 THEN step[n + 1][f[n]] ELSE f[i]]
  <2>2. step[n + 1] \in [V -> V] /\ n \in 0 .. n
    BY <1>2
  <2>3. step[n + 1][f[n]] \in V
    BY <2>1, <2>2
  <2>4. g \in [0 .. n + 1 -> V]
    BY <2>1, <2>3
  <2>5. g[0] = v
    BY <2>1
  <2>6. ASSUME NEW i \in 1 .. n + 1
        PROVE  g[i] = step[i][g[i - 1]]
    <3>1. CASE i = n + 1
      BY <3>1
    <3>2. CASE i \in 1 .. n
      BY <3>2, <2>1
    <3> QED BY <3>1, <3>2
  <2> QED BY <2>4, <2>5, <2>6
<1>3. S \in SUBSET Nat
  OBVIOUS
<1>4. ASSUME NEW n \in S
       PROVE  n + 1 \in S
  <2>1. n + 1 <= N => \E f \in [0 .. n + 1 -> V] : Upto(f, n + 1)
    BY <1>2
  <2> HIDE DEF Upto
  <2> QED BY <2>1
<1>5. S = Nat
  <2> HIDE DEF S
  <2> QED BY <1>1, <1>3, <1>4, InductiveSet
<1>6. PICK f \in [0 .. N -> V] : Upto(f, N)
  BY <1>5
<1> QED BY <1>6

(* f is given at each i by what it is below i.                                *)
Computes(f, N, step) == \A i \in 1 .. N : f[i] = step[i][f]

(* A function that is given at each number by its values below it exists: the *)
(* form of a recursion over a tree whose nodes are numbered upwards.          *)
THEOREM RecursionHasSolution ==
  ASSUME NEW V, NEW v \in V, NEW N \in Nat, NEW step \in [1 .. N -> [[1 .. N -> V] -> V]],
         \A i \in 1 .. N : \A f, g \in [1 .. N -> V] :
           (\A j \in 1 .. i - 1 : f[j] = g[j]) => step[i][f] = step[i][g]
  PROVE  \E f \in [1 .. N -> V] : Computes(f, N, step)
<1> DEFINE Upto(f, n) == Computes(f, n, step)
           S == {n \in Nat : n <= N => \E f \in [1 .. N -> V] : Upto(f, n)}
<1>1. 0 \in S
  <2>1. [i \in 1 .. N |-> v] \in [1 .. N -> V] /\ Upto([i \in 1 .. N |-> v], 0)
    BY DEF Computes
  <2> QED BY <2>1
<1>2. ASSUME NEW n \in S, n + 1 <= N
      PROVE  \E f \in [1 .. N -> V] : Upto(f, n + 1)
  <2>1. PICK f \in [1 .. N -> V] : Upto(f, n)
    BY <1>2
  <2> DEFINE g == [f EXCEPT ![n + 1] = step[n + 1][f]]
  <2>2. n \in Nat /\ n + 1 \in 1 .. N
    BY <1>2
  <2>3. g \in [1 .. N -> V]
    BY <2>2
  <2>4. ASSUME NEW i \in 1 .. n + 1
        PROVE  g[i] = step[i][g]
    <3>1. i \in 1 .. N /\ \A j \in 1 .. i - 1 : f[j] = g[j]
      BY <2>2
    <3>2. step[i][f] = step[i][g]
      <4> HIDE DEF g
      <4> QED BY <3>1, <2>3
    <3>3. CASE i = n + 1
      BY <3>2, <3>3, <2>2
    <3>4. CASE i \in 1 .. n
      BY <3>2, <3>4, <2>1, <2>2 DEF Computes
    <3> QED BY <3>3, <3>4, <2>2
  <2> HIDE DEF g
  <2> QED BY <2>3, <2>4 DEF Computes
<1>3. ASSUME NEW n \in S
      PROVE  n + 1 \in S
  <2>1. n + 1 <= N => \E f \in [1 .. N -> V] : Upto(f, n + 1)
    BY <1>2
  <2> HIDE DEF Upto
  <2> QED BY <2>1
<1>4. S = Nat
  <2>1. S \in SUBSET Nat
    OBVIOUS
  <2> HIDE DEF S
  <2> QED BY <2>1, <1>1, <1>3, InductiveSet
<1>5. PICK f \in [1 .. N -> V] : Upto(f, N)
  <2>1. N \in S
    <3> HIDE DEF S
    <3> QED BY <1>4
  <2> HIDE DEF Upto
  <2> QED BY <2>1
<1> QED BY <1>5

(* f[n] is the concatenation of the first n sequences, for n up to N.         *)
Concatenates(f, N, parts) == f[0] = << >> /\ \A n \in 1 .. N : f[n] = f[n - 1] \o parts[n]

(* Sequences can be concatenated, one after the other.                        *)
THEOREM ConcatenationExists ==
  ASSUME NEW T, NEW N \in Nat, NEW parts \in [1 .. N -> Seq(T)]
  PROVE  \E f \in [0 .. N -> Seq(T)] : Concatenates(f, N, parts)
<1> DEFINE V == Seq(T)
           step == [n \in 1 .. N |-> [q \in V |-> q \o parts[n]]]
<1>1. ASSUME NEW n \in 1 .. N, NEW q \in V
      PROVE  q \o parts[n] \in V
  <2>1. parts[n] \in Seq(T)
    OBVIOUS
  <2> QED BY <2>1
<1>2. step \in [1 .. N -> [V -> V]] /\ << >> \in V
  BY <1>1
<1>3. PICK f \in [0 .. N -> V] : Solves(f, << >>, N, step)
  <2> HIDE DEF V, step
  <2> QED BY <1>2, RecurrenceHasSolution
<1>4. ASSUME NEW n \in 1 .. N
      PROVE  step[n][f[n - 1]] = f[n - 1] \o parts[n]
  <2>1. n - 1 \in 0 .. N
    OBVIOUS
  <2>2. f[n - 1] \in V
    <3> HIDE DEF V
    <3> QED BY <2>1
  <2>3. step[n] = [q \in V |-> q \o parts[n]]
    OBVIOUS
  <2> HIDE DEF V, step
  <2> QED BY <2>2, <2>3
<1> HIDE DEF step
<1> QED BY <1>3, <1>4 DEF Solves, Concatenates

(* What they are concatenated to is a sequence of the same kind.              *)
THEOREM ConcatenationType ==
  ASSUME NEW T, NEW N \in Nat, NEW parts \in [1 .. N -> Seq(T)], NEW f, Concatenates(f, N, parts)
  PROVE  \A n \in 0 .. N : f[n] \in Seq(T)
<1> USE DEF Concatenates
<1> DEFINE S == {n \in Nat : n <= N => f[n] \in Seq(T)}
<1>1. 0 \in S
  <2>1. << >> \in Seq(T)
    OBVIOUS
  <2> QED BY <2>1
<1>2. ASSUME NEW n \in S
      PROVE  n + 1 \in S
  <2>1. CASE n + 1 <= N
    <3> HIDE DEF S
    <3>1. n \in Nat /\ n + 1 \in 1 .. N /\ (n + 1) - 1 = n /\ f[n] \in Seq(T)
      BY <2>1 DEF S
    <3>2. f[n + 1] = f[n] \o parts[n + 1]
      BY <3>1
    <3>3. f[n + 1] \in Seq(T)
      <4>1. parts[n + 1] \in Seq(T)
        BY <3>1
      <4>2. \A p, q \in Seq(T) : p \o q \in Seq(T)
        OBVIOUS
      <4> QED BY ONLY <3>1, <3>2, <4>1, <4>2
    <3> QED BY <3>1, <3>3 DEF S
  <2> QED BY <2>1
<1>3. S = Nat
  <2>1. S \in SUBSET Nat
    OBVIOUS
  <2> HIDE DEF S
  <2> QED BY <2>1, <1>1, <1>2, InductiveSet
<1> SUFFICES ASSUME NEW n \in 0 .. N PROVE f[n] \in Seq(T)
  OBVIOUS
<1>4. n \in S
  <2> HIDE DEF S
  <2> QED BY <1>3
<1> QED BY <1>4

(* f[n] is the sum of the first n weights, for n up to N.                     *)
Sums(f, N, weights) == f[0] = 0 /\ \A n \in 1 .. N : f[n] = f[n - 1] + weights[n]

(* Natural weights can be summed, one after the other.                        *)
THEOREM SumsExist ==
  ASSUME NEW N \in Nat, NEW weights \in [1 .. N -> Nat]
  PROVE  \E f \in [0 .. N -> Nat] : Sums(f, N, weights)
<1> DEFINE step == [n \in 1 .. N |-> [v \in Nat |-> v + weights[n]]]
           zero == 0
<1>1. step \in [1 .. N -> [Nat -> Nat]] /\ zero \in Nat
  OBVIOUS
<1>2. PICK f \in [0 .. N -> Nat] : Solves(f, zero, N, step)
  <2> HIDE DEF step, zero
  <2> QED BY <1>1, RecurrenceHasSolution
<1>3. ASSUME NEW n \in 1 .. N
      PROVE  step[n][f[n - 1]] = f[n - 1] + weights[n]
  <2>1. f[n - 1] \in Nat
    OBVIOUS
  <2> QED BY <2>1
<1> HIDE DEF step
<1> QED BY <1>2, <1>3 DEF Solves, Sums

(* What they are summed to is a natural.                                      *)
THEOREM SumsType ==
  ASSUME NEW N \in Nat, NEW weights \in [1 .. N -> Nat], NEW f, Sums(f, N, weights)
  PROVE  \A n \in 0 .. N : f[n] \in Nat
<1> USE DEF Sums
<1> DEFINE S == {n \in Nat : n <= N => f[n] \in Nat}
<1>1. 0 \in S
  OBVIOUS
<1>2. ASSUME NEW n \in S
      PROVE  n + 1 \in S
  <2>1. CASE n + 1 <= N
    <3> HIDE DEF S
    <3>1. n \in Nat /\ n + 1 \in 1 .. N /\ (n + 1) - 1 = n /\ f[n] \in Nat
      BY <2>1 DEF S
    <3>2. f[n + 1] = f[n] + weights[n + 1] /\ weights[n + 1] \in Nat
      BY <3>1
    <3> QED BY <3>1, <3>2 DEF S
  <2> QED BY <2>1
<1>3. S = Nat
  <2>1. S \in SUBSET Nat
    OBVIOUS
  <2> HIDE DEF S
  <2> QED BY <2>1, <1>1, <1>2, InductiveSet
<1> SUFFICES ASSUME NEW n \in 0 .. N PROVE f[n] \in Nat
  OBVIOUS
<1>4. n \in S
  <2> HIDE DEF S
  <2> QED BY <1>3
<1> QED BY <1>4

(* Weights, the first m of which are left out of others.                      *)
Shifted(M, long, N, short, m) ==
  /\ M \in Nat /\ N \in Nat /\ m \in Nat /\ N + m <= M
  /\ long \in [1 .. M -> Nat] /\ short \in [1 .. N -> Nat]
  /\ \A n \in 1 .. N : short[n] = long[n + m]

(* Their sums differ by the sum of those m.                                   *)
THEOREM SumsShift ==
  ASSUME NEW M, NEW long, NEW N, NEW short, NEW m, Shifted(M, long, N, short, m),
         NEW f, Sums(f, M, long), NEW g, Sums(g, N, short)
  PROVE  \A n \in 0 .. N : g[n] = f[n + m] - f[m]
<1> USE DEF Shifted
<1> DEFINE S == {n \in Nat : n <= N => g[n] = f[n + m] - f[m]}
<1>0. (\A n \in 0 .. M : f[n] \in Nat) /\ \A n \in 0 .. N : g[n] \in Nat
  BY SumsType
<1>1. 0 \in S
  <2>1. f[m] \in Nat /\ g[0] = 0
    BY <1>0 DEF Sums
  <2> QED BY <2>1
<1>2. ASSUME NEW n \in S
      PROVE  n + 1 \in S
  <2>1. CASE n + 1 <= N
    <3> HIDE DEF S
    <3>1. n \in Nat /\ n + 1 \in 1 .. N /\ (n + 1) - 1 = n /\ g[n] = f[n + m] - f[m]
      BY <2>1 DEF S
    <3>2. (n + 1) + m \in 1 .. M /\ ((n + 1) + m) - 1 = n + m
      BY <3>1
    <3>3. g[n + 1] = g[n] + short[n + 1]
      BY <3>1 DEF Sums
    <3>4. f[(n + 1) + m] = f[n + m] + long[(n + 1) + m]
      BY <3>2 DEF Sums
    <3>5. short[n + 1] = long[(n + 1) + m] /\ long[(n + 1) + m] \in Nat
      BY <3>1, <3>2
    <3>6. f[n + m] \in Nat /\ f[m] \in Nat
      BY <1>0, <3>1, <3>2
    <3>7. g[n + 1] = f[(n + 1) + m] - f[m]
      BY ONLY <3>1, <3>3, <3>4, <3>5, <3>6
    <3> QED BY <3>1, <3>7 DEF S
  <2> QED BY <2>1
<1>3. S = Nat
  <2>1. S \in SUBSET Nat
    OBVIOUS
  <2> HIDE DEF S
  <2> QED BY <2>1, <1>1, <1>2, InductiveSet
<1> SUFFICES ASSUME NEW n \in 0 .. N PROVE g[n] = f[n + m] - f[m]
  OBVIOUS
<1>4. n \in S
  <2> HIDE DEF S
  <2> QED BY <1>3
<1> QED BY <1>4

-----------------------------------------------------------------------------
(* The sequences of n members, the i-th one of C[i], and how many there are.   *)
Box(C, n) == {r \in [1 .. n -> UNION {C[i] : i \in 1 .. n}] : \A i \in 1 .. n : r[i] \in C[i]}

(* f[n] is the product of the first n weights, for n up to N.                  *)
Products(f, N, weights) == f[0] = 1 /\ \A n \in 1 .. N : f[n] = f[n - 1] * weights[n]

(* The partial products of a sequence of numbers exist.                       *)
THEOREM ProductsExist ==
  ASSUME NEW N \in Nat, NEW weights \in [1 .. N -> Nat]
  PROVE  \E f \in [0 .. N -> Nat] : Products(f, N, weights)
<1> DEFINE step == [n \in 1 .. N |-> [v \in Nat |-> v * weights[n]]]
           one == 1
<1>1. step \in [1 .. N -> [Nat -> Nat]] /\ one \in Nat
  OBVIOUS
<1>2. PICK f \in [0 .. N -> Nat] : Solves(f, one, N, step)
  <2> HIDE DEF step, one
  <2> QED BY <1>1, RecurrenceHasSolution
<1>3. ASSUME NEW n \in 1 .. N
      PROVE  step[n][f[n - 1]] = f[n - 1] * weights[n]
  <2>1. f[n - 1] \in Nat
    OBVIOUS
  <2> QED BY <2>1
<1> HIDE DEF step
<1> QED BY <1>2, <1>3 DEF Solves, Products

(* A box of one dimension more is the pairs of a point of the box and a       *)
(* choice of that dimension.                                                  *)
THEOREM BoxGrows ==
  ASSUME NEW n \in Nat, NEW C
  PROVE  ExistsBijection(Box(C, n) \X C[n + 1], Box(C, n + 1))
<1> DEFINE S == Box(C, n) \X C[n + 1]
           T == Box(C, n + 1)
           longer(x) == [i \in 1 .. n + 1 |-> IF i = n + 1 THEN x[2] ELSE x[1][i]]
           F == [x \in S |-> longer(x)]
<1>1. ASSUME NEW x \in S
      PROVE  longer(x) \in T
  <2>1. x[1] \in Box(C, n) /\ x[2] \in C[n + 1]
    OBVIOUS
  <2>2. ASSUME NEW i \in 1 .. n + 1
        PROVE  longer(x)[i] \in C[i]
    <3>1. CASE i = n + 1
      BY <2>1, <3>1
    <3>2. CASE i \in 1 .. n
      BY <2>1, <3>2 DEF Box
    <3> QED BY <3>1, <3>2
  <2>3. longer(x) \in [1 .. n + 1 -> UNION {C[i] : i \in 1 .. n + 1}]
    BY <2>2
  <2> HIDE DEF longer
  <2> QED BY <2>2, <2>3 DEF Box
<1>2. ASSUME NEW x \in S, NEW y \in S, longer(x) = longer(y)
      PROVE  x = y
  <2>1. /\ x = <<x[1], x[2]>> /\ y = <<y[1], y[2]>>
        /\ x[1] \in Box(C, n) /\ y[1] \in Box(C, n)
    OBVIOUS
  <2>2. longer(x)[n + 1] = x[2] /\ longer(y)[n + 1] = y[2]
    OBVIOUS
  <2>3. ASSUME NEW i \in 1 .. n
        PROVE  x[1][i] = y[1][i]
    <3>1. longer(x)[i] = x[1][i] /\ longer(y)[i] = y[1][i]
      OBVIOUS
    <3> QED BY <3>1, <1>2
  <2>4. x[1] = y[1]
    <3>1. DOMAIN x[1] = 1 .. n /\ DOMAIN y[1] = 1 .. n
          /\ x[1] = [i \in 1 .. n |-> x[1][i]] /\ y[1] = [i \in 1 .. n |-> y[1][i]]
      BY <2>1 DEF Box
    <3> HIDE DEF S, longer
    <3> QED BY <2>3, <3>1
  <2> HIDE DEF longer
  <2> QED BY <2>1, <2>2, <2>4, <1>2
<1>3. ASSUME NEW r \in T
      PROVE  \E x \in S : longer(x) = r
  <2> DEFINE q == [i \in 1 .. n |-> r[i]]
  <2>1. r \in [1 .. n + 1 -> UNION {C[i] : i \in 1 .. n + 1}] /\ \A i \in 1 .. n + 1 : r[i] \in C[i]
    BY DEF Box
  <2>2. q \in Box(C, n) /\ r[n + 1] \in C[n + 1]
    <3>1. \A i \in 1 .. n : q[i] \in C[i]
      BY <2>1
    <3>2. q \in [1 .. n -> UNION {C[i] : i \in 1 .. n}]
      BY <3>1
    <3>3. n + 1 \in 1 .. n + 1
      OBVIOUS
    <3> QED BY <2>1, <3>1, <3>2, <3>3 DEF Box
  <2>3. <<q, r[n + 1]>> \in S
    BY <2>2
  <2>4. longer(<<q, r[n + 1]>>) = r
    <3>1. \A i \in 1 .. n + 1 : longer(<<q, r[n + 1]>>)[i] = r[i]
      OBVIOUS
    <3> QED BY <2>1, <3>1
  <2> HIDE DEF longer, S, q
  <2> QED BY <2>3, <2>4
<1>4. F \in Bijection(S, T)
  <2> HIDE DEF S, T, longer
  <2>1. F \in [S -> T] /\ \A x \in S : F[x] = longer(x)
    BY <1>1
  <2>2. IsInjective(F)
    BY <2>1, <1>2 DEF IsInjective
  <2>3. \A r \in T : \E x \in S : F[x] = r
    BY <2>1, <1>3
  <2> HIDE DEF F
  <2> QED BY <2>1, <2>2, <2>3 DEF Bijection, Injection, Surjection
<1> HIDE DEF F, S, T
<1>5. ExistsBijection(S, T)
  BY <1>4 DEF ExistsBijection
<1> QED BY <1>5 DEF S, T

(* A box has as many points as the product of the choices of its dimensions.  *)
THEOREM BoxCardinality ==
  ASSUME NEW N \in Nat, NEW C, \A i \in 1 .. N : IsFiniteSet(C[i]),
         NEW f, Products(f, N, [i \in 1 .. N |-> Cardinality(C[i])])
  PROVE  \A n \in 0 .. N : IsFiniteSet(Box(C, n)) /\ Cardinality(Box(C, n)) = f[n]
<1> DEFINE S == {n \in Nat : n <= N => IsFiniteSet(Box(C, n)) /\ Cardinality(Box(C, n)) = f[n]}
<1>1. 0 \in S
  <2>1. Box(C, 0) = {<< >>}
    <3>1. Box(C, 0) \subseteq [{} -> {}]
      BY 1 .. 0 = {} DEF Box
    <3>2. << >> \in Box(C, 0)
      <4>1. << >> = [i \in 1 .. 0 |-> 0] /\ 1 .. 0 = {}
        OBVIOUS
      <4> QED BY <4>1 DEF Box
    <3>3. \A f1, f2 \in [{} -> {}] : f1 = f2
      OBVIOUS
    <3> QED BY ONLY <3>1, <3>2, <3>3
  <2>2. IsFiniteSet(Box(C, 0)) /\ Cardinality(Box(C, 0)) = 1
    BY <2>1, FS_Singleton
  <2> QED BY <2>2 DEF Products
<1>2. ASSUME NEW n \in S
      PROVE  n + 1 \in S
  <2> SUFFICES ASSUME n + 1 <= N
               PROVE  IsFiniteSet(Box(C, n + 1)) /\ Cardinality(Box(C, n + 1)) = f[n + 1]
    OBVIOUS
  <2>1. n \in Nat /\ n + 1 \in 1 .. N /\ (n + 1) - 1 = n
        /\ IsFiniteSet(Box(C, n)) /\ Cardinality(Box(C, n)) = f[n] /\ IsFiniteSet(C[n + 1])
    OBVIOUS
  <2>2. /\ IsFiniteSet(Box(C, n) \X C[n + 1])
        /\ Cardinality(Box(C, n) \X C[n + 1]) = f[n] * Cardinality(C[n + 1])
    BY <2>1, FS_Product
  <2>3. /\ IsFiniteSet(Box(C, n + 1))
        /\ Cardinality(Box(C, n + 1)) = Cardinality(Box(C, n) \X C[n + 1])
    <3> DEFINE P == Box(C, n) \X C[n + 1]
               Q == Box(C, n + 1)
    <3>1. ExistsBijection(P, Q) /\ IsFiniteSet(P)
      BY <2>1, <2>2, BoxGrows
    <3> HIDE DEF P, Q
    <3>2. IsFiniteSet(Q) /\ Cardinality(Q) = Cardinality(P)
      BY ONLY <3>1, FS_Bijection
    <3> QED BY <3>2 DEF P, Q
  <2>4. f[n + 1] = f[n] * Cardinality(C[n + 1])
    BY <2>1 DEF Products
  <2> QED BY <2>2, <2>3, <2>4
<1>3. S = Nat
  <2>1. S \in SUBSET Nat
    OBVIOUS
  <2> HIDE DEF S
  <2> QED BY <2>1, <1>1, <1>2, InductiveSet
<1> SUFFICES ASSUME NEW n \in 0 .. N
             PROVE  IsFiniteSet(Box(C, n)) /\ Cardinality(Box(C, n)) = f[n]
  OBVIOUS
<1>4. n \in S
  <2> HIDE DEF S
  <2> QED BY <1>3
<1> QED BY <1>4

-----------------------------------------------------------------------------
(* A sequence, whatever its members are.                                      *)
AnySeq(p) == \E S : p \in Seq(S)

(* Length, domain, head and tail of a sequence of whatever members.           *)
THEOREM SequenceParts ==
  ASSUME NEW p, AnySeq(p)
  PROVE  /\ Len(p) \in Nat /\ DOMAIN p = 1..Len(p)
         /\ p = << >> <=> Len(p) = 0
         /\ p # << >> => /\ Head(p) = p[1] /\ AnySeq(Tail(p)) /\ Len(Tail(p)) = Len(p) - 1
                         /\ \A i \in 1..Len(p) - 1 : Tail(p)[i] = p[i + 1]
<1>1. PICK S : p \in Seq(S)
  BY DEF AnySeq
<1>2. Len(p) \in Nat /\ DOMAIN p = 1..Len(p) /\ (p = << >> <=> Len(p) = 0)
  BY <1>1, EmptySeq, LenProperties
<1>3. ASSUME p # << >>
      PROVE  /\ Head(p) = p[1] /\ AnySeq(Tail(p)) /\ Len(Tail(p)) = Len(p) - 1
             /\ \A i \in 1..Len(p) - 1 : Tail(p)[i] = p[i + 1]
  <2>1. Tail(p) \in Seq(S) /\ Head(p) = p[1] /\ Len(Tail(p)) = Len(p) - 1
        /\ \A i \in 1..Len(p) - 1 : Tail(p)[i] = p[i + 1]
    BY <1>1, <1>3
  <2> QED BY <2>1 DEF AnySeq
<1> QED BY <1>2, <1>3

(* A function of the first numbers is a sequence.                             *)
THEOREM MadeSequence ==
  ASSUME NEW n \in Nat, NEW p, DOMAIN p = 1..n, p = [i \in 1..n |-> p[i]]
  PROVE  AnySeq(p) /\ Len(p) = n
<1>1. p \in [1..n -> {p[i] : i \in 1..n}]
  OBVIOUS
<1>2. p \in Seq({p[i] : i \in 1..n}) /\ Len(p) = n
  BY <1>1
<1> QED BY <1>2 DEF AnySeq

(* Where the members of two sequences are in the one after the other.         *)
THEOREM JoinedSequence ==
  ASSUME NEW p, NEW q, AnySeq(p), AnySeq(q)
  PROVE  /\ AnySeq(p \o q) /\ Len(p \o q) = Len(p) + Len(q)
         /\ \A i \in 1..Len(p) : (p \o q)[i] = p[i]
         /\ \A i \in 1..Len(q) : (p \o q)[i + Len(p)] = q[i]
         /\ \A i \in 1..Len(p \o q) :
              i <= Len(p) \/ \E j \in 1..Len(q) : i = j + Len(p)
<1>1. PICK S : p \in Seq(S)
  BY DEF AnySeq
<1>2. PICK T : q \in Seq(T)
  BY DEF AnySeq
<1> DEFINE U == S \cup T
<1>3. p \in Seq(U) /\ q \in Seq(U)
  BY <1>1, <1>2
<1> HIDE DEF U
<1>4. /\ p \o q \in Seq(U) /\ Len(p \o q) = Len(p) + Len(q)
      /\ \A i \in 1..Len(p) + Len(q) :
           (p \o q)[i] = IF i <= Len(p) THEN p[i] ELSE q[i - Len(p)]
  BY <1>3, ConcatProperties
<1>5. Len(p) \in Nat /\ Len(q) \in Nat
  BY <1>3
<1>6. AnySeq(p \o q)
  BY <1>4 DEF AnySeq
<1>7. \A i \in 1..Len(p) : (p \o q)[i] = p[i]
  BY <1>4, <1>5
<1>8. \A i \in 1..Len(q) : (p \o q)[i + Len(p)] = q[i]
  <2> SUFFICES ASSUME NEW i \in 1..Len(q) PROVE (p \o q)[i + Len(p)] = q[i]
    OBVIOUS
  <2>1. i + Len(p) \in 1..Len(p) + Len(q) /\ ~(i + Len(p) <= Len(p)) /\ (i + Len(p)) - Len(p) = i
    BY <1>5
  <2> QED BY <1>4, <2>1
<1>9. \A i \in 1..Len(p \o q) : i <= Len(p) \/ \E j \in 1..Len(q) : i = j + Len(p)
  <2> SUFFICES ASSUME NEW i \in 1..Len(p \o q), ~(i <= Len(p))
               PROVE  \E j \in 1..Len(q) : i = j + Len(p)
    OBVIOUS
  <2>1. i - Len(p) \in 1..Len(q) /\ i = (i - Len(p)) + Len(p)
    BY <1>4, <1>5
  <2> QED BY <2>1
<1> QED BY <1>4, <1>6, <1>7, <1>8, <1>9

-----------------------------------------------------------------------------
(* FlattenSeq joins its parts from the left. *)
Joins(flat, parts) ==
  /\ FlattenSeq(parts) = flat[Len(parts)] /\ flat[1] = parts[1]
  /\ \A i \in 1..Len(parts) : i # 1 => flat[i] = flat[i - 1] \o parts[i]

(* Concatenating a sequence of sequences joins its parts one by one.          *)
THEOREM FlattenJoins ==
  ASSUME NEW parts, AnySeq(parts), Len(parts) # 0,
         \A i \in 1..Len(parts) : AnySeq(parts[i])
  PROVE  \E flat : Joins(flat, parts)
<1> DEFINE N == Len(parts)
           T == UNION {{parts[i][j] : j \in 1..Len(parts[i])} : i \in 1..N}
           flat == CHOOSE f : f = [i \in 1..N |-> IF i = 1 THEN parts[i] ELSE f[i - 1] \o parts[i]]
<1>1. N \in Nat /\ DOMAIN parts = 1..N /\ 1 \in 1..N
  BY SequenceParts
<1>2. ASSUME NEW i \in 1..N
      PROVE  parts[i] \in Seq(T)
  <2>1. PICK S : parts[i] \in Seq(S)
    BY DEF AnySeq
  <2>2. parts[i] = [j \in 1..Len(parts[i]) |-> parts[i][j]] /\ Len(parts[i]) \in Nat
    BY <2>1
  <2>3. \A j \in 1..Len(parts[i]) : parts[i][j] \in T
    OBVIOUS
  <2> HIDE DEF T
  <2>4. parts[i] \in [1..Len(parts[i]) -> T]
    BY <2>2, <2>3
  <2> QED BY <2>2, <2>4
<1>3. [i \in 1..N |-> parts[i]] \in [1..N -> Seq(T)]
  <2> HIDE DEF T
  <2> QED BY <1>2
<1>4. PICK f \in [0..N -> Seq(T)] : Concatenates(f, N, [i \in 1..N |-> parts[i]])
  <2> HIDE DEF N, T
  <2> QED BY <1>1, <1>3, ConcatenationExists
<1>5. \A n \in 1..N : f[n] = f[n - 1] \o parts[n]
  BY <1>4 DEF Concatenates
<1>6. f[1] = parts[1]
  <2>1. f[1] = << >> \o parts[1]
    <3>1. f[0] = << >>
      BY <1>4 DEF Concatenates
    <3>2. f[1] = f[1 - 1] \o parts[1] /\ 1 - 1 = 0
      BY <1>1, <1>5
    <3> QED BY <3>1, <3>2
  <2>2. << >> \o parts[1] = parts[1]
    BY <1>1, <1>2
  <2> QED BY <2>1, <2>2
<1>7. \E g : g = [i \in 1..N |-> IF i = 1 THEN parts[i] ELSE g[i - 1] \o parts[i]]
  <2> DEFINE g == [i \in 1..N |-> f[i]]
  <2>1. \A i \in 1..N : i # 1 => g[i - 1] = f[i - 1]
    <3>1. \A i \in 1..N : i # 1 => i - 1 \in 1..N
      BY <1>1
    <3> QED BY <3>1
  <2>2. \A i \in 1..N : f[i] = IF i = 1 THEN parts[i] ELSE g[i - 1] \o parts[i]
    <3> HIDE DEF g, N
    <3> QED BY <1>5, <1>6, <2>1
  <2>3. g = [i \in 1..N |-> IF i = 1 THEN parts[i] ELSE g[i - 1] \o parts[i]]
    <3>1. g = [i \in 1..N |-> f[i]]
      OBVIOUS
    <3> HIDE DEF g, N
    <3> QED BY <2>2, <3>1
  <2> HIDE DEF g
  <2> QED BY <2>3
<1>8. flat = [i \in 1..N |-> IF i = 1 THEN parts[i] ELSE flat[i - 1] \o parts[i]]
  <2> HIDE DEF N
  <2> QED BY <1>7, Zenon
<1>9. FlattenSeq(parts) = flat[N]
  BY <1>1, Zenon DEF FlattenSeq
<1> HIDE DEF flat
<1>10. Joins(flat, parts)
  <2>1. \A i \in 1..N : flat[i] = IF i = 1 THEN parts[i] ELSE flat[i - 1] \o parts[i]
    <3> HIDE DEF N
    <3> QED BY <1>8
  <2> QED BY <1>1, <1>9, <2>1 DEF Joins
<1> QED BY <1>10

-----------------------------------------------------------------------------
(* The smallest and the largest of a sequence of integers are members and     *)
(* bound the others.                                                          *)
THEOREM EndsOfSequence ==
  ASSUME NEW s \in Seq(Int), s # << >>
  PROVE  /\ Min(ToSet(s)) \in ToSet(s) /\ Max(ToSet(s)) \in ToSet(s)
         /\ \A v \in ToSet(s) : v \in Int /\ Min(ToSet(s)) <= v /\ v <= Max(ToSet(s))
<1> DEFINE N == Len(s)
           S == {n \in Nat : n \in 1 .. N =>
                   /\ \E k \in 1 .. n : \A j \in 1 .. n : s[k] <= s[j]
                   /\ \E k \in 1 .. n : \A j \in 1 .. n : s[k] >= s[j]}
<1>1. N \in Nat \ {0} /\ \A i \in 1 .. N : s[i] \in Int
  OBVIOUS
<1>2. 0 \in S
  OBVIOUS
<1>3. ASSUME NEW n \in S
      PROVE  n + 1 \in S
  <2> SUFFICES ASSUME n + 1 \in 1 .. N
               PROVE  /\ \E k \in 1 .. n + 1 : \A j \in 1 .. n + 1 : s[k] <= s[j]
                      /\ \E k \in 1 .. n + 1 : \A j \in 1 .. n + 1 : s[k] >= s[j]
    OBVIOUS
  <2> HIDE DEF N
  <2>1. CASE n = 0
    <3>1. 1 \in 1 .. n + 1 /\ \A j \in 1 .. n + 1 : j = 1 /\ s[1] \in Int
      BY <1>1, <2>1
    <3>2. \A j \in 1 .. n + 1 : s[1] <= s[j] /\ s[1] >= s[j]
      BY <3>1
    <3> HIDE DEF S
    <3> QED BY <3>1, <3>2
  <2>2. CASE n # 0
    <3>1. n \in Nat /\ n \in 1 .. N /\ \A j \in 1 .. n + 1 : s[j] \in Int /\ (j = n + 1 \/ j \in 1 .. n)
      BY <1>1, <2>2
    <3>2. PICK a \in 1 .. n : \A j \in 1 .. n : s[a] <= s[j]
      BY <3>1
    <3>3. PICK b \in 1 .. n : \A j \in 1 .. n : s[b] >= s[j]
      BY <3>1
    <3>4. n + 1 \in 1 .. n + 1 /\ a \in 1 .. n + 1 /\ b \in 1 .. n + 1
      BY <3>1
    <3>5. \E k \in 1 .. n + 1 : \A j \in 1 .. n + 1 : s[k] <= s[j]
      <4>1. CASE s[a] <= s[n + 1]
        <5>1. \A j \in 1 .. n + 1 : s[a] <= s[j]
          BY <4>1, <3>1, <3>2
        <5> QED BY <5>1, <3>4
      <4>2. CASE ~(s[a] <= s[n + 1])
        <5> DEFINE m == n + 1
        <5>0. s[a] \in Int /\ s[m] \in Int /\ s[m] <= s[a]
          BY <4>2, <3>1, <3>4
        <5> HIDE DEF m
        <5>1. \A j \in 1 .. n + 1 : s[m] <= s[j]
          <6> SUFFICES ASSUME NEW j \in 1 .. n + 1 PROVE s[m] <= s[j]
            OBVIOUS
          <6>1. s[j] \in Int /\ (j = m \/ j \in 1 .. n)
            BY <3>1 DEF m
          <6>2. j \in 1 .. n => s[a] <= s[j]
            BY <3>2
          <6> QED BY <5>0, <6>1, <6>2
        <5> QED BY <5>1, <3>4 DEF m
      <4> QED BY <4>1, <4>2
    <3>6. \E k \in 1 .. n + 1 : \A j \in 1 .. n + 1 : s[k] >= s[j]
      <4>1. CASE s[b] >= s[n + 1]
        <5>1. \A j \in 1 .. n + 1 : s[b] >= s[j]
          BY <4>1, <3>1, <3>3
        <5> QED BY <5>1, <3>4
      <4>2. CASE ~(s[b] >= s[n + 1])
        <5> DEFINE m == n + 1
        <5>0. s[b] \in Int /\ s[m] \in Int /\ s[m] >= s[b]
          BY <4>2, <3>1, <3>4
        <5> HIDE DEF m
        <5>1. \A j \in 1 .. n + 1 : s[m] >= s[j]
          <6> SUFFICES ASSUME NEW j \in 1 .. n + 1 PROVE s[m] >= s[j]
            OBVIOUS
          <6>1. s[j] \in Int /\ (j = m \/ j \in 1 .. n)
            BY <3>1 DEF m
          <6>2. j \in 1 .. n => s[b] >= s[j]
            BY <3>3
          <6> QED BY <5>0, <6>1, <6>2
        <5> QED BY <5>1, <3>4 DEF m
      <4> QED BY <4>1, <4>2
    <3> QED BY <3>5, <3>6
  <2> QED BY <2>1, <2>2
<1>4. S = Nat
  <2>1. S \in SUBSET Nat
    OBVIOUS
  <2> HIDE DEF S
  <2> QED BY <2>1, <1>2, <1>3, InductiveSet
<1>5. /\ \E k \in 1 .. N : \A j \in 1 .. N : s[k] <= s[j]
      /\ \E k \in 1 .. N : \A j \in 1 .. N : s[k] >= s[j]
  <2>1. N \in S /\ N \in 1 .. N
    <3> HIDE DEF S
    <3> QED BY <1>1, <1>4
  <2> HIDE DEF N
  <2> QED BY <2>1
<1>6. ToSet(s) = {s[i] : i \in 1 .. N}
  BY DEF ToSet
<1>7. \A v \in ToSet(s) : v \in Int
  BY <1>1, <1>6
<1>8. /\ \E x \in ToSet(s) : \A y \in ToSet(s) : x <= y
      /\ \E x \in ToSet(s) : \A y \in ToSet(s) : x >= y
  <2>1. PICK k \in 1 .. N : \A j \in 1 .. N : s[k] <= s[j]
    BY <1>5
  <2>2. PICK l \in 1 .. N : \A j \in 1 .. N : s[l] >= s[j]
    BY <1>5
  <2>3. s[k] \in ToSet(s) /\ s[l] \in ToSet(s)
    BY <1>6
  <2> HIDE DEF N
  <2>4. \A y \in ToSet(s) : s[k] <= y /\ s[l] >= y
    BY ONLY <1>6, <2>1, <2>2
  <2> QED BY ONLY <2>3, <2>4
<1> QED BY <1>7, <1>8 DEF Min, Max

(* Some numbers of a sequence have ends.                                      *)
THEOREM ChosenEnds ==
  ASSUME NEW n \in Nat, NEW I \in SUBSET (1 .. n), I # {}, NEW m \in [I -> Int],
         NEW M, M = {m[i] : i \in I}
  PROVE  /\ Min(M) \in M /\ Max(M) \in M
         /\ \A v \in M : v \in Int /\ Min(M) <= v /\ v <= Max(M)
<1>1. PICK k \in I : TRUE
  OBVIOUS
<1> DEFINE s == [i \in 1 .. n |-> IF i \in I THEN m[i] ELSE m[k]]
<1>2. s \in Seq(Int) /\ s # << >>
  <2>1. s \in [1 .. n -> Int] /\ n # 0
    BY <1>1
  <2>2. s \in Seq(Int) /\ Len(s) = n
    BY <2>1
  <2> HIDE DEF s
  <2> QED BY <2>1, <2>2
<1>3. ToSet(s) = M
  <2>1. ToSet(s) = {s[i] : i \in 1 .. n}
    BY DEF ToSet
  <2>2. \A i \in 1 .. n : s[i] \in M
    BY <1>1
  <2>3. \A i \in I : i \in 1 .. n /\ s[i] = m[i]
    OBVIOUS
  <2> HIDE DEF s
  <2> QED BY <2>1, <2>2, <2>3
<1> HIDE DEF s
<1> QED BY <1>2, <1>3, EndsOfSequence

-----------------------------------------------------------------------------
(* Quotients.                                                                 *)
THEOREM Quotient ==
  ASSUME NEW q \in Nat, NEW m \in Nat \ {0}, NEW r \in 0 .. m - 1
  PROVE  q * m + r \in Nat /\ (q * m + r) \div m = q /\ (q * m + r) % m = r
OBVIOUS

(* Quotient and rest of a division.                                           *)
THEOREM QuotientAndRest ==
  ASSUME NEW x \in Nat, NEW m \in Nat \ {0}
  PROVE  x \div m \in Nat /\ x % m \in 0 .. m - 1 /\ x = (x \div m) * m + (x % m)
OBVIOUS

(* A product of numbers is a number, and zero only if a factor is.            *)
THEOREM ProductIsNat ==
  ASSUME NEW a \in Nat, NEW b \in Nat
  PROVE  a * b \in Nat /\ (a # 0 /\ b # 0 => a * b # 0)
OBVIOUS

(* Dividing by a product is dividing by its factors in turn.                  *)
THEOREM QuotientOfQuotient ==
  ASSUME NEW x \in Nat, NEW a \in Nat \ {0}, NEW b \in Nat \ {0}
  PROVE  x \div (a * b) = (x \div b) \div a
<1> DEFINE q == x \div b
           r == q \div a
<1>1. q \in Nat /\ x % b \in 0 .. b - 1 /\ x = q * b + (x % b)
  BY QuotientAndRest
<1>2. r \in Nat /\ q % a \in 0 .. a - 1 /\ q = r * a + (q % a)
  <2> HIDE DEF q
  <2> QED BY <1>1, QuotientAndRest
<1> DEFINE u == q % a
           v == x % b
           w == u * b + v
<1> HIDE DEF q, r, u, v
<1>3. x = r * (a * b) + w
  <2>1. x = (r * a + u) * b + v
    BY <1>1, <1>2 DEF u, v
  <2>2. r \in Nat /\ u \in Nat /\ v \in Nat
    BY <1>1, <1>2 DEF u, v
  <2>3. (r * a + u) * b = r * (a * b) + u * b
    BY <2>2
  <2> QED BY <2>1, <2>2, <2>3
<1>4. w \in 0 .. (a * b) - 1
  <2>1. u \in 0 .. a - 1 /\ v \in 0 .. b - 1
    BY <1>1, <1>2 DEF u, v
  <2>2. u + 1 <= a /\ u \in Nat /\ v \in Nat /\ v + 1 <= b
    BY <2>1
  <2>3. (u + 1) * b <= a * b /\ (u + 1) * b = u * b + b /\ u * b \in Nat
    BY <2>2
  <2> HIDE DEF w
  <2>4. w = u * b + v
    BY DEF w
  <2> QED BY <2>2, <2>3, <2>4
<1>5. a * b \in Nat \ {0}
  BY ProductIsNat
<1>6. x \div (a * b) = r
  <2> DEFINE m == a * b
  <2> HIDE DEF m, w
  <2>1. x = r * m + w /\ w \in 0 .. m - 1 /\ m \in Nat \ {0} /\ r \in Nat
    BY <1>2, <1>3, <1>4, <1>5 DEF m
  <2>2. (r * m + w) \div m = r
    BY ONLY <2>1, Quotient
  <2>3. x \div m = r
    BY <2>1, <2>2
  <2> QED BY <2>3 DEF m
<1> QED BY <1>6 DEF q, r
-----------------------------------------------------------------------------
(* A fold over the subsets of 1 .. N, that takes out one member at a time.    *)
Folds(it, v, N, pick, step) ==
  /\ it[{}] = v
  /\ \A s \in SUBSET (1 .. N) : s # {} => it[s] = step[pick[s]][it[s \ {pick[s]}]]

(* A fold that picks the members of a finite set one by one has a value on    *)
(* every subset.                                                              *)
THEOREM FoldExists ==
  ASSUME NEW N \in Nat, NEW V, NEW v \in V, NEW step \in [1 .. N -> [V -> V]],
         NEW pick, \A s \in SUBSET (1 .. N) : s # {} => pick[s] \in s
  PROVE  \E it \in [SUBSET (1 .. N) -> V] : Folds(it, v, N, pick, step)
<1> DEFINE W == [SUBSET (1 .. N) -> V]
           next(g) == [s \in SUBSET (1 .. N) |->
                         IF s = {} THEN v ELSE step[pick[s]][g[s \ {pick[s]}]]]
           steps == [n \in 1 .. N + 1 |-> [g \in W |-> next(g)]]
           start == [s \in SUBSET (1 .. N) |-> v]
<1>1. ASSUME NEW g \in W
      PROVE  next(g) \in W
  <2>1. ASSUME NEW s \in SUBSET (1 .. N), s # {}
        PROVE  step[pick[s]][g[s \ {pick[s]}]] \in V
    <3>1. pick[s] \in 1 .. N /\ s \ {pick[s]} \in SUBSET (1 .. N)
      BY <2>1
    <3>2. step[pick[s]] \in [V -> V] /\ g[s \ {pick[s]}] \in V
      BY <3>1
    <3> QED BY <3>2
  <2> QED BY <2>1
<1>2. PICK f \in [0 .. N + 1 -> W] : Solves(f, start, N + 1, steps)
  <2>1. steps \in [1 .. N + 1 -> [W -> W]]
    <3> HIDE DEF W, next
    <3> QED BY <1>1
  <2>2. start \in W /\ N + 1 \in Nat
    OBVIOUS
  <2> HIDE DEF W, steps, start
  <2> QED BY <2>1, <2>2, RecurrenceHasSolution
<1>3. ASSUME NEW n \in 0 .. N
      PROVE  f[n + 1] = next(f[n]) /\ f[n] \in W
  <2>1. n + 1 \in 1 .. N + 1 /\ (n + 1) - 1 = n /\ f[n] \in W
    <3> HIDE DEF W, steps, start
    <3>1. n + 1 \in 1 .. N + 1 /\ (n + 1) - 1 = n /\ n \in 0 .. N + 1
      OBVIOUS
    <3> QED BY <3>1
  <2>2. steps[n + 1] = [g \in W |-> next(g)]
    BY <2>1
  <2>3. f[n + 1] = steps[n + 1][f[n]]
    <3> HIDE DEF steps, W
    <3> QED BY <1>2, <2>1 DEF Solves
  <2> HIDE DEF W, next, steps
  <2> QED BY <2>1, <2>2, <2>3
<1> DEFINE S == {n \in Nat : n <= N =>
                   \A s \in SUBSET (1 .. N) : Cardinality(s) <= n => f[n + 1][s] = f[n][s]}
<1>4. \A s \in SUBSET (1 .. N) : IsFiniteSet(s) /\ Cardinality(s) \in Nat /\ Cardinality(s) <= N
  <2>1. IsFiniteSet(1 .. N) /\ Cardinality(1 .. N) = N
    BY FS_Interval
  <2>2. ASSUME NEW s \in SUBSET (1 .. N)
        PROVE  IsFiniteSet(s) /\ Cardinality(s) \in Nat /\ Cardinality(s) <= N
    <3>1. IsFiniteSet(s) /\ Cardinality(s) <= Cardinality(1 .. N)
      BY <2>1, FS_Subset
    <3>2. Cardinality(s) \in Nat
      BY <3>1, FS_CardinalityType
    <3> QED BY <2>1, <3>1, <3>2
  <2> QED BY <2>2
<1>5. 0 \in S
  <2>1. ASSUME NEW s \in SUBSET (1 .. N), Cardinality(s) <= 0
        PROVE  f[0 + 1][s] = f[0][s]
    <3>1. s = {}
      BY <1>4, <2>1, FS_EmptySet
    <3>2. f[0 + 1] = next(f[0])
      <4>1. 0 \in 0 .. N
        OBVIOUS
      <4> HIDE DEF next
      <4> QED BY <4>1, <1>3
    <3>3. f[0] = start
      BY <1>2 DEF Solves
    <3>4. next(f[0])[{}] = v /\ start[{}] = v
      OBVIOUS
    <3> HIDE DEF next, start
    <3> QED BY <3>1, <3>2, <3>3, <3>4
  <2> QED BY <2>1
<1>6. ASSUME NEW n \in S
      PROVE  n + 1 \in S
  <2> SUFFICES ASSUME n + 1 <= N, NEW s \in SUBSET (1 .. N), Cardinality(s) <= n + 1
               PROVE  f[(n + 1) + 1][s] = f[n + 1][s]
    OBVIOUS
  <2>1. n \in Nat /\ n \in 0 .. N /\ n + 1 \in 0 .. N
    OBVIOUS
  <2>2. f[(n + 1) + 1] = next(f[n + 1]) /\ f[n + 1] = next(f[n])
    <3> HIDE DEF next
    <3> QED BY <2>1, <1>3
  <2>3. CASE s = {}
    BY <2>2, <2>3
  <2>4. CASE s # {}
    <3> DEFINE r == s \ {pick[s]}
    <3>1. r \in SUBSET (1 .. N) /\ Cardinality(r) = Cardinality(s) - 1
      BY <2>4, <1>4, FS_RemoveElement
    <3>2. f[n + 1][r] = f[n][r]
      <4>1. Cardinality(r) <= n
        BY <3>1, <2>1, <1>4
      <4> HIDE DEF r
      <4> QED BY <3>1, <4>1, <2>1
    <3>3. /\ f[(n + 1) + 1][s] = step[pick[s]][f[n + 1][r]]
          /\ f[n + 1][s] = step[pick[s]][f[n][r]]
      BY <2>2, <2>4
    <3> QED BY <3>2, <3>3
  <2> QED BY <2>3, <2>4
<1>7. S = Nat
  <2>1. S \in SUBSET Nat
    OBVIOUS
  <2> HIDE DEF S
  <2> QED BY <2>1, <1>5, <1>6, InductiveSet
<1>8. \A s \in SUBSET (1 .. N) : f[N + 1][s] = f[N][s]
  <2>1. N \in S
    <3> HIDE DEF S
    <3> QED BY <1>7
  <2> QED BY <2>1, <1>4
<1> DEFINE it == f[N]
<1>9. f[N + 1] = next(it) /\ it \in W
  <2>1. N \in 0 .. N
    OBVIOUS
  <2> HIDE DEF next, W
  <2> QED BY <2>1, <1>3
<1>10. it[{}] = v
  <2>1. f[N + 1][{}] = v
    BY <1>9
  <2> HIDE DEF next
  <2> QED BY <1>8, <2>1
<1>11. ASSUME NEW s \in SUBSET (1 .. N), s # {}
       PROVE  it[s] = step[pick[s]][it[s \ {pick[s]}]]
  <2>1. f[N + 1][s] = step[pick[s]][it[s \ {pick[s]}]]
    BY <1>9, <1>11
  <2> HIDE DEF next
  <2> QED BY <1>8, <2>1
<1> HIDE DEF next, it
<1> QED BY <1>9, <1>10, <1>11 DEF Folds

(* The numbers up to n, as folds take them.                                   *)
THEOREM IntervalEnds ==
  ASSUME NEW N \in Nat, NEW s \in SUBSET (1 .. N), s # {}
  PROVE  /\ Max(s) \in s /\ Min(s) \in s
         /\ \A i \in s : Min(s) <= i /\ i <= Max(s)
<1> DEFINE m == [i \in s |-> i]
<1>1. m \in [s -> Int]
  OBVIOUS
<1>2. {m[i] : i \in s} = s
  <2>1. \A i \in s : m[i] = i
    OBVIOUS
  <2> HIDE DEF m
  <2> QED BY <2>1
<1> HIDE DEF m
<1>3. \A v \in s : v \in Int /\ Min(s) <= v /\ v <= Max(s)
  BY <1>1, <1>2, ChosenEnds
<1>4. Max(s) \in s /\ Min(s) \in s
  BY <1>1, <1>2, ChosenEnds
<1> QED BY <1>3, <1>4

(* The largest of the first numbers is the last, and without it they are one  *)
(* fewer.                                                                     *)
THEOREM IntervalTop ==
  ASSUME NEW n \in Nat \ {0}
  PROVE  Max(1 .. n) = n /\ (1 .. n) \ {n} = 1 .. n - 1
<1>1. Max(1 .. n) \in 1 .. n /\ n <= Max(1 .. n)
  <2>1. 1 .. n \in SUBSET (1 .. n) /\ 1 .. n # {} /\ n \in 1 .. n
    OBVIOUS
  <2> QED BY <2>1, IntervalEnds
<1> QED BY <1>1

(* What agrees at 0, and at each number if at the one before, agrees.         *)
Agrees(f, g, N) == f[0] = g[0] /\ \A n \in 1 .. N : f[n - 1] = g[n - 1] => f[n] = g[n]

(* So two functions that agree so far agree throughout.                       *)
THEOREM AgreeAlong ==
  ASSUME NEW N \in Nat, NEW f, NEW g, Agrees(f, g, N)
  PROVE  \A n \in 0 .. N : f[n] = g[n]
<1> USE DEF Agrees
<1> DEFINE S == {n \in Nat : n <= N => f[n] = g[n]}
<1>1. 0 \in S
  OBVIOUS
<1>2. ASSUME NEW n \in S
      PROVE  n + 1 \in S
  <2>1. CASE n + 1 <= N
    <3>1. n \in Nat /\ n + 1 \in 1 .. N /\ (n + 1) - 1 = n /\ f[n] = g[n]
      BY <2>1
    <3>2. f[n + 1] = g[n + 1]
      BY <3>1
    <3> QED BY <3>1, <3>2
  <2> QED BY <2>1
<1>3. S = Nat
  <2>1. S \in SUBSET Nat
    OBVIOUS
  <2> HIDE DEF S
  <2> QED BY <2>1, <1>1, <1>2, InductiveSet
<1> SUFFICES ASSUME NEW n \in 0 .. N PROVE f[n] = g[n]
  OBVIOUS
<1>4. n \in S
  <2> HIDE DEF S
  <2> QED BY <1>3
<1> QED BY <1>4

(* Product multiplies from the left.                                          *)
THEOREM ProductFold ==
  ASSUME NEW N \in Nat, NEW numbers \in [1 .. N -> Nat]
  PROVE  \E f \in [0 .. N -> Nat] : Products(f, N, numbers) /\ Product(numbers) = f[N]
<1> DEFINE step == [n \in 1 .. N |-> [v \in Nat |-> v * numbers[n]]]
           pick == [s \in SUBSET (1 .. N) |-> Max(s)]
           Eq(it) == it = [s \in SUBSET (DOMAIN numbers) |->
                             IF s = {} THEN 1 ELSE it[s \ {Max(s)}] * numbers[Max(s)]]
           one == 1
<1>0. DOMAIN numbers = 1 .. N
  OBVIOUS
<1>1. \A s \in SUBSET (1 .. N) : s # {} => Max(s) \in s
  BY IntervalEnds
<1>2. PICK made \in [SUBSET (1 .. N) -> Nat] : Folds(made, one, N, pick, step)
  <2>1. step \in [1 .. N -> [Nat -> Nat]] /\ one \in Nat
    OBVIOUS
  <2>2. \A s \in SUBSET (1 .. N) : s # {} => pick[s] \in s
    BY <1>1
  <2> HIDE DEF step, pick, one
  <2> QED BY <2>1, <2>2, FoldExists
<1>3. Eq(made)
  <2>1. ASSUME NEW s \in SUBSET (1 .. N), s # {}
        PROVE  made[s] = made[s \ {Max(s)}] * numbers[Max(s)]
    <3>1. Max(s) \in 1 .. N /\ made[s \ {Max(s)}] \in Nat
      BY <1>1, <2>1
    <3>2. made[s] = step[Max(s)][made[s \ {Max(s)}]]
      <4>1. pick[s] = Max(s)
        OBVIOUS
      <4> HIDE DEF pick, step
      <4> QED BY <1>2, <2>1, <4>1 DEF Folds
    <3> QED BY <3>1, <3>2
  <2>2. made[{}] = 1
    BY <1>2 DEF Folds
  <2> HIDE DEF pick, step
  <2> QED BY <2>1, <2>2, <1>0
<1> DEFINE it == CHOOSE it : Eq(it)
<1>4. Eq(it)
  <2> HIDE DEF Eq
  <2> QED BY <1>3
<1>5. Product(numbers) = it[DOMAIN numbers]
  BY Zenon DEF Product, FoldLeft, MapThenFoldSet
<1> HIDE DEF it
<1> DEFINE f == [n \in 0 .. N |-> it[1 .. n]]
<1>6. f[0] = 1
  BY <1>4
<1>7. ASSUME NEW n \in 1 .. N
      PROVE  f[n] = f[n - 1] * numbers[n]
  <2>1. 1 .. n \in SUBSET (DOMAIN numbers) /\ 1 .. n # {}
    OBVIOUS
  <2>2. Max(1 .. n) = n /\ (1 .. n) \ {n} = 1 .. n - 1
    BY IntervalTop
  <2>3. it[1 .. n] = it[1 .. n - 1] * numbers[n]
    BY <2>1, <2>2, <1>4
  <2> QED BY <2>3
<1>8. PICK g \in [0 .. N -> Nat] : Products(g, N, numbers)
  BY ProductsExist
<1>9. \A n \in 0 .. N : f[n] = g[n]
  <2>1. Agrees(f, g, N)
    <3> HIDE DEF f
    <3> QED BY <1>6, <1>7, <1>8 DEF Products, Agrees
  <2> HIDE DEF f
  <2> QED BY <2>1, AgreeAlong
<1>10. Product(numbers) = g[N]
  BY <1>0, <1>5, <1>9
<1> QED BY <1>8, <1>10

-----------------------------------------------------------------------------
(* Sequences are equal by their members.                                      *)
THEOREM SameSequence ==
  ASSUME NEW p, NEW q, AnySeq(p), AnySeq(q), Len(p) = Len(q), \A m \in 1 .. Len(p) : p[m] = q[m]
  PROVE  p = q
<1>1. PICK S : p \in Seq(S)
  BY DEF AnySeq
<1>2. PICK R : q \in Seq(R)
  BY DEF AnySeq
<1> DEFINE U == S \cup R
<1>3. p \in Seq(U) /\ q \in Seq(U)
  BY <1>1, <1>2
<1> HIDE DEF U
<1> QED BY <1>3, SeqEqual

(* Appending keeps what is there and adds one member.                         *)
THEOREM AppendedSequence ==
  ASSUME NEW p, NEW x, AnySeq(p)
  PROVE  /\ AnySeq(Append(p, x)) /\ Len(Append(p, x)) = Len(p) + 1
         /\ \A m \in 1 .. Len(p) : Append(p, x)[m] = p[m]
         /\ Append(p, x)[Len(p) + 1] = x
<1>1. PICK S : p \in Seq(S)
  BY DEF AnySeq
<1> DEFINE U == S \cup {x}
<1>2. p \in Seq(U) /\ x \in U
  BY <1>1
<1> HIDE DEF U
<1> QED BY <1>2, AppendProperties DEF AnySeq

-----------------------------------------------------------------------------
(* Where the parts of a flattened sequence begin: off[i] is the length of the *)
(* parts up to i.                                                             *)
SeqOfSeqs(parts) == AnySeq(parts) /\ \A i \in 1 .. Len(parts) : AnySeq(parts[i])

Offsets(off, parts) ==
  /\ off \in [0 .. Len(parts) -> Nat] /\ off[0] = 0
  /\ \A i \in 1 .. Len(parts) : off[i] = off[i - 1] + Len(parts[i])

(* Every part of a sequence of sequences has an offset in the whole.          *)
THEOREM OffsetsExist ==
  ASSUME NEW parts, AnySeq(parts), \A i \in 1 .. Len(parts) : AnySeq(parts[i])
  PROVE  \E off : Offsets(off, parts)
<1> DEFINE N == Len(parts)
           lengths == [i \in 1 .. N |-> Len(parts[i])]
<1>1. N \in Nat
  BY SequenceParts
<1>2. lengths \in [1 .. N -> Nat]
  BY SequenceParts
<1>3. PICK off \in [0 .. N -> Nat] : Sums(off, N, lengths)
  <2> HIDE DEF N, lengths
  <2> QED BY <1>1, <1>2, SumsExist
<1>4. Offsets(off, parts)
  BY <1>3 DEF Sums, Offsets
<1> QED BY <1>4

(* Later parts have no smaller offsets.                                       *)
THEOREM OffsetsGrow ==
  ASSUME NEW parts, AnySeq(parts), \A i \in 1 .. Len(parts) : AnySeq(parts[i]),
         NEW off, Offsets(off, parts)
  PROVE  \A i, j \in 0 .. Len(parts) : i <= j => off[i] <= off[j]
<1> DEFINE N == Len(parts)
<1>1. N \in Nat
  BY SequenceParts
<1>2. \A i \in 0 .. N : off[i] \in Nat
  BY DEF Offsets
<1>3. \A i \in 1 .. N : Len(parts[i]) \in Nat /\ off[i] = off[i - 1] + Len(parts[i])
  BY SequenceParts DEF Offsets
<1> SUFFICES ASSUME NEW i \in 0 .. N
             PROVE  \A j \in 0 .. N : i <= j => off[i] <= off[j]
  OBVIOUS
<1> HIDE DEF N
<1> DEFINE S == {n \in Nat : i + n <= N => off[i] <= off[i + n]}
<1>4. 0 \in S
  <2>1. i + 0 = i
    OBVIOUS
  <2> QED BY <1>2, <2>1
<1>5. ASSUME NEW n \in S
      PROVE  n + 1 \in S
  <2>1. CASE i + (n + 1) <= N
    <3>1. i + (n + 1) \in 1 .. N /\ (i + (n + 1)) - 1 = i + n /\ i + n \in 0 .. N /\ i + n <= N /\ n \in Nat
      BY <1>1, <2>1
    <3>2. off[i] <= off[i + n]
      BY <3>1
    <3>3. off[i + (n + 1)] = off[i + n] + Len(parts[i + (n + 1)]) /\ Len(parts[i + (n + 1)]) \in Nat
      BY <1>3, <3>1
    <3>4. off[i] \in Nat /\ off[i + n] \in Nat
      BY <1>2, <3>1
    <3>5. off[i] <= off[i + (n + 1)]
      BY ONLY <3>2, <3>3, <3>4
    <3> QED BY <3>1, <3>5
  <2>2. CASE ~(i + (n + 1) <= N)
    BY <2>2
  <2> QED BY <2>1, <2>2
<1>6. S = Nat
  <2>1. S \in SUBSET Nat
    OBVIOUS
  <2> HIDE DEF S
  <2> QED BY <1>4, <1>5, <2>1, InductiveSet
<1> SUFFICES ASSUME NEW j \in 0 .. N, i <= j PROVE off[i] <= off[j]
  BY DEF N
<1>7. j - i \in Nat /\ i + (j - i) = j /\ j <= N
  BY <1>1
<1>8. j - i \in S
  <2> HIDE DEF S
  <2> QED BY <1>6, <1>7
<1> QED BY <1>7, <1>8

(* A flattened sequence has every member of every part, each at its place.    *)
Placed(flat, parts, off) ==
  /\ Offsets(off, parts)
  /\ AnySeq(flat) /\ Len(flat) = off[Len(parts)]
  /\ \A a \in 1 .. Len(parts) : \A b \in 1 .. Len(parts[a]) :
       off[a - 1] + b \in 1 .. Len(flat) /\ flat[off[a - 1] + b] = parts[a][b]
  /\ \A i \in 1 .. Len(flat) :
       \E a \in 1 .. Len(parts) : \E b \in 1 .. Len(parts[a]) : i = off[a - 1] + b

Flattens(f, parts) ==
  /\ Concatenates(f, Len(parts), parts) /\ f[Len(parts)] = FlattenSeq(parts)
  /\ \A n \in 0 .. Len(parts) : AnySeq(f[n])

(* Flattening is concatenating the parts from the left.                       *)
THEOREM FlattenConcatenates ==
  ASSUME NEW parts, SeqOfSeqs(parts)
  PROVE  \E f : Flattens(f, parts)
<1> DEFINE N == Len(parts)
<1>1. N \in Nat /\ DOMAIN parts = 1 .. N /\ (parts = << >> <=> N = 0)
      /\ \A i \in 1 .. N : AnySeq(parts[i])
  BY SequenceParts DEF SeqOfSeqs
<1>2. CASE N = 0
  <2>1. FlattenSeq(parts) = << >>
    BY <1>1, <1>2 DEF FlattenSeq
  <2> DEFINE f == [n \in 0 .. 0 |-> << >>]
  <2>2. f[0] = << >>
    OBVIOUS
  <2>3. AnySeq(<< >>)
    <3>1. << >> \in Seq({})
      OBVIOUS
    <3> QED BY <3>1 DEF AnySeq
  <2> HIDE DEF f
  <2>4. \A n \in 0 .. N : AnySeq(f[n])
    BY <1>2, <2>2, <2>3
  <2> QED BY <1>2, <2>1, <2>2, <2>4 DEF Flattens, Concatenates
<1>3. CASE N # 0
  <2>1. PICK flat : Joins(flat, parts)
    BY <1>3, FlattenJoins DEF SeqOfSeqs
  <2> DEFINE f == [n \in 0 .. N |-> IF n = 0 THEN << >> ELSE flat[n]]
  <2>2. f[0] = << >> /\ \A n \in 1 .. N : f[n] = flat[n]
    BY <1>1
  <2> HIDE DEF f
  <2>3. ASSUME NEW n \in 1 .. N
        PROVE  f[n] = f[n - 1] \o parts[n]
    <3>1. CASE n = 1
      <4>1. << >> \o parts[1] = parts[1]
        <5>1. PICK S : parts[1] \in Seq(S)
          BY <1>1, <3>1 DEF AnySeq
        <5> QED BY <5>1
      <4>2. f[1] = parts[1] /\ f[1 - 1] = << >>
        <5>1. flat[1] = parts[1] /\ 1 \in 1 .. N /\ 1 - 1 = 0
          BY <2>1, <3>1 DEF Joins
        <5> QED BY <5>1, <2>2
      <4> HIDE DEF N
      <4> QED BY <4>1, <4>2, <3>1
    <3>2. CASE n # 1
      <4>1. n - 1 \in 1 .. N /\ flat[n] = flat[n - 1] \o parts[n]
        BY <1>1, <2>1, <3>2 DEF Joins
      <4> QED BY <4>1, <2>2
    <3> QED BY <3>1, <3>2
  <2> DEFINE S == {n \in Nat : n <= N => AnySeq(f[n])}
  <2>4. 0 \in S
    <3>1. << >> \in Seq({})
      OBVIOUS
    <3> QED BY <3>1, <2>2 DEF AnySeq
  <2>5. ASSUME NEW n \in S
        PROVE  n + 1 \in S
    <3>1. CASE n + 1 <= N
      <4> HIDE DEF N
      <4>1. n \in Nat /\ n + 1 \in 1 .. N /\ (n + 1) - 1 = n /\ AnySeq(f[n])
        BY <1>1, <3>1
      <4>2. f[n + 1] = f[n] \o parts[n + 1] /\ AnySeq(parts[n + 1])
        BY <4>1, <1>1, <2>3
      <4>3. AnySeq(f[n] \o parts[n + 1])
        BY ONLY <4>1, <4>2, JoinedSequence
      <4>4. AnySeq(f[n + 1])
        BY ONLY <4>2, <4>3
      <4> QED BY <4>1, <4>4
    <3> QED BY <3>1
  <2>6. S = Nat
    <3>1. S \in SUBSET Nat
      OBVIOUS
    <3> HIDE DEF S
    <3> QED BY <3>1, <2>4, <2>5, InductiveSet
  <2>7. ASSUME NEW n \in 0 .. N
        PROVE  AnySeq(f[n])
    <3>1. n \in S
      <4> HIDE DEF S
      <4> QED BY <1>1, <2>6
    <3> QED BY <3>1
  <2>8. f[N] = FlattenSeq(parts)
    <3>1. N \in 1 .. N
      BY <1>1, <1>3
    <3> QED BY <3>1, <2>1, <2>2 DEF Joins
  <2> QED BY <2>2, <2>3, <2>7, <2>8 DEF Flattens, Concatenates
<1> QED BY <1>2, <1>3

(* Each member of each part is at its offset in the flattened sequence, and   *)
(* nothing else is.                                                           *)
THEOREM FlattenPlaces ==
  ASSUME NEW parts, SeqOfSeqs(parts)
  PROVE  \E off : Placed(FlattenSeq(parts), parts, off)
<1> DEFINE N == Len(parts)
<1>1. N \in Nat /\ \A i \in 1 .. N : AnySeq(parts[i]) /\ Len(parts[i]) \in Nat
  BY SequenceParts DEF SeqOfSeqs
<1>2. PICK f : Flattens(f, parts)
  BY FlattenConcatenates
<1>3. PICK off : Offsets(off, parts)
  BY OffsetsExist DEF SeqOfSeqs
<1> DEFINE P(n) == /\ Len(f[n]) = off[n]
                   /\ \A a \in 1 .. n : \A b \in 1 .. Len(parts[a]) :
                        off[a - 1] + b \in 1 .. off[n] /\ f[n][off[a - 1] + b] = parts[a][b]
                   /\ \A i \in 1 .. off[n] :
                        \E a \in 1 .. n : \E b \in 1 .. Len(parts[a]) : i = off[a - 1] + b
           S == {n \in Nat : n <= N => P(n)}
<1>4. \A n \in 0 .. N : off[n] \in Nat
  BY <1>3 DEF Offsets
<1>5. 0 \in S
  <2>1. f[0] = << >> /\ off[0] = 0
    BY <1>2, <1>3 DEF Flattens, Concatenates, Offsets
  <2> QED BY <2>1
<1>6. ASSUME NEW n \in S, n + 1 <= N
      PROVE  P(n + 1)
  <2>1. n \in Nat /\ n \in 0 .. N /\ n + 1 \in 1 .. N /\ (n + 1) - 1 = n /\ P(n)
    BY <1>1, <1>6
  <2> HIDE DEF N
  <2>2. f[n + 1] = f[n] \o parts[n + 1] /\ AnySeq(f[n]) /\ AnySeq(parts[n + 1])
        /\ Len(parts[n + 1]) \in Nat
    BY <2>1, <1>1, <1>2 DEF Flattens, Concatenates, N
  <2>3. off[n + 1] = off[n] + Len(parts[n + 1]) /\ off[n] \in Nat
    BY <2>1, <1>3, <1>4 DEF Offsets, N
  <2>4. /\ Len(f[n + 1]) = off[n + 1]
        /\ \A i \in 1 .. off[n] : f[n + 1][i] = f[n][i]
        /\ \A i \in 1 .. Len(parts[n + 1]) : f[n + 1][i + off[n]] = parts[n + 1][i]
    <3> DEFINE p == f[n]
               q == parts[n + 1]
    <3>1. AnySeq(p) /\ AnySeq(q) /\ f[n + 1] = p \o q /\ Len(p) = off[n]
          /\ off[n + 1] = off[n] + Len(q)
      BY <2>1, <2>2, <2>3
    <3> HIDE DEF p, q
    <3>2. AnySeq(p) /\ AnySeq(q)
      BY <3>1
    <3>3. Len(p \o q) = Len(p) + Len(q)
      BY ONLY <3>2, JoinedSequence
    <3>4. \A i \in 1 .. Len(p) : (p \o q)[i] = p[i]
      BY ONLY <3>2, JoinedSequence
    <3>5. \A i \in 1 .. Len(q) : (p \o q)[i + Len(p)] = q[i]
      BY ONLY <3>2, JoinedSequence
    <3> QED BY <3>1, <3>3, <3>4, <3>5 DEF p, q
  <2>5. ASSUME NEW a \in 1 .. n + 1, NEW b \in 1 .. Len(parts[a])
        PROVE  off[a - 1] + b \in 1 .. off[n + 1] /\ f[n + 1][off[a - 1] + b] = parts[a][b]
    <3>1. CASE a = n + 1
      <4>1. b \in 1 .. Len(parts[n + 1]) /\ off[a - 1] + b = b + off[n] /\ b + off[n] \in 1 .. off[n + 1]
        BY <2>1, <2>2, <2>3, <3>1
      <4> QED BY <4>1, <3>1, <2>4
    <3>2. CASE a \in 1 .. n
      <4>1. off[a - 1] + b \in 1 .. off[n] /\ f[n][off[a - 1] + b] = parts[a][b]
        BY <2>1, <3>2
      <4>2. off[a - 1] + b \in 1 .. off[n + 1]
        BY <4>1, <2>2, <2>3
      <4> QED BY <4>1, <4>2, <2>4
    <3> QED BY <3>1, <3>2, <2>1
  <2>6. ASSUME NEW i \in 1 .. off[n + 1]
        PROVE  \E a \in 1 .. n + 1 : \E b \in 1 .. Len(parts[a]) : i = off[a - 1] + b
    <3>1. CASE i \in 1 .. off[n]
      <4>1. PICK a \in 1 .. n : \E b \in 1 .. Len(parts[a]) : i = off[a - 1] + b
        BY <2>1, <3>1
      <4>2. a \in 1 .. n + 1
        BY <2>1
      <4> QED BY <4>1, <4>2
    <3>2. CASE i \notin 1 .. off[n]
      <4> DEFINE u == off[n]
                 v == Len(parts[n + 1])
      <4>1. u \in Nat /\ v \in Nat /\ off[n + 1] = u + v /\ off[(n + 1) - 1] = u
        BY <2>1, <2>2, <2>3
      <4>3. i \in 1 .. u + v /\ i \notin 1 .. u
        BY <3>2, <4>1
      <4> HIDE DEF u, v
      <4>4. i - u \in 1 .. v /\ i = u + (i - u)
        BY <4>1, <4>3
      <4>5. i - off[n] \in 1 .. Len(parts[n + 1]) /\ i = off[(n + 1) - 1] + (i - off[n])
        BY <4>1, <4>4 DEF u, v
      <4>2. n + 1 \in 1 .. n + 1
        BY <2>1
      <4> QED BY <4>2, <4>5
    <3> QED BY <3>1, <3>2
  <2> QED BY <2>4, <2>5, <2>6
<1>7. ASSUME NEW n \in S
      PROVE  n + 1 \in S
  <2>1. n \in Nat /\ n + 1 \in Nat
    OBVIOUS
  <2>2. n + 1 <= N => P(n + 1)
    BY <1>6
  <2> HIDE DEF P, N
  <2> QED BY <2>1, <2>2
<1>8. S = Nat
  <2>1. S \in SUBSET Nat
    OBVIOUS
  <2> HIDE DEF S
  <2> QED BY <2>1, <1>5, <1>7, InductiveSet
<1>9. P(N)
  <2>1. N \in S
    <3> HIDE DEF S
    <3> QED BY <1>1, <1>8
  <2> HIDE DEF P
  <2> QED BY <2>1, <1>1
<1>10. f[N] = FlattenSeq(parts) /\ AnySeq(f[N])
  <2>1. N \in 0 .. N
    BY <1>1
  <2> QED BY <2>1, <1>2 DEF Flattens
<1>11. Placed(f[N], parts, off)
  <2>1. AnySeq(f[N]) /\ Len(f[N]) = off[N]
    BY <1>9, <1>10
  <2>2. /\ \A a \in 1 .. N : \A b \in 1 .. Len(parts[a]) :
             off[a - 1] + b \in 1 .. off[N] /\ f[N][off[a - 1] + b] = parts[a][b]
        /\ \A i \in 1 .. off[N] : \E a \in 1 .. N : \E b \in 1 .. Len(parts[a]) : i = off[a - 1] + b
    BY <1>9
  <2> QED BY <1>3, <2>1, <2>2 DEF Placed
<1> QED BY <1>10, <1>11

(* Parts of the same length are at multiples of it.                           *)
Uniform(flat, parts, m) ==
  /\ AnySeq(flat) /\ Len(flat) = Len(parts) * m
  /\ \A a \in 1 .. Len(parts) : \A b \in 1 .. m :
       (a - 1) * m + b \in 1 .. Len(flat) /\ flat[(a - 1) * m + b] = parts[a][b]
  /\ \A i \in 1 .. Len(flat) : \E a \in 1 .. Len(parts) : \E b \in 1 .. m : i = (a - 1) * m + b

(* Parts of one length are placed by division.                                *)
THEOREM UniformPlaces ==
  ASSUME NEW parts, SeqOfSeqs(parts), NEW m \in Nat, \A a \in 1 .. Len(parts) : Len(parts[a]) = m
  PROVE  Uniform(FlattenSeq(parts), parts, m)
<1> DEFINE N == Len(parts)
           flat == FlattenSeq(parts)
<1>1. N \in Nat
  BY SequenceParts DEF SeqOfSeqs
<1>2. PICK off : Placed(flat, parts, off)
  BY FlattenPlaces
<1> DEFINE times == [n \in 0 .. N |-> n * m]
<1>3. Agrees(off, times, N)
  <2>1. off[0] = times[0]
    BY <1>1, <1>2 DEF Placed, Offsets
  <2>2. ASSUME NEW n \in 1 .. N, off[n - 1] = times[n - 1]
        PROVE  off[n] = times[n]
    <3>1. off[n] = off[n - 1] + m
      BY <1>2 DEF Placed, Offsets
    <3>2. times[n - 1] = (n - 1) * m /\ times[n] = n * m
      BY <1>1
    <3>3. n * m = (n - 1) * m + m
      <4>1. n \in Nat \ {0}
        BY <1>1
      <4> QED BY <4>1
    <3> QED BY <2>2, <3>1, <3>2, <3>3
  <2> HIDE DEF times
  <2> QED BY <2>1, <2>2 DEF Agrees
<1>4. \A n \in 0 .. N : off[n] = n * m
  <2>1. \A n \in 0 .. N : off[n] = times[n]
    <3> HIDE DEF times, N
    <3> QED BY <1>1, <1>3, AgreeAlong
  <2> QED BY <2>1
<1>5. \A a \in 1 .. N : a - 1 \in 0 .. N
  BY <1>1
<1>6. \A a \in 1 .. N : off[a - 1] = (a - 1) * m
  BY <1>4, <1>5
<1>7. off[N] = N * m
  BY <1>1, <1>4
<1> HIDE DEF flat
<1>8. AnySeq(flat) /\ Len(flat) = N * m
  BY <1>2, <1>7 DEF Placed
<1>9. ASSUME NEW a \in 1 .. N, NEW b \in 1 .. m
      PROVE  (a - 1) * m + b \in 1 .. Len(flat) /\ flat[(a - 1) * m + b] = parts[a][b]
  <2>1. b \in 1 .. Len(parts[a])
    OBVIOUS
  <2>2. off[a - 1] + b \in 1 .. Len(flat) /\ flat[off[a - 1] + b] = parts[a][b]
    BY <1>2, <2>1 DEF Placed
  <2> QED BY <1>6, <2>2
<1>10. ASSUME NEW i \in 1 .. Len(flat)
       PROVE  \E a \in 1 .. N : \E b \in 1 .. m : i = (a - 1) * m + b
  <2>1. PICK a \in 1 .. N : \E b \in 1 .. Len(parts[a]) : i = off[a - 1] + b
    BY <1>2 DEF Placed
  <2> QED BY <1>6, <2>1
<1> QED BY <1>8, <1>9, <1>10 DEF flat, Uniform

-----------------------------------------------------------------------------
(* The combinations, one name after the other.                                *)
Spread(combos, name, values) ==
  FlattenSeq([i \in DOMAIN combos |->
    [j \in DOMAIN values |-> Extended(combos[i], [n \in {name} |-> values[j]])]])

(* d is c and a value for one more name.                                      *)
Gives(d, c, name, value) == d = Extended(c, [n \in {name} |-> value])

Spreads(flat, combos, name, values) ==
  /\ AnySeq(flat) /\ Len(flat) = Len(combos) * Len(values)
  /\ \A a \in 1 .. Len(combos) : \A b \in 1 .. Len(values) :
       /\ (a - 1) * Len(values) + b \in 1 .. Len(flat)
       /\ Gives(flat[(a - 1) * Len(values) + b], combos[a], name, values[b])
  /\ \A i \in 1 .. Len(flat) : \E a \in 1 .. Len(combos) : \E b \in 1 .. Len(values) :
       i = (a - 1) * Len(values) + b

(* One step of the combinations: each one so far with each value of the next  *)
(* name.                                                                      *)
THEOREM SpreadSpreads ==
  ASSUME NEW combos, AnySeq(combos), NEW name, NEW values, AnySeq(values)
  PROVE  Spreads(Spread(combos, name, values), combos, name, values)
<1> DEFINE m == Len(values)
           part(i) == [j \in DOMAIN values |-> Extended(combos[i], [n \in {name} |-> values[j]])]
           parts == [i \in DOMAIN combos |-> part(i)]
<1>1. m \in Nat /\ DOMAIN values = 1 .. m /\ Len(combos) \in Nat /\ DOMAIN combos = 1 .. Len(combos)
  BY SequenceParts
<1>2. ASSUME NEW i \in 1 .. Len(combos)
      PROVE  AnySeq(part(i)) /\ Len(part(i)) = m
  <2> DEFINE q == part(i)
  <2>1. DOMAIN q = 1 .. m /\ q = [j \in 1 .. m |-> q[j]]
    BY <1>1
  <2> HIDE DEF q
  <2>2. AnySeq(q) /\ Len(q) = m
    BY <1>1, <2>1, MadeSequence
  <2> QED BY <2>2 DEF q
<1>3. AnySeq(parts) /\ Len(parts) = Len(combos)
  <2>1. DOMAIN parts = 1 .. Len(combos) /\ parts = [i \in 1 .. Len(combos) |-> parts[i]]
    BY <1>1
  <2> HIDE DEF parts
  <2> QED BY <1>1, <2>1, MadeSequence
<1>4. \A i \in 1 .. Len(combos) : parts[i] = part(i)
  BY <1>1
<1>5. ASSUME NEW i \in 1 .. Len(combos), NEW j \in 1 .. m
      PROVE  parts[i][j] = Extended(combos[i], [n \in {name} |-> values[j]])
  <2>1. part(i)[j] = Extended(combos[i], [n \in {name} |-> values[j]])
    BY <1>1
  <2> QED BY <1>4, <2>1
<1> HIDE DEF part, m
<1>6. Spread(combos, name, values) = FlattenSeq(parts)
  BY DEF Spread, part
<1> HIDE DEF parts
<1>7. SeqOfSeqs(parts) /\ \A a \in 1 .. Len(parts) : Len(parts[a]) = m
  BY <1>2, <1>3, <1>4 DEF SeqOfSeqs
<1>8. Uniform(FlattenSeq(parts), parts, m)
  BY <1>1, <1>7, UniformPlaces
<1> DEFINE flat == FlattenSeq(parts)
<1> HIDE DEF flat
<1>9. Uniform(flat, parts, m)
  BY <1>8 DEF flat
<1>10. Spreads(flat, combos, name, values)
  BY <1>3, <1>5, <1>9 DEF Uniform, Spreads, Gives, m
<1> QED BY <1>6, <1>10 DEF flat

(* A sequence is one of the sequences of any set that has its members.        *)
THEOREM SequenceOver ==
  ASSUME NEW p, AnySeq(p), NEW S, \A i \in 1 .. Len(p) : p[i] \in S
  PROVE  p \in Seq(S)
<1>1. PICK T : p \in Seq(T)
  BY DEF AnySeq
<1>2. p = [i \in 1 .. Len(p) |-> p[i]] /\ Len(p) \in Nat
  BY <1>1
<1>3. p \in [1 .. Len(p) -> S]
  BY <1>2
<1> QED BY <1>2, <1>3

HasChoices(names, choices) ==
  AnySeq(names) /\ \A k \in 1 .. Len(names) : AnySeq(choices[names[k]])

Chain(f, names, choices) ==
  /\ f[0] = << << >> >>
  /\ \A n \in 1 .. Len(names) : f[n] = Spread(f[n - 1], names[n], choices[names[n]])

(* Combinations are built one name at a time.                                 *)
THEOREM CombinationsFold ==
  ASSUME NEW names, NEW choices, HasChoices(names, choices)
  PROVE  \E f : Chain(f, names, choices) /\ Combinations(names, choices) = f[Len(names)]
<1> DEFINE N == Len(names)
           W == UNION {ToSet(choices[names[k]]) : k \in 1 .. N}
           PF == UNION {[D -> W] : D \in SUBSET ToSet(names)}
           V == Seq(PF)
           step == [n \in 1 .. N |-> [v \in V |-> Spread(v, names[n], choices[names[n]])]]
           pick == [s \in SUBSET (1 .. N) |-> Max(s)]
           base == << << >> >>
           Eq(it) == it = [s \in SUBSET (DOMAIN names) |->
                             IF s = {} THEN << << >> >>
                             ELSE FlattenSeq([i \in DOMAIN it[s \ {Max(s)}] |->
                                    [j \in DOMAIN choices[names[Max(s)]] |->
                                       Extended(it[s \ {Max(s)}][i],
                                         [n \in {names[Max(s)]} |-> choices[names[Max(s)]][j]])]])]
<1>1. N \in Nat /\ DOMAIN names = 1 .. N
  BY SequenceParts DEF HasChoices
<1>2. ASSUME NEW n \in 1 .. N, NEW v \in V
      PROVE  Spread(v, names[n], choices[names[n]]) \in V
  <2> DEFINE values == choices[names[n]]
             flat == Spread(v, names[n], values)
  <2>1. AnySeq(v) /\ AnySeq(values)
    <3> HIDE DEF PF
    <3> QED BY DEF AnySeq, HasChoices
  <2>2. Spreads(flat, v, names[n], values)
    <3> HIDE DEF V, values
    <3> QED BY <2>1, SpreadSpreads
  <2>3. ASSUME NEW a \in 1 .. Len(v), NEW b \in 1 .. Len(values)
        PROVE  Extended(v[a], [x \in {names[n]} |-> values[b]]) \in PF
    <3>1. v[a] \in PF
      <4> HIDE DEF PF
      <4> QED OBVIOUS
    <3>2. PICK D \in SUBSET ToSet(names) : v[a] \in [D -> W]
      <4> HIDE DEF W
      <4> QED BY <3>1
    <3>3. values[b] \in W
      <4>1. DOMAIN values = 1 .. Len(values)
        BY <2>1, SequenceParts
      <4>2. values[b] \in ToSet(values)
        BY <4>1 DEF ToSet
      <4> QED BY <4>2
    <3>4. names[n] \in ToSet(names)
      BY <1>1 DEF ToSet
    <3> HIDE DEF W, values
    <3>5. Extended(v[a], [x \in {names[n]} |-> values[b]]) \in [D \cup {names[n]} -> W]
      BY <3>2, <3>3 DEF Extended
    <3> QED BY <3>4, <3>5
  <2> HIDE DEF values
  <2>4. \A i \in 1 .. Len(flat) : flat[i] \in PF
    <3> HIDE DEF PF, flat, V
    <3> SUFFICES ASSUME NEW i \in 1 .. Len(flat) PROVE flat[i] \in PF
      OBVIOUS
    <3>1. PICK a \in 1 .. Len(v), b \in 1 .. Len(values) : i = (a - 1) * Len(values) + b
      BY <2>2 DEF Spreads
    <3>2. flat[i] = Extended(v[a], [x \in {names[n]} |-> values[b]])
      BY <2>2, <3>1 DEF Spreads, Gives
    <3> QED BY <2>3, <3>2
  <2>5. AnySeq(flat)
    BY <2>2 DEF Spreads
  <2>6. flat \in Seq(PF)
    <3> HIDE DEF PF, flat
    <3> QED BY <2>4, <2>5, SequenceOver
  <2> QED BY <2>6 DEF values
<1>3. base \in V
  <2>1. << >> \in [{} -> W]
    OBVIOUS
  <2>2. [{} -> W] \in {[D -> W] : D \in SUBSET ToSet(names)}
    OBVIOUS
  <2>3. << >> \in PF
    <3> HIDE DEF W
    <3> QED BY <2>1, <2>2
  <2> HIDE DEF PF
  <2> QED BY <2>3
<1>4. \A s \in SUBSET (1 .. N) : s # {} => Max(s) \in s
  <2> HIDE DEF N
  <2> QED BY <1>1, IntervalEnds
<1> HIDE DEF V, N
<1>5. PICK made \in [SUBSET (1 .. N) -> V] : Folds(made, base, N, pick, step)
  <2>1. step \in [1 .. N -> [V -> V]]
    BY <1>2
  <2>2. \A s \in SUBSET (1 .. N) : s # {} => pick[s] \in s
    BY <1>4
  <2> HIDE DEF step, pick, base
  <2> QED BY <1>1, <1>3, <2>1, <2>2, FoldExists
<1>6. Eq(made)
  <2>1. ASSUME NEW s \in SUBSET (1 .. N), s # {}
        PROVE  made[s] = Spread(made[s \ {Max(s)}], names[Max(s)], choices[names[Max(s)]])
    <3>1. Max(s) \in 1 .. N /\ made[s \ {Max(s)}] \in V
      BY <1>4, <2>1
    <3>2. made[s] = step[Max(s)][made[s \ {Max(s)}]]
      <4>1. pick[s] = Max(s)
        OBVIOUS
      <4> HIDE DEF pick, step
      <4> QED BY <1>5, <2>1, <4>1 DEF Folds
    <3> QED BY <3>1, <3>2
  <2>2. made[{}] = << << >> >>
    BY <1>5 DEF Folds
  <2> HIDE DEF pick, step
  <2> QED BY <2>1, <2>2, <1>1 DEF Spread
<1> DEFINE it == CHOOSE it : Eq(it)
<1>7. Eq(it)
  <2> HIDE DEF Eq
  <2> QED BY <1>6
<1>8. Combinations(names, choices) = it[DOMAIN names]
  BY Zenon DEF Combinations, FoldLeft, MapThenFoldSet
<1> HIDE DEF it
<1> DEFINE f == [n \in 0 .. N |-> it[1 .. n]]
<1>9. f[0] = << << >> >>
  BY <1>1, <1>7
<1>10. ASSUME NEW n \in 1 .. N
       PROVE  f[n] = Spread(f[n - 1], names[n], choices[names[n]])
  <2>1. 1 .. n \in SUBSET (DOMAIN names) /\ 1 .. n # {}
    BY <1>1
  <2>2. Max(1 .. n) = n /\ (1 .. n) \ {n} = 1 .. n - 1
    BY <1>1, IntervalTop
  <2> DEFINE s == 1 .. n
  <2>3. it[s] = Spread(it[s \ {Max(s)}], names[Max(s)], choices[names[Max(s)]])
    <3>1. s \in SUBSET (DOMAIN names) /\ s # {}
      BY <2>1
    <3> HIDE DEF s
    <3> QED BY <3>1, <1>7 DEF Spread
  <2>4. it[1 .. n] = Spread(it[1 .. n - 1], names[n], choices[names[n]])
    BY <2>2, <2>3
  <2> QED BY <1>1, <2>4
<1>11. Combinations(names, choices) = f[N]
  BY <1>1, <1>8
<1> HIDE DEF f
<1> QED BY <1>9, <1>10, <1>11 DEF Chain, N

(* Each step of the chain spreads the one before.                             *)
Grows(f, names, choices) ==
  /\ f[0] = << << >> >> /\ \A n \in 0 .. Len(names) : AnySeq(f[n])
  /\ \A n \in 1 .. Len(names) : Spreads(f[n], f[n - 1], names[n], choices[names[n]])

(* The combinations of the first names grow from those of one name fewer.     *)
THEOREM ChainGrows ==
  ASSUME NEW names, NEW choices, HasChoices(names, choices), NEW f, Chain(f, names, choices)
  PROVE  Grows(f, names, choices)
<1> DEFINE N == Len(names)
           S == {n \in Nat : n <= N => AnySeq(f[n])}
<1>1. N \in Nat /\ \A n \in 1 .. N : AnySeq(choices[names[n]])
  BY SequenceParts DEF HasChoices
<1>2. ASSUME NEW n \in 1 .. N, AnySeq(f[n - 1])
      PROVE  AnySeq(f[n]) /\ Spreads(f[n], f[n - 1], names[n], choices[names[n]])
  <2>1. f[n] = Spread(f[n - 1], names[n], choices[names[n]])
    BY DEF Chain
  <2>2. Spreads(Spread(f[n - 1], names[n], choices[names[n]]), f[n - 1], names[n], choices[names[n]])
    <3> HIDE DEF N
    <3> QED BY <1>1, <1>2, SpreadSpreads
  <2>3. Spreads(f[n], f[n - 1], names[n], choices[names[n]])
    BY <2>1, <2>2
  <2> QED BY <2>3 DEF Spreads
<1>3. 0 \in S
  <2>1. f[0] = << << >> >> /\ << << >> >> \in Seq({<< >>})
    BY DEF Chain
  <2> QED BY <2>1 DEF AnySeq
<1>4. ASSUME NEW n \in S
      PROVE  n + 1 \in S
  <2>1. CASE n + 1 <= N
    <3>1. n \in Nat /\ n + 1 \in 1 .. N /\ (n + 1) - 1 = n /\ AnySeq(f[n])
      BY <1>1, <2>1
    <3>2. AnySeq(f[n + 1])
      <4> HIDE DEF N, S
      <4> QED BY <3>1, <1>2
    <3> QED BY <3>1, <3>2
  <2> QED BY <2>1
<1>5. S = Nat
  <2>1. S \in SUBSET Nat
    OBVIOUS
  <2> HIDE DEF S
  <2> QED BY <2>1, <1>3, <1>4, InductiveSet
<1>6. ASSUME NEW n \in 0 .. N
      PROVE  AnySeq(f[n])
  <2>1. n \in S
    <3> HIDE DEF S
    <3> QED BY <1>1, <1>5
  <2> QED BY <2>1
<1>7. \A n \in 1 .. N : n - 1 \in 0 .. N
  BY <1>1
<1> HIDE DEF N, S
<1> QED BY <1>2, <1>6, <1>7 DEF Grows, Chain, N

(* The place of a combination is the number that the places of its choices    *)
(* are the digits of: st[k][n] is the product of the lengths from k + 1 to n. *)
Strides(st, shape, N) ==
  /\ shape \in [1 .. N -> Nat] /\ st \in [0 .. N -> [0 .. N -> Nat]]
  /\ \A k \in 0 .. N : st[k][k] = 1
  /\ \A k \in 0 .. N : \A n \in k + 1 .. N : st[k][n] = st[k][n - 1] * shape[n]

Distinct(names) == \A i, k \in 1 .. Len(names) : names[i] = names[k] => i = k

NamesUpto(names, n) == {names[k] : k \in 1 .. n}

Combination(c, names, choices, n) ==
  /\ DOMAIN c = NamesUpto(names, n) /\ c = [x \in NamesUpto(names, n) |-> c[x]]
  /\ \A k \in 1 .. n : \E j \in 1 .. Len(choices[names[k]]) : c[names[k]] = choices[names[k]][j]

Digit(p, st, shape, k, n) == (((p - 1) \div st[k][n]) % shape[k]) + 1

InOrder(combos, names, choices, shape, st, n) ==
  /\ Len(combos) = st[0][n]
  /\ \A p \in 1 .. Len(combos) :
       /\ Combination(combos[p], names, choices, n)
       /\ \A k \in 1 .. n : st[k][n] # 0 /\ shape[k] # 0
                            /\ combos[p][names[k]] = choices[names[k]][Digit(p, st, shape, k, n)]

(* A combination and a choice for one more name.                              *)
THEOREM ExtendedCombination ==
  ASSUME NEW names, AnySeq(names), Distinct(names), NEW choices, NEW m \in Nat, m + 1 <= Len(names),
         NEW c, Combination(c, names, choices, m), NEW b \in 1 .. Len(choices[names[m + 1]]),
         NEW d, Gives(d, c, names[m + 1], choices[names[m + 1]][b])
  PROVE  /\ Combination(d, names, choices, m + 1)
         /\ d[names[m + 1]] = choices[names[m + 1]][b]
         /\ \A x \in NamesUpto(names, m) : d[x] = c[x]
<1> DEFINE name == names[m + 1]
           D == NamesUpto(names, m)
           E == NamesUpto(names, m + 1)
<1>1. Len(names) \in Nat
  BY SequenceParts
<1>2. E = D \cup {name}
  <2>1. 1 .. m + 1 = (1 .. m) \cup {m + 1}
    OBVIOUS
  <2> QED BY <2>1 DEF NamesUpto
<1>3. name \notin D
  <2>1. ASSUME NEW k \in 1 .. m
        PROVE  names[k] # name
    <3>1. k \in 1 .. Len(names) /\ m + 1 \in 1 .. Len(names) /\ k # m + 1
      BY <1>1
    <3> QED BY <3>1 DEF Distinct
  <2> QED BY <2>1 DEF NamesUpto
<1>4. DOMAIN c = D /\ c = [x \in D |-> c[x]]
  BY DEF Combination
<1>5. d = [x \in E |-> IF x \in D THEN c[x] ELSE choices[name][b]]
  <2>1. Extended(c, [n \in {name} |-> choices[name][b]])
          = [x \in D \cup {name} |-> IF x \in D THEN c[x] ELSE [n \in {name} |-> choices[name][b]][x]]
    BY <1>4 DEF Extended
  <2> HIDE DEF D, E
  <2>2. \A x \in D \cup {name} : x \notin D => [n \in {name} |-> choices[name][b]][x] = choices[name][b]
    OBVIOUS
  <2>3. d = Extended(c, [n \in {name} |-> choices[name][b]])
    BY DEF Gives
  <2> QED BY <1>2, <2>1, <2>2, <2>3
<1> HIDE DEF D, E
<1>6. d[name] = choices[name][b] /\ \A x \in D : d[x] = c[x]
  BY <1>2, <1>3, <1>5
<1>7. DOMAIN d = E /\ d = [x \in E |-> d[x]]
  BY <1>5
<1>8. ASSUME NEW k \in 1 .. m + 1
      PROVE  \E j \in 1 .. Len(choices[names[k]]) : d[names[k]] = choices[names[k]][j]
  <2>1. CASE k = m + 1
    BY <1>6, <2>1
  <2>2. CASE k \in 1 .. m
    <3>1. names[k] \in D
      BY <2>2 DEF D, NamesUpto
    <3> QED BY <1>6, <2>2, <3>1 DEF Combination
  <2> QED BY <2>1, <2>2
<1> QED BY <1>6, <1>7, <1>8 DEF Combination, D, E

(* In C order the digits of a combination's place count its choices.          *)
THEOREM ChainOrder ==
  ASSUME NEW names, NEW choices, HasChoices(names, choices), Distinct(names),
         NEW f, Grows(f, names, choices), NEW shape, NEW st, Strides(st, shape, Len(names)),
         \A k \in 1 .. Len(names) : shape[k] = Len(choices[names[k]])
  PROVE  \A n \in 0 .. Len(names) : InOrder(f[n], names, choices, shape, st, n)
<1> DEFINE N == Len(names)
           S == {n \in Nat : n <= N => InOrder(f[n], names, choices, shape, st, n)}
<1>1. N \in Nat /\ AnySeq(names)
  BY SequenceParts DEF HasChoices
<1>2. \A k \in 0 .. N, n \in 0 .. N : st[k][n] \in Nat
  BY DEF Strides
<1>3. InOrder(f[0], names, choices, shape, st, 0)
  <2>1. f[0] = << << >> >> /\ Len(f[0]) = 1 /\ f[0][1] = << >>
    BY DEF Grows
  <2>2. st[0][0] = 1
    BY <1>1 DEF Strides
  <2>3. Combination(<< >>, names, choices, 0)
    <3>1. NamesUpto(names, 0) = {}
      BY DEF NamesUpto
    <3>2. DOMAIN << >> = {} /\ << >> = [x \in {} |-> << >>[x]]
      OBVIOUS
    <3> QED BY <3>1, <3>2 DEF Combination
  <2>4. \A p \in 1 .. Len(f[0]) : p = 1
    BY <2>1
  <2> QED BY <2>1, <2>2, <2>3, <2>4 DEF InOrder
<1>4. ASSUME NEW m \in Nat, m + 1 <= N, InOrder(f[m], names, choices, shape, st, m)
      PROVE  InOrder(f[m + 1], names, choices, shape, st, m + 1)
  <2> DEFINE name == names[m + 1]
             values == choices[name]
             L == Len(values)
             flat == f[m + 1]
             combos == f[m]
  <2>1. m + 1 \in 1 .. N /\ (m + 1) - 1 = m /\ m \in 0 .. N /\ m + 1 \in 0 .. N
    BY <1>1, <1>4
  <2>2. Spreads(flat, combos, name, values)
    BY <2>1 DEF Grows
  <2>3. L \in Nat /\ Len(combos) \in Nat /\ shape[m + 1] = L
    <3>1. AnySeq(values) /\ AnySeq(combos)
      BY <2>1 DEF HasChoices, Grows
    <3> QED BY <2>1, <3>1, SequenceParts
  <2>4. Len(flat) = st[0][m + 1]
    <3>1. st[0][m + 1] = st[0][m] * shape[m + 1]
      <4>1. m + 1 \in 0 + 1 .. N /\ 0 \in 0 .. N
        BY <2>1
      <4> QED BY <2>1, <4>1 DEF Strides
    <3>2. Len(flat) = Len(combos) * L
      BY <2>2 DEF Spreads
    <3> QED BY <1>4, <2>3, <3>1, <3>2 DEF InOrder
  <2>5. ASSUME NEW i \in 1 .. Len(flat)
        PROVE  /\ Combination(flat[i], names, choices, m + 1)
               /\ \A k \in 1 .. m + 1 :
                    st[k][m + 1] # 0 /\ shape[k] # 0
                    /\ flat[i][names[k]] = choices[names[k]][Digit(i, st, shape, k, m + 1)]
    <3> HIDE DEF flat, combos, values, L
    <3>1. PICK a \in 1 .. Len(combos), b \in 1 .. L : i = (a - 1) * L + b
      BY <2>2 DEF Spreads, L
    <3>2. Gives(flat[i], combos[a], name, values[b])
      BY <2>2, <3>1 DEF Spreads, L
    <3>3. Combination(combos[a], names, choices, m)
      BY <1>4, <3>1 DEF InOrder, combos
    <3>4. /\ Combination(flat[i], names, choices, m + 1)
          /\ flat[i][names[m + 1]] = values[b]
          /\ \A x \in NamesUpto(names, m) : flat[i][x] = combos[a][x]
      <4>1. m + 1 <= Len(names) /\ b \in 1 .. Len(choices[names[m + 1]])
        BY <1>4, <3>1 DEF L, values
      <4>2. Gives(flat[i], combos[a], names[m + 1], choices[names[m + 1]][b])
        BY <3>2 DEF values
      <4>3. m \in Nat /\ AnySeq(names) /\ Distinct(names)
        BY <1>1
      <4>4. Combination(flat[i], names, choices, m + 1)
        BY ONLY <3>3, <4>1, <4>2, <4>3, ExtendedCombination
      <4>5. flat[i][names[m + 1]] = choices[names[m + 1]][b]
        BY ONLY <3>3, <4>1, <4>2, <4>3, ExtendedCombination
      <4>6. \A x \in NamesUpto(names, m) : flat[i][x] = combos[a][x]
        BY ONLY <3>3, <4>1, <4>2, <4>3, ExtendedCombination
      <4> QED BY <4>4, <4>5, <4>6 DEF values
    <3>5. a - 1 \in Nat /\ L \in Nat \ {0} /\ b - 1 \in 0 .. L - 1 /\ i - 1 = (a - 1) * L + (b - 1)
      <4>1. a \in Nat \ {0} /\ b \in Nat \ {0} /\ b <= L /\ (a - 1) * L \in Nat
        BY <2>3, <3>1
      <4> QED BY <2>3, <3>1, <4>1
    <3>6. (i - 1) \div L = a - 1 /\ (i - 1) % L = b - 1 /\ i - 1 \in Nat
      <4> DEFINE x == a - 1
                 y == b - 1
      <4>1. x \in Nat /\ L \in Nat \ {0} /\ y \in 0 .. L - 1 /\ i - 1 = x * L + y
        BY <3>5
      <4> HIDE DEF x, y
      <4>2. x * L + y \in Nat /\ (x * L + y) \div L = x /\ (x * L + y) % L = y
        BY ONLY <4>1, Quotient
      <4>3. (i - 1) \div L = x /\ (i - 1) % L = y /\ i - 1 \in Nat
        BY <4>1, <4>2
      <4> QED BY <4>3 DEF x, y
    <3>7. ASSUME NEW k \in 1 .. m + 1
          PROVE  /\ st[k][m + 1] # 0 /\ shape[k] # 0
                 /\ flat[i][names[k]] = choices[names[k]][Digit(i, st, shape, k, m + 1)]
      <4>1. CASE k = m + 1
        <5>1. st[k][m + 1] = 1 /\ shape[k] = L
          BY <2>1, <2>3, <4>1 DEF Strides
        <5>2. (i - 1) \div 1 = i - 1
          BY <3>6
        <5>3. Digit(i, st, shape, k, m + 1) = b
          BY <3>1, <3>6, <5>1, <5>2 DEF Digit
        <5> QED BY <3>4, <3>5, <4>1, <5>1, <5>3 DEF values
      <4>2. CASE k \in 1 .. m
        <5>1. /\ st[k][m] # 0 /\ shape[k] # 0
              /\ combos[a][names[k]] = choices[names[k]][Digit(a, st, shape, k, m)]
          BY <1>4, <3>1, <4>2 DEF InOrder, combos
        <5>2. k \in 0 .. N /\ m + 1 \in k + 1 .. N
          BY <1>1, <2>1, <4>2
        <5>3. st[k][m + 1] = st[k][m] * L /\ st[k][m] \in Nat
          BY <1>2, <2>1, <2>3, <5>2 DEF Strides
        <5>4. st[k][m + 1] # 0
          BY <3>5, <5>1, <5>3, ProductIsNat
        <5>5. (i - 1) \div st[k][m + 1] = (a - 1) \div st[k][m]
          <6>1. (i - 1) \div (st[k][m] * L) = ((i - 1) \div L) \div st[k][m]
            BY <3>5, <3>6, <5>1, <5>3, QuotientOfQuotient
          <6> QED BY <3>6, <5>3, <6>1
        <5>6. Digit(i, st, shape, k, m + 1) = Digit(a, st, shape, k, m)
          BY <5>5 DEF Digit
        <5>7. names[k] \in NamesUpto(names, m)
          BY <4>2 DEF NamesUpto
        <5> QED BY <3>4, <5>1, <5>4, <5>6, <5>7
      <4> QED BY <4>1, <4>2
    <3> QED BY <3>4, <3>7
  <2> QED BY <2>4, <2>5 DEF InOrder
<1>5. 0 \in S
  BY <1>3
<1>6. ASSUME NEW n \in S
      PROVE  n + 1 \in S
  <2>1. n \in Nat /\ n + 1 \in Nat /\ (n + 1 <= N => n <= N)
    BY <1>1
  <2> QED BY <2>1, <1>4
<1>7. S = Nat
  <2>1. S \in SUBSET Nat
    OBVIOUS
  <2> HIDE DEF S
  <2> QED BY <2>1, <1>5, <1>6, InductiveSet
<1> SUFFICES ASSUME NEW n \in 0 .. N PROVE InOrder(f[n], names, choices, shape, st, n)
  OBVIOUS
<1>8. n \in S
  <2> HIDE DEF S
  <2> QED BY <1>1, <1>7
<1> QED BY <1>8

(* Every combination occurs.                                                  *)
THEOREM ChainCovers ==
  ASSUME NEW names, NEW choices, HasChoices(names, choices), Distinct(names),
         NEW f, Grows(f, names, choices)
  PROVE  \A n \in 0 .. Len(names) : \A c :
           Combination(c, names, choices, n) => \E p \in 1 .. Len(f[n]) : f[n][p] = c
<1> DEFINE N == Len(names)
           Covered(n) == \A c : Combination(c, names, choices, n) => \E p \in 1 .. Len(f[n]) : f[n][p] = c
           S == {n \in Nat : n <= N => Covered(n)}
<1>1. N \in Nat /\ AnySeq(names)
  BY SequenceParts DEF HasChoices
<1>2. Covered(0)
  <2> SUFFICES ASSUME NEW c, Combination(c, names, choices, 0)
               PROVE  \E p \in 1 .. Len(f[0]) : f[0][p] = c
    OBVIOUS
  <2>1. f[0] = << << >> >> /\ Len(f[0]) = 1 /\ f[0][1] = << >>
    BY DEF Grows
  <2>2. NamesUpto(names, 0) = {}
    BY DEF NamesUpto
  <2>3. c = << >>
    <3>1. c = [x \in {} |-> c[x]]
      BY <2>2 DEF Combination
    <3>2. << >> = [x \in {} |-> c[x]]
      OBVIOUS
    <3> QED BY <3>1, <3>2
  <2> QED BY <2>1, <2>3
<1>3. ASSUME NEW m \in Nat, m + 1 <= N, Covered(m)
      PROVE  Covered(m + 1)
  <2> SUFFICES ASSUME NEW c, Combination(c, names, choices, m + 1)
               PROVE  \E p \in 1 .. Len(f[m + 1]) : f[m + 1][p] = c
    OBVIOUS
  <2> DEFINE name == names[m + 1]
             values == choices[name]
             D == NamesUpto(names, m)
             E == NamesUpto(names, m + 1)
             rest == [x \in D |-> c[x]]
  <2>1. m + 1 \in 1 .. N /\ (m + 1) - 1 = m
    BY <1>1, <1>3
  <2>2. Spreads(f[m + 1], f[m], name, values)
    BY <2>1 DEF Grows
  <2>3. Combination(rest, names, choices, m)
    <3>1. DOMAIN rest = D /\ rest = [x \in D |-> rest[x]]
      OBVIOUS
    <3>2. ASSUME NEW k \in 1 .. m
          PROVE  \E j \in 1 .. Len(choices[names[k]]) : rest[names[k]] = choices[names[k]][j]
      <4>1. names[k] \in D /\ k \in 1 .. m + 1
        BY <3>2 DEF NamesUpto
      <4>2. rest[names[k]] = c[names[k]]
        BY <4>1
      <4> QED BY <4>1, <4>2 DEF Combination
    <3> HIDE DEF rest
    <3> QED BY <3>1, <3>2 DEF Combination
  <2>4. PICK a \in 1 .. Len(f[m]) : f[m][a] = rest
    <3> HIDE DEF rest
    <3> QED BY <1>3, <2>3
  <2>5. PICK b \in 1 .. Len(values) : c[name] = values[b]
    BY <2>1 DEF Combination
  <2>6. c = Extended(rest, [n \in {name} |-> values[b]])
    <3>1. E = D \cup {name}
      <4>1. 1 .. m + 1 = (1 .. m) \cup {m + 1}
        BY <2>1
      <4> QED BY <4>1 DEF NamesUpto
    <3>2. c = [x \in E |-> c[x]]
      BY DEF Combination
    <3>3. Extended(rest, [n \in {name} |-> values[b]])
            = [x \in D \cup {name} |-> IF x \in D THEN rest[x] ELSE [n \in {name} |-> values[b]][x]]
      BY DEF Extended
    <3>4. \A x \in D : rest[x] = c[x]
      OBVIOUS
    <3>5. \A x \in D \cup {name} : x \notin D => [n \in {name} |-> values[b]][x] = c[x]
      BY <2>5
    <3> HIDE DEF D, E, rest, values, name
    <3> QED BY <3>1, <3>2, <3>3, <3>4, <3>5
  <2>7. /\ (a - 1) * Len(values) + b \in 1 .. Len(f[m + 1])
        /\ f[m + 1][(a - 1) * Len(values) + b] = Extended(f[m][a], [n \in {name} |-> values[b]])
    <3> HIDE DEF values, name
    <3> QED BY <2>2, <2>4, <2>5 DEF Spreads, Gives
  <2> HIDE DEF rest, values
  <2> QED BY <2>4, <2>6, <2>7
<1>4. 0 \in S
  <2> HIDE DEF Covered
  <2> QED BY <1>2
<1>5. ASSUME NEW n \in S
      PROVE  n + 1 \in S
  <2> HIDE DEF Covered
  <2>1. n \in Nat /\ n + 1 \in Nat /\ (n + 1 <= N => n <= N)
    BY <1>1
  <2> QED BY <2>1, <1>3
<1>6. S = Nat
  <2>1. S \in SUBSET Nat
    OBVIOUS
  <2> HIDE DEF S
  <2> QED BY <2>1, <1>4, <1>5, InductiveSet
<1> SUFFICES ASSUME NEW n \in 0 .. N PROVE Covered(n)
  OBVIOUS
<1>7. n \in S
  <2> HIDE DEF S
  <2> QED BY <1>1, <1>6
<1> HIDE DEF Covered
<1> QED BY <1>7

(* No combination occurs twice, if no choice does.                            *)
THEOREM ChainDistinct ==
  ASSUME NEW names, NEW choices, HasChoices(names, choices), Distinct(names),
         \A k \in 1 .. Len(names) : Distinct(choices[names[k]]),
         NEW f, Grows(f, names, choices),
         \A n \in 0 .. Len(names) : \A p \in 1 .. Len(f[n]) : Combination(f[n][p], names, choices, n)
  PROVE  \A n \in 0 .. Len(names) : Distinct(f[n])
<1> DEFINE N == Len(names)
           S == {n \in Nat : n <= N => Distinct(f[n])}
<1>1. N \in Nat /\ AnySeq(names)
  BY SequenceParts DEF HasChoices
<1>2. 0 \in S
  <2>1. f[0] = << << >> >> /\ Len(f[0]) = 1
    BY DEF Grows
  <2> QED BY <2>1 DEF Distinct
<1>3. ASSUME NEW m \in Nat, m + 1 <= N, Distinct(f[m])
      PROVE  Distinct(f[m + 1])
  <2> DEFINE name == names[m + 1]
             values == choices[name]
             flat == f[m + 1]
             combos == f[m]
             L == Len(values)
  <2>1. m + 1 \in 1 .. N /\ (m + 1) - 1 = m /\ m \in 0 .. N
    BY <1>1, <1>3
  <2>2. Spreads(flat, combos, name, values)
    BY <2>1 DEF Grows
  <2>3. \A p \in 1 .. Len(combos) : Combination(combos[p], names, choices, m)
    BY <2>1
  <2>4. Distinct(values) /\ Distinct(combos)
    BY <1>3, <2>1
  <2> HIDE DEF flat, combos
  <2>5. ASSUME NEW i \in 1 .. Len(flat)
        PROVE  \E a \in 1 .. Len(combos), b \in 1 .. L :
                 /\ i = (a - 1) * L + b /\ flat[i][name] = values[b]
                 /\ \A x \in NamesUpto(names, m) : flat[i][x] = combos[a][x]
    <3>1. PICK a \in 1 .. Len(combos), b \in 1 .. L : i = (a - 1) * L + b
      BY <2>2 DEF Spreads
    <3>2. Gives(flat[i], combos[a], name, values[b])
      BY <2>2, <3>1 DEF Spreads
    <3>3. m + 1 <= Len(names) /\ Combination(combos[a], names, choices, m)
      BY <1>3, <2>3
    <3>4. flat[i][names[m + 1]] = choices[names[m + 1]][b]
      BY <1>1, <3>2, <3>3, ExtendedCombination
    <3>5. \A x \in NamesUpto(names, m) : flat[i][x] = combos[a][x]
      BY <1>1, <3>2, <3>3, ExtendedCombination
    <3> QED BY <3>1, <3>4, <3>5
  <2>6. ASSUME NEW i \in 1 .. Len(flat), NEW k \in 1 .. Len(flat), flat[i] = flat[k]
        PROVE  i = k
    <3>1. PICK a \in 1 .. Len(combos), b \in 1 .. L :
                 /\ i = (a - 1) * L + b /\ flat[i][name] = values[b]
                 /\ \A x \in NamesUpto(names, m) : flat[i][x] = combos[a][x]
      BY <2>5
    <3>2. PICK aa \in 1 .. Len(combos), bb \in 1 .. L :
                 /\ k = (aa - 1) * L + bb /\ flat[k][name] = values[bb]
                 /\ \A x \in NamesUpto(names, m) : flat[k][x] = combos[aa][x]
      BY <2>5
    <3>3. b = bb
      <4>1. values[b] = values[bb]
        BY <2>6, <3>1, <3>2
      <4>2. b \in 1 .. Len(values) /\ bb \in 1 .. Len(values)
        OBVIOUS
      <4> HIDE DEF values
      <4> QED BY <2>4, <4>1, <4>2 DEF Distinct
    <3>4. combos[a] = combos[aa]
      <4>1. /\ combos[a] = [x \in NamesUpto(names, m) |-> combos[a][x]]
            /\ combos[aa] = [x \in NamesUpto(names, m) |-> combos[aa][x]]
        BY <2>3 DEF Combination
      <4>2. \A x \in NamesUpto(names, m) : combos[a][x] = combos[aa][x]
        BY <2>6, <3>1, <3>2
      <4> QED BY <4>1, <4>2
    <3>5. a = aa
      BY <2>4, <3>4 DEF Distinct
    <3> QED BY <3>1, <3>2, <3>3, <3>5
  <2> QED BY <2>6 DEF Distinct, flat
<1>4. ASSUME NEW n \in S
      PROVE  n + 1 \in S
  <2>1. n \in Nat /\ n + 1 \in Nat /\ (n + 1 <= N => n <= N)
    BY <1>1
  <2> QED BY <2>1, <1>3
<1>5. S = Nat
  <2>1. S \in SUBSET Nat
    OBVIOUS
  <2> HIDE DEF S
  <2> QED BY <2>1, <1>2, <1>4, InductiveSet
<1> SUFFICES ASSUME NEW n \in 0 .. N PROVE Distinct(f[n])
  OBVIOUS
<1>6. n \in S
  <2> HIDE DEF S
  <2> QED BY <1>1, <1>5
<1> QED BY <1>6

(* Combinations in one theorem: each occurs, in C order, once.                *)
AllCombinations(combos, names, choices, shape, st) ==
  /\ AnySeq(combos) /\ InOrder(combos, names, choices, shape, st, Len(names))
  /\ \A c : Combination(c, names, choices, Len(names)) => \E p \in 1 .. Len(combos) : combos[p] = c
  /\ (\A k \in 1 .. Len(names) : Distinct(choices[names[k]])) => Distinct(combos)

(* The combinations are all there are, each once and in C order.              *)
THEOREM CombinationsAreAll ==
  ASSUME NEW names, NEW choices, HasChoices(names, choices), Distinct(names),
         NEW shape, NEW st, Strides(st, shape, Len(names)),
         \A k \in 1 .. Len(names) : shape[k] = Len(choices[names[k]])
  PROVE  AllCombinations(Combinations(names, choices), names, choices, shape, st)
<1> DEFINE N == Len(names)
<1>1. N \in Nat /\ N \in 0 .. N
  BY SequenceParts DEF HasChoices
<1>2. PICK f : Chain(f, names, choices) /\ Combinations(names, choices) = f[N]
  BY CombinationsFold
<1>3. Grows(f, names, choices)
  BY <1>2, ChainGrows
<1>4. \A n \in 0 .. N : InOrder(f[n], names, choices, shape, st, n)
  BY <1>3, ChainOrder
<1>5. AnySeq(f[N])
  BY <1>1, <1>3 DEF Grows
<1>6. \A c : Combination(c, names, choices, N) => \E p \in 1 .. Len(f[N]) : f[N][p] = c
  BY <1>1, <1>3, ChainCovers
<1>7. ASSUME \A k \in 1 .. N : Distinct(choices[names[k]])
      PROVE  Distinct(f[N])
  <2>1. \A n \in 0 .. N : \A p \in 1 .. Len(f[n]) : Combination(f[n][p], names, choices, n)
    BY <1>4 DEF InOrder
  <2> QED BY <1>1, <1>3, <1>7, <2>1, ChainDistinct
<1> QED BY <1>1, <1>2, <1>4, <1>5, <1>6, <1>7 DEF AllCombinations

(* The products of the lengths from one index to another.                     *)
THEOREM ProductAppend ==
  ASSUME NEW n \in Nat, NEW short \in [1 .. n -> Nat], NEW long \in [1 .. n + 1 -> Nat],
         \A i \in 1 .. n : short[i] = long[i]
  PROVE  Product(long) = Product(short) * long[n + 1] /\ Product(short) \in Nat
<1>1. PICK f : f \in [0 .. n -> Nat] /\ Products(f, n, short) /\ Product(short) = f[n]
  BY ProductFold
<1>2. PICK g : g \in [0 .. n + 1 -> Nat] /\ Products(g, n + 1, long) /\ Product(long) = g[n + 1]
  <2>1. n + 1 \in Nat
    OBVIOUS
  <2> QED BY <2>1, ProductFold
<1>3. Agrees(f, g, n)
  <2>1. ASSUME NEW i \in 1 .. n, f[i - 1] = g[i - 1]
        PROVE  f[i] = g[i]
    <3>1. f[i] = f[i - 1] * short[i]
      BY <1>1 DEF Products
    <3>2. i \in 1 .. n + 1
      OBVIOUS
    <3>3. g[i] = g[i - 1] * long[i]
      BY <1>2, <3>2 DEF Products
    <3> QED BY <2>1, <3>1, <3>3
  <2> QED BY <1>1, <1>2, <2>1 DEF Products, Agrees
<1>4. n \in 0 .. n /\ n + 1 \in 1 .. n + 1 /\ (n + 1) - 1 = n
  OBVIOUS
<1>5. f[n] = g[n]
  <2>1. \A i \in 0 .. n : f[i] = g[i]
    BY <1>3, AgreeAlong
  <2> QED BY <1>4, <2>1
<1>6. g[n + 1] = g[n] * long[n + 1]
  BY <1>2, <1>4 DEF Products
<1> QED BY <1>1, <1>2, <1>4, <1>5, <1>6

ShapeStrides(shape, N) == [k \in 0 .. N |-> [n \in 0 .. N |-> Product(SubSeq(shape, k + 1, n))]]

(* The strides of a shape are the products of the lengths after each          *)
(* dimension.                                                                 *)
THEOREM StridesOfShape ==
  ASSUME NEW N \in Nat, NEW shape \in [1 .. N -> Nat]
  PROVE  Strides(ShapeStrides(shape, N), shape, N)
<1> DEFINE part(k, n) == SubSeq(shape, k + 1, n)
           st == ShapeStrides(shape, N)
<1>1. ASSUME NEW k \in 0 .. N, NEW n \in 0 .. N
      PROVE  /\ k <= n => part(k, n) \in [1 .. n - k -> Nat]
             /\ \A i \in 1 .. n - k : part(k, n)[i] = shape[k + i]
             /\ k >= n => part(k, n) = << >>
  <2>1. part(k, n) = [i \in 1 .. (n - (k + 1)) + 1 |-> shape[((k + 1) + i) - 1]]
    BY DEF SubSeq
  <2>2. (n - (k + 1)) + 1 = n - k /\ \A i \in 1 .. n - k : ((k + 1) + i) - 1 = k + i
    OBVIOUS
  <2>3. part(k, n) = [i \in 1 .. n - k |-> shape[k + i]]
    <3> HIDE DEF part
    <3> QED BY <2>1, <2>2
  <2>4. \A i \in 1 .. n - k : k + i \in 1 .. N
    OBVIOUS
  <2>5. k >= n => 1 .. n - k = {}
    OBVIOUS
  <2>6. << >> = [i \in {} |-> shape[k + i]]
    OBVIOUS
  <2> HIDE DEF part
  <2> QED BY <2>3, <2>4, <2>5, <2>6
<1>2. ASSUME NEW k \in 0 .. N, NEW n \in 0 .. N
      PROVE  st[k][n] = Product(part(k, n)) /\ st[k][n] \in Nat
  <2>1. st[k][n] = Product(part(k, n))
    BY DEF ShapeStrides
  <2>2. CASE k <= n
    <3>1. n - k \in Nat /\ part(k, n) \in [1 .. n - k -> Nat]
      BY <1>1, <2>2
    <3> HIDE DEF part, st
    <3>2. PICK f \in [0 .. n - k -> Nat] : Product(part(k, n)) = f[n - k]
      BY <3>1, ProductFold
    <3>3. f[n - k] \in Nat
      BY <3>1, <3>2
    <3> QED BY <2>1, <3>2, <3>3
  <2>3. CASE k > n
    <3>1. part(k, n) = << >>
      BY <1>1, <2>3
    <3>2. << >> \in [1 .. 0 -> Nat] /\ 0 \in Nat
      OBVIOUS
    <3>3. PICK f \in [0 .. 0 -> Nat] : Product(<< >>) = f[0]
      BY ONLY <3>2, ProductFold
    <3>4. Product(part(k, n)) \in Nat
      <4> HIDE DEF part
      <4> QED BY <3>1, <3>3
    <3> QED BY <2>1, <3>4
  <2> QED BY <2>2, <2>3
<1>3. st \in [0 .. N -> [0 .. N -> Nat]]
  <2>1. st = [k \in 0 .. N |-> [n \in 0 .. N |-> st[k][n]]]
    BY DEF ShapeStrides
  <2> HIDE DEF st
  <2> QED BY <2>1, <1>2
<1>4. ASSUME NEW k \in 0 .. N
      PROVE  st[k][k] = 1
  <2>1. part(k, k) = << >>
    BY <1>1
  <2>2. << >> \in [1 .. 0 -> Nat] /\ 0 \in Nat
    OBVIOUS
  <2>3. PICK f \in [0 .. 0 -> Nat] : Products(f, 0, << >>) /\ Product(<< >>) = f[0]
    BY ONLY <2>2, ProductFold
  <2> HIDE DEF part, st
  <2> QED BY <1>2, <2>1, <2>3 DEF Products
<1>5. ASSUME NEW k \in 0 .. N, NEW n \in k + 1 .. N
      PROVE  st[k][n] = st[k][n - 1] * shape[n]
  <2> DEFINE short == part(k, n - 1)
             long == part(k, n)
             m == (n - 1) - k
  <2>1. n \in 0 .. N /\ n - 1 \in 0 .. N /\ k <= n - 1 /\ k <= n /\ m \in Nat /\ n - k = m + 1
    OBVIOUS
  <2>2. short \in [1 .. m -> Nat] /\ \A i \in 1 .. m : short[i] = shape[k + i]
    <3> HIDE DEF part
    <3> QED BY <1>1, <2>1
  <2>3. long \in [1 .. m + 1 -> Nat] /\ \A i \in 1 .. m + 1 : long[i] = shape[k + i]
    <3> HIDE DEF part, m
    <3>1. long \in [1 .. n - k -> Nat] /\ \A i \in 1 .. n - k : long[i] = shape[k + i]
      BY <1>1, <2>1
    <3> HIDE DEF long
    <3> QED BY <2>1, <3>1
  <2>4. st[k][n] = Product(long) /\ st[k][n - 1] = Product(short)
    <3> HIDE DEF part, st
    <3> QED BY <1>2, <2>1
  <2>5. k + (m + 1) = n
    OBVIOUS
  <2> HIDE DEF short, long, m, st
  <2>6. \A i \in 1 .. m : short[i] = long[i]
    BY <2>1, <2>2, <2>3
  <2>7. Product(long) = Product(short) * long[m + 1]
    BY <2>1, <2>2, <2>3, <2>6, ProductAppend
  <2>8. long[m + 1] = shape[n]
    BY <2>1, <2>3, <2>5
  <2> QED BY <2>4, <2>7, <2>8
<1> HIDE DEF st
<1> QED BY <1>3, <1>4, <1>5 DEF Strides, st

(* Numbers are told apart by their digits, and all digits are those of one.   *)
THEOREM DigitsTell ==
  ASSUME NEW N \in Nat, NEW shape, NEW st, Strides(st, shape, N)
  PROVE  /\ \A p \in 1 .. st[0][N], k \in 1 .. N :
              shape[k] # 0 /\ st[k][N] # 0 /\ Digit(p, st, shape, k, N) \in 1 .. shape[k]
         /\ \A p, q \in 1 .. st[0][N] :
              (\A k \in 1 .. N : Digit(p, st, shape, k, N) = Digit(q, st, shape, k, N)) => p = q
         /\ \A d \in [1 .. N -> Nat] : (\A k \in 1 .. N : d[k] \in 1 .. shape[k]) =>
              \E p \in 1 .. st[0][N] : \A k \in 1 .. N : Digit(p, st, shape, k, N) = d[k]
<1> DEFINE names == [k \in 1 .. N |-> k]
           choices == [k \in 1 .. N |-> [j \in 1 .. shape[k] |-> j]]
           combos == Combinations(names, choices)
<1>1. \A k \in 1 .. N : shape[k] \in Nat
  BY DEF Strides
<1>2. AnySeq(names) /\ Len(names) = N /\ \A k \in 1 .. N : names[k] = k
  <2>1. DOMAIN names = 1 .. N /\ names = [k \in 1 .. N |-> names[k]] /\ \A k \in 1 .. N : names[k] = k
    OBVIOUS
  <2> HIDE DEF names
  <2> QED BY <2>1, MadeSequence
<1>3. ASSUME NEW k \in 1 .. N
      PROVE  /\ AnySeq(choices[k]) /\ Len(choices[k]) = shape[k]
             /\ \A j \in 1 .. shape[k] : choices[k][j] = j
  <2> DEFINE q == choices[k]
  <2>1. /\ DOMAIN q = 1 .. shape[k] /\ q = [j \in 1 .. shape[k] |-> q[j]]
        /\ \A j \in 1 .. shape[k] : q[j] = j
    OBVIOUS
  <2> HIDE DEF q
  <2>2. AnySeq(q) /\ Len(q) = shape[k]
    BY <1>1, <2>1, MadeSequence
  <2> QED BY <2>1, <2>2 DEF q
<1> HIDE DEF names, choices
<1>4. HasChoices(names, choices) /\ Distinct(names) /\ \A k \in 1 .. N : Distinct(choices[names[k]])
  BY <1>2, <1>3 DEF HasChoices, Distinct
<1>5. AllCombinations(combos, names, choices, shape, st)
  <2>1. Strides(st, shape, Len(names)) /\ \A k \in 1 .. Len(names) : shape[k] = Len(choices[names[k]])
    BY <1>2, <1>3
  <2> HIDE DEF combos
  <2>2. AllCombinations(Combinations(names, choices), names, choices, shape, st)
    BY <1>4, <2>1, CombinationsAreAll
  <2> QED BY <2>2 DEF combos
<1> HIDE DEF combos
<1>6. Len(combos) = st[0][N] /\ Distinct(combos)
  BY <1>2, <1>4, <1>5 DEF AllCombinations, InOrder
<1>7. ASSUME NEW p \in 1 .. st[0][N], NEW k \in 1 .. N
      PROVE  /\ shape[k] # 0 /\ st[k][N] # 0 /\ Digit(p, st, shape, k, N) \in 1 .. shape[k]
             /\ combos[p][k] = Digit(p, st, shape, k, N)
  <2>1. st[k][N] # 0 /\ shape[k] # 0 /\ combos[p][k] = choices[k][Digit(p, st, shape, k, N)]
    BY <1>2, <1>5, <1>6 DEF AllCombinations, InOrder
  <2>2. st[k][N] \in Nat
    <3>1. k \in 0 .. N /\ N \in 0 .. N
      OBVIOUS
    <3> QED BY <3>1 DEF Strides
  <2>3. st[0][N] \in Nat
    <3>1. 0 \in 0 .. N /\ N \in 0 .. N
      OBVIOUS
    <3> QED BY <3>1 DEF Strides
  <2>4. p - 1 \in Nat
    BY <2>3
  <2> DEFINE x == p - 1
             y == x \div st[k][N]
  <2>5. y \in Nat
    <3>1. x \in Nat
      BY <2>4
    <3> HIDE DEF x
    <3> QED BY <2>1, <2>2, <3>1, QuotientAndRest
  <2>6. y % shape[k] \in 0 .. shape[k] - 1
    <3> HIDE DEF y
    <3> QED BY <1>1, <2>1, <2>5, QuotientAndRest
  <2>7. Digit(p, st, shape, k, N) = (y % shape[k]) + 1
    BY DEF Digit
  <2> HIDE DEF y
  <2>8. Digit(p, st, shape, k, N) \in 1 .. shape[k]
    BY <1>1, <2>6, <2>7
  <2> QED BY <1>3, <2>1, <2>8
<1>8. ASSUME NEW p \in 1 .. st[0][N], NEW q \in 1 .. st[0][N],
             \A k \in 1 .. N : Digit(p, st, shape, k, N) = Digit(q, st, shape, k, N)
      PROVE  p = q
  <2>1. NamesUpto(names, N) = 1 .. N
    BY <1>2 DEF NamesUpto
  <2>2. combos[p] = [x \in 1 .. N |-> combos[p][x]] /\ combos[q] = [x \in 1 .. N |-> combos[q][x]]
    BY <1>2, <1>5, <1>6, <2>1 DEF AllCombinations, InOrder, Combination
  <2>3. \A x \in 1 .. N : combos[p][x] = combos[q][x]
    BY <1>7, <1>8
  <2>4. combos[p] = combos[q]
    BY <2>2, <2>3
  <2> QED BY <1>6, <2>4 DEF Distinct
<1>9. ASSUME NEW d \in [1 .. N -> Nat], \A k \in 1 .. N : d[k] \in 1 .. shape[k]
      PROVE  \E p \in 1 .. st[0][N] : \A k \in 1 .. N : Digit(p, st, shape, k, N) = d[k]
  <2>1. NamesUpto(names, N) = 1 .. N
    BY <1>2 DEF NamesUpto
  <2>2. Combination(d, names, choices, N)
    <3>1. \A k \in 1 .. N : \E j \in 1 .. Len(choices[names[k]]) : d[names[k]] = choices[names[k]][j]
      <4> SUFFICES ASSUME NEW k \in 1 .. N
                   PROVE  \E j \in 1 .. Len(choices[names[k]]) : d[names[k]] = choices[names[k]][j]
        OBVIOUS
      <4>1. names[k] = k /\ Len(choices[k]) = shape[k] /\ d[k] \in 1 .. shape[k]
        BY <1>2, <1>3, <1>9
      <4>2. choices[k][d[k]] = d[k]
        BY <1>3, <4>1
      <4> QED BY <4>1, <4>2
    <3>2. DOMAIN d = 1 .. N /\ d = [x \in 1 .. N |-> d[x]]
      OBVIOUS
    <3> QED BY <2>1, <3>1, <3>2 DEF Combination
  <2>3. PICK p \in 1 .. Len(combos) : combos[p] = d
    BY <1>2, <1>5, <2>2 DEF AllCombinations
  <2> QED BY <1>6, <1>7, <2>3
<1> QED BY <1>7, <1>8, <1>9

(* A stride is the product of two where it is cut.                            *)
THEOREM StridesMultiply ==
  ASSUME NEW N \in Nat, NEW shape, NEW st, Strides(st, shape, N), NEW k \in 1 .. N
  PROVE  st[0][N] = (st[0][k - 1] * shape[k]) * st[k][N]
<1> DEFINE f == [n \in 0 .. N - k |-> st[0][k + n]]
           g == [n \in 0 .. N - k |-> st[0][k] * st[k][k + n]]
<1>1. N - k \in Nat /\ k \in 0 .. N /\ 0 \in 0 .. N /\ k + 0 = k /\ k + (N - k) = N
      /\ k - 1 \in 0 .. N /\ k \in 0 + 1 .. N
  OBVIOUS
<1>2. \A i, j \in 0 .. N : st[i][j] \in Nat
  BY DEF Strides
<1>3. f[0] = g[0]
  <2>1. f[0] = st[0][k] /\ g[0] = st[0][k] * st[k][k]
    BY <1>1
  <2>2. st[k][k] = 1 /\ st[0][k] \in Nat
    BY <1>1, <1>2 DEF Strides
  <2> QED BY <2>1, <2>2
<1>4. ASSUME NEW n \in 1 .. N - k, f[n - 1] = g[n - 1]
      PROVE  f[n] = g[n]
  <2>1. /\ n - 1 \in 0 .. N - k /\ n \in 0 .. N - k /\ k + n \in 0 .. N /\ k + (n - 1) \in 0 .. N
        /\ (k + n) - 1 = k + (n - 1) /\ k + n \in k + 1 .. N /\ k + n \in 0 + 1 .. N
    OBVIOUS
  <2>2. /\ st[0][k + n] = st[0][k + (n - 1)] * shape[k + n]
        /\ st[k][k + n] = st[k][k + (n - 1)] * shape[k + n]
    BY <1>1, <2>1 DEF Strides
  <2>3. st[0][k + (n - 1)] = st[0][k] * st[k][k + (n - 1)]
    BY <1>4, <2>1
  <2>4. /\ st[0][k] \in Nat /\ st[k][k + (n - 1)] \in Nat /\ shape[k + n] \in Nat
    <3>1. st[0][k] \in Nat /\ st[k][k + (n - 1)] \in Nat
      <4> DEFINE i == k + (n - 1)
      <4>1. i \in 0 .. N
        BY <2>1
      <4> HIDE DEF i
      <4>2. st[0][k] \in Nat /\ st[k][i] \in Nat
        BY <1>1, <1>2, <4>1
      <4> QED BY <4>2 DEF i
    <3>2. shape[k + n] \in Nat
      <4>1. k + n \in 1 .. N
        BY <2>1
      <4> QED BY <4>1 DEF Strides
    <3> QED BY <3>1, <3>2
  <2> DEFINE a == st[0][k]
             b == st[k][k + (n - 1)]
             c == shape[k + n]
  <2>5. (a * b) * c = a * (b * c)
    <3>1. a \in Nat /\ b \in Nat /\ c \in Nat
      BY <2>4
    <3> HIDE DEF a, b, c
    <3> QED BY <3>1
  <2>6. f[n] = st[0][k + n] /\ g[n] = st[0][k] * st[k][k + n]
    BY <2>1
  <2> QED BY <2>2, <2>3, <2>5, <2>6
<1>5. \A n \in 0 .. N - k : f[n] = g[n]
  <2>1. Agrees(f, g, N - k)
    <3> HIDE DEF f, g
    <3> QED BY <1>3, <1>4 DEF Agrees
  <2> HIDE DEF f, g
  <2> QED BY <1>1, <2>1, AgreeAlong
<1>6. st[0][N] = st[0][k] * st[k][N]
  <2>1. N - k \in 0 .. N - k
    BY <1>1
  <2>2. f[N - k] = st[0][N] /\ g[N - k] = st[0][k] * st[k][N]
    BY <1>1, <2>1
  <2> HIDE DEF f, g
  <2> QED BY <1>5, <2>1, <2>2
<1>7. st[0][k] = st[0][k - 1] * shape[k]
  BY <1>1 DEF Strides
<1> QED BY <1>6, <1>7

-----------------------------------------------------------------------------
(* Flattening one part more, at the end or at the front.                      *)
THEOREM FlattenGrows ==
  ASSUME NEW n \in Nat, NEW short, NEW long, SeqOfSeqs(short), SeqOfSeqs(long),
         Len(short) = n, Len(long) = n + 1, \A i \in 1 .. n : short[i] = long[i]
  PROVE  FlattenSeq(long) = FlattenSeq(short) \o long[n + 1]
<1>1. PICK f : Flattens(f, short)
  BY FlattenConcatenates
<1>2. PICK g : Flattens(g, long)
  BY FlattenConcatenates
<1>3. Agrees(f, g, n)
  <2>1. f[0] = << >> /\ g[0] = << >>
    BY <1>1, <1>2 DEF Flattens, Concatenates
  <2>2. ASSUME NEW i \in 1 .. n, f[i - 1] = g[i - 1]
        PROVE  f[i] = g[i]
    <3>1. f[i] = f[i - 1] \o short[i]
      BY <1>1 DEF Flattens, Concatenates
    <3>2. i \in 1 .. n + 1
      OBVIOUS
    <3>3. g[i] = g[i - 1] \o long[i]
      BY <1>2, <3>2 DEF Flattens, Concatenates
    <3> QED BY <2>2, <3>1, <3>3
  <2> QED BY <2>1, <2>2 DEF Agrees
<1>4. \A i \in 0 .. n : f[i] = g[i]
  BY <1>3, AgreeAlong
<1>5. n \in 0 .. n /\ n + 1 \in 1 .. n + 1 /\ (n + 1) - 1 = n
  OBVIOUS
<1>6. g[n + 1] = g[n] \o long[n + 1]
  BY <1>2, <1>5 DEF Flattens, Concatenates
<1> QED BY <1>1, <1>2, <1>4, <1>5, <1>6 DEF Flattens

(* No parts flatten to nothing.                                               *)
THEOREM FlattenNone ==
  ASSUME NEW parts, AnySeq(parts), Len(parts) = 0
  PROVE  SeqOfSeqs(parts) /\ FlattenSeq(parts) = << >>
<1>1. parts = << >>
  BY SequenceParts
<1> QED BY <1>1 DEF SeqOfSeqs, FlattenSeq

(* Concatenation is associative.                                              *)
THEOREM JoinAssociates ==
  ASSUME NEW p, NEW q, NEW r, AnySeq(p), AnySeq(q), AnySeq(r)
  PROVE  (p \o q) \o r = p \o (q \o r)
<1>1. PICK A : p \in Seq(A)
  BY DEF AnySeq
<1>2. PICK B : q \in Seq(B)
  BY DEF AnySeq
<1>3. PICK C : r \in Seq(C)
  BY DEF AnySeq
<1> DEFINE U == A \cup B \cup C
<1>4. p \in Seq(U) /\ q \in Seq(U) /\ r \in Seq(U)
  BY <1>1, <1>2, <1>3
<1> HIDE DEF U
<1> QED BY <1>4, ConcatAssociative

(* Nothing is neutral for concatenation.                                      *)
THEOREM JoinEmpty ==
  ASSUME NEW p, AnySeq(p)
  PROVE  << >> \o p = p /\ p \o << >> = p /\ AnySeq(<< >>)
<1>1. PICK A : p \in Seq(A)
  BY DEF AnySeq
<1>2. << >> \in Seq(A)
  OBVIOUS
<1> QED BY <1>1, <1>2 DEF AnySeq

(* Flattening gives the first part, then the others flattened.                *)
THEOREM FlattenHead ==
  ASSUME NEW parts, SeqOfSeqs(parts), parts # << >>
  PROVE  /\ SeqOfSeqs(Tail(parts)) /\ AnySeq(Head(parts))
         /\ FlattenSeq(parts) = Head(parts) \o FlattenSeq(Tail(parts))
<1> DEFINE n == Len(parts) - 1
           tail == Tail(parts)
<1>1. /\ n \in Nat /\ Len(parts) = n + 1 /\ Head(parts) = parts[1] /\ AnySeq(tail) /\ Len(tail) = n
      /\ \A i \in 1 .. n : tail[i] = parts[i + 1]
  BY SequenceParts DEF SeqOfSeqs
<1>2. AnySeq(parts[1]) /\ \A i \in 1 .. n : AnySeq(tail[i])
  <2>1. 1 \in 1 .. Len(parts) /\ \A i \in 1 .. n : i + 1 \in 1 .. Len(parts)
    BY <1>1
  <2> QED BY <1>1, <2>1 DEF SeqOfSeqs
<1> HIDE DEF n, tail
<1>3. SeqOfSeqs(tail)
  BY <1>1, <1>2 DEF SeqOfSeqs
<1>4. PICK f : Flattens(f, tail)
  BY <1>3, FlattenConcatenates
<1>5. PICK g : Flattens(g, parts)
  BY FlattenConcatenates
<1> DEFINE left == [i \in 0 .. n |-> parts[1] \o f[i]]
           right == [i \in 0 .. n |-> g[i + 1]]
<1>6. Agrees(left, right, n)
  <2>1. left[0] = right[0]
    <3>1. f[0] = << >> /\ g[0] = << >>
      BY <1>4, <1>5 DEF Flattens, Concatenates
    <3>2. g[1] = g[0] \o parts[1]
      <4>1. PICK m \in 1 .. Len(parts) : m = 1
        BY <1>1
      <4>2. g[m] = g[m - 1] \o parts[m]
        BY <1>5 DEF Flattens, Concatenates
      <4>3. m - 1 = 0
        BY <4>1
      <4> QED BY ONLY <4>1, <4>2, <4>3
    <3>3. left[0] = parts[1] \o f[0] /\ right[0] = g[1]
      <4>1. 0 \in 0 .. n /\ 0 + 1 = 1
        BY <1>1
      <4>2. left[0] = parts[1] \o f[0]
        BY ONLY <4>1 DEF left
      <4>3. right[0] = g[1]
        BY ONLY <4>1 DEF right
      <4> QED BY <4>2, <4>3
    <3> HIDE DEF left, right
    <3>4. << >> \o parts[1] = parts[1] /\ parts[1] \o << >> = parts[1]
      BY <1>2, JoinEmpty
    <3> QED BY <3>1, <3>2, <3>3, <3>4
  <2>2. ASSUME NEW i \in 1 .. n, left[i - 1] = right[i - 1]
        PROVE  left[i] = right[i]
    <3>1. i \in 0 .. n /\ i - 1 \in 0 .. n /\ (i - 1) + 1 = i /\ (i + 1) - 1 = i /\ i + 1 \in 1 .. Len(parts)
      BY <1>1
    <3>2. f[i] = f[i - 1] \o tail[i] /\ AnySeq(f[i - 1])
      BY <1>1, <1>4, <3>1 DEF Flattens, Concatenates
    <3>3. g[i + 1] = g[i] \o parts[i + 1]
      BY <1>5, <3>1 DEF Flattens, Concatenates
    <3>4. left[i] = parts[1] \o f[i] /\ left[i - 1] = parts[1] \o f[i - 1]
          /\ right[i] = g[i + 1] /\ right[i - 1] = g[i]
      BY <3>1
    <3> HIDE DEF left, right
    <3>5. parts[1] \o (f[i - 1] \o tail[i]) = (parts[1] \o f[i - 1]) \o tail[i]
      <4> DEFINE a == parts[1]
                 b == f[i - 1]
                 c == tail[i]
      <4>1. AnySeq(a) /\ AnySeq(b) /\ AnySeq(c)
        BY <1>2, <3>2
      <4> HIDE DEF a, b, c
      <4>2. (a \o b) \o c = a \o (b \o c)
        BY ONLY <4>1, JoinAssociates
      <4> QED BY <4>2 DEF a, b, c
    <3>6. tail[i] = parts[i + 1]
      BY <1>1
    <3> QED BY <2>2, <3>2, <3>3, <3>4, <3>5, <3>6
  <2> HIDE DEF left, right
  <2> QED BY <2>1, <2>2 DEF Agrees
<1>7. left[n] = right[n]
  <2>1. n \in 0 .. n
    BY <1>1
  <2> HIDE DEF left, right
  <2>2. \A i \in 0 .. n : left[i] = right[i]
    BY <1>1, <1>6, AgreeAlong
  <2> QED BY <2>1, <2>2
<1>8. left[n] = parts[1] \o f[n] /\ right[n] = g[n + 1]
  <2>1. n \in 0 .. n
    BY <1>1
  <2>2. left[n] = parts[1] \o f[n]
    BY ONLY <2>1 DEF left
  <2>3. right[n] = g[n + 1]
    BY ONLY <2>1 DEF right
  <2> QED BY <2>2, <2>3
<1> HIDE DEF left, right
<1> QED BY <1>1, <1>2, <1>3, <1>4, <1>5, <1>7, <1>8 DEF Flattens, tail

(* A sequence that repeats nothing is as long as the set of its members.      *)
THEOREM DistinctLength ==
  ASSUME NEW p, AnySeq(p), Distinct(p)
  PROVE  IsFiniteSet(ToSet(p)) /\ Cardinality(ToSet(p)) = Len(p)
<1> DEFINE D == 1 .. Len(p)
           R == ToSet(p)
           F == [i \in D |-> p[i]]
<1>1. Len(p) \in Nat /\ DOMAIN p = D
  BY SequenceParts
<1>2. R = {p[i] : i \in D}
  BY <1>1 DEF ToSet
<1>3. F \in Bijection(D, R)
  <2> HIDE DEF R, D
  <2>1. F \in [D -> R] /\ \A i \in D : F[i] = p[i]
    BY <1>2
  <2>2. IsInjective(F)
    BY <2>1 DEF Distinct, IsInjective, D
  <2>3. \A r \in R : \E i \in D : F[i] = r
    BY <1>2, <2>1
  <2> HIDE DEF F
  <2> QED BY <2>1, <2>2, <2>3 DEF Bijection, Injection, Surjection
<1>4. IsFiniteSet(D) /\ Cardinality(D) = Len(p)
  <2>1. 1 \in Int /\ Len(p) \in Int /\ (1 <= Len(p) \/ Len(p) = 0)
    BY <1>1
  <2>2. IsFiniteSet(D) /\ Cardinality(D) = IF 1 > Len(p) THEN 0 ELSE (Len(p) - 1) + 1
    BY ONLY <2>1, FS_Interval
  <2> QED BY <1>1, <2>1, <2>2
<1> HIDE DEF D, R, F
<1>5. ExistsBijection(D, R)
  BY <1>3 DEF ExistsBijection
<1>6. IsFiniteSet(R) /\ Cardinality(R) = Cardinality(D)
  BY ONLY <1>4, <1>5, FS_Bijection
<1> QED BY <1>4, <1>6 DEF R

(* Two sequences of the same members, each once, are as long as each other.   *)
THEOREM SameMembers ==
  ASSUME NEW p, NEW q, AnySeq(p), AnySeq(q), Distinct(p), Distinct(q), ToSet(p) = ToSet(q)
  PROVE  Len(p) = Len(q)
BY DistinctLength

(* What sums reach, they reach at one of them.                                *)
THEOREM SumsGrow ==
  ASSUME NEW N \in Nat, NEW weights \in [1 .. N -> Nat], NEW f, Sums(f, N, weights)
  PROVE  \A i, j \in 0 .. N : i <= j => f[i] <= f[j]
<1>1. \A n \in 0 .. N : f[n] \in Nat
  BY SumsType
<1> SUFFICES ASSUME NEW i \in 0 .. N
             PROVE  \A j \in 0 .. N : i <= j => f[i] <= f[j]
  OBVIOUS
<1> DEFINE S == {n \in Nat : i + n <= N => f[i] <= f[i + n]}
<1>2. 0 \in S
  BY <1>1
<1>3. ASSUME NEW n \in S
      PROVE  n + 1 \in S
  <2>1. CASE i + (n + 1) <= N
    <3>1. n \in Nat /\ i + (n + 1) \in 1 .. N /\ (i + (n + 1)) - 1 = i + n /\ i + n \in 0 .. N
          /\ f[i] <= f[i + n]
      BY <2>1
    <3>2. f[i + (n + 1)] = f[i + n] + weights[i + (n + 1)] /\ weights[i + (n + 1)] \in Nat
      BY <3>1 DEF Sums
    <3>3. f[i] \in Nat /\ f[i + n] \in Nat
      BY <1>1, <3>1
    <3>4. f[i] <= f[i + (n + 1)]
      BY ONLY <3>1, <3>2, <3>3
    <3> QED BY <3>1, <3>4
  <2> QED BY <2>1
<1>4. S = Nat
  <2>1. S \in SUBSET Nat
    OBVIOUS
  <2> HIDE DEF S
  <2> QED BY <2>1, <1>2, <1>3, InductiveSet
<1> SUFFICES ASSUME NEW j \in 0 .. N, i <= j PROVE f[i] <= f[j]
  OBVIOUS
<1>5. j - i \in Nat /\ i + (j - i) = j
  OBVIOUS
<1>6. j - i \in S
  <2> HIDE DEF S
  <2> QED BY <1>4, <1>5
<1> QED BY <1>5, <1>6

(* A number below the sum falls into the interval of one weight only.         *)
THEOREM SumsFind ==
  ASSUME NEW N \in Nat, NEW weights \in [1 .. N -> Nat], NEW f, Sums(f, N, weights),
         NEW x \in Nat
  PROVE  /\ x < f[N] => \E i \in 1 .. N : f[i - 1] <= x /\ x < f[i]
         /\ \A i, k \in 1 .. N : f[i - 1] <= x /\ x < f[i] /\ f[k - 1] <= x /\ x < f[k] => i = k
<1>1. \A n \in 0 .. N : f[n] \in Nat
  BY SumsType
<1>2. \A i, j \in 0 .. N : i <= j => f[i] <= f[j]
  BY SumsGrow
<1>3. ASSUME x < f[N]
      PROVE  \E i \in 1 .. N : f[i - 1] <= x /\ x < f[i]
  <2> DEFINE S == {n \in 0 .. N : x < f[n]}
  <2>1. S \in SUBSET Nat /\ S # {}
    <3>1. N \in S
      BY <1>3
    <3> QED BY <3>1
  <2>2. PICK n \in S : \A m \in S : n <= m
    <3> HIDE DEF S
    <3> QED BY <2>1, LeastNatural
  <2>3. n # 0
    <3>1. f[0] = 0
      BY DEF Sums
    <3> QED BY <3>1
  <2>4. n \in 1 .. N /\ n - 1 \in 0 .. N /\ x < f[n] /\ n - 1 \notin S
    BY <2>2, <2>3
  <2>5. f[n - 1] \in Nat /\ ~(x < f[n - 1])
    BY <1>1, <2>4
  <2> QED BY <2>4, <2>5
<1>4. ASSUME NEW i \in 1 .. N, NEW k \in 1 .. N, f[i - 1] <= x, x < f[i], f[k - 1] <= x, x < f[k]
      PROVE  ~(i < k)
  <2>1. i \in 0 .. N /\ k - 1 \in 0 .. N /\ (i < k => i <= k - 1)
    OBVIOUS
  <2>2. f[i] \in Nat /\ f[k - 1] \in Nat /\ (i < k => f[i] <= f[k - 1])
    BY <1>1, <1>2, <2>1
  <2> QED BY <1>4, <2>2
<1>5. ASSUME NEW i \in 1 .. N, NEW k \in 1 .. N, f[i - 1] <= x, x < f[i], f[k - 1] <= x, x < f[k]
      PROVE  i = k
  <2>1. ~(i < k) /\ ~(k < i)
    BY <1>4, <1>5
  <2> QED BY <2>1
<1> QED BY <1>3, <1>5
-----------------------------------------------------------------------------
(* A fold is of the kind that its start is, and that its steps keep.          *)
THEOREM FoldMember ==
  ASSUME NEW N \in Nat, NEW V, NEW it, it[{}] \in V,
         \A s \in SUBSET (1 .. N) : s # {} => \E i \in s : it[s \ {i}] \in V => it[s] \in V
  PROVE  it[1 .. N] \in V
<1> DEFINE S == {n \in Nat : \A s \in SUBSET (1 .. N) : Cardinality(s) = n => it[s] \in V}
<1>1. IsFiniteSet(1 .. N) /\ \A s \in SUBSET (1 .. N) : IsFiniteSet(s) /\ Cardinality(s) \in Nat
  <2>1. IsFiniteSet(1 .. N)
    BY FS_Interval
  <2>2. \A s \in SUBSET (1 .. N) : IsFiniteSet(s)
    BY <2>1, FS_Subset
  <2> QED BY <2>1, <2>2, FS_CardinalityType
<1>2. 0 \in S
  BY <1>1, FS_EmptySet
<1>3. ASSUME NEW n \in S
      PROVE  n + 1 \in S
  <2> SUFFICES ASSUME NEW s \in SUBSET (1 .. N), Cardinality(s) = n + 1
               PROVE  it[s] \in V
    OBVIOUS
  <2>0. Cardinality({}) = 0 /\ n \in Nat
    BY FS_EmptySet
  <2>1. s # {}
    <3>1. n + 1 # 0
      BY <2>0
    <3> HIDE DEF S
    <3> QED BY <2>0, <3>1, Zenon
  <2>2. PICK i \in s : it[s \ {i}] \in V => it[s] \in V
    BY <2>1
  <2>3. Cardinality(s \ {i}) = n
    BY <1>1, FS_RemoveElement
  <2>4. s \ {i} \in SUBSET (1 .. N)
    OBVIOUS
  <2> QED BY <2>2, <2>3, <2>4
<1>4. S = Nat
  <2>1. S \in SUBSET Nat
    OBVIOUS
  <2> HIDE DEF S
  <2> QED BY <2>1, <1>2, <1>3, InductiveSet
<1>5. Cardinality(1 .. N) \in S
  <2> HIDE DEF S
  <2> QED BY <1>1, <1>4
<1> QED BY <1>5

(* Empty parts add nothing.                                                   *)
THEOREM FlattenStays ==
  ASSUME NEW parts, SeqOfSeqs(parts), NEW f, Flattens(f, parts),
         NEW m \in 0 .. Len(parts), NEW n \in m .. Len(parts),
         \A i \in m + 1 .. n : parts[i] = << >>
  PROVE  f[n] = f[m]
<1> DEFINE S == {k \in Nat : m + k <= n => f[m + k] = f[m]}
<1>0. Len(parts) \in Nat
  BY SequenceParts DEF SeqOfSeqs
<1>1. 0 \in S
  BY <1>0
<1>2. ASSUME NEW k \in S
      PROVE  k + 1 \in S
  <2> SUFFICES ASSUME m + (k + 1) <= n
               PROVE  f[m + (k + 1)] = f[m]
    OBVIOUS
  <2> DEFINE i == m + (k + 1)
  <2>1. /\ i \in m + 1 .. n /\ i \in 1 .. Len(parts) /\ i - 1 = m + k /\ i - 1 \in 0 .. Len(parts)
        /\ m + k <= n
    BY <1>0
  <2> HIDE DEF i
  <2>2. f[i] = f[i - 1] \o parts[i]
    BY <2>1 DEF Flattens, Concatenates
  <2>3. f[i - 1] \o << >> = f[i - 1]
    BY <2>1, JoinEmpty DEF Flattens
  <2>4. f[m + k] = f[m]
    BY <2>1
  <2>5. f[i] = f[m]
    BY <2>1, <2>2, <2>3, <2>4
  <2> QED BY <2>5 DEF i
<1>3. S = Nat
  <2>1. S \in SUBSET Nat
    OBVIOUS
  <2> HIDE DEF S
  <2> QED BY <2>1, <1>1, <1>2, InductiveSet
<1>4. n - m \in Nat /\ m + (n - m) = n
  BY <1>0
<1>5. n - m \in S
  <2> HIDE DEF S
  <2> QED BY <1>3, <1>4
<1> QED BY <1>4, <1>5

(* Of parts that are empty but one, that one is left.                         *)
THEOREM FlattenOne ==
  ASSUME NEW parts, SeqOfSeqs(parts), NEW t \in 1 .. Len(parts),
         \A i \in 1 .. Len(parts) : i # t => parts[i] = << >>
  PROVE  FlattenSeq(parts) = parts[t]
<1> DEFINE N == Len(parts)
<1>1. N \in Nat
  BY SequenceParts DEF SeqOfSeqs
<1>2. PICK f : Flattens(f, parts)
  BY FlattenConcatenates
<1>3. t - 1 \in 0 .. N /\ t - 1 \in 0 .. t - 1 /\ 0 \in 0 .. N /\ t \in 0 .. N /\ N \in t .. N /\ t - 1 \in 0 .. N
  BY <1>1
<1>4. f[t - 1] = f[0]
  <2>1. \A i \in 0 + 1 .. t - 1 : parts[i] = << >>
    BY <1>1
  <2> HIDE DEF N
  <2> QED BY <1>2, <1>3, <2>1, FlattenStays DEF N
<1>5. f[N] = f[t]
  <2>1. \A i \in t + 1 .. N : parts[i] = << >>
    BY <1>1
  <2> QED BY <1>2, <1>3, <2>1, FlattenStays
<1>6. f[t] = f[t - 1] \o parts[t] /\ f[0] = << >> /\ f[N] = FlattenSeq(parts)
  BY <1>2 DEF Flattens, Concatenates
<1>7. << >> \o parts[t] = parts[t]
  BY JoinEmpty DEF SeqOfSeqs
<1> QED BY <1>4, <1>5, <1>6, <1>7

(* p begins q.                                                                *)
Begins(p, q) == Len(p) <= Len(q) /\ \A i \in 1 .. Len(p) : p[i] = q[i]

(* What is flattened first begins all of it, and a part follows what is       *)
(* before it.                                                                 *)
THEOREM FlattenBegins ==
  ASSUME NEW parts, SeqOfSeqs(parts), NEW f, Flattens(f, parts),
         NEW m \in 0 .. Len(parts), NEW n \in m .. Len(parts)
  PROVE  Begins(f[m], f[n])
<1> DEFINE S == {k \in Nat : m + k <= n => Begins(f[m], f[m + k])}
<1>0. Len(parts) \in Nat /\ \A i \in 0 .. Len(parts) : AnySeq(f[i]) /\ Len(f[i]) \in Nat
  <2>1. Len(parts) \in Nat
    BY SequenceParts DEF SeqOfSeqs
  <2> QED BY <2>1, SequenceParts DEF Flattens
<1>1. 0 \in S
  <2>1. Len(f[m]) \in Nat /\ m + 0 = m
    BY <1>0
  <2>2. Begins(f[m], f[m])
    BY <2>1 DEF Begins
  <2> QED BY <2>1, <2>2
<1>2. ASSUME NEW k \in S
      PROVE  k + 1 \in S
  <2> SUFFICES ASSUME m + (k + 1) <= n
               PROVE  Begins(f[m], f[m + (k + 1)])
    OBVIOUS
  <2> DEFINE i == m + (k + 1)
  <2>1. /\ i \in 1 .. Len(parts) /\ i - 1 = m + k /\ i - 1 \in 0 .. Len(parts) /\ m + k <= n
    BY <1>0
  <2>2. Begins(f[m], f[m + k])
    BY <2>1
  <2> HIDE DEF i, S
  <2> DEFINE p == f[m]
             q == f[i - 1]
             r == parts[i]
  <2>3. f[i] = q \o r /\ Begins(p, q)
    BY <2>1, <2>2 DEF Flattens, Concatenates
  <2>4. AnySeq(q) /\ AnySeq(r) /\ Len(p) \in Nat /\ Len(q) \in Nat /\ Len(r) \in Nat
    BY <1>0, <2>1, SequenceParts DEF SeqOfSeqs
  <2> HIDE DEF p, q, r
  <2>5. Len(q \o r) = Len(q) + Len(r) /\ \A j \in 1 .. Len(q) : (q \o r)[j] = q[j]
    BY <2>4, JoinedSequence
  <2>6. Begins(p, q \o r)
    BY <2>3, <2>4, <2>5 DEF Begins
  <2> QED BY <2>3, <2>6 DEF p, i
<1>3. S = Nat
  <2>1. S \in SUBSET Nat
    OBVIOUS
  <2> HIDE DEF S
  <2> QED BY <2>1, <1>1, <1>2, InductiveSet
<1>4. n - m \in Nat /\ m + (n - m) = n
  BY <1>0
<1>5. n - m \in S
  <2> HIDE DEF S
  <2> QED BY <1>3, <1>4
<1> QED BY <1>4, <1>5

(* A sequence begins what is joined to it.                                    *)
THEOREM JoinBegins ==
  ASSUME NEW p, NEW q, AnySeq(p), AnySeq(q)
  PROVE  Begins(p, p \o q)
<1>1. /\ Len(p \o q) = Len(p) + Len(q) /\ \A i \in 1 .. Len(p) : (p \o q)[i] = p[i]
  BY JoinedSequence
<1>2. Len(p) \in Nat /\ Len(q) \in Nat
  BY SequenceParts
<1> QED BY <1>1, <1>2 DEF Begins
-----------------------------------------------------------------------------
(* The cells of a block.                                                      *)
IsBlock(ds, block) ==
  /\ DOMAIN block = DimsOf(ds)
  /\ \A d \in DimsOf(ds) :
       block[d] # Full => /\ block[d][1] \in Nat /\ block[d][2] \in Nat
                          /\ block[d][1] <= block[d][2] /\ block[d][2] <= ds.size[d]

LEMMA BlockExtent ==
  ASSUME NEW ds, IsGrid(ds), NEW block, IsBlock(ds, block), NEW d \in DimsOf(ds)
  PROVE  /\ First(ds, block, d) \in Nat /\ Len1(ds, block, d) \in Nat /\ ds.size[d] \in Nat
         /\ First(ds, block, d) + Len1(ds, block, d) <= ds.size[d]
<1>1. ds.size[d] \in Nat
  BY DEF IsGrid
<1>2. CASE block[d] = Full
  BY <1>1, <1>2 DEF First, Len1
<1>3. CASE block[d] # Full
  <2>1. /\ First(ds, block, d) = block[d][1] /\ Len1(ds, block, d) = block[d][2] - block[d][1]
    BY <1>3 DEF First, Len1
  <2>2. /\ block[d][1] \in Nat /\ block[d][2] \in Nat
        /\ block[d][1] <= block[d][2] /\ block[d][2] <= ds.size[d]
    BY <1>3 DEF IsBlock
  <2> QED BY <1>1, <2>1, <2>2
<1> QED BY <1>2, <1>3

(* The dimensions in some order.                                              *)
AreDims(names, ds) == AnySeq(names) /\ Distinct(names) /\ ToSet(names) = DimsOf(ds)

LEMMA DimsAreDims ==
  ASSUME NEW ds, IsGrid(ds)
  PROVE  AreDims(ds.dims, ds) /\ AreDims(ds.vardims, ds)
<1>1. AreDims(ds.dims, ds)
  BY SequenceParts DEF IsGrid, AreDims, AnySeq, Distinct, IsInjective, DimsOf
<1>2. AreDims(ds.vardims, ds)
  BY SequenceParts DEF IsGrid, AreDims, AnySeq, Distinct, IsInjective
<1> QED BY <1>1, <1>2

Shape(ds, block, names) == [k \in DOMAIN names |-> Len1(ds, block, names[k])]

InBlock(ds, block, c) ==
  /\ DOMAIN c = DimsOf(ds) /\ c = [d \in DimsOf(ds) |-> c[d]]
  /\ \A d \in DimsOf(ds) : /\ c[d] \in Nat /\ First(ds, block, d) <= c[d]
                         /\ c[d] < First(ds, block, d) + Len1(ds, block, d)

(* All of them, each once, the digits of a cell's place counting its position. *)
RaveledCells(cells, ds, block, names, shape, st) ==
  /\ AnySeq(cells) /\ Len(cells) = st[0][Len(names)] /\ Distinct(cells)
  /\ \A p \in 1 .. Len(cells) :
       /\ InBlock(ds, block, cells[p])
       /\ \A k \in 1 .. Len(names) :
            cells[p][names[k]]
              = (First(ds, block, names[k]) + Digit(p, st, shape, k, Len(names))) - 1
  /\ \A c : InBlock(ds, block, c) => \E p \in 1 .. Len(cells) : cells[p] = c

LEMMA ShapeParts ==
  ASSUME NEW ds, IsGrid(ds), NEW block, IsBlock(ds, block), NEW names, AreDims(names, ds)
  PROVE  /\ Len(names) \in Nat /\ DOMAIN names = 1 .. Len(names)
         /\ \A k \in 1 .. Len(names) : names[k] \in DimsOf(ds)
         /\ \A d \in DimsOf(ds) : \E k \in 1 .. Len(names) : d = names[k]
         /\ Shape(ds, block, names) \in [1 .. Len(names) -> Nat]
         /\ \A k \in 1 .. Len(names) : Shape(ds, block, names)[k] = Len1(ds, block, names[k])
         /\ Strides(ShapeStrides(Shape(ds, block, names), Len(names)), Shape(ds, block, names), Len(names))
<1>1. Len(names) \in Nat /\ DOMAIN names = 1 .. Len(names)
  BY SequenceParts DEF AreDims
<1>2. \A k \in 1 .. Len(names) : names[k] \in DimsOf(ds)
  BY <1>1 DEF AreDims, ToSet
<1>3. \A d \in DimsOf(ds) : \E k \in 1 .. Len(names) : d = names[k]
  BY <1>1 DEF AreDims, ToSet
<1>4. \A k \in 1 .. Len(names) : Len1(ds, block, names[k]) \in Nat
  BY <1>2, BlockExtent
<1>5. /\ Shape(ds, block, names) \in [1 .. Len(names) -> Nat]
      /\ \A k \in 1 .. Len(names) : Shape(ds, block, names)[k] = Len1(ds, block, names[k])
  BY <1>1, <1>4 DEF Shape
<1> QED BY <1>1, <1>2, <1>3, <1>5, StridesOfShape

LEMMA RavelCells ==
  ASSUME NEW ds, IsGrid(ds), NEW block, IsBlock(ds, block), NEW names, AreDims(names, ds),
         NEW shape, shape = Shape(ds, block, names), NEW st, st = ShapeStrides(shape, Len(names))
  PROVE  RaveledCells(Ravel(ds, block, names), ds, block, names, shape, st)
<1> DEFINE N == Len(names)
           range(d) == [j \in 1 .. Len1(ds, block, d) |-> First(ds, block, d) + j - 1]
           choices == [d \in ToSet(names) |-> range(d)]
           cells == Ravel(ds, block, names)
<1>1. /\ N \in Nat /\ DOMAIN names = 1 .. N /\ (\A k \in 1 .. N : names[k] \in DimsOf(ds))
      /\ (\A d \in DimsOf(ds) : \E k \in 1 .. N : d = names[k])
      /\ shape \in [1 .. N -> Nat] /\ (\A k \in 1 .. N : shape[k] = Len1(ds, block, names[k]))
      /\ Strides(st, shape, N)
  BY ShapeParts
<1>2. \A d \in DimsOf(ds) : First(ds, block, d) \in Nat /\ Len1(ds, block, d) \in Nat
  BY BlockExtent
<1>3. ASSUME NEW d \in DimsOf(ds)
      PROVE  /\ AnySeq(choices[d]) /\ Len(choices[d]) = Len1(ds, block, d) /\ Distinct(choices[d])
             /\ \A j \in 1 .. Len1(ds, block, d) : choices[d][j] = (First(ds, block, d) + j) - 1
  <2> DEFINE q == choices[d]
             n == Len1(ds, block, d)
  <2>1. /\ DOMAIN q = 1 .. n /\ q = [j \in 1 .. n |-> q[j]]
        /\ \A j \in 1 .. n : q[j] = (First(ds, block, d) + j) - 1
    <3>1. q = [j \in 1 .. n |-> First(ds, block, d) + j - 1]
      BY DEF AreDims
    <3> HIDE DEF q
    <3> QED BY <1>2, <3>1
  <2> HIDE DEF q
  <2>2. AnySeq(q) /\ Len(q) = n
    BY <1>2, <2>1, MadeSequence
  <2>3. Distinct(q)
    BY <1>2, <2>1, <2>2 DEF Distinct
  <2> QED BY <2>1, <2>2, <2>3 DEF q
<1>4. cells = Combinations(names, choices)
  BY DEF Ravel
<1> HIDE DEF choices
<1>5. AllCombinations(Combinations(names, choices), names, choices, shape, st)
  <2>1. HasChoices(names, choices) /\ Distinct(names)
        /\ \A k \in 1 .. N : shape[k] = Len(choices[names[k]])
    BY <1>1, <1>3 DEF HasChoices, AreDims
  <2> QED BY <1>1, <2>1, CombinationsAreAll
<1> HIDE DEF cells
<1>6. AllCombinations(cells, names, choices, shape, st)
  BY <1>4, <1>5
<1>7. NamesUpto(names, N) = DimsOf(ds)
  BY <1>1 DEF NamesUpto
<1>8. \A c : Combination(c, names, choices, N) <=> InBlock(ds, block, c)
  <2>1. ASSUME NEW c, NEW d \in DimsOf(ds)
        PROVE  (\E j \in 1 .. Len(choices[d]) : c[d] = choices[d][j])
                 <=> /\ c[d] \in Nat /\ First(ds, block, d) <= c[d]
                     /\ c[d] < First(ds, block, d) + Len1(ds, block, d)
    <3>1. Len(choices[d]) = Len1(ds, block, d) /\ First(ds, block, d) \in Nat /\ Len1(ds, block, d) \in Nat
      BY <1>2, <1>3
    <3>2. ASSUME c[d] \in Nat, First(ds, block, d) <= c[d],
                 c[d] < First(ds, block, d) + Len1(ds, block, d)
          PROVE  \E j \in 1 .. Len(choices[d]) : c[d] = choices[d][j]
      <4> DEFINE j == (c[d] - First(ds, block, d)) + 1
      <4>1. j \in 1 .. Len(choices[d]) /\ c[d] = (First(ds, block, d) + j) - 1
        BY <3>1, <3>2
      <4> HIDE DEF j
      <4> QED BY <1>3, <3>1, <4>1
    <3>3. ASSUME NEW j \in 1 .. Len(choices[d]), c[d] = choices[d][j]
          PROVE  /\ c[d] \in Nat /\ First(ds, block, d) <= c[d]
                 /\ c[d] < First(ds, block, d) + Len1(ds, block, d)
      <4>1. c[d] = (First(ds, block, d) + j) - 1
        BY <1>3, <3>1, <3>3
      <4> QED BY <3>1, <4>1
    <3> QED BY <3>2, <3>3
  <2> SUFFICES ASSUME NEW c PROVE Combination(c, names, choices, N) <=> InBlock(ds, block, c)
    OBVIOUS
  <2> DEFINE chosen(d) == \E j \in 1 .. Len(choices[d]) : c[d] = choices[d][j]
             within(d) == /\ c[d] \in Nat /\ First(ds, block, d) <= c[d]
                          /\ c[d] < First(ds, block, d) + Len1(ds, block, d)
  <2>2. \A d \in DimsOf(ds) : chosen(d) <=> within(d)
    BY <2>1
  <2>3. /\ Combination(c, names, choices, N) <=>
             /\ DOMAIN c = DimsOf(ds) /\ c = [x \in DimsOf(ds) |-> c[x]]
             /\ \A k \in 1 .. N : chosen(names[k])
        /\ InBlock(ds, block, c) <=>
             /\ DOMAIN c = DimsOf(ds) /\ c = [x \in DimsOf(ds) |-> c[x]]
             /\ \A d \in DimsOf(ds) : within(d)
    BY <1>7 DEF Combination, InBlock
  <2> HIDE DEF chosen, within, N
  <2>4. (\A k \in 1 .. N : chosen(names[k])) <=> \A d \in DimsOf(ds) : within(d)
    BY <1>1, <2>2
  <2> QED BY <2>3, <2>4
<1>9. AnySeq(cells) /\ Len(cells) = st[0][N] /\ Distinct(cells)
  <2>1. \A k \in 1 .. N : Distinct(choices[names[k]])
    BY <1>1, <1>3
  <2> QED BY <1>6, <2>1 DEF AllCombinations, InOrder
<1>10. ASSUME NEW p \in 1 .. Len(cells)
       PROVE  /\ InBlock(ds, block, cells[p])
              /\ \A k \in 1 .. N :
                   cells[p][names[k]] = (First(ds, block, names[k]) + Digit(p, st, shape, k, N)) - 1
  <2>1. /\ Combination(cells[p], names, choices, N)
        /\ \A k \in 1 .. N : cells[p][names[k]] = choices[names[k]][Digit(p, st, shape, k, N)]
    BY <1>6 DEF AllCombinations, InOrder
  <2>2. ASSUME NEW k \in 1 .. N
        PROVE  cells[p][names[k]] = (First(ds, block, names[k]) + Digit(p, st, shape, k, N)) - 1
    <3>1. Digit(p, st, shape, k, N) \in 1 .. shape[k]
      BY <1>1, <1>9, DigitsTell
    <3>2. names[k] \in DimsOf(ds) /\ shape[k] = Len1(ds, block, names[k])
      BY <1>1
    <3> HIDE DEF N
    <3> QED BY <1>3, <2>1, <3>1, <3>2
  <2> QED BY <1>8, <2>1, <2>2
<1>11. \A c : InBlock(ds, block, c) => \E p \in 1 .. Len(cells) : cells[p] = c
  BY <1>6, <1>8 DEF AllCombinations
<1> QED BY <1>9, <1>10, <1>11 DEF RaveledCells, cells

-----------------------------------------------------------------------------
(* Chunks that cover a dimension.                                             *)
IsSizes(q, size) == q \in Seq(Nat) /\ \E f : Sums(f, Len(q), q) /\ f[Len(q)] = size

LEMMA WholeSizes ==
  ASSUME NEW size \in Nat
  PROVE  IsSizes(<<size>>, size)
<1> DEFINE q == <<size>>
           f == [i \in 0 .. 1 |-> IF i = 0 THEN 0 ELSE size]
<1>1. q \in Seq(Nat) /\ Len(q) = 1 /\ q[1] = size
  OBVIOUS
<1>2. f[0] = 0 /\ f[1] = size
  OBVIOUS
<1> HIDE DEF q, f
<1>3. Sums(f, Len(q), q) /\ f[Len(q)] = size
  <2>1. \A n \in 1 .. 1 : n = 1 /\ n - 1 = 0
    OBVIOUS
  <2>2. f[1] = f[0] + q[1]
    BY <1>1, <1>2
  <2> QED BY <1>1, <1>2, <2>1, <2>2 DEF Sums
<1>4. IsSizes(q, size)
  BY <1>1, <1>3 DEF IsSizes
<1> QED BY <1>4 DEF q

LEMMA EvenSizes ==
  ASSUME NEW size \in Nat, NEW step \in Int
  PROVE  IsSizes(Even(size, step), size)
<1>1. CASE step <= 0 \/ step >= size
  BY <1>1, WholeSizes DEF Even
<1>2. CASE ~(step <= 0 \/ step >= size)
  <2> DEFINE m == size \div step
             r == size % step
             p == [i \in 1 .. m |-> step]
             e == IF r = 0 THEN << >> ELSE <<r>>
             q == p \o e
  <2>1. Even(size, step) = q
    BY <1>2 DEF Even
  <2>2. step \in Nat \ {0} /\ m \in Nat /\ r \in 0 .. step - 1 /\ size = m * step + r
    BY <1>2, QuotientAndRest
  <2> HIDE DEF m, r
  <2>3. p \in Seq(Nat) /\ Len(p) = m /\ \A i \in 1 .. m : p[i] = step
    <3>1. p \in [1 .. m -> Nat]
      BY <2>2
    <3> QED BY <2>2, <3>1
  <2>4. e \in Seq(Nat) /\ Len(e) = (IF r = 0 THEN 0 ELSE 1) /\ (r # 0 => e[1] = r)
    BY <2>2
  <2> HIDE DEF p, e
  <2>5. q \in Seq(Nat) /\ Len(q) = m + Len(e) /\ (\A i \in 1 .. m : q[i] = step)
        /\ (r # 0 => q[m + 1] = r)
    <3>1. q \in Seq(Nat)
      BY <2>3, <2>4
    <3>2. AnySeq(p) /\ AnySeq(e)
      BY <2>3, <2>4 DEF AnySeq
    <3>3. /\ Len(q) = Len(p) + Len(e) /\ \A i \in 1 .. Len(p) : q[i] = p[i]
          /\ \A i \in 1 .. Len(e) : q[i + Len(p)] = e[i]
      BY <3>2, JoinedSequence
    <3>4. r # 0 => 1 \in 1 .. Len(e) /\ 1 + m = m + 1
      BY <2>2, <2>4
    <3> HIDE DEF q
    <3> QED BY <2>3, <2>4, <3>1, <3>3, <3>4
  <2> HIDE DEF q
  <2> DEFINE f == [i \in 0 .. Len(q) |-> IF i <= m THEN i * step ELSE size]
  <2>6. ASSUME NEW n \in 1 .. Len(q)
        PROVE  f[n] = f[n - 1] + q[n]
    <3>0. n \in Nat /\ n \in 0 .. Len(q) /\ n - 1 \in 0 .. Len(q)
      BY <2>5
    <3>1. CASE n <= m
      <4>1. f[n] = n * step /\ f[n - 1] = (n - 1) * step /\ q[n] = step
        BY <2>2, <2>5, <3>0, <3>1
      <4>2. n * step = (n - 1) * step + step
        BY <2>2, <3>0
      <4> QED BY <4>1, <4>2
    <3>2. CASE ~(n <= m)
      <4>1. n = m + 1 /\ r # 0 /\ n - 1 = m
        BY <2>2, <2>4, <2>5, <3>0, <3>2
      <4>2. f[n] = size /\ f[n - 1] = m * step /\ q[n] = r
        BY <2>2, <2>5, <3>0, <3>2, <4>1
      <4> QED BY <2>2, <4>2
    <3> QED BY <3>1, <3>2
  <2>7. f[0] = 0
    <3>1. 0 \in 0 .. Len(q) /\ 0 <= m /\ 0 * step = 0
      BY <2>2, <2>5
    <3> QED BY <3>1
  <2>8. f[Len(q)] = size
    <3>1. Len(q) \in 0 .. Len(q) /\ Len(q) = m + (IF r = 0 THEN 0 ELSE 1)
      BY <2>4, <2>5
    <3>2. CASE r = 0
      <4>1. Len(q) = m /\ size = m * step
        <5>1. m * step \in Nat
          BY <2>2
        <5> QED BY <2>2, <3>1, <3>2, <5>1
      <4> QED BY <2>2, <3>1, <4>1
    <3>3. CASE r # 0
      <4>1. ~(Len(q) <= m)
        BY <2>2, <3>1, <3>3
      <4> QED BY <3>1, <4>1
    <3> QED BY <3>2, <3>3
  <2> HIDE DEF f
  <2>9. IsSizes(q, size)
    BY <2>5, <2>6, <2>7, <2>8 DEF IsSizes, Sums
  <2> QED BY <2>1, <2>9
<1> QED BY <1>1, <1>2

(* The bounds of chunks are their sums.                                       *)
BoundsSum(bounds, sizes) ==
  /\ bounds \in Seq(Nat) /\ Len(bounds) = Len(sizes) + 1
  /\ Sums([i \in 0 .. Len(sizes) |-> bounds[i + 1]], Len(sizes), sizes)

LEMMA ChunkBoundsSum ==
  ASSUME NEW sizes \in Seq(Nat)
  PROVE  BoundsSum(ChunkBounds(sizes), sizes)
<1> DEFINE N == Len(sizes)
           V == {s \in Seq(Nat) : s # << >>}
           next(v, n) == Append(v, Last(v) + sizes[n])
           step == [n \in 1 .. N |-> [v \in V |-> next(v, n)]]
           pick == [s \in SUBSET (1 .. N) |-> Max(s)]
           base == <<0>>
           Eq(it) == it = [s \in SUBSET (DOMAIN sizes) |->
                             IF s = {} THEN <<0>>
                             ELSE Append(it[s \ {Max(s)}], Last(it[s \ {Max(s)}]) + sizes[Max(s)])]
<1>1. N \in Nat /\ DOMAIN sizes = 1 .. N /\ \A n \in 1 .. N : sizes[n] \in Nat
  OBVIOUS
<1>2. ASSUME NEW n \in 1 .. N, NEW v \in V
      PROVE  next(v, n) \in V
  <2>1. v \in Seq(Nat) /\ Len(v) \in 1 .. Len(v)
    BY SequenceParts DEF AnySeq
  <2>2. Last(v) \in Nat
    BY <2>1 DEF Last
  <2>3. Last(v) + sizes[n] \in Nat
    BY <1>1, <2>2
  <2> DEFINE x == Last(v) + sizes[n]
  <2>4. x \in Nat
    BY <2>3
  <2> HIDE DEF x
  <2>5. Append(v, x) \in Seq(Nat) /\ Append(v, x) # << >>
    <3> HIDE DEF V
    <3>1. Append(v, x) \in Seq(Nat) /\ Len(Append(v, x)) = Len(v) + 1 /\ Len(v) \in Nat
      BY <2>1, <2>4
    <3>2. Len(<< >>) = 0
      OBVIOUS
    <3>3. Append(v, x) # << >>
      <4> DEFINE w == Append(v, x)
                 m == Len(v)
      <4>1. Len(w) = m + 1 /\ m \in Nat
        BY <3>1
      <4>2. SUFFICES w # << >>
        OBVIOUS
      <4> HIDE DEF w, m
      <4> QED BY <3>2, <4>1
    <3> QED BY <3>1, <3>3
  <2> QED BY <2>5 DEF x
<1>3. base \in V
  OBVIOUS
<1>4. \A s \in SUBSET (1 .. N) : s # {} => Max(s) \in s
  <2> HIDE DEF N
  <2> QED BY <1>1, IntervalEnds
<1> HIDE DEF V, N
<1>5. PICK made \in [SUBSET (1 .. N) -> V] : Folds(made, base, N, pick, step)
  <2>1. step \in [1 .. N -> [V -> V]]
    BY <1>2
  <2>2. \A s \in SUBSET (1 .. N) : s # {} => pick[s] \in s
    BY <1>4
  <2> HIDE DEF step, pick, base
  <2> QED BY <1>1, <1>3, <2>1, <2>2, FoldExists
<1>6. Eq(made)
  <2>1. ASSUME NEW s \in SUBSET (1 .. N), s # {}
        PROVE  made[s] = next(made[s \ {Max(s)}], Max(s))
    <3>1. Max(s) \in 1 .. N /\ made[s \ {Max(s)}] \in V
      BY <1>4, <2>1
    <3>2. made[s] = step[Max(s)][made[s \ {Max(s)}]]
      <4>1. pick[s] = Max(s)
        OBVIOUS
      <4> HIDE DEF pick, step
      <4> QED BY <1>5, <2>1, <4>1 DEF Folds
    <3> HIDE DEF next
    <3> QED BY <3>1, <3>2
  <2>2. made[{}] = <<0>>
    BY <1>5 DEF Folds
  <2> HIDE DEF pick, step
  <2> QED BY <2>1, <2>2, <1>1
<1> DEFINE it == CHOOSE it : Eq(it)
<1>7. Eq(it)
  <2> HIDE DEF Eq
  <2> QED BY <1>6
<1>8. ChunkBounds(sizes) = it[DOMAIN sizes]
  BY Zenon DEF ChunkBounds, FoldLeft, MapThenFoldSet
<1> HIDE DEF it
<1> DEFINE g == [n \in 0 .. N |-> it[1 .. n]]
<1>9. g[0] = <<0>>
  BY <1>1, <1>7
<1>10. ASSUME NEW n \in 1 .. N
       PROVE  g[n] = next(g[n - 1], n)
  <2>1. 1 .. n \in SUBSET (DOMAIN sizes) /\ 1 .. n # {}
    <3>1. n \in 1 .. n /\ \A i \in 1 .. n : i \in 1 .. N
      BY <1>1
    <3> QED BY <1>1, <3>1
  <2>2. Max(1 .. n) = n /\ (1 .. n) \ {n} = 1 .. n - 1
    BY <1>1, IntervalTop
  <2> DEFINE s == 1 .. n
  <2>3. it[s] = next(it[s \ {Max(s)}], Max(s))
    <3>1. s \in SUBSET (DOMAIN sizes) /\ s # {}
      BY <2>1
    <3> HIDE DEF s
    <3> QED BY <3>1, <1>7
  <2>4. it[1 .. n] = next(it[1 .. n - 1], n)
    BY <2>2, <2>3
  <2> QED BY <1>1, <2>4
<1>11. ChunkBounds(sizes) = g[N]
  BY <1>1, <1>8
<1>12. PICK f \in [0 .. N -> Nat] : Sums(f, N, sizes)
  <2>1. sizes \in [1 .. N -> Nat]
    BY <1>1
  <2> QED BY <1>1, <2>1, SumsExist
<1> HIDE DEF g
<1> DEFINE S == {n \in Nat : n <= N => /\ g[n] \in Seq(Nat) /\ Len(g[n]) = n + 1
                                       /\ \A i \in 0 .. n : g[n][i + 1] = f[i]}
<1>13. 0 \in S
  <2>1. f[0] = 0
    BY <1>12 DEF Sums
  <2>2. g[0] \in Seq(Nat) /\ Len(g[0]) = 0 + 1 /\ g[0][1] = 0
    BY <1>9
  <2>3. \A i \in 0 .. 0 : i = 0 /\ i + 1 = 1
    OBVIOUS
  <2>4. \A i \in 0 .. 0 : g[0][i + 1] = f[i]
    BY <2>1, <2>2, <2>3
  <2> QED BY <2>2, <2>4
<1>14. ASSUME NEW n \in S
       PROVE  n + 1 \in S
  <2> SUFFICES ASSUME n + 1 <= N
               PROVE  /\ g[n + 1] \in Seq(Nat) /\ Len(g[n + 1]) = (n + 1) + 1
                      /\ \A i \in 0 .. n + 1 : g[n + 1][i + 1] = f[i]
    OBVIOUS
  <2> DEFINE p == g[n]
             x == f[n + 1]
  <2>1. /\ n \in Nat /\ n + 1 \in 1 .. N /\ (n + 1) - 1 = n /\ n \in 0 .. N
        /\ p \in Seq(Nat) /\ Len(p) = n + 1 /\ \A i \in 0 .. n : p[i + 1] = f[i]
    BY <1>1
  <2>2. Last(p) = f[n]
    BY <2>1 DEF Last
  <2>3. f[n + 1] = f[n] + sizes[n + 1] /\ f[n + 1] \in Nat
    <3>1. \A k \in 1 .. N : f[k] = f[k - 1] + sizes[k]
      BY <1>12 DEF Sums
    <3>2. n + 1 \in 0 .. N
      BY <1>1, <2>1
    <3> QED BY <1>12, <2>1, <3>1, <3>2
  <2>4. g[n + 1] = Append(p, x)
    BY <1>10, <2>1, <2>2, <2>3
  <2> HIDE DEF p, x
  <2>5. Append(p, x) \in Seq(Nat) /\ Len(Append(p, x)) = (n + 1) + 1
    BY <2>1, <2>3 DEF x
  <2>6. ASSUME NEW i \in 0 .. n + 1
        PROVE  Append(p, x)[i + 1] = f[i]
    <3>1. CASE i = n + 1
      <4>1. i + 1 = Len(p) + 1 /\ Append(p, x)[Len(p) + 1] = x
        BY <2>1, <3>1
      <4> QED BY <3>1, <4>1 DEF x
    <3>2. CASE i # n + 1
      <4>1. i \in 0 .. n /\ i + 1 \in 1 .. Len(p)
        BY <2>1, <3>2
      <4>2. Append(p, x)[i + 1] = p[i + 1]
        BY <2>1, <4>1
      <4> QED BY <2>1, <4>1, <4>2
    <3> QED BY <3>1, <3>2
  <2> QED BY <2>4, <2>5, <2>6
<1>15. S = Nat
  <2>1. S \in SUBSET Nat
    OBVIOUS
  <2> HIDE DEF S
  <2> QED BY <2>1, <1>13, <1>14, InductiveSet
<1>16. N \in S
  <2> HIDE DEF S
  <2> QED BY <1>1, <1>15
<1> DEFINE bounds == ChunkBounds(sizes)
<1>17. bounds \in Seq(Nat) /\ Len(bounds) = N + 1 /\ \A i \in 0 .. N : bounds[i + 1] = f[i]
  BY <1>1, <1>11, <1>16
<1> HIDE DEF bounds
<1> DEFINE h == [i \in 0 .. N |-> bounds[i + 1]]
<1>18. Sums(h, N, sizes)
  <2>1. \A i \in 0 .. N : h[i] = f[i]
    BY <1>17
  <2>2. 0 \in 0 .. N /\ \A n \in 1 .. N : n \in 0 .. N /\ n - 1 \in 0 .. N
    BY <1>1
  <2> HIDE DEF h
  <2> QED BY <1>12, <2>1, <2>2 DEF Sums
<1> QED BY <1>17, <1>18 DEF BoundsSum, bounds, N

-----------------------------------------------------------------------------
(* The chunks of a dataset, whatever they come from, cover its dimensions.    *)
Ints(spec) == \A d \in DOMAIN spec : spec[d] \in Int

LEMMA StorageInts ==
  ASSUME NEW ds, IsGrid(ds)
  PROVE  Ints(StorageChunks(ds))
<1> DEFINE e == ds.encodings
           N == Len(e)
           U == UNION {DOMAIN e[i] : i \in 1 .. N}
           V == UNION {[D -> Int] : D \in SUBSET U}
           step == [n \in 1 .. N |-> [v \in V |-> Extended(v, e[n])]]
           pick == [s \in SUBSET (1 .. N) |-> Max(s)]
           base == << >>
           Eq(it) == it = [s \in SUBSET (DOMAIN e) |->
                             IF s = {} THEN << >> ELSE Extended(it[s \ {Max(s)}], e[Max(s)])]
<1>1. N \in Nat /\ DOMAIN e = 1 .. N /\ \A i \in 1 .. N : \A d \in DOMAIN e[i] : e[i][d] \in Int
  <2>1. e \in Seq(ToSet(e)) /\ \A i \in DOMAIN e : \A d \in DOMAIN e[i] : e[i][d] \in Int
    BY DEF IsGrid
  <2> HIDE DEF e
  <2>2. AnySeq(e)
    BY <2>1 DEF AnySeq
  <2> QED BY <2>1, <2>2, SequenceParts
<1>2. StorageChunks(ds) = FoldLeft(Extended, << >>, e)
  BY DEF StorageChunks
<1> HIDE DEF e
<1>3. ASSUME NEW n \in 1 .. N, NEW v \in V
      PROVE  Extended(v, e[n]) \in V
  <2>1. PICK D \in SUBSET U : v \in [D -> Int]
    <3> HIDE DEF U
    <3> QED OBVIOUS
  <2>2. DOMAIN e[n] \subseteq U
    OBVIOUS
  <2> HIDE DEF U
  <2>3. Extended(v, e[n]) \in [D \cup DOMAIN e[n] -> Int]
    BY <1>1, <2>1 DEF Extended
  <2> QED BY <2>1, <2>2, <2>3
<1>4. base \in V
  <2>1. << >> \in [{} -> Int]
    OBVIOUS
  <2>2. [{} -> Int] \in {[D -> Int] : D \in SUBSET U}
    OBVIOUS
  <2> HIDE DEF U
  <2> QED BY <2>1, <2>2
<1>5. \A s \in SUBSET (1 .. N) : s # {} => Max(s) \in s
  <2> HIDE DEF N
  <2> QED BY <1>1, IntervalEnds
<1> HIDE DEF V, N
<1>6. PICK made \in [SUBSET (1 .. N) -> V] : Folds(made, base, N, pick, step)
  <2>1. step \in [1 .. N -> [V -> V]]
    BY <1>3
  <2>2. \A s \in SUBSET (1 .. N) : s # {} => pick[s] \in s
    BY <1>5
  <2> HIDE DEF step, pick, base
  <2> QED BY <1>1, <1>4, <2>1, <2>2, FoldExists
<1>7. Eq(made)
  <2>1. ASSUME NEW s \in SUBSET (1 .. N), s # {}
        PROVE  made[s] = Extended(made[s \ {Max(s)}], e[Max(s)])
    <3>1. Max(s) \in 1 .. N /\ made[s \ {Max(s)}] \in V
      BY <1>5, <2>1
    <3>2. made[s] = step[Max(s)][made[s \ {Max(s)}]]
      <4>1. pick[s] = Max(s)
        OBVIOUS
      <4> HIDE DEF pick, step
      <4> QED BY <1>6, <2>1, <4>1 DEF Folds
    <3> QED BY <3>1, <3>2
  <2>2. made[{}] = << >>
    BY <1>6 DEF Folds
  <2> HIDE DEF pick, step
  <2> QED BY <2>1, <2>2, <1>1
<1> DEFINE it == CHOOSE it : Eq(it)
<1>8. Eq(it)
  <2> HIDE DEF Eq
  <2> QED BY <1>7
<1>9. StorageChunks(ds) = it[DOMAIN e]
  BY <1>2, Zenon DEF FoldLeft, MapThenFoldSet
<1> HIDE DEF it
<1>10. it[1 .. N] \in V
  <2>1. it[{}] \in V
    BY <1>4, <1>8
  <2>2. ASSUME NEW s \in SUBSET (1 .. N), s # {}
        PROVE  \E i \in s : it[s \ {i}] \in V => it[s] \in V
    <3>1. it[s] = Extended(it[s \ {Max(s)}], e[Max(s)])
      BY <1>1, <1>8, <2>2
    <3>2. Max(s) \in s /\ Max(s) \in 1 .. N
      BY <1>5, <2>2
    <3> QED BY <1>3, <3>1, <3>2
  <2> QED BY <1>1, <2>1, <2>2, FoldMember
<1>11. PICK D \in SUBSET U : it[1 .. N] \in [D -> Int]
  <2> HIDE DEF U
  <2> QED BY <1>10 DEF V
<1> QED BY <1>1, <1>9, <1>11 DEF Ints

LEMMA DefaultInts ==
  ASSUME NEW ds, IsGrid(ds), NEW block_rows \in Nat \ {0}
  PROVE  Ints(DefaultChunks(ds, block_rows))
<1> DEFINE dims == ds.dims
           N == Len(dims)
           W == UNION {[D -> Nat] : D \in SUBSET DimsOf(ds)}
           V == [inner : Nat \ {0}, chunks : W]
           size(d, acc) == Largest(1, Smallest(ds.size[d], block_rows \div acc.inner))
           next(d, acc) ==
             [inner |-> acc.inner * size(d, acc),
              chunks |-> IF size(d, acc) < ds.size[d]
                         THEN Extended(acc.chunks, [e \in {d} |-> size(d, acc)]) ELSE acc.chunks]
           step == [n \in 1 .. N |-> [v \in V |-> next(dims[n], v)]]
           pick == [s \in SUBSET (1 .. N) |-> Min(s)]
           base == [inner |-> 1, chunks |-> << >>]
           Eq(it) == it = [s \in SUBSET (DOMAIN dims) |->
                             IF s = {} THEN [inner |-> 1, chunks |-> << >>]
                             ELSE next(dims[Min(s)], it[s \ {Min(s)}])]
<1>1. N \in Nat /\ DOMAIN dims = 1 .. N /\ \A i \in 1 .. N : dims[i] \in DimsOf(ds)
  <2>1. AnySeq(dims)
    BY DEF IsGrid, AnySeq
  <2>2. N \in Nat /\ DOMAIN dims = 1 .. N
    BY <2>1, SequenceParts
  <2> QED BY <2>2 DEF DimsOf, ToSet
<1>2. \A d \in DimsOf(ds) : ds.size[d] \in Nat
  BY DEF IsGrid
<1>3. ASSUME NEW n \in 1 .. N, NEW v \in V
      PROVE  next(dims[n], v) \in V
  <2> DEFINE d == dims[n]
             x == size(d, v)
             w == v.chunks
             a == v.inner
  <2>1. a \in Nat \ {0} /\ w \in W /\ d \in DimsOf(ds) /\ ds.size[d] \in Nat
    <3> HIDE DEF W
    <3> QED BY <1>1, <1>2
  <2>2. block_rows \div a \in Nat
    BY <2>1, QuotientAndRest
  <2>3. x \in Nat \ {0}
    BY <2>1, <2>2 DEF Largest, Smallest
  <2>4. next(d, v) = [inner |-> a * x, chunks |-> IF x < ds.size[d]
                        THEN Extended(w, [e \in {d} |-> x]) ELSE w]
    OBVIOUS
  <2> HIDE DEF d, x, w, a
  <2>5. a * x \in Nat /\ a * x # 0
    BY <2>1, <2>3, ProductIsNat
  <2>6. Extended(w, [e \in {d} |-> x]) \in W
    <3>1. PICK D \in SUBSET DimsOf(ds) : w \in [D -> Nat]
      BY <2>1
    <3>2. Extended(w, [e \in {d} |-> x]) \in [D \cup {d} -> Nat]
      BY <2>3, <3>1 DEF Extended
    <3>3. D \cup {d} \in SUBSET DimsOf(ds)
      BY <2>1
    <3> QED BY <3>2, <3>3
  <2> DEFINE y == IF x < ds.size[d] THEN Extended(w, [e \in {d} |-> x]) ELSE w
             b == a * x
  <2>7. y \in W
    <3> HIDE DEF W
    <3> QED BY <2>1, <2>6
  <2>8. b \in Nat \ {0}
    BY <2>5
  <2>9. next(d, v) = [inner |-> b, chunks |-> y]
    BY <2>4
  <2> HIDE DEF y, b, W, next
  <2>10. next(d, v) \in V
    BY <2>7, <2>8, <2>9
  <2> QED BY <2>10 DEF d
<1>4. base \in V
  <2>1. << >> \in [{} -> Nat]
    OBVIOUS
  <2>2. [{} -> Nat] \in {[D -> Nat] : D \in SUBSET DimsOf(ds)}
    OBVIOUS
  <2>3. << >> \in W
    BY <2>1, <2>2
  <2> HIDE DEF W
  <2> QED BY <2>3
<1>5. \A s \in SUBSET (1 .. N) : s # {} => Min(s) \in s
  <2> HIDE DEF N
  <2> QED BY <1>1, IntervalEnds
<1> DEFINE it == CHOOSE it : Eq(it)
<1>6. DefaultChunks(ds, block_rows) = it[DOMAIN dims].chunks
  BY Zenon DEF DefaultChunks, FoldRight, MapThenFoldSet
<1> HIDE DEF V, N, dims, next
<1>7. PICK made \in [SUBSET (1 .. N) -> V] : Folds(made, base, N, pick, step)
  <2>1. step \in [1 .. N -> [V -> V]]
    BY <1>3
  <2>2. \A s \in SUBSET (1 .. N) : s # {} => pick[s] \in s
    BY <1>5
  <2> HIDE DEF step, pick, base
  <2> QED BY <1>1, <1>4, <2>1, <2>2, FoldExists
<1>8. Eq(made)
  <2>1. ASSUME NEW s \in SUBSET (1 .. N), s # {}
        PROVE  made[s] = next(dims[Min(s)], made[s \ {Min(s)}])
    <3>1. Min(s) \in 1 .. N /\ made[s \ {Min(s)}] \in V
      BY <1>5, <2>1
    <3>2. made[s] = step[Min(s)][made[s \ {Min(s)}]]
      <4>1. pick[s] = Min(s)
        OBVIOUS
      <4> HIDE DEF pick, step
      <4> QED BY <1>7, <2>1, <4>1 DEF Folds
    <3> QED BY <3>1, <3>2
  <2>2. made[{}] = [inner |-> 1, chunks |-> << >>]
    BY <1>7 DEF Folds
  <2> HIDE DEF pick, step
  <2> QED BY <2>1, <2>2, <1>1
<1>9. Eq(it)
  <2> HIDE DEF Eq
  <2> QED BY <1>8
<1> HIDE DEF it
<1>10. it[1 .. N] \in V
  <2>1. it[{}] \in V
    BY <1>4, <1>9
  <2>2. ASSUME NEW s \in SUBSET (1 .. N), s # {}
        PROVE  \E i \in s : it[s \ {i}] \in V => it[s] \in V
    <3>1. it[s] = next(dims[Min(s)], it[s \ {Min(s)}])
      BY <1>1, <1>9, <2>2
    <3>2. Min(s) \in s /\ Min(s) \in 1 .. N
      BY <1>5, <2>2
    <3> QED BY <1>3, <3>1, <3>2
  <2> QED BY <1>1, <2>1, <2>2, FoldMember
<1>11. it[1 .. N].chunks \in W
  <2> HIDE DEF W
  <2> QED BY <1>10 DEF V
<1>12. PICK D \in SUBSET DimsOf(ds) : it[1 .. N].chunks \in [D -> Nat]
  BY <1>11
<1> QED BY <1>1, <1>6, <1>12 DEF Ints

Resolved(ds, resolved) ==
  DOMAIN resolved \subseteq DimsOf(ds) /\ \A d \in DOMAIN resolved : IsSizes(resolved[d], ds.size[d])

LEMMA DaskSizes ==
  ASSUME NEW ds, IsGrid(ds), NEW d \in DOMAIN ds.chunks
  PROVE  IsSizes(ds.chunks[d], ds.size[d])
<1> DEFINE q == ds.chunks[d]
           bounds == ChunkBounds(q)
           f == [i \in 0 .. Len(q) |-> bounds[i + 1]]
<1>1. q \in Seq(Nat) /\ Last(bounds) = ds.size[d]
  BY DEF IsGrid
<1>2. BoundsSum(bounds, q)
  BY <1>1, ChunkBoundsSum
<1> HIDE DEF q, bounds
<1>3. Sums(f, Len(q), q) /\ Len(bounds) = Len(q) + 1 /\ Len(q) \in Nat
  BY <1>1, <1>2 DEF BoundsSum
<1>4. f[Len(q)] = ds.size[d]
  <2>1. Len(q) \in 0 .. Len(q)
    BY <1>3
  <2>2. f[Len(q)] = bounds[Len(q) + 1]
    BY <2>1
  <2> QED BY <1>1, <1>3, <2>2 DEF Last
<1> HIDE DEF f
<1> QED BY <1>1, <1>3, <1>4 DEF IsSizes, q

LEMMA ComputedSizes ==
  ASSUME NEW ds, IsGrid(ds), NEW spec, Ints(spec)
  PROVE  Resolved(ds, ComputeChunks(ds, spec))
<1> DEFINE computed == ComputeChunks(ds, spec)
           sizes(d) == IF d \in DOMAIN spec THEN Even(ds.size[d], spec[d])
                       ELSE IF d \in DOMAIN ds.chunks THEN ds.chunks[d] ELSE <<ds.size[d]>>
<1>1. computed = [d \in DimsOf(ds) |-> sizes(d)]
  BY DEF ComputeChunks
<1>2. \A d \in DimsOf(ds) : ds.size[d] \in Nat
  BY DEF IsGrid
<1>3. ASSUME NEW d \in DimsOf(ds)
      PROVE  IsSizes(sizes(d), ds.size[d])
  <2>1. CASE d \in DOMAIN spec
    BY <1>2, <2>1, EvenSizes DEF Ints
  <2>2. CASE d \notin DOMAIN spec /\ d \in DOMAIN ds.chunks
    BY <2>2, DaskSizes
  <2>3. CASE d \notin DOMAIN spec /\ d \notin DOMAIN ds.chunks
    BY <1>2, <2>3, WholeSizes
  <2> QED BY <2>1, <2>2, <2>3
<1> HIDE DEF computed, sizes
<1> QED BY <1>1, <1>3 DEF Resolved, computed

-----------------------------------------------------------------------------
(* The slices of a dimension: each of its positions is in one of them.        *)
From(slice) == IF slice = Full THEN 0 ELSE slice[1]
To(slice, size) == IF slice = Full THEN size ELSE slice[2]
InSlice(x, slice, size) == From(slice) <= x /\ x < To(slice, size)

IsSlice(slice, size) ==
  slice # Full => /\ slice[1] \in Nat /\ slice[2] \in Nat
                  /\ slice[1] <= slice[2] /\ slice[2] <= size


(* The blocks cut the grid: every cell is in one of them.                     *)
LEMMA InBlockSlices ==
  ASSUME NEW ds, IsGrid(ds), NEW block, IsBlock(ds, block), NEW c
  PROVE  InBlock(ds, block, c) <=>
           /\ DOMAIN c = DimsOf(ds) /\ c = [d \in DimsOf(ds) |-> c[d]]
           /\ \A d \in DimsOf(ds) : c[d] \in Nat /\ InSlice(c[d], block[d], ds.size[d])
<1>1. ASSUME NEW d \in DimsOf(ds), c[d] \in Nat
      PROVE  InSlice(c[d], block[d], ds.size[d])
               <=> /\ First(ds, block, d) <= c[d]
                   /\ c[d] < First(ds, block, d) + Len1(ds, block, d)
  <2>1. ds.size[d] \in Nat
    BY DEF IsGrid
  <2>2. CASE block[d] = Full
    BY <1>1, <2>1, <2>2 DEF InSlice, From, To, First, Len1
  <2>3. CASE block[d] # Full
    <3>1. block[d][1] \in Nat /\ block[d][2] \in Nat
      BY <2>3 DEF IsBlock
    <3> QED BY <1>1, <2>3, <3>1 DEF InSlice, From, To, First, Len1
  <2> QED BY <2>2, <2>3
<1> DEFINE in(d) == /\ First(ds, block, d) <= c[d]
                    /\ c[d] < First(ds, block, d) + Len1(ds, block, d)
           slice(d) == InSlice(c[d], block[d], ds.size[d])
<1>2. \A d \in DimsOf(ds) : c[d] \in Nat => (slice(d) <=> in(d))
  BY <1>1
<1>3. InBlock(ds, block, c) <=>
        /\ DOMAIN c = DimsOf(ds) /\ c = [d \in DimsOf(ds) |-> c[d]]
        /\ \A d \in DimsOf(ds) : c[d] \in Nat /\ in(d)
  BY DEF InBlock
<1> HIDE DEF in, slice
<1>4. InBlock(ds, block, c) <=>
        /\ DOMAIN c = DimsOf(ds) /\ c = [d \in DimsOf(ds) |-> c[d]]
        /\ \A d \in DimsOf(ds) : c[d] \in Nat /\ slice(d)
  BY <1>2, <1>3
<1> QED BY <1>4 DEF slice

LEMMA WholeIsBlock ==
  ASSUME NEW ds, IsGrid(ds)
  PROVE  /\ IsBlock(ds, WholeGrid(ds))
         /\ \A c : InBlock(ds, WholeGrid(ds), c) <=>
              /\ DOMAIN c = DimsOf(ds) /\ c = [d \in DimsOf(ds) |-> c[d]]
              /\ \A d \in DimsOf(ds) : c[d] \in Nat /\ c[d] < ds.size[d]
<1>1. DOMAIN WholeGrid(ds) = DimsOf(ds) /\ \A d \in DimsOf(ds) : WholeGrid(ds)[d] = Full
  BY DEF WholeGrid
<1>2. IsBlock(ds, WholeGrid(ds))
  BY <1>1 DEF IsBlock
<1>3. \A d \in DimsOf(ds) : ds.size[d] \in Nat
  BY DEF IsGrid
<1>4. \A d \in DimsOf(ds) : \A x \in Nat : InSlice(x, WholeGrid(ds)[d], ds.size[d]) <=> x < ds.size[d]
  BY <1>1, <1>3 DEF InSlice, From, To
<1>5. \A c : InBlock(ds, WholeGrid(ds), c) <=>
        /\ DOMAIN c = DimsOf(ds) /\ c = [d \in DimsOf(ds) |-> c[d]]
        /\ \A d \in DimsOf(ds) : c[d] \in Nat /\ InSlice(c[d], WholeGrid(ds)[d], ds.size[d])
  BY <1>2, InBlockSlices
<1> QED BY <1>2, <1>4, <1>5

LEMMA CountOfCells ==
  ASSUME NEW ds, IsGrid(ds), NEW block, IsBlock(ds, block), NEW names, AreDims(names, ds)
  PROVE  Product(Shape(ds, block, names)) = Len(Ravel(ds, block, names))
<1> DEFINE N == Len(names)
           shape == Shape(ds, block, names)
           st == ShapeStrides(shape, N)
<1>1. N \in Nat /\ shape \in [1 .. N -> Nat] /\ Strides(st, shape, N)
  BY ShapeParts
<1>2. Len(Ravel(ds, block, names)) = st[0][N]
  BY RavelCells DEF RaveledCells
<1> HIDE DEF N, shape
<1>3. Product(shape) = st[0][N]
  <2>1. CASE N = 0
    <3>1. PICK f \in [0 .. N -> Nat] : Products(f, N, shape) /\ Product(shape) = f[N]
      BY <1>1, ProductFold
    <3>2. Product(shape) = 1
      BY <2>1, <3>1 DEF Products
    <3>3. st[0][N] = 1
      BY <1>1, <2>1 DEF Strides
    <3> QED BY <3>2, <3>3
  <2>2. CASE N # 0
    <3>1. 0 \in 0 .. N /\ N \in 0 .. N /\ 0 + 1 = 1
      BY <1>1
    <3>2. st[0][N] = Product(SubSeq(shape, 1, N))
      BY <3>1 DEF ShapeStrides, st
    <3>3. shape \in Seq(Nat) /\ Len(shape) = N
      BY <1>1
    <3>4. SubSeq(shape, 1, N) = shape
      BY <1>1, <3>3
    <3> QED BY <3>2, <3>4
  <2> QED BY <2>1, <2>2
<1> QED BY <1>2, <1>3 DEF shape, N

(* The positions at which a dimension is cut: they grow from zero to its      *)
(* size by the sizes of the chunks, and a position is in one chunk.           *)
CutsAt(b, sizes, size) ==
  /\ b \in Seq(Nat) /\ Len(b) = Len(sizes) + 1
  /\ \A i \in 1 .. Len(sizes) + 1 : b[i] \in Nat
  /\ b[1] = 0 /\ b[Len(sizes) + 1] = size
  /\ \A i \in 1 .. Len(sizes) : b[i + 1] = b[i] + sizes[i]
  /\ \A i, k \in 1 .. Len(sizes) + 1 : i <= k => b[i] <= b[k]
  /\ \A x \in Nat : x < size => \E i \in 1 .. Len(sizes) : b[i] <= x /\ x < b[i + 1]
  /\ \A x \in Nat : \A i, k \in 1 .. Len(sizes) :
       b[i] <= x /\ x < b[i + 1] /\ b[k] <= x /\ x < b[k + 1] => i = k

LEMMA BoundsCut ==
  ASSUME NEW size \in Nat, NEW sizes, IsSizes(sizes, size)
  PROVE  CutsAt(ChunkBounds(sizes), sizes, size)
<1> DEFINE N == Len(sizes)
           b == ChunkBounds(sizes)
           f == [i \in 0 .. N |-> b[i + 1]]
<1>1. sizes \in Seq(Nat) /\ \E g : Sums(g, N, sizes) /\ g[N] = size
  BY DEF IsSizes
<1>2. N \in Nat /\ DOMAIN sizes = 1 .. N /\ sizes \in [1 .. N -> Nat]
  BY <1>1
<1>3. BoundsSum(b, sizes)
  BY <1>1, ChunkBoundsSum
<1> HIDE DEF b
<1>4. Sums(f, N, sizes) /\ b \in Seq(Nat) /\ Len(b) = N + 1
  BY <1>3 DEF BoundsSum
<1>5. \A i \in 0 .. N : f[i] = b[i + 1]
  OBVIOUS
<1> HIDE DEF f
<1>6. f[N] = size
  <2>1. PICK g : Sums(g, N, sizes) /\ g[N] = size
    BY <1>1
  <2>2. Agrees(f, g, N)
    BY <1>4, <2>1 DEF Agrees, Sums
  <2>3. N \in 0 .. N
    BY <1>2
  <2> HIDE DEF N
  <2> QED BY <1>2, <2>1, <2>2, <2>3, AgreeAlong
<1>7. \A i, j \in 0 .. N : i <= j => f[i] <= f[j]
  BY <1>2, <1>4, SumsGrow
<1>8. \A i \in 0 .. N : f[i] \in Nat
  BY <1>2, <1>4, SumsType
<1>9. f[0] = 0 /\ \A i \in 1 .. N : f[i] = f[i - 1] + sizes[i]
  BY <1>4 DEF Sums
<1>10. ASSUME NEW x \in Nat
       PROVE  /\ x < f[N] => \E i \in 1 .. N : f[i - 1] <= x /\ x < f[i]
              /\ \A i, k \in 1 .. N : f[i - 1] <= x /\ x < f[i] /\ f[k - 1] <= x /\ x < f[k] => i = k
  <2> HIDE DEF N
  <2> QED BY <1>2, <1>4, SumsFind
<1>11. \A i \in 1 .. N + 1 : i - 1 \in 0 .. N /\ f[i - 1] = b[i]
  BY <1>2, <1>5
<1> HIDE DEF N
<1>12. b[1] = 0 /\ b[N + 1] = size /\ \A i \in 1 .. N + 1 : b[i] \in Nat
  <2>1. 1 \in 1 .. N + 1 /\ N + 1 \in 1 .. N + 1 /\ 1 - 1 = 0 /\ (N + 1) - 1 = N
    BY <1>2
  <2> QED BY <1>6, <1>8, <1>9, <1>11, <2>1
<1>13. \A i \in 1 .. N : i \in 1 .. N + 1 /\ i + 1 \in 1 .. N + 1 /\ f[i - 1] = b[i] /\ f[i] = b[i + 1]
  BY <1>2, <1>5, <1>11
<1>14. \A i \in 1 .. N : b[i + 1] = b[i] + sizes[i]
  BY <1>9, <1>13
<1>15. ASSUME NEW i \in 1 .. N + 1, NEW k \in 1 .. N + 1, i <= k
       PROVE  b[i] <= b[k]
  <2>1. i - 1 \in 0 .. N /\ k - 1 \in 0 .. N /\ i - 1 <= k - 1
    BY <1>2, <1>15
  <2> QED BY <1>7, <1>11, <2>1
<1>16. ASSUME NEW x \in Nat
       PROVE  /\ x < size => \E i \in 1 .. N : b[i] <= x /\ x < b[i + 1]
              /\ \A i, k \in 1 .. N : b[i] <= x /\ x < b[i + 1] /\ b[k] <= x /\ x < b[k + 1] => i = k
  BY <1>6, <1>10, <1>13
<1> QED BY <1>4, <1>12, <1>14, <1>15, <1>16 DEF CutsAt, N, b

-----------------------------------------------------------------------------
(* Division that rounds up, slices of a sequence, and batches.                *)
LEMMA Ceiling ==
  ASSUME NEW a \in Nat, NEW b \in Nat \ {0}
  PROVE  /\ CeilDiv(a, b) \in Nat /\ a <= CeilDiv(a, b) * b
         /\ \A x \in Nat : x < CeilDiv(a, b) => x * b < a
         /\ \A x \in Nat : a <= x * b => CeilDiv(a, b) <= x
         /\ (a = 0 => CeilDiv(a, b) = 0)
<1> DEFINE x == (a + b) - 1
           q == x \div b
           r == x % b
<1>1. x \in Nat /\ CeilDiv(a, b) = q
  BY DEF CeilDiv
<1>2. q \in Nat /\ r \in 0 .. b - 1 /\ x = q * b + r
  <2> HIDE DEF x
  <2> QED BY <1>1, QuotientAndRest
<1> HIDE DEF q, r
<1>3. q * b \in Nat /\ a <= q * b /\ q * b <= (a + b) - 1
  <2>1. q * b \in Nat
    BY <1>2
  <2> QED BY <1>2, <2>1
<1>4. ASSUME NEW y \in Nat, y < q
      PROVE  y * b < a
  <2>1. (y + 1) * b <= q * b /\ (y + 1) * b = y * b + b /\ y * b \in Nat
    BY <1>2, <1>4
  <2> QED BY <1>3, <2>1
<1>5. ASSUME NEW y \in Nat, a <= y * b
      PROVE  q <= y
  <2>1. y * b \in Nat
    BY <1>5
  <2> QED BY <1>2, <1>4, <1>5, <2>1
<1>6. a = 0 => q = 0
  <2>1. a = 0 => a <= 0 * b
    OBVIOUS
  <2>2. a = 0 => q <= 0
    BY <1>5, <2>1
  <2> QED BY <1>2, <2>2
<1> QED BY <1>1, <1>2, <1>3, <1>4, <1>5, <1>6

LEMMA Slice ==
  ASSUME NEW s, NEW from \in Nat, NEW to \in Nat, from <= to
  PROVE  /\ AnySeq(SubSeq(s, from + 1, to)) /\ Len(SubSeq(s, from + 1, to)) = to - from
         /\ \A i \in 1 .. to - from : SubSeq(s, from + 1, to)[i] = s[from + i]
<1> DEFINE q == SubSeq(s, from + 1, to)
<1>1. q = [i \in 1 .. (to - (from + 1)) + 1 |-> s[((from + 1) + i) - 1]]
  BY DEF SubSeq
<1>2. (to - (from + 1)) + 1 = to - from /\ \A i \in 1 .. to - from : ((from + 1) + i) - 1 = from + i
  OBVIOUS
<1> HIDE DEF q
<1>3. q = [i \in 1 .. to - from |-> s[from + i]]
  BY <1>1, <1>2
<1>4. DOMAIN q = 1 .. to - from /\ q = [i \in 1 .. to - from |-> q[i]] /\ to - from \in Nat
  BY <1>3
<1>5. AnySeq(q) /\ Len(q) = to - from
  BY <1>4, MadeSequence
<1>6. \A i \in 1 .. to - from : q[i] = s[from + i]
  BY <1>3
<1> QED BY <1>5, <1>6 DEF q

(* Where batch b begins and ends.                                             *)
LEMMA BatchEnds ==
  ASSUME NEW total \in Nat, NEW n \in Nat \ {0}, NEW b \in 1 .. CeilDiv(total, n)
  PROVE  /\ (b - 1) * n \in Nat /\ Smallest(b * n, total) \in Nat
         /\ (b - 1) * n < Smallest(b * n, total) /\ Smallest(b * n, total) <= total
         /\ Smallest(b * n, total) - (b - 1) * n \in 1 .. n
         /\ (b < CeilDiv(total, n) => Smallest(b * n, total) = b * n)
         /\ (b = CeilDiv(total, n) => Smallest(b * n, total) = total)
<1> DEFINE c == CeilDiv(total, n)
<1>1. c \in Nat /\ total <= c * n /\ \A x \in Nat : x < c => x * n < total
  BY Ceiling
<1> HIDE DEF c
<1>2. b \in Nat \ {0} /\ b - 1 \in Nat /\ b <= c
  BY <1>1 DEF c
<1>3. (b - 1) * n < total /\ (b < c => b * n < total)
  BY <1>1, <1>2
<1>4. b * n = (b - 1) * n + n /\ (b - 1) * n \in Nat /\ b * n \in Nat
  BY <1>2
<1>5. b = c => total <= b * n
  BY <1>1
<1>6. Smallest(b * n, total) = IF b * n <= total THEN b * n ELSE total
  BY DEF Smallest
<1> QED BY <1>3, <1>4, <1>5, <1>6 DEF c
=============================================================================
