-------------------------- MODULE NativeScanProofs --------------------------
(* The pruning of the native table is right for every dataset, every query    *)
(* and every filter, however deep: what is proved of one test first           *)
(* is carried through casts, trees of filters and the scan.                   *)
EXTENDS NativeScan, DataInduction, FunctionTheorems

(******************************* Single tests ********************************)
(* The tests that drop a partition are sound, for every range, literal and    *)
(* value: where a test drops, its predicate is FALSE on every row - not NULL, *)
(* and not an error. NativeScan applies them under AND and OR, where FALSE    *)
(* wins over NULL and over errors, so this is what a whole filter needs.      *)
IsRange(range) ==
  /\ range.type.kind \in {"int", "uint", "float", "bool", "str", "ts", "dur"}
  /\ range.type.kind \in Temporal => range.type.size \in Nat \ {0}
  /\ range.min \in Int /\ range.max \in Int

(* The value x, of a type, of an expression on one row: the coordinate under  *)
(* casts that PruningColumn lets through, where the range bounds the          *)
(* coordinate. Its unit may differ from the range's (cftime); as an interval  *)
(* it is Null or Error where it overflows.                                    *)
Covers(range, type, x) ==
  \/ /\ \/ range.type.kind \in Integral /\ type.kind \in Integral
        \/ range.type.kind = type.kind /\ type.kind \in Ordinal \union {"float"}
     /\ x \in Int /\ range.min <= x /\ x <= range.max
  \/ /\ range.type.kind = type.kind /\ type.kind \in Temporal
     /\ x \in Int
     /\ range.min * range.type.size <= x * type.size
     /\ x * type.size <= range.max * range.type.size
  \/ /\ range.type.kind = "dur" /\ type.kind = "interval"
     /\ \E n \in Int :
          /\ range.min <= n /\ n <= range.max
          /\ IF Fits(n * range.type.size) THEN x = Interval(n * range.type.size)
             ELSE x \in {Null, Error}

(****************************** Arithmetic ***********************************)
LEMMA ProductOrder ==
  ASSUME NEW a \in Int, NEW b \in Int, NEW s \in Nat \ {0}
  PROVE  (a <= b) <=> (a * s <= b * s)
  OBVIOUS

LEMMA ProductInt ==
  ASSUME NEW a \in Int, NEW s \in Nat \ {0}
  PROVE  a * s \in Int
  OBVIOUS

(**************************** Bounds and values *******************************)
(* A range bounds a value in the literal's type: what follows needs no more.   *)
Within(range, x, lit) ==
  /\ x \notin {Null, Error} /\ lit.value # Null
  /\ Compare(range.type, range.min, lit) = "greater" =>
       RowOrder(lit.type, x, lit.value) = "greater"
  /\ Compare(range.type, range.min, lit) = "equal" =>
       RowOrder(lit.type, x, lit.value) \in {"equal", "greater"}
  /\ Compare(range.type, range.max, lit) = "less" =>
       RowOrder(lit.type, x, lit.value) = "less"
  /\ Compare(range.type, range.max, lit) = "equal" =>
       RowOrder(lit.type, x, lit.value) \in {"equal", "less"}

LEMMA WithinPlain ==
  ASSUME NEW range, IsRange(range), NEW lit, Literal(lit), NEW x \in Int,
         \/ range.type.kind \in Integral /\ lit.type.kind \in Integral
         \/ range.type.kind = lit.type.kind /\ lit.type.kind \in Ordinal \union {"float"},
         range.min <= x, x <= range.max, lit.value \notin {Null, NaN}
  PROVE  Within(range, x, lit)
<1>1. lit.value \in Int
  BY DEF Literal, Integral, Ordinal
<1>2. x \notin {Null, Error, NaN} /\ lit.value # NaN
  BY <1>1, MarksAssumption
<1>3. RowOrder(lit.type, x, lit.value) = Order(x, lit.value)
  BY <1>2 DEF RowOrder, Integral, Ordinal
<1>4. ASSUME NEW bound \in Int
      PROVE  Compare(range.type, bound, lit) = Order(bound, lit.value)
  BY <1>1 DEF Compare, Integral, Ordinal, Temporal
<1>5. range.min \in Int /\ range.max \in Int
  BY DEF IsRange
<1>6. /\ Compare(range.type, range.min, lit) = Order(range.min, lit.value)
      /\ Compare(range.type, range.max, lit) = Order(range.max, lit.value)
  BY <1>4, <1>5
<1> QED
  BY <1>1, <1>2, <1>3, <1>5, <1>6 DEF Within, Order

LEMMA WithinTemporal ==
  ASSUME NEW range, IsRange(range), NEW lit, Literal(lit), NEW x \in Int,
         range.type.kind = lit.type.kind, lit.type.kind \in Temporal,
         range.min * range.type.size <= x * lit.type.size,
         x * lit.type.size <= range.max * range.type.size,
         lit.value \notin {Null, NaN}
  PROVE  Within(range, x, lit)
<1>1. lit.value \in Int /\ lit.type.size \in Nat \ {0}
  BY DEF Literal, Temporal
<1>2. x \notin {Null, Error, NaN} /\ lit.value # NaN
  BY <1>1, MarksAssumption
<1>3. RowOrder(lit.type, x, lit.value) = Order(x, lit.value)
  BY <1>2 DEF RowOrder, Temporal
<1>4. ASSUME NEW bound
      PROVE  Compare(range.type, bound, lit)
               = Order(bound * range.type.size, lit.value * lit.type.size)
  BY DEF Compare, Temporal
<1> DEFINE lo == range.min * range.type.size
           hi == range.max * range.type.size
           xs == x * lit.type.size
           ls == lit.value * lit.type.size
<1>5. lo \in Int /\ hi \in Int /\ xs \in Int /\ ls \in Int
  BY <1>1, ProductInt DEF IsRange, Temporal
<1>6. (x <= lit.value <=> xs <= ls) /\ (lit.value <= x <=> ls <= xs)
  BY <1>1, ProductOrder
<1>7. lo <= xs /\ xs <= hi
  OBVIOUS
<1>8. /\ Compare(range.type, range.min, lit) = Order(lo, ls)
      /\ Compare(range.type, range.max, lit) = Order(hi, ls)
  BY <1>4
<1> HIDE DEF lo, hi, xs, ls
<1> QED
  BY <1>1, <1>2, <1>3, <1>5, <1>6, <1>7, <1>8 DEF Within, Order

LEMMA WithinInterval ==
  ASSUME NEW range, IsRange(range), NEW lit, Literal(lit), NEW x,
         range.type.kind = "dur", lit.type.kind = "interval",
         Covers(range, lit.type, x), RangeCanCompare(range, lit),
         lit.value \notin {Null, NaN}
  PROVE  Within(range, x, lit)
<1> DEFINE size == range.type.size
<1>1. size \in Nat \ {0} /\ range.min \in Int /\ range.max \in Int
  BY DEF IsRange, Temporal
<1>2. Fits(range.min * size) /\ Fits(range.max * size) /\ lit.value.months = 0
  BY DEF RangeCanCompare
<1>3. PICK n \in Int : /\ range.min <= n /\ n <= range.max
                       /\ IF Fits(n * size) THEN x = Interval(n * size) ELSE x \in {Null, Error}
  BY DEF Covers, Integral, Ordinal, Temporal
<1> DEFINE lo == range.min * size
           hi == range.max * size
           ns == n * size
<1>4. lo \in Int /\ hi \in Int /\ ns \in Int
  BY <1>1, ProductInt
<1>5. lo <= ns /\ ns <= hi
  BY <1>1, <1>3, ProductOrder
<1> HIDE DEF lo, hi, ns
<1>6. Fits(lo) /\ Fits(hi)
  BY <1>2 DEF lo, hi
<1>7. Fits(ns)
  BY <1>4, <1>5, <1>6, MaxNanosAssumption DEF Fits
<1>8. x = Interval(ns)
  BY <1>3, <1>7 DEF ns
<1>9. lit.value \in [months : Int, days : Int, nanos : Int]
  BY DEF Literal
<1>10. ASSUME NEW a \in Int
       PROVE  IntervalOrder(Interval(a), lit.value)
                = IF lit.value.days # 0 THEN Order(0, lit.value.days) ELSE Order(a, lit.value.nanos)
  BY <1>2, <1>9 DEF IntervalOrder, Interval
<1>11. /\ Compare(range.type, range.min, lit) = IntervalOrder(Interval(lo), lit.value)
       /\ Compare(range.type, range.max, lit) = IntervalOrder(Interval(hi), lit.value)
  BY <1>2, <1>6 DEF Compare, lo, hi
<1>12. RowOrder(lit.type, x, lit.value) = IntervalOrder(Interval(ns), lit.value)
  BY <1>8 DEF RowOrder
<1>13. x \notin {Null, Error}
  <2>1. x \in [months : Int, days : Int, nanos : Int]
    BY <1>4, <1>8 DEF Interval
  <2> QED
    BY <2>1, MarksAssumption
<1> QED
  BY <1>4, <1>5, <1>9, <1>10, <1>11, <1>12, <1>13 DEF Within, Order

LEMMA RangeBoundsRow ==
  ASSUME NEW range, IsRange(range), NEW lit, Literal(lit), NEW x,
         Covers(range, lit.type, x), RangeCanCompare(range, lit), lit.value \notin {Null, NaN}
  PROVE  Within(range, x, lit)
  BY WithinPlain, WithinTemporal, WithinInterval DEF Covers

LEMMA NothingWithoutLiteral ==
  ASSUME NEW type, NEW bound, NEW lit, lit.value \in {Null, NaN}
  PROVE  Compare(type, bound, lit) = "none"
  BY DEF Compare

(******************************** Soundness **********************************)
(* comparison_excludes: a comparison that drops a partition is FALSE on every *)
(* row, for each of the six operators.                                        *)
THEOREM ComparisonIsSound ==
  ASSUME NEW range, IsRange(range), NEW lit, Literal(lit), NEW x,
         Covers(range, lit.type, x), NEW op \in Operators,
         ComparisonExcludes(range, op, lit)
  PROVE  ComparisonOnRow(lit.type, op, x, lit) = "false"
<1>1. RangeCanCompare(range, lit)
  BY DEF ComparisonExcludes
<1>2. lit.value \notin {Null, NaN}
  BY NothingWithoutLiteral DEF ComparisonExcludes
<1>3. Within(range, x, lit)
  BY <1>1, <1>2, RangeBoundsRow
<1>4. ~Meets(op, RowOrder(lit.type, x, lit.value))
  BY <1>3 DEF Within, Meets, ComparisonExcludes, Operators
<1> QED
  BY <1>3, <1>4 DEF Within, ComparisonOnRow, Truth

(* A test of one end decides one side of a BETWEEN, and a side that is FALSE  *)
(* decides it, whatever the other is.                                         *)
LEMMA BelowIsFalse ==
  ASSUME NEW range, IsRange(range), NEW lit, Literal(lit), NEW x,
         Covers(range, lit.type, x), RangeCanCompare(range, lit),
         Compare(range.type, range.max, lit) = "less"
  PROVE  ComparisonOnRow(lit.type, ">=", x, lit) = "false"
  BY ComparisonIsSound DEF ComparisonExcludes, Operators

LEMMA AboveIsFalse ==
  ASSUME NEW range, IsRange(range), NEW lit, Literal(lit), NEW x,
         Covers(range, lit.type, x), RangeCanCompare(range, lit),
         Compare(range.type, range.min, lit) = "greater"
  PROVE  ComparisonOnRow(lit.type, "<=", x, lit) = "false"
  BY ComparisonIsSound DEF ComparisonExcludes, Operators

(* between_excludes: likewise, though one limit be NULL.                      *)
THEOREM BetweenIsSound ==
  ASSUME NEW range, IsRange(range), NEW low, Literal(low), NEW high, Literal(high),
         low.type = high.type, NEW x, Covers(range, low.type, x),
         BetweenExcludes(range, low, high)
  PROVE  BetweenOnRow(low.type, x, low, high) = "false"
<1>1. CASE Compare(range.type, range.max, low) = "less"
  BY <1>1, BelowIsFalse DEF BetweenExcludes, BetweenOnRow, And
<1>2. CASE Compare(range.type, range.min, high) = "greater"
  BY <1>2, AboveIsFalse DEF BetweenExcludes, BetweenOnRow, And
<1> QED
  BY <1>1, <1>2 DEF BetweenExcludes

(* in_list_excludes: a list that drops a partition holds no NULL and no value *)
(* of a row.                                                                  *)
THEOREM InListIsSound ==
  ASSUME NEW range, IsRange(range), NEW list, list # {},
         NEW type, \A lit \in list : Literal(lit) /\ lit.type = type,
         NEW x, Covers(range, type, x), InListExcludes(range, list)
  PROVE  InListOnRow(type, x, list) = "false"
<1>1. ASSUME NEW lit \in list
      PROVE  ComparisonOnRow(type, "=", x, lit) = "false" /\ x # Error
  <2>1. /\ RangeCanCompare(range, lit)
        /\ Compare(range.type, range.min, lit) # "none"
        /\ \/ Compare(range.type, range.min, lit) = "greater"
           \/ Compare(range.type, range.max, lit) = "less"
    BY DEF InListExcludes, MayHold
  <2>2. lit.value \notin {Null, NaN}
    BY <2>1, NothingWithoutLiteral
  <2>3. Within(range, x, lit)
    BY <2>1, <2>2, RangeBoundsRow
  <2>4. ComparisonExcludes(range, "=", lit)
    BY <2>1 DEF ComparisonExcludes
  <2> QED
    BY <2>3, <2>4, ComparisonIsSound DEF Within, Operators
<1> QED
  BY <1>1 DEF InListOnRow

(* boolean_filter_excludes: a partition dropped for a bare column has only    *)
(* FALSE rows, one dropped for NOT column only TRUE ones.                     *)
THEOREM BooleanIsSound ==
  ASSUME NEW range, IsRange(range), range.type.kind = "bool",
         {range.min, range.max} \subseteq {0, 1},
         NEW x, Covers(range, Type("bool", 0), x), NEW expected \in BOOLEAN,
         BooleanExcludes(range, expected)
  PROVE  BooleanOnRow(x) = Truth(~expected)
<1>1. Literal(TrueLiteral) /\ Literal(FalseLiteral)
  BY DEF Literal, Kinds, TrueLiteral, FalseLiteral, Type, Temporal
<1>2. x \in {0, 1} /\ range.min <= x /\ x <= range.max
  BY DEF Covers, Type, Integral, Ordinal, Temporal, IsRange
<1>3. /\ Compare(range.type, range.max, TrueLiteral) = Order(range.max, 1)
      /\ Compare(range.type, range.min, FalseLiteral) = Order(range.min, 0)
  BY MarksAssumption DEF Compare, TrueLiteral, FalseLiteral, Type, Temporal
<1>4. IF expected THEN x = 0 ELSE x = 1
  BY <1>2, <1>3 DEF BooleanExcludes, Order
<1>5. BooleanOnRow(x) = Truth(Order(x, 1) = "equal")
  <2>1. x \notin {Null, NaN, Error} /\ 1 \notin {Null, NaN, Error}
    BY <1>2, MarksAssumption
  <2>2. RowOrder(Type("bool", 0), x, 1) = Order(x, 1)
    BY <2>1 DEF RowOrder, Type
  <2>3. TrueLiteral.value = 1
    BY DEF TrueLiteral
  <2>4. Meets("=", Order(x, 1)) <=> Order(x, 1) = "equal"
    BY DEF Meets
  <2>5. ComparisonOnRow(Type("bool", 0), "=", x, TrueLiteral) = Truth(Meets("=", Order(x, 1)))
    BY <2>1, <2>2, <2>3 DEF ComparisonOnRow
  <2> QED
    BY <2>4, <2>5 DEF BooleanOnRow, Truth
<1> QED
  BY <1>4, <1>5 DEF Order, Truth

(* filter_excludes_partition drops on AND when either side does, on OR when   *)
(* both do: right, because FALSE wins over NULL and errors.                   *)
THEOREM ConnectivesKeepFalse ==
  ASSUME NEW s \in {"true", "false", "null", "error"}, NEW t \in {"true", "false", "null", "error"}
  PROVE  /\ s = "false" \/ t = "false" => And(s, t) = "false"
         /\ s = "false" /\ t = "false" => Or(s, t) = "false"
  BY DEF And, Or, Negation

-----------------------------------------------------------------------------
(******************************** Powers of two ******************************)
IsPower(g, n) == g = [k \in 0 .. n |-> IF k = 0 THEN 1 ELSE 2 * g[k - 1]]

LEMMA PowerExists ==
  ASSUME NEW n \in Nat
  PROVE  \E g : IsPower(g, n)
<1> DEFINE S == {m \in Nat : \E g : IsPower(g, m)}
<1>1. 0 \in S
  <2> DEFINE g == [k \in 0 .. 0 |-> 1]
  <2>1. g = [k \in 0 .. 0 |-> IF k = 0 THEN 1 ELSE 2 * g[k - 1]]
    OBVIOUS
  <2> HIDE DEF g
  <2> QED BY <2>1 DEF IsPower
<1>2. ASSUME NEW m \in S
      PROVE  m + 1 \in S
  <2>1. PICK g : IsPower(g, m)
    OBVIOUS
  <2> DEFINE h == [k \in 0 .. m + 1 |-> IF k = m + 1 THEN 2 * g[m] ELSE g[k]]
  <2>2. ASSUME NEW k \in 0 .. m + 1
        PROVE  h[k] = IF k = 0 THEN 1 ELSE 2 * h[k - 1]
    <3>1. CASE k = m + 1
      BY <3>1
    <3>2. CASE k \in 0 .. m
      <4>1. g[k] = IF k = 0 THEN 1 ELSE 2 * g[k - 1]
        BY <2>1, <3>2 DEF IsPower
      <4> QED BY <4>1, <3>2
    <3> QED BY <3>1, <3>2
  <2>3. h = [k \in 0 .. m + 1 |-> h[k]]
    OBVIOUS
  <2>4. h = [k \in 0 .. m + 1 |-> IF k = 0 THEN 1 ELSE 2 * h[k - 1]]
    <3> HIDE DEF h
    <3> QED BY <2>2, <2>3
  <2>5. IsPower(h, m + 1)
    <3> HIDE DEF h
    <3> QED BY <2>4 DEF IsPower
  <2> HIDE DEF h
  <2> QED BY <2>5
<1>3. S = Nat
  <2>1. S \in SUBSET Nat
    OBVIOUS
  <2> HIDE DEF S
  <2> QED BY <2>1, <1>1, <1>2, InductiveSet
<1> QED BY <1>3

LEMMA PowerUnfolds ==
  ASSUME NEW n \in Nat
  PROVE  \E g : IsPower(g, n) /\ Power(n) = g[n]
<1> DEFINE g == CHOOSE g : g = [k \in 0 .. n |-> IF k = 0 THEN 1 ELSE 2 * g[k - 1]]
<1>1. \E h : h = [k \in 0 .. n |-> IF k = 0 THEN 1 ELSE 2 * h[k - 1]]
  BY PowerExists DEF IsPower
<1>2. IsPower(g, n)
  BY <1>1, Zenon DEF IsPower
<1>3. Power(n) = g[n]
  BY Zenon DEF Power
<1> HIDE DEF g
<1> QED BY <1>2, <1>3

LEMMA PowersAgree ==
  ASSUME NEW n \in Nat, NEW g, NEW h, IsPower(g, n), IsPower(h, n + 1)
  PROVE  g[n] = h[n]
<1> DEFINE S == {m \in Nat : m <= n => g[m] = h[m]}
<1>1. 0 \in S
  BY DEF IsPower
<1>2. ASSUME NEW m \in S
      PROVE  m + 1 \in S
  <2>1. CASE m + 1 <= n
    <3>1. m + 1 \in 0 .. n /\ m + 1 \in 0 .. n + 1 /\ (m + 1) - 1 = m /\ g[m] = h[m]
      BY <2>1
    <3>2. g[m + 1] = 2 * g[m]
      BY <3>1 DEF IsPower
    <3>3. h[m + 1] = 2 * h[m]
      BY <3>1 DEF IsPower
    <3> QED BY <3>1, <3>2, <3>3
  <2> QED BY <2>1
<1>3. S = Nat
  <2>1. S \in SUBSET Nat
    OBVIOUS
  <2> HIDE DEF S
  <2> QED BY <2>1, <1>1, <1>2, InductiveSet
<1> QED BY <1>3

LEMMA PowerRecurs ==
  /\ Power(0) = 1
  /\ \A n \in Nat : Power(n + 1) = 2 * Power(n)
<1>1. Power(0) = 1
  <2>1. PICK g : IsPower(g, 0) /\ Power(0) = g[0]
    BY PowerUnfolds
  <2> QED BY <2>1 DEF IsPower
<1>2. ASSUME NEW n \in Nat
      PROVE  Power(n + 1) = 2 * Power(n)
  <2>1. PICK g : IsPower(g, n) /\ Power(n) = g[n]
    BY PowerUnfolds
  <2>2. PICK h : IsPower(h, n + 1) /\ Power(n + 1) = h[n + 1]
    BY PowerUnfolds
  <2>3. g[n] = h[n]
    BY <2>1, <2>2, PowersAgree
  <2>4. n + 1 \in 0 .. n + 1 /\ n + 1 # 0 /\ (n + 1) - 1 = n
    OBVIOUS
  <2>5. h[n + 1] = 2 * h[n]
    BY <2>2, <2>4 DEF IsPower
  <2> QED BY <2>1, <2>2, <2>3, <2>5
<1> QED BY <1>1, <1>2

LEMMA MultipleOfTwice ==
  ASSUME NEW v \in Int, NEW b \in Nat \ {0}, NEW c \in Nat \ {0}, c = 2 * b, v % c = 0
  PROVE  v % b = 0
<1>1. PICK q \in Int : v = c * q
  OBVIOUS
<1>2. PICK r \in Int : v = b * r
  <2>1. v = b * (2 * q) /\ 2 * q \in Int
    BY <1>1
  <2> QED BY <2>1
<1> QED BY ONLY <1>2, v \in Int, b \in Nat \ {0}

(* Powers of two are positive, and a larger exponent has at least twice as    *)
(* many numbers; its multiples are multiples of the smaller powers.           *)
LEMMA PowerGrows ==
  ASSUME NEW n \in Nat
  PROVE  \A k \in Nat : /\ Power(n) \in Nat \ {0}
                        /\ Power(n + k) \in Nat \ {0}
                        /\ Power(n) <= Power(n + k)
                        /\ \A v \in Int : v % Power(n + k) = 0 => v % Power(n) = 0
<1> DEFINE P == {m \in Nat : Power(m) \in Nat \ {0}}
           S == {k \in Nat : /\ Power(n) <= Power(n + k)
                             /\ \A v \in Int : v % Power(n + k) = 0 => v % Power(n) = 0}
<1>1. P = Nat
  <2>1. P \in SUBSET Nat /\ 0 \in P /\ \A m \in P : m + 1 \in P
    BY PowerRecurs
  <2> HIDE DEF P
  <2> QED BY <2>1, InductiveSet
<1>2. \A m \in Nat : Power(m) \in Nat \ {0}
  BY <1>1
<1>3. 0 \in S
  BY <1>2
<1>4. ASSUME NEW k \in S
      PROVE  k + 1 \in S
  <2> DEFINE a == Power(n)
             b == Power(n + k)
             c == Power(n + (k + 1))
  <2>1. a \in Nat \ {0} /\ b \in Nat \ {0} /\ c = 2 * b
    <3>1. k \in Nat /\ n + k \in Nat /\ n + (k + 1) = (n + k) + 1
      OBVIOUS
    <3> QED BY <3>1, <1>2, PowerRecurs
  <2>2. a <= b /\ \A v \in Int : v % b = 0 => v % a = 0
    OBVIOUS
  <2> HIDE DEF a, b, c
  <2>3. ASSUME NEW v \in Int, v % c = 0
        PROVE  v % b = 0
    <3>1. c \in Nat \ {0}
      BY ONLY <2>1
    <3> QED BY <2>1, <2>3, <3>1, MultipleOfTwice
  <2>4. \A v \in Int : v % c = 0 => v % a = 0
    BY <2>2, <2>3
  <2>5. a <= c
    BY ONLY <2>1, <2>2
  <2>6. a <= c /\ \A v \in Int : v % c = 0 => v % a = 0
    BY <2>4, <2>5
  <2> QED BY <2>6 DEF a, b, c
<1>5. S = Nat
  <2>1. S \in SUBSET Nat
    OBVIOUS
  <2> HIDE DEF S
  <2> QED BY <2>1, <1>3, <1>4, InductiveSet
<1>6. ASSUME NEW k \in Nat
      PROVE  Power(n + k) \in Nat \ {0}
  BY <1>2
<1> QED BY <1>2, <1>5, <1>6

LEMMA PowerOrder ==
  ASSUME NEW a \in Nat, NEW b \in Nat, a <= b
  PROVE  /\ Power(a) \in Nat \ {0} /\ Power(b) \in Nat \ {0}
         /\ Power(a) <= Power(b)
         /\ \A v \in Int : v % Power(b) = 0 => v % Power(a) = 0
<1>1. b - a \in Nat /\ a + (b - a) = b
  OBVIOUS
<1> QED BY <1>1, PowerGrows

(* A cast that order_preserving_cast lets through has room for every value of *)
(* the column.                                                                *)
LEMMA PreservingCastFits ==
  ASSUME NEW source, NEW target, IsType(source), IsType(target), OrderPreserving(source, target),
         source.kind # "dur", NEW v \in Int, InType(source, v)
  PROVE  /\ InType(target, v)
         /\ \/ source.kind \in Integral /\ target.kind \in Integral
            \/ source.kind = "float" /\ target.kind = "float"
            \/ source = target
<1>1. CASE source = target
  BY <1>1
<1>2. CASE source.kind = "int" /\ target.kind = "int" /\ target.size >= source.size
  <2>1. /\ source.size - 1 \in Nat /\ target.size - 1 \in Nat
        /\ source.size - 1 <= target.size - 1
    BY <1>2 DEF IsType, Integral
  <2> DEFINE a == Power(source.size - 1)
             b == Power(target.size - 1)
  <2>2. a \in Nat /\ b \in Nat /\ a <= b
    BY <2>1, PowerOrder
  <2>3. v \in -a .. a - 1
    BY <1>2 DEF InType
  <2>4. v \in -b .. b - 1
    <3> HIDE DEF a, b
    <3> QED BY <2>2, <2>3
  <2> QED BY <1>2, <2>4 DEF InType, Integral
<1>3. CASE source.kind = "uint" /\ target.kind = "uint" /\ target.size >= source.size
  <2> DEFINE a == Power(source.size)
             b == Power(target.size)
  <2>2. a \in Nat /\ b \in Nat /\ a <= b
    BY <1>3, PowerOrder DEF IsType
  <2>3. v \in 0 .. a - 1
    BY <1>3 DEF InType
  <2>4. v \in 0 .. b - 1
    <3> HIDE DEF a, b
    <3> QED BY <2>2, <2>3
  <2> QED BY <1>3, <2>4 DEF InType, Integral
<1>4. CASE source.kind = "uint" /\ target.kind = "int" /\ target.size > source.size
  <2>1. target.size - 1 \in Nat /\ source.size \in Nat /\ source.size <= target.size - 1
    BY <1>4 DEF IsType, Integral
  <2> DEFINE a == Power(source.size)
             b == Power(target.size - 1)
  <2>2. a \in Nat /\ b \in Nat /\ a <= b
    BY <2>1, PowerOrder
  <2>3. v \in 0 .. a - 1
    BY <1>4 DEF InType
  <2>4. v \in -b .. b - 1
    <3> HIDE DEF a, b
    <3> QED BY <2>2, <2>3
  <2> QED BY <1>4, <2>4 DEF InType, Integral
<1>5. CASE source.kind = "float" /\ target.kind = "float" /\ target.size > source.size
  <2>1. source.size \in Nat /\ target.size \in Nat
    BY DEF IsType
  <2>2. v % FloatStep(source.size) = 0
    BY <1>5 DEF InType
  <2>3. v % FloatStep(target.size) = 0
    <3>1. CASE target.size < WideFloat
      <4>1. /\ WideFloat - target.size \in Nat /\ WideFloat - source.size \in Nat
            /\ WideFloat - target.size <= WideFloat - source.size /\ source.size < WideFloat
        BY <2>1, <1>5, <3>1, WideFloatAssumption
      <4> QED BY <4>1, <3>1, <2>2, PowerOrder DEF FloatStep
    <3>2. CASE ~(target.size < WideFloat)
      BY <3>2 DEF FloatStep
    <3> QED BY <3>1, <3>2
  <2> QED BY <1>5, <2>3 DEF InType
<1> QED BY <1>1, <1>2, <1>3, <1>4, <1>5 DEF OrderPreserving, Integral

(**************************** Bounds of a slice ******************************)
(* The range bounds the coordinate v: in its own type, or, for the dates of a *)
(* calendar, in nanoseconds.                                                  *)
Bounds(range, type, v) ==
  /\ v \in Int /\ InType(type, v)
  /\ \/ range.type = type /\ range.min <= v /\ v <= range.max
     \/ /\ type.kind = "ts" /\ range.type.kind = "ts"
        /\ range.min * range.type.size <= v * type.size
        /\ v * type.size <= range.max * range.type.size

(* A dimension that is not of times has its ends as bounds: in the units of   *)
(* the column, unless its dates are of another calendar and in OtherUnits.    *)
LEMMA PlainBound ==
  ASSUME NEW ds, IsDataset(ds), NEW d \in Dims, NEW i \in DOMAIN ds.chunks[d],
         NEW range, range # NoRange, range = ChunkBound(ds, d, i), ~OtherUnits(ds, d),
         ~(ds.cftime[d] /\ ds.type[d].kind = "ts"), NEW s, s = ds.chunks[d][i]
  PROVE  /\ s # << >> /\ s \in Seq(Int)
         /\ range = [type |-> ds.type[d], min |-> Min(ToSet(s)), max |-> Max(ToSet(s))]
<1>1. /\ s \in Seq(Int \union {Null, NaN}) /\ ds.cftime[d] \in BOOLEAN
      /\ ds.cftime[d] => ds.type[d].kind = "int" /\ s \in Seq(Int)
  BY DEF IsDataset
<1>2. CASE ds.cftime[d]
  <2>1. range = CftimeBound(ds.type[d], ds.units[d], s) /\ ds.units[d] = DefaultUnits
    BY <1>1, <1>2 DEF ChunkBound, OtherUnits
  <2> DEFINE lo == Min(ToSet(s))
             hi == Max(ToSet(s))
  <2>2. /\ s # << >>
        /\ range = [type |-> ds.type[d], min |-> Microseconds(DefaultUnits, lo),
                    max |-> Microseconds(DefaultUnits, hi)]
    BY <1>1, <1>2, <2>1 DEF CftimeBound
  <2>3. lo \in Int /\ hi \in Int
    BY <1>1, <1>2, <2>2, EndsOfSequence
  <2> HIDE DEF lo, hi
  <2>4. Microseconds(DefaultUnits, lo) = lo /\ Microseconds(DefaultUnits, hi) = hi
    BY <2>3 DEF Microseconds, DefaultUnits
  <2> QED BY <1>1, <1>2, <2>2, <2>4 DEF lo, hi
<1>3. CASE ~ds.cftime[d]
  <2>1. range = CoordinateBound(ds.type[d], s)
    BY <1>3 DEF ChunkBound
  <2>2. /\ s # << >> /\ ~Missing(s)
        /\ range = [type |-> ds.type[d], min |-> Min(ToSet(s)), max |-> Max(ToSet(s))]
    BY <2>1 DEF CoordinateBound
  <2>3. \A j \in DOMAIN s : s[j] \in Int
    BY <1>1, <2>2 DEF Missing
  <2> QED BY <1>1, <2>2, <2>3
<1> QED BY <1>1, <1>2, <1>3

(* Whatever its units are, a bound of dates is a range of integers.           *)
LEMMA OtherBound ==
  ASSUME NEW ds, IsDataset(ds), NEW d \in Dims, NEW i \in DOMAIN ds.chunks[d],
         NEW range, range # NoRange, range = ChunkBound(ds, d, i), OtherUnits(ds, d)
  PROVE  range.type.kind = ds.type[d].kind /\ range.min <= range.max
<1> DEFINE s == ds.chunks[d][i]
           u == ds.units[d].size
           e == ds.units[d].since
           lo == Min(ToSet(s))
           hi == Max(ToSet(s))
<1>1. /\ ds.cftime[d] /\ ds.type[d].kind = "int" /\ s \in Seq(Int)
      /\ u \in Nat \ {0} /\ e \in Int
  BY DEF IsDataset, OtherUnits
<1>2. range = CftimeBound(ds.type[d], ds.units[d], s)
  BY <1>1 DEF ChunkBound
<1>3. /\ s # << >>
      /\ range = [type |-> ds.type[d], min |-> lo * u + e, max |-> hi * u + e]
  BY <1>1, <1>2 DEF CftimeBound, Microseconds
<1>4. lo \in Int /\ hi \in Int /\ lo <= hi
  BY <1>1, <1>3, EndsOfSequence
<1> HIDE DEF lo, hi, u, e
<1>5. lo * u \in Int /\ hi * u \in Int /\ lo * u <= hi * u
  BY <1>1, <1>4, ProductOrder, ProductInt
<1> QED BY <1>1, <1>3, <1>5

(* The bounds of a slice, where it has any, bound every value of it, and both *)
(* ends are attained.                                                         *)
LEMMA SliceIsBounded ==
  ASSUME NEW ds, IsDataset(ds), NEW d \in Dims, NEW i \in DOMAIN ds.chunks[d],
         NEW range, range # NoRange, range = ChunkBound(ds, d, i), ~OtherUnits(ds, d)
  PROVE  /\ IsRange(range) /\ range.min <= range.max
         /\ range.type.kind = ds.type[d].kind
         /\ \A v \in ToSet(ds.chunks[d][i]) : Bounds(range, ds.type[d], v)
         /\ range.type.kind = "bool" => {range.min, range.max} \subseteq {0, 1}
<1> DEFINE s == ds.chunks[d][i]
           type == ds.type[d]
<1>1. /\ IsType(type) /\ type.kind # "interval" /\ ds.cftime[d] \in BOOLEAN
      /\ s \in Seq(Int \union {Null, NaN})
      /\ \A j \in DOMAIN s : s[j] \in Int => InType(type, s[j])
      /\ ds.cftime[d] => s \in Seq(Int)
  BY DEF IsDataset, Columns
<1> HIDE DEF s, type
<1>2. CASE ds.cftime[d] /\ type.kind = "ts"
  <2> DEFINE lo == Min(ToSet(s)) * type.size
             hi == Max(ToSet(s)) * type.size
  <2>1. range = CftimeBound(type, ds.units[d], s)
    BY <1>2 DEF s, type, ChunkBound
  <2>2. /\ s # << >> /\ range = [type |-> Type("ts", 1), min |-> lo, max |-> hi]
    BY <1>2, <2>1 DEF CftimeBound
  <2>3. /\ Min(ToSet(s)) \in ToSet(s) /\ Max(ToSet(s)) \in ToSet(s)
        /\ \A v \in ToSet(s) : v \in Int /\ Min(ToSet(s)) <= v /\ v <= Max(ToSet(s))
    BY <1>1, <1>2, <2>2, EndsOfSequence
  <2>4. type.size \in Nat \ {0} /\ type.kind = "ts"
    BY <1>1, <1>2 DEF IsType, Temporal
  <2>5. ASSUME NEW v \in ToSet(s)
        PROVE  v \in Int /\ InType(type, v) /\ lo <= v * type.size /\ v * type.size <= hi
    <3>1. v \in Int /\ Min(ToSet(s)) \in Int /\ Max(ToSet(s)) \in Int
      BY <2>3
    <3>2. lo <= v * type.size /\ v * type.size <= hi
      BY <2>3, <2>4, <3>1, ProductOrder
    <3>3. InType(type, v)
      BY <1>1, <3>1 DEF ToSet
    <3> QED BY <3>1, <3>2, <3>3
  <2>6. lo \in Int /\ hi \in Int /\ lo <= hi
    BY <2>3, <2>4, ProductInt, ProductOrder
  <2> HIDE DEF lo, hi
  <2>7. /\ range.type.kind = "ts" /\ range.type.size = 1 /\ range.min = lo /\ range.max = hi
    BY <2>2 DEF Type
  <2>8. IsRange(range)
    BY <2>6, <2>7 DEF IsRange, Temporal
  <2>9. \A v \in ToSet(s) : Bounds(range, type, v)
    BY <2>4, <2>5, <2>6, <2>7 DEF Bounds
  <2> QED BY <2>4, <2>6, <2>7, <2>8, <2>9 DEF s, type
<1>3. CASE ~(ds.cftime[d] /\ type.kind = "ts")
  <2>2. /\ s # << >> /\ s \in Seq(Int)
        /\ range = [type |-> type, min |-> Min(ToSet(s)), max |-> Max(ToSet(s))]
    BY <1>3, PlainBound DEF s, type
  <2>4. /\ Min(ToSet(s)) \in ToSet(s) /\ Max(ToSet(s)) \in ToSet(s)
        /\ \A v \in ToSet(s) : v \in Int /\ Min(ToSet(s)) <= v /\ v <= Max(ToSet(s))
    BY <2>2, EndsOfSequence
  <2>5. \A v \in ToSet(s) : v \in Int /\ InType(type, v)
    BY <1>1, <2>4 DEF ToSet
  <2>6. /\ range.type = type /\ range.min = Min(ToSet(s)) /\ range.max = Max(ToSet(s))
        /\ range.min \in Int /\ range.max \in Int /\ range.min <= range.max
    BY <2>2, <2>4
  <2>7. IsRange(range)
    <3>1. type.kind \in Temporal => type.size > 0 /\ type.size \in Nat
      BY ONLY <1>1 DEF IsType
    <3> QED BY ONLY <1>1, <2>6, <3>1 DEF IsRange, IsType, Kinds
  <2>8. \A v \in ToSet(s) : Bounds(range, type, v)
    BY <2>4, <2>5, <2>6 DEF Bounds
  <2>9. range.type.kind = "bool" => {range.min, range.max} \subseteq {0, 1}
    BY <2>4, <2>5, <2>6 DEF InType
  <2> QED BY <2>6, <2>7, <2>8, <2>9 DEF s, type
<1> QED BY <1>1, <1>2, <1>3

(********************************** Casts ************************************)
(* What becomes of the coordinate v of the type source, cast to type.         *)
Carries(source, type, v, x) ==
  \/ /\ x = v /\ InType(type, v)
     /\ \/ source.kind \in Integral /\ type.kind \in Integral
        \/ source.kind = "float" /\ type.kind = "float"
        \/ source = type
  \/ /\ source.kind = "dur" /\ type.kind = "interval"
     /\ IF Fits(v * source.size) THEN x = Interval(v * source.size) ELSE x \in {Null, Error}

LEMMA CastKeeps ==
  ASSUME NEW source, IsType(source), source.kind # "interval",
         NEW v \in Int, InType(source, v),
         NEW at, Carries(source, at.type, v, at.value),
         NEW cast, IsType(cast.to), cast.try \in BOOLEAN, OrderPreserving(source, cast.to),
         at.type.kind = "interval" => cast.to = at.type
  PROVE  Carries(source, cast.to, v, CastFrom(at, cast).value)
<1> DEFINE x == CastFrom(at, cast).value
<1>1. x = CastValue(at.type, cast, at.value)
  BY DEF CastFrom
<1>2. v \notin {Null, Error, NaN}
  BY MarksAssumption
<1>3. CASE source.kind # "dur"
  <2>1. /\ at.value = v
        /\ \/ source.kind \in Integral /\ at.type.kind \in Integral
           \/ source.kind = "float" /\ at.type.kind = "float"
           \/ source = at.type
    BY <1>3 DEF Carries
  <2>2. /\ InType(cast.to, v)
        /\ \/ source.kind \in Integral /\ cast.to.kind \in Integral
           \/ source.kind = "float" /\ cast.to.kind = "float"
           \/ source = cast.to
    BY <1>3, PreservingCastFits
  <2>3. x = v
    <3>1. CASE at.type = cast.to
      BY <1>1, <2>1, <3>1 DEF CastValue
    <3>2. CASE at.type # cast.to /\ cast.to.kind \in Integral
      BY <1>1, <1>2, <2>1, <2>2, <3>2 DEF CastValue
    <3>3. CASE at.type # cast.to /\ cast.to.kind = "float"
      <4>1. v % FloatStep(cast.to.size) = 0
        BY <2>2, <3>3 DEF InType
      <4>2. x = v - (v % FloatStep(cast.to.size))
        BY <1>1, <1>2, <2>1, <3>3 DEF CastValue, Integral
      <4> QED BY <4>1, <4>2
    <3>4. CASE source = cast.to /\ cast.to.kind \notin Integral \union {"float"}
      BY <2>1, <3>1, <3>4
    <3> QED BY <2>2, <3>1, <3>2, <3>3, <3>4
  <2> QED BY <2>2, <2>3 DEF Carries
<1>4. CASE source.kind = "dur"
  <2>1. cast.to = source \/ cast.to.kind = "interval"
    BY <1>4 DEF OrderPreserving, Integral
  <2>2. CASE at.type.kind = "interval"
    <3>1. x = at.value
      BY <1>1, <2>2 DEF CastValue
    <3>2. at.type # source
      BY <1>4, <2>2
    <3> QED BY <1>4, <2>2, <3>1, <3>2 DEF Carries, Integral
  <2>3. CASE at.type.kind # "interval"
    <3>1. at.value = v /\ at.type = source
      BY <1>4, <2>3 DEF Carries, Integral
    <3>2. CASE cast.to = source
      <4>1. x = v
        BY <1>1, <3>1, <3>2 DEF CastValue
      <4> QED BY <3>2, <4>1 DEF Carries
    <3>3. CASE cast.to.kind = "interval"
      <4>1. x = IF Fits(v * source.size) THEN Interval(v * source.size)
                ELSE IF cast.try THEN Null ELSE Error
        BY <1>1, <1>2, <1>4, <3>1, <3>3 DEF CastValue, Integral, Temporal
      <4> QED BY <1>4, <3>3, <4>1 DEF Carries
    <3> QED BY <2>1, <3>2, <3>3
  <2> QED BY <2>2, <2>3
<1> QED BY <1>3, <1>4

(* The values of a column under the first n of its casts.                     *)
IsUnder(g, col, row, n) ==
  g = [k \in 0 .. n |-> IF k = 0 THEN [type |-> dataset.type[col.column], value |-> row[col.column]]
                        ELSE CastFrom(g[k - 1], col.casts[k])]

LEMMA UnderExists ==
  ASSUME NEW col, NEW row, NEW n \in Nat
  PROVE  \E g : IsUnder(g, col, row, n)
<1> DEFINE first == [type |-> dataset.type[col.column], value |-> row[col.column]]
           S == {m \in Nat : \E g : IsUnder(g, col, row, m)}
<1>1. 0 \in S
  <2> DEFINE g == [k \in 0 .. 0 |-> first]
  <2>1. g = [k \in 0 .. 0 |-> IF k = 0 THEN first ELSE CastFrom(g[k - 1], col.casts[k])]
    <3> HIDE DEF first
    <3> QED OBVIOUS
  <2> HIDE DEF g
  <2> QED BY <2>1 DEF IsUnder
<1>2. ASSUME NEW m \in S
      PROVE  m + 1 \in S
  <2>1. PICK g : IsUnder(g, col, row, m)
    OBVIOUS
  <2> DEFINE h == [k \in 0 .. m + 1 |-> IF k = m + 1 THEN CastFrom(g[m], col.casts[m + 1]) ELSE g[k]]
             rest(f, k) == CastFrom(f[k - 1], col.casts[k])
  <2>2. \A k \in 0 .. m : g[k] = IF k = 0 THEN first ELSE rest(g, k)
    BY <2>1 DEF IsUnder
  <2> HIDE DEF first
  <2>3. ASSUME NEW k \in 0 .. m + 1
        PROVE  h[k] = IF k = 0 THEN first ELSE rest(h, k)
    <3>1. CASE k = m + 1
      BY <3>1
    <3>2. CASE k \in 0 .. m
      BY <2>2, <3>2
    <3> QED BY <3>1, <3>2
  <2>4. h = [k \in 0 .. m + 1 |-> h[k]]
    OBVIOUS
  <2>5. h = [k \in 0 .. m + 1 |-> IF k = 0 THEN first ELSE rest(h, k)]
    <3> HIDE DEF h, rest
    <3> QED BY <2>3, <2>4
  <2> HIDE DEF h
  <2> QED BY <2>5 DEF IsUnder, first
<1>3. S = Nat
  <2>1. S \in SUBSET Nat
    OBVIOUS
  <2> HIDE DEF S
  <2> QED BY <2>1, <1>1, <1>2, InductiveSet
<1> QED BY <1>3

LEMMA OnRowUnfolds ==
  ASSUME NEW col, NEW row, Len(col.casts) \in Nat
  PROVE  \E g : IsUnder(g, col, row, Len(col.casts)) /\ OnRow(col, row) = g[Len(col.casts)]
<1> DEFINE g == CHOOSE g : g = [n \in 0 .. Len(col.casts) |->
                  IF n = 0 THEN [type |-> dataset.type[col.column], value |-> row[col.column]]
                  ELSE CastFrom(g[n - 1], col.casts[n])]
<1>1. \E h : h = [n \in 0 .. Len(col.casts) |->
                  IF n = 0 THEN [type |-> dataset.type[col.column], value |-> row[col.column]]
                  ELSE CastFrom(h[n - 1], col.casts[n])]
  <2>1. \E h : IsUnder(h, col, row, Len(col.casts))
    BY UnderExists
  <2> QED BY <2>1, Zenon DEF IsUnder
<1>2. IsUnder(g, col, row, Len(col.casts))
  BY <1>1, Zenon DEF IsUnder
<1>3. OnRow(col, row) = g[Len(col.casts)]
  BY Zenon DEF OnRow
<1> HIDE DEF g
<1> QED BY <1>2, <1>3

(* However many casts a pruning column is under, it holds what its coordinate *)
(* carries.                                                                   *)
LEMMA CastsKeep ==
  ASSUME NEW col, NEW row, NEW source, source = dataset.type[col.column],
         IsType(source), source.kind # "interval",
         NEW v \in Int, v = row[col.column], InType(source, v),
         IsColumn(dataset, col),
         \A i \in DOMAIN col.casts : OrderPreserving(source, col.casts[i].to)
  PROVE  /\ OnRow(col, row).type = TypeOf(dataset, col)
         /\ Carries(source, TypeOf(dataset, col), v, OnRow(col, row).value)
<1> DEFINE N == Len(col.casts)
<1>1. /\ N \in Nat /\ DOMAIN col.casts = 1 .. N
      /\ \A i \in 1 .. N :
           /\ IsType(col.casts[i].to) /\ col.casts[i].try \in BOOLEAN
           /\ OrderPreserving(source, col.casts[i].to)
           /\ col.casts[i].to.kind = "interval" =>
                \A j \in i .. N : col.casts[j].to = col.casts[i].to
  BY DEF IsColumn, IsSequence
<1>2. PICK g : IsUnder(g, col, row, N) /\ OnRow(col, row) = g[N]
  BY <1>1, OnRowUnfolds
<1>3. /\ g[0].type = source /\ g[0].value = v
      /\ \A k \in 1 .. N : g[k] = CastFrom(g[k - 1], col.casts[k])
  <2> HIDE DEF N
  <2>1. 0 \in 0 .. N /\ \A k \in 1 .. N : k \in 0 .. N /\ k # 0
    BY <1>1
  <2>2. g[0] = [type |-> dataset.type[col.column], value |-> row[col.column]]
    BY <1>2, <2>1 DEF IsUnder
  <2>3. \A k \in 1 .. N : g[k] = CastFrom(g[k - 1], col.casts[k])
    BY <1>2, <2>1 DEF IsUnder
  <2> QED BY <2>2, <2>3
<1> HIDE DEF N
<1> DEFINE Kept(k) == /\ g[k].type = IF k = 0 THEN source ELSE col.casts[k].to
                      /\ Carries(source, g[k].type, v, g[k].value)
           S == {k \in Nat : k <= N => Kept(k)}
<1>4. 0 \in S
  BY <1>3 DEF Carries
<1>5. ASSUME NEW k \in S
      PROVE  k + 1 \in S
  <2> SUFFICES ASSUME k + 1 <= N PROVE Kept(k + 1)
    OBVIOUS
  <2>1. k \in Nat /\ k <= N /\ Kept(k) /\ k + 1 \in 1 .. N /\ (k + 1) - 1 = k
    BY <1>1
  <2> DEFINE cast == col.casts[k + 1]
             at == g[k]
  <2>2. g[k + 1] = CastFrom(at, cast)
    BY <1>3, <2>1
  <2>3. g[k + 1].type = cast.to
    BY <2>2 DEF CastFrom
  <2>4. at.type.kind = "interval" => cast.to = at.type
    <3>1. CASE k = 0
      BY <2>1, <3>1
    <3>2. CASE k # 0
      <4>1. k \in 1 .. N /\ k + 1 \in k .. N /\ at.type = col.casts[k].to
        BY <2>1, <3>2
      <4> QED BY <1>1, <4>1
    <3> QED BY <3>1, <3>2
  <2>5. /\ IsType(cast.to) /\ cast.try \in BOOLEAN /\ OrderPreserving(source, cast.to)
        /\ Carries(source, at.type, v, at.value)
    BY <1>1, <2>1
  <2> HIDE DEF at, cast
  <2>6. Carries(source, cast.to, v, CastFrom(at, cast).value)
    BY <2>4, <2>5, CastKeeps
  <2> QED BY <2>1, <2>2, <2>3, <2>6 DEF cast
<1>6. S = Nat
  <2>1. S \in SUBSET Nat
    OBVIOUS
  <2> HIDE DEF S
  <2> QED BY <2>1, <1>4, <1>5, InductiveSet
<1>7. Kept(N)
  BY <1>1, <1>6
<1>8. TypeOf(dataset, col) = IF N = 0 THEN source ELSE col.casts[N].to
  BY DEF TypeOf, Last, N
<1> HIDE DEF Kept
<1> QED BY <1>2, <1>7, <1>8 DEF Kept

(* What a bounded coordinate carries lies under the bounds.                   *)
LEMMA CarriesCovers ==
  ASSUME NEW source, IsType(source), NEW v \in Int, NEW range, IsRange(range),
         range.type.kind = source.kind, Bounds(range, source, v),
         NEW type, IsType(type), NEW x, Carries(source, type, v, x)
  PROVE  Covers(range, type, x)
<1>1. CASE source.kind = "dur" /\ type.kind = "interval"
  <2>1. range.type = source /\ range.min <= v /\ v <= range.max
    BY <1>1 DEF Bounds
  <2>2. IF Fits(v * source.size) THEN x = Interval(v * source.size) ELSE x \in {Null, Error}
    BY <1>1 DEF Carries, Integral
  <2> QED BY <1>1, <2>1, <2>2 DEF Covers
<1>2. CASE /\ x = v
           /\ \/ source.kind \in Integral /\ type.kind \in Integral
              \/ source.kind = type.kind /\ type.kind \in Ordinal \union {"float"}
  BY <1>2 DEF Bounds, Covers, Integral, Ordinal
<1>3. CASE x = v /\ source = type /\ type.kind \in Temporal
  <2>1. range.type.kind = type.kind /\ type.size \in Nat \ {0}
    BY <1>3 DEF IsType
  <2>2. range.min * range.type.size <= v * type.size /\ v * type.size <= range.max * range.type.size
    <3>1. CASE range.type = type /\ range.min <= v /\ v <= range.max
      <4>1. range.min \in Int /\ range.max \in Int
        BY DEF IsRange
      <4> QED BY <3>1, <4>1, <2>1, ProductOrder
    <3> QED BY <1>3, <3>1 DEF Bounds
  <2> QED BY <1>3, <2>1, <2>2 DEF Covers
<1>4. source.kind \in {"int", "uint", "float", "bool", "str", "ts", "dur"}
  BY DEF IsRange
<1> QED BY <1>1, <1>2, <1>3, <1>4 DEF Carries, Integral, Ordinal, Temporal

(*********************************** Tests ***********************************)
(* What registration establishes and no scan changes; it is inductive.        *)
Registered ==
  /\ dataset \in Datasets
  /\ ranges = [p \in Partitions(dataset) |-> BlockMetadata(dataset, p)]
  /\ dimension_columns \subseteq Dims

(* A column a filter may use holds, on every row of a partition, a value that *)
(* the partition's bounds cover.                                              *)
LEMMA UsableCovers ==
  ASSUME Registered, NEW p \in Partitions(dataset), NEW row \in Rows(p),
         NEW col, IsColumn(dataset, col), Usable(col, p), ~OtherUnits(dataset, col.column),
         NEW range, range = ranges[p][col.column]
  PROVE  /\ IsRange(range)
         /\ range.type.kind = "bool" => {range.min, range.max} \subseteq {0, 1}
         /\ range.type.kind = dataset.type[col.column].kind
         /\ OnRow(col, row).type = TypeOf(dataset, col)
         /\ Covers(range, TypeOf(dataset, col), OnRow(col, row).value)
<1> DEFINE d == col.column
           source == dataset.type[d]
           v == row[d]
<1>1. IsDataset(dataset)
  BY DatasetAssumption DEF Registered
<1>2. d \in Dims /\ PruningColumn(col) /\ range # NoRange
  BY DEF Usable, PruningColumn, Registered
<1>3. IsType(source) /\ source.kind # "interval"
  BY <1>1, <1>2 DEF IsDataset, Columns
<1>4. p[d] \in DOMAIN dataset.chunks[d]
  BY <1>2 DEF Partitions
<1>5. range = ChunkBound(dataset, d, p[d])
  BY <1>2 DEF Registered, BlockMetadata
<1>6. v \in ToSet(dataset.chunks[d][p[d]])
  BY <1>2 DEF Rows
<1>7. /\ IsRange(range) /\ range.type.kind = source.kind
      /\ \A w \in ToSet(dataset.chunks[d][p[d]]) : Bounds(range, source, w)
      /\ range.type.kind = "bool" => {range.min, range.max} \subseteq {0, 1}
  <2> DEFINE i == p[d]
  <2>1. i \in DOMAIN dataset.chunks[d] /\ range # NoRange /\ d \in Dims
        /\ range = ChunkBound(dataset, d, i) /\ ~OtherUnits(dataset, d)
    BY <1>2, <1>4, <1>5
  <2> HIDE DEF i, d
  <2>2. /\ IsRange(range) /\ range.type.kind = dataset.type[d].kind
        /\ \A w \in ToSet(dataset.chunks[d][i]) : Bounds(range, dataset.type[d], w)
        /\ range.type.kind = "bool" => {range.min, range.max} \subseteq {0, 1}
    BY ONLY <1>1, <2>1, SliceIsBounded
  <2> QED BY ONLY <2>2 DEF i
<1>8. v \in Int /\ InType(source, v) /\ Bounds(range, source, v)
  BY <1>6, <1>7 DEF Bounds
<1>9. \A i \in DOMAIN col.casts : OrderPreserving(source, col.casts[i].to)
  BY <1>2 DEF PruningColumn
<1>10. /\ OnRow(col, row).type = TypeOf(dataset, col)
       /\ Carries(source, TypeOf(dataset, col), v, OnRow(col, row).value)
  BY <1>3, <1>8, <1>9, CastsKeep
<1>11. IsType(TypeOf(dataset, col))
  <2>1. CASE Len(col.casts) = 0
    BY <1>3, <2>1 DEF TypeOf
  <2>2. CASE Len(col.casts) # 0
    <3>1. Len(col.casts) \in DOMAIN col.casts
      BY <2>2 DEF IsColumn, IsSequence
    <3> QED BY <3>1, <2>2 DEF IsColumn, TypeOf, Last
  <2> QED BY <2>1, <2>2
<1> DEFINE type == TypeOf(dataset, col)
           x == OnRow(col, row).value
<1>12. Covers(range, type, x)
  <2> HIDE DEF type, x, source, v
  <2>1. Carries(source, type, v, x)
    BY <1>10 DEF type, x, source, v
  <2>2. IsType(type)
    BY <1>11 DEF type
  <2> QED BY <1>3, <1>7, <1>8, <2>1, <2>2, CarriesCovers
<1> QED BY <1>7, <1>10, <1>12

(* A Boolean column that excludes a partition has one value on all its rows.  *)
LEMMA BareIsSound ==
  ASSUME Registered, NEW p \in Partitions(dataset), NEW row \in Rows(p),
         NEW test, IsTest(dataset, test), test.node = "column", Usable(test.col, p),
         ~OtherUnits(dataset, test.col.column),
         NEW expected \in BOOLEAN, BooleanExcludes(ranges[p][test.col.column], expected)
  PROVE  Test(test, row) = Truth(~expected)
<1> DEFINE range == ranges[p][test.col.column]
           x == OnRow(test.col, row).value
<1>1. IsColumn(dataset, test.col) /\ TypeOf(dataset, test.col) = Type("bool", 0)
  BY DEF IsTest
<1>2. /\ IsRange(range)
      /\ range.type.kind = "bool" => {range.min, range.max} \subseteq {0, 1}
      /\ Covers(range, Type("bool", 0), x)
  BY <1>1, UsableCovers
<1>3. range.type.kind = "bool"
  BY <1>2 DEF Covers, Type, Integral, Temporal, Ordinal
<1>4. Test(test, row) = BooleanOnRow(x)
  BY DEF Test
<1>5. BooleanExcludes(range, expected)
  OBVIOUS
<1> HIDE DEF range, x
<1> QED BY <1>2, <1>3, <1>4, <1>5, BooleanIsSound

LEMMA TestIsSound ==
  ASSUME Registered, NEW p \in Partitions(dataset), NEW row \in Rows(p),
         NEW test, IsTest(dataset, test), Usable(test.col, p),
         ~OtherUnits(dataset, test.col.column),
         NEW range, range = ranges[p][test.col.column]
  PROVE  /\ /\ test.node = "comparison"
            /\ ComparisonExcludes(range, IF test.flipped THEN Flip(test.op) ELSE test.op, test.lit)
            => Test(test, row) = "false"
         /\ test.node = "between" /\ ~test.negated /\ BetweenExcludes(range, test.low, test.high)
            => Test(test, row) = "false"
         /\ test.node = "in" /\ ~test.negated /\ InListExcludes(range, test.list)
            => Test(test, row) = "false"
<1> DEFINE type == TypeOf(dataset, test.col)
           x == OnRow(test.col, row).value
           op == IF test.flipped THEN Flip(test.op) ELSE test.op
<1>1. IsColumn(dataset, test.col)
  BY DEF IsTest
<1>2. IsRange(range) /\ OnRow(test.col, row).type = type /\ Covers(range, type, x)
  BY <1>1, UsableCovers
<1>3. ASSUME test.node = "comparison", ComparisonExcludes(range, op, test.lit)
      PROVE  Test(test, row) = "false"
  <2>1. Test(test, row) = ComparisonOnRow(type, op, x, test.lit)
    BY <1>2, <1>3 DEF Test
  <2>2. op \in Operators /\ Literal(test.lit) /\ test.lit.type = type
    BY <1>3 DEF IsTest, Operators, Flip
  <2> HIDE DEF op, x, type
  <2> QED BY <1>2, <1>3, <2>1, <2>2, ComparisonIsSound
<1>4. ASSUME test.node = "between", ~test.negated, BetweenExcludes(range, test.low, test.high)
      PROVE  Test(test, row) = "false"
  <2>1. Test(test, row) = BetweenOnRow(type, x, test.low, test.high)
    BY <1>2, <1>4 DEF Test
  <2>2. /\ Literal(test.low) /\ test.low.type = type
        /\ Literal(test.high) /\ test.high.type = type
    BY <1>4 DEF IsTest
  <2> HIDE DEF op, x, type
  <2> QED BY <1>2, <1>4, <2>1, <2>2, BetweenIsSound
<1>5. ASSUME test.node = "in", ~test.negated, InListExcludes(range, test.list)
      PROVE  Test(test, row) = "false"
  <2>1. Test(test, row) = InListOnRow(type, x, test.list)
    BY <1>2, <1>5 DEF Test
  <2>2. test.list # {} /\ \A lit \in test.list : Literal(lit) /\ lit.type = type
    BY <1>5 DEF IsTest
  <2> HIDE DEF op, x, type
  <2> QED BY <1>2, <1>5, <2>1, <2>2, InListIsSound
<1> QED BY <1>3, <1>4, <1>5

(******************************* Trees of filters *****************************)
Truths == {"true", "false", "null", "error"}

LEMMA TestIsTruth ==
  ASSUME NEW ds, NEW test, IsTest(ds, test), NEW row
  PROVE  Test(test, row) \in Truths
<1>1. \A type, op, x, lit : ComparisonOnRow(type, op, x, lit) \in Truths
  BY DEF ComparisonOnRow, Truth, Truths
<1>2. \A s, t \in Truths : And(s, t) \in Truths /\ Negation(s) \in Truths
  BY DEF And, Negation, Truths
<1>3. \A x : BooleanOnRow(x) \in Truths
  BY <1>1 DEF BooleanOnRow
<1>4. \A type, x, low, high : BetweenOnRow(type, x, low, high) \in Truths
  BY <1>1, <1>2 DEF BetweenOnRow
<1>5. \A type, x, list : InListOnRow(type, x, list) \in Truths
  BY DEF InListOnRow, Truths
<1>6. test.node \in {"column", "comparison", "between", "in"}
  BY DEF IsTest
<1> QED BY <1>1, <1>2, <1>3, <1>4, <1>5, <1>6 DEF Test

(* The operands of a node come before it.                                     *)
LEMMA OperandsPrecede ==
  ASSUME NEW ds, NEW f, IsFilter(ds, f), NEW i \in 1 .. Len(f)
  PROVE  /\ Len(f) \in 1 .. Len(f) /\ DOMAIN f = 1 .. Len(f)
         /\ f[i].node \in {"and", "or", "not", "is"} => Right(i) \in 1 .. i - 1
         /\ f[i].node \in {"and", "or"} => Left(f, i) \in 1 .. i - 1
         /\ f[i].node \in {"and", "or", "not", "is"} \/ IsTest(ds, f[i])
         /\ f[i].node = "is" => f[i].test \in Tests
         /\ IsTest(ds, f[i]) <=> f[i].node \in {"column", "comparison", "between", "in"}
<1>1. Len(f) \in Nat /\ Len(f) > 0 /\ DOMAIN f = 1 .. Len(f)
  BY DEF IsFilter, IsSequence
<1>2. \/ f[i].node \in {"and", "or"} /\ f[i].size \in 1 .. i - 2
      \/ f[i].node = "not" /\ i > 1
      \/ f[i].node = "is" /\ i > 1 /\ f[i].test \in Tests
      \/ IsTest(ds, f[i])
  BY <1>1 DEF IsFilter
<1>3. IsTest(ds, f[i]) => f[i].node \in {"column", "comparison", "between", "in"}
  BY DEF IsTest
<1> QED BY <1>1, <1>2, <1>3 DEF Right, Left

IsExcluding(e, f, p) == e = [i \in DOMAIN f |-> NodeExcludes(f, p, e, i)]

LEMMA ExcludesUnfolds ==
  ASSUME NEW ds, NEW f, IsFilter(ds, f), NEW p
  PROVE  \E e \in [1 .. Len(f) -> BOOLEAN] : IsExcluding(e, f, p) /\ Excludes(f, p) = e[Len(f)]
<1> DEFINE N == Len(f)
           E == [1 .. N -> BOOLEAN]
           step == [i \in 1 .. N |-> [e \in E |-> NodeExcludes(f, p, e, i)]]
<1>1. N \in Nat /\ DOMAIN f = 1 .. N
  BY DEF IsFilter, IsSequence
<1>2. ASSUME NEW i \in 1 .. N, NEW e
      PROVE  NodeExcludes(f, p, e, i) \in BOOLEAN
  BY OperandsPrecede DEF NodeExcludes
<1>3. ASSUME NEW i \in 1 .. N, NEW e \in E, NEW g \in E, \A j \in 1 .. i - 1 : e[j] = g[j]
      PROVE  NodeExcludes(f, p, e, i) = NodeExcludes(f, p, g, i)
  BY <1>3, OperandsPrecede DEF NodeExcludes
<1>4. step \in [1 .. N -> [[1 .. N -> BOOLEAN] -> BOOLEAN]]
  <2> HIDE DEF N
  <2> QED BY <1>2
<1>5. \A i \in 1 .. N : \A e, g \in [1 .. N -> BOOLEAN] :
        (\A j \in 1 .. i - 1 : e[j] = g[j]) => step[i][e] = step[i][g]
  <2> HIDE DEF N
  <2> QED BY <1>3
<1>6. PICK e \in E : Computes(e, N, step)
  <2> HIDE DEF N, step
  <2> QED BY <1>1, <1>4, <1>5, RecursionHasSolution
<1>7. \A i \in 1 .. N : e[i] = NodeExcludes(f, p, e, i)
  <2>1. \A i \in 1 .. N : step[i][e] = NodeExcludes(f, p, e, i)
    OBVIOUS
  <2> HIDE DEF step, N
  <2> QED BY <1>6, <2>1 DEF Computes
<1>8. IsExcluding(e, f, p)
  <2> HIDE DEF N
  <2> QED BY <1>1, <1>7 DEF IsExcluding
<1> DEFINE c == CHOOSE c : c = [i \in DOMAIN f |-> NodeExcludes(f, p, c, i)]
<1>9. IsExcluding(c, f, p)
  BY <1>8, Zenon DEF IsExcluding
<1>10. Excludes(f, p) = c[N]
  BY Zenon DEF Excludes
<1>11. c \in E
  <2> HIDE DEF c
  <2>1. \A i \in 1 .. N : c[i] \in BOOLEAN
    BY <1>1, <1>2, <1>9 DEF IsExcluding
  <2> QED BY <1>1, <1>9, <2>1 DEF IsExcluding
<1> HIDE DEF c
<1> QED BY <1>9, <1>10, <1>11

IsTaking(t, f) == t = [i \in DOMAIN f |-> NodeIsTaken(f, t, i)]

LEMMA TakenUnfolds ==
  ASSUME NEW ds, NEW f, IsFilter(ds, f)
  PROVE  \E t \in [1 .. Len(f) -> BOOLEAN] : IsTaking(t, f) /\ IsDimensionFilter(f) = t[Len(f)]
<1> DEFINE N == Len(f)
           E == [1 .. N -> BOOLEAN]
           step == [i \in 1 .. N |-> [t \in E |-> NodeIsTaken(f, t, i)]]
<1>1. N \in Nat /\ DOMAIN f = 1 .. N
  BY DEF IsFilter, IsSequence
<1>2. ASSUME NEW i \in 1 .. N, NEW t, \A j \in 1 .. i - 1 : t[j] \in BOOLEAN
      PROVE  NodeIsTaken(f, t, i) \in BOOLEAN
  BY <1>2, OperandsPrecede DEF NodeIsTaken, PruningColumn
<1>3. ASSUME NEW i \in 1 .. N, NEW t \in E, NEW g \in E, \A j \in 1 .. i - 1 : t[j] = g[j]
      PROVE  NodeIsTaken(f, t, i) = NodeIsTaken(f, g, i)
  BY <1>3, OperandsPrecede DEF NodeIsTaken
<1>4. step \in [1 .. N -> [[1 .. N -> BOOLEAN] -> BOOLEAN]]
  <2> HIDE DEF N
  <2> QED BY <1>1, <1>2
<1>5. \A i \in 1 .. N : \A t, g \in [1 .. N -> BOOLEAN] :
        (\A j \in 1 .. i - 1 : t[j] = g[j]) => step[i][t] = step[i][g]
  <2> HIDE DEF N
  <2> QED BY <1>3
<1>6. PICK t \in E : Computes(t, N, step)
  <2> HIDE DEF N, step
  <2> QED BY <1>1, <1>4, <1>5, RecursionHasSolution
<1>7. \A i \in 1 .. N : t[i] = NodeIsTaken(f, t, i)
  <2>1. \A i \in 1 .. N : step[i][t] = NodeIsTaken(f, t, i)
    OBVIOUS
  <2> HIDE DEF step, N
  <2> QED BY <1>6, <2>1 DEF Computes
<1>8. IsTaking(t, f)
  <2> HIDE DEF N
  <2> QED BY <1>1, <1>7 DEF IsTaking
<1> DEFINE c == CHOOSE c : c = [i \in DOMAIN f |-> NodeIsTaken(f, c, i)]
<1>9. IsTaking(c, f)
  BY <1>8, Zenon DEF IsTaking
<1>10. IsDimensionFilter(f) = c[N]
  BY Zenon DEF IsDimensionFilter
<1> HIDE DEF c
<1> DEFINE S == {i \in 1 .. N : c[i] \in BOOLEAN}
<1>11. 1 .. N \subseteq S
  <2>1. ASSUME NEW i \in 1 .. N, 1 .. i - 1 \subseteq S
        PROVE  i \in S
    <3>1. \A j \in 1 .. i - 1 : c[j] \in BOOLEAN
      BY <2>1
    <3>2. c[i] = NodeIsTaken(f, c, i)
      BY <1>1, <1>9 DEF IsTaking
    <3> QED BY <3>1, <3>2, <1>2
  <2> HIDE DEF S
  <2> QED BY <1>1, <2>1, CourseOfValues
<1>12. c \in E
  BY <1>1, <1>9, <1>11 DEF IsTaking
<1> QED BY <1>9, <1>10, <1>12

IsEvaluating(value, f, row) == value = [i \in DOMAIN f |-> NodeValue(f, row, value, i)]

LEMMA EvaluateUnfolds ==
  ASSUME NEW ds, NEW f, IsFilter(ds, f), NEW row
  PROVE  \E value \in [1 .. Len(f) -> Truths] :
           IsEvaluating(value, f, row) /\ Evaluate(f, row) = value[Len(f)]
<1> DEFINE N == Len(f)
           E == [1 .. N -> Truths]
           step == [i \in 1 .. N |-> [value \in E |-> NodeValue(f, row, value, i)]]
<1>1. N \in Nat /\ DOMAIN f = 1 .. N /\ "true" \in Truths
  BY DEF IsFilter, IsSequence, Truths
<1>2. ASSUME NEW i \in 1 .. N, NEW value, \A j \in 1 .. i - 1 : value[j] \in Truths
      PROVE  NodeValue(f, row, value, i) \in Truths
  <2>1. \A s, t \in Truths : And(s, t) \in Truths /\ Or(s, t) \in Truths /\ Negation(s) \in Truths
    BY DEF And, Or, Negation, Truths
  <2>2. \A test : \A t \in Truths : Is(test, t) \in Truths
    BY DEF Is, Truth, Truths
  <2>3. CASE f[i].node = "is"
    <3>1. value[Right(i)] \in Truths
      BY <1>2, <2>3, OperandsPrecede
    <3> QED BY <3>1, <2>2, <2>3 DEF NodeValue
  <2>4. CASE f[i].node = "not"
    <3>1. value[Right(i)] \in Truths
      BY <1>2, <2>4, OperandsPrecede
    <3> QED BY <3>1, <2>1, <2>4 DEF NodeValue
  <2>5. CASE f[i].node \in {"and", "or"}
    <3>1. value[Right(i)] \in Truths /\ value[Left(f, i)] \in Truths
      BY <1>2, <2>5, OperandsPrecede
    <3> QED BY <3>1, <2>1, <2>5 DEF NodeValue
  <2>6. CASE f[i].node \notin {"and", "or", "not", "is"}
    <3>1. Test(f[i], row) \in Truths
      BY <2>6, OperandsPrecede, TestIsTruth
    <3> QED BY <3>1, <2>6 DEF NodeValue
  <2> QED BY <2>3, <2>4, <2>5, <2>6
<1>3. ASSUME NEW i \in 1 .. N, NEW value \in E, NEW g \in E,
             \A j \in 1 .. i - 1 : value[j] = g[j]
      PROVE  NodeValue(f, row, value, i) = NodeValue(f, row, g, i)
  BY <1>3, OperandsPrecede DEF NodeValue
<1>4. step \in [1 .. N -> [[1 .. N -> Truths] -> Truths]]
  <2> HIDE DEF N
  <2> QED BY <1>1, <1>2
<1>5. \A i \in 1 .. N : \A value, g \in [1 .. N -> Truths] :
        (\A j \in 1 .. i - 1 : value[j] = g[j]) => step[i][value] = step[i][g]
  <2> HIDE DEF N
  <2> QED BY <1>3
<1>6. PICK value \in E : Computes(value, N, step)
  <2> HIDE DEF N, step
  <2> QED BY <1>1, <1>4, <1>5, RecursionHasSolution
<1>7. \A i \in 1 .. N : value[i] = NodeValue(f, row, value, i)
  <2>1. \A i \in 1 .. N : step[i][value] = NodeValue(f, row, value, i)
    OBVIOUS
  <2> HIDE DEF step, N
  <2> QED BY <1>6, <2>1 DEF Computes
<1>8. IsEvaluating(value, f, row)
  <2> HIDE DEF N
  <2> QED BY <1>1, <1>7 DEF IsEvaluating
<1> DEFINE c == CHOOSE c : c = [i \in DOMAIN f |-> NodeValue(f, row, c, i)]
<1>9. IsEvaluating(c, f, row)
  BY <1>8, Zenon DEF IsEvaluating
<1>10. Evaluate(f, row) = c[N]
  BY Zenon DEF Evaluate
<1> HIDE DEF c
<1> DEFINE S == {i \in 1 .. N : c[i] \in Truths}
<1>11. 1 .. N \subseteq S
  <2>1. ASSUME NEW i \in 1 .. N, 1 .. i - 1 \subseteq S
        PROVE  i \in S
    <3>1. \A j \in 1 .. i - 1 : c[j] \in Truths
      BY <2>1
    <3>2. c[i] = NodeValue(f, row, c, i)
      BY <1>1, <1>9 DEF IsEvaluating
    <3> QED BY <3>1, <3>2, <1>2
  <2> HIDE DEF S
  <2> QED BY <1>1, <2>1, CourseOfValues
<1>12. c \in E
  BY <1>1, <1>9, <1>11 DEF IsEvaluating
<1> QED BY <1>9, <1>10, <1>12

(* A filter that excludes a partition is FALSE on every row of it, for a tree *)
(* of any depth: FALSE survives what AND and OR are told of the other side,   *)
(* and under NOT and IS the code looks at a bare Boolean column only. The     *)
(* filter must test no dimension whose bounds are in other units than its     *)
(* column (cftime.partition_bounds); for such a dimension the claim is false. *)
THEOREM ExcludedRowsAreFalse ==
  ASSUME Registered, NEW f, IsFilter(dataset, f), ~Misread(f),
         NEW p \in Partitions(dataset), Excludes(f, p), NEW row \in Rows(p)
  PROVE  Evaluate(f, row) = "false"
<1> DEFINE N == Len(f)
<1>1. PICK e \in [1 .. N -> BOOLEAN] : IsExcluding(e, f, p) /\ Excludes(f, p) = e[N]
  BY ExcludesUnfolds
<1>2. PICK value \in [1 .. N -> Truths] : IsEvaluating(value, f, row) /\ Evaluate(f, row) = value[N]
  BY EvaluateUnfolds
<1> DEFINE S == {i \in 1 .. N : e[i] => value[i] = "false"}
<1>3. N \in Nat /\ N \in 1 .. N /\ DOMAIN f = 1 .. N
  BY DEF IsFilter, IsSequence
<1> HIDE DEF N
<1>6. \A i \in 1 .. N : IsTest(dataset, f[i]) => ~OtherUnits(dataset, f[i].col.column)
  BY <1>3 DEF Misread, IsTest
<1> USE DEF N
<1>4. ASSUME NEW i \in 1 .. N, 1 .. i - 1 \subseteq S, e[i]
      PROVE  value[i] = "false"
  <2>1. NodeExcludes(f, p, e, i) /\ value[i] = NodeValue(f, row, value, i)
    BY <1>1, <1>2, <1>3, <1>4 DEF IsExcluding, IsEvaluating
  <2>2. f[i].node \in {"column", "comparison", "between", "in", "and", "or", "not", "is"}
    BY OperandsPrecede
  <2>3. CASE f[i].node \in {"and", "or"}
    <3>1. Left(f, i) \in 1 .. i - 1 /\ Right(i) \in 1 .. i - 1
      BY <2>3, OperandsPrecede
    <3>2. value[Left(f, i)] \in Truths /\ value[Right(i)] \in Truths
      BY <3>1
    <3>3. /\ e[Left(f, i)] => value[Left(f, i)] = "false"
          /\ e[Right(i)] => value[Right(i)] = "false"
      BY <1>4, <3>1
    <3>4. CASE f[i].node = "and"
      <4>1. e[Left(f, i)] \/ e[Right(i)]
        BY <2>1, <3>4 DEF NodeExcludes
      <4>2. value[i] = And(value[Left(f, i)], value[Right(i)])
        BY <2>1, <3>4 DEF NodeValue
      <4> QED BY <3>2, <3>3, <4>1, <4>2, ConnectivesKeepFalse DEF Truths
    <3>5. CASE f[i].node = "or"
      <4>1. e[Left(f, i)] /\ e[Right(i)]
        BY <2>1, <3>5 DEF NodeExcludes
      <4>2. value[i] = Or(value[Left(f, i)], value[Right(i)])
        BY <2>1, <3>5 DEF NodeValue
      <4> QED BY <3>2, <3>3, <4>1, <4>2, ConnectivesKeepFalse DEF Truths
    <3> QED BY <2>3, <3>4, <3>5
  <2>4. CASE f[i].node \in {"not", "is"}
    <3> DEFINE j == Right(i)
               expected == f[i].node = "is" /\ f[i].test \in {"true", "not false"}
    <3>1. j \in 1 .. i - 1 /\ j \in 1 .. N
      BY <2>4, OperandsPrecede
    <3>2. /\ f[j].node = "column" /\ Usable(f[j].col, p)
          /\ BooleanExcludes(ranges[p][f[j].col.column], expected)
      <4>1. CASE f[i].node = "not"
        <5>1. expected = FALSE
          BY <4>1
        <5>2. IsBare(f, j, p) /\ BooleanExcludes(ranges[p][f[j].col.column], FALSE)
          BY <2>1, <4>1 DEF NodeExcludes
        <5> HIDE DEF expected, j
        <5> QED BY <5>1, <5>2 DEF IsBare
      <4>2. CASE f[i].node = "is"
        <5>1. expected = (f[i].test \in {"true", "not false"})
          BY <4>2
        <5>2. /\ IsBare(f, j, p)
              /\ BooleanExcludes(ranges[p][f[j].col.column], f[i].test \in {"true", "not false"})
          BY <2>1, <4>2 DEF NodeExcludes
        <5> HIDE DEF expected, j
        <5> QED BY <5>1, <5>2 DEF IsBare
      <4> QED BY <2>4, <4>1, <4>2
    <3>3. IsTest(dataset, f[j])
      BY <3>1, <3>2, OperandsPrecede
    <3>4. Test(f[j], row) = Truth(~expected)
      <4> HIDE DEF j, expected
      <4>1. expected \in BOOLEAN
        BY DEF expected
      <4> QED BY <1>6, <3>1, <3>2, <3>3, <4>1, BareIsSound
    <3>5. value[j] = Truth(~expected)
      BY <1>2, <1>3, <3>1, <3>2, <3>4 DEF IsEvaluating, NodeValue
    <3>6. CASE f[i].node = "not"
      BY <2>1, <3>5, <3>6 DEF NodeValue, Negation, Truth
    <3>7. CASE f[i].node = "is"
      <4>1. f[i].test \in Tests
        BY <3>7, OperandsPrecede
      <4>2. value[i] = Is(f[i].test, value[j])
        BY <2>1, <3>7 DEF NodeValue
      <4> QED BY <3>5, <3>7, <4>1, <4>2 DEF Is, Truth, Tests
    <3> QED BY <2>4, <3>6, <3>7
  <2>5. CASE f[i].node = "column"
    <3>1. IsTest(dataset, f[i])
      BY <2>5, OperandsPrecede
    <3>2. Usable(f[i].col, p) /\ BooleanExcludes(ranges[p][f[i].col.column], TRUE)
      BY <2>1, <2>5 DEF NodeExcludes, IsBare
    <3>3. Test(f[i], row) = Truth(~TRUE)
      BY <1>6, <2>5, <3>1, <3>2, BareIsSound
    <3> QED BY <2>1, <2>5, <3>3 DEF NodeValue, Truth
  <2>6. CASE f[i].node \in {"comparison", "between", "in"}
    <3>1. IsTest(dataset, f[i])
      BY <2>6, OperandsPrecede
    <3>2. Usable(f[i].col, p)
      BY <2>1, <2>6 DEF NodeExcludes
    <3>3. Test(f[i], row) = "false"
      BY <1>6, <2>1, <2>6, <3>1, <3>2, TestIsSound DEF NodeExcludes
    <3> QED BY <2>1, <2>6, <3>3 DEF NodeValue
  <2> QED BY <2>2, <2>3, <2>4, <2>5, <2>6
<1>5. 1 .. N \subseteq S
  <2> HIDE DEF N
  <2>1. ASSUME NEW i \in 1 .. N, 1 .. i - 1 \subseteq S
        PROVE  i \in S
    BY <1>4, <2>1
  <2> HIDE DEF S
  <2> QED BY <1>3, <2>1, CourseOfValues
<1> QED BY <1>1, <1>2, <1>3, <1>5

(* The filters the table takes include every one that could drop a partition. *)
LEMMA ExcludingIsTaken ==
  ASSUME Registered, NEW f, IsFilter(dataset, f), NEW p, Excludes(f, p)
  PROVE  IsDimensionFilter(f)
<1> DEFINE N == Len(f)
<1>1. PICK e \in [1 .. N -> BOOLEAN] : IsExcluding(e, f, p) /\ Excludes(f, p) = e[N]
  BY ExcludesUnfolds
<1>2. PICK t \in [1 .. N -> BOOLEAN] : IsTaking(t, f) /\ IsDimensionFilter(f) = t[N]
  BY TakenUnfolds
<1> DEFINE S == {i \in 1 .. N : e[i] => t[i]}
<1>3. N \in Nat /\ N \in 1 .. N /\ DOMAIN f = 1 .. N
  BY DEF IsFilter, IsSequence
<1>4. ASSUME NEW i \in 1 .. N, 1 .. i - 1 \subseteq S, e[i]
      PROVE  t[i]
  <2>1. NodeExcludes(f, p, e, i) /\ t[i] = NodeIsTaken(f, t, i)
    BY <1>1, <1>2, <1>3, <1>4 DEF IsExcluding, IsTaking
  <2>2. f[i].node \in {"column", "comparison", "between", "in", "and", "or", "not", "is"}
    BY OperandsPrecede
  <2>3. CASE f[i].node \in {"and", "or"}
    <3>1. Left(f, i) \in 1 .. i - 1 /\ Right(i) \in 1 .. i - 1
      BY <2>3, OperandsPrecede
    <3>2. (e[Left(f, i)] => t[Left(f, i)]) /\ (e[Right(i)] => t[Right(i)])
      BY <1>4, <3>1
    <3>3. e[Left(f, i)] \/ e[Right(i)]
      BY <2>1, <2>3 DEF NodeExcludes
    <3> QED BY <2>1, <2>3, <3>2, <3>3 DEF NodeIsTaken
  <2>4. CASE f[i].node = "is"
    <3>1. f[Right(i)].node = "column" /\ PruningColumn(f[Right(i)].col)
      BY <2>1, <2>4 DEF NodeExcludes, IsBare, Usable
    <3> QED BY <2>1, <2>4, <3>1 DEF NodeIsTaken
  <2>5. CASE f[i].node = "not"
    <3> DEFINE j == Right(i)
    <3>1. f[j].node = "column" /\ PruningColumn(f[j].col)
      BY <2>1, <2>5 DEF NodeExcludes, IsBare, Usable
    <3>2. j \in 1 .. N
      BY <2>5, OperandsPrecede
    <3>3. t[j] = NodeIsTaken(f, t, j)
      BY <1>2, <1>3, <3>2 DEF IsTaking
    <3>4. t[j]
      BY <3>1, <3>3 DEF NodeIsTaken
    <3> QED BY <2>1, <2>5, <3>4 DEF NodeIsTaken
  <2>6. CASE f[i].node \in {"column", "comparison", "between", "in"}
    <3>1. PruningColumn(f[i].col)
      BY <2>1, <2>6 DEF NodeExcludes, IsBare, Usable
    <3> QED BY <2>1, <2>6, <3>1 DEF NodeIsTaken
  <2> QED BY <2>2, <2>3, <2>4, <2>5, <2>6
<1>5. 1 .. N \subseteq S
  <2> HIDE DEF N
  <2>1. ASSUME NEW i \in 1 .. N, 1 .. i - 1 \subseteq S
        PROVE  i \in S
    BY <1>4, <2>1
  <2> HIDE DEF S
  <2> QED BY <1>3, <2>1, CourseOfValues
<1> QED BY <1>1, <1>2, <1>3, <1>5

(********************************* Statistics ********************************)
(* A chunk with bounds has values only, and its bounds are their ends, in the *)
(* unit of the bounds.                                                        *)
IsOfTimes(ds, d) == ds.cftime[d] /\ ds.type[d].kind = "ts"
Unit(ds, d) == IF IsOfTimes(ds, d) THEN ds.type[d].size ELSE 1
RangeType(ds, d) == IF IsOfTimes(ds, d) THEN Type("ts", 1) ELSE ds.type[d]

LEMMA SliceEnds ==
  ASSUME NEW ds, IsDataset(ds), NEW d \in Dims, NEW i \in DOMAIN ds.chunks[d],
         NEW range, range # NoRange, range = ChunkBound(ds, d, i), ~OtherUnits(ds, d),
         NEW S, S = ToSet(ds.chunks[d][i])
  PROVE  /\ Unit(ds, d) \in Nat \ {0}
         /\ Min(S) \in S /\ Max(S) \in S
         /\ \A v \in S : v \in Int /\ Min(S) <= v /\ v <= Max(S)
         /\ range.type = RangeType(ds, d)
         /\ range.min = Min(S) * Unit(ds, d) /\ range.max = Max(S) * Unit(ds, d)
<1> DEFINE s == ds.chunks[d][i]
           type == ds.type[d]
<1>1. /\ IsType(type) /\ ds.cftime[d] \in BOOLEAN
      /\ s \in Seq(Int \union {Null, NaN})
      /\ ds.cftime[d] => s \in Seq(Int)
  BY DEF IsDataset, Columns
<1>2. S = ToSet(s)
  OBVIOUS
<1> HIDE DEF s, type
<1>3. CASE IsOfTimes(ds, d)
  <2>1. range = CftimeBound(type, ds.units[d], s) /\ ds.cftime[d] /\ type.kind = "ts"
    BY <1>3 DEF s, type, ChunkBound, IsOfTimes
  <2>2. /\ s # << >>
        /\ range = [type |-> Type("ts", 1), min |-> Min(S) * type.size, max |-> Max(S) * type.size]
    BY <2>1, <1>2 DEF CftimeBound
  <2>3. /\ Min(S) \in S /\ Max(S) \in S
        /\ \A v \in S : v \in Int /\ Min(S) <= v /\ v <= Max(S)
    BY <1>1, <1>2, <2>1, <2>2, EndsOfSequence
  <2>4. Unit(ds, d) = type.size /\ type.size \in Nat \ {0} /\ RangeType(ds, d) = Type("ts", 1)
    BY <1>1, <1>3, <2>1 DEF IsType, Temporal, Unit, RangeType, type
  <2> QED BY <2>2, <2>3, <2>4
<1>4. CASE ~IsOfTimes(ds, d)
  <2>2. /\ s # << >> /\ s \in Seq(Int)
        /\ range = [type |-> type, min |-> Min(S), max |-> Max(S)]
    BY <1>2, <1>4, PlainBound DEF s, type, IsOfTimes
  <2>4. /\ Min(S) \in S /\ Max(S) \in S
        /\ \A v \in S : v \in Int /\ Min(S) <= v /\ v <= Max(S)
    BY <1>2, <2>2, EndsOfSequence
  <2>5. Unit(ds, d) = 1 /\ RangeType(ds, d) = type
    BY <1>4 DEF Unit, RangeType, type
  <2>6. Min(S) * 1 = Min(S) /\ Max(S) * 1 = Max(S)
    BY <2>4
  <2> QED BY <2>2, <2>4, <2>5, <2>6
<1> QED BY <1>1, <1>3, <1>4

(* Bounds go back to the unit of the column without a rest.                   *)
LEMMA ExactQuotient ==
  ASSUME NEW a \in Int, NEW u \in Nat \ {0}
  PROVE  (a * u) \div u = a
  OBVIOUS

LEMMA BoundsGoBack ==
  ASSUME NEW ds, IsDataset(ds), NEW d \in Dims, NEW lo \in Int, NEW hi \in Int,
         NEW range, range # NoRange, range.type = RangeType(ds, d),
         range.min = lo * Unit(ds, d), range.max = hi * Unit(ds, d),
         Unit(ds, d) \in Nat \ {0}
  PROVE  /\ BoundInType(range, ds.type[d]).min = lo
         /\ BoundInType(range, ds.type[d]).max = hi
<1>1. CASE range.type = ds.type[d]
  <2>1. Unit(ds, d) = 1
    BY <1>1 DEF Unit, RangeType, Type
  <2>2. range.min = lo /\ range.max = hi
    BY <2>1
  <2> QED BY <1>1, <2>2 DEF BoundInType
<1>2. CASE range.type # ds.type[d]
  <2>1. /\ Unit(ds, d) = ds.type[d].size /\ range.type.size = 1
    BY <1>2 DEF Unit, RangeType, Type
  <2> DEFINE u == ds.type[d].size
  <2>2. /\ BoundInType(range, ds.type[d]).min = (range.min * range.type.size) \div u
        /\ BoundInType(range, ds.type[d]).max = (range.max * range.type.size) \div u
    BY <1>2 DEF BoundInType
  <2>3. /\ u \in Nat \ {0} /\ range.type.size = 1 /\ range.min = lo * u /\ range.max = hi * u
    BY <2>1
  <2> HIDE DEF u
  <2>4. range.min \in Int /\ range.max \in Int
    BY <2>3, ProductInt
  <2>5. range.min * range.type.size = lo * u /\ range.max * range.type.size = hi * u
    BY <2>3, <2>4
  <2> QED BY <2>2, <2>3, <2>5, ExactQuotient
<1> QED BY <1>1, <1>2

(* The coordinate values of a partition. *)
Values(d, p) == ToSet(dataset.chunks[d][p[d]])

(* What a dimension's statistics say of the partitions of a scan.             *)
LEMMA FoldIsExact ==
  ASSUME Registered, NEW included \in SUBSET Partitions(dataset), NEW d \in Dims,
         ~OtherUnits(dataset, d),
         NEW out, out = BoundInType(FoldBounds(included, d), dataset.type[d]), out # NoRange
  PROVE  \E a, b \in included :
           /\ out.min \in Values(d, a) /\ out.max \in Values(d, b)
           /\ \A p \in included : \A v \in Values(d, p) :
                out.min \in Int /\ out.max \in Int /\ v \in Int /\ out.min <= v /\ v <= out.max
<1> DEFINE fold == FoldBounds(included, d)
           u == Unit(dataset, d)
           lo(p) == Min(Values(d, p))
           hi(p) == Max(Values(d, p))
           n == Len(dataset.chunks[d])
           I == {p[d] : p \in included}
           low == [i \in I |-> Min(ToSet(dataset.chunks[d][i])) * u]
           high == [i \in I |-> Max(ToSet(dataset.chunks[d][i])) * u]
           L == {ranges[p][d].min : p \in included}
           H == {ranges[p][d].max : p \in included}
<1>1. fold # NoRange
  BY DEF BoundInType
<1>2. /\ included # {} /\ \A p \in included : ranges[p][d] # NoRange
      /\ fold = [type |-> ranges[CHOOSE p \in included : TRUE][d].type, min |-> Min(L), max |-> Max(H)]
  BY <1>1 DEF FoldBounds
<1>3. IsDataset(dataset)
  BY DatasetAssumption DEF Registered
<1>4. n \in Nat /\ DOMAIN dataset.chunks[d] = 1 .. n
  BY <1>3 DEF IsDataset, IsSequence
<1>5. ASSUME NEW p \in included
      PROVE  /\ p[d] \in 1 .. n
             /\ u \in Nat \ {0}
             /\ lo(p) \in Values(d, p) /\ hi(p) \in Values(d, p)
             /\ \A v \in Values(d, p) : v \in Int /\ lo(p) <= v /\ v <= hi(p)
             /\ ranges[p][d].type = RangeType(dataset, d)
             /\ ranges[p][d].min = lo(p) * u /\ ranges[p][d].max = hi(p) * u
  <2>1. p[d] \in DOMAIN dataset.chunks[d]
    BY DEF Partitions
  <2>2. ranges[p][d] = ChunkBound(dataset, d, p[d])
    BY DEF Registered, BlockMetadata
  <2>3. ranges[p][d] # NoRange
    BY <1>2
  <2> DEFINE i == p[d]
             range == ranges[p][d]
             S == Values(d, p)
  <2>4. S = ToSet(dataset.chunks[d][i]) /\ i \in DOMAIN dataset.chunks[d] /\ range # NoRange
        /\ range = ChunkBound(dataset, d, i)
    BY <2>1, <2>2, <2>3 DEF Values
  <2> HIDE DEF i, range, S
  <2>5. /\ u \in Nat \ {0}
        /\ Min(S) \in S /\ Max(S) \in S
        /\ \A v \in S : v \in Int /\ Min(S) <= v /\ v <= Max(S)
        /\ range.type = RangeType(dataset, d)
        /\ range.min = Min(S) * u /\ range.max = Max(S) * u
    BY ONLY d \in Dims, ~OtherUnits(dataset, d), <1>3, <2>4, SliceEnds
  <2> QED BY <1>4, <2>1, <2>5 DEF i, range, S
<1>6. /\ I \in SUBSET (1 .. n) /\ I # {}
      /\ low \in [I -> Int] /\ high \in [I -> Int]
      /\ L = {low[i] : i \in I} /\ H = {high[i] : i \in I}
  <2>1. I \in SUBSET (1 .. n) /\ I # {}
    BY <1>2, <1>5
  <2>2. ASSUME NEW p \in included
        PROVE  /\ low[p[d]] = lo(p) * u /\ high[p[d]] = hi(p) * u
               /\ lo(p) * u \in Int /\ hi(p) * u \in Int
    <3>1. p[d] \in I /\ Values(d, p) = ToSet(dataset.chunks[d][p[d]])
      BY DEF Values
    <3>2. lo(p) * u \in Int /\ hi(p) * u \in Int
      BY <1>5, ProductInt
    <3> QED BY <3>1, <3>2
  <2>3. low \in [I -> Int] /\ high \in [I -> Int]
    BY <2>2
  <2>4. \A p \in included : low[p[d]] = ranges[p][d].min /\ high[p[d]] = ranges[p][d].max
    BY <1>5, <2>2
  <2>5. L = {low[i] : i \in I} /\ H = {high[i] : i \in I}
    <3> HIDE DEF low, high
    <3> QED BY <2>4
  <2> QED BY <2>1, <2>3, <2>5
<1>7. /\ Min(L) \in L /\ \A v \in L : v \in Int /\ Min(L) <= v
      /\ Max(H) \in H /\ \A v \in H : v \in Int /\ v <= Max(H)
  <2> HIDE DEF I, L, H, low, high, n
  <2> QED BY <1>4, <1>6, ChosenEnds
<1>8. PICK a \in included : Min(L) = ranges[a][d].min
  BY <1>7
<1>9. PICK b \in included : Max(H) = ranges[b][d].max
  BY <1>7
<1>10. fold.type = RangeType(dataset, d) /\ fold.min = lo(a) * u /\ fold.max = hi(b) * u
  <2>1. (CHOOSE p \in included : TRUE) \in included
    BY <1>2
  <2> HIDE DEF L, H, u, lo, hi, fold
  <2> QED BY <1>2, <1>5, <1>8, <1>9, <2>1
<1>11. out.min = lo(a) /\ out.max = hi(b)
  <2>1. lo(a) \in Int /\ hi(b) \in Int /\ u \in Nat \ {0}
    BY <1>5
  <2> HIDE DEF lo, hi, fold
  <2> QED BY <1>1, <1>3, <1>10, <2>1, BoundsGoBack DEF fold
<1>12. ASSUME NEW p \in included, NEW v \in Values(d, p)
       PROVE  out.min \in Int /\ out.max \in Int /\ v \in Int /\ out.min <= v /\ v <= out.max
  <2>1. /\ lo(a) \in Int /\ hi(b) \in Int /\ lo(p) \in Int /\ hi(p) \in Int /\ u \in Nat \ {0}
        /\ v \in Int /\ lo(p) <= v /\ v <= hi(p)
    BY <1>5
  <2>2. ranges[p][d].min \in L /\ ranges[p][d].max \in H
    OBVIOUS
  <2>3. lo(a) * u <= lo(p) * u /\ hi(p) * u <= hi(b) * u
    <3> HIDE DEF L, H, lo, hi, u
    <3> QED BY <1>5, <1>7, <1>8, <1>9, <2>2
  <2> HIDE DEF lo, hi, u
  <2>4. lo(a) <= lo(p) /\ hi(p) <= hi(b)
    BY ONLY <2>1, <2>3, ProductOrder
  <2> QED BY <1>11, <2>1, <2>4
<1>13. out.min \in Values(d, a) /\ out.max \in Values(d, b)
  <2> HIDE DEF lo, hi
  <2> QED BY <1>5, <1>11
<1> HIDE DEF fold, u, lo, hi, n, I, low, high, L, H
<1> QED BY <1>12, <1>13

(* A row may hold any value of each of its coordinates.                       *)
LEMMA RowsReach ==
  ASSUME NEW p \in Partitions(dataset), NEW row \in Rows(p), NEW d \in Dims,
         NEW v \in ToSet(dataset.chunks[d][p[d]])
  PROVE  \E other \in Rows(p) : other[d] = v
<1> DEFINE other == [row EXCEPT ![d] = v]
<1>1. d \in Columns /\ DataVar \in Columns /\ d # DataVar
  BY DimsAssumption DEF Columns
<1>2. other \in Rows(p)
  BY <1>1 DEF Rows, Columns
<1>3. other[d] = v
  BY <1>1 DEF Rows
<1> QED BY <1>2, <1>3

(* A sequence without repetitions has as many members as places.              *)
LEMMA DistinctMembers ==
  ASSUME NEW s, IsSequence(s), IsInjective(s)
  PROVE  IsFiniteSet(ToSet(s)) /\ Cardinality(ToSet(s)) = Len(s)
<1>1. Len(s) \in Nat /\ DOMAIN s = 1 .. Len(s) /\ ToSet(s) = {s[i] : i \in 1 .. Len(s)}
  BY DEF IsSequence, ToSet
<1>2. IsFiniteSet(1 .. Len(s)) /\ Cardinality(1 .. Len(s)) = Len(s)
  <2>1. 1 \in Int /\ Len(s) \in Int
    BY <1>1
  <2>2. IsFiniteSet(1 .. Len(s)) /\ Cardinality(1 .. Len(s)) = IF 1 > Len(s) THEN 0 ELSE Len(s) - 1 + 1
    BY ONLY <2>1, FS_Interval
  <2> QED BY <1>1, <2>2
<1> DEFINE f == [i \in 1 .. Len(s) |-> s[i]]
<1>3. f \in Bijection(1 .. Len(s), ToSet(s))
  <2>1. f \in [1 .. Len(s) -> ToSet(s)] /\ IsInjective(f)
    BY <1>1 DEF IsInjective
  <2>2. \A v \in ToSet(s) : \E i \in 1 .. Len(s) : f[i] = v
    BY <1>1
  <2> HIDE DEF f
  <2> QED BY <2>1, <2>2 DEF Bijection, Injection, Surjection
<1>4. ExistsBijection(1 .. Len(s), ToSet(s))
  <2> HIDE DEF f
  <2> QED BY <1>3 DEF ExistsBijection
<1> QED BY <1>2, <1>4, FS_Bijection

(* The rows of a partition are the product of its chunks.                     *)
IsCount(g, ds, p) ==
  g = [i \in 0 .. Len(DimOrder) |->
         IF i = 0 THEN 1 ELSE g[i - 1] * Len(ds.chunks[DimOrder[i]][p[DimOrder[i]]])]

LEMMA NumRowsUnfolds ==
  ASSUME NEW ds, NEW p, \E g : IsCount(g, ds, p)
  PROVE  \E g : IsCount(g, ds, p) /\ NumRows(ds, p) = g[Len(DimOrder)]
<1> DEFINE g == CHOOSE g : g = [i \in 0 .. Len(DimOrder) |->
                  IF i = 0 THEN 1 ELSE g[i - 1] * Len(ds.chunks[DimOrder[i]][p[DimOrder[i]]])]
<1>1. \E h : h = [i \in 0 .. Len(DimOrder) |->
                  IF i = 0 THEN 1 ELSE h[i - 1] * Len(ds.chunks[DimOrder[i]][p[DimOrder[i]]])]
  BY Zenon DEF IsCount
<1>2. IsCount(g, ds, p)
  BY <1>1, Zenon DEF IsCount
<1>3. NumRows(ds, p) = g[Len(DimOrder)]
  BY Zenon DEF NumRows
<1> HIDE DEF g
<1> QED BY <1>2, <1>3

LEMMA NumRowsIsProduct ==
  ASSUME Registered, NEW p \in Partitions(dataset),
         NEW weights, weights = [i \in 1 .. Len(DimOrder) |->
                                   Len(dataset.chunks[DimOrder[i]][p[DimOrder[i]]])]
  PROVE  \E g : Products(g, Len(DimOrder), weights) /\ NumRows(dataset, p) = g[Len(DimOrder)]
<1> DEFINE N == Len(DimOrder)
           size(i) == Len(dataset.chunks[DimOrder[i]][p[DimOrder[i]]])
<1>1. N \in Nat /\ Dims = {DimOrder[i] : i \in 1 .. N}
  BY DimsAssumption DEF IsSequence, Dims, ToSet
<1>2. weights \in [1 .. N -> Nat] /\ \A i \in 1 .. N : weights[i] = size(i)
  <2>1. IsDataset(dataset)
    BY DatasetAssumption DEF Registered
  <2>2. ASSUME NEW i \in 1 .. N
        PROVE  size(i) \in Nat
    <3>1. DimOrder[i] \in Dims
      BY <1>1
    <3>2. p[DimOrder[i]] \in DOMAIN dataset.chunks[DimOrder[i]]
      BY <3>1 DEF Partitions
    <3>3. dataset.chunks[DimOrder[i]][p[DimOrder[i]]] \in Seq(Int \union {Null, NaN})
      BY <2>1, <3>1, <3>2 DEF IsDataset
    <3> QED BY <3>3
  <2> QED BY <2>2
<1>3. PICK f \in [0 .. N -> Nat] : Products(f, N, weights)
  <2> HIDE DEF N
  <2> QED BY <1>1, <1>2, ProductsExist
<1>4. IsCount(f, dataset, p)
  <2>1. \A i \in 0 .. N : f[i] = IF i = 0 THEN 1 ELSE f[i - 1] * size(i)
    BY <1>1, <1>2, <1>3 DEF Products
  <2>2. f = [i \in 0 .. N |-> f[i]]
    OBVIOUS
  <2>3. f = [i \in 0 .. N |-> IF i = 0 THEN 1 ELSE f[i - 1] * size(i)]
    <3> HIDE DEF size
    <3> QED BY <2>1, <2>2
  <2> QED BY <2>3 DEF IsCount
<1>5. PICK g : IsCount(g, dataset, p) /\ NumRows(dataset, p) = g[N]
  BY <1>4, NumRowsUnfolds
<1>6. Products(g, N, weights)
  <2> DEFINE rest(i) == IF i = 0 THEN 1 ELSE g[i - 1] * size(i)
  <2>1. \A i \in 0 .. N : g[i] = rest(i)
    <3>1. g = [i \in 0 .. N |-> rest(i)]
      BY <1>5 DEF IsCount
    <3> HIDE DEF rest
    <3> QED BY <3>1
  <2>2. g[0] = 1
    BY <1>1, <2>1
  <2>3. \A i \in 1 .. N : g[i] = g[i - 1] * size(i)
    BY <1>1, <2>1
  <2> QED BY <1>2, <2>2, <2>3 DEF Products
<1> QED BY <1>5, <1>6

LEMMA RowCount ==
  ASSUME Registered, NEW p \in Partitions(dataset),
         \A d \in Dims : IsInjective(dataset.chunks[d][p[d]]),
         NEW v \in DataValues
  PROVE  Cardinality({row \in Rows(p) : row[DataVar] = v}) = NumRows(dataset, p)
<1> DEFINE N == Len(DimOrder)
           chunk(d) == dataset.chunks[d][p[d]]
           C == [i \in 1 .. N |-> ToSet(chunk(DimOrder[i]))]
           R == {row \in Rows(p) : row[DataVar] = v}
           B == Box(C, N)
           F == [row \in R |-> [i \in 1 .. N |-> row[DimOrder[i]]]]
<1>1. /\ N \in Nat /\ Dims = {DimOrder[i] : i \in 1 .. N}
      /\ \A i, j \in 1 .. N : DimOrder[i] = DimOrder[j] => i = j
      /\ DataVar \notin Dims
  BY DimsAssumption DEF IsSequence, IsInjective, Dims, ToSet
<1>2. ASSUME NEW d \in Dims
      PROVE  IsFiniteSet(ToSet(chunk(d))) /\ Cardinality(ToSet(chunk(d))) = Len(chunk(d))
  <2>1. p[d] \in DOMAIN dataset.chunks[d] /\ IsDataset(dataset)
    BY DatasetAssumption DEF Partitions, Registered
  <2>2. chunk(d) \in Seq(Int \union {Null, NaN})
    BY <2>1 DEF IsDataset
  <2>3. IsSequence(chunk(d))
    BY <2>2 DEF IsSequence
  <2> QED BY <2>3, DistinctMembers
<1>3. \A i \in 1 .. N : IsFiniteSet(C[i]) /\ Cardinality(C[i]) = Len(chunk(DimOrder[i]))
  BY <1>1, <1>2
<1>4. PICK g : Products(g, N, [i \in 1 .. N |-> Cardinality(C[i])]) /\ NumRows(dataset, p) = g[N]
  <2> DEFINE weights == [i \in 1 .. N |-> Len(chunk(DimOrder[i]))]
  <2>1. weights = [i \in 1 .. N |-> Cardinality(C[i])]
    <3> HIDE DEF C, chunk
    <3> QED BY <1>3
  <2>2. \E g : Products(g, N, weights) /\ NumRows(dataset, p) = g[N]
    BY NumRowsIsProduct
  <2> HIDE DEF weights, C, N
  <2> QED BY <2>1, <2>2
<1>5. IsFiniteSet(B) /\ Cardinality(B) = NumRows(dataset, p)
  <2> HIDE DEF C, N
  <2>1. N \in 0 .. N /\ N \in Nat
    BY <1>1
  <2>2. \A i \in 1 .. N : IsFiniteSet(C[i])
    BY <1>3
  <2>3. Products(g, N, [i \in 1 .. N |-> Cardinality(C[i])])
    BY <1>4
  <2>4. \A n \in 0 .. N : IsFiniteSet(Box(C, n)) /\ Cardinality(Box(C, n)) = g[n]
    BY ONLY <2>1, <2>2, <2>3, BoxCardinality
  <2> QED BY <1>4, <2>1, <2>4
<1>6. R = {row \in [Columns -> DataValues \union UNION {ToSet(chunk(d)) : d \in Dims}] :
             row[DataVar] = v /\ \A d \in Dims : row[d] \in ToSet(chunk(d))}
  BY DEF Rows
<1>7. ASSUME NEW row \in R
      PROVE  F[row] \in B
  <2>1. \A i \in 1 .. N : F[row][i] \in C[i]
    BY <1>1, <1>6
  <2>2. F[row] \in [1 .. N -> UNION {C[i] : i \in 1 .. N}]
    <3>1. F[row] = [i \in 1 .. N |-> row[DimOrder[i]]]
      OBVIOUS
    <3>2. DOMAIN F[row] = 1 .. N /\ F[row] = [i \in 1 .. N |-> F[row][i]]
      BY <3>1
    <3> HIDE DEF C, F
    <3> QED BY <2>1, <3>2
  <2> HIDE DEF C, F
  <2> QED BY <2>1, <2>2 DEF Box
<1>8. ASSUME NEW r \in R, NEW s \in R, F[r] = F[s]
      PROVE  r = s
  <2>1. \A i \in 1 .. N : r[DimOrder[i]] = s[DimOrder[i]]
    <3> DEFINE fr == [i \in 1 .. N |-> r[DimOrder[i]]]
               fs == [i \in 1 .. N |-> s[DimOrder[i]]]
    <3>1. F[r] = fr /\ F[s] = fs
      OBVIOUS
    <3>2. \A i \in 1 .. N : fr[i] = r[DimOrder[i]] /\ fs[i] = s[DimOrder[i]]
      OBVIOUS
    <3> HIDE DEF F, R, fr, fs
    <3>3. fr = fs
      BY <1>8, <3>1
    <3> QED BY ONLY <3>2, <3>3
  <2>2. \A c \in Columns : r[c] = s[c]
    BY <1>1, <1>6, <2>1 DEF Columns
  <2>3. r = [c \in Columns |-> r[c]] /\ s = [c \in Columns |-> s[c]]
    BY <1>6
  <2> HIDE DEF R, F
  <2> QED BY <2>2, <2>3
<1>9. ASSUME NEW q \in B
      PROVE  \E row \in R : F[row] = q
  <2> DEFINE at(d) == CHOOSE i \in 1 .. N : DimOrder[i] = d
             row == [c \in Columns |-> IF c = DataVar THEN v ELSE q[at(c)]]
  <2>1. q = [i \in 1 .. N |-> q[i]] /\ \A i \in 1 .. N : q[i] \in ToSet(chunk(DimOrder[i]))
    BY DEF Box
  <2>2. ASSUME NEW i \in 1 .. N
        PROVE  at(DimOrder[i]) = i
    BY <1>1
  <2>3. row[DataVar] = v
    BY DEF Columns
  <2>4. ASSUME NEW i \in 1 .. N
        PROVE  row[DimOrder[i]] = q[i]
    <3>1. DimOrder[i] \in Columns /\ DimOrder[i] # DataVar
      BY <1>1 DEF Columns
    <3> HIDE DEF at
    <3> QED BY <2>2, <3>1
  <2>5. \A d \in Dims : row[d] \in ToSet(chunk(d))
    <3> HIDE DEF row, chunk
    <3> QED BY <1>1, <2>1, <2>4
  <2>6. \A c \in Columns : row[c] \in DataValues \union UNION {ToSet(chunk(d)) : d \in Dims}
    <3> HIDE DEF row, chunk
    <3> QED BY <2>3, <2>5 DEF Columns
  <2>7. row = [c \in Columns |-> row[c]]
    OBVIOUS
  <2>8. row \in R
    <3> HIDE DEF row, chunk, R
    <3> QED BY <1>6, <2>3, <2>5, <2>6, <2>7
  <2>9. F[row] = q
    <3>1. F[row] = [i \in 1 .. N |-> row[DimOrder[i]]]
      BY <2>8
    <3> HIDE DEF row, F, R
    <3> QED BY <2>1, <2>4, <3>1
  <2> HIDE DEF row, F, R
  <2> QED BY <2>8, <2>9
<1>10. F \in Bijection(R, B)
  <2>1. F = [row \in R |-> F[row]]
    OBVIOUS
  <2> HIDE DEF F, R, B
  <2>2. F \in [R -> B]
    BY <1>7, <2>1
  <2>3. IsInjective(F)
    BY <1>8, <2>2 DEF IsInjective
  <2> QED BY <1>9, <2>2, <2>3 DEF Bijection, Injection, Surjection
<1>11. ExistsBijection(B, R)
  <2> HIDE DEF F, R, B
  <2>1. ExistsBijection(R, B)
    BY <1>10 DEF ExistsBijection
  <2> QED BY <2>1, Fun_ExistsBijSymmetric
<1>12. Cardinality(R) = Cardinality(B)
  <2> HIDE DEF R, B
  <2> QED BY <1>5, <1>11, FS_Bijection
<1> QED BY <1>5, <1>12

(*********************************** Scans ***********************************)
(* The inductive invariant: the registration, and a plan whose partitions are *)
(* those the filters the table took leave of it.                              *)
Planned ==
  /\ plan.query \in Queries(dataset)
  /\ plan.included = PrunePartitions({f \in ToSet(plan.query) : IsDimensionFilter(f)})
  /\ plan.columns \in Projections
  /\ plan.pushed \in BOOLEAN
  /\ plan.statistics = Statistics(plan.included, plan.columns)

Known == Registered /\ (plan # NoPlan => Planned)

LEMMA InitKnown == Init => Known
<1> SUFFICES ASSUME Init PROVE Known
  OBVIOUS
<1>1. dimension_columns \subseteq Dims
  BY DEF Init, DimensionColumns, Bounded
<1> QED BY <1>1 DEF Init, Known, Registered

(* What a plan reads of the table, the table keeps.                           *)
LEMMA TableStays ==
  ASSUME dataset' = dataset, ranges' = ranges, dimension_columns' = dimension_columns
  PROVE  /\ Registered => Registered'
         /\ \A f : IsDimensionFilter(f)' = IsDimensionFilter(f)
         /\ \A filters : PrunePartitions(filters)' = PrunePartitions(filters)
         /\ \A included, columns : Statistics(included, columns)' = Statistics(included, columns)
<1>1. Registered => Registered'
  BY DEF Registered, Partitions, BlockMetadata
<1>2. ASSUME NEW f
      PROVE  IsDimensionFilter(f)' = IsDimensionFilter(f)
  BY DEF IsDimensionFilter, NodeIsTaken, PruningColumn
<1>3. ASSUME NEW f, NEW p
      PROVE  Excludes(f, p)' = Excludes(f, p)
  BY DEF Excludes, NodeExcludes, IsBare, Usable, PruningColumn
<1>4. ASSUME NEW filters
      PROVE  PrunePartitions(filters)' = PrunePartitions(filters)
  BY <1>3 DEF PrunePartitions
<1>5. ASSUME NEW included, NEW columns
      PROVE  Statistics(included, columns)' = Statistics(included, columns)
  <2>1. ASSUME NEW d
        PROVE  FoldBounds(included, d)' = FoldBounds(included, d)
    BY DEF FoldBounds
  <2>2. [p \in included |-> NumRows(dataset, p)]' = [p \in included |-> NumRows(dataset, p)]
    OBVIOUS
  <2> QED BY <2>1, <2>2 DEF Statistics
<1> QED BY <1>1, <1>2, <1>4, <1>5

LEMMA NextKnown == Known /\ [Next]_vars => Known'
<1> SUFFICES ASSUME Known, [Next]_vars PROVE Known'
  OBVIOUS
<1>1. dataset' = dataset /\ ranges' = ranges /\ dimension_columns' = dimension_columns
  BY DEF Next, Scan, Done, vars
<1>2. /\ Registered'
      /\ \A f : IsDimensionFilter(f)' = IsDimensionFilter(f)
      /\ \A filters : PrunePartitions(filters)' = PrunePartitions(filters)
      /\ \A included, columns : Statistics(included, columns)' = Statistics(included, columns)
  BY <1>1, TableStays DEF Known
<1>3. CASE plan' = plan
  <2>1. Planned => Planned'
    BY <1>1, <1>2, <1>3 DEF Planned
  <2> QED BY <1>2, <1>3, <2>1 DEF Known
<1>4. CASE Done
  BY <1>2, <1>4 DEF Known, Done
<1>5. ASSUME NEW query \in Queries(dataset), NEW columns \in Projections, Scan(query, columns)
      PROVE  Known'
  <2>1. /\ plan'.query = query /\ plan'.columns = columns
        /\ plan'.pushed = PushProjection(columns)
        /\ plan'.included = PrunePartitions({f \in ToSet(query) : IsDimensionFilter(f)})
        /\ plan'.statistics = Statistics(plan'.included, columns)
    BY <1>5 DEF Scan, Plan
  <2>2. PushProjection(columns) \in BOOLEAN
    BY DEF PushProjection
  <2>3. Planned'
    BY <1>1, <1>2, <2>1, <2>2 DEF Planned
  <2> QED BY <1>2, <2>3 DEF Known
<1> QED BY <1>3, <1>4, <1>5 DEF Next, vars

LEMMA AlwaysKnown == Spec => []Known
  BY InitKnown, NextKnown, PTL DEF Spec

(* The ranges of the table are ranges of their columns' kinds, and a plan     *)
(* scans partitions of the table (prune_partitions, scan).                    *)
THEOREM TypeCorrect == Spec => []TypeOK
<1>1. Known => TypeOK
  <2> SUFFICES ASSUME Known PROVE TypeOK
    OBVIOUS
  <2>1. Registered /\ IsDataset(dataset)
    BY DatasetAssumption DEF Known, Registered
  <2>2. ASSUME NEW p \in Partitions(dataset), NEW d \in Dims, ranges[p][d] # NoRange
        PROVE  /\ ranges[p][d].type.kind = dataset.type[d].kind
               /\ ranges[p][d].min <= ranges[p][d].max
    <3>1. p[d] \in DOMAIN dataset.chunks[d]
      BY DEF Partitions
    <3>2. ranges[p][d] = ChunkBound(dataset, d, p[d])
      BY <2>1 DEF Registered, BlockMetadata
    <3> QED BY <2>1, <2>2, <3>1, <3>2, SliceIsBounded, OtherBound
  <2>3. ASSUME plan # NoPlan
        PROVE  /\ plan.included \subseteq Partitions(dataset)
               /\ plan.columns \in Projections /\ plan.pushed \in BOOLEAN
    BY <2>1, <2>3 DEF Known, Planned, PrunePartitions, Registered
  <2> QED BY <2>1, <2>2, <2>3 DEF TypeOK, Registered
<1> QED BY <1>1, AlwaysKnown, PTL

(* A filter of a plan is one a scan may get.                                  *)
LEMMA QueryFilters ==
  ASSUME Known, plan # NoPlan
  PROVE  /\ \A f \in ToSet(plan.query) : IsFilter(dataset, f)
         /\ ToSet(plan.query) = {plan.query[i] : i \in DOMAIN plan.query}
<1>1. plan.query \in Queries(dataset) /\ dataset \in Datasets
  BY DEF Known, Planned, Registered
<1>2. ToSet(plan.query) = {plan.query[i] : i \in DOMAIN plan.query}
  BY DEF ToSet
<1>3. \A i \in DOMAIN plan.query : IsFilter(dataset, plan.query[i])
  BY <1>1, FilterAssumption
<1> QED BY <1>2, <1>3

(* prune_partitions drops no row that a query would have returned, or whose   *)
(* evaluation would have raised: on every row of a dropped partition some     *)
(* filter of the query is FALSE. A partition is lost only to a filter on a    *)
(* dimension whose bounds are in other units than its column.                 *)
THEOREM PruningIsSound == Spec => []DroppedRowsAreFalse
<1>1. Known => DroppedRowsAreFalse
  <2> SUFFICES ASSUME Known, plan # NoPlan, NEW p \in Partitions(dataset) \ plan.included
               PROVE  \E i \in DOMAIN plan.query :
                        \/ \A row \in Rows(p) : Evaluate(plan.query[i], row) = "false"
                        \/ Misread(plan.query[i]) /\ Excludes(plan.query[i], p)
    BY DEF DroppedRowsAreFalse
  <2>1. Registered /\ DOMAIN ranges = Partitions(dataset)
    BY DEF Known, Registered
  <2>2. PICK f \in ToSet(plan.query) : Excludes(f, p)
    BY <2>1 DEF Known, Planned, PrunePartitions
  <2>3. PICK i \in DOMAIN plan.query : f = plan.query[i]
    BY <2>2, QueryFilters
  <2>4. ~Misread(f) => \A row \in Rows(p) : Evaluate(f, row) = "false"
    BY <2>1, <2>2, QueryFilters, ExcludedRowsAreFalse
  <2> QED BY <2>2, <2>3, <2>4
<1> QED BY <1>1, AlwaysKnown, PTL

(* supports_filters_pushdown and the exclusion agree: a filter of a query     *)
(* that excludes a partition was taken, and the partition is not scanned.     *)
THEOREM FiltersAreKept == Spec => []NoFilterIsLost
<1>1. Known => NoFilterIsLost
  <2> SUFFICES ASSUME Known, plan # NoPlan, NEW i \in DOMAIN plan.query,
                      NEW p \in Partitions(dataset), Excludes(plan.query[i], p)
               PROVE  p \notin plan.included
    BY DEF NoFilterIsLost
  <2>1. plan.query[i] \in ToSet(plan.query) /\ IsFilter(dataset, plan.query[i])
    BY QueryFilters
  <2>2. IsDimensionFilter(plan.query[i])
    BY <2>1, ExcludingIsTaken DEF Known
  <2> QED BY <2>1, <2>2 DEF Known, Planned, PrunePartitions
<1> QED BY <1>1, AlwaysKnown, PTL

(* The row count and the bounds that build_scan_statistics gives the optimizer *)
(* as exact are those of the rows a scan returns; of the bounds this is said  *)
(* where they are in the units of their column.                               *)
THEOREM StatisticsAreRight == Spec => []StatisticsAreExact
<1>1. ASSUME Known, plan # NoPlan
      PROVE  /\ Registered /\ plan.included \in SUBSET Partitions(dataset)
             /\ plan.statistics = Statistics(plan.included, plan.columns)
  BY <1>1 DEF Known, Planned, PrunePartitions, Registered
<1>2. ASSUME Known, plan # NoPlan,
             \A p \in plan.included, d \in Dims : IsInjective(dataset.chunks[d][p[d]])
      PROVE  plan.statistics.rows =
               SumFunction([p \in plan.included |->
                 Cardinality({row \in Rows(p) : row[DataVar] = CHOOSE v \in DataValues : TRUE})])
  <2> DEFINE any == CHOOSE v \in DataValues : TRUE
             count(p) == Cardinality({row \in Rows(p) : row[DataVar] = any})
  <2>1. plan.statistics.rows = SumFunction([p \in plan.included |-> NumRows(dataset, p)])
    BY <1>1, <1>2 DEF Statistics
  <2>2. any \in DataValues
    BY DimsAssumption
  <2> HIDE DEF any
  <2>3. \A p \in plan.included : count(p) = NumRows(dataset, p)
    BY <1>1, <1>2, <2>2, RowCount
  <2>4. [p \in plan.included |-> NumRows(dataset, p)] = [p \in plan.included |-> count(p)]
    <3> HIDE DEF count
    <3> QED BY <2>3
  <2> QED BY <2>1, <2>4 DEF any
<1>3. ASSUME Known, plan # NoPlan, NEW d \in DOMAIN plan.statistics.bounds,
             plan.statistics.bounds[d] # NoRange, ~OtherUnits(dataset, d),
             NEW values, values = UNION {{row[d] : row \in Rows(p)} : p \in plan.included}
      PROVE  /\ \A v \in values : v \in plan.statistics.bounds[d].min .. plan.statistics.bounds[d].max
             /\ (\A p \in plan.included : Rows(p) # {}) =>
                  {plan.statistics.bounds[d].min, plan.statistics.bounds[d].max} \subseteq values
  <2> DEFINE out == plan.statistics.bounds[d]
  <2>1. d \in Dims /\ out = BoundInType(FoldBounds(plan.included, d), dataset.type[d])
    BY <1>1, <1>3 DEF Statistics
  <2>2. PICK a, b \in plan.included :
          /\ out.min \in Values(d, a) /\ out.max \in Values(d, b)
          /\ \A p \in plan.included : \A v \in Values(d, p) :
               out.min \in Int /\ out.max \in Int /\ v \in Int /\ out.min <= v /\ v <= out.max
    BY <1>1, <1>3, <2>1, FoldIsExact
  <2>3. \A p \in plan.included : \A row \in Rows(p) : row[d] \in Values(d, p)
    BY <2>1 DEF Rows, Values
  <2> HIDE DEF out
  <2>4. \A v \in values : v \in out.min .. out.max
    BY <1>3, <2>2, <2>3
  <2>5. ASSUME \A p \in plan.included : Rows(p) # {}
        PROVE  {out.min, out.max} \subseteq values
    <3>1. ASSUME NEW p \in plan.included, NEW v \in Values(d, p)
          PROVE  v \in values
      <4>1. PICK row \in Rows(p) : TRUE
        BY <2>5
      <4>2. p \in Partitions(dataset) /\ v \in ToSet(dataset.chunks[d][p[d]])
        BY <1>1, <1>3, <3>1 DEF Values
      <4>3. PICK other \in Rows(p) : other[d] = v
        BY <2>1, <4>1, <4>2, RowsReach
      <4> QED BY <1>3, <4>3
    <3> QED BY <2>2, <3>1
  <2> QED BY <2>4, <2>5 DEF out
<1>4. Known => StatisticsAreExact
  <2> SUFFICES ASSUME Known, plan # NoPlan
               PROVE  StatisticsAreExact
    BY DEF StatisticsAreExact
  <2> QED BY <1>2, <1>3 DEF StatisticsAreExact
<1> QED BY <1>4, AlwaysKnown, PTL
=============================================================================
