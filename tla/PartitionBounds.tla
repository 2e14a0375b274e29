--------------------------- MODULE PartitionBounds ---------------------------
(* The bounds of a partition's coordinates (src/xarray_sql/df.py,             *)
(* src/xarray_sql/cftime.py) and the tests on them that let the native scan   *)
(* drop a partition (src/src/lib.rs). What a predicate is worth on one row is *)
(* the engine's business and external; it is here because it says what those  *)
(* tests must not contradict.                                                 *)
(*                                                                            *)
(* A type is a kind and a size: the width of a number, the nanoseconds of a   *)
(* unit of time. Values are integers whatever the kind (FALSE is 0, strings   *)
(* are numbered in their order), except an interval, which is a record. The   *)
(* two zeros of a float are one value.                                        *)
EXTENDS Integers, TLC, FiniteSets, Sequences, SequencesExt, FiniteSetsExt

CONSTANTS
  Null,      \* a missing value
  NaN,       \* a float that is no number
  Error,     \* the value of an expression that raises
  NoRange,   \* a dimension of a partition without usable bounds
  MaxNanos,  \* the largest signed integer of 64 bits, scaled down
  WideFloat  \* the size from which a float holds every integer there is

ASSUME MaxNanosAssumption == MaxNanos \in Nat
ASSUME WideFloatAssumption == WideFloat \in Nat
ASSUME MarksAssumption ==
  /\ Null # NaN /\ Null # Error /\ NaN # Error
  /\ {Null, NaN, Error} \cap Int = {}
  /\ {Null, NaN, Error} \cap [months : Int, days : Int, nanos : Int] = {}

Kinds == {"int", "uint", "float", "bool", "str", "ts", "dur", "interval"}
Integral == {"int", "uint"}
Temporal == {"ts", "dur"}
Ordinal == {"bool", "str"}

Operators == {"<", "<=", ">", ">=", "=", "!="}
Tests == {"true", "false", "not true", "not false"}

Type(kind, size) == [kind |-> kind, size |-> size]

Fits(n) == n \in -MaxNanos - 1 .. MaxNanos

(****************************** Bounds of a slice ****************************)
Missing(values) == \E i \in DOMAIN values : values[i] \in {Null, NaN}

\* Mutant: the first and the last value, right for a sorted axis only.
CoordinateBoundOfEnds(type, values) ==
  IF values = << >> \/ Missing(values) THEN NoRange
  ELSE [type |-> type, min |-> values[1], max |-> Last(values)]

\* The minimum and maximum of a slice; none for an empty slice or one that
\* holds NaN, NaT or None.
CoordinateBound(type, values) ==
  IF values = << >> \/ Missing(values) THEN NoRange
  ELSE [type |-> type, min |-> Min(ToSet(values)), max |-> Max(ToSet(values))]

\* The units of cftime dates: the microseconds in one, and those at their epoch.
\* A dimension whose encoding names no units is in DefaultUnits.
DefaultUnits == [size |-> 1, since |-> 0]
Microseconds(units, value) == value * units.size + units.since

\* cftime dates of a Gregorian calendar are a column of microseconds with
\* bounds in nanoseconds, which the code leaves out when they do not fit. Those
\* of another calendar are a column of integers in the units of their encoding,
\* but their bounds are integers in DefaultUnits.
CftimeBound(type, units, values) ==
  LET lo == Min(ToSet(values))
      hi == Max(ToSet(values))
  IN  CASE values = << >> -> NoRange
        [] values # << >> /\ type.kind = "ts" ->
             IF lo * type.size < -MaxNanos - 1 \/ hi * type.size > MaxNanos THEN NoRange
             ELSE [type |-> Type("ts", 1), min |-> lo * type.size, max |-> hi * type.size]
        [] OTHER ->
             [type |-> type, min |-> Microseconds(units, lo), max |-> Microseconds(units, hi)]

(************************ A bound against a literal ***************************)
Order(a, b) == IF a < b THEN "less" ELSE IF a = b THEN "equal" ELSE "greater"

\* Intervals are ordered by months, then days, then nanoseconds.
IntervalOrder(a, b) ==
  IF a.months # b.months THEN Order(a.months, b.months)
  ELSE IF a.days # b.days THEN Order(a.days, b.days)
  ELSE Order(a.nanos, b.nanos)

\* A literal the engine may compare a column with.
Literal(lit) ==
  /\ lit.type.kind \in Kinds
  /\ lit.type.kind \in Temporal => lit.type.size \in Nat \ {0}
  /\ IF lit.type.kind = "interval"
     THEN lit.value = Null \/ lit.value \in [months : Int, days : Int, nanos : Int]
     ELSE lit.value \in Int \union {Null} \/ (lit.type.kind = "float" /\ lit.value = NaN)

Interval(nanos) == [months |-> 0, days |-> 0, nanos |-> nanos]

\* "none" when the two cannot be compared.
Compare(type, bound, lit) ==
  IF lit.value \in {Null, NaN} THEN "none"
  ELSE IF type.kind = "dur" /\ lit.type.kind = "interval"
  THEN IF lit.value.months # 0 \/ ~Fits(bound * type.size) THEN "none"
       ELSE IntervalOrder(Interval(bound * type.size), lit.value)
  ELSE IF type.kind = lit.type.kind /\ type.kind \in Temporal
  THEN Order(bound * type.size, lit.value * lit.type.size)
  ELSE IF type.kind = lit.type.kind \/ {type.kind, lit.type.kind} = Integral
  THEN Order(bound, lit.value)
  ELSE "none"

\* Mutant: a bound that overflows is taken for one that cannot be compared.
RangeCanCompareLoose(range, lit) ==
  lit.type.kind = "interval" /\ lit.value # Null => lit.value.months = 0

\* A duration that overflows as an interval raises on its row, so its
\* partition must be read.
RangeCanCompare(range, lit) ==
  lit.type.kind = "interval" /\ lit.value # Null =>
    /\ lit.value.months = 0
    /\ range.type.kind = "dur" =>
         Fits(range.min * range.type.size) /\ Fits(range.max * range.type.size)

(******************************** Exclusion **********************************)
Flip(op) == CASE op = "<" -> ">" [] op = "<=" -> ">="
              [] op = ">" -> "<" [] op = ">=" -> "<=" [] OTHER -> op

ComparisonExcludes(range, op, lit) ==
  LET low == Compare(range.type, range.min, lit)
      high == Compare(range.type, range.max, lit)
  IN  /\ RangeCanCompare(range, lit)
      /\ \/ op = ">"  /\ high \in {"less", "equal"}
         \/ op = ">=" /\ high = "less"
         \/ op = "<"  /\ low \in {"greater", "equal"}
         \/ op = "<=" /\ low = "greater"
         \/ op = "="  /\ (low = "greater" \/ high = "less")
         \/ op = "!=" /\ low = "equal" /\ high = "equal"

BetweenExcludes(range, low, high) ==
  /\ RangeCanCompare(range, low) /\ RangeCanCompare(range, high)
  /\ \/ Compare(range.type, range.max, low) = "less"
     \/ Compare(range.type, range.min, high) = "greater"

\* A value that cannot be compared may be in the partition.
MayHold(range, lit) ==
  \/ ~RangeCanCompare(range, lit)
  \/ "none" \in {Compare(range.type, range.min, lit), Compare(range.type, range.max, lit)}
  \/ /\ Compare(range.type, range.min, lit) # "greater"
     /\ Compare(range.type, range.max, lit) # "less"

InListExcludes(range, list) == \A lit \in list : ~MayHold(range, lit)

\* A Boolean column as a filter, or its negation.
TrueLiteral == [type |-> Type("bool", 0), value |-> 1]
FalseLiteral == [type |-> Type("bool", 0), value |-> 0]

BooleanExcludes(range, expected) ==
  IF expected THEN Compare(range.type, range.max, TrueLiteral) = "less"
  ELSE Compare(range.type, range.min, FalseLiteral) = "greater"

\* The casts a filter may look through, by the type of the column.
OrderPreserving(source, target) ==
  \/ source = target
  \/ /\ source.kind = target.kind /\ source.kind \in Integral
     /\ target.size >= source.size
  \/ source.kind = "uint" /\ target.kind = "int" /\ target.size > source.size
  \/ source.kind = "float" /\ target.kind = "float" /\ target.size > source.size
  \/ source.kind = "dur" /\ target.kind = "interval"

(************************* A predicate on one row *****************************)
\* 2^n, defined by recursion.
Power(n) == LET power[k \in 0 .. n] == IF k = 0 THEN 1 ELSE 2 * power[k - 1] IN power[n]

\* A narrow float holds the multiples of a power of two.
FloatStep(size) == IF size < WideFloat THEN Power(WideFloat - size) ELSE 1

\* Integers have 2^size values.
InType(type, v) ==
  CASE type.kind = "int"  -> v \in -Power(type.size - 1) .. Power(type.size - 1) - 1
    [] type.kind = "uint" -> v \in 0 .. Power(type.size) - 1
    [] type.kind = "float" -> v % FloatStep(type.size) = 0
    [] type.kind = "bool" -> v \in {0, 1}
    [] OTHER -> TRUE

\* CAST raises and TRY_CAST yields NULL where the value does not fit.
CastValue(source, cast, v) ==
  LET failed == IF cast.try THEN Null ELSE Error
  IN  IF v \in {Null, Error} \/ source = cast.to THEN v
      ELSE IF cast.to.kind \in Integral
      THEN IF InType(cast.to, v) THEN v ELSE failed
      ELSE IF cast.to.kind = "float"
      THEN IF v = NaN THEN v ELSE v - (v % FloatStep(cast.to.size))
      ELSE IF cast.to.kind = source.kind /\ source.kind \in Temporal
      THEN (v * source.size) \div cast.to.size
      ELSE IF cast.to.kind = "interval"
      THEN IF Fits(v * source.size) THEN Interval(v * source.size) ELSE failed
      ELSE Error

\* NaN is above every number and equal to itself.
RowOrder(type, a, b) ==
  IF type.kind = "interval" THEN IntervalOrder(a, b)
  ELSE IF NaN \notin {a, b} THEN Order(a, b)
  ELSE IF a = b THEN "equal" ELSE IF a = NaN THEN "greater" ELSE "less"

Meets(op, order) ==
  \/ op = ">"  /\ order = "greater"
  \/ op = ">=" /\ order # "less"
  \/ op = "<"  /\ order = "less"
  \/ op = "<=" /\ order # "greater"
  \/ op = "="  /\ order = "equal"
  \/ op = "!=" /\ order # "equal"

Truth(b) == IF b THEN "true" ELSE "false"

Negation(t) == IF t = "true" THEN "false" ELSE IF t = "false" THEN "true" ELSE t

\* SQL's three values, and "error" where the engine raises unless the other
\* side decides.
And(s, t) ==
  IF "false" \in {s, t} THEN "false"
  ELSE IF "error" \in {s, t} THEN "error"
  ELSE IF "null" \in {s, t} THEN "null" ELSE "true"

Or(s, t) == Negation(And(Negation(s), Negation(t)))

ComparisonOnRow(type, op, x, lit) ==
  IF x = Error THEN "error"
  ELSE IF Null \in {x, lit.value} THEN "null"
  ELSE Truth(Meets(op, RowOrder(type, x, lit.value)))

BetweenOnRow(type, x, low, high) ==
  And(ComparisonOnRow(type, ">=", x, low), ComparisonOnRow(type, "<=", x, high))

InListOnRow(type, x, list) ==
  LET each == {ComparisonOnRow(type, "=", x, lit) : lit \in list}
  IN  IF x = Error THEN "error"
      ELSE IF "true" \in each THEN "true"
      ELSE IF "null" \in each THEN "null" ELSE "false"

BooleanOnRow(x) == ComparisonOnRow(Type("bool", 0), "=", x, TrueLiteral)
=============================================================================
