------------------------------ MODULE NativeScan ------------------------------
(* The native DataFusion table (src/src/lib.rs) over the partitions that      *)
(* read_xarray_table makes (src/xarray_sql/reader.py): which filters it takes,*)
(* which partitions a scan drops, and what it tells the optimizer of the rest.*)
(*                                                                            *)
(* A dataset gives each dimension a type, whether its coordinate is cftime    *)
(* and in which units, and its chunks, each a sequence of the values that the *)
(* coordinate has in the column. A partition picks a chunk of every dimension;*)
(* its rows are the product, with any value of the data variable.             *)
EXTENDS PartitionBounds

CONSTANTS
  DimOrder,     \* the dimensions of the datasets, in order
  DataVar,      \* a data variable
  DataValues,   \* its values
  Datasets,     \* the datasets that may be registered
  Queries(_),   \* the filters of the queries on a dataset, each a sequence
  Projections,  \* the column lists a query may ask for
  NoPlan

Dims == ToSet(DimOrder)

Columns == Dims \union {DataVar}

(******************************** Assumptions ********************************)
IsSequence(s) == Len(s) \in Nat /\ DOMAIN s = 1 .. Len(s)

IsType(type) ==
  /\ type.kind \in Kinds
  /\ type.size \in Nat
  /\ type.kind \in Integral \union Temporal => type.size > 0

\* Coordinates are values of their type or missing. cftime dates are never
\* missing; they are times, or integers where their calendar is 360_day or
\* julian.
IsDataset(ds) ==
  /\ \A c \in Columns : IsType(ds.type[c]) /\ ds.type[c].kind # "interval"
  /\ \A d \in Dims :
       /\ ds.cftime[d] \in BOOLEAN
       /\ ds.cftime[d] => ds.type[d].kind \in {"ts", "int"}
       /\ ds.units[d].size \in Nat \ {0} /\ ds.units[d].since \in Int
       /\ IsSequence(ds.chunks[d])
       /\ \A i \in DOMAIN ds.chunks[d] :
            LET chunk == ds.chunks[d][i]
            IN  /\ chunk \in Seq(Int \union {Null, NaN})
                /\ \A j \in DOMAIN chunk : chunk[j] \in Int => InType(ds.type[d], chunk[j])
                /\ ds.cftime[d] => chunk \in Seq(Int)

TypeOf(ds, col) == IF Len(col.casts) = 0 THEN ds.type[col.column] ELSE Last(col.casts).to

\* An interval is not cast back to a duration.
IsColumn(ds, col) ==
  /\ col.column \in Columns
  /\ IsSequence(col.casts)
  /\ \A i \in DOMAIN col.casts :
       /\ IsType(col.casts[i].to)
       /\ col.casts[i].try \in BOOLEAN
       /\ col.casts[i].to.kind = "interval" =>
            \A j \in i .. Len(col.casts) : col.casts[j].to = col.casts[i].to

\* The engine gives a test literals of the type of its column.
IsTest(ds, f) ==
  LET typed(lit) == Literal(lit) /\ lit.type = TypeOf(ds, f.col)
  IN  /\ IsColumn(ds, f.col)
      /\ \/ f.node = "column" /\ TypeOf(ds, f.col) = Type("bool", 0)
         \/ f.node = "comparison" /\ f.op \in Operators /\ f.flipped \in BOOLEAN /\ typed(f.lit)
         \/ f.node = "between" /\ f.negated \in BOOLEAN /\ typed(f.low) /\ typed(f.high)
         \/ f.node = "in" /\ f.negated \in BOOLEAN /\ f.list # {} /\ \A lit \in f.list : typed(lit)

\* A filter is a tree in postfix order: the root is the last node, and an
\* operator follows its operands, the right one of as many nodes as size says.
Right(i) == i - 1
Left(f, i) == i - 1 - f[i].size

IsFilter(ds, f) ==
  /\ IsSequence(f) /\ Len(f) > 0
  /\ \A i \in DOMAIN f :
       \/ f[i].node \in {"and", "or"} /\ f[i].size \in 1 .. i - 2
       \/ f[i].node = "not" /\ i > 1
       \/ f[i].node = "is" /\ i > 1 /\ f[i].test \in Tests
       \/ IsTest(ds, f[i])

ASSUME DimsAssumption ==
  /\ IsSequence(DimOrder) /\ IsInjective(DimOrder)
  /\ DataVar \notin Dims /\ DataValues # {}
ASSUME DatasetAssumption == \A ds \in Datasets : IsDataset(ds)
ASSUME FilterAssumption ==
  \A ds \in Datasets : \A query \in Queries(ds) :
    IsSequence(query) /\ \A i \in DOMAIN query : IsFilter(ds, query[i])

VARIABLES
  dataset,   \* the registered dataset
  ranges,    \* PartitionMetadata: bounds by partition and dimension
  dimension_columns,
  plan       \* of the scan under way

vars == <<dataset, ranges, dimension_columns, plan>>

(******************************* Registration ********************************)
Partitions(ds) == {p \in [Dims -> UNION {DOMAIN ds.chunks[d] : d \in Dims}] :
                     \A d \in Dims : p[d] \in DOMAIN ds.chunks[d]}

ChunkBound(ds, d, i) ==
  IF ds.cftime[d] THEN CftimeBound(ds.type[d], ds.units[d], ds.chunks[d][i])
  ELSE CoordinateBound(ds.type[d], ds.chunks[d][i])

BlockMetadata(ds, p) == [d \in Dims |-> ChunkBound(ds, d, p[d])]

\* The rows of the first i dimensions, for each i.
NumRows(ds, p) ==
  LET rows[i \in 0 .. Len(DimOrder)] ==
    IF i = 0 THEN 1 ELSE rows[i - 1] * Len(ds.chunks[DimOrder[i]][p[DimOrder[i]]])
  IN  rows[Len(DimOrder)]

\* Partitions come in the order of itertools.product: the last dimension first.
Before(p, q) ==
  \E i \in DOMAIN DimOrder :
    /\ p[DimOrder[i]] < q[DimOrder[i]]
    /\ \A j \in 1 .. i - 1 : p[DimOrder[j]] = q[DimOrder[j]]

Bounded(ranges_, p) == {d \in Dims : ranges_[p][d] # NoRange}

\* The dimensions of the first partition that has bounds stand for all.
DimensionColumns(ranges_) ==
  LET some == {p \in DOMAIN ranges_ : Bounded(ranges_, p) # {}}
  IN  IF some = {} THEN {}
      ELSE Bounded(ranges_, CHOOSE p \in some : \A q \in some \ {p} : Before(p, q))

Init ==
  /\ dataset \in Datasets
  /\ ranges = [p \in Partitions(dataset) |-> BlockMetadata(dataset, p)]
  /\ dimension_columns = DimensionColumns(ranges)
  /\ plan = NoPlan

(********************************* Filters ***********************************)
\* The column behind an expression that keeps its order. Each cast is tested
\* against the type of the column.
PruningColumn(col) ==
  /\ col.column \in dimension_columns
  /\ \A i \in DOMAIN col.casts : OrderPreserving(dataset.type[col.column], col.casts[i].to)

\* The bounds a filter on this expression may use in a partition.
Usable(col, p) == PruningColumn(col) /\ ranges[p][col.column] # NoRange

\* A Boolean column as a filter.
IsBare(f, i, p) == f[i].node = "column" /\ Usable(f[i].col, p)

\* Whether the node i of a filter excludes a partition, given those before it.
NodeExcludes(f, p, excludes, i) ==
  LET range(j) == ranges[p][f[j].col.column]
  IN  CASE f[i].node = "column" -> IsBare(f, i, p) /\ BooleanExcludes(range(i), TRUE)
        [] f[i].node = "is" ->
             /\ IsBare(f, Right(i), p)
             /\ BooleanExcludes(range(Right(i)), f[i].test \in {"true", "not false"})
        [] f[i].node = "not" -> IsBare(f, Right(i), p) /\ BooleanExcludes(range(Right(i)), FALSE)
        [] f[i].node = "and" -> excludes[Left(f, i)] \/ excludes[Right(i)]
        [] f[i].node = "or" -> excludes[Left(f, i)] /\ excludes[Right(i)]
        [] f[i].node = "comparison" ->
             /\ Usable(f[i].col, p)
             /\ ComparisonExcludes(range(i), IF f[i].flipped THEN Flip(f[i].op) ELSE f[i].op, f[i].lit)
        [] f[i].node = "between" ->
             ~f[i].negated /\ Usable(f[i].col, p) /\ BetweenExcludes(range(i), f[i].low, f[i].high)
        [] f[i].node = "in" ->
             ~f[i].negated /\ Usable(f[i].col, p) /\ InListExcludes(range(i), f[i].list)

Excludes(f, p) ==
  LET excludes[i \in DOMAIN f] == NodeExcludes(f, p, excludes, i) IN excludes[Len(f)]

\* Mutant: a conjunction is taken only if both of its sides are.
NodeIsTakenBoth(f, taken, i) ==
  CASE f[i].node \in {"and", "or"} -> taken[Left(f, i)] /\ taken[Right(i)]
    [] f[i].node = "not" -> taken[Right(i)]
    [] f[i].node = "is" -> f[Right(i)].node = "column" /\ PruningColumn(f[Right(i)].col)
    [] OTHER -> PruningColumn(f[i].col)

NodeIsTaken(f, taken, i) ==
  CASE f[i].node \in {"and", "or"} -> taken[Left(f, i)] \/ taken[Right(i)]
    [] f[i].node = "not" -> taken[Right(i)]
    [] f[i].node = "is" -> f[Right(i)].node = "column" /\ PruningColumn(f[Right(i)].col)
    [] OTHER -> PruningColumn(f[i].col)

\* The filters that supports_filters_pushdown takes (as Inexact).
IsDimensionFilter(f) ==
  LET taken[i \in DOMAIN f] == NodeIsTaken(f, taken, i) IN taken[Len(f)]

PrunePartitions(filters) == {p \in DOMAIN ranges : ~\E f \in filters : Excludes(f, p)}

(******************************** Statistics *********************************)
\* Mutant: partitions without bounds are passed over.
FoldBoundsOfSome(included, d) ==
  LET bounded == {p \in included : ranges[p][d] # NoRange}
  IN  IF bounded = {} THEN NoRange
      ELSE [type |-> ranges[CHOOSE p \in bounded : TRUE][d].type,
            min |-> Min({ranges[p][d].min : p \in bounded}),
            max |-> Max({ranges[p][d].max : p \in bounded})]

\* min and max of a column over the partitions of a scan, if all have bounds.
FoldBounds(included, d) ==
  IF included = {} \/ \E p \in included : ranges[p][d] = NoRange THEN NoRange
  ELSE LET some == CHOOSE p \in included : TRUE
       IN  [type |-> ranges[some][d].type,
            min |-> Min({ranges[p][d].min : p \in included}),
            max |-> Max({ranges[p][d].max : p \in included})]

\* A bound in nanoseconds is given in the unit of the column.
BoundInType(range, type) ==
  IF range = NoRange \/ range.type = type THEN range
  ELSE [type |-> type,
        min |-> (range.min * range.type.size) \div type.size,
        max |-> (range.max * range.type.size) \div type.size]

Statistics(included, columns) ==
  [rows |-> SumFunction([p \in included |-> NumRows(dataset, p)]),
   bounds |-> [d \in columns \cap Dims |-> BoundInType(FoldBounds(included, d), dataset.type[d])]]

(*********************************** Scan ************************************)
\* The projection goes to Python when it asks for more than dimensions.
PushProjection(columns) == columns # {} /\ ~(columns \subseteq dimension_columns)

\* The engine offers the filters of a query, passes those the table takes, and
\* applies all of them to the rows it gets.
Plan(query, columns) ==
  LET filters == {f \in ToSet(query) : IsDimensionFilter(f)}
      included == PrunePartitions(filters)
  IN  [query |-> query, filters |-> filters, included |-> included,
       columns |-> columns, pushed |-> PushProjection(columns),
       statistics |-> Statistics(included, columns)]

Scan(query, columns) ==
  /\ plan' = Plan(query, columns)
  /\ UNCHANGED <<dataset, ranges, dimension_columns>>

\* The plan has run, or was dropped; the table stays.
Done == plan # NoPlan /\ plan' = NoPlan /\ UNCHANGED <<dataset, ranges, dimension_columns>>

Next ==
  \/ plan = NoPlan /\ \E query \in Queries(dataset), columns \in Projections : Scan(query, columns)
  \/ Done

Spec == Init /\ [][Next]_vars

(****************************** What rows say *********************************)
\* The rows of a partition, with any values of the data variable.
Rows(p) ==
  {row \in [Columns -> DataValues \union UNION {ToSet(dataset.chunks[d][p[d]]) : d \in Dims}] :
     /\ row[DataVar] \in DataValues
     /\ \A d \in Dims : row[d] \in ToSet(dataset.chunks[d][p[d]])}

\* The type and the value of a column under its casts, the innermost first.
CastFrom(at, cast) == [type |-> cast.to, value |-> CastValue(at.type, cast, at.value)]

OnRow(col, row) ==
  LET under[n \in 0 .. Len(col.casts)] ==
    IF n = 0 THEN [type |-> dataset.type[col.column], value |-> row[col.column]]
    ELSE CastFrom(under[n - 1], col.casts[n])
  IN  under[Len(col.casts)]

Is(test, t) ==
  IF t = "error" THEN t
  ELSE Truth(CASE test = "true" -> t = "true"   [] test = "not true" -> t # "true"
               [] test = "false" -> t = "false" [] OTHER -> t # "false")

\* A test of a column on one row.
Test(test, row) ==
  LET x == OnRow(test.col, row)
      t == CASE test.node = "column" -> BooleanOnRow(x.value)
             [] test.node = "comparison" ->
                  ComparisonOnRow(x.type, IF test.flipped THEN Flip(test.op) ELSE test.op, x.value, test.lit)
             [] test.node = "between" -> BetweenOnRow(x.type, x.value, test.low, test.high)
             [] test.node = "in" -> InListOnRow(x.type, x.value, test.list)
  IN  IF test.node \in {"between", "in"} /\ test.negated THEN Negation(t) ELSE t

NodeValue(f, row, value, i) ==
  CASE f[i].node = "is" -> Is(f[i].test, value[Right(i)])
    [] f[i].node = "not" -> Negation(value[Right(i)])
    [] f[i].node = "and" -> And(value[Left(f, i)], value[Right(i)])
    [] f[i].node = "or" -> Or(value[Left(f, i)], value[Right(i)])
    [] OTHER -> Test(f[i], row)

Evaluate(f, row) ==
  LET value[i \in DOMAIN f] == NodeValue(f, row, value, i) IN value[Len(f)]

(******************************** Properties *********************************)
\* The bounds of a partition are a range of the column's kind, and a plan is one
\* of the registered table.
TypeOK ==
  /\ dataset \in Datasets
  /\ dimension_columns \subseteq Dims
  /\ \A p \in Partitions(dataset), d \in Dims :
       ranges[p][d] # NoRange => /\ ranges[p][d].type.kind = dataset.type[d].kind
                                /\ ranges[p][d].min <= ranges[p][d].max
  /\ plan # NoPlan => /\ plan.included \subseteq Partitions(dataset)
                      /\ plan.columns \in Projections
                      /\ plan.pushed \in BOOLEAN

\* A dimension whose bounds are not in the units of its column: its dates are of
\* a calendar that is not Gregorian, and encoded in other units than the default.
OtherUnits(ds, column) ==
  column \in Dims /\ ds.cftime[column] /\ ds.type[column].kind = "int" /\ ds.units[column] # DefaultUnits

\* A filter that tests such a dimension.
Misread(f) ==
  \E i \in DOMAIN f :
    f[i].node \notin {"and", "or", "not", "is"} /\ OtherUnits(dataset, f[i].col.column)

\* A partition that prune_partitions drops has no row on which the filter is
\* true, and none on which it is NULL or raises: reading the partition would
\* have changed neither the rows of the query nor its error. This is said of
\* the filters that test no dimension in OtherUnits; a partition one of those
\* drops may be lost (see MatchingRowsAreRead).
DroppedRowsAreFalse ==
  plan # NoPlan =>
    \A p \in Partitions(dataset) \ plan.included :
      \E i \in DOMAIN plan.query :
        \/ \A row \in Rows(p) : Evaluate(plan.query[i], row) = "false"
        \/ Misread(plan.query[i]) /\ Excludes(plan.query[i], p)

\* What lib.rs says of partition pruning: SQL filters on dimension columns prune
\* partitions that can't contain matching rows. The code breaks it for the
\* dimensions in OtherUnits.
MatchingRowsAreRead ==
  plan # NoPlan =>
    \A p \in Partitions(dataset) \ plan.included : \A row \in Rows(p) :
      \E i \in DOMAIN plan.query : Evaluate(plan.query[i], row) # "true"

\* supports_filters_pushdown takes every filter that could drop a partition:
\* the recursion of is_dimension_filter misses no case of the exclusion's.
NoFilterIsLost ==
  plan # NoPlan =>
    \A i \in DOMAIN plan.query, p \in Partitions(dataset) :
      Excludes(plan.query[i], p) => p \notin plan.included

\* build_scan_statistics reports as exact what a scan without filters on rows
\* returns: the number of rows; for a dimension with bounds, no NULL and no NaN
\* in it, no value outside of them, and both ends attained. (A partition
\* without rows may widen the bounds.) The bounds of a dimension in OtherUnits
\* are reported as exact too, and say nothing of its column.
StatisticsAreExact ==
  plan # NoPlan =>
    LET coords(p) == {row \in Rows(p) : row[DataVar] = CHOOSE v \in DataValues : TRUE}
        values(d) == UNION {{row[d] : row \in Rows(p)} : p \in plan.included}
        stats == plan.statistics
    IN  /\ (\A p \in plan.included, d \in Dims : IsInjective(dataset.chunks[d][p[d]])) =>
             stats.rows = SumFunction([p \in plan.included |-> Cardinality(coords(p))])
        /\ \A d \in DOMAIN stats.bounds :
             stats.bounds[d] # NoRange /\ ~OtherUnits(dataset, d) =>
               /\ \A v \in values(d) : v \in stats.bounds[d].min .. stats.bounds[d].max
               /\ (\A p \in plan.included : Rows(p) # {}) =>
                    {stats.bounds[d].min, stats.bounds[d].max} \subseteq values(d)
=============================================================================
