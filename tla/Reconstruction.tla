---------------------------- MODULE Reconstruction ----------------------------
(* How the rows of a result become the cells of an array                      *)
(* (src/xarray_sql/ds.py): dimensions, coordinates, the placement of rows by  *)
(* their coordinates, the window an index reads, and what a template restores.*)
(*                                                                            *)
(* A row is a function of columns. A coordinate array is a sequence of        *)
(* numbers, of a kind: "f" for numbers and times, "e" for a dtype pandas      *)
(* cannot index, "O" for objects. An array is a function of cells, and a cell *)
(* one of dimensions to positions from one. An index of a dimension is an     *)
(* integer, a slice or an array of positions from zero.                       *)
EXTENDS Integers, Sequences, FiniteSets, SequencesExt, FiniteSetsExt, Functions, TLC

CONSTANTS
  NaN, Undefined,   \* what an unfilled cell of floats and of integers holds
  NoTable,
  AutoTarget        \* the chunk manager's target, in bytes

Cells(shape) ==
  {c \in [DOMAIN shape -> 1 .. Max({0} \cup Range(shape))] : \A d \in DOMAIN shape : c[d] <= shape[d]}
Shape(coords) == [d \in DOMAIN coords |-> Len(coords[d])]
Product(numbers) == FoldLeft(LAMBDA a, b : a * b, 1, numbers)
Unique(seq) == FoldLeft(LAMBDA acc, v : IF Contains(acc, v) THEN acc ELSE Append(acc, v), << >>, seq)
Sorted(values) == SetToSortSeq(values, <)
PositionIn(seq, v) == CHOOSE i \in DOMAIN seq : seq[i] = v /\ \A j \in 1 .. i - 1 : seq[j] # v

(***************************** Dimensions, chunks ****************************)
\* The dimensions of a template among the columns of a result, in the order of
\* the variables the result carries.
ResultDims(template, columns) ==
  LET carried == SelectSeq(template.vars, LAMBDA v : v.name \in columns)
      chosen  == IF carried # << >> THEN carried ELSE template.vars
      order   == Unique(FlattenSeq([i \in DOMAIN chosen |-> chosen[i].dims]))
  IN  SelectSeq(IF order # << >> THEN order ELSE template.dims, LAMBDA d : d \in columns)

\* "inherit": the first chunk length of each dimension that has several.
Inherited(template, dims) ==
  [d \in {e \in ToSet(dims) \cap DOMAIN template.chunksizes : Len(template.chunksizes[e]) > 1} |->
     template.chunksizes[d][1]]

\* "auto": as many blocks of the source as approach the target are merged,
\* along the dimension with the most chunks. Cells are a byte each.
AutoChunks(template, dims) ==
  LET chunked == Inherited(template, dims)
      block   == Product([i \in DOMAIN dims |-> IF dims[i] \in DOMAIN template.chunksizes
                                                THEN template.chunksizes[dims[i]][1] ELSE 1])
      merge   == Max({1, AutoTarget \div Max({block, 1})})
      most    == Max({Len(template.chunksizes[d]) : d \in DOMAIN chunked})
      primary == SelectSeq(dims, LAMBDA d : d \in DOMAIN chunked
                                            /\ Len(template.chunksizes[d]) = most)[1]
  IN  IF DOMAIN chunked = {} THEN chunked
      ELSE [d \in DOMAIN chunked |-> chunked[d] * (IF d = primary THEN merge ELSE 1)]

(****************************** Pure scans ***********************************)
PureScanNodes == {"Projection", "Sort", "TableScan", "SubqueryAlias"}

\* The one table of a plan of such nodes.
UnfilteredScanTable(nodes) ==
  LET tables == {n.table : n \in {m \in nodes : m.variant = "TableScan"}}
  IN  IF (\A n \in nodes : n.variant \in PureScanNodes) /\ Cardinality(tables) = 1
      THEN CHOOSE t \in tables : TRUE ELSE NoTable

(************************** Positions of coordinates *************************)
\* numpy's rint of a / b: halves go to the even integer.
Rint(a, b) ==
  LET n == IF b < 0 THEN -a ELSE a
      m == IF b < 0 THEN -b ELSE b
      q == (2 * n + m) \div (2 * m)
  IN  IF (2 * n + m) % (2 * m) = 0 /\ q % 2 = 1 THEN q - 1 ELSE q

Abs(n) == IF n < 0 THEN -n ELSE n
Span(axis) == Last(axis) - axis[1]

\* Uniform to a quarter of a step.
AffineAxis(axis, kind) ==
  /\ kind # "O" /\ Len(axis) >= 2 /\ Span(axis) # 0
  /\ \A i \in DOMAIN axis :
       4 * Abs((Len(axis) - 1) * (axis[i] - axis[1]) - (i - 1) * Span(axis)) <= Abs(Span(axis))

\* numpy's indexing: negative positions count from the end, others raise.
Wrapped(p, n) == {IF p < 0 THEN p + n + 1 ELSE p + 1 : q \in {p} \cap (-n .. n - 1)}

\* _CoordLookup: the position of a value, none if the lookup or the indexing
\* raises. Which of equal values a sort puts first is open: tie.
PositionsFor(axis, kind, value, tie) ==
  IF AffineAxis(axis, kind)
  THEN Wrapped(Rint((value - axis[1]) * (Len(axis) - 1), Span(axis)), Len(axis))
  ELSE IF IsInjective(axis) /\ kind # "e" THEN {i \in DOMAIN axis : axis[i] = value}
  ELSE LET above == {axis[i] : i \in DOMAIN axis} \cap {v \in Range(axis) : v >= value}
           held  == {i \in DOMAIN axis : above # {} /\ axis[i] = Min(above)}
       IN  IF held = {} THEN {} ELSE {IF tie THEN Max(held) ELSE Min(held)}

Raised == [ok |-> FALSE, data |-> << >>]

\* One row written, at a position found along each axis.
Write(out, value, places) ==
  IF ~out.ok \/ \E d \in DOMAIN places : places[d] = {} THEN Raised
  ELSE [out EXCEPT !.data[[d \in DOMAIN places |-> CHOOSE p \in places[d] : TRUE]] = value]

\* Rows written one after another into an unfilled array.
Scatter(rows, axes, kinds, var, blank, tie) ==
  FoldLeft(LAMBDA out, r :
      Write(out, r[var], [d \in DOMAIN axes |-> PositionsFor(axes[d], kinds[d], r[d], tie)]),
    [ok |-> TRUE, data |-> [c \in Cells(Shape(axes)) |-> blank]], rows)

(********************************** Windows **********************************)
At(i) == [kind |-> "int", at |-> <<i>>]
Slice(start, stop, step) == [kind |-> "slice", start |-> start, stop |-> stop, step |-> step]
Array(positions) == [kind |-> "array", at |-> positions]

\* The positions an index selects of n, in order.
Positions(k, n) ==
  IF k.kind # "slice" THEN k.at
  ELSE LET stop == IF k.stop > n THEN n ELSE k.stop
           length == IF stop > k.start THEN (stop - k.start + k.step - 1) \div k.step ELSE 0
       IN  [i \in 1 .. length |-> k.start + (i - 1) * k.step]

Full(k, n) ==
  CASE k.kind = "slice" -> k.start = 0 /\ k.stop >= n /\ k.step = 1
    [] k.kind = "array" -> k.at = [i \in 1 .. n |-> i - 1]
    [] OTHER -> FALSE

Contiguous(k) ==
  CASE k.kind = "slice" -> k.step = 1
    [] k.kind = "array" -> Len(k.at) > 1 /\ \A i \in 1 .. Len(k.at) - 1 : k.at[i + 1] - k.at[i] = 1
    [] OTHER -> FALSE

StrictlyMonotonic(coord) ==
  \/ \A i \in 1 .. Len(coord) - 1 : coord[i] < coord[i + 1]
  \/ \A i \in 1 .. Len(coord) - 1 : coord[i] > coord[i + 1]

\* Mutant: a window of neighbours is a range in any order of the coordinates.
DimSpecOfNeighbours(vals, contiguous, monotonic, value) ==
  IF contiguous /\ Len(vals) > 1
  THEN Min(ToSet(vals)) <= value /\ value <= Max(ToSet(vals))
  ELSE value \in ToSet(vals)

\* Whether a window's range, or its list of values, lets a value through.
DimSpec(vals, contiguous, monotonic, value) ==
  IF contiguous /\ monotonic /\ Len(vals) > 1
  THEN Min(ToSet(vals)) <= value /\ value <= Max(ToSet(vals))
  ELSE value \in ToSet(vals)

Requested(coords, key) ==
  [d \in DOMAIN coords |->
     LET at == Positions(key[d], Len(coords[d])) IN [i \in DOMAIN at |-> coords[d][at[i] + 1]]]

\* The rows an engine returns of a window.
Fetch(rows, coords, requested, key) ==
  LET narrowed == {d \in DOMAIN coords : ~Full(key[d], Len(coords[d]))}
  IN  SelectSeq(rows, LAMBDA r :
        \A d \in narrowed : DimSpec(requested[d], Contiguous(key[d]), StrictlyMonotonic(coords[d]), r[d]))

\* Nothing is fetched for a window without cells.
FetchWindow(rows, coords, requested, kinds, var, blank, key, tie) ==
  IF \E d \in DOMAIN coords : requested[d] = << >> THEN [ok |-> TRUE, data |-> << >>]
  ELSE Scatter(Fetch(rows, coords, requested, key), requested, kinds, var, blank, tie)

RawGetitem(rows, coords, kinds, var, blank, key, tie) ==
  FetchWindow(rows, coords, Requested(coords, key), kinds, var, blank, key, tie)

\* xarray hands a backend integers, slices and arrays that do not decrease; it
\* sorts other arrays without repeats and gathers from what is read.
NonDecreasing(at) == \A i \in 1 .. Len(at) - 1 : at[i] <= at[i + 1]
BackendKey(k) ==
  IF k.kind = "array" /\ ~NonDecreasing(k.at) THEN Array(Sorted(ToSet(k.at))) ELSE k
Gather(k, n) ==
  IF BackendKey(k) = k THEN [j \in DOMAIN Positions(k, n) |-> j]
  ELSE [j \in DOMAIN k.at |-> PositionIn(BackendKey(k).at, k.at[j])]

Repeats(k) == k.kind = "array" /\ NonDecreasing(k.at) /\ ~IsInjective(k.at)

Gathered(read, gather) ==
  IF ~read.ok THEN Raised
  ELSE [ok |-> TRUE, data |-> [c \in Cells([d \in DOMAIN gather |-> Len(gather[d])]) |->
                                 read.data[[d \in DOMAIN gather |-> gather[d][c[d]]]]]]

\* A key of a variable that is indexed lazily. The window's cells are those of
\* the key's positions.
GetItem(rows, coords, kinds, var, blank, key, tie) ==
  Gathered(RawGetitem(rows, coords, kinds, var, blank, [d \in DOMAIN key |-> BackendKey(key[d])], tie),
           [d \in DOMAIN key |-> Gather(key[d], Len(coords[d]))])

(****************************** Eager results ********************************)
\* The cell of row i of a grid in C order.
CellAt(i, dims, shape) ==
  [d \in ToSet(dims) |->
     LET k == PositionIn(dims, d)
         inner == Product([j \in 1 .. Len(dims) - k |-> shape[dims[k + j]]])
     IN  (((i - 1) \div inner) % shape[d]) + 1]

\* Mutant: as many rows as cells are the grid.
COrderGridByCount(rows, coords, dims) ==
  rows # << >> /\ Len(rows) = Product([k \in DOMAIN dims |-> Len(coords[dims[k]])])

COrderGrid(rows, coords, dims) ==
  /\ rows # << >> /\ Len(rows) = Product([k \in DOMAIN dims |-> Len(coords[dims[k]])])
  /\ \A i \in DOMAIN rows : \A d \in ToSet(dims) :
       rows[i][d] = coords[d][CellAt(i, dims, Shape(coords))[d]]

\* Coordinates in the order they appear, and the rows reshaped or scattered.
AppearingCoords(rows, dims) ==
  [d \in ToSet(dims) |-> Unique([i \in DOMAIN rows |-> rows[i][d]])]

FromGrid(rows, coords, dims, var) ==
  LET cells == [i \in DOMAIN rows |-> CellAt(i, dims, Shape(coords))]
  IN  [c \in Cells(Shape(coords)) |-> rows[PositionIn(cells, c)][var]]

Placed(rows, coords, dims, kinds, var, blank, tie) ==
  IF COrderGrid(rows, coords, dims) THEN FromGrid(rows, coords, dims, var)
  ELSE Scatter(rows, coords, kinds, var, blank, tie).data

FromBatches(rows, dims, kinds, var, blank, tie) ==
  Placed(rows, AppearingCoords(rows, dims), dims, kinds, var, blank, tie)

(******************************** Templates **********************************)
Kind(dtype) == CASE dtype \in {"f4", "f8"} -> "f" [] OTHER -> dtype

\* What numpy's astype does: eight bits wrap, small floats round, and every
\* number but zero is true.
Cast(v, dtype) ==
  IF v \in {NaN, Undefined} THEN v
  ELSE CASE dtype = "b" -> IF v = 0 THEN 0 ELSE 1
         [] dtype = "u" -> v % 256
         [] dtype = "i" -> ((v + 128) % 256) - 128
         [] dtype = "f4" -> IF v < 4 THEN v ELSE v - (v % 2)
         [] OTHER -> v

Narrowings == {<<"i", "b">>, <<"u", "b">>, <<"i", "u">>, <<"f", "f">>}

\* Whether an array of a dtype in memory is cast to the template's.
Restores(data, dtype, dims, template_dtype, template_dims) ==
  /\ dtype # template_dtype
  /\ ToSet(dims) = ToSet(template_dims)
  /\ <<Kind(dtype), Kind(template_dtype)>> \in Narrowings
  /\ LET numbers == Range(data) \ {NaN, Undefined}
     IN  /\ Kind(template_dtype) = "u" => \A v \in numbers : v >= 0
         /\ \A v \in numbers : Cast(Cast(v, template_dtype), dtype) = v

\* Databases hand durations back as text or as intervals; one of calendar
\* months has no fixed length, and stays.
AsDtype(rep) == IF rep = "months" THEN rep ELSE "plain"

\* Whether the template has every label of a dimension.
HasLabels(template, coords, reps, d) ==
  AsDtype(reps[d]) = "plain" /\ ToSet(coords[d]) \subseteq ToSet(template.coords[d])

\* sel looks up one dimension after another, up to one that lacks a label. A
\* template that repeats a label raises an error that is not caught.
ReattachRaises(template, coords, reps) ==
  \E a \in template.aux : \E k \in DOMAIN a.dims :
    /\ ToSet(a.dims) \subseteq DOMAIN coords
    /\ ~IsInjective(template.coords[a.dims[k]])
    /\ \A j \in 1 .. k - 1 : HasLabels(template, coords, reps, a.dims[j])

\* The coordinates of a template that are no dimensions, by the labels of the
\* result. One that lacks a label is skipped.
Reattached(template, coords, reps) ==
  [a \in {b \in template.aux : /\ ToSet(b.dims) \subseteq DOMAIN coords
                               /\ \A d \in ToSet(b.dims) : HasLabels(template, coords, reps, d)} |->
     [c \in Cells(Shape(Restrict(coords, ToSet(a.dims)))) |->
        a.values[[d \in ToSet(a.dims) |-> PositionIn(template.coords[d], coords[d][c[d]])]]]]
=============================================================================
