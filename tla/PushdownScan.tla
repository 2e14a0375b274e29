----------------------------- MODULE PushdownScan -----------------------------
(* The scans of XarrayPushdownDataset (src/xarray_sql/backends/pyarrow.py):   *)
(* which chunks a filter leaves, how they are merged into blocks, and how     *)
(* count_rows proves, drops or scans them. Arrow decides whether a filter can *)
(* hold within ranges of the coordinates; that is a constant here.            *)
(*                                                                            *)
(* A dataset is one of ChunkGrid with two fields more: numeric, the dimensions*)
(* of a kind that is pruned on, and values, those of the data variable by     *)
(* cell. A range is a pair; ranges give some dimensions one each.             *)
EXTENDS ChunkGrid

CONSTANTS
  Datasets,
  Filters,              \* that an engine may push down
  Value(_, _),          \* of a filter on a row: "true", "false" or "null"
  Satisfiable(_, _),    \* of a filter within ranges, as Arrow simplifies it
  Negated(_),           \* ~filter
  Rejects(_),           \* a filter whose shape the simplifier raises on
  Refers(_),            \* the columns of a filter
  NoFilter, NoQuery,
  NaN, Null,            \* missing coordinates, of floats and of times
  CoalesceRows,         \* the coalesce_rows tried, 0 for none
  ShadowFanout,         \* _SHADOW_FANOUT
  RefineNum, RefineDen, \* _REFINE_MAX_FRACTION
  StrictLevelBudget, StrictMaxDepth

ASSUME FanoutAssumption == ShadowFanout \in Nat \ {0} /\ CoalesceRows \subseteq Nat

\* Coordinates are numbers, or missing.
ASSUME TablesAssumption ==
  /\ NaN \notin Int /\ Null \notin Int
  /\ \A ds \in Datasets :
       /\ IsGrid(ds) /\ DOMAIN ds.coords = DimsOf(ds) /\ DataVar \notin DimsOf(ds)
       /\ \A d \in DimsOf(ds) : ds.coords[d] \in Seq(Int \cup {NaN, Null}) /\ Len(ds.coords[d]) = ds.size[d]

\* The row of a cell of the grid.
Row(ds, cell) ==
  [c \in DimsOf(ds) \union {DataVar} |->
     IF c = DataVar THEN ds.values[cell] ELSE ds.coords[c][cell[c] + 1]]

\* Ranges that a row is in: from one coordinate to another, for some of the
\* dimensions that are pruned on and in which the row is not missing.
Around(ds, row) ==
  LET present == {d \in DimsOf(ds) \cap ds.numeric : row[d] \in Int}
      ends == UNION {ToSet(ds.coords[d]) \cap Int : d \in present}
  IN  UNION {{r \in [D -> ends \X ends] : \A d \in D : r[d][1] <= row[d] /\ row[d] <= r[d][2]} :
               D \in SUBSET present}

\* The simplifier never says of a filter that holds on a row that it cannot hold
\* within ranges that row is in; and if the filter can hold there and its negation
\* cannot, then the filter holds on the row.
ASSUME SimplifierAssumption ==
  \A ds \in Datasets : \A cell \in ToSet(Ravel(ds, WholeGrid(ds), ds.dims)) :
    LET row == Row(ds, cell)
        around == Around(ds, row)
    IN  \A f \in Filters : Refers(f) \subseteq Columns(ds) /\ ~Rejects(f) =>
          \A r \in around :
            /\ Value(f, row) = "true" => Satisfiable(f, r)
            /\ Satisfiable(f, r) /\ ~Satisfiable(Negated(f), r) => Value(f, row) = "true"

VARIABLES
  dataset, coalesce_rows,
  resolved,      \* chunk sizes by dimension
  chunk_bounds,
  fine,    \* _DimShadow._fine of the dimensions: ranges by dimension and bucket
  spans,   \* _span_cache
  query    \* under way

table == <<dataset, coalesce_rows, resolved, chunk_bounds>>
vars == <<table, fine, spans, query>>

GridDims == Only(dataset.dims, DOMAIN resolved)
N(d) == Len(resolved[d])
Bounds(d) == chunk_bounds[d]

\* The coordinates of the chunks from + 1 .. to of a dimension.
Coords(d, from, to) == SubSeq(dataset.coords[d], Bounds(d)[from + 1] + 1, Bounds(d)[to + 1])

Init ==
  /\ dataset \in Datasets
  /\ coalesce_rows \in CoalesceRows
  /\ resolved = ResolveChunks(dataset, NoChunks)
  /\ chunk_bounds = [d \in DOMAIN resolved |-> ChunkBounds(resolved[d])]
  /\ fine = << >> /\ spans = << >>
  /\ query = NoQuery

(********************************** Shadows **********************************)
PrunableDims == {d \in DOMAIN resolved : d \in dataset.numeric}

\* min and max of a dimension over chunks; none if a value is missing.
Guarantee(d, from, to) ==
  LET vals == ToSet(Coords(d, from, to))
  IN  IF {NaN, Null} \cap vals # {} THEN << >> ELSE [e \in {d} |-> <<Min(vals), Max(vals)>>]

Step(d) == Largest(1, CeilDiv(N(d), ShadowFanout))
Buckets(d) == CeilDiv(N(d), Step(d))
Start(d, b) == (b - 1) * Step(d)
Stop(d, b) == Smallest(b * Step(d), N(d))

\* The chunks, numbered from one, and those of a bucket.
Chunks(d) == [i \in 1 .. N(d) |-> i]
ChunksOf(d, b) == Start(d, b) + 1 .. Stop(d, b)

CoarseBuckets(d, f) ==
  {b \in 1 .. Buckets(d) : Satisfiable(f, Guarantee(d, Start(d, b), Stop(d, b)))}

\* Whether the buckets kept are refined.
Refines(d, buckets) ==
  Step(d) > 1 /\ Cardinality(buckets) * RefineDen <= RefineNum * Buckets(d)

FineShadow(d, b) == [i \in 1 .. Stop(d, b) - Start(d, b) |->
                       Guarantee(d, Start(d, b) + i - 1, Start(d, b) + i)]

Needed(f) ==
  UNION {{d} \X CoarseBuckets(d, f) : d \in {e \in PrunableDims : Refines(e, CoarseBuckets(e, f))}}

\* min raises ValueError on no values, in a bucket or in a chunk of a fine
\* shadow, and nothing catches it.
ShadowsRaise(f) ==
  \/ \E d \in PrunableDims : \E b \in 1 .. Buckets(d) : Coords(d, Start(d, b), Stop(d, b)) = << >>
  \/ ~Rejects(f) /\ \E key \in Needed(f) :
       \E i \in ChunksOf(key[1], key[2]) : Coords(key[1], i - 1, i) = << >>

\* Mutant: every fine shadow is that of the first bucket.
RefinedAsFirst(f) == Extended(fine, [key \in Needed(f) |-> FineShadow(key[1], 1)])

\* The fine shadows there are once a filter has been asked for.
Refined(f) == IF Rejects(f) THEN fine
              ELSE Extended(fine, [key \in Needed(f) |-> FineShadow(key[1], key[2])])

\* The chunks of a bucket that its fine shadow leaves.
FineChunks(d, f, b, shadow) == {i \in ChunksOf(d, b) : Satisfiable(f, shadow[i - Start(d, b)])}

\* _DimShadow.kept: chunks in order, all of them for None.
KeptChunks(d, f, shadows) ==
  LET buckets == CoarseBuckets(d, f)
  IN  Only(Chunks(d),
           UNION {IF Refines(d, buckets) THEN FineChunks(d, f, b, shadows[<<d, b>>]) ELSE ChunksOf(d, b) :
                    b \in buckets})

\* _prune: the chunks that survive, by dimension.
Prune(f, shadows) ==
  [d \in DOMAIN resolved |->
     IF f = NoFilter \/ d \notin PrunableDims \/ Rejects(f) THEN Chunks(d)
     ELSE KeptChunks(d, f, shadows)]

(*********************************** Blocks **********************************)
\* A combination picks a chunk of each dimension of the grid.
Combos(kept) == Combinations(GridDims, kept)

BlockForCombo(combo) ==
  [d \in DimsOf(dataset) |-> IF d \in DOMAIN combo THEN <<Bounds(d)[combo[d]], Bounds(d)[combo[d] + 1]>>
                           ELSE Full]

BlocksOf(combos) == [i \in DOMAIN combos |-> BlockForCombo(combos[i])]

\* The rows of a number of positions for some dimensions of the grid, with those
\* of the dimensions outside of it.
RowsOf(positions) ==
  Product([k \in DOMAIN dataset.dims |->
             LET d == dataset.dims[k]
             IN  IF d \in DOMAIN positions THEN positions[d]
                 ELSE IF d \in DOMAIN resolved THEN 1 ELSE dataset.size[d]])

RowsOfCombo(combo) == RowsOf([d \in DOMAIN combo |-> resolved[d][combo[d]]])

\* The dimension with most chunks, the first of them.
MergeDim ==
  FoldLeft(LAMBDA best, d : IF N(d) > N(best) THEN d ELSE best, GridDims[1], GridDims)

\* Mutant: a run goes on across chunks that were pruned.
RunsAcrossGaps(chunks, per_row) ==
  FoldLeft(LAMBDA acc, i :
      LET rows == resolved[MergeDim][i] * per_row
      IN  IF acc.runs # << >> /\ acc.rows + rows <= coalesce_rows
          THEN [runs |-> [acc.runs EXCEPT ![Len(acc.runs)] = Append(@, i)], rows |-> acc.rows + rows]
          ELSE [runs |-> Append(acc.runs, <<i>>), rows |-> rows],
    [runs |-> << >>, rows |-> 0], chunks).runs

\* Runs of consecutive chunks, of at most coalesce_rows rows if more than one.
Runs(chunks, per_row) ==
  FoldLeft(LAMBDA acc, i :
      LET rows == resolved[MergeDim][i] * per_row
      IN  IF /\ acc.runs # << >>
             /\ i = Last(Last(acc.runs)) + 1
             /\ acc.rows + rows <= coalesce_rows
          THEN [runs |-> [acc.runs EXCEPT ![Len(acc.runs)] = Append(@, i)], rows |-> acc.rows + rows]
          ELSE [runs |-> Append(acc.runs, <<i>>), rows |-> rows],
    [runs |-> << >>, rows |-> 0], chunks).runs

CoalescedBlocks(kept) ==
  LET prefixes == Combos([kept EXCEPT ![MergeDim] = <<1>>])
      merged(prefix) ==
        LET others == Restrict(prefix, DOMAIN prefix \ {MergeDim})
            runs == Runs(kept[MergeDim], RowsOfCombo(others))
        IN  [r \in DOMAIN runs |->
               [BlockForCombo(prefix) EXCEPT
                  ![MergeDim] = <<Bounds(MergeDim)[Head(runs[r])], Bounds(MergeDim)[Last(runs[r]) + 1]>>]]
  IN  FlattenSeq([i \in DOMAIN prefixes |-> merged(prefixes[i])])

BlocksFor(kept) ==
  IF GridDims = << >> THEN << << >> >>
  ELSE IF coalesce_rows > 0 THEN CoalescedBlocks(kept) ELSE BlocksOf(Combos(kept))

ScanColumns(proj, f) == IF f = NoFilter THEN proj ELSE proj \union Refers(f)

(*********************************** Scans ***********************************)
Failed(f) == [kind |-> "ValueError", filter |-> f]

AskRaises(f) == f # NoFilter /\ ShadowsRaise(f)
Asked(f) == IF f = NoFilter THEN fine ELSE Refined(f)
Kept(f) == Prune(f, Asked(f))

\* A query asks the shadows first, whichever it is; raising leaves no query.
Ask(f, answered) ==
  /\ query' = IF AskRaises(f) THEN Failed(f) ELSE answered
  /\ fine' = IF AskRaises(f) THEN fine ELSE Asked(f)
  /\ UNCHANGED <<table, spans>>

\* scanner(): blocks to load, and the columns to load of them.
Scan(f) ==
  Ask(f, [kind |-> "scan", filter |-> f, kept |-> Kept(f), blocks |-> BlocksFor(Kept(f)),
          columns |-> ScanColumns({}, f)])

\* get_fragments(): a block each, never merged, and scanned with the filter.
GetFragments(f) ==
  Ask(f, [kind |-> "scan", filter |-> f, kept |-> Kept(f), columns |-> ScanColumns({}, f),
          blocks |-> IF GridDims = << >> THEN << << >> >> ELSE BlocksOf(Combos(Kept(f)))])

(********************************* Counting **********************************)
Cells(block) == Ravel(dataset, block, dataset.dims)
Holds(f, cell) == f = NoFilter \/ Value(f, Row(dataset, cell)) = "true"
CountTrue(f, block) == Cardinality({cell \in ToSet(Cells(block)) : Holds(f, cell)})
SumOf(numbers) == FoldLeft(LAMBDA a, b : a + b, 0, numbers)

Counting(f, kept, work) ==
  [kind |-> "count", filter |-> f, kept |-> kept, work |-> work, proven |-> 0,
   boundary |-> << >>, answered |-> FALSE, answer |-> 0]

Answer(rows) == [Counting(NoFilter, << >>, << >>) EXCEPT !.answered = TRUE, !.answer = rows]

\* count_rows() up to the first cell, the grid of the chunks that survive.
\* Without a filter the count is arithmetic, without dimensions a scan.
CountRows(f) ==
  IF dataset.dims = << >> THEN query' = [Answer(CountTrue(f, << >>)) EXCEPT !.filter = f]
                                /\ UNCHANGED <<table, fine, spans>>
  ELSE Ask(f,
         IF f = NoFilter THEN Answer(Product([i \in DOMAIN dataset.dims |-> dataset.size[dataset.dims[i]]]))
         ELSE Counting(f, Kept(f), IF \E d \in DOMAIN Kept(f) : Kept(f)[d] = << >> THEN << >>
                                   ELSE <<[chunks |-> Kept(f), depth |-> 0]>>))

\* How many buckets each dimension of a cell is cut into: the widest is halved
\* while there are too many products. Halving lessens the sum of the counts, so
\* that it ends within as many steps.
BucketCounts(chunks) ==
  LET lens == [d \in DOMAIN chunks |-> Len(chunks[d])]
      steps == SumOf([i \in DOMAIN GridDims |-> lens[GridDims[i]]])
      widest(ks) == FoldLeft(LAMBDA best, d : IF ks[d] > ks[best] THEN d ELSE best,
                             GridDims[1], GridDims)
      enough(ks) == \/ Product([i \in DOMAIN GridDims |-> ks[GridDims[i]]]) <= StrictLevelBudget
                    \/ ks[widest(ks)] = 1
      fewer(ks) == IF enough(ks) THEN ks ELSE [ks EXCEPT ![widest(ks)] = Largest(1, @ \div 2)]
      halved[n \in 0 .. steps] == IF n = 0 THEN lens ELSE fewer(halved[n - 1])
  IN  halved[steps]

\* np.array_split: the first parts are one longer.
ArraySplit(s, k) ==
  LET q == Len(s) \div k
      r == Len(s) % k
      from(i) == (i - 1) * q + Smallest(i - 1, r)
  IN  [i \in 1 .. k |-> SubSeq(s, from(i) + 1, from(i + 1))]

\* The values that reduceat reduces for a chunk: one without values gets the
\* value after it.
ReducedAt(d, i) ==
  IF Coords(d, i - 1, i) # << >> THEN Coords(d, i - 1, i) ELSE <<dataset.coords[d][Bounds(d)[i] + 1]>>

\* reduceat raises IndexError on a chunk without values at the end.
SpansRaise == \E d \in PrunableDims : Last(resolved[d]) = 0

\* lo, hi and whether a value is missing, of every chunk of a dimension.
ChunkSpans(d) ==
  [i \in 1 .. N(d) |->
     LET vals == ToSet(ReducedAt(d, i))
     IN  IF {NaN, Null} \cap vals # {} THEN [missing |-> TRUE, range |-> << >>]
         ELSE [missing |-> FALSE, range |-> <<Min(vals), Max(vals)>>]]

Unprovable(d, indices, cache) == \E i \in DOMAIN indices : cache[d][indices[i]].missing

BucketGuarantee(d, indices, cache) ==
  LET ranges == {cache[d][indices[i]].range : i \in DOMAIN indices}
  IN  <<Min({r[1] : r \in ranges}), Max({r[2] : r \in ranges})>>

\* What becomes of a product of buckets: "empty", "proven" or "mixed".
Verdict(f, cell, cache) ==
  LET usable == {d \in DOMAIN cell : d \in dataset.numeric}
      g == [d \in usable |-> BucketGuarantee(d, cell[d], cache)]
  IN  IF usable = {} \/ \E d \in usable : Unprovable(d, cell[d], cache) THEN "mixed"
      ELSE IF ~Satisfiable(f, g) THEN "empty"
      ELSE IF ~Satisfiable(Negated(f), g) THEN "proven" ELSE "mixed"

RowsOfCell(cell) == RowsOf([d \in DOMAIN cell |-> SumOf([i \in DOMAIN cell[d] |-> resolved[d][cell[d][i]]])])

\* The products of buckets of a cell.
Subcells(chunks) ==
  LET ks == BucketCounts(chunks) IN Combinations(GridDims, [d \in DOMAIN chunks |-> ArraySplit(chunks[d], ks[d])])

Single(cell) == \A d \in DOMAIN cell : Len(cell[d]) = 1

\* What becomes of a product that is mixed: "divided" into smaller ones, or its
\* chunks "scanned".
Fate(f, sub, depth, cache) ==
  LET verdict == Verdict(f, sub, cache)
  IN  IF verdict # "mixed" THEN verdict
      ELSE IF ~Single(sub) /\ depth < StrictMaxDepth THEN "divided" ELSE "scanned"

\* classify(): one cell; the cells it recurses into are left in work.
Classify ==
  /\ query # NoQuery /\ query.kind = "count" /\ query.work # << >>
  /\ ~Rejects(query.filter) /\ ~SpansRaise
  /\ spans' = Extended(spans, [d \in PrunableDims |-> ChunkSpans(d)])
  /\ LET cell == Head(query.work)
         subs == Subcells(cell.chunks)
         fates == [i \in DOMAIN subs |-> Fate(query.filter, subs[i], cell.depth, spans')]
         proven == [i \in DOMAIN subs |-> IF fates[i] = "proven" THEN RowsOfCell(subs[i]) ELSE 0]
         divided == [i \in DOMAIN subs |-> IF fates[i] # "divided" THEN << >>
                                           ELSE <<[chunks |-> subs[i], depth |-> cell.depth + 1]>>]
         scanned == [i \in DOMAIN subs |-> IF fates[i] = "scanned" THEN Combos(subs[i]) ELSE << >>]
     IN  query' = [query EXCEPT !.work = Tail(@) \o FlattenSeq(divided),
                                !.proven = @ + SumOf(proven),
                                !.boundary = @ \o FlattenSeq(scanned)]
  /\ UNCHANGED <<table, fine>>

\* Mutant: what was proven before the simplifier raised still counts.
ClassifyRaisesLate ==
  /\ query # NoQuery /\ query.kind = "count" /\ query.work # << >>
  /\ query' = [query EXCEPT !.boundary = Combos(query.kept), !.work = << >>]
  /\ UNCHANGED <<table, fine, spans>>

\* The simplifier raises: every survivor is scanned.
ClassifyRaises ==
  /\ query # NoQuery /\ query.kind = "count" /\ query.work # << >> /\ ~SpansRaise
  /\ query' = [query EXCEPT !.proven = 0, !.boundary = Combos(query.kept), !.work = << >>]
  /\ UNCHANGED <<table, fine, spans>>

\* The last chunk of a dimension has no values, and nothing catches the error.
ClassifyFails ==
  /\ query # NoQuery /\ query.kind = "count" /\ query.work # << >> /\ SpansRaise
  /\ query' = Failed(query.filter)
  /\ UNCHANGED <<table, fine, spans>>

\* The boundary has been scanned with the filter.
EndCount ==
  /\ query # NoQuery /\ query.kind = "count" /\ query.work = << >> /\ ~query.answered
  /\ LET scanned == [i \in DOMAIN query.boundary |->
                       CountTrue(query.filter, BlockForCombo(query.boundary[i]))]
     IN  query' = [query EXCEPT !.answered = TRUE, !.answer = query.proven + SumOf(scanned)]
  /\ UNCHANGED <<table, fine, spans>>

Done ==
  /\ query # NoQuery /\ (query.kind = "count" => query.answered)
  /\ query' = NoQuery
  /\ UNCHANGED <<table, fine, spans>>

\* The filters that name columns of the table.
Bindable == {f \in Filters : Refers(f) \subseteq Columns(dataset)}

Next ==
  \/ query = NoQuery /\ \E f \in Bindable \union {NoFilter} : Scan(f) \/ GetFragments(f) \/ CountRows(f)
  \/ Classify
  \/ ClassifyRaises
  \/ ClassifyFails
  \/ EndCount
  \/ Done

Spec == Init /\ [][Next]_vars

(******************************** Properties *********************************)
\* The query under way is about the dataset, and the caches of the shadows and
\* spans hold what would be computed again.
TypeOK ==
  /\ dataset \in Datasets /\ coalesce_rows \in CoalesceRows
  /\ \A key \in DOMAIN fine : fine[key] = FineShadow(key[1], key[2])
  /\ \A d \in DOMAIN spans : spans[d] = ChunkSpans(d)
  /\ query # NoQuery => query.filter \in Filters \union {NoFilter}

\* A scan reads each row at most once, and every row on which the filter holds:
\* pruning, refining and merging drop and repeat nothing. It reads the columns
\* the filter needs to be applied. Merging reads no chunk that was pruned, and
\* no block over the limit but a single chunk.
ScanIsExact ==
  query # NoQuery /\ query.kind = "scan" =>
    LET cells == FlattenSeq([i \in DOMAIN query.blocks |-> Cells(query.blocks[i])])
        single == BlocksOf(Combos(query.kept))
    IN  /\ IsInjective(cells)
        /\ \A cell \in ToSet(Cells(WholeGrid(dataset))) \ ToSet(cells) : ~Holds(query.filter, cell)
        /\ query.filter # NoFilter => Refers(query.filter) \subseteq query.columns
        /\ coalesce_rows > 0 =>
             /\ Len(cells) = SumOf([i \in DOMAIN single |-> Len(Cells(single[i]))])
             /\ \A i \in DOMAIN query.blocks :
                  query.blocks[i] \in ToSet(single) \/ Len(Cells(query.blocks[i])) <= coalesce_rows

\* count_rows returns the rows on which the filter holds, whichever of them it
\* proves, whichever it scans and wherever the simplifier gives up.
CountIsExact ==
  query # NoQuery /\ query.kind = "count" /\ query.answered =>
    query.answer = CountTrue(query.filter, WholeGrid(dataset))
=============================================================================
