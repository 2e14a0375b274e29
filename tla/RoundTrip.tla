------------------------------- MODULE RoundTrip -------------------------------
(* to_dataset, from the result of an engine to a Dataset and its windows      *)
(* (src/xarray_sql/roundtrip.py, lazyscan.py and the last parts of ds.py):    *)
(* which path a result takes, what is kept in memory and what is read again   *)
(* from the engine or from a spilled file, and how long that file lives.      *)
(*                                                                            *)
(* A query is a record: engine, what hands the result over; registered, the   *)
(* templates of its context by table; nodes of its plan; columns; var, the    *)
(* data variable, with its dtype; rows; kinds of the dimension columns; reps, *)
(* how the engine returns them: "plain", or a duration as "text", "interval"  *)
(* or an interval of "months".                                                *)
EXTENDS Reconstruction

CONSTANTS
  Queries,
  Args(_),       \* of to_dataset, by query
  Keys(_),       \* indices a reader asks for, by the length of a dimension
  BatchRows,     \* rows to a batch of a stream
  OnePassRows,   \* _ONE_PASS_BYTES, in rows
  MaxChunks,     \* bound: chunks of a dimension
  MaxReaders,    \* bound: Datasets and views that read lazily at a time
  NoDims, NoTemplate, NoLimit, NoDataset, NoWindow,
  NoChunks, Inherit, Auto   \* chunks that are no sizes

VARIABLES
  query,
  consumed,   \* whether a one-shot stream has been read
  dataset,    \* what to_dataset returned
  readers,    \* live objects that hold its variables: 1 the Dataset, the others views
  file,       \* whether the spilled file exists
  window      \* read last, until the readers change

vars == <<query, consumed, dataset, readers, file, window>>

Init ==
  /\ query \in Queries
  /\ consumed = FALSE /\ dataset = NoDataset /\ readers = {} /\ file = FALSE /\ window = NoWindow

Blank == IF Kind(query.dtype) = "f" THEN NaN ELSE Undefined

(********************************** Results **********************************)
\* resolve_lazy_handle; DuckDB's handle refuses the chunked path.
HasHandle == query.engine \in {"datafusion", "duckdb", "polars"}
SupportsChunked == query.engine # "duckdb"
OneShot == query.engine \in {"reader", "table"}

\* An exhausted reader has no rows, and says nothing of it.
Available(rows) == IF consumed THEN << >> ELSE rows

Batches(rows) ==
  [i \in 1 .. (Len(rows) + BatchRows - 1) \div BatchRows |->
     SubSeq(rows, (i - 1) * BatchRows + 1, Min({i * BatchRows, Len(rows)}))]

\* _guarded: tables in memory have nothing left to bound.
Guarded(rows, limit) == limit = NoLimit \/ query.engine = "table" \/ Len(rows) <= limit

DenseFits(rows, dims, limit) ==
  limit = NoLimit \/ Product([k \in DOMAIN dims |-> Cardinality({r[dims[k]] : r \in ToSet(rows)})]) <= limit

Distinct(rows, dims) == [d \in ToSet(dims) |-> {r[d] : r \in ToSet(rows)}]

Merged(distinct, rows, dims) == [d \in ToSet(dims) |-> distinct[d] \cup Distinct(rows, dims)[d]]

\* Mutant: the batches before the budget was passed are forgotten.
PassBatchForgets(dims, acc, batch) ==
  IF ~acc.over /\ Len(acc.pending) + Len(batch) <= OnePassRows
  THEN [acc EXCEPT !.pending = @ \o batch]
  ELSE [over |-> TRUE, pending |-> << >>, distinct |-> Merged(acc.distinct, batch, dims)]

\* One batch of the pass of _read_or_discover.
PassBatch(dims, acc, batch) ==
  IF ~acc.over /\ Len(acc.pending) + Len(batch) <= OnePassRows
  THEN [acc EXCEPT !.pending = @ \o batch]
  ELSE [over |-> TRUE, pending |-> << >>, distinct |-> Merged(acc.distinct, acc.pending \o batch, dims)]

\* _read_or_discover: a small result is kept whole, else its coordinates.
ReadOrDiscover(rows, dims) ==
  LET pass == FoldLeft(LAMBDA acc, batch : PassBatch(dims, acc, batch),
                       [over |-> FALSE, pending |-> << >>, distinct |-> [d \in ToSet(dims) |-> {}]],
                       Batches(rows))
  IN  [small |-> ~pass.over, coords |-> [d \in ToSet(dims) |-> Sorted(pass.distinct[d])]]

DistinctCoords(rows, dims) == [d \in ToSet(dims) |-> Sorted(Distinct(rows, dims)[d])]

(********************************* Datasets **********************************)
\* origin and base: the coordinates of the backend, and the index into it that
\* the variables keep. repeated: whether reindexing read a position twice.
Memory(dims, coords, data) ==
  [dims |-> dims, coords |-> coords, lazy |-> FALSE, data |-> data, origin |-> << >>, base |-> << >>,
   repeated |-> FALSE]
Lazy(dims, coords) ==
  [dims |-> dims, coords |-> coords, lazy |-> TRUE, data |-> << >>, origin |-> coords,
   repeated |-> FALSE, base |-> [d \in ToSet(dims) |-> Slice(0, Len(coords[d]), 1)]]

\* A source of rows: of the engine, or of the spilled file.
Source(rows, reps, chunked) == [rows |-> rows, reps |-> reps, chunked |-> chunked]

AxisKinds(source, dims) ==
  [d \in ToSet(dims) |-> IF source.reps[d] # "plain" THEN "O" ELSE query.kinds[d]]

Eager(source, dims, tie) ==
  Memory(dims, AppearingCoords(source.rows, dims),
         FromBatches(source.rows, dims, AxisKinds(source, dims), query.var, Blank, tie))

\* An index of an index: base is the whole or an array.
Composed(base, key) ==
  IF base.kind = "slice" THEN key
  ELSE [kind |-> IF key.kind = "int" THEN "int" ELSE "array",
        at |-> [i \in DOMAIN Positions(key, Len(base.at)) |-> base.at[Positions(key, Len(base.at))[i] + 1]]]

ReadLazily(source, ds, key, tie) ==
  GetItem(source.rows, ds.origin, AxisKinds(source, ds.dims), query.var, Blank,
          [d \in DOMAIN key |-> Composed(ds.base[d], key[d])], tie)

\* xarray's reindex: a label that is missing reads the last position, and its
\* cells are filled after. Nothing is read where every label is found. Text and
\* intervals equal no label of the template.
Indexer(coords, labels) ==
  [i \in DOMAIN labels |-> IF Contains(coords, labels[i]) THEN PositionIn(coords, labels[i]) - 1 ELSE -1]
Posified(indexer, n) == [i \in DOMAIN indexer |-> IF indexer[i] < 0 THEN n - 1 ELSE indexer[i]]

Targets(ds, template) ==
  [d \in ToSet(ds.dims) |-> IF d \in DOMAIN template.coords /\ d \in ToSet(template.dims)
                            THEN template.coords[d] ELSE ds.coords[d]]

Indexers(source, ds, targets) ==
  [d \in DOMAIN targets |-> IF source.reps[d] = "plain" THEN Indexer(ds.coords[d], targets[d])
                            ELSE [i \in DOMAIN targets[d] |-> -1]]

ReindexKey(source, ds, targets, indexers) ==
  [d \in DOMAIN targets |->
     IF targets[d] = ds.coords[d] /\ source.reps[d] = "plain" THEN Slice(0, Len(targets[d]), 1)
     ELSE Array(Posified(indexers[d], Len(ds.coords[d])))]

Masked(indexers) == \E d \in DOMAIN indexers : \E i \in DOMAIN indexers[d] : indexers[d][i] < 0

\* Read at the key, and filled where the label is missing.
Filled(ds, targets, indexers, key, read, fill) ==
  LET value(c) == CASE \E d \in DOMAIN targets : indexers[d][c[d]] < 0 -> fill
                    [] ds.lazy -> read.data[c]
                    [] OTHER -> ds.data[[d \in DOMAIN targets |-> indexers[d][c[d]] + 1]]
  IN  [ok |-> read.ok,
       ds |-> IF ~read.ok THEN ds
              ELSE [Memory(ds.dims, targets, [c \in Cells(Shape(targets)) |-> value(c)])
                    EXCEPT !.repeated = ds.lazy /\ \E d \in DOMAIN key : Repeats(key[d])]]

ReindexedBy(source, ds, targets, indexers, key, fill, tie) ==
  CASE targets = ds.coords /\ ~Masked(indexers) -> [ok |-> TRUE, ds |-> ds]
    [] \E d \in DOMAIN targets : targets[d] # ds.coords[d] /\ ~IsInjective(ds.coords[d]) ->
         [ok |-> FALSE, ds |-> ds]
    [] OTHER ->
         IF ds.lazy /\ ~Masked(indexers)
         THEN [ok |-> TRUE, ds |-> [ds EXCEPT !.coords = targets,
                                              !.base = [d \in DOMAIN key |-> Composed(ds.base[d], key[d])]]]
         ELSE Filled(ds, targets, indexers, key,
                     IF ~ds.lazy \/ \E d \in DOMAIN targets : ds.coords[d] = << >>
                     THEN [ok |-> TRUE, data |-> << >>] ELSE ReadLazily(source, ds, key, tie),
                     fill)

ReindexedTo(source, ds, targets, indexers, fill, tie) ==
  ReindexedBy(source, ds, targets, indexers, ReindexKey(source, ds, targets, indexers), fill, tie)

Reindexed(source, ds, template, fill, tie) ==
  LET targets == Targets(ds, template)
  IN  ReindexedTo(source, ds, targets, Indexers(source, ds, targets), fill, tie)

\* Dask's chunks of a size; a dimension without one is whole.
Chunks(n, size) == IF size >= n THEN <<n>> ELSE
  [i \in 1 .. (n + size - 1) \div size |-> Min({size, n - (i - 1) * size})]

\* What Dask is given for "auto".
ChunkSizes(a, dims, chunks) ==
  CASE chunks # Auto -> chunks
    [] chunks = Auto /\ a.template = NoTemplate -> << >>
    [] OTHER -> AutoChunks(a.template, dims)

SplitInto(ds, sizes) ==
  [d \in ToSet(ds.dims) |-> LET n == Len(ds.coords[d])
                            IN  Chunks(n, IF d \in DOMAIN sizes THEN sizes[d] ELSE n)]

\* _restore_dtype, of a variable in memory.
Recast(ds, a) ==
  IF /\ a.template # NoTemplate /\ ~ds.lazy
     /\ query.var \in DOMAIN a.template.dtypes
     /\ Restores(ds.data, query.dtype, ds.dims, a.template.dtypes[query.var], a.template.vardims[query.var])
  THEN [c \in DOMAIN ds.data |-> Cast(ds.data[c], a.template.dtypes[query.var])]
  ELSE ds.data

Finished(source, done, a, chunks) ==
  LET raises == /\ done.ok /\ a.template # NoTemplate
                /\ ReattachRaises(a.template, done.ds.coords, source.reps)
  IN  [ok |-> done.ok /\ ~raises,
       ds |-> [done.ds EXCEPT !.data = Recast(done.ds, a)]
              @@ [sparsity |-> a.sparsity, fill |-> a.fill, template |-> a.template, reps |-> source.reps,
                  aux |-> IF a.template = NoTemplate THEN << >>
                          ELSE Reattached(a.template, done.ds.coords, source.reps),
                  chunks |-> IF chunks = NoChunks THEN NoChunks
                             ELSE SplitInto(done.ds, ChunkSizes(a, done.ds.dims, chunks))]]

\* _finish_dataset: the tail of every path.
Finish(source, ds, a, chunks, tie) ==
  Finished(source,
           IF a.sparsity = "template" THEN Reindexed(source, ds, a.template, a.fill, tie)
           ELSE [ok |-> TRUE, ds |-> ds],
           a, chunks)

(******************************* Arguments ***********************************)
\* Each returns no dimensions where the code raises.
Missing(dims) == ToSet(dims) \ query.columns # {}

\* _resolve_dims.
GivenDims(a) ==
  LET dims == IF a.dims # NoDims THEN a.dims
              ELSE IF a.template = NoTemplate THEN << >> ELSE ResultDims(a.template, query.columns)
  IN  IF Missing(dims) THEN << >> ELSE dims

\* _infer_dimension_columns.
InferredDims(a) ==
  LET preferred  == IF a.template = NoTemplate THEN << >> ELSE ResultDims(a.template, query.columns)
      candidates == {ResultDims(query.registered[t], query.columns) : t \in DOMAIN query.registered} \ {<< >>}
  IN  CASE a.dims # NoDims -> a.dims
        [] a.dims = NoDims /\ preferred # << >> -> preferred
        [] a.dims = NoDims /\ preferred = << >> ->
             IF Cardinality(candidates) = 1 THEN CHOOSE c \in candidates : TRUE ELSE << >>

\* _resolve_template: the one named, or the only one there is.
WithTemplate(a) ==
  [a EXCEPT !.template =
     IF a.table # NoTable THEN IF a.table \in DOMAIN query.registered THEN query.registered[a.table] ELSE @
     ELSE IF @ = NoTemplate /\ Cardinality(DOMAIN query.registered) = 1
          THEN query.registered[CHOOSE t \in DOMAIN query.registered : TRUE] ELSE @]

\* _resolve_chunks.
ResolvedChunks(a, dims) ==
  IF a.chunks # Inherit THEN a.chunks
  ELSE IF a.template = NoTemplate THEN NoChunks
  ELSE IF DOMAIN Inherited(a.template, dims) = {} THEN NoChunks ELSE Inherited(a.template, dims)

Invalid(a) ==
  \/ (a.sparsity = "template" \/ a.coords = "template") /\ a.template = NoTemplate
  \/ a.spill /\ a.chunks = NoChunks

TemplateCoords(template, dims) == [d \in ToSet(dims) |-> template.coords[d]]
Carries(template, dims) == ToSet(dims) \subseteq DOMAIN template.coords

(********************************** Paths ************************************)
Raises == [ok |-> FALSE, ds |-> NoDataset]

\* Lazy without a chunk manager: small results are kept.
Unchunked(source, a, dims, coords, tie) ==
  LET read == ReadOrDiscover(source.rows, dims)
  IN  Finish(source,
             CASE coords # << >> -> Lazy(dims, coords)
               [] coords = << >> /\ read.small -> Eager(source, dims, tie)
               [] OTHER -> Lazy(dims, read.coords),
             a, NoChunks, tie)

Chunked(source, a, dims, coords, chunks, tie) ==
  Finish(source, Lazy(dims, IF coords # << >> THEN coords ELSE DistinctCoords(source.rows, dims)),
         a, chunks, tie)

\* _maybe_template_coords: the coordinates of the table of a pure scan.
ScannedCoords(dims) ==
  LET table == UnfilteredScanTable(query.nodes)
  IN  IF table \in DOMAIN query.registered /\ Carries(query.registered[table], dims)
      THEN TemplateCoords(query.registered[table], dims) ELSE << >>

\* XarrayDataFrame.to_dataset and _result_to_xarray.
WrapperPath(arg, tie) ==
  LET a == WithTemplate(arg)
      dims == InferredDims(a)
      chunks == ResolvedChunks(a, dims)
      source == Source(query.rows, query.reps, TRUE)
  IN  IF \/ arg.table # NoTable /\ arg.table \notin DOMAIN query.registered
         \/ dims = << >> \/ (a.sparsity = "template" /\ a.template = NoTemplate)
      THEN Raises
      ELSE IF chunks = NoChunks THEN Unchunked(source, a, dims, ScannedCoords(dims), tie)
      ELSE Chunked(source, a, dims, ScannedCoords(dims), chunks, tie)

\* _to_dataset_lazy, of a handle on the engine or on the spilled file.
LazyPath(source, a, tie) ==
  LET dims   == GivenDims(a)
      chunks == ResolvedChunks(a, dims)
      coords == IF a.coords = "template" THEN TemplateCoords(a.template, dims) ELSE << >>
  IN  IF dims = << >> \/ (a.coords = "template" /\ ~Carries(a.template, dims)) THEN Raises
      ELSE IF a.chunks = NoChunks THEN Unchunked(source, a, dims, coords, tie)
      ELSE IF chunks = NoChunks THEN Finish(source, Eager(source, dims, tie), a, NoChunks, tie)
      ELSE IF ~source.chunked THEN Raises
      ELSE Chunked(source, a, dims, coords, chunks, tie)

EagerPath(a, tie) ==
  LET rows == Available(query.rows)
      dims == GivenDims(a)
      source == Source(rows, query.reps, FALSE)
  IN  IF ~Guarded(rows, a.limit) \/ dims = << >> \/ ~DenseFits(rows, dims, a.limit) THEN Raises
      ELSE Finish(source, Eager(source, dims, tie), a, NoChunks, tie)

\* A one-shot stream's durations are converted where the template has the
\* coordinate; a handle writes what the engine returns. Parquet takes no
\* intervals, and months convert to no duration.
SpilledReps(a) ==
  [d \in DOMAIN query.reps |->
     IF OneShot /\ a.template # NoTemplate /\ d \in DOMAIN a.template.coords
     THEN AsDtype(query.reps[d]) ELSE query.reps[d]]
SpillRaises(a) == \E d \in DOMAIN query.reps : SpilledReps(a)[d] \in {"interval", "months"}

\* The stream is read before any argument but the first is looked at.
Consumes(a) == query.engine = "reader" /\ ~Invalid(a) /\ (a.chunks = NoChunks \/ a.spill)

(********************************** Actions **********************************)
\* What a conversion leaves. The file was written before the conversion, and
\* stays if that raises or keeps the result in memory.
Returns(result, spilled, fresh) ==
  /\ dataset' = IF result.ok
                THEN result.ds @@ [spilled |-> spilled /\ result.ds.lazy, fresh |-> fresh]
                ELSE NoDataset
  /\ readers' = IF result.ok THEN {1} ELSE {}
  /\ file' = spilled

WrapperToDataset(a, tie) ==
  /\ query.engine = "datafusion" /\ ~a.spill /\ a.limit = NoLimit /\ a.coords = "discover"
  /\ Returns(WrapperPath(a, tie), FALSE, TRUE)
  /\ UNCHANGED <<query, consumed, window>>

\* The result of an engine, unless it is to be spilled.
ToDataset(a, tie) ==
  /\ a.table = NoTable /\ (a.chunks = NoChunks \/ ~a.spill)
  /\ Returns(IF Invalid(a) THEN Raises
             ELSE IF a.chunks # NoChunks \/ (a.limit = NoLimit /\ HasHandle)
             THEN IF HasHandle THEN LazyPath(Source(query.rows, query.reps, SupportsChunked), a, tie)
                  ELSE Raises
             ELSE EagerPath(a, tie),
             FALSE, ~consumed)
  /\ consumed' = (consumed \/ Consumes(a))
  /\ UNCHANGED <<query, window>>

\* _to_dataset_spilled: the file is deleted if it cannot be written.
Spill(a, tie, fails) ==
  /\ a.table = NoTable /\ a.spill /\ a.chunks # NoChunks
  /\ LET source == Source(Available(query.rows), SpilledReps(a), TRUE)
         raises == Invalid(a) \/ fails \/ SpillRaises(a)
     IN  Returns(IF raises THEN Raises ELSE LazyPath(source, a, tie), ~raises, ~consumed)
  /\ consumed' = (consumed \/ Consumes(a))
  /\ UNCHANGED <<query, window>>

\* Every access runs the query again, in whatever order it returns rows, or
\* reads the spilled file.
Reads(key, reversed, tie) ==
  LET rows == IF dataset.fresh THEN query.rows ELSE << >>
      source == Source(IF reversed THEN Reverse(rows) ELSE rows, dataset.reps, TRUE)
  IN  window' = (IF dataset.spilled /\ ~file THEN Raised ELSE ReadLazily(source, dataset, key, tie))
                @@ [key |-> key]

Read(key, reversed, tie) ==
  /\ window = NoWindow /\ dataset.lazy /\ dataset.chunks = NoChunks
  /\ Reads(key, reversed, tie)
  /\ UNCHANGED <<query, consumed, dataset, readers, file>>

\* The chunk manager reads one chunk, given by its place along each dimension.
ReadChunk(chunk, reversed, tie) ==
  /\ window = NoWindow /\ dataset.lazy /\ dataset.chunks # NoChunks
  /\ \A d \in DOMAIN chunk : chunk[d] \in DOMAIN dataset.chunks[d]
  /\ LET start(d) == FoldLeft(+, 0, SubSeq(dataset.chunks[d], 1, chunk[d] - 1))
     IN  Reads([d \in DOMAIN chunk |-> Slice(start(d), start(d) + dataset.chunks[d][chunk[d]], 1)], reversed, tie)
  /\ UNCHANGED <<query, consumed, dataset, readers, file>>

\* A view or a copy shares the lazy variables.
Derive(r) ==
  /\ dataset.lazy /\ r \notin readers
  /\ readers' = readers \cup {r} /\ window' = NoWindow
  /\ UNCHANGED <<query, consumed, dataset, file>>

Drop(r) ==
  /\ r \in readers
  /\ readers' = readers \ {r} /\ window' = NoWindow
  /\ dataset' = IF readers = {r} THEN NoDataset ELSE dataset
  /\ UNCHANGED <<query, consumed, file>>

\* Mutant: a Dataset in memory keeps the handle, too.
HeldByDataset == dataset # NoDataset

\* Whether a lazy variable holds the handle on the spilled file.
Held == dataset # NoDataset /\ dataset.spilled /\ readers # {}

\* The handle is collected, and its finalizer runs.
Finalize ==
  /\ file /\ ~Held
  /\ file' = FALSE
  /\ UNCHANGED <<query, consumed, dataset, readers, window>>

Next ==
  \/ /\ dataset = NoDataset /\ ~file
     /\ \E a \in Args(query), tie \in BOOLEAN :
          \/ WrapperToDataset(a, tie)
          \/ ToDataset(a, tie)
          \/ \E fails \in BOOLEAN : Spill(a, tie, fails)
  \/ /\ dataset # NoDataset
     /\ \/ \E reversed, tie \in BOOLEAN :
             \/ \E key \in [ToSet(dataset.dims) -> UNION {Keys(Len(dataset.coords[d])) : d \in ToSet(dataset.dims)}] :
                  (\A d \in DOMAIN key : key[d] \in Keys(Len(dataset.coords[d]))) /\ Read(key, reversed, tie)
             \/ \E chunk \in [ToSet(dataset.dims) -> 1 .. MaxChunks] : ReadChunk(chunk, reversed, tie)
        \/ \E r \in 2 .. MaxReaders : Derive(r)
        \/ \E r \in readers : Drop(r)
  \/ Finalize

Spec == Init /\ [][Next]_vars

\* CPython collects what nothing refers to.
FairSpec == Spec /\ WF_vars(Finalize)
-----------------------------------------------------------------------------
\* The rows at the labels of a cell.
RowsAt(labels) == {r \in ToSet(query.rows) : \A d \in DOMAIN labels : r[d] = labels[d]}
Labels(coords, c) == [d \in DOMAIN c |-> coords[d][c[d]]]
HasLabel(d, v) == \E r \in ToSet(query.rows) : r[d] = v

\* A pure scan that computes a dimension from others keeps the coordinates of
\* the table, not those of the result.
Aliased ==
  LET table == UnfilteredScanTable(query.nodes)
  IN  table \in DOMAIN query.registered /\ \E d \in DOMAIN query.registered[table].coords :
        d \in query.columns /\ \E r \in ToSet(query.rows) : ~Contains(query.registered[table].coords[d], r[d])

Compared == dataset # NoDataset /\ dataset.fresh
TextReindexed == dataset.sparsity = "template" /\ \E d \in ToSet(dataset.dims) : dataset.reps[d] # "plain"

\* The coordinates of a table a dimension may be taken from.
TableCoords(d) ==
  {t.coords[d] : t \in {u \in Range(query.registered) \cup ({dataset.template} \ {NoTemplate}) :
                         d \in DOMAIN u.coords}}

LabelsAreTheResults ==
  \A d \in ToSet(dataset.dims) :
    IF dataset.sparsity = "template" THEN dataset.coords[d] = dataset.template.coords[d]
    ELSE /\ ToSet(dataset.coords[d]) = {r[d] : r \in ToSet(query.rows)}
         /\ IsInjective(dataset.coords[d]) \/ dataset.coords[d] \in TableCoords(d)

AuxFollowsLabels ==
  \A a \in DOMAIN dataset.aux : \A c \in DOMAIN dataset.aux[a] :
    \E t \in DOMAIN a.values :
      /\ Labels(dataset.template.coords, t) = Labels(dataset.coords, c)
      /\ dataset.aux[a][c] = a.values[t]

\* The labels of a Dataset are those of the result's rows, however they were
\* found: each once where they were kept, or discovered in a pass or one by one;
\* as the table has them, repeats and all, where they are those of a pure scan;
\* with sparsity "template" they are the template's.
\* The template's other coordinates follow the labels.
\* (_read_or_discover, _maybe_template_coords, _dataset_from_batches, _finish_dataset)
CoordsAreTheResults ==
  Compared /\ ~Aliased => LabelsAreTheResults /\ AuxFollowsLabels

\* The value of a cell by its labels.
HoldsItsRow(value, labels, unfilled) ==
  IF RowsAt(labels) # {} THEN value \in {r[query.var] : r \in RowsAt(labels)} ELSE value = unfilled

TemplateCells ==
  \A c \in DOMAIN dataset.data :
    LET labels == Labels(dataset.coords, c)
    IN  HoldsItsRow(dataset.data[c], labels,
                    IF \E d \in DOMAIN c : ~HasLabel(d, labels[d]) THEN dataset.fill ELSE Blank)

\* In memory, each cell holds the value of a row with its labels, whatever order
\* the rows came in and however they were placed and cast. The others are unfilled,
\* or filled where the template has labels the result has not. Not compared: a
\* lazy variable that reindexing reads a position of twice (run template_fill),
\* and labels the template holds as times and the result as text.
\* (_c_order_grid, _scatter_batches_to_ndarray, _restore_dtype, reindex)
CellsHoldTheRows ==
  Compared /\ ~Aliased /\ ~dataset.lazy /\ ~dataset.repeated => TextReindexed \/ TemplateCells

\* A window read lazily holds the values of the rows with its labels, and no
\* other cell is filled, whatever the index, the order of the coordinates and
\* the order of the rows. Where an index or the coordinates repeat a position,
\* a cell may stay unfilled.
\* (_raw_getitem, _dim_spec, _CoordLookup, _build_lazy_scan)
WindowsHoldTheRows ==
  Compared /\ ~Aliased /\ window # NoWindow =>
    LET at(d)     == Positions(window.key[d], Len(dataset.coords[d]))
        labels(c) == [d \in DOMAIN c |-> dataset.coords[d][at(d)[c[d]] + 1]]
        twice     == \E d \in DOMAIN window.key : \/ Repeats(Composed(dataset.base[d], window.key[d]))
                                                \/ ~IsInjective(dataset.origin[d])
    IN  /\ window.ok
        /\ \A c \in DOMAIN window.data :
             HoldsItsRow(window.data[c], labels(c), Blank) \/ (twice /\ window.data[c] = Blank)

\* Every cell of a Dataset reindexed to its template keeps the value it has in the
\* result (docstring of to_dataset: absent cells are filled).
AbsentCellsAreFilled ==
  Compared /\ ~Aliased /\ ~dataset.lazy /\ dataset.sparsity = "template" /\ ~TextReindexed => TemplateCells

\* A spilled file that no lazy variable of the Dataset or of a view reads is
\* deleted: after the last of them, and also when the conversion failed with the
\* file written, or kept the result in memory. (That it is there until then is in
\* WindowsHoldTheRows: a window of a deleted file raises.)
\* (_to_dataset_spilled: "The file is removed when the reconstruction handle is
\* garbage collected")
FileIsCollected ==
  file /\ ~(dataset # NoDataset /\ dataset.lazy /\ dataset.spilled) ~> ~file
=============================================================================
