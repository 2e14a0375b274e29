# Specifications of xarray-sql

TLA+ models of the parts of xarray-sql in which order, concurrency, lifetime
and failure decide whether an answer is right. TLC checks them on small
instances, and TLAPS proves the main safety properties for every instance.
Paths below are relative to the repository.

xarray-sql "pivots" xarray Datasets into tables: a Dataset's chunks become
blocks of rows, which a query engine reads lazily. Four kinds of code carry
its own logic: *scans* (which blocks are read, how far ahead, in what order),
*registries* (which table a name stands for, and for how long), *servers and
materialisation* (threads, connections and files that outlive a call), and
*arithmetic on chunks and predicates* (which rows a block holds and which
blocks a filter needs).

## Inventory

### Prefetching scan - `xarray_sql/backends/pyarrow.py`
State: one thread pool per registered Dataset; per scan a generator with a
deque of submitted loads and a running byte estimate. Operations: open a
scanner, `next()`, `close()`, the pool's threads, the finalizer of the
dataset. All scans of a dataset share the pool; the consumer is an engine
(DuckDB, Polars, pyarrow) that may stop anywhere. Hard: loads finish in any
order, a LIMIT stops a scan while its loads are queued, one consumer pauses
while another is waiting, the dataset dies with scans open. Correct if: rows
arrive in grid order, once, and all of them; memory is bounded by the knobs;
nothing is loaded for a scan that has gone; no consumer waits for ever; the
pool's threads end. *Modelled, proved:* `PrefetchScan`, `OrderedScan`.

### Context and prepared queries - `xarray_sql/sql.py`
State: the DataFusion catalog; `_registered_datasets` and `_deregistrations`
beside it; the arrays shared with the tables; the plans of `PreparedQuery`
objects. Operations: `from_dataset` (one group or a schema), `deregister_table`,
`sql` (DDL may replace or drop tables), `prepare`, the call of a prepared query,
which writes into the registered arrays and runs. Single-threaded, but state
is spread over two records of one name, and a call has several steps that can
raise. Hard: any long sequence of legal calls, failures after the first half
of a step. Correct if: the two records agree, a plan whose table was removed is
refused, a run sees what its call wrote, NULLs computed once stay right. *Modelled, proved:*
`ContextRegistry`.

### Flight SQL server - `src/flight.rs`, `xarray_sql/backends/flight.py`
State: the handles of a server thread, the catalog of its session, the runtime
with its streams. Operations: `register`, `serve`, `wait`, `shutdown`, drop;
on the other side clients that plan, redeem tickets, read or stop reading.
Hard: the GIL, the borrow of the native object, workers blocked in Python, the
grace deadline, restarts. Correct if: calls return, every thread can be
stopped, registration is atomic, a ticket means what was announced.
*Modelled, proved:* `FlightServer`.

### Chunk grid and pivot - `xarray_sql/df.py`, `xarray_sql/reader.py`
Mostly pure: `resolve_chunks`, block slices, `iter_record_batches`, partition metadata,
the partitions of an in-memory table. State: the one-shot reader's `_consumed`, and a
stream with the batches of one block in hand. Hard: boundaries (empty dimensions,
remainders, variables in another order of dimensions, positions that stand in for
coordinates), two paths that must give the same rows. Correct if every stream gives the
grid's rows once, a block is read only when a pull needs it, a dimension is never left
out, a partition's row count and bounds are those of its rows, and the in-memory table
is the same table. *Modelled, proved:* `Chunks`, `ChunkGrid`, `GridReader`.

### Pruning of the pyarrow scan - `xarray_sql/backends/pyarrow.py`
State: per dimension a cache of fine shadows (`_DimShadow._fine`) and of spans.
Operations: `scanner`, `get_fragments` and `count_rows` of a filter. A shadow is a
small Arrow dataset of guarantees that the filter simplifies against, first per
bucket of chunks, then per chunk; `_coalesced_blocks` merges runs of chunks that
are left; `count_rows` classifies products of chunks as empty, proven or mixed,
recursively, and scans the rest. Hard: coordinates that descend, repeat across
chunks or are missing, filters that are NULL, a simplifier that raises half-way,
caches asked by later filters. Correct if a scan holds every row the filter
keeps, once, and a count equals it. *Modelled and proved:* `PushdownScan`.

### Native pruning and statistics - `src/lib.rs`
Three-valued evaluation of filters on partition bounds, row-count and bound
statistics, pushdown answers, partition streams (one poll = one call into
Python). Correct if no dropped partition holds a matching row, every filter that
could drop one is taken, and the statistics are exact. *Modelled, proved:*
`PartitionBounds`, `NativeScan`. The partition stream's calls are part
of `FlightServer`.

### Dataset reconstruction - `xarray_sql/ds.py`
Pure but long: the dimensions of a result, its coordinates (kept, discovered in a
pass, or taken from the table of a pure scan), the reshape of a complete grid,
the scatter of other rows through `_CoordLookup`, the window a lazy index asks an
engine for, what a template restores. Correct if every cell holds the value of a
row with its labels, eager or lazy, and labels are those of the result.
*Modelled:* `Reconstruction`.

### Round trip and lazy handles - `xarray_sql/roundtrip.py`, `xarray_sql/lazyscan.py`
State: the handle a lazy Dataset holds, the spilled file and its finalizer,
whether a one-shot stream was read. Operations: `to_dataset` along four paths,
window reads, the deletion of readers. Hard: the product of arguments, engines
that return rows in any order, failures after the file was made. Correct if a
Dataset is the same whichever path it took, and a spilled file lives as long
as a window can read it and no longer. *Modelled:* `RoundTrip`.

### DuckDB, ADBC and DataFusion registration - `xarray_sql/backends/*.py`
State: the tables, schemas, default database and transaction of a connection.
Operation: `register`, a program of statements any of which can fail. Hard: a
failure or a lost connection between two statements, databases without schemas
or transactions, names that differ by case, objects that live as long as a
connection beside views that live as long as a file. Correct if what is left
is whole or confined to one table, a replaced table is seen old or new, the
default database comes back (or `register` raises because the `USE` that restores it
failed) and no view dangles. *Modelled, all but the first
proved:* `Registration`.

### Without a model
The look-up of an adapter (no state after import), cftime arithmetic, projections,
geometry and gradients (numerical functions of their inputs), documentation, demo
and benchmarks. See "Not modelled" below. DataFusion, DuckDB, Arrow, the ADBC
databases, Dask, xarray's reindex, the Python executor, PyO3 and Tokio are
modelled from how the code uses them, as far as a module needs them;
`PROJECT.json` marks those definitions external.

## The modules

| module | what it is |
| --- | --- |
| `OrderedScan` | abstract: what a scan promises its consumer |
| `PrefetchScan` | the generator of a scan, the shared pool, the finalizer |
| `PrefetchScanProofs` | theorems about it, and the refinement of the abstract scan |
| `ContextRegistry` | the Context's two records, DDL, prepared queries |
| `ContextRegistryProofs` | theorems about it |
| `FlightServer` | server object, server thread, clients |
| `FlightServerProofs` | theorems about it |
| `PartitionBounds` | bounds of coordinates, the tests on them, predicates on rows |
| `NativeScan` | the native table: registration, filters, a scan, statistics |
| `NativeScanProofs` | theorems about the tests, casts, trees of filters and the scan |
| `Combinations` | operators: products of numbers and of sequences, in C order |
| `Chunks` | the chunks of a dataset along its dimensions, and the cells of a block |
| `ChunkGrid` | resolved chunks, blocks, rows and batches of a dataset, by arithmetic |
| `GridReader` | streams over it: one-shot, repeatable, partitions of a table |
| `GridReaderProofs` | theorems about the grid, the pivot, the streams and the tables |
| `PushdownScan` | on the same grid: pruning, merging and counting under a filter |
| `PushdownScanProofs` | theorems about pruning, merging, the scans and the counts |
| `Reconstruction` | operators: rows to cells, windows, coordinates, templates |
| `RoundTrip` | `to_dataset` and the life of what it returns |
| `Registration` | `register`, statement by statement, on kinds of connections |
| `RegistrationProofs` | theorems about it |
| `DataInduction` | induction over the naturals as facts of sets and functions; folds, joined sequences, combinations and strides; the cells of a block and the chunks of a dimension |
| `MC...` | the instances TLC checks |

`GridReader` and `PushdownScan` extend `ChunkGrid`, which extends `Chunks` and that
`Combinations`; `RoundTrip` extends
`Reconstruction`, `NativeScan` extends `PartitionBounds`. The recursion over
filters is a RECURSIVE operator only in `MCPushdownScan`, where it stands for
Arrow.

### PrefetchScan
`pc[s]` is where the generator of scan `s` stands: made but not started
(`new`), on the path without a pool (`inline`), in the loop of `generate()`
(`loop`), blocked in `future.result()` (`wait`), suspended at a `yield`
(`emit`), in its `finally` (`cancel`), gone (`stopped`). `pending`, `inflight`
and `next` are the variables of the same names (`next` stands for
`block_iter`); `fut`, `queue` and `running` are the futures, the work queue and
the threads of `ThreadPoolExecutor`. A generator runs only inside its
consumer's `next()`, and meets the pool through futures alone; so one action is
one call of the generator that touches the pool, a future or the consumer:
`Submit`, `Pop`, `Receive`, `Emit`, `EndBlock`, `End`, `Close`, and `Cancel` for
one turn of the `finally`, between which threads go on taking work.
`MustDrain` is the `while` of the admission loop; the first two submissions
precede it, so the test starts with the third block. The finalizer may run as
soon as neither the user, nor a live generator, nor a queued or running load
(their closures hold the dataset) reaches the dataset.

Left out: what a load reads, the geometry column, pruning (the plan of blocks
is a constant), and the start of the threads, which the constructor finishes
before any scan exists.

`OrderedScan` knows the consumer's side only: batches of the plan in order,
an end after the last, an error on a block boundary, a consumer that walks
away. `PrefetchScan` implements it with `status` computed from `pc` and
`outcome`.

### ContextRegistry
A name is a fully qualified table name as it was registered; a Dataset stands
for its one array, and `values[d]` is the Dataset whose values are now in `d`.
`catalog` is DataFusion's side (the Dataset whose arrays a table reads, or
`Foreign`), `registered` and `deregistrations` are the Context's own
dictionaries. `FromDataset` and `FromGroups` make the entry before the table,
as the code does, and either may end with an error in between; `FromGroups`
puts an empty schema in the place of one of the same name first. `Deregister`,
`Create` and `CreateOrReplace` are what `sql` and `deregister_table` do to both
records. `sql` recognises `CREATE OR REPLACE TABLE` and `DROP TABLE` only
(`_TABLE_DDL`): `CreateOrReplaceView`, `DropView` and `DropSchema` change the catalog
and neither record (`Taken`), and `DROP TABLE IF EXISTS` of a view the records and not
the catalog (`ForgetView`). A query of a view reads the tables under it, so `Prepare`
takes tables only. `Prepare` notes the plan, the counts and the writable names. A call is
`Call` (every check of `__call__` and `_write`; a refused call changes nothing,
so it is no action), a `Copy` or `CopyRaises` per argument, and `Run`. `dropped`,
`taken` and `suspect` are history: names whose tables were removed since a query was
prepared, by the ways the Context follows and by those it does not (a schema replaced
or dropped, a view in the table's place), and names whose entry no table confirms.
`NeverStale` is about the first, `RunSeesWrites` leaves the other two out by name; what
the second does to a query is among the divergences below.

A Context is used by one thread, so nothing else runs while `call` is set. Left out:
other spellings of a name in SQL (see "Not modelled"), views that were made of a table
before it was replaced and go on reading it, whether an empty schema exists (CREATE
SCHEMA may run before a registration), the `ddx` rewriting, and Datasets of several
arrays (`_write` loops over variables as it loops over Datasets).

### FlightServer
One native object, whose methods Python threads call. A call takes the GIL and
a borrow: `CanCall` says that no other thread keeps the GIL while it blocks
(`serve` waiting for its thread to be ready; the loop of `register_tables`) and
that none has the object borrowed mutably (`shutdown` keeps its borrow while it
joins, without the GIL). Each serve `g` starts a thread whose life is
`server[g]`: `starting`, `serving`, `draining` once the shutdown channel is
used, then `stopped` because every stream ended (`Drained`), the grace period
was over (`Deadline`) or the transport failed (`Break`); `failed` if it never
came up. `running` is `self.running`. A client announces a path
(GetFlightInfo), later redeems its ticket (DoGet), perhaps in another serve,
and then its stream alternates between waiting for a worker and a call into
Python on that worker, which needs the GIL to return. A client may stop reading
for ever (`Stall`). `Deadline` needs a free worker, since Tokio's timers fire on
workers and a stream blocks its worker while it is in Python.

Left out: what a query computes, the metadata requests, paths of two and three
parts (they name their table without a choice), and whether `shutdown` returns
or raises after the join, which changes no state.

### PartitionBounds and NativeScan
A dataset gives each dimension a type, chunks of coordinate values, and says whether
they are cftime dates and in which units. Dates of a Gregorian calendar are a column of
timestamps; those of another (`360_day`, `julian`) are a column of integers in the units
of the file, with bounds that are integers in `DefaultUnits` (`CftimeBound`). Where the
two differ (`OtherUnits`) the bounds say nothing of the column, and the properties
exempt filters that test such a dimension (`Misread`) and its bounds;
`MatchingRowsAreRead` says what the code promises for all. `Init` is
`read_xarray_table`: the bounds of every partition (`CoordinateBound` or `CftimeBound`,
`NoRange` where the code leaves them out) and `dimension_columns`, taken from the first
partition that has any. `Scan` is what happens between a query and its plan:
`supports_filters_pushdown` takes some filters (`IsDimensionFilter`), `prune_partitions`
drops partitions (`Excludes`), and the plan gets the projection and the statistics of
the partitions left. Filters are trees over the tests `comparison`, `between`, `in`, a
Boolean `column` and `is`, with AND, OR and NOT; a column may stand under a chain of
casts. A tree is a sequence of nodes in postfix order (`Left`, `Right` find the
operands), so that the code's recursions are functions of the node.

`DatasetAssumption` and `FilterAssumption` say what the engine and the adapters
guarantee: coordinates of their type, literals of the type of their column,
operands before operators. A width of `WideFloat` or more holds every integer of
the instance exactly, a narrower float the multiples of a power of two. One
chain of casts is excluded by `IsColumn`: a duration cast to an interval and back
(see "Divergences noted").

`PartitionBounds` has the tests on one range, and beside them what the engine
makes of the same predicate on one row: three values and "error" (a CAST that
overflows, a duration too long for an interval). The second half is external
and is there to contradict the first if it can. Integers compare by value
whatever their width; times and durations by nanoseconds, in which a bound and a
literal may have different units; `MaxNanos` stands for the largest 64-bit
integer. A float has one zero: `partial_cmp` holds its two zeros for equal, and
what the engine's comparison of rows does with them is not in this repository.

Left out: `total_byte_size`, the statistics of one partition, and coordinates of
types without bounds, which behave as `NoRange` does.

### ChunkGrid and GridReader
A dataset is its dimensions with sizes, coordinates and chunks; the value of a data
variable is the position of its cell, so that a row tells where it was read from.
`ResolveChunks` decides between an argument, Dask's chunks, those of the file and the
default; `BlockSlices` is `itertools.product` over the slices; `IterRecordBatches` has
both paths of the code, the whole pivot (`FullColumn`) and the strided one. `Export` and
`ExportStream` make streams of the dataset as it is, in which a dimension without
coordinates has no column; `ReadXarray` adds default coordinates first. `Pull` is
`get_next`, which hands over the rest of a block or reads the next block that has rows.
`Register` is `from_dataset` for one group: in memory (`InMemoryPartitions`) while the
table fits, else partitions with their row counts and bounds (`PartitionPairs`), which
`OpenPartition` streams for a projection.

### PushdownScan
`Scan`, `GetFragments` and `CountRows` first ask the shadows (`Ask`), which may add fine
shadows to the cache `fine`, or raise: NumPy has no minimum of no values, so a chunk
without rows makes any filtered query fail (`ShadowsRaise`, `ClassifyFails`). `Classify`
is one call of `classify()`, its recursive calls left in `work`, whose order does not
matter to a sum; `Fate` is what it makes of each product of buckets. `BucketCounts` is
the loop that halves the widest dimension, as a recursion over a number of steps that it
ends within. `ClassifyRaises` is the `except` around it. `Satisfiable(filter, ranges)`
is Arrow's simplification and external: `MCPushdownScan` instantiates it with interval
evaluation over Kleene's logic, which decides tests and folds constants and nothing
more. What the proofs need of Arrow is `SimplifierAssumption`: a filter that holds on a
row is satisfiable within any ranges of present coordinates that the row is in, and if
the filter is satisfiable there and its negation is not, it holds on the row. The second
half is what `count_rows` itself takes from Arrow when it counts a product without
reading it; it is not asked of a simplification alone, for a filter that is NULL
everywhere has an unsatisfiable negation too. TLC evaluates both for all filters, rows
and ranges of the instance.

Left out: `head`, `take`, `join` and the geometry column.

### Reconstruction and RoundTrip
`Reconstruction` holds the operators of `ds.py`: `ResultDims`, `Inherited` and
`AutoChunks`, `UnfilteredScanTable`, `COrderGrid`, the affine and the table look-up of a
coordinate, the scatter, `DimSpec` (range or values) and `GetItem` (a window of a lazy
array), `Restores` and `Cast`, `Reattached` and `ReattachRaises` (a template's other
coordinates, on which a conversion raises where the labels of their dimension repeat).
`RoundTrip` composes them: `query` is what an engine can return, with its rows in the
order it returns them; `WrapperPath`, `LazyPath` and `EagerPath` are the paths of the
wrapper, of a handle on an engine or a spilled file, and of a stream; `Finish` is the
tail they share. `dataset` keeps what the variables hold: in memory their data, lazily
their coordinates in the backend (`origin`) and the index into them (`base`). `Read` and
`ReadChunk` run the query again, in either order of its rows. `tie` is which of two rows
of the same labels `argsort`, which is not stable, puts last. `readers` are the Dataset
and the views that share its lazy variables; `Held` says whether one of them holds the
handle on the spilled file, and `Finalize` deletes the file once none does. A new
conversion waits for that, since each has a file of its own.

Left out: the literals of each engine (time zones, nanoseconds) and attributes.

### Registration
A connection is a record of what distinguishes databases to this code: the
adapter, the vendor the driver names, transactions, whether a failed statement
aborts them, whether schemas may be made, which databases live in memory. A call
of `register` makes a program of statements (`ADBCProgram`, `DuckDBProgram`,
`DataFusionProgram`), each with its clean-up (`onfail`); `Execute` runs the next
one, `Fail` fails it, for a reason (`Possible`) or for none. `tables` is what this
connection sees and `committed` what others see and what `Reconnect` finds. The
batches of an ingest are statements of their own, so that one may fail after
others were stored. Opening the schema is a step before (`CreateSchema`), because
its outcome decides the names.

Left out: conversions of types, except that a `uint64` column is refused by databases
without unsigned integers; the SQL text.

## What is checked

| run | instance | what it shows |
| --- | --- | --- |
| `scan_shared` | two pooled scans (3 and 2 blocks), two threads, prefetch 2, no budget | order, completeness, cancellation, no lost wake-up, refinement of `OrderedScan`; a scan ends although the other's consumer pauses for ever; the pool is released |
| `scan_bounds` | a scan of six uneven blocks and one of a single block, prefetch 3, budget 3 | at most `prefetch` blocks held, and the byte budget respected at every admission |
| `context` | a flat name and a schema of two, four Datasets, one query | the registry follows the catalog but where a registration raised or a table went unseen; a call never runs on a table that `deregister_table`, `DROP TABLE` or `CREATE OR REPLACE TABLE` removed; a run sees its writes; NULLs stay |
| `context_taken` | as `context` | *violated:* writes go to a Dataset no table reads, after a refused `from_dataset` |
| `flight` | two Python threads, one client, one worker, two serves, a flat table and two groups of one schema | registration is atomic for queries and cannot fail half-way; tickets stay good; the object keeps track of its thread; serve, shutdown and drop end |
| `native_scan` | seven two-dimensional tables; every filter of one test under every cast, chains of two casts, and AND, OR and NOT of a choice | what is dropped holds only rows that a filter makes FALSE; no filter that could drop a partition is refused; statistics are exact; dimensions in other units than their bounds are exempt from the first and the last |
| `calendar_units` | one table with a `360_day` dimension in days | *violated:* a partition with matching rows is dropped |
| `grid` | ten datasets under five chunks arguments, batches of one or three rows, two streams at a time, of three kinds | streams give the grid once, with a column for each dimension they have coordinates for, and read a block when pulled; lazy and in-memory tables hold the same rows |
| `pushdown` | eight grids of at most twelve rows, some 190 filters, one after another over warm caches, with and without merging | a scan holds every row a filter keeps, once; a count equals it |
| `roundtrip` | results of five engines, every combination of arguments, every window of a set of indices | labels and cells are those of the rows, whatever path; a spilled file is there while it is read and then deleted |
| `template_fill` | as `roundtrip` | *violated:* cells of a label after a gap come out unfilled |
| `ingest` | two calls on eighteen connections, every mode, any statement failing, the connection lost anywhere | groups are whole or one table is partial; ClickHouse's replace is atomic; the default database comes back unless the `USE` that restores it fails, which raises; no view dangles |

A violated run states what a docstring, a comment or a page of the
documentation says; "findings" in `PROJECT.json` quotes the line. Each property
of the other runs has a mutant there: a plausible bug of one definition that
makes the run fail.

### Why the bounds are enough
*Scans.* The interesting events are a window of blocks that is full, a consumer
that waits while another scan's loads are ahead of its own in the queue, a
cancel that races a thread, and a finalizer after both. Three blocks under
prefetch 2 fill the window and drain it with one left to submit; two scans
over two threads give every order of loads; `scan_bounds` adds an empty block, a
block larger than the budget and the inline path, with a plan long enough that
the fourth and later submissions go through the admission test. Threads
are symmetric, and symmetry is used only where no liveness is checked.

*Context.* Two registrable Datasets for three names let a name be registered
twice with the same and with another Dataset, and two names share one; the
other two Datasets can be given to a call only: one computed lazily, one with
missing values elsewhere. One query reading a flat and a schema table, called with none
or with both as arguments, in an order in which the lazy one may come
second. Removals are bounded by `MaxRemovals` per name, and the statements that create
or replace a table or a view name `InSql`, the flat name; the tables of the schema go by
`deregister_table`, `DROP TABLE`, `DROP SCHEMA` and a new registration.

*Flight.* One client and one worker: its call saturates the runtime and its
stall keeps a stream open, which are the two ways of holding a shutdown up.
Two threads give every pair of concurrent methods; two serves give one restart
(`MaxServes`). Two groups under one schema name fill an existing schema, and a
flat table named `era5.surface` competes with a path that is spelt so.

*Native scan.* The tables hold each kind of type once with the values that are hard for
it: repeated and unsorted coordinates, a chunk of one value, NaN and NULL in one chunk
of two, an empty chunk, cftime bounds in another unit and past `MaxNanos`, dates of
another calendar in the default units and in units of two microseconds with another
epoch, durations of which one end overflows as an interval. Literals lie on the ends of
the chunks, on both sides of them, and are NULL or NaN; since the tests compare a
literal with two ends only, those are all the cases there are.

*Grid.* A dozen rows in chunks of one to three make a remainder, an empty chunk, an
empty dimension and a whole one; `DefaultBlockRows` and `FullPivotMaxRows` of 4 put
blocks on both sides of each limit. Batches of one and three rows divide a block
and leave a rest. Three CPUs against two, five and six blocks round both divisions
of the in-memory partitions. Two streams are enough for one to be consumed or
left while another is read, since streams share nothing but `consumed`.

*Pushdown.* A fan-out of three gives two levels of shadows to grids of five or more
chunks; four products to a cell and a depth of one reach the backstop. Coordinates lie on
both sides of every literal, at it, repeat across a chunk's edge, descend, and
are missing alone and beside values. All filters of two tests, and of negated
ones, include those whose parts are NULL. Caches are warm because every filter is
asked after every other.

*Round trip.* Six rows make a grid of three by two complete, reordered, with a gap
in one dimension, sparse and with repeated labels; batches of two rows and a
budget of three put a result on both sides of `_ONE_PASS_BYTES` and let it be
passed in the second batch. Indices are whole, part, empty, stepped, single,
reversed and repeated. Two readers are the Dataset and a view of it.

*Ingest.* Two calls make a table be there before the second (appended to, replaced,
in the way), two groups a failure between them, two batches a failure inside
one; names that differ by case clash or not by database. Others may see
`committed` between any two statements.

`CHECK_DEADLOCK FALSE` in the scan, Flight, grid, round-trip and ingest runs: a scan or
stream that was consumed, a server that was dropped, a window that was read and
calls that reached their bound leave nothing to do.

### Fairness
*Scans.* `PoolFairness`: idle threads of an executor take work and finish it, a
`finally` runs to its end, and CPython runs a finalizer. `ConsumerFairness`
holds for the scans in `Pulling` only: their engine goes on calling `next()`.
Every other consumer may pause for ever, which an engine under back-pressure
does. Nothing is assumed of `Close`, `Open` or `Release`.

*Flight.* The thread of a server runs, so weak fairness of `Ready`, `Drain` and
`Drained`. `Deadline`, `Joined` and `Return` have strong fairness: a worker looks
at its timers between tasks however often it is busy in between, and a thread
that asks for the GIL again and again obtains it. No fairness for clients,
calls of users, or failures.

*Round trip.* Weak fairness of `Finalize`: CPython collects a handle that nothing
refers to. None for readers, which may be kept for ever.

*All others.* Safety only.

## What is proved

All theorems hold for every value of the constants that satisfies the named
assumptions of the module (`ScanAssumption`, `PoolAssumption`,
`ContextAssumption`, `FlightAssumption`, `ConnectionAssumption`, `NamesAssumption`,
`CallAssumption`, `MaxNanosAssumption`, `WideFloatAssumption`, `MarksAssumption`,
`DatasetAssumption`, `FilterAssumption`, `DimsAssumption`, `LimitsAssumption`,
`DatasetsAssumption`, `BatchesAssumption`, `FanoutAssumption`, `TablesAssumption`,
`SimplifierAssumption`), which are evaluated in every run. The
proofs take one lemma per action, with frame lemmas for the parts that an action
leaves alone. The invariants called `Inductive` (of the scan, the context, the
server) are also checked by TLC.

*DataInduction.* The library states induction and recursion of operators, which
these provers cannot apply. The module states them of sets and functions: a set
with 0 and all successors is `Nat` (`InductiveSet`), and so is one that contains a
number with all those before (`CourseOfValues`); a recurrence has a solution
(`RecurrenceHasSolution`, `RecursionHasSolution`); so the sum and the concatenation
of a sequence exist and have their type. All rest on one fact of the
library, that no set of finite sets descends for ever under inclusion.
A fold of the community modules is such a recursion over the subsets of its
indexes (`FoldExists`), which gives what folds compute for sequences of any
length: the product of numbers (`ProductFold`), what `FlattenSeq` puts where
(`FlattenPlaces`), and that `Combinations` has every combination once, in C order,
the digits of its place counting its choices (`CombinationsAreAll`). Its last part is
what the readers and the pushdown scan share: the cells of a block (`RavelCells`,
`CountOfCells`) and that the bounds of the chunks cut their dimension (`BoundsCut`).

*PrefetchScan.* The deque is always the window of consecutive blocks that ends
before `next` and, until the generator leaves its loop, starts after the block
being drained (`Window`); what belongs to which path (`Path`); the consumer has
exactly the batches before the position (`Position`, `History`); a future that
waits is in the queue and one that runs is with a thread, and only the generator
itself or the finalizer cancels (`Future`). The window is what ties
`popleft` to grid order, and the length of the deque to the bound on memory.
Theorems: `TypeCorrect`, `InductiveInvariant`, `DeliveryIsExact`,
`MemoryIsBounded`, `NoLostWakeup`, `StopMeansStop`. `BudgetIsKept` adds that the
running counter `inflight` is the sum over the deque; the sum of the sizes after
a `popleft` is the sum before less the head (`SumsShift`).

*The refinement.* `PoolIsInvisible`: `PrefetchScan` implements `OrderedScan`, whatever
the pool, the deque and the finalizer do. The state map is
`status`; initial states map to initial states, and under the inductive
invariant `Emit`, `EndBlock`, `End`, `Close` and a failing `Receive` are each one
abstract step and all other actions stutter. `Window` gives that the batch emitted
is the next one of the plan.

*ContextRegistry.* For each prepared query (`Tracks`) a table of its plan that
was neither dropped nor taken is the one in the catalog, a name whose table was dropped
has a larger count than the one noted, and a writable name has an entry as long as its count
stands; for a call (`CallType`, `Writes`) the copies that are left keep missing
values in place, and without aliases an argument still holds what it held and
is already in its target or left to copy. Theorems: `InductiveInvariant`,
`RegistryIsRight`, `DroppedTablesAreNotRead`, `EveryWriteHasAnEntry`,
`RunsSeeTheirWrites`, `NullsNeverMove`.

*FlightServer.* At most one thread is inside `register_tables`, `serve` or
`shutdown` (`OneInside`: GIL and borrow together make a lock, although neither
does alone); what it holds on to meanwhile (`Holds`); a thread that is up is
in `self.running` or with the call that waits for it (`Accounted`), which is why
`serve` after `~IsRunning` cannot make a second one. Theorems:
`InductiveInvariant`, `SchemasAppearWhole`, `RegistrationCannotFail`,
`TicketsStayGood`, `AtMostOneServer`, `EveryThreadIsReachable`.

*NativeScan: the tests.* `Covers` says that a range bounds the value of an expression on
a row, in its own type, in another unit, or as an interval that may have
overflowed. `Within` is what follows for the two ends and the literal; it is
proved once for each of the three (`WithinPlain`, `WithinTemporal`,
`WithinInterval`), and each test follows from it: `ComparisonIsSound`,
`BetweenIsSound`, `InListIsSound`, `BooleanIsSound` conclude that the predicate is
FALSE on the row, which is stronger than "not TRUE" and is what AND and OR need
(`ConnectivesKeepFalse`).

*NativeScan: from coordinates to plans.* The minimum and maximum of a chunk bound its
values, of the kind and width of their type (`SliceIsBounded`). A cast the code looks
through keeps them: it changes no value, or only its unit, or makes it an interval
(`CastKeeps`, `CarriesCovers`; that a wider integer or float has room for all values of
a narrower one is `PowerOrder`). So a test that excludes a range is FALSE on every row
(`TestIsSound`), a filter that excludes a partition is FALSE on its rows by induction
over the nodes (`ExcludedRowsAreFalse`, of filters that test no dimension in
`OtherUnits`), and one that excludes any is taken (`ExcludingIsTaken`). The invariant
`Known` says that `ranges` and `dimension_columns` are those `read_xarray_table`
computed (`Registered`) and the plan that of its query (`Planned`). The row count given
to the optimizer is the number of rows the scan returns: the rows of a partition are a
product of chunks, one factor for each dimension (`NumRowsIsProduct`, on
`BoxCardinality` by induction over the dimensions), and different chunks share no row
(`RowCount`). The exact bounds are attained by a row of the slice (`SliceEnds`), go back
to the column's unit without rest (`BoundsGoBack`), and their least and largest are
those of the rows (`FoldIsExact`). Theorems: `TypeCorrect`, `PruningIsSound`,
`FiltersAreKept`, `StatisticsAreRight`.

*GridReader.* `DatasetsAssumption` says what xarray guarantees of a dataset
(`IsDataset`: dimensions named once, coordinates as long as their dimension, Dask
chunks that add up to it; sizes may be zero, encodings may be any integers, as files
hold them) and that chunks arguments are integers. From it: the sizes that
`ResolveChunks` gives cover each dimension, with each of the four origins
(`ResolvedSizes`); so the slices of a dimension cut it (`SlicersCut`), and their
combinations put each cell into one block and no other (`BlocksAreTheGrid`). The
place of a cell in a raveled block has its positions for digits (`RavelCells`), which is
what repeating and tiling a coordinate computes (`FullColumnDigit`) and what the
division of `StridedColumn` computes, so either path of `IterRecordBatches` gives the
block's rows cut at the batch size (`IterIsBatched`). A row determines its cell, so the
rows of all blocks are those of the whole dataset, each once (`GridRows`); a row has
the columns of its stream, and a stream of `read_xarray` has every dimension.
The inductive invariant `GridInv`: of each stream (`Advances`), what it has given
followed by the batches it has left is what the blocks up to `read` hold, of the block
before that it has given all and of this one something unless it has ended; one
stream at most is an export of the one-shot reader, and then it is consumed
(`ReadOnce`); the table is what registration computes from the dataset (`IsTable`).
`read` alone would not do: that no row is repeated needs the batches that are
pending, and that reads wait for pulls needs the rows given of the block before. The
rest follows without the steps: counts and ranges of partitions (`PairsHoldRows`, also
for dimensions that share their bounds), and that dividing twice with rounding leaves no
partition empty and none over (`PartitionSizes`, `InMemoryKeep`). Theorems:
`GridInvariant`, `StreamsDeliver`, `ReadsWait`, `PartitionsHold`, `InMemoryKeeps`.

*PushdownScan.* `TablesAssumption` says of a table what `DatasetsAssumption` says, and
that a coordinate is a number or missing. *Pruning* (`PruningKeepsRows`): the range of a
coarse or fine shadow that has no missing value is one the rows of its chunks are in
(`GuaranteeHolds`), so a filter that holds on a row leaves the bucket of its chunk and,
when that is refined, the chunk; the buckets hold all chunks (`BucketsCover`), and the
fine shadows used are current. *Blocks* (`IsTiling`): a cell is in a block exactly if it
is kept in every dimension, and then in one block. Combinations of chunks tile
(`CombosTile`); so do merged blocks (`MergingIsExact`). For these a fold over the chunks
of the merged dimension makes runs (`Spans`): disjoint, in order, of chunks that were
kept and no other, and either a single chunk or of at most the limit of rows; the rows
of a run times those of the dimensions beside it are those of its block (`MergedRows`),
and each prefix of the other dimensions has its runs (`MergedTiles`). Blocks that tile
the same chunks have as many cells (`TiledCells`, `SameMembers`). *Counts.*
`array_split` gives parts that are not empty and share the chunks out (`SplitCuts`), and
no dimension is cut into more parts than it has chunks (`BucketsFit`), so the products
of buckets of a cell are cells that share out its rows (`SubcellsDivide`). The ends of a
bucket's span are coordinates and hold those of its chunks, also where `reduceat` takes
a value of the next chunk for one without values (`SpanHolds`, `BucketHolds`), so a
verdict is true of every row of its product (`VerdictHolds`), and the arithmetic of
`RowsOfCell` is its number of rows (`CellRows`). `Tally` is what a count under way
keeps: the rows of the work left and those of the boundary are apart, and `proven` is
the number of all other rows on which the filter holds. Dividing a cell keeps it
(`TallySplit`); when the simplifier raises it starts again from the chunks that survive.
The inductive invariant `IInv`: the table is as it was opened, the two caches hold what
would be computed again, a scan under way is exact and a count under way has its tally.
`CountIsExact` alone says nothing before the answer. Theorems: `PushdownTypes`,
`ScansAreExact`, `CountsAreExact`.

*Registration.* A program that `register` runs is `Enclosed`: a statement leaves
the connection in the table's database exactly if the next one runs there, and
each such statement has the `USE` back as its clean-up; only when that `USE` fails is
nothing left to run, and `register` raises (`unrestored`). Joining programs keeps this
(`JoinedRestores`), which covers batches and groups without a bound. `Guarded` is
the invariant of the statements left, `Recorded` and `Viewed` tie views to tables;
only a `view` statement makes a view and none comes before its table.
`Replacing` is the invariant of ClickHouse, which has no transactions: what is left
to run is the rest of the program of one group and the programs of those after it
(`Rest`), and `Stage` says where the tables are at that statement: groups before it
`Settled` (old rows, all of the new ones, or new and empty), groups after it
`Untouched`, its own table untouched until the exchange, and the staging table
`Filled` with the batches so far. `NamesAssumption` says that the names of the
tables of a Dataset differ when joined and that none is a staging table's; without
it two groups would meet in one table. Theorems: `CallsAreGuarded`,
`DefaultDatabaseIsRestored`, `NoViewDangles`, `ReplacingIsAtomic`.

*Only model-checked.* Liveness (`FirstEnds`, `PoolIsReleased`, `CallsReturn`,
`DroppedEnds`, `FileIsCollected`): fairness and ENABLED are out of this prover's
reach. `GroupsAreWhole`: it is about every adapter, and a theorem must first say
which tables of a connection the names of a Dataset may meet.
*Reconstruction* and *RoundTrip*: their scatters and look-ups are several folds over the
same rows, each of which needs an invariant of its own. The facts of `DataInduction`
about folds and combinations are what such proofs start from.
`GridInv` itself is not checked by TLC, for it speaks of a sequence of partial
concatenations that is not bounded by a set; the properties it implies are.

## What the runs found

1. After a `from_dataset` that DataFusion refused, `_registered_datasets` names
   a Dataset that no table reads; a prepared query writes into it and returns
   the old rows (`context_taken`).
2. The bounds of a `360_day` or `julian` dimension are microseconds, its column is in
   the units of the file; they are compared as they stand, and partitions with
   matching rows are dropped (`calendar_units`).
3. A lazy result with a gap, converted with `sparsity="template"`, reads the label
   after the gap twice and fills one of the two only (`template_fill`).

The passing properties leave these cases, and the first three below, out by name
(suspect names and `taken`, `OtherUnits`, `repeated`, `Aliased`, the columns of
`Expected`), so that the rest of the behaviour is still compared.

### Divergences noted
Met while modelling; no run states them. Paths are under `src/`.

- `CREATE OR REPLACE VIEW`, `DROP VIEW` and `DROP SCHEMA ... CASCADE` take a registered
  table without `_forget` (`sql.py:514`). The entry stays and the count does not move, so
  after another `from_dataset` under the name a query prepared before still runs on the
  old table, where the docstring says that the call raises (`sql.py:415`).
- `XarrayRecordBatchReader` and `XarrayArrowStream` built directly leave out a dimension
  without coordinates (`reader.py:106`); `df.py:624` says that the readers add them.
- `SELECT x + 10 AS x, v FROM t` counts as a pure scan (`ds.py:759`); its Dataset has the
  table's labels, and rows are placed by labels it lacks, against `ds.py:1121`.
- A template coordinate over a dimension with repeated labels makes `to_dataset` raise
  pandas' `InvalidIndexError` (`ds.py:232`), which is not among the errors that skip a
  coordinate, against `ds.py:187`. The model raises there too (`ReattachRaises`).
- `prefetch=2` holds three blocks (`xarray_sql/backends/pyarrow.py:577`, against
  `docs/performance.md:105`); `ResidentBound` says so.
- Registering a mixed-dimension Dataset again under its name replaces the schema
  without moving the counts that prepared queries compare (`sql.py:177` against
  `sql.py:415`): to the Context the old tables are taken, as in the first of these.
- `_write` computes a lazy source a second time while it copies; when that fails,
  targets written before stay written (`sql.py:395` against `sql.py:341`).
- `cftime()` takes the calendar of the last registration (`sql.py:242` against
  `sql.py:139`).
- `wait` raises `Already mutably borrowed` while another thread is in `shutdown`
  (`backends/flight.py:212` against `backends/flight.py:206`).
- `pruning_column_name` tests each cast against the column's own type, so duration
  to interval to duration passes; `range_can_compare_scalar` retains a partition
  whose pruning "could otherwise hide a row-level cast error" (`src/lib.rs:753`) for
  interval literals only. One whose intermediate interval overflows may be dropped
  though reading it would raise; `IsColumn` excludes that chain.
- A missing value in the first chunk of a dimension turns off pruning by it for
  the whole table (`src/lib.rs:364` against `src/lib.rs:358`).
- A chunk without rows makes every filtered scan and count of the pyarrow dataset
  raise (`pyarrow.py:176`, `pyarrow.py:772`).
- With `sparsity="template"`, dimensions that the result returns as text or
  intervals match no label of the template, and every cell is filled.
- Rows of the same dimension values overwrite one another, where the docstring of
  `to_dataset` promises a `ValueError`.
- A one-shot reader is consumed before its dimensions are checked, and a second
  attempt returns an empty Dataset.
- `chunks="auto"` is not a union of source partitions where chunks are irregular.
- A failing `after` statement of a ClickHouse replace leaves the staging table;
  two clients that replace the same table share one staging table; a temporary
  append goes to a permanent table of the name.
- DuckDB's flat names of two Datasets can coincide (`a` with group `b_c`, `a_b` with
  `c`), and views of groups that a second registration lacks stay.
- The DataFusion adapter drops the old schema before the new groups are made; a
  group that fails leaves neither.

## Not modelled

- Names in SQL spelled otherwise than registered (`sql.py:514`).
- The two zeros of a float (`lib.rs:120`), NaN payloads, time zones.
- The barrier that starts a pool's threads (`pyarrow.py:383`): it ends before a
  scan exists, and the GIL's and the engine's locks are outside this code.
- The runner threads of DuckDB handles: one per handle by construction.
- Literals for DuckDB and Polars, type conversions for ADBC: tables of cases.
- Calendar arithmetic, projections, geometry, gradients: numerical.
- Dimensions that no data variable has (the code refuses or ignores them), and
  encodings and attributes, which are copied.
- `arrow_datasets` and the look-up of adapters, which keep no state; the demo, the
  benchmarks.
