------------------------------- MODULE ChunkGrid -------------------------------
(* How a dataset is cut into blocks, and a block pivoted into rows            *)
(* (src/xarray_sql/df.py): chunks by arithmetic, block slices, and the record *)
(* batches of a block along both of its paths.                                *)
(*                                                                            *)
(* A dataset is a record: dims, its dimensions in order; vardims, the same in *)
(* the order of its data variables; size; coords, the sequence of coordinate  *)
(* values of each dimension that has one; chunks, those of Dask (empty if it  *)
(* has none); encodings, the preferred_chunks of its variables in order.      *)
(* A block gives each dimension its first and its end position. A row is a    *)
(* function of columns; the value of the data variable is the cell of the     *)
(* grid it is read from.                                                      *)
EXTENDS Chunks, TLC

CONSTANTS
  DefaultBlockRows,   \* _DEFAULT_BLOCK_ROWS
  FullPivotMaxRows,   \* _FULL_PIVOT_MAX_ROWS
  DataVar,            \* the column of the data variable
  NoChunks            \* no chunks argument

ASSUME LimitsAssumption == DefaultBlockRows \in Nat \ {0} /\ FullPivotMaxRows \in Nat

(*********************************** Chunks **********************************)
ResolveChunks(ds, chunks) ==
  LET spec == IF chunks = NoChunks THEN << >> ELSE Restrict(chunks, DOMAIN chunks \cap DimsOf(ds))
  IN  IF DOMAIN spec # {} THEN ComputeChunks(ds, spec)
      ELSE IF DOMAIN ds.chunks # {} THEN ds.chunks
      ELSE ComputeChunks(ds, IF DOMAIN StorageChunks(ds) # {} THEN StorageChunks(ds)
                             ELSE DefaultChunks(ds, DefaultBlockRows))

(*********************************** Blocks **********************************)
\* The absolute positions of a dimension without coordinates.
EnsureDefaultIndexes(ds) ==
  [ds EXCEPT !.coords = Extended(@, [d \in DimsOf(ds) |-> [i \in 1 .. ds.size[d] |-> i - 1]])]

\* The slices of a dimension, by chunk.
ChunkSlicers(resolved, d) ==
  IF d \notin DOMAIN resolved THEN <<Full>>
  ELSE LET bounds == ChunkBounds(resolved[d])
       IN  [i \in DOMAIN resolved[d] |-> <<bounds[i], bounds[i + 1]>>]

\* In the order of itertools.product.
BlockSlices(ds, resolved) ==
  Combinations(ds.dims, [d \in DimsOf(ds) |-> ChunkSlicers(resolved, d)])

\* A block whose slices all have bounds; _block_len raises TypeError on others.
HasLen(block) == \A d \in DOMAIN block : block[d] # Full
BlockLen(ds, block) ==
  Product([i \in DOMAIN ds.dims |-> block[ds.dims[i]][2] - block[ds.dims[i]][1]])

(************************************ Rows ***********************************)
Columns(ds) == DOMAIN ds.coords \union {DataVar}

\* The dimensions that give a block its shape.
DimNames(ds, columns) == IF DataVar \in columns THEN ds.vardims ELSE ds.dims

\* The coordinate of a dimension along a block.
BlockCoord(ds, block, d) ==
  SubSeq(ds.coords[d], First(ds, block, d) + 1, First(ds, block, d) + Len1(ds, block, d))

\* One batch of a whole block: coordinates broadcast to its shape, and raveled.
DatasetToRecordBatch(ds, block, columns) ==
  LET cells == Ravel(ds, block, DimNames(ds, columns))
  IN  [i \in DOMAIN cells |->
         [c \in columns |-> IF c = DataVar THEN cells[i] ELSE ds.coords[c][cells[i][c] + 1]]]

Repeat(s, n) == FlattenSeq([i \in DOMAIN s |-> [j \in 1 .. n |-> s[i]]])
Tile(s, n) == FlattenSeq([i \in 1 .. n |-> s])

\* Mutant: the stride of a dimension counts its own length.
StrideOfSelf(shape, k) == Product(SubSeq(shape, k, Len(shape)))

Stride(shape, k) == Product(SubSeq(shape, k + 1, Len(shape)))

\* A coordinate column of a block, whole.
FullColumn(coord, shape, k) ==
  LET outer == Product(SubSeq(shape, 1, k - 1))
      col == Repeat(coord, Stride(shape, k))
  IN  IF outer > 1 THEN Tile(col, outer) ELSE col

\* Rows from + 1 .. to of a coordinate column, by index arithmetic.
StridedColumn(coord, shape, k, from, to) ==
  [i \in 1 .. to - from |-> coord[(((from + i - 1) \div Stride(shape, k)) % shape[k]) + 1]]

\* The batches of a block, each a sequence of at most batch_size rows.
IterRecordBatches(ds, block, columns, batch_size) ==
  LET names == DimNames(ds, columns)
      shape == [k \in DOMAIN names |-> Len1(ds, block, names[k])]
      axis(c) == CHOOSE k \in DOMAIN names : names[k] = c
      total == Product(shape)
      data == Ravel(ds, block, names)
      full == [c \in columns |-> IF c = DataVar THEN data
                                 ELSE FullColumn(BlockCoord(ds, block, c), shape, axis(c))]
      slice(s, from, to) == SubSeq(s, from + 1, to)
      batch(from, to) ==
        LET cols == [c \in columns |->
               IF total <= FullPivotMaxRows THEN slice(full[c], from, to)
               ELSE IF c = DataVar THEN slice(data, from, to)
               ELSE StridedColumn(BlockCoord(ds, block, c), shape, axis(c), from, to)]
        IN  [i \in 1 .. to - from |-> [c \in columns |-> cols[c][i]]]
  IN  [b \in 1 .. CeilDiv(total, batch_size) |->
         batch((b - 1) * batch_size, Smallest(b * batch_size, total))]

(********************************* In memory *********************************)
\* Batches by partition: as many partitions as chunks, up to the CPUs. The rows
\* are those of the whole dataset in C order.
\* Mutant: the batches of the partitions are rounded down.
PerPartitionFloor(rows, count, batch_size) == Largest(1, rows \div (count * batch_size))

PerPartition(rows, count, batch_size) == CeilDiv(rows, count * batch_size)
BatchRows(rows, count, batch_size) == CeilDiv(rows, count * PerPartition(rows, count, batch_size))

Batched(s, n) == [p \in 1 .. CeilDiv(Len(s), n) |-> SubSeq(s, (p - 1) * n + 1, Smallest(p * n, Len(s)))]

InMemoryPartitions(ds, chunks, cpus, batch_size) ==
  LET whole == EnsureDefaultIndexes(ds)
      rows == Product([i \in DOMAIN ds.dims |-> ds.size[ds.dims[i]]])
      count == Smallest(Len(BlockSlices(ds, ResolveChunks(whole, chunks))), cpus)
  IN  Batched(IterRecordBatches(whole, WholeGrid(ds), Columns(whole), BatchRows(rows, count, batch_size)),
              PerPartition(rows, count, batch_size))
=============================================================================
