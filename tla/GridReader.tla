------------------------------ MODULE GridReader ------------------------------
(* The streams over a dataset (src/xarray_sql/reader.py): a one-shot reader,  *)
(* read_xarray's, the stream of the fallback that is scanned again, and the   *)
(* partitions of a table, lazy or in memory. Consumers pull one batch at a    *)
(* time; a block is read when a pull gets to it. Only read_xarray and tables  *)
(* give an index to a dimension without one.                                  *)
EXTENDS ChunkGrid

CONSTANTS
  Datasets,      \* the datasets a table may be made of
  Chunkings(_),  \* the chunks arguments tried with a dataset
  BatchSizes,
  Cpus,          \* os.cpu_count()
  Projections,   \* the column lists an engine may ask a partition for
  MaxStreams,    \* bound on the streams opened
  InMemoryLimit, \* in bytes, a value counting as one
  NoTable

\* A dataset as xarray has it, and what InMemoryPartitions asks of it.
IsDataset(ds) ==
  /\ DOMAIN ds = {"dims", "vardims", "size", "coords", "chunks", "encodings",
                  "in_memory", "shares_memory", "width", "nbytes"}
  /\ IsGrid(ds) /\ DataVar \notin DimsOf(ds)
  /\ DOMAIN ds.coords \subseteq DimsOf(ds)
  /\ \A d \in DOMAIN ds.coords : ds.coords[d] \in Seq(Int) /\ Len(ds.coords[d]) = ds.size[d]

ASSUME DatasetsAssumption ==
  \A ds \in Datasets :
    /\ IsDataset(ds)
    /\ \A spec \in Chunkings(ds) : spec # NoChunks => \A d \in DOMAIN spec : spec[d] \in Int

ASSUME BatchesAssumption == BatchSizes \subseteq Nat \ {0} /\ Cpus \in Nat \ {0}

VARIABLES
  dataset, chunks, batch_size,
  consumed,   \* of the one-shot reader
  refused,    \* an export of it raised
  streams,    \* every stream opened, with the rows it has given
  table       \* what from_dataset registered

vars == <<dataset, chunks, batch_size, consumed, refused, streams, table>>

Init ==
  /\ dataset \in Datasets
  /\ chunks \in Chunkings(dataset)
  /\ batch_size \in BatchSizes
  /\ consumed = FALSE /\ refused = FALSE
  /\ streams = << >>
  /\ table = NoTable

(********************************** Streams **********************************)
\* ds is the dataset as the source has it; read lists the blocks read so far,
\* batches what is left of the last of them.
Stream(source, ds, blocks, columns) ==
  [source |-> source, ds |-> ds, blocks |-> blocks, columns |-> columns,
   read |-> 0, batches |-> << >>, out |-> << >>, ended |-> FALSE]

Open(stream) == Len(streams) < MaxStreams /\ streams' = Append(streams, stream)

Blocks(ds) == BlockSlices(ds, ResolveChunks(ds, chunks))

\* __init__ of the reader has checked that all variables share dimensions. It
\* takes the dataset as it is.
Reader(source, ds) == Stream(source, ds, Blocks(ds), Columns(ds))

\* Mutant: the reader does not remember that it was exported.
ExportForgets ==
  /\ Open(Reader("reader", dataset))
  /\ UNCHANGED <<dataset, chunks, batch_size, consumed, refused, table>>

\* __arrow_c_stream__ of the one-shot reader.
Export ==
  /\ IF consumed THEN refused' = TRUE /\ UNCHANGED <<consumed, streams>>
     ELSE /\ Open(Reader("reader", dataset))
          /\ consumed' = TRUE
          /\ UNCHANGED refused
  /\ UNCHANGED <<dataset, chunks, batch_size, table>>

\* __arrow_c_stream__ of the stream: a reader of its own each time.
ExportStream ==
  /\ Open(Reader("stream", dataset))
  /\ UNCHANGED <<dataset, chunks, batch_size, consumed, refused, table>>

\* read_xarray: a reader of its own, over the dataset with its indexes.
ReadXarray ==
  /\ Open(Reader("read_xarray", EnsureDefaultIndexes(dataset)))
  /\ UNCHANGED <<dataset, chunks, batch_size, consumed, refused, table>>

BatchesOf(stream, b) == IterRecordBatches(stream.ds, stream.blocks[b], stream.columns, batch_size)

\* Mutant: the first pull reads the batches of every block.
PullAll(s) ==
  LET stream == streams[s]
      all == IF stream.read > 0 THEN stream.batches
             ELSE FlattenSeq([b \in DOMAIN stream.blocks |-> BatchesOf(stream, b)])
  IN  /\ ~stream.ended
      /\ streams' = [streams EXCEPT ![s] =
           IF all = << >> THEN [stream EXCEPT !.read = Len(stream.blocks), !.ended = TRUE]
           ELSE [stream EXCEPT !.read = Len(stream.blocks), !.out = @ \o Head(all),
                               !.batches = Tail(all)]]
      /\ UNCHANGED <<dataset, chunks, batch_size, consumed, refused, table>>

\* get_next: the rest of the block, or the next block that has rows.
Pull(s) ==
  LET stream == streams[s]
      batches(b) == BatchesOf(stream, b)
      rest == {b \in stream.read + 1 .. Len(stream.blocks) : batches(b) # << >>}
  IN  /\ ~stream.ended
      /\ streams' = [streams EXCEPT ![s] =
           IF stream.batches # << >>
           THEN [stream EXCEPT !.out = @ \o Head(stream.batches), !.batches = Tail(@)]
           ELSE IF rest = {} THEN [stream EXCEPT !.read = Len(stream.blocks), !.ended = TRUE]
           ELSE LET b == Min(rest)
                IN  [stream EXCEPT !.read = b, !.out = @ \o Head(batches(b)),
                                   !.batches = Tail(batches(b))]]
      /\ UNCHANGED <<dataset, chunks, batch_size, consumed, refused, table>>

(*********************************** Table ***********************************)
\* Whether a dataset is registered as a native in-memory table.
FitsInMemory(ds) ==
  LET rows == Product([i \in DOMAIN ds.dims |-> ds.size[ds.dims[i]]])
  IN  /\ ds.in_memory /\ ds.shares_memory
      /\ DimsOf(ds) \subseteq ToSet(ds.vardims)
      /\ rows # 0
      /\ rows * (Len(ds.dims) + ds.width) <= InMemoryLimit
      /\ rows * (Len(ds.dims) + ds.nbytes) <= InMemoryLimit

\* The smallest and largest coordinate of the block, for dimensions with rows.
BlockMetadata(ds, block, dims) ==
  [d \in {d \in dims : Len1(ds, block, d) > 0} |->
     <<Min(ToSet(BlockCoord(ds, block, d))), Max(ToSet(BlockCoord(ds, block, d)))>>]

VaryingDims(resolved) == {d \in DOMAIN resolved : Len(resolved[d]) > 1}

\* Mutant: only the first block's bounds are computed.
PartitionPairsOfFirst(ds) ==
  LET resolved == ResolveChunks(ds, chunks)
      blocks == BlockSlices(ds, resolved)
  IN  [i \in DOMAIN blocks |->
         [block |-> blocks[i], ranges |-> BlockMetadata(ds, blocks[1], DimsOf(ds)),
          rows |-> BlockLen(ds, blocks[i])]]

\* The bounds of a dimension in one chunk are computed once, of the whole axis.
PartitionPairs(ds) ==
  LET resolved == ResolveChunks(ds, chunks)
      varying == VaryingDims(resolved)
      static == DimsOf(ds) \ varying
      static_ranges == BlockMetadata(ds, [d \in static |-> Full], static)
      blocks == BlockSlices(ds, resolved)
  IN  [i \in DOMAIN blocks |->
         [block |-> blocks[i],
          ranges |-> Extended(BlockMetadata(ds, blocks[i], varying), static_ranges),
          rows |-> BlockLen(ds, blocks[i])]]

Register ==
  /\ table = NoTable
  /\ LET ds == EnsureDefaultIndexes(dataset)
     IN  table' =
           IF FitsInMemory(dataset)
           THEN [kind |-> "memory",
                 partitions |-> InMemoryPartitions(dataset, chunks, Cpus, batch_size)]
           ELSE IF \E i \in DOMAIN Blocks(ds) : ~HasLen(Blocks(ds)[i])
           THEN [kind |-> "TypeError"]
           ELSE [kind |-> "lazy", partitions |-> PartitionPairs(ds)]
  /\ UNCHANGED <<dataset, chunks, batch_size, consumed, refused, streams>>

\* The factory of a partition opens a stream over its block alone, with the
\* variables of the projection.
OpenPartition(i, columns) ==
  /\ LET ds == EnsureDefaultIndexes(dataset)
     IN  Open(Stream("partition", ds, <<table.partitions[i].block>>, columns \cap Columns(ds)))
  /\ UNCHANGED <<dataset, chunks, batch_size, consumed, refused, table>>

Next ==
  \/ Export
  \/ ExportStream
  \/ ReadXarray
  \/ \E s \in DOMAIN streams : Pull(s)
  \/ Register
  \/ table # NoTable /\ table.kind = "lazy" /\
       \E i \in DOMAIN table.partitions, columns \in Projections : OpenPartition(i, columns)

Spec == Init /\ [][Next]_vars

(******************************** Properties *********************************)
Rows(ds, block) == DatasetToRecordBatch(ds, block, Columns(ds))
Times(rows, row) == Cardinality({i \in DOMAIN rows : rows[i] = row})

\* What a stream must have given when it ends: its block, or the whole grid; to
\* read_xarray with a column of every dimension.
Expected(stream) ==
  DatasetToRecordBatch(stream.ds,
    IF stream.source = "partition" THEN stream.blocks[1] ELSE WholeGrid(stream.ds),
    IF stream.source = "read_xarray" THEN DimsOf(dataset) \union {DataVar} ELSE stream.columns)

\* The rows a stream has given; for the one-shot reader, over all of its exports.
Delivered(s) ==
  IF streams[s].source # "reader" THEN streams[s].out
  ELSE FlattenSeq([t \in DOMAIN streams |->
                     IF streams[t].source = "reader" THEN streams[t].out ELSE << >>])

\* A stream gives each row of the grid (of its block, for a partition) at most
\* as often as it occurs, with the absolute coordinates of its cell whatever
\* block it is read in and along either path, and when it ends it has given all.
\* The exports of a one-shot reader do not repeat a row between them. A row of a
\* reader or a stream built directly has the coordinates the dataset has; one of
\* read_xarray, or of a table asked for it, has one for every dimension.
StreamsDeliverTheGrid ==
  \A s \in DOMAIN streams :
    LET out == Delivered(s)
        expected == Expected(streams[s])
    IN  /\ \A row \in ToSet(out) : Times(out, row) <= Times(expected, row)
        /\ streams[s].ended => Len(out) = Len(expected)

\* A pull reads no block before the consumer needs it: all but the last block
\* read have given all of their rows, and blocks not read none.
ReadsWaitForPulls ==
  \A s \in DOMAIN streams :
    LET stream == streams[s]
        rows(b) == ToSet(DatasetToRecordBatch(stream.ds, stream.blocks[b], stream.columns))
    IN  /\ \A b \in 1 .. stream.read - 1 : rows(b) \subseteq ToSet(stream.out)
        /\ stream.read > 0 /\ ~stream.ended =>
             rows(stream.read) \cap ToSet(stream.out) # {}

\* A lazy table tells the engine of each partition the number of its rows and
\* bounds that all of them keep; the partitions together are the grid, once.
PartitionsHoldTheirRows ==
  table # NoTable /\ table.kind = "lazy" =>
    LET ds == EnsureDefaultIndexes(dataset)
        pairs == table.partitions
        all == FlattenSeq([i \in DOMAIN pairs |-> Rows(ds, pairs[i].block)])
    IN  /\ \A i \in DOMAIN pairs :
             LET rows == Rows(ds, pairs[i].block)
             IN  /\ Len(rows) = pairs[i].rows
                 /\ \A row \in ToSet(rows), d \in DOMAIN pairs[i].ranges :
                      row[d] \in pairs[i].ranges[d][1] .. pairs[i].ranges[d][2]
        /\ Len(all) = Len(Rows(ds, WholeGrid(ds)))
        /\ ToSet(all) = ToSet(Rows(ds, WholeGrid(ds)))

\* An in-memory table holds the same rows in C order, in no more partitions
\* than asked for, no partition or batch without rows, none over the batch size.
InMemoryKeepsRows ==
  table # NoTable /\ table.kind = "memory" =>
    LET ds == EnsureDefaultIndexes(dataset)
        parts == table.partitions
        batches == FlattenSeq(parts)
    IN  /\ FlattenSeq(batches) = Rows(ds, WholeGrid(ds))
        /\ Len(parts) <= Cpus
        /\ \A p \in DOMAIN parts : parts[p] # << >>
        /\ \A b \in DOMAIN batches : Len(batches[b]) \in 1 .. batch_size
=============================================================================
