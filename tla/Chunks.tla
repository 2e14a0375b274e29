--------------------------------- MODULE Chunks ---------------------------------
(* The chunks of a dataset along its dimensions, and the cells of a block     *)
(* (src/xarray_sql/df.py): what the readers of ChunkGrid and the pushdown     *)
(* scan have in common. A dataset is the record that ChunkGrid describes.     *)
EXTENDS Combinations

DimsOf(ds) == ToSet(ds.dims)
Smallest(a, b) == IF a <= b THEN a ELSE b
Largest(a, b) == IF a >= b THEN a ELSE b
CeilDiv(a, b) == (a + b - 1) \div b

(*********************************** Chunks **********************************)
Even(size, step) ==
  IF step <= 0 \/ step >= size THEN <<size>>
  ELSE [i \in 1 .. size \div step |-> step] \o
         (IF size % step = 0 THEN << >> ELSE <<size % step>>)

ComputeChunks(ds, spec) ==
  [d \in DimsOf(ds) |-> IF d \in DOMAIN spec THEN Even(ds.size[d], spec[d])
                        ELSE IF d \in DOMAIN ds.chunks THEN ds.chunks[d] ELSE <<ds.size[d]>>]

\* The first variable that has chunks of a dimension decides.
StorageChunks(ds) == FoldLeft(Extended, << >>, ds.encodings)

\* Inner dimensions stay whole while they fit.
DefaultChunks(ds, block_rows) ==
  FoldRight(LAMBDA d, acc :
      LET step == Largest(1, Smallest(ds.size[d], block_rows \div acc.inner))
      IN  [inner |-> acc.inner * step,
           chunks |-> IF step < ds.size[d] THEN Extended(acc.chunks, [e \in {d} |-> step]) ELSE acc.chunks],
    ds.dims, [inner |-> 1, chunks |-> << >>]).chunks

ChunkBounds(sizes) == FoldLeft(LAMBDA bounds, n : Append(bounds, Last(bounds) + n), <<0>>, sizes)

\* A dataset whose variables share its dimensions; Dask's chunks of a dimension
\* cover it.
IsGrid(ds) ==
  /\ ds.dims \in Seq(DimsOf(ds)) /\ IsInjective(ds.dims)
  /\ ds.vardims \in Seq(DimsOf(ds)) /\ IsInjective(ds.vardims) /\ ToSet(ds.vardims) = DimsOf(ds)
  /\ ds.size \in [DimsOf(ds) -> Nat]
  /\ DOMAIN ds.chunks \subseteq DimsOf(ds)
  /\ \A d \in DOMAIN ds.chunks :
       ds.chunks[d] \in Seq(Nat) /\ Last(ChunkBounds(ds.chunks[d])) = ds.size[d]
  /\ ds.encodings \in Seq(ToSet(ds.encodings))
  /\ \A i \in DOMAIN ds.encodings : \A d \in DOMAIN ds.encodings[i] : ds.encodings[i][d] \in Int

(*********************************** Cells ***********************************)
Full == << >>   \* slice(None)

First(ds, block, d) == IF block[d] = Full THEN 0 ELSE block[d][1]
Len1(ds, block, d) == IF block[d] = Full THEN ds.size[d] ELSE block[d][2] - block[d][1]

\* The block of the whole dataset.
WholeGrid(ds) == [d \in DimsOf(ds) |-> Full]

\* The values of a data variable raveled in C order: the cells of the block.
Ravel(ds, block, names) ==
  Combinations(names, [d \in ToSet(names) |-> [j \in 1 .. Len1(ds, block, d) |-> First(ds, block, d) + j - 1]])
=============================================================================
