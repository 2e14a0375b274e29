----------------------------- MODULE MCGridReader -----------------------------
(* Datasets of at most a dozen rows, each with something that is easy to get  *)
(* wrong: a data variable in another order, a dimension without coordinates,  *)
(* coordinates out of order, storage chunks that disagree, a chunk or a       *)
(* dimension of length zero, a dimension without chunks, no dimensions.       *)
EXTENDS GridReader

\* A lazily loaded file.
File(dims, vardims, size, coords, encodings) ==
  [dims |-> dims, vardims |-> vardims, size |-> size, coords |-> coords, chunks |-> << >>,
   encodings |-> encodings, in_memory |-> FALSE, shares_memory |-> FALSE, width |-> 1, nbytes |-> 1]

InMemory(dims, vardims, size, coords, shares, width, nbytes) ==
  [File(dims, vardims, size, coords, << << >> >>) EXCEPT
     !.in_memory = TRUE, !.shares_memory = shares, !.width = width, !.nbytes = nbytes]

Dask(dims, vardims, size, coords, chunks_) ==
  [File(dims, vardims, size, coords, << << >> >>) EXCEPT !.chunks = chunks_]

XY(x, y) == "x" :> x @@ "y" :> y

MCDatasets ==
  { File(<<"x", "y">>, <<"y", "x">>, XY(3, 2), "x" :> <<30, 10, 20>>,
         << << >>, "x" :> 2, XY(1, 1)>>),
    File(<<"x", "y">>, <<"x", "y">>, XY(5, 1), XY(<<1, 2, 3, 4, 5>>, <<7>>), << << >> >>),
    InMemory(<<"x", "y", "z">>, <<"x", "y", "z">>, XY(2, 3) @@ "z" :> 2,
             XY(<<2, 1>>, <<5, 6, 7>>), TRUE, 1, 1),
    InMemory(<<"x">>, <<"x">>, "x" :> 5, "x" :> <<4, 4, 5, 6, 7>>, TRUE, 1, 1),
    InMemory(<<"x">>, <<"x">>, "x" :> 5, "x" :> <<4, 4, 5, 6, 7>>, FALSE, 1, 1),
    InMemory(<<"x">>, <<"x">>, "x" :> 3, "x" :> <<4, 5, 6>>, TRUE, 0, 16),
    InMemory(<<"x">>, <<"x">>, "x" :> 0, "x" :> << >>, TRUE, 1, 1),
    InMemory(<< >>, << >>, << >>, << >>, TRUE, 1, 1),
    Dask(<<"x", "y">>, <<"y", "x">>, XY(3, 2), "x" :> <<1, 2, 3>>, XY(<<1, 0, 2>>, <<1, 1>>)),
    Dask(<<"x", "y">>, <<"x", "y">>, XY(3, 2), XY(<<1, 2, 3>>, <<8, 9>>), "x" :> <<2, 1>>) }

MCChunkings(ds) ==
  {NoChunks, "x" :> 2, "x" :> 0 @@ "w" :> 1, "w" :> 1, "y" :> 1}

MCProjections == {{"x", "v"}, {"y"}}
=============================================================================
