------------------------------ MODULE MCRoundTrip ------------------------------
(* Results of at most six rows: whole grids in order and not, filtered with   *)
(* gaps, sparse, repeated and empty ones; regular, nearly regular, irregular, *)
(* descending, unordered and repeated coordinates; and what databases return  *)
(* in place of durations, small integers and small floats.                    *)
EXTENDS RoundTrip

XY(x, y) == "x" :> x @@ "y" :> y

\* A table of a variable v over dims, with a coordinate z along x.
Template(dims, coords, chunksizes, dtype) ==
  [vars |-> <<[name |-> "v", dims |-> dims]>>, dims |-> SetToSortSeq(ToSet(dims), LAMBDA a, b : a = "x"),
   coords |-> coords, chunksizes |-> chunksizes, dtypes |-> "v" :> dtype, vardims |-> "v" :> dims,
   aux |-> {[name |-> "z", dims |-> <<"x">>,
             values |-> [c \in Cells("x" :> Len(coords["x"])) |-> 100 + c["x"]]]}]

Chunky == Template(<<"x", "y">>, XY(<<10, 20, 30>>, <<1, 2>>), XY(<<1, 1, 1>>, <<2>>), "f8")
Line(x) == Template(<<"x">>, "x" :> x, << >>, "f8")
BareLine(x) == [Line(x) EXCEPT !.aux = {}]

\* A grid of rows in C order.
Grid(x, y) == FlattenSeq([i \in DOMAIN x |-> [j \in DOMAIN y |->
                [c \in {"x", "y", "v"} |-> IF c = "x" THEN x[i] ELSE IF c = "y" THEN y[j]
                                           ELSE (i - 1) * Len(y) + j]]])
Points(x, v) == [i \in DOMAIN x |-> "x" :> x[i] @@ "v" :> v[i]]

Scan == {[variant |-> "Projection", table |-> NoTable], [variant |-> "TableScan", table |-> "t"]}
Filtered == Scan \cup {[variant |-> "Filter", table |-> NoTable]}

Query(engine, template, nodes, columns, rows) ==
  [engine |-> engine, registered |-> "t" :> template, template |-> template, nodes |-> nodes,
   columns |-> columns, var |-> "v", dtype |-> "f8", rows |-> rows,
   kinds |-> XY("f", "f"), reps |-> [d \in columns \ {"v"} |-> "plain"]]
OnGrid(engine, template, nodes, rows) == Query(engine, template, nodes, {"x", "y", "v"}, rows)
OnLine(engine, template, nodes, rows) == Query(engine, template, nodes, {"x", "v"}, rows)

Gap == Grid(<<10, 30>>, <<1, 2>>)
Steps(x) == Points(x, [i \in DOMAIN x |-> i])

Plain == {
  OnGrid("datafusion", Chunky, Scan, Grid(<<10, 20, 30>>, <<1, 2>>)),
  OnGrid("datafusion", Chunky, Filtered, Gap),
  OnGrid("table", Chunky, Filtered, <<Gap[1], Gap[3], Gap[2], Gap[4]>>),
  OnGrid("duckdb", Chunky, Filtered, Reverse(Gap)),
  [OnGrid("reader", Chunky, Filtered, <<Gap[1], Gap[4], Gap[2]>>) EXCEPT !.dtype = "i"],
  OnGrid("table", Template(<<"y", "x">>, XY(<<30, 10, 20>>, <<1, 2>>), << >>, "f8"), Filtered,
         Grid(<<30, 10>>, <<1, 2>>) \o <<Gap[1]>>),
  OnLine("datafusion", Line(<<30, 10, 20, 25>>), Scan, Steps(<<30, 10, 20, 25>>)),
  OnLine("datafusion", Line(<<5, 5, 7>>), Scan, Points(<<5, 5, 7>>, <<1, 2, 3>>)),
  OnLine("datafusion", BareLine(<<5, 5, 7>>), Scan, Points(<<5, 5, 7>>, <<1, 2, 3>>)),
  OnLine("polars", Line(<<0, 9, 20, 31>>), Filtered, Steps(<<31, 20, 9, 0>>)),
  [OnLine("polars", Line(<<1, 2, 4, 9>>), Filtered, Steps(<<1, 2, 4, 9>>)) EXCEPT !.kinds = "x" :> "e"],
  OnLine("polars", Line(<<1, 2, 4, 9>>), Filtered, << >>),
  [OnLine("datafusion", Line(<<1, 2, 4, 9>>), Filtered, Steps(<<2, 4>>)) EXCEPT
     !.registered = "t" :> Chunky @@ "u" :> Line(<<1, 2, 4>>)] }

\* What a database may have widened, and how it returns durations.
Restored == {
  [OnLine("table", Template(<<"x">>, "x" :> <<1, 2, 4>>, << >>, types[2]), Filtered, Points(<<1, 2, 4>>, values))
     EXCEPT !.dtype = types[1]] :
  types \in {<<"i", "b">>, <<"i", "u">>, <<"f8", "f4">>}, values \in {<<1, 0, 1>>, <<2, 5, 3>>, <<-1, 2, 6>>} }
Durations == {
  [OnLine(engine, Template(<<"x">>, "x" :> <<1, 2, 4>>, "x" :> <<2, 1>>, "f8"), Filtered, Steps(<<1, 2, 4>>))
     EXCEPT !.reps = "x" :> rep] :
  engine \in {"reader", "duckdb"}, rep \in {"text", "interval", "months"} }

\* SELECT x + 10 AS x: nothing but a projection of a scan.
Computed == OnLine("datafusion", Line(<<10, 20, 30>>), Scan, Steps(<<20, 30, 40>>))

MCQueries == Plain \cup Restored \cup Durations \cup {Computed}

\* coords="template" is for scans of the whole template.
MCArgs(q) ==
  {a \in [dims : {NoDims, <<"x">>}, template : {NoTemplate, q.template}, table : {NoTable, "u"},
          sparsity : {"result", "template"}, fill : {99}, chunks : {NoChunks, Inherit, Auto, "x" :> 2},
          coords : {"discover", "template"}, limit : {NoLimit, 3}, spill : BOOLEAN] :
     /\ a.dims # NoDims => a.template = NoTemplate /\ "y" \notin q.columns
     /\ a.table # NoTable => a.template = NoTemplate
     /\ a.coords = "template" => q.nodes = Scan /\ q # Computed}

MCKeys(n) ==
  {Slice(0, n, 1), Slice(1, 3, 1), Slice(0, n, 2), Slice(2, 2, 1)}
  \cup (IF n < 2 THEN {} ELSE {At(1), Array(<<1, 0>>), Array(<<0, 1>>), Array(<<0, 0, 1>>)})
  \cup (IF n < 3 THEN {} ELSE {Array(<<0, 2>>), Array(<<2, 0, 2>>)})
=============================================================================
