---------------------------- MODULE MCPushdownScan ----------------------------
(* Small grids with missing, repeated and descending coordinates, and filters *)
(* of one or two tests. The simplifier decides comparisons of a range and     *)
(* folds constants, as Arrow does.                                            *)
EXTENDS PushdownScan

Test(col, op, lit) == [node |-> "test", col |-> col, op |-> op, lit |-> lit]
Not(f) == [node |-> "not", arg |-> f]
And(f, g) == [node |-> "and", left |-> f, right |-> g]
Or(f, g) == [node |-> "or", left |-> f, right |-> g]
NullLit == [node |-> "null"]

Compare(x, op, lit) ==
  CASE op = "<=" -> x <= lit [] op = ">" -> x > lit [] op = "=" -> x = lit [] op = "!=" -> x # lit

Truth(b) == IF b THEN "true" ELSE "false"

\* Kleene's connectives; "some" is a value the simplifier does not know.
KleeneNot(t) == CASE t = "true" -> "false" [] t = "false" -> "true" [] OTHER -> t
KleeneAnd(t, u) ==
  IF "false" \in {t, u} THEN "false" ELSE IF t = "true" THEN u ELSE IF u = "true" THEN t
  ELSE IF t = u /\ t = "null" THEN "null" ELSE IF "some" \in {t, u} THEN "some" ELSE "null"
KleeneOr(t, u) == KleeneNot(KleeneAnd(KleeneNot(t), KleeneNot(u)))

RECURSIVE MCValue(_, _), Simplified(_, _), MCRefers(_)
MCValue(f, row) ==
  CASE f.node = "null" -> "null"
    [] f.node = "test" ->
         LET x == row[f.col]
         IN  IF x = Null THEN "null" ELSE IF x = NaN THEN Truth(f.op = "!=")
             ELSE Truth(Compare(x, f.op, f.lit))
    [] f.node = "not" -> KleeneNot(MCValue(f.arg, row))
    [] f.node = "and" -> KleeneAnd(MCValue(f.left, row), MCValue(f.right, row))
    [] f.node = "or" -> KleeneOr(MCValue(f.left, row), MCValue(f.right, row))

\* A test of a column with a range is true or false if it is so on all of it.
Simplified(f, ranges) ==
  CASE f.node = "null" -> "null"
    [] f.node = "test" ->
         IF f.col \notin DOMAIN ranges THEN "some"
         ELSE LET results == {Compare(x, f.op, f.lit) : x \in ranges[f.col][1] .. ranges[f.col][2]}
              IN  IF results = {TRUE} THEN "true" ELSE IF results = {FALSE} THEN "false" ELSE "some"
    [] f.node = "not" -> KleeneNot(Simplified(f.arg, ranges))
    [] f.node = "and" -> KleeneAnd(Simplified(f.left, ranges), Simplified(f.right, ranges))
    [] f.node = "or" -> KleeneOr(Simplified(f.left, ranges), Simplified(f.right, ranges))

MCSatisfiable(f, ranges) == Simplified(f, ranges) \notin {"false", "null"}

MCRefers(f) ==
  CASE f.node = "null" -> {} [] f.node = "test" -> {f.col} [] f.node = "not" -> MCRefers(f.arg)
    [] OTHER -> MCRefers(f.left) \union MCRefers(f.right)

\* A test of the data variable against 9 stands for a shape Arrow cannot simplify.
MCRejects(f) == f = Test("v", "=", 9)

MCTests ==
  {Test("x", "<=", 3), Test("x", "=", 3), Test("x", ">", 1), Test("x", "!=", 3), Test("y", "=", 2), Test("v", ">", 0), NullLit}

MCFilters ==
  LET signed == MCTests \union {Not(f) : f \in MCTests}
  IN  signed \union {And(f, g) : f \in MCTests, g \in signed}
             \union {Or(f, g) : f \in MCTests, g \in signed}
             \union {Not(And(f, g)) : f \in {Test("v", ">", 0), NullLit}, g \in signed}
             \union {Test("v", "=", 9)}

\* The data variable is missing, zero or one, in turn.
Table(dims, size, coords, chunks_, numeric) ==
  LET cells == [d \in ToSet(dims) |-> 0]
      all == {c \in [ToSet(dims) -> 0 .. Max({size[d] : d \in ToSet(dims)} \union {0})] :
                \A d \in ToSet(dims) : c[d] < size[d]}
  IN  [dims |-> dims, vardims |-> dims, size |-> size, coords |-> coords, chunks |-> chunks_,
       encodings |-> << << >> >>, numeric |-> numeric,
       values |-> [c \in all |->
                     LET n == FoldFunction(LAMBDA a, b : a + b, 0, c) % 3
                     IN  IF n = 0 THEN Null ELSE n - 1]]

XY(x, y) == "x" :> x @@ "y" :> y

MCDatasets ==
  { Table(<<"x", "y">>, XY(6, 2), XY(<<5, 4, 3, 3, 2, 1>>, <<1, 2>>),
          XY(<<2, 2, 2>>, <<1, 1>>), {"x", "y"}),
    Table(<<"x">>, "x" :> 6, "x" :> <<1, 2, 3, 3, 4, 0>>, "x" :> <<1, 1, 2, 1, 1>>, {"x"}),
    Table(<<"x", "y">>, XY(6, 2), XY(<<1, 3, NaN, 2, 3, 3>>, <<2, Null>>),
          XY(<<2, 1, 1, 1, 1>>, <<2>>), {"x", "y"}),
    Table(<<"y", "x">>, XY(5, 2), XY(<<3, 1, 1, 3, 3>>, <<1, 2>>),
          "x" :> <<1, 1, 1, 2>>, {"x"}),
    Table(<<"x", "y">>, XY(2, 2), XY(<<1, 3>>, <<1, 2>>), XY(<<1, 0, 1>>, <<2>>), {"y"}),
    Table(<<"x", "y">>, XY(2, 1), XY(<<1, 3>>, <<1>>), XY(<<1, 0, 1>>, <<1>>), {"x"}),
    Table(<<"x", "y">>, XY(4, 1), XY(<<1, 3, 4, 5>>, <<1>>), XY(<<1, 1, 1, 0, 1, 0>>, <<1>>), {"x"}),
    Table(<< >>, << >>, << >>, << >>, {}) }
=============================================================================
