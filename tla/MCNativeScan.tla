----------------------------- MODULE MCNativeScan -----------------------------
(* Small tables with the coordinates that are hard to prune on, and all the   *)
(* filters of one or two tests over them.                                     *)
EXTENDS NativeScan

Column(name) == [column |-> name, casts |-> << >>]
Cast(name, to, try) == [column |-> name, casts |-> <<[to |-> to, try |-> try]>>]

Table(tx, xs, ty, ys, cf) ==
  [type |-> "x" :> tx @@ "y" :> ty @@ "v" :> Type("int", 3),
   cftime |-> "x" :> FALSE @@ "y" :> cf,
   units |-> "x" :> DefaultUnits @@ "y" :> DefaultUnits,
   chunks |-> "x" :> xs @@ "y" :> ys]

\* The first chunk of x has a NaN and so no bounds; that of y has.
Tainted == {Table(Type("float", 2), << <<NaN, 1>>, <<2, 3>> >>,
                  Type("int", 2), << <<0, 1>> >>, FALSE)}

\* Dates of another calendar, encoded in the units of their bounds or in others.
OfMicroseconds == Table(Type("uint", 2), << <<0>>, <<1, 2>> >>,
                        Type("int", 3), << <<-1, 0>>, <<2, 1>> >>, TRUE)
OfOtherUnits == [OfMicroseconds EXCEPT !.units["y"] = [size |-> 2, since |-> -1]]

CalendarDatasets == {OfOtherUnits}

MCDatasets ==
  { Table(Type("int", 2), << <<-2, -1>>, <<0>>, <<1, 1>> >>,
          Type("bool", 0), << <<0>>, <<0, 1>>, <<1>> >>, FALSE),
    Table(Type("uint", 2), << <<3, 2>>, <<0, 1>> >>,
          Type("float", 2), << <<1, 2>>, <<3, NaN>> >>, FALSE),
    Table(Type("dur", 2), << <<0, 1>>, <<2, 4>> >>,
          Type("ts", 2), << <<0, 1>>, <<3>>, <<4, 5>> >>, TRUE),
    Table(Type("str", 0), << <<1, 3>>, <<2, Null>> >>,
          Type("float", 2), << << >>, <<1, 2>> >>, FALSE),
    OfMicroseconds, OfOtherUnits } \union Tainted

\* The literals of a type, as the engine coerces them: NULL, the ends of the
\* coordinates and one on each side.
Literals(type) ==
  {[type |-> type, value |-> v] :
     v \in CASE type.kind = "interval" ->
                  {Null, [months |-> 1, days |-> 0, nanos |-> 0],
                   [months |-> 0, days |-> 1, nanos |-> 0]} \union {Interval(n) : n \in {0, 2, 4}}
             [] type.kind = "float" -> {Null, NaN, 1, 2, 4}
             [] type.kind = "bool" -> {Null, 0, 1}
             [] type.kind = "int" -> {Null} \union -2 .. 2
             [] OTHER -> {Null} \union 0 .. 4}

\* The types the engine casts a column to for a comparison.
Targets(type) ==
  CASE type.kind \in Integral -> {Type("int", n) : n \in 1 .. 3} \union {Type("uint", 2)}
    [] type.kind = "float" -> {Type("float", 1), Type("float", 3)}
    [] type.kind = "dur" -> {Type("interval", 0)}
    [] type.kind = "ts" -> {Type("ts", 1)}
    [] OTHER -> {}

CastTwice(name, to, then) ==
  [column |-> name, casts |-> <<[to |-> to, try |-> FALSE], [to |-> then, try |-> TRUE]>>]

Expressions(ds, name) ==
  {Column(name)}
    \union {Cast(name, to, try) : to \in Targets(ds.type[name]), try \in BOOLEAN}
    \union (IF ds.type[name].kind = "dur" THEN {}
            ELSE {CastTwice(name, to, ds.type[name]) : to \in Targets(ds.type[name])})

Comparisons(ds, cols) ==
  UNION {[node : {"comparison"}, op : Operators, col : {col}, flipped : BOOLEAN,
          lit : Literals(TypeOf(ds, col))] : col \in cols}

Ranges(ds, cols) ==
  UNION {[node : {"between"}, col : {col}, negated : BOOLEAN,
          low : Literals(TypeOf(ds, col)), high : Literals(TypeOf(ds, col))] : col \in cols}

Lists(ds, cols) ==
  UNION {[node : {"in"}, col : {col}, negated : BOOLEAN,
          list : {{a, b} : a \in Literals(TypeOf(ds, col)), b \in Literals(TypeOf(ds, col))}]
           : col \in cols}

Booleans(ds) ==
  {<<[node |-> "column", col |-> Column(name)]>> : name \in {d \in Dims : ds.type[d].kind = "bool"}}

Not(f) == Append(f, [node |-> "not"])
Both(f, g) == f \o Append(g, [node |-> "and", size |-> Len(g)])
Either(f, g) == f \o Append(g, [node |-> "or", size |-> Len(g)])

SingleTests(ds) ==
  LET cols == UNION {Expressions(ds, d) : d \in Dims}
  IN  {<<test>> : test \in Comparisons(ds, cols) \union Ranges(ds, cols) \union Lists(ds, cols)}
        \union Booleans(ds)

\* One comparison of each kind, to combine.
Simple(ds, name) ==
  {<<[node |-> "comparison", op |-> op, col |-> Column(name), flipped |-> FALSE,
      lit |-> CHOOSE lit \in Literals(ds.type[name]) : lit.value = 1]>> : op \in {"<=", ">", "="}}

MCQueries(ds) ==
  LET some == IF ds.type["x"].kind = "dur"
              THEN Simple(ds, "y") \union {<<[node |-> "comparison", op |-> ">", flipped |-> FALSE,
                     col |-> Cast("x", Type("interval", 0), FALSE),
                     lit |-> [type |-> Type("interval", 0), value |-> Interval(2)]]>>}
              ELSE Simple(ds, "x") \union Simple(ds, "y")
      parts == some \union Booleans(ds) \union Simple(ds, "v")
      inner == parts \union {Not(f) : f \in parts}
      trees == {Both(f, g) : f \in inner, g \in inner} \union {Either(f, g) : f \in inner, g \in inner}
      tests == SingleTests(ds)
  IN  {<<f>> : f \in tests \union {Not(f) : f \in tests} \union trees}
        \union {<<Append(f, [node |-> "is", test |-> t])>> : t \in Tests, f \in parts}
        \union {<<f, Not(g)>> : f \in parts, g \in parts}
        \union {<<Both(f, Either(g, Not(h)))>> : f \in parts, g \in parts, h \in Booleans(ds)}
        \union {<<Both(Either(f, g), Not(h))>> : f \in parts, g \in parts, h \in Booleans(ds)}
        \union {<< >>}

MCProjections == {{"x", "v"}, {"x", "y"}}

MCDimOrder == <<"x", "y">>
=============================================================================
