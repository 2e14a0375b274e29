---------------------------- MODULE MCRegistration ----------------------------
(* A connection to each kind of database, some with tables and schemas of the *)
(* names that are registered, some that may not make schemas; Datasets of one *)
(* group, of two, of two whose names differ by case, and of three with        *)
(* scalars. A name is temporary in all calls of a connection or in none.      *)
EXTENDS Registration

\* Names that differ by case.
Pairs == "SFC" :> "sfc" @@ "w_SFC" :> "w_sfc"
MCFold(name) == IF name \in DOMAIN Pairs THEN Pairs[name] ELSE name

Old == [kind |-> "table", rows |-> <<[id |-> "old", wide |-> FALSE]>>]

Connection(adapter, info) ==
  [adapter |-> adapter, info |-> info, system_one |-> FALSE, folds |-> adapter = "duckdb" \/ info \in {"sqlite", "duckdb", "mysql"},
   tables |-> <<"main", "w">> :> Old @@ <<"main", "other">> :> Old,
   schemas |-> {"main"}, default |-> "main", metadata |-> TRUE, may_create |-> TRUE,
   transactional |-> FALSE, aborts |-> FALSE, memory |-> <<FALSE>>, current |-> 1]

ADBC(info) == Connection("adbc", info)
Postgres == [ADBC("postgresql") EXCEPT !.transactional = TRUE, !.aborts = TRUE]
Held(c) == [c EXCEPT !.schemas = @ \cup {"w"}, !.tables = <<"w", "sfc">> :> Old @@ @]
DuckDB(memory, current) == [Connection("duckdb", NoInfo) EXCEPT !.memory = memory, !.current = current]

MCConnections ==
  {[ADBC("sqlite") EXCEPT !.transactional = TRUE], ADBC("duckdb"), ADBC("trino"), ADBC("spark"),
   Postgres, [Postgres EXCEPT !.may_create = FALSE], Held([Postgres EXCEPT !.may_create = FALSE]),
   ADBC("mysql"), [ADBC("mysql") EXCEPT !.default = NoDefault], [ADBC("mysql") EXCEPT !.may_create = FALSE],
   [ADBC(NoInfo) EXCEPT !.system_one = TRUE], Held([ADBC(NoInfo) EXCEPT !.system_one = TRUE, !.metadata = FALSE]),
   DuckDB(<<TRUE>>, 1), Held(DuckDB(<<TRUE>>, 1)), [DuckDB(<<TRUE>>, 1) EXCEPT !.may_create = FALSE],
   DuckDB(<<FALSE>>, 1), DuckDB(<<TRUE, FALSE>>, 2),
   [Connection("datafusion", NoInfo) EXCEPT !.memory = <<TRUE>>]}

Batch(id) == [id |-> id, wide |-> FALSE]
Grouped(dims, batches) == [dims |-> dims, batches |-> batches]

Surface == Grouped(<<"x", "y">>, <<Batch("a"), Batch("b")>>)
Level == Grouped(<<"x", "y", "z">>, <<Batch("c")>>)
Wide == Grouped(<<"x", "y", "z">>, <<Batch("c"), [id |-> "d", wide |-> TRUE]>>)
Scalar == Grouped(<< >>, <<Batch("s")>>)

Names(a, b) == Surface.dims :> a @@ Level.dims :> b

MCCalls(c) ==
  {[name |-> "w", groups |-> g[1], table_names |-> g[2], mode |-> m, temporary |-> t] :
     g \in {<<<<Surface>>, << >>>>, <<<<Surface, Wide>>, Names("sfc", "lvl")>>,
            <<<<Level, Surface>>, Names("SFC", "sfc")>>, <<<<Scalar, Surface>>, Surface.dims :> "SFC">>},
     m \in IF c.adapter = "adbc" THEN {"create", "append", "replace", "create_append"} ELSE {"create"},
     t \in {FALSE}}
  \cup {[name |-> "v", groups |-> g, table_names |-> << >>, mode |-> m, temporary |-> TRUE] :
          g \in {<<Surface>>, <<Surface, Level>>},
          m \in IF c.adapter = "adbc" THEN {"create", "append", "replace"} ELSE {}}
=============================================================================
