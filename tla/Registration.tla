----------------------------- MODULE Registration -----------------------------
(* register() on the connections of several engines: which tables a Dataset   *)
(* of one or more dimension groups becomes, under which names, and statement  *)
(* by statement how they get there and what is left when one fails            *)
(* (src/xarray_sql/backends/base.py, adbc.py, _adbc_dialects.py, duckdb.py,   *)
(* datafusion.py and the naming of df.py).                                    *)
(*                                                                            *)
(* A table is a pair of a schema and a name; NoSchema stands for the          *)
(* connection's default. Its contents are a kind and rows: batches in order,  *)
(* or the one Dataset registered there, or the table a view selects from.     *)
EXTENDS Integers, Sequences, FiniteSets, SequencesExt, Functions, TLC

CONSTANTS
  Connections, Calls(_),   \* the calls of register on a connection
  Fold(_),                 \* casefold
  MaxCalls,                \* bound: calls of register
  NoSchema, NoDefault, NoInfo, NoCall

\* Only PostgreSQL aborts a transaction in which a statement failed; ClickHouse,
\* named or probed, has none and is not in memory; a table of a connection is
\* not yet a view of the groups of a Dataset.
ASSUME ConnectionAssumption ==
  /\ NoSchema # "temp"
  /\ \A c \in Connections :
       /\ c.aborts \in BOOLEAN /\ (c.aborts => c.info # "mysql")
       /\ c.current \in DOMAIN c.memory
       /\ c.default # "temp"
       /\ c.info = "clickhouse" \/ (c.info = NoInfo /\ c.system_one) =>
            c.adapter = "adbc" /\ ~c.transactional /\ ~c.memory[c.current]
       /\ \A k \in DOMAIN c.tables :
            DOMAIN c.tables[k] = {"kind", "rows"} /\ c.tables[k].kind # "view"

ASSUME CallAssumption ==
  \A c \in Connections : \A x \in Calls(c) :
    /\ x.mode \in {"create", "append", "replace", "create_append"}
    /\ x.groups \in Seq(Range(x.groups)) /\ x.groups # << >>
    /\ \A g \in Range(x.groups) : g.batches \in Seq(Range(g.batches))

VARIABLES
  con,
  tables, schemas,   \* as this connection sees them
  committed,         \* as others see them, and as they are after it is lost
  default,           \* the connection's default schema
  aborted,           \* whether a failed statement has aborted the transaction
  call, calls        \* the last call, and their number

vars == <<con, tables, schemas, committed, default, aborted, call, calls>>

Init ==
  /\ con \in Connections
  /\ tables = con.tables /\ schemas = con.schemas /\ committed = [tables |-> tables, schemas |-> schemas]
  /\ default = con.default /\ aborted = FALSE
  /\ call = NoCall /\ calls = 0

(********************************** Dialects *********************************)
Dialect(schemas_, default_database, temporary, unsigned, ddl, analyze) ==
  [schemas |-> schemas_, default_database |-> default_database, temporary_tables |-> temporary,
   unsigned |-> unsigned, table_ddl |-> ddl, analyze |-> analyze]

AnyDatabase == Dialect(TRUE, FALSE, TRUE, TRUE, FALSE, FALSE)
ClickHouse == Dialect(TRUE, FALSE, TRUE, TRUE, TRUE, FALSE)

Dialects ==
  [sqlite     |-> Dialect(FALSE, FALSE, TRUE, FALSE, FALSE, FALSE),
   duckdb     |-> AnyDatabase,
   postgresql |-> Dialect(TRUE, FALSE, TRUE, FALSE, FALSE, TRUE),
   mysql      |-> Dialect(TRUE, TRUE, TRUE, FALSE, FALSE, FALSE),
   clickhouse |-> ClickHouse,
   trino      |-> Dialect(TRUE, FALSE, FALSE, FALSE, FALSE, FALSE),
   spark      |-> Dialect(FALSE, FALSE, FALSE, TRUE, FALSE, FALSE),
   datafusion |-> Dialect(TRUE, FALSE, FALSE, TRUE, FALSE, FALSE),
   databricks |-> Dialect(TRUE, FALSE, FALSE, TRUE, FALSE, FALSE),
   snowflake  |-> Dialect(TRUE, FALSE, FALSE, TRUE, FALSE, FALSE),
   bigquery   |-> Dialect(TRUE, FALSE, FALSE, FALSE, FALSE, FALSE),
   sql_server |-> Dialect(TRUE, FALSE, TRUE, FALSE, FALSE, FALSE)]

\* By the vendor the driver names; one that names none is probed.
DialectFor ==
  IF con.info # NoInfo
  THEN IF con.info \in DOMAIN Dialects THEN Dialects[con.info] ELSE AnyDatabase
  ELSE IF con.system_one THEN ClickHouse ELSE AnyDatabase

(*********************************** Names ***********************************)
Joined(a, b) == a \o "_" \o b
DefaultTableName(dims) ==
  IF dims = << >> THEN "scalar" ELSE FoldLeft(Joined, dims[1], Tail(dims))

GroupName(c, dims) == IF dims \in DOMAIN c.table_names THEN c.table_names[dims] ELSE DefaultTableName(dims)

\* The adapters of databases some of which fold even quoted names.
CaseInsensitive == con.adapter # "datafusion"

\* Mutant: names are compared as they are spelled.
NamesClashAsSpelled(c) ==
  \E i, j \in DOMAIN c.groups :
    i # j /\ GroupName(c, c.groups[i].dims) = GroupName(c, c.groups[j].dims)

\* resolve_table_names raises.
NamesClash(c) ==
  LET name(i) == LET n == GroupName(c, c.groups[i].dims) IN IF CaseInsensitive THEN Fold(n) ELSE n
  IN  \E i, j \in DOMAIN c.groups : i # j /\ name(i) = name(j)

Mixed(c) == Len(c.groups) > 1

(******************************** Statements *********************************)
\* onfail: what is run if a statement fails, before the error is raised. The
\* failure of a lenient one ends the call with a warning.
Stmt(op, table, arg) == [op |-> op, table |-> table, arg |-> arg, onfail |-> << >>, lenient |-> FALSE]
OnFail(stmts, plan) == [i \in DOMAIN stmts |-> [stmts[i] EXCEPT !.onfail = plan]]
Lenient(stmts) == [i \in DOMAIN stmts |-> [stmts[i] EXCEPT !.lenient = TRUE]]

\* A name as the database tells it from others.
Spelled(name) == IF con.folds THEN Fold(name) ELSE name

\* The table a name stands for now. A temporary one is in no schema, and hides
\* those of its name that are named without one.
Key(table) ==
  LET n == Spelled(table[2])
  IN  IF table[1] # NoSchema THEN <<table[1], n>>
      ELSE IF <<"temp", n>> \in DOMAIN tables THEN <<"temp", n>> ELSE <<default, n>>

Table == [kind |-> "table", rows |-> << >>]
Put(k, content) == [t \in DOMAIN tables \cup {k} |-> IF t = k THEN content ELSE tables[t]]
Without(keys) == Restrict(tables, DOMAIN tables \ keys)

\* Whether a statement can succeed.
Possible(s) ==
  LET k == Key(s.table)
      there == k \in DOMAIN tables
      holds == k[1] \in schemas \cup {"temp"}
  IN  /\ ~aborted
      /\ CASE s.op \in {"create", "add"} -> ~there /\ holds
           [] s.op \in {"replace", "create_append"} -> holds
           [] s.op \in {"drop", "append"} -> there
           [] s.op = "batch" -> there /\ (s.arg.wide => DialectFor.unsigned)
           [] s.op = "exchange" -> there /\ Key(s.arg) \in DOMAIN tables
           [] s.op = "use" -> s.arg \in schemas
           [] s.op = "schema" -> con.may_create
           [] s.op = "no tables" -> \A t \in s.arg : <<s.table[1], t>> \in DOMAIN tables =>
                                                      tables[<<s.table[1], t>>].kind # "table"
           [] s.op = "view" -> there => tables[k].kind = "view"
           [] OTHER -> TRUE

TablesAfter(s) ==
  LET k == Key(s.table)
      there == k \in DOMAIN tables
  IN  CASE s.op \in {"drop", "drop if"} -> Without({k})
        [] s.op \in {"create", "replace"} \/ (s.op = "create_append" /\ ~there) -> Put(k, Table)
        [] s.op = "batch" -> Put(k, [tables[k] EXCEPT !.rows = Append(@, s.arg)])
        [] s.op = "exchange" -> [tables EXCEPT ![k] = tables[Key(s.arg)], ![Key(s.arg)] = tables[k]]
        [] s.op \in {"register", "add"} -> Put(k, [kind |-> "object", rows |-> s.arg])
        [] s.op = "view" -> Put(k, [kind |-> "view", rows |-> <<"temp", Spelled(s.arg)>>])
        [] s.op = "new schema" -> Without({t \in DOMAIN tables : t[1] = s.arg})
        [] OTHER -> tables

SchemasAfter(s) == IF s.op \in {"schema", "new schema"} THEN schemas \cup {s.arg} ELSE schemas

\* A previous default that was none cannot be restored.
DefaultAfter(s) ==
  CASE s.op = "use" -> s.arg
    [] s.op = "unuse" -> IF call.previous = NoDefault THEN default ELSE call.previous
    [] OTHER -> default

(*********************************** ADBC ************************************)
\* The ingest itself: opened in a mode, then batch by batch.
Rows(table, mode, batches) ==
  <<Stmt(mode, table, << >>)>> \o [i \in DOMAIN batches |-> Stmt("batch", table, batches[i])]

Staging(table) == <<table[1], table[2] \o "__xarray_sql_replace">>

\* Mutant: the old table goes before the new one is there.
ReplaceInPlace(table, batches) ==
  <<Stmt("drop if", table, << >>), Stmt("create", table, << >>)>> \o Rows(table, "append", batches)

\* _clickhouse_ddl of mode "replace": into a staging table that is swapped in.
ReplaceStaged(table, batches) ==
  LET staging == Staging(table)
  IN  <<Stmt("drop if", staging, << >>), Stmt("create", staging, << >>)>>
      \o OnFail(Rows(staging, "append", batches), <<Stmt("drop if", staging, << >>)>>)
      \o <<Stmt("create_append", table, << >>), Stmt("exchange", table, staging), Stmt("drop", staging, << >>)>>

\* _clickhouse_ddl around an ingest that can only append.
ClickHouseIngest(table, batches, mode, temporary) ==
  LET target == IF temporary THEN <<"temp", table[2]>> ELSE table
  IN  CASE mode = "append" -> Rows(table, "append", batches)
        [] mode = "replace" /\ ~temporary -> ReplaceStaged(table, batches)
        [] mode = "replace" /\ temporary ->
             <<Stmt("drop if", target, << >>), Stmt("create", target, << >>)>> \o Rows(table, "append", batches)
        [] OTHER -> <<Stmt(mode, target, << >>)>> \o Rows(table, "append", batches)

\* Mutant: the default database is left where an ingest fails.
InDatabaseUnlessFails(database, stmts) ==
  <<Stmt("use", <<NoSchema, "">>, database)>> \o stmts \o <<Stmt("unuse", <<NoSchema, "">>, << >>)>>

\* _default_database: for drivers that ignore the schema they are given.
InDatabase(database, stmts) ==
  LET unuse == <<Stmt("unuse", <<NoSchema, "">>, << >>)>>
  IN  <<Stmt("use", <<NoSchema, "">>, database)>> \o OnFail(stmts, unuse) \o unuse

\* _ingest of one group, its table in a schema or in none.
Ingest(schema, name, batches, mode, temporary) ==
  LET rows == Rows(<<IF temporary THEN "temp" ELSE schema, name>>, mode, batches)
  IN  IF DialectFor.table_ddl THEN ClickHouseIngest(<<schema, name>>, batches, mode, temporary)
      ELSE IF schema # NoSchema /\ DialectFor.default_database
      THEN InDatabase(schema, Rows(<<NoSchema, name>>, mode, batches))
      ELSE IF DialectFor.analyze THEN Append(rows, Stmt("analyze", <<schema, name>>, << >>)) ELSE rows

Group(c, i) == GroupName(c, c.groups[i].dims)

\* The table of a group, in the schema of the Dataset or in none.
GroupTable(c, in_schema, i) ==
  CASE Mixed(c) /\ in_schema -> Group(c, i)
    [] Mixed(c) /\ ~in_schema -> Joined(c.name, Group(c, i))
    [] OTHER -> c.name

\* A schema is not called as temporary tables are marked here, names that differ
\* differ when they are joined to another, and no table of a Dataset is called
\* like the staging table of one.
ASSUME NamesAssumption ==
  \A x \in Connections : \A c \in Calls(x) :
    LET spelled(name) == IF x.folds THEN Fold(name) ELSE name
        table(in_schema, i) == GroupTable(c, in_schema, i)
    IN  /\ c.name # "temp"
        /\ \A i, j \in DOMAIN c.groups :
             /\ spelled(Joined(c.name, Group(c, i))) = spelled(Joined(c.name, Group(c, j)))
                  => Fold(Group(c, i)) = Fold(Group(c, j))
             /\ \A in_schema \in BOOLEAN :
                  spelled(Staging(<<NoSchema, table(in_schema, i)>>)[2]) # spelled(table(in_schema, j))

ADBCProgram(c, in_schema) ==
  FlattenSeq([i \in DOMAIN c.groups |->
    Ingest(IF in_schema THEN c.name ELSE NoSchema, GroupTable(c, in_schema, i),
           c.groups[i].batches, c.mode, c.temporary)])

(********************************** DuckDB ***********************************)
\* Mutant: the first database decides.
IsInMemoryMain == con.memory[1]

\* _is_in_memory: every database attached.
IsInMemory == \A i \in DOMAIN con.memory : con.memory[i]

Mirror(c) ==
  Lenient(<<Stmt("schema", <<NoSchema, "">>, c.name),
            Stmt("no tables", <<c.name, "">>, {Spelled(Group(c, i)) : i \in DOMAIN c.groups})>>
          \o [i \in DOMAIN c.groups |-> Stmt("view", <<c.name, Group(c, i)>>, Joined(c.name, Group(c, i)))])

\* con.register binds an object to the connection.
DuckDBProgram(c) ==
  LET flat(i) == IF Mixed(c) THEN Joined(c.name, Group(c, i)) ELSE c.name
  IN  [i \in DOMAIN c.groups |-> Stmt("register", <<"temp", flat(i)>>, c.groups[i].batches)]
      \o IF Mixed(c) /\ IsInMemory THEN Mirror(c) ELSE << >>

(******************************** DataFusion *********************************)
DataFusionProgram(c) ==
  LET add(table, i) == Stmt("add", table, c.groups[i].batches)
  IN  IF ~Mixed(c) THEN <<add(<<NoSchema, c.name>>, 1)>>
      ELSE <<Stmt("new schema", <<NoSchema, "">>, c.name)>>
           \o [i \in DOMAIN c.groups |-> add(<<c.name, Group(c, i)>>, i)]

(********************************** Actions **********************************)
Running == call # NoCall /\ call.outcome \in {"naming", "running", "raising"}

\* Without transactions every statement is there to stay.
Keep(tables_, schemas_) ==
  committed' = IF con.transactional THEN committed ELSE [tables |-> tables_, schemas |-> schemas_]

\* get_adapter and register of an adapter, as far as its first statement.
Register(c) ==
  /\ ~Running /\ calls < MaxCalls
  /\ calls' = calls + 1
  /\ call' =
       [of |-> c, before |-> tables, default |-> default, previous |-> NoDefault, unrestored |-> FALSE,
        in_schema |-> FALSE,
        todo |-> CASE con.adapter = "duckdb" -> DuckDBProgram(c)
                   [] con.adapter = "datafusion" -> DataFusionProgram(c)
                   [] OTHER -> ADBCProgram(c, FALSE),
        outcome |-> IF NamesClash(c) \/ (con.adapter = "adbc" /\ c.temporary /\ ~DialectFor.temporary_tables)
                    THEN "raised"
                    ELSE IF con.adapter = "adbc" /\ Mixed(c) /\ ~c.temporary THEN "naming" ELSE "running"]
  /\ UNCHANGED <<con, tables, schemas, committed, default, aborted>>

\* _create_schema: a schema for the groups, or flat names.
CreateSchema ==
  LET name == call.of.name
      exists == con.metadata /\ ~aborted /\ name \in schemas
      in(in_schema) == call' = [call EXCEPT !.in_schema = in_schema, !.outcome = "running",
                                            !.todo = ADBCProgram(call.of, in_schema)]
  IN  /\ Running /\ call.outcome = "naming"
      /\ \/ ~DialectFor.schemas /\ in(FALSE) /\ UNCHANGED <<schemas, committed, aborted>>
         \/ /\ DialectFor.schemas /\ exists
            /\ in(TRUE) /\ UNCHANGED <<schemas, committed, aborted>>
         \/ /\ DialectFor.schemas /\ ~exists /\ ~aborted /\ con.may_create
            /\ in(TRUE) /\ schemas' = schemas \cup {name} /\ Keep(tables, schemas') /\ UNCHANGED aborted
         \/ /\ DialectFor.schemas /\ ~exists /\ (aborted \/ ~con.may_create)
            /\ aborted' = (aborted \/ con.aborts)
            /\ IF aborted' THEN call' = [call EXCEPT !.outcome = "raised"] ELSE in(FALSE)
            /\ UNCHANGED <<schemas, committed>>
  /\ UNCHANGED <<con, tables, default, calls>>

Started == Running /\ call.outcome # "naming"

\* The next statement.
Execute ==
  /\ Started /\ call.todo # << >>
  /\ LET s == Head(call.todo)
     IN  /\ Possible(s)
         /\ tables' = TablesAfter(s) /\ schemas' = SchemasAfter(s) /\ default' = DefaultAfter(s)
         /\ Keep(tables', schemas')
         /\ call' = [call EXCEPT !.todo = Tail(@), !.previous = IF s.op = "use" THEN default ELSE @]
  /\ UNCHANGED <<con, aborted, calls>>

\* A statement fails, because it cannot succeed or for a reason of the database
\* or of the source. The error of a clean-up is dropped for the one it cleans up
\* after. There is no USE to fail where there was no default to restore.
Fail ==
  /\ Started /\ call.todo # << >>
  /\ LET s == Head(call.todo)
     IN  /\ s.op = "unuse" => call.previous # NoDefault
         /\ call' = [call EXCEPT !.todo = IF call.outcome = "raising" THEN << >> ELSE s.onfail,
                                 !.unrestored = @ \/ s.op = "unuse",
                                 !.outcome = IF s.lenient THEN @ ELSE "raising"]
         /\ aborted' \in {aborted \/ con.aborts} \cup (IF Possible(s) THEN {aborted} ELSE {})
  /\ UNCHANGED <<con, tables, schemas, committed, default, calls>>

Return ==
  /\ Started /\ call.todo = << >>
  /\ call' = [call EXCEPT !.outcome = IF @ = "running" THEN "returned" ELSE "raised"]
  /\ UNCHANGED <<con, tables, schemas, committed, default, aborted, calls>>

\* A commit of an aborted transaction is a rollback.
Commit ==
  /\ con.transactional /\ ~Running /\ ~aborted
  /\ committed' = [tables |-> tables, schemas |-> schemas]
  /\ UNCHANGED <<con, tables, schemas, default, aborted, call, calls>>

Rollback ==
  /\ con.transactional /\ ~Running
  /\ tables' = committed.tables /\ schemas' = committed.schemas
  /\ aborted' = FALSE /\ call' = NoCall
  /\ UNCHANGED <<con, committed, default, calls>>

\* The connection is lost or closed, and another is made. What is temporary
\* goes with it, and a database in memory.
Reconnect ==
  LET kept == {k \in DOMAIN committed.tables : k[1] # "temp" /\ ~con.memory[con.current]}
  IN  /\ tables' = Restrict(committed.tables, kept)
      /\ schemas' = IF con.memory[con.current] THEN con.schemas ELSE committed.schemas
      /\ committed' = [tables |-> tables', schemas |-> schemas']
      /\ default' = con.default /\ aborted' = FALSE
      /\ call' = IF Running THEN [call EXCEPT !.outcome = "lost", !.todo = << >>] ELSE NoCall
      /\ UNCHANGED <<con, calls>>

Next ==
  \/ \E c \in Calls(con) : Register(c)
  \/ CreateSchema
  \/ Execute
  \/ Fail
  \/ Return
  \/ Commit
  \/ Rollback
  \/ Reconnect

Spec == Init /\ [][Next]_vars
-----------------------------------------------------------------------------
\* Where the rows of a group of the last call are.
Target(i) ==
  LET c == call.of
      flat == IF Mixed(c) THEN Joined(c.name, Group(c, i)) ELSE c.name
  IN  Key(CASE con.adapter = "duckdb" -> <<"temp", flat>>
            [] (con.adapter = "datafusion" /\ Mixed(c)) \/ call.in_schema -> <<c.name, Group(c, i)>>
            [] con.adapter = "datafusion" /\ ~Mixed(c) -> <<NoSchema, c.name>>
            [] OTHER -> <<IF c.temporary THEN "temp" ELSE NoSchema, flat>>)

Appends(c) == con.adapter = "adbc" /\ c.mode \in {"append", "create_append"}

\* The rows a group has once it is registered.
RowsOf(i) ==
  LET k == Target(i)
  IN  IF Appends(call.of) /\ k \in DOMAIN call.before THEN call.before[k].rows \o call.of.groups[i].batches
      ELSE call.of.groups[i].batches

Same(now, k) ==
  (k \in DOMAIN now) = (k \in DOMAIN call.before) /\ (k \in DOMAIN now => now[k] = call.before[k])
Whole(now, i) == Target(i) \in DOMAIN now /\ now[Target(i)].rows = RowsOf(i)
Partial(now, i) == Target(i) \in DOMAIN now => IsPrefix(now[Target(i)].rows, RowsOf(i))

\* DataFusion drops the schema it registers into, with the tables it had.
Left(i) ==
  Same(tables, Target(i)) \/ (con.adapter = "datafusion" /\ Mixed(call.of) /\ Target(i) \notin DOMAIN tables)

\* The tables a call may change beside those of its groups: the staging tables,
\* views of its groups, and a DataFusion schema it replaces.
Beside(k) ==
  \/ \E i \in DOMAIN call.of.groups : k = Staging(Target(i))
  \/ con.adapter # "adbc" /\ k[1] = call.of.name /\ call.before[k].kind # "table"

Ended ==
  call # NoCall /\ ~Running /\ (call.outcome = "lost" => ~con.transactional /\ ~con.memory[con.current])

\* When register returns, each group has a table of its own that holds its rows
\* (with those it held, where they are added). When it raises, a prefix of the
\* groups is whole, at most one table holds part of its rows, and the others
\* are as they were. So is every table that is not of the call: no group, table
\* or view of another name is overwritten.
\* (resolve_table_names, ADBCAdapter.register, _mirror_as_schema)
GroupsAreWhole ==
  Ended =>
    LET n == Len(call.of.groups)
        targets == {Target(i) : i \in 1 .. n}
    IN  /\ \E k \in IF call.outcome = "returned" THEN {n} ELSE 0 .. n :
             \A i \in {j \in 1 .. n : call.outcome = "lost" => Target(j)[1] # "temp"} :
               /\ i <= k => Whole(tables, i)
               /\ i = k + 1 => Partial(tables, i) \/ Same(tables, Target(i))
               /\ i > k + 1 => Left(i)
        /\ \A k \in DOMAIN call.before \ targets :
             Same(tables, k) \/ Beside(k) \/ (call.outcome = "lost" /\ k[1] = "temp")
        /\ call.outcome = "returned" =>
             \A i \in 1 .. n : Staging(Target(i)) \in DOMAIN tables =>
                                call.of.mode # "replace" /\ Same(tables, Staging(Target(i)))

\* On ClickHouse, which has no transactions, others see the old rows of a table
\* that is replaced or all of the new ones, whatever fails and wherever the
\* connection is lost; a table that was not there may be seen empty.
\* (_clickhouse_ddl: "a failed ingest leaves the old table as it was")
ReplaceIsAtomic ==
  call # NoCall /\ DialectFor.table_ddl /\ call.of.mode = "replace" /\ ~call.of.temporary
    /\ call.outcome # "naming" =>
    \A i \in DOMAIN call.of.groups :
      \/ Same(committed.tables, Target(i))
      \/ Whole(committed.tables, i)
      \/ Target(i) \notin DOMAIN call.before /\ committed.tables[Target(i)].rows = << >>

\* When register returns, and when it raises because a statement of an ingest or
\* of its clean-up failed, the connection's default database is the one it had,
\* unless it had none. The one exception is the failure of the statement that
\* restores it, and then register does not return as if it had.
\* (the finally of _default_database: "The previous default is restored afterwards")
DefaultIsRestored ==
  call # NoCall /\ ~Running /\ call.outcome # "lost" =>
    \/ default = call.default
    \/ call.default = NoDefault
    \/ call.unrestored /\ call.outcome = "raised"

\* A view selects from a table that is there, also in the next connection.
\* (_is_in_memory, _mirror_as_schema)
NoDanglingView == \A k \in DOMAIN tables : tables[k].kind = "view" => tables[k].rows \in DOMAIN tables
=============================================================================
