-------------------------- MODULE ContextRegistry --------------------------
(***************************************************************************)
(* The Context of sql.py: a DataFusion catalog, and beside it what the     *)
(* Context remembers of its names - which Dataset each was registered      *)
(* with, and how often its table was removed - so that a query prepared    *)
(* once can be run many times, writing new values into the arrays its      *)
(* tables share, and can tell that a table was replaced under it - where   *)
(* the table went by a statement that the Context looks for.               *)
(*                                                                         *)
(* A Dataset stands for its one array. Names are as they were registered;  *)
(* other spellings of a name in SQL are left out. A Context is used by one *)
(* thread: between two steps of a call of a prepared query nothing runs.   *)
(***************************************************************************)
EXTENDS Naturals, Sequences, FiniteSets

CONSTANTS
  Names,       \* fully qualified table names
  Public,      \* the default schema
  Home,        \* Home[n]: the schema of name n
  Datasets,    \* Datasets of one dimension group
  Inputs,      \* the Datasets the user registers
  Form,        \* Form[d]: all of d but its values
  Missing,     \* Missing[d]: where the values d is created with are NaN or NaT
  InMemory,    \* the Datasets of writable NumPy arrays; others are computed
  Calendar,    \* Calendar[d]: its non-Gregorian calendar, or None
  Queries,     \* the user's variables that hold a prepared query
  Reads,       \* the sets of tables a query may read
  Orders,      \* the orders of the keyword arguments of a call
  Foreign,     \* a table that is not from a Dataset
  View,        \* a view: a query of it reads the tables under it
  None,
  InSql,       \* bound on the names that SQL creates and replaces
  MaxRemovals  \* MaxRemovals[n]: bound on the removals of name n

Schemas == {Home[n] : n \in Names}

ASSUME ContextAssumption ==
  /\ Form \in [Datasets -> {Form[d] : d \in Datasets}]
  /\ Missing \in [Datasets -> {Missing[d] : d \in Datasets}]
  /\ Home \in [Names -> Schemas]
  /\ Calendar \in [Datasets -> {Calendar[d] : d \in Datasets}]
  /\ InSql \subseteq Names
  /\ InMemory \subseteq Datasets
  /\ Inputs \subseteq Datasets
  /\ Reads \subseteq SUBSET Names
  /\ Orders \subseteq Seq(Names)
  /\ None \notin Datasets \cup Queries
  /\ Foreign \notin Datasets \cup {None}
  /\ View \notin Datasets \cup {Foreign, None}

VARIABLES
  catalog,         \* DataFusion: the Dataset whose arrays a name's table reads
  registered,      \* _registered_datasets
  deregistrations, \* _deregistrations
  udf,             \* DataFusion: the calendar of the cftime() function
  values,          \* values[d]: the Dataset the values now in d were made with
  query,           \* the prepared queries
  call,            \* the call of a prepared query that is writing
  dropped,         \* history: names of a query's tables that statements or
                   \* methods the Context follows removed since prepare
  taken,           \* history: those that something else took from it
  suspect          \* history: names whose entry no registration confirmed

regVars  == <<registered, deregistrations, suspect>>
tableVars == <<catalog, udf, dropped, taken>>
vars == <<catalog, registered, deregistrations, udf, values, query, call,
          dropped, taken, suspect>>

Init ==
  /\ catalog = [n \in Names |-> None]
  /\ registered = [n \in Names |-> None]
  /\ deregistrations = [n \in Names |-> 0]
  /\ udf = None
  /\ values = [d \in Datasets |-> d]
  /\ query = [q \in Queries |-> None]
  /\ call = None
  /\ dropped = [q \in Queries |-> {}]
  /\ taken = [q \in Queries |-> {}]
  /\ suspect = {}

-----------------------------------------------------------------------------
(* Registration. *)

(* The tables of the names in gone leave the catalog: queries planned with  *)
(* them keep them. Marked is the history of queries with these names.       *)
Marked(history, gone) ==
  [q \in Queries |->
    IF query[q] = None THEN {}
    ELSE history[q] \cup
         {n \in gone \cap DOMAIN query[q].plan : catalog[n] # None}]

(* The Context sees them go. *)
Dropped(gone) == dropped' = Marked(dropped, gone) /\ UNCHANGED taken

(* It does not: their entries and their counts stay. *)
Taken(gone) ==
  /\ taken' = Marked(taken, gone)
  /\ UNCHANGED <<dropped, registered, deregistrations>>
  /\ suspect' = suspect \cup {n \in gone : registered[n] # None}

(* _maybe_register_cftime_udf after the registration of the Datasets in ds: *)
(* register_udf replaces a function of the same name.                       *)
RegisterUdf(ds) ==
  LET calendars == {Calendar[d] : d \in ds} \ {None}
  IN  IF calendars = {} THEN udf' = udf ELSE udf' \in calendars

(* Mutants: the new table stands in the entry's place; nothing is counted.  *)
ForgetToForeign(n) ==
  /\ registered' = [registered EXCEPT ![n] = Foreign]
  /\ deregistrations' = [deregistrations EXCEPT ![n] = @ + 1]
  /\ suspect' = suspect \ {n}

ForgetUncounted(n) ==
  /\ registered' = [registered EXCEPT ![n] = None]
  /\ suspect' = suspect \ {n}
  /\ UNCHANGED deregistrations

(* _forget(n) *)
Forget(n) ==
  /\ registered' = [registered EXCEPT ![n] = None]
  /\ deregistrations' = [deregistrations EXCEPT ![n] = @ + 1]
  /\ suspect' = suspect \ {n}

(* from_dataset(n, d), one dimension group: the entry is made first, the    *)
(* table registered after it.                                              *)
FromDataset(n, d) ==
  /\ call = None
  /\ Home[n] = Public
  /\ registered' = [registered EXCEPT ![n] = d]
  /\ \/ /\ catalog[n] = None
        /\ catalog' = [catalog EXCEPT ![n] = d]
        /\ RegisterUdf({d})
        /\ suspect' = suspect \ {n}
     \/ \* the name is taken, or no table can be made of d
        /\ suspect' = suspect \cup {n}
        /\ UNCHANGED <<catalog, udf>>
  /\ UNCHANGED <<deregistrations, values, query, call, dropped, taken>>

(* from_dataset(schema, ds), several dimension groups: an empty schema      *)
(* takes the place of the one of that name, and the groups are registered   *)
(* in it one by one; making a table of one may raise.                       *)
FromGroups(schema, groups) ==
  /\ call = None
  /\ schema # Public
  /\ \E made \in SUBSET DOMAIN groups :
       /\ catalog' = [n \in Names |-> IF n \in made THEN groups[n]
                                      ELSE IF Home[n] = schema THEN None
                                      ELSE catalog[n]]
       /\ registered' = [n \in Names |-> IF n \in made THEN groups[n]
                                         ELSE registered[n]]
       /\ RegisterUdf({groups[n] : n \in made})
       /\ suspect' = (suspect \ made) \cup
            {n \in Names \ made : Home[n] = schema /\ registered[n] # None}
  /\ taken' = Marked(taken, {n \in Names : Home[n] = schema})
  /\ UNCHANGED <<deregistrations, values, query, call, dropped>>

(* Mutant: SessionContext's own deregister_table, not the Context's.        *)
DeregisterOnly(n) ==
  /\ call = None
  /\ deregistrations[n] < MaxRemovals[n]
  /\ catalog' = [catalog EXCEPT ![n] = None]
  /\ Dropped({n})
  /\ UNCHANGED <<regVars, udf, values, query, call>>

(* deregister_table(n), which takes an absent name and a view; or           *)
(* DROP TABLE n.                                                            *)
Deregister(n) ==
  /\ call = None
  /\ deregistrations[n] < MaxRemovals[n]
  /\ catalog' = [catalog EXCEPT ![n] = None]
  /\ Forget(n)
  /\ Dropped({n})
  /\ UNCHANGED <<udf, values, query, call>>

(* A view, or a table of other data, under a free name: CREATE TABLE n,     *)
(* CREATE VIEW n or a method of SessionContext.                             *)
Create(n) ==
  /\ call = None
  /\ catalog[n] = None
  /\ \E table \in {Foreign, View} : catalog' = [catalog EXCEPT ![n] = table]
  /\ UNCHANGED <<regVars, udf, values, query, call, dropped, taken>>

(* DROP TABLE IF EXISTS n of a view, which DataFusion leaves alone: sql()   *)
(* has seen that n exists, and forgets it.                                  *)
ForgetView(n) ==
  /\ call = None
  /\ catalog[n] = View
  /\ deregistrations[n] < MaxRemovals[n]
  /\ Forget(n)
  /\ UNCHANGED <<tableVars, values, query, call>>

(* Statements that _TABLE_DDL does not match. CREATE OR REPLACE VIEW n puts *)
(* a view in the place of whatever has the name.                            *)
CreateOrReplaceView(n) ==
  /\ call = None
  /\ catalog[n] # None
  /\ catalog' = [catalog EXCEPT ![n] = View]
  /\ Taken({n})
  /\ UNCHANGED <<udf, values, query, call>>

(* DROP VIEW n *)
DropView(n) ==
  /\ call = None
  /\ catalog[n] = View
  /\ catalog' = [catalog EXCEPT ![n] = None]
  /\ Taken({n})
  /\ UNCHANGED <<udf, values, query, call>>

(* DROP SCHEMA schema CASCADE. CREATE SCHEMA makes it again, empty.         *)
DropSchema(schema) ==
  /\ call = None
  /\ catalog' = [n \in Names |-> IF Home[n] = schema THEN None ELSE catalog[n]]
  /\ Taken({n \in Names : Home[n] = schema})
  /\ UNCHANGED <<udf, values, query, call>>

(* CREATE OR REPLACE TABLE n; an absent name leaves the registry alone.     *)
CreateOrReplace(n) ==
  /\ call = None
  /\ catalog[n] # None
  /\ deregistrations[n] < MaxRemovals[n]
  /\ catalog' = [catalog EXCEPT ![n] = Foreign]
  /\ Forget(n)
  /\ Dropped({n})
  /\ UNCHANGED <<udf, values, query, call>>

-----------------------------------------------------------------------------
(* Prepared queries. *)

(* q = prepare(a query of the tables in read, its views resolved): the plan *)
(* keeps the tables, and the object notes the counts and the names a call   *)
(* may write.                                                               *)
Prepare(q, read) ==
  /\ call = None
  /\ \A n \in read : catalog[n] \notin {None, View}
  /\ query' = [query EXCEPT ![q] =
       [plan     |-> [n \in read |-> catalog[n]],
        count    |-> [n \in read |-> deregistrations[n]],
        writable |-> {n \in read : registered[n] # None}]]
  /\ dropped' = [dropped EXCEPT ![q] = {}]
  /\ taken' = [taken EXCEPT ![q] = {}]
  /\ UNCHANGED <<catalog, udf, regVars, values, call>>

(* Mutant: only the tables a call could write are compared.                 *)
CurrentWritable(q) ==
  \A n \in query[q].writable : deregistrations[n] = query[q].count[n]

(* No table of q was removed since it was prepared, as far as the counts    *)
(* tell.                                                                    *)
Current(q) ==
  \A n \in DOMAIN query[q].plan : deregistrations[n] = query[q].count[n]

(* Mutant: NaN and NaT may move.                                            *)
AcceptsAnyMissing(n, d) ==
  LET target == registered[n] IN
  /\ Form[d] = Form[target]
  /\ target \in InMemory

(* _write takes d for the Dataset registered as n. *)
Accepts(n, d) ==
  LET target == registered[n] IN
  /\ Form[d] = Form[target]
  /\ target \in InMemory
  /\ Missing[values[d]] = Missing[values[target]]

(* q(n=given[n], ...), the arguments in order, as far as the end of the     *)
(* checks of __call__ and _write. A call they refuse changes nothing.       *)
Call(q, order, given) ==
  /\ call = None
  /\ query[q] # None
  /\ \A n \in DOMAIN given : n \in query[q].writable
  /\ Current(q)
  /\ \A n \in DOMAIN given : Accepts(n, given[n])
  /\ call' = [q      |-> q,
              given  |-> given,
              copies |-> [i \in DOMAIN order |->
                            <<registered[order[i]], given[order[i]]>>],
              before |-> values]
  /\ UNCHANGED <<tableVars, regVars, values, query>>

(* Mutant: the loop ends after its first Dataset.                           *)
CopyFirst ==
  /\ call # None
  /\ call.copies # << >>
  /\ LET target == Head(call.copies)[1]
         source == Head(call.copies)[2]
     IN  values' = [values EXCEPT ![target] = values[source]]
  /\ call' = [call EXCEPT !.copies = << >>]
  /\ UNCHANGED <<tableVars, regVars, query>>

(* target[...] = values: one Dataset after the other. The values of a       *)
(* Dataset that is not in memory are computed a second time here, and       *)
(* computing them may fail.                                                 *)
Copy ==
  /\ call # None
  /\ call.copies # << >>
  /\ LET target == Head(call.copies)[1]
         source == Head(call.copies)[2]
     IN  values' = [values EXCEPT ![target] = values[source]]
  /\ call' = [call EXCEPT !.copies = Tail(@)]
  /\ UNCHANGED <<tableVars, regVars, query>>

CopyRaises ==
  /\ call # None
  /\ call.copies # << >>
  /\ Head(call.copies)[2] \notin InMemory
  /\ call' = None
  /\ UNCHANGED <<tableVars, regVars, values, query>>

(* The plan runs on the values its tables hold now; rows are returned.      *)
Run ==
  /\ call # None
  /\ call.copies = << >>
  /\ call' = None
  /\ UNCHANGED <<tableVars, regVars, values, query>>

-----------------------------------------------------------------------------
Next ==
  \/ \E n \in Names, d \in Inputs : FromDataset(n, d)
  \/ \E schema \in Schemas :
       \E names \in SUBSET {n \in Names : Home[n] = schema} :
         /\ Cardinality(names) > 1
         /\ \E groups \in [names -> Inputs] : FromGroups(schema, groups)
  \/ \E n \in Names : Deregister(n)
  \/ \E n \in InSql : Create(n) \/ CreateOrReplace(n)
  \/ \E n \in InSql : ForgetView(n) \/ CreateOrReplaceView(n) \/ DropView(n)
  \/ \E schema \in Schemas : DropSchema(schema)
  \/ \E q \in Queries, read \in Reads : Prepare(q, read)
  \/ \E q \in Queries, order \in Orders :
       \E given \in [{order[i] : i \in DOMAIN order} -> Datasets] :
         Call(q, order, given)
  \/ Copy \/ CopyRaises \/ Run

Spec == Init /\ [][Next]_vars
-----------------------------------------------------------------------------
(* Properties. *)

PreparedQueries(read) ==
  [plan     : [read -> Datasets \cup {Foreign}],
   count    : [read -> Nat],
   writable : SUBSET read]

TypeOK ==
  /\ catalog \in [Names -> Datasets \cup {Foreign, View, None}]
  /\ registered \in [Names -> Datasets \cup {None}]
  /\ deregistrations \in [Names -> Nat]
  /\ values \in [Datasets -> Datasets]
  /\ query = [q \in Queries |-> query[q]]
  /\ \A q \in Queries : query[q] # None =>
       \E read \in SUBSET Names : query[q] \in PreparedQueries(read)
  /\ dropped \in [Queries -> SUBSET Names]
  /\ taken \in [Queries -> SUBSET Names]
  /\ suspect \subseteq Names

(* The entry of a name is the Dataset its table reads, except after a       *)
(* from_dataset that raised, or where a table went unseen: in a schema that *)
(* from_dataset or DROP SCHEMA replaced or removed, or to CREATE OR REPLACE *)
(* VIEW. A later registration or removal of the name ends the exception;    *)
(* deregister_table, DROP TABLE and CREATE OR REPLACE TABLE make none.      *)
RegistryMatchesCatalog ==
  \A n \in Names \ suspect :
    registered[n] # None => catalog[n] = registered[n]

(* A call never runs on a table that deregister_table, DROP TABLE or CREATE *)
(* OR REPLACE TABLE removed since its query was prepared, whatever else     *)
(* happened to the name between: registered again, taken unseen, its entry  *)
(* made before and after.                                                   *)
NeverStale == call # None => dropped[call.q] = {}

(* _write finds an entry for every name the checks of __call__ let through. *)
EntryForEveryWrite ==
  \A q \in Queries : query[q] # None /\ Current(q) =>
    \A n \in query[q].writable : registered[n] # None

(* The Datasets a call copies from and to are all different. *)
NoAlias(c) ==
  /\ \A m, n \in DOMAIN c.given : c.given[m] # registered[n]
  /\ \A m, n \in DOMAIN c.given : m # n => registered[m] # registered[n]

(* The table that q reads under the name n holds the values given for n.    *)
Seen(c, n) ==
  /\ query[c.q].plan[n] \in Datasets
  /\ values[query[c.q].plan[n]] = c.before[c.given[n]]

(* When the plan runs, the tables it reads hold the values that were given  *)
(* in the call, except one taken unseen and one whose entry is suspect.     *)
RunSeesWrites ==
  call # None /\ call.copies = << >> /\ NoAlias(call) =>
    \A n \in DOMAIN call.given \ (suspect \cup taken[call.q]) : Seen(call, n)

(* A table works out its NULLs once, when it is registered: whatever is     *)
(* written, in whatever order, they stay where its values are missing.      *)
NullsStay == \A d \in Datasets : Missing[values[d]] = Missing[d]

(* The inductive invariant behind the properties above.                    *)

(* What a prepared query notes is right: the table of a name that was       *)
(* neither dropped nor taken is in the catalog; the count of one that was   *)
(* dropped has moved; and a name it may write has an entry while its count  *)
(* stands.                                                                  *)
Tracks(q) ==
  /\ dropped[q] \cup taken[q] \subseteq DOMAIN query[q].plan
  /\ \A n \in DOMAIN query[q].plan :
       /\ query[q].count[n] <= deregistrations[n]
       /\ n \in dropped[q] => query[q].count[n] < deregistrations[n]
       /\ n \notin dropped[q] \cup taken[q] => catalog[n] = query[q].plan[n]
  /\ \A n \in query[q].writable :
       query[q].count[n] = deregistrations[n] => registered[n] # None

(* The call under way: its query passed the checks, what is left to copy    *)
(* keeps NULLs in place, and without aliases a Dataset given still holds    *)
(* what it held and is in its target or left to copy.                       *)
CallType ==
  /\ call \in [q : Queries, given : {call.given},
               copies : Seq(Datasets \X Datasets),
               before : [Datasets -> Datasets]]
  /\ query[call.q] # None
  /\ Current(call.q)
  /\ call.given \in [DOMAIN call.given -> Datasets]
  /\ DOMAIN call.given \subseteq query[call.q].writable

Left(n) ==
  \E i \in DOMAIN call.copies : call.copies[i] = <<registered[n], call.given[n]>>

Writes ==
  /\ \A i \in DOMAIN call.copies :
       /\ Missing[values[call.copies[i][1]]] = Missing[values[call.copies[i][2]]]
       /\ \E n \in DOMAIN call.given :
            call.copies[i] = <<registered[n], call.given[n]>>
  /\ NoAlias(call) => \A n \in DOMAIN call.given :
       /\ values[call.given[n]] = call.before[call.given[n]]
       /\ Left(n) \/ values[registered[n]] = call.before[call.given[n]]

Inductive ==
  /\ TypeOK
  /\ RegistryMatchesCatalog
  /\ NullsStay
  /\ \A q \in Queries : query[q] # None => Tracks(q)
  /\ call # None => CallType /\ Writes

-----------------------------------------------------------------------------
(* What the documentation says. *)

(* PreparedQuery: "query(w=ds) first writes ds's values into the Dataset    *)
(* registered as w", of a query that reads the table w.                     *)
WritesReachThePlan ==
  call # None /\ call.copies = << >> /\ NoAlias(call) =>
    \A n \in DOMAIN call.given \ taken[call.q] : Seen(call, n)
=============================================================================
