----------------------- MODULE ContextRegistryProofs -----------------------
(***************************************************************************)
(* Proofs about ContextRegistry, for every set of names, schemas, Datasets *)
(* and prepared queries, and any number of removals.                       *)
(***************************************************************************)
EXTENDS ContextRegistry, TLAPS

(* The fields of a prepared query. *)
LEMMA QueryShape ==
  ASSUME TypeOK, NEW q \in Queries, query[q] # None
  PROVE  /\ query[q].plan \in [DOMAIN query[q].plan -> Datasets \cup {Foreign}]
         /\ query[q].count \in [DOMAIN query[q].plan -> Nat]
         /\ query[q].writable \subseteq DOMAIN query[q].plan
         /\ DOMAIN query[q].plan \subseteq Names
<1>1. PICK read \in SUBSET Names : query[q] \in PreparedQueries(read)
  BY DEF TypeOK
<1>2. query[q].plan \in [read -> Datasets \cup {Foreign}]
      /\ query[q].count \in [read -> Nat]
      /\ query[q].writable \in SUBSET read
  BY <1>1 DEF PreparedQueries
<1>3. DOMAIN query[q].plan = read
  BY <1>2
<1>4. QED
  BY <1>2, <1>3

(* A name of a plan whose table has not gone has one. *)
LEMMA FreshHasTable ==
  ASSUME TypeOK, NEW q \in Queries, query[q] # None, Tracks(q),
         NEW n \in DOMAIN query[q].plan, n \notin dropped[q] \cup taken[q]
  PROVE  catalog[n] # None
<1>1. query[q].plan[n] \in Datasets \cup {Foreign}
  BY QueryShape
<1>2. catalog[n] = query[q].plan[n]
  BY DEF Tracks
<1>3. QED
  BY <1>1, <1>2, ContextAssumption

LEMMA InitInductive == Init => Inductive
<1> SUFFICES ASSUME Init PROVE Inductive
  OBVIOUS
<1>1. TypeOK
  BY DEF Init, TypeOK
<1>2. RegistryMatchesCatalog
  BY DEF Init, RegistryMatchesCatalog
<1>3. NullsStay
  BY DEF Init, NullsStay
<1>4. \A q \in Queries : query[q] = None
  BY DEF Init
<1>5. call = None
  BY DEF Init
<1>6. QED
  BY <1>1, <1>2, <1>3, <1>4, <1>5 DEF Inductive

-----------------------------------------------------------------------------
(* Registration. *)

(* What is left to show of a step that registers or removes tables.        *)
LEMMA RegistrationFrame ==
  ASSUME Inductive, call = None, call' = call, values' = values, query' = query,
         catalog' \in [Names -> Datasets \cup {Foreign, View, None}],
         registered' \in [Names -> Datasets \cup {None}],
         deregistrations' \in [Names -> Nat],
         dropped' \in [Queries -> SUBSET Names],
         taken' \in [Queries -> SUBSET Names],
         suspect' \subseteq Names,
         RegistryMatchesCatalog',
         \A q \in Queries : query[q] # None => Tracks(q)'
  PROVE  Inductive'
<1>1. TypeOK'
  BY DEF Inductive, TypeOK
<1>2. NullsStay'
  BY DEF Inductive, NullsStay
<1>3. \A q \in Queries : query'[q] # None => Tracks(q)'
  OBVIOUS
<1>4. call' = None
  OBVIOUS
<1>5. QED
  BY <1>1, <1>2, <1>3, <1>4 DEF Inductive

LEMMA FromDatasetStep ==
  ASSUME Inductive, NEW n \in Names, NEW d \in Inputs, FromDataset(n, d)
  PROVE  Inductive'
<1>1. TypeOK /\ RegistryMatchesCatalog /\ d \in Datasets
  BY ContextAssumption DEF Inductive
<1>2. /\ registered' = [registered EXCEPT ![n] = d]
      /\ deregistrations' = deregistrations
      /\ dropped' = dropped /\ taken' = taken
      /\ call = None /\ call' = call /\ values' = values /\ query' = query
  BY DEF FromDataset
<1>3. \/ catalog[n] = None /\ catalog' = [catalog EXCEPT ![n] = d]
         /\ suspect' = suspect \ {n}
      \/ catalog' = catalog /\ suspect' = suspect \cup {n}
  BY DEF FromDataset
<1>4. /\ catalog' \in [Names -> Datasets \cup {Foreign, View, None}]
      /\ registered' \in [Names -> Datasets \cup {None}]
      /\ suspect' \subseteq Names
  BY <1>1, <1>2, <1>3 DEF TypeOK
<1>5. RegistryMatchesCatalog'
  BY <1>1, <1>2, <1>3 DEF TypeOK, RegistryMatchesCatalog
<1>6. ASSUME NEW q \in Queries, query[q] # None
      PROVE  Tracks(q)'
  <2>1. Tracks(q)
    BY <1>6 DEF Inductive
  <2>2. \A m \in Names : catalog[m] # None => catalog'[m] = catalog[m]
    BY <1>1, <1>3 DEF TypeOK
  <2>3. \A m \in Names : registered[m] # None => registered'[m] # None
    BY <1>1, <1>2, ContextAssumption DEF TypeOK
  <2>4. DOMAIN query[q].plan \subseteq Names
        /\ query[q].writable \subseteq DOMAIN query[q].plan
    BY <1>1, <1>6, QueryShape
  <2>5. \A m \in DOMAIN query[q].plan \ (dropped[q] \cup taken[q]) :
          catalog[m] # None
    BY <1>1, <1>6, <2>1, FreshHasTable
  <2>6. QED
    BY <1>2, <2>1, <2>2, <2>3, <2>4, <2>5 DEF Tracks
<1>7. /\ deregistrations' \in [Names -> Nat]
      /\ dropped' \in [Queries -> SUBSET Names]
      /\ taken' \in [Queries -> SUBSET Names]
  BY <1>1, <1>2 DEF TypeOK
<1>8. QED
  BY <1>2, <1>4, <1>5, <1>6, <1>7, RegistrationFrame

LEMMA CreateStep ==
  ASSUME Inductive, NEW n \in Names, Create(n)
  PROVE  Inductive'
<1>1. TypeOK /\ RegistryMatchesCatalog
  BY DEF Inductive
<1>2. /\ registered' = registered /\ deregistrations' = deregistrations
      /\ dropped' = dropped /\ taken' = taken /\ suspect' = suspect
      /\ call = None /\ call' = call /\ values' = values /\ query' = query
      /\ catalog[n] = None
      /\ \E table \in {Foreign, View} : catalog' = [catalog EXCEPT ![n] = table]
  BY DEF Create, regVars
<1>3. catalog' \in [Names -> Datasets \cup {Foreign, View, None}]
  BY <1>1, <1>2 DEF TypeOK
<1>4. RegistryMatchesCatalog'
  BY <1>1, <1>2, ContextAssumption DEF TypeOK, RegistryMatchesCatalog
<1>5. ASSUME NEW q \in Queries, query[q] # None
      PROVE  Tracks(q)'
  <2>1. Tracks(q)
    BY <1>5 DEF Inductive
  <2>2. \A m \in Names : catalog[m] # None => catalog'[m] = catalog[m]
    BY <1>1, <1>2 DEF TypeOK
  <2>3. DOMAIN query[q].plan \subseteq Names
    BY <1>1, <1>5, QueryShape
  <2>4. \A m \in DOMAIN query[q].plan \ (dropped[q] \cup taken[q]) :
          catalog[m] # None
    BY <1>1, <1>5, <2>1, FreshHasTable
  <2>5. QED
    BY <1>2, <2>1, <2>2, <2>3, <2>4 DEF Tracks
<1>6. /\ registered' \in [Names -> Datasets \cup {None}]
      /\ deregistrations' \in [Names -> Nat]
      /\ dropped' \in [Queries -> SUBSET Names]
      /\ taken' \in [Queries -> SUBSET Names] /\ suspect' \subseteq Names
  BY <1>1, <1>2 DEF TypeOK
<1>7. QED
  BY <1>2, <1>3, <1>4, <1>5, <1>6, RegistrationFrame

(* Marked adds the names of a plan whose tables go to a history.           *)
LEMMA MarkedType ==
  ASSUME NEW history \in [Queries -> SUBSET Names], NEW gone \in SUBSET Names
  PROVE  /\ Marked(history, gone) \in [Queries -> SUBSET Names]
         /\ \A q \in Queries : query[q] # None =>
              Marked(history, gone)[q] = history[q] \cup
                {n \in gone \cap DOMAIN query[q].plan : catalog[n] # None}
<1>1. \A q \in Queries : history[q] \subseteq Names
  OBVIOUS
<1>2. \A q \in Queries :
        Marked(history, gone)[q] =
          IF query[q] = None THEN {}
          ELSE history[q] \cup
                {n \in gone \cap DOMAIN query[q].plan : catalog[n] # None}
  BY DEF Marked
<1>3. Marked(history, gone) \in [Queries -> SUBSET Names]
  BY <1>1 DEF Marked
<1>4. QED
  BY <1>2, <1>3

(* A table that is removed and forgotten, whatever takes its place. *)
LEMMA RemovalStep ==
  ASSUME Inductive, NEW n \in Names,
         NEW table \in {Foreign, None},
         catalog' = [catalog EXCEPT ![n] = table],
         Forget(n), Dropped({n}),
         call = None, call' = call, values' = values, query' = query
  PROVE  Inductive'
<1>1. TypeOK /\ RegistryMatchesCatalog
  BY DEF Inductive
<1>2. /\ registered' = [registered EXCEPT ![n] = None]
      /\ deregistrations' = [deregistrations EXCEPT ![n] = @ + 1]
      /\ suspect' = suspect \ {n}
  BY DEF Forget
<1>3. /\ catalog' \in [Names -> Datasets \cup {Foreign, View, None}]
      /\ registered' \in [Names -> Datasets \cup {None}]
      /\ deregistrations' \in [Names -> Nat]
      /\ suspect' \subseteq Names
  BY <1>1, <1>2 DEF TypeOK
<1>4. RegistryMatchesCatalog'
  BY <1>1, <1>2 DEF TypeOK, RegistryMatchesCatalog
<1>5. /\ dropped' \in [Queries -> SUBSET Names]
      /\ taken' = taken /\ taken' \in [Queries -> SUBSET Names]
      /\ \A q \in Queries : query[q] # None =>
           dropped'[q] = dropped[q] \cup
             {m \in {n} \cap DOMAIN query[q].plan : catalog[m] # None}
  BY <1>1, MarkedType DEF Dropped, TypeOK
<1>6. ASSUME NEW q \in Queries, query[q] # None
      PROVE  Tracks(q)'
  <2>1. Tracks(q)
    BY <1>6 DEF Inductive
  <2>2. /\ DOMAIN query[q].plan \subseteq Names
        /\ query[q].writable \subseteq DOMAIN query[q].plan
        /\ query[q].count \in [DOMAIN query[q].plan -> Nat]
    BY <1>1, <1>6, QueryShape
  <2>3. \A m \in Names : m # n => catalog'[m] = catalog[m]
                             /\ registered'[m] = registered[m]
                             /\ deregistrations'[m] = deregistrations[m]
    BY <1>1, <1>2 DEF TypeOK
  <2>4. deregistrations[n] \in Nat /\ deregistrations'[n] = deregistrations[n] + 1
    BY <1>1, <1>2 DEF TypeOK
  <2>5. \A m \in DOMAIN query[q].plan \ (dropped[q] \cup taken[q]) :
          catalog[m] # None
    BY <1>1, <1>6, <2>1, FreshHasTable
  <2>6. dropped'[q] \cup taken'[q] \subseteq DOMAIN query[q].plan
    BY <1>5, <1>6, <2>1 DEF Tracks
  <2>7. ASSUME NEW m \in DOMAIN query[q].plan
        PROVE  /\ query[q].count[m] <= deregistrations'[m]
               /\ m \in dropped'[q] => query[q].count[m] < deregistrations'[m]
               /\ m \notin dropped'[q] \cup taken'[q] =>
                    catalog'[m] = query[q].plan[m]
    <3>1. /\ query[q].count[m] \in Nat /\ query[q].count[m] <= deregistrations[m]
          /\ m \in dropped[q] => query[q].count[m] < deregistrations[m]
          /\ m \notin dropped[q] \cup taken[q] => catalog[m] = query[q].plan[m]
      BY <2>1, <2>2 DEF Tracks
    <3>2. CASE m = n
      <4>1. query[q].count[n] < deregistrations'[n]
        BY <2>4, <3>1, <3>2
      <4>2. m \in dropped'[q] \cup taken'[q]
        BY <1>5, <1>6, <2>5, <3>2
      <4>3. query[q].count[n] <= deregistrations'[n]
        BY <2>4, <3>1, <3>2
      <4>4. QED
        BY <3>2, <4>1, <4>2, <4>3
    <3>3. CASE m # n
      <4>1. /\ m \in dropped'[q] <=> m \in dropped[q]
            /\ m \in taken'[q] <=> m \in taken[q]
        BY <1>5, <1>6, <3>3
      <4>2. QED
        BY <2>2, <2>3, <3>1, <3>3, <4>1
    <3>4. QED
      BY <3>2, <3>3
  <2>8. ASSUME NEW m \in query[q].writable,
               query[q].count[m] = deregistrations'[m]
        PROVE  registered'[m] # None
    <3>1. m # n
      BY <2>1, <2>2, <2>4, <2>8 DEF Tracks
    <3>2. QED
      BY <2>1, <2>2, <2>3, <2>8, <3>1 DEF Tracks
  <2>9. QED
    BY <2>6, <2>7, <2>8 DEF Tracks
<1>7. QED
  BY <1>3, <1>4, <1>5, <1>6, RegistrationFrame

(* A schema that is replaced, and the groups registered in the new one.    *)
LEMMA FromGroupsStep ==
  ASSUME Inductive, NEW schema \in Schemas,
         NEW names \in SUBSET {n \in Names : Home[n] = schema},
         NEW groups \in [names -> Inputs], FromGroups(schema, groups)
  PROVE  Inductive'
<1>1. TypeOK /\ RegistryMatchesCatalog
  BY DEF Inductive
<1>2. PICK made \in SUBSET names :
        /\ catalog' = [n \in Names |-> IF n \in made THEN groups[n]
                                       ELSE IF Home[n] = schema THEN None
                                       ELSE catalog[n]]
        /\ registered' = [n \in Names |-> IF n \in made THEN groups[n]
                                          ELSE registered[n]]
        /\ suspect' = (suspect \ made) \cup
             {n \in Names \ made : Home[n] = schema /\ registered[n] # None}
  BY DEF FromGroups
<1>3. /\ deregistrations' = deregistrations /\ schema # Public
      /\ call = None /\ call' = call /\ values' = values /\ query' = query
      /\ taken' = Marked(taken, {n \in Names : Home[n] = schema})
      /\ dropped' = dropped
  BY DEF FromGroups
<1>4. \A n \in made : groups[n] \in Datasets /\ n \in Names /\ Home[n] = schema
  BY ContextAssumption
<1>5. /\ catalog' \in [Names -> Datasets \cup {Foreign, View, None}]
      /\ registered' \in [Names -> Datasets \cup {None}]
      /\ deregistrations' \in [Names -> Nat]
      /\ suspect' \subseteq Names
  BY <1>1, <1>2, <1>3, <1>4 DEF TypeOK
<1>6. RegistryMatchesCatalog'
  BY <1>1, <1>2, <1>4 DEF RegistryMatchesCatalog
<1>7. /\ taken' \in [Queries -> SUBSET Names]
      /\ dropped' \in [Queries -> SUBSET Names]
      /\ \A q \in Queries : query[q] # None =>
           taken'[q] = taken[q] \cup
             {m \in {n \in Names : Home[n] = schema} \cap DOMAIN query[q].plan :
                catalog[m] # None}
  BY <1>1, <1>3, MarkedType DEF TypeOK
<1>8. ASSUME NEW q \in Queries, query[q] # None
      PROVE  Tracks(q)'
  <2>1. Tracks(q)
    BY <1>8 DEF Inductive
  <2>2. /\ DOMAIN query[q].plan \subseteq Names
        /\ query[q].writable \subseteq DOMAIN query[q].plan
    BY <1>1, <1>8, QueryShape
  <2>3. \A m \in DOMAIN query[q].plan \ (dropped[q] \cup taken[q]) :
          catalog[m] # None
    BY <1>1, <1>8, <2>1, FreshHasTable
  <2>4. dropped'[q] \cup taken'[q] \subseteq DOMAIN query[q].plan
    BY <1>3, <1>7, <1>8, <2>1 DEF Tracks
  <2>5. dropped'[q] = dropped[q]
    BY <1>3
  <2>6. \A m \in DOMAIN query[q].plan \ (dropped'[q] \cup taken'[q]) :
          m \notin dropped[q] \cup taken[q] /\ Home[m] # schema
    BY <1>3, <1>7, <1>8, <2>2, <2>3
  <2>7. \A m \in DOMAIN query[q].plan \ (dropped'[q] \cup taken'[q]) :
          catalog'[m] = query[q].plan[m]
    BY <1>2, <1>4, <2>1, <2>2, <2>6 DEF Tracks
  <2>8. \A m \in Names : registered[m] # None => registered'[m] # None
    BY <1>2, <1>4, ContextAssumption
  <2>9. QED
    BY <1>3, <2>1, <2>2, <2>4, <2>5, <2>7, <2>8 DEF Tracks
<1>9. QED
  BY <1>3, <1>5, <1>6, <1>7, <1>8, RegistrationFrame

(* Tables that go unseen. *)
LEMMA TakenStep ==
  ASSUME Inductive, NEW gone \in SUBSET Names, NEW table \in {View, None},
         catalog' = [n \in Names |-> IF n \in gone THEN table ELSE catalog[n]],
         Taken(gone),
         call = None, call' = call, values' = values, query' = query
  PROVE  Inductive'
<1>1. TypeOK /\ RegistryMatchesCatalog
  BY DEF Inductive
<1>2. /\ registered' = registered /\ deregistrations' = deregistrations
      /\ dropped' = dropped /\ taken' = Marked(taken, gone)
      /\ suspect' = suspect \cup {n \in gone : registered[n] # None}
  BY DEF Taken
<1>3. /\ catalog' \in [Names -> Datasets \cup {Foreign, View, None}]
      /\ registered' \in [Names -> Datasets \cup {None}]
      /\ deregistrations' \in [Names -> Nat]
      /\ suspect' \subseteq Names
  BY <1>1, <1>2 DEF TypeOK
<1>4. RegistryMatchesCatalog'
  BY <1>1, <1>2 DEF RegistryMatchesCatalog
<1>5. /\ taken' \in [Queries -> SUBSET Names]
      /\ dropped' \in [Queries -> SUBSET Names]
      /\ \A q \in Queries : query[q] # None =>
           taken'[q] = taken[q] \cup
             {m \in gone \cap DOMAIN query[q].plan : catalog[m] # None}
  BY <1>1, <1>2, MarkedType DEF TypeOK
<1>6. ASSUME NEW q \in Queries, query[q] # None
      PROVE  Tracks(q)'
  <2>1. Tracks(q)
    BY <1>6 DEF Inductive
  <2>2. DOMAIN query[q].plan \subseteq Names
    BY <1>1, <1>6, QueryShape
  <2>3. \A m \in DOMAIN query[q].plan \ (dropped[q] \cup taken[q]) :
          catalog[m] # None
    BY <1>1, <1>6, <2>1, FreshHasTable
  <2>4. dropped'[q] \cup taken'[q] \subseteq DOMAIN query[q].plan
    BY <1>2, <1>5, <1>6, <2>1 DEF Tracks
  <2>5. \A m \in DOMAIN query[q].plan \ (dropped'[q] \cup taken'[q]) :
          m \notin dropped[q] \cup taken[q] /\ m \notin gone
    BY <1>2, <1>5, <1>6, <2>3
  <2>6. \A m \in DOMAIN query[q].plan \ (dropped'[q] \cup taken'[q]) :
          catalog'[m] = query[q].plan[m]
    BY <2>1, <2>2, <2>5 DEF Tracks
  <2>7. QED
    BY <1>2, <2>1, <2>4, <2>6 DEF Tracks
<1>7. QED
  BY <1>3, <1>4, <1>5, <1>6, RegistrationFrame

LEMMA CreateOrReplaceViewStep ==
  ASSUME Inductive, NEW n \in Names, CreateOrReplaceView(n)
  PROVE  Inductive'
<1>1. catalog \in [Names -> Datasets \cup {Foreign, View, None}]
  BY DEF Inductive, TypeOK
<1>2. catalog' = [m \in Names |-> IF m \in {n} THEN View ELSE catalog[m]]
  BY <1>1 DEF CreateOrReplaceView
<1>3. QED
  BY <1>2, TakenStep DEF CreateOrReplaceView

LEMMA DropViewStep ==
  ASSUME Inductive, NEW n \in Names, DropView(n)
  PROVE  Inductive'
<1>1. catalog \in [Names -> Datasets \cup {Foreign, View, None}]
  BY DEF Inductive, TypeOK
<1>2. catalog' = [m \in Names |-> IF m \in {n} THEN None ELSE catalog[m]]
  BY <1>1 DEF DropView
<1>3. QED
  BY <1>2, TakenStep DEF DropView

LEMMA DropSchemaStep ==
  ASSUME Inductive, NEW schema \in Schemas, DropSchema(schema)
  PROVE  Inductive'
<1> DEFINE gone == {n \in Names : Home[n] = schema}
<1>1. catalog' = [n \in Names |-> IF n \in gone THEN None ELSE catalog[n]]
  BY DEF DropSchema
<1>2. Taken(gone) /\ gone \in SUBSET Names
  BY DEF DropSchema
<1> HIDE DEF gone
<1>3. QED
  BY <1>1, <1>2, TakenStep DEF DropSchema

(* A view that is forgotten though it stays. *)
LEMMA ForgetViewStep ==
  ASSUME Inductive, NEW n \in Names, ForgetView(n)
  PROVE  Inductive'
<1>1. TypeOK /\ RegistryMatchesCatalog
  BY DEF Inductive
<1>2. /\ registered' = [registered EXCEPT ![n] = None]
      /\ deregistrations' = [deregistrations EXCEPT ![n] = @ + 1]
      /\ suspect' = suspect \ {n} /\ catalog' = catalog
      /\ dropped' = dropped /\ taken' = taken
      /\ call = None /\ call' = call /\ values' = values /\ query' = query
  BY DEF ForgetView, Forget, tableVars
<1>3. /\ catalog' \in [Names -> Datasets \cup {Foreign, View, None}]
      /\ registered' \in [Names -> Datasets \cup {None}]
      /\ deregistrations' \in [Names -> Nat]
      /\ dropped' \in [Queries -> SUBSET Names]
      /\ taken' \in [Queries -> SUBSET Names]
      /\ suspect' \subseteq Names
  BY <1>1, <1>2 DEF TypeOK
<1>4. RegistryMatchesCatalog'
  BY <1>1, <1>2 DEF TypeOK, RegistryMatchesCatalog
<1>5. ASSUME NEW q \in Queries, query[q] # None
      PROVE  Tracks(q)'
  <2>1. Tracks(q)
    BY <1>5 DEF Inductive
  <2>2. /\ DOMAIN query[q].plan \subseteq Names
        /\ query[q].writable \subseteq DOMAIN query[q].plan
        /\ query[q].count \in [DOMAIN query[q].plan -> Nat]
    BY <1>1, <1>5, QueryShape
  <2>3. \A m \in Names : m # n => /\ registered'[m] = registered[m]
                                  /\ deregistrations'[m] = deregistrations[m]
    BY <1>1, <1>2 DEF TypeOK
  <2>4. deregistrations[n] \in Nat /\ deregistrations'[n] = deregistrations[n] + 1
    BY <1>1, <1>2 DEF TypeOK
  <2>5. ASSUME NEW m \in DOMAIN query[q].plan
        PROVE  /\ query[q].count[m] <= deregistrations'[m]
               /\ m \in dropped[q] => query[q].count[m] < deregistrations'[m]
               /\ m \notin dropped[q] \cup taken[q] =>
                    catalog[m] = query[q].plan[m]
    <3>1. /\ query[q].count[m] \in Nat /\ query[q].count[m] <= deregistrations[m]
          /\ m \in dropped[q] => query[q].count[m] < deregistrations[m]
          /\ m \notin dropped[q] \cup taken[q] => catalog[m] = query[q].plan[m]
      BY <2>1, <2>2 DEF Tracks
    <3>2. CASE m = n
      BY <2>4, <3>1, <3>2
    <3>3. CASE m # n
      BY <2>2, <2>3, <3>1, <3>3
    <3>4. QED
      BY <3>2, <3>3
  <2>6. ASSUME NEW m \in query[q].writable,
               query[q].count[m] = deregistrations'[m]
        PROVE  registered'[m] # None
    <3>1. m # n
      BY <2>1, <2>2, <2>4, <2>6 DEF Tracks
    <3>2. QED
      BY <2>1, <2>2, <2>3, <2>6, <3>1 DEF Tracks
  <2>7. QED
    BY <1>2, <2>1, <2>5, <2>6 DEF Tracks
<1>6. QED
  BY <1>2, <1>3, <1>4, <1>5, RegistrationFrame

-----------------------------------------------------------------------------
(* Prepared queries. *)

LEMMA PrepareStep ==
  ASSUME Inductive, NEW q \in Queries, NEW read \in Reads, Prepare(q, read)
  PROVE  Inductive'
<1> DEFINE made == [plan     |-> [n \in read |-> catalog[n]],
                    count    |-> [n \in read |-> deregistrations[n]],
                    writable |-> {n \in read : registered[n] # None}]
<1>1. TypeOK /\ read \in SUBSET Names
  BY ContextAssumption DEF Inductive
<1>2. /\ query' = [query EXCEPT ![q] = made]
      /\ dropped' = [dropped EXCEPT ![q] = {}]
      /\ taken' = [taken EXCEPT ![q] = {}]
      /\ catalog' = catalog /\ registered' = registered
      /\ deregistrations' = deregistrations /\ suspect' = suspect
      /\ values' = values /\ call = None /\ call' = call
      /\ \A n \in read : catalog[n] \notin {None, View}
  BY DEF Prepare, regVars
<1>3. made \in PreparedQueries(read)
  BY <1>1, <1>2 DEF TypeOK, PreparedQueries
<1>4. \A p \in Queries : IF p = q THEN dropped'[p] = {} /\ taken'[p] = {}
                          ELSE dropped'[p] = dropped[p] /\ taken'[p] = taken[p]
  BY <1>1, <1>2 DEF TypeOK
<1>5. \A p \in Queries : p # q => query'[p] = query[p]
  BY <1>2
<1>6. query'[q] = made
  BY <1>1, <1>2 DEF TypeOK
<1>7. query' = [p \in Queries |-> query'[p]]
  BY <1>1, <1>2 DEF TypeOK
<1>8. TypeOK'
  <2>1. ASSUME NEW p \in Queries, query'[p] # None
        PROVE  \E r \in SUBSET Names : query'[p] \in PreparedQueries(r)
    BY <1>1, <1>3, <1>5, <1>6, <2>1 DEF TypeOK
  <2>2. /\ dropped' \in [Queries -> SUBSET Names]
        /\ taken' \in [Queries -> SUBSET Names]
    BY <1>1, <1>2 DEF TypeOK
  <2>3. QED
    BY <1>1, <1>2, <1>7, <2>1, <2>2 DEF TypeOK
<1>9. RegistryMatchesCatalog' /\ NullsStay'
  BY <1>2 DEF Inductive, RegistryMatchesCatalog, NullsStay
<1>10. ASSUME NEW p \in Queries, query'[p] # None
       PROVE  Tracks(p)'
  <2>1. CASE p = q
    <3>1. /\ DOMAIN query'[q].plan = read
          /\ \A n \in read : query'[q].plan[n] = catalog[n]
                          /\ query'[q].count[n] = deregistrations[n]
          /\ query'[q].writable = {n \in read : registered[n] # None}
      BY <1>6
    <3>2. \A n \in read : deregistrations[n] \in Nat
      BY <1>1 DEF TypeOK
    <3>3. QED
      BY <1>2, <1>4, <2>1, <3>1, <3>2 DEF Tracks
  <2>2. CASE p # q
    BY <1>2, <1>4, <1>5, <1>10, <2>2 DEF Inductive, Tracks
  <2>3. QED
    BY <2>1, <2>2
<1>11. QED
  BY <1>2, <1>8, <1>9, <1>10 DEF Inductive

(* A call writes nothing of the registry: what is left to show of its steps. *)
LEMMA CallFrame ==
  ASSUME Inductive, catalog' = catalog, registered' = registered,
         deregistrations' = deregistrations, suspect' = suspect,
         dropped' = dropped, taken' = taken, query' = query,
         values' \in [Datasets -> Datasets], NullsStay',
         call' # None => (CallType /\ Writes)'
  PROVE  Inductive'
<1>1. TypeOK'
  BY DEF Inductive, TypeOK
<1>2. RegistryMatchesCatalog'
  BY DEF Inductive, RegistryMatchesCatalog
<1>3. \A q \in Queries : query'[q] # None => Tracks(q)'
  BY DEF Inductive, Tracks
<1>4. QED
  BY <1>1, <1>2, <1>3 DEF Inductive

(* The names a call writes have entries, which EntryForEveryWrite states.   *)
LEMMA EntriesStand ==
  ASSUME Inductive, NEW q \in Queries, query[q] # None, Current(q),
         NEW n \in query[q].writable
  PROVE  n \in Names /\ registered[n] \in Datasets
<1>1. TypeOK /\ Tracks(q)
  BY DEF Inductive
<1>2. n \in DOMAIN query[q].plan /\ n \in Names
  BY <1>1, QueryShape
<1>3. registered[n] # None
  BY <1>1, <1>2 DEF Current, Tracks
<1>4. QED
  BY <1>1, <1>2, <1>3 DEF TypeOK

LEMMA RegisteredWrites ==
  ASSUME Inductive, call # None, NEW n \in DOMAIN call.given
  PROVE  n \in Names /\ registered[n] \in Datasets
<1>1. CallType
  BY DEF Inductive
<1>2. call.q \in Queries /\ n \in query[call.q].writable
  BY <1>1 DEF CallType
<1>3. QED
  BY <1>1, <1>2, EntriesStand DEF CallType

LEMMA CallStep ==
  ASSUME Inductive, NEW q \in Queries, NEW order \in Orders,
         NEW given \in [{order[i] : i \in DOMAIN order} -> Datasets],
         Call(q, order, given)
  PROVE  Inductive'
<1> DEFINE copies == [i \in DOMAIN order |->
                        <<registered[order[i]], given[order[i]]>>]
<1>1. TypeOK /\ NullsStay /\ order \in Seq(Names)
  BY ContextAssumption DEF Inductive
<1>2. /\ catalog' = catalog /\ registered' = registered
      /\ deregistrations' = deregistrations /\ suspect' = suspect
      /\ dropped' = dropped /\ taken' = taken /\ query' = query /\ values' = values
      /\ query[q] # None /\ Current(q)
      /\ call' = [q |-> q, given |-> given, copies |-> copies, before |-> values]
  BY DEF Call, regVars, tableVars
<1>3. \A n \in DOMAIN given : n \in query[q].writable /\ Accepts(n, given[n])
  BY DEF Call
<1>4. \A i \in DOMAIN order : order[i] \in DOMAIN given
  OBVIOUS
<1>5. \A n \in DOMAIN given : n \in Names /\ registered[n] \in Datasets
  <2>1. TAKE n \in DOMAIN given
  <2>2. n \in query[q].writable /\ registered[n] \in InMemory
    BY <1>3 DEF Accepts
  <2>3. QED
    BY <1>1, <1>2, <2>2, QueryShape, ContextAssumption
<1>6. copies \in Seq(Datasets \X Datasets)
  <2>1. Len(order) \in Nat /\ DOMAIN order = 1..Len(order)
    BY <1>1
  <2>2. \A i \in DOMAIN order :
          <<registered[order[i]], given[order[i]]>> \in Datasets \X Datasets
    BY <1>4, <1>5
  <2>3. copies \in [1..Len(order) -> Datasets \X Datasets]
    BY <2>1, <2>2
  <2> HIDE DEF copies
  <2>4. QED
    BY <2>1, <2>3
<1>7. NullsStay'
  BY <1>1, <1>2 DEF NullsStay
<1>8. /\ call'.q = q /\ call'.given = given /\ call'.copies = copies
      /\ call'.before = values
  BY <1>2
<1>9. CallType'
  <2>1. call' \in [q : Queries, given : {given},
                   copies : Seq(Datasets \X Datasets),
                   before : [Datasets -> Datasets]]
    BY <1>1, <1>2, <1>6 DEF TypeOK
  <2>2. Current(q)'
    BY <1>2 DEF Current
  <2>3. DOMAIN given \subseteq query[q].writable
    BY <1>3
  <2>4. given \in [DOMAIN given -> Datasets]
    OBVIOUS
  <2>5. QED
    BY <1>2, <1>8, <2>1, <2>2, <2>3, <2>4 DEF CallType, Current
<1>10. Writes'
  <2>1. ASSUME NEW i \in DOMAIN copies
        PROVE  /\ Missing[values[copies[i][1]]] = Missing[values[copies[i][2]]]
               /\ \E n \in DOMAIN given : copies[i] = <<registered[n], given[n]>>
    BY <1>3, <1>4, <2>1 DEF Accepts
  <2>2. \A n \in DOMAIN given : \E i \in DOMAIN copies :
          copies[i] = <<registered[n], given[n]>>
    OBVIOUS
  <2> HIDE DEF copies
  <2>3. QED
    BY <1>2, <1>8, <2>1, <2>2 DEF Writes, Left
<1>11. QED
  BY <1>1, <1>2, <1>7, <1>9, <1>10, CallFrame DEF TypeOK

LEMMA CopyStep ==
  ASSUME Inductive, Copy
  PROVE  Inductive'
<1> DEFINE target == Head(call.copies)[1]
           source == Head(call.copies)[2]
<1>1. /\ TypeOK /\ NullsStay /\ CallType /\ Writes
      /\ call # None /\ call.copies # << >>
  BY DEF Inductive, Copy
<1>2. /\ catalog' = catalog /\ registered' = registered
      /\ deregistrations' = deregistrations /\ suspect' = suspect
      /\ dropped' = dropped /\ taken' = taken /\ query' = query
      /\ values' = [values EXCEPT ![target] = values[source]]
      /\ call' = [call EXCEPT !.copies = Tail(@)]
  BY DEF Copy, regVars, tableVars
<1>3. /\ call.copies \in Seq(Datasets \X Datasets)
      /\ call'.q = call.q /\ call'.given = call.given
      /\ call'.before = call.before /\ call'.copies = Tail(call.copies)
      /\ call' \in [q : Queries, given : {call.given},
                     copies : Seq(Datasets \X Datasets),
                     before : [Datasets -> Datasets]]
  <2>1. call \in [q : Queries, given : {call.given},
                  copies : Seq(Datasets \X Datasets),
                  before : [Datasets -> Datasets]]
    BY <1>1 DEF CallType
  <2>2. call.copies \in Seq(Datasets \X Datasets)
    BY <2>1
  <2>3. Tail(call.copies) \in Seq(Datasets \X Datasets)
    BY <1>1, <2>2
  <2> DEFINE rest == Tail(call.copies)
  <2>4. call' = [call EXCEPT !.copies = rest]
    BY <1>2
  <2>5. rest \in Seq(Datasets \X Datasets)
    BY <2>3
  <2> HIDE DEF rest
  <2>6. /\ call'.q = call.q /\ call'.given = call.given
        /\ call'.before = call.before /\ call'.copies = rest
    BY <2>1, <2>4
  <2>7. call' \in [q : Queries, given : {call.given},
                   copies : Seq(Datasets \X Datasets),
                   before : [Datasets -> Datasets]]
    BY <2>1, <2>4, <2>5
  <2>8. QED
    BY <2>2, <2>6, <2>7 DEF rest
<1>4. /\ 1 \in DOMAIN call.copies /\ Head(call.copies) = call.copies[1]
      /\ Len(call.copies) \in Nat /\ DOMAIN call.copies = 1..Len(call.copies)
      /\ DOMAIN Tail(call.copies) = 1..(Len(call.copies) - 1)
      /\ \A i \in 1..(Len(call.copies) - 1) :
           Tail(call.copies)[i] = call.copies[i + 1]
  BY <1>1, <1>3
<1>5. target \in Datasets /\ source \in Datasets
  BY <1>3, <1>4
<1>6. Missing[values[target]] = Missing[values[source]]
  BY <1>1, <1>4 DEF Writes
<1> HIDE DEF target, source
<1>7. /\ values' \in [Datasets -> Datasets]
      /\ values'[target] = values[source]
      /\ \A d \in Datasets : d # target => values'[d] = values[d]
      /\ \A d \in Datasets : Missing[values'[d]] = Missing[values[d]]
  BY <1>1, <1>2, <1>5, <1>6 DEF TypeOK
<1>8. NullsStay'
  BY <1>1, <1>7 DEF NullsStay
<1>9. CallType'
  BY <1>1, <1>2, <1>3 DEF CallType, Current
<1>10. ASSUME NEW i \in DOMAIN Tail(call.copies)
       PROVE  /\ Missing[values'[Tail(call.copies)[i][1]]]
                    = Missing[values'[Tail(call.copies)[i][2]]]
              /\ \E n \in DOMAIN call.given :
                   Tail(call.copies)[i] = <<registered[n], call.given[n]>>
  <2>1. i + 1 \in DOMAIN call.copies /\ Tail(call.copies)[i] = call.copies[i + 1]
    BY <1>4
  <2>2. call.copies[i + 1][1] \in Datasets /\ call.copies[i + 1][2] \in Datasets
    BY <1>3, <2>1
  <2>3. QED
    BY <1>1, <1>7, <2>1, <2>2 DEF Writes
<1>11. ASSUME NoAlias(call), NEW n \in DOMAIN call.given
       PROVE  /\ values'[call.given[n]] = call.before[call.given[n]]
              /\ \/ \E i \in DOMAIN Tail(call.copies) :
                      Tail(call.copies)[i] = <<registered[n], call.given[n]>>
                 \/ values'[registered[n]] = call.before[call.given[n]]
  <2>1. PICK m \in DOMAIN call.given :
          target = registered[m] /\ source = call.given[m]
    BY <1>1, <1>4 DEF Writes, target, source
  <2>2. call.given[n] \in Datasets /\ call.given[n] # target
    BY <1>1, <1>11, <2>1 DEF CallType, NoAlias
  <2>3. /\ values[call.given[n]] = call.before[call.given[n]]
        /\ Left(n) \/ values[registered[n]] = call.before[call.given[n]]
    BY <1>1, <1>11 DEF Writes
  <2>4. values'[call.given[n]] = call.before[call.given[n]]
    BY <1>7, <2>2, <2>3
  <2>5. CASE n = m
    BY <1>7, <2>1, <2>3, <2>4, <2>5
  <2>6. CASE n # m
    <3>1. registered[n] # target
      BY <1>11, <2>1, <2>6 DEF NoAlias
    <3>2. CASE Left(n)
      <4>1. PICK i \in DOMAIN call.copies :
              call.copies[i] = <<registered[n], call.given[n]>>
        BY <3>2 DEF Left
      <4>2. i # 1
        BY <1>4, <3>1, <4>1 DEF target
      <4>3. i - 1 \in DOMAIN Tail(call.copies)
            /\ Tail(call.copies)[i - 1] = call.copies[i]
        BY <1>4, <4>2
      <4>4. QED
        BY <2>4, <4>1, <4>3
    <3>3. CASE values[registered[n]] = call.before[call.given[n]]
      <4>1. registered[n] \in Datasets
        BY <1>1, <1>11, RegisteredWrites
      <4>2. QED
        BY <1>7, <2>4, <3>1, <3>3, <4>1
    <3>4. QED
      BY <2>3, <3>2, <3>3
  <2>7. QED
    BY <2>5, <2>6
<1>5a. Writes'
  <2>1. NoAlias(call)' => NoAlias(call)
    BY <1>2, <1>3 DEF NoAlias
  <2>2. \A i \in DOMAIN call'.copies :
          /\ Missing[values'[call'.copies[i][1]]]
                = Missing[values'[call'.copies[i][2]]]
          /\ \E n \in DOMAIN call'.given :
               call'.copies[i] = <<registered'[n], call'.given[n]>>
    BY <1>2, <1>3, <1>10
  <2>3. ASSUME NoAlias(call)', NEW n \in DOMAIN call'.given
        PROVE  /\ values'[call'.given[n]] = call'.before[call'.given[n]]
               /\ \/ Left(n)'
                  \/ values'[registered'[n]] = call'.before[call'.given[n]]
    <3>1. NoAlias(call) /\ n \in DOMAIN call.given
      BY <1>3, <2>1, <2>3
    <3>2. /\ values'[call.given[n]] = call.before[call.given[n]]
          /\ \/ \E i \in DOMAIN Tail(call.copies) :
                  Tail(call.copies)[i] = <<registered[n], call.given[n]>>
             \/ values'[registered[n]] = call.before[call.given[n]]
      BY <1>11, <3>1
    <3>3. (\E i \in DOMAIN Tail(call.copies) :
            Tail(call.copies)[i] = <<registered[n], call.given[n]>>) => Left(n)'
      BY <1>2, <1>3 DEF Left
    <3>4. QED
      BY <1>2, <1>3, <3>2, <3>3
  <2>4. QED
    BY <2>2, <2>3 DEF Writes
<1>5b. QED
  BY <1>2, <1>7, <1>8, <1>9, <1>5a, CallFrame

LEMMA StepInductive == Inductive /\ [Next]_vars => Inductive'
<1> SUFFICES ASSUME Inductive, [Next]_vars PROVE Inductive'
  OBVIOUS
<1>1. CASE \E n \in Names, d \in Inputs : FromDataset(n, d)
  BY <1>1, FromDatasetStep
<1>2. CASE \E schema \in Schemas :
             \E names \in SUBSET {n \in Names : Home[n] = schema} :
               /\ Cardinality(names) > 1
               /\ \E groups \in [names -> Inputs] : FromGroups(schema, groups)
  BY <1>2, FromGroupsStep
<1>3. ASSUME NEW n \in Names, Deregister(n)
      PROVE  Inductive'
  BY <1>3, RemovalStep DEF Deregister
<1>4. ASSUME NEW n \in Names, Create(n)
      PROVE  Inductive'
  BY <1>4, CreateStep
<1>5. ASSUME NEW n \in Names, CreateOrReplace(n)
      PROVE  Inductive'
  BY <1>5, RemovalStep DEF CreateOrReplace
<1>5a. CASE \E n \in InSql :
              ForgetView(n) \/ CreateOrReplaceView(n) \/ DropView(n)
  BY <1>5a, ForgetViewStep, CreateOrReplaceViewStep, DropViewStep,
     ContextAssumption
<1>5b. CASE \E schema \in Schemas : DropSchema(schema)
  BY <1>5b, DropSchemaStep
<1>6. CASE \E q \in Queries, read \in Reads : Prepare(q, read)
  BY <1>6, PrepareStep
<1>7. CASE \E q \in Queries, order \in Orders :
             \E given \in [{order[i] : i \in DOMAIN order} -> Datasets] :
               Call(q, order, given)
  BY <1>7, CallStep
<1>8. CASE Copy
  BY <1>8, CopyStep
<1>9. CASE CopyRaises \/ Run
  <2>1. /\ catalog' = catalog /\ registered' = registered
        /\ deregistrations' = deregistrations /\ suspect' = suspect
        /\ dropped' = dropped /\ taken' = taken /\ query' = query /\ values' = values /\ call' = None
    BY <1>9 DEF CopyRaises, Run, regVars, tableVars
  <2>2. values' \in [Datasets -> Datasets] /\ NullsStay'
    BY <2>1 DEF Inductive, TypeOK, NullsStay
  <2>3. QED
    BY <2>1, <2>2, CallFrame
<1>10. CASE UNCHANGED vars
  <2>1. /\ catalog' = catalog /\ registered' = registered
        /\ deregistrations' = deregistrations /\ suspect' = suspect
        /\ dropped' = dropped /\ taken' = taken /\ query' = query /\ values' = values /\ call' = call
    BY <1>10 DEF vars
  <2>2. values' \in [Datasets -> Datasets] /\ NullsStay'
    BY <2>1 DEF Inductive, TypeOK, NullsStay
  <2>3. call' # None => (CallType /\ Writes)'
    BY <2>1 DEF Inductive, CallType, Current, Writes, Left, NoAlias
  <2>4. QED
    BY <2>1, <2>2, <2>3, CallFrame
<1>11. QED
  BY <1>1, <1>2, <1>3, <1>4, <1>5, <1>6, <1>7, <1>8, <1>9, <1>10, <1>5a, <1>5b,
     ContextAssumption DEF Next

(* The invariant that carries the properties of the registry.              *)
THEOREM InductiveInvariant == Spec => []Inductive
<1>1. QED
  BY InitInductive, StepInductive, PTL DEF Spec

(* Whatever is registered, removed, replaced in SQL, prepared and called,   *)
(* the entry of a name is the Dataset its table reads, except after a       *)
(* from_dataset that raised, and where a schema was replaced or dropped or  *)
(* a view took the name.                                                    *)
THEOREM RegistryIsRight == Spec => []RegistryMatchesCatalog
<1>1. Inductive => RegistryMatchesCatalog
  BY DEF Inductive
<1>2. QED
  BY <1>1, InductiveInvariant, PTL

(* A prepared query never runs on a table that deregister_table, DROP TABLE *)
(* or CREATE OR REPLACE TABLE removed since, whatever became of its name.   *)
THEOREM DroppedTablesAreNotRead == Spec => []NeverStale
<1>1. Inductive => NeverStale
  <2> SUFFICES ASSUME Inductive, call # None, NEW n \in dropped[call.q]
               PROVE  FALSE
    BY DEF NeverStale
  <2>1. CallType /\ TypeOK
    BY DEF Inductive
  <2>2. /\ call.q \in Queries /\ query[call.q] # None
        /\ Current(call.q)
    BY <2>1 DEF CallType
  <2>3. Tracks(call.q)
    BY <2>2 DEF Inductive
  <2>4. n \in DOMAIN query[call.q].plan /\ n \in Names
    BY <2>1, <2>2, <2>3, QueryShape DEF Tracks
  <2>5. query[call.q].count[n] < deregistrations[n]
    BY <2>3, <2>4 DEF Tracks
  <2>6. deregistrations[n] = query[call.q].count[n] /\ deregistrations[n] \in Nat
    BY <2>1, <2>2, <2>4 DEF Current, TypeOK
  <2>7. QED
    BY <2>5, <2>6
<1>2. QED
  BY <1>1, InductiveInvariant, PTL

(* A name that the checks of a call let through has an entry to write into. *)
THEOREM EveryWriteHasAnEntry == Spec => []EntryForEveryWrite
<1>1. Inductive => EntryForEveryWrite
  <2>1. ASSUME Inductive, NEW q \in Queries, query[q] # None, Current(q),
               NEW n \in query[q].writable
        PROVE  registered[n] # None
    BY <2>1, EntriesStand, ContextAssumption
  <2>2. QED
    BY <2>1 DEF EntryForEveryWrite
<1>2. QED
  BY <1>1, InductiveInvariant, PTL

(* A run of a prepared query sees the values its call was given, in every   *)
(* table that was not taken unseen and whose entry is not suspect.          *)
THEOREM RunsSeeTheirWrites == Spec => []RunSeesWrites
<1>1. Inductive => RunSeesWrites
  <2> SUFFICES ASSUME Inductive, call # None, call.copies = << >>, NoAlias(call),
                      NEW n \in DOMAIN call.given \ (suspect \cup taken[call.q])
               PROVE  Seen(call, n)
    BY DEF RunSeesWrites
  <2>1. TypeOK /\ RegistryMatchesCatalog /\ CallType /\ Writes
    BY DEF Inductive
  <2>2. /\ call.q \in Queries /\ query[call.q] # None
        /\ n \in query[call.q].writable
    BY <2>1 DEF CallType
  <2>3. Tracks(call.q)
    BY <2>2 DEF Inductive
  <2>4. n \in DOMAIN query[call.q].plan
    BY <2>1, <2>2, QueryShape
  <2>5. n \in Names /\ registered[n] \in Datasets
    BY RegisteredWrites
  <2>6. catalog[n] = registered[n]
    BY <2>1, <2>5, ContextAssumption DEF RegistryMatchesCatalog
  <2>7. query[call.q].plan[n] = registered[n]
    <3>1. /\ query[call.q].count[n] = deregistrations[n]
          /\ deregistrations[n] \in Nat
      BY <2>1, <2>4, <2>5 DEF CallType, Current, TypeOK
    <3>2. n \notin dropped[call.q]
      BY <2>3, <2>4, <3>1 DEF Tracks
    <3>3. QED
      BY <2>3, <2>4, <2>6, <3>2 DEF Tracks
  <2>8. ~Left(n)
    BY DEF Left
  <2>9. values[registered[n]] = call.before[call.given[n]]
    BY <2>1, <2>8 DEF Writes
  <2>10. QED
    BY <2>5, <2>7, <2>9 DEF Seen
<1>2. QED
  BY <1>1, InductiveInvariant, PTL

(* No sequence of writes moves a NULL that a table has worked out.          *)
THEOREM NullsNeverMove == Spec => []NullsStay
<1>1. Inductive => NullsStay
  BY DEF Inductive
<1>2. QED
  BY <1>1, InductiveInvariant, PTL
=============================================================================
