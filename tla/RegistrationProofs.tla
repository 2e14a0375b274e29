------------------------- MODULE RegistrationProofs -------------------------
(* Unless the statement that restores it fails, which raises, the default     *)
(* database of a connection is after register the one it was before; no view  *)
(* selects from a table that is not there; and a table of ClickHouse that is  *)
(* replaced has its old rows or all of the new ones: for every connection,    *)
(* every Dataset, and every statement that may fail.                          *)
EXTENDS Registration, DataInduction, SequenceTheorems

Unuse == Stmt("unuse", <<NoSchema, "">>, << >>)

(* A statement that runs in the database of the table, and one that leaves    *)
(* the connection in it.                                                      *)
Within(s) == s.op = "unuse" \/ s.onfail = <<Unuse>>
Remains(s) == s.op # "unuse" /\ (s.op = "use" \/ Within(s))

(* What is run when a statement fails in a program that stays where it is:    *)
(* nothing, or the staging table is dropped.                                  *)
Drops(plan) == plan = << >> \/ \E t : plan = <<Stmt("drop if", t, << >>)>>

(* What is run if a statement fails, and in which dialect a statement changes *)
(* the default database.                                                      *)
Tidies(s) ==
  /\ Drops(s.onfail) \/ s.onfail = <<Unuse>>
  /\ s.op \in {"use", "unuse"} => s.onfail = << >> /\ ~s.lenient

Cleans(s) == Tidies(s) /\ (s.op = "use" \/ Within(s) => DialectFor.default_database)

(* The statements within the table's database follow its "use" without a gap, *)
(* up to its "unuse".                                                         *)
Enclosed(p) ==
  \A i \in 1..Len(p) : Remains(p[i]) <=> i < Len(p) /\ Within(p[i + 1])

StartsWithin(p) == p # << >> /\ Within(p[1])

(* A program that leaves the default database as it finds it. *)
Restores(p) ==
  /\ AnySeq(p)
  /\ Enclosed(p)
  /\ \A i \in 1..Len(p) : Cleans(p[i])

ViewFree(p) == \A i \in 1..Len(p) : p[i].op # "view"

(* What ADBCAdapter runs is put together from programs of this kind. *)
Ingests(p) == Restores(p) /\ ~StartsWithin(p) /\ ViewFree(p)

LEMMA NothingIngests == Ingests(<< >>)
<1>1. << >> \in Seq({}) /\ Len(<< >>) = 0
  OBVIOUS
<1>2. AnySeq(<< >>)
  BY <1>1 DEF AnySeq
<1> QED BY <1>1, <1>2 DEF Ingests, Restores, Enclosed, StartsWithin, ViewFree

LEMMA JoinedRestores ==
  ASSUME NEW p, NEW q, Restores(p), Restores(q), ViewFree(p), ViewFree(q),
         ~StartsWithin(q)
  PROVE  /\ Restores(p \o q) /\ ViewFree(p \o q)
         /\ StartsWithin(p \o q) => StartsWithin(p)
<1> DEFINE r == p \o q
<1>1. AnySeq(p) /\ AnySeq(q)
  BY DEF Restores
<1>2. /\ Len(p) \in Nat /\ Len(q) \in Nat
      /\ p = << >> <=> Len(p) = 0
      /\ q = << >> <=> Len(q) = 0
  BY <1>1, SequenceParts
<1>3. /\ AnySeq(r) /\ Len(r) = Len(p) + Len(q)
      /\ \A i \in 1..Len(p) : r[i] = p[i]
      /\ \A i \in 1..Len(q) : r[i + Len(p)] = q[i]
      /\ \A i \in 1..Len(r) : i <= Len(p) \/ \E j \in 1..Len(q) : i = j + Len(p)
  BY <1>1, JoinedSequence
<1>4. r = << >> <=> Len(r) = 0
  BY <1>3, SequenceParts
<1> HIDE DEF r
<1>5. \A i \in 1..Len(r) : Cleans(r[i]) /\ r[i].op # "view"
  <2> SUFFICES ASSUME NEW i \in 1..Len(r) PROVE Cleans(r[i]) /\ r[i].op # "view"
    OBVIOUS
  <2>1. CASE i <= Len(p)
    BY <1>2, <1>3, <2>1 DEF Restores, ViewFree
  <2>2. ASSUME NEW j \in 1..Len(q), i = j + Len(p)
        PROVE  Cleans(r[i]) /\ r[i].op # "view"
    BY <1>3, <2>2 DEF Restores, ViewFree
  <2> QED BY <1>3, <2>1, <2>2
<1>6. Enclosed(r)
  <2> SUFFICES ASSUME NEW i \in 1..Len(r)
               PROVE  Remains(r[i]) <=> i < Len(r) /\ Within(r[i + 1])
    BY DEF Enclosed
  <2>1. CASE i < Len(p)
    <3>1. i \in 1..Len(p) /\ i + 1 \in 1..Len(p) /\ i < Len(r)
      BY <1>2, <1>3, <2>1
    <3> QED BY <1>3, <2>1, <3>1 DEF Restores, Enclosed
  <2>2. CASE i = Len(p)
    <3>1. i \in 1..Len(p) /\ ~Remains(p[i])
      BY <1>2, <2>2 DEF Restores, Enclosed
    <3>2. ASSUME i < Len(r) PROVE ~Within(r[i + 1])
      <4>1. 1 \in 1..Len(q) /\ 1 + Len(p) = i + 1
        BY <1>2, <1>3, <2>2, <3>2
      <4>2. r[i + 1] = q[1] /\ q # << >>
        BY <1>2, <1>3, <4>1
      <4> QED BY <4>2 DEF StartsWithin
    <3> QED BY <1>3, <3>1, <3>2
  <2>3. ASSUME NEW j \in 1..Len(q), i = j + Len(p)
        PROVE  Remains(r[i]) <=> i < Len(r) /\ Within(r[i + 1])
    <3>1. r[i] = q[j] /\ (i < Len(r) <=> j < Len(q))
      BY <1>2, <1>3, <2>3
    <3>2. ASSUME j < Len(q) PROVE r[i + 1] = q[j + 1]
      <4>1. j + 1 \in 1..Len(q) /\ (j + 1) + Len(p) = i + 1
        BY <1>2, <2>3, <3>2
      <4> QED BY <1>3, <4>1
    <3> QED BY <3>1, <3>2 DEF Restores, Enclosed
  <2>4. i < Len(p) \/ i = Len(p) \/ \E j \in 1..Len(q) : i = j + Len(p)
    BY <1>2, <1>3
  <2> QED BY <2>1, <2>2, <2>3, <2>4
<1>7. StartsWithin(r) => StartsWithin(p)
  <2> SUFFICES ASSUME r # << >>, Within(r[1]) PROVE StartsWithin(p)
    BY DEF StartsWithin
  <2>1. CASE Len(p) = 0
    <3>1. 1 \in 1..Len(q) /\ r[1] = q[1] /\ q # << >>
      BY <1>2, <1>3, <1>4, <2>1
    <3> QED BY <3>1 DEF StartsWithin
  <2>2. CASE Len(p) # 0
    <3>1. 1 \in 1..Len(p) /\ r[1] = p[1] /\ p # << >>
      BY <1>2, <1>3, <2>2
    <3> QED BY <3>1 DEF StartsWithin
  <2> QED BY <2>1, <2>2
<1> QED BY <1>3, <1>5, <1>6, <1>7 DEF Restores, ViewFree, r

LEMMA JoinedIngests ==
  ASSUME NEW p, NEW q, Ingests(p), Ingests(q)
  PROVE  Ingests(p \o q)
BY JoinedRestores DEF Ingests

LEMMA FlattenIngests ==
  ASSUME NEW parts, AnySeq(parts), \A i \in 1..Len(parts) : Ingests(parts[i])
  PROVE  Ingests(FlattenSeq(parts))
<1> DEFINE N == Len(parts)
<1>1. N \in Nat /\ DOMAIN parts = 1..N /\ (parts = << >> <=> N = 0)
  BY SequenceParts
<1>2. CASE N = 0
  <2>1. FlattenSeq(parts) = << >>
    BY <1>1, <1>2 DEF FlattenSeq
  <2> QED BY <2>1, NothingIngests
<1>3. CASE N # 0
  <2>1. PICK flat : Joins(flat, parts)
    BY <1>3, FlattenJoins DEF Ingests, Restores
  <2> DEFINE Done == {n \in Nat : n + 1 <= N => Ingests(flat[n + 1])}
  <2>2. 0 \in Done
    <3>1. 1 \in 1..N
      BY <1>1, <1>3
    <3>2. Ingests(flat[0 + 1])
      BY <2>1, <3>1 DEF Joins
    <3> QED BY <3>2
  <2>3. ASSUME NEW n \in Done
        PROVE  n + 1 \in Done
    <3>1. n \in Nat /\ (n + 1 <= N => Ingests(flat[n + 1]))
      OBVIOUS
    <3>2. CASE (n + 1) + 1 <= N
      <4>1. n + 1 <= N /\ (n + 1) + 1 \in 1..N /\ (n + 1) + 1 # 1 /\ ((n + 1) + 1) - 1 = n + 1
        BY <1>1, <3>1, <3>2
      <4>2. flat[(n + 1) + 1] = flat[n + 1] \o parts[(n + 1) + 1]
        BY <2>1, <4>1 DEF Joins
      <4>3. Ingests(flat[(n + 1) + 1])
        BY <3>1, <4>1, <4>2, JoinedIngests
      <4> QED BY <3>1, <4>3
    <3>3. CASE ~((n + 1) + 1 <= N)
      BY <3>1, <3>3
    <3> QED BY <3>2, <3>3
  <2>4. Done = Nat
    <3>1. Done \in SUBSET Nat
      OBVIOUS
    <3> HIDE DEF Done
    <3> QED BY <2>2, <2>3, <3>1, InductiveSet
  <2>5. N - 1 \in Done /\ (N - 1) + 1 = N
    <3> HIDE DEF Done
    <3> QED BY <1>1, <1>3, <2>4
  <2> QED BY <2>1, <2>5 DEF Joins
<1> QED BY <1>2, <1>3

(* What a statement is before its program says what follows its failure. *)
LEMMA DropsIsNotUnuse ==
  ASSUME NEW plan, Drops(plan)
  PROVE  plan # <<Unuse>>
<1>1. <<Unuse>> # << >> /\ <<Unuse>>[1].op = "unuse"
  BY DEF Unuse, Stmt
<1>2. ASSUME NEW t, plan = <<Stmt("drop if", t, << >>)>>
      PROVE  plan[1].op = "drop if"
  BY <1>2 DEF Stmt
<1> QED BY <1>1, <1>2 DEF Drops

(* Statements that neither enter nor leave a database. *)
Stays(s) ==
  /\ s.op \notin {"use", "unuse"} /\ Drops(s.onfail)
  /\ DOMAIN s = {"op", "table", "arg", "onfail", "lenient"}

Still(p) == AnySeq(p) /\ \A i \in 1..Len(p) : Stays(p[i])

LEMMA StillRestores ==
  ASSUME NEW p, Still(p)
  PROVE  Restores(p) /\ ~StartsWithin(p)
<1>1. \A i \in 1..Len(p) : ~Within(p[i]) /\ ~Remains(p[i]) /\ Cleans(p[i])
  <2> SUFFICES ASSUME NEW i \in 1..Len(p)
               PROVE  ~Within(p[i]) /\ ~Remains(p[i]) /\ Cleans(p[i])
    OBVIOUS
  <2>1. p[i].op \notin {"use", "unuse"} /\ Drops(p[i].onfail)
    BY DEF Still, Stays
  <2>2. ~Within(p[i]) /\ ~Remains(p[i])
    BY <2>1, DropsIsNotUnuse DEF Within, Remains
  <2> QED BY <2>1, <2>2 DEF Cleans, Tidies
<1>2. Len(p) \in Nat /\ (p = << >> <=> Len(p) = 0)
  BY SequenceParts DEF Still
<1>3. Enclosed(p)
  <2>1. \A i \in 1..Len(p) : i < Len(p) => i + 1 \in 1..Len(p)
    BY <1>2
  <2> QED BY <1>1, <2>1 DEF Enclosed
<1>4. ~StartsWithin(p)
  <2>1. p # << >> => 1 \in 1..Len(p)
    BY <1>2
  <2> QED BY <1>1, <2>1 DEF StartsWithin
<1> QED BY <1>1, <1>3, <1>4 DEF Still, Restores

Plain(p) == Still(p) /\ ViewFree(p)

LEMMA PlainIngests ==
  ASSUME NEW p, Plain(p)
  PROVE  Ingests(p)
BY StillRestores DEF Plain, Ingests

LEMMA JoinedStill ==
  ASSUME NEW p, NEW q, Still(p), Still(q)
  PROVE  Still(p \o q)
<1> DEFINE r == p \o q
<1>1. AnySeq(p) /\ AnySeq(q)
  BY DEF Still
<1>2. /\ AnySeq(r)
      /\ \A i \in 1..Len(p) : r[i] = p[i]
      /\ \A i \in 1..Len(q) : r[i + Len(p)] = q[i]
      /\ \A i \in 1..Len(r) : i <= Len(p) \/ \E j \in 1..Len(q) : i = j + Len(p)
  BY ONLY <1>1, JoinedSequence
<1> HIDE DEF r
<1>3. ASSUME NEW i \in 1..Len(r)
      PROVE  Stays(r[i])
  <2>1. CASE i <= Len(p)
    BY <1>2, <2>1 DEF Still
  <2>2. ASSUME NEW j \in 1..Len(q), i = j + Len(p)
        PROVE  Stays(r[i])
    BY <1>2, <2>2 DEF Still
  <2> QED BY <1>2, <2>1, <2>2
<1> QED BY <1>2, <1>3 DEF Still, r

LEMMA JoinedPlain ==
  ASSUME NEW p, NEW q, Plain(p), Plain(q)
  PROVE  Plain(p \o q)
<1>1. Still(p \o q)
  BY JoinedStill DEF Plain
<1>2. Ingests(p \o q)
  BY PlainIngests, JoinedIngests
<1> QED BY <1>1, <1>2 DEF Plain, Ingests

(* Statements as they are made. *)
LEMMA PlainStmts ==
  ASSUME NEW n \in Nat, NEW p, p = [i \in 1..n |-> p[i]],
         \A i \in 1..n : \E op, table, arg :
           p[i] = Stmt(op, table, arg) /\ op \notin {"use", "unuse", "view"}
  PROVE  Plain(p)
<1>1. AnySeq(p) /\ Len(p) = n
  BY MadeSequence
<1>2. ASSUME NEW i \in 1..n
      PROVE  /\ p[i].op \notin {"use", "unuse", "view"} /\ p[i].onfail = << >>
             /\ DOMAIN p[i] = {"op", "table", "arg", "onfail", "lenient"}
  <2>1. PICK op, table, arg : p[i] = Stmt(op, table, arg) /\ op \notin {"use", "unuse", "view"}
    OBVIOUS
  <2> QED BY <2>1 DEF Stmt
<1> QED BY <1>1, <1>2 DEF Plain, Still, Stays, ViewFree, Drops

LEMMA PlainStmt ==
  ASSUME NEW op, op \notin {"use", "unuse", "view"}, NEW table, NEW arg
  PROVE  Plain(<<Stmt(op, table, arg)>>)
<1> DEFINE p == <<Stmt(op, table, arg)>>
<1>1. p = [i \in 1..1 |-> p[i]] /\ \A i \in 1..1 : p[i] = Stmt(op, table, arg)
  OBVIOUS
<1>2. 1 \in Nat /\ \A i \in 1..1 : \E o, t, a :
        p[i] = Stmt(o, t, a) /\ o \notin {"use", "unuse", "view"}
  BY <1>1
<1> HIDE DEF p
<1>3. Plain(p)
  BY <1>1, <1>2, PlainStmts
<1> QED BY <1>3 DEF p

(* Modes of an ingest. *)
Modes == {"create", "append", "replace", "create_append"}

LEMMA RowsArePlain ==
  ASSUME NEW table, NEW mode \in Modes, NEW batches, AnySeq(batches)
  PROVE  Plain(Rows(table, mode, batches))
<1>1. Plain(<<Stmt(mode, table, << >>)>>)
  BY PlainStmt DEF Modes
<1>2. Plain([i \in DOMAIN batches |-> Stmt("batch", table, batches[i])])
  <2> DEFINE p == [i \in DOMAIN batches |-> Stmt("batch", table, batches[i])]
  <2>1. Len(batches) \in Nat /\ DOMAIN batches = 1..Len(batches)
    BY SequenceParts
  <2>2. /\ p = [i \in 1..Len(batches) |-> p[i]]
        /\ \A i \in 1..Len(batches) : p[i] = Stmt("batch", table, batches[i])
    BY <2>1
  <2> HIDE DEF p
  <2>3. Plain(p)
    BY <2>1, <2>2, PlainStmts
  <2> QED BY <2>3 DEF p
<1> QED BY <1>1, <1>2, JoinedPlain DEF Rows

(* The statements as they were, each with the plan. *)
LEMMA OnFailParts ==
  ASSUME NEW stmts, Plain(stmts), NEW plan
  PROVE  /\ AnySeq(OnFail(stmts, plan)) /\ Len(OnFail(stmts, plan)) = Len(stmts)
         /\ \A i \in 1..Len(stmts) :
              /\ OnFail(stmts, plan)[i].op = stmts[i].op
              /\ OnFail(stmts, plan)[i].onfail = plan
              /\ DOMAIN OnFail(stmts, plan)[i] = {"op", "table", "arg", "onfail", "lenient"}
<1> DEFINE p == OnFail(stmts, plan)
<1>1. Len(stmts) \in Nat /\ DOMAIN stmts = 1..Len(stmts)
  BY SequenceParts DEF Plain, Still
<1>2. p = [i \in 1..Len(stmts) |-> [stmts[i] EXCEPT !.onfail = plan]]
  BY <1>1 DEF OnFail
<1>3. AnySeq(p) /\ Len(p) = Len(stmts)
  BY <1>1, <1>2, MadeSequence
<1>4. ASSUME NEW i \in 1..Len(stmts)
      PROVE  /\ p[i].op = stmts[i].op /\ p[i].onfail = plan
             /\ DOMAIN p[i] = {"op", "table", "arg", "onfail", "lenient"}
  <2>1. p[i] = [stmts[i] EXCEPT !.onfail = plan]
    BY <1>2
  <2>2. DOMAIN stmts[i] = {"op", "table", "arg", "onfail", "lenient"}
    BY DEF Plain, Still, Stays
  <2> HIDE DEF p
  <2> QED BY <2>1, <2>2
<1> QED BY <1>3, <1>4

LEMMA PlainTuples ==
  /\ \A a, b : Plain(<<a>>) /\ Plain(<<b>>) => Plain(<<a, b>>)
  /\ \A a, b, c : Plain(<<a>>) /\ Plain(<<b>>) /\ Plain(<<c>>) => Plain(<<a, b, c>>)
<1>1. ASSUME NEW a, NEW b, Plain(<<a>>), Plain(<<b>>)
      PROVE  Plain(<<a, b>>)
  <2>1. <<a, b>> = <<a>> \o <<b>>
    <3> DEFINE p == <<a>>
               q == <<b>>
    <3>1. p \in Seq({a, b}) /\ q \in Seq({a, b}) /\ Len(p) = 1 /\ Len(q) = 1 /\ p[1] = a /\ q[1] = b
      OBVIOUS
    <3> HIDE DEF p, q
    <3>2. p \o q \in Seq({a, b}) /\ Len(p \o q) = 2 /\ (p \o q)[1] = a /\ (p \o q)[2] = b
      <4>1. /\ p \o q \in Seq({a, b}) /\ Len(p \o q) = Len(p) + Len(q)
            /\ \A i \in 1..Len(p) + Len(q) :
                 (p \o q)[i] = IF i <= Len(p) THEN p[i] ELSE q[i - Len(p)]
        <5>1. p \in Seq({a, b}) /\ q \in Seq({a, b})
          BY ONLY <3>1
        <5> QED BY ONLY <5>1, ConcatProperties, Zenon
      <4>2. 1 \in 1..Len(p) + Len(q) /\ 2 \in 1..Len(p) + Len(q) /\ 1 <= Len(p) /\ ~(2 <= Len(p)) /\ 2 - Len(p) = 1
        BY <3>1
      <4> QED BY ONLY <3>1, <4>1, <4>2
    <3>3. p \o q = <<a, b>>
      <4> DEFINE r == p \o q
      <4>1. r \in Seq({a, b}) /\ Len(r) = 2 /\ r[1] = a /\ r[2] = b
        BY <3>2
      <4> HIDE DEF r
      <4>2. r = <<a, b>>
        BY ONLY <4>1
      <4> QED BY <4>2 DEF r
    <3> QED BY <3>3 DEF p, q
  <2> QED BY ONLY <1>1, <2>1, JoinedPlain
<1>2. ASSUME NEW a, NEW b, NEW c, Plain(<<a>>), Plain(<<b>>), Plain(<<c>>)
      PROVE  Plain(<<a, b, c>>)
  <2>1. <<a, b, c>> = <<a, b>> \o <<c>>
    OBVIOUS
  <2>2. Plain(<<a, b>>)
    BY <1>1, <1>2
  <2> QED BY ONLY <1>2, <2>1, <2>2, JoinedPlain
<1> QED BY <1>1, <1>2

-----------------------------------------------------------------------------
(* The programs of the adapters. *)

LEMMA StagedIsPlain ==
  ASSUME NEW table, NEW batches, AnySeq(batches)
  PROVE  Plain(ReplaceStaged(table, batches))
<1> DEFINE staging == Staging(table)
           drop == <<Stmt("drop if", staging, << >>)>>
           first == <<Stmt("drop if", staging, << >>), Stmt("create", staging, << >>)>>
           fill == OnFail(Rows(staging, "append", batches), drop)
           last == <<Stmt("create_append", table, << >>), Stmt("exchange", table, staging),
                     Stmt("drop", staging, << >>)>>
<1>1. Plain(first)
  BY PlainStmt, PlainTuples
<1>2. Plain(last)
  BY PlainStmt, PlainTuples
<1>3. Plain(fill)
  <2>1. Plain(Rows(staging, "append", batches))
    BY RowsArePlain DEF Modes
  <2>2. Drops(drop)
    BY DEF Drops
  <2> HIDE DEF staging, drop
  <2> QED BY <2>1, <2>2, OnFailParts DEF Plain, Still, Stays, ViewFree
<1>4. ReplaceStaged(table, batches) = (first \o fill) \o last
  BY DEF ReplaceStaged
<1> HIDE DEF first, fill, last
<1> QED BY <1>1, <1>2, <1>3, <1>4, JoinedPlain

LEMMA ClickHouseIsPlain ==
  ASSUME NEW table, NEW batches, AnySeq(batches), NEW mode \in Modes, NEW temporary
  PROVE  Plain(ClickHouseIngest(table, batches, mode, temporary))
<1> DEFINE target == IF temporary THEN <<"temp", table[2]>> ELSE table
           rows == Rows(table, "append", batches)
           anew == <<Stmt("drop if", target, << >>), Stmt("create", target, << >>)>>
           made == <<Stmt(mode, target, << >>)>>
<1>1. Plain(rows)
  BY RowsArePlain DEF Modes
<1>2. Plain(anew)
  BY PlainStmt, PlainTuples
<1>3. Plain(made)
  <2> HIDE DEF target
  <2> QED BY PlainStmt DEF Modes
<1>4. ClickHouseIngest(table, batches, mode, temporary)
        \in {rows, ReplaceStaged(table, batches), anew \o rows, made \o rows}
  BY DEF ClickHouseIngest, Modes
<1> HIDE DEF rows, anew, made
<1> QED BY <1>1, <1>2, <1>3, <1>4, JoinedPlain, StagedIsPlain

(* _default_database around the ingest of a table. *)
LEMMA DatabaseIngests ==
  ASSUME NEW database, NEW stmts, Plain(stmts), DialectFor.default_database
  PROVE  Ingests(InDatabase(database, stmts))
<1> DEFINE use == <<Stmt("use", <<NoSchema, "">>, database)>>
           unuse == <<Unuse>>
           within == OnFail(stmts, unuse)
           L == Len(stmts)
           p == (use \o within) \o unuse
<1>1. InDatabase(database, stmts) = p
  BY DEF InDatabase, Unuse
<1>2. /\ AnySeq(use) /\ Len(use) = 1
      /\ use[1].op = "use" /\ use[1].onfail = << >> /\ ~use[1].lenient
  <2>1. use \in Seq({Stmt("use", <<NoSchema, "">>, database)}) /\ Len(use) = 1
    OBVIOUS
  <2>2. use[1].op = "use" /\ use[1].onfail = << >> /\ ~use[1].lenient
    BY DEF Stmt
  <2> QED BY <2>1, <2>2 DEF AnySeq
<1>3. /\ AnySeq(unuse) /\ Len(unuse) = 1
      /\ unuse[1].op = "unuse" /\ unuse[1].onfail = << >> /\ ~unuse[1].lenient
  <2>1. unuse \in Seq({Unuse}) /\ Len(unuse) = 1
    OBVIOUS
  <2>2. unuse[1].op = "unuse" /\ unuse[1].onfail = << >> /\ ~unuse[1].lenient
    BY DEF Unuse, Stmt
  <2> QED BY <2>1, <2>2 DEF AnySeq
<1>4. L \in Nat
  BY SequenceParts DEF Plain, Still
<1>5. /\ AnySeq(within) /\ Len(within) = L
      /\ \A i \in 1..L : /\ within[i].op \notin {"use", "unuse", "view"}
                         /\ within[i].onfail = <<Unuse>>
  <2> HIDE DEF unuse
  <2>1. /\ AnySeq(within) /\ Len(within) = L
        /\ \A i \in 1..L : within[i].op = stmts[i].op /\ within[i].onfail = unuse
    BY OnFailParts
  <2> HIDE DEF within
  <2> QED BY <2>1 DEF Plain, Still, Stays, ViewFree, unuse
<1> HIDE DEF use, unuse, within, L
<1> DEFINE q == use \o within
<1>6. /\ AnySeq(q) /\ Len(q) = 1 + L /\ q[1] = use[1]
      /\ \A i \in 1..L : q[i + 1] = within[i]
      /\ \A i \in 1..Len(q) : i = 1 \/ \E j \in 1..L : i = j + 1
  <2> HIDE DEF q
  <2>1. /\ AnySeq(q) /\ Len(q) = Len(use) + Len(within)
        /\ \A i \in 1..Len(use) : q[i] = use[i]
        /\ \A i \in 1..Len(within) : q[i + Len(use)] = within[i]
        /\ \A i \in 1..Len(q) : i <= Len(use) \/ \E j \in 1..Len(within) : i = j + Len(use)
    <3>1. AnySeq(use) /\ AnySeq(within)
      BY <1>2, <1>5
    <3> QED BY ONLY <3>1, JoinedSequence DEF q
  <2>2. 1 \in 1..1
    OBVIOUS
  <2>3. Len(use) = 1 /\ Len(within) = L
    BY <1>2, <1>5
  <2> QED BY ONLY <1>4, <2>1, <2>2, <2>3
<1> HIDE DEF q
<1>7. /\ AnySeq(p) /\ Len(p) = L + 2 /\ p[L + 2] = unuse[1]
      /\ \A i \in 1..L + 1 : p[i] = q[i]
      /\ \A i \in 1..L + 2 : i \in 1..L + 1 \/ i = L + 2
  <2>1. /\ AnySeq(p) /\ Len(p) = Len(q) + Len(unuse)
        /\ \A i \in 1..Len(q) : p[i] = q[i]
        /\ \A i \in 1..Len(unuse) : p[i + Len(q)] = unuse[i]
    <3>1. p = q \o unuse
      BY DEF q
    <3>2. AnySeq(q) /\ AnySeq(unuse)
      BY <1>3, <1>6
    <3> HIDE DEF p
    <3> QED BY ONLY <3>1, <3>2, JoinedSequence
  <2> HIDE DEF p
  <2>2. 1 \in 1..Len(unuse) /\ 1 + Len(q) = L + 2
    BY <1>3, <1>4, <1>6
  <2>3. p[L + 2] = unuse[1]
    BY <2>1, <2>2
  <2> QED BY <1>3, <1>4, <1>6, <2>1, <2>3
<1> HIDE DEF p
<1>8. ASSUME NEW i \in 1..L + 2
      PROVE  /\ Within(p[i]) <=> i # 1
             /\ Remains(p[i]) <=> i # L + 2
             /\ Cleans(p[i]) /\ p[i].op # "view"
  <2>1. <<Unuse>> # << >>
    OBVIOUS
  <2>2. CASE i = 1
    <3>1. p[i].op = "use" /\ p[i].onfail = << >> /\ ~p[i].lenient
      BY <1>2, <1>4, <1>6, <1>7, <2>2
    <3> QED BY <1>4, <2>1, <2>2, <3>1 DEF Within, Remains, Cleans, Tidies, Drops
  <2>3. CASE i # 1 /\ i # L + 2
    <3>1. p[i].op \notin {"use", "unuse", "view"} /\ p[i].onfail = <<Unuse>>
      <4>1. i \in 1..L + 1 /\ i \in 1..Len(q)
        BY <1>4, <1>6, <2>3
      <4>2. PICK j \in 1..L : i = j + 1
        BY <1>6, <2>3, <4>1
      <4> QED BY <1>5, <1>6, <1>7, <4>1, <4>2
    <3> QED BY <2>3, <3>1 DEF Within, Remains, Cleans, Tidies, Drops
  <2>4. CASE i = L + 2
    <3>1. p[i].op = "unuse" /\ p[i].onfail = << >> /\ ~p[i].lenient
      BY <1>3, <1>7, <2>4
    <3> QED BY <1>4, <2>1, <2>4, <3>1 DEF Within, Remains, Cleans, Tidies, Drops
  <2> QED BY <2>2, <2>3, <2>4
<1>9. Enclosed(p)
  <2>1. \A i \in 1..L + 2 : i < L + 2 => i + 1 \in 1..L + 2 /\ i + 1 # 1
    BY <1>4
  <2>2. \A i \in 1..L + 2 : i < L + 2 <=> i # L + 2
    BY <1>4
  <2> QED BY <1>7, <1>8, <2>1, <2>2 DEF Enclosed
<1>10. ~StartsWithin(p)
  <2>1. 1 \in 1..L + 2
    BY <1>4
  <2> QED BY <1>8, <2>1 DEF StartsWithin
<1> QED BY <1>1, <1>7, <1>8, <1>9, <1>10 DEF Ingests, Restores, ViewFree

(* _ingest of one group. *)
LEMMA GroupIngests ==
  ASSUME NEW schema, NEW name, NEW batches, AnySeq(batches), NEW mode \in Modes,
         NEW temporary
  PROVE  Ingests(Ingest(schema, name, batches, mode, temporary))
<1> DEFINE rows == Rows(<<IF temporary THEN "temp" ELSE schema, name>>, mode, batches)
           plainRows == Rows(<<NoSchema, name>>, mode, batches)
           analyze == <<Stmt("analyze", <<schema, name>>, << >>)>>
           p == Ingest(schema, name, batches, mode, temporary)
<1>1. Plain(rows) /\ Plain(plainRows)
  BY RowsArePlain
<1>2. Plain(rows \o analyze) /\ Append(rows, Stmt("analyze", <<schema, name>>, << >>)) = rows \o analyze
  <2>1. Plain(analyze)
    BY PlainStmt
  <2>2. ASSUME NEW s PROVE Append(rows, s) = rows \o <<s>>
    <3>1. AnySeq(rows)
      BY <1>1 DEF Plain, Still
    <3>2. PICK S : rows \in Seq(S)
      BY <3>1 DEF AnySeq
    <3> HIDE DEF rows
    <3>3. rows \in Seq(S \cup {s}) /\ s \in S \cup {s}
      BY <3>2
    <3> QED BY <3>3, AppendIsConcat
  <2> HIDE DEF rows, analyze
  <2> QED BY <1>1, <2>1, <2>2, JoinedPlain DEF analyze
<1> HIDE DEF rows
<1>3. CASE DialectFor.table_ddl
  <2>1. p = ClickHouseIngest(<<schema, name>>, batches, mode, temporary)
    BY <1>3 DEF Ingest
  <2>2. Plain(p)
    BY <2>1, ClickHouseIsPlain
  <2> QED BY <2>2, PlainIngests
<1>4. CASE ~DialectFor.table_ddl /\ schema # NoSchema /\ DialectFor.default_database
  <2>1. p = InDatabase(schema, plainRows)
    BY <1>4 DEF Ingest
  <2> HIDE DEF plainRows
  <2> QED BY <1>1, <1>4, <2>1, DatabaseIngests
<1>5. CASE ~DialectFor.table_ddl /\ ~(schema # NoSchema /\ DialectFor.default_database)
  <2>1. p = IF DialectFor.analyze THEN Append(rows, Stmt("analyze", <<schema, name>>, << >>)) ELSE rows
    BY <1>5 DEF Ingest, rows
  <2>2. Plain(p)
    <3> HIDE DEF p, analyze
    <3> QED BY <1>1, <1>2, <2>1
  <2> QED BY <2>2, PlainIngests
<1> QED BY <1>3, <1>4, <1>5

LEMMA GroupTypes ==
  ASSUME con \in Connections, NEW c \in Calls(con)
  PROVE  /\ c.mode \in Modes
         /\ AnySeq(c.groups)
         /\ \A i \in 1..Len(c.groups) : AnySeq(c.groups[i].batches)
<1>1. c.mode \in Modes
  BY CallAssumption DEF Modes
<1>2. AnySeq(c.groups)
  BY CallAssumption DEF AnySeq
<1>3. \A i \in 1..Len(c.groups) : c.groups[i] \in Range(c.groups)
  <2>1. DOMAIN c.groups = 1..Len(c.groups)
    BY <1>2, SequenceParts
  <2> QED BY <2>1 DEF Range
<1>4. \A g \in Range(c.groups) : AnySeq(g.batches)
  BY CallAssumption DEF AnySeq
<1> QED BY <1>1, <1>2, <1>3, <1>4

LEMMA ADBCIngests ==
  ASSUME con \in Connections, NEW c \in Calls(con), NEW in_schema
  PROVE  Ingests(ADBCProgram(c, in_schema))
<1> DEFINE N == Len(c.groups)
           schema == IF in_schema THEN c.name ELSE NoSchema
           name(i) == GroupTable(c, in_schema, i)
           part(i) == Ingest(schema, name(i), c.groups[i].batches, c.mode, c.temporary)
           parts == [i \in DOMAIN c.groups |-> part(i)]
<1>1. N \in Nat /\ DOMAIN c.groups = 1..N
  BY GroupTypes, SequenceParts
<1>2. AnySeq(parts) /\ Len(parts) = N
  <2>1. DOMAIN parts = 1..N /\ parts = [i \in 1..N |-> parts[i]]
    <3> HIDE DEF part
    <3> QED BY <1>1
  <2> HIDE DEF parts, N
  <2> QED BY <1>1, <2>1, MadeSequence
<1>3. ASSUME NEW i \in 1..N
      PROVE  Ingests(parts[i])
  <2>1. parts[i] = part(i)
    <3> HIDE DEF part
    <3> QED BY <1>1
  <2>2. AnySeq(c.groups[i].batches) /\ c.mode \in Modes
    BY GroupTypes
  <2>3. Ingests(part(i))
    <3> HIDE DEF schema, name
    <3> QED BY <2>2, GroupIngests
  <2> QED BY <2>1, <2>3
<1>4. ADBCProgram(c, in_schema) = FlattenSeq(parts)
  BY DEF ADBCProgram
<1>5. Ingests(FlattenSeq(parts))
  <2> HIDE DEF parts, N
  <2> QED BY <1>2, <1>3, FlattenIngests
<1> QED BY <1>4, <1>5

LEMMA DataFusionIsPlain ==
  ASSUME con \in Connections, NEW c \in Calls(con)
  PROVE  Plain(DataFusionProgram(c))
<1> DEFINE one == <<Stmt("add", <<NoSchema, c.name>>, c.groups[1].batches)>>
           anew == <<Stmt("new schema", <<NoSchema, "">>, c.name)>>
           at(i) == <<c.name, Group(c, i)>>
           rows(i) == c.groups[i].batches
           adds == [i \in DOMAIN c.groups |-> Stmt("add", at(i), rows(i))]
<1>1. Plain(one) /\ Plain(anew)
  BY PlainStmt
<1>2. Plain(adds)
  <2>1. Len(c.groups) \in Nat /\ DOMAIN c.groups = 1..Len(c.groups)
    BY GroupTypes, SequenceParts
  <2>2. /\ adds = [i \in 1..Len(c.groups) |-> adds[i]]
        /\ \A i \in 1..Len(c.groups) : adds[i] = Stmt("add", at(i), rows(i))
    BY <2>1
  <2>3. \A i \in 1..Len(c.groups) : \E op, table, arg :
          adds[i] = Stmt(op, table, arg) /\ op \notin {"use", "unuse", "view"}
    <3> SUFFICES ASSUME NEW i \in 1..Len(c.groups)
                 PROVE  \E op, table, arg :
                          adds[i] = Stmt(op, table, arg) /\ op \notin {"use", "unuse", "view"}
      OBVIOUS
    <3>1. adds[i] = Stmt("add", at(i), rows(i))
      BY <2>2
    <3>2. "add" \notin {"use", "unuse", "view"}
      OBVIOUS
    <3> HIDE DEF adds, at, rows
    <3> QED BY ONLY <3>1, <3>2
  <2> HIDE DEF adds
  <2> QED BY <2>1, <2>2, <2>3, PlainStmts
<1>3. DataFusionProgram(c) \in {one, anew \o adds}
  BY DEF DataFusionProgram
<1> HIDE DEF one, anew, adds
<1> QED BY <1>1, <1>2, <1>3, JoinedPlain

(* A registered object under the name a view selects from. *)
Source(c, i) == Joined(c.name, Group(c, i))

Registers(s, source) ==
  s.op = "register" /\ s.table[1] = "temp" /\ Spelled(s.table[2]) = source

DuckDBOps == {"register", "schema", "no tables", "view"}

LEMMA LenientParts ==
  ASSUME NEW stmts, Still(stmts)
  PROVE  /\ Still(Lenient(stmts)) /\ Len(Lenient(stmts)) = Len(stmts)
         /\ \A i \in 1..Len(stmts) :
              /\ Lenient(stmts)[i].op = stmts[i].op
              /\ Lenient(stmts)[i].arg = stmts[i].arg
              /\ Lenient(stmts)[i].onfail = stmts[i].onfail
<1> DEFINE p == Lenient(stmts)
<1>1. Len(stmts) \in Nat /\ DOMAIN stmts = 1..Len(stmts)
  BY SequenceParts DEF Still
<1>2. p = [i \in 1..Len(stmts) |-> [stmts[i] EXCEPT !.lenient = TRUE]]
  BY <1>1 DEF Lenient
<1>3. AnySeq(p) /\ Len(p) = Len(stmts)
  BY <1>1, <1>2, MadeSequence
<1>4. ASSUME NEW i \in 1..Len(stmts)
      PROVE  /\ p[i].op = stmts[i].op /\ p[i].arg = stmts[i].arg /\ p[i].onfail = stmts[i].onfail
             /\ Stays(p[i])
  <2>1. p[i] = [stmts[i] EXCEPT !.lenient = TRUE]
    BY <1>2
  <2>2. Stays(stmts[i])
    BY DEF Still
  <2> HIDE DEF p
  <2> QED BY <2>1, <2>2 DEF Stays
<1> HIDE DEF p
<1> QED BY <1>3, <1>4 DEF Still, p

(* Statements as they are made, views among them. *)
LEMMA StillStmts ==
  ASSUME NEW n \in Nat, NEW p, p = [i \in 1..n |-> p[i]],
         \A i \in 1..n : \E op, table, arg :
           p[i] = Stmt(op, table, arg) /\ op \notin {"use", "unuse"}
  PROVE  Still(p) /\ Len(p) = n
<1>1. AnySeq(p) /\ Len(p) = n
  BY MadeSequence
<1>2. ASSUME NEW i \in 1..n
      PROVE  Stays(p[i])
  <2>1. PICK op, table, arg : p[i] = Stmt(op, table, arg) /\ op \notin {"use", "unuse"}
    OBVIOUS
  <2>2. /\ p[i].op \notin {"use", "unuse"} /\ p[i].onfail = << >>
        /\ DOMAIN p[i] = {"op", "table", "arg", "onfail", "lenient"}
    BY <2>1 DEF Stmt
  <2> QED BY <2>2 DEF Stays, Drops
<1> QED BY <1>1, <1>2 DEF Still

(* The mirror makes views only; none is made elsewhere. *)
LEMMA MirrorParts ==
  ASSUME con \in Connections, NEW c \in Calls(con)
  PROVE  /\ Still(Mirror(c))
         /\ \A i \in 1..Len(Mirror(c)) :
              /\ Mirror(c)[i].op \in DuckDBOps /\ Mirror(c)[i].onfail = << >>
              /\ Mirror(c)[i].op = "view" => \E j \in 1..Len(c.groups) : Mirror(c)[i].arg = Source(c, j)
<1> DEFINE N == Len(c.groups)
           there == {Spelled(Group(c, i)) : i \in DOMAIN c.groups}
           begin == <<Stmt("schema", <<NoSchema, "">>, c.name), Stmt("no tables", <<c.name, "">>, there)>>
           at(i) == <<c.name, Group(c, i)>>
           views == [i \in DOMAIN c.groups |-> Stmt("view", at(i), Joined(c.name, Group(c, i)))]
           Mirrors(s) == /\ s.op \in DuckDBOps /\ s.onfail = << >>
                         /\ s.op = "view" => \E j \in 1..N : s.arg = Source(c, j)
           all == begin \o views
<1>1. N \in Nat /\ DOMAIN c.groups = 1..N
  BY GroupTypes, SequenceParts
<1>2. \A i \in 1..N : views[i] = Stmt("view", at(i), Source(c, i))
  BY <1>1 DEF Source
<1> HIDE DEF at
<1>3. Still(views) /\ Len(views) = N
  <2>1. views = [i \in 1..N |-> views[i]]
    BY <1>1
  <2>2. \A i \in 1..N : \E op, table, arg : views[i] = Stmt(op, table, arg) /\ op \notin {"use", "unuse"}
    <3> HIDE DEF views, N
    <3> QED BY <1>2
  <2> HIDE DEF views, N
  <2> QED BY <1>1, <2>1, <2>2, StillStmts
<1>4. \A i \in 1..N : Mirrors(views[i])
  <2> SUFFICES ASSUME NEW i \in 1..N PROVE Mirrors(views[i])
    OBVIOUS
  <2>1. views[i].op = "view" /\ views[i].onfail = << >> /\ views[i].arg = Source(c, i)
    <3>1. views[i] = Stmt("view", at(i), Source(c, i))
      BY <1>2
    <3> HIDE DEF views, N
    <3> QED BY ONLY <3>1 DEF Stmt
  <2> HIDE DEF views, N
  <2> QED BY <2>1 DEF DuckDBOps
<1>5. Still(begin) /\ Len(begin) = 2
  <2>1. Plain(<<Stmt("schema", <<NoSchema, "">>, c.name)>>) /\ Plain(<<Stmt("no tables", <<c.name, "">>, there)>>)
    BY PlainStmt
  <2>2. Plain(begin)
    BY <2>1, PlainTuples
  <2> QED BY <2>2 DEF Plain
<1>6. \A i \in 1..2 : Mirrors(begin[i])
  <2> HIDE DEF there
  <2>1. /\ begin[1].op = "schema" /\ begin[1].onfail = << >>
        /\ begin[2].op = "no tables" /\ begin[2].onfail = << >>
    BY DEF Stmt
  <2> HIDE DEF begin
  <2> SUFFICES ASSUME NEW i \in 1..2 PROVE Mirrors(begin[i])
    OBVIOUS
  <2>2. i = 1 \/ i = 2
    OBVIOUS
  <2>3. begin[i].op \in {"schema", "no tables"} /\ begin[i].onfail = << >>
    BY <2>1, <2>2
  <2> HIDE DEF N
  <2> QED BY <2>3 DEF DuckDBOps
<1> HIDE DEF begin, views, Mirrors, N
<1>7. Still(all)
  BY <1>3, <1>5, JoinedStill
<1>8. \A i \in 1..Len(all) : Mirrors(all[i])
  <2>1. AnySeq(begin) /\ AnySeq(views)
    BY <1>3, <1>5 DEF Still
  <2>2. /\ \A i \in 1..Len(begin) : all[i] = begin[i]
        /\ \A i \in 1..Len(views) : all[i + Len(begin)] = views[i]
        /\ \A i \in 1..Len(all) : i <= Len(begin) \/ \E j \in 1..Len(views) : i = j + Len(begin)
    BY ONLY <2>1, JoinedSequence
  <2> HIDE DEF all
  <2> SUFFICES ASSUME NEW i \in 1..Len(all) PROVE Mirrors(all[i])
    OBVIOUS
  <2>3. CASE i <= Len(begin)
    BY <1>5, <1>6, <2>2, <2>3
  <2>4. ASSUME NEW j \in 1..Len(views), i = j + Len(begin)
        PROVE  Mirrors(all[i])
    BY <1>3, <1>4, <2>2, <2>4
  <2> QED BY <2>2, <2>3, <2>4
<1>9. Mirror(c) = Lenient(all)
  BY DEF Mirror, all, begin, views, at
<1> HIDE DEF all
<1>10. \A i \in 1..Len(all) : Mirrors(Lenient(all)[i])
  BY <1>7, <1>8, LenientParts DEF Mirrors
<1> QED BY <1>7, <1>9, <1>10, LenientParts DEF Mirrors, N

(* Every view of a DuckDB program comes after the object it selects from. *)
LEMMA DuckDBParts ==
  ASSUME con \in Connections, NEW c \in Calls(con)
  PROVE  LET p == DuckDBProgram(c) IN
         /\ Still(p)
         /\ \A i \in 1..Len(p) :
              /\ p[i].op \in DuckDBOps /\ p[i].onfail = << >>
              /\ p[i].op = "view" =>
                   IsInMemory /\ \E j \in 1..i - 1 : Registers(p[j], Spelled(p[i].arg))
<1> DEFINE N == Len(c.groups)
           flat(i) == IF Mixed(c) THEN Joined(c.name, Group(c, i)) ELSE c.name
           at(i) == <<"temp", flat(i)>>
           rows(i) == c.groups[i].batches
           objects == [i \in DOMAIN c.groups |-> Stmt("register", at(i), rows(i))]
           mirror == IF Mixed(c) /\ IsInMemory THEN Mirror(c) ELSE << >>
           p == objects \o mirror
<1>1. N \in Nat /\ DOMAIN c.groups = 1..N
  BY GroupTypes, SequenceParts
<1>2. \A i \in 1..N : objects[i] = Stmt("register", at(i), rows(i))
  BY <1>1
<1> HIDE DEF flat, at, rows
<1>3. Still(objects) /\ Len(objects) = N
  <2>1. objects = [i \in 1..N |-> objects[i]]
    BY <1>1
  <2>2. \A i \in 1..N : \E op, table, arg : objects[i] = Stmt(op, table, arg) /\ op \notin {"use", "unuse"}
    <3> HIDE DEF objects, N
    <3> QED BY <1>2
  <2> HIDE DEF objects, N
  <2> QED BY <1>1, <2>1, <2>2, StillStmts
<1>4. \A i \in 1..N : /\ objects[i].op = "register" /\ objects[i].onfail = << >>
                      /\ objects[i].table[1] = "temp" /\ objects[i].table[2] = flat(i)
  <2> HIDE DEF objects, N
  <2>1. \A i \in 1..N : /\ objects[i].op = "register" /\ objects[i].onfail = << >>
                        /\ objects[i].table = at(i)
    <3> SUFFICES ASSUME NEW i \in 1..N
                 PROVE  objects[i].op = "register" /\ objects[i].onfail = << >> /\ objects[i].table = at(i)
      OBVIOUS
    <3>1. objects[i] = Stmt("register", at(i), rows(i))
      BY <1>2
    <3> QED BY ONLY <3>1 DEF Stmt
  <2>2. \A i \in 1..N : at(i)[1] = "temp" /\ at(i)[2] = flat(i)
    BY DEF at
  <2> QED BY <2>1, <2>2
<1>5. /\ Still(mirror)
      /\ \A i \in 1..Len(mirror) :
           /\ mirror[i].op \in DuckDBOps /\ mirror[i].onfail = << >>
           /\ mirror[i].op = "view" =>
                Mixed(c) /\ IsInMemory /\ \E j \in 1..N : mirror[i].arg = Source(c, j)
  <2>1. CASE Mixed(c) /\ IsInMemory
    BY <2>1, MirrorParts
  <2>2. CASE ~(Mixed(c) /\ IsInMemory)
    <3>1. mirror = << >> /\ Len(<< >>) = 0
      BY <2>2
    <3>2. Still(<< >>)
      BY <3>1, NothingIngests DEF Ingests, Restores, Still
    <3> QED BY <3>1, <3>2
  <2> QED BY <2>1, <2>2
<1> HIDE DEF objects, mirror, N
<1>6. Still(p) /\ AnySeq(objects) /\ AnySeq(mirror)
  BY <1>3, <1>5, JoinedStill DEF Still
<1>7. /\ Len(p) = Len(objects) + Len(mirror)
      /\ \A i \in 1..Len(objects) : p[i] = objects[i]
      /\ \A i \in 1..Len(mirror) : p[i + Len(objects)] = mirror[i]
      /\ \A i \in 1..Len(p) : i <= Len(objects) \/ \E j \in 1..Len(mirror) : i = j + Len(objects)
  BY ONLY <1>6, JoinedSequence
<1> HIDE DEF p
<1>8. ASSUME NEW i \in 1..Len(p)
      PROVE  /\ p[i].op \in DuckDBOps /\ p[i].onfail = << >>
             /\ p[i].op = "view" =>
                  IsInMemory /\ \E j \in 1..i - 1 : Registers(p[j], Spelled(p[i].arg))
  <2>1. CASE i <= Len(objects)
    <3>1. p[i].op = "register" /\ p[i].onfail = << >>
      BY <1>3, <1>4, <1>7, <2>1
    <3> QED BY <3>1 DEF DuckDBOps
  <2>2. ASSUME NEW k \in 1..Len(mirror), i = k + Len(objects)
        PROVE  /\ p[i].op \in DuckDBOps /\ p[i].onfail = << >>
               /\ p[i].op = "view" =>
                    IsInMemory /\ \E j \in 1..i - 1 : Registers(p[j], Spelled(p[i].arg))
    <3>1. p[i] = mirror[k]
      BY <1>7, <2>2
    <3>2. ASSUME p[i].op = "view"
          PROVE  IsInMemory /\ \E j \in 1..i - 1 : Registers(p[j], Spelled(p[i].arg))
      <4>1. Mixed(c) /\ IsInMemory /\ \E j \in 1..N : p[i].arg = Source(c, j)
        BY <1>5, <3>1, <3>2
      <4>2. PICK j \in 1..N : p[i].arg = Source(c, j)
        BY <4>1
      <4>3. flat(j) = p[i].arg
        BY <4>1, <4>2 DEF flat, Source
      <4>4. p[j] = objects[j] /\ j \in 1..i - 1
        BY <1>1, <1>3, <1>7, <2>2
      <4>5. Registers(p[j], Spelled(p[i].arg))
        BY <1>4, <4>3, <4>4 DEF Registers
      <4> QED BY <4>1, <4>4, <4>5
    <3> QED BY <1>5, <3>1, <3>2
  <2> QED BY <1>7, <2>1, <2>2
<1>9. DuckDBProgram(c) = p
  BY DEF DuckDBProgram, p, objects, mirror, flat, at, rows
<1> QED BY <1>6, <1>8, <1>9

-----------------------------------------------------------------------------
(* What is left of a program after its first statement. *)
LEMMA TailRestores ==
  ASSUME NEW p, Restores(p), p # << >>
  PROVE  /\ Head(p) = p[1] /\ Cleans(p[1]) /\ Restores(Tail(p))
         /\ Len(Tail(p)) = Len(p) - 1 /\ Len(p) \in Nat
         /\ \A i \in 1..Len(Tail(p)) : i + 1 \in 1..Len(p) /\ Tail(p)[i] = p[i + 1]
         /\ StartsWithin(Tail(p)) <=> Remains(p[1])
<1> DEFINE q == Tail(p)
<1>1. /\ Len(p) \in Nat /\ Len(p) # 0 /\ Head(p) = p[1]
      /\ AnySeq(q) /\ Len(q) = Len(p) - 1
      /\ \A i \in 1..Len(p) - 1 : q[i] = p[i + 1]
  BY SequenceParts DEF Restores
<1>2. q = << >> <=> Len(q) = 0
  BY <1>1, SequenceParts
<1> HIDE DEF q
<1>3. \A i \in 1..Len(q) : i + 1 \in 1..Len(p) /\ q[i] = p[i + 1]
  BY <1>1
<1>4. Cleans(p[1])
  BY <1>1 DEF Restores
<1>5. \A i \in 1..Len(q) : Cleans(q[i])
  BY <1>3 DEF Restores
<1>6. Enclosed(q)
  <2> SUFFICES ASSUME NEW i \in 1..Len(q)
               PROVE  Remains(q[i]) <=> i < Len(q) /\ Within(q[i + 1])
    BY DEF Enclosed
  <2>1. i + 1 \in 1..Len(p) /\ q[i] = p[i + 1] /\ (i < Len(q) <=> i + 1 < Len(p))
    BY <1>1, <1>3
  <2>2. i < Len(q) => q[i + 1] = p[(i + 1) + 1]
    BY <1>1, <1>3
  <2>3. Remains(p[i + 1]) <=> i + 1 < Len(p) /\ Within(p[(i + 1) + 1])
    BY <2>1 DEF Restores, Enclosed
  <2> QED BY <2>1, <2>2, <2>3
<1>7. StartsWithin(q) <=> Remains(p[1])
  <2>1. Remains(p[1]) <=> 1 < Len(p) /\ Within(p[1 + 1])
    <3>1. 1 \in 1..Len(p)
      BY <1>1
    <3> QED BY <3>1 DEF Restores, Enclosed
  <2>2. 1 < Len(p) <=> q # << >>
    BY <1>1, <1>2
  <2>3. q # << >> => q[1] = p[1 + 1]
    BY <1>1, <2>2
  <2> QED BY <2>1, <2>2, <2>3 DEF StartsWithin
<1> QED BY <1>1, <1>3, <1>4, <1>5, <1>6, <1>7 DEF Restores, q

(* What is run when a statement fails. *)
LEMMA PlanRestores ==
  ASSUME NEW s, Cleans(s)
  PROVE  /\ Restores(s.onfail) /\ ViewFree(s.onfail)
         /\ \A i \in 1..Len(s.onfail) : s.onfail[i].onfail = << >>
         /\ StartsWithin(s.onfail) <=> Within(s) /\ s.op # "unuse"
<1> DEFINE q == s.onfail
<1>1. CASE q = << >>
  <2>1. Len(<< >>) = 0 /\ <<Unuse>> # << >>
    OBVIOUS
  <2> QED BY <1>1, <2>1, NothingIngests DEF Ingests, StartsWithin, Within
<1>2. ASSUME NEW t, q = <<Stmt("drop if", t, << >>)>>
      PROVE  /\ Restores(q) /\ ViewFree(q) /\ ~StartsWithin(q) /\ ~Within(s)
             /\ \A i \in 1..Len(q) : q[i].onfail = << >>
  <2>1. Plain(q)
    BY <1>2, PlainStmt
  <2>2. Ingests(q)
    BY <2>1, PlainIngests
  <2>3. Len(q) = 1 /\ q[1].onfail = << >> /\ q # << >>
    <3>1. Stmt("drop if", t, << >>).onfail = << >>
      BY DEF Stmt
    <3> HIDE DEF q
    <3> QED BY <1>2, <3>1
  <2>4. q # <<Unuse>>
    BY <1>2, DropsIsNotUnuse DEF Drops
  <2>5. s.op # "unuse"
    BY <2>3 DEF Cleans, Tidies
  <2> QED BY <2>2, <2>3, <2>4, <2>5 DEF Ingests, Within
<1>3. CASE q = <<Unuse>>
  <2>1. /\ q \in Seq({Unuse}) /\ Len(q) = 1 /\ q[1] = Unuse /\ q # << >>
    BY <1>3
  <2>2. Unuse.op = "unuse" /\ Unuse.onfail = << >> /\ ~Unuse.lenient
    BY DEF Unuse, Stmt
  <2>3. Within(Unuse) /\ ~Remains(Unuse)
    BY <2>2 DEF Within, Remains
  <2>4. Within(s) /\ s.op # "unuse" /\ DialectFor.default_database
    BY <1>3, <2>1 DEF Within, Cleans, Tidies
  <2>5. Cleans(Unuse)
    BY <2>2, <2>4 DEF Cleans, Tidies, Drops
  <2>6. AnySeq(q)
    BY <2>1 DEF AnySeq
  <2> HIDE DEF q
  <2>7. \A i \in 1..Len(q) : q[i] = Unuse /\ ~(i < Len(q))
    BY <2>1
  <2>8. Restores(q) /\ ViewFree(q) /\ StartsWithin(q)
    BY <2>1, <2>2, <2>3, <2>5, <2>6, <2>7 DEF Restores, Enclosed, ViewFree, StartsWithin
  <2> QED BY <2>2, <2>4, <2>7, <2>8 DEF q
<1>4. q = << >> \/ q = <<Unuse>> \/ \E t : q = <<Stmt("drop if", t, << >>)>>
  BY DEF Cleans, Tidies, Drops
<1> QED BY <1>1, <1>2, <1>3, <1>4

-----------------------------------------------------------------------------
(* The state of a call. *)

CallFields ==
  {"of", "before", "default", "previous", "unrestored", "in_schema", "todo", "outcome"}

Known ==
  /\ con \in Connections
  /\ call # NoCall => /\ DOMAIN call = CallFields /\ call.of \in Calls(con)
                      /\ Restores(call.todo)
                      /\ call.outcome = "naming" =>
                           con.adapter = "adbc" /\ ~StartsWithin(call.todo)

(* Between a "use" and its "unuse" the default database is kept in the call;  *)
(* elsewhere it is the connection's, until an "unuse" fails, and with it the  *)
(* call.                                                                      *)
Guarded ==
  /\ aborted \in BOOLEAN /\ (aborted => con.aborts)
  /\ call # NoCall /\ call.outcome # "lost" =>
       /\ call.outcome = "raising" => \A i \in 1..Len(call.todo) : call.todo[i].onfail = << >>
       /\ call.unrestored \in BOOLEAN
       /\ call.unrestored => call.outcome \in {"raising", "raised"}
       /\ call.default # NoDefault /\ ~call.unrestored =>
            IF Running /\ StartsWithin(call.todo) THEN call.previous = call.default
            ELSE default = call.default

LEMMA RestoresNext ==
  ASSUME con' = con, Restores(call.todo')
  PROVE  Restores(call.todo)'
<1>1. DialectFor' = DialectFor
  BY DEF DialectFor
<1> HIDE DEF DialectFor
<1> QED BY <1>1 DEF Restores, Cleans

LEMMA InitKnown == Init => Known /\ Guarded
BY DEF Init, Known, Guarded

(* The call a program begins with. *)
LEMMA RegisterKnown ==
  ASSUME Known, NEW c \in Calls(con), Register(c)
  PROVE  /\ DOMAIN call' = CallFields /\ call'.of = c /\ call'.default = default
         /\ call'.unrestored = FALSE
         /\ call'.todo = (CASE con.adapter = "duckdb" -> DuckDBProgram(c)
                            [] con.adapter = "datafusion" -> DataFusionProgram(c)
                            [] OTHER -> ADBCProgram(c, FALSE))
         /\ Restores(call'.todo) /\ ~StartsWithin(call'.todo)
         /\ call'.outcome \in {"raised", "naming", "running"}
         /\ call'.outcome = "naming" => con.adapter = "adbc"
<1> DEFINE todo == CASE con.adapter = "duckdb" -> DuckDBProgram(c)
                     [] con.adapter = "datafusion" -> DataFusionProgram(c)
                     [] OTHER -> ADBCProgram(c, FALSE)
           outcome == IF NamesClash(c) \/ (con.adapter = "adbc" /\ c.temporary /\ ~DialectFor.temporary_tables)
                      THEN "raised"
                      ELSE IF con.adapter = "adbc" /\ Mixed(c) /\ ~c.temporary THEN "naming" ELSE "running"
<1>1. call' = [of |-> c, before |-> tables, default |-> default, previous |-> NoDefault,
               unrestored |-> FALSE, in_schema |-> FALSE, todo |-> todo, outcome |-> outcome]
  BY DEF Register
<1>2. outcome \in {"raised", "naming", "running"} /\ (outcome = "naming" => con.adapter = "adbc")
  OBVIOUS
<1>3. Restores(todo) /\ ~StartsWithin(todo)
  <2>1. con \in Connections
    BY DEF Known
  <2>2. CASE con.adapter = "duckdb"
    BY <2>1, <2>2, DuckDBParts, StillRestores
  <2>3. CASE con.adapter = "datafusion"
    BY <2>1, <2>3, DataFusionIsPlain, PlainIngests DEF Ingests
  <2>4. CASE con.adapter \notin {"duckdb", "datafusion"}
    BY <2>1, <2>4, ADBCIngests DEF Ingests
  <2> QED BY <2>2, <2>3, <2>4
<1> HIDE DEF outcome
<1>4. /\ DOMAIN call' = CallFields /\ call'.of = c /\ call'.default = default
      /\ call'.unrestored = FALSE
      /\ call'.todo = todo /\ call'.outcome = outcome
  <2> HIDE DEF todo
  <2> QED BY <1>1 DEF CallFields
<1> QED BY <1>2, <1>3, <1>4

LEMMA StepKnown == Known /\ [Next]_vars => Known'
<1> SUFFICES ASSUME Known, [Next]_vars PROVE Known'
  OBVIOUS
<1>1. con' = con
  BY DEF Next, Register, CreateSchema, Execute, Fail, Return, Commit, Rollback, Reconnect, vars
<1>2. con' \in Connections
  BY <1>1 DEF Known
<1>3. ASSUME NEW c \in Calls(con), Register(c) PROVE Known'
  <2>1. Restores(call.todo)'
    BY <1>1, <1>3, RegisterKnown, RestoresNext
  <2> QED BY <1>1, <1>2, <1>3, <2>1, RegisterKnown DEF Known
<1>4. CASE CreateSchema
  <2>1. call # NoCall /\ call.outcome = "naming" /\ DOMAIN call = CallFields /\ call.of \in Calls(con)
    BY <1>4 DEF CreateSchema, Running, Known
  <2>2. \/ call' = [call EXCEPT !.outcome = "raised"]
        \/ \E in_schema \in BOOLEAN :
             call' = [call EXCEPT !.in_schema = in_schema, !.outcome = "running",
                                  !.todo = ADBCProgram(call.of, in_schema)]
    BY <1>4 DEF CreateSchema
  <2>3. CASE call' = [call EXCEPT !.outcome = "raised"]
    <3>1. /\ DOMAIN call' = CallFields /\ call'.of = call.of /\ call'.todo = call.todo
          /\ call'.outcome = "raised"
      BY <2>1, <2>3 DEF CallFields
    <3>2. Restores(call.todo)'
      BY <1>1, <2>1, <3>1, RestoresNext DEF Known
    <3> QED BY <1>1, <1>2, <2>1, <3>1, <3>2 DEF Known
  <2>4. ASSUME NEW in_schema \in BOOLEAN,
               call' = [call EXCEPT !.in_schema = in_schema, !.outcome = "running",
                                    !.todo = ADBCProgram(call.of, in_schema)]
        PROVE  Known'
    <3>1. /\ DOMAIN call' = CallFields /\ call'.of = call.of
          /\ call'.todo = ADBCProgram(call.of, in_schema) /\ call'.outcome = "running"
      BY <2>1, <2>4 DEF CallFields
    <3>2. Ingests(ADBCProgram(call.of, in_schema))
      BY <2>1, ADBCIngests DEF Known
    <3>3. Restores(call.todo)'
      BY <1>1, <3>1, <3>2, RestoresNext DEF Ingests
    <3> QED BY <1>1, <1>2, <2>1, <3>1, <3>3 DEF Known
  <2> QED BY <2>2, <2>3, <2>4
<1>5. CASE Execute \/ Fail \/ Return
  <2>1. /\ call # NoCall /\ DOMAIN call = CallFields /\ call.of \in Calls(con)
        /\ Restores(call.todo) /\ call.outcome # "naming"
    BY <1>5 DEF Execute, Fail, Return, Started, Running, Known
  <2>2. /\ DOMAIN call' = CallFields /\ call'.of = call.of /\ call'.outcome # "naming"
        /\ Restores(call'.todo)
    <3>1. CASE Execute
      <4>1. /\ DOMAIN call' = CallFields /\ call'.of = call.of /\ call'.outcome = call.outcome
            /\ call'.todo = Tail(call.todo) /\ call.todo # << >>
        BY <2>1, <3>1 DEF Execute, CallFields
      <4> QED BY <2>1, <4>1, TailRestores
    <3>2. CASE Fail
      <4>1. /\ DOMAIN call' = CallFields /\ call'.of = call.of
            /\ call'.outcome \in {call.outcome, "raising"}
            /\ call'.todo = (IF call.outcome = "raising" THEN << >> ELSE Head(call.todo).onfail)
            /\ call.todo # << >>
        BY <2>1, <3>2 DEF Fail, CallFields
      <4>2. Cleans(Head(call.todo))
        BY <2>1, <4>1, TailRestores
      <4>3. Restores(<< >>) /\ Restores(Head(call.todo).onfail)
        BY <4>2, NothingIngests, PlanRestores DEF Ingests
      <4> QED BY <2>1, <4>1, <4>3
    <3>3. CASE Return
      BY <2>1, <3>3 DEF Return, CallFields
    <3> QED BY <1>5, <3>1, <3>2, <3>3
  <2>3. Restores(call.todo)'
    BY <1>1, <2>2, RestoresNext
  <2> QED BY <1>1, <1>2, <2>1, <2>2, <2>3 DEF Known
<1>6. CASE UNCHANGED call
  <2>1. call # NoCall => Restores(call.todo)'
    BY <1>1, <1>6, RestoresNext DEF Known
  <2> QED BY <1>1, <1>2, <1>6, <2>1 DEF Known
<1>7. CASE call' = NoCall
  BY <1>2, <1>7 DEF Known
<1>8. CASE Reconnect
  <2>1. CASE call' = NoCall
    BY <1>7, <2>1
  <2>2. CASE Running /\ call' = [call EXCEPT !.outcome = "lost", !.todo = << >>]
    <3>1. call # NoCall /\ DOMAIN call = CallFields /\ call.of \in Calls(con)
      BY <2>2 DEF Known, Running
    <3>2. /\ DOMAIN call' = CallFields /\ call'.of = call.of /\ call'.todo = << >>
          /\ call'.outcome = "lost"
      BY <2>2, <3>1 DEF CallFields
    <3>3. Restores(call.todo)'
      BY <1>1, <3>2, NothingIngests, RestoresNext DEF Ingests
    <3> QED BY <1>1, <1>2, <3>1, <3>2, <3>3 DEF Known
  <2> QED BY <1>8, <2>1, <2>2 DEF Reconnect
<1>9. Commit \/ UNCHANGED vars => UNCHANGED call
  BY DEF Commit, vars
<1>10. Rollback => call' = NoCall
  BY DEF Rollback
<1> QED BY <1>3, <1>4, <1>5, <1>6, <1>7, <1>8, <1>9, <1>10 DEF Next

(* The state of a call that has a next statement to run. *)
LEMMA StartedParts ==
  ASSUME Known, Started
  PROVE  /\ call # NoCall /\ DOMAIN call = CallFields /\ Restores(call.todo)
         /\ call.outcome \in {"running", "raising"} /\ Running
BY DEF Known, Started, Running

LEMMA ExecuteGuarded ==
  ASSUME Known, Guarded, Execute
  PROVE  Guarded'
<1> DEFINE s == call.todo[1]
<1>1. /\ call # NoCall /\ DOMAIN call = CallFields /\ Restores(call.todo)
      /\ call.outcome \in {"running", "raising"} /\ Running /\ call.todo # << >>
  BY StartedParts DEF Execute
<1>2. /\ Head(call.todo) = s /\ Cleans(s)
      /\ StartsWithin(call.todo) <=> Within(s)
      /\ StartsWithin(Tail(call.todo)) <=> Remains(s)
      /\ \A i \in 1..Len(Tail(call.todo)) :
           i + 1 \in 1..Len(call.todo) /\ Tail(call.todo)[i] = call.todo[i + 1]
  BY <1>1, TailRestores DEF StartsWithin
<1>3. /\ call' = [call EXCEPT !.todo = Tail(@), !.previous = IF s.op = "use" THEN default ELSE @]
      /\ default' = DefaultAfter(s) /\ aborted' = aborted /\ con' = con
  BY <1>2 DEF Execute
<1> HIDE DEF s
<1>4. /\ call'.todo = Tail(call.todo) /\ call'.outcome = call.outcome
      /\ call'.default = call.default /\ call'.unrestored = call.unrestored
      /\ call'.previous = IF s.op = "use" THEN default ELSE call.previous
  BY <1>1, <1>3 DEF CallFields
<1>5. call' # NoCall => Running'
  BY <1>1, <1>4 DEF Running
<1>6. ASSUME call'.outcome = "raising", NEW i \in 1..Len(call'.todo)
      PROVE  call'.todo[i].onfail = << >>
  BY <1>1, <1>2, <1>4, <1>6 DEF Guarded
<1>7. ASSUME call.default # NoDefault, ~call.unrestored
      PROVE  IF Remains(s) THEN call'.previous = call.default ELSE default' = call.default
  <2>1. IF Within(s) THEN call.previous = call.default ELSE default = call.default
    BY <1>1, <1>2, <1>7 DEF Guarded
  <2>2. CASE s.op = "use"
    <3>1. ~Within(s)
      <4>1. <<Unuse>> # << >>
        OBVIOUS
      <4> QED BY <1>2, <2>2, <4>1 DEF Within, Cleans, Tidies
    <3> QED BY <1>4, <2>1, <2>2, <3>1 DEF Remains
  <2>3. CASE s.op = "unuse"
    <3>1. default' = call.previous
      BY <1>3, <1>7, <2>1, <2>3 DEF DefaultAfter, Within
    <3> QED BY <2>1, <2>3, <3>1 DEF Remains, Within
  <2>4. CASE s.op \notin {"use", "unuse"}
    <3>1. default' = default
      BY <1>3, <2>4 DEF DefaultAfter
    <3> QED BY <1>4, <2>1, <2>4, <3>1 DEF Remains
  <2> QED BY <2>2, <2>3, <2>4
<1>8. call.unrestored \in BOOLEAN /\ (call.unrestored => call.outcome \in {"raising", "raised"})
  BY <1>1 DEF Guarded
<1> QED BY <1>1, <1>2, <1>3, <1>4, <1>5, <1>6, <1>7, <1>8 DEF Guarded

(* A statement within the table's database leaves its "unuse" when it fails,  *)
(* and the failure of the "unuse" itself is recorded and raised.              *)
LEMMA FailGuarded ==
  ASSUME Known, Guarded, Fail
  PROVE  Guarded'
<1> DEFINE s == call.todo[1]
<1>1. /\ call # NoCall /\ DOMAIN call = CallFields /\ Restores(call.todo)
      /\ call.outcome \in {"running", "raising"} /\ Running /\ call.todo # << >>
  BY StartedParts DEF Fail
<1>2. /\ Head(call.todo) = s /\ Cleans(s)
      /\ StartsWithin(call.todo) <=> Within(s)
      /\ call.outcome = "raising" => s.onfail = << >>
  <2>1. Head(call.todo) = s /\ Cleans(s) /\ (StartsWithin(call.todo) <=> Within(s))
    BY <1>1, TailRestores DEF StartsWithin
  <2>2. 1 \in 1..Len(call.todo)
    BY <1>1, SequenceParts DEF Restores
  <2> QED BY <1>1, <2>1, <2>2 DEF Guarded
<1>3. /\ call' = [call EXCEPT !.todo = IF call.outcome = "raising" THEN << >> ELSE s.onfail,
                              !.unrestored = @ \/ s.op = "unuse",
                              !.outcome = IF s.lenient THEN @ ELSE "raising"]
      /\ default' = default /\ con' = con
      /\ aborted' \in {aborted \/ con.aborts, aborted}
  BY <1>2 DEF Fail
<1> HIDE DEF s
<1>4. /\ call'.todo = (IF call.outcome = "raising" THEN << >> ELSE s.onfail)
      /\ call'.outcome = (IF s.lenient THEN call.outcome ELSE "raising")
      /\ call'.unrestored = (call.unrestored \/ s.op = "unuse")
      /\ call'.default = call.default /\ call'.previous = call.previous
  BY <1>1, <1>3 DEF CallFields
<1>5. con.aborts \in BOOLEAN
  BY ConnectionAssumption DEF Known
<1>6. aborted' \in BOOLEAN /\ (aborted' => con'.aborts)
  BY <1>3, <1>5 DEF Guarded
<1>7. /\ call'.unrestored \in BOOLEAN
      /\ call'.unrestored => call'.outcome \in {"raising", "raised"}
  <2>1. /\ call.unrestored \in BOOLEAN
        /\ call.unrestored => call.outcome \in {"raising", "raised"}
    BY <1>1 DEF Guarded
  <2>2. s.op = "unuse" => ~s.lenient
    BY <1>2 DEF Cleans, Tidies
  <2> QED BY <1>1, <1>4, <2>1, <2>2
<1>8. /\ StartsWithin(s.onfail) <=> Within(s) /\ s.op # "unuse"
      /\ \A i \in 1..Len(s.onfail) : s.onfail[i].onfail = << >>
  BY <1>2, PlanRestores
<1>9. call' # NoCall => Running'
  BY <1>1, <1>4 DEF Running
<1>10. \A i \in 1..Len(call'.todo) : call'.todo[i].onfail = << >>
  <2>1. Len(<< >>) = 0
    OBVIOUS
  <2> QED BY <1>4, <1>8, <2>1
<1>11. ASSUME call.default # NoDefault, ~call'.unrestored
       PROVE  IF StartsWithin(call'.todo) THEN call'.previous = call.default
              ELSE default' = call.default
  <2> s.op # "unuse" /\ (call.unrestored = FALSE)
    <3>1. call.unrestored \in BOOLEAN
      BY <1>1 DEF Guarded
    <3> QED BY <1>4, <1>11, <3>1
  <2>1. IF Within(s) THEN call.previous = call.default ELSE default = call.default
    BY <1>1, <1>2, <1>11 DEF Guarded
  <2>2. CASE call.outcome = "raising"
    <3>1. ~Within(s)
      <4>1. <<Unuse>> # << >>
        OBVIOUS
      <4> QED BY <1>2, <2>2, <4>1 DEF Within
    <3>2. ~StartsWithin(call'.todo)
      BY <1>4, <2>2 DEF StartsWithin
    <3> QED BY <1>3, <2>1, <3>1, <3>2
  <2>3. CASE call.outcome # "raising"
    BY <1>3, <1>4, <1>8, <2>1, <2>3
  <2> QED BY <2>2, <2>3
<1> QED BY <1>4, <1>6, <1>7, <1>9, <1>10, <1>11 DEF Guarded

LEMMA StepGuarded == Known /\ Guarded /\ [Next]_vars => Guarded'
<1> SUFFICES ASSUME Known, Guarded, [Next]_vars PROVE Guarded'
  OBVIOUS
<1>1. ASSUME NEW c \in Calls(con), Register(c) PROVE Guarded'
  <2>1. /\ call'.default = default /\ default' = default /\ ~StartsWithin(call'.todo)
        /\ call'.outcome # "raising" /\ aborted' = aborted /\ con' = con
        /\ call'.unrestored = FALSE
    BY <1>1, RegisterKnown DEF Register
  <2> QED BY <2>1 DEF Guarded
<1>2. CASE CreateSchema
  <2>1. call # NoCall /\ call.outcome = "naming" /\ DOMAIN call = CallFields
        /\ call.of \in Calls(con) /\ Running
    BY <1>2 DEF CreateSchema, Running, Known
  <2>2. con.aborts \in BOOLEAN /\ con' = con /\ default' = default
    BY <1>2, ConnectionAssumption DEF CreateSchema, Known
  <2>3. aborted' \in BOOLEAN /\ (aborted' => con'.aborts)
    BY <1>2, <2>2 DEF CreateSchema, Guarded
  <2>4. \/ call' = [call EXCEPT !.outcome = "raised"]
        \/ \E in_schema \in BOOLEAN :
             call' = [call EXCEPT !.in_schema = in_schema, !.outcome = "running",
                                  !.todo = ADBCProgram(call.of, in_schema)]
    BY <1>2 DEF CreateSchema
  <2>5. /\ call.unrestored = FALSE
        /\ call.default # NoDefault => default' = call.default
    BY <2>1, <2>2 DEF Guarded, Known
  <2>6. CASE call' = [call EXCEPT !.outcome = "raised"]
    <3>1. /\ call'.default = call.default /\ call'.outcome = "raised"
          /\ call'.unrestored = call.unrestored
      BY <2>1, <2>6 DEF CallFields
    <3>2. ~Running'
      BY <3>1 DEF Running
    <3> QED BY <2>3, <2>5, <3>1, <3>2 DEF Guarded
  <2>7. ASSUME NEW in_schema \in BOOLEAN,
               call' = [call EXCEPT !.in_schema = in_schema, !.outcome = "running",
                                    !.todo = ADBCProgram(call.of, in_schema)]
        PROVE  Guarded'
    <3>1. /\ call'.default = call.default /\ call'.outcome = "running"
          /\ call'.unrestored = call.unrestored
          /\ call'.todo = ADBCProgram(call.of, in_schema)
      BY <2>1, <2>7 DEF CallFields
    <3>2. ~StartsWithin(call'.todo)
      BY <2>1, <3>1, ADBCIngests DEF Ingests, Known
    <3> QED BY <2>3, <2>5, <3>1, <3>2 DEF Guarded
  <2> QED BY <2>4, <2>6, <2>7
<1>3. CASE Return
  <2>1. /\ call # NoCall /\ DOMAIN call = CallFields /\ call.todo = << >> /\ Running
        /\ call.outcome \in {"running", "raising"}
    BY <1>3, StartedParts DEF Return
  <2>2. /\ call'.default = call.default /\ call'.todo = << >>
        /\ call'.unrestored = call.unrestored
        /\ call'.outcome = (IF call.outcome = "running" THEN "returned" ELSE "raised")
        /\ default' = default /\ aborted' = aborted /\ con' = con
    BY <1>3, <2>1 DEF Return, CallFields
  <2>3. ~StartsWithin(call.todo) /\ ~Running'
    BY <2>1, <2>2 DEF StartsWithin, Running
  <2> QED BY <2>1, <2>2, <2>3 DEF Guarded
<1>4. CASE Rollback
  BY <1>4 DEF Rollback, Guarded
<1>5. CASE Reconnect
  <2>1. call' = NoCall \/ call'.outcome = "lost"
    <3>1. Running => DOMAIN call = CallFields
      BY DEF Known, Running
    <3> QED BY <1>5, <3>1 DEF Reconnect, CallFields
  <2> QED BY <1>5, <2>1 DEF Reconnect, Guarded
<1>6. CASE Commit \/ UNCHANGED vars
  <2>1. UNCHANGED <<con, default, aborted, call>>
    BY <1>6 DEF Commit, vars
  <2> QED BY <2>1 DEF Guarded, Running
<1> QED BY <1>1, <1>2, <1>3, <1>4, <1>5, <1>6, ExecuteGuarded, FailGuarded DEF Next

(* The program of a call is one that restores the default database from       *)
(* wherever it is left, as long as its last statement, USE, can be run; when  *)
(* that fails so does the call.                                               *)
THEOREM CallsAreGuarded == Spec => [](Known /\ Guarded)
<1>1. Init => Known /\ Guarded
  BY InitKnown
<1>2. Known /\ Guarded /\ [Next]_vars => (Known /\ Guarded)'
  BY StepKnown, StepGuarded
<1> QED BY <1>1, <1>2, PTL DEF Spec

(* When register returns, and when it raises for any other reason than that  *)
(* the USE of the finally of _default_database failed, the connection is in  *)
(* the default database it had; when that USE fails register raises.         *)
THEOREM DefaultDatabaseIsRestored == Spec => []DefaultIsRestored
<1>1. Known /\ Guarded => DefaultIsRestored
  BY DEF Guarded, DefaultIsRestored, Running
<1> QED BY <1>1, CallsAreGuarded, PTL

-----------------------------------------------------------------------------
(* Views. *)

(* Views are of DuckDB connections in memory, and none dangles. *)
Recorded(ts) ==
  \A k \in DOMAIN ts :
    /\ DOMAIN ts[k] = {"kind", "rows"}
    /\ ts[k].kind = "view" => con.adapter = "duckdb" /\ IsInMemory /\ ts[k].rows \in DOMAIN ts

(* The object a view will select from is there, or is registered before it.   *)
Awaited(i) ==
  LET s == call.todo[i]
  IN  /\ con.adapter = "duckdb" => s.op \in DuckDBOps /\ s.onfail = << >>
      /\ s.op = "view" =>
           /\ con.adapter = "duckdb" /\ IsInMemory
           /\ \/ <<"temp", Spelled(s.arg)>> \in DOMAIN tables
              \/ \E j \in 1..i - 1 : Registers(call.todo[j], Spelled(s.arg))

Expected == call # NoCall => \A i \in 1..Len(call.todo) : Awaited(i)

Viewed == Recorded(tables) /\ Recorded(committed.tables) /\ Expected

LEMMA InitViewed == Init => Viewed
<1> SUFFICES ASSUME Init PROVE Viewed
  OBVIOUS
<1>1. con \in Connections /\ tables = con.tables /\ committed.tables = tables /\ call = NoCall
  BY DEF Init
<1>2. Recorded(tables)
  BY <1>1, ConnectionAssumption DEF Recorded
<1> QED BY <1>1, <1>2 DEF Viewed, Expected

(* What a statement does to the tables. *)
LEMMA StatementRecords ==
  ASSUME Recorded(tables), NEW s, Possible(s), tables' = TablesAfter(s), con' = con,
         con.adapter = "duckdb" => s.op \in DuckDBOps,
         s.op = "view" => /\ con.adapter = "duckdb" /\ IsInMemory
                          /\ <<"temp", Spelled(s.arg)>> \in DOMAIN tables
  PROVE  /\ Recorded(tables)'
         /\ con.adapter = "duckdb" => DOMAIN tables \subseteq DOMAIN tables'
         /\ s.op = "register" => Key(s.table) \in DOMAIN tables'
<1> DEFINE k == Key(s.table)
           Holds(c) == /\ DOMAIN c = {"kind", "rows"}
                       /\ c.kind = "view" => con.adapter = "duckdb" /\ IsInMemory /\ c.rows \in DOMAIN tables'
<1>1. Recorded(tables)' <=> \A j \in DOMAIN tables' : Holds(tables'[j])
  BY DEF Recorded, IsInMemory
<1>2. \A j \in DOMAIN tables : DOMAIN tables[j] = {"kind", "rows"}
  BY DEF Recorded
<1>3. \A j \in DOMAIN tables : DOMAIN tables \subseteq DOMAIN tables' => Holds(tables[j])
  BY DEF Recorded
<1>4. con.adapter # "duckdb" => \A j \in DOMAIN tables : Holds(tables[j])
  BY DEF Recorded
<1> HIDE DEF k
<1>5. ASSUME NEW content, Holds(content), tables' = Put(k, content)
      PROVE  (\A j \in DOMAIN tables' : Holds(tables'[j])) /\ DOMAIN tables \subseteq DOMAIN tables'
  <2>1. DOMAIN tables \subseteq DOMAIN tables'
    BY <1>5 DEF Put
  <2>2. \A j \in DOMAIN tables' : tables'[j] = content \/ (j \in DOMAIN tables /\ tables'[j] = tables[j])
    BY <1>5 DEF Put
  <2> HIDE DEF Holds
  <2> QED BY <1>3, <1>5, <2>1, <2>2
<1>6. CASE s.op \in {"drop", "drop if", "new schema"}
  <2>1. con.adapter # "duckdb"
    BY <1>6 DEF DuckDBOps
  <2>2. \E kept \in SUBSET DOMAIN tables : tables' = Restrict(tables, kept)
    BY <1>6 DEF TablesAfter, Without
  <2>3. \A j \in DOMAIN tables' : j \in DOMAIN tables /\ tables'[j] = tables[j]
    BY <2>2 DEF Restrict
  <2> HIDE DEF Holds
  <2> QED BY <1>1, <1>4, <1>6, <2>1, <2>3
<1>7. CASE s.op \in {"create", "replace"} \/ (s.op = "create_append" /\ k \notin DOMAIN tables)
  <2>1. tables' = Put(k, Table)
    BY <1>7 DEF TablesAfter, k
  <2>2. Holds(Table)
    BY DEF Table
  <2> HIDE DEF Holds
  <2> QED BY <1>1, <1>5, <1>7, <2>1, <2>2
<1>8. CASE s.op = "batch"
  <2>1. k \in DOMAIN tables /\ tables' = Put(k, [tables[k] EXCEPT !.rows = Append(@, s.arg)])
    BY <1>8 DEF TablesAfter, Possible, k
  <2>2. con.adapter # "duckdb"
    BY <1>8 DEF DuckDBOps
  <2>3. DOMAIN tables[k] = {"kind", "rows"} /\ tables[k].kind # "view"
    BY <2>1, <2>2 DEF Recorded
  <2>4. Holds([tables[k] EXCEPT !.rows = Append(@, s.arg)])
    BY <2>3
  <2> HIDE DEF Holds
  <2> QED BY <1>1, <1>5, <1>8, <2>1, <2>4
<1>9. CASE s.op = "exchange"
  <2>1. con.adapter # "duckdb"
    BY <1>9 DEF DuckDBOps
  <2>2. /\ k \in DOMAIN tables /\ Key(s.arg) \in DOMAIN tables
        /\ tables' = [tables EXCEPT ![k] = tables[Key(s.arg)], ![Key(s.arg)] = tables[k]]
    BY <1>9 DEF TablesAfter, Possible, k
  <2>3. \A j \in DOMAIN tables' : \E i \in DOMAIN tables : tables'[j] = tables[i]
    BY <2>2
  <2> HIDE DEF Holds
  <2> QED BY <1>1, <1>4, <1>9, <2>1, <2>3
<1>10. CASE s.op \in {"register", "add"}
  <2> DEFINE object == [kind |-> "object", rows |-> s.arg]
  <2>1. tables' = Put(k, object)
    BY <1>10 DEF TablesAfter, k
  <2>2. Holds(object)
    OBVIOUS
  <2>3. k \in DOMAIN tables'
    BY <2>1 DEF Put
  <2> HIDE DEF Holds, object
  <2> QED BY <1>1, <1>5, <1>10, <2>1, <2>2, <2>3 DEF k
<1>11. CASE s.op = "view"
  <2> DEFINE view == [kind |-> "view", rows |-> <<"temp", Spelled(s.arg)>>]
  <2>1. tables' = Put(k, view)
    BY <1>11 DEF TablesAfter, k
  <2>2. Holds(view)
    <3>1. DOMAIN tables \subseteq DOMAIN tables'
      <4> HIDE DEF view
      <4> QED BY <2>1 DEF Put
    <3> QED BY <1>11, <3>1
  <2> HIDE DEF Holds, view
  <2> QED BY <1>1, <1>5, <1>11, <2>1, <2>2
<1>12. CASE /\ s.op \notin {"drop", "drop if", "new schema", "create", "replace", "batch",
                            "exchange", "register", "add", "view"}
            /\ ~(s.op = "create_append" /\ k \notin DOMAIN tables)
  <2>1. tables' = tables
    BY <1>12 DEF TablesAfter, k
  <2> HIDE DEF Holds
  <2> QED BY <1>1, <1>3, <1>12, <2>1
<1> QED BY <1>6, <1>7, <1>8, <1>9, <1>10, <1>11, <1>12

LEMMA StepViewed == Known /\ Viewed /\ [Next]_vars => Viewed'
<1> SUFFICES ASSUME Known, Viewed, [Next]_vars PROVE Viewed'
  OBVIOUS
<1>1. con' = con
  BY DEF Next, Register, CreateSchema, Execute, Fail, Return, Commit, Rollback, Reconnect, vars
<1>2. ASSUME NEW ts, Recorded(ts)
      PROVE  \A k \in DOMAIN ts :
               /\ DOMAIN ts[k] = {"kind", "rows"}
               /\ ts[k].kind = "view" => con'.adapter = "duckdb" /\ IsInMemory' /\ ts[k].rows \in DOMAIN ts
  BY <1>1, <1>2 DEF Recorded, IsInMemory
<1>3. tables' = tables \/ tables' = committed.tables => Recorded(tables)'
  BY <1>2 DEF Recorded, Viewed
<1>4. committed'.tables \in {committed.tables, tables} => Recorded(committed.tables)'
  BY <1>2 DEF Recorded, Viewed
<1>5. ASSUME Recorded(tables)', committed'.tables = tables' PROVE Recorded(committed.tables)'
  BY <1>5 DEF Recorded
<1>6. ASSUME NEW tables_, NEW schemas_, Keep(tables_, schemas_)
      PROVE  committed'.tables \in {committed.tables, tables_}
  BY <1>6 DEF Keep
<1>7. call' = NoCall => Expected'
  BY DEF Expected
<1>8. ASSUME NEW c \in Calls(con), Register(c) PROVE Viewed'
  <2> DEFINE p == call'.todo
  <2>1. con \in Connections /\ tables' = tables /\ committed' = committed
    BY <1>8 DEF Register, Known
  <2>2. /\ con.adapter = "duckdb" => p = DuckDBProgram(c)
        /\ con.adapter # "duckdb" => p = DataFusionProgram(c) \/ p = ADBCProgram(c, FALSE)
    BY <1>8, RegisterKnown
  <2>3. CASE con.adapter = "duckdb"
    <3>1. \A i \in 1..Len(p) :
            /\ p[i].op \in DuckDBOps /\ p[i].onfail = << >>
            /\ p[i].op = "view" => IsInMemory /\ \E j \in 1..i - 1 : Registers(p[j], Spelled(p[i].arg))
      BY <2>1, <2>2, <2>3, DuckDBParts
    <3>2. Expected'
      BY <1>1, <2>3, <3>1 DEF Expected, Awaited, IsInMemory, Registers, Spelled
    <3> QED BY <1>3, <1>4, <2>1, <3>2 DEF Viewed
  <2>4. CASE con.adapter # "duckdb"
    <3>1. ViewFree(p)
      BY <2>1, <2>2, <2>4, DataFusionIsPlain, ADBCIngests DEF Plain, Ingests
    <3>2. Expected'
      BY <1>1, <2>4, <3>1 DEF Expected, Awaited, ViewFree
    <3> QED BY <1>3, <1>4, <2>1, <3>2 DEF Viewed
  <2> QED BY <2>3, <2>4
<1>9. CASE CreateSchema
  <2>1. /\ call # NoCall /\ DOMAIN call = CallFields /\ call.of \in Calls(con)
        /\ con.adapter = "adbc" /\ con \in Connections
    BY <1>9 DEF CreateSchema, Running, Known
  <2>2. tables' = tables /\ committed'.tables \in {committed.tables, tables}
    BY <1>6, <1>9 DEF CreateSchema
  <2>3. \/ call' = [call EXCEPT !.outcome = "raised"]
        \/ \E in_schema \in BOOLEAN :
             call' = [call EXCEPT !.in_schema = in_schema, !.outcome = "running",
                                  !.todo = ADBCProgram(call.of, in_schema)]
    BY <1>9 DEF CreateSchema
  <2>4. ViewFree(call'.todo)
    <3>1. CASE call' = [call EXCEPT !.outcome = "raised"]
      <4>1. call'.todo = call.todo
        BY <2>1, <3>1 DEF CallFields
      <4> QED BY <2>1, <4>1 DEF Viewed, Expected, Awaited, ViewFree
    <3>2. ASSUME NEW in_schema \in BOOLEAN,
                 call' = [call EXCEPT !.in_schema = in_schema, !.outcome = "running",
                                      !.todo = ADBCProgram(call.of, in_schema)]
          PROVE  ViewFree(call'.todo)
      <4>1. call'.todo = ADBCProgram(call.of, in_schema)
        BY <2>1, <3>2 DEF CallFields
      <4> QED BY <2>1, <4>1, ADBCIngests DEF Ingests
    <3> QED BY <2>3, <3>1, <3>2
  <2>5. Expected'
    BY <1>1, <2>1, <2>4 DEF Expected, Awaited, ViewFree
  <2> QED BY <1>3, <1>4, <2>2, <2>5 DEF Viewed
<1>10. CASE Execute
  <2> DEFINE s == call.todo[1]
  <2>1. call # NoCall /\ DOMAIN call = CallFields /\ Restores(call.todo) /\ call.todo # << >>
    BY <1>10, StartedParts DEF Execute
  <2>2. /\ Head(call.todo) = s /\ Len(call.todo) \in Nat
        /\ \A i \in 1..Len(Tail(call.todo)) :
             i + 1 \in 1..Len(call.todo) /\ Tail(call.todo)[i] = call.todo[i + 1]
    BY <2>1, TailRestores
  <2>3. 1 \in 1..Len(call.todo)
    BY <2>1, SequenceParts DEF Restores
  <2>4. Possible(s) /\ tables' = TablesAfter(s) /\ Keep(tables', schemas')
    BY <1>10, <2>2 DEF Execute
  <2>5. call'.todo = Tail(call.todo)
    BY <1>10, <2>1 DEF Execute, CallFields
  <2>6. Awaited(1)
    BY <2>1, <2>3 DEF Viewed, Expected
  <2>7. /\ con.adapter = "duckdb" => s.op \in DuckDBOps
        /\ s.op = "view" => /\ con.adapter = "duckdb" /\ IsInMemory
                            /\ <<"temp", Spelled(s.arg)>> \in DOMAIN tables
    <3>1. 1..1 - 1 = {}
      OBVIOUS
    <3> QED BY <2>6, <3>1 DEF Awaited
  <2> HIDE DEF s
  <2>8. /\ Recorded(tables)'
        /\ con.adapter = "duckdb" => DOMAIN tables \subseteq DOMAIN tables'
        /\ s.op = "register" => Key(s.table) \in DOMAIN tables'
    BY <1>1, <2>4, <2>7, StatementRecords DEF Viewed
  <2>9. ASSUME NEW i \in 1..Len(call'.todo) PROVE Awaited(i)'
    <3> DEFINE t == call'.todo[i]
    <3>1. t = call.todo[i + 1] /\ Awaited(i + 1)
      BY <2>1, <2>2, <2>5 DEF Viewed, Expected
    <3>2. ASSUME t.op = "view"
          PROVE  \/ <<"temp", Spelled(t.arg)>> \in DOMAIN tables'
                 \/ \E j \in 1..i - 1 : Registers(call'.todo[j], Spelled(t.arg))
      <4>1. /\ con.adapter = "duckdb"
            /\ \/ <<"temp", Spelled(t.arg)>> \in DOMAIN tables
               \/ \E j \in 1..(i + 1) - 1 : Registers(call.todo[j], Spelled(t.arg))
        BY <3>1, <3>2 DEF Awaited
      <4>2. ASSUME NEW j \in 1..(i + 1) - 1, Registers(call.todo[j], Spelled(t.arg))
            PROVE  \/ <<"temp", Spelled(t.arg)>> \in DOMAIN tables'
                   \/ \E k \in 1..i - 1 : Registers(call'.todo[k], Spelled(t.arg))
        <5>1. CASE j = 1
          <6>1. s.op = "register" /\ s.table[1] = "temp" /\ Spelled(s.table[2]) = Spelled(t.arg)
            BY <4>2, <5>1 DEF Registers, s
          <6>2. Key(s.table) = <<"temp", Spelled(t.arg)>>
            BY <6>1, ConnectionAssumption DEF Key
          <6> QED BY <2>8, <6>1, <6>2
        <5>2. CASE j # 1
          <6>1. j - 1 \in 1..i - 1 /\ j - 1 \in 1..Len(Tail(call.todo)) /\ (j - 1) + 1 = j
            BY <2>2, <2>5, <5>2
          <6>2. call'.todo[j - 1] = call.todo[j]
            BY <2>2, <2>5, <6>1
          <6> HIDE DEF t
          <6> QED BY <4>2, <6>1, <6>2
        <5> QED BY <5>1, <5>2
      <4> QED BY <2>8, <4>1, <4>2
    <3>3. /\ con.adapter = "duckdb" => t.op \in DuckDBOps /\ t.onfail = << >>
          /\ t.op = "view" => con.adapter = "duckdb" /\ IsInMemory
      BY <3>1 DEF Awaited
    <3> QED BY <1>1, <3>2, <3>3 DEF Awaited, IsInMemory, Registers, Spelled
  <2>10. Expected'
    BY <2>9 DEF Expected
  <2>11. committed'.tables \in {committed.tables, tables'}
    BY <2>4 DEF Keep
  <2> QED BY <1>4, <1>5, <2>8, <2>10, <2>11 DEF Viewed
<1>11. CASE Fail
  <2>1. call # NoCall /\ DOMAIN call = CallFields /\ Restores(call.todo) /\ call.todo # << >>
    BY <1>11, StartedParts DEF Fail
  <2>2. /\ Head(call.todo) = call.todo[1] /\ Cleans(call.todo[1])
        /\ 1 \in 1..Len(call.todo)
    BY <2>1, TailRestores, SequenceParts DEF Restores
  <2>3. call'.todo = << >> \/ call'.todo = call.todo[1].onfail
    BY <1>11, <2>1, <2>2 DEF Fail, CallFields
  <2>4. ViewFree(call'.todo) /\ (con.adapter = "duckdb" => call'.todo = << >>)
    <3>1. con.adapter = "duckdb" => call.todo[1].onfail = << >>
      BY <2>1, <2>2 DEF Viewed, Expected, Awaited
    <3> QED BY <2>2, <2>3, <3>1, NothingIngests, PlanRestores DEF Ingests
  <2>5. Expected'
    <3>1. Len(<< >>) = 0
      OBVIOUS
    <3> QED BY <1>1, <2>4, <3>1 DEF Expected, Awaited, ViewFree
  <2>6. tables' = tables /\ committed' = committed
    BY <1>11 DEF Fail
  <2> QED BY <1>3, <1>4, <2>5, <2>6 DEF Viewed
<1>12. CASE Return
  <2>1. tables' = tables /\ committed' = committed /\ call.todo = << >>
    BY <1>12 DEF Return
  <2>2. call'.todo = << >>
    BY <1>12, <2>1, StartedParts DEF Return, CallFields
  <2>3. Expected'
    <3>1. Len(<< >>) = 0
      OBVIOUS
    <3> QED BY <2>2, <3>1 DEF Expected
  <2> QED BY <1>3, <1>4, <2>1, <2>3 DEF Viewed
<1>13. CASE Commit \/ UNCHANGED vars
  <2>1. /\ tables' = tables /\ call' = call
        /\ committed'.tables \in {committed.tables, tables}
    BY <1>13 DEF Commit, vars
  <2>2. Expected'
    BY <1>1, <2>1 DEF Viewed, Expected, Awaited, IsInMemory, Registers, Spelled
  <2> QED BY <1>3, <1>4, <2>1, <2>2 DEF Viewed
<1>14. CASE Rollback
  <2>1. tables' = committed.tables /\ committed' = committed /\ call' = NoCall
    BY <1>14 DEF Rollback
  <2> QED BY <1>3, <1>4, <1>7, <2>1 DEF Viewed
<1>15. CASE Reconnect
  <2> DEFINE kept == {k \in DOMAIN committed.tables : k[1] # "temp" /\ ~con.memory[con.current]}
  <2>1. /\ tables' = Restrict(committed.tables, kept) /\ committed'.tables = tables'
        /\ call' = NoCall \/ call'.todo = << >>
    <3>1. Running => DOMAIN call = CallFields
      BY DEF Running, Known
    <3> QED BY <1>15, <3>1 DEF Reconnect, CallFields
  <2>2. \A k \in DOMAIN tables' :
          k \in DOMAIN committed.tables /\ tables'[k] = committed.tables[k] /\ ~con.memory[con.current]
    BY <2>1 DEF Restrict
  <2>3. IsInMemory => con.memory[con.current]
    BY ConnectionAssumption DEF IsInMemory, Known
  <2>4. Recorded(tables)'
    <3>1. \A k \in DOMAIN tables' : DOMAIN tables'[k] = {"kind", "rows"} /\ tables'[k].kind # "view"
      BY <2>2, <2>3 DEF Viewed, Recorded
    <3> QED BY <3>1 DEF Recorded
  <2>5. Expected'
    <3>1. Len(<< >>) = 0
      OBVIOUS
    <3> QED BY <2>1, <3>1 DEF Expected
  <2> QED BY <1>5, <2>1, <2>4, <2>5 DEF Viewed
<1> QED BY <1>8, <1>9, <1>10, <1>11, <1>12, <1>13, <1>14, <1>15 DEF Next

(* No view selects from a table that is not there: not while a mirror is made *)
(* or fails half way, not after a rollback, and not in the next connection.   *)
THEOREM NoViewDangles == Spec => []NoDanglingView
<1>1. Init => Viewed
  BY InitViewed
<1>2. Known /\ Viewed /\ [Next]_vars => Viewed'
  BY StepViewed
<1>3. Viewed => NoDanglingView
  BY DEF Viewed, Recorded, NoDanglingView
<1> QED BY <1>1, <1>2, <1>3, CallsAreGuarded, PTL DEF Spec

-----------------------------------------------------------------------------
(* Replacing tables of ClickHouse. The program of a call joins one program    *)
(* for each group; their offsets are those of DataInduction.                  *)

(* What is left after the first j statements of part i.                       *)
Rest(p, parts, off, i, j) ==
  /\ AnySeq(p) /\ Len(p) = off[Len(parts)] - (off[i - 1] + j)
  /\ \A g \in 1..Len(parts) : \A m \in 1..Len(parts[g]) :
       off[g - 1] + m > off[i - 1] + j => p[(off[g - 1] + m) - (off[i - 1] + j)] = parts[g][m]

(* A whole program is what is left before its first part.                     *)
LEMMA RestStarts ==
  ASSUME NEW parts, AnySeq(parts), Len(parts) # 0,
         \A i \in 1..Len(parts) : AnySeq(parts[i]),
         NEW off, Offsets(off, parts)
  PROVE  Rest(FlattenSeq(parts), parts, off, 1, 0)
<1> DEFINE N == Len(parts)
           p == FlattenSeq(parts)
<1>1. N \in Nat /\ 1 \in 1..N
  BY SequenceParts
<1>2. PICK flat : Joins(flat, parts)
  BY FlattenJoins
<1>3. \A i \in 0..N : off[i] \in Nat
  BY DEF Offsets
<1>4. \A i \in 1..N : Len(parts[i]) \in Nat /\ off[i] = off[i - 1] + Len(parts[i])
  BY SequenceParts DEF Offsets
<1>5. \A i, j \in 0..N : i <= j => off[i] <= off[j]
  BY OffsetsGrow
<1> DEFINE Holds(n) == /\ AnySeq(flat[n]) /\ Len(flat[n]) = off[n]
                       /\ \A g \in 1..n : \A m \in 1..Len(parts[g]) : flat[n][off[g - 1] + m] = parts[g][m]
           S == {n \in Nat : n + 1 <= N => Holds(n + 1)}
<1>6. 0 \in S
  <2>1. flat[1] = parts[1] /\ off[1] = Len(parts[1]) /\ off[0] = 0
    <3>1. off[1] = off[1 - 1] + Len(parts[1]) /\ Len(parts[1]) \in Nat /\ 1 - 1 = 0 /\ off[0] = 0
      BY <1>1, <1>4 DEF Offsets
    <3> QED BY <1>2, <3>1 DEF Joins
  <2>2. AnySeq(parts[1])
    BY <1>1
  <2>3. ASSUME NEW g \in 1..1, NEW m \in 1..Len(parts[g])
        PROVE  flat[1][off[g - 1] + m] = parts[g][m]
    <3>1. g = 1 /\ g - 1 = 0
      OBVIOUS
    <3>2. m \in Int
      BY <1>1, <1>4, <3>1
    <3> QED BY <2>1, <3>1, <3>2
  <2>4. Holds(1)
    BY <2>1, <2>2, <2>3
  <2> HIDE DEF Holds
  <2> QED BY <2>4
<1>7. ASSUME NEW n \in S
      PROVE  n + 1 \in S
  <2>1. n \in Nat /\ (n + 1 <= N => Holds(n + 1))
    OBVIOUS
  <2>2. CASE (n + 1) + 1 <= N
    <3> DEFINE k == n + 1
    <3>1. k \in 1..N /\ k + 1 \in 1..N /\ k + 1 # 1 /\ (k + 1) - 1 = k /\ k \in Nat
      BY <1>1, <2>1, <2>2
    <3>2. Holds(k)
      BY <2>1, <3>1
    <3> HIDE DEF k
    <3>3. flat[k + 1] = flat[k] \o parts[k + 1]
      BY <1>2, <3>1 DEF Joins
    <3>4. AnySeq(flat[k]) /\ Len(flat[k]) = off[k] /\ AnySeq(parts[k + 1])
      BY <3>1, <3>2
    <3>5. /\ AnySeq(flat[k + 1]) /\ Len(flat[k + 1]) = off[k] + Len(parts[k + 1])
          /\ \A m \in 1..Len(flat[k]) : flat[k + 1][m] = flat[k][m]
          /\ \A m \in 1..Len(parts[k + 1]) : flat[k + 1][m + off[k]] = parts[k + 1][m]
      <4>1. /\ AnySeq(flat[k] \o parts[k + 1])
            /\ Len(flat[k] \o parts[k + 1]) = Len(flat[k]) + Len(parts[k + 1])
            /\ \A m \in 1..Len(flat[k]) : (flat[k] \o parts[k + 1])[m] = flat[k][m]
            /\ \A m \in 1..Len(parts[k + 1]) :
                 (flat[k] \o parts[k + 1])[m + Len(flat[k])] = parts[k + 1][m]
        <5> DEFINE a == flat[k]
                   b == parts[k + 1]
        <5>1. AnySeq(a) /\ AnySeq(b)
          BY <3>4
        <5> HIDE DEF a, b
        <5>2. /\ AnySeq(a \o b) /\ Len(a \o b) = Len(a) + Len(b)
              /\ \A m \in 1..Len(a) : (a \o b)[m] = a[m]
              /\ \A m \in 1..Len(b) : (a \o b)[m + Len(a)] = b[m]
          BY ONLY <5>1, JoinedSequence
        <5> QED BY <5>2 DEF a, b
      <4> QED BY ONLY <3>3, <3>4, <4>1
    <3>6. Len(flat[k + 1]) = off[k + 1]
      BY <1>4, <3>1, <3>5
    <3>7. ASSUME NEW g \in 1..k + 1, NEW m \in 1..Len(parts[g])
          PROVE  flat[k + 1][off[g - 1] + m] = parts[g][m]
      <4>1. g \in 1..N /\ Len(parts[g]) \in Nat
        <5>1. g \in 1..N
          BY <1>1, <3>1
        <5> QED BY <1>4, <5>1
      <4>2. CASE g = k + 1
        <5>1. off[g - 1] + m = m + off[k] /\ m \in Int
          BY <1>3, <3>1, <4>1, <4>2
        <5> QED BY <3>5, <4>2, <5>1
      <4>3. CASE g # k + 1
        <5>1. g \in 1..k /\ g <= k /\ g - 1 \in 0..N /\ g \in 0..N /\ k \in 0..N
          BY <1>1, <3>1, <4>1, <4>3
        <5>2. off[g] = off[g - 1] + Len(parts[g]) /\ off[g] <= off[k] /\ off[g - 1] \in Nat /\ off[k] \in Nat
              /\ off[g] \in Nat
          BY <1>3, <1>4, <1>5, <4>1, <5>1
        <5>3. off[g - 1] + m \in 1..Len(flat[k])
          <6> DEFINE u == off[g - 1]
                     v == off[g]
                     w == off[k]
                     l == Len(parts[g])
          <6>1. /\ u \in Nat /\ v \in Nat /\ w \in Nat /\ l \in Nat /\ v = u + l /\ v <= w
                /\ m \in 1..l /\ Len(flat[k]) = w
            BY ONLY <3>4, <4>1, <5>2, m \in 1..Len(parts[g])
          <6> HIDE DEF u, v, w, l
          <6>2. u + m \in 1..w
            BY ONLY <6>1
          <6> QED BY ONLY <6>1, <6>2 DEF u
        <5>4. flat[k][off[g - 1] + m] = parts[g][m]
          BY <3>2, <5>1
        <5> QED BY <3>5, <5>3, <5>4
      <4> QED BY <4>2, <4>3
    <3>8. Holds(k + 1)
      BY <3>5, <3>6, <3>7
    <3> HIDE DEF Holds
    <3> QED BY <2>1, <3>8 DEF k
  <2>3. CASE ~((n + 1) + 1 <= N)
    BY <2>1, <2>3
  <2> QED BY <2>2, <2>3
<1>8. S = Nat
  <2>1. S \in SUBSET Nat
    OBVIOUS
  <2> HIDE DEF S
  <2> QED BY <1>6, <1>7, <2>1, InductiveSet
<1>9. Holds(N)
  <2>1. N - 1 \in S /\ (N - 1) + 1 = N
    <3> HIDE DEF S
    <3> QED BY <1>1, <1>8
  <2> HIDE DEF Holds
  <2> QED BY <1>1, <2>1
<1>10. p = flat[N]
  BY <1>2 DEF Joins
<1>11. off[1 - 1] + 0 = 0 /\ off[N] - (off[1 - 1] + 0) = off[N]
  <2>1. 1 - 1 = 0 /\ off[0] = 0 /\ off[N] \in Nat
    BY <1>1, <1>3 DEF Offsets
  <2> QED BY <2>1
<1>12. ASSUME NEW g \in 1..N, NEW m \in 1..Len(parts[g])
       PROVE  p[(off[g - 1] + m) - (off[1 - 1] + 0)] = parts[g][m]
  <2>1. off[g - 1] + m \in Int
    <3>1. off[g - 1] \in Nat /\ Len(parts[g]) \in Nat
      BY <1>1, <1>3, <1>4
    <3> QED BY <3>1
  <2>2. (off[g - 1] + m) - (off[1 - 1] + 0) = off[g - 1] + m
    BY <1>11, <2>1
  <2> QED BY <1>9, <1>10, <2>2
<1> HIDE DEF p
<1> QED BY <1>9, <1>10, <1>11, <1>12 DEF Rest, p

(* The next statement is that of the part, as long as it has one.             *)
LEMMA RestSteps ==
  ASSUME NEW parts, AnySeq(parts), \A i \in 1..Len(parts) : AnySeq(parts[i]),
         NEW off, Offsets(off, parts), NEW i \in 1..Len(parts), NEW j \in Nat, j < Len(parts[i]),
         NEW p, Rest(p, parts, off, i, j)
  PROVE  p # << >> /\ Head(p) = parts[i][j + 1] /\ Rest(Tail(p), parts, off, i, j + 1)
<1> DEFINE N == Len(parts)
           at == off[i - 1] + j
           q == Tail(p)
<1>1. N \in Nat /\ i - 1 \in 0..N /\ i \in 0..N /\ N \in 0..N /\ i <= N
  BY SequenceParts
<1>2. off[i - 1] \in Nat /\ off[i] \in Nat /\ off[N] \in Nat /\ Len(parts[i]) \in Nat
      /\ off[i] = off[i - 1] + Len(parts[i]) /\ off[i] <= off[N]
  BY <1>1, SequenceParts, OffsetsGrow DEF Offsets
<1>3. /\ at \in Nat /\ at < off[N] /\ off[N] - at \in Nat /\ off[N] - at # 0
      /\ at = off[i - 1] + j /\ off[i - 1] + (j + 1) = at + 1 /\ j + 1 \in 1..Len(parts[i])
  <2> DEFINE u == off[i - 1]
             v == off[i]
             w == off[N]
             l == Len(parts[i])
  <2>1. u \in Nat /\ v \in Nat /\ w \in Nat /\ l \in Nat /\ v = u + l /\ v <= w /\ j \in Nat /\ j < l
    BY <1>2
  <2> HIDE DEF u, v, w, l
  <2>2. /\ u + j \in Nat /\ u + j < w /\ w - (u + j) \in Nat /\ w - (u + j) # 0
        /\ u + (j + 1) = (u + j) + 1 /\ j + 1 \in 1..l
    BY ONLY <2>1
  <2> QED BY ONLY <2>2 DEF u, w, l, at
<1>4. /\ AnySeq(p) /\ Len(p) = off[N] - at
      /\ \A g \in 1..N : \A m \in 1..Len(parts[g]) :
           off[g - 1] + m > at => p[(off[g - 1] + m) - at] = parts[g][m]
  BY DEF Rest
<1>5. p # << >> /\ Head(p) = p[1] /\ AnySeq(q) /\ Len(q) = Len(p) - 1
      /\ \A k \in 1..Len(p) - 1 : q[k] = p[k + 1]
  <2>1. Len(p) # 0
    BY ONLY <1>3, <1>4
  <2> QED BY ONLY <1>4, <2>1, SequenceParts
<1> HIDE DEF q, at
<1>6. p[1] = parts[i][j + 1]
  <2>1. ASSUME NEW m \in 1..Len(parts[i]), off[i - 1] + m = at + 1
        PROVE  p[1] = parts[i][m]
    <3>1. off[i - 1] + m > at => p[(off[i - 1] + m) - at] = parts[i][m]
      BY <1>4
    <3>2. at + 1 > at /\ (at + 1) - at = 1
      <4>1. at \in Nat
        BY ONLY <1>3
      <4> QED BY ONLY <4>1
    <3> DEFINE e == off[i - 1] + m
    <3>3. e > at => p[e - at] = parts[i][m]
      BY <3>1
    <3>4. e = at + 1
      BY <2>1
    <3> HIDE DEF e
    <3> QED BY ONLY <3>2, <3>3, <3>4
  <2>2. j + 1 \in 1..Len(parts[i]) /\ off[i - 1] + (j + 1) = at + 1
    BY ONLY <1>3
  <2> QED BY <2>1, <2>2, Zenon
<1>7. Len(q) = off[N] - (at + 1)
  <2>1. Len(q) = Len(p) - 1 /\ Len(p) = off[N] - at /\ off[N] \in Nat /\ at \in Nat
    BY <1>2, <1>3, <1>4, <1>5
  <2> HIDE DEF N
  <2> QED BY ONLY <2>1
<1>8. ASSUME NEW g \in 1..N, NEW m \in 1..Len(parts[g]), off[g - 1] + m > at + 1
      PROVE  q[(off[g - 1] + m) - (at + 1)] = parts[g][m]
  <2>1. g - 1 \in 0..N /\ g \in 0..N /\ g <= N
    BY <1>1
  <2>2. off[g - 1] \in Nat /\ off[g] \in Nat /\ Len(parts[g]) \in Nat
        /\ off[g] = off[g - 1] + Len(parts[g]) /\ off[g] <= off[N]
    BY <1>1, <2>1, SequenceParts, OffsetsGrow DEF Offsets
  <2> DEFINE k == (off[g - 1] + m) - (at + 1)
  <2>3. k \in 1..Len(p) - 1 /\ k + 1 = (off[g - 1] + m) - at /\ off[g - 1] + m > at
    <3>1. /\ off[g - 1] + m > at + 1 /\ m \in 1..Len(parts[g]) /\ Len(p) = off[N] - at
          /\ off[N] \in Nat /\ at \in Nat
      BY <1>2, <1>3, <1>4, <1>8
    <3> DEFINE u == off[g - 1]
               v == off[g]
               w == off[N]
               l == Len(parts[g])
               L == Len(p)
    <3>2. /\ u \in Nat /\ v \in Nat /\ w \in Nat /\ l \in Nat /\ v = u + l /\ v <= w /\ at \in Nat
          /\ u + m > at + 1 /\ m \in 1..l /\ L = w - at
      BY ONLY <2>2, <3>1
    <3> HIDE DEF u, v, w, l, L
    <3>3. /\ (u + m) - (at + 1) \in 1..L - 1 /\ ((u + m) - (at + 1)) + 1 = (u + m) - at /\ u + m > at
      BY ONLY <3>2
    <3> QED BY ONLY <3>3 DEF u, L, k
  <2>4. p[(off[g - 1] + m) - at] = parts[g][m]
    BY <1>4, <2>3
  <2> HIDE DEF k
  <2>5. q[k] = p[k + 1]
    BY <1>5, <2>3
  <2> QED BY <2>3, <2>4, <2>5 DEF k
<1>9. Rest(q, parts, off, i, j + 1)
  <2>1. off[i - 1] + (j + 1) = at + 1 /\ AnySeq(q)
    BY <1>3, <1>5
  <2> QED BY ONLY <1>7, <1>8, <2>1 DEF Rest, N
<1> QED BY <1>5, <1>6, <1>9 DEF q

(* After its last statement comes the next part, or the end.                  *)
LEMMA RestEnds ==
  ASSUME NEW parts, AnySeq(parts), \A i \in 1..Len(parts) : AnySeq(parts[i]),
         NEW off, Offsets(off, parts), NEW i \in 1..Len(parts),
         NEW p, Rest(p, parts, off, i, Len(parts[i])), p # << >>
  PROVE  i + 1 \in 1..Len(parts) /\ Rest(p, parts, off, i + 1, 0)
<1> DEFINE N == Len(parts)
<1>1. N \in Nat /\ i - 1 \in 0..N /\ i \in 0..N /\ (i + 1) - 1 = i
  BY SequenceParts
<1>2. off[i - 1] \in Nat /\ off[i] \in Nat /\ Len(parts[i]) \in Nat
      /\ off[i] = off[i - 1] + Len(parts[i])
  BY <1>1, SequenceParts DEF Offsets
<1>3. off[(i + 1) - 1] + 0 = off[i - 1] + Len(parts[i])
  BY <1>1, <1>2
<1>4. i # N
  <2>1. Len(p) # 0
    BY SequenceParts DEF Rest
  <2> QED BY <1>2, <2>1 DEF Rest
<1>5. i + 1 \in 1..N
  BY <1>1, <1>4
<1>6. Rest(p, parts, off, i + 1, 0)
  BY <1>3 DEF Rest
<1> QED BY <1>5, <1>6

-----------------------------------------------------------------------------
(* The table of a group, the name it has for the database, and its program.   *)
Place(c, in_schema, i) == <<IF in_schema THEN c.name ELSE NoSchema, GroupTable(c, in_schema, i)>>
Name(c, in_schema, i) == Spelled(GroupTable(c, in_schema, i))
Parts(c, in_schema) ==
  [i \in DOMAIN c.groups |-> ReplaceStaged(Place(c, in_schema, i), c.groups[i].batches)]

LEMMA ClickHouseParts ==
  ASSUME con \in Connections, DialectFor.table_ddl
  PROVE  con.adapter = "adbc" /\ ~con.transactional /\ ~con.memory[con.current] /\ con.default # "temp"
<1>1. ~AnyDatabase.table_ddl
  BY DEF AnyDatabase, Dialect
<1>2. \A d \in DOMAIN Dialects : Dialects[d].table_ddl => d = "clickhouse"
  BY DEF Dialects, ClickHouse, AnyDatabase, Dialect
<1>3. con.info = "clickhouse" \/ (con.info = NoInfo /\ con.system_one)
  BY <1>1, <1>2 DEF DialectFor
<1> QED BY <1>3, ConnectionAssumption

(* The statements that replace one table.                                     *)
Stages(p, table, batches) ==
  LET n == Len(batches)
      staging == Staging(table)
  IN  /\ AnySeq(p) /\ Len(p) = n + 6 /\ n \in Nat
      /\ p[1] = Stmt("drop if", staging, << >>) /\ p[2] = Stmt("create", staging, << >>)
      /\ p[3].op = "append" /\ p[3].table = staging
      /\ \A m \in 1..n : p[m + 3].op = "batch" /\ p[m + 3].table = staging /\ p[m + 3].arg = batches[m]
      /\ p[n + 4] = Stmt("create_append", table, << >>)
      /\ p[n + 5] = Stmt("exchange", table, staging)
      /\ p[n + 6] = Stmt("drop", staging, << >>)
      /\ \A m \in 1..n + 6 :
           ~p[m].lenient /\ (p[m].onfail = << >> \/ p[m].onfail = <<Stmt("drop if", staging, << >>)>>)

LEMMA StagedParts ==
  ASSUME NEW table, NEW batches, AnySeq(batches)
  PROVE  Stages(ReplaceStaged(table, batches), table, batches)
<1> DEFINE n == Len(batches)
           staging == Staging(table)
           drop == <<Stmt("drop if", staging, << >>)>>
           first == <<Stmt("drop if", staging, << >>), Stmt("create", staging, << >>)>>
           open == <<Stmt("append", staging, << >>)>>
           rest == [i \in DOMAIN batches |-> Stmt("batch", staging, batches[i])]
           rows == open \o rest
           fill == OnFail(rows, drop)
           last == <<Stmt("create_append", table, << >>), Stmt("exchange", table, staging),
                     Stmt("drop", staging, << >>)>>
           p == (first \o fill) \o last
<1>1. n \in Nat /\ DOMAIN batches = 1..n
  BY SequenceParts
<1>2. ReplaceStaged(table, batches) = p
  BY DEF ReplaceStaged, Rows
<1>3. AnySeq(rest) /\ Len(rest) = n /\ \A m \in 1..n : rest[m] = Stmt("batch", staging, batches[m])
  <2>1. DOMAIN rest = 1..n /\ rest = [i \in 1..n |-> rest[i]]
    BY <1>1
  <2>2. \A m \in 1..n : rest[m] = Stmt("batch", staging, batches[m])
    BY <1>1
  <2> HIDE DEF rest
  <2> QED BY <1>1, <2>1, <2>2, MadeSequence
<1>4. AnySeq(open) /\ Len(open) = 1 /\ open[1] = Stmt("append", staging, << >>)
  <2>1. open \in Seq({Stmt("append", staging, << >>)}) /\ Len(open) = 1 /\ open[1] = Stmt("append", staging, << >>)
    OBVIOUS
  <2> QED BY <2>1 DEF AnySeq
<1>5. /\ AnySeq(first) /\ Len(first) = 2
      /\ first[1] = Stmt("drop if", staging, << >>) /\ first[2] = Stmt("create", staging, << >>)
  <2>1. first \in Seq({Stmt("drop if", staging, << >>), Stmt("create", staging, << >>)})
    OBVIOUS
  <2> QED BY <2>1 DEF AnySeq
<1>6. /\ AnySeq(last) /\ Len(last) = 3
      /\ last[1] = Stmt("create_append", table, << >>) /\ last[2] = Stmt("exchange", table, staging)
      /\ last[3] = Stmt("drop", staging, << >>)
  <2>1. last \in Seq({Stmt("create_append", table, << >>), Stmt("exchange", table, staging),
                      Stmt("drop", staging, << >>)})
    OBVIOUS
  <2> QED BY <2>1 DEF AnySeq
<1> HIDE DEF open, rest
<1>7. /\ AnySeq(rows) /\ Len(rows) = n + 1 /\ rows[1] = open[1]
      /\ \A m \in 1..n : rows[m + 1] = rest[m]
      /\ \A m \in 1..n + 1 : m = 1 \/ \E k \in 1..n : m = k + 1
  <2>1. /\ AnySeq(rows) /\ Len(rows) = Len(open) + Len(rest)
        /\ \A i \in 1..Len(open) : rows[i] = open[i]
        /\ \A i \in 1..Len(rest) : rows[i + Len(open)] = rest[i]
    <3>1. AnySeq(open) /\ AnySeq(rest)
      BY <1>3, <1>4
    <3> QED BY ONLY <3>1, JoinedSequence
  <2> HIDE DEF rows, n
  <2>2. 1 \in 1..Len(open)
    BY <1>4
  <2>3. \A m \in 1..n + 1 : m = 1 \/ (m - 1 \in 1..n /\ m = (m - 1) + 1)
    BY ONLY <1>1
  <2>4. AnySeq(rows) /\ Len(rows) = n + 1 /\ rows[1] = open[1] /\ \A m \in 1..n : rows[m + 1] = rest[m]
    BY ONLY <1>1, <1>3, <1>4, <2>1, <2>2
  <2> QED BY ONLY <2>3, <2>4
<1> HIDE DEF rows
<1>8. \A m \in 1..n + 1 : DOMAIN rows[m] = {"op", "table", "arg", "onfail", "lenient"} /\ rows[m].lenient = FALSE
  <2> SUFFICES ASSUME NEW m \in 1..n + 1
               PROVE  DOMAIN rows[m] = {"op", "table", "arg", "onfail", "lenient"} /\ rows[m].lenient = FALSE
    OBVIOUS
  <2>1. \E op, arg : rows[m] = Stmt(op, staging, arg)
    BY <1>3, <1>4, <1>7
  <2> QED BY <2>1 DEF Stmt
<1>9. /\ AnySeq(fill) /\ Len(fill) = n + 1
      /\ \A m \in 1..n + 1 :
           /\ fill[m].op = rows[m].op /\ fill[m].table = rows[m].table /\ fill[m].arg = rows[m].arg
           /\ fill[m].onfail = drop /\ fill[m].lenient = FALSE
  <2>1. DOMAIN rows = 1..n + 1
    BY <1>7, SequenceParts
  <2>2. fill = [i \in 1..n + 1 |-> [rows[i] EXCEPT !.onfail = drop]]
    BY <2>1 DEF OnFail
  <2> HIDE DEF drop
  <2>3. \A m \in 1..n + 1 : fill[m] = [rows[m] EXCEPT !.onfail = drop]
    BY <2>2
  <2>4. AnySeq(fill) /\ Len(fill) = n + 1
    <3>1. n + 1 \in Nat /\ DOMAIN fill = 1..n + 1 /\ fill = [i \in 1..n + 1 |-> fill[i]]
      BY <1>1, <2>2
    <3> HIDE DEF fill
    <3> QED BY <3>1, MadeSequence
  <2> HIDE DEF fill
  <2> QED BY <1>8, <2>3, <2>4
<1>10. /\ fill[1].op = "append" /\ fill[1].table = staging
       /\ \A m \in 1..n : /\ fill[m + 1].op = "batch" /\ fill[m + 1].table = staging
                          /\ fill[m + 1].arg = batches[m]
  <2> HIDE DEF fill
  <2>1. 1 \in 1..n + 1 /\ \A m \in 1..n : m + 1 \in 1..n + 1
    BY <1>1
  <2>2. rows[1].op = "append" /\ rows[1].table = staging
    BY <1>4, <1>7 DEF Stmt
  <2>3. \A m \in 1..n : rows[m + 1].op = "batch" /\ rows[m + 1].table = staging /\ rows[m + 1].arg = batches[m]
    <3> SUFFICES ASSUME NEW m \in 1..n
                 PROVE  /\ rows[m + 1].op = "batch" /\ rows[m + 1].table = staging
                        /\ rows[m + 1].arg = batches[m]
      OBVIOUS
    <3>1. rows[m + 1] = Stmt("batch", staging, batches[m])
      BY <1>3, <1>7
    <3> QED BY ONLY <3>1 DEF Stmt
  <2> QED BY <1>9, <2>1, <2>2, <2>3
<1> HIDE DEF first, fill, last
<1> DEFINE begin == first \o fill
<1>11. /\ AnySeq(begin) /\ Len(begin) = n + 3
       /\ begin[1] = first[1] /\ begin[2] = first[2]
       /\ \A m \in 1..n + 1 : begin[m + 2] = fill[m]
  <2>1. /\ AnySeq(begin) /\ Len(begin) = Len(first) + Len(fill)
        /\ \A i \in 1..Len(first) : begin[i] = first[i]
        /\ \A i \in 1..Len(fill) : begin[i + Len(first)] = fill[i]
    <3>1. AnySeq(first) /\ AnySeq(fill)
      BY <1>5, <1>9
    <3> QED BY ONLY <3>1, JoinedSequence
  <2> HIDE DEF begin
  <2>2. 1 \in 1..2 /\ 2 \in 1..2 /\ Len(first) = 2 /\ Len(fill) = n + 1 /\ n \in Nat
    <3>1. Len(first) = 2 /\ Len(fill) = n + 1 /\ n \in Nat
      BY ONLY <1>1, <1>5, <1>9
    <3> QED BY ONLY <3>1
  <2> HIDE DEF n
  <2>3. Len(begin) = n + 3
    BY ONLY <2>1, <2>2
  <2>4. begin[1] = first[1] /\ begin[2] = first[2] /\ \A m \in 1..n + 1 : begin[m + 2] = fill[m]
    BY ONLY <2>1, <2>2
  <2> QED BY ONLY <2>1, <2>3, <2>4
<1>12. /\ AnySeq(p) /\ Len(p) = n + 6
       /\ \A m \in 1..n + 3 : p[m] = begin[m]
       /\ p[n + 4] = last[1] /\ p[n + 5] = last[2] /\ p[n + 6] = last[3]
  <2>1. p = begin \o last
    OBVIOUS
  <2> HIDE DEF begin, p
  <2>2. /\ AnySeq(p) /\ Len(p) = Len(begin) + Len(last)
        /\ \A i \in 1..Len(begin) : p[i] = begin[i]
        /\ \A i \in 1..Len(last) : p[i + Len(begin)] = last[i]
    <3>1. AnySeq(begin) /\ AnySeq(last)
      BY <1>6, <1>11
    <3> QED BY ONLY <2>1, <3>1, JoinedSequence
  <2>3. 1 \in 1..3 /\ 2 \in 1..3 /\ 3 \in 1..3 /\ 1 + (n + 3) = n + 4 /\ 2 + (n + 3) = n + 5 /\ 3 + (n + 3) = n + 6
    BY <1>1
  <2> HIDE DEF n
  <2> QED BY ONLY <1>1, <1>6, <1>11, <2>2, <2>3
<1> HIDE DEF begin, p
<1>13. /\ p[1] = first[1] /\ p[2] = first[2]
       /\ \A m \in 1..n + 1 : p[m + 2] = fill[m]
  <2>1. 1 \in 1..n + 3 /\ 2 \in 1..n + 3 /\ \A m \in 1..n + 1 : m + 2 \in 1..n + 3
    BY <1>1
  <2> QED BY ONLY <1>11, <1>12, <2>1
<1>14. /\ p[3] = fill[1]
       /\ \A m \in 1..n : p[m + 3] = fill[m + 1]
  <2>1. 1 \in 1..n + 1 /\ 1 + 2 = 3 /\ \A m \in 1..n : m + 1 \in 1..n + 1 /\ (m + 1) + 2 = m + 3
    BY <1>1
  <2>2. p[1 + 2] = fill[1] /\ \A m \in 1..n : p[(m + 1) + 2] = fill[m + 1]
    BY ONLY <1>13, <2>1
  <2> HIDE DEF n
  <2> QED BY ONLY <2>1, <2>2
<1>15. ASSUME NEW m \in 1..n + 6
       PROVE  ~p[m].lenient /\ (p[m].onfail = << >> \/ p[m].onfail = drop)
  <2>1. \/ m = 1 \/ m = 2 \/ m = n + 4 \/ m = n + 5 \/ m = n + 6
        \/ m - 2 \in 1..n + 1 /\ m = (m - 2) + 2
    BY <1>1
  <2>2. CASE m - 2 \in 1..n + 1 /\ m = (m - 2) + 2
    <3>1. p[(m - 2) + 2] = fill[m - 2] /\ fill[m - 2].onfail = drop /\ fill[m - 2].lenient = FALSE
      BY ONLY <1>9, <1>13, <2>2
    <3> QED BY ONLY <2>2, <3>1
  <2>3. CASE m = 1 \/ m = 2 \/ m = n + 4 \/ m = n + 5 \/ m = n + 6
    <3>1. p[m] \in {first[1], first[2], last[1], last[2], last[3]}
      BY ONLY <1>12, <1>13, <2>3
    <3> HIDE DEF staging
    <3>2. \E op, t, arg : p[m] = Stmt(op, t, arg)
      BY ONLY <1>5, <1>6, <3>1
    <3> QED BY ONLY <3>2 DEF Stmt
  <2> QED BY <2>1, <2>2, <2>3
<1>16. Stages(p, table, batches)
  BY <1>1, <1>5, <1>6, <1>10, <1>12, <1>13, <1>14, <1>15 DEF Stages
<1> QED BY <1>2, <1>16

-----------------------------------------------------------------------------
(* The groups of a call that replaces their tables.                           *)
Replaces ==
  call # NoCall /\ DialectFor.table_ddl /\ call.of.mode = "replace" /\ ~call.of.temporary

Groups == 1..Len(call.of.groups)
NameOf(i) == Name(call.of, call.in_schema, i)
TableOf(i) == Place(call.of, call.in_schema, i)
BatchesOf(i) == call.of.groups[i].batches

(* A table that is as it was, and one that is as it was, or has all the new   *)
(* rows, or was not there and is empty.                                       *)
AsBefore(k) ==
  /\ k \in DOMAIN tables <=> k \in DOMAIN call.before
  /\ k \in DOMAIN tables => tables[k] = call.before[k]

Atomic(k, i) ==
  \/ AsBefore(k)
  \/ k \in DOMAIN tables /\ tables[k].rows = BatchesOf(i)
  \/ k \notin DOMAIN call.before /\ k \in DOMAIN tables /\ tables[k].rows = << >>

Untouched(i) == \A k : k[2] = NameOf(i) => AsBefore(k)
Settled(i) == \A k : k[2] = NameOf(i) => Atomic(k, i)

(* The staging table has the first b batches.                                 *)
Filled(i, b) ==
  LET k == Key(Staging(TableOf(i)))
  IN  /\ k \in DOMAIN tables /\ AnySeq(tables[k].rows) /\ Len(tables[k].rows) = b
      /\ \A m \in 1..b : tables[k].rows[m] = BatchesOf(i)[m]

(* After the first j statements of group i.                                   *)
Stage(i, j) ==
  LET n == Len(BatchesOf(i))
  IN  /\ \A g \in Groups : g < i => Settled(g)
      /\ \A g \in Groups : g > i => Untouched(g)
      /\ IF j <= n + 3 THEN Untouched(i) ELSE Settled(i)
      /\ \A b \in 0..n : (j = b + 3 \/ (j = 2 /\ b = 0) \/ (j = n + 4 /\ b = n)) => Filled(i, b)

(* No two tables of the call, and no staging table, have the same name.       *)
Apart ==
  /\ \A g, h \in Groups : g # h => NameOf(g) # NameOf(h)
  /\ \A g, h \in Groups : Spelled(Staging(TableOf(g))[2]) # NameOf(h)

SameCall ==
  con' = con /\ call'.of = call.of /\ call'.in_schema = call.in_schema /\ call'.before = call.before

Spared(k) ==
  /\ k \in DOMAIN tables' <=> k \in DOMAIN tables
  /\ k \in DOMAIN tables => tables'[k] = tables[k]

LEMMA NamesStay ==
  ASSUME SameCall
  PROVE  /\ Groups' = Groups
         /\ \A i : NameOf(i)' = NameOf(i) /\ TableOf(i)' = TableOf(i) /\ BatchesOf(i)' = BatchesOf(i)
<1>1. \A i : NameOf(i)' = NameOf(i)
  BY DEF SameCall, NameOf, Name, Spelled
<1> QED BY <1>1 DEF SameCall, Groups, TableOf, BatchesOf

LEMMA SparedGroup ==
  ASSUME SameCall, NEW i, \A k : k[2] = NameOf(i) => Spared(k)
  PROVE  (Untouched(i) => Untouched(i)') /\ (Settled(i) => Settled(i)')
<1>1. NameOf(i)' = NameOf(i) /\ BatchesOf(i)' = BatchesOf(i) /\ call'.before = call.before
  BY NamesStay DEF SameCall
<1>2. ASSUME NEW k, Spared(k), AsBefore(k) PROVE AsBefore(k)'
  BY <1>1, <1>2 DEF AsBefore, Spared
<1>3. ASSUME NEW k, Spared(k), Atomic(k, i) PROVE Atomic(k, i)'
  BY <1>1, <1>2, <1>3 DEF Atomic, Spared
<1> QED BY <1>1, <1>2, <1>3 DEF Untouched, Settled

LEMMA UntouchedIsSettled == \A i : Untouched(i) => Settled(i)
BY DEF Untouched, Settled, Atomic

LEMMA KeyName == \A t : Key(t)[2] = Spelled(t[2])
BY DEF Key

(* A table is the same as long as no temporary one of its name comes or goes, *)
(* and when it is made.                                                       *)
LEMMA KeyStays ==
  ASSUME con' = con, default' = default, NEW t,
         \/ <<"temp", Spelled(t[2])>> \in DOMAIN tables' <=> <<"temp", Spelled(t[2])>> \in DOMAIN tables
         \/ Key(t) \notin DOMAIN tables /\ DOMAIN tables' = DOMAIN tables \cup {Key(t)}
  PROVE  Key(t)' = Key(t)
<1> DEFINE n == Spelled(t[2])
<1>1. Spelled(t[2])' = n
  BY DEF Spelled
<1>2. /\ Key(t) = IF t[1] # NoSchema THEN <<t[1], n>>
                  ELSE IF <<"temp", n>> \in DOMAIN tables THEN <<"temp", n>> ELSE <<default, n>>
      /\ Key(t)' = IF t[1] # NoSchema THEN <<t[1], n>>
                   ELSE IF <<"temp", n>> \in DOMAIN tables' THEN <<"temp", n>> ELSE <<default, n>>
  BY <1>1 DEF Key
<1> HIDE DEF n
<1> QED BY <1>2 DEF n

(* What the statements of a replacement do.                                   *)
StagedOps == {"drop if", "create", "append", "batch", "create_append", "exchange", "drop"}

LEMMA StatementSpares ==
  ASSUME NEW s, s.op \in StagedOps, Possible(s), tables' = TablesAfter(s), NEW k,
         k # Key(s.table), s.op = "exchange" => k # Key(s.arg)
  PROVE  Spared(k)
<1> DEFINE K == Key(s.table)
           A == Key(s.arg)
<1>1. CASE s.op \in {"drop", "drop if"}
  <2>1. tables' = Restrict(tables, DOMAIN tables \ {K})
    BY <1>1 DEF TablesAfter, Without
  <2> HIDE DEF K
  <2>2. DOMAIN tables' = DOMAIN tables \ {K} /\ \A q \in DOMAIN tables' : tables'[q] = tables[q]
    BY <2>1 DEF Restrict
  <2> QED BY <2>2 DEF Spared, K
<1>2. CASE s.op = "exchange"
  <2>1. tables' = [tables EXCEPT ![K] = tables[A], ![A] = tables[K]] /\ K \in DOMAIN tables /\ A \in DOMAIN tables
    BY <1>2 DEF TablesAfter, Possible
  <2>2. k # K /\ k # A
    BY <1>2
  <2> HIDE DEF K, A
  <2> QED BY <2>1, <2>2 DEF Spared
<1>3. CASE s.op \in {"create", "batch", "create_append", "append"}
  <2>1. tables' = tables \/ \E content : tables' = Put(K, content)
    BY <1>3 DEF TablesAfter
  <2>2. k # K
    OBVIOUS
  <2> HIDE DEF K
  <2> QED BY <2>1, <2>2 DEF Put, Spared
<1> QED BY <1>1, <1>2, <1>3 DEF StagedOps

LEMMA NamesApart ==
  ASSUME Known, Replaces, ~NamesClash(call.of), call.in_schema \in BOOLEAN
  PROVE  Apart
<1> DEFINE c == call.of
<1>1. con \in Connections /\ c \in Calls(con) /\ con.adapter = "adbc" /\ DOMAIN c.groups = Groups
  BY ClickHouseParts, GroupTypes, SequenceParts DEF Known, Replaces, Groups
<1>2. \A g, h \in Groups : g # h => Fold(Group(c, g)) # Fold(Group(c, h))
  BY <1>1 DEF NamesClash, CaseInsensitive, Group
<1>3. ASSUME NEW g \in Groups, NEW h \in Groups
      PROVE  /\ Spelled(Joined(c.name, Group(c, g))) = Spelled(Joined(c.name, Group(c, h)))
                  => Fold(Group(c, g)) = Fold(Group(c, h))
             /\ Spelled(Staging(<<NoSchema, GroupTable(c, call.in_schema, g)>>)[2])
                  # Spelled(GroupTable(c, call.in_schema, h))
  BY <1>1, NamesAssumption DEF Spelled
<1>4. ASSUME NEW g \in Groups, NEW h \in Groups, g # h
      PROVE  NameOf(g) # NameOf(h)
  <2>1. Mixed(c)
    <3>1. Len(c.groups) \in Nat
      BY <1>1, GroupTypes, SequenceParts
    <3> QED BY <1>4, <3>1 DEF Mixed, Groups
  <2>2. CASE call.in_schema
    <3>1. GroupTable(c, call.in_schema, g) = Group(c, g) /\ GroupTable(c, call.in_schema, h) = Group(c, h)
      BY <2>1, <2>2 DEF GroupTable
    <3>2. Spelled(Group(c, g)) # Spelled(Group(c, h))
      BY <1>2, <1>4 DEF Spelled
    <3> QED BY <3>1, <3>2 DEF NameOf, Name
  <2>3. CASE ~call.in_schema
    <3>1. /\ GroupTable(c, call.in_schema, g) = Joined(c.name, Group(c, g))
          /\ GroupTable(c, call.in_schema, h) = Joined(c.name, Group(c, h))
      BY <2>1, <2>3 DEF GroupTable
    <3> QED BY <1>2, <1>3, <1>4, <3>1 DEF NameOf, Name
  <2> QED BY <2>2, <2>3
<1>5. \A g \in Groups : Staging(TableOf(g))[2] = Staging(<<NoSchema, GroupTable(c, call.in_schema, g)>>)[2]
  BY DEF Staging, TableOf, Place
<1> QED BY <1>3, <1>4, <1>5 DEF Apart, NameOf, Name

(* The statement that comes after the first j.                                *)
After(j, s, table, rows) ==
  LET n == Len(rows)
      staging == Staging(table)
  IN  /\ \/ j = 0 /\ s = Stmt("drop if", staging, << >>)
         \/ j = 1 /\ s = Stmt("create", staging, << >>)
         \/ j = 2 /\ s.op = "append" /\ s.table = staging
         \/ j - 2 \in 1..n /\ s.op = "batch" /\ s.table = staging /\ s.arg = rows[j - 2]
         \/ j = n + 3 /\ s = Stmt("create_append", table, << >>)
         \/ j = n + 4 /\ s = Stmt("exchange", table, staging)
         \/ j = n + 5 /\ s = Stmt("drop", staging, << >>)
      /\ s.op \in StagedOps
      /\ s.op # "exchange" => s.table = staging \/ (s.op = "create_append" /\ s.table = table)
      /\ s.op = "exchange" => s.table = table /\ s.arg = staging
      /\ s.table # staging => j = n + 3 \/ j = n + 4

LEMMA StatementAfter ==
  ASSUME NEW p, NEW table, NEW rows, Stages(p, table, rows), NEW j \in Nat, j < Len(rows) + 6
  PROVE  After(j, p[j + 1], table, rows)
<1> DEFINE n == Len(rows)
           staging == Staging(table)
           s == p[j + 1]
<1>6. s = p[j + 1]
  OBVIOUS
<1>1. Stages(p, table, rows)
  OBVIOUS
<1>7. n \in Nat
  BY DEF Stages
<1> HIDE DEF s, n, staging
<1>8. \/ j = 0 /\ s = Stmt("drop if", staging, << >>)
      \/ j = 1 /\ s = Stmt("create", staging, << >>)
      \/ j = 2 /\ s.op = "append" /\ s.table = staging
      \/ j - 2 \in 1..n /\ s.op = "batch" /\ s.table = staging /\ s.arg = rows[j - 2]
      \/ j = n + 3 /\ s = Stmt("create_append", table, << >>)
      \/ j = n + 4 /\ s = Stmt("exchange", table, staging)
      \/ j = n + 5 /\ s = Stmt("drop", staging, << >>)
  <2> DEFINE m == j - 2
  <2>1. \/ j + 1 = 1 \/ j + 1 = 2 \/ j + 1 = 3
        \/ m \in 1..n /\ j + 1 = m + 3
        \/ j + 1 = n + 4 \/ j + 1 = n + 5 \/ j + 1 = n + 6
    BY <1>7 DEF n
  <2>2. j \in Nat
    OBVIOUS
  <2>3. /\ p[1] = Stmt("drop if", staging, << >>) /\ p[2] = Stmt("create", staging, << >>)
        /\ p[3].op = "append" /\ p[3].table = staging
        /\ \A q \in 1..n : p[q + 3].op = "batch" /\ p[q + 3].table = staging /\ p[q + 3].arg = rows[q]
        /\ p[n + 4] = Stmt("create_append", table, << >>)
        /\ p[n + 5] = Stmt("exchange", table, staging)
        /\ p[n + 6] = Stmt("drop", staging, << >>)
    BY ONLY <1>1 DEF Stages, n, staging
  <2>4. CASE m \in 1..n /\ j + 1 = m + 3
    <3>1. s.op = "batch" /\ s.table = staging /\ s.arg = rows[m]
      <4> HIDE DEF m
      <4> QED BY ONLY <1>6, <2>3, <2>4
    <3> QED BY <2>4, <3>1
  <2>5. CASE j + 1 = 1 \/ j + 1 = 2 \/ j + 1 = 3 \/ j + 1 = n + 4 \/ j + 1 = n + 5 \/ j + 1 = n + 6
    <3> HIDE DEF m
    <3>1. j + 1 = 1 => j = 0 /\ s = p[1]
      BY ONLY <1>6, <2>2
    <3>2. j + 1 = 2 => j = 1 /\ s = p[2]
      BY ONLY <1>6, <2>2
    <3>3. j + 1 = 3 => j = 2 /\ s = p[3]
      BY ONLY <1>6, <2>2
    <3>4. j + 1 = n + 4 => j = n + 3 /\ s = p[n + 4]
      BY ONLY <1>6, <1>7, <2>2
    <3>5. j + 1 = n + 5 => j = n + 4 /\ s = p[n + 5]
      BY ONLY <1>6, <1>7, <2>2
    <3>6. j + 1 = n + 6 => j = n + 5 /\ s = p[n + 6]
      BY ONLY <1>6, <1>7, <2>2
    <3> QED BY ONLY <2>3, <2>5, <3>1, <3>2, <3>3, <3>4, <3>5, <3>6
  <2> QED BY ONLY <2>1, <2>4, <2>5
<1>9. /\ s.op \in StagedOps
      /\ s.op # "exchange" => s.table = staging \/ (s.op = "create_append" /\ s.table = table)
      /\ s.op = "exchange" => s.table = table /\ s.arg = staging
      /\ s.table # staging => j = n + 3 \/ j = n + 4
  <2>1. CASE \/ s = Stmt("drop if", staging, << >>) \/ s = Stmt("create", staging, << >>)
             \/ s = Stmt("drop", staging, << >>)
    <3>1. s.op \in {"drop if", "create", "drop"} /\ s.table = staging
      <4>1. CASE s = Stmt("drop if", staging, << >>)
        BY ONLY <4>1 DEF Stmt
      <4>2. CASE s = Stmt("create", staging, << >>)
        BY ONLY <4>2 DEF Stmt
      <4>3. CASE s = Stmt("drop", staging, << >>)
        BY ONLY <4>3 DEF Stmt
      <4> QED BY ONLY <2>1, <4>1, <4>2, <4>3
    <3> QED BY ONLY <3>1 DEF StagedOps
  <2>2. CASE s.op \in {"append", "batch"} /\ s.table = staging
    BY ONLY <2>2 DEF StagedOps
  <2>3. CASE j = n + 3 /\ s = Stmt("create_append", table, << >>)
    BY ONLY <2>3 DEF Stmt, StagedOps
  <2>4. CASE j = n + 4 /\ s = Stmt("exchange", table, staging)
    BY ONLY <2>4 DEF Stmt, StagedOps
  <2> QED BY ONLY <1>8, <2>1, <2>2, <2>3, <2>4
<1>10. After(j, s, table, rows)
  BY <1>8, <1>9 DEF After, n, staging
<1> QED BY <1>10 DEF s

(* One statement of group i, and where the tables are after it.               *)
LEMMA StageSteps ==
  ASSUME Apart, Recorded(tables), SameCall, default' = default,
         NEW i \in Groups, AnySeq(BatchesOf(i)), NEW j \in Nat, j < Len(BatchesOf(i)) + 6,
         NEW s, s = ReplaceStaged(TableOf(i), BatchesOf(i))[j + 1],
         Possible(s), tables' = TablesAfter(s), Stage(i, j)
  PROVE  Stage(i, j + 1)'
<1> DEFINE rows == BatchesOf(i)
           n == Len(rows)
           p == ReplaceStaged(TableOf(i), rows)
           staging == Staging(TableOf(i))
           S == Key(staging)
           T == Key(TableOf(i))
<1>1. Stages(p, TableOf(i), rows)
  BY StagedParts
<1>2. S[2] = Spelled(staging[2]) /\ T[2] = NameOf(i)
  <2>1. TableOf(i)[2] = GroupTable(call.of, call.in_schema, i)
    BY DEF TableOf, Place
  <2> QED BY <2>1, KeyName DEF NameOf, Name
<1>3. /\ \A g \in Groups : S[2] # NameOf(g)
      /\ \A g \in Groups : g # i => T[2] # NameOf(g)
      /\ T # S
  BY <1>2 DEF Apart
<1>4. Groups' = Groups /\ \A g : BatchesOf(g)' = BatchesOf(g) /\ TableOf(g)' = TableOf(g)
  BY NamesStay
<1>5. con' = con /\ default' = default
  BY DEF SameCall
<1>6. s = p[j + 1]
  OBVIOUS
<1> HIDE DEF p
<1>7. n \in Nat
  BY <1>1 DEF Stages
(* The statement. *)
<1>0. After(j, s, TableOf(i), rows)
  <2>1. j < Len(rows) + 6
    OBVIOUS
  <2> HIDE DEF rows
  <2> QED BY <1>1, <1>6, <2>1, StatementAfter
<1>8. \/ j = 0 /\ s = Stmt("drop if", staging, << >>)
      \/ j = 1 /\ s = Stmt("create", staging, << >>)
      \/ j = 2 /\ s.op = "append" /\ s.table = staging
      \/ j - 2 \in 1..n /\ s.op = "batch" /\ s.table = staging /\ s.arg = rows[j - 2]
      \/ j = n + 3 /\ s = Stmt("create_append", TableOf(i), << >>)
      \/ j = n + 4 /\ s = Stmt("exchange", TableOf(i), staging)
      \/ j = n + 5 /\ s = Stmt("drop", staging, << >>)
  BY ONLY <1>0 DEF After
<1>9. /\ s.op \in StagedOps
      /\ s.op # "exchange" => s.table = staging \/ (s.op = "create_append" /\ s.table = TableOf(i))
      /\ s.op = "exchange" => s.table = TableOf(i) /\ s.arg = staging
      /\ s.table # staging => j = n + 3 \/ j = n + 4
  BY ONLY <1>0 DEF After
<1> HIDE DEF S, T
<1>10. ASSUME NEW k, k # S, k # T
       PROVE  Spared(k)
  BY <1>9, <1>10, StatementSpares DEF S, T
<1>11. ASSUME NEW k, k # S, s.table = staging
       PROVE  Spared(k)
  <2>1. s.op # "exchange"
    BY <1>3, <1>9, <1>11 DEF S, T
  <2> QED BY <1>9, <1>11, <2>1, StatementSpares DEF S
(* The other groups. *)
<1>12. ASSUME NEW g \in Groups, g # i
       PROVE  (Untouched(g) => Untouched(g)') /\ (Settled(g) => Settled(g)')
  <2>1. \A k : k[2] = NameOf(g) => Spared(k)
    BY <1>3, <1>10, <1>12
  <2> QED BY <2>1, SparedGroup
<1>13. ASSUME s.table = staging
       PROVE  (Untouched(i) => Untouched(i)') /\ (Settled(i) => Settled(i)')
  <2>1. \A k : k[2] = NameOf(i) => Spared(k)
    BY <1>3, <1>11, <1>13
  <2> QED BY <2>1, SparedGroup
(* What the tables are before. *)
<1>14. /\ \A g \in Groups : g < i => Settled(g)
       /\ \A g \in Groups : g > i => Untouched(g)
       /\ IF j <= n + 3 THEN Untouched(i) ELSE Settled(i)
       /\ \A b \in 0..n : (j = b + 3 \/ (j = 2 /\ b = 0) \/ (j = n + 4 /\ b = n)) => Filled(i, b)
  BY DEF Stage
<1> DEFINE Fill(b) == /\ S \in DOMAIN tables /\ AnySeq(tables[S].rows) /\ Len(tables[S].rows) = b
                      /\ \A m \in 1..b : tables[S].rows[m] = rows[m]
<1>15. \A b : Filled(i, b) <=> Fill(b)
  BY DEF Filled, S
<1> DEFINE Filled_(b) ==
             /\ S \in DOMAIN tables' /\ AnySeq(tables'[S].rows) /\ Len(tables'[S].rows) = b
             /\ \A m \in 1..b : tables'[S].rows[m] = rows[m]
<1>16. ASSUME S' = S, NEW b, Filled_(b)
       PROVE  Filled(i, b)'
  <2>1. Key(Staging(TableOf(i)))' = S
    BY <1>16 DEF S
  <2> QED BY <1>4, <1>16, <2>1 DEF Filled
(* The table of the group. *)
<1>17. j = n + 3 => Settled(i)'
  <2> SUFFICES ASSUME j = n + 3 PROVE Settled(i)'
    OBVIOUS
  <2>1. s.op = "create_append" /\ s.table = TableOf(i) /\ Untouched(i)
    <3>1. s.op = "create_append" /\ s.table = TableOf(i)
      <4>1. j # 0 /\ j # 1 /\ j # 2 /\ j - 2 \notin 1..n /\ j # n + 4 /\ j # n + 5
        BY <1>7
      <4> HIDE DEF n, rows, staging
      <4>2. s = Stmt("create_append", TableOf(i), << >>)
        BY ONLY <1>8, <4>1
      <4> QED BY ONLY <4>2 DEF Stmt
    <3> QED BY <1>14, <3>1
  <2>2. tables' = IF T \in DOMAIN tables THEN tables ELSE Put(T, Table)
    BY <2>1 DEF TablesAfter, T
  <2>3. ASSUME NEW k, k[2] = NameOf(i), k # T PROVE Atomic(k, i)'
    <3>1. Spared(k) /\ AsBefore(k)
      BY <1>3, <1>10, <2>1, <2>3 DEF Untouched
    <3>2. AsBefore(k)'
      BY <3>1 DEF AsBefore, Spared, SameCall
    <3> QED BY <3>2 DEF Atomic
  <2>4. ASSUME NEW k, k = T PROVE Atomic(k, i)'
    <3>1. AsBefore(k) /\ call'.before = call.before
      BY <1>2, <2>1, <2>4 DEF Untouched, SameCall
    <3>2. CASE k \in DOMAIN tables
      <4>1. tables' = tables
        BY <2>2, <2>4, <3>2
      <4> QED BY <3>1, <4>1 DEF Atomic, AsBefore
    <3>3. CASE k \notin DOMAIN tables
      <4>1. k \in DOMAIN tables' /\ tables'[k] = Table
        BY <2>2, <2>4, <3>3 DEF Put
      <4>2. k \notin DOMAIN call'.before
        BY <3>1, <3>3 DEF AsBefore
      <4>3. tables'[k].rows = << >>
        BY ONLY <4>1 DEF Table
      <4> QED BY <4>1, <4>2, <4>3 DEF Atomic
    <3> QED BY <3>2, <3>3
  <2>5. \A k : k[2] = NameOf(i)' => Atomic(k, i)'
    BY <2>3, <2>4, NamesStay
  <2> QED BY <2>5 DEF Settled
<1>18. j = n + 4 => Settled(i)'
  <2> SUFFICES ASSUME j = n + 4 PROVE Settled(i)'
    OBVIOUS
  <2>1. s.op = "exchange" /\ s.table = TableOf(i) /\ s.arg = staging
    <3>1. j # 0 /\ j # 1 /\ j # 2 /\ j - 2 \notin 1..n /\ j # n + 3 /\ j # n + 5
      BY <1>7
    <3> HIDE DEF n, rows, staging
    <3>2. s = Stmt("exchange", TableOf(i), staging)
      BY ONLY <1>8, <3>1
    <3> QED BY ONLY <3>2 DEF Stmt
  <2>2. Settled(i) /\ Fill(n)
    <3>1. n \in 0..n /\ ~(j <= n + 3)
      BY <1>7
    <3> HIDE DEF n, Fill
    <3> QED BY <1>14, <1>15, <3>1
  <2>3. ASSUME NEW k, k[2] = NameOf(i), k # T PROVE Atomic(k, i)'
    <3>1. Spared(k) /\ Atomic(k, i)
      BY <1>3, <1>10, <2>2, <2>3 DEF Settled
    <3>2. AsBefore(k) => AsBefore(k)'
      BY <3>1 DEF AsBefore, Spared, SameCall
    <3> QED BY <1>4, <3>1, <3>2 DEF Atomic, Spared, SameCall
  <2>4. ASSUME NEW k, k = T PROVE Atomic(k, i)'
    <3>1. k \in DOMAIN tables /\ S \in DOMAIN tables /\ S # k
          /\ tables' = [tables EXCEPT ![k] = tables[S], ![S] = tables[k]]
      BY <1>3, <2>1, <2>4 DEF Possible, TablesAfter, S, T
    <3>2. k \in DOMAIN tables' /\ tables'[k] = tables[S]
      BY ONLY <3>1
    <3>3. tables[S].rows = rows
      <4> DEFINE q == tables[S].rows
      <4>1. AnySeq(q) /\ Len(q) = n /\ \A m \in 1..n : q[m] = rows[m]
        BY <2>2
      <4>2. AnySeq(rows) /\ Len(rows) = n
        OBVIOUS
      <4> HIDE DEF q, rows, n
      <4>3. q = rows
        BY ONLY <4>1, <4>2, SameSequence
      <4> QED BY <4>3 DEF q
    <3>4. BatchesOf(i)' = rows
      BY <1>4
    <3> HIDE DEF rows
    <3> QED BY <3>2, <3>3, <3>4 DEF Atomic
  <2>5. \A k : k[2] = NameOf(i)' => Atomic(k, i)'
    BY <2>3, <2>4, NamesStay
  <2> QED BY <2>5 DEF Settled
<1>19. IF j + 1 <= n + 3 THEN Untouched(i)' ELSE Settled(i)'
  <2>1. CASE j + 1 <= n + 3
    <3>1. s.table = staging /\ Untouched(i)
      BY <1>7, <1>9, <1>14, <2>1
    <3> QED BY <1>13, <2>1, <3>1
  <2>2. CASE ~(j + 1 <= n + 3)
    <3>1. CASE j = n + 3 \/ j = n + 4
      BY <1>17, <1>18, <2>2, <3>1
    <3>2. CASE ~(j = n + 3 \/ j = n + 4)
      <4>1. s.table = staging /\ Settled(i)
        BY <1>7, <1>9, <1>14, <2>2, <3>2
      <4> QED BY <1>13, <2>2, <4>1
    <3> QED BY <3>1, <3>2
  <2> QED BY <2>1, <2>2
(* The staging table. *)
<1>20. ASSUME NEW b \in 0..n, j + 1 = b + 3 \/ (j + 1 = 2 /\ b = 0) \/ (j + 1 = n + 4 /\ b = n)
       PROVE  Filled(i, b)'
  <2> DEFINE t == <<"temp", Spelled(staging[2])>>
  <2>1. CASE j = 1 /\ b = 0
    <3>1. s = Stmt("create", staging, << >>)
      <4>1. j - 2 \notin 1..n /\ j # n + 3 /\ j # n + 4 /\ j # n + 5 /\ j # 0 /\ j # 2
        BY <1>7, <2>1
      <4> HIDE DEF n, rows, staging
      <4> QED BY ONLY <1>8, <4>1
    <3>2. s.op = "create" /\ s.table = staging
      BY ONLY <3>1 DEF Stmt
    <3>3. S \notin DOMAIN tables /\ tables' = Put(S, Table)
      BY <3>2 DEF Possible, TablesAfter, S
    <3>4. DOMAIN tables' = DOMAIN tables \cup {S} /\ tables'[S] = Table
      BY <3>3 DEF Put
    <3>5. S' = S
      BY <1>4, <1>5, <3>3, <3>4, KeyStays DEF S
    <3>6. tables'[S].rows = << >> /\ AnySeq(<< >>) /\ Len(<< >>) = 0
      <4>1. << >> \in Seq({}) /\ Len(<< >>) = 0
        OBVIOUS
      <4> QED BY <3>4, <4>1 DEF Table, AnySeq
    <3>7. Filled_(b)
      BY <2>1, <3>4, <3>6
    <3> HIDE DEF Filled_
    <3> QED BY <1>16, <3>5, <3>7
  <2>2. CASE j = 2 /\ b = 0
    <3>1. s.op = "append" /\ s.table = staging
      <4>1. j - 2 \notin 1..n /\ j # n + 3 /\ j # n + 4 /\ j # n + 5 /\ j # 0 /\ j # 1
        BY <1>7, <2>2
      <4> HIDE DEF n, rows, staging
      <4> QED BY ONLY <1>8, <4>1
    <3>2. tables' = tables
      BY <3>1 DEF TablesAfter
    <3>3. S' = S
      BY <1>4, <1>5, <3>2, KeyStays DEF S
    <3>4. Fill(b)
      <4> HIDE DEF Fill
      <4> QED BY <1>14, <1>15, <2>2
    <3>5. Filled_(b)
      BY <3>2, <3>4
    <3> HIDE DEF Filled_
    <3> QED BY <1>16, <3>3, <3>5
  <2>3. CASE j - 2 \in 1..n /\ b = j - 2
    <3>1. s.op = "batch" /\ s.table = staging /\ s.arg = rows[b]
      <4>1. j # n + 3 /\ j # n + 4 /\ j # n + 5 /\ j # 0 /\ j # 1 /\ j # 2
        BY <1>7, <2>3
      <4> HIDE DEF n, rows, staging
      <4> QED BY ONLY <1>8, <2>3, <4>1
    <3>2. Fill(b - 1)
      <4>1. b - 1 \in 0..n /\ j = (b - 1) + 3
        BY <1>7, <2>3
      <4> HIDE DEF Fill, n
      <4> QED BY <1>14, <1>15, <4>1
    <3> DEFINE q == tables[S].rows
    <3>3. S \in DOMAIN tables /\ tables' = Put(S, [tables[S] EXCEPT !.rows = Append(@, rows[b])])
      BY <3>1, <3>2 DEF TablesAfter, S
    <3>4. DOMAIN tables[S] = {"kind", "rows"}
      BY <3>3 DEF Recorded
    <3>5. DOMAIN tables' = DOMAIN tables /\ tables'[S].rows = Append(q, rows[b])
      <4>1. DOMAIN tables' = DOMAIN tables /\ tables'[S] = [tables[S] EXCEPT !.rows = Append(@, rows[b])]
        <5> HIDE DEF rows
        <5> QED BY <3>3 DEF Put
      <4> HIDE DEF rows
      <4> QED BY <3>4, <4>1
    <3>6. S' = S
      BY <1>4, <1>5, <3>5, KeyStays DEF S
    <3>7. /\ AnySeq(Append(q, rows[b])) /\ Len(Append(q, rows[b])) = b
          /\ \A m \in 1..b : Append(q, rows[b])[m] = rows[m]
      <4>1. AnySeq(q) /\ Len(q) = b - 1 /\ \A m \in 1..b - 1 : q[m] = rows[m]
        BY <3>2
      <4>2. b \in Nat /\ b # 0
        BY <1>7, <2>3
      <4> HIDE DEF q, rows
      <4>3. /\ AnySeq(Append(q, rows[b])) /\ Len(Append(q, rows[b])) = Len(q) + 1
            /\ \A m \in 1..Len(q) : Append(q, rows[b])[m] = q[m]
            /\ Append(q, rows[b])[Len(q) + 1] = rows[b]
        BY <4>1, AppendedSequence
      <4> QED BY ONLY <4>1, <4>2, <4>3
    <3>8. Filled_(b)
      BY <3>3, <3>5, <3>7
    <3> HIDE DEF Filled_
    <3> QED BY <1>16, <3>6, <3>8
  <2>4. CASE j = n + 3 /\ b = n
    <3>1. s.op = "create_append" /\ s.table = TableOf(i)
      <4>1. j # 0 /\ j # 1 /\ j # 2 /\ j - 2 \notin 1..n /\ j # n + 4 /\ j # n + 5
        BY <1>7, <2>4
      <4> HIDE DEF n, rows, staging
      <4>2. s = Stmt("create_append", TableOf(i), << >>)
        BY ONLY <1>8, <4>1
      <4> QED BY ONLY <4>2 DEF Stmt
    <3>2. Fill(n)
      <4>1. n \in 0..n
        BY <1>7
      <4> HIDE DEF Fill, n
      <4> QED BY <1>14, <1>15, <2>4, <4>1
    <3>3. ASSUME NEW k, k = S PROVE Spared(k)
      BY <1>3, <1>9, <3>1, <3>3, StatementSpares DEF T
    <3>4. S \in DOMAIN tables' /\ tables'[S] = tables[S]
      BY <3>2, <3>3 DEF Spared
    <3>5. S' = S
      <4>1. ASSUME NEW k, k = t PROVE k \in DOMAIN tables' <=> k \in DOMAIN tables
        <5>1. k # T
          BY <1>2, <1>3, <4>1
        <5> QED BY <1>9, <3>1, <5>1, StatementSpares DEF Spared, T
      <4> QED BY <1>4, <1>5, <4>1, KeyStays DEF S
    <3>6. Filled_(b)
      BY <2>4, <3>2, <3>4
    <3> HIDE DEF Filled_
    <3> QED BY <1>16, <3>5, <3>6
  <2>5. \/ j = 1 /\ b = 0
        \/ j = 2 /\ b = 0
        \/ j = n + 3 /\ b = n
        \/ j - 2 \in 1..n /\ b = j - 2
    BY <1>7, <1>20
  <2> QED BY <2>1, <2>2, <2>3, <2>4, <2>5
<1>21. ASSUME NEW g \in Groups, g < i PROVE Settled(g)'
  BY <1>12, <1>14, <1>21 DEF Groups
<1>22. ASSUME NEW g \in Groups, g > i PROVE Untouched(g)'
  BY <1>12, <1>14, <1>22 DEF Groups
<1>23. Len(BatchesOf(i)') = n
  BY <1>4
<1> HIDE DEF n, Fill, Filled_
<1> QED BY <1>4, <1>19, <1>20, <1>21, <1>22, <1>23 DEF Stage

(* What is left to run of a call that replaces, and where the tables are.     *)
InProgram ==
  LET parts == Parts(call.of, call.in_schema)
  IN  \E off, i, j : /\ Offsets(off, parts) /\ i \in Groups /\ j \in 0..Len(parts[i])
                     /\ Rest(call.todo, parts, off, i, j) /\ Stage(i, j)

AllSettled == \A g \in Groups : Settled(g)

(* All but the temporary tables, which go with the connection.                *)
KeptSettled == \A g \in Groups : \A k : k[2] = NameOf(g) /\ k[1] # "temp" => Atomic(k, g)

Tidying ==
  call.todo = << >> \/ \E i \in Groups : call.todo = <<Stmt("drop if", Staging(TableOf(i)), << >>)>>

Phase ==
  /\ call.in_schema \in BOOLEAN /\ (call.in_schema => Mixed(call.of))
  /\ call.outcome \in {"naming", "running", "raising", "returned", "raised", "lost"}
  /\ call.outcome \in {"naming", "running", "raising"} => ~NamesClash(call.of)
  /\ call.outcome = "naming" => tables = call.before /\ Mixed(call.of)
  /\ call.outcome = "running" => InProgram
  /\ call.outcome = "raising" => Tidying
  /\ call.outcome # "lost" => AllSettled
  /\ call.outcome = "lost" => KeptSettled /\ default # "temp" /\ \A k \in DOMAIN tables : k[1] # "temp"

Replacing ==
  /\ DialectFor.table_ddl => committed.tables = tables
  /\ Replaces => Phase

LEMMA StageSettles ==
  ASSUME NEW i \in Groups, NEW j, Stage(i, j)
  PROVE  AllSettled
<1>1. Settled(i)
  BY UntouchedIsSettled DEF Stage
<1>2. ASSUME NEW g \in Groups PROVE g = i \/ g < i \/ g > i
  BY DEF Groups
<1> QED BY <1>1, <1>2, UntouchedIsSettled DEF Stage, AllSettled

LEMMA ProgramSettles == InProgram => AllSettled
BY StageSettles DEF InProgram

LEMMA PartsOfCall ==
  ASSUME con \in Connections, NEW c \in Calls(con), NEW in_schema
  PROVE  /\ AnySeq(Parts(c, in_schema)) /\ Len(Parts(c, in_schema)) = Len(c.groups) /\ Len(c.groups) \in Nat
         /\ Len(c.groups) # 0
         /\ \A i \in 1..Len(c.groups) :
              /\ AnySeq(c.groups[i].batches)
              /\ Parts(c, in_schema)[i] = ReplaceStaged(Place(c, in_schema, i), c.groups[i].batches)
              /\ Stages(Parts(c, in_schema)[i], Place(c, in_schema, i), c.groups[i].batches)
<1> DEFINE N == Len(c.groups)
           parts == Parts(c, in_schema)
<1>1. AnySeq(c.groups) /\ \A i \in 1..N : AnySeq(c.groups[i].batches)
  BY GroupTypes
<1>2. N \in Nat /\ DOMAIN c.groups = 1..N
  BY <1>1, SequenceParts
<1>3. N # 0
  BY <1>1, SequenceParts, CallAssumption
<1>4. parts = [i \in 1..N |-> ReplaceStaged(Place(c, in_schema, i), c.groups[i].batches)]
  BY <1>2 DEF Parts
<1>5. AnySeq(parts) /\ Len(parts) = N
  <2>1. DOMAIN parts = 1..N /\ parts = [i \in 1..N |-> parts[i]]
    BY <1>4
  <2> HIDE DEF parts, N
  <2> QED BY <1>2, <2>1, MadeSequence
<1>6. \A i \in 1..N : parts[i] = ReplaceStaged(Place(c, in_schema, i), c.groups[i].batches)
  BY <1>4
<1>7. \A i \in 1..N : Stages(parts[i], Place(c, in_schema, i), c.groups[i].batches)
  <2> HIDE DEF parts
  <2> QED BY <1>1, <1>6, StagedParts
<1> QED BY <1>1, <1>2, <1>3, <1>5, <1>6, <1>7

LEMMA ReplacingProgram ==
  ASSUME con \in Connections, NEW c \in Calls(con), DialectFor.table_ddl, c.mode = "replace", ~c.temporary,
         NEW in_schema
  PROVE  ADBCProgram(c, in_schema) = FlattenSeq(Parts(c, in_schema))
<1>1. ASSUME NEW schema, NEW name, NEW batches
      PROVE  Ingest(schema, name, batches, c.mode, c.temporary) = ReplaceStaged(<<schema, name>>, batches)
  BY DEF Ingest, ClickHouseIngest
<1> DEFINE parts == [i \in DOMAIN c.groups |->
                      Ingest(IF in_schema THEN c.name ELSE NoSchema, GroupTable(c, in_schema, i),
                             c.groups[i].batches, c.mode, c.temporary)]
<1>2. parts = Parts(c, in_schema)
  BY <1>1 DEF Parts, Place
<1>3. ADBCProgram(c, in_schema) = FlattenSeq(parts)
  BY DEF ADBCProgram
<1> HIDE DEF parts
<1> QED BY <1>2, <1>3

(* A program that has not begun.                                              *)
LEMMA ProgramBegins ==
  (/\ con \in Connections /\ call.of \in Calls(con) /\ Replaces /\ tables = call.before
   /\ call.todo = ADBCProgram(call.of, call.in_schema)) => InProgram
<1> SUFFICES ASSUME con \in Connections, call.of \in Calls(con), Replaces, tables = call.before,
                    call.todo = ADBCProgram(call.of, call.in_schema)
             PROVE  InProgram
  OBVIOUS
<1> DEFINE parts == Parts(call.of, call.in_schema)
<1>1. call.todo = FlattenSeq(parts)
  BY ReplacingProgram DEF Replaces
<1>2. /\ AnySeq(parts) /\ Len(parts) = Len(call.of.groups) /\ Len(call.of.groups) \in Nat
      /\ Len(call.of.groups) # 0
      /\ \A i \in 1..Len(call.of.groups) :
           /\ AnySeq(call.of.groups[i].batches)
           /\ Stages(parts[i], Place(call.of, call.in_schema, i), call.of.groups[i].batches)
  BY PartsOfCall
<1>3. \A i \in 1..Len(parts) : AnySeq(parts[i])
  BY <1>2 DEF Stages
<1> HIDE DEF parts
<1>4. PICK off : Offsets(off, parts)
  BY <1>2, <1>3, OffsetsExist
<1>5. Rest(call.todo, parts, off, 1, 0)
  BY <1>1, <1>2, <1>3, <1>4, RestStarts
<1>6. 1 \in Groups /\ 0 \in 0..Len(parts[1])
  BY <1>2, <1>3, SequenceParts DEF Groups
<1>7. \A g : Untouched(g)
  BY DEF Untouched, AsBefore
<1>8. Stage(1, 0)
  <2>1. Len(BatchesOf(1)) \in Nat
    BY <1>2, <1>6 DEF Stages, BatchesOf, Groups
  <2>2. \A b \in 0..Len(BatchesOf(1)) :
          ~(0 = b + 3 \/ (0 = 2 /\ b = 0) \/ (0 = Len(BatchesOf(1)) + 4 /\ b = Len(BatchesOf(1))))
    BY <2>1
  <2> QED BY <1>7, <2>1, <2>2, UntouchedIsSettled DEF Stage
<1> QED BY <1>4, <1>5, <1>6, <1>8 DEF InProgram, parts

LEMMA NamesClashStays ==
  ASSUME SameCall
  PROVE  NamesClash(call.of)' <=> NamesClash(call.of)
BY DEF SameCall, CaseInsensitive, NamesClash

(* Where nothing is done to the tables, they are as good as they were.        *)
LEMMA SparedCall ==
  ASSUME SameCall, tables' = tables
  PROVE  (AllSettled => AllSettled') /\ (Tidying /\ call'.todo = call.todo => Tidying')
<1>1. \A k : Spared(k)
  BY DEF Spared
<1>2. \A g : Settled(g) => Settled(g)'
  BY <1>1, SparedGroup
<1>3. Groups' = Groups /\ \A g : TableOf(g)' = TableOf(g)
  BY NamesStay
<1> QED BY <1>2, <1>3 DEF AllSettled, Tidying

(* The next statement, that of a group at its place in the group's program.    *)
NextStatement(off, g, m) ==
  LET parts == Parts(call.of, call.in_schema)
  IN  /\ Offsets(off, parts) /\ g \in Groups /\ m \in Nat
      /\ m < Len(BatchesOf(g)) + 6 /\ m + 1 \in 0..Len(parts[g])
      /\ Head(call.todo) = ReplaceStaged(TableOf(g), BatchesOf(g))[m + 1]
      /\ AnySeq(BatchesOf(g)) /\ Stages(ReplaceStaged(TableOf(g), BatchesOf(g)), TableOf(g), BatchesOf(g))
      /\ Rest(Tail(call.todo), parts, off, g, m + 1) /\ Stage(g, m)

LEMMA ProgramNext ==
  ASSUME Known, Replaces, Phase, call.outcome = "running", call.todo # << >>
  PROVE  \E off, g, m : NextStatement(off, g, m)
<1> DEFINE c == call.of
           N == Len(c.groups)
           parts == Parts(c, call.in_schema)
           p == call.todo
<1>1. con \in Connections /\ c \in Calls(con)
  BY DEF Known, Replaces
<1>2. /\ AnySeq(parts) /\ Len(parts) = N /\ N \in Nat
      /\ \A i \in 1..N :
           /\ AnySeq(BatchesOf(i))
           /\ parts[i] = ReplaceStaged(TableOf(i), BatchesOf(i))
           /\ Stages(parts[i], TableOf(i), BatchesOf(i))
  BY <1>1, PartsOfCall DEF BatchesOf, TableOf
<1>3. /\ \A i \in 1..Len(parts) : AnySeq(parts[i])
      /\ \A i \in Groups : /\ Len(BatchesOf(i)) \in Nat /\ Len(parts[i]) = Len(BatchesOf(i)) + 6
                            /\ AnySeq(BatchesOf(i)) /\ Stages(parts[i], TableOf(i), BatchesOf(i))
                            /\ parts[i] = ReplaceStaged(TableOf(i), BatchesOf(i))
      /\ Groups = 1..Len(parts)
  BY <1>2 DEF Stages, Groups
<1>5. InProgram
  BY DEF Phase
<1> HIDE DEF c, N, parts
<1>6. PICK off, i, j : /\ Offsets(off, parts) /\ i \in Groups /\ j \in 0..Len(parts[i])
                       /\ Rest(p, parts, off, i, j) /\ Stage(i, j)
  BY <1>5 DEF InProgram, parts, c
<1> HIDE DEF p
(* After the last statement of a group comes the next group. *)
<1>7. PICK g \in Groups, m \in Nat : m < Len(parts[g]) /\ Rest(p, parts, off, g, m) /\ Stage(g, m)
  <2>1. CASE j < Len(parts[i])
    BY <1>6, <2>1
  <2>2. CASE ~(j < Len(parts[i]))
    <3>1. j = Len(parts[i])
      BY <1>3, <1>6, <2>2
    <3>2. i + 1 \in Groups /\ Rest(p, parts, off, i + 1, 0)
      <4>1. p # << >>
        BY DEF p
      <4> QED BY <1>2, <1>3, <1>6, <3>1, <4>1, RestEnds
    <3>3. Stage(i + 1, 0)
      <4>1. \A h \in Groups : h < i + 1 => Settled(h)
        BY <1>6, StageSettles DEF AllSettled
      <4>2. \A h \in Groups : h >= i + 1 => Untouched(h)
        <5>1. \A h \in Groups : h >= i + 1 => h > i
          BY <1>6 DEF Groups
        <5> QED BY <1>6, <5>1 DEF Stage
      <4>3. \A h \in Groups : h > i + 1 => h >= i + 1
        BY <1>6 DEF Groups
      <4>4. i + 1 >= i + 1
        BY <1>6 DEF Groups
      <4>5. Len(BatchesOf(i + 1)) \in Nat
        BY <1>3, <3>2
      <4>6. \A b \in 0..Len(BatchesOf(i + 1)) :
              ~(0 = b + 3 \/ (0 = 2 /\ b = 0) \/ (0 = Len(BatchesOf(i + 1)) + 4 /\ b = Len(BatchesOf(i + 1))))
        BY <4>5
      <4> QED BY <3>2, <4>1, <4>2, <4>3, <4>4, <4>5, <4>6 DEF Stage
    <3>4. 0 < Len(parts[i + 1])
      BY <1>3, <3>2
    <3> QED BY <3>2, <3>3, <3>4
  <2> QED BY <2>1, <2>2
<1>8. Head(p) = parts[g][m + 1] /\ Rest(Tail(p), parts, off, g, m + 1)
  <2>1. g \in 1..Len(parts) /\ m \in Nat /\ AnySeq(parts) /\ m < Len(parts[g])
    BY <1>2, <1>3, <1>7
  <2>2. (\A h \in 1..Len(parts) : AnySeq(parts[h])) /\ Offsets(off, parts) /\ Rest(p, parts, off, g, m)
    BY <1>3, <1>6, <1>7
  <2> QED BY ONLY <2>1, <2>2, RestSteps
<1>9. NextStatement(off, g, m)
  <2>1. g \in Groups /\ m < Len(BatchesOf(g)) + 6 /\ m + 1 \in 0..Len(parts[g])
    BY <1>3, <1>7
  <2>2. Head(p) = ReplaceStaged(TableOf(g), BatchesOf(g))[m + 1]
    BY <1>3, <1>8
  <2> QED BY <1>3, <1>6, <1>7, <1>8, <2>1, <2>2 DEF NextStatement, parts, p, c
<1> QED BY <1>9

LEMMA ProgramSteps ==
  ASSUME Known, Viewed, Replaces, Phase, call.outcome = "running", call.todo # << >>, SameCall, Apart,
         Possible(Head(call.todo)), tables' = TablesAfter(Head(call.todo)),
         default' = DefaultAfter(Head(call.todo)), call'.todo = Tail(call.todo)
  PROVE  InProgram' /\ AllSettled' /\ default' = default
<1> DEFINE parts == Parts(call.of, call.in_schema)
           s == Head(call.todo)
<1>1. PICK off, g, m : NextStatement(off, g, m)
  BY ProgramNext
<1>2. /\ Offsets(off, parts) /\ g \in Groups /\ m \in Nat
      /\ m < Len(BatchesOf(g)) + 6 /\ m + 1 \in 0..Len(parts[g])
      /\ s = ReplaceStaged(TableOf(g), BatchesOf(g))[m + 1]
      /\ AnySeq(BatchesOf(g)) /\ Stages(ReplaceStaged(TableOf(g), BatchesOf(g)), TableOf(g), BatchesOf(g))
      /\ Rest(Tail(call.todo), parts, off, g, m + 1) /\ Stage(g, m)
  BY <1>1 DEF NextStatement
<1>3. Parts(call'.of, call'.in_schema) = parts /\ Groups' = Groups
  BY NamesStay DEF SameCall
<1> HIDE DEF parts, s
<1>4. default' = default
  <2>1. After(m, s, TableOf(g), BatchesOf(g))
    BY <1>2, StatementAfter
  <2>2. s.op \in StagedOps
    BY ONLY <2>1 DEF After
  <2> QED BY <2>2 DEF DefaultAfter, StagedOps, s
<1>5. Stage(g, m + 1)'
  <2>1. Recorded(tables) /\ Possible(s) /\ tables' = TablesAfter(s)
    BY DEF Viewed, s
  <2> QED BY <1>2, <1>4, <2>1, StageSteps
<1>6. InProgram'
  <2>1. /\ Offsets(off, parts) /\ g \in Groups' /\ m + 1 \in 0..Len(parts[g])
        /\ Rest(call'.todo, parts, off, g, m + 1) /\ Stage(g, m + 1)'
    BY <1>2, <1>3, <1>5
  <2> QED BY <1>3, <2>1 DEF InProgram
<1>7. AllSettled'
  <2>1. InProgram' => AllSettled'
    BY ProgramSettles, PTL
  <2> QED BY <1>6, <2>1
<1> QED BY <1>4, <1>6, <1>7

(* A statement that fails leaves at most the staging table to drop.           *)
LEMMA ProgramFails ==
  ASSUME Known, Replaces, Phase, call.outcome = "running", call.todo # << >>
  PROVE  /\ ~Head(call.todo).lenient
         /\ \/ Head(call.todo).onfail = << >>
            \/ \E g \in Groups : Head(call.todo).onfail = <<Stmt("drop if", Staging(TableOf(g)), << >>)>>
<1>1. PICK off, g, m : NextStatement(off, g, m)
  BY ProgramNext
<1> DEFINE p == ReplaceStaged(TableOf(g), BatchesOf(g))
           s == Head(call.todo)
           plan == <<Stmt("drop if", Staging(TableOf(g)), << >>)>>
<1>2. /\ g \in Groups /\ m \in Nat /\ m < Len(BatchesOf(g)) + 6
      /\ s = p[m + 1] /\ Stages(p, TableOf(g), BatchesOf(g))
  BY <1>1 DEF NextStatement
<1> HIDE DEF p, s
<1>3. \A k \in 1..Len(BatchesOf(g)) + 6 : ~p[k].lenient /\ (p[k].onfail = << >> \/ p[k].onfail = plan)
  BY <1>2 DEF Stages
<1>4. m + 1 \in 1..Len(BatchesOf(g)) + 6
  <2>1. Len(BatchesOf(g)) \in Nat
    BY <1>2 DEF Stages
  <2> QED BY <1>2, <2>1
<1> HIDE DEF plan
<1>5. ~s.lenient /\ (s.onfail = << >> \/ s.onfail = plan)
  BY <1>2, <1>3, <1>4
<1> QED BY <1>2, <1>5 DEF s, plan

-----------------------------------------------------------------------------
(* The steps of such a call. *)

LEMMA ExecuteReplaces ==
  ASSUME Known, Viewed, Replaces, Phase, Execute
  PROVE  Phase'
<1> DEFINE s == Head(call.todo)
<1>1. /\ call # NoCall /\ DOMAIN call = CallFields /\ Restores(call.todo) /\ call.todo # << >>
      /\ call.outcome \in {"running", "raising"}
  BY StartedParts DEF Execute
<1>2. /\ Possible(s) /\ tables' = TablesAfter(s) /\ default' = DefaultAfter(s) /\ con' = con
      /\ call' = [call EXCEPT !.todo = Tail(@), !.previous = IF s.op = "use" THEN default ELSE @]
  BY DEF Execute
<1> HIDE DEF s
<1>3. SameCall /\ call'.todo = Tail(call.todo) /\ call'.outcome = call.outcome
  BY <1>1, <1>2 DEF CallFields, SameCall
<1>4. ~NamesClash(call.of) /\ Apart
  BY <1>1, NamesApart DEF Phase
<1>5. CASE call.outcome = "running"
  <2>1. InProgram' /\ AllSettled'
    BY <1>1, <1>2, <1>3, <1>4, <1>5, ProgramSteps DEF s
  <2> QED BY <1>3, <1>4, <1>5, <2>1, NamesClashStays DEF Phase, SameCall
<1>6. CASE call.outcome = "raising"
  <2>1. PICK i \in Groups : call.todo = <<Stmt("drop if", Staging(TableOf(i)), << >>)>>
    BY <1>1, <1>6 DEF Phase, Tidying
  <2>2. s = Stmt("drop if", Staging(TableOf(i)), << >>) /\ Tail(call.todo) = << >>
    <3> DEFINE e == Stmt("drop if", Staging(TableOf(i)), << >>)
    <3> HIDE DEF e
    <3>1. Head(<<e>>) = e /\ Tail(<<e>>) = << >>
      OBVIOUS
    <3> QED BY <2>1, <3>1 DEF s, e
  <2>3. s.op = "drop if" /\ s.table = Staging(TableOf(i))
    BY ONLY <2>2 DEF Stmt
  <2>4. ASSUME NEW g \in Groups PROVE Settled(g)'
    <3>1. \A k : k[2] = NameOf(g) => Spared(k)
      <4>1. Key(s.table)[2] # NameOf(g)
        BY <1>4, <2>3, KeyName DEF Apart
      <4>2. s.op \in StagedOps /\ s.op # "exchange"
        BY <2>3 DEF StagedOps
      <4>3. \A k : k[2] = NameOf(g) => k # Key(s.table)
        BY <4>1
      <4> QED BY <1>2, <4>2, <4>3, StatementSpares
    <3> QED BY <1>3, <1>6, <3>1, SparedGroup DEF Phase, AllSettled
  <2>5. AllSettled' /\ Tidying'
    BY <1>3, <2>2, <2>4, NamesStay DEF AllSettled, Tidying
  <2> QED BY <1>3, <1>4, <1>6, <2>5, NamesClashStays DEF Phase, SameCall
<1> QED BY <1>1, <1>5, <1>6

LEMMA FailReplaces ==
  ASSUME Known, Replaces, Phase, Fail
  PROVE  Phase'
<1> DEFINE s == Head(call.todo)
<1>1. /\ call # NoCall /\ DOMAIN call = CallFields /\ Restores(call.todo) /\ call.todo # << >>
      /\ call.outcome \in {"running", "raising"}
  BY StartedParts DEF Fail
<1>2. /\ tables' = tables /\ con' = con
      /\ call' = [call EXCEPT !.todo = IF call.outcome = "raising" THEN << >> ELSE s.onfail,
                              !.unrestored = @ \/ s.op = "unuse",
                              !.outcome = IF s.lenient THEN @ ELSE "raising"]
  BY DEF Fail
<1> HIDE DEF s
<1>3. /\ SameCall /\ call'.todo = (IF call.outcome = "raising" THEN << >> ELSE s.onfail)
      /\ call'.outcome = (IF s.lenient THEN call.outcome ELSE "raising")
  BY <1>1, <1>2 DEF CallFields, SameCall
<1>4. ~NamesClash(call.of) /\ AllSettled'
  BY <1>1, <1>2, <1>3, SparedCall DEF Phase
<1>5. call'.outcome = "raising" /\ Tidying'
  <2>1. CASE call.outcome = "running"
    <3>1. ~s.lenient /\ (s.onfail = << >> \/ \E g \in Groups : s.onfail = <<Stmt("drop if", Staging(TableOf(g)), << >>)>>)
      BY <1>1, <2>1, ProgramFails DEF s
    <3>2. Groups' = Groups /\ \A g : TableOf(g)' = TableOf(g)
      BY <1>3, NamesStay
    <3> QED BY <1>3, <2>1, <3>1, <3>2 DEF Tidying
  <2>2. CASE call.outcome = "raising"
    BY <1>3, <2>2 DEF Tidying
  <2> QED BY <1>1, <2>1, <2>2
<1> QED BY <1>3, <1>4, <1>5, NamesClashStays DEF Phase, SameCall

LEMMA ReturnReplaces ==
  ASSUME Known, Replaces, Phase, Return
  PROVE  Phase'
<1>1. /\ DOMAIN call = CallFields /\ call.outcome \in {"running", "raising"} /\ tables' = tables /\ con' = con
      /\ call' = [call EXCEPT !.outcome = IF @ = "running" THEN "returned" ELSE "raised"]
  BY StartedParts DEF Return
<1>2. SameCall /\ call'.outcome \in {"returned", "raised"}
  BY <1>1 DEF CallFields, SameCall
<1>3. AllSettled'
  BY <1>1, <1>2, SparedCall DEF Phase
<1> QED BY <1>2, <1>3 DEF Phase, SameCall

(* The tables that are not temporary are those that others saw.               *)
LEMMA ReconnectReplaces ==
  ASSUME Known, Replacing, Replaces, Phase, Reconnect, Replaces'
  PROVE  Phase'
<1>1. con \in Connections /\ DialectFor.table_ddl /\ DOMAIN call = CallFields
  BY DEF Known, Replaces
<1>2. ~con.memory[con.current] /\ con.default # "temp" /\ committed.tables = tables
  BY <1>1, ClickHouseParts DEF Replacing
<1>3. call' = [call EXCEPT !.outcome = "lost", !.todo = << >>] /\ con' = con /\ default' = con.default
      /\ tables' = Restrict(tables, {k \in DOMAIN tables : k[1] # "temp"}) /\ Running
  <2>1. {k \in DOMAIN committed.tables : k[1] # "temp" /\ ~con.memory[con.current]}
        = {k \in DOMAIN tables : k[1] # "temp"}
    BY <1>2
  <2> QED BY <1>2, <2>1 DEF Reconnect, Replaces
<1>4. SameCall /\ call'.outcome = "lost"
  BY <1>1, <1>3 DEF CallFields, SameCall
<1>5. \A k \in DOMAIN tables' : k[1] # "temp"
  BY <1>3 DEF Restrict
<1>6. \A k : k[1] # "temp" => Spared(k)
  BY <1>3 DEF Restrict, Spared
<1>7. AllSettled
  BY <1>3 DEF Running, Phase
<1>8. KeptSettled'
  <2>1. ASSUME NEW g \in Groups, NEW k, k[2] = NameOf(g), k[1] # "temp"
        PROVE  Atomic(k, g)'
    <3>1. Atomic(k, g) /\ Spared(k)
      BY <1>6, <1>7, <2>1 DEF AllSettled, Settled
    <3>2. AsBefore(k) => AsBefore(k)'
      BY <1>4, <3>1 DEF AsBefore, Spared, SameCall
    <3>3. BatchesOf(g)' = BatchesOf(g) /\ call'.before = call.before
      BY <1>4, NamesStay DEF SameCall
    <3> QED BY <3>1, <3>2, <3>3 DEF Atomic, Spared
  <2> QED BY <1>4, <2>1, NamesStay DEF KeptSettled
<1> QED BY <1>2, <1>3, <1>4, <1>5, <1>8 DEF Phase, SameCall

(* A program begins where no table of the call has been touched.              *)
LEMMA BegunSettles ==
  ASSUME con' \in Connections, call'.of \in Calls(con'), Replaces', tables' = call'.before
  PROVE  /\ AllSettled'
         /\ call'.todo = ADBCProgram(call.of, call.in_schema)' => InProgram'
<1>1. (/\ con \in Connections /\ call.of \in Calls(con) /\ Replaces /\ tables = call.before
       /\ call.todo = ADBCProgram(call.of, call.in_schema))' => InProgram'
  BY ProgramBegins, PTL
<1>2. AllSettled'
  BY DEF AllSettled, Settled, Atomic, AsBefore
<1> QED BY <1>1, <1>2

LEMMA RegisterReplaces ==
  ASSUME Known, NEW c \in Calls(con), Register(c), Replaces'
  PROVE  Phase'
<1>1. con' = con /\ con \in Connections /\ tables' = tables /\ DialectFor' = DialectFor
  BY DEF Register, Known, DialectFor
<1>2. /\ DOMAIN call' = CallFields /\ call'.of = c /\ call'.outcome \in {"raised", "naming", "running"}
      /\ call'.todo = (CASE con.adapter = "duckdb" -> DuckDBProgram(c)
                         [] con.adapter = "datafusion" -> DataFusionProgram(c)
                         [] OTHER -> ADBCProgram(c, FALSE))
  BY RegisterKnown
<1>3. DialectFor.table_ddl /\ con.adapter = "adbc" /\ ~c.temporary
  BY <1>1, <1>2, ClickHouseParts DEF Replaces
<1>4. /\ call'.before = tables /\ call'.in_schema = FALSE
      /\ call'.outcome = IF NamesClash(c) THEN "raised" ELSE IF Mixed(c) THEN "naming" ELSE "running"
  <2> DEFINE todo == CASE con.adapter = "duckdb" -> DuckDBProgram(c)
                       [] con.adapter = "datafusion" -> DataFusionProgram(c)
                       [] OTHER -> ADBCProgram(c, FALSE)
             outcome == IF NamesClash(c) \/ (con.adapter = "adbc" /\ c.temporary /\ ~DialectFor.temporary_tables)
                        THEN "raised"
                        ELSE IF con.adapter = "adbc" /\ Mixed(c) /\ ~c.temporary THEN "naming" ELSE "running"
  <2>1. call' = [of |-> c, before |-> tables, default |-> default, previous |-> NoDefault,
                 unrestored |-> FALSE, in_schema |-> FALSE, todo |-> todo, outcome |-> outcome]
    BY DEF Register
  <2>2. outcome = IF NamesClash(c) THEN "raised" ELSE IF Mixed(c) THEN "naming" ELSE "running"
    BY <1>3
  <2> HIDE DEF todo, outcome
  <2> QED BY <2>1, <2>2
<1>5. ~NamesClash(c) => ~NamesClash(call.of)'
  BY <1>1, <1>2 DEF NamesClash, CaseInsensitive
<1>6. call'.todo = ADBCProgram(call.of, call.in_schema)'
  <2>1. call'.todo = ADBCProgram(c, FALSE)
    BY <1>2, <1>3
  <2>2. ADBCProgram(call.of, call.in_schema)' = ADBCProgram(c, FALSE)
    BY <1>1, <1>2, <1>4 DEF ADBCProgram, Ingest
  <2> QED BY <2>1, <2>2
<1>7. AllSettled' /\ InProgram'
  BY <1>1, <1>2, <1>4, <1>6, BegunSettles
<1> QED BY <1>1, <1>2, <1>4, <1>5, <1>7 DEF Phase

LEMMA SchemaReplaces ==
  ASSUME Known, Replaces, Phase, CreateSchema, Replaces'
  PROVE  Phase'
<1>1. /\ call # NoCall /\ call.outcome = "naming" /\ DOMAIN call = CallFields /\ call.of \in Calls(con)
      /\ con \in Connections /\ con' = con /\ tables' = tables /\ tables = call.before /\ Mixed(call.of)
      /\ ~NamesClash(call.of)
  BY DEF CreateSchema, Running, Known, Phase
<1>2. \/ call' = [call EXCEPT !.outcome = "raised"]
      \/ \E in_schema \in BOOLEAN :
           call' = [call EXCEPT !.in_schema = in_schema, !.outcome = "running",
                                !.todo = ADBCProgram(call.of, in_schema)]
  BY DEF CreateSchema
<1>3. CASE call' = [call EXCEPT !.outcome = "raised"]
  <2>1. SameCall /\ call'.outcome = "raised"
    BY <1>1, <1>3 DEF CallFields, SameCall
  <2>2. AllSettled'
    BY <1>1, <2>1, SparedCall DEF Phase
  <2> QED BY <2>1, <2>2 DEF Phase, SameCall
<1>4. ASSUME NEW in_schema \in BOOLEAN,
             call' = [call EXCEPT !.in_schema = in_schema, !.outcome = "running",
                                  !.todo = ADBCProgram(call.of, in_schema)]
      PROVE  Phase'
  <2>1. /\ DOMAIN call' = CallFields /\ call'.of = call.of /\ call'.in_schema = in_schema
        /\ call'.before = call.before /\ call'.outcome = "running"
        /\ call'.todo = ADBCProgram(call.of, in_schema)
    BY <1>1, <1>4 DEF CallFields
  <2>2. DialectFor' = DialectFor
    BY <1>1 DEF DialectFor
  <2>4. ADBCProgram(call.of, call.in_schema)' = ADBCProgram(call.of, in_schema)
    BY <1>1, <2>1, <2>2 DEF ADBCProgram, Ingest
  <2>5. ~NamesClash(call.of)'
    BY <1>1, <2>1 DEF NamesClash, CaseInsensitive
  <2> QED BY <1>1, <2>1, <2>4, <2>5, BegunSettles DEF Phase
<1> QED BY <1>2, <1>3, <1>4

LEMMA StepReplacing == Known /\ Viewed /\ Replacing /\ [Next]_vars => Replacing'
<1> SUFFICES ASSUME Known, Viewed, Replacing, [Next]_vars PROVE Replacing'
  OBVIOUS
<1>1. con' = con /\ DialectFor' = DialectFor /\ con \in Connections
  BY DEF Next, Register, CreateSchema, Execute, Fail, Return, Commit, Rollback, Reconnect, vars, Known, DialectFor
<1>2. ASSUME DialectFor.table_ddl
      PROVE  committed'.tables = tables' /\ ~Commit /\ ~Rollback
  <2>1. ~con.transactional /\ committed.tables = tables
    BY <1>1, <1>2, ClickHouseParts DEF Replacing
  <2>3. ASSUME CreateSchema PROVE committed'.tables = tables'
    BY <2>1, <2>3 DEF CreateSchema, Keep
  <2>4. ASSUME Execute PROVE committed'.tables = tables'
    BY <2>1, <2>4 DEF Execute, Keep
  <2>5. ASSUME Reconnect PROVE committed'.tables = tables'
    BY <2>5 DEF Reconnect
  <2>6. UNCHANGED <<tables, committed>> => committed'.tables = tables'
    BY <2>1
  <2>7. ~Commit /\ ~Rollback
    BY <2>1 DEF Commit, Rollback
  <2>8. ASSUME NEW c \in Calls(con), Register(c) PROVE UNCHANGED <<tables, committed>>
    BY <2>8 DEF Register
  <2>9. Fail \/ Return \/ UNCHANGED vars => UNCHANGED <<tables, committed>>
    BY DEF Fail, Return, vars
  <2> QED BY <2>3, <2>4, <2>5, <2>6, <2>7, <2>8, <2>9 DEF Next
<1>3. ASSUME Replaces' PROVE Phase'
  <2>1. DialectFor.table_ddl
    BY <1>1, <1>3 DEF Replaces
  <2>2. ASSUME NEW c \in Calls(con), Register(c) PROVE Phase'
    BY <1>3, <2>2, RegisterReplaces
  <2>3. ASSUME call # NoCall, call'.of = call.of PROVE Replaces /\ Phase
    BY <1>1, <1>3, <2>3 DEF Replaces, Replacing
  <2>4. CASE CreateSchema \/ Execute \/ Fail \/ Return
    <3>1. call # NoCall /\ DOMAIN call = CallFields
      BY <2>4 DEF CreateSchema, Execute, Fail, Return, Started, Running, Known
    <3>2. call'.of = call.of
      BY <2>4, <3>1 DEF CreateSchema, Execute, Fail, Return, CallFields
    <3> QED BY <1>3, <2>3, <2>4, <3>1, <3>2, SchemaReplaces, ExecuteReplaces, FailReplaces, ReturnReplaces
  <2>5. CASE Reconnect
    <3>1. Running
      BY <1>3, <2>5 DEF Reconnect, Replaces
    <3>2. call # NoCall /\ DOMAIN call = CallFields /\ call' = [call EXCEPT !.outcome = "lost", !.todo = << >>]
      BY <2>5, <3>1 DEF Reconnect, Running, Known
    <3>3. call'.of = call.of
      BY <3>2 DEF CallFields
    <3> QED BY <1>3, <2>3, <2>5, <3>2, <3>3, ReconnectReplaces
  <2>6. CASE UNCHANGED vars
    <3>1. Replaces /\ Phase
      BY <1>3, <2>3, <2>6 DEF vars, Replaces
    <3>2. SameCall /\ tables' = tables /\ default' = default /\ call' = call
      BY <2>6 DEF vars, SameCall
    <3>3. InProgram => InProgram'
      <4>1. \A i, j : Stage(i, j) => Stage(i, j)'
        <5>1. \A i, b : Filled(i, b) => Filled(i, b)'
          <6>1. \A i : TableOf(i)' = TableOf(i) /\ BatchesOf(i)' = BatchesOf(i)
            BY <3>2, NamesStay
          <6>2. \A i : Key(Staging(TableOf(i)))' = Key(Staging(TableOf(i)))
            <7>1. \A t : Key(t)' = Key(t)
              BY <3>2 DEF Key, Spelled, SameCall
            <7>2. \A i : Staging(TableOf(i))' = Staging(TableOf(i))
              BY <6>1 DEF Staging
            <7> QED BY <3>2, <7>1, <7>2 DEF Key, Spelled, SameCall
          <6> QED BY <3>2, <6>1, <6>2 DEF Filled
        <5>2. \A i : (Untouched(i) => Untouched(i)') /\ (Settled(i) => Settled(i)')
          BY <3>2, SparedGroup DEF Spared
        <5> QED BY <3>2, <5>1, <5>2, NamesStay DEF Stage
      <4> QED BY <3>2, <4>1, NamesStay DEF InProgram
    <3>4. (AllSettled => AllSettled') /\ (Tidying => Tidying')
      BY <3>2, SparedCall
    <3>5. KeptSettled => KeptSettled'
      BY <3>2, NamesStay DEF KeptSettled, Atomic, AsBefore
    <3> QED BY <3>1, <3>2, <3>3, <3>4, <3>5, NamesClashStays DEF Phase, SameCall
  <2> QED BY <1>2, <2>1, <2>2, <2>4, <2>5, <2>6 DEF Next
<1> QED BY <1>1, <1>2, <1>3 DEF Replacing

(* The table of a group is where its rows are looked for. *)
LEMMA ReplacingSettles == Known /\ Replacing => ReplaceIsAtomic
<1> SUFFICES ASSUME Known, Replacing, Replaces, call.outcome # "naming", NEW i \in DOMAIN call.of.groups
             PROVE  \/ Same(committed.tables, Target(i))
                    \/ Whole(committed.tables, i)
                    \/ Target(i) \notin DOMAIN call.before /\ committed.tables[Target(i)].rows = << >>
  BY DEF ReplaceIsAtomic, Replaces
<1> DEFINE c == call.of
           k == Target(i)
<1>1. /\ con \in Connections /\ c \in Calls(con) /\ con.adapter = "adbc" /\ Phase
      /\ committed.tables = tables /\ c.mode = "replace" /\ ~c.temporary
  BY ClickHouseParts DEF Known, Replaces, Replacing
<1>2. i \in Groups
  BY <1>1, GroupTypes, SequenceParts DEF Groups
<1>3. k = Key(TableOf(i))
  <2>1. CASE call.in_schema
    <3>1. Mixed(c)
      BY <1>1, <2>1 DEF Phase
    <3>2. TableOf(i) = <<c.name, Group(c, i)>>
      BY <2>1, <3>1 DEF TableOf, Place, GroupTable
    <3>3. k = Key(<<c.name, Group(c, i)>>)
      BY <1>1, <2>1 DEF Target
    <3> QED BY <3>2, <3>3
  <2>2. CASE ~call.in_schema
    <3> DEFINE flat == IF Mixed(c) THEN Joined(c.name, Group(c, i)) ELSE c.name
    <3>1. TableOf(i) = <<NoSchema, flat>>
      BY <2>2 DEF TableOf, Place, GroupTable
    <3>2. k = Key(<<NoSchema, flat>>)
      BY <1>1, <2>2 DEF Target
    <3> QED BY <3>1, <3>2
  <2> QED BY <2>1, <2>2
<1>4. RowsOf(i) = BatchesOf(i)
  BY <1>1 DEF RowsOf, Appends, BatchesOf
<1>5. k[2] = NameOf(i)
  <2>1. TableOf(i)[2] = GroupTable(c, call.in_schema, i)
    BY DEF TableOf, Place
  <2> QED BY <1>3, <2>1, KeyName DEF NameOf, Name
<1>6. call.outcome = "lost" => k[1] # "temp"
  <2> SUFFICES ASSUME call.outcome = "lost" PROVE k[1] # "temp"
    OBVIOUS
  <2>1. default # "temp" /\ \A t \in DOMAIN tables : t[1] # "temp"
    BY <1>1 DEF Phase
  <2>2. c.name # "temp"
    BY <1>1, NamesAssumption
  <2>3. TableOf(i)[1] = NoSchema \/ TableOf(i)[1] = c.name
    BY DEF TableOf, Place
  <2> QED BY <1>3, <2>1, <2>2, <2>3 DEF Key
<1> HIDE DEF k
<1>7. Atomic(k, i)
  BY <1>1, <1>2, <1>5, <1>6 DEF Phase, AllSettled, Settled, KeptSettled
<1> QED BY <1>1, <1>4, <1>7 DEF Atomic, AsBefore, Same, Whole, k

(* Others see the old rows of a table that is replaced, all of the new ones,  *)
(* or a new table that is empty: at every statement of the call, at every     *)
(* failure, and wherever the connection is lost. It takes that the names of   *)
(* the tables of a Dataset, and those of their staging tables, are different. *)
THEOREM ReplacingIsAtomic == Spec => []ReplaceIsAtomic
<1>1. Init => Replacing
  BY DEF Init, Replacing, Replaces
<1>2. Known /\ Viewed /\ Replacing /\ [Next]_vars => Replacing'
  BY StepReplacing
<1>3. Known /\ Replacing => ReplaceIsAtomic
  BY ReplacingSettles
<1>4. Spec => []Viewed
  BY InitViewed, StepViewed, CallsAreGuarded, PTL DEF Spec
<1> QED BY <1>1, <1>2, <1>3, <1>4, CallsAreGuarded, PTL DEF Spec
=============================================================================
