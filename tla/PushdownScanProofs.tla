-------------------------- MODULE PushdownScanProofs --------------------------
(* Proofs about the scans of the pushdown dataset: the chunks that pruning    *)
(* drops hold no row of the filter, the blocks that are read are those of the *)
(* chunks that are kept, merged or not, a count is of the rows on which its   *)
(* filter holds, and the shadows stay what they were made from.               *)
EXTENDS PushdownScan, DataInduction

-----------------------------------------------------------------------------
(* Choosing the members of a sequence that are in a set, in order: at gives   *)
(* the place each of them comes from.                                         *)
Chooses(q, at, s, kept, n) ==
  /\ AnySeq(q) /\ at \in [1 .. Len(q) -> 1 .. n]
  /\ \A m \in 1 .. Len(q) : q[m] = s[at[m]] /\ s[at[m]] \in kept
  /\ \A l, m \in 1 .. Len(q) : l < m => at[l] < at[m]
  /\ \A i \in 1 .. n : s[i] \in kept => \E m \in 1 .. Len(q) : at[m] = i

LEMMA ChooseOne ==
  ASSUME NEW s, NEW kept, NEW n \in Nat, NEW q, NEW at, Chooses(q, at, s, kept, n),
         NEW r, r = IF s[n + 1] \in kept THEN Append(q, s[n + 1]) ELSE q
  PROVE  \E to : Chooses(r, to, s, kept, n + 1)
<1>1. AnySeq(q) /\ Len(q) \in Nat /\ at \in [1 .. Len(q) -> 1 .. n]
  BY SequenceParts DEF Chooses
<1>2. CASE s[n + 1] \notin kept
  <2>1. r = q /\ \A i \in 1 .. n + 1 : s[i] \in kept => i \in 1 .. n
    BY <1>2
  <2>2. at \in [1 .. Len(q) -> 1 .. n + 1]
    BY <1>1
  <2>3. Chooses(r, at, s, kept, n + 1)
    BY <2>1, <2>2 DEF Chooses
  <2> QED BY <2>3
<1>3. CASE s[n + 1] \in kept
  <2> DEFINE L == Len(q)
             to == [m \in 1 .. L + 1 |-> IF m <= L THEN at[m] ELSE n + 1]
  <2>1. r = Append(q, s[n + 1])
    BY <1>3
  <2>2. /\ AnySeq(r) /\ Len(r) = L + 1 /\ r[L + 1] = s[n + 1]
        /\ \A m \in 1 .. L : r[m] = q[m]
    BY <1>1, <2>1, AppendedSequence
  <2>3. /\ to \in [1 .. L + 1 -> 1 .. n + 1] /\ to[L + 1] = n + 1
        /\ \A m \in 1 .. L : to[m] = at[m] /\ at[m] \in 1 .. n
    BY <1>1
  <2>4. \A m \in 1 .. L : q[m] = s[at[m]] /\ s[at[m]] \in kept
    BY DEF Chooses
  <2>5. \A l, m \in 1 .. L : l < m => at[l] < at[m]
    BY DEF Chooses
  <2>6. \A i \in 1 .. n : s[i] \in kept => \E m \in 1 .. L : at[m] = i
    BY DEF Chooses
  <2>7. L \in Nat
    BY <1>1
  <2> HIDE DEF L, to
  <2>8. \A m \in 1 .. L + 1 : m \in 1 .. L \/ m = L + 1
    BY <2>7
  <2>9. \A m \in 1 .. L + 1 : r[m] = s[to[m]] /\ s[to[m]] \in kept
    BY <1>3, <2>2, <2>3, <2>4, <2>8
  <2>10. ASSUME NEW l \in 1 .. L + 1, NEW m \in 1 .. L + 1, l < m
         PROVE  to[l] < to[m]
    <3>1. l \in 1 .. L
      BY <2>7, <2>10
    <3>2. CASE m \in 1 .. L
      BY <2>3, <2>5, <2>10, <3>1, <3>2
    <3>3. CASE m = L + 1
      <4>1. to[l] \in 1 .. n /\ to[m] = n + 1
        BY <2>3, <3>1, <3>3
      <4> QED BY <4>1
    <3> QED BY <2>8, <3>2, <3>3
  <2>11. ASSUME NEW i \in 1 .. n + 1, s[i] \in kept
         PROVE  \E m \in 1 .. L + 1 : to[m] = i
    <3>1. CASE i \in 1 .. n
      <4>1. PICK m \in 1 .. L : at[m] = i
        BY <2>6, <2>11, <3>1
      <4>2. m \in 1 .. L + 1
        BY <2>7
      <4> QED BY <2>3, <4>1, <4>2
    <3>2. CASE i = n + 1
      <4>1. L + 1 \in 1 .. L + 1
        BY <2>7
      <4> QED BY <2>3, <3>2, <4>1
    <3> QED BY <3>1, <3>2
  <2>12. Chooses(r, to, s, kept, n + 1)
    BY <2>2, <2>3, <2>9, <2>10, <2>11 DEF Chooses
  <2> QED BY <2>12
<1> QED BY <1>2, <1>3

LEMMA OnlyChooses ==
  ASSUME NEW s, AnySeq(s), NEW kept
  PROVE  \E at : Chooses(Only(s, kept), at, s, kept, Len(s))
<1> DEFINE L == Len(s)
           V == {v \in Seq(ToSet(s)) : TRUE}
           next(v, n) == IF s[n] \in kept THEN Append(v, s[n]) ELSE v
           step == [n \in 1 .. L |-> [v \in V |-> next(v, n)]]
           pick == [t \in SUBSET (1 .. L) |-> Max(t)]
           base == << >>
           Eq(it) == it = [t \in SUBSET (DOMAIN s) |->
                             IF t = {} THEN << >>
                             ELSE IF s[Max(t)] \in kept THEN Append(it[t \ {Max(t)}], s[Max(t)])
                                  ELSE it[t \ {Max(t)}]]
<1>1. L \in Nat /\ DOMAIN s = 1 .. L /\ \A n \in 1 .. L : s[n] \in ToSet(s)
  BY SequenceParts DEF ToSet
<1>2. ASSUME NEW n \in 1 .. L, NEW v \in V
      PROVE  next(v, n) \in V
  <2>1. v \in Seq(ToSet(s)) /\ s[n] \in ToSet(s)
    BY <1>1
  <2> QED BY <2>1
<1>3. base \in V
  OBVIOUS
<1>4. \A t \in SUBSET (1 .. L) : t # {} => Max(t) \in t
  <2> HIDE DEF L
  <2> QED BY <1>1, IntervalEnds
<1> HIDE DEF V, L
<1>5. PICK made \in [SUBSET (1 .. L) -> V] : Folds(made, base, L, pick, step)
  <2>1. step \in [1 .. L -> [V -> V]]
    BY <1>2
  <2>2. \A t \in SUBSET (1 .. L) : t # {} => pick[t] \in t
    BY <1>4
  <2> HIDE DEF step, pick, base
  <2> QED BY <1>1, <1>3, <2>1, <2>2, FoldExists
<1>6. Eq(made)
  <2>1. ASSUME NEW t \in SUBSET (1 .. L), t # {}
        PROVE  made[t] = next(made[t \ {Max(t)}], Max(t))
    <3>1. Max(t) \in 1 .. L /\ made[t \ {Max(t)}] \in V
      BY <1>4, <2>1
    <3>2. made[t] = step[Max(t)][made[t \ {Max(t)}]]
      <4>1. pick[t] = Max(t)
        OBVIOUS
      <4> HIDE DEF pick, step
      <4> QED BY <1>5, <2>1, <4>1 DEF Folds
    <3> HIDE DEF next
    <3> QED BY <3>1, <3>2
  <2>2. made[{}] = << >>
    BY <1>5 DEF Folds
  <2> HIDE DEF pick, step
  <2> QED BY <2>1, <2>2, <1>1
<1> DEFINE it == CHOOSE it : Eq(it)
<1>7. Eq(it)
  <2> HIDE DEF Eq
  <2> QED BY <1>6
<1>8. Only(s, kept) = it[DOMAIN s]
  BY Zenon DEF Only, FoldLeft, MapThenFoldSet
<1> HIDE DEF it
<1> DEFINE g == [n \in 0 .. L |-> it[1 .. n]]
<1>9. g[0] = << >>
  BY <1>1, <1>7
<1>10. ASSUME NEW n \in 1 .. L
       PROVE  g[n] = next(g[n - 1], n)
  <2>1. 1 .. n \in SUBSET (DOMAIN s) /\ 1 .. n # {}
    <3>1. n \in 1 .. n /\ \A i \in 1 .. n : i \in 1 .. L
      BY <1>1
    <3> QED BY <1>1, <3>1
  <2>2. Max(1 .. n) = n /\ (1 .. n) \ {n} = 1 .. n - 1
    BY <1>1, IntervalTop
  <2> DEFINE t == 1 .. n
  <2>3. it[t] = next(it[t \ {Max(t)}], Max(t))
    <3>1. t \in SUBSET (DOMAIN s) /\ t # {}
      BY <2>1
    <3> HIDE DEF t
    <3> QED BY <3>1, <1>7
  <2>4. it[1 .. n] = next(it[1 .. n - 1], n)
    BY <2>2, <2>3
  <2> QED BY <1>1, <2>4
<1>11. Only(s, kept) = g[L]
  BY <1>1, <1>8
<1> HIDE DEF g
<1> DEFINE P(n) == \E at : Chooses(g[n], at, s, kept, n)
           S == {n \in Nat : n <= L => P(n)}
<1>12. 0 \in S
  <2> DEFINE at == [m \in 1 .. 0 |-> 0]
  <2>1. AnySeq(<< >>) /\ Len(<< >>) = 0
    BY DEF AnySeq
  <2>2. at \in [1 .. 0 -> 1 .. 0]
    OBVIOUS
  <2>3. Chooses(<< >>, at, s, kept, 0)
    <3> HIDE DEF at
    <3> QED BY <2>1, <2>2 DEF Chooses
  <2> HIDE DEF at
  <2> QED BY <1>9, <2>3
<1>13. ASSUME NEW n \in S
       PROVE  n + 1 \in S
  <2> SUFFICES ASSUME n + 1 <= L
               PROVE  P(n + 1)
    OBVIOUS
  <2>1. n \in Nat /\ n + 1 \in 1 .. L /\ (n + 1) - 1 = n /\ n <= L
    BY <1>1
  <2>2. P(n)
    BY <2>1
  <2>3. PICK at : Chooses(g[n], at, s, kept, n)
    BY <2>2
  <2>4. g[n + 1] = IF s[n + 1] \in kept THEN Append(g[n], s[n + 1]) ELSE g[n]
    BY <1>10, <2>1
  <2> QED BY <2>1, <2>3, <2>4, ChooseOne
<1>14. S \in SUBSET Nat
  OBVIOUS
<1> HIDE DEF P
<1>15. L \in S
  <2> HIDE DEF S
  <2> QED BY <1>1, <1>12, <1>13, <1>14, InductiveSet
<1>16. P(L)
  BY <1>1, <1>15
<1> QED BY <1>11, <1>16 DEF P, L

-----------------------------------------------------------------------------
(* What an open dataset has: a grid, the sizes of its chunks, and where they  *)
(* begin.                                                                     *)
Opened ==
  /\ dataset \in Datasets /\ coalesce_rows \in CoalesceRows
  /\ resolved = ResolveChunks(dataset, NoChunks)
  /\ chunk_bounds = [d \in DOMAIN resolved |-> ChunkBounds(resolved[d])]

LEMMA ResolvedOpen ==
  ASSUME NEW ds, IsGrid(ds)
  PROVE  /\ Resolved(ds, ResolveChunks(ds, NoChunks))
         /\ DOMAIN ResolveChunks(ds, NoChunks) = {} => DimsOf(ds) = {}
<1> DEFINE other == IF DOMAIN StorageChunks(ds) # {} THEN StorageChunks(ds) ELSE DefaultChunks(ds, DefaultBlockRows)
<1>1. DOMAIN << >> = {}
  OBVIOUS
<1>2. ResolveChunks(ds, NoChunks) = IF DOMAIN ds.chunks # {} THEN ds.chunks ELSE ComputeChunks(ds, other)
  BY <1>1 DEF ResolveChunks
<1>3. Ints(other)
  BY LimitsAssumption, StorageInts, DefaultInts
<1> HIDE DEF other
<1>4. Resolved(ds, ds.chunks) /\ Resolved(ds, ComputeChunks(ds, other))
  BY <1>3, DaskSizes, ComputedSizes DEF Resolved, IsGrid
<1>5. DOMAIN ComputeChunks(ds, other) = DimsOf(ds)
  BY DEF ComputeChunks
<1> QED BY <1>2, <1>4, <1>5

LEMMA OpenedParts ==
  ASSUME Opened
  PROVE  /\ IsGrid(dataset) /\ coalesce_rows \in Nat /\ Resolved(dataset, resolved)
         /\ DOMAIN resolved = {} => DimsOf(dataset) = {}
         /\ \A d \in DOMAIN resolved :
              /\ d \in DimsOf(dataset) /\ dataset.size[d] \in Nat
              /\ N(d) \in Nat /\ resolved[d] \in [1 .. N(d) -> Nat]
              /\ CutsAt(Bounds(d), resolved[d], dataset.size[d])
         /\ AnySeq(GridDims) /\ Distinct(GridDims) /\ ToSet(GridDims) = DOMAIN resolved
<1>1. IsGrid(dataset) /\ coalesce_rows \in Nat
  BY TablesAssumption, FanoutAssumption DEF Opened
<1>2. Resolved(dataset, resolved) /\ (DOMAIN resolved = {} => DimsOf(dataset) = {})
  BY <1>1, ResolvedOpen DEF Opened
<1>3. ASSUME NEW d \in DOMAIN resolved
      PROVE  /\ d \in DimsOf(dataset) /\ dataset.size[d] \in Nat
             /\ N(d) \in Nat /\ resolved[d] \in [1 .. N(d) -> Nat]
             /\ CutsAt(Bounds(d), resolved[d], dataset.size[d])
  <2>1. d \in DimsOf(dataset) /\ IsSizes(resolved[d], dataset.size[d])
    BY <1>2 DEF Resolved
  <2>2. dataset.size[d] \in Nat
    BY <1>1, <2>1 DEF IsGrid
  <2>3. resolved[d] \in Seq(Nat)
    BY <2>1 DEF IsSizes
  <2>4. N(d) \in Nat /\ resolved[d] \in [1 .. N(d) -> Nat]
    BY <2>3 DEF N
  <2>5. Bounds(d) = ChunkBounds(resolved[d])
    BY DEF Opened, Bounds
  <2> QED BY <2>1, <2>2, <2>4, <2>5, BoundsCut
<1>4. AnySeq(dataset.dims) /\ Distinct(dataset.dims) /\ ToSet(dataset.dims) = DimsOf(dataset)
  BY <1>1, DimsAreDims DEF AreDims
<1>5. PICK at : Chooses(GridDims, at, dataset.dims, DOMAIN resolved, Len(dataset.dims))
  BY <1>4, OnlyChooses DEF GridDims
<1> DEFINE q == GridDims
           s == dataset.dims
<1>6. AnySeq(q) /\ Len(q) \in Nat /\ DOMAIN q = 1 .. Len(q) /\ Len(s) \in Nat /\ DOMAIN s = 1 .. Len(s)
  BY <1>4, <1>5, SequenceParts DEF Chooses
<1> HIDE DEF q, s
<1>7. Chooses(q, at, s, DOMAIN resolved, Len(s)) /\ Distinct(s) /\ ToSet(s) = DimsOf(dataset)
  BY <1>4, <1>5 DEF q, s
<1>8. ASSUME NEW l \in 1 .. Len(q), NEW m \in 1 .. Len(q), q[l] = q[m]
      PROVE  l = m
  <2>1. at[l] \in 1 .. Len(s) /\ at[m] \in 1 .. Len(s) /\ q[l] = s[at[l]] /\ q[m] = s[at[m]]
    BY <1>7 DEF Chooses
  <2>2. at[l] = at[m]
    BY <1>7, <1>8, <2>1 DEF Distinct
  <2>3. (l < m => at[l] < at[m]) /\ (m < l => at[m] < at[l])
    BY <1>7 DEF Chooses
  <2> QED BY <1>6, <2>1, <2>2, <2>3
<1>9. ToSet(q) = DOMAIN resolved
  <2>1. \A m \in 1 .. Len(q) : q[m] \in DOMAIN resolved
    BY <1>7 DEF Chooses
  <2>2. ASSUME NEW d \in DOMAIN resolved
        PROVE  \E m \in 1 .. Len(q) : q[m] = d
    <3>1. d \in ToSet(s)
      BY <1>3, <1>7
    <3>2. PICK i \in 1 .. Len(s) : s[i] = d
      BY <1>6, <3>1 DEF ToSet
    <3>3. PICK m \in 1 .. Len(q) : at[m] = i
      BY <1>7, <3>2 DEF Chooses
    <3> QED BY <1>7, <3>2, <3>3 DEF Chooses
  <2> QED BY <1>6, <2>1, <2>2 DEF ToSet
<1>10. AnySeq(GridDims) /\ Distinct(GridDims) /\ ToSet(GridDims) = DOMAIN resolved
  BY <1>6, <1>8, <1>9 DEF Distinct, q
<1> QED BY <1>1, <1>2, <1>3, <1>10

(* A position of a dimension is in a chunk.                                   *)
InChunk(d, i, x) == Bounds(d)[i] <= x /\ x < Bounds(d)[i + 1]

LEMMA ChunkOfPosition ==
  ASSUME Opened, NEW d \in DOMAIN resolved, NEW x \in Nat
  PROVE  /\ x < dataset.size[d] => \E i \in 1 .. N(d) : InChunk(d, i, x)
         /\ \A i, k \in 1 .. N(d) : InChunk(d, i, x) /\ InChunk(d, k, x) => i = k
<1>1. CutsAt(Bounds(d), resolved[d], dataset.size[d])
  BY OpenedParts
<1> QED BY <1>1 DEF CutsAt, InChunk, N

-----------------------------------------------------------------------------
(* Pruning. The range of some chunks of a dimension is one that the rows of   *)
(* these chunks are in, so a filter that holds on one of them is satisfiable. *)
IsRowOfFilter(f, cell) ==
  /\ f \in Filters /\ Refers(f) \subseteq Columns(dataset) /\ ~Rejects(f)
  /\ InBlock(dataset, WholeGrid(dataset), cell) /\ Value(f, Row(dataset, cell)) = "true"

LEMMA GuaranteeHolds ==
  ASSUME Opened, NEW f, NEW cell, IsRowOfFilter(f, cell), NEW d \in PrunableDims,
         NEW from \in Nat, NEW to \in Nat, to <= N(d), from <= to,
         Bounds(d)[from + 1] <= cell[d], cell[d] < Bounds(d)[to + 1]
  PROVE  Satisfiable(f, Guarantee(d, from, to))
<1> DEFINE row == Row(dataset, cell)
           coord == dataset.coords[d]
           a == Bounds(d)[from + 1]
           b == Bounds(d)[to + 1]
           vals == ToSet(Coords(d, from, to))
           present == {e \in DimsOf(dataset) \cap dataset.numeric : row[e] \in Int}
           ends == UNION {ToSet(dataset.coords[e]) \cap Int : e \in present}
           r == Guarantee(d, from, to)
           x == coord[cell[d] + 1]
<1>1. /\ IsGrid(dataset) /\ dataset \in Datasets /\ d \in DOMAIN resolved /\ d \in DimsOf(dataset) /\ d \in dataset.numeric
      /\ N(d) \in Nat /\ CutsAt(Bounds(d), resolved[d], dataset.size[d])
  BY OpenedParts DEF PrunableDims, Opened
<1>2. a \in Nat /\ b \in Nat /\ b <= dataset.size[d]
  <2>1. from + 1 \in 1 .. N(d) + 1 /\ to + 1 \in 1 .. N(d) + 1 /\ N(d) + 1 \in 1 .. N(d) + 1 /\ to + 1 <= N(d) + 1
    BY <1>1
  <2> QED BY <1>1, <2>1 DEF CutsAt, N
<1>3. cell[d] \in Nat /\ DOMAIN cell = DimsOf(dataset)
  BY <1>1 DEF IsRowOfFilter, InBlock
<1>4. a <= cell[d] /\ cell[d] < b
  OBVIOUS
<1>5. coord \in Seq(Int \cup {NaN, Null}) /\ Len(coord) = dataset.size[d] /\ d # DataVar
  BY <1>1, TablesAssumption
<1>6. row[d] = x
  BY <1>1, <1>5 DEF Row
<1>7. Coords(d, from, to) = SubSeq(coord, a + 1, b)
  BY DEF Coords
<1> DEFINE q == Coords(d, from, to)
<1> HIDE DEF a, b, row, q
<1>8. AnySeq(q) /\ Len(q) = b - a /\ \A i \in 1 .. b - a : q[i] = coord[a + i]
  <2>1. a <= b
    BY <1>2, <1>3, <1>4
  <2>2. q = SubSeq(coord, a + 1, b)
    BY <1>7 DEF q
  <2> HIDE DEF coord
  <2>3. /\ AnySeq(SubSeq(coord, a + 1, b)) /\ Len(SubSeq(coord, a + 1, b)) = b - a
        /\ \A i \in 1 .. b - a : SubSeq(coord, a + 1, b)[i] = coord[a + i]
    BY <1>2, <2>1, Slice
  <2> QED BY <2>2, <2>3
<1>9. DOMAIN q = 1 .. Len(q) /\ vals = {q[i] : i \in 1 .. Len(q)}
  BY <1>8, SequenceParts DEF ToSet, q
<1>10. \A i \in 1 .. b - a : q[i] \in ToSet(coord) /\ q[i] \in Int \cup {NaN, Null}
  <2> SUFFICES ASSUME NEW i \in 1 .. b - a
               PROVE  q[i] \in ToSet(coord) /\ q[i] \in Int \cup {NaN, Null}
    OBVIOUS
  <2>1. a + i \in 1 .. Len(coord)
    BY <1>2, <1>5
  <2>2. coord[a + i] \in ToSet(coord) /\ coord[a + i] \in Int \cup {NaN, Null}
    BY <1>5, <2>1 DEF ToSet
  <2> QED BY <1>8, <2>2
<1>11. x \in vals
  <2>1. (cell[d] - a) + 1 \in 1 .. b - a /\ a + ((cell[d] - a) + 1) = cell[d] + 1
    BY <1>2, <1>3, <1>4
  <2> HIDE DEF vals
  <2> QED BY <1>8, <1>9, <2>1
<1>12. r \in Around(dataset, row)
  <2>1. CASE {NaN, Null} \cap vals # {}
    <3>1. r = << >>
      BY <2>1 DEF Guarantee
    <3>2. << >> \in [{} -> ends \X ends] /\ {} \in SUBSET present
      OBVIOUS
    <3> HIDE DEF r
    <3>3. r \in {t \in [{} -> ends \X ends] : \A e \in {} : t[e][1] <= row[e] /\ row[e] <= t[e][2]}
      BY <3>1, <3>2
    <3> HIDE DEF ends
    <3>4. {t \in [{} -> ends \X ends] : \A e \in {} : t[e][1] <= row[e] /\ row[e] <= t[e][2]} \in
           {{t \in [D -> ends \X ends] : \A e \in D : t[e][1] <= row[e] /\ row[e] <= t[e][2]} : D \in SUBSET present}
      BY <3>2
    <3> QED BY <3>3, <3>4 DEF Around, ends
  <2>2. CASE {NaN, Null} \cap vals = {}
    <3>1. \A i \in 1 .. Len(q) : q[i] \in Int
      BY <1>8, <1>9, <1>10, <2>2
    <3>2. q \in Seq(Int) /\ q # << >>
      <4>1. Len(q) # 0
        BY <1>2, <1>3, <1>4, <1>8
      <4>2. q # << >>
        BY <1>8, <4>1, SequenceParts
      <4> QED BY <1>8, <3>1, <4>2, SequenceOver
    <3> DEFINE lo == Min(vals)
               hi == Max(vals)
    <3>3. lo \in vals /\ hi \in vals /\ lo <= x /\ x <= hi /\ x \in Int
      BY <1>11, <3>2, EndsOfSequence DEF q
    <3>4. r = [e \in {d} |-> <<lo, hi>>]
      BY <2>2 DEF Guarantee
    <3>5. vals \subseteq ToSet(coord) \cap Int
      BY <1>8, <1>9, <1>10, <3>1
    <3>6. d \in present
      BY <1>1, <1>6, <3>3
    <3>7. lo \in ends /\ hi \in ends
      <4> HIDE DEF present, lo, hi, vals
      <4> QED BY <3>3, <3>5, <3>6
    <3> HIDE DEF lo, hi, ends, present, r, vals
    <3>8. r \in [{d} -> ends \X ends] /\ r[d][1] = lo /\ r[d][2] = hi
      BY <3>4, <3>7
    <3>9. {d} \in SUBSET present
      BY <3>6
    <3>10. r \in {t \in [{d} -> ends \X ends] : \A e \in {d} : t[e][1] <= row[e] /\ row[e] <= t[e][2]}
      <4> HIDE DEF x
      <4> QED BY <1>6, <3>3, <3>8
    <3>11. {t \in [{d} -> ends \X ends] : \A e \in {d} : t[e][1] <= row[e] /\ row[e] <= t[e][2]} \in
            {{t \in [D -> ends \X ends] : \A e \in D : t[e][1] <= row[e] /\ row[e] <= t[e][2]} : D \in SUBSET present}
      BY <3>9
    <3> QED BY <3>10, <3>11 DEF Around, ends, present
  <2> QED BY <2>1, <2>2
<1>13. cell \in ToSet(Ravel(dataset, WholeGrid(dataset), dataset.dims))
  <2> DEFINE cells == Ravel(dataset, WholeGrid(dataset), dataset.dims)
  <2>1. /\ AnySeq(cells)
        /\ \A c : InBlock(dataset, WholeGrid(dataset), c) => \E p \in 1 .. Len(cells) : cells[p] = c
    BY <1>1, WholeIsBlock, DimsAreDims, RavelCells DEF RaveledCells
  <2> HIDE DEF cells
  <2>2. DOMAIN cells = 1 .. Len(cells)
    BY <2>1, SequenceParts
  <2>3. cell \in ToSet(cells)
    BY <2>1, <2>2 DEF ToSet, IsRowOfFilter
  <2> QED BY <2>3 DEF cells
<1> HIDE DEF r
<1> QED BY <1>1, <1>12, <1>13, SimplifierAssumption DEF IsRowOfFilter, row, r

(* The buckets of a shadow hold all of its chunks.                            *)
LEMMA BucketsCover ==
  ASSUME Opened, NEW d \in DOMAIN resolved
  PROVE  /\ \A b \in 1 .. Buckets(d) : /\ Start(d, b) \in Nat /\ Stop(d, b) \in Nat
                                       /\ Start(d, b) < Stop(d, b) /\ Stop(d, b) <= N(d)
         /\ \A i \in 1 .. N(d) : \E b \in 1 .. Buckets(d) : i \in ChunksOf(d, b)
<1> DEFINE n == N(d)
           m == Step(d)
           c == Buckets(d)
<1>1. n \in Nat
  BY OpenedParts
<1>2. m \in Nat \ {0}
  <2>1. CeilDiv(n, ShadowFanout) \in Nat
    <3> HIDE DEF n
    <3> QED BY <1>1, FanoutAssumption, Ceiling
  <2> QED BY <2>1 DEF Step, Largest
<1>3. c = CeilDiv(n, m)
  BY DEF Buckets
<1>4. \A b : Start(d, b) = (b - 1) * m /\ Stop(d, b) = Smallest(b * m, n)
  BY DEF Start, Stop
<1> HIDE DEF n, m, c
<1>5. \A b \in 1 .. c : /\ (b - 1) * m \in Nat /\ Smallest(b * m, n) \in Nat
                        /\ (b - 1) * m < Smallest(b * m, n) /\ Smallest(b * m, n) <= n
  BY <1>1, <1>2, <1>3, BatchEnds
<1>6. ASSUME NEW i \in 1 .. n
      PROVE  \E b \in 1 .. c : i \in ChunksOf(d, b)
  <2> DEFINE b == CeilDiv(i, m)
  <2>1. i \in Nat /\ i # 0 /\ i <= n
    BY <1>1
  <2>2. b \in Nat /\ i <= b * m /\ \A x \in Nat : x < b => x * m < i
    BY <1>2, <2>1, Ceiling
  <2>3. \A x \in Nat : i <= x * m => b <= x
    BY <1>2, <2>1, Ceiling
  <2>4. c \in Nat /\ n <= c * m
    BY <1>1, <1>2, <1>3, Ceiling
  <2> HIDE DEF b
  <2>5. b # 0
    <3>1. b = 0 => b * m = 0
      BY <1>2
    <3> QED BY <2>1, <2>2, <3>1
  <2>6. b \in 1 .. c
    <3>1. c * m \in Nat
      BY <1>2, <2>4
    <3>2. i <= c * m
      <4> DEFINE y == c * m
      <4>1. y \in Nat /\ n <= y
        BY <2>4, <3>1
      <4> HIDE DEF y
      <4>2. i <= y
        BY <1>1, <2>1, <4>1
      <4> QED BY <4>2 DEF y
    <3>3. b <= c
      BY <2>3, <2>4, <3>2
    <3> QED BY <2>2, <2>4, <2>5, <3>3
  <2>7. (b - 1) * m < i
    <3>1. b - 1 \in Nat /\ b - 1 < b
      BY <2>2, <2>5
    <3> QED BY <2>2, <3>1
  <2> DEFINE lo == (b - 1) * m
             hi == b * m
  <2>8. lo \in Nat /\ hi \in Nat /\ lo < i /\ i <= hi
    <3>1. b - 1 \in Nat
      BY <2>2, <2>5
    <3> QED BY <1>2, <2>2, <2>7, <3>1
  <2>9. ChunksOf(d, b) = lo + 1 .. Smallest(hi, n)
    BY <1>4 DEF ChunksOf
  <2> HIDE DEF lo, hi
  <2>10. i \in lo + 1 .. Smallest(hi, n)
    BY <1>1, <2>1, <2>8 DEF Smallest
  <2> QED BY <2>6, <2>9, <2>10
<1> QED BY <1>4, <1>5, <1>6 DEF n, m, c

(* Chunks of a dimension, in order.                                           *)
InOrderUpto(q, n) ==
  /\ AnySeq(q) /\ \A m \in 1 .. Len(q) : q[m] \in 1 .. n
  /\ \A l, m \in 1 .. Len(q) : l < m => q[l] < q[m]

IsKept(kept) ==
  kept = [d \in DOMAIN resolved |-> kept[d]] /\ \A d \in DOMAIN resolved : InOrderUpto(kept[d], N(d))

LEMMA ChunksInOrder ==
  ASSUME Opened, NEW d \in DOMAIN resolved
  PROVE  /\ N(d) \in Nat /\ InOrderUpto(Chunks(d), N(d)) /\ Len(Chunks(d)) = N(d)
         /\ \A i \in 1 .. N(d) : Chunks(d)[i] = i
         /\ ToSet(Chunks(d)) = 1 .. N(d)
<1> DEFINE n == N(d)
           q == Chunks(d)
<1>1. n \in Nat /\ q = [i \in 1 .. n |-> i]
  BY OpenedParts DEF Chunks
<1> HIDE DEF n, q
<1>2. DOMAIN q = 1 .. n /\ q = [i \in 1 .. n |-> q[i]] /\ \A i \in 1 .. n : q[i] = i
  BY <1>1
<1>3. AnySeq(q) /\ Len(q) = n
  BY <1>1, <1>2, MadeSequence
<1>4. InOrderUpto(q, n)
  BY <1>2, <1>3 DEF InOrderUpto
<1>5. ToSet(q) = 1 .. n
  BY <1>2 DEF ToSet
<1> QED BY <1>1, <1>2, <1>3, <1>4, <1>5 DEF n, q

LEMMA OnlyOfChunks ==
  ASSUME Opened, NEW d \in DOMAIN resolved, NEW kept
  PROVE  /\ InOrderUpto(Only(Chunks(d), kept), N(d))
         /\ \A i \in 1 .. N(d) : i \in kept => i \in ToSet(Only(Chunks(d), kept))
<1> DEFINE n == N(d)
           s == Chunks(d)
           q == Only(s, kept)
<1>1. n \in Nat /\ AnySeq(s) /\ Len(s) = n /\ \A i \in 1 .. n : s[i] = i
  BY ChunksInOrder DEF InOrderUpto
<1> HIDE DEF n, s
<1>2. PICK at : Chooses(q, at, s, kept, n)
  BY <1>1, OnlyChooses
<1> HIDE DEF q
<1>3. AnySeq(q) /\ Len(q) \in Nat /\ DOMAIN q = 1 .. Len(q)
  BY <1>2, SequenceParts DEF Chooses
<1>4. \A m \in 1 .. Len(q) : at[m] \in 1 .. n /\ q[m] = at[m]
  <2>1. \A m \in 1 .. Len(q) : at[m] \in 1 .. n /\ q[m] = s[at[m]]
    BY <1>2 DEF Chooses
  <2> QED BY <1>1, <2>1
<1>5. \A l, m \in 1 .. Len(q) : l < m => at[l] < at[m]
  BY <1>2 DEF Chooses
<1>6. InOrderUpto(q, n)
  BY <1>3, <1>4, <1>5 DEF InOrderUpto
<1>7. ASSUME NEW i \in 1 .. n, i \in kept
      PROVE  i \in ToSet(q)
  <2>1. PICK m \in 1 .. Len(q) : at[m] = i
    BY <1>1, <1>2, <1>7 DEF Chooses
  <2> QED BY <1>3, <1>4, <2>1 DEF ToSet
<1> QED BY <1>6, <1>7 DEF n, s, q

LEMMA PruneIsKept ==
  ASSUME Opened, NEW f, NEW shadows
  PROVE  IsKept(Prune(f, shadows))
<1> DEFINE kept == Prune(f, shadows)
<1>1. kept = [d \in DOMAIN resolved |-> kept[d]]
  BY DEF Prune
<1>2. ASSUME NEW d \in DOMAIN resolved
      PROVE  InOrderUpto(kept[d], N(d))
  <2>1. kept[d] = Chunks(d) \/ kept[d] = KeptChunks(d, f, shadows)
    BY DEF Prune
  <2>2. InOrderUpto(Chunks(d), N(d))
    BY ChunksInOrder
  <2>3. InOrderUpto(KeptChunks(d, f, shadows), N(d))
    BY OnlyOfChunks DEF KeptChunks
  <2> HIDE DEF kept
  <2> QED BY <2>1, <2>2, <2>3
<1> HIDE DEF kept
<1> QED BY <1>1, <1>2 DEF IsKept, kept

(* The shadows are what they would be computed to be again.                   *)
ShadowsCurrent == \A key \in DOMAIN fine : fine[key] = FineShadow(key[1], key[2])

LEMMA RefinedCurrent ==
  ASSUME ShadowsCurrent, NEW f
  PROVE  /\ \A key \in DOMAIN Refined(f) : Refined(f)[key] = FineShadow(key[1], key[2])
         /\ ~Rejects(f) => Needed(f) \subseteq DOMAIN Refined(f)
<1>1. CASE Rejects(f)
  BY <1>1 DEF Refined, ShadowsCurrent
<1>2. CASE ~Rejects(f)
  <2> DEFINE new == [key \in Needed(f) |-> FineShadow(key[1], key[2])]
             all == DOMAIN fine \cup DOMAIN new
  <2>1. Refined(f) = [key \in all |-> IF key \in DOMAIN fine THEN fine[key] ELSE new[key]]
    BY <1>2 DEF Refined, Extended
  <2>2. DOMAIN new = Needed(f) /\ \A key \in Needed(f) : new[key] = FineShadow(key[1], key[2])
    OBVIOUS
  <2>3. \A key \in DOMAIN fine : fine[key] = FineShadow(key[1], key[2])
    BY DEF ShadowsCurrent
  <2> HIDE DEF new
  <2> QED BY <2>1, <2>2, <2>3
<1> QED BY <1>1, <1>2

LEMMA KeptHoldsRow ==
  ASSUME Opened, ShadowsCurrent, NEW f, NEW cell, IsRowOfFilter(f, cell),
         NEW d \in PrunableDims, NEW i \in 1 .. N(d), InChunk(d, i, cell[d])
  PROVE  i \in ToSet(KeptChunks(d, f, Refined(f)))
<1> DEFINE shadows == Refined(f)
           buckets == CoarseBuckets(d, f)
           kept == UNION {IF Refines(d, buckets) THEN FineChunks(d, f, b, shadows[<<d, b>>]) ELSE ChunksOf(d, b) :
                            b \in buckets}
<1>1. d \in DOMAIN resolved /\ N(d) \in Nat /\ CutsAt(Bounds(d), resolved[d], dataset.size[d])
  BY OpenedParts DEF PrunableDims
<1>2. PICK b \in 1 .. Buckets(d) : i \in ChunksOf(d, b)
  BY <1>1, BucketsCover
<1> DEFINE from == Start(d, b)
           to == Stop(d, b)
<1>3. /\ from \in Nat /\ to \in Nat /\ from < to /\ to <= N(d)
      /\ i \in Nat /\ from < i /\ i <= to
  <2>1. from \in Nat /\ to \in Nat /\ from < to /\ to <= N(d)
    BY <1>1, BucketsCover
  <2>2. i \in from + 1 .. to
    BY <1>2 DEF ChunksOf
  <2> HIDE DEF from, to
  <2> QED BY <2>1, <2>2
<1> HIDE DEF from, to
<1>4. Bounds(d)[i] <= cell[d] /\ cell[d] < Bounds(d)[i + 1]
  BY DEF InChunk
<1>5. cell[d] \in Nat
  <2>1. d \in DimsOf(dataset)
    BY <1>1, OpenedParts
  <2> QED BY <2>1 DEF IsRowOfFilter, InBlock
<1>6. Bounds(d)[from + 1] <= cell[d] /\ cell[d] < Bounds(d)[to + 1]
  <2>1. /\ from + 1 \in 1 .. N(d) + 1 /\ to + 1 \in 1 .. N(d) + 1
        /\ i \in 1 .. N(d) + 1 /\ i + 1 \in 1 .. N(d) + 1
        /\ from + 1 <= i /\ i + 1 <= to + 1
    BY <1>1, <1>3
  <2>2. /\ \A j \in 1 .. N(d) + 1 : Bounds(d)[j] \in Nat
        /\ \A j, k \in 1 .. N(d) + 1 : j <= k => Bounds(d)[j] <= Bounds(d)[k]
    BY <1>1 DEF CutsAt, N
  <2> DEFINE p == Bounds(d)[from + 1]
             q == Bounds(d)[i]
             r == Bounds(d)[i + 1]
             s == Bounds(d)[to + 1]
  <2>3. p \in Nat /\ q \in Nat /\ r \in Nat /\ s \in Nat /\ p <= q /\ r <= s
    BY <2>1, <2>2
  <2>4. q <= cell[d] /\ cell[d] < r
    BY <1>4
  <2> HIDE DEF p, q, r, s
  <2>5. p <= cell[d] /\ cell[d] < s
    BY <1>5, <2>3, <2>4
  <2> QED BY <2>5 DEF p, s
<1>7. Satisfiable(f, Guarantee(d, from, to))
  <2>1. from <= to
    BY <1>3
  <2> QED BY <1>3, <1>6, <2>1, GuaranteeHolds
<1>8. b \in buckets
  BY <1>7 DEF CoarseBuckets, from, to
<1> DEFINE q == KeptChunks(d, f, shadows)
<1>9. q = Only(Chunks(d), kept)
  BY DEF KeptChunks
<1> HIDE DEF q
<1>10. CASE ~Refines(d, buckets)
  <2>1. i \in kept
    <3> HIDE DEF buckets
    <3> QED BY <1>2, <1>8, <1>10
  <2> HIDE DEF kept
  <2> QED BY <1>1, <1>9, <2>1, OnlyOfChunks DEF q
<1>11. CASE Refines(d, buckets)
  <2>1. <<d, b>> \in Needed(f)
    BY <1>8, <1>11 DEF Needed
  <2>2. shadows[<<d, b>>] = FineShadow(d, b)
    <3>1. ~Rejects(f) /\ <<d, b>>[1] = d /\ <<d, b>>[2] = b
      BY DEF IsRowOfFilter
    <3> QED BY <2>1, <3>1, RefinedCurrent
  <2>3. FineShadow(d, b)[i - from] = Guarantee(d, i - 1, i)
    <3>1. i - from \in 1 .. to - from /\ (from + (i - from)) - 1 = i - 1 /\ from + (i - from) = i
      BY <1>3
    <3> DEFINE j == i - from
    <3>2. j \in 1 .. Stop(d, b) - Start(d, b) /\ Start(d, b) + (j - 1) = i - 1 /\ Start(d, b) + j = i
      <4>1. j \in 1 .. to - from /\ from + (j - 1) = i - 1 /\ from + j = i
        BY <1>3
      <4> QED BY <4>1 DEF from, to
    <3> HIDE DEF j
    <3>3. FineShadow(d, b)[j] = Guarantee(d, Start(d, b) + (j - 1), Start(d, b) + j)
      BY <3>2 DEF FineShadow
    <3> QED BY <3>2, <3>3 DEF j
  <2>4. Satisfiable(f, Guarantee(d, i - 1, i))
    <3>1. i - 1 \in Nat /\ i <= N(d) /\ i - 1 <= i /\ (i - 1) + 1 = i
      BY <1>1, <1>3
    <3> QED BY <1>3, <1>4, <3>1, GuaranteeHolds
  <2>5. i \in FineChunks(d, f, b, shadows[<<d, b>>])
    BY <1>2, <2>2, <2>3, <2>4 DEF FineChunks, from
  <2>6. i \in kept
    <3> HIDE DEF buckets, shadows
    <3> QED BY <1>8, <1>11, <2>5
  <2> HIDE DEF kept
  <2> QED BY <1>1, <1>9, <2>6, OnlyOfChunks DEF q
<1> QED BY <1>10, <1>11

(* No filter that names columns of the table loses a row to pruning: every    *)
(* chunk of a row on which it holds is kept.                                  *)
THEOREM PruningKeepsRows ==
  ASSUME Opened, ShadowsCurrent, NEW f \in Bindable \cup {NoFilter},
         NEW cell, InBlock(dataset, WholeGrid(dataset), cell), Holds(f, cell),
         NEW d \in DOMAIN resolved, NEW i \in 1 .. N(d), InChunk(d, i, cell[d])
  PROVE  i \in ToSet(Kept(f)[d])
<1>1. CASE f = NoFilter \/ d \notin PrunableDims \/ Rejects(f)
  <2>1. Kept(f)[d] = Chunks(d)
    BY <1>1 DEF Kept, Prune
  <2> QED BY <2>1, ChunksInOrder
<1>2. CASE f # NoFilter /\ d \in PrunableDims /\ ~Rejects(f)
  <2>1. Kept(f)[d] = KeptChunks(d, f, Refined(f))
    BY <1>2 DEF Kept, Prune, Asked
  <2>2. IsRowOfFilter(f, cell)
    BY <1>2 DEF IsRowOfFilter, Bindable, Holds
  <2> QED BY <1>2, <2>1, <2>2, KeptHoldsRow
<1> QED BY <1>1, <1>2

-----------------------------------------------------------------------------
(* Blocks. A choice gives each dimension of the grid some chunks of it, and   *)
(* a combination of it one of them.                                           *)
IsChoice(kept) ==
  kept = [d \in DOMAIN resolved |-> kept[d]] /\ \A d \in DOMAIN resolved : AnySeq(kept[d]) /\ Distinct(kept[d])

IsCombo(combo, kept) ==
  /\ DOMAIN combo = DOMAIN resolved /\ combo = [d \in DOMAIN resolved |-> combo[d]]
  /\ \A d \in DOMAIN resolved : combo[d] \in ToSet(kept[d])

LEMMA KeptIsChoice ==
  ASSUME Opened, NEW kept, IsKept(kept)
  PROVE  IsChoice(kept)
<1>1. ASSUME NEW d \in DOMAIN resolved
      PROVE  AnySeq(kept[d]) /\ Distinct(kept[d])
  <2> DEFINE q == kept[d]
  <2>1. InOrderUpto(q, N(d)) /\ N(d) \in Nat
    BY OpenedParts DEF IsKept
  <2> HIDE DEF q
  <2>2. Len(q) \in Nat
    BY <2>1, SequenceParts DEF InOrderUpto
  <2>3. ASSUME NEW l \in 1 .. Len(q), NEW m \in 1 .. Len(q), q[l] = q[m]
        PROVE  l = m
    <3>1. q[l] \in Int /\ q[m] \in Int /\ (l < m => q[l] < q[m]) /\ (m < l => q[m] < q[l])
      BY <2>1 DEF InOrderUpto
    <3> QED BY <2>2, <2>3, <3>1
  <2> QED BY <2>1, <2>3 DEF InOrderUpto, Distinct, q
<1> QED BY <1>1 DEF IsKept, IsChoice

LEMMA CombosOfChoice ==
  ASSUME Opened, NEW kept, IsChoice(kept)
  PROVE  /\ AnySeq(Combos(kept)) /\ Distinct(Combos(kept))
         /\ \A p \in 1 .. Len(Combos(kept)) : IsCombo(Combos(kept)[p], kept)
         /\ \A combo : IsCombo(combo, kept) => \E p \in 1 .. Len(Combos(kept)) : Combos(kept)[p] = combo
<1> DEFINE names == GridDims
           L == Len(names)
           combos == Combos(kept)
           shape == [k \in 1 .. L |-> Len(kept[names[k]])]
           st == ShapeStrides(shape, L)
<1>1. AnySeq(names) /\ Distinct(names) /\ ToSet(names) = DOMAIN resolved
  BY OpenedParts
<1>2. L \in Nat /\ DOMAIN names = 1 .. L
  BY <1>1, SequenceParts
<1>3. combos = Combinations(names, kept)
  BY DEF Combos
<1> HIDE DEF names, combos
<1>4. /\ \A k \in 1 .. L : names[k] \in DOMAIN resolved
      /\ \A d \in DOMAIN resolved : \E k \in 1 .. L : names[k] = d
  BY <1>1, <1>2 DEF ToSet
<1>5. \A k \in 1 .. L : AnySeq(kept[names[k]]) /\ Distinct(kept[names[k]])
  BY <1>4 DEF IsChoice
<1>6. HasChoices(names, kept)
  BY <1>1, <1>5 DEF HasChoices
<1>7. shape \in [1 .. L -> Nat]
  BY <1>5, SequenceParts
<1>8. \A k \in 1 .. L : shape[k] = Len(kept[names[k]])
  OBVIOUS
<1> HIDE DEF shape
<1>9. Strides(st, shape, L)
  <2> HIDE DEF L
  <2> QED BY <1>2, <1>7, StridesOfShape
<1> HIDE DEF st
<1>10. AllCombinations(combos, names, kept, shape, st)
  BY <1>1, <1>3, <1>6, <1>8, <1>9, CombinationsAreAll
<1>11. NamesUpto(names, L) = DOMAIN resolved
  BY <1>4 DEF NamesUpto
<1>12. \A d \in DOMAIN resolved : DOMAIN kept[d] = 1 .. Len(kept[d])
  BY SequenceParts DEF IsChoice
<1>13. ASSUME NEW combo
       PROVE  Combination(combo, names, kept, L) <=> IsCombo(combo, kept)
  <2>1. ASSUME Combination(combo, names, kept, L)
        PROVE  IsCombo(combo, kept)
    <3>1. DOMAIN combo = DOMAIN resolved /\ combo = [d \in DOMAIN resolved |-> combo[d]]
      BY <1>11, <2>1 DEF Combination
    <3>2. ASSUME NEW d \in DOMAIN resolved
          PROVE  combo[d] \in ToSet(kept[d])
      <4>1. PICK k \in 1 .. L : names[k] = d
        BY <1>4
      <4>2. PICK j \in 1 .. Len(kept[names[k]]) : combo[names[k]] = kept[names[k]][j]
        BY <2>1 DEF Combination
      <4> QED BY <1>12, <4>1, <4>2 DEF ToSet
    <3> QED BY <3>1, <3>2 DEF IsCombo
  <2>2. ASSUME IsCombo(combo, kept)
        PROVE  Combination(combo, names, kept, L)
    <3>1. DOMAIN combo = NamesUpto(names, L) /\ combo = [x \in NamesUpto(names, L) |-> combo[x]]
      BY <1>11, <2>2 DEF IsCombo
    <3>2. ASSUME NEW k \in 1 .. L
          PROVE  \E j \in 1 .. Len(kept[names[k]]) : combo[names[k]] = kept[names[k]][j]
      <4>1. names[k] \in DOMAIN resolved
        BY <1>4
      <4>2. combo[names[k]] \in ToSet(kept[names[k]])
        BY <2>2, <4>1 DEF IsCombo
      <4> QED BY <1>12, <4>1, <4>2 DEF ToSet
    <3> QED BY <3>1, <3>2 DEF Combination
  <2> QED BY <2>1, <2>2
<1>14. AnySeq(combos) /\ Distinct(combos)
  BY <1>5, <1>10 DEF AllCombinations
<1>15. \A p \in 1 .. Len(combos) : IsCombo(combos[p], kept)
  <2>1. \A p \in 1 .. Len(combos) : Combination(combos[p], names, kept, L)
    BY <1>10 DEF AllCombinations, InOrder
  <2> QED BY <1>13, <2>1
<1>16. \A combo : IsCombo(combo, kept) => \E p \in 1 .. Len(combos) : combos[p] = combo
  <2>1. \A c : Combination(c, names, kept, L) => \E p \in 1 .. Len(combos) : combos[p] = c
    BY <1>10 DEF AllCombinations
  <2> QED BY <1>13, <2>1
<1> QED BY <1>14, <1>15, <1>16 DEF combos

(* A block that is sliced in the dimensions of the grid.                      *)
LEMMA SlicedBlock ==
  ASSUME Opened, NEW lo, NEW hi,
         \A d \in DOMAIN resolved : /\ lo[d] \in Nat /\ hi[d] \in Nat
                                    /\ lo[d] <= hi[d] /\ hi[d] <= dataset.size[d],
         NEW block, block = [d \in DimsOf(dataset) |-> IF d \in DOMAIN resolved THEN <<lo[d], hi[d]>> ELSE Full]
  PROVE  /\ IsBlock(dataset, block)
         /\ \A c : InBlock(dataset, block, c) <=>
              /\ InBlock(dataset, WholeGrid(dataset), c)
              /\ \A d \in DOMAIN resolved : lo[d] <= c[d] /\ c[d] < hi[d]
<1>1. IsGrid(dataset) /\ DOMAIN resolved \subseteq DimsOf(dataset)
  BY OpenedParts
<1>2. \A d \in DOMAIN resolved : /\ block[d] = <<lo[d], hi[d]>> /\ block[d] # Full
                                 /\ block[d][1] = lo[d] /\ block[d][2] = hi[d]
  <2>1. \A a, b : <<a, b>> # << >> /\ <<a, b>>[1] = a /\ <<a, b>>[2] = b
    OBVIOUS
  <2> QED BY <1>1, <2>1 DEF Full
<1>3. \A d \in DimsOf(dataset) \ DOMAIN resolved : block[d] = Full
  OBVIOUS
<1>4. DOMAIN block = DimsOf(dataset)
  OBVIOUS
<1>5. IsBlock(dataset, block)
  BY <1>2, <1>3, <1>4 DEF IsBlock
<1>6. \A d \in DOMAIN resolved : \A x : InSlice(x, block[d], dataset.size[d]) <=> lo[d] <= x /\ x < hi[d]
  BY <1>2 DEF InSlice, From, To
<1>7. \A d \in DimsOf(dataset) \ DOMAIN resolved : \A x \in Nat :
        InSlice(x, block[d], dataset.size[d]) <=> x < dataset.size[d]
  BY <1>3 DEF InSlice, From, To
<1>8. ASSUME NEW c
      PROVE  InBlock(dataset, block, c) <=>
               /\ InBlock(dataset, WholeGrid(dataset), c)
               /\ \A d \in DOMAIN resolved : lo[d] <= c[d] /\ c[d] < hi[d]
  <2> DEFINE A == DOMAIN c = DimsOf(dataset) /\ c = [d \in DimsOf(dataset) |-> c[d]]
  <2>1. InBlock(dataset, block, c) <=>
          A /\ \A d \in DimsOf(dataset) : c[d] \in Nat /\ InSlice(c[d], block[d], dataset.size[d])
    BY <1>1, <1>5, InBlockSlices
  <2>2. InBlock(dataset, WholeGrid(dataset), c) <=>
          A /\ \A d \in DimsOf(dataset) : c[d] \in Nat /\ c[d] < dataset.size[d]
    BY <1>1, WholeIsBlock
  <2> HIDE DEF A
  <2>3. \A d \in DOMAIN resolved : c[d] \in Nat /\ lo[d] <= c[d] /\ c[d] < hi[d] => c[d] < dataset.size[d]
    <3> SUFFICES ASSUME NEW d \in DOMAIN resolved, c[d] \in Nat, c[d] < hi[d]
                 PROVE  c[d] < dataset.size[d]
      OBVIOUS
    <3>1. hi[d] \in Nat /\ hi[d] <= dataset.size[d] /\ dataset.size[d] \in Nat
      BY OpenedParts
    <3> QED BY <3>1
  <2>4. ASSUME InBlock(dataset, block, c)
        PROVE  /\ InBlock(dataset, WholeGrid(dataset), c)
               /\ \A d \in DOMAIN resolved : lo[d] <= c[d] /\ c[d] < hi[d]
    <3>1. A /\ \A d \in DimsOf(dataset) : c[d] \in Nat /\ InSlice(c[d], block[d], dataset.size[d])
      BY <2>1, <2>4
    <3>2. \A d \in DOMAIN resolved : c[d] \in Nat /\ lo[d] <= c[d] /\ c[d] < hi[d]
      BY <1>1, <1>6, <3>1
    <3>3. \A d \in DimsOf(dataset) : c[d] \in Nat /\ c[d] < dataset.size[d]
      BY <1>7, <2>3, <3>1, <3>2
    <3> QED BY <2>2, <3>1, <3>2, <3>3
  <2>5. ASSUME InBlock(dataset, WholeGrid(dataset), c),
               \A d \in DOMAIN resolved : lo[d] <= c[d] /\ c[d] < hi[d]
        PROVE  InBlock(dataset, block, c)
    <3>1. A /\ \A d \in DimsOf(dataset) : c[d] \in Nat /\ c[d] < dataset.size[d]
      BY <2>2, <2>5
    <3>2. \A d \in DimsOf(dataset) : InSlice(c[d], block[d], dataset.size[d])
      BY <1>6, <1>7, <2>5, <3>1
    <3> QED BY <2>1, <3>1, <3>2
  <2> QED BY <2>4, <2>5
<1> QED BY <1>5, <1>8

(* Where the chunks from .. to of a dimension begin and end.                  *)
LEMMA ChunkEnds ==
  ASSUME Opened, NEW d \in DOMAIN resolved, NEW from \in 1 .. N(d), NEW to \in from .. N(d)
  PROVE  /\ Bounds(d)[from] \in Nat /\ Bounds(d)[to + 1] \in Nat
         /\ Bounds(d)[from] <= Bounds(d)[to + 1] /\ Bounds(d)[to + 1] <= dataset.size[d]
         /\ \A i \in from .. to : /\ Bounds(d)[from] <= Bounds(d)[i] /\ Bounds(d)[i + 1] <= Bounds(d)[to + 1]
                                  /\ Bounds(d)[i] \in Nat /\ Bounds(d)[i + 1] \in Nat
<1>1. N(d) \in Nat /\ CutsAt(Bounds(d), resolved[d], dataset.size[d])
  BY OpenedParts
<1> DEFINE n == N(d)
           b == Bounds(d)
<1>2. /\ \A j \in 1 .. n + 1 : b[j] \in Nat
      /\ \A j, k \in 1 .. n + 1 : j <= k => b[j] <= b[k]
      /\ b[n + 1] = dataset.size[d]
  BY <1>1 DEF CutsAt, N
<1>3. n \in Nat /\ from \in 1 .. n /\ to \in from .. n
  BY <1>1
<1> HIDE DEF n, b
<1>4. from \in 1 .. n + 1 /\ to + 1 \in 1 .. n + 1 /\ n + 1 \in 1 .. n + 1 /\ from <= to + 1 /\ to + 1 <= n + 1
  BY <1>3
<1>5. \A i \in from .. to : i \in 1 .. n + 1 /\ i + 1 \in 1 .. n + 1 /\ from <= i /\ i + 1 <= to + 1
  BY <1>3
<1>6. /\ b[from] \in Nat /\ b[to + 1] \in Nat /\ b[from] <= b[to + 1] /\ b[to + 1] <= dataset.size[d]
  BY <1>2, <1>4
<1>7. \A i \in from .. to : b[from] <= b[i] /\ b[i + 1] <= b[to + 1] /\ b[i] \in Nat /\ b[i + 1] \in Nat
  BY <1>2, <1>4, <1>5
<1> QED BY <1>6, <1>7 DEF b

(* Blocks that hold each cell of the chunks that are kept once, and no other. *)
KeptCell(kept, c) ==
  /\ InBlock(dataset, WholeGrid(dataset), c)
  /\ \A d \in DOMAIN resolved : \E i \in ToSet(kept[d]) : InChunk(d, i, c[d])

IsTiling(blocks, kept) ==
  /\ AnySeq(blocks) /\ \A p \in 1 .. Len(blocks) : IsBlock(dataset, blocks[p])
  /\ \A c : (\E p \in 1 .. Len(blocks) : InBlock(dataset, blocks[p], c)) <=> KeptCell(kept, c)
  /\ \A c : \A p, q \in 1 .. Len(blocks) :
       InBlock(dataset, blocks[p], c) /\ InBlock(dataset, blocks[q], c) => p = q

LEMMA KeptMembers ==
  ASSUME Opened, NEW kept, IsKept(kept), NEW d \in DOMAIN resolved
  PROVE  /\ AnySeq(kept[d]) /\ DOMAIN kept[d] = 1 .. Len(kept[d]) /\ Len(kept[d]) \in Nat
         /\ ToSet(kept[d]) \subseteq 1 .. N(d) /\ N(d) \in Nat
         /\ \A m \in 1 .. Len(kept[d]) : kept[d][m] \in ToSet(kept[d])
<1>1. InOrderUpto(kept[d], N(d)) /\ N(d) \in Nat
  BY OpenedParts DEF IsKept
<1>2. AnySeq(kept[d]) /\ DOMAIN kept[d] = 1 .. Len(kept[d]) /\ Len(kept[d]) \in Nat
  BY <1>1, SequenceParts DEF InOrderUpto
<1> QED BY <1>1, <1>2 DEF InOrderUpto, ToSet

LEMMA ComboBlock ==
  ASSUME Opened, NEW kept, IsKept(kept), NEW combo, IsCombo(combo, kept)
  PROVE  /\ IsBlock(dataset, BlockForCombo(combo))
         /\ \A c : InBlock(dataset, BlockForCombo(combo), c) <=>
              /\ InBlock(dataset, WholeGrid(dataset), c)
              /\ \A d \in DOMAIN resolved : InChunk(d, combo[d], c[d])
<1> DEFINE lo == [d \in DOMAIN resolved |-> Bounds(d)[combo[d]]]
           hi == [d \in DOMAIN resolved |-> Bounds(d)[combo[d] + 1]]
           block == BlockForCombo(combo)
<1>1. \A d \in DOMAIN resolved : lo[d] = Bounds(d)[combo[d]] /\ hi[d] = Bounds(d)[combo[d] + 1]
  OBVIOUS
<1>2. DOMAIN combo = DOMAIN resolved
  BY DEF IsCombo
<1>3. block = [d \in DimsOf(dataset) |-> IF d \in DOMAIN resolved THEN <<lo[d], hi[d]>> ELSE Full]
  BY <1>2 DEF BlockForCombo
<1> HIDE DEF lo, hi, block
<1>4. ASSUME NEW d \in DOMAIN resolved
      PROVE  lo[d] \in Nat /\ hi[d] \in Nat /\ lo[d] <= hi[d] /\ hi[d] <= dataset.size[d]
  <2> DEFINE i == combo[d]
  <2>1. i \in 1 .. N(d) /\ N(d) \in Nat
    BY KeptMembers DEF IsCombo
  <2> HIDE DEF i
  <2>2. i \in i .. N(d)
    BY <2>1
  <2>3. /\ Bounds(d)[i] \in Nat /\ Bounds(d)[i + 1] \in Nat
        /\ Bounds(d)[i] <= Bounds(d)[i + 1] /\ Bounds(d)[i + 1] <= dataset.size[d]
    BY <2>1, <2>2, ChunkEnds
  <2> QED BY <1>1, <2>3 DEF i
<1>5. /\ IsBlock(dataset, block)
      /\ \A c : InBlock(dataset, block, c) <=>
           /\ InBlock(dataset, WholeGrid(dataset), c)
           /\ \A d \in DOMAIN resolved : lo[d] <= c[d] /\ c[d] < hi[d]
  BY <1>3, <1>4, SlicedBlock
<1> QED BY <1>1, <1>5 DEF InChunk, block

LEMMA CombosTile ==
  ASSUME Opened, NEW kept, IsKept(kept)
  PROVE  IsTiling(BlocksOf(Combos(kept)), kept)
<1> DEFINE combos == Combos(kept)
           blocks == BlocksOf(combos)
<1>1. IsChoice(kept)
  BY KeptIsChoice
<1>2. /\ AnySeq(combos) /\ Distinct(combos)
      /\ \A p \in 1 .. Len(combos) : IsCombo(combos[p], kept)
      /\ \A combo : IsCombo(combo, kept) => \E p \in 1 .. Len(combos) : combos[p] = combo
  BY <1>1, CombosOfChoice
<1> HIDE DEF combos
<1>3. Len(combos) \in Nat /\ DOMAIN combos = 1 .. Len(combos)
  BY <1>2, SequenceParts
<1>4. blocks = [p \in 1 .. Len(combos) |-> BlockForCombo(combos[p])]
  BY <1>3 DEF BlocksOf
<1> HIDE DEF blocks
<1>5. DOMAIN blocks = 1 .. Len(combos) /\ blocks = [p \in 1 .. Len(combos) |-> blocks[p]]
  BY <1>4
<1>6. AnySeq(blocks) /\ Len(blocks) = Len(combos)
  BY <1>3, <1>5, MadeSequence
<1>7. ASSUME NEW p \in 1 .. Len(combos)
      PROVE  /\ IsBlock(dataset, blocks[p])
             /\ \A c : InBlock(dataset, blocks[p], c) <=>
                  /\ InBlock(dataset, WholeGrid(dataset), c)
                  /\ \A d \in DOMAIN resolved : InChunk(d, combos[p][d], c[d])
  <2>1. blocks[p] = BlockForCombo(combos[p]) /\ IsCombo(combos[p], kept)
    BY <1>2, <1>4
  <2> QED BY <2>1, ComboBlock
<1>8. ASSUME NEW c
      PROVE  (\E p \in 1 .. Len(combos) : InBlock(dataset, blocks[p], c)) <=> KeptCell(kept, c)
  <2>1. ASSUME NEW p \in 1 .. Len(combos), InBlock(dataset, blocks[p], c)
        PROVE  KeptCell(kept, c)
    <3>1. \A d \in DOMAIN resolved : combos[p][d] \in ToSet(kept[d])
      BY <1>2 DEF IsCombo
    <3> QED BY <1>7, <2>1, <3>1 DEF KeptCell
  <2>2. ASSUME KeptCell(kept, c)
        PROVE  \E p \in 1 .. Len(combos) : InBlock(dataset, blocks[p], c)
    <3> DEFINE combo == [d \in DOMAIN resolved |-> CHOOSE i \in ToSet(kept[d]) : InChunk(d, i, c[d])]
    <3>1. ASSUME NEW d \in DOMAIN resolved
          PROVE  combo[d] \in ToSet(kept[d]) /\ InChunk(d, combo[d], c[d])
      <4>1. \E i \in ToSet(kept[d]) : InChunk(d, i, c[d])
        BY <2>2 DEF KeptCell
      <4> QED BY <4>1
    <3>2. DOMAIN combo = DOMAIN resolved /\ combo = [d \in DOMAIN resolved |-> combo[d]]
      OBVIOUS
    <3> HIDE DEF combo
    <3>3. IsCombo(combo, kept)
      BY <3>1, <3>2 DEF IsCombo
    <3>4. PICK p \in 1 .. Len(combos) : combos[p] = combo
      BY <1>2, <3>3
    <3>5. InBlock(dataset, blocks[p], c)
      BY <1>7, <2>2, <3>1, <3>4 DEF KeptCell
    <3> QED BY <3>5
  <2> QED BY <2>1, <2>2
<1>9. ASSUME NEW c, NEW p \in 1 .. Len(combos), NEW q \in 1 .. Len(combos),
             InBlock(dataset, blocks[p], c), InBlock(dataset, blocks[q], c)
      PROVE  p = q
  <2>1. IsCombo(combos[p], kept) /\ IsCombo(combos[q], kept)
    BY <1>2
  <2>2. InBlock(dataset, WholeGrid(dataset), c)
    BY <1>7, <1>9
  <2>3. ASSUME NEW d \in DOMAIN resolved
        PROVE  combos[p][d] = combos[q][d]
    <3>1. combos[p][d] \in 1 .. N(d) /\ combos[q][d] \in 1 .. N(d)
      BY <2>1, KeptMembers DEF IsCombo
    <3>2. InChunk(d, combos[p][d], c[d]) /\ InChunk(d, combos[q][d], c[d])
      BY <1>7, <1>9
    <3>3. c[d] \in Nat
      BY <2>2, OpenedParts DEF InBlock
    <3> QED BY <3>1, <3>2, <3>3, ChunkOfPosition
  <2>4. combos[p] = combos[q]
    BY <2>1, <2>3 DEF IsCombo
  <2> QED BY <1>2, <2>4 DEF Distinct
<1> QED BY <1>6, <1>7, <1>8, <1>9 DEF IsTiling, blocks, combos

-----------------------------------------------------------------------------
(* The cells of blocks that tile.                                             *)
CellsOf(blocks) == FlattenSeq([i \in DOMAIN blocks |-> Cells(blocks[i])])

LEMMA CellsOfBlock ==
  ASSUME Opened, NEW block, IsBlock(dataset, block)
  PROVE  /\ AnySeq(Cells(block)) /\ Distinct(Cells(block)) /\ Len(Cells(block)) \in Nat
         /\ DOMAIN Cells(block) = 1 .. Len(Cells(block))
         /\ \A j \in 1 .. Len(Cells(block)) : InBlock(dataset, block, Cells(block)[j])
         /\ \A c : InBlock(dataset, block, c) => \E j \in 1 .. Len(Cells(block)) : Cells(block)[j] = c
<1> DEFINE cells == Ravel(dataset, block, dataset.dims)
<1>1. /\ AnySeq(cells) /\ Distinct(cells)
      /\ \A j \in 1 .. Len(cells) : InBlock(dataset, block, cells[j])
      /\ \A c : InBlock(dataset, block, c) => \E j \in 1 .. Len(cells) : cells[j] = c
  <2>1. IsGrid(dataset) /\ AreDims(dataset.dims, dataset)
    BY OpenedParts, DimsAreDims
  <2> QED BY <2>1, RavelCells DEF RaveledCells
<1>2. Cells(block) = cells
  BY DEF Cells
<1> HIDE DEF cells
<1>3. Len(cells) \in Nat /\ DOMAIN cells = 1 .. Len(cells)
  BY <1>1, SequenceParts
<1> QED BY <1>1, <1>2, <1>3

LEMMA TiledCells ==
  ASSUME Opened, NEW kept, NEW blocks, IsTiling(blocks, kept)
  PROVE  /\ AnySeq(CellsOf(blocks)) /\ Distinct(CellsOf(blocks))
         /\ \A c : c \in ToSet(CellsOf(blocks)) <=> KeptCell(kept, c)
<1> DEFINE n == Len(blocks)
           parts == [i \in DOMAIN blocks |-> Cells(blocks[i])]
           flat == CellsOf(blocks)
<1>1. AnySeq(blocks) /\ n \in Nat /\ DOMAIN blocks = 1 .. n
  BY SequenceParts DEF IsTiling
<1>2. flat = FlattenSeq(parts)
  BY DEF CellsOf
<1>3. \A i \in 1 .. n : parts[i] = Cells(blocks[i])
  BY <1>1
<1>4. DOMAIN parts = 1 .. n /\ parts = [i \in 1 .. n |-> parts[i]]
  BY <1>1
<1> HIDE DEF parts, flat, n
<1>5. \A i \in 1 .. n :
        /\ AnySeq(parts[i]) /\ Distinct(parts[i])
        /\ \A j \in 1 .. Len(parts[i]) : InBlock(dataset, blocks[i], parts[i][j])
        /\ \A c : InBlock(dataset, blocks[i], c) => \E j \in 1 .. Len(parts[i]) : parts[i][j] = c
  <2> SUFFICES ASSUME NEW i \in 1 .. n
               PROVE  /\ AnySeq(parts[i]) /\ Distinct(parts[i])
                      /\ \A j \in 1 .. Len(parts[i]) : InBlock(dataset, blocks[i], parts[i][j])
                      /\ \A c : InBlock(dataset, blocks[i], c) => \E j \in 1 .. Len(parts[i]) : parts[i][j] = c
    OBVIOUS
  <2>1. IsBlock(dataset, blocks[i])
    BY DEF IsTiling, n
  <2> QED BY <1>3, <2>1, CellsOfBlock, SMTT(30)
<1>6. AnySeq(parts) /\ Len(parts) = n /\ SeqOfSeqs(parts)
  <2>1. AnySeq(parts) /\ Len(parts) = n
    BY <1>1, <1>4, MadeSequence
  <2> QED BY <1>5, <2>1 DEF SeqOfSeqs
<1>7. PICK off : Placed(flat, parts, off)
  BY <1>2, <1>6, FlattenPlaces
<1>8. /\ AnySeq(flat)
      /\ \A a \in 1 .. n : \A b \in 1 .. Len(parts[a]) :
           off[a - 1] + b \in 1 .. Len(flat) /\ flat[off[a - 1] + b] = parts[a][b]
      /\ \A i \in 1 .. Len(flat) : \E a \in 1 .. n : \E b \in 1 .. Len(parts[a]) : i = off[a - 1] + b
  BY <1>6, <1>7 DEF Placed
<1>9. Len(flat) \in Nat /\ DOMAIN flat = 1 .. Len(flat)
  BY <1>8, SequenceParts
<1>10. ASSUME NEW i \in 1 .. Len(flat), NEW j \in 1 .. Len(flat), flat[i] = flat[j]
       PROVE  i = j
  <2>1. PICK a \in 1 .. n : \E b \in 1 .. Len(parts[a]) : i = off[a - 1] + b
    BY <1>8
  <2>2. PICK b \in 1 .. Len(parts[a]) : i = off[a - 1] + b
    BY <2>1
  <2>3. PICK e \in 1 .. n : \E g \in 1 .. Len(parts[e]) : j = off[e - 1] + g
    BY <1>8
  <2>4. PICK g \in 1 .. Len(parts[e]) : j = off[e - 1] + g
    BY <2>3
  <2>5. parts[a][b] = parts[e][g]
    BY <1>8, <1>10, <2>2, <2>4
  <2>6. InBlock(dataset, blocks[a], parts[a][b]) /\ InBlock(dataset, blocks[e], parts[a][b])
    BY <1>5, <2>5
  <2>7. a = e
    BY <2>6 DEF IsTiling, n
  <2>8. b = g
    BY <1>5, <2>5, <2>7 DEF Distinct
  <2> QED BY <2>2, <2>4, <2>7, <2>8
<1>11. ASSUME NEW c
       PROVE  c \in ToSet(flat) <=> KeptCell(kept, c)
  <2>1. KeptCell(kept, c) <=> \E p \in 1 .. n : InBlock(dataset, blocks[p], c)
    BY DEF IsTiling, n
  <2>2. ASSUME c \in ToSet(flat)
        PROVE  \E p \in 1 .. n : InBlock(dataset, blocks[p], c)
    <3>1. PICK i \in 1 .. Len(flat) : flat[i] = c
      BY <1>9, <2>2 DEF ToSet
    <3>2. PICK a \in 1 .. n : \E b \in 1 .. Len(parts[a]) : i = off[a - 1] + b
      BY <1>8
    <3>3. PICK b \in 1 .. Len(parts[a]) : i = off[a - 1] + b
      BY <3>2
    <3> QED BY <1>5, <1>8, <3>1, <3>3
  <2>3. ASSUME NEW p \in 1 .. n, InBlock(dataset, blocks[p], c)
        PROVE  c \in ToSet(flat)
    <3>1. PICK b \in 1 .. Len(parts[p]) : parts[p][b] = c
      BY <1>5, <2>3
    <3>2. off[p - 1] + b \in 1 .. Len(flat) /\ flat[off[p - 1] + b] = c
      BY <1>8, <3>1
    <3> QED BY <1>9, <3>2 DEF ToSet
  <2> QED BY <2>1, <2>2, <2>3
<1> QED BY <1>8, <1>10, <1>11 DEF Distinct, flat

-----------------------------------------------------------------------------
(* Sums and products of numbers.                                              *)
LEMMA SumOfFold ==
  ASSUME NEW L \in Nat, NEW numbers \in [1 .. L -> Nat]
  PROVE  \E f \in [0 .. L -> Nat] : Sums(f, L, numbers) /\ SumOf(numbers) = f[L]
<1> DEFINE step == [n \in 1 .. L |-> [v \in Nat |-> v + numbers[n]]]
           pick == [s \in SUBSET (1 .. L) |-> Max(s)]
           Eq(it) == it = [s \in SUBSET (DOMAIN numbers) |->
                             IF s = {} THEN 0 ELSE it[s \ {Max(s)}] + numbers[Max(s)]]
           zero == 0
<1>0. DOMAIN numbers = 1 .. L
  OBVIOUS
<1>1. \A s \in SUBSET (1 .. L) : s # {} => Max(s) \in s
  BY IntervalEnds
<1>2. PICK made \in [SUBSET (1 .. L) -> Nat] : Folds(made, zero, L, pick, step)
  <2>1. step \in [1 .. L -> [Nat -> Nat]] /\ zero \in Nat
    OBVIOUS
  <2>2. \A s \in SUBSET (1 .. L) : s # {} => pick[s] \in s
    BY <1>1
  <2> HIDE DEF step, pick, zero
  <2> QED BY <2>1, <2>2, FoldExists
<1>3. Eq(made)
  <2>1. ASSUME NEW s \in SUBSET (1 .. L), s # {}
        PROVE  made[s] = made[s \ {Max(s)}] + numbers[Max(s)]
    <3>1. Max(s) \in 1 .. L /\ made[s \ {Max(s)}] \in Nat
      BY <1>1, <2>1
    <3>2. made[s] = step[Max(s)][made[s \ {Max(s)}]]
      <4>1. pick[s] = Max(s)
        OBVIOUS
      <4> HIDE DEF pick, step
      <4> QED BY <1>2, <2>1, <4>1 DEF Folds
    <3> QED BY <3>1, <3>2
  <2>2. made[{}] = 0
    BY <1>2 DEF Folds
  <2> HIDE DEF pick, step
  <2> QED BY <2>1, <2>2, <1>0
<1> DEFINE it == CHOOSE it : Eq(it)
<1>4. Eq(it)
  <2> HIDE DEF Eq
  <2> QED BY <1>3
<1>5. SumOf(numbers) = it[DOMAIN numbers]
  BY Zenon DEF SumOf, FoldLeft, MapThenFoldSet
<1> HIDE DEF it
<1> DEFINE f == [n \in 0 .. L |-> it[1 .. n]]
<1>6. f[0] = 0
  BY <1>4
<1>7. ASSUME NEW n \in 1 .. L
      PROVE  f[n] = f[n - 1] + numbers[n]
  <2>1. 1 .. n \in SUBSET (DOMAIN numbers) /\ 1 .. n # {}
    OBVIOUS
  <2>2. Max(1 .. n) = n /\ (1 .. n) \ {n} = 1 .. n - 1
    BY IntervalTop
  <2>3. it[1 .. n] = it[1 .. n - 1] + numbers[n]
    BY <2>1, <2>2, <1>4
  <2> QED BY <2>3
<1>8. PICK g \in [0 .. L -> Nat] : Sums(g, L, numbers)
  BY SumsExist
<1>9. \A n \in 0 .. L : f[n] = g[n]
  <2>1. Agrees(f, g, L)
    <3> HIDE DEF f
    <3> QED BY <1>6, <1>7, <1>8 DEF Sums, Agrees
  <2> HIDE DEF f
  <2> QED BY <2>1, AgreeAlong
<1>10. SumOf(numbers) = g[L]
  BY <1>0, <1>5, <1>9
<1> QED BY <1>8, <1>10

LEMMA FlattenLength ==
  ASSUME NEW parts, SeqOfSeqs(parts)
  PROVE  Len(FlattenSeq(parts)) = SumOf([i \in DOMAIN parts |-> Len(parts[i])])
<1> DEFINE L == Len(parts)
           numbers == [i \in DOMAIN parts |-> Len(parts[i])]
<1>1. L \in Nat /\ DOMAIN parts = 1 .. L
  BY SequenceParts DEF SeqOfSeqs
<1>2. PICK off : Placed(FlattenSeq(parts), parts, off)
  BY FlattenPlaces
<1>3. /\ off[0] = 0 /\ Len(FlattenSeq(parts)) = off[L]
      /\ \A i \in 1 .. L : off[i] = off[i - 1] + Len(parts[i])
  BY <1>2 DEF Placed, Offsets
<1>4. numbers \in [1 .. L -> Nat] /\ \A i \in 1 .. L : numbers[i] = Len(parts[i])
  BY <1>1, SequenceParts DEF SeqOfSeqs
<1> HIDE DEF L, numbers
<1>5. PICK f \in [0 .. L -> Nat] : Sums(f, L, numbers) /\ SumOf(numbers) = f[L]
  BY <1>1, <1>4, SumOfFold
<1>6. Agrees(off, f, L)
  BY <1>3, <1>4, <1>5 DEF Agrees, Sums
<1>7. off[L] = f[L]
  <2>1. L \in 0 .. L
    BY <1>1
  <2> QED BY <1>1, <1>6, <2>1, AgreeAlong
<1> QED BY <1>3, <1>5, <1>7 DEF numbers

LEMMA CellsAreCounted ==
  ASSUME Opened, NEW kept, NEW blocks, IsTiling(blocks, kept)
  PROVE  Len(CellsOf(blocks)) = SumOf([i \in DOMAIN blocks |-> Len(Cells(blocks[i]))])
<1> DEFINE n == Len(blocks)
           parts == [i \in DOMAIN blocks |-> Cells(blocks[i])]
<1>1. AnySeq(blocks) /\ n \in Nat /\ DOMAIN blocks = 1 .. n
  BY SequenceParts DEF IsTiling
<1>2. \A i \in 1 .. n : parts[i] = Cells(blocks[i]) /\ AnySeq(parts[i])
  BY <1>1, CellsOfBlock DEF IsTiling
<1>3. DOMAIN parts = 1 .. n /\ parts = [i \in 1 .. n |-> parts[i]]
  BY <1>1
<1>4. CellsOf(blocks) = FlattenSeq(parts)
  BY DEF CellsOf
<1> HIDE DEF parts, n
<1>5. SeqOfSeqs(parts)
  <2>1. AnySeq(parts) /\ Len(parts) = n
    BY <1>1, <1>3, MadeSequence
  <2> QED BY <1>2, <2>1 DEF SeqOfSeqs
<1>6. [i \in DOMAIN parts |-> Len(parts[i])] = [i \in DOMAIN blocks |-> Len(Cells(blocks[i]))]
  BY <1>1, <1>2, <1>3
<1> QED BY <1>4, <1>5, <1>6, FlattenLength

LEMMA ProductFactor ==
  ASSUME NEW L \in Nat, NEW a \in [1 .. L -> Nat], NEW b \in [1 .. L -> Nat], NEW k \in 1 .. L,
         b[k] = 1, \A i \in 1 .. L : i # k => a[i] = b[i]
  PROVE  Product(b) \in Nat /\ Product(a) = a[k] * Product(b)
<1>1. PICK f \in [0 .. L -> Nat] : Products(f, L, a) /\ Product(a) = f[L]
  BY ProductFold
<1>2. PICK g \in [0 .. L -> Nat] : Products(g, L, b) /\ Product(b) = g[L]
  BY ProductFold
<1> DEFINE h == [n \in 0 .. L |-> IF n < k THEN g[n] ELSE a[k] * g[n]]
<1>3. f[0] = h[0]
  BY <1>1, <1>2 DEF Products
<1>4. ASSUME NEW n \in 1 .. L, f[n - 1] = h[n - 1]
      PROVE  f[n] = h[n]
  <2>1. n \in 0 .. L /\ n - 1 \in 0 .. L /\ k \in Nat /\ n \in Nat /\ n - 1 \in Nat
    OBVIOUS
  <2>2. f[n] = f[n - 1] * a[n] /\ g[n] = g[n - 1] * b[n]
    BY <1>1, <1>2 DEF Products
  <2> DEFINE x == g[n - 1]
             y == a[n]
             z == a[k]
  <2>3. x \in Nat /\ y \in Nat /\ z \in Nat
    BY <2>1
  <2>4. CASE n < k
    <3>1. h[n] = g[n] /\ h[n - 1] = g[n - 1] /\ a[n] = b[n]
      BY <2>1, <2>4
    <3> QED BY <1>4, <2>2, <3>1
  <2>5. CASE n = k
    <3>1. h[n] = z * g[n] /\ h[n - 1] = x /\ y = z
      BY <2>1, <2>5
    <3>2. g[n] = x * 1
      BY <2>2, <2>5
    <3>3. f[n] = x * y
      BY <1>4, <2>2, <3>1
    <3> HIDE DEF x, y, z, h
    <3> QED BY <2>3, <3>1, <3>2, <3>3
  <2>6. CASE n > k
    <3>1. h[n] = z * g[n] /\ h[n - 1] = z * x /\ y = b[n]
      <4>1. ~(n < k) /\ ~(n - 1 < k) /\ n # k
        BY <2>1, <2>6
      <4>2. h[n] = z * g[n] /\ h[n - 1] = z * x
        <5> HIDE DEF z
        <5>1. h = [m \in 0 .. L |-> IF m < k THEN g[m] ELSE z * g[m]]
          BY DEF z
        <5> HIDE DEF h
        <5> QED BY <2>1, <4>1, <5>1
      <4>3. y = b[n]
        BY <4>1
      <4> QED BY <4>2, <4>3
    <3>2. g[n] = x * y
      BY <2>2, <3>1
    <3>3. f[n] = (z * x) * y
      BY <1>4, <2>2, <3>1
    <3> HIDE DEF x, y, z, h
    <3> QED BY <2>3, <3>1, <3>2, <3>3
  <2> QED BY <2>1, <2>4, <2>5, <2>6
<1> HIDE DEF h
<1>5. Agrees(f, h, L)
  BY <1>3, <1>4 DEF Agrees
<1>6. f[L] = h[L]
  <2>1. L \in 0 .. L
    OBVIOUS
  <2> QED BY <1>5, <2>1, AgreeAlong, SMTT(30)
<1>7. h[L] = a[k] * g[L]
  BY DEF h
<1> QED BY <1>1, <1>2, <1>6, <1>7

-----------------------------------------------------------------------------
(* Merging. The dimension that is merged is one of the grid.                  *)
LEMMA MergeDimInGrid ==
  ASSUME Opened, GridDims # << >>
  PROVE  MergeDim \in DOMAIN resolved
<1> DEFINE s == GridDims
           L == Len(s)
           V == DOMAIN resolved
           next(v, n) == IF N(s[n]) > N(v) THEN s[n] ELSE v
           step == [n \in 1 .. L |-> [v \in V |-> next(v, n)]]
           pick == [t \in SUBSET (1 .. L) |-> Max(t)]
           base == s[1]
           Eq(it) == it = [t \in SUBSET (DOMAIN s) |->
                             IF t = {} THEN s[1]
                             ELSE IF N(s[Max(t)]) > N(it[t \ {Max(t)}]) THEN s[Max(t)] ELSE it[t \ {Max(t)}]]
<1>1. AnySeq(s) /\ ToSet(s) = V
  BY OpenedParts
<1>2. L \in Nat /\ L # 0 /\ DOMAIN s = 1 .. L /\ \A n \in 1 .. L : s[n] \in V
  BY <1>1, SequenceParts DEF ToSet
<1>3. base \in V
  BY <1>2
<1>4. \A t \in SUBSET (1 .. L) : t # {} => Max(t) \in t
  <2> HIDE DEF L
  <2> QED BY <1>2, IntervalEnds
<1>5. MergeDim = FoldLeft(LAMBDA best, d : IF N(d) > N(best) THEN d ELSE best, s[1], s)
  BY DEF MergeDim
<1> HIDE DEF V, L, s
<1>6. PICK made \in [SUBSET (1 .. L) -> V] : Folds(made, base, L, pick, step)
  <2>1. step \in [1 .. L -> [V -> V]]
    BY <1>2
  <2>2. \A t \in SUBSET (1 .. L) : t # {} => pick[t] \in t
    BY <1>4
  <2> HIDE DEF step, pick, base
  <2> QED BY <1>2, <1>3, <2>1, <2>2, FoldExists
<1>7. Eq(made)
  <2>1. ASSUME NEW t \in SUBSET (1 .. L), t # {}
        PROVE  made[t] = next(made[t \ {Max(t)}], Max(t))
    <3>1. Max(t) \in 1 .. L /\ made[t \ {Max(t)}] \in V
      BY <1>4, <2>1
    <3>2. made[t] = step[Max(t)][made[t \ {Max(t)}]]
      <4>1. pick[t] = Max(t)
        OBVIOUS
      <4> HIDE DEF pick, step
      <4> QED BY <1>6, <2>1, <4>1 DEF Folds
    <3> HIDE DEF next
    <3> QED BY <3>1, <3>2
  <2>2. made[{}] = s[1]
    BY <1>6 DEF Folds
  <2> HIDE DEF pick, step
  <2> QED BY <1>2, <2>1, <2>2
<1> DEFINE it == CHOOSE it : Eq(it)
<1>8. Eq(it)
  <2> HIDE DEF Eq
  <2> QED BY <1>7
<1>9. MergeDim = it[DOMAIN s]
  BY Zenon, <1>5 DEF FoldLeft, MapThenFoldSet
<1> HIDE DEF it
<1>10. it[{}] \in V
  BY <1>3, <1>8
<1>11. ASSUME NEW t \in SUBSET (1 .. L), t # {}
       PROVE  \E i \in t : it[t \ {i}] \in V => it[t] \in V
  <2>1. Max(t) \in t /\ Max(t) \in 1 .. L
    BY <1>4, <1>11
  <2>2. it[t] = next(it[t \ {Max(t)}], Max(t))
    BY <1>2, <1>8, <1>11
  <2>3. s[Max(t)] \in V
    BY <1>2, <2>1
  <2>4. it[t \ {Max(t)}] \in V => it[t] \in V
    BY <2>2, <2>3
  <2> QED BY <2>1, <2>4
<1>12. it[1 .. L] \in V
  BY <1>2, <1>10, <1>11, FoldMember
<1> QED BY <1>2, <1>9, <1>12 DEF V

(* Runs of the first k chunks, by their first and last chunk: R runs in order *)
(* that hold these chunks and no other, each a single chunk or of at most     *)
(* limit rows; rows are those of the last run, p for each of its positions.   *)
SpanRows(lo, hi, b, p, r) == (b[hi[r] + 1] - b[lo[r]]) * p

Spans(lo, hi, R, rows, C, n, b, p, limit, k) ==
  /\ R \in Nat /\ lo \in [1 .. R -> 1 .. n] /\ hi \in [1 .. R -> 1 .. n]
  /\ \A r \in 1 .. R : /\ lo[r] <= hi[r]
                       /\ \A i \in lo[r] .. hi[r] : \E j \in 1 .. k : C[j] = i
                       /\ lo[r] = hi[r] \/ SpanRows(lo, hi, b, p, r) <= limit
  /\ \A j \in 1 .. k : \E r \in 1 .. R : lo[r] <= C[j] /\ C[j] <= hi[r]
  /\ \A r, s \in 1 .. R : r < s => hi[r] < lo[s]
  /\ k = 0 => R = 0
  /\ k > 0 => R > 0 /\ hi[R] = C[k] /\ rows = SpanRows(lo, hi, b, p, R)

\* The chunks of a dimension in order, where they begin, and the rows of a position.
MergesIn(C, n, b, p) ==
  /\ n \in Nat /\ InOrderUpto(C, n) /\ p \in Nat /\ \A i \in 1 .. n + 1 : b[i] \in Nat

LEMMA SpansExtend ==
  ASSUME NEW C, NEW n, NEW b, NEW p, MergesIn(C, n, b, p), NEW limit, NEW k \in Nat \ {0}, k + 1 <= Len(C),
         NEW lo, NEW hi, NEW R, NEW rows, Spans(lo, hi, R, rows, C, n, b, p, limit, k),
         NEW i, i = C[k + 1], i = C[k] + 1, NEW more \in Nat, more = (b[i + 1] - b[i]) * p, rows + more <= limit,
         NEW to, to = [r \in 1 .. R |-> IF r = R THEN i ELSE hi[r]]
  PROVE  Spans(lo, to, R, rows + more, C, n, b, p, limit, k + 1)
<1>1. Len(C) \in Nat
  BY SequenceParts DEF MergesIn, InOrderUpto
<1>2. n \in Nat /\ p \in Nat /\ \A j \in 1 .. n + 1 : b[j] \in Nat
  BY DEF MergesIn
<1>3. \A j \in 1 .. k + 1 : C[j] \in 1 .. n
  <2>1. \A j \in 1 .. Len(C) : C[j] \in 1 .. n
    BY DEF MergesIn, InOrderUpto
  <2> QED BY <1>1, <2>1
<1>4. R \in Nat \ {0} /\ hi[R] = C[k] /\ rows = SpanRows(lo, hi, b, p, R)
  BY DEF Spans
<1>5. \A r \in 1 .. R : lo[r] \in 1 .. n /\ hi[r] \in 1 .. n /\ lo[r] <= hi[r]
  BY DEF Spans
<1>6. i \in 1 .. n
  <2>1. k + 1 \in 1 .. k + 1
    OBVIOUS
  <2> QED BY <1>3, <2>1
<1>7. to \in [1 .. R -> 1 .. n] /\ to[R] = i /\ \A r \in 1 .. R : r # R => to[r] = hi[r]
  BY <1>4, <1>5, <1>6
<1>8. rows + more = SpanRows(lo, to, b, p, R)
  <2> DEFINE x == b[lo[R]]
             y == b[i]
             z == b[i + 1]
  <2>1. x \in Nat /\ y \in Nat /\ z \in Nat
    <3>1. lo[R] \in 1 .. n
      BY <1>4, <1>5
    <3>2. lo[R] \in 1 .. n + 1 /\ i \in 1 .. n + 1 /\ i + 1 \in 1 .. n + 1
      BY <1>2, <1>6, <3>1, SMTT(30)
    <3> QED BY <1>2, <3>2
  <2>2. rows = (y - x) * p
    <3>1. hi[R] + 1 = i
      BY <1>4
    <3> QED BY <1>4, <3>1 DEF SpanRows
  <2>3. SpanRows(lo, to, b, p, R) = (z - x) * p
    BY <1>7 DEF SpanRows
  <2>4. more = (z - y) * p
    OBVIOUS
  <2> HIDE DEF x, y, z
  <2>5. (y - x) * p + (z - y) * p = (z - x) * p
    BY <1>2, <2>1
  <2> QED BY <2>2, <2>3, <2>4, <2>5
<1>9. ASSUME NEW r \in 1 .. R
      PROVE  /\ lo[r] <= to[r]
             /\ \A m \in lo[r] .. to[r] : \E j \in 1 .. k + 1 : C[j] = m
             /\ lo[r] = to[r] \/ SpanRows(lo, to, b, p, r) <= limit
  <2>1. \A m \in lo[r] .. hi[r] : \E j \in 1 .. k : C[j] = m
    BY DEF Spans
  <2>2. CASE r # R
    <3>1. to[r] = hi[r]
      BY <1>7, <2>2
    <3>2. SpanRows(lo, to, b, p, r) = SpanRows(lo, hi, b, p, r)
      BY <3>1 DEF SpanRows
    <3>3. lo[r] = hi[r] \/ SpanRows(lo, hi, b, p, r) <= limit
      BY DEF Spans
    <3>4. \A j \in 1 .. k : j \in 1 .. k + 1
      OBVIOUS
    <3> QED BY <1>5, <2>1, <3>1, <3>2, <3>3, <3>4
  <2>3. CASE r = R
    <3>1. to[r] = i /\ hi[r] = i - 1 /\ lo[r] <= i
      BY <1>4, <1>5, <1>6, <1>7, <2>3
    <3>2. ASSUME NEW m \in lo[r] .. i
          PROVE  \E j \in 1 .. k + 1 : C[j] = m
      <4>1. CASE m = i
        <5>1. k + 1 \in 1 .. k + 1
          OBVIOUS
        <5> QED BY <4>1, <5>1
      <4>2. CASE m # i
        <5>1. m \in lo[r] .. hi[r]
          BY <1>5, <1>6, <3>1, <4>2
        <5>2. PICK j \in 1 .. k : C[j] = m
          BY <2>1, <5>1
        <5>3. j \in 1 .. k + 1
          OBVIOUS
        <5> QED BY <5>2, <5>3
      <4> QED BY <4>1, <4>2
    <3> QED BY <1>8, <2>3, <3>1, <3>2
  <2> QED BY <2>2, <2>3
<1>10. ASSUME NEW j \in 1 .. k + 1
       PROVE  \E r \in 1 .. R : lo[r] <= C[j] /\ C[j] <= to[r]
  <2>1. CASE j = k + 1
    <3>1. R \in 1 .. R /\ lo[R] <= i /\ i <= to[R]
      BY <1>4, <1>5, <1>6, <1>7
    <3> QED BY <2>1, <3>1
  <2>2. CASE j \in 1 .. k
    <3>1. PICK r \in 1 .. R : lo[r] <= C[j] /\ C[j] <= hi[r]
      BY <2>2 DEF Spans
    <3>2. hi[r] <= to[r]
      <4>1. hi[R] <= i
        BY <1>3, <1>4, <1>6
      <4>2. hi[r] \in Nat
        BY <1>5
      <4> QED BY <1>7, <4>1, <4>2
    <3>3. hi[r] \in Nat /\ to[r] \in Nat /\ C[j] \in Nat
      BY <1>3, <1>5, <1>7, SMTT(30)
    <3> QED BY <3>1, <3>2, <3>3
  <2> QED BY <2>1, <2>2
<1>11. ASSUME NEW r \in 1 .. R, NEW s \in 1 .. R, r < s
       PROVE  to[r] < lo[s]
  <2>1. r # R
    BY <1>4, <1>11
  <2> QED BY <1>7, <1>11, <2>1 DEF Spans
<1>12. lo \in [1 .. R -> 1 .. n]
  BY DEF Spans
<1>13. k + 1 # 0 /\ to[R] = C[k + 1]
  BY <1>7
<1> DEFINE K == k + 1
           all == rows + more
<1>14. /\ all = SpanRows(lo, to, b, p, R)
       /\ \A r \in 1 .. R : /\ lo[r] <= to[r]
                            /\ \A m \in lo[r] .. to[r] : \E j \in 1 .. K : C[j] = m
                            /\ lo[r] = to[r] \/ SpanRows(lo, to, b, p, r) <= limit
       /\ \A j \in 1 .. K : \E r \in 1 .. R : lo[r] <= C[j] /\ C[j] <= to[r]
       /\ K # 0 /\ to[R] = C[K]
  BY <1>8, <1>9, <1>10, <1>13
<1> HIDE DEF K, all
<1>15. Spans(lo, to, R, all, C, n, b, p, limit, K)
  <2>1. R \in Nat /\ lo \in [1 .. R -> 1 .. n] /\ to \in [1 .. R -> 1 .. n]
    BY <1>4, <1>7, <1>12
  <2>2. \A r, s \in 1 .. R : r < s => to[r] < lo[s]
    BY <1>11
  <2>3. (K = 0 => R = 0) /\ (K > 0 => R > 0 /\ to[R] = C[K] /\ all = SpanRows(lo, to, b, p, R))
    BY <1>4, <1>14
  <2> QED BY Zenon, <1>14, <2>1, <2>2, <2>3 DEF Spans
<1> QED BY <1>15 DEF K, all

LEMMA SpansAdd ==
  ASSUME NEW C, NEW n, NEW b, NEW p, MergesIn(C, n, b, p), NEW limit, NEW k \in Nat, k + 1 <= Len(C),
         NEW lo, NEW hi, NEW R, NEW rows, Spans(lo, hi, R, rows, C, n, b, p, limit, k),
         NEW i, i = C[k + 1], NEW more, more = (b[i + 1] - b[i]) * p,
         NEW from, from = [r \in 1 .. R + 1 |-> IF r = R + 1 THEN i ELSE lo[r]],
         NEW to, to = [r \in 1 .. R + 1 |-> IF r = R + 1 THEN i ELSE hi[r]]
  PROVE  Spans(from, to, R + 1, more, C, n, b, p, limit, k + 1)
<1>1. Len(C) \in Nat
  BY SequenceParts DEF MergesIn, InOrderUpto
<1>2. n \in Nat /\ p \in Nat /\ \A j \in 1 .. n + 1 : b[j] \in Nat
  BY DEF MergesIn
<1>3. \A j \in 1 .. Len(C) : C[j] \in 1 .. n
  BY DEF MergesIn, InOrderUpto
<1>4. k + 1 \in 1 .. Len(C) /\ i \in 1 .. n
  BY <1>1, <1>3
<1>5. R \in Nat /\ \A r \in 1 .. R : lo[r] \in 1 .. n /\ hi[r] \in 1 .. n /\ lo[r] <= hi[r]
  BY DEF Spans
<1>6. \A r \in 1 .. R + 1 : r = R + 1 \/ r \in 1 .. R
  BY <1>5
<1>7. /\ from \in [1 .. R + 1 -> 1 .. n] /\ to \in [1 .. R + 1 -> 1 .. n]
      /\ from[R + 1] = i /\ to[R + 1] = i /\ R + 1 \in 1 .. R + 1
      /\ \A r \in 1 .. R : from[r] = lo[r] /\ to[r] = hi[r] /\ r \in 1 .. R + 1
  BY <1>4, <1>5
<1>8. more = SpanRows(from, to, b, p, R + 1)
  BY <1>7 DEF SpanRows
<1>9. ASSUME NEW r \in 1 .. R + 1
      PROVE  /\ from[r] <= to[r]
             /\ \A m \in from[r] .. to[r] : \E j \in 1 .. k + 1 : C[j] = m
             /\ from[r] = to[r] \/ SpanRows(from, to, b, p, r) <= limit
  <2>1. CASE r \in 1 .. R
    <3>1. from[r] = lo[r] /\ to[r] = hi[r]
      BY <1>7, <2>1
    <3>2. SpanRows(from, to, b, p, r) = SpanRows(lo, hi, b, p, r)
      BY <3>1 DEF SpanRows
    <3>3. /\ lo[r] = hi[r] \/ SpanRows(lo, hi, b, p, r) <= limit
          /\ \A m \in lo[r] .. hi[r] : \E j \in 1 .. k : C[j] = m
      BY <2>1 DEF Spans
    <3>4. \A j \in 1 .. k : j \in 1 .. k + 1
      OBVIOUS
    <3> QED BY <1>5, <2>1, <3>1, <3>2, <3>3, <3>4
  <2>2. CASE r = R + 1
    <3>1. from[r] = i /\ to[r] = i /\ i \in Nat
      BY <1>4, <1>7, <2>2
    <3>2. k + 1 \in 1 .. k + 1 /\ \A m \in i .. i : m = i
      BY <1>4
    <3>3. \A m \in i .. i : C[k + 1] = m
      BY <3>2
    <3> QED BY <3>1, <3>2, <3>3
  <2> QED BY <1>6, <2>1, <2>2
<1>10. ASSUME NEW j \in 1 .. k + 1
       PROVE  \E r \in 1 .. R + 1 : from[r] <= C[j] /\ C[j] <= to[r]
  <2>1. CASE j = k + 1
    <3>1. from[R + 1] <= i /\ i <= to[R + 1]
      BY <1>4, <1>7
    <3> QED BY <1>7, <2>1, <3>1
  <2>2. CASE j \in 1 .. k
    <3>1. PICK r \in 1 .. R : lo[r] <= C[j] /\ C[j] <= hi[r]
      BY <2>2 DEF Spans
    <3> QED BY <1>7, <3>1
  <2> QED BY <2>1, <2>2
<1>11. ASSUME NEW r \in 1 .. R + 1, NEW s \in 1 .. R + 1, r < s
       PROVE  to[r] < from[s]
  <2>1. r \in 1 .. R
    BY <1>5, <1>11
  <2>2. CASE s \in 1 .. R
    BY <1>7, <1>11, <2>1, <2>2 DEF Spans
  <2>3. CASE s = R + 1
    <3>1. k # 0
      BY <2>1 DEF Spans
    <3>2. R > 0 /\ hi[R] = C[k]
      BY <3>1 DEF Spans
    <3>3. C[k] < i
      <4>1. k \in 1 .. Len(C) /\ k < k + 1
        BY <1>1, <3>1
      <4> QED BY <1>4, <4>1 DEF MergesIn, InOrderUpto
    <3>4. hi[r] <= hi[R]
      <4>1. CASE r = R
        BY <1>5, <2>1, <4>1
      <4>2. CASE r # R
        <5>1. R \in 1 .. R /\ r < R
          BY <1>5, <2>1, <4>2
        <5>2. hi[r] < lo[R]
          BY <2>1, <5>1 DEF Spans
        <5> QED BY <1>5, <2>1, <5>1, <5>2
      <4> QED BY <4>1, <4>2
    <3>5. hi[r] \in Nat /\ hi[R] \in Nat /\ i \in Nat
      <4>1. R \in 1 .. R
        BY <1>5, <3>2
      <4> QED BY <1>4, <1>5, <2>1, <4>1
    <3>6. to[r] = hi[r] /\ from[s] = i
      BY <1>7, <2>1, <2>3
    <3> DEFINE x == hi[r]
               y == hi[R]
    <3>7. x \in Nat /\ y \in Nat /\ x <= y /\ y < i
      BY <3>2, <3>3, <3>4, <3>5
    <3> HIDE DEF x, y
    <3>8. x < i
      BY <3>5, <3>7
    <3> QED BY <3>6, <3>8 DEF x
  <2> QED BY <1>6, <2>2, <2>3
<1>12. R + 1 \in Nat /\ R + 1 > 0 /\ k + 1 # 0 /\ to[R + 1] = C[k + 1]
  BY <1>5, <1>7
<1> QED BY <1>7, <1>8, <1>9, <1>10, <1>11, <1>12 DEF Spans

(* Runs grow by a chunk.                                                      *)
Grown(acc, i, p) ==
  LET rows == resolved[MergeDim][i] * p
  IN  IF /\ acc.runs # << >>
         /\ i = Last(Last(acc.runs)) + 1
         /\ acc.rows + rows <= coalesce_rows
      THEN [runs |-> [acc.runs EXCEPT ![Len(acc.runs)] = Append(@, i)], rows |-> acc.rows + rows]
      ELSE [runs |-> Append(acc.runs, <<i>>), rows |-> rows]

RunSums == [runs : Seq(Seq(Nat)), rows : Nat]

RunsHave(acc, lo, hi, C, p, k) ==
  /\ acc \in RunSums
  /\ \A r \in 1 .. Len(acc.runs) : acc.runs[r] # << >> /\ lo[r] = Head(acc.runs[r]) /\ hi[r] = Last(acc.runs[r])
  /\ Spans(lo, hi, Len(acc.runs), acc.rows, C, N(MergeDim), Bounds(MergeDim), p, coalesce_rows, k)

LEMMA RunEnds ==
  ASSUME NEW run \in Seq(Nat), NEW i \in Nat
  PROVE  /\ <<i>> \in Seq(Nat) /\ <<i>> # << >> /\ Head(<<i>>) = i /\ Last(<<i>>) = i
         /\ Append(run, i) \in Seq(Nat) /\ Append(run, i) # << >> /\ Last(Append(run, i)) = i
         /\ run # << >> => Head(Append(run, i)) = Head(run) /\ Last(run) \in Nat
<1>1. <<i>> \in Seq(Nat) /\ <<i>> # << >> /\ Head(<<i>>) = i /\ Last(<<i>>) = i
  BY DEF Last
<1> DEFINE q == Append(run, i)
<1>2. AnySeq(run) /\ Len(run) \in Nat
  BY SequenceParts DEF AnySeq
<1>3. /\ q \in Seq(Nat) /\ AnySeq(q) /\ Len(q) = Len(run) + 1 /\ q[Len(run) + 1] = i
      /\ \A m \in 1 .. Len(run) : q[m] = run[m]
  BY <1>2, AppendedSequence
<1> HIDE DEF q
<1>4. q # << >>
  BY <1>2, <1>3, SequenceParts
<1>5. Last(q) = i
  BY <1>3 DEF Last
<1>6. ASSUME run # << >>
      PROVE  Head(q) = Head(run) /\ Last(run) \in Nat
  <2>1. Len(run) # 0 /\ Head(run) = run[1] /\ Head(q) = q[1]
    BY <1>2, <1>3, <1>4, <1>6, SequenceParts
  <2>2. 1 \in 1 .. Len(run) /\ Len(run) \in 1 .. Len(run)
    BY <1>2, <2>1
  <2> QED BY <1>3, <2>1, <2>2 DEF Last
<1> QED BY <1>1, <1>3, <1>4, <1>5, <1>6 DEF q

Joined(runs, i) == [runs EXCEPT ![Len(runs)] = Append(@, i)]

LEMMA LastReplaced ==
  ASSUME NEW runs \in Seq(Seq(Nat)), runs # << >>, NEW i \in Nat, NEW new, new = Joined(runs, i)
  PROVE  /\ new \in Seq(Seq(Nat)) /\ Len(new) = Len(runs) /\ Len(runs) \in Nat \ {0}
         /\ Last(runs) = runs[Len(runs)] /\ runs[Len(runs)] \in Seq(Nat)
         /\ new[Len(runs)] = Append(runs[Len(runs)], i)
         /\ \A r \in 1 .. Len(runs) : r # Len(runs) => new[r] = runs[r]
<1> DEFINE R == Len(runs)
           last == runs[R]
           grown == Append(last, i)
<1>1. AnySeq(runs)
  BY DEF AnySeq
<1>2. R \in Nat /\ R # 0 /\ DOMAIN runs = 1 .. R
  BY <1>1, SequenceParts
<1>3. R \in 1 .. R
  BY <1>2
<1>4. \A r \in 1 .. R : runs[r] \in Seq(Nat)
  OBVIOUS
<1>5. last \in Seq(Nat) /\ grown \in Seq(Nat)
  <2>1. last \in Seq(Nat)
    BY <1>3, <1>4
  <2> HIDE DEF last
  <2> QED BY <2>1
<1>6. new = [runs EXCEPT ![R] = grown]
  BY DEF Joined
<1>7. Last(runs) = runs[R]
  BY DEF Last
<1> HIDE DEF grown, last
<1>8. new[R] = grown /\ DOMAIN new = 1 .. R /\ \A r \in 1 .. R : r # R => new[r] = runs[r]
  <2> HIDE DEF R
  <2> QED BY <1>2, <1>3, <1>6
<1>9. \A r \in 1 .. R : new[r] \in Seq(Nat)
  BY <1>4, <1>5, <1>8
<1>10. new = [r \in 1 .. R |-> new[r]]
  <2> HIDE DEF R
  <2> QED BY <1>2, <1>6
<1>11. AnySeq(new) /\ Len(new) = R
  <2> HIDE DEF R
  <2> QED BY <1>2, <1>8, <1>10, MadeSequence
<1>12. new \in Seq(Seq(Nat))
  BY <1>9, <1>11, SequenceOver
<1> QED BY <1>2, <1>5, <1>7, <1>8, <1>11, <1>12 DEF grown, last

LEMMA GrownSums ==
  ASSUME Opened, GridDims # << >>, NEW acc \in RunSums, NEW i \in 1 .. N(MergeDim), NEW p \in Nat
  PROVE  Grown(acc, i, p) \in RunSums
<1> DEFINE more == resolved[MergeDim][i] * p
           next == Grown(acc, i, p)
<1>1. i \in Nat /\ more \in Nat
  <2>1. MergeDim \in DOMAIN resolved
    BY MergeDimInGrid
  <2>2. resolved[MergeDim] \in [1 .. N(MergeDim) -> Nat] /\ N(MergeDim) \in Nat
    BY <2>1, OpenedParts
  <2>3. resolved[MergeDim][i] \in Nat
    BY <2>2
  <2> QED BY <2>2, <2>3
<1>2. acc.runs \in Seq(Seq(Nat)) /\ acc.rows \in Nat
  BY DEF RunSums
<1> DEFINE joined == [acc.runs EXCEPT ![Len(acc.runs)] = Append(@, i)]
<1>3. \/ acc.runs # << >> /\ next = [runs |-> joined, rows |-> acc.rows + more]
      \/ next = [runs |-> Append(acc.runs, <<i>>), rows |-> more]
  BY DEF Grown
<1>4. acc.runs # << >> => joined \in Seq(Seq(Nat))
  <2>1. joined = Joined(acc.runs, i)
    BY DEF Joined
  <2> HIDE DEF joined
  <2> QED BY <1>1, <1>2, <2>1, LastReplaced
<1>5. Append(acc.runs, <<i>>) \in Seq(Seq(Nat))
  BY <1>1, <1>2
<1> HIDE DEF more, next, joined
<1>6. acc.rows + more \in Nat
  BY <1>1, <1>2
<1>7. next \in RunSums
  <2>1. CASE acc.runs # << >> /\ next = [runs |-> joined, rows |-> acc.rows + more]
    BY <1>4, <1>6, <2>1 DEF RunSums
  <2>2. CASE next = [runs |-> Append(acc.runs, <<i>>), rows |-> more]
    BY <1>1, <1>5, <2>2 DEF RunSums
  <2> QED BY <1>3, <2>1, <2>2
<1> QED BY <1>7 DEF next

LEMMA GrownHas ==
  ASSUME Opened, GridDims # << >>, NEW C, InOrderUpto(C, N(MergeDim)), NEW p \in Nat,
         NEW k \in Nat, k + 1 <= Len(C), NEW acc, NEW lo, NEW hi, RunsHave(acc, lo, hi, C, p, k)
  PROVE  \E from, to : RunsHave(Grown(acc, C[k + 1], p), from, to, C, p, k + 1)
<1> DEFINE i == C[k + 1]
           n == N(MergeDim)
           b == Bounds(MergeDim)
           runs == acc.runs
           rows == acc.rows
           R == Len(runs)
           more == resolved[MergeDim][i] * p
           next == Grown(acc, i, p)
           joined == [runs EXCEPT ![Len(runs)] = Append(@, i)]
           added == Append(runs, <<i>>)
<1>1. MergeDim \in DOMAIN resolved
  BY MergeDimInGrid
<1>2. /\ n \in Nat /\ resolved[MergeDim] \in [1 .. n -> Nat]
      /\ \A j \in 1 .. n + 1 : b[j] \in Nat
      /\ \A j \in 1 .. n : b[j + 1] = b[j] + resolved[MergeDim][j]
  <2>1. /\ n \in Nat /\ resolved[MergeDim] \in [1 .. n -> Nat]
        /\ CutsAt(b, resolved[MergeDim], dataset.size[MergeDim])
    BY <1>1, OpenedParts
  <2> QED BY <2>1 DEF CutsAt, N
<1>3. MergesIn(C, n, b, p)
  BY <1>2 DEF MergesIn
<1>4. i \in 1 .. n
  <2>1. Len(C) \in Nat /\ \A j \in 1 .. Len(C) : C[j] \in 1 .. n
    BY SequenceParts DEF InOrderUpto
  <2>2. k + 1 \in 1 .. Len(C)
    BY <2>1
  <2> HIDE DEF n
  <2> QED BY <2>1, <2>2
<1>5. more = (b[i + 1] - b[i]) * p /\ more \in Nat
  <2>1. b[i + 1] = b[i] + resolved[MergeDim][i] /\ b[i] \in Nat /\ resolved[MergeDim][i] \in Nat
    <3> HIDE DEF i, n, b
    <3>1. i \in 1 .. n + 1
      BY <1>2, <1>4
    <3> QED BY <1>2, <1>4, <3>1
  <2>2. b[i + 1] - b[i] = resolved[MergeDim][i]
    <3> DEFINE x == b[i]
               y == resolved[MergeDim][i]
    <3>1. b[i + 1] = x + y /\ x \in Nat /\ y \in Nat
      BY <2>1
    <3> HIDE DEF x, y
    <3>2. b[i + 1] - x = y
      BY <3>1
    <3> QED BY <3>2 DEF x, y
  <2> QED BY <2>1, <2>2
<1>6. /\ runs \in Seq(Seq(Nat)) /\ rows \in Nat
      /\ \A r \in 1 .. R : runs[r] # << >> /\ lo[r] = Head(runs[r]) /\ hi[r] = Last(runs[r])
      /\ Spans(lo, hi, R, rows, C, n, b, p, coalesce_rows, k)
  BY DEF RunsHave, RunSums
<1>7. next \in RunSums
  <2>1. acc \in RunSums
    BY DEF RunsHave
  <2> HIDE DEF i
  <2> QED BY <1>4, <2>1, GrownSums
<1>8. next = IF runs # << >> /\ i = Last(Last(runs)) + 1 /\ rows + more <= coalesce_rows
             THEN [runs |-> joined, rows |-> rows + more] ELSE [runs |-> added, rows |-> more]
  BY DEF Grown
<1>9. i \in Nat
  <2> HIDE DEF i, n
  <2> QED BY <1>2, <1>4
<1> HIDE DEF next, joined, added, more, runs, rows
<1>10. AnySeq(runs) /\ R \in Nat /\ (runs # << >> <=> R # 0)
  <2>1. AnySeq(runs)
    BY <1>6 DEF AnySeq
  <2> QED BY <2>1, SequenceParts
<1>11. CASE runs # << >> /\ i = Last(Last(runs)) + 1 /\ rows + more <= coalesce_rows
  <2> DEFINE to == [r \in 1 .. R |-> IF r = R THEN i ELSE hi[r]]
  <2>1. next.runs = joined /\ next.rows = rows + more
    BY <1>8, <1>11
  <2>2. /\ joined \in Seq(Seq(Nat)) /\ Len(joined) = R /\ R \in Nat \ {0}
        /\ Last(runs) = runs[R] /\ runs[R] \in Seq(Nat) /\ joined[R] = Append(runs[R], i)
        /\ \A r \in 1 .. R : r # R => joined[r] = runs[r]
    <3>1. joined = Joined(runs, i)
      BY DEF joined, Joined
    <3>2. runs \in Seq(Seq(Nat)) /\ runs # << >> /\ i \in Nat
      BY <1>6, <1>9, <1>11
    <3> HIDE DEF i, to
    <3>3. joined \in Seq(Seq(Nat))
      BY <3>1, <3>2, LastReplaced
    <3>4. Len(joined) = Len(runs) /\ Len(runs) \in Nat \ {0}
      BY <3>1, <3>2, LastReplaced
    <3>5. Last(runs) = runs[Len(runs)] /\ runs[Len(runs)] \in Seq(Nat)
      BY <3>1, <3>2, LastReplaced
    <3>6. joined[Len(runs)] = Append(runs[Len(runs)], i)
      BY <3>1, <3>2, LastReplaced
    <3>7. \A r \in 1 .. Len(runs) : r # Len(runs) => joined[r] = runs[r]
      BY <3>1, <3>2, LastReplaced
    <3> QED BY <3>3, <3>4, <3>5, <3>6, <3>7
  <2>3. k # 0
    BY <1>6, <2>2 DEF Spans
  <2>4. hi[R] = C[k] /\ R \in 1 .. R
    BY <1>6, <2>2, <2>3 DEF Spans
  <2>5. i = C[k] + 1
    BY <1>6, <1>11, <2>2, <2>4
  <2>6. Spans(lo, to, R, rows + more, C, n, b, p, coalesce_rows, k + 1)
    <3> HIDE DEF R, n, b
    <3>1. i = C[k + 1]
      OBVIOUS
    <3> HIDE DEF i
    <3> QED BY <1>3, <1>5, <1>6, <1>11, <2>3, <2>5, <3>1, SpansExtend
  <2>7. ASSUME NEW r \in 1 .. R
        PROVE  joined[r] # << >> /\ lo[r] = Head(joined[r]) /\ to[r] = Last(joined[r])
    <3>1. runs[r] # << >> /\ lo[r] = Head(runs[r]) /\ hi[r] = Last(runs[r])
      BY <1>6
    <3>2. CASE r # R
      <4>1. to[r] = hi[r] /\ joined[r] = runs[r]
        BY <2>2, <3>2
      <4> QED BY <3>1, <4>1
    <3>3. CASE r = R
      <4> DEFINE run == runs[R]
      <4>1. to[r] = i /\ joined[r] = Append(run, i)
        BY <2>2, <3>3
      <4>2. run \in Seq(Nat) /\ run # << >> /\ lo[r] = Head(run)
        BY <2>2, <3>1, <3>3
      <4> HIDE DEF run, to, i
      <4>3. Append(run, i) # << >> /\ Last(Append(run, i)) = i /\ Head(Append(run, i)) = Head(run)
        BY <1>9, <4>2, RunEnds
      <4> QED BY <4>1, <4>2, <4>3
    <3> QED BY <3>2, <3>3
  <2> HIDE DEF to
  <2>8. RunsHave(next, lo, to, C, p, k + 1)
    BY <1>7, <2>1, <2>2, <2>6, <2>7 DEF RunsHave
  <2> QED BY <2>8 DEF next
<1>12. CASE ~(runs # << >> /\ i = Last(Last(runs)) + 1 /\ rows + more <= coalesce_rows)
  <2> DEFINE from == [r \in 1 .. R + 1 |-> IF r = R + 1 THEN i ELSE lo[r]]
             to == [r \in 1 .. R + 1 |-> IF r = R + 1 THEN i ELSE hi[r]]
  <2>1. next.runs = added /\ next.rows = more
    BY <1>8, <1>12
  <2>2. /\ Len(added) = R + 1 /\ added[R + 1] = <<i>>
        /\ \A r \in 1 .. R : added[r] = runs[r]
    BY <1>10, AppendedSequence DEF added
  <2>3. Spans(from, to, R + 1, more, C, n, b, p, coalesce_rows, k + 1)
    <3> HIDE DEF R, n, b
    <3>1. i = C[k + 1]
      OBVIOUS
    <3> HIDE DEF i
    <3> QED BY <1>3, <1>5, <1>6, <3>1, SpansAdd, ZenonT(60)
  <2>4. <<i>> # << >> /\ Head(<<i>>) = i /\ Last(<<i>>) = i
    BY <1>9 DEF Last
  <2>5. ASSUME NEW r \in 1 .. R + 1
        PROVE  added[r] # << >> /\ from[r] = Head(added[r]) /\ to[r] = Last(added[r])
    <3>1. CASE r = R + 1
      BY <2>2, <2>4, <3>1
    <3>2. CASE r # R + 1
      <4>1. r \in 1 .. R
        BY <1>10, <3>2
      <4>2. from[r] = lo[r] /\ to[r] = hi[r] /\ added[r] = runs[r]
        BY <2>2, <3>2, <4>1
      <4> QED BY <1>6, <4>1, <4>2
    <3> QED BY <3>1, <3>2
  <2> HIDE DEF from, to
  <2>6. RunsHave(next, from, to, C, p, k + 1)
    BY <1>7, <2>1, <2>2, <2>3, <2>5 DEF RunsHave
  <2> QED BY <2>6 DEF next
<1> QED BY <1>11, <1>12

(* The runs of the chunks of the merged dimension.                            *)
RunsSpan(runs, lo, hi, C, p) ==
  /\ AnySeq(runs)
  /\ \A r \in 1 .. Len(runs) : lo[r] = Head(runs[r]) /\ hi[r] = Last(runs[r])
  /\ \E rows : Spans(lo, hi, Len(runs), rows, C, N(MergeDim), Bounds(MergeDim), p, coalesce_rows, Len(C))

LEMMA RunsAreSpans ==
  ASSUME Opened, GridDims # << >>, NEW C, InOrderUpto(C, N(MergeDim)), NEW p \in Nat
  PROVE  \E lo, hi : RunsSpan(Runs(C, p), lo, hi, C, p)
<1> DEFINE L == Len(C)
           V == RunSums
           next(v, n) == Grown(v, C[n], p)
           step == [n \in 1 .. L |-> [v \in V |-> next(v, n)]]
           pick == [t \in SUBSET (1 .. L) |-> Max(t)]
           base == [runs |-> << >>, rows |-> 0]
           Eq(it) == it = [t \in SUBSET (DOMAIN C) |->
                             IF t = {} THEN [runs |-> << >>, rows |-> 0]
                             ELSE Grown(it[t \ {Max(t)}], C[Max(t)], p)]
<1>1. AnySeq(C) /\ L \in Nat /\ DOMAIN C = 1 .. L /\ \A n \in 1 .. L : C[n] \in 1 .. N(MergeDim)
  BY SequenceParts DEF InOrderUpto
<1>2. ASSUME NEW n \in 1 .. L, NEW v \in V
      PROVE  next(v, n) \in V
  <2>1. C[n] \in 1 .. N(MergeDim)
    BY <1>1
  <2> QED BY <2>1, GrownSums
<1>3. base \in V
  BY DEF RunSums
<1>4. \A t \in SUBSET (1 .. L) : t # {} => Max(t) \in t
  <2> HIDE DEF L
  <2> QED BY <1>1, IntervalEnds
<1> HIDE DEF V, L
<1>5. PICK made \in [SUBSET (1 .. L) -> V] : Folds(made, base, L, pick, step)
  <2>1. step \in [1 .. L -> [V -> V]]
    BY <1>2
  <2>2. \A t \in SUBSET (1 .. L) : t # {} => pick[t] \in t
    BY <1>4
  <2> HIDE DEF step, pick, base
  <2> QED BY <1>1, <1>3, <2>1, <2>2, FoldExists
<1>6. Eq(made)
  <2>1. ASSUME NEW t \in SUBSET (1 .. L), t # {}
        PROVE  made[t] = next(made[t \ {Max(t)}], Max(t))
    <3>1. Max(t) \in 1 .. L /\ made[t \ {Max(t)}] \in V
      BY <1>4, <2>1
    <3>2. made[t] = step[Max(t)][made[t \ {Max(t)}]]
      <4>1. pick[t] = Max(t)
        OBVIOUS
      <4> HIDE DEF pick, step
      <4> QED BY <1>5, <2>1, <4>1 DEF Folds
    <3> HIDE DEF next
    <3> QED BY <3>1, <3>2
  <2>2. made[{}] = [runs |-> << >>, rows |-> 0]
    BY <1>5 DEF Folds
  <2> HIDE DEF pick, step
  <2> QED BY <2>1, <2>2, <1>1
<1> DEFINE it == CHOOSE it : Eq(it)
<1>7. Eq(it)
  <2> HIDE DEF Eq
  <2> QED BY <1>6
<1>8. Runs(C, p) = it[DOMAIN C].runs
  BY Zenon DEF Runs, FoldLeft, MapThenFoldSet, Grown
<1> HIDE DEF it
<1> DEFINE g == [n \in 0 .. L |-> it[1 .. n]]
<1>9. g[0] = base
  BY <1>1, <1>7
<1>10. ASSUME NEW n \in 1 .. L
       PROVE  g[n] = next(g[n - 1], n)
  <2>1. 1 .. n \in SUBSET (DOMAIN C) /\ 1 .. n # {}
    <3>1. n \in 1 .. n /\ \A i \in 1 .. n : i \in 1 .. L
      BY <1>1
    <3> QED BY <1>1, <3>1
  <2>2. Max(1 .. n) = n /\ (1 .. n) \ {n} = 1 .. n - 1
    BY <1>1, IntervalTop
  <2> DEFINE t == 1 .. n
  <2>3. it[t] = next(it[t \ {Max(t)}], Max(t))
    <3>1. t \in SUBSET (DOMAIN C) /\ t # {}
      BY <2>1
    <3> HIDE DEF t
    <3> QED BY <3>1, <1>7
  <2>4. it[1 .. n] = next(it[1 .. n - 1], n)
    BY <2>2, <2>3
  <2> QED BY <1>1, <2>4
<1>11. Runs(C, p) = g[L].runs
  BY <1>1, <1>8
<1> HIDE DEF g
<1> DEFINE P(n) == \E lo, hi : RunsHave(g[n], lo, hi, C, p, n)
           S == {n \in Nat : n <= L => P(n)}
<1>12. 0 \in S
  <2> DEFINE lo == [r \in 1 .. 0 |-> 0]
             n == N(MergeDim)
  <2>1. base.runs = << >> /\ base.rows = 0 /\ Len(<< >>) = 0
    OBVIOUS
  <2>2. lo \in [1 .. 0 -> 1 .. n]
    OBVIOUS
  <2> HIDE DEF lo, n
  <2>3. Spans(lo, lo, 0, 0, C, n, Bounds(MergeDim), p, coalesce_rows, 0)
    BY <2>2 DEF Spans
  <2> HIDE DEF base
  <2>4. RunsHave(base, lo, lo, C, p, 0)
    BY <1>3, <2>1, <2>3 DEF RunsHave, V, n
  <2> QED BY <1>9, <2>4
<1>13. ASSUME NEW n \in S
       PROVE  n + 1 \in S
  <2> SUFFICES ASSUME n + 1 <= L
               PROVE  P(n + 1)
    OBVIOUS
  <2>1. n \in Nat /\ n + 1 \in 1 .. L /\ (n + 1) - 1 = n /\ n <= L
    BY <1>1
  <2>2. P(n)
    BY <2>1
  <2>3. PICK lo : \E hi : RunsHave(g[n], lo, hi, C, p, n)
    BY <2>2
  <2>4. PICK hi : RunsHave(g[n], lo, hi, C, p, n)
    BY <2>3
  <2>5. g[n + 1] = Grown(g[n], C[n + 1], p)
    BY <1>10, <2>1
  <2>6. n + 1 <= Len(C)
    BY DEF L
  <2> QED BY <2>1, <2>4, <2>5, <2>6, GrownHas
<1>14. S \in SUBSET Nat
  OBVIOUS
<1> HIDE DEF P
<1>15. L \in S
  <2> HIDE DEF S
  <2> QED BY <1>1, <1>12, <1>13, <1>14, InductiveSet
<1>16. P(L)
  BY <1>1, <1>15
<1>17. PICK lo : \E hi : RunsHave(g[L], lo, hi, C, p, L)
  BY <1>16 DEF P
<1>18. PICK hi : RunsHave(g[L], lo, hi, C, p, L)
  BY <1>17
<1> DEFINE runs == g[L].runs
<1>19. AnySeq(runs)
  BY <1>18 DEF RunsHave, RunSums, AnySeq
<1>20. \A r \in 1 .. Len(runs) : lo[r] = Head(runs[r]) /\ hi[r] = Last(runs[r])
  BY <1>18 DEF RunsHave
<1>21. Spans(lo, hi, Len(runs), g[L].rows, C, N(MergeDim), Bounds(MergeDim), p, coalesce_rows, Len(C))
  BY <1>18 DEF RunsHave, L
<1> HIDE DEF runs
<1>22. RunsSpan(runs, lo, hi, C, p)
  BY <1>19, <1>20, <1>21 DEF RunsSpan
<1> QED BY <1>11, <1>22 DEF runs

-----------------------------------------------------------------------------
(* Merged blocks: those of a prefix are those of the runs of its chunks.      *)
StemsOf(kept) == Combos([kept EXCEPT ![MergeDim] = <<1>>])

OthersOf(prefix) == Restrict(prefix, DOMAIN prefix \ {MergeDim})

MergedBlock(prefix, from, to) ==
  [BlockForCombo(prefix) EXCEPT ![MergeDim] = <<Bounds(MergeDim)[from], Bounds(MergeDim)[to + 1]>>]

Merged(kept, prefix) ==
  LET runs == Runs(kept[MergeDim], RowsOfCombo(OthersOf(prefix)))
  IN  [r \in DOMAIN runs |-> MergedBlock(prefix, Head(runs[r]), Last(runs[r]))]

\* A combination of the dimensions that are not merged.
IsStem(prefix, kept) ==
  /\ DOMAIN prefix = DOMAIN resolved /\ prefix = [d \in DOMAIN resolved |-> prefix[d]]
  /\ prefix[MergeDim] = 1
  /\ \A d \in DOMAIN resolved \ {MergeDim} : prefix[d] \in ToSet(kept[d])

LEMMA PrefixesOfChoice ==
  ASSUME Opened, GridDims # << >>, NEW kept, IsKept(kept)
  PROVE  /\ AnySeq(StemsOf(kept)) /\ Distinct(StemsOf(kept))
         /\ \A p \in 1 .. Len(StemsOf(kept)) : IsStem(StemsOf(kept)[p], kept)
         /\ \A prefix : IsStem(prefix, kept) => \E p \in 1 .. Len(StemsOf(kept)) : StemsOf(kept)[p] = prefix
<1> DEFINE first == [kept EXCEPT ![MergeDim] = <<1>>]
           q == StemsOf(kept)
<1>1. MergeDim \in DOMAIN resolved
  BY MergeDimInGrid
<1>2. IsChoice(kept) /\ DOMAIN kept = DOMAIN resolved
  BY KeptIsChoice DEF IsKept
<1>3. q = Combos(first)
  BY DEF StemsOf
<1>4. first = [d \in DOMAIN resolved |-> first[d]] /\ first[MergeDim] = <<1>>
      /\ \A d \in DOMAIN resolved \ {MergeDim} : first[d] = kept[d]
  BY <1>1, <1>2
<1> HIDE DEF first, q
<1>5. AnySeq(<<1>>) /\ Distinct(<<1>>) /\ ToSet(<<1>>) = {1}
  <2>1. <<1>> \in Seq({1}) /\ Len(<<1>>) = 1 /\ DOMAIN <<1>> = {1} /\ <<1>>[1] = 1
    OBVIOUS
  <2> QED BY <2>1 DEF AnySeq, Distinct, ToSet
<1>6. \A d \in DOMAIN resolved : AnySeq(kept[d]) /\ Distinct(kept[d])
  BY <1>2 DEF IsChoice
<1>7. IsChoice(first)
  BY <1>4, <1>5, <1>6 DEF IsChoice
<1>8. ASSUME NEW prefix
      PROVE  IsCombo(prefix, first) <=> IsStem(prefix, kept)
  BY <1>1, <1>4, <1>5 DEF IsCombo, IsStem
<1>9. /\ AnySeq(Combos(first)) /\ Distinct(Combos(first))
      /\ \A p \in 1 .. Len(Combos(first)) : IsCombo(Combos(first)[p], first)
      /\ \A combo : IsCombo(combo, first) => \E p \in 1 .. Len(Combos(first)) : Combos(first)[p] = combo
  BY <1>7, CombosOfChoice
<1> QED BY <1>3, <1>8, <1>9 DEF q

(* The number of rows is that of the positions of each dimension.             *)
Factors(positions) ==
  [k \in DOMAIN dataset.dims |->
     LET d == dataset.dims[k]
     IN  IF d \in DOMAIN positions THEN positions[d]
         ELSE IF d \in DOMAIN resolved THEN 1 ELSE dataset.size[d]]

LEMMA FactorsAreNat ==
  ASSUME Opened, NEW positions, \A d \in DOMAIN positions : positions[d] \in Nat
  PROVE  /\ Len(dataset.dims) \in Nat /\ Factors(positions) \in [1 .. Len(dataset.dims) -> Nat]
         /\ RowsOf(positions) = Product(Factors(positions)) /\ RowsOf(positions) \in Nat
<1>1. IsGrid(dataset) /\ AnySeq(dataset.dims) /\ ToSet(dataset.dims) = DimsOf(dataset)
  BY OpenedParts, DimsAreDims DEF AreDims
<1> DEFINE L == Len(dataset.dims)
           f == Factors(positions)
<1>2. L \in Nat /\ DOMAIN dataset.dims = 1 .. L
  BY <1>1, SequenceParts
<1>3. \A k \in 1 .. L : dataset.dims[k] \in DimsOf(dataset) /\ dataset.size[dataset.dims[k]] \in Nat
  <2>1. \A k \in 1 .. L : dataset.dims[k] \in DimsOf(dataset)
    BY <1>1, <1>2 DEF ToSet
  <2> QED BY <1>1, <2>1 DEF IsGrid
<1>4. f \in [1 .. L -> Nat]
  <2> HIDE DEF L
  <2> QED BY <1>2, <1>3 DEF Factors
<1>5. RowsOf(positions) = Product(f)
  BY DEF RowsOf, Factors
<1> HIDE DEF f, L
<1>6. Product(f) \in Nat
  <2>1. PICK g \in [0 .. L -> Nat] : Products(g, L, f) /\ Product(f) = g[L]
    BY <1>2, <1>4, ProductFold
  <2>2. L \in 0 .. L
    BY <1>2
  <2> QED BY <2>1, <2>2
<1> QED BY <1>2, <1>4, <1>5, <1>6 DEF f, L

LEMMA PrefixRows ==
  ASSUME Opened, GridDims # << >>, NEW kept, IsKept(kept), NEW prefix, IsStem(prefix, kept),
         NEW positions, positions = [d \in DOMAIN OthersOf(prefix) |-> resolved[d][OthersOf(prefix)[d]]]
  PROVE  /\ DOMAIN positions = DOMAIN resolved \ {MergeDim}
         /\ \A d \in DOMAIN positions :
              /\ positions[d] = Bounds(d)[prefix[d] + 1] - Bounds(d)[prefix[d]]
              /\ positions[d] \in Nat /\ prefix[d] \in 1 .. N(d)
         /\ RowsOfCombo(OthersOf(prefix)) = RowsOf(positions) /\ RowsOf(positions) \in Nat
<1>1. DOMAIN OthersOf(prefix) = DOMAIN resolved \ {MergeDim}
      /\ \A d \in DOMAIN OthersOf(prefix) : OthersOf(prefix)[d] = prefix[d]
  BY DEF OthersOf, Restrict, IsStem
<1>2. DOMAIN positions = DOMAIN resolved \ {MergeDim} /\ \A d \in DOMAIN positions : positions[d] = resolved[d][prefix[d]]
  BY <1>1
<1>3. ASSUME NEW d \in DOMAIN positions
      PROVE  /\ positions[d] = Bounds(d)[prefix[d] + 1] - Bounds(d)[prefix[d]]
             /\ positions[d] \in Nat /\ prefix[d] \in 1 .. N(d)
  <2> DEFINE i == prefix[d]
             b == Bounds(d)
             n == N(d)
             size == resolved[d][i]
  <2>1. d \in DOMAIN resolved /\ i \in ToSet(kept[d])
    BY <1>2 DEF IsStem
  <2>2. i \in 1 .. n /\ n \in Nat /\ resolved[d] \in [1 .. n -> Nat] /\ CutsAt(b, resolved[d], dataset.size[d])
    BY <2>1, KeptMembers, OpenedParts
  <2>3. \A j \in 1 .. n + 1 : b[j] \in Nat
    BY <2>2 DEF CutsAt, N
  <2>4. b[i + 1] = b[i] + size
    BY <2>2 DEF CutsAt, N
  <2>5. size \in Nat
    BY <2>2
  <2> HIDE DEF i, b, n, size
  <2>6. i \in 1 .. n + 1
    BY <2>2
  <2>7. b[i] \in Nat
    BY <2>3, <2>6
  <2> DEFINE x == b[i]
             y == b[i + 1]
  <2>8. x \in Nat /\ y = x + size
    BY <2>4, <2>7
  <2> HIDE DEF x, y
  <2>9. size = y - x
    BY <2>5, <2>8
  <2>10. positions[d] = size
    BY <1>2 DEF size, i
  <2> QED BY <2>2, <2>5, <2>9, <2>10 DEF x, y, b, i, n
<1>4. RowsOfCombo(OthersOf(prefix)) = RowsOf(positions)
  BY DEF RowsOfCombo
<1>5. RowsOf(positions) \in Nat
  BY <1>3, FactorsAreNat
<1> QED BY <1>2, <1>3, <1>4, <1>5

(* The positions of consecutive chunks are those of a range.                  *)
LEMMA SpanOfChunks ==
  ASSUME Opened, NEW d \in DOMAIN resolved, NEW from \in 1 .. N(d), NEW to \in 1 .. N(d), from <= to, NEW x \in Nat
  PROVE  Bounds(d)[from] <= x /\ x < Bounds(d)[to + 1] <=> \E i \in from .. to : InChunk(d, i, x)
<1> DEFINE b == Bounds(d)
           n == N(d)
<1>1. n \in Nat /\ CutsAt(b, resolved[d], dataset.size[d]) /\ dataset.size[d] \in Nat
  BY OpenedParts
<1>2. /\ \A j \in 1 .. n + 1 : b[j] \in Nat
      /\ \A j, k \in 1 .. n + 1 : j <= k => b[j] <= b[k]
      /\ b[n + 1] = dataset.size[d]
  BY <1>1 DEF CutsAt, N
<1>3. \A i : InChunk(d, i, x) <=> b[i] <= x /\ x < b[i + 1]
  BY DEF InChunk
<1>4. x < dataset.size[d] => \E i \in 1 .. n : InChunk(d, i, x)
  BY ChunkOfPosition
<1>5. from \in 1 .. n /\ to \in 1 .. n
  OBVIOUS
<1> HIDE DEF b, n
<1>6. from \in 1 .. n + 1 /\ to + 1 \in 1 .. n + 1 /\ n + 1 \in 1 .. n + 1 /\ to + 1 <= n + 1
  BY <1>1, <1>5
<1>7. ASSUME b[from] <= x, x < b[to + 1]
      PROVE  \E i \in from .. to : InChunk(d, i, x)
  <2>1. b[to + 1] <= b[n + 1] /\ b[to + 1] \in Nat
    BY <1>2, <1>6
  <2>2. x < dataset.size[d]
    <3> DEFINE y == b[to + 1]
    <3>1. y \in Nat /\ x < y /\ y <= dataset.size[d]
      BY <1>2, <1>7, <2>1
    <3> HIDE DEF y
    <3> QED BY <1>1, <3>1
  <2>3. PICK i \in 1 .. n : InChunk(d, i, x)
    BY <1>4, <2>2
  <2>4. i \in 1 .. n + 1 /\ i + 1 \in 1 .. n + 1 /\ b[i] <= x /\ x < b[i + 1]
    BY <1>1, <1>3, <2>3
  <2>5. from <= i
    <3> SUFFICES ASSUME i + 1 <= from
                 PROVE  FALSE
      BY <1>5, <2>3
    <3>1. b[i + 1] <= b[from] /\ b[i + 1] \in Nat /\ b[from] \in Nat
      BY <1>2, <1>6, <2>4
    <3> QED BY <1>7, <2>4, <3>1
  <2>6. i <= to
    <3> SUFFICES ASSUME to + 1 <= i
                 PROVE  FALSE
      BY <1>5, <2>3
    <3>1. b[to + 1] <= b[i] /\ b[to + 1] \in Nat /\ b[i] \in Nat
      BY <1>2, <1>6, <2>4
    <3> QED BY <1>7, <2>4, <3>1
  <2>7. i \in from .. to
    BY <1>5, <2>3, <2>5, <2>6
  <2> QED BY <2>3, <2>7
<1>8. ASSUME NEW i \in from .. to, InChunk(d, i, x)
      PROVE  b[from] <= x /\ x < b[to + 1]
  <2>1. i \in 1 .. n + 1 /\ i + 1 \in 1 .. n + 1 /\ from <= i /\ i + 1 <= to + 1
    BY <1>1, <1>5
  <2>2. /\ b[from] <= b[i] /\ b[i + 1] <= b[to + 1]
        /\ b[from] \in Nat /\ b[i] \in Nat /\ b[i + 1] \in Nat /\ b[to + 1] \in Nat
    BY <1>2, <1>6, <2>1
  <2>3. b[i] <= x /\ x < b[i + 1]
    BY <1>3, <1>8
  <2> DEFINE y == b[i]
             z == b[i + 1]
             v == b[from]
             w == b[to + 1]
  <2>4. v <= y /\ z <= w /\ v \in Nat /\ y \in Nat /\ z \in Nat /\ w \in Nat /\ y <= x /\ x < z
    BY <2>2, <2>3
  <2> HIDE DEF v, w, y, z
  <2>5. v <= x /\ x < w
    BY <2>4
  <2> QED BY <2>5 DEF v, w
<1> QED BY <1>7, <1>8 DEF b

(* A merged block is that of its prefix and of its run of chunks.             *)
IsRun(from, to) == from \in 1 .. N(MergeDim) /\ to \in 1 .. N(MergeDim) /\ from <= to

LEMMA MergedIsBlock ==
  ASSUME Opened, GridDims # << >>, NEW kept, IsKept(kept), NEW prefix, IsStem(prefix, kept),
         NEW from, NEW to, IsRun(from, to)
  PROVE  /\ IsBlock(dataset, MergedBlock(prefix, from, to))
         /\ \A c : InBlock(dataset, MergedBlock(prefix, from, to), c) <=>
              /\ InBlock(dataset, WholeGrid(dataset), c)
              /\ \A d \in DOMAIN resolved \ {MergeDim} : InChunk(d, prefix[d], c[d])
              /\ \E i \in from .. to : InChunk(MergeDim, i, c[MergeDim])
<1> DEFINE M == MergeDim
           first == [d \in DOMAIN resolved |-> IF d = M THEN from ELSE prefix[d]]
           last == [d \in DOMAIN resolved |-> IF d = M THEN to ELSE prefix[d]]
           lo == [d \in DOMAIN resolved |-> Bounds(d)[first[d]]]
           hi == [d \in DOMAIN resolved |-> Bounds(d)[last[d] + 1]]
           block == MergedBlock(prefix, from, to)
<1>1. M \in DOMAIN resolved /\ DOMAIN resolved \subseteq DimsOf(dataset) /\ DOMAIN prefix = DOMAIN resolved
  BY MergeDimInGrid, OpenedParts DEF IsStem
<1>2. \A d \in DOMAIN resolved : lo[d] = Bounds(d)[first[d]] /\ hi[d] = Bounds(d)[last[d] + 1]
  OBVIOUS
<1>3. first[M] = from /\ last[M] = to /\ \A d \in DOMAIN resolved \ {M} : first[d] = prefix[d] /\ last[d] = prefix[d]
  BY <1>1
<1> HIDE DEF first, last
<1>4. \A d \in DOMAIN resolved \ {M} : lo[d] = Bounds(d)[prefix[d]] /\ hi[d] = Bounds(d)[prefix[d] + 1]
  BY <1>2, <1>3
<1>5. lo[M] = Bounds(M)[from] /\ hi[M] = Bounds(M)[to + 1]
  BY <1>1, <1>2, <1>3
<1> HIDE DEF lo, hi
<1>6. block = [d \in DimsOf(dataset) |-> IF d \in DOMAIN resolved THEN <<lo[d], hi[d]>> ELSE Full]
  <2> DEFINE b == BlockForCombo(prefix)
             ends == <<Bounds(M)[from], Bounds(M)[to + 1]>>
  <2>1. b = [d \in DimsOf(dataset) |-> IF d \in DOMAIN resolved THEN <<Bounds(d)[prefix[d]], Bounds(d)[prefix[d] + 1]>>
                                       ELSE Full]
    BY <1>1 DEF BlockForCombo
  <2>2. ends = <<lo[M], hi[M]>>
    BY <1>5
  <2>3. block = [b EXCEPT ![M] = ends]
    BY DEF MergedBlock
  <2> HIDE DEF b, ends, block, M
  <2>4. block = [d \in DimsOf(dataset) |-> IF d = M THEN ends ELSE b[d]]
    BY <2>1, <2>3
  <2>5. \A d \in DimsOf(dataset) :
          (IF d = M THEN ends ELSE b[d]) = (IF d \in DOMAIN resolved THEN <<lo[d], hi[d]>> ELSE Full)
    BY <1>1, <1>4, <2>1, <2>2
  <2> QED BY <2>4, <2>5
<1> HIDE DEF block
<1>7. ASSUME NEW d \in DOMAIN resolved
      PROVE  lo[d] \in Nat /\ hi[d] \in Nat /\ lo[d] <= hi[d] /\ hi[d] <= dataset.size[d]
  <2>1. first[d] \in 1 .. N(d) /\ last[d] \in first[d] .. N(d)
    <3>1. CASE d = M
      BY <1>3, <3>1 DEF IsRun
    <3>2. CASE d # M
      <4>1. first[d] = prefix[d] /\ last[d] = prefix[d] /\ prefix[d] \in ToSet(kept[d])
        BY <1>3, <3>2 DEF IsStem
      <4>2. prefix[d] \in 1 .. N(d) /\ N(d) \in Nat
        BY <4>1, KeptMembers
      <4> QED BY <4>1, <4>2
    <3> QED BY <3>1, <3>2
  <2> DEFINE i == first[d]
             j == last[d]
  <2> HIDE DEF i, j
  <2>2. /\ Bounds(d)[i] \in Nat /\ Bounds(d)[j + 1] \in Nat
        /\ Bounds(d)[i] <= Bounds(d)[j + 1] /\ Bounds(d)[j + 1] <= dataset.size[d]
    BY <2>1, ChunkEnds DEF i, j
  <2> QED BY <1>2, <2>2 DEF i, j
<1>8. /\ IsBlock(dataset, block)
      /\ \A c : InBlock(dataset, block, c) <=>
           /\ InBlock(dataset, WholeGrid(dataset), c)
           /\ \A d \in DOMAIN resolved : lo[d] <= c[d] /\ c[d] < hi[d]
  BY <1>6, <1>7, SlicedBlock
<1>9. ASSUME NEW c, InBlock(dataset, WholeGrid(dataset), c)
      PROVE  (\A d \in DOMAIN resolved : lo[d] <= c[d] /\ c[d] < hi[d]) <=>
               /\ \A d \in DOMAIN resolved \ {M} : InChunk(d, prefix[d], c[d])
               /\ \E i \in from .. to : InChunk(M, i, c[M])
  <2>1. \A d \in DOMAIN resolved \ {M} : lo[d] <= c[d] /\ c[d] < hi[d] <=> InChunk(d, prefix[d], c[d])
    BY <1>4 DEF InChunk
  <2>2. c[M] \in Nat
    BY <1>1, <1>9 DEF InBlock
  <2>3. lo[M] <= c[M] /\ c[M] < hi[M] <=> \E i \in from .. to : InChunk(M, i, c[M])
    BY <1>1, <1>5, <2>2, SpanOfChunks DEF IsRun
  <2> HIDE DEF M
  <2> QED BY <1>1, <2>1, <2>3
<1> QED BY <1>8, <1>9 DEF block

(* Its rows are those of its chunks.                                          *)
LEMMA MergedRows ==
  ASSUME Opened, GridDims # << >>, NEW kept, IsKept(kept), NEW prefix, IsStem(prefix, kept),
         NEW from, NEW to, IsRun(from, to)
  PROVE  Len(Cells(MergedBlock(prefix, from, to)))
           = (Bounds(MergeDim)[to + 1] - Bounds(MergeDim)[from]) * RowsOfCombo(OthersOf(prefix))
<1> DEFINE M == MergeDim
           positions == [d \in DOMAIN OthersOf(prefix) |-> resolved[d][OthersOf(prefix)[d]]]
           block == MergedBlock(prefix, from, to)
           names == dataset.dims
           a == Shape(dataset, block, names)
           b == Factors(positions)
           span == Bounds(M)[to + 1] - Bounds(M)[from]
<1>1. /\ DOMAIN positions = DOMAIN resolved \ {M}
      /\ \A d \in DOMAIN positions :
           /\ positions[d] = Bounds(d)[prefix[d] + 1] - Bounds(d)[prefix[d]]
           /\ positions[d] \in Nat /\ prefix[d] \in 1 .. N(d)
      /\ RowsOfCombo(OthersOf(prefix)) = RowsOf(positions) /\ RowsOf(positions) \in Nat
  BY PrefixRows
<1> HIDE DEF positions
<1>2. /\ Len(names) \in Nat /\ b \in [1 .. Len(names) -> Nat] /\ RowsOf(positions) = Product(b)
  BY <1>1, FactorsAreNat
<1>3. IsBlock(dataset, block)
  BY MergedIsBlock
<1>4. IsGrid(dataset) /\ AreDims(names, dataset)
  BY OpenedParts, DimsAreDims
<1>5. /\ DOMAIN names = 1 .. Len(names)
      /\ \A k \in 1 .. Len(names) : names[k] \in DimsOf(dataset)
      /\ \A d \in DimsOf(dataset) : \E k \in 1 .. Len(names) : d = names[k]
      /\ a \in [1 .. Len(names) -> Nat]
      /\ \A k \in 1 .. Len(names) : a[k] = Len1(dataset, block, names[k])
  BY <1>3, <1>4, ShapeParts
<1>6. M \in DOMAIN resolved /\ DOMAIN resolved \subseteq DimsOf(dataset) /\ DOMAIN prefix = DOMAIN resolved
  BY MergeDimInGrid, OpenedParts DEF IsStem
<1>7. /\ block[M] = <<Bounds(M)[from], Bounds(M)[to + 1]>>
      /\ \A d \in DOMAIN resolved \ {M} : block[d] = <<Bounds(d)[prefix[d]], Bounds(d)[prefix[d] + 1]>>
      /\ \A d \in DimsOf(dataset) \ DOMAIN resolved : block[d] = Full
  <2> DEFINE u == BlockForCombo(prefix)
             ends == <<Bounds(M)[from], Bounds(M)[to + 1]>>
  <2>1. u = [d \in DimsOf(dataset) |-> IF d \in DOMAIN resolved THEN <<Bounds(d)[prefix[d]], Bounds(d)[prefix[d] + 1]>>
                                       ELSE Full]
    BY <1>6 DEF BlockForCombo
  <2>2. block = [u EXCEPT ![M] = ends]
    BY DEF MergedBlock
  <2>3. /\ \A d \in DOMAIN resolved : u[d] = <<Bounds(d)[prefix[d]], Bounds(d)[prefix[d] + 1]>>
        /\ \A d \in DimsOf(dataset) \ DOMAIN resolved : u[d] = Full
        /\ DOMAIN u = DimsOf(dataset) /\ u = [d \in DimsOf(dataset) |-> u[d]]
    BY <1>6, <2>1
  <2> HIDE DEF u, ends, block, M
  <2>4. block[M] = ends /\ \A d \in DimsOf(dataset) \ {M} : block[d] = u[d]
    BY <1>6, <2>2, <2>3
  <2>5. /\ \A d \in DOMAIN resolved \ {M} : block[d] = <<Bounds(d)[prefix[d]], Bounds(d)[prefix[d] + 1]>>
        /\ \A d \in DimsOf(dataset) \ DOMAIN resolved : block[d] = Full
    BY <1>6, <2>3, <2>4
  <2> QED BY <2>4, <2>5 DEF ends, M
<1>8. PICK k \in 1 .. Len(names) : M = names[k]
  BY <1>5, <1>6
<1> HIDE DEF names, block, a, b, M
<1>9. b[k] = 1
  BY <1>1, <1>5, <1>6, <1>8 DEF b, Factors, names
<1>10. a[k] = span
  <2>1. block[M] # Full /\ block[M][1] = Bounds(M)[from] /\ block[M][2] = Bounds(M)[to + 1]
    BY <1>7 DEF Full
  <2> QED BY <1>5, <1>8, <2>1 DEF Len1
<1>11. ASSUME NEW i \in 1 .. Len(names), i # k
       PROVE  a[i] = b[i]
  <2> DEFINE d == names[i]
  <2>1. d \in DimsOf(dataset) /\ d # M /\ a[i] = Len1(dataset, block, d)
    <3>1. d # M
      BY <1>4, <1>8, <1>11 DEF AreDims, Distinct
    <3> QED BY <1>5, <3>1
  <2>2. b[i] = IF d \in DOMAIN positions THEN positions[d]
               ELSE IF d \in DOMAIN resolved THEN 1 ELSE dataset.size[d]
    BY <1>5 DEF b, Factors, names
  <2> HIDE DEF d
  <2>3. CASE d \in DOMAIN resolved
    <3>1. d \in DOMAIN positions /\ positions[d] = Bounds(d)[prefix[d] + 1] - Bounds(d)[prefix[d]]
      BY <1>1, <2>1, <2>3
    <3>2. block[d] = <<Bounds(d)[prefix[d]], Bounds(d)[prefix[d] + 1]>>
      BY <1>7, <2>1, <2>3
    <3>3. block[d] # Full /\ block[d][1] = Bounds(d)[prefix[d]] /\ block[d][2] = Bounds(d)[prefix[d] + 1]
      BY <3>2 DEF Full
    <3> QED BY <2>1, <2>2, <3>1, <3>3 DEF Len1
  <2>4. CASE d \notin DOMAIN resolved
    <3>1. d \notin DOMAIN positions /\ block[d] = Full
      BY <1>1, <1>7, <2>1, <2>4
    <3> QED BY <2>1, <2>2, <2>4, <3>1 DEF Len1
  <2> QED BY <2>3, <2>4
<1>12. Product(a) = a[k] * Product(b)
  BY <1>2, <1>5, <1>9, <1>11, ProductFactor
<1>13. Product(a) = Len(Ravel(dataset, block, names))
  BY <1>3, <1>4, CountOfCells DEF a
<1>14. Len(Cells(block)) = span * RowsOf(positions)
  BY <1>2, <1>10, <1>12, <1>13 DEF Cells, names
<1> QED BY <1>1, <1>14 DEF block, M

(* A run of one chunk is a block of the chunks that are kept.                 *)
LEMMA SingleRun ==
  ASSUME Opened, GridDims # << >>, NEW kept, IsKept(kept), NEW prefix, IsStem(prefix, kept),
         NEW i \in ToSet(kept[MergeDim])
  PROVE  MergedBlock(prefix, i, i) \in ToSet(BlocksOf(Combos(kept)))
<1> DEFINE M == MergeDim
           combo == [prefix EXCEPT ![M] = i]
           combos == Combos(kept)
<1>1. M \in DOMAIN resolved /\ DOMAIN resolved \subseteq DimsOf(dataset) /\ DOMAIN prefix = DOMAIN resolved
  BY MergeDimInGrid, OpenedParts DEF IsStem
<1> HIDE DEF M
<1>2. /\ DOMAIN combo = DOMAIN resolved /\ combo = [d \in DOMAIN resolved |-> combo[d]]
      /\ combo[M] = i /\ \A d \in DOMAIN resolved \ {M} : combo[d] = prefix[d]
  BY <1>1
<1> HIDE DEF combo
<1>3. IsCombo(combo, kept)
  BY <1>2 DEF IsCombo, IsStem, M
<1>4. AnySeq(combos) /\ \E p \in 1 .. Len(combos) : combos[p] = combo
  BY <1>3, KeptIsChoice, CombosOfChoice
<1> HIDE DEF combos
<1>5. PICK p \in 1 .. Len(combos) : combos[p] = combo
  BY <1>4
<1>6. DOMAIN combos = 1 .. Len(combos)
  BY <1>4, SequenceParts
<1>7. DOMAIN BlocksOf(combos) = 1 .. Len(combos) /\ BlocksOf(combos)[p] = BlockForCombo(combo)
  BY <1>5, <1>6 DEF BlocksOf
<1>8. BlockForCombo(combo) \in ToSet(BlocksOf(combos))
  BY <1>7 DEF ToSet
<1>9. MergedBlock(prefix, i, i) = BlockForCombo(combo)
  <2> DEFINE u == BlockForCombo(prefix)
             v == BlockForCombo(combo)
             ends == <<Bounds(M)[i], Bounds(M)[i + 1]>>
  <2>1. u = [d \in DimsOf(dataset) |-> IF d \in DOMAIN resolved THEN <<Bounds(d)[prefix[d]], Bounds(d)[prefix[d] + 1]>>
                                       ELSE Full]
    BY <1>1 DEF BlockForCombo
  <2>2. v = [d \in DimsOf(dataset) |-> IF d \in DOMAIN resolved THEN <<Bounds(d)[combo[d]], Bounds(d)[combo[d] + 1]>>
                                       ELSE Full]
    BY <1>2 DEF BlockForCombo
  <2>3. MergedBlock(prefix, i, i) = [u EXCEPT ![M] = ends]
    BY DEF MergedBlock, M
  <2> HIDE DEF u, v, ends
  <2>4. DOMAIN u = DimsOf(dataset) /\ u = [d \in DimsOf(dataset) |-> u[d]]
    BY <2>1
  <2>5. MergedBlock(prefix, i, i) = [d \in DimsOf(dataset) |-> IF d = M THEN ends ELSE u[d]]
    BY <2>3, <2>4
  <2>6. v[M] = ends
    BY <1>1, <1>2, <2>2 DEF ends
  <2>7. \A d \in DimsOf(dataset) \ {M} : v[d] = u[d]
    BY <1>2, <2>1, <2>2
  <2>8. v = [d \in DimsOf(dataset) |-> v[d]]
    BY <2>2
  <2>9. \A d \in DimsOf(dataset) : (IF d = M THEN ends ELSE u[d]) = v[d]
    BY <2>6, <2>7
  <2>10. MergedBlock(prefix, i, i) = v
    BY <2>5, <2>8, <2>9
  <2> QED BY <2>10 DEF v
<1> QED BY <1>8, <1>9 DEF combos

(* The blocks of a prefix hold the cells of its chunks, each once, and one    *)
(* that is over the limit is that of a chunk.                                 *)
PrefixCell(kept, prefix, c) ==
  /\ InBlock(dataset, WholeGrid(dataset), c)
  /\ \A d \in DOMAIN resolved \ {MergeDim} : InChunk(d, prefix[d], c[d])
  /\ \E i \in ToSet(kept[MergeDim]) : InChunk(MergeDim, i, c[MergeDim])

WithinLimit(block, kept) ==
  block \in ToSet(BlocksOf(Combos(kept))) \/ Len(Cells(block)) <= coalesce_rows

TilesPrefix(q, kept, prefix) ==
  /\ AnySeq(q) /\ \A r \in 1 .. Len(q) : IsBlock(dataset, q[r]) /\ WithinLimit(q[r], kept)
  /\ \A c : (\E r \in 1 .. Len(q) : InBlock(dataset, q[r], c)) <=> PrefixCell(kept, prefix, c)
  /\ \A c : \A r, s \in 1 .. Len(q) : InBlock(dataset, q[r], c) /\ InBlock(dataset, q[s], c) => r = s

LEMMA MergedTiles ==
  ASSUME Opened, GridDims # << >>, NEW kept, IsKept(kept), NEW prefix, IsStem(prefix, kept),
         NEW q, q = Merged(kept, prefix)
  PROVE  TilesPrefix(q, kept, prefix)
<1> DEFINE M == MergeDim
           C == kept[M]
           p == RowsOfCombo(OthersOf(prefix))
           runs == Runs(C, p)
           n == N(M)
           b == Bounds(M)
           R == Len(runs)
<1>1. M \in DOMAIN resolved
  BY MergeDimInGrid
<1>2. p \in Nat
  BY PrefixRows
<1>3. InOrderUpto(C, n) /\ n \in Nat
  BY <1>1, KeptMembers DEF IsKept
<1>4. PICK lo : \E hi : RunsSpan(runs, lo, hi, C, p)
  <2> HIDE DEF p, C
  <2> QED BY <1>2, <1>3, RunsAreSpans DEF M
<1>5. PICK hi : RunsSpan(runs, lo, hi, C, p)
  BY <1>4
<1>6. q = [r \in DOMAIN runs |-> MergedBlock(prefix, Head(runs[r]), Last(runs[r]))]
  BY DEF Merged
<1> HIDE DEF runs, p
<1>7. AnySeq(runs) /\ \A r \in 1 .. R : lo[r] = Head(runs[r]) /\ hi[r] = Last(runs[r])
  BY <1>5 DEF RunsSpan
<1>8. R \in Nat /\ DOMAIN runs = 1 .. R
  BY <1>7, SequenceParts
<1>9. DOMAIN q = 1 .. R /\ q = [r \in 1 .. R |-> q[r]] /\ \A r \in 1 .. R : q[r] = MergedBlock(prefix, lo[r], hi[r])
  BY <1>6, <1>7, <1>8
<1>10. AnySeq(q) /\ Len(q) = R
  BY <1>8, <1>9, MadeSequence
<1>11. PICK rows : Spans(lo, hi, R, rows, C, n, b, p, coalesce_rows, Len(C))
  BY <1>5 DEF RunsSpan
<1>12. /\ lo \in [1 .. R -> 1 .. n] /\ hi \in [1 .. R -> 1 .. n]
       /\ \A r \in 1 .. R : /\ lo[r] <= hi[r]
                            /\ \A i \in lo[r] .. hi[r] : \E j \in 1 .. Len(C) : C[j] = i
                            /\ lo[r] = hi[r] \/ (b[hi[r] + 1] - b[lo[r]]) * p <= coalesce_rows
       /\ \A j \in 1 .. Len(C) : \E r \in 1 .. R : lo[r] <= C[j] /\ C[j] <= hi[r]
       /\ \A r, s \in 1 .. R : r < s => hi[r] < lo[s]
  BY <1>11 DEF Spans, SpanRows
<1>13. /\ DOMAIN C = 1 .. Len(C) /\ \A j \in 1 .. Len(C) : C[j] \in 1 .. n
  BY <1>1, KeptMembers
<1>14. \A i : i \in ToSet(C) <=> \E j \in 1 .. Len(C) : C[j] = i
  BY <1>13 DEF ToSet
<1> HIDE DEF n, b, C, R, M
<1>15. \A r \in 1 .. R : lo[r] \in 1 .. n /\ hi[r] \in 1 .. n /\ lo[r] <= hi[r]
  BY <1>12
<1>16. ASSUME NEW r \in 1 .. R
       PROVE  /\ IsBlock(dataset, q[r])
              /\ \A c : InBlock(dataset, q[r], c) <=>
                   /\ InBlock(dataset, WholeGrid(dataset), c)
                   /\ \A d \in DOMAIN resolved \ {M} : InChunk(d, prefix[d], c[d])
                   /\ \E i \in lo[r] .. hi[r] : InChunk(M, i, c[M])
  <2>1. IsRun(lo[r], hi[r])
    BY <1>15 DEF IsRun, n, M
  <2> QED BY <1>9, <2>1, MergedIsBlock DEF M
<1>17. ASSUME NEW r \in 1 .. R
       PROVE  WithinLimit(q[r], kept)
  <2>1. CASE lo[r] = hi[r]
    <3>1. lo[r] \in lo[r] .. hi[r]
      BY <1>3, <1>15
    <3>2. lo[r] \in ToSet(C)
      BY <1>12, <1>14, <3>1
    <3>3. MergedBlock(prefix, lo[r], lo[r]) \in ToSet(BlocksOf(Combos(kept)))
      BY <3>2, SingleRun DEF C, M
    <3> QED BY <1>9, <2>1, <3>3 DEF WithinLimit
  <2>2. CASE lo[r] # hi[r]
    <3>1. IsRun(lo[r], hi[r])
      BY <1>15 DEF IsRun, n, M
    <3>2. Len(Cells(q[r])) = (b[hi[r] + 1] - b[lo[r]]) * p
      BY <1>9, <3>1, MergedRows DEF b, M, p
    <3> DEFINE total == (b[hi[r] + 1] - b[lo[r]]) * p
    <3>3. total <= coalesce_rows
      BY <1>12, <2>2
    <3> HIDE DEF total
    <3>4. Len(Cells(q[r])) = total
      BY <3>2 DEF total
    <3> QED BY <3>3, <3>4 DEF WithinLimit
  <2> QED BY <2>1, <2>2
<1>18. ASSUME NEW c
       PROVE  (\E r \in 1 .. R : InBlock(dataset, q[r], c)) <=> PrefixCell(kept, prefix, c)
  <2>1. ASSUME NEW r \in 1 .. R, InBlock(dataset, q[r], c)
        PROVE  PrefixCell(kept, prefix, c)
    <3>1. PICK i \in lo[r] .. hi[r] : InChunk(M, i, c[M])
      BY <1>16, <2>1
    <3>2. i \in ToSet(C)
      BY <1>12, <1>14
    <3> QED BY <1>16, <2>1, <3>1, <3>2 DEF PrefixCell, C, M
  <2>2. ASSUME PrefixCell(kept, prefix, c)
        PROVE  \E r \in 1 .. R : InBlock(dataset, q[r], c)
    <3>1. PICK i \in ToSet(C) : InChunk(M, i, c[M])
      BY <2>2 DEF PrefixCell, C, M
    <3>2. PICK j \in 1 .. Len(C) : C[j] = i
      BY <1>14
    <3>3. PICK r \in 1 .. R : lo[r] <= C[j] /\ C[j] <= hi[r]
      BY <1>12
    <3>4. i \in lo[r] .. hi[r]
      BY <1>3, <1>13, <1>15, <3>2, <3>3
    <3> QED BY <1>16, <2>2, <3>1, <3>4 DEF PrefixCell, M
  <2> QED BY <2>1, <2>2
<1>19. ASSUME NEW c, NEW r \in 1 .. R, NEW s \in 1 .. R, InBlock(dataset, q[r], c), InBlock(dataset, q[s], c)
       PROVE  r = s
  <2>1. PICK i \in lo[r] .. hi[r] : InChunk(M, i, c[M])
    BY <1>16, <1>19
  <2>2. PICK j \in lo[s] .. hi[s] : InChunk(M, j, c[M])
    BY <1>16, <1>19
  <2>3. i \in 1 .. n /\ j \in 1 .. n
    BY <1>3, <1>15
  <2>4. c[M] \in Nat
    <3>1. InBlock(dataset, WholeGrid(dataset), c) /\ DOMAIN resolved \subseteq DimsOf(dataset)
      BY <1>16, <1>19, OpenedParts
    <3> QED BY <1>1, <3>1 DEF InBlock, M
  <2>5. i = j
    BY <1>1, <2>1, <2>2, <2>3, <2>4, ChunkOfPosition DEF n, M
  <2>6. ~(hi[r] < lo[s]) /\ ~(hi[s] < lo[r])
    BY <1>3, <1>15, <2>5
  <2>7. ~(r < s) /\ ~(s < r)
    BY <1>12, <2>6
  <2> QED BY <1>8, <2>7
<1> QED BY <1>10, <1>16, <1>17, <1>18, <1>19 DEF TilesPrefix

(* A cell that is kept is one of a single prefix.                             *)
LEMMA PrefixOfCell ==
  ASSUME Opened, GridDims # << >>, NEW kept, IsKept(kept), NEW c
  PROVE  /\ KeptCell(kept, c) <=> \E p \in 1 .. Len(StemsOf(kept)) : PrefixCell(kept, StemsOf(kept)[p], c)
         /\ \A p, q \in 1 .. Len(StemsOf(kept)) :
              PrefixCell(kept, StemsOf(kept)[p], c) /\ PrefixCell(kept, StemsOf(kept)[q], c) => p = q
<1> DEFINE M == MergeDim
           t == StemsOf(kept)
<1>1. M \in DOMAIN resolved
  BY MergeDimInGrid
<1>2. /\ AnySeq(t) /\ Distinct(t) /\ \A p \in 1 .. Len(t) : IsStem(t[p], kept)
      /\ \A prefix : IsStem(prefix, kept) => \E p \in 1 .. Len(t) : t[p] = prefix
  BY PrefixesOfChoice
<1> HIDE DEF t, M
<1>3. ASSUME NEW p \in 1 .. Len(t), PrefixCell(kept, t[p], c)
      PROVE  KeptCell(kept, c)
  <2>1. \A d \in DOMAIN resolved \ {M} : t[p][d] \in ToSet(kept[d]) /\ InChunk(d, t[p][d], c[d])
    BY <1>2, <1>3 DEF IsStem, PrefixCell, M
  <2>2. InBlock(dataset, WholeGrid(dataset), c) /\ \E i \in ToSet(kept[M]) : InChunk(M, i, c[M])
    BY <1>3 DEF PrefixCell, M
  <2> QED BY <1>1, <2>1, <2>2 DEF KeptCell
<1>4. ASSUME KeptCell(kept, c)
      PROVE  \E p \in 1 .. Len(t) : PrefixCell(kept, t[p], c)
  <2> DEFINE prefix == [d \in DOMAIN resolved |-> IF d = M THEN 1 ELSE CHOOSE i \in ToSet(kept[d]) : InChunk(d, i, c[d])]
  <2>1. ASSUME NEW d \in DOMAIN resolved \ {M}
        PROVE  prefix[d] \in ToSet(kept[d]) /\ InChunk(d, prefix[d], c[d])
    <3>1. \E i \in ToSet(kept[d]) : InChunk(d, i, c[d])
      BY <1>4 DEF KeptCell
    <3>2. prefix[d] = CHOOSE i \in ToSet(kept[d]) : InChunk(d, i, c[d])
      OBVIOUS
    <3> HIDE DEF prefix
    <3> QED BY <3>1, <3>2
  <2>2. DOMAIN prefix = DOMAIN resolved /\ prefix = [d \in DOMAIN resolved |-> prefix[d]] /\ prefix[M] = 1
    BY <1>1
  <2> HIDE DEF prefix
  <2>3. IsStem(prefix, kept)
    BY <2>1, <2>2 DEF IsStem, M
  <2>4. PICK p \in 1 .. Len(t) : t[p] = prefix
    BY <1>2, <2>3
  <2>5. PrefixCell(kept, prefix, c)
    BY <1>1, <1>4, <2>1 DEF PrefixCell, KeptCell, M
  <2> QED BY <2>4, <2>5
<1>5. ASSUME NEW p \in 1 .. Len(t), NEW q \in 1 .. Len(t), PrefixCell(kept, t[p], c), PrefixCell(kept, t[q], c)
      PROVE  p = q
  <2>1. IsStem(t[p], kept) /\ IsStem(t[q], kept)
    BY <1>2
  <2>2. ASSUME NEW d \in DOMAIN resolved
        PROVE  t[p][d] = t[q][d]
    <3>1. CASE d = M
      BY <2>1, <3>1 DEF IsStem, M
    <3>2. CASE d # M
      <4>1. t[p][d] \in 1 .. N(d) /\ t[q][d] \in 1 .. N(d)
        BY <2>1, <3>2, KeptMembers DEF IsStem, M
      <4>2. InChunk(d, t[p][d], c[d]) /\ InChunk(d, t[q][d], c[d])
        BY <1>5, <3>2 DEF PrefixCell, M
      <4>3. c[d] \in Nat
        BY <1>5, OpenedParts DEF PrefixCell, InBlock
      <4> QED BY <4>1, <4>2, <4>3, ChunkOfPosition
    <3> QED BY <3>1, <3>2
  <2>3. t[p] = t[q]
    BY <2>1, <2>2 DEF IsStem
  <2> QED BY <1>2, <2>3 DEF Distinct
<1> QED BY <1>3, <1>4, <1>5 DEF t

(* Merging drops and repeats nothing that is kept, reads nothing else, and    *)
(* makes no block over the limit but of a single chunk.                       *)
THEOREM MergingIsExact ==
  ASSUME Opened, GridDims # << >>, NEW kept, IsKept(kept)
  PROVE  /\ IsTiling(CoalescedBlocks(kept), kept)
         /\ \A p \in 1 .. Len(CoalescedBlocks(kept)) : WithinLimit(CoalescedBlocks(kept)[p], kept)
<1> DEFINE t == StemsOf(kept)
           n == Len(t)
           parts == [i \in DOMAIN t |-> Merged(kept, t[i])]
           flat == CoalescedBlocks(kept)
<1>1. AnySeq(t) /\ \A i \in 1 .. n : IsStem(t[i], kept)
  BY PrefixesOfChoice
<1>2. n \in Nat /\ DOMAIN t = 1 .. n
  BY <1>1, SequenceParts
<1>3. flat = FlattenSeq(parts)
  BY DEF CoalescedBlocks, StemsOf, Merged, MergedBlock, OthersOf
<1> HIDE DEF t, flat
<1>4. DOMAIN parts = 1 .. n /\ parts = [i \in 1 .. n |-> parts[i]] /\ \A i \in 1 .. n : parts[i] = Merged(kept, t[i])
  BY <1>2
<1> HIDE DEF parts, n
<1>5. ASSUME NEW i \in 1 .. n
      PROVE  TilesPrefix(parts[i], kept, t[i])
  <2>1. IsStem(t[i], kept) /\ parts[i] = Merged(kept, t[i])
    BY <1>1, <1>4
  <2> QED BY <2>1, MergedTiles
<1>6. AnySeq(parts) /\ Len(parts) = n
  BY <1>2, <1>4, MadeSequence
<1>7. SeqOfSeqs(parts)
  BY <1>5, <1>6 DEF SeqOfSeqs, TilesPrefix
<1>8. PICK off : Placed(flat, parts, off)
  BY <1>3, <1>7, FlattenPlaces
<1>9. /\ AnySeq(flat)
      /\ \A a \in 1 .. n : \A b \in 1 .. Len(parts[a]) :
           off[a - 1] + b \in 1 .. Len(flat) /\ flat[off[a - 1] + b] = parts[a][b]
      /\ \A i \in 1 .. Len(flat) : \E a \in 1 .. n : \E b \in 1 .. Len(parts[a]) : i = off[a - 1] + b
  BY <1>6, <1>8 DEF Placed
<1>10. ASSUME NEW i \in 1 .. Len(flat)
       PROVE  IsBlock(dataset, flat[i]) /\ WithinLimit(flat[i], kept)
  <2>1. PICK a \in 1 .. n : \E b \in 1 .. Len(parts[a]) : i = off[a - 1] + b
    BY <1>9
  <2>2. PICK b \in 1 .. Len(parts[a]) : i = off[a - 1] + b
    BY <2>1
  <2>3. flat[i] = parts[a][b]
    BY <1>9, <2>2
  <2>4. IsBlock(dataset, parts[a][b]) /\ WithinLimit(parts[a][b], kept)
    BY <1>5 DEF TilesPrefix
  <2> QED BY <2>3, <2>4
<1>11. ASSUME NEW c
       PROVE  KeptCell(kept, c) <=> \E a \in 1 .. n : PrefixCell(kept, t[a], c)
  BY PrefixOfCell DEF n, t
<1>12. ASSUME NEW c
       PROVE  (\E i \in 1 .. Len(flat) : InBlock(dataset, flat[i], c)) <=> KeptCell(kept, c)
  <2>1. ASSUME NEW i \in 1 .. Len(flat), InBlock(dataset, flat[i], c)
        PROVE  KeptCell(kept, c)
    <3>1. PICK a \in 1 .. n : \E b \in 1 .. Len(parts[a]) : i = off[a - 1] + b
      BY <1>9
    <3>2. PICK b \in 1 .. Len(parts[a]) : i = off[a - 1] + b
      BY <3>1
    <3>3. flat[i] = parts[a][b]
      BY <1>9, <3>2
    <3>4. PrefixCell(kept, t[a], c)
      BY <1>5, <2>1, <3>3 DEF TilesPrefix
    <3> QED BY <1>11, <3>4
  <2>2. ASSUME KeptCell(kept, c)
        PROVE  \E i \in 1 .. Len(flat) : InBlock(dataset, flat[i], c)
    <3>1. PICK a \in 1 .. n : PrefixCell(kept, t[a], c)
      BY <1>11, <2>2
    <3>2. PICK b \in 1 .. Len(parts[a]) : InBlock(dataset, parts[a][b], c)
      BY <1>5, <3>1 DEF TilesPrefix
    <3>3. off[a - 1] + b \in 1 .. Len(flat) /\ flat[off[a - 1] + b] = parts[a][b]
      BY <1>9
    <3> QED BY <3>2, <3>3
  <2> QED BY <2>1, <2>2
<1>13. ASSUME NEW c, NEW i \in 1 .. Len(flat), NEW j \in 1 .. Len(flat),
              InBlock(dataset, flat[i], c), InBlock(dataset, flat[j], c)
       PROVE  i = j
  <2>1. PICK a \in 1 .. n : \E b \in 1 .. Len(parts[a]) : i = off[a - 1] + b
    BY <1>9
  <2>2. PICK b \in 1 .. Len(parts[a]) : i = off[a - 1] + b
    BY <2>1
  <2>3. PICK e \in 1 .. n : \E g \in 1 .. Len(parts[e]) : j = off[e - 1] + g
    BY <1>9
  <2>4. PICK g \in 1 .. Len(parts[e]) : j = off[e - 1] + g
    BY <2>3
  <2>5. InBlock(dataset, parts[a][b], c) /\ InBlock(dataset, parts[e][g], c)
    BY <1>9, <1>13, <2>2, <2>4
  <2>6. PrefixCell(kept, t[a], c) /\ PrefixCell(kept, t[e], c)
    BY <1>5, <2>5 DEF TilesPrefix
  <2>7. a = e
    BY <2>6, PrefixOfCell DEF n, t
  <2>8. b = g
    BY <1>5, <2>5, <2>7 DEF TilesPrefix
  <2> QED BY <2>2, <2>4, <2>7, <2>8
<1> QED BY <1>9, <1>10, <1>12, <1>13 DEF IsTiling, flat

-----------------------------------------------------------------------------
(* What a scan reads. A dataset that has no dimensions is one block.          *)
LEMMA EmptySequence ==
  ASSUME NEW f, DOMAIN f = {}, f = [x \in {} |-> f[x]]
  PROVE  f = << >>
<1>1. 0 \in Nat /\ DOMAIN f = 1 .. 0 /\ f = [x \in 1 .. 0 |-> f[x]]
  OBVIOUS
<1>2. AnySeq(f) /\ Len(f) = 0
  BY <1>1, MadeSequence
<1> QED BY <1>2, SequenceParts

LEMMA NoGridTiles ==
  ASSUME Opened, GridDims = << >>, NEW kept, IsKept(kept)
  PROVE  BlocksOf(Combos(kept)) = << << >> >>
<1> DEFINE combos == Combos(kept)
           blocks == BlocksOf(combos)
<1>1. DOMAIN resolved = {} /\ DimsOf(dataset) = {}
  <2>1. ToSet(GridDims) = DOMAIN resolved /\ (DOMAIN resolved = {} => DimsOf(dataset) = {})
    BY OpenedParts
  <2>2. ToSet(GridDims) = {}
    <3>1. Len(<< >>) = 0 /\ DOMAIN << >> = {}
      OBVIOUS
    <3> QED BY <3>1 DEF ToSet
  <2> QED BY <2>1, <2>2
<1>2. /\ AnySeq(combos) /\ Distinct(combos)
      /\ \A p \in 1 .. Len(combos) : IsCombo(combos[p], kept)
      /\ \A combo : IsCombo(combo, kept) => \E p \in 1 .. Len(combos) : combos[p] = combo
  BY KeptIsChoice, CombosOfChoice
<1> HIDE DEF combos
<1>3. Len(combos) \in Nat /\ DOMAIN combos = 1 .. Len(combos)
  BY <1>2, SequenceParts
<1>4. ASSUME NEW combo, IsCombo(combo, kept)
      PROVE  combo = << >>
  <2>1. DOMAIN combo = {} /\ combo = [x \in {} |-> combo[x]]
    BY <1>1, <1>4 DEF IsCombo
  <2> QED BY <2>1, EmptySequence
<1>5. \E p \in 1 .. Len(combos) : TRUE
  <2> DEFINE e == [x \in {} |-> x]
  <2>1. DOMAIN e = {} /\ e = [x \in {} |-> e[x]]
    OBVIOUS
  <2> HIDE DEF e
  <2>2. IsCombo(e, kept)
    BY <1>1, <2>1 DEF IsCombo
  <2> QED BY <1>2, <2>2
<1>6. \A p \in 1 .. Len(combos) : combos[p] = << >>
  BY <1>2, <1>4
<1>7. \A p, q \in 1 .. Len(combos) : p = q
  BY <1>2, <1>6 DEF Distinct
<1>8. Len(combos) = 1
  <2>1. 1 \in 1 .. Len(combos) /\ Len(combos) \in 1 .. Len(combos)
    BY <1>3, <1>5
  <2> QED BY <1>7, <2>1
<1>9. blocks = [p \in 1 .. Len(combos) |-> BlockForCombo(combos[p])]
  BY <1>3 DEF BlocksOf
<1> HIDE DEF blocks
<1>10. DOMAIN blocks = 1 .. 1 /\ blocks = [p \in 1 .. 1 |-> blocks[p]] /\ blocks[1] = BlockForCombo(combos[1])
  BY <1>8, <1>9
<1>11. AnySeq(blocks) /\ Len(blocks) = 1
  BY <1>10, MadeSequence
<1>12. BlockForCombo(combos[1]) = << >>
  <2> DEFINE e == BlockForCombo(combos[1])
  <2>1. DOMAIN e = {} /\ e = [x \in {} |-> e[x]]
    BY <1>1 DEF BlockForCombo
  <2> HIDE DEF e
  <2>2. e = << >>
    BY <2>1, EmptySequence
  <2> QED BY <2>2 DEF e
<1>13. AnySeq(<< << >> >>) /\ Len(<< << >> >>) = 1 /\ << << >> >>[1] = << >>
  <2>1. << << >> >> \in Seq({<< >>}) /\ Len(<< << >> >>) = 1 /\ << << >> >>[1] = << >>
    OBVIOUS
  <2> QED BY <2>1 DEF AnySeq
<1>14. \A m \in 1 .. 1 : blocks[m] = << << >> >>[m]
  BY <1>10, <1>12, <1>13
<1>15. blocks = << << >> >>
  BY <1>11, <1>13, <1>14, SameSequence
<1> QED BY <1>15 DEF blocks, combos

(* A block for each combination of chunks that are kept, of one for all.      *)
FragmentsOf(kept) == IF GridDims = << >> THEN << << >> >> ELSE BlocksOf(Combos(kept))

LEMMA SingleBlocks ==
  ASSUME Opened, NEW kept, IsKept(kept)
  PROVE  /\ FragmentsOf(kept) = BlocksOf(Combos(kept)) /\ IsTiling(FragmentsOf(kept), kept)
         /\ \A p \in 1 .. Len(FragmentsOf(kept)) : WithinLimit(FragmentsOf(kept)[p], kept)
<1> DEFINE blocks == FragmentsOf(kept)
<1>1. blocks = BlocksOf(Combos(kept))
  BY NoGridTiles DEF FragmentsOf
<1>2. IsTiling(blocks, kept)
  BY <1>1, CombosTile
<1> HIDE DEF blocks
<1>3. DOMAIN blocks = 1 .. Len(blocks)
  BY <1>2, SequenceParts DEF IsTiling
<1>4. \A p \in 1 .. Len(blocks) : blocks[p] \in ToSet(blocks)
  BY <1>3 DEF ToSet
<1>5. \A p \in 1 .. Len(blocks) : WithinLimit(blocks[p], kept)
  BY <1>1, <1>4 DEF WithinLimit
<1> QED BY <1>1, <1>2, <1>5 DEF blocks

LEMMA BlocksTile ==
  ASSUME Opened, NEW kept, IsKept(kept)
  PROVE  /\ IsTiling(BlocksFor(kept), kept)
         /\ \A p \in 1 .. Len(BlocksFor(kept)) : WithinLimit(BlocksFor(kept)[p], kept)
<1>1. CASE GridDims # << >> /\ coalesce_rows > 0
  <2>1. BlocksFor(kept) = CoalescedBlocks(kept)
    BY <1>1 DEF BlocksFor
  <2> QED BY <1>1, <2>1, MergingIsExact
<1>2. CASE ~(GridDims # << >> /\ coalesce_rows > 0)
  <2>1. BlocksFor(kept) = FragmentsOf(kept)
    BY <1>2 DEF BlocksFor, FragmentsOf
  <2> QED BY <2>1, SingleBlocks
<1> QED BY <1>1, <1>2

(* A scan of blocks that tile what is kept is exact.                          *)
ExactScan(q) ==
  LET cells == CellsOf(q.blocks)
      single == BlocksOf(Combos(q.kept))
  IN  /\ IsInjective(cells)
      /\ \A cell \in ToSet(Cells(WholeGrid(dataset))) \ ToSet(cells) : ~Holds(q.filter, cell)
      /\ q.filter # NoFilter => Refers(q.filter) \subseteq q.columns
      /\ coalesce_rows > 0 =>
           /\ Len(cells) = SumOf([i \in DOMAIN single |-> Len(Cells(single[i]))])
           /\ \A i \in DOMAIN q.blocks :
                q.blocks[i] \in ToSet(single) \/ Len(Cells(q.blocks[i])) <= coalesce_rows

LEMMA TilingIsExact ==
  ASSUME Opened, ShadowsCurrent, NEW f \in Bindable \cup {NoFilter}, NEW q,
         q.filter = f, q.kept = Kept(f), q.columns = ScanColumns({}, f),
         IsTiling(q.blocks, Kept(f)), \A p \in 1 .. Len(q.blocks) : WithinLimit(q.blocks[p], Kept(f))
  PROVE  ExactScan(q)
<1> DEFINE kept == Kept(f)
           blocks == q.blocks
           cells == CellsOf(blocks)
           single == BlocksOf(Combos(kept))
<1>1. IsKept(kept)
  BY PruneIsKept DEF Kept
<1>2. IsTiling(blocks, kept) /\ \A p \in 1 .. Len(blocks) : WithinLimit(blocks[p], kept)
  OBVIOUS
<1> HIDE DEF kept, blocks
<1>3. DOMAIN blocks = 1 .. Len(blocks)
  BY <1>2, SequenceParts DEF IsTiling
<1>4. /\ AnySeq(cells) /\ Distinct(cells)
      /\ \A c : c \in ToSet(cells) <=> KeptCell(kept, c)
  BY <1>2, TiledCells
<1>5. IsTiling(single, kept)
  BY <1>1, CombosTile
<1>6. /\ AnySeq(CellsOf(single)) /\ Distinct(CellsOf(single))
      /\ \A c : c \in ToSet(CellsOf(single)) <=> KeptCell(kept, c)
  BY <1>5, TiledCells
<1>7. Len(CellsOf(single)) = SumOf([i \in DOMAIN single |-> Len(Cells(single[i]))])
  BY <1>5, CellsAreCounted
<1> DEFINE total == SumOf([i \in DOMAIN single |-> Len(Cells(single[i]))])
<1> HIDE DEF cells, single, total
<1>8. ToSet(cells) = ToSet(CellsOf(single))
  BY <1>4, <1>6
<1>9. Len(cells) = total
  BY <1>4, <1>6, <1>7, <1>8, SameMembers DEF total
<1>10. IsInjective(cells)
  <2>1. DOMAIN cells = 1 .. Len(cells)
    BY <1>4, SequenceParts
  <2> QED BY <1>4, <2>1 DEF IsInjective, Distinct
<1>11. ASSUME NEW cell \in ToSet(Cells(WholeGrid(dataset))) \ ToSet(cells), Holds(f, cell)
       PROVE  FALSE
  <2>1. IsBlock(dataset, WholeGrid(dataset))
    BY OpenedParts, WholeIsBlock
  <2>2. /\ DOMAIN Cells(WholeGrid(dataset)) = 1 .. Len(Cells(WholeGrid(dataset)))
        /\ \A j \in 1 .. Len(Cells(WholeGrid(dataset))) :
             InBlock(dataset, WholeGrid(dataset), Cells(WholeGrid(dataset))[j])
    BY <2>1, CellsOfBlock
  <2>3. InBlock(dataset, WholeGrid(dataset), cell)
    BY <2>2 DEF ToSet
  <2>4. ASSUME NEW d \in DOMAIN resolved
        PROVE  \E i \in ToSet(kept[d]) : InChunk(d, i, cell[d])
    <3>1. d \in DimsOf(dataset)
      BY OpenedParts
    <3>2. cell[d] \in Nat /\ cell[d] < dataset.size[d]
      BY <2>3, <3>1, OpenedParts, WholeIsBlock
    <3>3. PICK i \in 1 .. N(d) : InChunk(d, i, cell[d])
      BY <3>2, ChunkOfPosition
    <3>4. i \in ToSet(Kept(f)[d])
      BY <1>11, <2>3, <3>3, PruningKeepsRows
    <3> QED BY <3>3, <3>4 DEF kept
  <2>5. KeptCell(kept, cell)
    BY <2>3, <2>4 DEF KeptCell
  <2> QED BY <1>4, <1>11, <2>5
<1>12. f # NoFilter => Refers(f) \subseteq q.columns
  BY DEF ScanColumns
<1>13. \A i \in DOMAIN blocks : blocks[i] \in ToSet(single) \/ Len(Cells(blocks[i])) <= coalesce_rows
  BY <1>2, <1>3 DEF WithinLimit, single
<1>14. \A cell \in ToSet(Cells(WholeGrid(dataset))) \ ToSet(cells) : ~Holds(f, cell)
  BY <1>11
<1> QED BY <1>9, <1>10, <1>12, <1>13, <1>14 DEF ExactScan, cells, single, total, blocks, kept

LEMMA ScansFit ==
  ASSUME Opened, ShadowsCurrent, NEW f \in Bindable \cup {NoFilter}, NEW blocks,
         blocks = BlocksFor(Kept(f)) \/ blocks = FragmentsOf(Kept(f)),
         NEW q, q = [kind |-> "scan", filter |-> f, kept |-> Kept(f), blocks |-> blocks, columns |-> ScanColumns({}, f)]
  PROVE  ExactScan(q)
<1>1. IsKept(Kept(f))
  BY PruneIsKept DEF Kept
<1>2. IsTiling(blocks, Kept(f)) /\ \A p \in 1 .. Len(blocks) : WithinLimit(blocks[p], Kept(f))
  BY <1>1, BlocksTile, SingleBlocks
<1>3. q.filter = f /\ q.kept = Kept(f) /\ q.columns = ScanColumns({}, f) /\ q.blocks = blocks
  OBVIOUS
<1> QED BY <1>2, <1>3, TilingIsExact

-----------------------------------------------------------------------------
(* Counts. F gives each member of a sequence a set, none of which overlap.    *)
Together(q, F) == UNION {F[q[i]] : i \in 1 .. Len(q)}
Separate(q, F) == \A i, j \in 1 .. Len(q) : i # j => F[q[i]] \cap F[q[j]] = {}

LEMMA JoinSeparate ==
  ASSUME NEW p, NEW q, AnySeq(p), AnySeq(q), NEW F, Separate(p, F), Separate(q, F),
         Together(p, F) \cap Together(q, F) = {}
  PROVE  Separate(p \o q, F) /\ Together(p \o q, F) = Together(p, F) \cup Together(q, F)
<1> DEFINE r == p \o q
<1>1. /\ AnySeq(r) /\ Len(r) = Len(p) + Len(q)
      /\ \A i \in 1 .. Len(p) : r[i] = p[i]
      /\ \A i \in 1 .. Len(q) : r[i + Len(p)] = q[i]
      /\ \A i \in 1 .. Len(r) : i <= Len(p) \/ \E j \in 1 .. Len(q) : i = j + Len(p)
  BY JoinedSequence
<1>2. Len(p) \in Nat /\ Len(q) \in Nat /\ Len(r) \in Nat
  BY <1>1, SequenceParts
<1> HIDE DEF r
<1>3. \A i \in 1 .. Len(r) : \/ i \in 1 .. Len(p) /\ r[i] = p[i]
                             \/ \E j \in 1 .. Len(q) : i = j + Len(p) /\ r[i] = q[j]
  <2> TAKE i \in 1 .. Len(r)
  <2>1. CASE i <= Len(p)
    BY <1>1, <1>2, <2>1
  <2>2. CASE \E j \in 1 .. Len(q) : i = j + Len(p)
    <3>1. PICK j \in 1 .. Len(q) : i = j + Len(p)
      BY <2>2
    <3> QED BY <1>1, <3>1
  <2> QED BY <1>1, <2>1, <2>2
<1>4. Separate(r, F)
  <2> SUFFICES ASSUME NEW i \in 1 .. Len(r), NEW j \in 1 .. Len(r), i # j, NEW x, x \in F[r[i]], x \in F[r[j]]
               PROVE  FALSE
    BY DEF Separate
  <2>1. ASSUME NEW k \in 1 .. Len(p), NEW l \in 1 .. Len(q), x \in F[p[k]], x \in F[q[l]]
        PROVE  FALSE
    BY <2>1 DEF Together
  <2>2. CASE i \in 1 .. Len(p) /\ r[i] = p[i]
    <3>1. CASE j \in 1 .. Len(p) /\ r[j] = p[j]
      BY <2>2, <3>1 DEF Separate
    <3>2. CASE \E k \in 1 .. Len(q) : j = k + Len(p) /\ r[j] = q[k]
      BY <2>1, <2>2, <3>2
    <3> QED BY <1>3, <3>1, <3>2
  <2>3. CASE \E k \in 1 .. Len(q) : i = k + Len(p) /\ r[i] = q[k]
    <3>1. PICK k \in 1 .. Len(q) : i = k + Len(p) /\ r[i] = q[k]
      BY <2>3
    <3>2. CASE j \in 1 .. Len(p) /\ r[j] = p[j]
      BY <2>1, <3>1, <3>2
    <3>3. CASE \E l \in 1 .. Len(q) : j = l + Len(p) /\ r[j] = q[l]
      <4>1. PICK l \in 1 .. Len(q) : j = l + Len(p) /\ r[j] = q[l]
        BY <3>3
      <4>2. k # l
        BY <3>1, <4>1
      <4> QED BY <3>1, <4>1, <4>2 DEF Separate
    <3> QED BY <1>3, <3>2, <3>3
  <2> QED BY <1>3, <2>2, <2>3
<1>5. ASSUME NEW x
      PROVE  x \in Together(r, F) <=> x \in Together(p, F) \/ x \in Together(q, F)
  <2>1. ASSUME x \in Together(r, F)
        PROVE  x \in Together(p, F) \/ x \in Together(q, F)
    <3>1. PICK i \in 1 .. Len(r) : x \in F[r[i]]
      BY <2>1 DEF Together
    <3>2. CASE i \in 1 .. Len(p) /\ r[i] = p[i]
      BY <3>1, <3>2 DEF Together
    <3>3. CASE \E j \in 1 .. Len(q) : i = j + Len(p) /\ r[i] = q[j]
      BY <3>1, <3>3 DEF Together
    <3> QED BY <1>3, <3>2, <3>3
  <2>2. ASSUME x \in Together(p, F)
        PROVE  x \in Together(r, F)
    <3>1. PICK i \in 1 .. Len(p) : x \in F[p[i]]
      BY <2>2 DEF Together
    <3>2. i \in 1 .. Len(r) /\ r[i] = p[i]
      BY <1>1, <1>2
    <3> QED BY <3>1, <3>2 DEF Together
  <2>3. ASSUME x \in Together(q, F)
        PROVE  x \in Together(r, F)
    <3>1. PICK i \in 1 .. Len(q) : x \in F[q[i]]
      BY <2>3 DEF Together
    <3>2. i + Len(p) \in 1 .. Len(r) /\ r[i + Len(p)] = q[i]
      BY <1>1, <1>2
    <3> QED BY <3>1, <3>2 DEF Together
  <2> QED BY <2>1, <2>2, <2>3
<1> QED BY <1>4, <1>5 DEF r

(* Flattening sequences with a set each, that do not overlap.                 *)
LEMMA FlattenSeparate ==
  ASSUME NEW parts, SeqOfSeqs(parts), NEW F, NEW A,
         \A a \in 1 .. Len(parts) : Separate(parts[a], F) /\ Together(parts[a], F) = A[a],
         \A a, b \in 1 .. Len(parts) : a # b => A[a] \cap A[b] = {}
  PROVE  /\ AnySeq(FlattenSeq(parts)) /\ Separate(FlattenSeq(parts), F)
         /\ \A x : x \in Together(FlattenSeq(parts), F) <=> \E a \in 1 .. Len(parts) : x \in A[a]
<1> DEFINE flat == FlattenSeq(parts)
<1>1. PICK off : Placed(flat, parts, off)
  BY FlattenPlaces
<1> HIDE DEF flat
<1>2. AnySeq(flat) /\ \A i \in 1 .. Len(flat) :
        \E a \in 1 .. Len(parts) : \E b \in 1 .. Len(parts[a]) : i = off[a - 1] + b /\ flat[i] = parts[a][b]
  <2>1. AnySeq(flat)
    BY <1>1 DEF Placed
  <2>2. ASSUME NEW i \in 1 .. Len(flat)
        PROVE  \E a \in 1 .. Len(parts) : \E b \in 1 .. Len(parts[a]) : i = off[a - 1] + b /\ flat[i] = parts[a][b]
    <3>1. PICK a \in 1 .. Len(parts) : \E b \in 1 .. Len(parts[a]) : i = off[a - 1] + b
      BY <1>1 DEF Placed
    <3>2. PICK b \in 1 .. Len(parts[a]) : i = off[a - 1] + b
      BY <3>1
    <3>3. flat[off[a - 1] + b] = parts[a][b]
      BY <1>1 DEF Placed
    <3> QED BY <3>2, <3>3
  <2> QED BY <2>1, <2>2
<1>3. \A a \in 1 .. Len(parts) : \A x : x \in A[a] <=> \E b \in 1 .. Len(parts[a]) : x \in F[parts[a][b]]
  BY DEF Together
<1>4. Separate(flat, F)
  <2> SUFFICES ASSUME NEW i \in 1 .. Len(flat), NEW j \in 1 .. Len(flat), NEW x, x \in F[flat[i]], x \in F[flat[j]]
               PROVE  i = j
    BY DEF Separate
  <2>1. PICK a \in 1 .. Len(parts) : \E b \in 1 .. Len(parts[a]) : i = off[a - 1] + b /\ flat[i] = parts[a][b]
    BY <1>2
  <2>2. PICK b \in 1 .. Len(parts[a]) : i = off[a - 1] + b /\ flat[i] = parts[a][b]
    BY <2>1
  <2>3. PICK c \in 1 .. Len(parts) : \E d \in 1 .. Len(parts[c]) : j = off[c - 1] + d /\ flat[j] = parts[c][d]
    BY <1>2
  <2>4. PICK d \in 1 .. Len(parts[c]) : j = off[c - 1] + d /\ flat[j] = parts[c][d]
    BY <2>3
  <2>5. x \in A[a] /\ x \in A[c]
    BY <1>3, <2>2, <2>4
  <2>6. a = c
    BY <2>5
  <2>7. b = d
    <3>1. Separate(parts[a], F)
      OBVIOUS
    <3> QED BY <2>2, <2>4, <2>6, <3>1 DEF Separate
  <2> QED BY <2>2, <2>4, <2>6, <2>7
<1>5. ASSUME NEW x
      PROVE  x \in Together(flat, F) <=> \E a \in 1 .. Len(parts) : x \in A[a]
  <2>1. ASSUME x \in Together(flat, F)
        PROVE  \E a \in 1 .. Len(parts) : x \in A[a]
    <3>1. PICK i \in 1 .. Len(flat) : x \in F[flat[i]]
      BY <2>1 DEF Together
    <3>2. PICK a \in 1 .. Len(parts) : \E b \in 1 .. Len(parts[a]) : i = off[a - 1] + b /\ flat[i] = parts[a][b]
      BY <1>2
    <3> QED BY <1>3, <3>1, <3>2
  <2>2. ASSUME NEW a \in 1 .. Len(parts), x \in A[a]
        PROVE  x \in Together(flat, F)
    <3>1. PICK b \in 1 .. Len(parts[a]) : x \in F[parts[a][b]]
      BY <1>3, <2>2
    <3>2. off[a - 1] + b \in 1 .. Len(flat) /\ flat[off[a - 1] + b] = parts[a][b]
      BY <1>1 DEF Placed
    <3> QED BY <3>1, <3>2 DEF Together
  <2> QED BY <2>1, <2>2
<1> QED BY <1>2, <1>4, <1>5 DEF flat

(* What is left without the first member.                                     *)
LEMMA TailSeparate ==
  ASSUME NEW q, AnySeq(q), q # << >>, NEW F, Separate(q, F)
  PROVE  /\ AnySeq(Tail(q)) /\ Separate(Tail(q), F) /\ F[Head(q)] \subseteq Together(q, F)
         /\ Together(Tail(q), F) = Together(q, F) \ F[Head(q)]
<1> DEFINE t == Tail(q)
<1>1. /\ Len(q) \in Nat \ {0} /\ AnySeq(t) /\ Len(t) = Len(q) - 1 /\ Head(q) = q[1]
      /\ \A i \in 1 .. Len(t) : t[i] = q[i + 1]
  BY SequenceParts
<1> HIDE DEF t
<1>2. Separate(t, F)
  <2> SUFFICES ASSUME NEW i \in 1 .. Len(t), NEW j \in 1 .. Len(t), i # j
               PROVE  F[t[i]] \cap F[t[j]] = {}
    BY DEF Separate
  <2>1. i + 1 \in 1 .. Len(q) /\ j + 1 \in 1 .. Len(q) /\ i + 1 # j + 1
    BY <1>1
  <2> QED BY <1>1, <2>1 DEF Separate
<1>3. F[q[1]] \subseteq Together(q, F)
  <2>1. 1 \in 1 .. Len(q)
    BY <1>1
  <2> QED BY <2>1 DEF Together
<1>4. ASSUME NEW x
      PROVE  x \in Together(t, F) <=> x \in Together(q, F) /\ x \notin F[q[1]]
  <2>1. ASSUME x \in Together(t, F)
        PROVE  x \in Together(q, F) /\ x \notin F[q[1]]
    <3>1. PICK i \in 1 .. Len(t) : x \in F[t[i]]
      BY <2>1 DEF Together
    <3>2. i + 1 \in 1 .. Len(q) /\ t[i] = q[i + 1] /\ i + 1 # 1 /\ 1 \in 1 .. Len(q)
      BY <1>1
    <3> QED BY <3>1, <3>2 DEF Together, Separate
  <2>2. ASSUME x \in Together(q, F), x \notin F[q[1]]
        PROVE  x \in Together(t, F)
    <3>1. PICK i \in 1 .. Len(q) : x \in F[q[i]]
      BY <2>2 DEF Together
    <3>2. i # 1
      BY <2>2, <3>1
    <3>3. i - 1 \in 1 .. Len(t) /\ t[i - 1] = q[i]
      BY <1>1, <3>2
    <3> QED BY <3>1, <3>3 DEF Together
  <2> QED BY <2>1, <2>2
<1> QED BY <1>1, <1>2, <1>3, <1>4 DEF t

(* Sequences of no members, and functions that agree on the members.          *)
LEMMA NoneSeparate ==
  ASSUME NEW F
  PROVE  AnySeq(<< >>) /\ Separate(<< >>, F) /\ Together(<< >>, F) = {}
<1>1. AnySeq(<< >>) /\ Len(<< >>) = 0
  BY EmptySeq DEF AnySeq
<1> QED BY <1>1 DEF Separate, Together

(* There are as many in them together as the sum of how many are in each.      *)
LEMMA CountSeparate ==
  ASSUME NEW q, AnySeq(q), NEW F, Separate(q, F), IsFiniteSet(Together(q, F)),
         NEW c, c = [i \in 1 .. Len(q) |-> Cardinality(F[q[i]])]
  PROVE  c \in [1 .. Len(q) -> Nat] /\ Cardinality(Together(q, F)) = SumOf(c)
<1> DEFINE L == Len(q)
           Upto(n) == UNION {F[q[i]] : i \in 1 .. n}
           g == [n \in 0 .. L |-> Cardinality(Upto(n))]
<1>1. L \in Nat
  BY SequenceParts
<1>2. \A i \in 1 .. L : F[q[i]] \subseteq Together(q, F) /\ IsFiniteSet(F[q[i]])
  <2> TAKE i \in 1 .. L
  <2>1. F[q[i]] \subseteq Together(q, F)
    BY DEF Together
  <2> QED BY <2>1, FS_Subset
<1>3. c \in [1 .. L -> Nat]
  BY <1>2, FS_CardinalityType
<1>4. PICK f \in [0 .. L -> Nat] : Sums(f, L, c) /\ SumOf(c) = f[L]
  BY <1>1, <1>3, SumOfFold
<1>5. \A n \in 0 .. L : Upto(n) \subseteq Together(q, F) /\ IsFiniteSet(Upto(n))
  <2> TAKE n \in 0 .. L
  <2>1. 1 .. n \subseteq 1 .. L
    BY <1>1
  <2>2. Upto(n) \subseteq Together(q, F)
    BY <1>2, <2>1
  <2> QED BY <2>2, FS_Subset
<1>6. f[0] = g[0]
  <2>1. Upto(0) = {}
    OBVIOUS
  <2>2. g[0] = Cardinality(Upto(0))
    BY <1>1
  <2> QED BY <1>4, <2>1, <2>2, FS_EmptySet DEF Sums
<1>7. ASSUME NEW n \in 1 .. L, f[n - 1] = g[n - 1]
      PROVE  f[n] = g[n]
  <2>1. Upto(n) = Upto(n - 1) \cup F[q[n]]
    <3>1. 1 .. n = (1 .. n - 1) \cup {n}
      BY <1>1
    <3> QED BY <3>1
  <2>2. Upto(n - 1) \cap F[q[n]] = {}
    <3> SUFFICES ASSUME NEW x, x \in Upto(n - 1), x \in F[q[n]]
                 PROVE  FALSE
      OBVIOUS
    <3>1. PICK i \in 1 .. n - 1 : x \in F[q[i]]
      OBVIOUS
    <3>2. i \in 1 .. L /\ i # n
      BY <1>1
    <3> QED BY <3>1, <3>2 DEF Separate
  <2>3. n - 1 \in 0 .. L /\ n \in 0 .. L
    BY <1>1
  <2>4. IsFiniteSet(Upto(n - 1)) /\ IsFiniteSet(F[q[n]])
    BY <1>2, <1>5, <2>3
  <2>5. g[n] = Cardinality(Upto(n)) /\ g[n - 1] = Cardinality(Upto(n - 1))
    BY <2>3
  <2> HIDE DEF Upto, g
  <2>6. Cardinality(Upto(n - 1) \cup F[q[n]])
          = Cardinality(Upto(n - 1)) + Cardinality(F[q[n]]) - Cardinality(Upto(n - 1) \cap F[q[n]])
    BY <2>4, FS_Union
  <2>7. Cardinality(Upto(n - 1) \cap F[q[n]]) = 0
    BY <2>2, FS_EmptySet
  <2>8. Cardinality(Upto(n - 1)) \in Nat /\ Cardinality(F[q[n]]) \in Nat
    BY <2>4, FS_CardinalityType
  <2>9. f[n] = f[n - 1] + c[n] /\ c[n] = Cardinality(F[q[n]])
    BY <1>4 DEF Sums
  <2> QED BY <1>7, <2>1, <2>5, <2>6, <2>7, <2>8, <2>9
<1>8. Upto(L) = Together(q, F)
  BY DEF Together
<1>9. L \in 0 .. L /\ g[L] = Cardinality(Upto(L))
  BY <1>1
<1> HIDE DEF Upto, g
<1>10. Agrees(f, g, L)
  BY <1>6, <1>7 DEF Agrees
<1>11. f[L] = g[L]
  BY <1>1, <1>9, <1>10, AgreeAlong
<1> QED BY <1>3, <1>4, <1>8, <1>9, <1>11

-----------------------------------------------------------------------------
(* Cutting a sequence: cuts[n] is where part n ends.                          *)
CutsOf(s, k) == [n \in 0 .. k |-> n * (Len(s) \div k) + Smallest(n, Len(s) % k)]

LEMMA CutsGrow ==
  ASSUME NEW s, AnySeq(s), NEW k \in 1 .. Len(s), NEW at, at = CutsOf(s, k)
  PROVE  /\ at \in [0 .. k -> Nat] /\ at[0] = 0 /\ at[k] = Len(s) /\ k \in Nat \ {0}
         /\ \A i \in 1 .. k : at[i - 1] < at[i] /\ at[i] <= Len(s)
         /\ \E w \in [1 .. k -> Nat] : Sums(at, k, w)
<1> DEFINE L == Len(s)
           q == L \div k
           r == L % k
<1>1. L \in Nat /\ k \in Nat \ {0} /\ k <= L
  BY SequenceParts
<1>2. q \in Nat /\ r \in 0 .. k - 1 /\ L = q * k + r
  BY <1>1, QuotientAndRest
<1>3. q # 0
  BY <1>1, <1>2
<1>4. at = [n \in 0 .. k |-> n * q + Smallest(n, r)]
  BY DEF CutsOf
<1> HIDE DEF q, r
<1>5. \A n \in 0 .. k : n * q \in Nat /\ Smallest(n, r) \in Nat
  <2> TAKE n \in 0 .. k
  <2>1. n \in Nat
    BY <1>1
  <2>2. n * q \in Nat
    BY <1>2, <2>1, ProductIsNat
  <2> QED BY <1>2, <2>1, <2>2 DEF Smallest
<1>6. at \in [0 .. k -> Nat]
  BY <1>4, <1>5
<1>7. at[0] = 0
  <2>1. 0 \in 0 .. k /\ 0 * q = 0 /\ Smallest(0, r) = 0
    BY <1>1, <1>2 DEF Smallest
  <2> QED BY <1>4, <2>1
<1>8. at[k] = L
  <2>1. k \in 0 .. k /\ Smallest(k, r) = r
    BY <1>1, <1>2 DEF Smallest
  <2>2. k * q = q * k
    BY <1>1, <1>2
  <2> QED BY <1>1, <1>2, <1>4, <2>1, <2>2
<1>9. ASSUME NEW i \in 1 .. k
      PROVE  at[i - 1] < at[i]
  <2>1. i - 1 \in 0 .. k /\ i \in 0 .. k /\ i \in Nat
    BY <1>1
  <2>2. at[i - 1] = (i - 1) * q + Smallest(i - 1, r) /\ at[i] = i * q + Smallest(i, r)
    BY <1>4, <2>1
  <2>3. i * q = (i - 1) * q + q
    BY <1>2, <2>1
  <2>4. Smallest(i - 1, r) <= Smallest(i, r) /\ Smallest(i - 1, r) \in Nat /\ Smallest(i, r) \in Nat
    BY <1>2, <2>1 DEF Smallest
  <2>5. (i - 1) * q \in Nat
    BY <1>5, <2>1
  <2> QED BY <1>2, <1>3, <2>2, <2>3, <2>4, <2>5
<1> DEFINE w == [i \in 1 .. k |-> at[i] - at[i - 1]]
<1>10. \A i \in 1 .. k : i \in 0 .. k /\ i - 1 \in 0 .. k
  BY <1>1
<1>11. w \in [1 .. k -> Nat]
  BY <1>6, <1>9, <1>10
<1>12. Sums(at, k, w)
  <2>1. \A i \in 1 .. k : at[i] = at[i - 1] + w[i]
    BY <1>6, <1>10
  <2> QED BY <1>7, <2>1 DEF Sums
<1> HIDE DEF w
<1>13. \A i \in 1 .. k : at[i] <= L
  <2> TAKE i \in 1 .. k
  <2>1. \A a, b \in 0 .. k : a <= b => at[a] <= at[b]
    BY <1>1, <1>11, <1>12, SumsGrow
  <2>2. i \in 0 .. k /\ k \in 0 .. k /\ i <= k
    BY <1>1
  <2> QED BY <1>8, <2>1, <2>2
<1> QED BY <1>1, <1>6, <1>7, <1>8, <1>9, <1>11, <1>12, <1>13

(* Cut into no more parts than it is long, no part is empty and each member   *)
(* is in one of them.                                                         *)
IsCut(p, s, k) ==
  /\ AnySeq(p) /\ Len(p) = k
  /\ \A i \in 1 .. k : AnySeq(p[i]) /\ p[i] # << >> /\ ToSet(p[i]) \subseteq ToSet(s)
  /\ \A x \in ToSet(s) : \E i \in 1 .. k : x \in ToSet(p[i])
  /\ \A i, j \in 1 .. k : \A x : x \in ToSet(p[i]) /\ x \in ToSet(p[j]) => i = j

LEMMA SplitCuts ==
  ASSUME NEW s, NEW n, InOrderUpto(s, n), NEW k \in 1 .. Len(s), NEW p, p = ArraySplit(s, k)
  PROVE  IsCut(p, s, k) /\ \A i \in 1 .. k : InOrderUpto(p[i], n)
<1> DEFINE at == CutsOf(s, k)
<1>1. AnySeq(s)
  BY DEF InOrderUpto
<1>2. Len(s) \in Nat /\ DOMAIN s = 1 .. Len(s)
  BY <1>1, SequenceParts
<1>3. /\ at \in [0 .. k -> Nat] /\ at[0] = 0 /\ at[k] = Len(s) /\ k \in Nat \ {0}
      /\ \A i \in 1 .. k : at[i - 1] < at[i] /\ at[i] <= Len(s)
      /\ \E w \in [1 .. k -> Nat] : Sums(at, k, w)
  BY <1>1, CutsGrow
<1>4. p = [i \in 1 .. k |-> SubSeq(s, at[i - 1] + 1, at[i])]
  <2>1. ASSUME NEW i \in 1 .. k
        PROVE  /\ (i - 1) * (Len(s) \div k) + Smallest(i - 1, Len(s) % k) = at[i - 1]
               /\ ((i + 1) - 1) * (Len(s) \div k) + Smallest((i + 1) - 1, Len(s) % k) = at[i]
    <3>1. i - 1 \in 0 .. k /\ i \in 0 .. k /\ (i + 1) - 1 = i
      BY <1>3
    <3> QED BY <3>1 DEF CutsOf
  <2> QED BY <2>1 DEF ArraySplit
<1> HIDE DEF at
<1>5. \A i \in 1 .. k : i \in 0 .. k /\ i - 1 \in 0 .. k
  BY <1>3
<1>6. \A i \in 1 .. k : at[i] \in Nat /\ at[i - 1] \in Nat
  BY <1>3, <1>5
<1>7. ASSUME NEW i \in 1 .. k
      PROVE  /\ AnySeq(p[i]) /\ Len(p[i]) = at[i] - at[i - 1]
             /\ \A j \in 1 .. at[i] - at[i - 1] : p[i][j] = s[at[i - 1] + j]
  <2>1. p[i] = SubSeq(s, at[i - 1] + 1, at[i])
    BY <1>4
  <2>2. PICK from, to : from = at[i - 1] /\ to = at[i]
    OBVIOUS
  <2>3. from \in Nat /\ to \in Nat /\ from <= to
    BY <1>3, <1>6, <2>2
  <2>4. p[i] = SubSeq(s, from + 1, to)
    BY <2>1, <2>2
  <2>5. /\ AnySeq(p[i]) /\ Len(p[i]) = to - from
        /\ \A j \in 1 .. to - from : p[i][j] = s[from + j]
    BY <2>3, <2>4, Slice
  <2> QED BY <2>2, <2>5
<1>8. AnySeq(p) /\ Len(p) = k
  BY <1>3, <1>4, MadeSequence
<1>9. ASSUME NEW i \in 1 .. k, NEW j \in 1 .. Len(p[i])
      PROVE  at[i - 1] + j \in 1 .. Len(s) /\ p[i][j] = s[at[i - 1] + j] /\ at[i - 1] + j <= at[i]
  <2>1. at[i] <= Len(s) /\ at[i] \in Nat /\ at[i - 1] \in Nat
    BY <1>3, <1>6
  <2>2. j \in 1 .. at[i] - at[i - 1] /\ p[i][j] = s[at[i - 1] + j]
    BY <1>7
  <2>3. PICK from, to : from = at[i - 1] /\ to = at[i]
    OBVIOUS
  <2>4. from + j \in 1 .. Len(s) /\ from + j <= to
    BY <1>2, <2>1, <2>2, <2>3
  <2> QED BY <2>2, <2>3, <2>4
<1>10. ASSUME NEW i \in 1 .. k
       PROVE  InOrderUpto(p[i], n) /\ p[i] # << >> /\ ToSet(p[i]) \subseteq ToSet(s)
  <2>1. AnySeq(p[i]) /\ Len(p[i]) \in Nat /\ DOMAIN p[i] = 1 .. Len(p[i])
    BY <1>7, SequenceParts
  <2>2. p[i] # << >>
    <3>1. Len(p[i]) # 0
      BY <1>3, <1>6, <1>7
    <3> QED BY <2>1, <3>1, SequenceParts
  <2>3. ToSet(p[i]) \subseteq ToSet(s)
    <3>1. \A j \in 1 .. Len(p[i]) : p[i][j] \in ToSet(s)
      BY <1>2, <1>9 DEF ToSet
    <3> QED BY <2>1, <3>1 DEF ToSet
  <2>4. \A j \in 1 .. Len(p[i]) : p[i][j] \in 1 .. n
    BY <1>9 DEF InOrderUpto
  <2>5. ASSUME NEW l \in 1 .. Len(p[i]), NEW m \in 1 .. Len(p[i]), l < m
        PROVE  p[i][l] < p[i][m]
    <3>1. at[i - 1] + l < at[i - 1] + m
      BY <1>6, <2>1, <2>5
    <3> QED BY <1>9, <3>1 DEF InOrderUpto
  <2> QED BY <2>1, <2>2, <2>3, <2>4, <2>5 DEF InOrderUpto
<1>11. ASSUME NEW x \in ToSet(s)
       PROVE  \E i \in 1 .. k : x \in ToSet(p[i])
  <2>1. PICK m \in 1 .. Len(s) : s[m] = x
    BY <1>2 DEF ToSet
  <2>2. PICK w \in [1 .. k -> Nat] : Sums(at, k, w)
    BY <1>3
  <2>3. m - 1 \in Nat /\ m - 1 < at[k]
    BY <1>2, <1>3
  <2>4. PICK i \in 1 .. k : at[i - 1] <= m - 1 /\ m - 1 < at[i]
    BY <1>3, <2>2, <2>3, SumsFind
  <2>5. m - at[i - 1] \in 1 .. at[i] - at[i - 1] /\ at[i - 1] + (m - at[i - 1]) = m
    BY <1>2, <1>6, <2>4
  <2>6. p[i][m - at[i - 1]] = x
    BY <1>7, <2>1, <2>5
  <2>7. DOMAIN p[i] = 1 .. Len(p[i])
    BY <1>7, SequenceParts
  <2> QED BY <1>7, <2>5, <2>6, <2>7 DEF ToSet
<1>12. ASSUME NEW i \in 1 .. k, NEW j \in 1 .. k, NEW x, x \in ToSet(p[i]), x \in ToSet(p[j])
       PROVE  i = j
  <2>1. PICK a \in 1 .. Len(p[i]) : p[i][a] = x
    BY <1>7, <1>12, SequenceParts DEF ToSet
  <2>2. PICK b \in 1 .. Len(p[j]) : p[j][b] = x
    BY <1>7, <1>12, SequenceParts DEF ToSet
  <2>3. at[i - 1] + a = at[j - 1] + b
    <3>1. at[i - 1] + a \in 1 .. Len(s) /\ at[j - 1] + b \in 1 .. Len(s)
      BY <1>9
    <3>2. s[at[i - 1] + a] = s[at[j - 1] + b]
      BY <1>9, <2>1, <2>2
    <3>3. \A l \in 1 .. Len(s) : \A m \in 1 .. Len(s) : l < m => s[l] < s[m]
      BY DEF InOrderUpto
    <3>4. \A l \in 1 .. Len(s) : s[l] \in Int
      BY DEF InOrderUpto
    <3>5. PICK l, m : l = at[i - 1] + a /\ m = at[j - 1] + b
      OBVIOUS
    <3>6. l \in 1 .. Len(s) /\ m \in 1 .. Len(s) /\ s[l] = s[m]
      BY <3>1, <3>2, <3>5
    <3>7. ~(l < m) /\ ~(m < l)
      BY <3>3, <3>4, <3>6
    <3>8. l = m
      BY <1>2, <3>6, <3>7
    <3> QED BY <3>5, <3>8
  <2>4. PICK y : y = (at[i - 1] + a) - 1
    OBVIOUS
  <2>5. y \in Nat /\ at[i - 1] <= y /\ y < at[i] /\ at[j - 1] <= y /\ y < at[j]
    <3>1. at[i - 1] + a <= at[i] /\ at[j - 1] + b <= at[j]
      BY <1>9
    <3>2. Len(p[i]) \in Nat /\ Len(p[j]) \in Nat
      BY <1>7, SequenceParts
    <3>3. PICK u, v, e, g : u = at[i - 1] /\ v = at[j - 1] /\ e = at[i] /\ g = at[j]
      OBVIOUS
    <3>4. u \in Nat /\ v \in Nat /\ e \in Nat /\ g \in Nat /\ a \in Nat \ {0} /\ b \in Nat \ {0}
      BY <1>6, <3>2, <3>3
    <3>5. y = (u + a) - 1 /\ u + a = v + b /\ u + a <= e /\ v + b <= g
      BY <2>3, <2>4, <3>1, <3>3
    <3>6. y \in Nat /\ u <= y /\ y < e /\ v <= y /\ y < g
      BY <3>4, <3>5
    <3> QED BY <3>3, <3>6
  <2>6. PICK w \in [1 .. k -> Nat] : Sums(at, k, w)
    BY <1>3
  <2> QED BY <1>3, <2>5, <2>6, SumsFind
<1>13. IsCut(p, s, k)
  BY <1>7, <1>8, <1>10, <1>11, <1>12 DEF IsCut
<1> QED BY <1>10, <1>13

-----------------------------------------------------------------------------
(* Every dimension of a cell is cut into no more parts than it has chunks.    *)
LEMMA BucketsFit ==
  ASSUME Opened, NEW chunks, IsKept(chunks), \A d \in DOMAIN resolved : chunks[d] # << >>
  PROVE  /\ BucketCounts(chunks) = [d \in DOMAIN resolved |-> BucketCounts(chunks)[d]]
         /\ \A d \in DOMAIN resolved : BucketCounts(chunks)[d] \in 1 .. Len(chunks[d])
<1> DEFINE lens == [d \in DOMAIN chunks |-> Len(chunks[d])]
           steps == SumOf([i \in DOMAIN GridDims |-> lens[GridDims[i]]])
           widest(ks) == FoldLeft(LAMBDA best, d : IF ks[d] > ks[best] THEN d ELSE best, GridDims[1], GridDims)
           enough(ks) == \/ Product([i \in DOMAIN GridDims |-> ks[GridDims[i]]]) <= StrictLevelBudget
                         \/ ks[widest(ks)] = 1
           fewer(ks) == IF enough(ks) THEN ks ELSE [ks EXCEPT ![widest(ks)] = Largest(1, @ \div 2)]
           halved == CHOOSE h : h = [n \in 0 .. steps |-> IF n = 0 THEN lens ELSE fewer(h[n - 1])]
           V == {ks \in [DOMAIN resolved -> Nat] : \A d \in DOMAIN resolved : ks[d] \in 1 .. lens[d]}
<1>1. BucketCounts(chunks) = halved[steps]
  BY DEF BucketCounts
<1>2. DOMAIN chunks = DOMAIN resolved
  BY DEF IsKept
<1>3. \A d \in DOMAIN resolved : lens[d] = Len(chunks[d]) /\ lens[d] \in Nat \ {0}
  <2> TAKE d \in DOMAIN resolved
  <2>1. AnySeq(chunks[d]) /\ chunks[d] # << >>
    BY KeptMembers
  <2> QED BY <1>2, <2>1, SequenceParts
<1>4. steps \in Nat
  <2>1. Len(GridDims) \in Nat /\ DOMAIN GridDims = 1 .. Len(GridDims) /\ ToSet(GridDims) = DOMAIN resolved
    BY OpenedParts, SequenceParts
  <2>2. \A i \in 1 .. Len(GridDims) : GridDims[i] \in DOMAIN resolved
    BY <2>1 DEF ToSet
  <2> HIDE DEF lens
  <2> DEFINE numbers == [i \in DOMAIN GridDims |-> lens[GridDims[i]]]
  <2>3. numbers \in [1 .. Len(GridDims) -> Nat]
    BY <1>3, <2>1, <2>2
  <2> HIDE DEF numbers
  <2>4. PICK f \in [0 .. Len(GridDims) -> Nat] : SumOf(numbers) = f[Len(GridDims)]
    BY <2>1, <2>3, SumOfFold
  <2>5. f[Len(GridDims)] \in Nat
    BY <2>1, <2>4
  <2> QED BY <2>4, <2>5 DEF numbers
<1>5. lens \in V
  <2>1. lens \in [DOMAIN resolved -> Nat]
    BY <1>2, <1>3
  <2> HIDE DEF lens
  <2> QED BY <1>3, <2>1
<1>6. ASSUME NEW ks \in V
      PROVE  fewer(ks) \in V
  <2>1. CASE enough(ks)
    BY <2>1
  <2>2. CASE ~enough(ks)
    <3>1. PICK w : w = widest(ks)
      OBVIOUS
    <3>2. PICK new : new = [ks EXCEPT ![w] = Largest(1, ks[w] \div 2)]
      OBVIOUS
    <3>3. fewer(ks) = new
      BY <2>2, <3>1, <3>2
    <3> HIDE DEF fewer, enough, widest, lens
    <3>4. \A d \in DOMAIN resolved : lens[d] \in Nat /\ ks[d] \in 1 .. lens[d] /\ ks[d] \in Nat
      BY <1>3
    <3>5. \A d \in DOMAIN resolved : new[d] = IF d = w THEN Largest(1, ks[d] \div 2) ELSE ks[d]
      BY <3>2
    <3>6. \A d \in DOMAIN resolved : new[d] \in 1 .. lens[d]
      <4> TAKE d \in DOMAIN resolved
      <4>1. PICK x, m : x = ks[d] /\ m = lens[d]
        OBVIOUS
      <4>2. m \in Nat /\ x \in 1 .. m
        BY <3>4, <4>1
      <4>3. Largest(1, x \div 2) \in 1 .. m
        BY <4>2 DEF Largest
      <4> QED BY <3>5, <4>1, <4>2, <4>3
    <3>7. new \in [DOMAIN resolved -> Nat]
      <4>1. \A d \in DOMAIN resolved : new[d] \in Nat
        BY <3>4, <3>6
      <4>2. DOMAIN new = DOMAIN resolved /\ new = [d \in DOMAIN resolved |-> new[d]]
        BY <3>2
      <4> QED BY <4>1, <4>2
    <3> QED BY <3>3, <3>6, <3>7
  <2> QED BY <2>1, <2>2
<1> HIDE DEF lens, steps, fewer, enough, widest
<1> DEFINE step == [n \in 1 .. steps |-> [ks \in V |-> fewer(ks)]]
<1>7. step \in [1 .. steps -> [V -> V]]
  <2> HIDE DEF V
  <2> QED BY <1>6
<1>8. PICK f \in [0 .. steps -> V] : Solves(f, lens, steps, step)
  <2> HIDE DEF V, step
  <2> QED BY <1>4, <1>5, <1>7, RecurrenceHasSolution
<1>9. f = [n \in 0 .. steps |-> IF n = 0 THEN lens ELSE fewer(f[n - 1])]
  <2> HIDE DEF V
  <2>1. ASSUME NEW n \in 0 .. steps
        PROVE  f[n] = IF n = 0 THEN lens ELSE fewer(f[n - 1])
    <3>1. CASE n = 0
      BY <1>8, <3>1 DEF Solves
    <3>2. CASE n # 0
      <4>1. n \in 1 .. steps /\ n - 1 \in 0 .. steps
        BY <1>4, <3>2
      <4>2. f[n] = step[n][f[n - 1]] /\ f[n - 1] \in V
        BY <1>8, <4>1 DEF Solves
      <4> QED BY <3>2, <4>1, <4>2
    <3> QED BY <3>1, <3>2
  <2> QED BY <1>8, <2>1
<1>10. halved = [n \in 0 .. steps |-> IF n = 0 THEN lens ELSE fewer(halved[n - 1])]
  BY <1>9
<1> HIDE DEF halved
<1>11. Agrees(halved, f, steps)
  <2> HIDE DEF V
  <2>1. 0 \in 0 .. steps
    BY <1>4
  <2>2. halved[0] = f[0]
    BY <1>9, <1>10, <2>1
  <2>3. ASSUME NEW n \in 1 .. steps, halved[n - 1] = f[n - 1]
        PROVE  halved[n] = f[n]
    <3>1. n \in 0 .. steps /\ n # 0
      BY <1>4
    <3> QED BY <1>9, <1>10, <2>3, <3>1
  <2> QED BY <2>2, <2>3 DEF Agrees
<1>12. halved[steps] = f[steps] /\ f[steps] \in V
  <2>1. steps \in 0 .. steps
    BY <1>4
  <2>2. \A n \in 0 .. steps : halved[n] = f[n]
    BY <1>4, <1>11, AgreeAlong
  <2> HIDE DEF V
  <2> QED BY <1>8, <2>1, <2>2
<1>13. BucketCounts(chunks) \in V
  BY <1>1, <1>12
<1> QED BY <1>3, <1>13

-----------------------------------------------------------------------------
(* A cell of the grid of the chunks that survive, and how it is subdivided.    *)
IsCell(chunks) == IsKept(chunks) /\ \A d \in DOMAIN resolved : chunks[d] # << >>

Divide(subs, chunks) ==
  /\ AnySeq(subs) /\ \A p \in 1 .. Len(subs) : IsCell(subs[p])
  /\ \A c : (\E p \in 1 .. Len(subs) : KeptCell(subs[p], c)) <=> KeptCell(chunks, c)
  /\ \A c : \A p, q \in 1 .. Len(subs) : KeptCell(subs[p], c) /\ KeptCell(subs[q], c) => p = q

LEMMA SubcellsDivide ==
  ASSUME Opened, NEW chunks, IsCell(chunks)
  PROVE  Divide(Subcells(chunks), chunks)
<1> DEFINE ks == BucketCounts(chunks)
           cuts == [d \in DOMAIN chunks |-> ArraySplit(chunks[d], ks[d])]
           subs == Combos(cuts)
<1>1. IsKept(chunks) /\ DOMAIN chunks = DOMAIN resolved /\ \A d \in DOMAIN resolved : InOrderUpto(chunks[d], N(d))
  BY DEF IsCell, IsKept
<1>2. \A d \in DOMAIN resolved : ks[d] \in 1 .. Len(chunks[d])
  BY BucketsFit DEF IsCell
<1>3. Subcells(chunks) = subs
  BY DEF Subcells, Combos
<1> HIDE DEF ks
<1>4. DOMAIN cuts = DOMAIN resolved /\ cuts = [d \in DOMAIN resolved |-> cuts[d]]
  BY <1>1
<1>5. ASSUME NEW d \in DOMAIN resolved
      PROVE  /\ IsCut(cuts[d], chunks[d], ks[d]) /\ \A i \in 1 .. ks[d] : InOrderUpto(cuts[d][i], N(d))
             /\ AnySeq(cuts[d]) /\ Len(cuts[d]) = ks[d]
             /\ ToSet(cuts[d]) = {cuts[d][i] : i \in 1 .. ks[d]}
  <2>1. cuts[d] = ArraySplit(chunks[d], ks[d])
    BY <1>1
  <2> HIDE DEF cuts
  <2>2. IsCut(cuts[d], chunks[d], ks[d]) /\ \A i \in 1 .. ks[d] : InOrderUpto(cuts[d][i], N(d))
    BY <1>1, <1>2, <2>1, SplitCuts
  <2>3. AnySeq(cuts[d]) /\ Len(cuts[d]) = ks[d] /\ DOMAIN cuts[d] = 1 .. ks[d]
    BY <2>2, SequenceParts DEF IsCut
  <2> QED BY <2>2, <2>3 DEF ToSet
<1> HIDE DEF cuts
<1>6. ASSUME NEW d \in DOMAIN resolved
      PROVE  Distinct(cuts[d])
  <2> SUFFICES ASSUME NEW i \in 1 .. ks[d], NEW j \in 1 .. ks[d], cuts[d][i] = cuts[d][j]
               PROVE  i = j
    BY <1>5 DEF Distinct
  <2>1. AnySeq(cuts[d][i]) /\ cuts[d][i] # << >>
    BY <1>5 DEF IsCut
  <2>2. DOMAIN cuts[d][i] = 1 .. Len(cuts[d][i]) /\ Len(cuts[d][i]) \in Nat /\ Len(cuts[d][i]) # 0
    BY <2>1, SequenceParts
  <2>3. 1 \in DOMAIN cuts[d][i]
    BY <2>2
  <2>4. cuts[d][i][1] \in ToSet(cuts[d][i])
    BY <2>3 DEF ToSet
  <2>5. \A x : x \in ToSet(cuts[d][i]) /\ x \in ToSet(cuts[d][j]) => i = j
    BY <1>5 DEF IsCut
  <2> QED BY <2>4, <2>5
<1>7. IsChoice(cuts)
  BY <1>4, <1>5, <1>6 DEF IsChoice
<1>8. /\ AnySeq(subs) /\ Distinct(subs)
      /\ \A p \in 1 .. Len(subs) : IsCombo(subs[p], cuts)
      /\ \A sub : IsCombo(sub, cuts) => \E p \in 1 .. Len(subs) : subs[p] = sub
  BY <1>7, CombosOfChoice
<1> HIDE DEF subs
<1>9. ASSUME NEW p \in 1 .. Len(subs), NEW d \in DOMAIN resolved
      PROVE  \E i \in 1 .. ks[d] : subs[p][d] = cuts[d][i]
  BY <1>5, <1>8 DEF IsCombo
<1>10. ASSUME NEW p \in 1 .. Len(subs)
       PROVE  IsCell(subs[p])
  <2>1. DOMAIN subs[p] = DOMAIN resolved /\ subs[p] = [d \in DOMAIN resolved |-> subs[p][d]]
    BY <1>8 DEF IsCombo
  <2>2. \A d \in DOMAIN resolved : InOrderUpto(subs[p][d], N(d)) /\ subs[p][d] # << >>
    <3> TAKE d \in DOMAIN resolved
    <3>1. PICK i \in 1 .. ks[d] : subs[p][d] = cuts[d][i]
      BY <1>9
    <3> QED BY <1>5, <3>1 DEF IsCut
  <2> QED BY <2>1, <2>2 DEF IsCell, IsKept
<1>11. ASSUME NEW c, NEW p \in 1 .. Len(subs), KeptCell(subs[p], c)
       PROVE  KeptCell(chunks, c)
  <2>1. \A d \in DOMAIN resolved : ToSet(subs[p][d]) \subseteq ToSet(chunks[d])
    <3> TAKE d \in DOMAIN resolved
    <3>1. PICK i \in 1 .. ks[d] : subs[p][d] = cuts[d][i]
      BY <1>9
    <3>2. ToSet(cuts[d][i]) \subseteq ToSet(chunks[d])
      BY <1>5 DEF IsCut
    <3> QED BY <3>1, <3>2
  <2> QED BY <1>11, <2>1 DEF KeptCell
<1>12. ASSUME NEW c, KeptCell(chunks, c)
       PROVE  \E p \in 1 .. Len(subs) : KeptCell(subs[p], c)
  <2> DEFINE at(d) == CHOOSE i \in 1 .. ks[d] : \E x \in ToSet(cuts[d][i]) : InChunk(d, x, c[d])
             sub == [d \in DOMAIN resolved |-> cuts[d][at(d)]]
  <2>1. ASSUME NEW d \in DOMAIN resolved
        PROVE  at(d) \in 1 .. ks[d] /\ \E x \in ToSet(cuts[d][at(d)]) : InChunk(d, x, c[d])
    <3>1. PICK x \in ToSet(chunks[d]) : InChunk(d, x, c[d])
      BY <1>12 DEF KeptCell
    <3>2. PICK i \in 1 .. ks[d] : x \in ToSet(cuts[d][i])
      BY <1>5 DEF IsCut
    <3>3. \E i2 \in 1 .. ks[d] : \E x2 \in ToSet(cuts[d][i2]) : InChunk(d, x2, c[d])
      BY <3>1, <3>2
    <3> QED BY <3>3
  <2>2. \A d \in DOMAIN resolved : sub[d] = cuts[d][at(d)]
    OBVIOUS
  <2>3. DOMAIN sub = DOMAIN resolved /\ sub = [d \in DOMAIN resolved |-> sub[d]]
    OBVIOUS
  <2> HIDE DEF at, sub
  <2>4. \A d \in DOMAIN resolved : sub[d] \in ToSet(cuts[d])
    BY <1>5, <2>1, <2>2
  <2>5. IsCombo(sub, cuts)
    BY <2>3, <2>4 DEF IsCombo
  <2>6. PICK p \in 1 .. Len(subs) : subs[p] = sub
    BY <1>8, <2>5
  <2>7. KeptCell(sub, c)
    BY <1>12, <2>1, <2>2 DEF KeptCell
  <2> QED BY <2>6, <2>7
<1>13. ASSUME NEW c, NEW p \in 1 .. Len(subs), NEW q \in 1 .. Len(subs), KeptCell(subs[p], c), KeptCell(subs[q], c)
       PROVE  p = q
  <2>1. ASSUME NEW d \in DOMAIN resolved
        PROVE  subs[p][d] = subs[q][d]
    <3>1. PICK i \in 1 .. ks[d] : subs[p][d] = cuts[d][i]
      BY <1>9
    <3>2. PICK j \in 1 .. ks[d] : subs[q][d] = cuts[d][j]
      BY <1>9
    <3>3. PICK x \in ToSet(cuts[d][i]) : InChunk(d, x, c[d])
      BY <1>13, <3>1 DEF KeptCell
    <3>4. PICK y \in ToSet(cuts[d][j]) : InChunk(d, y, c[d])
      BY <1>13, <3>2 DEF KeptCell
    <3>5. x \in 1 .. N(d) /\ y \in 1 .. N(d)
      <4>1. x \in ToSet(chunks[d]) /\ y \in ToSet(chunks[d])
        BY <1>5 DEF IsCut
      <4> QED BY <1>1, <4>1, KeptMembers
    <3>6. c[d] \in Nat
      BY <1>13, OpenedParts DEF KeptCell, InBlock
    <3>7. x = y
      BY <3>3, <3>4, <3>5, <3>6, ChunkOfPosition
    <3> QED BY <1>5, <3>1, <3>2, <3>7 DEF IsCut
  <2>2. IsCombo(subs[p], cuts) /\ IsCombo(subs[q], cuts)
    BY <1>8
  <2>3. subs[p] = subs[q]
    BY <2>1, <2>2 DEF IsCombo
  <2> QED BY <1>8, <2>3 DEF Distinct
<1> QED BY <1>3, <1>8, <1>10, <1>11, <1>12, <1>13 DEF Divide

-----------------------------------------------------------------------------
(* There are as many combinations as the product of how many choices there    *)
(* are of each name.                                                          *)
LEMMA CombinationsCount ==
  ASSUME NEW names, AnySeq(names), Distinct(names), NEW choices,
         \A k \in 1 .. Len(names) : AnySeq(choices[names[k]]) /\ Distinct(choices[names[k]]),
         NEW shape, shape = [k \in 1 .. Len(names) |-> Len(choices[names[k]])],
         NEW combos, combos = Combinations(names, choices)
  PROVE  /\ AnySeq(combos) /\ Distinct(combos) /\ Len(combos) = Product(shape)
         /\ \A c : (\E p \in 1 .. Len(combos) : combos[p] = c) <=> Combination(c, names, choices, Len(names))
<1> DEFINE L == Len(names)
           st == ShapeStrides(shape, L)
<1>1. L \in Nat
  BY SequenceParts
<1>2. HasChoices(names, choices)
  BY DEF HasChoices
<1>3. shape \in [1 .. L -> Nat] /\ \A k \in 1 .. L : shape[k] = Len(choices[names[k]])
  BY SequenceParts
<1>4. Strides(st, shape, L)
  <2> HIDE DEF L
  <2> QED BY <1>1, <1>3, StridesOfShape
<1> HIDE DEF st
<1>5. AllCombinations(combos, names, choices, shape, st)
  BY <1>2, <1>3, <1>4, CombinationsAreAll
<1>6. AnySeq(combos) /\ Distinct(combos) /\ Len(combos) = st[0][L]
  BY <1>5 DEF AllCombinations, InOrder
<1>7. \A p \in 1 .. Len(combos) : Combination(combos[p], names, choices, L)
  BY <1>5 DEF AllCombinations, InOrder
<1>8. \A c : Combination(c, names, choices, L) => \E p \in 1 .. Len(combos) : combos[p] = c
  BY <1>5 DEF AllCombinations
<1> HIDE DEF L
<1>9. Product(shape) = st[0][L]
  <2>1. CASE L = 0
    <3>1. PICK f \in [0 .. L -> Nat] : Products(f, L, shape) /\ Product(shape) = f[L]
      BY <1>1, <1>3, ProductFold
    <3>2. Product(shape) = 1
      BY <2>1, <3>1 DEF Products
    <3>3. st[0][L] = 1
      BY <1>1, <1>4, <2>1 DEF Strides
    <3> QED BY <3>2, <3>3
  <2>2. CASE L # 0
    <3>1. 0 \in 0 .. L /\ L \in 0 .. L /\ 0 + 1 = 1
      BY <1>1
    <3>2. st[0][L] = Product(SubSeq(shape, 1, L))
      BY <3>1 DEF ShapeStrides, st
    <3>3. shape \in Seq(Nat) /\ Len(shape) = L
      BY <1>1, <1>3
    <3>4. SubSeq(shape, 1, L) = shape
      BY <1>1, <3>3
    <3> QED BY <3>2, <3>4
  <2> QED BY <2>1, <2>2
<1> QED BY <1>6, <1>7, <1>8, <1>9 DEF L

(* The positions of some chunks of a dimension.                               *)
Positions(d, indices) ==
  FlattenSeq([i \in DOMAIN indices |->
    [j \in 1 .. resolved[d][indices[i]] |-> Bounds(d)[indices[i]] + j - 1]])

LEMMA PositionsOfChunks ==
  ASSUME Opened, NEW d \in DOMAIN resolved, NEW q, InOrderUpto(q, N(d)), NEW p, p = Positions(d, q)
  PROVE  /\ AnySeq(p) /\ Distinct(p) /\ Len(p) = SumOf([i \in DOMAIN q |-> resolved[d][q[i]]])
         /\ \A x : (\E j \in 1 .. Len(p) : p[j] = x) <=> x \in Nat /\ \E i \in ToSet(q) : InChunk(d, i, x)
<1> DEFINE b == Bounds(d)
           n(i) == resolved[d][q[i]]
           parts == [i \in DOMAIN q |-> [j \in 1 .. n(i) |-> b[q[i]] + j - 1]]
           F == [x \in Nat |-> {x}]
           A == [i \in 1 .. Len(q) |-> {x \in Nat : InChunk(d, q[i], x)}]
<1>1. AnySeq(q) /\ Len(q) \in Nat /\ DOMAIN q = 1 .. Len(q)
  BY SequenceParts DEF InOrderUpto
<1>2. \A i \in 1 .. Len(q) : q[i] \in 1 .. N(d)
  BY DEF InOrderUpto
<1>3. N(d) \in Nat /\ resolved[d] \in [1 .. N(d) -> Nat]
  BY OpenedParts
<1>4. CutsAt(b, resolved[d], dataset.size[d])
  BY OpenedParts
<1>5. ASSUME NEW i \in 1 .. Len(q)
      PROVE  n(i) \in Nat /\ b[q[i]] \in Nat /\ b[q[i] + 1] = b[q[i]] + n(i)
  <2>1. q[i] \in 1 .. N(d) /\ q[i] \in 1 .. N(d) + 1
    BY <1>2, <1>3
  <2>2. b[q[i]] \in Nat /\ b[q[i] + 1] = b[q[i]] + resolved[d][q[i]]
    BY <1>4, <2>1 DEF CutsAt, N
  <2> QED BY <1>3, <2>1, <2>2
<1>6. p = FlattenSeq(parts)
  BY DEF Positions
<1> HIDE DEF n, b
<1>7. ASSUME NEW i \in 1 .. Len(q)
      PROVE  /\ AnySeq(parts[i]) /\ Len(parts[i]) = n(i)
             /\ \A j \in 1 .. n(i) : parts[i][j] = (b[q[i]] + j) - 1 /\ parts[i][j] \in Nat
  <2> DEFINE r == parts[i]
  <2>1. r = [j \in 1 .. n(i) |-> b[q[i]] + j - 1]
    BY <1>1
  <2> HIDE DEF r
  <2>2. DOMAIN r = 1 .. n(i) /\ r = [j \in 1 .. n(i) |-> r[j]]
    BY <2>1
  <2>3. AnySeq(r) /\ Len(r) = n(i)
    BY <1>5, <2>2, MadeSequence
  <2>4. PICK m : m = n(i)
    OBVIOUS
  <2>5. PICK e : e = b[q[i]]
    OBVIOUS
  <2>6. m \in Nat /\ e \in Nat /\ r = [j \in 1 .. m |-> (e + j) - 1]
    BY <1>5, <2>1, <2>4, <2>5
  <2>7. \A j \in 1 .. m : r[j] = (e + j) - 1 /\ r[j] \in Nat
    BY <2>6
  <2> QED BY <2>3, <2>4, <2>5, <2>7 DEF r
<1>8. DOMAIN parts = 1 .. Len(q) /\ parts = [i \in 1 .. Len(q) |-> parts[i]]
  BY <1>1
<1> HIDE DEF parts
<1>9. AnySeq(parts) /\ Len(parts) = Len(q)
  BY <1>1, <1>8, MadeSequence
<1>10. SeqOfSeqs(parts)
  BY <1>7, <1>9 DEF SeqOfSeqs
<1>11. \A x \in Nat : F[x] = {x}
  OBVIOUS
<1>12. \A i \in 1 .. Len(q) : \A x : x \in A[i] <=> x \in Nat /\ InChunk(d, q[i], x)
  OBVIOUS
<1> HIDE DEF F, A
<1>13. ASSUME NEW i \in 1 .. Len(q)
       PROVE  Separate(parts[i], F) /\ Together(parts[i], F) = A[i]
  <2>1. Separate(parts[i], F)
    <3> SUFFICES ASSUME NEW j \in 1 .. n(i), NEW k \in 1 .. n(i), NEW x, x \in F[parts[i][j]], x \in F[parts[i][k]]
                 PROVE  j = k
      BY <1>7 DEF Separate
    <3>1. parts[i][j] = parts[i][k]
      BY <1>7, <1>11
    <3>2. (b[q[i]] + j) - 1 = (b[q[i]] + k) - 1
      BY <1>7, <3>1
    <3> QED BY <1>5, <3>2
  <2>2. ASSUME NEW x
        PROVE  (\E j \in 1 .. n(i) : x \in F[parts[i][j]]) <=> x \in Nat /\ InChunk(d, q[i], x)
    <3>1. ASSUME NEW j \in 1 .. n(i), x \in F[parts[i][j]]
          PROVE  x \in Nat /\ InChunk(d, q[i], x)
      <4>1. x = (b[q[i]] + j) - 1
        BY <1>7, <1>11, <3>1
      <4>2. x \in Nat /\ b[q[i]] <= x /\ x < b[q[i] + 1]
        BY <1>5, <4>1
      <4> QED BY <4>2 DEF InChunk, b
    <3>2. ASSUME x \in Nat, InChunk(d, q[i], x)
          PROVE  \E j \in 1 .. n(i) : x \in F[parts[i][j]]
      <4>1. b[q[i]] <= x /\ x < b[q[i] + 1]
        BY <3>2 DEF InChunk, b
      <4>2. PICK j : j = (x - b[q[i]]) + 1
        OBVIOUS
      <4>3. j \in 1 .. n(i) /\ x = (b[q[i]] + j) - 1
        BY <1>5, <3>2, <4>1, <4>2
      <4> QED BY <1>7, <1>11, <3>2, <4>3
    <3> QED BY <3>1, <3>2
  <2>3. \A x : x \in Together(parts[i], F) <=> \E j \in 1 .. n(i) : x \in F[parts[i][j]]
    BY <1>7 DEF Together
  <2>4. \A x : x \in A[i] <=> x \in Nat /\ InChunk(d, q[i], x)
    BY <1>12
  <2>5. \A x : x \in Together(parts[i], F) <=> x \in A[i]
    BY <2>2, <2>3, <2>4
  <2> QED BY <2>1, <2>5
<1>14. ASSUME NEW i \in 1 .. Len(q), NEW k \in 1 .. Len(q), i # k
       PROVE  A[i] \cap A[k] = {}
  <2> SUFFICES ASSUME NEW x, x \in A[i], x \in A[k]
               PROVE  FALSE
    OBVIOUS
  <2>1. x \in Nat /\ InChunk(d, q[i], x) /\ InChunk(d, q[k], x)
    BY <1>12
  <2>2. q[i] = q[k]
    BY <1>2, <2>1, ChunkOfPosition
  <2>3. \A l \in 1 .. Len(q) : \A m \in 1 .. Len(q) : l < m => q[l] < q[m]
    BY DEF InOrderUpto
  <2>4. q[i] \in Nat /\ q[k] \in Nat
    BY <1>2, <1>3
  <2>5. i < k \/ k < i
    BY <1>1, <1>14
  <2> QED BY <2>2, <2>3, <2>4, <2>5
<1>15. /\ AnySeq(p) /\ Separate(p, F)
       /\ \A x : x \in Together(p, F) <=> \E i \in 1 .. Len(q) : x \in A[i]
  <2>1. ASSUME NEW i \in 1 .. Len(parts)
        PROVE  Separate(parts[i], F) /\ Together(parts[i], F) = A[i]
    BY <1>9, <1>13
  <2>2. ASSUME NEW i \in 1 .. Len(parts), NEW k \in 1 .. Len(parts), i # k
        PROVE  A[i] \cap A[k] = {}
    BY <1>9, <1>14, <2>2
  <2>3. /\ AnySeq(FlattenSeq(parts)) /\ Separate(FlattenSeq(parts), F)
        /\ \A x : x \in Together(FlattenSeq(parts), F) <=> \E a \in 1 .. Len(parts) : x \in A[a]
    BY ONLY <1>10, <2>1, <2>2, FlattenSeparate
  <2> QED BY <1>6, <1>9, <2>3
<1>16. \A j \in 1 .. Len(p) : p[j] \in Nat
  <2>1. PICK off : Placed(p, parts, off)
    BY <1>6, <1>10, FlattenPlaces
  <2> TAKE j \in 1 .. Len(p)
  <2>2. PICK a \in 1 .. Len(parts) : \E c \in 1 .. Len(parts[a]) : j = off[a - 1] + c
    BY <2>1 DEF Placed
  <2>3. PICK c \in 1 .. Len(parts[a]) : j = off[a - 1] + c
    BY <2>2
  <2>4. p[off[a - 1] + c] = parts[a][c]
    BY <2>1 DEF Placed
  <2>5. parts[a][c] \in Nat
    BY <1>7, <1>9
  <2> QED BY <2>3, <2>4, <2>5
<1>17. Distinct(p)
  <2> SUFFICES ASSUME NEW j \in 1 .. Len(p), NEW k \in 1 .. Len(p), p[j] = p[k]
               PROVE  j = k
    BY DEF Distinct
  <2>1. p[j] \in F[p[j]] /\ p[j] \in F[p[k]]
    BY <1>11, <1>16
  <2> QED BY <1>15, <2>1 DEF Separate
<1>18. Len(p) = SumOf([i \in DOMAIN q |-> resolved[d][q[i]]])
  <2>1. Len(p) = SumOf([i \in DOMAIN parts |-> Len(parts[i])])
    BY <1>6, <1>10, FlattenLength
  <2>2. [i \in DOMAIN parts |-> Len(parts[i])] = [i \in DOMAIN q |-> resolved[d][q[i]]]
    BY <1>1, <1>7, <1>8 DEF n
  <2> QED BY <2>1, <2>2
<1>19. ASSUME NEW x
       PROVE  (\E j \in 1 .. Len(p) : p[j] = x) <=> x \in Nat /\ \E i \in ToSet(q) : InChunk(d, i, x)
  <2>1. (\E j \in 1 .. Len(p) : p[j] = x) <=> x \in Together(p, F)
    BY <1>11, <1>16 DEF Together
  <2>2. x \in Together(p, F) <=> \E i \in 1 .. Len(q) : x \in A[i]
    BY <1>15
  <2>3. (\E i \in 1 .. Len(q) : x \in A[i]) <=> x \in Nat /\ \E i \in 1 .. Len(q) : InChunk(d, q[i], x)
    BY <1>12
  <2>4. (\E i \in 1 .. Len(q) : InChunk(d, q[i], x)) <=> \E i \in ToSet(q) : InChunk(d, i, x)
    BY <1>1 DEF ToSet
  <2> QED BY <2>1, <2>2, <2>3, <2>4
<1> QED BY <1>15, <1>17, <1>18, <1>19

(* The cells of the grid, and how many of them some chunks hold.              *)
AllCells == ToSet(Cells(WholeGrid(dataset)))

CellsIn(chunks) == {c \in AllCells : KeptCell(chunks, c)}

LEMMA AllCellsAre ==
  ASSUME Opened
  PROVE  IsFiniteSet(AllCells) /\ \A c : c \in AllCells <=> InBlock(dataset, WholeGrid(dataset), c)
<1> DEFINE q == Cells(WholeGrid(dataset))
<1>1. IsBlock(dataset, WholeGrid(dataset))
  BY OpenedParts, WholeIsBlock
<1>2. /\ AnySeq(q) /\ Distinct(q) /\ DOMAIN q = 1 .. Len(q)
      /\ \A j \in 1 .. Len(q) : InBlock(dataset, WholeGrid(dataset), q[j])
      /\ \A c : InBlock(dataset, WholeGrid(dataset), c) => \E j \in 1 .. Len(q) : q[j] = c
  BY <1>1, CellsOfBlock
<1>3. AllCells = ToSet(q)
  BY DEF AllCells
<1> HIDE DEF q
<1>4. IsFiniteSet(ToSet(q))
  BY <1>2, DistinctLength
<1>5. \A c : c \in ToSet(q) <=> InBlock(dataset, WholeGrid(dataset), c)
  BY <1>2 DEF ToSet
<1> QED BY <1>3, <1>4, <1>5

LEMMA CellRows ==
  ASSUME Opened, NEW sub, IsKept(sub)
  PROVE  RowsOfCell(sub) \in Nat /\ Cardinality(CellsIn(sub)) = RowsOfCell(sub)
<1> DEFINE names == dataset.dims
           n == Len(names)
           given(d) == IF d \in DOMAIN resolved THEN Positions(d, sub[d])
                       ELSE [j \in 1 .. dataset.size[d] |-> j - 1]
           choices == [d \in DimsOf(dataset) |-> given(d)]
           positions == [d \in DOMAIN sub |-> SumOf([i \in DOMAIN sub[d] |-> resolved[d][sub[d][i]]])]
           shape == [k \in 1 .. n |-> Len(choices[names[k]])]
           combos == Combinations(names, choices)
<1>1. IsGrid(dataset) /\ AnySeq(names) /\ Distinct(names) /\ ToSet(names) = DimsOf(dataset)
  BY OpenedParts, DimsAreDims DEF AreDims
<1>2. n \in Nat /\ DOMAIN names = 1 .. n /\ \A k \in 1 .. n : names[k] \in DimsOf(dataset)
  BY <1>1, SequenceParts DEF ToSet
<1>3. DOMAIN sub = DOMAIN resolved /\ \A d \in DOMAIN resolved : d \in DimsOf(dataset) /\ InOrderUpto(sub[d], N(d))
  BY OpenedParts DEF IsKept
<1>4. \A d \in DimsOf(dataset) : dataset.size[d] \in Nat
  BY <1>1 DEF IsGrid
<1>5. ASSUME NEW d \in DOMAIN resolved
      PROVE  /\ AnySeq(choices[d]) /\ Distinct(choices[d]) /\ Len(choices[d]) = positions[d] /\ positions[d] \in Nat
             /\ \A x : (\E j \in 1 .. Len(choices[d]) : choices[d][j] = x)
                         <=> x \in Nat /\ \E i \in ToSet(sub[d]) : InChunk(d, i, x)
  <2> DEFINE p == Positions(d, sub[d])
  <2>1. choices[d] = p
    BY <1>3
  <2>2. positions[d] = SumOf([i \in DOMAIN sub[d] |-> resolved[d][sub[d][i]]])
    BY <1>3
  <2> HIDE DEF choices, positions
  <2>3. /\ AnySeq(p) /\ Distinct(p) /\ Len(p) = SumOf([i \in DOMAIN sub[d] |-> resolved[d][sub[d][i]]])
        /\ \A x : (\E j \in 1 .. Len(p) : p[j] = x) <=> x \in Nat /\ \E i \in ToSet(sub[d]) : InChunk(d, i, x)
    BY <1>3, PositionsOfChunks
  <2> HIDE DEF p
  <2>4. Len(p) \in Nat
    BY <2>3, SequenceParts
  <2> QED BY <2>1, <2>2, <2>3, <2>4
<1>6. ASSUME NEW d \in DimsOf(dataset) \ DOMAIN resolved
      PROVE  /\ AnySeq(choices[d]) /\ Distinct(choices[d]) /\ Len(choices[d]) = dataset.size[d]
             /\ \A x : (\E j \in 1 .. Len(choices[d]) : choices[d][j] = x) <=> x \in Nat /\ x < dataset.size[d]
  <2>1. PICK m : m = dataset.size[d]
    OBVIOUS
  <2>2. m \in Nat
    BY <1>4, <2>1
  <2>3. PICK p : p = choices[d]
    OBVIOUS
  <2>4. p = [j \in 1 .. m |-> j - 1]
    BY <2>1, <2>3
  <2> HIDE DEF choices
  <2>5. DOMAIN p = 1 .. m /\ p = [j \in 1 .. m |-> p[j]] /\ \A j \in 1 .. m : p[j] = j - 1
    BY <2>4
  <2>6. AnySeq(p) /\ Len(p) = m
    BY <2>2, <2>5, MadeSequence
  <2>7. Distinct(p)
    BY <2>2, <2>5, <2>6 DEF Distinct
  <2>8. ASSUME NEW x
        PROVE  (\E j \in 1 .. m : p[j] = x) <=> x \in Nat /\ x < m
    <3>1. ASSUME NEW j \in 1 .. m, p[j] = x
          PROVE  x \in Nat /\ x < m
      BY <2>2, <2>5, <3>1
    <3>2. ASSUME x \in Nat, x < m
          PROVE  \E j \in 1 .. m : p[j] = x
      <4>1. x + 1 \in 1 .. m /\ (x + 1) - 1 = x
        BY <2>2, <3>2
      <4> QED BY <2>5, <4>1
    <3> QED BY <3>1, <3>2
  <2> QED BY <2>1, <2>3, <2>6, <2>7, <2>8
<1> HIDE DEF choices, positions
<1>7. \A k \in 1 .. n : AnySeq(choices[names[k]]) /\ Distinct(choices[names[k]])
  BY <1>2, <1>5, <1>6
<1>8. /\ AnySeq(combos) /\ Distinct(combos) /\ Len(combos) = Product(shape)
      /\ \A c : (\E p \in 1 .. Len(combos) : combos[p] = c) <=> Combination(c, names, choices, n)
  BY <1>1, <1>7, CombinationsCount
<1>9. DOMAIN combos = 1 .. Len(combos)
  BY <1>8, SequenceParts
<1> HIDE DEF combos
<1>10. ASSUME NEW c
       PROVE  Combination(c, names, choices, n) <=> c \in AllCells /\ KeptCell(sub, c)
  <2>1. NamesUpto(names, n) = DimsOf(dataset)
    BY <1>1, <1>2 DEF NamesUpto, ToSet
  <2>2. Combination(c, names, choices, n) <=>
          /\ DOMAIN c = DimsOf(dataset) /\ c = [x \in DimsOf(dataset) |-> c[x]]
          /\ \A d \in DimsOf(dataset) : \E j \in 1 .. Len(choices[d]) : c[d] = choices[d][j]
    <3>1. (\A k \in 1 .. n : \E j \in 1 .. Len(choices[names[k]]) : c[names[k]] = choices[names[k]][j])
            <=> \A d \in NamesUpto(names, n) : \E j \in 1 .. Len(choices[d]) : c[d] = choices[d][j]
      BY DEF NamesUpto
    <3> QED BY <2>1, <3>1 DEF Combination
  <2>3. c \in AllCells <=>
          /\ DOMAIN c = DimsOf(dataset) /\ c = [d \in DimsOf(dataset) |-> c[d]]
          /\ \A d \in DimsOf(dataset) : c[d] \in Nat /\ c[d] < dataset.size[d]
    <3>1. c \in AllCells <=> InBlock(dataset, WholeGrid(dataset), c)
      BY AllCellsAre
    <3> QED BY <1>1, <3>1, WholeIsBlock
  <2>4. KeptCell(sub, c) <=> /\ c \in AllCells
                             /\ \A d \in DOMAIN resolved : \E i \in ToSet(sub[d]) : InChunk(d, i, c[d])
    BY AllCellsAre DEF KeptCell
  <2>5. ASSUME NEW d \in DOMAIN resolved, c[d] \in Nat, \E i \in ToSet(sub[d]) : InChunk(d, i, c[d])
        PROVE  c[d] < dataset.size[d]
    <3>1. PICK i \in ToSet(sub[d]) : InChunk(d, i, c[d])
      BY <2>5
    <3>2. i \in 1 .. N(d) /\ N(d) \in Nat
      BY <3>1, KeptMembers
    <3>3. i \in i .. N(d)
      BY <3>2
    <3>4. /\ Bounds(d)[i] \in Nat /\ Bounds(d)[i + 1] \in Nat /\ Bounds(d)[i + 1] <= dataset.size[d]
      BY <3>2, <3>3, ChunkEnds
    <3>5. dataset.size[d] \in Nat
      BY <1>3, <1>4
    <3> QED BY <2>5, <3>1, <3>4, <3>5 DEF InChunk
  <2>6. ASSUME NEW d \in DimsOf(dataset)
        PROVE  (\E j \in 1 .. Len(choices[d]) : c[d] = choices[d][j]) <=>
                 /\ c[d] \in Nat /\ c[d] < dataset.size[d]
                 /\ d \in DOMAIN resolved => \E i \in ToSet(sub[d]) : InChunk(d, i, c[d])
    <3>1. CASE d \in DOMAIN resolved
      BY <1>5, <2>5, <3>1
    <3>2. CASE d \notin DOMAIN resolved
      BY <1>6, <3>2
    <3> QED BY <3>1, <3>2
  <2> QED BY <1>3, <2>2, <2>3, <2>4, <2>6
<1>11. ToSet(combos) = CellsIn(sub)
  BY <1>8, <1>9, <1>10 DEF ToSet, CellsIn
<1>12. Cardinality(CellsIn(sub)) = Product(shape)
  BY <1>8, <1>11, DistinctLength
<1>13. shape = Factors(positions)
  <2>1. \A k \in 1 .. n : shape[k] = IF names[k] \in DOMAIN positions THEN positions[names[k]]
                                     ELSE IF names[k] \in DOMAIN resolved THEN 1 ELSE dataset.size[names[k]]
    <3> TAKE k \in 1 .. n
    <3>1. DOMAIN positions = DOMAIN resolved
      BY <1>3 DEF positions
    <3>2. shape[k] = Len(choices[names[k]])
      OBVIOUS
    <3> QED BY <1>2, <1>5, <1>6, <3>1, <3>2
  <2> QED BY <1>2, <2>1 DEF Factors
<1>14. \A d \in DOMAIN positions : positions[d] \in Nat
  <2>1. DOMAIN positions = DOMAIN resolved
    BY <1>3 DEF positions
  <2> QED BY <1>5, <2>1
<1>15. RowsOf(positions) = Product(Factors(positions)) /\ RowsOf(positions) \in Nat
  BY <1>14, FactorsAreNat
<1>16. RowsOfCell(sub) = RowsOf(positions)
  BY DEF RowsOfCell, positions
<1> QED BY <1>12, <1>13, <1>15, <1>16

-----------------------------------------------------------------------------
(* Spans. The values reduced for a chunk are coordinates of its dimension,    *)
(* and those of the chunk are among them.                                     *)
LEMMA ReducedValues ==
  ASSUME Opened, ~SpansRaise, NEW d \in PrunableDims, NEW i \in 1 .. N(d)
  PROVE  /\ AnySeq(ReducedAt(d, i)) /\ ReducedAt(d, i) # << >>
         /\ ToSet(ReducedAt(d, i)) \subseteq ToSet(dataset.coords[d])
         /\ \A x \in Nat : InChunk(d, i, x) => dataset.coords[d][x + 1] \in ToSet(ReducedAt(d, i))
<1> DEFINE coord == dataset.coords[d]
           a == Bounds(d)[i]
           b == Bounds(d)[i + 1]
           q == Coords(d, i - 1, i)
<1>1. /\ dataset \in Datasets /\ d \in DOMAIN resolved /\ d \in DimsOf(dataset)
      /\ N(d) \in Nat /\ resolved[d] \in [1 .. N(d) -> Nat] /\ dataset.size[d] \in Nat
      /\ CutsAt(Bounds(d), resolved[d], dataset.size[d])
  BY OpenedParts DEF PrunableDims, Opened
<1>2. coord \in Seq(Int \cup {NaN, Null}) /\ Len(coord) = dataset.size[d]
  BY <1>1, TablesAssumption
<1>3. AnySeq(coord) /\ DOMAIN coord = 1 .. Len(coord)
  BY <1>2 DEF AnySeq
<1>4. a \in Nat /\ b \in Nat /\ a <= b /\ b <= dataset.size[d]
  <2>1. i \in 1 .. N(d) /\ i \in i .. N(d)
    BY <1>1
  <2> QED BY <1>1, <2>1, ChunkEnds
<1>5. a < dataset.size[d]
  <2> DEFINE n == N(d)
  <2>1. n \in 1 .. n /\ n \in i .. n /\ n \in n .. n
    BY <1>1
  <2>2. /\ Bounds(d)[n] \in Nat /\ Bounds(d)[n + 1] \in Nat /\ Bounds(d)[n + 1] <= dataset.size[d]
        /\ a <= Bounds(d)[n]
    BY <1>1, <2>1, ChunkEnds
  <2>3. resolved[d][n] # 0
    <3>1. Last(resolved[d]) # 0
      BY DEF SpansRaise
    <3> QED BY <3>1 DEF Last, N
  <2>4. Bounds(d)[n + 1] = Bounds(d)[n] + resolved[d][n] /\ resolved[d][n] \in Nat
    <3>1. n \in 1 .. Len(resolved[d]) /\ n \in 1 .. N(d)
      BY <2>1 DEF N
    <3> QED BY <1>1, <3>1 DEF CutsAt
  <2>5. PICK u : u = Bounds(d)[n]
    OBVIOUS
  <2>6. PICK w : w = resolved[d][n]
    OBVIOUS
  <2>7. u \in Nat /\ w \in Nat /\ w # 0 /\ a <= u /\ u + w <= dataset.size[d]
    BY <2>2, <2>3, <2>4, <2>5, <2>6
  <2> HIDE DEF n, a
  <2> QED BY <1>1, <1>4, <2>7
<1>6. q = SubSeq(coord, a + 1, b)
  <2>1. (i - 1) + 1 = i
    BY <1>1
  <2>2. q = SubSeq(coord, Bounds(d)[(i - 1) + 1] + 1, b)
    BY DEF Coords
  <2> QED BY <2>1, <2>2
<1>7. ReducedAt(d, i) = IF q # << >> THEN q ELSE <<coord[a + 1]>>
  BY DEF ReducedAt
<1> HIDE DEF a, b, q, coord
<1>8. AnySeq(q) /\ Len(q) = b - a /\ \A j \in 1 .. b - a : q[j] = coord[a + j]
  BY <1>2, <1>3, <1>4, <1>6, Slice
<1>9. DOMAIN q = 1 .. Len(q) /\ (q # << >> <=> Len(q) # 0)
  BY <1>8, SequenceParts
<1>10. CASE q # << >>
  <2>1. \A j \in 1 .. b - a : a + j \in 1 .. Len(coord)
    BY <1>2, <1>4
  <2>2. ToSet(q) \subseteq ToSet(coord)
    BY <1>3, <1>8, <1>9, <2>1 DEF ToSet
  <2>3. ASSUME NEW x \in Nat, InChunk(d, i, x)
        PROVE  coord[x + 1] \in ToSet(q)
    <3>1. a <= x /\ x < b
      BY <2>3 DEF InChunk, a, b
    <3>2. (x - a) + 1 \in 1 .. b - a /\ a + ((x - a) + 1) = x + 1
      BY <1>4, <3>1
    <3>3. q[(x - a) + 1] = coord[x + 1]
      BY <1>8, <3>2
    <3> QED BY <1>8, <1>9, <3>2, <3>3 DEF ToSet
  <2> QED BY <1>7, <1>8, <1>10, <2>2, <2>3 DEF coord
<1>11. CASE q = << >>
  <2>1. b - a = 0
    BY <1>8, <1>9, <1>11
  <2> DEFINE one == <<coord[a + 1]>>
  <2>2. a + 1 \in 1 .. Len(coord)
    BY <1>1, <1>2, <1>4, <1>5
  <2>3. coord[a + 1] \in ToSet(coord)
    BY <1>3, <2>2 DEF ToSet
  <2>4. one \in Seq({coord[a + 1]}) /\ Len(one) = 1 /\ one # << >> /\ DOMAIN one = {1} /\ one[1] = coord[a + 1]
    OBVIOUS
  <2> HIDE DEF one
  <2>5. AnySeq(one) /\ ToSet(one) = {coord[a + 1]}
    BY <2>4 DEF AnySeq, ToSet
  <2>6. ASSUME NEW x \in Nat, InChunk(d, i, x)
        PROVE  FALSE
    BY <1>4, <2>1, <2>6 DEF InChunk, a, b
  <2>7. ReducedAt(d, i) = one
    BY <1>7, <1>11 DEF one
  <2> QED BY <2>3, <2>4, <2>5, <2>6, <2>7 DEF coord
<1> QED BY <1>10, <1>11

(* A span without missing values holds the values of its chunk.               *)
LEMMA SpanHolds ==
  ASSUME Opened, ~SpansRaise, NEW d \in PrunableDims, NEW i \in 1 .. N(d),
         NEW span, span = ChunkSpans(d)[i], ~span.missing
  PROVE  /\ span.range[1] \in ToSet(dataset.coords[d]) \cap Int /\ span.range[2] \in ToSet(dataset.coords[d]) \cap Int
         /\ \A x \in Nat : InChunk(d, i, x) =>
              LET v == dataset.coords[d][x + 1] IN v \in Int /\ span.range[1] <= v /\ v <= span.range[2]
<1> DEFINE coord == dataset.coords[d]
           q == ReducedAt(d, i)
           vals == ToSet(q)
<1>1. dataset \in Datasets /\ d \in DimsOf(dataset) /\ d \in DOMAIN resolved
  BY OpenedParts DEF PrunableDims, Opened
<1>2. coord \in Seq(Int \cup {NaN, Null})
  BY <1>1, TablesAssumption
<1>3. /\ AnySeq(q) /\ q # << >> /\ ToSet(q) \subseteq ToSet(coord)
      /\ \A x \in Nat : InChunk(d, i, x) => coord[x + 1] \in ToSet(q)
  BY ReducedValues
<1>4. span = IF {NaN, Null} \cap vals # {} THEN [missing |-> TRUE, range |-> << >>]
             ELSE [missing |-> FALSE, range |-> <<Min(vals), Max(vals)>>]
  BY DEF ChunkSpans
<1> HIDE DEF q
<1>5. {NaN, Null} \cap vals = {} /\ span = [missing |-> FALSE, range |-> <<Min(vals), Max(vals)>>]
  BY <1>4
<1>6. ToSet(coord) \subseteq Int \cup {NaN, Null}
  BY <1>2 DEF ToSet
<1> HIDE DEF coord
<1>7. vals \subseteq Int
  BY <1>3, <1>5, <1>6
<1>8. q \in Seq(Int)
  <2>1. DOMAIN q = 1 .. Len(q)
    BY <1>3, SequenceParts
  <2>2. \A j \in 1 .. Len(q) : q[j] \in Int
    BY <1>7, <2>1 DEF ToSet
  <2> QED BY <1>3, <2>2, SequenceOver
<1> DEFINE lo == Min(vals)
           hi == Max(vals)
<1>9. lo \in vals /\ hi \in vals /\ \A v \in vals : v \in Int /\ lo <= v /\ v <= hi
  BY <1>3, <1>8, EndsOfSequence
<1>10. span.range[1] = lo /\ span.range[2] = hi
  <2> HIDE DEF vals, lo, hi
  <2>1. span = [missing |-> FALSE, range |-> <<lo, hi>>]
    BY <1>5 DEF lo, hi
  <2> QED BY <2>1
<1> HIDE DEF vals, lo, hi
<1> QED BY <1>3, <1>7, <1>9, <1>10 DEF vals, coord

(* The guarantee of a bucket is one of its dimension for every cell in it.     *)
LEMMA BucketHolds ==
  ASSUME Opened, ~SpansRaise, NEW d \in PrunableDims, NEW q, InOrderUpto(q, N(d)), q # << >>,
         NEW cache, cache[d] = ChunkSpans(d), ~Unprovable(d, q, cache),
         NEW g, g = BucketGuarantee(d, q, cache)
  PROVE  /\ g = <<g[1], g[2]>>
         /\ g[1] \in ToSet(dataset.coords[d]) \cap Int /\ g[2] \in ToSet(dataset.coords[d]) \cap Int
         /\ \A x \in Nat : \A i \in ToSet(q) : InChunk(d, i, x) =>
              LET v == dataset.coords[d][x + 1] IN v \in Int /\ g[1] <= v /\ v <= g[2]
<1> DEFINE coord == dataset.coords[d]
           n == Len(q)
           S == ToSet(coord) \cap Int
           span(i) == ChunkSpans(d)[q[i]]
           lo == [i \in 1 .. n |-> span(i).range[1]]
           hi == [i \in 1 .. n |-> span(i).range[2]]
           ranges == {span(i).range : i \in 1 .. n}
           los == {lo[i] : i \in 1 .. n}
           his == {hi[i] : i \in 1 .. n}
<1>1. n \in Nat /\ n # 0 /\ DOMAIN q = 1 .. n /\ \A i \in 1 .. n : q[i] \in 1 .. N(d)
  BY SequenceParts DEF InOrderUpto
<1>2. \A i \in 1 .. n : ~span(i).missing
  BY <1>1 DEF Unprovable
<1>3. \A i \in 1 .. n :
        /\ span(i).range[1] \in S /\ span(i).range[2] \in S
        /\ \A x \in Nat : InChunk(d, q[i], x) =>
             coord[x + 1] \in Int /\ span(i).range[1] <= coord[x + 1] /\ coord[x + 1] <= span(i).range[2]
  BY <1>1, <1>2, SpanHolds
<1>4. g = <<Min({r[1] : r \in ranges}), Max({r[2] : r \in ranges})>>
  <2>1. {cache[d][q[i]].range : i \in DOMAIN q} = ranges
    BY <1>1
  <2> HIDE DEF ranges
  <2> QED BY <2>1 DEF BucketGuarantee
<1> HIDE DEF span, n
<1>5. {r[1] : r \in ranges} = los /\ {r[2] : r \in ranges} = his
  OBVIOUS
<1> HIDE DEF ranges
<1>6. g = <<Min(los), Max(his)>>
  BY <1>4, <1>5
<1>7. /\ \A i \in 1 .. n : lo[i] = span(i).range[1] /\ hi[i] = span(i).range[2]
      /\ lo = [i \in 1 .. n |-> lo[i]] /\ hi = [i \in 1 .. n |-> hi[i]]
  OBVIOUS
<1> HIDE DEF lo, hi
<1>8. lo \in [1 .. n -> Int] /\ hi \in [1 .. n -> Int]
  <2>1. \A i \in 1 .. n : lo[i] \in Int /\ hi[i] \in Int
    BY <1>3, <1>7
  <2> QED BY <1>7, <2>1
<1>9. 1 .. n \in SUBSET (1 .. n) /\ 1 .. n # {}
  <2>1. 1 \in 1 .. n
    BY <1>1
  <2> QED BY <2>1
<1>10. Min(los) \in los /\ \A v \in los : v \in Int /\ Min(los) <= v
  BY <1>1, <1>8, <1>9, ChosenEnds
<1>11. Max(his) \in his /\ \A v \in his : v \in Int /\ v <= Max(his)
  BY <1>1, <1>8, <1>9, ChosenEnds
<1>12. los \subseteq S /\ his \subseteq S
  <2>1. \A i \in 1 .. n : lo[i] \in S /\ hi[i] \in S
    BY <1>3, <1>7
  <2> HIDE DEF S
  <2> QED BY <2>1
<1> DEFINE a == Min(los)
           b == Max(his)
<1>13. a \in S /\ b \in S
  BY <1>10, <1>11, <1>12
<1>14. \A i \in 1 .. n : lo[i] \in Int /\ a <= lo[i] /\ hi[i] \in Int /\ hi[i] <= b
  BY <1>10, <1>11
<1>15. ASSUME NEW x \in Nat, NEW i \in ToSet(q), InChunk(d, i, x)
       PROVE  coord[x + 1] \in Int /\ a <= coord[x + 1] /\ coord[x + 1] <= b
  <2>1. PICK j \in 1 .. n : i = q[j]
    BY <1>1 DEF ToSet
  <2>2. coord[x + 1] \in Int /\ lo[j] <= coord[x + 1] /\ coord[x + 1] <= hi[j]
    BY <1>3, <1>7, <1>15, <2>1
  <2>3. PICK v : v = coord[x + 1]
    OBVIOUS
  <2>4. lo[j] \in Int /\ a <= lo[j] /\ hi[j] \in Int /\ hi[j] <= b /\ a \in Int /\ b \in Int
    BY <1>13, <1>14
  <2>5. v \in Int /\ lo[j] <= v /\ v <= hi[j]
    BY <2>2, <2>3
  <2> HIDE DEF a, b, coord
  <2>6. a <= v /\ v <= b
    BY <2>4, <2>5
  <2> QED BY <2>3, <2>5, <2>6
<1> HIDE DEF los, his
<1>16. g[1] = a /\ g[2] = b /\ g = <<a, b>>
  <2>1. g = <<a, b>>
    BY <1>6
  <2> HIDE DEF a, b
  <2> QED BY <2>1
<1> HIDE DEF a, b
<1> QED BY <1>13, <1>15, <1>16 DEF coord, S

(* A verdict is true of every cell of its product.                            *)
LEMMA VerdictHolds ==
  ASSUME Opened, ~SpansRaise, NEW f \in Bindable, f # NoFilter, ~Rejects(f), NEW sub, IsCell(sub),
         NEW cache, \A d \in PrunableDims : cache[d] = ChunkSpans(d), NEW c \in CellsIn(sub)
  PROVE  /\ Verdict(f, sub, cache) = "proven" => Holds(f, c)
         /\ Verdict(f, sub, cache) = "empty" => ~Holds(f, c)
<1> DEFINE usable == {d \in DOMAIN sub : d \in dataset.numeric}
           g == [d \in usable |-> BucketGuarantee(d, sub[d], cache)]
           row == Row(dataset, c)
           present == {e \in DimsOf(dataset) \cap dataset.numeric : row[e] \in Int}
           ends == UNION {ToSet(dataset.coords[e]) \cap Int : e \in present}
           mixed == usable = {} \/ \E d \in usable : Unprovable(d, sub[d], cache)
<1>1. /\ dataset \in Datasets /\ usable = PrunableDims /\ DOMAIN resolved \subseteq DimsOf(dataset)
      /\ \A d \in PrunableDims : d \in DimsOf(dataset) /\ d \in dataset.numeric /\ d # DataVar
                                 /\ InOrderUpto(sub[d], N(d)) /\ sub[d] # << >>
  <2>1. DOMAIN sub = DOMAIN resolved /\ \A d \in DOMAIN resolved : InOrderUpto(sub[d], N(d)) /\ sub[d] # << >>
    BY DEF IsCell, IsKept
  <2>2. dataset \in Datasets /\ DataVar \notin DimsOf(dataset) /\ \A d \in DOMAIN resolved : d \in DimsOf(dataset)
    BY OpenedParts, TablesAssumption DEF Opened
  <2> QED BY <2>1, <2>2 DEF PrunableDims
<1>2. Verdict(f, sub, cache) = IF mixed THEN "mixed" ELSE IF ~Satisfiable(f, g) THEN "empty"
                               ELSE IF ~Satisfiable(Negated(f), g) THEN "proven" ELSE "mixed"
  BY DEF Verdict
<1>3. SUFFICES ASSUME ~mixed
               PROVE  /\ ~Satisfiable(f, g) => ~Holds(f, c)
                      /\ Satisfiable(f, g) /\ ~Satisfiable(Negated(f), g) => Holds(f, c)
  BY <1>2
<1>4. \A d \in PrunableDims : ~Unprovable(d, sub[d], cache)
  BY <1>1, <1>3
<1> HIDE DEF mixed, usable
<1>5. InBlock(dataset, WholeGrid(dataset), c) /\ KeptCell(sub, c) /\ c \in AllCells
  BY DEF CellsIn, KeptCell
<1>6. ASSUME NEW d \in PrunableDims
      PROVE  /\ g[d] = <<g[d][1], g[d][2]>>
             /\ g[d][1] \in ToSet(dataset.coords[d]) \cap Int /\ g[d][2] \in ToSet(dataset.coords[d]) \cap Int
             /\ row[d] \in Int /\ g[d][1] <= row[d] /\ row[d] <= g[d][2]
  <2>1. g[d] = BucketGuarantee(d, sub[d], cache)
    BY <1>1
  <2>2. PICK i \in ToSet(sub[d]) : InChunk(d, i, c[d])
    BY <1>5 DEF KeptCell, PrunableDims
  <2>3. c[d] \in Nat
    BY <1>1, <1>5, OpenedParts, WholeIsBlock
  <2>4. row[d] = dataset.coords[d][c[d] + 1]
    BY <1>1 DEF Row
  <2> HIDE DEF g, row
  <2> QED BY <1>1, <1>4, <2>1, <2>2, <2>3, <2>4, BucketHolds
<1>7. g = [d \in PrunableDims |-> g[d]] /\ DOMAIN g = PrunableDims
  BY <1>1
<1> HIDE DEF g, row
<1>8. PrunableDims \subseteq present
  BY <1>1, <1>6
<1>9. \A d \in PrunableDims : g[d][1] \in ends /\ g[d][2] \in ends
  <2> TAKE d \in PrunableDims
  <2>1. ToSet(dataset.coords[d]) \cap Int \subseteq ends
    <3>1. d \in present
      BY <1>8
    <3> HIDE DEF present
    <3> QED BY <3>1
  <2> HIDE DEF ends
  <2> QED BY <1>6, <2>1
<1> HIDE DEF ends, present
<1>10. g \in [PrunableDims -> ends \X ends]
  <2>1. \A d \in PrunableDims : g[d] \in ends \X ends
    BY <1>6, <1>9
  <2> QED BY <1>7, <2>1
<1>11. g \in {t \in [PrunableDims -> ends \X ends] : \A e \in PrunableDims : t[e][1] <= row[e] /\ row[e] <= t[e][2]}
  BY <1>6, <1>10
<1>12. PrunableDims \in SUBSET present
  BY <1>8
<1>13. {t \in [PrunableDims -> ends \X ends] : \A e \in PrunableDims : t[e][1] <= row[e] /\ row[e] <= t[e][2]} \in
         {{t \in [D -> ends \X ends] : \A e \in D : t[e][1] <= row[e] /\ row[e] <= t[e][2]} : D \in SUBSET present}
  BY <1>12
<1>14. g \in Around(dataset, row)
  BY <1>11, <1>13 DEF Around, ends, present
<1>15. c \in ToSet(Ravel(dataset, WholeGrid(dataset), dataset.dims))
  BY <1>5 DEF AllCells, Cells
<1>16. f \in Filters /\ Refers(f) \subseteq Columns(dataset)
  BY DEF Bindable
<1>17. /\ Value(f, row) = "true" => Satisfiable(f, g)
       /\ Satisfiable(f, g) /\ ~Satisfiable(Negated(f), g) => Value(f, row) = "true"
  BY <1>1, <1>14, <1>15, <1>16, SimplifierAssumption DEF row
<1> QED BY <1>17 DEF Holds, row

-----------------------------------------------------------------------------
(* A tally of true rows T: those of the cells left in work, those of the      *)
(* chunks of the boundary, and the number of those that are proven.           *)
Tally(q, W, B, T) ==
  /\ AnySeq(q.work) /\ (\A i \in 1 .. Len(q.work) : q.work[i] \in DOMAIN W) /\ Separate(q.work, W)
  /\ AnySeq(q.boundary) /\ (\A i \in 1 .. Len(q.boundary) : q.boundary[i] \in DOMAIN B) /\ Separate(q.boundary, B)
  /\ Together(q.work, W) \cap Together(q.boundary, B) = {}
  /\ Together(q.work, W) \cup Together(q.boundary, B) \subseteq T
  /\ q.proven = Cardinality(T \ (Together(q.work, W) \cup Together(q.boundary, B)))

LEMMA FlattenMembers ==
  ASSUME NEW parts, SeqOfSeqs(parts), NEW S, \A a \in 1 .. Len(parts) : \A b \in 1 .. Len(parts[a]) : parts[a][b] \in S
  PROVE  \A i \in 1 .. Len(FlattenSeq(parts)) : FlattenSeq(parts)[i] \in S
<1> DEFINE flat == FlattenSeq(parts)
<1>1. PICK off : Placed(flat, parts, off)
  BY FlattenPlaces
<1> HIDE DEF flat
<1>2. ASSUME NEW i \in 1 .. Len(flat)
      PROVE  flat[i] \in S
  <2>1. PICK a \in 1 .. Len(parts) : \E b \in 1 .. Len(parts[a]) : i = off[a - 1] + b
    BY <1>1 DEF Placed
  <2>2. PICK b \in 1 .. Len(parts[a]) : i = off[a - 1] + b
    BY <2>1
  <2>3. flat[off[a - 1] + b] = parts[a][b]
    BY <1>1 DEF Placed
  <2> QED BY <2>2, <2>3
<1> QED BY <1>2 DEF flat

LEMMA JoinMembers ==
  ASSUME NEW p, NEW q, AnySeq(p), AnySeq(q), NEW S,
         \A i \in 1 .. Len(p) : p[i] \in S, \A i \in 1 .. Len(q) : q[i] \in S
  PROVE  AnySeq(p \o q) /\ \A i \in 1 .. Len(p \o q) : (p \o q)[i] \in S
<1> DEFINE r == p \o q
<1>0. AnySeq(p) /\ AnySeq(q)
  OBVIOUS
<1>1. /\ AnySeq(r) /\ Len(r) = Len(p) + Len(q)
      /\ \A i \in 1 .. Len(p) : r[i] = p[i]
      /\ \A i \in 1 .. Len(q) : r[i + Len(p)] = q[i]
      /\ \A i \in 1 .. Len(r) : i <= Len(p) \/ \E j \in 1 .. Len(q) : i = j + Len(p)
  BY ONLY <1>0, JoinedSequence
<1>2. Len(p) \in Nat
  BY SequenceParts
<1> HIDE DEF r
<1>3. ASSUME NEW i \in 1 .. Len(r)
      PROVE  r[i] \in S
  <2>1. CASE i <= Len(p)
    <3>1. i \in 1 .. Len(p)
      BY <1>2, <2>1
    <3> QED BY <1>1, <3>1
  <2>2. CASE \E j \in 1 .. Len(q) : i = j + Len(p)
    BY <1>1, <2>2
  <2> QED BY <1>1, <2>1, <2>2
<1> QED BY <1>1, <1>3 DEF r

(* The products of a cell: kind says what becomes of each, and A which of the *)
(* true rows are in it.                                                       *)
PartsOf(A, n, kind, k) == UNION {A[i] : i \in {j \in 1 .. n : kind[j] = k}}

Divides(divided, scanned, A, n, kind, W, B) ==
  /\ SeqOfSeqs(divided) /\ Len(divided) = n /\ SeqOfSeqs(scanned) /\ Len(scanned) = n
  /\ \A i \in 1 .. n :
       /\ \A j \in 1 .. Len(divided[i]) : divided[i][j] \in DOMAIN W
       /\ Separate(divided[i], W)
       /\ Together(divided[i], W) = IF kind[i] = "divided" THEN A[i] ELSE {}
       /\ \A j \in 1 .. Len(scanned[i]) : scanned[i][j] \in DOMAIN B
       /\ Separate(scanned[i], B)
       /\ Together(scanned[i], B) = IF kind[i] = "scanned" THEN A[i] ELSE {}

KindParts(parts, F, A, n, kind, k) ==
  /\ n \in Nat /\ SeqOfSeqs(parts) /\ Len(parts) = n
  /\ \A i, j \in 1 .. n : i # j => A[i] \cap A[j] = {}
  /\ \A i \in 1 .. n : Separate(parts[i], F) /\ Together(parts[i], F) = IF kind[i] = k THEN A[i] ELSE {}

LEMMA TogetherOfKind ==
  ASSUME NEW parts, NEW F, NEW A, NEW n, NEW kind, NEW k, KindParts(parts, F, A, n, kind, k)
  PROVE  /\ AnySeq(FlattenSeq(parts)) /\ Separate(FlattenSeq(parts), F)
         /\ Together(FlattenSeq(parts), F) = PartsOf(A, n, kind, k)
<1> USE DEF KindParts
<1>0. PICK C : C = [i \in 1 .. n |-> IF kind[i] = k THEN A[i] ELSE {}]
  OBVIOUS
<1>1. \A i \in 1 .. n : C[i] = IF kind[i] = k THEN A[i] ELSE {}
  BY <1>0
<1>2. ASSUME NEW i \in 1 .. Len(parts)
      PROVE  Separate(parts[i], F) /\ Together(parts[i], F) = C[i]
  BY <1>1
<1>3. ASSUME NEW i \in 1 .. Len(parts), NEW j \in 1 .. Len(parts), i # j
      PROVE  C[i] \cap C[j] = {}
  BY <1>1, <1>3
<1>4. /\ AnySeq(FlattenSeq(parts)) /\ Separate(FlattenSeq(parts), F)
      /\ \A x : x \in Together(FlattenSeq(parts), F) <=> \E i \in 1 .. Len(parts) : x \in C[i]
  <2>1. SeqOfSeqs(parts)
    OBVIOUS
  <2> QED BY ONLY <1>2, <1>3, <2>1, FlattenSeparate
<1>5. \A x : (\E i \in 1 .. n : x \in C[i]) <=> x \in PartsOf(A, n, kind, k)
  BY <1>1 DEF PartsOf
<1> QED BY <1>4, <1>5

(* What is proven is as many as the rows of the products that are.             *)
KindCounts(A, n, kind, k, c) ==
  /\ n \in Nat /\ \A i, j \in 1 .. n : i # j => A[i] \cap A[j] = {}
  /\ (\A i \in 1 .. n : IsFiniteSet(A[i])) /\ IsFiniteSet(PartsOf(A, n, kind, k))
  /\ c = [i \in 1 .. n |-> IF kind[i] = k THEN Cardinality(A[i]) ELSE 0]

LEMMA CountOfKind ==
  ASSUME NEW n, NEW A, NEW kind, NEW k, NEW c, KindCounts(A, n, kind, k, c)
  PROVE  Cardinality(PartsOf(A, n, kind, k)) = SumOf(c)
<1> SUFFICES ASSUME n \in Nat, \A i, j \in 1 .. n : i # j => A[i] \cap A[j] = {},
                    \A i \in 1 .. n : IsFiniteSet(A[i]), IsFiniteSet(PartsOf(A, n, kind, k)),
                    c = [i \in 1 .. n |-> IF kind[i] = k THEN Cardinality(A[i]) ELSE 0]
             PROVE  Cardinality(PartsOf(A, n, kind, k)) = SumOf(c)
  BY DEF KindCounts
<1> DEFINE C == [i \in 1 .. n |-> IF kind[i] = k THEN A[i] ELSE {}]
           q == [i \in 1 .. n |-> i]
<1>1. \A i \in 1 .. n : C[i] = IF kind[i] = k THEN A[i] ELSE {}
  OBVIOUS
<1>2. DOMAIN q = 1 .. n /\ q = [i \in 1 .. n |-> q[i]] /\ \A i \in 1 .. n : q[i] = i
  OBVIOUS
<1> HIDE DEF C, q
<1>3. AnySeq(q) /\ Len(q) = n
  BY <1>2, MadeSequence
<1>4. Separate(q, C)
  BY <1>1, <1>2, <1>3 DEF Separate
<1>5. Together(q, C) = PartsOf(A, n, kind, k)
  <2>1. Together(q, C) = UNION {C[i] : i \in 1 .. n}
    BY <1>2, <1>3 DEF Together
  <2>2. UNION {C[i] : i \in 1 .. n} = PartsOf(A, n, kind, k)
    BY <1>1 DEF PartsOf
  <2> QED BY <2>1, <2>2
<1>6. c = [i \in 1 .. Len(q) |-> Cardinality(C[q[i]])]
  <2>1. \A i \in 1 .. n : Cardinality(C[q[i]]) = IF kind[i] = k THEN Cardinality(A[i]) ELSE 0
    BY <1>1, <1>2, FS_EmptySet
  <2> QED BY <1>3, <2>1
<1> QED BY <1>3, <1>4, <1>5, <1>6, CountSeparate

(* The sets of a tally once a cell, H, is split.                              *)
SplitsOff(T, X, Y, H, D, S, P, X2, Y2) ==
  /\ IsFiniteSet(T) /\ X \cap Y = {} /\ X \cup Y \subseteq T /\ H \subseteq X
  /\ H = D \cup S \cup P /\ D \cap S = {} /\ D \cap P = {} /\ S \cap P = {}
  /\ X2 = (X \ H) \cup D /\ Y2 = Y \cup S

StillSplit(T, X, Y, H, D, S, P, X2, Y2) ==
  /\ X2 \cap Y2 = {} /\ X2 \cup Y2 \subseteq T /\ (X \ H) \cap D = {} /\ Y \cap S = {}
  /\ IsFiniteSet(P) /\ Cardinality(P) \in Nat
  /\ Cardinality(T \ (X2 \cup Y2)) = Cardinality(T \ (X \cup Y)) + Cardinality(P)

LEMMA SplitSets ==
  ASSUME NEW T, NEW X, NEW Y, NEW H, NEW D, NEW S, NEW P, NEW X2, NEW Y2, SplitsOff(T, X, Y, H, D, S, P, X2, Y2)
  PROVE  StillSplit(T, X, Y, H, D, S, P, X2, Y2)
<1> USE DEF SplitsOff, StillSplit
<1> DEFINE R == T \ (X \cup Y)
           R2 == T \ (X2 \cup Y2)
<1>1. X2 \cap Y2 = {} /\ X2 \cup Y2 \subseteq T /\ (X \ H) \cap D = {} /\ Y \cap S = {}
  OBVIOUS
<1>2. R2 = R \cup P /\ R \cap P = {} /\ R \subseteq T /\ P \subseteq T
  OBVIOUS
<1> HIDE DEF R, R2
<1>3. IsFiniteSet(R) /\ IsFiniteSet(P)
  BY <1>2, FS_Subset
<1>4. Cardinality(R \cup P) = Cardinality(R) + Cardinality(P) - Cardinality(R \cap P)
  BY <1>3, FS_Union
<1>5. Cardinality(R \cap P) = 0
  BY <1>2, FS_EmptySet
<1>6. Cardinality(R) \in Nat /\ Cardinality(P) \in Nat
  BY <1>3, FS_CardinalityType
<1>7. Cardinality(R2) = Cardinality(R) + Cardinality(P)
  BY <1>2, <1>4, <1>5, <1>6
<1> QED BY <1>1, <1>3, <1>6, <1>7 DEF R, R2

(* A tally stays one when a cell is split into its products.                   *)
IsSplit(A, n, kind, H) ==
  /\ \A i, j \in 1 .. n : i # j => A[i] \cap A[j] = {}
  /\ \A x : x \in H <=> \E i \in 1 .. n : x \in A[i]
  /\ \A i \in 1 .. n : kind[i] \in {"empty", "proven", "divided", "scanned"} /\ (kind[i] = "empty" => A[i] = {})

LEMMA SplitKinds ==
  ASSUME NEW n \in Nat, NEW A, NEW kind, NEW H, IsSplit(A, n, kind, H),
         NEW D, D = PartsOf(A, n, kind, "divided"), NEW S, S = PartsOf(A, n, kind, "scanned"),
         NEW P, P = PartsOf(A, n, kind, "proven")
  PROVE  H = D \cup S \cup P /\ D \cap S = {} /\ D \cap P = {} /\ S \cap P = {}
<1>1. /\ \A i, j \in 1 .. n : i # j => A[i] \cap A[j] = {}
      /\ \A i \in 1 .. n : kind[i] \in {"empty", "proven", "divided", "scanned"} /\ (kind[i] = "empty" => A[i] = {})
      /\ \A x : x \in H <=> \E i \in 1 .. n : x \in A[i]
  BY DEF IsSplit
<1>2. \A x : x \in D <=> \E i \in 1 .. n : kind[i] = "divided" /\ x \in A[i]
  BY DEF PartsOf
<1>3. \A x : x \in S <=> \E i \in 1 .. n : kind[i] = "scanned" /\ x \in A[i]
  BY DEF PartsOf
<1>4. \A x : x \in P <=> \E i \in 1 .. n : kind[i] = "proven" /\ x \in A[i]
  BY DEF PartsOf
<1>5. ASSUME NEW x \in H
      PROVE  x \in D \/ x \in S \/ x \in P
  <2>1. PICK i \in 1 .. n : x \in A[i]
    BY <1>1
  <2>2. kind[i] = "proven" \/ kind[i] = "divided" \/ kind[i] = "scanned"
    BY <1>1, <2>1
  <2> QED BY ONLY <1>2, <1>3, <1>4, <2>1, <2>2
<1>6. ASSUME NEW x, x \in D \/ x \in S \/ x \in P
      PROVE  x \in H
  BY ONLY <1>1, <1>2, <1>3, <1>4, <1>6
<1>7. D \cap S = {}
  <2> SUFFICES ASSUME NEW x, x \in D, x \in S
               PROVE  FALSE
    OBVIOUS
  <2>1. PICK i \in 1 .. n : kind[i] = "divided" /\ x \in A[i]
    BY <1>2
  <2>2. PICK j \in 1 .. n : kind[j] = "scanned" /\ x \in A[j]
    BY <1>3
  <2>3. i # j
    BY <2>1, <2>2
  <2> QED BY <1>1, <2>1, <2>2, <2>3
<1>8. D \cap P = {}
  <2> SUFFICES ASSUME NEW x, x \in D, x \in P
               PROVE  FALSE
    OBVIOUS
  <2>1. PICK i \in 1 .. n : kind[i] = "divided" /\ x \in A[i]
    BY <1>2
  <2>2. PICK j \in 1 .. n : kind[j] = "proven" /\ x \in A[j]
    BY <1>4
  <2>3. i # j
    BY <2>1, <2>2
  <2> QED BY <1>1, <2>1, <2>2, <2>3
<1>9. S \cap P = {}
  <2> SUFFICES ASSUME NEW x, x \in S, x \in P
               PROVE  FALSE
    OBVIOUS
  <2>1. PICK i \in 1 .. n : kind[i] = "scanned" /\ x \in A[i]
    BY <1>3
  <2>2. PICK j \in 1 .. n : kind[j] = "proven" /\ x \in A[j]
    BY <1>4
  <2>3. i # j
    BY <2>1, <2>2
  <2> QED BY <1>1, <2>1, <2>2, <2>3
<1>10. H = D \cup S \cup P
  BY ONLY <1>5, <1>6
<1> QED BY <1>7, <1>8, <1>9, <1>10

SplitStep(q, r, T, W, B, n, A, kind, divided, scanned, c) ==
  /\ IsFiniteSet(T) /\ Tally(q, W, B, T) /\ q.work # << >>
  /\ n \in Nat /\ IsSplit(A, n, kind, W[Head(q.work)]) /\ Divides(divided, scanned, A, n, kind, W, B)
  /\ c = [i \in 1 .. n |-> IF kind[i] = "proven" THEN Cardinality(A[i]) ELSE 0]
  /\ r.work = Tail(q.work) \o FlattenSeq(divided) /\ r.boundary = q.boundary \o FlattenSeq(scanned)
  /\ r.proven = q.proven + SumOf(c)

LEMMA TallySplit ==
  ASSUME NEW T, NEW W, NEW B, NEW q, NEW n, NEW A, NEW kind, NEW divided, NEW scanned, NEW c, NEW r,
         SplitStep(q, r, T, W, B, n, A, kind, divided, scanned, c)
  PROVE  Tally(r, W, B, T)
<1> SUFFICES ASSUME IsFiniteSet(T), Tally(q, W, B, T), q.work # << >>, n \in Nat,
                    IsSplit(A, n, kind, W[Head(q.work)]), Divides(divided, scanned, A, n, kind, W, B),
                    c = [i \in 1 .. n |-> IF kind[i] = "proven" THEN Cardinality(A[i]) ELSE 0],
                    r.work = Tail(q.work) \o FlattenSeq(divided), r.boundary = q.boundary \o FlattenSeq(scanned),
                    r.proven = q.proven + SumOf(c)
             PROVE  Tally(r, W, B, T)
  BY DEF SplitStep
<1> DEFINE tail == Tail(q.work)
           more == FlattenSeq(divided)
           scans == FlattenSeq(scanned)
           H == W[Head(q.work)]
           X == Together(q.work, W)
           Y == Together(q.boundary, B)
           D == PartsOf(A, n, kind, "divided")
           S == PartsOf(A, n, kind, "scanned")
           P == PartsOf(A, n, kind, "proven")
<1>1. /\ AnySeq(q.work) /\ (\A i \in 1 .. Len(q.work) : q.work[i] \in DOMAIN W) /\ Separate(q.work, W)
      /\ AnySeq(q.boundary) /\ (\A i \in 1 .. Len(q.boundary) : q.boundary[i] \in DOMAIN B) /\ Separate(q.boundary, B)
      /\ X \cap Y = {} /\ X \cup Y \subseteq T /\ q.proven = Cardinality(T \ (X \cup Y))
  BY DEF Tally
<1>2. \A i, j \in 1 .. n : i # j => A[i] \cap A[j] = {}
  BY DEF IsSplit
<1>3. \A i \in 1 .. n : kind[i] \in {"empty", "proven", "divided", "scanned"} /\ (kind[i] = "empty" => A[i] = {})
  BY DEF IsSplit
<1>4. H = D \cup S \cup P /\ D \cap S = {} /\ D \cap P = {} /\ S \cap P = {}
  BY SplitKinds
<1>5. /\ SeqOfSeqs(divided) /\ Len(divided) = n /\ SeqOfSeqs(scanned) /\ Len(scanned) = n
      /\ \A i \in 1 .. n : \A j \in 1 .. Len(divided[i]) : divided[i][j] \in DOMAIN W
      /\ \A i \in 1 .. n : \A j \in 1 .. Len(scanned[i]) : scanned[i][j] \in DOMAIN B
  BY DEF Divides
<1>6. /\ AnySeq(more) /\ Separate(more, W) /\ Together(more, W) = D
      /\ \A i \in 1 .. Len(more) : more[i] \in DOMAIN W
  <2>1. \A i \in 1 .. n : Separate(divided[i], W) /\ Together(divided[i], W) = IF kind[i] = "divided" THEN A[i] ELSE {}
    BY DEF Divides
  <2>2. KindParts(divided, W, A, n, kind, "divided")
    BY <1>2, <1>5, <2>1 DEF KindParts
  <2>3. AnySeq(more) /\ Separate(more, W) /\ Together(more, W) = D
    BY ONLY <2>2, TogetherOfKind
  <2>4. \A i \in 1 .. Len(more) : more[i] \in DOMAIN W
    BY <1>5, FlattenMembers
  <2> QED BY <2>3, <2>4
<1>7. /\ AnySeq(scans) /\ Separate(scans, B) /\ Together(scans, B) = S
      /\ \A i \in 1 .. Len(scans) : scans[i] \in DOMAIN B
  <2>1. \A i \in 1 .. n : Separate(scanned[i], B) /\ Together(scanned[i], B) = IF kind[i] = "scanned" THEN A[i] ELSE {}
    BY DEF Divides
  <2>2. KindParts(scanned, B, A, n, kind, "scanned")
    BY <1>2, <1>5, <2>1 DEF KindParts
  <2>3. AnySeq(scans) /\ Separate(scans, B) /\ Together(scans, B) = S
    BY ONLY <2>2, TogetherOfKind
  <2>4. \A i \in 1 .. Len(scans) : scans[i] \in DOMAIN B
    BY <1>5, FlattenMembers
  <2> QED BY <2>3, <2>4
<1>8. /\ AnySeq(tail) /\ Separate(tail, W) /\ H \subseteq X /\ Together(tail, W) = X \ H
      /\ \A i \in 1 .. Len(tail) : tail[i] \in DOMAIN W
  <2>1. AnySeq(tail) /\ Separate(tail, W) /\ H \subseteq X /\ Together(tail, W) = X \ H
    BY <1>1, TailSeparate
  <2>2. /\ Len(q.work) \in Nat /\ Len(tail) = Len(q.work) - 1
        /\ \A i \in 1 .. Len(tail) : tail[i] = q.work[i + 1]
    BY <1>1, SequenceParts
  <2> HIDE DEF tail
  <2>3. \A i \in 1 .. Len(tail) : i + 1 \in 1 .. Len(q.work)
    BY <2>2
  <2> QED BY <1>1, <2>1, <2>2, <2>3
<1> DEFINE X2 == (X \ H) \cup D
           Y2 == Y \cup S
<1> HIDE DEF tail, more, scans, H, X, Y, D, S, P
<1>9. /\ X2 \cap Y2 = {} /\ X2 \cup Y2 \subseteq T /\ (X \ H) \cap D = {} /\ Y \cap S = {} /\ IsFiniteSet(P)
      /\ Cardinality(P) \in Nat
      /\ Cardinality(T \ (X2 \cup Y2)) = Cardinality(T \ (X \cup Y)) + Cardinality(P)
  <2>1. IsFiniteSet(T) /\ X \cap Y = {} /\ X \cup Y \subseteq T /\ H \subseteq X
    BY <1>1, <1>8
  <2> HIDE DEF X2, Y2
  <2>2. X2 = (X \ H) \cup D /\ Y2 = Y \cup S
    BY DEF X2, Y2
  <2>3. SplitsOff(T, X, Y, H, D, S, P, X2, Y2)
    BY ONLY <1>4, <2>1, <2>2 DEF SplitsOff
  <2>4. StillSplit(T, X, Y, H, D, S, P, X2, Y2)
    BY ONLY <2>3, SplitSets
  <2> QED BY <2>4 DEF StillSplit
<1>10. /\ AnySeq(tail \o more) /\ Separate(tail \o more, W) /\ Together(tail \o more, W) = X2
       /\ \A i \in 1 .. Len(tail \o more) : (tail \o more)[i] \in DOMAIN W
  <2>1. Separate(tail \o more, W) /\ Together(tail \o more, W) = X2
    BY <1>6, <1>8, <1>9, JoinSeparate
  <2>2. AnySeq(tail \o more) /\ \A i \in 1 .. Len(tail \o more) : (tail \o more)[i] \in DOMAIN W
    BY <1>6, <1>8, JoinMembers
  <2> QED BY <2>1, <2>2
<1>11. /\ AnySeq(q.boundary \o scans) /\ Separate(q.boundary \o scans, B) /\ Together(q.boundary \o scans, B) = Y2
       /\ \A i \in 1 .. Len(q.boundary \o scans) : (q.boundary \o scans)[i] \in DOMAIN B
  <2>1. Separate(q.boundary \o scans, B) /\ Together(q.boundary \o scans, B) = Y2
    BY <1>1, <1>7, <1>9, JoinSeparate DEF Y
  <2>2. AnySeq(q.boundary \o scans) /\ \A i \in 1 .. Len(q.boundary \o scans) : (q.boundary \o scans)[i] \in DOMAIN B
    BY <1>1, <1>7, JoinMembers
  <2> QED BY <2>1, <2>2
<1>12. Cardinality(P) = SumOf(c)
  <2>1. \A i \in 1 .. n : IsFiniteSet(A[i])
    <3> TAKE i \in 1 .. n
    <3>1. A[i] \subseteq H
      BY DEF IsSplit, H
    <3>2. A[i] \subseteq T
      BY <1>1, <1>8, <3>1
    <3> QED BY <3>2, FS_Subset
  <2>2. IsFiniteSet(PartsOf(A, n, kind, "proven"))
    BY <1>9 DEF P
  <2>3. c = [i \in 1 .. n |-> IF kind[i] = "proven" THEN Cardinality(A[i]) ELSE 0]
    OBVIOUS
  <2>4. KindCounts(A, n, kind, "proven", c)
    BY ONLY n \in Nat, <1>2, <2>1, <2>2, <2>3 DEF KindCounts
  <2> QED BY ONLY <2>4, CountOfKind DEF P
<1>13. r.proven = Cardinality(T \ (X2 \cup Y2))
  <2>1. r.proven = Cardinality(T \ (X \cup Y)) + Cardinality(P)
    BY <1>1, <1>12
  <2> HIDE DEF X2, Y2
  <2> QED BY <1>9, <2>1
<1>14. r.work = tail \o more /\ r.boundary = q.boundary \o scans
  BY DEF tail, more, scans
<1> HIDE DEF X2, Y2
<1> QED BY <1>9, <1>10, <1>11, <1>13, <1>14 DEF Tally

-----------------------------------------------------------------------------
(* The cells on which a filter holds: of all, of some chunks, of a block.      *)
TrueOf(f) == {c \in AllCells : Holds(f, c)}
TrueIn(f, chunks) == {c \in CellsIn(chunks) : Holds(f, c)}
TrueOfBlock(f, block) == {c \in ToSet(Cells(block)) : Holds(f, c)}

CellChunks == {chunks \in [DOMAIN resolved -> Seq(Nat)] : IsCell(chunks)}

\* Those of what is left in work, and of a combination of the boundary.
WorkTrue(f) == [w \in [chunks : CellChunks, depth : Nat] |-> TrueIn(f, w.chunks)]
BoundaryTrue(f) == [combo \in [DOMAIN resolved -> Nat] |-> TrueOfBlock(f, BlockForCombo(combo))]

LEMMA CellChunksAre ==
  ASSUME Opened, NEW chunks, IsKept(chunks)
  PROVE  chunks \in [DOMAIN resolved -> Seq(Nat)] /\ (IsCell(chunks) => chunks \in CellChunks)
<1>1. chunks = [d \in DOMAIN resolved |-> chunks[d]]
  BY DEF IsKept
<1>2. \A d \in DOMAIN resolved : chunks[d] \in Seq(Nat)
  <2> TAKE d \in DOMAIN resolved
  <2>1. AnySeq(chunks[d]) /\ \A m \in 1 .. Len(chunks[d]) : chunks[d][m] \in 1 .. N(d)
    BY DEF IsKept, InOrderUpto
  <2>2. N(d) \in Nat
    BY OpenedParts
  <2>3. \A m \in 1 .. Len(chunks[d]) : chunks[d][m] \in Nat
    BY <2>1, <2>2
  <2> QED BY <2>1, <2>3, SequenceOver
<1> QED BY <1>1, <1>2 DEF CellChunks

(* The combinations of some chunks have the cells of these chunks.             *)
LEMMA CombosTrue ==
  ASSUME Opened, NEW f, NEW chunks, IsKept(chunks), NEW q, q = Combos(chunks), NEW B, B = BoundaryTrue(f)
  PROVE  /\ AnySeq(q) /\ (\A i \in 1 .. Len(q) : q[i] \in DOMAIN B)
         /\ Separate(q, B) /\ Together(q, B) = TrueIn(f, chunks)
<1> DEFINE blocks == BlocksOf(q)
<1>1. AnySeq(q) /\ \A p \in 1 .. Len(q) : IsCombo(q[p], chunks)
  BY KeptIsChoice, CombosOfChoice
<1>2. DOMAIN q = 1 .. Len(q) /\ Len(q) \in Nat
  BY <1>1, SequenceParts
<1>3. DOMAIN blocks = 1 .. Len(q) /\ \A p \in 1 .. Len(q) : blocks[p] = BlockForCombo(q[p])
  BY <1>2 DEF BlocksOf
<1>4. IsTiling(blocks, chunks)
  BY CombosTile
<1> HIDE DEF blocks
<1>5. Len(blocks) = Len(q)
  <2>1. AnySeq(blocks)
    BY <1>4 DEF IsTiling
  <2>2. DOMAIN blocks = 1 .. Len(blocks) /\ Len(blocks) \in Nat
    BY <2>1, SequenceParts
  <2> QED BY <1>2, <1>3, <2>2
<1>6. \A i \in 1 .. Len(q) : q[i] \in [DOMAIN resolved -> Nat]
  <2> TAKE i \in 1 .. Len(q)
  <2>1. q[i] = [d \in DOMAIN resolved |-> q[i][d]] /\ \A d \in DOMAIN resolved : q[i][d] \in ToSet(chunks[d])
    BY <1>1 DEF IsCombo
  <2>2. \A d \in DOMAIN resolved : q[i][d] \in Nat
    <3> TAKE d \in DOMAIN resolved
    <3>1. ToSet(chunks[d]) \subseteq 1 .. N(d) /\ N(d) \in Nat
      BY KeptMembers
    <3> QED BY <2>1, <3>1
  <2> QED BY <2>1, <2>2
<1>7. DOMAIN B = [DOMAIN resolved -> Nat] /\ \A i \in 1 .. Len(q) : B[q[i]] = TrueOfBlock(f, blocks[i])
  BY <1>3, <1>6 DEF BoundaryTrue
<1>8. ASSUME NEW i \in 1 .. Len(q), NEW c
      PROVE  c \in B[q[i]] <=> InBlock(dataset, blocks[i], c) /\ Holds(f, c)
  <2>1. IsBlock(dataset, blocks[i])
    BY <1>4, <1>5 DEF IsTiling
  <2>2. c \in ToSet(Cells(blocks[i])) <=> InBlock(dataset, blocks[i], c)
    BY <2>1, CellsOfBlock DEF ToSet
  <2> QED BY <1>7, <2>2 DEF TrueOfBlock
<1>9. Separate(q, B)
  <2> SUFFICES ASSUME NEW i \in 1 .. Len(q), NEW j \in 1 .. Len(q), NEW c, c \in B[q[i]], c \in B[q[j]]
               PROVE  i = j
    BY DEF Separate
  <2> QED BY <1>4, <1>5, <1>8 DEF IsTiling
<1>10. ASSUME NEW c
       PROVE  c \in Together(q, B) <=> c \in TrueIn(f, chunks)
  <2>1. c \in Together(q, B) <=> \E i \in 1 .. Len(q) : c \in B[q[i]]
    BY DEF Together
  <2>2. (\E i \in 1 .. Len(q) : InBlock(dataset, blocks[i], c)) <=> KeptCell(chunks, c)
    BY <1>4, <1>5 DEF IsTiling
  <2>3. c \in TrueIn(f, chunks) <=> KeptCell(chunks, c) /\ Holds(f, c)
    <3>1. KeptCell(chunks, c) => c \in AllCells
      BY AllCellsAre DEF KeptCell
    <3> QED BY <3>1 DEF TrueIn, CellsIn
  <2> QED BY <1>8, <2>1, <2>2, <2>3
<1>11. Together(q, B) = TrueIn(f, chunks)
  BY <1>10
<1> QED BY <1>1, <1>6, <1>7, <1>9, <1>11

(* What classify makes of a cell splits it.                                    *)
FatesOf(f, subs, depth, cache) == [i \in DOMAIN subs |-> Fate(f, subs[i], depth, cache)]
TruesOf(f, subs) == [i \in DOMAIN subs |-> TrueIn(f, subs[i])]

Spanned(cache) == \A d \in PrunableDims : cache[d] = ChunkSpans(d)

FatesFit(f, chunks, subs, A, kind) ==
  /\ AnySeq(subs) /\ (\A i \in 1 .. Len(subs) : IsCell(subs[i]))
  /\ IsSplit(A, Len(subs), kind, TrueIn(f, chunks))
  /\ \A i \in 1 .. Len(subs) : kind[i] = "proven" => Cardinality(A[i]) = RowsOfCell(subs[i])

LEMMA FatesSplit ==
  ASSUME Opened, ~SpansRaise, NEW f \in Bindable, f # NoFilter, ~Rejects(f), NEW cache, Spanned(cache),
         NEW chunks, IsCell(chunks), NEW depth, NEW subs, subs = Subcells(chunks),
         NEW A, A = TruesOf(f, subs), NEW kind, kind = FatesOf(f, subs, depth, cache)
  PROVE  FatesFit(f, chunks, subs, A, kind)
<1>0. \A d \in PrunableDims : cache[d] = ChunkSpans(d)
  BY DEF Spanned
<1>1. /\ AnySeq(subs) /\ \A i \in 1 .. Len(subs) : IsCell(subs[i])
      /\ \A c : (\E i \in 1 .. Len(subs) : KeptCell(subs[i], c)) <=> KeptCell(chunks, c)
      /\ \A c : \A i, j \in 1 .. Len(subs) : KeptCell(subs[i], c) /\ KeptCell(subs[j], c) => i = j
  BY SubcellsDivide DEF Divide
<1>2. DOMAIN subs = 1 .. Len(subs)
  BY <1>1, SequenceParts
<1>3. \A i \in 1 .. Len(subs) : A[i] = TrueIn(f, subs[i]) /\ kind[i] = Fate(f, subs[i], depth, cache)
  BY <1>2 DEF TruesOf, FatesOf
<1>4. \A i \in 1 .. Len(subs) : \A c : c \in A[i] <=> c \in AllCells /\ KeptCell(subs[i], c) /\ Holds(f, c)
  BY <1>3 DEF TrueIn, CellsIn
<1>5. ASSUME NEW i \in 1 .. Len(subs)
      PROVE  /\ kind[i] \in {"empty", "proven", "divided", "scanned"}
             /\ kind[i] = "empty" => A[i] = {}
             /\ kind[i] = "proven" => Cardinality(A[i]) = RowsOfCell(subs[i])
  <2> DEFINE v == Verdict(f, subs[i], cache)
  <2>1. v \in {"mixed", "empty", "proven"}
    BY DEF Verdict
  <2>2. kind[i] = IF v # "mixed" THEN v
                  ELSE IF ~Single(subs[i]) /\ depth < StrictMaxDepth THEN "divided" ELSE "scanned"
    BY <1>3 DEF Fate
  <2>3. \A c \in CellsIn(subs[i]) : (v = "proven" => Holds(f, c)) /\ (v = "empty" => ~Holds(f, c))
    BY <1>0, <1>1, VerdictHolds
  <2> HIDE DEF v
  <2>4. kind[i] \in {"empty", "proven", "divided", "scanned"}
    BY <2>1, <2>2
  <2>5. kind[i] = "empty" => A[i] = {}
    <3>1. kind[i] = "empty" => v = "empty"
      BY <2>1, <2>2
    <3> QED BY <1>3, <2>3, <3>1 DEF TrueIn
  <2>6. kind[i] = "proven" => Cardinality(A[i]) = RowsOfCell(subs[i])
    <3>1. kind[i] = "proven" => v = "proven"
      BY <2>1, <2>2
    <3>2. kind[i] = "proven" => A[i] = CellsIn(subs[i])
      BY <1>3, <2>3, <3>1 DEF TrueIn
    <3>3. Cardinality(CellsIn(subs[i])) = RowsOfCell(subs[i])
      BY <1>1, CellRows DEF IsCell
    <3> QED BY <3>2, <3>3
  <2> QED BY <2>4, <2>5, <2>6
<1>6. \A i, j \in 1 .. Len(subs) : i # j => A[i] \cap A[j] = {}
  BY <1>1, <1>4
<1>7. ASSUME NEW c
      PROVE  c \in TrueIn(f, chunks) <=> \E i \in 1 .. Len(subs) : c \in A[i]
  <2>1. c \in TrueIn(f, chunks) <=> c \in AllCells /\ KeptCell(chunks, c) /\ Holds(f, c)
    BY DEF TrueIn, CellsIn
  <2> QED BY <1>1, <1>4, <2>1
<1>8. IsSplit(A, Len(subs), kind, TrueIn(f, chunks))
  BY <1>5, <1>6, <1>7 DEF IsSplit
<1> QED BY <1>1, <1>5, <1>8 DEF FatesFit

DividedOf(subs, kind, depth) ==
  [i \in DOMAIN subs |-> IF kind[i] # "divided" THEN << >> ELSE <<[chunks |-> subs[i], depth |-> depth + 1]>>]

ScannedOf(subs, kind) == [i \in DOMAIN subs |-> IF kind[i] = "scanned" THEN Combos(subs[i]) ELSE << >>]

LEMMA OneSeparate ==
  ASSUME NEW w, NEW q, q = <<w>>, NEW F
  PROVE  AnySeq(q) /\ Len(q) = 1 /\ q[1] = w /\ Separate(q, F) /\ Together(q, F) = F[w]
<1>1. q \in Seq({w}) /\ Len(q) = 1 /\ q[1] = w
  OBVIOUS
<1>2. AnySeq(q)
  BY <1>1 DEF AnySeq
<1>3. Separate(q, F)
  BY <1>1 DEF Separate
<1>4. Together(q, F) = F[w]
  <2>1. {F[q[i]] : i \in 1 .. Len(q)} = {F[w]}
    BY <1>1
  <2> QED BY <2>1 DEF Together
<1> QED BY <1>1, <1>2, <1>3, <1>4

LEMMA PartsDivide ==
  ASSUME Opened, NEW f, NEW depth \in Nat, NEW subs, AnySeq(subs), \A i \in 1 .. Len(subs) : IsCell(subs[i]),
         NEW kind, NEW A, A = TruesOf(f, subs)
  PROVE  Divides(DividedOf(subs, kind, depth), ScannedOf(subs, kind), A, Len(subs), kind, WorkTrue(f), BoundaryTrue(f))
<1> DEFINE W == WorkTrue(f)
           B == BoundaryTrue(f)
           divided == DividedOf(subs, kind, depth)
           scanned == ScannedOf(subs, kind)
           n == Len(subs)
<1>1. DOMAIN subs = 1 .. n /\ n \in Nat
  BY SequenceParts
<1>2. \A i \in 1 .. n : A[i] = TrueIn(f, subs[i])
  BY <1>1 DEF TruesOf
<1>3. /\ DOMAIN divided = 1 .. n /\ divided = [i \in 1 .. n |-> divided[i]]
      /\ \A i \in 1 .. n : divided[i] = IF kind[i] # "divided" THEN << >>
                                        ELSE <<[chunks |-> subs[i], depth |-> depth + 1]>>
  BY <1>1 DEF DividedOf
<1>4. /\ DOMAIN scanned = 1 .. n /\ scanned = [i \in 1 .. n |-> scanned[i]]
      /\ \A i \in 1 .. n : scanned[i] = IF kind[i] = "scanned" THEN Combos(subs[i]) ELSE << >>
  BY <1>1 DEF ScannedOf
<1>5. DOMAIN W = [chunks : CellChunks, depth : Nat] /\ \A w \in DOMAIN W : W[w] = TrueIn(f, w.chunks)
  BY DEF WorkTrue
<1> HIDE DEF W, B, divided, scanned, n
<1>6. AnySeq(divided) /\ Len(divided) = n /\ AnySeq(scanned) /\ Len(scanned) = n
  BY <1>1, <1>3, <1>4, MadeSequence
<1>7. ASSUME NEW i \in 1 .. n
      PROVE  /\ AnySeq(divided[i]) /\ \A j \in 1 .. Len(divided[i]) : divided[i][j] \in DOMAIN W
             /\ Separate(divided[i], W) /\ Together(divided[i], W) = IF kind[i] = "divided" THEN A[i] ELSE {}
  <2>1. CASE kind[i] # "divided"
    <3>1. divided[i] = << >> /\ Len(<< >>) = 0
      BY <1>3, <2>1
    <3> QED BY <2>1, <3>1, NoneSeparate
  <2>2. CASE kind[i] = "divided"
    <3>1. PICK w : w = [chunks |-> subs[i], depth |-> depth + 1]
      OBVIOUS
    <3>2. subs[i] \in CellChunks
      <4>1. IsCell(subs[i])
        BY DEF n
      <4> QED BY <4>1, CellChunksAre DEF IsCell
    <3>3. w \in DOMAIN W /\ w.chunks = subs[i]
      BY <1>5, <3>1, <3>2
    <3>4. divided[i] = <<w>>
      BY <1>3, <2>2, <3>1
    <3>5. W[w] = A[i]
      BY <1>2, <1>5, <3>3
    <3>6. /\ AnySeq(divided[i]) /\ Len(divided[i]) = 1 /\ divided[i][1] = w
          /\ Separate(divided[i], W) /\ Together(divided[i], W) = W[w]
      BY <3>4, OneSeparate
    <3>7. \A j \in 1 .. Len(divided[i]) : divided[i][j] = w
      BY <3>6
    <3> QED BY <2>2, <3>3, <3>5, <3>6, <3>7
  <2> QED BY <2>1, <2>2
<1>8. ASSUME NEW i \in 1 .. n
      PROVE  /\ AnySeq(scanned[i]) /\ \A j \in 1 .. Len(scanned[i]) : scanned[i][j] \in DOMAIN B
             /\ Separate(scanned[i], B) /\ Together(scanned[i], B) = IF kind[i] = "scanned" THEN A[i] ELSE {}
  <2>1. CASE kind[i] # "scanned"
    <3>1. scanned[i] = << >> /\ Len(<< >>) = 0
      BY <1>4, <2>1
    <3> QED BY <2>1, <3>1, NoneSeparate
  <2>2. CASE kind[i] = "scanned"
    <3>1. scanned[i] = Combos(subs[i])
      BY <1>4, <2>2
    <3>2. IsKept(subs[i])
      BY DEF IsCell, n
    <3>3. /\ AnySeq(scanned[i]) /\ (\A j \in 1 .. Len(scanned[i]) : scanned[i][j] \in DOMAIN B)
          /\ Separate(scanned[i], B) /\ Together(scanned[i], B) = TrueIn(f, subs[i])
      BY <3>1, <3>2, CombosTrue DEF B
    <3> QED BY <1>2, <2>2, <3>3
  <2> QED BY <2>1, <2>2
<1>9. SeqOfSeqs(divided) /\ SeqOfSeqs(scanned)
  BY <1>6, <1>7, <1>8 DEF SeqOfSeqs
<1>10. Divides(divided, scanned, A, n, kind, W, B)
  BY <1>6, <1>7, <1>8, <1>9 DEF Divides
<1> QED BY <1>10 DEF divided, scanned, n, W, B

-----------------------------------------------------------------------------
(* A count under way: its tally is one of the rows on which the filter holds,  *)
(* and these are all in the chunks that were kept.                             *)
KeepsTrue(f) == {chunks \in [DOMAIN resolved -> Seq(Nat)] : IsKept(chunks) /\ TrueOf(f) \subseteq CellsIn(chunks)}

CountFields == {"kind", "filter", "kept", "work", "proven", "boundary", "answered", "answer"}

CountingFits(q) ==
  /\ q.filter \in Bindable \ {NoFilter} /\ q.kept \in KeepsTrue(q.filter)
  /\ Tally(q, WorkTrue(q.filter), BoundaryTrue(q.filter), TrueOf(q.filter))

CountFits(q) ==
  /\ CountFields \subseteq DOMAIN q
  /\ IF q.answered THEN q.work = << >> /\ q.answer = Cardinality(TrueOf(q.filter)) ELSE CountingFits(q)

LEMMA TrueIsFinite ==
  ASSUME Opened, NEW f
  PROVE  IsFiniteSet(TrueOf(f)) /\ Cardinality(TrueOf(f)) \in Nat
<1>1. IsFiniteSet(AllCells) /\ TrueOf(f) \subseteq AllCells
  BY AllCellsAre DEF TrueOf
<1>2. IsFiniteSet(TrueOf(f))
  BY <1>1, FS_Subset
<1> QED BY <1>2, FS_CardinalityType

LEMMA ClassifyFits ==
  ASSUME Opened, ~SpansRaise, NEW q, CountingFits(q), q.work # << >>, ~Rejects(q.filter),
         NEW cache, Spanned(cache),
         NEW cell, cell = Head(q.work), NEW subs, subs = Subcells(cell.chunks),
         NEW kind, kind = FatesOf(q.filter, subs, cell.depth, cache),
         NEW proven, proven = [i \in DOMAIN subs |-> IF kind[i] = "proven" THEN RowsOfCell(subs[i]) ELSE 0],
         NEW r, r.work = Tail(q.work) \o FlattenSeq(DividedOf(subs, kind, cell.depth)),
         r.boundary = q.boundary \o FlattenSeq(ScannedOf(subs, kind)), r.proven = q.proven + SumOf(proven),
         r.filter = q.filter, r.kept = q.kept
  PROVE  CountingFits(r)
<1>1. PICK f : f = q.filter
  OBVIOUS
<1>2. PICK W : W = WorkTrue(f)
  OBVIOUS
<1>3. PICK B : B = BoundaryTrue(f)
  OBVIOUS
<1>4. PICK T : T = TrueOf(f)
  OBVIOUS
<1>5. PICK A : A = TruesOf(f, subs)
  OBVIOUS
<1>6. f \in Bindable /\ f # NoFilter /\ ~Rejects(f) /\ q.kept \in KeepsTrue(f) /\ Tally(q, W, B, T)
  BY <1>1, <1>2, <1>3, <1>4 DEF CountingFits
<1>7. cell \in [chunks : CellChunks, depth : Nat] /\ W[cell] = TrueIn(f, cell.chunks)
  <2>1. AnySeq(q.work) /\ \A i \in 1 .. Len(q.work) : q.work[i] \in DOMAIN W
    BY <1>6 DEF Tally
  <2>2. Len(q.work) \in Nat /\ Len(q.work) # 0 /\ Head(q.work) = q.work[1]
    BY <2>1, SequenceParts
  <2>3. 1 \in 1 .. Len(q.work)
    BY <2>2
  <2>4. cell \in DOMAIN W
    BY <2>1, <2>2, <2>3
  <2> QED BY <1>2, <2>4 DEF WorkTrue
<1>8. IsCell(cell.chunks) /\ cell.depth \in Nat
  BY <1>7 DEF CellChunks
<1>9. /\ AnySeq(subs) /\ (\A i \in 1 .. Len(subs) : IsCell(subs[i]))
      /\ IsSplit(A, Len(subs), kind, W[cell])
      /\ \A i \in 1 .. Len(subs) : kind[i] = "proven" => Cardinality(A[i]) = RowsOfCell(subs[i])
  <2>1. kind = FatesOf(f, subs, cell.depth, cache)
    BY <1>1
  <2>2. PICK chunks : chunks = cell.chunks
    OBVIOUS
  <2>3. PICK depth : depth = cell.depth
    OBVIOUS
  <2>4. subs = Subcells(chunks) /\ kind = FatesOf(f, subs, depth, cache) /\ IsCell(chunks)
    BY <1>8, <2>1, <2>2, <2>3
  <2>5. FatesFit(f, chunks, subs, A, kind)
    BY ONLY Opened, ~SpansRaise, Spanned(cache), <1>5, <1>6, <2>4, FatesSplit
  <2> QED BY ONLY <1>7, <2>2, <2>5 DEF FatesFit
<1>10. Divides(DividedOf(subs, kind, cell.depth), ScannedOf(subs, kind), A, Len(subs), kind, W, B)
  BY <1>2, <1>3, <1>5, <1>8, <1>9, PartsDivide
<1>11. Len(subs) \in Nat /\ DOMAIN subs = 1 .. Len(subs)
  BY <1>9, SequenceParts
<1>12. proven = [i \in 1 .. Len(subs) |-> IF kind[i] = "proven" THEN Cardinality(A[i]) ELSE 0]
  BY <1>9, <1>11
<1>13. IsFiniteSet(T)
  BY <1>4, TrueIsFinite
<1>14. PICK divided : divided = DividedOf(subs, kind, cell.depth)
  OBVIOUS
<1>15. PICK scanned : scanned = ScannedOf(subs, kind)
  OBVIOUS
<1>16. Divides(divided, scanned, A, Len(subs), kind, W, B)
  BY <1>10, <1>14, <1>15
<1>17. /\ r.work = Tail(q.work) \o FlattenSeq(divided) /\ r.boundary = q.boundary \o FlattenSeq(scanned)
       /\ r.proven = q.proven + SumOf(proven) /\ IsSplit(A, Len(subs), kind, W[Head(q.work)]) /\ q.work # << >>
  BY <1>9, <1>14, <1>15
<1>18. SplitStep(q, r, T, W, B, Len(subs), A, kind, divided, scanned, proven)
  BY ONLY <1>6, <1>11, <1>12, <1>13, <1>16, <1>17 DEF SplitStep
<1>19. Tally(r, W, B, T)
  BY ONLY <1>18, TallySplit
<1> QED BY <1>1, <1>2, <1>3, <1>4, <1>6, <1>19 DEF CountingFits

(* Every survivor is scanned.                                                  *)
LEMMA RaisesFits ==
  ASSUME Opened, NEW q, CountingFits(q),
         NEW r, r.work = << >>, r.boundary = Combos(q.kept), r.proven = 0, r.filter = q.filter, r.kept = q.kept
  PROVE  CountingFits(r)
<1>1. PICK f : f = q.filter
  OBVIOUS
<1>2. PICK W : W = WorkTrue(f)
  OBVIOUS
<1>3. PICK B : B = BoundaryTrue(f)
  OBVIOUS
<1>4. PICK T : T = TrueOf(f)
  OBVIOUS
<1>5. f \in Bindable \ {NoFilter} /\ q.kept \in KeepsTrue(f)
  BY <1>1 DEF CountingFits
<1>6. IsKept(q.kept) /\ T \subseteq CellsIn(q.kept)
  BY <1>4, <1>5 DEF KeepsTrue
<1>7. /\ AnySeq(r.boundary) /\ (\A i \in 1 .. Len(r.boundary) : r.boundary[i] \in DOMAIN B)
      /\ Separate(r.boundary, B) /\ Together(r.boundary, B) = TrueIn(f, q.kept)
  BY <1>3, <1>6, CombosTrue
<1>8. TrueIn(f, q.kept) = T
  BY <1>4, <1>6 DEF TrueIn, CellsIn, TrueOf
<1>9. AnySeq(r.work) /\ Len(r.work) = 0 /\ Separate(r.work, W) /\ Together(r.work, W) = {}
  <2>1. AnySeq(<< >>) /\ Len(<< >>) = 0
    BY NoneSeparate
  <2> QED BY <2>1, NoneSeparate
<1>10. T \ ({} \cup T) = {} /\ Cardinality({}) = 0
  BY FS_EmptySet
<1>11. Tally(r, W, B, T)
  BY <1>7, <1>8, <1>9, <1>10 DEF Tally
<1> QED BY <1>1, <1>2, <1>3, <1>4, <1>5, <1>11 DEF CountingFits

(* The boundary and what is proven are all the rows, once no work is left.     *)
LEMMA EndFits ==
  ASSUME Opened, NEW q, CountingFits(q), q.work = << >>,
         NEW scanned, scanned = [i \in DOMAIN q.boundary |-> CountTrue(q.filter, BlockForCombo(q.boundary[i]))]
  PROVE  q.proven + SumOf(scanned) = Cardinality(TrueOf(q.filter))
<1>1. PICK f : f = q.filter
  OBVIOUS
<1>2. PICK W : W = WorkTrue(f)
  OBVIOUS
<1>3. PICK B : B = BoundaryTrue(f)
  OBVIOUS
<1>4. PICK T : T = TrueOf(f)
  OBVIOUS
<1>5. PICK s : s = q.boundary
  OBVIOUS
<1>6. Tally(q, W, B, T)
  BY <1>1, <1>2, <1>3, <1>4 DEF CountingFits
<1>7. Together(q.work, W) = {}
  BY NoneSeparate
<1>8. /\ AnySeq(s) /\ (\A i \in 1 .. Len(s) : s[i] \in DOMAIN B) /\ Separate(s, B)
      /\ Together(s, B) \subseteq T /\ q.proven = Cardinality(T \ Together(s, B))
  BY <1>5, <1>6, <1>7 DEF Tally
<1>9. IsFiniteSet(T)
  BY <1>4, TrueIsFinite
<1>10. PICK Y : Y = Together(s, B)
  OBVIOUS
<1>11. IsFiniteSet(Y) /\ IsFiniteSet(T \ Y) /\ Y \subseteq T
  BY <1>8, <1>9, <1>10, FS_Subset
<1>12. scanned = [i \in 1 .. Len(s) |-> Cardinality(B[s[i]])]
  <2>1. DOMAIN s = 1 .. Len(s)
    BY <1>8, SequenceParts
  <2>2. \A i \in 1 .. Len(s) : B[s[i]] = TrueOfBlock(f, BlockForCombo(s[i]))
    BY <1>3, <1>8 DEF BoundaryTrue
  <2>3. \A i \in 1 .. Len(s) : CountTrue(f, BlockForCombo(s[i])) = Cardinality(B[s[i]])
    BY <2>2 DEF CountTrue, TrueOfBlock
  <2>4. scanned = [i \in 1 .. Len(s) |-> CountTrue(f, BlockForCombo(s[i]))]
    BY <1>1, <1>5, <2>1
  <2> QED BY <2>3, <2>4
<1>13. Cardinality(Y) = SumOf(scanned)
  BY <1>8, <1>10, <1>11, <1>12, CountSeparate
<1>14. /\ Cardinality(Y \cup (T \ Y)) = Cardinality(Y) + Cardinality(T \ Y) - Cardinality(Y \cap (T \ Y))
       /\ Y \cup (T \ Y) = T /\ Y \cap (T \ Y) = {}
  BY <1>11, FS_Union
<1>15. Cardinality({}) = 0 /\ Cardinality(Y) \in Nat /\ Cardinality(T \ Y) \in Nat
  BY <1>11, FS_EmptySet, FS_CardinalityType
<1>16. PICK m : m = Cardinality(Y)
  OBVIOUS
<1>17. PICK k : k = Cardinality(T \ Y)
  OBVIOUS
<1>18. q.proven = k /\ SumOf(scanned) = m /\ m \in Nat /\ k \in Nat
  BY ONLY <1>8, <1>10, <1>13, <1>15, <1>16, <1>17
<1>19. Cardinality(T) = m + k
  <2>1. Cardinality(T) = m + k - 0
    BY ONLY <1>14, <1>15, <1>16, <1>17
  <2> QED BY ONLY <1>18, <2>1
<1>20. q.proven + SumOf(scanned) = Cardinality(T)
  BY ONLY <1>18, <1>19
<1> QED BY ONLY <1>1, <1>4, <1>20

(* Counts that are answered at once: without a filter, and without dimensions. *)
LEMMA TrueOfTable ==
  /\ \A f : CountTrue(f, WholeGrid(dataset)) = Cardinality(TrueOf(f))
  /\ TrueOf(NoFilter) = AllCells
<1>1. \A f : CountTrue(f, WholeGrid(dataset)) = Cardinality(TrueOf(f))
  BY DEF CountTrue, TrueOf, AllCells
<1>2. TrueOf(NoFilter) = AllCells
  BY DEF TrueOf, Holds
<1> QED BY <1>1, <1>2

LEMMA NoDimsCount ==
  ASSUME dataset.dims = << >>, NEW f
  PROVE  CountTrue(f, << >>) = Cardinality(TrueOf(f))
<1>1. DimsOf(dataset) = {}
  <2>1. ToSet(<< >>) = {}
    BY DEF ToSet
  <2> QED BY <2>1 DEF DimsOf
<1>2. PICK g : g = WholeGrid(dataset)
  OBVIOUS
<1>3. DOMAIN g = {} /\ g = [x \in {} |-> g[x]]
  BY <1>1, <1>2 DEF WholeGrid
<1>4. g = << >>
  BY ONLY <1>3, EmptySequence
<1> QED BY <1>2, <1>4, TrueOfTable

LEMMA TableRows ==
  ASSUME Opened
  PROVE  Product([i \in DOMAIN dataset.dims |-> dataset.size[dataset.dims[i]]]) = Cardinality(AllCells)
<1> DEFINE q == Cells(WholeGrid(dataset))
           whole == WholeGrid(dataset)
           names == dataset.dims
<1>1. IsGrid(dataset) /\ AreDims(names, dataset) /\ IsBlock(dataset, whole)
  BY OpenedParts, DimsAreDims, WholeIsBlock
<1>2. /\ DOMAIN names = 1 .. Len(names) /\ \A k \in 1 .. Len(names) : names[k] \in DimsOf(dataset)
  BY <1>1, ShapeParts
<1>3. \A k \in 1 .. Len(names) : Len1(dataset, whole, names[k]) = dataset.size[names[k]]
  BY <1>2 DEF WholeGrid, Len1
<1> HIDE DEF whole
<1>4. Shape(dataset, whole, names) = [k \in DOMAIN names |-> dataset.size[names[k]]]
  BY <1>2, <1>3 DEF Shape
<1>5. Product(Shape(dataset, whole, names)) = Len(Ravel(dataset, whole, names))
  BY <1>1, CountOfCells
<1>6. Len(q) = Len(Ravel(dataset, whole, names))
  BY DEF Cells, whole
<1>7. AnySeq(q) /\ Distinct(q)
  BY <1>1, CellsOfBlock DEF whole
<1> HIDE DEF q
<1>8. Len(q) = Cardinality(ToSet(q))
  BY <1>7, DistinctLength
<1>9. ToSet(q) = AllCells
  BY DEF AllCells, q
<1> QED BY <1>4, <1>5, <1>6, <1>8, <1>9

(* A count that begins: all the rows on which the filter holds are in the     *)
(* chunks that survive.                                                       *)
LEMMA KeptHoldsTrue ==
  ASSUME Opened, ShadowsCurrent, NEW f \in Bindable
  PROVE  IsKept(Kept(f)) /\ Kept(f) \in KeepsTrue(f) /\ TrueIn(f, Kept(f)) = TrueOf(f)
<1>1. IsKept(Kept(f))
  BY PruneIsKept DEF Kept
<1>2. ASSUME NEW c \in TrueOf(f)
      PROVE  c \in CellsIn(Kept(f))
  <2>1. c \in AllCells /\ Holds(f, c) /\ InBlock(dataset, WholeGrid(dataset), c)
    BY AllCellsAre DEF TrueOf
  <2>2. ASSUME NEW d \in DOMAIN resolved
        PROVE  \E i \in ToSet(Kept(f)[d]) : InChunk(d, i, c[d])
    <3>1. d \in DimsOf(dataset)
      BY OpenedParts
    <3>2. c[d] \in Nat /\ c[d] < dataset.size[d]
      BY <2>1, <3>1, OpenedParts, WholeIsBlock
    <3>3. PICK i \in 1 .. N(d) : InChunk(d, i, c[d])
      BY <3>2, ChunkOfPosition
    <3>4. i \in ToSet(Kept(f)[d])
      BY <2>1, <3>3, PruningKeepsRows
    <3> QED BY <3>3, <3>4
  <2>3. KeptCell(Kept(f), c)
    BY <2>1, <2>2 DEF KeptCell
  <2> QED BY <2>1, <2>3 DEF CellsIn
<1>3. TrueOf(f) \subseteq CellsIn(Kept(f))
  BY <1>2
<1>4. Kept(f) \in [DOMAIN resolved -> Seq(Nat)]
  BY <1>1, CellChunksAre
<1>5. Kept(f) \in KeepsTrue(f)
  BY <1>1, <1>3, <1>4 DEF KeepsTrue
<1>6. TrueIn(f, Kept(f)) = TrueOf(f)
  BY <1>3 DEF TrueIn, TrueOf, CellsIn
<1> QED BY <1>1, <1>5, <1>6

LEMMA CountingBegins ==
  ASSUME Opened, ShadowsCurrent, NEW f \in Bindable \ {NoFilter},
         NEW q, q.filter = f, q.kept = Kept(f), q.proven = 0, q.boundary = << >>,
         q.work = IF \E d \in DOMAIN Kept(f) : Kept(f)[d] = << >> THEN << >>
                  ELSE <<[chunks |-> Kept(f), depth |-> 0]>>
  PROVE  CountingFits(q)
<1>1. PICK kept : kept = Kept(f)
  OBVIOUS
<1>2. IsKept(kept) /\ kept \in KeepsTrue(f) /\ TrueIn(f, kept) = TrueOf(f)
  BY <1>1, KeptHoldsTrue
<1>3. PICK W : W = WorkTrue(f)
  OBVIOUS
<1>4. PICK B : B = BoundaryTrue(f)
  OBVIOUS
<1>5. PICK T : T = TrueOf(f)
  OBVIOUS
<1>6. DOMAIN kept = DOMAIN resolved
  BY <1>2 DEF IsKept
<1>7. /\ AnySeq(q.work) /\ (\A i \in 1 .. Len(q.work) : q.work[i] \in DOMAIN W)
      /\ Separate(q.work, W) /\ Together(q.work, W) = T
  <2>1. CASE \E d \in DOMAIN kept : kept[d] = << >>
    <3>1. q.work = << >> /\ Len(<< >>) = 0
      BY <1>1, <2>1
    <3>2. PICK d \in DOMAIN resolved : kept[d] = << >>
      BY <1>6, <2>1
    <3>3. ToSet(kept[d]) = {}
      BY <3>2 DEF ToSet
    <3>4. \A c : ~KeptCell(kept, c)
      BY <3>3 DEF KeptCell
    <3>5. TrueIn(f, kept) = {}
      BY <3>4 DEF TrueIn, CellsIn
    <3> QED BY <1>2, <1>5, <3>1, <3>5, NoneSeparate
  <2>2. CASE ~ \E d \in DOMAIN kept : kept[d] = << >>
    <3>1. PICK w : w = [chunks |-> kept, depth |-> 0]
      OBVIOUS
    <3>2. q.work = <<w>>
      BY <1>1, <2>2, <3>1
    <3>3. kept \in CellChunks
      <4>1. IsCell(kept)
        BY <1>2, <1>6, <2>2 DEF IsCell
      <4> QED BY <1>2, <4>1, CellChunksAre
    <3>4. w \in DOMAIN W /\ W[w] = T
      <4>1. w \in [chunks : CellChunks, depth : Nat] /\ w.chunks = kept
        BY <3>1, <3>3
      <4> QED BY <1>2, <1>3, <1>5, <4>1 DEF WorkTrue
    <3>5. /\ AnySeq(q.work) /\ Len(q.work) = 1 /\ q.work[1] = w
          /\ Separate(q.work, W) /\ Together(q.work, W) = W[w]
      BY <3>2, OneSeparate
    <3>6. \A i \in 1 .. Len(q.work) : q.work[i] = w
      BY <3>5
    <3> QED BY <3>4, <3>5, <3>6
  <2> QED BY <2>1, <2>2
<1>8. /\ AnySeq(q.boundary) /\ Len(q.boundary) = 0
      /\ Separate(q.boundary, B) /\ Together(q.boundary, B) = {}
  <2>1. AnySeq(<< >>) /\ Len(<< >>) = 0
    BY NoneSeparate
  <2> QED BY <2>1, NoneSeparate
<1>9. T \ (T \cup {}) = {} /\ Cardinality({}) = 0
  BY FS_EmptySet
<1>10. q.proven = 0 /\ \A i \in 1 .. Len(q.boundary) : q.boundary[i] \in DOMAIN B
  BY <1>8
<1>11. /\ Together(q.work, W) \cap Together(q.boundary, B) = {}
       /\ Together(q.work, W) \cup Together(q.boundary, B) = T
       /\ q.proven = Cardinality(T \ (Together(q.work, W) \cup Together(q.boundary, B)))
  BY ONLY <1>7, <1>8, <1>9, <1>10
<1>12. Tally(q, W, B, T)
  BY ONLY <1>7, <1>8, <1>10, <1>11 DEF Tally
<1> QED BY <1>1, <1>2, <1>3, <1>4, <1>5, <1>12 DEF CountingFits

(* What a count is about stays while the table does.                          *)
LEMMA CellsStay ==
  ASSUME table' = table
  PROVE  /\ dataset' = dataset /\ resolved' = resolved /\ chunk_bounds' = chunk_bounds
         /\ AllCells' = AllCells /\ Bindable' = Bindable
         /\ \A f, c : Holds(f, c)' <=> Holds(f, c)
         /\ \A kept, c : KeptCell(kept, c)' <=> KeptCell(kept, c)
<1>1. dataset' = dataset /\ resolved' = resolved /\ chunk_bounds' = chunk_bounds
  BY DEF table
<1>2. AllCells' = AllCells
  BY <1>1 DEF AllCells, Cells
<1>3. Bindable' = Bindable
  BY <1>1 DEF Bindable
<1>4. \A f, c : Holds(f, c)' <=> Holds(f, c)
  BY <1>1 DEF Holds
<1>5. \A kept, c : KeptCell(kept, c)' <=> KeptCell(kept, c)
  BY <1>1 DEF KeptCell, InChunk, Bounds
<1> QED BY <1>1, <1>2, <1>3, <1>4, <1>5

LEMMA TruesStay ==
  ASSUME table' = table, NEW f
  PROVE  /\ TrueOf(f)' = TrueOf(f) /\ WorkTrue(f)' = WorkTrue(f)
         /\ BoundaryTrue(f)' = BoundaryTrue(f) /\ KeepsTrue(f)' = KeepsTrue(f)
<1>1. \A chunks : CellsIn(chunks)' = CellsIn(chunks)
  BY CellsStay DEF CellsIn
<1>2. \A chunks : TrueIn(f, chunks)' = TrueIn(f, chunks)
  BY <1>1, CellsStay DEF TrueIn
<1>3. TrueOf(f)' = TrueOf(f)
  BY CellsStay DEF TrueOf
<1>4. \A kept : IsKept(kept)' <=> IsKept(kept)
  BY CellsStay DEF IsKept, N
<1>5. CellChunks' = CellChunks
  BY <1>4, CellsStay DEF CellChunks, IsCell
<1>6. WorkTrue(f)' = WorkTrue(f)
  BY <1>2, <1>5 DEF WorkTrue
<1>7. \A combo : BlockForCombo(combo)' = BlockForCombo(combo)
  BY CellsStay DEF BlockForCombo, Bounds
<1>8. \A block : TrueOfBlock(f, block)' = TrueOfBlock(f, block)
  BY CellsStay DEF TrueOfBlock, Cells
<1>9. BoundaryTrue(f)' = BoundaryTrue(f)
  BY <1>7, <1>8, CellsStay DEF BoundaryTrue
<1>10. KeepsTrue(f)' = KeepsTrue(f)
  BY <1>1, <1>3, <1>4, CellsStay DEF KeepsTrue
<1> QED BY <1>3, <1>6, <1>9, <1>10

LEMMA CountFitsStays ==
  ASSUME table' = table, NEW q
  PROVE  CountFits(q)' <=> CountFits(q)
<1>1. /\ TrueOf(q.filter)' = TrueOf(q.filter) /\ WorkTrue(q.filter)' = WorkTrue(q.filter)
      /\ BoundaryTrue(q.filter)' = BoundaryTrue(q.filter) /\ KeepsTrue(q.filter)' = KeepsTrue(q.filter)
  BY TruesStay
<1>2. Bindable' = Bindable
  BY CellsStay
<1>3. CountingFits(q)' <=> CountingFits(q)
  BY <1>1, <1>2 DEF CountingFits
<1> QED BY <1>1, <1>3 DEF CountFits

-----------------------------------------------------------------------------
(* The queries under way. What is computed of a table stays while it does.    *)
LEMMA FineShadowStays ==
  ASSUME table' = table, NEW d, NEW b
  PROVE  FineShadow(d, b)' = FineShadow(d, b)
BY DEF table, FineShadow, Start, Stop, Step, N, Guarantee, Coords, Bounds

LEMMA ChunkSpansStay ==
  ASSUME table' = table, NEW d
  PROVE  ChunkSpans(d)' = ChunkSpans(d)
BY DEF table, ChunkSpans, N, ReducedAt, Coords, Bounds

\* ExactScan of a table.
ExactIn(ds, res, bounds, limit, q) ==
  LET cells == FlattenSeq([i \in DOMAIN q.blocks |-> Ravel(ds, q.blocks[i], ds.dims)])
      combos == Combinations(Only(ds.dims, DOMAIN res), q.kept)
      single == [i \in DOMAIN combos |->
                   [d \in DimsOf(ds) |-> IF d \in DOMAIN combos[i]
                                         THEN <<bounds[d][combos[i][d]], bounds[d][combos[i][d] + 1]>> ELSE Full]]
  IN  /\ IsInjective(cells)
      /\ \A cell \in ToSet(Ravel(ds, WholeGrid(ds), ds.dims)) \ ToSet(cells) :
           ~(q.filter = NoFilter \/ Value(q.filter, Row(ds, cell)) = "true")
      /\ q.filter # NoFilter => Refers(q.filter) \subseteq q.columns
      /\ limit > 0 =>
           /\ Len(cells) = SumOf([i \in DOMAIN single |-> Len(Ravel(ds, single[i], ds.dims))])
           /\ \A i \in DOMAIN q.blocks :
                q.blocks[i] \in ToSet(single) \/ Len(Ravel(ds, q.blocks[i], ds.dims)) <= limit

LEMMA ExactOfTable ==
  ASSUME NEW q
  PROVE  ExactScan(q) <=> ExactIn(dataset, resolved, chunk_bounds, coalesce_rows, q)
BY DEF ExactScan, ExactIn, CellsOf, Cells, Combos, GridDims, BlocksOf, BlockForCombo, Bounds, Holds

LEMMA ScanIsExactIn ==
  /\ ScanIsExact <=> (query # NoQuery /\ query.kind = "scan" =>
                        ExactIn(dataset, resolved, chunk_bounds, coalesce_rows, query))
  /\ ScanIsExact' <=> (query' # NoQuery /\ query'.kind = "scan" =>
                         ExactIn(dataset', resolved', chunk_bounds', coalesce_rows', query'))
<1>1. ScanIsExact <=> (query # NoQuery /\ query.kind = "scan" =>
                         ExactIn(dataset, resolved, chunk_bounds, coalesce_rows, query))
  BY DEF ScanIsExact, ExactIn, Cells, Combos, GridDims, BlocksOf, BlockForCombo, Bounds, Holds
<1>2. ScanIsExact' <=> (query' # NoQuery /\ query'.kind = "scan" =>
                          ExactIn(dataset', resolved', chunk_bounds', coalesce_rows', query'))
  BY DEF ScanIsExact, ExactIn, Cells, Combos, GridDims, BlocksOf, BlockForCombo, Bounds, Holds
<1> QED BY <1>1, <1>2

(* The inductive invariant: the table is one that was opened, the caches of   *)
(* shadows and spans hold what would be computed again, a scan is exact and a *)
(* count has proven, or has left, each row on which its filter holds once.    *)
SpansCurrent == \A d \in DOMAIN spans : spans[d] = ChunkSpans(d)

QueryNamed(q) ==
  q # NoQuery => {"kind", "filter"} \subseteq DOMAIN q /\ q.filter \in Filters \cup {NoFilter}

QueryFits(q) ==
  /\ QueryNamed(q)
  /\ q # NoQuery /\ q.kind = "scan" => ExactScan(q)
  /\ q # NoQuery /\ q.kind = "count" => CountFits(q)

CountsFit == query # NoQuery /\ query.kind = "count" => CountFits(query)

IInv == Opened /\ ShadowsCurrent /\ SpansCurrent /\ QueryNamed(query) /\ ScanIsExact /\ CountsFit

LEMMA InitFits ==
  Init => IInv
<1> SUFFICES ASSUME Init
             PROVE  IInv
  OBVIOUS
<1>1. Opened
  BY DEF Init, Opened
<1>2. DOMAIN << >> = {}
  OBVIOUS
<1>3. ShadowsCurrent /\ SpansCurrent
  BY <1>2 DEF Init, ShadowsCurrent, SpansCurrent
<1>4. QueryNamed(query) /\ ScanIsExact /\ CountsFit
  BY DEF Init, QueryNamed, ScanIsExact, CountsFit
<1> QED BY <1>1, <1>3, <1>4 DEF IInv

LEMMA NewQuery ==
  ASSUME IInv, table' = table, NEW q, query' = q, QueryFits(q),
         fine' = fine \/ \E f : fine' = Refined(f),
         spans' = spans \/ spans' = Extended(spans, [d \in PrunableDims |-> ChunkSpans(d)])
  PROVE  IInv'
<1>1. Opened'
  BY DEF IInv, Opened, table
<1>2. ShadowsCurrent'
  <2>1. \A key \in DOMAIN fine' : fine'[key] = FineShadow(key[1], key[2])
    <3>1. CASE fine' = fine
      BY <3>1 DEF IInv, ShadowsCurrent
    <3>2. CASE \E f : fine' = Refined(f)
      <4>1. PICK f : fine' = Refined(f)
        BY <3>2
      <4> QED BY <4>1, RefinedCurrent DEF IInv
    <3> QED BY <3>1, <3>2
  <2>2. \A d, b : FineShadow(d, b)' = FineShadow(d, b)
    BY FineShadowStays
  <2>3. \A key \in DOMAIN fine' : fine'[key] = FineShadow(key[1], key[2])'
    BY <2>1, <2>2
  <2> QED BY <2>3 DEF ShadowsCurrent
<1>3. SpansCurrent'
  <2>1. \A d \in DOMAIN spans' : spans'[d] = ChunkSpans(d)
    <3>1. CASE spans' = spans
      BY <3>1 DEF IInv, SpansCurrent
    <3>2. CASE spans' = Extended(spans, [d \in PrunableDims |-> ChunkSpans(d)])
      BY <3>2 DEF IInv, SpansCurrent, Extended
    <3> QED BY <3>1, <3>2
  <2>2. \A d : ChunkSpans(d)' = ChunkSpans(d)
    BY ChunkSpansStay
  <2>3. \A d \in DOMAIN spans' : spans'[d] = ChunkSpans(d)'
    BY <2>1, <2>2
  <2> QED BY <2>3 DEF SpansCurrent
<1>4. QueryNamed(query)'
  BY DEF QueryFits, QueryNamed
<1>5. ScanIsExact'
  <2>1. q # NoQuery /\ q.kind = "scan" => ExactIn(dataset, resolved, chunk_bounds, coalesce_rows, q)
    BY ExactOfTable DEF QueryFits
  <2>2. dataset' = dataset /\ resolved' = resolved /\ chunk_bounds' = chunk_bounds /\ coalesce_rows' = coalesce_rows
    BY DEF table
  <2> QED BY <2>1, <2>2, ScanIsExactIn
<1>6. CountsFit'
  <2>1. q # NoQuery /\ q.kind = "count" => CountFits(q)'
    BY CountFitsStays DEF QueryFits
  <2>2. CountFits(query)' <=> CountFits(q)'
    OBVIOUS
  <2> QED BY <2>1, <2>2 DEF CountsFit
<1> QED BY <1>1, <1>2, <1>3, <1>4, <1>5, <1>6 DEF IInv

LEMMA QueryStays ==
  ASSUME IInv, vars' = vars
  PROVE  IInv'
<1>1. PICK q : q = query
  OBVIOUS
<1>2. table' = table /\ query' = q /\ fine' = fine /\ spans' = spans
  BY <1>1 DEF vars
<1>3. QueryFits(q)
  <2>1. q # NoQuery /\ q.kind = "scan" => ExactIn(dataset, resolved, chunk_bounds, coalesce_rows, q)
    BY <1>1, ScanIsExactIn DEF IInv
  <2>2. q # NoQuery /\ q.kind = "count" => CountFits(q)
    BY <1>1 DEF IInv, CountsFit
  <2> QED BY <1>1, <2>1, <2>2, ExactOfTable DEF IInv, QueryFits, QueryNamed
<1> QED BY <1>2, <1>3, NewQuery

LEMMA AskFits ==
  ASSUME IInv, NEW f \in Bindable \cup {NoFilter}, NEW answered, QueryFits(answered), Ask(f, answered)
  PROVE  IInv'
<1>1. f \in Filters \cup {NoFilter}
  BY DEF Bindable
<1>2. table' = table /\ spans' = spans /\ query' = IF AskRaises(f) THEN Failed(f) ELSE answered
  BY DEF Ask
<1>3. fine' = fine \/ \E g : fine' = Refined(g)
  <2>1. fine' = IF AskRaises(f) THEN fine ELSE IF f = NoFilter THEN fine ELSE Refined(f)
    BY DEF Ask, Asked
  <2> QED BY <2>1
<1>4. CASE AskRaises(f)
  <2>1. PICK q : q = Failed(f)
    OBVIOUS
  <2>2. q.filter = f /\ q.kind = "ValueError" /\ DOMAIN q = {"kind", "filter"}
    BY <2>1 DEF Failed
  <2>3. q.kind # "scan" /\ q.kind # "count"
    BY <2>2
  <2>4. QueryFits(q)
    BY <1>1, <2>2, <2>3 DEF QueryFits, QueryNamed
  <2>5. query' = q
    BY <1>2, <1>4, <2>1
  <2> QED BY <1>2, <1>3, <2>4, <2>5, NewQuery
<1>5. CASE ~AskRaises(f)
  <2>1. query' = answered
    BY <1>2, <1>5
  <2> QED BY <1>2, <1>3, <2>1, NewQuery
<1> QED BY <1>4, <1>5

LEMMA ScanKeeps ==
  ASSUME IInv, NEW f \in Bindable \cup {NoFilter}, Scan(f) \/ GetFragments(f)
  PROVE  IInv'
<1>1. Opened /\ ShadowsCurrent /\ f \in Filters \cup {NoFilter}
  BY DEF IInv, Bindable
<1>2. PICK blocks : /\ blocks = BlocksFor(Kept(f)) \/ blocks = FragmentsOf(Kept(f))
                    /\ Ask(f, [kind |-> "scan", filter |-> f, kept |-> Kept(f), blocks |-> blocks,
                               columns |-> ScanColumns({}, f)])
  BY DEF Scan, GetFragments, FragmentsOf
<1>3. PICK q : q = [kind |-> "scan", filter |-> f, kept |-> Kept(f), blocks |-> blocks, columns |-> ScanColumns({}, f)]
  OBVIOUS
<1>4. ExactScan(q)
  BY <1>1, <1>2, <1>3, ScansFit
<1>5. q.filter = f /\ DOMAIN q = {"kind", "filter", "kept", "blocks", "columns"}
  BY <1>3
<1>6. QueryFits(q)
  <2>1. q.kind # "count"
    BY <1>3
  <2> QED BY <1>1, <1>4, <1>5, <2>1 DEF QueryFits, QueryNamed
<1>7. Ask(f, q)
  BY <1>2, <1>3
<1> QED BY <1>6, <1>7, AskFits

LEMMA CountKeeps ==
  ASSUME IInv, NEW f \in Bindable \cup {NoFilter}, CountRows(f)
  PROVE  IInv'
<1>1. Opened /\ ShadowsCurrent /\ f \in Filters \cup {NoFilter}
  BY DEF IInv, Bindable
<1>2. ASSUME NEW q, CountFits(q), q.filter = f, q.kind = "count"
      PROVE  QueryFits(q)
  <2>1. q.kind # "scan" /\ {"kind", "filter"} \subseteq DOMAIN q
    BY <1>2 DEF CountFits, CountFields
  <2> QED BY <1>1, <1>2, <2>1 DEF QueryFits, QueryNamed
<1>3. CASE dataset.dims = << >>
  <2>1. PICK n : n = CountTrue(f, << >>)
    OBVIOUS
  <2>2. PICK q : q = [Answer(n) EXCEPT !.filter = f]
    OBVIOUS
  <2>3. query' = q /\ table' = table /\ fine' = fine /\ spans' = spans
    BY <1>3, <2>1, <2>2 DEF CountRows
  <2>4. /\ DOMAIN q = CountFields /\ q.filter = f /\ q.kind = "count"
        /\ q.answered = TRUE /\ q.answer = n /\ q.work = << >>
    BY <2>2 DEF Answer, Counting, CountFields
  <2>5. CountFits(q)
    BY <1>3, <2>1, <2>4, NoDimsCount DEF CountFits
  <2> QED BY <1>2, <2>3, <2>4, <2>5, NewQuery
<1>4. CASE dataset.dims # << >>
  <2>1. PICK total : total = Product([i \in DOMAIN dataset.dims |-> dataset.size[dataset.dims[i]]])
    OBVIOUS
  <2>2. PICK kept : kept = Kept(f)
    OBVIOUS
  <2>3. PICK work : work = IF \E d \in DOMAIN kept : kept[d] = << >> THEN << >>
                           ELSE <<[chunks |-> kept, depth |-> 0]>>
    OBVIOUS
  <2>4. PICK q : q = IF f = NoFilter THEN Answer(total) ELSE Counting(f, kept, work)
    OBVIOUS
  <2>5. Ask(f, q)
    BY <1>4, <2>1, <2>2, <2>3, <2>4 DEF CountRows
  <2>6. CASE f = NoFilter
    <3>1. /\ DOMAIN q = CountFields /\ q.filter = f /\ q.kind = "count"
          /\ q.answered = TRUE /\ q.answer = total /\ q.work = << >>
      BY <2>4, <2>6 DEF Answer, Counting, CountFields
    <3>2. total = Cardinality(TrueOf(f))
      BY <1>1, <2>1, <2>6, TableRows, TrueOfTable
    <3>3. CountFits(q)
      BY <3>1, <3>2 DEF CountFits
    <3> QED BY <1>2, <2>5, <3>1, <3>3, AskFits
  <2>7. CASE f # NoFilter
    <3>1. /\ DOMAIN q = CountFields /\ q.filter = f /\ q.kind = "count" /\ q.answered = FALSE
          /\ q.kept = kept /\ q.work = work /\ q.proven = 0 /\ q.boundary = << >>
      BY <2>4, <2>7 DEF Counting, CountFields
    <3>2. q.work = IF \E d \in DOMAIN Kept(f) : Kept(f)[d] = << >> THEN << >>
                   ELSE <<[chunks |-> Kept(f), depth |-> 0]>>
      BY ONLY <2>2, <2>3, <3>1
    <3>3. CountingFits(q)
      BY <1>1, <2>2, <2>7, <3>1, <3>2, CountingBegins
    <3>4. CountFits(q)
      BY <3>1, <3>3 DEF CountFits
    <3> QED BY <1>2, <2>5, <3>1, <3>4, AskFits
  <2> QED BY <2>6, <2>7
<1> QED BY <1>3, <1>4

\* A count under way is one still, of the same filter and the same chunks.
UnderWay(q) ==
  /\ CountFields \subseteq DOMAIN q /\ q # NoQuery /\ q.kind = "count" /\ ~q.answered
  /\ q.filter \in Filters \cup {NoFilter}

GoesOn(q, r, w, p, b) ==
  /\ r.work = w /\ r.proven = p /\ r.boundary = b /\ r.filter = q.filter /\ r.kept = q.kept
  /\ CountingFits(r) => QueryFits(r)

LEMMA CountUnderWay ==
  ASSUME IInv, query # NoQuery, query.kind = "count", query.work # << >> \/ ~query.answered
  PROVE  UnderWay(query) /\ CountingFits(query) /\ Opened
BY DEF IInv, CountsFit, CountFits, QueryNamed, UnderWay

LEMMA CountGoesOn ==
  ASSUME NEW q, UnderWay(q), NEW w, NEW p, NEW b, NEW r, r = [q EXCEPT !.work = w, !.proven = p, !.boundary = b]
  PROVE  GoesOn(q, r, w, p, b)
<1>1. DOMAIN r = DOMAIN q /\ {"kind", "filter", "kept", "work", "proven", "boundary", "answered"} \subseteq DOMAIN q
  BY DEF CountFields, UnderWay
<1>2. r.work = w /\ r.proven = p /\ r.boundary = b
  BY <1>1
<1>3. r.filter = q.filter /\ r.kept = q.kept /\ r.kind = q.kind /\ r.answered = q.answered
  BY <1>1
<1>4. ~r.answered
  BY <1>3 DEF UnderWay
<1>5. r.kind # "scan" /\ CountFields \subseteq DOMAIN r
  BY <1>1, <1>3 DEF UnderWay
<1>6. QueryNamed(r)
  BY <1>1, <1>3 DEF QueryNamed, UnderWay
<1>7. CountingFits(r) => CountFits(r)
  BY <1>4, <1>5 DEF CountFits
<1> QED BY <1>2, <1>3, <1>5, <1>6, <1>7 DEF QueryFits, GoesOn

LEMMA ClassifyKeeps ==
  ASSUME IInv, Classify
  PROVE  IInv'
<1> DEFINE head == Head(query.work)
           parts == Subcells(head.chunks)
           fates == FatesOf(query.filter, parts, head.depth, spans')
           sums == [i \in DOMAIN parts |-> IF fates[i] = "proven" THEN RowsOfCell(parts[i]) ELSE 0]
           rest == Tail(query.work) \o FlattenSeq(DividedOf(parts, fates, head.depth))
           bounds == query.boundary \o FlattenSeq(ScannedOf(parts, fates))
           more == query.proven + SumOf(sums)
<1>1. /\ query # NoQuery /\ query.kind = "count" /\ query.work # << >> /\ ~Rejects(query.filter) /\ ~SpansRaise
      /\ spans' = Extended(spans, [d \in PrunableDims |-> ChunkSpans(d)])
      /\ table' = table /\ fine' = fine
  BY DEF Classify
<1>2. query' = [query EXCEPT !.work = rest, !.proven = more, !.boundary = bounds]
  BY DEF Classify, FatesOf, DividedOf, ScannedOf
<1>3. UnderWay(query) /\ CountingFits(query) /\ Opened
  BY <1>1, CountUnderWay
<1>4. PICK q : q = query
  OBVIOUS
<1>5. PICK cache : cache = spans'
  OBVIOUS
<1>6. Spanned(cache)
  BY <1>1, <1>5 DEF Spanned, Extended, IInv, SpansCurrent
<1>7. PICK cell : cell = head
  OBVIOUS
<1>8. PICK subs : subs = parts
  OBVIOUS
<1>9. PICK kind : kind = fates
  OBVIOUS
<1>10. PICK proven : proven = sums
  OBVIOUS
<1>11. /\ cell = Head(q.work) /\ subs = Subcells(cell.chunks) /\ kind = FatesOf(q.filter, subs, cell.depth, cache)
       /\ proven = [i \in DOMAIN subs |-> IF kind[i] = "proven" THEN RowsOfCell(subs[i]) ELSE 0]
  BY <1>4, <1>5, <1>7, <1>8, <1>9, <1>10
<1>12. /\ rest = Tail(q.work) \o FlattenSeq(DividedOf(subs, kind, cell.depth))
       /\ bounds = q.boundary \o FlattenSeq(ScannedOf(subs, kind)) /\ more = q.proven + SumOf(proven)
  BY <1>4, <1>7, <1>8, <1>9, <1>10
<1>13. PICK w : w = rest
  OBVIOUS
<1>14. PICK p : p = more
  OBVIOUS
<1>15. PICK b : b = bounds
  OBVIOUS
<1>16. PICK r : r = [q EXCEPT !.work = w, !.proven = p, !.boundary = b]
  OBVIOUS
<1>17. query' = r
  BY <1>2, <1>4, <1>13, <1>14, <1>15, <1>16
<1> HIDE DEF head, parts, fates, sums, rest, bounds, more
<1>18. /\ r.work = w /\ r.proven = p /\ r.boundary = b /\ r.filter = q.filter /\ r.kept = q.kept
       /\ CountingFits(r) => QueryFits(r)
  <2>1. UnderWay(q)
    BY <1>3, <1>4
  <2>2. GoesOn(q, r, w, p, b)
    BY ONLY <1>16, <2>1, CountGoesOn
  <2> QED BY <2>2 DEF GoesOn
<1>19. /\ r.work = Tail(q.work) \o FlattenSeq(DividedOf(subs, kind, cell.depth))
       /\ r.boundary = q.boundary \o FlattenSeq(ScannedOf(subs, kind)) /\ r.proven = q.proven + SumOf(proven)
  BY ONLY <1>12, <1>13, <1>14, <1>15, <1>18
<1>20. CountingFits(q) /\ Opened /\ ~SpansRaise /\ q.work # << >> /\ ~Rejects(q.filter)
  BY <1>1, <1>3, <1>4
<1>21. CountingFits(r)
  BY ONLY <1>6, <1>11, <1>18, <1>19, <1>20, ClassifyFits
<1>22. QueryFits(r)
  BY <1>18, <1>21
<1> QED BY <1>1, <1>17, <1>22, NewQuery

LEMMA RaisesKeeps ==
  ASSUME IInv, ClassifyRaises
  PROVE  IInv'
<1>1. /\ query # NoQuery /\ query.kind = "count" /\ query.work # << >>
      /\ query' = [query EXCEPT !.proven = 0, !.boundary = Combos(query.kept), !.work = << >>]
      /\ table' = table /\ fine' = fine /\ spans' = spans
  BY DEF ClassifyRaises
<1>2. UnderWay(query) /\ CountingFits(query) /\ Opened
  BY <1>1, CountUnderWay
<1>3. PICK q : q = query
  OBVIOUS
<1>4. PICK b : b = Combos(q.kept)
  OBVIOUS
<1>5. PICK w : w = << >>
  OBVIOUS
<1>6. PICK r : r = [q EXCEPT !.work = w, !.proven = 0, !.boundary = b]
  OBVIOUS
<1>7. query' = r
  <2>1. [q EXCEPT !.proven = 0, !.boundary = b, !.work = w] = [q EXCEPT !.work = w, !.proven = 0, !.boundary = b]
    OBVIOUS
  <2> QED BY <1>1, <1>3, <1>4, <1>5, <1>6, <2>1
<1>8. /\ r.work = w /\ r.proven = 0 /\ r.boundary = b /\ r.filter = q.filter /\ r.kept = q.kept
      /\ CountingFits(r) => QueryFits(r)
  <2>1. UnderWay(q)
    BY <1>2, <1>3
  <2>2. PICK p : p = 0
    OBVIOUS
  <2>3. r = [q EXCEPT !.work = w, !.proven = p, !.boundary = b]
    BY <1>6, <2>2
  <2>4. GoesOn(q, r, w, p, b)
    BY ONLY <2>1, <2>3, CountGoesOn
  <2> QED BY <2>2, <2>4 DEF GoesOn
<1>9. CountingFits(r)
  BY <1>2, <1>3, <1>4, <1>5, <1>8, RaisesFits
<1> QED BY <1>1, <1>7, <1>8, <1>9, NewQuery

LEMMA EndCountKeeps ==
  ASSUME IInv, EndCount
  PROVE  IInv'
<1>1. PICK q : q = query
  OBVIOUS
<1>2. PICK scanned : scanned = [i \in DOMAIN q.boundary |-> CountTrue(q.filter, BlockForCombo(q.boundary[i]))]
  OBVIOUS
<1>3. PICK n : n = q.proven + SumOf(scanned)
  OBVIOUS
<1>4. /\ q # NoQuery /\ q.kind = "count" /\ q.work = << >> /\ ~q.answered
      /\ table' = table /\ fine' = fine /\ spans' = spans
  BY <1>1 DEF EndCount
<1>5. query' = [q EXCEPT !.answered = TRUE, !.answer = n]
  BY <1>1, <1>2, <1>3 DEF EndCount
<1>6. /\ CountFields \subseteq DOMAIN q /\ CountingFits(q) /\ Opened /\ q.filter \in Filters \cup {NoFilter}
  BY <1>1, <1>4, CountUnderWay DEF UnderWay
<1>7. n = Cardinality(TrueOf(q.filter))
  BY <1>2, <1>3, <1>4, <1>6, EndFits
<1>8. PICK r : r = [q EXCEPT !.answered = TRUE, !.answer = n]
  OBVIOUS
<1>9. DOMAIN r = DOMAIN q /\ {"kind", "filter", "work", "answered", "answer"} \subseteq DOMAIN q
  BY <1>6, <1>8 DEF CountFields
<1>10. r.answered = TRUE /\ r.answer = n /\ r.work = q.work /\ r.filter = q.filter /\ r.kind = q.kind
  BY <1>8, <1>9
<1>11. CountFits(r)
  BY <1>4, <1>6, <1>7, <1>9, <1>10 DEF CountFits
<1>12. r.kind # "scan"
  BY <1>4, <1>10
<1>13. QueryFits(r)
  BY <1>6, <1>9, <1>10, <1>11, <1>12 DEF QueryFits, QueryNamed
<1>14. query' = r
  BY <1>5, <1>8
<1> QED BY <1>4, <1>13, <1>14, NewQuery

LEMMA EndKeeps ==
  ASSUME IInv, ClassifyFails \/ Done
  PROVE  IInv'
<1>1. table' = table /\ fine' = fine /\ spans' = spans
  BY DEF ClassifyFails, Done
<1>2. CASE ClassifyFails
  <2>1. PICK q : q = Failed(query.filter)
    OBVIOUS
  <2>2. q.filter = query.filter /\ q.kind = "ValueError" /\ DOMAIN q = {"kind", "filter"}
    BY <2>1 DEF Failed
  <2>3. q.kind # "scan" /\ q.kind # "count" /\ query.filter \in Filters \cup {NoFilter}
    BY <1>2, <2>2 DEF ClassifyFails, IInv, QueryNamed
  <2>4. QueryFits(q) /\ query' = q
    BY <1>2, <2>1, <2>2, <2>3 DEF QueryFits, QueryNamed, ClassifyFails
  <2> QED BY <1>1, <2>4, NewQuery
<1>3. CASE Done
  <2>1. PICK q : q = NoQuery
    OBVIOUS
  <2>2. QueryFits(q) /\ query' = q
    BY <1>3, <2>1 DEF QueryFits, QueryNamed, Done
  <2> QED BY <1>1, <2>2, NewQuery
<1> QED BY <1>2, <1>3

LEMMA StepKeeps ==
  IInv /\ [Next]_vars => IInv'
<1> SUFFICES ASSUME IInv, [Next]_vars
             PROVE  IInv'
  OBVIOUS
<1>1. CASE \E f \in Bindable \cup {NoFilter} : Scan(f) \/ GetFragments(f) \/ CountRows(f)
  BY <1>1, ScanKeeps, CountKeeps
<1>2. CASE Classify \/ ClassifyRaises \/ EndCount
  BY <1>2, ClassifyKeeps, RaisesKeeps, EndCountKeeps
<1>3. CASE ClassifyFails \/ Done
  BY <1>3, EndKeeps
<1>4. CASE vars' = vars
  BY <1>4, QueryStays
<1> QED BY <1>1, <1>2, <1>3, <1>4 DEF Next

THEOREM Invariance ==
  Spec => []IInv
BY InitFits, StepKeeps, PTL DEF Spec

(* The query under way is about the dataset, and the caches of the shadows and *)
(* of the spans always hold what would be computed again: _DimShadow._fine and *)
(* _span_cache never go stale.                                                *)
THEOREM PushdownTypes ==
  Spec => []TypeOK
<1>1. IInv => TypeOK
  BY DEF IInv, Opened, ShadowsCurrent, SpansCurrent, QueryNamed, TypeOK
<1> QED BY <1>1, Invariance, PTL

(* Every scan, of whatever table and filter, reads each row at most once and   *)
(* every row on which the filter holds, with the columns the filter needs;    *)
(* merging reads no chunk that was pruned and no block over the limit but a   *)
(* single chunk.                                                              *)
THEOREM ScansAreExact ==
  Spec => []ScanIsExact
<1>1. IInv => ScanIsExact
  BY DEF IInv
<1> QED BY <1>1, Invariance, PTL

(* count_rows of whatever table and filter returns the number of rows on which *)
(* the filter holds: what it proves of a product of buckets, what it drops and *)
(* what it leaves to be scanned are together the rows that survive, each once, *)
(* also when the simplifier raises on the way and every survivor is scanned.   *)
THEOREM CountsAreExact ==
  Spec => []CountIsExact
<1>1. IInv => CountIsExact
  <2> SUFFICES ASSUME IInv, query # NoQuery, query.kind = "count", query.answered
               PROVE  query.answer = CountTrue(query.filter, WholeGrid(dataset))
    BY DEF CountIsExact
  <2>1. query.answer = Cardinality(TrueOf(query.filter))
    BY DEF IInv, CountsFit, CountFits
  <2> QED BY <2>1, TrueOfTable
<1> QED BY <1>1, Invariance, PTL
=============================================================================
