--------------------------- MODULE GridReaderProofs ---------------------------
(* Proofs about the chunk grid and its readers: both paths of the pivot give  *)
(* the rows of a block, the blocks of a table are its grid, and the streams   *)
(* and tables over them keep the invariants that GridReader states.           *)
EXTENDS GridReader, DataInduction

(* A dataset that has a coordinate for each of its dimensions.                *)
Indexed(ds) == IsDataset(ds) /\ DOMAIN ds.coords = DimsOf(ds)

LEMMA EnsuredDataset ==
  ASSUME NEW ds, IsDataset(ds)
  PROVE  LET whole == EnsureDefaultIndexes(ds) IN
         /\ Indexed(whole)
         /\ whole.dims = ds.dims /\ whole.vardims = ds.vardims /\ whole.size = ds.size
         /\ whole.chunks = ds.chunks /\ whole.encodings = ds.encodings
<1> DEFINE extra == [d \in DimsOf(ds) |-> [i \in 1 .. ds.size[d] |-> i - 1]]
           coords == Extended(ds.coords, extra)
           whole == EnsureDefaultIndexes(ds)
<1>1. whole = [ds EXCEPT !.coords = coords]
  BY DEF EnsureDefaultIndexes
<1>2. \A d \in DimsOf(ds) : ds.size[d] \in Nat
  BY DEF IsDataset, IsGrid
<1>3. DOMAIN coords = DimsOf(ds)
  BY DEF Extended, IsDataset
<1>4. ASSUME NEW d \in DimsOf(ds)
      PROVE  coords[d] \in Seq(Int) /\ Len(coords[d]) = ds.size[d]
  <2>1. CASE d \in DOMAIN ds.coords
    <3>1. coords[d] = ds.coords[d]
      BY <2>1 DEF Extended
    <3> QED BY <2>1, <3>1 DEF IsDataset
  <2>2. CASE d \notin DOMAIN ds.coords
    <3>1. coords[d] = extra[d]
      BY <2>2 DEF Extended
    <3>2. extra[d] = [i \in 1 .. ds.size[d] |-> i - 1]
      OBVIOUS
    <3> DEFINE q == [i \in 1 .. ds.size[d] |-> i - 1]
    <3>3. q \in [1 .. ds.size[d] -> Int]
      OBVIOUS
    <3>4. q \in Seq(Int) /\ Len(q) = ds.size[d]
      <4> HIDE DEF q
      <4> QED BY <1>2, <3>3
    <3> QED BY <3>1, <3>2, <3>4
  <2> QED BY <2>1, <2>2
<1> HIDE DEF extra, coords
<1>5. /\ whole.coords = coords
      /\ whole.dims = ds.dims /\ whole.vardims = ds.vardims /\ whole.size = ds.size
      /\ whole.chunks = ds.chunks /\ whole.encodings = ds.encodings /\ DOMAIN whole = DOMAIN ds
  BY <1>1 DEF IsDataset
<1> HIDE DEF whole
<1>6. DimsOf(whole) = DimsOf(ds)
  BY <1>5 DEF DimsOf
<1>7. IsDataset(whole)
  BY <1>3, <1>4, <1>5, <1>6 DEF IsDataset, IsGrid
<1>8. Indexed(whole)
  BY <1>3, <1>5, <1>6, <1>7 DEF Indexed
<1> QED BY <1>5, <1>8 DEF whole

-----------------------------------------------------------------------------
(* The cells of a block.                                                      *)
LEMMA DimNamesAreDims ==
  ASSUME NEW ds, IsGrid(ds), NEW columns
  PROVE  AreDims(ds.dims, ds) /\ AreDims(ds.vardims, ds) /\ AreDims(DimNames(ds, columns), ds)
BY DimsAreDims DEF DimNames

-----------------------------------------------------------------------------
(* Cutting a sequence into batches.                                           *)
LEMMA BatchedParts ==
  ASSUME NEW s, AnySeq(s), NEW n \in Nat \ {0}
  PROVE  /\ SeqOfSeqs(Batched(s, n)) /\ Len(Batched(s, n)) = CeilDiv(Len(s), n)
         /\ \A b \in 1 .. CeilDiv(Len(s), n) :
              /\ Len(Batched(s, n)[b]) = Smallest(b * n, Len(s)) - (b - 1) * n
              /\ Len(Batched(s, n)[b]) \in 1 .. n
              /\ \A i \in 1 .. Len(Batched(s, n)[b]) : Batched(s, n)[b][i] = s[(b - 1) * n + i]
         /\ FlattenSeq(Batched(s, n)) = s
<1> DEFINE c == CeilDiv(Len(s), n)
           parts == Batched(s, n)
           to(b) == Smallest(b * n, Len(s))
<1>1. Len(s) \in Nat /\ c \in Nat
  BY SequenceParts, Ceiling
<1>2. parts = [b \in 1 .. c |-> SubSeq(s, (b - 1) * n + 1, to(b))]
  BY DEF Batched
<1>3. AnySeq(parts) /\ Len(parts) = c
  <2> HIDE DEF c
  <2>1. DOMAIN parts = 1 .. c /\ parts = [b \in 1 .. c |-> parts[b]]
    BY <1>2
  <2> HIDE DEF parts
  <2> QED BY <1>1, <2>1, MadeSequence
<1> HIDE DEF parts, c, to
<1>4. ASSUME NEW b \in 1 .. c
      PROVE  /\ AnySeq(parts[b]) /\ Len(parts[b]) = to(b) - (b - 1) * n /\ Len(parts[b]) \in 1 .. n
             /\ \A i \in 1 .. Len(parts[b]) : parts[b][i] = s[(b - 1) * n + i]
  <2> DEFINE from == (b - 1) * n
  <2>1. from \in Nat /\ to(b) \in Nat /\ from < to(b) /\ to(b) - from \in 1 .. n
    BY <1>1, BatchEnds DEF c, to
  <2>2. parts[b] = SubSeq(s, from + 1, to(b))
    BY <1>2
  <2> HIDE DEF from
  <2>3. /\ AnySeq(SubSeq(s, from + 1, to(b))) /\ Len(SubSeq(s, from + 1, to(b))) = to(b) - from
        /\ \A i \in 1 .. to(b) - from : SubSeq(s, from + 1, to(b))[i] = s[from + i]
    BY <2>1, Slice
  <2>4. /\ AnySeq(parts[b]) /\ Len(parts[b]) = to(b) - from /\ Len(parts[b]) \in 1 .. n
        /\ \A i \in 1 .. Len(parts[b]) : parts[b][i] = s[from + i]
    BY <2>1, <2>2, <2>3
  <2> QED BY <2>4 DEF from
<1>5. SeqOfSeqs(parts)
  BY <1>3, <1>4 DEF SeqOfSeqs
<1> DEFINE flat == FlattenSeq(parts)
<1>6. PICK off : Placed(flat, parts, off)
  BY <1>5, FlattenPlaces
<1> HIDE DEF flat
<1> DEFINE ends == [b \in 0 .. c |-> IF b = 0 THEN 0 ELSE to(b)]
<1>7. \A b \in 1 .. c : ends[b - 1] = (b - 1) * n /\ ends[b] = to(b)
  <2> SUFFICES ASSUME NEW b \in 1 .. c PROVE ends[b - 1] = (b - 1) * n /\ ends[b] = to(b)
    OBVIOUS
  <2>1. b - 1 \in 0 .. c /\ b \in 0 .. c /\ b # 0 /\ b - 1 < c
    BY <1>1
  <2>2. CASE b = 1
    BY <2>1, <2>2
  <2>3. CASE b # 1
    <3>1. b - 1 \in 1 .. c
      BY <1>1, <2>3
    <3> DEFINE a == b - 1
    <3>2. a < c /\ a \in 1 .. c
      BY <2>1, <3>1
    <3> HIDE DEF a
    <3>3. to(a) = a * n
      BY <1>1, <3>2, BatchEnds DEF c, to
    <3> QED BY <2>1, <3>1, <3>3 DEF a
  <2> QED BY <2>2, <2>3
<1>8. \A b \in 0 .. c : off[b] = ends[b]
  <2>1. off[0] = ends[0]
    BY <1>1, <1>6 DEF Placed, Offsets
  <2>2. ASSUME NEW b \in 1 .. c, off[b - 1] = ends[b - 1]
        PROVE  off[b] = ends[b]
    <3>1. off[b] = off[b - 1] + Len(parts[b])
      BY <1>3, <1>6 DEF Placed, Offsets
    <3>2. ends[b - 1] = (b - 1) * n /\ ends[b] = to(b) /\ Len(parts[b]) = to(b) - (b - 1) * n
      BY <1>4, <1>7
    <3>3. (b - 1) * n \in Nat /\ to(b) \in Nat
      BY <1>1, BatchEnds DEF c, to
    <3> HIDE DEF ends
    <3> QED BY <2>2, <3>1, <3>2, <3>3
  <2>3. Agrees(off, ends, c)
    <3> HIDE DEF ends
    <3> QED BY <2>1, <2>2 DEF Agrees
  <2> HIDE DEF ends
  <2> QED BY <1>1, <2>3, AgreeAlong
<1>9. off[c] = Len(s)
  <2>1. CASE c = 0
    <3>1. off[c] = 0
      BY <1>1, <1>8, <2>1
    <3>2. Len(s) = 0
      <4>1. Len(s) <= c * n
        BY <1>1, Ceiling DEF c
      <4> QED BY <1>1, <2>1, <4>1
    <3> QED BY <3>1, <3>2
  <2>2. CASE c # 0
    <3>1. c \in 1 .. c /\ c \in 0 .. c
      BY <1>1, <2>2
    <3>2. to(c) = Len(s)
      BY <1>1, <3>1, BatchEnds DEF c, to
    <3> QED BY <1>7, <1>8, <3>1, <3>2
  <2> QED BY <2>1, <2>2
<1> HIDE DEF ends
<1>10. ASSUME NEW i \in 1 .. Len(flat)
       PROVE  flat[i] = s[i]
  <2>1. PICK b \in 1 .. c : \E j \in 1 .. Len(parts[b]) : i = off[b - 1] + j
    BY <1>3, <1>6 DEF Placed
  <2>2. PICK j \in 1 .. Len(parts[b]) : i = off[b - 1] + j
    BY <2>1
  <2>3. flat[i] = parts[b][j]
    BY <1>3, <1>6, <2>2 DEF Placed
  <2>4. off[b - 1] = (b - 1) * n
    <3>1. b - 1 \in 0 .. c
      BY <1>1
    <3> QED BY <1>7, <1>8, <3>1
  <2>5. parts[b][j] = s[(b - 1) * n + j]
    BY <1>4
  <2> QED BY <2>2, <2>3, <2>4, <2>5
<1>11. AnySeq(flat) /\ Len(flat) = Len(s)
  BY <1>3, <1>6, <1>9 DEF Placed
<1>12. flat = s
  BY <1>10, <1>11, SameSequence
<1> QED BY <1>3, <1>4, <1>5, <1>12 DEF flat, parts, c, to

-----------------------------------------------------------------------------
(* The pivot. A coordinate column repeats and tiles, or is indexed.           *)
LEMMA RepeatParts ==
  ASSUME NEW s, AnySeq(s), NEW n \in Nat
  PROVE  /\ AnySeq(Repeat(s, n)) /\ Len(Repeat(s, n)) = Len(s) * n
         /\ \A a \in 1 .. Len(s) : \A b \in 1 .. n : Repeat(s, n)[(a - 1) * n + b] = s[a]
<1> DEFINE part(i) == [j \in 1 .. n |-> s[i]]
           parts == [i \in DOMAIN s |-> part(i)]
<1>1. Len(s) \in Nat /\ DOMAIN s = 1 .. Len(s)
  BY SequenceParts
<1>2. \A i \in 1 .. Len(s) : AnySeq(part(i)) /\ Len(part(i)) = n /\ \A j \in 1 .. n : part(i)[j] = s[i]
  <2> SUFFICES ASSUME NEW i \in 1 .. Len(s)
               PROVE  AnySeq(part(i)) /\ Len(part(i)) = n /\ \A j \in 1 .. n : part(i)[j] = s[i]
    OBVIOUS
  <2> DEFINE q == part(i)
  <2>1. DOMAIN q = 1 .. n /\ q = [j \in 1 .. n |-> q[j]] /\ \A j \in 1 .. n : q[j] = s[i]
    OBVIOUS
  <2> HIDE DEF q
  <2>2. AnySeq(q) /\ Len(q) = n
    BY <2>1, MadeSequence
  <2> QED BY <2>1, <2>2 DEF q
<1>3. AnySeq(parts) /\ Len(parts) = Len(s) /\ \A i \in 1 .. Len(s) : parts[i] = part(i)
  <2> HIDE DEF part
  <2>1. DOMAIN parts = 1 .. Len(s) /\ parts = [i \in 1 .. Len(s) |-> parts[i]]
        /\ \A i \in 1 .. Len(s) : parts[i] = part(i)
    BY <1>1
  <2> HIDE DEF parts
  <2> QED BY <1>1, <2>1, MadeSequence
<1>4. Repeat(s, n) = FlattenSeq(parts)
  BY DEF Repeat
<1> HIDE DEF part, parts
<1>5. Uniform(FlattenSeq(parts), parts, n)
  <2>1. SeqOfSeqs(parts) /\ \A i \in 1 .. Len(parts) : Len(parts[i]) = n
    BY <1>2, <1>3 DEF SeqOfSeqs
  <2> QED BY <2>1, UniformPlaces
<1> DEFINE flat == FlattenSeq(parts)
<1> HIDE DEF flat
<1>6. Uniform(flat, parts, n)
  BY <1>5 DEF flat
<1>7. /\ AnySeq(flat) /\ Len(flat) = Len(s) * n
      /\ \A a \in 1 .. Len(s) : \A b \in 1 .. n : flat[(a - 1) * n + b] = parts[a][b]
  BY <1>3, <1>6 DEF Uniform
<1>8. \A a \in 1 .. Len(s) : \A b \in 1 .. n : flat[(a - 1) * n + b] = s[a]
  <2> SUFFICES ASSUME NEW a \in 1 .. Len(s), NEW b \in 1 .. n
               PROVE  flat[(a - 1) * n + b] = s[a]
    OBVIOUS
  <2>1. parts[a] = part(a) /\ part(a)[b] = s[a]
    BY <1>2, <1>3
  <2>2. flat[(a - 1) * n + b] = parts[a][b]
    BY <1>7
  <2> QED BY <2>1, <2>2
<1> QED BY <1>4, <1>7, <1>8 DEF flat

LEMMA TileParts ==
  ASSUME NEW s, AnySeq(s), NEW n \in Nat
  PROVE  /\ AnySeq(Tile(s, n)) /\ Len(Tile(s, n)) = n * Len(s)
         /\ \A t \in 1 .. n : \A u \in 1 .. Len(s) : Tile(s, n)[(t - 1) * Len(s) + u] = s[u]
<1> DEFINE parts == [i \in 1 .. n |-> s]
<1>1. Len(s) \in Nat
  BY SequenceParts
<1>2. AnySeq(parts) /\ Len(parts) = n /\ \A i \in 1 .. n : parts[i] = s
  <2>1. DOMAIN parts = 1 .. n /\ parts = [i \in 1 .. n |-> parts[i]] /\ \A i \in 1 .. n : parts[i] = s
    OBVIOUS
  <2> HIDE DEF parts
  <2> QED BY <2>1, MadeSequence
<1>3. Tile(s, n) = FlattenSeq(parts)
  BY DEF Tile
<1> HIDE DEF parts
<1>4. Uniform(FlattenSeq(parts), parts, Len(s))
  <2>1. SeqOfSeqs(parts) /\ \A i \in 1 .. Len(parts) : Len(parts[i]) = Len(s)
    BY <1>2 DEF SeqOfSeqs
  <2> QED BY <1>1, <2>1, UniformPlaces
<1> DEFINE flat == FlattenSeq(parts)
<1> HIDE DEF flat
<1>5. Uniform(flat, parts, Len(s))
  BY <1>4 DEF flat
<1>6. AnySeq(flat) /\ Len(flat) = n * Len(s)
  BY <1>2, <1>5 DEF Uniform
<1>7. \A t \in 1 .. n : \A u \in 1 .. Len(s) : flat[(t - 1) * Len(s) + u] = parts[t][u]
  BY <1>2, <1>5 DEF Uniform
<1>8. \A t \in 1 .. n : \A u \in 1 .. Len(s) : flat[(t - 1) * Len(s) + u] = s[u]
  BY <1>2, <1>7
<1> QED BY <1>3, <1>6, <1>8 DEF flat

LEMMA StrideIsStride ==
  ASSUME NEW N \in Nat, NEW shape \in [1 .. N -> Nat], NEW st, st = ShapeStrides(shape, N),
         NEW k \in 1 .. N
  PROVE  /\ Stride(shape, k) = st[k][N] /\ Product(SubSeq(shape, 1, k - 1)) = st[0][k - 1]
         /\ Product(shape) = st[0][N]
<1>1. k \in 0 .. N /\ N \in 0 .. N /\ 0 \in 0 .. N /\ k - 1 \in 0 .. N /\ 0 + 1 = 1
  OBVIOUS
<1>2. shape \in Seq(Nat) /\ Len(shape) = N
  OBVIOUS
<1>3. st[k][N] = Product(SubSeq(shape, k + 1, N))
  BY <1>1 DEF ShapeStrides
<1>4. st[0][k - 1] = Product(SubSeq(shape, 1, k - 1)) /\ st[0][N] = Product(SubSeq(shape, 1, N))
  BY <1>1 DEF ShapeStrides
<1>5. SubSeq(shape, 1, N) = shape
  BY <1>2
<1> QED BY <1>2, <1>3, <1>4, <1>5 DEF Stride

LEMMA FullColumnDigit ==
  ASSUME NEW N \in Nat, NEW shape \in [1 .. N -> Nat], NEW st, st = ShapeStrides(shape, N),
         NEW k \in 1 .. N, NEW coord, AnySeq(coord), Len(coord) = shape[k], NEW p \in 1 .. st[0][N]
  PROVE  FullColumn(coord, shape, k)[p] = coord[Digit(p, st, shape, k, N)]
<1> DEFINE S == st[k][N]
           outer == st[0][k - 1]
           n == shape[k]
           col == Repeat(coord, S)
           m == Len(col)
<1>1. Strides(st, shape, N)
  BY StridesOfShape
<1>2. S \in Nat /\ outer \in Nat /\ n \in Nat
  <2>1. k \in 0 .. N /\ N \in 0 .. N /\ 0 \in 0 .. N /\ k - 1 \in 0 .. N
    OBVIOUS
  <2> QED BY <1>1, <2>1 DEF Strides
<1>3. st[0][N] = (outer * n) * S
  BY <1>1, StridesMultiply
<1>4. FullColumn(coord, shape, k) = IF outer > 1 THEN Tile(col, outer) ELSE col
  BY StrideIsStride DEF FullColumn
<1> HIDE DEF S, outer, n
<1>5. AnySeq(col) /\ m = n * S
      /\ \A a \in 1 .. n : \A b \in 1 .. S : col[(a - 1) * S + b] = coord[a]
  <2>1. AnySeq(coord) /\ S \in Nat /\ Len(coord) = n
    BY <1>2 DEF n
  <2> QED BY <2>1, RepeatParts
<1> HIDE DEF col
<1>6. \E t \in 1 .. outer, a \in 1 .. n, b \in 1 .. S :
        p = (((t - 1) * n + (a - 1)) * S) + b
  <2> DEFINE x == p - 1
             y == x \div S
             z == y \div n
  <2>1. p \in Nat \ {0} /\ p <= (outer * n) * S
    <3>1. (outer * n) * S \in Nat
      BY <1>2
    <3> QED BY <1>3, <3>1
  <2>2. S # 0 /\ n # 0
    <3>1. outer * n \in Nat /\ outer * 0 = 0 /\ (outer * n) * 0 = 0 /\ 0 * S = 0
      BY <1>2
    <3> QED BY <2>1, <3>1
  <2>3. y \in Nat /\ x % S \in 0 .. S - 1 /\ x = y * S + (x % S) /\ x \in Nat
    <3>1. x \in Nat
      BY <2>1
    <3> HIDE DEF x
    <3> QED BY <1>2, <2>2, <3>1, QuotientAndRest
  <2>4. z \in Nat /\ y % n \in 0 .. n - 1 /\ y = z * n + (y % n)
    <3> HIDE DEF y
    <3> QED BY <1>2, <2>2, <2>3, QuotientAndRest
  <2> HIDE DEF y, z
  <2>5. z < outer
    <3> SUFFICES ASSUME outer <= z PROVE FALSE
      BY <1>2, <2>4
    <3>1. outer * n <= z * n /\ outer * n \in Nat /\ z * n \in Nat
      BY <1>2, <2>4
    <3>2. outer * n <= y
      <4> DEFINE u == z * n
                 v == outer * n
                 r == y % n
      <4>1. u \in Nat /\ v \in Nat /\ v <= u /\ r \in Nat /\ y = u + r
        BY <1>2, <2>4, <3>1
      <4> HIDE DEF u, v, r
      <4>2. v <= y
        BY <2>3, <4>1
      <4> QED BY <4>2 DEF v
    <3>3. (outer * n) * S <= y * S /\ y * S <= x
      <4> DEFINE u == outer * n
      <4>1. u \in Nat /\ u <= y
        BY <3>1, <3>2
      <4> HIDE DEF u
      <4>2. u * S <= y * S /\ y * S \in Nat
        BY <1>2, <2>3, <4>1
      <4> QED BY <2>3, <4>2 DEF u
    <3>4. (outer * n) * S \in Nat /\ y * S \in Nat
      BY <1>2, <2>3
    <3> QED BY <2>1, <2>3, <3>3, <3>4
  <2> DEFINE t == z + 1
             a == (y % n) + 1
             b == (x % S) + 1
  <2>6. t \in 1 .. outer /\ a \in 1 .. n /\ b \in 1 .. S
    <3>1. t \in 1 .. outer
      BY <1>2, <2>4, <2>5
    <3>2. a \in 1 .. n
      <4> DEFINE u == y % n
      <4>1. u \in 0 .. n - 1 /\ n \in Nat
        BY <1>2, <2>4
      <4> HIDE DEF u
      <4>2. u + 1 \in 1 .. n
        BY <4>1
      <4> QED BY <4>2 DEF u
    <3>3. b \in 1 .. S
      BY <1>2, <2>3
    <3> QED BY <3>1, <3>2, <3>3
  <2>7. t - 1 = z /\ a - 1 = y % n /\ p = x + 1
    BY <2>1, <2>3, <2>4
  <2>8. y = (t - 1) * n + (a - 1)
    BY <2>4, <2>7
  <2>9. y * S \in Nat /\ x % S \in Nat
    BY <1>2, <2>3
  <2>10. p = (y * S) + b
    <3> DEFINE u == y * S
               v == x % S
    <3>1. u \in Nat /\ v \in Nat /\ x = u + v /\ p = x + 1 /\ b = v + 1
      BY <2>3, <2>7, <2>9
    <3> HIDE DEF u, v, x, b
    <3>2. p = u + b
      BY <3>1
    <3> QED BY <3>2 DEF u
  <2>11. p = (((t - 1) * n + (a - 1)) * S) + b
    BY <2>8, <2>10
  <2> HIDE DEF t, a, b
  <2> QED BY <2>6, <2>11
<1>7. PICK t \in 1 .. outer, a \in 1 .. n, b \in 1 .. S : p = (((t - 1) * n + (a - 1)) * S) + b
  BY <1>6
<1>8. Digit(p, st, shape, k, N) = a
  <2> DEFINE y == (t - 1) * n + (a - 1)
             u == t - 1
             v == a - 1
             w == b - 1
  <2>1. u \in Nat /\ n \in Nat \ {0} /\ v \in 0 .. n - 1 /\ S \in Nat \ {0} /\ w \in 0 .. S - 1
    BY <1>2
  <2>2. y = u * n + v
    OBVIOUS
  <2>3. y \in Nat /\ y % n = v
    <3> HIDE DEF u, v, y
    <3>1. u * n + v \in Nat /\ (u * n + v) % n = v
      BY <2>1, Quotient
    <3> QED BY <2>2, <3>1
  <2> HIDE DEF y
  <2>4. p - 1 = y * S + w
    <3>1. y * S \in Nat
      BY <1>2, <2>3
    <3>2. p = (y * S) + b
      BY <1>7 DEF y
    <3> QED BY <3>1, <3>2
  <2>5. (p - 1) \div S = y
    <3> HIDE DEF w
    <3>1. (y * S + w) \div S = y
      BY <2>1, <2>3, Quotient
    <3> QED BY <2>4, <3>1
  <2>6. Digit(p, st, shape, k, N) = (y % n) + 1
    BY <2>5 DEF Digit, S, n
  <2> QED BY <2>3, <2>6
<1>9. col[(a - 1) * S + b] = coord[a]
  BY <1>5
<1> DEFINE u == (a - 1) * S + b
<1>10. u \in 1 .. m /\ p = (t - 1) * m + u
  <2>1. a - 1 \in Nat /\ t - 1 \in Nat /\ n \in Nat /\ S \in Nat /\ a <= n
    BY <1>2
  <2>2. a * S <= n * S /\ a * S = (a - 1) * S + S /\ (a - 1) * S \in Nat /\ n * S \in Nat
    BY <2>1
  <2>3. ((t - 1) * n + (a - 1)) * S = (t - 1) * (n * S) + (a - 1) * S
    <3> DEFINE i == t - 1
               j == a - 1
    <3>1. i \in Nat /\ j \in Nat
      BY <2>1
    <3> HIDE DEF i, j
    <3>2. (i * n + j) * S = i * (n * S) + j * S
      BY <2>1, <3>1
    <3> QED BY <3>2 DEF i, j
  <2>4. (t - 1) * (n * S) \in Nat
    BY <2>1, <2>2
  <2>5. m = n * S /\ b \in 1 .. S
    BY <1>5
  <2>6. u \in 1 .. m
    <3> DEFINE i == (a - 1) * S
               j == n * S
               l == a * S
    <3>1. i \in Nat /\ j \in Nat
      BY <2>2
    <3>2. l <= j /\ l = i + S
      BY <2>2
    <3>3. u = i + b
      BY DEF u
    <3>4. m = j
      BY <2>5
    <3> HIDE DEF i, j, l, u
    <3> QED BY <2>1, <2>5, <3>1, <3>2, <3>3, <3>4
  <2>7. p = (t - 1) * m + u
    <3> DEFINE i == (a - 1) * S
               j == (t - 1) * (n * S)
    <3>1. i \in Nat /\ j \in Nat /\ u = i + b /\ p = (j + i) + b /\ (t - 1) * m = j
      BY <1>7, <2>2, <2>3, <2>4, <2>5
    <3> HIDE DEF i, j, u
    <3>2. p = j + u
      BY <2>5, <3>1
    <3> QED BY <3>1, <3>2
  <2> QED BY <2>6, <2>7
<1> HIDE DEF u
<1>11. FullColumn(coord, shape, k)[p] = coord[a]
  <2>1. CASE outer > 1
    <3>1. \A i \in 1 .. outer : \A j \in 1 .. m : Tile(col, outer)[(i - 1) * m + j] = col[j]
      BY <1>2, <1>5, TileParts
    <3>2. Tile(col, outer)[p] = col[u]
      BY <1>10, <3>1
    <3> QED BY <1>4, <1>9, <2>1, <3>2 DEF u
  <2>2. CASE ~(outer > 1)
    <3>1. t = 1
      BY <1>2, <2>2
    <3>2. p = u
      <4>1. m \in Nat
        BY <1>2, <1>5
      <4> QED BY <1>10, <3>1, <4>1
    <3> QED BY <1>4, <1>9, <2>2, <3>2 DEF u
  <2> QED BY <2>1, <2>2
<1> QED BY <1>8, <1>11

-----------------------------------------------------------------------------
(* The rows of a block, and its record batches.                               *)
RowOf(ds, c, columns) == [x \in columns |-> IF x = DataVar THEN c ELSE ds.coords[x][c[x] + 1]]

RowsOfCells(rows, cells, ds, columns) ==
  /\ AnySeq(rows) /\ Len(rows) = Len(cells)
  /\ \A i \in 1 .. Len(cells) : rows[i] = RowOf(ds, cells[i], columns)

LEMMA BlockRows ==
  ASSUME NEW ds, IsGrid(ds), NEW block, IsBlock(ds, block), NEW columns
  PROVE  LET cells == Ravel(ds, block, DimNames(ds, columns)) IN
         /\ AnySeq(cells) /\ Distinct(cells)
         /\ RowsOfCells(DatasetToRecordBatch(ds, block, columns), cells, ds, columns)
<1> DEFINE names == DimNames(ds, columns)
           cells == Ravel(ds, block, names)
           rows == DatasetToRecordBatch(ds, block, columns)
<1>1. AreDims(names, ds)
  BY DimNamesAreDims
<1>2. AnySeq(cells) /\ Distinct(cells)
  BY <1>1, RavelCells DEF RaveledCells
<1>3. Len(cells) \in Nat /\ DOMAIN cells = 1 .. Len(cells)
  BY <1>2, SequenceParts
<1>4. rows = [i \in DOMAIN cells |->
               [c \in columns |-> IF c = DataVar THEN cells[i] ELSE ds.coords[c][cells[i][c] + 1]]]
  BY DEF DatasetToRecordBatch
<1> HIDE DEF cells
<1>5. rows = [i \in 1 .. Len(cells) |-> RowOf(ds, cells[i], columns)]
  BY <1>3, <1>4 DEF RowOf
<1> HIDE DEF rows
<1>6. /\ DOMAIN rows = 1 .. Len(cells) /\ rows = [i \in 1 .. Len(cells) |-> rows[i]]
      /\ \A i \in 1 .. Len(cells) : rows[i] = RowOf(ds, cells[i], columns)
  BY <1>5
<1>7. AnySeq(rows) /\ Len(rows) = Len(cells)
  BY <1>3, <1>6, MadeSequence
<1> QED BY <1>2, <1>6, <1>7 DEF RowsOfCells, rows, cells

(* A coordinate column of a block, by the digits of a row's place.            *)
LEMMA CoordOfCell ==
  ASSUME NEW ds, IsDataset(ds), NEW block, IsBlock(ds, block), NEW names, AreDims(names, ds),
         NEW shape, shape = Shape(ds, block, names), NEW st, st = ShapeStrides(shape, Len(names)),
         NEW k \in 1 .. Len(names)
  PROVE  /\ AnySeq(BlockCoord(ds, block, names[k])) /\ Len(BlockCoord(ds, block, names[k])) = shape[k]
         /\ \A p \in 1 .. st[0][Len(names)] :
              BlockCoord(ds, block, names[k])[Digit(p, st, shape, k, Len(names))]
                = ds.coords[names[k]][Ravel(ds, block, names)[p][names[k]] + 1]
<1> DEFINE N == Len(names)
           d == names[k]
           from == First(ds, block, d)
           to == from + Len1(ds, block, d)
           cells == Ravel(ds, block, names)
<1>1. IsGrid(ds)
  BY DEF IsDataset
<1>2. N \in Nat /\ d \in DimsOf(ds) /\ shape[k] = Len1(ds, block, d) /\ Strides(st, shape, N)
  BY <1>1, ShapeParts
<1>3. from \in Nat /\ Len1(ds, block, d) \in Nat
  BY <1>1, <1>2, BlockExtent
<1>4. RaveledCells(cells, ds, block, names, shape, st)
  BY <1>1, RavelCells
<1> HIDE DEF cells
<1> DEFINE coord == BlockCoord(ds, block, d)
<1>5. coord = SubSeq(ds.coords[d], from + 1, to)
  BY DEF BlockCoord
<1> HIDE DEF coord
<1>6. /\ AnySeq(coord) /\ Len(coord) = shape[k]
      /\ \A i \in 1 .. shape[k] : coord[i] = ds.coords[d][from + i]
  <2> DEFINE s == ds.coords[d]
             n == Len1(ds, block, d)
  <2>1. to \in Nat /\ from <= to /\ to - from = n
    BY <1>3
  <2> HIDE DEF s, n, from, to
  <2>2. /\ AnySeq(SubSeq(s, from + 1, to)) /\ Len(SubSeq(s, from + 1, to)) = to - from
        /\ \A i \in 1 .. to - from : SubSeq(s, from + 1, to)[i] = s[from + i]
    BY <1>3, <2>1, Slice
  <2>3. coord = SubSeq(s, from + 1, to) /\ shape[k] = n
    BY <1>2, <1>5 DEF s, n
  <2> QED BY <2>1, <2>2, <2>3 DEF s
<1>7. ASSUME NEW p \in 1 .. st[0][N]
      PROVE  coord[Digit(p, st, shape, k, N)] = ds.coords[d][cells[p][d] + 1]
  <2>1. Digit(p, st, shape, k, N) \in 1 .. shape[k]
    BY <1>2, DigitsTell
  <2>2. Len(cells) = st[0][N] /\ cells[p][d] = (from + Digit(p, st, shape, k, N)) - 1
    BY <1>4 DEF RaveledCells
  <2> DEFINE g == Digit(p, st, shape, k, N)
  <2> HIDE DEF g
  <2>3. g \in 1 .. shape[k] /\ shape[k] \in Nat /\ cells[p][d] = (from + g) - 1
    BY <1>2, <1>3, <2>1, <2>2 DEF g
  <2>4. cells[p][d] + 1 = from + g
    BY <1>3, <2>3
  <2>5. coord[g] = ds.coords[d][from + g]
    BY <1>6, <2>3
  <2> QED BY <2>4, <2>5 DEF g
<1> QED BY <1>6, <1>7 DEF coord, cells

(* The batches of a block are its rows, cut; the two paths of the pivot agree. *)
THEOREM IterIsBatched ==
  ASSUME NEW ds, IsDataset(ds), NEW block, IsBlock(ds, block), NEW columns \in SUBSET Columns(ds),
         NEW n \in Nat \ {0}
  PROVE  IterRecordBatches(ds, block, columns, n) = Batched(DatasetToRecordBatch(ds, block, columns), n)
<1> DEFINE names == DimNames(ds, columns)
           N == Len(names)
           shape == Shape(ds, block, names)
           st == ShapeStrides(shape, N)
           axis(c) == CHOOSE k \in DOMAIN names : names[k] = c
           total == Product(shape)
           cells == Ravel(ds, block, names)
           rows == DatasetToRecordBatch(ds, block, columns)
           full == [c \in columns |-> IF c = DataVar THEN cells
                                      ELSE FullColumn(BlockCoord(ds, block, c), shape, axis(c))]
           slice(s, from, to) == SubSeq(s, from + 1, to)
           col(c, from, to) == IF total <= FullPivotMaxRows THEN slice(full[c], from, to)
                               ELSE IF c = DataVar THEN slice(cells, from, to)
                               ELSE StridedColumn(BlockCoord(ds, block, c), shape, axis(c), from, to)
           cols(from, to) == [c \in columns |-> col(c, from, to)]
           batch(from, to) == [i \in 1 .. to - from |-> [c \in columns |-> cols(from, to)[c][i]]]
           begin(b) == (b - 1) * n
           end(b) == Smallest(b * n, total)
<1>1. IsGrid(ds) /\ AreDims(names, ds)
  BY DimNamesAreDims DEF IsDataset
<1>2. /\ N \in Nat /\ DOMAIN names = 1 .. N /\ (\A d \in DimsOf(ds) : \E k \in 1 .. N : d = names[k])
      /\ shape \in [1 .. N -> Nat] /\ Strides(st, shape, N)
  BY <1>1, ShapeParts
<1>3. AnySeq(cells) /\ RowsOfCells(rows, cells, ds, columns)
  BY <1>1, BlockRows
<1>4. Len(cells) = st[0][N]
  BY <1>1, RavelCells DEF RaveledCells
<1>5. total = st[0][N] /\ total \in Nat /\ Len(rows) = total
  <2>1. Len(cells) \in Nat /\ Len(rows) = Len(cells)
    BY <1>3, SequenceParts DEF RowsOfCells
  <2>2. total = st[0][N]
    <3>1. CASE N = 0
      <4>1. total = 1
        <5>1. PICK f \in [0 .. N -> Nat] : Products(f, N, shape) /\ Product(shape) = f[N]
          BY <1>2, ProductFold
        <5> QED BY <3>1, <5>1 DEF Products
      <4>2. st[0][N] = 1
        BY <1>2, <3>1 DEF Strides
      <4> QED BY <4>1, <4>2
    <3>2. CASE N # 0
      <4>1. 1 \in 1 .. N
        BY <1>2, <3>2
      <4> QED BY <1>2, <4>1, StrideIsStride
    <3> QED BY <3>1, <3>2
  <2> QED BY <1>4, <2>1, <2>2
<1>6. IterRecordBatches(ds, block, columns, n)
        = [b \in 1 .. CeilDiv(total, n) |-> batch(begin(b), end(b))]
  BY DEF IterRecordBatches, Shape
<1> HIDE DEF total, cells, rows, full
<1>7. ASSUME NEW c \in columns, c # DataVar
      PROVE  /\ axis(c) \in 1 .. N /\ names[axis(c)] = c
             /\ \A p \in 1 .. total :
                  /\ BlockCoord(ds, block, c)[Digit(p, st, shape, axis(c), N)] = rows[p][c]
                  /\ FullColumn(BlockCoord(ds, block, c), shape, axis(c))[p] = rows[p][c]
  <2>1. c \in DimsOf(ds)
    BY <1>7 DEF Columns, IsDataset
  <2>2. axis(c) \in 1 .. N /\ names[axis(c)] = c
    <3> HIDE DEF names, N
    <3> QED BY <1>2, <2>1
  <2> DEFINE k == axis(c)
  <2> HIDE DEF axis
  <2>3. /\ AnySeq(BlockCoord(ds, block, names[k])) /\ Len(BlockCoord(ds, block, names[k])) = shape[k]
        /\ \A p \in 1 .. st[0][N] :
             BlockCoord(ds, block, names[k])[Digit(p, st, shape, k, N)]
               = ds.coords[names[k]][cells[p][names[k]] + 1]
    BY <1>1, <2>2, CoordOfCell DEF cells
  <2>4. ASSUME NEW p \in 1 .. total
        PROVE  /\ BlockCoord(ds, block, c)[Digit(p, st, shape, k, N)] = rows[p][c]
               /\ FullColumn(BlockCoord(ds, block, c), shape, k)[p] = rows[p][c]
    <3>1. rows[p] = RowOf(ds, cells[p], columns)
      BY <1>3, <1>4, <1>5 DEF RowsOfCells
    <3>2. rows[p][c] = ds.coords[c][cells[p][c] + 1]
      BY <1>7, <3>1 DEF RowOf
    <3> HIDE DEF names, N, shape, st
    <3>3. BlockCoord(ds, block, c)[Digit(p, st, shape, k, N)] = rows[p][c]
      BY <1>5, <2>2, <2>3, <3>2
    <3>4. FullColumn(BlockCoord(ds, block, c), shape, k)[p]
            = BlockCoord(ds, block, c)[Digit(p, st, shape, k, N)]
      <4> DEFINE coord == BlockCoord(ds, block, c)
      <4>1. AnySeq(coord) /\ Len(coord) = shape[k]
        BY <2>2, <2>3
      <4>2. p \in 1 .. st[0][N] /\ k \in 1 .. N /\ st = ShapeStrides(shape, N)
        BY <1>5, <2>2 DEF st
      <4> HIDE DEF coord, k
      <4>3. FullColumn(coord, shape, k)[p] = coord[Digit(p, st, shape, k, N)]
        BY <1>2, <4>1, <4>2, FullColumnDigit
      <4> QED BY <4>3 DEF coord
    <3> QED BY <3>3, <3>4
  <2> QED BY <2>2, <2>4
<1>8. ASSUME DataVar \in columns, NEW p \in 1 .. total
      PROVE  cells[p] = rows[p][DataVar]
  BY <1>3, <1>4, <1>5, <1>8 DEF RowsOfCells, RowOf
<1>9. ASSUME NEW from \in Nat, NEW to \in Nat, from <= to, to <= total
      PROVE  batch(from, to) = SubSeq(rows, from + 1, to)
  <2>1. \A s : \A i \in 1 .. to - from : slice(s, from, to)[i] = s[from + i]
    BY <1>9, Slice
  <2>2. \A i \in 1 .. to - from : from + i \in 1 .. total
    BY <1>5, <1>9
  <2>3. ASSUME NEW c \in columns, NEW i \in 1 .. to - from
        PROVE  col(c, from, to)[i] = rows[from + i][c]
    <3>1. CASE c = DataVar
      <4>1. full[c] = cells
        BY <3>1 DEF full
      <4>2. col(c, from, to) = slice(cells, from, to)
        BY <3>1, <4>1
      <4> HIDE DEF slice, col
      <4> QED BY <1>8, <2>1, <2>2, <3>1, <4>2
    <3>2. CASE c # DataVar
      <4> DEFINE coord == BlockCoord(ds, block, c)
                 k == axis(c)
      <4>1. /\ k \in 1 .. N
            /\ coord[Digit(from + i, st, shape, k, N)] = rows[from + i][c]
            /\ FullColumn(coord, shape, k)[from + i] = rows[from + i][c]
        BY <1>7, <2>2, <3>2
      <4>2. Stride(shape, k) = st[k][N]
        BY <1>2, <4>1, StrideIsStride
      <4>3. StridedColumn(coord, shape, k, from, to)[i]
              = coord[(((from + i - 1) \div Stride(shape, k)) % shape[k]) + 1]
        BY DEF StridedColumn
      <4>4. from + i - 1 = (from + i) - 1
        OBVIOUS
      <4>5. StridedColumn(coord, shape, k, from, to)[i] = rows[from + i][c]
        BY <4>1, <4>2, <4>3, <4>4 DEF Digit
      <4>6. full[c] = FullColumn(coord, shape, k)
        BY <3>2 DEF full
      <4> HIDE DEF slice, axis, coord, k
      <4>7. slice(full[c], from, to)[i] = rows[from + i][c]
        BY <2>1, <4>1, <4>6
      <4>8. col(c, from, to) = IF total <= FullPivotMaxRows THEN slice(full[c], from, to)
                               ELSE StridedColumn(coord, shape, k, from, to)
        BY <3>2 DEF coord, k
      <4> HIDE DEF col
      <4> QED BY <4>5, <4>7, <4>8
    <3> QED BY <3>1, <3>2
  <2> DEFINE q == batch(from, to)
             r == SubSeq(rows, from + 1, to)
  <2>4. AnySeq(r) /\ Len(r) = to - from /\ \A i \in 1 .. to - from : r[i] = rows[from + i]
    BY <1>9, Slice
  <2>5. \A i \in 1 .. to - from : q[i] = [c \in columns |-> rows[from + i][c]]
    <3> SUFFICES ASSUME NEW i \in 1 .. to - from
                 PROVE  q[i] = [c \in columns |-> rows[from + i][c]]
      OBVIOUS
    <3>1. \A c \in columns : cols(from, to)[c] = col(c, from, to)
      OBVIOUS
    <3>2. q[i] = [c \in columns |-> cols(from, to)[c][i]]
      OBVIOUS
    <3> HIDE DEF q, cols, col
    <3> QED BY <2>3, <3>1, <3>2
  <2>6. \A i \in 1 .. to - from : rows[from + i] = [c \in columns |-> rows[from + i][c]]
    <3> SUFFICES ASSUME NEW i \in 1 .. to - from
                 PROVE  rows[from + i] = [c \in columns |-> rows[from + i][c]]
      OBVIOUS
    <3>1. rows[from + i] = RowOf(ds, cells[from + i], columns)
      BY <1>3, <1>4, <1>5, <2>2 DEF RowsOfCells
    <3> QED BY <3>1 DEF RowOf
  <2>7. DOMAIN q = 1 .. to - from /\ q = [i \in 1 .. to - from |-> q[i]] /\ to - from \in Nat
    BY <1>9
  <2> HIDE DEF q, r
  <2>8. AnySeq(q) /\ Len(q) = to - from
    BY <2>7, MadeSequence
  <2>9. q = r
    BY <2>4, <2>5, <2>6, <2>8, SameSequence
  <2> QED BY <2>9 DEF q, r
<1> HIDE DEF batch
<1>10. Batched(rows, n) = [b \in 1 .. CeilDiv(total, n) |-> SubSeq(rows, begin(b) + 1, end(b))]
  BY <1>5 DEF Batched
<1>11. ASSUME NEW b \in 1 .. CeilDiv(total, n)
       PROVE  batch(begin(b), end(b)) = SubSeq(rows, begin(b) + 1, end(b))
  <2>1. begin(b) \in Nat /\ end(b) \in Nat /\ begin(b) < end(b) /\ end(b) <= total
    BY <1>5, BatchEnds
  <2> DEFINE x == begin(b)
             y == end(b)
  <2> HIDE DEF begin, end
  <2>2. x \in Nat /\ y \in Nat /\ x <= y /\ y <= total
    BY <2>1
  <2> HIDE DEF x, y
  <2>3. batch(x, y) = SubSeq(rows, x + 1, y)
    BY <1>9, <2>2
  <2> QED BY <2>3 DEF x, y
<1> QED BY <1>6, <1>10, <1>11 DEF rows

-----------------------------------------------------------------------------
(* The chunk sizes of a dimension add up to its size, whether they are the    *)
(* argument's, Dask's, those of the storage or computed from the default      *)
(* (resolve_chunks of df.py).                                                 *)
THEOREM ResolvedSizes ==
  ASSUME NEW ds, IsGrid(ds), NEW given, given # NoChunks => Ints(given)
  PROVE  Resolved(ds, ResolveChunks(ds, given))
<1> DEFINE spec == IF given = NoChunks THEN << >> ELSE Restrict(given, DOMAIN given \cap DimsOf(ds))
           other == IF DOMAIN StorageChunks(ds) # {} THEN StorageChunks(ds) ELSE DefaultChunks(ds, DefaultBlockRows)
<1>1. ResolveChunks(ds, given) =
        IF DOMAIN spec # {} THEN ComputeChunks(ds, spec)
        ELSE IF DOMAIN ds.chunks # {} THEN ds.chunks ELSE ComputeChunks(ds, other)
  BY DEF ResolveChunks
<1>2. Ints(spec)
  BY DEF Ints, Restrict
<1>3. Ints(other)
  BY LimitsAssumption, StorageInts, DefaultInts
<1> HIDE DEF spec, other
<1>4. Resolved(ds, ds.chunks)
  BY DaskSizes DEF Resolved, IsGrid
<1> QED BY <1>1, <1>2, <1>3, <1>4, ComputedSizes

-----------------------------------------------------------------------------
(* The slices of a dimension: each of its positions is in one of them.        *)
Cuts(q, size) ==
  /\ AnySeq(q) /\ \A j \in 1 .. Len(q) : IsSlice(q[j], size)
  /\ \A x \in Nat : x < size => \E j \in 1 .. Len(q) : InSlice(x, q[j], size)
  /\ \A x \in Nat : \A j, k \in 1 .. Len(q) :
       InSlice(x, q[j], size) /\ InSlice(x, q[k], size) => j = k

LEMMA SlicersCut ==
  ASSUME NEW ds, IsGrid(ds), NEW resolved, Resolved(ds, resolved), NEW d \in DimsOf(ds)
  PROVE  Cuts(ChunkSlicers(resolved, d), ds.size[d])
<1> DEFINE size == ds.size[d]
           q == ChunkSlicers(resolved, d)
<1>1. size \in Nat
  BY DEF IsGrid
<1>2. CASE d \notin DOMAIN resolved
  <2>1. q = <<Full>>
    BY <1>2 DEF ChunkSlicers
  <2>2. AnySeq(<<Full>>) /\ Len(<<Full>>) = 1 /\ <<Full>>[1] = Full
    <3>1. <<Full>> \in Seq({Full})
      OBVIOUS
    <3> QED BY <3>1 DEF AnySeq
  <2> HIDE DEF q, size
  <2>3. /\ AnySeq(q) /\ Len(q) = 1 /\ \A j \in 1 .. Len(q) : j = 1 /\ q[j] = Full
    BY <2>1, <2>2
  <2>4. Cuts(q, size)
    BY <1>1, <2>3 DEF Cuts, IsSlice, InSlice, From, To
  <2> QED BY <2>4 DEF q, size
<1>3. CASE d \in DOMAIN resolved
  <2> DEFINE sizes == resolved[d]
             N == Len(sizes)
             bounds == ChunkBounds(sizes)
  <2>1. IsSizes(sizes, size)
    BY <1>3 DEF Resolved
  <2>2. q = [i \in DOMAIN sizes |-> <<bounds[i], bounds[i + 1]>>]
    BY <1>3 DEF ChunkSlicers
  <2>3. N \in Nat /\ DOMAIN sizes = 1 .. N
    <3> HIDE DEF sizes
    <3> QED BY <2>1 DEF IsSizes
  <2> HIDE DEF q, size, sizes
  <2>4. CutsAt(bounds, sizes, size)
    BY <1>1, <2>1, BoundsCut
  <2> HIDE DEF bounds
  <2>5. AnySeq(q) /\ Len(q) = N /\ \A i \in 1 .. N : q[i] = <<bounds[i], bounds[i + 1]>>
    <3>1. \A i \in 1 .. N : q[i] = <<bounds[i], bounds[i + 1]>>
      BY <2>2, <2>3
    <3>2. DOMAIN q = 1 .. N /\ q = [i \in 1 .. N |-> q[i]]
      BY <2>2, <2>3
    <3> HIDE DEF N
    <3> QED BY <2>3, <3>1, <3>2, MadeSequence
  <2>6. ASSUME NEW i \in 1 .. N
        PROVE  /\ q[i] # Full /\ q[i][1] = bounds[i] /\ q[i][2] = bounds[i + 1]
               /\ bounds[i] \in Nat /\ bounds[i + 1] \in Nat
               /\ bounds[i] <= bounds[i + 1] /\ bounds[i + 1] <= size
    <3>1. i \in 1 .. N + 1 /\ i + 1 \in 1 .. N + 1 /\ N + 1 \in 1 .. N + 1 /\ i <= i + 1 /\ i + 1 <= N + 1
      BY <2>3
    <3>2. <<bounds[i], bounds[i + 1]>> # << >>
      OBVIOUS
    <3> HIDE DEF N
    <3>3. bounds[i] \in Nat /\ bounds[i + 1] \in Nat /\ bounds[i] <= bounds[i + 1] /\ bounds[i + 1] <= size
      BY <2>4, <3>1 DEF CutsAt, N
    <3> QED BY <2>5, <3>2, <3>3 DEF Full
  <2>7. \A x : \A i \in 1 .. N : InSlice(x, q[i], size) <=> bounds[i] <= x /\ x < bounds[i + 1]
    BY <2>6 DEF InSlice, From, To
  <2>8. \A i \in 1 .. N : IsSlice(q[i], size)
    BY <2>6 DEF IsSlice
  <2>9. ASSUME NEW x \in Nat
        PROVE  /\ x < size => \E i \in 1 .. N : InSlice(x, q[i], size)
               /\ \A i, k \in 1 .. N : InSlice(x, q[i], size) /\ InSlice(x, q[k], size) => i = k
    <3>1. /\ x < size => \E i \in 1 .. N : bounds[i] <= x /\ x < bounds[i + 1]
          /\ \A i, k \in 1 .. N :
               bounds[i] <= x /\ x < bounds[i + 1] /\ bounds[k] <= x /\ x < bounds[k + 1] => i = k
      BY <2>4 DEF CutsAt
    <3>2. \A i \in 1 .. N : InSlice(x, q[i], size) <=> bounds[i] <= x /\ x < bounds[i + 1]
      BY <2>7
    <3> HIDE DEF N
    <3> QED BY <3>1, <3>2
  <2> HIDE DEF N
  <2>10. Cuts(q, size)
    BY <2>5, <2>8, <2>9 DEF Cuts
  <2> QED BY <2>10 DEF q, size
<1> QED BY <1>2, <1>3

-----------------------------------------------------------------------------
(* The blocks cut the grid: every cell is in one of them.                     *)
Grid(ds, blocks) ==
  /\ AnySeq(blocks) /\ \A i \in 1 .. Len(blocks) : IsBlock(ds, blocks[i])
  /\ \A c : InBlock(ds, WholeGrid(ds), c) => \E i \in 1 .. Len(blocks) : InBlock(ds, blocks[i], c)
  /\ \A i \in 1 .. Len(blocks) : \A c : InBlock(ds, blocks[i], c) => InBlock(ds, WholeGrid(ds), c)
  /\ \A c : \A i, k \in 1 .. Len(blocks) :
       InBlock(ds, blocks[i], c) /\ InBlock(ds, blocks[k], c) => i = k

(* The blocks of a dataset partition its cells: each cell is in one block and *)
(* in no other (_block_slices_from_resolved of df.py).                        *)
THEOREM BlocksAreTheGrid ==
  ASSUME NEW ds, IsGrid(ds), NEW resolved, Resolved(ds, resolved)
  PROVE  Grid(ds, BlockSlices(ds, resolved))
<1> DEFINE names == ds.dims
           N == Len(names)
           choices == [d \in DimsOf(ds) |-> ChunkSlicers(resolved, d)]
           shape == [k \in 1 .. N |-> Len(choices[names[k]])]
           st == ShapeStrides(shape, N)
           blocks == BlockSlices(ds, resolved)
<1>1. AnySeq(names) /\ Distinct(names) /\ ToSet(names) = DimsOf(ds)
  BY DimNamesAreDims DEF AreDims
<1>2. /\ N \in Nat /\ DOMAIN names = 1 .. N /\ (\A k \in 1 .. N : names[k] \in DimsOf(ds))
      /\ (\A d \in DimsOf(ds) : \E k \in 1 .. N : d = names[k])
  <2>1. N \in Nat /\ DOMAIN names = 1 .. N
    BY <1>1, SequenceParts
  <2> QED BY <1>1, <2>1 DEF ToSet
<1>3. \A d \in DimsOf(ds) : ds.size[d] \in Nat /\ Cuts(choices[d], ds.size[d])
  BY SlicersCut DEF IsGrid
<1>4. blocks = Combinations(names, choices)
  BY DEF BlockSlices
<1> HIDE DEF choices, blocks
<1>5. \A k \in 1 .. N : AnySeq(choices[names[k]]) /\ Len(choices[names[k]]) \in Nat
  BY <1>2, <1>3, SequenceParts DEF Cuts
<1>6. shape \in [1 .. N -> Nat] /\ \A k \in 1 .. N : shape[k] = Len(choices[names[k]])
  BY <1>5
<1> HIDE DEF shape
<1>7. Strides(st, shape, N)
  <2> HIDE DEF N
  <2> QED BY <1>2, <1>6, StridesOfShape
<1>8. AllCombinations(Combinations(names, choices), names, choices, shape, st)
  <2>1. HasChoices(names, choices)
    BY <1>1, <1>5 DEF HasChoices
  <2> HIDE DEF st
  <2> QED BY <1>1, <1>6, <1>7, <2>1, CombinationsAreAll
<1>9. AllCombinations(blocks, names, choices, shape, st)
  BY <1>4, <1>8
<1>10. NamesUpto(names, N) = DimsOf(ds)
  BY <1>2 DEF NamesUpto
<1> DEFINE digit(p, k) == Digit(p, st, shape, k, N)
<1>11. /\ AnySeq(blocks) /\ Len(blocks) = st[0][N]
       /\ \A p \in 1 .. Len(blocks) :
            /\ Combination(blocks[p], names, choices, N)
            /\ \A k \in 1 .. N : digit(p, k) \in 1 .. shape[k]
                                 /\ blocks[p][names[k]] = choices[names[k]][digit(p, k)]
  <2>1. /\ AnySeq(blocks) /\ Len(blocks) = st[0][N]
        /\ \A p \in 1 .. Len(blocks) :
             /\ Combination(blocks[p], names, choices, N)
             /\ \A k \in 1 .. N : blocks[p][names[k]] = choices[names[k]][digit(p, k)]
    BY <1>9 DEF AllCombinations, InOrder
  <2>2. \A p \in 1 .. st[0][N], k \in 1 .. N : digit(p, k) \in 1 .. shape[k]
    <3> HIDE DEF st, N
    <3> QED BY <1>2, <1>7, DigitsTell
  <2> HIDE DEF digit, st
  <2> QED BY <2>1, <2>2
<1>12. \A p, q \in 1 .. Len(blocks) : (\A k \in 1 .. N : digit(p, k) = digit(q, k)) => p = q
  <2> HIDE DEF st, N
  <2> QED BY <1>2, <1>7, <1>11, DigitsTell
<1>13. \A c : Combination(c, names, choices, N) => \E p \in 1 .. Len(blocks) : blocks[p] = c
  BY <1>9 DEF AllCombinations
<1> HIDE DEF digit, st, N
<1>14. \A i \in 1 .. Len(blocks) : IsBlock(ds, blocks[i])
  <2> SUFFICES ASSUME NEW i \in 1 .. Len(blocks) PROVE IsBlock(ds, blocks[i])
    OBVIOUS
  <2>1. DOMAIN blocks[i] = DimsOf(ds)
    BY <1>10, <1>11 DEF Combination
  <2>2. ASSUME NEW d \in DimsOf(ds)
        PROVE  IsSlice(blocks[i][d], ds.size[d])
    <3>1. PICK k \in 1 .. N : d = names[k]
      BY <1>2
    <3>2. digit(i, k) \in 1 .. Len(choices[d]) /\ blocks[i][d] = choices[d][digit(i, k)]
      BY <1>6, <1>11, <3>1
    <3> QED BY <1>3, <3>2 DEF Cuts
  <2> QED BY <2>1, <2>2 DEF IsBlock, IsSlice
<1>15. ASSUME NEW c, InBlock(ds, WholeGrid(ds), c)
       PROVE  \E i \in 1 .. Len(blocks) : InBlock(ds, blocks[i], c)
  <2>1. /\ DOMAIN c = DimsOf(ds) /\ c = [d \in DimsOf(ds) |-> c[d]]
        /\ \A d \in DimsOf(ds) : c[d] \in Nat /\ c[d] < ds.size[d]
    BY <1>15, WholeIsBlock
  <2> DEFINE part(d) == CHOOSE j \in 1 .. Len(choices[d]) : InSlice(c[d], choices[d][j], ds.size[d])
             block == [d \in DimsOf(ds) |-> choices[d][part(d)]]
  <2>2. ASSUME NEW d \in DimsOf(ds)
        PROVE  part(d) \in 1 .. Len(choices[d]) /\ InSlice(c[d], choices[d][part(d)], ds.size[d])
    <3>1. \E j \in 1 .. Len(choices[d]) : InSlice(c[d], choices[d][j], ds.size[d])
      BY <1>3, <2>1 DEF Cuts
    <3> QED BY <3>1
  <2> HIDE DEF part
  <2>3. DOMAIN block = DimsOf(ds) /\ block = [d \in DimsOf(ds) |-> block[d]]
        /\ \A d \in DimsOf(ds) : block[d] = choices[d][part(d)]
    OBVIOUS
  <2> HIDE DEF block
  <2>4. Combination(block, names, choices, N)
    <3>1. \A k \in 1 .. N : \E j \in 1 .. Len(choices[names[k]]) : block[names[k]] = choices[names[k]][j]
      BY <1>2, <2>2, <2>3
    <3> QED BY <1>10, <2>3, <3>1 DEF Combination
  <2>5. PICK i \in 1 .. Len(blocks) : blocks[i] = block
    BY <1>13, <2>4
  <2>6. \A d \in DimsOf(ds) : c[d] \in Nat /\ InSlice(c[d], blocks[i][d], ds.size[d])
    BY <2>1, <2>2, <2>3, <2>5
  <2>7. InBlock(ds, blocks[i], c)
    BY <1>14, <2>1, <2>6, InBlockSlices
  <2> QED BY <2>7
<1>16. ASSUME NEW i \in 1 .. Len(blocks), NEW c, InBlock(ds, blocks[i], c)
       PROVE  InBlock(ds, WholeGrid(ds), c)
  <2>1. /\ DOMAIN c = DimsOf(ds) /\ c = [d \in DimsOf(ds) |-> c[d]]
        /\ \A d \in DimsOf(ds) : c[d] \in Nat /\ InSlice(c[d], blocks[i][d], ds.size[d])
    BY <1>14, <1>16, InBlockSlices
  <2>2. ASSUME NEW d \in DimsOf(ds)
        PROVE  c[d] < ds.size[d]
    <3>1. c[d] \in Nat /\ c[d] < To(blocks[i][d], ds.size[d]) /\ ds.size[d] \in Nat
      BY <1>3, <2>1 DEF InSlice
    <3>2. blocks[i][d] # Full => blocks[i][d][2] \in Nat /\ blocks[i][d][2] <= ds.size[d]
      BY <1>14 DEF IsBlock
    <3> QED BY <3>1, <3>2 DEF To
  <2> QED BY <2>1, <2>2, WholeIsBlock
<1>17. ASSUME NEW c, NEW i \in 1 .. Len(blocks), NEW m \in 1 .. Len(blocks),
              InBlock(ds, blocks[i], c), InBlock(ds, blocks[m], c)
       PROVE  i = m
  <2>1. \A d \in DimsOf(ds) : /\ c[d] \in Nat /\ InSlice(c[d], blocks[i][d], ds.size[d])
                            /\ InSlice(c[d], blocks[m][d], ds.size[d])
    BY <1>14, <1>17, InBlockSlices
  <2>2. ASSUME NEW k \in 1 .. N
        PROVE  digit(i, k) = digit(m, k)
    <3> DEFINE d == names[k]
    <3>1. d \in DimsOf(ds) /\ Cuts(choices[d], ds.size[d])
      BY <1>2, <1>3
    <3>2. /\ digit(i, k) \in 1 .. Len(choices[d]) /\ blocks[i][d] = choices[d][digit(i, k)]
          /\ digit(m, k) \in 1 .. Len(choices[d]) /\ blocks[m][d] = choices[d][digit(m, k)]
      BY <1>6, <1>11
    <3> HIDE DEF d
    <3> QED BY <2>1, <3>1, <3>2 DEF Cuts
  <2> QED BY <1>12, <2>2
<1>18. Grid(ds, blocks)
  BY <1>11, <1>14, <1>15, <1>16, <1>17 DEF Grid
<1> QED BY <1>18 DEF blocks

-----------------------------------------------------------------------------
(* The rows of the blocks together are the rows of the grid, once.            *)
IsRowOf(row, ds, block, columns) ==
  \E c : InBlock(ds, block, c) /\ row = RowOf(ds, c, columns)

LEMMA RowsAreOfCells ==
  ASSUME NEW ds, IsGrid(ds), NEW block, IsBlock(ds, block), NEW columns
  PROVE  LET rows == DatasetToRecordBatch(ds, block, columns) IN
         /\ AnySeq(rows) /\ Len(rows) \in Nat /\ DOMAIN rows = 1 .. Len(rows)
         /\ \A i \in 1 .. Len(rows) : IsRowOf(rows[i], ds, block, columns)
         /\ \A c : InBlock(ds, block, c) => \E i \in 1 .. Len(rows) : rows[i] = RowOf(ds, c, columns)
         /\ DataVar \in columns => Distinct(rows)
<1> DEFINE names == DimNames(ds, columns)
           cells == Ravel(ds, block, names)
           rows == DatasetToRecordBatch(ds, block, columns)
           shape == Shape(ds, block, names)
           st == ShapeStrides(shape, Len(names))
<1>1. RowsOfCells(rows, cells, ds, columns)
  BY BlockRows
<1>2. RaveledCells(cells, ds, block, names, shape, st)
  BY RavelCells, DimNamesAreDims
<1> HIDE DEF cells, rows, st, shape, names
<1>3. AnySeq(rows) /\ Len(rows) = Len(cells) /\ \A i \in 1 .. Len(rows) : rows[i] = RowOf(ds, cells[i], columns)
  BY <1>1 DEF RowsOfCells
<1>4. Len(rows) \in Nat /\ DOMAIN rows = 1 .. Len(rows)
  BY <1>3, SequenceParts
<1>5. \A i \in 1 .. Len(rows) : IsRowOf(rows[i], ds, block, columns)
  BY <1>2, <1>3 DEF RaveledCells, IsRowOf
<1>6. \A c : InBlock(ds, block, c) => \E i \in 1 .. Len(rows) : rows[i] = RowOf(ds, c, columns)
  BY <1>2, <1>3 DEF RaveledCells
<1>7. ASSUME DataVar \in columns
      PROVE  Distinct(rows)
  <2>1. \A i \in 1 .. Len(rows) : rows[i][DataVar] = cells[i]
    BY <1>3, <1>7 DEF RowOf
  <2>2. \A i, k \in 1 .. Len(rows) : cells[i] = cells[k] => i = k
    BY <1>2, <1>3 DEF RaveledCells, Distinct
  <2> QED BY <2>1, <2>2 DEF Distinct
<1> QED BY <1>3, <1>4, <1>5, <1>6, <1>7 DEF rows

(* The rows of each block.                                                    *)
RowsByBlock(ds, blocks, columns) ==
  [b \in DOMAIN blocks |-> DatasetToRecordBatch(ds, blocks[b], columns)]

LEMMA RowsByBlockParts ==
  ASSUME NEW ds, IsGrid(ds), NEW blocks, AnySeq(blocks),
         \A b \in 1 .. Len(blocks) : IsBlock(ds, blocks[b]), NEW columns
  PROVE  LET parts == RowsByBlock(ds, blocks, columns) IN
         /\ SeqOfSeqs(parts) /\ Len(parts) = Len(blocks)
         /\ \A b \in 1 .. Len(blocks) : parts[b] = DatasetToRecordBatch(ds, blocks[b], columns)
<1> DEFINE parts == RowsByBlock(ds, blocks, columns)
<1>1. Len(blocks) \in Nat /\ DOMAIN blocks = 1 .. Len(blocks)
  BY SequenceParts
<1>2. /\ DOMAIN parts = 1 .. Len(blocks) /\ parts = [b \in 1 .. Len(blocks) |-> parts[b]]
      /\ \A b \in 1 .. Len(blocks) : parts[b] = DatasetToRecordBatch(ds, blocks[b], columns)
  BY <1>1 DEF RowsByBlock
<1> HIDE DEF parts
<1>3. AnySeq(parts) /\ Len(parts) = Len(blocks)
  BY <1>1, <1>2, MadeSequence
<1>4. \A b \in 1 .. Len(parts) : AnySeq(parts[b])
  BY <1>2, <1>3, RowsAreOfCells
<1> QED BY <1>2, <1>3, <1>4 DEF SeqOfSeqs, parts

(* Two sequences of the same members, each once.                              *)
SameOnce(p, q) ==
  /\ AnySeq(p) /\ AnySeq(q) /\ Distinct(p) /\ Distinct(q)
  /\ ToSet(p) = ToSet(q) /\ Len(p) = Len(q)

(* The rows of the blocks, one block after the other, are the rows of the     *)
(* whole dataset, each once (dataset_to_record_batch of df.py).               *)
THEOREM GridRows ==
  ASSUME NEW ds, IsGrid(ds), NEW blocks, Grid(ds, blocks), NEW columns, DataVar \in columns
  PROVE  SameOnce(FlattenSeq(RowsByBlock(ds, blocks, columns)),
                  DatasetToRecordBatch(ds, WholeGrid(ds), columns))
<1> DEFINE parts == RowsByBlock(ds, blocks, columns)
           all == FlattenSeq(parts)
           whole == DatasetToRecordBatch(ds, WholeGrid(ds), columns)
           N == Len(blocks)
<1>1. /\ AnySeq(blocks) /\ \A b \in 1 .. N : IsBlock(ds, blocks[b])
  BY DEF Grid
<1>2. /\ SeqOfSeqs(parts) /\ Len(parts) = N
      /\ \A b \in 1 .. N : parts[b] = DatasetToRecordBatch(ds, blocks[b], columns)
  BY <1>1, RowsByBlockParts
<1>3. PICK off : Placed(all, parts, off)
  BY <1>2, FlattenPlaces
<1> HIDE DEF all, parts, N
<1>4. AnySeq(all) /\ DOMAIN all = 1 .. Len(all)
  BY <1>3, SequenceParts DEF Placed
<1>5. \A b \in 1 .. N :
        /\ \A i \in 1 .. Len(parts[b]) : IsRowOf(parts[b][i], ds, blocks[b], columns)
        /\ \A c : InBlock(ds, blocks[b], c) =>
             \E i \in 1 .. Len(parts[b]) : parts[b][i] = RowOf(ds, c, columns)
        /\ Distinct(parts[b])
  BY <1>1, <1>2, RowsAreOfCells
<1>6. /\ AnySeq(whole) /\ DOMAIN whole = 1 .. Len(whole) /\ Distinct(whole)
      /\ \A i \in 1 .. Len(whole) : IsRowOf(whole[i], ds, WholeGrid(ds), columns)
      /\ \A c : InBlock(ds, WholeGrid(ds), c) =>
           \E i \in 1 .. Len(whole) : whole[i] = RowOf(ds, c, columns)
  BY WholeIsBlock, RowsAreOfCells
<1> HIDE DEF whole
<1>7. \A c, e : RowOf(ds, c, columns) = RowOf(ds, e, columns) => c = e
  <2>1. \A c : RowOf(ds, c, columns)[DataVar] = c
    BY DEF RowOf
  <2> QED BY <2>1
<1>8. ASSUME NEW i \in 1 .. Len(all)
      PROVE  \E a \in 1 .. N : \E b \in 1 .. Len(parts[a]) :
               i = off[a - 1] + b /\ all[i] = parts[a][b]
  <2>1. PICK a \in 1 .. N : \E b \in 1 .. Len(parts[a]) : i = off[a - 1] + b
    BY <1>2, <1>3 DEF Placed
  <2>2. PICK b \in 1 .. Len(parts[a]) : i = off[a - 1] + b
    BY <2>1
  <2>3. all[i] = parts[a][b]
    BY <1>2, <1>3, <2>2 DEF Placed
  <2> QED BY <2>2, <2>3
<1>9. Distinct(all)
  <2> SUFFICES ASSUME NEW i \in 1 .. Len(all), NEW k \in 1 .. Len(all), all[i] = all[k]
               PROVE  i = k
    BY DEF Distinct
  <2>10. PICK a \in 1 .. N : \E b \in 1 .. Len(parts[a]) : i = off[a - 1] + b /\ all[i] = parts[a][b]
    BY <1>8
  <2>1. PICK b \in 1 .. Len(parts[a]) : i = off[a - 1] + b /\ all[i] = parts[a][b]
    BY <2>10
  <2>20. PICK m \in 1 .. N : \E n \in 1 .. Len(parts[m]) : k = off[m - 1] + n /\ all[k] = parts[m][n]
    BY <1>8
  <2>2. PICK n \in 1 .. Len(parts[m]) : k = off[m - 1] + n /\ all[k] = parts[m][n]
    BY <2>20
  <2>3. PICK c : InBlock(ds, blocks[a], c) /\ parts[a][b] = RowOf(ds, c, columns)
    BY <1>5 DEF IsRowOf
  <2>4. PICK e : InBlock(ds, blocks[m], e) /\ parts[m][n] = RowOf(ds, e, columns)
    BY <1>5 DEF IsRowOf
  <2>5. c = e
    BY <1>7, <2>1, <2>2, <2>3, <2>4
  <2>6. a = m
    BY <2>3, <2>4, <2>5 DEF Grid, N
  <2>7. b = n
    BY <1>5, <2>1, <2>2, <2>6 DEF Distinct
  <2> QED BY <2>1, <2>2, <2>6, <2>7
<1>10. ASSUME NEW row \in ToSet(all)
       PROVE  row \in ToSet(whole)
  <2>1. PICK i \in 1 .. Len(all) : row = all[i]
    BY <1>4 DEF ToSet
  <2>20. PICK a \in 1 .. N : \E b \in 1 .. Len(parts[a]) : all[i] = parts[a][b]
    BY <1>8
  <2>2. PICK b \in 1 .. Len(parts[a]) : all[i] = parts[a][b]
    BY <2>20
  <2>3. PICK c : InBlock(ds, blocks[a], c) /\ parts[a][b] = RowOf(ds, c, columns)
    BY <1>5 DEF IsRowOf
  <2>4. InBlock(ds, WholeGrid(ds), c)
    BY <2>3 DEF Grid, N
  <2>5. \E n \in 1 .. Len(whole) : whole[n] = RowOf(ds, c, columns)
    BY <1>6, <2>4
  <2> QED BY <1>6, <2>1, <2>2, <2>3, <2>5 DEF ToSet
<1>11. ASSUME NEW row \in ToSet(whole)
       PROVE  row \in ToSet(all)
  <2>1. PICK i \in 1 .. Len(whole) : row = whole[i]
    BY <1>6 DEF ToSet
  <2>2. PICK c : InBlock(ds, WholeGrid(ds), c) /\ whole[i] = RowOf(ds, c, columns)
    BY <1>6 DEF IsRowOf
  <2>3. PICK a \in 1 .. N : InBlock(ds, blocks[a], c)
    BY <2>2 DEF Grid, N
  <2>4. PICK b \in 1 .. Len(parts[a]) : parts[a][b] = RowOf(ds, c, columns)
    BY <1>5, <2>3
  <2>5. off[a - 1] + b \in 1 .. Len(all) /\ all[off[a - 1] + b] = parts[a][b]
    BY <1>2, <1>3 DEF Placed
  <2> QED BY <1>4, <2>1, <2>2, <2>4, <2>5 DEF ToSet
<1>12. ToSet(all) = ToSet(whole)
  BY <1>10, <1>11
<1>13. Len(all) = Len(whole)
  BY <1>4, <1>6, <1>9, <1>12, SameMembers
<1> QED BY <1>4, <1>6, <1>9, <1>12, <1>13 DEF SameOnce, all, parts, whole

-----------------------------------------------------------------------------
(* How many rows a block has.                                                 *)
(* It does not matter in which order its dimensions are taken.                *)
LEMMA RowCount ==
  ASSUME NEW ds, IsGrid(ds), NEW block, IsBlock(ds, block), NEW columns
  PROVE  Len(DatasetToRecordBatch(ds, block, columns)) = Product(Shape(ds, block, ds.dims))
<1> DEFINE names == DimNames(ds, columns)
           p == Ravel(ds, block, names)
           q == Ravel(ds, block, ds.dims)
<1>1. AreDims(names, ds) /\ AreDims(ds.dims, ds)
  BY DimNamesAreDims
<1>2. ASSUME NEW order, AreDims(order, ds)
      PROVE  LET cells == Ravel(ds, block, order) IN
             /\ AnySeq(cells) /\ Distinct(cells) /\ \A c : c \in ToSet(cells) <=> InBlock(ds, block, c)
  <2> DEFINE cells == Ravel(ds, block, order)
             shape == Shape(ds, block, order)
             st == ShapeStrides(shape, Len(order))
  <2>1. RaveledCells(cells, ds, block, order, shape, st)
    BY <1>2, RavelCells
  <2> HIDE DEF cells, shape, st
  <2>2. AnySeq(cells) /\ DOMAIN cells = 1 .. Len(cells)
    BY <2>1, SequenceParts DEF RaveledCells
  <2> QED BY <2>1, <2>2 DEF RaveledCells, ToSet, cells
<1>3. AnySeq(p) /\ AnySeq(q) /\ Distinct(p) /\ Distinct(q) /\ ToSet(p) = ToSet(q)
  <2>1. AnySeq(p) /\ Distinct(p) /\ \A c : c \in ToSet(p) <=> InBlock(ds, block, c)
    BY <1>1, <1>2
  <2>2. AnySeq(q) /\ Distinct(q) /\ \A c : c \in ToSet(q) <=> InBlock(ds, block, c)
    BY <1>1, <1>2
  <2> HIDE DEF p, q
  <2> QED BY <2>1, <2>2
<1>4. Len(p) = Len(q)
  <2> HIDE DEF p, q
  <2> QED BY <1>3, SameMembers
<1>5. Len(DatasetToRecordBatch(ds, block, columns)) = Len(p)
  BY BlockRows DEF RowsOfCells
<1> QED BY <1>1, <1>4, <1>5, CountOfCells

LEMMA BlockLenCounts ==
  ASSUME NEW ds, IsGrid(ds), NEW block, IsBlock(ds, block), HasLen(block), NEW columns
  PROVE  BlockLen(ds, block) = Len(DatasetToRecordBatch(ds, block, columns))
<1>1. \A k \in DOMAIN ds.dims : ds.dims[k] \in DimsOf(ds)
  BY DEF DimsOf, ToSet
<1>2. \A d \in DimsOf(ds) : Len1(ds, block, d) = block[d][2] - block[d][1]
  BY DEF Len1, HasLen, IsBlock
<1>3. Shape(ds, block, ds.dims) = [k \in DOMAIN ds.dims |-> block[ds.dims[k]][2] - block[ds.dims[k]][1]]
  BY <1>1, <1>2 DEF Shape
<1> QED BY <1>3, RowCount DEF BlockLen

LEMMA WholeCounts ==
  ASSUME NEW ds, IsGrid(ds), NEW columns
  PROVE  Product([i \in DOMAIN ds.dims |-> ds.size[ds.dims[i]]])
           = Len(DatasetToRecordBatch(ds, WholeGrid(ds), columns))
<1>1. \A k \in DOMAIN ds.dims : ds.dims[k] \in DimsOf(ds)
  BY DEF DimsOf, ToSet
<1>2. \A d \in DimsOf(ds) : Len1(ds, WholeGrid(ds), d) = ds.size[d]
  BY DEF Len1, WholeGrid
<1>3. Shape(ds, WholeGrid(ds), ds.dims) = [k \in DOMAIN ds.dims |-> ds.size[ds.dims[k]]]
  BY <1>1, <1>2 DEF Shape
<1> QED BY <1>3, RowCount, WholeIsBlock

(* The bounds of a dimension hold along the positions they are computed over. *)
LEMMA MetadataHolds ==
  ASSUME NEW ds, Indexed(ds), NEW block, NEW dims \in SUBSET DimsOf(ds), NEW d \in dims,
         First(ds, block, d) \in Nat, Len1(ds, block, d) \in Nat,
         First(ds, block, d) + Len1(ds, block, d) <= ds.size[d],
         NEW x \in Nat, First(ds, block, d) <= x, x < First(ds, block, d) + Len1(ds, block, d)
  PROVE  LET ranges == BlockMetadata(ds, block, dims) IN
         d \in DOMAIN ranges /\ ds.coords[d][x + 1] \in ranges[d][1] .. ranges[d][2]
<1> DEFINE from == First(ds, block, d)
           n == Len1(ds, block, d)
           s == ds.coords[d]
           q == BlockCoord(ds, block, d)
           ranges == BlockMetadata(ds, block, dims)
<1>1. s \in Seq(Int) /\ Len(s) = ds.size[d] /\ ds.size[d] \in Nat
  BY DEF Indexed, IsDataset
<1>2. n > 0
  OBVIOUS
<1>3. d \in DOMAIN ranges /\ ranges[d] = <<Min(ToSet(q)), Max(ToSet(q))>>
  BY <1>2 DEF BlockMetadata
<1>4. q = SubSeq(s, from + 1, from + n)
  BY DEF BlockCoord
<1> HIDE DEF s, q, ranges
<1>5. /\ AnySeq(q) /\ Len(q) = n /\ \A i \in 1 .. n : q[i] = s[from + i]
  <2> DEFINE to == from + n
  <2>1. to \in Nat /\ from <= to /\ to - from = n
    OBVIOUS
  <2> HIDE DEF to, n, from
  <2>2. /\ AnySeq(SubSeq(s, from + 1, to)) /\ Len(SubSeq(s, from + 1, to)) = to - from
        /\ \A i \in 1 .. to - from : SubSeq(s, from + 1, to)[i] = s[from + i]
    BY <2>1, Slice DEF from
  <2>3. q = SubSeq(s, from + 1, to)
    BY <1>4 DEF to
  <2> QED BY <2>1, <2>2, <2>3
<1>6. q \in Seq(Int)
  <2>1. ASSUME NEW i \in 1 .. n
        PROVE  s[from + i] \in Int
    <3> DEFINE k == from + i
    <3>1. k \in 1 .. Len(s)
      BY <1>1
    <3> HIDE DEF k
    <3>2. s[k] \in Int
      BY <1>1, <3>1
    <3> QED BY <3>2 DEF k
  <2>2. \A i \in 1 .. Len(q) : q[i] \in Int
    BY <1>5, <2>1
  <2> QED BY <1>5, <2>2, SequenceOver
<1>7. q # << >>
  BY <1>2, <1>5, SequenceParts
<1> DEFINE j == (x - from) + 1
<1>8. j \in 1 .. n /\ from + j = x + 1
  OBVIOUS
<1> HIDE DEF j
<1>9. q[j] \in ToSet(q) /\ q[j] = s[x + 1]
  <2>1. DOMAIN q = 1 .. n
    BY <1>5, SequenceParts
  <2> HIDE DEF n, from
  <2> QED BY <1>5, <1>8, <2>1 DEF ToSet
<1>10. /\ Min(ToSet(q)) \in Int /\ Max(ToSet(q)) \in Int
       /\ q[j] \in Int /\ Min(ToSet(q)) <= q[j] /\ q[j] <= Max(ToSet(q))
  BY <1>6, <1>7, <1>9, EndsOfSequence
<1>11. s[x + 1] \in ranges[d][1] .. ranges[d][2]
  BY <1>3, <1>9, <1>10
<1> QED BY <1>3, <1>11 DEF ranges, s

-----------------------------------------------------------------------------
(* What a lazy table tells of its partitions.                                 *)
HoldRows(ds, pairs) ==
  LET all == FlattenSeq([i \in DOMAIN pairs |-> Rows(ds, pairs[i].block)])
  IN  /\ \A i \in DOMAIN pairs :
           LET rows == Rows(ds, pairs[i].block)
           IN  /\ Len(rows) = pairs[i].rows
               /\ \A row \in ToSet(rows), d \in DOMAIN pairs[i].ranges :
                    row[d] \in pairs[i].ranges[d][1] .. pairs[i].ranges[d][2]
      /\ Len(all) = Len(Rows(ds, WholeGrid(ds)))
      /\ ToSet(all) = ToSet(Rows(ds, WholeGrid(ds)))

LEMMA RangesHold ==
  ASSUME NEW ds, Indexed(ds), NEW block, IsBlock(ds, block), NEW varying \in SUBSET DimsOf(ds),
         NEW c, InBlock(ds, block, c)
  PROVE  LET static == DimsOf(ds) \ varying
             ranges == Extended(BlockMetadata(ds, block, varying),
                                BlockMetadata(ds, [d \in static |-> Full], static))
         IN  \A d \in DOMAIN ranges :
               d \in DimsOf(ds) /\ ds.coords[d][c[d] + 1] \in ranges[d][1] .. ranges[d][2]
<1> DEFINE static == DimsOf(ds) \ varying
           full == [d \in static |-> Full]
           f == BlockMetadata(ds, block, varying)
           g == BlockMetadata(ds, full, static)
           ranges == Extended(f, g)
<1>1. IsGrid(ds)
  BY DEF Indexed, IsDataset
<1>2. DOMAIN f \subseteq varying /\ DOMAIN g \subseteq static
  BY DEF BlockMetadata
<1>3. ASSUME NEW d \in varying
      PROVE  d \in DOMAIN f /\ ds.coords[d][c[d] + 1] \in f[d][1] .. f[d][2]
  <2>1. /\ First(ds, block, d) \in Nat /\ Len1(ds, block, d) \in Nat
        /\ First(ds, block, d) + Len1(ds, block, d) <= ds.size[d]
    BY <1>1, BlockExtent
  <2>2. c[d] \in Nat /\ First(ds, block, d) <= c[d] /\ c[d] < First(ds, block, d) + Len1(ds, block, d)
    BY DEF InBlock
  <2> DEFINE x == c[d]
  <2> HIDE DEF x
  <2>3. d \in DOMAIN f /\ ds.coords[d][x + 1] \in f[d][1] .. f[d][2]
    BY <2>1, <2>2, MetadataHolds DEF x
  <2> QED BY <2>3 DEF x
<1>4. ASSUME NEW d \in static
      PROVE  d \in DOMAIN g /\ ds.coords[d][c[d] + 1] \in g[d][1] .. g[d][2]
  <2>1. First(ds, full, d) = 0 /\ Len1(ds, full, d) = ds.size[d] /\ ds.size[d] \in Nat
    BY <1>1 DEF First, Len1, IsGrid
  <2>2. c[d] \in Nat /\ c[d] < ds.size[d]
    <3>1. /\ First(ds, block, d) \in Nat /\ Len1(ds, block, d) \in Nat
          /\ First(ds, block, d) + Len1(ds, block, d) <= ds.size[d]
      BY <1>1, BlockExtent
    <3>2. c[d] \in Nat /\ c[d] < First(ds, block, d) + Len1(ds, block, d)
      BY DEF InBlock
    <3> QED BY <2>1, <3>1, <3>2
  <2> DEFINE x == c[d]
  <2> HIDE DEF x, full
  <2>3. d \in DOMAIN BlockMetadata(ds, full, static)
        /\ ds.coords[d][x + 1]
             \in BlockMetadata(ds, full, static)[d][1] .. BlockMetadata(ds, full, static)[d][2]
    <3>1. /\ x \in Nat /\ First(ds, full, d) <= x /\ x < First(ds, full, d) + Len1(ds, full, d)
          /\ First(ds, full, d) \in Nat /\ Len1(ds, full, d) \in Nat
          /\ First(ds, full, d) + Len1(ds, full, d) <= ds.size[d]
      BY <2>1, <2>2 DEF x
    <3>2. static \in SUBSET DimsOf(ds)
      OBVIOUS
    <3> HIDE DEF static
    <3> QED BY <3>1, <3>2, MetadataHolds
  <2> QED BY <2>3 DEF x
<1> HIDE DEF f, g
<1>5. ASSUME NEW d \in DOMAIN ranges
      PROVE  d \in DimsOf(ds) /\ ds.coords[d][c[d] + 1] \in ranges[d][1] .. ranges[d][2]
  <2>1. d \in DOMAIN f \cup DOMAIN g /\ ranges[d] = IF d \in DOMAIN f THEN f[d] ELSE g[d]
    BY DEF Extended
  <2>2. CASE d \in varying
    BY <1>3, <2>1, <2>2
  <2>3. CASE d \notin varying
    <3>1. d \in static /\ d \notin DOMAIN f
      BY <1>2, <2>1, <2>3
    <3> QED BY <1>4, <2>1, <3>1
  <2> QED BY <2>2, <2>3
<1> QED BY <1>5 DEF f, g

(* The partitions of a lazy table: the number of rows and the ranges told for *)
(* each hold of its rows, whichever dimensions share their bounds             *)
(* (read_xarray_table of reader.py).                                          *)
THEOREM PairsHoldRows ==
  ASSUME NEW ds, Indexed(ds), Resolved(ds, ResolveChunks(ds, chunks)),
         \A i \in DOMAIN Blocks(ds) : HasLen(Blocks(ds)[i])
  PROVE  /\ HoldRows(ds, PartitionPairs(ds))
         /\ Grid(ds, Blocks(ds)) /\ DOMAIN PartitionPairs(ds) = DOMAIN Blocks(ds)
         /\ \A i \in DOMAIN Blocks(ds) : PartitionPairs(ds)[i].block = Blocks(ds)[i]
<1> DEFINE blocks == Blocks(ds)
           resolved == ResolveChunks(ds, chunks)
           varying == VaryingDims(resolved)
           static == DimsOf(ds) \ varying
           md(i) == Extended(BlockMetadata(ds, blocks[i], varying),
                             BlockMetadata(ds, [d \in static |-> Full], static))
           pairs == PartitionPairs(ds)
<1>1. IsGrid(ds)
  BY DEF Indexed, IsDataset
<1>2. blocks = BlockSlices(ds, resolved)
  BY DEF Blocks
<1>3. Grid(ds, blocks)
  BY <1>1, BlocksAreTheGrid DEF Blocks
<1>4. pairs = [i \in DOMAIN blocks |->
                [block |-> blocks[i], ranges |-> md(i), rows |-> BlockLen(ds, blocks[i])]]
  BY <1>2 DEF PartitionPairs
<1>5. varying \in SUBSET DimsOf(ds)
  BY DEF VaryingDims, Resolved
<1> HIDE DEF blocks, pairs
<1>6. /\ DOMAIN pairs = DOMAIN blocks
      /\ \A i \in DOMAIN blocks : /\ pairs[i].block = blocks[i] /\ pairs[i].ranges = md(i)
                                  /\ pairs[i].rows = BlockLen(ds, blocks[i])
  <2> HIDE DEF md
  <2> QED BY <1>4
<1>7. AnySeq(blocks) /\ DOMAIN blocks = 1 .. Len(blocks) /\ Len(blocks) \in Nat
      /\ \A i \in 1 .. Len(blocks) : IsBlock(ds, blocks[i])
  BY <1>3, SequenceParts DEF Grid
<1>8. ASSUME NEW i \in DOMAIN pairs
      PROVE  /\ Len(Rows(ds, pairs[i].block)) = pairs[i].rows
             /\ \A row \in ToSet(Rows(ds, pairs[i].block)), d \in DOMAIN pairs[i].ranges :
                  row[d] \in pairs[i].ranges[d][1] .. pairs[i].ranges[d][2]
  <2> DEFINE block == blocks[i]
             rows == DatasetToRecordBatch(ds, block, Columns(ds))
             ranges == md(i)
  <2>1. IsBlock(ds, block) /\ HasLen(block)
    BY <1>6, <1>7 DEF blocks
  <2>2. pairs[i].block = block /\ pairs[i].ranges = ranges /\ pairs[i].rows = BlockLen(ds, block)
        /\ Rows(ds, block) = rows
    BY <1>6 DEF Rows
  <2>3. Len(rows) = BlockLen(ds, block)
    BY <1>1, <2>1, BlockLenCounts
  <2>4. ASSUME NEW row \in ToSet(rows), NEW d \in DOMAIN ranges
        PROVE  row[d] \in ranges[d][1] .. ranges[d][2]
    <3>1. DOMAIN rows = 1 .. Len(rows) /\ \A n \in 1 .. Len(rows) : IsRowOf(rows[n], ds, block, Columns(ds))
      BY <1>1, <2>1, RowsAreOfCells
    <3>2. PICK c : InBlock(ds, block, c) /\ row = RowOf(ds, c, Columns(ds))
      <4> HIDE DEF rows, block
      <4> QED BY <3>1 DEF ToSet, IsRowOf
    <3>3. d \in DimsOf(ds) /\ ds.coords[d][c[d] + 1] \in ranges[d][1] .. ranges[d][2]
      BY <1>5, <2>1, <3>2, RangesHold
    <3>4. row[d] = ds.coords[d][c[d] + 1]
      <4>1. d # DataVar /\ d \in Columns(ds)
        BY <1>1, <3>3 DEF IsDataset, Indexed, Columns
      <4> HIDE DEF ranges, rows, block
      <4> QED BY <3>2, <4>1 DEF RowOf
    <3> HIDE DEF ranges
    <3> QED BY <3>3, <3>4
  <2> HIDE DEF rows, ranges, block
  <2> QED BY <2>2, <2>3, <2>4
<1> DEFINE parts == RowsByBlock(ds, blocks, Columns(ds))
           all == FlattenSeq([i \in DOMAIN pairs |-> Rows(ds, pairs[i].block)])
<1>9. all = FlattenSeq(parts)
  <2>1. [i \in DOMAIN pairs |-> Rows(ds, pairs[i].block)] = parts
    BY <1>6 DEF Rows, RowsByBlock
  <2> QED BY <2>1
<1>10. SameOnce(FlattenSeq(parts), Rows(ds, WholeGrid(ds)))
  <2>1. DataVar \in Columns(ds)
    BY DEF Columns
  <2> QED BY <1>1, <1>3, <2>1, GridRows DEF Rows
<1> HIDE DEF all, parts
<1>11. Len(all) = Len(Rows(ds, WholeGrid(ds))) /\ ToSet(all) = ToSet(Rows(ds, WholeGrid(ds)))
  BY <1>9, <1>10 DEF SameOnce
<1>12. HoldRows(ds, pairs)
  BY <1>8, <1>11 DEF HoldRows, all
<1> QED BY <1>3, <1>6, <1>12 DEF blocks, pairs

-----------------------------------------------------------------------------
(* The partitions of an in-memory table.                                      *)
KeepRows(parts, rows, cpus, size) ==
  LET batches == FlattenSeq(parts)
  IN  /\ FlattenSeq(batches) = rows
      /\ Len(parts) <= cpus
      /\ \A p \in DOMAIN parts : parts[p] # << >>
      /\ \A b \in DOMAIN batches : Len(batches[b]) \in 1 .. size

(* As many partitions as asked for at most, and batches of the size at most.  *)
LEMMA PartitionSizes ==
  ASSUME NEW rows \in Nat \ {0}, NEW count \in Nat \ {0}, NEW size \in Nat \ {0}
  PROVE  LET per == PerPartition(rows, count, size)
             each == BatchRows(rows, count, size)
         IN  /\ per \in Nat \ {0} /\ each \in Nat \ {0} /\ each <= size
             /\ CeilDiv(CeilDiv(rows, each), per) <= count
<1> DEFINE per == PerPartition(rows, count, size)
           each == BatchRows(rows, count, size)
           m == count * size
<1>1. m \in Nat \ {0}
  BY ProductIsNat
<1>2. per = CeilDiv(rows, m)
  BY DEF PerPartition
<1> HIDE DEF m, per
<1>3. per \in Nat /\ rows <= per * m
  BY <1>1, <1>2, Ceiling
<1>4. per # 0
  <2>1. 0 * m = 0
    BY <1>1
  <2> QED BY <1>3, <2>1
<1> DEFINE n == count * per
<1>5. n \in Nat \ {0}
  BY <1>3, <1>4, ProductIsNat
<1>6. each = CeilDiv(rows, n)
  BY DEF BatchRows, per
<1> HIDE DEF each
<1>7. per * m = n * size /\ n * size = size * n
  BY <1>3 DEF m
<1> HIDE DEF n
<1>8. /\ each \in Nat /\ rows <= each * n
      /\ \A x \in Nat : rows <= x * n => each <= x
  BY <1>5, <1>6, Ceiling
<1>9. each <= size
  BY <1>3, <1>7, <1>8
<1>10. each # 0
  <2>1. 0 * n = 0
    BY <1>5
  <2> QED BY <1>8, <2>1
<1> DEFINE batches == CeilDiv(rows, each)
<1>11. batches \in Nat /\ \A x \in Nat : rows <= x * each => batches <= x
  BY <1>8, <1>10, Ceiling
<1> HIDE DEF batches
<1>12. batches <= n
  <2>1. each * n = n * each
    BY <1>5, <1>8
  <2> QED BY <1>5, <1>8, <1>11, <2>1
<1>13. CeilDiv(batches, per) <= count
  <2>1. \A x \in Nat : batches <= x * per => CeilDiv(batches, per) <= x
    BY <1>3, <1>4, <1>11, Ceiling
  <2>2. batches <= count * per
    BY <1>12 DEF n
  <2> QED BY <2>1, <2>2
<1> QED BY <1>3, <1>4, <1>8, <1>9, <1>10, <1>13 DEF per, batches, each

LEMMA CutTwice ==
  ASSUME NEW rows, AnySeq(rows), NEW n \in Nat \ {0}, NEW m \in Nat \ {0}, NEW count,
         CeilDiv(CeilDiv(Len(rows), n), m) <= count
  PROVE  KeepRows(Batched(Batched(rows, n), m), rows, count, n)
<1> DEFINE batches == Batched(rows, n)
           parts == Batched(batches, m)
<1>1. /\ SeqOfSeqs(batches) /\ Len(batches) = CeilDiv(Len(rows), n) /\ FlattenSeq(batches) = rows
      /\ \A b \in 1 .. CeilDiv(Len(rows), n) : Len(batches[b]) \in 1 .. n
  BY BatchedParts
<1> HIDE DEF batches
<1>2. AnySeq(batches) /\ DOMAIN batches = 1 .. Len(batches)
  BY <1>1, SequenceParts DEF SeqOfSeqs
<1>3. /\ SeqOfSeqs(parts) /\ Len(parts) = CeilDiv(Len(batches), m) /\ FlattenSeq(parts) = batches
      /\ \A p \in 1 .. CeilDiv(Len(batches), m) : Len(parts[p]) \in 1 .. m
  BY <1>2, BatchedParts
<1> HIDE DEF parts
<1>4. AnySeq(parts) /\ DOMAIN parts = 1 .. Len(parts) /\ \A p \in 1 .. Len(parts) : AnySeq(parts[p])
  BY <1>3, SequenceParts DEF SeqOfSeqs
<1>5. \A p \in DOMAIN parts : parts[p] # << >>
  <2> SUFFICES ASSUME NEW p \in DOMAIN parts PROVE parts[p] # << >>
    OBVIOUS
  <2>1. AnySeq(parts[p]) /\ Len(parts[p]) # 0
    BY <1>3, <1>4
  <2> QED BY <2>1, SequenceParts
<1>6. KeepRows(parts, rows, count, n)
  BY <1>1, <1>2, <1>3, <1>5 DEF KeepRows
<1> QED BY <1>6 DEF parts, batches

(* The partitions of an in-memory table are the rows cut twice, and the two   *)
(* roundings of the division leave no partition or batch empty and none too   *)
(* many (_in_memory_partitions of reader.py).                                 *)
THEOREM InMemoryKeep ==
  ASSUME NEW ds, IsDataset(ds), NEW given, given # NoChunks => Ints(given),
         NEW cpus \in Nat \ {0}, NEW size \in Nat \ {0},
         Product([i \in DOMAIN ds.dims |-> ds.size[ds.dims[i]]]) # 0
  PROVE  LET whole == EnsureDefaultIndexes(ds) IN
         KeepRows(InMemoryPartitions(ds, given, cpus, size), Rows(whole, WholeGrid(whole)), cpus, size)
<1> DEFINE whole == EnsureDefaultIndexes(ds)
           resolved == ResolveChunks(whole, given)
           total == Product([i \in DOMAIN ds.dims |-> ds.size[ds.dims[i]]])
           blocks == BlockSlices(ds, resolved)
           count == Smallest(Len(blocks), cpus)
           per == PerPartition(total, count, size)
           each == BatchRows(total, count, size)
           rows == DatasetToRecordBatch(whole, WholeGrid(whole), Columns(whole))
<1>1. Indexed(whole) /\ whole.dims = ds.dims /\ whole.size = ds.size
  BY EnsuredDataset
<1>2. DimsOf(whole) = DimsOf(ds)
  BY <1>1 DEF DimsOf
<1>3. InMemoryPartitions(ds, given, cpus, size)
        = Batched(IterRecordBatches(whole, WholeGrid(whole), Columns(whole), each), per)
  BY <1>2 DEF InMemoryPartitions, WholeGrid
<1> HIDE DEF whole
<1>4. blocks = BlockSlices(whole, resolved)
  BY <1>1, <1>2 DEF BlockSlices
<1>5. IsGrid(whole)
  BY <1>1 DEF Indexed, IsDataset
<1>6. Grid(whole, blocks)
  <2>1. Resolved(whole, resolved)
    BY <1>5, ResolvedSizes
  <2> HIDE DEF resolved
  <2> QED BY <1>4, <1>5, <2>1, BlocksAreTheGrid
<1>7. total = Len(rows)
  BY <1>1, <1>5, WholeCounts
<1> HIDE DEF blocks, total
<1>8. /\ AnySeq(rows) /\ Len(rows) \in Nat
      /\ \A i \in 1 .. Len(rows) : IsRowOf(rows[i], whole, WholeGrid(whole), Columns(whole))
  BY <1>5, WholeIsBlock, RowsAreOfCells
<1>9. total \in Nat \ {0}
  BY <1>7, <1>8 DEF total
<1>10. Len(blocks) \in Nat \ {0}
  <2>1. 1 \in 1 .. Len(rows)
    BY <1>7, <1>9
  <2>2. PICK c : InBlock(whole, WholeGrid(whole), c)
    <3> HIDE DEF rows
    <3> QED BY <1>8, <2>1 DEF IsRowOf
  <2>3. \E i \in 1 .. Len(blocks) : InBlock(whole, blocks[i], c)
    BY <1>6, <2>2 DEF Grid
  <2>4. Len(blocks) \in Nat
    BY <1>6, SequenceParts DEF Grid
  <2> QED BY <2>3, <2>4
<1>11. count \in Nat \ {0} /\ count <= cpus
  BY <1>10 DEF Smallest
<1> HIDE DEF count
<1>12. /\ per \in Nat \ {0} /\ each \in Nat \ {0} /\ each <= size
       /\ CeilDiv(CeilDiv(total, each), per) <= count
  BY <1>9, <1>11, PartitionSizes
<1> HIDE DEF per, each
<1>13. IterRecordBatches(whole, WholeGrid(whole), Columns(whole), each) = Batched(rows, each)
  <2>1. IsDataset(whole)
    BY <1>1 DEF Indexed
  <2> QED BY <1>1, <1>5, <1>12, <2>1, WholeIsBlock, IterIsBatched
<1> DEFINE parts == Batched(Batched(rows, each), per)
<1> HIDE DEF rows
<1>14. KeepRows(parts, rows, count, each)
  BY <1>7, <1>8, <1>12, CutTwice
<1>15. /\ Len(parts) \in Nat
       /\ \A b \in DOMAIN FlattenSeq(parts) : Len(FlattenSeq(parts)[b]) \in 1 .. each
  <2>1. AnySeq(Batched(rows, each))
    BY <1>8, <1>12, BatchedParts DEF SeqOfSeqs
  <2>2. AnySeq(parts)
    BY <1>12, <2>1, BatchedParts DEF SeqOfSeqs
  <2>3. Len(parts) \in Nat
    BY <2>2, SequenceParts
  <2> HIDE DEF parts
  <2> QED BY <1>14, <2>3 DEF KeepRows
<1>16. KeepRows(parts, rows, cpus, size)
  <2> HIDE DEF parts
  <2>1. Len(parts) <= cpus
    BY <1>11, <1>14, <1>15 DEF KeepRows
  <2>2. \A b \in DOMAIN FlattenSeq(parts) : Len(FlattenSeq(parts)[b]) \in 1 .. size
    BY <1>12, <1>15
  <2> QED BY <1>14, <2>1, <2>2 DEF KeepRows
<1> QED BY <1>3, <1>13, <1>16 DEF whole, rows, parts, Rows

-----------------------------------------------------------------------------
(* The streams.                                                               *)
Source == EnsureDefaultIndexes(dataset)

Given ==
  dataset \in Datasets /\ chunks \in Chunkings(dataset) /\ batch_size \in BatchSizes

(* A stream is over blocks of the dataset, as it is or with its indexes: all  *)
(* of them, or one.                                                           *)
IsStream(stream) ==
  /\ DOMAIN stream = {"source", "ds", "blocks", "columns", "read", "batches", "out", "ended"}
  /\ stream.ds \in {dataset, Source} /\ stream.columns \in SUBSET Columns(stream.ds)
  /\ AnySeq(stream.blocks) /\ \A b \in 1 .. Len(stream.blocks) : IsBlock(stream.ds, stream.blocks[b])
  /\ stream.source = "partition" => Len(stream.blocks) = 1
  /\ stream.source # "partition" =>
       stream.blocks = Blocks(stream.ds) /\ stream.columns = Columns(stream.ds)
  /\ stream.source = "read_xarray" => stream.ds = Source

(* What it has given, and the batches it has left, are the rows of the blocks *)
(* it has read; it has given those of all but the last of them, and of the    *)
(* last at least one as long as it has not ended.                             *)
Advances(stream, f) ==
  /\ stream.read \in 0 .. Len(stream.blocks) /\ AnySeq(stream.out) /\ SeqOfSeqs(stream.batches)
  /\ stream.out \o FlattenSeq(stream.batches) = f[stream.read]
  /\ stream.read > 0 => /\ Len(f[stream.read - 1]) <= Len(stream.out)
                        /\ ~stream.ended => Len(f[stream.read - 1]) < Len(stream.out)
  /\ stream.read = 0 => stream.batches = << >>
  /\ stream.ended => stream.read = Len(stream.blocks) /\ stream.batches = << >>

StreamRows(stream) == RowsByBlock(stream.ds, stream.blocks, stream.columns)

Progress(stream) == \E f : Flattens(f, StreamRows(stream)) /\ Advances(stream, f)

StreamsProgress ==
  AnySeq(streams) /\ \A s \in 1 .. Len(streams) : IsStream(streams[s]) /\ Progress(streams[s])

(* Only one stream is the one-shot reader's.                                  *)
ReadOnce ==
  /\ consumed \in BOOLEAN
  /\ \A s \in 1 .. Len(streams) : streams[s].source = "reader" => consumed = TRUE
  /\ \A s, t \in 1 .. Len(streams) :
       streams[s].source = "reader" /\ streams[t].source = "reader" => s = t

IsTable ==
  \/ table = NoTable
  \/ table = [kind |-> "TypeError"]
  \/ /\ table = [kind |-> "memory",
                 partitions |-> InMemoryPartitions(dataset, chunks, Cpus, batch_size)]
     /\ FitsInMemory(dataset)
  \/ /\ table = [kind |-> "lazy", partitions |-> PartitionPairs(Source)]
     /\ \A i \in DOMAIN Blocks(Source) : HasLen(Blocks(Source)[i])

(* The inductive invariant.                                                   *)
GridInv == Given /\ StreamsProgress /\ ReadOnce /\ IsTable

LEMMA GivenParts ==
  ASSUME Given
  PROVE  /\ IsDataset(dataset) /\ Indexed(Source) /\ IsGrid(Source)
         /\ DimsOf(Source) = DimsOf(dataset)
         /\ (chunks # NoChunks => Ints(chunks))
         /\ batch_size \in Nat \ {0} /\ Cpus \in Nat \ {0}
         /\ Resolved(Source, ResolveChunks(Source, chunks))
         /\ Grid(Source, Blocks(Source))
         /\ Grid(dataset, Blocks(dataset))
<1>1. IsDataset(dataset) /\ (chunks # NoChunks => Ints(chunks))
  BY DatasetsAssumption DEF Given, Ints
<1>2. Indexed(Source) /\ DimsOf(Source) = DimsOf(dataset)
  BY <1>1, EnsuredDataset DEF Source, DimsOf
<1>3. IsGrid(Source)
  BY <1>2 DEF Indexed, IsDataset
<1>4. batch_size \in Nat \ {0} /\ Cpus \in Nat \ {0}
  BY BatchesAssumption DEF Given
<1>5. Resolved(Source, ResolveChunks(Source, chunks))
  BY <1>1, <1>3, ResolvedSizes
<1>6. Grid(Source, Blocks(Source))
  BY <1>3, <1>5, BlocksAreTheGrid DEF Blocks
<1>7. Grid(dataset, Blocks(dataset))
  <2>1. IsGrid(dataset)
    BY <1>1 DEF IsDataset
  <2>2. Resolved(dataset, ResolveChunks(dataset, chunks))
    BY <1>1, <2>1, ResolvedSizes
  <2> QED BY <2>1, <2>2, BlocksAreTheGrid DEF Blocks
<1> QED BY <1>1, <1>2, <1>3, <1>4, <1>5, <1>6, <1>7

(* What a stream is over, with its indexes or without.                        *)
LEMMA SourceParts ==
  ASSUME Given, NEW ds \in {dataset, Source}
  PROVE  /\ IsDataset(ds) /\ IsGrid(ds) /\ Grid(ds, Blocks(ds))
         /\ AnySeq(Blocks(ds)) /\ \A b \in 1 .. Len(Blocks(ds)) : IsBlock(ds, Blocks(ds)[b])
<1>1. CASE ds = dataset
  BY <1>1, GivenParts DEF IsDataset, Grid
<1>2. CASE ds = Source
  BY <1>2, GivenParts DEF Indexed, Grid
<1> QED BY <1>1, <1>2

(* A stream begins.                                                           *)
LEMMA StreamBegins ==
  ASSUME Given, NEW source, NEW ds \in {dataset, Source}, NEW blocks, AnySeq(blocks),
         \A b \in 1 .. Len(blocks) : IsBlock(ds, blocks[b]),
         NEW columns \in SUBSET Columns(ds),
         source = "partition" => Len(blocks) = 1,
         source # "partition" => blocks = Blocks(ds) /\ columns = Columns(ds),
         source = "read_xarray" => ds = Source
  PROVE  LET stream == Stream(source, ds, blocks, columns) IN
         IsStream(stream) /\ Progress(stream) /\ stream.source = source
<1> DEFINE stream == Stream(source, ds, blocks, columns)
<1>1. /\ DOMAIN stream = {"source", "ds", "blocks", "columns", "read", "batches", "out", "ended"}
      /\ stream.source = source /\ stream.ds = ds /\ stream.blocks = blocks
      /\ stream.columns = columns /\ stream.read = 0 /\ stream.batches = << >>
      /\ stream.out = << >> /\ stream.ended = FALSE
  BY DEF Stream
<1> HIDE DEF stream
<1>2. IsStream(stream)
  BY <1>1 DEF IsStream
<1>3. SeqOfSeqs(StreamRows(stream))
  BY <1>1, SourceParts, RowsByBlockParts DEF StreamRows
<1>4. PICK f : Flattens(f, StreamRows(stream))
  BY <1>3, FlattenConcatenates
<1>5. f[0] = << >>
  BY <1>4 DEF Flattens, Concatenates
<1>6. AnySeq(<< >>) /\ Len(<< >>) = 0 /\ SeqOfSeqs(<< >>) /\ FlattenSeq(<< >>) = << >>
      /\ << >> \o << >> = << >>
  <2>1. AnySeq(<< >>) /\ Len(<< >>) = 0
    <3>1. << >> \in Seq({})
      OBVIOUS
    <3> QED BY <3>1 DEF AnySeq
  <2> QED BY <2>1, FlattenNone, JoinEmpty
<1>7. 0 \in 0 .. Len(blocks)
  BY SequenceParts
<1>8. Advances(stream, f)
  BY <1>1, <1>5, <1>6, <1>7 DEF Advances
<1> QED BY <1>1, <1>2, <1>4, <1>8 DEF Progress, stream

(* A pull, of the stream alone.                                               *)
Pulled(stream) ==
  LET rest == {b \in stream.read + 1 .. Len(stream.blocks) : BatchesOf(stream, b) # << >>}
      b == Min(rest)
  IN  IF stream.batches # << >>
      THEN [stream EXCEPT !.out = stream.out \o Head(stream.batches),
                          !.batches = Tail(stream.batches)]
      ELSE IF rest = {} THEN [stream EXCEPT !.read = Len(stream.blocks), !.ended = TRUE]
      ELSE [stream EXCEPT !.read = b, !.out = stream.out \o Head(BatchesOf(stream, b)),
                          !.batches = Tail(BatchesOf(stream, b))]

LEMMA FlattenIsSeq ==
  ASSUME NEW parts, SeqOfSeqs(parts)
  PROVE  AnySeq(FlattenSeq(parts)) /\ AnySeq(parts) /\ Len(parts) \in Nat
<1>1. PICK off : Placed(FlattenSeq(parts), parts, off)
  BY FlattenPlaces
<1> QED BY <1>1, SequenceParts DEF Placed, SeqOfSeqs

(* The batches of a block are none if it has no rows, and begin with some.    *)
LEMMA BatchesOfBlock ==
  ASSUME Given, NEW stream, IsStream(stream), NEW b \in 1 .. Len(stream.blocks)
  PROVE  LET batches == BatchesOf(stream, b)
             rows == StreamRows(stream)[b]
         IN  /\ AnySeq(rows) /\ SeqOfSeqs(batches) /\ FlattenSeq(batches) = rows
             /\ batches # << >> => /\ AnySeq(Head(batches)) /\ SeqOfSeqs(Tail(batches))
                                   /\ rows = Head(batches) \o FlattenSeq(Tail(batches))
                                   /\ Len(Head(batches)) \in Nat \ {0}
             /\ batches = << >> => rows = << >>
<1> DEFINE batches == BatchesOf(stream, b)
           rows == StreamRows(stream)[b]
           n == batch_size
<1>1. /\ IsBlock(stream.ds, stream.blocks[b]) /\ stream.ds \in {dataset, Source}
      /\ stream.columns \in SUBSET Columns(stream.ds) /\ AnySeq(stream.blocks)
  BY DEF IsStream
<1>2. n \in Nat \ {0} /\ IsDataset(stream.ds) /\ IsGrid(stream.ds)
  BY <1>1, GivenParts, SourceParts
<1>3. /\ rows = DatasetToRecordBatch(stream.ds, stream.blocks[b], stream.columns)
      /\ SeqOfSeqs(StreamRows(stream))
      /\ Len(StreamRows(stream)) = Len(stream.blocks)
  BY <1>1, <1>2, RowsByBlockParts DEF StreamRows, IsStream
<1>4. AnySeq(rows)
  BY <1>3 DEF SeqOfSeqs
<1>5. batches = Batched(rows, n)
  BY <1>1, <1>2, <1>3, IterIsBatched DEF BatchesOf
<1> HIDE DEF batches, rows, n
<1>6. /\ SeqOfSeqs(batches) /\ Len(batches) = CeilDiv(Len(rows), n) /\ FlattenSeq(batches) = rows
      /\ \A i \in 1 .. CeilDiv(Len(rows), n) : Len(batches[i]) \in 1 .. n
  BY <1>2, <1>4, <1>5, BatchedParts
<1>7. ASSUME batches # << >>
      PROVE  /\ AnySeq(Head(batches)) /\ SeqOfSeqs(Tail(batches))
             /\ rows = Head(batches) \o FlattenSeq(Tail(batches))
             /\ Len(Head(batches)) \in Nat \ {0}
  <2>1. AnySeq(batches)
    BY <1>6 DEF SeqOfSeqs
  <2>2. Head(batches) = batches[1] /\ 1 \in 1 .. Len(batches)
    BY <1>7, <2>1, SequenceParts
  <2>3. Len(Head(batches)) \in Nat \ {0}
    BY <1>6, <2>2
  <2> QED BY <1>6, <1>7, <2>3, FlattenHead
<1>8. ASSUME batches = << >>
      PROVE  rows = << >>
  <2>1. FlattenSeq(<< >>) = << >>
    <3>1. AnySeq(<< >>) /\ Len(<< >>) = 0
      <4>1. << >> \in Seq({})
        OBVIOUS
      <4> QED BY <4>1 DEF AnySeq
    <3> QED BY <3>1, FlattenNone
  <2> QED BY <1>6, <1>8, <2>1
<1> QED BY <1>4, <1>6, <1>7, <1>8 DEF batches, rows

LEMMA PullAdvances ==
  ASSUME Given, NEW stream, IsStream(stream), Progress(stream), ~stream.ended
  PROVE  /\ IsStream(Pulled(stream)) /\ Progress(Pulled(stream))
         /\ Pulled(stream).source = stream.source
<1> DEFINE N == Len(stream.blocks)
           parts == StreamRows(stream)
           rest == {b \in stream.read + 1 .. N : BatchesOf(stream, b) # << >>}
           new == Pulled(stream)
           r == stream.read
           out == stream.out
<1>1. PICK f : Flattens(f, parts) /\ Advances(stream, f)
  BY DEF Progress
<1>2. /\ IsGrid(stream.ds) /\ AnySeq(stream.blocks)
      /\ \A b \in 1 .. N : IsBlock(stream.ds, stream.blocks[b])
  BY SourceParts DEF IsStream
<1>3. SeqOfSeqs(parts) /\ Len(parts) = N /\ N \in Nat
  BY <1>2, RowsByBlockParts, SequenceParts DEF StreamRows
<1>4. /\ \A n \in 0 .. N : AnySeq(f[n]) /\ Len(f[n]) \in Nat
      /\ \A n \in 1 .. N : f[n] = f[n - 1] \o parts[n]
      /\ f[0] = << >>
  BY <1>1, <1>3, SequenceParts DEF Flattens, Concatenates
<1>5. /\ r \in 0 .. N /\ AnySeq(out) /\ SeqOfSeqs(stream.batches)
      /\ out \o FlattenSeq(stream.batches) = f[r]
      /\ r > 0 => Len(f[r - 1]) < Len(out)
      /\ r = 0 => stream.batches = << >>
  BY <1>1 DEF Advances
<1>6. Len(out) \in Nat
  BY <1>5, SequenceParts
<1>7. ASSUME NEW q, DOMAIN q = DOMAIN stream, q.source = stream.source, q.ds = stream.ds,
             q.blocks = stream.blocks, q.columns = stream.columns, Advances(q, f)
      PROVE  IsStream(q) /\ Progress(q)
  <2>1. StreamRows(q) = parts
    BY <1>7 DEF StreamRows
  <2>2. Progress(q)
    BY <1>1, <1>7, <2>1 DEF Progress
  <2> HIDE DEF parts
  <2>3. IsStream(q)
    BY <1>7 DEF IsStream
  <2> QED BY <2>2, <2>3
<1>8. CASE stream.batches # << >>
  <2> DEFINE h == Head(stream.batches)
             t == Tail(stream.batches)
  <2>1. new = [stream EXCEPT !.out = out \o h, !.batches = t]
    BY <1>8 DEF Pulled
  <2>2. /\ DOMAIN new = DOMAIN stream /\ new.source = stream.source /\ new.ds = stream.ds
        /\ new.blocks = stream.blocks /\ new.columns = stream.columns
        /\ new.read = r /\ new.out = out \o h /\ new.batches = t /\ new.ended = stream.ended
    BY <2>1 DEF IsStream
  <2>3. SeqOfSeqs(t) /\ AnySeq(h) /\ FlattenSeq(stream.batches) = h \o FlattenSeq(t)
    BY <1>5, <1>8, FlattenHead
  <2>4. AnySeq(FlattenSeq(t))
    BY <2>3, FlattenIsSeq
  <2> HIDE DEF h, t, out, r, new
  <2>5. /\ AnySeq(out \o h) /\ Len(out \o h) = Len(out) + Len(h) /\ Len(h) \in Nat
        /\ (out \o h) \o FlattenSeq(t) = f[r]
    <3>1. AnySeq(out \o h) /\ Len(out \o h) = Len(out) + Len(h)
      BY <1>5, <2>3, JoinedSequence
    <3>2. Len(h) \in Nat
      BY <2>3, SequenceParts
    <3>3. (out \o h) \o FlattenSeq(t) = out \o (h \o FlattenSeq(t))
      <4> DEFINE u == FlattenSeq(t)
      <4>1. AnySeq(out) /\ AnySeq(h) /\ AnySeq(u)
        BY <1>5, <2>3, <2>4
      <4> HIDE DEF u
      <4>2. (out \o h) \o u = out \o (h \o u)
        BY <4>1, JoinAssociates
      <4> QED BY <4>2 DEF u
    <3>4. out \o (h \o FlattenSeq(t)) = f[r]
      BY <1>5, <2>3
    <3> QED BY <3>1, <3>2, <3>3, <3>4
  <2>6. r > 0 /\ r - 1 \in 0 .. N
    BY <1>3, <1>5, <1>8
  <2>7. Len(f[r - 1]) < Len(out \o h) /\ Len(f[r - 1]) \in Nat
    <3>1. Len(f[r - 1]) \in Nat
      BY <1>4, <2>6
    <3> QED BY <1>5, <1>6, <2>5, <2>6, <3>1
  <2>8. Advances(new, f)
    BY <1>5, <2>2, <2>3, <2>5, <2>6, <2>7 DEF Advances
  <2> QED BY <1>7, <2>2, <2>8 DEF new
<1>9. ASSUME stream.batches = << >>
      PROVE  out = f[r]
  <2>1. FlattenSeq(<< >>) = << >>
    <3>1. AnySeq(<< >>) /\ Len(<< >>) = 0
      <4>1. << >> \in Seq({})
        OBVIOUS
      <4> QED BY <4>1 DEF AnySeq
    <3> QED BY <3>1, FlattenNone
  <2> QED BY <1>5, <1>9, <2>1, JoinEmpty
<1>10. \A b \in 1 .. N : BatchesOf(stream, b) = << >> => parts[b] = << >>
  BY BatchesOfBlock
<1>11. CASE stream.batches = << >> /\ rest = {}
  <2>1. new = [stream EXCEPT !.read = N, !.ended = TRUE]
    BY <1>11 DEF Pulled
  <2>2. /\ DOMAIN new = DOMAIN stream /\ new.source = stream.source /\ new.ds = stream.ds
        /\ new.blocks = stream.blocks /\ new.columns = stream.columns
        /\ new.read = N /\ new.out = out /\ new.batches = << >> /\ new.ended = TRUE
    BY <1>11, <2>1 DEF IsStream
  <2>3. \A b \in r + 1 .. N : parts[b] = << >>
    <3>1. \A b \in r + 1 .. N : b \in 1 .. N /\ BatchesOf(stream, b) = << >>
      BY <1>3, <1>5, <1>11
    <3> QED BY <1>10, <3>1
  <2> HIDE DEF parts, rest, new, N
  <2>4. N \in r .. N /\ N \in 0 .. N
    BY <1>3, <1>5
  <2>5. f[N] = f[r]
    <3> HIDE DEF r
    <3> QED BY <1>1, <1>3, <1>5, <2>3, <2>4, FlattenStays
  <2>6. out = f[N]
    BY <1>9, <1>11, <2>5
  <2>7. N > 0 => Len(f[N - 1]) <= Len(out)
    <3> SUFFICES ASSUME N > 0 PROVE Len(f[N - 1]) <= Len(out)
      OBVIOUS
    <3>1. N - 1 \in 0 .. N /\ N \in N - 1 .. N
      BY <1>3
    <3>2. Begins(f[N - 1], f[N])
      BY <1>1, <1>3, <3>1, FlattenBegins
    <3> QED BY <2>6, <3>2 DEF Begins
  <2>8. out \o FlattenSeq(<< >>) = out /\ SeqOfSeqs(<< >>)
    BY <1>5, <1>11, <1>9
  <2>9. Advances(new, f)
    BY <1>5, <2>2, <2>4, <2>6, <2>7, <2>8 DEF Advances, N
  <2> QED BY <1>7, <2>2, <2>9 DEF new
<1>12. CASE stream.batches = << >> /\ rest # {}
  <2> DEFINE b == Min(rest)
             batches == BatchesOf(stream, b)
             h == Head(batches)
             t == Tail(batches)
  <2>1. new = [stream EXCEPT !.read = b, !.out = out \o h, !.batches = t]
    BY <1>12 DEF Pulled
  <2>2. /\ DOMAIN new = DOMAIN stream /\ new.source = stream.source /\ new.ds = stream.ds
        /\ new.blocks = stream.blocks /\ new.columns = stream.columns
        /\ new.read = b /\ new.out = out \o h /\ new.batches = t /\ new.ended = stream.ended
    BY <2>1 DEF IsStream
  <2>3. b \in rest /\ \A i \in rest : b <= i
    <3>1. rest \in SUBSET (1 .. N)
      BY <1>3, <1>5
    <3> HIDE DEF rest, N
    <3> QED BY <1>3, <1>12, <3>1, IntervalEnds
  <2>4. b \in r + 1 .. N /\ b \in 1 .. N /\ batches # << >> /\ b \in Nat
    BY <1>3, <1>5, <2>3
  <2>5. \A i \in r + 1 .. b - 1 : parts[i] = << >>
    <3> SUFFICES ASSUME NEW i \in r + 1 .. b - 1 PROVE parts[i] = << >>
      OBVIOUS
    <3>1. i \in r + 1 .. N /\ i \in 1 .. N /\ ~(b <= i)
      BY <1>3, <1>5, <2>4
    <3>2. i \notin rest
      BY <2>3, <3>1
    <3>3. BatchesOf(stream, i) = << >>
      BY <3>1, <3>2
    <3> QED BY <1>10, <3>1, <3>3
  <2>6. /\ AnySeq(h) /\ SeqOfSeqs(t) /\ parts[b] = h \o FlattenSeq(t) /\ Len(h) \in Nat \ {0}
    BY <2>4, BatchesOfBlock
  <2> HIDE DEF parts, rest, new, N, b, batches, h, t
  <2>7. b - 1 \in 0 .. N /\ b - 1 \in r .. N /\ b > 0 /\ b \in 0 .. N
    BY <1>3, <1>5, <2>4
  <2>8. f[b - 1] = f[r]
    <3> DEFINE m == b - 1
    <3>1. m \in r .. Len(parts) /\ r \in 0 .. Len(parts) /\ \A i \in r + 1 .. m : parts[i] = << >>
      BY <1>3, <1>5, <2>5, <2>7
    <3> HIDE DEF m, r
    <3>2. f[m] = f[r]
      BY <1>1, <1>3, <3>1, FlattenStays
    <3> QED BY <3>2 DEF m
  <2>9. out = f[b - 1]
    BY <1>9, <1>12, <2>8
  <2>10. AnySeq(FlattenSeq(t))
    BY <2>6, FlattenIsSeq
  <2>11. (out \o h) \o FlattenSeq(t) = f[b]
    <3>1. (out \o h) \o FlattenSeq(t) = out \o (h \o FlattenSeq(t))
      <4> DEFINE u == FlattenSeq(t)
      <4>1. AnySeq(out) /\ AnySeq(h) /\ AnySeq(u)
        BY <1>5, <2>6, <2>10
      <4> HIDE DEF out, u
      <4>2. (out \o h) \o u = out \o (h \o u)
        BY <4>1, JoinAssociates
      <4> QED BY <4>2 DEF u
    <3>2. f[b] = f[b - 1] \o parts[b]
      BY <1>4, <2>4
    <3> QED BY <2>6, <2>9, <3>1, <3>2
  <2>12. AnySeq(out \o h) /\ Len(out \o h) = Len(out) + Len(h)
    <3> HIDE DEF out
    <3> QED BY <1>5, <2>6, JoinedSequence
  <2>13. Len(f[b - 1]) < Len(out \o h) /\ Len(f[b - 1]) <= Len(out \o h)
    BY <1>6, <2>6, <2>9, <2>12
  <2>14. Advances(new, f)
    <3>1. b \in 0 .. Len(new.blocks) /\ ~(b = 0)
      BY <2>2, <2>7 DEF N
    <3> HIDE DEF out, r
    <3> QED BY <2>2, <2>6, <2>11, <2>12, <2>13, <3>1 DEF Advances
  <2> QED BY <1>7, <2>2, <2>14 DEF new
<1> QED BY <1>8, <1>11, <1>12

-----------------------------------------------------------------------------
(* What the streams and the table keep, each step keeps.                      *)
Fixed == UNCHANGED <<dataset, chunks, batch_size>>

LEMMA FixedParts ==
  ASSUME Given, Fixed
  PROVE  /\ Given' /\ Source' = Source /\ Blocks(Source)' = Blocks(Source)
         /\ \A stream : IsStream(stream) => IsStream(stream)'
<1>1. Given'
  BY DEF Given, Fixed
<1>2. Source' = Source
  BY DEF Source, Fixed
<1>3. Blocks(Source)' = Blocks(Source)
  BY <1>2 DEF Blocks, Fixed
<1>4. ASSUME NEW stream, IsStream(stream)
      PROVE  IsStream(stream)'
  <2>1. dataset' = dataset /\ chunks' = chunks
    BY DEF Fixed
  <2> QED BY <1>2, <1>4, <2>1 DEF IsStream, Blocks
<1> QED BY <1>1, <1>2, <1>3, <1>4

LEMMA OpenKeeps ==
  ASSUME Given, Fixed, StreamsProgress, ReadOnce,
         NEW stream, IsStream(stream), Progress(stream), streams' = Append(streams, stream),
         consumed' \in BOOLEAN, consumed => consumed',
         stream.source = "reader" => ~consumed /\ consumed'
  PROVE  StreamsProgress' /\ ReadOnce'
<1> DEFINE n == Len(streams) + 1
<1>1. /\ AnySeq(streams) /\ Len(streams) \in Nat
      /\ \A s \in 1 .. Len(streams) : IsStream(streams[s]) /\ Progress(streams[s])
  BY SequenceParts DEF StreamsProgress
<1>2. /\ AnySeq(streams') /\ Len(streams') = n /\ streams'[n] = stream
      /\ \A s \in 1 .. Len(streams) : streams'[s] = streams[s]
  BY <1>1, AppendedSequence
<1>3. \A s \in 1 .. n : s = n \/ s \in 1 .. Len(streams)
  BY <1>1
<1>4. \A q : IsStream(q) => IsStream(q)'
  BY FixedParts
<1> HIDE DEF n
<1>5. \A s \in 1 .. n : IsStream(streams'[s]) /\ Progress(streams'[s])
  BY <1>1, <1>2, <1>3
<1>6. \A s \in 1 .. n : IsStream(streams[s])' /\ Progress(streams[s])'
  <2> SUFFICES ASSUME NEW s \in 1 .. n PROVE IsStream(streams[s])' /\ Progress(streams[s])'
    OBVIOUS
  <2> DEFINE q == streams'[s]
  <2>1. IsStream(q) /\ Progress(q)
    BY <1>5
  <2>2. (IsStream(streams[s]))' /\ Progress(streams'[s])
    BY <1>2, <2>1, FixedParts DEF IsStream
  <2> QED BY <2>2 DEF Progress, StreamRows, Advances
<1>7. StreamsProgress'
  BY <1>2, <1>6 DEF StreamsProgress
<1>8. ReadOnce'
  <2>1. \A s \in 1 .. n : streams'[s].source = "reader" => consumed' = TRUE
    BY <1>2, <1>3 DEF ReadOnce
  <2>2. ASSUME NEW s \in 1 .. n, NEW t \in 1 .. n,
               streams'[s].source = "reader", streams'[t].source = "reader"
        PROVE  s = t
    <3>1. CASE s = n /\ t = n
      BY <3>1
    <3>2. CASE s # n /\ t # n
      BY <1>2, <1>3, <2>2, <3>2 DEF ReadOnce
    <3>3. CASE s = n /\ t # n
      BY <1>2, <1>3, <2>2, <3>3 DEF ReadOnce
    <3>4. CASE s # n /\ t = n
      BY <1>2, <1>3, <2>2, <3>4 DEF ReadOnce
    <3> QED BY <3>1, <3>2, <3>3, <3>4
  <2> QED BY <1>2, <2>1, <2>2 DEF ReadOnce
<1> QED BY <1>7, <1>8

LEMMA ReaderBegins ==
  ASSUME Given, NEW source \in {"reader", "stream", "read_xarray"}, NEW ds \in {dataset, Source},
         source = "read_xarray" => ds = Source
  PROVE  LET stream == Reader(source, ds) IN
         IsStream(stream) /\ Progress(stream) /\ stream.source = source
<1>1. Reader(source, ds) = Stream(source, ds, Blocks(ds), Columns(ds))
  BY DEF Reader
<1>2. AnySeq(Blocks(ds)) /\ \A b \in 1 .. Len(Blocks(ds)) : IsBlock(ds, Blocks(ds)[b])
  BY SourceParts
<1>3. source # "partition"
  OBVIOUS
<1>4. Columns(ds) \in SUBSET Columns(ds)
  OBVIOUS
<1>5. LET stream == Stream(source, ds, Blocks(ds), Columns(ds)) IN
      IsStream(stream) /\ Progress(stream) /\ stream.source = source
  BY ONLY Given, ds \in {dataset, Source}, source = "read_xarray" => ds = Source,
          <1>2, <1>3, <1>4, StreamBegins
<1> QED BY <1>1, <1>5

LEMMA PartitionBegins ==
  ASSUME Given, IsTable, table # NoTable, table.kind = "lazy",
         NEW i \in DOMAIN table.partitions, NEW columns
  PROVE  LET stream == Stream("partition", Source, <<table.partitions[i].block>>,
                              columns \cap Columns(Source))
         IN  IsStream(stream) /\ Progress(stream) /\ stream.source = "partition"
<1> DEFINE pairs == PartitionPairs(Source)
           block == table.partitions[i].block
           blocks == <<block>>
<1>1. table.partitions = pairs /\ \A b \in DOMAIN Blocks(Source) : HasLen(Blocks(Source)[b])
  <2>1. CASE table = [kind |-> "TypeError"]
    BY <2>1
  <2>2. CASE table = [kind |-> "memory",
                      partitions |-> InMemoryPartitions(dataset, chunks, Cpus, batch_size)]
    BY <2>2
  <2> QED BY <2>1, <2>2 DEF IsTable
<1>2. /\ DOMAIN pairs = DOMAIN Blocks(Source)
      /\ \A b \in DOMAIN Blocks(Source) : pairs[b].block = Blocks(Source)[b]
  BY <1>1, GivenParts, PairsHoldRows
<1>3. IsBlock(Source, block)
  <2>1. DOMAIN Blocks(Source) = 1 .. Len(Blocks(Source))
        /\ \A b \in 1 .. Len(Blocks(Source)) : IsBlock(Source, Blocks(Source)[b])
    BY GivenParts, SequenceParts DEF Grid
  <2> HIDE DEF pairs
  <2>2. i \in DOMAIN Blocks(Source) /\ block = Blocks(Source)[i]
    BY <1>1, <1>2
  <2> QED BY <2>1, <2>2
<1> HIDE DEF block
<1>4. AnySeq(blocks) /\ Len(blocks) = 1 /\ \A b \in 1 .. Len(blocks) : IsBlock(Source, blocks[b])
  <2>1. blocks \in Seq({block}) /\ Len(blocks) = 1 /\ blocks[1] = block
    OBVIOUS
  <2>2. \A b \in 1 .. 1 : b = 1
    OBVIOUS
  <2> HIDE DEF blocks
  <2> QED BY <1>3, <2>1, <2>2 DEF AnySeq
<1>5. columns \cap Columns(Source) \in SUBSET Columns(Source)
  OBVIOUS
<1> HIDE DEF blocks
<1>6. LET stream == Stream("partition", Source, blocks, columns \cap Columns(Source))
      IN  IsStream(stream) /\ Progress(stream) /\ stream.source = "partition"
  BY <1>4, <1>5, StreamBegins
<1> QED BY <1>6 DEF blocks, block

LEMMA PullKeeps ==
  ASSUME Given, StreamsProgress, ReadOnce, NEW s \in DOMAIN streams, Pull(s)
  PROVE  StreamsProgress' /\ ReadOnce'
<1> DEFINE new == Pulled(streams[s])
           n == Len(streams)
<1>1. /\ AnySeq(streams) /\ n \in Nat /\ DOMAIN streams = 1 .. n
      /\ \A t \in 1 .. n : IsStream(streams[t]) /\ Progress(streams[t])
  BY SequenceParts DEF StreamsProgress
<1>2. ~streams[s].ended /\ streams' = [streams EXCEPT ![s] = new] /\ Fixed /\ consumed' = consumed
  <2> DEFINE stream == streams[s]
             rest == {b \in stream.read + 1 .. Len(stream.blocks) : BatchesOf(stream, b) # << >>}
             b == Min(rest)
  <2>1. ~stream.ended /\ Fixed /\ consumed' = consumed
    BY DEF Pull, Fixed
  <2>2. CASE stream.batches # << >>
    <3>1. streams' = [streams EXCEPT ![s] =
                        [stream EXCEPT !.out = stream.out \o Head(stream.batches),
                                       !.batches = Tail(stream.batches)]]
      BY <2>2 DEF Pull
    <3>2. new = [stream EXCEPT !.out = stream.out \o Head(stream.batches),
                               !.batches = Tail(stream.batches)]
      BY <2>2 DEF Pulled
    <3> HIDE DEF new
    <3> QED BY <2>1, <3>1, <3>2
  <2>3. CASE stream.batches = << >> /\ rest = {}
    <3>1. streams' = [streams EXCEPT ![s] =
                        [stream EXCEPT !.read = Len(stream.blocks), !.ended = TRUE]]
      BY <2>3 DEF Pull
    <3>2. new = [stream EXCEPT !.read = Len(stream.blocks), !.ended = TRUE]
      BY <2>3 DEF Pulled
    <3> HIDE DEF new
    <3> QED BY <2>1, <3>1, <3>2
  <2>4. CASE stream.batches = << >> /\ rest # {}
    <3>1. streams' = [streams EXCEPT ![s] =
                        [stream EXCEPT !.read = b, !.out = stream.out \o Head(BatchesOf(stream, b)),
                                       !.batches = Tail(BatchesOf(stream, b))]]
      BY <2>4 DEF Pull
    <3>2. new = [stream EXCEPT !.read = b, !.out = stream.out \o Head(BatchesOf(stream, b)),
                               !.batches = Tail(BatchesOf(stream, b))]
      BY <2>4 DEF Pulled
    <3> HIDE DEF new
    <3> QED BY <2>1, <3>1, <3>2
  <2> QED BY <2>2, <2>3, <2>4
<1>3. IsStream(new) /\ Progress(new) /\ new.source = streams[s].source
  BY <1>1, <1>2, PullAdvances
<1> HIDE DEF new, n
<1>4. /\ DOMAIN streams' = 1 .. n /\ streams' = [t \in 1 .. n |-> streams'[t]]
      /\ \A t \in 1 .. n : streams'[t] = IF t = s THEN new ELSE streams[t]
  <2>1. streams' = [t \in DOMAIN streams |-> IF t = s THEN new ELSE streams[t]]
    BY <1>2
  <2> QED BY <1>1, <2>1
<1>5. AnySeq(streams') /\ Len(streams') = n
  BY <1>1, <1>4, MadeSequence
<1>6. ASSUME NEW t \in 1 .. n
      PROVE  IsStream(streams[t])' /\ Progress(streams[t])' /\ streams'[t].source = streams[t].source
  <2> DEFINE q == streams'[t]
  <2>1. IsStream(q) /\ Progress(q) /\ q.source = streams[t].source
    BY <1>1, <1>3, <1>4
  <2>2. (IsStream(streams[t]))' /\ Progress(streams'[t])
    BY <1>2, <2>1, FixedParts DEF IsStream
  <2> QED BY <2>1, <2>2 DEF Progress, StreamRows, Advances
<1>7. StreamsProgress'
  BY <1>5, <1>6 DEF StreamsProgress
<1>8. ReadOnce'
  BY <1>2, <1>5, <1>6 DEF ReadOnce, n
<1> QED BY <1>7, <1>8

LEMMA TableKeeps ==
  ASSUME Given, IsTable, Fixed, table' = table
  PROVE  IsTable'
<1>1. PartitionPairs(Source)' = PartitionPairs(Source)
  BY FixedParts DEF Fixed, PartitionPairs
<1>2. FitsInMemory(dataset)' = FitsInMemory(dataset)
  BY DEF Fixed
<1>3. /\ Source' = Source /\ Blocks(Source)' = Blocks(Source)
      /\ dataset' = dataset /\ chunks' = chunks /\ batch_size' = batch_size
  BY FixedParts DEF Fixed
<1> QED BY <1>1, <1>2, <1>3 DEF IsTable

LEMMA GridInvInit ==
  ASSUME Init
  PROVE  GridInv
<1>1. Given
  BY DEF Init, Given
<1>2. AnySeq(<< >>) /\ Len(<< >>) = 0
  <2>1. << >> \in Seq({})
    OBVIOUS
  <2> QED BY <2>1 DEF AnySeq
<1>3. AnySeq(streams) /\ 1 .. Len(streams) = {} /\ consumed = FALSE
  BY <1>2 DEF Init
<1>4. StreamsProgress
  BY <1>3 DEF StreamsProgress
<1>5. ReadOnce
  BY <1>3 DEF ReadOnce
<1>6. IsTable
  BY DEF Init, IsTable
<1> QED BY <1>1, <1>4, <1>5, <1>6 DEF GridInv

LEMMA GridInvNext ==
  ASSUME GridInv, [Next]_vars
  PROVE  GridInv'
<1> USE DEF GridInv
<1>0. Given /\ StreamsProgress /\ ReadOnce /\ IsTable
  OBVIOUS
<1>1. CASE Export
  <2>1. Fixed /\ table' = table
    BY <1>1 DEF Export, Fixed
  <2>2. CASE consumed
    <3>1. streams' = streams /\ consumed' = consumed
      BY <1>1, <2>2 DEF Export
    <3>2. ReadOnce'
      BY <1>0, <3>1 DEF ReadOnce
    <3>3. StreamsProgress'
      <4>1. \A t \in 1 .. Len(streams) : IsStream(streams[t])' /\ Progress(streams[t])'
        <5> SUFFICES ASSUME NEW t \in 1 .. Len(streams)
                     PROVE  IsStream(streams[t])' /\ Progress(streams[t])'
          OBVIOUS
        <5>1. IsStream(streams[t]) /\ Progress(streams[t])
          BY <1>0 DEF StreamsProgress
        <5>2. IsStream(streams[t])'
          BY <1>0, <2>1, <3>1, <5>1, FixedParts DEF IsStream
        <5> QED BY <3>1, <5>1, <5>2 DEF Progress, StreamRows, Advances
      <4> QED BY <1>0, <3>1, <4>1 DEF StreamsProgress
    <3> QED BY <1>0, <2>1, <3>2, <3>3, FixedParts, TableKeeps
  <2>3. CASE ~consumed
    <3>1. streams' = Append(streams, Reader("reader", dataset)) /\ consumed' = TRUE
      BY <1>1, <2>3 DEF Export, Open
    <3> DEFINE stream == Reader("reader", dataset)
    <3>2. IsStream(stream) /\ Progress(stream)
      BY <1>0, ReaderBegins
    <3> HIDE DEF stream
    <3>3. StreamsProgress' /\ ReadOnce'
      BY <1>0, <2>1, <2>3, <3>1, <3>2, OpenKeeps DEF stream
    <3> QED BY <1>0, <2>1, <3>3, FixedParts, TableKeeps
  <2> QED BY <2>2, <2>3
<1>2. CASE ExportStream
  <2>1. Fixed /\ table' = table /\ consumed' = consumed /\ streams' = Append(streams, Reader("stream", dataset))
    BY <1>2 DEF ExportStream, Fixed, Open
  <2> DEFINE stream == Reader("stream", dataset)
  <2>2. IsStream(stream) /\ Progress(stream) /\ stream.source = "stream"
    BY <1>0, ReaderBegins
  <2> HIDE DEF stream
  <2>3. consumed' \in BOOLEAN
    BY <1>0, <2>1 DEF ReadOnce
  <2>4. StreamsProgress' /\ ReadOnce'
    BY <1>0, <2>1, <2>2, <2>3, OpenKeeps DEF stream
  <2> QED BY <1>0, <2>1, <2>4, FixedParts, TableKeeps
<1>8. CASE ReadXarray
  <2>1. /\ Fixed /\ table' = table /\ consumed' = consumed
        /\ streams' = Append(streams, Reader("read_xarray", Source))
    BY <1>8 DEF ReadXarray, Fixed, Open, Source
  <2> DEFINE stream == Reader("read_xarray", Source)
  <2>2. IsStream(stream) /\ Progress(stream) /\ stream.source = "read_xarray"
    BY <1>0, ReaderBegins
  <2> HIDE DEF stream
  <2>3. consumed' \in BOOLEAN
    BY <1>0, <2>1 DEF ReadOnce
  <2>4. StreamsProgress' /\ ReadOnce'
    BY <1>0, <2>1, <2>2, <2>3, OpenKeeps DEF stream
  <2> QED BY <1>0, <2>1, <2>4, FixedParts, TableKeeps
<1>3. ASSUME NEW s \in DOMAIN streams, Pull(s)
      PROVE  GridInv'
  <2>1. Fixed /\ table' = table
    BY <1>3 DEF Pull, Fixed
  <2>2. StreamsProgress' /\ ReadOnce'
    BY <1>0, <1>3, PullKeeps
  <2> QED BY <1>0, <2>1, <2>2, FixedParts, TableKeeps
<1>4. ASSUME Fixed, streams' = streams, consumed' = consumed
      PROVE  Given' /\ StreamsProgress' /\ ReadOnce'
  <2>1. \A t \in 1 .. Len(streams) : IsStream(streams[t])' /\ Progress(streams[t])'
    <3> SUFFICES ASSUME NEW t \in 1 .. Len(streams)
                 PROVE  IsStream(streams[t])' /\ Progress(streams[t])'
      OBVIOUS
    <3>1. IsStream(streams[t]) /\ Progress(streams[t])
      BY <1>0 DEF StreamsProgress
    <3>2. IsStream(streams[t])'
      BY <1>0, <1>4, <3>1, FixedParts DEF IsStream
    <3> QED BY <1>4, <3>1, <3>2 DEF Progress, StreamRows, Advances
  <2>2. StreamsProgress'
    BY <1>0, <1>4, <2>1 DEF StreamsProgress
  <2>3. ReadOnce'
    BY <1>0, <1>4 DEF ReadOnce
  <2> QED BY <1>0, <1>4, <2>2, <2>3, FixedParts
<1>5. CASE Register
  <2>1. Fixed /\ streams' = streams /\ consumed' = consumed
    BY <1>5 DEF Register, Fixed
  <2>2. table' =
          IF FitsInMemory(dataset)
          THEN [kind |-> "memory", partitions |-> InMemoryPartitions(dataset, chunks, Cpus, batch_size)]
          ELSE IF \E i \in DOMAIN Blocks(Source) : ~HasLen(Blocks(Source)[i])
          THEN [kind |-> "TypeError"]
          ELSE [kind |-> "lazy", partitions |-> PartitionPairs(Source)]
    BY <1>5 DEF Register, Source
  <2>3. /\ PartitionPairs(Source)' = PartitionPairs(Source) /\ Source' = Source
        /\ Blocks(Source)' = Blocks(Source)
        /\ dataset' = dataset /\ chunks' = chunks /\ batch_size' = batch_size
    BY <1>0, <2>1, FixedParts DEF Fixed, PartitionPairs
  <2>4. IsTable'
    <3>1. CASE FitsInMemory(dataset)
      BY <2>2, <2>3, <3>1 DEF IsTable
    <3>2. CASE ~FitsInMemory(dataset) /\ \E i \in DOMAIN Blocks(Source) : ~HasLen(Blocks(Source)[i])
      BY <2>2, <3>2 DEF IsTable
    <3>3. CASE ~FitsInMemory(dataset) /\ ~\E i \in DOMAIN Blocks(Source) : ~HasLen(Blocks(Source)[i])
      BY <2>2, <2>3, <3>3 DEF IsTable
    <3> QED BY <3>1, <3>2, <3>3
  <2> QED BY <1>4, <2>1, <2>4
<1>6. ASSUME table # NoTable, table.kind = "lazy", NEW i \in DOMAIN table.partitions,
             NEW columns \in Projections, OpenPartition(i, columns)
      PROVE  GridInv'
  <2> DEFINE stream == Stream("partition", Source, <<table.partitions[i].block>>,
                              columns \cap Columns(Source))
  <2>1. Fixed /\ table' = table /\ consumed' = consumed /\ streams' = Append(streams, stream)
    BY <1>6 DEF OpenPartition, Fixed, Open, Source
  <2>2. IsStream(stream) /\ Progress(stream) /\ stream.source = "partition"
    BY <1>0, <1>6, PartitionBegins
  <2> HIDE DEF stream
  <2>3. consumed' \in BOOLEAN
    BY <1>0, <2>1 DEF ReadOnce
  <2>4. StreamsProgress' /\ ReadOnce'
    BY <1>0, <2>1, <2>2, <2>3, OpenKeeps
  <2> QED BY <1>0, <2>1, <2>4, FixedParts, TableKeeps
<1>7. CASE UNCHANGED vars
  <2>1. Fixed /\ streams' = streams /\ consumed' = consumed /\ table' = table
    BY <1>7 DEF vars, Fixed
  <2> QED BY <1>0, <1>4, <2>1, TableKeeps
<1> QED BY <1>1, <1>2, <1>3, <1>5, <1>6, <1>7, <1>8 DEF Next

(* The invariant of the streams and the table.                                *)
THEOREM GridInvariant == Spec => []GridInv
<1>1. Init => GridInv
  BY GridInvInit
<1>2. GridInv /\ [Next]_vars => GridInv'
  BY GridInvNext
<1> QED BY <1>1, <1>2, PTL DEF Spec

-----------------------------------------------------------------------------
(* The properties.                                                            *)
LEMMA GridTable ==
  ASSUME GridInv
  PROVE  PartitionsHoldTheirRows
<1> SUFFICES ASSUME table # NoTable, table.kind = "lazy"
             PROVE  HoldRows(Source, table.partitions)
  BY DEF PartitionsHoldTheirRows, HoldRows, Source
<1>1. /\ table = [kind |-> "lazy", partitions |-> PartitionPairs(Source)]
      /\ \A i \in DOMAIN Blocks(Source) : HasLen(Blocks(Source)[i])
  <2>1. CASE table = [kind |-> "TypeError"]
    BY <2>1
  <2>2. CASE table = [kind |-> "memory",
                      partitions |-> InMemoryPartitions(dataset, chunks, Cpus, batch_size)]
    BY <2>2
  <2> QED BY <2>1, <2>2 DEF GridInv, IsTable
<1>2. Indexed(Source) /\ Resolved(Source, ResolveChunks(Source, chunks))
  BY GivenParts DEF GridInv
<1> QED BY <1>1, <1>2, PairsHoldRows

(* A lazy table tells the engine of each partition how many rows it has and   *)
(* bounds they keep, and its partitions are the grid once, whatever the       *)
(* dataset and the chunks (read_xarray_table of reader.py).                   *)
THEOREM PartitionsHold == Spec => []PartitionsHoldTheirRows
<1>1. GridInv => PartitionsHoldTheirRows
  BY GridTable
<1> QED BY <1>1, GridInvariant, PTL

LEMMA GridMemory ==
  ASSUME GridInv
  PROVE  InMemoryKeepsRows
<1> SUFFICES ASSUME table # NoTable, table.kind = "memory"
             PROVE  KeepRows(table.partitions, Rows(Source, WholeGrid(Source)), Cpus, batch_size)
  BY DEF InMemoryKeepsRows, KeepRows, Source
<1>1. /\ table = [kind |-> "memory",
                  partitions |-> InMemoryPartitions(dataset, chunks, Cpus, batch_size)]
      /\ FitsInMemory(dataset)
  <2>1. CASE table = [kind |-> "TypeError"]
    BY <2>1
  <2>2. CASE table = [kind |-> "lazy", partitions |-> PartitionPairs(Source)]
    BY <2>2
  <2> QED BY <2>1, <2>2 DEF GridInv, IsTable
<1>2. Product([i \in DOMAIN dataset.dims |-> dataset.size[dataset.dims[i]]]) # 0
  BY <1>1 DEF FitsInMemory
<1>3. /\ IsDataset(dataset) /\ (chunks # NoChunks => Ints(chunks))
      /\ batch_size \in Nat \ {0} /\ Cpus \in Nat \ {0}
  BY GivenParts DEF GridInv
<1>4. LET whole == EnsureDefaultIndexes(dataset) IN
      KeepRows(InMemoryPartitions(dataset, chunks, Cpus, batch_size),
               Rows(whole, WholeGrid(whole)), Cpus, batch_size)
  BY <1>2, <1>3, InMemoryKeep
<1> QED BY <1>1, <1>4 DEF Source

(* An in-memory table keeps the rows of the dataset in C order, in no more    *)
(* partitions and no larger batches than asked for (_in_memory_partitions of  *)
(* reader.py).                                                                *)
THEOREM InMemoryKeeps == Spec => []InMemoryKeepsRows
<1>1. GridInv => InMemoryKeepsRows
  BY GridMemory
<1> QED BY <1>1, GridInvariant, PTL

(* What a stream has given begins what it is to give, and is all of it when   *)
(* it ends.                                                                   *)
LEMMA OutBegins ==
  ASSUME Given, NEW stream, IsStream(stream), Progress(stream)
  PROVE  LET all == FlattenSeq(StreamRows(stream)) IN
         /\ AnySeq(stream.out) /\ AnySeq(all) /\ Begins(stream.out, all)
         /\ stream.ended => stream.out = all
<1> DEFINE parts == StreamRows(stream)
           N == Len(stream.blocks)
           r == stream.read
           out == stream.out
           left == FlattenSeq(stream.batches)
           all == FlattenSeq(parts)
<1>1. PICK f : Flattens(f, parts) /\ Advances(stream, f)
  BY DEF Progress
<1>2. /\ IsGrid(stream.ds) /\ AnySeq(stream.blocks)
      /\ \A b \in 1 .. N : IsBlock(stream.ds, stream.blocks[b])
  BY SourceParts DEF IsStream
<1>3. SeqOfSeqs(parts) /\ Len(parts) = N /\ N \in Nat
  BY <1>2, RowsByBlockParts, SequenceParts DEF StreamRows
<1>4. r \in 0 .. N /\ AnySeq(out) /\ SeqOfSeqs(stream.batches) /\ out \o left = f[r]
  BY <1>1 DEF Advances
<1>5. AnySeq(left)
  BY <1>4, FlattenIsSeq
<1>6. AnySeq(all) /\ f[N] = all /\ AnySeq(f[r])
  BY <1>1, <1>3, <1>4 DEF Flattens
<1>7. stream.ended => r = N /\ stream.batches = << >>
  BY <1>1 DEF Advances
<1>8. stream.ended => out = all
  <2> SUFFICES ASSUME stream.ended PROVE out = all
    OBVIOUS
  <2>1. AnySeq(<< >>) /\ Len(<< >>) = 0
    <3>1. << >> \in Seq({})
      OBVIOUS
    <3> QED BY <3>1 DEF AnySeq
  <2>2. left = << >>
    <3>1. FlattenSeq(<< >>) = << >>
      BY <2>1, FlattenNone
    <3> QED BY <1>7, <3>1
  <2>3. out \o << >> = out
    BY <1>4, JoinEmpty
  <2> QED BY <1>4, <1>6, <1>7, <2>2, <2>3
<1> HIDE DEF parts, N, r, left, all
<1>9. Begins(f[r], all)
  <2>1. r \in 0 .. Len(parts) /\ Len(parts) \in r .. Len(parts)
    BY <1>3, <1>4
  <2>2. Begins(f[r], f[Len(parts)])
    BY <1>1, <1>3, <2>1, FlattenBegins
  <2> QED BY <1>3, <1>6, <2>2
<1>10. Begins(out, f[r])
  <2> HIDE DEF out
  <2> QED BY <1>4, <1>5, JoinBegins
<1>11. Len(out) \in Nat /\ Len(f[r]) \in Nat /\ Len(all) \in Nat
  BY <1>4, <1>6, SequenceParts
<1>12. Begins(out, all)
  BY <1>9, <1>10, <1>11 DEF Begins
<1> QED BY <1>4, <1>6, <1>8, <1>12 DEF all, parts

LEMMA TimesGrow ==
  ASSUME NEW p, NEW q, AnySeq(p), AnySeq(q), Begins(p, q), NEW row
  PROVE  Times(p, row) <= Times(q, row)
<1> DEFINE S == {i \in DOMAIN p : p[i] = row}
           T == {i \in DOMAIN q : q[i] = row}
<1>1. /\ DOMAIN p = 1 .. Len(p) /\ DOMAIN q = 1 .. Len(q) /\ Len(p) \in Nat /\ Len(q) \in Nat
  BY SequenceParts
<1>2. S \subseteq T
  BY <1>1 DEF Begins
<1>3. IsFiniteSet(T)
  <2>1. IsFiniteSet(1 .. Len(q))
    BY <1>1, FS_Interval
  <2>2. T \subseteq 1 .. Len(q)
    BY <1>1
  <2> HIDE DEF T
  <2> QED BY <2>1, <2>2, FS_Subset
<1>4. Cardinality(S) <= Cardinality(T)
  <2> HIDE DEF S, T
  <2> QED BY <1>2, <1>3, FS_Subset
<1> QED BY <1>4 DEF Times

LEMMA TimesOnce ==
  ASSUME NEW p, AnySeq(p), Distinct(p), NEW row \in ToSet(p)
  PROVE  Times(p, row) = 1
<1> DEFINE S == {i \in DOMAIN p : p[i] = row}
<1>1. DOMAIN p = 1 .. Len(p)
  BY SequenceParts
<1>2. PICK i \in DOMAIN p : p[i] = row
  BY DEF ToSet
<1>3. S = {i}
  BY <1>1, <1>2 DEF Distinct
<1>4. Cardinality({i}) = 1
  BY FS_Singleton
<1> QED BY <1>3, <1>4 DEF Times

(* What a stream is to give has the rows expected of it, and none of them     *)
(* more often.                                                                *)
LEMMA AllIsExpected ==
  ASSUME Given, NEW stream, IsStream(stream)
  PROVE  LET all == FlattenSeq(StreamRows(stream))
             expected == Expected(stream)
         IN  /\ Len(all) = Len(expected)
             /\ \A row \in ToSet(all) : Times(all, row) = Times(expected, row)
<1> DEFINE ds == stream.ds
           parts == StreamRows(stream)
           all == FlattenSeq(parts)
           expected == Expected(stream)
<1>1. /\ IsGrid(ds) /\ Grid(ds, Blocks(ds)) /\ AnySeq(stream.blocks)
      /\ \A b \in 1 .. Len(stream.blocks) : IsBlock(ds, stream.blocks[b])
  BY SourceParts DEF IsStream
<1>2. /\ SeqOfSeqs(parts) /\ Len(parts) = Len(stream.blocks)
      /\ \A b \in 1 .. Len(stream.blocks) :
           parts[b] = DatasetToRecordBatch(ds, stream.blocks[b], stream.columns)
  BY <1>1, RowsByBlockParts DEF StreamRows
<1>3. CASE stream.source = "partition"
  <2>1. Len(stream.blocks) = 1
    BY <1>3 DEF IsStream
  <2>2. 1 \in 1 .. Len(parts) /\ \A i \in 1 .. Len(parts) : i # 1 => parts[i] = << >>
    <3> HIDE DEF parts
    <3> QED BY <1>2, <2>1
  <2>3. all = parts[1]
    <3> HIDE DEF parts
    <3> QED BY <1>2, <2>2, FlattenOne
  <2>4. expected = DatasetToRecordBatch(ds, stream.blocks[1], stream.columns)
    BY <1>1, <1>3 DEF Expected
  <2>5. parts[1] = DatasetToRecordBatch(ds, stream.blocks[1], stream.columns)
    <3> HIDE DEF parts
    <3> QED BY <1>2, <2>1
  <2> QED BY <2>3, <2>4, <2>5
<1>4. CASE stream.source # "partition"
  <2>1. stream.blocks = Blocks(ds) /\ stream.columns = Columns(ds)
    BY <1>4 DEF IsStream
  <2>2. DataVar \in Columns(ds)
    BY DEF Columns
  <2>3. expected = DatasetToRecordBatch(ds, WholeGrid(ds), Columns(ds))
    <3>1. CASE stream.source = "read_xarray"
      <4>1. Columns(ds) = DimsOf(dataset) \union {DataVar}
        BY <3>1, GivenParts DEF IsStream, Indexed, Columns
      <4> QED BY <3>1, <4>1 DEF Expected
    <3>2. CASE stream.source # "read_xarray"
      BY <1>4, <2>1, <3>2 DEF Expected
    <3> QED BY <3>1, <3>2
  <2>4. all = FlattenSeq(RowsByBlock(ds, Blocks(ds), Columns(ds)))
    BY <1>1, <2>1 DEF StreamRows
  <2> HIDE DEF all, expected
  <2>5. SameOnce(all, expected)
    BY <1>1, <2>2, <2>3, <2>4, GridRows
  <2>6. \A row \in ToSet(all) : Times(all, row) = 1 /\ Times(expected, row) = 1
    BY <2>5, TimesOnce DEF SameOnce
  <2> QED BY <2>5, <2>6 DEF SameOnce, all, expected
<1> QED BY <1>3, <1>4

(* The exports of the one-shot reader are one stream.                         *)
LEMMA DeliveredIsOut ==
  ASSUME GridInv, NEW s \in 1 .. Len(streams)
  PROVE  Delivered(s) = streams[s].out
<1> DEFINE parts == [t \in DOMAIN streams |->
                       IF streams[t].source = "reader" THEN streams[t].out ELSE << >>]
           N == Len(streams)
<1>1. /\ AnySeq(streams) /\ N \in Nat /\ DOMAIN streams = 1 .. N
      /\ \A t \in 1 .. N : IsStream(streams[t]) /\ Progress(streams[t])
  BY SequenceParts DEF GridInv, StreamsProgress
<1>2. CASE streams[s].source # "reader"
  BY <1>2 DEF Delivered
<1>3. CASE streams[s].source = "reader"
  <2>1. Delivered(s) = FlattenSeq(parts)
    BY <1>3 DEF Delivered
  <2>2. /\ DOMAIN parts = 1 .. N /\ parts = [t \in 1 .. N |-> parts[t]]
        /\ \A t \in 1 .. N :
             parts[t] = IF streams[t].source = "reader" THEN streams[t].out ELSE << >>
    BY <1>1
  <2> HIDE DEF parts
  <2>3. AnySeq(parts) /\ Len(parts) = N
    BY <1>1, <2>2, MadeSequence
  <2>4. \A t \in 1 .. N : AnySeq(streams[t].out)
    <3>1. ASSUME NEW t \in 1 .. N PROVE AnySeq(streams[t].out)
      BY <1>1 DEF Progress, Advances
    <3> QED BY <3>1
  <2>5. SeqOfSeqs(parts)
    <3>1. AnySeq(<< >>)
      <4>1. << >> \in Seq({})
        OBVIOUS
      <4> QED BY <4>1 DEF AnySeq
    <3>2. \A t \in 1 .. N : AnySeq(parts[t])
      BY <2>2, <2>4, <3>1
    <3> QED BY <2>3, <3>2 DEF SeqOfSeqs
  <2>6. \A t \in 1 .. N : t # s => parts[t] = << >>
    BY <1>3, <2>2 DEF GridInv, ReadOnce
  <2>7. FlattenSeq(parts) = parts[s]
    BY <2>3, <2>5, <2>6, FlattenOne
  <2> QED BY <1>3, <2>1, <2>2, <2>7
<1> QED BY <1>2, <1>3

LEMMA GridStreams ==
  ASSUME GridInv
  PROVE  StreamsDeliverTheGrid
<1>1. DOMAIN streams = 1 .. Len(streams)
  BY SequenceParts DEF GridInv, StreamsProgress
<1>2. ASSUME NEW s \in 1 .. Len(streams)
      PROVE  LET out == Delivered(s)
                 expected == Expected(streams[s])
             IN  /\ \A row \in ToSet(out) : Times(out, row) <= Times(expected, row)
                 /\ streams[s].ended => Len(out) = Len(expected)
  <2> DEFINE stream == streams[s]
             all == FlattenSeq(StreamRows(stream))
             out == stream.out
             expected == Expected(stream)
  <2>1. Delivered(s) = out
    BY DeliveredIsOut
  <2>2. Given /\ IsStream(stream) /\ Progress(stream)
    BY DEF GridInv, StreamsProgress
  <2> HIDE DEF stream
  <2>3. /\ AnySeq(out) /\ AnySeq(all) /\ Begins(out, all)
        /\ stream.ended => out = all
    BY <2>2, OutBegins
  <2>4. /\ Len(all) = Len(expected)
        /\ \A row \in ToSet(all) : Times(all, row) = Times(expected, row)
    BY <2>2, AllIsExpected
  <2> HIDE DEF all, out, expected
  <2>5. ToSet(out) \subseteq ToSet(all)
    <3>1. /\ DOMAIN out = 1 .. Len(out) /\ DOMAIN all = 1 .. Len(all)
          /\ Len(out) \in Nat /\ Len(all) \in Nat
      BY <2>3, SequenceParts
    <3> QED BY <2>3, <3>1 DEF Begins, ToSet
  <2>6. \A row \in ToSet(out) : Times(out, row) <= Times(expected, row)
    <3> SUFFICES ASSUME NEW row \in ToSet(out) PROVE Times(out, row) <= Times(expected, row)
      OBVIOUS
    <3>1. Times(out, row) <= Times(all, row)
      BY <2>3, TimesGrow
    <3>2. Times(all, row) = Times(expected, row)
      BY <2>4, <2>5
    <3> QED BY <3>1, <3>2
  <2>7. stream.ended => Len(out) = Len(expected)
    BY <2>3, <2>4
  <2> QED BY <2>1, <2>6, <2>7 DEF stream, out, expected
<1> QED BY <1>1, <1>2 DEF StreamsDeliverTheGrid

(* The streams deliver the grid: each row no more often than it occurs, all   *)
(* of them when the stream ends, and no row twice over the exports of a       *)
(* one-shot reader (XarrayRecordBatchReader of reader.py). To read_xarray a   *)
(* row has a column of every dimension; to a reader or a stream built         *)
(* directly, of those with coordinates.                                       *)
THEOREM StreamsDeliver == Spec => []StreamsDeliverTheGrid
<1>1. GridInv => StreamsDeliverTheGrid
  BY GridStreams
<1> QED BY <1>1, GridInvariant, PTL

LEMMA GridReads ==
  ASSUME GridInv
  PROVE  ReadsWaitForPulls
<1>1. DOMAIN streams = 1 .. Len(streams)
  BY SequenceParts DEF GridInv, StreamsProgress
<1>2. ASSUME NEW s \in 1 .. Len(streams)
      PROVE  LET stream == streams[s]
                 rows(b) == ToSet(DatasetToRecordBatch(stream.ds, stream.blocks[b], stream.columns))
             IN  /\ \A b \in 1 .. stream.read - 1 : rows(b) \subseteq ToSet(stream.out)
                 /\ stream.read > 0 /\ ~stream.ended =>
                      rows(stream.read) \cap ToSet(stream.out) # {}
  <2> DEFINE stream == streams[s]
             parts == StreamRows(stream)
             N == Len(stream.blocks)
             r == stream.read
             out == stream.out
             left == FlattenSeq(stream.batches)
             rows(b) == ToSet(DatasetToRecordBatch(stream.ds, stream.blocks[b], stream.columns))
  <2>1. Given /\ IsStream(stream) /\ Progress(stream)
    BY DEF GridInv, StreamsProgress
  <2> HIDE DEF stream
  <2>2. PICK f : Flattens(f, parts) /\ Advances(stream, f)
    BY <2>1 DEF Progress
  <2>3. /\ IsGrid(stream.ds) /\ AnySeq(stream.blocks)
        /\ \A b \in 1 .. N : IsBlock(stream.ds, stream.blocks[b])
    BY <2>1, SourceParts DEF IsStream
  <2>4. /\ SeqOfSeqs(parts) /\ Len(parts) = N /\ N \in Nat
        /\ \A b \in 1 .. N : rows(b) = ToSet(parts[b])
    <3>1. /\ SeqOfSeqs(parts) /\ Len(parts) = N
          /\ \A b \in 1 .. N :
               parts[b] = DatasetToRecordBatch(stream.ds, stream.blocks[b], stream.columns)
      BY <2>3, RowsByBlockParts DEF StreamRows
    <3>2. N \in Nat
      BY <2>3, SequenceParts
    <3> HIDE DEF parts
    <3> QED BY <3>1, <3>2
  <2>5. /\ r \in 0 .. N /\ AnySeq(out) /\ SeqOfSeqs(stream.batches) /\ out \o left = f[r]
        /\ r > 0 => /\ Len(f[r - 1]) <= Len(out)
                    /\ ~stream.ended => Len(f[r - 1]) < Len(out)
    BY <2>2 DEF Advances
  <2>6. AnySeq(left)
    BY <2>5, FlattenIsSeq
  <2>7. /\ Len(out) \in Nat /\ DOMAIN out = 1 .. Len(out)
        /\ \A n \in 0 .. N : AnySeq(f[n]) /\ Len(f[n]) \in Nat
        /\ \A b \in 1 .. N : /\ f[b] = f[b - 1] \o parts[b] /\ AnySeq(parts[b])
                             /\ Len(parts[b]) \in Nat /\ DOMAIN parts[b] = 1 .. Len(parts[b])
    BY <2>2, <2>4, <2>5, SequenceParts DEF Flattens, Concatenates, SeqOfSeqs
  <2>8. Begins(out, f[r])
    <3> HIDE DEF out, r, left
    <3> QED BY <2>5, <2>6, JoinBegins
  <2> HIDE DEF parts, N, r, out, left, rows
  <2>9. \A m, n \in 0 .. N : m <= n => Begins(f[m], f[n])
    <3> SUFFICES ASSUME NEW m \in 0 .. N, NEW n \in 0 .. N, m <= n PROVE Begins(f[m], f[n])
      OBVIOUS
    <3>1. m \in 0 .. Len(parts) /\ n \in m .. Len(parts)
      BY <2>4
    <3> QED BY <2>2, <2>4, <3>1, FlattenBegins
  <2>10. ASSUME NEW b \in 1 .. N, NEW j \in 1 .. Len(parts[b])
         PROVE  LET i == Len(f[b - 1]) + j IN i \in 1 .. Len(f[b]) /\ f[b][i] = parts[b][j]
    <3> DEFINE p == f[b - 1]
               q == parts[b]
    <3>0. b - 1 \in 0 .. N
      BY <2>4
    <3>1. AnySeq(p) /\ AnySeq(q) /\ f[b] = p \o q /\ Len(p) \in Nat /\ Len(q) \in Nat
      <4>1. AnySeq(p) /\ Len(p) \in Nat
        BY <2>7, <3>0
      <4>2. AnySeq(q) /\ Len(q) \in Nat /\ f[b] = p \o q
        BY <2>7
      <4> QED BY <4>1, <4>2
    <3>2. j \in 1 .. Len(q)
      OBVIOUS
    <3> HIDE DEF p, q
    <3>3. Len(p \o q) = Len(p) + Len(q) /\ (p \o q)[j + Len(p)] = q[j]
      BY <3>1, <3>2, JoinedSequence
    <3>4. j + Len(p) = Len(p) + j
      BY <3>1, <3>2
    <3>5. Len(p) + j \in 1 .. Len(p \o q) /\ (p \o q)[Len(p) + j] = q[j]
      BY <3>1, <3>2, <3>3, <3>4
    <3> QED BY <3>1, <3>5 DEF p, q
  <2>11. ASSUME NEW b \in 1 .. r - 1
         PROVE  rows(b) \subseteq ToSet(out)
    <3>1. b \in 1 .. N /\ b \in 0 .. N /\ r - 1 \in 0 .. N /\ b <= r - 1 /\ r - 1 <= r /\ r > 0
      BY <2>4, <2>5
    <3>2. Begins(f[b], f[r - 1]) /\ Begins(f[r - 1], f[r])
      BY <2>5, <2>9, <3>1
    <3>a. rows(b) = {parts[b][j] : j \in 1 .. Len(parts[b])}
      BY <2>4, <2>7, <3>1 DEF ToSet
    <3> SUFFICES ASSUME NEW j \in 1 .. Len(parts[b]) PROVE parts[b][j] \in ToSet(out)
      BY <3>a
    <3> DEFINE i == Len(f[b - 1]) + j
               before == r - 1
    <3>3. i \in 1 .. Len(f[b]) /\ f[b][i] = parts[b][j]
      BY <2>10, <3>1
    <3>4. /\ Begins(f[b], f[before]) /\ Begins(f[before], f[r]) /\ Len(f[before]) <= Len(out)
          /\ Len(f[b]) \in Nat /\ Len(f[before]) \in Nat
      BY <2>5, <2>7, <3>1, <3>2
    <3> HIDE DEF i, before
    <3>5. i \in 1 .. Len(f[before]) /\ f[before][i] = f[b][i]
      BY <3>3, <3>4 DEF Begins
    <3>6. i \in 1 .. Len(out) /\ f[r][i] = f[before][i]
      BY <2>7, <3>4, <3>5 DEF Begins
    <3>7. out[i] = f[r][i]
      BY <2>8, <3>6 DEF Begins
    <3> QED BY <2>7, <3>3, <3>5, <3>6, <3>7 DEF ToSet
  <2>12. ASSUME r > 0, ~stream.ended
         PROVE  rows(r) \cap ToSet(out) # {}
    <3> DEFINE n == Len(f[r - 1])
    <3>1. r \in 1 .. N /\ r - 1 \in 0 .. N
      BY <2>4, <2>5, <2>12
    <3>2. n \in Nat /\ n < Len(out) /\ Len(out) <= Len(f[r])
      BY <2>5, <2>7, <2>8, <2>12, <3>1 DEF Begins
    <3>3. Len(f[r]) = n + Len(parts[r])
      <4> DEFINE p == f[r - 1]
                 q == parts[r]
      <4>1. AnySeq(p) /\ AnySeq(q) /\ f[r] = p \o q
        BY <2>7, <3>1
      <4> HIDE DEF p, q
      <4>2. Len(p \o q) = Len(p) + Len(q)
        BY <4>1, JoinedSequence
      <4> QED BY <4>1, <4>2 DEF p, q
    <3>4. 1 \in 1 .. Len(parts[r])
      <4> DEFINE k == Len(parts[r])
                 m == Len(f[r])
      <4>1. k \in Nat
        BY <2>7, <3>1
      <4>2. m \in Nat
        BY <2>5, <2>7
      <4> HIDE DEF k, m, n
      <4>3. n < m
        BY <2>7, <3>2, <4>2 DEF m
      <4>4. k \in Nat /\ k > 0
        BY <3>2, <3>3, <4>1, <4>3 DEF k, m
      <4> QED BY <4>4 DEF k
    <3>5. f[r][n + 1] = parts[r][1]
      BY <2>10, <3>1, <3>4
    <3> HIDE DEF n
    <3>6. n + 1 \in 1 .. Len(out)
      BY <2>7, <3>2
    <3>7. out[n + 1] = parts[r][1]
      BY <2>8, <3>5, <3>6 DEF Begins
    <3>8. parts[r][1] \in ToSet(out)
      BY <2>7, <3>6, <3>7 DEF ToSet
    <3>9. parts[r][1] \in rows(r)
      BY <2>4, <2>7, <3>1, <3>4 DEF ToSet
    <3> QED BY <3>8, <3>9
  <2> QED BY <2>11, <2>12 DEF stream, r, out, rows
<1> QED BY <1>1, <1>2 DEF ReadsWaitForPulls

(* A pull reads no block before the consumer needs it, whatever the chunks    *)
(* and the sizes of the batches (_generate_batches of reader.py).             *)
THEOREM ReadsWait == Spec => []ReadsWaitForPulls
<1>1. GridInv => ReadsWaitForPulls
  BY GridReads
<1> QED BY <1>1, GridInvariant, PTL
=============================================================================
