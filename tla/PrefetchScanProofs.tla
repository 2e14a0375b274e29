------------------------- MODULE PrefetchScanProofs -------------------------
(***************************************************************************)
(* Proofs about PrefetchScan, for every set of scans, plan of blocks,      *)
(* prefetch knob and number of threads, and that it implements OrderedScan.*)
(***************************************************************************)
EXTENDS PrefetchScan, DataInduction, SequenceTheorems

(* A pair is a load exactly if its block is one of its scan. *)
LEMMA LoadPairs ==
  /\ \A s \in Scans : \A b \in 1..NumBlocks(s) : <<s, b>> \in Loads
  /\ \A load \in Loads : \E s \in Scans : \E b \in 1..NumBlocks(s) :
       load = <<s, b>>
BY DEF Loads

LEMMA PlanTypes ==
  ASSUME NEW s \in Scans
  PROVE  /\ NumBlocks(s) \in Nat
         /\ \A b \in 1..NumBlocks(s) :
              Plan[s][b].batches \in Nat /\ Plan[s][b].bytes \in Nat
<1> DEFINE Block == [batches : Nat, bytes : Nat]
<1>1. Plan[s] \in Seq(Block)
  BY ScanAssumption
<1>2. NumBlocks(s) \in Nat
  BY <1>1 DEF NumBlocks
<1>3. ASSUME NEW b \in 1..NumBlocks(s)
      PROVE  Plan[s][b].batches \in Nat /\ Plan[s][b].bytes \in Nat
  <2>1. Plan[s][b] \in Block
    <3> HIDE DEF Block
    <3> QED BY <1>1, <1>3 DEF NumBlocks
  <2>2. QED
    BY <2>1
<1>4. QED
  BY <1>2, <1>3

(* Popping a queue and appending to one. *)
LEMMA HeadTail ==
  ASSUME NEW S, NEW q \in Seq(S), q # << >>
  PROVE  /\ Head(q) \in S
         /\ Head(q) = q[1]
         /\ Tail(q) \in Seq(S)
         /\ Len(q) \in Nat /\ Len(q) > 0
         /\ Len(Tail(q)) = Len(q) - 1
         /\ \A i \in 1..(Len(q) - 1) : Tail(q)[i] = q[i + 1]
OBVIOUS

LEMMA Appended ==
  ASSUME NEW S, NEW q \in Seq(S), NEW x \in S
  PROVE  /\ Append(q, x) \in Seq(S)
         /\ Len(q) \in Nat
         /\ Len(Append(q, x)) = Len(q) + 1
         /\ \A i \in 1..Len(q) : Append(q, x)[i] = q[i]
         /\ Append(q, x)[Len(q) + 1] = x
OBVIOUS

(* The arithmetic of a window of l blocks that ends before n: appending     *)
(* keeps its start, dropping the oldest moves it by one.                   *)
LEMMA WindowArithmetic ==
  ASSUME NEW n \in Int, NEW l \in Int, NEW i \in Int
  PROVE  /\ (n + 1) - (l + 1) = n - l
         /\ n - 1 - l + (i + 1) = n - 1 - (l - 1) + i
         /\ i >= n - l /\ i # n - l => i >= n - (l - 1)
OBVIOUS

LEMMA IntegerSums ==
  ASSUME NEW m \in Int, NEW n \in Nat
  PROVE  m + n \in Int /\ m - n \in Int
OBVIOUS

LEMMA InitType == Init => TypeOK
<1> SUFFICES ASSUME Init PROVE TypeOK
  OBVIOUS
<1> USE DEF Init
<1>1. /\ pc \in [Scans -> PCs]
      /\ next \in [Scans -> Nat \ {0}]
      /\ inflight \in [Scans -> Int]
      /\ cur \in [Scans -> Nat]
      /\ pos \in [Scans -> Nat]
      /\ outcome \in [Scans -> {"none", "done", "failed", "closed"}]
  BY DEF PCs
<1>2. fut \in [Loads -> FutureStates]
  BY DEF FutureStates
<1>3. pending \in [Scans -> Seq(Nat)]
  OBVIOUS
<1>4. << >> \in Seq(Nat \X Nat) /\ << >> \in Seq(Loads)
  OBVIOUS
<1>5. out \in [Scans -> Seq(Nat \X Nat)] /\ queue \in Seq(Loads)
  BY <1>4
<1>6. running \in [Workers -> Loads \cup {Idle}] /\ held \in BOOLEAN /\ shut \in BOOLEAN
  OBVIOUS
<1>7. \A s \in Scans : pending[s] \in Seq(1..NumBlocks(s))
  OBVIOUS
<1>8. QED
  BY <1>1, <1>2, <1>3, <1>5, <1>6, <1>7 DEF TypeOK

(* The blocks an action of the generator touches exist. *)
LEMMA GeneratorTypes ==
  ASSUME TypeOK, NEW s \in Scans, Advance(s) \/ Close(s) \/ CleanUp(s) \/ Open(s)
  PROVE  TypeOK'
<1> USE DEF TypeOK, Goto, Leave, poolVars, PCs
<1>1. CASE Open(s)
  BY <1>1 DEF Open
<1>2. CASE Start(s)
  BY <1>2 DEF Start
<1>3. CASE InlineLoad(s)
  <2>1. pc' \in [Scans -> PCs] /\ outcome' \in [Scans -> {"none", "done", "failed", "closed"}]
    BY <1>3 DEF InlineLoad
  <2>2. next' \in [Scans -> Nat \ {0}] /\ cur' \in [Scans -> Nat] /\ pos' \in [Scans -> Nat]
    BY <1>3 DEF InlineLoad
  <2>3. QED
    BY <1>3, <2>1, <2>2 DEF InlineLoad
<1>4. CASE Submit(s)
  <2>1. next[s] \in 1..NumBlocks(s) /\ <<s, next[s]>> \in Loads
    BY <1>4, PlanTypes, LoadPairs DEF Submit
  <2>2. next' \in [Scans -> Nat \ {0}]
    BY <1>4 DEF Submit
  <2>3. /\ pending' \in [Scans -> Seq(Nat)]
        /\ \A t \in Scans : pending'[t] \in Seq(1..NumBlocks(t))
    <3>1. pending' = [pending EXCEPT ![s] = Append(pending[s], next[s])]
      BY <1>4 DEF Submit
    <3>2. Append(pending[s], next[s]) \in Seq(Nat)
      BY Appended
    <3>3. Append(pending[s], next[s]) \in Seq(1..NumBlocks(s))
      BY <2>1, Appended
    <3>4. QED
      BY <3>1, <3>2, <3>3
  <2>4. inflight' \in [Scans -> Int]
    <3>1. inflight' = [inflight EXCEPT ![s] = @ + Plan[s][next[s]].bytes]
      BY <1>4 DEF Submit
    <3>2. Plan[s][next[s]].bytes \in Nat /\ inflight[s] \in Int
      BY <2>1, PlanTypes
    <3>3. inflight[s] + Plan[s][next[s]].bytes \in Int
      BY <3>2, IntegerSums
    <3>4. QED
      BY <3>1, <3>3
  <2>5. fut' \in [Loads -> FutureStates] /\ queue' \in Seq(Loads)
    BY <1>4, <2>1 DEF Submit, FutureStates
  <2>6. QED
    BY <1>4, <2>2, <2>3, <2>4, <2>5 DEF Submit
<1>5. CASE Pop(s)
  <2>1. /\ Head(pending[s]) \in 1..NumBlocks(s)
        /\ Tail(pending[s]) \in Seq(1..NumBlocks(s))
        /\ Tail(pending[s]) \in Seq(Nat)
    <3>1. pending[s] # << >> /\ pending[s] \in Seq(Nat) /\ pending[s] \in Seq(1..NumBlocks(s))
      BY <1>5 DEF Pop
    <3>2. QED
      BY <3>1, HeadTail
  <2>2. /\ pending' \in [Scans -> Seq(Nat)]
        /\ \A t \in Scans : pending'[t] \in Seq(1..NumBlocks(t))
    <3>1. pending' = [pending EXCEPT ![s] = Tail(pending[s])]
      BY <1>5 DEF Pop
    <3>2. QED
      BY <2>1, <3>1
  <2>3. inflight' \in [Scans -> Int]
    <3>1. inflight' =
            [inflight EXCEPT ![s] = @ - Plan[s][Head(pending[s])].bytes]
      BY <1>5 DEF Pop
    <3>2. Plan[s][Head(pending[s])].bytes \in Nat /\ inflight[s] \in Int
      BY <2>1, PlanTypes
    <3>3. inflight[s] - Plan[s][Head(pending[s])].bytes \in Int
      BY <3>2, IntegerSums
    <3>4. QED
      BY <3>1, <3>3
  <2>4. pc' \in [Scans -> PCs] /\ pos' \in [Scans -> Nat]
    BY <1>5 DEF Pop
  <2>5. cur' \in [Scans -> Nat]
    <3>1. cur' = [cur EXCEPT ![s] = Head(pending[s])]
      BY <1>5 DEF Pop
    <3>2. Head(pending[s]) \in Nat
      BY <2>1
    <3>3. QED
      BY <3>1, <3>2
  <2>6. QED
    BY <1>5, <2>2, <2>3, <2>4, <2>5 DEF Pop
<1>6. CASE Receive(s)
  BY <1>6 DEF Receive
<1>7. CASE Emit(s)
  BY <1>7 DEF Emit
<1>8. CASE EndBlock(s)
  BY <1>8 DEF EndBlock
<1>9. CASE End(s)
  BY <1>9 DEF End
<1>10. CASE Close(s)
  BY <1>10 DEF Close
<1>11. CASE Cancel(s)
  <2>1. /\ Head(pending[s]) \in 1..NumBlocks(s)
        /\ Tail(pending[s]) \in Seq(1..NumBlocks(s))
        /\ Tail(pending[s]) \in Seq(Nat)
    <3>1. pending[s] # << >> /\ pending[s] \in Seq(Nat) /\ pending[s] \in Seq(1..NumBlocks(s))
      BY <1>11 DEF Cancel
    <3>2. QED
      BY <3>1, HeadTail
  <2>2. <<s, Head(pending[s])>> \in Loads
    BY <2>1, LoadPairs
  <2>3. /\ pending' \in [Scans -> Seq(Nat)]
        /\ \A t \in Scans : pending'[t] \in Seq(1..NumBlocks(t))
    <3>1. pending' = [pending EXCEPT ![s] = Tail(pending[s])]
      BY <1>11 DEF Cancel
    <3>2. QED
      BY <2>1, <3>1
  <2>4. fut' \in [Loads -> FutureStates]
    BY <1>11, <2>2 DEF Cancel, FutureStates
  <2>5. QED
    BY <1>11, <2>3, <2>4 DEF Cancel
<1>12. CASE EndCancel(s)
  BY <1>12 DEF EndCancel
<1>13. QED
  BY <1>1, <1>2, <1>3, <1>4, <1>5, <1>6, <1>7, <1>8, <1>9, <1>10, <1>11, <1>12
     DEF Advance, CleanUp

LEMMA PoolTypes ==
  ASSUME TypeOK, (\E w \in Workers : Work(w)) \/ Release \/ Finalize
  PROVE  TypeOK'
<1> USE DEF TypeOK, genVars, poolVars
<1>1. ASSUME NEW w \in Workers, Take(w)
      PROVE  TypeOK'
  <2>1. Head(queue) \in Loads /\ Tail(queue) \in Seq(Loads)
    BY <1>1 DEF Take
  <2>2. fut' \in [Loads -> FutureStates] /\ running' \in [Workers -> Loads \cup {Idle}]
    BY <1>1, <2>1 DEF Take, FutureStates
  <2>3. QED
    BY <1>1, <2>1, <2>2 DEF Take
<1>2. ASSUME NEW w \in Workers, Finish(w)
      PROVE  TypeOK'
  BY <1>2 DEF Finish, FutureStates
<1>3. CASE Release
  BY <1>3 DEF Release
<1>4. CASE Finalize
  <2>1. fut' \in [Loads -> FutureStates]
    BY <1>4 DEF Finalize, FutureStates
  <2>2. QED
    BY <1>4, <2>1 DEF Finalize
<1>5. QED
  BY <1>1, <1>2, <1>3, <1>4 DEF Work

LEMMA TypeStep == TypeOK /\ [Next]_vars => TypeOK'
<1>1. CASE UNCHANGED vars
  BY <1>1 DEF vars, TypeOK
<1>2. CASE Next
  BY <1>2, GeneratorTypes, PoolTypes DEF Next
<1>3. QED
  BY <1>1, <1>2

(* The state of the generators, the pool and the futures keeps its shape.   *)
THEOREM TypeCorrect == Spec => []TypeOK
<1>1. QED
  BY InitType, TypeStep, PTL DEF Spec

-----------------------------------------------------------------------------
(* The inductive invariant. *)

(* The parts of it that speak of one generator's own variables. *)
Own(s) == Window(s) /\ Path(s) /\ Position(s) /\ History(s)

LEMMA InitInductive == Init => Inductive
<1> SUFFICES ASSUME Init PROVE Inductive
  OBVIOUS
<1>1. TypeOK
  BY InitType
<1>2. shut => ~held /\ \A s \in Scans : ~Live(s)
  BY DEF Init
<1>3. ASSUME NEW s \in Scans
      PROVE  Own(s)
  <2>1. /\ pc[s] = "unopened" /\ next[s] = 1 /\ pending[s] = << >>
        /\ cur[s] = 0 /\ pos[s] = 0 /\ outcome[s] = "none" /\ out[s] = << >>
    BY <1>3 DEF Init
  <2>2. NumBlocks(s) \in Nat
    BY PlanTypes
  <2>3. Prefetch \in Int
    BY ScanAssumption
  <2>4. Window(s) /\ Position(s)
    BY <2>1, <2>2 DEF Window, Position
  <2>5. Path(s)
    <3>1. Resident(s) = 0 /\ Bound(s) >= 0
      BY <2>1, <2>3 DEF Resident, Bound, Pooled
    <3>2. QED
      BY <2>1, <3>1, <2>3 DEF Path, Bound, Pooled
  <2>6. History(s)
    BY <2>1, <2>2, PlanTypes DEF History
  <2>7. QED
    BY <2>4, <2>5, <2>6 DEF Own
<1>4. ASSUME NEW s \in Scans, NEW b \in 1..NumBlocks(s)
      PROVE  Future(s, b)
  <2>1. fut[<<s, b>>] = "none" /\ next[s] = 1
    BY <1>4, LoadPairs DEF Init
  <2>2. QED
    BY <2>1, PlanTypes DEF Future
<1>5. QED
  BY <1>1, <1>2, <1>3, <1>4 DEF Inductive, Own

(* A step that leaves the variables of t alone keeps Own(t). *)
SameGenerator(t) ==
  /\ pc'[t] = pc[t] /\ next'[t] = next[t] /\ pending'[t] = pending[t]
  /\ cur'[t] = cur[t] /\ pos'[t] = pos[t] /\ outcome'[t] = outcome[t]
  /\ out'[t] = out[t]

LEMMA OwnFrame ==
  ASSUME NEW t \in Scans, Own(t), SameGenerator(t)
  PROVE  Own(t)'
<1>1. Window(t)'
  BY DEF Own, SameGenerator, Window
<1>2. Path(t)'
  BY DEF Own, SameGenerator, Path, Resident, Pooled
<1>3. Position(t)'
  BY DEF Own, SameGenerator, Position
<1>4. History(t)'
  BY DEF Own, SameGenerator, History, Delivered
<1>5. QED
  BY <1>1, <1>2, <1>3, <1>4 DEF Own

GeneratorStep(s) == Open(s) \/ Advance(s) \/ Close(s) \/ CleanUp(s)

LEMMA OthersFrame ==
  ASSUME TypeOK, NEW s \in Scans, GeneratorStep(s), NEW t \in Scans, t # s
  PROVE  SameGenerator(t)
<1> USE DEF TypeOK, SameGenerator, Goto, Leave
<1>1. CASE Open(s)
  BY <1>1 DEF Open
<1>2. CASE Start(s)
  BY <1>2 DEF Start
<1>3. CASE InlineLoad(s)
  BY <1>3 DEF InlineLoad
<1>4. CASE Submit(s)
  BY <1>4 DEF Submit
<1>5. CASE Pop(s)
  BY <1>5 DEF Pop
<1>6. CASE Receive(s)
  BY <1>6 DEF Receive
<1>7. CASE Emit(s)
  BY <1>7 DEF Emit
<1>8. CASE EndBlock(s)
  BY <1>8 DEF EndBlock
<1>9. CASE End(s)
  BY <1>9 DEF End
<1>10. CASE Close(s)
  BY <1>10 DEF Close
<1>11. CASE Cancel(s)
  BY <1>11 DEF Cancel
<1>12. CASE EndCancel(s)
  BY <1>12 DEF EndCancel
<1>13. QED
  BY <1>1, <1>2, <1>3, <1>4, <1>5, <1>6, <1>7, <1>8, <1>9, <1>10, <1>11, <1>12
     DEF GeneratorStep, Advance, CleanUp

(* The types of one generator's variables. *)
Numbers(s) ==
  /\ next[s] \in Nat /\ next[s] > 0
  /\ cur[s] \in Nat /\ pos[s] \in Nat
  /\ Len(pending[s]) \in Nat
  /\ NumBlocks(s) \in Nat
  /\ Prefetch \in Int

LEMMA OwnNumbers ==
  ASSUME TypeOK, NEW s \in Scans
  PROVE  Numbers(s)
BY PlanTypes, ScanAssumption DEF TypeOK, Numbers

LEMMA OutTypes ==
  ASSUME TypeOK, NEW s \in Scans
  PROVE  /\ out[s] \in Seq(Nat \X Nat) /\ Len(out[s]) \in Nat
         /\ \A i \in DOMAIN out[s] :
              i \in Nat /\ out[s][i][1] \in Nat /\ out[s][i][2] \in Nat
<1>1. out[s] \in Seq(Nat \X Nat)
  BY DEF TypeOK
<1>2. \A i \in DOMAIN out[s] : i \in Nat /\ out[s][i] \in Nat \X Nat
  BY <1>1
<1>3. QED
  BY <1>1, <1>2

(* How many blocks a scan holds, and how many it may. *)
LEMMA BoundTypes ==
  ASSUME TypeOK, NEW s \in Scans
  PROVE  /\ Resident(s) \in Int
         /\ Bound(s) \in Int
         /\ Bound(s) >= 1
         /\ Pooled(s) => Bound(s) >= 3 /\ Bound(s) >= Prefetch
         /\ pc[s] \in {"wait", "emit"} => Resident(s) = Len(pending[s]) + 1
         /\ pc[s] \notin {"wait", "emit"} => Resident(s) = Len(pending[s])
<1>1. Len(pending[s]) \in Nat /\ NumBlocks(s) \in Nat /\ Prefetch \in Int
  BY OwnNumbers DEF Numbers
<1>2. Bound(s) \in Int /\ Bound(s) >= 1
  BY <1>1 DEF Bound, Pooled
<1>3. Pooled(s) => Bound(s) >= 3 /\ Bound(s) >= Prefetch
  BY <1>1 DEF Bound, Pooled
<1>4. CASE pc[s] \in {"wait", "emit"}
  <2>1. Resident(s) = Len(pending[s]) + 1
    BY <1>4 DEF Resident
  <2>2. QED
    BY <1>1, <1>2, <1>3, <1>4, <2>1
<1>5. CASE pc[s] \notin {"wait", "emit"}
  <2>1. Resident(s) = Len(pending[s]) + 0
    BY <1>5 DEF Resident
  <2>2. QED
    BY <1>1, <1>2, <1>3, <1>5, <2>1
<1>6. QED
  BY <1>4, <1>5

(* Opening, starting, receiving, finishing a block, ending and closing move *)
(* the generator without touching its deque or what it delivered.          *)
LEMMA OwnMoves ==
  ASSUME TypeOK, NEW s \in Scans, Own(s),
         \/ Open(s) \/ Start(s) \/ Receive(s) \/ EndBlock(s) \/ End(s)
         \/ Close(s) \/ EndCancel(s)
  PROVE  Own(s)'
<1>t. Numbers(s)
  BY OwnNumbers
<1>1. /\ next'[s] = next[s] /\ pending'[s] = pending[s] /\ cur'[s] = cur[s]
      /\ pos'[s] = pos[s] /\ out'[s] = out[s]
  BY DEF Open, Start, Receive, EndBlock, End, Close, EndCancel
<1>2. \/ pc[s] = "unopened" /\ pc'[s] = "new" /\ outcome'[s] = outcome[s]
      \/ /\ pc[s] = "new" /\ outcome'[s] = outcome[s]
         /\ pc'[s] = IF Pooled(s) THEN "loop" ELSE "inline"
      \/ pc[s] = "wait" /\ pc'[s] = "emit" /\ outcome'[s] = outcome[s]
      \/ /\ pc[s] = "wait" /\ outcome'[s] = "failed"
         /\ pc'[s] = IF Pooled(s) THEN "cancel" ELSE "stopped"
      \/ /\ pc[s] = "emit" /\ outcome'[s] = outcome[s]
         /\ pos[s] = Plan[s][cur[s]].batches
         /\ pc'[s] = IF Pooled(s) THEN "loop" ELSE "inline"
      \/ /\ pc[s] \in {"loop", "inline"} /\ outcome'[s] = "done"
         /\ next[s] > NumBlocks(s) /\ pending[s] = << >>
         /\ pc'[s] = IF Pooled(s) THEN "cancel" ELSE "stopped"
      \/ /\ pc[s] = "emit" /\ outcome'[s] = "closed"
         /\ pc'[s] = IF Pooled(s) THEN "cancel" ELSE "stopped"
      \/ pc[s] = "new" /\ pc'[s] = "stopped" /\ outcome'[s] = "closed"
      \/ /\ pc[s] = "cancel" /\ pc'[s] = "stopped" /\ pending[s] = << >>
         /\ outcome'[s] = outcome[s]
  <2> USE DEF TypeOK, Goto, Leave
  <2>1. CASE Open(s)
    BY <2>1 DEF Open
  <2>2. CASE Start(s)
    BY <2>2 DEF Start
  <2>3. CASE Receive(s)
    BY <2>3 DEF Receive
  <2>4. CASE EndBlock(s)
    BY <2>4 DEF EndBlock
  <2>5. CASE End(s)
    BY <2>5 DEF End
  <2>6. CASE Close(s)
    BY <2>6 DEF Close
  <2>7. CASE EndCancel(s)
    BY <2>7 DEF EndCancel
  <2>8. QED
    BY <2>1, <2>2, <2>3, <2>4, <2>5, <2>6, <2>7
<1>3. Window(s) /\ Path(s) /\ Position(s) /\ History(s)
  BY DEF Own
<1>4. Window(s)'
  BY <1>1, <1>2, <1>3, <1>t DEF Window, Path, Numbers
<1>5. Path(s)'
  <2>1. Pooled(s)' = Pooled(s)
    BY DEF Pooled
  <2>3. Resident(s)' <= Resident(s)
    <3>1. pc'[s] \in {"wait", "emit"} => pc[s] \in {"wait", "emit"}
      BY <1>2
    <3>2. QED
      BY <1>1, <3>1, <1>t DEF Resident, Numbers
  <2>4. Resident(s)' <= Bound(s)
    <3>1. Resident(s) \in Int /\ Bound(s) \in Int
      BY BoundTypes
    <3>2. Resident(s)' \in Int
      <4>1. Len(pending'[s]) \in Int
        BY <1>1, <1>t DEF Numbers
      <4>2. (IF pc'[s] \in {"wait", "emit"} THEN 1 ELSE 0) \in Int
        OBVIOUS
      <4>3. QED
        BY <4>1, <4>2 DEF Resident
    <3>3. Resident(s) <= Bound(s)
      BY <1>3 DEF Path
    <3>4. QED
      BY <2>3, <3>1, <3>2, <3>3
  <2>5. pc'[s] \in {"loop", "wait", "cancel"} => Pooled(s)
    BY <1>2, <1>3 DEF Path
  <2>6. pc'[s] = "inline" => ~Pooled(s)
    BY <1>2, <1>3 DEF Path
  <2>7. pending'[s] # << >> =>
          Pooled(s) /\ pc'[s] \in {"loop", "wait", "emit", "cancel"}
    BY <1>1, <1>2, <1>3 DEF Path
  <2>8. pc'[s] \in {"unopened", "new"} => next'[s] = 1
    BY <1>1, <1>2, <1>3 DEF Path
  <2>9. outcome'[s] = "none" <=> pc'[s] \notin {"cancel", "stopped"}
    BY <1>2, <1>3 DEF Path
  <2>10. QED
    BY <2>1, <2>4, <2>5, <2>6, <2>7, <2>8, <2>9 DEF Path
<1>6. Position(s)'
  <2>1. outcome'[s] = "done" => outcome[s] = "done" \/ (next[s] > NumBlocks(s) /\ pending[s] = << >> /\ outcome[s] = "none" /\ pc[s] \in {"loop", "inline"})
    BY <1>2, <1>3 DEF Path
  <2>2. pending[s] = << >> => Len(pending[s]) = 0
    OBVIOUS
  <2>3. outcome'[s] = "done" =>
          /\ cur[s] = NumBlocks(s)
          /\ cur[s] > 0 => pos[s] = Plan[s][cur[s]].batches
    BY <1>3, <2>1, <2>2, <1>t DEF Window, Position, Numbers
  <2>4. pc'[s] \in {"loop", "inline"} /\ cur[s] > 0 => pos[s] = Plan[s][cur[s]].batches
    <3>1. pc'[s] \in {"loop", "inline"} =>
            \/ pc[s] = "new"
            \/ pos[s] = Plan[s][cur[s]].batches
      BY <1>2
    <3>2. pc[s] = "new" => cur[s] = 0
      BY <1>3, <1>t DEF Window, Path, Numbers
    <3>3. QED
      BY <3>1, <3>2
  <2>5. pc'[s] = "wait" => FALSE
    BY <1>2
  <2>6. pc'[s] = "emit" => cur[s] > 0
    BY <1>2, <1>3 DEF Position
  <2>7. QED
    BY <1>1, <1>3, <2>3, <2>4, <2>5, <2>6 DEF Position
<1>7. History(s)'
  BY <1>1, <1>3 DEF History, Delivered
<1>8. QED
  BY <1>4, <1>5, <1>6, <1>7 DEF Own

(* Moving on to the next block keeps the history complete up to there. *)
LEMMA HistoryAdvances ==
  ASSUME TypeOK, NEW s \in Scans, History(s),
         cur'[s] = cur[s] + 1, pos'[s] = 0, out'[s] = out[s],
         cur[s] > 0 => pos[s] = Plan[s][cur[s]].batches
  PROVE  History(s)'
<1>1. cur[s] \in Nat /\ pos[s] \in Nat
  BY OwnNumbers DEF Numbers
<1>2. \A i \in DOMAIN out'[s] : out'[s][i][1] < cur'[s]
  <2>1. \A i \in DOMAIN out[s] : out[s][i][1] \in Nat
    BY OutTypes
  <2>2. \A i \in DOMAIN out[s] : out[s][i][1] < cur[s] \/ out[s][i][1] = cur[s]
    BY DEF History
  <2>3. QED
    BY <1>1, <2>1, <2>2
<1>3. ASSUME NEW b \in 1..NumBlocks(s), NEW k \in 1..Plan[s][b].batches,
             b < cur'[s] \/ (b = cur'[s] /\ k <= pos'[s])
      PROVE  <<b, k>> \in Delivered(s)'
  <2>1. Plan[s][b].batches \in Nat /\ NumBlocks(s) \in Nat
    BY PlanTypes
  <2>2. b < cur[s] \/ (b = cur[s] /\ k <= pos[s])
    BY <1>1, <1>3, <2>1
  <2>3. <<b, k>> \in Delivered(s)
    BY <2>2 DEF History
  <2>4. QED
    BY <2>3 DEF Delivered
<1>4. \A i, j \in DOMAIN out'[s] : i < j => Before(out'[s][i], out'[s][j])
  BY DEF History
<1>5. QED
  BY <1>2, <1>3, <1>4 DEF History

LEMMA OwnInlineLoad ==
  ASSUME TypeOK, NEW s \in Scans, Own(s), InlineLoad(s)
  PROVE  Own(s)'
<1>t. Numbers(s)
  BY OwnNumbers
<1>1. /\ next'[s] = next[s] + 1 /\ pending'[s] = pending[s]
      /\ cur'[s] = next[s] /\ pos'[s] = 0 /\ out'[s] = out[s]
      /\ pc[s] = "inline" /\ next[s] <= NumBlocks(s)
  BY DEF InlineLoad, TypeOK
<1>2. /\ ~Pooled(s) /\ pending[s] = << >> /\ outcome[s] = "none"
      /\ cur[s] = next[s] - 1
      /\ cur[s] > 0 => pos[s] = Plan[s][cur[s]].batches
  BY <1>1, <1>t DEF Own, Path, Window, Position, Numbers
<1>3. \/ pc'[s] = "emit" /\ outcome'[s] = "none"
      \/ pc'[s] = "stopped" /\ outcome'[s] = "failed"
  BY <1>2 DEF InlineLoad, Goto, Leave, TypeOK
<1>4. Window(s)'
  BY <1>1, <1>2, <1>3, <1>t DEF Window, Numbers
<1>5. Path(s)'
  <2>1. Pooled(s)' = Pooled(s) /\ Bound(s)' = Bound(s)
    BY DEF Pooled, Bound
  <2>2. Len(pending'[s]) = 0
    BY <1>1, <1>2
  <2>3. Resident(s)' <= 1
    BY <2>2 DEF Resident
  <2>4. Resident(s)' <= Bound(s)
    BY <1>2, <2>3 DEF Bound
  <2>5. QED
    BY <1>1, <1>2, <1>3, <2>1, <2>4 DEF Path
<1>6. Position(s)'
  <2>1. cur'[s] \in 1..NumBlocks(s)
    BY <1>1, <1>t DEF Numbers
  <2>2. Plan[s][cur'[s]].batches \in Nat
    BY <2>1, PlanTypes
  <2>3. /\ pc'[s] \notin {"loop", "inline", "wait"} /\ outcome'[s] # "done"
        /\ cur'[s] > 0 /\ cur'[s] # 0
    BY <1>1, <1>3, <1>t DEF Numbers
  <2>4. QED
    BY <1>1, <2>2, <2>3 DEF Position
<1>7. History(s)'
  <2>1. cur'[s] = cur[s] + 1
    BY <1>1, <1>2, <1>t DEF Numbers
  <2>2. History(s)
    BY DEF Own
  <2>3. QED
    BY <1>1, <1>2, <2>1, <2>2, HistoryAdvances
<1>8. QED
  BY <1>4, <1>5, <1>6, <1>7 DEF Own

LEMMA OwnSubmit ==
  ASSUME TypeOK, NEW s \in Scans, Own(s), Submit(s)
  PROVE  Own(s)'
<1>t. Numbers(s)
  BY OwnNumbers
<1>1. /\ next'[s] = next[s] + 1 /\ pending'[s] = Append(pending[s], next[s])
      /\ cur'[s] = cur[s] /\ pos'[s] = pos[s] /\ out'[s] = out[s]
      /\ pc'[s] = "loop" /\ outcome'[s] = outcome[s]
      /\ pc[s] = "loop" /\ next[s] <= NumBlocks(s) /\ ~MustDrain(s)
  BY DEF Submit, TypeOK
<1>2. next[s] \in 1..NumBlocks(s)
  BY <1>1, <1>t DEF Numbers
<1>a. next'[s] = next[s] + 1
  BY <1>1
<1>c. cur'[s] = cur[s] /\ outcome'[s] = outcome[s]
  BY <1>1
<1>3. /\ Len(pending'[s]) = Len(pending[s]) + 1
      /\ \A i \in 1..Len(pending[s]) : pending'[s][i] = pending[s][i]
      /\ pending'[s][Len(pending[s]) + 1] = next[s]
  BY <1>1, <1>2, <1>t, Appended DEF Numbers
<1>b. Len(pending'[s]) = Len(pending[s]) + 1
  BY <1>3
<1>4. Window(s)'
  <2>1. \A i \in 1..Len(pending[s]) :
          pending[s][i] = next[s] - 1 - Len(pending[s]) + i
    BY DEF Own, Window
  <2>2. ASSUME NEW i \in 1..(Len(pending[s]) + 1)
        PROVE  pending'[s][i] = next'[s] - 1 - Len(pending'[s]) + i
    <3>1. next'[s] - 1 - Len(pending'[s]) + i = next[s] - 1 - Len(pending[s]) + i
      BY <1>a, <1>b, <1>t DEF Numbers
    <3>2. CASE i \in 1..Len(pending[s])
      BY <1>3, <2>1, <3>1, <3>2
    <3>3. CASE i = Len(pending[s]) + 1
      <4>1. next[s] - 1 - Len(pending[s]) + i = next[s]
        BY <3>3, <1>t DEF Numbers
      <4>2. QED
        BY <1>3, <3>1, <3>3, <4>1
    <3>4. QED
      BY <3>2, <3>3, <1>t DEF Numbers
  <2>3. /\ cur[s] + Len(pending[s]) < next[s]
        /\ outcome[s] = "none" => cur[s] + Len(pending[s]) = next[s] - 1
    BY DEF Own, Window
  <2>4. /\ cur'[s] + Len(pending'[s]) < next'[s]
        /\ outcome'[s] = "none" => cur'[s] + Len(pending'[s]) = next'[s] - 1
    <3>1. cur'[s] + Len(pending'[s]) = (cur[s] + Len(pending[s])) + 1
      BY <1>b, <1>c, <1>t DEF Numbers
    <3>2. cur'[s] + Len(pending'[s]) < next'[s]
      BY <1>a, <2>3, <3>1, <1>t DEF Numbers
    <3>3. ASSUME outcome'[s] = "none"
          PROVE  cur'[s] + Len(pending'[s]) = next'[s] - 1
      <4>1. cur[s] + Len(pending[s]) = next[s] - 1
        BY <1>c, <2>3, <3>3
      <4>2. QED
        BY <1>a, <3>1, <4>1, <1>t DEF Numbers
    <3>4. QED
      BY <3>2, <3>3
  <2>5. next'[s] <= NumBlocks(s) + 1
    BY <1>1, <1>t DEF Numbers
  <2>6. QED
    BY <1>3, <2>2, <2>4, <2>5 DEF Window
<1>5. Path(s)'
  <2>1. Pooled(s)' = Pooled(s) /\ Bound(s)' = Bound(s)
    BY DEF Pooled, Bound
  <2>2. Pooled(s) /\ outcome[s] = "none"
    BY <1>1 DEF Own, Path
  <2>3. Len(pending[s]) <= 2 \/ Len(pending[s]) < Prefetch
    <3>1. \/ ~(next[s] > 3)
          \/ ~(Len(pending[s]) > 1)
          \/ ~(Len(pending[s]) >= Prefetch)
      BY <1>1 DEF MustDrain
    <3>2. cur[s] + Len(pending[s]) < next[s]
      BY DEF Own, Window
    <3>3. QED
      BY <3>1, <3>2, <1>t DEF Numbers
  <2>4. Resident(s)' = Len(pending[s]) + 1
    BY <1>1, <1>3, <1>t DEF Resident, Numbers
  <2>5. Resident(s)' <= Bound(s)
    BY <2>2, <2>3, <2>4, BoundTypes, <1>t DEF Numbers
  <2>6. QED
    BY <1>1, <2>1, <2>2, <2>5 DEF Path
<1>6. Position(s)'
  BY <1>1 DEF Own, Position
<1>7. History(s)'
  BY <1>1 DEF Own, History, Delivered
<1>8. QED
  BY <1>4, <1>5, <1>6, <1>7 DEF Own

(* The oldest block leaves the deque: the window shrinks from below. *)
LEMMA WindowShrinks ==
  ASSUME TypeOK, NEW s \in Scans, Window(s), pending[s] # << >>,
         pending'[s] = Tail(pending[s]), next'[s] = next[s], cur'[s] \in Nat,
         cur'[s] + Len(pending[s]) <= next[s],
         outcome'[s] = "none" => cur'[s] + Len(pending[s]) = next[s]
  PROVE  /\ Window(s)'
         /\ Head(pending[s]) = next[s] - Len(pending[s])
         /\ Len(pending'[s]) = Len(pending[s]) - 1
         /\ Len(pending[s]) > 0
<1>t. Numbers(s)
  BY OwnNumbers
<1>1. pending[s] \in Seq(1..NumBlocks(s))
  BY DEF TypeOK
<1>2. /\ Head(pending[s]) = pending[s][1] /\ Len(pending[s]) > 0
      /\ Len(Tail(pending[s])) = Len(pending[s]) - 1
      /\ \A i \in 1..(Len(pending[s]) - 1) :
           Tail(pending[s])[i] = pending[s][i + 1]
  BY <1>1, HeadTail
<1>3. Len(pending'[s]) = Len(pending[s]) - 1
  BY <1>2
<1>4. \A i \in 1..Len(pending[s]) :
        pending[s][i] = next[s] - 1 - Len(pending[s]) + i
  BY DEF Window
<1>5. Head(pending[s]) = next[s] - Len(pending[s])
  <2>1. pending[s][1] = next[s] - 1 - Len(pending[s]) + 1
    BY <1>2, <1>4, <1>t DEF Numbers
  <2>2. QED
    BY <1>2, <2>1, <1>t DEF Numbers
<1>6. ASSUME NEW i \in 1..Len(pending'[s])
      PROVE  pending'[s][i] = next'[s] - 1 - Len(pending'[s]) + i
  <2>1. i \in 1..(Len(pending[s]) - 1) /\ i + 1 \in 1..Len(pending[s])
    BY <1>3, <1>t DEF Numbers
  <2>2. pending'[s][i] = pending[s][i + 1]
    BY <1>2, <2>1
  <2>3. pending[s][i + 1] = next[s] - 1 - Len(pending[s]) + (i + 1)
    BY <1>4, <2>1
  <2>4. next[s] - 1 - Len(pending[s]) + (i + 1) = next'[s] - 1 - Len(pending'[s]) + i
    <3>1. i \in Int /\ next[s] \in Int /\ Len(pending[s]) \in Int
      BY <2>1, <1>t DEF Numbers
    <3>2. next[s] - 1 - Len(pending[s]) + (i + 1)
            = next[s] - 1 - (Len(pending[s]) - 1) + i
      <4> DEFINE n == next[s]
                 l == Len(pending[s])
      <4>1. n \in Int /\ l \in Int
        BY <3>1
      <4> HIDE DEF n, l
      <4>2. n - 1 - l + (i + 1) = n - 1 - (l - 1) + i
        BY <3>1, <4>1, WindowArithmetic
      <4>3. QED
        BY <4>2 DEF n, l
    <3>3. QED
      BY <1>3, <3>2
  <2>5. QED
    BY <2>2, <2>3, <2>4
<1>7. cur'[s] + Len(pending'[s]) = (cur'[s] + Len(pending[s])) - 1
  BY <1>3, <1>t DEF Numbers
<1>8. cur'[s] + Len(pending'[s]) < next'[s]
  BY <1>7, <1>t DEF Numbers
<1>9. outcome'[s] = "none" => cur'[s] + Len(pending'[s]) = next'[s] - 1
  BY <1>7, <1>t DEF Numbers
<1>10. next'[s] <= NumBlocks(s) + 1
  BY DEF Window
<1>11. QED
  BY <1>2, <1>3, <1>5, <1>6, <1>8, <1>9, <1>10 DEF Window

LEMMA OwnPop ==
  ASSUME TypeOK, NEW s \in Scans, Own(s), Pop(s)
  PROVE  Own(s)' /\ cur'[s] = next[s] - Len(pending[s])
<1>t. Numbers(s)
  BY OwnNumbers
<1>1. /\ next'[s] = next[s] /\ pending'[s] = Tail(pending[s])
      /\ cur'[s] = Head(pending[s]) /\ pos'[s] = 0 /\ out'[s] = out[s]
      /\ pc'[s] = "wait" /\ outcome'[s] = outcome[s]
      /\ pc[s] = "loop" /\ pending[s] # << >>
  BY DEF Pop, Goto, TypeOK
<1>2. Window(s) /\ Path(s) /\ Position(s) /\ History(s)
  BY DEF Own
<1>3. /\ Pooled(s) /\ outcome[s] = "none"
      /\ cur[s] + Len(pending[s]) = next[s] - 1
      /\ cur[s] > 0 => pos[s] = Plan[s][cur[s]].batches
  BY <1>1, <1>2 DEF Path, Window, Position
<1>4. /\ Head(pending[s]) = next[s] - Len(pending[s])
      /\ Len(pending[s]) > 0
  <2>1. pending[s] \in Seq(1..NumBlocks(s))
    BY DEF TypeOK
  <2>2. Head(pending[s]) = pending[s][1] /\ Len(pending[s]) > 0
    BY <1>1, <2>1, HeadTail
  <2>3. pending[s][1] = next[s] - 1 - Len(pending[s]) + 1
    <3>1. 1 \in 1..Len(pending[s])
      BY <2>2, <1>t DEF Numbers
    <3>2. QED
      BY <1>2, <3>1 DEF Window
  <2>4. QED
    BY <2>2, <2>3, <1>t DEF Numbers
<1>5. cur'[s] = cur[s] + 1 /\ cur'[s] = next[s] - Len(pending[s])
  <2>1. cur'[s] = next[s] - Len(pending[s])
    BY <1>1, <1>4
  <2>2. cur[s] = next[s] - 1 - Len(pending[s])
    BY <1>3, <1>t DEF Numbers
  <2>3. QED
    BY <2>1, <2>2, <1>t DEF Numbers
<1>6. cur'[s] \in 1..NumBlocks(s)
  <2>1. next[s] <= NumBlocks(s) + 1
    BY <1>2 DEF Window
  <2>2. QED
    BY <1>4, <1>5, <2>1, <1>t DEF Numbers
<1>7. /\ Window(s)'
      /\ Len(pending'[s]) = Len(pending[s]) - 1
  <2>1. cur'[s] \in Nat /\ cur'[s] + Len(pending[s]) = next[s]
    BY <1>5, <1>6, <1>t DEF Numbers
  <2>2. cur'[s] + Len(pending[s]) <= next[s]
    BY <2>1, <1>t DEF Numbers
  <2>3. QED
    BY <1>1, <1>2, <2>1, <2>2, WindowShrinks
<1>8. Path(s)'
  <2>1. Pooled(s)' = Pooled(s) /\ Bound(s)' = Bound(s)
    BY DEF Pooled, Bound
  <2>2. Resident(s)' = Resident(s)
    <3>1. Resident(s)' = Len(pending'[s]) + 1
      BY <1>1 DEF Resident
    <3>2. Resident(s) = Len(pending[s])
      BY <1>1, BoundTypes
    <3>3. QED
      BY <1>7, <3>1, <3>2, <1>t DEF Numbers
  <2>3. QED
    BY <1>1, <1>2, <1>3, <2>1, <2>2 DEF Path
<1>9. Position(s)'
  <2>1. Plan[s][cur'[s]].batches \in Nat
    BY <1>6, PlanTypes
  <2>2. cur'[s] > 0 /\ cur'[s] # 0
    BY <1>6, <1>t DEF Numbers
  <2>3. pc'[s] = "wait" /\ outcome'[s] = "none" /\ pos'[s] = 0
    BY <1>1, <1>3
  <2>4. QED
    BY <2>1, <2>2, <2>3 DEF Position
<1>10. History(s)'
  BY <1>1, <1>2, <1>3, <1>5, HistoryAdvances
<1>11. QED
  BY <1>5, <1>7, <1>8, <1>9, <1>10 DEF Own

LEMMA OwnCancel ==
  ASSUME TypeOK, NEW s \in Scans, Own(s), Cancel(s)
  PROVE  /\ Own(s)'
         /\ Head(pending[s]) = next[s] - Len(pending[s])
         /\ Len(pending'[s]) = Len(pending[s]) - 1
<1>t. Numbers(s)
  BY OwnNumbers
<1>1. /\ next'[s] = next[s] /\ pending'[s] = Tail(pending[s])
      /\ cur'[s] = cur[s] /\ pos'[s] = pos[s] /\ out'[s] = out[s]
      /\ pc'[s] = "cancel" /\ outcome'[s] = outcome[s]
      /\ pc[s] = "cancel" /\ pending[s] # << >>
  BY DEF Cancel, TypeOK
<1>2. Window(s) /\ Path(s) /\ Position(s) /\ History(s)
  BY DEF Own
<1>3. Pooled(s) /\ outcome[s] # "none"
  BY <1>1, <1>2 DEF Path
<1>4. /\ Window(s)'
      /\ Head(pending[s]) = next[s] - Len(pending[s])
      /\ Len(pending'[s]) = Len(pending[s]) - 1
  <2>1. cur[s] + Len(pending[s]) < next[s]
    BY <1>2 DEF Window
  <2>2. cur'[s] \in Nat /\ cur'[s] + Len(pending[s]) <= next[s]
    BY <1>1, <2>1, <1>t DEF Numbers
  <2>3. outcome'[s] # "none"
    BY <1>1, <1>3
  <2>4. QED
    BY <1>1, <1>2, <2>2, <2>3, WindowShrinks
<1>5. Path(s)'
  <2>1. Pooled(s)' = Pooled(s) /\ Bound(s)' = Bound(s)
    BY DEF Pooled, Bound
  <2>2. Resident(s)' <= Bound(s)
    <3>1. Resident(s)' = Len(pending'[s]) + 0
      BY <1>1 DEF Resident
    <3>2. Resident(s) = Len(pending[s])
      BY <1>1, BoundTypes
    <3>3. Resident(s) <= Bound(s) /\ Bound(s) \in Int
      BY <1>2, BoundTypes DEF Path
    <3>4. QED
      BY <1>4, <3>1, <3>2, <3>3, <1>t DEF Numbers
  <2>3. QED
    BY <1>1, <1>2, <1>3, <2>1, <2>2 DEF Path
<1>6. Position(s)'
  BY <1>1, <1>2 DEF Position
<1>7. History(s)'
  BY <1>1, <1>2 DEF History, Delivered
<1>8. QED
  BY <1>4, <1>5, <1>6, <1>7 DEF Own

(* Yielding a batch extends the history by the batch after the last one. *)
LEMMA OwnEmit ==
  ASSUME TypeOK, NEW s \in Scans, Own(s), Emit(s)
  PROVE  Own(s)'
<1>t. Numbers(s)
  BY OwnNumbers
<1>1. /\ next'[s] = next[s] /\ pending'[s] = pending[s] /\ cur'[s] = cur[s]
      /\ pos'[s] = pos[s] + 1 /\ out'[s] = Append(out[s], <<cur[s], pos[s] + 1>>)
      /\ pc'[s] = "emit" /\ outcome'[s] = outcome[s]
      /\ pc[s] = "emit" /\ pos[s] < Plan[s][cur[s]].batches
  BY DEF Emit, TypeOK
<1>2. Window(s) /\ Path(s) /\ Position(s) /\ History(s)
  BY DEF Own
<1>3. outcome[s] = "none" /\ cur[s] > 0 /\ cur[s] \in 1..NumBlocks(s)
  <2>1. outcome[s] = "none" /\ cur[s] > 0
    BY <1>1, <1>2 DEF Path, Position
  <2>2. cur[s] < next[s] /\ next[s] <= NumBlocks(s) + 1
    BY <1>2, <1>t DEF Window, Numbers
  <2>3. QED
    BY <2>1, <2>2, <1>t DEF Numbers
<1>4. Plan[s][cur[s]].batches \in Nat
  BY <1>3, PlanTypes
<1>5. Window(s)' /\ Path(s)'
  BY <1>1, <1>2 DEF Window, Path, Resident, Pooled, Bound
<1>6. Position(s)'
  <2>1. pos'[s] <= Plan[s][cur[s]].batches
    BY <1>1, <1>4, <1>t DEF Numbers
  <2>2. cur[s] # 0
    BY <1>3, <1>t DEF Numbers
  <2>3. QED
    BY <1>1, <1>3, <2>1, <2>2 DEF Position
<1>7. History(s)'
  <2>1. /\ out[s] \in Seq(Nat \X Nat) /\ Len(out[s]) \in Nat
        /\ <<cur[s], pos[s] + 1>> \in Nat \X Nat
        /\ \A i \in DOMAIN out[s] :
             i \in Nat /\ out[s][i][1] \in Nat /\ out[s][i][2] \in Nat
    BY OutTypes, <1>t DEF Numbers
  <2>2. /\ DOMAIN out[s] = 1..Len(out[s])
        /\ DOMAIN out'[s] = 1..(Len(out[s]) + 1)
        /\ \A i \in 1..Len(out[s]) : out'[s][i] = out[s][i]
        /\ out'[s][Len(out[s]) + 1] = <<cur[s], pos[s] + 1>>
    BY <1>1, <2>1, Appended
  <2>3. \A i \in 1..Len(out[s]) :
          \/ out[s][i][1] < cur[s]
          \/ out[s][i][1] = cur[s] /\ out[s][i][2] <= pos[s]
    BY <1>2, <2>2 DEF History
  <2>4. ASSUME NEW i \in DOMAIN out'[s]
        PROVE  \/ out'[s][i][1] < cur'[s]
               \/ out'[s][i][1] = cur'[s] /\ out'[s][i][2] <= pos'[s]
    <3>1. CASE i \in 1..Len(out[s])
      <4>1. out[s][i][2] \in Nat /\ out'[s][i] = out[s][i]
        BY <2>1, <2>2, <3>1
      <4>2. \/ out[s][i][1] < cur[s]
            \/ out[s][i][1] = cur[s] /\ out[s][i][2] <= pos[s] + 1
        BY <2>3, <3>1, <4>1, <1>t DEF Numbers
      <4>3. QED
        BY <1>1, <4>1, <4>2
    <3>2. CASE i = Len(out[s]) + 1
      BY <1>1, <2>2, <3>2, <1>t DEF Numbers
    <3>3. QED
      BY <2>1, <2>2, <3>1, <3>2
  <2>5. ASSUME NEW i \in DOMAIN out'[s], NEW j \in DOMAIN out'[s], i < j
        PROVE  Before(out'[s][i], out'[s][j])
    <3>1. i \in 1..Len(out[s])
      BY <2>1, <2>2, <2>5
    <3>2. CASE j \in 1..Len(out[s])
      <4>1. Before(out[s][i], out[s][j])
        BY <1>2, <2>2, <2>5, <3>1, <3>2 DEF History
      <4>2. QED
        BY <2>2, <3>1, <3>2, <4>1
    <3>3. CASE j = Len(out[s]) + 1
      <4>1. out'[s][j][1] = cur[s] /\ out'[s][j][2] = pos[s] + 1
        BY <2>2, <3>3
      <4>2. out[s][i][1] \in Nat /\ out[s][i][2] \in Nat
        BY <2>1, <2>2, <3>1
      <4>3. \/ out[s][i][1] < cur[s]
            \/ out[s][i][1] = cur[s] /\ out[s][i][2] < pos[s] + 1
        BY <2>3, <3>1, <4>2, <1>t DEF Numbers
      <4>4. out'[s][i] = out[s][i]
        BY <2>2, <3>1
      <4>5. QED
        BY <4>1, <4>3, <4>4 DEF Before
    <3>4. QED
      BY <2>1, <2>2, <3>2, <3>3
  <2>6. ASSUME NEW b \in 1..NumBlocks(s), NEW k \in 1..Plan[s][b].batches,
               b < cur'[s] \/ (b = cur'[s] /\ k <= pos'[s])
        PROVE  <<b, k>> \in Delivered(s)'
    <3>1. Plan[s][b].batches \in Nat
      BY PlanTypes
    <3>2. CASE b < cur[s] \/ (b = cur[s] /\ k <= pos[s])
      <4>1. PICK i \in DOMAIN out[s] : out[s][i] = <<b, k>>
        BY <1>2, <3>2 DEF History, Delivered
      <4>2. i \in DOMAIN out'[s] /\ out'[s][i] = <<b, k>>
        <5>1. i \in 1..Len(out[s])
          BY <2>2, <4>1
        <5>2. i \in 1..(Len(out[s]) + 1)
          BY <2>1, <5>1
        <5>3. QED
          BY <2>2, <4>1, <5>1, <5>2
      <4>3. QED
        BY <4>2 DEF Delivered
    <3>3. CASE b = cur[s] /\ k = pos[s] + 1
      <4>1. Len(out[s]) + 1 \in DOMAIN out'[s]
        BY <2>1, <2>2
      <4>2. out'[s][Len(out[s]) + 1] = <<b, k>>
        BY <2>2, <3>3
      <4>3. QED
        BY <4>1, <4>2 DEF Delivered
    <3>4. QED
      BY <1>1, <2>6, <3>1, <3>2, <3>3, <1>t DEF Numbers
  <2>7. QED
    BY <2>4, <2>5, <2>6 DEF History
<1>8. QED
  BY <1>5, <1>6, <1>7 DEF Own

LEMMA OwnStep ==
  ASSUME Inductive, NEW s \in Scans, GeneratorStep(s)
  PROVE  \A t \in Scans : Own(t)'
<1>1. TypeOK /\ \A t \in Scans : Own(t)
  BY DEF Inductive, Own
<1>2. ASSUME NEW t \in Scans, t # s
      PROVE  Own(t)'
  BY <1>1, <1>2, OthersFrame, OwnFrame
<1>3. Own(s)'
  BY <1>1, OwnMoves, OwnInlineLoad, OwnSubmit, OwnPop, OwnCancel, OwnEmit
     DEF GeneratorStep, Advance, CleanUp
<1>4. QED
  BY <1>2, <1>3

-----------------------------------------------------------------------------
(* The futures. *)

(* What Future says of one load, its generator given.                      *)
LEMMA FutureStep ==
  ASSUME Inductive, NEW s \in Scans, GeneratorStep(s),
         NEW t \in Scans, NEW b \in 1..NumBlocks(t)
  PROVE  Future(t, b)'
<1>1. TypeOK /\ Own(t) /\ Own(s) /\ Future(t, b)
  BY DEF Inductive, Own
<1>2. Numbers(t) /\ Numbers(s)
  BY <1>1, OwnNumbers
<1>3. <<t, b>> \in Loads /\ running' = running
  BY LoadPairs DEF GeneratorStep, Advance, CleanUp, Open, Start, InlineLoad,
     Submit, Pop, Receive, Emit, EndBlock, End, Close, Cancel, EndCancel, poolVars
<1>4. Pooled(t)' = Pooled(t)
  BY DEF Pooled
<1>5. CASE Submit(s)
  <2>1. /\ next[s] \in 1..NumBlocks(s)
        /\ fut' = [fut EXCEPT ![<<s, next[s]>>] = "queued"]
        /\ queue' = Append(queue, <<s, next[s]>>)
        /\ pc[s] = "loop" /\ pc' = pc /\ cur' = cur
        /\ next'[s] = next[s] + 1 /\ pending'[s] = Append(pending[s], next[s])
    <3>1. next[s] \in Nat /\ next[s] > 0 /\ next[s] <= NumBlocks(s)
      BY <1>2, <1>5 DEF Submit, Numbers
    <3>2. next[s] \in 1..NumBlocks(s)
      BY <1>2, <3>1 DEF Numbers
    <3>3. s \in DOMAIN next /\ s \in DOMAIN pending
      BY <1>1 DEF TypeOK
    <3>4. next'[s] = next[s] + 1 /\ pending'[s] = Append(pending[s], next[s])
      BY <1>5, <3>3 DEF Submit
    <3>5. QED
      BY <1>5, <3>2, <3>4 DEF Submit
  <2>2. <<s, next[s]>> \in Loads
    BY <2>1, LoadPairs
  <2>3. /\ queue \in Seq(Loads) /\ Len(queue) \in Nat
        /\ DOMAIN queue' = 1..(Len(queue) + 1) /\ DOMAIN queue = 1..Len(queue)
        /\ \A i \in 1..Len(queue) : queue'[i] = queue[i]
        /\ queue'[Len(queue) + 1] = <<s, next[s]>>
    <3>1. queue \in Seq(Loads)
      BY <1>1 DEF TypeOK
    <3>2. QED
      BY <2>1, <2>2, <3>1, Appended
  <2>4. Len(pending'[s]) = Len(pending[s]) + 1
    <3>1. pending[s] \in Seq(1..NumBlocks(s))
      BY <1>1 DEF TypeOK
    <3>2. QED
      BY <2>1, <3>1, Appended
  <2>5. CASE t = s /\ b = next[s]
    <3>1. fut'[<<t, b>>] = "queued"
      BY <1>1, <2>1, <2>2, <2>5 DEF TypeOK
    <3>2. Len(queue) + 1 \in DOMAIN queue' /\ queue'[Len(queue) + 1] = <<t, b>>
      BY <2>3, <2>5
    <3>3. b < next'[t] /\ b >= next'[t] - Len(pending'[t])
      <4> DEFINE n == next[s]
                 l == Len(pending[s])
      <4>1. n \in Int /\ l \in Nat
        BY <1>2 DEF Numbers
      <4>2. /\ t = s /\ b = n
            /\ next'[s] = n + 1 /\ Len(pending'[s]) = l + 1
        BY <2>1, <2>4, <2>5
      <4> HIDE DEF n, l
      <4>3. n < n + 1 /\ n >= (n + 1) - (l + 1)
        BY <4>1
      <4>4. QED
        BY <4>2, <4>3
    <3>4. QED
      BY <2>1, <2>5, <3>1, <3>2, <3>3 DEF Future
  <2>6. CASE ~(t = s /\ b = next[s])
    <3>1. fut'[<<t, b>>] = fut[<<t, b>>]
      BY <1>1, <1>3, <2>1, <2>2, <2>6 DEF TypeOK
    <3>2. (\E i \in DOMAIN queue : queue[i] = <<t, b>>)
            => \E i \in DOMAIN queue' : queue'[i] = <<t, b>>
      <4>1. \A i \in DOMAIN queue : i \in DOMAIN queue' /\ queue'[i] = queue[i]
        BY <2>3
      <4>2. QED
        BY <4>1
    <3>3. /\ b < next[t] => b < next'[t]
          /\ b < next'[t] => b < next[t]
          /\ next'[t] - Len(pending'[t]) = next[t] - Len(pending[t])
      <4>1. CASE t = s
        <5>1. b # next[t] /\ next'[t] = next[t] + 1
          BY <2>1, <2>6, <4>1
        <5>2. b \in Int /\ next[t] \in Int /\ Len(pending[t]) \in Int
          BY <1>2 DEF Numbers
        <5>3. next'[t] - Len(pending'[t]) = next[t] - Len(pending[t])
          BY <2>4, <4>1, <5>1, <5>2, WindowArithmetic
        <5>4. b < next[t] <=> b < next'[t]
          BY <5>1, <5>2
        <5>5. QED
          BY <5>3, <5>4
      <4>2. CASE t # s
        BY <1>5, <1>1, <4>2, OthersFrame DEF SameGenerator, GeneratorStep, Advance
      <4>3. QED
        BY <4>1, <4>2
    <3>4. QED
      BY <1>1, <1>3, <1>4, <2>1, <3>1, <3>2, <3>3 DEF Future
  <2>7. QED
    BY <2>5, <2>6
<1>6. CASE Cancel(s)
  <2>1. /\ fut' = [fut EXCEPT ![<<s, Head(pending[s])>>] =
                      IF @ = "queued" THEN "cancelled" ELSE @]
        /\ queue' = queue /\ pc[s] = "cancel" /\ pc' = pc /\ cur' = cur
        /\ next' = next
    BY <1>6 DEF Cancel
  <2>2. /\ Head(pending[s]) = next[s] - Len(pending[s])
        /\ Len(pending'[s]) = Len(pending[s]) - 1
    BY <1>1, <1>6, OwnCancel
  <2>3. CASE t = s /\ b = Head(pending[s])
    <3>1. fut'[<<t, b>>] = IF fut[<<t, b>>] = "queued" THEN "cancelled" ELSE fut[<<t, b>>]
      BY <1>1, <1>3, <2>1, <2>3 DEF TypeOK
    <3>2. QED
      BY <1>1, <1>3, <1>4, <2>1, <2>3, <3>1 DEF Future
  <2>4. CASE t = s /\ b # Head(pending[s])
    <3>1. fut'[<<t, b>>] = fut[<<t, b>>]
      BY <1>1, <1>3, <2>1, <2>4 DEF TypeOK
    <3>2. b >= next[s] - Len(pending[s]) => b >= next'[s] - Len(pending'[s])
      <4>1. b # next[s] - Len(pending[s]) /\ next'[s] = next[s]
        BY <2>1, <2>2, <2>4
      <4>2. b \in Int /\ next[s] \in Int /\ Len(pending[s]) \in Int
        BY <1>2 DEF Numbers
      <4>3. b >= next[s] - Len(pending[s]) =>
              b >= next[s] - (Len(pending[s]) - 1)
        BY <4>1, <4>2, WindowArithmetic
      <4>4. QED
        BY <2>2, <4>1, <4>3
    <3>3. QED
      BY <1>1, <1>3, <1>4, <2>1, <2>4, <3>1, <3>2 DEF Future
  <2>5. CASE t # s
    <3>1. fut'[<<t, b>>] = fut[<<t, b>>]
      BY <1>1, <1>3, <2>1, <2>5 DEF TypeOK
    <3>2. SameGenerator(t)
      BY <1>1, <1>6, <2>5, OthersFrame DEF GeneratorStep, CleanUp
    <3>3. QED
      BY <1>1, <1>3, <1>4, <2>1, <3>1, <3>2 DEF Future, SameGenerator
  <2>6. QED
    BY <2>3, <2>4, <2>5
<1>7. CASE Pop(s)
  <2>1. /\ fut' = fut /\ queue' = queue /\ pc'[s] = "wait" /\ pc[s] = "loop"
        /\ next' = next /\ pending'[s] = Tail(pending[s]) /\ pending[s] # << >>
    BY <1>1, <1>7 DEF Pop, Goto, TypeOK, poolVars
  <2>2. cur'[s] = next[s] - Len(pending[s])
    BY <1>1, <1>7, OwnPop
  <2>3. Len(pending'[s]) = Len(pending[s]) - 1
    <3>1. pending[s] \in Seq(1..NumBlocks(s))
      BY <1>1 DEF TypeOK
    <3>2. QED
      BY <2>1, <3>1, HeadTail
  <2>4. CASE t = s
    <3>1. b >= next[s] - Len(pending[s]) =>
            b >= next'[s] - Len(pending'[s]) \/ b = cur'[s]
      BY <1>2, <2>1, <2>2, <2>3, <2>4 DEF Numbers
    <3>2. QED
      BY <1>1, <1>3, <1>4, <2>1, <2>4, <3>1 DEF Future
  <2>5. CASE t # s
    <3>1. SameGenerator(t)
      BY <1>1, <1>7, <2>5, OthersFrame DEF GeneratorStep, Advance
    <3>2. QED
      BY <1>1, <1>3, <1>4, <2>1, <3>1 DEF Future, SameGenerator
  <2>6. QED
    BY <2>4, <2>5
<1>8. CASE /\ ~Submit(s) /\ ~Cancel(s) /\ ~Pop(s)
  <2>1. fut' = fut /\ queue' = queue
    BY <1>8 DEF GeneratorStep, Advance, CleanUp, Open, Start, InlineLoad, Receive,
       Emit, EndBlock, End, Close, EndCancel, poolVars
  <2>2. CASE t # s
    <3>1. SameGenerator(t)
      BY <1>1, <2>2, OthersFrame
    <3>2. QED
      BY <1>1, <1>3, <1>4, <2>1, <3>1 DEF Future, SameGenerator
  <2>3. CASE t = s
    <3>1. CASE InlineLoad(s)
      <4>1. pc[s] = "inline" /\ ~Pooled(s)
        BY <1>1, <3>1 DEF InlineLoad, Own, Path
      <4>2. fut[<<t, b>>] \notin {"queued", "cancelled"}
        BY <1>1, <2>3, <4>1 DEF Future
      <4>3. QED
        BY <1>1, <1>3, <1>4, <2>1, <2>3, <4>1, <4>2 DEF Future
    <3>2. CASE ~InlineLoad(s)
      <4>1. next'[s] = next[s] /\ pending'[s] = pending[s] /\ cur'[s] = cur[s]
        BY <1>8, <3>2 DEF GeneratorStep, Advance, CleanUp, Open, Start, Receive,
           Emit, EndBlock, End, Close, EndCancel
      <4>2. fut[<<s, b>>] = "cancelled" => pc'[s] \in {"cancel", "stopped"}
        <5>1. fut[<<s, b>>] = "cancelled" => pc[s] \in {"cancel", "stopped"}
          BY <1>1, <2>3 DEF Future
        <5>2. pc[s] \in {"cancel", "stopped"} => pc'[s] \in {"cancel", "stopped"}
          BY <1>1, <1>8, <3>2 DEF GeneratorStep, Advance, CleanUp, Open, Start,
             Receive, Emit, EndBlock, End, Close, EndCancel, Goto, TypeOK
        <5>3. QED
          BY <5>1, <5>2
      <4>3. ASSUME fut[<<s, b>>] = "queued"
            PROVE  /\ pc'[s] \in {"loop", "wait", "emit", "cancel"}
                   /\ \/ b >= next[s] - Len(pending[s])
                      \/ pc'[s] = "wait" /\ b = cur[s]
        <5>1. /\ pc[s] \in {"loop", "wait", "emit", "cancel"} /\ b < next[s]
              /\ \/ b >= next[s] - Len(pending[s])
                 \/ pc[s] = "wait" /\ b = cur[s]
          BY <1>1, <2>3, <4>3 DEF Future
        <5>2. CASE Receive(s)
          <6>1. b # cur[s] /\ pc[s] = "wait"
            BY <4>3, <5>2 DEF Receive
          <6>2. Pooled(s)
            BY <1>1, <6>1 DEF Own, Path
          <6>3. pc'[s] \in {"emit", "cancel"}
            BY <1>1, <5>2, <6>2 DEF Receive, Goto, Leave, TypeOK
          <6>4. QED
            BY <5>1, <6>1, <6>3
        <5>3. CASE EndCancel(s)
          <6>1. pending[s] = << >> /\ pc[s] = "cancel"
            BY <5>3 DEF EndCancel
          <6>2. Len(pending[s]) = 0
            BY <6>1
          <6>3. FALSE
            BY <1>2, <2>3, <5>1, <6>1, <6>2 DEF Numbers
          <6>4. QED
            BY <6>3
        <5>4. CASE Emit(s)
          BY <1>1, <5>1, <5>4 DEF Emit
        <5>5. CASE EndBlock(s) \/ End(s) \/ Close(s)
          <6>1. Pooled(s)
            <7>1. pending[s] # << >>
              <8>1. pc[s] # "wait"
                BY <5>5 DEF EndBlock, End, Close
              <8>2. b >= next[s] - Len(pending[s]) /\ b < next[s]
                BY <5>1, <8>1
              <8>3. Len(pending[s]) # 0
                BY <1>2, <2>3, <8>2 DEF Numbers
              <8>4. QED
                BY <8>3
            <7>2. QED
              BY <1>1, <7>1 DEF Own, Path
          <6>2. pc'[s] \in {"loop", "cancel"} /\ pc[s] # "wait"
            BY <1>1, <5>1, <5>5, <6>1 DEF EndBlock, End, Close, Goto, Leave, TypeOK
          <6>3. QED
            BY <5>1, <6>2
        <5>6. CASE Open(s) \/ Start(s)
          BY <5>1, <5>6 DEF Open, Start
        <5>7. QED
          BY <1>8, <3>2, <5>2, <5>3, <5>4, <5>5, <5>6
             DEF GeneratorStep, Advance, CleanUp
      <4>4. QED
        BY <1>1, <1>3, <1>4, <2>1, <2>3, <4>1, <4>2, <4>3 DEF Future
    <3>3. QED
      BY <3>1, <3>2
  <2>4. QED
    BY <2>2, <2>3
<1>9. QED
  BY <1>5, <1>6, <1>7, <1>8

(* A thread's step moves one load along; the generators do not move.       *)
LEMMA TakeStep ==
  ASSUME Inductive, NEW w \in Workers, Take(w),
         NEW t \in Scans, NEW b \in 1..NumBlocks(t)
  PROVE  Future(t, b)'
<1>1. TypeOK /\ Future(t, b) /\ <<t, b>> \in Loads
  BY LoadPairs DEF Inductive
<1>2. /\ pc' = pc /\ next' = next /\ pending' = pending /\ cur' = cur
      /\ running[w] = Idle /\ queue' = Tail(queue) /\ queue # << >>
  BY DEF Take, genVars
<1>3. /\ Head(queue) = queue[1] /\ Head(queue) \in Loads
      /\ Len(queue) \in Nat
      /\ Len(Tail(queue)) = Len(queue) - 1
      /\ Tail(queue) \in Seq(Loads)
      /\ \A i \in 1..(Len(queue) - 1) : Tail(queue)[i] = queue[i + 1]
  <2>1. queue \in Seq(Loads)
    BY <1>1 DEF TypeOK
  <2>2. QED
    BY <1>2, <2>1, HeadTail
<1>4. Pooled(t)' = Pooled(t)
  BY DEF Pooled
<1>5. (\E i \in DOMAIN queue : queue[i] = <<t, b>>) /\ Head(queue) # <<t, b>>
        => \E i \in DOMAIN queue' : queue'[i] = <<t, b>>
  <2>1. DOMAIN queue = 1..Len(queue) /\ DOMAIN queue' = 1..(Len(queue) - 1)
    <3>1. queue \in Seq(Loads)
      BY <1>1 DEF TypeOK
    <3>2. QED
      BY <1>2, <1>3, <3>1
  <2>2. ASSUME NEW i \in DOMAIN queue, queue[i] = <<t, b>>, Head(queue) # <<t, b>>
        PROVE  \E j \in DOMAIN queue' : queue'[j] = <<t, b>>
    <3>1. i \in 1..Len(queue) /\ i # 1
      BY <1>3, <2>1, <2>2
    <3>2. i - 1 \in 1..(Len(queue) - 1) /\ (i - 1) + 1 = i
      BY <1>3, <3>1
    <3>3. queue'[i - 1] = <<t, b>>
      BY <1>2, <1>3, <2>2, <3>2
    <3>4. QED
      BY <2>1, <3>2, <3>3
  <2>3. QED
    BY <2>2
<1>6. \A v \in Workers : running[v] = <<t, b>> => running'[v] = <<t, b>>
  <2>1. running[w] # <<t, b>>
    BY <1>1, <1>2, PoolAssumption
  <2>2. \A v \in Workers : v # w => running'[v] = running[v]
    BY <1>1 DEF Take, TypeOK
  <2>3. QED
    BY <2>1, <2>2
<1>7. CASE Head(queue) = <<t, b>>
  <2>1. CASE fut[<<t, b>>] = "queued"
    <3>1. fut'[<<t, b>>] = "running" /\ running'[w] = <<t, b>>
      BY <1>1, <1>7, <2>1 DEF Take, TypeOK
    <3>2. QED
      BY <3>1 DEF Future
  <2>2. CASE fut[<<t, b>>] # "queued"
    <3>1. fut'[<<t, b>>] = "cancelled" /\ fut[<<t, b>>] = "cancelled"
      BY <1>7, <2>2 DEF Take
    <3>2. QED
      BY <1>1, <1>2, <3>1 DEF Future
  <2>3. QED
    BY <2>1, <2>2
<1>8. CASE Head(queue) # <<t, b>>
  <2>1. fut'[<<t, b>>] = fut[<<t, b>>]
    BY <1>1, <1>3, <1>8 DEF Take, TypeOK
  <2>2. QED
    BY <1>1, <1>2, <1>4, <1>5, <1>6, <1>8, <2>1 DEF Future
<1>9. QED
  BY <1>7, <1>8

LEMMA FinishStep ==
  ASSUME Inductive, NEW w \in Workers, Finish(w),
         NEW t \in Scans, NEW b \in 1..NumBlocks(t)
  PROVE  Future(t, b)'
<1>1. TypeOK /\ Future(t, b) /\ <<t, b>> \in Loads
  BY LoadPairs DEF Inductive
<1>2. /\ pc' = pc /\ next' = next /\ pending' = pending /\ cur' = cur
      /\ queue' = queue /\ running[w] # Idle
      /\ running' = [running EXCEPT ![w] = Idle]
  BY DEF Finish, genVars
<1>3. PICK result \in {"ok", "failed"} :
        fut' = [fut EXCEPT ![running[w]] = result]
  BY DEF Finish
<1>4. running[w] \in Loads
  BY <1>1, <1>2 DEF TypeOK
<1>5. CASE running[w] = <<t, b>>
  <2>1. fut'[<<t, b>>] \in {"ok", "failed"}
    BY <1>1, <1>3, <1>5 DEF TypeOK
  <2>2. QED
    BY <2>1 DEF Future
<1>6. CASE running[w] # <<t, b>>
  <2>1. fut'[<<t, b>>] = fut[<<t, b>>]
    BY <1>1, <1>3, <1>4, <1>6 DEF TypeOK
  <2>2. \A v \in Workers : running[v] = <<t, b>> => running'[v] = <<t, b>>
    BY <1>1, <1>2, <1>6 DEF TypeOK
  <2>3. Pooled(t)' = Pooled(t)
    BY DEF Pooled
  <2>4. QED
    BY <1>1, <1>2, <2>1, <2>2, <2>3 DEF Future
<1>7. QED
  BY <1>5, <1>6

LEMMA FinalizeStep ==
  ASSUME Inductive, Finalize, NEW t \in Scans, NEW b \in 1..NumBlocks(t)
  PROVE  Future(t, b)'
<1>1. TypeOK /\ Future(t, b) /\ <<t, b>> \in Loads
  BY LoadPairs DEF Inductive
<1>2. /\ pc' = pc /\ next' = next /\ pending' = pending /\ cur' = cur
      /\ running' = running /\ pc[t] \in {"unopened", "stopped"}
  BY DEF Finalize, genVars, Reachable, Live
<1>3. fut[<<t, b>>] # "queued"
  BY <1>1, <1>2 DEF Future
<1>4. fut'[<<t, b>>] = fut[<<t, b>>]
  BY <1>1, <1>3 DEF Finalize
<1>5. Pooled(t)' = Pooled(t)
  BY DEF Pooled
<1>6. QED
  BY <1>1, <1>2, <1>3, <1>4, <1>5 DEF Future

LEMMA StepInductive == Inductive /\ [Next]_vars => Inductive'
<1> SUFFICES ASSUME Inductive, [Next]_vars PROVE Inductive'
  OBVIOUS
<1>1. TypeOK' /\ TypeOK /\ \A t \in Scans : Own(t)
  BY TypeStep DEF Inductive, Own
<1>2. ASSUME NEW s \in Scans, GeneratorStep(s)
      PROVE  Inductive'
  <2>1. ~shut /\ shut' = shut
    <3>1. held \/ Live(s)
      BY <1>2 DEF GeneratorStep, Advance, CleanUp, Open, Start, InlineLoad, Submit,
         Pop, Receive, Emit, EndBlock, End, Close, Cancel, EndCancel, Live
    <3>2. QED
      BY <1>2, <3>1 DEF Inductive, GeneratorStep, Advance, CleanUp, Open, Start,
         InlineLoad, Submit, Pop, Receive, Emit, EndBlock, End, Close, Cancel,
         EndCancel
  <2>2. \A t \in Scans : Own(t)'
    BY <1>2, OwnStep
  <2>3. \A t \in Scans : \A b \in 1..NumBlocks(t) : Future(t, b)'
    BY <1>2, FutureStep
  <2>4. QED
    BY <1>1, <2>1, <2>2, <2>3 DEF Inductive, Own
<1>3. ASSUME genVars' = genVars,
             \A t \in Scans : \A b \in 1..NumBlocks(t) : Future(t, b)',
             shut' => ~held' /\ \A s \in Scans : ~Live(s)'
      PROVE  Inductive'
  <2>1. \A t \in Scans : SameGenerator(t)
    BY <1>3 DEF genVars, SameGenerator
  <2>2. \A t \in Scans : Own(t)'
    BY <1>1, <2>1, OwnFrame
  <2>3. QED
    BY <1>1, <1>3, <2>2 DEF Inductive, Own
<1>4. ASSUME genVars' = genVars, held' = held, shut' = shut
      PROVE  shut' => ~held' /\ \A s \in Scans : ~Live(s)'
  BY <1>4 DEF Inductive, Live, genVars
<1>5. ASSUME NEW w \in Workers, Take(w)
      PROVE  Inductive'
  <2>1. genVars' = genVars /\ held' = held /\ shut' = shut
    BY <1>5 DEF Take
  <2>2. QED
    BY <1>3, <1>4, <1>5, <2>1, TakeStep
<1>6. ASSUME NEW w \in Workers, Finish(w)
      PROVE  Inductive'
  <2>1. genVars' = genVars /\ held' = held /\ shut' = shut
    BY <1>6 DEF Finish
  <2>2. QED
    BY <1>3, <1>4, <1>6, <2>1, FinishStep
<1>7. ASSUME genVars' = genVars, poolVars' = poolVars
      PROVE  \A t \in Scans : \A b \in 1..NumBlocks(t) : Future(t, b)'
  <2>1. pc' = pc /\ next' = next /\ pending' = pending /\ cur' = cur
    BY <1>7 DEF genVars
  <2>2. fut' = fut /\ queue' = queue /\ running' = running
    BY <1>7 DEF poolVars
  <2>3. TAKE t \in Scans
  <2>4. TAKE b \in 1..NumBlocks(t)
  <2>5. Future(t, b)
    BY DEF Inductive
  <2>6. Future(t, b)' <=> Future(t, b)
    BY ONLY <2>1, <2>2 DEF Future, Pooled
  <2>7. QED
    BY <2>5, <2>6
<1>8. CASE Release
  <2>1. genVars' = genVars /\ poolVars' = poolVars /\ shut' = shut /\ ~held'
    BY <1>8 DEF Release
  <2>2. shut' => ~held' /\ \A s \in Scans : ~Live(s)'
    BY <2>1 DEF Inductive, Live, genVars
  <2>3. QED
    BY <1>3, <1>7, <2>1, <2>2
<1>9. CASE Finalize
  <2>1. genVars' = genVars /\ ~held' /\ \A s \in Scans : ~Live(s)'
    BY <1>9 DEF Finalize, Reachable, Live, genVars
  <2>2. QED
    BY <1>3, <1>9, <2>1, FinalizeStep
<1>10. CASE UNCHANGED vars
  <2>1. genVars' = genVars /\ poolVars' = poolVars /\ shut' = shut /\ held' = held
    BY <1>10 DEF vars, genVars, poolVars
  <2>2. QED
    BY <1>3, <1>4, <1>7, <2>1
<1>11. QED
  BY <1>2, <1>5, <1>6, <1>8, <1>9, <1>10 DEF Next, GeneratorStep, Work

(* The invariant that carries every safety property of the scan.           *)
THEOREM InductiveInvariant == Spec => []Inductive
<1>1. QED
  BY InitInductive, StepInductive, PTL DEF Spec

(* Whatever order the loads finish in and whatever else shares the pool, a  *)
(* consumer gets the blocks in grid order, no batch twice, and a stream     *)
(* that ends normally is complete.                                         *)
THEOREM DeliveryIsExact == Spec => []ExactDelivery
<1>1. Inductive => ExactDelivery
  <2> SUFFICES ASSUME Inductive, NEW s \in Scans
               PROVE  /\ \A i, j \in DOMAIN out[s] :
                           i < j => Before(out[s][i], out[s][j])
                      /\ outcome[s] = "done" =>
                           \A b \in 1..NumBlocks(s) :
                             \A k \in 1..Plan[s][b].batches :
                               <<b, k>> \in Delivered(s)
    BY DEF ExactDelivery
  <2>1. TypeOK /\ Position(s) /\ History(s)
    BY DEF Inductive
  <2>2. Numbers(s)
    BY <2>1, OwnNumbers
  <2>3. ASSUME outcome[s] = "done", NEW b \in 1..NumBlocks(s),
               NEW k \in 1..Plan[s][b].batches
        PROVE  <<b, k>> \in Delivered(s)
    <3>1. cur[s] = NumBlocks(s) /\ cur[s] > 0
      BY <2>1, <2>2, <2>3 DEF Position, Numbers
    <3>2. pos[s] = Plan[s][cur[s]].batches
      BY <2>1, <2>3, <3>1 DEF Position
    <3>3. b < cur[s] \/ (b = cur[s] /\ k <= pos[s])
      <4>1. b < cur[s] \/ b = cur[s]
        BY <2>2, <3>1 DEF Numbers
      <4>2. Plan[s][b].batches \in Nat
        BY PlanTypes
      <4>3. b = cur[s] => k <= pos[s]
        BY <3>2, <4>2
      <4>4. QED
        BY <4>1, <4>3
    <3>4. QED
      BY <2>1, <3>3 DEF History
  <2>4. QED
    BY <2>1, <2>3 DEF History
<1>2. QED
  BY <1>1, InductiveInvariant, PTL

(* A scan never holds more blocks than its prefetch knob says, however many *)
(* blocks the table has.                                                   *)
THEOREM MemoryIsBounded == Spec => []ResidentBound
<1>1. Inductive => ResidentBound
  BY DEF Inductive, Path, ResidentBound
<1>2. QED
  BY <1>1, InductiveInvariant, PTL

(* A consumer never waits on a load that nobody will run. *)
THEOREM NoLostWakeup == Spec => []WaitsForLiveLoad
<1>1. Inductive => WaitsForLiveLoad
  <2> SUFFICES ASSUME Inductive, NEW s \in Scans, pc[s] = "wait"
               PROVE  LET f == fut[<<s, cur[s]>>] IN
                      /\ f \in {"queued", "running", "ok", "failed"}
                      /\ f = "queued" => ~shut /\ \E i \in DOMAIN queue :
                                                    queue[i] = <<s, cur[s]>>
                      /\ f = "running" => \E w \in Workers :
                                            running[w] = <<s, cur[s]>>
    BY DEF WaitsForLiveLoad
  <2>1. TypeOK /\ Window(s) /\ Path(s) /\ Position(s) /\ ~shut
    BY DEF Inductive, Live
  <2>2. cur[s] \in 1..NumBlocks(s) /\ cur[s] < next[s]
    <3>1. Numbers(s)
      BY <2>1, OwnNumbers
    <3>2. cur[s] > 0 /\ cur[s] + Len(pending[s]) < next[s] /\ next[s] <= NumBlocks(s) + 1
      BY <2>1 DEF Window, Position
    <3>3. QED
      BY <3>1, <3>2 DEF Numbers
  <2>3. Future(s, cur[s]) /\ <<s, cur[s]>> \in Loads
    BY <2>2, LoadPairs DEF Inductive
  <2>4. Pooled(s)
    BY <2>1 DEF Path
  <2>5. fut[<<s, cur[s]>>] \in FutureStates
    BY <2>1, <2>3 DEF TypeOK
  <2>6. QED
    BY <2>1, <2>2, <2>3, <2>4, <2>5 DEF Future, FutureStates
<1>2. QED
  BY <1>1, InductiveInvariant, PTL

(* Once a generator has stopped, no thread starts a load of its scan.       *)
THEOREM StopMeansStop == Spec => NoStartAfterStop
<1>1. ASSUME Inductive, [Next]_vars, NEW s \in Scans, pc[s] = "stopped",
             NEW b \in 1..NumBlocks(s), fut'[<<s, b>>] = "running"
      PROVE  fut[<<s, b>>] = "running"
  <2>1. TypeOK /\ Future(s, b) /\ <<s, b>> \in Loads
    BY <1>1, LoadPairs DEF Inductive
  <2>2. fut[<<s, b>>] # "queued"
    BY <1>1, <2>1 DEF Future
  <2>3. ASSUME NEW t \in Scans, GeneratorStep(t)
        PROVE  fut[<<s, b>>] = "running"
    <3>1. CASE Submit(t)
      BY <1>1, <2>1, <3>1 DEF Submit, TypeOK
    <3>2. CASE Cancel(t)
      BY <1>1, <2>1, <3>2 DEF Cancel, TypeOK
    <3>3. CASE ~Submit(t) /\ ~Cancel(t)
      BY <1>1, <2>3, <3>3 DEF GeneratorStep, Advance, CleanUp, Open, Start,
         InlineLoad, Pop, Receive, Emit, EndBlock, End, Close, EndCancel, poolVars
    <3>4. QED
      BY <3>1, <3>2, <3>3
  <2>4. ASSUME NEW w \in Workers, Take(w)
        PROVE  fut[<<s, b>>] = "running"
    BY <1>1, <2>1, <2>2, <2>4 DEF Take, TypeOK
  <2>5. ASSUME NEW w \in Workers, Finish(w)
        PROVE  fut[<<s, b>>] = "running"
    BY <1>1, <2>1, <2>5 DEF Finish, TypeOK
  <2>6. CASE Release
    BY <1>1, <2>6 DEF Release, poolVars
  <2>7. CASE Finalize
    BY <1>1, <2>1, <2>7 DEF Finalize
  <2>8. CASE UNCHANGED vars
    BY <1>1, <2>8 DEF vars
  <2>9. QED
    BY <1>1, <2>3, <2>4, <2>5, <2>6, <2>7, <2>8 DEF Next, GeneratorStep, Work
<1>2. Inductive /\ [Next]_vars =>
        [\A s \in Scans : pc[s] = "stopped" =>
           \A b \in 1..NumBlocks(s) :
             fut'[<<s, b>>] = "running" => fut[<<s, b>>] = "running"]_vars
  BY <1>1
<1>3. QED
  BY <1>2, InductiveInvariant, PTL DEF Spec, NoStartAfterStop
-----------------------------------------------------------------------------
(* The byte estimate.                                                      *)

LEMMA BytesRecurrence ==
  ASSUME NEW s \in Scans, NEW q \in Seq(1..NumBlocks(s))
  PROVE  \E f : /\ Sums(f, Len(q), [i \in 1..Len(q) |-> Plan[s][q[i]].bytes])
                /\ \A n : Bytes(s, q, n) = f[n]
<1> DEFINE N == Len(q)
           weight(i) == Plan[s][q[i]].bytes
           weights == [i \in 1..N |-> weight(i)]
           sum == CHOOSE f : f = [i \in 0..N |-> IF i = 0 THEN 0 ELSE f[i - 1] + weight(i)]
<1>1. N \in Nat
  OBVIOUS
<1>2. weights \in [1..N -> Nat]
  <2>1. \A i \in 1..N : weight(i) \in Nat
    BY PlanTypes
  <2> HIDE DEF N, weight
  <2> QED BY <2>1
<1>3. \A i \in 0..N : i # 0 => i \in 1..N /\ weights[i] = weight(i)
  BY <1>1
<1>4. \E f : f = [i \in 0..N |-> IF i = 0 THEN 0 ELSE f[i - 1] + weight(i)]
  <2>1. PICK f \in [0..N -> Nat] : Sums(f, N, weights)
    <3> HIDE DEF N, weights
    <3> QED BY <1>1, <1>2, SumsExist
  <2>2. f = [i \in 0..N |-> IF i = 0 THEN 0 ELSE f[i - 1] + weight(i)]
    <3> HIDE DEF N, weights, weight
    <3> QED BY <1>3, <2>1 DEF Sums
  <2> QED BY <2>2
<1>5. sum = [i \in 0..N |-> IF i = 0 THEN 0 ELSE sum[i - 1] + weight(i)]
  <2> HIDE DEF N, weight
  <2> QED BY <1>4, Zenon
<1>6. \A n : Bytes(s, q, n) = sum[n]
  BY Zenon DEF Bytes
<1> HIDE DEF sum
<1>7. Sums(sum, N, weights)
  <2> HIDE DEF N, weight
  <2>1. 0 \in 0..N /\ \A i \in 1..N : i \in 0..N /\ i # 0
    BY <1>1
  <2> QED BY <1>3, <1>5, <2>1 DEF Sums
<1> QED BY <1>6, <1>7

(* The bytes of a deque, of one with a block more, and of one with its      *)
(* oldest block gone.                                                      *)
LEMMA BytesOfDeque ==
  ASSUME NEW s \in Scans, NEW q \in Seq(1..NumBlocks(s))
  PROVE  /\ Bytes(s, q, 0) = 0
         /\ \A n \in 0..Len(q) : Bytes(s, q, n) \in Nat
         /\ \A n \in 1..Len(q) : Bytes(s, q, n) = Bytes(s, q, n - 1) + Plan[s][q[n]].bytes
<1> DEFINE N == Len(q)
           weights == [i \in 1..N |-> Plan[s][q[i]].bytes]
<1>1. PICK f : Sums(f, N, weights) /\ \A n : Bytes(s, q, n) = f[n]
  BY BytesRecurrence
<1>2. N \in Nat /\ weights \in [1..N -> Nat]
  BY PlanTypes
<1>3. \A n \in 0..N : f[n] \in Nat
  <2> HIDE DEF N, weights
  <2> QED BY <1>1, <1>2, SumsType
<1>4. \A n \in 1..N : weights[n] = Plan[s][q[n]].bytes
  OBVIOUS
<1> HIDE DEF weights
<1> QED BY <1>1, <1>3, <1>4 DEF Sums

LEMMA SeqMembers ==
  ASSUME NEW T, NEW q \in Seq(T)
  PROVE  Len(q) \in Nat /\ \A i \in 1..Len(q) : q[i] \in T
  OBVIOUS

LEMMA BytesOfPart ==
  ASSUME NEW s \in Scans, NEW q \in Seq(1..NumBlocks(s)), NEW p \in Seq(1..NumBlocks(s)),
         NEW m \in Nat, Len(p) + m <= Len(q), \A i \in 1..Len(p) : p[i] = q[i + m]
  PROVE  \A n \in 0..Len(p) : Bytes(s, p, n) = Bytes(s, q, n + m) - Bytes(s, q, m)
<1> DEFINE M == Len(q)
           N == Len(p)
           long == [i \in 1..M |-> Plan[s][q[i]].bytes]
           short == [i \in 1..N |-> Plan[s][p[i]].bytes]
<1>1. PICK f : Sums(f, M, long) /\ \A n : Bytes(s, q, n) = f[n]
  BY BytesRecurrence
<1>2. PICK g : Sums(g, N, short) /\ \A n : Bytes(s, p, n) = g[n]
  BY BytesRecurrence
<1>3. M \in Nat /\ N \in Nat /\ long \in [1..M -> Nat] /\ short \in [1..N -> Nat]
  <2>1. M \in Nat /\ \A i \in 1..M : q[i] \in 1..NumBlocks(s)
    BY ONLY q \in Seq(1..NumBlocks(s)), SeqMembers
  <2>2. N \in Nat /\ \A i \in 1..N : p[i] \in 1..NumBlocks(s)
    BY ONLY p \in Seq(1..NumBlocks(s)), SeqMembers
  <2>3. \A b \in 1..NumBlocks(s) : Plan[s][b].bytes \in Nat
    BY PlanTypes
  <2> HIDE DEF M, N
  <2>4. long \in [1..M -> Nat]
    BY ONLY <2>1, <2>3
  <2>5. short \in [1..N -> Nat]
    BY ONLY <2>1, <2>2, <2>3
  <2> QED BY ONLY <2>1, <2>2, <2>4, <2>5
<1>0. M \in Nat /\ N \in Nat /\ m \in Nat /\ N + m <= M
  BY ONLY <1>3, m \in Nat, Len(p) + m <= Len(q)
<1>4. \A n \in 1..N : short[n] = long[n + m]
  <2>1. \A n \in 1..N : n + m \in 1..M /\ p[n] = q[n + m]
    <3>1. \A n \in 1..N : p[n] = q[n + m]
      OBVIOUS
    <3> HIDE DEF M, N
    <3>2. \A n \in 1..N : n + m \in 1..M
      BY ONLY <1>0
    <3> QED BY ONLY <3>1, <3>2
  <2> HIDE DEF M, N
  <2> QED BY ONLY <2>1
<1> HIDE DEF long, short
<1>5. \A n \in 0..N : g[n] = f[n + m] - f[m]
  <2>1. Sums(f, M, long) /\ Sums(g, N, short)
    BY ONLY <1>1, <1>2
  <2> HIDE DEF M, N
  <2>2. long \in [1..M -> Nat] /\ short \in [1..N -> Nat] /\ M \in Nat /\ N \in Nat /\ m \in Nat
    BY ONLY <1>0, <1>3
  <2>3. N + m <= M
    BY ONLY <1>0
  <2>4. Shifted(M, long, N, short, m)
    BY ONLY <1>4, <2>2, <2>3 DEF Shifted
  <2> QED BY ONLY <2>1, <2>4, SumsShift
<1> QED BY <1>1, <1>2, <1>5

(* The counter of generate() is the bytes of its deque, until the finally   *)
(* walks the deque; and the budget was kept when the newest was let in.     *)
Counted(s) ==
  pc[s] \notin {"cancel", "stopped"} => inflight[s] = Bytes(s, pending[s], Len(pending[s]))

InBudget(s) ==
  Budget # NoBudget /\ Active(s) /\ next[s] > 4 /\ Len(pending[s]) > 2
    => Bytes(s, pending[s], Len(pending[s]) - 1) <= Budget

Budgeted == \A s \in Scans : Counted(s) /\ InBudget(s)

LEMMA InitBudgeted == Init => Budgeted
<1> SUFFICES ASSUME Init, NEW s \in Scans PROVE Counted(s) /\ InBudget(s)
  BY DEF Budgeted
<1>1. inflight[s] = 0 /\ pending[s] = << >> /\ pc[s] = "unopened"
  BY DEF Init
<1>2. << >> \in Seq(1..NumBlocks(s)) /\ Len(<< >>) = 0
  OBVIOUS
<1>3. Bytes(s, << >>, 0) = 0
  BY <1>2, BytesOfDeque
<1> QED BY <1>1, <1>2, <1>3 DEF Counted, InBudget, Active

LEMMA SubmitBudgeted ==
  ASSUME Inductive, NEW s \in Scans, Counted(s), Submit(s)
  PROVE  Counted(s)' /\ InBudget(s)'
<1> DEFINE q == pending[s]
           b == next[s]
           B == 1..NumBlocks(s)
<1>1. /\ pc[s] = "loop" /\ pc' = pc /\ ~MustDrain(s) /\ b \in B
      /\ pending'[s] = Append(q, b) /\ inflight'[s] = inflight[s] + Plan[s][b].bytes
      /\ next'[s] = next[s] + 1
  BY PlanTypes DEF Submit, Inductive, TypeOK
<1>2. q \in Seq(B) /\ Append(q, b) \in Seq(B) /\ Len(q) \in Nat /\ Len(Append(q, b)) = Len(q) + 1
  <2>1. q \in Seq(B)
    BY DEF Inductive, TypeOK
  <2> HIDE DEF q, b, B
  <2> QED BY <1>1, <2>1, Appended
<1>3. (\A i \in 1..Len(q) : q[i] = Append(q, b)[i]) /\ Append(q, b)[Len(q) + 1] = b
  <2> HIDE DEF q, b, B
  <2> QED BY <1>1, <1>2, Appended
<1>4. Bytes(s, Append(q, b), Len(q)) = Bytes(s, q, Len(q))
  <2>1. \A n \in 0..Len(q) : Bytes(s, q, n) = Bytes(s, Append(q, b), n + 0) - Bytes(s, Append(q, b), 0)
    <3> DEFINE p == Append(q, b)
    <3>1. \A i \in 1..Len(q) : q[i] = p[i + 0]
      <4> HIDE DEF q, b
      <4> QED BY <1>2, <1>3
    <3>2. Len(q) + 0 <= Len(p) /\ 0 \in Nat /\ p \in Seq(B) /\ q \in Seq(B)
      BY <1>2
    <3> HIDE DEF p, q, B
    <3>3. p \in Seq(1..NumBlocks(s)) /\ q \in Seq(1..NumBlocks(s))
      BY <3>2 DEF B
    <3>4. \A n \in 0..Len(q) : Bytes(s, q, n) = Bytes(s, p, n + 0) - Bytes(s, p, 0)
      BY ONLY s \in Scans, <3>1, <3>2, <3>3, BytesOfPart, Zenon
    <3> QED BY ONLY <3>4 DEF p
  <2>2. Bytes(s, Append(q, b), 0) = 0 /\ Bytes(s, Append(q, b), Len(q)) \in Nat
    <3> DEFINE p == Append(q, b)
    <3>1. p \in Seq(B) /\ Len(q) \in 0..Len(p)
      BY <1>2
    <3> HIDE DEF p, q, B
    <3>2. p \in Seq(1..NumBlocks(s))
      BY <3>1 DEF B
    <3>3. Bytes(s, p, 0) = 0 /\ \A n \in 0..Len(p) : Bytes(s, p, n) \in Nat
      BY ONLY s \in Scans, <3>2, BytesOfDeque, Zenon
    <3> QED BY ONLY <3>1, <3>3 DEF p
  <2> HIDE DEF q, b, B
  <2> QED BY <1>2, <2>1, <2>2
<1>5. Bytes(s, Append(q, b), Len(q) + 1) = Bytes(s, q, Len(q)) + Plan[s][b].bytes
  <2>1. Bytes(s, Append(q, b), Len(q) + 1)
          = Bytes(s, Append(q, b), (Len(q) + 1) - 1) + Plan[s][Append(q, b)[Len(q) + 1]].bytes
    <3>1. Len(q) + 1 \in 1..Len(Append(q, b))
      BY <1>2
    <3> QED BY <1>2, <3>1, BytesOfDeque
  <2>2. (Len(q) + 1) - 1 = Len(q)
    BY <1>2
  <2> HIDE DEF q, b, B
  <2> QED BY <1>3, <1>4, <2>1, <2>2
<1>6. inflight[s] = Bytes(s, q, Len(q))
  BY <1>1 DEF Counted
<1>7. Counted(s)'
  <2>1. inflight'[s] = Bytes(s, pending'[s], Len(pending'[s]))
    <3> HIDE DEF q, b, B
    <3> QED BY <1>1, <1>2, <1>5, <1>6
  <2> QED BY <2>1 DEF Counted
<1>8. InBudget(s)'
  <2> SUFFICES ASSUME Budget # NoBudget, next'[s] > 4, Len(pending'[s]) > 2
               PROVE  Bytes(s, pending'[s], Len(pending'[s]) - 1) <= Budget
    BY DEF InBudget
  <2>1. Len(q) > 1 /\ next[s] > 3
    <3>1. next[s] \in Nat
      BY DEF Inductive, TypeOK
    <3> QED BY <1>1, <1>2, <3>1
  <2>2. ~(inflight[s] > Budget)
    BY <1>1, <2>1 DEF MustDrain
  <2>3. inflight[s] \in Int /\ Budget \in Int
    BY ScanAssumption DEF Inductive, TypeOK
  <2>4. Len(pending'[s]) - 1 = Len(q)
    BY <1>1, <1>2
  <2> HIDE DEF q, b, B
  <2> QED BY <1>1, <1>4, <1>6, <2>2, <2>3, <2>4
<1> QED BY <1>7, <1>8

LEMMA PopBudgeted ==
  ASSUME Inductive, NEW s \in Scans, Counted(s), InBudget(s), Pop(s)
  PROVE  Counted(s)' /\ InBudget(s)'
<1> DEFINE q == pending[s]
           B == 1..NumBlocks(s)
           rest == Tail(q)
<1>1. /\ pc[s] = "loop" /\ q # << >> /\ pending'[s] = rest
      /\ inflight'[s] = inflight[s] - Plan[s][Head(q)].bytes
      /\ next'[s] = next[s]
  BY DEF Pop, Inductive, TypeOK
<1>2. /\ q \in Seq(B) /\ rest \in Seq(B) /\ Len(q) \in Nat /\ Len(q) > 0
      /\ Len(rest) = Len(q) - 1 /\ Head(q) = q[1] /\ q[1] \in B
      /\ \A i \in 1..Len(rest) : rest[i] = q[i + 1]
  <2>1. q \in Seq(B)
    BY DEF Inductive, TypeOK
  <2> HIDE DEF q, B
  <2> QED BY <1>1, <2>1, HeadTail
<1> HIDE DEF q, B, rest
<1>3. Bytes(s, q, 1) = Plan[s][q[1]].bytes /\ Plan[s][q[1]].bytes \in Nat
  <2>1. 1 \in 1..Len(q)
    BY <1>2
  <2>2. Bytes(s, q, 1) = Bytes(s, q, 1 - 1) + Plan[s][q[1]].bytes /\ Bytes(s, q, 0) = 0
    BY <1>2, <2>1, BytesOfDeque DEF B
  <2>3. Plan[s][q[1]].bytes \in Nat
    BY <1>2, PlanTypes DEF B
  <2> QED BY <2>2, <2>3
<1>4. \A n \in 0..Len(rest) : Bytes(s, rest, n) = Bytes(s, q, n + 1) - Bytes(s, q, 1)
  <2>1. Len(rest) + 1 <= Len(q) /\ 1 \in Nat
    BY <1>2
  <2> QED BY <1>2, <2>1, BytesOfPart DEF B
<1>5. \A n \in 0..Len(q) : Bytes(s, q, n) \in Nat
  BY <1>2, BytesOfDeque DEF B
<1>6. Counted(s)'
  <2>1. inflight[s] = Bytes(s, q, Len(q))
    BY <1>1 DEF Counted, q
  <2>2. Len(rest) \in 0..Len(rest) /\ Len(rest) + 1 = Len(q)
    BY <1>2
  <2>3. Bytes(s, rest, Len(rest)) = Bytes(s, q, Len(q)) - Plan[s][q[1]].bytes
    BY <1>3, <1>4, <2>2
  <2>4. inflight'[s] = Bytes(s, pending'[s], Len(pending'[s]))
    BY <1>1, <1>2, <2>1, <2>3
  <2> QED BY <2>4 DEF Counted
<1>7. InBudget(s)'
  <2> SUFFICES ASSUME Budget # NoBudget, next'[s] > 4, Len(pending'[s]) > 2
               PROVE  Bytes(s, pending'[s], Len(pending'[s]) - 1) <= Budget
    BY DEF InBudget
  <2>1. next[s] > 4 /\ Len(q) > 3
    BY <1>1, <1>2
  <2>2. Bytes(s, q, Len(q) - 1) <= Budget
    <3>1. Len(q) > 2
      BY <1>2, <2>1
    <3> QED BY <1>1, <2>1, <3>1 DEF InBudget, Active, q
  <2>3. Len(rest) - 1 \in 0..Len(rest) /\ (Len(rest) - 1) + 1 = Len(q) - 1
    BY <1>2, <2>1
  <2>4. Bytes(s, rest, Len(rest) - 1) = Bytes(s, q, Len(q) - 1) - Plan[s][q[1]].bytes
    BY <1>3, <1>4, <2>3
  <2>5. Bytes(s, q, Len(q) - 1) \in Nat /\ Budget \in Int
    <3>1. Len(q) - 1 \in 0..Len(q)
      BY <1>2
    <3> QED BY <1>5, <3>1, ScanAssumption
  <2> QED BY <1>1, <1>3, <2>2, <2>4, <2>5
<1> QED BY <1>6, <1>7

(* The steps that leave the deque, its bytes and the next block alone. *)
LEMMA SameDequeBudgeted ==
  ASSUME NEW s \in Scans, Counted(s), InBudget(s),
         pending'[s] = pending[s], inflight'[s] = inflight[s], next'[s] = next[s],
         pc'[s] \notin {"cancel", "stopped"} => pc[s] \notin {"cancel", "stopped"},
         Active(s)' => Active(s) \/ pending[s] = << >>
  PROVE  Counted(s)' /\ InBudget(s)'
<1>1. Counted(s)'
  BY DEF Counted
<1>2. InBudget(s)'
  BY DEF InBudget
<1> QED BY <1>1, <1>2

(* A step of the generator of s. *)
LEMMA OwnBudgeted ==
  ASSUME Inductive, NEW s \in Scans, Counted(s), InBudget(s),
         Open(s) \/ Advance(s) \/ Close(s) \/ CleanUp(s)
  PROVE  Counted(s)' /\ InBudget(s)'
<1>1. CASE Submit(s)
  BY <1>1, SubmitBudgeted
<1>2. CASE Pop(s)
  BY <1>2, PopBudgeted
<1>3. CASE InlineLoad(s)
  <2>1. pc[s] = "inline" /\ pending[s] = << >> /\ pending' = pending /\ inflight' = inflight
    BY <1>3 DEF InlineLoad, Inductive, Path
  <2>2. Counted(s)'
    BY <2>1 DEF Counted
  <2>3. InBudget(s)'
    <3>1. Len(pending'[s]) = 0
      BY <2>1
    <3> QED BY <3>1 DEF InBudget
  <2> QED BY <2>2, <2>3
<1>4. CASE Open(s) \/ Start(s)
  <2>1. /\ pending[s] = << >> /\ pending' = pending /\ inflight' = inflight /\ next' = next
        /\ pc[s] \in {"unopened", "new"}
    BY <1>4 DEF Open, Start, Inductive, Path
  <2> QED BY <2>1, SameDequeBudgeted DEF Active
<1>5. CASE Emit(s)
  <2>1. pc' = pc /\ pending' = pending /\ inflight' = inflight /\ next' = next
    BY <1>5 DEF Emit
  <2> QED BY <2>1, SameDequeBudgeted DEF Active
<1>6. CASE Receive(s) \/ EndBlock(s)
  <2>1. /\ pending' = pending /\ inflight' = inflight /\ next' = next
        /\ pc[s] \in {"wait", "emit"}
    BY <1>6 DEF Receive, EndBlock
  <2> QED BY <2>1, SameDequeBudgeted DEF Active
<1>7. CASE End(s) \/ Close(s) \/ CleanUp(s)
  <2>1. pc'[s] \in {"cancel", "stopped"}
    BY <1>7 DEF End, Close, CleanUp, Cancel, EndCancel, Leave, Goto, Inductive, TypeOK
  <2>2. Counted(s)'
    BY <2>1 DEF Counted
  <2>3. InBudget(s)'
    BY <2>1 DEF InBudget, Active
  <2> QED BY <2>2, <2>3
<1> QED BY <1>1, <1>2, <1>3, <1>4, <1>5, <1>6, <1>7 DEF Advance

LEMMA StepBudgeted == Inductive /\ Budgeted /\ [Next]_vars => Budgeted'
<1> SUFFICES ASSUME Inductive, Budgeted, [Next]_vars, NEW s \in Scans
             PROVE  Counted(s)' /\ InBudget(s)'
  BY DEF Budgeted
<1>1. Counted(s) /\ InBudget(s)
  BY DEF Budgeted
<1>2. CASE Open(s) \/ Advance(s) \/ Close(s) \/ CleanUp(s)
  BY <1>1, <1>2, OwnBudgeted
<1>3. ASSUME NEW t \in Scans, t # s, Open(t) \/ Advance(t) \/ Close(t) \/ CleanUp(t)
      PROVE  Counted(s)' /\ InBudget(s)'
  <2>1. /\ pending'[s] = pending[s] /\ inflight'[s] = inflight[s]
        /\ next'[s] = next[s] /\ pc'[s] = pc[s]
    BY <1>3 DEF Open, Advance, Start, InlineLoad, Submit, Pop, Receive, Emit, EndBlock, End,
         Close, CleanUp, Cancel, EndCancel, Leave, Goto, Inductive, TypeOK
  <2> QED BY <1>1, <2>1, SameDequeBudgeted DEF Active
<1>4. CASE UNCHANGED genVars
  BY <1>1, <1>4, SameDequeBudgeted DEF Active, genVars
<1>5. (\E w \in Workers : Work(w)) \/ Release \/ Finalize \/ UNCHANGED vars => UNCHANGED genVars
  BY DEF Work, Take, Finish, Release, Finalize, vars, genVars
<1> QED BY <1>2, <1>3, <1>4, <1>5 DEF Next

(* The bytes a scan has in flight are within the budget when it lets its    *)
(* newest block in: generate()'s running counter is at every moment the     *)
(* sum over its deque, whichever blocks were drained in between.           *)
THEOREM BudgetIsKept == Spec => []BudgetBound
<1>1. Init => Inductive /\ Budgeted
  BY InitInductive, InitBudgeted
<1>2. Inductive /\ Budgeted /\ [Next]_vars => (Inductive /\ Budgeted)'
  BY StepInductive, StepBudgeted
<1>3. Budgeted => BudgetBound
  BY DEF Budgeted, InBudget, BudgetBound
<1> QED BY <1>1, <1>2, <1>3, PTL DEF Spec

-----------------------------------------------------------------------------
(***************************************************************************)
(* The prefetching scan implements the ordered one: every step of the      *)
(* generators and of the pool is a step of OrderedScan or a stutter.       *)
(***************************************************************************)
LEMMA FirstBatchesType ==
  ASSUME NEW b \in Nat, NEW n \in Nat
  PROVE  /\ OS!FirstBatches(b, n) \in Seq(Nat \X Nat)
         /\ Len(OS!FirstBatches(b, n)) = n
         /\ \A k \in 1..n : OS!FirstBatches(b, n)[k] = <<b, k>>
<1>1. \A k \in 1..n : <<b, k>> \in Nat \X Nat
  OBVIOUS
<1>2. OS!FirstBatches(b, n) = [k \in 1..n |-> <<b, k>>]
  BY DEF OS!FirstBatches
<1>3. [k \in 1..n |-> <<b, k>>] \in [1..n -> Nat \X Nat]
  BY <1>1
<1> QED BY <1>2, <1>3

LEMMA BlocksRecurrence ==
  ASSUME NEW s \in Scans
  PROVE  /\ OS!Blocks(s, 0) = << >>
         /\ \A b \in 1..NumBlocks(s) :
              OS!Blocks(s, b) = OS!Blocks(s, b - 1) \o OS!FirstBatches(b, Plan[s][b].batches)
         /\ \A b \in 0..NumBlocks(s) : OS!Blocks(s, b) \in Seq(Nat \X Nat)
<1> DEFINE N == NumBlocks(s)
           T == Nat \X Nat
           Batches(b) == OS!FirstBatches(b, Plan[s][b].batches)
           parts == [b \in 1..N |-> Batches(b)]
           prefix == CHOOSE f : f = [b \in 0..N |-> IF b = 0 THEN << >> ELSE f[b - 1] \o Batches(b)]
<1>1. N \in Nat
  BY PlanTypes
<1>2. ASSUME NEW b \in 1..N
      PROVE  Batches(b) \in Seq(T)
  <2>1. b \in Nat /\ Plan[s][b].batches \in Nat
    BY PlanTypes
  <2> HIDE DEF N
  <2> QED BY <2>1, FirstBatchesType
<1>3. parts \in [1..N -> Seq(T)]
  <2> HIDE DEF N, T, Batches
  <2> QED BY <1>2
<1>4. \A b \in 0..N : b # 0 => b \in 1..N /\ parts[b] = Batches(b)
  BY <1>1
<1>5. \E f : f = [b \in 0..N |-> IF b = 0 THEN << >> ELSE f[b - 1] \o Batches(b)]
  <2>1. PICK f \in [0..N -> Seq(T)] : Concatenates(f, N, parts)
    <3> HIDE DEF N, T, parts, prefix
    <3> QED BY <1>1, <1>3, ConcatenationExists
  <2>2. f = [b \in 0..N |-> IF b = 0 THEN << >> ELSE f[b - 1] \o Batches(b)]
    <3> HIDE DEF N, T, parts, Batches
    <3> QED BY <1>4, <2>1 DEF Concatenates
  <2> QED BY <2>2
<1>6. prefix = [b \in 0..N |-> IF b = 0 THEN << >> ELSE prefix[b - 1] \o Batches(b)]
  <2> HIDE DEF N, Batches
  <2> QED BY <1>5, Zenon
<1>7. \A b : OS!Blocks(s, b) = prefix[b]
  BY Zenon DEF OS!Blocks, NumBlocks
<1> HIDE DEF prefix
<1>8. prefix[0] = << >> /\ \A b \in 1..N : prefix[b] = prefix[b - 1] \o Batches(b)
  <2> HIDE DEF Batches, N
  <2>1. 0 \in 0..N /\ \A b \in 1..N : b \in 0..N /\ b # 0
    BY <1>1
  <2> QED BY <1>6, <2>1
<1>9. Concatenates(prefix, N, parts)
  <2> HIDE DEF N, T, Batches
  <2> QED BY <1>8 DEF Concatenates
<1>10. \A b \in 0..N : prefix[b] \in Seq(T)
  <2> HIDE DEF N, T, parts
  <2> QED BY <1>1, <1>3, <1>8, <1>9, ConcatenationType
<1> HIDE DEF T
<1>11. /\ OS!Blocks(s, 0) = << >>
       /\ \A b \in 1..N : OS!Blocks(s, b) = OS!Blocks(s, b - 1) \o Batches(b)
       /\ \A b \in 0..N : OS!Blocks(s, b) \in Seq(T)
  BY <1>7, <1>8, <1>10
<1> QED BY <1>11 DEF T

(* More of a block is a longer prefix; all of it is the next prefix. *)
LEMMA BatchByBatch ==
  ASSUME NEW s \in Scans, NEW b \in 1..NumBlocks(s)
  PROVE  /\ OS!Blocks(s, b - 1) \o OS!FirstBatches(b, 0) = OS!Blocks(s, b - 1)
         /\ OS!Blocks(s, b - 1) \o OS!FirstBatches(b, Plan[s][b].batches) = OS!Blocks(s, b)
         /\ \A k \in Nat : OS!Blocks(s, b - 1) \o OS!FirstBatches(b, k + 1)
                             = Append(OS!Blocks(s, b - 1) \o OS!FirstBatches(b, k), <<b, k + 1>>)
<1>1. b \in Nat /\ b - 1 \in 0..NumBlocks(s)
  BY PlanTypes
<1>2. OS!Blocks(s, b - 1) \in Seq(Nat \X Nat)
  BY <1>1, BlocksRecurrence
<1>3. OS!FirstBatches(b, 0) = << >>
  BY <1>1, FirstBatchesType
<1>4. ASSUME NEW k \in Nat
      PROVE  OS!FirstBatches(b, k + 1) = Append(OS!FirstBatches(b, k), <<b, k + 1>>)
  BY DEF OS!FirstBatches
<1>5. \A q \in Seq(Nat \X Nat) : q \o << >> = q
  OBVIOUS
<1>6. ASSUME NEW k \in Nat
      PROVE  OS!Blocks(s, b - 1) \o OS!FirstBatches(b, k + 1)
               = Append(OS!Blocks(s, b - 1) \o OS!FirstBatches(b, k), <<b, k + 1>>)
  <2> DEFINE T == Nat \X Nat
             p == OS!Blocks(s, b - 1)
             f == OS!FirstBatches(b, k)
             x == <<b, k + 1>>
  <2>1. x \in T
    BY <1>1
  <2>2. f \in Seq(T) /\ p \in Seq(T)
    BY <1>1, <1>2, FirstBatchesType
  <2>3. OS!FirstBatches(b, k + 1) = Append(f, x)
    BY <1>4
  <2> HIDE DEF T, p, f, x
  <2>4. p \o Append(f, x) = Append(p \o f, x)
    BY <2>1, <2>2
  <2>5. p \o OS!FirstBatches(b, k + 1) = Append(p \o f, x)
    BY <2>3, <2>4
  <2> QED BY <2>5 DEF p, f, x
<1> QED BY <1>2, <1>3, <1>5, <1>6, BlocksRecurrence

(* The blocks of a scan begin with those of any shorter one. *)
LEMMA BlocksGrow ==
  ASSUME NEW s \in Scans, NEW b \in 0..NumBlocks(s)
  PROVE  \E rest \in Seq(Nat \X Nat) : OS!Everything(s) = OS!Blocks(s, b) \o rest
<1> DEFINE T == Nat \X Nat
           N == NumBlocks(s)
           Grown(m) == \E rest \in Seq(T) : OS!Blocks(s, b + m) = OS!Blocks(s, b) \o rest
           S == {m \in Nat : b + m <= N => Grown(m)}
<1>0. N \in Nat /\ b \in Nat /\ b <= N
  BY PlanTypes
<1>1. 0 \in S
  <2>1. << >> \in Seq(T) /\ \A q \in Seq(T) : q \o << >> = q
    OBVIOUS
  <2>2. OS!Blocks(s, b) \in Seq(T) /\ b + 0 = b
    BY <1>0, BlocksRecurrence
  <2> QED BY <2>1, <2>2
<1>2. ASSUME NEW m \in S, b + (m + 1) <= N
      PROVE  Grown(m + 1)
  <2>1. m \in Nat /\ b + m <= N /\ b + (m + 1) \in 1..N /\ (b + (m + 1)) - 1 = b + m
    BY <1>0, <1>2
  <2>2. PICK rest \in Seq(T) : OS!Blocks(s, b + m) = OS!Blocks(s, b) \o rest
    BY <2>1
  <2> DEFINE more == OS!FirstBatches(b + (m + 1), Plan[s][b + (m + 1)].batches)
  <2>3. more \in Seq(T)
    <3>1. b + (m + 1) \in Nat /\ Plan[s][b + (m + 1)].batches \in Nat
      BY <2>1, PlanTypes
    <3> QED BY <3>1, FirstBatchesType
  <2>4. OS!Blocks(s, b + (m + 1)) = (OS!Blocks(s, b) \o rest) \o more
    BY <2>1, <2>2, BlocksRecurrence
  <2>5. OS!Blocks(s, b) \in Seq(T)
    BY BlocksRecurrence
  <2> DEFINE first == OS!Blocks(s, b)
  <2> HIDE DEF more, T, first
  <2>6. (first \o rest) \o more = first \o (rest \o more) /\ rest \o more \in Seq(T)
    <3>1. first \in Seq(T) /\ rest \in Seq(T) /\ more \in Seq(T)
      BY <2>2, <2>3, <2>5 DEF first
    <3>2. rest \o more \in Seq(T)
      BY <3>1
    <3>3. (first \o rest) \o more = first \o (rest \o more)
      BY <3>1
    <3> QED BY <3>2, <3>3
  <2>7. OS!Blocks(s, b + (m + 1)) = first \o (rest \o more)
    BY <2>4, <2>6 DEF first
  <2> QED BY <2>6, <2>7 DEF first
<1>3. ASSUME NEW m \in S
      PROVE  m + 1 \in S
  <2>1. b + (m + 1) <= N => Grown(m + 1)
    BY <1>2
  <2> HIDE DEF Grown, N
  <2> QED BY <2>1
<1>4. S = Nat
  <2>1. S \in SUBSET Nat
    OBVIOUS
  <2> HIDE DEF S
  <2> QED BY <2>1, <1>1, <1>3, InductiveSet
<1>5. N - b \in Nat /\ b + (N - b) = N
  BY <1>0
<1>6. Grown(N - b)
  <2>1. N - b \in S
    <3> HIDE DEF S
    <3> QED BY <1>4, <1>5
  <2> HIDE DEF Grown
  <2> QED BY <1>0, <1>5, <2>1
<1> QED BY <1>5, <1>6 DEF OS!Everything, NumBlocks

(* The batch that comes after the first k of a block, of all there are. *)
LEMMA NextBatch ==
  ASSUME NEW s \in Scans, NEW b \in 1..NumBlocks(s), NEW k \in Nat, k < Plan[s][b].batches,
         NEW q, q = OS!Blocks(s, b - 1) \o OS!FirstBatches(b, k)
  PROVE  /\ q \in Seq(Nat \X Nat)
         /\ Len(q) < Len(OS!Everything(s))
         /\ OS!Everything(s)[Len(q) + 1] = <<b, k + 1>>
<1> DEFINE T == Nat \X Nat
           p == OS!Blocks(s, b - 1)
           n == Plan[s][b].batches
           first == OS!FirstBatches(b, k)
           all == OS!FirstBatches(b, n)
<1>1. p \in Seq(T) /\ b \in Nat /\ n \in Nat /\ b \in 0..NumBlocks(s)
  BY PlanTypes, BlocksRecurrence
<1>2. first \in Seq(T) /\ Len(first) = k
  BY <1>1, FirstBatchesType
<1>3. all \in Seq(T) /\ Len(all) = n /\ k + 1 \in 1..Len(all)
  <2>1. k + 1 \in 1..n
    BY <1>1
  <2> HIDE DEF n
  <2>2. all \in Seq(T) /\ Len(all) = n
    BY <1>1, FirstBatchesType
  <2> QED BY <2>1, <2>2
<1>4. all[k + 1] = <<b, k + 1>>
  <2>1. k + 1 \in 1..n
    BY <1>1
  <2> HIDE DEF n
  <2> QED BY <1>1, <2>1, FirstBatchesType
<1>5. PICK rest \in Seq(T) : OS!Everything(s) = (p \o all) \o rest
  <2>1. PICK rest \in Seq(T) : OS!Everything(s) = OS!Blocks(s, b) \o rest
    BY <1>1, BlocksGrow
  <2>2. OS!Blocks(s, b) = p \o all
    BY BatchByBatch
  <2> HIDE DEF T, p, n, all
  <2> QED BY ONLY <2>1, <2>2
<1>6. q = p \o first
  OBVIOUS
<1> HIDE DEF T, p, n, all, first
<1>7. q \in Seq(T) /\ Len(q) = Len(p) + k /\ Len(p) \in Nat
  <2>1. p \o first \in Seq(T) /\ Len(p \o first) = Len(p) + Len(first)
    BY <1>1, <1>2, ConcatProperties
  <2>2. Len(p) \in Nat
    BY <1>1, LenProperties
  <2> QED BY ONLY <1>2, <1>6, <2>1, <2>2
<1>8. ASSUME NEW u \in Seq(T), NEW v \in Seq(T), NEW w \in Seq(T), NEW i \in 1..Len(v)
      PROVE  /\ Len(u) + i <= Len((u \o v) \o w)
             /\ ((u \o v) \o w)[Len(u) + i] = v[i]
  OBVIOUS
<1>9. /\ Len(p) + (k + 1) <= Len((p \o all) \o rest)
      /\ ((p \o all) \o rest)[Len(p) + (k + 1)] = all[k + 1]
  BY <1>1, <1>3, <1>5, <1>8
<1>10. Len((p \o all) \o rest) \in Nat
  BY <1>1, <1>3, <1>5
<1>11. Len(q) + 1 = Len(p) + (k + 1) /\ Len(q) < Len((p \o all) \o rest)
  <2> DEFINE m == Len((p \o all) \o rest)
             x == Len(q)
             y == Len(p)
  <2>1. m \in Nat /\ x = y + k /\ y \in Nat /\ k \in Nat /\ y + (k + 1) <= m
    BY <1>7, <1>9, <1>10
  <2> HIDE DEF m, x, y
  <2>2. x + 1 = y + (k + 1) /\ x < m
    BY ONLY <2>1
  <2> QED BY <2>2 DEF m, x, y
<1>12. OS!Everything(s)[Len(q) + 1] = <<b, k + 1>> /\ Len(q) < Len(OS!Everything(s))
  BY <1>4, <1>5, <1>9, <1>11
<1> QED BY <1>7, <1>12 DEF T
-----------------------------------------------------------------------------
(* What the consumer has is what an ordered scan that has come to batch pos *)
(* of block cur has delivered; and a scan that fails has delivered nothing  *)
(* of the block that failed.                                                *)
Carried(s) ==
  /\ out[s] = IF cur[s] = 0 THEN << >>
              ELSE OS!Blocks(s, cur[s] - 1) \o OS!FirstBatches(cur[s], pos[s])
  /\ pc[s] = "cancel" /\ outcome[s] = "failed" => cur[s] > 0 /\ pos[s] = 0

AllCarried == \A s \in Scans : Carried(s)

LEMMA InitCarried == Init => AllCarried
BY DEF Init, AllCarried, Carried

(* Where a scan stands between two blocks. *)
LEMMA BetweenBlocks ==
  ASSUME Inductive, AllCarried, NEW s \in Scans,
         pc[s] \in {"loop", "inline"} \/ outcome[s] = "done"
  PROVE  /\ cur[s] \in 0..NumBlocks(s)
         /\ out[s] = OS!Blocks(s, cur[s])
<1>1. /\ cur[s] \in Nat /\ pos[s] \in Nat /\ next[s] \in Nat /\ pending[s] \in Seq(Nat)
      /\ NumBlocks(s) \in Nat
  BY PlanTypes DEF Inductive, TypeOK
<1>2. cur[s] + Len(pending[s]) < next[s] /\ next[s] <= NumBlocks(s) + 1
  BY DEF Inductive, Window
<1>3. cur[s] \in 0..NumBlocks(s)
  <2>1. Len(pending[s]) \in Nat
    BY <1>1
  <2> QED BY <1>1, <1>2, <2>1
<1>4. cur[s] > 0 => pos[s] = Plan[s][cur[s]].batches
  BY DEF Inductive, Position
<1>5. Carried(s)
  BY DEF AllCarried
<1>6. CASE cur[s] = 0
  BY <1>3, <1>5, <1>6, BlocksRecurrence DEF Carried
<1>7. CASE cur[s] # 0
  <2>1. cur[s] \in 1..NumBlocks(s) /\ cur[s] > 0
    BY <1>3, <1>7
  <2>2. out[s] = OS!Blocks(s, cur[s] - 1) \o OS!FirstBatches(cur[s], Plan[s][cur[s]].batches)
    BY <1>4, <1>5, <1>7, <2>1 DEF Carried
  <2> QED BY <1>3, <2>1, <2>2, BatchByBatch
<1> QED BY <1>6, <1>7

(* A new block is begun where the last one ended. *)
LEMMA BeginBlock ==
  ASSUME Inductive, AllCarried, NEW s \in Scans,
         pc[s] \in {"loop", "inline"}, outcome[s] = "none",
         next[s] <= NumBlocks(s) \/ pending[s] # << >>,
         cur' = [cur EXCEPT ![s] = IF pending[s] = << >> THEN next[s] ELSE Head(pending[s])],
         pos' = [pos EXCEPT ![s] = 0], out' = out
  PROVE  /\ cur'[s] = cur[s] + 1 /\ cur'[s] \in 1..NumBlocks(s)
         /\ out'[s] = OS!Blocks(s, cur'[s] - 1) \o OS!FirstBatches(cur'[s], pos'[s])
<1>1. /\ cur \in [Scans -> Nat] /\ pos \in [Scans -> Nat] /\ next[s] \in Nat \ {0}
      /\ pending[s] \in Seq(Nat) /\ NumBlocks(s) \in Nat
  BY PlanTypes DEF Inductive, TypeOK
<1>2. /\ cur[s] + Len(pending[s]) = next[s] - 1
      /\ next[s] <= NumBlocks(s) + 1
      /\ \A i \in 1..Len(pending[s]) : pending[s][i] = next[s] - 1 - Len(pending[s]) + i
  BY DEF Inductive, Window
<1>3. cur'[s] = cur[s] + 1
  <2>1. CASE pending[s] = << >>
    BY <1>1, <1>2, <2>1
  <2>2. CASE pending[s] # << >>
    <3>1. Len(pending[s]) \in Nat /\ Len(pending[s]) > 0 /\ Head(pending[s]) = pending[s][1]
      BY <1>1, <2>2
    <3>2. pending[s][1] = cur[s] + 1
      <4> DEFINE l == Len(pending[s])
      <4>1. pending[s][1] = next[s] - 1 - l + 1
        <5>1. 1 \in 1..l
          BY ONLY <3>1
        <5> HIDE DEF l
        <5> QED BY <1>2, <5>1 DEF l
      <4>2. l \in Nat /\ cur[s] + l = next[s] - 1 /\ cur[s] \in Nat /\ next[s] \in Nat
        BY <1>1, <1>2, <3>1
      <4> HIDE DEF l
      <4> QED BY ONLY <4>1, <4>2
    <3> QED BY <1>1, <2>2, <3>1, <3>2
  <2> QED BY <2>1, <2>2
<1>4. cur'[s] \in 1..NumBlocks(s) /\ cur'[s] - 1 = cur[s]
  <2>1. CASE pending[s] = << >>
    BY <1>1, <1>2, <1>3, <2>1
  <2>2. CASE pending[s] # << >>
    <3>1. Len(pending[s]) \in Nat /\ Len(pending[s]) > 0
      BY <1>1, <2>2
    <3>2. cur[s] + 1 <= next[s] - 1
      BY <1>1, <1>2, <3>1
    <3>3. cur[s] + 1 <= NumBlocks(s) /\ cur[s] \in Nat
      BY <1>1, <1>2, <3>2
    <3> QED BY ONLY <1>1, <1>3, <3>3
  <2> QED BY <2>1, <2>2
<1>5. out[s] = OS!Blocks(s, cur[s])
  BY BetweenBlocks
<1>6. OS!Blocks(s, cur'[s] - 1) \o OS!FirstBatches(cur'[s], 0) = OS!Blocks(s, cur'[s] - 1)
  BY <1>4, BatchByBatch
<1>7. pos'[s] = 0
  BY <1>1
<1> QED BY <1>3, <1>4, <1>5, <1>6, <1>7
LEMMA StepCarried == Inductive /\ AllCarried /\ [Next]_vars => AllCarried'
<1> SUFFICES ASSUME Inductive, AllCarried, [Next]_vars
             PROVE  AllCarried'
  OBVIOUS
<1>0. /\ pc \in [Scans -> PCs] /\ cur \in [Scans -> Nat] /\ pos \in [Scans -> Nat]
      /\ out \in [Scans -> Seq(Nat \X Nat)]
      /\ outcome \in [Scans -> {"none", "done", "failed", "closed"}]
  BY DEF Inductive, TypeOK
<1>1. \A t \in Scans : Carried(t)
  BY DEF AllCarried
<1>2. ASSUME NEW s \in Scans, InlineLoad(s)
      PROVE  AllCarried'
  <2>1. pc[s] = "inline" /\ ~Pooled(s) /\ outcome[s] = "none" /\ pending[s] = << >>
    BY <1>2 DEF InlineLoad, Inductive, Path
  <2>2. /\ cur' = [cur EXCEPT ![s] = next[s]] /\ pos' = [pos EXCEPT ![s] = 0] /\ out' = out
        /\ next[s] <= NumBlocks(s)
    BY <1>2 DEF InlineLoad
  <2>3. /\ pc'[s] # "cancel"
        /\ \A t \in Scans \ {s} : pc'[t] = pc[t] /\ outcome'[t] = outcome[t] /\ cur'[t] = cur[t] /\ pos'[t] = pos[t]
    BY <1>0, <1>2, <2>1 DEF InlineLoad, Leave, Goto
  <2>4. /\ cur'[s] = cur[s] + 1 /\ cur[s] \in Nat
        /\ out'[s] = OS!Blocks(s, cur'[s] - 1) \o OS!FirstBatches(cur'[s], pos'[s])
    BY <1>0, <2>1, <2>2, BeginBlock
  <2>5. cur'[s] # 0
    BY <2>4
  <2>6. Carried(s)'
    BY <2>3, <2>4, <2>5 DEF Carried
  <2>7. \A t \in Scans \ {s} : Carried(t)'
    BY <1>1, <2>2, <2>3 DEF Carried
  <2> QED BY <2>6, <2>7 DEF AllCarried
<1>3. ASSUME NEW s \in Scans, Pop(s)
      PROVE  AllCarried'
  <2>1. pc[s] = "loop" /\ outcome[s] = "none" /\ pending[s] # << >>
    BY <1>3 DEF Pop, Inductive, Path
  <2>2. /\ cur' = [cur EXCEPT ![s] = Head(pending[s])] /\ pos' = [pos EXCEPT ![s] = 0] /\ out' = out
        /\ pc' = [pc EXCEPT ![s] = "wait"] /\ outcome' = outcome
    BY <1>3 DEF Pop, Goto
  <2>3. /\ cur'[s] = cur[s] + 1 /\ cur[s] \in Nat
        /\ out'[s] = OS!Blocks(s, cur'[s] - 1) \o OS!FirstBatches(cur'[s], pos'[s])
    BY <1>0, <2>1, <2>2, BeginBlock
  <2>4. pc'[s] # "cancel" /\ \A t \in Scans \ {s} : pc'[t] = pc[t] /\ cur'[t] = cur[t] /\ pos'[t] = pos[t]
    BY <1>0, <2>2
  <2>5. cur'[s] # 0
    BY <2>3
  <2>6. Carried(s)'
    BY <2>3, <2>4, <2>5 DEF Carried
  <2>7. \A t \in Scans \ {s} : Carried(t)'
    BY <1>1, <2>2, <2>4 DEF Carried
  <2> QED BY <2>6, <2>7 DEF AllCarried
<1>4. ASSUME NEW s \in Scans, Emit(s)
      PROVE  AllCarried'
  <2>1. /\ pc[s] = "emit" /\ pos[s] < Plan[s][cur[s]].batches
        /\ pos' = [pos EXCEPT ![s] = pos[s] + 1]
        /\ out' = [out EXCEPT ![s] = Append(out[s], <<cur[s], pos[s] + 1>>)]
        /\ cur' = cur /\ pc' = pc /\ outcome' = outcome
    BY <1>4 DEF Emit
  <2>2. cur[s] \in 1..NumBlocks(s) /\ pos[s] \in Nat
    <3>1. cur[s] > 0 /\ cur[s] + Len(pending[s]) < next[s] /\ next[s] <= NumBlocks(s) + 1
      BY <2>1 DEF Inductive, Position, Window
    <3>2. next[s] \in Nat /\ NumBlocks(s) \in Nat /\ Len(pending[s]) \in Nat /\ cur[s] \in Nat
      BY PlanTypes DEF Inductive, TypeOK
    <3> QED BY <1>0, <3>1, <3>2
  <2>3. out[s] = OS!Blocks(s, cur[s] - 1) \o OS!FirstBatches(cur[s], pos[s])
    <3>1. cur[s] # 0
      BY <2>2
    <3>2. Carried(s)
      BY <1>1
    <3> QED BY <3>1, <3>2 DEF Carried
  <2>4. out'[s] = OS!Blocks(s, cur[s] - 1) \o OS!FirstBatches(cur[s], pos[s] + 1)
    <3>1. out'[s] = Append(out[s], <<cur[s], pos[s] + 1>>)
      BY <1>0, <2>1
    <3> QED BY <2>2, <2>3, <3>1, BatchByBatch
  <2>5. pc'[s] # "cancel" /\ pos'[s] = pos[s] + 1 /\ cur'[s] # 0
    BY <1>0, <2>1, <2>2
  <2>6. \A t \in Scans \ {s} : pc'[t] = pc[t] /\ cur'[t] = cur[t] /\ pos'[t] = pos[t] /\ out'[t] = out[t]
    BY <1>0, <2>1
  <2> QED BY <1>1, <2>1, <2>4, <2>5, <2>6 DEF AllCarried, Carried
<1>5. ASSUME NEW s \in Scans, Receive(s)
      PROVE  AllCarried'
  <2>1. pc[s] = "wait" /\ cur[s] > 0 /\ pos[s] = 0 /\ cur' = cur /\ pos' = pos /\ out' = out
    BY <1>5 DEF Receive, Inductive, Position
  <2>2. \A t \in Scans \ {s} : pc'[t] = pc[t] /\ outcome'[t] = outcome[t]
    BY <1>0, <1>5 DEF Receive, Leave, Goto
  <2> QED BY <1>1, <2>1, <2>2 DEF AllCarried, Carried
<1>6. ASSUME NEW s \in Scans,
             Open(s) \/ Start(s) \/ Submit(s) \/ EndBlock(s) \/ End(s) \/ Close(s) \/ Cancel(s) \/ EndCancel(s)
      PROVE  AllCarried'
  <2>1. cur' = cur /\ pos' = pos /\ out' = out
    BY <1>6 DEF Open, Start, Submit, EndBlock, End, Close, Cancel, EndCancel
  <2>2. \A t \in Scans \ {s} : pc'[t] = pc[t] /\ outcome'[t] = outcome[t]
    BY <1>0, <1>6 DEF Open, Start, Submit, EndBlock, End, Close, Cancel, EndCancel, Leave, Goto
  <2>3. pc'[s] = "cancel" /\ outcome'[s] = "failed" => pc[s] = "cancel" /\ outcome[s] = "failed"
    <3>1. CASE Open(s) \/ Start(s) \/ Submit(s) \/ EndBlock(s) \/ Cancel(s) \/ EndCancel(s)
      BY <1>0, <3>1 DEF Open, Start, Submit, EndBlock, Cancel, EndCancel, Goto, PCs
    <3>2. CASE End(s) \/ Close(s)
      BY <1>0, <3>2 DEF End, Close, Leave, Goto, PCs
    <3> QED BY <1>6, <3>1, <3>2
  <2> QED BY <1>1, <2>1, <2>2, <2>3 DEF AllCarried, Carried
<1>7. CASE Release \/ Finalize \/ (\E w \in Workers : Work(w)) \/ UNCHANGED vars
  <2>1. cur' = cur /\ pos' = pos /\ out' = out /\ pc' = pc /\ outcome' = outcome
    BY <1>7 DEF Release, Finalize, Work, Take, Finish, genVars, vars
  <2> QED BY <1>1, <2>1 DEF AllCarried, Carried
<1> QED BY <1>2, <1>3, <1>4, <1>5, <1>6, <1>7 DEF Next, Advance, CleanUp
-----------------------------------------------------------------------------
LEMMA InitRefines == Init => OS!Init
BY DEF Init, OS!Init, Status

(* A step that leaves what the consumer sees as it is. *)
LEMMA Stutters ==
  ASSUME out' = out, \A t \in Scans : Status(t)' = Status(t)
  PROVE  UNCHANGED OS!vars
BY DEF OS!vars

(* A step that changes how one scan stands. *)
LEMMA Changes ==
  ASSUME pc \in [Scans -> PCs], NEW s \in Scans,
         \A t \in Scans \ {s} : pc'[t] = pc[t] /\ outcome'[t] = outcome[t]
  PROVE  [t \in Scans |-> Status(t)]' = [[t \in Scans |-> Status(t)] EXCEPT ![s] = Status(s)']
BY DEF Status
(* A generator that is gone from its consumer, for each way it ends.        *)
LEMMA StopRefines ==
  ASSUME Inductive, AllCarried, NEW s \in Scans,
         pc[s] \notin {"unopened", "stopped"}, pc'[s] = "stopped", out' = out,
         \A t \in Scans \ {s} : pc'[t] = pc[t] /\ outcome'[t] = outcome[t],
         \/ outcome'[s] = "closed"
         \/ outcome'[s] = "done" /\ out[s] = OS!Everything(s)
         \/ outcome'[s] = "failed" /\ \E b \in 0..(NumBlocks(s) - 1) : out[s] = OS!Blocks(s, b)
  PROVE  OS!Next
<1>1. [t \in Scans |-> Status(t)]' = [[t \in Scans |-> Status(t)] EXCEPT ![s] = outcome'[s]]
  <2>1. Status(s)' = outcome'[s]
    BY DEF Status
  <2> QED BY <2>1, Changes DEF Inductive, TypeOK
<1>2. Status(s) = "open"
  BY DEF Status
<1>3. CASE outcome'[s] = "closed"
  <2>1. OS!Close(s)
    BY <1>1, <1>2, <1>3 DEF OS!Close
  <2> QED BY <2>1 DEF OS!Next
<1>4. CASE outcome'[s] = "done" /\ out[s] = OS!Everything(s)
  <2>1. OS!End(s)
    BY <1>1, <1>2, <1>4 DEF OS!End
  <2> QED BY <2>1 DEF OS!Next
<1>5. CASE outcome'[s] = "failed" /\ \E b \in 0..(NumBlocks(s) - 1) : out[s] = OS!Blocks(s, b)
  <2>1. OS!Fail(s)
    BY <1>1, <1>2, <1>5 DEF OS!Fail, NumBlocks
  <2> QED BY <2>1 DEF OS!Next
<1> QED BY <1>3, <1>4, <1>5

LEMMA StepRefines == Inductive /\ AllCarried /\ [Next]_vars => [OS!Next]_(OS!vars)
<1> SUFFICES ASSUME Inductive, AllCarried, [Next]_vars
             PROVE  OS!Next \/ UNCHANGED OS!vars
  BY Zenon
<1>0. /\ pc \in [Scans -> PCs] /\ cur \in [Scans -> Nat] /\ pos \in [Scans -> Nat]
      /\ out \in [Scans -> Seq(Nat \X Nat)] /\ next \in [Scans -> Nat \ {0}]
      /\ outcome \in [Scans -> {"none", "done", "failed", "closed"}]
  BY DEF Inductive, TypeOK
<1>1. ASSUME NEW s \in Scans, Open(s)
      PROVE  OS!Next
  <2>1. Status(s) = "unopened" /\ Status(s)' = "open" /\ out' = out
    BY <1>0, <1>1 DEF Open, Goto, Status
  <2>2. [t \in Scans |-> Status(t)]' = [[t \in Scans |-> Status(t)] EXCEPT ![s] = "open"]
    <3>1. \A t \in Scans \ {s} : pc'[t] = pc[t] /\ outcome'[t] = outcome[t]
      BY <1>0, <1>1 DEF Open, Goto
    <3> QED BY <1>0, <2>1, <3>1, Changes
  <2>3. OS!Open(s)
    BY <2>1, <2>2 DEF OS!Open
  <2> QED BY <2>3 DEF OS!Next
<1>2. ASSUME NEW s \in Scans, Start(s) \/ Submit(s) \/ Pop(s) \/ EndBlock(s) \/ Cancel(s)
      PROVE  UNCHANGED OS!vars
  <2>1. out' = out /\ outcome' = outcome
    BY <1>2 DEF Start, Submit, Pop, EndBlock, Cancel
  <2>2. /\ pc'[s] \notin {"unopened", "stopped"} /\ pc[s] \notin {"unopened", "stopped"}
        /\ \A t \in Scans \ {s} : pc'[t] = pc[t]
    BY <1>0, <1>2 DEF Start, Submit, Pop, EndBlock, Cancel, Goto
  <2>3. \A t \in Scans : Status(t)' = Status(t)
    BY <2>1, <2>2 DEF Status
  <2> QED BY <2>1, <2>3, Stutters
<1>3. ASSUME NEW s \in Scans, InlineLoad(s)
      PROVE  OS!Next \/ UNCHANGED OS!vars
  <2>1. out' = out /\ pc[s] = "inline" /\ ~Pooled(s) /\ next[s] <= NumBlocks(s)
    BY <1>3 DEF InlineLoad, Inductive, Path
  <2>2. \A t \in Scans \ {s} : pc'[t] = pc[t] /\ outcome'[t] = outcome[t]
    BY <1>0, <1>3 DEF InlineLoad, Leave, Goto
  <2>3. CASE pc'[s] = "emit"
    <3>1. \A t \in Scans : Status(t)' = Status(t)
      BY <2>1, <2>2, <2>3 DEF Status
    <3> QED BY <2>1, <3>1, Stutters
  <2>4. CASE pc'[s] = "stopped" /\ outcome'[s] = "failed"
    <3>1. out[s] = OS!Blocks(s, cur[s]) /\ cur[s] \in Nat /\ cur[s] < next[s]
      <4>1. cur[s] + Len(pending[s]) < next[s] /\ Len(pending[s]) \in Nat
        BY DEF Inductive, Window, TypeOK
      <4>2. cur[s] \in Nat /\ next[s] \in Nat
        BY <1>0
      <4> QED BY <2>1, <4>1, <4>2, BetweenBlocks
    <3>2. cur[s] \in 0..(NumBlocks(s) - 1)
      BY <1>0, <2>1, <3>1, PlanTypes
    <3> QED BY <2>1, <2>2, <2>4, <3>1, <3>2, StopRefines
  <2>5. pc'[s] = "emit" \/ (pc'[s] = "stopped" /\ outcome'[s] = "failed")
    BY <1>0, <1>3, <2>1 DEF InlineLoad, Leave, Goto
  <2> QED BY <2>3, <2>4, <2>5
<1>4. ASSUME NEW s \in Scans, Receive(s)
      PROVE  UNCHANGED OS!vars
  <2>1. out' = out /\ pc[s] = "wait" /\ Pooled(s)
    BY <1>4 DEF Receive, Inductive, Path
  <2>2. /\ \A t \in Scans \ {s} : pc'[t] = pc[t] /\ outcome'[t] = outcome[t]
        /\ pc'[s] \in {"emit", "cancel"}
    BY <1>0, <1>4, <2>1 DEF Receive, Leave, Goto
  <2>3. \A t \in Scans : Status(t)' = Status(t)
    BY <2>1, <2>2 DEF Status
  <2> QED BY <2>1, <2>3, Stutters
<1>5. ASSUME NEW s \in Scans, Emit(s)
      PROVE  OS!Next
  <2>1. /\ pc[s] = "emit" /\ pos[s] < Plan[s][cur[s]].batches
        /\ out' = [out EXCEPT ![s] = Append(out[s], <<cur[s], pos[s] + 1>>)]
        /\ pc' = pc /\ outcome' = outcome
    BY <1>5 DEF Emit
  <2>2. cur[s] \in 1..NumBlocks(s) /\ pos[s] \in Nat
    <3>1. cur[s] > 0 /\ cur[s] + Len(pending[s]) < next[s] /\ next[s] <= NumBlocks(s) + 1
      BY <2>1 DEF Inductive, Position, Window
    <3>2. next[s] \in Nat /\ NumBlocks(s) \in Nat /\ Len(pending[s]) \in Nat /\ cur[s] \in Nat
      BY PlanTypes DEF Inductive, TypeOK
    <3> QED BY <1>0, <3>1, <3>2
  <2>3. out[s] = OS!Blocks(s, cur[s] - 1) \o OS!FirstBatches(cur[s], pos[s])
    <3>1. cur[s] # 0 /\ Carried(s)
      BY <2>2 DEF AllCarried
    <3> QED BY <3>1 DEF Carried
  <2>4. /\ Len(out[s]) < Len(OS!Everything(s))
        /\ OS!Everything(s)[Len(out[s]) + 1] = <<cur[s], pos[s] + 1>>
    <3> DEFINE b == cur[s]
               k == pos[s]
               q == out[s]
    <3>1. b \in 1..NumBlocks(s) /\ k \in Nat /\ k < Plan[s][b].batches
      BY <2>1, <2>2
    <3>2. q = OS!Blocks(s, b - 1) \o OS!FirstBatches(b, k)
      BY <2>3
    <3> HIDE DEF b, k, q
    <3>3. Len(q) < Len(OS!Everything(s)) /\ OS!Everything(s)[Len(q) + 1] = <<b, k + 1>>
      BY <3>1, <3>2, NextBatch
    <3> QED BY <3>3 DEF b, k, q
  <2>5. [t \in Scans |-> Status(t)]' = [t \in Scans |-> Status(t)] /\ Status(s) = "open"
    BY <2>1 DEF Status
  <2>6. OS!Deliver(s)
    BY <2>1, <2>4, <2>5 DEF OS!Deliver
  <2> QED BY <2>6 DEF OS!Next
<1>6. ASSUME NEW s \in Scans, End(s)
      PROVE  OS!Next \/ UNCHANGED OS!vars
  <2>1. /\ out' = out /\ cur' = cur /\ pc[s] \in {"loop", "inline"} /\ next[s] > NumBlocks(s)
        /\ pending[s] = << >> /\ outcome'[s] = "done" /\ outcome[s] = "none"
    BY <1>0, <1>6 DEF End, Leave, Inductive, Path
  <2>2. \A t \in Scans \ {s} : pc'[t] = pc[t] /\ outcome'[t] = outcome[t]
    BY <1>0, <1>6 DEF End, Leave, Goto
  <2>3. pc'[s] \in {"cancel", "stopped"}
    BY <1>0, <1>6 DEF End, Leave, Goto
  <2>4. CASE pc'[s] = "cancel"
    <3>1. \A t \in Scans : Status(t)' = Status(t)
      BY <2>1, <2>2, <2>4 DEF Status
    <3> QED BY <2>1, <3>1, Stutters
  <2>5. CASE pc'[s] = "stopped"
    <3>1. cur[s] = NumBlocks(s)
      <4>1. cur[s] + Len(pending[s]) = next[s] - 1 /\ next[s] <= NumBlocks(s) + 1 /\ Len(pending[s]) = 0
        BY <2>1 DEF Inductive, Window
      <4>2. cur[s] \in Nat /\ next[s] \in Nat /\ NumBlocks(s) \in Nat
        BY <1>0, PlanTypes
      <4> QED BY <2>1, <4>1, <4>2
    <3>2. out[s] = OS!Everything(s)
      BY <2>1, <3>1, BetweenBlocks DEF OS!Everything, NumBlocks
    <3> QED BY <2>1, <2>2, <2>5, <3>2, StopRefines
  <2> QED BY <2>3, <2>4, <2>5
<1>7. ASSUME NEW s \in Scans, Close(s)
      PROVE  OS!Next \/ UNCHANGED OS!vars
  <2>1. /\ out' = out /\ pc[s] \in {"emit", "new"} /\ outcome'[s] = "closed"
        /\ \A t \in Scans \ {s} : pc'[t] = pc[t] /\ outcome'[t] = outcome[t]
        /\ pc'[s] \in {"cancel", "stopped"}
    BY <1>0, <1>7 DEF Close, Leave, Goto
  <2>2. CASE pc'[s] = "cancel"
    <3>1. \A t \in Scans : Status(t)' = Status(t)
      BY <2>1, <2>2 DEF Status
    <3> QED BY <2>1, <3>1, Stutters
  <2>3. CASE pc'[s] = "stopped"
    BY <2>1, <2>3, StopRefines
  <2> QED BY <2>1, <2>2, <2>3
<1>8. ASSUME NEW s \in Scans, EndCancel(s)
      PROVE  OS!Next
  <2>1. /\ out' = out /\ pc[s] = "cancel" /\ pc'[s] = "stopped" /\ outcome' = outcome
        /\ \A t \in Scans \ {s} : pc'[t] = pc[t]
    BY <1>0, <1>8 DEF EndCancel, Goto
  <2>2. outcome[s] \in {"done", "failed", "closed"}
    BY <1>0, <2>1 DEF Inductive, Path
  <2>3. outcome[s] = "done" => out[s] = OS!Everything(s)
    <3>1. outcome[s] = "done" => cur[s] = NumBlocks(s)
      BY DEF Inductive, Position
    <3> QED BY <3>1, BetweenBlocks DEF OS!Everything, NumBlocks
  <2>4. ASSUME outcome[s] = "failed"
        PROVE  \E b \in 0..(NumBlocks(s) - 1) : out[s] = OS!Blocks(s, b)
    <3>1. Carried(s) /\ cur[s] > 0 /\ pos[s] = 0 /\ cur[s] # 0
      BY <2>1, <2>4 DEF AllCarried, Carried
    <3>2. cur[s] \in 1..NumBlocks(s) /\ cur[s] - 1 \in 0..(NumBlocks(s) - 1)
      <4>1. cur[s] + Len(pending[s]) < next[s] /\ next[s] <= NumBlocks(s) + 1
        BY DEF Inductive, Window
      <4>2. cur[s] \in Nat /\ next[s] \in Nat /\ NumBlocks(s) \in Nat /\ Len(pending[s]) \in Nat
        BY PlanTypes DEF Inductive, TypeOK
      <4> QED BY <3>1, <4>1, <4>2
    <3>3. out[s] = OS!Blocks(s, cur[s] - 1) \o OS!FirstBatches(cur[s], 0)
      BY <3>1 DEF Carried
    <3> QED BY <3>2, <3>3, BatchByBatch
  <2> QED BY <2>1, <2>2, <2>3, <2>4, StopRefines
<1>9. CASE Release \/ Finalize \/ (\E w \in Workers : Work(w)) \/ UNCHANGED vars
  <2>1. out' = out /\ pc' = pc /\ outcome' = outcome
    BY <1>9 DEF Release, Finalize, Work, Take, Finish, genVars, vars
  <2>2. \A t \in Scans : Status(t)' = Status(t)
    BY <2>1 DEF Status
  <2> QED BY <2>1, <2>2, Stutters
<1> QED BY <1>1, <1>2, <1>3, <1>4, <1>5, <1>6, <1>7, <1>8, <1>9 DEF Next, Advance, CleanUp

(* The pool is invisible: for every plan, knob and number of threads, what  *)
(* the consumers of the pooled scans see is what consumers of plain loops   *)
(* over the blocks could see (generate(), _XarrayScan.scanner).             *)
THEOREM PoolIsInvisible == Spec => ImplementsOrderedScan
<1>1. Init => OS!Init
  BY InitRefines
<1>2. Spec => []AllCarried
  <2>1. Init => AllCarried
    BY InitCarried
  <2>2. Inductive /\ AllCarried /\ [Next]_vars => AllCarried'
    BY StepCarried
  <2> QED BY <2>1, <2>2, InductiveInvariant, PTL DEF Spec
<1>3. Inductive /\ AllCarried /\ [Next]_vars => [OS!Next]_(OS!vars)
  BY StepRefines
<1> QED BY <1>1, <1>2, <1>3, InductiveInvariant, PTL DEF Spec, ImplementsOrderedScan, OS!Spec
=============================================================================
