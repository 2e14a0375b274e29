--------------------------- MODULE MCPrefetchScan ---------------------------
(* Small instances of PrefetchScan. *)
EXTENDS PrefetchScan, SequencesExt, TLC

CONSTANTS s1, s2, w1, w2, w3

Block(batches, bytes) == [batches |-> batches, bytes |-> bytes]

TwoScans == {s1, s2}
TwoWorkers == {w1, w2}
ThreeWorkers == {w1, w2, w3}

(* A scan of six blocks, the second without rows and the third with two   *)
(* batches, beside a scan of one block (which takes the inline path).       *)
PlanLongShort ==
  s1 :> <<Block(1, 2), Block(0, 0), Block(2, 1), Block(1, 3), Block(1, 1),
          Block(1, 1)>> @@
  s2 :> <<Block(1, 1)>>

(* Two pooled scans that share the threads. *)
PlanShared ==
  s1 :> <<Block(1, 1), Block(1, 1), Block(1, 1)>> @@
  s2 :> <<Block(1, 1), Block(1, 1)>>

Symmetry == Permutations(Workers)

-----------------------------------------------------------------------------
SpecPullFirst == Spec /\ PoolFairness /\ ConsumerFairness({s1})
FirstEnds == Ends({s1})
=============================================================================
