---------------------------- MODULE OrderedScan ----------------------------
(***************************************************************************)
(* What a scan of a registered Dataset promises its consumer, whatever the *)
(* prefetch pool does underneath: the batches of the surviving blocks, in  *)
(* grid order, each exactly once; an end of stream only after the last of  *)
(* them; an error only on a block boundary, with everything before the     *)
(* failed block already delivered; and a consumer may walk away.           *)
(***************************************************************************)
EXTENDS Integers, Sequences

CONSTANTS Scans,    \* the scans (one generator each)
          Plan      \* Plan[s][b].batches: number of batches of block b of s

VARIABLES out,      \* out[s]: the batches <<block, k>> the consumer received
          status    \* "unopened", "open", "done", "failed" or "closed"

vars == <<out, status>>

(* The first n batches of block b of scan s. *)
FirstBatches(b, n) == [k \in 1..n |-> <<b, k>>]

(* All the batches of the blocks 1..n of s: the n-block prefix of the scan. *)
Blocks(s, n) ==
  LET prefix[b \in 0..Len(Plan[s])] ==
        IF b = 0 THEN << >>
        ELSE prefix[b - 1] \o FirstBatches(b, Plan[s][b].batches)
  IN  prefix[n]

Everything(s) == Blocks(s, Len(Plan[s]))

Init == /\ out = [s \in Scans |-> << >>]
        /\ status = [s \in Scans |-> "unopened"]

Open(s) == /\ status[s] = "unopened"
           /\ status' = [status EXCEPT ![s] = "open"]
           /\ UNCHANGED out

Deliver(s) ==
  /\ status[s] = "open"
  /\ Len(out[s]) < Len(Everything(s))
  /\ out' = [out EXCEPT ![s] = Append(@, Everything(s)[Len(@) + 1])]
  /\ UNCHANGED status

End(s) == /\ status[s] = "open"
          /\ out[s] = Everything(s)
          /\ status' = [status EXCEPT ![s] = "done"]
          /\ UNCHANGED out

Fail(s) == /\ status[s] = "open"
           /\ \E b \in 0..(Len(Plan[s]) - 1) : out[s] = Blocks(s, b)
           /\ status' = [status EXCEPT ![s] = "failed"]
           /\ UNCHANGED out

Close(s) == /\ status[s] = "open"
            /\ status' = [status EXCEPT ![s] = "closed"]
            /\ UNCHANGED out

Next == \E s \in Scans : Open(s) \/ Deliver(s) \/ End(s) \/ Fail(s) \/ Close(s)

Spec == Init /\ [][Next]_vars
=============================================================================
