---------------------------- MODULE PrefetchScan ----------------------------
(***************************************************************************)
(* The scan of an XarrayPushdownDataset (backends/pyarrow.py): generators  *)
(* that load the blocks of a chunk grid through one thread pool shared by  *)
(* every scan of the dataset, keep a bounded number of loads ahead of the  *)
(* consumer, hand the batches over in block order, and cancel what is      *)
(* queued when the consumer stops early or a load fails.                   *)
(*                                                                         *)
(* A generator runs only inside its consumer's next() and meets the pool   *)
(* through futures alone, so its steps are the calls that touch the pool,  *)
(* a future, or the consumer.                                              *)
(***************************************************************************)
EXTENDS Integers, Sequences, FiniteSets

CONSTANTS
  Scans,        \* generators made by the dataset's scanners
  Workers,      \* the pool's threads; there are Prefetch of them
  Prefetch,     \* the prefetch knob
  Budget,       \* the prefetch_bytes knob, or NoBudget
  NoBudget,
  Plan,         \* Plan[s]: blocks of scan s, each with its batches and bytes
  Idle          \* what a thread without a load holds

NumBlocks(s) == Len(Plan[s])

(* A load is one block of one scan: the work item of the executor. *)
Loads == UNION {{s} \X (1..NumBlocks(s)) : s \in Scans}

ASSUME ScanAssumption ==
  /\ Prefetch \in Int
  /\ Budget \in Nat \cup {NoBudget}
  /\ Plan \in [Scans -> Seq([batches : Nat, bytes : Nat])]

ASSUME PoolAssumption ==
  /\ Idle \notin Loads
  /\ Prefetch > 1 => IsFiniteSet(Workers) /\ Cardinality(Workers) = Prefetch

VARIABLES
  pc,        \* where each generator stands
  next,      \* number of the block block_iter yields next
  pending,   \* the deque of submitted, undrained blocks
  inflight,  \* the byte estimate of the deque
  cur,       \* the block being drained (0: none yet)
  pos,       \* batches of it already yielded
  outcome,   \* how the generator ended
  out,       \* history: the batches the consumer received
  fut,       \* fut[<<s, b>>]: the future of block b of scan s
  queue,     \* the executor's work queue, shared by all scans
  running,   \* running[w]: the load a thread executes
  held,      \* is the dataset referenced by its user?
  shut       \* has the executor been shut down?

genVars  == <<pc, next, pending, inflight, cur, pos, outcome, out>>
poolVars == <<fut, queue, running>>
vars     == <<pc, next, pending, inflight, cur, pos, outcome, out,
              fut, queue, running, held, shut>>

PCs == {"unopened", "new", "inline", "loop", "wait", "emit", "cancel",
        "stopped"}
FutureStates == {"none", "queued", "running", "ok", "failed", "cancelled"}

(* A generator whose closure keeps the dataset alive. *)
Live(s) == pc[s] \notin {"unopened", "stopped"}

(* A scan of one block, or a dataset without a pool, loads in the consumer. *)
Pooled(s) == Prefetch > 1 /\ NumBlocks(s) > 1

(* Mutant: the prefetch test lets one block too many in.                    *)
MustDrainLate(s) ==
  /\ next[s] > 3
  /\ Len(pending[s]) > 1
  /\ \/ Len(pending[s]) > Prefetch
     \/ Budget # NoBudget /\ inflight[s] > Budget

(* The while of the admission loop. The first two submissions are outside   *)
(* the loop and are not followed by the test.                              *)
MustDrain(s) ==
  /\ next[s] > 3
  /\ Len(pending[s]) > 1
  /\ \/ Len(pending[s]) >= Prefetch
     \/ Budget # NoBudget /\ inflight[s] > Budget

Init ==
  /\ pc = [s \in Scans |-> "unopened"]
  /\ next = [s \in Scans |-> 1]
  /\ pending = [s \in Scans |-> << >>]
  /\ inflight = [s \in Scans |-> 0]
  /\ cur = [s \in Scans |-> 0]
  /\ pos = [s \in Scans |-> 0]
  /\ outcome = [s \in Scans |-> "none"]
  /\ out = [s \in Scans |-> << >>]
  /\ fut = [load \in Loads |-> "none"]
  /\ queue = << >>
  /\ running = [w \in Workers |-> Idle]
  /\ held = TRUE
  /\ shut = FALSE

-----------------------------------------------------------------------------
(* The generator. *)

Goto(s, place) == pc' = [pc EXCEPT ![s] = place]

(* Mutant: no finally.                                                      *)
LeaveAtOnce(s, how) ==
  /\ Goto(s, "stopped")
  /\ outcome' = [outcome EXCEPT ![s] = how]

(* Leave the generator: through its finally if the try was entered. *)
Leave(s, how) ==
  /\ Goto(s, IF Pooled(s) THEN "cancel" ELSE "stopped")
  /\ outcome' = [outcome EXCEPT ![s] = how]

(* scanner(): a generator object; nothing of it has run. *)
Open(s) ==
  /\ pc[s] = "unopened"
  /\ held
  /\ Goto(s, "new")
  /\ UNCHANGED <<next, pending, inflight, cur, pos, outcome, out,
                 poolVars, held, shut>>

(* The consumer's first next(): which of the two paths. *)
Start(s) ==
  /\ pc[s] = "new"
  /\ Goto(s, IF Pooled(s) THEN "loop" ELSE "inline")
  /\ UNCHANGED <<next, pending, inflight, cur, pos, outcome, out,
                 poolVars, held, shut>>

(* yield from load(block) in the consumer's own thread. *)
InlineLoad(s) ==
  /\ pc[s] = "inline"
  /\ next[s] <= NumBlocks(s)
  /\ next' = [next EXCEPT ![s] = @ + 1]
  /\ cur' = [cur EXCEPT ![s] = next[s]]
  /\ pos' = [pos EXCEPT ![s] = 0]
  /\ \/ Goto(s, "emit") /\ UNCHANGED outcome
     \/ Leave(s, "failed")
  /\ UNCHANGED <<pending, inflight, out, poolVars, held, shut>>

(* Mutant: the byte estimate of the block is not added.                     *)
SubmitUncounted(s) ==
  /\ pc[s] = "loop"
  /\ next[s] <= NumBlocks(s)
  /\ ~MustDrain(s)
  /\ next' = [next EXCEPT ![s] = @ + 1]
  /\ pending' = [pending EXCEPT ![s] = Append(@, next[s])]
  /\ fut' = [fut EXCEPT ![<<s, next[s]>>] = "queued"]
  /\ queue' = Append(queue, <<s, next[s]>>)
  /\ UNCHANGED <<pc, inflight, cur, pos, outcome, out, running, held, shut>>

(* submit(block) *)
Submit(s) ==
  /\ pc[s] = "loop"
  /\ next[s] <= NumBlocks(s)
  /\ ~MustDrain(s)
  /\ next' = [next EXCEPT ![s] = @ + 1]
  /\ pending' = [pending EXCEPT ![s] = Append(@, next[s])]
  /\ inflight' = [inflight EXCEPT ![s] = @ + Plan[s][next[s]].bytes]
  /\ fut' = [fut EXCEPT ![<<s, next[s]>>] = "queued"]
  /\ queue' = Append(queue, <<s, next[s]>>)
  /\ UNCHANGED <<pc, cur, pos, outcome, out, running, held, shut>>

(* Mutant: the newest block is drained first (pop() for popleft()).         *)
PopNewest(s) ==
  /\ pc[s] = "loop"
  /\ pending[s] # << >>
  /\ MustDrain(s) \/ next[s] > NumBlocks(s)
  /\ LET last == pending[s][Len(pending[s])] IN
     /\ pending' = [pending EXCEPT ![s] = SubSeq(@, 1, Len(@) - 1)]
     /\ inflight' = [inflight EXCEPT ![s] = @ - Plan[s][last].bytes]
     /\ cur' = [cur EXCEPT ![s] = last]
  /\ pos' = [pos EXCEPT ![s] = 0]
  /\ Goto(s, "wait")
  /\ UNCHANGED <<next, outcome, out, poolVars, held, shut>>

(* drain_one() up to future.result(): the oldest block leaves the deque. *)
Pop(s) ==
  /\ pc[s] = "loop"
  /\ pending[s] # << >>
  /\ MustDrain(s) \/ next[s] > NumBlocks(s)
  /\ pending' = [pending EXCEPT ![s] = Tail(@)]
  /\ inflight' = [inflight EXCEPT ![s] = @ - Plan[s][Head(pending[s])].bytes]
  /\ cur' = [cur EXCEPT ![s] = Head(pending[s])]
  /\ pos' = [pos EXCEPT ![s] = 0]
  /\ Goto(s, "wait")
  /\ UNCHANGED <<next, outcome, out, poolVars, held, shut>>

(* future.result() returns the block's batches, or raises its error. *)
Receive(s) ==
  /\ pc[s] = "wait"
  /\ \/ fut[<<s, cur[s]>>] = "ok" /\ Goto(s, "emit") /\ UNCHANGED outcome
     \/ fut[<<s, cur[s]>>] = "failed" /\ Leave(s, "failed")
  /\ UNCHANGED <<next, pending, inflight, cur, pos, out, poolVars, held, shut>>

(* Yield the next batch; the generator stays suspended until next() or     *)
(* close().                                                                *)
Emit(s) ==
  /\ pc[s] = "emit"
  /\ pos[s] < Plan[s][cur[s]].batches
  /\ pos' = [pos EXCEPT ![s] = @ + 1]
  /\ out' = [out EXCEPT ![s] = Append(@, <<cur[s], pos[s] + 1>>)]
  /\ UNCHANGED <<pc, next, pending, inflight, cur, outcome,
                 poolVars, held, shut>>

(* Mutant: the last batch of a block is left out.                           *)
EndBlockEarly(s) ==
  /\ pc[s] = "emit"
  /\ pos[s] + 1 >= Plan[s][cur[s]].batches
  /\ Goto(s, IF Pooled(s) THEN "loop" ELSE "inline")
  /\ UNCHANGED <<next, pending, inflight, cur, pos, outcome, out,
                 poolVars, held, shut>>

EndBlock(s) ==
  /\ pc[s] = "emit"
  /\ pos[s] = Plan[s][cur[s]].batches
  /\ Goto(s, IF Pooled(s) THEN "loop" ELSE "inline")
  /\ UNCHANGED <<next, pending, inflight, cur, pos, outcome, out,
                 poolVars, held, shut>>

(* No block left, nothing pending: the stream ends. *)
End(s) ==
  /\ pc[s] \in {"loop", "inline"}
  /\ next[s] > NumBlocks(s)
  /\ pending[s] = << >>
  /\ Leave(s, "done")
  /\ UNCHANGED <<next, pending, inflight, cur, pos, out, poolVars, held, shut>>

(* The consumer stops early (a LIMIT, a dropped iterator): GeneratorExit at *)
(* the yield where the generator is suspended, or before it ever ran.      *)
Close(s) ==
  /\ \/ pc[s] = "emit" /\ pos[s] > 0 /\ Leave(s, "closed")
     \/ /\ pc[s] = "new"
        /\ Goto(s, "stopped")
        /\ outcome' = [outcome EXCEPT ![s] = "closed"]
  /\ UNCHANGED <<next, pending, inflight, cur, pos, out, poolVars, held, shut>>

(* One turn of the finally: future.cancel() succeeds on a queued load only. *)
(* The deque is consumed as it is walked.                                  *)
Cancel(s) ==
  /\ pc[s] = "cancel"
  /\ pending[s] # << >>
  /\ pending' = [pending EXCEPT ![s] = Tail(@)]
  /\ fut' = [fut EXCEPT ![<<s, Head(pending[s])>>] =
                IF @ = "queued" THEN "cancelled" ELSE @]
  /\ UNCHANGED <<pc, next, inflight, cur, pos, outcome, out,
                 queue, running, held, shut>>

EndCancel(s) ==
  /\ pc[s] = "cancel"
  /\ pending[s] = << >>
  /\ Goto(s, "stopped")
  /\ UNCHANGED <<next, pending, inflight, cur, pos, outcome, out,
                 poolVars, held, shut>>

-----------------------------------------------------------------------------
(* The executor's threads (concurrent.futures) and the dataset's lifetime. *)

(* Mutant: a cancelled work item is not thrown away.                        *)
TakeLive(w) ==
  /\ running[w] = Idle
  /\ queue # << >>
  /\ fut[Head(queue)] = "queued"
  /\ queue' = Tail(queue)
  /\ fut' = [fut EXCEPT ![Head(queue)] = "running"]
  /\ running' = [running EXCEPT ![w] = Head(queue)]
  /\ UNCHANGED <<genVars, held, shut>>

(* A thread takes the oldest work item; a cancelled one is thrown away. *)
Take(w) ==
  /\ running[w] = Idle
  /\ queue # << >>
  /\ queue' = Tail(queue)
  /\ \/ /\ fut[Head(queue)] = "queued"
        /\ fut' = [fut EXCEPT ![Head(queue)] = "running"]
        /\ running' = [running EXCEPT ![w] = Head(queue)]
     \/ /\ fut[Head(queue)] = "cancelled"
        /\ UNCHANGED <<fut, running>>
  /\ UNCHANGED <<genVars, held, shut>>

(* load(block) returns its batches or raises. *)
Finish(w) ==
  /\ running[w] # Idle
  /\ \E result \in {"ok", "failed"} :
       fut' = [fut EXCEPT ![running[w]] = result]
  /\ running' = [running EXCEPT ![w] = Idle]
  /\ UNCHANGED <<genVars, queue, held, shut>>

(* The user drops the dataset. *)
Release ==
  /\ held
  /\ held' = FALSE
  /\ UNCHANGED <<genVars, poolVars, shut>>

(* Mutants: generators do not keep the dataset alive; its finalizer does.   *)
ReachableByUser == held
ReachableByFinalizer == TRUE

(* Who still reaches the dataset: its user, live generators, and the load   *)
(* closures of work items that wait or run.                                *)
Reachable ==
  \/ held
  \/ \E s \in Scans : Live(s)
  \/ queue # << >>
  \/ \E w \in Workers : running[w] # Idle

(* The finalizer: shutdown(wait=False, cancel_futures=True). *)
Finalize ==
  /\ Prefetch > 1
  /\ ~shut
  /\ ~Reachable
  /\ shut' = TRUE
  /\ queue' = << >>
  /\ fut' = [load \in Loads |->
               IF fut[load] = "queued" THEN "cancelled" ELSE fut[load]]
  /\ UNCHANGED <<genVars, running, held>>

-----------------------------------------------------------------------------
(* What the generator of s does when its consumer calls next(). *)
Advance(s) ==
  \/ Start(s) \/ InlineLoad(s) \/ Submit(s) \/ Pop(s) \/ Receive(s)
  \/ Emit(s) \/ EndBlock(s) \/ End(s)

(* The finally runs to its end without the consumer. *)
CleanUp(s) == Cancel(s) \/ EndCancel(s)

Work(w) == Take(w) \/ Finish(w)

Next ==
  \/ \E s \in Scans : Open(s) \/ Advance(s) \/ Close(s) \/ CleanUp(s)
  \/ \E w \in Workers : Work(w)
  \/ Release
  \/ Finalize

Spec == Init /\ [][Next]_vars

(* Pool threads run; a finally and a finalizer run to their end.           *)
PoolFairness ==
  /\ \A w \in Workers : WF_vars(Work(w))
  /\ \A s \in Scans : WF_vars(CleanUp(s))
  /\ WF_vars(Finalize)

(* The consumers in Pulling keep calling next(). The others may pause for   *)
(* ever, or close.                                                         *)
ConsumerFairness(Pulling) == \A s \in Pulling : WF_vars(Advance(s))
-----------------------------------------------------------------------------
(* Properties. *)

TypeOK ==
  /\ pc \in [Scans -> PCs]
  /\ next \in [Scans -> Nat \ {0}]
  /\ pending \in [Scans -> Seq(Nat)]
  /\ \A s \in Scans : pending[s] \in Seq(1..NumBlocks(s))
  /\ inflight \in [Scans -> Int]
  /\ cur \in [Scans -> Nat]
  /\ pos \in [Scans -> Nat]
  /\ outcome \in [Scans -> {"none", "done", "failed", "closed"}]
  /\ out \in [Scans -> Seq(Nat \X Nat)]
  /\ fut \in [Loads -> FutureStates]
  /\ queue \in Seq(Loads)
  /\ running \in [Workers -> Loads \cup {Idle}]
  /\ held \in BOOLEAN
  /\ shut \in BOOLEAN

(* Before(x, y): batch x precedes batch y in grid order. *)
Before(x, y) == x[1] < y[1] \/ (x[1] = y[1] /\ x[2] < y[2])

Delivered(s) == {out[s][i] : i \in DOMAIN out[s]}

(* The consumer sees the blocks in grid order and each batch at most once,  *)
(* although the loads finish in any order; and a stream that ends normally  *)
(* has carried every batch of every block (generate()).                    *)
ExactDelivery ==
  \A s \in Scans :
    /\ \A i, j \in DOMAIN out[s] : i < j => Before(out[s][i], out[s][j])
    /\ outcome[s] = "done" =>
         \A b \in 1..NumBlocks(s) : \A k \in 1..Plan[s][b].batches :
           <<b, k>> \in Delivered(s)

(* Blocks a scan holds: the deque and the block being drained. *)
Resident(s) == Len(pending[s]) + (IF pc[s] \in {"wait", "emit"} THEN 1 ELSE 0)

(* What the prefetch knob allows a scan to hold. *)
Bound(s) == IF ~Pooled(s) THEN 1 ELSE IF Prefetch = 2 THEN 3 ELSE Prefetch

(* The memory a scan can take is bounded by the prefetch knob, not by the   *)
(* table: at most Prefetch blocks, three when Prefetch is 2 (the third      *)
(* block is submitted before the first test), one without a pool.          *)
ResidentBound == \A s \in Scans : Resident(s) <= Bound(s)

(* The bytes of the first n of a sequence of blocks of s. *)
Bytes(s, blocks, n) ==
  LET sum[i \in 0..Len(blocks)] ==
        IF i = 0 THEN 0 ELSE sum[i - 1] + Plan[s][blocks[i]].bytes
  IN  sum[n]

Active(s) == pc[s] \in {"loop", "wait", "emit"}

(* The byte budget gates every admission from the fourth block on: what was *)
(* in the deque before the newest block was within the budget, or was a     *)
(* single block. The estimate is recomputed here from the deque itself, so  *)
(* the running counter of generate() is part of what is checked.           *)
BudgetBound ==
  \A s \in Scans :
    Budget # NoBudget /\ Active(s) /\ next[s] > 4 /\ Len(pending[s]) > 2
      => Bytes(s, pending[s], Len(pending[s]) - 1) <= Budget

(* A consumer blocked in future.result() waits for something that happens:  *)
(* its load waits in the queue of a pool that is up, or is being executed,  *)
(* or has settled; it was not cancelled, by this scan's finally, by another *)
(* scan's, or by the finalizer of the dataset.                             *)
WaitsForLiveLoad ==
  \A s \in Scans : pc[s] = "wait" =>
    LET f == fut[<<s, cur[s]>>] IN
    /\ f \in {"queued", "running", "ok", "failed"}
    /\ f = "queued" => ~shut /\ \E i \in DOMAIN queue : queue[i] = <<s, cur[s]>>
    /\ f = "running" => \E w \in Workers : running[w] = <<s, cur[s]>>

(* After an early stop or an error no load of the scan is started: whatever *)
(* the threads took while the finally walked the deque, nothing is left for *)
(* them to take once the generator is gone.                                *)
NoStartAfterStop ==
  [][\A s \in Scans : pc[s] = "stopped" =>
       \A b \in 1..NumBlocks(s) :
         fut'[<<s, b>>] = "running" => fut[<<s, b>>] = "running"]_vars

(* The inductive invariant behind the properties above.                    *)

(* The deque is a window of consecutive blocks that ends just before next;  *)
(* until the generator leaves its loop the window starts just after cur.   *)
Window(s) ==
  /\ next[s] <= NumBlocks(s) + 1
  /\ cur[s] + Len(pending[s]) < next[s]
  /\ outcome[s] = "none" => cur[s] + Len(pending[s]) = next[s] - 1
  /\ \A i \in 1..Len(pending[s]) :
       pending[s][i] = next[s] - 1 - Len(pending[s]) + i

(* Which places belong to which of the two paths of generate(). *)
Path(s) ==
  /\ pc[s] \in {"loop", "wait", "cancel"} => Pooled(s)
  /\ pc[s] = "inline" => ~Pooled(s)
  /\ pending[s] # << >> =>
       Pooled(s) /\ pc[s] \in {"loop", "wait", "emit", "cancel"}
  /\ pc[s] \in {"unopened", "new"} => next[s] = 1
  /\ outcome[s] = "none" <=> pc[s] \notin {"cancel", "stopped"}
  /\ Resident(s) <= Bound(s)

(* How far the drained block has been yielded. *)
Position(s) ==
  /\ pc[s] \in {"wait", "emit"} => cur[s] > 0
  /\ cur[s] = 0 => pos[s] = 0
  /\ cur[s] > 0 => pos[s] <= Plan[s][cur[s]].batches
  /\ pc[s] = "wait" => pos[s] = 0
  /\ cur[s] > 0 /\ (pc[s] \in {"loop", "inline"} \/ outcome[s] = "done") =>
       pos[s] = Plan[s][cur[s]].batches
  /\ outcome[s] = "done" => cur[s] = NumBlocks(s)

(* The consumer has exactly the batches up to <<cur, pos>>, in order. *)
History(s) ==
  /\ \A i \in DOMAIN out[s] :
       out[s][i][1] < cur[s] \/ (out[s][i][1] = cur[s] /\ out[s][i][2] <= pos[s])
  /\ \A i, j \in DOMAIN out[s] : i < j => Before(out[s][i], out[s][j])
  /\ \A b \in 1..NumBlocks(s) : \A k \in 1..Plan[s][b].batches :
       b < cur[s] \/ (b = cur[s] /\ k <= pos[s]) => <<b, k>> \in Delivered(s)

(* A future that waits or runs is where an executor would find it, and      *)
(* belongs to a block its generator has yet to drain or to cancel.         *)
Future(s, b) ==
  /\ fut[<<s, b>>] = "queued" =>
       /\ pc[s] \in {"loop", "wait", "emit", "cancel"}
       /\ b < next[s]
       /\ b >= next[s] - Len(pending[s]) \/ (pc[s] = "wait" /\ b = cur[s])
       /\ \E i \in DOMAIN queue : queue[i] = <<s, b>>
  /\ fut[<<s, b>>] = "running" => \E w \in Workers : running[w] = <<s, b>>
  /\ fut[<<s, b>>] = "cancelled" => pc[s] \in {"cancel", "stopped"}
  /\ Pooled(s) /\ b < next[s] => fut[<<s, b>>] # "none"

Inductive ==
  /\ TypeOK
  /\ shut => ~held /\ \A s \in Scans : ~Live(s)
  /\ \A s \in Scans : Window(s) /\ Path(s) /\ Position(s) /\ History(s)
  /\ \A s \in Scans : \A b \in 1..NumBlocks(s) : Future(s, b)

(* A pulled scan ends, whatever the consumers of the others do: one that    *)
(* pauses for ever, or is never closed, does not block the shared pool.    *)
Ends(Pulling) ==
  \A s \in Pulling : (pc[s] = "new") ~> (pc[s] = "stopped")

(* Once the user and the scans have let go of the dataset its threads are   *)
(* told to exit: nothing they hold keeps the dataset alive for ever.       *)
PoolIsReleased ==
  (~held /\ \A s \in Scans : ~Live(s)) ~> (shut \/ Prefetch <= 1)

-----------------------------------------------------------------------------
(* The abstract scan. *)
Status(s) == CASE pc[s] = "unopened" -> "unopened"
               [] pc[s] = "stopped" -> outcome[s]
               [] OTHER -> "open"

OS == INSTANCE OrderedScan WITH status <- [s \in Scans |-> Status(s)]

(* The pool is invisible: a pooled scan delivers what a loop over the       *)
(* blocks would, and fails and ends only where such a loop would.          *)
ImplementsOrderedScan == OS!Spec
=============================================================================
