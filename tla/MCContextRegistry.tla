------------------------- MODULE MCContextRegistry -------------------------
(* Small instances of ContextRegistry. *)
EXTENDS ContextRegistry, SequencesExt, TLC

CONSTANTS w, e1, e2, era5, d1, d2, lazy, gap, q1

(* One flat name and a schema of two; one of the two is never removed. *)
MCNames == {w, e1, e2}
MCHome == w :> Public @@ e1 :> era5 @@ e2 :> era5
MCRemovals == w :> 1 @@ e1 :> 1 @@ e2 :> 0

(* Two Datasets in memory that the user registers, and two that a call may  *)
(* be given: one computed when it is read, one with other values missing.   *)
MCDatasets == {d1, d2, lazy, gap}
MCInMemory == {d1, d2, gap}
MCInputs == {d1, d2}
MCForm == [d \in MCDatasets |-> "grid"]
MCMissing == [d \in MCDatasets |-> IF d = gap THEN "some" ELSE "none"]
MCCalendar == [d \in MCDatasets |-> IF d = gap THEN "360_day" ELSE None]
Symmetry == Permutations(MCInputs)

(* A query that joins the flat table and one of the schema. *)
MCReads == {{w, e1}}
MCOrders == {<< >>, <<e1, w>>}
=============================================================================
