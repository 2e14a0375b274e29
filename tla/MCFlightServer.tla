--------------------------- MODULE MCFlightServer ---------------------------
(* Small instances of FlightServer. *)
EXTENDS FlightServer, TLC

CONSTANTS t1, t2, c1, dotted, surface, level, wind, soil, path

(* A Dataset whose name has a dot, and two of two groups each, registered   *)
(* under the same name one after the other.                                 *)
MCTables == {dotted, surface, level, wind, soil}
MCHome == dotted :> Public @@ [table \in MCTables \ {dotted} |-> "era5"]
MCRegistered == {{dotted}, {surface, level}, {wind, soil}}

(* The path "era5.surface". *)
MCBare == path :> dotted
MCParsed == path :> surface
=============================================================================
