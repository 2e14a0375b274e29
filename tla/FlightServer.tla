---------------------------- MODULE FlightServer ----------------------------
(***************************************************************************)
(* A FlightSQLServer (backends/flight.py over src/flight.rs): Python        *)
(* threads that register tables, start, await and stop the server; the      *)
(* server's own thread with its Tokio workers; and the clients it streams   *)
(* results to.                                                             *)
(*                                                                         *)
(* What they share: the native object, which serve and shutdown borrow      *)
(* mutably and the other methods borrow; the GIL, which a method keeps      *)
(* while it blocks unless it detaches; the catalog, which clients read      *)
(* without the GIL; and the workers, which a stream keeps during a call     *)
(* into Python and without which no timer of the runtime fires.             *)
(***************************************************************************)
EXTENDS Naturals, FiniteSets

CONSTANTS
  Threads,     \* Python threads that use the server object
  Clients,     \* each sends one query
  Workers,     \* number of Tokio workers of a runtime
  MaxServes,   \* bound on the calls of serve that start a thread
  Tables,      \* qualified names of tables
  Public,      \* the default schema
  Home,        \* Home[table]: the schema it is in
  Registered,  \* the sets of tables a call of register may add
  Paths,       \* one-part Flight descriptor paths
  Bare,        \* Bare[p]: the table of the default schema named exactly p
  Parsed       \* Parsed[p]: the table p names when it is parsed as SQL

Serves == 1..MaxServes
Schemas == {Home[table] : table \in Tables}

(* A call registers one table in the default schema or several in another.  *)
ASSUME FlightAssumption ==
  /\ Workers \in Nat \ {0}
  /\ MaxServes \in Nat
  /\ Home \in [Tables -> Schemas]
  /\ \A group \in Registered :
       /\ group \subseteq Tables
       /\ IsFiniteSet(group)
       /\ \/ \E table \in group : group = {table} /\ Home[table] = Public
          \/ \E schema \in Schemas \ {Public} :
               \A table \in group : Home[table] = schema
  /\ Bare \in [Paths -> Tables]
  /\ Parsed \in [Paths -> Tables]

VARIABLES
  alive,     \* is the server object referenced?
  running,   \* self.running: the serve whose thread it holds, or 0
  served,    \* number of threads started
  py,        \* what each Python thread is doing
  target,    \* the serve whose thread it waits for
  server,    \* server[g]: the thread that serve g started
  signalled, \* the serves whose shutdown channel was used or closed
  catalog,   \* the tables a query can see
  left,      \* the tables a call of register has yet to add
  founders,  \* history: the tables of the call that created a schema
  client,    \* what each client's query is doing
  from,      \* the serve whose runtime the query runs in, or 0
  ticket,    \* the table that the statement in its ticket names
  promised   \* history: the table whose schema was announced to it

pyVars     == <<py, target>>
tableVars  == <<catalog, left, founders>>
serverVars == <<running, served, server, signalled>>
clientVars == <<client, from, ticket, promised>>
vars == <<alive, pyVars, tableVars, serverVars, clientVars>>

PyStates == {"idle", "filling", "starting", "joining", "waiting", "waited"}
ServerStates == {"none", "starting", "serving", "draining", "failed", "stopped"}
ClientStates == {"idle", "announced", "ready", "calling", "stalled", "ended"}

NoTable == "no table"

Init ==
  /\ alive = TRUE
  /\ running = 0
  /\ served = 0
  /\ py = [t \in Threads |-> "idle"]
  /\ target = [t \in Threads |-> 0]
  /\ server = [g \in Serves |-> "none"]
  /\ signalled = {}
  /\ catalog = {}
  /\ left = [t \in Threads |-> {}]
  /\ founders = [schema \in Schemas |-> {}]
  /\ client = [c \in Clients |-> "idle"]
  /\ from = [c \in Clients |-> 0]
  /\ ticket = [c \in Clients |-> NoTable]
  /\ promised = [c \in Clients |-> NoTable]

-----------------------------------------------------------------------------
(* The locks. *)

(* A thread of g that has not finished. *)
Live(g) == server[g] \in {"starting", "serving", "draining"}

(* Mutants: shutdown joins without detaching; registering detaches.         *)
KeepsGilToJoin(t) == py[t] \in {"filling", "starting", "joining"}
KeepsGilToStart(t) == py[t] = "starting"

(* serve keeps the GIL while it waits for its thread to be ready, and       *)
(* register_tables while it adds tables; shutdown detaches to join.         *)
KeepsGil(t) == py[t] \in {"filling", "starting"}

GilFree == \A t \in Threads : ~KeepsGil(t)

(* shutdown keeps its mutable borrow while it joins: a method of another    *)
(* thread raises.                                                          *)
Borrowed == \E t \in Threads : py[t] \in {"starting", "joining"}

(* t can call a method, which will not raise for the borrow. *)
CanCall(t) == alive /\ py[t] = "idle" /\ GilFree /\ ~Borrowed

(* Registration. *)

SchemaExists(schema) ==
  schema = Public \/ \E table \in catalog : Home[table] = schema

(* Mutant: the tables of a new schema are added where queries see them.     *)
RegisterInPlace(t, group) ==
  /\ CanCall(t)
  /\ group \cap catalog = {}
  /\ py' = [py EXCEPT ![t] = "filling"]
  /\ left' = [left EXCEPT ![t] = group]
  /\ founders' = [schema \in Schemas |->
       IF ~SchemaExists(schema) /\ \E table \in group : Home[table] = schema
       THEN group ELSE founders[schema]]
  /\ UNCHANGED <<alive, target, catalog, serverVars, clientVars>>

(* register_table, and register_tables past its check that no name is       *)
(* taken: a new schema is added when it is full, an existing one filled.    *)
(* A call that finds a name taken raises, and changes nothing.              *)
Register(t, group) ==
  /\ CanCall(t)
  /\ group \cap catalog = {}
  /\ \/ /\ \A table \in group : SchemaExists(Home[table])
        /\ py' = [py EXCEPT ![t] = "filling"]
        /\ left' = [left EXCEPT ![t] = group]
        /\ UNCHANGED <<catalog, founders>>
     \/ /\ \E schema \in Schemas :
             /\ ~SchemaExists(schema)
             /\ \A table \in group : Home[table] = schema
             /\ founders' = [founders EXCEPT ![schema] = group]
        /\ catalog' = catalog \cup group
        /\ UNCHANGED <<py, left>>
  /\ UNCHANGED <<alive, target, serverVars, clientVars>>

(* The loop adds one table; queries are planned in between.                 *)
AddTable(t) ==
  /\ py[t] = "filling"
  /\ \E table \in left[t] :
       /\ catalog' = catalog \cup {table}
       /\ left' = [left EXCEPT ![t] = @ \ {table}]
       /\ py' = [py EXCEPT ![t] = IF left[t] = {table} THEN "idle" ELSE @]
  /\ UNCHANGED <<alive, target, founders, serverVars, clientVars>>

-----------------------------------------------------------------------------
(* The life of the server. *)

(* is_running *)
IsRunning == running # 0 /\ Live(running)

(* serve, as far as ready_rx.recv(). It raises if the server is running or  *)
(* the port is taken.                                                      *)
Serve(t) ==
  /\ CanCall(t)
  /\ ~IsRunning
  /\ served < MaxServes
  /\ served' = served + 1
  /\ server' = [server EXCEPT ![served + 1] = "starting"]
  /\ py' = [py EXCEPT ![t] = "starting"]
  /\ target' = [target EXCEPT ![t] = served + 1]
  /\ UNCHANGED <<alive, running, signalled, tableVars, clientVars>>

(* The thread says that it is ready, or why it is not. *)
Ready(g) ==
  /\ server[g] = "starting"
  /\ \E outcome \in {"serving", "failed"} :
       server' = [server EXCEPT ![g] = outcome]
  /\ UNCHANGED <<alive, pyVars, tableVars, running, served, signalled,
                 clientVars>>

(* Mutant: the handles of an earlier thread stay in the object.             *)
StartedKeepsOld(t) ==
  /\ py[t] = "starting"
  /\ server[target[t]] # "starting"
  /\ running' = IF server[target[t]] = "failed" \/ running # 0
                THEN running ELSE target[t]
  /\ py' = [py EXCEPT ![t] = "idle"]
  /\ target' = [target EXCEPT ![t] = 0]
  /\ UNCHANGED <<alive, tableVars, served, server, signalled, clientVars>>

(* serve returns, with the thread in self.running, or raises. *)
Started(t) ==
  /\ py[t] = "starting"
  /\ server[target[t]] # "starting"
  /\ running' = IF server[target[t]] = "failed" THEN running ELSE target[t]
  /\ py' = [py EXCEPT ![t] = "idle"]
  /\ target' = [target EXCEPT ![t] = 0]
  /\ UNCHANGED <<alive, tableVars, served, server, signalled, clientVars>>

(* shutdown, as far as the join: the handles leave the object, and the      *)
(* thread is told to stop. Without handles it returns.                      *)
Shutdown(t) ==
  IF running = 0
  THEN /\ py' = [py EXCEPT ![t] = "idle"]
       /\ UNCHANGED <<running, signalled, target>>
  ELSE /\ running' = 0
       /\ signalled' = signalled \cup {running}
       /\ py' = [py EXCEPT ![t] = "joining"]
       /\ target' = [target EXCEPT ![t] = running]

CallShutdown(t) ==
  /\ CanCall(t)
  /\ Shutdown(t)
  /\ UNCHANGED <<alive, tableVars, served, server, clientVars>>

(* The join ends; shutdown returns, or raises what stopped the thread.      *)
Joined(t) ==
  /\ py[t] = "joining"
  /\ GilFree
  /\ ~Live(target[t])
  /\ py' = [py EXCEPT ![t] = "idle"]
  /\ target' = [target EXCEPT ![t] = 0]
  /\ UNCHANGED <<alive, tableVars, serverVars, clientVars>>

(* wait: a turn of its loop asks is_running, which raises while another     *)
(* thread is in shutdown. It may be interrupted.                            *)
Wait(t) ==
  /\ alive /\ py[t] = "idle" /\ GilFree
  /\ py' = [py EXCEPT ![t] = "waiting"]
  /\ UNCHANGED <<alive, target, tableVars, serverVars, clientVars>>

Poll(t) ==
  /\ py[t] = "waiting" /\ GilFree
  /\ \/ Borrowed /\ py' = [py EXCEPT ![t] = "idle"]
     \/ ~Borrowed /\ ~IsRunning /\ py' = [py EXCEPT ![t] = "waited"]
  /\ UNCHANGED <<alive, target, tableVars, serverVars, clientVars>>

Interrupt(t) ==
  /\ py[t] = "waiting" /\ GilFree
  /\ py' = [py EXCEPT ![t] = "waited"]
  /\ UNCHANGED <<alive, target, tableVars, serverVars, clientVars>>

(* wait calls shutdown. *)
WaitShutdown(t) ==
  /\ py[t] = "waited" /\ GilFree
  /\ \/ /\ ~Borrowed
        /\ Shutdown(t)
     \/ /\ Borrowed
        /\ py' = [py EXCEPT ![t] = "idle"]
        /\ UNCHANGED <<running, signalled, target>>
  /\ UNCHANGED <<alive, tableVars, served, server, clientVars>>

(* The last reference goes: Drop tells the thread to stop and joins nothing. *)
DropServer ==
  /\ alive
  /\ \A t \in Threads : py[t] = "idle"
  /\ alive' = FALSE
  /\ running' = 0
  /\ signalled' = signalled \cup ({running} \ {0})
  /\ UNCHANGED <<pyVars, tableVars, served, server, clientVars>>

-----------------------------------------------------------------------------
(* The server's thread. *)

Open(g) == {c \in Clients : from[c] = g /\ client[c] \in {"ready", "calling", "stalled"}}

(* The runtime is shut down in the background: a stream ends where it       *)
(* stands, one that is in a call when the call returns.                     *)
Cut(g) ==
  client' = [c \in Clients |->
    IF from[c] = g /\ client[c] \in {"ready", "stalled"} THEN "ended"
    ELSE client[c]]

Finish(g) ==
  /\ server' = [server EXCEPT ![g] = "stopped"]
  /\ Cut(g)
  /\ UNCHANGED <<alive, pyVars, tableVars, running, served, signalled,
                 from, ticket, promised>>

(* shutdown_rx: graceful shutdown starts, and the deadline with it.         *)
Drain(g) ==
  /\ server[g] = "serving"
  /\ g \in signalled
  /\ server' = [server EXCEPT ![g] = "draining"]
  /\ UNCHANGED <<alive, pyVars, tableVars, running, served, signalled,
                 clientVars>>

(* The server stops on an error. *)
Break(g) ==
  /\ server[g] \in {"serving", "draining"}
  /\ Finish(g)

(* Every response stream has ended. *)
Drained(g) ==
  /\ server[g] = "draining"
  /\ Open(g) = {}
  /\ Finish(g)

FreeWorker(g) ==
  Cardinality({c \in Clients : from[c] = g /\ client[c] = "calling"}) < Workers

(* Mutant: there is no deadline for a stream that nobody reads.             *)
DeadlineUnlessStalled(g) ==
  /\ server[g] = "draining"
  /\ FreeWorker(g)
  /\ \A c \in Open(g) : client[c] # "stalled"
  /\ Finish(g)

(* The grace period is over, and a worker is there to fire the timer. *)
Deadline(g) ==
  /\ server[g] = "draining"
  /\ FreeWorker(g)
  /\ Finish(g)

(* The clients. *)

(* path_query of a one-part path: an exact name first. *)
PathTable(p) == IF Bare[p] \in catalog THEN Bare[p] ELSE Parsed[p]

(* Mutant: the ticket holds the name, as it would be parsed in SQL.         *)
AnnounceName(c, p) ==
  /\ client[c] = "idle"
  /\ \E g \in Serves : server[g] = "serving"
  /\ PathTable(p) \in catalog
  /\ client' = [client EXCEPT ![c] = "announced"]
  /\ promised' = [promised EXCEPT ![c] = PathTable(p)]
  /\ ticket' = [ticket EXCEPT ![c] = Parsed[p]]
  /\ UNCHANGED <<alive, pyVars, tableVars, serverVars, from>>

(* GetFlightInfo: plans the query of a path and announces its schema. The   *)
(* ticket holds the query. A path without a table is the client's error.    *)
Announce(c, p) ==
  /\ client[c] = "idle"
  /\ \E g \in Serves : server[g] = "serving"
  /\ PathTable(p) \in catalog
  /\ client' = [client EXCEPT ![c] = "announced"]
  /\ promised' = [promised EXCEPT ![c] = PathTable(p)]
  /\ ticket' = [ticket EXCEPT ![c] = PathTable(p)]
  /\ UNCHANGED <<alive, pyVars, tableVars, serverVars, from>>

(* DoGet: plans the query of the ticket again, perhaps in another serve.    *)
Redeem(c) ==
  /\ client[c] = "announced"
  /\ ticket[c] \in catalog
  /\ \E g \in Serves :
       /\ server[g] = "serving"
       /\ from' = [from EXCEPT ![c] = g]
  /\ client' = [client EXCEPT ![c] = "ready"]
  /\ UNCHANGED <<alive, pyVars, tableVars, serverVars, ticket, promised>>

(* A worker polls the stream, which calls into Python: the GIL is acquired  *)
(* on the worker.                                                          *)
Call(c) ==
  /\ client[c] = "ready"
  /\ Live(from[c]) /\ FreeWorker(from[c])
  /\ client' = [client EXCEPT ![c] = "calling"]
  /\ UNCHANGED <<alive, pyVars, tableVars, serverVars, from, ticket, promised>>

(* The call returns a batch, the end of the stream, or an error. *)
Return(c) ==
  /\ client[c] = "calling"
  /\ GilFree
  /\ \/ Live(from[c]) /\ client' = [client EXCEPT ![c] = "ready"]
     \/ client' = [client EXCEPT ![c] = "ended"]
  /\ UNCHANGED <<alive, pyVars, tableVars, serverVars, from, ticket, promised>>

(* The client stops reading, reads on, or goes away. *)
Stall(c) ==
  /\ client[c] = "ready"
  /\ client' = [client EXCEPT ![c] = "stalled"]
  /\ UNCHANGED <<alive, pyVars, tableVars, serverVars, from, ticket, promised>>

ReadOn(c) ==
  /\ client[c] = "stalled"
  /\ \E at \in {"ready", "ended"} : client' = [client EXCEPT ![c] = at]
  /\ UNCHANGED <<alive, pyVars, tableVars, serverVars, from, ticket, promised>>

-----------------------------------------------------------------------------
Next ==
  \/ \E t \in Threads :
       \/ \E group \in Registered : Register(t, group)
       \/ AddTable(t) \/ Serve(t) \/ Started(t) \/ CallShutdown(t) \/ Joined(t)
       \/ Wait(t) \/ Poll(t) \/ Interrupt(t) \/ WaitShutdown(t)
  \/ DropServer
  \/ \E g \in Serves : Ready(g) \/ Drain(g) \/ Break(g) \/ Drained(g) \/ Deadline(g)
  \/ \E c \in Clients :
       \/ \E p \in Paths : Announce(c, p)
       \/ Redeem(c) \/ Call(c) \/ Return(c) \/ Stall(c) \/ ReadOn(c)

Spec == Init /\ [][Next]_vars

(* A thread inside a native method goes on when what it waits for happens;  *)
(* the server's thread and calls into Python that can have the GIL run. The *)
(* timer is looked at between the tasks of a worker, however many there     *)
(* are. Clients need not read, and users need not call.                    *)
Fairness ==
  /\ \A t \in Threads : WF_vars(AddTable(t) \/ Started(t)) /\ SF_vars(Joined(t))
  /\ \A g \in Serves :
       /\ WF_vars(Ready(g)) /\ WF_vars(Drain(g)) /\ WF_vars(Drained(g))
       /\ SF_vars(Deadline(g))
  /\ \A c \in Clients : SF_vars(Return(c))

FairSpec == Spec /\ Fairness
-----------------------------------------------------------------------------
(* Properties. *)

TypeOK ==
  /\ alive \in BOOLEAN
  /\ running \in 0..MaxServes
  /\ served \in 0..MaxServes
  /\ py \in [Threads -> PyStates]
  /\ target \in [Threads -> 0..MaxServes]
  /\ server \in [Serves -> ServerStates]
  /\ signalled \subseteq Serves
  /\ catalog \subseteq Tables
  /\ left \in [Threads -> SUBSET Tables]
  /\ founders \in [Schemas -> SUBSET Tables]
  /\ client \in [Clients -> ClientStates]
  /\ from \in [Clients -> 0..MaxServes]
  /\ ticket \in [Clients -> Tables \cup {NoTable}]
  /\ promised \in [Clients -> Tables \cup {NoTable}]

(* register_tables: "queries never see it partly registered" - a schema     *)
(* that a query can see has every table of the call that created it.        *)
NewSchemaWhole ==
  \A schema \in Schemas \ {Public} :
    SchemaExists(schema) => founders[schema] \subseteq catalog

(* register_tables: "all or none" - between its check and the last table    *)
(* it adds no other thread takes a name, so that none of its steps can      *)
(* fail.                                                                   *)
NamesStayFree == \A t \in Threads : left[t] \cap catalog = {}

(* What GetFlightInfo announced is what DoGet reads: the table of a ticket  *)
(* is the one announced and can still be read, whatever was registered in   *)
(* between and however often the server was restarted.                      *)
TicketsKeep ==
  \A c \in Clients : client[c] # "idle" =>
    ticket[c] = promised[c] /\ ticket[c] \in catalog

(* No two threads of one object are up at once. *)
OneServer == \A g, h \in Serves : Live(g) /\ Live(h) => g = h

(* A thread that is up can be stopped: the object holds its handles, or a   *)
(* call that waits for it does. So a shutdown that finds nothing to stop    *)
(* returns from a server that has stopped.                                  *)
Accounted ==
  alive => \A g \in Serves : Live(g) =>
    \/ running = g
    \/ \E t \in Threads : py[t] \in {"starting", "joining"} /\ target[t] = g

(* The inductive invariant behind the properties above.                    *)

(* The lock that the GIL and the mutable borrow are together: one thread at *)
(* a time is inside register, serve or shutdown.                            *)
Inside(t) == py[t] \in {"filling", "starting", "joining"}

OneInside == \A t, u \in Threads : Inside(t) /\ Inside(u) => t = u

(* What a thread inside a method holds on to. *)
Holds(t) ==
  /\ left[t] # {} => py[t] = "filling"
  /\ py[t] \in {"starting", "joining"} =>
       target[t] \in Serves /\ server[target[t]] # "none"
  /\ py[t] = "starting" => ~IsRunning

Inductive ==
  /\ TypeOK
  /\ running <= served
  /\ \A g \in Serves : server[g] # "none" <=> g <= served
  /\ ~alive => \A t \in Threads : py[t] = "idle"
  /\ OneInside
  /\ \A t \in Threads : Holds(t)
  /\ \A schema \in Schemas : founders[schema] \subseteq catalog
  /\ NamesStayFree /\ TicketsKeep
  /\ OneServer /\ Accounted

(* serve and shutdown return, although clients stop reading, and although   *)
(* streams need the GIL to end.                                            *)
CallsReturn ==
  \A t \in Threads : (py[t] \in {"starting", "joining"}) ~> (py[t] = "idle")

(* The thread of a dropped server ends. *)
DroppedEnds == \A g \in Serves : ~alive ~> ~Live(g)
=============================================================================
