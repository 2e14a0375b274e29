------------------------- MODULE FlightServerProofs -------------------------
(***************************************************************************)
(* Proofs about FlightServer, for any threads, clients and tables, any      *)
(* number of workers and any bound on the calls of serve.                   *)
(***************************************************************************)
EXTENDS FlightServer, TLAPS

LEMMA InitInductive == Init => Inductive
<1> SUFFICES ASSUME Init PROVE Inductive
  OBVIOUS
<1>1. TypeOK
  BY FlightAssumption DEF Init, TypeOK, PyStates, ServerStates, ClientStates
<1>2. OneInside /\ \A t \in Threads : Holds(t)
  BY DEF Init, OneInside, Inside, Holds
<1>3. NamesStayFree /\ TicketsKeep /\ OneServer /\ Accounted
  BY DEF Init, NamesStayFree, TicketsKeep, OneServer, Accounted, Live
<1>4. running <= served
  BY DEF Init
<1>5. \A g \in Serves : server[g] # "none" <=> g <= served
  BY FlightAssumption DEF Init, Serves
<1>6. QED
  BY <1>1, <1>2, <1>3, <1>4, <1>5 DEF Init, Inductive

(* What a call that neither borrows nor waits finds: no thread is inside.   *)
LEMMA NobodyInside ==
  ASSUME Inductive, NEW t \in Threads, CanCall(t)
  PROVE  /\ \A u \in Threads : ~Inside(u)
         /\ \A g \in Serves : Live(g) => running = g
BY DEF Inductive, CanCall, GilFree, KeepsGil, Borrowed, Inside, Accounted

(* The catalog grows, and everything but the tables that are being added    *)
(* stays.                                                                  *)
LEMMA RegisterStep ==
  ASSUME Inductive, NEW t \in Threads, NEW group \in Registered,
         Register(t, group)
  PROVE  Inductive'
<1>1. /\ TypeOK /\ group \subseteq Tables /\ group \cap catalog = {}
      /\ alive /\ \A u \in Threads : ~Inside(u)
      /\ \A g \in Serves : Live(g) => running = g
  BY FlightAssumption, NobodyInside DEF Inductive, Register, CanCall
<1>2. /\ alive' = alive /\ target' = target /\ running' = running
      /\ served' = served /\ server' = server /\ signalled' = signalled
      /\ client' = client /\ from' = from /\ ticket' = ticket
      /\ promised' = promised
  BY DEF Register, serverVars, clientVars
<1>3. \A u \in Threads : left[u] = {}
  BY <1>1 DEF Inductive, Holds, Inside
<1>4. CASE /\ py' = [py EXCEPT ![t] = "filling"]
           /\ left' = [left EXCEPT ![t] = group]
           /\ UNCHANGED <<catalog, founders>>
  <2>1. \A u \in Threads : u # t => py'[u] = py[u] /\ left'[u] = {}
    BY <1>1, <1>3, <1>4 DEF TypeOK
  <2>2. py'[t] = "filling" /\ left'[t] = group
    BY <1>1, <1>4 DEF TypeOK
  <2>3. TypeOK'
    BY <1>1, <1>2, <1>4 DEF TypeOK, PyStates
  <2>4. OneInside' /\ \A u \in Threads : Holds(u)'
    BY <1>1, <2>1, <2>2 DEF OneInside, Holds, Inside
  <2>5. NamesStayFree'
    BY <1>1, <1>4, <2>1, <2>2 DEF NamesStayFree
  <2>6. TicketsKeep' /\ OneServer' /\ Accounted'
    BY <1>1, <1>2, <1>4 DEF Inductive, TicketsKeep, OneServer, Accounted, Live
  <2>7. QED
    BY <1>1, <1>2, <1>4, <2>3, <2>4, <2>5, <2>6 DEF Inductive
<1>5. CASE /\ \E schema \in Schemas :
                /\ ~SchemaExists(schema)
                /\ \A table \in group : Home[table] = schema
                /\ founders' = [founders EXCEPT ![schema] = group]
           /\ catalog' = catalog \cup group
           /\ UNCHANGED <<py, left>>
  <2>1. TypeOK'
    BY <1>1, <1>2, <1>5 DEF TypeOK
  <2>2. \A schema \in Schemas : founders'[schema] \subseteq catalog'
    BY <1>1, <1>5 DEF TypeOK, Inductive
  <2>3. OneInside' /\ \A u \in Threads : Holds(u)'
    BY <1>2, <1>5 DEF Inductive, OneInside, Holds, Inside, IsRunning, Live
  <2>4. NamesStayFree'
    BY <1>3, <1>5 DEF NamesStayFree
  <2>5. TicketsKeep' /\ OneServer' /\ Accounted'
    BY <1>2, <1>5 DEF Inductive, TicketsKeep, OneServer, Accounted, Live
  <2>6. QED
    BY <1>1, <1>2, <1>5, <2>1, <2>2, <2>3, <2>4, <2>5 DEF Inductive
<1>6. QED
  BY <1>4, <1>5 DEF Register

LEMMA AddTableStep ==
  ASSUME Inductive, NEW t \in Threads, AddTable(t)
  PROVE  Inductive'
<1>1. PICK table \in left[t] :
        /\ catalog' = catalog \cup {table}
        /\ left' = [left EXCEPT ![t] = @ \ {table}]
        /\ py' = [py EXCEPT ![t] = IF left[t] = {table} THEN "idle" ELSE @]
  BY DEF AddTable
<1>2. /\ alive' = alive /\ target' = target /\ founders' = founders
      /\ running' = running
      /\ served' = served /\ server' = server /\ signalled' = signalled
      /\ client' = client /\ from' = from /\ ticket' = ticket
      /\ promised' = promised /\ py[t] = "filling" /\ TypeOK
  BY DEF AddTable, serverVars, clientVars, Inductive
<1>3. \A u \in Threads : u # t => ~Inside(u) /\ left[u] = {}
  BY <1>2 DEF Inductive, OneInside, Inside, Holds
<1>4. /\ \A u \in Threads : u # t => py'[u] = py[u] /\ left'[u] = {}
      /\ left'[t] = left[t] \ {table}
      /\ py'[t] \in {"idle", "filling"}
      /\ left'[t] # {} => py'[t] = "filling"
  BY <1>1, <1>2, <1>3 DEF TypeOK
<1>5. TypeOK'
  BY <1>1, <1>2 DEF TypeOK, PyStates
<1>6. OneInside' /\ \A u \in Threads : Holds(u)'
  BY <1>2, <1>3, <1>4 DEF OneInside, Holds, Inside
<1>7. NamesStayFree'
  BY <1>1, <1>4 DEF Inductive, NamesStayFree
<1>8. TicketsKeep' /\ OneServer'
  BY <1>1, <1>2 DEF Inductive, TicketsKeep, OneServer, Live
<1>9. Accounted'
  BY <1>2, <1>3, <1>4 DEF Inductive, Accounted, Live, Inside
<1>10. alive'
  BY <1>2 DEF Inductive
<1>11. QED
  BY <1>1, <1>2, <1>5, <1>6, <1>7, <1>8, <1>9, <1>10 DEF Inductive

(* The steps of the server's life leave the catalog and the clients' tickets *)
(* alone.                                                                  *)
LEMMA LifeFrame ==
  ASSUME Inductive, catalog' = catalog, founders' = founders, left' = left,
         ticket' = ticket, promised' = promised,
         \A c \in Clients : client'[c] = "idle" <=> client[c] = "idle",
         TypeOK', running' <= served',
         \A g \in Serves : server'[g] # "none" <=> g <= served',
         ~alive' => \A t \in Threads : py'[t] = "idle",
         OneInside', \A t \in Threads : Holds(t)', OneServer', Accounted'
  PROVE  Inductive'
<1>1. NamesStayFree' /\ TicketsKeep'
  BY DEF Inductive, NamesStayFree, TicketsKeep
<1>2. QED
  BY <1>1 DEF Inductive

LEMMA ServeStep ==
  ASSUME Inductive, NEW t \in Threads, Serve(t)
  PROVE  Inductive'
<1> DEFINE g == served + 1
<1>1. /\ TypeOK /\ alive /\ ~IsRunning /\ served < MaxServes
      /\ \A u \in Threads : ~Inside(u)
      /\ \A h \in Serves : ~Live(h)
  <2>1. \A h \in Serves : Live(h) => running = h
    BY NobodyInside DEF Serve
  <2>2. \A h \in Serves : ~Live(h)
    BY <2>1 DEF Serve, IsRunning, Serves
  <2>3. QED
    BY <2>2, NobodyInside DEF Serve, Inductive, CanCall
<1>2. /\ alive' = alive /\ running' = running /\ served' = g
      /\ server' = [server EXCEPT ![g] = "starting"]
      /\ py' = [py EXCEPT ![t] = "starting"]
      /\ target' = [target EXCEPT ![t] = g]
      /\ signalled' = signalled /\ catalog' = catalog /\ left' = left
      /\ founders' = founders /\ client' = client /\ from' = from
      /\ ticket' = ticket /\ promised' = promised
  BY DEF Serve, tableVars, clientVars
<1>3. g \in Serves /\ g \in 0..MaxServes /\ served \in Nat
  BY <1>1, FlightAssumption DEF TypeOK, Serves
<1>4. server[g] = "none"
  BY <1>3 DEF Inductive
<1> HIDE DEF g
<1>5. /\ server'[g] = "starting" /\ \A h \in Serves : h # g => server'[h] = server[h]
      /\ py'[t] = "starting" /\ \A u \in Threads : u # t => py'[u] = py[u]
      /\ target'[t] = g
      /\ \A u \in Threads : u # t => target'[u] = target[u]
  BY <1>1, <1>2, <1>3 DEF TypeOK
<1>6. TypeOK'
  BY <1>1, <1>2, <1>3 DEF TypeOK, PyStates, ServerStates
<1>7. \A h \in Serves : server'[h] # "none" <=> h <= served'
  <2>1. \A h \in Serves : h <= g <=> h = g \/ h <= served
    BY <1>3 DEF Serves, g
  <2>2. \A h \in Serves : server[h] # "none" <=> h <= served
    BY DEF Inductive
  <2>3. QED
    BY <1>2, <1>5, <2>1, <2>2
<1>8. running # g /\ running' <= served'
  BY <1>1, <1>2, <1>3 DEF Inductive, TypeOK, g
<1>9. OneInside'
  BY <1>1, <1>5 DEF OneInside, Inside
<1>10. ASSUME NEW u \in Threads PROVE Holds(u)'
  <2>1. left'[u] = {}
    BY <1>1, <1>2 DEF Inductive, Holds, Inside
  <2>2. CASE u = t
    <3>1. ~IsRunning'
      BY <1>1, <1>2, <1>5, <1>8 DEF IsRunning, Live, TypeOK, Serves
    <3>2. QED
      BY <2>1, <2>2, <3>1, <1>3, <1>5 DEF Holds
  <2>3. CASE u # t
    BY <1>1, <1>5, <2>1, <2>3 DEF Holds, Inside
  <2>4. QED
    BY <2>2, <2>3
<1>11. \A h \in Serves : Live(h)' => h = g
  BY <1>1, <1>5 DEF Live
<1>12. OneServer' /\ Accounted'
  BY <1>5, <1>11 DEF OneServer, Accounted
<1>13. QED
  BY <1>1, <1>2, <1>6, <1>7, <1>8, <1>9, <1>10, <1>12, LifeFrame

(* Steps that move only a live thread of a server on.                       *)
LEMMA ServerFrame ==
  ASSUME Inductive, UNCHANGED <<alive, pyVars, tableVars, running, served>>,
         ticket' = ticket, promised' = promised, from' = from,
         signalled' = signalled,
         \A c \in Clients : client'[c] = "idle" <=> client[c] = "idle",
         client' \in [Clients -> ClientStates],
         NEW g \in Serves, Live(g), NEW s \in ServerStates \ {"none"},
         server' = [server EXCEPT ![g] = s]
  PROVE  Inductive'
<1>1. /\ alive' = alive /\ py' = py /\ target' = target /\ catalog' = catalog
      /\ left' = left /\ founders' = founders /\ running' = running
      /\ served' = served /\ TypeOK
  BY DEF pyVars, tableVars, Inductive
<1>2. \A h \in Serves : /\ server'[h] # "none" <=> server[h] # "none"
                        /\ Live(h)' => Live(h)
  BY <1>1 DEF TypeOK, Live
<1>3. TypeOK'
  BY <1>1 DEF TypeOK
<1>4. OneInside'
  BY <1>1 DEF Inductive, OneInside, Inside
<1>5. IsRunning' => IsRunning
  BY <1>1 DEF TypeOK, IsRunning, Live
<1>6. \A t \in Threads : Holds(t)'
  BY <1>1, <1>2, <1>5 DEF Inductive, Holds
<1>7. OneServer'
  BY <1>2 DEF Inductive, OneServer
<1>8. Accounted'
  BY <1>1, <1>2 DEF Inductive, Accounted
<1>9. QED
  BY <1>1, <1>2, <1>3, <1>4, <1>6, <1>7, <1>8, LifeFrame DEF Inductive

LEMMA ReadyStep ==
  ASSUME Inductive, NEW g \in Serves, Ready(g)
  PROVE  Inductive'
<1>1. PICK outcome \in {"serving", "failed"} :
        server' = [server EXCEPT ![g] = outcome]
  BY DEF Ready
<1>2. outcome \in ServerStates \ {"none"}
  BY DEF ServerStates
<1>3. QED
  BY <1>1, <1>2, ServerFrame DEF Ready, clientVars, Inductive, TypeOK, Live

LEMMA DrainStep ==
  ASSUME Inductive, NEW g \in Serves, Drain(g)
  PROVE  Inductive'
<1>1. "draining" \in ServerStates \ {"none"}
  BY DEF ServerStates
<1>2. QED
  BY <1>1, ServerFrame DEF Drain, clientVars, Inductive, TypeOK, Live

LEMMA FinishStep ==
  ASSUME Inductive, NEW g \in Serves, Live(g), Finish(g)
  PROVE  Inductive'
<1>1. client' = [c \in Clients |->
           IF from[c] = g /\ client[c] \in {"ready", "stalled"} THEN "ended"
           ELSE client[c]]
  BY DEF Finish, Cut
<1>2. /\ client' \in [Clients -> ClientStates]
      /\ \A c \in Clients : client'[c] = "idle" <=> client[c] = "idle"
  BY <1>1 DEF Inductive, TypeOK, ClientStates
<1>3. "stopped" \in ServerStates \ {"none"}
  BY DEF ServerStates
<1>4. QED
  BY <1>2, <1>3, ServerFrame DEF Finish

LEMMA StartedStep ==
  ASSUME Inductive, NEW t \in Threads, Started(t)
  PROVE  Inductive'
<1> DEFINE g == target[t]
<1>1. /\ TypeOK /\ py[t] = "starting" /\ server[g] # "starting"
      /\ g \in Serves /\ server[g] # "none" /\ ~IsRunning /\ g <= served
  BY DEF Started, Inductive, Holds
<1>2. /\ alive' = alive /\ served' = served /\ server' = server
      /\ running' = IF server[g] = "failed" THEN running ELSE g
      /\ py' = [py EXCEPT ![t] = "idle"]
      /\ target' = [target EXCEPT ![t] = 0]
      /\ signalled' = signalled /\ catalog' = catalog /\ left' = left
      /\ founders' = founders /\ client' = client /\ from' = from
      /\ ticket' = ticket /\ promised' = promised
  BY DEF Started, tableVars, clientVars
<1> HIDE DEF g
<1>3. /\ py'[t] = "idle" /\ target'[t] = 0
      /\ \A u \in Threads : u # t => py'[u] = py[u] /\ target'[u] = target[u]
      /\ \A u \in Threads : u # t => ~Inside(u)
  BY <1>1, <1>2 DEF TypeOK, Inductive, OneInside, Inside
<1>4. TypeOK'
  BY <1>1, <1>2, FlightAssumption DEF TypeOK, PyStates, Serves
<1>5. OneInside' /\ \A u \in Threads : Holds(u)'
  BY <1>1, <1>2, <1>3 DEF Inductive, OneInside, Holds, Inside
<1>6. running' <= served'
  BY <1>1, <1>2 DEF Inductive
<1>7. OneServer'
  BY <1>2 DEF Inductive, OneServer, Live
<1>8. ASSUME NEW h \in Serves, Live(h)' PROVE running' = h
  <2>1. Live(h)
    BY <1>2, <1>8 DEF Live
  <2>2. alive
    BY <1>1 DEF Inductive
  <2>3. running # h
    BY <1>1, <2>1 DEF IsRunning, Serves
  <2>4. h = g
    BY <1>1, <1>3, <2>1, <2>2, <2>3 DEF Inductive, Accounted, Inside, g
  <2>5. QED
    BY <1>2, <2>1, <2>4 DEF Live
<1>9. Accounted'
  BY <1>8 DEF Accounted
<1>10. alive'
  BY <1>1, <1>2 DEF Inductive
<1>11. QED
  BY <1>1, <1>2, <1>4, <1>5, <1>6, <1>7, <1>9, <1>10, LifeFrame DEF Inductive

(* shutdown, called by its own name or from wait.                           *)
LEMMA ShutdownStep ==
  ASSUME Inductive, NEW t \in Threads, py[t] \in {"idle", "waited"}, alive,
         GilFree, ~Borrowed, Shutdown(t),
         UNCHANGED <<alive, tableVars, served, server, clientVars>>
  PROVE  Inductive'
<1>1. /\ TypeOK
      /\ alive' = alive /\ served' = served /\ server' = server
      /\ catalog' = catalog /\ left' = left
      /\ founders' = founders /\ client' = client /\ from' = from
      /\ ticket' = ticket /\ promised' = promised
  BY DEF Inductive, tableVars, clientVars
<1>2. \A u \in Threads : ~Inside(u) /\ left[u] = {}
  BY DEF GilFree, KeepsGil, Borrowed, Inside, Inductive, Holds
<1>3. \A h \in Serves : Live(h) => running = h
  BY <1>2 DEF Inductive, Accounted, Inside
<1>4. CASE running = 0
  <2>1. /\ py' = [py EXCEPT ![t] = "idle"] /\ running' = running
        /\ signalled' = signalled /\ target' = target
    BY <1>4 DEF Shutdown
  <2>2. \A u \in Threads : py'[u] = py[u] \/ py'[u] = "idle"
    BY <1>1, <2>1 DEF TypeOK
  <2>3. TypeOK'
    BY <1>1, <2>1 DEF TypeOK, PyStates
  <2>4. OneInside' /\ \A u \in Threads : Holds(u)'
    BY <1>1, <1>2, <2>2 DEF OneInside, Holds, Inside
  <2>5. OneServer' /\ Accounted'
    BY <1>1, <1>3, <2>1 DEF Inductive, OneServer, Accounted, Live
  <2>6. QED
    BY <1>1, <2>1, <2>3, <2>4, <2>5, LifeFrame DEF Inductive
<1>5. CASE running # 0
  <2>1. /\ running' = 0 /\ signalled' = signalled \cup {running}
        /\ py' = [py EXCEPT ![t] = "joining"]
        /\ target' = [target EXCEPT ![t] = running]
    BY <1>5 DEF Shutdown
  <2>2. /\ py'[t] = "joining" /\ target'[t] = running
        /\ \A u \in Threads : u # t => py'[u] = py[u]
    BY <1>1, <2>1 DEF TypeOK
  <2>3. running \in Serves
    BY <1>1, <1>5, FlightAssumption DEF TypeOK, Serves
  <2>4. TypeOK'
    BY <1>1, <2>1, <2>3, FlightAssumption DEF TypeOK, PyStates, Serves
  <2>5. OneInside'
    BY <1>2, <2>2 DEF OneInside, Inside
  <2>6. server[running] # "none"
    BY <2>3 DEF Inductive
  <2>7. \A u \in Threads : Holds(u)'
    BY <1>1, <1>2, <2>2, <2>3, <2>6 DEF Holds, Inside
  <2>8. OneServer' /\ Accounted'
    BY <1>1, <1>3, <2>2 DEF Inductive, OneServer, Accounted, Live
  <2>9. running' <= served'
    BY <1>1, <2>1, FlightAssumption DEF TypeOK
  <2>10. QED
    BY <1>1, <2>4, <2>5, <2>7, <2>8, <2>9, LifeFrame DEF Inductive
<1>6. QED
  BY <1>4, <1>5

(* A Python thread moves between states in which it is inside no method, or *)
(* leaves one that it has nothing to wait for in.                           *)
LEMMA PythonFrame ==
  ASSUME Inductive, NEW t \in Threads, UNCHANGED <<tableVars, serverVars, clientVars>>,
         alive' = alive, alive,
         NEW at \in {"idle", "waiting", "waited"},
         py' = [py EXCEPT ![t] = at],
         py[t] # "filling",
         \/ ~Inside(t) /\ target' = target
         \/ /\ py[t] = "joining" /\ ~Live(target[t])
            /\ target' = [target EXCEPT ![t] = 0]
  PROVE  Inductive'
<1>1. /\ TypeOK
      /\ running' = running /\ signalled' = signalled
      /\ served' = served /\ server' = server
      /\ catalog' = catalog /\ left' = left
      /\ founders' = founders /\ client' = client /\ from' = from
      /\ ticket' = ticket /\ promised' = promised
  BY DEF Inductive, tableVars, clientVars, serverVars
<1>2. /\ py'[t] = at
      /\ \A u \in Threads : u # t => py'[u] = py[u] /\ target'[u] = target[u]
  BY <1>1 DEF TypeOK
<1>3. TypeOK'
  BY <1>1, FlightAssumption DEF TypeOK, PyStates
<1>4. OneInside'
  BY <1>2 DEF Inductive, OneInside, Inside
<1>5. IsRunning' = IsRunning
  BY <1>1 DEF IsRunning, Live
<1>6. \A u \in Threads : Holds(u)'
  BY <1>1, <1>2, <1>5 DEF Inductive, Holds
<1>7. OneServer'
  BY <1>1 DEF Inductive, OneServer, Live
<1>8. ASSUME NEW h \in Serves, Live(h)', running' # h
      PROVE  \E u \in Threads : py'[u] \in {"starting", "joining"} /\ target'[u] = h
  <2>1. Live(h) /\ running # h
    BY <1>1, <1>8 DEF Live
  <2>2. PICK u \in Threads : py[u] \in {"starting", "joining"} /\ target[u] = h
    BY <2>1 DEF Inductive, Accounted
  <2>3. u # t
    BY <2>1, <2>2 DEF Inside
  <2>4. QED
    BY <1>2, <2>2, <2>3
<1>9. Accounted'
  BY <1>8 DEF Accounted
<1>10. QED
  BY <1>1, <1>3, <1>4, <1>6, <1>7, <1>9, LifeFrame DEF Inductive

LEMMA DropStep ==
  ASSUME Inductive, DropServer
  PROVE  Inductive'
<1>1. /\ TypeOK /\ \A t \in Threads : py[t] = "idle"
      /\ alive' = FALSE /\ running' = 0 /\ py' = py /\ target' = target
      /\ signalled' = signalled \cup ({running} \ {0})
      /\ served' = served /\ server' = server
      /\ catalog' = catalog /\ left' = left
      /\ founders' = founders /\ client' = client /\ from' = from
      /\ ticket' = ticket /\ promised' = promised
  BY DEF Inductive, DropServer, pyVars, tableVars, clientVars
<1>2. TypeOK'
  <2>1. {running} \ {0} \subseteq Serves
    BY <1>1, FlightAssumption DEF TypeOK, Serves
  <2>2. running' \in 0..MaxServes
    BY <1>1, FlightAssumption
  <2>3. signalled' \subseteq Serves
    BY <1>1, <2>1 DEF TypeOK
  <2>4. QED
    BY <1>1, <2>2, <2>3 DEF TypeOK
<1>3. OneInside' /\ \A u \in Threads : Holds(u)'
  BY <1>1 DEF Inductive, OneInside, Holds, Inside
<1>4. OneServer' /\ Accounted'
  BY <1>1 DEF Inductive, OneServer, Accounted, Live
<1>5. running' <= served'
  BY <1>1 DEF TypeOK
<1>6. QED
  BY <1>1, <1>2, <1>3, <1>4, <1>5, LifeFrame DEF Inductive

(* The clients.                                                             *)
LEMMA ClientFrame ==
  ASSUME Inductive, UNCHANGED <<alive, pyVars, tableVars, serverVars>>,
         TypeOK', TicketsKeep'
  PROVE  Inductive'
<1>1. /\ alive' = alive /\ py' = py /\ target' = target /\ catalog' = catalog
      /\ left' = left /\ founders' = founders /\ running' = running
      /\ served' = served /\ server' = server
  BY DEF pyVars, tableVars, serverVars
<1>2. OneInside' /\ NamesStayFree' /\ \A t \in Threads : Holds(t)'
  BY <1>1 DEF Inductive, OneInside, Inside, NamesStayFree, Holds, IsRunning, Live
<1>3. OneServer' /\ Accounted'
  BY <1>1 DEF Inductive, OneServer, Accounted, Live
<1>4. QED
  BY <1>1, <1>2, <1>3 DEF Inductive

LEMMA AnnounceStep ==
  ASSUME Inductive, NEW c \in Clients, NEW p \in Paths, Announce(c, p)
  PROVE  Inductive'
<1>1. /\ UNCHANGED <<alive, pyVars, tableVars, serverVars>>
      /\ from' = from /\ catalog' = catalog /\ TypeOK
      /\ PathTable(p) \in catalog /\ catalog \subseteq Tables
      /\ client' = [client EXCEPT ![c] = "announced"]
      /\ promised' = [promised EXCEPT ![c] = PathTable(p)]
      /\ ticket' = [ticket EXCEPT ![c] = PathTable(p)]
  BY DEF Announce, tableVars, Inductive, TypeOK
<1>2. TypeOK'
  BY <1>1 DEF TypeOK, ClientStates, pyVars, tableVars, serverVars
<1>3. TicketsKeep'
  BY <1>1 DEF Inductive, TicketsKeep, TypeOK
<1>4. QED
  BY <1>1, <1>2, <1>3, ClientFrame

LEMMA StreamStep ==
  ASSUME Inductive, NEW c \in Clients,
         Redeem(c) \/ Call(c) \/ Return(c) \/ Stall(c) \/ ReadOn(c)
  PROVE  Inductive'
<1>1. /\ UNCHANGED <<alive, pyVars, tableVars, serverVars>>
      /\ ticket' = ticket /\ promised' = promised /\ catalog' = catalog
      /\ TypeOK /\ client[c] # "idle"
      /\ \E at \in ClientStates : client' = [client EXCEPT ![c] = at]
      /\ from' = from \/ \E g \in Serves : from' = [from EXCEPT ![c] = g]
  BY DEF Redeem, Call, Return, Stall, ReadOn, tableVars, Inductive, ClientStates
<1>2. TypeOK'
  <2>1. client' \in [Clients -> ClientStates]
    BY <1>1 DEF TypeOK
  <2>2. Serves \subseteq 0..MaxServes
    BY FlightAssumption DEF Serves
  <2>3. from' \in [Clients -> 0..MaxServes]
    BY <1>1, <2>2 DEF TypeOK
  <2>4. QED
    BY <1>1, <2>1, <2>3 DEF TypeOK, pyVars, tableVars, serverVars
<1>3. TicketsKeep'
  BY <1>1 DEF Inductive, TicketsKeep, TypeOK
<1>4. QED
  BY <1>1, <1>2, <1>3, ClientFrame

-----------------------------------------------------------------------------
LEMMA PythonStep ==
  ASSUME Inductive, NEW t \in Threads,
         \/ CallShutdown(t) \/ Joined(t) \/ Wait(t) \/ Poll(t)
         \/ Interrupt(t) \/ WaitShutdown(t)
  PROVE  Inductive'
<1>1. py[t] # "idle" => alive
  BY DEF Inductive
<1>2. CASE CallShutdown(t)
  BY <1>2, ShutdownStep DEF CallShutdown, CanCall
<1>3. CASE Joined(t)
  BY <1>1, <1>3, PythonFrame DEF Joined
<1>4. CASE Wait(t)
  BY <1>4, PythonFrame DEF Wait, Inside
<1>5. CASE Poll(t)
  BY <1>1, <1>5, PythonFrame DEF Poll, Inside
<1>6. CASE Interrupt(t)
  BY <1>1, <1>6, PythonFrame DEF Interrupt, Inside
<1>7. CASE WaitShutdown(t)
  <2>1. CASE Borrowed
    <3>1. /\ py[t] = "waited" /\ py' = [py EXCEPT ![t] = "idle"]
          /\ UNCHANGED <<tableVars, serverVars, clientVars>>
          /\ target' = target /\ alive' = alive
      BY <1>7, <2>1 DEF WaitShutdown, serverVars
    <3>2. QED
      BY <1>1, <3>1, PythonFrame DEF Inside
  <2>2. CASE ~Borrowed
    BY <1>1, <1>7, <2>2, ShutdownStep DEF WaitShutdown
  <2>3. QED
    BY <2>1, <2>2
<1>8. QED
  BY <1>2, <1>3, <1>4, <1>5, <1>6, <1>7

LEMMA ServerStep ==
  ASSUME Inductive, NEW g \in Serves, Break(g) \/ Drained(g) \/ Deadline(g)
  PROVE  Inductive'
BY FinishStep DEF Break, Drained, Deadline, Live

LEMMA StepInductive == Inductive /\ [Next]_vars => Inductive'
<1> SUFFICES ASSUME Inductive, [Next]_vars PROVE Inductive'
  OBVIOUS
<1>1. CASE \E t \in Threads, group \in Registered : Register(t, group)
  BY <1>1, RegisterStep
<1>2. CASE \E t \in Threads : AddTable(t) \/ Serve(t) \/ Started(t)
  BY <1>2, AddTableStep, ServeStep, StartedStep
<1>3. CASE \E t \in Threads : \/ CallShutdown(t) \/ Joined(t) \/ Wait(t)
                              \/ Poll(t) \/ Interrupt(t) \/ WaitShutdown(t)
  BY <1>3, PythonStep
<1>4. CASE DropServer
  BY <1>4, DropStep
<1>5. CASE \E g \in Serves : Ready(g) \/ Drain(g)
  BY <1>5, ReadyStep, DrainStep
<1>6. CASE \E g \in Serves : Break(g) \/ Drained(g) \/ Deadline(g)
  BY <1>6, ServerStep
<1>7. CASE \E c \in Clients, p \in Paths : Announce(c, p)
  BY <1>7, AnnounceStep
<1>8. CASE \E c \in Clients :
             Redeem(c) \/ Call(c) \/ Return(c) \/ Stall(c) \/ ReadOn(c)
  BY <1>8, StreamStep
<1>9. CASE UNCHANGED vars
  <2>1. UNCHANGED <<alive, pyVars, tableVars, serverVars>> /\ catalog' = catalog
        /\ clientVars' = clientVars
    BY <1>9 DEF vars, tableVars
  <2>2. TypeOK'
    BY <2>1 DEF Inductive, TypeOK, pyVars, tableVars, serverVars, clientVars
  <2>3. TicketsKeep'
    BY <2>1 DEF Inductive, TicketsKeep, clientVars
  <2>4. QED
    BY <2>1, <2>2, <2>3, ClientFrame
<1>10. QED
  BY <1>1, <1>2, <1>3, <1>4, <1>5, <1>6, <1>7, <1>8, <1>9 DEF Next

(* The inductive invariant of the server object, its threads and catalog.   *)
THEOREM InductiveInvariant == Spec => []Inductive
<1>1. Init => Inductive
  BY InitInductive
<1>2. Inductive /\ [Next]_vars => Inductive'
  BY StepInductive
<1>3. QED
  BY <1>1, <1>2, PTL DEF Spec

(* register_tables: a schema appears with all the tables of its first call. *)
THEOREM SchemasAppearWhole == Spec => []NewSchemaWhole
<1>1. Inductive => NewSchemaWhole
  BY DEF Inductive, NewSchemaWhole
<1>2. QED
  BY <1>1, InductiveInvariant, PTL

(* register_tables: the names it checked stay free until it has added them.  *)
THEOREM RegistrationCannotFail == Spec => []NamesStayFree
<1>1. Inductive => NamesStayFree
  BY DEF Inductive
<1>2. QED
  BY <1>1, InductiveInvariant, PTL

(* path_query and execute: a ticket reads the table that was announced.      *)
THEOREM TicketsStayGood == Spec => []TicketsKeep
<1>1. Inductive => TicketsKeep
  BY DEF Inductive
<1>2. QED
  BY <1>1, InductiveInvariant, PTL

(* serve: an object has at most one thread up.                               *)
THEOREM AtMostOneServer == Spec => []OneServer
<1>1. Inductive => OneServer
  BY DEF Inductive
<1>2. QED
  BY <1>1, InductiveInvariant, PTL

(* serve and shutdown: no thread that is up is out of the object's reach.    *)
THEOREM EveryThreadIsReachable == Spec => []Accounted
<1>1. Inductive => Accounted
  BY DEF Inductive
<1>2. QED
  BY <1>1, InductiveInvariant, PTL
=============================================================================
