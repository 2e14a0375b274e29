SPECIFICATION FairSpec
CONSTANTS
  t1 = t1
  t2 = t2
  c1 = c1
  dotted = dotted
  surface = surface
  level = level
  wind = wind
  soil = soil
  path = path
  Public = Public
  Threads = {t1, t2}
  Clients = {c1}
  Workers = 1
  MaxServes = 2
  Tables <- MCTables
  Home <- MCHome
  Registered <- MCRegistered
  Paths = {path}
  Bare <- MCBare
  Parsed <- MCParsed
INVARIANTS Inductive NewSchemaWhole NamesStayFree TicketsKeep
PROPERTIES CallsReturn DroppedEnds
CHECK_DEADLOCK FALSE
