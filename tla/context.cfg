SPECIFICATION Spec
CONSTANTS
  w = w
  e1 = e1
  e2 = e2
  era5 = era5
  d1 = d1
  d2 = d2
  lazy = lazy
  gap = gap
  q1 = q1
  Public = Public
  Foreign = Foreign
  View = View
  None = None
  Names <- MCNames
  Home <- MCHome
  Datasets <- MCDatasets
  Inputs <- MCInputs
  Form <- MCForm
  Missing <- MCMissing
  InMemory <- MCInMemory
  Calendar <- MCCalendar
  Queries = {q1}
  Reads <- MCReads
  Orders <- MCOrders
  InSql = {w}
  MaxRemovals <- MCRemovals
SYMMETRY Symmetry
INVARIANTS Inductive RegistryMatchesCatalog NeverStale EntryForEveryWrite RunSeesWrites NullsStay
