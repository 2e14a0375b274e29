CONSTANTS
  Connections <- MCConnections
  Calls <- MCCalls
  Fold <- MCFold
  MaxCalls = 2
  NoSchema = NoSchema
  NoDefault = NoDefault
  NoInfo = NoInfo
  NoCall = NoCall
SPECIFICATION Spec
INVARIANTS GroupsAreWhole ReplaceIsAtomic DefaultIsRestored NoDanglingView
CHECK_DEADLOCK FALSE
