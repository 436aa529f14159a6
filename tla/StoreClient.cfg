SPECIFICATION StoreClientSpec
CONSTANT MaxCalls = 2
INVARIANT FailedStartupIsCleanedUp
PROPERTY KeepsItsPromises
PROPERTY StartupSettles
PROPERTY CallsSettle
CHECK_DEADLOCK FALSE
