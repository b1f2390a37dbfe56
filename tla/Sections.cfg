CONSTANTS
 MaxCalls = 6
 MaxTimeOuts = 1
 Captures = {"ps", "netstat", "hdsub", "disk"}
 SectionsOf <- Shape
SPECIFICATION FairSpec
INVARIANTS FileAsSectioned
PROPERTIES EndsWithItsWorkers
CHECK_DEADLOCK FALSE
