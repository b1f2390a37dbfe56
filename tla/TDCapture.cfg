CONSTANTS
 Absent = absent
 Count = 2
 Pids = 2
SPECIFICATION FairSpec
INVARIANTS ThreadDumpWhole
PROPERTIES AllEnd
CHECK_DEADLOCK FALSE
