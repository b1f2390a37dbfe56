CONSTANTS
 Main = main
 Loop = loop
 Nobody = nobody
 Gone = gone
 Requests = {q1, q2}
 Flags <- OneMode
 PidsPerRequest = 1
 MaxFinPids = 2
 MaxRounds = 2
 MaxTime = 3
SPECIFICATION FairSpec
INVARIANTS TypeOK OneCapture EachInItsPlace ExitAfterCleanup
PROPERTIES ShutdownCompletes
