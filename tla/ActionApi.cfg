CONSTANTS
 p1 = p1
 p2 = p2
 Requests = {q1, q2}
 Pids = {p1, p2}
 Unsupported = unsupported
 Nobody = nobody
 Bodies <- SomeBodies
SPECIFICATION FairSpec
INVARIANTS AnsweredAsCaptured
PROPERTIES EveryRequestServed
CHECK_DEADLOCK FALSE
