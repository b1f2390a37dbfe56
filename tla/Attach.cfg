\* Two clients, the target and one other JVM, and a port that is used again;
\* two polls, so that a client may give up before or after the other.
CONSTANTS
  c1 = c1
  c2 = c2
  j1 = j1
  j2 = j2
  NoOne = NoOne
  Clients <- TwoClients
  Jvms <- TwoJvms
  Target = j1
  Ports <- OnePort
  Polls = 2
  MaxFiles = 2
SPECIFICATION Spec
INVARIANTS TypeOK SharedWithTheJvm CommandToItsReader SuccessIsAnswered
PROPERTIES AttachEnds
\* The clients attach once.
CHECK_DEADLOCK FALSE
