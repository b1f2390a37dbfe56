\* Runs of up to three updates while two changes of the kernel's files happen.
\* MaxLoops and MaxSecond stop the runs without a count, and only those.
CONSTANTS
  Argvs <- CommandLines
  WinRows <- Windows
  FirstFiles <- Start
  FilesMay <- ChangesOf
  Garbage <- JunkSamples
  NodeOf <- Nodes
  StacksIncr = 2
  NewOldIncr = 2
  NodesIncr = 2
  IntMax = 127
  ULong = 8
  UIntMax = 6
  MaxFileChanges = 2
  MaxSecond = 7
  MaxLoops = 5
SPECIFICATION VmstatSpec
INVARIANTS VmstatTypeOK CountsAsAsked LinesOfNow
PROPERTIES VmstatEnds
\* The program ends.
CHECK_DEADLOCK FALSE
