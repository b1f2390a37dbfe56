\* Four calls of a library, two changes of its file and three seconds. Arrays
\* that grow by 64, 128 or 30 in the code grow by 1 or 2.
CONSTANTS
  Libs <- AllLibs
  Start <- FirstFile
  Change <- NextFiles
  Items <- ItemLists
  Junk <- JunkSamples
  NodeOf <- Nodes
  StacksIncr = 2
  NewOldIncr = 2
  NodesIncr = 1
  IntMax = 127
  ULong = 256
  MaxCalls = 4
  MaxChanges = 2
  MaxClock = 3
SPECIFICATION LibSpec
INVARIANTS ResultsFit ChangesAreReal MemWithinTotal GetReadsAgain
\* The caller may stop.
CHECK_DEADLOCK FALSE
