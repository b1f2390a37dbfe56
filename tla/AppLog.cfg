CONSTANTS
 Untracked = untracked
 Files = {f1, f2}
 Rotating = {f2}
 MaxEntries = 3
 MaxRotations = 1
 MaxRestarts = 1
 RotateAnytime = FALSE
SPECIFICATION Spec
INVARIANTS
 TypeOK
 InOrderOnce
 PositionInFile
PROPERTIES
 TailSpec
