CONSTANTS
 Untracked = untracked
 Files = {f1}
 Rotating = {f1}
 MaxEntries = 6
 MaxRotations = 1
 MaxRestarts = 0
 RotateAnytime = FALSE
SPECIFICATION Spec
INVARIANT NothingMissed
