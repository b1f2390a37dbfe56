\* Both ways of naming a rotation's files, three of them; six generations.
CONSTANTS
  Schemes <- AllSchemes
  Views <- AllViews
  Count = 3
  MaxGen = 6
SPECIFICATION Spec
INVARIANTS LogInOrder NewestOrTools
\* The capture ends.
CHECK_DEADLOCK FALSE
