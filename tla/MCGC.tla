--------------------------------- MODULE MCGC ---------------------------------
\* Instances of GC for TLC.
EXTENDS GC
AllSchemes == {"plain", "current"}
AllViews == {"host", "root", "docker"}
==============================================================================
