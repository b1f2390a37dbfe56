------------------------------ MODULE MCSections ------------------------------
(* Instances of Sections for TLC.                                          *)
EXTENDS Sections

\* PS runs SCRIPT_SPAN / JAVACORE_INTERVAL - 1 times; HDSub has four sections, of
\* which two are enough to see one follow another.
Shape == [ps |-> 3, netstat |-> 2, hdsub |-> 2, disk |-> 1]
==============================================================================
