---------------------------- MODULE MCThreadDump ----------------------------
(* Instances of ThreadDump for TLC: one process in a directory of its own, *)
(* or several in one directory.                                            *)
EXTENDS ThreadDump, TLC
=============================================================================
