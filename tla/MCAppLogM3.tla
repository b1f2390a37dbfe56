----------------------------- MODULE MCAppLogM3 -----------------------------
(* Instances of AppLogM3 for TLC.                                          *)
EXTENDS AppLogM3
==============================================================================
