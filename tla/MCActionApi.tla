------------------------------ MODULE MCActionApi ------------------------------
(* Instances of ActionApi for TLC.                                         *)
EXTENDS ActionApi

CONSTANTS p1, p2

\* A process twice, two processes, one searched for, an operation that is not
\* supported beside one that is, and none: forwarded requests have none here.
SomeBodies == {<<p1, p1>>, <<p2, p1>>, <<"PROCESS_HIGH_CPU">>, <<"command", p1>>, <<>>}
==============================================================================
