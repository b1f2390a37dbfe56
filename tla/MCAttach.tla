------------------------------- MODULE MCAttach -------------------------------
\* Instances of Attach for TLC.
EXTENDS Attach, TLC
CONSTANTS c1, c2, j1, j2
TwoClients == {c1, c2}
TwoJvms == {j1, j2}
TwoPorts == {4001, 4002}
OnePort == {4001}
==============================================================================
