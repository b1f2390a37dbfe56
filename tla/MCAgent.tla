------------------------------- MODULE MCAgent -------------------------------
(***************************************************************************)
(* Instances of Agent for TLC: the flags a process is started with.        *)
(***************************************************************************)
EXTENDS Agent

AllFlags == [m3 : BOOLEAN, pidCount : {0, 1, 2}, deferDelete : BOOLEAN, onlyCapture : BOOLEAN,
             absolute : BOOLEAN, port : BOOLEAN]

\* One mode at a time: on-demand with two processes, m3, or the action API (there
\* without -onlyCapture, which is left to the on-demand mode).
OneMode == {f \in AllFlags : /\ f.pidCount # 1
                             /\ f.port => ~f.m3 /\ f.pidCount = 0 /\ ~f.onlyCapture
                             /\ f.port \/ f.m3 \/ f.pidCount > 0}
==============================================================================
