--------------------------------- MODULE MCTop --------------------------------
(* Two processes, one of two threads, four ids; the agent's command lines and *)
(* others, with shorter delays.                                               *)
EXTENDS Top

Opt(o) == [opt |-> o]
OptN(o, n) == [opt |-> o, val |-> n]
OptP(ids) == [opt |-> "p", pids |-> ids]

MCCommandLines ==
  {<<Opt("b"), Opt("c"), OptN("d", 100), OptN("n", 3)>>,
   <<Opt("b"), Opt("H"), OptN("n", 1), OptP(<<10>>)>>,
   <<Opt("b"), OptN("n", 1), OptP(<<10, 12, 10>>)>>,
   <<Opt("b"), OptN("n", 0)>>,
   <<Opt("b"), OptN("d", -1)>>,
   <<Opt("b"), OptP(<<1, 10, 11, 12>>)>>,
   <<Opt("b"), OptP(<<1, 10, 12, 10>>)>>,
   <<Opt("b"), Opt("stray")>>,
   <<Opt("s"), OptN("d", 100)>>,
   <<Opt("h")>>}
Task(n) == [state |-> "S", tics |-> 2, res |-> 1, swap |-> 0, born |-> n]
MCKernel == [procs |-> (1 :> <<1>>) @@ (10 :> <<10, 11>>),
             task |-> (1 :> Task(1)) @@ (10 :> Task(10)) @@ (11 :> Task(11))]
MCIds == {1, 10, 11, 12}
MCMounts == {"all", "pids"}
MCVisible == {"ID_PID", "STATE", "CMD", "TICS_ALL", "TICS_ALL_DELTA", "VM_SWAP"}
MCCpuCounts == {1, 2}
MCNodeOf == 0 :> 0 @@ 1 :> 0
===============================================================================
