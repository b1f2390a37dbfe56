-------------------------------- MODULE Tasks --------------------------------
(***************************************************************************)
(* The captures of one FullCapture as goroutines: GoCapture starts them,   *)
(* WrapRun runs each and sends its result on an unbuffered channel, the    *)
(* main goroutine receives the results in an order of its own, and dmesg   *)
(* waits for vmstat.  The tasks that run one command, or a second one when *)
(* the first fails, are followed through their file; the others (netstat,  *)
(* ps, thread dump, ...) are one step.                                     *)
(***************************************************************************)
EXTENDS Integers, Sequences

CONSTANT Tasks    \* the tasks this capture starts

\* The mutated form of ReadOrder: the read of dmesg comes before the one of vmstat.
ReadOrderDmesgFirst == <<"top", "disk", "dmesg", "netstat", "ps", "vmstat", "gc", "ping",
                         "appLog", "appLogs", "hdsub", "kernel", "threadDump", "extendedData">>

\* The order in which FullCapture starts the tasks, and in which it reads the results.
StartOrder == <<"gc", "netstat", "top", "vmstat", "ps", "dmesg", "disk", "ping", "kernel",
                "threadDump", "appLog", "appLogs", "hdsub", "extendedData">>
ReadOrder == <<"top", "disk", "netstat", "ps", "vmstat", "dmesg", "gc", "ping", "appLog",
               "appLogs", "hdsub", "kernel", "threadDump", "extendedData">>

\* vmstat and dmesg are started under the same condition, pidPassed.
ASSUME TasksAssumption ==
  /\ \A t \in Tasks : \E i \in 1..Len(StartOrder) : StartOrder[i] = t
  /\ "dmesg" \in Tasks => "vmstat" \in Tasks

Place(order, t) == CHOOSE i \in 1..Len(order) : order[i] = t
Earlier(order, t) == {u \in Tasks : Place(order, u) < Place(order, t)}

\* On Linux top and vmstat have a second command.  dmesg's is not reached: a
\* command that fails makes Wait return its error, and not ErrNonZeroExit.
FallsBack == {"top", "vmstat"}
RunsOneCommand == FallsBack \cup {"dmesg", "ping", "kernel"}
WaitsFor(t) == IF t = "dmesg" THEN {"vmstat"} ELSE {}

VARIABLES
  started,      \* main: tasks started
  received,     \* main: tasks whose result was received
  pc,           \* of each task's goroutine
  attempt,      \* the command in use: 1, 2; 0 before the file was created
  cmd,          \* tasks whose Cmd is not nil
  wg,           \* the counter of each task's wait group
  running,      \* tasks whose command is running
  outcome,      \* of the latest command: none, ok, invalid (vmstat's validation), error
  output,       \* the commands whose output is in the task's file
  posted,       \* tasks whose file was given to PostData
  resetFailed,  \* tasks whose file could not be reset before the second command
  panicking,    \* tasks whose deferred functions run because of a panic
  crashed       \* a panic nobody recovers has ended the process

main == <<started, received>>
command == <<attempt, cmd, running, outcome, output>>
vars == <<started, received, pc, attempt, cmd, wg, running, outcome, output, posted,
          resetFailed, panicking, crashed>>

Goto(t, from, to) == /\ ~crashed
                     /\ pc[t] = from
                     /\ pc' = [pc EXCEPT ![t] = to]

Init ==
  /\ started = {} /\ received = {}
  /\ pc = [t \in Tasks |-> "off"]
  /\ attempt = [t \in Tasks |-> 0] /\ cmd = {} /\ wg = [t \in Tasks |-> 0]
  /\ running = {} /\ outcome = [t \in Tasks |-> "none"] /\ output = [t \in Tasks |-> {}]
  /\ posted = {} /\ resetFailed = {} /\ panicking = {} /\ crashed = FALSE

-----------------------------------------------------------------------------
(***************************************************************************)
(* The goroutine of FullCapture.  Kill of capTop and capVMStat, once all   *)
(* tasks are started, changes nothing: both run a WaitCmd, whose Kill is   *)
(* empty, or have no Cmd yet.                                              *)
(***************************************************************************)
StartTask(t) ==
  /\ Goto(t, "off", IF WaitsFor(t) = {} THEN "init" ELSE "look")
  /\ Earlier(StartOrder, t) \subseteq started
  /\ started' = started \cup {t}
  /\ UNCHANGED <<received, command, wg, posted, resetFailed, panicking, crashed>>

\* The channel is unbuffered: the result is received when it is sent.
Receive(t) ==
  /\ Goto(t, "send", "release")
  /\ started = Tasks /\ Earlier(ReadOrder, t) \subseteq received
  /\ received' = received \cup {t}
  /\ UNCHANGED <<started, command, wg, posted, resetFailed, panicking, crashed>>

-----------------------------------------------------------------------------
(***************************************************************************)
(* GoCapture and WrapRun.                                                  *)
(***************************************************************************)
\* WaitWaitGroup reads Cmd without synchronisation: it may see nil although
\* Cmd has been assigned, and then it does not wait.
Look(t) ==
  /\ \/ Goto(t, "look", "init")
     \/ WaitsFor(t) \subseteq cmd /\ Goto(t, "look", "wait")
  /\ UNCHANGED <<main, command, wg, posted, resetFailed, panicking, crashed>>

Wait(t) ==
  /\ \A u \in WaitsFor(t) : wg[u] = 0
  /\ Goto(t, "wait", "init")
  /\ UNCHANGED <<main, command, wg, posted, resetFailed, panicking, crashed>>

\* The mutated form of InitWaitGroup: vmstat does not count itself.
InitWaitGroupForgotten(t) ==
  /\ Goto(t, "init", IF t \in RunsOneCommand THEN "create" ELSE "run")
  /\ UNCHANGED <<main, command, wg, posted, resetFailed, panicking, crashed>>

InitWaitGroup(t) ==
  /\ Goto(t, "init", IF t \in RunsOneCommand THEN "create" ELSE "run")
  /\ wg' = [wg EXCEPT ![t] = @ + 1]
  /\ UNCHANGED <<main, command, posted, resetFailed, panicking, crashed>>

RunTask(t) ==
  /\ Goto(t, "run", "send")
  /\ UNCHANGED <<main, command, wg, posted, resetFailed, panicking, crashed>>

\* After the result is received: close the channel, DoneWaitGroup, and then the
\* panic, if there was one, goes on and ends the process.
Release(t) ==
  /\ Goto(t, "release", "end")
  /\ wg' = [wg EXCEPT ![t] = @ - 1]
  /\ crashed' = (t \in panicking)
  /\ UNCHANGED <<main, command, posted, resetFailed, panicking>>

-----------------------------------------------------------------------------
(***************************************************************************)
(* Run of a task that captures a command's output in a file.               *)
(***************************************************************************)
Create(t) ==
  /\ \/ Goto(t, "create", "start") /\ attempt' = [attempt EXCEPT ![t] = 1]
     \/ Goto(t, "create", "send") /\ UNCHANGED attempt
  /\ UNCHANGED <<main, cmd, wg, running, outcome, output, posted, resetFailed, panicking, crashed>>

\* The mutated form of AfterFailure: no second command.
AfterFailureGiveUp(t) == "send"

\* Where the way of t leads after its command failed.
AfterFailure(t) == IF t \in FallsBack /\ attempt[t] = 1 THEN "fallback" ELSE "send"

\* top assigns Cmd before it looks at the error of the start, the others after.
Start(t) ==
  /\ \/ /\ Goto(t, "start", "await")
        /\ running' = running \cup {t} /\ cmd' = cmd \cup {t}
     \/ /\ Goto(t, "start", AfterFailure(t))
        /\ cmd' = (IF t = "top" THEN cmd \cup {t} ELSE cmd)
        /\ UNCHANGED running
  /\ UNCHANGED <<main, attempt, wg, outcome, output, posted, resetFailed, panicking, crashed>>

Outcomes(t) == IF t = "vmstat" THEN {"ok", "invalid", "error"} ELSE {"ok", "error"}

\* The command ends by itself; one that fails may have written something.
Exit(t) ==
  /\ ~crashed /\ t \in running
  /\ running' = running \ {t}
  /\ \E o \in Outcomes(t), w \in SUBSET {attempt[t]} :
       /\ o = "ok" => w # {}
       /\ outcome' = [outcome EXCEPT ![t] = o]
       /\ output' = [output EXCEPT ![t] = @ \cup w]
  /\ UNCHANGED <<main, pc, attempt, cmd, wg, posted, resetFailed, panicking, crashed>>

\* The mutated form of Await: the second command is not waited for.
AwaitFirstOnly(t) ==
  /\ t \notin running \/ attempt[t] = 2
  /\ Goto(t, "await", IF outcome[t] = "ok" \/ t \in running THEN "post" ELSE AfterFailure(t))
  /\ UNCHANGED <<main, command, wg, posted, resetFailed, panicking, crashed>>

Await(t) ==
  /\ t \notin running
  /\ Goto(t, "await", IF outcome[t] = "ok" THEN "post" ELSE AfterFailure(t))
  /\ UNCHANGED <<main, command, wg, posted, resetFailed, panicking, crashed>>

\* vmstat names the failed command in its log, whether there is one or not.
Panics(t) == t = "vmstat" /\ t \notin cmd

\* The mutated form of Fallback: the file is not reset.
FallbackAppends(t) ==
  /\ ~Panics(t)
  /\ Goto(t, "fallback", "start")
  /\ attempt' = [attempt EXCEPT ![t] = 2]
  /\ UNCHANGED <<main, cmd, wg, running, outcome, output, posted, resetFailed, panicking, crashed>>

\* Truncate the file and run the second command.  top gives up when the file
\* cannot be reset; vmstat does not look at that error.
Fallback(t) ==
  \/ /\ Panics(t)
     /\ Goto(t, "fallback", "send")
     /\ panicking' = panicking \cup {t}
     /\ UNCHANGED <<main, command, wg, posted, resetFailed, crashed>>
  \/ /\ ~Panics(t)
     /\ Goto(t, "fallback", "start")
     /\ attempt' = [attempt EXCEPT ![t] = 2]
     /\ output' = [output EXCEPT ![t] = {}]
     /\ UNCHANGED <<main, cmd, wg, running, outcome, posted, resetFailed, panicking, crashed>>
  \/ /\ ~Panics(t)
     /\ resetFailed' = resetFailed \cup {t}
     /\ \/ t = "top" /\ Goto(t, "fallback", "send") /\ UNCHANGED attempt
        \/ t = "vmstat" /\ Goto(t, "fallback", "start") /\ attempt' = [attempt EXCEPT ![t] = 2]
     /\ UNCHANGED <<main, cmd, wg, running, outcome, output, posted, panicking, crashed>>

Post(t) ==
  /\ Goto(t, "post", "send")
  /\ posted' = posted \cup {t}
  /\ UNCHANGED <<main, command, wg, resetFailed, panicking, crashed>>

-----------------------------------------------------------------------------
Main == \E t \in Tasks : StartTask(t) \/ Receive(t)

Goroutine(t) ==
  \/ Look(t) \/ Wait(t) \/ InitWaitGroup(t) \/ RunTask(t) \/ Release(t)
  \/ Create(t) \/ Start(t) \/ Await(t) \/ Fallback(t) \/ Post(t)

Ended == crashed \/ \A t \in Tasks : pc[t] = "end"

\* As long as a goroutine can run or a command is running, some goroutine runs or
\* some command ends: top, ping and vmstat count their rounds, the others print
\* what there is.  No step is repeated, so fairness of the whole is enough.
Step == Main \/ \E t \in Tasks : Goroutine(t) \/ Exit(t)

Next == Step \/ (Ended /\ UNCHANGED vars)

Spec == Init /\ [][Next]_vars

FairSpec == Spec /\ WF_vars(Step)

(***************************************************************************)
(* Properties                                                              *)
(***************************************************************************)
\* The types; in particular no wait group goes below zero, which would panic.
TypeOK ==
  /\ started \subseteq Tasks /\ received \subseteq Tasks
  /\ pc \in [Tasks -> {"off", "look", "wait", "init", "run", "create", "start", "await",
                       "fallback", "post", "send", "release", "end"}]
  /\ attempt \in [Tasks -> 0..2] /\ cmd \subseteq Tasks /\ wg \in [Tasks -> Nat]
  /\ running \subseteq Tasks
  /\ outcome \in [Tasks -> {"none", "ok", "invalid", "error"}]
  /\ output \in [Tasks -> SUBSET {1, 2}]
  /\ posted \subseteq Tasks /\ resetFailed \subseteq Tasks /\ panicking \subseteq Tasks
  /\ crashed \in BOOLEAN

\* FullCapture comes to the end of its reads whatever the tasks wait for: the
\* order of the reads fits dmesg's wait for vmstat, whose wait group is released
\* only after its result was received.
ResultsReceived == <>(received = Tasks \/ crashed)

\* Every goroutine FullCapture starts ends: none is left sending, nor waiting
\* for a wait group.
GoroutinesEnd == <>Ended

\* The reads come to their end, and so does every goroutine.
AllEnd == ResultsReceived /\ GoroutinesEnd

\* When FullCapture goes on to zip and remove the directory no command of a
\* task is still writing into it.
QuietWhenRead == received = Tasks => running = {}

\* What a task posts is the output of one command, one that succeeded and, for
\* vmstat, passed the validation: nothing of a first command that failed, unless
\* vmstat could not reset its file.
OutputOfOneCommand ==
  \A t \in posted : outcome[t] = "ok" /\ (output[t] = {attempt[t]} \/ t \in resetFailed)

\* Once dmesg has found vmstat started it begins only after FullCapture has
\* received vmstat's result, and so after vmstat has posted.
WaitedForVmstat ==
  [][\A t \in Tasks : Wait(t) => WaitsFor(t) \subseteq received]_vars

GaveUp(t) == pc[t] \in {"send", "release", "end"} /\ t \notin posted /\ attempt[t] > 0

\* A task with a second command gives up only after it tried it, whether the first
\* one did not start, failed or printed something invalid, or its file could not
\* be reset; a panic aside.
FallbackTried ==
  \A t \in Tasks \cap FallsBack :
    GaveUp(t) => attempt[t] = 2 \/ t \in resetFailed \/ t \in panicking

==============================================================================
