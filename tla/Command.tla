------------------------------- MODULE Command -------------------------------
(***************************************************************************)
(* executils.CommandCombinedOutputToWriter: a worker goroutine runs the    *)
(* command with exec.Cmd.CombinedOutput and writes what it printed to the  *)
(* caller's writer, while the caller waits for the worker or for a timer   *)
(* of one minute, and on the timer kills the command and waits for it too. *)
(* A worker whose call timed out goes on beside the later calls.           *)
(*                                                                         *)
(* The caller makes its calls one after the other, on one file.  This      *)
(* module has no initial calls of its own: a module that makes calls       *)
(* extends it.                                                             *)
(***************************************************************************)
EXTENDS Naturals, Sequences, FiniteSets

CONSTANTS
  MaxCalls,      \* the calls the caller makes, at most
  MaxTimeOuts    \* bound: the calls whose timer fires

ASSUME CommandAssumption == MaxCalls \in Nat /\ MaxTimeOuts \in Nat

Calls == 1..MaxCalls

VARIABLES
  current,    \* the latest call, 0 before the first one
  caller,     \* idle, or inside the current call: select, kill, wait, drain, return
  worker,     \* the worker goroutine of each call
  process,    \* the command: none, running, exited (not waited for yet), reaped
  pipe,       \* its output: open, closed (goroutineErrs has a value), taken
  failed,     \* whether CombinedOutput returns an error
  err,        \* whether the call's named result is an error
  timedOut,   \* calls whose timer fired
  file,       \* what was written to the caller's file
  open        \* whether the caller's file is open

command == <<worker, process, pipe, failed, err>>
commandVars == <<current, caller, worker, process, pipe, failed, err, timedOut,
                 file, open>>

Output(c) == [kind |-> "output", of |-> c, failed |-> failed[c]]

CommandInit ==
  /\ current = 0 /\ caller = "idle" /\ timedOut = {} /\ file = <<>> /\ open = TRUE
  /\ worker = [c \in Calls |-> "off"]
  /\ process = [c \in Calls |-> "none"]
  /\ pipe = [c \in Calls |-> "open"]
  /\ failed = [c \in Calls |-> FALSE]
  /\ err = [c \in Calls |-> FALSE]

Work(c, from, to) == worker[c] = from /\ worker' = [worker EXCEPT ![c] = to]

CallerGoto(from, to) == caller = from /\ caller' = to

(***************************************************************************)
(* Mutated forms of the operations below: what a plausible bug would make  *)
(* of them.  The specification does not use them.                          *)
(***************************************************************************)
\* The worker signals the caller before it has written the output.
ReportAndSignal(c) ==
  /\ Work(c, "report", "write")
  /\ err' = [err EXCEPT ![c] = failed[c]]
  /\ IF caller = "select" /\ current = c THEN caller' = "return" ELSE UNCHANGED caller
  /\ UNCHANGED <<current, process, pipe, failed, timedOut, file, open>>

\* The worker sends only when the command succeeded.
WriteSendsOnSuccess(c) ==
  /\ Work(c, "write", IF failed[c] THEN "done" ELSE "send")
  /\ file' = Append(file, Output(c))
  /\ UNCHANGED <<current, caller, process, pipe, failed, err, timedOut, open>>

(***************************************************************************)
(* The command                                                             *)
(***************************************************************************)
Exit(c) ==
  /\ process[c] = "running"
  /\ process' = [process EXCEPT ![c] = "exited"]
  /\ \E code \in BOOLEAN : failed' = [failed EXCEPT ![c] = code]
  /\ UNCHANGED <<current, caller, worker, pipe, err, timedOut, file, open>>

\* exec.Cmd copies the output until the last holder of the pipe has closed it,
\* which may be a descendant of the command.
CloseOutput(c) ==
  /\ process[c] \in {"exited", "reaped"} /\ pipe[c] = "open"
  /\ pipe' = [pipe EXCEPT ![c] = "closed"]
  /\ UNCHANGED <<current, caller, worker, process, failed, err, timedOut, file, open>>

(***************************************************************************)
(* exec.Cmd.Wait, in the worker and, after the timer, in the caller: the   *)
(* first to wait for the process gets its state, the other an error; both  *)
(* then wait for the copying goroutine, which sends one value.  One that   *)
(* arrives after it was taken may find the field cleared and go on, or     *)
(* have read it just before.                                               *)
(***************************************************************************)
Reap(c) == process' = [process EXCEPT ![c] = "reaped"]

Take(c) == pipe[c] = "closed" /\ pipe' = [pipe EXCEPT ![c] = "taken"]

(***************************************************************************)
(* The worker                                                              *)
(***************************************************************************)
Start(c) ==
  \/ /\ Work(c, "start", "wait")
     /\ process' = [process EXCEPT ![c] = "running"]
     /\ UNCHANGED <<current, caller, pipe, failed, err, timedOut, file, open>>
  \/ /\ Work(c, "start", "report")
     /\ failed' = [failed EXCEPT ![c] = TRUE]
     /\ UNCHANGED <<current, caller, process, pipe, err, timedOut, file, open>>

WorkerWait(c) ==
  /\ process[c] \in {"exited", "reaped"}
  /\ \/ Work(c, "wait", "drain")
     \/ pipe[c] = "taken" /\ Work(c, "wait", "report")
  /\ Reap(c)
  /\ failed' = [failed EXCEPT ![c] = @ \/ process[c] = "reaped"]
  /\ UNCHANGED <<current, caller, pipe, err, timedOut, file, open>>

WorkerDrain(c) ==
  /\ Work(c, "drain", "report")
  /\ Take(c)
  /\ UNCHANGED <<current, caller, process, failed, err, timedOut, file, open>>

\* output, err = c.CombinedOutput()
Report(c) ==
  /\ Work(c, "report", "write")
  /\ err' = [err EXCEPT ![c] = failed[c]]
  /\ UNCHANGED <<current, caller, process, pipe, failed, timedOut, file, open>>

\* On success err is what the writer returned, an error when its file was closed
\* meanwhile; on failure the error stays.
Write(c) ==
  /\ Work(c, "write", "send")
  /\ file' = IF open THEN Append(file, Output(c)) ELSE file
  /\ err' = IF failed[c] THEN err ELSE [err EXCEPT ![c] = ~open]
  /\ UNCHANGED <<current, caller, process, pipe, failed, timedOut, open>>

\* channelDone is not buffered: only a caller still in its select receives.
Send(c) ==
  /\ Work(c, "send", "done")
  /\ current = c /\ CallerGoto("select", "return")
  /\ UNCHANGED <<current, process, pipe, failed, err, timedOut, file, open>>

Worker(c) == Start(c) \/ WorkerWait(c) \/ WorkerDrain(c) \/ Report(c) \/ Write(c) \/ Send(c)

(***************************************************************************)
(* The caller                                                              *)
(***************************************************************************)
Call ==
  /\ CallerGoto("idle", "select")
  /\ current' = current + 1
  /\ worker' = [worker EXCEPT ![current + 1] = "start"]
  /\ UNCHANGED <<process, pipe, failed, err, timedOut, file, open>>

TimeOut ==
  /\ CallerGoto("select", "kill")
  /\ Cardinality(timedOut) < MaxTimeOuts
  /\ process[current] # "none"
  /\ timedOut' = timedOut \cup {current}
  /\ UNCHANGED <<current, command, file, open>>

\* KillAndWait.  The kill fails when the process was waited for already, or when
\* it belongs to somebody else, as sudo does; only a kill that was sent is waited for.
Kill ==
  LET c == current IN
  \/ /\ CallerGoto("kill", "return")
     /\ process[c] \in {"running", "reaped"}
     /\ err' = [err EXCEPT ![c] = TRUE]
     /\ UNCHANGED <<current, worker, process, pipe, failed, timedOut, file, open>>
  \/ /\ CallerGoto("kill", "wait")
     /\ process[c] \in {"running", "exited"}
     /\ failed' = [failed EXCEPT ![c] = @ \/ process[c] = "running"]
     /\ process' = [process EXCEPT ![c] = "exited"]
     /\ UNCHANGED <<current, worker, pipe, err, timedOut, file, open>>

\* When Wait is found to have been called already it returns at once.
CallerWait ==
  LET c == current IN
  /\ caller = "wait"
  /\ process[c] \in {"exited", "reaped"}
  /\ Reap(c)
  /\ \/ caller' = "drain" /\ UNCHANGED err
     \/ /\ caller' = "return"
        /\ process[c] = "reaped"
        /\ err' = [err EXCEPT ![c] = FALSE]
  /\ UNCHANGED <<current, worker, pipe, failed, timedOut, file, open>>

CallerDrain ==
  /\ CallerGoto("drain", "return")
  /\ Take(current)
  /\ err' = [err EXCEPT ![current] = FALSE]
  /\ UNCHANGED <<current, worker, process, failed, timedOut, file, open>>

\* The call returns the value the named result has at that moment.
Returned(result) == CallerGoto("return", "idle") /\ err[current] = result

CommandNext ==
  \/ \E c \in Calls : Exit(c) \/ CloseOutput(c) \/ Worker(c)
  \/ TimeOut \/ Kill \/ CallerWait \/ CallerDrain
==============================================================================
