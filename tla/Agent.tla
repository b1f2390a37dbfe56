-------------------------------- MODULE Agent --------------------------------
(***************************************************************************)
(* The agent process: the goroutines that run captures (the on-demand      *)
(* loop, the handlers of the action API, the m3 loop) and the state they   *)
(* share because a process has only one of it: the working directory, the  *)
(* stack of agent loggers, the mutex `one`, the wait group ondemand.Wg and *)
(* the shutdown sequence that waits on it.                                 *)
(*                                                                         *)
(* A capture is ondemand.FullCapture.  Its deferred functions run in the   *)
(* reverse of the order in which they were registered: stop the agent log, *)
(* go back to the saved directory and zip, remove the directory, release   *)
(* the wait group.                                                         *)
(***************************************************************************)
EXTENDS Naturals, Sequences, FiniteSets

CONSTANTS
  Main,             \* the goroutine of agent.Run in on-demand mode
  Loop,             \* the goroutine of M3App.RunLoop
  Requests,         \* bound: the requests the action API may get
  Nobody,           \* no goroutine; also the root logger
  Gone,             \* a directory that has been removed, or was never made
  Flags,            \* the flags the process may be started with
  PidsPerRequest,   \* processes an API request names
  MaxFinPids,       \* bound: processes an m3-fin response asks to capture
  MaxRounds,        \* bound: rounds of the m3 loop
  MaxTime           \* bound: seconds of the clock

Runners == {Main, Loop} \cup Requests

\* The flags: -m3, the processes -p resolves to (0 when not set), -d, -onlyCapture,
\* whether -storagePath is absolute, and whether -port is set.
Config == [m3 : BOOLEAN, pidCount : Nat, deferDelete : BOOLEAN, onlyCapture : BOOLEAN,
           absolute : BOOLEAN, port : BOOLEAN]

ASSUME AgentAssumption ==
  /\ Main # Loop /\ {Main, Loop} \cap Requests = {} /\ IsFiniteSet(Requests)
  /\ Nobody \notin Runners
  /\ Gone \notin Seq(Nat)
  /\ Flags \subseteq Config
  /\ PidsPerRequest \in Nat
  /\ MaxFinPids \in Nat /\ MaxRounds \in Nat /\ MaxTime \in Nat

(***************************************************************************)
(* A directory is the sequence of the names below the directory the        *)
(* process was started in; the name yc-<timestamp> is the second it was    *)
(* made in.  Name 0 is the configured storage directory.                   *)
(***************************************************************************)
Path == Seq(Nat)
StartDir == <<>>
StorageDir == <<0>>
Under(d, p) == Len(p) <= Len(d) /\ SubSeq(d, 1, Len(p)) = p

VARIABLES
  config,    \* the flags of this process
  now,       \* the clock, in the granularity of the directory's timestamp
  phase,     \* of the process: running, draining, cleaning, exited, panicked
  waiter,    \* Shutdown inside Wg.Wait: none, waiting, woken
  awaited,   \* the captures registered when Wg.Wait began, not yet removed
  wg,        \* the counter of ondemand.Wg
  one,       \* holder of the mutex of the action API
  cwd,       \* working directory of the process
  dirs,      \* directories that exist
  files,     \* artifacts: the directory each is in, and the one it is meant for
  zips,      \* zip files: the directory read, and the one it is meant for
  logger,    \* the runner whose agent log the current logger writes to
  stack,     \* loggerStack: the logger to go back to, and the file to close
  closed,    \* runners whose agent log file is closed
  pc,        \* of each runner, inside FullCapture or between two of them
  left,      \* processes each runner still has to capture
  ts,        \* timestamp in the name of each runner's capture directory
  saved,     \* directory each runner goes back to
  own,       \* directory each runner's artifacts belong in
  hasLog,    \* whether the runner's agentLogFile is not nil
  m3         \* the frame of RunSingle: pc, timestamp, saved and own directory

proc == <<config, now>>
exit == <<phase, waiter, awaited>>
fs == <<cwd, dirs, files, zips>>
logs == <<logger, stack, closed, hasLog>>
frame == <<ts, saved, own>>
vars == <<config, now, phase, waiter, awaited, wg, one, cwd, dirs, files, zips,
          logger, stack, closed, pc, left, ts, saved, own, hasLog, m3>>

OnDemandMode == config.pidCount > 0
M3Mode == config.m3 /\ ~OnDemandMode

Alive == phase \in {"running", "draining", "cleaning"}

Goto(r, from, to) == /\ Alive
                     /\ pc[r] = from
                     /\ pc' = [pc EXCEPT ![r] = to]

\* captureDir is relative to the working directory unless -storagePath is absolute.
Resolve(t) == IF config.absolute THEN Append(StorageDir, t)
              ELSE IF cwd = Gone THEN Gone ELSE Append(cwd, t)

\* os.Mkdir fails on a directory that exists or whose parent does not.
CanMkdir(t) == Resolve(t) # Gone /\ Resolve(t) \notin dirs

\* os.RemoveAll: a process left inside a removed directory has no usable
\* working directory any more.
RemoveTree(p) ==
  /\ dirs' = {d \in dirs : p = Gone \/ ~Under(d, p)}
  /\ files' = {f \in files : p = Gone \/ ~Under(f.dir, p)}
  /\ cwd' = IF p # Gone /\ cwd # Gone /\ Under(cwd, p) THEN Gone ELSE cwd

Chdir(p) == cwd' = IF p \in dirs THEN p ELSE cwd

-----------------------------------------------------------------------------
Init ==
  /\ config \in Flags
  /\ config.m3 => ~config.onlyCapture
  /\ now = 1
  /\ phase = "running" /\ waiter = "none" /\ awaited = {}
  /\ wg = 0 /\ one = Nobody
  /\ cwd = StartDir /\ dirs = {StartDir, StorageDir} /\ files = {} /\ zips = {}
  /\ logger = Nobody /\ stack = <<>> /\ closed = {}
  /\ hasLog = [r \in Runners |-> FALSE]
  /\ pc = [r \in Runners |-> IF r = Main /\ OnDemandMode THEN "next" ELSE "off"]
  /\ left = [r \in Runners |-> IF r = Main THEN config.pidCount ELSE 0]
  /\ ts = [r \in Runners |-> 0]
  /\ saved = [r \in Runners |-> Gone]
  /\ own = [r \in Runners |-> Gone]
  /\ m3 = [pc |-> IF M3Mode THEN "sleep" ELSE "off",
           ts |-> 0, saved |-> Gone, own |-> Gone, round |-> 0]

(***************************************************************************)
(* Mutated forms of the operations below: what a plausible bug would make  *)
(* of them.  The specification does not use them.                          *)
(***************************************************************************)
BeginWithoutLock(r) ==
  /\ left[r] > 0
  /\ Goto(r, "next", IF config.m3 THEN "register" ELSE "mkdir")
  /\ ts' = [ts EXCEPT ![r] = now]
  /\ own' = [own EXCEPT ![r] = Gone]
  /\ UNCHANGED <<proc, exit, wg, one, fs, logs, left, saved, m3>>

\* The cleanup is deferred before the error of Mkdir is looked at.
MkdirDefersFirst(r) ==
  \/ /\ Goto(r, "mkdir", "register")
     /\ CanMkdir(ts[r])
     /\ dirs' = dirs \cup {Resolve(ts[r])}
     /\ own' = [own EXCEPT ![r] = Resolve(ts[r])]
     /\ UNCHANGED <<proc, exit, wg, one, cwd, files, zips, logs, left, ts, saved, m3>>
  \/ /\ Goto(r, "mkdir", "remove")
     /\ UNCHANGED <<proc, exit, wg, one, fs, logs, left, frame, m3>>

RegisterNothing(r) ==
  /\ Goto(r, "register", "getwd")
  /\ UNCHANGED <<proc, exit, wg, one, fs, logs, left, frame, m3>>

RestoreToStart(r) ==
  /\ Goto(r, "restore", IF config.onlyCapture THEN "zip" ELSE "remove")
  /\ Chdir(StartDir)
  /\ UNCHANGED <<proc, exit, wg, one, dirs, files, zips, logs, left, frame, m3>>

ReleaseForgotten(r) ==
  /\ Goto(r, "release", "return")
  /\ UNCHANGED <<proc, exit, wg, one, fs, logs, left, frame, m3>>

(***************************************************************************)
(* FullCapture                                                             *)
(***************************************************************************)
Begin(r) ==
  /\ left[r] > 0
  /\ Goto(r, "next", IF config.m3 THEN "register" ELSE "mkdir")
  /\ IF r \in Requests THEN one = Nobody /\ one' = r ELSE UNCHANGED one
  /\ ts' = [ts EXCEPT ![r] = now]
  /\ own' = [own EXCEPT ![r] = Gone]
  /\ UNCHANGED <<proc, exit, wg, fs, logs, left, saved, m3>>

Mkdir(r) ==
  \/ /\ Goto(r, "mkdir", "register")
     /\ CanMkdir(ts[r])
     /\ dirs' = dirs \cup {Resolve(ts[r])}
     /\ own' = [own EXCEPT ![r] = Resolve(ts[r])]
     /\ UNCHANGED <<proc, exit, wg, one, cwd, files, zips, logs, left, ts, saved, m3>>
  \/ /\ Goto(r, "mkdir", "return")
     /\ UNCHANGED <<proc, exit, wg, one, fs, logs, left, frame, m3>>

Register(r) ==
  /\ Goto(r, "register", "getwd")
  /\ wg' = IF config.deferDelete THEN wg + 1 ELSE wg
  /\ UNCHANGED <<proc, exit, one, fs, logs, left, frame, m3>>

\* os.Getwd fails in a directory that has been removed, and may fail elsewhere.
Getwd(r) ==
  \/ /\ Goto(r, "getwd", IF config.m3 THEN "capture" ELSE "chdir")
     /\ cwd # Gone
     /\ saved' = [saved EXCEPT ![r] = cwd]
     /\ own' = IF config.m3 THEN [own EXCEPT ![r] = cwd] ELSE own
     /\ UNCHANGED <<proc, exit, wg, one, fs, logs, left, ts, m3>>
  \/ /\ Goto(r, "getwd", "remove")
     /\ UNCHANGED <<proc, exit, wg, one, fs, logs, left, frame, m3>>

EnterDir(r) ==
  /\ Goto(r, "chdir", IF Resolve(ts[r]) \in dirs THEN "startLog" ELSE "remove")
  /\ Chdir(Resolve(ts[r]))
  /\ UNCHANGED <<proc, exit, wg, one, dirs, files, zips, logs, left, frame, m3>>

\* logger.StartWritingToFile; os.Create may fail, and then there is no agent log.
StartLog(r) ==
  \/ /\ Goto(r, "startLog", "capture")
     /\ cwd # Gone
     /\ stack' = Append(stack, [logger |-> logger, file |-> r])
     /\ logger' = r
     /\ closed' = closed \ {r}
     /\ hasLog' = [hasLog EXCEPT ![r] = TRUE]
     /\ UNCHANGED <<proc, exit, wg, one, fs, left, frame, m3>>
  \/ /\ Goto(r, "startLog", "capture")
     /\ UNCHANGED <<proc, exit, wg, one, fs, logs, left, frame, m3>>

\* The artifacts are created by relative names, whenever their goroutine gets there.
WriteArtifact(r) ==
  /\ Goto(r, "capture", "capture")
  /\ cwd # Gone
  /\ files' = files \cup {[dir |-> cwd, for |-> own[r]]}
  /\ UNCHANGED <<proc, exit, wg, one, cwd, dirs, zips, logs, left, frame, m3>>

Finish(r) ==
  /\ Goto(r, "capture", IF ~config.onlyCapture /\ hasLog[r] THEN "sendLog" ELSE "stopLog")
  /\ UNCHANGED <<proc, exit, wg, one, fs, logs, left, frame, m3>>

\* logger.StopWritingToFile takes the top of the stack, whoever pushed it.
PopLogger(r) ==
  LET top == stack[Len(stack)]
  IN /\ stack # <<>>
     /\ stack' = SubSeq(stack, 1, Len(stack) - 1)
     /\ logger' = top.logger
     /\ closed' = closed \cup {top.file}
     /\ hasLog' = [hasLog EXCEPT ![r] = FALSE]

SendLog(r) ==
  /\ Goto(r, "sendLog", "stopLog")
  /\ PopLogger(r)
  /\ UNCHANGED <<proc, exit, wg, one, fs, left, frame, m3>>

StopLog(r) ==
  /\ Goto(r, "stopLog", "restore")
  /\ IF hasLog[r] THEN PopLogger(r) ELSE UNCHANGED logs
  /\ UNCHANGED <<proc, exit, wg, one, fs, left, frame, m3>>

Restore(r) ==
  /\ Goto(r, "restore", IF config.onlyCapture /\ saved[r] \in dirs THEN "zip" ELSE "remove")
  /\ Chdir(saved[r])
  /\ UNCHANGED <<proc, exit, wg, one, dirs, files, zips, logs, left, frame, m3>>

Zip(r) ==
  /\ Goto(r, "zip", "remove")
  /\ zips' = IF Resolve(ts[r]) \in dirs
             THEN zips \cup {[dir |-> Resolve(ts[r]), for |-> own[r]]} ELSE zips
  /\ UNCHANGED <<proc, exit, wg, one, cwd, dirs, files, logs, left, frame, m3>>

Remove(r) ==
  /\ Goto(r, "remove", "release")
  /\ IF config.deferDelete THEN RemoveTree(Resolve(ts[r])) ELSE UNCHANGED <<cwd, dirs, files>>
  /\ awaited' = awaited \ {r}
  /\ UNCHANGED <<proc, phase, waiter, wg, one, zips, logs, left, frame, m3>>

\* Wg.Done; the one that brings the counter to 0 releases the waiter.
Release(r) ==
  /\ Goto(r, "release", "return")
  /\ wg' = IF config.deferDelete THEN wg - 1 ELSE wg
  /\ waiter' = IF config.deferDelete /\ wg = 1 /\ waiter = "waiting" THEN "woken" ELSE waiter
  /\ UNCHANGED <<proc, phase, awaited, one, fs, logs, left, frame, m3>>

Return(r) ==
  /\ Goto(r, "return", "next")
  /\ left' = [left EXCEPT ![r] = @ - 1]
  /\ one' = IF one = r THEN Nobody ELSE one
  /\ own' = [own EXCEPT ![r] = Gone]
  /\ UNCHANGED <<proc, exit, wg, fs, logs, ts, saved, m3>>

FullCapture(r) ==
  \/ Begin(r) \/ Mkdir(r) \/ Register(r) \/ Getwd(r) \/ EnterDir(r) \/ StartLog(r)
  \/ WriteArtifact(r) \/ Finish(r) \/ SendLog(r) \/ StopLog(r) \/ Restore(r)
  \/ Zip(r) \/ Remove(r) \/ Release(r) \/ Return(r)

(***************************************************************************)
(* The action API: a request arrives, and its goroutine captures one       *)
(* process after the other, taking and releasing `one` for each.           *)
(***************************************************************************)
Arrive(r) ==
  /\ config.port /\ r \in Requests
  /\ Goto(r, "off", "next")
  /\ left' = [left EXCEPT ![r] = PidsPerRequest]
  /\ UNCHANGED <<proc, exit, wg, one, fs, logs, frame, m3>>

Respond(r) ==
  /\ r \in Requests
  /\ left[r] = 0
  /\ Goto(r, "next", "done")
  /\ UNCHANGED <<proc, exit, wg, one, fs, logs, left, frame, m3>>

(***************************************************************************)
(* The m3 loop: RunSingle makes a directory, collects in it, posts m3-fin  *)
(* and captures, still inside that directory, what the response asks for.  *)
(***************************************************************************)
M3Goto(from, to) == /\ Alive
                    /\ m3.pc = from
                    /\ m3' = [m3 EXCEPT !.pc = to]

\* Two rounds are M3Frequency (3 minutes by default) apart.
M3Begin ==
  /\ Alive
  /\ m3.pc = "sleep" /\ m3.round < MaxRounds /\ now > m3.ts
  /\ m3' = [m3 EXCEPT !.pc = "mkdir", !.ts = now, !.round = @ + 1]
  /\ UNCHANGED <<proc, exit, wg, one, fs, logs, pc, left, frame>>

M3Mkdir ==
  \/ /\ Alive
     /\ m3.pc = "mkdir"
     /\ CanMkdir(m3.ts)
     /\ dirs' = dirs \cup {Resolve(m3.ts)}
     /\ m3' = [m3 EXCEPT !.pc = "getwd", !.own = Resolve(m3.ts)]
     /\ UNCHANGED <<proc, exit, wg, one, cwd, files, zips, logs, pc, left, frame>>
  \/ /\ M3Goto("mkdir", "sleep")
     /\ UNCHANGED <<proc, exit, wg, one, fs, logs, pc, left, frame>>

M3Getwd ==
  /\ Alive
  /\ m3.pc = "getwd"
  /\ \/ m3' = [m3 EXCEPT !.pc = "remove"]
     \/ cwd # Gone /\ m3' = [m3 EXCEPT !.pc = "chdir", !.saved = cwd]
  /\ UNCHANGED <<proc, exit, wg, one, fs, logs, pc, left, frame>>

M3EnterDir ==
  /\ M3Goto("chdir", IF Resolve(m3.ts) \in dirs THEN "collect" ELSE "remove")
  /\ Chdir(Resolve(m3.ts))
  /\ UNCHANGED <<proc, exit, wg, one, dirs, files, zips, logs, pc, left, frame>>

M3WriteArtifact ==
  /\ M3Goto("collect", "collect")
  /\ cwd # Gone
  /\ files' = files \cup {[dir |-> cwd, for |-> m3.own]}
  /\ UNCHANGED <<proc, exit, wg, one, cwd, dirs, zips, logs, pc, left, frame>>

\* RequestFin and its response; Top4M3 sleeps between its rounds, so collecting
\* takes longer than a second.
M3Fin ==
  /\ now > m3.ts
  /\ \/ /\ M3Goto("collect", "restore")
        /\ UNCHANGED <<pc, left>>
     \/ \E n \in 0..MaxFinPids :
          /\ M3Goto("collect", "process")
          /\ pc' = [pc EXCEPT ![Loop] = "next"]
          /\ left' = [left EXCEPT ![Loop] = n]
  /\ UNCHANGED <<proc, exit, wg, one, fs, logs, frame>>

M3Processed ==
  /\ M3Goto("process", "restore")
  /\ pc[Loop] = "next" /\ left[Loop] = 0
  /\ pc' = [pc EXCEPT ![Loop] = "off"]
  /\ UNCHANGED <<proc, exit, wg, one, fs, logs, left, frame>>

M3Restore ==
  /\ M3Goto("restore", "remove")
  /\ Chdir(m3.saved)
  /\ UNCHANGED <<proc, exit, wg, one, dirs, files, zips, logs, pc, left, frame>>

M3Remove ==
  /\ Alive
  /\ m3.pc = "remove"
  /\ m3' = [m3 EXCEPT !.pc = "sleep", !.own = Gone]
  /\ IF config.deferDelete THEN RemoveTree(Resolve(m3.ts)) ELSE UNCHANGED <<cwd, dirs, files>>
  /\ UNCHANGED <<proc, exit, wg, one, zips, logs, pc, left, frame>>

RunSingle ==
  \/ M3Begin \/ M3Mkdir \/ M3Getwd \/ M3EnterDir \/ M3WriteArtifact \/ M3Fin
  \/ M3Processed \/ M3Restore \/ M3Remove

(***************************************************************************)
(* The end of the process: a signal or the end of the on-demand loop, then *)
(* Shutdown: Wg.Wait and the removal of the temporary executables.         *)
(***************************************************************************)
Signal ==
  /\ phase = "running"
  /\ phase' = "draining"
  /\ UNCHANGED <<proc, waiter, awaited, wg, one, fs, logs, pc, left, frame, m3>>

MainCompleted ==
  /\ phase = "running"
  /\ OnDemandMode /\ pc[Main] = "next" /\ left[Main] = 0
  /\ phase' = "draining"
  /\ UNCHANGED <<proc, waiter, awaited, wg, one, fs, logs, pc, left, frame, m3>>

Registered(r) == config.deferDelete /\ pc[r] \in
  {"getwd", "chdir", "startLog", "capture", "sendLog", "stopLog", "restore", "zip", "remove"}

Wait ==
  /\ phase = "draining" /\ waiter = "none"
  /\ IF wg = 0 THEN phase' = "cleaning" /\ waiter' = waiter
               ELSE phase' = phase /\ waiter' = "waiting"
  /\ awaited' = {r \in Runners : Registered(r)}
  /\ UNCHANGED <<proc, wg, one, fs, logs, pc, left, frame, m3>>

\* sync.WaitGroup panics when it was reused before the woken Wait returned.
Wake ==
  /\ phase = "draining" /\ waiter = "woken"
  /\ phase' = IF wg = 0 THEN "cleaning" ELSE "panicked"
  /\ UNCHANGED <<proc, waiter, awaited, wg, one, fs, logs, pc, left, frame, m3>>

Exit ==
  /\ phase = "cleaning"
  /\ phase' = "exited"
  /\ UNCHANGED <<proc, waiter, awaited, wg, one, fs, logs, pc, left, frame, m3>>

Tick ==
  /\ Alive /\ now < MaxTime
  /\ now' = now + 1
  /\ UNCHANGED <<config, exit, wg, one, fs, logs, pc, left, frame, m3>>

Ended == ~Alive /\ UNCHANGED vars

Shutdown == Wait \/ Wake \/ Exit

Next ==
  \/ \E r \in Runners : FullCapture(r) \/ Arrive(r) \/ Respond(r)
  \/ RunSingle
  \/ Signal \/ MainCompleted \/ Shutdown \/ Tick \/ Ended

Spec == Init /\ [][Next]_vars

(***************************************************************************)
(* Fairness: a goroutine that can run is scheduled; a capture's commands   *)
(* end (each is bounded or waits for a process that is); the clock goes    *)
(* on.  Nothing makes a request arrive or a signal be sent, nor a capture  *)
(* or a round of the m3 loop begin, nor an artifact be written.            *)
(***************************************************************************)
Proceed(r) ==
  \/ Mkdir(r) \/ Register(r) \/ Getwd(r) \/ EnterDir(r) \/ StartLog(r) \/ Finish(r)
  \/ SendLog(r) \/ StopLog(r) \/ Restore(r) \/ Zip(r) \/ Remove(r) \/ Release(r)
  \/ Return(r) \/ Respond(r)

M3Proceed == M3Fin \/ M3Processed \/ M3Restore \/ M3Remove

Fairness ==
  /\ \A r \in Runners : WF_vars(Proceed(r))
  /\ WF_vars(M3Proceed) /\ WF_vars(Shutdown) /\ WF_vars(Tick)

FairSpec == Spec /\ Fairness

(***************************************************************************)
(* Properties                                                              *)
(***************************************************************************)
CaptureStates == {"mkdir", "register", "getwd", "chdir", "startLog", "capture",
                  "sendLog", "stopLog", "restore", "zip", "remove", "release", "return"}

Capturing(r) == pc[r] \in CaptureStates
Quiet == (\A r \in Runners : ~Capturing(r)) /\ m3.pc \in {"off", "sleep"}

\* Either the API serves requests alone, or it is not on: the modes agent.Run
\* calls standalone.
StandaloneMode == config.port => ~OnDemandMode /\ ~config.m3

TypeOK ==
  /\ config \in Config
  /\ now \in Nat /\ wg \in Nat
  /\ phase \in {"running", "draining", "cleaning", "exited", "panicked"}
  /\ waiter \in {"none", "waiting", "woken"}
  /\ awaited \subseteq Runners
  /\ one \in Requests \cup {Nobody}
  /\ cwd \in Path \cup {Gone} /\ dirs \subseteq Path
  /\ files \subseteq [dir : Path, for : Path \cup {Gone}]
  /\ zips \subseteq [dir : Path, for : Path \cup {Gone}]
  /\ logger \in Runners \cup {Nobody}
  /\ stack \in Seq([logger : Runners \cup {Nobody}, file : Runners])
  /\ closed \subseteq Runners
  /\ pc \in [Runners -> CaptureStates \cup {"off", "next", "done"}]
  /\ left \in [Runners -> Nat] /\ ts \in [Runners -> Nat]
  /\ saved \in [Runners -> Path \cup {Gone}] /\ own \in [Runners -> Path \cup {Gone}]
  /\ hasLog \in [Runners -> BOOLEAN]
  /\ m3 \in [pc : {"off", "sleep", "mkdir", "getwd", "chdir", "collect", "process",
                   "restore", "remove"},
             ts : Nat, saved : Path \cup {Gone}, own : Path \cup {Gone}, round : Nat]

\* "only one goroutine can run the capture process" (the comment on the mutex
\* `one` of the action API): no two captures are in progress together.
OneCapture == \A r, s \in Runners : Capturing(r) /\ Capturing(s) => r = s

\* An artifact is created by a relative name in whatever the process's working
\* directory is at that moment; it lands in the directory its capture made.
ArtifactsInOwnDir == \A f \in files : f.dir = f.for

\* With -d every directory on disk belongs to a capture that will still remove
\* it: the deferred removal resolves its relative name where Mkdir resolved it.
NoOrphanDir ==
  config.deferDelete /\ Alive =>
    \A d \in dirs \ {StartDir, StorageDir} :
      \/ m3.own = d
      \/ \E r \in Runners : own[r] = d /\ Capturing(r) /\ pc[r] \notin {"release", "return"}

\* Between captures the process is back in the directory it was started in,
\* whatever path a capture returned by.
CwdRestored == Quiet => cwd = StartDir

\* The agent log of a capture is the current logger, and its file open, from
\* StartWritingToFile to StopWritingToFile; with no such capture the root logger is.
AgentLogIsOwn ==
  /\ \A r \in Runners : hasLog[r] => logger = r /\ r \notin closed
  /\ (\A r \in Runners : ~hasLog[r]) => logger = Nobody /\ stack = <<>>

\* -onlyCapture: no artifact is removed before it is zipped, and a zip file is
\* made from its capture's own directory.
ZipOfOwnDir ==
  /\ \A z \in zips : z.dir = z.for
  /\ \A r \in Runners :
       config.onlyCapture /\ pc[r] = "remove" /\ (\E f \in files : f.for = own[r])
         => \E z \in zips : z.for = own[r]

\* The m3 loop works inside its own directory from Chdir to the way back, and
\* the captures it makes for m3-fin neither leave that directory nor remove it.
SessionInItsDir ==
  m3.pc \in {"collect", "process", "restore"} => m3.own \in dirs /\ cwd = m3.own

\* Directories, working directory, log and zip file are each capture's own, on
\* every path, whatever the m3 loop and m3-fin's captures leave behind them.
EachInItsPlace ==
  /\ ArtifactsInOwnDir /\ NoOrphanDir /\ CwdRestored
  /\ AgentLogIsOwn /\ ZipOfOwnDir /\ SessionInItsDir

\* A capture that was registered in ondemand.Wg when Shutdown began to wait has
\* removed its directory before the process goes on to exit.
ExitAfterCleanup == phase \in {"cleaning", "exited"} => awaited = {}

\* A shutdown ends the process: no capture keeps Wg from reaching zero.
ShutdownCompletes == phase = "draining" ~> ~Alive
==============================================================================
