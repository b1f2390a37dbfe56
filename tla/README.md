# A verification project for yc-data-script

`yc` is an agent that collects diagnostic data of Java processes and of the host: thread dumps, GC
and application logs, heap dumps, `top`, `ps`, `vmstat` and so on. It writes them as files into a
directory it makes, and uploads them or leaves them in a zip file. These TLA+ modules model the part
of it where goroutines, external commands, timers, signals and the file system meet, and the C programs
that are linked into the agent, which it runs as commands of its own: the attach client, `vmstat` and
`top` with the procps libraries below them. TLC checks the modules on small instances, and TLAPS proves
some of the properties for all instances.

Paths below are relative to `src/internal/` unless they start with `src/`.

## 1. The system

| Component | State | Operations | Interacts with | What is hard | Properties |
|---|---|---|---|---|---|
| Agent process, modes, shutdown (`agent/agent.go`, `cli/cli.go`) | which goroutines exist, `ondemand.Wg`, the signal | `Run`, `Shutdown`, `runToCompletionOrSigterm` | all captures | a signal at any point of a capture; what is and is not registered in `Wg` | `ExitAfterCleanup`, `ShutdownCompletes` |
| On-demand capture (`agent/ondemand`) | capture directory, working directory, agent log, deferred functions | `ProcessPids`, `FullCapture`, `ZipFolder` | working directory and logger of the whole process | early returns run a different set of deferred functions; relative paths; one working directory for all | `EachInItsPlace` (`ArtifactsInOwnDir`, `NoOrphanDir`, `CwdRestored`, `ZipOfOwnDir`) |
| m3 loop (`agent/m3/m3.go`) | the round's directory, `AppLogM3.readStats` | `RunSingle`, `captureAndTransmit`, `processM3FinResponse` | `FullCapture`, called inside the round | nested captures save and restore the directory of the round | `EachInItsPlace` (`SessionInItsDir`, `NoOrphanDir`) |
| Action API (`agent/api`) | mutex `one`, the result list, the response | `Action`, `handleActionAPI`, `parseActions`, `validateActionAPIParseResult`, `ProcessPidsWithMutex` | `FullCapture` | concurrent requests; a response that one goroutine fills and another one encodes; results kept by process, actions by position | `AnsweredAsCaptured` (`OneAtATime`, `WaitedIsComplete`, `ErrorCapturesNothing`), `EveryRequestServed`, `OneCapture` |
| Logger (`logger/logger.go`) | current logger, `loggerStack` | `StartWritingToFile`, `StopWritingToFile` | every capture | a stack shared by captures that do not nest | `EachInItsPlace` (`AgentLogIsOwn`) |
| Task orchestration (`capture/capture.go`, the starts and reads of `FullCapture`) | one channel and one wait group per task, `Cmd` | `GoCapture`, `WrapRun`, `WaitWaitGroup`, `Kill` | all tasks | unbuffered results read in a fixed order, a task that waits for another one, `Cmd` read without synchronisation, a panic in a goroutine | `AllEnd` (`ResultsReceived`, `GoroutinesEnd`), `QuietWhenRead`, `WaitedForVmstat` |
| Captures of one command, with a second one (`top`, `vmstat`, `dmesg`, `kernel`, `ping`) | output file, `Cmd` | create, start, wait, validate, reset, second command, upload | external commands | any step fails; the second command's file must not hold the first one's output | `OutputOfOneCommand`, `FallbackTried` |
| Bounded command (`capture/executils`) | worker goroutine, timer, process, output pipe | `CommandCombinedOutputToWriter`, `KillAndWait` | external commands | the timer races the answer; two `Wait`s of one command; late output | `EndsWithItsWorkers` |
| Captures made of sections (`ps`, `netstat`, `hdsub`, `disk`) | one file for all sections | `CaptureToFile`, `executeJcmd`, `netStat` | bounded command | fallbacks after partial output; workers that write late | `FileAsSectioned` (`InOrderUnderHeaders`, `EverySectionTried`, `OneCommandThroughout`) |
| Thread dump (`capture/thread.go`, `jstack.go`, `top.go`) | queues `b1 b2 e1 e2`, `javacore.<n>.out`, `topdashH.<n>.out` | `JStack.Run`, `captureFromProcess` | two goroutines, bounded commands, the shell | a goroutine that gives up in the middle; files of an earlier process in the same directory | `AllEnd` (`CaptureEnds`, `GoroutinesEnd`), `ThreadDumpWhole` (`HoldsEveryRound`, `TopHComplete`) |
| Incremental log capture (`capture/applogm3.go`) | `readStats` | `CaptureSingleAppLog` | an application that appends and rotates | the file changes between `Stat`, `Open` and `Copy`; a seek that fails starts over; uploads fail | `InOrderOnce`, `PositionInFile`, `TailSpec`, `NothingMissed` |
| GC log (`capture/gc.go`, `uploadGCLogM3`) | `gcPath`, the created file | `ProcessGCLogFile`, `findLatestFileInRotatingLogFiles`, `GC.Run`, `captureGC` | a JVM that rotates its log; jstat, jattach, docker | names, indices and times order the files differently; the directory changes between two looks at it | `NewestOrTools` (`NewestPosted`, `ToolsTried`), `LogInOrder` (`RotationInOrder`) |
| Attach client (`capture/ycattach/posix`) | trigger file; lock, replyInfo, semaphore and port of OpenJ9 | `jattach1`, `jattach2` for HotSpot and OpenJ9 | a JVM, and other clients of it | files that clients share with one another and with the JVM; a client that gives up or is killed | `SharedWithTheJvm`, `CommandToItsReader`, `SuccessIsAnswered`, `AttachEnds` |
| procps libraries (`capture/procps/linux`: `stat.c`, `diskstats.c`, `slabinfo.c`, `meminfo.c`, `proc_vmstat.c`) | old and new sample, extents of results, reference count | new, ref, unref, get, select, reap, sort | `/proc` | items, cpus and devices that change between calls; a read that fails; differences that go below zero | `ResultsFit`, `ChangesAreReal`, `MemWithinTotal`, `GetReadsAgain` |
| `vmstat` (`vmstat.c`) | options, handles, loop counters | the modes of the program | the libraries | the count with and without the first line; headers; devices that leave | `CountsAsAsked`, `LinesOfNow`, `VmstatEnds` |
| Task listing (`readproc.c`, `pids.c`) | the open directories, history, rows and their strings | open, read and close of a scan; new, unref, fetch, reap, select, sort, reset | `/proc` | tasks end and ids are used again during a scan; who frees a string | `RowsAndStringsKept`, `EachProcessOnce` |
| `top` (`top.c`, batch mode) | options, contexts, columns, times of the last refreshes | `parse_args`, `frame_make`, the refreshes, signal handlers, exits | the libraries, signals | usage is a difference over two refreshes; a frame that is repeated; a cpu that comes or goes | `UsageOfTheFrame`, `FramesEnd` |
| Log tail, heap dump, extended data | files | one `Run` each | bounded command | position arithmetic, cleanup paths | planned, section 7 |
| Configuration, attendance, Boomi, process and Docker discovery, Java version, result table | none afterwards | parsing, HTTP | | | not modelled, section 8 |

## 2. Modules

    Agent ── AgentProofs      LogTail <─ AppLogM3 ── AppLogM3Proofs     Tasks ── TasksProofs
      └ MCAgent               (abstract)    └ MCAppLogM3                  └ MCTasks
    ActionApi ── ActionApiProofs    Command <─ Sections ── SectionsProofs    Attach ── NativeProofs
      └ MCActionApi                              └ MCSections                  └ MCAttach
    ThreadDump ── ThreadDumpProofs       GC ── GCProofs
      └ MCThreadDump                       └ MCGC

    Stacks <─ ProcStat ────────────┬─ ProcFiles <─ ProcLib ┬─ NativeProofs    ReadProc <─ Pids ─┐
           <─ Diskstats, Slabinfo ─┤      ^         └ MCProcLib               ProcStat, Meminfo ┴─ Top
              Meminfo, ProcVmstat ─┘      └─ VMStat ───────┘                                         └ MCTop
                                               └ MCVMStat

The modules split the system at places where one side is a single step of the other: in `Agent` all
that `FullCapture` collects is one action that writes an artifact into whatever the working directory
is at that moment; `Tasks` is the inside of that action, seen from the goroutines; `Sections`,
`ThreadDump`, `GC` and `AppLogM3` are the inside of one task. `ActionApi` is what surrounds `FullCapture`
in a request; `Agent` keeps of it that a request takes `one`, captures and releases. Next to most
operations stands a *mutated form*, a small change a plausible bug would make; the specifications do not
use them, and each property is shown to fail with one of them in the place of its original.

**Agent.** One runner per goroutine that can run `FullCapture`: `Main` (on-demand), `Loop` (m3),
and the `Requests` of the action API; `config` holds the flags, any of `Flags`, and with them the mode.
`pc[r]` walks through `FullCapture` in the order of its code; every `return` of the code is an edge that
enters the deferred functions at the right place (`SendLog` → `StopLog` → `Restore` → `Zip` → `Remove` →
`Release`). `cwd`, `dirs`, `files` and `zips` are the file system, with paths resolved against `cwd` as
the code does; `logger`, `stack` and `closed` are `logger.go`; `wg`, `waiter` and `awaited` are
`ondemand.Wg` with the panic of `sync.WaitGroup` when it is used again before `Wait` returned; `one` is
the mutex. `m3` is the frame of `RunSingle`, which runs `FullCapture` on `Loop` for what m3-fin asked.

**ActionApi.** `handler[q]` is the goroutine of net/http, `worker[q]` the one that `handleActionAPI`
starts. Parsing chooses what an action may stand for: a process, the ones a search finds, none, or an
operation that is not supported. `results` is the map by process id, `next` the position in the list, and
`Populate` the loop over the map that fills `resp`, in any order and beside `Encode` when the request does
not wait.

**LogTail / AppLogM3.** `LogTail` is what incremental capture promises: a cursor per file that
moves forward over entries that are delivered in order or dropped with a failed upload, and moves back
only to start over from the beginning (`Restart`). `AppLogM3` is `CaptureSingleAppLog`: `Stat`, `OpenLog`,
`CopyPosition` (the rotation test and the seek), `Copy`, `Post`, each of them able to fail, against an
application that appends and rotates by renaming or by truncation. A seek that fails has a path of its
own (`applogm3.go:129`): the file is read again from its beginning, "even if some may be duplicated".
`Copy` takes it when `sought` is false, and the history variable `restarts` remembers how much of the file
had been delivered then, so that the properties allow a repetition there and nowhere else.
`Tail_ == INSTANCE LogTail WITH ...` is the refinement; a batch counts as dealt with when it is posted,
and a failed seek is the cursor's `Restart`.

**Command / Sections.** `Command` is `CommandCombinedOutputToWriter`: `worker[c]` is the goroutine of call
`c`, `caller` the select and `KillAndWait`. `exec.Cmd.Wait` is modelled from how Go 1.23 documents and
implements it, because both sides call it: the first to reap the process gets its state, and one value
ends the copying of the output. Workers of calls that timed out go on beside later calls. `Sections`
extends it with what ps, netstat, hdsub and df have in common: a file, its sections, a header for each,
and the attempts for each. They differ in what a failure means: ps clears the file and keeps its second
command for the rest, netstat goes on with its own reading of `/proc`, hdsub goes on with the next
section, df gives up.

**ThreadDump.** The loop of `JStack.Run` with its two goroutines and four queues, for `Pids` processes
one after the other in the same directory, as in a round of the m3 loop. `cat javacore.*` takes the
files of the directory in the order of the shell.

**Tasks.** `pc[t]` is the goroutine of `GoCapture`/`WrapRun` for task `t`, and of the `Run` of `top`,
`vmstat`, `dmesg`, `kernel` and `ping`; the others (gc, netstat, thread dump, ...) are one step.
`StartOrder` and `ReadOrder` are the orders of `FullCapture`; a result is received when it is sent
because the channels are not buffered. `Look` reads `Cmd` without synchronisation, so it may miss an
assignment. A panic runs `WrapRun`'s deferred function first, and so ends the process only after the
result was received.

**GC.** `dir` is the log's directory, `Rotate` and `OpenLog` the JVM, which names its files in the manner
of HotSpot 8 (`gc.log.<n>.current`) or of unified logging (`gc.log`); a file's content is the generation
it began with. The capture goes from the path found to a glob, a second glob, the `Lstat` of each match,
the copy, and the search for a previous and a current file, and the JVM may rotate between any two of
these. `NeedsTool` is where `GC.Run` and `uploadGCLogM3` differ. `pidPassed` says whether the pid is above 0:
`FullCapture` starts `GC.Run` for any pid (`ondemand.go:280`), and without a process it reaches nothing below
`/proc/<pid>/root` (`Reached`) and runs no tool (`gc.go:41`); the m3 loop and docker always have one.

**Attach.** `jattach1` (namespaces and credentials) and `jattach2` for both kinds of JVM. `pc[c]` goes
through the client's calls in the order of its code, with the cleanup of each error path as further
states; `triggers`, `attachLock`, `sync`, `reply` and `sem` are what lies in the file system and in the
kernel and is shared by all clients and JVMs; `Kill` is a client that is killed, after which the kernel
drops its locks and sockets and leaves the rest. The JVM's side (`HandleQuit`, `Wake`, `ReadReply`,
`ConnectBack`, `Answer`, `Wither`) is external and modelled from how the client uses it.

**Stacks, ProcStat, Diskstats, Slabinfo, Meminfo, ProcVmstat.** One module per procps library, each a
set of operators from a handle and the file under `/proc` to the handle and the result of a call, so
that several programs can use them. `Stacks` is the management of results that the libraries repeat:
extents, anchor and the delimited copy. A file is its status (fine, unreadable, short, garbled), its
lines and their values; fields that the code treats alike are a few. Tics that were never written are
`Junk`. **ProcLib** is a caller that makes any calls in any order while the file changes and seconds pass.
`ProcFiles` puts the libraries together, and its `FileOk` says what they can find: a file of another shape is one with a line that the library does
not understand, which its status says. `reads` keeps what the last three reads of the file found, and
`goodAt` when one succeeded; a second handle of a caller, a `Ref` and an `Unref` are calls like the others.

**VMStat.** The program over these libraries: an action per option, library call, line and sleep;
`hist` is what was printed, and what it must add up to.

**ReadProc, Pids, Top.** `ReadProc` is a scan of `/proc` as a state machine of its own: `ScanStep` takes
it to just after its next look at the kernel, so that tasks run, start and end between any two
reads, and an id may be used again (a task's `born` tells the two apart). `live` counts its strings.
`Pids` is the handle above it: items and the files they need, rows and the strings they own, the
history's two samples, and the fetch that grows all of them. `Top` is the program in batch mode:
`ParseArg`, `ZapFieldstab` and the column reset, `TasksRefresh` with a step per read of the scan,
`CpusRefresh` and `MemoryRefresh`, `Show`, the countdown, the sleep, and `SigTerm` and `SigResize` at
any of these.

## 3. Runs

| Run | Instance | What it shows |
|---|---|---|
| `AgentModes` | two on-demand processes, two m3 rounds in which m3-fin asks for up to two captures, or two API requests; every flag; a signal at any moment; 3 seconds of clock | captures do not overlap; directories, working directory, agent log, zip file and cleanup are right on every path; a shutdown ends |
| `ActionApi` | two requests, waited for or not, with a process named twice, two processes, a search, an unsupported operation | captures never overlap; a response that was waited for is complete and pairs results with actions; an error means nothing runs; every request is served |
| `AppLog` | two files of up to 3 entries, one of them rotated once between captures, a failed seek | nothing twice or out of order, except across a failed seek; the file that is only appended to implements `LogTail` |
| `Sections` | each of the four kinds, with up to 6 calls of which one may time out; the kill may be refused | what the uploaded file holds, section by section; the capture ends and its workers with it |
| `TDCapture` | two processes, two rounds each | the goroutines stay in step and end; the files are complete and in order |
| `Tasks` | top, vmstat, dmesg and one task without a command | all results are read, all goroutines end, nothing runs afterwards, what is posted is one command's output |
| `GC` | both naming schemes with three indices and six generations; host, root and docker; a path, a pattern or none; a process or none | which file is posted, and in which order two are; when jstat and jattach take its place |
| `Attach` | two clients and two JVMs' directories, one port; either protocol, from inside or outside the JVM's namespaces; every call may fail, a client may be killed, the JVM may stop or die | what is shared is cleaned up, commands go to the JVM that read the client's key, success means an answer, every attach ends |
| `ProcLib` | each of five libraries: four calls in any order, two changes of the file, three seconds | results have room; changes are those of the named cpu or disk; derived memory stays within its total; a get after a failed read reads again |
| `VMStat` | 26 command lines, windows of 5 and of 3 rows, two changes of the files, late sleeps | columns add up, as many lines as asked, devices that exist, headers in view, and an end |
| `Top` | ten command lines, two processes with three tasks, two events of the kernel (a task runs, starts, ends; a cpu comes or goes), one SIGWINCH, SIGTERM | rows have room and strings one owner; usage is that of the frame; no process is missed or twice; the frames asked for are shown and end it |
| `AppLogMissed` (a violation) | one file, six entries, one rotation | a disagreement of code with a comment, section 6 |

A property that is a conjunction (`EachInItsPlace`, `FileAsSectioned`, `ThreadDumpWhole`,
`AnsweredAsCaptured`, `LogInOrder`, `NewestOrTools`, `SharedWithTheJvm`, `CountsAsAsked`, `LinesOfNow`,
`RowsAndStringsKept`, `AllEnd`) has its parts as named definitions right above it; TLC checks all of
them in one pass.

**Why the bounds are enough.** Interference in `Agent` is between two captures: two runners, two
captures in a row and two rounds show every pair of neighbours, nesting included. The clock has fewer
seconds than there are directories to make, so that names both collide and do not. The modes are taken
one at a time (`OneMode`); `-onlyCapture` is combined with the on-demand and m3 modes, as it changes only
the end of a capture. `ActionApi` has two requests and two processes: one request to hold the mutex and
one to wait, one process to be named twice and one to be reported beside it; a forwarded request carries
no actions. In `AppLog` the rotation
test compares two sizes; three entries allow a smaller, an equal and a larger size before and after a
capture. One rotation and one restart (`MaxRestarts`) meet in either order; the proofs are for any number of
both. In `Sections` ps has three snapshots, the first of which decides, netstat and hdsub two sections (hdsub
has four alike) and df its one; six calls are the most that two sections of three attempts need; one call that times out leaves a
worker to meet all later ones. Two rounds of two processes give `ThreadDump` a first, a last and an
inherited file; `Count <= 9` in `HoldsEveryRound` is the limit of the shell's order and not of the model.
`Tasks` needs each kind of task once: with a second command and panic (vmstat), with a second command
(top), waiting (dmesg), and opaque (gc). In `GC` three indices have a previous file below the current one,
one around the end and one that is neither; six generations go around twice.

`Attach` needs a second client to take a lock, a port or a trigger away, and a second JVM's directory to
be woken for nothing; two polls let a client give up before or after the other (24 in the code). In
`ProcLib` arrays that grow by 64, 128 or 30 in the code grow by one or two, so that they grow within
four calls: an old sample, a new one, a change between them and a failure. `VMStat`'s clock and loop
bounds stop the runs without a count, and only those; counters wrap at 8 so that they do wrap. In `Top`
rows and history begin with one place and grow by one; four ids let a pid be used again within
two events; a frame is a second apart, and 13 seconds end the run that is not asked for frames.
The integer widths are scaled down by constants (`UInt`, `UIntMax`, `ULong`, `IntMax`), and the code that depends on
them uses these.

`CHECK_DEADLOCK FALSE` stands in the configurations of `Sections`, `TDCapture`, `ActionApi`, `GC`, `Attach`,
`ProcLib` and `VMStat`: those models end with the capture, the requests, the attach or the program, and
in `Sections` the call may hang (section 6). In `AgentModes`, `AppLog`, `Tasks` and `Top` the end is a step of
its own, and every other deadlock is an error.

## 4. Fairness

* A goroutine that can run is scheduled: weak fairness of each one's steps, everywhere.
* `Agent`: the clock goes on. A capture ends (weak fairness of `Finish`); that a bounded command may hang
  (section 6) is the reason this stays an assumption. Nothing makes a request arrive or take the
  mutex, a signal come or an artifact be written: a shutdown has to end without them.
* `ActionApi`: strong fairness of `Lock`: `sync.Mutex` hands itself over to a waiter after a millisecond
  (its starvation mode). A capture ends, and so does a forwarded request.
* `Sections`: commands and their descendants end by themselves; the timer need not fire.
* `ThreadDump`: an attempt ends; it is bounded by a timer, or waits for a command that ends.
* `Attach`: each client runs, and a HotSpot JVM that is up answers what it accepted; nothing makes an OpenJ9
  JVM wake up, as its clients time out. `AttachEnds` leaves out HotSpot JVMs that stop: that wait has no
  timeout.
* `VMStat`, `Top`: the program is scheduled. It is written as "again and again a step of the program, or it is
  done or at a bound of the clock", which is weak fairness of the program's steps without `ENABLED` of them.
* `Tasks`: only that something happens while something can; no step repeats, so this is enough for
  termination, and it is implied by fairness of every goroutine and of every command.

## 5. What is proved

The proofs hold for every value of the constants that satisfies the modules' `ASSUME`s.

**AgentProofs.** `TypeCorrect`: the interesting conjunct is `wg \in Nat`; a negative counter would panic. It
is not inductive alone. `TypeInv` adds `WgCounts` (the counter is the number of captures between `Add` and
`Done`), `LeftCounts` (a capture in progress has a process left to count down) and `LoopOff` (`Loop` captures
only while the round processes m3-fin). `OneCaptureAtATime`: in the standalone modes no two captures overlap.
`OneInv` adds `ModesOff` (goroutines of other modes never start: requests only with `-port`, rounds only with
`-m3`) and `HoldsOne` (a request captures exactly while it holds `one`). The premise `StandaloneMode` is
needed: beside an on-demand capture or a round, requests do overlap with it (section 6). `ExitsAfterCleanup`,
in every mode: `AwaitedInv` keeps what `Wg.Wait` found registered on its way to `Done`, and `NoneRegistered`
makes of a counter of zero that no capture is registered. `EachStaysInItsPlace`: `EachInItsPlace` in the
standalone modes. The difficulty is that paths are resolved against a working directory all goroutines share.
`PlaceInv` says where it is (`CwdInv`: in the directory of the capture that is inside it, else in the round's,
else where the process was started), what a capture may rely on from one step to the next (`OwnDirInv`: it
came from the start directory and will go back there; its directory is new and no file of an earlier capture
of that second is in it), that the loggers on the stack are those of captures that have one (`LogInv`), and
that every directory belongs to a capture or a round that will remove it (`DirsInv`). A capture of the m3
mode stays where it is (`StayingInv`), on demand in the start directory, in a round in the round's. Steps are
proved about two simpler forms, `AloneInv` (one capture, no rounds) and `SessionInv` (m3), which `PlaceInv`
comes to in the two cases.

**AppLogM3Proofs.** `TypeCorrect` needs that a copy in progress has a record (`CopiesTracked`).
`OnceWhenRotationsFallBetweenCaptures`: with `RotateAnytime = FALSE` no entry is handed over twice or
out of order, unless a failed seek made the capture of its file start over between the two. `OnceInv` says
where what was handed over since the last such restart (`UpTo`) ends: before the present file's base, or
at the recorded position with the recorded size not beyond it (`ReadSoFar`), and that a capture in
progress starts after it (`CaptureAhead`); at a restart nothing has been handed over since, and
`RestartsInside` keeps every restart within what was delivered. The premise is needed: a truncation between `Stat` and the
copy makes the code read entries again. `PositionStaysInFile` and `ImplementsLogTail` (initial states
to initial states, each step to a step of `LogTail` or a stutter; a copy after a failed seek to `Restart`)
are for files that are never rotated, whatever happens to the others.

**TasksProofs.** `TaskInv(t)` ties, for one task, the wait group, the command, the file and the result
to the point its goroutine is at. From it: `TypeCorrect` (no wait group below zero), `QuietAfterReads`,
`PostsOneCommand` and `WaitsForResult`: when dmesg has seen vmstat's `Cmd`, vmstat is past
`InitWaitGroup`, so a wait group at zero means that it is past `DoneWaitGroup`, and its result received.
`TriesSecondCommand`: `TriedInv(t)` follows the command in use through the ways a task can end. Two theorems
hold what can be proved of termination. `NoTaskStuck`: until all goroutines have ended, what the next step of one of
them waits for is there (`Ready`). Of the tasks that send, the first in the order of the reads can, because
what is before it was received or is dmesg, waiting for vmstat, which is read before (`VmstatBeforeDmesg`).
`NoStepTwice`: `Way(t)`, a number up to 15, grows with every step of `t` and with no other. That goroutines
that can run do run is all that TLC's `AllEnd` adds.

**GCProofs.** `PostedInOrder` (`LogInOrder`), with a JVM that writes, rotates and ends between any two steps
of the capture. `JvmInv` is about the directory: each name holds the file of some generation, the newest is in
one file, and where the present file is depends on the naming scheme. `CopyInv` says what was copied and,
after the previous file of a rotation, that the current one can only be newer. `BegunInv` compares with the
directory at the start: the newest generation is never one that was there before and came back. For
`PostsNewestOrTriesTools` (`NewestOrTools`) `NewestInv` follows the newest file through `Undisturbed`
captures: from the base name, to the names the pattern is extended to, to the one with the latest modification
time; `ToolInv` follows which tools were asked, none of them without a process. The first attempt failed for a JVM that keeps one file only
under the naming scheme with `.current`: there the file would be renamed to itself and the previous of it
would be the current one. Such a JVM does not rotate, and `GCAssumption` asks that scheme for two files at
least.

**ThreadDumpProofs.** `PostsTheWhole`: all of `ThreadDumpWhole`, for up to 99 rounds and any number of
processes. `DumperInv` and `TopperInv` say, for each point the loop is at, what is in the queues and what the
goroutines do: at most one round or the closing is under way, and a first goroutine that gave up leaves a
closed `e1` behind. Hence no file is written when the loop concatenates (`FilesInv`, `ResultInv`).
`GlobbedIs`: the shell's order has each existing file once, in the order of the numbers up to 9 rounds. That
there is such an order of any set of rounds (`OrderExists`) would be an induction; it is proved from a
smallest set without one, from which `LastOf` takes the last name. `NeverStuck`: the loop waits for a result
only while a goroutine is at work on it or has ended, and a goroutine only for a round that comes.
`AlwaysLessToDo`: `ToDo` (processes, the start of one, rounds, steps of a round, work of the goroutines)
decreases with every step in the lexicographic order; TLC's `AllEnd` adds the scheduling.

**ActionApiProofs.** `RequestsAnswered`: captures of competing requests never overlap, a response that
was waited for is complete and of each process the last capture, an error captures nothing. `HoldsOne` is
what makes the mutex work: who captures holds `one`. The rest is `RequestInv(q)`, which a step of another
request leaves alone (lemma `Others`): `Stage`, the points the handler and its goroutine can be at together;
`Table`, that the table of results has exactly the last capture of each result the goroutine has come past
(`TableAdd`: a second capture of a process replaces the first); `Filled`, that while the range over the
table fills the response, in any order, the response has what is not pending; and `Answer`, that what was
encoded of a response that was waited for cannot change any more. `Counted` relates the size of the table to
the number of different processes, which decides between the two forms of the response. The proof rests on
`ParsedAssumption`, that parsing gives a sequence of processes and unsupported operations: an induction over
a fold, which the prover cannot make and TLC evaluates for the lists of the run.

**NativeProofs** (the programs in C). *Attach:* all invariants of the run, for any number of clients and
JVMs. `ClientInv` says what the
point a client is at means: from `listen` to `unlock` it holds the attach lock (`HoldsLock`); its trigger lies
where the JVM looks and polls are left (`Polled`); with posts counted it comes to its command only over a
connection that presented its key (`Spoken`); and what of the answer it has read (`Answered`). `SharedInv`
gives each shared file its owner. The one that needed thought is `PostsInv`: the semaphore is at most what
the *one* client between `Post` and `Drain` will take back, so that draining leaves zero; with a killed
client nothing is said. `WaitsForATrigger` rests on the order of `CreateTrigger` and `SendQuit` and on that a
client removes the shared trigger only after it saw the socket or gave up. `AttachAssumption` asks for at least
one poll and one notification file, as in the code (24 and 256): with none an OpenJ9 client would take itself
for a HotSpot one.

*The procps libraries:* all invariants of `ProcLib`, for any calls in any order, any lists of items, and any
files that `FileOk` admits: `ResultsAlwaysFit`, `ChangesAlwaysReal`, `MemoryAlwaysWithinTotal` and
`GetsAlwaysReadAgain`. What the calls compute are recursive functions over tables of any length (the
fetch that grows the extents, the list of device nodes), and there is no induction to prove what they
return. The lemmas do it with a smallest counterexample instead: the set of the lengths at which the
statement fails is a set of naturals, so it has a least element (`LeastNat`), and there the step of the function
contradicts it; that the function exists is the first of the statements proved this way. `Holds(l, h)` says when a handle
of library `l` is whole (counters and extents within what was allocated, delimiters in their places), and each
operation keeps it. The inductive invariant has four parts. `HandleInv`: the handle is whole, has the
references the caller has, and its stamp is older than the present second unless a read succeeded in it. `ReadsOk`: the
kept reads are ordered by their seconds. `SamplesOk`: the old and the new sample of the handle are those of
the last two reads, which is where a read that fails half-way, a cpu that comes or goes, and a device node
that is reused or kept from an earlier second have to be followed. And `ChangesAreReal` itself, for sorting
keeps the rows and only their order changes. The attempts had two findings about the model. Arms of a
`CASE` that overlap are not specified by TLA+ (TLC takes the first that holds, the prover none):
`StatSet` and `ChangesAreReal` had some and now have disjoint ones. And whether a call reads the file
depends on its items, as a list with an item of another table is refused before; `Reads` did not
say so.

*vmstat:* all invariants of `VMStat`, for any command line, any height of the window, any files and any number
of updates: `VmstatTypeCorrect`, `VmstatCounts` and `VmstatLines`. They use the lemmas about the libraries: what
a call that succeeds gives (its handle is whole, the sample is the file's), and that one that fails leaves
the handle as `Whole` allows. The inductive invariant is `VmInv`, a lemma for each action and in it one step
for each part:

* `Typed` and `Remembered`: the settings, counters, files and what is remembered of the output have their types.
* `Placed`: the point the program is at goes with its mode. Modes that were added up (`-d -s`) are refused
  before a handle is opened, so behind `Operands` there is at most one. Headers have a height before one is due.
* `Opened`: which handles are open at which point, each of them with one reference. It gives the premise of every
  library call, and that `Close` releases what the mode opened.
* `Counted`: between the select and its line, the ticks counted so far and the change in the row give the
  new sample; with the toggled page counters, `pg[tog + 1]` is the newer one except just there, where it is the
  older. Pages are added modulo the unsigned long, so the sum is right however they wrap.
* `Asked`: in the lines' loop the count is one higher with `-y` (`num_updates++`), and the lines are one fewer than
  the updates until it ends; in the displays' loop they are as many.
* `Parted`: the last three reads of the partition's file, ordered by their seconds, and every device node of the
  partition has the second of a read that listed it (`Seen`). A node is matched when it was seen since the previous
  stamp; because a round comes at least a second after the one before, the previous stamp is the second of the read before.
* `Headed`: since the last header there were at most as many lines as the remainder of the updates by the height
  says. For the displays `Printed` is followed row by row: every stretch of `height` rows has one whose number is a
  multiple of the height.

Remainders have their own lemmas (`Quot` and what follows from it), since the provers do no division by a variable.
The attempts had findings about the model here too. The files are now required to have unsigned long
values in `vmstat`'s file as well as in `meminfo`'s, because without that the page counters have no width to wrap at;
and `FirstFiles` and the changes are of the form `FileOk`, which the constants promised only in a comment.

**SectionsProofs.** `SectionsInFile`: the whole invariant of the run, for any numbers of sections, of calls
and of calls that time out. `CallInv(c)` is about the workers: every call but the present one has timed out
or its worker has ended, so at most one worker that is not late can write; and when a call has returned, its
worker has written, and its result is the command's. From it follows what may be in the file at the point the
capture is at (`FileInv`: nothing but late output is ahead of the capture, `BehindInv`; the section's header
is there, `HeaderInv`), what must be (`TriedInv`: each earlier section is `SectionTried`, and each earlier
attempt of hdsub printed or timed out), and for ps that all of it is one command's (`OneCommandInv`).
`CallsLeft` bounds the calls by the attempts of the sections begun, which is what `SectionsAssumption` asks
`MaxCalls` to allow. The steps of workers and of a caller that times out leave most of this alone (`FileKept`);
the ones that append to the file (`WriteInv`, `BeginInv`, `RunNativeInv`) carry the order.

**Only model-checked:** all liveness (fairness and `ENABLED` are outside what the prover does), of which
the theorems above prove, for `Tasks` and `ThreadDump`, that nobody is stuck and no step can go on for ever;
`RowsAndStringsKept` of `Top`, with the action properties of `Top`; and the violation, `NothingMissed`, of course.

## 6. Where code and comments or tests disagree

Shown by a run: `AppLogMissed`: a rotated file that has already grown to the recorded size is read from the
old position; its first entries are never read.

Known from the models or from the control flow, without a run:

* After the one-minute timer ("execution timer", `executils/shell.go:198`) the caller and the worker are both in
  `exec.Cmd.Wait` of one command; one value ends the copying of its output for one of them, and the call may
  never return.
* Files of an earlier process of the same m3 round are posted for a later one whose own attempts failed
  (`thread.go:112`).
* When vmstat's first command cannot be started, logging the failed command calls a method of a nil `Cmd`
  (`vmstat.go:174`); the panic ends the agent instead of the second command being tried.
* `TestProcessLogFile` expects the previous and the current file of a rotation together; the search for the
  latest file finds the current one first (`gc.go:204`), and the code that combines them is reached only
  when a file appears or disappears at the right moment.

* An on-demand capture beside the API server does not take `one` and overlaps with requests, although
  `agent/api/action_api.go:21` says that "only one goroutine can run the capture process"; so do m3 rounds.
  The TODO in `agent/agent.go` names the first combination as a leftover.
* A signal during an m3 round leaves the round's directory behind in spite of `-d`: it is not in `Wg`.
* A request whose only action is `attendance` is carried out and answered with Code -1, where
  `TestAttendanceAPI` (`agent/api/server_test.go:207`) expects 0; the comment at `agent/api/action_api.go:294`
  says 0 for a list of unsupported operations, too. A forwarded answer is followed by the agent's own.
* A file of the GC log that the JVM removes or renames between the glob and its `Lstat` leaves a nil
  `FileInfo`, on which a method is then called: the panic ends the agent (`panicked` in `GC`). In `GC.Run` a
  log that is not found leaves an empty file that is not nil, so that jstat is not tried; the m3 loop,
  which looks at the error too, tries it.
* Output of a timed-out `ps` may arrive in the file after it was truncated; what is posted as a thread
  dump may hold none; the sixth attempt of `JStack.Run` is never made.
* dmesg's second command is never tried, because a failing command makes `Wait` return an error that is
  not `ErrNonZeroExit`; `Kill` of top and vmstat ("stop started tasks") does nothing for a `WaitCmd`; dmesg
  may start without waiting for vmstat; a failed reset of vmstat's file is ignored.
* Attach: two clients share `.attach_pid<pid>`, and one that gives up removes the other's; a HotSpot answer that
  breaks off is reported as success, and waited for without a timeout; a client that is killed leaves a
  replyInfo, posts or a trigger behind; the attach lock of OpenJ9 has no timeout.
* Libraries: cpus are compared by line, so a cpu that goes off line shifts the changes of those after it, in spite
  of the comment at `stat.c:416`; devices that are gone stay in what `procps_diskstats_reap` returns, and one
  that is plugged in again may show a negative change; a failed select of `meminfo.c`, `slabinfo.c` or
  `proc_vmstat.c` clears the sample, and a get in the same second then returns zero as a success; a
  clock that is set back stops re-reads; `unref` of `meminfo.c` and `proc_vmstat.c` leaves their files open.
* vmstat: the memory columns of every later line repeat the sample taken before the first line
  (`vmstat.c:390`); a count of 0 prints one line and one of -1 wraps around; the disk header is skipped when
  its turn falls on a partition.
* top: when a thread ends before its files are read, the threads after it in its process are not listed
  (`readproc.c:1511`, in spite of "next unique process or task available" at `readproc.c:1473`); with threads and
  several pids of which one is gone, a directory that was not opened may be read; `Cpu_pmax` is computed only
  when the columns are reset, so it is stale after a cpu came or went; a process with a reused pid is shown with a
  wrapped difference, up to the limits of `task_show`; the test of `Frames_signal` in `memory_refresh` sees only a
  signal that came during the scan; SIGTERM and a wrong option exit with 0.
* `RunCaptureCmd` assigns the package variable `Env`, and every upload the TLS configuration of the shared
  transport, without synchronisation; both are outside the models.

## 7. Plan

Done, in this order: `Agent`, `LogTail`/`AppLogM3`, `Command`/`Sections`, `ThreadDump`, `Tasks`,
`ActionApi`, `GC`; proofs for `Agent`, `AppLogM3`, `Tasks`; `Attach`; the procps libraries with `ProcLib`,
`VMStat`, `ReadProc`/`Pids`/`Top`; proofs for `ActionApi`, `Attach` and `Sections`; proofs for `GC` and
`ThreadDump`, and the rest of the invariants of `Agent` and `Tasks`; proofs for `ProcLib` and `VMStat`.

Next modules:

1. *HeapDump*: the sequence of attempts, copies and removals; promise: no dump file is left behind, and
   what is uploaded is this process's dump.
2. *ExtendedData*: the script's timer, whose kill is not waited for; promise: nothing is written to the
   data folder after it was read.
3. *M3Fin*: `ParseM3FinResponse` (which timestamp belongs to which process) and the tags, with the captures
   that follow; *LogPosition*: `PositionLastLines` of `capture/post.go`; both against a reference definition.
4. *TempPath*: the executable's copy, made under a lock that is tested only once.
5. *Upload*: who reads and who assigns the configuration of the shared transport.

Next theorems: `RowsAndStringsKept` of `Top`, which needs the invariants of `Pids` and of the scan; that nobody is
stuck in `ActionApi` (the mutex and the two goroutines of a request), `Attach` and `Sections`, as in `Tasks` and
`ThreadDump`.

## 8. Assumptions and what is left out

* `os.RemoveAll` succeeds. `-captureCmd` is empty. The local clock names the directories. A round of the
  m3 loop lasts more than a second, as the pauses of `Top4M3` make it, so that a capture for m3-fin does
  not get the round's own name.
* `PostData` is accepted or not, and an empty file never is; HTTP and TLS are left out.
* A kill may be refused, as with a command under `sudo`. In `Sections` a write fails only when its file
  was closed, not because the disk is full. The commands are those of the Linux build, where none is
  skipped.
* vmstat's validation is an outcome of the command (`invalid`), as are the contents of all outputs.
* A failed reset leaves the file as it was.
* `ActionApi`: what is forwarded, and what searches for processes print, are outcomes.
* `GC`: a JVM that is given one file only does not rotate `gc.log.0.current`; indices have one digit, one
  JVM's files match a pattern, and a copy that breaks off is left out; a later generation has a later modification time.
* `vmstat`: an operand is an integer; one that is none, or is followed by other text, ends the program like
  those that are refused. Options that change the display only (`-a`, `-w`, `-t`, `-S`) are read and change
  nothing. In `Meminfo` what is used is computed without the conversion to a long, which would show only
  with amounts near its width; the files hold kilobytes.
* Not modelled: custom commands, which the code calls deprecated; parsing of flags and YAML, which has no state afterwards; attendance's sleep and the
  health check, one request each; Boomi, a sequential web client; process, Docker and Java discovery,
  which are text processing; other operating systems' command lines; the helpers of the C
  programs that have no protocol of their own; the layout of the result table.
* Constants: the increments of arrays (`StacksIncr`, `NewOldIncr`, `NodesIncr`) are positive; a NUMA node
  is -1 or more, and there is a highest one; `ULong` is positive. In `ProcLib` the files satisfy `FileOk`
  at first and after each change: one line per device, one value per name, memory in unsigned longs, and in
  `VMStat` too. `VMStatAssumption`: a command line is options and integers, a window has an integer number of
  rows, an unsigned long has more than one value, an unsigned int a greatest one, and the bound on the loops
  allows one.
* C programs: allocations succeed, except that a scan may be ended by an error of a file. `top` runs in batch
  mode: the interactive commands, its configuration file, the summary's layout, the formatting of memory and
  the hiding of kernel threads are left out, and so are `procps_pids_get`, which no program here calls, and a
  `/proc` that is not mounted. Signals come between the steps of the program, also while a scan goes on, and are
  seen where the code looks at them; a directory of `/proc` is listed by one read of it.
* `Attach`: credentials and namespaces succeed or fail as one step each; the command's text and the
  answer's are outcomes.
