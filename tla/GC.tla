---------------------------------- MODULE GC ----------------------------------
(***************************************************************************)
(* The garbage collection log: ProcessGCLogFile chooses a file of the log  *)
(* that the JVM writes and rotates meanwhile, copies it, and may combine   *)
(* the previous and the current file of a rotation; GC.Run and the m3      *)
(* loop's uploadGCLogM3 then post what was copied, or let jstat and        *)
(* jattach write a log of their own.                                       *)
(*                                                                         *)
(* A file of the log is <<"log", 0>> (gc.log), <<"old", i>> (gc.log.i) or  *)
(* <<"current", i>> (gc.log.i.current).  Its content is its generation:    *)
(* the JVM begins one with each file, and later generations have later     *)
(* modification times.                                                     *)
(***************************************************************************)
EXTENDS Integers, Sequences, FiniteSetsExt

CONSTANTS
  Schemes,    \* how the JVM names its files: "plain" (gc.log, rotated to gc.log.i)
              \* or "current" (gc.log.i.current, rotated to gc.log.i)
  Views,      \* how the agent gets at them: "host", "root" (/proc/<pid>/root), "docker"
  Count,      \* the indices of a rotation
  MaxGen      \* bound: the generations

\* Indices of one digit: doublestar's names are compared as strings.  A JVM that is
\* given one file only does not rotate gc.log.0.current, it writes it from the start.
ASSUME GCAssumption ==
  /\ Schemes \subseteq {"plain", "current"} /\ Views \subseteq {"host", "root", "docker"}
  /\ Count \in 1..10 /\ MaxGen \in Nat
  /\ "current" \in Schemes => Count > 1

Indices == 0..(Count - 1)
Base == <<"log", 0>>
Old(i) == <<"old", i>>
Cur(i) == <<"current", i>>
Names == {Base} \cup ({"old", "current"} \X Indices)
Unexpanded == <<"pattern", 0>>     \* the path as given, with its %t

VARIABLES
  scheme,     \* of the JVM
  dir,        \* generation of each file, 0 when it does not exist
  gen,        \* the latest generation
  index,      \* the JVM's number for its next or its current file
  view,       \* how the agent gets at the files
  onHost,     \* whether the host has a directory of that name
  caller,     \* "ondemand" (GC.Run) or "m3" (uploadGCLogM3)
  pidPassed,  \* whether the pid is above 0, as that of every process of the m3 loop
  given,      \* the path found: "none", "path", "pattern" (with %p, %t, ...)
  at,         \* where the capture is
  target,     \* gcPath
  pending,    \* matches findLatestFileInRotatingLogFiles has yet to Lstat
  infos,      \* those it has, with their modification time
  pair,       \* indices of the previous (-1: none) and the current file
  out,        \* the file that is posted: "nil" or "open"
  content,    \* what was written to it
  err,        \* of ProcessGCLogFile: "none", "notExist", "other"
  tried,      \* tools that were tried
  begun       \* dir when the capture began

jvmVars == <<scheme, dir, gen, index>>
setting == <<view, onHost, caller, pidPassed, given>>
captureVars == <<at, target, pending, infos, pair, out, content, err, tried, begun>>
vars == <<jvmVars, setting, captureVars>>

Existing == {n \in Names : dir[n] # 0}
Seen == IF view = "host" THEN Existing ELSE {}      \* by globs, Lstat and Readdirnames

\* By copyFile, on the host or below /proc/<pid>/root; no process has a pid of 0.
Reached == IF view = "root" /\ ~pidPassed THEN {} ELSE Existing

Init ==
  /\ scheme \in Schemes /\ view \in Views /\ onHost \in BOOLEAN
  /\ caller \in {"ondemand", "m3"} /\ given \in {"none", "path", "pattern"}
  /\ pidPassed \in BOOLEAN /\ (caller = "m3" => pidPassed)
  /\ view = "docker" => pidPassed       \* GetDockerID is asked of a process
  /\ view = "host" => onHost
  /\ dir = [n \in Names |-> 0] /\ gen = 0 /\ index = 0
  /\ at = "start" /\ target = Base /\ pending = {} /\ infos = {} /\ pair = <<-1, 0>>
  /\ out = "nil" /\ content = <<>> /\ err = "none" /\ tried = {} /\ begun = dir

(***************************************************************************)
(* The JVM                                                                 *)
(***************************************************************************)
Live == IF scheme = "current" THEN Cur(index) ELSE Base

Rotate ==
  /\ dir[Live] # 0
  /\ dir' = [dir EXCEPT ![Live] = 0, ![Old(index)] = dir[Live]]
  /\ index' = (index + 1) % Count
  /\ UNCHANGED <<scheme, gen, setting, captureVars>>

\* The old file of the same number is removed now or replaced later.
OpenLog ==
  /\ dir[Live] = 0 /\ gen < MaxGen
  /\ gen' = gen + 1
  /\ \E kept \in IF scheme = "current" THEN {0, dir[Old(index)]} ELSE {dir[Old(index)]} :
       dir' = [dir EXCEPT ![Live] = gen + 1, ![Old(index)] = kept]
  /\ UNCHANGED <<scheme, index, setting, captureVars>>

(***************************************************************************)
(* Mutated forms of the operations below: what a plausible bug would make  *)
(* of them.  The specification does not use them.                          *)
(***************************************************************************)
\* The extension of the newest name stays.
TrimmedNot(n) == n

\* The wrap-around takes the first index, not the last.
PreviousFromFirst(c, olds) ==
  IF olds = {} THEN -1
  ELSE LET below == {i \in olds : i < c} IN IF below # {} THEN Max(below) ELSE Min(olds)

\* The tools are run with a pid of 0.
NeedsToolForAnyPid(file, e) == file = "nil" \/ (caller = "m3" /\ e # "none")

(***************************************************************************)
(* What is decided when ProcessGCLogFile returns: GC.Run goes on to the    *)
(* tools when it has no file but a process, the m3 loop also when there    *)
(* was an error.                                                           *)
(***************************************************************************)
NeedsTool(file, e) == pidPassed /\ (file = "nil" \/ (caller = "m3" /\ e # "none"))

Return(file, e) ==
  /\ out' = file /\ err' = e
  /\ at' = IF NeedsTool(file, e) THEN "jstat" ELSE "post"

(***************************************************************************)
(* Choosing the file                                                       *)
(***************************************************************************)
Goto(from, to) == at = from /\ at' = to

Start ==
  /\ at = "start" /\ begun' = dir
  /\ \/ /\ given = "none" /\ Return("nil", "none") /\ UNCHANGED target
     \/ /\ given = "path" /\ at' = "list" /\ UNCHANGED <<target, out, err>>
     \/ /\ given = "pattern" /\ at' = "expand" /\ target' = Unexpanded /\ UNCHANGED <<out, err>>
  /\ UNCHANGED <<jvmVars, setting, pending, infos, pair, content, tried>>

\* As strings: gc.log.0 < gc.log.0.current < gc.log.1.
NameOrder(n) == 2 * n[2] + (IF n[1] = "current" THEN 1 ELSE 0)

\* strings.TrimSuffix(latestFile, filepath.Ext(latestFile))
Trimmed(n) == IF n[1] = "current" THEN Old(n[2]) ELSE Base

\* The pattern itself, then with ".*" behind it.
Expand ==
  /\ IF Base \in Seen THEN Goto("expand", "list") /\ target' = Base
                      ELSE Goto("expand", "expandRotated") /\ UNCHANGED target
  /\ UNCHANGED <<jvmVars, setting, pending, infos, pair, out, content, err, tried, begun>>

ExpandRotated ==
  /\ Goto("expandRotated", "list")
  /\ LET matches == Seen \ {Base} IN
     target' = IF matches = {} THEN target
               ELSE Trimmed(CHOOSE n \in matches :
                              \A m \in matches : NameOrder(m) <= NameOrder(n))
  /\ UNCHANGED <<jvmVars, setting, pending, infos, pair, out, content, err, tried, begun>>

\* The names that have this one and a dot before something.
Extended(n) == CASE n = Base -> Names \ {Base}
                 [] n[1] = "old" -> {Cur(n[2])}
                 [] OTHER -> {}

List ==
  /\ Goto("list", "stat")
  /\ pending' = Seen \cap ({target} \cup Extended(target))
  /\ UNCHANGED <<jvmVars, setting, target, infos, pair, out, content, err, tried, begun>>

\* A file that is gone since leaves a nil among the infos, on which ModTime or Name
\* is called.  The order of the calls is left open.
Stat ==
  \E n \in pending :
    /\ pending' = pending \ {n}
    /\ IF n \in Seen THEN infos' = infos \cup {<<n, dir[n]>>} /\ Goto("stat", "stat")
                     ELSE Goto("stat", "panicked") /\ UNCHANGED infos
    /\ UNCHANGED <<jvmVars, setting, target, pair, out, content, err, tried, begun>>

Choose ==
  /\ pending = {} /\ Goto("stat", IF view = "docker" THEN "dockerCopy" ELSE "create")
  /\ target' = IF infos = {} THEN target
               ELSE (CHOOSE x \in infos : \A y \in infos : y[2] <= x[2])[1]
  /\ UNCHANGED <<jvmVars, setting, pending, infos, pair, out, content, err, tried, begun>>

(***************************************************************************)
(* Copying it                                                              *)
(***************************************************************************)
\* docker cp fails for a file that is not there, or by itself; its error is never
\* one that os.IsNotExist knows.
DockerCopy ==
  /\ at = "dockerCopy"
  /\ \/ target \in Existing /\ content' = <<<<"log", dir[target]>>>> /\ Return("open", "none")
     \/ UNCHANGED content /\ Return("nil", "other")
  /\ UNCHANGED <<jvmVars, setting, target, pending, infos, pair, tried, begun>>

Create ==
  /\ \/ Goto("create", "copy") /\ out' = "open" /\ UNCHANGED err
     \/ at = "create" /\ Return("nil", "other")
  /\ UNCHANGED <<jvmVars, setting, target, pending, infos, pair, content, tried, begun>>

\* copyFile looks on the host, then below /proc/<pid>/root, which may be refused.
CopyLog ==
  /\ at = "copy"
  /\ \/ target \in Reached /\ content' = <<<<"log", dir[target]>>>> /\ Return("open", "none")
     \/ UNCHANGED content /\ Return("open", "other")
     \/ target \notin Reached /\ at' = "readDir" /\ UNCHANGED <<content, out, err>>
  /\ UNCHANGED <<jvmVars, setting, target, pending, infos, pair, tried, begun>>

\* The index before the current one, around the end; -1 for none.
Previous(c, olds) ==
  CASE olds = {} -> -1
    [] Cardinality(olds) = 1 -> CHOOSE i \in olds : TRUE
    [] OTHER -> LET below == {i \in olds : i < c}
                IN IF below # {} THEN Max(below) ELSE Max(olds \cup {c})

\* "Attempt 2 to find the latest file in rotating gc logs": gc.log was not there and
\* had no other names a moment ago.
ReadDir ==
  /\ at = "readDir"
  /\ LET c == {i \in Indices : Cur(i) \in Seen}
         olds == {i \in Indices : Old(i) \in Seen}
     IN \/ ~onHost /\ Return("nil", "notExist") /\ UNCHANGED pair
        \/ /\ onHost /\ (target # Base \/ c = {})
           /\ Return("open", "notExist") /\ UNCHANGED pair
        \/ /\ onHost /\ target = Base
           /\ \E i \in c : pair' = <<Previous(i, olds), i>>
           /\ at' = "previous" /\ UNCHANGED <<out, err>>
  /\ UNCHANGED <<jvmVars, setting, target, pending, infos, content, tried, begun>>

\* A failure to copy the previous file is only logged.
CopyPrevious ==
  /\ Goto("previous", "current")
  /\ content' = IF pair[1] \in Indices /\ Old(pair[1]) \in Reached
                THEN Append(content, <<"log", dir[Old(pair[1])]>>) ELSE content
  /\ UNCHANGED <<jvmVars, setting, target, pending, infos, pair, out, err, tried, begun>>

CopyCurrent ==
  /\ at = "current"
  /\ IF Cur(pair[2]) \in Reached
     THEN content' = Append(content, <<"log", dir[Cur(pair[2])]>>) /\ Return("open", "none")
     ELSE UNCHANGED content /\ Return("open", "notExist")
  /\ UNCHANGED <<jvmVars, setting, target, pending, infos, pair, tried, begun>>

(***************************************************************************)
(* The tools.  Each begins the file anew.                                  *)
(***************************************************************************)
Tool(name) == tried' = tried \cup {name} /\ content' = <<<<name, 0>>>>

\* GC.Run waits for each tool and closes the file when it failed; the m3 loop keeps
\* jstat's file open for captureGC to close and remove.
Jstat ==
  /\ at = "jstat" /\ Tool("jstat")
  /\ \/ out' = "open" /\ at' = "post"
     \/ out' = "nil" /\ at' = "attach"
     \/ caller = "m3" /\ out' = "open" /\ at' = "remove"
  /\ UNCHANGED <<jvmVars, setting, target, pending, infos, pair, err, begun>>

\* captureGC.  When the file cannot be removed there is no command, and Wait is called
\* on nil.
Remove ==
  /\ \/ Goto("remove", "attach")
     \/ Goto("remove", "panicked")
  /\ UNCHANGED <<jvmVars, setting, target, pending, infos, pair, out, content, err, tried, begun>>

\* The m3 loop posts what jattach printed even when it failed, if it was started.
Attach ==
  /\ at = "attach" /\ Tool("jattach")
  /\ \/ out' = "open" /\ at' = "post"
     \/ out' = "nil" /\ at' = IF caller = "m3" THEN "post" ELSE "tempCopy"
  /\ UNCHANGED <<jvmVars, setting, target, pending, infos, pair, err, begun>>

\* The last attempt of GC.Run, with a copy of the executable.
TempAttach ==
  /\ \/ Goto("tempCopy", "failed") /\ UNCHANGED <<out, content, tried>>
     \/ Goto("tempCopy", "post") /\ Tool("tempJattach") /\ out' \in {"nil", "open"}
  /\ UNCHANGED <<jvmVars, setting, target, pending, infos, pair, err, begun>>

\* PostData skips an empty file.
Post ==
  /\ Goto("post", "done")
  /\ content' = IF out = "nil" THEN <<>> ELSE content
  /\ UNCHANGED <<jvmVars, setting, target, pending, infos, pair, out, err, tried, begun>>

Capture ==
  \/ Start \/ Expand \/ ExpandRotated \/ List \/ Stat \/ Choose
  \/ DockerCopy \/ Create \/ CopyLog \/ ReadDir \/ CopyPrevious \/ CopyCurrent
  \/ Jstat \/ Remove \/ Attach \/ TempAttach \/ Post

Next == Rotate \/ OpenLog \/ Capture

Spec == Init /\ [][Next]_vars

(***************************************************************************)
(* Properties                                                              *)
(***************************************************************************)
Posted == IF at = "done" THEN content ELSE <<>>

\* The types; in particular the previous file's index is an index or none.
TypeOK ==
  /\ dir \in [Names -> 0..MaxGen] /\ gen \in 0..MaxGen /\ index \in Indices
  /\ target \in Names \cup {Unexpanded} /\ pending \subseteq Names
  /\ infos \subseteq Names \X (1..MaxGen)
  /\ pair \in (Indices \cup {-1}) \X Indices
  /\ out \in {"nil", "open"} /\ err \in {"none", "notExist", "other"}
  /\ content \in Seq({"log", "jstat", "jattach", "tempJattach"} \X (0..MaxGen))

\* With no rotation during the capture, and nothing refused, the file that is posted
\* is the newest of a log the host has: whatever its name, and though a pattern is
\* expanded in the order of the names.
NewestPosted ==
  /\ at = "done" /\ view = "host" /\ given # "none"
  /\ dir = begun /\ Existing # {} /\ err # "other"
  => Posted = <<<<"log", gen>>>>

\* Whatever the JVM does meanwhile, what is posted is either of the JVM's log, oldest
\* first and nothing twice, or of one tool; and while the file found to be current
\* still is, the one found to be previous holds the generation before it.
RotationInOrder ==
  /\ \A k \in 1..(Len(Posted) - 1) :
       /\ Posted[k][1] = "log" /\ Posted[k + 1][1] = "log"
       /\ Posted[k][2] < Posted[k + 1][2]
  /\ at = "previous" /\ pair[1] # -1 /\ Live = Cur(pair[2]) /\ dir[Live] # 0
     => dir[Old(pair[1])] = gen - 1

\* The capture of a process gives up only after both tools: in the m3 loop always, in
\* GC.Run when the log could not even be created or its directory not be read.
\* Without a process GC.Run runs no tool.
ToolsTried ==
  /\ at = "done" /\ pidPassed /\ Posted = <<>> /\ (caller = "m3" \/ out = "nil") =>
       {"jstat", "jattach"} \subseteq tried
  /\ ~pidPassed => tried = {}

\* What is posted is in order, whatever the JVM does during the capture.
LogInOrder == TypeOK /\ RotationInOrder

\* What is posted is the newest log, or the tools of the process were asked for one.
NewestOrTools == NewestPosted /\ ToolsTried

==============================================================================
