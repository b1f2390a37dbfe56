---------------------------------- MODULE Top ---------------------------------
(***************************************************************************)
(* top.c in batch mode, as the agent and the top mode of the program run   *)
(* it: the start, the options, the frames and the signals, over the tasks  *)
(* of pids.c, the cpus of stat.c and the memory of meminfo.c.  A scan of   *)
(* the tasks takes as many steps as it reads files; between them the       *)
(* kernel runs, starts and ends tasks.  Time is in hundredths of a second, *)
(* as ticks are.                                                           *)
(***************************************************************************)
EXTENDS Pids, ProcStat, Meminfo

CONSTANTS
  CommandLines,   \* sequences of options
  Kernel0,        \* the tasks at the start
  Ids,            \* the ids of tasks
  Mounts,         \* what is in /proc: "all", or "pids" (subset=pid)
  Visible,        \* the items of the columns that are shown
  CpuCounts,      \* how many cpus there may be
  DefDelay,       \* DEF_DELAY
  WinAlign,       \* the windows' arrays grow by multiples of it
  MonPidMax,      \* MONPIDMAX
  MaxEvents, MaxWinch, MaxClock   \* bounds

VARIABLES
  pc, conf, loops, code,          \* the control, the options, Loops, the exit
  pids, stat, mem, restrict,      \* the contexts, Restrict_some
  cpuCnt, cpuPmax,                \* Cpu_cnt, Cpu_pmax in tenths of a percent
  frameSig, xtra,                 \* Frames_signal, Pseudo_row = PROC_XTRA
  uptimeSav, elapsed, savSecs,    \* the last refresh of the tasks, of the memory
  nAlloc, shown, frames,          \* the windows' arrays, the frame's rows
  kernel, cpus, mount, now, events, winches, terms,
  opened, before, fetched         \* history: the tasks at the opening, two fetches

control == <<pc, code>>
options == <<conf, loops>>
contexts == <<pids, stat, mem>>
settings == <<restrict, cpuCnt, cpuPmax, frameSig, xtra>>
times == <<uptimeSav, elapsed, savSecs>>
screen == <<nAlloc, shown, frames>>
history == <<opened, before, fetched>>
program == <<control, options, contexts, settings, times, screen, history>>
signals == <<winches, terms>>
world == <<kernel, cpus, mount, events>>
vars == <<program, signals, world, now>>

Fields == <<"ID_PID", "STATE", "CMD", "TICS_ALL_DELTA", "NLWP", "TICS_ALL", "MEM_RES",
            "VM_SWAP", "SUPGIDS", "CMDLINE">>
SortField == "TICS_ALL_DELTA"
StatItems == <<[src |-> "cpu", of |-> "id", delta |-> FALSE],
               [src |-> "tic", of |-> "idle", delta |-> TRUE],
               [src |-> "tic", of |-> "xtot", delta |-> TRUE]>>
MemItems == <<[of |-> "MemTotal", delta |-> FALSE], [of |-> "mem_used", delta |-> FALSE]>>

\* What the files of the system say.
Readable == IF mount = "all" THEN "fine" ELSE "unreadable"
StatFile == LET jif == [user |-> 1, idle |-> 1, guest |-> 0]
            IN [status |-> Readable, cpu |-> jif, sys |-> NoSys,
                cpus |-> [c \in 1 .. cpus |-> [id |-> c - 1, jif |-> jif]]]
MemFile == [status |-> Readable, vals |-> [MemTotal |-> 4, MemFree |-> 2]]

NoConf == [batch |-> FALSE, cmdlin |-> FALSE, threads |-> FALSE, secure |-> FALSE,
           monpids |-> <<>>, delay |-> DefDelay, tmpDelay |-> -1, asked |-> -1]
NoFetched == [rows |-> {}, at |-> 0]

Init ==
  /\ \E line \in CommandLines : conf = NoConf @@ ("args" :> line)
  /\ mount \in Mounts /\ cpus = Max(CpuCounts) /\ kernel = Kernel0
  /\ pc = "before" /\ loops = -1 /\ code = ""
  /\ pids = NoPids @@ ("sc" :> NoScan) /\ stat = NoStat /\ mem = NoMemInfo
  /\ restrict = FALSE /\ cpuCnt = 0 /\ cpuPmax = 999 /\ frameSig = FALSE /\ xtra = TRUE
  /\ uptimeSav = 0 /\ elapsed = 0 /\ savSecs = 0 /\ nAlloc = -1 /\ shown = <<>> /\ frames = 0
  /\ now = 1000 /\ events = 0 /\ winches = 0 /\ terms = 0
  /\ opened = {} /\ before = NoFetched /\ fetched = NoFetched

(***************************************************************************)
(* The end: the contexts are given up unless a signal is being dealt with. *)
(***************************************************************************)
ByeBye(result) ==
  /\ pc' = "done" /\ code' = result
  /\ IF frameSig /\ result = "ok" THEN UNCHANGED <<pids, stat, mem>>
     ELSE pids' = (IF pids.ref = 0 THEN pids ELSE PidsUnref(pids))
          /\ stat' = (IF stat.ref = 0 THEN stat ELSE StatUnref(stat))
          /\ mem' = (IF mem.ref = 0 THEN mem ELSE MemUnref(mem))
ErrorExit == ByeBye("error")

\* Signals. A scan does not look for them: one that comes during it is as one at
\* its end. Without the handlers a SIGTERM ends the process.
Interruptible == pc # "done" /\ (pc = "scan" => pids.sc.at = "end")
SigTerm ==
  /\ Interruptible /\ terms = 0 /\ terms' = 1 /\ pc' = "done"
  /\ code' = IF pc \in {"before", "args"} THEN "killed" ELSE "ok"
  /\ UNCHANGED <<world, now, winches, options, contexts, settings, times, screen, history>>

\* SIGWINCH, SIGCONT: one ends the wait between two frames.
SigResize ==
  /\ Interruptible /\ pc \in {"frame", "scan", "usleep", "sleep"} /\ winches < MaxWinch /\ winches' = winches + 1
  /\ frameSig' = TRUE /\ pc' = IF pc = "sleep" THEN "frame" ELSE pc
  /\ UNCHANGED <<code, restrict, cpuCnt, cpuPmax, xtra, world, now, terms, options, contexts, times, screen, history>>

(***************************************************************************)
(* The start.                                                              *)
(***************************************************************************)
Before ==
  LET s == StatNew(StatFile, NoJifs)
      m == MemNew(MemFile)
      r == StatReap(s.h, StatFile, TRUE, StatItems, NoJifs)
  IN /\ pc = "before"
     /\ IF s.ok /\ ~r.ok THEN ErrorExit /\ UNCHANGED <<cpuCnt, restrict>>
        ELSE /\ stat' = IF s.ok THEN r.h ELSE s.h
             /\ cpuCnt' = IF s.ok THEN Len(r.h.cpuRows) ELSE 1
             /\ mem' = m.h /\ restrict' = (~s.ok \/ ~m.ok)
             /\ pids' = PidsNew([f \in DOMAIN Fields |-> "noop"])
             /\ pc' = "args" /\ UNCHANGED code
     /\ UNCHANGED <<cpuPmax, frameSig, xtra, world, now, options, times, screen, history, signals>>

\* A mutant of AddPid: an id may be there twice.
AddPidTwice(list, pid) == Append(list, pid)
AddPid(list, pid) == IF Contains(list, pid) THEN list ELSE Append(list, pid)

\* What an option does to the settings.
Taken(o) ==
  CASE o.opt = "b" -> [conf EXCEPT !.batch = TRUE]
    [] o.opt = "c" -> [conf EXCEPT !.cmdlin = ~@]
    [] o.opt = "H" -> [conf EXCEPT !.threads = TRUE]
    [] o.opt = "s" -> [conf EXCEPT !.secure = TRUE]
    [] o.opt = "d" -> [conf EXCEPT !.tmpDelay = o.val]
    [] o.opt = "n" -> [conf EXCEPT !.asked = o.val]
    [] o.opt = "p" -> [conf EXCEPT !.monpids = FoldLeft(AddPid, @, o.pids)]
\* Refused: the list of ids may not be full when a further one comes, be it a
\* new one or one that is there.
Refused(o) == \/ o.opt = "d" /\ o.val < 0
              \/ o.opt = "n" /\ o.val < 1
              \/ /\ o.opt = "p"
                 /\ \E k \in DOMAIN o.pids :
                      Len(FoldLeft(AddPid, conf.monpids, SubSeq(o.pids, 1, k - 1))) >= MonPidMax
              \/ o.opt = "stray"   \* an argument that no option has

ParseArg ==
  /\ pc = "args" /\ conf.args # <<>>
  /\ LET o == Head(conf.args)
     IN IF o.opt \in {"h", "V", "O", "?"} THEN ByeBye("ok") /\ UNCHANGED <<conf, loops>>
        ELSE IF Refused(o) THEN ErrorExit /\ UNCHANGED <<conf, loops>>
        ELSE /\ conf' = [Taken(o) EXCEPT !.args = Tail(@)]
             /\ loops' = IF o.opt = "n" THEN o.val ELSE loops
             /\ UNCHANGED <<control, contexts>>
  /\ UNCHANGED <<world, now, settings, times, screen, history, signals>>

\* The delay, and the handlers.
ArgsDone ==
  /\ pc = "args" /\ conf.args = <<>>
  /\ IF conf.tmpDelay >= 0 /\ conf.secure THEN ErrorExit /\ UNCHANGED conf
     ELSE /\ conf' = IF conf.tmpDelay >= 0 THEN [conf EXCEPT !.delay = conf.tmpDelay] ELSE conf
          /\ pc' = "stage2" /\ UNCHANGED <<code, pids, stat, mem>>
  /\ UNCHANGED <<loops, world, now, settings, times, screen, history, signals>>

\* The items the columns need, and those that are always needed.
BuildHeaders ==
  LET needed == {"ID_PID", "STATE", "CMD", SortField} \cup Visible
                  \cup (IF conf.cmdlin /\ "CMD" \in Visible THEN {"CMDLINE"} ELSE {})
                  \cup (IF "TICS_ALL_DELTA" \in Visible THEN {"NLWP"} ELSE {})
  IN [f \in DOMAIN Fields |-> IF Fields[f] \in needed THEN Fields[f] ELSE "extra"]

\* The highest usage a column has room for.
Pmax == IF cpuCnt > 1 /\ ~conf.threads THEN IF cpuCnt > 10 THEN 10 * 100 * cpuCnt
                                            ELSE Min({1000 * cpuCnt, 9999})
        ELSE 999

\* The columns anew; a signal that came has then been dealt with.
ZapFieldstab ==
  /\ cpuPmax' = Pmax /\ frameSig' = FALSE
  /\ pids' = PidsReset(pids, BuildHeaders).h
Stage2 ==
  /\ pc = "stage2" /\ pc' = "frame" /\ ZapFieldstab
  /\ UNCHANGED <<code, stat, mem, restrict, cpuCnt, xtra, world, now, options, times, screen, history, signals>>

(***************************************************************************)
(* A frame.                                                                *)
(***************************************************************************)
Resized ==
  /\ pc = "frame" /\ frameSig /\ ZapFieldstab
  /\ UNCHANGED <<stat, mem, restrict, cpuCnt, xtra, world, now, control, options, times, screen, history, signals>>

\* The tasks there are: those of the list, or all; without their threads.
Asked ==
  {t \in DOMAIN kernel.task : /\ conf.monpids = <<>> \/ Contains(conf.monpids, Tgid(kernel, t))
                              /\ conf.threads \/ t \in DOMAIN kernel.procs}
Born(tids) == {[tid |-> t, born |-> kernel.task[t].born] : t \in tids}

\* The time since the last refresh, and the scan.
TasksRefresh ==
  /\ (pc = "frame" /\ ~frameSig) \/ pc = "again"
  /\ pc' = "scan"
  /\ uptimeSav' = now /\ elapsed' = now - uptimeSav
  /\ pids' = FetchOpen(pids, kernel, conf.threads, conf.monpids)
  /\ opened' = Born(Asked)
  /\ UNCHANGED <<code, stat, mem, savSecs, before, fetched, world, now, options, settings, screen, signals>>

Scan ==
  /\ pc = "scan" /\ pids.sc.at \in {"find", "task", "read", "got"}
  /\ pids' = IF pids.sc.at = "got" THEN FetchNext(pids) ELSE FetchScan(pids, kernel)
  /\ UNCHANGED <<stat, mem, world, now, control, options, settings, times, screen, history, signals>>

\* The scan is over: the windows' arrays list its rows; the first frame, or
\* the first half of it, goes on to the cpus and the memory.
TasksDone ==
  /\ pc = "scan" /\ pids.sc.at = "end"
  /\ before' = fetched
  /\ fetched' = [rows |-> {[tid |-> row["ID_PID"], born |-> row["CMD"], tics |-> row["TICS_ALL"]] :
                             row \in Range(Fetched(pids))}, at |-> uptimeSav]
  /\ IF conf.monpids = <<>> /\ ~ReapOk(pids) THEN ErrorExit /\ UNCHANGED nAlloc
     ELSE /\ pids' = FetchEnd(pids) /\ UNCHANGED <<code, stat, mem>>
          /\ nAlloc' = IF nAlloc < pids.inuse
                       THEN WinAlign * ((pids.inuse + WinAlign - 1) \div WinAlign) ELSE nAlloc
          /\ pc' = IF frames = 0 /\ ~xtra THEN "show" ELSE "cpus"
  /\ UNCHANGED <<shown, frames, opened, world, now, options, settings, times, signals>>

CpusRefresh == StatReap(stat, StatFile, FALSE, StatItems, NoJifs)
\* The memory is read again after three seconds, or after a signal.
MemoryDue == 3 <= (now \div 100) - (IF frameSig THEN 0 ELSE savSecs)
MemoryRefresh == IF MemoryDue THEN MemSelect(mem, MemFile, MemItems) ELSE [ok |-> TRUE, h |-> mem]

CpusAndMemory ==
  /\ pc = "cpus"
  /\ xtra' = FALSE
  /\ IF restrict THEN pc' = (IF xtra THEN "usleep" ELSE "show") /\ UNCHANGED <<code, cpuCnt, savSecs, contexts>>
     ELSE IF ~CpusRefresh.ok \/ ~MemoryRefresh.ok THEN ErrorExit /\ UNCHANGED <<cpuCnt, savSecs>>
     ELSE /\ stat' = CpusRefresh.h /\ cpuCnt' = Len(CpusRefresh.h.cpuRows)
          /\ mem' = MemoryRefresh.h
          /\ savSecs' = IF MemoryDue THEN now \div 100 ELSE IF frameSig THEN 0 ELSE savSecs
          /\ pc' = (IF xtra THEN "usleep" ELSE "show") /\ UNCHANGED <<code, pids>>
  /\ UNCHANGED <<restrict, cpuPmax, frameSig, uptimeSav, elapsed, world, now, options, screen, history, signals>>

\* The first frame has the tasks twice, a moment apart; a signal ends that.
USleep ==
  /\ pc = "usleep" /\ pc' = "again" /\ now' \in {now, now + 15}
  /\ UNCHANGED <<code, world, options, contexts, settings, times, screen, history, signals>>

\* The usage of a task in tenths of a percent, at most that of its threads.
Rate(tics, et) == (2000 * tics) \div Max({2 * et, 1})
Capped(usage, nlwp) == Min({usage, 1000 * nlwp, cpuPmax})
TaskShow(row) ==
  [tid |-> row["ID_PID"], born |-> row["CMD"], tics |-> row["TICS_ALL"], nlwp |-> row["NLWP"],
   cpu |-> IF restrict THEN -1 ELSE Capped(Rate(row["TICS_ALL_DELTA"], elapsed), row["NLWP"])]
WindowShow == LET rows == PidsSort(Fetched(pids), SortField, FALSE)
              IN [r \in DOMAIN rows |-> TaskShow(rows[r])]
Show ==
  /\ pc = "show" /\ pc' = "loop" /\ shown' = WindowShow /\ frames' = frames + 1
  /\ UNCHANGED <<code, nAlloc, world, now, options, contexts, settings, times, history, signals>>

\* A mutant of Countdown: does not count.
CountdownNot(n) == n
Countdown(n) == IF 0 < n THEN n - 1 ELSE n
Loop ==
  /\ pc = "loop" /\ loops' = Countdown(loops)
  /\ IF loops' = 0 THEN ByeBye("ok") ELSE pc' = "sleep" /\ UNCHANGED <<code, pids, stat, mem>>
  /\ UNCHANGED <<conf, world, now, settings, times, screen, history, signals>>

Sleep ==
  /\ pc = "sleep" /\ now < MaxClock
  /\ pc' = "frame" /\ now' = now + conf.delay
  /\ UNCHANGED <<code, world, options, contexts, settings, times, screen, history, signals>>

Program == \/ Before \/ ParseArg \/ ArgsDone \/ Stage2 \/ Resized \/ TasksRefresh \/ Scan
           \/ TasksDone \/ CpusAndMemory \/ USleep \/ Show \/ Loop \/ Sleep

(***************************************************************************)
(* The kernel: what it does before the program looks at it.                *)
(***************************************************************************)
Event ==
  /\ \/ pc \in {"again", "sleep"} \/ (pc = "frame" /\ frames = 0)
     \/ pc = "scan" /\ Looks(pids.sc)
  /\ events < MaxEvents /\ events' = events + 1
  /\ UNCHANGED <<program, mount, now, signals>>

Free == Ids \ DOMAIN kernel.task
NewTask(nlwp) == [state |-> "R", tics |-> 0, res |-> 1, swap |-> 0, born |-> 100 + events]
Without(f, keys) == [x \in DOMAIN f \ keys |-> f[x]]

Run == /\ Event /\ UNCHANGED cpus
       /\ \E t \in DOMAIN kernel.task : kernel' = [kernel EXCEPT !.task[t].tics = @ + 1]
StartThread ==
  /\ Event /\ UNCHANGED cpus
  /\ \E p \in DOMAIN kernel.procs, t \in Free :
       kernel' = [procs |-> [kernel.procs EXCEPT ![p] = Append(@, t)],
                  task |-> kernel.task @@ (t :> NewTask(1))]
EndThread ==
  /\ Event /\ UNCHANGED cpus
  /\ \E p \in DOMAIN kernel.procs : \E t \in Range(kernel.procs[p]) \ {p} :
       kernel' = [procs |-> [kernel.procs EXCEPT ![p] = SelectSeq(@, LAMBDA u : u # t)],
                  task |-> Without(kernel.task, {t})]
Fork ==
  /\ Event /\ UNCHANGED cpus
  /\ \E t \in Free : kernel' = [procs |-> kernel.procs @@ (t :> <<t>>),
                                task |-> kernel.task @@ (t :> NewTask(1))]
\* Process 1 does not end: there is always one.
EndProcess ==
  /\ Event /\ UNCHANGED cpus
  /\ \E p \in DOMAIN kernel.procs \ {1} :
       kernel' = [procs |-> Without(kernel.procs, {p}),
                  task |-> Without(kernel.task, Range(kernel.procs[p]))]
Hotplug == Event /\ UNCHANGED kernel /\ \E n \in CpuCounts \ {cpus} : cpus' = n

Kernel == Run \/ StartThread \/ EndThread \/ Fork \/ EndProcess \/ Hotplug

Done == pc = "done" \/ (pc = "sleep" /\ now >= MaxClock)
Next == Program \/ SigTerm \/ SigResize \/ Kernel \/ (Done /\ UNCHANGED vars)

\* The program is scheduled: it stops only where it has ended or is bounded.
Spec == Init /\ [][Next]_vars /\ ([]<>Done \/ []<><<Program>>_vars)

(***************************************************************************)
(* Properties.                                                             *)
(***************************************************************************)
\* The rows, the samples and the lists have room for what is in them; no scan
\* reads a directory that is not open; there is a row for each cpu counted
\* (pids_stacks_fetch, pids_make_hist, tasks_refresh, cpus_refresh).
RowsThere ==
  /\ pids.ref > 0 => /\ pids.inuse <= Len(pids.rows)
                     /\ pids.hist.n <= pids.hist.siz /\ Len(pids.hist.new) <= pids.hist.siz
                     /\ pids.sc.at \notin {"crash"}
  /\ pc \in {"cpus", "usleep", "again", "show"} => /\ pids.inuse < pids.saved
                                                  /\ pids.inuse <= nAlloc
                                                  /\ pids.counts.total = pids.inuse
  /\ pc = "show" /\ ~restrict => cpuCnt <= Len(stat.cpuRows) /\ FetchFits(stat.cpuExt, stat.cpuFetch)

\* Types.
TypeOK ==
  /\ pc \in {"before", "args", "stage2", "frame", "scan", "cpus", "usleep", "again", "show", "loop",
             "sleep", "done"}
  /\ code \in {"", "ok", "error", "killed"} /\ (code = "") = (pc # "done")
  /\ restrict \in BOOLEAN /\ frameSig \in BOOLEAN /\ xtra \in BOOLEAN
  /\ Len(conf.monpids) <= MonPidMax

\* A string of a task is somewhere: in the row that shows it or in the proc_t,
\* and every string that was allocated is in one of those, through the resets
\* of the columns; when the contexts were given up there are none.
StringsKept ==
  pids.sc.live = IF pids.ref = 0 THEN 0
                 ELSE FoldLeft(LAMBDA n, row : n + Held(row), Count(pids.sc.x, Strings), pids.rows)

\* The rows, and what they hold, are there.
RowsAndStringsKept == TypeOK /\ RowsThere /\ StringsKept

\* The usage shown is that of the time since the last refresh: the ticks since
\* then of a task that was there, all its ticks for one whose id was not; by
\* the time between, at most its threads and the width allow. A reused id's
\* usage is not known.
UsageOfTheFrame ==
  [][shown' # shown /\ ~restrict =>
       \A row \in Range(shown') :
         LET same == {r \in before.rows : r.tid = row.tid /\ r.born = row.born}
             new == \A r \in before.rows : r.tid # row.tid
             ticks == IF new THEN row.tics ELSE row.tics - (CHOOSE r \in same : TRUE).tics
         IN new \/ same # {} =>
              row.cpu = Capped(Rate(ticks, fetched.at - before.at), row.nlwp)]_vars

\* A refresh lists no task twice, and each process that it was asked for and
\* that was there all the while.
EachProcessOnce ==
  [][fetched' # fetched =>
       /\ Cardinality({<<r.tid, r.born>> : r \in fetched'.rows}) = pids.inuse
       /\ \A t \in opened : /\ t.tid \in DOMAIN kernel.procs
                             /\ kernel.task[t.tid].born = t.born
                             => \E r \in fetched'.rows : r.tid = t.tid /\ r.born = t.born]_vars

\* With a number of frames the program ends, and when nothing went wrong it has
\* shown that many.
FramesEnd ==
  /\ [](code = "ok" /\ terms = 0 /\ frames > 0 => frames = conf.asked)
  /\ (pc = "stage2" /\ conf.asked > 0) ~> pc = "done"

===============================================================================
