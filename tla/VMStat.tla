-------------------------------- MODULE VMStat --------------------------------
(***************************************************************************)
(* vmstat.c, the capture's vmstat: one process that looks at its arguments,*)
(* opens the libraries its mode needs and prints lines, or displays of     *)
(* rows, between sleeps, while the kernel's files change under it.  A line *)
(* is what it is computed from: ticks and counts, before they become       *)
(* percentages and units.  The fields that are treated alike are one here: *)
(* pgpgin stands for the four counters of pages, swap_used for the memory. *)
(* The variable hist is history: what the program found and printed.       *)
(***************************************************************************)
EXTENDS ProcFiles

CONSTANTS
  Argvs,        \* the command lines: [opts |-> options, args |-> delay and count]
  WinRows,      \* the rows a window may have
  FirstFiles,   \* what the kernel's files hold at the start
  FilesMay(_),  \* how they may change
  Garbage,      \* what may be in memory that has not been written
  UIntMax,      \* UINT_MAX
  MaxFileChanges, MaxSecond, MaxLoops

FilesOk(f) == \A l \in {"stat", "disk", "slab", "mem", "vm"} : FileOk(l, f[l])

ASSUME VMStatAssumption ==
  /\ Argvs \subseteq [opts : Seq(STRING), args : Seq(Int)]
  /\ WinRows \subseteq Int /\ MaxLoops \in Nat \ {0} /\ ULong > 1 /\ UIntMax \in Nat
  /\ \A f \in FirstFiles : FilesOk(f)

VARIABLES
  argv,     \* the options and arguments that have not been looked at
  opt,      \* statMode and the other settings they make
  point,    \* where the program is
  code,     \* what it exits with
  handles,  \* those of the libraries
  updates, tog,   \* of the main loop
  pg,       \* pgpgin[2]
  proc, second, changed, hist

kernel == <<proc, second, changed>>
vmstatVars == <<argv, opt, point, code, handles, updates, tog, pg, proc, second, changed, hist>>

StatItem(of, delta) == [src |-> IF of \in Counters THEN "sys" ELSE "tic", of |-> of, delta |-> delta]
First_stat_items == <<StatItem("ctxt", FALSE), StatItem("user", FALSE),
                      StatItem("idle", FALSE), StatItem("guest", FALSE)>>
Loop_stat_items == <<StatItem("ctxt", TRUE), StatItem("user", TRUE),
                     StatItem("idle", TRUE), StatItem("guest", TRUE)>>
Mem_items == <<[of |-> "swap_used", delta |-> FALSE]>>
Disk_items == <<"TYPE", "NAME", "IO">>
Part_items == <<"IO">>
Node_items == <<[src |-> "slab", of |-> "objs", delta |-> FALSE],
                [src |-> "slab", of |-> "name", delta |-> FALSE]>>
PgItem == [of |-> "pgpgin", delta |-> FALSE]
Forks == StatItem("procs", FALSE)

ModeOf == [d |-> "disk", s |-> "sum", m |-> "slab", p |-> "part", D |-> "disksum"]
Partition == 1   \* the device that -p names

VmstatInit ==
  /\ argv \in Argvs /\ point = "args" /\ code = -1
  /\ opt = [modes |-> {}, more |-> TRUE, y |-> FALSE, infinite |-> FALSE,
            num |-> 1, sleep |-> 1, height |-> 0]
  /\ handles = [vm |-> NoVmInfo, stat |-> NoStat, mem |-> NoMemInfo, disk |-> NoDisk, slab |-> NoSlab]
  /\ updates = 1 /\ tog = 0 /\ pg = <<0, 0>>
  /\ proc \in FirstFiles /\ second = 1 /\ changed = 0
  /\ hist = [asked |-> 0, lines |-> 0, base |-> 0, busy |-> 0, pg0 |-> 0, pages |-> 0,
             odd |-> FALSE, since |-> 0, out |-> <<>>, part |-> <<>>]

GoOn(l) == point' = l /\ UNCHANGED code
Exit(c) == point' = "done" /\ code' = c

-------------------------------------------------------------------------------
\* The arguments, an option at a time; the modes add up. Wide lines, a time
\* stamp, other memory columns and a known unit (w, t, a, S) are display only.
Option ==
  /\ point = "args" /\ argv.opts # <<>>
  /\ argv' = [argv EXCEPT !.opts = Tail(@)]
  /\ LET o == Head(argv.opts)
     IN \/ /\ o \in DOMAIN ModeOf
           /\ opt' = [opt EXCEPT !.modes = @ \cup {ModeOf[o]}] /\ GoOn("args")
        \/ o = "n" /\ opt' = [opt EXCEPT !.more = FALSE] /\ GoOn("args")
        \/ o = "y" /\ opt' = [opt EXCEPT !.y = TRUE] /\ GoOn("args")
        \/ o = "f" /\ UNCHANGED opt /\ GoOn("fork")
        \/ o \in {"w", "t", "a", "S"} /\ UNCHANGED opt /\ GoOn("args")
        \/ o \in {"h", "V"} /\ UNCHANGED opt /\ Exit(0)
        \/ /\ o \notin DOMAIN ModeOf \cup {"n", "y", "f", "w", "t", "a", "S", "h", "V"}
           /\ UNCHANGED opt /\ Exit(1)
  /\ UNCHANGED <<handles, updates, tog, pg, kernel, hist>>

\* Where a mode starts.
Starts == [disk |-> "disknew", part |-> "partnew", disksum |-> "sumdisk",
           slab |-> "slabnew", sum |-> "sumstat"]

\* A mutant of Settings: the count does not end an endless run.
SettingsEndless(rows) ==
  [opt EXCEPT !.infinite = argv.args # <<>>, !.height = IF rows > 3 THEN rows - 3 ELSE 22,
              !.num = IF Len(argv.args) = 2 THEN argv.args[2] % ULong ELSE 1]

\* The delay makes the run endless, the count limits it again; the height of
\* what is shown is the window's but for three lines, or 22.
Settings(rows) ==
  [opt EXCEPT !.sleep = IF argv.args # <<>> THEN argv.args[1] ELSE @,
              !.infinite = Len(argv.args) = 1,
              !.num = IF Len(argv.args) = 2 THEN argv.args[2] % ULong ELSE 1,
              !.height = IF ~opt.more THEN 0 ELSE IF rows > 3 THEN rows - 3 ELSE 22]

\* Not understood: a delay of nothing or too large a one, a third argument, a
\* second mode.
Misused == \/ argv.args # <<>> /\ (\/ argv.args[1] < 1 \/ argv.args[1] > UIntMax
                                   \/ Len(argv.args) > 2)
           \/ Cardinality(opt.modes) > 1
Operands ==
  /\ point = "args" /\ argv.opts = <<>>
  /\ \/ Misused /\ Exit(1) /\ UNCHANGED <<opt, updates, hist>>
     \/ /\ ~Misused /\ \E rows \in WinRows : opt' = Settings(rows)
        /\ GoOn(IF opt.modes = {} THEN "vmnew" ELSE Starts[CHOOSE m \in opt.modes : TRUE])
        /\ updates' = IF opt.modes = {} THEN 1 ELSE 0
        /\ hist' = [hist EXCEPT !.asked = opt'.num]
  /\ UNCHANGED <<argv, handles, tog, pg, kernel>>

\* A call of a library that gave r: the program goes on, or ends.
Call(lib, r, next) ==
  /\ handles' = [handles EXCEPT ![lib] = r.h]
  /\ IF r.ok THEN GoOn(next) ELSE Exit(1)

\* What the libraries' constructors and fork_format do.
Open(at, lib, r, next) ==
  /\ point = at /\ Call(lib, r, next)
  /\ UNCHANGED <<argv, opt, updates, tog, pg, kernel, hist>>
ForkFormat == point = "fork" /\ \E junk \in Garbage :
  LET r == StatNew(proc.stat, junk)
      g == StatGet(r.h, proc.stat, Forks, second, junk)
  IN /\ Exit(IF r.ok THEN 0 ELSE 1)
     /\ handles' = [handles EXCEPT !.stat = IF r.ok THEN StatUnref(g.h) ELSE r.h]
     /\ UNCHANGED <<argv, opt, updates, tog, pg, kernel, hist>>

\* A header was printed, then n lines.
AfterHeader(out) == [out EXCEPT !.since = 0]
Lines(out, n) == [out EXCEPT !.since = @ + n, !.lines = @ + 1]

-------------------------------------------------------------------------------
(* new_format: memory, swap, pages and cpu on a line.                       *)
VmNewInfo == Open("vmnew", "vm", VmNew(proc.vm), "statnew")
StatNewInfo == \E junk \in Garbage : Open("statnew", "stat", StatNew(proc.stat, junk), "memnew")
MemNewInfo == Open("memnew", "mem", MemNew(proc.mem), "pages")

\* VMSTAT_GET: a get that fails gives zero.
GetPages == VmGet(handles.vm, proc.vm, PgItem, second)

FirstPages ==
  /\ point = "pages"
  /\ handles' = [handles EXCEPT !.vm = GetPages.h] /\ pg' = [pg EXCEPT ![tog + 1] = GetPages.val]
  /\ hist' = [AfterHeader(hist) EXCEPT !.pg0 = GetPages.val, !.odd = ~GetPages.ok]
  /\ GoOn("memory") /\ UNCHANGED <<argv, opt, updates, tog, kernel>>

\* The memory is selected here, once. Without a first line there is one more
\* update, which is the one that waits.
FirstMemory ==
  /\ point = "memory" /\ Call("mem", MemSelect(handles.mem, proc.mem, Mem_items), "first")
  /\ UNCHANGED <<argv, opt, updates, tog, pg, kernel, hist>>
SkipFirst ==
  /\ point = "first" /\ opt.y
  /\ opt' = [opt EXCEPT !.num = (@ + 1) % ULong]
  /\ hist' = [hist EXCEPT !.base = handles.stat.sum.new["user"]]
  /\ GoOn("loop") /\ UNCHANGED <<argv, handles, updates, tog, pg, kernel>>

\* Since the start of the system; the pages are got once more.
FirstLine ==
  /\ point = "first" /\ ~opt.y
  /\ \E junk \in Garbage : LET r == StatSelect(handles.stat, proc.stat, First_stat_items, junk)
       IN /\ IF r.ok THEN GoOn("loop") ELSE Exit(1)
          /\ handles' = [handles EXCEPT !.stat = r.h, !.vm = IF r.ok THEN GetPages.h ELSE @]
  /\ hist' = [Lines(hist, 1) EXCEPT !.base = proc.stat.cpu["user"]]
  /\ UNCHANGED <<argv, opt, updates, tog, pg, kernel>>

\* for (i = 1; infinite_updates || i < num_updates; i++), with new_header.
More(n) == opt.infinite \/ n < opt.num
Loop ==
  /\ point = "loop" /\ updates < MaxLoops
  /\ GoOn(IF More(updates) THEN "sleep" ELSE "close")
  /\ UNCHANGED <<argv, opt, handles, updates, tog, pg, kernel, hist>>
LoopStat ==
  /\ point = "stat" /\ tog' = 1 - tog
  /\ \E junk \in Garbage : Call("stat", StatSelect(handles.stat, proc.stat, Loop_stat_items, junk), "line")
  /\ hist' = [IF opt.more /\ updates % opt.height = 0 THEN AfterHeader(hist) ELSE hist
              EXCEPT !.odd = @ \/ Backwards(WithSums(proc.stat.cpu), handles.stat.sum.new)]
  /\ UNCHANGED <<argv, opt, updates, pg, kernel>>

\* Guest time is in the user's; what is left of that is never less than zero.
LineOf(row, pages) ==
  [us |-> Max({0, row[2] - row[4]}), id |-> row[3], gu |-> row[4], bi |-> pages]
LoopLine ==
  /\ point = "line" /\ handles' = [handles EXCEPT !.vm = GetPages.h]
  /\ pg' = [pg EXCEPT ![tog + 1] = GetPages.val]
  /\ LET line == LineOf(handles.stat.selRow, (pg'[tog + 1] - pg'[2 - tog]) % ULong)
     IN hist' = [Lines(hist, 1) EXCEPT
          !.busy = @ + line.us + line.gu, !.pages = (@ + line.bi) % ULong,
          !.odd = @ \/ ~GetPages.ok \/ line.gu > handles.stat.selRow[2]]
  /\ updates' = updates + 1 /\ GoOn("loop") /\ UNCHANGED <<argv, opt, tog, kernel>>

\* sleep(sleep_time): time has gone on, by more when others run.
Sleep(next) ==
  /\ \E late \in 0 .. 1 : second' = second + opt.sleep + late
  /\ second' <= MaxSecond
  /\ GoOn(next) /\ UNCHANGED <<argv, opt, handles, updates, tog, pg, proc, changed>>
LoopSleep ==
  /\ point = "sleep" /\ Sleep("stat") /\ UNCHANGED hist

-------------------------------------------------------------------------------
(* The displays: a partition, the disks, the caches, sums.                  *)
Listed == \E k \in DOMAIN proc.disk.lines : proc.disk.lines[k].name = Partition
\* What the last three reads of the partition's file found.
Noted(reads, did) ==
  IF ~did THEN reads
  ELSE LET all == Append(reads, [at |-> second, listed |-> Listed])
       IN SubSeq(all, Max({1, Len(all) - 2}), Len(all))

AfterDiskNew == [partnew |-> "find", disknew |-> "round", sumdisk |-> "disksum"]
DiskNewInfo ==
  /\ point \in DOMAIN AfterDiskNew /\ Call("disk", DiskNew(proc.disk, second), AfterDiskNew[point])
  /\ hist' = [hist EXCEPT !.part = Noted(@, TRUE)]
  /\ UNCHANGED <<argv, opt, updates, tog, pg, kernel>>
SlabNewInfo == Open("slabnew", "slab", SlabNew(proc.slab), "round")

PartFind ==
  /\ point = "find"
  /\ LET g == DiskGet(handles.disk, proc.disk, Partition, "TYPE", second)
     IN /\ Call("disk", g, "round")
        /\ hist' = [hist EXCEPT !.part = Noted(@, second - handles.disk.newStamp >= 1)]
  /\ UNCHANGED <<argv, opt, updates, tog, pg, kernel>>

\* Row j of a display, the first is row 1, comes under a new header.
HeaderAt(j) == opt.more /\ (j - 1) % opt.height = 0

\* What a display prints of n rows: those that are shown, and the headers that
\* are due at one of them.
Printed(n, shown) ==
  LET out[j \in 0 .. n] ==
        IF j = 0 THEN <<>>
        ELSE IF j \notin shown THEN out[j - 1]
        ELSE out[j - 1] \o (IF HeaderAt(j) THEN <<"header", "row">> ELSE <<"row">>)
  IN out[n]

\* A call for the round's rows, which gave r and prints out.
Round(lib, r, out) ==
  /\ Call(lib, r, "next")
  /\ hist' = IF r.ok THEN [Lines(hist, 0) EXCEPT !.out = out] ELSE hist
  /\ UNCHANGED <<argv, opt, updates, tog, pg, kernel>>
Rounds == point = "round" /\ updates < MaxLoops

PartRound ==
  /\ Rounds /\ "part" \in opt.modes /\ More(updates)
  /\ LET r == DiskSelect(handles.disk, proc.disk, Partition, Part_items, second)
     IN /\ Call("disk", r, "next")
        /\ hist' = [hist EXCEPT !.part = Noted(@, TRUE),
                      !.lines = IF r.ok THEN @ + 1 ELSE @, !.out = IF r.ok THEN <<"row">> ELSE <<>>]
  /\ UNCHANGED <<argv, opt, updates, tog, pg, kernel>>
DiskRound ==
  /\ Rounds /\ "disk" \in opt.modes /\ More(updates)
  /\ LET r == DiskReap(handles.disk, proc.disk, Disk_items, second)
         n == r.h.fetch.total
     IN Round("disk", r, IF r.ok THEN Printed(n, {j \in 1 .. n : r.h.rows[j][1] = "disk"}) ELSE <<>>)
SlabRound ==
  /\ Rounds /\ "slab" \in opt.modes /\ More(updates)
  /\ LET r == SlabReap(handles.slab, proc.slab, Node_items)
         sorted == IF r.ok
                   THEN [r EXCEPT !.h.rows = SlabSort(@, Node_items, Node_items[2], TRUE)] ELSE r
         n == r.h.fetch.total
     IN Round("slab", sorted, IF r.ok THEN Printed(n, 1 .. n) ELSE <<>>)
\* They sleep between rounds only.
Between ==
  /\ \/ point = "next" /\ updates' = updates + 1 /\ GoOn(IF More(updates + 1) THEN "nap" ELSE "round")
     \/ Rounds /\ ~More(updates) /\ UNCHANGED updates /\ GoOn("close")
  /\ UNCHANGED <<argv, opt, handles, tog, pg, kernel, hist>>
Nap == point = "nap" /\ Sleep("round") /\ UNCHANGED hist

\* disksum_format reaps once.
DiskSum ==
  /\ point = "disksum" /\ Call("disk", DiskReap(handles.disk, proc.disk, Disk_items, second), "close")
  /\ UNCHANGED <<argv, opt, updates, tog, pg, kernel, hist>>

\* sum_format, in the order in which it opens and reads.
SumStat == \E junk \in Garbage : Open("sumstat", "stat", StatNew(proc.stat, junk), "sumsel")
SumStatSelect == \E junk \in Garbage :
  Open("sumsel", "stat", StatSelect(handles.stat, proc.stat, First_stat_items, junk), "sumvm")
SumVm == Open("sumvm", "vm", VmNew(proc.vm), "summem")
SumMem == Open("summem", "mem", MemNew(proc.mem), "summemsel")
SumMemSelect == Open("summemsel", "mem", MemSelect(handles.mem, proc.mem, Mem_items), "sumget")
SumPages == Open("sumget", "vm", [ok |-> TRUE, h |-> GetPages.h], "close")

\* A mutant of Close: the partition's display returns before its unref.
CloseKeepsDisk ==
  /\ point = "close" /\ Exit(0)
  /\ handles' = [handles EXCEPT !.vm = VmUnref(@), !.stat = StatUnref(@), !.mem = MemUnref(@), !.slab = SlabUnref(@)]
  /\ UNCHANGED <<argv, opt, updates, tog, pg, kernel, hist>>

\* The handles are released and the process ends.
Close ==
  /\ point = "close" /\ Exit(0)
  /\ handles' = [vm |-> VmUnref(handles.vm), stat |-> StatUnref(handles.stat), mem |-> MemUnref(handles.mem),
               disk |-> DiskUnref(handles.disk), slab |-> SlabUnref(handles.slab)]
  /\ UNCHANGED <<argv, opt, updates, tog, pg, kernel, hist>>

\* The kernel: its files matter only where one is read next.
FilesChange ==
  /\ point \notin {"args", "done", "close", "loop", "next"}
  /\ changed < MaxFileChanges /\ changed' = changed + 1
  /\ \E f \in FilesMay(proc) : FilesOk(f) /\ proc' = f
  /\ UNCHANGED <<argv, opt, point, code, handles, updates, tog, pg, second, hist>>

Program ==
  \/ Option \/ Operands \/ ForkFormat \/ VmNewInfo \/ StatNewInfo \/ MemNewInfo
  \/ FirstPages \/ FirstMemory \/ SkipFirst \/ FirstLine \/ Loop \/ LoopSleep \/ LoopStat \/ LoopLine
  \/ DiskNewInfo \/ SlabNewInfo \/ PartFind \/ PartRound \/ DiskRound \/ SlabRound \/ Between \/ Nap
  \/ DiskSum \/ SumStat \/ SumStatSelect \/ SumVm \/ SumMem \/ SumMemSelect \/ SumPages \/ Close
VmstatNext == Program \/ FilesChange

\* The program is scheduled: WF_vmstatVars(Program), where Program is enabled until
\* it has ended or met a bound of the model.
CanStep == /\ point # "done"
           /\ point \in {"loop", "round"} => updates < MaxLoops
           /\ point \in {"sleep", "nap"} => second + opt.sleep <= MaxSecond
VmstatFairness == []<>~CanStep \/ []<><<Program>>_vmstatVars
VmstatSpec == VmstatInit /\ [][VmstatNext]_vmstatVars /\ VmstatFairness

-------------------------------------------------------------------------------
(* What is open is what the mode uses; nothing is left open on the way out  *)
(* of a run that went well.                                                 *)
VmstatTypeOK ==
  /\ updates \in 0 .. MaxLoops /\ tog \in {0, 1} /\ code \in -1 .. 1
  /\ pg \in Seq(0 .. ULong - 1) /\ opt.num \in 0 .. ULong - 1
  /\ (point = "done") = (code # -1)
  /\ point = "done" /\ code = 0 => \A lib \in DOMAIN handles : handles[lib].ref = 0

(* The columns of the lines add up to what happened between the first       *)
(* sample and the last, each tick and each page once, with -y and without,  *)
(* as long as no time ran backwards and every read succeeded                *)
(* (vmstat.c:385-533: the toggled pages, the changes of the select).        *)
CountedOnce ==
  point = "loop" /\ ~hist.odd =>
    /\ hist.busy = handles.stat.sum.new["user"] - hist.base
    /\ hist.pages = (pg[tog + 1] - hist.pg0) % ULong

(* A run with a count that ends well has printed that many lines or         *)
(* displays, whether or not the first is skipped (vmstat.c:448, 451, 588).  *)
LinesAsAsked ==
  point = "done" /\ code = 0 /\ hist.asked > 0 /\ ~opt.infinite
    /\ Cardinality(opt.modes) < 2 /\ opt.modes \cap {"sum", "disksum"} = {}
    /\ argv.opts = <<>> /\ hist.asked + 1 < ULong
    => hist.lines = hist.asked

(* A line of a partition is of a device that was there at this read, at the *)
(* one before or at another in the second of that one (diskstats.c:372).    *)
PartitionNotStale ==
  point = "next" /\ "part" \in opt.modes =>
    LET p == hist.part  n == Len(p)
    IN p[n].listed \/ \E k \in 1 .. n - 1 : p[k].listed /\ p[k].at = p[n - 1].at

(* A screen never shows more than height lines without a header: of the     *)
(* vmstat lines across updates, of the caches within one display            *)
(* (vmstat.c:453, 777, 1062).                                               *)
HeaderInView ==
  opt.more =>
    /\ opt.height > 0 /\ opt.modes = {} => hist.since <= opt.height
    /\ point = "next" /\ "slab" \in opt.modes /\ hist.out # <<>> =>
         /\ hist.out[1] = "header"
         /\ \A k \in DOMAIN hist.out : k + opt.height \in DOMAIN hist.out =>
              \E j \in k .. k + opt.height : hist.out[j] = "header"

(* The columns and the lines are as many as there were ticks, pages and     *)
(* updates asked for.                                                       *)
CountsAsAsked == CountedOnce /\ LinesAsAsked

(* A line shows a device that is there, and a header that says what it      *)
(* shows is in view.                                                        *)
LinesOfNow == PartitionNotStale /\ HeaderInView

(* A run with a count ends, whatever the kernel's files hold.               *)
VmstatEnds ==
  (point # "args" /\ (Len(argv.args) # 1 \/ point = "fork")) ~> point = "done"

===============================================================================
