------------------------------- MODULE ReadProc -------------------------------
(***************************************************************************)
(* readproc.c: a scan of /proc, by process or by thread.  The kernel k is  *)
(* [procs |-> the threads of each process, the leader first,               *)
(*  task |-> what its files say of each thread].  A directory is listed by *)
(* one read of it, when it is opened; its tasks may be gone when they are  *)
(* read.  A task's identity is its "born", which a reused id does not      *)
(* share; its name is that too.  Of the files that may be missing, statm   *)
(* stands for those of numbers, cmdline for those of a string.             *)
(* The operators take a scan to the scan after the next step of it that    *)
(* looks at the kernel.  Allocations succeed.                              *)
(***************************************************************************)
EXTENDS Integers, Sequences, FiniteSets, SequencesExt

\* A proc_t; 0 is a string that is not there.
NoProc == [tid |-> 0, tgid |-> 0, state |-> "", tics |-> 0, nlwp |-> 0, res |-> 0, swap |-> 0,
           cmd |-> 0, supgid |-> 0, cmdline |-> 0, pcpu |-> 0]
Strings == {"cmd", "supgid", "cmdline"}
Count(x, fields) == Cardinality({f \in fields : x[f] # 0})

\* at: what is next; x: the caller's proc_t; live: the strings allocated.
\* skel and newp are static: they outlive the scan.
NoScan == [at |-> "closed", either |-> FALSE, listed |-> FALSE, flags |-> {}, ids |-> <<>>,
           dir |-> FALSE, user |-> -1, tasks |-> <<>>, todo |-> <<>>,
           skel |-> [tid |-> 0, tgid |-> 0], newp |-> FALSE, x |-> NoProc, live |-> 0]

\* The strings that the caller did not take, cmdline is always taken.
FreeAcquired(s) ==
  [s EXCEPT !.x = NoProc, !.live = @ - Count(s.x, {"cmd", "supgid"})]

\* A call for the next one; with threads, the rest of a process comes first.
Enter(s) ==
  [FreeAcquired(s) EXCEPT !.at = IF s.either /\ s.newp THEN "task" ELSE "find", !.newp = FALSE]

Openproc(s, k, either, flags, listed, ids) ==
  Enter([s EXCEPT !.either = either, !.flags = flags, !.listed = listed,
                  !.ids = IF listed THEN ids ELSE SetToSortSeq(DOMAIN k.procs, <),
                  !.dir = FALSE, !.user = -1, !.tasks = <<>>, !.todo = <<>>])
Closeproc(s) ==
  [s EXCEPT !.at = "closed", !.ids = <<>>, !.dir = FALSE, !.user = -1, !.tasks = <<>>, !.todo = <<>>]

Files == <<"dir", "stat", "statm", "status", "cmdline">>
Todo(flags) == SelectSeq(Files, LAMBDA f : f \in flags \cup {"dir"})
Tgid(k, tid) == CHOOSE p \in DOMAIN k.procs : Contains(k.procs[p], tid)

\* The finder: of a listed id, the status file gives the process, or the id
\* is taken for it.
Find(s, k) ==
  IF s.ids = <<>> THEN [s EXCEPT !.at = "end"]
  ELSE LET pid == Head(s.ids)
           who == [tid |-> pid,
                   tgid |-> IF s.listed /\ pid \in DOMAIN k.task THEN Tgid(k, pid) ELSE pid]
           t == [s EXCEPT !.ids = Tail(@)]
       IN IF s.either THEN [t EXCEPT !.skel = who, !.at = "task"]
          ELSE [t EXCEPT !.x.tid = who.tid, !.x.tgid = who.tgid,
                         !.at = "read", !.todo = Todo(s.flags)]

\* The next thread of the process, whose directory is opened for the first.
\* One that cannot be opened leaves no directory, but the user of the last:
\* a readdir for that user would have none to read.
NextTid(s, k) ==
  LET opens == s.user # s.skel.tgid
      there == s.skel.tgid \in DOMAIN k.procs
      o == IF opens /\ there
           THEN [s EXCEPT !.dir = TRUE, !.user = s.skel.tgid, !.tasks = k.procs[s.skel.tgid]]
           ELSE s
  IN CASE opens /\ ~there -> [s EXCEPT !.dir = FALSE, !.tasks = <<>>, !.at = "find"]
       [] ~opens /\ ~s.dir -> [s EXCEPT !.at = "crash"]
       [] OTHER ->
            IF o.tasks = <<>> THEN [o EXCEPT !.at = "find"]
            ELSE [o EXCEPT !.tasks = Tail(@), !.x.tid = Head(o.tasks), !.x.tgid = s.skel.tgid,
                           !.at = "read", !.todo = Todo(s.flags)]

\* What the files put into the proc_t; a name that is there stays.
Stat2proc(x, t, k) ==
  [x EXCEPT !.state = t.state, !.tics = t.tics, !.cmd = IF @ = 0 THEN t.born ELSE @,
            !.nlwp = Len(k.procs[Tgid(k, x.tid)])]
Statm2proc(x, t) == [x EXCEPT !.res = t.res]
Status2proc(x, t, k) ==
  [x EXCEPT !.state = t.state, !.cmd = IF @ = 0 THEN t.born ELSE @, !.supgid = t.born, !.swap = t.swap,
            !.nlwp = Len(k.procs[Tgid(k, x.tid)]), !.tgid = Tgid(k, x.tid)]

Fill(f, x, t, k) ==
  CASE f = "dir" -> x
    [] f = "stat" -> Stat2proc(x, t, k)
    [] f = "statm" -> Statm2proc(x, t)
    [] f = "status" -> Status2proc(x, t, k)
    [] f = "cmdline" -> [x EXCEPT !.cmdline = t.born]

\* What is made of a file that is not there: a string is "?".
Missing(f, x) == IF f = "cmdline" THEN [x EXCEPT !.cmdline = -1] ELSE x

\* A leader's files are the process's own, another thread's are below it.
There(s, k) ==
  IF s.either /\ s.x.tid # s.skel.tid
  THEN s.x.tgid \in DOMAIN k.procs /\ Contains(k.procs[s.x.tgid], s.x.tid)
  ELSE s.x.tid \in DOMAIN k.task

\* A task whose directory or stat file is gone is not returned: the search
\* goes on with the next process, whichever task of this one it was.
Lost(s) == [s EXCEPT !.at = "find", !.todo = <<>>]

\* The next file of the task, or what the call returns.
ReadFile(s, k) ==
  IF s.todo = <<>> THEN [s EXCEPT !.at = "got", !.newp = s.either]
  ELSE LET f == Head(s.todo)
           x == IF There(s, k) THEN Fill(f, s.x, k.task[s.x.tid], k) ELSE Missing(f, s.x)
       IN IF ~There(s, k) /\ f \in {"dir", "stat"} THEN Lost(s)
          ELSE [s EXCEPT !.x = x, !.todo = Tail(@),
                         !.live = @ + Count(x, Strings) - Count(s.x, Strings)]

ScanStep(s, k) ==
  CASE s.at = "find" -> Find(s, k)
    [] s.at = "task" -> NextTid(s, k)
    [] s.at = "read" -> ReadFile(s, k)

\* Whether the next step depends on the kernel.
Looks(s) == \/ s.at = "task" /\ s.user # s.skel.tgid
            \/ s.at = "read" /\ s.todo # <<>>
            \/ s.at = "find" /\ s.listed /\ s.ids # <<>>
===============================================================================
