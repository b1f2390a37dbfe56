--------------------------------- MODULE Pids ---------------------------------
(***************************************************************************)
(* pids.c: the tasks as a handle.  The items a caller asks for say which   *)
(* files a scan reads; the results of a task are a row; a string goes from *)
(* the proc_t to the row that shows it.  The ticks of a task since the     *)
(* last fetch come from a history of two samples, an array and a hash      *)
(* table each, that change places at every fetch.  Allocations succeed.    *)
(***************************************************************************)
EXTENDS ReadProc, TLC

CONSTANTS
  StacksInit, StacksGrow,   \* STACKS_INIT, STACKS_GROW
  NewOldInit, NewOldGrow,   \* NEWOLD_INIT, NEWOLD_GROW
  IdMax,                    \* FILL_ID_MAX
  UInt                      \* 2 ^ the width of an unsigned int

Item(of, file, str, hist) == [of |-> of, file |-> file, str |-> str, hist |-> hist]

\* The field an item shows, the file that has it, whether the string of it is
\* the row's own, and whether it needs the history.
ItemTable ==
  [noop           |-> Item("", "", FALSE, FALSE),
   extra          |-> Item("", "", FALSE, FALSE),
   ID_PID         |-> Item("tid", "", FALSE, FALSE),
   NLWP           |-> Item("nlwp", "either", FALSE, FALSE),
   CMD            |-> Item("cmd", "either", TRUE, FALSE),
   CMDLINE        |-> Item("cmdline", "cmdline", TRUE, FALSE),
   MEM_RES        |-> Item("res", "statm", FALSE, FALSE),
   VM_SWAP        |-> Item("swap", "status", FALSE, FALSE),
   SUPGIDS        |-> Item("supgid", "status", TRUE, FALSE),
   TICS_ALL       |-> Item("tics", "stat", FALSE, FALSE),
   TICS_ALL_DELTA |-> Item("pcpu", "stat", FALSE, TRUE)]
    @@ ("STATE" :> Item("state", "either", FALSE, FALSE))
Owned(item) == ItemTable[item].str

PidsItemsOk(items) == Len(items) >= 1 /\ Range(items) \subseteq DOMAIN ItemTable
NoRow(items) == [item \in Range(items) |-> IF item = "STATE" THEN "" ELSE 0]

LibflagsSet(h) ==
  LET files == {ItemTable[item].file : item \in Range(h.items)}
  IN [h EXCEPT !.flags = IF "either" \in files /\ files \cap {"stat", "status"} = {}
                         THEN files \cup {"stat"} ELSE files,
               !.hist_yes = \E item \in Range(h.items) : ItemTable[item].hist]

\* n: num_tasks; the arrays' slots; the hash tables as the slots they chain.
NoHist == [n |-> 0, siz |-> NewOldInit, sav |-> <<>>, new |-> <<>>,
           savHash |-> {}, newHash |-> {}]
NoCounts == [running |-> 0, sleeping |-> 0, stopped |-> 0, zombied |-> 0, other |-> 0, total |-> 0]

\* rows: the stacks the anchor lists, inuse of them for the last fetch; saved:
\* the room for the caller's copy of it; sc: the scan and the proc_t.
NoPids == [ref |-> 0]
PidsNew(items) ==
  LibflagsSet([ref |-> 1, items |-> items, maxitems |-> Len(items) + 1, flags |-> {},
               hist_yes |-> FALSE, rows |-> <<>>, inuse |-> 0, saved |-> 0,
               counts |-> NoCounts, hist |-> NoHist, sc |-> NoScan])

\* Rows without what they hold.
Held(row) == Cardinality({item \in DOMAIN row : Owned(item) /\ row[item] # 0})
CleanupStacks(h) ==
  [h EXCEPT !.rows = [r \in DOMAIN h.rows |-> NoRow(h.items)],
            !.sc.live = FoldLeft(LAMBDA n, row : n - Held(row), @, h.rows)]

PidsRef(h) == [h EXCEPT !.ref = @ + 1]
PidsUnref(h) == IF h.ref < 2 THEN [ref |-> 0, sc |-> CleanupStacks(h).sc]
                ELSE [h EXCEPT !.ref = @ - 1]

\* Other items: the stacks are itemized anew, or freed when they are too short.
PidsReset(h, items) ==
  LET c == CleanupStacks(h)
      deeper == h.maxitems < Len(items) + 1
  IN CASE ~PidsItemsOk(items) -> [ok |-> FALSE, h |-> h]
       [] PidsItemsOk(items) /\ items = h.items -> [ok |-> TRUE, h |-> c]
       [] OTHER ->
            [ok |-> TRUE,
             h |-> LibflagsSet([c EXCEPT
                     !.items = items,
                     !.maxitems = IF deeper THEN Len(items) + 1 ELSE @,
                     !.rows = IF deeper THEN <<>> ELSE [r \in DOMAIN @ |-> NoRow(items)]])]

\* The sample of a task that was put last.
HistGet(hist, tid) ==
  LET slots == {s \in hist.savHash : hist.sav[s].tid = tid}
  IN IF slots = {} THEN 0 ELSE hist.sav[Max(slots)].tics

\* A task's sample, and its ticks since the last one: all for a task without.
MakeHist(h) ==
  LET slot == h.hist.n + 1
      x == h.sc.x
  IN [h EXCEPT !.hist = [@ EXCEPT !.n = slot,
                                  !.siz = IF slot >= @ THEN @ + NewOldGrow ELSE @,
                                  !.new = [s \in 1 .. Max({slot, Len(@)}) |->
                                             IF s = slot THEN [tid |-> x.tid, tics |-> x.tics]
                                             ELSE @[s]],
                                  !.newHash = @ \cup {slot}],
               !.sc.x.pcpu = (x.tics - HistGet(h.hist, x.tid)) % UInt]

\* A mutant of ToggleHistory: the table of the last fetch but one stays.
ToggleHistoryNot(hist) ==
  [hist EXCEPT !.n = 0, !.sav = hist.new, !.new = hist.sav,
               !.savHash = hist.newHash, !.newHash = hist.savHash]

ToggleHistory(hist) ==
  [hist EXCEPT !.n = 0, !.sav = hist.new, !.new = hist.sav,
               !.savHash = hist.newHash, !.newHash = {}]

StateCount(state) == CASE state = "R" -> "running"
                       [] state \in {"D", "S"} -> "sleeping"
                       [] state \in {"t", "T"} -> "stopped"
                       [] state = "Z" -> "zombied"
                       [] OTHER -> "other"
ProcTally(h) ==
  LET t == [h EXCEPT !.counts[StateCount(h.sc.x.state)] = @ + 1, !.counts.total = @ + 1]
  IN IF h.hist_yes THEN MakeHist(t) ELSE t

\* The task's results. A row frees the strings it has, and takes those of the
\* proc_t; one that is not there leaves a hint of its own.
Assigned(row, x) ==
  [item \in DOMAIN row |->
     CASE item = "noop" -> row[item]
       [] item = "extra" -> 0
       [] Owned(item) /\ x[ItemTable[item].of] = 0 -> -1
       [] OTHER -> x[ItemTable[item].of]]
Assign(h, r) ==
  LET x == h.sc.x
      row == Assigned(h.rows[r], x)
      taken == {ItemTable[item].of : item \in {i \in DOMAIN row : Owned(i)}}
      hints == {item \in DOMAIN row : Owned(item) /\ x[ItemTable[item].of] = 0}
  IN [h EXCEPT !.rows[r] = row,
               !.sc.x = [f \in DOMAIN x |-> IF f \in taken THEN 0 ELSE x[f]],
               !.sc.live = @ - Held(h.rows[r]) + Cardinality(hints)]

\* A fetch: of all tasks or of those listed, of processes or of threads.
FetchOpen(h, k, threads, ids) ==
  LET fresh == IF h.rows = <<>> THEN [r \in 1 .. StacksInit |-> NoRow(h.items)] ELSE h.rows
  IN [h EXCEPT !.rows = fresh, !.hist = ToggleHistory(@), !.counts = NoCounts, !.inuse = 0,
               !.sc = Openproc(@, k, threads, h.flags, ids # <<>>, ids)]

PidsGrow(h) ==
  IF h.inuse < Len(h.rows) THEN h
  ELSE [h EXCEPT !.rows = @ \o [r \in 1 .. StacksGrow |-> NoRow(h.items)]]

\* The scan has found a task; the next call of it follows.
FetchNext(h) ==
  LET t == Assign(ProcTally(PidsGrow(h)), h.inuse + 1)
  IN [t EXCEPT !.inuse = @ + 1, !.sc = Enter(@)]
FetchScan(h, k) == [h EXCEPT !.sc = ScanStep(@, k)]

\* A mutant of Delimited: no room for the delimiter.
DelimitedNot(saved, n) == IF saved < n THEN n ELSE saved
Delimited(saved, n) == IF saved < n + 1 THEN n + 1 ELSE saved
FetchEnd(h) == [h EXCEPT !.saved = Delimited(@, h.inuse), !.sc = Closeproc(@)]

\* A reap must have found a task, a select need not have.
ReapOk(h) == h.inuse > 0
SelectIdsOk(ids) == Len(ids) \in 1 .. IdMax

\* The rows of the last fetch, ordered by an item they have.
Fetched(h) == SubSeq(h.rows, 1, h.inuse)
PidsSort(rows, item, up) ==
  SortSeq(rows, LAMBDA a, b : IF up THEN a[item] < b[item] ELSE a[item] > b[item])
===============================================================================
