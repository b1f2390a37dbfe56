-------------------------------- MODULE ProcLib -------------------------------
(***************************************************************************)
(* A caller of one of the procps libraries that makes any calls in any     *)
(* order, while the file under /proc changes, cannot be read for a while   *)
(* or has a line the library does not understand, and the clock moves on.  *)
(* reads, goodAt, last and refs are history: what the reads of the file    *)
(* found (kept where changes are compared), when one succeeded, the last   *)
(* call, and the references the caller holds.                              *)
(***************************************************************************)
EXTENDS ProcFiles

CONSTANTS
  Libs,         \* the libraries a caller may use
  Start(_),     \* the file a library's caller finds first
  Change(_, _), \* how a library's file may change
  Items(_),     \* the lists of items that are asked for
  Junk,         \* what may be in memory that has not been written
  MaxCalls, MaxChanges, MaxClock

ASSUME ProcLibAssumption ==
  /\ Libs \subseteq {"stat", "disk", "slab", "mem", "vm"}
  /\ \A l \in Libs : FileOk(l, Start(l))

VARIABLES
  lib,       \* the library
  h,         \* its handle; a record whose ref is 0 when there is none
  file,      \* the file
  clock,     \* the second
  changes,   \* how often the file has changed
  calls,     \* how many calls were made
  refs,      \* references the caller holds
  reads,     \* what the last three reads found
  goodAt,    \* the second of the last read that succeeded
  last       \* the last call: its name, whether it succeeded, and its items

libVars == <<lib, h, file, clock, changes, calls, refs, reads, goodAt, last>>

Unread == [file |-> [status |-> "none"], at |-> -1]
None == [op |-> "none", ok |-> TRUE, items |-> <<>>, at |-> 0]

LibInit ==
  /\ lib \in Libs /\ h = [ref |-> 0] /\ file = Start(lib)
  /\ clock = 1 /\ goodAt = 0 /\ changes = 0 /\ calls = 0 /\ refs = 0
  /\ reads = <<Unread, Unread, Unread>> /\ last = None

\* Whether a call reads: all but those whose items are not right, and a get in
\* the second of the last one.
Table ==
  CASE lib = "stat" -> StatTable [] lib = "disk" -> DiskTable [] lib = "slab" -> SlabTable
    [] lib = "mem" -> MemTable [] lib = "vm" -> VmTable
Reads(op, items) ==
  \/ op = "new"
  \/ op \in {"select", "reap"} /\ ItemsOk(items, Table)
  \/ op = "get" /\ clock - (IF lib = "disk" THEN h.newStamp ELSE h.secs) >= 1

\* A call that returned r.
Called(op, items, r) ==
  /\ calls < MaxCalls /\ calls' = calls + 1
  /\ h' = r.h
  /\ reads' = IF Reads(op, items) /\ lib \in {"stat", "disk"}
              THEN <<IF lib = "disk" THEN reads[2] ELSE Unread, reads[3],
                     [file |-> file, at |-> clock]>>
              ELSE reads
  /\ goodAt' = IF Reads(op, items) /\ r.ok THEN clock ELSE goodAt
  /\ last' = [op |-> op, ok |-> r.ok, items |-> items, at |-> clock]
  /\ UNCHANGED <<lib, file, clock, changes>>

NewOf(junk) ==
  CASE lib = "stat" -> StatNew(file, junk) [] lib = "disk" -> DiskNew(file, clock)
    [] lib = "slab" -> SlabNew(file) [] lib = "mem" -> MemNew(file)
    [] lib = "vm" -> VmNew(file)
SelectOf(items, junk) ==
  CASE lib = "stat" -> StatSelect(h, file, items, junk)
    [] lib = "disk" -> DiskSelect(h, file, 1, items, clock)
    [] lib = "slab" -> SlabSelect(h, file, items) [] lib = "mem" -> MemSelect(h, file, items)
    [] lib = "vm" -> VmSelect(h, file, items)
GetOf(item, junk) ==
  CASE lib = "stat" -> StatGet(h, file, item, clock, junk)
    [] lib = "disk" -> DiskGet(h, file, 1, item, clock)
    [] lib = "slab" -> SlabGet(h, file, item, clock) [] lib = "mem" -> MemGet(h, file, item, clock)
    [] lib = "vm" -> VmGet(h, file, item, clock)

New ==
  /\ h.ref = 0 /\ refs = 0
  /\ \E junk \in Junk : LET r == NewOf(junk)
                        IN Called("new", <<1>>, r) /\ refs' = IF r.ok THEN 1 ELSE 0
Select ==
  /\ h.ref > 0 /\ UNCHANGED refs
  /\ \E items \in Items(lib), junk \in Junk : Called("select", items, SelectOf(items, junk))
Get ==
  /\ h.ref > 0 /\ UNCHANGED refs
  /\ \E items \in Items(lib) \ {<<>>}, junk \in Junk :
       LET r == GetOf(items[1], junk) IN Called("get", items, [ok |-> r.ok, h |-> r.h])
Reap ==
  /\ h.ref > 0 /\ UNCHANGED refs
  /\ \E items \in Items(lib), numa \in BOOLEAN, junk \in Junk :
       \/ lib = "stat" /\ Called("reap", items, StatReap(h, file, numa, items, junk))
       \/ lib = "disk" /\ numa /\ Called("reap", items, DiskReap(h, file, items, clock))
       \/ lib = "slab" /\ numa /\ Called("reap", items, SlabReap(h, file, items))

\* The caller orders the rows of its last reap by their first item.
Sort ==
  /\ last.op = "reap" /\ last.ok /\ UNCHANGED refs
  /\ \E up \in BOOLEAN :
       \/ /\ lib = "stat"
          /\ Called("sort", last.items, [ok |-> TRUE, h |-> [h EXCEPT !.cpuRows = StatSort(@, 1, up)]])
       \/ /\ lib = "disk"
          /\ Called("sort", last.items, [ok |-> TRUE, h |-> [h EXCEPT !.rows = DiskSort(@, 1, up)]])
       \/ /\ lib = "slab"
          /\ Called("sort", last.items, [ok |-> TRUE,
                h |-> [h EXCEPT !.rows = SlabSort(@, last.items, last.items[1], up)]])

Ref ==
  /\ h.ref > 0 /\ refs < 2 /\ refs' = refs + 1
  /\ Called("ref", <<>>,
       [ok |-> TRUE,
        h |-> CASE lib = "stat" -> StatRef(h) [] lib = "disk" -> DiskRef(h)
                [] lib = "slab" -> SlabRef(h) [] lib = "mem" -> MemRef(h) [] lib = "vm" -> VmRef(h)])
Unref ==
  /\ h.ref > 0 /\ refs > 0 /\ refs' = refs - 1
  /\ Called("unref", <<>>,
       [ok |-> TRUE,
        h |-> CASE lib = "stat" -> StatUnref(h) [] lib = "disk" -> DiskUnref(h)
                [] lib = "slab" -> SlabUnref(h) [] lib = "mem" -> MemUnref(h)
                [] lib = "vm" -> VmUnref(h)])

FileChanges ==
  /\ changes < MaxChanges /\ changes' = changes + 1
  /\ \E f \in Change(lib, file) : FileOk(lib, f) /\ file' = f
  /\ UNCHANGED <<lib, h, clock, calls, refs, reads, goodAt, last>>
Tick ==
  /\ clock < MaxClock /\ clock' = clock + 1
  /\ UNCHANGED <<lib, h, file, changes, calls, refs, reads, goodAt, last>>

LibNext == New \/ Select \/ Get \/ Reap \/ Sort \/ Ref \/ Unref \/ FileChanges \/ Tick
LibSpec == LibInit /\ [][LibNext]_libVars

-------------------------------------------------------------------------------
(* Every result and its delimiter have a place: the extents, the anchor and *)
(* the caller's copy grow together whatever items are asked for and however *)
(* many cpus, nodes, devices or caches come and go (stat.c:757, 1028,       *)
(* diskstats.c:619, slabinfo.c:648); and the library has the references the *)
(* caller has.                                                              *)
ResultsFit ==
  /\ h.ref = refs
  /\ h.ref > 0 =>
       /\ lib = "stat" => /\ FetchFits(h.cpuExt, h.cpuFetch) /\ FetchFits(h.nodeExt, h.nodeFetch)
                          /\ h.inuse < Len(h.cpus)
                          /\ h.nodeFetch.saved > 0 \/ h.sumRow = <<>>
       /\ lib = "disk" => FetchFits(h.ext, h.fetch)
       /\ lib = "slab" => FetchFits(h.ext, h.fetch) /\ h.used <= h.alloc

\* The last call was a reap of both the rows' names and their changes, and it
\* and the read before it found a good file.
Changes == /\ h.ref > 0 /\ last.op = "reap" /\ last.ok
           /\ \A k \in {2, 3} : reads[k].file.status = "fine"
TrueChange(now, before, x) ==
  LET new == WithSums(now)  old == WithSums(before)
  IN IF Backwards(new, old) \/ new[x] < old[x] THEN 0 ELSE new[x] - old[x]

(* A change that a reap shows is one of the named thing since the previous  *)
(* read: of the summary always, of a cpu as long as the same cpus were on   *)
(* line, with no memory that was never written in it (stat.c:547); of a     *)
(* disk that both reads listed, and none of a disk that the read before did *)
(* not list, unless it was one of two in a second (diskstats.c:372, 397).   *)
ChangesAreReal ==
  LET f == reads[3].file  g == reads[2].file
  IN Changes =>
       /\ lib = "stat" => \A k \in DOMAIN last.items : LET i == last.items[k] IN
            i.src = "tic" /\ i.delta =>
              /\ h.sumRow[k] = TrueChange(f.cpu, g.cpu, i.of)
              /\ [j \in DOMAIN f.cpus |-> f.cpus[j].id] = [j \in DOMAIN g.cpus |-> g.cpus[j].id]
                   => \A j \in DOMAIN f.cpus :
                        h.cpuRows[j][k] = TrueChange(f.cpus[j].jif, g.cpus[j].jif, i.of)
       /\ lib = "disk" /\ last.items = <<"NAME", "DELTA_IO">> => \A r \in DOMAIN h.rows :
            LET listed(x) == x.file.status = "fine" /\
                               \E i \in DOMAIN x.file.lines : x.file.lines[i].name = h.rows[r][1]
                val(x) == x.file.lines[CHOOSE i \in DOMAIN x.file.lines :
                                         x.file.lines[i].name = h.rows[r][1]].val
            IN listed(reads[3]) =>
                 /\ listed(reads[2]) => h.rows[r][2] = val(reads[3]) - val(reads[2])
                 /\ ~ listed(reads[2]) /\ reads[1].at # reads[2].at => h.rows[r][2] = 0

(* What is derived of the memory stays within what it is derived from, also *)
(* in a container that is told values of its host (meminfo.c:687-716).      *)
MemWithinTotal ==
  lib = "mem" /\ h.ref > 0 =>
    LET m == h.hist.new
    IN m.MemFree <= m.MemTotal =>
         /\ m.MemAvailable <= m.MemTotal /\ m.mem_used <= m.MemTotal
         /\ m.swap_used <= m.SwapTotal /\ m.mem_lo_used <= m.LowTotal
         /\ m.MemFree + m.mem_cached + m.Buffers <= m.MemTotal
              => m.mem_used + m.MemFree + m.mem_cached + m.Buffers = m.MemTotal

(* A get that fails leaves nothing that a get in the same second would take *)
(* for a sample: one that succeeds follows a good read of its own second    *)
(* (stat.c:990, slabinfo.c:839, meminfo.c:882, proc_vmstat.c:1376).         *)
GetReadsAgain ==
  lib # "disk" /\ last.op = "get" /\ last.ok => goodAt = last.at
===============================================================================
