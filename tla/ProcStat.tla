------------------------------- MODULE ProcStat -------------------------------
(***************************************************************************)
(* stat.c: /proc/stat as a handle with two samples ("new" and "old") of    *)
(* the cpu summary, of each cpu line and of the system's counters.  The    *)
(* times of a cpu are three here: user stands for what counts as busy,     *)
(* idle for what counts as idle, guest for the two in neither.             *)
(* A function of the library is an operator from a handle to the handle it *)
(* leaves.  Allocations succeed.                                           *)
(***************************************************************************)
EXTENDS Stacks, FiniteSetsExt, TLC

CONSTANTS
  NewOldIncr,   \* NEWOLD_INCR: by how many slots the cpus' history grows
  NodeOf        \* numa_node_of_cpu, a function of cpu ids; -1 when there is none

\* numa_max_node has an answer.
ASSUME ProcStatAssumption ==
  /\ NewOldIncr \in Nat \ {0}
  /\ \A c \in DOMAIN NodeOf : NodeOf[c] \in Int /\ NodeOf[c] >= -1
  /\ \E c \in DOMAIN NodeOf : \A d \in DOMAIN NodeOf : NodeOf[d] <= NodeOf[c]

Times == {"user", "idle", "guest"}
Derived == {"xbsy", "xtot"}
Counters == {"ctxt", "procs"}
NoJifs == [x \in Times \cup Derived |-> 0]
NoSys == [x \in Counters |-> 0]
NoTic == [id |-> 0, node |-> -1, count |-> 0, new |-> NoJifs, old |-> NoJifs]

\* The items: of a cpu or the summary, a time, its sums, or its change; of
\* the system, a counter or its change.
StatTable ==
  [src : {"cpu"}, of : {"id", "node", "count"}, delta : {FALSE}]
    \cup [src : {"tic"}, of : Times \cup Derived, delta : BOOLEAN]
    \cup [src : {"sys"}, of : Counters, delta : BOOLEAN]

\* The value of an item; a change of a time is never negative.
StatSet(item, sys, tic) ==
  CASE item.src = "cpu" -> tic[item.of]
    [] item.src = "sys" -> sys.new[item.of] - (IF item.delta THEN sys.old[item.of] ELSE 0)
    [] item.src = "tic" ->
         IF item.delta THEN Max({0, tic.new[item.of] - tic.old[item.of]}) ELSE tic.new[item.of]

StatAssign(items, sys, tic) == [k \in DOMAIN items |-> StatSet(items[k], sys, tic)]

\* The sums over the times.
WithSums(t) ==
  LET tot == t["user"] + t["idle"] + t["guest"]
  IN [x \in Times \cup Derived |->
        CASE x = "xtot" -> tot [] x = "xbsy" -> tot - t["idle"] [] OTHER -> t[x]]
Backwards(new, old) == \E x \in {"user", "idle", "xbsy", "xtot"} : new[x] < old[x]

\* The sums of a new sample; when one ran backwards there is no change at all.
StatDerive(tic) ==
  LET new == WithSums(tic.new)
  IN [tic EXCEPT !.new = new, !.old = IF Backwards(new, @) THEN new ELSE @]

\* The slots there must be for n cpu lines and the line that ends them.
SlotsFor(alloc, n) ==
  LET start == IF alloc = 0 THEN NewOldIncr ELSE alloc
  IN IF n < start THEN start
     ELSE start + NewOldIncr * ((n - start) \div NewOldIncr + 1)

\* Slot k holds the k-th cpu line, whichever cpu that is, and remembers what
\* the slot held before; a slot that has been added since holds junk.
StatSlot(h, f, k, junk) ==
  LET was == IF k <= Len(h.cpus) THEN h.cpus[k]
             ELSE IF h.cpus = <<>> /\ k <= NewOldIncr THEN NoTic
             ELSE [NoTic EXCEPT !.new = junk, !.old = junk]
  IN IF k <= Len(f.cpus)
     THEN StatDerive([id |-> f.cpus[k].id, node |-> -1, count |-> 1,
                      new |-> f.cpus[k].jif, old |-> was.new])
     ELSE IF k = Len(f.cpus) + 1
     THEN [was EXCEPT !.old = was.new, !.node = -1, !.count = 1]
     ELSE was

\* A read of /proc/stat: the samples move on. It fails when the file cannot
\* be read and when line 1 is short; the summary's sample is then in part new.
StatRead(h, f, junk) ==
  CASE f.status = "unreadable" -> [ok |-> FALSE, h |-> h]
    [] f.status = "short" ->
         [ok |-> FALSE,
          h |-> [h EXCEPT !.sum = [@ EXCEPT !.old = h.sum.new, !.new["user"] = f.cpu["user"]]]]
    [] f.status = "fine" ->
         LET n == Len(f.cpus)
         IN [ok |-> TRUE, h |-> [h EXCEPT
               !.sum = StatDerive([id |-> -1, node |-> -1, count |-> n,
                                   new |-> f.cpu, old |-> h.sum.new]),
               !.cpus = [k \in 1 .. SlotsFor(Len(h.cpus), n) |-> StatSlot(h, f, k, junk)],
               !.inuse = n,
               !.sys = [new |-> f.sys, old |-> h.sys.new]]]

\* The numa nodes start from zero at each reap: every node up to the highest
\* is the sum of its cpus, both samples of it; a node with none is marked -1.
SumJifs(set, which, h) ==
  [x \in Times \cup Derived |-> MapThenSumSet(LAMBDA k : h.cpus[k][which][x], set)]
StatNuma(h) ==
  LET maxNode == Max({NodeOf[c] : c \in DOMAIN NodeOf})
      on(nd) == {k \in 1 .. h.inuse : NodeOf[h.cpus[k].id] = nd}
  IN [h EXCEPT
       !.nodes = [i \in 1 .. maxNode + 1 |->
                    [id |-> i - 1, node |-> IF on(i - 1) = {} THEN -1 ELSE i - 1,
                     count |-> Cardinality(on(i - 1)),
                     new |-> SumJifs(on(i - 1), "new", h), old |-> SumJifs(on(i - 1), "old", h)]],
       !.cpus = [k \in DOMAIN h.cpus |->
                   IF k <= h.inuse /\ NodeOf[h.cpus[k].id] > -1
                   THEN [h.cpus[k] EXCEPT !.node = NodeOf[h.cpus[k].id]] ELSE h.cpus[k]]]

NoStat == [ref |-> 0]
BlankStat ==
  [ref |-> 1, fp |-> TRUE, secs |-> 0, sum |-> NoTic, cpus |-> <<>>, inuse |-> 0,
   nodes |-> <<>>, sys |-> [new |-> NoSys, old |-> NoSys],
   selExt |-> NoExt, selRow |-> <<>>, sumExt |-> NoExt, sumRow |-> <<>>,
   cpuExt |-> NoExt, cpuFetch |-> NoFetch, cpuRows |-> <<>>,
   nodeExt |-> NoExt, nodeFetch |-> NoFetch, nodeRows |-> <<>>]

StatUnref(h) == IF h.ref < 2 THEN NoStat ELSE [h EXCEPT !.ref = @ - 1]
StatRef(h) == [h EXCEPT !.ref = @ + 1]

\* A handle starts with a read, so that the first change is a change.
StatNew(f, junk) ==
  LET r == StatRead(BlankStat, f, junk)
  IN IF r.ok THEN r ELSE [ok |-> FALSE, h |-> StatUnref(r.h)]

StatReconfig(ext, items) == ReconfigMaybe(ext, items, StatTable)

\* One item; the file is read again when the clock shows another second.
StatGet(h, f, item, now, junk) ==
  LET r == IF now - h.secs >= 1 THEN StatRead(h, f, junk) ELSE [ok |-> TRUE, h |-> h]
  IN IF ~r.ok THEN [ok |-> FALSE, h |-> r.h, val |-> 0]
     ELSE [ok |-> TRUE, val |-> StatSet(item, r.h.sys, r.h.sum),
           h |-> IF now - h.secs >= 1 THEN [r.h EXCEPT !.secs = now] ELSE r.h]

\* Items of the summary and the system, in the one stack.
StatSelect(h, f, items, junk) ==
  LET c == StatReconfig(h.selExt, items)
      r == StatRead([h EXCEPT !.selExt = c.ext], f, junk)
  IN IF ~c.ok THEN [ok |-> FALSE, h |-> h]
     ELSE IF ~r.ok THEN r
     ELSE [ok |-> TRUE, h |-> [r.h EXCEPT !.selExt = Single(@),
                                !.selRow = StatAssign(items, r.h.sys, r.h.sum)]]

\* The stacks of the cpus, or of the nodes.
StatFetchCpus(h) ==
  LET r == Fetch(h.cpuExt, h.cpuFetch, h.inuse)
  IN [h EXCEPT !.cpuExt = r.ext, !.cpuFetch = r.fetch,
               !.cpuRows = [k \in 1 .. h.inuse |-> StatAssign(r.ext.items, h.sys, h.cpus[k])]]
StatFetchNodes(h) ==
  LET n == Len(h.nodes)
      r == Fetch(h.nodeExt, h.nodeFetch, n)
  IN [h EXCEPT !.nodeExt = r.ext, !.nodeFetch = r.fetch,
               !.nodeRows = [k \in 1 .. n |-> StatAssign(r.ext.items, h.sys, h.nodes[k])]]

\* The summary, the cpus and, when asked for, the nodes: one set of items for
\* the three. The nodes' history precedes the cpus' stacks, which show it.
StatReap(h, f, numa, items, junk) ==
  IF ~StatReconfig(h.sumExt, items).ok THEN [ok |-> FALSE, h |-> h]
  ELSE LET g == [h EXCEPT !.sumExt = StatReconfig(@, items).ext,
                          !.cpuExt = Reconfig(@, items), !.nodeExt = Reconfig(@, items)]
           r == StatRead(g, f, junk)
       IN IF ~r.ok THEN r
          ELSE LET s == [r.h EXCEPT !.sumExt = Single(@), !.nodeRows = <<>>,
                                    !.nodeFetch =
                                      [r.h.nodeFetch EXCEPT !.saved = IF @ = 0 THEN 1 ELSE @,
                                                            !.total = 0],
                                    !.sumRow = StatAssign(items, r.h.sys, r.h.sum)]
               IN [ok |-> TRUE,
                   h |-> IF numa THEN StatFetchCpus(StatFetchNodes(StatNuma(s)))
                         ELSE StatFetchCpus(s)]

\* Rows ordered by the k-th item, upwards or downwards.
StatSort(rows, k, up) ==
  SortSeq(rows, LAMBDA a, b : IF up THEN a[k] < b[k] ELSE a[k] > b[k])
===============================================================================
