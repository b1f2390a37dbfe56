------------------------------- MODULE Diskstats ------------------------------
(***************************************************************************)
(* diskstats.c: /proc/diskstats as a list of devices, each with two        *)
(* samples.  A device is stamped with the second of the read that last     *)
(* listed it, and one that is stale is dropped when it is asked for, not   *)
(* when it is gone.  The counters of a device are one here.                *)
(***************************************************************************)
EXTENDS Stacks, SequencesExt

NoDev == [name |-> "", type |-> "", stamp |-> -1, new |-> 0, old |-> 0]
DiskTable == {"NAME", "TYPE", "IO", "DELTA_IO"}

\* The value of an item of a device.
DiskSet(item, nd) ==
  CASE item = "NAME" -> nd.name [] item = "TYPE" -> nd.type
    [] item = "IO" -> nd.new [] item = "DELTA_IO" -> nd.new - nd.old
DiskAssign(items, nd) == [k \in DOMAIN items |-> DiskSet(items[k], nd)]

\* A device is a partition unless /sys/block has it, or cannot be read.
NodeClassify(name, f) ==
  IF f.sysBlock = {} \/ name \in f.sysBlock THEN "disk" ELSE "partition"

Matches(h, name) == {k \in DOMAIN h.nodes : h.nodes[k].name = name}
NodeCut(h, k) == [h EXCEPT !.nodes = RemoveAt(@, k)]

\* A mutant of NodeGet: a device that is listed again goes on from where it was.
NodeGetStale(h, name) ==
  [h |-> h, at |-> IF Matches(h, name) = {} THEN 0 ELSE Min(Matches(h, name))]

\* The device of that name; one that neither of the last two stamps has is
\* dropped, and not found.
NodeGet(h, name) ==
  IF Matches(h, name) = {} THEN [h |-> h, at |-> 0]
  ELSE LET k == Min(Matches(h, name))
       IN IF h.nodes[k].stamp \notin {h.oldStamp, h.newStamp}
          THEN [h |-> NodeCut(h, k), at |-> 0]
          ELSE [h |-> h, at |-> k]

NodeAdd(h, nd) == [h EXCEPT !.nodes = Append(@, nd)]

\* A line of the file: a device that is new has no change yet; one that is
\* known keeps its type and remembers its last sample.
NodeUpdate(h, line, f) ==
  LET g == NodeGet(h, line.name)
      nd == [name |-> line.name, stamp |-> h.newStamp, new |-> line.val,
             type |-> NodeClassify(line.name, f), old |-> line.val]
  IN IF g.at = 0 THEN NodeAdd(g.h, nd)
     ELSE [g.h EXCEPT !.nodes[g.at] =
             [nd EXCEPT !.type = g.h.nodes[g.at].type, !.old = g.h.nodes[g.at].new]]

\* A read: the stamps move on and the lines up to the first that is not well
\* formed (f.lines are those) are taken; devices that are gone stay.
DiskRead(h, f, now) ==
  IF f.status = "unreadable" THEN [ok |-> FALSE, h |-> h]
  ELSE LET taken[i \in 0 .. Len(f.lines)] ==
             IF i = 0 THEN [h EXCEPT !.oldStamp = h.newStamp, !.newStamp = now]
             ELSE NodeUpdate(taken[i - 1], f.lines[i], f)
       IN [ok |-> f.status = "fine", h |-> taken[Len(f.lines)]]

NoDisk == [ref |-> 0]
BlankDisk ==
  [ref |-> 1, fp |-> TRUE, oldStamp |-> 0, newStamp |-> 0, nodes |-> <<>>,
   selExt |-> NoExt, selRow |-> <<>>, ext |-> NoExt, fetch |-> NoFetch, rows |-> <<>>]

DiskRef(h) == [h EXCEPT !.ref = @ + 1]
DiskUnref(h) == IF h.ref < 2 THEN NoDisk ELSE [h EXCEPT !.ref = @ - 1]

DiskNew(f, now) ==
  LET r == DiskRead(BlankDisk, f, now)
  IN IF r.ok THEN r ELSE [ok |-> FALSE, h |-> DiskUnref(r.h)]

\* One item of a device; the file is read again in another second.
DiskGet(h, f, name, item, now) ==
  LET r == IF now - h.newStamp >= 1 THEN DiskRead(h, f, now) ELSE [ok |-> TRUE, h |-> h]
      g == NodeGet(r.h, name)
  IN IF ~r.ok THEN [ok |-> FALSE, h |-> r.h, val |-> 0]
     ELSE IF g.at = 0 THEN [ok |-> FALSE, h |-> g.h, val |-> 0]
     ELSE [ok |-> TRUE, h |-> g.h, val |-> DiskSet(item, g.h.nodes[g.at])]

\* Stacks for every device of the list.
DiskFetch(h) ==
  LET n == Len(h.nodes)
      r == Fetch(h.ext, h.fetch, n)
  IN [h EXCEPT !.ext = r.ext, !.fetch = r.fetch,
               !.rows = [k \in 1 .. n |-> DiskAssign(r.ext.items, h.nodes[k])]]

DiskReconfig(ext, items) == ReconfigMaybe(ext, items, DiskTable)

DiskReap(h, f, items, now) ==
  LET c == DiskReconfig(h.ext, items)
      r == DiskRead([h EXCEPT !.ext = c.ext], f, now)
  IN IF ~c.ok THEN [ok |-> FALSE, h |-> h]
     ELSE IF r.ok THEN [ok |-> TRUE, h |-> DiskFetch(r.h)] ELSE r

\* Items of one device, in the one stack.
DiskSelect(h, f, name, items, now) ==
  IF ~DiskReconfig(h.selExt, items).ok THEN [ok |-> FALSE, h |-> h]
  ELSE LET r == DiskRead([h EXCEPT !.selExt = Single(DiskReconfig(@, items).ext)], f, now)
           g == NodeGet(r.h, name)
       IN IF ~r.ok THEN r
          ELSE IF g.at = 0 THEN [ok |-> FALSE, h |-> g.h]
          ELSE [ok |-> TRUE, h |-> [g.h EXCEPT !.selRow = DiskAssign(items, g.h.nodes[g.at])]]

DiskSort(rows, k, up) ==
  SortSeq(rows, LAMBDA a, b : IF up THEN a[k] < b[k] ELSE a[k] > b[k])
===============================================================================
