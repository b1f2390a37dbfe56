-------------------------------- MODULE Slabinfo ------------------------------
(***************************************************************************)
(* slabinfo.c: /proc/slabinfo as the caches of the last read, in an array  *)
(* that grows, and two samples of the sums over them.  A cache has         *)
(* objects, active ones among them, and a size of them.                    *)
(***************************************************************************)
EXTENDS Stacks, SequencesExt

CONSTANTS
  NodesIncr,   \* the least growth of the array of caches (30)
  IntMax       \* INT_MAX

ASSUME SlabinfoAssumption == NodesIncr \in Nat \ {0}

NoSumm == [caches |-> 0, activeCaches |-> 0, objs |-> 0, active |-> 0,
           total |-> 0, min |-> 0, max |-> 0, avg |-> 0]
NulCache == [name |-> "", objs |-> 0, active |-> 0, size |-> 0, use |-> 0]
SlabFields == {"name", "objs", "active", "size", "use"}
SlabTable ==
  [src : {"slab"}, of : SlabFields, delta : {FALSE}]
    \cup [src : {"slabs"}, of : DOMAIN NoSumm, delta : BOOLEAN]

SlabSet(item, slabs, cache) ==
  IF item.src = "slab" THEN cache[item.of]
  ELSE slabs.new[item.of] - (IF item.delta THEN slabs.old[item.of] ELSE 0)
SlabAssign(items, slabs, cache) == [k \in DOMAIN items |-> SlabSet(items[k], slabs, cache)]

\* The array grows by a quarter and NodesIncr when every node of it is used.
AllocNodes(h) ==
  IF h.used < h.alloc THEN h ELSE [h EXCEPT !.alloc = (@ * 5) \div 4 + NodesIncr]
GetNode(h) ==
  LET g == IF h.used = h.alloc THEN AllocNodes(h) ELSE h IN [g EXCEPT !.used = @ + 1]

SumOf(caches, x) == FoldLeft(LAMBDA acc, c : acc + c[x], 0, caches)

\* The sums over the caches, and the percentage of each that is in use. The
\* least size of none is INT_MAX; the average divides by objects there are.
ParseSlabs(lines) ==
  LET sizes == {lines[k].size : k \in DOMAIN lines}
      objs == SumOf(lines, "objs")
      total == FoldLeft(LAMBDA acc, c : acc + c.objs * c.size, 0, lines)
  IN [caches |-> [k \in DOMAIN lines |->
                    [name |-> lines[k].name, objs |-> lines[k].objs,
                     active |-> lines[k].active, size |-> lines[k].size,
                     use |-> IF lines[k].objs = 0 THEN 0
                             ELSE (100 * lines[k].active) \div lines[k].objs]],
      summ |-> [caches |-> Len(lines),
                activeCaches |-> Cardinality({k \in DOMAIN lines : lines[k].objs # 0}),
                objs |-> objs, active |-> SumOf(lines, "active"), total |-> total,
                min |-> IF sizes = {} THEN IntMax ELSE Min(sizes),
                max |-> IF sizes = {} THEN 0 ELSE Max(sizes),
                avg |-> IF objs = 0 THEN 0 ELSE total \div objs]]

\* A read: the sums move on and start from zero, and the caches are those of
\* the file, up to the first line that is not well formed, which took its node
\* before it was parsed.
SlabRead(h, f) ==
  LET start == [AllocNodes([h EXCEPT !.slabs = [old |-> h.slabs.new, new |-> NoSumm]])
                  EXCEPT !.used = 0, !.nodes = <<>>]
      p == ParseSlabs(f.lines)
      taken == IF f.status = "fine" THEN Len(f.lines) ELSE Len(f.lines) + 1
      got[i \in 0 .. taken] == IF i = 0 THEN start ELSE GetNode(got[i - 1])
  IN IF f.status = "unreadable" THEN [ok |-> FALSE, h |-> start]
     ELSE [ok |-> f.status = "fine",
           h |-> [got[taken] EXCEPT !.nodes = p.caches,
                    !.slabs = [old |-> h.slabs.new,
                               new |-> IF f.status = "fine" THEN p.summ
                                       ELSE [p.summ EXCEPT !.avg = 0]]]]

NoSlab == [ref |-> 0]
BlankSlab ==
  [ref |-> 1, fp |-> TRUE, secs |-> 0, alloc |-> 0, used |-> 0, nodes |-> <<>>,
   slabs |-> [new |-> NoSumm, old |-> NoSumm],
   selExt |-> NoExt, selRow |-> <<>>, ext |-> NoExt, fetch |-> NoFetch, rows |-> <<>>]

SlabRef(h) == [h EXCEPT !.ref = @ + 1]
SlabUnref(h) == IF h.ref < 2 THEN NoSlab ELSE [h EXCEPT !.ref = @ - 1]

SlabNew(f) ==
  LET r == SlabRead(BlankSlab, f)
  IN IF r.ok THEN r ELSE [ok |-> FALSE, h |-> SlabUnref(r.h)]

\* Items of the sums; the file is read again in another second.
SlabGet(h, f, item, now) ==
  LET r == IF now - h.secs >= 1 THEN SlabRead(h, f) ELSE [ok |-> TRUE, h |-> h]
  IN IF ~r.ok THEN [ok |-> FALSE, h |-> r.h, val |-> 0]
     ELSE [ok |-> TRUE, val |-> SlabSet(item, r.h.slabs, NulCache),
           h |-> IF now - h.secs >= 1 THEN [r.h EXCEPT !.secs = now] ELSE r.h]

SlabFetch(h) ==
  LET r == Fetch(h.ext, h.fetch, h.used)
  IN [h EXCEPT !.ext = r.ext, !.fetch = r.fetch,
               !.rows = [k \in 1 .. h.used |-> SlabAssign(r.ext.items, h.slabs, h.nodes[k])]]

SlabReconfig(ext, items) == ReconfigMaybe(ext, items, SlabTable)

SlabReap(h, f, items) ==
  LET c == SlabReconfig(h.ext, items)
      r == SlabRead([h EXCEPT !.ext = c.ext], f)
  IN IF ~c.ok THEN [ok |-> FALSE, h |-> h]
     ELSE IF r.ok THEN [ok |-> TRUE, h |-> SlabFetch(r.h)] ELSE r

SlabSelect(h, f, items) ==
  IF ~SlabReconfig(h.selExt, items).ok THEN [ok |-> FALSE, h |-> h]
  ELSE LET r == SlabRead([h EXCEPT !.selExt = Single(SlabReconfig(@, items).ext)], f)
       IN IF ~r.ok THEN r
          ELSE [ok |-> TRUE,
                h |-> [r.h EXCEPT !.selRow = SlabAssign(items, r.h.slabs, NulCache)]]

\* The sums do not sort: an item of them leaves the rows as they are.
SlabSort(rows, items, item, up) ==
  LET k == CHOOSE j \in DOMAIN items : items[j] = item
  IN IF item.src = "slabs" THEN rows
     ELSE SortSeq(rows, LAMBDA a, b : IF up THEN a[k] < b[k] ELSE a[k] > b[k])
===============================================================================
