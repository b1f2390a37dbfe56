------------------------------- MODULE ProcVmstat -----------------------------
(***************************************************************************)
(* proc_vmstat.c: /proc/vmstat as two samples of named counters.  The      *)
(* counters are those of paging and swapping here.                         *)
(***************************************************************************)
EXTENDS Stacks

VmFields == {"pgpgin", "pswpin"}
NoVm == [x \in VmFields |-> 0]

\* An item is a field or its change.
VmTable == [of : VmFields, delta : BOOLEAN]
VmSet(item, hist) == hist.new[item.of] - (IF item.delta THEN hist.old[item.of] ELSE 0)
VmAssign(items, hist) == [k \in DOMAIN items |-> VmSet(items[k], hist)]

\* Where the hash table puts the value of a name: nowhere for other names,
\* and a field that the file does not name is zero.
VmHash(vals) == [x \in VmFields |-> IF x \in DOMAIN vals THEN vals[x] ELSE 0]

\* A read: the sample moves on, and is all zeros when the file is unreadable.
VmRead(h, f) ==
  LET start == [h EXCEPT !.hist = [old |-> h.hist.new, new |-> NoVm]]
  IN IF f.status = "unreadable" THEN [ok |-> FALSE, h |-> start]
     ELSE [ok |-> TRUE, h |-> [start EXCEPT !.hist.new = VmHash(f.vals), !.fd = TRUE]]

VmItemsOk(items) == ItemsOk(items, VmTable)
\* The one stack, itemized anew for other items.
VmStacksAlloc(ext, items) == Single(Reconfig(ext, items))

NoVmInfo == [ref |-> 0]
BlankVm == [ref |-> 1, fd |-> FALSE, secs |-> 0, hist |-> [new |-> NoVm, old |-> NoVm],
            ext |-> NoExt, row |-> <<>>]

VmRef(h) == [h EXCEPT !.ref = @ + 1]
VmUnref(h) == IF h.ref < 2 THEN NoVmInfo ELSE [h EXCEPT !.ref = @ - 1]

VmNew(f) ==
  LET r == VmRead(BlankVm, f)
  IN IF r.ok THEN r ELSE [ok |-> FALSE, h |-> VmUnref(r.h)]

\* A mutant of VmGet: the second is remembered before the read succeeds.
VmGetOnce(h, f, item, now) ==
  LET due == now - h.secs >= 1
      r == IF due THEN VmRead([h EXCEPT !.secs = now], f) ELSE [ok |-> TRUE, h |-> h]
  IN [ok |-> r.ok, h |-> r.h, val |-> IF r.ok THEN VmSet(item, r.h.hist) ELSE 0]

\* One item; the file is read again when the clock shows another second. The
\* second is remembered when the read succeeds.
VmGet(h, f, item, now) ==
  LET r == IF now - h.secs >= 1 THEN VmRead(h, f) ELSE [ok |-> TRUE, h |-> h]
  IN IF ~r.ok THEN [ok |-> FALSE, h |-> r.h, val |-> 0]
     ELSE [ok |-> TRUE, val |-> VmSet(item, r.h.hist),
           h |-> IF now - h.secs >= 1 THEN [r.h EXCEPT !.secs = now] ELSE r.h]

VmSelect(h, f, items) ==
  IF ~VmItemsOk(items) THEN [ok |-> FALSE, h |-> h]
  ELSE LET r == VmRead([h EXCEPT !.ext = VmStacksAlloc(@, items)], f)
       IN IF r.ok THEN [ok |-> TRUE, h |-> [r.h EXCEPT !.row = VmAssign(items, r.h.hist)]] ELSE r
===============================================================================
