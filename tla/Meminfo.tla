-------------------------------- MODULE Meminfo -------------------------------
(***************************************************************************)
(* meminfo.c: /proc/meminfo as two samples of named values, a hash table   *)
(* that finds the field of a name, and the values derived from them.  The  *)
(* values are unsigned longs.  The fields are those that others are        *)
(* derived from, and Active for those that are not.                        *)
(***************************************************************************)
EXTENDS Stacks

CONSTANT ULong   \* 2 ^ the width of an unsigned long

ASSUME MeminfoAssumption == ULong \in Nat \ {0}

MemRead == {"Active", "MemTotal", "MemFree", "MemAvailable", "Cached", "SReclaimable",
            "Buffers", "HighTotal", "HighFree", "LowTotal", "LowFree", "SwapTotal", "SwapFree"}
MemDerived == {"mem_cached", "mem_used", "mem_hi_used", "mem_lo_used", "swap_used"}
NoMem == [x \in MemRead \cup MemDerived |-> 0]

\* An item is a field or its change.
MemTable == [of : MemRead \cup MemDerived, delta : BOOLEAN]
MemSet(item, hist) == hist.new[item.of] - (IF item.delta THEN hist.old[item.of] ELSE 0)
MemAssign(items, hist) == [k \in DOMAIN items |-> MemSet(items[k], hist)]

\* Where the hash table puts the value of a name: nowhere for other names,
\* and a field that the file does not name is zero.
MemHash(vals) == [x \in DOMAIN NoMem |-> IF x \in MemRead \cap DOMAIN vals THEN vals[x] ELSE 0]

Above(total, free) == IF free < total THEN total - free ELSE 0

\* A mutant of MemDerive: what is used may be less than nothing.
MemDeriveWraps(m) ==
  [m EXCEPT !.mem_cached = (m.Cached + m.SReclaimable) % ULong,
            !.mem_used = (m.MemTotal - m.MemFree - m.Cached - m.SReclaimable - m.Buffers) % ULong,
            !.swap_used = Above(m.SwapTotal, m.SwapFree)]

\* What the kernel does not say, or says of the host to a container.
\* What is used is a long in the code: amounts of memory fit into one.
MemDerive(m) ==
  LET a == [m EXCEPT !.MemAvailable = IF @ = 0 THEN m.MemFree ELSE @,
                     !.mem_cached = (m.Cached + m.SReclaimable) % ULong]
      avail == IF a.MemAvailable > a.MemTotal THEN a.MemFree ELSE a.MemAvailable
      rest == a.MemTotal - a.MemFree - a.mem_cached - a.Buffers
      used == IF rest < 0 THEN a.MemTotal - a.MemFree ELSE rest
      low == IF a.LowTotal = 0 THEN <<a.MemTotal, a.MemFree>> ELSE <<a.LowTotal, a.LowFree>>
  IN [a EXCEPT !.MemAvailable = avail, !.mem_used = used % ULong,
               !.mem_hi_used = Above(a.HighTotal, a.HighFree),
               !.LowTotal = low[1], !.LowFree = low[2], !.mem_lo_used = Above(low[1], low[2]),
               !.swap_used = Above(a.SwapTotal, a.SwapFree)]

\* A read: the sample moves on, and is all zeros when the file is unreadable.
MemReadFile(h, f) ==
  LET start == [h EXCEPT !.hist = [old |-> h.hist.new, new |-> NoMem]]
  IN IF f.status = "unreadable" THEN [ok |-> FALSE, h |-> start]
     ELSE [ok |-> TRUE, h |-> [start EXCEPT !.hist.new = MemDerive(MemHash(f.vals)), !.fd = TRUE]]

MemItemsOk(items) == ItemsOk(items, MemTable)
\* The one stack, itemized anew for other items.
MemStacksAlloc(ext, items) == Single(Reconfig(ext, items))

NoMemInfo == [ref |-> 0]
BlankMem == [ref |-> 1, fd |-> FALSE, secs |-> 0, hist |-> [new |-> NoMem, old |-> NoMem],
             ext |-> NoExt, row |-> <<>>]

MemRef(h) == [h EXCEPT !.ref = @ + 1]
MemUnref(h) == IF h.ref < 2 THEN NoMemInfo ELSE [h EXCEPT !.ref = @ - 1]

MemNew(f) ==
  LET r == MemReadFile(BlankMem, f)
  IN IF r.ok THEN r ELSE [ok |-> FALSE, h |-> MemUnref(r.h)]

\* One item; the file is read again when the clock shows another second.
MemGet(h, f, item, now) ==
  LET r == IF now - h.secs >= 1 THEN MemReadFile(h, f) ELSE [ok |-> TRUE, h |-> h]
  IN IF ~r.ok THEN [ok |-> FALSE, h |-> r.h, val |-> 0]
     ELSE [ok |-> TRUE, val |-> MemSet(item, r.h.hist),
           h |-> IF now - h.secs >= 1 THEN [r.h EXCEPT !.secs = now] ELSE r.h]

\* The items, in the one stack: the caller has it until the next select.
MemSelect(h, f, items) ==
  IF ~MemItemsOk(items) THEN [ok |-> FALSE, h |-> h]
  ELSE LET r == MemReadFile([h EXCEPT !.ext = MemStacksAlloc(@, items)], f)
       IN IF r.ok THEN [ok |-> TRUE, h |-> [r.h EXCEPT !.row = MemAssign(items, r.h.hist)]] ELSE r
===============================================================================
