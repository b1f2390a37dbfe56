-------------------------------- MODULE Stacks --------------------------------
(***************************************************************************)
(* Result stacks, as each of the procps libraries manages them: a caller   *)
(* names the items it wants; the library keeps "extents", blocks of stacks *)
(* that are itemized for those items, an "anchor" that lists the stacks of *)
(* all extents, and a copy of the anchor, delimited, that the caller gets. *)
(* The libraries repeat this code, so the modules of the libraries cite    *)
(* these operators; stat.c's is the one that was translated.               *)
(***************************************************************************)
EXTENDS Integers, Sequences, FiniteSets

CONSTANT StacksIncr   \* STACKS_INCR: by how many stacks the extents grow

ASSUME StacksAssumption == StacksIncr \in Nat \ {0}

\* items: what the stacks are itemized for; cap: the stacks of all extents.
NoExt == [items |-> <<>>, cap |-> 0]
\* anchor: the pointers allocated; saved: those of the caller's copy;
\* total: the stacks in use.
NoFetch == [anchor |-> 0, saved |-> 0, total |-> 0]

\* The items are at least one and all are in the library's table.
ItemsOk(items, table) ==
  Len(items) >= 1 /\ \A k \in DOMAIN items : items[k] \in table

\* Other items than last time: the stacks itemized for those are freed.
Reconfig(ext, items) ==
  IF ext.items = items THEN ext ELSE [items |-> items, cap |-> 0]

\* Both: items that are not right change nothing.
ReconfigMaybe(ext, items, table) ==
  IF ItemsOk(items, table) THEN [ok |-> TRUE, ext |-> Reconfig(ext, items)]
  ELSE [ok |-> FALSE, ext |-> ext]

\* The one stack of a select.
Single(ext) == IF ext.cap = 0 THEN [ext EXCEPT !.cap = 1] ELSE ext

\* A mutant of GrowFor: one stack too late.
GrowForLate(i, r) ==
  IF i <= r.fetch.anchor THEN r
  ELSE [ext |-> [r.ext EXCEPT !.cap = @ + StacksIncr],
        fetch |-> [r.fetch EXCEPT !.anchor = @ + StacksIncr]]

\* Room for one more stack: the anchor and the extents grow together.
GrowFor(i, r) ==
  IF i < r.fetch.anchor THEN r
  ELSE [ext |-> [r.ext EXCEPT !.cap = @ + StacksIncr],
        fetch |-> [r.fetch EXCEPT !.anchor = @ + StacksIncr]]

\* The anchor is kept when the extents were freed, and is then refilled.
FetchStart(ext, fetch) ==
  LET anchor == IF fetch.anchor = 0 THEN StacksIncr ELSE fetch.anchor
  IN [ext |-> [ext EXCEPT !.cap = IF @ = 0 THEN anchor ELSE @],
      fetch |-> [fetch EXCEPT !.anchor = anchor]]

\* Stacks for n results, one after the other, and the caller's copy.
Fetch(ext, fetch, n) ==
  LET room[i \in 0 .. n] ==
        IF i = 0 THEN FetchStart(ext, fetch) ELSE GrowFor(i - 1, room[i - 1])
      r == room[n]
  IN [ext |-> r.ext,
      fetch |-> [r.fetch EXCEPT !.total = n,
                                !.saved = IF @ < n + 1 THEN n + 1 ELSE @]]

\* What the values of the results and the delimiter are written to is there.
FetchFits(ext, fetch) ==
  fetch.total > 0 => /\ fetch.total <= fetch.anchor
                     /\ fetch.total < fetch.saved
                     /\ ext.cap \in {0, fetch.anchor}   \* 0: freed for other items
===============================================================================
