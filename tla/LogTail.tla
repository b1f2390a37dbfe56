------------------------------- MODULE LogTail -------------------------------
(***************************************************************************)
(* What incremental log capture promises: every file is read from where    *)
(* it was first met, each entry is handed over at most once, in the order  *)
(* it was written, and none is passed over except with a batch whose       *)
(* upload failed.  The reader may lose its place; then it starts over from *)
(* the beginning of the file rather than pass over an entry.               *)
(***************************************************************************)
EXTENDS Naturals, Sequences

CONSTANTS Files, Unmet

VARIABLES
  written,    \* number of entries written to each file
  cursor,     \* entries up to here are dealt with; Unmet before the first one
  delivered,  \* entries handed over, in the order they were
  restarts    \* how many had been handed over when the reader started over
vars == <<written, cursor, delivered, restarts>>

\* The entries after a, up to b, in order.
Batch(a, b) == [i \in 1..(b - a) |-> a + i]

Init ==
  /\ written \in [Files -> Nat]
  /\ cursor = [f \in Files |-> Unmet]
  /\ delivered = [f \in Files |-> <<>>]
  /\ restarts = [f \in Files |-> {}]

Write(f) ==
  /\ written' = [written EXCEPT ![f] = @ + 1]
  /\ UNCHANGED <<cursor, delivered, restarts>>

Meet(f) ==
  /\ cursor[f] = Unmet
  /\ \E c \in 0..written[f] : cursor' = [cursor EXCEPT ![f] = c]
  /\ UNCHANGED <<written, delivered, restarts>>

Deliver(f) ==
  /\ cursor[f] # Unmet
  /\ \E c \in cursor[f]..written[f] :
       /\ cursor' = [cursor EXCEPT ![f] = c]
       /\ delivered' = [delivered EXCEPT ![f] = @ \o Batch(cursor[f], c)]
  /\ UNCHANGED <<written, restarts>>

Drop(f) ==
  /\ cursor[f] # Unmet
  /\ \E c \in cursor[f]..written[f] : cursor' = [cursor EXCEPT ![f] = c]
  /\ UNCHANGED <<written, delivered, restarts>>

Restart(f) ==
  /\ cursor[f] # Unmet
  /\ cursor' = [cursor EXCEPT ![f] = 0]
  /\ restarts' = [restarts EXCEPT ![f] = @ \cup {Len(delivered[f])}]
  /\ UNCHANGED <<written, delivered>>

Next == \E f \in Files : Write(f) \/ Meet(f) \/ Deliver(f) \/ Drop(f) \/ Restart(f)

Spec == Init /\ [][Next]_vars
==============================================================================
