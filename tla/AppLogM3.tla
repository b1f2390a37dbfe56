------------------------------ MODULE AppLogM3 ------------------------------
(***************************************************************************)
(* Incremental capture of application logs in m3 mode: each run of the     *)
(* loop calls CaptureSingleAppLog for every matching file, and readStats   *)
(* remembers between runs how far each was read.  The files belong to an   *)
(* application that appends to them and rotates them at any moment.        *)
(*                                                                         *)
(* The entries of a file are numbered in the order they are written, over  *)
(* all its rotations: a file with base b and size s holds b+1 .. b+s.      *)
(***************************************************************************)
EXTENDS Naturals, FiniteSets, Sequences, Functions

CONSTANTS
  Files,           \* the files the configured patterns match
  Rotating,        \* those the application rotates; it only appends to the others
  Untracked,       \* no readStat for the file yet
  MaxEntries,      \* bound: entries written to a file
  MaxRotations,    \* bound: rotations of a file
  MaxRestarts,     \* bound: points of the uploads at which a failed seek starts over
  RotateAnytime    \* whether a rotation may fall inside a capture of the file

ASSUME AppLogM3Assumption ==
  /\ Untracked \notin [fileSize : Nat, readPosition : Nat] \cup Nat
  /\ Rotating \subseteq Files
  /\ MaxEntries \in Nat /\ MaxRotations \in Nat /\ MaxRestarts \in Nat
  /\ RotateAnytime \in BOOLEAN

VARIABLES
  log,         \* the file at the path: its base and its size
  archive,     \* the files renamed away, which an open descriptor still reads
  rotations,   \* number of rotations of each file
  readStats,   \* file size and read position recorded for each file
  capture,     \* the CaptureSingleAppLog in progress
  delivered,   \* entries of each file in uploads the server accepted, in order
  restarts,    \* history: how many entries of each file had been delivered when a
               \* failed seek made its capture start over
  dropped,     \* entries of each file in batches that were not accepted
  first        \* entries written before the file was first met

env == <<log, archive, rotations>>
vars == <<log, archive, rotations, readStats, capture, delivered, restarts, dropped, first>>

Idle == [pc |-> "idle"]
Content == [base : Nat, size : Nat]

\* What the descriptor of the capture in progress reads.
Opened == IF capture.gen > Len(archive[capture.file]) THEN log[capture.file]
          ELSE archive[capture.file][capture.gen]

\* The entries after a, up to b, in order.
Batch(a, b) == [i \in 1..(b - a) |-> a + i]

-----------------------------------------------------------------------------
Init ==
  /\ log \in [Files -> [base : {0}, size : 0..1]]
  /\ archive = [f \in Files |-> <<>>]
  /\ rotations = [f \in Files |-> 0]
  /\ readStats = [f \in Files |-> Untracked]
  /\ capture = Idle
  /\ delivered = [f \in Files |-> <<>>]
  /\ restarts = [f \in Files |-> {}]
  /\ dropped = [f \in Files |-> {}]
  /\ first = [f \in Files |-> 0]

(***************************************************************************)
(* The application                                                         *)
(***************************************************************************)
AppendEntry(f) ==
  /\ log[f].base + log[f].size < MaxEntries
  /\ log' = [log EXCEPT ![f].size = @ + 1]
  /\ UNCHANGED <<archive, rotations, readStats, capture, delivered, restarts, dropped, first>>

\* By renaming the file and creating it anew, or by truncating it.
Rotate(f) ==
  /\ f \in Rotating
  /\ rotations[f] < MaxRotations
  /\ RotateAnytime \/ capture = Idle
  /\ rotations' = [rotations EXCEPT ![f] = @ + 1]
  /\ log' = [log EXCEPT ![f] = [base |-> @.base + @.size, size |-> 0]]
  /\ archive' \in {archive, [archive EXCEPT ![f] = Append(@, log[f])]}
  /\ UNCHANGED <<readStats, capture, delivered, restarts, dropped, first>>

(***************************************************************************)
(* CaptureSingleAppLog: Stat, Open, the seek and copy, Sync and PostData   *)
(***************************************************************************)
Stat(f) ==
  /\ capture = Idle
  /\ capture' = [pc |-> "open", file |-> f, size |-> log[f].size]
  /\ UNCHANGED <<env, readStats, delivered, restarts, dropped, first>>

\* A file met for the first time is only noted, at the size Stat reported.
OpenLog ==
  /\ capture.pc = "open"
  /\ LET f == capture.file IN
     IF readStats[f] = Untracked
     THEN /\ readStats' = [readStats EXCEPT ![f] =
                             [fileSize |-> capture.size, readPosition |-> capture.size]]
          /\ first' = [first EXCEPT ![f] = log[f].base + capture.size]
          /\ capture' = Idle
     ELSE /\ capture' = [pc |-> "copy", file |-> f, size |-> capture.size,
                         gen |-> Len(archive[f]) + 1]
          /\ UNCHANGED <<readStats, first>>
  /\ UNCHANGED <<env, delivered, restarts, dropped>>

\* A smaller size than recorded is taken for a rotation; then there is no seek.
Shrunk == capture.size < readStats[capture.file].fileSize

\* What io.Copy copies from pos: nothing when pos is past the end.
Copied(pos) == IF pos < Opened.size THEN Opened.size - pos ELSE 0

\* The entries after pos are copied and recorded is the new read position: readStats
\* is updated when the copy is complete, before anything is sent, with the size
\* Stat reported.  A failed seek leaves its mark in restarts.
CopyFrom(sought, pos, recorded) ==
  LET f == capture.file IN
  /\ capture.pc = "copy"
  /\ readStats' = [readStats EXCEPT ![f] =
                     [fileSize |-> capture.size, readPosition |-> recorded]]
  /\ capture' = [pc |-> "post", file |-> f,
                 from |-> Opened.base + pos, to |-> Opened.base + pos + Copied(pos)]
  /\ \/ sought /\ UNCHANGED restarts
     \/ /\ ~sought /\ ~Shrunk
        /\ Cardinality(UNION {{g} \X restarts[g] : g \in Files}) < MaxRestarts
        /\ restarts' = [restarts EXCEPT ![f] = @ \cup {Len(delivered[f])}]
  /\ UNCHANGED <<env, delivered, dropped, first>>

(***************************************************************************)
(* Mutated forms of the two operations below: what a plausible bug would   *)
(* make of them.  The specification does not use them.                     *)
(***************************************************************************)
\* Reads the last entry again.
CopyPositionOffByOne(sought) ==
  IF Shrunk \/ ~sought THEN 0 ELSE readStats[capture.file].readPosition - 1

\* Takes a file that did not grow for a rotated one.
CopyPositionUnchangedIsRotated(sought) ==
  LET stat == readStats[capture.file]
  IN IF capture.size <= stat.fileSize \/ ~sought THEN 0 ELSE stat.readPosition

\* Starts over after a failed seek, but does not reset the position it records.
CopyKeepsPosition ==
  \E sought \in BOOLEAN :
    LET stat == readStats[capture.file]
        recorded == IF Shrunk THEN 0 ELSE stat.readPosition
        pos == IF sought THEN recorded ELSE 0
    IN CopyFrom(sought, pos, recorded + Copied(pos))

\* Continues from the size Stat reported instead of from where the copy ended.
CopyToStatSize ==
  \E sought \in BOOLEAN :
    LET pos == IF Shrunk \/ ~sought THEN 0 ELSE readStats[capture.file].readPosition
    IN CopyFrom(sought, pos, capture.size)

\* The copy starts at the recorded position, which may be past the end of the file;
\* at the beginning of a file that shrank; and at the beginning when the seek to the
\* recorded position failed and the one to the beginning did not.
CopyPosition(sought) ==
  IF Shrunk \/ ~sought THEN 0 ELSE readStats[capture.file].readPosition

Copy == \E sought \in BOOLEAN :
          LET pos == CopyPosition(sought) IN CopyFrom(sought, pos, pos + Copied(pos))

\* Stat, Open, the seek to the beginning, Create and Copy return early on an error
\* and leave readStats alone.
Fail ==
  /\ capture.pc \in {"open", "copy"}
  /\ capture' = Idle
  /\ UNCHANGED <<env, readStats, delivered, restarts, dropped, first>>

\* Sync and PostData; an empty file is never accepted by PostData.
Post ==
  /\ capture.pc = "post"
  /\ capture' = Idle
  /\ LET f == capture.file
         batch == Batch(capture.from, capture.to)
     IN \/ /\ delivered' = [delivered EXCEPT ![f] = @ \o batch]
           /\ UNCHANGED dropped
        \/ /\ dropped' = [dropped EXCEPT ![f] = @ \cup Range(batch)]
           /\ UNCHANGED delivered
  /\ UNCHANGED <<env, readStats, restarts, first>>

Next ==
  \/ \E f \in Files : AppendEntry(f) \/ Rotate(f) \/ Stat(f)
  \/ OpenLog \/ Copy \/ Fail \/ Post

Spec == Init /\ [][Next]_vars

(***************************************************************************)
(* Properties                                                              *)
(***************************************************************************)
TypeOK ==
  /\ log \in [Files -> Content]
  /\ archive \in [Files -> Seq(Content)]
  /\ rotations \in [Files -> Nat]
  /\ readStats \in [Files -> [fileSize : Nat, readPosition : Nat] \cup {Untracked}]
  /\ capture \in {Idle}
       \cup [pc : {"open"}, file : Files, size : Nat]
       \cup [pc : {"copy"}, file : Files, size : Nat, gen : Nat \ {0}]
       \cup [pc : {"post"}, file : Files, from : Nat, to : Nat]
  /\ delivered \in [Files -> Seq(Nat)]
  /\ restarts \in [Files -> SUBSET Nat]
  /\ dropped \in [Files -> SUBSET Nat]
  /\ first \in [Files -> Nat]

Tracked(f) == readStats[f] # Untracked

Accounted(f) == Range(delivered[f]) \cup dropped[f]

\* "preventing duplicate processing of log entries" (CaptureSingleAppLog), "even if
\* some may be duplicated" when a seek fails: no entry is handed over twice and none
\* before an older one, unless a failed seek made the capture start over between.
InOrderOnce ==
  \A f \in Files : \A i, j \in 1..Len(delivered[f]) :
    i < j => \/ delivered[f][i] < delivered[f][j]
             \/ \E k \in restarts[f] : i <= k /\ k < j

\* The strengthening of InOrderOnce that is inductive when no rotation falls
\* inside a capture: what was handed over of a file since its capture last started
\* over either lies in an earlier rotation of it, or ends where readStats says,
\* inside the present one.
UpTo(f, b) == \A i \in 1..Len(delivered[f]) :
                (\A k \in restarts[f] : k < i) => delivered[f][i] <= b

RestartsInside == \A f \in Files : restarts[f] \subseteq 0..Len(delivered[f])

Current(f) == /\ readStats[f].readPosition <= log[f].size
              /\ readStats[f].fileSize <= readStats[f].readPosition

ReadSoFar(f) ==
  IF Tracked(f)
  THEN \/ UpTo(f, log[f].base)
       \/ UpTo(f, log[f].base + readStats[f].readPosition) /\ Current(f)
  ELSE delivered[f] = <<>>

CaptureAhead ==
  LET f == capture.file IN
  /\ capture.pc \in {"open", "copy"} =>
       /\ capture.size <= log[f].size
       /\ Tracked(f) => UpTo(f, log[f].base) \/ readStats[f].fileSize <= capture.size
  /\ capture.pc = "copy" => capture.gen = Len(archive[f]) + 1
  /\ capture.pc = "post" =>
       /\ capture.from <= capture.to
       /\ UpTo(f, capture.from)
       /\ Tracked(f)
       /\ \/ capture.from = capture.to
          \/ capture.to = log[f].base + readStats[f].readPosition /\ Current(f)

OnceInv == /\ RestartsInside /\ InOrderOnce
           /\ \A f \in Files : ReadSoFar(f)
           /\ CaptureAhead

\* "This avoids missing logs after rotation" (CaptureSingleAppLog): when a copy
\* is complete, every entry of the present file up to its end was read.
NothingMissed ==
  capture.pc = "post" =>
    LET f == capture.file
        read == Accounted(f) \cup Range(Batch(capture.from, capture.to))
    IN \A i \in 1..log[f].size :
         log[f].base + i \in (first[f] + 1)..capture.to => log[f].base + i \in read

\* The position recorded never runs ahead of a file that is only appended to, so
\* no later entry can be skipped: a seek past the end needs a rotation.
PositionInFile ==
  \A f \in Files : Tracked(f) /\ rotations[f] = 0 =>
    /\ readStats[f].readPosition <= log[f].size
    /\ readStats[f].fileSize <= readStats[f].readPosition

\* Files that are not rotated are read as LogTail promises, whatever happens to
\* the others.  A batch counts as dealt with when it was posted, not when
\* readStats was updated.  A failed seek is the cursor's Restart.
Cursor(f) ==
  IF ~Tracked(f) THEN Untracked
  ELSE IF capture.pc = "post" /\ capture.file = f THEN capture.from
  ELSE readStats[f].readPosition

Steady == Files \ Rotating

Tail_ == INSTANCE LogTail WITH
  Files <- Steady,
  Unmet <- Untracked,
  written <- [f \in Steady |-> log[f].size],
  cursor <- [f \in Steady |-> Cursor(f)],
  delivered <- [f \in Steady |-> delivered[f]],
  restarts <- [f \in Steady |-> restarts[f]]

TailSpec == Tail_!Spec
==============================================================================
