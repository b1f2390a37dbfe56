--------------------------- MODULE AppLogM3Proofs ---------------------------
(***************************************************************************)
(* Proofs about the incremental capture of application logs, for every set *)
(* of files and every bound: the types, that no entry is handed over twice *)
(* as long as rotations do not fall inside a capture and seeks succeed,    *)
(* and that files that are not rotated are read as LogTail promises.       *)
(***************************************************************************)
EXTENDS AppLogM3, SequenceTheorems, TLAPS

\* A batch is a sequence of natural numbers.
LEMMA BatchType ==
  ASSUME NEW a \in Nat, NEW b \in Nat
  PROVE  Batch(a, b) \in Seq(Nat)
<1>1. CASE a <= b
  BY <1>1, b - a \in Nat, \A i \in 1..(b - a) : a + i \in Nat DEF Batch
<1>2. CASE b < a
  BY <1>2, 1..(b - a) = 1..0, Batch(a, b) = [i \in 1..0 |-> a + i] DEF Batch
<1>3. QED BY <1>1, <1>2

\* The descriptor of a capture reads a file.
LEMMA OpenedType ==
  ASSUME TypeOK, capture.pc = "copy"
  PROVE  Opened \in Content
<1>1. capture \in [pc : {"copy"}, file : Files, size : Nat, gen : Nat \ {0}]
  BY DEF TypeOK, Idle
<1>2. archive[capture.file] \in Seq(Content) /\ log[capture.file] \in Content
  BY <1>1 DEF TypeOK
<1>3. CASE capture.gen > Len(archive[capture.file])
  BY <1>2, <1>3 DEF Opened
<1>4. CASE ~(capture.gen > Len(archive[capture.file]))
  <2>1. capture.gen \in 1..Len(archive[capture.file])
    BY <1>1, <1>2, <1>4
  <2>2. QED BY <1>2, <1>4, <2>1 DEF Opened
<1>5. QED BY <1>3, <1>4

\* The position a capture starts from, and the number of entries it copies.
LEMMA CopyTypes ==
  ASSUME TypeOK, capture.pc = "copy", Tracked(capture.file)
  PROVE  /\ \A sought \in BOOLEAN : CopyPosition(sought) \in Nat
         /\ \A pos \in Nat : Copied(pos) \in Nat
<1>1. Opened.size \in Nat BY OpenedType DEF Content
<1>2. QED BY <1>1 DEF TypeOK, Tracked, CopyPosition, Shrunk, Copied, Idle

\* A copy whose seek has this outcome.
CopyWhen(sought) ==
  CopyFrom(sought, CopyPosition(sought), CopyPosition(sought) + Copied(CopyPosition(sought)))

\* A capture that goes on to copy found a readStat for its file.
CopiesTracked == capture.pc = "copy" => Tracked(capture.file)

TypeInv == TypeOK /\ CopiesTracked

LEMMA TypeInvInit == Init => TypeInv
BY DEF Init, TypeInv, TypeOK, CopiesTracked, Idle, Content

LEMMA TypeInvStep == TypeInv /\ [Next]_vars => TypeInv'
<1> SUFFICES ASSUME TypeInv, [Next]_vars PROVE TypeInv'
  OBVIOUS
<1> USE DEF TypeInv
<1>1. ASSUME NEW f \in Files, AppendEntry(f) PROVE TypeInv'
  BY <1>1 DEF AppendEntry, TypeOK, CopiesTracked, Tracked, Content
<1>2. ASSUME NEW f \in Files, Rotate(f) PROVE TypeInv'
  <2>1. log' \in [Files -> Content]
    BY <1>2 DEF Rotate, TypeOK, Content
  <2>2. archive' \in [Files -> Seq(Content)]
    <3>1. Append(archive[f], log[f]) \in Seq(Content)
      BY <1>2 DEF TypeOK
    <3>2. archive' = archive \/ archive' = [archive EXCEPT ![f] = Append(archive[f], log[f])]
      BY <1>2 DEF Rotate
    <3>3. QED BY <3>1, <3>2 DEF TypeOK
  <2>3. rotations' \in [Files -> Nat] /\ UNCHANGED <<readStats, capture, delivered, restarts, dropped, first>>
    BY <1>2 DEF Rotate, TypeOK
  <2>4. QED BY <2>1, <2>2, <2>3 DEF TypeOK, CopiesTracked, Tracked
<1>3. ASSUME NEW f \in Files, Stat(f) PROVE TypeInv'
  <2>1. log[f].size \in Nat
    BY <1>3 DEF TypeOK, Content
  <2>2. capture' \in [pc : {"open"}, file : Files, size : Nat]
    BY <1>3, <2>1 DEF Stat
  <2>3. capture'.pc # "copy" /\ UNCHANGED <<log, archive, rotations, readStats, delivered, restarts, dropped, first>>
    BY <1>3 DEF Stat, env
  <2>4. QED BY <2>2, <2>3 DEF TypeOK, CopiesTracked
<1>4. ASSUME OpenLog PROVE TypeInv'
  <2>1. capture \in [pc : {"open"}, file : Files, size : Nat]
    BY <1>4 DEF OpenLog, TypeOK, Idle
  <2>2. CASE readStats[capture.file] = Untracked
    <3>1. capture.file \in Files /\ capture.size \in Nat
          /\ log[capture.file].base + capture.size \in Nat
      BY <2>1 DEF TypeOK, Content
    <3>2. first' \in [Files -> Nat]
      BY <1>4, <2>2, <3>1 DEF OpenLog, TypeOK
    <3>3. readStats' \in [Files -> [fileSize : Nat, readPosition : Nat] \cup {Untracked}]
      <4>1. [fileSize |-> capture.size, readPosition |-> capture.size]
              \in [fileSize : Nat, readPosition : Nat]
        BY <3>1
      <4>2. readStats' = [readStats EXCEPT ![capture.file] =
                            [fileSize |-> capture.size, readPosition |-> capture.size]]
        BY <1>4, <2>2 DEF OpenLog
      <4>3. QED BY <4>1, <4>2 DEF TypeOK
    <3>4. QED BY <1>4, <2>2, <3>2, <3>3 DEF OpenLog, TypeOK, CopiesTracked, Idle, env
  <2>3. CASE readStats[capture.file] # Untracked
    <3>1. capture' \in [pc : {"copy"}, file : Files, size : Nat, gen : Nat \ {0}]
      BY <1>4, <2>1, <2>3 DEF OpenLog, TypeOK
    <3>2. QED BY <1>4, <2>1, <2>3, <3>1 DEF OpenLog, TypeOK, CopiesTracked, Tracked, env
  <2>4. QED BY <2>2, <2>3
<1>5. ASSUME Copy PROVE TypeInv'
  <2> SUFFICES ASSUME NEW sought \in BOOLEAN, CopyWhen(sought) PROVE TypeInv'
    BY <1>5 DEF Copy, CopyWhen
  <2> DEFINE pos == CopyPosition(sought)
             n == Copied(pos)
  <2>0. capture.pc = "copy"
    BY DEF CopyWhen, CopyFrom
  <2>1. Opened \in Content /\ pos \in Nat /\ n \in Nat
    BY <2>0, OpenedType, CopyTypes DEF CopiesTracked
  <2>2. capture.file \in Files /\ capture.size \in Nat
    BY <2>0 DEF TypeOK, Idle
  <2>3. readStats' \in [Files -> [fileSize : Nat, readPosition : Nat] \cup {Untracked}]
    BY <2>1, <2>2 DEF CopyWhen, CopyFrom, TypeOK
  <2>4. capture' \in [pc : {"post"}, file : Files, from : Nat, to : Nat]
    BY <2>1, <2>2 DEF CopyWhen, CopyFrom, Content
  <2>5. restarts' \in [Files -> SUBSET Nat]
    <3>1. Len(delivered[capture.file]) \in Nat
      BY <2>2 DEF TypeOK
    <3>2. restarts \in [Files -> SUBSET Nat]
          /\ restarts[capture.file] \cup {Len(delivered[capture.file])} \in SUBSET Nat
      BY <2>2, <3>1 DEF TypeOK
    <3>3. \/ restarts' = restarts
          \/ restarts' = [restarts EXCEPT ![capture.file] =
                            restarts[capture.file] \cup {Len(delivered[capture.file])}]
      BY DEF CopyWhen, CopyFrom
    <3>4. QED BY <2>2, <3>2, <3>3
  <2>6. QED BY <2>3, <2>4, <2>5 DEF CopyWhen, CopyFrom, TypeOK, CopiesTracked, env
<1>6. ASSUME Fail PROVE TypeInv'
  BY <1>6 DEF Fail, TypeOK, CopiesTracked, Idle, env
<1>7. ASSUME Post PROVE TypeInv'
  <2>1. capture \in [pc : {"post"}, file : Files, from : Nat, to : Nat]
    BY <1>7 DEF Post, TypeOK, Idle
  <2>2. Batch(capture.from, capture.to) \in Seq(Nat)
    BY <2>1, BatchType
  <2>3. Range(Batch(capture.from, capture.to)) \subseteq Nat
    BY <2>2 DEF Range
  <2>4. delivered' \in [Files -> Seq(Nat)]
    <3>1. capture.file \in Files /\ delivered[capture.file] \in Seq(Nat)
      BY <2>1 DEF TypeOK
    <3>2. delivered[capture.file] \o Batch(capture.from, capture.to) \in Seq(Nat)
      BY <2>2, <3>1
    <3>3. QED BY <1>7, <3>1, <3>2 DEF Post, TypeOK
  <2>5. dropped' \in [Files -> SUBSET Nat]
    <3>1. CASE UNCHANGED dropped
      BY <3>1 DEF TypeOK
    <3>2. CASE dropped' = [dropped EXCEPT ![capture.file] =
                             dropped[capture.file] \cup Range(Batch(capture.from, capture.to))]
      <4>1. capture.file \in Files /\ dropped \in [Files -> SUBSET Nat]
        BY <2>1 DEF TypeOK
      <4>2. dropped[capture.file] \cup Range(Batch(capture.from, capture.to)) \in SUBSET Nat
        BY <2>3, <4>1
      <4>3. QED BY <3>2, <4>1, <4>2
    <3>3. QED BY <1>7, <3>1, <3>2 DEF Post
  <2>6. QED BY <1>7, <2>4, <2>5 DEF Post, TypeOK, CopiesTracked, Idle, env
<1>8. CASE UNCHANGED vars
  BY <1>8 DEF vars, TypeOK, CopiesTracked, Tracked, Idle
<1>9. QED BY <1>1, <1>2, <1>3, <1>4, <1>5, <1>6, <1>7, <1>8 DEF Next

\* The variables, readStats above all, keep their types: what CaptureSingleAppLog
\* records is a size and a position, and it copies only files it has met before.
THEOREM TypeCorrect == Spec => []TypeOK
<1>1. TypeInv => TypeOK
  BY DEF TypeInv
<1>2. QED BY <1>1, TypeInvInit, TypeInvStep, PTL DEF Spec

-----------------------------------------------------------------------------
\* A sequence increases between two restarts, and stays so when a batch is appended
\* that starts after all its elements since the last restart.
Increasing(s, R) == \A i, j \in 1..Len(s) : i < j => s[i] < s[j] \/ \E k \in R : i <= k /\ k < j

Below(s, R, b) == \A i \in 1..Len(s) : (\A k \in R : k < i) => s[i] <= b

LEMMA BatchElements ==
  ASSUME NEW a \in Nat, NEW b \in Nat, a <= b
  PROVE  /\ Len(Batch(a, b)) = b - a
         /\ \A i \in 1..(b - a) : Batch(a, b)[i] = a + i
<1>1. b - a \in Nat
  OBVIOUS
<1>2. QED BY <1>1, BatchType DEF Batch

LEMMA AppendElements ==
  ASSUME NEW s \in Seq(Nat), NEW a \in Nat, NEW b \in Nat, a <= b
  PROVE  LET u == s \o Batch(a, b) IN
         /\ u \in Seq(Nat) /\ Len(u) = Len(s) + (b - a) /\ b - a \in Nat
         /\ \A i \in 1..Len(s) : u[i] = s[i] /\ s[i] \in Nat
         /\ \A i \in (Len(s) + 1)..Len(u) : u[i] = a + (i - Len(s)) /\ i - Len(s) \in 1..(b - a)
<1> DEFINE t == Batch(a, b)
           u == s \o t
<1>1. t \in Seq(Nat) /\ Len(t) = b - a /\ \A i \in 1..(b - a) : t[i] = a + i
  BY BatchType, BatchElements
<1>2. u \in Seq(Nat) /\ Len(u) = Len(s) + Len(t)
  BY <1>1, ConcatProperties
<1>3. \A i \in 1..Len(s) : u[i] = s[i] /\ s[i] \in Nat
  BY <1>1
<1>4. \A i \in (Len(s) + 1)..Len(u) : u[i] = a + (i - Len(s)) /\ i - Len(s) \in 1..(b - a)
  <2> SUFFICES ASSUME NEW i \in (Len(s) + 1)..Len(u)
               PROVE  u[i] = a + (i - Len(s)) /\ i - Len(s) \in 1..(b - a)
    OBVIOUS
  <2>1. i - Len(s) \in 1..Len(t) /\ u[i] = t[i - Len(s)]
    BY <1>1, <1>2
  <2>2. QED BY <1>1, <2>1
<1>5. QED BY <1>1, <1>2, <1>3, <1>4

LEMMA AppendBatch ==
  ASSUME NEW s \in Seq(Nat), NEW R \in SUBSET (0..Len(s)), NEW a \in Nat, NEW b \in Nat, a <= b,
         Increasing(s, R), Below(s, R, a)
  PROVE  /\ s \o Batch(a, b) \in Seq(Nat)
         /\ Len(s \o Batch(a, b)) >= Len(s)
         /\ Increasing(s \o Batch(a, b), R)
         /\ Below(s \o Batch(a, b), R, b)
<1> DEFINE u == s \o Batch(a, b)
<1>1. /\ u \in Seq(Nat) /\ Len(u) = Len(s) + (b - a) /\ b - a \in Nat
      /\ \A i \in 1..Len(s) : u[i] = s[i] /\ s[i] \in Nat
      /\ \A i \in (Len(s) + 1)..Len(u) : u[i] = a + (i - Len(s)) /\ i - Len(s) \in 1..(b - a)
  BY AppendElements
<1>0. Len(s) \in Nat /\ Len(u) \in Nat /\ Len(u) = Len(s) + (b - a)
  BY <1>1
<1> HIDE DEF u
<1>5. \A i \in 1..Len(u) : i \in 1..Len(s) \/ i \in (Len(s) + 1)..Len(u)
  BY <1>0
<1>6. Below(u, R, b)
  <2> SUFFICES ASSUME NEW i \in 1..Len(u), \A k \in R : k < i PROVE u[i] <= b
    BY DEF Below
  <2>1. CASE i \in 1..Len(s)
    <3>1. u[i] = s[i] /\ s[i] \in Nat
      BY <1>1, <2>1
    <3>2. s[i] <= a
      BY <2>1 DEF Below
    <3>3. QED BY <3>1, <3>2
  <2>2. CASE i \in (Len(s) + 1)..Len(u)
    BY <1>1, <2>2
  <2>3. QED BY <1>5, <2>1, <2>2
<1>7. Increasing(u, R)
  <2> SUFFICES ASSUME NEW i \in 1..Len(u), NEW j \in 1..Len(u), i < j
               PROVE  u[i] < u[j] \/ \E k \in R : i <= k /\ k < j
    BY DEF Increasing
  <2>1. CASE j \in 1..Len(s)
    <3>1. i \in 1..Len(s)
      BY <2>1
    <3>2. QED BY <1>1, <2>1, <3>1 DEF Increasing
  <2>2. CASE i \in 1..Len(s) /\ j \in (Len(s) + 1)..Len(u)
    <3>1. CASE \A k \in R : k < i
      <4>1. u[i] <= a
        BY <1>1, <2>2, <3>1 DEF Below
      <4>2. u[j] = a + (j - Len(s)) /\ j - Len(s) >= 1
        BY <1>1, <2>2
      <4>3. QED BY <1>0, <1>1, <2>2, <4>1, <4>2
    <3>2. CASE \E k \in R : ~(k < i)
      <4>1. PICK k \in R : ~(k < i)
        BY <3>2
      <4>2. k \in Nat /\ k <= Len(s)
        BY <1>0
      <4>3. QED BY <1>0, <2>2, <4>1, <4>2
    <3>3. QED BY <3>1, <3>2
  <2>3. CASE i \in (Len(s) + 1)..Len(u)
    <3>1. j \in (Len(s) + 1)..Len(u)
      BY <1>0, <2>3
    <3>2. u[i] = a + (i - Len(s)) /\ u[j] = a + (j - Len(s))
      BY <1>1, <2>3, <3>1
    <3>3. QED BY <1>0, <2>3, <3>1, <3>2
  <2>4. QED BY <1>5, <2>1, <2>2, <2>3
<1>8. Len(u) >= Len(s)
  BY <1>0
<1>9. QED BY <1>1, <1>6, <1>7, <1>8 DEF u

-----------------------------------------------------------------------------
LEMMA OnceInit == Init => OnceInv
BY DEF Init, OnceInv, RestartsInside, InOrderOnce, ReadSoFar, CaptureAhead, Tracked, Idle

\* The application appends: sizes only grow, so what was read stays behind.
LEMMA OnceAppendEntry ==
  ASSUME TypeInv, OnceInv, NEW f \in Files, AppendEntry(f)
  PROVE  OnceInv'
<1> USE DEF TypeInv, OnceInv
<1>1. /\ log[f] \in Content
      /\ log' = [log EXCEPT ![f] = [log[f] EXCEPT !.size = log[f].size + 1]]
      /\ UNCHANGED <<archive, readStats, capture, delivered, restarts>>
  BY DEF AppendEntry, TypeOK
<1>2. \A g \in Files : /\ log[g] \in Content /\ log'[g] \in Content
                        /\ log'[g].base = log[g].base /\ log'[g].size >= log[g].size
  <2> SUFFICES ASSUME NEW g \in Files
               PROVE  /\ log[g] \in Content /\ log'[g] \in Content
                      /\ log'[g].base = log[g].base /\ log'[g].size >= log[g].size
    OBVIOUS
  <2>1. log[g] \in [base : Nat, size : Nat]
    BY DEF TypeOK, Content
  <2>2. CASE g # f
    BY <1>1, <2>1, <2>2 DEF Content, TypeOK
  <2>3. CASE g = f
    <3>1. log'[f] = [log[f] EXCEPT !.size = log[f].size + 1]
      BY <1>1 DEF TypeOK
    <3>2. QED BY <2>1, <2>3, <3>1 DEF Content
  <2>4. QED BY <2>2, <2>3
<1>3. InOrderOnce' /\ RestartsInside'
  BY <1>1 DEF InOrderOnce, RestartsInside
<1>4. ASSUME NEW g \in Files, Tracked(g), Current(g) PROVE Current(g)'
  <2>1. readStats[g] \in [fileSize : Nat, readPosition : Nat]
    BY <1>4 DEF TypeOK, Tracked
  <2>2. QED BY <1>1, <1>2, <1>4, <2>1 DEF Current, Content
<1>5. \A g \in Files : ReadSoFar(g)'
  BY <1>1, <1>2, <1>4 DEF ReadSoFar, UpTo, Tracked
<1>6. CaptureAhead'
  <2>1. CASE capture = Idle
    BY <1>1, <2>1 DEF CaptureAhead, Idle
  <2>2. CASE capture # Idle
    <3>1. capture.file \in Files
      BY <2>2 DEF TypeOK
    <3>2. capture.pc \in {"open", "copy"} => capture.size \in Nat
      BY <2>2 DEF TypeOK
    <3>3. (capture.pc \in {"open", "copy"} => capture.size <= log[capture.file].size)'
      BY <1>1, <1>2, <3>1, <3>2 DEF CaptureAhead, Content
    <3>4. QED BY <1>1, <1>2, <1>4, <3>1, <3>3 DEF CaptureAhead, UpTo, Tracked
  <2>3. QED BY <2>1, <2>2
<1>7. QED BY <1>3, <1>5, <1>6

\* A rotation between two captures: all that was read lies before the new base.
LEMMA OnceRotate ==
  ASSUME TypeInv, OnceInv, NEW f \in Files, Rotate(f), ~RotateAnytime
  PROVE  OnceInv'
<1> USE DEF TypeInv, OnceInv
<1>1. /\ capture = Idle /\ UNCHANGED <<readStats, capture, delivered, restarts>>
      /\ log' = [log EXCEPT ![f] = [base |-> log[f].base + log[f].size, size |-> 0]]
  BY DEF Rotate
<1>2. CaptureAhead' /\ InOrderOnce' /\ RestartsInside'
  BY <1>1 DEF CaptureAhead, InOrderOnce, RestartsInside, Idle
<1>3. ASSUME NEW g \in Files PROVE ReadSoFar(g)'
  <2>1. CASE g # f
    BY <1>1, <2>1 DEF ReadSoFar, UpTo, Current, Tracked, TypeOK
  <2>2. CASE g = f /\ ~Tracked(f)
    BY <1>1, <2>2 DEF ReadSoFar, Tracked
  <2>3. CASE g = f /\ Tracked(f)
    <3>1. /\ log[f].base \in Nat /\ log[f].size \in Nat
          /\ readStats[f].readPosition \in Nat
          /\ \A i \in 1..Len(delivered[f]) : delivered[f][i] \in Nat
      <4>1. log[f] \in [base : Nat, size : Nat] /\ delivered[f] \in Seq(Nat)
        BY DEF TypeOK, Content
      <4>2. readStats[f] \in [fileSize : Nat, readPosition : Nat]
        BY <2>3 DEF TypeOK, Tracked
      <4>3. QED BY <4>1, <4>2
    <3>2. UpTo(f, log[f].base + log[f].size)
      <4>1. CASE UpTo(f, log[f].base)
        BY <3>1, <4>1 DEF UpTo
      <4>2. CASE UpTo(f, log[f].base + readStats[f].readPosition) /\ Current(f)
        BY <3>1, <4>2 DEF UpTo, Current
      <4>3. QED BY <2>3, <4>1, <4>2 DEF ReadSoFar
    <3>3. log'[f].base = log[f].base + log[f].size
      BY <1>1 DEF TypeOK
    <3>4. QED BY <1>1, <2>3, <3>2, <3>3 DEF ReadSoFar, UpTo, Tracked
  <2>4. QED BY <2>1, <2>2, <2>3
<1>4. QED BY <1>2, <1>3

\* A file first met has nothing handed over yet.
LEMMA OnceOpenLog ==
  ASSUME TypeInv, OnceInv, OpenLog
  PROVE  OnceInv'
<1> USE DEF TypeInv, OnceInv
<1> SUFFICES ASSUME NEW f \in Files, f = capture.file PROVE OnceInv'
  BY DEF OpenLog, TypeOK, Idle
<1>1. /\ capture \in [pc : {"open"}, file : Files, size : Nat]
      /\ UNCHANGED <<log, archive, delivered, restarts>>
  BY DEF OpenLog, TypeOK, Idle, env
<1>2. InOrderOnce' /\ RestartsInside'
  BY <1>1 DEF InOrderOnce, RestartsInside
<1>3. CASE ~Tracked(f)
  <2>1. /\ capture' = Idle
        /\ readStats' = [readStats EXCEPT ![f] =
                           [fileSize |-> capture.size, readPosition |-> capture.size]]
    BY <1>3 DEF OpenLog, Tracked
  <2>2. ASSUME NEW g \in Files PROVE ReadSoFar(g)'
    <3>1. CASE g = f
      BY <1>1, <1>3, <3>1 DEF ReadSoFar, UpTo
    <3>2. CASE g # f
      BY <1>1, <2>1, <3>2 DEF ReadSoFar, UpTo, Current, Tracked, TypeOK
    <3>3. QED BY <3>1, <3>2
  <2>3. QED BY <1>2, <2>1, <2>2 DEF CaptureAhead, Idle
<1>4. CASE Tracked(f)
  <2>1. /\ UNCHANGED readStats
        /\ capture' = [pc |-> "copy", file |-> f, size |-> capture.size,
                       gen |-> Len(archive[f]) + 1]
    BY <1>4 DEF OpenLog, Tracked
  <2>2. \A g \in Files : ReadSoFar(g)'
    BY <1>1, <2>1 DEF ReadSoFar, UpTo, Current, Tracked
  <2>3. CaptureAhead'
    BY <1>1, <1>4, <2>1 DEF CaptureAhead, UpTo, Tracked
  <2>4. QED BY <1>2, <2>2, <2>3
<1>5. QED BY <1>3, <1>4

\* What is copied follows what was read: from the position recorded, or from the
\* start of a file that got smaller, up to the end of the file.  When the seek
\* failed nothing was handed over since the restart that this copy is.
LEMMA OnceCopy ==
  ASSUME TypeInv, OnceInv, Copy
  PROVE  OnceInv'
<1> USE DEF TypeInv, OnceInv
<1> SUFFICES ASSUME NEW sought \in BOOLEAN, CopyWhen(sought) PROVE OnceInv'
  BY DEF Copy, CopyWhen
<1> SUFFICES ASSUME NEW f \in Files, f = capture.file PROVE OnceInv'
  BY DEF CopyWhen, CopyFrom, TypeOK, Idle
<1> DEFINE pos == CopyPosition(sought)
           n == Copied(pos)
           Below2(b) == \A i \in 1..Len(delivered[f]) :
                          (\A k \in restarts'[f] : k < i) => delivered[f][i] <= b
<1>1. /\ capture.pc = "copy" /\ f \in Files /\ capture.size \in Nat
      /\ Tracked(f) /\ UNCHANGED <<log, archive, delivered>>
  BY DEF CopyWhen, CopyFrom, TypeOK, CopiesTracked, Idle, env
<1>2. /\ log[f] \in [base : Nat, size : Nat]
      /\ readStats[f] \in [fileSize : Nat, readPosition : Nat]
      /\ delivered[f] \in Seq(Nat)
  BY <1>1 DEF TypeOK, Tracked, Content
<1>3. Opened = log[f]
  <2>1. archive[f] \in Seq(Content) /\ capture.gen = Len(archive[f]) + 1
    BY <1>1 DEF TypeOK, CaptureAhead
  <2>2. QED BY <2>1 DEF Opened
<1>4. pos \in Nat /\ n \in Nat
  BY <1>1, CopyTypes
<1>5. /\ readStats' = [readStats EXCEPT ![f] = [fileSize |-> capture.size, readPosition |-> pos + n]]
      /\ capture' = [pc |-> "post", file |-> f, from |-> log[f].base + pos,
                     to |-> log[f].base + pos + n]
  BY <1>3 DEF CopyWhen, CopyFrom
<1>6. readStats'[f] = [fileSize |-> capture.size, readPosition |-> pos + n] /\ Tracked(f)'
  <2>1. [fileSize |-> capture.size, readPosition |-> pos + n]
          \in [fileSize : Nat, readPosition : Nat]
    BY <1>1, <1>4
  <2>2. QED BY <1>1, <1>5, <2>1, AppLogM3Assumption DEF TypeOK, Tracked
<1>7. capture.size <= log[f].size
  BY <1>1 DEF CaptureAhead
<1>a. /\ sought => restarts' = restarts
      /\ ~sought => restarts'[f] = restarts[f] \cup {Len(delivered[f])}
      /\ \A g \in Files : restarts[g] \subseteq restarts'[g]
      /\ \A g \in Files : g # f => restarts'[g] = restarts[g]
  <2>1. restarts \in [Files -> SUBSET Nat]
    BY DEF TypeOK
  <2>2. sought => restarts' = restarts
    BY DEF CopyWhen, CopyFrom
  <2>3. ~sought => restarts' = [restarts EXCEPT ![f] = restarts[f] \cup {Len(delivered[f])}]
    BY DEF CopyWhen, CopyFrom
  <2>4. QED BY <1>1, <2>1, <2>2, <2>3
<1>b. \A b : UpTo(f, b) => Below2(b)
  BY <1>a DEF UpTo
<1>c. ~sought => \A b : Below2(b)
  <2>1. \A i \in 1..Len(delivered[f]) : ~(Len(delivered[f]) < i)
    BY <1>2
  <2>2. QED BY <1>a, <2>1
<1>d. InOrderOnce' /\ RestartsInside'
  <2>1. InOrderOnce'
    BY <1>1, <1>a DEF InOrderOnce
  <2>2. RestartsInside'
    <3>1. Len(delivered[f]) \in 0..Len(delivered[f])
      BY <1>2
    <3>2. \A g \in Files : restarts'[g] \subseteq 0..Len(delivered[g])
      BY <1>a, <3>1 DEF RestartsInside
    <3>3. QED BY <1>1, <3>2 DEF RestartsInside
  <2>3. QED BY <2>1, <2>2
<1>8. Below2(log[f].base + pos)
  <2>1. \A i \in 1..Len(delivered[f]) : delivered[f][i] \in Nat
    BY <1>2
  <2>2. CASE UpTo(f, log[f].base)
    <3>1. \A i \in 1..Len(delivered[f]) : delivered[f][i] <= log[f].base
                                           => delivered[f][i] <= log[f].base + pos
      <4>1. log[f].base \in Nat
        BY <1>2
      <4> HIDE DEF pos
      <4>2. QED BY <1>4, <2>1, <4>1
    <3>2. QED BY <1>b, <2>2, <3>1
  <2>3. CASE ~UpTo(f, log[f].base) /\ sought
    <3>1. readStats[f].fileSize <= capture.size
      BY <1>1, <2>3 DEF CaptureAhead
    <3>2. pos = readStats[f].readPosition
      BY <1>1, <1>2, <2>3, <3>1 DEF CopyPosition, Shrunk
    <3>3. UpTo(f, log[f].base + readStats[f].readPosition)
      BY <1>1, <2>3 DEF ReadSoFar
    <3>4. QED BY <1>b, <3>2, <3>3
  <2>4. QED BY <1>c, <2>2, <2>3
<1>e. ASSUME NEW g \in Files, g # f PROVE ReadSoFar(g)'
  BY <1>1, <1>5, <1>a, <1>e DEF ReadSoFar, UpTo, Current, Tracked, TypeOK
<1>9. CASE pos <= log[f].size
  <2>1. n = log[f].size - pos
    BY <1>2, <1>3, <1>4, <1>9 DEF Copied
  <2>2. pos + n = log[f].size
    BY <1>2, <1>4, <2>1
  <2>3. Current(f)'
    BY <1>1, <1>2, <1>6, <1>7, <2>2 DEF Current
  <2>4. Below2(log[f].base + (pos + n))
    <3>1. \A i \in 1..Len(delivered[f]) : delivered[f][i] \in Nat
      BY <1>2
    <3>2. log[f].base + pos \in Nat /\ log[f].base + (pos + n) \in Nat
          /\ log[f].base + pos <= log[f].base + (pos + n)
      BY <1>2, <1>4
    <3> HIDE DEF pos, n
    <3>3. QED BY <1>8, <3>1, <3>2
  <2>5. ReadSoFar(f)'
    BY <1>1, <1>6, <2>3, <2>4 DEF ReadSoFar, UpTo
  <2>6. CaptureAhead'
    <3>1. log[f].base + pos <= log[f].base + pos + n
          /\ log[f].base + pos + n = log[f].base + (pos + n)
      BY <1>2, <1>4
    <3>2. QED BY <1>1, <1>5, <1>6, <1>8, <2>3, <3>1 DEF CaptureAhead, UpTo
  <2>7. QED BY <1>d, <1>e, <2>5, <2>6
<1>10. CASE ~(pos <= log[f].size)
  <2>1. n = 0
    BY <1>2, <1>3, <1>4, <1>10 DEF Copied
  <2>2. sought /\ pos = readStats[f].readPosition
    BY <1>1, <1>2, <1>10 DEF CopyPosition
  <2>3. UpTo(f, log[f].base)
    <3>1. ~Current(f)
      BY <1>2, <1>10, <2>2 DEF Current
    <3>2. QED BY <1>1, <3>1 DEF ReadSoFar
  <2>4. ReadSoFar(f)'
    BY <1>1, <1>6, <1>b, <2>3 DEF ReadSoFar, UpTo
  <2>5. CaptureAhead'
    <3>1. log[f].base + pos + n = log[f].base + pos
      BY <1>2, <1>4, <2>1
    <3>2. QED BY <1>1, <1>2, <1>4, <1>5, <1>6, <1>8, <3>1 DEF CaptureAhead, UpTo
  <2>6. QED BY <1>d, <1>e, <2>4, <2>5
<1>11. QED BY <1>9, <1>10

\* The batch is appended, or given up; either way what follows lies after it.
LEMMA OncePost ==
  ASSUME TypeInv, OnceInv, Post
  PROVE  OnceInv'
<1> USE DEF TypeInv, OnceInv
<1> SUFFICES ASSUME NEW f \in Files, f = capture.file PROVE OnceInv'
  BY DEF Post, TypeOK, Idle
<1> DEFINE batch == Batch(capture.from, capture.to)
<1>1. /\ capture \in [pc : {"post"}, file : Files, from : Nat, to : Nat]
      /\ capture' = Idle /\ UNCHANGED <<log, archive, readStats, restarts>>
  BY DEF Post, TypeOK, Idle, env
<1>2. /\ capture.from <= capture.to /\ UpTo(f, capture.from) /\ Tracked(f)
      /\ \/ capture.from = capture.to
         \/ capture.to = log[f].base + readStats[f].readPosition /\ Current(f)
  BY <1>1 DEF CaptureAhead
<1>3. delivered[f] \in Seq(Nat) /\ restarts[f] \in SUBSET (0..Len(delivered[f]))
  BY <1>1 DEF TypeOK, RestartsInside
<1>4. CaptureAhead'
  BY <1>1 DEF CaptureAhead, Idle
<1>5. CASE UNCHANGED delivered
  <2>1. \A g \in Files : ReadSoFar(g)'
    BY <1>1, <1>5 DEF ReadSoFar, UpTo, Current, Tracked
  <2>2. QED BY <1>1, <1>4, <1>5, <2>1 DEF InOrderOnce, RestartsInside
<1>6. CASE delivered' = [delivered EXCEPT ![f] = delivered[f] \o batch]
  <2>1. Increasing(delivered[f], restarts[f]) /\ Below(delivered[f], restarts[f], capture.from)
    BY <1>1, <1>2 DEF InOrderOnce, Increasing, UpTo, Below
  <2>2. /\ Increasing(delivered[f] \o batch, restarts[f])
        /\ Below(delivered[f] \o batch, restarts[f], capture.to)
        /\ Len(delivered[f] \o batch) >= Len(delivered[f])
        /\ delivered[f] \o batch \in Seq(Nat)
    BY <1>1, <1>2, <1>3, <2>1, AppendBatch
  <2>3. delivered'[f] = delivered[f] \o batch
    BY <1>1, <1>6 DEF TypeOK
  <2>4. \A g \in Files : g # f => delivered'[g] = delivered[g]
    BY <1>6 DEF TypeOK
  <2>5. InOrderOnce'
    BY <1>1, <2>2, <2>3, <2>4 DEF InOrderOnce, Increasing
  <2>6. ReadSoFar(f)'
    <3>1. CASE capture.to = log[f].base + readStats[f].readPosition /\ Current(f)
      BY <1>1, <1>2, <2>2, <2>3, <3>1 DEF ReadSoFar, UpTo, Below, Current, Tracked
    <3>2. CASE capture.from = capture.to
      <4>1. batch = <<>>
        <5>1. Len(batch) = 0 /\ batch \in Seq(Nat)
          BY <1>1, <3>2, BatchElements, BatchType
        <5>2. QED BY <5>1
      <4>2. delivered'[f] = delivered[f]
        BY <1>3, <2>3, <4>1
      <4>3. QED BY <1>1, <4>2 DEF ReadSoFar, UpTo, Current, Tracked
    <3>3. QED BY <1>2, <3>1, <3>2
  <2>7. \A g \in Files : ReadSoFar(g)'
    BY <1>1, <2>4, <2>6 DEF ReadSoFar, UpTo, Current, Tracked
  <2>8. RestartsInside'
    <3>1. 0..Len(delivered[f]) \subseteq 0..Len(delivered[f] \o batch)
      <4>1. Len(delivered[f]) \in Nat
        BY <1>3
      <4>2. Len(delivered[f] \o batch) \in Nat
        BY <2>2, LenProperties
      <4> HIDE DEF batch
      <4>3. QED BY <2>2, <4>1, <4>2
    <3>2. restarts[f] \subseteq 0..Len(delivered'[f])
      BY <1>3, <2>3, <3>1
    <3>3. QED BY <1>1, <2>4, <3>2 DEF RestartsInside
  <2>9. QED BY <1>4, <2>5, <2>7, <2>8
<1>7. QED BY <1>5, <1>6 DEF Post

\* "preventing duplicate processing of log entries": as long as the application
\* does not rotate a file while it is captured, no entry is handed over twice and
\* none before an older one, over any number of captures and rotations, except
\* where a failed seek made a capture start over from the beginning of the file.
THEOREM OnceWhenRotationsFallBetweenCaptures ==
  ASSUME ~RotateAnytime
  PROVE  Spec => []InOrderOnce
<1>1. TypeInv /\ OnceInv /\ [Next]_vars => OnceInv'
  <2> SUFFICES ASSUME TypeInv, OnceInv, [Next]_vars PROVE OnceInv'
    OBVIOUS
  <2>1. ASSUME NEW f \in Files, Stat(f) PROVE OnceInv'
    <3>1. log[f].size \in Nat
      BY DEF TypeInv, TypeOK, Content
    <3>2. ASSUME Tracked(f) PROVE UpTo(f, log[f].base) \/ readStats[f].fileSize <= log[f].size
      <4>1. readStats[f] \in [fileSize : Nat, readPosition : Nat]
        BY <3>2 DEF TypeInv, TypeOK, Tracked
      <4>2. QED BY <3>1, <3>2, <4>1 DEF OnceInv, ReadSoFar, Current
    <3>3. CaptureAhead'
      BY <2>1, <3>1, <3>2 DEF Stat, CaptureAhead, UpTo, Tracked, env
    <3>4. QED BY <2>1, <3>3 DEF Stat, OnceInv, RestartsInside, InOrderOnce, ReadSoFar, UpTo, Current, Tracked, env
  <2>2. ASSUME Fail PROVE OnceInv'
    BY <2>2 DEF Fail, OnceInv, RestartsInside, InOrderOnce, ReadSoFar, CaptureAhead, UpTo, Current, Tracked, Idle, env
  <2>3. CASE UNCHANGED vars
    BY <2>3 DEF vars, OnceInv, RestartsInside, InOrderOnce, ReadSoFar, CaptureAhead, UpTo, Current, Tracked
  <2>4. QED BY <2>1, <2>2, <2>3, OnceAppendEntry, OnceRotate, OnceOpenLog, OnceCopy, OncePost DEF Next
<1>2. OnceInv => InOrderOnce
  BY DEF OnceInv
<1>3. QED BY <1>1, <1>2, TypeInvInit, TypeInvStep, OnceInit, PTL DEF Spec

-----------------------------------------------------------------------------
\* What holds of a file that was never rotated: its only descriptor is the file
\* itself, and a capture in progress saw a size between the one recorded and
\* the present one.
NeverRotated(f) ==
  rotations[f] = 0 =>
    /\ archive[f] = <<>>
    /\ Tracked(f) => Current(f)
    /\ capture.pc \in {"open", "copy"} /\ capture.file = f =>
         /\ capture.size <= log[f].size
         /\ Tracked(f) => readStats[f].fileSize <= capture.size

PositionInv == TypeInv /\ \A f \in Files : NeverRotated(f)

\* A capture of a file that was never rotated reads it from where it left off, or
\* from the beginning when the seek failed.
LEMMA OpenedNow ==
  ASSUME PositionInv, capture.pc = "copy", NEW f \in Files, f = capture.file, rotations[f] = 0
  PROVE  /\ Opened = log[f]
         /\ CopyPosition(TRUE) = readStats[f].readPosition /\ CopyPosition(FALSE) = 0
<1>1. /\ capture.gen \in Nat \ {0} /\ capture.size \in Nat /\ Tracked(f)
      /\ readStats[f] \in [fileSize : Nat, readPosition : Nat]
  BY DEF PositionInv, TypeInv, TypeOK, CopiesTracked, Tracked, Idle
<1>2. archive[f] = <<>> /\ readStats[f].fileSize <= capture.size
  BY <1>1 DEF PositionInv, NeverRotated
<1>3. QED BY <1>1, <1>2 DEF Opened, CopyPosition, Shrunk

LEMMA CopyNeverRotated ==
  ASSUME PositionInv, Copy, NEW f \in Files, f = capture.file, rotations[f] = 0
  PROVE  NeverRotated(f)'
<1> USE DEF PositionInv, TypeInv
<1> SUFFICES ASSUME NEW sought \in BOOLEAN, CopyWhen(sought) PROVE NeverRotated(f)'
  BY DEF Copy, CopyWhen
<1> DEFINE pos == CopyPosition(sought)
           n == Copied(pos)
<1>1. /\ capture.pc = "copy" /\ capture.size \in Nat
      /\ Tracked(f) /\ UNCHANGED <<log, archive, rotations>>
  BY DEF CopyWhen, CopyFrom, TypeOK, CopiesTracked, Idle, env
<1>2. /\ log[f] \in [base : Nat, size : Nat]
      /\ readStats[f] \in [fileSize : Nat, readPosition : Nat]
  BY <1>1 DEF TypeOK, Tracked, Content
<1>3. /\ archive[f] = <<>> /\ Current(f) /\ capture.size <= log[f].size
      /\ readStats[f].fileSize <= capture.size
  BY <1>1 DEF NeverRotated
<1>4. Opened = log[f] /\ pos \in {0, readStats[f].readPosition}
  BY <1>1, OpenedNow
<1>5. n = log[f].size - pos /\ pos + n = log[f].size
  BY <1>2, <1>3, <1>4 DEF Copied, Current
<1>6. readStats'[f] = [fileSize |-> capture.size, readPosition |-> pos + n]
  BY <1>1 DEF CopyWhen, CopyFrom, TypeOK
<1>7. Current(f)'
  BY <1>1, <1>2, <1>3, <1>5, <1>6 DEF Current
<1>8. QED BY <1>1, <1>3, <1>7 DEF NeverRotated, CopyWhen, CopyFrom

LEMMA PositionInit == Init => PositionInv
BY TypeInvInit DEF Init, PositionInv, NeverRotated, Tracked, Idle

LEMMA PositionStep == PositionInv /\ [Next]_vars => PositionInv'
<1> SUFFICES ASSUME PositionInv, [Next]_vars, NEW f \in Files, rotations'[f] = 0
             PROVE  NeverRotated(f)'
  BY TypeInvStep DEF PositionInv, NeverRotated
<1> USE DEF PositionInv, TypeInv
<1>0. log[f] \in [base : Nat, size : Nat]
      /\ (Tracked(f) => readStats[f] \in [fileSize : Nat, readPosition : Nat])
  BY DEF TypeOK, Content, Tracked
<1>1. ASSUME NEW g \in Files, AppendEntry(g) PROVE NeverRotated(f)'
  <2>1. log'[f].size = log[f].size \/ log'[f].size = log[f].size + 1
    BY <1>1 DEF AppendEntry, TypeOK, Content
  <2>2. UNCHANGED <<archive, rotations, readStats, capture>>
    BY <1>1 DEF AppendEntry
  <2>3. capture.pc \in {"open", "copy"} /\ capture.file = f => capture.size \in Nat
    BY DEF TypeOK, Idle
  <2>4. QED BY <1>0, <2>1, <2>2, <2>3 DEF NeverRotated, Current, Tracked
<1>2. ASSUME NEW g \in Files, Rotate(g) PROVE NeverRotated(f)'
  <2>1. rotations[g] \in Nat /\ rotations'[g] = rotations[g] + 1
    BY <1>2 DEF Rotate, TypeOK
  <2>2. g # f
    BY <2>1
  <2>3. /\ log'[f] = log[f] /\ archive'[f] = archive[f] /\ rotations'[f] = rotations[f]
        /\ UNCHANGED <<readStats, capture>>
    BY <1>2, <2>2 DEF Rotate, TypeOK
  <2>4. QED BY <2>3 DEF NeverRotated, Current, Tracked
<1>3. ASSUME NEW g \in Files, Stat(g) PROVE NeverRotated(f)'
  BY <1>0, <1>3 DEF Stat, NeverRotated, Current, Tracked, env
<1>4. ASSUME OpenLog PROVE NeverRotated(f)'
  <2>1. /\ capture \in [pc : {"open"}, file : Files, size : Nat]
        /\ UNCHANGED <<log, archive, rotations>>
    BY <1>4 DEF OpenLog, TypeOK, Idle, env
  <2>2. CASE Tracked(capture.file)
    BY <1>4, <2>1, <2>2 DEF OpenLog, NeverRotated, Current, Tracked
  <2>3. CASE ~Tracked(capture.file)
    <3>1. /\ capture' = Idle
          /\ readStats' = [readStats EXCEPT ![capture.file] =
                             [fileSize |-> capture.size, readPosition |-> capture.size]]
      BY <1>4, <2>3 DEF OpenLog, Tracked
    <3>2. CASE capture.file = f
      BY <1>0, <2>1, <3>1, <3>2 DEF NeverRotated, Current, TypeOK, Idle
    <3>3. CASE capture.file # f
      BY <2>1, <3>1, <3>3 DEF NeverRotated, Current, Tracked, TypeOK, Idle
    <3>4. QED BY <3>2, <3>3
  <2>4. QED BY <2>2, <2>3
<1>5. ASSUME Copy PROVE NeverRotated(f)'
  <2>1. CASE f = capture.file
    BY <1>5, <2>1, CopyNeverRotated DEF Copy, CopyFrom, env
  <2>2. CASE f # capture.file
    BY <1>5, <2>2 DEF Copy, CopyFrom, NeverRotated, Current, Tracked, TypeOK, env
  <2>3. QED BY <2>1, <2>2
<1>6. ASSUME Fail PROVE NeverRotated(f)'
  BY <1>6 DEF Fail, NeverRotated, Current, Tracked, Idle, env
<1>7. ASSUME Post PROVE NeverRotated(f)'
  BY <1>7 DEF Post, NeverRotated, Current, Tracked, Idle, env
<1>8. CASE UNCHANGED vars
  BY <1>8 DEF vars, NeverRotated, Current, Tracked
<1>9. QED BY <1>1, <1>2, <1>3, <1>4, <1>5, <1>6, <1>7, <1>8 DEF Next

\* For any timing of the rotations of other files: the position recorded for a
\* file that is only appended to never runs ahead of it.
THEOREM PositionStaysInFile == Spec => []PositionInFile
<1>1. PositionInv => PositionInFile
  BY DEF PositionInv, NeverRotated, PositionInFile, Current
<1>2. QED BY <1>1, PositionInit, PositionStep, PTL DEF Spec

-----------------------------------------------------------------------------
\* In a file that is not rotated, entries are their positions, and a batch read
\* but not yet posted ends where readStats says.
TailInv ==
  /\ PositionInv
  /\ \A f \in Steady : rotations[f] = 0 /\ log[f].base = 0
  /\ capture.pc = "post" /\ capture.file \in Steady =>
       /\ Tracked(capture.file)
       /\ capture.from <= capture.to
       /\ capture.to = readStats[capture.file].readPosition

Written == [f \in Steady |-> log[f].size]
Cursors == [f \in Steady |-> Cursor(f)]
Delivered == [f \in Steady |-> delivered[f]]
Restarts == [f \in Steady |-> restarts[f]]

LEMMA TailInvInit == Init => TailInv
BY PositionInit DEF Init, TailInv, Steady, Idle

LEMMA TailInvStep ==
  ASSUME TailInv, [Next]_vars
  PROVE  TailInv'
<1> USE DEF TailInv
<1>1. PositionInv'
  BY PositionStep
<1>2. ASSUME NEW f \in Files, Rotate(f)
      PROVE  UNCHANGED <<capture, readStats>> /\ \A g \in Steady : rotations'[g] = 0 /\ log'[g].base = 0
  BY <1>2 DEF Rotate, PositionInv, TypeInv, TypeOK, Steady
<1>3. \A g \in Steady : rotations'[g] = 0 /\ log'[g].base = 0
  <2>1. ASSUME NEW f \in Files, AppendEntry(f)
        PROVE  rotations' = rotations /\ \A g \in Steady : log'[g].base = 0
    BY <2>1 DEF AppendEntry, PositionInv, TypeInv, TypeOK, Content, Steady
  <2>2. QED BY <1>2, <2>1 DEF Next, vars, Stat, OpenLog, Copy, CopyFrom, Fail, Post, env
<1>4. CASE Copy
  <2> SUFFICES ASSUME NEW sought \in BOOLEAN, CopyWhen(sought) PROVE TailInv'
    BY <1>4 DEF Copy, CopyWhen
  <2>0. capture.file \in Files
    BY DEF CopyWhen, CopyFrom, PositionInv, TypeInv, TypeOK, Idle
  <2> SUFFICES ASSUME NEW f \in Files, f = capture.file PROVE TailInv'
    BY <2>0
  <2> DEFINE pos == CopyPosition(sought)
  <2>1. /\ pos \in Nat /\ Copied(pos) \in Nat /\ Tracked(f)
        /\ Opened.base \in Nat /\ capture.size \in Nat
        /\ f \in Steady => Opened = log[f]
    <3>1. capture.pc = "copy" /\ Tracked(f) /\ capture.size \in Nat
      BY DEF CopyWhen, CopyFrom, PositionInv, TypeInv, TypeOK, CopiesTracked, Idle
    <3>2. QED BY <3>1, CopyTypes, OpenedNow, OpenedType DEF PositionInv, TypeInv, Steady, Content
  <2>2. [fileSize |-> capture.size, readPosition |-> pos + Copied(pos)]
          \in [fileSize : Nat, readPosition : Nat]
    BY <2>1
  <2>3. Tracked(f)' /\ readStats'[f].readPosition = pos + Copied(pos)
    BY <2>1, <2>2, AppLogM3Assumption DEF CopyWhen, CopyFrom, Tracked, PositionInv, TypeInv, TypeOK
  <2>4. /\ capture'.file = f
        /\ f \in Steady => capture'.from = pos /\ capture'.to = pos + Copied(pos)
    BY <2>1 DEF CopyWhen, CopyFrom, Steady
  <2>5. QED BY <1>1, <1>3, <2>1, <2>3, <2>4
<1>5. CASE ~Copy
  <2>1. ASSUME OpenLog PROVE capture'.pc # "post"
    BY <2>1 DEF OpenLog, Idle
  <2>2. ASSUME Fail \/ Post \/ \E f \in Files : Stat(f) PROVE capture'.pc # "post"
    <3>1. ASSUME NEW f \in Files, Stat(f) PROVE capture'.pc # "post"
      BY <3>1 DEF Stat
    <3>2. ASSUME Fail PROVE capture'.pc # "post"
      BY <3>2 DEF Fail, Idle
    <3>3. ASSUME Post PROVE capture'.pc # "post"
      BY <3>3 DEF Post, Idle
    <3>4. QED BY <2>2, <3>1, <3>2, <3>3
  <2>3. ASSUME NEW f \in Files, AppendEntry(f) PROVE UNCHANGED <<capture, readStats>>
    BY <2>3 DEF AppendEntry
  <2>4. capture'.pc = "post" => UNCHANGED <<capture, readStats>>
    BY <1>2, <1>5, <2>1, <2>2, <2>3 DEF Next, vars
  <2>5. QED BY <1>1, <1>3, <2>4 DEF Tracked
<1>6. QED BY <1>4, <1>5

LEMMA TailSteps ==
  ASSUME TailInv, TailInv', [Next]_vars
  PROVE  [Tail_!Next]_<<Written, Cursors, Delivered, Restarts>>
<1> USE DEF Written, Cursors, Delivered, Restarts
<1> DEFINE Stutter == UNCHANGED <<Written, Cursors, Delivered, Restarts>>
<1>1. /\ \A f \in Files : log[f] \in [base : Nat, size : Nat]
      /\ \A f \in Files : Tracked(f) => readStats[f] \in [fileSize : Nat, readPosition : Nat]
      /\ log \in [Files -> Content] /\ Steady \subseteq Files
  BY DEF TailInv, PositionInv, TypeInv, TypeOK, Content, Tracked, Steady
<1>2. ASSUME NEW f \in Files, AppendEntry(f) PROVE Tail_!Next \/ Stutter
  <2>1. log' = [log EXCEPT ![f].size = log[f].size + 1]
        /\ UNCHANGED <<readStats, capture, delivered, restarts>>
    BY <1>2 DEF AppendEntry
  <2>2. Cursors' = Cursors /\ Delivered' = Delivered /\ Restarts' = Restarts
    BY <2>1 DEF Cursor, Tracked
  <2>3. CASE f \in Steady
    <3>1. Written' = [Written EXCEPT ![f] = Written[f] + 1]
      BY <1>1, <2>1 DEF Content
    <3>2. QED BY <2>2, <2>3, <3>1 DEF Tail_!Write, Tail_!Next
  <2>4. CASE f \notin Steady
    BY <1>1, <2>1, <2>2, <2>4
  <2>5. QED BY <2>3, <2>4
<1>3. ASSUME NEW f \in Files, Rotate(f) PROVE Stutter
  <2>1. /\ UNCHANGED <<readStats, capture, delivered, restarts>>
        /\ \A g \in Steady : log'[g] = log[g]
    BY <1>1, <1>3 DEF Rotate, Steady
  <2>2. QED BY <2>1 DEF Cursor, Tracked
<1>4. ASSUME NEW f \in Files, Stat(f) PROVE Stutter
  BY <1>4 DEF Stat, Cursor, Tracked, Idle, env
<1>5. ASSUME OpenLog PROVE Tail_!Next \/ Stutter
  <2> SUFFICES ASSUME NEW f \in Files, f = capture.file
               PROVE  Tail_!Next \/ Stutter
    <3>1. capture.pc = "open" /\ TypeOK
      BY <1>5 DEF OpenLog, TailInv, PositionInv, TypeInv
    <3>2. capture.file \in Files
      BY <3>1 DEF TypeOK, Idle
    <3>3. QED BY <3>2
  <2>1. /\ capture.pc = "open" /\ capture.size \in Nat
        /\ UNCHANGED <<log, delivered, restarts>>
    BY <1>5 DEF OpenLog, TailInv, PositionInv, TypeInv, TypeOK, Idle, env
  <2>2. CASE Tracked(f)
    BY <1>5, <2>1, <2>2 DEF OpenLog, Cursor, Tracked
  <2>3. CASE ~Tracked(f)
    <3>1. /\ capture' = Idle
          /\ readStats' = [readStats EXCEPT ![f] =
                             [fileSize |-> capture.size, readPosition |-> capture.size]]
          /\ readStats \in [Files -> [fileSize : Nat, readPosition : Nat] \cup {Untracked}]
      BY <1>5, <2>3 DEF OpenLog, Tracked, TailInv, PositionInv, TypeInv, TypeOK
    <3>2. [fileSize |-> capture.size, readPosition |-> capture.size] # Untracked
      BY <2>1, AppLogM3Assumption
    <3>3. \A g \in Steady : g # f => Cursor(g)' = Cursor(g)
      BY <1>1, <2>1, <3>1 DEF Cursor, Tracked, Idle
    <3>4. CASE f \in Steady
      <4>1. capture.size \in 0..Written[f]
        BY <1>1, <2>1, <3>4 DEF TailInv, PositionInv, NeverRotated
      <4>2. Cursor(f)' = capture.size /\ Cursors[f] = Untracked
        BY <1>1, <2>3, <3>1, <3>2, <3>4 DEF Cursor, Tracked, Idle
      <4>3. Cursors' = [Cursors EXCEPT ![f] = capture.size]
        BY <3>3, <3>4, <4>2
      <4>4. QED BY <2>1, <3>4, <4>1, <4>2, <4>3 DEF Tail_!Meet, Tail_!Next
    <3>5. CASE f \notin Steady
      BY <2>1, <3>3, <3>5
    <3>6. QED BY <3>4, <3>5
  <2>4. QED BY <2>2, <2>3
<1>6. ASSUME Copy PROVE Tail_!Next \/ Stutter
  <2> SUFFICES ASSUME NEW sought \in BOOLEAN, CopyWhen(sought) PROVE Tail_!Next \/ Stutter
    BY <1>6 DEF Copy, CopyWhen
  <2> SUFFICES ASSUME NEW f \in Files, f = capture.file PROVE Tail_!Next \/ Stutter
    BY DEF CopyWhen, CopyFrom, TailInv, PositionInv, TypeInv, TypeOK, Idle
  <2>1. capture.pc = "copy" /\ Tracked(f) /\ UNCHANGED <<log, delivered>>
    BY DEF CopyWhen, CopyFrom, TailInv, PositionInv, TypeInv, CopiesTracked, env
  <2>2. capture'.pc = "post" /\ capture'.file = f
    BY DEF CopyWhen, CopyFrom
  <2>3. \A g \in Files : g # f => readStats'[g] = readStats[g] /\ restarts'[g] = restarts[g]
    BY DEF CopyWhen, CopyFrom, TailInv, PositionInv, TypeInv, TypeOK
  <2>4. ASSUME NEW g \in Steady, g # f PROVE Cursor(g)' = Cursor(g)
    BY <1>1, <2>1, <2>2, <2>3, <2>4 DEF Cursor, Tracked
  <2>5. CASE f \notin Steady
    <3>1. \A g \in Steady : g \in Files /\ g # f
      BY <1>1, <2>5
    <3>2. Cursors' = Cursors /\ Restarts' = Restarts
      BY <2>3, <2>4, <3>1
    <3>3. QED BY <2>1, <3>2
  <2>6. CASE f \in Steady
    <3>1. /\ Opened = log[f] /\ log[f].base = 0
          /\ CopyPosition(TRUE) = readStats[f].readPosition /\ CopyPosition(FALSE) = 0
      BY <2>1, <2>6, OpenedNow DEF TailInv
    <3>2. readStats[f].readPosition \in Nat /\ Cursor(f) = readStats[f].readPosition
      BY <1>1, <2>1, <2>6 DEF Cursor
    <3>3. Cursor(f)' = CopyPosition(sought)
      <4>1. capture'.from = CopyPosition(sought)
        <5>1. CopyPosition(sought) \in Nat
          BY <2>1, CopyTypes DEF TailInv, PositionInv, TypeInv
        <5>2. QED BY <3>1, <5>1 DEF CopyWhen, CopyFrom
      <4>2. Tracked(f)'
        BY <2>2, <2>6 DEF TailInv
      <4>3. QED BY <2>2, <4>1, <4>2 DEF Cursor, Tracked
    <3>4. CASE sought
      <4>1. restarts' = restarts
        BY <3>4 DEF CopyWhen, CopyFrom
      <4>2. QED BY <2>1, <2>4, <2>6, <3>1, <3>2, <3>3, <3>4, <4>1
    <3>5. CASE ~sought
      <4>1. Cursors[f] # Untracked
        BY <2>6, <3>2, AppLogM3Assumption
      <4>2. Cursors' = [Cursors EXCEPT ![f] = 0]
        BY <2>4, <2>6, <3>1, <3>3, <3>5
      <4>3. Restarts' = [Restarts EXCEPT ![f] = Restarts[f] \cup {Len(Delivered[f])}]
        BY <1>1, <2>3, <2>6, <3>5 DEF CopyWhen, CopyFrom, TailInv, PositionInv, TypeInv, TypeOK
      <4>4. Tail_!Restart(f)
        BY <2>1, <4>1, <4>2, <4>3 DEF Tail_!Restart
      <4>5. QED BY <2>6, <4>4 DEF Tail_!Next
    <3>6. QED BY <3>4, <3>5
  <2>7. QED BY <2>5, <2>6
<1>7. ASSUME Fail PROVE Stutter
  BY <1>7 DEF Fail, Cursor, Tracked, Idle, env
<1>8. ASSUME Post PROVE Tail_!Next \/ Stutter
  <2> SUFFICES ASSUME NEW f \in Files, f = capture.file PROVE Tail_!Next \/ Stutter
    BY <1>8 DEF Post, TailInv, PositionInv, TypeInv, TypeOK, Idle
  <2>1. /\ capture.pc = "post" /\ capture.from \in Nat /\ capture.to \in Nat
        /\ capture' = Idle /\ UNCHANGED <<log, readStats, restarts>>
        /\ delivered \in [Files -> Seq(Nat)]
    BY <1>8 DEF Post, TailInv, PositionInv, TypeInv, TypeOK, Idle, env
  <2>2. \A g \in Steady : g # f => Cursor(g)' = Cursor(g)
    BY <2>1 DEF Cursor, Tracked, Idle
  <2>3. \/ delivered' = [delivered EXCEPT ![f] = delivered[f] \o Batch(capture.from, capture.to)]
        \/ UNCHANGED delivered
    BY <1>8 DEF Post
  <2>4. CASE f \notin Steady
    <3>1. \A g \in Steady : delivered'[g] = delivered[g]
      BY <1>1, <2>1, <2>3, <2>4
    <3>2. QED BY <2>1, <2>2, <2>4, <3>1
  <2>5. CASE f \in Steady
    <3>1. /\ Tracked(f) /\ capture.from <= capture.to
          /\ capture.to = readStats[f].readPosition
      BY <2>1, <2>5 DEF TailInv
    <3>2. capture.to <= log[f].size
      BY <2>5, <3>1 DEF TailInv, PositionInv, NeverRotated, Current, Steady
    <3>3. /\ Cursor(f) = capture.from /\ capture.from # Untracked
          /\ Cursor(f)' = capture.to
      BY <2>1, <3>1, AppLogM3Assumption DEF Cursor, Tracked, Idle
    <3>4. Cursors[f] = capture.from /\ Cursors' = [Cursors EXCEPT ![f] = capture.to]
      BY <2>2, <2>5, <3>3
    <3>5. capture.to \in Cursors[f]..Written[f] /\ Written' = Written /\ Restarts' = Restarts
      BY <1>1, <2>1, <2>5, <3>1, <3>2, <3>4
    <3>6. CASE delivered' = [delivered EXCEPT ![f] = delivered[f] \o Batch(capture.from, capture.to)]
      <4>1. Tail_!Batch(Cursors[f], capture.to) = Batch(capture.from, capture.to)
        BY <3>4 DEF Batch, Tail_!Batch
      <4>2. Delivered' = [Delivered EXCEPT ![f] = Delivered[f] \o Batch(capture.from, capture.to)]
        BY <1>1, <2>1, <2>5, <3>6
      <4>3. Tail_!Deliver(f)
        BY <3>3, <3>4, <3>5, <4>1, <4>2 DEF Tail_!Deliver
      <4>4. QED BY <2>5, <4>3 DEF Tail_!Next
    <3>7. CASE UNCHANGED delivered
      BY <2>5, <3>3, <3>4, <3>5, <3>7 DEF Tail_!Drop, Tail_!Next
    <3>8. QED BY <2>3, <3>6, <3>7
  <2>6. QED BY <2>4, <2>5
<1>9. CASE UNCHANGED vars
  BY <1>9 DEF vars, Cursor, Tracked
<1>10. QED
  BY <1>2, <1>3, <1>4, <1>5, <1>6, <1>7, <1>8, <1>9 DEF Next

\* Files that are never rotated are read as LogTail promises, whatever other files
\* do: a step of a capture maps to a step of the abstract cursor, or to none, and
\* the fallback of a failed seek to the cursor's restart from the beginning.
THEOREM ImplementsLogTail == Spec => TailSpec
<1>1. Init => Tail_!Init
  BY DEF Init, Tail_!Init, Cursor, Tracked, Idle, Steady
<1>2. QED BY <1>1, TailInvInit, TailInvStep, TailSteps, PTL
  DEF Spec, TailSpec, Tail_!Spec, Tail_!vars, Written, Cursors, Delivered, Restarts
=============================================================================
