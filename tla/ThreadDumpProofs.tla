-------------------------- MODULE ThreadDumpProofs --------------------------
(***************************************************************************)
(* Proofs about a thread dump, for any number of processes in a directory: *)
(* what its goroutines and its loop know of each other, and that what is   *)
(* posted holds every file the rounds left, in order and finished.         *)
(***************************************************************************)
EXTENDS ThreadDump, FiniteSetTheorems, SequenceTheorems, WellFoundedInduction, TLAPS

\* The files: what is not written at this moment is finished.
FilesInv ==
  /\ javacore \in [Rounds -> Dump \cup {Absent}]
  /\ topdashH \in [Rounds -> TopH \cup {Absent}]
  /\ \A k \in Rounds : topdashH[k] # Absent /\ ~(topper = "copy" /\ tn = k) =>
       topdashH[k].complete
  /\ topper = "copy" => topdashH[tn] # Absent

LoopInv ==
  /\ pid \in 1..(Pids + 1) /\ n \in Rounds
  /\ td \in {"start", "send", "wait", "sleep", "catJavacore", "catTopH", "post"}
  /\ td # "start" => pid \in 1..Pids
  /\ td = "sleep" => n < Count

Between == td \in {"send", "sleep"}
Over == td \in {"start", "catJavacore", "catTopH", "post"}

Queue == Seq(1..Closed)

\* The first goroutine has the round of the loop, or has answered it, or has gone:
\* then rounds stay in its queue.
DumperInv ==
  /\ b1 \in Queue /\ e1 \in Nat /\ dn \in 0..Closed /\ attempt \in 1..4
  /\ dumper \in {"recv", "attempt", "end"}
  /\ dumper = "attempt" => td = "wait" /\ b1 = <<>> /\ dn = n /\ e1 = 0
  /\ dumper = "recv" =>
       \/ Between /\ b1 = <<>> /\ e1 = 0
       \/ td = "wait" /\ b1 = <<n>> /\ e1 = 0
       \/ td = "wait" /\ b1 = <<>> /\ e1 = 1
       \/ Over /\ b1 = <<Closed>>

\* The second one answers every round, and ends with the loop.
TopperInv ==
  /\ e2 \in Nat /\ tn \in 0..Closed
  /\ \/ Between /\ topper = "recv" /\ b2 = <<>> /\ e2 = 0
     \/ td = "wait" /\ topper = "recv" /\ b2 = <<n>> /\ e2 = 0
     \/ td = "wait" /\ topper \in {"top", "copy"} /\ tn = n /\ b2 = <<>> /\ e2 = 0
     \/ td = "wait" /\ topper = "recv" /\ b2 = <<>> /\ e2 = 1
     \/ Over /\ topper = "recv" /\ b2 = <<Closed>>
     \/ Over /\ topper = "end" /\ b2 = <<>>

\* threaddump.out between the two cats and Post: no file of the process changes any
\* more, so it is what the directory holds.
ResultInv ==
  /\ threaddump \in Seq(Entry)
  /\ TopHComplete
  /\ td = "catTopH" => threaddump = Concatenated("dump", javacore)
  /\ td = "post" =>
       threaddump = Concatenated("dump", javacore) \o Concatenated("top", topdashH)
  /\ posted \in Seq([pid : 1..Pids, content : Seq(Entry)])

IInv == FilesInv /\ LoopInv /\ DumperInv /\ TopperInv /\ ResultInv

-----------------------------------------------------------------------------
(***************************************************************************)
(* The shell's order of the names.                                         *)
(***************************************************************************)
\* No two rounds have the same name; up to 9 rounds the order of the names is that
\* of the numbers.
LEMMA GlobKeyIs ==
  /\ \A k \in Rounds : GlobKey(k) \in 1..200
  /\ \A j, k \in Rounds : GlobKey(j) = GlobKey(k) => j = k
  /\ Count <= 9 => \A j, k \in Rounds : GlobKey(j) < GlobKey(k) => j < k
<1>0. \A k \in Rounds : k \in 1..99 BY ThreadDumpAssumption DEF Rounds
<1>1. ASSUME NEW k \in Rounds
      PROVE  \E q \in 0..9, r \in 0..10 :
               /\ GlobKey(k) = q * 11 + r /\ q + r > 0
               /\ k = IF r = 0 THEN q ELSE q * 10 + r - 1
  <2>1. CASE k < 10
    <3>1. GlobKey(k) = k * 11 /\ k \in 1..9 BY <1>0, <2>1 DEF GlobKey
    <3>q. QED BY <3>1
  <2>2. CASE k >= 10
    <3> DEFINE q == k \div 10
               r == k % 10
    <3>1. k = q * 10 + r /\ r \in 0..9 /\ q \in 1..9 BY <1>0, <2>2
    <3>2. GlobKey(k) = q * 11 + r + 1 BY <1>0, <2>2 DEF GlobKey
    <3> HIDE DEF q, r
    <3>3. r + 1 \in 1..10 /\ q \in 0..9 /\ GlobKey(k) = q * 11 + (r + 1)
          /\ k = q * 10 + (r + 1) - 1
      BY <3>1, <3>2
    <3>q. QED BY <3>3
  <2>q. QED BY <1>0, <2>1, <2>2
<1>2. ASSUME NEW k \in Rounds PROVE GlobKey(k) \in 1..200
  <2>1. PICK q \in 0..9, r \in 0..10 : GlobKey(k) = q * 11 + r /\ q + r > 0 BY <1>1
  <2>q. QED BY <2>1
<1>3. ASSUME NEW j \in Rounds, NEW k \in Rounds, GlobKey(j) = GlobKey(k) PROVE j = k
  <2>1. PICK q \in 0..9, r \in 0..10 : /\ GlobKey(k) = q * 11 + r
                                       /\ k = IF r = 0 THEN q ELSE q * 10 + r - 1
    BY <1>1
  <2>2. PICK p \in 0..9, s \in 0..10 : /\ GlobKey(j) = p * 11 + s
                                       /\ j = IF s = 0 THEN p ELSE p * 10 + s - 1
    BY <1>1
  <2>3. p * 11 + s = q * 11 + r BY <1>3, <2>1, <2>2
  <2>4. p = q /\ s = r BY <2>3
  <2>q. QED BY <2>1, <2>2, <2>4
<1>4. ASSUME Count <= 9, NEW j \in Rounds, NEW k \in Rounds, GlobKey(j) < GlobKey(k)
      PROVE  j < k
  <2>1. j \in 1..9 /\ k \in 1..9 BY <1>4, ThreadDumpAssumption DEF Rounds
  <2>2. GlobKey(j) = j * 11 /\ GlobKey(k) = k * 11 BY <2>1 DEF GlobKey
  <2>q. QED BY <1>4, <2>1, <2>2
<1>q. QED BY <1>2, <1>3, <1>4

LEMMA RoundsFinite == \A S \in SUBSET Rounds : IsFiniteSet(S) /\ Cardinality(S) \in Nat
<1>1. 1 \in Int /\ Count \in Int BY ThreadDumpAssumption
<1>2. IsFiniteSet(Rounds) BY <1>1, FS_Interval DEF Rounds
<1>q. QED BY <1>2, FS_Subset, FS_CardinalityType

\* The last name of some.
LEMMA LastOf ==
  ASSUME NEW S \in SUBSET Rounds, S # {}
  PROVE  \E x \in S : \A y \in S : y # x => GlobKey(y) < GlobKey(x)
<1> DEFINE Above(x) == {y \in S : GlobKey(y) > GlobKey(x)}
           T == {Above(x) : x \in S}
<1>0. \A x \in S : GlobKey(x) \in 1..200 BY GlobKeyIs
<1>1. IsFiniteSet(S) BY RoundsFinite
<1>2. T \subseteq FiniteSubsetsOf(S) /\ T # {}
  <2>1. \A x \in S : Above(x) \subseteq S /\ IsFiniteSet(Above(x)) BY <1>1, FS_Subset
  <2>q. QED BY <2>1 DEF FiniteSubsetsOf
<1>3. PICK A \in T : \A B \in T : ~(<<B, A>> \in StrictSubsetOrdering(S))
  <2> HIDE DEF T
  <2>q. QED BY <1>2, FS_StrictSubsetOrderingWellFounded, WFMin
<1>4. PICK x \in S : A = Above(x) BY <1>3
<1>5. ASSUME NEW y \in S, GlobKey(y) > GlobKey(x) PROVE FALSE
  <2>0. Above(y) \in T OBVIOUS
  <2>1. Above(y) \subseteq Above(x)
    <3>1. \A i, j, k \in 1..200 : i > j /\ j > k => i > k OBVIOUS
    <3>q. QED BY <1>0, <1>5, <3>1
  <2>2. y \in Above(x) /\ y \notin Above(y) BY <1>0, <1>5
  <2>3. <<Above(y), A>> \in StrictSubsetOrdering(S)
    BY <1>4, <2>1, <2>2 DEF StrictSubsetOrdering
  <2>q. QED BY <1>3, <2>0, <2>3
<1>6. ASSUME NEW y \in S, y # x PROVE GlobKey(y) < GlobKey(x)
  <2>1. GlobKey(y) # GlobKey(x) BY <1>6, GlobKeyIs
  <2>2. ~(GlobKey(y) > GlobKey(x)) BY <1>5
  <2>3. \A i, j \in 1..200 : i # j /\ ~(i > j) => i < j OBVIOUS
  <2>q. QED BY <1>0, <2>1, <2>2, <2>3
<1>q. QED BY <1>6

InOrder(S, s) == \A i, j \in 1..Cardinality(S) : i < j => GlobKey(s[i]) < GlobKey(s[j])

\* Any rounds can be put in the order of their names.
LEMMA OrderExists ==
  \A S \in SUBSET Rounds : \E s \in [1..Cardinality(S) -> S] : InOrder(S, s)
<1>0. \A S \in SUBSET Rounds : IsFiniteSet(S) BY RoundsFinite
<1> DEFINE T == {S \in SUBSET Rounds : ~ \E s \in [1..Cardinality(S) -> S] : InOrder(S, s)}
<1>1. SUFFICES ASSUME T # {} PROVE FALSE OBVIOUS
<1>2. T \subseteq FiniteSubsetsOf(Rounds) BY <1>0 DEF FiniteSubsetsOf
<1>3. PICK A \in T : \A B \in T : ~(<<B, A>> \in StrictSubsetOrdering(Rounds))
  <2> HIDE DEF T
  <2>1. IsFiniteSet(Rounds) BY <1>0
  <2>q. QED BY <1>1, <1>2, <2>1, FS_StrictSubsetOrderingWellFounded, WFMin
<1>4. A \in SUBSET Rounds /\ ~ \E s \in [1..Cardinality(A) -> A] : InOrder(A, s) OBVIOUS
<1>5. A # {}
  <2>1. SUFFICES ASSUME A = {} PROVE FALSE OBVIOUS
  <2>2. Cardinality(A) = 0 BY <2>1, FS_EmptySet
  <2>3. [i \in 1..0 |-> 0] \in [1..0 -> {}] OBVIOUS
  <2>4. InOrder(A, [i \in 1..0 |-> 0]) BY <2>2 DEF InOrder
  <2>q. QED BY <1>4, <2>1, <2>2, <2>3, <2>4
<1>6. PICK x \in A : \A y \in A : y # x => GlobKey(y) < GlobKey(x) BY <1>4, <1>5, LastOf
<1> DEFINE B == A \ {x}
           c == Cardinality(A)
<1>7. c \in Nat /\ Cardinality(B) = c - 1 /\ Cardinality(B) \in Nat
  <2>1. IsFiniteSet(A) BY <1>0, <1>4
  <2>2. IsFiniteSet(B) /\ Cardinality(B) = c - 1 BY <2>1, FS_RemoveElement
  <2>q. QED BY <2>1, <2>2, FS_CardinalityType
<1>8. PICK s \in [1..Cardinality(B) -> B] : InOrder(B, s)
  <2>1. <<B, A>> \in StrictSubsetOrdering(Rounds) BY <1>4 DEF StrictSubsetOrdering
  <2>2. B \notin T /\ B \in SUBSET Rounds BY <1>3, <1>4, <2>1
  <2>q. QED BY <2>2
<1> DEFINE t == [i \in 1..c |-> IF i = c THEN x ELSE s[i]]
<1>9. \A i \in 1..c : i # c => i \in 1..Cardinality(B) /\ s[i] \in B
  <2> DEFINE d == Cardinality(B)
  <2> HIDE DEF c, d, B
  <2>1. c \in Nat /\ d = c - 1 BY <1>7 DEF d
  <2>2. \A i \in 1..c : i # c => i \in 1..d BY <2>1
  <2>q. QED BY <1>8, <2>2 DEF d
<1>10. t \in [1..c -> A] BY <1>9
<1>11. InOrder(A, t)
  <2>1. SUFFICES ASSUME NEW i \in 1..c, NEW j \in 1..c, i < j PROVE GlobKey(t[i]) < GlobKey(t[j])
    BY DEF InOrder
  <2>2. i # c /\ t[i] = s[i] BY <1>7, <2>1
  <2>3. CASE j = c
    <3>1. t[j] = x /\ s[i] \in A /\ s[i] # x BY <1>9, <2>2, <2>3
    <3>q. QED BY <1>6, <2>2, <3>1
  <2>4. CASE j # c
    <3>1. t[j] = s[j] BY <2>4
    <3>2. GlobKey(s[i]) < GlobKey(s[j]) BY <1>8, <1>9, <2>1, <2>2, <2>4 DEF InOrder
    <3>q. QED BY <2>2, <3>1, <3>2
  <2>q. QED BY <2>3, <2>4
<1>q. QED BY <1>4, <1>10, <1>11

\* What `cat` is given is all of the files, each once, in the order of the names.
LEMMA GlobbedIs ==
  ASSUME NEW S \in SUBSET Rounds
  PROVE  /\ Globbed(S) \in Seq(S) /\ Len(Globbed(S)) = Cardinality(S)
         /\ \A k \in S : \E i \in 1..Len(Globbed(S)) : Globbed(S)[i] = k
         /\ Count <= 9 => \A i, j \in 1..Len(Globbed(S)) : i < j => Globbed(S)[i] < Globbed(S)[j]
<1> DEFINE c == Cardinality(S)
           s == Globbed(S)
<1>0. IsFiniteSet(S) /\ c \in Nat BY RoundsFinite
<1>1. s \in [1..c -> S] /\ InOrder(S, s)
  <2>1. s = CHOOSE z \in [1..c -> S] : InOrder(S, z) BY DEF Globbed, InOrder
  <2>2. \E z \in [1..c -> S] : InOrder(S, z) BY OrderExists
  <2> HIDE DEF s
  <2>q. QED BY <2>1, <2>2
<1> HIDE DEF s
<1>2. s \in Seq(S) /\ Len(s) = c
  <2>1. s \in Seq(S) BY <1>0, <1>1, SeqDef
  <2>2. Len(s) \in Nat /\ DOMAIN s = 1..Len(s) BY <2>1, LenProperties
  <2>3. 1..c = 1..Len(s) BY <1>1, <2>2
  <2>4. Len(s) \in Nat /\ c \in Nat BY <1>0, <2>2
  <2> HIDE DEF c
  <2>5. Len(s) = c
    <3> DEFINE l == Len(s)
    <3> HIDE DEF l
    <3>1. l \in Nat /\ c \in Nat /\ 1..c = 1..l BY <2>3, <2>4 DEF l
    <3>2. (c = 0 \/ c \in 1..l) /\ (l = 0 \/ l \in 1..c) BY <3>1
    <3>3. c <= l /\ l <= c BY <3>1, <3>2
    <3>q. QED BY <3>1, <3>3 DEF l
  <2>q. QED BY <2>1, <2>5
<1>3. \A i, j \in 1..c : i < j => GlobKey(s[i]) < GlobKey(s[j]) BY <1>1 DEF InOrder
<1>4. \A i \in 1..c : s[i] \in Rounds /\ GlobKey(s[i]) \in 1..200
  BY <1>1, GlobKeyIs
<1>5. s \in Injection(1..c, S)
  <2>1. ASSUME NEW i \in 1..c, NEW j \in 1..c, s[i] = s[j] PROVE i = j
    <3>1. ~(i < j) /\ ~(j < i) BY <1>3, <1>4, <2>1
    <3>q. QED BY <1>0, <3>1
  <2>q. QED BY <1>1, <2>1 DEF Injection, IsInjective
<1>6. s \in Surjection(1..c, S)
  <2>1. IsFiniteSet(1..c) /\ Cardinality(1..c) = c BY <1>0, FS_Interval
  <2>q. QED BY <1>0, <1>5, <2>1, FS_Injection
<1>7. \A k \in S : \E i \in 1..c : s[i] = k BY <1>6 DEF Surjection
<1>8. Count <= 9 => \A i, j \in 1..c : i < j => s[i] < s[j]
  BY <1>3, <1>4, GlobKeyIs
<1>q. QED BY <1>2, <1>7, <1>8 DEF s

-----------------------------------------------------------------------------
(***************************************************************************)
(* What `cat` writes.                                                      *)
(***************************************************************************)
EntryOf(kd, F) == [kind : {kd}, n : Rounds, file : F]

\* Entries of one kind, of every file there is, in the order of the names.
OneKind(cat, kd, files, F) ==
  /\ cat \in Seq(EntryOf(kd, F))
  /\ \A i \in 1..Len(cat) : /\ cat[i].kind = kd /\ cat[i].n \in Rounds
                            /\ cat[i].file = files[cat[i].n] /\ cat[i].file # Absent
  /\ \A k \in Rounds : files[k] # Absent =>
       \E i \in 1..Len(cat) : cat[i] = [kind |-> kd, n |-> k, file |-> files[k]]
  /\ Count <= 9 => \A i, j \in 1..Len(cat) : i < j => cat[i].n < cat[j].n

LEMMA ConcatenatedIs ==
  ASSUME NEW F, NEW files \in [Rounds -> F \cup {Absent}], NEW kd
  PROVE  OneKind(Concatenated(kd, files), kd, files, F)
<1> DEFINE cat == Concatenated(kd, files)
           S == Existing(files)
           order == Globbed(S)
<1>0. S \in SUBSET Rounds /\ \A k \in S : files[k] \in F /\ files[k] # Absent BY DEF Existing
<1>1. /\ order \in Seq(S)
      /\ \A k \in S : \E i \in 1..Len(order) : order[i] = k
      /\ Count <= 9 => \A i, j \in 1..Len(order) : i < j => order[i] < order[j]
  <2> HIDE DEF S
  <2>q. QED BY <1>0, GlobbedIs
<1>2. cat = [k \in 1..Len(order) |-> [kind |-> kd, n |-> order[k], file |-> files[order[k]]]]
  BY DEF Concatenated
<1>3. \A k \in Rounds : files[k] # Absent => k \in S BY DEF Existing
<1> HIDE DEF cat, S, order
<1>4. Len(order) \in Nat /\ \A k \in 1..Len(order) : order[k] \in S
  BY <1>1, LenProperties, ElementOfSeq
<1> DEFINE l == Len(order)
<1> HIDE DEF l
<1>5. l \in Nat /\ cat = [k \in 1..l |-> [kind |-> kd, n |-> order[k], file |-> files[order[k]]]]
  BY <1>2, <1>4 DEF l
<1>6. \A k \in 1..l : order[k] \in S BY <1>4 DEF l
<1> DEFINE E == [kind : {kd}, n : Rounds, file : F]
<1>7. cat \in [1..l -> E] BY <1>0, <1>5, <1>6
<1> HIDE DEF E
<1>8. cat \in Seq(E) /\ Len(cat) = l BY <1>5, <1>7
<1>9. \A i \in 1..l : cat[i] = [kind |-> kd, n |-> order[i], file |-> files[order[i]]] BY <1>5
<1>10. \A i \in 1..l : /\ cat[i].kind = kd /\ cat[i].n = order[i] /\ order[i] \in Rounds
                       /\ cat[i].file = files[order[i]] /\ cat[i].file # Absent
  <2>1. SUFFICES ASSUME NEW i \in 1..l
                 PROVE  /\ cat[i].kind = kd /\ cat[i].n = order[i] /\ order[i] \in Rounds
                        /\ cat[i].file = files[order[i]] /\ cat[i].file # Absent
    OBVIOUS
  <2>2. order[i] \in Rounds /\ files[order[i]] # Absent BY <1>0, <1>6
  <2>3. cat[i] = [kind |-> kd, n |-> order[i], file |-> files[order[i]]] BY <1>9
  <2>4. cat[i].kind = kd /\ cat[i].n = order[i] /\ cat[i].file = files[order[i]] BY <2>3
  <2>q. QED BY <2>2, <2>4
<1>11. \A k \in Rounds : files[k] # Absent =>
         \E i \in 1..l : cat[i] = [kind |-> kd, n |-> k, file |-> files[k]]
  <2>1. SUFFICES ASSUME NEW k \in Rounds, files[k] # Absent
                 PROVE  \E i \in 1..l : cat[i] = [kind |-> kd, n |-> k, file |-> files[k]]
    OBVIOUS
  <2>2. PICK i \in 1..l : order[i] = k BY <1>1, <1>3, <2>1 DEF l
  <2>q. QED BY <1>9, <2>2
<1>12. Count <= 9 => \A i, j \in 1..l : i < j => cat[i].n < cat[j].n
  BY <1>1, <1>10 DEF l
<1>q. QED BY <1>8, <1>10, <1>11, <1>12 DEF E, EntryOf, OneKind, cat

LEMMA DumpsAre ==
  ASSUME FilesInv
  PROVE  OneKind(Concatenated("dump", javacore), "dump", javacore, Dump)
<1>1. javacore \in [Rounds -> Dump \cup {Absent}] BY DEF FilesInv
<1>q. QED BY <1>1, ConcatenatedIs

LEMMA TopsAre ==
  ASSUME FilesInv
  PROVE  OneKind(Concatenated("top", topdashH), "top", topdashH, TopH)
<1>1. topdashH \in [Rounds -> TopH \cup {Absent}] BY DEF FilesInv
<1>q. QED BY <1>1, ConcatenatedIs

\* Entries of one kind are entries.
LEMMA EntriesAre ==
  /\ \A s, files : OneKind(s, "dump", files, Dump) => s \in Seq(Entry)
  /\ \A s, files : OneKind(s, "top", files, TopH) => s \in Seq(Entry)
<1>1. EntryOf("dump", Dump) \subseteq Entry /\ EntryOf("top", TopH) \subseteq Entry
  BY DEF EntryOf, Entry
<1>q. QED BY <1>1, SeqMonotonic DEF OneKind

\* Both, one behind the other.
LEMMA BothAre ==
  ASSUME NEW s \in Seq(Entry), NEW t \in Seq(Entry), NEW both, both = s \o t
  PROVE  /\ both \in Seq(Entry) /\ Len(both) = Len(s) + Len(t)
         /\ Len(s) \in Nat /\ Len(t) \in Nat
         /\ \A i \in 1..Len(s) : i \in 1..Len(both) /\ both[i] = s[i]
         /\ \A i \in 1..Len(t) : Len(s) + i \in 1..Len(both) /\ both[Len(s) + i] = t[i]
         /\ \A i \in 1..Len(both) : IF i <= Len(s) THEN i \in 1..Len(s) /\ both[i] = s[i]
                                    ELSE i - Len(s) \in 1..Len(t) /\ both[i] = t[i - Len(s)]
<1> DEFINE a == Len(s)
           b == Len(t)
<1>1. both \in Seq(Entry) /\ Len(both) = a + b
      /\ \A i \in 1..(a + b) : both[i] = IF i <= a THEN s[i] ELSE t[i - a]
  BY ConcatProperties
<1>2. a \in Nat /\ b \in Nat BY LenProperties
<1> HIDE DEF a, b
<1>3. \A i \in 1..a : i \in 1..(a + b) /\ i <= a BY <1>2
<1>4. \A i \in 1..b : a + i \in 1..(a + b) /\ ~(a + i <= a) /\ a + i - a = i BY <1>2
<1>5. \A i \in 1..(a + b) : IF i <= a THEN i \in 1..a ELSE i - a \in 1..b BY <1>2
<1>6. \A i \in 1..a : both[i] = s[i] BY <1>1, <1>3
<1>7. ASSUME NEW i \in 1..b PROVE both[a + i] = t[i]
  <2> DEFINE j == a + i
  <2>1. j \in 1..(a + b) /\ ~(j <= a) /\ j - a = i BY <1>2
  <2> HIDE DEF j
  <2>2. both[j] = t[j - a] BY <1>1, <2>1
  <2>q. QED BY <2>1, <2>2 DEF j
<1>8. \A i \in 1..(a + b) : IF i <= a THEN i \in 1..a /\ both[i] = s[i]
                            ELSE i - a \in 1..b /\ both[i] = t[i - a]
  BY <1>1, <1>5
<1>q. QED BY <1>1, <1>2, <1>3, <1>4, <1>6, <1>7, <1>8 DEF a, b

-----------------------------------------------------------------------------
(***************************************************************************)
(* The steps.                                                              *)
(***************************************************************************)
\* A queue of one element.
LEMMA QueueOfOne ==
  /\ \A x : Append(<<>>, x) = <<x>> /\ Head(<<x>>) = x /\ Tail(<<x>>) = <<>> /\ <<x>> # <<>>
  /\ \A x, y : <<x>> = <<y>> => x = y
  /\ \A x \in 1..Closed : \A s \in Queue : Append(s, x) \in Queue
  /\ <<>> \in Queue
<1>1. \A x : Append(<<>>, x) = <<x>> /\ Head(<<x>>) = x /\ Tail(<<x>>) = <<>> /\ <<x>> # <<>>
  OBVIOUS
<1>2. \A x, y : <<x>> = <<y>> => x = y OBVIOUS
<1>3. \A x \in 1..Closed : \A s \in Queue : Append(s, x) \in Queue BY DEF Queue
<1>4. <<>> \in Queue BY DEF Queue
<1>q. QED BY <1>1, <1>2, <1>3, <1>4

LEMMA WholeInit == Init => IInv
<1> SUFFICES ASSUME Init PROVE IInv OBVIOUS
<1>0. Count \in 1..99 /\ Pids \in Nat /\ 1 \in Rounds BY ThreadDumpAssumption DEF Rounds
<1>1. FilesInv BY DEF Init, FilesInv
<1>2. LoopInv BY <1>0 DEF Init, LoopInv
<1>3. DumperInv BY <1>0, QueueOfOne DEF Init, DumperInv, Closed
<1>4. TopperInv BY <1>0 DEF Init, TopperInv, Over, Closed
<1>5. ResultInv BY DEF Init, ResultInv, TopHComplete
<1>q. QED BY <1>1, <1>2, <1>3, <1>4, <1>5 DEF IInv

LEMMA LoopStep ==
  ASSUME IInv, [Next]_vars
  PROVE  LoopInv'
<1>0. LoopInv /\ Count \in 1..99 /\ Pids \in Nat BY ThreadDumpAssumption DEF IInv
<1> USE DEF Goto, NextPid, LoopInv, Rounds
<1>1. CASE Start BY <1>0, <1>1 DEF Start
<1>2. CASE Send BY <1>0, <1>2 DEF Send
<1>3. CASE Collect BY <1>0, <1>3 DEF Collect
<1>4. CASE Sleep BY <1>0, <1>4 DEF Sleep
<1>5. CASE CatJavacore BY <1>0, <1>5 DEF CatJavacore
<1>6. CASE CatTopH BY <1>0, <1>6 DEF CatTopH
<1>7. CASE Post BY <1>0, <1>7 DEF Post
<1>8. CASE Dumper \/ Topper
  <2>1. UNCHANGED <<pid, td, n>>
    BY <1>8 DEF Dumper, Topper, DumperRecv, Attempt, TopperRecv, CreateTop, EndTop
  <2>q. QED BY <1>0, <2>1
<1>9. CASE UNCHANGED vars BY <1>0, <1>9 DEF vars
<1>q. QED BY <1>1, <1>2, <1>3, <1>4, <1>5, <1>6, <1>7, <1>8, <1>9 DEF Next, Loop

LEMMA DumperStep ==
  ASSUME IInv, [Next]_vars
  PROVE  DumperInv'
<1>0. LoopInv /\ DumperInv /\ LoopInv' BY LoopStep DEF IInv
<1>1. /\ Count \in 1..99 /\ n \in 1..Count /\ Closed = Count + 1 /\ Closed \in 1..Closed
      /\ n \in 1..Closed /\ n # Closed /\ 0 \in 0..Closed
  BY <1>0, ThreadDumpAssumption DEF LoopInv, Rounds, Closed
<1>2. Closed' = Closed /\ Queue' = Queue BY DEF Closed, Queue
<1>3. /\ Append(<<>>, Closed) = <<Closed>> /\ Head(<<Closed>>) = Closed /\ Tail(<<Closed>>) = <<>>
      /\ Append(<<>>, n) = <<n>> /\ Head(<<n>>) = n /\ Tail(<<n>>) = <<>>
      /\ <<n>> # <<>> /\ <<Closed>> # <<>> /\ <<>> \in Queue
      /\ \A q \in Queue : Append(q, n) \in Queue /\ Append(q, Closed) \in Queue
  BY <1>1, QueueOfOne
<1> USE DEF Goto, NextPid, Between, Over
<1>a. CASE Start
  BY <1>0, <1>1, <1>2, <1>a, <1>3 DEF Start, DumperInv, queues, dumperVars
<1>b. CASE Send
  <2>1. /\ td = "send" /\ td' = "wait" /\ b1' = Append(b1, n)
        /\ UNCHANGED <<n, e1, dumper, dn, attempt>>
    BY <1>b DEF Send, dumperVars
  <2>q. QED BY <1>0, <1>1, <1>2, <2>1, <1>3 DEF DumperInv
<1>c. CASE Collect
  <2>1. /\ td = "wait" /\ UNCHANGED <<n, dumper, dn, attempt>>
        /\ e1 > 0 \/ dumper = "end"
        /\ e1' = IF e1 > 0 THEN e1 - 1 ELSE 0
        /\ \/ td' = "sleep" /\ b1' = b1
           \/ td' = "catJavacore" /\ b1' = Append(b1, Closed)
    BY <1>c DEF Collect, dumperVars
  <2>2. e1' \in Nat BY <1>0, <2>1 DEF DumperInv
  <2>3. b1' \in Queue BY <1>0, <1>1, <2>1, <1>3 DEF DumperInv
  <2>4. dumper # "attempt" BY <1>0, <2>1 DEF DumperInv
  <2>5. dumper = "recv" => b1 = <<>> /\ e1 = 1 BY <1>0, <2>1 DEF DumperInv
  <2>6. dumper = "recv" => /\ e1' = 0
                           /\ \/ td' = "sleep" /\ b1' = <<>>
                              \/ td' = "catJavacore" /\ b1' = <<Closed>>
    BY <1>3, <2>1, <2>5
  <2>q. QED BY <1>0, <1>2, <2>1, <2>2, <2>3, <2>4, <2>6 DEF DumperInv
<1>d. CASE Sleep
  BY <1>0, <1>1, <1>2, <1>d DEF Sleep, DumperInv, queues, dumperVars
<1>e. CASE CatJavacore \/ CatTopH \/ Post
  <2>1. /\ td \in {"catJavacore", "catTopH", "post"} /\ td' \in {"catTopH", "post", "start"}
        /\ UNCHANGED <<n, b1, e1, dumper, dn, attempt>>
    BY <1>e DEF CatJavacore, CatTopH, Post, queues, dumperVars
  <2>q. QED BY <1>0, <1>2, <2>1 DEF DumperInv
<1>f. CASE DumperRecv
  <2>1. /\ dumper = "recv" /\ b1 # <<>> /\ b1' = Tail(b1) /\ UNCHANGED <<td, n, e1>>
        /\ dumper' = IF Head(b1) = Closed THEN "end" ELSE "attempt"
        /\ dn' = Head(b1) /\ attempt' = 1
    BY <1>f DEF DumperRecv
  <2>2. \/ td = "wait" /\ b1 = <<n>> /\ e1 = 0
        \/ td \in {"start", "catJavacore", "catTopH", "post"} /\ b1 = <<Closed>>
    BY <1>0, <2>1 DEF DumperInv
  <2>3. b1' = <<>> /\ e1 \in Nat BY <1>0, <2>1, <2>2, <1>3 DEF DumperInv
  <2>4. \/ td = "wait" /\ dn' = n /\ e1 = 0 /\ dumper' = "attempt"
        \/ dn' = Closed /\ dumper' = "end"
    BY <1>1, <2>1, <2>2, <1>3
  <2>5. dn' \in 0..Closed
    <3>1. dn' = n \/ dn' = Closed BY <2>4
    <3>q. QED BY <1>1, <3>1
  <2>6. attempt' \in 1..4 BY <2>1
  <2>7. e1' \in Nat /\ b1' \in Queue BY <1>3, <2>1, <2>3
  <2>q. QED BY <1>2, <2>1, <2>3, <2>4, <2>5, <2>6, <2>7 DEF DumperInv
<1>g. CASE Attempt
  <2>1. /\ dumper = "attempt" /\ UNCHANGED <<td, n, b1, dn>>
        /\ \/ dumper' = "recv" /\ e1' = e1 + 1 /\ attempt' = attempt
           \/ /\ Attempts[attempt] # "jstack -F" /\ attempt' = attempt + 1
              /\ dumper' = dumper /\ e1' = e1
           \/ dumper' = "end" /\ e1' = e1 + 1 /\ attempt' = attempt
    BY <1>g DEF Attempt
  <2>2. td = "wait" /\ b1 = <<>> /\ dn = n /\ e1 = 0 /\ attempt \in 1..4 BY <1>0, <2>1 DEF DumperInv
  <2>3. attempt' \in 1..4
    <3>1. Attempts[4] = "jstack -F" BY DEF Attempts
    <3>2. attempt' = attempt \/ (attempt' = attempt + 1 /\ attempt # 4) BY <2>1, <3>1
    <3>q. QED BY <2>2, <3>2
  <2>4. dn' \in 0..Closed
    <3>1. dn' = n BY <2>1, <2>2
    <3>q. QED BY <1>1, <3>1
  <2>5. b1' \in Queue BY <1>3, <2>1, <2>2
  <2>6. e1' \in Nat /\ (dumper' = "recv" => e1' = 1)
    <3>1. e1 = 0 /\ (e1' = e1 + 1 \/ (e1' = e1 /\ dumper' = "attempt")) BY <2>1, <2>2
    <3>q. QED BY <3>1
  <2>q. QED BY <1>2, <2>1, <2>2, <2>3, <2>4, <2>5, <2>6 DEF DumperInv
<1>h. CASE Topper \/ UNCHANGED vars
  <2>1. UNCHANGED <<td, n, b1, e1, dumper, dn, attempt>>
    BY <1>h DEF Topper, TopperRecv, CreateTop, EndTop, vars, queues, dumperVars
  <2>q. QED BY <1>0, <1>2, <2>1 DEF DumperInv
<1>q. QED BY <1>a, <1>b, <1>c, <1>d, <1>e, <1>f, <1>g, <1>h DEF Next, Loop, Dumper

LEMMA TopperStep ==
  ASSUME IInv, [Next]_vars
  PROVE  TopperInv'
<1>0. LoopInv /\ TopperInv BY DEF IInv
<1>1. /\ Count \in 1..99 /\ n \in 1..Count /\ Closed = Count + 1 /\ Closed \in 0..Closed
      /\ n \in 0..Closed /\ n # Closed /\ 0 \in 0..Closed
  BY <1>0, ThreadDumpAssumption DEF LoopInv, Rounds, Closed
<1>2. Closed' = Closed BY DEF Closed
<1> USE DEF Goto, NextPid, Between, Over
<1>a. CASE Start
  BY <1>0, <1>1, <1>2, <1>a, QueueOfOne DEF Start, TopperInv, queues, topperVars
<1>b. CASE Send
  <2>1. /\ td = "send" /\ td' = "wait" /\ b2' = Append(b2, n) /\ UNCHANGED <<n, e2, topper, tn>>
    BY <1>b DEF Send, topperVars
  <2>q. QED BY <1>0, <1>1, <1>2, <2>1, QueueOfOne DEF TopperInv
<1>c. CASE Collect
  <2>1. /\ td = "wait" /\ UNCHANGED <<n, topper, tn>> /\ e2 > 0 /\ e2' = e2 - 1
        /\ \/ td' = "sleep" /\ b2' = b2
           \/ td' = "catJavacore" /\ b2' = Append(b2, Closed)
    BY <1>c DEF Collect, topperVars
  <2>2. topper = "recv" /\ b2 = <<>> /\ e2 = 1 BY <1>0, <2>1 DEF TopperInv
  <2>q. QED BY <1>0, <1>1, <1>2, <2>1, <2>2, QueueOfOne DEF TopperInv
<1>d. CASE Sleep
  BY <1>0, <1>1, <1>2, <1>d DEF Sleep, TopperInv, queues, topperVars
<1>e. CASE CatJavacore \/ CatTopH \/ Post
  <2>1. /\ td \in {"catJavacore", "catTopH", "post"} /\ td' \in {"catTopH", "post", "start"}
        /\ UNCHANGED <<n, b2, e2, topper, tn>>
    BY <1>e DEF CatJavacore, CatTopH, Post, queues, topperVars
  <2>q. QED BY <1>0, <1>2, <2>1 DEF TopperInv
<1>f. CASE TopperRecv
  <2>1. /\ topper = "recv" /\ b2 # <<>> /\ b2' = Tail(b2) /\ UNCHANGED <<td, n, e2>>
        /\ tn' = Head(b2) /\ topper' = IF Head(b2) = Closed THEN "end" ELSE "top"
    BY <1>f DEF TopperRecv
  <2>2. \/ td = "wait" /\ b2 = <<n>> /\ e2 = 0
        \/ td \in {"start", "catJavacore", "catTopH", "post"} /\ b2 = <<Closed>>
    BY <1>0, <2>1 DEF TopperInv
  <2>3. b2' = <<>> /\ e2 \in Nat BY <1>0, <2>1, <2>2, QueueOfOne DEF TopperInv
  <2>4. \/ td = "wait" /\ tn' = n /\ e2 = 0 /\ topper' = "top"
        \/ td # "wait" /\ tn' = Closed /\ topper' = "end"
    BY <1>1, <2>1, <2>2, QueueOfOne
  <2>q. QED BY <1>1, <1>2, <2>1, <2>2, <2>3, <2>4 DEF TopperInv
<1>g. CASE CreateTop
  BY <1>0, <1>1, <1>2, <1>g DEF CreateTop, TopperInv, queues
<1>h. CASE EndTop
  BY <1>0, <1>1, <1>2, <1>h DEF EndTop, TopperInv
<1>i. CASE Dumper \/ UNCHANGED vars
  <2>1. UNCHANGED <<td, n, b2, e2, topper, tn>>
    BY <1>i DEF Dumper, DumperRecv, Attempt, vars, queues, topperVars
  <2>q. QED BY <1>0, <1>2, <2>1 DEF TopperInv
<1>q. QED BY <1>a, <1>b, <1>c, <1>d, <1>e, <1>f, <1>g, <1>h, <1>i DEF Next, Loop, Topper

\* Only a round that is being done writes its files.
LEMMA FilesStep ==
  ASSUME IInv, [Next]_vars
  PROVE  /\ FilesInv'
         /\ td # "wait" => UNCHANGED <<javacore, topdashH>>
<1>0. FilesInv /\ LoopInv /\ DumperInv /\ TopperInv /\ Pids \in Nat
  BY ThreadDumpAssumption DEF IInv
<1>1. td = "wait" => pid \in 1..Pids BY <1>0 DEF LoopInv
<1>a. CASE Loop \/ DumperRecv \/ UNCHANGED vars
  <2>1. UNCHANGED <<javacore, topdashH>> /\ (UNCHANGED <<topper, tn>> \/ Start)
    BY <1>a DEF Loop, Start, Send, Collect, Sleep, CatJavacore, CatTopH, Post, DumperRecv, vars,
         dumperVars, topperVars
  <2>2. CASE UNCHANGED <<topper, tn>> BY <1>0, <2>1, <2>2 DEF FilesInv
  <2>3. CASE Start
    <3>1. topper # "copy" /\ topper' # "copy"
      <4>1. td \in {"start"} /\ (topper' = "recv" \/ topper' = topper)
        BY <2>3 DEF Start, Goto, NextPid, topperVars
      <4>q. QED BY <1>0, <4>1 DEF TopperInv, Between
    <3>q. QED BY <1>0, <2>1, <3>1 DEF FilesInv
  <2>q. QED BY <2>1, <2>2, <2>3
<1>b. CASE Attempt
  <2>1. dumper = "attempt" /\ UNCHANGED <<topper, tn, topdashH>> BY <1>b DEF Attempt, topperVars
  <2>2. td = "wait" /\ dn \in Rounds /\ pid \in 1..Pids BY <1>0, <1>1, <2>1 DEF DumperInv, LoopInv
  <2>3. \/ javacore' = javacore
        \/ \E dump \in BOOLEAN : javacore' = [javacore EXCEPT ![dn] = [pid |-> pid, dump |-> dump]]
    <3>1. FALSE \in BOOLEAN /\ (topper # "recv") \in BOOLEAN OBVIOUS
    <3>q. QED BY <1>b, <3>1 DEF Attempt
  <2>4. \A dump \in BOOLEAN : [pid |-> pid, dump |-> dump] \in Dump BY <2>2 DEF Dump
  <2>5. javacore' \in [Rounds -> Dump \cup {Absent}] BY <1>0, <2>3, <2>4 DEF FilesInv
  <2>6. (Dump \cup {Absent})' = Dump \cup {Absent} /\ Rounds' = Rounds BY DEF Dump, Rounds
  <2>q. QED BY <1>0, <2>1, <2>2, <2>5, <2>6 DEF FilesInv
<1>c. CASE TopperRecv
  <2>1. topper = "recv" /\ topper' \in {"top", "end"} /\ UNCHANGED <<javacore, topdashH>>
    BY <1>c DEF TopperRecv, dumperVars
  <2>q. QED BY <1>0, <2>1 DEF FilesInv
<1>d. CASE CreateTop
  <2>1. /\ topper = "top" /\ topper' = "copy" /\ tn' = tn /\ javacore' = javacore
        /\ topdashH' = [topdashH EXCEPT ![tn] = [pid |-> pid, complete |-> FALSE]]
    BY <1>d DEF CreateTop, dumperVars
  <2>2. td = "wait" /\ tn \in Rounds /\ pid \in 1..Pids
    BY <1>0, <1>1, <2>1 DEF TopperInv, LoopInv
  <2>3. [pid |-> pid, complete |-> FALSE] \in TopH BY <2>2 DEF TopH
  <2>4. topdashH' \in [Rounds -> TopH \cup {Absent}] BY <1>0, <2>1, <2>3 DEF FilesInv
  <2>5. topdashH'[tn] # Absent
    <3>1. pid \in Nat BY <2>2
    <3>2. [pid |-> pid, complete |-> FALSE] \in [pid : Nat, complete : BOOLEAN] BY <3>1
    <3>3. [pid |-> pid, complete |-> FALSE] # Absent BY <3>2, ThreadDumpAssumption
    <3>4. topdashH'[tn] = [pid |-> pid, complete |-> FALSE] BY <1>0, <2>1, <2>2 DEF FilesInv
    <3>q. QED BY <3>3, <3>4
  <2>6. \A k \in Rounds : k # tn => topdashH'[k] = topdashH[k] BY <1>0, <2>1 DEF FilesInv
  <2>q. QED BY <1>0, <2>1, <2>2, <2>4, <2>5, <2>6 DEF FilesInv
<1>e. CASE EndTop
  <2>1. /\ topper \in {"top", "copy"} /\ topper' = "recv" /\ tn' = tn /\ javacore' = javacore
        /\ topdashH' = IF topper = "copy" THEN [topdashH EXCEPT ![tn].complete = TRUE] ELSE topdashH
    BY <1>e DEF EndTop, dumperVars
  <2>2. td = "wait" /\ tn \in Rounds BY <1>0, <2>1 DEF TopperInv, LoopInv, Between, Over
  <2>3. CASE topper = "top" BY <1>0, <2>1, <2>2, <2>3 DEF FilesInv
  <2>4. CASE topper = "copy"
    <3>1. topdashH[tn] \in TopH BY <1>0, <2>2, <2>4 DEF FilesInv
    <3> DEFINE f == [topdashH[tn] EXCEPT !.complete = TRUE]
    <3>2. f \in TopH /\ f.complete BY <3>1 DEF TopH
    <3> HIDE DEF f
    <3>3. topdashH' = [topdashH EXCEPT ![tn] = f] BY <2>1, <2>4 DEF f
    <3>4. topdashH' \in [Rounds -> TopH \cup {Absent}] BY <1>0, <3>2, <3>3 DEF FilesInv
    <3>5. \A k \in Rounds : topdashH'[k] = IF k = tn THEN f ELSE topdashH[k]
      BY <1>0, <3>3 DEF FilesInv
    <3>6. \A k \in Rounds : topdashH'[k] # Absent => topdashH'[k].complete
      BY <1>0, <3>2, <3>5 DEF FilesInv
    <3>q. QED BY <1>0, <2>1, <2>2, <3>4, <3>6 DEF FilesInv
  <2>q. QED BY <2>1, <2>3, <2>4
<1>q. QED BY <1>a, <1>b, <1>c, <1>d, <1>e DEF Next, Dumper, Topper

LEMMA ResultStep ==
  ASSUME IInv, [Next]_vars
  PROVE  ResultInv'
<1>0. FilesInv /\ LoopInv /\ TopperInv /\ ResultInv BY DEF IInv
<1> DEFINE dumps == Concatenated("dump", javacore)
           tops == Concatenated("top", topdashH)
           Posting == [pid : 1..Pids, content : Seq(Entry)]
<1>1. OneKind(dumps, "dump", javacore, Dump) /\ dumps \in Seq(Entry)
  BY <1>0, DumpsAre, EntriesAre
<1>2. OneKind(tops, "top", topdashH, TopH) /\ tops \in Seq(Entry)
  BY <1>0, TopsAre, EntriesAre
<1>3. Entry' = Entry /\ Posting' = Posting BY DEF Entry, Dump, TopH, Rounds
<1>4. td \in {"catTopH", "post"} => topper # "copy" BY <1>0 DEF TopperInv, Between, Over
<1>5. UNCHANGED <<javacore, topdashH>> => dumps' = dumps /\ tops' = tops OBVIOUS
<1> HIDE DEF dumps, tops, Posting
<1>6. ResultInv <=> /\ threaddump \in Seq(Entry) /\ TopHComplete
                    /\ td = "catTopH" => threaddump = dumps
                    /\ td = "post" => threaddump = dumps \o tops
                    /\ posted \in Seq(Posting)
  BY DEF ResultInv, dumps, tops, Posting
<1>7. ResultInv' <=> /\ threaddump' \in Seq(Entry) /\ TopHComplete'
                     /\ td' = "catTopH" => threaddump' = dumps'
                     /\ td' = "post" => threaddump' = dumps' \o tops'
                     /\ posted' \in Seq(Posting)
  BY <1>3 DEF ResultInv, dumps, tops, Posting
<1>a. CASE CatJavacore
  <2>1. /\ td = "catJavacore" /\ threaddump' = dumps /\ td' \in {"start", "catTopH"}
        /\ posted' = posted
    BY <1>a DEF CatJavacore, Goto, NextPid, dumps
  <2>2. dumps' = dumps BY <1>5, <1>a DEF CatJavacore, dumperVars, topperVars
  <2>3. TopHComplete'
    <3>1. \A k \in 1..Len(dumps) : dumps[k].kind = "dump" BY <1>1 DEF OneKind
    <3>q. QED BY <2>1, <3>1 DEF TopHComplete
  <2>q. QED BY <1>0, <1>1, <1>6, <1>7, <2>1, <2>2, <2>3
<1>b. CASE CatTopH
  <2>1. /\ td = "catTopH" /\ threaddump' = threaddump \o tops /\ td' \in {"start", "post"}
        /\ posted' = posted
    BY <1>b DEF CatTopH, Goto, NextPid, tops
  <2>2. dumps' = dumps /\ tops' = tops BY <1>5, <1>b DEF CatTopH, dumperVars, topperVars
  <2>3. threaddump = dumps BY <1>0, <1>6, <2>1
  <2>4. /\ threaddump' \in Seq(Entry)
        /\ \A i \in 1..Len(threaddump') :
             IF i <= Len(dumps) THEN i \in 1..Len(dumps) /\ threaddump'[i] = dumps[i]
             ELSE i - Len(dumps) \in 1..Len(tops) /\ threaddump'[i] = tops[i - Len(dumps)]
    BY <1>1, <1>2, <2>1, <2>3, BothAre
  <2>5. TopHComplete'
    <3>1. \A k \in 1..Len(dumps) : dumps[k].kind = "dump" BY <1>1 DEF OneKind
    <3>2. \A k \in Rounds : topdashH[k] # Absent => topdashH[k].complete
      BY <1>0, <1>4, <2>1 DEF FilesInv
    <3>3. \A k \in 1..Len(tops) : tops[k].file.complete BY <1>2, <3>2 DEF OneKind
    <3>4. ASSUME NEW k \in 1..Len(threaddump'), threaddump'[k].kind = "top"
          PROVE  threaddump'[k].file.complete
      <4>1. CASE k <= Len(dumps) BY <2>4, <3>1, <3>4, <4>1
      <4>2. CASE ~(k <= Len(dumps)) BY <2>4, <3>3, <4>2
      <4>q. QED BY <4>1, <4>2
    <3>q. QED BY <3>4 DEF TopHComplete
  <2>q. QED BY <1>0, <1>6, <1>7, <2>1, <2>2, <2>3, <2>4, <2>5
<1>c. CASE Post
  <2>1. /\ td = "post" /\ td' = "start" /\ threaddump' = threaddump
        /\ posted' = Append(posted, [pid |-> pid, content |-> threaddump])
    BY <1>c DEF Post, Goto, NextPid
  <2>2. [pid |-> pid, content |-> threaddump] \in Posting
    BY <1>0, <1>6, <2>1 DEF LoopInv, Posting
  <2>3. posted' \in Seq(Posting) BY <1>0, <1>6, <2>1, <2>2, AppendProperties
  <2>4. TopHComplete' BY <1>0, <2>1 DEF ResultInv, TopHComplete
  <2>q. QED BY <1>0, <1>6, <1>7, <2>1, <2>3, <2>4
<1>d. CASE Start \/ Send \/ Collect \/ Sleep
  <2>1. td' \notin {"catTopH", "post"} /\ threaddump' = threaddump /\ posted' = posted
    BY <1>d DEF Start, Send, Collect, Sleep, Goto, NextPid, result
  <2>2. TopHComplete' BY <1>0, <2>1 DEF ResultInv, TopHComplete
  <2>q. QED BY <1>0, <1>6, <1>7, <2>1, <2>2
<1>e. CASE Dumper \/ Topper \/ UNCHANGED vars
  <2>1. UNCHANGED <<td, threaddump, posted>>
    BY <1>e DEF Dumper, Topper, DumperRecv, Attempt, TopperRecv, CreateTop, EndTop, vars, result
  <2>2. td # "wait" => dumps' = dumps /\ tops' = tops BY <1>5, FilesStep
  <2>3. TopHComplete' BY <1>0, <2>1 DEF ResultInv, TopHComplete
  <2>q. QED BY <1>0, <1>6, <1>7, <2>1, <2>2, <2>3
<1>q. QED BY <1>a, <1>b, <1>c, <1>d, <1>e DEF Next, Loop

LEMMA WholeStep == IInv /\ [Next]_vars => IInv'
BY LoopStep, DumperStep, TopperStep, FilesStep, ResultStep DEF IInv

\* What is between two cats and the post: every file of a round is among the
\* entries, the dumps first, and up to 9 rounds both in the order of their numbers.
LEMMA WholeWhenPosted == IInv => HoldsEveryRound
<1> SUFFICES ASSUME IInv, td = "post" PROVE HoldsEveryRound BY DEF HoldsEveryRound
<1>0. FilesInv /\ ResultInv BY DEF IInv
<1> DEFINE dumps == Concatenated("dump", javacore)
           tops == Concatenated("top", topdashH)
<1>1. OneKind(dumps, "dump", javacore, Dump) /\ dumps \in Seq(Entry)
  BY <1>0, DumpsAre, EntriesAre
<1>2. OneKind(tops, "top", topdashH, TopH) /\ tops \in Seq(Entry)
  BY <1>0, TopsAre, EntriesAre
<1>3. threaddump = dumps \o tops BY <1>0 DEF ResultInv
<1> HIDE DEF dumps, tops
<1>4. /\ threaddump \in Seq(Entry) /\ Len(dumps) \in Nat /\ Len(tops) \in Nat
      /\ \A i \in 1..Len(dumps) : i \in 1..Len(threaddump) /\ threaddump[i] = dumps[i]
      /\ \A i \in 1..Len(tops) : /\ Len(dumps) + i \in 1..Len(threaddump)
                                 /\ threaddump[Len(dumps) + i] = tops[i]
      /\ \A i \in 1..Len(threaddump) :
           IF i <= Len(dumps) THEN i \in 1..Len(dumps) /\ threaddump[i] = dumps[i]
           ELSE i - Len(dumps) \in 1..Len(tops) /\ threaddump[i] = tops[i - Len(dumps)]
  BY <1>1, <1>2, <1>3, BothAre
<1>5. \A i \in 1..Len(threaddump) : threaddump[i] \in Range(threaddump)
  BY <1>4, LenProperties DEF Range
<1>6. ASSUME NEW k \in Rounds, javacore[k] # Absent
      PROVE  [kind |-> "dump", n |-> k, file |-> javacore[k]] \in Range(threaddump)
  <2>1. PICK i \in 1..Len(dumps) : dumps[i] = [kind |-> "dump", n |-> k, file |-> javacore[k]]
    BY <1>1, <1>6 DEF OneKind
  <2>2. i \in 1..Len(threaddump) /\ threaddump[i] = dumps[i] BY <1>4
  <2>q. QED BY <1>5, <2>1, <2>2
<1>7. ASSUME NEW k \in Rounds, topdashH[k] # Absent
      PROVE  [kind |-> "top", n |-> k, file |-> topdashH[k]] \in Range(threaddump)
  <2>1. PICK i \in 1..Len(tops) : tops[i] = [kind |-> "top", n |-> k, file |-> topdashH[k]]
    BY <1>2, <1>7 DEF OneKind
  <2>2. Len(dumps) + i \in 1..Len(threaddump) /\ threaddump[Len(dumps) + i] = tops[i] BY <1>4
  <2>q. QED BY <1>5, <2>1, <2>2
<1>8. ASSUME Count <= 9, NEW j \in 1..Len(threaddump), NEW k \in 1..Len(threaddump), j < k
      PROVE  \/ threaddump[j].kind = "dump" /\ threaddump[k].kind = "top"
             \/ /\ threaddump[j].kind = threaddump[k].kind
                /\ threaddump[j].n < threaddump[k].n
  <2> DEFINE l == Len(dumps)
  <2>0. l \in Nat /\ j \in Int /\ k \in Int BY <1>4
  <2>1. \A i \in 1..l : dumps[i].kind = "dump" BY <1>1 DEF OneKind
  <2>2. \A i \in 1..Len(tops) : tops[i].kind = "top" BY <1>2 DEF OneKind
  <2>3. CASE k <= l
    <3>1. j <= l BY <1>8, <2>0, <2>3
    <3>2. /\ j \in 1..l /\ threaddump[j] = dumps[j]
          /\ k \in 1..l /\ threaddump[k] = dumps[k]
      BY <1>4, <2>3, <3>1
    <3>3. dumps[j].n < dumps[k].n BY <1>1, <1>8, <3>2 DEF OneKind
    <3>q. QED BY <2>1, <3>2, <3>3
  <2>4. CASE ~(k <= l) /\ j <= l
    <3>1. /\ j \in 1..l /\ threaddump[j] = dumps[j]
          /\ k - l \in 1..Len(tops) /\ threaddump[k] = tops[k - l]
      BY <1>4, <2>4
    <3>q. QED BY <2>1, <2>2, <3>1
  <2>5. CASE ~(k <= l) /\ ~(j <= l)
    <3>1. /\ j - l \in 1..Len(tops) /\ threaddump[j] = tops[j - l]
          /\ k - l \in 1..Len(tops) /\ threaddump[k] = tops[k - l]
      BY <1>4, <2>5
    <3>2. j - l < k - l
      <4> HIDE DEF l
      <4>q. QED BY <1>8, <2>0
    <3>3. tops[j - l].n < tops[k - l].n BY <1>2, <1>8, <3>1, <3>2 DEF OneKind
    <3>q. QED BY <2>2, <3>1, <3>3
  <2>q. QED BY <2>3, <2>4, <2>5
<1>q. QED BY <1>6, <1>7, <1>8 DEF HoldsEveryRound

\* However the attempts, the commands and the two goroutines go, what is posted for
\* a process holds every file its rounds left in the directory, dumps before the
\* output of top, in order up to 9 rounds, and none that is still being written.
THEOREM PostsTheWhole == Spec => []ThreadDumpWhole
<1>1. IInv => ThreadDumpWhole
  <2> SUFFICES ASSUME IInv PROVE TypeOK /\ HoldsEveryRound /\ TopHComplete BY DEF ThreadDumpWhole
  <2>1. FilesInv /\ LoopInv /\ DumperInv /\ TopperInv /\ ResultInv BY DEF IInv
  <2>2. b2 \in Seq(1..Closed)
    <3>1. n \in 1..Closed /\ Closed \in 1..Closed
      BY <2>1, ThreadDumpAssumption DEF LoopInv, Rounds, Closed
    <3>2. <<n>> \in Seq(1..Closed) /\ <<Closed>> \in Seq(1..Closed) /\ <<>> \in Seq(1..Closed)
      BY <3>1
    <3>q. QED BY <2>1, <3>2 DEF TopperInv
  <2>3. topper \in {"recv", "top", "copy", "end"} BY <2>1 DEF TopperInv
  <2>4. attempt \in 1..Len(Attempts) BY <2>1 DEF DumperInv, Attempts
  <2>5. TypeOK
    BY <2>1, <2>2, <2>3, <2>4 DEF TypeOK, FilesInv, LoopInv, DumperInv, TopperInv, ResultInv, Queue
  <2>q. QED BY <2>1, <2>5, WholeWhenPosted DEF ResultInv
<1>q. QED BY <1>1, WholeInit, WholeStep, PTL DEF Spec

-----------------------------------------------------------------------------
(***************************************************************************)
(* No deadlock, and no end of steps to come.  The loop waits for a result  *)
(* only while a goroutine is at work on it, also after the first goroutine *)
(* has given up; and each step leaves less to do, so that the last process *)
(* is come to and both goroutines end.                                     *)
(***************************************************************************)
Ready ==
  \/ td = "start" /\ pid <= Pids
  \/ td = "wait" /\ (e1 > 0 \/ dumper = "end") /\ e2 > 0
  \/ td \notin {"start", "wait"}
  \/ dumper = "recv" /\ b1 # <<>>
  \/ dumper = "attempt"
  \/ topper = "recv" /\ b2 # <<>>
  \/ topper \in {"top", "copy"}

Ended == pid > Pids /\ dumper = "end" /\ topper = "end"
NoneStuck == Ended \/ Ready

\* What is left to do: processes, the start of the present one, its rounds, the
\* loop's steps in this round and those of the two goroutines.
Stage == CASE td = "send" -> 6 [] td = "wait" -> 5 [] td = "sleep" -> 4 [] td = "catJavacore" -> 3
           [] td = "catTopH" -> 2 [] td = "post" -> 1 [] td = "start" -> 0
DumperWork == CASE dumper = "attempt" -> 9 - attempt
                [] dumper = "recv" -> IF b1 # <<>> THEN 10 ELSE 1
                [] dumper = "end" -> 0
TopperWork == CASE topper = "copy" -> 3 [] topper = "top" -> 4
                [] topper = "recv" -> IF b2 # <<>> THEN 5 ELSE 1
                [] topper = "end" -> 0
Starting == IF td = "start" THEN 1 ELSE 0
ToDo == <<Pids + 1 - pid, Starting, Count - n, Stage, DumperWork + TopperWork>>

\* The lexicographic order, in which nothing decreases for ever.
Below(a, b) == \E i \in 1..5 : a[i] < b[i] /\ \A j \in 1..(i - 1) : a[j] = b[j]
LessToDo == [][Below(ToDo', ToDo)]_vars

\* The result of a round comes from a goroutine that is at work on it or has ended.
LEMMA SomeReady == IInv => NoneStuck
<1> SUFFICES ASSUME IInv, ~Ready PROVE Ended BY DEF NoneStuck
<1>0. LoopInv /\ DumperInv /\ TopperInv /\ Pids \in Nat BY ThreadDumpAssumption DEF IInv
<1>1. <<n>> # <<>> /\ <<Closed>> # <<>> OBVIOUS
<1>2. dumper \in {"recv", "end"} /\ topper \in {"recv", "end"}
  BY <1>0 DEF Ready, DumperInv, TopperInv
<1>3. td = "start"
  <2>1. SUFFICES ASSUME td = "wait" PROVE FALSE BY <1>0 DEF Ready, LoopInv
  <2>2. topper = "recv" /\ b2 = <<>> /\ e2 = 1
    BY <1>0, <1>1, <2>1 DEF Ready, TopperInv, Between, Over
  <2>3. dumper = "end" \/ e1 = 1
    BY <1>0, <1>1, <1>2, <2>1 DEF Ready, DumperInv, Between, Over
  <2>q. QED BY <2>1, <2>2, <2>3 DEF Ready
<1>4. pid > Pids BY <1>0, <1>3 DEF Ready, LoopInv
<1>5. dumper = "end" BY <1>0, <1>1, <1>2, <1>3 DEF Ready, DumperInv, Between
<1>6. topper = "end" BY <1>0, <1>1, <1>2, <1>3 DEF Ready, TopperInv, Between
<1>q. QED BY <1>4, <1>5, <1>6 DEF Ended

\* Whichever attempts and commands fail, something can go on until the last process
\* is done and both goroutines have ended: the loop never waits for a result
\* nobody sends, nor a goroutine for a round that does not come.
THEOREM NeverStuck == Spec => []NoneStuck
BY SomeReady, WholeInit, WholeStep, PTL DEF Spec

\* ToDo in five numbers.
LEMMA ToDoIs ==
  IInv => /\ Pids + 1 - pid \in Nat /\ Count - n \in Nat /\ Stage \in 0..6
          /\ DumperWork \in 0..10 /\ TopperWork \in 0..5 /\ DumperWork + TopperWork \in Nat
<1> SUFFICES ASSUME IInv
    PROVE  /\ Pids + 1 - pid \in Nat /\ Count - n \in Nat /\ Stage \in 0..6
           /\ DumperWork \in 0..10 /\ TopperWork \in 0..5 /\ DumperWork + TopperWork \in Nat
  OBVIOUS
<1>0. LoopInv /\ DumperInv /\ TopperInv BY DEF IInv
<1>1. Pids + 1 - pid \in Nat /\ Count - n \in Nat
  BY <1>0, ThreadDumpAssumption DEF LoopInv, Rounds
<1>2. Stage \in 0..6 BY <1>0 DEF LoopInv, Stage
<1>3. DumperWork \in 0..10 BY <1>0 DEF DumperInv, DumperWork
<1>4. TopperWork \in 0..5
  <2>1. topper \in {"recv", "top", "copy", "end"} BY <1>0 DEF TopperInv
  <2>q. QED BY <2>1 DEF TopperWork
<1>q. QED BY <1>1, <1>2, <1>3, <1>4

\* Five ways to have less to do.
LEMMA BelowIs ==
  ASSUME NEW a1, NEW a2, NEW a3, NEW a4, NEW a5, NEW c1, NEW c2, NEW c3, NEW c4, NEW c5,
         \/ a1 < c1
         \/ a1 = c1 /\ a2 < c2
         \/ a1 = c1 /\ a2 = c2 /\ a3 < c3
         \/ a1 = c1 /\ a2 = c2 /\ a3 = c3 /\ a4 < c4
         \/ a1 = c1 /\ a2 = c2 /\ a3 = c3 /\ a4 = c4 /\ a5 < c5
  PROVE  Below(<<a1, a2, a3, a4, a5>>, <<c1, c2, c3, c4, c5>>)
<1> DEFINE a == <<a1, a2, a3, a4, a5>>
           c == <<c1, c2, c3, c4, c5>>
<1>0. /\ a[1] = a1 /\ a[2] = a2 /\ a[3] = a3 /\ a[4] = a4 /\ a[5] = a5
      /\ c[1] = c1 /\ c[2] = c2 /\ c[3] = c3 /\ c[4] = c4 /\ c[5] = c5
  OBVIOUS
<1>1. /\ 1..(1 - 1) = {} /\ 1..(2 - 1) = {1} /\ 1..(3 - 1) = {1, 2} /\ 1..(4 - 1) = {1, 2, 3}
      /\ 1..(5 - 1) = {1, 2, 3, 4} /\ 1..5 = {1, 2, 3, 4, 5}
  OBVIOUS
<1> HIDE DEF a, c
<1>2. \E i \in 1..5 : a[i] < c[i] /\ \A j \in 1..(i - 1) : a[j] = c[j]
  <2>1. CASE a[1] < c[1] BY <1>1, <2>1
  <2>2. CASE a[1] = c[1] /\ a[2] < c[2] BY <1>1, <2>2
  <2>3. CASE a[1] = c[1] /\ a[2] = c[2] /\ a[3] < c[3] BY <1>1, <2>3
  <2>4. CASE a[1] = c[1] /\ a[2] = c[2] /\ a[3] = c[3] /\ a[4] < c[4] BY <1>1, <2>4
  <2>5. CASE a[1] = c[1] /\ a[2] = c[2] /\ a[3] = c[3] /\ a[4] = c[4] /\ a[5] < c[5]
    BY <1>1, <2>5
  <2>q. QED BY <1>0, <2>1, <2>2, <2>3, <2>4, <2>5
<1>q. QED BY <1>2 DEF Below, a, c

\* What the provers have to be told of sums and differences.
LEMMA Arithmetic ==
  /\ \A k, i, j \in Int : i < j => i + k < j + k /\ k + i < k + j
  /\ \A k, i, j \in Nat : j > i => k - j < k - i /\ k + 1 - j < k + 1 - i
OBVIOUS

\* The loop's steps lead on in the round, to the next round, into or out of the
\* start, or to the next process; those of the goroutines lessen the work of one.
LEMMA StepLess == IInv /\ [Next]_vars => [Below(ToDo', ToDo)]_vars
<1> SUFFICES ASSUME IInv, IInv', Next PROVE Below(ToDo', ToDo) BY WholeStep
<1>0. LoopInv /\ DumperInv /\ TopperInv /\ Pids \in Nat /\ Count \in Nat /\ n \in Nat /\ pid \in Nat
  BY ThreadDumpAssumption DEF IInv, LoopInv, Rounds
<1>1. SUFFICES
        \/ pid' > pid
        \/ pid' = pid /\ Starting' < Starting
        \/ pid' = pid /\ Starting' = Starting /\ n' > n
        \/ pid' = pid /\ Starting' = Starting /\ n' = n /\ Stage' < Stage
        \/ /\ pid' = pid /\ Starting' = Starting /\ n' = n /\ Stage' = Stage
           /\ DumperWork' + TopperWork' < DumperWork + TopperWork
  <2>1. pid' \in Nat /\ n' \in Nat
    BY ThreadDumpAssumption DEF IInv, LoopInv, Rounds
  <2>2. /\ pid' > pid => Pids + 1 - pid' < Pids + 1 - pid
        /\ n' > n => Count - n' < Count - n
    BY <1>0, <2>1, Arithmetic
  <2>3. Below(<<Pids + 1 - pid', Starting', Count - n', Stage', DumperWork' + TopperWork'>>,
              <<Pids + 1 - pid, Starting, Count - n, Stage, DumperWork + TopperWork>>)
    BY <1>1, <2>2, BelowIs
  <2>q. QED BY <2>3 DEF ToDo
<1>2. /\ DumperWork \in Int /\ TopperWork \in Int
      /\ DumperWork' \in Int /\ TopperWork' \in Int
  <2>1. topper' \in {"recv", "top", "copy", "end"} BY DEF IInv, TopperInv
  <2>2. dumper' \in {"recv", "attempt", "end"} /\ attempt' \in 1..4 BY DEF IInv, DumperInv
  <2>3. DumperWork' \in Int BY <2>2 DEF DumperWork
  <2>4. TopperWork' \in Int BY <2>1 DEF TopperWork
  <2>q. QED BY <2>3, <2>4, ToDoIs
<1>3. CASE Loop
  <2>1. CASE Start BY <1>0, <2>1 DEF Start, Starting, Goto, NextPid
  <2>2. CASE Send BY <1>0, <2>2 DEF Send, Goto, Starting, Stage
  <2>3. CASE Collect BY <1>0, <2>3 DEF Collect, Goto, Starting, Stage
  <2>4. CASE Sleep BY <1>0, <2>4 DEF Sleep, Goto, Starting
  <2>5. CASE CatJavacore BY <1>0, <2>5 DEF CatJavacore, Goto, NextPid, Starting, Stage
  <2>6. CASE CatTopH BY <1>0, <2>6 DEF CatTopH, Goto, NextPid, Starting, Stage
  <2>7. CASE Post BY <1>0, <2>7 DEF Post, Goto, NextPid
  <2>q. QED BY <1>3, <2>1, <2>2, <2>3, <2>4, <2>5, <2>6, <2>7 DEF Loop
<1>4. CASE Dumper
  <2>1. UNCHANGED <<pid, td, n, b2, topper>>
    BY <1>4 DEF Dumper, DumperRecv, Attempt, topperVars
  <2>2. Stage' = Stage /\ Starting' = Starting /\ TopperWork' = TopperWork
    BY <2>1 DEF Stage, Starting, TopperWork
  <2>3. DumperWork' < DumperWork
    <3>1. CASE DumperRecv BY <3>1 DEF DumperRecv, DumperWork
    <3>2. CASE Attempt
      <4>1. /\ dumper = "attempt" /\ b1' = b1
            /\ \/ dumper' = "attempt" /\ attempt' = attempt + 1
               \/ dumper' \in {"recv", "end"}
        BY <3>2 DEF Attempt
      <4>2. b1 = <<>> /\ attempt \in 1..4 BY <1>0, <4>1 DEF DumperInv
      <4>q. QED BY <4>1, <4>2 DEF DumperWork
    <3>q. QED BY <1>4, <3>1, <3>2 DEF Dumper
  <2>4. DumperWork' + TopperWork' < DumperWork + TopperWork
    BY <1>2, <2>2, <2>3, Arithmetic
  <2>q. QED BY <2>1, <2>2, <2>4
<1>5. CASE Topper
  <2>1. UNCHANGED <<pid, td, n, b1, dumper, attempt>>
    BY <1>5 DEF Topper, TopperRecv, CreateTop, EndTop, queues, dumperVars
  <2>2. Stage' = Stage /\ Starting' = Starting /\ DumperWork' = DumperWork
    BY <2>1 DEF Stage, Starting, DumperWork
  <2>3. TopperWork' < TopperWork
    <3>1. CASE TopperRecv BY <3>1 DEF TopperRecv, TopperWork
    <3>2. CASE CreateTop BY <3>2 DEF CreateTop, TopperWork
    <3>3. CASE EndTop
      <4>1. topper \in {"top", "copy"} /\ topper' = "recv" /\ b2' = b2 BY <3>3 DEF EndTop
      <4>2. b2 = <<>> BY <1>0, <4>1 DEF TopperInv
      <4>q. QED BY <4>1, <4>2 DEF TopperWork
    <3>q. QED BY <1>5, <3>1, <3>2, <3>3 DEF Topper
  <2>4. DumperWork' + TopperWork' < DumperWork + TopperWork
    BY <1>2, <2>2, <2>3, Arithmetic
  <2>q. QED BY <2>1, <2>2, <2>4
<1>q. QED BY <1>3, <1>4, <1>5 DEF Next

\* Every step of the loop and of its goroutines leaves less to do, so with
\* goroutines that are scheduled and commands that end the capture comes to its end.
THEOREM AlwaysLessToDo == Spec => LessToDo /\ [](ToDo \in Nat \X {0, 1} \X Nat \X Nat \X Nat)
<1>1. IInv => ToDo \in Nat \X {0, 1} \X Nat \X Nat \X Nat
  <2> SUFFICES ASSUME IInv PROVE ToDo \in Nat \X {0, 1} \X Nat \X Nat \X Nat OBVIOUS
  <2>1. Starting \in {0, 1} BY DEF Starting
  <2>2. Stage \in Nat BY ToDoIs
  <2>q. QED BY <2>1, <2>2, ToDoIs DEF ToDo
<1>q. QED BY <1>1, WholeInit, WholeStep, StepLess, PTL DEF Spec, LessToDo
====
