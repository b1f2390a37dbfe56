----------------------------- MODULE GCProofs -----------------------------
(***************************************************************************)
(* Proofs about the choice of the garbage collection log, for any number   *)
(* of generations and up to ten files of a rotation: what is posted is in  *)
(* order whatever the JVM does meanwhile; it is the newest log when the    *)
(* JVM does nothing; and the capture of a process gives up only after both *)
(* tools, which are not run without one.                                   *)
(***************************************************************************)
EXTENDS GC, FiniteSetTheorems, SequenceTheorems, WellFoundedInduction, TLAPS

Pred(i) == IF i = 0 THEN Count - 1 ELSE i - 1

\* What the JVM leaves in the directory: the live file is of the latest generation,
\* the one before it was rotated to the number before.
JvmInv ==
  /\ scheme \in Schemes
  /\ dir \in [Names -> 0..gen] /\ gen \in 0..MaxGen /\ index \in Indices
  /\ dir[Live] \in {0, gen}
  /\ dir[Live] # 0 => \A n \in Names : dir[n] = gen => n = Live
  /\ gen > 0 => \E n \in Names : dir[n] = gen
  /\ scheme = "plain" => \A i \in Indices : dir[Cur(i)] = 0
  /\ scheme = "current" =>
       /\ dir[Base] = 0
       /\ \A i \in Indices : i # index => dir[Cur(i)] = 0
       /\ dir[Live] = 0 /\ gen > 0 => dir[Old(Pred(index))] = gen
       /\ dir[Live] # 0 /\ gen > 1 => dir[Old(Pred(index))] = gen - 1

\* No generation comes back: once the JVM has changed the directory it is not again
\* as it was when the capture began.
BegunInv ==
  /\ begun \in [Names -> 0..gen]
  /\ dir[Live] # 0 => \A n \in Names : begun[n] = gen => dir[n] = gen

Ordered(c) ==
  \/ c = <<>>
  \/ \E x \in {"log", "jstat", "jattach", "tempJattach"} \X (0..MaxGen) : c = <<x>>
  \/ \E g, h \in 0..MaxGen : g < h /\ c = <<<<"log", g>>, <<"log", h>>>>

\* The files of a rotation, between finding and copying them.
CopyInv ==
  /\ at \in {"start", "expand", "expandRotated", "list", "stat", "dockerCopy", "create", "copy",
             "readDir", "previous"} => content = <<>>
  /\ at = "previous" /\ pair[1] # -1 => pair[1] = Pred(pair[2]) /\ gen > 1
  /\ at \in {"previous", "current"} => scheme = "current"
  /\ at = "current" =>
       \/ content = <<>>
       \/ \E g \in 0..gen : /\ content = <<<<"log", g>>>>
                            /\ g = gen => \A i \in Indices : dir[Cur(i)] = 0
  /\ Ordered(content)

TypeInv ==
  /\ target \in Names \cup {Unexpanded} /\ pending \subseteq Names
  /\ infos \subseteq Names \X (1..MaxGen)
  /\ pair \in (Indices \cup {-1}) \X Indices
  /\ out \in {"nil", "open"} /\ err \in {"none", "notExist", "other"}
  /\ caller \in {"ondemand", "m3"} /\ given \in {"none", "path", "pattern"}
  /\ pidPassed \in BOOLEAN

OrderInv == JvmInv /\ CopyInv /\ TypeInv

Both == {"jstat", "jattach"} \subseteq tried

\* Which tools have been tried where.
ToolInv ==
  /\ at \in {"attach", "remove", "tempCopy", "failed"} => "jstat" \in tried
  /\ at \in {"tempCopy", "failed"} => Both
  /\ at = "post" /\ out = "nil" /\ pidPassed => Both
  /\ at = "post" /\ out = "open" /\ caller = "m3" => content # <<>>
  /\ at = "done" /\ pidPassed /\ content = <<>> /\ (caller = "m3" \/ out = "nil") => Both
  /\ caller = "m3" => pidPassed
  /\ ~pidPassed => tried = {} /\ at \notin {"jstat", "remove", "attach", "tempCopy", "failed"}

\* The way to the newest file, as long as the JVM does nothing.
Undisturbed == /\ dir = begun /\ Existing # {} /\ view = "host" /\ given # "none"

NewestInv ==
  /\ at \in {"start", "expand", "expandRotated", "list"} => infos = {}
  /\ at = "start" => target = Base
  /\ Undisturbed =>
     /\ at = "expandRotated" => Base \notin Existing
     /\ at = "list" => \E n \in {target} \cup Extended(target) : n \in Names /\ dir[n] = gen
     /\ at = "stat" =>
          /\ \A x \in infos : x[2] = dir[x[1]]
          /\ \E n \in Names : dir[n] = gen /\ (n \in pending \/ <<n, gen>> \in infos)
     /\ at \in {"create", "copy"} => target \in Names /\ dir[target] = gen
     /\ at \notin {"dockerCopy", "readDir", "previous", "current"}
     /\ at \in {"jstat", "remove", "attach", "tempCopy"} => err = "other"
     /\ at \in {"post", "done"} => err = "other" \/ (out = "open" /\ content = <<<<"log", gen>>>>)

IInv == OrderInv /\ BegunInv /\ ToolInv /\ NewestInv

-----------------------------------------------------------------------------
\* A bounded set of integers that is not empty has a greatest element.
LEMMA MaxOf ==
  ASSUME NEW a \in Int, NEW b \in Int, NEW S \in SUBSET (a..b), S # {}
  PROVE  \E x \in S : \A y \in S : x >= y
<1> DEFINE Above(x) == {y \in S : y > x}
           T == {Above(x) : x \in S}
<1>1. IsFiniteSet(S) BY FS_Interval, FS_Subset
<1>2. T \subseteq FiniteSubsetsOf(S) /\ T # {}
  <2>1. \A x \in S : Above(x) \subseteq S /\ IsFiniteSet(Above(x)) BY <1>1, FS_Subset
  <2>q. QED BY <2>1 DEF FiniteSubsetsOf
<1>3. PICK A \in T : \A B \in T : ~(<<B, A>> \in StrictSubsetOrdering(S))
  <2> HIDE DEF T
  <2>q. QED BY <1>2, FS_StrictSubsetOrderingWellFounded, WFMin
<1>4. PICK x \in S : A = Above(x) BY <1>3
<1>5. ASSUME NEW y \in S, y > x PROVE FALSE
  <2>0. Above(y) \in T OBVIOUS
  <2>1. Above(y) \subseteq Above(x)
    <3>1. \A z \in S : z > y => z > x BY <1>5
    <3>q. QED BY <3>1
  <2>2. y \in Above(x) /\ y \notin Above(y) BY <1>5
  <2>3. <<Above(y), A>> \in StrictSubsetOrdering(S)
    BY <1>4, <2>1, <2>2 DEF StrictSubsetOrdering
  <2>q. QED BY <1>3, <2>0, <2>3
<1>q. QED BY <1>5

\* What CHOOSE makes of it.
LEMMA MaxIs ==
  ASSUME NEW S \in SUBSET Indices, NEW x \in S, \A y \in S : y <= x
  PROVE  Max(S) = x
<1>0. S \subseteq Int BY GCAssumption DEF Indices
<1>1. \E m \in S : \A y \in S : m >= y BY <1>0
<1>2. Max(S) \in S /\ \A y \in S : Max(S) >= y BY <1>1 DEF Max
<1>3. Max(S) >= x /\ x >= Max(S) /\ Max(S) \in Int /\ x \in Int BY <1>0, <1>2
<1>q. QED BY <1>3

\* The numbers of a rotation go round.
LEMMA GoesRound ==
  ASSUME NEW i \in Indices
  PROVE  /\ (i + 1) % Count \in Indices /\ Pred((i + 1) % Count) = i /\ Pred(i) \in Indices
         /\ Count > 1 => Pred(i) # i
<1>1. Count \in 1..10 /\ i \in 0..(Count - 1) BY GCAssumption DEF Indices
<1>2. (i + 1) % Count = IF i = Count - 1 THEN 0 ELSE i + 1
  <2>1. CASE Count = 1 BY <1>1, <2>1
  <2>2. CASE Count = 2 BY <1>1, <2>2
  <2>3. CASE Count = 3 BY <1>1, <2>3
  <2>4. CASE Count = 4 BY <1>1, <2>4
  <2>5. CASE Count = 5 BY <1>1, <2>5
  <2>6. CASE Count = 6 BY <1>1, <2>6
  <2>7. CASE Count = 7 BY <1>1, <2>7
  <2>8. CASE Count = 8 BY <1>1, <2>8
  <2>9. CASE Count = 9 BY <1>1, <2>9
  <2>10. CASE Count = 10 BY <1>1, <2>10
  <2>q. QED BY <1>1, <2>1, <2>2, <2>3, <2>4, <2>5, <2>6, <2>7, <2>8, <2>9, <2>10
<1>q. QED BY <1>1, <1>2 DEF Indices, Pred

\* The names of the log's files.
LEMMA NamesAre ==
  /\ Base \in Names /\ \A i \in Indices : Old(i) \in Names /\ Cur(i) \in Names
  /\ \A n \in Names : n = Base \/ \E i \in Indices : n = Old(i) \/ n = Cur(i)
  /\ \A i, j : Base # Old(i) /\ Base # Cur(i) /\ Old(i) # Cur(j)
               /\ (Old(i) = Old(j) => i = j) /\ (Cur(i) = Cur(j) => i = j)
BY DEF Base, Old, Cur, Names

LEMMA LiveIsName ==
  ASSUME JvmInv
  PROVE  /\ Live \in Names /\ scheme \in {"plain", "current"}
         /\ \A i \in Indices : Live # Old(i)
         /\ \A i \in Indices : dir[Cur(i)] # 0 =>
              i = index /\ Live = Cur(i) /\ scheme = "current" /\ dir[Cur(i)] = gen
         /\ index \in Indices /\ Old(index) \in Names /\ Pred(index) \in Indices
BY NamesAre, GoesRound, GCAssumption DEF JvmInv, Live

-----------------------------------------------------------------------------
\* The JVM's steps keep its directory as described, and change it for good.
LEMMA RotateStep ==
  ASSUME JvmInv, Rotate
  PROVE  /\ JvmInv' /\ (dir[Live] = 0)' /\ gen' = gen
         /\ \A i \in Indices : dir'[Cur(i)] = 0
         /\ dir'[Old(index)] = gen /\ dir[Old(index)] # gen
<1>0. dir[Live] = gen /\ gen > 0 /\ gen \in 0..MaxGen /\ MaxGen \in Nat
  BY GCAssumption DEF JvmInv, Rotate
<1>1. /\ dir \in [Names -> 0..gen] /\ dir[Live] = gen /\ gen > 0 /\ gen \in 0..MaxGen
      /\ dir' = [dir EXCEPT ![Live] = 0, ![Old(index)] = gen]
      /\ index' = (index + 1) % Count /\ UNCHANGED <<scheme, gen>>
  BY <1>0 DEF JvmInv, Rotate
<1>2. index' \in Indices /\ Pred(index') = index BY <1>1, LiveIsName, GoesRound
<1>3. \A n \in Names : dir'[n] = IF n = Old(index) THEN gen ELSE IF n = Live THEN 0 ELSE dir[n]
  BY <1>1, LiveIsName
<1>4. dir' \in [Names -> 0..gen] BY <1>1, LiveIsName
<1>5. \A i \in Indices : dir'[Cur(i)] = 0 BY <1>3, NamesAre, LiveIsName
<1>6. dir'[Base] = 0 BY <1>3, NamesAre, LiveIsName DEF JvmInv, Live
<1>7. (dir[Live] = 0)' BY <1>2, <1>5, <1>6 DEF Live
<1>8. dir'[Old(index)] = gen BY <1>3, LiveIsName
<1>9. dir[Old(index)] # gen BY <1>1, LiveIsName DEF JvmInv
<1>10. JvmInv'
  BY <1>1, <1>2, <1>4, <1>5, <1>6, <1>7, <1>8, LiveIsName DEF JvmInv
<1>q. QED BY <1>1, <1>5, <1>7, <1>8, <1>9, <1>10

LEMMA OpenLogStep ==
  ASSUME JvmInv, OpenLog
  PROVE  JvmInv' /\ gen' = gen + 1 /\ dir'[Live] = gen + 1
<1>1. /\ dir \in [Names -> 0..gen] /\ dir[Live] = 0 /\ gen \in 0..MaxGen /\ gen < MaxGen
      /\ gen' = gen + 1 /\ MaxGen \in Nat /\ UNCHANGED <<scheme, index>> /\ Live' = Live
  BY GCAssumption DEF JvmInv, OpenLog, Live
<1>2. PICK kept \in {0, dir[Old(index)]} :
        dir' = [dir EXCEPT ![Live] = gen + 1, ![Old(index)] = kept]
  BY DEF OpenLog
<1>3. \A n \in Names : dir'[n] = IF n = Old(index) THEN kept ELSE IF n = Live THEN gen + 1 ELSE dir[n]
  BY <1>1, <1>2, LiveIsName
<1>4. kept \in 0..gen BY <1>1, LiveIsName
<1>5. dir' \in [Names -> 0..gen'] BY <1>1, <1>2, <1>4, LiveIsName
<1>6. dir'[Live] = gen + 1 BY <1>3, LiveIsName
<1>7. \A n \in Names : dir'[n] = gen' => n = Live
  <2>1. SUFFICES ASSUME NEW n \in Names, n # Live PROVE dir'[n] # gen + 1 BY <1>1
  <2>2. dir[n] \in 0..gen /\ dir'[n] \in {kept, dir[n]} BY <1>1, <1>3, <2>1
  <2>q. QED BY <1>1, <1>4, <2>2
<1>8. \A i \in Indices : Cur(i) # Live => dir'[Cur(i)] = dir[Cur(i)] BY <1>3, NamesAre
<1>9. Base # Live => dir'[Base] = dir[Base] BY <1>3, NamesAre
<1>10. scheme = "current" => /\ dir'[Base] = 0
                             /\ \A i \in Indices : i # index => dir'[Cur(i)] = 0
  BY <1>8, <1>9, NamesAre DEF JvmInv, Live
<1>11. scheme = "plain" => \A i \in Indices : dir'[Cur(i)] = 0
  BY <1>8, NamesAre DEF JvmInv, Live
<1>12. scheme = "current" /\ gen > 0 => dir'[Old(Pred(index))] = gen
  <2>1. SUFFICES ASSUME scheme = "current", gen > 0 PROVE dir'[Old(Pred(index))] = gen OBVIOUS
  <2>2. Count > 1 /\ Pred(index) # index BY <2>1, LiveIsName, GoesRound, GCAssumption DEF JvmInv
  <2>3. Old(Pred(index)) \in Names /\ Old(Pred(index)) # Old(index) /\ Old(Pred(index)) # Live
    BY <2>2, LiveIsName, NamesAre
  <2>q. QED BY <1>1, <1>3, <2>1, <2>3 DEF JvmInv
<1>13. JvmInv'
  BY <1>1, <1>5, <1>6, <1>7, <1>10, <1>11, <1>12, LiveIsName DEF JvmInv
<1>q. QED BY <1>1, <1>6, <1>13

-----------------------------------------------------------------------------
(***************************************************************************)
(* In order, whatever the JVM does.                                        *)
(***************************************************************************)
LEMMA OrderJvm ==
  ASSUME OrderInv, Rotate \/ OpenLog
  PROVE  OrderInv'
<1>1. UNCHANGED captureVars /\ UNCHANGED setting /\ scheme' = scheme BY DEF Rotate, OpenLog
<1>2. TypeInv' BY <1>1 DEF OrderInv, TypeInv, captureVars, setting
<1>3. gen \in 0..MaxGen /\ MaxGen \in Nat BY GCAssumption DEF OrderInv, JvmInv
<1>4. CASE Rotate
  <2>1. JvmInv' /\ gen' = gen /\ \A i \in Indices : dir'[Cur(i)] = 0
    BY <1>4, RotateStep DEF OrderInv
  <2>2. CopyInv' BY <1>1, <2>1 DEF OrderInv, CopyInv, captureVars, Ordered
  <2>q. QED BY <1>2, <2>1, <2>2 DEF OrderInv
<1>5. CASE OpenLog
  <2>1. JvmInv' /\ gen' = gen + 1 BY <1>5, OpenLogStep DEF OrderInv
  <2>2. at = "current" => content = <<>> \/ \E g \in 0..gen' : content = <<<<"log", g>>>> /\ g # gen'
    BY <1>3, <2>1 DEF OrderInv, CopyInv
  <2>3. at = "previous" /\ pair[1] # -1 => pair[1] = Pred(pair[2]) /\ gen' > 1
    BY <1>3, <2>1 DEF OrderInv, CopyInv
  <2>4. CopyInv' BY <1>1, <2>2, <2>3 DEF OrderInv, CopyInv, captureVars, Ordered
  <2>q. QED BY <1>2, <2>1, <2>4 DEF OrderInv
<1>q. QED BY <1>4, <1>5

\* What ReadDir finds: the current file is the live one, and the file before it in
\* the order of the numbers is of the generation before.
LEMMA PreviousIs ==
  ASSUME JvmInv, NEW c \in Indices, dir[Cur(c)] # 0, NEW olds,
         olds = {i \in Indices : dir[Old(i)] # 0}
  PROVE  /\ scheme = "current" /\ Previous(c, olds) \in Indices \cup {-1}
         /\ Previous(c, olds) # -1 => Previous(c, olds) = Pred(c) /\ gen > 1
<1>0. c = index /\ Live = Cur(c) /\ scheme = "current" /\ dir[Live] = gen /\ gen > 0
      /\ gen \in 0..MaxGen /\ MaxGen \in Nat /\ Count > 1 /\ Count \in 1..10
  BY LiveIsName, GCAssumption DEF JvmInv
<1>1. CASE olds = {} BY <1>0, <1>1 DEF Previous
<1>2. CASE olds # {}
  <2>1. gen > 1
    <3>1. PICK i \in Indices : dir[Old(i)] # 0 BY <1>2
    <3>2. dir[Old(i)] \in 0..gen /\ dir[Old(i)] # gen
      BY <1>0, NamesAre, LiveIsName DEF JvmInv
    <3>q. QED BY <1>0, <3>1, <3>2
  <2>2. dir[Old(Pred(index))] = gen - 1 BY <1>0, <2>1 DEF JvmInv
  <2>3. Pred(c) \in olds BY <1>0, <2>1, <2>2, LiveIsName
  <2>4. CASE Cardinality(olds) = 1
    <3>1. IsFiniteSet(olds)
      <4>1. IsFiniteSet(Indices) BY <1>0, FS_Interval DEF Indices
      <4>q. QED BY <4>1, FS_Subset
    <3>2. PICK x : olds = {x} BY <2>4, <3>1, FS_Singleton
    <3>3. (CHOOSE i \in olds : TRUE) = Pred(c) BY <2>3, <3>2
    <3>4. Previous(c, olds) = Pred(c) BY <1>2, <2>4, <3>3 DEF Previous
    <3>q. QED BY <1>0, <2>1, <3>4, LiveIsName
  <2>5. CASE Cardinality(olds) # 1
    <3> DEFINE below == {i \in olds : i < c}
    <3>1. Previous(c, olds) = IF below # {} THEN Max(below) ELSE Max(olds \cup {c})
      BY <1>2, <2>5 DEF Previous
    <3>2. olds \subseteq 0..(Count - 1) /\ c \in 0..(Count - 1) BY DEF Indices
    <3>3. CASE c = 0
      <4>1. Pred(c) = Count - 1 BY <3>3 DEF Pred
      <4>2. below = {} BY <3>2, <3>3
      <4>3. Max(olds \cup {c}) = Pred(c)
        <5>1. olds \cup {c} \in SUBSET Indices OBVIOUS
        <5>2. \A y \in olds \cup {c} : y <= Pred(c) BY <1>0, <3>2, <4>1
        <5>q. QED BY <2>3, <5>1, <5>2, MaxIs
      <4>q. QED BY <1>0, <2>1, <3>1, <4>2, <4>3, LiveIsName
    <3>4. CASE c # 0
      <4>1. Pred(c) = c - 1 BY <3>4 DEF Pred
      <4>2. Pred(c) \in below BY <2>3, <3>2, <4>1
      <4>3. Max(below) = Pred(c)
        <5>1. below \in SUBSET Indices OBVIOUS
        <5>2. \A y \in below : y <= Pred(c) BY <3>2, <4>1
        <5> HIDE DEF below
        <5>q. QED BY <4>2, <5>1, <5>2, MaxIs
      <4>q. QED BY <1>0, <2>1, <3>1, <4>2, <4>3, LiveIsName
    <3>q. QED BY <3>3, <3>4
  <2>q. QED BY <2>4, <2>5
<1>q. QED BY <1>1, <1>2

\* One file that is there, and what is appended to it.
LEMMA OrderedOne ==
  ASSUME JvmInv, NEW n \in Names
  PROVE  Ordered(<<<<"log", dir[n]>>>>)
<1>1. dir[n] \in 0..MaxGen BY GCAssumption DEF JvmInv
<1>q. QED BY <1>1 DEF Ordered

LEMMA OrderedTools ==
  /\ Ordered(<<<<"jstat", 0>>>>) /\ Ordered(<<<<"jattach", 0>>>>)
  /\ Ordered(<<<<"tempJattach", 0>>>>) /\ Ordered(<<>>)
<1>1. 0 \in 0..MaxGen BY GCAssumption
<1>q. QED BY <1>1 DEF Ordered

\* The last name in the order of the strings.
LEMMA LastName ==
  ASSUME NEW S \in SUBSET Names, S # {}, NEW n,
         n = CHOOSE x \in S : \A m \in S : NameOrder(m) <= NameOrder(x)
  PROVE  n \in S /\ \A m \in S : NameOrder(m) <= NameOrder(n)
<1>1. \A x \in S : NameOrder(x) \in 0..20
  BY GCAssumption DEF Names, Base, Indices, NameOrder
<1> DEFINE T == {NameOrder(x) : x \in S}
<1>2. T \in SUBSET (0..20) /\ T # {} BY <1>1
<1>3. PICK t \in T : \A y \in T : t >= y
  <2> HIDE DEF T
  <2>q. QED BY <1>2, MaxOf
<1>4. PICK x \in S : NameOrder(x) = t OBVIOUS
<1>5. \A m \in S : NameOrder(m) <= NameOrder(x) BY <1>1, <1>3, <1>4
<1>q. QED BY <1>5

\* The file with the latest modification time.
LEMMA LatestInfo ==
  ASSUME TypeInv, infos # {}, NEW x,
         x = CHOOSE z \in infos : \A y \in infos : y[2] <= z[2]
  PROVE  x \in infos /\ \A y \in infos : y[2] <= x[2]
<1>1. \A y \in infos : y[2] \in 1..MaxGen BY DEF TypeInv
<1> DEFINE T == {y[2] : y \in infos}
<1>2. T \in SUBSET (1..MaxGen) /\ T # {} BY <1>1
<1>3. PICK t \in T : \A y \in T : t >= y
  <2> HIDE DEF T
  <2>1. 1 \in Int /\ MaxGen \in Int BY GCAssumption
  <2>q. QED BY <1>2, <2>1, MaxOf
<1>4. PICK z \in infos : z[2] = t OBVIOUS
<1>5. \A y \in infos : y[2] <= z[2] BY <1>1, <1>3, <1>4
<1>q. QED BY <1>5

LEMMA AppendToOne ==
  ASSUME NEW x, NEW y
  PROVE  Append(<<x>>, y) = <<x, y>>
<1>1. Append(<<x>>, y) \in Seq({x, y}) /\ Len(Append(<<x>>, y)) = 2 OBVIOUS
<1>2. <<x, y>> \in Seq({x, y}) /\ Len(<<x, y>>) = 2 OBVIOUS
<1>3. Append(<<x>>, y)[1] = x /\ Append(<<x>>, y)[2] = y OBVIOUS
<1>4. \A i \in 1..2 : Append(<<x>>, y)[i] = <<x, y>>[i] BY <1>3
<1>q. QED BY <1>1, <1>2, <1>4, SeqEqual

LEMMA OrderCapture ==
  ASSUME OrderInv, Capture
  PROVE  OrderInv'
<1>1. UNCHANGED <<scheme, dir, gen, index, view, onHost, caller, pidPassed, given>>
  BY DEF Capture, Start, Expand, ExpandRotated, List, Stat, Choose, DockerCopy, Create, CopyLog,
         ReadDir, CopyPrevious, CopyCurrent, Jstat, Remove, Attach, TempAttach, Post, jvmVars, setting
<1>2. JvmInv' /\ JvmInv BY <1>1 DEF OrderInv, JvmInv, Live
<1>3. TypeInv /\ CopyInv BY DEF OrderInv
<1>4. SUFFICES TypeInv' /\ CopyInv' BY <1>2 DEF OrderInv
<1>5. dir \in [Names -> 0..gen] /\ gen \in 0..MaxGen /\ MaxGen \in Nat /\ Seen \subseteq Names
      /\ Existing \subseteq Names
  BY <1>2, GCAssumption DEF JvmInv, Seen, Existing
<1> USE DEF Goto, Return
<1>a. CASE Start
  BY <1>1, <1>3, <1>a DEF Start, TypeInv, CopyInv
<1>b. CASE Expand
  BY <1>1, <1>3, <1>b, NamesAre DEF Expand, TypeInv, CopyInv
<1>c. CASE ExpandRotated
  <2>1. target' \in Names \cup {Unexpanded}
    <3> DEFINE matches == Seen \ {Base}
               newest == CHOOSE n \in matches : \A m \in matches : NameOrder(m) <= NameOrder(n)
    <3>1. matches = {} \/ newest \in matches
      <4>1. matches \in SUBSET Names BY <1>5
      <4>q. QED BY <4>1, LastName
    <3>2. \A n \in Names : Trimmed(n) \in Names
      BY NamesAre DEF Trimmed, Names, Old, Base
    <3>3. target' = IF matches = {} THEN target ELSE Trimmed(newest)
      BY <1>c DEF ExpandRotated
    <3> HIDE DEF newest
    <3>q. QED BY <1>3, <1>5, <3>1, <3>2, <3>3 DEF TypeInv
  <2>q. QED BY <1>1, <1>3, <1>c, <2>1 DEF ExpandRotated, TypeInv, CopyInv
<1>d. CASE List
  BY <1>1, <1>3, <1>5, <1>d DEF List, TypeInv, CopyInv
<1>e. CASE Stat
  <2>1. PICK n \in pending :
          /\ pending' = pending \ {n}
          /\ IF n \in Seen THEN infos' = infos \cup {<<n, dir[n]>>} /\ Goto("stat", "stat")
                           ELSE Goto("stat", "panicked") /\ UNCHANGED infos
    BY <1>e DEF Stat
  <2>2. n \in Seen => n \in Names /\ dir[n] \in 1..MaxGen
    BY <1>5 DEF Seen, Existing
  <2>q. QED BY <1>1, <1>3, <1>e, <2>1, <2>2 DEF Stat, TypeInv, CopyInv
<1>f. CASE Choose
  <2>1. infos = {} \/ (CHOOSE x \in infos : \A y \in infos : y[2] <= x[2]) \in infos
    BY <1>3, LatestInfo
  <2>2. target' \in Names \cup {Unexpanded}
    BY <1>3, <1>f, <2>1 DEF Choose, TypeInv
  <2>q. QED BY <1>1, <1>3, <1>f, <2>2 DEF Choose, TypeInv, CopyInv
<1>g. CASE DockerCopy
  BY <1>1, <1>2, <1>3, <1>5, <1>g, OrderedOne DEF DockerCopy, TypeInv, CopyInv
<1>h. CASE Create
  BY <1>1, <1>3, <1>h DEF Create, TypeInv, CopyInv
<1>i. CASE CopyLog
  BY <1>1, <1>2, <1>3, <1>5, <1>i, OrderedOne DEF CopyLog, TypeInv, CopyInv, Reached
<1>j. CASE ReadDir
  <2>1. CASE at' # "previous"
    BY <1>1, <1>3, <1>j, <2>1 DEF ReadDir, TypeInv, CopyInv
  <2>2. CASE at' = "previous"
    <3> DEFINE cs == {i \in Indices : Cur(i) \in Seen}
               olds == {i \in Indices : Old(i) \in Seen}
    <3>1. PICK i \in cs : pair' = <<Previous(i, olds), i>> BY <1>j, <2>2 DEF ReadDir
    <3>2. view = "host" /\ Seen = Existing BY <3>1 DEF Seen
    <3>3. olds = {k \in Indices : dir[Old(k)] # 0} BY <3>2, NamesAre DEF Existing
    <3>4. i \in Indices /\ dir[Cur(i)] # 0 BY <3>1, <3>2 DEF Existing
    <3> HIDE DEF olds
    <3>5. /\ scheme = "current" /\ Previous(i, olds) \in Indices \cup {-1}
          /\ Previous(i, olds) # -1 => Previous(i, olds) = Pred(i) /\ gen > 1
      BY <1>2, <3>3, <3>4, PreviousIs
    <3>6. at = "readDir" /\ UNCHANGED <<target, pending, infos, content, out, err>>
      BY <1>j, <2>2 DEF ReadDir
    <3>7. TypeInv' BY <1>1, <1>3, <3>1, <3>4, <3>5, <3>6 DEF TypeInv
    <3>q. QED BY <1>1, <1>3, <2>2, <3>1, <3>5, <3>6, <3>7 DEF CopyInv
  <2>q. QED BY <2>1, <2>2
<1>k. CASE CopyPrevious
  <2>1. at = "previous" /\ at' = "current" /\ content = <<>> /\ scheme = "current" /\ scheme' = scheme
    BY <1>1, <1>3, <1>k DEF CopyPrevious, CopyInv
  <2>2. CASE content' = <<>> 
    BY <1>1, <1>3, <1>k, <2>1, <2>2, OrderedTools DEF CopyPrevious, TypeInv, CopyInv
  <2>3. CASE content' # <<>>
    <3>1. pair[1] \in Indices /\ content' = Append(<<>>, <<"log", dir[Old(pair[1])]>>)
      BY <1>k, <2>1, <2>3 DEF CopyPrevious
    <3> DEFINE g == dir[Old(pair[1])]
    <3>2. g \in 0..gen /\ (g = gen => \A i \in Indices : dir[Cur(i)] = 0)
      BY <1>2, <1>5, <3>1, NamesAre, LiveIsName DEF JvmInv
    <3>3. content' = <<<<"log", g>>>> /\ Ordered(content')
      BY <1>2, <3>1, NamesAre, OrderedOne
    <3>q. QED BY <1>1, <1>3, <1>k, <2>1, <3>2, <3>3 DEF CopyPrevious, TypeInv, CopyInv
  <2>q. QED BY <2>2, <2>3
<1>l. CASE CopyCurrent
  <2>1. at = "current" /\ at' \in {"jstat", "post"} BY <1>l DEF CopyCurrent
  <2>2. Ordered(content')
    <3>1. CASE content' = content BY <1>3, <3>1 DEF CopyInv
    <3>2. CASE content' # content
      <4>1. Cur(pair[2]) \in Existing /\ pair[2] \in Indices
            /\ content' = Append(content, <<"log", dir[Cur(pair[2])]>>)
        BY <1>3, <1>l, <3>2 DEF CopyCurrent, TypeInv, Reached
      <4>2. dir[Cur(pair[2])] = gen /\ dir[Cur(pair[2])] # 0
        BY <1>2, <4>1, LiveIsName DEF Existing
      <4>3. CASE content = <<>>
        BY <1>2, <4>1, <4>3, NamesAre, OrderedOne
      <4>4. CASE content # <<>>
        <5>1. PICK g \in 0..gen : /\ content = <<<<"log", g>>>>
                                  /\ g = gen => \A i \in Indices : dir[Cur(i)] = 0
          BY <1>3, <2>1, <4>4 DEF CopyInv
        <5>2. g < gen BY <1>5, <4>1, <4>2, <5>1
        <5>3. content' = <<<<"log", g>>, <<"log", gen>>>> BY <4>1, <4>2, <5>1, AppendToOne
        <5>q. QED BY <1>5, <5>2, <5>3 DEF Ordered
      <4>q. QED BY <4>3, <4>4
    <3>q. QED BY <3>1, <3>2
  <2>q. QED BY <1>1, <1>3, <1>l, <2>1, <2>2 DEF CopyCurrent, TypeInv, CopyInv
<1>m. CASE Jstat
  BY <1>1, <1>3, <1>m, OrderedTools DEF Jstat, Tool, TypeInv, CopyInv
<1>n. CASE Remove
  BY <1>1, <1>3, <1>n DEF Remove, TypeInv, CopyInv
<1>o. CASE Attach
  BY <1>1, <1>3, <1>o, OrderedTools DEF Attach, Tool, TypeInv, CopyInv
<1>p. CASE TempAttach
  BY <1>1, <1>3, <1>p, OrderedTools DEF TempAttach, Tool, TypeInv, CopyInv
<1>r. CASE Post
  BY <1>1, <1>3, <1>r, OrderedTools DEF Post, TypeInv, CopyInv
<1>q. QED BY <1>a, <1>b, <1>c, <1>d, <1>e, <1>f, <1>g, <1>h, <1>i, <1>j, <1>k, <1>l, <1>m,
            <1>n, <1>o, <1>p, <1>r DEF Capture

LEMMA OrderInit == Init => OrderInv
<1> SUFFICES ASSUME Init PROVE OrderInv OBVIOUS
<1>1. dir = [n \in Names |-> 0] /\ gen = 0 /\ index = 0 /\ scheme \in Schemes BY DEF Init
<1>2. Live \in Names BY <1>1, NamesAre, GCAssumption DEF Live, Indices
<1>3. 0 \in Indices /\ 0 \in 0..MaxGen /\ \A i \in Indices : Pred(i) \in Indices
  BY GCAssumption, GoesRound DEF Indices
<1>4. JvmInv BY <1>1, <1>2, <1>3, NamesAre DEF JvmInv
<1>5. CopyInv BY OrderedTools DEF Init, CopyInv
<1>6. TypeInv BY <1>3, NamesAre DEF Init, TypeInv
<1>q. QED BY <1>4, <1>5, <1>6 DEF OrderInv

LEMMA OrderStep == OrderInv /\ [Next]_vars => OrderInv'
<1> SUFFICES ASSUME OrderInv, [Next]_vars PROVE OrderInv' OBVIOUS
<1>1. CASE UNCHANGED vars
  BY <1>1 DEF vars, jvmVars, setting, captureVars, OrderInv, JvmInv, Live, CopyInv, TypeInv, Ordered
<1>q. QED BY <1>1, OrderJvm, OrderCapture DEF Next

\* Whatever the JVM does during the capture, the types hold, and what is posted is
\* of the JVM's log, oldest first and nothing twice, or of one tool; the file found
\* to be previous is the one before the current, with its wrap-around.
THEOREM PostedInOrder == Spec => []LogInOrder
<1>1. OrderInv => LogInOrder
  <2> SUFFICES ASSUME OrderInv PROVE TypeOK /\ RotationInOrder BY DEF LogInOrder
  <2>0. Ordered(content) BY DEF OrderInv, CopyInv
  <2>1. content \in Seq({"log", "jstat", "jattach", "tempJattach"} \X (0..MaxGen))
    <3>1. CASE content = <<>> BY <3>1
    <3>2. CASE \E x \in {"log", "jstat", "jattach", "tempJattach"} \X (0..MaxGen) : content = <<x>>
      BY <3>2
    <3>3. CASE \E g, h \in 0..MaxGen : g < h /\ content = <<<<"log", g>>, <<"log", h>>>>
      BY <3>3
    <3>q. QED BY <2>0, <3>1, <3>2, <3>3 DEF Ordered
  <2>2. TypeOK
    <3>1. gen \in 0..MaxGen /\ MaxGen \in Nat /\ dir \in [Names -> 0..gen]
      BY GCAssumption DEF OrderInv, JvmInv
    <3>2. dir \in [Names -> 0..MaxGen] BY <3>1
    <3>q. QED BY <2>1, <3>1, <3>2 DEF OrderInv, JvmInv, TypeInv, TypeOK
  <2>3. ASSUME NEW k \in 1..(Len(Posted) - 1)
        PROVE  /\ Posted[k][1] = "log" /\ Posted[k + 1][1] = "log"
               /\ Posted[k][2] < Posted[k + 1][2]
    <3>1. Posted = <<>> \/ Posted = content BY DEF Posted
    <3>2. CASE Posted = <<>> \/ Len(Posted) = 1 BY <2>3, <3>2
    <3>3. CASE \E g, h \in 0..MaxGen : g < h /\ Posted = <<<<"log", g>>, <<"log", h>>>>
      <4>1. PICK g, h \in 0..MaxGen : g < h /\ Posted = <<<<"log", g>>, <<"log", h>>>> BY <3>3
      <4>2. k = 1 BY <2>3, <4>1
      <4>q. QED BY <4>1, <4>2
    <3>q. QED BY <2>0, <3>1, <3>2, <3>3 DEF Ordered
  <2>4. ASSUME at = "previous", pair[1] # -1, Live = Cur(pair[2]), dir[Live] # 0
        PROVE  dir[Old(pair[1])] = gen - 1
    <3>1. scheme = "current" /\ pair[1] = Pred(pair[2]) /\ gen > 1
      BY <2>4 DEF OrderInv, CopyInv
    <3>2. pair[2] = index BY <2>4, <3>1, NamesAre DEF Live
    <3>q. QED BY <2>4, <3>1, <3>2 DEF OrderInv, JvmInv
  <2>q. QED BY <2>2, <2>3, <2>4 DEF RotationInOrder
<1>q. QED BY <1>1, OrderInit, OrderStep, PTL DEF Spec

-----------------------------------------------------------------------------
(***************************************************************************)
(* The newest, or the tools.                                               *)
(***************************************************************************)
\* A step of the JVM is seen in the directory, and no later one hides it.
LEMMA JvmChanges ==
  ASSUME JvmInv, BegunInv, Rotate \/ OpenLog
  PROVE  BegunInv' /\ dir' # begun
<1>0. begun' = begun /\ gen \in 0..MaxGen /\ MaxGen \in Nat /\ begun \in [Names -> 0..gen]
      /\ dir \in [Names -> 0..gen]
  BY GCAssumption DEF JvmInv, BegunInv, Rotate, OpenLog, captureVars
<1>1. CASE Rotate
  <2>1. /\ (dir[Live] = 0)' /\ gen' = gen /\ dir'[Old(index)] = gen /\ dir[Old(index)] # gen
    BY <1>1, RotateStep
  <2>2. BegunInv' BY <1>0, <2>1 DEF BegunInv
  <2>3. dir[Live] # 0 /\ Old(index) \in Names BY <1>1, LiveIsName DEF Rotate
  <2>4. begun[Old(index)] # gen BY <2>1, <2>3 DEF BegunInv
  <2>q. QED BY <2>1, <2>2, <2>4
<1>2. CASE OpenLog
  <2>1. gen' = gen + 1 /\ dir'[Live] = gen + 1 BY <1>2, OpenLogStep
  <2>2. \A n \in Names : begun[n] # gen + 1 BY <1>0
  <2>3. begun \in [Names -> 0..(gen + 1)] BY <1>0
  <2>4. BegunInv' BY <1>0, <2>1, <2>2, <2>3 DEF BegunInv
  <2>q. QED BY <2>1, <2>2, <2>4, LiveIsName
<1>q. QED BY <1>1, <1>2

\* The step of each operation of the capture that the tools are about.
LEMMA ToolStep ==
  ASSUME OrderInv, ToolInv, Capture
  PROVE  ToolInv'
<1>1. caller' = caller /\ pidPassed' = pidPassed
  BY DEF Capture, Start, Expand, ExpandRotated, List, Stat, Choose, DockerCopy, Create, CopyLog,
         ReadDir, CopyPrevious, CopyCurrent, Jstat, Remove, Attach, TempAttach, Post, setting
<1>2. \A x : <<x>> # <<>> OBVIOUS
<1> USE DEF Goto, Return, NeedsTool, Tool, Both
<1>a. CASE Start BY <1>1, <1>a DEF Start, ToolInv
<1>b. CASE Expand BY <1>1, <1>b DEF Expand, ToolInv
<1>c. CASE ExpandRotated BY <1>1, <1>c DEF ExpandRotated, ToolInv
<1>d. CASE List BY <1>1, <1>d DEF List, ToolInv
<1>e. CASE Stat BY <1>1, <1>e DEF Stat, ToolInv
<1>f. CASE Choose BY <1>1, <1>f DEF Choose, ToolInv
<1>g. CASE DockerCopy BY <1>1, <1>2, <1>g DEF DockerCopy, ToolInv
<1>h. CASE Create BY <1>1, <1>h DEF Create, ToolInv
<1>i. CASE CopyLog BY <1>1, <1>2, <1>i DEF CopyLog, ToolInv
<1>j. CASE ReadDir BY <1>1, <1>j DEF ReadDir, ToolInv
<1>k. CASE CopyPrevious BY <1>1, <1>k DEF CopyPrevious, ToolInv
<1>l. CASE CopyCurrent
  <2>1. content = <<>> \/ \E g \in 0..gen : content = <<<<"log", g>>>>
    BY <1>l DEF CopyCurrent, OrderInv, CopyInv
  <2>2. \A x : Append(content, x) # <<>>
    <3>1. CASE content = <<>> BY <3>1
    <3>2. CASE \E g \in 0..gen : content = <<<<"log", g>>>>
      <4>1. PICK g \in 0..gen : content = <<<<"log", g>>>> BY <3>2
      <4>2. \A x : Append(content, x) = <<<<"log", g>>, x>> BY <4>1, AppendToOne
      <4>q. QED BY <4>2
    <3>q. QED BY <2>1, <3>1, <3>2
  <2>q. QED BY <1>1, <1>l, <2>2 DEF CopyCurrent, ToolInv
<1>m. CASE Jstat BY <1>1, <1>2, <1>m DEF Jstat, ToolInv
<1>n. CASE Remove BY <1>1, <1>n DEF Remove, ToolInv
<1>o. CASE Attach BY <1>1, <1>2, <1>o DEF Attach, ToolInv
<1>p. CASE TempAttach BY <1>1, <1>2, <1>p DEF TempAttach, ToolInv
<1>r. CASE Post BY <1>1, <1>r DEF Post, ToolInv, OrderInv, TypeInv
<1>q. QED BY <1>a, <1>b, <1>c, <1>d, <1>e, <1>f, <1>g, <1>h, <1>i, <1>j, <1>k, <1>l, <1>m,
            <1>n, <1>o, <1>p, <1>r DEF Capture

\* A name without its extension, and the names that have it extended.
LEMMA TrimmedIs ==
  /\ Extended(Base) = Names \ {Base}
  /\ \A i \in Indices : /\ Trimmed(Old(i)) = Base
                        /\ Trimmed(Cur(i)) = Old(i)
                        /\ Extended(Old(i)) = {Cur(i)}
<1>1. Base[1] = "log" /\ \A i \in Indices : Old(i)[1] = "old" /\ Old(i)[2] = i
                                          /\ Cur(i)[1] = "current" /\ Cur(i)[2] = i
  BY DEF Base, Old, Cur
<1>2. Extended(Base) = Names \ {Base} BY <1>1 DEF Extended
<1>3. ASSUME NEW i \in Indices PROVE Extended(Old(i)) = {Cur(i)}
  BY <1>1, NamesAre DEF Extended
<1>q. QED BY <1>1, <1>2, <1>3 DEF Trimmed

\* The last of the names is that of a file whose name, trimmed of what the pattern
\* had it extended with, leads to the newest.
LEMMA TrimmedLeads ==
  ASSUME JvmInv, Base \notin Existing, Existing # {}, NEW n,
         n = CHOOSE x \in Existing : \A m \in Existing : NameOrder(m) <= NameOrder(x)
  PROVE  \E m \in {Trimmed(n)} \cup Extended(Trimmed(n)) : m \in Names /\ dir[m] = gen
<1>0. n \in Existing /\ n \in Names /\ dir[n] # 0
  <2>1. Existing \in SUBSET Names BY DEF Existing
  <2>q. QED BY <2>1, LastName DEF Existing
<1>1. gen > 0 BY <1>0, GCAssumption DEF JvmInv
<1>2. PICK m \in Names : dir[m] = gen /\ m # Base
  BY <1>1, NamesAre DEF JvmInv, Existing
<1>3. CASE \E i \in Indices : n = Old(i)
  <2>1. Trimmed(n) = Base BY <1>3, TrimmedIs
  <2>q. QED BY <1>2, <2>1, TrimmedIs
<1>4. CASE \E i \in Indices : n = Cur(i)
  <2>1. PICK i \in Indices : n = Cur(i) BY <1>4
  <2>2. dir[Cur(i)] = gen BY <1>0, <2>1, LiveIsName
  <2>3. Trimmed(n) = Old(i) /\ Cur(i) \in Extended(Trimmed(n)) BY <2>1, TrimmedIs
  <2>q. QED BY <1>0, <2>1, <2>2, <2>3
<1>5. n # Base BY <1>0 DEF Existing
<1>q. QED BY <1>0, <1>3, <1>4, <1>5, NamesAre

LEMMA NewestStep ==
  ASSUME OrderInv, NewestInv, Capture
  PROVE  NewestInv'
<1>1. UNCHANGED <<scheme, dir, gen, index, view, onHost, caller, pidPassed, given>>
  BY DEF Capture, Start, Expand, ExpandRotated, List, Stat, Choose, DockerCopy, Create, CopyLog,
         ReadDir, CopyPrevious, CopyCurrent, Jstat, Remove, Attach, TempAttach, Post, jvmVars, setting
<1>2. JvmInv /\ TypeInv BY DEF OrderInv
<1>3. Existing' = Existing BY <1>1 DEF Existing
<1>4. \A n \in Names : n = Base \/ n \in Extended(Base) BY TrimmedIs
<1>5. Existing # {} => gen > 0 /\ \E n \in Names : dir[n] = gen
  <2>1. SUFFICES ASSUME NEW n \in Names, dir[n] # 0 PROVE gen > 0 BY <1>2 DEF Existing, JvmInv
  <2>q. QED BY <1>2, <2>1, GCAssumption DEF JvmInv
<1>6. ~Start => /\ begun' = begun /\ Undisturbed' = Undisturbed
  BY <1>1, <1>3 DEF Undisturbed, Capture, Expand, ExpandRotated, List, Stat, Choose, DockerCopy,
         Create, CopyLog, ReadDir, CopyPrevious, CopyCurrent, Jstat, Remove, Attach, TempAttach, Post
<1> USE DEF Goto, Return, NeedsTool, Tool
<1>a. CASE Start
  <2>1. at = "start" /\ infos' = {} /\ target = Base BY <1>a DEF Start, NewestInv
  <2>2. Undisturbed' => given # "none" /\ Existing # {} BY <1>1, <1>3 DEF Undisturbed
  <2>3. \/ given = "none" /\ at' \in {"jstat", "post"}
        \/ at' = "list" /\ target' = Base
        \/ at' = "expand"
    BY <1>a, <2>1 DEF Start
  <2>q. QED BY <1>1, <1>4, <1>5, <2>1, <2>2, <2>3 DEF NewestInv
<1>b. CASE Expand
  <2>0. at = "expand" /\ infos' = {} /\ Undisturbed' = Undisturbed BY <1>6, <1>b DEF Expand, Start, NewestInv
  <2>1. Undisturbed => Seen = Existing BY DEF Undisturbed, Seen
  <2>2. \/ Base \in Seen /\ at' = "list" /\ target' = Base
        \/ Base \notin Seen /\ at' = "expandRotated"
    BY <1>b DEF Expand
  <2>q. QED BY <1>1, <1>3, <1>4, <1>5, <2>0, <2>1, <2>2 DEF NewestInv, Undisturbed
<1>c. CASE ExpandRotated
  <2>0. at = "expandRotated" /\ at' = "list" /\ infos' = {} /\ Undisturbed' = Undisturbed
    BY <1>6, <1>c DEF ExpandRotated, Start, NewestInv
  <2>1. ASSUME Undisturbed
        PROVE  \E n \in {target'} \cup Extended(target') : n \in Names /\ dir[n] = gen
    <3>1. Existing # {} /\ Base \notin Existing BY <2>0, <2>1 DEF NewestInv, Undisturbed
    <3>2. Seen \ {Base} = Existing BY <2>1, <3>1 DEF Undisturbed, Seen
    <3> DEFINE newest == CHOOSE n \in Existing : \A m \in Existing : NameOrder(m) <= NameOrder(n)
    <3>3. target' = Trimmed(newest) BY <1>c, <3>1, <3>2 DEF ExpandRotated
    <3>q. QED BY <1>2, <3>1, <3>3, TrimmedLeads
  <2>2. Undisturbed => \E n \in {target'} \cup Extended(target') : n \in Names /\ dir'[n] = gen'
    BY <1>1, <2>1
  <2>3. Extended(target)' = Extended(target') BY DEF Extended
  <2>q. QED BY <2>0, <2>2, <2>3 DEF NewestInv
<1>d. CASE List
  <2>0. at = "list" /\ at' = "stat" /\ infos' = {} /\ Undisturbed' = Undisturbed
        /\ pending' = Seen \cap ({target} \cup Extended(target))
    BY <1>6, <1>d DEF List, Start, NewestInv
  <2>1. ASSUME Undisturbed PROVE \E n \in Names : dir[n] = gen /\ n \in pending'
    <3>1. PICK n \in {target} \cup Extended(target) : n \in Names /\ dir[n] = gen
      BY <2>0, <2>1 DEF NewestInv
    <3>2. n \in Seen BY <1>5, <2>1, <3>1 DEF Undisturbed, Seen, Existing
    <3>q. QED BY <2>0, <3>1, <3>2
  <2>q. QED BY <1>1, <2>0, <2>1 DEF NewestInv
<1>e. CASE Stat
  <2>0. at = "stat" /\ Undisturbed' = Undisturbed /\ at' \in {"stat", "panicked"}
    BY <1>6, <1>e DEF Stat, Start
  <2>1. PICK n \in pending :
          /\ pending' = pending \ {n}
          /\ IF n \in Seen THEN infos' = infos \cup {<<n, dir[n]>>} /\ Goto("stat", "stat")
                           ELSE Goto("stat", "panicked") /\ UNCHANGED infos
    BY <1>e DEF Stat
  <2>2. ASSUME Undisturbed, at' = "stat"
        PROVE  /\ \A x \in infos' : x[2] = dir[x[1]]
               /\ \E m \in Names : dir[m] = gen /\ (m \in pending' \/ <<m, gen>> \in infos')
    <3>1. infos' = infos \cup {<<n, dir[n]>>} BY <2>1, <2>2
    <3>q. QED BY <2>0, <2>1, <2>2, <3>1 DEF NewestInv
  <2>q. QED BY <1>1, <2>0, <2>2 DEF NewestInv
<1>f. CASE Choose
  <2>0. /\ at = "stat" /\ pending = {} /\ Undisturbed' = Undisturbed
        /\ at' = IF view = "docker" THEN "dockerCopy" ELSE "create"
    BY <1>6, <1>f DEF Choose, Start
  <2>1. ASSUME Undisturbed PROVE target' \in Names /\ dir[target'] = gen /\ at' = "create"
    <3>1. PICK m \in Names : dir[m] = gen /\ <<m, gen>> \in infos BY <2>0, <2>1 DEF NewestInv
    <3>2. \A y \in infos : y[2] = dir[y[1]] /\ y[1] \in Names /\ y[2] \in 1..MaxGen
      BY <1>2, <2>0, <2>1 DEF NewestInv, TypeInv
    <3> DEFINE x == CHOOSE z \in infos : \A y \in infos : y[2] <= z[2]
    <3>3. x \in infos /\ \A y \in infos : y[2] <= x[2] BY <1>2, <3>1, LatestInfo
    <3>4. target' = x[1] BY <1>f, <3>1 DEF Choose
    <3> HIDE DEF x
    <3>5. gen <= x[2] /\ dir[x[1]] = x[2] /\ x[1] \in Names BY <3>1, <3>2, <3>3
    <3>6. dir[x[1]] \in 0..gen /\ gen \in 0..MaxGen BY <1>2, <3>5 DEF JvmInv
    <3>7. dir[x[1]] = gen BY <3>5, <3>6, GCAssumption
    <3>q. QED BY <2>0, <2>1, <3>4, <3>5, <3>7 DEF Undisturbed
  <2>q. QED BY <1>1, <2>0, <2>1 DEF NewestInv
<1>g. CASE DockerCopy
  <2>1. ~Undisturbed /\ Undisturbed' = Undisturbed BY <1>6, <1>g DEF DockerCopy, NewestInv, Start
  <2>q. QED BY <1>g, <2>1 DEF NewestInv, DockerCopy
<1>h. CASE Create
  <2>0. at = "create" /\ Undisturbed' = Undisturbed BY <1>6, <1>h DEF Create, Start
  <2>1. at' = "copy" \/ (at' \in {"jstat", "post"} /\ err' = "other") BY <1>h DEF Create
  <2>q. QED BY <1>1, <1>h, <2>0, <2>1 DEF NewestInv, Create
<1>i. CASE CopyLog
  <2>0. at = "copy" /\ Undisturbed' = Undisturbed BY <1>6, <1>i DEF CopyLog, Start
  <2>1. Undisturbed => target \in Reached /\ dir[target] = gen
    BY <1>5, <2>0 DEF NewestInv, Reached, Existing, Undisturbed
  <2>2. \/ at' = "post" /\ out' = "open" /\ content' = <<<<"log", dir[target]>>>>
        \/ at' \in {"jstat", "post"} /\ err' = "other"
        \/ target \notin Reached /\ at' = "readDir"
    BY <1>i DEF CopyLog
  <2>q. QED BY <1>1, <2>0, <2>1, <2>2 DEF NewestInv
<1>j. CASE ReadDir
  <2>1. ~Undisturbed /\ Undisturbed' = Undisturbed BY <1>6, <1>j DEF ReadDir, NewestInv, Start
  <2>2. at' \in {"jstat", "post", "previous"} BY <1>j DEF ReadDir
  <2>q. QED BY <2>1, <2>2 DEF NewestInv
<1>k. CASE CopyPrevious
  <2>1. ~Undisturbed /\ Undisturbed' = Undisturbed BY <1>6, <1>k DEF CopyPrevious, NewestInv, Start
  <2>q. QED BY <1>k, <2>1 DEF NewestInv, CopyPrevious
<1>l. CASE CopyCurrent
  <2>1. ~Undisturbed /\ Undisturbed' = Undisturbed BY <1>6, <1>l DEF CopyCurrent, NewestInv, Start
  <2>2. at' \in {"jstat", "post"} BY <1>l DEF CopyCurrent
  <2>q. QED BY <2>1, <2>2 DEF NewestInv
<1>m. CASE Jstat
  <2>1. at = "jstat" /\ Undisturbed' = Undisturbed /\ err' = err /\ at' \in {"post", "attach", "remove"}
    BY <1>6, <1>m DEF Jstat, Start
  <2>q. QED BY <2>1 DEF NewestInv
<1>n. CASE Remove
  <2>1. at = "remove" /\ Undisturbed' = Undisturbed /\ err' = err /\ at' \in {"attach", "panicked"}
    BY <1>6, <1>n DEF Remove, Start
  <2>q. QED BY <2>1 DEF NewestInv
<1>o. CASE Attach
  <2>1. at = "attach" /\ Undisturbed' = Undisturbed /\ err' = err /\ at' \in {"post", "tempCopy"}
    BY <1>6, <1>o DEF Attach, Start
  <2>q. QED BY <2>1 DEF NewestInv
<1>p. CASE TempAttach
  <2>1. at = "tempCopy" /\ Undisturbed' = Undisturbed /\ err' = err /\ at' \in {"post", "failed"}
    BY <1>6, <1>p DEF TempAttach, Start
  <2>q. QED BY <2>1 DEF NewestInv
<1>r. CASE Post
  <2>1. at = "post" /\ at' = "done" /\ Undisturbed' = Undisturbed /\ err' = err /\ out' = out
        /\ content' = IF out = "nil" THEN <<>> ELSE content
    BY <1>6, <1>r DEF Post, Start
  <2>q. QED BY <1>1, <2>1 DEF NewestInv
<1>q. QED BY <1>a, <1>b, <1>c, <1>d, <1>e, <1>f, <1>g, <1>h, <1>i, <1>j, <1>k, <1>l, <1>m,
            <1>n, <1>o, <1>p, <1>r DEF Capture

LEMMA NewestInit == Init => IInv
<1> SUFFICES ASSUME Init PROVE IInv OBVIOUS
<1>1. OrderInv BY OrderInit
<1>2. BegunInv BY <1>1 DEF Init, BegunInv, OrderInv, JvmInv
<1>3. ToolInv BY DEF Init, ToolInv
<1>4. NewestInv BY DEF Init, NewestInv
<1>q. QED BY <1>1, <1>2, <1>3, <1>4 DEF IInv

LEMMA NewestNext == IInv /\ [Next]_vars => IInv'
<1> SUFFICES ASSUME IInv, [Next]_vars PROVE IInv' OBVIOUS
<1>0. OrderInv /\ JvmInv /\ BegunInv /\ ToolInv /\ NewestInv /\ OrderInv'
  BY OrderStep DEF IInv, OrderInv
<1>1. CASE Rotate \/ OpenLog
  <2>1. BegunInv' /\ dir' # begun BY <1>0, <1>1, JvmChanges
  <2>2. UNCHANGED captureVars /\ UNCHANGED setting BY <1>1 DEF Rotate, OpenLog
  <2>3. ToolInv' BY <1>0, <2>2 DEF ToolInv, Both, captureVars, setting
  <2>4. ~Undisturbed' BY <2>1, <2>2 DEF Undisturbed, captureVars
  <2>5. NewestInv' BY <1>0, <2>2, <2>4 DEF NewestInv, captureVars
  <2>q. QED BY <1>0, <2>1, <2>3, <2>5 DEF IInv
<1>2. CASE Capture
  <2>1. ToolInv' /\ NewestInv' BY <1>0, <1>2, ToolStep, NewestStep
  <2>2. UNCHANGED <<scheme, dir, gen, index>> /\ begun' \in {begun, dir}
    BY <1>2 DEF Capture, Start, Expand, ExpandRotated, List, Stat, Choose, DockerCopy, Create, CopyLog,
         ReadDir, CopyPrevious, CopyCurrent, Jstat, Remove, Attach, TempAttach, Post, jvmVars
  <2>3. BegunInv' BY <1>0, <2>2 DEF BegunInv, JvmInv, Live
  <2>q. QED BY <1>0, <2>1, <2>3 DEF IInv
<1>3. CASE UNCHANGED vars
  <2>1. BegunInv' BY <1>0, <1>3 DEF BegunInv, Live, vars, jvmVars, captureVars
  <2>2. ToolInv' BY <1>0, <1>3 DEF ToolInv, Both, vars, setting, captureVars
  <2>3. Undisturbed' = Undisturbed /\ Existing' = Existing
    BY <1>3 DEF Undisturbed, Existing, vars, jvmVars, setting, captureVars
  <2>4. NewestInv'
    BY <1>0, <1>3, <2>3 DEF NewestInv, vars, jvmVars, captureVars
  <2>q. QED BY <1>0, <2>1, <2>2, <2>4 DEF IInv
<1>q. QED BY <1>1, <1>2, <1>3 DEF Next

\* When the JVM does nothing during the capture and nothing is refused, the newest
\* file of its log is posted, whatever its name.  A capture of a process that ends
\* with nothing to post has asked both tools; one without a process asks neither.
THEOREM PostsNewestOrTriesTools == Spec => []NewestOrTools
<1>1. IInv => NewestOrTools
  <2> SUFFICES ASSUME IInv PROVE NewestPosted /\ ToolsTried BY DEF NewestOrTools
  <2>1. NewestPosted BY DEF IInv, NewestInv, NewestPosted, Posted, Undisturbed
  <2>2. ToolsTried BY DEF IInv, ToolInv, ToolsTried, Posted, Both
  <2>q. QED BY <2>1, <2>2
<1>q. QED BY <1>1, NewestInit, NewestNext, PTL DEF Spec
====
