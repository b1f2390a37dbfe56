----------------------------- MODULE TasksProofs -----------------------------
(***************************************************************************)
(* Proofs about Tasks, for every set of tasks FullCapture may start.       *)
(* TaskInv says of one task how its wait group, its command and its file   *)
(* fit the point its goroutine is at; every step changes them for one task *)
(* only, so its preservation is proved for that task and for the others.   *)
(***************************************************************************)
EXTENDS Tasks, FiniteSetTheorems, WellFoundedInduction, TLAPS

\* Between InitWaitGroup and DoneWaitGroup.
InRun == {"run", "create", "start", "await", "fallback", "post", "send", "release"}

\* The file holds nothing but the output of the command in use.
Own(t) == output[t] = {attempt[t]} \/ t \in resetFailed

OutputInv(t) ==
  /\ pc[t] \in {"off", "look", "wait", "init", "create"} => output[t] = {}
  /\ pc[t] = "start" \/ t \in running => output[t] = {} \/ t \in resetFailed
  /\ pc[t] = "await" /\ t \notin running /\ outcome[t] = "ok" => Own(t)
  /\ pc[t] = "post" \/ t \in posted => outcome[t] = "ok" /\ Own(t)

TaskInv(t) ==
  /\ wg[t] = IF pc[t] \in InRun THEN 1 ELSE 0
  /\ t \in received <=> pc[t] \in {"release", "end"}
  /\ t \in running => pc[t] = "await"
  /\ t \in cmd => pc[t] \in InRun \cup {"end"}
  /\ pc[t] = "wait" => WaitsFor(t) \subseteq cmd
  /\ pc[t] \in {"start", "await", "fallback", "post"} => attempt[t] \in {1, 2}
  /\ t \in posted => pc[t] \in {"send", "release", "end"}
  /\ OutputInv(t)

IInv == TypeOK /\ \A t \in Tasks : TaskInv(t)

-----------------------------------------------------------------------------
\* FullCapture before the first task is started satisfies the invariant.
LEMMA InitInv == Init => IInv
<1> SUFFICES ASSUME Init PROVE IInv OBVIOUS
<1>1. TypeOK
  <2>1. output \in [Tasks -> SUBSET {1, 2}] BY DEF Init
  <2>2. outcome \in [Tasks -> {"none", "ok", "invalid", "error"}] BY DEF Init
  <2>3. attempt \in [Tasks -> 0..2] /\ wg \in [Tasks -> Nat] BY DEF Init
  <2>q. QED BY <2>1, <2>2, <2>3 DEF Init, TypeOK
<1>2. ASSUME NEW t \in Tasks PROVE TaskInv(t)
  <2>1. pc[t] = "off" /\ wg[t] = 0 /\ output[t] = {} BY DEF Init
  <2>2. t \notin received /\ t \notin running /\ t \notin cmd /\ t \notin posted BY DEF Init
  <2>3. OutputInv(t) BY <2>1, <2>2 DEF OutputInv
  <2>q. QED BY <2>1, <2>2, <2>3 DEF TaskInv, InRun
<1>q. QED BY <1>1, <1>2 DEF IInv

\* The steps of the goroutine of FullCapture preserve the types and TaskInv.
LEMMA MainStep == IInv /\ Main => IInv'
<1>1. ASSUME IInv, NEW t \in Tasks, StartTask(t) PROVE IInv'
  BY <1>1 DEF IInv, TypeOK, TaskInv, OutputInv, InRun, Own, StartTask, Goto, command
<1>2. ASSUME IInv, NEW t \in Tasks, Receive(t) PROVE IInv'
  BY <1>2 DEF IInv, TypeOK, TaskInv, OutputInv, InRun, Own, Receive, Goto, command
<1>q. QED BY <1>1, <1>2 DEF Main

\* The end of a command preserves them.
LEMMA ExitStep == ASSUME IInv, NEW t \in Tasks, Exit(t) PROVE IInv'
<1>1. PICK o \in Outcomes(t), w \in SUBSET {attempt[t]} :
        /\ o = "ok" => w # {}
        /\ outcome' = [outcome EXCEPT ![t] = o]
        /\ output' = [output EXCEPT ![t] = @ \cup w]
  BY DEF Exit
<1>2. o \in {"ok", "invalid", "error"} BY DEF Outcomes
<1>3. pc[t] = "await" /\ attempt[t] \in {1, 2} BY DEF Exit, IInv, TaskInv
<1>4. TypeOK'
  <2>1. output[t] \cup w \in SUBSET {1, 2} BY <1>3 DEF IInv, TypeOK
  <2>q. QED BY <1>1, <1>2, <2>1 DEF Exit, IInv, TypeOK, main
<1>5. ASSUME NEW u \in Tasks PROVE TaskInv(u)'
  <2>1. CASE u = t
    <3>1. OutputInv(t)'
      <4>1. outcome'[t] = o /\ output'[t] = output[t] \cup w BY <1>1 DEF IInv, TypeOK
      <4>2. o = "ok" => w = {attempt[t]} BY <1>1
      <4>3. (output[t] = {} \/ t \in resetFailed) /\ t \notin posted
        BY <1>3 DEF Exit, IInv, TaskInv, OutputInv
      <4>4. pc'[t] = "await" /\ attempt' = attempt /\ resetFailed' = resetFailed
            /\ t \notin running' /\ t \notin posted'
        BY <1>3, <4>3 DEF Exit
      <4>5. o = "ok" => Own(t)'
        BY <4>1, <4>2, <4>3, <4>4 DEF Own
      <4>q. QED BY <4>1, <4>4, <4>5 DEF OutputInv
    <3>2. t \notin running' BY DEF Exit
    <3>3. TaskInv(t) BY DEF IInv
    <3>q. QED BY <2>1, <3>1, <3>2, <3>3 DEF Exit, TaskInv, main
  <2>2. CASE u # t
    <3>1. u \in running' <=> u \in running
      <4>1. running' = running \ {t} BY DEF Exit
      <4>q. QED BY <4>1, <2>2
    <3>2. outcome'[u] = outcome[u] BY <1>1, <2>2 DEF IInv, TypeOK
    <3>3. output'[u] = output[u] BY <1>1, <2>2 DEF IInv, TypeOK
    <3>4. TaskInv(u) BY DEF IInv
    <3>q. QED BY <3>1, <3>2, <3>3, <3>4 DEF Exit, TaskInv, OutputInv, Own, main
  <2>q. QED BY <2>1, <2>2
<1>q. QED BY <1>4, <1>5 DEF IInv

\* The steps of GoCapture and WrapRun preserve them.
LEMMA WrapRunStep ==
  ASSUME IInv, NEW t \in Tasks,
         Look(t) \/ Wait(t) \/ InitWaitGroup(t) \/ RunTask(t) \/ Release(t)
  PROVE  IInv'
<1>1. CASE Look(t)
  BY <1>1 DEF IInv, TypeOK, TaskInv, OutputInv, InRun, Own, Look, Goto, main, command
<1>2. CASE Wait(t)
  BY <1>2 DEF IInv, TypeOK, TaskInv, OutputInv, InRun, Own, Wait, Goto, main, command
<1>3. CASE InitWaitGroup(t)
  BY <1>3 DEF IInv, TypeOK, TaskInv, OutputInv, InRun, Own, InitWaitGroup, Goto, main, command
<1>4. CASE RunTask(t)
  BY <1>4 DEF IInv, TypeOK, TaskInv, OutputInv, InRun, Own, RunTask, Goto, main, command
<1>5. CASE Release(t)
  BY <1>5 DEF IInv, TypeOK, TaskInv, OutputInv, InRun, Own, Release, Goto, main, command
<1>q. QED BY <1>1, <1>2, <1>3, <1>4, <1>5

\* The steps of a task with a command preserve them.
LEMMA RunStep ==
  ASSUME IInv, NEW t \in Tasks,
         Create(t) \/ Start(t) \/ Await(t) \/ Fallback(t) \/ Post(t)
  PROVE  IInv'
<1> USE DEF AfterFailure
<1>1. CASE Create(t)
  BY <1>1 DEF IInv, TypeOK, TaskInv, OutputInv, InRun, Own, Create, Goto, main
<1>2. CASE Start(t)
  BY <1>2 DEF IInv, TypeOK, TaskInv, OutputInv, InRun, Own, Start, Goto, main
<1>3. CASE Await(t)
  BY <1>3 DEF IInv, TypeOK, TaskInv, OutputInv, InRun, Own, Await, Goto, main, command
<1>4. CASE Fallback(t)
  BY <1>4 DEF IInv, TypeOK, TaskInv, OutputInv, InRun, Own, Fallback, Goto, main, command
<1>5. CASE Post(t)
  BY <1>5 DEF IInv, TypeOK, TaskInv, OutputInv, InRun, Own, Post, Goto, main, command
<1>q. QED BY <1>1, <1>2, <1>3, <1>4, <1>5

\* Every step preserves the invariant.
LEMMA StepInv == IInv /\ [Next]_vars => IInv'
<1> SUFFICES ASSUME IInv, [Next]_vars PROVE IInv' OBVIOUS
<1>1. CASE Main BY <1>1, MainStep
<1>2. CASE \E t \in Tasks : Goroutine(t)
  BY <1>2, WrapRunStep, RunStep DEF Goroutine
<1>3. CASE \E t \in Tasks : Exit(t) BY <1>3, ExitStep
<1>4. CASE UNCHANGED vars
  BY <1>4 DEF vars, IInv, TypeOK, TaskInv, OutputInv, Own
<1>q. QED BY <1>1, <1>2, <1>3, <1>4 DEF Next, Step

\* The invariant holds of every behaviour.
LEMMA Invariant == Spec => []IInv
BY InitInv, StepInv, PTL DEF Spec

-----------------------------------------------------------------------------
\* The types of FullCapture's tasks; in particular no wait group goes below zero:
\* it counts the task between InitWaitGroup and DoneWaitGroup.
THEOREM TypeCorrect == Spec => []TypeOK
<1>1. IInv => TypeOK BY DEF IInv
<1>q. QED BY <1>1, Invariant, PTL

\* When FullCapture has read every result no task's command is running: the
\* result is sent after Wait, whichever path led to it.
THEOREM QuietAfterReads == Spec => []QuietWhenRead
<1>1. IInv => QuietWhenRead
  BY DEF IInv, TypeOK, TaskInv, QuietWhenRead
<1>q. QED BY <1>1, Invariant, PTL

\* What top, vmstat, dmesg, ping and kernel post is the output of one command
\* that succeeded.
THEOREM PostsOneCommand == Spec => []OutputOfOneCommand
<1>1. IInv => OutputOfOneCommand
  BY DEF IInv, TypeOK, TaskInv, OutputInv, Own, OutputOfOneCommand
<1>q. QED BY <1>1, Invariant, PTL

\* A task that found the task it waits for started begins only after FullCapture
\* received that task's result.
THEOREM WaitsForResult == Spec => WaitedForVmstat
<1>1. ASSUME IInv, NEW t \in Tasks, Wait(t) PROVE WaitsFor(t) \subseteq received
  <2>1. WaitsFor(t) \subseteq Tasks BY TasksAssumption DEF WaitsFor
  <2>2. SUFFICES ASSUME NEW u \in WaitsFor(t) PROVE u \in received OBVIOUS
  <2>3. u \in cmd /\ wg[u] = 0 BY <1>1 DEF Wait, Goto, IInv, TaskInv
  <2>4. pc[u] = "end" BY <2>1, <2>3, <1>1 DEF IInv, TaskInv
  <2>q. QED BY <2>1, <2>4, <1>1 DEF IInv, TaskInv
<1>2. IInv => [\A t \in Tasks : Wait(t) => WaitsFor(t) \subseteq received]_vars
  BY <1>1
<1>q. QED BY <1>2, Invariant, PTL DEF WaitedForVmstat

-----------------------------------------------------------------------------
(***************************************************************************)
(* The second command.  Only the place a goroutine is at, the command in   *)
(* use and the three ways to end without a third are followed: TriedInv is *)
(* inductive together with the types and the attempts of TaskInv.          *)
(***************************************************************************)
TriedInv(t) ==
  /\ pc[t] \in {"off", "look", "wait", "init", "run", "create"} => attempt[t] = 0
  /\ t \in FallsBack /\ GaveUp(t) =>
       attempt[t] = 2 \/ t \in resetFailed \/ t \in panicking

AllTriedInv == \A t \in Tasks : TriedInv(t)

\* Steps that change the place of one goroutine only, and neither the command it
\* uses nor a way to end.
LEMMA TriedMove ==
  ASSUME IInv, AllTriedInv, NEW t \in Tasks,
         StartTask(t) \/ Receive(t) \/ Look(t) \/ Wait(t) \/ InitWaitGroup(t)
           \/ RunTask(t) \/ Release(t)
  PROVE  AllTriedInv'
<1> SUFFICES ASSUME NEW u \in Tasks PROVE TriedInv(u)' BY DEF AllTriedInv
<1>1. attempt' = attempt /\ posted' = posted /\ resetFailed' = resetFailed
      /\ panicking' = panicking
  BY DEF StartTask, Receive, Look, Wait, InitWaitGroup, RunTask, Release, command
<1>2. TriedInv(u) BY DEF AllTriedInv
<1>3. CASE u # t
  <2>1. pc'[u] = pc[u]
    BY <1>3 DEF StartTask, Receive, Look, Wait, InitWaitGroup, RunTask, Release, Goto,
                IInv, TypeOK
  <2>q. QED BY <1>1, <1>2, <2>1 DEF TriedInv, GaveUp
<1>4. CASE u = t
  <2>1. pc'[t] \in {"send", "release", "end"} =>
          pc[t] \in {"send", "release"} \/ attempt[t] = 0
    BY <1>2, <1>4 DEF StartTask, Receive, Look, Wait, InitWaitGroup, RunTask, Release, Goto,
                IInv, TypeOK, TriedInv
  <2>2. pc'[t] \in {"off", "look", "wait", "init", "run", "create"} =>
          pc[t] \in {"off", "look", "wait", "init", "run", "create"}
    BY DEF StartTask, Receive, Look, Wait, InitWaitGroup, RunTask, Release, Goto,
                IInv, TypeOK
  <2>q. QED BY <1>1, <1>2, <1>4, <2>1, <2>2 DEF TriedInv, GaveUp
<1>q. QED BY <1>3, <1>4

\* The steps of a task with a command: a first command that fails leads to the
\* second one.
LEMMA TriedRun ==
  ASSUME IInv, AllTriedInv, NEW t \in Tasks,
         Create(t) \/ Start(t) \/ Await(t) \/ Fallback(t) \/ Post(t) \/ Exit(t)
  PROVE  AllTriedInv'
<1> SUFFICES ASSUME NEW u \in Tasks PROVE TriedInv(u)' BY DEF AllTriedInv
<1> USE DEF IInv, TypeOK, TriedInv, GaveUp, Goto
<1>1. TriedInv(u) /\ TaskInv(t) BY DEF AllTriedInv
<1>2. CASE Create(t) BY <1>1, <1>2 DEF Create
<1>3. CASE Start(t)
  BY <1>1, <1>3 DEF Start, AfterFailure, TaskInv
<1>4. CASE Await(t)
  BY <1>1, <1>4 DEF Await, AfterFailure, TaskInv, command
<1>5. CASE Fallback(t) BY <1>1, <1>5 DEF Fallback, command
<1>6. CASE Post(t) BY <1>1, <1>6 DEF Post, command
<1>7. CASE Exit(t) BY <1>1, <1>7 DEF Exit
<1>q. QED BY <1>2, <1>3, <1>4, <1>5, <1>6, <1>7

\* No task gives up in any behaviour without its second command.
LEMMA TriedInvariant == Spec => []AllTriedInv
<1>1. Init => AllTriedInv BY DEF Init, AllTriedInv, TriedInv, GaveUp
<1>2. IInv /\ AllTriedInv /\ [Next]_vars => AllTriedInv'
  <2> SUFFICES ASSUME IInv, AllTriedInv, [Next]_vars PROVE AllTriedInv' OBVIOUS
  <2>1. CASE UNCHANGED vars BY <2>1 DEF vars, AllTriedInv, TriedInv, GaveUp
  <2>2. CASE Step BY <2>2, TriedMove, TriedRun DEF Step, Main, Goroutine
  <2>q. QED BY <2>1, <2>2 DEF Next
<1>q. QED BY <1>1, <1>2, Invariant, PTL DEF Spec

\* top and vmstat give up only after their second command, whether the first one
\* did not start, failed or printed something invalid, unless the file could not be
\* reset or a panic ended them.
THEOREM TriesSecondCommand == Spec => []FallbackTried
<1>1. AllTriedInv => FallbackTried BY DEF AllTriedInv, TriedInv, FallbackTried
<1>q. QED BY <1>1, TriedInvariant, PTL

-----------------------------------------------------------------------------
(***************************************************************************)
(* No deadlock, and no step twice.  Some goroutine can go on until all have *)
(* ended: the order in which results are read fits dmesg's wait for vmstat, *)
(* whatever tasks there are.  And each step takes one goroutine further on  *)
(* its way of at most 15 steps, so that they do come to their ends.        *)
(***************************************************************************)
\* What the next step of t waits for is there.
Ready(t) ==
  \/ pc[t] = "off" /\ Earlier(StartOrder, t) \subseteq started
  \/ pc[t] = "wait" /\ \A u \in WaitsFor(t) : wg[u] = 0
  \/ pc[t] = "send" /\ started = Tasks /\ Earlier(ReadOrder, t) \subseteq received
  \/ pc[t] \notin {"off", "wait", "send", "end"}

NoneStuck == Ended \/ \E t \in Tasks : Ready(t)

\* How far on its way t is.
Way(t) ==
  CASE pc[t] = "off" -> 0
    [] pc[t] = "look" -> 1
    [] pc[t] = "wait" -> 2
    [] pc[t] = "init" -> 3
    [] pc[t] \in {"run", "create"} -> 4
    [] pc[t] = "start" -> IF attempt[t] = 1 THEN 5 ELSE 9
    [] pc[t] = "await" -> (IF attempt[t] = 1 THEN 6 ELSE 10) + (IF t \in running THEN 0 ELSE 1)
    [] pc[t] = "fallback" -> 8
    [] pc[t] = "post" -> 12
    [] pc[t] = "send" -> 13
    [] pc[t] = "release" -> 14
    [] pc[t] = "end" -> 15

Further(t) == Way(t)' > Way(t) /\ \A u \in Tasks \ {t} : Way(u)' = Way(u)
OneGoesFurther == [][\E t \in Tasks : Further(t)]_vars

\* A place in an order is a number up to 14, and of some places one is the first.
LEMMA PlaceIs ==
  \A t \in Tasks : Place(StartOrder, t) \in 1..14 /\ Place(ReadOrder, t) \in 1..14
<1> SUFFICES ASSUME NEW t \in Tasks
    PROVE  Place(StartOrder, t) \in 1..14 /\ Place(ReadOrder, t) \in 1..14
  OBVIOUS
<1>1. Len(StartOrder) = 14 /\ Len(ReadOrder) = 14 BY DEF StartOrder, ReadOrder
<1>2. PICK i \in 1..14 : StartOrder[i] = t BY <1>1, TasksAssumption
<1>3. \E j \in 1..14 : ReadOrder[j] = t BY <1>2 DEF StartOrder, ReadOrder
<1>4. Place(StartOrder, t) \in 1..14 BY <1>1, <1>2 DEF Place
<1>5. Place(ReadOrder, t) \in 1..14 BY <1>1, <1>3 DEF Place
<1>q. QED BY <1>4, <1>5

LEMMA LeastPlace ==
  ASSUME NEW P \in SUBSET (1..14), P # {}
  PROVE  \E x \in P : \A y \in P : x <= y
<1> DEFINE Below(x) == {y \in P : y < x}
           T == {Below(x) : x \in P}
<1>1. IsFiniteSet(P)
  <2>1. 1 \in Int /\ 14 \in Int OBVIOUS
  <2>2. IsFiniteSet(1..14) BY <2>1, FS_Interval
  <2>q. QED BY <2>2, FS_Subset
<1>2. T \subseteq FiniteSubsetsOf(P) /\ T # {}
  <2>1. \A x \in P : Below(x) \subseteq P /\ IsFiniteSet(Below(x)) BY <1>1, FS_Subset
  <2>q. QED BY <2>1 DEF FiniteSubsetsOf
<1>3. PICK A \in T : \A B \in T : ~(<<B, A>> \in StrictSubsetOrdering(P))
  <2> HIDE DEF T
  <2>q. QED BY <1>2, FS_StrictSubsetOrderingWellFounded, WFMin
<1>4. PICK x \in P : A = Below(x) BY <1>3
<1>5. ASSUME NEW y \in P, y < x PROVE FALSE
  <2>1. Below(y) \in T OBVIOUS
  <2>2. Below(y) \subseteq Below(x)
    <3>1. \A z \in P : z < y => z < x BY <1>5
    <3>q. QED BY <3>1
  <2>3. y \in Below(x) /\ y \notin Below(y) BY <1>5
  <2>4. <<Below(y), A>> \in StrictSubsetOrdering(P)
    BY <1>4, <2>2, <2>3 DEF StrictSubsetOrdering
  <2>q. QED BY <1>3, <2>1, <2>4
<1>q. QED BY <1>5

\* The first of some tasks, in the order of the starts or of the reads.
LEMMA FirstTask ==
  ASSUME NEW S \in SUBSET Tasks, S # {}, NEW order \in {StartOrder, ReadOrder}
  PROVE  \E t \in S : Earlier(order, t) \cap S = {}
<1> DEFINE P == {Place(order, t) : t \in S}
<1>1. \A t \in Tasks : Place(order, t) \in 1..14 BY PlaceIs
<1>2. P \subseteq 1..14 /\ P # {} BY <1>1
<1>3. PICK x \in P : \A y \in P : x <= y
  <2> HIDE DEF P
  <2>q. QED BY <1>2, LeastPlace
<1>4. PICK t \in S : x = Place(order, t) BY <1>3
<1>5. \A u \in S : ~(Place(order, u) < Place(order, t))
  <2>1. \A u \in S : Place(order, t) <= Place(order, u) BY <1>3, <1>4
  <2>q. QED BY <1>1, <2>1
<1>q. QED BY <1>5 DEF Earlier

\* vmstat's result is read before the one of dmesg, which may wait for it.
LEMMA VmstatBeforeDmesg == Place(ReadOrder, "vmstat") < Place(ReadOrder, "dmesg")
<1>1. Len(ReadOrder) = 14 BY DEF ReadOrder
<1>2. Place(ReadOrder, "vmstat") = 5
  <2>1. \A i \in 1..14 : ReadOrder[i] = "vmstat" <=> i = 5 BY DEF ReadOrder
  <2>q. QED BY <1>1, <2>1 DEF Place
<1>3. Place(ReadOrder, "dmesg") = 6
  <2>1. \A i \in 1..14 : ReadOrder[i] = "dmesg" <=> i = 6 BY DEF ReadOrder
  <2>q. QED BY <1>1, <2>1 DEF Place
<1>q. QED BY <1>2, <1>3

\* What is not off was started.
StartedInv == \A t \in Tasks : pc[t] # "off" => t \in started

LEMMA StartedInvariant == Spec => []StartedInv
<1>1. Init => StartedInv BY DEF Init, StartedInv
<1>2. IInv /\ StartedInv /\ [Next]_vars => StartedInv'
  <2> SUFFICES ASSUME IInv, StartedInv, [Next]_vars PROVE StartedInv' OBVIOUS
  <2> USE DEF IInv, TypeOK, StartedInv
  <2>1. CASE UNCHANGED vars BY <2>1 DEF vars
  <2>2. ASSUME NEW t \in Tasks, StartTask(t) PROVE StartedInv' BY <2>2 DEF StartTask, Goto
  <2>3. ASSUME NEW t \in Tasks, Receive(t) PROVE StartedInv' BY <2>3 DEF Receive, Goto
  <2>4. ASSUME NEW t \in Tasks, Goroutine(t) PROVE StartedInv'
    <3>1. started' = started /\ pc[t] # "off" /\ \E p : pc' = [pc EXCEPT ![t] = p]
      BY <2>4 DEF Goroutine, Look, Wait, InitWaitGroup, RunTask, Release, Create, Start, Await,
           Fallback, Post, Goto, main
    <3>q. QED BY <3>1
  <2>5. ASSUME NEW t \in Tasks, Exit(t) PROVE StartedInv' BY <2>5 DEF Exit, main
  <2>q. QED BY <2>1, <2>2, <2>3, <2>4, <2>5 DEF Next, Step, Main
<1>q. QED BY <1>1, <1>2, Invariant, PTL DEF Spec

\* Of the tasks that wait for main the first can go on: it is started in its turn,
\* its result is read in its turn, or vmstat's is and dmesg waits for that only.
LEMMA SomeReady == IInv /\ StartedInv => NoneStuck
<1> SUFFICES ASSUME IInv, StartedInv, \A t \in Tasks : ~Ready(t)
    PROVE  \A t \in Tasks : pc[t] = "end"
  BY DEF NoneStuck, Ended
<1>1. \A t \in Tasks : pc[t] \in {"off", "wait", "send", "end"} BY DEF Ready
<1>2. \A t \in Tasks : pc[t] # "off"
  <2> DEFINE S == {t \in Tasks : pc[t] = "off"}
  <2>1. SUFFICES ASSUME S # {} PROVE FALSE OBVIOUS
  <2>2. PICK t \in S : Earlier(StartOrder, t) \cap S = {} BY <2>1, FirstTask
  <2>3. Earlier(StartOrder, t) \subseteq started BY <2>2 DEF Earlier, StartedInv
  <2>q. QED BY <2>2, <2>3 DEF Ready
<1>3. started = Tasks BY <1>2 DEF StartedInv, IInv, TypeOK
<1>4. \A t \in Tasks : pc[t] = "wait" =>
        t = "dmesg" /\ "vmstat" \in Tasks /\ pc["vmstat"] = "send"
  <2> SUFFICES ASSUME NEW t \in Tasks, pc[t] = "wait"
      PROVE  t = "dmesg" /\ "vmstat" \in Tasks /\ pc["vmstat"] = "send"
    OBVIOUS
  <2>1. \E u \in WaitsFor(t) : wg[u] # 0 BY DEF Ready
  <2>2. t = "dmesg" /\ wg["vmstat"] # 0 BY <2>1 DEF WaitsFor
  <2>3. "vmstat" \in Tasks BY <2>2, TasksAssumption
  <2>4. pc["vmstat"] \in InRun BY <2>2, <2>3 DEF IInv, TaskInv
  <2>q. QED BY <1>1, <2>2, <2>3, <2>4 DEF InRun
<1>5. \A t \in Tasks : pc[t] # "send"
  <2> DEFINE S == {t \in Tasks : pc[t] = "send"}
  <2>1. SUFFICES ASSUME S # {} PROVE FALSE OBVIOUS
  <2>2. PICK t \in S : Earlier(ReadOrder, t) \cap S = {} BY <2>1, FirstTask
  <2>3. PICK u \in Earlier(ReadOrder, t) : u \notin received BY <1>3, <2>2 DEF Ready
  <2>4. u \in Tasks /\ pc[u] = "wait"
    <3>1. u \in Tasks /\ u \notin S BY <2>2, <2>3 DEF Earlier
    <3>2. pc[u] # "end" BY <2>3, <3>1 DEF IInv, TaskInv
    <3>q. QED BY <1>1, <1>2, <3>1, <3>2
  <2>5. u = "dmesg" /\ "vmstat" \in S BY <1>4, <2>4
  <2>6. Place(ReadOrder, "vmstat") < Place(ReadOrder, t)
    <3>1. Place(ReadOrder, "dmesg") < Place(ReadOrder, t) BY <2>3, <2>5 DEF Earlier
    <3>2. /\ Place(ReadOrder, "vmstat") \in 1..14 /\ Place(ReadOrder, "dmesg") \in 1..14
          /\ Place(ReadOrder, t) \in 1..14
      BY <2>2, <2>4, <2>5, PlaceIs
    <3>q. QED BY <3>1, <3>2, VmstatBeforeDmesg
  <2>7. "vmstat" \in Earlier(ReadOrder, t) BY <2>5, <2>6 DEF Earlier
  <2>q. QED BY <2>2, <2>5, <2>7
<1>q. QED BY <1>1, <1>2, <1>4, <1>5

\* Whatever tasks a capture starts, and however they fail, some goroutine can go on
\* until all of them have ended, or a panic the process: none is left sending
\* its result, and none waiting for vmstat.
THEOREM NoTaskStuck == Spec => []NoneStuck
BY SomeReady, StartedInvariant, Invariant, PTL

\* A step that leaves alone all there is about the other tasks.
LEMMA OthersStay ==
  ASSUME IInv, NEW t \in Tasks, NEW u \in Tasks \ {t},
         pc'[u] = pc[u], attempt'[u] = attempt[u], u \in running' <=> u \in running
  PROVE  Way(u)' = Way(u)
BY DEF Way

\* A task is further on after each of its steps.
LEMMA StepGoesFurther ==
  ASSUME IInv, NEW t \in Tasks,
         StartTask(t) \/ Receive(t) \/ Goroutine(t) \/ Exit(t)
  PROVE  Further(t)
<1> USE DEF IInv, TypeOK, Goto
<1>0. TaskInv(t) OBVIOUS
<1>1. \A u \in Tasks \ {t} : /\ pc'[u] = pc[u] /\ attempt'[u] = attempt[u]
                             /\ u \in running' <=> u \in running
  BY DEF StartTask, Receive, Goroutine, Look, Wait, InitWaitGroup, RunTask, Release, Create, Start,
         Await, Fallback, Post, Exit, command
<1>2. \A u \in Tasks \ {t} : Way(u)' = Way(u) BY <1>1, OthersStay
<1>3. CASE \/ StartTask(t) \/ Receive(t) \/ Look(t) \/ Wait(t) \/ InitWaitGroup(t) \/ RunTask(t)
           \/ Release(t) \/ Post(t)
  BY <1>2, <1>3 DEF Further, Way, StartTask, Receive, Look, Wait, InitWaitGroup, RunTask, Release,
     Post
<1>4. CASE Create(t) BY <1>2, <1>4 DEF Further, Way, Create
<1>5. CASE Start(t) BY <1>0, <1>2, <1>5 DEF Further, Way, Start, TaskInv, AfterFailure
<1>6. CASE Await(t)
  BY <1>0, <1>2, <1>6 DEF Further, Way, Await, TaskInv, AfterFailure, command
<1>7. CASE Fallback(t) BY <1>0, <1>2, <1>7 DEF Further, Way, Fallback, TaskInv, command
<1>8. CASE Exit(t) BY <1>0, <1>2, <1>8 DEF Further, Way, Exit, TaskInv
<1>q. QED BY <1>3, <1>4, <1>5, <1>6, <1>7, <1>8 DEF Goroutine

\* No step of a capture is ever repeated: each takes one task further on its way,
\* which is at most 15 steps long, and no other task back.
THEOREM NoStepTwice == Spec => OneGoesFurther /\ [](\A t \in Tasks : Way(t) \in 0..15)
<1>1. IInv /\ [Next]_vars => [\E t \in Tasks : Further(t)]_vars
  BY StepGoesFurther DEF Next, Step, Main
<1>2. IInv => \A t \in Tasks : Way(t) \in 0..15
  <2> SUFFICES ASSUME IInv, NEW t \in Tasks PROVE Way(t) \in 0..15 OBVIOUS
  <2>1. pc[t] \in {"off", "look", "wait", "init", "run", "create", "start", "await", "fallback",
                 "post", "send", "release", "end"}
    BY DEF IInv, TypeOK
  <2>q. QED BY <2>1 DEF Way
<1>q. QED BY <1>1, <1>2, Invariant, PTL DEF Spec, OneGoesFurther
==============================================================================
