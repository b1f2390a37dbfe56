----------------------------- MODULE AgentProofs -----------------------------
(***************************************************************************)
(* Proofs about the agent process, for any number of requests, processes,  *)
(* rounds of the m3 loop and seconds of the clock: the types, that what    *)
(* was registered when the process began to wait is cleaned up before it   *)
(* exits, and that in the modes agent.Run runs standalone no two captures  *)
(* overlap and each keeps to its own directory, log and zip file.          *)
(***************************************************************************)
EXTENDS Agent, FiniteSetTheorems, SequenceTheorems, TLAPS

\* The states in which a capture has added to ondemand.Wg and not yet left it.
WgStates == {"getwd", "chdir", "startLog", "capture", "sendLog", "stopLog", "restore",
             "zip", "remove", "release"}

\* ondemand.Wg counts the captures between Wg.Add and Wg.Done.
WgCounts == wg = IF config.deferDelete THEN Cardinality({r \in Runners : pc[r] \in WgStates})
                 ELSE 0

\* A capture in progress is one of those still to be made.
LeftCounts == \A r \in Runners : Capturing(r) => left[r] > 0

\* The m3 loop captures only while it processes the response of m3-fin.
LoopOff == m3.pc # "process" => pc[Loop] = "off"

TypeInv == TypeOK /\ WgCounts /\ LeftCounts /\ LoopOff

Types == CaptureStates \cup {"off", "next", "done"}

-----------------------------------------------------------------------------
LEMMA RunnersFinite == IsFiniteSet(Runners)
<1>1. IsFiniteSet({Main, Loop})
  <2>1. IsFiniteSet({Main}) /\ IsFiniteSet({Loop})
    BY FS_Singleton
  <2>2. {Main, Loop} = {Main} \cup {Loop}
    OBVIOUS
  <2>3. QED BY <2>1, <2>2, FS_Union
<1>2. QED BY <1>1, FS_Union, AgentAssumption DEF Runners

LEMMA ResolveType ==
  ASSUME TypeOK, NEW t \in Nat
  PROVE  Resolve(t) \in Path \cup {Gone}
BY DEF TypeOK, Resolve, Path, StorageDir

\* The directory tree keeps its types when one directory is removed.
LEMMA RemoveTreeType ==
  ASSUME TypeOK, NEW p \in Path \cup {Gone}, RemoveTree(p)
  PROVE  /\ dirs' \subseteq Path
         /\ files' \subseteq [dir : Path, for : Path \cup {Gone}]
         /\ cwd' \in Path \cup {Gone}
BY DEF TypeOK, RemoveTree

\* Popping the logger stack.
LEMMA PopLoggerType ==
  ASSUME TypeOK, NEW r \in Runners, PopLogger(r)
  PROVE  /\ logger' \in Runners \cup {Nobody}
         /\ stack' \in Seq([logger : Runners \cup {Nobody}, file : Runners])
         /\ closed' \subseteq Runners
         /\ hasLog' \in [Runners -> BOOLEAN]
<1> DEFINE Element == [logger : Runners \cup {Nobody}, file : Runners]
<1>1. stack \in Seq(Element) /\ stack # <<>> /\ Len(stack) \in Nat
  BY DEF TypeOK, PopLogger
<1> HIDE DEF Element
<1>2. Len(stack) \in 1..Len(stack) /\ stack[Len(stack)] \in Element
  BY <1>1
<1>3. SubSeq(stack, 1, Len(stack) - 1) \in Seq(Element)
  <2>1. \A i \in 1..(Len(stack) - 1) : stack[i] \in Element
    BY <1>1
  <2>2. QED BY <1>1, <1>2, <2>1
<1> USE DEF Element
<1>4. QED BY <1>1, <1>2, <1>3 DEF TypeOK, PopLogger

\* A step of one runner that neither enters nor leaves ondemand.Wg.
LEMMA GotoSame ==
  ASSUME TypeInv, NEW r \in Runners, NEW from \in Types, NEW to \in Types,
         Goto(r, from, to), from # "off", to # "off",
         from \in WgStates <=> to \in WgStates,
         to \in CaptureStates => left[r] > 0,
         UNCHANGED <<config, wg, left, m3>>
  PROVE  pc' \in [Runners -> Types] /\ WgCounts' /\ LeftCounts' /\ LoopOff'
<1> USE DEF TypeInv
<1>1. pc \in [Runners -> Types] /\ pc[r] = from /\ pc' = [pc EXCEPT ![r] = to]
  BY DEF Goto, TypeOK, Types
<1>2. \A q \in Runners : pc'[q] \in WgStates <=> pc[q] \in WgStates
  BY <1>1
<1>3. WgCounts'
  BY <1>2, {q \in Runners : pc'[q] \in WgStates} = {q \in Runners : pc[q] \in WgStates}
  DEF WgCounts
<1>4. LeftCounts'
  BY <1>1 DEF LeftCounts, Capturing
<1>5. LoopOff'
  BY <1>1 DEF LoopOff
<1>6. QED BY <1>1, <1>3, <1>4, <1>5

\* Wg.Add(1) of one runner.
LEMMA GotoEnter ==
  ASSUME TypeInv, NEW r \in Runners, Goto(r, "register", "getwd"),
         wg' = (IF config.deferDelete THEN wg + 1 ELSE wg),
         UNCHANGED <<config, left, m3>>
  PROVE  wg' \in Nat /\ pc' \in [Runners -> Types] /\ WgCounts' /\ LeftCounts' /\ LoopOff'
<1> USE DEF TypeInv
<1> DEFINE In == {q \in Runners : pc[q] \in WgStates}
<1>1. pc \in [Runners -> Types] /\ pc[r] = "register" /\ pc' = [pc EXCEPT ![r] = "getwd"]
  BY DEF Goto, TypeOK, Types
<1>2. {q \in Runners : pc'[q] \in WgStates} = In \cup {r} /\ r \notin In
  BY <1>1 DEF WgStates
<1>3. IsFiniteSet(In)
  BY RunnersFinite, FS_Subset
<1>4. Cardinality(In \cup {r}) = Cardinality(In) + 1 /\ Cardinality(In) \in Nat
  BY <1>2, <1>3, FS_AddElement, FS_CardinalityType
<1>5. wg' \in Nat /\ WgCounts'
  <2> DEFINE After == {q \in Runners : pc'[q] \in WgStates}
  <2>1. wg = IF config.deferDelete THEN Cardinality(In) ELSE 0
    BY DEF WgCounts
  <2>2. wg' = IF config.deferDelete THEN Cardinality(After) ELSE 0
    BY <1>2, <1>4, <2>1
  <2>3. QED BY <1>2, <1>4, <2>2 DEF WgCounts
<1>6. LeftCounts' /\ LoopOff'
  BY <1>1 DEF LeftCounts, LoopOff, Capturing, CaptureStates
<1>7. QED BY <1>1, <1>5, <1>6 DEF Types, CaptureStates

\* Wg.Done of one runner.
LEMMA GotoLeave ==
  ASSUME TypeInv, NEW r \in Runners, Goto(r, "release", "return"),
         wg' = (IF config.deferDelete THEN wg - 1 ELSE wg),
         UNCHANGED <<config, left, m3>>
  PROVE  wg' \in Nat /\ pc' \in [Runners -> Types] /\ WgCounts' /\ LeftCounts' /\ LoopOff'
<1> USE DEF TypeInv
<1> DEFINE In == {q \in Runners : pc[q] \in WgStates}
<1>1. pc \in [Runners -> Types] /\ pc[r] = "release" /\ pc' = [pc EXCEPT ![r] = "return"]
  BY DEF Goto, TypeOK, Types
<1>2. {q \in Runners : pc'[q] \in WgStates} = In \ {r} /\ r \in In
  BY <1>1 DEF WgStates
<1>3. IsFiniteSet(In)
  BY RunnersFinite, FS_Subset
<1>4. Cardinality(In \ {r}) = Cardinality(In) - 1 /\ Cardinality(In) \in Nat \ {0}
  BY <1>2, <1>3, FS_RemoveElement, FS_CardinalityType, FS_EmptySet
<1>5. wg' \in Nat /\ WgCounts'
  <2> DEFINE After == {q \in Runners : pc'[q] \in WgStates}
  <2>1. wg = IF config.deferDelete THEN Cardinality(In) ELSE 0
    BY DEF WgCounts
  <2>2. wg' = IF config.deferDelete THEN Cardinality(After) ELSE 0
    BY <1>2, <1>4, <2>1
  <2>3. QED BY <1>2, <1>4, <2>2 DEF WgCounts
<1>6. LeftCounts' /\ LoopOff'
  BY <1>1 DEF LeftCounts, LoopOff, Capturing, CaptureStates
<1>7. QED BY <1>1, <1>5, <1>6 DEF Types, CaptureStates

-----------------------------------------------------------------------------
LEMMA TypeInit == Init => TypeInv
<1> SUFFICES ASSUME Init PROVE TypeInv
  OBVIOUS
<1>1. {r \in Runners : pc[r] \in WgStates} = {} /\ WgCounts
  BY FS_EmptySet, AgentAssumption DEF Init, WgCounts, WgStates
<1>2. LeftCounts /\ LoopOff
  BY AgentAssumption DEF Init, LeftCounts, LoopOff, Capturing, CaptureStates, Runners
<1>3. TypeOK
  <2>1. config \in Config
    BY AgentAssumption DEF Init, Config
  <2>2. left \in [Runners -> Nat]
    BY <2>1 DEF Init, Config
  <2>3. QED BY <2>1, <2>2, AgentAssumption DEF Init, TypeOK, Path, StartDir, StorageDir, Runners
<1>4. QED BY <1>1, <1>2, <1>3 DEF TypeInv

\* The steps of a capture, from the first to the last.
LEMMA TypeFullCapture ==
  ASSUME TypeInv, NEW r \in Runners, FullCapture(r)
  PROVE  TypeInv'
<1> USE DEF TypeInv
<1> DEFINE Keeps == pc' \in [Runners -> Types] /\ WgCounts' /\ LeftCounts' /\ LoopOff'
<1>0. /\ ts[r] \in Nat /\ left[r] \in Nat /\ pc[r] \in Types
      /\ Resolve(ts[r]) \in Path \cup {Gone}
      /\ saved[r] \in Path \cup {Gone} /\ own[r] \in Path \cup {Gone}
  BY ResolveType DEF TypeOK, Types
<1>left. pc[r] \in CaptureStates => left[r] > 0
  BY DEF LeftCounts, Capturing
<1>1. ASSUME Begin(r) PROVE TypeInv'
  <2>1. Keeps
    BY <1>1, GotoSame DEF Begin, proc, WgStates, Types, CaptureStates, Goto
  <2>2. one' \in Requests \cup {Nobody}
    BY <1>1 DEF Begin, TypeOK
  <2>3. /\ ts' \in [Runners -> Nat] /\ own' \in [Runners -> Path \cup {Gone}]
        /\ UNCHANGED <<config, now, phase, waiter, awaited, wg, cwd, dirs, files, zips,
                       logger, stack, closed, hasLog, left, saved, m3>>
    BY <1>1 DEF Begin, TypeOK, proc, exit, fs, logs
  <2>4. QED BY <2>1, <2>2, <2>3 DEF TypeOK, Types
<1>2. ASSUME Mkdir(r) PROVE TypeInv'
  <2>1. Keeps
    BY <1>0, <1>left, <1>2, GotoSame DEF Mkdir, proc, WgStates, Types, CaptureStates, Goto
  <2>2. dirs' \subseteq Path /\ own' \in [Runners -> Path \cup {Gone}]
    <3>1. CASE UNCHANGED <<fs, frame>>
      BY <3>1 DEF TypeOK, fs, frame
    <3>2. CASE ~UNCHANGED <<fs, frame>>
      <4>1. /\ Resolve(ts[r]) # Gone
            /\ dirs' = dirs \cup {Resolve(ts[r])}
            /\ own' = [own EXCEPT ![r] = Resolve(ts[r])]
        BY <1>2, <3>2 DEF Mkdir, CanMkdir
      <4>2. QED BY <1>0, <4>1 DEF TypeOK
    <3>3. QED BY <3>1, <3>2
  <2>3. UNCHANGED <<config, now, phase, waiter, awaited, wg, one, cwd, files, zips,
                    logger, stack, closed, hasLog, left, ts, saved, m3>>
    BY <1>2 DEF Mkdir, proc, exit, fs, logs, frame
  <2>4. QED BY <2>1, <2>2, <2>3 DEF TypeOK, Types
<1>3. ASSUME Getwd(r) PROVE TypeInv'
  <2>1. Keeps
    BY <1>0, <1>left, <1>3, GotoSame DEF Getwd, proc, WgStates, Types, CaptureStates, Goto
  <2>2. saved' \in [Runners -> Path \cup {Gone}] /\ own' \in [Runners -> Path \cup {Gone}]
    <3>1. CASE UNCHANGED frame
      BY <3>1 DEF TypeOK, frame
    <3>2. CASE /\ saved' = [saved EXCEPT ![r] = cwd]
               /\ own' = IF config.m3 THEN [own EXCEPT ![r] = cwd] ELSE own
      <4>1. cwd \in Path \cup {Gone}
        BY DEF TypeOK
      <4>2. QED BY <3>2, <4>1 DEF TypeOK
    <3>3. QED BY <1>3, <3>1, <3>2 DEF Getwd
  <2>3. UNCHANGED <<config, now, phase, waiter, awaited, wg, one, cwd, dirs, files, zips,
                    logger, stack, closed, hasLog, left, ts, m3>>
    BY <1>3 DEF Getwd, proc, exit, fs, logs, frame
  <2>4. QED BY <2>1, <2>2, <2>3 DEF TypeOK, Types
<1>4. ASSUME EnterDir(r) PROVE TypeInv'
  <2>1. Keeps
    BY <1>0, <1>left, <1>4, GotoSame DEF EnterDir, proc, WgStates, Types, CaptureStates, Goto
  <2>2. QED BY <1>0, <1>4, <2>1 DEF EnterDir, TypeOK, Types, proc, exit, fs, logs, frame, Chdir
<1>5. ASSUME StartLog(r) PROVE TypeInv'
  <2>1. Keeps
    BY <1>0, <1>left, <1>5, GotoSame DEF StartLog, proc, WgStates, Types, CaptureStates, Goto
  <2>2. CASE UNCHANGED logs
    BY <1>5, <2>1, <2>2 DEF StartLog, TypeOK, Types, proc, exit, fs, logs, frame
  <2>3. CASE /\ stack' = Append(stack, [logger |-> logger, file |-> r]) /\ logger' = r
             /\ closed' = closed \ {r} /\ hasLog' = [hasLog EXCEPT ![r] = TRUE]
    <3>1. stack' \in Seq([logger : Runners \cup {Nobody}, file : Runners])
      <4>1. [logger |-> logger, file |-> r] \in [logger : Runners \cup {Nobody}, file : Runners]
        BY DEF TypeOK
      <4>2. QED BY <2>3, <4>1 DEF TypeOK
    <3>2. UNCHANGED <<config, now, phase, waiter, awaited, wg, one, cwd, dirs, files, zips,
                      left, ts, saved, own, m3>>
      BY <1>5 DEF StartLog, proc, exit, fs, logs, frame
    <3>3. QED BY <2>1, <2>3, <3>1, <3>2 DEF TypeOK, Types
  <2>4. QED BY <1>5, <2>2, <2>3 DEF StartLog
<1>6. ASSUME WriteArtifact(r) PROVE TypeInv'
  <2>1. Keeps
    BY <1>0, <1>left, <1>6, GotoSame DEF WriteArtifact, proc, WgStates, Types, CaptureStates, Goto
  <2>2. QED BY <1>0, <1>6, <2>1 DEF WriteArtifact, TypeOK, Types, proc, exit, fs, logs, frame
<1>7. ASSUME Finish(r) PROVE TypeInv'
  <2>1. Keeps
    BY <1>0, <1>left, <1>7, GotoSame DEF Finish, proc, WgStates, Types, CaptureStates, Goto
  <2>2. QED BY <1>0, <1>7, <2>1 DEF Finish, TypeOK, Types, proc, exit, fs, logs, frame
<1>8. ASSUME SendLog(r) PROVE TypeInv'
  <2>1. Keeps
    BY <1>0, <1>left, <1>8, GotoSame DEF SendLog, proc, WgStates, Types, CaptureStates, Goto
  <2>2. UNCHANGED <<config, now, phase, waiter, awaited, wg, one, cwd, dirs, files, zips,
                    left, ts, saved, own, m3>>
    BY <1>8 DEF SendLog, proc, exit, fs, frame
  <2>3. QED BY <1>8, <2>1, <2>2, PopLoggerType DEF SendLog, TypeOK, Types
<1>9. ASSUME StopLog(r) PROVE TypeInv'
  <2>1. Keeps
    BY <1>0, <1>left, <1>9, GotoSame DEF StopLog, proc, WgStates, Types, CaptureStates, Goto
  <2>2. UNCHANGED <<config, now, phase, waiter, awaited, wg, one, cwd, dirs, files, zips,
                    left, ts, saved, own, m3>>
    BY <1>9 DEF StopLog, proc, exit, fs, frame
  <2>3. CASE UNCHANGED logs
    BY <2>1, <2>2, <2>3 DEF TypeOK, Types, logs
  <2>4. CASE PopLogger(r)
    <3>1. /\ logger' \in Runners \cup {Nobody} /\ closed' \subseteq Runners
          /\ stack' \in Seq([logger : Runners \cup {Nobody}, file : Runners])
          /\ hasLog' \in [Runners -> BOOLEAN]
      BY <2>4, PopLoggerType
    <3>2. QED BY <2>1, <2>2, <3>1 DEF TypeOK, Types
  <2>5. QED BY <1>9, <2>3, <2>4 DEF StopLog
<1>10. ASSUME Restore(r) PROVE TypeInv'
  <2>1. Keeps
    BY <1>0, <1>left, <1>10, GotoSame DEF Restore, proc, WgStates, Types, CaptureStates, Goto
  <2>2. QED BY <1>0, <1>10, <2>1 DEF Restore, TypeOK, Types, proc, exit, fs, logs, frame, Chdir
<1>11. ASSUME Zip(r) PROVE TypeInv'
  <2>1. Keeps
    BY <1>0, <1>left, <1>11, GotoSame DEF Zip, proc, WgStates, Types, CaptureStates, Goto
  <2>2. QED BY <1>0, <1>11, <2>1 DEF Zip, TypeOK, Types, proc, exit, fs, logs, frame
<1>12. ASSUME Remove(r) PROVE TypeInv'
  <2>1. Keeps
    BY <1>0, <1>left, <1>12, GotoSame DEF Remove, proc, WgStates, Types, CaptureStates, Goto
  <2>2. QED BY <1>0, <1>12, <2>1, RemoveTreeType DEF Remove, TypeOK, Types, proc, exit, fs, logs, frame
<1>13. ASSUME Register(r) PROVE TypeInv'
  <2>1. wg' \in Nat /\ Keeps
    BY <1>13, GotoEnter DEF Register, proc
  <2>2. QED BY <1>13, <2>1 DEF Register, TypeOK, Types, proc, exit, fs, logs, frame
<1>14. ASSUME Release(r) PROVE TypeInv'
  <2>1. wg' \in Nat /\ Keeps
    BY <1>14, GotoLeave DEF Release, proc
  <2>2. QED BY <1>14, <2>1 DEF Release, TypeOK, Types, proc, fs, logs, frame
<1>15. ASSUME Return(r) PROVE TypeInv'
  <2>1. left[r] > 0 /\ pc[r] = "return" /\ pc' = [pc EXCEPT ![r] = "next"]
        /\ left' = [left EXCEPT ![r] = left[r] - 1]
    BY <1>15, <1>left DEF Return, Goto, CaptureStates
  <2>2. pc' \in [Runners -> Types] /\ left' \in [Runners -> Nat]
    BY <1>0, <2>1 DEF TypeOK, Types
  <2>3. LeftCounts' /\ LoopOff'
    BY <1>15, <2>1 DEF Return, LeftCounts, LoopOff, Capturing, CaptureStates, TypeOK
  <2>4. WgCounts'
    <3>1. \A q \in Runners : pc'[q] \in WgStates <=> pc[q] \in WgStates
      BY <2>1 DEF TypeOK, WgStates
    <3>2. {q \in Runners : pc'[q] \in WgStates} = {q \in Runners : pc[q] \in WgStates}
      BY <3>1
    <3>3. QED BY <1>15, <3>2 DEF Return, WgCounts, proc
  <2>5. QED BY <1>0, <1>15, <2>2, <2>3, <2>4 DEF Return, TypeOK, Types, proc, exit, fs, logs
<1>16. QED BY <1>1, <1>2, <1>3, <1>4, <1>5, <1>6, <1>7, <1>8, <1>9, <1>10, <1>11, <1>12, <1>13, <1>14, <1>15 DEF FullCapture

\* The handlers of the action API.
LEMMA TypeRequests ==
  ASSUME TypeInv, NEW r \in Runners, Arrive(r) \/ Respond(r)
  PROVE  TypeInv'
<1> USE DEF TypeInv
<1>1. CASE Arrive(r)
  <2>1. /\ pc[r] = "off" /\ pc' = [pc EXCEPT ![r] = "next"] /\ r # Loop
        /\ left' = [left EXCEPT ![r] = PidsPerRequest]
        /\ UNCHANGED <<config, now, phase, waiter, awaited, wg, one, cwd, dirs, files, zips,
                       logger, stack, closed, hasLog, ts, saved, own, m3>>
    BY <1>1, AgentAssumption DEF Arrive, Goto, proc, exit, fs, logs, frame
  <2>2. WgCounts'
    <3>1. \A q \in Runners : pc'[q] \in WgStates <=> pc[q] \in WgStates
      BY <2>1 DEF TypeOK, WgStates
    <3>2. {q \in Runners : pc'[q] \in WgStates} = {q \in Runners : pc[q] \in WgStates}
      BY <3>1
    <3>3. QED BY <2>1, <3>2 DEF WgCounts
  <2>3. LeftCounts' /\ LoopOff'
    BY <2>1 DEF LeftCounts, LoopOff, Capturing, CaptureStates, TypeOK
  <2>4. pc' \in [Runners -> Types] /\ left' \in [Runners -> Nat]
    BY <2>1, AgentAssumption DEF TypeOK, Types
  <2>5. QED BY <2>1, <2>2, <2>3, <2>4 DEF TypeOK, Types
<1>2. CASE Respond(r)
  <2>1. pc' \in [Runners -> Types] /\ WgCounts' /\ LeftCounts' /\ LoopOff'
    BY <1>2, GotoSame DEF Respond, proc, WgStates, Types, CaptureStates, Goto
  <2>2. QED BY <1>2, <2>1 DEF Respond, TypeOK, Types, proc, exit, fs, logs, frame
<1>3. QED BY <1>1, <1>2

M3States == {"off", "sleep", "mkdir", "getwd", "chdir", "collect", "process", "restore", "remove"}
M3Frames == [pc : M3States, ts : Nat, saved : Path \cup {Gone}, own : Path \cup {Gone}, round : Nat]

\* A step of RunSingle leaves the captures alone, unless it starts or ends those
\* that m3-fin asked for.
LEMMA TypeRunSingle ==
  ASSUME TypeInv, RunSingle
  PROVE  TypeInv'
<1> USE DEF TypeInv
<1>0. /\ m3 \in M3Frames
      /\ Resolve(m3.ts) \in Path \cup {Gone}
  BY ResolveType DEF TypeOK, M3Frames, M3States
<1>1. m3' \in M3Frames
  <2>1. ASSUME NEW from \in M3States, NEW to \in M3States, M3Goto(from, to) PROVE m3' \in M3Frames
    BY <1>0, <2>1 DEF M3Goto, M3Frames
  <2>2. CASE M3Begin
    <3>1. m3' = [m3 EXCEPT !.pc = "mkdir", !.ts = now, !.round = m3.round + 1] /\ now \in Nat
      BY <2>2 DEF M3Begin, TypeOK
    <3>2. m3.round + 1 \in Nat
      BY <1>0 DEF M3Frames
    <3>3. QED BY <1>0, <3>1, <3>2 DEF M3Frames, M3States
  <2>3. CASE M3Mkdir
    BY <1>0, <2>1, <2>3 DEF M3Mkdir, CanMkdir, M3Frames, M3States
  <2>4. CASE M3Getwd
    BY <1>0, <2>4 DEF M3Getwd, M3Frames, M3States, TypeOK
  <2>5. CASE M3Remove
    BY <1>0, <2>5 DEF M3Remove, M3Frames, M3States
  <2>6. QED BY <2>1, <2>2, <2>3, <2>4, <2>5
        DEF RunSingle, M3EnterDir, M3WriteArtifact, M3Fin, M3Processed, M3Restore, M3States
<1>2. /\ dirs' \subseteq Path
      /\ files' \subseteq [dir : Path, for : Path \cup {Gone}]
      /\ cwd' \in Path \cup {Gone}
  <2>1. CASE UNCHANGED fs
    BY <2>1 DEF fs, TypeOK
  <2>2. CASE M3Mkdir
    BY <1>0, <2>2 DEF M3Mkdir, CanMkdir, TypeOK, fs
  <2>3. CASE M3EnterDir \/ M3Restore
    BY <1>0, <2>3 DEF M3EnterDir, M3Restore, Chdir, TypeOK, fs
  <2>4. CASE M3WriteArtifact
    BY <1>0, <2>4 DEF M3WriteArtifact, M3Frames, TypeOK
  <2>5. CASE M3Remove
    BY <1>0, <2>5, RemoveTreeType DEF M3Remove, TypeOK
  <2>6. QED BY <2>1, <2>2, <2>3, <2>4, <2>5 DEF RunSingle, M3Begin, M3Getwd, M3Fin, M3Processed
<1>3. UNCHANGED <<config, now, phase, waiter, awaited, wg, one, zips, logger, stack, closed,
                  hasLog, ts, saved, own>>
  BY DEF RunSingle, M3Begin, M3Mkdir, M3Getwd, M3EnterDir, M3WriteArtifact, M3Fin,
         M3Processed, M3Restore, M3Remove, proc, exit, fs, logs, frame
<1>4. /\ pc' \in [Runners -> Types] /\ left' \in [Runners -> Nat] /\ LoopOff'
      /\ \A q \in Runners : pc'[q] # pc[q] => q = Loop /\ ~(pc[q] \in CaptureStates)
                                            /\ ~(pc'[q] \in CaptureStates)
      /\ \A q \in Runners : left'[q] # left[q] => q = Loop /\ ~(pc[q] \in CaptureStates)
  <2>1. CASE UNCHANGED <<pc, left>> /\ (m3.pc = "process" => m3'.pc = "process")
    BY <2>1 DEF TypeOK, Types, LoopOff
  <2>2. CASE M3Fin
    <3>1. m3.pc = "collect" /\ m3'.pc \in {"restore", "process"}
      BY <1>0, <2>2 DEF M3Fin, M3Goto, M3Frames
    <3>2. pc[Loop] = "off"
      BY <3>1 DEF LoopOff
    <3>3. CASE UNCHANGED <<pc, left>>
      BY <3>2, <3>3 DEF TypeOK, Types, LoopOff
    <3>4. CASE ~UNCHANGED <<pc, left>>
      <4>1. PICK n \in 0..MaxFinPids : /\ M3Goto("collect", "process")
                                       /\ pc' = [pc EXCEPT ![Loop] = "next"]
                                       /\ left' = [left EXCEPT ![Loop] = n]
        BY <2>2, <3>4 DEF M3Fin
      <4>2. m3'.pc = "process" /\ n \in Nat
        BY <1>0, <4>1, AgentAssumption DEF M3Goto, M3Frames
      <4>3. QED BY <3>2, <4>1, <4>2 DEF TypeOK, Types, LoopOff, CaptureStates
    <3>5. QED BY <3>3, <3>4
  <2>3. CASE M3Processed
    <3>1. pc[Loop] = "next" /\ pc' = [pc EXCEPT ![Loop] = "off"] /\ UNCHANGED left
      BY <2>3 DEF M3Processed
    <3>2. pc' \in [Runners -> Types] /\ left' \in [Runners -> Nat]
      BY <3>1 DEF TypeOK, Types
    <3>3. QED BY <3>1, <3>2 DEF TypeOK, LoopOff, CaptureStates, Runners
  <2>4. CASE ~M3Fin /\ ~M3Processed
    <3>1. UNCHANGED <<pc, left>> /\ m3.pc # "process"
      BY <2>4 DEF RunSingle, M3Begin, M3Mkdir, M3Getwd, M3EnterDir, M3WriteArtifact,
                  M3Restore, M3Remove, M3Goto, fs, frame
    <3>2. QED BY <2>1, <3>1
  <2>5. QED BY <2>2, <2>3, <2>4
<1>5. WgCounts' /\ LeftCounts'
  <2>1. \A q \in Runners : pc'[q] \in WgStates <=> pc[q] \in WgStates
    BY <1>4 DEF WgStates, CaptureStates
  <2>2. {q \in Runners : pc'[q] \in WgStates} = {q \in Runners : pc[q] \in WgStates}
    BY <2>1
  <2>3. WgCounts'
    BY <1>3, <2>2 DEF WgCounts
  <2>4. LeftCounts'
    <3> SUFFICES ASSUME NEW q \in Runners, pc'[q] \in CaptureStates PROVE left'[q] > 0
      BY DEF LeftCounts, Capturing
    <3>1. pc'[q] = pc[q] /\ left'[q] = left[q]
      BY <1>4
    <3>2. QED BY <3>1 DEF LeftCounts, Capturing
  <2>5. QED BY <2>3, <2>4
<1>6. QED BY <1>1, <1>2, <1>3, <1>4, <1>5 DEF TypeOK, Types, M3Frames, M3States

\* The steps of the process as a whole leave every capture alone.
LEMMA TypeProcess ==
  ASSUME TypeInv, Signal \/ MainCompleted \/ Shutdown \/ Tick \/ UNCHANGED vars
  PROVE  TypeInv'
<1> USE DEF TypeInv
<1>1. UNCHANGED <<config, wg, one, cwd, dirs, files, zips, logger, stack, closed, hasLog,
                  pc, left, ts, saved, own, m3>>
  BY DEF Signal, MainCompleted, Shutdown, Wait, Wake, Exit, Tick, vars, proc, exit, fs, logs, frame
<1>2. /\ now' \in Nat
      /\ phase' \in {"running", "draining", "cleaning", "exited", "panicked"}
      /\ waiter' \in {"none", "waiting", "woken"}
      /\ awaited' \subseteq Runners
  BY DEF Signal, MainCompleted, Shutdown, Wait, Wake, Exit, Tick, vars, proc, exit, TypeOK
<1>3. WgCounts' /\ LeftCounts' /\ LoopOff'
  BY <1>1 DEF WgCounts, LeftCounts, LoopOff, Capturing
<1>4. QED BY <1>1, <1>2, <1>3 DEF TypeOK

LEMMA TypeStep == TypeInv /\ [Next]_vars => TypeInv'
BY TypeFullCapture, TypeRequests, TypeRunSingle, TypeProcess DEF Next, Ended

\* The variables keep their types; above all ondemand.Wg never goes below zero
\* (sync.WaitGroup would panic): every Done of a capture follows its own Add.
THEOREM TypeCorrect == Spec => []TypeOK
<1>1. TypeInv => TypeOK
  BY DEF TypeInv
<1>2. QED BY <1>1, TypeInit, TypeStep, PTL DEF Spec

-----------------------------------------------------------------------------
\* A mode that is not on does not capture.
ModesOff == /\ ~OnDemandMode => pc[Main] = "off"
            /\ ~M3Mode => m3.pc = "off"
            /\ ~config.port => \A r \in Requests : pc[r] = "off"

\* The request that captures, and it alone, holds `one`.
HoldsOne == \A r \in Requests : Capturing(r) <=> one = r

OneInv == TypeInv /\ ModesOff /\ HoldsOne

LEMMA OneInit == Init => OneInv
<1> SUFFICES ASSUME Init PROVE ModesOff /\ HoldsOne
  BY TypeInit DEF OneInv
<1>1. ModesOff
  BY AgentAssumption DEF Init, ModesOff, OnDemandMode, M3Mode, Runners
<1>2. HoldsOne
  BY AgentAssumption DEF Init, HoldsOne, Capturing, CaptureStates, Runners
<1>3. QED BY <1>1, <1>2

LEMMA OneStep == OneInv /\ [Next]_vars => OneInv'
<1> SUFFICES ASSUME OneInv, [Next]_vars PROVE ModesOff' /\ HoldsOne'
  BY TypeStep DEF OneInv
<1> USE DEF OneInv
<1>0. pc \in [Runners -> Types] /\ Requests \subseteq Runners /\ Main \notin Requests
      /\ Loop \notin Requests /\ Nobody \notin Requests /\ Main # Loop
  BY AgentAssumption DEF TypeInv, TypeOK, Types, Runners
<1>1. ASSUME NEW r \in Runners, FullCapture(r) PROVE ModesOff' /\ HoldsOne'
  <2>1. pc[r] # "off" /\ UNCHANGED <<config, m3>> /\ \A q \in Runners : q # r => pc'[q] = pc[q]
    BY <1>0, <1>1 DEF FullCapture, Begin, Mkdir, Register, Getwd, EnterDir, StartLog,
       WriteArtifact, Finish, SendLog, StopLog, Restore, Zip, Remove, Release, Return, Goto, proc
  <2>2. ModesOff'
    BY <1>0, <2>1 DEF ModesOff, OnDemandMode, M3Mode, Runners
  <2>3. CASE Begin(r)
    <3>1. pc[r] = "next" /\ Capturing(r)' /\ ~Capturing(r)
      BY <1>0, <2>3 DEF Begin, Goto, Capturing, CaptureStates
    <3>2. \A q \in Requests : q # r => (Capturing(q)' <=> Capturing(q))
      BY <1>0, <2>1 DEF Capturing
    <3>3. CASE r \in Requests
      <4>1. one = Nobody /\ one' = r
        BY <2>3, <3>3 DEF Begin
      <4>2. \A q \in Requests : q # r => ~Capturing(q)
        BY <1>0, <4>1 DEF HoldsOne
      <4>3. QED BY <2>2, <3>1, <3>2, <4>1, <4>2 DEF HoldsOne
    <3>4. CASE r \notin Requests
      <4>1. one' = one
        BY <2>3, <3>4 DEF Begin
      <4>2. QED BY <2>2, <3>2, <3>4, <4>1 DEF HoldsOne
    <3>5. QED BY <3>3, <3>4
  <2>4. CASE Return(r)
    <3>1. Capturing(r) /\ ~Capturing(r)' /\ one' = (IF one = r THEN Nobody ELSE one)
      BY <1>0, <2>4 DEF Return, Goto, Capturing, CaptureStates
    <3>2. QED BY <1>0, <2>1, <2>2, <3>1 DEF HoldsOne, Capturing
  <2>5. CASE ~Begin(r) /\ ~Return(r)
    <3>1. UNCHANGED one /\ Capturing(r) /\ Capturing(r)'
      BY <1>0, <1>1, <2>5 DEF FullCapture, Mkdir, Register, Getwd, EnterDir, StartLog,
         WriteArtifact, Finish, SendLog, StopLog, Restore, Zip, Remove, Release, Goto,
         Capturing, CaptureStates
    <3>2. QED BY <1>0, <2>1, <2>2, <3>1 DEF HoldsOne, Capturing
  <2>6. QED BY <2>3, <2>4, <2>5
<1>2. ASSUME NEW r \in Runners, Arrive(r) \/ Respond(r) PROVE ModesOff' /\ HoldsOne'
  BY <1>0, <1>2 DEF Arrive, Respond, Goto, ModesOff, OnDemandMode, M3Mode, HoldsOne,
     Capturing, CaptureStates, Runners, proc
<1>3. CASE RunSingle
  <2>1. m3.pc # "off" /\ UNCHANGED <<config, one>> /\ \A q \in Runners : q # Loop => pc'[q] = pc[q]
    BY <1>0, <1>3 DEF RunSingle, M3Begin, M3Mkdir, M3Getwd, M3EnterDir, M3WriteArtifact, M3Fin,
       M3Processed, M3Restore, M3Remove, M3Goto, Runners, proc
  <2>2. QED BY <1>0, <2>1 DEF ModesOff, OnDemandMode, M3Mode, HoldsOne, Capturing, Runners
<1>4. CASE Signal \/ MainCompleted \/ Shutdown \/ Tick \/ UNCHANGED vars
  BY <1>4 DEF Signal, MainCompleted, Shutdown, Wait, Wake, Exit, Tick, vars, proc, ModesOff,
     OnDemandMode, M3Mode, HoldsOne, Capturing
<1>5. QED BY <1>1, <1>2, <1>3, <1>4 DEF Next, Ended

LEMMA OneOfAll == OneInv => (StandaloneMode => OneCapture)
<1> SUFFICES ASSUME OneInv, StandaloneMode PROVE OneCapture
  OBVIOUS
<1>1. ~Capturing(Main) \/ ~Capturing(Loop)
  BY DEF OneInv, ModesOff, TypeInv, LoopOff, M3Mode, Capturing, CaptureStates
<1>2. \/ ~Capturing(Main) /\ ~Capturing(Loop)
      \/ \A r \in Requests : ~Capturing(r)
  BY DEF StandaloneMode, OneInv, ModesOff, TypeInv, LoopOff, M3Mode, Capturing, CaptureStates
<1>3. \A r, s \in Requests : Capturing(r) /\ Capturing(s) => r = s
  BY DEF OneInv, HoldsOne
<1>4. QED BY <1>1, <1>2, <1>3 DEF OneCapture, Runners

\* "only one goroutine can run the capture process": in the modes the agent runs
\* standalone (on-demand, m3, or the API without m3) no two captures are ever in
\* progress together, however many requests compete.
THEOREM OneCaptureAtATime == Spec => [](StandaloneMode => OneCapture)
BY OneInit, OneStep, OneOfAll, PTL DEF Spec

-----------------------------------------------------------------------------
\* What Wg.Wait found registered is still on its way to the removal of its
\* directory, and nothing of it is left once the process goes on to exit.
AwaitedInv == /\ \A r \in awaited : Registered(r)
              /\ ExitAfterCleanup

\* A counter of zero means that no capture is registered.
LEMMA NoneRegistered ==
  ASSUME TypeInv, wg = 0
  PROVE  {r \in Runners : Registered(r)} = {}
<1> DEFINE S == {r \in Runners : pc[r] \in WgStates}
<1>1. IsFiniteSet(S) BY RunnersFinite, FS_Subset
<1>2. config.deferDelete => Cardinality(S) = 0 BY DEF TypeInv, WgCounts
<1>3. config.deferDelete => S = {} BY <1>1, <1>2, FS_EmptySet
<1>q. QED BY <1>3 DEF Registered, WgStates

\* Shutdown waits on ondemand.Wg: a capture that is registered in it
\* when a signal or the end of the on-demand loop makes the process wait has removed
\* its directory before the process exits.
THEOREM ExitsAfterCleanup == Spec => []ExitAfterCleanup
<1>1. Init => AwaitedInv BY DEF Init, AwaitedInv, ExitAfterCleanup
<1>2. TypeInv /\ AwaitedInv /\ [Next]_vars => AwaitedInv'
  <2> SUFFICES ASSUME TypeInv, AwaitedInv, [Next]_vars PROVE AwaitedInv' OBVIOUS
  <2>0. pc \in [Runners -> Types] /\ awaited \subseteq Runners
    BY DEF TypeInv, TypeOK, Types
  <2>1. ASSUME NEW r \in Runners, FullCapture(r) PROVE AwaitedInv'
    <3>1. UNCHANGED <<config, phase>>
          /\ (\A q \in Runners : q # r => pc'[q] = pc[q])
          /\ (awaited' = awaited \/ awaited' = awaited \ {r})
      BY <2>0, <2>1 DEF FullCapture, Begin, Mkdir, Register, Getwd, EnterDir, StartLog,
         WriteArtifact, Finish, SendLog, StopLog, Restore, Zip, Remove, Release, Return, Goto,
         proc, exit
    <3>2. Registered(r) => Registered(r)' \/ r \notin awaited'
      BY <2>0, <2>1, <3>1 DEF FullCapture, Begin, Mkdir, Register, Getwd, EnterDir, StartLog,
         WriteArtifact, Finish, SendLog, StopLog, Restore, Zip, Remove, Release, Return, Goto,
         Registered
    <3>3. ASSUME NEW q \in awaited' PROVE Registered(q)'
      <4>1. q \in awaited /\ Registered(q) BY <3>1, <3>3 DEF AwaitedInv
      <4>q. QED BY <2>0, <3>1, <3>2, <4>1 DEF Registered
    <3>q. QED BY <3>1, <3>3 DEF AwaitedInv, ExitAfterCleanup
  <2>2. ASSUME NEW r \in Runners, Arrive(r) \/ Respond(r) PROVE AwaitedInv'
    BY <2>0, <2>2 DEF Arrive, Respond, Goto, proc, exit, AwaitedInv, ExitAfterCleanup, Registered
  <2>3. CASE RunSingle
    <3>1. UNCHANGED <<config, phase, awaited>>
          /\ \A q \in Runners : Registered(q) => pc'[q] = pc[q]
      BY <2>0, <2>3 DEF RunSingle, M3Begin, M3Mkdir, M3Getwd, M3EnterDir, M3WriteArtifact, M3Fin,
         M3Processed, M3Restore, M3Remove, M3Goto, proc, exit, Registered, TypeInv, LoopOff
    <3>q. QED BY <2>0, <3>1 DEF AwaitedInv, ExitAfterCleanup, Registered
  <2>4. CASE Wait
    <3>1. awaited' = {r \in Runners : Registered(r)} /\ UNCHANGED <<config, pc>>
      BY <2>4 DEF Wait, proc
    <3>2. phase' \in {"cleaning", "exited"} => wg = 0 BY <2>4 DEF Wait
    <3>q. QED BY <3>1, <3>2, NoneRegistered DEF AwaitedInv, ExitAfterCleanup, Registered
  <2>5. CASE Wake
    <3>1. UNCHANGED <<config, pc, awaited>> BY <2>5 DEF Wake, proc
    <3>2. phase' \in {"cleaning", "exited"} => wg = 0 BY <2>5 DEF Wake
    <3>3. wg = 0 => awaited = {} BY <2>0, NoneRegistered DEF AwaitedInv
    <3>q. QED BY <3>1, <3>2, <3>3 DEF AwaitedInv, ExitAfterCleanup, Registered
  <2>6. CASE Exit \/ Signal \/ MainCompleted \/ Tick \/ UNCHANGED vars
    BY <2>6 DEF Exit, Signal, MainCompleted, Tick, vars, proc, exit, AwaitedInv,
       ExitAfterCleanup, Registered
  <2>q. QED BY <2>1, <2>2, <2>3, <2>4, <2>5, <2>6 DEF Next, Ended, Shutdown
<1>3. AwaitedInv => ExitAfterCleanup BY DEF AwaitedInv
<1>q. QED BY <1>1, <1>2, <1>3, TypeInit, TypeStep, PTL DEF Spec

-----------------------------------------------------------------------------
(***************************************************************************)
(* Each capture in its place.  A directory made for a capture or a round   *)
(* is the one of its second, D(t).  A capture of its own enters the one it *)
(* made; a capture of the m3 mode stays where it is, in the round's        *)
(* directory or, on demand, in the one the process was started in.         *)
(***************************************************************************)
D(t) == IF config.absolute THEN <<0, t>> ELSE <<t>>

InSession == m3.pc \in {"collect", "process", "restore"}
Inside(r) == ~config.m3 /\ pc[r] \in {"startLog", "capture", "sendLog", "stopLog", "restore"}
Base == IF m3.pc = "process" THEN m3.own ELSE StartDir

DirsInv ==
  /\ {StartDir, StorageDir} \subseteq dirs
  /\ dirs \subseteq {StartDir, StorageDir} \cup {D(t) : t \in Nat \ {0}}
  /\ config.deferDelete => \A d \in dirs \ {StartDir, StorageDir} :
       \/ m3.own = d
       \/ \E r \in Runners : own[r] = d /\ Capturing(r) /\ pc[r] \notin {"release", "return"}

FilesInv == /\ \A f \in files : f.dir = f.for /\ f.dir \in dirs
            /\ \A z \in zips : z.dir = z.for

CwdInv ==
  /\ InSession => cwd = m3.own
  /\ \A r \in Runners : Inside(r) => cwd = own[r]
  /\ ~InSession /\ (\A r \in Runners : ~Inside(r)) => cwd = StartDir

LogInv ==
  /\ \A r \in Runners : hasLog[r] =>
       /\ ~config.m3 /\ pc[r] \in {"capture", "sendLog", "stopLog"}
       /\ stack = <<[logger |-> Nobody, file |-> r]>> /\ logger = r /\ r \notin closed
  /\ \A r \in Runners : pc[r] = "sendLog" => hasLog[r]
  /\ (\A r \in Runners : ~hasLog[r]) => stack = <<>> /\ logger = Nobody

\* A capture that makes a directory for itself.
OwnDirInv(r) ==
  /\ pc[r] = "mkdir" => own[r] = Gone
  /\ pc[r] \notin {"mkdir", "release", "return"} => own[r] = D(ts[r]) /\ own[r] \in dirs
  /\ pc[r] \in {"chdir", "startLog", "capture", "sendLog", "stopLog", "restore"} =>
       saved[r] = StartDir
  /\ pc[r] \in {"register", "getwd", "chdir", "startLog"} => \A f \in files : f.for # own[r]
  /\ config.onlyCapture /\ pc[r] = "remove" /\ (\E f \in files : f.for = own[r])
       => \E z \in zips : z.for = own[r]

\* A capture of the m3 mode.
StayingInv(r) ==
  /\ pc[r] \in {"register", "getwd", "capture", "stopLog", "restore", "remove", "release", "return"}
  /\ own[r] \in {Gone, Base}
  /\ pc[r] \in {"capture", "stopLog", "restore"} => saved[r] = Base /\ own[r] = Base
  /\ m3.pc = "process" => ts[r] > m3.ts

CaptureInv(r) ==
  /\ ts[r] > 0
  /\ IF config.m3 THEN StayingInv(r) ELSE OwnDirInv(r)

M3Inv ==
  /\ m3.pc \in {"off", "sleep", "mkdir"} => m3.own = Gone
  /\ m3.pc \notin {"off", "sleep"} => m3.ts > 0
  /\ m3.pc \in {"getwd", "chdir", "collect", "process", "restore", "remove"} =>
       m3.own = D(m3.ts) /\ m3.own \in dirs
  /\ m3.pc \in {"chdir", "collect", "process", "restore"} => m3.saved = StartDir
  /\ m3.pc = "process" => now > m3.ts

PlaceInv ==
  /\ config.m3 => ~config.onlyCapture
  /\ now > 0
  /\ DirsInv /\ FilesInv /\ CwdInv /\ LogInv /\ M3Inv
  /\ \A r \in Runners : Capturing(r) => CaptureInv(r)

\* The same when one runner captures and the m3 mode is off, and when it is on.
\* Both forms say more directly what a step has to keep.
OwnAlone(r) == /\ ~config.m3 /\ m3.pc = "off"
               /\ \A q \in Runners : q # r => ~Capturing(q)

AloneInv(r) ==
  /\ now > 0 /\ M3Inv /\ FilesInv
  /\ {StartDir, StorageDir} \subseteq dirs
  /\ dirs \subseteq {StartDir, StorageDir} \cup {D(t) : t \in Nat \ {0}}
  /\ config.deferDelete => dirs \subseteq {StartDir, StorageDir} \cup
       (IF Capturing(r) /\ pc[r] \notin {"release", "return"} THEN {own[r]} ELSE {})
  /\ cwd = IF Inside(r) THEN own[r] ELSE StartDir
  /\ \A q \in Runners : hasLog[q] => q = r
  /\ hasLog[r] => /\ pc[r] \in {"capture", "sendLog", "stopLog"}
                  /\ stack = <<[logger |-> Nobody, file |-> r]>> /\ logger = r /\ r \notin closed
  /\ pc[r] = "sendLog" => hasLog[r]
  /\ ~hasLog[r] => stack = <<>> /\ logger = Nobody
  /\ Capturing(r) => ts[r] > 0 /\ OwnDirInv(r)

SessionInv ==
  /\ now > 0 /\ ~config.onlyCapture /\ M3Inv /\ FilesInv
  /\ {StartDir, StorageDir} \subseteq dirs
  /\ dirs \subseteq {StartDir, StorageDir} \cup {D(t) : t \in Nat \ {0}}
  /\ config.deferDelete => dirs \subseteq {StartDir, StorageDir, m3.own}
  /\ cwd = IF InSession THEN m3.own ELSE StartDir
  /\ \A r \in Runners : ~hasLog[r] /\ pc[r] # "sendLog"
  /\ stack = <<>> /\ logger = Nobody
  /\ \A r \in Runners : Capturing(r) => ts[r] > 0 /\ StayingInv(r)

GoneIsNoDir == TypeOK => Gone \notin dirs

LEMMA GoneNotDir == GoneIsNoDir
BY AgentAssumption DEF GoneIsNoDir, TypeOK, Path

AloneMeans == \A r \in Runners : TypeOK /\ OwnAlone(r) => (PlaceInv <=> AloneInv(r))

LEMMA AloneIs == AloneMeans
<1> SUFFICES ASSUME NEW r \in Runners, TypeOK, OwnAlone(r) PROVE PlaceInv <=> AloneInv(r)
  BY DEF AloneMeans
<1>0. ~InSession /\ m3.pc = "off" /\ ~config.m3 /\ Gone \notin dirs
  BY GoneNotDir DEF OwnAlone, InSession, GoneIsNoDir
<1>1. \A q \in Runners : q # r => ~Inside(q) /\ ~Capturing(q) /\ pc[q] # "sendLog"
  BY DEF OwnAlone, Inside, Capturing, CaptureStates
<1>2. ASSUME PlaceInv PROVE AloneInv(r)
  <2>1. m3.own = Gone BY <1>0, <1>2 DEF PlaceInv, M3Inv
  <2>2. config.deferDelete => dirs \subseteq {StartDir, StorageDir} \cup
       (IF Capturing(r) /\ pc[r] \notin {"release", "return"} THEN {own[r]} ELSE {})
    BY <1>0, <1>1, <1>2, <2>1 DEF PlaceInv, DirsInv
  <2>3. cwd = IF Inside(r) THEN own[r] ELSE StartDir
    BY <1>0, <1>1, <1>2 DEF PlaceInv, CwdInv
  <2>4. \A q \in Runners : hasLog[q] => q = r
    <3> SUFFICES ASSUME NEW q \in Runners, hasLog[q], q # r PROVE FALSE OBVIOUS
    <3>1. pc[q] \in {"capture", "sendLog", "stopLog"} BY <1>2 DEF PlaceInv, LogInv
    <3>q. QED BY <3>1, <1>1 DEF Capturing, CaptureStates
  <2>5. (\A q \in Runners : ~hasLog[q]) <=> ~hasLog[r] BY <2>4
  <2>6. now > 0 /\ M3Inv /\ FilesInv /\ {StartDir, StorageDir} \subseteq dirs
        /\ dirs \subseteq {StartDir, StorageDir} \cup {D(t) : t \in Nat \ {0}}
    BY <1>2 DEF PlaceInv, DirsInv
  <2>7. /\ hasLog[r] =>
             /\ pc[r] \in {"capture", "sendLog", "stopLog"}
             /\ stack = <<[logger |-> Nobody, file |-> r]>> /\ logger = r /\ r \notin closed
        /\ pc[r] = "sendLog" => hasLog[r]
        /\ ~hasLog[r] => stack = <<>> /\ logger = Nobody
    BY <1>2, <2>5 DEF PlaceInv, LogInv
  <2>8. Capturing(r) => ts[r] > 0 /\ OwnDirInv(r) BY <1>0, <1>2 DEF PlaceInv, CaptureInv
  <2>q. QED BY <2>2, <2>3, <2>4, <2>6, <2>7, <2>8 DEF AloneInv
<1>3. ASSUME AloneInv(r) PROVE PlaceInv
  <2>1. DirsInv BY <1>3 DEF AloneInv, DirsInv
  <2>2. CwdInv BY <1>0, <1>1, <1>3 DEF AloneInv, CwdInv
  <2>3. LogInv BY <1>0, <1>1, <1>3 DEF AloneInv, LogInv
  <2>4. \A q \in Runners : Capturing(q) => CaptureInv(q)
    BY <1>0, <1>1, <1>3 DEF AloneInv, CaptureInv
  <2>q. QED BY <1>0, <1>3, <2>1, <2>2, <2>3, <2>4 DEF AloneInv, PlaceInv
<1>q. QED BY <1>2, <1>3

LEMMA SessionIs == TypeOK /\ config.m3 => (PlaceInv <=> SessionInv)
<1> SUFFICES ASSUME TypeOK, config.m3 PROVE PlaceInv <=> SessionInv OBVIOUS
<1>0. Gone \notin dirs /\ \A r \in Runners : ~Inside(r)
  BY GoneNotDir DEF GoneIsNoDir, Inside
<1>1. ASSUME PlaceInv PROVE SessionInv
  <2>1. \A r \in Runners : ~hasLog[r] BY <1>1 DEF PlaceInv, LogInv
  <2>2. config.deferDelete => dirs \subseteq {StartDir, StorageDir, m3.own}
    <3> SUFFICES ASSUME config.deferDelete, NEW d \in dirs \ {StartDir, StorageDir}, m3.own # d
                 PROVE FALSE OBVIOUS
    <3>1. PICK r \in Runners : own[r] = d /\ Capturing(r) BY <1>1 DEF PlaceInv, DirsInv
    <3>2. own[r] \in {Gone, Base} BY <1>1, <3>1 DEF PlaceInv, CaptureInv, StayingInv
    <3>q. QED BY <1>0, <3>1, <3>2 DEF Base
  <2>3. cwd = IF InSession THEN m3.own ELSE StartDir BY <1>0, <1>1 DEF PlaceInv, CwdInv
  <2>4. \A r \in Runners : pc[r] # "sendLog" BY <1>1, <2>1 DEF PlaceInv, LogInv
  <2>5. stack = <<>> /\ logger = Nobody BY <1>1, <2>1 DEF PlaceInv, LogInv
  <2>6. \A r \in Runners : Capturing(r) => ts[r] > 0 /\ StayingInv(r)
    BY <1>1 DEF PlaceInv, CaptureInv
  <2>7. now > 0 /\ ~config.onlyCapture /\ M3Inv /\ FilesInv
        /\ {StartDir, StorageDir} \subseteq dirs
        /\ dirs \subseteq {StartDir, StorageDir} \cup {D(t) : t \in Nat \ {0}}
    BY <1>1 DEF PlaceInv, DirsInv
  <2>q. QED BY <2>1, <2>2, <2>3, <2>4, <2>5, <2>6, <2>7 DEF SessionInv
<1>2. ASSUME SessionInv PROVE PlaceInv
  <2>1. DirsInv BY <1>2 DEF SessionInv, DirsInv
  <2>2. CwdInv BY <1>0, <1>2 DEF SessionInv, CwdInv
  <2>3. LogInv BY <1>2 DEF SessionInv, LogInv
  <2>4. \A r \in Runners : Capturing(r) => CaptureInv(r) BY <1>2 DEF SessionInv, CaptureInv
  <2>q. QED BY <1>2, <2>1, <2>2, <2>3, <2>4 DEF SessionInv, PlaceInv
<1>q. QED BY <1>1, <1>2

\* Below a directory as deep as any other there is only itself.
LEMMA UnderSame ==
  ASSUME NEW d \in Path, NEW p \in Path, Len(d) <= Len(p)
  PROVE  Under(d, p) <=> d = p
BY DEF Under, Path

LEMMA NotDeeper ==
  ASSUME NEW p, NEW S, Len(p) \in {1, 2}, \A d \in S : Len(d) \in {0, 1} \/ Len(d) = Len(p)
  PROVE  \A d \in S : Len(d) <= Len(p)
<1> SUFFICES ASSUME NEW d \in S PROVE Len(d) <= Len(p) OBVIOUS
<1> DEFINE n == Len(d)  m == Len(p)
<1>1. m \in {1, 2} /\ (n \in {0, 1} \/ n = m) OBVIOUS
<1> HIDE DEF n, m
<1>2. n <= m BY <1>1
<1>q. QED BY <1>2 DEF n, m

\* A directory made in the storage directory, and what Resolve makes of its name.
LEMMA DirOf ==
  ASSUME TypeOK, NEW t \in Nat
  PROVE  /\ D(t) \in Path /\ D(t) # StartDir /\ (t > 0 => D(t) # StorageDir)
         /\ Len(D(t)) = IF config.absolute THEN 2 ELSE 1
         /\ \A u \in Nat : D(u) = D(t) => u = t
         /\ cwd = StartDir => Resolve(t) = D(t) /\ Resolve(t) # Gone
<1>1. D(t) \in Path /\ Len(D(t)) = IF config.absolute THEN 2 ELSE 1
  BY DEF D, Path
<1>2. D(t) # StartDir BY <1>1 DEF StartDir
<1>3. D(t) # Gone BY <1>1, AgentAssumption DEF Path
<1>4. \A u \in Nat : D(u) = D(t) => u = t BY DEF D
<1>5. t > 0 => D(t) # StorageDir BY DEF D, StorageDir
<1>6. cwd = StartDir => Resolve(t) = D(t)
  <2>1. Append(<<0>>, t) = <<0, t>>
    <3>1. Append(<<0>>, t) \in Seq(Nat) /\ Len(Append(<<0>>, t)) = 2 OBVIOUS
    <3>2. <<0, t>> \in Seq(Nat) /\ Len(<<0, t>>) = 2 OBVIOUS
    <3>3. Append(<<0>>, t)[1] = 0 /\ Append(<<0>>, t)[2] = t OBVIOUS
    <3>4. \A i \in 1..2 : Append(<<0>>, t)[i] = <<0, t>>[i] BY <3>3
    <3>q. QED BY <3>1, <3>2, <3>4, SeqEqual
  <2>2. Append(<<>>, t) = <<t>> OBVIOUS
  <2>3. StartDir \in Seq(Nat) BY DEF StartDir
  <2>4. StartDir # Gone BY <2>3, AgentAssumption
  <2>q. QED BY <2>1, <2>2, <2>4 DEF D, Resolve, StartDir, StorageDir
<1>q. QED BY <1>1, <1>2, <1>3, <1>4, <1>5, <1>6

\* RemoveAll of a directory with none below it.
LEMMA RemoveLeaf ==
  ASSUME TypeOK, NEW p \in Path, RemoveTree(p), cwd \in dirs,
         \A d \in dirs : Len(d) <= Len(p), \A f \in files : f.dir \in dirs
  PROVE  /\ dirs' = dirs \ {p}
         /\ files' = {f \in files : f.dir # p}
         /\ cwd # p => cwd' = cwd
<1>0. p # Gone /\ cwd # Gone /\ dirs \subseteq Path BY AgentAssumption DEF TypeOK, Path
<1>1. \A d \in dirs : Under(d, p) <=> d = p BY <1>0, UnderSame
<1>2. dirs' = dirs \ {p} BY <1>0, <1>1 DEF RemoveTree
<1>3. files' = {f \in files : f.dir # p} BY <1>0, <1>1 DEF RemoveTree
<1>4. cwd # p => cwd' = cwd BY <1>0, <1>1 DEF RemoveTree
<1>q. QED BY <1>2, <1>3, <1>4

\* A step of the only capture, when captures make their own directories.
LEMMA AloneStep ==
  ASSUME TypeOK, NEW r \in Runners, OwnAlone(r), AloneInv(r), FullCapture(r)
  PROVE  AloneInv(r)'
<1>0. /\ pc \in [Runners -> Types] /\ ts \in [Runners -> Nat]
      /\ saved \in [Runners -> Path \cup {Gone}] /\ own \in [Runners -> Path \cup {Gone}]
      /\ hasLog \in [Runners -> BOOLEAN]
      /\ ts[r] \in Nat /\ now \in Nat /\ Gone \notin dirs
  BY GoneNotDir DEF TypeOK, Types, GoneIsNoDir
<1>1. UNCHANGED <<config, now, m3>>
  BY DEF FullCapture, Begin, Mkdir, Register, Getwd, EnterDir, StartLog, WriteArtifact, Finish,
     SendLog, StopLog, Restore, Zip, Remove, Release, Return, proc
<1>2. M3Inv' /\ m3.own = Gone BY <1>1 DEF AloneInv, M3Inv, OwnAlone
<1>3. ~config.m3 /\ \A t : D(t)' = D(t) BY <1>1 DEF D, OwnAlone
<1> DEFINE Names == {D(t) : t \in Nat \ {0}}
<1>5. Names' = Names BY <1>3
<1>6. D(ts[r]) # StartDir /\ (ts[r] > 0 => D(ts[r]) # StorageDir /\ D(ts[r]) \in Names)
      /\ (cwd = StartDir => Resolve(ts[r]) = D(ts[r]))
  BY <1>0, DirOf
<1> HIDE DEF Names
<1> USE DEF Capturing, CaptureStates, Types, Inside
<1>7. {StartDir, StorageDir} \subseteq dirs /\ dirs \subseteq {StartDir, StorageDir} \cup Names
  BY DEF AloneInv, Names
<1> DEFINE Rest == /\ FilesInv /\ {StartDir, StorageDir} \subseteq dirs
                   /\ dirs \subseteq {StartDir, StorageDir} \cup Names
                   /\ config.deferDelete => dirs \subseteq {StartDir, StorageDir} \cup
                      (IF Capturing(r) /\ pc[r] \notin {"release", "return"} THEN {own[r]} ELSE {})
                   /\ cwd = IF Inside(r) THEN own[r] ELSE StartDir
           Logs == /\ \A q \in Runners : hasLog[q] => q = r
                   /\ hasLog[r] => /\ pc[r] \in {"capture", "sendLog", "stopLog"}
                      /\ stack = <<[logger |-> Nobody, file |-> r]>> /\ logger = r /\ r \notin closed
                   /\ pc[r] = "sendLog" => hasLog[r]
                   /\ ~hasLog[r] => stack = <<>> /\ logger = Nobody
<1>8. Rest /\ Logs BY DEF AloneInv, Names
<1>9. SUFFICES Rest' /\ Logs' /\ (Capturing(r)' => ts'[r] > 0 /\ OwnDirInv(r)')
  BY <1>1, <1>2, <1>3, <1>5 DEF AloneInv, Names
<1>10. now > 0 /\ (Capturing(r) => ts[r] > 0 /\ OwnDirInv(r)) BY DEF AloneInv
<1>a. CASE Begin(r)
  BY <1>0, <1>1, <1>3, <1>5, <1>8, <1>10, <1>a
  DEF Begin, Goto, OwnDirInv, FilesInv, fs, logs
<1>b. CASE Mkdir(r)
  BY <1>0, <1>1, <1>3, <1>5, <1>6, <1>7, <1>8, <1>10, <1>b
  DEF Mkdir, Goto, OwnDirInv, FilesInv, fs, logs, frame, CanMkdir
<1>c. CASE Register(r)
  BY <1>0, <1>1, <1>3, <1>5, <1>8, <1>10, <1>c
  DEF Register, Goto, OwnDirInv, FilesInv, fs, logs, frame
<1>d. CASE Getwd(r)
  BY <1>0, <1>1, <1>3, <1>5, <1>8, <1>10, <1>d
  DEF Getwd, Goto, OwnDirInv, FilesInv, fs, logs, frame
<1>e. CASE EnterDir(r)
  BY <1>0, <1>1, <1>3, <1>5, <1>6, <1>8, <1>10, <1>e
  DEF EnterDir, Goto, OwnDirInv, FilesInv, Chdir, logs, frame
<1>f. CASE StartLog(r)
  <2>1. Rest' /\ (Capturing(r)' => ts'[r] > 0 /\ OwnDirInv(r)')
    BY <1>0, <1>1, <1>3, <1>5, <1>8, <1>10, <1>f
    DEF StartLog, Goto, OwnDirInv, FilesInv, fs, frame
  <2>2. stack = <<>> /\ logger = Nobody /\ ~hasLog[r] BY <1>8, <1>f DEF StartLog, Goto
  <2>3. \A x : Append(<<>>, x) = <<x>> OBVIOUS
  <2>4. Logs' BY <1>0, <1>8, <1>f, <2>2, <2>3 DEF StartLog, Goto, logs
  <2>q. QED BY <2>1, <2>4
<1>g. CASE WriteArtifact(r)
  BY <1>0, <1>1, <1>3, <1>5, <1>8, <1>10, <1>g
  DEF WriteArtifact, Goto, OwnDirInv, FilesInv, logs, frame
<1>h. CASE Finish(r)
  BY <1>0, <1>1, <1>3, <1>5, <1>8, <1>10, <1>h
  DEF Finish, Goto, OwnDirInv, FilesInv, fs, logs, frame
<1>pop. ASSUME PopLogger(r), hasLog[r]
        PROVE  stack' = <<>> /\ logger' = Nobody /\ hasLog' = [hasLog EXCEPT ![r] = FALSE]
  <2>1. stack = <<[logger |-> Nobody, file |-> r]>> BY <1>8, <1>pop
  <2>2. Len(stack) = 1 /\ stack[1].logger = Nobody BY <2>1
  <2>3. SubSeq(stack, 1, 0) = <<>> OBVIOUS
  <2>q. QED BY <1>pop, <2>2, <2>3 DEF PopLogger
<1>i. CASE SendLog(r)
  <2>1. Rest' /\ (Capturing(r)' => ts'[r] > 0 /\ OwnDirInv(r)')
    BY <1>0, <1>1, <1>3, <1>5, <1>8, <1>10, <1>i
    DEF SendLog, Goto, OwnDirInv, FilesInv, fs, frame
  <2>2. hasLog[r] /\ PopLogger(r) BY <1>8, <1>i DEF SendLog, Goto
  <2>3. Logs' BY <1>0, <1>8, <1>i, <2>2, <1>pop DEF SendLog, Goto
  <2>q. QED BY <2>1, <2>3
<1>j. CASE StopLog(r)
  <2>1. Rest' /\ (Capturing(r)' => ts'[r] > 0 /\ OwnDirInv(r)')
    BY <1>0, <1>1, <1>3, <1>5, <1>8, <1>10, <1>j
    DEF StopLog, Goto, OwnDirInv, FilesInv, fs, frame
  <2>2. Logs'
    <3>1. CASE hasLog[r] BY <1>0, <1>8, <1>j, <3>1, <1>pop DEF StopLog, Goto
    <3>2. CASE ~hasLog[r] BY <1>0, <1>8, <1>j, <3>2 DEF StopLog, Goto, logs
    <3>q. QED BY <3>1, <3>2
  <2>q. QED BY <2>1, <2>2
<1>k. CASE Restore(r)
  BY <1>0, <1>1, <1>3, <1>5, <1>8, <1>10, <1>k
  DEF Restore, Goto, OwnDirInv, FilesInv, Chdir, logs, frame
<1>l. CASE Zip(r)
  <2>1. own[r] = D(ts[r]) /\ own[r] \in dirs /\ cwd = StartDir /\ Resolve(ts[r]) = own[r]
        /\ ts[r] > 0 /\ pc[r] = "zip" /\ pc'[r] = "remove"
    BY <1>0, <1>6, <1>8, <1>10, <1>l DEF Zip, Goto, OwnDirInv
  <2>2. UNCHANGED <<cwd, dirs, files, ts, own, stack, logger, closed, hasLog>>
        /\ zips' = zips \cup {[dir |-> own[r], for |-> own[r]]}
    BY <1>l, <2>1 DEF Zip, logs, frame
  <2>3. Rest' /\ Logs' BY <1>1, <1>5, <1>8, <2>1, <2>2 DEF FilesInv
  <2>4. \E z \in zips' : z.for = own'[r]
    <3>1. [dir |-> own[r], for |-> own[r]] \in zips' BY <2>2
    <3>2. [dir |-> own[r], for |-> own[r]].for = own[r] OBVIOUS
    <3>q. QED BY <2>2, <3>1, <3>2
  <2>q. QED BY <1>3, <2>1, <2>2, <2>3, <2>4 DEF OwnDirInv
<1>m. CASE Remove(r)
  <2>1. own[r] = D(ts[r]) /\ own[r] \in dirs /\ cwd = StartDir /\ Resolve(ts[r]) = own[r]
        /\ ts[r] > 0 /\ pc[r] = "remove" /\ pc'[r] = "release"
    BY <1>0, <1>6, <1>8, <1>10, <1>m DEF Remove, Goto, OwnDirInv
  <2>2. Logs' BY <1>0, <1>8, <1>m DEF Remove, Goto, logs
  <2>3. CASE config.deferDelete
    <3>1. RemoveTree(own[r]) BY <1>m, <2>1, <2>3 DEF Remove
    <3>2. own[r] \in Path /\ dirs \subseteq {StartDir, StorageDir, own[r]}
      BY <1>0, <1>8, <2>1, <2>3, DirOf
    <3>3. \A d \in dirs : Len(d) <= Len(own[r])
      <4>1. Len(own[r]) \in {1, 2} /\ Len(StartDir) = 0 /\ Len(StorageDir) = 1
        BY <1>0, <2>1, DirOf DEF StartDir, StorageDir
      <4>2. \A d \in dirs : Len(d) \in {0, 1} \/ Len(d) = Len(own[r]) BY <3>2, <4>1
      <4>q. QED BY <4>1, <4>2, NotDeeper
    <3>4. dirs' = dirs \ {own[r]} /\ files' = {f \in files : f.dir # own[r]} /\ cwd' = cwd
      BY <3>1, <3>2, <3>3, <2>1, <1>6, <1>8, RemoveLeaf DEF FilesInv
    <3>5. UNCHANGED <<zips, ts, own>> BY <1>m DEF Remove, frame
    <3>6. Rest' BY <1>1, <1>5, <1>6, <1>8, <2>1, <2>3, <3>2, <3>4, <3>5 DEF FilesInv
    <3>q. QED BY <2>1, <2>2, <3>5, <3>6 DEF OwnDirInv
  <2>4. CASE ~config.deferDelete
    <3>1. UNCHANGED <<dirs, files, cwd, zips, ts, own>> BY <1>m, <2>4 DEF Remove, frame
    <3>2. Rest' BY <1>1, <1>5, <1>8, <2>1, <2>4, <3>1 DEF FilesInv
    <3>q. QED BY <2>1, <2>2, <3>1, <3>2 DEF OwnDirInv
  <2>q. QED BY <2>3, <2>4
<1>n. CASE Release(r)
  BY <1>0, <1>1, <1>3, <1>5, <1>8, <1>10, <1>n
  DEF Release, Goto, OwnDirInv, FilesInv, fs, logs, frame
<1>o. CASE Return(r)
  BY <1>0, <1>1, <1>3, <1>5, <1>8, <1>10, <1>o
  DEF Return, Goto, OwnDirInv, FilesInv, fs, logs
<1>q. QED BY <1>a, <1>b, <1>c, <1>d, <1>e, <1>f, <1>g, <1>h, <1>i, <1>j, <1>k, <1>l, <1>m,
            <1>n, <1>o DEF FullCapture

\* In the m3 mode a capture is of the on-demand loop, with no round in progress, or
\* of the m3 loop, inside the directory of the round.
LEMMA StayingWhere ==
  ASSUME TypeOK, LoopOff, ModesOff, StandaloneMode, config.m3, SessionInv,
         NEW r \in Runners, pc[r] # "off"
  PROVE  /\ cwd = Base /\ Base \in dirs
         /\ m3.pc = "process" \/ ~InSession
<1>1. r \notin Requests BY DEF StandaloneMode, ModesOff
<1>2. CASE r = Main
  <2>1. m3.pc = "off" BY <1>2 DEF ModesOff, M3Mode
  <2>q. QED BY <2>1 DEF SessionInv, Base, InSession
<1>3. CASE r = Loop
  <2>1. m3.pc = "process" BY <1>3 DEF LoopOff
  <2>q. QED BY <2>1 DEF SessionInv, Base, InSession, M3Inv
<1>q. QED BY <1>1, <1>2, <1>3 DEF Runners

\* The deferred removal of a capture of the m3 mode resolves its name where no
\* directory of that second is.
LEMMA StayingRemovesNothing ==
  ASSUME TypeOK, LoopOff, ModesOff, StandaloneMode, config.m3, SessionInv,
         NEW r \in Runners, pc[r] = "remove", config.deferDelete, RemoveTree(Resolve(ts[r]))
  PROVE  UNCHANGED <<cwd, dirs, files>>
<1>1. /\ cwd = Base /\ Base \in dirs /\ (m3.pc = "process" \/ ~InSession)
  BY StayingWhere
<1>2. /\ ts[r] \in Nat /\ m3.ts \in Nat /\ dirs \subseteq Path
      /\ dirs \subseteq {StartDir, StorageDir, m3.own} /\ Gone \notin dirs
  BY GoneNotDir DEF TypeOK, SessionInv, GoneIsNoDir
<1>3. ts[r] > 0 /\ (m3.pc = "process" => ts[r] > m3.ts)
  BY DEF SessionInv, StayingInv, Capturing, CaptureStates
<1>4. ASSUME NEW p, p = Resolve(ts[r])
      PROVE  p \in Path /\ p \notin dirs /\ \A d \in dirs : Len(d) <= Len(p)
  <2>0. Len(StartDir) = 0 /\ Len(StorageDir) = 1 BY DEF StartDir, StorageDir
  <2>1. CASE m3.pc = "process"
    <3>1. m3.own = D(m3.ts) /\ cwd = D(m3.ts) BY <1>1, <2>1 DEF SessionInv, M3Inv, Base
    <3>2. dirs \subseteq {StartDir, StorageDir, D(m3.ts)} BY <1>2, <3>1
    <3>3. Len(D(m3.ts)) = IF config.absolute THEN 2 ELSE 1 BY <1>2, DirOf
    <3>4. CASE config.absolute
      <4>1. p = Append(StorageDir, ts[r]) BY <1>4, <3>4 DEF Resolve
      <4>2. p \in Path /\ Len(p) = 2 /\ Len(p) \in {1, 2} /\ p[2] = ts[r]
        BY <1>2, <4>1 DEF StorageDir, Path
      <4>3. D(m3.ts)[2] = m3.ts BY <3>4 DEF D
      <4>4. p # D(m3.ts) BY <4>2, <4>3, <1>2, <1>3, <2>1
      <4>5. p # StartDir /\ p # StorageDir BY <2>0, <4>2
      <4>6. \A d \in dirs : Len(d) \in {0, 1} \/ Len(d) = Len(p)
        BY <2>0, <3>2, <3>3, <3>4, <4>2
      <4>8. Len(p) \in {1, 2} BY <4>2
      <4>7. \A d \in dirs : Len(d) <= Len(p) BY <4>8, <4>6, NotDeeper
      <4>q. QED BY <3>2, <4>2, <4>4, <4>5, <4>7
    <3>5. CASE ~config.absolute
      <4>1. cwd # Gone BY <1>1, <1>2
      <4>2. p = Append(cwd, ts[r]) BY <1>4, <3>5, <4>1 DEF Resolve
      <4>3. cwd \in Seq(Nat) /\ Len(cwd) = 1 BY <1>1, <1>2, <3>1, <3>3, <3>5 DEF Path
      <4>t. ts[r] \in Nat BY <1>2
      <4>4. /\ Append(cwd, ts[r]) \in Seq(Nat)
            /\ Len(Append(cwd, ts[r])) = Len(cwd) + 1
        BY ONLY <4>3, <4>t, AppendProperties
      <4>5. p \in Seq(Nat) /\ Len(p) = 2 BY <4>2, <4>3, <4>4
      <4>6. \A d \in dirs : Len(d) \in {0, 1} BY <2>0, <3>2, <3>3, <3>5
      <4>7. Len(p) \in {1, 2} BY <4>5
      <4>8. \A d \in dirs : Len(d) <= Len(p) BY <4>6, <4>7, NotDeeper
      <4>9. \A d \in dirs : Len(d) # 2 BY <4>6
      <4>q. QED BY <4>5, <4>8, <4>9 DEF Path
    <3>q. QED BY <3>4, <3>5
  <2>2. CASE m3.pc # "process"
    <3>1. cwd = StartDir BY <1>1, <2>2 DEF SessionInv
    <3>2. p = D(ts[r]) /\ p \in Path /\ p # StartDir /\ p # StorageDir
          /\ Len(p) = IF config.absolute THEN 2 ELSE 1
      BY <1>2, <1>3, <1>4, <3>1, DirOf
    <3>3. m3.pc \in {"off", "sleep", "mkdir"} \/ m3.own \in dirs
      BY DEF TypeOK, SessionInv, M3Inv
    <3>4. m3.pc = "off" 
      <4>1. pc[Loop] = "off" BY <2>2 DEF LoopOff
      <4>2. r = Main BY <4>1, StandaloneMode DEF StandaloneMode, ModesOff, Runners
      <4>q. QED BY <4>2 DEF ModesOff, M3Mode
    <3>5. dirs \subseteq {StartDir, StorageDir}
      BY <1>2, <3>4 DEF SessionInv, M3Inv
    <3>6. \A d \in dirs : Len(d) \in {0, 1} BY <2>0, <3>5
    <3>7. Len(p) \in {1, 2} BY <3>2
    <3>8. \A d \in dirs : Len(d) <= Len(p) BY <3>6, <3>7, NotDeeper
    <3>q. QED BY <3>2, <3>5, <3>8
  <2>q. QED BY <2>1, <2>2
<1>5. cwd \in dirs /\ (\A f \in files : f.dir \in dirs) BY <1>1 DEF SessionInv, FilesInv
<1>6. PICK p : p = Resolve(ts[r]) OBVIOUS
<1>7. dirs' = dirs \ {p} /\ files' = {f \in files : f.dir # p} /\ cwd' = cwd
  BY <1>4, <1>5, <1>6, RemoveLeaf
<1>8. files' = files BY <1>4, <1>5, <1>6, <1>7
<1>q. QED BY <1>4, <1>6, <1>7, <1>8

\* A step of a capture of the m3 mode.
LEMMA StayingStep ==
  ASSUME TypeOK, LoopOff, ModesOff, StandaloneMode, config.m3, SessionInv,
         NEW r \in Runners, FullCapture(r)
  PROVE  SessionInv'
<1>0. /\ pc \in [Runners -> Types] /\ ts \in [Runners -> Nat]
      /\ saved \in [Runners -> Path \cup {Gone}] /\ own \in [Runners -> Path \cup {Gone}]
      /\ ts[r] \in Nat /\ now \in Nat /\ pc[r] # "off"
  BY DEF TypeOK, Types, FullCapture, Begin, Mkdir, Register, Getwd, EnterDir, StartLog,
     WriteArtifact, Finish, SendLog, StopLog, Restore, Zip, Remove, Release, Return, Goto
<1>1. cwd = Base /\ Base \in dirs /\ (m3.pc = "process" \/ ~InSession) BY <1>0, StayingWhere
<1>2. pc[r] \notin {"mkdir", "chdir", "startLog", "sendLog", "zip"}
  BY DEF SessionInv, StayingInv, Capturing, CaptureStates
<1>3. UNCHANGED <<config, now, m3, logger, stack, closed, hasLog>>
  BY <1>2 DEF FullCapture, Begin, Mkdir, Register, Getwd, EnterDir, StartLog, WriteArtifact,
     Finish, SendLog, StopLog, Restore, Zip, Remove, Release, Return, Goto, proc, logs, SessionInv
<1>4. UNCHANGED <<cwd, dirs>>
  <2>1. CASE Restore(r)
    <3>1. saved[r] = Base
      BY <2>1 DEF Restore, Goto, SessionInv, StayingInv, Capturing, CaptureStates
    <3>q. QED BY <1>1, <2>1, <3>1 DEF Restore, Chdir
  <2>2. CASE Remove(r)
    BY <2>2, StayingRemovesNothing DEF Remove, Goto
  <2>q. QED BY <1>2, <2>1, <2>2 DEF FullCapture, Begin, Mkdir, Register, Getwd, EnterDir, StartLog,
     WriteArtifact, Finish, SendLog, StopLog, Zip, Release, Return, Goto, fs
<1>5. FilesInv'
  <2>1. CASE WriteArtifact(r)
    <3>1. own[r] = Base
      BY <2>1 DEF WriteArtifact, Goto, SessionInv, StayingInv, Capturing, CaptureStates
    <3>q. QED BY <1>1, <1>4, <2>1, <3>1 DEF WriteArtifact, SessionInv, FilesInv
  <2>2. CASE ~WriteArtifact(r)
    <3>1. UNCHANGED <<files, zips>>
      BY <1>2, <2>2, StayingRemovesNothing DEF FullCapture, Begin, Mkdir, Register, Getwd, EnterDir,
         StartLog, Finish, SendLog, StopLog, Restore, Zip, Remove, Release, Return, Goto, fs
    <3>q. QED BY <1>4, <3>1 DEF SessionInv, FilesInv
  <2>q. QED BY <2>1, <2>2
<1>6. ASSUME NEW q \in Runners, q # r, Capturing(q)' PROVE ts'[q] > 0 /\ StayingInv(q)'
  <2>1. pc'[q] = pc[q] /\ ts'[q] = ts[q] /\ saved'[q] = saved[q] /\ own'[q] = own[q]
    BY <1>0, <1>6 DEF FullCapture, Begin, Mkdir, Register, Getwd, EnterDir, StartLog, WriteArtifact,
     Finish, SendLog, StopLog, Restore, Zip, Remove, Release, Return, Goto, frame
  <2>q. QED BY <1>3, <1>6, <2>1 DEF SessionInv, StayingInv, Capturing, Base
<1>7. Capturing(r)' => ts'[r] > 0 /\ StayingInv(r)'
  <2> USE DEF Goto, Capturing, CaptureStates, Types, StayingInv, frame
  <2>0. Capturing(r) => ts[r] > 0 /\ StayingInv(r) BY DEF SessionInv
  <2>1. Base' = Base /\ now > 0 /\ (m3.pc = "process" => now > m3.ts)
    BY <1>3 DEF Base, SessionInv, M3Inv
  <2>2. CASE Begin(r) BY <1>0, <1>3, <2>1, <2>2 DEF Begin
  <2>3. CASE Register(r) BY <1>0, <1>3, <2>0, <2>1, <2>3 DEF Register
  <2>4. CASE Getwd(r) BY <1>0, <1>1, <1>3, <2>0, <2>1, <2>4 DEF Getwd
  <2>5. CASE WriteArtifact(r) BY <1>0, <1>3, <2>0, <2>1, <2>5 DEF WriteArtifact
  <2>6. CASE Finish(r)
    <3>1. ~hasLog[r] BY DEF SessionInv
    <3>q. QED BY <1>0, <1>3, <2>0, <2>1, <2>6, <3>1 DEF Finish
  <2>7. CASE StopLog(r) BY <1>0, <1>3, <2>0, <2>1, <2>7 DEF StopLog
  <2>8. CASE Restore(r)
    <3>1. ~config.onlyCapture BY DEF SessionInv
    <3>q. QED BY <1>0, <1>3, <2>0, <2>1, <2>8, <3>1 DEF Restore
  <2>9. CASE Remove(r) BY <1>0, <1>3, <2>0, <2>1, <2>9 DEF Remove
  <2>10. CASE Release(r) BY <1>0, <1>3, <2>0, <2>1, <2>10 DEF Release
  <2>11. CASE Return(r) BY <1>0, <1>3, <2>0, <2>1, <2>11 DEF Return
  <2>q. QED BY <1>2, <2>2, <2>3, <2>4, <2>5, <2>6, <2>7, <2>8, <2>9, <2>10, <2>11
        DEF FullCapture, Mkdir, EnterDir, StartLog, SendLog, Zip
<1>8. \A q \in Runners : pc'[q] # "sendLog"
  <2>1. pc'[r] # "sendLog"
    BY <1>0, <1>7 DEF StayingInv, Capturing, CaptureStates
  <2>2. \A q \in Runners : q # r => pc'[q] = pc[q]
    BY <1>0 DEF FullCapture, Begin, Mkdir, Register, Getwd, EnterDir, StartLog, WriteArtifact,
     Finish, SendLog, StopLog, Restore, Zip, Remove, Release, Return, Goto
  <2>q. QED BY <2>1, <2>2 DEF SessionInv
<1>9. \A t : D(t)' = D(t) BY <1>3 DEF D
<1>10. M3Inv' BY <1>3, <1>4, <1>9 DEF SessionInv, M3Inv
<1>11. {D(t) : t \in Nat \ {0}}' = {D(t) : t \in Nat \ {0}} BY <1>9
<1>q. QED BY <1>3, <1>4, <1>5, <1>6, <1>7, <1>8, <1>10, <1>11 DEF SessionInv, InSession

\* A step of the m3 loop: no capture is in progress.
LEMMA RoundStep ==
  ASSUME TypeOK, LoopOff, ModesOff, StandaloneMode, config.m3, SessionInv, RunSingle
  PROVE  SessionInv'
<1>0. /\ pc \in [Runners -> Types] /\ m3 \in M3Frames /\ now \in Nat /\ m3.ts \in Nat
      /\ Gone \notin dirs /\ dirs \subseteq Path /\ Loop \in Runners /\ Loop \notin Requests
      /\ Main # Loop
  BY GoneNotDir, AgentAssumption DEF TypeOK, Types, M3Frames, M3States, GoneIsNoDir, Runners
<1>1. m3.pc # "off" /\ UNCHANGED <<config, now, logger, stack, closed, hasLog, zips, ts, saved, own>>
  BY DEF RunSingle, M3Begin, M3Mkdir, M3Getwd, M3EnterDir, M3WriteArtifact, M3Fin, M3Processed,
         M3Restore, M3Remove, M3Goto, proc, logs, frame, fs
<1>2. ~Capturing(Loop) /\ ~Capturing(Loop)' /\ \A q \in Runners : q # Loop => pc'[q] = pc[q]
  BY <1>0 DEF RunSingle, M3Begin, M3Mkdir, M3Getwd, M3EnterDir, M3WriteArtifact, M3Fin, M3Processed,
         M3Restore, M3Remove, M3Goto, LoopOff, Capturing, CaptureStates
<1>3. \A q \in Runners : q # Loop => pc[q] = "off"
  BY <1>1 DEF ModesOff, M3Mode, StandaloneMode, Runners
<1>4. \A q \in Runners : ~Capturing(q)' /\ pc'[q] # "sendLog"
  BY <1>2, <1>3 DEF Capturing, CaptureStates
<1>5. \A t : D(t)' = D(t) BY <1>1 DEF D
<1> DEFINE Names == {D(t) : t \in Nat \ {0}}
<1>6. Names' = Names BY <1>5
<1>7. m3.ts > 0 /\ m3.pc # "sleep" => D(m3.ts) \in Names /\ D(m3.ts) # StartDir
                                      /\ D(m3.ts) # StorageDir /\ D(m3.ts) \in Path
                                      /\ (cwd = StartDir => Resolve(m3.ts) = D(m3.ts))
  BY <1>0, DirOf
<1> HIDE DEF Names
<1> DEFINE Places == /\ M3Inv /\ FilesInv /\ {StartDir, StorageDir} \subseteq dirs
                     /\ dirs \subseteq {StartDir, StorageDir} \cup Names
                     /\ config.deferDelete => dirs \subseteq {StartDir, StorageDir, m3.own}
                     /\ cwd = IF InSession THEN m3.own ELSE StartDir
<1>8. Places /\ now > 0 BY DEF SessionInv, Names
<1>9. Places' => SessionInv' BY <1>1, <1>4, <1>6 DEF SessionInv, Names
<1> USE DEF M3Inv, FilesInv, InSession, M3Frames, M3States
<1>a. CASE M3Begin BY <1>0, <1>1, <1>5, <1>6, <1>8, <1>9, <1>a DEF M3Begin, fs
<1>b. CASE M3Mkdir
  <2>1. m3.pc = "mkdir" /\ m3.own = Gone /\ cwd = StartDir /\ m3.ts > 0
    BY <1>8, <1>b DEF M3Mkdir, M3Goto
  <2>2. CASE CanMkdir(m3.ts) /\ m3' = [m3 EXCEPT !.pc = "getwd", !.own = D(m3.ts)]
             /\ dirs' = dirs \cup {D(m3.ts)} /\ UNCHANGED <<cwd, files>>
    <3>1. m3'.pc = "getwd" /\ m3'.own = D(m3.ts) /\ m3'.ts = m3.ts BY <1>0, <2>2
    <3>2. M3Inv' BY <1>5, <2>1, <2>2, <3>1
    <3>q. QED BY <1>0, <1>1, <1>6, <1>7, <1>8, <1>9, <2>1, <2>2, <3>1, <3>2
  <2>3. CASE m3' = [m3 EXCEPT !.pc = "sleep"] /\ UNCHANGED <<cwd, dirs, files>>
    BY <1>0, <1>1, <1>5, <1>6, <1>8, <1>9, <2>1, <2>3
  <2>q. QED BY <1>7, <1>b, <2>1, <2>2, <2>3 DEF M3Mkdir, M3Goto, CanMkdir, fs
<1>c. CASE M3Getwd
  <2>1. m3.pc = "getwd" /\ cwd = StartDir /\ UNCHANGED <<cwd, dirs, files>>
    BY <1>8, <1>c DEF M3Getwd, fs
  <2>2. CASE m3' = [m3 EXCEPT !.pc = "remove"]
    BY <1>0, <1>1, <1>5, <1>6, <1>8, <1>9, <2>1, <2>2
  <2>3. CASE m3' = [m3 EXCEPT !.pc = "chdir", !.saved = StartDir]
    <3>1. m3'.pc = "chdir" /\ m3'.own = m3.own /\ m3'.ts = m3.ts /\ m3'.saved = StartDir
      BY <1>0, <2>3
    <3>q. QED BY <1>0, <1>1, <1>5, <1>6, <1>8, <1>9, <2>1, <3>1
  <2>q. QED BY <1>c, <2>1, <2>2, <2>3 DEF M3Getwd
<1>d. CASE M3EnterDir
  BY <1>0, <1>1, <1>5, <1>6, <1>7, <1>8, <1>9, <1>d DEF M3EnterDir, M3Goto, Chdir
<1>e. CASE M3WriteArtifact
  BY <1>0, <1>1, <1>5, <1>6, <1>8, <1>9, <1>e DEF M3WriteArtifact, M3Goto
<1>f. CASE M3Fin BY <1>0, <1>1, <1>5, <1>6, <1>8, <1>9, <1>f DEF M3Fin, M3Goto, fs
<1>g. CASE M3Processed BY <1>0, <1>1, <1>5, <1>6, <1>8, <1>9, <1>g DEF M3Processed, M3Goto, fs
<1>h. CASE M3Restore BY <1>0, <1>1, <1>5, <1>6, <1>8, <1>9, <1>h DEF M3Restore, M3Goto, Chdir
<1>i. CASE M3Remove
  <2>1. m3.pc = "remove" /\ m3.own = D(m3.ts) /\ m3.own \in dirs /\ cwd = StartDir
        /\ Resolve(m3.ts) = m3.own /\ m3.own # StartDir /\ m3.own # StorageDir
        /\ m3' = [m3 EXCEPT !.pc = "sleep", !.own = Gone]
    BY <1>7, <1>8, <1>i DEF M3Remove
  <2>2. m3'.pc = "sleep" /\ m3'.own = Gone /\ m3'.ts = m3.ts BY <1>0, <2>1
  <2>3. CASE config.deferDelete
    <3>1. RemoveTree(m3.own) BY <1>i, <2>1, <2>3 DEF M3Remove
    <3>2. m3.own \in Path /\ dirs \subseteq {StartDir, StorageDir, m3.own} BY <1>0, <1>8, <2>1, <2>3
    <3>3. Len(m3.own) \in {1, 2} BY <1>0, <2>1, DirOf
    <3>4. Len(StartDir) = 0 /\ Len(StorageDir) = 1 BY DEF StartDir, StorageDir
    <3>5. \A d \in dirs : Len(d) \in {0, 1} \/ Len(d) = Len(m3.own) BY <3>2, <3>4
    <3>6. \A d \in dirs : Len(d) <= Len(m3.own) BY <3>3, <3>5, NotDeeper
    <3>7. dirs' = dirs \ {m3.own} /\ files' = {f \in files : f.dir # m3.own} /\ cwd' = cwd
      BY <1>8, <2>1, <3>1, <3>2, <3>6, RemoveLeaf
    <3>q. QED BY <1>1, <1>6, <1>8, <1>9, <2>1, <2>2, <2>3, <3>2, <3>7
  <2>4. CASE ~config.deferDelete
    <3>1. UNCHANGED <<dirs, files, cwd>> BY <1>i, <2>4 DEF M3Remove
    <3>q. QED BY <1>1, <1>6, <1>8, <1>9, <2>1, <2>2, <2>4, <3>1
  <2>q. QED BY <2>3, <2>4
<1>q. QED BY <1>a, <1>b, <1>c, <1>d, <1>e, <1>f, <1>g, <1>h, <1>i DEF RunSingle

\* A step that moves no capture and touches neither directories nor logs.
LEMMA QuietStep ==
  ASSUME PlaceInv, now \in Nat, now' \in Nat, now' >= now, TypeOK,
         UNCHANGED <<config, cwd, dirs, files, zips, logger, stack, closed, hasLog, ts, saved, own, m3>>,
         \A q \in Runners : pc'[q] = pc[q] \/ (~Capturing(q) /\ ~Capturing(q)')
  PROVE  PlaceInv'
<1>0. \A t : D(t)' = D(t) BY DEF D
<1>1. {D(t) : t \in Nat \ {0}}' = {D(t) : t \in Nat \ {0}} BY <1>0
<1>2. \A q \in Runners : Capturing(q)' <=> Capturing(q) BY DEF Capturing
<1>3. \A q \in Runners : Capturing(q) => pc'[q] = pc[q] BY DEF Capturing
<1>4. \A q \in Runners : (Inside(q)' <=> Inside(q)) /\ (pc'[q] = "sendLog" <=> pc[q] = "sendLog")
  BY <1>2, <1>3 DEF Inside, Capturing, CaptureStates
<1>5. DirsInv' BY <1>1, <1>2, <1>3 DEF PlaceInv, DirsInv
<1>6. CwdInv' BY <1>4 DEF PlaceInv, CwdInv, InSession
<1>7. LogInv'
  <2>1. \A q \in Runners : hasLog[q] => Capturing(q)
    BY DEF PlaceInv, LogInv, Capturing, CaptureStates
  <2>q. QED BY <1>3, <1>4, <2>1 DEF PlaceInv, LogInv
<1>8. M3Inv'
  <2>1. m3.ts \in Nat BY DEF TypeOK
  <2>q. QED BY <1>0, <2>1 DEF PlaceInv, M3Inv
<1>9. FilesInv' BY DEF PlaceInv, FilesInv
<1>10. \A q \in Runners : Capturing(q)' => CaptureInv(q)'
  BY <1>0, <1>2, <1>3 DEF PlaceInv, CaptureInv, OwnDirInv, StayingInv, Base
<1>q. QED BY <1>5, <1>6, <1>7, <1>8, <1>9, <1>10 DEF PlaceInv

LEMMA PlaceStep ==
  OneInv /\ StandaloneMode /\ PlaceInv /\ [Next]_vars => PlaceInv' /\ StandaloneMode'
<1> SUFFICES ASSUME OneInv, StandaloneMode, PlaceInv, [Next]_vars
             PROVE  PlaceInv' /\ StandaloneMode'
  OBVIOUS
<1>1. config' = config
  BY DEF Next, FullCapture, Begin, Mkdir, Register, Getwd, EnterDir, StartLog, WriteArtifact, Finish,
     SendLog, StopLog, Restore, Zip, Remove, Release, Return, Arrive, Respond, RunSingle, M3Begin,
     M3Mkdir, M3Getwd, M3EnterDir, M3WriteArtifact, M3Fin, M3Processed, M3Restore, M3Remove,
     Signal, MainCompleted, Shutdown, Wait, Wake, Exit, Tick, Ended, vars, proc
<1>2. StandaloneMode' BY <1>1 DEF StandaloneMode, OnDemandMode
<1>3. OneInv' BY OneStep
<1>4. TypeOK /\ LoopOff /\ ModesOff BY DEF OneInv, TypeInv
<1>5. TypeOK' BY <1>3 DEF OneInv, TypeInv
<1>6. OneCapture /\ OneCapture'
  <2>1. OneCapture BY OneOfAll
  <2>2. (OneInv => (StandaloneMode => OneCapture))' BY OneOfAll, PTL
  <2>q. QED BY <1>2, <1>3, <2>1, <2>2
<1>7. ASSUME NEW r \in Runners, FullCapture(r) PROVE PlaceInv'
  <2>1. CASE config.m3
    <3>1. SessionInv BY <1>4, <2>1, SessionIs
    <3>2. SessionInv' BY <1>4, <1>7, <2>1, <3>1, StayingStep
    <3>3. (TypeOK /\ config.m3 => (PlaceInv <=> SessionInv))' BY SessionIs, PTL
    <3>q. QED BY <1>1, <1>5, <2>1, <3>2, <3>3
  <2>2. CASE ~config.m3
    <3>0. m3.pc = "off" BY <1>4, <2>2 DEF ModesOff, M3Mode
    <3>1. Capturing(r) \/ Capturing(r)'
      BY <1>4, <1>7 DEF FullCapture, Begin, Mkdir, Register, Getwd, EnterDir, StartLog, WriteArtifact,
         Finish, SendLog, StopLog, Restore, Zip, Remove, Release, Return, Goto, Capturing,
         CaptureStates, TypeOK
    <3>2. \A q \in Runners : q # r => pc'[q] = pc[q]
      BY <1>4, <1>7 DEF FullCapture, Begin, Mkdir, Register, Getwd, EnterDir, StartLog, WriteArtifact,
         Finish, SendLog, StopLog, Restore, Zip, Remove, Release, Return, Goto, TypeOK
    <3>3. m3' = m3
      BY <1>7 DEF FullCapture, Begin, Mkdir, Register, Getwd, EnterDir, StartLog, WriteArtifact,
         Finish, SendLog, StopLog, Restore, Zip, Remove, Release, Return
    <3>4. \A q \in Runners : q # r => ~Capturing(q) /\ ~Capturing(q)'
      BY <1>6, <3>1, <3>2 DEF OneCapture, Capturing
    <3>5. OwnAlone(r) /\ OwnAlone(r)' BY <1>1, <2>2, <3>0, <3>3, <3>4 DEF OwnAlone
    <3>6. AloneInv(r) BY <1>4, <3>5, AloneIs DEF AloneMeans
    <3>7. AloneInv(r)' BY <1>4, <1>7, <3>5, <3>6, AloneStep
    <3>8. AloneMeans' BY AloneIs, PTL
    <3>q. QED BY <1>5, <3>5, <3>7, <3>8 DEF AloneMeans
  <2>q. QED BY <2>1, <2>2
<1>8. ASSUME NEW r \in Runners, Arrive(r) \/ Respond(r) PROVE PlaceInv'
  <2>1. UNCHANGED <<config, now, cwd, dirs, files, zips, logger, stack, closed, hasLog, ts, saved,
                    own, m3>> /\ now \in Nat
    BY <1>4, <1>8 DEF Arrive, Respond, proc, fs, logs, frame, TypeOK
  <2>2. \A q \in Runners : pc'[q] = pc[q] \/ (~Capturing(q) /\ ~Capturing(q)')
    BY <1>4, <1>8 DEF Arrive, Respond, Goto, Capturing, CaptureStates, TypeOK
  <2>q. QED BY <1>4, <2>1, <2>2, QuietStep
<1>9. CASE RunSingle
  <2>1. m3.pc # "off"
    BY <1>9 DEF RunSingle, M3Begin, M3Mkdir, M3Getwd, M3EnterDir, M3WriteArtifact, M3Fin,
       M3Processed, M3Restore, M3Remove, M3Goto
  <2>2. config.m3 BY <1>4, <2>1 DEF ModesOff, M3Mode
  <2>3. SessionInv BY <1>4, <2>2, SessionIs
  <2>4. SessionInv' BY <1>4, <1>9, <2>2, <2>3, RoundStep
  <2>5. (TypeOK /\ config.m3 => (PlaceInv <=> SessionInv))' BY SessionIs, PTL
  <2>6. config'.m3 BY <1>1, <2>2
  <2>q. QED BY <1>2, <1>5, <2>4, <2>5, <2>6
<1>10. CASE Signal \/ MainCompleted \/ Shutdown \/ Tick \/ UNCHANGED vars
  <2>1. UNCHANGED <<config, cwd, dirs, files, zips, logger, stack, closed, hasLog, ts, saved,
                    own, m3, pc>> /\ now \in Nat /\ now' \in Nat /\ now' >= now
    BY <1>4, <1>10 DEF Signal, MainCompleted, Shutdown, Wait, Wake, Exit, Tick, vars, proc, fs, logs,
       frame, TypeOK
  <2>2. \A q \in Runners : pc'[q] = pc[q] \/ (~Capturing(q) /\ ~Capturing(q)') BY <2>1
  <2>q. QED BY <1>2, <1>4, <2>1, <2>2, QuietStep
<1>q. QED BY <1>2, <1>7, <1>8, <1>9, <1>10 DEF Next, Ended

\* In the modes the agent runs standalone every artifact is in the directory made for
\* it, no directory is left without a capture that removes it, the process comes back
\* to where it started, the agent log is the one of the capture in progress, a zip file
\* is of its own directory, and m3-fin's captures leave the round in its directory: for
\* any number of requests, processes, rounds and failures.
THEOREM EachStaysInItsPlace == Spec => [](StandaloneMode => EachInItsPlace)
<1>1. Init => (StandaloneMode => PlaceInv)
  <2> SUFFICES ASSUME Init, StandaloneMode PROVE PlaceInv OBVIOUS
  <2>1. \A r \in Runners : ~Capturing(r) /\ ~Inside(r) /\ pc[r] # "sendLog"
    BY DEF Init, Capturing, CaptureStates, Inside
  <2>q. QED BY <2>1 DEF Init, PlaceInv, DirsInv, FilesInv, CwdInv, LogInv, M3Inv, InSession
<1>2. OneInv /\ (StandaloneMode => PlaceInv) /\ [Next]_vars => (StandaloneMode => PlaceInv)'
  <2>1. ASSUME OneInv, [Next]_vars, StandaloneMode' PROVE StandaloneMode
    <3>1. config' = config
      BY <2>1 DEF Next, FullCapture, Begin, Mkdir, Register, Getwd, EnterDir, StartLog, WriteArtifact,
       Finish, SendLog, StopLog, Restore, Zip, Remove, Release, Return, Arrive, Respond, RunSingle,
       M3Begin, M3Mkdir, M3Getwd, M3EnterDir, M3WriteArtifact, M3Fin, M3Processed, M3Restore,
       M3Remove, Signal, MainCompleted, Shutdown, Wait, Wake, Exit, Tick, Ended, vars, proc
    <3>q. QED BY <2>1, <3>1 DEF StandaloneMode, OnDemandMode
  <2>q. QED BY <2>1, PlaceStep
<1>3. OneInv /\ (StandaloneMode => PlaceInv) => (StandaloneMode => EachInItsPlace)
  <2> SUFFICES ASSUME OneInv, StandaloneMode, PlaceInv PROVE EachInItsPlace OBVIOUS
  <2>1. ArtifactsInOwnDir BY DEF PlaceInv, FilesInv, ArtifactsInOwnDir
  <2>2. NoOrphanDir BY DEF PlaceInv, DirsInv, NoOrphanDir
  <2>3. CwdRestored
    BY DEF PlaceInv, CwdInv, CwdRestored, Quiet, InSession, Inside, Capturing, CaptureStates
  <2>4. AgentLogIsOwn BY DEF PlaceInv, LogInv, AgentLogIsOwn
  <2>5. ZipOfOwnDir
    <3>1. ASSUME NEW r \in Runners, config.onlyCapture, pc[r] = "remove",
                 \E f \in files : f.for = own[r]
          PROVE  \E z \in zips : z.for = own[r]
      BY <3>1 DEF PlaceInv, CaptureInv, OwnDirInv, Capturing, CaptureStates
    <3>q. QED BY <3>1 DEF PlaceInv, FilesInv, ZipOfOwnDir
  <2>6. SessionInItsDir BY DEF PlaceInv, M3Inv, CwdInv, InSession, SessionInItsDir
  <2>q. QED BY <2>1, <2>2, <2>3, <2>4, <2>5, <2>6 DEF EachInItsPlace
<1>q. QED BY <1>1, <1>2, <1>3, OneInit, OneStep, PTL DEF Spec
==============================================================================
