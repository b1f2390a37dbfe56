----------------------------- MODULE SectionsProofs -----------------------------
(***************************************************************************)
(* Proofs about Sections, for any numbers of sections, of calls and of     *)
(* calls that time out.  CallInv is about the workers: all but one have    *)
(* ended or belong to a call that timed out.  What a file holds follows    *)
(* from it: FileInv says what may be in it at the point the capture is at, *)
(* TriedInv what must be.                                                  *)
(***************************************************************************)
EXTENDS Sections, TLAPS

\* The worker of a call that did not time out has ended before the next call.
CallInv(c) ==
  /\ c > current => worker[c] = "off" /\ c \notin timedOut
  /\ worker[c] \in {"off", "start"} => process[c] = "none"
  /\ worker[c] \in {"drain", "report", "write", "send", "done"} => process[c] \in {"none", "reaped"}
  /\ c < current \/ (c = current /\ caller \in {"idle", "return"}) => c \in timedOut \/ worker[c] = "done"
  /\ c = current /\ caller \in {"kill", "wait", "drain"} => c \in timedOut
  /\ worker[c] \in {"write", "send", "done"} /\ c \notin timedOut => err[c] = failed[c]

\* At most one call for each attempt of each section.
CallsLeft ==
  at \in {"section", "try"} =>
    current + (IF caller = "idle" THEN 1 ELSE 0) <= (section - 1) * Attempts[capture] + attempt

CaptureInv ==
  /\ section >= 1
  /\ at \in {"section", "try"} <=> open
  /\ at # "try" => caller = "idle"
  /\ caller # "idle" => current \in Calls /\ usedBy[current] = <<section, attempt>>
  /\ at = "try" => section <= SectionsOf[capture]
  /\ at = "ok" => posted = file /\ section > SectionsOf[capture]
  /\ capture = "netstat" /\ attempt = 2 => caller = "idle"
  /\ at = "section" /\ capture # "ps" => attempt = 1
  /\ CallsLeft

\* A worker that has not written is not in the file.
WrittenInv ==
  \A k \in 1..Len(file) : file[k].kind = "output" =>
    file[k].of \in Calls /\ worker[file[k].of] \in {"send", "done"}

\* The output of the call that the capture is in.
IsCurrent(x) == caller # "idle" /\ x.kind = "output" /\ x.of = current

\* Nothing but late output is ahead of the capture.
BehindInv ==
  \A k \in 1..Len(file) : ~Late(file[k]) =>
    /\ at = "section" => Place(file[k])[1] < section
    /\ at = "try" => Before(Place(file[k]), <<section, attempt>>) \/ IsCurrent(file[k])

HeaderInv == capture # "disk" /\ at = "try" => \E l \in 1..Len(file) : file[l] = Header(section)

FileInv == WrittenInv /\ BehindInv /\ HeaderInv /\ InOrderUnderHeaders

\* What an attempt of a section printed, or the fact that it timed out.
Printed(s, a) == \E k \in 1..Len(file) : file[k].kind # "header" /\ Place(file[k]) = <<s, a>>
Expired(s) == \E c \in timedOut : usedBy[c][1] = s
Succeeded(s) == \E k \in 1..Len(file) :
                  file[k].kind # "header" /\ Place(file[k])[1] = s /\ ~file[k].failed

SectionTried(s) ==
  Succeeded(s) \/ (capture = "hdsub" /\ Printed(s, 1) /\ Printed(s, 2)) \/ Expired(s)

\* The worker of the present call has written what the call returns.
WroteInv ==
  /\ caller # "idle" /\ current \notin timedOut /\ worker[current] \in {"send", "done"} =>
       \E k \in 1..Len(file) : file[k] = Output(current)
  /\ \A k \in 1..Len(file) :
       file[k].kind = "output" /\ ~Late(file[k]) => file[k].failed = failed[file[k].of]

TriedInv ==
  /\ WroteInv
  /\ at # "failed" => \A s \in 1..(section - 1) : SectionTried(s)
  /\ at = "try" /\ capture = "hdsub" =>
       \A a \in 1..(attempt - 1) : Printed(section, a) \/ Expired(section)

\* All of one ps command, and without an error message once its call is over.
OneCommandInv ==
  capture = "ps" /\ at # "failed" =>
    \A k \in 1..Len(file) : file[k].kind = "output" /\ ~Late(file[k]) =>
      /\ Place(file[k])[2] = attempt
      /\ file[k].failed => IsCurrent(file[k])

IInv ==
  /\ TypeOK
  /\ \A c \in Calls : CallInv(c)
  /\ CaptureInv /\ FileInv /\ TriedInv /\ OneCommandInv

-----------------------------------------------------------------------------
\* Before the first step the invariant holds.
LEMMA InitInv == Init => IInv
<1> SUFFICES ASSUME Init PROVE IInv OBVIOUS
<1>0. capture \in Kinds /\ Attempts[capture] \in Nat \ {0} /\ MaxCalls \in Nat
  BY SectionsAssumption, CommandAssumption DEF Init, Kinds, Attempts
<1>1. TypeOK BY <1>0 DEF Init, CommandInit, TypeOK, Elements, Calls
<1>2. ASSUME NEW c \in Calls PROVE CallInv(c) BY <1>0 DEF Init, CommandInit, CallInv, Calls
<1>3. CaptureInv BY <1>0 DEF Init, CommandInit, CaptureInv, CallsLeft
<1>4. FileInv
  BY DEF Init, CommandInit, FileInv, WrittenInv, BehindInv, HeaderInv, InOrderUnderHeaders
<1>5. TriedInv BY DEF Init, CommandInit, TriedInv, WroteInv
<1>6. OneCommandInv BY DEF Init, CommandInit, OneCommandInv
<1>q. QED BY <1>1, <1>2, <1>3, <1>4, <1>5, <1>6 DEF IInv

\* The capture's part of the invariant is not disturbed by a step that leaves the file,
\* the capture and the results of the workers that have written alone.
LEMMA FileKept ==
  ASSUME IInv, UNCHANGED <<captureVars, file, open, timedOut, current>>,
         caller' = "idle" <=> caller = "idle",
         \A c \in Calls : worker[c] \in {"send", "done"} =>
           worker'[c] \in {"send", "done"} /\ failed'[c] = failed[c],
         \A c \in Calls : worker'[c] \in {"send", "done"} => worker[c] \in {"send", "done"}
  PROVE  CaptureInv' /\ FileInv' /\ TriedInv' /\ OneCommandInv'
<1> USE DEF IInv
<1>1. CaptureInv' BY DEF CaptureInv, CallsLeft, captureVars
<1>2. WrittenInv' BY DEF FileInv, WrittenInv
<1>3. BehindInv' BY DEF FileInv, BehindInv, IsCurrent, Late, Place, captureVars
<1>4. HeaderInv' BY DEF FileInv, HeaderInv, captureVars
<1>5. InOrderUnderHeaders' BY DEF FileInv, InOrderUnderHeaders, Late, Place, captureVars
<1>6. WroteInv'
  <2>1. caller # "idle" => current \in Calls BY DEF CaptureInv
  <2>q. QED BY <2>1 DEF TriedInv, WroteInv, FileInv, WrittenInv, Late, Output
<1>7. TriedInv'
  BY <1>6 DEF TriedInv, SectionTried, Succeeded, Printed, Expired, Place, captureVars
<1>8. OneCommandInv' BY DEF OneCommandInv, IsCurrent, Late, Place, captureVars
<1>q. QED BY <1>1, <1>2, <1>3, <1>4, <1>5, <1>7, <1>8 DEF FileInv

\* A command exits; its worker has not looked at it yet.
LEMMA ExitInv ==
  ASSUME IInv, NEW c \in Calls, Exit(c), UNCHANGED captureVars PROVE IInv'
<1>0. TypeOK /\ CaptureInv /\ \A d \in Calls : CallInv(d) BY DEF IInv
<1>1. TypeOK' BY <1>0 DEF Exit, TypeOK, captureVars
<1>2. \A d \in Calls : CallInv(d)' BY <1>0 DEF Exit, TypeOK, CallInv, CaptureInv
<1>3. CaptureInv' /\ FileInv' /\ TriedInv' /\ OneCommandInv'
  <2>1. UNCHANGED <<captureVars, file, open, timedOut, current>> BY DEF Exit
  <2>2. caller' = "idle" <=> caller = "idle" BY DEF Exit
  <2>3. \A d \in Calls : worker[d] \in {"send", "done"} =>
          worker'[d] \in {"send", "done"} /\ failed'[d] = failed[d]
    BY <1>0 DEF Exit, TypeOK, CallInv, CaptureInv
  <2>4. \A d \in Calls : worker'[d] \in {"send", "done"} => worker[d] \in {"send", "done"}
    BY <1>0 DEF Exit, TypeOK
  <2>q. QED BY <2>1, <2>2, <2>3, <2>4, FileKept
<1>q. QED BY <1>1, <1>2, <1>3 DEF IInv

\* The output ends.
LEMMA CloseOutputInv ==
  ASSUME IInv, NEW c \in Calls, CloseOutput(c), UNCHANGED captureVars PROVE IInv'
<1>0. TypeOK /\ CaptureInv /\ \A d \in Calls : CallInv(d) BY DEF IInv
<1>1. TypeOK' BY <1>0 DEF CloseOutput, TypeOK, captureVars
<1>2. \A d \in Calls : CallInv(d)' BY <1>0 DEF CloseOutput, TypeOK, CallInv, CaptureInv
<1>3. CaptureInv' /\ FileInv' /\ TriedInv' /\ OneCommandInv'
  <2>1. UNCHANGED <<captureVars, file, open, timedOut, current>> BY DEF CloseOutput
  <2>2. caller' = "idle" <=> caller = "idle" BY DEF CloseOutput
  <2>3. \A d \in Calls : worker[d] \in {"send", "done"} =>
          worker'[d] \in {"send", "done"} /\ failed'[d] = failed[d]
    BY <1>0 DEF CloseOutput, TypeOK, CallInv, CaptureInv
  <2>4. \A d \in Calls : worker'[d] \in {"send", "done"} => worker[d] \in {"send", "done"}
    BY <1>0 DEF CloseOutput, TypeOK
  <2>q. QED BY <2>1, <2>2, <2>3, <2>4, FileKept
<1>q. QED BY <1>1, <1>2, <1>3 DEF IInv

\* The worker starts the command, or cannot.
LEMMA StartInv ==
  ASSUME IInv, NEW c \in Calls, Start(c), UNCHANGED captureVars PROVE IInv'
<1>0. TypeOK /\ CaptureInv /\ \A d \in Calls : CallInv(d) BY DEF IInv
<1>1. TypeOK' BY <1>0 DEF Start, Work, TypeOK, captureVars
<1>2. ASSUME NEW d \in Calls PROVE CallInv(d)'
  <2>1. CASE d = c BY <1>0, <2>1 DEF Start, Work, TypeOK, CallInv
  <2>2. CASE d # c BY <1>0, <2>2 DEF Start, Work, TypeOK, CallInv
  <2>q. QED BY <2>1, <2>2
<1>3. CaptureInv' /\ FileInv' /\ TriedInv' /\ OneCommandInv'
  <2>1. UNCHANGED <<captureVars, file, open, timedOut, current>> BY DEF Start
  <2>2. caller' = "idle" <=> caller = "idle" BY DEF Start, Work
  <2>3. \A d \in Calls : worker[d] \in {"send", "done"} =>
          worker'[d] \in {"send", "done"} /\ failed'[d] = failed[d]
    BY <1>0 DEF Start, Work, TypeOK, CallInv, CaptureInv
  <2>4. \A d \in Calls : worker'[d] \in {"send", "done"} => worker[d] \in {"send", "done"}
    BY <1>0 DEF Start, Work, TypeOK
  <2>q. QED BY <2>1, <2>2, <2>3, <2>4, FileKept
<1>q. QED BY <1>1, <1>2, <1>3 DEF IInv

\* The worker has the command's state, or an error when the caller was first.
LEMMA WorkerWaitInv ==
  ASSUME IInv, NEW c \in Calls, WorkerWait(c), UNCHANGED captureVars PROVE IInv'
<1>0. TypeOK /\ CaptureInv /\ \A d \in Calls : CallInv(d) BY DEF IInv
<1>1. TypeOK' BY <1>0 DEF WorkerWait, Work, Reap, TypeOK, captureVars
<1>2. \A d \in Calls : CallInv(d)' BY <1>0 DEF WorkerWait, Work, Reap, TypeOK, CallInv, CaptureInv
<1>3. CaptureInv' /\ FileInv' /\ TriedInv' /\ OneCommandInv'
  <2>1. UNCHANGED <<captureVars, file, open, timedOut, current>> BY DEF WorkerWait
  <2>2. caller' = "idle" <=> caller = "idle" BY DEF WorkerWait, Work, Reap
  <2>3. \A d \in Calls : worker[d] \in {"send", "done"} =>
          worker'[d] \in {"send", "done"} /\ failed'[d] = failed[d]
    BY <1>0 DEF WorkerWait, Work, Reap, TypeOK, CallInv, CaptureInv
  <2>4. \A d \in Calls : worker'[d] \in {"send", "done"} => worker[d] \in {"send", "done"}
    BY <1>0 DEF WorkerWait, Work, Reap, TypeOK
  <2>q. QED BY <2>1, <2>2, <2>3, <2>4, FileKept
<1>q. QED BY <1>1, <1>2, <1>3 DEF IInv

\* The worker has the output.
LEMMA WorkerDrainInv ==
  ASSUME IInv, NEW c \in Calls, WorkerDrain(c), UNCHANGED captureVars PROVE IInv'
<1>0. TypeOK /\ CaptureInv /\ \A d \in Calls : CallInv(d) BY DEF IInv
<1>1. TypeOK' BY <1>0 DEF WorkerDrain, Work, Take, TypeOK, captureVars
<1>2. \A d \in Calls : CallInv(d)' BY <1>0 DEF WorkerDrain, Work, Take, TypeOK, CallInv, CaptureInv
<1>3. CaptureInv' /\ FileInv' /\ TriedInv' /\ OneCommandInv'
  <2>1. UNCHANGED <<captureVars, file, open, timedOut, current>> BY DEF WorkerDrain
  <2>2. caller' = "idle" <=> caller = "idle" BY DEF WorkerDrain, Work, Take
  <2>3. \A d \in Calls : worker[d] \in {"send", "done"} =>
          worker'[d] \in {"send", "done"} /\ failed'[d] = failed[d]
    BY <1>0 DEF WorkerDrain, Work, Take, TypeOK, CallInv, CaptureInv
  <2>4. \A d \in Calls : worker'[d] \in {"send", "done"} => worker[d] \in {"send", "done"}
    BY <1>0 DEF WorkerDrain, Work, Take, TypeOK
  <2>q. QED BY <2>1, <2>2, <2>3, <2>4, FileKept
<1>q. QED BY <1>1, <1>2, <1>3 DEF IInv

\* The result of the call is the command's.
LEMMA ReportInv ==
  ASSUME IInv, NEW c \in Calls, Report(c), UNCHANGED captureVars PROVE IInv'
<1>0. TypeOK /\ CaptureInv /\ \A d \in Calls : CallInv(d) BY DEF IInv
<1>1. TypeOK' BY <1>0 DEF Report, Work, TypeOK, captureVars
<1>2. \A d \in Calls : CallInv(d)' BY <1>0 DEF Report, Work, TypeOK, CallInv, CaptureInv
<1>3. CaptureInv' /\ FileInv' /\ TriedInv' /\ OneCommandInv'
  <2>1. UNCHANGED <<captureVars, file, open, timedOut, current>> BY DEF Report
  <2>2. caller' = "idle" <=> caller = "idle" BY DEF Report, Work
  <2>3. \A d \in Calls : worker[d] \in {"send", "done"} =>
          worker'[d] \in {"send", "done"} /\ failed'[d] = failed[d]
    BY <1>0 DEF Report, Work, TypeOK, CallInv, CaptureInv
  <2>4. \A d \in Calls : worker'[d] \in {"send", "done"} => worker[d] \in {"send", "done"}
    BY <1>0 DEF Report, Work, TypeOK
  <2>q. QED BY <2>1, <2>2, <2>3, <2>4, FileKept
<1>q. QED BY <1>1, <1>2, <1>3 DEF IInv

\* Only the worker of the present call finds the caller in its select.
LEMMA SendInv ==
  ASSUME IInv, NEW c \in Calls, Send(c), UNCHANGED captureVars PROVE IInv'
<1>0. TypeOK /\ CaptureInv /\ \A d \in Calls : CallInv(d) BY DEF IInv
<1>1. TypeOK' BY <1>0 DEF Send, Work, CallerGoto, TypeOK, captureVars
<1>2. \A d \in Calls : CallInv(d)' BY <1>0 DEF Send, Work, CallerGoto, TypeOK, CallInv, CaptureInv
<1>3. CaptureInv' /\ FileInv' /\ TriedInv' /\ OneCommandInv'
  <2>1. UNCHANGED <<captureVars, file, open, timedOut, current>> BY DEF Send
  <2>2. caller' = "idle" <=> caller = "idle" BY DEF Send, Work, CallerGoto
  <2>3. \A d \in Calls : worker[d] \in {"send", "done"} =>
          worker'[d] \in {"send", "done"} /\ failed'[d] = failed[d]
    BY <1>0 DEF Send, Work, CallerGoto, TypeOK, CallInv, CaptureInv
  <2>4. \A d \in Calls : worker'[d] \in {"send", "done"} => worker[d] \in {"send", "done"}
    BY <1>0 DEF Send, Work, CallerGoto, TypeOK
  <2>q. QED BY <2>1, <2>2, <2>3, <2>4, FileKept
<1>q. QED BY <1>1, <1>2, <1>3 DEF IInv

\* A kill changes the state of a command that nobody has waited for.
LEMMA KillInv ==
  ASSUME IInv, Kill, UNCHANGED captureVars PROVE IInv'
<1>0. TypeOK /\ CaptureInv /\ \A d \in Calls : CallInv(d) BY DEF IInv
<1>1. TypeOK' BY <1>0 DEF Kill, CallerGoto, TypeOK, captureVars
<1>2. \A d \in Calls : CallInv(d)' BY <1>0 DEF Kill, CallerGoto, TypeOK, CallInv, CaptureInv
<1>3. CaptureInv' /\ FileInv' /\ TriedInv' /\ OneCommandInv'
  <2>1. UNCHANGED <<captureVars, file, open, timedOut, current>> BY DEF Kill
  <2>2. caller' = "idle" <=> caller = "idle" BY DEF Kill, CallerGoto
  <2>3. \A d \in Calls : worker[d] \in {"send", "done"} =>
          worker'[d] \in {"send", "done"} /\ failed'[d] = failed[d]
    BY <1>0 DEF Kill, CallerGoto, TypeOK, CallInv, CaptureInv
  <2>4. \A d \in Calls : worker'[d] \in {"send", "done"} => worker[d] \in {"send", "done"}
    BY <1>0 DEF Kill, CallerGoto, TypeOK
  <2>q. QED BY <2>1, <2>2, <2>3, <2>4, FileKept
<1>q. QED BY <1>1, <1>2, <1>3 DEF IInv

\* The caller waits for the command it has killed.
LEMMA CallerWaitInv ==
  ASSUME IInv, CallerWait, UNCHANGED captureVars PROVE IInv'
<1>0. TypeOK /\ CaptureInv /\ \A d \in Calls : CallInv(d) BY DEF IInv
<1>1. TypeOK' BY <1>0 DEF CallerWait, Reap, TypeOK, captureVars
<1>2. \A d \in Calls : CallInv(d)' BY <1>0 DEF CallerWait, Reap, TypeOK, CallInv, CaptureInv
<1>3. CaptureInv' /\ FileInv' /\ TriedInv' /\ OneCommandInv'
  <2>1. UNCHANGED <<captureVars, file, open, timedOut, current>> BY DEF CallerWait
  <2>2. caller' = "idle" <=> caller = "idle" BY DEF CallerWait, Reap
  <2>3. \A d \in Calls : worker[d] \in {"send", "done"} =>
          worker'[d] \in {"send", "done"} /\ failed'[d] = failed[d]
    BY <1>0 DEF CallerWait, Reap, TypeOK, CallInv, CaptureInv
  <2>4. \A d \in Calls : worker'[d] \in {"send", "done"} => worker[d] \in {"send", "done"}
    BY <1>0 DEF CallerWait, Reap, TypeOK
  <2>q. QED BY <2>1, <2>2, <2>3, <2>4, FileKept
<1>q. QED BY <1>1, <1>2, <1>3 DEF IInv

\* And for its output.
LEMMA CallerDrainInv ==
  ASSUME IInv, CallerDrain, UNCHANGED captureVars PROVE IInv'
<1>0. TypeOK /\ CaptureInv /\ \A d \in Calls : CallInv(d) BY DEF IInv
<1>1. TypeOK' BY <1>0 DEF CallerDrain, CallerGoto, Take, TypeOK, captureVars
<1>2. \A d \in Calls : CallInv(d)' BY <1>0 DEF CallerDrain, CallerGoto, Take, TypeOK, CallInv, CaptureInv
<1>3. CaptureInv' /\ FileInv' /\ TriedInv' /\ OneCommandInv'
  <2>1. UNCHANGED <<captureVars, file, open, timedOut, current>> BY DEF CallerDrain
  <2>2. caller' = "idle" <=> caller = "idle" BY DEF CallerDrain, CallerGoto, Take
  <2>3. \A d \in Calls : worker[d] \in {"send", "done"} =>
          worker'[d] \in {"send", "done"} /\ failed'[d] = failed[d]
    BY <1>0 DEF CallerDrain, CallerGoto, Take, TypeOK, CallInv, CaptureInv
  <2>4. \A d \in Calls : worker'[d] \in {"send", "done"} => worker[d] \in {"send", "done"}
    BY <1>0 DEF CallerDrain, CallerGoto, Take, TypeOK
  <2>q. QED BY <2>1, <2>2, <2>3, <2>4, FileKept
<1>q. QED BY <1>1, <1>2, <1>3 DEF IInv

\* The elements of a file that something was appended to.
LEMMA Appended ==
  ASSUME file \in Seq(Elements), NEW x \in Elements, file' = Append(file, x)
  PROVE  /\ Len(file') = Len(file) + 1 /\ Len(file) \in Nat
         /\ \A k \in 1..Len(file) : file'[k] = file[k]
         /\ file'[Len(file) + 1] = x
OBVIOUS

\* What was found in the file is found in it still.
LEMMA TriedKept ==
  ASSUME UNCHANGED <<capture, usedBy>>, timedOut \subseteq timedOut',
         Len(file) \in Nat, Len(file') \in Nat, Len(file') >= Len(file),
         \A k \in 1..Len(file) : file'[k] = file[k]
  PROVE  /\ \A s : SectionTried(s) => SectionTried(s)'
         /\ \A s : Expired(s) => Expired(s)'
         /\ \A s, a : Printed(s, a) => Printed(s, a)'
<1>1. \A k \in 1..Len(file) : k \in 1..Len(file') OBVIOUS
<1>2. \A y : Place(y)' = Place(y) BY DEF Place
<1>3. ASSUME NEW s, NEW a, Printed(s, a) PROVE Printed(s, a)'
  <2>1. PICK k \in 1..Len(file) : file[k].kind # "header" /\ Place(file[k]) = <<s, a>>
    BY <1>3 DEF Printed
  <2>2. k \in 1..Len(file') /\ file'[k] = file[k] BY <1>1
  <2>q. QED BY <1>2, <2>1, <2>2 DEF Printed
<1>4. ASSUME NEW s, Succeeded(s) PROVE Succeeded(s)'
  <2>1. PICK k \in 1..Len(file) : file[k].kind # "header" /\ Place(file[k])[1] = s /\ ~file[k].failed
    BY <1>4 DEF Succeeded
  <2>2. k \in 1..Len(file') /\ file'[k] = file[k] BY <1>1
  <2>q. QED BY <1>2, <2>1, <2>2 DEF Succeeded
<1>5. ASSUME NEW s, Expired(s) PROVE Expired(s)' BY <1>5 DEF Expired
<1>q. QED BY <1>3, <1>4, <1>5 DEF SectionTried

\* A worker writes: that of the present call, below the header and behind all that
\* is not late, or one whose call timed out.
LEMMA WriteInv == ASSUME IInv, NEW c \in Calls, Write(c), UNCHANGED captureVars PROVE IInv'
<1>0. TypeOK /\ CaptureInv /\ FileInv /\ TriedInv /\ OneCommandInv /\ \A d \in Calls : CallInv(d)
  BY DEF IInv
<1> DEFINE x == Output(c)
<1>1. c \in timedOut \/ (c = current /\ caller = "select" /\ at = "try" /\ open)
  BY <1>0 DEF Write, Work, CallInv, CaptureInv, TypeOK, Calls
<1>2. x \in Elements /\ x.kind = "output" /\ x.of = c /\ x.failed = failed[c]
  BY <1>0, CommandAssumption DEF Output, Elements, TypeOK, Calls
<1>3. TypeOK'
  <2>1. file' \in Seq(Elements) BY <1>0, <1>2 DEF Write, TypeOK
  <2>2. err' \in [Calls -> BOOLEAN] BY <1>0 DEF Write, TypeOK
  <2>3. worker' \in [Calls -> {"off", "start", "wait", "drain", "report", "write", "send", "done"}]
    BY <1>0 DEF Write, Work, TypeOK
  <2>q. QED BY <1>0, <2>1, <2>2, <2>3 DEF Write, TypeOK, captureVars
<1>4. ASSUME NEW d \in Calls PROVE CallInv(d)'
  <2>1. CASE d = c BY <1>0, <1>1, <2>1 DEF Write, Work, TypeOK, CallInv
  <2>2. CASE d # c BY <1>0, <2>2 DEF Write, Work, TypeOK, CallInv
  <2>q. QED BY <2>1, <2>2
<1>5. worker[c] = "write" /\ worker' = [worker EXCEPT ![c] = "send"] BY DEF Write, Work
<1>6. UNCHANGED <<captureVars, current, caller, failed, timedOut, open>> BY DEF Write
<1>7. CASE ~open
  <2>1. file' = file BY <1>7 DEF Write
  <2>2. CaptureInv' BY <1>0, <1>6, <2>1 DEF CaptureInv, CallsLeft, captureVars
  <2>3. FileInv'
    <3>1. \A y : Late(y)' = Late(y) /\ Place(y)' = Place(y) /\ IsCurrent(y)' = IsCurrent(y)
      BY <1>6 DEF Late, Place, IsCurrent, captureVars
    <3>2. WrittenInv' BY <1>0, <1>5, <2>1 DEF FileInv, WrittenInv, TypeOK
    <3>3. BehindInv' BY <1>0, <1>6, <2>1, <3>1 DEF FileInv, BehindInv, captureVars
    <3>4. HeaderInv' BY <1>0, <1>6, <2>1 DEF FileInv, HeaderInv, captureVars
    <3>5. InOrderUnderHeaders' BY <1>0, <1>6, <2>1, <3>1 DEF FileInv, InOrderUnderHeaders, captureVars
    <3>q. QED BY <3>2, <3>3, <3>4, <3>5 DEF FileInv
  <2>4. TriedInv'
    BY <1>0, <1>6, <1>7, <2>1
    DEF CaptureInv, TriedInv, WroteInv, Late, SectionTried, Succeeded, Printed, Expired, Place, captureVars
  <2>5. OneCommandInv' BY <1>0, <1>6, <2>1 DEF OneCommandInv, IsCurrent, Late, Place, captureVars
  <2>q. QED BY <1>3, <1>4, <2>2, <2>3, <2>4, <2>5 DEF IInv
<1>8. CASE open
  <2>1. file' = Append(file, x) BY <1>8 DEF Write
  <2>2. /\ Len(file') = Len(file) + 1 /\ Len(file) \in Nat
        /\ \A k \in 1..Len(file) : file'[k] = file[k]
        /\ file'[Len(file) + 1] = x
    BY <1>0, <1>2, <2>1, Appended DEF TypeOK
  <2>3. \A k \in 1..Len(file') : k = Len(file) + 1 \/ k \in 1..Len(file) BY <2>2
  <2>4. ~Late(x) => c = current /\ caller = "select" /\ at = "try" /\ Place(x) = <<section, attempt>>
    BY <1>0, <1>1, <1>2 DEF Late, Place, CaptureInv
  <2>5. \A y : Late(y)' = Late(y) /\ Place(y)' = Place(y) /\ IsCurrent(y)' = IsCurrent(y)
    BY <1>6 DEF Late, Place, IsCurrent, captureVars
  <2>6. CaptureInv'
    BY <1>0, <1>6, <1>8 DEF CaptureInv, CallsLeft, captureVars
  <2>7. WrittenInv'
    <3>1. \A d \in Calls : worker'[d] = (IF d = c THEN "send" ELSE worker[d])
      BY <1>0, <1>5 DEF TypeOK
    <3>2. ASSUME NEW k \in 1..Len(file'), file'[k].kind = "output"
          PROVE  file'[k].of \in Calls /\ worker'[file'[k].of] \in {"send", "done"}
      <4>1. CASE k = Len(file) + 1 BY <1>2, <2>2, <3>1, <4>1
      <4>2. CASE k \in 1..Len(file) BY <1>0, <2>2, <3>1, <3>2, <4>2 DEF FileInv, WrittenInv
      <4>q. QED BY <2>3, <4>1, <4>2
    <3>q. QED BY <3>2 DEF WrittenInv
  <2>8. BehindInv'
    <3>1. ~Late(x) => IsCurrent(x) BY <1>2, <2>4 DEF IsCurrent
    <3>q. QED BY <1>0, <1>6, <2>2, <2>3, <2>4, <2>5, <3>1 DEF FileInv, BehindInv, captureVars
  <2>9. HeaderInv' BY <1>0, <1>6, <2>2 DEF FileInv, HeaderInv, captureVars
  <2>10. InOrderUnderHeaders'
    <3>1. ASSUME NEW k \in 1..Len(file), ~Late(file[k]), ~Late(x) PROVE Before(Place(file[k]), Place(x))
      <4>1. ~IsCurrent(file[k]) BY <1>0, <1>5, <2>4, <3>1 DEF FileInv, WrittenInv, IsCurrent
      <4>q. QED BY <1>0, <2>4, <3>1, <4>1 DEF FileInv, BehindInv
    <3>2. ASSUME ~Late(x), capture # "disk"
          PROVE  \E l \in 1..Len(file) : file[l] = Header(Place(x)[1])
      BY <1>0, <2>4, <3>2 DEF FileInv, HeaderInv
    <3>3. ASSUME NEW k \in 1..Len(file'), ~Late(file'[k])
          PROVE  /\ \A l \in (k + 1)..Len(file') : ~Late(file'[l]) => Before(Place(file'[k]), Place(file'[l]))
                 /\ capture # "disk" => \E l \in 1..k : file'[l] = Header(Place(file'[k])[1])
      <4>1. CASE k = Len(file) + 1 BY <2>2, <3>2, <3>3, <4>1
      <4>2. CASE k \in 1..Len(file)
        <5>1. ~Late(file[k]) BY <2>2, <3>3, <4>2
        <5>2. ASSUME NEW l \in (k + 1)..Len(file'), ~Late(file'[l]) PROVE Before(Place(file'[k]), Place(file'[l]))
          <6>1. CASE l = Len(file) + 1 BY <2>2, <3>1, <4>2, <5>1, <5>2, <6>1
          <6>2. CASE l \in (k + 1)..Len(file)
            BY <1>0, <2>2, <4>2, <5>1, <5>2, <6>2 DEF FileInv, InOrderUnderHeaders
          <6>q. QED BY <2>2, <4>2, <5>2, <6>1, <6>2
        <5>3. capture # "disk" => \E l \in 1..k : file'[l] = Header(Place(file'[k])[1])
          BY <1>0, <2>2, <4>2, <5>1 DEF FileInv, InOrderUnderHeaders
        <5>q. QED BY <5>2, <5>3
      <4>q. QED BY <2>3, <4>1, <4>2
    <3>4. capture' = capture BY <1>6 DEF captureVars
    <3>5. \A y : Header(y)' = Header(y) BY DEF Header
    <3>q. QED BY <2>5, <3>3, <3>4 DEF InOrderUnderHeaders, Header
  <2>11. TriedInv'
    <3>1. WroteInv'
      <4>1. Output(c)' = x BY <1>6 DEF Output
      <4>2. caller # "idle" => current \in Calls BY <1>0 DEF CaptureInv
      <4>3. \A d \in Calls : Output(d)' = Output(d) BY <1>6 DEF Output
      <4>4. ASSUME caller' # "idle", current' \notin timedOut', worker'[current'] \in {"send", "done"}
            PROVE  \E k \in 1..Len(file') : file'[k] = Output(current)
        <5>1. CASE current = c BY <2>2, <5>1
        <5>2. CASE current # c
          BY <1>0, <1>5, <1>6, <2>2, <4>2, <4>4, <5>2 DEF TriedInv, WroteInv, TypeOK
        <5>q. QED BY <5>1, <5>2
      <4>5. ASSUME NEW k \in 1..Len(file'), file'[k].kind = "output", ~Late(file'[k])
            PROVE  file'[k].failed = failed'[file'[k].of]
        BY <1>0, <1>2, <1>6, <2>2, <2>3, <2>5, <4>5 DEF TriedInv, WroteInv
      <4>q. QED BY <1>6, <2>5, <4>2, <4>3, <4>4, <4>5 DEF WroteInv
    <3>2. UNCHANGED <<capture, usedBy>> /\ timedOut \subseteq timedOut' BY <1>6 DEF captureVars
    <3>3. /\ \A s : SectionTried(s) => SectionTried(s)'
          /\ \A s : Expired(s) => Expired(s)'
          /\ \A s, a : Printed(s, a) => Printed(s, a)'
      BY <2>2, <3>2, TriedKept
    <3>q. QED BY <1>0, <1>6, <3>1, <3>3 DEF TriedInv, captureVars
  <2>12. OneCommandInv'
    <3>1. ~Late(x) => Place(x)[2] = attempt /\ IsCurrent(x) BY <1>2, <2>4 DEF IsCurrent
    <3>q. QED BY <1>0, <1>6, <2>2, <2>3, <2>5, <3>1 DEF OneCommandInv, captureVars
  <2>q. QED BY <1>3, <1>4, <2>6, <2>7, <2>8, <2>9, <2>10, <2>11, <2>12 DEF IInv, FileInv
<1>q. QED BY <1>7, <1>8

\* The timer fires: from now on what the worker writes, or has written, is late.
LEMMA TimeOutInv == ASSUME IInv, TimeOut, UNCHANGED captureVars PROVE IInv'
<1>0. TypeOK /\ CaptureInv /\ FileInv /\ TriedInv /\ OneCommandInv /\ \A d \in Calls : CallInv(d)
  BY DEF IInv
<1>1. /\ caller = "select" /\ caller' = "kill" /\ timedOut' = timedOut \cup {current}
      /\ UNCHANGED <<captureVars, current, worker, process, pipe, failed, err, file, open>>
  BY DEF TimeOut, CallerGoto, command
<1>2. current \in Calls BY <1>0, <1>1 DEF CaptureInv
<1>3. TypeOK' BY <1>0, <1>1, <1>2 DEF TypeOK, captureVars
<1>4. \A d \in Calls : CallInv(d)' BY <1>0, <1>1 DEF CallInv, TypeOK, Calls
<1>5. CaptureInv' BY <1>0, <1>1 DEF CaptureInv, CallsLeft, captureVars
<1>6. \A y : (~Late(y)' => ~Late(y)) /\ Place(y)' = Place(y) /\ IsCurrent(y)' = IsCurrent(y)
  BY <1>1 DEF Late, Place, IsCurrent, captureVars
<1>7. FileInv'
  <2>1. WrittenInv' /\ BehindInv' /\ HeaderInv'
    BY <1>0, <1>1, <1>6 DEF FileInv, WrittenInv, BehindInv, HeaderInv, captureVars
  <2>2. InOrderUnderHeaders' BY <1>0, <1>1, <1>6 DEF FileInv, InOrderUnderHeaders, captureVars
  <2>q. QED BY <2>1, <2>2 DEF FileInv
<1>8. TriedInv'
  <2>1. UNCHANGED <<capture, usedBy>> /\ timedOut \subseteq timedOut' /\ file' = file
    BY <1>1 DEF captureVars
  <2>2. Len(file) \in Nat BY <1>0 DEF TypeOK
  <2>3. /\ \A s : SectionTried(s) => SectionTried(s)'
        /\ \A s : Expired(s) => Expired(s)'
        /\ \A s, a : Printed(s, a) => Printed(s, a)'
    BY <2>1, <2>2, TriedKept
  <2>4. WroteInv' BY <1>0, <1>1, <1>6 DEF TriedInv, WroteInv
  <2>q. QED BY <1>0, <1>1, <2>3, <2>4 DEF TriedInv, captureVars
<1>9. OneCommandInv' BY <1>0, <1>1, <1>6 DEF OneCommandInv, captureVars
<1>q. QED BY <1>3, <1>4, <1>5, <1>7, <1>8, <1>9 DEF IInv

\* Each kind of capture has its number of attempts.
LEMMA AttemptsOf ==
  ASSUME capture \in Captures
  PROVE  /\ capture \in Kinds /\ Attempts[capture] \in 1..3
         /\ capture = "hdsub" => Attempts[capture] = 3
         /\ SectionsOf[capture] \in Nat
         /\ MaxCalls >= SectionsOf[capture] * Attempts[capture]
BY SectionsAssumption DEF Kinds, Attempts

\* An element of the file stands in an attempt of a section.
LEMMA PlaceType ==
  ASSUME IInv, NEW k \in 1..Len(file)
  PROVE  file[k] \in Elements /\ Place(file[k]) \in Nat \X Nat
<1>1. file[k] \in Elements BY DEF IInv, TypeOK
<1>2. file[k].kind = "output" => file[k].of \in Calls BY DEF IInv, FileInv, WrittenInv
<1>3. usedBy \in [Calls -> Nat \X Nat] BY DEF IInv, TypeOK
<1>q. QED BY <1>1, <1>2, <1>3 DEF Elements, Place

\* When a call has returned its output is in the file, or it timed out; and the value
\* it returns is the result of its command.
LEMMA HasReturned ==
  ASSUME IInv, caller = "return"
  PROVE  /\ Printed(section, attempt) \/ Expired(section)
         /\ ~err[current] => SectionTried(section)
         /\ ~err[current] => \A k \in 1..Len(file) :
              IsCurrent(file[k]) /\ ~Late(file[k]) => ~file[k].failed
<1>0. TypeOK /\ CaptureInv /\ TriedInv /\ \A d \in Calls : CallInv(d) BY DEF IInv
<1>1. current \in Calls /\ usedBy[current] = <<section, attempt>> BY <1>0 DEF CaptureInv
<1>2. CASE current \in timedOut
  <2>1. Expired(section) BY <1>1, <1>2 DEF Expired
  <2>q. QED BY <1>2, <2>1 DEF SectionTried, IsCurrent, Late
<1>3. CASE current \notin timedOut
  <2>1. worker[current] = "done" /\ err[current] = failed[current]
    BY <1>0, <1>1, <1>3 DEF CallInv
  <2>2. PICK k \in 1..Len(file) : file[k] = Output(current)
    BY <1>0, <1>3, <2>1 DEF TriedInv, WroteInv
  <2>3. /\ file[k].kind # "header" /\ Place(file[k]) = <<section, attempt>>
        /\ file[k].failed = failed[current]
    BY <1>1, <2>2 DEF Output, Place
  <2>4. Printed(section, attempt) BY <2>3 DEF Printed
  <2>5. ~err[current] => Succeeded(section) BY <2>1, <2>3 DEF Succeeded
  <2>6. ~err[current] => \A l \in 1..Len(file) :
          IsCurrent(file[l]) /\ ~Late(file[l]) => ~file[l].failed
    BY <1>0, <2>1 DEF TriedInv, WroteInv, IsCurrent
  <2>q. QED BY <2>4, <2>5, <2>6 DEF SectionTried
<1>q. QED BY <1>2, <1>3

\* With its section tried to the end the capture goes on to the next one.
LEMMA NextInv ==
  ASSUME IInv, at = "try", caller \in {"idle", "return"}, caller' = "idle", NextSection,
         UNCHANGED <<current, command, timedOut, file, open, capture, usedBy, posted>>,
         SectionTried(section),
         capture = "ps" => \A k \in 1..Len(file) :
           IsCurrent(file[k]) /\ ~Late(file[k]) => ~file[k].failed
  PROVE  IInv'
<1>0. TypeOK /\ CaptureInv /\ FileInv /\ TriedInv /\ OneCommandInv /\ \A d \in Calls : CallInv(d)
  BY DEF IInv
<1>1. /\ section' = section + 1 /\ attempt' = (IF capture = "ps" THEN attempt ELSE 1)
      /\ at' = "section"
  BY DEF NextSection
<1>2. capture \in Kinds /\ Attempts[capture] \in 1..3 /\ section \in Nat \ {0} /\ attempt \in 1..Attempts[capture]
  BY <1>0, AttemptsOf DEF TypeOK, CaptureInv
<1>3. TypeOK' BY <1>0, <1>1, <1>2 DEF TypeOK, command
<1>4. \A d \in Calls : CallInv(d)' BY <1>0 DEF CallInv, command
<1>5. CaptureInv'
  <2>1. current <= (section - 1) * Attempts[capture] + attempt
    BY <1>0, <1>2 DEF CaptureInv, CallsLeft, TypeOK
  <2>2. (section - 1) * Attempts[capture] + Attempts[capture] = section * Attempts[capture]
    <3>1. CASE Attempts[capture] = 1 BY <1>2, <3>1
    <3>2. CASE Attempts[capture] = 2 BY <1>2, <3>2
    <3>3. CASE Attempts[capture] = 3 BY <1>2, <3>3
    <3>q. QED BY <1>2, <3>1, <3>2, <3>3
  <2>3. DEFINE before == (section - 1) * Attempts[capture]
               total == section * Attempts[capture]
  <2>4. before \in Nat /\ total \in Nat /\ current \in Nat
    <3>1. CASE Attempts[capture] = 1 BY <1>0, <1>2, <3>1 DEF TypeOK
    <3>2. CASE Attempts[capture] = 2 BY <1>0, <1>2, <3>2 DEF TypeOK
    <3>3. CASE Attempts[capture] = 3 BY <1>0, <1>2, <3>3 DEF TypeOK
    <3>q. QED BY <1>2, <3>1, <3>2, <3>3
  <2>5. current + 1 <= total + attempt'
    <3> HIDE DEF before, total
    <3>1. current <= before + attempt /\ before + Attempts[capture] = total
      BY <2>1, <2>2 DEF before, total
    <3>q. QED BY <1>1, <1>2, <2>4, <3>1
  <2>6. CallsLeft'
    <3>1. section' - 1 = section BY <1>1, <1>2
    <3>q. QED BY <2>5, <3>1 DEF CallsLeft
  <2>q. QED BY <1>0, <1>1, <1>2, <2>6 DEF CaptureInv
<1>6. \A y : Late(y)' = Late(y) /\ Place(y)' = Place(y) BY DEF Late, Place
<1>7. FileInv'
  <2>1. WrittenInv' BY <1>0 DEF FileInv, WrittenInv, command
  <2>2. BehindInv'
    <3>1. ASSUME NEW k \in 1..Len(file), ~Late(file[k]) PROVE Place(file[k])[1] < section + 1
      <4>1. Place(file[k]) \in Nat \X Nat BY PlaceType
      <4>2. IsCurrent(file[k]) => Place(file[k]) = <<section, attempt>>
        BY <1>0 DEF IsCurrent, Place, CaptureInv
      <4>q. QED BY <1>0, <1>2, <3>1, <4>1, <4>2 DEF FileInv, BehindInv, Before
    <3>q. QED BY <1>1, <1>6, <3>1 DEF BehindInv
  <2>3. HeaderInv' BY <1>1 DEF HeaderInv
  <2>4. InOrderUnderHeaders' BY <1>0, <1>6 DEF FileInv, InOrderUnderHeaders
  <2>q. QED BY <2>1, <2>2, <2>3, <2>4 DEF FileInv
<1>8. TriedInv'
  <2>1. \A s : SectionTried(s) => SectionTried(s)'
    <3>1. UNCHANGED <<capture, usedBy>> /\ timedOut \subseteq timedOut' /\ file' = file OBVIOUS
    <3>2. Len(file) \in Nat BY <1>0 DEF TypeOK
    <3>q. QED BY <3>1, <3>2, TriedKept
  <2>2. WroteInv' BY <1>0, <1>6 DEF TriedInv, WroteInv, command
  <2>3. ASSUME NEW s \in 1..(section' - 1) PROVE SectionTried(s)'
    <3>1. CASE s = section BY <2>1, <3>1
    <3>2. CASE s \in 1..(section - 1) BY <1>0, <2>1, <3>2 DEF TriedInv
    <3>q. QED BY <1>1, <1>2, <3>1, <3>2
  <2>q. QED BY <1>1, <2>2, <2>3 DEF TriedInv
<1>9. OneCommandInv' BY <1>0, <1>1, <1>6 DEF OneCommandInv
<1>q. QED BY <1>3, <1>4, <1>5, <1>7, <1>8, <1>9 DEF IInv

\* The first section cannot be begun: nothing is written.
LEMMA CreateFailsInv == ASSUME IInv, CreateFails PROVE IInv'
<1>0. TypeOK /\ CaptureInv /\ FileInv /\ TriedInv /\ OneCommandInv /\ \A d \in Calls : CallInv(d)
  BY DEF IInv
<1>1. TypeOK' BY <1>0 DEF CreateFails, TypeOK, command
<1>2. \A d \in Calls : CallInv(d)' BY <1>0 DEF CreateFails, CallInv, command
<1>3. CaptureInv' BY <1>0 DEF CreateFails, CaptureInv, CallsLeft
<1>4. FileInv'
  BY <1>0 DEF CreateFails, FileInv, WrittenInv, BehindInv, HeaderInv, InOrderUnderHeaders, command
<1>5. TriedInv' BY <1>0 DEF CreateFails, CaptureInv, TriedInv, WroteInv, command
<1>6. OneCommandInv' BY DEF CreateFails, OneCommandInv
<1>q. QED BY <1>1, <1>2, <1>3, <1>4, <1>5, <1>6 DEF IInv

\* The header of a section is behind all earlier sections.
LEMMA BeginInv == ASSUME IInv, Begin PROVE IInv'
<1>0. TypeOK /\ CaptureInv /\ FileInv /\ TriedInv /\ OneCommandInv /\ \A d \in Calls : CallInv(d)
  BY DEF IInv
<1>1. /\ at = "section" /\ at' = "try" /\ section <= SectionsOf[capture] /\ caller = "idle" /\ open
      /\ section \in Nat /\ attempt \in Nat /\ attempt >= 1
      /\ UNCHANGED <<current, caller, command, timedOut, open, capture, section, attempt, usedBy, posted>>
  BY <1>0, AttemptsOf DEF Begin, CaptureInv, TypeOK
<1> DEFINE x == Header(section)
<1>2. x \in Elements /\ x.kind = "header" /\ x.of = section /\ Place(x) = <<section, 0>>
  BY <1>1 DEF Header, Elements, Place
<1>3. file' = (IF capture = "disk" THEN file ELSE Append(file, x)) BY DEF Begin
<1>4. TypeOK'
  <2>1. file' \in Seq(Elements) BY <1>0, <1>2, <1>3 DEF TypeOK
  <2>q. QED BY <1>0, <1>1, <2>1 DEF TypeOK, command
<1>5. \A d \in Calls : CallInv(d)' BY <1>0, <1>1 DEF CallInv, command
<1>6. CaptureInv' BY <1>0, <1>1 DEF CaptureInv, CallsLeft
<1>7. \A y : /\ Late(y)' = Late(y) /\ Place(y)' = Place(y) /\ ~IsCurrent(y)
  BY <1>1 DEF Late, Place, IsCurrent
<1>8. ASSUME NEW k \in 1..Len(file), ~Late(file[k]) PROVE Before(Place(file[k]), <<section, 0>>)
  BY <1>0, <1>1, <1>8 DEF FileInv, BehindInv, Before
<1>9. ASSUME NEW k \in 1..Len(file), ~Late(file[k]) PROVE Before(Place(file[k]), <<section, attempt>>)
  BY <1>0, <1>1, <1>9 DEF FileInv, BehindInv, Before
<1>10. CASE capture = "disk"
  <2>1. file' = file BY <1>3, <1>10
  <2>2. FileInv'
    <3>1. WrittenInv' BY <1>0, <1>1, <2>1 DEF FileInv, WrittenInv, command
    <3>2. BehindInv' BY <1>1, <1>7, <1>9, <2>1 DEF BehindInv
    <3>3. HeaderInv' BY <1>1, <1>10 DEF HeaderInv
    <3>4. InOrderUnderHeaders' BY <1>0, <1>1, <1>7, <2>1 DEF FileInv, InOrderUnderHeaders
    <3>q. QED BY <3>1, <3>2, <3>3, <3>4 DEF FileInv
  <2>3. TriedInv'
    <3>1. UNCHANGED <<capture, usedBy>> /\ timedOut \subseteq timedOut' BY <1>1
    <3>2. Len(file) \in Nat BY <1>0 DEF TypeOK
    <3>3. \A s : SectionTried(s) => SectionTried(s)' BY <2>1, <3>1, <3>2, TriedKept
    <3>4. WroteInv' BY <1>0, <1>1, <1>7, <2>1 DEF TriedInv, WroteInv, command
    <3>q. QED BY <1>0, <1>1, <1>10, <3>3, <3>4 DEF TriedInv
  <2>4. OneCommandInv' BY <1>1, <1>10 DEF OneCommandInv
  <2>q. QED BY <1>4, <1>5, <1>6, <2>2, <2>3, <2>4 DEF IInv
<1>11. CASE capture # "disk"
  <2>1. /\ Len(file') = Len(file) + 1 /\ Len(file) \in Nat
        /\ \A k \in 1..Len(file) : file'[k] = file[k]
        /\ file'[Len(file) + 1] = x
    BY <1>0, <1>2, <1>3, <1>11, Appended DEF TypeOK
  <2>2. \A k \in 1..Len(file') : k = Len(file) + 1 \/ k \in 1..Len(file) BY <2>1
  <2>3. WrittenInv' BY <1>0, <1>1, <1>2, <2>1, <2>2 DEF FileInv, WrittenInv, command
  <2>4. BehindInv'
    <3>1. Before(<<section, 0>>, <<section, attempt>>) BY <1>1 DEF Before
    <3>q. QED BY <1>1, <1>2, <1>7, <1>9, <2>1, <2>2, <3>1 DEF BehindInv
  <2>5. HeaderInv'
    <3>1. Header(section)' = x BY <1>1 DEF Header
    <3>q. QED BY <2>1, <3>1 DEF HeaderInv
  <2>6. InOrderUnderHeaders'
    <3>1. ASSUME NEW k \in 1..Len(file'), ~Late(file'[k])
          PROVE  /\ \A l \in (k + 1)..Len(file') : ~Late(file'[l]) => Before(Place(file'[k]), Place(file'[l]))
                 /\ \E l \in 1..k : file'[l] = Header(Place(file'[k])[1])
      <4>1. CASE k = Len(file) + 1 BY <1>2, <2>1, <4>1
      <4>2. CASE k \in 1..Len(file)
        <5>1. ~Late(file[k]) BY <2>1, <3>1, <4>2
        <5>2. ASSUME NEW l \in (k + 1)..Len(file'), ~Late(file'[l]) PROVE Before(Place(file'[k]), Place(file'[l]))
          <6>1. CASE l = Len(file) + 1 BY <1>2, <1>8, <2>1, <4>2, <5>1, <6>1
          <6>2. CASE l \in (k + 1)..Len(file)
            BY <1>0, <2>1, <4>2, <5>1, <5>2, <6>2 DEF FileInv, InOrderUnderHeaders
          <6>q. QED BY <2>1, <4>2, <5>2, <6>1, <6>2
        <5>3. \E l \in 1..k : file'[l] = Header(Place(file'[k])[1])
          BY <1>0, <1>11, <2>1, <4>2, <5>1 DEF FileInv, InOrderUnderHeaders
        <5>q. QED BY <5>2, <5>3
      <4>q. QED BY <2>2, <4>1, <4>2
    <3>q. QED BY <1>7, <3>1 DEF InOrderUnderHeaders, Header
  <2>7. TriedInv'
    <3>1. UNCHANGED <<capture, usedBy>> /\ timedOut \subseteq timedOut' BY <1>1
    <3>2. \A s : SectionTried(s) => SectionTried(s)' BY <2>1, <3>1, TriedKept
    <3>3. WroteInv' BY <1>0, <1>1, <1>2, <1>7, <2>1, <2>2 DEF TriedInv, WroteInv, command
    <3>4. capture = "hdsub" => attempt = 1 BY <1>0, <1>1 DEF CaptureInv
    <3>q. QED BY <1>0, <1>1, <3>2, <3>3, <3>4 DEF TriedInv
  <2>8. OneCommandInv'
    BY <1>0, <1>1, <1>2, <1>7, <2>1, <2>2 DEF OneCommandInv
  <2>q. QED BY <1>4, <1>5, <1>6, <2>3, <2>4, <2>5, <2>6, <2>7, <2>8 DEF IInv, FileInv
<1>q. QED BY <1>10, <1>11


\* A call is made in the attempt the capture is at, and there is one left for it.
LEMMA RunInv == ASSUME IInv, Run PROVE IInv'
<1>0. TypeOK /\ CaptureInv /\ FileInv /\ TriedInv /\ OneCommandInv /\ \A d \in Calls : CallInv(d)
  BY DEF IInv
<1>1. /\ at = "try" /\ caller = "idle" /\ caller' = "select" /\ current' = current + 1
      /\ ~(capture = "netstat" /\ attempt = 2)
      /\ worker' = [worker EXCEPT ![current + 1] = "start"]
      /\ usedBy' = [usedBy EXCEPT ![current + 1] = <<section, attempt>>]
      /\ UNCHANGED <<process, pipe, failed, err, timedOut, file, open, capture, at, section, attempt, posted>>
  BY DEF Run, Call, CallerGoto
<1>2. /\ capture \in Kinds /\ Attempts[capture] \in 1..3 /\ section \in Nat \ {0} /\ attempt \in 1..Attempts[capture]
      /\ SectionsOf[capture] \in Nat /\ section <= SectionsOf[capture]
      /\ MaxCalls >= SectionsOf[capture] * Attempts[capture] /\ MaxCalls \in Nat /\ current \in Nat
  BY <1>0, <1>1, AttemptsOf, CommandAssumption DEF TypeOK, CaptureInv
<1>3. /\ current + 1 <= (section - 1) * Attempts[capture] + attempt
      /\ current + 1 <= SectionsOf[capture] * Attempts[capture]
  <2>1. current + 1 <= (section - 1) * Attempts[capture] + attempt
    BY <1>0, <1>1 DEF CaptureInv, CallsLeft
  <2>2. CASE Attempts[capture] = 1 BY <1>2, <2>1, <2>2
  <2>3. CASE Attempts[capture] = 2 BY <1>2, <2>1, <2>3
  <2>4. CASE Attempts[capture] = 3 BY <1>2, <2>1, <2>4
  <2>q. QED BY <1>2, <2>1, <2>2, <2>3, <2>4
<1>4. current + 1 \in Calls
  <2> DEFINE total == SectionsOf[capture] * Attempts[capture]
  <2>1. total \in Nat
    <3>1. CASE Attempts[capture] = 1 BY <1>2, <3>1
    <3>2. CASE Attempts[capture] = 2 BY <1>2, <3>2
    <3>3. CASE Attempts[capture] = 3 BY <1>2, <3>3
    <3>q. QED BY <1>2, <3>1, <3>2, <3>3
  <2>2. current + 1 <= total /\ total <= MaxCalls BY <1>2, <1>3
  <2> HIDE DEF total
  <2>q. QED BY <1>2, <2>1, <2>2 DEF Calls
<1>5. TypeOK'
  <2>1. usedBy' \in [Calls -> Nat \X Nat]
    <3>1. <<section, attempt>> \in Nat \X Nat BY <1>2
    <3>2. usedBy \in [Calls -> Nat \X Nat] BY <1>0 DEF TypeOK
    <3>q. QED BY <1>1, <3>1, <3>2
  <2>2. current' \in 0..MaxCalls BY <1>1, <1>2, <1>4 DEF Calls
  <2>3. worker' \in [Calls -> {"off", "start", "wait", "drain", "report", "write", "send", "done"}]
    BY <1>0, <1>1 DEF TypeOK
  <2>q. QED BY <1>0, <1>1, <2>1, <2>2, <2>3 DEF TypeOK
<1>6. worker[current + 1] = "off" /\ process[current + 1] = "none" /\ current + 1 \notin timedOut
  BY <1>0, <1>2, <1>4 DEF CallInv
<1>7. ASSUME NEW d \in Calls PROVE CallInv(d)'
  <2>1. CASE d = current + 1 BY <1>0, <1>1, <1>2, <1>6, <2>1 DEF CallInv, TypeOK
  <2>2. CASE d # current + 1 BY <1>0, <1>1, <1>2, <2>2 DEF CallInv, TypeOK, Calls
  <2>q. QED BY <2>1, <2>2
<1>8. CaptureInv'
  <2>1. usedBy'[current'] = <<section', attempt'>> BY <1>0, <1>1, <1>4 DEF TypeOK
  <2>2. CallsLeft' BY <1>1, <1>2, <1>3 DEF CallsLeft
  <2>q. QED BY <1>0, <1>1, <1>4, <2>1, <2>2 DEF CaptureInv
<1>9. \A y : Late(y)' = Late(y) /\ ~IsCurrent(y) BY <1>1 DEF Late, IsCurrent
<1>10. ASSUME NEW k \in 1..Len(file)
       PROVE  file'[k] = file[k] /\ (file[k].kind = "output" => file[k].of # current + 1)
  BY <1>0, <1>1, <1>6 DEF FileInv, WrittenInv
<1>11. \A k \in 1..Len(file) : Place(file[k])' = Place(file[k])
  <2>1. ASSUME NEW k \in 1..Len(file), file[k].kind = "output"
        PROVE  usedBy'[file[k].of] = usedBy[file[k].of]
    BY <1>0, <1>1, <1>10, <2>1 DEF FileInv, WrittenInv, TypeOK
  <2>2. ASSUME NEW k \in 1..Len(file) PROVE Place(file[k])' = Place(file[k])
    <3>1. file[k] \in Elements BY PlaceType
    <3>2. file'[k] = file[k] BY <1>10
    <3>q. QED BY <2>1, <3>1, <3>2 DEF Place, Elements
  <2>q. QED BY <2>2
<1>12. FileInv'
  <2>1. WrittenInv' BY <1>0, <1>1, <1>10 DEF FileInv, WrittenInv, TypeOK
  <2>2. BehindInv' BY <1>0, <1>1, <1>9, <1>11 DEF FileInv, BehindInv
  <2>3. HeaderInv' BY <1>0, <1>1 DEF FileInv, HeaderInv, Header
  <2>4. InOrderUnderHeaders'
    <3>1. ASSUME NEW k \in 1..Len(file), ~Late(file[k])
          PROVE  /\ \A l \in (k + 1)..Len(file) : ~Late(file[l]) => Before(Place(file[k]), Place(file[l]))
                 /\ capture # "disk" => \E l \in 1..k : file[l] = Header(Place(file[k])[1])
      BY <1>0, <3>1 DEF FileInv, InOrderUnderHeaders
    <3>2. \A k \in 1..Len(file) : \A l \in (k + 1)..Len(file) : l \in 1..Len(file)
      BY <1>0 DEF TypeOK
    <3>q. QED BY <1>1, <1>9, <1>11, <3>1, <3>2 DEF InOrderUnderHeaders, Header
  <2>q. QED BY <2>1, <2>2, <2>3, <2>4 DEF FileInv
<1>13. TriedInv'
  <2>1. ASSUME NEW s, Expired(s) PROVE Expired(s)'
    <3>1. PICK c \in timedOut : usedBy[c][1] = s BY <2>1 DEF Expired
    <3>2. c \in Calls /\ c # current + 1 BY <1>0, <1>6 DEF TypeOK
    <3>3. usedBy'[c] = usedBy[c] BY <1>0, <1>1, <3>2 DEF TypeOK
    <3>q. QED BY <1>1, <3>1, <3>3 DEF Expired
  <2>2. ASSUME NEW s, NEW a, Printed(s, a) PROVE Printed(s, a)' BY <1>1, <1>11, <2>2 DEF Printed
  <2>3. ASSUME NEW s, Succeeded(s) PROVE Succeeded(s)' BY <1>1, <1>11, <2>3 DEF Succeeded
  <2>4. \A s : SectionTried(s) => SectionTried(s)' BY <1>1, <2>1, <2>2, <2>3 DEF SectionTried
  <2>5. WroteInv'
    <3>1. worker'[current'] = "start" BY <1>0, <1>1, <1>4 DEF TypeOK
    <3>q. QED BY <1>0, <1>1, <1>9, <3>1 DEF TriedInv, WroteInv
  <2>q. QED BY <1>0, <1>1, <2>1, <2>2, <2>4, <2>5 DEF TriedInv
<1>14. OneCommandInv' BY <1>0, <1>1, <1>9, <1>11 DEF OneCommandInv
<1>q. QED BY <1>5, <1>7, <1>8, <1>12, <1>13, <1>14 DEF IInv

LEMMA SucceedInv == ASSUME IInv, Succeed PROVE IInv'
<1>1. /\ at = "try" /\ caller = "return" /\ caller' = "idle" /\ ~err[current] /\ NextSection
      /\ UNCHANGED <<current, command, timedOut, file, open, capture, usedBy, posted>>
  BY DEF Succeed, Returned, CallerGoto
<1>q. QED BY <1>1, HasReturned, NextInv

\* The attempts before the last one of HDSub are made, whatever became of them.
LEMMA LastAttempt ==
  ASSUME IInv, at = "try", capture = "hdsub", attempt = 3
  PROVE  SectionTried(section)
<1>1. \A a \in 1..2 : Printed(section, a) \/ Expired(section) BY DEF IInv, TriedInv
<1>q. QED BY <1>1 DEF SectionTried

LEMMA NoTempPathInv == ASSUME IInv, NoTempPath PROVE IInv'
<1>1. /\ at = "try" /\ capture = "hdsub" /\ attempt = 3 /\ caller = "idle" /\ caller' = "idle"
      /\ NextSection
      /\ UNCHANGED <<current, command, timedOut, file, open, capture, usedBy, posted>>
  BY DEF NoTempPath
<1>q. QED BY <1>1, LastAttempt, NextInv

\* HDSub goes on; the others end without an upload.
LEMMA GiveUpInv == ASSUME IInv, GiveUp PROVE IInv'
<1>0. TypeOK /\ CaptureInv /\ FileInv /\ TriedInv /\ OneCommandInv /\ \A d \in Calls : CallInv(d)
  BY DEF IInv
<1>1. /\ at = "try" /\ ~CanFallBack /\ caller = "return" /\ caller' = "idle"
      /\ UNCHANGED <<current, command, timedOut, file, capture, usedBy, posted>>
  BY DEF GiveUp, Returned, CallerGoto
<1>2. CASE capture = "hdsub"
  <2>1. NextSection /\ UNCHANGED open BY <1>2 DEF GiveUp
  <2>2. attempt = 3 BY <1>0, <1>1, <1>2, AttemptsOf DEF CanFallBack, TypeOK
  <2>q. QED BY <1>1, <1>2, <2>1, <2>2, LastAttempt, NextInv
<1>3. CASE capture # "hdsub"
  <2>1. at' = "failed" /\ open' = FALSE /\ UNCHANGED <<section, attempt>> BY <1>3 DEF GiveUp
  <2>2. TypeOK' BY <1>0, <1>1, <2>1 DEF TypeOK, command
  <2>3. \A d \in Calls : CallInv(d)' BY <1>0, <1>1 DEF CallInv, command
  <2>4. CaptureInv' BY <1>0, <1>1, <2>1 DEF CaptureInv, CallsLeft
  <2>5. \A y : Late(y)' = Late(y) /\ Place(y)' = Place(y) BY <1>1 DEF Late, Place
  <2>6. FileInv'
    <3>1. WrittenInv' BY <1>0, <1>1 DEF FileInv, WrittenInv, command
    <3>2. BehindInv' /\ HeaderInv' BY <2>1 DEF BehindInv, HeaderInv
    <3>3. InOrderUnderHeaders' BY <1>0, <1>1, <2>5 DEF FileInv, InOrderUnderHeaders
    <3>q. QED BY <3>1, <3>2, <3>3 DEF FileInv
  <2>7. TriedInv' BY <1>0, <1>1, <2>1, <2>5 DEF TriedInv, WroteInv, command
  <2>8. OneCommandInv' BY <2>1 DEF OneCommandInv
  <2>q. QED BY <2>2, <2>3, <2>4, <2>6, <2>7, <2>8 DEF IInv
<1>q. QED BY <1>2, <1>3

\* The next attempt comes after the present one, whose output is written.
LEMMA FallBackInv == ASSUME IInv, FallBack PROVE IInv'
<1>0. TypeOK /\ CaptureInv /\ FileInv /\ TriedInv /\ OneCommandInv /\ \A d \in Calls : CallInv(d)
  BY DEF IInv
<1>1. /\ at = "try" /\ attempt < Attempts[capture] /\ (capture = "ps" => section = 1)
      /\ caller = "return" /\ caller' = "idle" /\ attempt' = attempt + 1
      /\ UNCHANGED <<current, command, timedOut, open, capture, section, usedBy, posted>>
  BY DEF FallBack, CanFallBack, Returned, CallerGoto
<1>2. /\ capture \in Kinds /\ Attempts[capture] \in 1..3 /\ section \in Nat \ {0} /\ attempt \in 1..Attempts[capture]
      /\ current \in Nat
  BY <1>0, <1>1, AttemptsOf DEF TypeOK, CaptureInv
<1>3. \A d \in Calls : CallInv(d)' BY <1>0, <1>1 DEF CallInv, command
<1>4. CallsLeft' /\ at' \in {"section", "try"}
  <2>1. at' \in {"section", "try"} BY <1>1 DEF FallBack
  <2>2. current <= (section - 1) * Attempts[capture] + attempt
    <3>1. current + 0 = current BY <1>2
    <3>q. QED BY <1>0, <1>1, <3>1 DEF CaptureInv, CallsLeft
  <2>3. (section - 1) * Attempts[capture] \in Nat
    <3>1. CASE Attempts[capture] = 1 BY <1>2, <3>1
    <3>2. CASE Attempts[capture] = 2 BY <1>2, <3>2
    <3>3. CASE Attempts[capture] = 3 BY <1>2, <3>3
    <3>q. QED BY <1>2, <3>1, <3>2, <3>3
  <2> DEFINE before == (section - 1) * Attempts[capture]
  <2>4. current + 1 <= before + (attempt + 1)
    <3>1. current <= before + attempt /\ before \in Nat BY <2>2, <2>3
    <3> HIDE DEF before
    <3>q. QED BY <1>2, <3>1
  <2>5. before' = before BY <1>1
  <2>6. CallsLeft' BY <1>1, <2>4 DEF CallsLeft
  <2>q. QED BY <2>1, <2>6
<1>5. CASE capture = "ps"
  <2>1. at' = "section" /\ file' = <<>> BY <1>5 DEF FallBack
  <2>2. TypeOK' BY <1>0, <1>1, <1>2, <2>1 DEF TypeOK, command
  <2>3. CaptureInv' BY <1>0, <1>1, <1>4, <1>5, <2>1 DEF CaptureInv
  <2>4. FileInv'
    BY <2>1 DEF FileInv, WrittenInv, BehindInv, HeaderInv, InOrderUnderHeaders
  <2>5. TriedInv' BY <1>1, <1>5, <2>1 DEF TriedInv, WroteInv
  <2>6. OneCommandInv' BY <2>1 DEF OneCommandInv
  <2>q. QED BY <1>3, <2>2, <2>3, <2>4, <2>5, <2>6 DEF IInv
<1>6. CASE capture # "ps"
  <2>1. UNCHANGED <<at, file>> BY <1>6 DEF FallBack
  <2>2. TypeOK' BY <1>0, <1>1, <1>2, <2>1 DEF TypeOK, command
  <2>3. CaptureInv' BY <1>0, <1>1, <1>4, <1>6, <2>1 DEF CaptureInv
  <2>4. \A y : Late(y)' = Late(y) /\ Place(y)' = Place(y) BY <1>1 DEF Late, Place
  <2>5. FileInv'
    <3>1. WrittenInv' BY <1>0, <1>1, <2>1 DEF FileInv, WrittenInv, command
    <3>2. BehindInv'
      <4>1. ASSUME NEW k \in 1..Len(file), ~Late(file[k])
            PROVE  Before(Place(file[k]), <<section, attempt + 1>>)
        <5>1. Place(file[k]) \in Nat \X Nat BY PlaceType
        <5>2. IsCurrent(file[k]) => Place(file[k]) = <<section, attempt>>
          BY <1>0 DEF IsCurrent, Place, CaptureInv
        <5>q. QED BY <1>0, <1>1, <1>2, <4>1, <5>1, <5>2 DEF FileInv, BehindInv, Before
      <4>q. QED BY <1>1, <2>1, <2>4, <4>1 DEF BehindInv
    <3>3. HeaderInv' BY <1>0, <1>1, <2>1 DEF FileInv, HeaderInv, Header
    <3>4. InOrderUnderHeaders' BY <1>0, <1>1, <2>1, <2>4 DEF FileInv, InOrderUnderHeaders
    <3>q. QED BY <3>1, <3>2, <3>3, <3>4 DEF FileInv
  <2>6. TriedInv'
    <3>1. UNCHANGED <<capture, usedBy>> /\ timedOut \subseteq timedOut' /\ Len(file) \in Nat
      BY <1>0, <1>1 DEF TypeOK
    <3>2. /\ \A s : SectionTried(s) => SectionTried(s)'
          /\ \A s : Expired(s) => Expired(s)'
          /\ \A s, a : Printed(s, a) => Printed(s, a)'
      BY <2>1, <3>1, TriedKept
    <3>3. WroteInv' BY <1>0, <1>1, <2>1, <2>4 DEF TriedInv, WroteInv, command
    <3>4. Printed(section, attempt) \/ Expired(section) BY <1>1, HasReturned
    <3>5. capture = "hdsub" => \A a \in 1..attempt : Printed(section, a) \/ Expired(section)
      BY <1>0, <1>1, <1>2, <3>4 DEF TriedInv
    <3>6. (attempt + 1) - 1 = attempt BY <1>2
    <3>q. QED BY <1>0, <1>1, <2>1, <3>2, <3>3, <3>5, <3>6 DEF TriedInv
  <2>7. OneCommandInv' BY <1>1, <1>6 DEF OneCommandInv
  <2>q. QED BY <1>3, <2>2, <2>3, <2>5, <2>6, <2>7 DEF IInv
<1>q. QED BY <1>5, <1>6


\* The native netStat stands for a second attempt that always succeeds.
LEMMA RunNativeInv == ASSUME IInv, RunNative PROVE IInv'
<1>0. TypeOK /\ CaptureInv /\ FileInv /\ TriedInv /\ OneCommandInv /\ \A d \in Calls : CallInv(d)
  BY DEF IInv
<1> DEFINE x == Native(section)
<1>1. /\ at = "try" /\ at' = "section" /\ capture = "netstat" /\ attempt = 2 /\ caller = "idle" /\ open
      /\ file' = Append(file, x) /\ section' = section + 1 /\ attempt' = 1
      /\ UNCHANGED <<current, caller, command, timedOut, open, capture, usedBy, posted>>
  BY <1>0 DEF RunNative, NextSection, CaptureInv
<1>2. /\ section \in Nat \ {0} /\ current \in Nat /\ Attempts[capture] = 2
  BY <1>0, <1>1 DEF TypeOK, CaptureInv, Attempts
<1>3. x \in Elements /\ x.kind = "native" /\ x.of = section /\ ~x.failed /\ Place(x) = <<section, 2>>
  BY <1>2 DEF Native, Elements, Place
<1>4. TypeOK'
  <2>1. file' \in Seq(Elements) BY <1>0, <1>1, <1>3 DEF TypeOK
  <2>q. QED BY <1>0, <1>1, <1>2, <2>1 DEF TypeOK, command
<1>5. \A d \in Calls : CallInv(d)' BY <1>0, <1>1 DEF CallInv, command
<1>6. CaptureInv'
  <2>1. current + 1 <= (section - 1) * 2 + 2 BY <1>0, <1>1, <1>2 DEF CaptureInv, CallsLeft
  <2>2. CallsLeft' BY <1>1, <1>2, <2>1 DEF CallsLeft
  <2>q. QED BY <1>0, <1>1, <1>2, <2>2 DEF CaptureInv
<1>7. \A y : Late(y)' = Late(y) /\ Place(y)' = Place(y) /\ ~IsCurrent(y)
  BY <1>1 DEF Late, Place, IsCurrent
<1>8. ASSUME NEW k \in 1..Len(file), ~Late(file[k]) PROVE Before(Place(file[k]), <<section, 2>>)
  BY <1>0, <1>1, <1>7, <1>8 DEF FileInv, BehindInv
<1>9. /\ Len(file') = Len(file) + 1 /\ Len(file) \in Nat
      /\ \A k \in 1..Len(file) : file'[k] = file[k]
      /\ file'[Len(file) + 1] = x
  BY <1>0, <1>1, <1>3, Appended DEF TypeOK
<1>10. \A k \in 1..Len(file') : k = Len(file) + 1 \/ k \in 1..Len(file) BY <1>9
<1>11. WrittenInv' BY <1>0, <1>1, <1>3, <1>9, <1>10 DEF FileInv, WrittenInv, command
<1>12. BehindInv'
  <2>1. ASSUME NEW k \in 1..Len(file), ~Late(file[k]) PROVE Place(file[k])[1] < section + 1
    <3>1. Place(file[k]) \in Nat \X Nat BY PlaceType
    <3>q. QED BY <1>2, <1>8, <2>1, <3>1 DEF Before
  <2>q. QED BY <1>1, <1>2, <1>3, <1>7, <1>9, <1>10, <2>1 DEF BehindInv
<1>13. HeaderInv' BY <1>1 DEF HeaderInv
<1>14. InOrderUnderHeaders'
  <2>1. \E l \in 1..Len(file) : file[l] = Header(section)
    BY <1>0, <1>1 DEF FileInv, HeaderInv
  <2>2. ASSUME NEW k \in 1..Len(file'), ~Late(file'[k])
        PROVE  /\ \A l \in (k + 1)..Len(file') : ~Late(file'[l]) => Before(Place(file'[k]), Place(file'[l]))
               /\ \E l \in 1..k : file'[l] = Header(Place(file'[k])[1])
    <3>1. CASE k = Len(file) + 1 BY <1>3, <1>9, <2>1, <3>1
    <3>2. CASE k \in 1..Len(file)
      <4>1. ~Late(file[k]) BY <1>9, <2>2, <3>2
      <4>2. ASSUME NEW l \in (k + 1)..Len(file'), ~Late(file'[l]) PROVE Before(Place(file'[k]), Place(file'[l]))
        <5>1. CASE l = Len(file) + 1 BY <1>3, <1>8, <1>9, <3>2, <4>1, <5>1
        <5>2. CASE l \in (k + 1)..Len(file)
          BY <1>0, <1>9, <3>2, <4>1, <4>2, <5>2 DEF FileInv, InOrderUnderHeaders
        <5>q. QED BY <1>9, <3>2, <4>2, <5>1, <5>2
      <4>3. \E l \in 1..k : file'[l] = Header(Place(file'[k])[1])
        BY <1>0, <1>1, <1>9, <3>2, <4>1 DEF FileInv, InOrderUnderHeaders
      <4>q. QED BY <4>2, <4>3
    <3>q. QED BY <1>10, <3>1, <3>2
  <2>q. QED BY <1>7, <2>2 DEF InOrderUnderHeaders, Header
<1>15. TriedInv'
  <2>1. UNCHANGED <<capture, usedBy>> /\ timedOut \subseteq timedOut' BY <1>1
  <2>2. \A s : SectionTried(s) => SectionTried(s)' BY <1>9, <2>1, TriedKept
  <2>3. ASSUME NEW s, s = section PROVE SectionTried(s)'
    <3>1. Len(file) + 1 \in 1..Len(file') BY <1>9
    <3>2. \E k \in 1..Len(file') :
            file'[k].kind # "header" /\ Place(file[k])'[1] = s /\ ~file'[k].failed
      BY <1>3, <1>9, <2>3, <3>1 DEF Place
    <3>q. QED BY <3>2 DEF SectionTried, Succeeded
  <2>4. ASSUME NEW s \in 1..(section' - 1) PROVE SectionTried(s)'
    <3>1. CASE s = section BY <2>3, <3>1
    <3>2. CASE s \in 1..(section - 1) BY <1>0, <1>1, <2>2, <3>2 DEF TriedInv
    <3>q. QED BY <1>1, <1>2, <3>1, <3>2
  <2>5. WroteInv' BY <1>0, <1>1, <1>3, <1>7, <1>9, <1>10 DEF TriedInv, WroteInv, command
  <2>q. QED BY <1>1, <2>4, <2>5 DEF TriedInv
<1>16. OneCommandInv' BY <1>1 DEF OneCommandInv
<1>q. QED
  BY <1>4, <1>5, <1>6, <1>11, <1>12, <1>13, <1>14, <1>15, <1>16 DEF IInv, FileInv

\* What is uploaded is the file.
LEMMA UploadInv == ASSUME IInv, Upload PROVE IInv'
<1>0. TypeOK /\ CaptureInv /\ FileInv /\ TriedInv /\ OneCommandInv /\ \A d \in Calls : CallInv(d)
  BY DEF IInv
<1>1. /\ at = "section" /\ at' = "ok" /\ posted' = file /\ open' = FALSE /\ section > SectionsOf[capture]
      /\ UNCHANGED <<current, caller, command, timedOut, file, capture, section, attempt, usedBy>>
  BY DEF Upload
<1>2. TypeOK' BY <1>0, <1>1 DEF TypeOK, command
<1>3. \A d \in Calls : CallInv(d)' BY <1>0, <1>1 DEF CallInv, command
<1>4. CaptureInv' BY <1>0, <1>1 DEF CaptureInv, CallsLeft
<1>5. \A y : Late(y)' = Late(y) /\ Place(y)' = Place(y) /\ IsCurrent(y)' = IsCurrent(y)
  BY <1>1 DEF Late, Place, IsCurrent
<1>6. FileInv'
  <2>1. WrittenInv' BY <1>0, <1>1 DEF FileInv, WrittenInv, command
  <2>2. BehindInv' /\ HeaderInv' BY <1>1 DEF BehindInv, HeaderInv
  <2>3. InOrderUnderHeaders' BY <1>0, <1>1, <1>5 DEF FileInv, InOrderUnderHeaders
  <2>q. QED BY <2>1, <2>2, <2>3 DEF FileInv
<1>7. TriedInv'
  <2>1. UNCHANGED <<capture, usedBy>> /\ timedOut \subseteq timedOut' /\ file' = file /\ Len(file) \in Nat
    BY <1>0, <1>1 DEF TypeOK
  <2>2. \A s : SectionTried(s) => SectionTried(s)' BY <2>1, TriedKept
  <2>3. WroteInv' BY <1>0, <1>1, <1>5 DEF CaptureInv, TriedInv, WroteInv, command
  <2>q. QED BY <1>0, <1>1, <2>2, <2>3 DEF TriedInv
<1>8. OneCommandInv' BY <1>0, <1>1, <1>5 DEF OneCommandInv
<1>q. QED BY <1>2, <1>3, <1>4, <1>6, <1>7, <1>8 DEF IInv

-----------------------------------------------------------------------------
LEMMA StepInv == IInv /\ [Next]_vars => IInv'
<1> SUFFICES ASSUME IInv, [Next]_vars PROVE IInv' OBVIOUS
<1>1. CASE Capture
  BY <1>1, CreateFailsInv, BeginInv, RunInv, SucceedInv, FallBackInv, RunNativeInv, NoTempPathInv,
     GiveUpInv, UploadInv DEF Capture
<1>2. CASE CommandNext /\ UNCHANGED captureVars
  <2>1. ASSUME NEW c \in Calls, Worker(c) PROVE IInv'
    BY <1>2, <2>1, StartInv, WorkerWaitInv, WorkerDrainInv, ReportInv, WriteInv, SendInv DEF Worker
  <2>q. QED
    BY <1>2, <2>1, ExitInv, CloseOutputInv, TimeOutInv, KillInv, CallerWaitInv, CallerDrainInv
    DEF CommandNext
<1>3. CASE UNCHANGED vars
  <2>0. TypeOK /\ CaptureInv /\ FileInv /\ TriedInv /\ OneCommandInv /\ \A d \in Calls : CallInv(d)
    BY DEF IInv
  <2>1. UNCHANGED <<captureVars, file, open, timedOut, current, caller, command>>
    BY <1>3 DEF vars, commandVars, command
  <2>2. TypeOK' BY <2>0, <2>1 DEF TypeOK, captureVars, command
  <2>3. \A d \in Calls : CallInv(d)' BY <2>0, <2>1 DEF CallInv, command
  <2>4. CaptureInv' /\ FileInv' /\ TriedInv' /\ OneCommandInv'
    BY <2>1, FileKept DEF command
  <2>q. QED BY <2>2, <2>3, <2>4 DEF IInv
<1>q. QED BY <1>1, <1>2, <1>3 DEF Next

\* What is known of each section when the capture is past the last one.
LEMMA Uploaded == IInv => EverySectionTried /\ OneCommandThroughout
<1> SUFFICES ASSUME IInv, at = "ok" PROVE EverySectionTried /\ OneCommandThroughout
  BY DEF EverySectionTried, OneCommandThroughout
<1>0. TypeOK /\ CaptureInv /\ TriedInv /\ OneCommandInv BY DEF IInv
<1>1. posted = file /\ section > SectionsOf[capture] /\ caller = "idle" /\ section \in Nat
      /\ SectionsOf[capture] \in Nat
  BY <1>0, AttemptsOf DEF CaptureInv, TypeOK
<1>2. ASSUME NEW s \in 1..SectionsOf[capture]
      PROVE  LET ofSection == {x \in {posted[k] : k \in 1..Len(posted)} :
                                 x.kind # "header" /\ Place(x)[1] = s}
             IN \/ \E x \in ofSection : ~x.failed
                \/ capture = "hdsub" /\ {1, 2} \subseteq {Place(x)[2] : x \in ofSection}
                \/ \E c \in timedOut : usedBy[c][1] = s
  <2> DEFINE ofSection == {x \in {posted[k] : k \in 1..Len(posted)} :
                             x.kind # "header" /\ Place(x)[1] = s}
  <2>1. SectionTried(s) BY <1>0, <1>1 DEF TriedInv
  <2>2. ASSUME Succeeded(s) PROVE \E x \in ofSection : ~x.failed BY <1>1, <2>2 DEF Succeeded
  <2>3. ASSUME NEW a, Printed(s, a) PROVE \E x \in ofSection : Place(x)[2] = a
    BY <1>1, <2>3 DEF Printed
  <2>4. Printed(s, 1) /\ Printed(s, 2) => {1, 2} \subseteq {Place(x)[2] : x \in ofSection}
    BY <2>3
  <2>5. Expired(s) => \E c \in timedOut : usedBy[c][1] = s BY DEF Expired
  <2> HIDE DEF ofSection
  <2>6. \/ \E x \in ofSection : ~x.failed
        \/ capture = "hdsub" /\ {1, 2} \subseteq {Place(x)[2] : x \in ofSection}
        \/ \E c \in timedOut : usedBy[c][1] = s
    BY <2>1, <2>2, <2>4, <2>5 DEF SectionTried
  <2>q. QED BY <2>6 DEF ofSection
<1>3. EverySectionTried BY <1>2 DEF EverySectionTried
<1>4. OneCommandThroughout
  BY <1>0, <1>1 DEF OneCommandInv, IsCurrent, OneCommandThroughout
<1>q. QED BY <1>3, <1>4

\* A file holds its sections in order, each under its header and each tried to the
\* end, whatever fails and however many calls time out: the output of a command
\* that ended in time is where its section is, what is uploaded has something of
\* every section, and PS uploads what one command printed.
THEOREM SectionsInFile == Spec => []FileAsSectioned
<1>1. IInv => FileAsSectioned BY Uploaded DEF IInv, FileInv, FileAsSectioned
<1>q. QED BY InitInv, StepInv, <1>1, PTL DEF Spec
=============================================================================
