------------------------------- MODULE Sections -------------------------------
(***************************************************************************)
(* The captures that write the output of several bounded commands to one   *)
(* file, section by section, and upload it: PS, NetStat, HDSub and Disk.   *)
(* They differ in the sections, in what is tried when a command fails, and *)
(* in what a failure means for the rest of the file.                       *)
(***************************************************************************)
EXTENDS Command

CONSTANTS
  Captures,      \* the kinds of capture
  SectionsOf     \* the sections of each kind

Kinds == {"ps", "netstat", "hdsub", "disk"}

\* ps -eLf, ps -eTf; netstat, its Go version; jcmd, jattach, jattach from the temp
\* directory; df.
Attempts == [ps |-> 2, netstat |-> 2, hdsub |-> 3, disk |-> 1]

ASSUME SectionsAssumption ==
  /\ Captures \subseteq Kinds
  /\ SectionsOf \in [Kinds -> Nat]
  /\ \A kind \in Captures : MaxCalls >= SectionsOf[kind] * Attempts[kind]

VARIABLES
  capture,   \* the kind of this one
  at,        \* section, try, and how it ended: ok, failed
  section,   \* the section being written
  attempt,   \* the command in use for it
  usedBy,    \* the section and the attempt of each call
  posted     \* what was uploaded

captureVars == <<capture, at, section, attempt, usedBy, posted>>
vars == <<commandVars, captureVars>>

Header(s) == [kind |-> "header", of |-> s, failed |-> FALSE]
Native(s) == [kind |-> "native", of |-> s, failed |-> FALSE]

Init ==
  /\ CommandInit
  /\ capture \in Captures
  /\ at = "section" /\ section = 1 /\ attempt = 1
  /\ usedBy = [c \in Calls |-> <<0, 0>>]
  /\ posted = <<>>

\* The determined ps command is kept for all sections.
NextSection ==
  /\ section' = section + 1
  /\ attempt' = IF capture = "ps" THEN attempt ELSE 1
  /\ at' = "section"

\* os.Create fails.
CreateFails ==
  /\ at = "section" /\ current = 0 /\ file = <<>>
  /\ at' = "failed" /\ open' = FALSE
  /\ UNCHANGED <<current, caller, command, timedOut, file, capture, section, attempt, usedBy, posted>>

Begin ==
  /\ at = "section" /\ section <= SectionsOf[capture]
  /\ at' = "try"
  /\ file' = IF capture = "disk" THEN file ELSE Append(file, Header(section))
  /\ UNCHANGED <<current, caller, command, timedOut, open, capture, section, attempt, usedBy, posted>>

\* An attempt that runs a command.
Run ==
  /\ at = "try"
  /\ ~(capture = "netstat" /\ attempt = 2)
  /\ Call
  /\ usedBy' = [usedBy EXCEPT ![current + 1] = <<section, attempt>>]
  /\ UNCHANGED <<capture, at, section, attempt, posted>>

Succeed ==
  /\ at = "try" /\ Returned(FALSE)
  /\ NextSection
  /\ UNCHANGED <<current, command, timedOut, file, open, capture, usedBy, posted>>

CanFallBack == attempt < Attempts[capture] /\ (capture = "ps" => section = 1)

\* PS begins the file anew, "Clear the file of any error output"; the others leave
\* the error message in it.
FallBack ==
  /\ at = "try" /\ CanFallBack /\ Returned(TRUE)
  /\ attempt' = attempt + 1
  /\ IF capture = "ps" THEN at' = "section" /\ file' = <<>> ELSE UNCHANGED <<at, file>>
  /\ UNCHANGED <<current, command, timedOut, open, capture, section, usedBy, posted>>

\* netStat of netstat_native.go, in the capture's own goroutine.
RunNative ==
  /\ at = "try" /\ capture = "netstat" /\ attempt = 2
  /\ file' = Append(file, Native(section))
  /\ NextSection
  /\ UNCHANGED <<current, caller, command, timedOut, open, capture, usedBy, posted>>

\* Copy2TempPath fails.
NoTempPath ==
  /\ at = "try" /\ capture = "hdsub" /\ attempt = 3 /\ caller = "idle"
  /\ NextSection
  /\ UNCHANGED <<current, caller, command, timedOut, file, open, capture, usedBy, posted>>

\* HDSub logs the failure of a section and goes on; PS and Disk close the file and
\* upload nothing.
GiveUp ==
  /\ at = "try" /\ ~CanFallBack /\ Returned(TRUE)
  /\ IF capture = "hdsub"
     THEN NextSection /\ UNCHANGED open
     ELSE at' = "failed" /\ open' = FALSE /\ UNCHANGED <<section, attempt>>
  /\ UNCHANGED <<current, command, timedOut, file, capture, usedBy, posted>>

\* The file is uploaded from its beginning, then closed.
Upload ==
  /\ at = "section" /\ section > SectionsOf[capture]
  /\ at' = "ok" /\ posted' = file /\ open' = FALSE
  /\ UNCHANGED <<current, caller, command, timedOut, file, capture, section, attempt, usedBy>>

Capture ==
  \/ CreateFails \/ Begin \/ Run \/ Succeed \/ FallBack
  \/ RunNative \/ NoTempPath \/ GiveUp \/ Upload

Next == Capture \/ (CommandNext /\ UNCHANGED captureVars)

Spec == Init /\ [][Next]_vars

\* Goroutines are scheduled; commands, and their descendants, end.
FairSpec ==
  /\ Spec
  /\ WF_vars(Capture)
  /\ \A c \in Calls : /\ WF_vars(Exit(c) /\ UNCHANGED captureVars)
                      /\ WF_vars((CloseOutput(c) \/ Worker(c)) /\ UNCHANGED captureVars)
  /\ WF_vars((Kill \/ CallerWait \/ CallerDrain) /\ UNCHANGED captureVars)

(***************************************************************************)
(* Properties                                                              *)
(***************************************************************************)
Elements == [kind : {"header", "output", "native"}, of : Nat, failed : BOOLEAN]

\* The types; in particular the calls made stay within MaxCalls.
TypeOK ==
  /\ current \in 0..MaxCalls
  /\ caller \in {"idle", "select", "kill", "wait", "drain", "return"}
  /\ worker \in [Calls -> {"off", "start", "wait", "drain", "report", "write", "send", "done"}]
  /\ process \in [Calls -> {"none", "running", "exited", "reaped"}]
  /\ pipe \in [Calls -> {"open", "closed", "taken"}]
  /\ failed \in [Calls -> BOOLEAN] /\ err \in [Calls -> BOOLEAN]
  /\ timedOut \subseteq Calls /\ open \in BOOLEAN
  /\ file \in Seq(Elements) /\ posted \in Seq(Elements)
  /\ capture \in Captures /\ at \in {"section", "try", "ok", "failed"}
  /\ section \in Nat /\ attempt \in 1..Attempts[capture]
  /\ usedBy \in [Calls -> Nat \X Nat]

Late(x) == x.kind = "output" /\ x.of \in timedOut

\* Where in the file an element belongs: its section, and the attempt in it.
Place(x) == CASE x.kind = "header" -> <<x.of, 0>>
              [] x.kind = "native" -> <<x.of, 2>>
              [] OTHER -> usedBy[x.of]

Before(p, q) == p[1] < q[1] \/ (p[1] = q[1] /\ p[2] < q[2])

\* Only the output of a command that timed out can be found anywhere but below the
\* header of its own section, after the attempts before it: each worker writes
\* before it lets the capture go on.
InOrderUnderHeaders ==
  \A k \in 1..Len(file) :
    ~Late(file[k]) =>
      /\ \A l \in (k + 1)..Len(file) : ~Late(file[l]) => Before(Place(file[k]), Place(file[l]))
      /\ capture # "disk" => \E l \in 1..k : file[l] = Header(Place(file[k])[1])

\* A file is uploaded with every section: with the output of a command that
\* succeeded, or with what the attempts printed when they failed, unless one of
\* them timed out.
EverySectionTried ==
  at = "ok" =>
    \A s \in 1..SectionsOf[capture] :
      LET ofSection == {x \in {posted[k] : k \in 1..Len(posted)} :
                          x.kind # "header" /\ Place(x)[1] = s}
      IN \/ \E x \in ofSection : ~x.failed
         \/ capture = "hdsub" /\ {1, 2} \subseteq {Place(x)[2] : x \in ofSection}
         \/ \E c \in timedOut : usedBy[c][1] = s

\* "Use the determined PS command for all subsequent iterations": what the ps
\* commands that ended in time left in an uploaded file is one command's output,
\* without an error message.
OneCommandThroughout ==
  capture = "ps" /\ at = "ok" =>
    \A k \in 1..Len(posted) :
      posted[k].kind = "output" /\ ~Late(posted[k]) =>
        ~posted[k].failed /\ Place(posted[k])[2] = attempt

\* A file holds its sections, each under its header and each tried to the end.
FileAsSectioned ==
  TypeOK /\ InOrderUnderHeaders /\ EverySectionTried /\ OneCommandThroughout

\* The capture comes to its end and leaves no worker behind, unless a command
\* timed out.
EndsWithItsWorkers ==
  <>(\/ at \in {"ok", "failed"} /\ \A c \in Calls : worker[c] \in {"off", "done"}
     \/ timedOut # {})

==============================================================================
