----------------------------- MODULE ThreadDump -----------------------------
(***************************************************************************)
(* ThreadDump.captureFromProcess and JStack.Run: Count times, a goroutine  *)
(* takes a thread dump into javacore.<n>.out and another takes `top -H`    *)
(* into topdashH.<n>.out, in step with the loop that waits for both; then  *)
(* `cat javacore.*` and `cat topdashH.*` make threaddump.out of whatever   *)
(* files of these names the working directory holds.                       *)
(*                                                                         *)
(* A capture of its own (ondemand) has a directory of its own.  A round of *)
(* the m3 loop captures several processes, and then the ones m3-fin asks   *)
(* for, in one directory.                                                  *)
(***************************************************************************)
EXTENDS Naturals, Sequences, FiniteSets, Functions

CONSTANTS
  Count,    \* dumps taken of a process
  Pids,     \* processes captured in the directory: 1..Pids, in this order
  Absent    \* no such file

ASSUME ThreadDumpAssumption ==
  /\ Count \in 1..99 /\ Pids \in Nat
  /\ Absent \notin [pid : Nat, dump : BOOLEAN] \cup [pid : Nat, complete : BOOLEAN]

Rounds == 1..Count

\* The order of `javacore.*`: "javacore.10.out" is before "javacore.2.out", and
\* after "javacore.1.out" because "." is before the digits.
GlobKey(n) == IF n < 10 THEN n * 11 ELSE (n \div 10) * 11 + (n % 10) + 1
Globbed(S) == CHOOSE s \in [1..Cardinality(S) -> S] :
                \A i, j \in 1..Cardinality(S) : i < j => GlobKey(s[i]) < GlobKey(s[j])

\* The attempts of the first goroutine; each starts by creating the file anew.
Attempts == <<"jstack", "jattach", "jattach in temp path", "jstack -F", "jhsdb">>

VARIABLES
  pid,        \* the process being captured
  td,         \* captureFromProcess: start, loop, sleep, catJavacore, catTopH, post, end
  n,          \* the loop's counter
  b1, b2,     \* the queues of rounds to do
  e1, e2,     \* the numbers of results to be received
  dumper, dn, \* the first goroutine: recv, attempt, end; and its round
  attempt,    \* the attempt it makes
  topper, tn, \* the second one: recv, top, copy, end; and its round
  javacore,   \* the javacore.<n>.out there are: their process, and whether a dump is in them
  topdashH,   \* the topdashH.<n>.out there are: their process, and whether they are complete
  threaddump, \* threaddump.out: entries of both kinds
  posted      \* what was posted for each process

queues == <<b1, b2, e1, e2>>
dumperVars == <<dumper, dn, attempt, javacore>>
topperVars == <<topper, tn, topdashH>>
result == <<threaddump, posted>>
vars == <<pid, td, n, queues, dumperVars, topperVars, result>>

Existing(files) == {k \in Rounds : files[k] # Absent}
Closed == Count + 1    \* what a receiver finds in a closed queue after the rest

Concatenated(kind, files) ==
  LET order == Globbed(Existing(files))
  IN [k \in 1..Len(order) |-> [kind |-> kind, n |-> order[k], file |-> files[order[k]]]]

Init ==
  /\ pid = 1 /\ td = "start" /\ n = 1
  /\ b1 = <<>> /\ b2 = <<>> /\ e1 = 0 /\ e2 = 0
  /\ dumper = "end" /\ dn = 0 /\ attempt = 1 /\ topper = "end" /\ tn = 0
  /\ javacore = [k \in Rounds |-> Absent] /\ topdashH = [k \in Rounds |-> Absent]
  /\ threaddump = <<>> /\ posted = <<>>

Goto(from, to) == td = from /\ td' = to

(***************************************************************************)
(* Mutated forms of the operations below: what a plausible bug would make  *)
(* of them.  The specification does not use them.                          *)
(***************************************************************************)
\* Does not wait for `top -H`.
CollectOneResult ==
  /\ e1 > 0 \/ dumper = "end"
  /\ e1' = IF e1 > 0 THEN e1 - 1 ELSE 0
  /\ IF n < Count THEN Goto("wait", "sleep") /\ UNCHANGED <<b1, b2>>
     ELSE Goto("wait", "catJavacore") /\ b1' = Append(b1, Closed) /\ b2' = Append(b2, Closed)
  /\ UNCHANGED <<pid, n, e2, dumperVars, topperVars, result>>

\* `b1` and `b2` are not closed when the loop returns.
CollectClosingNothing ==
  /\ e1 > 0 \/ dumper = "end"
  /\ e2 > 0
  /\ e1' = IF e1 > 0 THEN e1 - 1 ELSE 0
  /\ e2' = e2 - 1
  /\ IF n < Count THEN Goto("wait", "sleep") ELSE Goto("wait", "catJavacore")
  /\ UNCHANGED <<pid, n, b1, b2, dumperVars, topperVars, result>>

(***************************************************************************)
(* captureFromProcess and the loop of JStack.Run                           *)
(***************************************************************************)
NextPid(from) == Goto(from, "start") /\ pid' = pid + 1

Start ==
  /\ pid <= Pids
  /\ \/ /\ Goto("start", "send")
        /\ n' = 1 /\ attempt' = 1
        /\ b1' = <<>> /\ b2' = <<>> /\ e1' = 0 /\ e2' = 0
        /\ dumper' = "recv" /\ topper' = "recv"
        /\ UNCHANGED <<pid, dn, tn, javacore, topdashH, result>>
     \/ /\ NextPid("start")    \* the process does not exist any more
        /\ UNCHANGED <<n, queues, dumperVars, topperVars, result>>

Send ==
  /\ Goto("send", "wait")
  /\ b1' = Append(b1, n) /\ b2' = Append(b2, n)
  /\ UNCHANGED <<pid, n, e1, e2, dumperVars, topperVars, result>>

\* <-e1 and <-e2.  The first goroutine closes e1 when it ends: from then on the
\* receive gets nil at once.
Collect ==
  /\ e1 > 0 \/ dumper = "end"
  /\ e2 > 0
  /\ e1' = IF e1 > 0 THEN e1 - 1 ELSE 0
  /\ e2' = e2 - 1
  /\ IF n < Count THEN Goto("wait", "sleep") /\ UNCHANGED <<b1, b2>>
     ELSE Goto("wait", "catJavacore") /\ b1' = Append(b1, Closed) /\ b2' = Append(b2, Closed)
  /\ UNCHANGED <<pid, n, dumperVars, topperVars, result>>

Sleep ==
  /\ Goto("sleep", "send")
  /\ n' = n + 1
  /\ UNCHANGED <<pid, queues, dumperVars, topperVars, result>>

\* cat of no file fails, and so does the capture.
CatJavacore ==
  /\ threaddump' = Concatenated("dump", javacore)
  /\ IF Existing(javacore) = {} THEN NextPid("catJavacore")
                                ELSE Goto("catJavacore", "catTopH") /\ UNCHANGED pid
  /\ UNCHANGED <<n, queues, dumperVars, topperVars, posted>>

CatTopH ==
  /\ threaddump' = threaddump \o Concatenated("top", topdashH)
  /\ IF Existing(topdashH) = {} THEN NextPid("catTopH")
                                ELSE Goto("catTopH", "post") /\ UNCHANGED pid
  /\ UNCHANGED <<n, queues, dumperVars, topperVars, posted>>

Post ==
  /\ NextPid("post")
  /\ posted' = Append(posted, [pid |-> pid, content |-> threaddump])
  /\ UNCHANGED <<n, queues, dumperVars, topperVars, threaddump>>

(***************************************************************************)
(* The goroutine that takes the dumps                                      *)
(***************************************************************************)
DumperRecv ==
  /\ dumper = "recv" /\ b1 # <<>>
  /\ b1' = Tail(b1)
  /\ dumper' = IF Head(b1) = Closed THEN "end" ELSE "attempt"
  /\ dn' = Head(b1) /\ attempt' = 1
  /\ UNCHANGED <<pid, td, n, b2, e1, e2, javacore, topperVars, result>>

\* An attempt that times out may return no error, and then counts as a success.
\* The error it looks at is a variable that the other goroutine assigns to as well,
\* so a `jstack -F` that succeeded beside a failing `top -H` may count as a failure.
Attempt ==
  /\ dumper = "attempt"
  /\ \/ /\ \E dump \in BOOLEAN : javacore' = [javacore EXCEPT ![dn] = [pid |-> pid, dump |-> dump]]
        /\ dumper' = "recv" /\ e1' = e1 + 1
        /\ UNCHANGED attempt
     \/ /\ Attempts[attempt] # "jstack -F"
        /\ javacore' \in {javacore, [javacore EXCEPT ![dn] = [pid |-> pid, dump |-> FALSE]]}
        /\ attempt' = attempt + 1
        /\ UNCHANGED <<dumper, e1>>
     \/ /\ Attempts[attempt] = "jstack -F"    \* sends the error and returns
        /\ \/ UNCHANGED javacore
           \/ \E dump \in {FALSE, topper # "recv"} :
                javacore' = [javacore EXCEPT ![dn] = [pid |-> pid, dump |-> dump]]
        /\ dumper' = "end" /\ e1' = e1 + 1
        /\ UNCHANGED attempt
  /\ UNCHANGED <<pid, td, n, b1, b2, e2, dn, topperVars, result>>

(***************************************************************************)
(* The goroutine that runs top -H                                          *)
(***************************************************************************)
TopperRecv ==
  /\ topper = "recv" /\ b2 # <<>>
  /\ b2' = Tail(b2)
  /\ tn' = Head(b2)
  /\ topper' = IF Head(b2) = Closed THEN "end" ELSE "top"
  /\ UNCHANGED <<pid, td, n, b1, e1, e2, dumperVars, topdashH, result>>

\* There is no file when the process is gone or os.Create fails.
CreateTop ==
  /\ topper = "top"
  /\ topper' = "copy"
  /\ topdashH' = [topdashH EXCEPT ![tn] = [pid |-> pid, complete |-> FALSE]]
  /\ UNCHANGED <<pid, td, n, queues, tn, dumperVars, result>>

EndTop ==
  /\ topper \in {"top", "copy"}
  /\ topper' = "recv"
  /\ topdashH' = IF topper = "copy" THEN [topdashH EXCEPT ![tn].complete = TRUE] ELSE topdashH
  /\ e2' = e2 + 1
  /\ UNCHANGED <<pid, td, n, b1, b2, e1, tn, dumperVars, result>>

Loop == Start \/ Send \/ Collect \/ Sleep \/ CatJavacore \/ CatTopH \/ Post
Dumper == DumperRecv \/ Attempt
Topper == TopperRecv \/ CreateTop \/ EndTop

Next == Loop \/ Dumper \/ Topper

Spec == Init /\ [][Next]_vars

\* Goroutines are scheduled; the commands are bounded by a timer, or end.
FairSpec == Spec /\ WF_vars(Loop) /\ WF_vars(Dumper) /\ WF_vars(Topper)

(***************************************************************************)
(* Properties                                                              *)
(***************************************************************************)
Dump == [pid : 1..Pids, dump : BOOLEAN]
TopH == [pid : 1..Pids, complete : BOOLEAN]
Entry == [kind : {"dump"}, n : Rounds, file : Dump] \cup [kind : {"top"}, n : Rounds, file : TopH]

TypeOK ==
  /\ pid \in 1..(Pids + 1) /\ n \in Rounds
  /\ td \in {"start", "send", "wait", "sleep", "catJavacore", "catTopH", "post"}
  /\ b1 \in Seq(1..Closed) /\ b2 \in Seq(1..Closed) /\ e1 \in Nat /\ e2 \in Nat
  /\ dumper \in {"recv", "attempt", "end"} /\ dn \in 0..Closed
  /\ attempt \in 1..Len(Attempts)
  /\ topper \in {"recv", "top", "copy", "end"} /\ tn \in 0..Closed
  /\ javacore \in [Rounds -> Dump \cup {Absent}]
  /\ topdashH \in [Rounds -> TopH \cup {Absent}]
  /\ threaddump \in Seq(Entry)
  /\ posted \in Seq([pid : 1..Pids, content : Seq(Entry)])

\* threaddump.out holds everything the rounds of the process left behind, the
\* thread dumps before the output of top, both in the order they were taken; the
\* shell's order is the order of the numbers only up to 9 rounds.
HoldsEveryRound ==
  td = "post" =>
    /\ \A k \in Rounds :
         /\ javacore[k] # Absent /\ javacore[k].pid = pid =>
              [kind |-> "dump", n |-> k, file |-> javacore[k]] \in Range(threaddump)
         /\ topdashH[k] # Absent /\ topdashH[k].pid = pid =>
              [kind |-> "top", n |-> k, file |-> topdashH[k]] \in Range(threaddump)
    /\ Count <= 9 =>
         \A j, k \in 1..Len(threaddump) :
           j < k => \/ threaddump[j].kind = "dump" /\ threaddump[k].kind = "top"
                    \/ /\ threaddump[j].kind = threaddump[k].kind
                       /\ threaddump[j].n < threaddump[k].n

\* "In order to be valid, it should run after TopH": no output of top is
\* concatenated while it is still being written.
TopHComplete ==
  \A k \in 1..Len(threaddump) : threaddump[k].kind = "top" => threaddump[k].file.complete

\* Whichever attempts and commands fail, every process has its turn and both
\* goroutines end.
CaptureEnds == <>(pid > Pids)
GoroutinesEnd == <>[](dumper = "end" /\ topper = "end")

\* threaddump.out is the whole of what the rounds left, and of finished files.
ThreadDumpWhole == TypeOK /\ HoldsEveryRound /\ TopHComplete

\* The loop comes to the last process, and both goroutines of each end.
AllEnd == CaptureEnds /\ GoroutinesEnd

=============================================================================
