-------------------------------- MODULE Attach --------------------------------
(***************************************************************************)
(* Dynamic attach.  The agent runs itself with pid=<pid> in the            *)
(* environment when jstack, jcmd or jmap fail, and several captures may do *)
(* so at a time, so several clients attach to one JVM.  A client enters    *)
(* the JVM's namespaces and credentials (jattach1) and then speaks the     *)
(* JVM's protocol (jattach2):                                              *)
(*   HotSpot: a trigger file and SIGQUIT make the JVM open a socket;       *)
(*   OpenJ9: under the lock file _attachlock the client listens, leaves    *)
(*   its port and a random key in replyInfo, posts a semaphore once for    *)
(*   each JVM's directory, and is connected to by the JVM that finds the   *)
(*   replyInfo, while it holds the JVMs' attachNotificationSync files.     *)
(* A client may be killed at any time (the kernel then drops its flocks    *)
(* and sockets, and nothing else), and the JVM may die or stop.            *)
(***************************************************************************)
EXTENDS Integers, FiniteSets

CONSTANTS
  Clients,    \* processes that attach, each once; a client is its random key, too
  Jvms,       \* directories in .com_ibm_tools_attach
  Target,     \* the JVM attached to
  Ports,      \* ports the clients' sockets are given
  Polls,      \* bound: polls for HotSpot's socket (24 in the code)
  MaxFiles,   \* MAX_NOTIF_FILES
  NoOne

ASSUME AttachAssumption ==
  /\ IsFiniteSet(Jvms) /\ Target \in Jvms /\ NoOne \notin Clients
  /\ Polls \in Nat \ {0} /\ MaxFiles \in Nat \ {0} /\ 0 \notin Ports

VARIABLES
  kind,       \* "hotspot" or "openj9"
  cwdBad,     \* whether the JVM's working directory takes no trigger it would trust
  semBad,     \* whether semget fails
  jvm,        \* "up", "stuck" or "dead"
  quit,       \* HotSpot: SIGQUIT is pending
  socket,     \* HotSpot: .java_pid<pid> exists
  waits,      \* OpenJ9: what each JVM's attach handler does
  seen,       \* OpenJ9: the replyInfo the target has read
  triggers,   \* places that hold a file .attach_pid<pid>
  attachLock, \* holder of _attachlock
  sync,       \* holder of each JVM's attachNotificationSync
  reply,      \* content of the target's replyInfo
  sem,        \* value of the JVMs' semaphore
  pc,         \* where each client is
  view,       \* "inside" the JVM's namespaces, "outside" them, or "lost": its pid there is unknown
  place,      \* where the client created its trigger
  polls,      \* polls it has made
  port,       \* port it listens on, 0 when it does not
  count,      \* notif_count
  failed,     \* it is on jattach_openj9's error path
  caller,     \* the key presented by the connection it has, if any
  answer,     \* "none", "asked", "part" or "whole": how much the JVM has answered
  res         \* what jattach2 returned

setting == <<kind, cwdBad, semBad>>
jvmVars == <<jvm, quit, socket, waits, seen>>
files == <<triggers, attachLock, sync, reply, sem>>
hotspot == <<place, polls>>
openj9 == <<port, count, failed, caller>>
vars == <<setting, jvmVars, files, pc, view, hotspot, openj9, answer, res>>

NoReply == [port |-> 0, key |-> NoOne]
Replies == [port : Ports, key : Clients]
Ended == {"done", "killed"}

Init ==
  /\ kind \in {"hotspot", "openj9"} /\ cwdBad \in BOOLEAN /\ semBad \in BOOLEAN
  /\ cwdBad => kind = "hotspot"
  /\ semBad => kind = "openj9"     \* where they matter
  /\ jvm = "up" /\ quit = FALSE /\ socket = FALSE
  /\ waits = [j \in Jvms |-> "waiting"] /\ seen = NoReply
  /\ triggers = {} /\ attachLock = NoOne /\ sync = [j \in Jvms |-> NoOne]
  /\ reply = NoReply /\ sem = 0
  /\ pc = [c \in Clients |-> "start"] /\ view = [c \in Clients |-> "inside"]
  /\ place = [c \in Clients |-> "none"] /\ polls = [c \in Clients |-> 0]
  /\ port = [c \in Clients |-> 0] /\ count = [c \in Clients |-> 0]
  /\ failed = [c \in Clients |-> FALSE] /\ caller = [c \in Clients |-> NoOne]
  /\ answer = [c \in Clients |-> "none"] /\ res = [c \in Clients |-> -1]

Goto(c, from, to) == pc[c] = from /\ pc' = [pc EXCEPT ![c] = to]
Return(c, from, code) == Goto(c, from, "done") /\ res' = [res EXCEPT ![c] = code]
Connected(c) == jvm # "dead"

(***************************************************************************)
(* jattach1 and jattach2                                                   *)
(***************************************************************************)
\* The pid the process has inside: NStgid, or the process there whose sched names it.
NsPid(v) == IF v = "lost" THEN "host pid" ELSE "inner pid"

Enter(c) ==
  \/ Return(c, "start", 1) /\ UNCHANGED view     \* no such process, or no permission
  \/ /\ jvm # "dead" /\ Goto(c, "start", "dispatch")
     /\ \E v \in {"inside", "outside", "lost"} : view' = [view EXCEPT ![c] = v]
     /\ UNCHANGED res

EnterStep(c) == Enter(c) /\ UNCHANGED <<setting, jvmVars, files, hotspot, openj9, answer>>

\* is_openj9_process looks for the attachInfo of that pid.
Dispatch(c) ==
  /\ Goto(c, "dispatch", IF kind = "openj9" /\ NsPid(view[c]) = "inner pid" THEN "lock" ELSE "check")
  /\ UNCHANGED <<setting, jvmVars, files, view, hotspot, openj9, answer, res>>

(***************************************************************************)
(* HotSpot                                                                 *)
(***************************************************************************)
SeesSocket(c) == socket /\ NsPid(view[c]) = "inner pid"

CheckSocket(c) ==
  /\ Goto(c, "check", IF SeesSocket(c) THEN "connect" ELSE "create")
  /\ UNCHANGED <<setting, jvmVars, files, view, hotspot, openj9, answer, res>>

\* /proc/<nspid>/cwd is the JVM's only when /proc is that of its namespace.
FirstPlace(c) == IF view[c] = "inside" THEN "cwd" ELSE "elsewhere"
SecondPlace(c) == IF view[c] = "lost" THEN "elsewhere" ELSE "tmp"

CreateTrigger(c) ==
  /\ \/ /\ ~ cwdBad /\ Goto(c, "create", "quit") /\ UNCHANGED res
        /\ place' = [place EXCEPT ![c] = FirstPlace(c)]
        /\ triggers' = triggers \cup {FirstPlace(c)}
     \/ /\ cwdBad /\ Goto(c, "create", "quit") /\ UNCHANGED res
        /\ place' = [place EXCEPT ![c] = SecondPlace(c)]
        /\ triggers' = (triggers \ {FirstPlace(c)}) \cup {SecondPlace(c)}
     \/ /\ cwdBad /\ Return(c, "create", 1)
        /\ triggers' = triggers \ {FirstPlace(c)} /\ UNCHANGED place
  /\ UNCHANGED <<setting, jvmVars, attachLock, sync, reply, sem, view, polls, openj9, answer>>

SendQuit(c) ==
  /\ Goto(c, "quit", "poll")
  /\ quit' = (jvm # "dead")
  /\ UNCHANGED <<setting, jvm, socket, waits, seen, files, view, hotspot, openj9, answer, res>>

Poll(c) ==
  /\ polls' = [polls EXCEPT ![c] = @ + 1]
  /\ Goto(c, "poll", IF SeesSocket(c) THEN "opened" ELSE IF polls[c] + 1 < Polls THEN "poll" ELSE "expired")
  /\ UNCHANGED <<setting, jvmVars, files, view, place, openj9, answer, res>>

RemoveTrigger(c) ==
  /\ \/ Goto(c, "opened", "connect") /\ UNCHANGED res
     \/ Return(c, "expired", 1)
  /\ triggers' = triggers \ {place[c]}
  /\ UNCHANGED <<setting, jvmVars, attachLock, sync, reply, sem, view, hotspot, openj9, answer>>

Connect(c) ==
  /\ \/ jvm # "dead" /\ Goto(c, "connect", "command") /\ UNCHANGED res
     \/ jvm = "dead" /\ Return(c, "connect", 1)
  /\ UNCHANGED <<setting, jvmVars, files, view, hotspot, openj9, answer>>

\* The first chunk holds the JVM's result; what follows is copied until the end.
ReadFirst(c) ==
  /\ \/ /\ answer[c] \in {"part", "whole"} /\ Goto(c, "read", "rest")
        /\ \E code \in {0, 1} : res' = [res EXCEPT ![c] = code]
     \/ ~ Connected(c) /\ answer[c] = "asked" /\ Return(c, "read", 1)
  /\ UNCHANGED <<setting, jvmVars, files, view, hotspot, openj9, answer>>

ReadRest(c) ==
  /\ answer[c] = "whole" \/ ~ Connected(c)
  /\ Goto(c, "rest", "done")
  /\ UNCHANGED <<setting, jvmVars, files, view, hotspot, openj9, answer, res>>

(***************************************************************************)
(* OpenJ9                                                                  *)
(***************************************************************************)
OpenLock(c) ==
  /\ \/ Goto(c, "lock", "flock") /\ UNCHANGED res
     \/ Return(c, "lock", 1)
  /\ UNCHANGED <<setting, jvmVars, files, view, hotspot, openj9, answer>>

\* flock waits for the other holder, however long it takes.
AcquireLock(c) ==
  /\ attachLock = NoOne /\ attachLock' = c /\ Goto(c, "flock", "listen")
  /\ UNCHANGED <<setting, jvmVars, triggers, sync, reply, sem, view, hotspot, openj9, answer, res>>

Fail(c, from, to) == Goto(c, from, to) /\ failed' = [failed EXCEPT ![c] = TRUE]

Listen(c) ==
  /\ \/ \E p \in Ports \ {port[d] : d \in Clients} :
          port' = [port EXCEPT ![c] = p] /\ Goto(c, "listen", "reply") /\ UNCHANGED failed
     \/ Fail(c, "listen", "unlock") /\ UNCHANGED port
  /\ UNCHANGED <<setting, jvmVars, files, view, hotspot, count, caller, answer, res>>

WriteReply(c) ==
  /\ \/ Goto(c, "reply", "sync") /\ reply' = [port |-> port[c], key |-> c] /\ UNCHANGED failed
     \/ Fail(c, "reply", "close") /\ UNCHANGED reply
  /\ UNCHANGED <<setting, jvmVars, triggers, attachLock, sync, sem, view, hotspot, port, count, caller,
                 answer, res>>

\* A directory whose file cannot be locked is counted like the others.
LockNotifications(c) ==
  /\ Goto(c, "sync", "post")
  /\ \E dirs \in SUBSET Jvms, locked \in SUBSET Jvms :
       /\ Cardinality(dirs) = (IF Cardinality(Jvms) < MaxFiles THEN Cardinality(Jvms) ELSE MaxFiles)
       /\ locked \subseteq dirs /\ \A j \in locked : sync[j] = NoOne
       /\ sync' = [j \in Jvms |-> IF j \in locked THEN c ELSE sync[j]]
       /\ count' = [count EXCEPT ![c] = Cardinality(dirs)]
  /\ UNCHANGED <<setting, jvmVars, triggers, attachLock, reply, sem, view, hotspot, port, failed, caller,
                 answer, res>>

\* From outside the JVM's IPC namespace the key names another semaphore.
Post(c) ==
  /\ \/ ~ semBad /\ Goto(c, "post", "accept") /\ UNCHANGED failed
     \/ semBad /\ Fail(c, "post", "close")
  /\ sem' = IF semBad \/ view[c] # "inside" THEN sem ELSE sem + count[c]
  /\ UNCHANGED <<setting, jvmVars, triggers, attachLock, sync, reply, view, hotspot, port, count, caller,
                 answer, res>>

\* For mutation: the key is not compared.
AcceptAnyKey(c) ==
  /\ \/ caller[c] # NoOne /\ Connected(c) /\ Goto(c, "accept", "close") /\ UNCHANGED failed
     \/ (caller[c] = NoOne \/ ~ Connected(c)) /\ Fail(c, "accept", "close")
  /\ UNCHANGED <<setting, jvmVars, files, view, hotspot, port, count, caller, answer, res>>

\* accept_client: five seconds for a connection that presents the key.
Accept(c) ==
  /\ \/ caller[c] = c /\ Connected(c) /\ Goto(c, "accept", "close") /\ UNCHANGED failed
     \/ (caller[c] # c \/ ~ Connected(c)) /\ Fail(c, "accept", "close")
  /\ UNCHANGED <<setting, jvmVars, files, view, hotspot, port, count, caller, answer, res>>

CloseSocket(c) ==
  /\ Goto(c, "close", "unsync")
  /\ reply' = NoReply /\ port' = [port EXCEPT ![c] = 0]
  /\ UNCHANGED <<setting, jvmVars, triggers, attachLock, sync, sem, view, hotspot, count, failed, caller,
                 answer, res>>

UnlockNotifications(c) ==
  /\ Goto(c, "unsync", "drain")
  /\ sync' = [j \in Jvms |-> IF sync[j] = c THEN NoOne ELSE sync[j]]
  /\ UNCHANGED <<setting, jvmVars, triggers, attachLock, reply, sem, view, hotspot, openj9, answer, res>>

\* For mutation: the error path leaves the posts; the decrements wait for nothing but count.
DrainOnSuccess(c) ==
  /\ Goto(c, "drain", "unlock")
  /\ sem' = IF semBad \/ view[c] # "inside" \/ failed[c] THEN sem
            ELSE IF sem > count[c] THEN sem - count[c] ELSE 0
  /\ UNCHANGED <<setting, jvmVars, triggers, attachLock, sync, reply, view, hotspot, openj9, answer, res>>
DrainUnchecked(c) ==
  /\ Goto(c, "drain", "unlock")
  /\ sem' = IF semBad \/ view[c] # "inside" THEN sem ELSE sem - count[c]
  /\ UNCHANGED <<setting, jvmVars, triggers, attachLock, sync, reply, view, hotspot, openj9, answer, res>>

\* For mutation: the error path returns with the attach lock held.
UnlockOnSuccess(c) ==
  /\ \/ failed[c] /\ Return(c, "unlock", 1) /\ UNCHANGED attachLock
     \/ ~ failed[c] /\ Goto(c, "unlock", "command") /\ attachLock' = NoOne /\ UNCHANGED res
  /\ UNCHANGED <<setting, jvmVars, triggers, sync, reply, sem, view, hotspot, openj9, answer>>

\* IPC_NOWAIT: what the JVMs have taken is not waited for.
Drain(c) ==
  /\ Goto(c, "drain", "unlock")
  /\ sem' = IF semBad \/ view[c] # "inside" THEN sem ELSE IF sem > count[c] THEN sem - count[c] ELSE 0
  /\ UNCHANGED <<setting, jvmVars, triggers, attachLock, sync, reply, view, hotspot, openj9, answer, res>>

Unlock(c) ==
  /\ \/ failed[c] /\ Return(c, "unlock", 1)
     \/ ~ failed[c] /\ Goto(c, "unlock", "command") /\ UNCHANGED res
  /\ attachLock' = NoOne
  /\ UNCHANGED <<setting, jvmVars, triggers, sync, reply, sem, view, hotspot, openj9, answer>>

\* For mutation: the end of the connection ends the answer.
ReadResponseToEnd(c) ==
  /\ \/ /\ answer[c] = "whole" \/ (answer[c] = "part" /\ ~ Connected(c))
        /\ Goto(c, "response", "detach") /\ res' = [res EXCEPT ![c] = 0]
     \/ answer[c] # "whole" /\ Return(c, "response", 1)
  /\ UNCHANGED <<setting, jvmVars, files, view, hotspot, openj9, answer>>

\* The answer ends with a NUL; half an hour without a byte ends the wait for it.
ReadResponse(c) ==
  /\ \/ answer[c] = "whole" /\ Goto(c, "response", "detach") /\ res' = [res EXCEPT ![c] = 0]
     \/ answer[c] # "whole" /\ Return(c, "response", 1)
  /\ UNCHANGED <<setting, jvmVars, files, view, hotspot, openj9, answer>>

Detach(c) ==
  /\ Goto(c, "detach", "done")
  /\ UNCHANGED <<setting, jvmVars, files, view, hotspot, openj9, answer, res>>

(***************************************************************************)
(* Both: the command, and what kills a client                              *)
(***************************************************************************)
SpeaksOpenJ9(c) == count[c] > 0

WriteCommand(c) ==
  /\ \/ /\ Connected(c) /\ answer' = [answer EXCEPT ![c] = "asked"] /\ UNCHANGED res
        /\ Goto(c, "command", IF SpeaksOpenJ9(c) THEN "response" ELSE "read")
     \/ ~ Connected(c) /\ Return(c, "command", 1) /\ UNCHANGED answer
  /\ UNCHANGED <<setting, jvmVars, files, view, hotspot, openj9>>

Kill(c) ==
  /\ pc[c] \notin Ended \cup {"start"} /\ pc' = [pc EXCEPT ![c] = "killed"]
  /\ attachLock' = IF attachLock = c THEN NoOne ELSE attachLock
  /\ sync' = [j \in Jvms |-> IF sync[j] = c THEN NoOne ELSE sync[j]]
  /\ port' = [port EXCEPT ![c] = 0]
  /\ UNCHANGED <<setting, jvmVars, triggers, reply, sem, view, hotspot, count, failed, caller, answer, res>>

(***************************************************************************)
(* The JVM                                                                 *)
(***************************************************************************)
clientVars == <<pc, view, hotspot, count, port, failed, res>>

\* An OpenJ9 JVM that stops is one that takes no step: nothing here obliges it to.
Wither ==
  /\ jvm = "up" /\ jvm' \in (IF kind = "hotspot" THEN {"stuck", "dead"} ELSE {"dead"})
  /\ UNCHANGED <<setting, quit, socket, waits, seen, files, clientVars, caller, answer>>

\* The listener starts when a trigger is found, and runs from then on.
HandleQuit ==
  /\ kind = "hotspot" /\ jvm = "up" /\ quit /\ quit' = FALSE
  /\ socket' = (socket \/ triggers \cap {"cwd", "tmp"} # {})
  /\ UNCHANGED <<setting, jvm, waits, seen, files, clientVars, caller, answer>>

Answer(c) ==
  /\ jvm = "up"
  /\ \/ answer[c] = "asked" /\ answer' = [answer EXCEPT ![c] = "part"]
     \/ answer[c] = "part" /\ answer' = [answer EXCEPT ![c] = "whole"]
  /\ UNCHANGED <<setting, jvmVars, files, clientVars, caller>>

Runs(j) == kind = "openj9" /\ (j = Target => jvm = "up")

Wake(j) ==
  /\ Runs(j) /\ waits[j] = "waiting" /\ sem > 0
  /\ sem' = sem - 1 /\ waits' = [waits EXCEPT ![j] = "woken"]
  /\ UNCHANGED <<setting, jvm, quit, socket, seen, triggers, attachLock, sync, reply, clientVars, caller,
                 answer>>

ReadReply(j) ==
  /\ Runs(j) /\ waits[j] = "woken"
  /\ \/ /\ j = Target /\ reply # NoReply
        /\ seen' = reply /\ waits' = [waits EXCEPT ![j] = "connecting"]
     \/ (j # Target \/ reply = NoReply) /\ waits' = [waits EXCEPT ![j] = "syncing"] /\ UNCHANGED seen
  /\ UNCHANGED <<setting, jvm, quit, socket, files, clientVars, caller, answer>>

\* It connects to whoever listens on the port by now, within its network namespace.
ConnectBack ==
  /\ Runs(Target) /\ waits[Target] = "connecting"
  /\ waits' = [waits EXCEPT ![Target] = "syncing"]
  /\ caller' = [c \in Clients |-> IF port[c] = seen.port /\ view[c] = "inside" /\ caller[c] = NoOne
                                  THEN seen.key ELSE caller[c]]
  /\ UNCHANGED <<setting, jvm, quit, socket, seen, files, clientVars, answer>>

WaitAgain(j) ==
  /\ Runs(j) /\ waits[j] = "syncing" /\ sync[j] = NoOne
  /\ waits' = [waits EXCEPT ![j] = "waiting"]
  /\ UNCHANGED <<setting, jvm, quit, socket, seen, files, clientVars, caller, answer>>

Client(c) ==
  \/ EnterStep(c) \/ Dispatch(c)
  \/ CheckSocket(c) \/ CreateTrigger(c) \/ SendQuit(c) \/ Poll(c) \/ RemoveTrigger(c) \/ Connect(c)
  \/ ReadFirst(c) \/ ReadRest(c)
  \/ OpenLock(c) \/ AcquireLock(c) \/ Listen(c) \/ WriteReply(c) \/ LockNotifications(c) \/ Post(c) \/ Accept(c)
  \/ CloseSocket(c) \/ UnlockNotifications(c) \/ Drain(c) \/ Unlock(c)
  \/ ReadResponse(c) \/ Detach(c) \/ WriteCommand(c)

Next ==
  \/ \E c \in Clients : Client(c) \/ Kill(c) \/ Answer(c)
  \/ \E j \in Jvms : Wake(j) \/ ReadReply(j) \/ WaitAgain(j)
  \/ ConnectBack \/ HandleQuit \/ Wither

\* Processes run; a HotSpot JVM that is up answers what it has accepted.
Fairness ==
  \A c \in Clients : WF_vars(Client(c)) /\ WF_vars(kind = "hotspot" /\ Answer(c))

Spec == Init /\ [][Next]_vars /\ Fairness

(***************************************************************************)
(* Properties                                                              *)
(***************************************************************************)
Points ==
  {"start", "dispatch", "check", "create", "quit", "poll", "opened", "expired", "connect", "command",
   "read", "rest", "lock", "flock", "listen", "reply", "sync", "post", "accept", "close", "unsync",
   "drain", "unlock", "response", "detach"} \cup Ended

TypeOK ==
  /\ kind \in {"hotspot", "openj9"} /\ cwdBad \in BOOLEAN /\ semBad \in BOOLEAN
  /\ jvm \in {"up", "stuck", "dead"} /\ quit \in BOOLEAN /\ socket \in BOOLEAN
  /\ waits \in [Jvms -> {"waiting", "woken", "connecting", "syncing"}] /\ seen \in Replies \cup {NoReply}
  /\ triggers \subseteq {"cwd", "tmp", "elsewhere"} /\ attachLock \in Clients \cup {NoOne}
  /\ sync \in [Jvms -> Clients \cup {NoOne}] /\ reply \in Replies \cup {NoReply} /\ sem \in Nat
  /\ pc \in [Clients -> Points]
  /\ view \in [Clients -> {"inside", "outside", "lost"}]
  /\ place \in [Clients -> {"none", "cwd", "tmp", "elsewhere"}] /\ polls \in [Clients -> 0..Polls]
  /\ port \in [Clients -> Ports \cup {0}] /\ count \in [Clients -> 0..Cardinality(Jvms)]
  /\ failed \in [Clients -> BOOLEAN] /\ caller \in [Clients -> Clients \cup {NoOne}]
  /\ answer \in [Clients -> {"none", "asked", "part", "whole"}] /\ res \in [Clients -> {-1, 0, 1}]

\* Whatever of an attach is left on the JVM's side belongs to an attach in
\* progress or to a client that was killed: the replyInfo to the holder of
\* the attach lock, posts to a client that holds it after notifying, trigger
\* files to a client between creat and unlink.  A later attach therefore
\* neither wakes a JVM for nothing nor overwrites a replyInfo in use.
NothingLeftBehind ==
  /\ reply # NoReply => attachLock = reply.key \/ pc[reply.key] = "killed"
  /\ sem > 0 => \/ \E c \in Clients : pc[c] = "killed"
                \/ \E c \in Clients : attachLock = c /\ pc[c] \in {"accept", "close", "unsync", "drain"}
  /\ \A j \in Jvms : sync[j] # NoOne => attachLock = sync[j]
  /\ \A f \in triggers : \E c \in Clients :
       place[c] = f /\ pc[c] \in {"quit", "poll", "opened", "expired", "killed"}

\* A client inside the JVM's namespaces polls only while its trigger is there to be found or the socket
\* it waits for is open, as long as no other client has given up or was
\* killed: the clients of one JVM share the trigger file, and the one that
\* removes it has seen the socket.
WaitsForATrigger ==
  \A c \in Clients : pc[c] = "poll" /\ view[c] = "inside" /\ (\A d \in Clients : pc[d] # "killed" /\ polls[d] < Polls)
    => place[c] \in triggers \/ socket

\* The files, the lock and the semaphore that clients and JVMs share are those
\* of an attach in progress, and are there while it needs them.
SharedWithTheJvm == NothingLeftBehind /\ WaitsForATrigger

\* An OpenJ9 command goes only to a JVM that has read the replyInfo this
\* client wrote, even when a JVM that was slow to answer an earlier client
\* connects to a port that is in use again.
CommandToItsReader ==
  \A c \in Clients : SpeaksOpenJ9(c) /\ answer[c] # "none" => caller[c] = c

\* jattach2 returns 0 only when the JVM has answered: an OpenJ9 one all of
\* the answer, a HotSpot one its first line at least.
SuccessIsAnswered ==
  \A c \in Clients : pc[c] = "done" /\ res[c] = 0
    => answer[c] = "whole" \/ (kind = "hotspot" /\ answer[c] = "part" /\ jvm = "dead")

\* Every attach ends, with nobody left in the queue for the attach lock, even
\* when an OpenJ9 JVM never answers.  Only a HotSpot JVM that stops can keep
\* a client: nothing bounds the wait for its answer.
AttachEnds == \A c \in Clients : <>(pc[c] \in Ended \/ (kind = "hotspot" /\ jvm = "stuck"))
==============================================================================
