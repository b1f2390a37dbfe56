---------------------------- MODULE NativeProofs ----------------------------
(***************************************************************************)
(* Proofs about the vendored C code that runs in the agent's own process:   *)
(* jattach (Attach), the libraries of procps (ProcLib), and vmstat, which   *)
(* is a client of those (VMStat).                                           *)
(*                                                                          *)
(* The first part is about Attach, for any number of clients and of JVMs'   *)
(* directories, any ports and any number of polls.  ClientInv says of one   *)
(* client what the point it is at means for the lock, for its trigger file  *)
(* and for what the JVM has told it; SharedInv says whose the shared files  *)
(* are.                                                                     *)
(*                                                                          *)
(* The second part is about ProcLib, for any table of times, any files of   *)
(* the kernel and any calls: lemmas about each operation of each library,   *)
(* what a read does to the samples and what a reap shows of them, and last  *)
(* the invariant RInv of the calls: the handle is whole (HandleInv) and     *)
(* holds the samples of the last reads (SamplesOk).                         *)
(*                                                                          *)
(* The third part is about VMStat, the caller of those libraries, for any   *)
(* command line, window and files: arithmetic of remainders, what a display *)
(* prints of its rows, what each library's call gives that the program      *)
(* needs, and the invariant VmInv of the program, a lemma for each action.  *)
(***************************************************************************)
EXTENDS Attach, ProcLib, VMStat, TLAPS, FiniteSetTheorems, WellFoundedInduction, SequenceTheorems

\* Where a client holds the attach lock.
InLock == {"listen", "reply", "sync", "post", "accept", "close", "unsync", "drain", "unlock"}

HoldsLock(c) ==
  /\ pc[c] \in InLock => attachLock = c
  /\ pc[c] = "reply" => port[c] \in Ports

\* The polls that are left, and that only a socket ends them early.
Polled(c) ==
  /\ pc[c] \in {"start", "dispatch", "check", "create", "quit", "poll"} => polls[c] < Polls
  /\ pc[c] = "expired" => polls[c] = Polls
  /\ pc[c] \in {"opened", "connect"} => socket
  /\ pc[c] \in {"quit", "poll"} /\ view[c] = "inside" => place[c] = IF cwdBad THEN "tmp" ELSE "cwd"

\* A client that has notified JVMs goes on only with a connection that presented its
\* key, and to an OpenJ9 JVM's answer; the others to a HotSpot JVM's.
Spoken(c) ==
  /\ pc[c] \in {"post", "accept"} => count[c] > 0
  /\ pc[c] \in {"close", "unsync", "drain", "unlock"} => failed[c] \/ (count[c] > 0 /\ caller[c] = c)
  /\ pc[c] \in {"start", "dispatch", "check", "create", "quit", "poll", "opened", "expired", "connect"}
       => count[c] = 0
  /\ pc[c] = "command" => (count[c] = 0 /\ kind = "hotspot") \/ (count[c] > 0 /\ caller[c] = c)
  /\ pc[c] \in {"read", "rest"} => kind = "hotspot"
  /\ answer[c] # "none" => /\ pc[c] \in {"read", "rest", "response", "detach"} \cup Ended
                           /\ count[c] > 0 => caller[c] = c

\* What the JVM has answered when jattach2 returns 0.
Answered(c) ==
  /\ pc[c] = "rest" /\ res[c] = 0 => answer[c] \in {"part", "whole"}
  /\ pc[c] = "detach" => answer[c] = "whole"
  /\ pc[c] = "done" /\ res[c] = 0
       => answer[c] = "whole" \/ (kind = "hotspot" /\ answer[c] = "part" /\ jvm = "dead")

ClientInv(c) == HoldsLock(c) /\ Polled(c) /\ Spoken(c) /\ Answered(c)

\* replyInfo is written and removed under the lock, unless its writer was killed.
ReplyInv == reply # NoReply => pc[reply.key] \in {"sync", "post", "accept", "close", "killed"}

\* The semaphore's value is at most what the holder of the lock has posted and will
\* take back, unless a client was killed.
PostsInv ==
  sem > 0 =>
    \/ \E c \in Clients : pc[c] = "killed"
    \/ \E c \in Clients : /\ pc[c] \in {"accept", "close", "unsync", "drain"}
                          /\ view[c] = "inside" /\ ~ semBad /\ sem <= count[c]

SyncInv == \A j \in Jvms : sync[j] # NoOne => pc[sync[j]] \in {"post", "accept", "close", "unsync"}

TriggersInv ==
  \A f \in triggers : \E c \in Clients :
    place[c] = f /\ pc[c] \in {"quit", "poll", "opened", "expired", "killed"}

SocketInv == socket => kind = "hotspot"

\* As in WaitsForATrigger, and also before the first poll.
Patient == \A d \in Clients : pc[d] # "killed" /\ polls[d] < Polls
WaitsInv ==
  \A c \in Clients :
    pc[c] \in {"quit", "poll"} /\ view[c] = "inside" /\ Patient => place[c] \in triggers \/ socket

SharedInv == ReplyInv /\ PostsInv /\ SyncInv /\ TriggersInv /\ SocketInv /\ WaitsInv

IInv == TypeOK /\ (\A c \in Clients : ClientInv(c)) /\ SharedInv

-----------------------------------------------------------------------------
\* Before the first step the invariant holds.
LEMMA InitInv == Init => IInv
<1> SUFFICES ASSUME Init PROVE IInv OBVIOUS
<1>0. Cardinality(Jvms) \in Nat BY AttachAssumption, FS_CardinalityType
<1>1. TypeOK
  <2>1. polls \in [Clients -> 0..Polls] BY AttachAssumption DEF Init
  <2>2. count \in [Clients -> 0..Cardinality(Jvms)] BY <1>0 DEF Init
  <2>3. /\ waits \in [Jvms -> {"waiting", "woken", "connecting", "syncing"}]
        /\ sync \in [Jvms -> Clients \cup {NoOne}] /\ caller \in [Clients -> Clients \cup {NoOne}]
    BY DEF Init
  <2>4. pc \in [Clients -> Points] BY DEF Init, Points
  <2>q. QED BY <2>1, <2>2, <2>3, <2>4 DEF Init, TypeOK
<1>2. ASSUME NEW c \in Clients PROVE ClientInv(c)
  BY AttachAssumption DEF Init, ClientInv, HoldsLock, InLock, Polled, Spoken, Answered
<1>3. SharedInv
  BY DEF Init, SharedInv, ReplyInv, PostsInv, SyncInv, TriggersInv, SocketInv, WaitsInv
<1>q. QED BY <1>1, <1>2, <1>3 DEF IInv

\* The key in a replyInfo is a client.
LEMMA ReplyKey == TypeOK /\ reply # NoReply => reply.key \in Clients
BY DEF TypeOK, Replies

\* A client enters the JVM's namespaces, or cannot.
LEMMA EnterStepInv == ASSUME IInv, NEW c \in Clients, EnterStep(c) PROVE IInv'
<1>0. TypeOK /\ (\A d \in Clients : ClientInv(d)) /\ SharedInv BY DEF IInv
<1> USE AttachAssumption DEF TypeOK, Ended, Points
<1>1. TypeOK' BY <1>0 DEF EnterStep, Goto, Return, Enter, setting, jvmVars, files, hotspot, openj9
<1>2. ASSUME NEW d \in Clients PROVE ClientInv(d)'
  BY <1>0 DEF EnterStep, Goto, Return, Enter, setting, jvmVars, files, hotspot, openj9, ClientInv,
     HoldsLock, InLock, Polled, Spoken, Answered
<1>3. SharedInv'
  BY <1>0, ReplyKey DEF EnterStep, Goto, Return, Enter, setting, jvmVars, files, hotspot, openj9,
     SharedInv, ReplyInv, PostsInv, SyncInv, TriggersInv, SocketInv, WaitsInv, Patient, ClientInv,
     HoldsLock, InLock, Polled
<1>q. QED BY <1>1, <1>2, <1>3 DEF IInv

\* Only a client that knows the JVM's inner pid takes it for an OpenJ9 one.
LEMMA DispatchInv == ASSUME IInv, NEW c \in Clients, Dispatch(c) PROVE IInv'
<1>0. TypeOK /\ (\A d \in Clients : ClientInv(d)) /\ SharedInv BY DEF IInv
<1> USE AttachAssumption DEF TypeOK, Ended, Points
<1>1. TypeOK' BY <1>0 DEF Dispatch, Goto, NsPid, setting, jvmVars, files, hotspot, openj9
<1>2. ASSUME NEW d \in Clients PROVE ClientInv(d)'
  BY <1>0 DEF Dispatch, Goto, NsPid, setting, jvmVars, files, hotspot, openj9, ClientInv, HoldsLock,
     InLock, Polled, Spoken, Answered
<1>3. SharedInv'
  BY <1>0, ReplyKey DEF Dispatch, Goto, NsPid, setting, jvmVars, files, hotspot, openj9, SharedInv,
     ReplyInv, PostsInv, SyncInv, TriggersInv, SocketInv, WaitsInv, Patient, ClientInv, HoldsLock,
     InLock, Polled
<1>q. QED BY <1>1, <1>2, <1>3 DEF IInv

\* The socket may be open from an earlier attach.
LEMMA CheckSocketInv == ASSUME IInv, NEW c \in Clients, CheckSocket(c) PROVE IInv'
<1>0. TypeOK /\ (\A d \in Clients : ClientInv(d)) /\ SharedInv BY DEF IInv
<1> USE AttachAssumption DEF TypeOK, Ended, Points
<1>1. TypeOK' BY <1>0 DEF CheckSocket, Goto, SeesSocket, NsPid, setting, jvmVars, files, hotspot, openj9
<1>2. ASSUME NEW d \in Clients PROVE ClientInv(d)'
  BY <1>0 DEF CheckSocket, Goto, SeesSocket, NsPid, setting, jvmVars, files, hotspot, openj9,
     ClientInv, HoldsLock, InLock, Polled, Spoken, Answered
<1>3. SharedInv'
  BY <1>0, ReplyKey DEF CheckSocket, Goto, SeesSocket, NsPid, setting, jvmVars, files, hotspot,
     openj9, SharedInv, ReplyInv, PostsInv, SyncInv, TriggersInv, SocketInv, WaitsInv, Patient,
     ClientInv, HoldsLock, InLock, Polled
<1>q. QED BY <1>1, <1>2, <1>3 DEF IInv

\* A trigger in the place that cannot be trusted is removed; nobody who is inside waits for that one.
LEMMA CreateTriggerInv == ASSUME IInv, NEW c \in Clients, CreateTrigger(c) PROVE IInv'
<1>0. TypeOK /\ (\A d \in Clients : ClientInv(d)) /\ SharedInv BY DEF IInv
<1> USE AttachAssumption DEF TypeOK, Ended, Points
<1>p. FirstPlace(c) \in {"cwd", "elsewhere"} /\ SecondPlace(c) \in {"tmp", "elsewhere"}
  BY DEF FirstPlace, SecondPlace
<1>t. triggers' \subseteq {"cwd", "tmp", "elsewhere"}
  <2>1. triggers' \subseteq triggers \cup {FirstPlace(c), SecondPlace(c)} BY DEF CreateTrigger
  <2>q. QED BY <1>0, <1>p, <2>1
<1>1. TypeOK'
  <2>1. pc' \in [Clients -> Points] /\ res' \in [Clients -> {-1, 0, 1}]
    BY <1>0 DEF CreateTrigger, Goto, Return
  <2>2. place' \in [Clients -> {"none", "cwd", "tmp", "elsewhere"}] BY <1>0, <1>p DEF CreateTrigger
  <2>q. QED BY <1>0, <1>t, <2>1, <2>2 DEF CreateTrigger, setting, jvmVars, openj9
<1>2. ASSUME NEW d \in Clients PROVE ClientInv(d)'
  BY <1>0 DEF CreateTrigger, Goto, Return, FirstPlace, SecondPlace, setting, jvmVars, openj9,
     ClientInv, HoldsLock, InLock, Polled, Spoken, Answered
<1>3. ReplyInv' /\ PostsInv' /\ SyncInv' /\ SocketInv' /\ WaitsInv'
  BY <1>0, <1>p, ReplyKey DEF CreateTrigger, Goto, Return, FirstPlace, SecondPlace, setting,
     jvmVars, openj9, SharedInv, ReplyInv, PostsInv, SyncInv, SocketInv, WaitsInv, Patient,
     ClientInv, HoldsLock, InLock, Polled
<1>4. TriggersInv'
  <2>1. ASSUME NEW f \in triggers, f \in triggers'
        PROVE  \E d \in Clients :
                 place'[d] = f /\ pc'[d] \in {"quit", "poll", "opened", "expired", "killed"}
    <3>1. PICK d \in Clients : place[d] = f /\ pc[d] \in {"quit", "poll", "opened", "expired", "killed"}
      BY <1>0, <2>1 DEF SharedInv, TriggersInv
    <3>2. d # c BY <3>1 DEF CreateTrigger, Goto, Return
    <3>3. place'[d] = place[d] /\ pc'[d] = pc[d] BY <1>0, <3>2 DEF CreateTrigger, Goto, Return
    <3>q. QED BY <3>1, <3>3
  <2>2. ASSUME NEW f \in triggers', f \notin triggers PROVE place'[c] = f /\ pc'[c] = "quit"
    BY <1>0, <2>2 DEF CreateTrigger, Goto, Return
  <2>q. QED BY <2>1, <2>2 DEF TriggersInv
<1>q. QED BY <1>1, <1>2, <1>3, <1>4 DEF IInv, SharedInv

\* A trigger is there before the signal is.
LEMMA SendQuitInv == ASSUME IInv, NEW c \in Clients, SendQuit(c) PROVE IInv'
<1>0. TypeOK /\ (\A d \in Clients : ClientInv(d)) /\ SharedInv BY DEF IInv
<1> USE AttachAssumption DEF TypeOK, Ended, Points
<1>1. TypeOK' BY <1>0 DEF SendQuit, Goto, setting, files, hotspot, openj9
<1>2. ASSUME NEW d \in Clients PROVE ClientInv(d)'
  BY <1>0 DEF SendQuit, Goto, setting, files, hotspot, openj9, ClientInv, HoldsLock, InLock, Polled,
     Spoken, Answered
<1>3. SharedInv'
  BY <1>0, ReplyKey DEF SendQuit, Goto, setting, files, hotspot, openj9, SharedInv, ReplyInv,
     PostsInv, SyncInv, TriggersInv, SocketInv, WaitsInv, Patient, ClientInv, HoldsLock, InLock,
     Polled
<1>q. QED BY <1>1, <1>2, <1>3 DEF IInv

\* A client that has not seen the socket has one poll less.
LEMMA PollInv == ASSUME IInv, NEW c \in Clients, Poll(c) PROVE IInv'
<1>0. TypeOK /\ (\A d \in Clients : ClientInv(d)) /\ SharedInv BY DEF IInv
<1> USE AttachAssumption DEF TypeOK, Ended, Points
<1>p. polls[c] \in 0..Polls /\ polls[c] < Polls
  BY <1>0 DEF Poll, Goto, ClientInv, Polled
<1>1. TypeOK'
  <2>1. pc' \in [Clients -> Points] BY <1>0, <1>p DEF Poll, Goto, SeesSocket, NsPid
  <2>2. polls' \in [Clients -> 0..Polls] BY <1>0, <1>p DEF Poll, Goto, SeesSocket, NsPid
  <2>q. QED BY <1>0, <2>1, <2>2 DEF Poll, Goto, SeesSocket, NsPid, setting, jvmVars, files, openj9
<1>2. ASSUME NEW d \in Clients PROVE ClientInv(d)'
  <2>1. HoldsLock(d)'
    BY <1>0, <1>p DEF Poll, Goto, SeesSocket, NsPid, setting, jvmVars, files, openj9, ClientInv,
       HoldsLock, InLock
  <2>2. Polled(d)'
    BY <1>0, <1>p DEF Poll, Goto, SeesSocket, NsPid, setting, jvmVars, files, openj9, ClientInv, Polled
  <2>3. Spoken(d)'
    BY <1>0, <1>p DEF Poll, Goto, SeesSocket, NsPid, setting, jvmVars, files, openj9, ClientInv,
       Spoken, Polled, SharedInv, SocketInv
  <2>4. Answered(d)'
    BY <1>0, <1>p DEF Poll, Goto, SeesSocket, NsPid, setting, jvmVars, files, openj9, ClientInv,
       Spoken, Answered
  <2>q. QED BY <2>1, <2>2, <2>3, <2>4 DEF ClientInv
<1>3. SharedInv'
  BY <1>0, ReplyKey DEF Poll, Goto, SeesSocket, NsPid, setting, jvmVars, files, openj9, SharedInv,
     ReplyInv, PostsInv, SyncInv, TriggersInv, SocketInv, WaitsInv, Patient, ClientInv, HoldsLock,
     InLock, Polled
<1>q. QED BY <1>1, <1>2, <1>3 DEF IInv

\* The trigger that is removed may be another client's too, but then there is a socket, or this
\* client has given up.
LEMMA RemoveTriggerInv == ASSUME IInv, NEW c \in Clients, RemoveTrigger(c) PROVE IInv'
<1>0. TypeOK /\ (\A d \in Clients : ClientInv(d)) /\ SharedInv BY DEF IInv
<1> USE AttachAssumption DEF TypeOK, Ended, Points
<1>1. TypeOK'
  <2>1. pc' \in [Clients -> Points] BY <1>0 DEF RemoveTrigger, Goto, Return
  <2>2. res' \in [Clients -> {-1, 0, 1}] BY <1>0 DEF RemoveTrigger, Goto, Return
  <2>3. triggers' \in SUBSET {"cwd", "tmp", "elsewhere"} BY <1>0 DEF RemoveTrigger, Goto, Return
  <2>q. QED BY <1>0, <2>1, <2>2, <2>3 DEF RemoveTrigger, Goto, Return, setting, jvmVars, hotspot, openj9
<1>2. ASSUME NEW d \in Clients PROVE ClientInv(d)'
  BY <1>0 DEF RemoveTrigger, Goto, Return, setting, jvmVars, hotspot, openj9, ClientInv, HoldsLock,
     InLock, Polled, Spoken, Answered
<1>3. SharedInv'
  BY <1>0, ReplyKey DEF RemoveTrigger, Goto, Return, setting, jvmVars, hotspot, openj9, SharedInv,
     ReplyInv, PostsInv, SyncInv, TriggersInv, SocketInv, WaitsInv, Patient, ClientInv, HoldsLock,
     InLock, Polled
<1>q. QED BY <1>1, <1>2, <1>3 DEF IInv

\* The socket is a HotSpot JVM's.
LEMMA ConnectInv == ASSUME IInv, NEW c \in Clients, Connect(c) PROVE IInv'
<1>0. TypeOK /\ (\A d \in Clients : ClientInv(d)) /\ SharedInv BY DEF IInv
<1> USE AttachAssumption DEF TypeOK, Ended, Points
<1>1. TypeOK' BY <1>0 DEF Connect, Goto, Return, setting, jvmVars, files, hotspot, openj9
<1>2. ASSUME NEW d \in Clients PROVE ClientInv(d)'
  BY <1>0 DEF Connect, Goto, Return, setting, jvmVars, files, hotspot, openj9, ClientInv, HoldsLock,
     InLock, Polled, Spoken, Answered, SharedInv, SocketInv
<1>3. SharedInv'
  BY <1>0, ReplyKey DEF Connect, Goto, Return, setting, jvmVars, files, hotspot, openj9, SharedInv,
     ReplyInv, PostsInv, SyncInv, TriggersInv, SocketInv, WaitsInv, Patient, ClientInv, HoldsLock,
     InLock, Polled
<1>q. QED BY <1>1, <1>2, <1>3 DEF IInv

\* The result is in what the JVM has answered.
LEMMA ReadFirstInv == ASSUME IInv, NEW c \in Clients, ReadFirst(c) PROVE IInv'
<1>0. TypeOK /\ (\A d \in Clients : ClientInv(d)) /\ SharedInv BY DEF IInv
<1> USE AttachAssumption DEF TypeOK, Ended, Points
<1>1. TypeOK' BY <1>0 DEF ReadFirst, Goto, Return, Connected, setting, jvmVars, files, hotspot, openj9
<1>2. ASSUME NEW d \in Clients PROVE ClientInv(d)'
  BY <1>0 DEF ReadFirst, Goto, Return, Connected, setting, jvmVars, files, hotspot, openj9,
     ClientInv, HoldsLock, InLock, Polled, Spoken, Answered
<1>3. SharedInv'
  BY <1>0, ReplyKey DEF ReadFirst, Goto, Return, Connected, setting, jvmVars, files, hotspot,
     openj9, SharedInv, ReplyInv, PostsInv, SyncInv, TriggersInv, SocketInv, WaitsInv, Patient,
     ClientInv, HoldsLock, InLock, Polled
<1>q. QED BY <1>1, <1>2, <1>3 DEF IInv

\* The answer ends, or the JVM is gone.
LEMMA ReadRestInv == ASSUME IInv, NEW c \in Clients, ReadRest(c) PROVE IInv'
<1>0. TypeOK /\ (\A d \in Clients : ClientInv(d)) /\ SharedInv BY DEF IInv
<1> USE AttachAssumption DEF TypeOK, Ended, Points
<1>1. TypeOK' BY <1>0 DEF ReadRest, Goto, Connected, setting, jvmVars, files, hotspot, openj9
<1>2. ASSUME NEW d \in Clients PROVE ClientInv(d)'
  BY <1>0 DEF ReadRest, Goto, Connected, setting, jvmVars, files, hotspot, openj9, ClientInv,
     HoldsLock, InLock, Polled, Spoken, Answered
<1>3. SharedInv'
  BY <1>0, ReplyKey DEF ReadRest, Goto, Connected, setting, jvmVars, files, hotspot, openj9,
     SharedInv, ReplyInv, PostsInv, SyncInv, TriggersInv, SocketInv, WaitsInv, Patient, ClientInv,
     HoldsLock, InLock, Polled
<1>q. QED BY <1>1, <1>2, <1>3 DEF IInv

\* Opening the lock file is not holding it.
LEMMA OpenLockInv == ASSUME IInv, NEW c \in Clients, OpenLock(c) PROVE IInv'
<1>0. TypeOK /\ (\A d \in Clients : ClientInv(d)) /\ SharedInv BY DEF IInv
<1> USE AttachAssumption DEF TypeOK, Ended, Points
<1>1. TypeOK' BY <1>0 DEF OpenLock, Goto, Return, setting, jvmVars, files, hotspot, openj9
<1>2. ASSUME NEW d \in Clients PROVE ClientInv(d)'
  BY <1>0 DEF OpenLock, Goto, Return, setting, jvmVars, files, hotspot, openj9, ClientInv,
     HoldsLock, InLock, Polled, Spoken, Answered
<1>3. SharedInv'
  BY <1>0, ReplyKey DEF OpenLock, Goto, Return, setting, jvmVars, files, hotspot, openj9, SharedInv,
     ReplyInv, PostsInv, SyncInv, TriggersInv, SocketInv, WaitsInv, Patient, ClientInv, HoldsLock,
     InLock, Polled
<1>q. QED BY <1>1, <1>2, <1>3 DEF IInv

\* When nobody holds the lock nobody is where it is held.
LEMMA AcquireLockInv == ASSUME IInv, NEW c \in Clients, AcquireLock(c) PROVE IInv'
<1>0. TypeOK /\ (\A d \in Clients : ClientInv(d)) /\ SharedInv BY DEF IInv
<1> USE AttachAssumption DEF TypeOK, Ended, Points
<1>1. TypeOK' BY <1>0 DEF AcquireLock, Goto, setting, jvmVars, hotspot, openj9
<1>2. ASSUME NEW d \in Clients PROVE ClientInv(d)'
  BY <1>0 DEF AcquireLock, Goto, setting, jvmVars, hotspot, openj9, ClientInv, HoldsLock, InLock,
     Polled, Spoken, Answered
<1>3. SharedInv'
  BY <1>0, ReplyKey DEF AcquireLock, Goto, setting, jvmVars, hotspot, openj9, SharedInv, ReplyInv,
     PostsInv, SyncInv, TriggersInv, SocketInv, WaitsInv, Patient, ClientInv, HoldsLock, InLock,
     Polled
<1>q. QED BY <1>1, <1>2, <1>3 DEF IInv

\* The port is one that the system gives out.
LEMMA ListenInv == ASSUME IInv, NEW c \in Clients, Listen(c) PROVE IInv'
<1>0. TypeOK /\ (\A d \in Clients : ClientInv(d)) /\ SharedInv BY DEF IInv
<1> USE AttachAssumption DEF TypeOK, Ended, Points
<1>1. TypeOK'
  <2>1. pc' \in [Clients -> Points] BY <1>0 DEF Listen, Fail, Goto
  <2>2. port' \in [Clients -> Ports \cup {0}] BY <1>0 DEF Listen, Fail, Goto
  <2>3. failed' \in [Clients -> BOOLEAN] BY <1>0 DEF Listen, Fail, Goto
  <2>q. QED BY <1>0, <2>1, <2>2, <2>3 DEF Listen, Fail, Goto, setting, jvmVars, files, hotspot
<1>2. ASSUME NEW d \in Clients PROVE ClientInv(d)'
  BY <1>0 DEF Listen, Fail, Goto, setting, jvmVars, files, hotspot, ClientInv, HoldsLock, InLock,
     Polled, Spoken, Answered
<1>3. SharedInv'
  BY <1>0, ReplyKey DEF Listen, Fail, Goto, setting, jvmVars, files, hotspot, SharedInv, ReplyInv,
     PostsInv, SyncInv, TriggersInv, SocketInv, WaitsInv, Patient, ClientInv, HoldsLock, InLock,
     Polled
<1>q. QED BY <1>1, <1>2, <1>3 DEF IInv

\* The replyInfo is of the client that holds the lock.
LEMMA WriteReplyInv == ASSUME IInv, NEW c \in Clients, WriteReply(c) PROVE IInv'
<1>0. TypeOK /\ (\A d \in Clients : ClientInv(d)) /\ SharedInv BY DEF IInv
<1> USE AttachAssumption DEF TypeOK, Ended, Points
<1>1. TypeOK'
  <2>1. pc' \in [Clients -> Points]
    BY <1>0 DEF WriteReply, Fail, Goto, Replies, NoReply, ClientInv, HoldsLock, InLock
  <2>2. reply' \in Replies \cup {NoReply}
    BY <1>0 DEF WriteReply, Fail, Goto, Replies, NoReply, ClientInv, HoldsLock, InLock
  <2>3. failed' \in [Clients -> BOOLEAN]
    BY <1>0 DEF WriteReply, Fail, Goto, Replies, NoReply, ClientInv, HoldsLock, InLock
  <2>q. QED
    BY <1>0, <2>1, <2>2, <2>3 DEF WriteReply, Fail, Goto, setting, jvmVars, hotspot, Replies, NoReply
<1>2. ASSUME NEW d \in Clients PROVE ClientInv(d)'
  BY <1>0 DEF WriteReply, Fail, Goto, setting, jvmVars, hotspot, Replies, NoReply, ClientInv,
     HoldsLock, InLock, Polled, Spoken, Answered
<1>3. SharedInv'
  BY <1>0, ReplyKey DEF WriteReply, Fail, Goto, setting, jvmVars, hotspot, Replies, NoReply,
     SharedInv, ReplyInv, PostsInv, SyncInv, TriggersInv, SocketInv, WaitsInv, Patient, ClientInv,
     HoldsLock, InLock, Polled
<1>q. QED BY <1>1, <1>2, <1>3 DEF IInv

\* At least one JVM is notified, the target among them or not.
LEMMA LockNotificationsInv == ASSUME IInv, NEW c \in Clients, LockNotifications(c) PROVE IInv'
<1>0. TypeOK /\ (\A d \in Clients : ClientInv(d)) /\ SharedInv BY DEF IInv
<1> USE AttachAssumption DEF TypeOK, Ended, Points
<1>n. Cardinality(Jvms) \in Nat \ {0}
  BY AttachAssumption, FS_CardinalityType, FS_EmptySet
<1>m. count'[c] \in 1..Cardinality(Jvms) /\ count' = [count EXCEPT ![c] = count'[c]]
  BY <1>0, <1>n DEF LockNotifications
<1>1. TypeOK'
  <2>1. pc' \in [Clients -> Points] BY <1>0, <1>n, <1>m DEF LockNotifications, Goto
  <2>2. sync' \in [Jvms -> Clients \cup {NoOne}] BY <1>0, <1>n, <1>m DEF LockNotifications, Goto
  <2>3. count' \in [Clients -> 0..Cardinality(Jvms)] BY <1>0, <1>n, <1>m DEF LockNotifications, Goto
  <2>q. QED BY <1>0, <2>1, <2>2, <2>3 DEF LockNotifications, Goto, setting, jvmVars, hotspot
<1>2. ASSUME NEW d \in Clients PROVE ClientInv(d)'
  BY <1>0, <1>n, <1>m DEF LockNotifications, Goto, setting, jvmVars, hotspot, ClientInv, HoldsLock,
     InLock, Polled, Spoken, Answered
<1>3. SharedInv'
  BY <1>0, ReplyKey DEF LockNotifications, Goto, setting, jvmVars, hotspot, SharedInv, ReplyInv,
     PostsInv, SyncInv, TriggersInv, SocketInv, WaitsInv, Patient, ClientInv, HoldsLock, InLock,
     Polled
<1>q. QED BY <1>1, <1>2, <1>3 DEF IInv

\* Nobody else has posted, unless a client was killed.
LEMMA PostInv == ASSUME IInv, NEW c \in Clients, Post(c) PROVE IInv'
<1>0. TypeOK /\ (\A d \in Clients : ClientInv(d)) /\ SharedInv BY DEF IInv
<1> USE AttachAssumption DEF TypeOK, Ended, Points
<1>1. TypeOK'
  <2>1. pc' \in [Clients -> Points] BY <1>0 DEF Post, Fail, Goto
  <2>2. sem' \in Nat BY <1>0 DEF Post, Fail, Goto
  <2>3. failed' \in [Clients -> BOOLEAN] BY <1>0 DEF Post, Fail, Goto
  <2>q. QED BY <1>0, <2>1, <2>2, <2>3 DEF Post, Fail, Goto, setting, jvmVars, hotspot
<1>2. ASSUME NEW d \in Clients PROVE ClientInv(d)'
  BY <1>0 DEF Post, Fail, Goto, setting, jvmVars, hotspot, ClientInv, HoldsLock, InLock, Polled,
     Spoken, Answered
<1>3. SharedInv'
  BY <1>0, ReplyKey DEF Post, Fail, Goto, setting, jvmVars, hotspot, SharedInv, ReplyInv, PostsInv,
     SyncInv, TriggersInv, SocketInv, WaitsInv, Patient, ClientInv, HoldsLock, InLock, Polled
<1>q. QED BY <1>1, <1>2, <1>3 DEF IInv

\* Only the connection that presents this client's key is taken.
LEMMA AcceptInv == ASSUME IInv, NEW c \in Clients, Accept(c) PROVE IInv'
<1>0. TypeOK /\ (\A d \in Clients : ClientInv(d)) /\ SharedInv BY DEF IInv
<1> USE AttachAssumption DEF TypeOK, Ended, Points
<1>1. TypeOK'
  <2>1. pc' \in [Clients -> Points] BY <1>0 DEF Accept, Fail, Goto, Connected
  <2>2. failed' \in [Clients -> BOOLEAN] BY <1>0 DEF Accept, Fail, Goto, Connected
  <2>q. QED BY <1>0, <2>1, <2>2 DEF Accept, Fail, Goto, Connected, setting, jvmVars, files, hotspot
<1>2. ASSUME NEW d \in Clients PROVE ClientInv(d)'
  BY <1>0 DEF Accept, Fail, Goto, Connected, setting, jvmVars, files, hotspot, ClientInv, HoldsLock,
     InLock, Polled, Spoken, Answered
<1>3. SharedInv'
  BY <1>0, ReplyKey DEF Accept, Fail, Goto, Connected, setting, jvmVars, files, hotspot, SharedInv,
     ReplyInv, PostsInv, SyncInv, TriggersInv, SocketInv, WaitsInv, Patient, ClientInv, HoldsLock,
     InLock, Polled
<1>q. QED BY <1>1, <1>2, <1>3 DEF IInv

\* The replyInfo is removed before the lock is given back.
LEMMA CloseSocketInv == ASSUME IInv, NEW c \in Clients, CloseSocket(c) PROVE IInv'
<1>0. TypeOK /\ (\A d \in Clients : ClientInv(d)) /\ SharedInv BY DEF IInv
<1> USE AttachAssumption DEF TypeOK, Ended, Points
<1>1. TypeOK' BY <1>0 DEF CloseSocket, Goto, setting, jvmVars, hotspot
<1>2. ASSUME NEW d \in Clients PROVE ClientInv(d)'
  BY <1>0 DEF CloseSocket, Goto, setting, jvmVars, hotspot, ClientInv, HoldsLock, InLock, Polled,
     Spoken, Answered
<1>3. SharedInv'
  BY <1>0, ReplyKey DEF CloseSocket, Goto, setting, jvmVars, hotspot, SharedInv, ReplyInv, PostsInv,
     SyncInv, TriggersInv, SocketInv, WaitsInv, Patient, ClientInv, HoldsLock, InLock, Polled
<1>q. QED BY <1>1, <1>2, <1>3 DEF IInv

\* The JVMs may wait for the next attach.
LEMMA UnlockNotificationsInv == ASSUME IInv, NEW c \in Clients, UnlockNotifications(c) PROVE IInv'
<1>0. TypeOK /\ (\A d \in Clients : ClientInv(d)) /\ SharedInv BY DEF IInv
<1> USE AttachAssumption DEF TypeOK, Ended, Points
<1>1. TypeOK' BY <1>0 DEF UnlockNotifications, Goto, setting, jvmVars, hotspot, openj9
<1>2. ASSUME NEW d \in Clients PROVE ClientInv(d)'
  BY <1>0 DEF UnlockNotifications, Goto, setting, jvmVars, hotspot, openj9, ClientInv, HoldsLock,
     InLock, Polled, Spoken, Answered
<1>3. SharedInv'
  BY <1>0, ReplyKey DEF UnlockNotifications, Goto, setting, jvmVars, hotspot, openj9, SharedInv,
     ReplyInv, PostsInv, SyncInv, TriggersInv, SocketInv, WaitsInv, Patient, ClientInv, HoldsLock,
     InLock, Polled
<1>q. QED BY <1>1, <1>2, <1>3 DEF IInv

\* What is left of the posts is taken back.
LEMMA DrainInv == ASSUME IInv, NEW c \in Clients, Drain(c) PROVE IInv'
<1>0. TypeOK /\ (\A d \in Clients : ClientInv(d)) /\ SharedInv BY DEF IInv
<1> USE AttachAssumption DEF TypeOK, Ended, Points
<1>1. TypeOK' BY <1>0 DEF Drain, Goto, setting, jvmVars, hotspot, openj9
<1>2. ASSUME NEW d \in Clients PROVE ClientInv(d)'
  BY <1>0 DEF Drain, Goto, setting, jvmVars, hotspot, openj9, ClientInv, HoldsLock, InLock, Polled,
     Spoken, Answered
<1>3. SharedInv'
  BY <1>0, ReplyKey DEF Drain, Goto, setting, jvmVars, hotspot, openj9, SharedInv, ReplyInv,
     PostsInv, SyncInv, TriggersInv, SocketInv, WaitsInv, Patient, ClientInv, HoldsLock, InLock,
     Polled
<1>q. QED BY <1>1, <1>2, <1>3 DEF IInv

\* The lock is given back on both paths.
LEMMA UnlockInv == ASSUME IInv, NEW c \in Clients, Unlock(c) PROVE IInv'
<1>0. TypeOK /\ (\A d \in Clients : ClientInv(d)) /\ SharedInv BY DEF IInv
<1> USE AttachAssumption DEF TypeOK, Ended, Points
<1>1. TypeOK' BY <1>0 DEF Unlock, Goto, Return, setting, jvmVars, hotspot, openj9
<1>2. ASSUME NEW d \in Clients PROVE ClientInv(d)'
  BY <1>0 DEF Unlock, Goto, Return, setting, jvmVars, hotspot, openj9, ClientInv, HoldsLock, InLock,
     Polled, Spoken, Answered
<1>3. SharedInv'
  BY <1>0, ReplyKey DEF Unlock, Goto, Return, setting, jvmVars, hotspot, openj9, SharedInv,
     ReplyInv, PostsInv, SyncInv, TriggersInv, SocketInv, WaitsInv, Patient, ClientInv, HoldsLock,
     InLock, Polled
<1>q. QED BY <1>1, <1>2, <1>3 DEF IInv

\* The answer is whole only with its NUL.
LEMMA ReadResponseInv == ASSUME IInv, NEW c \in Clients, ReadResponse(c) PROVE IInv'
<1>0. TypeOK /\ (\A d \in Clients : ClientInv(d)) /\ SharedInv BY DEF IInv
<1> USE AttachAssumption DEF TypeOK, Ended, Points
<1>1. TypeOK' BY <1>0 DEF ReadResponse, Goto, Return, setting, jvmVars, files, hotspot, openj9
<1>2. ASSUME NEW d \in Clients PROVE ClientInv(d)'
  BY <1>0 DEF ReadResponse, Goto, Return, setting, jvmVars, files, hotspot, openj9, ClientInv,
     HoldsLock, InLock, Polled, Spoken, Answered
<1>3. SharedInv'
  BY <1>0, ReplyKey DEF ReadResponse, Goto, Return, setting, jvmVars, files, hotspot, openj9,
     SharedInv, ReplyInv, PostsInv, SyncInv, TriggersInv, SocketInv, WaitsInv, Patient, ClientInv,
     HoldsLock, InLock, Polled
<1>q. QED BY <1>1, <1>2, <1>3 DEF IInv

\* Detaching keeps what was answered.
LEMMA DetachInv == ASSUME IInv, NEW c \in Clients, Detach(c) PROVE IInv'
<1>0. TypeOK /\ (\A d \in Clients : ClientInv(d)) /\ SharedInv BY DEF IInv
<1> USE AttachAssumption DEF TypeOK, Ended, Points
<1>1. TypeOK' BY <1>0 DEF Detach, Goto, setting, jvmVars, files, hotspot, openj9
<1>2. ASSUME NEW d \in Clients PROVE ClientInv(d)'
  BY <1>0 DEF Detach, Goto, setting, jvmVars, files, hotspot, openj9, ClientInv, HoldsLock, InLock,
     Polled, Spoken, Answered
<1>3. SharedInv'
  BY <1>0, ReplyKey DEF Detach, Goto, setting, jvmVars, files, hotspot, openj9, SharedInv, ReplyInv,
     PostsInv, SyncInv, TriggersInv, SocketInv, WaitsInv, Patient, ClientInv, HoldsLock, InLock,
     Polled
<1>q. QED BY <1>1, <1>2, <1>3 DEF IInv

\* The command goes to the connection that was accepted, or to the socket.
LEMMA WriteCommandInv == ASSUME IInv, NEW c \in Clients, WriteCommand(c) PROVE IInv'
<1>0. TypeOK /\ (\A d \in Clients : ClientInv(d)) /\ SharedInv BY DEF IInv
<1> USE AttachAssumption DEF TypeOK, Ended, Points
<1>1. TypeOK'
  BY <1>0 DEF WriteCommand, Goto, Return, Connected, SpeaksOpenJ9, setting, jvmVars, files, hotspot,
     openj9
<1>2. ASSUME NEW d \in Clients PROVE ClientInv(d)'
  BY <1>0 DEF WriteCommand, Goto, Return, Connected, SpeaksOpenJ9, setting, jvmVars, files, hotspot,
     openj9, ClientInv, HoldsLock, InLock, Polled, Spoken, Answered
<1>3. SharedInv'
  BY <1>0, ReplyKey DEF WriteCommand, Goto, Return, Connected, SpeaksOpenJ9, setting, jvmVars,
     files, hotspot, openj9, SharedInv, ReplyInv, PostsInv, SyncInv, TriggersInv, SocketInv,
     WaitsInv, Patient, ClientInv, HoldsLock, InLock, Polled
<1>q. QED BY <1>1, <1>2, <1>3 DEF IInv

\* The kernel drops a killed client's locks and sockets, not its files.
LEMMA KillInv == ASSUME IInv, NEW c \in Clients, Kill(c) PROVE IInv'
<1>0. TypeOK /\ (\A d \in Clients : ClientInv(d)) /\ SharedInv BY DEF IInv
<1> USE AttachAssumption DEF TypeOK, Ended, Points
<1>1. TypeOK' BY <1>0 DEF Kill, setting, jvmVars, hotspot
<1>2. ASSUME NEW d \in Clients PROVE ClientInv(d)'
  BY <1>0 DEF Kill, setting, jvmVars, hotspot, ClientInv, HoldsLock, InLock, Polled, Spoken, Answered
<1>3. SharedInv'
  BY <1>0, ReplyKey DEF Kill, setting, jvmVars, hotspot, SharedInv, ReplyInv, PostsInv, SyncInv,
     TriggersInv, SocketInv, WaitsInv, Patient, ClientInv, HoldsLock, InLock, Polled
<1>q. QED BY <1>1, <1>2, <1>3 DEF IInv

\* The JVM answers.
LEMMA AnswerInv == ASSUME IInv, NEW c \in Clients, Answer(c) PROVE IInv'
<1>0. TypeOK /\ (\A d \in Clients : ClientInv(d)) /\ SharedInv BY DEF IInv
<1> USE AttachAssumption DEF TypeOK, Ended, Points
<1>1. TypeOK' BY <1>0 DEF Answer, setting, jvmVars, files, clientVars, hotspot
<1>2. ASSUME NEW d \in Clients PROVE ClientInv(d)'
  BY <1>0 DEF Answer, setting, jvmVars, files, clientVars, hotspot, ClientInv, HoldsLock, InLock,
     Polled, Spoken, Answered
<1>3. SharedInv'
  BY <1>0, ReplyKey DEF Answer, setting, jvmVars, files, clientVars, hotspot, SharedInv, ReplyInv,
     PostsInv, SyncInv, TriggersInv, SocketInv, WaitsInv, Patient, ClientInv, HoldsLock, InLock,
     Polled
<1>q. QED BY <1>1, <1>2, <1>3 DEF IInv

\* The JVM stops or dies.
LEMMA WitherInv == ASSUME IInv, Wither PROVE IInv'
<1>0. TypeOK /\ (\A d \in Clients : ClientInv(d)) /\ SharedInv BY DEF IInv
<1> USE AttachAssumption DEF TypeOK
<1>1. TypeOK' BY <1>0 DEF Wither, setting, files, clientVars, hotspot
<1>2. ASSUME NEW d \in Clients PROVE ClientInv(d)'
  BY <1>0 DEF Wither, setting, files, clientVars, hotspot, ClientInv, HoldsLock, Polled, Spoken,
     Answered
<1>3. SharedInv'
  BY <1>0 DEF Wither, setting, files, clientVars, hotspot, SharedInv, ReplyInv, PostsInv, SyncInv,
     TriggersInv, SocketInv, WaitsInv, Patient
<1>q. QED BY <1>1, <1>2, <1>3 DEF IInv

\* The JVM opens its socket when it finds a trigger.
LEMMA HandleQuitInv == ASSUME IInv, HandleQuit PROVE IInv'
<1>0. TypeOK /\ (\A d \in Clients : ClientInv(d)) /\ SharedInv BY DEF IInv
<1> USE AttachAssumption DEF TypeOK
<1>1. TypeOK' BY <1>0 DEF HandleQuit, setting, files, clientVars, hotspot
<1>2. ASSUME NEW d \in Clients PROVE ClientInv(d)'
  BY <1>0 DEF HandleQuit, setting, files, clientVars, hotspot, ClientInv, HoldsLock, Polled, Spoken,
     Answered
<1>3. SharedInv'
  BY <1>0 DEF HandleQuit, setting, files, clientVars, hotspot, SharedInv, ReplyInv, PostsInv,
     SyncInv, TriggersInv, SocketInv, WaitsInv, Patient
<1>q. QED BY <1>1, <1>2, <1>3 DEF IInv

\* A JVM takes a post.
LEMMA WakeInv == ASSUME IInv, NEW j \in Jvms, Wake(j) PROVE IInv'
<1>0. TypeOK /\ (\A d \in Clients : ClientInv(d)) /\ SharedInv BY DEF IInv
<1> USE AttachAssumption DEF TypeOK
<1>1. TypeOK' BY <1>0 DEF Wake, Runs, setting, clientVars, hotspot, openj9
<1>2. ASSUME NEW d \in Clients PROVE ClientInv(d)'
  BY <1>0 DEF Wake, Runs, setting, clientVars, hotspot, openj9, ClientInv, HoldsLock, Polled,
     Spoken, Answered
<1>3. SharedInv'
  BY <1>0 DEF Wake, Runs, setting, clientVars, hotspot, openj9, SharedInv, ReplyInv, PostsInv,
     SyncInv, TriggersInv, SocketInv, WaitsInv, Patient
<1>q. QED BY <1>1, <1>2, <1>3 DEF IInv

\* A JVM finds the replyInfo or nothing.
LEMMA ReadReplyInv == ASSUME IInv, NEW j \in Jvms, ReadReply(j) PROVE IInv'
<1>0. TypeOK /\ (\A d \in Clients : ClientInv(d)) /\ SharedInv BY DEF IInv
<1> USE AttachAssumption DEF TypeOK
<1>1. TypeOK' BY <1>0 DEF ReadReply, Runs, setting, files, clientVars, hotspot, openj9, Replies, NoReply
<1>2. ASSUME NEW d \in Clients PROVE ClientInv(d)'
  BY <1>0 DEF ReadReply, Runs, setting, files, clientVars, hotspot, openj9, Replies, NoReply,
     ClientInv, HoldsLock, Polled, Spoken, Answered
<1>3. SharedInv'
  BY <1>0 DEF ReadReply, Runs, setting, files, clientVars, hotspot, openj9, Replies, NoReply,
     SharedInv, ReplyInv, PostsInv, SyncInv, TriggersInv, SocketInv, WaitsInv, Patient
<1>q. QED BY <1>1, <1>2, <1>3 DEF IInv

\* A connection keeps the key it presented.
LEMMA ConnectBackInv == ASSUME IInv, ConnectBack PROVE IInv'
<1>0. TypeOK /\ (\A d \in Clients : ClientInv(d)) /\ SharedInv BY DEF IInv
<1> USE AttachAssumption DEF TypeOK
<1>1. TypeOK'
  BY <1>0 DEF ConnectBack, Runs, setting, files, clientVars, hotspot, openj9, Replies, NoReply
<1>2. ASSUME NEW d \in Clients PROVE ClientInv(d)'
  BY <1>0 DEF ConnectBack, Runs, setting, files, clientVars, hotspot, openj9, Replies, NoReply,
     ClientInv, HoldsLock, Polled, Spoken, Answered
<1>3. SharedInv'
  BY <1>0 DEF ConnectBack, Runs, setting, files, clientVars, hotspot, openj9, Replies, NoReply,
     SharedInv, ReplyInv, PostsInv, SyncInv, TriggersInv, SocketInv, WaitsInv, Patient
<1>q. QED BY <1>1, <1>2, <1>3 DEF IInv

\* A JVM waits until its attachNotificationSync is free.
LEMMA WaitAgainInv == ASSUME IInv, NEW j \in Jvms, WaitAgain(j) PROVE IInv'
<1>0. TypeOK /\ (\A d \in Clients : ClientInv(d)) /\ SharedInv BY DEF IInv
<1> USE AttachAssumption DEF TypeOK
<1>1. TypeOK' BY <1>0 DEF WaitAgain, Runs, setting, files, clientVars, hotspot, openj9
<1>2. ASSUME NEW d \in Clients PROVE ClientInv(d)'
  BY <1>0 DEF WaitAgain, Runs, setting, files, clientVars, hotspot, openj9, ClientInv, HoldsLock,
     Polled, Spoken, Answered
<1>3. SharedInv'
  BY <1>0 DEF WaitAgain, Runs, setting, files, clientVars, hotspot, openj9, SharedInv, ReplyInv,
     PostsInv, SyncInv, TriggersInv, SocketInv, WaitsInv, Patient
<1>q. QED BY <1>1, <1>2, <1>3 DEF IInv

\* Every step keeps the invariant.
LEMMA StepInv == IInv /\ [Next]_vars => IInv'
<1> SUFFICES ASSUME IInv, [Next]_vars PROVE IInv' OBVIOUS
<1>1. ASSUME NEW c \in Clients, Client(c) PROVE IInv'
  BY <1>1, EnterStepInv, DispatchInv, CheckSocketInv, CreateTriggerInv, SendQuitInv, PollInv,
     RemoveTriggerInv, ConnectInv, ReadFirstInv, ReadRestInv, OpenLockInv, AcquireLockInv, ListenInv,
     WriteReplyInv, LockNotificationsInv, PostInv, AcceptInv, CloseSocketInv, UnlockNotificationsInv,
     DrainInv, UnlockInv, ReadResponseInv, DetachInv, WriteCommandInv
  DEF Client
<1>2. ASSUME NEW c \in Clients, Kill(c) \/ Answer(c) PROVE IInv' BY <1>2, KillInv, AnswerInv
<1>3. ASSUME NEW j \in Jvms, Wake(j) \/ ReadReply(j) \/ WaitAgain(j) PROVE IInv'
  BY <1>3, WakeInv, ReadReplyInv, WaitAgainInv
<1>4. CASE ConnectBack \/ HandleQuit \/ Wither BY <1>4, ConnectBackInv, HandleQuitInv, WitherInv
<1>5. CASE UNCHANGED vars
  <2>1. TypeOK'
    BY <1>5 DEF IInv, TypeOK, vars, setting, jvmVars, files, hotspot, openj9
  <2>2. ASSUME NEW c \in Clients PROVE ClientInv(c)'
    BY <1>5 DEF IInv, ClientInv, HoldsLock, Polled, Spoken, Answered, vars, setting, jvmVars, files,
                hotspot, openj9
  <2>3. SharedInv'
    BY <1>5 DEF IInv, SharedInv, ReplyInv, PostsInv, SyncInv, TriggersInv, SocketInv, WaitsInv, Patient,
                vars, setting, jvmVars, files, hotspot, openj9
  <2>q. QED BY <2>1, <2>2, <2>3 DEF IInv
<1>q. QED BY <1>1, <1>2, <1>3, <1>4, <1>5 DEF Next

-----------------------------------------------------------------------------
\* What the run checks follows from the invariant.
LEMMA InvShared == IInv => SharedWithTheJvm
<1> SUFFICES ASSUME IInv PROVE SharedWithTheJvm OBVIOUS
<1>0. TypeOK /\ (\A c \in Clients : ClientInv(c)) /\ SharedInv BY DEF IInv
<1>1. \A c \in Clients : pc[c] \in InLock => attachLock = c BY <1>0 DEF ClientInv, HoldsLock
<1>2. reply # NoReply => attachLock = reply.key \/ pc[reply.key] = "killed"
  BY <1>0, <1>1, ReplyKey DEF SharedInv, ReplyInv, InLock
<1>3. sem > 0 => \/ \E c \in Clients : pc[c] = "killed"
                 \/ \E c \in Clients : attachLock = c /\ pc[c] \in {"accept",
                    "close", "unsync", "drain"}
  BY <1>0, <1>1 DEF SharedInv, PostsInv, InLock
<1>4. \A j \in Jvms : sync[j] # NoOne => attachLock = sync[j]
  BY <1>0, <1>1 DEF TypeOK, SharedInv, SyncInv, InLock
<1>5. NothingLeftBehind BY <1>0, <1>2, <1>3, <1>4 DEF NothingLeftBehind, SharedInv, TriggersInv
<1>6. WaitsForATrigger BY <1>0 DEF WaitsForATrigger, SharedInv, WaitsInv, Patient
<1>q. QED BY <1>5, <1>6 DEF SharedWithTheJvm

LEMMA InvReader == IInv => CommandToItsReader
BY DEF IInv, ClientInv, Spoken, CommandToItsReader, SpeaksOpenJ9

LEMMA InvAnswered == IInv => SuccessIsAnswered
BY DEF IInv, ClientInv, Answered, SuccessIsAnswered

\* The invariant holds of every behaviour; fairness is not needed.
LEMMA Always == Spec => []IInv
BY InitInv, StepInv, PTL DEF Spec

\* Types; in particular no poll beyond Polls, and a semaphore that is never below zero.
THEOREM TypeCorrect == Spec => []TypeOK
<1>1. IInv => TypeOK BY DEF IInv
<1>q. QED BY <1>1, Always, PTL

\* What clients and JVMs share, the replyInfo, the posts on the semaphore, the
\* attachNotificationSync files and the trigger files, is that of an attach in
\* progress, unless a client was killed, and a trigger is there while it is needed.
THEOREM FilesShared == Spec => []SharedWithTheJvm
BY Always, InvShared, PTL

\* A command goes only to the JVM that has read the replyInfo of this very client,
\* whatever ports the system gives out again.
THEOREM ReaderCommanded == Spec => []CommandToItsReader
BY Always, InvReader, PTL

\* jattach2 returns 0 only when the JVM has answered.
THEOREM SuccessAnswered == Spec => []SuccessIsAnswered
BY Always, InvAnswered, PTL

-------------------------------------------------------------------------------
\* A set of numbers has a least.
LEMMA LeastNat ==
  ASSUME NEW P \in SUBSET Nat, P # {}
  PROVE  \E x \in P : \A y \in P : x <= y
<1>1. PICK top \in P : TRUE OBVIOUS
<1> DEFINE Low == {y \in P : y <= top}
           Below(x) == {y \in Low : y < x}
           T == {Below(x) : x \in Low}
<1>2. IsFiniteSet(Low)
  <2>0. P \subseteq Nat /\ top \in Nat OBVIOUS
  <2>1. 0 \in Int /\ top \in Int BY <2>0
  <2>2. Low \subseteq 0 .. top
    <3> SUFFICES ASSUME NEW y \in Low PROVE y \in 0 .. top OBVIOUS
    <3>1. y \in Nat /\ y <= top BY <2>0
    <3>q. QED BY <2>0, <3>1
  <2>3. IsFiniteSet(0 .. top) BY <2>1, FS_Interval
  <2> HIDE DEF Low
  <2>q. QED BY <2>2, <2>3, FS_Subset
<1>3. T \subseteq FiniteSubsetsOf(Low) /\ T # {}
  <2>1. \A x \in Low : Below(x) \subseteq Low /\ IsFiniteSet(Below(x))
    <3> HIDE DEF Low
    <3>q. QED BY <1>2, FS_Subset
  <2>2. top \in Low OBVIOUS
  <2> HIDE DEF Low, Below
  <2>q. QED BY <2>1, <2>2 DEF FiniteSubsetsOf
<1>4. PICK A \in T : \A B \in T : ~(<<B, A>> \in StrictSubsetOrdering(Low))
  <2> HIDE DEF T
  <2>q. QED BY <1>2, <1>3, FS_StrictSubsetOrderingWellFounded, WFMin
<1>5. PICK x \in Low : A = Below(x) BY <1>4
<1>6. ASSUME NEW y \in Low, y < x PROVE FALSE
  <2>1. Below(y) \in T OBVIOUS
  <2>2. Below(y) \subseteq Below(x)
    <3>1. \A z \in Low : z < y => z < x BY <1>6
    <3>q. QED BY <3>1
  <2>3. y \in Below(x) /\ y \notin Below(y) BY <1>6
  <2>4. Below(y) \subseteq Low /\ Below(x) \subseteq Low OBVIOUS
  <2>5. <<Below(y), A>> \in StrictSubsetOrdering(Low)
    <3> HIDE DEF Low, Below
    <3>q. QED BY <1>5, <2>2, <2>3, <2>4 DEF StrictSubsetOrdering
  <2>q. QED BY <1>4, <2>1, <2>5
<1>7. \A y \in P : x <= y
  <2> SUFFICES ASSUME NEW y \in P, ~(x <= y) PROVE FALSE OBVIOUS
  <2>1. y < x /\ x <= top BY <1>5
  <2>2. y \in Low BY <2>1, <1>1
  <2>q. QED BY <1>6, <2>1, <2>2
<1>q. QED BY <1>5, <1>7

-------------------------------------------------------------------------------
\* The stacks of a configuration: what its extents and its anchor may be.
Stacked(ext, fetch) ==
  /\ DOMAIN ext = {"items", "cap"} /\ DOMAIN fetch = {"anchor", "saved", "total"}
  /\ ext.cap \in Nat /\ fetch.anchor \in Nat /\ fetch.saved \in Nat /\ fetch.total \in Nat
  /\ ext.cap \in {0, fetch.anchor}
  /\ FetchFits(ext, fetch)

\* The steps of Fetch are a function.
Rooms(ext, fetch, n, room) ==
  room = [i \in 0 .. n |-> IF i = 0 THEN FetchStart(ext, fetch) ELSE GrowFor(i - 1, room[i - 1])]

\* The steps of Fetch exist as a function of how many there are.
LEMMA RoomsExist ==
  ASSUME NEW ext, NEW fetch, NEW n \in Nat
  PROVE  \E room : Rooms(ext, fetch, n, room)
<1> DEFINE Bad == {m \in Nat : ~ \E room : Rooms(ext, fetch, m, room)}
<1> SUFFICES ASSUME Bad # {} PROVE FALSE OBVIOUS
<1>1. PICK m \in Bad : \A k \in Bad : m <= k
  <2>1. Bad \in SUBSET Nat OBVIOUS
  <2> HIDE DEF Bad
  <2>q. QED BY <2>1, LeastNat
<1>2. CASE m = 0
  <2> DEFINE room == [i \in 0 .. 0 |-> FetchStart(ext, fetch)]
  <2>1. Rooms(ext, fetch, 0, room) BY DEF Rooms
  <2>q. QED BY <1>1, <1>2, <2>1
<1>3. CASE m # 0
  <2>1. m - 1 \in Nat /\ m - 1 \notin Bad BY <1>1, <1>3
  <2>2. PICK part : Rooms(ext, fetch, m - 1, part) BY <2>1
  <2> DEFINE room == [i \in 0 .. m |-> IF i = m THEN GrowFor(m - 1, part[m - 1]) ELSE part[i]]
  <2>3. \A i \in 0 .. m :
          room[i] = IF i = 0 THEN FetchStart(ext, fetch) ELSE GrowFor(i - 1, room[i - 1])
    <3> SUFFICES ASSUME NEW i \in 0 .. m
                 PROVE  room[i] = IF i = 0 THEN FetchStart(ext, fetch)
                                  ELSE GrowFor(i - 1, room[i - 1])
      OBVIOUS
    <3>1. CASE i = m
      <4>1. i - 1 \in 0 .. m /\ i - 1 # m BY <1>1, <1>3, <3>1
      <4>2. room[i - 1] = part[i - 1] BY <4>1
      <4>q. QED BY <1>3, <3>1, <4>2
    <3>2. CASE i # m
      <4>1. i \in 0 .. m - 1 BY <1>1, <3>2
      <4>2. part[i] = IF i = 0 THEN FetchStart(ext, fetch) ELSE GrowFor(i - 1, part[i - 1])
        BY <2>2, <4>1 DEF Rooms
      <4>3. i # 0 => i - 1 \in 0 .. m /\ i - 1 # m BY <4>1
      <4>q. QED BY <3>2, <4>2, <4>3
    <3>q. QED BY <3>1, <3>2
  <2>4. Rooms(ext, fetch, m, room)
    BY <2>3 DEF Rooms
  <2>q. QED BY <1>1, <2>4
<1>q. QED BY <1>2, <1>3

\* At each of its steps the anchor and the extents have room for one stack more than
\* there are already, and nothing else has changed.
Roomy(ext, fetch, i, r) ==
  /\ DOMAIN r = {"ext", "fetch"}
  /\ DOMAIN r.ext = {"items", "cap"} /\ DOMAIN r.fetch = {"anchor", "saved", "total"}
  /\ r.ext.items = ext.items /\ r.fetch.saved = fetch.saved
  /\ r.fetch.anchor \in Nat \ {0} /\ i <= r.fetch.anchor /\ r.ext.cap = r.fetch.anchor

\* Before its first step Fetch has the stacks that it has.
LEMMA StartRoomy ==
  ASSUME NEW ext, NEW fetch, Stacked(ext, fetch)
  PROVE  Roomy(ext, fetch, 0, FetchStart(ext, fetch))
BY StacksAssumption DEF Stacked, Roomy, FetchStart

\* A step of Fetch keeps a stack for every result it has handed out.
LEMMA GrowRoomy ==
  ASSUME NEW ext, NEW fetch, NEW i \in Nat, NEW r, Roomy(ext, fetch, i, r)
  PROVE  Roomy(ext, fetch, i + 1, GrowFor(i, r))
BY StacksAssumption DEF Roomy, GrowFor

\* So do all its steps.
LEMMA RoomsRoomy ==
  ASSUME NEW ext, NEW fetch, NEW n \in Nat, NEW room, Rooms(ext, fetch, n, room),
         Stacked(ext, fetch)
  PROVE  \A i \in 0 .. n : Roomy(ext, fetch, i, room[i])
<1> DEFINE Bad == {i \in 0 .. n : ~ Roomy(ext, fetch, i, room[i])}
<1> SUFFICES ASSUME Bad # {} PROVE FALSE OBVIOUS
<1>1. PICK m \in Bad : \A k \in Bad : m <= k
  <2>1. Bad \in SUBSET Nat OBVIOUS
  <2> HIDE DEF Bad
  <2>q. QED BY <2>1, LeastNat
<1>2. CASE m = 0
  <2>1. room[0] = FetchStart(ext, fetch) BY DEF Rooms
  <2>q. QED BY <1>1, <1>2, <2>1, StartRoomy
<1>3. CASE m # 0
  <2>1. m - 1 \in 0 .. n /\ m - 1 \notin Bad BY <1>1, <1>3
  <2>2. Roomy(ext, fetch, m - 1, room[m - 1]) BY <2>1
  <2>3. room[m] = GrowFor(m - 1, room[m - 1]) BY <1>1, <1>3 DEF Rooms
  <2>4. m - 1 \in Nat /\ (m - 1) + 1 = m BY <2>1
  <2>5. Roomy(ext, fetch, (m - 1) + 1, GrowFor(m - 1, room[m - 1])) BY <2>2, <2>4, GrowRoomy
  <2>q. QED BY <1>1, <2>3, <2>4, <2>5
<1>q. QED BY <1>2, <1>3

\* What Fetch leaves fits, and is still itemized for the same.
LEMMA FetchStacked ==
  ASSUME NEW ext, NEW fetch, NEW n \in Nat, Stacked(ext, fetch)
  PROVE  /\ Stacked(Fetch(ext, fetch, n).ext, Fetch(ext, fetch, n).fetch)
         /\ Fetch(ext, fetch, n).ext.items = ext.items
         /\ Fetch(ext, fetch, n).fetch.saved > 0
<1> DEFINE room == CHOOSE room : Rooms(ext, fetch, n, room)
           r == room[n]
<1>1. Rooms(ext, fetch, n, room) BY RoomsExist
<1>2. Fetch(ext, fetch, n) = [ext |-> r.ext, fetch |-> [r.fetch EXCEPT !.total = n,
                                !.saved = IF @ < n + 1 THEN n + 1 ELSE @]]
  BY Zenon DEF Fetch, Rooms
<1>3. Roomy(ext, fetch, n, r)
  <2> HIDE DEF room
  <2>1. n \in 0 .. n OBVIOUS
  <2>q. QED BY <1>1, <2>1, RoomsRoomy
<1> DEFINE f == [r.fetch EXCEPT !.total = n, !.saved = IF @ < n + 1 THEN n + 1 ELSE @]
<1>4. Stacked(r.ext, f) /\ r.ext.items = ext.items /\ f.saved > 0
  <2> HIDE DEF r
  <2>1. fetch.saved \in Nat BY DEF Stacked
  <2>2. /\ DOMAIN f = {"anchor", "saved", "total"} /\ f.anchor = r.fetch.anchor /\ f.total = n
        /\ f.saved = IF r.fetch.saved < n + 1 THEN n + 1 ELSE r.fetch.saved
    BY <1>3 DEF Roomy
  <2> HIDE DEF f
  <2>q. QED BY <1>3, <2>1, <2>2 DEF Roomy, Stacked, FetchFits
<1>q. QED
  <2> HIDE DEF f, r
  <2>1. Fetch(ext, fetch, n) = [ext |-> r.ext, fetch |-> f] BY <1>2 DEF f
  <2>q. QED BY <1>4, <2>1

\* Sequences, and functions on an initial segment.
LEMMA SeqFacts ==
  ASSUME NEW s, IsSeq(s)
  PROVE  Len(s) \in Nat /\ DOMAIN s = 1 .. Len(s)
BY LenProperties DEF IsSeq

\* A function on 1 .. n is a sequence of length n.
LEMMA SeqMade ==
  ASSUME NEW n \in Nat, NEW s, s = [k \in 1 .. n |-> s[k]]
  PROVE  IsSeq(s) /\ Len(s) = n /\ DOMAIN s = 1 .. n
<1> DEFINE S == {s[k] : k \in DOMAIN s}
<1>1. DOMAIN s = 1 .. n OBVIOUS
<1>2. s \in [1 .. n -> S] BY <1>1
<1>3. s \in Seq(S) BY <1>2, SeqDef
<1>4. Len(s) = n BY <1>1, <1>3, LenProperties
<1>q. QED BY <1>1, <1>3, <1>4 DEF IsSeq

\* The slots of stat are more than the lines of cpus.
LEMMA SlotsEnough ==
  ASSUME NEW alloc \in Nat, NEW n \in Nat
  PROVE  SlotsFor(alloc, n) \in Nat /\ n < SlotsFor(alloc, n)
<1> DEFINE start == IF alloc = 0 THEN NewOldIncr ELSE alloc
<1>1. NewOldIncr \in Nat \ {0} BY ProcStatAssumption
<1>2. start \in Nat BY <1>1
<1>3. \A a \in Nat, b \in Nat \ {0} : (a \div b) \in Nat /\ a < b * (a \div b + 1)  OBVIOUS
<1>4. CASE n < start BY <1>2, <1>4 DEF SlotsFor
<1>5. CASE ~(n < start)
  <2> DEFINE more == NewOldIncr * ((n - start) \div NewOldIncr + 1)
  <2>1. n - start \in Nat BY <1>2, <1>5
  <2>2. more \in Nat /\ n - start < more BY <1>1, <1>3, <2>1
  <2>3. SlotsFor(alloc, n) = start + more BY <1>5 DEF SlotsFor
  <2> HIDE DEF more, start
  <2>q. QED BY <1>2, <2>2, <2>3
<1>q. QED BY <1>4, <1>5

-------------------------------------------------------------------------------
\* What a handle of each library is, whatever has been called.
StatOk(g) ==
  /\ DOMAIN g = DOMAIN BlankStat /\ g.ref \in Nat \ {0} /\ g.secs \in Nat
  /\ IsSeq(g.cpus) /\ IsSeq(g.nodes) /\ g.inuse \in Nat
  /\ Stacked(g.cpuExt, g.cpuFetch) /\ Stacked(g.nodeExt, g.nodeFetch)
StatFull(g) == 
  /\ StatOk(g) /\ g.inuse < Len(g.cpus)
  /\ g.nodeFetch.saved > 0 \/ g.sumRow = <<>>

Same(g, f, fields) == \A x \in fields : g[x] = f[x]

\* What calloc leaves of a handle of the stat library is sound.
LEMMA BlankStatOk == StatOk(BlankStat) /\ BlankStat.sumRow = <<>>
<1>1. IsSeq(<<>>) BY DEF IsSeq
<1>q. QED BY <1>1 DEF StatOk, BlankStat, NoExt, NoFetch, Stacked, FetchFits

\* What a read leaves of a handle.
StatReadKeeps(r, g) ==
  /\ StatOk(r.h) /\ r.ok \in BOOLEAN
  /\ Same(r.h, g, DOMAIN g \ {"sum", "cpus", "inuse", "sys"})
  /\ r.ok => r.h.inuse < Len(r.h.cpus)
  /\ ~r.ok => r.h.inuse = g.inuse /\ r.h.cpus = g.cpus

\* A read of /proc/stat leaves a sound handle sound, short or not.
LEMMA StatReadOk ==
  ASSUME NEW g, StatOk(g), NEW f, FileOk("stat", f), NEW junk
  PROVE  StatReadKeeps(StatRead(g, f, junk), g)
<1> DEFINE r == StatRead(g, f, junk)
<1>0. f.status \in {"fine", "short", "unreadable"} BY DEF FileOk
<1>1. CASE f.status = "unreadable"
  <2>1. r = [ok |-> FALSE, h |-> g] BY <1>1 DEF StatRead
  <2> HIDE DEF r
  <2>q. QED BY <2>1 DEF Same, StatReadKeeps, r
<1>2. CASE f.status = "short"
  <2>1. PICK sum : r = [ok |-> FALSE, h |-> [g EXCEPT !.sum = sum]] BY <1>2 DEF StatRead
  <2> HIDE DEF r
  <2>2. DOMAIN r.h = DOMAIN g /\ r.ok = FALSE BY <2>1
  <2>3. Same(r.h, g, DOMAIN g \ {"sum"})
    <3> SUFFICES ASSUME NEW x \in DOMAIN g \ {"sum"} PROVE r.h[x] = g[x] BY DEF Same
    <3>q. QED BY <2>1
  <2>4. StatOk(r.h) BY <2>2, <2>3 DEF Same, StatOk, BlankStat
  <2>5. r.h.inuse = g.inuse /\ r.h.cpus = g.cpus BY <2>3 DEF Same, StatOk, BlankStat
  <2>q. QED BY <2>2, <2>3, <2>4, <2>5 DEF Same, StatReadKeeps, r
<1>3. CASE f.status = "fine"
  <2> DEFINE n == Len(f.cpus)
             slots == [k \in 1 .. SlotsFor(Len(g.cpus), n) |-> StatSlot(g, f, k, junk)]
  <2>1. PICK sum, sys :
          r = [ok |-> TRUE, h |-> [g EXCEPT !.sum = sum, !.cpus = slots, !.inuse = n, !.sys = sys]]
    BY <1>3 DEF StatRead
  <2>2. n \in Nat BY SeqFacts DEF FileOk
  <2>3. Len(g.cpus) \in Nat BY SeqFacts DEF StatOk
  <2>4. SlotsFor(Len(g.cpus), n) \in Nat /\ n < SlotsFor(Len(g.cpus), n) BY <2>2, <2>3, SlotsEnough
  <2>5. IsSeq(slots) /\ Len(slots) = SlotsFor(Len(g.cpus), n) BY <2>4, SeqMade
  <2> HIDE DEF slots, n, r
  <2>6. DOMAIN r.h = DOMAIN g /\ r.h.cpus = slots /\ r.h.inuse = n /\ r.ok = TRUE
    BY <2>1 DEF StatOk, BlankStat
  <2>7. Same(r.h, g, DOMAIN g \ {"sum", "cpus", "inuse", "sys"})
    <3> SUFFICES ASSUME NEW x \in DOMAIN g \ {"sum", "cpus", "inuse", "sys"} PROVE r.h[x] = g[x]
      BY DEF Same
    <3>q. QED BY <2>1
  <2>8. StatOk(r.h) BY <2>2, <2>4, <2>5, <2>6, <2>7 DEF StatOk, BlankStat, Same
  <2>q. QED BY <2>4, <2>5, <2>6, <2>7, <2>8 DEF StatReadKeeps, r
<1>q. QED BY <1>0, <1>1, <1>2, <1>3

\* A change of the items keeps or drops the stacks, never half of them.
LEMMA ReconfigStacked ==
  ASSUME NEW ext, NEW fetch, Stacked(ext, fetch), NEW items
  PROVE  Stacked(Reconfig(ext, items), fetch) /\ Reconfig(ext, items).items = items
BY DEF Stacked, Reconfig, FetchFits

\* A call that leaves a handle what it was, and of its second.
StatKeeps(r, g) == StatFull(r.h) /\ r.ok \in BOOLEAN /\ r.h.ref = g.ref /\ r.h.secs = g.secs
StatGetKeeps(r, g, now) ==
  /\ StatFull(r.h) /\ r.ok \in BOOLEAN /\ r.h.ref = g.ref
  /\ r.h.secs = IF r.ok /\ now - g.secs >= 1 THEN now ELSE g.secs
StatNewKeeps(r) ==
  /\ r.ok \in BOOLEAN
  /\ IF r.ok THEN StatFull(r.h) /\ r.h.ref = 1 /\ r.h.secs = 0 ELSE r.h = [ref |-> 0]

\* procps_stat_new gives a sound handle with one reference, or none.
LEMMA StatNewOk ==
  ASSUME NEW f, FileOk("stat", f), NEW junk
  PROVE  StatNewKeeps(StatNew(f, junk))
<1> DEFINE q == StatRead(BlankStat, f, junk)
<1>1. StatReadKeeps(q, BlankStat) BY BlankStatOk, StatReadOk
<1> HIDE DEF q
<1>2. q.h.ref = 1 /\ q.h.secs = 0 /\ q.h.sumRow = <<>>
  BY <1>1 DEF Same, BlankStat, StatReadKeeps
<1>3. StatUnref(q.h) = [ref |-> 0] BY <1>2 DEF StatUnref, NoStat
<1>4. StatNew(f, junk) = IF q.ok THEN q ELSE [ok |-> FALSE, h |-> StatUnref(q.h)]
  BY DEF StatNew, q
<1>5. q.ok => StatFull(q.h) BY <1>1, <1>2 DEF StatFull, StatReadKeeps
<1>6. q.ok \in BOOLEAN BY <1>1 DEF StatReadKeeps
<1>7. CASE q.ok
  <2>1. StatNew(f, junk) = q BY <1>4, <1>7
  <2>q. QED BY <1>2, <1>5, <1>6, <1>7, <2>1 DEF StatNewKeeps
<1>8. CASE ~ q.ok
  <2>1. StatNew(f, junk) = [ok |-> FALSE, h |-> [ref |-> 0]] BY <1>3, <1>4, <1>8
  <2>q. QED BY <2>1 DEF StatNewKeeps
<1>q. QED BY <1>7, <1>8

\* A read leaves a handle in use sound, with its reference and its second.
LEMMA StatReadFull ==
  ASSUME NEW g, StatFull(g), NEW f, FileOk("stat", f), NEW junk
  PROVE  StatKeeps(StatRead(g, f, junk), g)
<1> DEFINE r == StatRead(g, f, junk)
<1>1. StatOk(g) BY DEF StatFull
<1>2. StatReadKeeps(r, g) BY <1>1, StatReadOk
<1> HIDE DEF r
<1>3. r.h.ref = g.ref /\ r.h.secs = g.secs /\ r.h.sumRow = g.sumRow /\ r.h.nodeFetch = g.nodeFetch
  BY <1>1, <1>2 DEF Same, StatOk, BlankStat, StatReadKeeps
<1>4. r.h.inuse < Len(r.h.cpus) BY <1>2 DEF StatReadKeeps, StatFull
<1>q. QED BY <1>2, <1>3, <1>4 DEF StatFull, StatKeeps, StatReadKeeps, r

\* So does procps_stat_get, which remembers the second of its read.
LEMMA StatGetOk ==
  ASSUME NEW g, StatFull(g), NEW f, FileOk("stat", f), NEW item, NEW now \in Nat, NEW junk
  PROVE  StatGetKeeps(StatGet(g, f, item, now, junk), g, now)
<1> DEFINE q == IF now - g.secs >= 1 THEN StatRead(g, f, junk) ELSE [ok |-> TRUE, h |-> g]
           h2 == [q.h EXCEPT !.secs = now]
           r == StatGet(g, f, item, now, junk)
<1>1. StatKeeps(q, g)
  <2>1. CASE now - g.secs >= 1 BY <2>1, StatReadFull
  <2>2. CASE ~(now - g.secs >= 1)
    <3>1. q = [ok |-> TRUE, h |-> g] BY <2>2
    <3> HIDE DEF q
    <3>q. QED BY <3>1 DEF StatKeeps
  <2>q. QED BY <2>1, <2>2
<1>2. /\ r.ok = (IF q.ok THEN TRUE ELSE FALSE)
      /\ r.h = IF ~q.ok THEN q.h ELSE IF now - g.secs >= 1 THEN h2 ELSE q.h
  BY DEF StatGet
<1> HIDE DEF q, r
<1>3. StatFull(h2) /\ h2.ref = q.h.ref /\ h2.secs = now
  BY <1>1 DEF StatFull, StatOk, BlankStat, StatKeeps
<1> HIDE DEF h2
<1>q. QED BY <1>1, <1>2, <1>3 DEF r, StatKeeps, StatGetKeeps

\* So does procps_stat_select.
LEMMA StatSelectOk ==
  ASSUME NEW g, StatFull(g), NEW f, FileOk("stat", f), NEW items, NEW junk
  PROVE  StatKeeps(StatSelect(g, f, items, junk), g)
<1> DEFINE c == StatReconfig(g.selExt, items)
           g1 == [g EXCEPT !.selExt = c.ext]
           q == StatRead(g1, f, junk)
           row == StatAssign(items, q.h.sys, q.h.sum)
           h2 == [q.h EXCEPT !.selExt = Single(@), !.selRow = row]
           r == StatSelect(g, f, items, junk)
<1>1. r = IF ~c.ok THEN [ok |-> FALSE, h |-> g] ELSE IF ~q.ok THEN q ELSE [ok |-> TRUE, h |-> h2]
  BY DEF StatSelect
<1>2. StatFull(g1) /\ g1.ref = g.ref /\ g1.secs = g.secs
  <2> HIDE DEF c
  <2>q. QED BY DEF StatFull, StatOk, BlankStat
<1> HIDE DEF g1
<1>3. StatKeeps(q, g1) BY <1>2, StatReadFull
<1> HIDE DEF c, q, row, r
<1>4. StatFull(h2) /\ h2.ref = q.h.ref /\ h2.secs = q.h.secs
  BY <1>3 DEF StatFull, StatOk, BlankStat, StatKeeps
<1> HIDE DEF h2
<1>5. CASE ~c.ok
  <2>1. r = [ok |-> FALSE, h |-> g] BY <1>1, <1>5
  <2>q. QED BY <2>1 DEF r, StatKeeps
<1>6. CASE c.ok /\ ~q.ok
  <2>1. r = q BY <1>1, <1>6
  <2>q. QED BY <1>2, <1>3, <2>1 DEF r, StatKeeps
<1>7. CASE c.ok /\ q.ok
  <2>1. r = [ok |-> TRUE, h |-> h2] BY <1>1, <1>7
  <2>q. QED BY <1>2, <1>3, <1>4, <2>1 DEF r, StatKeeps
<1>q. QED BY <1>5, <1>6, <1>7

\* The parts of a reap, each of which leaves the handle whole.
StatPart(x, g) == StatFull(x) /\ x.ref = g.ref /\ x.secs = g.secs /\ x.nodeFetch.saved > 0

\* Making the nodes leaves the handle whole in the midst of a reap.
LEMMA StatNumaOk ==
  ASSUME NEW g, NEW k, StatPart(g, k)
  PROVE  StatPart(StatNuma(g), k)
<1> DEFINE top == Max({NodeOf[c] : c \in DOMAIN NodeOf})
           on(nd) == {i \in 1 .. g.inuse : NodeOf[g.cpus[i].id] = nd}
           nodes == [i \in 1 .. top + 1 |->
                       [id |-> i - 1, node |-> IF on(i - 1) = {} THEN -1 ELSE i - 1,
                        count |-> Cardinality(on(i - 1)),
                        new |-> SumJifs(on(i - 1), "new", g), old |-> SumJifs(on(i - 1), "old", g)]]
           cpus == [i \in DOMAIN g.cpus |->
                      IF i <= g.inuse /\ NodeOf[g.cpus[i].id] > -1
                      THEN [g.cpus[i] EXCEPT !.node = NodeOf[g.cpus[i].id]] ELSE g.cpus[i]]
           r == StatNuma(g)
<1>1. top \in Int /\ top >= -1
  <2> DEFINE S == {NodeOf[c] : c \in DOMAIN NodeOf}
  <2>1. \A y \in S : y \in Int /\ y >= -1 BY ProcStatAssumption
  <2>2. \E x \in S : \A y \in S : x >= y BY ProcStatAssumption
  <2> HIDE DEF S
  <2>3. Max(S) \in S BY <2>2 DEF Max
  <2>q. QED BY <2>1, <2>3 DEF S
<1>2. r = [g EXCEPT !.nodes = nodes, !.cpus = cpus] BY DEF StatNuma
<1>3. IsSeq(nodes)
  <2>1. top + 1 \in Nat BY <1>1
  <2> HIDE DEF top, on
  <2>q. QED BY <2>1, SeqMade
<1>4. IsSeq(cpus) /\ Len(cpus) = Len(g.cpus)
  <2>1. Len(g.cpus) \in Nat /\ DOMAIN g.cpus = 1 .. Len(g.cpus)
    BY SeqFacts DEF StatPart, StatFull, StatOk
  <2>q. QED BY <2>1, SeqMade
<1> HIDE DEF nodes, cpus, r
<1>5. /\ DOMAIN r = DOMAIN g /\ r.nodes = nodes /\ r.cpus = cpus
      /\ Same(r, g, DOMAIN g \ {"nodes", "cpus"})
  <2>1. DOMAIN g = DOMAIN BlankStat BY DEF StatPart, StatFull, StatOk
  <2>2. DOMAIN r = DOMAIN g /\ r.nodes = nodes /\ r.cpus = cpus BY <1>2, <2>1 DEF BlankStat
  <2>3. Same(r, g, DOMAIN g \ {"nodes", "cpus"})
    <3> SUFFICES ASSUME NEW x \in DOMAIN g \ {"nodes", "cpus"} PROVE r[x] = g[x] BY DEF Same
    <3>q. QED BY <1>2
  <2>q. QED BY <2>2, <2>3
<1>q. QED BY <1>3, <1>4, <1>5 DEF r, StatPart, StatFull, StatOk, BlankStat, Same

\* So does fetching the CPUs, with stacks for all that it shows.
LEMMA StatFetchCpusOk ==
  ASSUME NEW g, NEW k, StatPart(g, k)
  PROVE  StatPart(StatFetchCpus(g), k)
<1> DEFINE q == Fetch(g.cpuExt, g.cpuFetch, g.inuse)
           rows == [i \in 1 .. g.inuse |-> StatAssign(q.ext.items, g.sys, g.cpus[i])]
           r == StatFetchCpus(g)
<1>1. r = [g EXCEPT !.cpuExt = q.ext, !.cpuFetch = q.fetch, !.cpuRows = rows] BY DEF StatFetchCpus
<1>2. Stacked(q.ext, q.fetch) BY FetchStacked DEF StatPart, StatFull, StatOk
<1> HIDE DEF q, rows, r
<1>q. QED BY <1>1, <1>2 DEF r, StatPart, StatFull, StatOk, BlankStat

\* And fetching the nodes.
LEMMA StatFetchNodesOk ==
  ASSUME NEW g, NEW k, StatPart(g, k)
  PROVE  StatPart(StatFetchNodes(g), k)
<1> DEFINE n == Len(g.nodes)
           q == Fetch(g.nodeExt, g.nodeFetch, n)
           rows == [i \in 1 .. n |-> StatAssign(q.ext.items, g.sys, g.nodes[i])]
           r == StatFetchNodes(g)
<1>1. r = [g EXCEPT !.nodeExt = q.ext, !.nodeFetch = q.fetch, !.nodeRows = rows]
  BY DEF StatFetchNodes
<1>2. n \in Nat BY SeqFacts DEF StatPart, StatFull, StatOk
<1> HIDE DEF n
<1>3. Stacked(q.ext, q.fetch) /\ q.fetch.saved > 0
  BY <1>2, FetchStacked DEF StatPart, StatFull, StatOk
<1> HIDE DEF q, rows, r
<1>q. QED BY <1>1, <1>3 DEF r, StatPart, StatFull, StatOk, BlankStat

\* So procps_stat_reap leaves a handle in use sound.
LEMMA StatReapOk ==
  ASSUME NEW g, StatFull(g), NEW f, FileOk("stat", f), NEW numa \in BOOLEAN, NEW items, NEW junk
  PROVE  StatKeeps(StatReap(g, f, numa, items, junk), g)
<1> DEFINE c == StatReconfig(g.sumExt, items)
           g1 == [g EXCEPT !.sumExt = StatReconfig(@, items).ext,
                           !.cpuExt = Reconfig(@, items), !.nodeExt = Reconfig(@, items)]
           q == StatRead(g1, f, junk)
           row == StatAssign(items, q.h.sys, q.h.sum)
           s == [q.h EXCEPT !.sumExt = Single(@), !.nodeRows = <<>>,
                            !.nodeFetch = [q.h.nodeFetch EXCEPT !.saved = IF @ = 0 THEN 1 ELSE @,
                                                                !.total = 0],
                            !.sumRow = row]
           h2 == IF numa THEN StatFetchCpus(StatFetchNodes(StatNuma(s))) ELSE StatFetchCpus(s)
           r == StatReap(g, f, numa, items, junk)
<1>1. r = IF ~c.ok THEN [ok |-> FALSE, h |-> g] ELSE IF ~q.ok THEN q ELSE [ok |-> TRUE, h |-> h2]
  BY DEF StatReap
<1>2. StatFull(g1) /\ g1.ref = g.ref /\ g1.secs = g.secs
  <2> DEFINE e == StatReconfig(g.sumExt, items).ext
             e1 == Reconfig(g.cpuExt, items)
             e2 == Reconfig(g.nodeExt, items)
  <2>1. Stacked(e1, g.cpuFetch) /\ Stacked(e2, g.nodeFetch)
    BY ReconfigStacked DEF StatFull, StatOk
  <2>2. g1 = [g EXCEPT !.sumExt = e, !.cpuExt = e1, !.nodeExt = e2] OBVIOUS
  <2> HIDE DEF e, e1, e2, g1
  <2>q. QED BY <2>1, <2>2 DEF StatFull, StatOk, BlankStat
<1> HIDE DEF g1
<1>3. StatKeeps(q, g1) BY <1>2, StatReadFull
<1> HIDE DEF c, q, row, r
<1>4. StatPart(s, g)
  <2> DEFINE nf == [q.h.nodeFetch EXCEPT !.saved = IF @ = 0 THEN 1 ELSE @, !.total = 0]
             e == Single(q.h.sumExt)
  <2>1. Stacked(q.h.nodeExt, nf) /\ nf.saved > 0
    <3>1. Stacked(q.h.nodeExt, q.h.nodeFetch) BY <1>3 DEF StatKeeps, StatFull, StatOk
    <3>2. /\ DOMAIN nf = DOMAIN q.h.nodeFetch /\ nf.anchor = q.h.nodeFetch.anchor /\ nf.total = 0
          /\ nf.saved = IF q.h.nodeFetch.saved = 0 THEN 1 ELSE q.h.nodeFetch.saved
      BY <3>1 DEF Stacked
    <3> HIDE DEF nf
    <3>q. QED BY <3>1, <3>2 DEF Stacked, FetchFits
  <2>2. s = [q.h EXCEPT !.sumExt = e, !.nodeRows = <<>>, !.nodeFetch = nf, !.sumRow = row]
    OBVIOUS
  <2> HIDE DEF nf, e, s
  <2>q. QED BY <1>2, <1>3, <2>1, <2>2 DEF StatPart, StatKeeps, StatFull, StatOk, BlankStat
<1> HIDE DEF s
<1>5. StatPart(h2, g) BY <1>4, StatNumaOk, StatFetchNodesOk, StatFetchCpusOk
<1> HIDE DEF h2
<1>6. CASE ~c.ok
  <2>1. r = [ok |-> FALSE, h |-> g] BY <1>1, <1>6
  <2>q. QED BY <2>1 DEF r, StatKeeps
<1>7. CASE c.ok /\ ~q.ok
  <2>1. r = q BY <1>1, <1>7
  <2>q. QED BY <1>2, <1>3, <2>1 DEF r, StatKeeps
<1>8. CASE c.ok /\ q.ok
  <2>1. r = [ok |-> TRUE, h |-> h2] BY <1>1, <1>8
  <2>q. QED BY <1>5, <2>1 DEF r, StatKeeps, StatPart
<1>q. QED BY <1>6, <1>7, <1>8

-------------------------------------------------------------------------------
\* The array of caches has room for those that are used.
SlabOk(g) ==
  /\ DOMAIN g = DOMAIN BlankSlab /\ g.ref \in Nat \ {0} /\ g.secs \in Nat
  /\ g.alloc \in Nat /\ g.used \in Nat /\ g.used <= g.alloc
  /\ Stacked(g.ext, g.fetch)

\* What calloc leaves of a handle of the slabinfo library is sound.
LEMMA BlankSlabOk == SlabOk(BlankSlab)
BY DEF SlabOk, BlankSlab, NoExt, NoFetch, Stacked, FetchFits

\* The array grows, and nothing else changes.
Grown(x, g) ==
  /\ DOMAIN x = DOMAIN BlankSlab /\ x.alloc \in Nat /\ x.used \in Nat /\ x.used <= x.alloc
  /\ Same(x, g, DOMAIN BlankSlab \ {"alloc", "used"})

\* Growing the nodes makes room for one more.
LEMMA AllocGrown ==
  ASSUME NEW x, NEW g, Grown(x, g)
  PROVE  Grown(AllocNodes(x), g) /\ AllocNodes(x).used < AllocNodes(x).alloc
         /\ AllocNodes(x).used = x.used
<1>1. CASE x.used < x.alloc BY <1>1 DEF AllocNodes
<1>2. CASE ~(x.used < x.alloc)
  <2> DEFINE more == (x.alloc * 5) \div 4 + NodesIncr
             y == AllocNodes(x)
  <2>1. y = [x EXCEPT !.alloc = more] BY <1>2 DEF AllocNodes
  <2>2. x.alloc \in Nat /\ x.used \in Nat /\ x.used <= x.alloc /\ DOMAIN x = DOMAIN BlankSlab
    BY DEF Grown
  <2>3. more \in Nat /\ x.alloc < more BY <2>2, SlabinfoAssumption
  <2> HIDE DEF more, y
  <2>4. DOMAIN y = DOMAIN x /\ y.alloc = more /\ y.used = x.used BY <2>1, <2>2 DEF BlankSlab
  <2>5. Same(y, g, DOMAIN BlankSlab \ {"alloc", "used"})
    <3> SUFFICES ASSUME NEW z \in DOMAIN BlankSlab \ {"alloc", "used"} PROVE y[z] = g[z] BY DEF Same
    <3>1. x[z] = g[z] BY DEF Grown, Same
    <3>q. QED BY <2>1, <2>2, <3>1
  <2>q. QED BY <2>2, <2>3, <2>4, <2>5 DEF y, Grown
<1>q. QED BY <1>1, <1>2

\* Taking a node leaves the nodes used within the nodes allocated.
LEMMA GetGrown ==
  ASSUME NEW x, NEW g, Grown(x, g)
  PROVE  Grown(GetNode(x), g)
<1> DEFINE w == IF x.used = x.alloc THEN AllocNodes(x) ELSE x
           y == GetNode(x)
<1>1. Grown(w, g) /\ w.used < w.alloc
  <2>1. CASE x.used = x.alloc BY <2>1, AllocGrown
  <2>2. CASE x.used # x.alloc
    <3>1. w = x BY <2>2
    <3> HIDE DEF w
    <3>q. QED BY <2>2, <3>1 DEF Grown
  <2>q. QED BY <2>1, <2>2
<1>2. y = [w EXCEPT !.used = @ + 1] BY DEF GetNode
<1> HIDE DEF w, y
<1>3. /\ w.alloc \in Nat /\ w.used \in Nat /\ w.used + 1 <= w.alloc /\ DOMAIN w = DOMAIN BlankSlab
  BY <1>1 DEF Grown
<1>4. DOMAIN y = DOMAIN w /\ y.used = w.used + 1 /\ y.alloc = w.alloc BY <1>2, <1>3 DEF BlankSlab
<1>5. Same(y, g, DOMAIN BlankSlab \ {"alloc", "used"})
  <2> SUFFICES ASSUME NEW z \in DOMAIN BlankSlab \ {"alloc", "used"} PROVE y[z] = g[z] BY DEF Same
  <2>1. w[z] = g[z] BY <1>1 DEF Grown, Same
  <2>q. QED BY <1>2, <1>3, <2>1
<1>q. QED BY <1>3, <1>4, <1>5 DEF Grown, y

\* The steps of a read are a function.
Gets(start, n, got) == got = [i \in 0 .. n |-> IF i = 0 THEN start ELSE GetNode(got[i - 1])]

\* The nodes taken one after the other are a function.
LEMMA GetsExist ==
  ASSUME NEW start, NEW n \in Nat
  PROVE  \E got : Gets(start, n, got)
<1> DEFINE Bad == {m \in Nat : ~ \E got : Gets(start, m, got)}
<1> SUFFICES ASSUME Bad # {} PROVE FALSE OBVIOUS
<1>1. PICK m \in Bad : \A k \in Bad : m <= k
  <2>1. Bad \in SUBSET Nat OBVIOUS
  <2> HIDE DEF Bad
  <2>q. QED BY <2>1, LeastNat
<1>2. CASE m = 0
  <2> DEFINE got == [i \in 0 .. 0 |-> start]
  <2>1. Gets(start, 0, got) BY DEF Gets
  <2>q. QED BY <1>1, <1>2, <2>1
<1>3. CASE m # 0
  <2>1. m - 1 \in Nat /\ m - 1 \notin Bad BY <1>1, <1>3
  <2>2. PICK part : Gets(start, m - 1, part) BY <2>1
  <2> DEFINE got == [i \in 0 .. m |-> IF i = m THEN GetNode(part[m - 1]) ELSE part[i]]
  <2>3. \A i \in 0 .. m : got[i] = IF i = 0 THEN start ELSE GetNode(got[i - 1])
    <3> SUFFICES ASSUME NEW i \in 0 .. m PROVE got[i] = IF i = 0 THEN start ELSE GetNode(got[i - 1])
      OBVIOUS
    <3>1. CASE i = m
      <4>1. i - 1 \in 0 .. m /\ i - 1 # m BY <1>1, <1>3, <3>1
      <4>2. got[i - 1] = part[i - 1] BY <4>1
      <4>q. QED BY <1>3, <3>1, <4>2
    <3>2. CASE i # m
      <4>1. i \in 0 .. m - 1 BY <1>1, <3>2
      <4>2. part[i] = IF i = 0 THEN start ELSE GetNode(part[i - 1]) BY <2>2, <4>1 DEF Gets
      <4>3. i # 0 => i - 1 \in 0 .. m /\ i - 1 # m BY <4>1
      <4>q. QED BY <3>2, <4>2, <4>3
    <3>q. QED BY <3>1, <3>2
  <2>4. Gets(start, m, got) BY <2>3 DEF Gets
  <2>q. QED BY <1>1, <2>4
<1>q. QED BY <1>2, <1>3

\* Taking any number of them leaves them within the nodes allocated.
LEMMA GetsGrown ==
  ASSUME NEW start, NEW g, NEW n \in Nat, NEW got, Gets(start, n, got), Grown(start, g)
  PROVE  \A i \in 0 .. n : Grown(got[i], g)
<1> DEFINE Bad == {i \in 0 .. n : ~ Grown(got[i], g)}
<1> SUFFICES ASSUME Bad # {} PROVE FALSE OBVIOUS
<1>1. PICK m \in Bad : \A k \in Bad : m <= k
  <2>1. Bad \in SUBSET Nat OBVIOUS
  <2> HIDE DEF Bad
  <2>q. QED BY <2>1, LeastNat
<1>2. CASE m = 0
  <2>1. got[0] = start BY DEF Gets
  <2>q. QED BY <1>1, <1>2, <2>1
<1>3. CASE m # 0
  <2>1. m - 1 \in 0 .. n /\ m - 1 \notin Bad BY <1>1, <1>3
  <2>2. Grown(got[m - 1], g) BY <2>1
  <2>3. got[m] = GetNode(got[m - 1]) BY <1>1, <1>3 DEF Gets
  <2>q. QED BY <1>1, <2>2, <2>3, GetGrown
<1>q. QED BY <1>2, <1>3

SlabKeeps(r, g) == SlabOk(r.h) /\ r.ok \in BOOLEAN /\ r.h.ref = g.ref /\ r.h.secs = g.secs
SlabGetKeeps(r, g, now) ==
  /\ SlabOk(r.h) /\ r.ok \in BOOLEAN /\ r.h.ref = g.ref
  /\ r.h.secs = IF r.ok /\ now - g.secs >= 1 THEN now ELSE g.secs
SlabNewKeeps(r) ==
  /\ r.ok \in BOOLEAN
  /\ IF r.ok THEN SlabOk(r.h) /\ r.h.ref = 1 /\ r.h.secs = 0 ELSE r.h = [ref |-> 0]

\* A read of /proc/slabinfo leaves a sound handle sound.
LEMMA SlabReadOk ==
  ASSUME NEW g, SlabOk(g), NEW f, FileOk("slab", f)
  PROVE  SlabKeeps(SlabRead(g, f), g)
<1> DEFINE slabs == [old |-> g.slabs.new, new |-> NoSumm]
           g1 == [g EXCEPT !.slabs = slabs]
           w == AllocNodes(g1)
           start == [w EXCEPT !.used = 0, !.nodes = <<>>]
           n == IF f.status = "fine" THEN Len(f.lines) ELSE Len(f.lines) + 1
           got == CHOOSE got : Gets(start, n, got)
           x == got[n]
           p == ParseSlabs(f.lines)
           sums == [old |-> g.slabs.new,
                    new |-> IF f.status = "fine" THEN p.summ ELSE [p.summ EXCEPT !.avg = 0]]
           h2 == [x EXCEPT !.nodes = p.caches, !.slabs = sums]
           r == SlabRead(g, f)
<1>1. r = IF f.status = "unreadable" THEN [ok |-> FALSE, h |-> start]
          ELSE [ok |-> f.status = "fine", h |-> h2]
  BY Zenon DEF SlabRead, Gets
<1> HIDE DEF r, p, slabs
<1>2. Grown(g1, g1) /\ g1.ref = g.ref /\ g1.secs = g.secs /\ g1.ext = g.ext /\ g1.fetch = g.fetch
  BY DEF Grown, SlabOk, BlankSlab, Same
<1> HIDE DEF g1
<1>3. Grown(w, g1) BY <1>2, AllocGrown
<1> HIDE DEF w
<1>4. SlabOk(start) /\ start.ref = g.ref /\ start.secs = g.secs
  BY <1>2, <1>3 DEF Grown, SlabOk, Same, BlankSlab
<1> HIDE DEF start
<1>5. Grown(start, start) BY <1>4 DEF SlabOk, Grown, Same
<1>6. n \in Nat
  <2>1. IsSeq(f.lines) BY DEF FileOk
  <2>2. Len(f.lines) \in Nat BY <2>1, SeqFacts
  <2>q. QED BY <2>2
<1> HIDE DEF n
<1>7. Gets(start, n, got) BY <1>6, GetsExist
<1> HIDE DEF got
<1>8. Grown(x, start)
  <2>1. n \in 0 .. n BY <1>6
  <2>q. QED BY <1>5, <1>6, <1>7, <2>1, GetsGrown
<1> HIDE DEF x, sums
<1>9. SlabOk(h2) /\ h2.ref = g.ref /\ h2.secs = g.secs
  BY <1>4, <1>8 DEF Grown, SlabOk, Same, BlankSlab
<1> HIDE DEF h2
<1>10. CASE f.status = "unreadable"
  <2>1. r = [ok |-> FALSE, h |-> start] BY <1>1, <1>10
  <2>q. QED BY <1>4, <2>1 DEF r, SlabKeeps
<1>11. CASE f.status # "unreadable"
  <2>1. r = [ok |-> f.status = "fine", h |-> h2] BY <1>1, <1>11
  <2>q. QED BY <1>9, <2>1 DEF r, SlabKeeps
<1>q. QED BY <1>10, <1>11

\* procps_slabinfo_new gives a sound handle with one reference, or none.
LEMMA SlabNewOk ==
  ASSUME NEW f, FileOk("slab", f)
  PROVE  SlabNewKeeps(SlabNew(f))
<1> DEFINE q == SlabRead(BlankSlab, f)
<1>1. SlabKeeps(q, BlankSlab) BY BlankSlabOk, SlabReadOk
<1> HIDE DEF q
<1>2. q.h.ref = 1 /\ q.h.secs = 0 BY <1>1 DEF BlankSlab, SlabKeeps
<1>3. SlabUnref(q.h) = [ref |-> 0] BY <1>2 DEF SlabUnref, NoSlab
<1>4. SlabNew(f) = IF q.ok THEN q ELSE [ok |-> FALSE, h |-> SlabUnref(q.h)] BY DEF SlabNew, q
<1>5. SlabOk(q.h) BY <1>1 DEF SlabKeeps
<1>6. q.ok \in BOOLEAN BY <1>1 DEF SlabKeeps
<1>7. CASE q.ok
  <2>1. SlabNew(f) = q BY <1>4, <1>7
  <2>q. QED BY <1>2, <1>5, <1>6, <1>7, <2>1 DEF SlabNewKeeps
<1>8. CASE ~ q.ok
  <2>1. SlabNew(f) = [ok |-> FALSE, h |-> [ref |-> 0]] BY <1>3, <1>4, <1>8
  <2>q. QED BY <2>1 DEF SlabNewKeeps
<1>q. QED BY <1>7, <1>8

\* procps_slabinfo_get leaves it sound and remembers the second of its read.
LEMMA SlabGetOk ==
  ASSUME NEW g, SlabOk(g), NEW f, FileOk("slab", f), NEW item, NEW now \in Nat
  PROVE  SlabGetKeeps(SlabGet(g, f, item, now), g, now)
<1> DEFINE q == IF now - g.secs >= 1 THEN SlabRead(g, f) ELSE [ok |-> TRUE, h |-> g]
           h2 == [q.h EXCEPT !.secs = now]
           r == SlabGet(g, f, item, now)
<1>1. SlabKeeps(q, g)
  <2>1. CASE now - g.secs >= 1 BY <2>1, SlabReadOk
  <2>2. CASE ~(now - g.secs >= 1)
    <3>1. q = [ok |-> TRUE, h |-> g] BY <2>2
    <3> HIDE DEF q
    <3>q. QED BY <3>1 DEF SlabKeeps
  <2>q. QED BY <2>1, <2>2
<1>2. /\ r.ok = (IF q.ok THEN TRUE ELSE FALSE)
      /\ r.h = IF ~q.ok THEN q.h ELSE IF now - g.secs >= 1 THEN h2 ELSE q.h
  BY DEF SlabGet
<1> HIDE DEF q, r
<1>3. SlabOk(h2) /\ h2.ref = q.h.ref /\ h2.secs = now
  BY <1>1 DEF SlabOk, BlankSlab, SlabKeeps
<1> HIDE DEF h2
<1>q. QED BY <1>1, <1>2, <1>3 DEF r, SlabKeeps, SlabGetKeeps

\* procps_slabinfo_reap leaves it sound, with stacks for what it shows.
LEMMA SlabReapOk ==
  ASSUME NEW g, SlabOk(g), NEW f, FileOk("slab", f), NEW items
  PROVE  SlabKeeps(SlabReap(g, f, items), g)
<1> DEFINE c == SlabReconfig(g.ext, items)
           g1 == [g EXCEPT !.ext = c.ext]
           q == SlabRead(g1, f)
           m == Fetch(q.h.ext, q.h.fetch, q.h.used)
           rows == [k \in 1 .. q.h.used |-> SlabAssign(m.ext.items, q.h.slabs, q.h.nodes[k])]
           h2 == [q.h EXCEPT !.ext = m.ext, !.fetch = m.fetch, !.rows = rows]
           r == SlabReap(g, f, items)
<1>1. r = IF ~c.ok THEN [ok |-> FALSE, h |-> g] ELSE IF q.ok THEN [ok |-> TRUE, h |-> h2] ELSE q
  BY DEF SlabReap, SlabFetch
<1>2. Stacked(c.ext, g.fetch)
  <2>1. c.ext = Reconfig(g.ext, items) \/ c.ext = g.ext BY DEF SlabReconfig, ReconfigMaybe
  <2>2. Stacked(g.ext, g.fetch) BY DEF SlabOk
  <2> HIDE DEF c
  <2>q. QED BY <2>1, <2>2, ReconfigStacked
<1>3. SlabOk(g1) /\ g1.ref = g.ref /\ g1.secs = g.secs
  <2> HIDE DEF c
  <2>q. QED BY <1>2 DEF SlabOk, BlankSlab
<1> HIDE DEF g1
<1>4. SlabKeeps(q, g1) BY <1>3, SlabReadOk
<1> HIDE DEF c, q, r
<1>5. Stacked(m.ext, m.fetch) BY <1>4, FetchStacked DEF SlabKeeps, SlabOk
<1> HIDE DEF m, rows
<1>6. SlabOk(h2) /\ h2.ref = q.h.ref /\ h2.secs = q.h.secs
  BY <1>4, <1>5 DEF SlabOk, BlankSlab, SlabKeeps
<1> HIDE DEF h2
<1>7. CASE ~c.ok
  <2>1. r = [ok |-> FALSE, h |-> g] BY <1>1, <1>7
  <2>q. QED BY <2>1 DEF r, SlabKeeps
<1>8. CASE c.ok /\ ~q.ok
  <2>1. r = q BY <1>1, <1>8
  <2>q. QED BY <1>3, <1>4, <2>1 DEF r, SlabKeeps
<1>9. CASE c.ok /\ q.ok
  <2>1. r = [ok |-> TRUE, h |-> h2] BY <1>1, <1>9
  <2>q. QED BY <1>3, <1>4, <1>6, <2>1 DEF r, SlabKeeps
<1>q. QED BY <1>7, <1>8, <1>9

\* procps_slabinfo_select leaves it sound.
LEMMA SlabSelectOk ==
  ASSUME NEW g, SlabOk(g), NEW f, FileOk("slab", f), NEW items
  PROVE  SlabKeeps(SlabSelect(g, f, items), g)
<1> DEFINE e == Single(SlabReconfig(g.selExt, items).ext)
           g1 == [g EXCEPT !.selExt = Single(SlabReconfig(@, items).ext)]
           q == SlabRead(g1, f)
           row == SlabAssign(items, q.h.slabs, NulCache)
           h2 == [q.h EXCEPT !.selRow = row]
           r == SlabSelect(g, f, items)
           ok == SlabReconfig(g.selExt, items).ok
<1>1. r = IF ~ok THEN [ok |-> FALSE, h |-> g] ELSE IF ~q.ok THEN q ELSE [ok |-> TRUE, h |-> h2]
  BY DEF SlabSelect
<1>2. SlabOk(g1) /\ g1.ref = g.ref /\ g1.secs = g.secs
  <2>1. g1 = [g EXCEPT !.selExt = e] OBVIOUS
  <2> HIDE DEF e, g1
  <2>q. QED BY <2>1 DEF SlabOk, BlankSlab
<1> HIDE DEF g1
<1>3. SlabKeeps(q, g1) BY <1>2, SlabReadOk
<1> HIDE DEF q, row, r, ok
<1>4. SlabOk(h2) /\ h2.ref = q.h.ref /\ h2.secs = q.h.secs
  BY <1>3 DEF SlabOk, BlankSlab, SlabKeeps
<1> HIDE DEF h2
<1>5. CASE ~ok
  <2>1. r = [ok |-> FALSE, h |-> g] BY <1>1, <1>5
  <2>q. QED BY <2>1 DEF r, SlabKeeps
<1>6. CASE ok /\ ~q.ok
  <2>1. r = q BY <1>1, <1>6
  <2>q. QED BY <1>2, <1>3, <2>1 DEF r, SlabKeeps
<1>7. CASE ok /\ q.ok
  <2>1. r = [ok |-> TRUE, h |-> h2] BY <1>1, <1>7
  <2>q. QED BY <1>2, <1>3, <1>4, <2>1 DEF r, SlabKeeps
<1>q. QED BY <1>5, <1>6, <1>7

-------------------------------------------------------------------------------
\* What a sample of the memory says of itself.
Within(m) ==
  m.MemFree <= m.MemTotal =>
     /\ m.MemAvailable <= m.MemTotal /\ m.mem_used <= m.MemTotal
     /\ m.swap_used <= m.SwapTotal /\ m.mem_lo_used <= m.LowTotal
     /\ m.MemFree + m.mem_cached + m.Buffers <= m.MemTotal
          => m.mem_used + m.MemFree + m.mem_cached + m.Buffers = m.MemTotal

MemNames == MemRead \cup MemDerived

\* The sums are of unsigned longs, so that they stay so: what wraps is the cache alone.
LEMMA RestStays ==
  ASSUME NEW x \in 0 .. ULong - 1
  PROVE  x % ULong = x
BY MeminfoAssumption

\* The derived memory of a whole /proc/meminfo is within the total.
LEMMA DeriveWithin ==
  ASSUME NEW m, DOMAIN m = MemNames, \A x \in MemNames : m[x] \in 0 .. ULong - 1
  PROVE  Within(MemDerive(m))
<1> DEFINE av == IF m.MemAvailable = 0 THEN m.MemFree ELSE m.MemAvailable
           cached == (m.Cached + m.SReclaimable) % ULong
           a == [m EXCEPT !.MemAvailable = IF @ = 0 THEN m.MemFree ELSE @, !.mem_cached = cached]
           avail == IF a.MemAvailable > a.MemTotal THEN a.MemFree ELSE a.MemAvailable
           rest == a.MemTotal - a.MemFree - a.mem_cached - a.Buffers
           used == IF rest < 0 THEN a.MemTotal - a.MemFree ELSE rest
           low == IF a.LowTotal = 0 THEN <<a.MemTotal, a.MemFree>> ELSE <<a.LowTotal, a.LowFree>>
           r == MemDerive(m)
<1>1. r = [a EXCEPT !.MemAvailable = avail, !.mem_used = used % ULong,
                    !.mem_hi_used = Above(a.HighTotal, a.HighFree),
                    !.LowTotal = low[1], !.LowFree = low[2], !.mem_lo_used = Above(low[1], low[2]),
                    !.swap_used = Above(a.SwapTotal, a.SwapFree)]
  BY DEF MemDerive
<1>2. cached \in Nat BY MeminfoAssumption DEF MemNames, MemRead
<1> HIDE DEF cached
<1>3. /\ DOMAIN a = MemNames /\ a.MemAvailable = av /\ a.mem_cached = cached
      /\ Same(a, m, MemNames \ {"MemAvailable", "mem_cached"})
  <2>1. a = [m EXCEPT !.MemAvailable = av, !.mem_cached = cached] OBVIOUS
  <2> HIDE DEF av, a
  <2>q. QED BY <2>1 DEF MemNames, MemRead, MemDerived, Same
<1> HIDE DEF a
<1>4. /\ a.MemTotal = m.MemTotal /\ a.MemFree = m.MemFree /\ a.Buffers = m.Buffers
      /\ a.SwapTotal = m.SwapTotal /\ a.SwapFree = m.SwapFree
      /\ a.LowTotal = m.LowTotal /\ a.LowFree = m.LowFree
  BY <1>3 DEF Same, MemNames, MemRead
<1>5. /\ m.MemTotal \in 0 .. ULong - 1 /\ m.MemFree \in 0 .. ULong - 1
      /\ m.MemAvailable \in 0 .. ULong - 1 /\ m.Buffers \in 0 .. ULong - 1
      /\ m.SwapTotal \in 0 .. ULong - 1 /\ m.SwapFree \in 0 .. ULong - 1
      /\ m.LowTotal \in 0 .. ULong - 1 /\ m.LowFree \in 0 .. ULong - 1
  BY DEF MemNames, MemRead
<1>6. ULong \in Nat \ {0} BY MeminfoAssumption
<1>7. /\ avail \in Nat
      /\ m.MemFree <= m.MemTotal =>
           /\ avail <= m.MemTotal /\ used \in 0 .. m.MemTotal
           /\ m.MemFree + cached + m.Buffers <= m.MemTotal
                => used = m.MemTotal - m.MemFree - cached - m.Buffers
  BY <1>2, <1>3, <1>4, <1>5
<1>8. \A t, f \in Nat : Above(t, f) <= t BY DEF Above
<1>9. low[1] \in Nat /\ low[2] \in Nat BY <1>4, <1>5
<1> HIDE DEF avail, used, low
<1>10. m.MemFree <= m.MemTotal => used % ULong = used
  <2>1. m.MemFree <= m.MemTotal => used \in 0 .. ULong - 1 BY <1>5, <1>6, <1>7
  <2>q. QED BY <2>1, RestStays
<1> DEFINE u == used % ULong
           hi == Above(a.HighTotal, a.HighFree)
           lo == Above(low[1], low[2])
           sw == Above(a.SwapTotal, a.SwapFree)
           l1 == low[1]
           l2 == low[2]
<1>11. r = [a EXCEPT !.MemAvailable = avail, !.mem_used = u, !.mem_hi_used = hi,
                     !.LowTotal = l1, !.LowFree = l2, !.mem_lo_used = lo, !.swap_used = sw]
  BY <1>1
<1>12. sw <= a.SwapTotal /\ lo <= l1 BY <1>4, <1>5, <1>8, <1>9
<1>13. m.MemFree <= m.MemTotal => u = used BY <1>10
<1> HIDE DEF u, hi, lo, sw, l1, l2, r
<1>14. /\ r.MemFree = a.MemFree /\ r.MemTotal = a.MemTotal /\ r.MemAvailable = avail
       /\ r.mem_used = u /\ r.swap_used = sw /\ r.SwapTotal = a.SwapTotal
       /\ r.mem_lo_used = lo /\ r.LowTotal = l1 /\ r.mem_cached = a.mem_cached
       /\ r.Buffers = a.Buffers
  BY <1>3, <1>11 DEF MemNames, MemRead, MemDerived
<1>15. Within(r)
  <2> SUFFICES ASSUME r.MemFree <= r.MemTotal
               PROVE  /\ r.MemAvailable <= r.MemTotal /\ r.mem_used <= r.MemTotal
                      /\ r.swap_used <= r.SwapTotal /\ r.mem_lo_used <= r.LowTotal
                      /\ r.MemFree + r.mem_cached + r.Buffers <= r.MemTotal
                           => r.mem_used + r.MemFree + r.mem_cached + r.Buffers = r.MemTotal
    BY DEF Within
  <2>1. m.MemFree <= m.MemTotal BY <1>4, <1>14
  <2>2. /\ avail <= m.MemTotal /\ used \in 0 .. m.MemTotal /\ u = used
        /\ m.MemFree + cached + m.Buffers <= m.MemTotal
             => used = m.MemTotal - m.MemFree - cached - m.Buffers
    BY <2>1, <1>7, <1>13
  <2>q. QED BY <2>2, <1>2, <1>3, <1>4, <1>5, <1>12, <1>14
<1>q. QED BY <1>15 DEF r

\* A sample is derived of unsigned longs.
LEMMA HashWithin ==
  ASSUME NEW f, FileOk("mem", f)
  PROVE  Within(MemDerive(MemHash(f.vals)))
<1> DEFINE m == MemHash(f.vals)
<1>1. DOMAIN m = MemNames BY DEF MemHash, NoMem, MemNames
<1>2. \A x \in MemNames : m[x] \in 0 .. ULong - 1
  BY MeminfoAssumption DEF MemHash, NoMem, MemNames, FileOk, ULongs
<1> HIDE DEF m
<1>q. QED BY <1>1, <1>2, DeriveWithin DEF m

MemOk(g) ==
  /\ DOMAIN g = DOMAIN BlankMem /\ g.ref \in Nat \ {0} /\ g.secs \in Nat
  /\ DOMAIN g.hist = {"new", "old"} /\ Within(g.hist.new)

\* A handle that has read nothing has no memory, which is within the total.
LEMMA NoneWithin == Within(NoMem)
BY DEF Within, NoMem, MemRead, MemDerived

\* What calloc leaves of a handle of the meminfo library is sound.
LEMMA BlankMemOk == MemOk(BlankMem)
BY NoneWithin DEF MemOk, BlankMem

MemKeeps(r, g) == MemOk(r.h) /\ r.ok \in BOOLEAN /\ r.h.ref = g.ref /\ r.h.secs = g.secs
MemGetKeeps(r, g, now) ==
  /\ MemOk(r.h) /\ r.ok \in BOOLEAN /\ r.h.ref = g.ref
  /\ r.h.secs = IF r.ok /\ now - g.secs >= 1 THEN now ELSE g.secs
MemNewKeeps(r) ==
  /\ r.ok \in BOOLEAN
  /\ IF r.ok THEN MemOk(r.h) /\ r.h.ref = 1 /\ r.h.secs = 0 ELSE r.h = [ref |-> 0]

\* A read of /proc/meminfo leaves a sound handle sound.
LEMMA MemReadOk ==
  ASSUME NEW g, MemOk(g), NEW f, FileOk("mem", f)
  PROVE  MemKeeps(MemReadFile(g, f), g)
<1> DEFINE start == [g EXCEPT !.hist = [old |-> g.hist.new, new |-> NoMem]]
           m == MemDerive(MemHash(f.vals))
           h2 == [start EXCEPT !.hist.new = m, !.fd = TRUE]
           r == MemReadFile(g, f)
<1>1. r = IF f.status = "unreadable" THEN [ok |-> FALSE, h |-> start] ELSE [ok |-> TRUE, h |-> h2]
  BY DEF MemReadFile
<1>2. Within(m) BY HashWithin
<1> HIDE DEF m, r
<1>3. MemOk(start) /\ start.ref = g.ref /\ start.secs = g.secs BY NoneWithin DEF MemOk, BlankMem
<1> HIDE DEF start
<1> DEFINE both == [start.hist EXCEPT !.new = m]
<1>4. both.new = m /\ DOMAIN both = {"new", "old"} BY <1>3 DEF MemOk
<1>5. h2 = [start EXCEPT !.hist = both, !.fd = TRUE] OBVIOUS
<1> HIDE DEF both, h2
<1>6. MemOk(h2) /\ h2.ref = g.ref /\ h2.secs = g.secs BY <1>2, <1>3, <1>4, <1>5 DEF MemOk, BlankMem
<1>7. CASE f.status = "unreadable"
  <2>1. r = [ok |-> FALSE, h |-> start] BY <1>1, <1>7
  <2>q. QED BY <1>3, <2>1 DEF r, MemKeeps
<1>8. CASE f.status # "unreadable"
  <2>1. r = [ok |-> TRUE, h |-> h2] BY <1>1, <1>8
  <2>q. QED BY <1>6, <2>1 DEF r, MemKeeps
<1>q. QED BY <1>7, <1>8

\* procps_meminfo_new gives a sound handle with one reference, or none.
LEMMA MemNewOk ==
  ASSUME NEW f, FileOk("mem", f)
  PROVE  MemNewKeeps(MemNew(f))
<1> DEFINE q == MemReadFile(BlankMem, f)
<1>1. MemKeeps(q, BlankMem) BY BlankMemOk, MemReadOk
<1> HIDE DEF q
<1>2. q.h.ref = 1 /\ q.h.secs = 0 BY <1>1 DEF BlankMem, MemKeeps
<1>3. MemUnref(q.h) = [ref |-> 0] BY <1>2 DEF MemUnref, NoMemInfo
<1>4. MemNew(f) = IF q.ok THEN q ELSE [ok |-> FALSE, h |-> MemUnref(q.h)] BY DEF MemNew, q
<1>5. MemOk(q.h) BY <1>1 DEF MemKeeps
<1>6. q.ok \in BOOLEAN BY <1>1 DEF MemKeeps
<1>7. CASE q.ok
  <2>1. MemNew(f) = q BY <1>4, <1>7
  <2>q. QED BY <1>2, <1>5, <1>6, <1>7, <2>1 DEF MemNewKeeps
<1>8. CASE ~ q.ok
  <2>1. MemNew(f) = [ok |-> FALSE, h |-> [ref |-> 0]] BY <1>3, <1>4, <1>8
  <2>q. QED BY <2>1 DEF MemNewKeeps
<1>q. QED BY <1>7, <1>8

\* procps_meminfo_get leaves it sound and remembers the second of its read.
LEMMA MemGetOk ==
  ASSUME NEW g, MemOk(g), NEW f, FileOk("mem", f), NEW item, NEW now \in Nat
  PROVE  MemGetKeeps(MemGet(g, f, item, now), g, now)
<1> DEFINE q == IF now - g.secs >= 1 THEN MemReadFile(g, f) ELSE [ok |-> TRUE, h |-> g]
           h2 == [q.h EXCEPT !.secs = now]
           r == MemGet(g, f, item, now)
<1>1. MemKeeps(q, g)
  <2>1. CASE now - g.secs >= 1 BY <2>1, MemReadOk
  <2>2. CASE ~(now - g.secs >= 1)
    <3>1. q = [ok |-> TRUE, h |-> g] BY <2>2
    <3> HIDE DEF q
    <3>q. QED BY <3>1 DEF MemKeeps
  <2>q. QED BY <2>1, <2>2
<1>2. /\ r.ok = (IF q.ok THEN TRUE ELSE FALSE)
      /\ r.h = IF ~q.ok THEN q.h ELSE IF now - g.secs >= 1 THEN h2 ELSE q.h
  BY DEF MemGet
<1> HIDE DEF q, r
<1>3. MemOk(h2) /\ h2.ref = q.h.ref /\ h2.secs = now BY <1>1 DEF MemOk, BlankMem, MemKeeps
<1> HIDE DEF h2
<1>q. QED BY <1>1, <1>2, <1>3 DEF r, MemKeeps, MemGetKeeps

\* procps_meminfo_select leaves it sound.
LEMMA MemSelectOk ==
  ASSUME NEW g, MemOk(g), NEW f, FileOk("mem", f), NEW items
  PROVE  MemKeeps(MemSelect(g, f, items), g)
<1> DEFINE e == MemStacksAlloc(g.ext, items)
           g1 == [g EXCEPT !.ext = MemStacksAlloc(@, items)]
           q == MemReadFile(g1, f)
           row == MemAssign(items, q.h.hist)
           h2 == [q.h EXCEPT !.row = row]
           r == MemSelect(g, f, items)
           ok == MemItemsOk(items)
<1>1. r = IF ~ok THEN [ok |-> FALSE, h |-> g] ELSE IF q.ok THEN [ok |-> TRUE, h |-> h2] ELSE q
  BY DEF MemSelect
<1>2. MemOk(g1) /\ g1.ref = g.ref /\ g1.secs = g.secs
  <2>1. g1 = [g EXCEPT !.ext = e] OBVIOUS
  <2> HIDE DEF e, g1
  <2>q. QED BY <2>1 DEF MemOk, BlankMem
<1> HIDE DEF g1
<1>3. MemKeeps(q, g1) BY <1>2, MemReadOk
<1> HIDE DEF q, row, r, ok
<1>4. MemOk(h2) /\ h2.ref = q.h.ref /\ h2.secs = q.h.secs BY <1>3 DEF MemOk, BlankMem, MemKeeps
<1> HIDE DEF h2
<1>5. CASE ~ok
  <2>1. r = [ok |-> FALSE, h |-> g] BY <1>1, <1>5
  <2>q. QED BY <2>1 DEF r, MemKeeps
<1>6. CASE ok /\ ~q.ok
  <2>1. r = q BY <1>1, <1>6
  <2>q. QED BY <1>2, <1>3, <2>1 DEF r, MemKeeps
<1>7. CASE ok /\ q.ok
  <2>1. r = [ok |-> TRUE, h |-> h2] BY <1>1, <1>7
  <2>q. QED BY <1>2, <1>3, <1>4, <2>1 DEF r, MemKeeps
<1>q. QED BY <1>5, <1>6, <1>7

VmOk(g) ==
  /\ DOMAIN g = DOMAIN BlankVm /\ g.ref \in Nat \ {0} /\ g.secs \in Nat
  /\ DOMAIN g.hist = {"new", "old"}

\* What calloc leaves of a handle of the vmstat library is sound.
LEMMA BlankVmOk == VmOk(BlankVm)
BY DEF VmOk, BlankVm

VmKeeps(r, g) == VmOk(r.h) /\ r.ok \in BOOLEAN /\ r.h.ref = g.ref /\ r.h.secs = g.secs
VmGetKeeps(r, g, now) ==
  /\ VmOk(r.h) /\ r.ok \in BOOLEAN /\ r.h.ref = g.ref
  /\ r.h.secs = IF r.ok /\ now - g.secs >= 1 THEN now ELSE g.secs
VmNewKeeps(r) ==
  /\ r.ok \in BOOLEAN
  /\ IF r.ok THEN VmOk(r.h) /\ r.h.ref = 1 /\ r.h.secs = 0 ELSE r.h = [ref |-> 0]

\* A read of /proc/vmstat leaves a sound handle sound.
LEMMA VmReadOk ==
  ASSUME NEW g, VmOk(g), NEW f, FileOk("vm", f)
  PROVE  VmKeeps(VmRead(g, f), g)
<1> DEFINE start == [g EXCEPT !.hist = [old |-> g.hist.new, new |-> NoVm]]
           m == VmHash(f.vals)
           h2 == [start EXCEPT !.hist.new = m, !.fd = TRUE]
           r == VmRead(g, f)
<1>1. r = IF f.status = "unreadable" THEN [ok |-> FALSE, h |-> start] ELSE [ok |-> TRUE, h |-> h2]
  BY DEF VmRead
<1> HIDE DEF m, r
<1>3. VmOk(start) /\ start.ref = g.ref /\ start.secs = g.secs BY DEF VmOk, BlankVm
<1> HIDE DEF start
<1> DEFINE both == [start.hist EXCEPT !.new = m]
<1>4. both.new = m /\ DOMAIN both = {"new", "old"} BY <1>3 DEF VmOk
<1>5. h2 = [start EXCEPT !.hist = both, !.fd = TRUE] OBVIOUS
<1> HIDE DEF both, h2
<1>6. VmOk(h2) /\ h2.ref = g.ref /\ h2.secs = g.secs BY <1>3, <1>4, <1>5 DEF VmOk, BlankVm
<1>7. CASE f.status = "unreadable"
  <2>1. r = [ok |-> FALSE, h |-> start] BY <1>1, <1>7
  <2>q. QED BY <1>3, <2>1 DEF r, VmKeeps
<1>8. CASE f.status # "unreadable"
  <2>1. r = [ok |-> TRUE, h |-> h2] BY <1>1, <1>8
  <2>q. QED BY <1>6, <2>1 DEF r, VmKeeps
<1>q. QED BY <1>7, <1>8

\* procps_vmstat_new gives a sound handle with one reference, or none.
LEMMA VmNewOk ==
  ASSUME NEW f, FileOk("vm", f)
  PROVE  VmNewKeeps(VmNew(f))
<1> DEFINE q == VmRead(BlankVm, f)
<1>1. VmKeeps(q, BlankVm) BY BlankVmOk, VmReadOk
<1> HIDE DEF q
<1>2. q.h.ref = 1 /\ q.h.secs = 0 BY <1>1 DEF BlankVm, VmKeeps
<1>3. VmUnref(q.h) = [ref |-> 0] BY <1>2 DEF VmUnref, NoVmInfo
<1>4. VmNew(f) = IF q.ok THEN q ELSE [ok |-> FALSE, h |-> VmUnref(q.h)] BY DEF VmNew, q
<1>5. VmOk(q.h) BY <1>1 DEF VmKeeps
<1>6. q.ok \in BOOLEAN BY <1>1 DEF VmKeeps
<1>7. CASE q.ok
  <2>1. VmNew(f) = q BY <1>4, <1>7
  <2>q. QED BY <1>2, <1>5, <1>6, <1>7, <2>1 DEF VmNewKeeps
<1>8. CASE ~ q.ok
  <2>1. VmNew(f) = [ok |-> FALSE, h |-> [ref |-> 0]] BY <1>3, <1>4, <1>8
  <2>q. QED BY <2>1 DEF VmNewKeeps
<1>q. QED BY <1>7, <1>8

\* procps_vmstat_get leaves it sound and remembers the second of its read.
LEMMA VmGetOk ==
  ASSUME NEW g, VmOk(g), NEW f, FileOk("vm", f), NEW item, NEW now \in Nat
  PROVE  VmGetKeeps(VmGet(g, f, item, now), g, now)
<1> DEFINE q == IF now - g.secs >= 1 THEN VmRead(g, f) ELSE [ok |-> TRUE, h |-> g]
           h2 == [q.h EXCEPT !.secs = now]
           r == VmGet(g, f, item, now)
<1>1. VmKeeps(q, g)
  <2>1. CASE now - g.secs >= 1 BY <2>1, VmReadOk
  <2>2. CASE ~(now - g.secs >= 1)
    <3>1. q = [ok |-> TRUE, h |-> g] BY <2>2
    <3> HIDE DEF q
    <3>q. QED BY <3>1 DEF VmKeeps
  <2>q. QED BY <2>1, <2>2
<1>2. /\ r.ok = (IF q.ok THEN TRUE ELSE FALSE)
      /\ r.h = IF ~q.ok THEN q.h ELSE IF now - g.secs >= 1 THEN h2 ELSE q.h
  BY DEF VmGet
<1> HIDE DEF q, r
<1>3. VmOk(h2) /\ h2.ref = q.h.ref /\ h2.secs = now BY <1>1 DEF VmOk, BlankVm, VmKeeps
<1> HIDE DEF h2
<1>q. QED BY <1>1, <1>2, <1>3 DEF r, VmKeeps, VmGetKeeps

\* procps_vmstat_select leaves it sound.
LEMMA VmSelectOk ==
  ASSUME NEW g, VmOk(g), NEW f, FileOk("vm", f), NEW items
  PROVE  VmKeeps(VmSelect(g, f, items), g)
<1> DEFINE e == VmStacksAlloc(g.ext, items)
           g1 == [g EXCEPT !.ext = VmStacksAlloc(@, items)]
           q == VmRead(g1, f)
           row == VmAssign(items, q.h.hist)
           h2 == [q.h EXCEPT !.row = row]
           r == VmSelect(g, f, items)
           ok == VmItemsOk(items)
<1>1. r = IF ~ok THEN [ok |-> FALSE, h |-> g] ELSE IF q.ok THEN [ok |-> TRUE, h |-> h2] ELSE q
  BY DEF VmSelect
<1>2. VmOk(g1) /\ g1.ref = g.ref /\ g1.secs = g.secs
  <2>1. g1 = [g EXCEPT !.ext = e] OBVIOUS
  <2> HIDE DEF e, g1
  <2>q. QED BY <2>1 DEF VmOk, BlankVm
<1> HIDE DEF g1
<1>3. VmKeeps(q, g1) BY <1>2, VmReadOk
<1> HIDE DEF q, row, r, ok
<1>4. VmOk(h2) /\ h2.ref = q.h.ref /\ h2.secs = q.h.secs BY <1>3 DEF VmOk, BlankVm, VmKeeps
<1> HIDE DEF h2
<1>5. CASE ~ok
  <2>1. r = [ok |-> FALSE, h |-> g] BY <1>1, <1>5
  <2>q. QED BY <2>1 DEF r, VmKeeps
<1>6. CASE ok /\ ~q.ok
  <2>1. r = q BY <1>1, <1>6
  <2>q. QED BY <1>2, <1>3, <2>1 DEF r, VmKeeps
<1>7. CASE ok /\ q.ok
  <2>1. r = [ok |-> TRUE, h |-> h2] BY <1>1, <1>7
  <2>q. QED BY <1>2, <1>3, <1>4, <2>1 DEF r, VmKeeps
<1>q. QED BY <1>5, <1>6, <1>7

-------------------------------------------------------------------------------
\* The devices of a list have different names.
NodesOk(ns) ==
  /\ IsSeq(ns)
  /\ \A k \in DOMAIN ns : /\ DOMAIN ns[k] = DOMAIN NoDev
                          /\ ns[k].stamp \in Int /\ ns[k].new \in Int /\ ns[k].old \in Int
  /\ \A i, j \in DOMAIN ns : ns[i].name = ns[j].name => i = j
Has(ns, d) == \E k \in DOMAIN ns : ns[k] = d

\* What is left when a device is taken out.
LEMMA RemoveFacts ==
  ASSUME NEW ns, NodesOk(ns), NEW k \in DOMAIN ns
  PROVE  /\ NodesOk(RemoveAt(ns, k))
         /\ \A d : Has(RemoveAt(ns, k), d) <=> Has(ns, d) /\ d.name # ns[k].name
<1> DEFINE S == {ns[i] : i \in DOMAIN ns}
           n == Len(ns)
           r == RemoveAt(ns, k)
           front == SubSeq(ns, 1, k - 1)
           back == SubSeq(ns, k + 1, n)
<1>1. ns \in Seq(S) /\ n \in Nat /\ DOMAIN ns = 1 .. n
  BY SeqFacts DEF NodesOk, IsSeq
<1> HIDE DEF S, n
<1>2. k \in 1 .. n BY <1>1
<1>3. /\ front \in Seq(S) /\ Len(front) = k - 1
      /\ \A i \in 1 .. k - 1 : front[i] = ns[i]
  <2>1. 1 \in 1 .. n + 1 /\ k - 1 \in 0 .. n BY <1>1, <1>2
  <2>q. QED BY <1>1, <1>2, <2>1, SubSeqProperties DEF n
<1>4. /\ back \in Seq(S) /\ Len(back) = n - k
      /\ \A i \in 1 .. n - k : back[i] = ns[k + i]
  <2>1. k + 1 \in 1 .. n + 1 /\ n \in k .. n BY <1>1, <1>2
  <2>q. QED BY <1>1, <1>2, <2>1, SubSeqProperties DEF n
<1>5. r = front \o back BY DEF RemoveAt, n
<1> HIDE DEF front, back, r
<1>6. /\ r \in Seq(S) /\ Len(r) = n - 1 /\ DOMAIN r = 1 .. n - 1
      /\ \A i \in 1 .. n - 1 : r[i] = IF i < k THEN ns[i] ELSE ns[i + 1]
  <2>1. r \in Seq(S) /\ Len(r) = n - 1
    <3>1. front \o back \in Seq(S) /\ Len(front \o back) = Len(front) + Len(back)
      BY <1>3, <1>4, ConcatProperties
    <3>2. (k - 1) + (n - k) = n - 1 BY <1>1, <1>2
    <3>q. QED BY <1>3, <1>4, <1>5, <3>1, <3>2
  <2>2. DOMAIN r = 1 .. n - 1 BY <2>1, LenProperties
  <2>3. ASSUME NEW i \in 1 .. n - 1 PROVE r[i] = IF i < k THEN ns[i] ELSE ns[i + 1]
    <3>1. CASE i < k
      <4>1. i \in 1 .. Len(front) BY <1>2, <1>3, <3>1
      <4>2. r[i] = front[i] BY <1>1, <1>2, <1>3, <1>4, <1>5, <3>1, <4>1, ConcatProperties
      <4>q. QED BY <1>2, <1>3, <3>1, <4>2
    <3>2. CASE ~(i < k)
      <4>1. r[i] = back[i - (k - 1)]
        BY <1>1, <1>2, <1>3, <1>4, <1>5, <3>2, ConcatProperties
      <4>2. i - (k - 1) \in 1 .. n - k /\ k + (i - (k - 1)) = i + 1 BY <1>1, <1>2, <3>2
      <4>q. QED BY <1>4, <3>2, <4>1, <4>2
    <3>q. QED BY <3>1, <3>2
  <2>q. QED BY <2>1, <2>2, <2>3
<1>7. NodesOk(r)
  <2> DEFINE at(i) == IF i < k THEN i ELSE i + 1
  <2>1. \A i \in DOMAIN r : at(i) \in DOMAIN ns /\ r[i] = ns[at(i)] BY <1>1, <1>2, <1>6
  <2>2. \A i, j \in DOMAIN r : at(i) = at(j) => i = j BY <1>2, <1>6
  <2>3. IsSeq(r) BY <1>1, <1>6, SeqMade
  <2> HIDE DEF at
  <2>q. QED BY <2>1, <2>2, <2>3 DEF NodesOk
<1>8. \A d : Has(r, d) <=> Has(ns, d) /\ d.name # ns[k].name
  <2> SUFFICES ASSUME NEW d PROVE Has(r, d) <=> Has(ns, d) /\ d.name # ns[k].name OBVIOUS
  <2>1. ASSUME Has(r, d) PROVE Has(ns, d) /\ d.name # ns[k].name
    <3>1. PICK i \in DOMAIN r : r[i] = d BY <2>1 DEF Has
    <3> DEFINE j == IF i < k THEN i ELSE i + 1
    <3>2. j \in DOMAIN ns /\ ns[j] = d /\ j # k BY <1>1, <1>2, <1>6, <3>1
    <3> HIDE DEF j
    <3>q. QED BY <3>2 DEF Has, NodesOk
  <2>2. ASSUME Has(ns, d), d.name # ns[k].name PROVE Has(r, d)
    <3>1. PICK j \in DOMAIN ns : ns[j] = d BY <2>2 DEF Has
    <3>2. j # k BY <2>2, <3>1
    <3> DEFINE i == IF j < k THEN j ELSE j - 1
    <3>3. i \in 1 .. n - 1 /\ r[i] = ns[j] BY <1>1, <1>2, <1>6, <3>2
    <3>q. QED BY <1>6, <3>1, <3>3 DEF Has
  <2>q. QED BY <2>1, <2>2
<1>q. QED BY <1>7, <1>8 DEF r

\* What there is when one more is appended.
LEMMA AppendFacts ==
  ASSUME NEW ns, NodesOk(ns), NEW d, DOMAIN d = DOMAIN NoDev,
         d.stamp \in Int, d.new \in Int, d.old \in Int, \A x : Has(ns, x) => x.name # d.name
  PROVE  /\ NodesOk(Append(ns, d))
         /\ \A x : Has(Append(ns, d), x) <=> Has(ns, x) \/ x = d
<1> DEFINE S == {ns[i] : i \in DOMAIN ns} \cup {d}
           n == Len(ns)
           r == Append(ns, d)
<1>1. n \in Nat /\ DOMAIN ns = 1 .. n BY SeqFacts DEF NodesOk
<1>2. ns \in Seq(S)
  <2>1. {ns[i] : i \in DOMAIN ns} \subseteq S OBVIOUS
  <2> HIDE DEF S
  <2>q. QED BY <2>1, SeqMonotonic DEF NodesOk, IsSeq
<1>3. d \in S OBVIOUS
<1> HIDE DEF S
<1>4. /\ r \in Seq(S) /\ Len(r) = n + 1 /\ r[n + 1] = d /\ \A i \in 1 .. n : r[i] = ns[i]
  BY <1>2, <1>3, AppendProperties
<1> HIDE DEF n, r
<1>5. DOMAIN r = 1 .. n + 1 BY <1>4, LenProperties
<1>6. IsSeq(r) BY <1>1, <1>4, <1>5, SeqMade
<1>7. \A x : Has(r, x) <=> Has(ns, x) \/ x = d
  <2> SUFFICES ASSUME NEW x PROVE Has(r, x) <=> Has(ns, x) \/ x = d OBVIOUS
  <2>1. ASSUME Has(r, x) PROVE Has(ns, x) \/ x = d
    <3>1. PICK i \in 1 .. n + 1 : r[i] = x BY <1>5, <2>1 DEF Has
    <3>2. CASE i = n + 1 BY <1>4, <3>1, <3>2
    <3>3. CASE i # n + 1
      <4>1. i \in 1 .. n BY <1>1, <3>3
      <4>q. QED BY <1>1, <1>4, <3>1, <4>1 DEF Has
    <3>q. QED BY <3>2, <3>3
  <2>2. ASSUME Has(ns, x) PROVE Has(r, x)
    <3>1. PICK i \in 1 .. n : ns[i] = x BY <1>1, <2>2 DEF Has
    <3>2. i \in DOMAIN r /\ r[i] = x BY <1>1, <1>4, <1>5, <3>1
    <3>q. QED BY <3>2 DEF Has
  <2>3. Has(r, d)
    <3>1. n + 1 \in DOMAIN r BY <1>1, <1>5
    <3>q. QED BY <1>4, <3>1 DEF Has
  <2>q. QED BY <2>1, <2>2, <2>3
<1>8. NodesOk(r)
  <2>1. ASSUME NEW i \in DOMAIN r
        PROVE  /\ DOMAIN r[i] = DOMAIN NoDev
               /\ r[i].stamp \in Int /\ r[i].new \in Int /\ r[i].old \in Int
    <3>1. CASE i = n + 1 BY <1>4, <3>1
    <3>2. CASE i # n + 1
      <4>1. i \in 1 .. n BY <1>1, <1>5, <3>2
      <4>2. r[i] = ns[i] /\ i \in DOMAIN ns BY <1>1, <1>4, <4>1
      <4>q. QED BY <4>2 DEF NodesOk
    <3>q. QED BY <3>1, <3>2
  <2>2. ASSUME NEW i \in DOMAIN r, NEW j \in DOMAIN r, r[i].name = r[j].name PROVE i = j
    <3>1. \A m \in DOMAIN ns : ns[m].name # d.name BY DEF Has
    <3>2. \A m \in DOMAIN r : m # n + 1 => m \in DOMAIN ns /\ r[m] = ns[m] BY <1>1, <1>4, <1>5
    <3>3. CASE i = n + 1 BY <1>4, <2>2, <3>1, <3>2, <3>3
    <3>4. CASE j = n + 1 BY <1>4, <2>2, <3>1, <3>2, <3>4
    <3>5. CASE i # n + 1 /\ j # n + 1
      <4>1. i \in DOMAIN ns /\ j \in DOMAIN ns /\ ns[i].name = ns[j].name BY <2>2, <3>2, <3>5
      <4>q. QED BY <4>1 DEF NodesOk
    <3>q. QED BY <3>3, <3>4, <3>5
  <2>q. QED BY <1>6, <2>1, <2>2 DEF NodesOk
<1>q. QED BY <1>7, <1>8 DEF r

\* What there is when a device's record is replaced by one of the same name.
LEMMA ReplaceFacts ==
  ASSUME NEW ns, NodesOk(ns), NEW k \in DOMAIN ns, NEW d, DOMAIN d = DOMAIN NoDev,
         d.stamp \in Int, d.new \in Int, d.old \in Int, d.name = ns[k].name
  PROVE  /\ NodesOk([ns EXCEPT ![k] = d])
         /\ \A x : Has([ns EXCEPT ![k] = d], x)
                     <=> (Has(ns, x) /\ x.name # d.name) \/ x = d
<1> DEFINE r == [ns EXCEPT ![k] = d]
<1>1. DOMAIN r = DOMAIN ns /\ \A i \in DOMAIN ns : r[i] = IF i = k THEN d ELSE ns[i] OBVIOUS
<1>2. IsSeq(r)
  <2>1. Len(ns) \in Nat /\ DOMAIN ns = 1 .. Len(ns) BY SeqFacts DEF NodesOk
  <2>2. r = [i \in 1 .. Len(ns) |-> r[i]] BY <1>1, <2>1
  <2> HIDE DEF r
  <2>q. QED BY <2>1, <2>2, SeqMade
<1> HIDE DEF r
<1>3. \A i \in DOMAIN ns : i # k => ns[i].name # d.name BY DEF NodesOk
<1>4. NodesOk(r)
  <2>1. ASSUME NEW i \in DOMAIN r
        PROVE  /\ DOMAIN r[i] = DOMAIN NoDev
               /\ r[i].stamp \in Int /\ r[i].new \in Int /\ r[i].old \in Int
    BY <1>1 DEF NodesOk
  <2>2. ASSUME NEW i \in DOMAIN r, NEW j \in DOMAIN r, r[i].name = r[j].name PROVE i = j
    <3>1. CASE i = k BY <1>1, <1>3, <2>2, <3>1
    <3>2. CASE j = k BY <1>1, <1>3, <2>2, <3>2
    <3>3. CASE i # k /\ j # k BY <1>1, <2>2, <3>3 DEF NodesOk
    <3>q. QED BY <3>1, <3>2, <3>3
  <2>q. QED BY <1>2, <2>1, <2>2 DEF NodesOk
<1>5. \A x : Has(r, x) <=> (Has(ns, x) /\ x.name # d.name) \/ x = d
  <2> SUFFICES ASSUME NEW x PROVE Has(r, x) <=> (Has(ns, x) /\ x.name # d.name) \/ x = d OBVIOUS
  <2>1. ASSUME Has(r, x) PROVE (Has(ns, x) /\ x.name # d.name) \/ x = d
    BY <1>1, <1>3, <2>1 DEF Has
  <2>2. ASSUME Has(ns, x), x.name # d.name PROVE Has(r, x)
    BY <1>1, <2>2 DEF Has
  <2>3. Has(r, d) BY <1>1 DEF Has
  <2>q. QED BY <2>1, <2>2, <2>3
<1>q. QED BY <1>4, <1>5 DEF r

\* A list of devices with its stamps; and what a call may do to the list alone.
DiskShape(g) ==
  DOMAIN g = DOMAIN BlankDisk /\ NodesOk(g.nodes) /\ g.oldStamp \in Int /\ g.newStamp \in Int
OnlyNodes(x, g) == DiskShape(x) /\ Same(x, g, DOMAIN BlankDisk \ {"nodes"})
Fresh(g, d) == d.stamp \in {g.oldStamp, g.newStamp}

\* Other nodes leave the rest of a diskstats handle as it is.
LEMMA NodesShape ==
  ASSUME NEW g, DiskShape(g), NEW ns, NodesOk(ns)
  PROVE  OnlyNodes([g EXCEPT !.nodes = ns], g) /\ [g EXCEPT !.nodes = ns].nodes = ns
<1> DEFINE x == [g EXCEPT !.nodes = ns]
<1>1. DOMAIN x = DOMAIN g /\ x.nodes = ns /\ x.oldStamp = g.oldStamp /\ x.newStamp = g.newStamp
  BY DEF DiskShape, BlankDisk
<1>2. Same(x, g, DOMAIN BlankDisk \ {"nodes"}) BY DEF Same, DiskShape
<1> HIDE DEF x
<1>q. QED BY <1>1, <1>2 DEF x, OnlyNodes, DiskShape

\* Whether a device is found: one that is stale is not, and is dropped.
Got(r, g, name) ==
  /\ OnlyNodes(r.h, g)
  /\ r.at = 0 =>
       /\ \A d : Has(r.h.nodes, d) <=> Has(g.nodes, d) /\ d.name # name
       /\ \A d : Has(g.nodes, d) /\ d.name = name => ~ Fresh(g, d)
  /\ r.at # 0 =>
       /\ r.h = g /\ r.at \in DOMAIN g.nodes
       /\ g.nodes[r.at].name = name /\ Fresh(g, g.nodes[r.at])

\* node_get finds the node of a device that is not stale, and drops a stale one.
LEMMA NodeGetFacts ==
  ASSUME NEW g, DiskShape(g), NEW name
  PROVE  Got(NodeGet(g, name), g, name)
<1> DEFINE M == Matches(g, name)
           k == Min(M)
           ns == RemoveAt(g.nodes, k)
           r == NodeGet(g, name)
<1>0. OnlyNodes(g, g) BY DEF OnlyNodes, Same
<1>1. CASE M = {}
  <2>1. r = [h |-> g, at |-> 0] BY <1>1 DEF NodeGet
  <2>2. \A d : Has(g.nodes, d) => d.name # name BY <1>1 DEF Matches, Has
  <2> HIDE DEF r, M
  <2>q. QED BY <1>0, <2>1, <2>2 DEF Got, r
<1>2. CASE M # {}
  <2>1. PICK m \in DOMAIN g.nodes : g.nodes[m].name = name BY <1>2 DEF Matches
  <2>2. M = {m} BY <2>1 DEF Matches, DiskShape, NodesOk
  <2>3. m \in Nat \ {0}
    <3>1. DOMAIN g.nodes = 1 .. Len(g.nodes) /\ Len(g.nodes) \in Nat
      BY SeqFacts DEF DiskShape, NodesOk
    <3>q. QED BY <2>1, <3>1
  <2>4. k = m BY <2>2, <2>3 DEF Min
  <2>5. r = IF g.nodes[k].stamp \notin {g.oldStamp, g.newStamp}
            THEN [h |-> NodeCut(g, k), at |-> 0] ELSE [h |-> g, at |-> k]
    BY <1>2 DEF NodeGet
  <2>6. \A d : Has(g.nodes, d) /\ d.name = name => d = g.nodes[m]
    BY <2>1 DEF Has, DiskShape, NodesOk
  <2> HIDE DEF r, M, k
  <2>7. CASE Fresh(g, g.nodes[m])
    <3>1. r = [h |-> g, at |-> m] BY <2>4, <2>5, <2>7 DEF Fresh
    <3>q. QED BY <1>0, <2>1, <2>3, <2>7, <3>1 DEF Got, r
  <2>8. CASE ~ Fresh(g, g.nodes[m])
    <3>1. r = [h |-> [g EXCEPT !.nodes = ns], at |-> 0] BY <2>4, <2>5, <2>8 DEF Fresh, NodeCut
    <3>2. /\ NodesOk(ns)
          /\ \A d : Has(ns, d) <=> Has(g.nodes, d) /\ d.name # name
      BY <2>1, <2>4, RemoveFacts DEF DiskShape
    <3> HIDE DEF ns
    <3>3. OnlyNodes(r.h, g) /\ r.h.nodes = ns /\ r.at = 0 BY <3>1, <3>2, NodesShape
    <3>q. QED BY <2>6, <2>8, <3>2, <3>3 DEF Got, r
  <2>q. QED BY <2>7, <2>8
<1>q. QED BY <1>1, <1>2

\* The device of a line, after it: it goes on from its last sample when it is fresh.
Sampled(g, line, d) ==
  /\ d.name = line.name /\ d.stamp = g.newStamp /\ d.new = line.val
  /\ \A y : Has(g.nodes, y) /\ y.name = line.name /\ Fresh(g, y) => d.old = y.new
  /\ (\A y : Has(g.nodes, y) /\ y.name = line.name => ~ Fresh(g, y)) => d.old = line.val
Updated(x, g, line) ==
  /\ OnlyNodes(x, g)
  /\ \A d : d.name # line.name => (Has(x.nodes, d) <=> Has(g.nodes, d))
  /\ \E d : Has(x.nodes, d) /\ Sampled(g, line, d)

\* node_update takes one line over into its device's node and no other.
LEMMA NodeUpdateFacts ==
  ASSUME NEW g, DiskShape(g), NEW line, line.val \in Int, NEW f
  PROVE  Updated(NodeUpdate(g, line, f), g, line)
<1> DEFINE q == NodeGet(g, line.name)
           type == NodeClassify(line.name, f)
           nd == [name |-> line.name, stamp |-> g.newStamp, new |-> line.val, type |-> type,
                  old |-> line.val]
           known == [nd EXCEPT !.type = q.h.nodes[q.at].type, !.old = q.h.nodes[q.at].new]
           x == NodeUpdate(g, line, f)
<1>1. Got(q, g, line.name) BY NodeGetFacts
<1>2. x = IF q.at = 0 THEN NodeAdd(q.h, nd) ELSE [q.h EXCEPT !.nodes[q.at] = known]
  BY DEF NodeUpdate
<1> HIDE DEF q, type, x
<1>3. /\ DOMAIN nd = DOMAIN NoDev /\ nd.name = line.name /\ nd.stamp = g.newStamp
      /\ nd.new = line.val /\ nd.old = line.val /\ nd.stamp \in Int /\ nd.new \in Int
  BY DEF DiskShape, NoDev
<1>4. CASE q.at = 0
  <2> DEFINE ns == Append(q.h.nodes, nd)
  <2> HIDE DEF nd
  <2>1. x = [q.h EXCEPT !.nodes = ns] BY <1>2, <1>4 DEF NodeAdd
  <2>2. DiskShape(q.h) /\ Same(q.h, g, DOMAIN BlankDisk \ {"nodes"}) BY <1>1 DEF Got, OnlyNodes
  <2>3. \A d : Has(q.h.nodes, d) <=> Has(g.nodes, d) /\ d.name # line.name BY <1>1, <1>4 DEF Got
  <2>4. NodesOk(ns) /\ \A d : Has(ns, d) <=> Has(q.h.nodes, d) \/ d = nd
    BY <1>3, <2>2, <2>3, AppendFacts DEF DiskShape
  <2> HIDE DEF ns
  <2>5. OnlyNodes(x, q.h) /\ x.nodes = ns BY <2>1, <2>2, <2>4, NodesShape
  <2>6. OnlyNodes(x, g) BY <2>2, <2>5 DEF OnlyNodes, Same
  <2>7. \A y : Has(g.nodes, y) /\ y.name = line.name => ~ Fresh(g, y) BY <1>1, <1>4 DEF Got
  <2>8. Sampled(g, line, nd) BY <1>3, <2>7 DEF Sampled
  <2>q. QED BY <1>3, <2>3, <2>4, <2>5, <2>6, <2>8 DEF Updated, x
<1>5. CASE q.at # 0
  <2> DEFINE k == q.at
             ns == [g.nodes EXCEPT ![k] = known]
  <2>1. q.h = g /\ k \in DOMAIN g.nodes /\ g.nodes[k].name = line.name /\ Fresh(g, g.nodes[k])
    BY <1>1, <1>5 DEF Got
  <2>2. /\ DOMAIN known = DOMAIN NoDev /\ known.name = line.name /\ known.stamp = g.newStamp
        /\ known.new = line.val /\ known.old = g.nodes[k].new
        /\ known.stamp \in Int /\ known.new \in Int /\ known.old \in Int
    <3> DEFINE t == g.nodes[k].type
               o == g.nodes[k].new
    <3>1. known = [nd EXCEPT !.type = t, !.old = o] BY <2>1
    <3>2. o \in Int BY <2>1 DEF DiskShape, NodesOk
    <3> HIDE DEF t, known
    <3>3. known = [name |-> line.name, stamp |-> g.newStamp, new |-> line.val, type |-> t,
                   old |-> o]
      BY <3>1
    <3> HIDE DEF nd, o
    <3>q. QED BY <3>2, <3>3 DEF DiskShape, NoDev, o
  <2>3. x = [g EXCEPT !.nodes = ns] BY <1>2, <1>5, <2>1
  <2> HIDE DEF known
  <2>4. NodesOk(ns) /\ \A d : Has(ns, d) <=> (Has(g.nodes, d) /\ d.name # line.name) \/ d = known
    BY <2>1, <2>2, ReplaceFacts DEF DiskShape
  <2> HIDE DEF ns
  <2>5. OnlyNodes(x, g) /\ x.nodes = ns BY <2>3, <2>4, NodesShape
  <2>6. \A y : Has(g.nodes, y) /\ y.name = line.name => y = g.nodes[k]
    BY <2>1 DEF Has, DiskShape, NodesOk
  <2>7. Has(g.nodes, g.nodes[k]) BY <2>1 DEF Has
  <2>8. Sampled(g, line, known) BY <2>1, <2>2, <2>6, <2>7 DEF Sampled
  <2>q. QED BY <2>2, <2>4, <2>5, <2>8 DEF Updated, x
<1>q. QED BY <1>4, <1>5

\* The steps of a read are a function.
Takes(g, f, n, taken) ==
  taken = [i \in 0 .. n |-> IF i = 0 THEN g ELSE NodeUpdate(taken[i - 1], f.lines[i], f)]

\* The lines taken one after the other are a function.
LEMMA TakesExist ==
  ASSUME NEW g, NEW f, NEW n \in Nat
  PROVE  \E taken : Takes(g, f, n, taken)
<1> DEFINE Bad == {m \in Nat : ~ \E taken : Takes(g, f, m, taken)}
<1> SUFFICES ASSUME Bad # {} PROVE FALSE OBVIOUS
<1>1. PICK m \in Bad : \A k \in Bad : m <= k
  <2>1. Bad \in SUBSET Nat OBVIOUS
  <2> HIDE DEF Bad
  <2>q. QED BY <2>1, LeastNat
<1>2. CASE m = 0
  <2> DEFINE taken == [i \in 0 .. 0 |-> g]
  <2>1. Takes(g, f, 0, taken) BY DEF Takes
  <2>q. QED BY <1>1, <1>2, <2>1
<1>3. CASE m # 0
  <2>1. m - 1 \in Nat /\ m - 1 \notin Bad BY <1>1, <1>3
  <2>2. PICK part : Takes(g, f, m - 1, part) BY <2>1
  <2> DEFINE taken == [i \in 0 .. m |-> IF i = m THEN NodeUpdate(part[m - 1], f.lines[m], f)
                                         ELSE part[i]]
  <2>3. \A i \in 0 .. m : taken[i] = IF i = 0 THEN g ELSE NodeUpdate(taken[i - 1], f.lines[i], f)
    <3> SUFFICES ASSUME NEW i \in 0 .. m
                 PROVE  taken[i] = IF i = 0 THEN g ELSE NodeUpdate(taken[i - 1], f.lines[i], f)
      OBVIOUS
    <3>1. CASE i = m
      <4>1. i - 1 \in 0 .. m /\ i - 1 # m BY <1>1, <1>3, <3>1
      <4>2. taken[i - 1] = part[i - 1] BY <4>1
      <4>q. QED BY <1>3, <3>1, <4>2
    <3>2. CASE i # m
      <4>1. i \in 0 .. m - 1 BY <1>1, <3>2
      <4>2. part[i] = IF i = 0 THEN g ELSE NodeUpdate(part[i - 1], f.lines[i], f)
        BY <2>2, <4>1 DEF Takes
      <4>3. i # 0 => i - 1 \in 0 .. m /\ i - 1 # m BY <4>1
      <4>q. QED BY <3>2, <4>2, <4>3
    <3>q. QED BY <3>1, <3>2
  <2>4. Takes(g, f, m, taken) BY <2>3 DEF Takes
  <2>q. QED BY <1>1, <2>4
<1>q. QED BY <1>2, <1>3

\* After i lines: the devices that none of them names are as they were, and of each
\* line there is a device that goes on from where the read found it.
Taken(x, g, f, i) ==
  /\ OnlyNodes(x, g)
  /\ \A d : (\A j \in 1 .. i : f.lines[j].name # d.name) => (Has(x.nodes, d) <=> Has(g.nodes, d))
  /\ \A j \in 1 .. i : \E d : Has(x.nodes, d) /\ Sampled(g, f.lines[j], d)

\* A line more is taken, and those before it stay taken.
LEMMA TakenStep ==
  ASSUME NEW f, FileOk("disk", f), NEW x, NEW g, NEW i \in Nat, i + 1 \in DOMAIN f.lines,
         Taken(x, g, f, i)
  PROVE  Taken(NodeUpdate(x, f.lines[i + 1], f), g, f, i + 1)
<1> DEFINE line == f.lines[i + 1]
           y == NodeUpdate(x, line, f)
<1>1. OnlyNodes(x, g) /\ DiskShape(x) BY DEF Taken, OnlyNodes
<1>2. Updated(y, x, line)
  <2>1. line.val \in Int BY DEF FileOk
  <2>q. QED BY <1>1, <2>1, NodeUpdateFacts
<1> HIDE DEF y
<1>3. OnlyNodes(y, g) BY <1>1, <1>2 DEF Updated, OnlyNodes, Same
<1>4. \A j \in 1 .. i : f.lines[j].name # line.name
  <2>1. \A j \in 1 .. i : j \in DOMAIN f.lines /\ j # i + 1
    <3>1. DOMAIN f.lines = 1 .. Len(f.lines) /\ Len(f.lines) \in Nat BY SeqFacts DEF FileOk
    <3>q. QED BY <3>1
  <2>q. QED BY <2>1 DEF FileOk
<1>5. \A d : d.name = line.name => (Has(x.nodes, d) <=> Has(g.nodes, d))
  <2> SUFFICES ASSUME NEW d, d.name = line.name PROVE Has(x.nodes, d) <=> Has(g.nodes, d) OBVIOUS
  <2>1. \A j \in 1 .. i : f.lines[j].name # d.name BY <1>4
  <2> HIDE DEF line
  <2>q. QED BY <2>1 DEF Taken
<1>6. x.oldStamp = g.oldStamp /\ x.newStamp = g.newStamp BY <1>1 DEF OnlyNodes, Same, BlankDisk
<1>7. \A d : Sampled(x, line, d) => Sampled(g, line, d)
  <2> HIDE DEF line
  <2>1. \A d : Fresh(x, d) <=> Fresh(g, d) BY <1>6 DEF Fresh
  <2>q. QED BY <1>5, <1>6, <2>1 DEF Sampled
<1>8. ASSUME NEW d, \A j \in 1 .. i + 1 : f.lines[j].name # d.name
      PROVE  Has(y.nodes, d) <=> Has(g.nodes, d)
  <2>1. d.name # line.name BY <1>8
  <2>2. \A j \in 1 .. i : f.lines[j].name # d.name BY <1>8
  <2>3. Has(y.nodes, d) <=> Has(x.nodes, d) BY <1>2, <2>1 DEF Updated
  <2>4. Has(x.nodes, d) <=> Has(g.nodes, d) BY <2>2 DEF Taken
  <2>q. QED BY <2>3, <2>4
<1>9. ASSUME NEW j \in 1 .. i + 1
      PROVE  \E d : Has(y.nodes, d) /\ Sampled(g, f.lines[j], d)
  <2>1. CASE j = i + 1
    <3>1. PICK d : Has(y.nodes, d) /\ Sampled(x, line, d) BY <1>2 DEF Updated
    <3>q. QED BY <1>7, <2>1, <3>1
  <2>2. CASE j # i + 1
    <3>1. j \in 1 .. i BY <2>2
    <3>2. PICK d : Has(x.nodes, d) /\ Sampled(g, f.lines[j], d) BY <3>1 DEF Taken
    <3>3. d.name # line.name BY <1>4, <3>1, <3>2 DEF Sampled
    <3>4. Has(y.nodes, d) BY <1>2, <3>2, <3>3 DEF Updated
    <3>q. QED BY <3>2, <3>4
  <2>q. QED BY <2>1, <2>2
<1>q. QED BY <1>3, <1>8, <1>9 DEF Taken, y

\* So after n lines the nodes are those of the n lines and the old ones.
LEMMA AllTaken ==
  ASSUME NEW f, FileOk("disk", f), NEW g, DiskShape(g), NEW n \in Nat, n = Len(f.lines),
         NEW taken, Takes(g, f, n, taken)
  PROVE  \A i \in 0 .. n : Taken(taken[i], g, f, i)
<1> DEFINE Bad == {i \in 0 .. n : ~ Taken(taken[i], g, f, i)}
<1> SUFFICES ASSUME Bad # {} PROVE FALSE OBVIOUS
<1>1. PICK m \in Bad : \A k \in Bad : m <= k
  <2>1. Bad \in SUBSET Nat OBVIOUS
  <2> HIDE DEF Bad
  <2>q. QED BY <2>1, LeastNat
<1>2. CASE m = 0
  <2>1. taken[0] = g BY DEF Takes
  <2>2. Taken(g, g, f, 0) BY DEF Taken, OnlyNodes, Same
  <2>q. QED BY <1>1, <1>2, <2>1, <2>2
<1>3. CASE m # 0
  <2>1. m - 1 \in 0 .. n /\ m - 1 \notin Bad /\ m - 1 \in Nat /\ (m - 1) + 1 = m BY <1>1, <1>3
  <2>2. Taken(taken[m - 1], g, f, m - 1) BY <2>1
  <2>3. taken[m] = NodeUpdate(taken[m - 1], f.lines[m], f) BY <1>1, <1>3 DEF Takes
  <2>4. m \in DOMAIN f.lines
    <3>1. DOMAIN f.lines = 1 .. n BY SeqFacts DEF FileOk
    <3>q. QED BY <1>1, <1>3, <3>1
  <2>5. Taken(NodeUpdate(taken[m - 1], f.lines[(m - 1) + 1], f), g, f, (m - 1) + 1)
    BY <2>1, <2>2, <2>4, TakenStep
  <2>q. QED BY <1>1, <2>1, <2>3, <2>5
<1>q. QED BY <1>2, <1>3

\* The stamps of a read that begins.
Begun(g, now) == [g EXCEPT !.oldStamp = g.newStamp, !.newStamp = now]
DiskReadDone(r, g, f, now) ==
  IF f.status = "unreadable" THEN r = [ok |-> FALSE, h |-> g]
  ELSE r.ok = (f.status = "fine") /\ Taken(r.h, Begun(g, now), f, Len(f.lines))

\* A read begins by moving the handle's stamps on, and nothing else.
LEMMA BegunShape ==
  ASSUME NEW g, DiskShape(g), NEW now \in Int
  PROVE  /\ DiskShape(Begun(g, now)) /\ Begun(g, now).nodes = g.nodes
         /\ Begun(g, now).oldStamp = g.newStamp /\ Begun(g, now).newStamp = now
         /\ Same(Begun(g, now), g, DOMAIN BlankDisk \ {"oldStamp", "newStamp"})
<1> DEFINE x == Begun(g, now)
<1>1. /\ DOMAIN x = DOMAIN g /\ x.nodes = g.nodes /\ x.oldStamp = g.newStamp /\ x.newStamp = now
  BY DEF Begun, DiskShape, BlankDisk
<1>2. Same(x, g, DOMAIN BlankDisk \ {"oldStamp", "newStamp"})
  <2> SUFFICES ASSUME NEW z \in DOMAIN BlankDisk \ {"oldStamp", "newStamp"} PROVE x[z] = g[z]
    BY DEF Same
  <2>q. QED BY DEF Begun, DiskShape
<1> HIDE DEF x
<1>q. QED BY <1>1, <1>2 DEF DiskShape, x

\* What a read of /proc/diskstats does to the nodes of a handle.
LEMMA DiskReadFacts ==
  ASSUME NEW g, DiskShape(g), NEW f, FileOk("disk", f), NEW now \in Int
  PROVE  DiskReadDone(DiskRead(g, f, now), g, f, now)
<1> DEFINE n == Len(f.lines)
           start == Begun(g, now)
           taken == CHOOSE taken : Takes(start, f, n, taken)
           r == DiskRead(g, f, now)
<1>1. CASE f.status = "unreadable"
  <2>1. r = [ok |-> FALSE, h |-> g] BY <1>1 DEF DiskRead
  <2>q. QED BY <1>1, <2>1 DEF DiskReadDone
<1>2. CASE f.status # "unreadable"
  <2>1. r = [ok |-> f.status = "fine", h |-> taken[n]]
    BY <1>2, Zenon DEF DiskRead, Takes, Begun
  <2>2. DiskShape(start) BY BegunShape
  <2>3. n \in Nat BY SeqFacts DEF FileOk
  <2> HIDE DEF start
  <2>4. Takes(start, f, n, taken) BY <2>3, TakesExist
  <2> HIDE DEF taken
  <2>5. n \in 0 .. n BY <2>3
  <2>6. Taken(taken[n], start, f, n) BY <2>2, <2>3, <2>4, <2>5, AllTaken
  <2> HIDE DEF n, r
  <2>7. r.ok = (f.status = "fine") /\ r.h = taken[n] BY <2>1
  <2>q. QED BY <1>2, <2>6, <2>7 DEF DiskReadDone, r, start, n
<1>q. QED BY <1>1, <1>2

\* A handle of diskstats; and one that has lost stale devices at most.
DiskOk(g) == DiskShape(g) /\ g.ref \in Nat \ {0} /\ Stacked(g.ext, g.fetch)
Less(x, g) ==
  /\ x.newStamp = g.newStamp
  /\ \A d : Has(x.nodes, d) => Has(g.nodes, d)
  /\ \A d : Has(g.nodes, d) /\ d.stamp = g.newStamp => Has(x.nodes, d)

\* The line of the device d is line.
Goes(g, now, line, d) ==
  /\ d.name = line.name /\ d.stamp = now /\ d.new = line.val
  /\ \A y : Has(g.nodes, y) /\ y.name = line.name /\ y.stamp \in {g.newStamp, now} => d.old = y.new
  /\ (\A y : Has(g.nodes, y) /\ y.name = line.name => y.stamp \notin {g.newStamp, now})
       => d.old = line.val

\* What a read of f leaves of the devices of g.
AfterRead(x, g, f, now) ==
  IF f.status = "unreadable" THEN Less(x, g)
  ELSE /\ x.newStamp = now
       /\ \A d : Has(x.nodes, d) =>
            IF \E j \in DOMAIN f.lines : f.lines[j].name = d.name THEN d.stamp = now
            ELSE Has(g.nodes, d)
       /\ \A j \in DOMAIN f.lines : \E d : Has(x.nodes, d) /\ Goes(g, now, f.lines[j], d)

\* What calloc leaves of a handle of the diskstats library is sound.
LEMMA BlankDiskOk == DiskOk(BlankDisk)
<1>1. IsSeq(<<>>) BY DEF IsSeq
<1>2. NodesOk(<<>>) BY <1>1 DEF NodesOk
<1>q. QED BY <1>2 DEF DiskOk, DiskShape, BlankDisk, NoExt, NoFetch, Stacked, FetchFits

\* After a read every node that is not of this read is one that was there before.
LEMMA ReadAfter ==
  ASSUME NEW g, DiskShape(g), NEW f, FileOk("disk", f), NEW now \in Int, NEW r,
         DiskReadDone(r, g, f, now)
  PROVE  AfterRead(r.h, g, f, now)
<1>1. CASE f.status = "unreadable" BY <1>1 DEF DiskReadDone, AfterRead, Less
<1>2. CASE f.status # "unreadable"
  <2> DEFINE b == Begun(g, now)
             n == Len(f.lines)
  <2>1. b.nodes = g.nodes /\ b.oldStamp = g.newStamp /\ b.newStamp = now BY BegunShape
  <2> HIDE DEF b
  <2>2. Taken(r.h, b, f, n) BY <1>2 DEF DiskReadDone, b
  <2>3. DOMAIN f.lines = 1 .. n BY SeqFacts DEF FileOk
  <2> HIDE DEF n
  <2>4. r.h.newStamp = now /\ NodesOk(r.h.nodes)
    BY <2>1, <2>2 DEF Taken, OnlyNodes, Same, BlankDisk, DiskShape
  <2>5. \A d : Fresh(b, d) <=> d.stamp \in {g.newStamp, now} BY <2>1 DEF Fresh
  <2>6. ASSUME NEW j \in DOMAIN f.lines
        PROVE  \E d : Has(r.h.nodes, d) /\ Goes(g, now, f.lines[j], d)
    <3>1. PICK d : Has(r.h.nodes, d) /\ Sampled(b, f.lines[j], d) BY <2>2, <2>3 DEF Taken
    <3>2. Goes(g, now, f.lines[j], d) BY <2>1, <2>5, <3>1 DEF Goes, Sampled
    <3>q. QED BY <3>1, <3>2
  <2>7. ASSUME NEW d, Has(r.h.nodes, d)
        PROVE  IF \E j \in DOMAIN f.lines : f.lines[j].name = d.name THEN d.stamp = now
               ELSE Has(g.nodes, d)
    <3>1. ASSUME NEW j \in DOMAIN f.lines, f.lines[j].name = d.name PROVE d.stamp = now
      <4>1. PICK e : Has(r.h.nodes, e) /\ Goes(g, now, f.lines[j], e) BY <2>6
      <4>2. e.name = d.name /\ e.stamp = now BY <3>1, <4>1 DEF Goes
      <4>3. e = d BY <2>4, <2>7, <4>1, <4>2 DEF Has, NodesOk
      <4>q. QED BY <4>2, <4>3
    <3>2. ASSUME \A j \in DOMAIN f.lines : f.lines[j].name # d.name PROVE Has(g.nodes, d)
      BY <2>1, <2>2, <2>3, <2>7, <3>2 DEF Taken
    <3>q. QED BY <3>1, <3>2
  <2>q. QED BY <1>2, <2>4, <2>6, <2>7 DEF AfterRead
<1>q. QED BY <1>1, <1>2

\* What is read stays so in a handle that has lost stale devices since, and does not
\* depend on the rest of the handle.
LEMMA AfterLess ==
  ASSUME NEW x, NEW y, Less(x, y), NEW g, NEW f, NEW now, AfterRead(y, g, f, now)
  PROVE  AfterRead(x, g, f, now)
<1>1. CASE f.status = "unreadable" BY <1>1 DEF AfterRead, Less
<1>2. CASE f.status # "unreadable"
  <2>1. y.newStamp = now BY <1>2 DEF AfterRead
  <2>2. ASSUME NEW j \in DOMAIN f.lines
        PROVE  \E d : Has(x.nodes, d) /\ Goes(g, now, f.lines[j], d)
    <3>1. PICK d : Has(y.nodes, d) /\ Goes(g, now, f.lines[j], d) BY <1>2 DEF AfterRead
    <3>2. Has(x.nodes, d) BY <2>1, <3>1 DEF Goes, Less
    <3>q. QED BY <3>1, <3>2
  <2>q. QED BY <1>2, <2>1, <2>2 DEF AfterRead, Less
<1>q. QED BY <1>1, <1>2

\* Only the nodes and the stamp before a read count for it.
LEMMA AfterSame ==
  ASSUME NEW x, NEW g, NEW k, g.nodes = k.nodes, g.newStamp = k.newStamp, NEW f, NEW now,
         AfterRead(x, g, f, now)
  PROVE  AfterRead(x, k, f, now)
BY DEF AfterRead, Less, Goes

\* So all that node_get loses is a stale node.
LEMMA GotLess ==
  ASSUME NEW g, NEW name, NEW r, Got(r, g, name)
  PROVE  Less(r.h, g)
<1>1. r.h.newStamp = g.newStamp BY DEF Got, OnlyNodes, Same, BlankDisk
<1>2. CASE r.at = 0 BY <1>1, <1>2 DEF Got, Less, Fresh
<1>3. CASE r.at # 0 BY <1>3 DEF Got, Less
<1>q. QED BY <1>2, <1>3

\* The calls.
DiskDone(r, g, f, now) ==
  DiskOk(r.h) /\ r.ok \in BOOLEAN /\ r.h.ref = g.ref /\ AfterRead(r.h, g, f, now)

\* A read of /proc/diskstats leaves a sound handle sound.
LEMMA DiskReadOk ==
  ASSUME NEW g, DiskOk(g), NEW f, FileOk("disk", f), NEW now \in Int
  PROVE  /\ DiskDone(DiskRead(g, f, now), g, f, now)
         /\ DiskRead(g, f, now).ok = (f.status = "fine")
         /\ Same(DiskRead(g, f, now).h, g, DOMAIN BlankDisk \ {"nodes", "oldStamp", "newStamp"})
<1> DEFINE r == DiskRead(g, f, now)
<1>1. DiskShape(g) BY DEF DiskOk
<1>2. DiskReadDone(r, g, f, now) BY <1>1, DiskReadFacts
<1> HIDE DEF r
<1>3. AfterRead(r.h, g, f, now) BY <1>1, <1>2, ReadAfter
<1>4. /\ DiskShape(r.h) /\ r.ok = (f.status = "fine")
      /\ Same(r.h, g, DOMAIN BlankDisk \ {"nodes", "oldStamp", "newStamp"})
  <2>1. CASE f.status = "unreadable"
    <3>1. r.h = g /\ r.ok = FALSE BY <1>2, <2>1 DEF DiskReadDone
    <3>q. QED BY <1>1, <2>1, <3>1 DEF Same
  <2>2. CASE f.status # "unreadable"
    <3>1. OnlyNodes(r.h, Begun(g, now)) /\ r.ok = (f.status = "fine")
      BY <1>2, <2>2 DEF DiskReadDone, Taken
    <3>2. Same(Begun(g, now), g, DOMAIN BlankDisk \ {"oldStamp", "newStamp"}) BY <1>1, BegunShape
    <3>q. QED BY <3>1, <3>2 DEF OnlyNodes, Same
  <2>q. QED BY <2>1, <2>2
<1>5. r.h.ref = g.ref /\ r.h.ext = g.ext /\ r.h.fetch = g.fetch BY <1>4 DEF Same, BlankDisk
<1>6. DiskDone(r, g, f, now) BY <1>3, <1>4, <1>5 DEF DiskDone, DiskOk
<1>q. QED BY <1>4, <1>6 DEF r

DiskNewKeeps(r, f, now) ==
  /\ r.ok \in BOOLEAN
  /\ IF r.ok THEN r.h.ref = 1 /\ f.status = "fine" /\ DiskDone(r, BlankDisk, f, now)
     ELSE r.h = [ref |-> 0]
DiskGetKeeps(r, g, f, now) ==
  /\ DiskOk(r.h) /\ r.ok \in BOOLEAN /\ r.h.ref = g.ref
  /\ IF now - g.newStamp >= 1 THEN AfterRead(r.h, g, f, now) ELSE Less(r.h, g)
DiskReapKeeps(r, g, f, items, now) ==
  IF ItemsOk(items, DiskTable)
  THEN /\ DiskDone(r, g, f, now) /\ r.ok = (f.status = "fine")
       /\ r.ok => r.h.rows = [k \in 1 .. Len(r.h.nodes) |-> DiskAssign(items, r.h.nodes[k])]
  ELSE r = [ok |-> FALSE, h |-> g]
DiskSelectKeeps(r, g, f, items, now) ==
  IF ItemsOk(items, DiskTable) THEN DiskDone(r, g, f, now) ELSE r = [ok |-> FALSE, h |-> g]

\* procps_diskstats_new gives a sound handle with one reference, or none.
LEMMA DiskNewOk ==
  ASSUME NEW f, FileOk("disk", f), NEW now \in Int
  PROVE  DiskNewKeeps(DiskNew(f, now), f, now)
<1> DEFINE q == DiskRead(BlankDisk, f, now)
           r == DiskNew(f, now)
<1>1. DiskDone(q, BlankDisk, f, now) /\ q.ok = (f.status = "fine") BY BlankDiskOk, DiskReadOk
<1>2. r = IF q.ok THEN q ELSE [ok |-> FALSE, h |-> DiskUnref(q.h)] BY DEF DiskNew
<1> HIDE DEF q, r
<1>3. q.h.ref = 1 BY <1>1 DEF DiskDone, BlankDisk
<1>4. CASE q.ok
  <2>1. r = q BY <1>2, <1>4
  <2>q. QED BY <1>1, <1>3, <1>4, <2>1 DEF DiskNewKeeps, r
<1>5. CASE ~ q.ok
  <2>1. r = [ok |-> FALSE, h |-> [ref |-> 0]] BY <1>2, <1>3, <1>5 DEF DiskUnref, NoDisk
  <2>2. DiskNewKeeps(r, f, now) BY <2>1 DEF DiskNewKeeps
  <2>q. QED BY <2>2 DEF r
<1>q. QED BY <1>4, <1>5

\* procps_diskstats_get reads once a second and leaves the handle sound.
LEMMA DiskGetOk ==
  ASSUME NEW g, DiskOk(g), NEW f, FileOk("disk", f), NEW name, NEW item, NEW now \in Int
  PROVE  DiskGetKeeps(DiskGet(g, f, name, item, now), g, f, now)
<1> DEFINE due == now - g.newStamp >= 1
           q == IF due THEN DiskRead(g, f, now) ELSE [ok |-> TRUE, h |-> g]
           m == NodeGet(q.h, name)
           r == DiskGet(g, f, name, item, now)
           Right(x) == /\ DiskOk(x) /\ x.ref = g.ref
                       /\ IF due THEN AfterRead(x, g, f, now) ELSE Less(x, g)
<1>1. r.ok \in BOOLEAN /\ (r.h = q.h \/ r.h = m.h) BY DEF DiskGet
<1>2. Right(q.h)
  <2>1. CASE due
    <3>1. DiskDone(q, g, f, now) BY <2>1, DiskReadOk
    <3> HIDE DEF q
    <3>q. QED BY <2>1, <3>1 DEF DiskDone
  <2>2. CASE ~ due BY <2>2 DEF Less
  <2>q. QED BY <2>1, <2>2
<1> HIDE DEF q, r, due
<1>3. Got(m, q.h, name) BY <1>2, NodeGetFacts DEF DiskOk
<1> HIDE DEF m
<1>4. Less(m.h, q.h) BY <1>3, GotLess
<1>5. Right(m.h)
  <2>1. OnlyNodes(m.h, q.h) BY <1>3 DEF Got
  <2>2. DiskOk(m.h) /\ m.h.ref = g.ref BY <1>2, <2>1 DEF OnlyNodes, DiskOk, Same, BlankDisk
  <2>3. due => AfterRead(m.h, g, f, now) BY <1>2, <1>4, AfterLess
  <2>4. ~ due => Less(m.h, g) BY <1>2, <1>4 DEF Less
  <2>q. QED BY <2>2, <2>3, <2>4
<1>6. Right(r.h) BY <1>1, <1>2, <1>5
<1>q. QED BY <1>1, <1>6 DEF r, due, DiskGetKeeps

\* procps_diskstats_reap shows its nodes and leaves the handle sound.
LEMMA DiskReapOk ==
  ASSUME NEW g, DiskOk(g), NEW f, FileOk("disk", f), NEW items, NEW now \in Int
  PROVE  DiskReapKeeps(DiskReap(g, f, items, now), g, f, items, now)
<1> DEFINE c == DiskReconfig(g.ext, items)
           g1 == [g EXCEPT !.ext = c.ext]
           q == DiskRead(g1, f, now)
           n == Len(q.h.nodes)
           m == Fetch(q.h.ext, q.h.fetch, n)
           rows == [k \in 1 .. n |-> DiskAssign(m.ext.items, q.h.nodes[k])]
           h2 == [q.h EXCEPT !.ext = m.ext, !.fetch = m.fetch, !.rows = rows]
           r == DiskReap(g, f, items, now)
<1>1. r = IF ~c.ok THEN [ok |-> FALSE, h |-> g] ELSE IF q.ok THEN [ok |-> TRUE, h |-> h2] ELSE q
  BY DEF DiskReap, DiskFetch
<1>2. /\ c.ok <=> ItemsOk(items, DiskTable)
      /\ c.ok => c.ext = Reconfig(g.ext, items)
  BY DEF DiskReconfig, ReconfigMaybe
<1>3. CASE ~c.ok
  <2>1. r = [ok |-> FALSE, h |-> g] BY <1>1, <1>3
  <2> HIDE DEF r
  <2>q. QED BY <1>2, <1>3, <2>1 DEF r, DiskReapKeeps
<1>4. CASE c.ok
  <2>1. Stacked(c.ext, g.fetch) /\ c.ext.items = items
    <3> HIDE DEF c
    <3>q. QED BY <1>2, <1>4, ReconfigStacked DEF DiskOk
  <2>2. /\ DiskOk(g1) /\ g1.ref = g.ref /\ g1.nodes = g.nodes /\ g1.newStamp = g.newStamp
        /\ g1.ext = c.ext
    <3> HIDE DEF c
    <3>q. QED BY <2>1 DEF DiskOk, DiskShape, BlankDisk
  <2> HIDE DEF g1
  <2>3. /\ DiskDone(q, g1, f, now) /\ q.ok = (f.status = "fine")
        /\ Same(q.h, g1, DOMAIN BlankDisk \ {"nodes", "oldStamp", "newStamp"})
    BY <2>2, DiskReadOk
  <2> HIDE DEF c, q, r
  <2>4. /\ AfterRead(q.h, g, f, now) /\ q.h.ref = g.ref /\ q.h.ext.items = items /\ DiskOk(q.h)
    <3>1. AfterRead(q.h, g, f, now) BY <2>2, <2>3, AfterSame DEF DiskDone
    <3>2. q.h.ref = g.ref /\ q.h.ext.items = items BY <2>1, <2>2, <2>3 DEF DiskDone, Same, BlankDisk
    <3>q. QED BY <2>3, <3>1, <3>2 DEF DiskDone
  <2>5. n \in Nat BY <2>4, SeqFacts DEF DiskOk, DiskShape, NodesOk
  <2>6. Stacked(m.ext, m.fetch) /\ m.ext.items = items
    <3> HIDE DEF n
    <3>q. QED BY <2>4, <2>5, FetchStacked DEF DiskOk
  <2>7. rows = [k \in 1 .. Len(q.h.nodes) |-> DiskAssign(items, q.h.nodes[k])] BY <2>6
  <2> HIDE DEF m, n, rows
  <2>8. /\ DiskOk(h2) /\ h2.ref = q.h.ref /\ h2.nodes = q.h.nodes /\ h2.newStamp = q.h.newStamp
        /\ h2.rows = rows
    BY <2>4, <2>6 DEF DiskOk, DiskShape, BlankDisk
  <2> HIDE DEF h2
  <2>9. AfterRead(h2, g, f, now)
    <3>1. Less(h2, q.h) BY <2>8 DEF Less
    <3>q. QED BY <2>4, <3>1, AfterLess
  <2>10. CASE q.ok
    <3>1. r = [ok |-> TRUE, h |-> h2] BY <1>1, <1>4, <2>10
    <3>2. DiskDone(r, g, f, now) BY <2>4, <2>8, <2>9, <3>1 DEF DiskDone
    <3>3. r.h = h2 /\ r.ok = TRUE BY <3>1
    <3>4. r.h.rows = [k \in 1 .. Len(r.h.nodes) |-> DiskAssign(items, r.h.nodes[k])]
      BY <2>7, <2>8, <3>3
    <3>q. QED BY <1>2, <1>4, <2>3, <2>10, <3>2, <3>3, <3>4 DEF r, DiskReapKeeps
  <2>11. CASE ~q.ok
    <3>1. r = q BY <1>1, <1>4, <2>11
    <3>2. DiskDone(r, g, f, now) BY <2>3, <2>4, <3>1 DEF DiskDone
    <3>q. QED BY <1>2, <1>4, <2>3, <2>11, <3>1, <3>2 DEF r, DiskReapKeeps
  <2>q. QED BY <2>10, <2>11
<1>q. QED BY <1>3, <1>4

\* procps_diskstats_select leaves it sound.
LEMMA DiskSelectOk ==
  ASSUME NEW g, DiskOk(g), NEW f, FileOk("disk", f), NEW name, NEW items, NEW now \in Int
  PROVE  DiskSelectKeeps(DiskSelect(g, f, name, items, now), g, f, items, now)
<1> DEFINE ok == DiskReconfig(g.selExt, items).ok
           e == Single(DiskReconfig(g.selExt, items).ext)
           g1 == [g EXCEPT !.selExt = Single(DiskReconfig(@, items).ext)]
           q == DiskRead(g1, f, now)
           m == NodeGet(q.h, name)
           row == DiskAssign(items, m.h.nodes[m.at])
           h2 == [m.h EXCEPT !.selRow = row]
           r == DiskSelect(g, f, name, items, now)
<1>1. r = IF ~ok THEN [ok |-> FALSE, h |-> g]
          ELSE IF ~q.ok THEN q
          ELSE IF m.at = 0 THEN [ok |-> FALSE, h |-> m.h] ELSE [ok |-> TRUE, h |-> h2]
  BY DEF DiskSelect
<1>2. ok <=> ItemsOk(items, DiskTable) BY DEF DiskReconfig, ReconfigMaybe
<1>3. /\ DiskOk(g1) /\ g1.ref = g.ref /\ g1.nodes = g.nodes /\ g1.newStamp = g.newStamp
  <2>1. g1 = [g EXCEPT !.selExt = e] OBVIOUS
  <2> HIDE DEF e, g1
  <2>q. QED BY <2>1 DEF DiskOk, DiskShape, BlankDisk
<1> HIDE DEF g1
<1>4. DiskDone(q, g1, f, now) BY <1>3, DiskReadOk
<1> HIDE DEF ok, q, r
<1>5. AfterRead(q.h, g, f, now) /\ q.h.ref = g.ref /\ DiskOk(q.h) /\ q.ok \in BOOLEAN
  BY <1>3, <1>4, AfterSame DEF DiskDone
<1>6. Got(m, q.h, name) BY <1>5, NodeGetFacts DEF DiskOk
<1> HIDE DEF m, row
<1>7. AfterRead(m.h, g, f, now) /\ m.h.ref = g.ref /\ DiskOk(m.h)
  <2>1. Less(m.h, q.h) BY <1>6, GotLess
  <2>2. OnlyNodes(m.h, q.h) BY <1>6 DEF Got
  <2>3. DiskOk(m.h) /\ m.h.ref = g.ref BY <1>5, <2>2 DEF OnlyNodes, DiskOk, Same, BlankDisk
  <2>q. QED BY <1>5, <2>1, <2>3, AfterLess
<1>8. AfterRead(h2, g, f, now) /\ h2.ref = g.ref /\ DiskOk(h2)
  <2>1. DiskOk(h2) /\ h2.ref = m.h.ref /\ h2.nodes = m.h.nodes /\ h2.newStamp = m.h.newStamp
    BY <1>7 DEF DiskOk, DiskShape, BlankDisk
  <2> HIDE DEF h2
  <2>2. Less(h2, m.h) BY <2>1 DEF Less
  <2>q. QED BY <1>7, <2>1, <2>2, AfterLess
<1> HIDE DEF h2
<1>9. CASE ~ok
  <2>1. r = [ok |-> FALSE, h |-> g] BY <1>1, <1>9
  <2>q. QED BY <1>2, <1>9, <2>1 DEF r, DiskSelectKeeps
<1>10. CASE ok
  <2>1. r = q \/ r = [ok |-> FALSE, h |-> m.h] \/ r = [ok |-> TRUE, h |-> h2] BY <1>1, <1>10
  <2>2. DiskDone(r, g, f, now)
    <3>1. CASE r = q BY <1>5, <3>1 DEF DiskDone
    <3>2. CASE r = [ok |-> FALSE, h |-> m.h] BY <1>7, <3>2 DEF DiskDone
    <3>3. CASE r = [ok |-> TRUE, h |-> h2] BY <1>8, <3>3 DEF DiskDone
    <3>q. QED BY <2>1, <3>1, <3>2, <3>3
  <2>q. QED BY <1>2, <1>10, <2>2 DEF r, DiskSelectKeeps
<1>q. QED BY <1>9, <1>10

Samples == [Times \cup Derived -> Int]

\* A slot's sample, with its sums, is a function on the times and sums.
LEMMA SumsAre ==
  ASSUME NEW t \in [Times -> Int]
  PROVE  WithSums(t) \in Samples
BY DEF WithSums, Samples, Times, Derived

\* Max with 0 is how the library keeps a difference from falling below 0.
LEMMA NotBelowZero ==
  ASSUME NEW d \in Int
  PROVE  Max({0, d}) = IF d < 0 THEN 0 ELSE d
<1>1. \E x \in {0, d} : \A y \in {0, d} : x >= y OBVIOUS
<1>2. Max({0, d}) \in {0, d} /\ \A y \in {0, d} : Max({0, d}) >= y BY <1>1 DEF Max
<1>q. QED BY <1>2

\* The sample of a slot or the summary moves on to jif; it was was.
Moves(tic, was, jif) ==
  LET new == WithSums(jif)
  IN tic.new = new /\ tic.old = IF Backwards(new, was) THEN new ELSE was

\* The difference that a moved sample shows is the true change of the counter, or 0.
LEMMA MoveTrue ==
  ASSUME NEW now \in [Times -> Int], NEW before \in [Times -> Int], NEW tic,
         Moves(tic, WithSums(before), now), NEW n \in Times \cup Derived
  PROVE  Max({0, tic.new[n] - tic.old[n]}) = TrueChange(now, before, n)
<1> DEFINE new == WithSums(now)
           old == WithSums(before)
           back == Backwards(new, old)
           was == IF back THEN new ELSE old
           change == Max({0, tic.new[n] - tic.old[n]})
<1>1. new \in Samples /\ old \in Samples BY SumsAre
<1>2. tic.new = new /\ tic.old = was BY DEF Moves
<1>4. TrueChange(now, before, n) = IF back \/ new[n] < old[n] THEN 0 ELSE new[n] - old[n]
  BY DEF TrueChange
<1>5. back \in BOOLEAN BY DEF Backwards
<1> HIDE DEF new, old, back
<1>6. new[n] \in Int /\ old[n] \in Int BY <1>1 DEF Samples
<1>7. tic.new[n] - tic.old[n] \in Int BY <1>2, <1>6
<1>8. change = IF tic.new[n] - tic.old[n] < 0 THEN 0 ELSE tic.new[n] - tic.old[n]
  BY <1>7, NotBelowZero
<1> HIDE DEF change
<1>9. CASE back BY <1>2, <1>4, <1>6, <1>8, <1>9 DEF change
<1>10. CASE ~ back BY <1>2, <1>4, <1>6, <1>8, <1>10 DEF change
<1>q. QED BY <1>9, <1>10

\* The samples that a good read of f leaves of a handle that was g; what a
\* call leaves that does not read; and the samples of f.
StatMoved(x, g, f) ==
  /\ x.inuse = Len(f.cpus) /\ Moves(x.sum, g.sum.new, f.cpu)
  /\ \A k \in 1 .. Len(f.cpus) :
       /\ x.cpus[k].new = WithSums(f.cpus[k].jif)
       /\ k <= Len(g.cpus) => Moves(x.cpus[k], g.cpus[k].new, f.cpus[k].jif)
StatStays(x, g) == x.inuse = g.inuse /\ x.sum = g.sum /\ x.cpus = g.cpus
StatSampled(x, f) ==
  /\ x.inuse = Len(f.cpus) /\ x.sum.new = WithSums(f.cpu)
  /\ \A k \in 1 .. Len(f.cpus) : x.cpus[k].new = WithSums(f.cpus[k].jif)

\* A handle that has read a file holds the samples of that file.
LEMMA MovedSampled ==
  ASSUME NEW x, NEW g, NEW f, StatMoved(x, g, f)
  PROVE  StatSampled(x, f)
BY DEF StatMoved, StatSampled, Moves

\* What keeps the samples before or after a read keeps that the read moved them.
LEMMA MovedStays ==
  ASSUME NEW x, NEW y, NEW g, NEW k, NEW f, StatMoved(x, g, f), StatStays(y, x), StatStays(g, k)
  PROVE  StatMoved(y, k, f)
BY DEF StatMoved, StatStays

\* stat_derive_unique_jiffs moves the sample it is given.
LEMMA DeriveMoves ==
  ASSUME NEW id, NEW node, NEW n, NEW jif, NEW was, NEW tic,
         tic = StatDerive([id |-> id, node |-> node, count |-> n, new |-> jif, old |-> was])
  PROVE  Moves(tic, was, jif)
BY DEF StatDerive, Moves

\* The slot of a CPU that was there before moves on from its last sample.
LEMMA SlotMoves ==
  ASSUME NEW g, NEW f, NEW junk, NEW k \in 1 .. Len(f.cpus)
  PROVE  /\ StatSlot(g, f, k, junk).new = WithSums(f.cpus[k].jif)
         /\ k <= Len(g.cpus) => Moves(StatSlot(g, f, k, junk), g.cpus[k].new, f.cpus[k].jif)
<1> DEFINE was == IF k <= Len(g.cpus) THEN g.cpus[k]
                  ELSE IF g.cpus = <<>> /\ k <= NewOldIncr THEN NoTic
                  ELSE [NoTic EXCEPT !.new = junk, !.old = junk]
           tic == StatSlot(g, f, k, junk)
<1>1. k <= Len(f.cpus) OBVIOUS
<1>2. tic = StatDerive([id |-> f.cpus[k].id, node |-> -1, count |-> 1,
                        new |-> f.cpus[k].jif, old |-> was.new])
  BY <1>1 DEF StatSlot
<1>3. k <= Len(g.cpus) => was = g.cpus[k] OBVIOUS
<1> HIDE DEF was, tic
<1>4. Moves(tic, was.new, f.cpus[k].jif) BY <1>2, DeriveMoves
<1>q. QED BY <1>3, <1>4 DEF Moves, tic

\* A read that succeeds moves every sample on to the file it read.
LEMMA StatReadMoves ==
  ASSUME NEW g, StatOk(g), NEW f, FileOk("stat", f), NEW junk, f.status = "fine"
  PROVE  StatRead(g, f, junk).ok = TRUE /\ StatMoved(StatRead(g, f, junk).h, g, f)
<1> DEFINE n == Len(f.cpus)
           slots == [k \in 1 .. SlotsFor(Len(g.cpus), n) |-> StatSlot(g, f, k, junk)]
           sum == StatDerive([id |-> -1, node |-> -1, count |-> n, new |-> f.cpu,
                              old |-> g.sum.new])
           r == StatRead(g, f, junk)
<1>1. PICK sys :
        r = [ok |-> TRUE, h |-> [g EXCEPT !.sum = sum, !.cpus = slots, !.inuse = n, !.sys = sys]]
  BY DEF StatRead
<1>2. n \in Nat BY SeqFacts DEF FileOk
<1>3. Len(g.cpus) \in Nat BY SeqFacts DEF StatOk
<1>4. SlotsFor(Len(g.cpus), n) \in Nat /\ n < SlotsFor(Len(g.cpus), n) BY <1>2, <1>3, SlotsEnough
<1>5. ASSUME NEW k \in 1 .. n PROVE slots[k] = StatSlot(g, f, k, junk) BY <1>2, <1>4
<1>6. Moves(sum, g.sum.new, f.cpu) BY DeriveMoves
<1> HIDE DEF slots, sum, r
<1>7. r.h.cpus = slots /\ r.h.inuse = n /\ r.ok = TRUE /\ r.h.sum = sum
  BY <1>1 DEF StatOk, BlankStat
<1> SUFFICES r.ok = TRUE /\ StatMoved(r.h, g, f) BY DEF r
<1>8. ASSUME NEW k \in 1 .. n
      PROVE  /\ r.h.cpus[k].new = WithSums(f.cpus[k].jif)
             /\ k <= Len(g.cpus) => Moves(r.h.cpus[k], g.cpus[k].new, f.cpus[k].jif)
  BY <1>5, <1>7, SlotMoves
<1>q. QED BY <1>6, <1>7, <1>8 DEF StatMoved

\* What a call did to the samples, when it read and when it did not.
StatDid(r, g, f, did) ==
  IF did THEN f.status = "fine" => StatMoved(r.h, g, f) ELSE StatStays(r.h, g)

\* procps_stat_get reads when its second is over and keeps the samples otherwise.
LEMMA StatGetDid ==
  ASSUME NEW g, StatFull(g), NEW f, FileOk("stat", f), NEW item, NEW now \in Nat, NEW junk
  PROVE  StatDid(StatGet(g, f, item, now, junk), g, f, now - g.secs >= 1)
<1> DEFINE due == now - g.secs >= 1
           q == IF due THEN StatRead(g, f, junk) ELSE [ok |-> TRUE, h |-> g]
           h2 == [q.h EXCEPT !.secs = now]
           r == StatGet(g, f, item, now, junk)
<1>1. r.h = IF ~q.ok THEN q.h ELSE IF due THEN h2 ELSE q.h BY DEF StatGet
<1>2. StatOk(g) BY DEF StatFull
<1>3. CASE due
  <2>1. q = StatRead(g, f, junk) BY <1>3
  <2> HIDE DEF q, due
  <2> SUFFICES ASSUME f.status = "fine" PROVE StatMoved(r.h, g, f) BY <1>3 DEF StatDid, due
  <2>2. q.ok = TRUE /\ StatMoved(q.h, g, f) BY <1>2, <2>1, StatReadMoves
  <2>3. StatReadKeeps(q, g) BY <1>2, <2>1, StatReadOk
  <2>4. StatStays(h2, q.h) BY <2>3 DEF StatStays, StatReadKeeps, StatOk, BlankStat
  <2>5. r.h = h2 BY <1>1, <1>3, <2>2
  <2> HIDE DEF h2, r
  <2>q. QED BY <2>2, <2>4, <2>5, MovedStays DEF StatStays
<1>4. CASE ~ due
  <2>1. q = [ok |-> TRUE, h |-> g] BY <1>4
  <2> HIDE DEF q
  <2>2. r.h = g BY <1>1, <1>4, <2>1
  <2>q. QED BY <1>4, <2>2 DEF StatDid, StatStays
<1>q. QED BY <1>3, <1>4

\* procps_stat_select reads when its items are good and keeps them otherwise.
LEMMA StatSelectDid ==
  ASSUME NEW g, StatFull(g), NEW f, FileOk("stat", f), NEW items, NEW junk
  PROVE  StatDid(StatSelect(g, f, items, junk), g, f, ItemsOk(items, StatTable))
<1> DEFINE c == StatReconfig(g.selExt, items)
           g1 == [g EXCEPT !.selExt = c.ext]
           q == StatRead(g1, f, junk)
           row == StatAssign(items, q.h.sys, q.h.sum)
           h2 == [q.h EXCEPT !.selExt = Single(@), !.selRow = row]
           r == StatSelect(g, f, items, junk)
           did == ItemsOk(items, StatTable)
<1>1. r = IF ~c.ok THEN [ok |-> FALSE, h |-> g] ELSE IF ~q.ok THEN q ELSE [ok |-> TRUE, h |-> h2]
  BY DEF StatSelect
<1>2. StatOk(g1) /\ StatStays(g1, g)
  <2> HIDE DEF c
  <2>q. QED BY DEF StatFull, StatOk, BlankStat, StatStays
<1>3. c.ok <=> did BY DEF StatReconfig, ReconfigMaybe
<1> HIDE DEF g1
<1>4. CASE ~ did
  <2>1. r = [ok |-> FALSE, h |-> g] BY <1>1, <1>3, <1>4
  <2> HIDE DEF r
  <2>q. QED BY <1>4, <2>1 DEF StatDid, StatStays, r
<1>5. CASE did
  <2> SUFFICES ASSUME f.status = "fine" PROVE StatMoved(r.h, g, f) BY <1>5 DEF StatDid
  <2>1. q.ok = TRUE /\ StatMoved(q.h, g1, f) BY <1>2, StatReadMoves
  <2>2. StatReadKeeps(q, g1) BY <1>2, StatReadOk
  <2> HIDE DEF q, row, c, did
  <2>3. StatStays(h2, q.h) BY <2>2 DEF StatStays, StatReadKeeps, StatOk, BlankStat
  <2>4. r = [ok |-> TRUE, h |-> h2] BY <1>1, <1>3, <1>5, <2>1
  <2> HIDE DEF h2, r
  <2>q. QED BY <1>2, <2>1, <2>3, <2>4, MovedStays
<1>q. QED BY <1>4, <1>5

\* procps_stat_new reads the first samples.
LEMMA StatNewDid ==
  ASSUME NEW f, FileOk("stat", f), NEW junk, f.status = "fine"
  PROVE  StatMoved(StatNew(f, junk).h, BlankStat, f)
<1>1. /\ StatRead(BlankStat, f, junk).ok = TRUE
      /\ StatMoved(StatRead(BlankStat, f, junk).h, BlankStat, f)
  BY BlankStatOk, StatReadMoves
<1>q. QED BY <1>1 DEF StatNew

\* A reap: the handle it reads with, and what it has before the fetches.
Itemized(g, items) ==
  [g EXCEPT !.sumExt = StatReconfig(@, items).ext,
            !.cpuExt = Reconfig(@, items), !.nodeExt = Reconfig(@, items)]
Summed(g, items) ==
  [g EXCEPT !.sumExt = Single(@), !.nodeRows = <<>>,
            !.nodeFetch = [g.nodeFetch EXCEPT !.saved = IF @ = 0 THEN 1 ELSE @, !.total = 0],
            !.sumRow = StatAssign(items, g.sys, g.sum)]

\* New items for the CPUs keep the handle sound and the samples as they are.
LEMMA ItemizedOk ==
  ASSUME NEW g, StatFull(g), NEW items
  PROVE  /\ StatFull(Itemized(g, items)) /\ Itemized(g, items).ref = g.ref
         /\ Itemized(g, items).secs = g.secs
         /\ StatStays(Itemized(g, items), g) /\ Itemized(g, items).cpuExt.items = items
<1> DEFINE e == StatReconfig(g.sumExt, items).ext
           e1 == Reconfig(g.cpuExt, items)
           e2 == Reconfig(g.nodeExt, items)
           g1 == Itemized(g, items)
<1>1. Stacked(e1, g.cpuFetch) /\ Stacked(e2, g.nodeFetch) /\ e1.items = items
  BY ReconfigStacked DEF StatFull, StatOk
<1>2. g1 = [g EXCEPT !.sumExt = e, !.cpuExt = e1, !.nodeExt = e2] BY DEF Itemized
<1> HIDE DEF e, e1, e2, g1
<1>3. StatFull(g1) /\ g1.ref = g.ref /\ g1.secs = g.secs
  BY <1>1, <1>2 DEF StatFull, StatOk, BlankStat
<1>4. StatStays(g1, g) /\ g1.cpuExt.items = items
  BY <1>1, <1>2 DEF StatFull, StatOk, BlankStat, StatStays
<1>q. QED BY <1>3, <1>4 DEF g1

\* So does the summary, which shows the items that were asked for.
LEMMA SummedOk ==
  ASSUME NEW g, StatFull(g), NEW items, NEW k, k.ref = g.ref, k.secs = g.secs
  PROVE  /\ StatPart(Summed(g, items), k)
         /\ StatStays(Summed(g, items), g) /\ Summed(g, items).cpuExt = g.cpuExt
         /\ Summed(g, items).sumRow = StatAssign(items, Summed(g, items).sys, Summed(g, items).sum)
<1> DEFINE nf == [g.nodeFetch EXCEPT !.saved = IF @ = 0 THEN 1 ELSE @, !.total = 0]
           e == Single(g.sumExt)
           row == StatAssign(items, g.sys, g.sum)
           s == Summed(g, items)
<1>1. Stacked(g.nodeExt, nf) /\ nf.saved > 0
  <2>1. Stacked(g.nodeExt, g.nodeFetch) BY DEF StatFull, StatOk
  <2>2. /\ DOMAIN nf = DOMAIN g.nodeFetch /\ nf.anchor = g.nodeFetch.anchor /\ nf.total = 0
        /\ nf.saved = IF g.nodeFetch.saved = 0 THEN 1 ELSE g.nodeFetch.saved
    BY <2>1 DEF Stacked
  <2> HIDE DEF nf
  <2>q. QED BY <2>1, <2>2 DEF Stacked, FetchFits
<1>2. s = [g EXCEPT !.sumExt = e, !.nodeRows = <<>>, !.nodeFetch = nf, !.sumRow = row] BY DEF Summed
<1>3. row = StatAssign(items, g.sys, g.sum) OBVIOUS
<1> HIDE DEF nf, e, s, row
<1>4. StatPart(s, k) BY <1>1, <1>2 DEF StatPart, StatFull, StatOk, BlankStat
<1>5. /\ StatStays(s, g) /\ s.cpuExt = g.cpuExt /\ s.sumRow = row /\ s.sys = g.sys /\ s.sum = g.sum
  BY <1>2 DEF StatFull, StatOk, BlankStat, StatStays
<1>q. QED BY <1>3, <1>4, <1>5 DEF s

\* What is shown of x is what is shown of y.
Alike(x, y) ==
  /\ x.inuse = y.inuse /\ x.sum = y.sum /\ x.sys = y.sys /\ x.sumRow = y.sumRow
  /\ x.cpuExt.items = y.cpuExt.items
  /\ \A k \in 1 .. y.inuse : x.cpus[k].new = y.cpus[k].new /\ x.cpus[k].old = y.cpus[k].old

\* Making the nodes changes no sample and no result.
LEMMA NumaAlike ==
  ASSUME NEW g, NEW k, StatPart(g, k)
  PROVE  Alike(StatNuma(g), g)
<1> DEFINE cpus == [i \in DOMAIN g.cpus |->
                      IF i <= g.inuse /\ NodeOf[g.cpus[i].id] > -1
                      THEN [g.cpus[i] EXCEPT !.node = NodeOf[g.cpus[i].id]] ELSE g.cpus[i]]
           r == StatNuma(g)
<1>1. PICK nodes : r = [g EXCEPT !.nodes = nodes, !.cpus = cpus] BY DEF StatNuma
<1>2. DOMAIN g.cpus = 1 .. Len(g.cpus) /\ Len(g.cpus) \in Nat /\ g.inuse < Len(g.cpus)
      /\ g.inuse \in Nat
  BY SeqFacts DEF StatPart, StatFull, StatOk
<1>3. ASSUME NEW i \in 1 .. g.inuse
      PROVE  cpus[i].new = g.cpus[i].new /\ cpus[i].old = g.cpus[i].old
  BY <1>2
<1> HIDE DEF cpus, r
<1>4. /\ r.cpus = cpus /\ r.inuse = g.inuse /\ r.sum = g.sum /\ r.sys = g.sys
      /\ r.sumRow = g.sumRow /\ r.cpuExt = g.cpuExt
  BY <1>1 DEF StatPart, StatFull, StatOk, BlankStat
<1>q. QED BY <1>3, <1>4 DEF Alike, r

\* Nor does fetching them.
LEMMA NodesAlike ==
  ASSUME NEW g, NEW k, StatPart(g, k)
  PROVE  Alike(StatFetchNodes(g), g)
<1> DEFINE r == StatFetchNodes(g)
<1>1. PICK e, f, rows : r = [g EXCEPT !.nodeExt = e, !.nodeFetch = f, !.nodeRows = rows]
  BY DEF StatFetchNodes
<1> HIDE DEF r
<1>2. /\ r.cpus = g.cpus /\ r.inuse = g.inuse /\ r.sum = g.sum /\ r.sys = g.sys
      /\ r.sumRow = g.sumRow /\ r.cpuExt = g.cpuExt
  BY <1>1 DEF StatPart, StatFull, StatOk, BlankStat
<1>q. QED BY <1>2 DEF Alike, r

\* Fetching the CPUs changes no sample, and shows each CPU's own.
LEMMA CpusAlike ==
  ASSUME NEW g, NEW k, StatPart(g, k)
  PROVE  /\ Alike(StatFetchCpus(g), g)
         /\ StatFetchCpus(g).cpuRows =
              [i \in 1 .. g.inuse |-> StatAssign(g.cpuExt.items, g.sys, g.cpus[i])]
         /\ StatFetchCpus(g).cpus = g.cpus
<1> DEFINE q == Fetch(g.cpuExt, g.cpuFetch, g.inuse)
           rows == [i \in 1 .. g.inuse |-> StatAssign(q.ext.items, g.sys, g.cpus[i])]
           r == StatFetchCpus(g)
<1>1. r = [g EXCEPT !.cpuExt = q.ext, !.cpuFetch = q.fetch, !.cpuRows = rows] BY DEF StatFetchCpus
<1>2. q.ext.items = g.cpuExt.items BY FetchStacked DEF StatPart, StatFull, StatOk
<1>3. rows = [i \in 1 .. g.inuse |-> StatAssign(g.cpuExt.items, g.sys, g.cpus[i])] BY <1>2
<1> HIDE DEF q, rows, r
<1>4. /\ r.cpus = g.cpus /\ r.inuse = g.inuse /\ r.sum = g.sum /\ r.sys = g.sys
      /\ r.sumRow = g.sumRow /\ r.cpuExt = q.ext /\ r.cpuRows = rows
  BY <1>1 DEF StatPart, StatFull, StatOk, BlankStat
<1>q. QED BY <1>2, <1>3, <1>4 DEF Alike, r

\* The rows of a reap are those of the samples it leaves.
StatShown(x, items) ==
  /\ x.sumRow = StatAssign(items, x.sys, x.sum)
  /\ x.cpuRows = [k \in 1 .. x.inuse |-> StatAssign(items, x.sys, x.cpus[k])]

StatReapShows(r, g, f, items) ==
  /\ StatDid(r, g, f, ItemsOk(items, StatTable))
  /\ ItemsOk(items, StatTable) /\ f.status = "fine" => StatShown(r.h, items)
  /\ ~ ItemsOk(items, StatTable) => r.ok = FALSE

\* procps_stat_reap reads first, and all that it shows is of the samples then.
LEMMA StatReapDid ==
  ASSUME NEW g, StatFull(g), NEW f, FileOk("stat", f), NEW numa \in BOOLEAN, NEW items, NEW junk
  PROVE  StatReapShows(StatReap(g, f, numa, items, junk), g, f, items)
<1> DEFINE did == ItemsOk(items, StatTable)
           c == StatReconfig(g.sumExt, items)
           g1 == Itemized(g, items)
           q == StatRead(g1, f, junk)
           s == Summed(q.h, items)
           s1 == IF numa THEN StatFetchNodes(StatNuma(s)) ELSE s
           h2 == StatFetchCpus(s1)
           r == StatReap(g, f, numa, items, junk)
<1>1. r = IF ~c.ok THEN [ok |-> FALSE, h |-> g] ELSE IF ~q.ok THEN q ELSE [ok |-> TRUE, h |-> h2]
  BY DEF StatReap, Itemized, Summed
<1>2. c.ok <=> did BY DEF StatReconfig, ReconfigMaybe
<1>3. StatFull(g1) /\ StatOk(g1) /\ StatStays(g1, g) /\ g1.cpuExt.items = items
  BY ItemizedOk DEF StatFull
<1> HIDE DEF g1, did, c
<1>4. CASE ~ did
  <2>1. r = [ok |-> FALSE, h |-> g] BY <1>1, <1>2, <1>4
  <2> HIDE DEF r
  <2>q. QED BY <1>4, <2>1 DEF StatReapShows, StatDid, StatStays, r, did
<1>5. CASE did
  <2> SUFFICES ASSUME f.status = "fine" PROVE StatMoved(r.h, g, f) /\ StatShown(r.h, items)
    BY <1>5 DEF StatReapShows, StatDid, did
  <2>1. q.ok = TRUE /\ StatMoved(q.h, g1, f) BY <1>3, StatReadMoves
  <2>2. StatKeeps(q, g1) /\ StatReadKeeps(q, g1) BY <1>3, StatReadFull, StatReadOk
  <2> HIDE DEF q
  <2>3. q.h.cpuExt = g1.cpuExt BY <1>3, <2>2 DEF StatReadKeeps, Same, StatOk, BlankStat
  <2>4. /\ StatPart(s, q.h) /\ StatStays(s, q.h) /\ s.cpuExt.items = items
        /\ s.sumRow = StatAssign(items, s.sys, s.sum)
    BY <1>3, <2>2, <2>3, SummedOk DEF StatKeeps
  <2> HIDE DEF s
  <2>5. StatPart(s1, q.h) /\ Alike(s1, s)
    <3>1. CASE numa
      <4>1. StatPart(StatNuma(s), q.h) /\ Alike(StatNuma(s), s) BY <2>4, StatNumaOk, NumaAlike
      <4>2. StatPart(s1, q.h) /\ Alike(s1, StatNuma(s))
        BY <3>1, <4>1, StatFetchNodesOk, NodesAlike
      <4> HIDE DEF s1
      <4>q. QED BY <4>1, <4>2 DEF Alike
    <3>2. CASE ~ numa
      <4>1. s1 = s BY <3>2
      <4>q. QED BY <2>4, <4>1 DEF Alike
    <3>q. QED BY <3>1, <3>2
  <2> HIDE DEF s1
  <2>6. /\ Alike(h2, s1) /\ h2.cpus = s1.cpus
        /\ h2.cpuRows = [i \in 1 .. s1.inuse |-> StatAssign(s1.cpuExt.items, s1.sys, s1.cpus[i])]
    BY <2>5, CpusAlike
  <2>7. r = [ok |-> TRUE, h |-> h2] BY <1>1, <1>2, <1>5, <2>1
  <2> HIDE DEF h2, r
  <2>8. StatMoved(h2, g, f)
    <3>1. StatMoved(s, g, f) BY <1>3, <2>1, <2>4, MovedStays
    <3>2. Alike(h2, s) BY <2>5, <2>6 DEF Alike
    <3>q. QED BY <3>1, <3>2 DEF StatMoved, Alike, Moves
  <2>9. StatShown(h2, items)
    <3>1. h2.sumRow = StatAssign(items, h2.sys, h2.sum) BY <2>4, <2>5, <2>6 DEF Alike
    <3>2. h2.cpuRows = [i \in 1 .. h2.inuse |-> StatAssign(items, h2.sys, h2.cpus[i])]
      BY <2>4, <2>5, <2>6 DEF Alike
    <3>q. QED BY <3>1, <3>2 DEF StatShown
  <2>q. QED BY <2>7, <2>8, <2>9
<1>q. QED BY <1>4, <1>5

\* What is shown when a read of f follows one of f0.
StatTrue(x, f, f0, items) ==
  \A k \in DOMAIN items : LET i == items[k] IN
    i.src = "tic" /\ i.delta =>
      /\ x.sumRow[k] = TrueChange(f.cpu, f0.cpu, i.of)
      /\ [j \in DOMAIN f.cpus |-> f.cpus[j].id] = [j \in DOMAIN f0.cpus |-> f0.cpus[j].id]
           => \A j \in DOMAIN f.cpus :
                x.cpuRows[j][k] = TrueChange(f.cpus[j].jif, f0.cpus[j].jif, i.of)

\* An item of the table that asks for a change asks for that of a time or sum.
LEMMA TicItems ==
  ASSUME NEW items, ItemsOk(items, StatTable), NEW k \in DOMAIN items,
         items[k].src = "tic", items[k].delta
  PROVE  items[k].delta = TRUE /\ items[k].of \in Times \cup Derived
<1>1. items[k] \in StatTable BY DEF ItemsOk
<1>2. items[k] \in [src : {"tic"}, of : Times \cup Derived, delta : BOOLEAN] BY <1>1 DEF StatTable
<1>q. QED BY <1>2

\* What is shown of moved samples is the true change since the last read.
LEMMA StatShowsTrue ==
  ASSUME NEW g, StatFull(g), NEW f0, FileOk("stat", f0), StatSampled(g, f0),
         NEW f, FileOk("stat", f), NEW x, StatMoved(x, g, f),
         NEW items, ItemsOk(items, StatTable), StatShown(x, items)
  PROVE  StatTrue(x, f, f0, items)
<1> SUFFICES ASSUME NEW k \in DOMAIN items, items[k].src = "tic", items[k].delta
             PROVE  /\ x.sumRow[k] = TrueChange(f.cpu, f0.cpu, items[k].of)
                    /\ [j \in DOMAIN f.cpus |-> f.cpus[j].id]
                         = [j \in DOMAIN f0.cpus |-> f0.cpus[j].id]
                         => \A j \in DOMAIN f.cpus :
                              x.cpuRows[j][k] =
                                TrueChange(f.cpus[j].jif, f0.cpus[j].jif, items[k].of)
  BY DEF StatTrue
<1> DEFINE i == items[k]
<1>1. i.src = "tic" /\ i.delta = TRUE /\ i.of \in Times \cup Derived BY TicItems
<1> HIDE DEF i
<1>2. f.cpu \in [Times -> Int] /\ f0.cpu \in [Times -> Int] BY DEF FileOk
<1>a. ASSUME NEW now \in [Times -> Int], NEW before \in [Times -> Int], NEW tic,
             Moves(tic, WithSums(before), now)
      PROVE  \A sys : StatSet(i, sys, tic) = TrueChange(now, before, i.of)
  <2>1. Max({0, tic.new[i.of] - tic.old[i.of]}) = TrueChange(now, before, i.of)
    BY <1>1, <1>a, MoveTrue
  <2>q. QED BY <1>1, <2>1 DEF StatSet
<1>3. x.sumRow[k] = TrueChange(f.cpu, f0.cpu, i.of)
  <2>1. x.sumRow[k] = StatSet(i, x.sys, x.sum) BY DEF StatShown, StatAssign, i
  <2>2. Moves(x.sum, WithSums(f0.cpu), f.cpu) BY DEF StatMoved, StatSampled
  <2>q. QED BY <1>2, <1>a, <2>1, <2>2
<1>4. ASSUME [j \in DOMAIN f.cpus |-> f.cpus[j].id] = [j \in DOMAIN f0.cpus |-> f0.cpus[j].id],
             NEW j \in DOMAIN f.cpus
      PROVE  x.cpuRows[j][k] = TrueChange(f.cpus[j].jif, f0.cpus[j].jif, i.of)
  <2>1. DOMAIN f.cpus = DOMAIN f0.cpus BY <1>4
  <2>2. /\ Len(f.cpus) \in Nat /\ DOMAIN f.cpus = 1 .. Len(f.cpus)
        /\ Len(f0.cpus) \in Nat /\ DOMAIN f0.cpus = 1 .. Len(f0.cpus)
    BY SeqFacts DEF FileOk
  <2>3. Len(f.cpus) = Len(f0.cpus)
    <3>1. 1 .. Len(f.cpus) = 1 .. Len(f0.cpus) BY <2>1, <2>2
    <3>q. QED BY <2>2, <3>1
  <2>4. j \in 1 .. Len(f.cpus) /\ j \in 1 .. Len(f0.cpus) BY <2>2, <2>3
  <2>5. f.cpus[j].jif \in [Times -> Int] /\ f0.cpus[j].jif \in [Times -> Int]
    BY <2>1 DEF FileOk
  <2>6. g.cpus[j].new = WithSums(f0.cpus[j].jif) BY <2>4 DEF StatSampled
  <2>7. j <= Len(g.cpus)
    <3>1. Len(g.cpus) \in Nat BY SeqFacts DEF StatFull, StatOk
    <3>q. QED BY <2>2, <2>4, <3>1 DEF StatSampled, StatFull
  <2>8. Moves(x.cpus[j], WithSums(f0.cpus[j].jif), f.cpus[j].jif) BY <2>4, <2>6, <2>7 DEF StatMoved
  <2>9. x.cpuRows[j][k] = StatSet(i, x.sys, x.cpus[j])
    <3>1. j \in 1 .. x.inuse BY <2>4 DEF StatMoved
    <3>2. x.cpuRows[j] = StatAssign(items, x.sys, x.cpus[j]) BY <3>1 DEF StatShown
    <3>q. QED BY <3>2 DEF StatAssign, i
  <2>q. QED BY <1>a, <2>5, <2>8, <2>9
<1>q. QED BY <1>3, <1>4 DEF i

-------------------------------------------------------------------------------
\* The devices of a handle after the last two reads: r2 and r3.
DiskSampled(g, r2, r3) ==
  /\ \A d : Has(g.nodes, d) => d.stamp <= r3.at
  /\ r3.file.status = "fine" =>
       /\ g.newStamp = r3.at
       /\ \A i \in DOMAIN r3.file.lines :
            \E d : /\ Has(g.nodes, d) /\ d.name = r3.file.lines[i].name
                   /\ d.stamp = r3.at /\ d.new = r3.file.lines[i].val
       /\ \A d : Has(g.nodes, d) =>
            \/ \E i \in DOMAIN r3.file.lines : r3.file.lines[i].name = d.name
            \/ d.stamp <= r2.at

\* A handle that has lost stale nodes at most still holds the samples of the last reads.
LEMMA LessSampled ==
  ASSUME NEW x, NEW g, Less(x, g), NEW r2, NEW r3, DiskSampled(g, r2, r3)
  PROVE  DiskSampled(x, r2, r3)
<1>1. \A d : Has(x.nodes, d) => d.stamp <= r3.at BY DEF Less, DiskSampled
<1> SUFFICES ASSUME r3.file.status = "fine"
             PROVE  /\ x.newStamp = r3.at
                    /\ \A i \in DOMAIN r3.file.lines :
                         \E d : /\ Has(x.nodes, d) /\ d.name = r3.file.lines[i].name
                                /\ d.stamp = r3.at /\ d.new = r3.file.lines[i].val
                    /\ \A d : Has(x.nodes, d) =>
                         \/ \E i \in DOMAIN r3.file.lines : r3.file.lines[i].name = d.name
                         \/ d.stamp <= r2.at
  BY <1>1 DEF DiskSampled
<1>2. x.newStamp = r3.at /\ g.newStamp = r3.at BY DEF Less, DiskSampled
<1>3. ASSUME NEW i \in DOMAIN r3.file.lines
      PROVE  \E d : /\ Has(x.nodes, d) /\ d.name = r3.file.lines[i].name
                    /\ d.stamp = r3.at /\ d.new = r3.file.lines[i].val
  <2>1. PICK d : /\ Has(g.nodes, d) /\ d.name = r3.file.lines[i].name
                 /\ d.stamp = r3.at /\ d.new = r3.file.lines[i].val
    BY DEF DiskSampled
  <2>2. Has(x.nodes, d) BY <1>2, <2>1 DEF Less
  <2>q. QED BY <2>1, <2>2
<1>q. QED BY <1>2, <1>3 DEF Less, DiskSampled

\* A read moves the samples of a diskstats handle on by one read.
LEMMA ReadSampled ==
  ASSUME NEW g, NodesOk(g.nodes), NEW r2, NEW r3, DiskSampled(g, r2, r3), NEW x, NEW f,
         NEW now \in Int, r3.at \in Int, r3.at <= now, AfterRead(x, g, f, now), NEW r4,
         r4.file = f, r4.at = now
  PROVE  DiskSampled(x, r3, r4)
<1>1. \A d : Has(g.nodes, d) => d.stamp \in Int /\ d.stamp <= r3.at
  BY DEF NodesOk, Has, DiskSampled
<1>2. CASE f.status = "unreadable"
  <2>1. Less(x, g) BY <1>2 DEF AfterRead
  <2>2. \A d : Has(x.nodes, d) => d.stamp <= now BY <1>1, <2>1 DEF Less
  <2>q. QED BY <1>2, <2>2 DEF DiskSampled
<1>3. CASE f.status # "unreadable"
  <2>1. /\ x.newStamp = now
        /\ \A d : Has(x.nodes, d) =>
             IF \E j \in DOMAIN f.lines : f.lines[j].name = d.name THEN d.stamp = now
             ELSE Has(g.nodes, d)
        /\ \A j \in DOMAIN f.lines : \E d : Has(x.nodes, d) /\ Goes(g, now, f.lines[j], d)
    BY <1>3 DEF AfterRead
  <2>2. \A d : Has(x.nodes, d) => d.stamp <= now BY <1>1, <2>1
  <2>3. \A d : Has(x.nodes, d) =>
          (\E j \in DOMAIN f.lines : f.lines[j].name = d.name) \/ d.stamp <= r3.at
    BY <1>1, <2>1
  <2>4. \A j \in DOMAIN f.lines : \E d : /\ Has(x.nodes, d) /\ d.name = f.lines[j].name
                                         /\ d.stamp = now /\ d.new = f.lines[j].val
    BY <2>1 DEF Goes
  <2>q. QED BY <2>1, <2>2, <2>3, <2>4 DEF DiskSampled
<1>q. QED BY <1>2, <1>3

\* The first read gives it its first samples.
LEMMA NewSampled ==
  ASSUME NEW x, NEW f, f.status = "fine", NEW now \in Int, AfterRead(x, BlankDisk, f, now),
         NEW r3, NEW r4, r4.file = f, r4.at = now
  PROVE  DiskSampled(x, r3, r4)
<1>1. \A d : ~ Has(BlankDisk.nodes, d) BY DEF Has, BlankDisk
<1>2. /\ x.newStamp = now
      /\ \A d : Has(x.nodes, d) =>
           d.stamp = now /\ \E j \in DOMAIN f.lines : f.lines[j].name = d.name
      /\ \A j \in DOMAIN f.lines : \E d : Has(x.nodes, d) /\ Goes(BlankDisk, now, f.lines[j], d)
  BY <1>1 DEF AfterRead
<1>3. \A j \in DOMAIN f.lines : \E d : /\ Has(x.nodes, d) /\ d.name = f.lines[j].name
                                       /\ d.stamp = now /\ d.new = f.lines[j].val
  BY <1>2 DEF Goes
<1>q. QED BY <1>2, <1>3 DEF DiskSampled

\* Whether a read listed a disk, and with what.
HasLine(y, n) == y.file.status = "fine" /\ \E i \in DOMAIN y.file.lines : y.file.lines[i].name = n
ValOf(y, n) ==
  y.file.lines[CHOOSE i \in DOMAIN y.file.lines : y.file.lines[i].name = n].val
DiskTrue(x, r1, r2, r3) ==
  \A r \in DOMAIN x.rows :
    LET n == x.rows[r][1]
    IN HasLine(r3, n) =>
         /\ HasLine(r2, n) => x.rows[r][2] = ValOf(r3, n) - ValOf(r2, n)
         /\ ~ HasLine(r2, n) /\ r1.at # r2.at => x.rows[r][2] = 0

\* The value of a device in a file is that of the device's line.
LEMMA ValOfLine ==
  ASSUME NEW y, FileOk("disk", y.file), NEW i \in DOMAIN y.file.lines
  PROVE  ValOf(y, y.file.lines[i].name) = y.file.lines[i].val
<1> DEFINE n == y.file.lines[i].name
           j == CHOOSE j \in DOMAIN y.file.lines : y.file.lines[j].name = n
<1>1. j \in DOMAIN y.file.lines /\ y.file.lines[j].name = n OBVIOUS
<1>2. j = i BY <1>1 DEF FileOk
<1>q. QED BY <1>2 DEF ValOf

\* What procps_diskstats_reap shows is the true change since the read before.
LEMMA DiskShowsTrue ==
  ASSUME NEW g, DiskShape(g), NEW r1, NEW r2, NEW r3, NEW x, NEW now \in Int,
         DiskSampled(g, r1, r2), r1.at \in Int, r2.at \in Int, r1.at <= r2.at, r2.at <= now,
         r3.at = now, r3.file.status = "fine", r2.file.status = "fine",
         FileOk("disk", r3.file), FileOk("disk", r2.file),
         AfterRead(x, g, r3.file, now), NodesOk(x.nodes),
         x.rows = [k \in 1 .. Len(x.nodes) |-> DiskAssign(<<"NAME", "DELTA_IO">>, x.nodes[k])]
  PROVE  DiskTrue(x, r1, r2, r3)
<1> SUFFICES ASSUME NEW r \in DOMAIN x.rows, HasLine(r3, x.rows[r][1])
             PROVE  /\ HasLine(r2, x.rows[r][1]) =>
                         x.rows[r][2] = ValOf(r3, x.rows[r][1]) - ValOf(r2, x.rows[r][1])
                    /\ ~ HasLine(r2, x.rows[r][1]) /\ r1.at # r2.at => x.rows[r][2] = 0
  BY DEF DiskTrue
<1> DEFINE d == x.nodes[r]
           n == d.name
<1>1. /\ x.rows[r][1] = n /\ x.rows[r][2] = d.new - d.old
      /\ d.new \in Int /\ d.old \in Int /\ Has(x.nodes, d)
  <2>1. r \in 1 .. Len(x.nodes) /\ r \in DOMAIN x.nodes BY SeqFacts DEF NodesOk
  <2>2. x.rows[r] = DiskAssign(<<"NAME", "DELTA_IO">>, d) BY <2>1
  <2>3. x.rows[r][1] = DiskSet("NAME", d) /\ x.rows[r][2] = DiskSet("DELTA_IO", d)
    BY <2>2 DEF DiskAssign
  <2>q. QED BY <2>1, <2>3 DEF DiskSet, NodesOk, Has
<1>2. PICK i \in DOMAIN r3.file.lines : r3.file.lines[i].name = n BY <1>1 DEF HasLine
<1>3. ValOf(r3, n) = r3.file.lines[i].val BY <1>2, ValOfLine
<1>4. Goes(g, now, r3.file.lines[i], d)
  <2>1. PICK e : Has(x.nodes, e) /\ Goes(g, now, r3.file.lines[i], e) BY DEF AfterRead
  <2>2. e.name = n BY <1>2, <2>1 DEF Goes
  <2>3. e = d BY <1>1, <2>1, <2>2 DEF Has, NodesOk
  <2>q. QED BY <2>1, <2>3
<1> HIDE DEF d
<1>5. d.new = ValOf(r3, n) BY <1>3, <1>4 DEF Goes
<1>6. g.newStamp = r2.at BY DEF DiskSampled
<1>7. ASSUME HasLine(r2, n) PROVE d.old = ValOf(r2, n)
  <2>1. PICK j \in DOMAIN r2.file.lines : r2.file.lines[j].name = n BY <1>7 DEF HasLine
  <2>2. ValOf(r2, n) = r2.file.lines[j].val BY <2>1, ValOfLine
  <2>3. PICK y : /\ Has(g.nodes, y) /\ y.name = r2.file.lines[j].name
                 /\ y.stamp = r2.at /\ y.new = r2.file.lines[j].val
    BY DEF DiskSampled
  <2>4. d.old = y.new BY <1>2, <1>4, <1>6, <2>1, <2>3 DEF Goes
  <2>q. QED BY <2>2, <2>3, <2>4
<1>8. ASSUME ~ HasLine(r2, n), r1.at # r2.at PROVE d.old = d.new
  <2>1. ASSUME NEW y, Has(g.nodes, y), y.name = n PROVE y.stamp \notin {g.newStamp, now}
    <3>1. y.stamp \in Int BY <2>1 DEF DiskShape, NodesOk, Has
    <3>2. y.stamp <= r1.at BY <1>8, <2>1 DEF DiskSampled, HasLine
    <3>q. QED BY <1>6, <1>8, <3>1, <3>2
  <2>q. QED BY <1>2, <1>4, <2>1 DEF Goes
<1> HIDE DEF n
<1>9. HasLine(r2, n) => x.rows[r][2] = ValOf(r3, n) - ValOf(r2, n) BY <1>1, <1>5, <1>7
<1>10. ~ HasLine(r2, n) /\ r1.at # r2.at => x.rows[r][2] = 0 BY <1>1, <1>8
<1>q. QED BY <1>1, <1>9, <1>10

\* A handle of library l that is in use.
Holds(l, g) ==
  CASE l = "stat" -> StatFull(g) [] l = "disk" -> DiskOk(g) [] l = "slab" -> SlabOk(g)
    [] l = "mem" -> MemOk(g) [] l = "vm" -> VmOk(g)

\* The caller's side of the type invariant: TLC has no need of it, and the
\* calls' lemmas do.
LibType ==
  /\ lib \in Libs /\ FileOk(lib, file)
  /\ clock \in Nat \ {0} /\ goodAt \in Nat /\ refs \in Nat

\* The handle is one of the library's, with the references of the caller, and
\* the second it remembers is that of a read that succeeded.
HandleOk ==
  /\ h.ref = refs
  /\ h.ref > 0 => Holds(lib, h)
  /\ h.ref > 0 /\ lib # "disk" => h.secs <= clock /\ (h.secs = clock => goodAt = clock)
  /\ last.op = "reap" => h.ref > 0

HandleInv == LibType /\ HandleOk /\ GetReadsAgain

\* A handle in use has a reference and a second.
LEMMA HoldsRef ==
  ASSUME NEW l \in {"stat", "disk", "slab", "mem", "vm"}, NEW g, Holds(l, g)
  PROVE  g.ref \in Nat \ {0} /\ (l # "disk" => g.secs \in Nat)
<1>1. l = "stat" => StatOk(g) BY DEF Holds, StatFull
<1>q. QED BY <1>1 DEF Holds, StatOk, DiskOk, SlabOk, MemOk, VmOk

\* How many references it has does not matter to the rest of it.
LEMMA HoldsAnyRef ==
  ASSUME NEW l \in {"stat", "disk", "slab", "mem", "vm"}, NEW g, Holds(l, g),
         NEW n \in Nat \ {0}, NEW x, x = [g EXCEPT !.ref = n]
  PROVE  Holds(l, x) /\ x.ref = n /\ (l # "disk" => x.secs = g.secs)
<1>1. CASE l = "stat"
  <2>1. StatFull(g) BY <1>1 DEF Holds
  <2>2. StatFull(x) /\ x.ref = n /\ x.secs = g.secs BY <2>1 DEF StatFull, StatOk, BlankStat
  <2>q. QED BY <1>1, <2>2 DEF Holds
<1>2. CASE l = "disk"
  <2>1. DiskOk(g) BY <1>2 DEF Holds
  <2>2. DiskOk(x) /\ x.ref = n BY <2>1 DEF DiskOk, DiskShape, BlankDisk
  <2>q. QED BY <1>2, <2>2 DEF Holds
<1>3. CASE l = "slab"
  <2>1. SlabOk(g) BY <1>3 DEF Holds
  <2>2. SlabOk(x) /\ x.ref = n /\ x.secs = g.secs BY <2>1 DEF SlabOk, BlankSlab
  <2>q. QED BY <1>3, <2>2 DEF Holds
<1>4. CASE l = "mem"
  <2>1. MemOk(g) BY <1>4 DEF Holds
  <2>2. MemOk(x) /\ x.ref = n /\ x.secs = g.secs BY <2>1 DEF MemOk, BlankMem
  <2>q. QED BY <1>4, <2>2 DEF Holds
<1>5. CASE l = "vm"
  <2>1. VmOk(g) BY <1>5 DEF Holds
  <2>2. VmOk(x) /\ x.ref = n /\ x.secs = g.secs BY <2>1 DEF VmOk, BlankVm
  <2>q. QED BY <1>5, <2>2 DEF Holds
<1>q. QED BY <1>1, <1>2, <1>3, <1>4, <1>5

\* What a call leaves; the second of a get that read is remembered.
CallOk(op, r) ==
  /\ r.ok \in BOOLEAN /\ r.h.ref \in Nat
  /\ r.h.ref > 0 => Holds(lib, r.h)
  /\ r.h.ref > 0 /\ lib # "disk" =>
       r.h.secs = IF op = "new" THEN 0
                  ELSE IF op = "get" /\ r.ok /\ clock - h.secs >= 1 THEN clock ELSE h.secs

\* A call that did what CallOk says leaves the handle whole.
LEMMA CallInv ==
  ASSUME HandleInv, NEW op, NEW items, NEW r, Called(op, items, r), CallOk(op, r),
         op # "new" => h.ref > 0, op = "reap" => r.h.ref = h.ref, refs' = r.h.ref
  PROVE  HandleInv'
<1>1. /\ lib' = lib /\ file' = file /\ clock' = clock /\ h' = r.h
      /\ goodAt' = IF Reads(op, items) /\ r.ok THEN clock ELSE goodAt
      /\ last' = [op |-> op, ok |-> r.ok, items |-> items, at |-> clock]
  BY DEF Called
<1>2. goodAt' \in Nat /\ (goodAt = clock => goodAt' = clock) BY <1>1 DEF HandleInv, LibType
<1>3. LibType'
  <2>1. refs' \in Nat BY DEF CallOk
  <2>q. QED BY <1>1, <1>2, <2>1 DEF HandleInv, LibType, FileOk
<1>4. lib \in {"stat", "disk", "slab", "mem", "vm"} BY ProcLibAssumption DEF HandleInv, LibType
<1>5. h.ref > 0 /\ lib # "disk" => h.secs \in Nat BY <1>4, HoldsRef DEF HandleInv, HandleOk
<1>6. clock \in Nat \ {0} BY DEF HandleInv, LibType
<1>7. HandleOk'
  <2>1. h'.ref = refs' BY <1>1
  <2>2. h'.ref > 0 => Holds(lib, h') BY <1>1 DEF CallOk
  <2>3. h'.ref > 0 /\ lib # "disk" => h'.secs <= clock /\ (h'.secs = clock => goodAt' = clock)
    <3> SUFFICES ASSUME r.h.ref > 0, lib # "disk"
                 PROVE  r.h.secs <= clock /\ (r.h.secs = clock => goodAt' = clock)
      BY <1>1
    <3>1. CASE op = "new" BY <1>6, <3>1 DEF CallOk
    <3>2. CASE op = "get" /\ r.ok /\ clock - h.secs >= 1
      BY <1>1, <1>6, <3>2 DEF CallOk, Reads
    <3>3. CASE op # "new" /\ ~ (op = "get" /\ r.ok /\ clock - h.secs >= 1)
      BY <1>2, <3>3 DEF CallOk, HandleInv, HandleOk
    <3>q. QED BY <3>1, <3>2, <3>3
  <2>4. last'.op = "reap" => h'.ref > 0 BY <1>1
  <2>q. QED BY <1>1, <2>1, <2>2, <2>3, <2>4 DEF HandleOk, Holds
<1>8. GetReadsAgain'
  <2> SUFFICES ASSUME lib # "disk", op = "get", r.ok
               PROVE  goodAt' = clock
    BY <1>1 DEF GetReadsAgain
  <2>1. CASE clock - h.secs >= 1 BY <1>1, <2>1 DEF Reads
  <2>2. CASE ~ (clock - h.secs >= 1)
    <3>1. h.secs = clock BY <1>5, <1>6, <2>2 DEF HandleInv, HandleOk
    <3>q. QED BY <1>2, <3>1 DEF HandleInv, HandleOk
  <2>q. QED BY <2>1, <2>2
<1>q. QED BY <1>3, <1>7, <1>8 DEF HandleInv

\* There are five libraries.
LEMMA LibIs == ASSUME HandleInv PROVE lib \in {"stat", "disk", "slab", "mem", "vm"}
BY ProcLibAssumption DEF HandleInv, LibType

\* So it is with new.
LEMMA NewCallOk ==
  ASSUME HandleInv, NEW junk
  PROVE  CallOk("new", NewOf(junk)) /\ NewOf(junk).h.ref = IF NewOf(junk).ok THEN 1 ELSE 0
<1> DEFINE r == NewOf(junk)
<1> SUFFICES CallOk("new", r) /\ r.h.ref = (IF r.ok THEN 1 ELSE 0) OBVIOUS
<1> USE DEF HandleInv, LibType
<1>1. CASE lib = "stat"
  <2>1. r = StatNew(file, junk) BY <1>1 DEF NewOf
  <2> HIDE DEF r
  <2>2. StatNewKeeps(r) BY <1>1, <2>1, StatNewOk
  <2>q. QED BY <1>1, <2>2 DEF StatNewKeeps, CallOk, Holds
<1>2. CASE lib = "disk"
  <2>1. r = DiskNew(file, clock) BY <1>2 DEF NewOf
  <2> HIDE DEF r
  <2>2. DiskNewKeeps(r, file, clock) BY <1>2, <2>1, DiskNewOk
  <2>q. QED BY <1>2, <2>2 DEF DiskNewKeeps, DiskDone, CallOk, Holds
<1>3. CASE lib = "slab"
  <2>1. r = SlabNew(file) BY <1>3 DEF NewOf
  <2> HIDE DEF r
  <2>2. SlabNewKeeps(r) BY <1>3, <2>1, SlabNewOk
  <2>q. QED BY <1>3, <2>2 DEF SlabNewKeeps, CallOk, Holds
<1>4. CASE lib = "mem"
  <2>1. r = MemNew(file) BY <1>4 DEF NewOf
  <2> HIDE DEF r
  <2>2. MemNewKeeps(r) BY <1>4, <2>1, MemNewOk
  <2>q. QED BY <1>4, <2>2 DEF MemNewKeeps, CallOk, Holds
<1>5. CASE lib = "vm"
  <2>1. r = VmNew(file) BY <1>5 DEF NewOf
  <2> HIDE DEF r
  <2>2. VmNewKeeps(r) BY <1>5, <2>1, VmNewOk
  <2>q. QED BY <1>5, <2>2 DEF VmNewKeeps, CallOk, Holds
<1>q. QED BY <1>1, <1>2, <1>3, <1>4, <1>5, LibIs

\* So it is with select.
LEMMA SelectCallOk ==
  ASSUME HandleInv, h.ref > 0, NEW items, NEW junk
  PROVE  CallOk("select", SelectOf(items, junk)) /\ SelectOf(items, junk).h.ref = h.ref
<1> DEFINE r == SelectOf(items, junk)
<1> SUFFICES CallOk("select", r) /\ r.h.ref = h.ref OBVIOUS
<1>1. Holds(lib, h) /\ FileOk(lib, file) /\ clock \in Nat BY DEF HandleInv, HandleOk, LibType
<1>2. h.ref \in Nat /\ (lib # "disk" => h.secs \in Nat) BY <1>1, HoldsRef, LibIs
<1>3. CASE lib = "stat"
  <2>1. r = StatSelect(h, file, items, junk) BY <1>3 DEF SelectOf
  <2> HIDE DEF r
  <2>2. StatKeeps(r, h) BY <1>1, <1>3, <2>1, StatSelectOk DEF Holds
  <2>q. QED BY <1>2, <1>3, <2>2 DEF StatKeeps, CallOk, Holds
<1>4. CASE lib = "disk"
  <2>1. r = DiskSelect(h, file, 1, items, clock) BY <1>4 DEF SelectOf
  <2> HIDE DEF r
  <2>2. DiskSelectKeeps(r, h, file, items, clock) BY <1>1, <1>4, <2>1, DiskSelectOk DEF Holds
  <2>3. DiskOk(h) BY <1>1, <1>4 DEF Holds
  <2>4. DiskDone(r, h, file, clock) \/ r = [ok |-> FALSE, h |-> h] BY <2>2 DEF DiskSelectKeeps
  <2>5. DiskOk(r.h) /\ r.h.ref = h.ref /\ r.ok \in BOOLEAN
    <3>1. CASE DiskDone(r, h, file, clock) BY <3>1 DEF DiskDone
    <3>2. CASE r = [ok |-> FALSE, h |-> h] BY <2>3, <3>2
    <3>q. QED BY <2>4, <3>1, <3>2
  <2>q. QED BY <1>2, <1>4, <2>5 DEF CallOk, Holds
<1>5. CASE lib = "slab"
  <2>1. r = SlabSelect(h, file, items) BY <1>5 DEF SelectOf
  <2> HIDE DEF r
  <2>2. SlabKeeps(r, h) BY <1>1, <1>5, <2>1, SlabSelectOk DEF Holds
  <2>q. QED BY <1>2, <1>5, <2>2 DEF SlabKeeps, CallOk, Holds
<1>6. CASE lib = "mem"
  <2>1. r = MemSelect(h, file, items) BY <1>6 DEF SelectOf
  <2> HIDE DEF r
  <2>2. MemKeeps(r, h) BY <1>1, <1>6, <2>1, MemSelectOk DEF Holds
  <2>q. QED BY <1>2, <1>6, <2>2 DEF MemKeeps, CallOk, Holds
<1>7. CASE lib = "vm"
  <2>1. r = VmSelect(h, file, items) BY <1>7 DEF SelectOf
  <2> HIDE DEF r
  <2>2. VmKeeps(r, h) BY <1>1, <1>7, <2>1, VmSelectOk DEF Holds
  <2>q. QED BY <1>2, <1>7, <2>2 DEF VmKeeps, CallOk, Holds
<1>q. QED BY <1>3, <1>4, <1>5, <1>6, <1>7, LibIs

\* So it is with get.
LEMMA GetCallOk ==
  ASSUME HandleInv, h.ref > 0, NEW item, NEW junk, NEW r,
         r.ok = GetOf(item, junk).ok, r.h = GetOf(item, junk).h
  PROVE  CallOk("get", r) /\ r.h.ref = h.ref
<1> DEFINE g == GetOf(item, junk)
<1>1. Holds(lib, h) /\ FileOk(lib, file) /\ clock \in Nat BY DEF HandleInv, HandleOk, LibType
<1>2. h.ref \in Nat /\ (lib # "disk" => h.secs \in Nat) BY <1>1, HoldsRef, LibIs
<1>a. r.ok = g.ok /\ r.h = g.h OBVIOUS
<1>3. CASE lib = "stat"
  <2>1. g = StatGet(h, file, item, clock, junk) BY <1>3 DEF GetOf
  <2> HIDE DEF g
  <2>2. StatGetKeeps(g, h, clock) BY <1>1, <1>3, <2>1, StatGetOk DEF Holds
  <2>q. QED BY <1>2, <1>3, <1>a, <2>2 DEF StatGetKeeps, CallOk, Holds
<1>4. CASE lib = "disk"
  <2>1. g = DiskGet(h, file, 1, item, clock) BY <1>4 DEF GetOf
  <2> HIDE DEF g
  <2>2. DiskGetKeeps(g, h, file, clock) BY <1>1, <1>4, <2>1, DiskGetOk DEF Holds
  <2>q. QED BY <1>2, <1>4, <1>a, <2>2 DEF DiskGetKeeps, CallOk, Holds
<1>5. CASE lib = "slab"
  <2>1. g = SlabGet(h, file, item, clock) BY <1>5 DEF GetOf
  <2> HIDE DEF g
  <2>2. SlabGetKeeps(g, h, clock) BY <1>1, <1>5, <2>1, SlabGetOk DEF Holds
  <2>q. QED BY <1>2, <1>5, <1>a, <2>2 DEF SlabGetKeeps, CallOk, Holds
<1>6. CASE lib = "mem"
  <2>1. g = MemGet(h, file, item, clock) BY <1>6 DEF GetOf
  <2> HIDE DEF g
  <2>2. MemGetKeeps(g, h, clock) BY <1>1, <1>6, <2>1, MemGetOk DEF Holds
  <2>q. QED BY <1>2, <1>6, <1>a, <2>2 DEF MemGetKeeps, CallOk, Holds
<1>7. CASE lib = "vm"
  <2>1. g = VmGet(h, file, item, clock) BY <1>7 DEF GetOf
  <2> HIDE DEF g
  <2>2. VmGetKeeps(g, h, clock) BY <1>1, <1>7, <2>1, VmGetOk DEF Holds
  <2>q. QED BY <1>2, <1>7, <1>a, <2>2 DEF VmGetKeeps, CallOk, Holds
<1>q. QED BY <1>3, <1>4, <1>5, <1>6, <1>7, LibIs

\* The calls that only some of the libraries have.
LEMMA ReapCallOk ==
  ASSUME HandleInv, h.ref > 0, NEW items, NEW numa \in BOOLEAN, NEW junk, NEW r,
         \/ lib = "stat" /\ r = StatReap(h, file, numa, items, junk)
         \/ lib = "disk" /\ r = DiskReap(h, file, items, clock)
         \/ lib = "slab" /\ r = SlabReap(h, file, items)
  PROVE  CallOk("reap", r) /\ r.h.ref = h.ref
<1>1. Holds(lib, h) /\ FileOk(lib, file) /\ clock \in Nat BY DEF HandleInv, HandleOk, LibType
<1>2. h.ref \in Nat /\ (lib # "disk" => h.secs \in Nat) BY <1>1, HoldsRef, LibIs
<1>3. CASE lib = "stat"
  <2>1. r = StatReap(h, file, numa, items, junk) BY <1>3
  <2>2. StatKeeps(r, h) BY <1>1, <1>3, <2>1, StatReapOk DEF Holds
  <2>q. QED BY <1>2, <1>3, <2>2 DEF StatKeeps, CallOk, Holds
<1>4. CASE lib = "disk"
  <2>1. r = DiskReap(h, file, items, clock) BY <1>4
  <2>2. DiskReapKeeps(r, h, file, items, clock) BY <1>1, <1>4, <2>1, DiskReapOk DEF Holds
  <2>3. DiskOk(h) BY <1>1, <1>4 DEF Holds
  <2>4. DiskDone(r, h, file, clock) \/ r = [ok |-> FALSE, h |-> h] BY <2>2 DEF DiskReapKeeps
  <2>5. DiskOk(r.h) /\ r.h.ref = h.ref /\ r.ok \in BOOLEAN
    <3>1. CASE DiskDone(r, h, file, clock) BY <3>1 DEF DiskDone
    <3>2. CASE r = [ok |-> FALSE, h |-> h] BY <2>3, <3>2
    <3>q. QED BY <2>4, <3>1, <3>2
  <2>q. QED BY <1>2, <1>4, <2>5 DEF CallOk, Holds
<1>5. CASE lib = "slab"
  <2>1. r = SlabReap(h, file, items) BY <1>5
  <2>2. SlabKeeps(r, h) BY <1>1, <1>5, <2>1, SlabReapOk DEF Holds
  <2>q. QED BY <1>2, <1>5, <2>2 DEF SlabKeeps, CallOk, Holds
<1>q. QED BY <1>3, <1>4, <1>5

\* So it is with sort, which only orders the results.
LEMMA SortCallOk ==
  ASSUME HandleInv, h.ref > 0, NEW rows, NEW r,
         \/ lib = "stat" /\ r = [ok |-> TRUE, h |-> [h EXCEPT !.cpuRows = rows]]
         \/ lib \in {"disk", "slab"} /\ r = [ok |-> TRUE, h |-> [h EXCEPT !.rows = rows]]
  PROVE  CallOk("sort", r) /\ r.h.ref = h.ref
<1>1. Holds(lib, h) BY DEF HandleInv, HandleOk, LibType
<1>2. h.ref \in Nat /\ (lib # "disk" => h.secs \in Nat) BY <1>1, HoldsRef, LibIs
<1>a. r.ok = TRUE OBVIOUS
<1>3. CASE lib = "stat"
  <2>1. StatFull(h) BY <1>1, <1>3 DEF Holds
  <2>2. StatFull(r.h) /\ r.h.ref = h.ref /\ r.h.secs = h.secs
    BY <1>3, <2>1 DEF StatFull, StatOk, BlankStat
  <2>q. QED BY <1>2, <1>3, <1>a, <2>2 DEF CallOk, Holds
<1>4. CASE lib = "disk"
  <2>1. DiskOk(h) BY <1>1, <1>4 DEF Holds
  <2>2. DiskOk(r.h) /\ r.h.ref = h.ref BY <1>4, <2>1 DEF DiskOk, DiskShape, BlankDisk
  <2>q. QED BY <1>2, <1>4, <1>a, <2>2 DEF CallOk, Holds
<1>5. CASE lib = "slab"
  <2>1. SlabOk(h) BY <1>1, <1>5 DEF Holds
  <2>2. SlabOk(r.h) /\ r.h.ref = h.ref /\ r.h.secs = h.secs BY <1>5, <2>1 DEF SlabOk, BlankSlab
  <2>q. QED BY <1>2, <1>5, <1>a, <2>2 DEF CallOk, Holds
<1>q. QED BY <1>3, <1>4, <1>5

-------------------------------------------------------------------------------
\* What the reads found are files of the library, in the order of their seconds.
ReadsOk ==
  /\ \A k \in 1 .. 3 : reads[k].at \in Int
  /\ lib = "disk" => /\ reads[1].at <= reads[2].at /\ reads[2].at <= reads[3].at
                     /\ reads[3].at <= clock
  /\ lib \in {"stat", "disk"} =>
       \A k \in 1 .. 3 : reads[k].file.status = "fine" => FileOk(lib, reads[k].file)

\* The samples of the handle are those of the last reads.
SamplesOk ==
  h.ref > 0 =>
    /\ lib = "stat" /\ reads[3].file.status = "fine" => StatSampled(h, reads[3].file)
    /\ lib = "disk" => DiskSampled(h, reads[2], reads[3])

RInv == HandleInv /\ ReadsOk /\ SamplesOk /\ ChangesAreReal

\* What a call does to the samples, and what a reap shows of them.
Sampling(op, items, r) ==
  LET did == Reads(op, items)
  IN r.h.ref > 0 =>
       /\ lib = "stat" => IF op = "new" THEN file.status = "fine" => StatMoved(r.h, BlankStat, file)
                          ELSE StatDid(r, h, file, did)
       /\ lib = "disk" => IF op = "new"
                          THEN file.status = "fine" /\ AfterRead(r.h, BlankDisk, file, clock)
                          ELSE IF did THEN AfterRead(r.h, h, file, clock) ELSE Less(r.h, h)
Showing(op, items, r) ==
  op = "reap" /\ r.ok =>
    /\ lib = "stat" => ItemsOk(items, StatTable) /\ (file.status = "fine" => StatShown(r.h, items))
    /\ lib = "disk" => /\ ItemsOk(items, DiskTable) /\ file.status = "fine"
                       /\ r.h.rows = [k \in 1 .. Len(r.h.nodes) |-> DiskAssign(items, r.h.nodes[k])]

\* A call adds its read, if any, to the last ones in the order of their seconds.
LEMMA CallReads ==
  ASSUME HandleInv, ReadsOk, NEW op, NEW items, NEW r, Called(op, items, r)
  PROVE  ReadsOk'
<1>1. /\ lib' = lib /\ clock' = clock
      /\ reads' = IF Reads(op, items) /\ lib \in {"stat", "disk"}
                  THEN <<IF lib = "disk" THEN reads[2] ELSE Unread, reads[3],
                         [file |-> file, at |-> clock]>>
                  ELSE reads
  BY DEF Called
<1>2. clock \in Int /\ FileOk(lib, file) BY DEF HandleInv, LibType
<1>3. CASE Reads(op, items) /\ lib \in {"stat", "disk"}
  <2>1. /\ reads'[1] = IF lib = "disk" THEN reads[2] ELSE Unread
        /\ reads'[2] = reads[3] /\ reads'[3] = [file |-> file, at |-> clock]
    BY <1>1, <1>3
  <2>2. reads'[1].at \in Int /\ reads'[2].at \in Int /\ reads'[3].at \in Int
    BY <1>2, <2>1 DEF ReadsOk, Unread
  <2>3. lib = "disk" => /\ reads'[1].at <= reads'[2].at /\ reads'[2].at <= reads'[3].at
                        /\ reads'[3].at <= clock
    BY <1>2, <2>1 DEF ReadsOk
  <2>4. ASSUME NEW k \in 1 .. 3, reads'[k].file.status = "fine" PROVE FileOk(lib, reads'[k].file)
    <3>1. CASE k = 1
      <4>1. CASE lib = "disk" BY <1>3, <2>1, <2>4, <3>1, <4>1 DEF ReadsOk
      <4>2. CASE lib # "disk" BY <2>1, <2>4, <3>1, <4>2 DEF Unread
      <4>q. QED BY <4>1, <4>2
    <3>2. CASE k = 2 BY <1>3, <2>1, <2>4, <3>2 DEF ReadsOk
    <3>3. CASE k = 3 BY <1>2, <2>1, <3>3
    <3>q. QED BY <3>1, <3>2, <3>3
  <2>5. \A k \in 1 .. 3 : reads'[k].at \in Int BY <2>2
  <2>6. \A k \in 1 .. 3 : reads'[k].file.status = "fine" => FileOk(lib', reads'[k].file)
    BY <1>1, <2>4
  <2>q. QED BY <1>1, <2>3, <2>5, <2>6 DEF ReadsOk
<1>4. CASE ~ (Reads(op, items) /\ lib \in {"stat", "disk"})
  <2>1. reads' = reads BY <1>1, <1>4
  <2>2. \A k \in 1 .. 3 : FileOk(lib, reads[k].file)' <=> FileOk(lib, reads[k].file)
    BY <1>1, <2>1 DEF FileOk
  <2>q. QED BY <1>1, <2>1, <2>2 DEF ReadsOk
<1>q. QED BY <1>3, <1>4

\* A call that did what Sampling says leaves the samples those of the last reads.
LEMMA CallSamples ==
  ASSUME HandleInv, ReadsOk, SamplesOk, NEW op, NEW items, NEW r, Called(op, items, r),
         op # "new" => h.ref > 0, Sampling(op, items, r)
  PROVE  SamplesOk'
<1> DEFINE did == Reads(op, items)
<1>1. /\ lib' = lib /\ h' = r.h
      /\ reads' = IF did /\ lib \in {"stat", "disk"}
                  THEN <<IF lib = "disk" THEN reads[2] ELSE Unread, reads[3],
                         [file |-> file, at |-> clock]>>
                  ELSE reads
  BY DEF Called
<1>2. clock \in Int /\ FileOk(lib, file) BY DEF HandleInv, LibType
<1>3. op = "new" => did BY DEF Reads
<1> HIDE DEF did
<1> SUFFICES ASSUME r.h.ref > 0
             PROVE  /\ lib = "stat" /\ reads'[3].file.status = "fine"
                         => StatSampled(r.h, reads'[3].file)
                    /\ lib = "disk" => DiskSampled(r.h, reads'[2], reads'[3])
  <2>1. r.h.ref > 0 => /\ lib = "stat" /\ reads'[3].file.status = "fine"
                            => StatSampled(r.h, reads'[3].file)
                       /\ lib = "disk" => DiskSampled(r.h, reads'[2], reads'[3])
    OBVIOUS
  <2>2. StatSampled(h, reads[3].file)' <=> StatSampled(r.h, reads'[3].file)
    BY <1>1 DEF StatSampled
  <2>3. DiskSampled(h, reads[2], reads[3])' <=> DiskSampled(r.h, reads'[2], reads'[3])
    BY <1>1 DEF DiskSampled, Has
  <2>q. QED BY <1>1, <2>1, <2>2, <2>3 DEF SamplesOk
<1>4. did /\ lib \in {"stat", "disk"}
        => reads'[2] = reads[3] /\ reads'[3] = [file |-> file, at |-> clock]
  BY <1>1
<1>5. ASSUME lib = "stat", reads'[3].file.status = "fine" PROVE StatSampled(r.h, reads'[3].file)
  <2>1. CASE did
    <3>1. reads'[3].file = file BY <1>4, <1>5, <2>1
    <3>2. PICK g : StatMoved(r.h, g, file) BY <1>5, <2>1, <3>1 DEF Sampling, StatDid, did
    <3>q. QED BY <3>1, <3>2, MovedSampled
  <2>2. CASE ~ did
    <3>1. StatStays(r.h, h) /\ h.ref > 0 BY <1>3, <1>5, <2>2 DEF Sampling, StatDid, did
    <3>2. reads' = reads BY <1>1, <2>2
    <3>3. StatSampled(h, reads[3].file) BY <1>5, <3>1, <3>2 DEF SamplesOk
    <3>q. QED BY <3>1, <3>2, <3>3 DEF StatStays, StatSampled
  <2>q. QED BY <2>1, <2>2
<1>6. ASSUME lib = "disk" PROVE DiskSampled(r.h, reads'[2], reads'[3])
  <2>1. CASE op = "new"
    <3>1. file.status = "fine" /\ AfterRead(r.h, BlankDisk, file, clock) BY <1>6, <2>1 DEF Sampling
    <3>2. reads'[3].file = file /\ reads'[3].at = clock BY <1>3, <1>4, <1>6, <2>1
    <3>q. QED BY <1>2, <3>1, <3>2, NewSampled
  <2>2. CASE op # "new"
    <3>1. h.ref > 0 /\ DiskSampled(h, reads[2], reads[3]) BY <1>6, <2>2 DEF SamplesOk
    <3>2. CASE did
      <4>1. AfterRead(r.h, h, file, clock) BY <1>6, <2>2, <3>2 DEF Sampling, did
      <4>2. reads'[2] = reads[3] /\ reads'[3].file = file /\ reads'[3].at = clock
        BY <1>4, <1>6, <3>2
      <4>3. reads[3].at \in Int /\ reads[3].at <= clock BY <1>6 DEF ReadsOk
      <4>4. NodesOk(h.nodes) BY <1>6, <3>1 DEF HandleInv, HandleOk, Holds, DiskOk, DiskShape
      <4>5. DiskSampled(r.h, reads[3], reads'[3])
        BY <1>2, <3>1, <4>1, <4>2, <4>3, <4>4, ReadSampled
      <4>q. QED BY <4>2, <4>5
    <3>3. CASE ~ did
      <4>1. Less(r.h, h) BY <1>6, <2>2, <3>3 DEF Sampling, did
      <4>2. reads' = reads BY <1>1, <3>3
      <4>q. QED BY <3>1, <4>1, <4>2, LessSampled
    <3>q. QED BY <3>2, <3>3
  <2>q. QED BY <2>1, <2>2
<1>q. QED BY <1>5, <1>6

\* What a change that is shown is to be, in terms of the last reads.
Shown ==
  /\ lib = "stat" => StatTrue(h, reads[3].file, reads[2].file, last.items)
  /\ lib = "disk" /\ last.items = <<"NAME", "DELTA_IO">> =>
       DiskTrue(h, reads[1], reads[2], reads[3])

\* And if it did what Showing says, what it shows is real.
LEMMA CallReal ==
  ASSUME HandleInv, ReadsOk, SamplesOk, NEW op, NEW items, NEW r, Called(op, items, r),
         CallOk(op, r), op # "new" => h.ref > 0, Sampling(op, items, r), Showing(op, items, r)
  PROVE  ChangesAreReal'
<1>1. /\ lib' = lib /\ h' = r.h /\ last'.op = op /\ last'.ok = r.ok /\ last'.items = items
      /\ reads' = IF Reads(op, items) /\ lib \in {"stat", "disk"}
                  THEN <<IF lib = "disk" THEN reads[2] ELSE Unread, reads[3],
                         [file |-> file, at |-> clock]>>
                  ELSE reads
  BY DEF Called
<1>2. clock \in Int /\ FileOk(lib, file) BY DEF HandleInv, LibType
<1> SUFFICES ASSUME r.h.ref > 0, op = "reap", r.ok,
                    \A k \in {2, 3} : reads'[k].file.status = "fine"
             PROVE  /\ lib = "stat" => StatTrue(r.h, reads'[3].file, reads'[2].file, items)
                    /\ lib = "disk" /\ items = <<"NAME", "DELTA_IO">> =>
                         DiskTrue(r.h, reads'[1], reads'[2], reads'[3])
  <2>1. (Changes => Shown)' BY <1>1 DEF Changes, Shown
  <2>2. (Changes => Shown)' => ChangesAreReal'
    BY Zenon DEF ChangesAreReal, Shown, StatTrue, DiskTrue, HasLine, ValOf
  <2>q. QED BY <2>1, <2>2
<1>3. h.ref > 0 /\ Holds(lib, h) BY DEF HandleInv, HandleOk
<1>4. lib \in {"stat", "disk"} =>
        reads'[2] = reads[3] /\ reads'[3] = [file |-> file, at |-> clock]
  BY <1>1 DEF Showing, Reads, Table
<1>5. ASSUME lib = "stat" PROVE StatTrue(r.h, reads'[3].file, reads'[2].file, items)
  <2>1. reads'[3].file = file /\ reads'[2] = reads[3] BY <1>4, <1>5
  <2>2. file.status = "fine" /\ reads[3].file.status = "fine" BY <2>1
  <2>3. ItemsOk(items, StatTable) /\ StatShown(r.h, items) BY <1>5, <2>2 DEF Showing
  <2>4. StatMoved(r.h, h, file) BY <1>5, <2>2, <2>3 DEF Sampling, StatDid, Reads, Table
  <2>5. StatSampled(h, reads[3].file) BY <1>3, <1>5, <2>2 DEF SamplesOk
  <2>6. FileOk("stat", reads[3].file) BY <1>5, <2>2 DEF ReadsOk
  <2>7. StatFull(h) BY <1>3, <1>5 DEF Holds
  <2>q. QED BY <1>2, <1>5, <2>1, <2>3, <2>4, <2>5, <2>6, <2>7, StatShowsTrue
<1>6. ASSUME lib = "disk", items = <<"NAME", "DELTA_IO">>
      PROVE  DiskTrue(r.h, reads'[1], reads'[2], reads'[3])
  <2>1. /\ ItemsOk(items, DiskTable)
        /\ r.h.rows = [k \in 1 .. Len(r.h.nodes) |-> DiskAssign(items, r.h.nodes[k])]
    BY <1>6 DEF Showing
  <2>2. reads'[1] = reads[2] /\ reads'[2] = reads[3] /\ reads'[3] = [file |-> file, at |-> clock]
    BY <1>1, <1>6, <2>1 DEF Reads, Table
  <2>3. file.status = "fine" /\ reads[3].file.status = "fine" BY <2>2
  <2>4. AfterRead(r.h, h, file, clock) BY <1>6, <2>1 DEF Sampling, Reads, Table
  <2>5. DiskSampled(h, reads[2], reads[3]) BY <1>3, <1>6 DEF SamplesOk
  <2>6. /\ FileOk("disk", reads[3].file) /\ reads[2].at \in Int /\ reads[3].at \in Int
        /\ reads[2].at <= reads[3].at /\ reads[3].at <= clock
    BY <1>6, <2>3 DEF ReadsOk
  <2>7. DiskShape(h) BY <1>3, <1>6 DEF Holds, DiskOk
  <2>8. NodesOk(r.h.nodes) BY <1>6 DEF CallOk, Holds, DiskOk, DiskShape
  <2>9. r.h.rows = [k \in 1 .. Len(r.h.nodes) |-> DiskAssign(<<"NAME", "DELTA_IO">>, r.h.nodes[k])]
    BY <1>6, <2>1
  <2>10. reads'[3].at = clock /\ reads'[3].file = file BY <2>2
  <2>q. QED BY <1>2, <1>6, <2>2, <2>3, <2>4, <2>5, <2>6, <2>7, <2>8, <2>9, <2>10, DiskShowsTrue
<1>q. QED BY <1>5, <1>6

\* Each call, and the samples.
LEMMA NewCallSamples ==
  ASSUME HandleInv, NEW junk, NEW items
  PROVE  Sampling("new", items, NewOf(junk)) /\ Showing("new", items, NewOf(junk))
<1> DEFINE r == NewOf(junk)
<1>1. CASE lib = "stat"
  <2>1. r = StatNew(file, junk) BY <1>1 DEF NewOf
  <2>2. FileOk("stat", file) BY <1>1 DEF HandleInv, LibType
  <2> HIDE DEF r
  <2>3. file.status = "fine" => StatMoved(r.h, BlankStat, file) BY <2>1, <2>2, StatNewDid
  <2>q. QED BY <1>1, <2>3 DEF Sampling, Showing, r
<1>2. CASE lib = "disk"
  <2>1. r = DiskNew(file, clock) BY <1>2 DEF NewOf
  <2>2. FileOk("disk", file) /\ clock \in Int BY <1>2 DEF HandleInv, LibType
  <2> HIDE DEF r
  <2>3. DiskNewKeeps(r, file, clock) BY <2>1, <2>2, DiskNewOk
  <2>4. r.h.ref > 0 => file.status = "fine" /\ AfterRead(r.h, BlankDisk, file, clock)
    BY <2>3 DEF DiskNewKeeps, DiskDone
  <2>q. QED BY <1>2, <2>4 DEF Sampling, Showing, r
<1>3. CASE lib \notin {"stat", "disk"} BY <1>3 DEF Sampling, Showing
<1>q. QED BY <1>1, <1>2, <1>3

\* So it is with select, which shows nothing.
LEMMA SelectCallSamples ==
  ASSUME HandleInv, h.ref > 0, NEW items, NEW junk
  PROVE  /\ Sampling("select", items, SelectOf(items, junk))
         /\ Showing("select", items, SelectOf(items, junk))
<1> DEFINE r == SelectOf(items, junk)
<1>a. Holds(lib, h) /\ FileOk(lib, file) /\ clock \in Int BY DEF HandleInv, HandleOk, LibType
<1>1. CASE lib = "stat"
  <2>1. r = StatSelect(h, file, items, junk) BY <1>1 DEF SelectOf
  <2> HIDE DEF r
  <2>2. StatDid(r, h, file, ItemsOk(items, StatTable))
    BY <1>1, <1>a, <2>1, StatSelectDid DEF Holds
  <2>3. Reads("select", items) <=> ItemsOk(items, StatTable) BY <1>1 DEF Reads, Table
  <2>4. StatDid(r, h, file, Reads("select", items)) BY <2>2, <2>3 DEF StatDid
  <2>q. QED BY <1>1, <2>4 DEF Sampling, Showing, r
<1>2. CASE lib = "disk"
  <2>1. r = DiskSelect(h, file, 1, items, clock) BY <1>2 DEF SelectOf
  <2> HIDE DEF r
  <2>2. DiskSelectKeeps(r, h, file, items, clock) BY <1>2, <1>a, <2>1, DiskSelectOk DEF Holds
  <2>3. Reads("select", items) <=> ItemsOk(items, DiskTable) BY <1>2 DEF Reads, Table
  <2>4. Reads("select", items) => AfterRead(r.h, h, file, clock)
    BY <2>2, <2>3 DEF DiskSelectKeeps, DiskDone
  <2>5. ~ Reads("select", items) => r.h = h BY <2>2, <2>3 DEF DiskSelectKeeps
  <2>6. ~ Reads("select", items) => Less(r.h, h) BY <2>5 DEF Less
  <2>q. QED BY <1>2, <2>4, <2>6 DEF Sampling, Showing, r
<1>3. CASE lib \notin {"stat", "disk"} BY <1>3 DEF Sampling, Showing
<1>q. QED BY <1>1, <1>2, <1>3

\* So it is with get.
LEMMA GetCallSamples ==
  ASSUME HandleInv, h.ref > 0, NEW item, NEW items, NEW junk, NEW r, r.h = GetOf(item, junk).h
  PROVE  Sampling("get", items, r) /\ Showing("get", items, r)
<1> DEFINE g == GetOf(item, junk)
<1>a. Holds(lib, h) /\ FileOk(lib, file) /\ clock \in Nat BY DEF HandleInv, HandleOk, LibType
<1>b. r.h = g.h OBVIOUS
<1>1. CASE lib = "stat"
  <2>1. g = StatGet(h, file, item, clock, junk) BY <1>1 DEF GetOf
  <2> HIDE DEF g
  <2>2. StatDid(g, h, file, clock - h.secs >= 1) BY <1>1, <1>a, <2>1, StatGetDid DEF Holds
  <2>3. Reads("get", items) <=> clock - h.secs >= 1 BY <1>1 DEF Reads
  <2>4. StatDid(r, h, file, Reads("get", items)) BY <1>b, <2>2, <2>3 DEF StatDid
  <2>q. QED BY <1>1, <2>4 DEF Sampling, Showing
<1>2. CASE lib = "disk"
  <2>1. g = DiskGet(h, file, 1, item, clock) BY <1>2 DEF GetOf
  <2> HIDE DEF g
  <2>2. DiskGetKeeps(g, h, file, clock) BY <1>2, <1>a, <2>1, DiskGetOk DEF Holds
  <2>3. Reads("get", items) <=> clock - h.newStamp >= 1 BY <1>2 DEF Reads
  <2>4. IF Reads("get", items) THEN AfterRead(r.h, h, file, clock) ELSE Less(r.h, h)
    BY <1>b, <2>2, <2>3 DEF DiskGetKeeps
  <2>q. QED BY <1>2, <2>4 DEF Sampling, Showing
<1>3. CASE lib \notin {"stat", "disk"} BY <1>3 DEF Sampling, Showing
<1>q. QED BY <1>1, <1>2, <1>3

\* So it is with reap.
LEMMA ReapCallSamples ==
  ASSUME HandleInv, h.ref > 0, NEW items, NEW numa \in BOOLEAN, NEW junk, NEW r,
         \/ lib = "stat" /\ r = StatReap(h, file, numa, items, junk)
         \/ lib = "disk" /\ r = DiskReap(h, file, items, clock)
         \/ lib = "slab" /\ r = SlabReap(h, file, items)
  PROVE  Sampling("reap", items, r) /\ Showing("reap", items, r)
<1>a. Holds(lib, h) /\ FileOk(lib, file) /\ clock \in Int BY DEF HandleInv, HandleOk, LibType
<1>1. CASE lib = "stat"
  <2>1. r = StatReap(h, file, numa, items, junk) BY <1>1
  <2>2. StatReapShows(r, h, file, items) BY <1>1, <1>a, <2>1, StatReapDid DEF Holds
  <2>3. Reads("reap", items) <=> ItemsOk(items, StatTable) BY <1>1 DEF Reads, Table
  <2>4. StatDid(r, h, file, Reads("reap", items)) BY <2>2, <2>3 DEF StatReapShows, StatDid
  <2>5. r.ok => ItemsOk(items, StatTable) /\ (file.status = "fine" => StatShown(r.h, items))
    BY <2>2 DEF StatReapShows
  <2>q. QED BY <1>1, <2>4, <2>5 DEF Sampling, Showing
<1>2. CASE lib = "disk"
  <2>1. r = DiskReap(h, file, items, clock) BY <1>2
  <2>2. DiskReapKeeps(r, h, file, items, clock) BY <1>2, <1>a, <2>1, DiskReapOk DEF Holds
  <2>3. Reads("reap", items) <=> ItemsOk(items, DiskTable) BY <1>2 DEF Reads, Table
  <2>4. Reads("reap", items) => AfterRead(r.h, h, file, clock)
    BY <2>2, <2>3 DEF DiskReapKeeps, DiskDone
  <2>5. ~ Reads("reap", items) => r.h = h /\ ~ r.ok BY <2>2, <2>3 DEF DiskReapKeeps
  <2>6. ~ Reads("reap", items) => Less(r.h, h) BY <2>5 DEF Less
  <2>7. r.ok => /\ ItemsOk(items, DiskTable) /\ file.status = "fine"
                /\ r.h.rows = [k \in 1 .. Len(r.h.nodes) |-> DiskAssign(items, r.h.nodes[k])]
    BY <2>2, <2>3, <2>5 DEF DiskReapKeeps
  <2>q. QED BY <1>2, <2>4, <2>6, <2>7 DEF Sampling, Showing
<1>3. CASE lib \notin {"stat", "disk"} BY <1>3 DEF Sampling, Showing
<1>q. QED BY <1>1, <1>2, <1>3

\* A call that does not read, and changes no sample.
LEMMA OtherCallSamples ==
  ASSUME HandleInv, h.ref > 0, NEW op \in {"sort", "ref", "unref"}, NEW items, NEW r,
         r.h.ref > 0 /\ lib = "stat" => StatStays(r.h, h),
         r.h.ref > 0 /\ lib = "disk" => r.h.nodes = h.nodes /\ r.h.newStamp = h.newStamp
  PROVE  Sampling(op, items, r) /\ Showing(op, items, r)
<1>1. ~ Reads(op, items) BY DEF Reads
<1>2. r.h.ref > 0 /\ lib = "disk" => Less(r.h, h) BY DEF Less
<1>3. r.h.ref > 0 /\ lib = "stat" => StatDid(r, h, file, Reads(op, items)) BY <1>1 DEF StatDid
<1>q. QED BY <1>1, <1>2, <1>3 DEF Sampling, Showing

\* So it is with sort, which takes the results in another order.
LEMMA SortCallSamples ==
  ASSUME HandleInv, h.ref > 0, NEW items, NEW rows, NEW r,
         \/ lib = "stat" /\ r = [ok |-> TRUE, h |-> [h EXCEPT !.cpuRows = rows]]
         \/ lib \in {"disk", "slab"} /\ r = [ok |-> TRUE, h |-> [h EXCEPT !.rows = rows]]
  PROVE  Sampling("sort", items, r) /\ Showing("sort", items, r)
<1>1. lib = "stat" => StatStays(r.h, h)
  <2> SUFFICES ASSUME lib = "stat" PROVE StatStays(r.h, h) OBVIOUS
  <2>1. DOMAIN h = DOMAIN BlankStat BY DEF HandleInv, HandleOk, Holds, StatFull, StatOk
  <2>q. QED BY <2>1 DEF StatStays, BlankStat
<1>2. lib = "disk" => r.h.nodes = h.nodes /\ r.h.newStamp = h.newStamp
  <2> SUFFICES ASSUME lib = "disk" PROVE r.h.nodes = h.nodes /\ r.h.newStamp = h.newStamp OBVIOUS
  <2>1. DOMAIN h = DOMAIN BlankDisk BY DEF HandleInv, HandleOk, Holds, DiskOk, DiskShape
  <2>q. QED BY <2>1 DEF BlankDisk
<1>q. QED BY <1>1, <1>2, OtherCallSamples

\* So it is with ref and unref.
LEMMA RefCallSamples ==
  ASSUME HandleInv, h.ref > 0, NEW op \in {"ref", "unref"}, NEW items, NEW n, NEW r,
         r.h.ref > 0 => r.h = [h EXCEPT !.ref = n]
  PROVE  Sampling(op, items, r) /\ Showing(op, items, r)
<1>1. r.h.ref > 0 /\ lib = "stat" => StatStays(r.h, h)
  <2> SUFFICES ASSUME lib = "stat", r.h.ref > 0 PROVE StatStays(r.h, h) OBVIOUS
  <2>1. DOMAIN h = DOMAIN BlankStat BY DEF HandleInv, HandleOk, Holds, StatFull, StatOk
  <2>q. QED BY <2>1 DEF StatStays, BlankStat
<1>2. r.h.ref > 0 /\ lib = "disk" => r.h.nodes = h.nodes /\ r.h.newStamp = h.newStamp
  <2> SUFFICES ASSUME lib = "disk", r.h.ref > 0
               PROVE  r.h.nodes = h.nodes /\ r.h.newStamp = h.newStamp
    OBVIOUS
  <2>1. DOMAIN h = DOMAIN BlankDisk BY DEF HandleInv, HandleOk, Holds, DiskOk, DiskShape
  <2>q. QED BY <2>1 DEF BlankDisk
<1>q. QED BY <1>1, <1>2, OtherCallSamples

\* Before the first call there is no handle.
LEMMA HandleInvInit == LibInit => HandleInv
<1> SUFFICES ASSUME LibInit PROVE HandleInv OBVIOUS
<1>1. LibType BY ProcLibAssumption DEF LibInit, LibType
<1>2. h.ref = 0 /\ last.op = "none" BY DEF LibInit, None
<1>3. HandleOk BY <1>2 DEF LibInit, HandleOk
<1>4. GetReadsAgain BY <1>2 DEF GetReadsAgain
<1>q. QED BY <1>1, <1>3, <1>4 DEF HandleInv

\* Nor has anything been read.
LEMMA RInvInit == LibInit => RInv
<1> SUFFICES ASSUME LibInit PROVE RInv OBVIOUS
<1>1. HandleInv BY HandleInvInit
<1>2. /\ h.ref = 0 /\ clock = 1 /\ last.op = "none" /\ reads[1] = Unread /\ reads[2] = Unread
      /\ reads[3] = Unread
  BY DEF LibInit, None
<1>3. \A k \in 1 .. 3 : reads[k] = Unread BY <1>2
<1>4. ReadsOk BY <1>2, <1>3 DEF ReadsOk, Unread
<1>5. SamplesOk BY <1>2 DEF SamplesOk
<1>6. ChangesAreReal BY <1>2 DEF ChangesAreReal, Changes
<1>q. QED BY <1>1, <1>4, <1>5, <1>6 DEF RInv

\* A call that did what the three say preserves the whole invariant.
LEMMA CallAll ==
  ASSUME RInv, NEW op, NEW items, NEW r, Called(op, items, r), CallOk(op, r),
         op # "new" => h.ref > 0, op = "reap" => r.h.ref = h.ref, refs' = r.h.ref,
         Sampling(op, items, r), Showing(op, items, r)
  PROVE  RInv'
<1>1. HandleInv /\ ReadsOk /\ SamplesOk BY DEF RInv
<1>2. HandleInv' BY <1>1, CallInv
<1>3. ReadsOk' BY <1>1, CallReads
<1>4. SamplesOk' BY <1>1, CallSamples
<1>5. ChangesAreReal' BY <1>1, CallReal
<1>q. QED BY <1>2, <1>3, <1>4, <1>5 DEF RInv

\* A step that is no call.
LEMMA QuietInv ==
  ASSUME RInv, HandleInv', lib' = lib, h' = h, reads' = reads, last' = last,
         clock' = clock \/ clock' = clock + 1
  PROVE  RInv'
<1>1. clock \in Int BY DEF RInv, HandleInv, LibType
<1>2. ReadsOk'
  <2>1. \A k \in 1 .. 3 : FileOk(lib, reads[k].file)' <=> FileOk(lib, reads[k].file) BY DEF FileOk, ULongs
  <2>2. lib = "disk" => reads[3].at <= clock' BY <1>1 DEF RInv, ReadsOk
  <2>q. QED BY <2>1, <2>2 DEF RInv, ReadsOk
<1>3. SamplesOk'
  <2>1. StatSampled(h, reads[3].file)' <=> StatSampled(h, reads[3].file) BY DEF StatSampled
  <2>2. DiskSampled(h, reads[2], reads[3])' <=> DiskSampled(h, reads[2], reads[3])
    BY DEF DiskSampled, Has
  <2>q. QED BY <2>1, <2>2 DEF RInv, SamplesOk
<1>4. ChangesAreReal'
  <2>1. Changes => Shown
    <3>1. ChangesAreReal BY DEF RInv
    <3>q. QED BY <3>1, Zenon DEF ChangesAreReal, Shown, StatTrue, DiskTrue, HasLine, ValOf
  <2>2. (Changes => Shown)' BY <2>1 DEF Changes, Shown
  <2>3. (Changes => Shown)' => ChangesAreReal'
    BY Zenon DEF ChangesAreReal, Shown, StatTrue, DiskTrue, HasLine, ValOf
  <2>q. QED BY <2>2, <2>3
<1>q. QED BY <1>2, <1>3, <1>4 DEF RInv

\* So every step does.
LEMMA RInvNext == RInv /\ [LibNext]_libVars => RInv'
<1> SUFFICES ASSUME RInv, [LibNext]_libVars PROVE RInv' OBVIOUS
<1>0. HandleInv BY DEF RInv
<1>a. h.ref \in Nat /\ h.ref = refs BY <1>0 DEF HandleInv, LibType, HandleOk
<1>1. CASE New
  <2>1. PICK junk \in Junk : /\ Called("new", <<1>>, NewOf(junk))
                             /\ refs' = IF NewOf(junk).ok THEN 1 ELSE 0
    BY <1>1 DEF New
  <2>2. CallOk("new", NewOf(junk)) /\ refs' = NewOf(junk).h.ref BY <1>0, <2>1, NewCallOk
  <2>3. Sampling("new", <<1>>, NewOf(junk)) /\ Showing("new", <<1>>, NewOf(junk))
    BY <1>0, NewCallSamples
  <2>q. QED BY <2>1, <2>2, <2>3, CallAll
<1>2. CASE Select
  <2>1. PICK items \in Items(lib), junk \in Junk : Called("select", items, SelectOf(items, junk))
    BY <1>2 DEF Select
  <2>2. CallOk("select", SelectOf(items, junk)) /\ refs' = SelectOf(items, junk).h.ref
    BY <1>0, <1>2, <1>a, SelectCallOk DEF Select
  <2>3. /\ Sampling("select", items, SelectOf(items, junk))
        /\ Showing("select", items, SelectOf(items, junk))
    BY <1>0, <1>2, SelectCallSamples DEF Select
  <2>q. QED BY <1>2, <2>1, <2>2, <2>3, CallAll DEF Select
<1>3. CASE Get
  <2>1. PICK items \in Items(lib) \ {<<>>}, junk \in Junk :
          Called("get", items, [ok |-> GetOf(items[1], junk).ok, h |-> GetOf(items[1], junk).h])
    BY <1>3 DEF Get
  <2> DEFINE r == [ok |-> GetOf(items[1], junk).ok, h |-> GetOf(items[1], junk).h]
  <2>2. r.ok = GetOf(items[1], junk).ok /\ r.h = GetOf(items[1], junk).h OBVIOUS
  <2> HIDE DEF r
  <2>3. CallOk("get", r) /\ refs' = r.h.ref BY <1>0, <1>3, <1>a, <2>2, GetCallOk DEF Get
  <2>4. Called("get", items, r) BY <2>1 DEF r
  <2>5. Sampling("get", items, r) /\ Showing("get", items, r)
    BY <1>0, <1>3, <2>2, GetCallSamples DEF Get
  <2>q. QED BY <1>3, <2>3, <2>4, <2>5, CallAll DEF Get
<1>4. CASE Reap
  <2>1. PICK items \in Items(lib), numa \in BOOLEAN, junk \in Junk :
          \/ lib = "stat" /\ Called("reap", items, StatReap(h, file, numa, items, junk))
          \/ lib = "disk" /\ numa /\ Called("reap", items, DiskReap(h, file, items, clock))
          \/ lib = "slab" /\ numa /\ Called("reap", items, SlabReap(h, file, items))
    BY <1>4 DEF Reap
  <2>2. PICK r : /\ Called("reap", items, r)
                 /\ \/ lib = "stat" /\ r = StatReap(h, file, numa, items, junk)
                    \/ lib = "disk" /\ r = DiskReap(h, file, items, clock)
                    \/ lib = "slab" /\ r = SlabReap(h, file, items)
    BY <2>1
  <2>3. CallOk("reap", r) /\ r.h.ref = h.ref BY <1>0, <1>4, <2>2, ReapCallOk DEF Reap
  <2>4. Sampling("reap", items, r) /\ Showing("reap", items, r)
    BY <1>0, <1>4, <2>2, ReapCallSamples DEF Reap
  <2>q. QED BY <1>4, <1>a, <2>2, <2>3, <2>4, CallAll DEF Reap
<1>5. CASE Sort
  <2>1. h.ref > 0 BY <1>0, <1>5 DEF Sort, HandleInv, HandleOk
  <2>2. PICK rows, r : /\ Called("sort", last.items, r)
                       /\ \/ lib = "stat" /\ r = [ok |-> TRUE, h |-> [h EXCEPT !.cpuRows = rows]]
                          \/ /\ lib \in {"disk", "slab"}
                             /\ r = [ok |-> TRUE, h |-> [h EXCEPT !.rows = rows]]
    <3>1. PICK up \in BOOLEAN :
            \/ /\ lib = "stat"
               /\ Called("sort", last.items,
                         [ok |-> TRUE, h |-> [h EXCEPT !.cpuRows = StatSort(@, 1, up)]])
            \/ /\ lib = "disk"
               /\ Called("sort", last.items,
                         [ok |-> TRUE, h |-> [h EXCEPT !.rows = DiskSort(@, 1, up)]])
            \/ /\ lib = "slab"
               /\ Called("sort", last.items, [ok |-> TRUE,
                     h |-> [h EXCEPT !.rows = SlabSort(@, last.items, last.items[1], up)]])
      BY <1>5 DEF Sort
    <3>q. QED BY <3>1
  <2>3. CallOk("sort", r) /\ r.h.ref = h.ref BY <1>0, <2>1, <2>2, SortCallOk
  <2>4. Sampling("sort", last.items, r) /\ Showing("sort", last.items, r)
    BY <1>0, <2>1, <2>2, SortCallSamples
  <2>q. QED BY <1>5, <1>a, <2>1, <2>2, <2>3, <2>4, CallAll DEF Sort
<1>6. CASE Ref
  <2> DEFINE g == [h EXCEPT !.ref = @ + 1]
             r == [ok |-> TRUE, h |-> g]
  <2>1. Called("ref", <<>>, r) /\ refs' = refs + 1
    BY <1>0, <1>6, LibIs DEF Ref, StatRef, DiskRef, SlabRef, MemRef, VmRef
  <2>2. Holds(lib, h) /\ h.ref > 0 BY <1>0, <1>6 DEF Ref, HandleInv, HandleOk
  <2>3. g = [h EXCEPT !.ref = h.ref + 1] OBVIOUS
  <2>4. h.ref + 1 \in Nat \ {0} BY <1>a
  <2> HIDE DEF g
  <2>5. Holds(lib, g) /\ g.ref = h.ref + 1 /\ (lib # "disk" => g.secs = h.secs)
    BY <1>0, <2>2, <2>3, <2>4, HoldsAnyRef, LibIs
  <2>6. CallOk("ref", r) /\ r.h.ref = h.ref + 1 /\ r.h = g BY <2>4, <2>5 DEF CallOk
  <2> HIDE DEF r
  <2>7. Sampling("ref", <<>>, r) /\ Showing("ref", <<>>, r)
    BY <1>0, <2>2, <2>3, <2>6, RefCallSamples
  <2>q. QED BY <1>a, <2>1, <2>2, <2>6, <2>7, CallAll
<1>7. CASE Unref
  <2> DEFINE g == IF h.ref < 2 THEN [ref |-> 0] ELSE [h EXCEPT !.ref = @ - 1]
             r == [ok |-> TRUE, h |-> g]
  <2>1. Called("unref", <<>>, r) /\ refs' = refs - 1
    BY <1>0, <1>7, LibIs DEF Unref, StatUnref, DiskUnref, SlabUnref, MemUnref, VmUnref,
                       NoStat, NoDisk, NoSlab, NoMemInfo, NoVmInfo
  <2>2. Holds(lib, h) /\ h.ref > 0 BY <1>0, <1>7 DEF Unref, HandleInv, HandleOk
  <2>3. /\ g.ref = h.ref - 1 /\ g.ref \in Nat
        /\ g.ref > 0 => Holds(lib, g) /\ (lib # "disk" => g.secs = h.secs)
        /\ g.ref > 0 => g = [h EXCEPT !.ref = h.ref - 1]
    <3>1. CASE h.ref < 2
      <4>1. g.ref = 0 /\ h.ref = 1 BY <1>a, <2>2, <3>1
      <4> HIDE DEF g
      <4>q. QED BY <4>1
    <3>2. CASE ~ (h.ref < 2)
      <4>1. g = [h EXCEPT !.ref = h.ref - 1] BY <3>2
      <4>2. h.ref - 1 \in Nat \ {0} BY <1>a, <3>2
      <4> HIDE DEF g
      <4>q. QED BY <1>0, <2>2, <4>1, <4>2, HoldsAnyRef, LibIs
    <3>q. QED BY <3>1, <3>2
  <2> HIDE DEF g
  <2>4. CallOk("unref", r) /\ r.h.ref = h.ref - 1 /\ r.h = g BY <2>3 DEF CallOk
  <2> HIDE DEF r
  <2>5. Sampling("unref", <<>>, r) /\ Showing("unref", <<>>, r)
    BY <1>0, <2>2, <2>3, <2>4, RefCallSamples
  <2>q. QED BY <1>a, <2>1, <2>2, <2>4, <2>5, CallAll
<1>8. CASE FileChanges
  <2>1. /\ FileOk(lib, file') /\ lib' = lib /\ h' = h /\ clock' = clock /\ refs' = refs
        /\ reads' = reads /\ goodAt' = goodAt /\ last' = last
    BY <1>8 DEF FileChanges
  <2>2. HandleInv' BY <1>0, <2>1 DEF HandleInv, LibType, HandleOk, GetReadsAgain, FileOk, ULongs
  <2>q. QED BY <2>1, <2>2, QuietInv
<1>9. CASE Tick
  <2>1. /\ clock' = clock + 1 /\ lib' = lib /\ h' = h /\ file' = file /\ refs' = refs
        /\ reads' = reads /\ goodAt' = goodAt /\ last' = last
    BY <1>9 DEF Tick
  <2>2. clock \in Nat \ {0} /\ clock' \in Nat \ {0} BY <1>0, <2>1 DEF HandleInv, LibType
  <2>3. FileOk(lib, file)' BY <1>0, <2>1 DEF HandleInv, LibType, FileOk, ULongs
  <2>4. LibType' BY <1>0, <2>1, <2>2, <2>3 DEF HandleInv, LibType
  <2>5. h.ref > 0 /\ lib # "disk" => h.secs \in Nat BY <1>0, HoldsRef, LibIs DEF HandleInv, HandleOk
  <2>6. Holds(lib, h)' <=> Holds(lib, h) BY <2>1 DEF Holds
  <2>7. HandleOk' BY <1>0, <2>1, <2>2, <2>5, <2>6 DEF HandleInv, HandleOk
  <2>8. GetReadsAgain' BY <1>0, <2>1 DEF HandleInv, GetReadsAgain
  <2>9. HandleInv' BY <2>4, <2>7, <2>8 DEF HandleInv
  <2>q. QED BY <2>1, <2>9, QuietInv
<1>10. CASE UNCHANGED libVars
  <2>1. /\ lib' = lib /\ h' = h /\ file' = file /\ clock' = clock /\ refs' = refs
        /\ reads' = reads /\ goodAt' = goodAt /\ last' = last
    BY <1>10 DEF libVars
  <2>2. HandleInv' BY <1>0, <2>1 DEF HandleInv, LibType, HandleOk, GetReadsAgain, FileOk, ULongs, Holds
  <2>q. QED BY <2>1, <2>2, QuietInv
<1>q. QED BY <1>1, <1>2, <1>3, <1>4, <1>5, <1>6, <1>7, <1>8, <1>9, <1>10 DEF LibNext

\* The handle is whole, and holds the samples of its last reads, always.
LEMMA RInvAlways == LibSpec => []RInv
BY RInvInit, RInvNext, PTL DEF LibSpec

(* Whatever is called in whatever order, whichever of the reads fail and    *)
(* whatever the kernel shows (as long as its files have the form of         *)
(* FileOk), for any growth of the arrays: every result of stat, diskstats   *)
(* and slabinfo and its delimiter have a place in the extents and in the    *)
(* anchor (stat.c:757, 1028, diskstats.c:619, slabinfo.c:648), and the      *)
(* references of the handle are those that the caller holds.                *)
THEOREM ResultsAlwaysFit == LibSpec => []ResultsFit
<1>1. HandleInv => ResultsFit
  <2> SUFFICES ASSUME HandleInv PROVE ResultsFit OBVIOUS
  <2>1. h.ref > 0 /\ lib = "stat" => StatFull(h) /\ StatOk(h)
    BY DEF HandleInv, HandleOk, Holds, StatFull
  <2>2. h.ref > 0 /\ lib = "disk" => DiskOk(h) BY DEF HandleInv, HandleOk, Holds
  <2>3. h.ref > 0 /\ lib = "slab" => SlabOk(h) BY DEF HandleInv, HandleOk, Holds
  <2>q. QED
    BY <2>1, <2>2, <2>3
    DEF ResultsFit, HandleInv, HandleOk, StatFull, StatOk, DiskOk, SlabOk, Stacked
<1>q. QED BY <1>1, RInvAlways, PTL DEF RInv

(* Of any /proc/meminfo of unsigned longs, those of a container that show   *)
(* values of its host too: the derived values are within the totals, and    *)
(* the parts of the memory add up to it (meminfo.c:687-716).                *)
THEOREM MemoryAlwaysWithinTotal == LibSpec => []MemWithinTotal
<1>1. HandleInv => MemWithinTotal
  BY DEF HandleInv, HandleOk, Holds, MemOk, Within, MemWithinTotal
<1>q. QED BY <1>1, RInvAlways, PTL DEF RInv

(* A get that succeeds follows a good read of its own second: no failed     *)
(* read is ever taken for a sample (stat.c:990, slabinfo.c:839,             *)
(* meminfo.c:882, proc_vmstat.c:1376).                                      *)
THEOREM GetsAlwaysReadAgain == LibSpec => []GetReadsAgain
BY RInvAlways, PTL DEF RInv, HandleInv

(* Whatever the kernel adds, removes or lets run backwards between any two  *)
(* reads: a change that a reap shows is the change of the thing it names    *)
(* since the previous read, for the summary, for every CPU as long as the   *)
(* same are on line and for every disk, whatever their number (stat.c:547,  *)
(* diskstats.c:372, 397).                                                   *)
THEOREM ChangesAlwaysReal == LibSpec => []ChangesAreReal
BY RInvAlways, PTL DEF RInv

-------------------------------------------------------------------------------
\* What a remainder is.
LEMMA Rest ==
  ASSUME NEW U \in Nat \ {0}, NEW x \in Int
  PROVE  x % U \in 0 .. U - 1
OBVIOUS

\* And a number is a multiple and its remainder.
LEMMA Quot ==
  ASSUME NEW U \in Nat \ {0}, NEW x \in Int
  PROVE  \E q \in Int : x = U * q + (x % U)
<1>1. x = U * (x \div U) + (x % U) /\ x \div U \in Int OBVIOUS
<1>q. QED BY <1>1

\* The remainder of a number is the one in the range.
LEMMA Uniq ==
  ASSUME NEW U \in Nat \ {0}, NEW x \in Int, NEW q \in Int, NEW r \in 0 .. U - 1, x = U * q + r
  PROVE  x % U = r
BY SMT

\* Numbers that differ by a multiple have the same remainder.
LEMMA SameRest ==
  ASSUME NEW U \in Nat \ {0}, NEW x \in Int, NEW y \in Int, NEW k \in Int, x = y + U * k
  PROVE  x % U = y % U
<1> DEFINE r == y % U
<1>1. PICK p \in Int : y = U * p + r BY Quot
<1>2. r \in 0 .. U - 1 BY Rest
<1> HIDE DEF r
<1>3. U * (p + k) = U * p + U * k OBVIOUS
<1>4. p + k \in Int /\ U * p \in Int /\ U * k \in Int OBVIOUS
<1>5. x = U * (p + k) + r BY <1>1, <1>2, <1>3, <1>4
<1>6. x % U = r BY <1>2, <1>4, <1>5, Uniq
<1>q. QED BY <1>6 DEF r

\* A remainder that is added may be taken before or after.
LEMMA AddsRest ==
  ASSUME NEW U \in Nat \ {0}, NEW x \in Int, NEW y \in Int
  PROVE  ((x % U) + (y % U)) % U = (x + y) % U
<1> DEFINE r == x % U
           s == y % U
<1>1. PICK p \in Int : x = U * p + r BY Quot
<1>2. PICK q \in Int : y = U * q + s BY Quot
<1>3. r \in Int /\ s \in Int BY Rest
<1> HIDE DEF r, s
<1>4. U * (p + q) = U * p + U * q OBVIOUS
<1>5. p + q \in Int /\ U * p \in Int /\ U * q \in Int /\ x + y \in Int /\ r + s \in Int BY <1>3
<1>6. x + y = (r + s) + U * (p + q) BY <1>1, <1>2, <1>3, <1>4, <1>5
<1>7. (x + y) % U = (r + s) % U BY <1>5, <1>6, SameRest
<1>q. QED BY <1>7 DEF r, s

\* From one number to the next the remainder grows by one, or is zero.
LEMMA NextRest ==
  ASSUME NEW H \in Nat \ {0}, NEW i \in Int, NEW j \in Int, j = i - 1, i % H # 0
  PROVE  i % H = (j % H) + 1
<1> DEFINE r == i % H
<1>1. PICK p \in Int : i = H * p + r BY Quot
<1>2. r \in 0 .. H - 1 BY Rest
<1> HIDE DEF r
<1>3. r # 0 BY DEF r
<1>4. r - 1 \in 0 .. H - 1 BY <1>2, <1>3
<1>5. H * p \in Int OBVIOUS
<1>6. j = H * p + (r - 1) BY <1>1, <1>2, <1>5
<1>7. j % H = r - 1 BY <1>4, <1>6, Uniq
<1>q. QED BY <1>2, <1>7 DEF r

-------------------------------------------------------------------------------
\* The steps of a display are a function of the rows.
Due(j) == IF HeaderAt(j) THEN <<"header", "row">> ELSE <<"row">>
Outs(n, shown, out) ==
  out = [j \in 0 .. n |-> IF j = 0 THEN <<>>
                          ELSE IF j \notin shown THEN out[j - 1] ELSE out[j - 1] \o Due(j)]

\* There is such a function for every number of rows.
LEMMA OutsExist ==
  ASSUME NEW shown, NEW n \in Nat
  PROVE  \E out : Outs(n, shown, out)
<1> DEFINE Bad == {m \in Nat : ~ \E out : Outs(m, shown, out)}
<1> SUFFICES ASSUME Bad # {} PROVE FALSE OBVIOUS
<1>1. PICK m \in Bad : \A k \in Bad : m <= k
  <2>1. Bad \in SUBSET Nat OBVIOUS
  <2> HIDE DEF Bad
  <2>q. QED BY <2>1, LeastNat
<1>2. CASE m = 0
  <2> DEFINE out == [j \in 0 .. 0 |-> <<>>]
  <2>1. Outs(0, shown, out) BY DEF Outs
  <2>q. QED BY <1>1, <1>2, <2>1
<1>3. CASE m # 0
  <2>1. m - 1 \in Nat /\ m - 1 \notin Bad BY <1>1, <1>3
  <2>2. PICK part : Outs(m - 1, shown, part) BY <2>1
  <2> DEFINE out == [j \in 0 .. m |-> IF j = m THEN IF m \notin shown THEN part[m - 1]
                                                    ELSE part[m - 1] \o Due(m)
                                      ELSE part[j]]
             NextOut(j, o) == IF j = 0 THEN <<>>
                           ELSE IF j \notin shown THEN o[j - 1] ELSE o[j - 1] \o Due(j)
  <2>3. \A j \in 0 .. m : out[j] = NextOut(j, out)
    <3> SUFFICES ASSUME NEW j \in 0 .. m PROVE out[j] = NextOut(j, out) OBVIOUS
    <3>1. CASE j = m
      <4>1. j - 1 \in 0 .. m /\ j - 1 # m BY <1>1, <1>3, <3>1
      <4>2. out[j - 1] = part[j - 1] BY <4>1
      <4>q. QED BY <1>3, <3>1, <4>2
    <3>2. CASE j # m
      <4>1. j \in 0 .. m - 1 BY <1>1, <3>2
      <4>2. part[j] = NextOut(j, part) BY <2>2, <4>1 DEF Outs
      <4>3. j # 0 => j - 1 \in 0 .. m /\ j - 1 # m BY <4>1
      <4>q. QED BY <3>2, <4>2, <4>3
    <3>q. QED BY <3>1, <3>2
  <2>4. Outs(m, shown, out) BY <2>3 DEF Outs
  <2>q. QED BY <1>1, <2>4
<1>q. QED BY <1>2, <1>3

\* In what is printed of j rows that are all shown, there is a header at the start,
\* within every height + 1 lines, and as many lines from the end as it has to be.
Topped(o, j) ==
  /\ o \in Seq({"header", "row"})
  /\ Len(o) > 0 => o[1] = "header"
  /\ \A k \in DOMAIN o : k + opt.height \in DOMAIN o =>
       \E m \in k .. k + opt.height : o[m] = "header"
  /\ j > 0 => LET c == ((j - 1) % opt.height) + 1
              IN Len(o) > c /\ o[Len(o) - c] = "header"

\* One more row, with its header when that is due, keeps it so.
LEMMA ToppedStep ==
  ASSUME opt.more, opt.height \in Nat \ {0}, NEW j \in Nat \ {0}, NEW o, Topped(o, j - 1),
         j = 1 => o = <<>>
  PROVE  Topped(o \o Due(j), j)
<1> DEFINE H == opt.height
           c == ((j - 1) % H) + 1
           p == o \o Due(j)
           n == Len(o)
<1>1. o \in Seq({"header", "row"}) /\ n \in Nat /\ DOMAIN o = 1 .. n
  BY LenProperties DEF Topped
<1>2. (j - 1) % H \in 0 .. H - 1
  <2> DEFINE x == j - 1
  <2>1. x \in Int /\ H \in Nat \ {0} OBVIOUS
  <2> HIDE DEF x, H
  <2>2. x % H \in 0 .. H - 1 BY <2>1, Rest
  <2>q. QED BY <2>2 DEF x
<1>3. CASE (j - 1) % H = 0
  <2>1. p = o \o <<"header", "row">> BY <1>3 DEF Due, HeaderAt
  <2>2. p \in Seq({"header", "row"}) /\ Len(p) = n + 2 /\ DOMAIN p = 1 .. n + 2
    BY <1>1, <2>1
  <2>3. p[n + 1] = "header" /\ \A k \in 1 .. n : p[k] = o[k] BY <1>1, <2>1
  <2> HIDE DEF p
  <2>4. p[1] = "header"
    <3>1. CASE n = 0 BY <2>3, <3>1
    <3>2. CASE n # 0 BY <1>1, <2>3, <3>2 DEF Topped
    <3>q. QED BY <3>1, <3>2
  <2>5. ASSUME NEW k \in DOMAIN p, k + H \in DOMAIN p
        PROVE  \E m \in k .. k + H : p[m] = "header"
    <3>1. CASE k + H <= n
      <4>1. k \in DOMAIN o /\ k + H \in DOMAIN o BY <1>1, <2>2, <2>5, <3>1
      <4>2. PICK m \in k .. k + H : o[m] = "header" BY <4>1 DEF Topped
      <4>3. m \in 1 .. n BY <3>1, <2>2, <2>5
      <4>q. QED BY <2>3, <4>2, <4>3
    <3>2. CASE k + H > n
      <4>1. n + 1 \in k .. k + H BY <2>2, <2>5, <3>2, <1>1
      <4>q. QED BY <2>3, <4>1
    <3>q. QED BY <1>1, <2>2, <2>5, <3>1, <3>2
  <2>6. Len(p) > c /\ p[Len(p) - c] = "header" BY <1>1, <1>3, <2>2, <2>3
  <2> HIDE DEF c
  <2>q. QED BY <2>2, <2>4, <2>5, <2>6 DEF Topped, c, p
<1>4. CASE (j - 1) % H # 0
  <2>1. p = o \o <<"row">> BY <1>4 DEF Due, HeaderAt
  <2>2. p \in Seq({"header", "row"}) /\ Len(p) = n + 1 /\ DOMAIN p = 1 .. n + 1
    BY <1>1, <2>1
  <2>3. \A k \in 1 .. n : p[k] = o[k] BY <1>1, <2>1
  <2> HIDE DEF p
  <2> DEFINE b == ((j - 1 - 1) % H) + 1
  <2>4. j # 1
    <3>1. 0 % H = 0 OBVIOUS
    <3>q. QED BY <1>4, <3>1
  <2>5. n > b /\ o[n - b] = "header" BY <2>4 DEF Topped
  <2>6. (j - 1) % H = ((j - 1 - 1) % H) + 1
    <3> DEFINE x == j - 1
               y == j - 1 - 1
    <3>1. x \in Int /\ y \in Int /\ y = x - 1 BY <2>4
    <3>2. x % H # 0 BY <1>4
    <3> HIDE DEF x, y
    <3>3. x % H = (y % H) + 1 BY <3>1, <3>2, NextRest
    <3>q. QED BY <3>3 DEF x, y
  <2>7. c = b + 1 /\ b \in Nat \ {0} /\ c <= H
    <3> DEFINE x == j - 1 - 1
    <3>1. x \in Int /\ H \in Nat \ {0} OBVIOUS
    <3> HIDE DEF x, H
    <3>2. x % H \in 0 .. H - 1 BY <3>1, Rest
    <3> DEFINE l == x % H
               m == (j - 1) % H
    <3>3. b = l + 1 /\ c = m + 1 /\ m = l + 1 BY <2>6 DEF x
    <3>4. m \in 0 .. H - 1 /\ l \in 0 .. H - 1 BY <1>2, <3>2
    <3> HIDE DEF l, m, b, c
    <3>q. QED BY <3>1, <3>3, <3>4
  <2> HIDE DEF b, c
  <2>8. n - b \in 1 .. n /\ p[n - b] = "header" BY <1>1, <2>3, <2>5, <2>7
  <2>9. p[1] = "header" BY <1>1, <2>3, <2>8 DEF Topped
  <2>10. ASSUME NEW k \in DOMAIN p, k + H \in DOMAIN p
         PROVE  \E m \in k .. k + H : p[m] = "header"
    <3>1. CASE k + H <= n
      <4>1. k \in DOMAIN o /\ k + H \in DOMAIN o BY <1>1, <2>2, <2>10, <3>1
      <4>2. PICK m \in k .. k + H : o[m] = "header" BY <4>1 DEF Topped
      <4>3. m \in 1 .. n BY <3>1, <2>2, <2>10
      <4>q. QED BY <2>3, <4>2, <4>3
    <3>2. CASE k + H > n
      <4>1. n - b \in k .. k + H BY <1>1, <2>2, <2>7, <2>8, <2>10, <3>2
      <4>q. QED BY <2>8, <4>1
    <3>q. QED BY <1>1, <2>2, <2>10, <3>1, <3>2
  <2>11. Len(p) > c /\ p[Len(p) - c] = "header"
    <3>1. Len(p) - c = n - b BY <1>1, <2>2, <2>7
    <3>q. QED BY <1>1, <2>2, <2>5, <2>7, <2>8, <3>1
  <2>q. QED BY <2>2, <2>9, <2>10, <2>11 DEF Topped, c, p
<1>q. QED BY <1>3, <1>4

\* What a display prints when it shows all its rows has a header within every
\* height + 1 lines (slab_format, disk_format).
LEMMA PrintedTopped ==
  ASSUME opt.more, opt.height \in Nat \ {0}, NEW n \in Nat
  PROVE  Topped(Printed(n, 1 .. n), n)
<1> DEFINE out == CHOOSE out : Outs(n, 1 .. n, out)
           Bad == {j \in 0 .. n : ~ Topped(out[j], j)}
<1>1. Printed(n, 1 .. n) = out[n] BY Zenon DEF Printed, Outs, Due
<1>2. Outs(n, 1 .. n, out) BY OutsExist
<1> HIDE DEF out
<1>3. n \in 0 .. n OBVIOUS
<1> SUFFICES ASSUME Bad # {} PROVE FALSE BY <1>1, <1>3
<1>4. PICK m \in Bad : \A k \in Bad : m <= k
  <2>1. Bad \in SUBSET Nat OBVIOUS
  <2> HIDE DEF Bad
  <2>q. QED BY <2>1, LeastNat
<1>5. CASE m = 0
  <2>1. out[0] = <<>> BY <1>2 DEF Outs
  <2>2. Topped(<<>>, 0) BY DEF Topped
  <2>q. QED BY <1>4, <1>5, <2>1, <2>2
<1>6. CASE m # 0
  <2>1. m \in 1 .. n /\ m - 1 \in 0 .. n /\ m - 1 \notin Bad BY <1>4, <1>6
  <2>2. Topped(out[m - 1], m - 1) BY <2>1
  <2>3. out[m] = out[m - 1] \o Due(m)
    <3> DEFINE F == [j \in 0 .. n |-> IF j = 0 THEN <<>>
                                      ELSE IF j \notin 1 .. n THEN out[j - 1]
                                      ELSE out[j - 1] \o Due(j)]
    <3>1. out = F BY <1>2 DEF Outs
    <3>2. m \in 0 .. n /\ m # 0 /\ m \in 1 .. n BY <2>1
    <3>3. F[m] = out[m - 1] \o Due(m) BY <3>2
    <3> HIDE DEF F
    <3>q. QED BY <3>1, <3>3
  <2>4. m = 1 => out[m - 1] = <<>> BY <1>2 DEF Outs
  <2> DEFINE o == out[m - 1]
  <2>5. m \in Nat \ {0} BY <2>1
  <2>6. Topped(o, m - 1) /\ (m = 1 => o = <<>>) BY <2>2, <2>4
  <2> HIDE DEF o
  <2>7. Topped(o \o Due(m), m) BY <2>5, <2>6, ToppedStep
  <2>q. QED BY <1>4, <2>3, <2>7 DEF o
<1>q. QED BY <1>5, <1>6

\* The counters of /proc/vmstat that a handle has read are unsigned longs.
VmIn(g) == g.hist.new \in [VmFields -> 0 .. ULong - 1]

\* A read leaves unsigned longs: those of the file, or zeros.
LEMMA VmReadIn ==
  ASSUME NEW g, VmOk(g), NEW f, FileOk("vm", f)
  PROVE  VmIn(VmRead(g, f).h)
<1> DEFINE start == [g EXCEPT !.hist = [old |-> g.hist.new, new |-> NoVm]]
           m == VmHash(f.vals)
           h2 == [start EXCEPT !.hist.new = m, !.fd = TRUE]
           r == VmRead(g, f)
<1>1. r.h = IF f.status = "unreadable" THEN start ELSE h2 BY DEF VmRead
<1>2. 0 \in 0 .. ULong - 1 BY MeminfoAssumption
<1>3. m \in [VmFields -> 0 .. ULong - 1] BY <1>2 DEF VmHash, FileOk, ULongs
<1>4. NoVm \in [VmFields -> 0 .. ULong - 1] BY <1>2 DEF NoVm
<1> HIDE DEF m, r
<1>5. start.hist.new = NoVm BY DEF VmOk, BlankVm
<1>6. h2.hist.new = m BY DEF VmOk, BlankVm
<1>q. QED BY <1>1, <1>3, <1>4, <1>5, <1>6 DEF VmIn, r

\* procps_vmstat_new gives such a handle.
LEMMA VmNewIn ==
  ASSUME NEW f, FileOk("vm", f), VmNew(f).ok
  PROVE  VmIn(VmNew(f).h)
<1>1. VmNew(f) = VmRead(BlankVm, f) BY DEF VmNew
<1>q. QED BY <1>1, BlankVmOk, VmReadIn

\* procps_vmstat_get keeps it one, and gives an unsigned long.
LEMMA VmGetIn ==
  ASSUME NEW g, VmOk(g), VmIn(g), NEW f, FileOk("vm", f), NEW now \in Nat
  PROVE  /\ VmIn(VmGet(g, f, PgItem, now).h)
         /\ VmGet(g, f, PgItem, now).val \in 0 .. ULong - 1
<1> DEFINE q == IF now - g.secs >= 1 THEN VmRead(g, f) ELSE [ok |-> TRUE, h |-> g]
           h2 == [q.h EXCEPT !.secs = now]
           r == VmGet(g, f, PgItem, now)
<1>1. VmIn(q.h) /\ VmOk(q.h)
  <2>1. CASE now - g.secs >= 1 BY <2>1, VmReadIn, VmReadOk DEF VmKeeps
  <2>2. CASE ~(now - g.secs >= 1) BY <2>2
  <2>q. QED BY <2>1, <2>2
<1>2. /\ r.val = (IF ~q.ok THEN 0 ELSE VmSet(PgItem, q.h.hist))
      /\ r.h = IF ~q.ok THEN q.h ELSE IF now - g.secs >= 1 THEN h2 ELSE q.h
  BY DEF VmGet
<1> HIDE DEF q, r
<1>3. VmIn(h2) BY <1>1 DEF VmOk, BlankVm, VmIn
<1>4. VmSet(PgItem, q.h.hist) = q.h.hist.new["pgpgin"]
  <2>1. q.h.hist.new["pgpgin"] \in Int BY <1>1, MeminfoAssumption DEF VmIn, VmFields
  <2>q. QED BY <2>1 DEF VmSet, PgItem
<1>5. q.h.hist.new["pgpgin"] \in 0 .. ULong - 1 BY <1>1 DEF VmIn, VmFields
<1>6. 0 \in 0 .. ULong - 1 BY MeminfoAssumption
<1> HIDE DEF h2
<1>q. QED BY <1>1, <1>2, <1>3, <1>4, <1>5, <1>6 DEF r

\* A read of /proc/stat that succeeds was of a good file.
LEMMA StatReadFine ==
  ASSUME NEW g, NEW f, FileOk("stat", f), NEW junk, StatRead(g, f, junk).ok
  PROVE  f.status = "fine"
<1>1. f.status \in {"fine", "short", "unreadable"} BY DEF FileOk
<1>q. QED BY <1>1 DEF StatRead

\* procps_stat_new gives a handle whose sample is the file's.
LEMMA StatNewReads ==
  ASSUME NEW f, FileOk("stat", f), NEW junk, StatNew(f, junk).ok
  PROVE  StatSampled(StatNew(f, junk).h, f)
<1>1. StatRead(BlankStat, f, junk).ok BY DEF StatNew
<1>2. f.status = "fine" BY <1>1, StatReadFine
<1>q. QED BY <1>2, StatNewDid, MovedSampled

\* procps_stat_select that succeeds moved the samples and shows them.
LEMMA StatSelectShows ==
  ASSUME NEW g, StatFull(g), NEW f, FileOk("stat", f), NEW items, NEW junk, NEW r,
         r = StatSelect(g, f, items, junk), r.ok
  PROVE  StatMoved(r.h, g, f) /\ r.h.selRow = StatAssign(items, r.h.sys, r.h.sum)
<1> DEFINE c == StatReconfig(g.selExt, items)
           g1 == [g EXCEPT !.selExt = c.ext]
           q == StatRead(g1, f, junk)
           row == StatAssign(items, q.h.sys, q.h.sum)
           h2 == [q.h EXCEPT !.selExt = Single(@), !.selRow = row]
<1>1. r = IF ~c.ok THEN [ok |-> FALSE, h |-> g] ELSE IF ~q.ok THEN q ELSE [ok |-> TRUE, h |-> h2]
  BY DEF StatSelect
<1>2. StatOk(g1)
  <2> HIDE DEF c
  <2>q. QED BY DEF StatFull, StatOk, BlankStat
<1>3. c.ok <=> ItemsOk(items, StatTable) BY DEF StatReconfig, ReconfigMaybe
<1>4. StatReadKeeps(q, g1) BY <1>2, StatReadOk
<1>5. c.ok /\ q.ok /\ r.h = h2 BY <1>1
<1>6. f.status = "fine" BY <1>5, StatReadFine
<1>7. StatMoved(r.h, g, f) BY <1>3, <1>5, <1>6, StatSelectDid DEF StatDid
<1> HIDE DEF c, g1, q, row
<1>8. h2.selRow = row /\ h2.sys = q.h.sys /\ h2.sum = q.h.sum
  BY <1>4 DEF StatReadKeeps, StatOk, BlankStat
<1> HIDE DEF h2
<1>q. QED BY <1>5, <1>7, <1>8 DEF row

\* procps_diskstats_get that succeeds when it was due read a good file.
LEMMA DiskGetFine ==
  ASSUME NEW g, DiskOk(g), NEW f, FileOk("disk", f), NEW name, NEW item, NEW now \in Int,
         DiskGet(g, f, name, item, now).ok, now - g.newStamp >= 1
  PROVE  f.status = "fine"
<1>1. DiskRead(g, f, now).ok BY DEF DiskGet
<1>q. QED BY <1>1, DiskReadOk

\* procps_diskstats_select that succeeds read a good file, and found the device
\* with the stamp of that read or of the one before.
LEMMA DiskSelectFound ==
  ASSUME NEW g, DiskOk(g), NEW f, FileOk("disk", f), NEW name, NEW items, NEW now \in Int, NEW r,
         r = DiskSelect(g, f, name, items, now), r.ok
  PROVE  /\ f.status = "fine" /\ AfterRead(r.h, g, f, now)
         /\ \E d : Has(r.h.nodes, d) /\ d.name = name /\ d.stamp \in {g.newStamp, now}
<1> DEFINE ok == DiskReconfig(g.selExt, items).ok
           e == Single(DiskReconfig(g.selExt, items).ext)
           g1 == [g EXCEPT !.selExt = Single(DiskReconfig(@, items).ext)]
           q == DiskRead(g1, f, now)
           m == NodeGet(q.h, name)
           row == DiskAssign(items, m.h.nodes[m.at])
           h2 == [m.h EXCEPT !.selRow = row]
<1>1. r = IF ~ok THEN [ok |-> FALSE, h |-> g]
          ELSE IF ~q.ok THEN q
          ELSE IF m.at = 0 THEN [ok |-> FALSE, h |-> m.h] ELSE [ok |-> TRUE, h |-> h2]
  BY DEF DiskSelect
<1>2. ok <=> ItemsOk(items, DiskTable) BY DEF DiskReconfig, ReconfigMaybe
<1>3. DiskOk(g1) /\ g1.newStamp = g.newStamp
  <2>1. g1 = [g EXCEPT !.selExt = e] OBVIOUS
  <2> HIDE DEF e, g1
  <2>q. QED BY <2>1 DEF DiskOk, DiskShape, BlankDisk
<1>4. DiskDone(q, g1, f, now) /\ q.ok = (f.status = "fine") BY <1>3, DiskReadOk
<1>5. DiskReadDone(q, g1, f, now) BY <1>3, DiskReadFacts DEF DiskOk
<1> HIDE DEF g1, q
<1>6. ok /\ q.ok /\ m.at # 0 /\ r.h = h2 BY <1>1
<1>7. f.status = "fine" BY <1>4, <1>6
<1>8. Got(m, q.h, name) BY <1>4, NodeGetFacts DEF DiskDone, DiskOk
<1> HIDE DEF m, row, ok
<1>9. r.h.nodes = q.h.nodes
  <2>1. m.h = q.h BY <1>6, <1>8 DEF Got
  <2>2. h2.nodes = m.h.nodes BY <1>4, <2>1 DEF DiskDone, DiskOk, DiskShape, BlankDisk
  <2>q. QED BY <1>6, <2>1, <2>2
<1>10. q.h.oldStamp = g.newStamp /\ q.h.newStamp = now
  <2>1. OnlyNodes(q.h, Begun(g1, now)) BY <1>5, <1>7 DEF DiskReadDone, Taken
  <2>2. DiskShape(g1) BY <1>3 DEF DiskOk
  <2>3. Begun(g1, now).oldStamp = g1.newStamp /\ Begun(g1, now).newStamp = now
    BY <2>2, BegunShape
  <2>q. QED BY <1>3, <2>1, <2>3 DEF OnlyNodes, Same, BlankDisk
<1>11. m.at \in DOMAIN q.h.nodes /\ q.h.nodes[m.at].name = name /\ Fresh(q.h, q.h.nodes[m.at])
  BY <1>6, <1>8 DEF Got
<1>12. Has(r.h.nodes, q.h.nodes[m.at]) BY <1>9, <1>11 DEF Has
<1>13. q.h.nodes[m.at].stamp \in {g.newStamp, now} BY <1>10, <1>11 DEF Fresh
<1>14. AfterRead(r.h, g, f, now)
  <2>1. DiskSelectKeeps(r, g, f, items, now) BY DiskSelectOk
  <2>q. QED BY <1>2, <1>6, <2>1 DEF DiskSelectKeeps, DiskDone
<1>q. QED BY <1>7, <1>11, <1>12, <1>13, <1>14

\* Rows that are sorted leave the rest of a slabinfo handle as it is.
LEMMA SlabRowsKeep ==
  ASSUME NEW g, SlabOk(g), NEW rows
  PROVE  SlabOk([g EXCEPT !.rows = rows]) /\ [g EXCEPT !.rows = rows].ref = g.ref
BY DEF SlabOk, BlankSlab

AllLibs == {"stat", "disk", "slab", "mem", "vm"}
Modes == {"disk", "sum", "slab", "part", "disksum"}

\* Where vmstat is when it prints lines, and when it only sums up.
BeforeLines == {"vmnew", "statnew", "memnew", "pages", "memory", "first"}
InLines == {"loop", "sleep", "stat", "line"}
SumPoints == {"sumstat", "sumsel", "sumvm", "summem", "summemsel", "sumget"}
BeforeRounds == {"partnew", "disknew", "slabnew", "find"}
InRounds == {"round", "next", "nap"}
VmPoints == {"args", "fork", "sumdisk", "disksum", "close", "done"}
            \cup BeforeLines \cup InLines \cup SumPoints \cup BeforeRounds \cup InRounds

Options == [modes : SUBSET Modes, more : BOOLEAN, y : BOOLEAN, infinite : BOOLEAN,
            num : 0 .. ULong - 1, sleep : Nat \ {0}, height : Nat]
Typed ==
  /\ argv \in [opts : Seq(STRING), args : Seq(Int)] /\ opt \in Options
  /\ updates \in 0 .. MaxLoops /\ tog \in {0, 1} /\ code \in -1 .. 1
  /\ pg \in [1 .. 2 -> 0 .. ULong - 1]
  /\ FilesOk(proc) /\ second \in Nat \ {0}
Remembered ==
  /\ DOMAIN hist = {"asked", "lines", "base", "busy", "pg0", "pages", "odd", "since", "out", "part"}
  /\ hist.asked \in Nat /\ hist.lines \in Nat /\ hist.since \in Nat /\ hist.odd \in BOOLEAN
  /\ hist.base \in Int /\ hist.busy \in Int /\ hist.pg0 \in Int /\ hist.pages \in Int

\* Where the program is goes with its modes and its settings.
Placed ==
  /\ point \in VmPoints /\ (point = "done") = (code # -1)
  /\ point \in BeforeLines \cup InLines => opt.modes = {}
  /\ point \in SumPoints => opt.modes = {"sum"}
  /\ point \in {"partnew", "find"} => opt.modes = {"part"}
  /\ point = "disknew" => opt.modes = {"disk"}
  /\ point = "slabnew" => opt.modes = {"slab"}
  /\ point \in {"sumdisk", "disksum"} => opt.modes = {"disksum"}
  /\ point \in InRounds => opt.modes \in {{"part"}, {"disk"}, {"slab"}}
  /\ point \in {"args", "fork"} => opt.height = 0
  /\ point \notin {"args", "fork", "done"} /\ opt.more => opt.height > 0
  /\ point \in InLines \cup {"nap"} => updates >= 1
  /\ point \in {"sleep", "stat", "line", "next"} => updates < MaxLoops

\* The handle of library l is not open, or open once and sound.
Whole(l, g) == g.ref = 0 \/ (g.ref = 1 /\ Holds(l, g) /\ (l = "vm" => VmIn(g)))
\* The points at which a library is open.
VmOpen == {"statnew", "memnew", "pages", "memory", "first", "summem", "summemsel", "sumget"} \cup InLines
StatOpen == (VmOpen \cup {"sumsel", "sumvm"}) \ {"statnew"}
MemOpen == {"pages", "memory", "first", "summemsel", "sumget"} \cup InLines
Opened ==
  /\ DOMAIN handles = AllLibs /\ \A l \in AllLibs : Whole(l, handles[l])
  /\ point \in {"args", "fork"} \/ (point = "done" /\ code = 0) => \A l \in AllLibs : handles[l].ref = 0
  /\ point \in VmOpen => handles.vm.ref = 1
  /\ point \in StatOpen => handles.stat.ref = 1
  /\ point \in MemOpen => handles.mem.ref = 1
  /\ point \in {"find", "disksum"} => handles.disk.ref = 1
  /\ point \in InRounds => IF "slab" \in opt.modes THEN handles.slab.ref = 1 ELSE handles.disk.ref = 1

\* What has been counted is what has been read.
Counted ==
  /\ point \in {"memnew", "pages", "memory", "first"} \cup InLines => handles.stat.sum.new \in Samples
  /\ point \in {"args"} \cup BeforeLines => tog = 0 /\ hist.busy = 0 /\ hist.pages = 0
  /\ point \in {"memory", "first"} => pg[1] = hist.pg0
  /\ point \in {"loop", "sleep", "stat"} /\ ~hist.odd =>
       /\ hist.busy = handles.stat.sum.new["user"] - hist.base
       /\ hist.pages = (pg[tog + 1] - hist.pg0) % ULong
  /\ point = "line" =>
       LET row == handles.stat.selRow
       IN /\ row[2] \in Int /\ row[4] \in Int
          /\ ~hist.odd => /\ hist.busy + row[2] = handles.stat.sum.new["user"] - hist.base
                          /\ hist.pages = (pg[2 - tog] - hist.pg0) % ULong

\* A run with a count, and how many of its updates print nothing.
Limited == ~opt.infinite /\ hist.asked > 0 /\ hist.asked + 1 < ULong
Silent == IF opt.y THEN 1 ELSE 0
Asked ==
  /\ point \in {"args", "fork"} => hist.asked = 0
  /\ point \in {"args", "fork"} \cup BeforeLines \cup BeforeRounds => hist.lines = 0
  /\ point \in BeforeLines => updates = 1 /\ opt.num = hist.asked
  /\ point \in BeforeRounds => updates = 0 /\ opt.num = hist.asked
  /\ point \in InLines /\ Limited =>
       /\ opt.num = hist.asked + Silent /\ hist.lines + Silent = updates /\ updates <= opt.num
       /\ point # "loop" => updates < opt.num
  /\ point \in InRounds /\ Limited =>
       /\ opt.num = hist.asked /\ updates <= opt.num
       /\ hist.lines = IF point = "next" THEN updates + 1 ELSE updates
       /\ point = "next" => updates < opt.num
  /\ point \in {"close", "done"} /\ code # 1 /\ Limited /\ opt.modes \cap {"sum", "disksum"} = {}
       => hist.lines = hist.asked

\* The reads of the partition's file that are remembered, and the device.
Ordered(p, now) ==
  /\ \E n \in 1 .. 3 : DOMAIN p = 1 .. n /\ p \in Seq([at : Int, listed : BOOLEAN])
  /\ \A j, k \in DOMAIN p : j <= k => p[j].at <= p[k].at
  /\ \A k \in DOMAIN p : p[k].at <= now
  /\ Len(p) = 3 => p[1].at < p[3].at
Seen(p, g) ==
  /\ g.newStamp = p[Len(p)].at
  /\ \A d : Has(g.nodes, d) /\ d.name = Partition =>
       /\ d.stamp <= p[Len(p)].at
       /\ d.stamp = p[Len(p)].at => \E k \in DOMAIN p : p[k].listed /\ p[k].at = d.stamp
Parted ==
  /\ point \in {"args", "fork", "partnew"} => hist.part = <<>>
  /\ point \in {"find"} \cup InRounds /\ opt.modes = {"part"} =>
       /\ Ordered(hist.part, second) /\ Seen(hist.part, handles.disk)
  /\ point = "find" => Len(hist.part) = 1
  /\ point = "round" /\ opt.modes = {"part"} =>
       IF updates = 0 THEN Len(hist.part) < 3 /\ (Len(hist.part) = 2 => hist.part[1].at < hist.part[2].at)
       ELSE More(updates) => hist.part[Len(hist.part)].at < second
  /\ PartitionNotStale

\* The header of what is on the screen.
Headed ==
  /\ point \in {"args", "fork"} \cup BeforeLines => hist.since = 0
  /\ opt.more /\ opt.height > 0 /\ opt.modes = {} =>
       /\ hist.since <= opt.height
       /\ point \in {"loop", "sleep", "stat"} => hist.since <= ((updates - 1) % opt.height) + 1
       /\ point = "line" => hist.since <= updates % opt.height
  /\ HeaderInView

VmInv == Typed /\ Remembered /\ Placed /\ Opened /\ Counted /\ Asked /\ Parted /\ Headed

-------------------------------------------------------------------------------
\* The initial states.
LEMMA InitVm == VmstatInit => VmInv
<1> SUFFICES ASSUME VmstatInit PROVE VmInv OBVIOUS
<1>1. Typed BY VMStatAssumption, MeminfoAssumption DEF VmstatInit, Typed, Options
<1>2. Remembered BY DEF VmstatInit, Remembered
<1>3. Placed BY DEF VmstatInit, Placed, VmPoints, BeforeLines, InLines, SumPoints, BeforeRounds, InRounds
<1>4. Opened
  <2>1. \A l \in AllLibs : handles[l].ref = 0
    BY DEF VmstatInit, AllLibs, NoVmInfo, NoStat, NoMemInfo, NoDisk, NoSlab
  <2>2. DOMAIN handles = AllLibs BY DEF VmstatInit, AllLibs
  <2>q. QED BY <2>1, <2>2 DEF VmstatInit, Opened, Whole, VmOpen, StatOpen, MemOpen, InLines, InRounds
<1>5. Counted BY DEF VmstatInit, Counted, BeforeLines, InLines
<1>6. Asked BY DEF VmstatInit, Asked, BeforeLines, InLines, InRounds, BeforeRounds
<1>7. Parted BY DEF VmstatInit, Parted, InRounds, PartitionNotStale
<1>8. Headed BY DEF VmstatInit, Headed, BeforeLines, HeaderInView
<1>q. QED BY <1>1, <1>2, <1>3, <1>4, <1>5, <1>6, <1>7, <1>8 DEF VmInv

\* A step that only calls a library: the program goes on to the next point, or ends.
Quiet(at, next) ==
  /\ point = at /\ \/ point' = next /\ code' = code
                   \/ point' = "done" /\ code' = 1
  /\ UNCHANGED <<argv, opt, updates, tog, pg, proc, second, changed, hist>>
Edges == {<<"vmnew", "vm", "statnew">>, <<"statnew", "stat", "memnew">>, <<"memnew", "mem", "pages">>,
          <<"memory", "mem", "first">>, <<"slabnew", "slab", "round">>, <<"disksum", "disk", "close">>,
          <<"sumstat", "stat", "sumsel">>, <<"sumsel", "stat", "sumvm">>, <<"sumvm", "vm", "summem">>,
          <<"summem", "mem", "summemsel">>, <<"summemsel", "mem", "sumget">>, <<"sumget", "vm", "close">>}

\* Open is such a step.
LEMMA OpenQuiet ==
  ASSUME NEW at, NEW l, NEW r, NEW next, Open(at, l, r, next)
  PROVE  Quiet(at, next) /\ handles' = [handles EXCEPT ![l] = r.h] /\ (point' = next => r.ok \/ next = "done")
BY DEF Open, Call, GoOn, Exit, Quiet, kernel

\* It keeps the types, what is remembered and the place.
LEMMA QuietPlaced ==
  ASSUME VmInv, NEW e \in Edges, Quiet(e[1], e[3])
  PROVE  Typed' /\ Remembered' /\ Placed'
<1>1. Typed'
  <2>1. code' \in -1 .. 1 BY DEF VmInv, Typed, Quiet
  <2>q. QED BY <2>1 DEF VmInv, Typed, Quiet, FilesOk, FileOk, ULongs
<1>2. Remembered' BY DEF VmInv, Remembered, Quiet
<1>3. Placed'
  BY DEF VmInv, Placed, Quiet, Edges, VmPoints, BeforeLines, InLines, SumPoints, BeforeRounds, InRounds
<1>q. QED BY <1>1, <1>2, <1>3

\* What was asked for and printed stays as it is.
LEMMA QuietAsked ==
  ASSUME VmInv, NEW e \in Edges, Quiet(e[1], e[3])
  PROVE  Asked'
BY DEF VmInv, Placed, Asked, Quiet, Edges, Limited, Silent, BeforeLines, InLines, BeforeRounds, InRounds, SumPoints, Remembered

\* So does the header of what is on the screen.
LEMMA QuietHeaded ==
  ASSUME VmInv, NEW e \in Edges, Quiet(e[1], e[3])
  PROVE  Headed'
BY DEF VmInv, Placed, Headed, Quiet, Edges, HeaderInView, BeforeLines, InLines, Remembered

\* So do the reads of the partition.
LEMMA QuietParted ==
  ASSUME VmInv, NEW e \in Edges, Quiet(e[1], e[3])
  PROVE  Parted'
BY DEF VmInv, Placed, Parted, Quiet, Edges, PartitionNotStale, InRounds, BeforeRounds

\* So does what was counted, when the handle of stat has its sample.
LEMMA QuietCounted ==
  ASSUME VmInv, NEW e \in Edges, Quiet(e[1], e[3]),
         point' \in {"memnew", "pages", "first"} => handles'.stat.sum.new \in Samples
  PROVE  Counted'
BY DEF VmInv, Placed, Counted, Quiet, Edges, InLines, BeforeLines

\* A library's handle is set, and the others stay.
LEMMA SetHandle ==
  ASSUME VmInv, NEW l \in AllLibs, NEW x, Whole(l, x), handles' = [handles EXCEPT ![l] = x]
  PROVE  /\ DOMAIN handles' = AllLibs /\ (\A m \in AllLibs : Whole(m, handles'[m]))
         /\ handles'[l] = x /\ \A m \in AllLibs \ {l} : handles'[m] = handles[m]
<1>1. DOMAIN handles = AllLibs /\ \A m \in AllLibs : Whole(m, handles[m]) BY DEF VmInv, Opened
<1>2. DOMAIN handles' = AllLibs /\ handles'[l] = x /\ \A m \in AllLibs \ {l} : handles'[m] = handles[m]
  BY <1>1
<1>3. ASSUME NEW m \in AllLibs PROVE Whole(m, handles'[m])
  <2>1. CASE m = l BY <1>2, <2>1
  <2>2. CASE m # l BY <1>1, <1>2, <2>2
  <2>q. QED BY <2>1, <2>2
<1>q. QED BY <1>2, <1>3

\* A step that only calls a library keeps the invariant when the call keeps the handle.
LEMMA QuietVm ==
  ASSUME VmInv, NEW e \in Edges, Quiet(e[1], e[3]), NEW r, handles' = [handles EXCEPT ![e[2]] = r.h],
         Whole(e[2], r.h), point' = e[3] => r.h.ref = 1,
         point' = "memnew" => r.h.sum.new \in Samples
  PROVE  VmInv'
<1> DEFINE l == e[2]
           x == r.h
<1>1. l \in AllLibs BY DEF Edges, AllLibs
<1>2. /\ DOMAIN handles' = AllLibs /\ (\A m \in AllLibs : Whole(m, handles'[m]))
      /\ handles'[l] = x /\ \A m \in AllLibs \ {l} : handles'[m] = handles[m]
  <2> HIDE DEF l, x
  <2>1. Whole(l, x) /\ handles' = [handles EXCEPT ![l] = x] BY DEF l, x
  <2>q. QED BY <1>1, <2>1, SetHandle
<1>3. Opened'
  <2>1. /\ point' \in VmOpen => handles'.vm.ref = 1
        /\ point' \in StatOpen => handles'.stat.ref = 1
        /\ point' \in MemOpen => handles'.mem.ref = 1
        /\ point' \in {"find", "disksum"} => handles'.disk.ref = 1
        /\ point' \in InRounds =>
             IF "slab" \in opt'.modes THEN handles'.slab.ref = 1 ELSE handles'.disk.ref = 1
    BY <1>2 DEF VmInv, Opened, Placed, Quiet, Edges, VmOpen, StatOpen, MemOpen, InLines, InRounds, AllLibs
  <2>2. point' \notin {"args", "fork"} /\ ~(point' = "done" /\ code' = 0) BY DEF Quiet, Edges, VmInv, Placed
  <2>q. QED BY <1>2, <2>1, <2>2 DEF Opened
<1>4. point' \in {"memnew", "pages", "first"} => handles'.stat.sum.new \in Samples
  BY <1>2 DEF VmInv, Counted, Quiet, Edges, AllLibs, BeforeLines
<1>q. QED BY <1>3, <1>4, QuietPlaced, QuietAsked, QuietHeaded, QuietParted, QuietCounted DEF VmInv

\* What the libraries find is a file of theirs.
LEMMA FilesAre ==
  ASSUME VmInv
  PROVE  FileOk("stat", proc.stat) /\ FileOk("disk", proc.disk) /\ FileOk("slab", proc.slab)
         /\ FileOk("mem", proc.mem) /\ FileOk("vm", proc.vm) /\ second \in Nat \ {0}
BY DEF VmInv, Typed, FilesOk

\* What the constructors leave of a handle.
LEMMA VmNewWhole ==
  ASSUME NEW f, FileOk("vm", f)
  PROVE  Whole("vm", VmNew(f).h) /\ (VmNew(f).ok => VmNew(f).h.ref = 1)
<1>1. VmNewKeeps(VmNew(f)) BY VmNewOk
<1>2. VmNew(f).ok => VmIn(VmNew(f).h) BY VmNewIn
<1> DEFINE r == VmNew(f)
<1> HIDE DEF r
<1>q. QED BY <1>1, <1>2 DEF VmNewKeeps, Whole, Holds, r

\* The handle of stat has the sample of its file.
LEMMA StatNewWhole ==
  ASSUME NEW f, FileOk("stat", f), NEW junk
  PROVE  /\ Whole("stat", StatNew(f, junk).h) /\ StatNew(f, junk).ok \in BOOLEAN
         /\ StatNew(f, junk).ok => /\ StatNew(f, junk).h.ref = 1
                                   /\ StatNew(f, junk).h.sum.new \in Samples
         /\ ~StatNew(f, junk).ok => StatNew(f, junk).h.ref = 0
<1> DEFINE r == StatNew(f, junk)
<1>1. StatNewKeeps(r) BY StatNewOk
<1>2. ASSUME r.ok PROVE r.h.sum.new \in Samples
  <2>1. StatSampled(r.h, f) BY <1>2, StatNewReads
  <2>2. f.cpu \in [Times -> Int] BY DEF FileOk
  <2>3. r.h.sum.new = WithSums(f.cpu) BY <2>1 DEF StatSampled
  <2>q. QED BY <2>2, <2>3, SumsAre
<1> HIDE DEF r
<1>q. QED BY <1>1, <1>2 DEF StatNewKeeps, Whole, Holds, r

\* The handle of meminfo.
LEMMA MemNewWhole ==
  ASSUME NEW f, FileOk("mem", f)
  PROVE  Whole("mem", MemNew(f).h) /\ (MemNew(f).ok => MemNew(f).h.ref = 1)
<1>1. MemNewKeeps(MemNew(f)) BY MemNewOk
<1> DEFINE r == MemNew(f)
<1> HIDE DEF r
<1>q. QED BY <1>1 DEF MemNewKeeps, Whole, Holds, r

\* The handle of slabinfo.
LEMMA SlabNewWhole ==
  ASSUME NEW f, FileOk("slab", f)
  PROVE  Whole("slab", SlabNew(f).h) /\ (SlabNew(f).ok => SlabNew(f).h.ref = 1)
<1>1. SlabNewKeeps(SlabNew(f)) BY SlabNewOk
<1> DEFINE r == SlabNew(f)
<1> HIDE DEF r
<1>q. QED BY <1>1 DEF SlabNewKeeps, Whole, Holds, r

\* The handle of diskstats.
LEMMA DiskNewWhole ==
  ASSUME NEW f, FileOk("disk", f), NEW now \in Int
  PROVE  /\ Whole("disk", DiskNew(f, now).h) /\ (DiskNew(f, now).ok => DiskNew(f, now).h.ref = 1)
<1> DEFINE r == DiskNew(f, now)
<1>1. DiskNewKeeps(r, f, now) BY DiskNewOk
<1> HIDE DEF r
<1>q. QED BY <1>1 DEF DiskNewKeeps, DiskDone, Whole, Holds, r

\* What a get or a select leaves of a handle that is open.
LEMMA VmGetWhole ==
  ASSUME VmInv, handles.vm.ref = 1
  PROVE  /\ Whole("vm", GetPages.h) /\ GetPages.h.ref = 1 /\ GetPages.val \in 0 .. ULong - 1
         /\ GetPages.ok \in BOOLEAN
<1>1. VmOk(handles.vm) /\ VmIn(handles.vm) BY DEF VmInv, Opened, Whole, AllLibs, Holds
<1>2. VmGetKeeps(GetPages, handles.vm, second) BY <1>1, FilesAre, VmGetOk DEF GetPages
<1>3. VmIn(GetPages.h) /\ GetPages.val \in 0 .. ULong - 1 BY <1>1, FilesAre, VmGetIn DEF GetPages
<1>q. QED BY <1>2, <1>3 DEF VmGetKeeps, Whole, Holds

\* procps_stat_select.
LEMMA StatSelectWhole ==
  ASSUME VmInv, handles.stat.ref = 1, NEW items, NEW junk, NEW r,
         r = StatSelect(handles.stat, proc.stat, items, junk)
  PROVE  Whole("stat", r.h) /\ r.h.ref = 1 /\ r.ok \in BOOLEAN
<1>1. StatFull(handles.stat) BY DEF VmInv, Opened, Whole, AllLibs, Holds
<1>2. StatKeeps(r, handles.stat) BY <1>1, FilesAre, StatSelectOk
<1>q. QED BY <1>2 DEF StatKeeps, Whole, Holds

\* procps_meminfo_select.
LEMMA MemSelectWhole ==
  ASSUME VmInv, handles.mem.ref = 1, NEW items, NEW r,
         r = MemSelect(handles.mem, proc.mem, items)
  PROVE  Whole("mem", r.h) /\ r.h.ref = 1
<1>1. MemOk(handles.mem) BY DEF VmInv, Opened, Whole, AllLibs, Holds
<1>2. MemKeeps(r, handles.mem) BY <1>1, FilesAre, MemSelectOk
<1>q. QED BY <1>2 DEF MemKeeps, Whole, Holds

\* procps_diskstats_reap.
LEMMA DiskReapWhole ==
  ASSUME VmInv, handles.disk.ref = 1, NEW items, NEW r,
         r = DiskReap(handles.disk, proc.disk, items, second)
  PROVE  Whole("disk", r.h) /\ r.h.ref = 1
<1>1. DiskOk(handles.disk) BY DEF VmInv, Opened, Whole, AllLibs, Holds
<1>2. DiskReapKeeps(r, handles.disk, proc.disk, items, second) BY <1>1, FilesAre, DiskReapOk
<1>q. QED BY <1>1, <1>2 DEF DiskReapKeeps, DiskDone, Whole, Holds

\* The steps that only open a library or call one.
LEMMA OpenStep ==
  ASSUME VmInv, NEW e \in Edges, NEW r, Open(e[1], e[2], r, e[3]),
         Whole(e[2], r.h), r.ok => r.h.ref = 1, e[3] = "close" => r.h.ref = 1,
         e[3] = "memnew" /\ r.ok => r.h.sum.new \in Samples
  PROVE  VmInv'
<1>1. Quiet(e[1], e[3]) /\ handles' = [handles EXCEPT ![e[2]] = r.h] /\ (point' = e[3] => r.ok \/ e[3] = "done")
  BY OpenQuiet
<1>2. e[3] # "done" BY DEF Edges
<1>3. point' = e[3] => r.h.ref = 1 BY <1>1, <1>2
<1>4. point' = "memnew" => e[3] = "memnew" BY <1>1 DEF Quiet
<1>5. point' = "memnew" => r.h.sum.new \in Samples BY <1>1, <1>2, <1>4
<1>q. QED BY <1>1, <1>3, <1>5, QuietVm

\* Each of those steps.
LEMMA OpenSteps ==
  ASSUME VmInv,
         \/ VmNewInfo \/ StatNewInfo \/ MemNewInfo \/ FirstMemory \/ SlabNewInfo \/ DiskSum
         \/ SumStat \/ SumStatSelect \/ SumVm \/ SumMem \/ SumMemSelect \/ SumPages
  PROVE  VmInv'
<1>1. CASE VmNewInfo
  <2> DEFINE e == <<"vmnew", "vm", "statnew">>
             r == VmNew(proc.vm)
  <2>1. e \in Edges BY DEF Edges
  <2>2. Whole("vm", r.h) /\ (r.ok => r.h.ref = 1) BY FilesAre, VmNewWhole
  <2>3. Open("vmnew", "vm", r, "statnew") BY <1>1 DEF VmNewInfo
  <2> HIDE DEF r
  <2>q. QED BY <2>1, <2>2, <2>3, OpenStep
<1>2. CASE StatNewInfo
  <2>j. PICK junk \in Garbage : Open("statnew", "stat", StatNew(proc.stat, junk), "memnew")
    BY <1>2 DEF StatNewInfo
  <2> DEFINE e == <<"statnew", "stat", "memnew">>
             r == StatNew(proc.stat, junk)
  <2>1. e \in Edges BY DEF Edges
  <2>2. Whole("stat", r.h) /\ (r.ok => r.h.ref = 1) /\ (r.ok => r.h.sum.new \in Samples) BY FilesAre, StatNewWhole
  <2>3. Open("statnew", "stat", r, "memnew") BY <2>j
  <2> HIDE DEF r
  <2>q. QED BY <2>1, <2>2, <2>3, OpenStep
<1>3. CASE MemNewInfo
  <2> DEFINE e == <<"memnew", "mem", "pages">>
             r == MemNew(proc.mem)
  <2>1. e \in Edges BY DEF Edges
  <2>2. Whole("mem", r.h) /\ (r.ok => r.h.ref = 1) BY FilesAre, MemNewWhole
  <2>3. Open("memnew", "mem", r, "pages") BY <1>3 DEF MemNewInfo
  <2> HIDE DEF r
  <2>q. QED BY <2>1, <2>2, <2>3, OpenStep
<1>4. CASE FirstMemory
  <2> DEFINE e == <<"memory", "mem", "first">>
             r == MemSelect(handles.mem, proc.mem, Mem_items)
  <2>0. handles.mem.ref = 1
    BY <1>4 DEF VmInv, Opened, FirstMemory, Open, VmOpen, StatOpen, MemOpen, InLines
  <2>1. e \in Edges BY DEF Edges
  <2>2. Whole("mem", r.h) /\ (r.ok => r.h.ref = 1) BY <2>0, MemSelectWhole
  <2>3. Open("memory", "mem", r, "first") BY <1>4 DEF FirstMemory, Open
  <2> HIDE DEF r
  <2>q. QED BY <2>1, <2>2, <2>3, OpenStep
<1>5. CASE SlabNewInfo
  <2> DEFINE e == <<"slabnew", "slab", "round">>
             r == SlabNew(proc.slab)
  <2>1. e \in Edges BY DEF Edges
  <2>2. Whole("slab", r.h) /\ (r.ok => r.h.ref = 1) BY FilesAre, SlabNewWhole
  <2>3. Open("slabnew", "slab", r, "round") BY <1>5 DEF SlabNewInfo
  <2> HIDE DEF r
  <2>q. QED BY <2>1, <2>2, <2>3, OpenStep
<1>6. CASE DiskSum
  <2> DEFINE e == <<"disksum", "disk", "close">>
             r == DiskReap(handles.disk, proc.disk, Disk_items, second)
  <2>0. handles.disk.ref = 1
    BY <1>6 DEF VmInv, Opened, DiskSum, Open, VmOpen, StatOpen, MemOpen, InLines
  <2>1. e \in Edges BY DEF Edges
  <2>2. Whole("disk", r.h) /\ r.h.ref = 1 BY <2>0, DiskReapWhole
  <2>3. Open("disksum", "disk", r, "close") BY <1>6 DEF DiskSum, Open
  <2> HIDE DEF r
  <2>q. QED BY <2>1, <2>2, <2>3, OpenStep
<1>7. CASE SumStat
  <2>j. PICK junk \in Garbage : Open("sumstat", "stat", StatNew(proc.stat, junk), "sumsel")
    BY <1>7 DEF SumStat
  <2> DEFINE e == <<"sumstat", "stat", "sumsel">>
             r == StatNew(proc.stat, junk)
  <2>1. e \in Edges BY DEF Edges
  <2>2. Whole("stat", r.h) /\ (r.ok => r.h.ref = 1) BY FilesAre, StatNewWhole
  <2>3. Open("sumstat", "stat", r, "sumsel") BY <2>j
  <2> HIDE DEF r
  <2>q. QED BY <2>1, <2>2, <2>3, OpenStep
<1>8. CASE SumStatSelect
  <2>j. PICK junk \in Garbage : Open("sumsel", "stat", StatSelect(handles.stat, proc.stat, First_stat_items, junk), "sumvm")
    BY <1>8 DEF SumStatSelect
  <2> DEFINE e == <<"sumsel", "stat", "sumvm">>
             r == StatSelect(handles.stat, proc.stat, First_stat_items, junk)
  <2>0. handles.stat.ref = 1
    BY <1>8 DEF VmInv, Opened, SumStatSelect, Open, VmOpen, StatOpen, MemOpen, InLines
  <2>1. e \in Edges BY DEF Edges
  <2>2. Whole("stat", r.h) /\ (r.ok => r.h.ref = 1) BY <2>0, StatSelectWhole
  <2>3. Open("sumsel", "stat", r, "sumvm") BY <2>j
  <2> HIDE DEF r
  <2>q. QED BY <2>1, <2>2, <2>3, OpenStep
<1>9. CASE SumVm
  <2> DEFINE e == <<"sumvm", "vm", "summem">>
             r == VmNew(proc.vm)
  <2>1. e \in Edges BY DEF Edges
  <2>2. Whole("vm", r.h) /\ (r.ok => r.h.ref = 1) BY FilesAre, VmNewWhole
  <2>3. Open("sumvm", "vm", r, "summem") BY <1>9 DEF SumVm
  <2> HIDE DEF r
  <2>q. QED BY <2>1, <2>2, <2>3, OpenStep
<1>10. CASE SumMem
  <2> DEFINE e == <<"summem", "mem", "summemsel">>
             r == MemNew(proc.mem)
  <2>1. e \in Edges BY DEF Edges
  <2>2. Whole("mem", r.h) /\ (r.ok => r.h.ref = 1) BY FilesAre, MemNewWhole
  <2>3. Open("summem", "mem", r, "summemsel") BY <1>10 DEF SumMem
  <2> HIDE DEF r
  <2>q. QED BY <2>1, <2>2, <2>3, OpenStep
<1>11. CASE SumMemSelect
  <2> DEFINE e == <<"summemsel", "mem", "sumget">>
             r == MemSelect(handles.mem, proc.mem, Mem_items)
  <2>0. handles.mem.ref = 1
    BY <1>11 DEF VmInv, Opened, SumMemSelect, Open, VmOpen, StatOpen, MemOpen, InLines
  <2>1. e \in Edges BY DEF Edges
  <2>2. Whole("mem", r.h) /\ (r.ok => r.h.ref = 1) BY <2>0, MemSelectWhole
  <2>3. Open("summemsel", "mem", r, "sumget") BY <1>11 DEF SumMemSelect
  <2> HIDE DEF r
  <2>q. QED BY <2>1, <2>2, <2>3, OpenStep
<1>12. CASE SumPages
  <2> DEFINE e == <<"sumget", "vm", "close">>
             r == [ok |-> TRUE, h |-> GetPages.h]
  <2>0. handles.vm.ref = 1
    BY <1>12 DEF VmInv, Opened, SumPages, Open, VmOpen, StatOpen, MemOpen, InLines
  <2>1. e \in Edges BY DEF Edges
  <2>2. Whole("vm", r.h) /\ r.h.ref = 1 BY <2>0, VmGetWhole
  <2>3. Open("sumget", "vm", r, "close") BY <1>12 DEF SumPages
  <2> HIDE DEF r
  <2>q. QED BY <2>1, <2>2, <2>3, OpenStep
<1>q. QED BY <1>1, <1>2, <1>3, <1>4, <1>5, <1>6, <1>7, <1>8, <1>9, <1>10, <1>11, <1>12

\* The arguments are looked at one by one.
LEMMA OptionInv == ASSUME VmInv, Option PROVE VmInv'
<1>1. /\ argv' \in [opts : Seq(STRING), args : Seq(Int)]
      /\ opt' \in Options
      /\ opt'.height = opt.height
  <2>1. argv' = [argv EXCEPT !.opts = Tail(@)] /\ argv.opts # <<>> BY DEF Option
  <2>2. Tail(argv.opts) \in Seq(STRING) BY <2>1 DEF VmInv, Typed
  <2>3. argv' \in [opts : Seq(STRING), args : Seq(Int)] BY <2>1, <2>2 DEF VmInv, Typed
  <2>4. \/ opt' = opt \/ opt' = [opt EXCEPT !.more = FALSE] \/ opt' = [opt EXCEPT !.y = TRUE]
        \/ \E m \in Modes : opt' = [opt EXCEPT !.modes = @ \cup {m}]
    BY DEF Option, ModeOf, Modes
  <2>5. opt \in Options BY DEF VmInv, Typed
  <2>6. ASSUME NEW m \in Modes, opt' = [opt EXCEPT !.modes = @ \cup {m}]
        PROVE  opt' \in Options /\ opt'.height = opt.height
    BY <2>5, <2>6 DEF Options
  <2>7. CASE opt' = [opt EXCEPT !.more = FALSE] BY <2>3, <2>5, <2>7 DEF Options
  <2>8. CASE opt' = [opt EXCEPT !.y = TRUE] BY <2>3, <2>5, <2>8 DEF Options
  <2>q. QED BY <2>3, <2>4, <2>5, <2>6, <2>7, <2>8
<1>2. /\ point = "args" /\ point' \in {"args", "fork", "done"}
      /\ IF point' = "done" THEN code' \in {0, 1} ELSE code' = code
      /\ UNCHANGED <<handles, updates, tog, pg, kernel, hist>>
  BY DEF Option, GoOn, Exit
<1>3. Typed' BY <1>1, <1>2 DEF VmInv, Typed, kernel, FilesOk, FileOk, ULongs
<1>4. Remembered' BY <1>2 DEF VmInv, Remembered
<1>5. Placed' BY <1>1, <1>2 DEF VmInv, Placed, VmPoints, BeforeLines, InLines, SumPoints, BeforeRounds, InRounds
<1>6. Opened' BY <1>2 DEF VmInv, Opened, VmOpen, StatOpen, MemOpen, InLines, InRounds
<1>7. Counted' BY <1>2 DEF VmInv, Counted, BeforeLines, InLines
<1>8. Asked' BY <1>2 DEF VmInv, Asked, Remembered, BeforeLines, BeforeRounds, InLines, InRounds, Limited
<1>9. Parted' BY <1>2 DEF VmInv, Parted, InRounds, PartitionNotStale
<1>10. Headed'
  <2>1. opt'.height = 0 /\ hist'.since = 0 BY <1>1, <1>2 DEF VmInv, Placed, Headed
  <2>q. QED BY <1>2, <2>1 DEF VmInv, Headed, HeaderInView, BeforeLines
<1>q. QED BY <1>3, <1>4, <1>5, <1>6, <1>7, <1>8, <1>9, <1>10 DEF VmInv

\* A set that has one member at most has the one that is chosen.
LEMMA OneMode ==
  ASSUME NEW S \in SUBSET Modes, ~(Cardinality(S) > 1), S # {}
  PROVE  \E m \in Modes : S = {m} /\ (CHOOSE x \in S : TRUE) = m
<1>1. IsFiniteSet(Modes)
  <2>1. IsFiniteSet({}) BY FS_EmptySet
  <2>2. IsFiniteSet({"disk"}) BY FS_Singleton
  <2>3. IsFiniteSet({"disk"} \cup {"sum"}) BY <2>2, FS_AddElement
  <2>4. IsFiniteSet(({"disk"} \cup {"sum"}) \cup {"slab"}) BY <2>3, FS_AddElement
  <2>5. IsFiniteSet((({"disk"} \cup {"sum"}) \cup {"slab"}) \cup {"part"}) BY <2>4, FS_AddElement
  <2>6. IsFiniteSet(((({"disk"} \cup {"sum"}) \cup {"slab"}) \cup {"part"}) \cup {"disksum"})
    BY <2>5, FS_AddElement
  <2>7. Modes = ((({"disk"} \cup {"sum"}) \cup {"slab"}) \cup {"part"}) \cup {"disksum"} BY DEF Modes
  <2>q. QED BY <2>6, <2>7
<1>2. IsFiniteSet(S) BY <1>1, FS_Subset
<1>3. ASSUME NEW x \in S, NEW y \in S, x # y PROVE FALSE
  <2>1. Cardinality({x}) = 1 /\ IsFiniteSet({x}) BY FS_Singleton
  <2>2. Cardinality({x} \cup {y}) = 2 BY <1>3, <2>1, FS_AddElement
  <2>3. {x} \cup {y} \in SUBSET S OBVIOUS
  <2>4. Cardinality({x} \cup {y}) <= Cardinality(S) BY <1>2, <2>3, FS_Subset
  <2>5. Cardinality(S) \in Nat BY <1>2, FS_CardinalityType
  <2>q. QED BY <2>2, <2>4, <2>5
<1>4. PICK m \in S : m = CHOOSE x \in S : TRUE OBVIOUS
<1>5. S = {m} BY <1>3
<1>q. QED BY <1>4, <1>5

\* The operands: misuse ends the program, otherwise a mode starts.
LEMMA OperandsInv == ASSUME VmInv, Operands PROVE VmInv'
<1>1. CASE Misused /\ Exit(1) /\ UNCHANGED <<opt, updates, hist>>
  <2>1. /\ point = "args" /\ point' = "done" /\ code' = 1
        /\ UNCHANGED <<argv, opt, handles, updates, tog, pg, kernel, hist>>
    BY <1>1 DEF Operands, Exit
  <2>2. Typed' BY <2>1 DEF VmInv, Typed, kernel, FilesOk, FileOk, ULongs
  <2>3. Remembered' BY <2>1 DEF VmInv, Remembered
  <2>4. Placed' BY <2>1 DEF VmInv, Placed, VmPoints, BeforeLines, InLines, SumPoints, BeforeRounds, InRounds
  <2>5. Opened' BY <2>1 DEF VmInv, Opened, VmOpen, StatOpen, MemOpen, InLines, InRounds
  <2>6. Counted' BY <2>1 DEF Counted, BeforeLines, InLines
  <2>7. Asked' BY <2>1 DEF VmInv, Asked, Remembered, BeforeLines, BeforeRounds, InLines, InRounds, Limited
  <2>8. Parted' BY <2>1 DEF VmInv, Parted, InRounds, PartitionNotStale
  <2>9. Headed' BY <2>1 DEF VmInv, Placed, Headed, HeaderInView, BeforeLines
  <2>q. QED BY <2>2, <2>3, <2>4, <2>5, <2>6, <2>7, <2>8, <2>9 DEF VmInv
<1>2. CASE ~(Misused /\ Exit(1) /\ UNCHANGED <<opt, updates, hist>>)
  <2>1. PICK rows \in WinRows : opt' = Settings(rows) BY <1>2 DEF Operands
  <2>2. /\ point = "args" /\ code' = code /\ ~Misused
        /\ point' = IF opt.modes = {} THEN "vmnew" ELSE Starts[CHOOSE m \in opt.modes : TRUE]
        /\ updates' = IF opt.modes = {} THEN 1 ELSE 0
        /\ hist' = [hist EXCEPT !.asked = opt'.num]
        /\ UNCHANGED <<argv, handles, tog, pg, kernel>>
    BY <1>2 DEF Operands, GoOn
  <2>3. /\ opt' \in Options
        /\ opt'.modes = opt.modes /\ (opt'.more => opt'.height > 0)
    <3>1. rows \in Int BY VMStatAssumption
    <3>2. argv.args \in Seq(Int) /\ (argv.args # <<>> => argv.args[1] >= 1 /\ argv.args[1] \in Int)
      BY <2>2 DEF VmInv, Typed, Misused
    <3>3. Len(argv.args) = 2 => argv.args[2] % ULong \in 0 .. ULong - 1
      <4> SUFFICES ASSUME Len(argv.args) = 2 PROVE argv.args[2] % ULong \in 0 .. ULong - 1 OBVIOUS
      <4>1. argv.args[2] \in Int BY <3>2
      <4>q. QED BY <4>1, Rest, MeminfoAssumption
    <3>4. 1 \in 0 .. ULong - 1 BY MeminfoAssumption, VMStatAssumption
    <3> DEFINE sl == IF argv.args # <<>> THEN argv.args[1] ELSE opt.sleep
               inf == Len(argv.args) = 1
               nm == IF Len(argv.args) = 2 THEN argv.args[2] % ULong ELSE 1
               ht == IF ~opt.more THEN 0 ELSE IF rows > 3 THEN rows - 3 ELSE 22
    <3>5. opt \in Options BY DEF VmInv, Typed
    <3>6. opt' = [opt EXCEPT !.sleep = sl, !.infinite = inf, !.num = nm, !.height = ht]
      BY <2>1 DEF Settings
    <3>7. sl \in Nat \ {0} BY <3>2, <3>5 DEF Options
    <3>8. inf \in BOOLEAN /\ nm \in 0 .. ULong - 1 BY <3>3, <3>4
    <3>9. ht \in Nat /\ (opt.more => ht > 0) BY <3>1
    <3> HIDE DEF sl, inf, nm, ht
    <3>q. QED BY <3>5, <3>6, <3>7, <3>8, <3>9 DEF Options
  <2>4. \/ opt.modes = {} /\ point' = "vmnew" /\ updates' = 1
        \/ \E m \in Modes : opt.modes = {m} /\ point' = Starts[m] /\ updates' = 0
    <3>1. CASE opt.modes = {} BY <2>2, <3>1
    <3>2. CASE opt.modes # {}
      <4>1. opt.modes \in SUBSET Modes BY DEF VmInv, Typed, Options
      <4>2. ~(Cardinality(opt.modes) > 1) BY <2>2 DEF Misused
      <4>3. PICK m \in Modes : opt.modes = {m} /\ (CHOOSE x \in opt.modes : TRUE) = m
        BY <3>2, <4>1, <4>2, OneMode
      <4>q. QED BY <2>2, <3>2, <4>3
    <3>q. QED BY <3>1, <3>2
  <2>5. \/ opt'.modes = {} /\ point' = "vmnew" /\ updates' = 1
        \/ opt'.modes = {"disk"} /\ point' = "disknew" /\ updates' = 0
        \/ opt'.modes = {"part"} /\ point' = "partnew" /\ updates' = 0
        \/ opt'.modes = {"slab"} /\ point' = "slabnew" /\ updates' = 0
        \/ opt'.modes = {"sum"} /\ point' = "sumstat" /\ updates' = 0
        \/ opt'.modes = {"disksum"} /\ point' = "sumdisk" /\ updates' = 0
    BY <2>3, <2>4 DEF Modes, Starts
  <2> HIDE DEF Starts
  <2>6. Typed' BY <2>2, <2>3, <2>5, VMStatAssumption DEF VmInv, Typed, kernel, FilesOk, FileOk, ULongs
  <2>7. Remembered'
    <3>1. opt'.num \in Nat BY <2>3, MeminfoAssumption DEF Options
    <3>q. QED BY <2>2, <3>1 DEF VmInv, Remembered
  <2>8. Placed'
    BY <2>2, <2>3, <2>5 DEF VmInv, Placed, VmPoints, BeforeLines, InLines, SumPoints, BeforeRounds, InRounds
  <2>9. Opened' BY <2>2, <2>5 DEF VmInv, Opened, VmOpen, StatOpen, MemOpen, InLines, InRounds
  <2>10. Counted' BY <2>2, <2>5 DEF VmInv, Counted, InLines, BeforeLines
  <2>11. /\ hist'.asked = opt'.num /\ hist'.lines = hist.lines /\ hist'.since = hist.since
         /\ hist'.part = hist.part /\ hist.lines = 0 /\ hist.since = 0 /\ hist.part = <<>>
    BY <2>2 DEF VmInv, Remembered, Asked, Headed, Parted
  <2>12. Asked' BY <2>2, <2>3, <2>5, <2>11 DEF Asked, BeforeLines, BeforeRounds, InLines, InRounds, Limited
  <2>13. Parted' BY <2>2, <2>5, <2>11 DEF Parted, InRounds, PartitionNotStale
  <2>14. Headed'
    <3>1. hist'.since = 0 /\ opt'.height \in Nat BY <2>3, <2>11 DEF Options
    <3>2. point' \notin {"loop", "sleep", "stat", "line", "next"} BY <2>5
    <3>q. QED BY <3>1, <3>2 DEF Headed, HeaderInView
  <2>q. QED BY <2>6, <2>7, <2>8, <2>9, <2>10, <2>12, <2>13, <2>14 DEF VmInv
<1>q. QED BY <1>1, <1>2

\* Nothing has no remainder.
LEMMA NoRest == ASSUME NEW U \in Nat \ {0} PROVE 0 % U = 0
<1>1. 0 = U * 0 + 0 /\ 0 \in 0 .. U - 1 OBVIOUS
<1>q. QED BY <1>1, Uniq

\* vmstat -f opens the library, gets the forks, releases the handle and ends.
LEMMA ForkFormatInv == ASSUME VmInv, ForkFormat PROVE VmInv'
<1>1. PICK junk \in Garbage :
        LET r == StatNew(proc.stat, junk)
            g == StatGet(r.h, proc.stat, Forks, second, junk)
        IN /\ Exit(IF r.ok THEN 0 ELSE 1)
           /\ handles' = [handles EXCEPT !.stat = IF r.ok THEN StatUnref(g.h) ELSE r.h]
           /\ UNCHANGED <<argv, opt, updates, tog, pg, kernel, hist>>
  BY DEF ForkFormat
<1>2. point = "fork" BY DEF ForkFormat
<1> DEFINE r == StatNew(proc.stat, junk)
           g == StatGet(r.h, proc.stat, Forks, second, junk)
           x == IF r.ok THEN StatUnref(g.h) ELSE r.h
<1>3. /\ point' = "done" /\ code' \in {0, 1} /\ handles' = [handles EXCEPT !.stat = x]
      /\ UNCHANGED <<argv, opt, updates, tog, pg, kernel, hist>>
  BY <1>1 DEF Exit
<1>4. x.ref = 0
  <2>1. StatNewKeeps(r) BY FilesAre, StatNewOk
  <2>2. CASE r.ok
    <3>1. StatFull(r.h) /\ r.h.ref = 1 BY <2>1, <2>2 DEF StatNewKeeps
    <3>2. StatGetKeeps(g, r.h, second)
      <4>1. FileOk("stat", proc.stat) /\ second \in Nat BY FilesAre
      <4> HIDE DEF r
      <4>q. QED BY <3>1, <4>1, StatGetOk
    <3>3. g.h.ref = 1 BY <3>1, <3>2 DEF StatGetKeeps
    <3> HIDE DEF g, r
    <3>q. QED BY <2>2, <3>3 DEF StatUnref, NoStat
  <2>3. CASE ~r.ok
    <3> HIDE DEF g, r
    <3>q. QED BY <2>1, <2>3 DEF StatNewKeeps
  <2>q. QED BY <2>2, <2>3
<1> HIDE DEF x
<1>5. Typed' BY <1>3 DEF VmInv, Typed, kernel, FilesOk, FileOk, ULongs
<1>6. Remembered' BY <1>3 DEF VmInv, Remembered
<1>7. Placed' BY <1>3 DEF VmInv, Placed, VmPoints, BeforeLines, InLines, SumPoints, BeforeRounds, InRounds
<1>8. Opened'
  <2>1. Whole("stat", x) BY <1>4 DEF Whole
  <2>2. /\ DOMAIN handles' = AllLibs /\ (\A m \in AllLibs : Whole(m, handles'[m]))
        /\ handles'["stat"] = x /\ \A m \in AllLibs \ {"stat"} : handles'[m] = handles[m]
    BY <1>3, <2>1, SetHandle DEF AllLibs
  <2>3. \A l \in AllLibs : handles'[l].ref = 0 BY <1>2, <1>4, <2>2 DEF VmInv, Opened
  <2>q. QED BY <1>3, <2>2, <2>3 DEF Opened, VmOpen, StatOpen, MemOpen, InLines, InRounds
<1>9. Counted' BY <1>3 DEF Counted, BeforeLines, InLines
<1>10. Asked' BY <1>2, <1>3 DEF VmInv, Asked, BeforeLines, BeforeRounds, InLines, InRounds, Limited
<1>11. Parted' BY <1>3 DEF VmInv, Parted, InRounds, PartitionNotStale
<1>12. Headed' BY <1>2, <1>3 DEF VmInv, Placed, Headed, HeaderInView, BeforeLines
<1>q. QED BY <1>5, <1>6, <1>7, <1>8, <1>9, <1>10, <1>11, <1>12 DEF VmInv

\* The pages of the first sample are remembered.
LEMMA FirstPagesInv == ASSUME VmInv, FirstPages PROVE VmInv'
<1>1. point = "pages" /\ point' = "memory" /\ code' = code /\ UNCHANGED <<argv, opt, updates, tog, kernel>>
  BY DEF FirstPages, GoOn
<1>2. handles.vm.ref = 1 /\ handles.stat.ref = 1 /\ handles.mem.ref = 1
  BY <1>1 DEF VmInv, Opened, VmOpen, StatOpen, MemOpen
<1> DEFINE v == GetPages.val
           x == GetPages.h
           bad == ~GetPages.ok
<1>3. Whole("vm", x) /\ x.ref = 1 /\ v \in 0 .. ULong - 1 /\ bad \in BOOLEAN BY <1>2, VmGetWhole
<1>4. handles' = [handles EXCEPT !.vm = x] /\ pg' = [pg EXCEPT ![tog + 1] = v] BY DEF FirstPages
<1>5. hist' = [[hist EXCEPT !.since = 0] EXCEPT !.pg0 = v, !.odd = bad] BY DEF FirstPages, AfterHeader
<1> HIDE DEF v, x, bad
<1>6. tog = 0 /\ hist.busy = 0 /\ hist.pages = 0 /\ opt.modes = {}
  BY <1>1 DEF VmInv, Counted, BeforeLines, Placed
<1>7. pg' \in [1 .. 2 -> 0 .. ULong - 1] /\ pg'[1] = v BY <1>3, <1>4, <1>6 DEF VmInv, Typed
<1>8. Typed' BY <1>1, <1>7 DEF VmInv, Typed, kernel, FilesOk, FileOk, ULongs
<1>9. /\ DOMAIN hist' = DOMAIN hist /\ hist'.asked = hist.asked /\ hist'.lines = hist.lines
      /\ hist'.since = 0 /\ hist'.odd = bad /\ hist'.base = hist.base /\ hist'.busy = hist.busy
      /\ hist'.pg0 = v /\ hist'.pages = hist.pages /\ hist'.part = hist.part /\ hist'.out = hist.out
  BY <1>5 DEF VmInv, Remembered
<1>10. Remembered'
  <2>1. v \in Int BY <1>3, MeminfoAssumption
  <2>q. QED BY <1>3, <1>9, <2>1 DEF VmInv, Remembered
<1>11. Placed' BY <1>1 DEF VmInv, Placed, VmPoints, BeforeLines, InLines, SumPoints, BeforeRounds, InRounds
<1>12. /\ DOMAIN handles' = AllLibs /\ (\A m \in AllLibs : Whole(m, handles'[m]))
       /\ handles'["vm"] = x /\ \A m \in AllLibs \ {"vm"} : handles'[m] = handles[m]
  BY <1>3, <1>4, SetHandle DEF AllLibs
<1>13. Opened' BY <1>1, <1>2, <1>3, <1>12 DEF Opened, VmOpen, StatOpen, MemOpen, InLines, InRounds, AllLibs
<1>14. Counted' BY <1>1, <1>6, <1>7, <1>9, <1>12 DEF VmInv, Counted, BeforeLines, InLines, AllLibs
<1>15. Asked' BY <1>1, <1>9 DEF VmInv, Asked, BeforeLines, BeforeRounds, InLines, InRounds, Limited
<1>16. Parted' BY <1>1 DEF Parted, InRounds, PartitionNotStale
<1>17. Headed' BY <1>1, <1>9 DEF VmInv, Typed, Options, Headed, HeaderInView, BeforeLines
<1>q. QED BY <1>8, <1>10, <1>11, <1>13, <1>14, <1>15, <1>16, <1>17 DEF VmInv

\* Without a first line there is one more update.
LEMMA SkipFirstInv == ASSUME VmInv, SkipFirst PROVE VmInv'
<1>1. /\ point = "first" /\ point' = "loop" /\ code' = code /\ opt.y
      /\ UNCHANGED <<argv, handles, updates, tog, pg, kernel>>
  BY DEF SkipFirst, GoOn
<1> DEFINE n == (opt.num + 1) % ULong
           b == handles.stat.sum.new["user"]
<1>2. opt' = [opt EXCEPT !.num = n] /\ hist' = [hist EXCEPT !.base = b] BY DEF SkipFirst
<1>3. n \in 0 .. ULong - 1 /\ (opt.num + 1 < ULong => n = opt.num + 1)
  <2> DEFINE m == opt.num + 1
  <2>1. m \in Nat /\ ULong \in Nat \ {0} BY MeminfoAssumption DEF VmInv, Typed, Options
  <2> HIDE DEF m
  <2>2. m % ULong \in 0 .. ULong - 1 BY <2>1, Rest
  <2>3. ASSUME m < ULong PROVE m % ULong = m
    <3>1. m = ULong * 0 + m /\ m \in 0 .. ULong - 1 BY <2>1, <2>3
    <3>q. QED BY <2>1, <3>1, Uniq
  <2>q. QED BY <2>2, <2>3 DEF m
<1>4. handles.stat.sum.new \in Samples BY <1>1 DEF VmInv, Counted, InLines
<1>5. b \in Int BY <1>4 DEF Samples, Times
<1> HIDE DEF n, b
<1>6. opt' \in Options /\ opt'.num = n /\ \A x \in DOMAIN opt \ {"num"} : opt'[x] = opt[x]
  BY <1>2, <1>3 DEF VmInv, Typed, Options
<1>7. /\ opt'.modes = opt.modes /\ opt'.more = opt.more /\ opt'.y = opt.y /\ opt'.infinite = opt.infinite
      /\ opt'.height = opt.height
  BY <1>6 DEF VmInv, Typed, Options
<1>8. /\ DOMAIN hist' = DOMAIN hist /\ hist'.asked = hist.asked /\ hist'.lines = hist.lines
      /\ hist'.since = hist.since /\ hist'.odd = hist.odd /\ hist'.base = b /\ hist'.busy = hist.busy
      /\ hist'.pg0 = hist.pg0 /\ hist'.pages = hist.pages /\ hist'.part = hist.part /\ hist'.out = hist.out
  BY <1>2 DEF VmInv, Remembered
<1>9. tog = 0 /\ hist.busy = 0 /\ hist.pages = 0 /\ pg[1] = hist.pg0 /\ updates = 1
      /\ opt.num = hist.asked /\ hist.lines = 0 /\ hist.since = 0 /\ opt.modes = {}
  BY <1>1 DEF VmInv, Counted, Asked, Headed, Placed, BeforeLines
<1>10. Typed' BY <1>1, <1>6 DEF VmInv, Typed, kernel, FilesOk, FileOk, ULongs
<1>11. Remembered' BY <1>5, <1>8 DEF VmInv, Remembered
<1>12. Placed'
  BY <1>1, <1>7, <1>9 DEF VmInv, Placed, VmPoints, BeforeLines, InLines, SumPoints, BeforeRounds, InRounds
<1>13. Opened' BY <1>1, <1>7 DEF VmInv, Opened, VmOpen, StatOpen, MemOpen, InLines, InRounds
<1>14. Counted'
  <2>1. 0 = b - b BY <1>5
  <2>2. pg[1] \in Int /\ pg[1] - pg[1] = 0 BY MeminfoAssumption DEF VmInv, Typed
  <2>3. 0 % ULong = 0 BY MeminfoAssumption, NoRest
  <2>4. hist'.pages = (pg'[tog' + 1] - hist'.pg0) % ULong
    BY <1>1, <1>8, <1>9, <2>2, <2>3
  <2>5. hist'.busy = handles'.stat.sum.new["user"] - hist'.base BY <1>1, <1>8, <1>9, <2>1 DEF b
  <2>q. QED BY <1>1, <1>4, <2>4, <2>5 DEF Counted, InLines, BeforeLines
<1>15. Asked'
  <2>1. hist.asked \in Nat BY DEF VmInv, Remembered
  <2>q. QED BY <1>1, <1>3, <1>6, <1>7, <1>8, <1>9, <2>1
        DEF Asked, BeforeLines, BeforeRounds, InLines, InRounds, Limited, Silent
<1>16. Parted' BY <1>1 DEF Parted, InRounds, PartitionNotStale
<1>17. Headed'
  <2>1. hist'.since = 0 /\ opt'.height \in Nat /\ updates' = 1 BY <1>1, <1>6, <1>8, <1>9 DEF Options
  <2>2. opt'.height > 0 => 0 <= ((updates' - 1) % opt'.height) + 1
    <3>1. opt'.height > 0 => 0 % opt'.height = 0 BY <2>1, NoRest
    <3>q. QED BY <2>1, <3>1
  <2>q. QED BY <1>1, <2>1, <2>2 DEF Headed, HeaderInView, BeforeLines
<1>q. QED BY <1>10, <1>11, <1>12, <1>13, <1>14, <1>15, <1>16, <1>17 DEF VmInv

\* The first line is printed, since the start of the system.
LEMMA FirstLineInv == ASSUME VmInv, FirstLine PROVE VmInv'
<1>1. PICK junk \in Garbage :
        LET r == StatSelect(handles.stat, proc.stat, First_stat_items, junk)
        IN /\ IF r.ok THEN GoOn("loop") ELSE Exit(1)
           /\ handles' = [handles EXCEPT !.stat = r.h, !.vm = IF r.ok THEN GetPages.h ELSE @]
  BY DEF FirstLine
<1> DEFINE r == StatSelect(handles.stat, proc.stat, First_stat_items, junk)
           x == r.h
           y == IF r.ok THEN GetPages.h ELSE handles.vm
           b == proc.stat.cpu["user"]
<1>2. point = "first" /\ ~opt.y /\ UNCHANGED <<argv, opt, updates, tog, pg, kernel>>
  BY DEF FirstLine
<1>3. /\ \/ r.ok /\ point' = "loop" /\ code' = code
         \/ ~r.ok /\ point' = "done" /\ code' = 1
      /\ handles' = [handles EXCEPT !.stat = x, !.vm = y]
  BY <1>1 DEF GoOn, Exit
<1>4. hist' = [[hist EXCEPT !.since = @ + 1, !.lines = @ + 1] EXCEPT !.base = b] BY DEF FirstLine, Lines
<1>5. handles.vm.ref = 1 /\ handles.stat.ref = 1 /\ handles.mem.ref = 1
  BY <1>2 DEF VmInv, Opened, VmOpen, StatOpen, MemOpen
<1>6. Whole("stat", x) /\ x.ref = 1 BY <1>5, StatSelectWhole
<1>7. Whole("vm", y) /\ y.ref = 1
  <2>1. Whole("vm", GetPages.h) /\ GetPages.h.ref = 1 BY <1>5, VmGetWhole
  <2>2. Whole("vm", handles.vm) BY DEF VmInv, Opened, AllLibs
  <2> HIDE DEF r
  <2>q. QED BY <1>5, <2>1, <2>2
<1>8. b \in Int /\ (r.ok => x.sum.new \in Samples /\ x.sum.new["user"] = b)
  <2>1. proc.stat.cpu \in [Times -> Int] /\ FileOk("stat", proc.stat) BY FilesAre DEF FileOk
  <2>2. b \in Int BY <2>1 DEF Times
  <2>3. ASSUME r.ok PROVE x.sum.new \in Samples /\ x.sum.new["user"] = b
    <3>1. StatFull(handles.stat) BY <1>5 DEF VmInv, Opened, Whole, AllLibs, Holds
    <3>2. StatMoved(x, handles.stat, proc.stat) BY <2>1, <2>3, <3>1, StatSelectShows
    <3>3. x.sum.new = WithSums(proc.stat.cpu) BY <3>2 DEF StatMoved, Moves
    <3> HIDE DEF x
    <3>4. x.sum.new \in Samples BY <2>1, <3>3, SumsAre
    <3>5. WithSums(proc.stat.cpu)["user"] = b BY DEF WithSums, Times, Derived
    <3>q. QED BY <3>3, <3>4, <3>5
  <2>q. QED BY <2>2, <2>3
<1> DEFINE ok == r.ok
<1>9. \/ ok /\ point' = "loop" /\ code' = code
      \/ ~ok /\ point' = "done" /\ code' = 1
  BY <1>3
<1>10. ok => x.sum.new \in Samples /\ x.sum.new["user"] = b BY <1>8
<1> HIDE DEF x, y, b, r, ok
<1>11. /\ DOMAIN handles' = AllLibs /\ handles'["stat"] = x /\ handles'["vm"] = y
       /\ handles'["mem"] = handles["mem"] /\ \A m \in AllLibs : Whole(m, handles'[m])
  <2>1. DOMAIN handles = AllLibs /\ \A m \in AllLibs : Whole(m, handles[m]) BY DEF VmInv, Opened
  <2>2. DOMAIN handles' = AllLibs /\ handles'["stat"] = x /\ handles'["vm"] = y
        /\ \A m \in AllLibs \ {"stat", "vm"} : handles'[m] = handles[m]
    BY <1>3, <2>1 DEF AllLibs
  <2>3. ASSUME NEW m \in AllLibs PROVE Whole(m, handles'[m])
    <3>1. CASE m = "stat" BY <1>6, <2>2, <3>1
    <3>2. CASE m = "vm" BY <1>7, <2>2, <3>2
    <3>3. CASE m \notin {"stat", "vm"} BY <2>1, <2>2, <3>3
    <3>q. QED BY <3>1, <3>2, <3>3
  <2>q. QED BY <2>2, <2>3 DEF AllLibs
<1>12. /\ DOMAIN hist' = DOMAIN hist /\ hist'.asked = hist.asked /\ hist'.lines = hist.lines + 1
       /\ hist'.since = hist.since + 1 /\ hist'.odd = hist.odd /\ hist'.base = b
       /\ hist'.busy = hist.busy /\ hist'.pg0 = hist.pg0 /\ hist'.pages = hist.pages
       /\ hist'.part = hist.part /\ hist'.out = hist.out
  BY <1>4 DEF VmInv, Remembered
<1>13. tog = 0 /\ hist.busy = 0 /\ hist.pages = 0 /\ pg[1] = hist.pg0 /\ updates = 1
       /\ opt.num = hist.asked /\ hist.lines = 0 /\ hist.since = 0 /\ opt.modes = {}
  BY <1>2 DEF VmInv, Counted, Asked, Headed, Placed, BeforeLines
<1>14. Typed' BY <1>2, <1>9 DEF VmInv, Typed, kernel, FilesOk, FileOk, ULongs
<1>15. Remembered' BY <1>8, <1>12 DEF VmInv, Remembered
<1>16. Placed'
  BY <1>2, <1>9, <1>13 DEF VmInv, Placed, VmPoints, BeforeLines, InLines, SumPoints, BeforeRounds, InRounds
<1>17. Opened'
  BY <1>5, <1>6, <1>7, <1>9, <1>11 DEF Opened, VmOpen, StatOpen, MemOpen, InLines, InRounds, AllLibs
<1>18. Counted'
  <2>1. 0 = b - b BY <1>8
  <2>2. pg[1] \in Int /\ pg[1] - pg[1] = 0 BY MeminfoAssumption DEF VmInv, Typed
  <2>3. 0 % ULong = 0 BY MeminfoAssumption, NoRest
  <2>4. hist'.pages = (pg'[tog' + 1] - hist'.pg0) % ULong
    BY <1>2, <1>12, <1>13, <2>2, <2>3
  <2>5. ok => hist'.busy = handles'.stat.sum.new["user"] - hist'.base
    BY <1>10, <1>11, <1>12, <1>13, <2>1
  <2>q. QED BY <1>9, <1>10, <1>11, <2>4, <2>5 DEF Counted, InLines, BeforeLines
<1>19. Asked'
  <2>1. hist.asked \in Nat BY DEF VmInv, Remembered
  <2>q. QED BY <1>2, <1>9, <1>12, <1>13, <2>1
        DEF Asked, BeforeLines, BeforeRounds, InLines, InRounds, Limited, Silent
<1>20. Parted' BY <1>9 DEF Parted, InRounds, PartitionNotStale
<1>21. Headed'
  <2>1. hist'.since = 1 /\ opt'.height \in Nat /\ updates' = 1
    BY <1>2, <1>12, <1>13 DEF VmInv, Typed, Options
  <2>2. opt'.height > 0 => 1 <= ((updates' - 1) % opt'.height) + 1
    <3>1. opt'.height > 0 => 0 % opt'.height = 0 BY <2>1, NoRest
    <3>q. QED BY <2>1, <3>1
  <2>q. QED BY <1>9, <2>1, <2>2 DEF Headed, HeaderInView, BeforeLines
<1>q. QED BY <1>14, <1>15, <1>16, <1>17, <1>18, <1>19, <1>20, <1>21 DEF VmInv

\* The loop goes on, or is at its end.
LEMMA LoopInv == ASSUME VmInv, Loop PROVE VmInv'
<1>1. /\ point = "loop" /\ updates < MaxLoops /\ code' = code
      /\ point' = (IF More(updates) THEN "sleep" ELSE "close")
      /\ UNCHANGED <<argv, opt, handles, updates, tog, pg, kernel, hist>>
  BY DEF Loop, GoOn
<1>2. Typed' BY <1>1 DEF VmInv, Typed, kernel, FilesOk, FileOk, ULongs
<1>3. Remembered' BY <1>1 DEF VmInv, Remembered
<1>4. Placed' BY <1>1 DEF VmInv, Placed, VmPoints, BeforeLines, InLines, SumPoints, BeforeRounds, InRounds
<1>5. Opened' BY <1>1 DEF VmInv, Opened, VmOpen, StatOpen, MemOpen, InLines, InRounds
<1>6. Counted' BY <1>1 DEF VmInv, Counted, BeforeLines, InLines
<1>7. Asked'
  <2>1. opt.num \in Int /\ updates \in Int /\ hist.asked \in Nat /\ hist.lines \in Nat
    BY MeminfoAssumption, VMStatAssumption DEF VmInv, Typed, Options, Remembered
  <2>q. QED BY <1>1, <2>1 DEF VmInv, Asked, BeforeLines, BeforeRounds, InLines, InRounds, Limited, Silent, More
<1>8. Parted' BY <1>1 DEF VmInv, Parted, InRounds, PartitionNotStale
<1>9. Headed' BY <1>1 DEF VmInv, Headed, HeaderInView, BeforeLines
<1>q. QED BY <1>2, <1>3, <1>4, <1>5, <1>6, <1>7, <1>8, <1>9 DEF VmInv

\* A sleep moves the second on.
LEMMA SleepFacts ==
  ASSUME VmInv, NEW next, Sleep(next)
  PROVE  /\ second' \in Nat \ {0} /\ second' > second /\ point' = next
         /\ UNCHANGED <<code, argv, opt, handles, updates, tog, pg, proc, changed>>
<1>1. PICK late \in 0 .. 1 : second' = second + opt.sleep + late BY DEF Sleep
<1>2. opt.sleep \in Nat \ {0} /\ second \in Nat \ {0} BY DEF VmInv, Typed, Options
<1>q. QED BY <1>1, <1>2 DEF Sleep, GoOn

\* So the loop's sleep keeps the invariant.
LEMMA LoopSleepInv == ASSUME VmInv, LoopSleep PROVE VmInv'
<1>1. /\ point = "sleep" /\ second' \in Nat \ {0} /\ point' = "stat"
      /\ UNCHANGED <<code, argv, opt, handles, updates, tog, pg, proc, changed, hist>>
  BY SleepFacts DEF LoopSleep
<1>2. Typed' BY <1>1 DEF VmInv, Typed, kernel, FilesOk, FileOk, ULongs
<1>3. Remembered' BY <1>1 DEF VmInv, Remembered
<1>4. Placed' BY <1>1 DEF VmInv, Placed, VmPoints, BeforeLines, InLines, SumPoints, BeforeRounds, InRounds
<1>5. Opened' BY <1>1 DEF VmInv, Opened, VmOpen, StatOpen, MemOpen, InLines, InRounds
<1>6. Counted' BY <1>1 DEF VmInv, Counted, BeforeLines, InLines
<1>7. Asked' BY <1>1 DEF VmInv, Asked, BeforeLines, BeforeRounds, InLines, InRounds, Limited, Silent
<1>8. Parted' BY <1>1 DEF Parted, InRounds, PartitionNotStale
<1>9. Headed' BY <1>1 DEF VmInv, Headed, HeaderInView, BeforeLines
<1>q. QED BY <1>2, <1>3, <1>4, <1>5, <1>6, <1>7, <1>8, <1>9 DEF VmInv

\* The samples of the loop's select, and what of them is shown.
LEMMA LoopRow ==
  ASSUME VmInv, handles.stat.ref = 1, handles.stat.sum.new \in Samples, NEW junk, NEW r,
         r = StatSelect(handles.stat, proc.stat, Loop_stat_items, junk), r.ok
  PROVE  /\ r.h.sum.new \in Samples /\ r.h.selRow[2] \in Int /\ r.h.selRow[4] \in Int
         /\ ~Backwards(WithSums(proc.stat.cpu), handles.stat.sum.new) =>
              r.h.selRow[2] = r.h.sum.new["user"] - handles.stat.sum.new["user"]
<1> DEFINE was == handles.stat.sum.new
           tic == r.h.sum
           row == r.h.selRow
           cpu == proc.stat.cpu
           back == Backwards(WithSums(cpu), was)
<1>1. cpu \in [Times -> Int] /\ FileOk("stat", proc.stat) BY FilesAre DEF FileOk
<1>2. StatFull(handles.stat) BY DEF VmInv, Opened, Whole, AllLibs, Holds
<1>3. StatMoved(r.h, handles.stat, proc.stat) /\ row = StatAssign(Loop_stat_items, r.h.sys, tic)
  BY <1>1, <1>2, StatSelectShows
<1>4. tic.new = WithSums(cpu) /\ tic.old = IF back THEN WithSums(cpu) ELSE was
  BY <1>3 DEF StatMoved, Moves
<1>5. WithSums(cpu) \in Samples BY <1>1, SumsAre
<1>6. /\ row[2] = Max({0, tic.new["user"] - tic.old["user"]})
      /\ row[4] = Max({0, tic.new["guest"] - tic.old["guest"]})
  <2> DEFINE items == Loop_stat_items
  <2>1. 2 \in DOMAIN items /\ 4 \in DOMAIN items BY DEF Loop_stat_items
  <2>2. /\ items[2] = [src |-> "tic", of |-> "user", delta |-> TRUE]
        /\ items[4] = [src |-> "tic", of |-> "guest", delta |-> TRUE]
    BY DEF Loop_stat_items, StatItem, Counters
  <2> HIDE DEF items, tic, row
  <2>3. row = [k \in DOMAIN items |-> StatSet(items[k], r.h.sys, tic)]
    BY <1>3 DEF StatAssign, items
  <2>4. row[2] = StatSet(items[2], r.h.sys, tic) /\ row[4] = StatSet(items[4], r.h.sys, tic)
    BY <2>1, <2>3
  <2>q. QED BY <2>2, <2>4 DEF StatSet
<1> DEFINE u == tic.new["user"] - tic.old["user"]
           g == tic.new["guest"] - tic.old["guest"]
<1>7. ~back => tic.new["user"] >= was["user"]
  <2>1. WithSums(cpu)["user"] \in Int /\ was["user"] \in Int BY <1>5 DEF Samples, Times
  <2>2. ~back => ~(WithSums(cpu)["user"] < was["user"]) BY DEF Backwards
  <2>q. QED BY <1>4, <2>1, <2>2
<1> HIDE DEF tic, row, back, was
<1>8. tic.new \in Samples /\ tic.old \in Samples BY <1>4, <1>5 DEF was
<1>9. /\ tic.new["user"] \in Int /\ tic.old["user"] \in Int
      /\ tic.new["guest"] \in Int /\ tic.old["guest"] \in Int
  BY <1>8 DEF Samples, Times
<1>10. u \in Int /\ g \in Int BY <1>9
<1> HIDE DEF u, g
<1>11. row[2] = (IF u < 0 THEN 0 ELSE u) /\ row[4] = (IF g < 0 THEN 0 ELSE g)
  BY <1>6, <1>10, NotBelowZero DEF u, g
<1>12. row[2] \in Int /\ row[4] \in Int BY <1>10, <1>11
<1>13. ASSUME ~back PROVE row[2] = tic.new["user"] - was["user"]
  <2>1. tic.old = was BY <1>4, <1>13
  <2>q. QED BY <1>7, <1>9, <1>10, <1>11, <1>13, <2>1 DEF u
<1>q. QED BY <1>8, <1>12, <1>13 DEF tic, row, back, was

\* A select of the loop moves the samples, and a header is printed when it is due.
LEMMA LoopStatInv == ASSUME VmInv, LoopStat PROVE VmInv'
<1>1. PICK junk \in Garbage :
        Call("stat", StatSelect(handles.stat, proc.stat, Loop_stat_items, junk), "line")
  BY DEF LoopStat
<1> DEFINE r == StatSelect(handles.stat, proc.stat, Loop_stat_items, junk)
           x == r.h
           ok == r.ok
           was == handles.stat.sum.new
           back == Backwards(WithSums(proc.stat.cpu), was)
           due == opt.more /\ updates % opt.height = 0
<1>2. point = "stat" /\ tog' = 1 - tog /\ UNCHANGED <<argv, opt, updates, pg, kernel>>
  BY DEF LoopStat
<1>3. /\ \/ ok /\ point' = "line" /\ code' = code
         \/ ~ok /\ point' = "done" /\ code' = 1
      /\ handles' = [handles EXCEPT !.stat = x]
  BY <1>1 DEF Call, GoOn, Exit
<1>4. hist' = [IF due THEN [hist EXCEPT !.since = 0] ELSE hist EXCEPT !.odd = @ \/ back]
  BY DEF LoopStat, AfterHeader
<1>5. handles.vm.ref = 1 /\ handles.stat.ref = 1 /\ handles.mem.ref = 1
  BY <1>2 DEF VmInv, Opened, VmOpen, StatOpen, MemOpen, InLines
<1>6. Whole("stat", x) /\ x.ref = 1 BY <1>5, StatSelectWhole
<1>7. was \in Samples BY <1>2 DEF VmInv, Counted, InLines
<1>8. ok => /\ x.sum.new \in Samples /\ x.selRow[2] \in Int /\ x.selRow[4] \in Int
            /\ ~back => x.selRow[2] = x.sum.new["user"] - was["user"]
  BY <1>5, <1>7, LoopRow
<1>9. back \in BOOLEAN BY DEF Backwards
<1> HIDE DEF r, x, ok, was, back
<1>10. /\ DOMAIN handles' = AllLibs /\ (\A m \in AllLibs : Whole(m, handles'[m]))
       /\ handles'["stat"] = x /\ \A m \in AllLibs \ {"stat"} : handles'[m] = handles[m]
  BY <1>3, <1>6, SetHandle DEF AllLibs
<1>11. /\ DOMAIN hist' = DOMAIN hist /\ hist'.asked = hist.asked /\ hist'.lines = hist.lines
       /\ hist'.since = (IF due THEN 0 ELSE hist.since) /\ hist'.odd = (hist.odd \/ back)
       /\ hist'.base = hist.base /\ hist'.busy = hist.busy /\ hist'.pg0 = hist.pg0
       /\ hist'.pages = hist.pages /\ hist'.part = hist.part /\ hist'.out = hist.out
  <2> DEFINE k == IF due THEN [hist EXCEPT !.since = 0] ELSE hist
  <2>1. /\ DOMAIN k = DOMAIN hist /\ k.since = (IF due THEN 0 ELSE hist.since) /\ k.odd = hist.odd
        /\ k.asked = hist.asked /\ k.lines = hist.lines /\ k.base = hist.base /\ k.busy = hist.busy
        /\ k.pg0 = hist.pg0 /\ k.pages = hist.pages /\ k.part = hist.part /\ k.out = hist.out
    <3> HIDE DEF due
    <3>q. QED BY DEF VmInv, Remembered
  <2>2. hist' = [k EXCEPT !.odd = @ \/ back] BY <1>4
  <2> HIDE DEF k
  <2>q. QED BY <2>1, <2>2 DEF VmInv, Remembered
<1>12. tog' \in {0, 1} /\ 2 - tog' = tog + 1 /\ updates \in Nat /\ updates >= 1
  BY <1>2, VMStatAssumption DEF VmInv, Typed, Placed, InLines
<1>13. Typed' BY <1>2, <1>3, <1>12 DEF VmInv, Typed, kernel, FilesOk, FileOk, ULongs
<1>14. Remembered' BY <1>9, <1>11 DEF VmInv, Remembered
<1>15. Placed'
  BY <1>2, <1>3 DEF VmInv, Placed, VmPoints, BeforeLines, InLines, SumPoints, BeforeRounds, InRounds
<1>16. Opened'
  BY <1>3, <1>5, <1>6, <1>10 DEF Opened, VmOpen, StatOpen, MemOpen, InLines, InRounds, AllLibs
<1>17. Counted'
  <2>1. ASSUME ok PROVE x.selRow[2] \in Int /\ x.selRow[4] \in Int /\ x.sum.new \in Samples BY <1>8, <2>1
  <2>2. ASSUME ok, ~hist'.odd
        PROVE  /\ hist'.busy + x.selRow[2] = x.sum.new["user"] - hist'.base
               /\ hist'.pages = (pg'[2 - tog'] - hist'.pg0) % ULong
    <3>1. ~hist.odd /\ ~back BY <1>11, <2>2
    <3>2. hist.busy = was["user"] - hist.base /\ hist.pages = (pg[tog + 1] - hist.pg0) % ULong
      BY <1>2, <3>1 DEF VmInv, Counted, was
    <3>3. x.selRow[2] = x.sum.new["user"] - was["user"] BY <1>8, <2>2, <3>1
    <3>4. x.sum.new["user"] \in Int /\ was["user"] \in Int BY <1>7, <1>8, <2>2 DEF Samples, Times
    <3>5. hist.busy \in Int /\ hist.base \in Int BY DEF VmInv, Remembered
    <3>6. hist'.busy + x.selRow[2] = x.sum.new["user"] - hist'.base BY <1>11, <3>2, <3>3, <3>4, <3>5
    <3>7. hist'.pages = (pg'[2 - tog'] - hist'.pg0) % ULong BY <1>2, <1>11, <1>12, <3>2
    <3>q. QED BY <3>6, <3>7
  <2>q. QED BY <1>3, <1>10, <2>1, <2>2 DEF Counted, InLines, BeforeLines
<1>18. Asked' BY <1>2, <1>3, <1>11 DEF VmInv, Asked, BeforeLines, BeforeRounds, InLines, InRounds, Limited, Silent
<1>19. Parted' BY <1>3 DEF Parted, InRounds, PartitionNotStale
<1>20. Headed'
  <2>1. hist.since \in Nat /\ opt.height \in Nat /\ opt'.height = opt.height /\ opt'.more = opt.more
        /\ opt'.modes = opt.modes
    BY <1>2 DEF VmInv, Remembered, Typed, Options
  <2>2. ASSUME opt.more, opt.height > 0, opt.modes = {}
        PROVE  hist'.since <= opt.height /\ hist'.since <= updates % opt.height
    <3>1. hist.since <= opt.height /\ hist.since <= ((updates - 1) % opt.height) + 1
      BY <1>2, <2>2 DEF VmInv, Headed
    <3>2. CASE updates % opt.height = 0 BY <1>11, <2>1, <2>2, <3>2
    <3>3. CASE updates % opt.height # 0
      <4> DEFINE H == opt.height
                 j == updates - 1
      <4>1. H \in Nat \ {0} /\ updates \in Int /\ j \in Int /\ j = updates - 1 BY <1>12, <2>1, <2>2
      <4>2. hist'.since = hist.since BY <1>11, <3>3
      <4>3. updates % H # 0 BY <3>3
      <4>4. hist.since <= H /\ hist.since <= (j % H) + 1 BY <3>1
      <4> HIDE DEF H, j
      <4>5. updates % H = (j % H) + 1 BY <4>1, <4>3, NextRest
      <4>6. hist'.since <= H /\ hist'.since <= updates % H BY <4>2, <4>4, <4>5
      <4>q. QED BY <4>6 DEF H
    <3>q. QED BY <3>2, <3>3
  <2>q. QED BY <1>2, <1>3, <2>1, <2>2 DEF Headed, HeaderInView, BeforeLines
<1>q. QED BY <1>13, <1>14, <1>15, <1>16, <1>17, <1>18, <1>19, <1>20 DEF VmInv

\* A line of the loop is printed.
LEMMA LoopLineInv == ASSUME VmInv, LoopLine PROVE VmInv'
<1> DEFINE row == handles.stat.selRow
           v == GetPages.val
           x == GetPages.h
           bad == ~GetPages.ok
           was == pg[2 - tog]
           bi == (v - was) % ULong
           us == Max({0, row[2] - row[4]})
           gu == row[4]
           rest == updates % opt.height
<1>1. /\ point = "line" /\ point' = "loop" /\ code' = code /\ updates' = updates + 1
      /\ UNCHANGED <<argv, opt, tog, kernel>>
      /\ handles' = [handles EXCEPT !.vm = x] /\ pg' = [pg EXCEPT ![tog + 1] = v]
  BY DEF LoopLine, GoOn
<1>2. handles.vm.ref = 1 /\ handles.stat.ref = 1 /\ handles.mem.ref = 1
  BY <1>1 DEF VmInv, Opened, VmOpen, StatOpen, MemOpen, InLines
<1>3. Whole("vm", x) /\ x.ref = 1 /\ v \in 0 .. ULong - 1 /\ bad \in BOOLEAN BY <1>2, VmGetWhole
<1>4. tog \in {0, 1} /\ pg \in [1 .. 2 -> 0 .. ULong - 1] /\ updates \in Nat /\ updates < MaxLoops
      /\ updates >= 1 /\ MaxLoops \in Nat
  BY <1>1, VMStatAssumption DEF VmInv, Typed, Placed, InLines
<1> HIDE DEF v, x, bad
<1>5. pg' \in [1 .. 2 -> 0 .. ULong - 1] /\ pg'[tog + 1] = v /\ pg'[2 - tog] = was
  BY <1>1, <1>3, <1>4
<1>6. hist' = [[hist EXCEPT !.since = @ + 1, !.lines = @ + 1] EXCEPT
                 !.busy = @ + us + gu, !.pages = (@ + bi) % ULong,
                 !.odd = @ \/ bad \/ gu > row[2]]
  <2> DEFINE line == LineOf(row, (pg'[tog + 1] - pg'[2 - tog]) % ULong)
  <2>1. hist' = [Lines(hist, 1) EXCEPT
                   !.busy = @ + line.us + line.gu, !.pages = (@ + line.bi) % ULong,
                   !.odd = @ \/ bad \/ line.gu > row[2]]
    BY DEF LoopLine, bad
  <2>2. line = [us |-> us, id |-> row[3], gu |-> gu, bi |-> bi] BY <1>5 DEF LineOf
  <2> HIDE DEF us, gu, bi, row, line
  <2>3. line.us = us /\ line.gu = gu /\ line.bi = bi BY <2>2
  <2>q. QED BY <2>1, <2>3 DEF Lines
<1>7. row[2] \in Int /\ gu \in Int BY <1>1 DEF VmInv, Counted
<1>8. us = (IF row[2] - gu < 0 THEN 0 ELSE row[2] - gu)
  <2>1. row[2] - gu \in Int BY <1>7
  <2>q. QED BY <2>1, NotBelowZero
<1>9. us \in Int /\ (~(gu > row[2]) => us + gu = row[2]) BY <1>7, <1>8
<1>10. was \in Int /\ v \in Int /\ ULong \in Nat \ {0} BY <1>3, <1>4, MeminfoAssumption
<1>11. bi \in Int
  <2> DEFINE d == v - was
  <2>1. d \in Int BY <1>10
  <2> HIDE DEF d
  <2>2. d % ULong \in 0 .. ULong - 1 BY <1>10, <2>1, Rest
  <2>q. QED BY <1>10, <2>2 DEF d
<1> HIDE DEF us, gu, row, was, bi
<1>12. /\ DOMAIN hist' = DOMAIN hist /\ hist'.asked = hist.asked /\ hist'.lines = hist.lines + 1
       /\ hist'.since = hist.since + 1 /\ hist'.odd = (hist.odd \/ bad \/ gu > row[2])
       /\ hist'.base = hist.base /\ hist'.busy = hist.busy + us + gu /\ hist'.pg0 = hist.pg0
       /\ hist'.pages = (hist.pages + bi) % ULong /\ hist'.part = hist.part /\ hist'.out = hist.out
  <2> DEFINE k == [hist EXCEPT !.since = @ + 1, !.lines = @ + 1]
  <2>1. /\ DOMAIN k = DOMAIN hist /\ k.since = hist.since + 1 /\ k.odd = hist.odd
        /\ k.asked = hist.asked /\ k.lines = hist.lines + 1 /\ k.base = hist.base /\ k.busy = hist.busy
        /\ k.pg0 = hist.pg0 /\ k.pages = hist.pages /\ k.part = hist.part /\ k.out = hist.out
    BY DEF VmInv, Remembered
  <2>2. hist' = [k EXCEPT !.busy = @ + us + gu, !.pages = (@ + bi) % ULong, !.odd = @ \/ bad \/ gu > row[2]]
    BY <1>6
  <2> HIDE DEF k
  <2>q. QED BY <2>1, <2>2 DEF VmInv, Remembered
<1>13. Typed' BY <1>1, <1>4, <1>5 DEF VmInv, Typed, kernel, FilesOk, FileOk, ULongs
<1>14. Remembered'
  <2>1. hist.busy \in Int /\ hist.pages \in Int /\ hist.odd \in BOOLEAN BY DEF VmInv, Remembered
  <2> DEFINE s == hist.pages + bi
  <2>2. s \in Int BY <1>11, <2>1
  <2> HIDE DEF s
  <2>3. s % ULong \in 0 .. ULong - 1 BY <1>10, <2>2, Rest
  <2>4. hist'.pages \in Int BY <1>10, <1>12, <2>3 DEF s
  <2>5. hist'.busy \in Int BY <1>7, <1>9, <1>12, <2>1
  <2>6. hist'.odd \in BOOLEAN BY <1>3, <1>12, <2>1
  <2>q. QED BY <1>12, <2>4, <2>5, <2>6 DEF VmInv, Remembered
<1>15. Placed'
  BY <1>1, <1>4 DEF VmInv, Placed, VmPoints, BeforeLines, InLines, SumPoints, BeforeRounds, InRounds
<1>16. /\ DOMAIN handles' = AllLibs /\ (\A m \in AllLibs : Whole(m, handles'[m]))
       /\ handles'["vm"] = x /\ \A m \in AllLibs \ {"vm"} : handles'[m] = handles[m]
  BY <1>1, <1>3, SetHandle DEF AllLibs
<1>17. Opened' BY <1>1, <1>2, <1>3, <1>16 DEF Opened, VmOpen, StatOpen, MemOpen, InLines, InRounds, AllLibs
<1>18. Counted'
  <2>1. handles'.stat = handles.stat BY <1>16 DEF AllLibs
  <2>2. ASSUME ~hist'.odd
        PROVE  /\ hist'.busy = handles'.stat.sum.new["user"] - hist'.base
               /\ hist'.pages = (pg'[tog' + 1] - hist'.pg0) % ULong
    <3>1. ~hist.odd /\ ~(gu > row[2]) BY <1>12, <2>2
    <3>2. /\ hist.busy + row[2] = handles.stat.sum.new["user"] - hist.base
          /\ hist.pages = (was - hist.pg0) % ULong
      BY <1>1, <3>1 DEF VmInv, Counted, row, was
    <3>3. hist.busy \in Int /\ hist.pg0 \in Int BY DEF VmInv, Remembered
    <3>4. hist'.busy = hist.busy + row[2] BY <1>7, <1>9, <1>12, <3>1, <3>3
    <3> DEFINE a == was - hist.pg0
               c == v - was
    <3>5. a \in Int /\ c \in Int /\ a + c = v - hist.pg0 BY <1>10, <3>3
    <3>6. hist.pages = a % ULong /\ bi = c % ULong BY <3>2 DEF bi
    <3> HIDE DEF a, c
    <3>7. ((a % ULong) + (c % ULong)) % ULong = (a + c) % ULong BY <1>10, <3>5, AddsRest
    <3>8. hist'.pages = (v - hist.pg0) % ULong BY <1>12, <3>5, <3>6, <3>7
    <3>q. QED BY <1>1, <1>5, <1>12, <2>1, <3>2, <3>4, <3>8
  <2>3. handles'.stat.sum.new \in Samples BY <1>1, <2>1 DEF VmInv, Counted, InLines
  <2>q. QED BY <1>1, <2>2, <2>3 DEF Counted, InLines, BeforeLines
<1>19. Asked'
  <2>1. hist.asked \in Nat /\ hist.lines \in Nat /\ opt.num \in Int
    BY <1>10 DEF VmInv, Remembered, Typed, Options
  <2>q. QED BY <1>1, <1>4, <1>12, <2>1
        DEF VmInv, Asked, BeforeLines, BeforeRounds, InLines, InRounds, Limited, Silent
<1>20. Parted' BY <1>1 DEF Parted, InRounds, PartitionNotStale
<1>21. Headed'
  <2>1. hist.since \in Nat /\ opt.height \in Nat /\ opt' = opt
    BY <1>1 DEF VmInv, Remembered, Typed, Options
  <2>2. ASSUME opt.more, opt.height > 0, opt.modes = {}
        PROVE  hist'.since <= opt.height /\ hist'.since <= ((updates' - 1) % opt.height) + 1
    <3>1. hist.since <= updates % opt.height BY <1>1, <2>2 DEF VmInv, Headed
    <3> DEFINE H == opt.height
    <3>2. H \in Nat \ {0} /\ updates \in Int BY <1>4, <2>1, <2>2
    <3>3. updates' - 1 = updates BY <1>1, <1>4
    <3>4. hist.since <= updates % H BY <3>1
    <3> HIDE DEF H
    <3>5. updates % H \in 0 .. H - 1 BY <3>2, Rest
    <3> DEFINE m == updates % H
    <3>6. m \in 0 .. H - 1 /\ hist.since <= m BY <3>4, <3>5
    <3> HIDE DEF m
    <3>7. hist'.since <= H /\ hist'.since <= m + 1 BY <1>12, <2>1, <3>2, <3>6
    <3>q. QED BY <3>3, <3>7 DEF H, m
  <2>q. QED BY <1>1, <2>1, <2>2 DEF Headed, HeaderInView, BeforeLines
<1>q. QED BY <1>13, <1>14, <1>15, <1>17, <1>18, <1>19, <1>20, <1>21 DEF VmInv

\* A round ends, and the next one or the end comes.
LEMMA BetweenInv == ASSUME VmInv, Between PROVE VmInv'
<1>0. UNCHANGED <<argv, opt, handles, tog, pg, kernel, hist>> /\ code' = code
  BY DEF Between, GoOn
<1>1. \/ point = "next" /\ updates' = updates + 1 /\ point' = (IF More(updates + 1) THEN "nap" ELSE "round")
      \/ point = "round" /\ ~More(updates) /\ updates' = updates /\ point' = "close"
  BY DEF Between, Rounds, GoOn
<1>2. /\ opt.num \in Int /\ updates \in Nat /\ hist.asked \in Nat /\ hist.lines \in Nat
      /\ updates' \in 0 .. MaxLoops
      /\ point = "next" => updates < MaxLoops
  <2>1. MaxLoops \in Nat /\ ULong \in Nat BY MeminfoAssumption, VMStatAssumption
  <2>2. opt \in Options /\ updates \in 0 .. MaxLoops BY DEF VmInv, Typed
  <2>3. opt.num \in Int BY <2>1, <2>2 DEF Options
  <2>4. hist.asked \in Nat /\ hist.lines \in Nat BY DEF VmInv, Remembered
  <2>5. point = "next" => updates < MaxLoops BY DEF VmInv, Placed
  <2>q. QED BY <1>1, <2>1, <2>2, <2>3, <2>4, <2>5
<1>3. Typed' BY <1>0, <1>2 DEF VmInv, Typed, kernel, FilesOk, FileOk, ULongs
<1>4. Remembered' BY <1>0 DEF VmInv, Remembered
<1>5. Placed'
  BY <1>0, <1>1, <1>2 DEF VmInv, Placed, VmPoints, BeforeLines, InLines, SumPoints, BeforeRounds, InRounds
<1>6. Opened' BY <1>0, <1>1 DEF VmInv, Opened, VmOpen, StatOpen, MemOpen, InLines, InRounds
<1>7. Counted' BY <1>0, <1>1 DEF VmInv, Counted, BeforeLines, InLines
<1>8. Asked'
  <2>1. CASE point = "next"
    BY <1>0, <1>1, <1>2, <2>1 DEF VmInv, Asked, BeforeLines, BeforeRounds, InLines, InRounds, Limited, Silent, More
  <2>2. CASE point = "round"
    BY <1>0, <1>1, <1>2, <2>2 DEF VmInv, Asked, BeforeLines, BeforeRounds, InLines, InRounds, Limited, Silent, More
  <2>q. QED BY <1>1, <2>1, <2>2
<1>9. Parted'
  <2>1. point' \notin {"args", "fork", "partnew", "find", "next"} BY <1>1
  <2>2. point' = "round" => ~More(updates') /\ updates' # 0 BY <1>0, <1>1, <1>2 DEF More
  <2>3. point' \in InRounds /\ opt'.modes = {"part"} => Ordered(hist'.part, second') /\ Seen(hist'.part, handles'.disk)
    <3>1. point' \in InRounds => point \in InRounds BY <1>1 DEF InRounds
    <3>q. QED BY <1>0, <3>1 DEF VmInv, Parted, kernel
  <2>4. PartitionNotStale' BY <2>1 DEF PartitionNotStale
  <2>5. point' = "round" => ~(opt'.infinite \/ updates' < opt'.num) BY <2>2, <1>0 DEF More
  <2>q. QED BY <2>1, <2>2, <2>3, <2>4, <2>5 DEF Parted, More
<1>10. Headed' BY <1>0, <1>1 DEF VmInv, Headed, HeaderInView, BeforeLines
<1>q. QED BY <1>3, <1>4, <1>5, <1>6, <1>7, <1>8, <1>9, <1>10 DEF VmInv

\* Between rounds the second moves on.
LEMMA NapInv == ASSUME VmInv, Nap PROVE VmInv'
<1>1. /\ point = "nap" /\ second' \in Nat \ {0} /\ second' > second /\ point' = "round"
      /\ UNCHANGED <<code, argv, opt, handles, updates, tog, pg, proc, changed, hist>>
  BY SleepFacts DEF Nap
<1>2. Typed' BY <1>1 DEF VmInv, Typed, kernel, FilesOk, FileOk, ULongs
<1>3. Remembered' BY <1>1 DEF VmInv, Remembered
<1>4. Placed' BY <1>1 DEF VmInv, Placed, VmPoints, BeforeLines, InLines, SumPoints, BeforeRounds, InRounds
<1>5. Opened' BY <1>1 DEF VmInv, Opened, VmOpen, StatOpen, MemOpen, InLines, InRounds
<1>6. Counted' BY <1>1 DEF Counted, BeforeLines, InLines
<1>7. Asked' BY <1>1 DEF VmInv, Asked, BeforeLines, BeforeRounds, InLines, InRounds, Limited, Silent
<1>8. Parted'
  <2>1. ASSUME opt.modes = {"part"}
        PROVE  /\ Ordered(hist.part, second') /\ hist.part[Len(hist.part)].at < second'
               /\ Seen(hist.part, handles.disk) /\ Len(hist.part) \in DOMAIN hist.part
    <3>1. Ordered(hist.part, second) /\ Seen(hist.part, handles.disk)
      BY <1>1, <2>1 DEF VmInv, Parted, InRounds
    <3> DEFINE p == hist.part
    <3>2. PICK n \in 1 .. 3 : DOMAIN p = 1 .. n /\ p \in Seq([at : Int, listed : BOOLEAN]) BY <3>1 DEF Ordered
    <3>3. Len(p) = n /\ Len(p) \in DOMAIN p BY <3>2, LenProperties
    <3>4. \A k \in DOMAIN p : p[k].at <= second /\ p[k].at \in Int
      <4>1. \A k \in DOMAIN p : p[k] \in [at : Int, listed : BOOLEAN]
        <5> HIDE DEF p
        <5>q. QED BY <3>2, <3>3, ElementOfSeq
      <4>q. QED BY <3>1, <4>1 DEF Ordered
    <3>5. second \in Int BY DEF VmInv, Typed
    <3> HIDE DEF p
    <3>6. \A k \in DOMAIN p : p[k].at <= second' /\ p[k].at < second' BY <1>1, <3>4, <3>5
    <3>q. QED BY <3>1, <3>3, <3>6 DEF Ordered, p
  <2>2. updates # 0 BY <1>1, VMStatAssumption DEF VmInv, Placed
  <2>q. QED BY <1>1, <2>1, <2>2 DEF VmInv, Parted, InRounds, PartitionNotStale
<1>9. Headed' BY <1>1 DEF VmInv, Headed, HeaderInView, BeforeLines
<1>q. QED BY <1>2, <1>3, <1>4, <1>5, <1>6, <1>7, <1>8, <1>9 DEF VmInv

\* The handles are released.
LEMMA CloseInv == ASSUME VmInv, Close PROVE VmInv'
<1>1. /\ point = "close" /\ point' = "done" /\ code' = 0
      /\ handles' = [vm |-> VmUnref(handles.vm), stat |-> StatUnref(handles.stat), mem |-> MemUnref(handles.mem),
                     disk |-> DiskUnref(handles.disk), slab |-> SlabUnref(handles.slab)]
      /\ UNCHANGED <<argv, opt, updates, tog, pg, kernel, hist>>
  BY DEF Close, Exit
<1>2. \A l \in AllLibs : handles[l].ref \in {0, 1} BY DEF VmInv, Opened, Whole
<1>3. /\ VmUnref(handles.vm).ref = 0 /\ StatUnref(handles.stat).ref = 0 /\ MemUnref(handles.mem).ref = 0
      /\ DiskUnref(handles.disk).ref = 0 /\ SlabUnref(handles.slab).ref = 0
  BY <1>2 DEF AllLibs, VmUnref, StatUnref, MemUnref, DiskUnref, SlabUnref,
              NoVmInfo, NoStat, NoMemInfo, NoDisk, NoSlab
<1>4. DOMAIN handles' = AllLibs /\ \A l \in AllLibs : handles'[l].ref = 0 BY <1>1, <1>3 DEF AllLibs
<1>5. Typed' BY <1>1 DEF VmInv, Typed, kernel, FilesOk, FileOk, ULongs
<1>6. Remembered' BY <1>1 DEF VmInv, Remembered
<1>7. Placed' BY <1>1 DEF VmInv, Placed, VmPoints, BeforeLines, InLines, SumPoints, BeforeRounds, InRounds
<1>8. Opened' BY <1>1, <1>4 DEF Opened, Whole, VmOpen, StatOpen, MemOpen, InLines, InRounds
<1>9. Counted' BY <1>1 DEF Counted, BeforeLines, InLines
<1>10. Asked' BY <1>1 DEF VmInv, Placed, Asked, BeforeLines, BeforeRounds, InLines, InRounds, Limited
<1>11. Parted' BY <1>1 DEF VmInv, Parted, InRounds, PartitionNotStale
<1>12. Headed' BY <1>1 DEF VmInv, Headed, HeaderInView, BeforeLines
<1>q. QED BY <1>5, <1>6, <1>7, <1>8, <1>9, <1>10, <1>11, <1>12 DEF VmInv

\* The kernel's files change.
LEMMA FilesChangeInv == ASSUME VmInv, FilesChange PROVE VmInv'
<1>1. FilesOk(proc') /\ UNCHANGED <<argv, opt, point, code, handles, updates, tog, pg, second, hist>>
  BY DEF FilesChange
<1>2. Typed' BY <1>1 DEF VmInv, Typed
<1>3. Remembered' BY <1>1 DEF VmInv, Remembered
<1>4. Placed' BY <1>1 DEF VmInv, Placed
<1>5. Opened' BY <1>1 DEF VmInv, Opened
<1>6. Counted' BY <1>1 DEF VmInv, Counted
<1>7. Asked' BY <1>1 DEF VmInv, Asked, Limited, Silent
<1>8. Parted' BY <1>1 DEF VmInv, Parted, PartitionNotStale, More
<1>9. Headed' BY <1>1 DEF VmInv, Headed, HeaderInView
<1>q. QED BY <1>2, <1>3, <1>4, <1>5, <1>6, <1>7, <1>8, <1>9 DEF VmInv

\* Nothing happens.
LEMMA IdleInv == ASSUME VmInv, UNCHANGED vmstatVars PROVE VmInv'
<1>1. UNCHANGED <<argv, opt, point, code, handles, updates, tog, pg, proc, second, changed, hist>>
  BY DEF vmstatVars
<1>2. Typed' BY <1>1 DEF VmInv, Typed, FilesOk, FileOk, ULongs
<1>3. Remembered' BY <1>1 DEF VmInv, Remembered
<1>4. Placed' BY <1>1 DEF VmInv, Placed
<1>5. Opened' BY <1>1 DEF VmInv, Opened
<1>6. Counted' BY <1>1 DEF VmInv, Counted
<1>7. Asked' BY <1>1 DEF VmInv, Asked, Limited, Silent
<1>8. Parted' BY <1>1 DEF VmInv, Parted, PartitionNotStale, More
<1>9. Headed' BY <1>1 DEF VmInv, Headed, HeaderInView
<1>q. QED BY <1>2, <1>3, <1>4, <1>5, <1>6, <1>7, <1>8, <1>9 DEF VmInv

\* What the three reads that are remembered become with one more.
Note == [at |-> second, listed |-> Listed]
FileReads == Seq([at : Int, listed : BOOLEAN])

\* The new read is the last, and the first of four is forgotten.
LEMMA NotedIs ==
  ASSUME NEW p \in FileReads, Len(p) <= 3, second \in Int
  PROVE  LET q == Noted(p, TRUE)
             off == IF Len(p) = 3 THEN 1 ELSE 0
         IN /\ q \in FileReads /\ Len(q) = Len(p) + 1 - off /\ DOMAIN q = 1 .. Len(q)
            /\ q[Len(q)] = Note /\ \A k \in 1 .. Len(q) - 1 : q[k] = p[k + off]
<1> DEFINE S == [at : Int, listed : BOOLEAN]
           off == IF Len(p) = 3 THEN 1 ELSE 0
           all == Append(p, Note)
           q == Noted(p, TRUE)
<1>1. p \in Seq(S) /\ Len(p) \in 0 .. 3 /\ DOMAIN p = 1 .. Len(p)
  <2>1. p \in Seq(S) BY DEF FileReads
  <2> HIDE DEF S
  <2>2. Len(p) \in Nat /\ DOMAIN p = 1 .. Len(p) BY <2>1, LenProperties
  <2>q. QED BY <2>1, <2>2
<1>2. Note \in S BY DEF Note, Listed
<1>3. q = SubSeq(all, Max({1, Len(all) - 2}), Len(all)) BY DEF Noted, Note
<1> HIDE DEF S, q
<1>4. /\ all \in Seq(S) /\ Len(all) = Len(p) + 1 /\ all[Len(p) + 1] = Note
      /\ \A k \in 1 .. Len(p) : all[k] = p[k]
  BY <1>1, <1>2, AppendProperties
<1> HIDE DEF all
<1> DEFINE d == Len(all) - 2
<1>5. d \in Int BY <1>1, <1>4
<1> HIDE DEF d
<1>6. Max({1, d}) = 1 + off
  <2>1. d = Len(p) - 1 BY <1>1, <1>4 DEF d
  <2>2. \E x \in {1, d} : \A y \in {1, d} : x >= y BY <1>5
  <2>3. Max({1, d}) \in {1, d} /\ \A y \in {1, d} : Max({1, d}) >= y BY <2>2 DEF Max
  <2> DEFINE m == Max({1, d})
  <2> HIDE DEF m
  <2>4. m \in {1, d} /\ m >= 1 /\ m >= d BY <2>3 DEF m
  <2>5. m = 1 + off
    <3> DEFINE n == Len(p)
    <3>1. n \in 0 .. 3 /\ d = n - 1 /\ m \in {1, d} /\ m >= 1 /\ m >= d BY <1>1, <2>1, <2>4
    <3> HIDE DEF n, d
    <3>2. m = 1 + (IF n = 3 THEN 1 ELSE 0) BY <3>1
    <3>q. QED BY <3>2 DEF n
  <2>q. QED BY <2>5 DEF m
<1>7. q = SubSeq(all, 1 + off, Len(p) + 1) BY <1>3, <1>4, <1>6 DEF d
<1>8. off \in {0, 1} /\ 1 + off \in 1 .. Len(p) + 1 BY <1>1
<1>9. /\ q \in Seq(S) /\ Len(q) = Len(p) + 1 - off
      /\ \A k \in 1 .. Len(p) + 1 - off : q[k] = all[off + k]
  BY <1>1, <1>4, <1>7, <1>8, SubSeqProperties
<1>10. DOMAIN q = 1 .. Len(q) BY <1>9, LenProperties
<1>11. q[Len(q)] = Note BY <1>1, <1>4, <1>8, <1>9
<1>12. ASSUME NEW k \in 1 .. Len(q) - 1 PROVE q[k] = p[k + off]
  <2>1. k \in 1 .. Len(p) + 1 - off /\ off + k \in 1 .. Len(p) /\ off + k = k + off
    BY <1>1, <1>8, <1>9, <1>12
  <2>q. QED BY <1>4, <1>9, <2>1
<1>q. QED BY <1>9, <1>10, <1>11, <1>12 DEF FileReads, S, q

\* A read was before this second, or it is among the first and they are apart.
Apart(p) == \/ Len(p) < 3 /\ (Len(p) = 2 => p[1].at < p[2].at)
            \/ p[Len(p)].at < second

\* What a read of the partition's file adds to what is remembered of it.
LEMMA PartReads ==
  ASSUME second \in Int, NEW p, Ordered(p, second), Apart(p),
         NEW g, DiskOk(g), Seen(p, g), NEW f, f = proc.disk, f.status = "fine",
         NEW x, AfterRead(x, g, f, second)
  PROVE  LET q == Noted(p, TRUE)
             m == Len(q)
         IN /\ Ordered(q, second) /\ Seen(q, x) /\ m = (IF Len(p) = 3 THEN 3 ELSE Len(p) + 1) /\ m \in Nat
            /\ q[m].at = second /\ q[m - 1] = p[Len(p)]
            /\ (\E d : Has(x.nodes, d) /\ d.name = Partition /\ d.stamp \in {g.newStamp, second}) =>
                 q[m].listed \/ \E k \in 1 .. m - 1 : q[k].listed /\ q[k].at = q[m - 1].at
<1> DEFINE q == Noted(p, TRUE)
           m == Len(q)
           n == Len(p)
           off == IF n = 3 THEN 1 ELSE 0
<1>1. n \in 1 .. 3 /\ DOMAIN p = 1 .. n /\ p \in FileReads
  <2>1. PICK i \in 1 .. 3 : DOMAIN p = 1 .. i /\ p \in FileReads BY DEF Ordered, FileReads
  <2>2. n = i BY <2>1, LenProperties DEF FileReads
  <2>q. QED BY <2>1, <2>2
<1>2. /\ q \in FileReads /\ m = n + 1 - off /\ DOMAIN q = 1 .. m /\ q[m] = Note
      /\ \A k \in 1 .. m - 1 : q[k] = p[k + off]
  <2>1. p \in FileReads /\ Len(p) <= 3 BY <1>1
  <2>2. /\ q \in FileReads /\ Len(q) = Len(p) + 1 - off /\ DOMAIN q = 1 .. Len(q)
        /\ q[Len(q)] = Note /\ \A k \in 1 .. Len(q) - 1 : q[k] = p[k + off]
    <3> HIDE DEF n, m
    <3>q. QED BY <2>1, NotedIs DEF n
  <2>q. QED BY <2>2
<1>3. /\ \A j, k \in 1 .. n : j <= k => p[j].at <= p[k].at
      /\ \A k \in 1 .. n : p[k].at <= second
      /\ n = 3 => p[1].at < p[3].at
      /\ (n < 3 /\ (n = 2 => p[1].at < p[2].at)) \/ p[n].at < second
  BY <1>1 DEF Ordered, Apart
<1>4. \A k \in 1 .. n : p[k].at \in Int /\ p[k].listed \in BOOLEAN
  <2>1. \A k \in 1 .. n : p[k] \in [at : Int, listed : BOOLEAN]
    <3> HIDE DEF n
    <3>q. QED BY <1>1, ElementOfSeq DEF FileReads, n
  <2>q. QED BY <2>1
<1>5. Note.at = second /\ Note.listed = Listed BY DEF Note
<1> HIDE DEF q, m, n
<1>6. m \in 2 .. 3 /\ (n = 3 => m = 3) /\ (n # 3 => m = n + 1) /\ m - 1 + off = n /\ m - 1 \in 1 .. m - 1
  BY <1>1, <1>2
<1>7. Ordered(q, second)
  <2>1. ASSUME NEW j \in 1 .. m, NEW k \in 1 .. m, j <= k PROVE q[j].at <= q[k].at
    <3>1. CASE k = m
      <4>1. CASE j = m BY <1>2, <1>5, <3>1, <4>1
      <4>2. CASE j # m
        <5>1. j \in 1 .. m - 1 /\ j + off \in 1 .. n BY <1>1, <1>2, <1>6, <4>2
        <5>q. QED BY <1>2, <1>3, <1>5, <3>1, <5>1
      <4>q. QED BY <4>1, <4>2
    <3>2. CASE k # m
      <4>1. /\ j \in 1 .. m - 1 /\ j + off \in 1 .. n /\ k \in 1 .. m - 1 /\ k + off \in 1 .. n
            /\ j + off <= k + off
        BY <1>1, <1>2, <1>6, <2>1, <3>2
      <4>q. QED BY <1>2, <1>3, <4>1
    <3>q. QED BY <3>1, <3>2
  <2>2. ASSUME NEW k \in 1 .. m PROVE q[k].at <= second
    <3>1. CASE k = m BY <1>2, <1>5, <3>1
    <3>2. CASE k # m
      <4>1. k \in 1 .. m - 1 /\ k + off \in 1 .. n BY <1>1, <1>2, <1>6, <3>2
      <4>q. QED BY <1>2, <1>3, <4>1
    <3>q. QED BY <3>1, <3>2
  <2>3. ASSUME m = 3 PROVE q[1].at < q[3].at
    <3>1. q[3].at = second /\ q[1] = p[1 + off] BY <1>2, <1>5, <2>3
    <3>2. CASE n = 3
      <4>1. p[2].at <= p[3].at /\ p[3].at < second BY <1>3, <3>2
      <4>2. p[2].at \in Int /\ p[3].at \in Int BY <1>4, <3>2
      <4>q. QED BY <3>1, <3>2, <4>1, <4>2
    <3>3. CASE n # 3
      <4>1. n = 2 BY <1>6, <2>3, <3>3, <1>1
      <4>2. p[1].at \in Int /\ p[2].at \in Int BY <1>4, <4>1
      <4>3. p[1].at <= p[2].at /\ p[2].at <= second /\ (p[1].at < p[2].at \/ p[2].at < second)
        BY <1>3, <4>1
      <4>q. QED BY <3>1, <3>3, <4>2, <4>3
    <3>q. QED BY <3>2, <3>3
  <2>4. m \in 1 .. 3 BY <1>6
  <2>q. QED BY <1>2, <2>1, <2>2, <2>3, <2>4 DEF Ordered, FileReads, m
<1>8. q[m - 1] = p[n] BY <1>2, <1>6
\* The device that is not in the file now was there before.
<1>9. ASSUME NEW d, Has(x.nodes, d), d.name = Partition
      PROVE  IF Listed THEN d.stamp = second
             ELSE /\ d.stamp \in Int /\ d.stamp <= p[n].at
                  /\ d.stamp = p[n].at => \E k \in 1 .. m - 1 : q[k].listed /\ q[k].at = p[n].at
  <2>1. Listed <=> \E j \in DOMAIN f.lines : f.lines[j].name = d.name BY <1>9 DEF Listed
  <2>2. CASE Listed BY <1>9, <2>1, <2>2 DEF AfterRead
  <2>3. CASE ~Listed
    <3>1. Has(g.nodes, d) BY <1>9, <2>1, <2>3 DEF AfterRead
    <3>2. d.stamp \in Int BY <3>1 DEF DiskOk, DiskShape, NodesOk, Has
    <3>3. /\ d.stamp <= p[n].at
          /\ d.stamp = p[n].at => \E k \in 1 .. n : p[k].listed /\ p[k].at = d.stamp
      BY <1>1, <1>9, <3>1 DEF Seen, n
    <3>4. ASSUME d.stamp = p[n].at
          PROVE  \E k \in 1 .. m - 1 : q[k].listed /\ q[k].at = p[n].at
      <4>1. PICK k \in 1 .. n : p[k].listed /\ p[k].at = p[n].at BY <3>3, <3>4
      <4>2. ~(n = 3 /\ k = 1)
        <5>1. n = 3 => p[1].at \in Int /\ p[3].at \in Int BY <1>4
        <5>q. QED BY <1>3, <4>1, <5>1
      <4>3. k - off \in 1 .. m - 1 /\ (k - off) + off = k BY <1>1, <1>6, <4>2
      <4>4. q[k - off] = p[k] BY <1>2, <4>3
      <4>q. QED BY <4>1, <4>3, <4>4
    <3>q. QED BY <2>3, <3>2, <3>3, <3>4
  <2>q. QED BY <2>2, <2>3
<1>10. x.newStamp = second /\ g.newStamp = p[n].at
  BY DEF AfterRead, Seen, n
<1>11. p[n].at \in Int /\ p[n].at <= second BY <1>1, <1>3, <1>4
<1>12. Seen(q, x)
  <2>1. ASSUME NEW d, Has(x.nodes, d), d.name = Partition
        PROVE  /\ d.stamp <= q[m].at
               /\ d.stamp = q[m].at => \E k \in 1 .. m : q[k].listed /\ q[k].at = d.stamp
    <3>1. CASE Listed
      <4>1. d.stamp = second /\ q[m].at = second /\ q[m].listed /\ m \in 1 .. m
        BY <1>2, <1>5, <1>6, <1>9, <2>1, <3>1
      <4>q. QED BY <4>1
    <3>2. CASE ~Listed
      <4>1. /\ d.stamp \in Int /\ d.stamp <= p[n].at
            /\ d.stamp = p[n].at => \E k \in 1 .. m - 1 : q[k].listed /\ q[k].at = p[n].at
        BY <1>9, <2>1, <3>2
      <4>2. q[m].at = second BY <1>2, <1>5
      <4>3. ASSUME d.stamp = second PROVE \E k \in 1 .. m : q[k].listed /\ q[k].at = d.stamp
        <5>1. d.stamp = p[n].at BY <1>11, <4>1, <4>3
        <5>2. PICK k \in 1 .. m - 1 : q[k].listed /\ q[k].at = p[n].at BY <4>1, <5>1
        <5>3. k \in 1 .. m BY <1>6, <5>2
        <5>q. QED BY <5>1, <5>2, <5>3
      <4>q. QED BY <1>11, <4>1, <4>2, <4>3
    <3>q. QED BY <3>1, <3>2
  <2>q. QED BY <1>2, <1>5, <1>10, <2>1 DEF Seen, m
<1>13. ASSUME NEW d, Has(x.nodes, d), d.name = Partition, d.stamp \in {g.newStamp, second}
       PROVE  q[m].listed \/ \E k \in 1 .. m - 1 : q[k].listed /\ q[k].at = q[m - 1].at
  <2>1. CASE Listed BY <1>2, <1>5, <2>1
  <2>2. CASE ~Listed
    <3>1. /\ d.stamp \in Int /\ d.stamp <= p[n].at
          /\ d.stamp = p[n].at => \E k \in 1 .. m - 1 : q[k].listed /\ q[k].at = p[n].at
      BY <1>9, <1>13, <2>2
    <3>2. d.stamp = p[n].at BY <1>10, <1>11, <1>13, <3>1
    <3>q. QED BY <1>8, <3>1, <3>2
  <2>q. QED BY <2>1, <2>2
<1>14. q[m].at = second /\ m = (IF n = 3 THEN 3 ELSE n + 1) /\ m \in Nat BY <1>2, <1>5, <1>6
<1>q. QED BY <1>7, <1>8, <1>12, <1>13, <1>14 DEF q, m, n

\* procps_diskstats_new reads the file for the first time.
LEMMA DiskNewInfoInv == ASSUME VmInv, DiskNewInfo PROVE VmInv'
<1> DEFINE r == DiskNew(proc.disk, second)
           x == r.h
           ok == r.ok
           q == Noted(hist.part, TRUE)
<1>1. /\ point \in {"partnew", "disknew", "sumdisk"} /\ handles' = [handles EXCEPT !.disk = x]
      /\ \/ ok /\ code' = code /\ \/ point = "partnew" /\ point' = "find"
                                  \/ point = "disknew" /\ point' = "round"
                                  \/ point = "sumdisk" /\ point' = "disksum"
         \/ ~ok /\ point' = "done" /\ code' = 1
      /\ hist' = [hist EXCEPT !.part = q]
      /\ UNCHANGED <<argv, opt, updates, tog, pg, kernel>>
  <2>1. point \in {"partnew", "disknew", "sumdisk"} BY DEF DiskNewInfo, AfterDiskNew
  <2>2. /\ \/ ok /\ code' = code /\ point' = AfterDiskNew[point]
           \/ ~ok /\ point' = "done" /\ code' = 1
        /\ handles' = [handles EXCEPT !.disk = x] /\ hist' = [hist EXCEPT !.part = q]
        /\ UNCHANGED <<argv, opt, updates, tog, pg, kernel>>
    BY DEF DiskNewInfo, Call, GoOn, Exit
  <2> HIDE DEF r, x, ok, q
  <2>q. QED BY <2>1, <2>2 DEF AfterDiskNew
<1>2. FileOk("disk", proc.disk) /\ second \in Int BY FilesAre
<1>3. Whole("disk", x) /\ (ok => x.ref = 1) BY <1>2, DiskNewWhole
<1>4. DiskNewKeeps(r, proc.disk, second) BY <1>2, DiskNewOk
<1>5. ok => proc.disk.status = "fine" /\ AfterRead(x, BlankDisk, proc.disk, second)
  BY <1>4 DEF DiskNewKeeps, DiskDone
<1>6. hist.part = <<>> => q \in FileReads /\ Len(q) = 1 /\ DOMAIN q = 1 .. 1 /\ q[1] = Note
  <2> SUFFICES ASSUME hist.part = <<>> PROVE q \in FileReads /\ Len(q) = 1 /\ DOMAIN q = 1 .. 1 /\ q[1] = Note
    OBVIOUS
  <2>1. <<>> \in FileReads /\ Len(<<>>) = 0 BY DEF FileReads
  <2> DEFINE e == Noted(<<>>, TRUE)
  <2>2. e \in FileReads /\ Len(e) = 1 /\ DOMAIN e = 1 .. Len(e) /\ e[Len(e)] = Note
    <3> DEFINE z == <<>>
    <3>1. z \in FileReads /\ Len(z) = 0 /\ Len(z) <= 3 BY <2>1
    <3> HIDE DEF z
    <3>2. LET g == Noted(z, TRUE)
          IN /\ g \in FileReads /\ Len(g) = Len(z) + 1 - (IF Len(z) = 3 THEN 1 ELSE 0)
             /\ DOMAIN g = 1 .. Len(g) /\ g[Len(g)] = Note
      BY <1>2, <3>1, NotedIs
    <3> DEFINE g == Noted(z, TRUE)
    <3>3. /\ g \in FileReads /\ Len(g) = Len(z) + 1 - (IF Len(z) = 3 THEN 1 ELSE 0)
          /\ DOMAIN g = 1 .. Len(g) /\ g[Len(g)] = Note
      BY <3>2
    <3> HIDE DEF g, e
    <3>4. g \in FileReads /\ Len(g) = 1 /\ DOMAIN g = 1 .. Len(g) /\ g[Len(g)] = Note BY <3>1, <3>3
    <3>5. g = e BY DEF g, e, z
    <3>q. QED BY <3>4, <3>5
  <2> HIDE DEF e
  <2>q. QED BY <2>2 DEF e
<1> HIDE DEF r, x, ok, q
<1>7. /\ DOMAIN handles' = AllLibs /\ (\A m \in AllLibs : Whole(m, handles'[m]))
      /\ handles'["disk"] = x /\ \A m \in AllLibs \ {"disk"} : handles'[m] = handles[m]
  BY <1>1, <1>3, SetHandle DEF AllLibs
<1>8. /\ DOMAIN hist' = DOMAIN hist /\ hist'.asked = hist.asked /\ hist'.lines = hist.lines
      /\ hist'.since = hist.since /\ hist'.odd = hist.odd /\ hist'.base = hist.base
      /\ hist'.busy = hist.busy /\ hist'.pg0 = hist.pg0 /\ hist'.pages = hist.pages
      /\ hist'.part = q /\ hist'.out = hist.out
  BY <1>1 DEF VmInv, Remembered
<1>9. Typed' BY <1>1 DEF VmInv, Typed, kernel, FilesOk, FileOk, ULongs
<1>10. Remembered' BY <1>8 DEF VmInv, Remembered
<1>11. Placed' BY <1>1 DEF VmInv, Placed, VmPoints, BeforeLines, InLines, SumPoints, BeforeRounds, InRounds
<1>12. Opened'
  BY <1>1, <1>3, <1>7 DEF VmInv, Placed, Opened, VmOpen, StatOpen, MemOpen, InLines, InRounds, AllLibs
<1>13. Counted' BY <1>1 DEF Counted, BeforeLines, InLines
<1>14. Asked'
  <2>1. hist.asked \in Nat BY DEF VmInv, Remembered
  <2>q. QED BY <1>1, <1>8, <2>1
        DEF VmInv, Placed, Asked, BeforeLines, BeforeRounds, InLines, InRounds, Limited, Silent, SumPoints
<1>15. Parted'
  <2>1. ASSUME point = "partnew", ok PROVE Ordered(q, second) /\ Seen(q, x) /\ Len(q) = 1
    <3>1. q \in FileReads /\ Len(q) = 1 /\ DOMAIN q = 1 .. 1 /\ q[1] = Note
      BY <1>6, <2>1 DEF VmInv, Parted
    <3>2. Note.at = second /\ Note.listed = Listed BY DEF Note
    <3>3. Ordered(q, second) BY <1>2, <3>1, <3>2 DEF Ordered, FileReads
    <3>4. x.newStamp = second BY <1>5, <2>1 DEF AfterRead
    <3>5. ASSUME NEW d, Has(x.nodes, d), d.name = Partition PROVE d.stamp = second /\ Listed
      <4>1. ~Has(BlankDisk.nodes, d) BY DEF BlankDisk, Has
      <4>2. Listed <=> \E j \in DOMAIN proc.disk.lines : proc.disk.lines[j].name = d.name
        BY <3>5 DEF Listed
      <4>3. IF \E j \in DOMAIN proc.disk.lines : proc.disk.lines[j].name = d.name
            THEN d.stamp = second ELSE Has(BlankDisk.nodes, d)
        BY <1>5, <2>1, <3>5 DEF AfterRead
      <4>q. QED BY <4>1, <4>2, <4>3
    <3>6. Seen(q, x)
      <4>1. second <= second BY <1>2
      <4>q. QED BY <3>1, <3>2, <3>4, <3>5, <4>1 DEF Seen
    <3>q. QED BY <3>1, <3>3, <3>6
  <2>2. second' = second /\ opt' = opt BY <1>1 DEF kernel
  <2>3. point' = "round" => opt.modes # {"part"} BY <1>1 DEF VmInv, Placed
  <2>q. QED BY <1>1, <1>7, <1>8, <2>1, <2>2, <2>3 DEF Parted, InRounds, PartitionNotStale, AllLibs
<1>16. Headed' BY <1>1, <1>8 DEF VmInv, Placed, Headed, HeaderInView, BeforeLines, BeforeRounds
<1>q. QED BY <1>9, <1>10, <1>11, <1>12, <1>13, <1>14, <1>15, <1>16 DEF VmInv

\* procps_diskstats_get says whether the device is there, and reads when it is due.
LEMMA PartFindInv == ASSUME VmInv, PartFind PROVE VmInv'
<1> DEFINE r == DiskGet(handles.disk, proc.disk, Partition, "TYPE", second)
           x == r.h
           ok == r.ok
           due == second - handles.disk.newStamp >= 1
           p == hist.part
           q == Noted(p, due)
<1>1. /\ point = "find" /\ handles' = [handles EXCEPT !.disk = x]
      /\ \/ ok /\ code' = code /\ point' = "round"
         \/ ~ok /\ point' = "done" /\ code' = 1
      /\ hist' = [hist EXCEPT !.part = q]
      /\ UNCHANGED <<argv, opt, updates, tog, pg, kernel>>
  BY DEF PartFind, Call, GoOn, Exit
<1>2. FileOk("disk", proc.disk) /\ second \in Int BY FilesAre
<1>3. handles.disk.ref = 1 /\ DiskOk(handles.disk)
  BY <1>1 DEF VmInv, Opened, Whole, AllLibs, Holds
<1>4. DiskGetKeeps(r, handles.disk, proc.disk, second) BY <1>2, <1>3, DiskGetOk
<1>5. Whole("disk", x) /\ x.ref = 1
  <2> HIDE DEF r
  <2>q. QED BY <1>3, <1>4 DEF DiskGetKeeps, Whole, Holds
<1>6. ok /\ due => proc.disk.status = "fine" /\ AfterRead(x, handles.disk, proc.disk, second)
  <2>1. ok /\ due => proc.disk.status = "fine" BY <1>2, <1>3, DiskGetFine
  <2> HIDE DEF r
  <2>q. QED BY <1>4, <2>1 DEF DiskGetKeeps
<1>7. ~due => Less(x, handles.disk) /\ q = p
  <2>1. ~due => q = p BY DEF Noted
  <2> HIDE DEF r
  <2>q. QED BY <1>4, <2>1 DEF DiskGetKeeps
<1>8. Ordered(p, second) /\ Seen(p, handles.disk) /\ Len(p) = 1 /\ opt.modes = {"part"} /\ updates = 0
  BY <1>1 DEF VmInv, Parted, Placed, Asked, BeforeRounds
<1>9. due => q = Noted(p, TRUE) OBVIOUS
<1>10. handles.disk.newStamp = p[1].at /\ handles.disk.newStamp \in Int
  BY <1>3, <1>8 DEF Seen, DiskOk, DiskShape
<1>11. due => p[1].at < second BY <1>2, <1>10
<1> HIDE DEF r, x, ok, q, due
<1>12. /\ DOMAIN handles' = AllLibs /\ (\A m \in AllLibs : Whole(m, handles'[m]))
       /\ handles'["disk"] = x /\ \A m \in AllLibs \ {"disk"} : handles'[m] = handles[m]
  BY <1>1, <1>5, SetHandle DEF AllLibs
<1>13. /\ DOMAIN hist' = DOMAIN hist /\ hist'.asked = hist.asked /\ hist'.lines = hist.lines
       /\ hist'.since = hist.since /\ hist'.odd = hist.odd /\ hist'.base = hist.base
       /\ hist'.busy = hist.busy /\ hist'.pg0 = hist.pg0 /\ hist'.pages = hist.pages
       /\ hist'.part = q /\ hist'.out = hist.out
  BY <1>1 DEF VmInv, Remembered
<1>14. Typed' BY <1>1 DEF VmInv, Typed, kernel, FilesOk, FileOk, ULongs
<1>15. Remembered' BY <1>13 DEF VmInv, Remembered
<1>16. Placed' BY <1>1 DEF VmInv, Placed, VmPoints, BeforeLines, InLines, SumPoints, BeforeRounds, InRounds
<1>17. Opened'
  BY <1>1, <1>5, <1>8, <1>12 DEF Opened, VmOpen, StatOpen, MemOpen, InLines, InRounds, AllLibs
<1>18. Counted' BY <1>1 DEF Counted, BeforeLines, InLines
<1>19. Asked'
  <2>1. hist.asked \in Nat BY DEF VmInv, Remembered
  <2>q. QED BY <1>1, <1>13, <2>1
        DEF VmInv, Placed, Asked, BeforeLines, BeforeRounds, InLines, InRounds, Limited, Silent, SumPoints
<1>20. Parted'
  <2>1. ASSUME ok
        PROVE  Ordered(q, second) /\ Seen(q, x) /\ Len(q) < 3 /\ (Len(q) = 2 => q[1].at < q[2].at)
    <3>1. CASE due
      <4>1. Apart(p) BY <1>8 DEF Apart
      <4> DEFINE e == Noted(p, TRUE)
      <4>2. /\ Ordered(e, second) /\ Seen(e, x) /\ Len(e) = 2
            /\ e[2].at = second /\ e[2 - 1] = p[1]
        <5>a. proc.disk.status = "fine" /\ AfterRead(x, handles.disk, proc.disk, second)
          BY <1>6, <2>1, <3>1
        <5>b. Ordered(p, second) /\ Seen(p, handles.disk) BY <1>8
        <5>c. /\ Ordered(e, second) /\ Seen(e, x) /\ Len(e) = (IF Len(p) = 3 THEN 3 ELSE Len(p) + 1)
              /\ e[Len(e)].at = second /\ e[Len(e) - 1] = p[Len(p)]
          <6> HIDE DEF p
          <6>q. QED BY <1>2, <1>3, <4>1, <5>a, <5>b, PartReads
        <5>1. /\ Ordered(e, second) /\ Seen(e, x) /\ Len(e) = 2
              /\ e[Len(e)].at = second /\ e[Len(e) - 1] = p[Len(p)]
          <6> HIDE DEF e, p
          <6>1. Len(p) = 1 BY <1>8
          <6>q. QED BY <5>c, <6>1
        <5> HIDE DEF e, p
        <5>q. QED BY <1>8, <5>1
      <4>3. q = e BY <1>9, <3>1
      <4> HIDE DEF e, p
      <4>4. e[1] = p[1] BY <4>2
      <4>5. Len(q) < 3 /\ q[1].at < q[2].at
        <5>1. Len(q) = 2 /\ q[1] = p[1] /\ q[2].at = second /\ p[1].at < second
          BY <1>11, <3>1, <4>2, <4>3, <4>4
        <5>q. QED BY <5>1
      <4>q. QED BY <4>2, <4>3, <4>5
    <3>2. CASE ~due
      <4>1. q = p /\ Less(x, handles.disk) BY <1>7, <3>2
      <4>2. Seen(p, x) BY <1>8, <4>1 DEF Seen, Less
      <4>3. Ordered(q, second) /\ Seen(q, x) BY <1>8, <4>1, <4>2
      <4>4. Len(q) = 1 BY <1>8, <4>1
      <4> HIDE DEF p
      <4>5. Len(q) < 3 /\ (Len(q) = 2 => q[1].at < q[2].at) BY <4>4
      <4>q. QED BY <4>3, <4>5
    <3>q. QED BY <3>1, <3>2
  <2>2. second' = second /\ opt' = opt /\ updates' = 0 BY <1>1, <1>8 DEF kernel
  <2>q. QED BY <1>1, <1>12, <1>13, <2>1, <2>2 DEF Parted, InRounds, PartitionNotStale, AllLibs
<1>21. Headed' BY <1>1, <1>8, <1>13 DEF Headed, HeaderInView, BeforeLines, BeforeRounds
<1>q. QED BY <1>14, <1>15, <1>16, <1>17, <1>18, <1>19, <1>20, <1>21 DEF VmInv

\* A round of the partition's display is a read and a line, when the device is there.
LEMMA PartRoundInv == ASSUME VmInv, PartRound PROVE VmInv'
<1> DEFINE r == DiskSelect(handles.disk, proc.disk, Partition, Part_items, second)
           x == r.h
           ok == r.ok
           p == hist.part
           q == Noted(p, TRUE)
           lines == IF r.ok THEN hist.lines + 1 ELSE hist.lines
           out == IF r.ok THEN <<"row">> ELSE <<>>
<1>1. /\ point = "round" /\ updates < MaxLoops /\ "part" \in opt.modes /\ More(updates)
      /\ handles' = [handles EXCEPT !.disk = x]
      /\ \/ ok /\ code' = code /\ point' = "next"
         \/ ~ok /\ point' = "done" /\ code' = 1
      /\ hist' = [hist EXCEPT !.part = q, !.lines = lines, !.out = out]
      /\ UNCHANGED <<argv, opt, updates, tog, pg, kernel>>
  BY DEF PartRound, Rounds, Call, GoOn, Exit
<1>2. FileOk("disk", proc.disk) /\ second \in Int BY FilesAre
<1>3. opt.modes = {"part"} BY <1>1 DEF VmInv, Placed, InRounds
<1>4. handles.disk.ref = 1 /\ DiskOk(handles.disk)
  <2>1. handles.disk.ref = 1 BY <1>1, <1>3 DEF VmInv, Opened, InRounds
  <2>q. QED BY <2>1 DEF VmInv, Opened, Whole, AllLibs, Holds
<1>5. Whole("disk", x) /\ x.ref = 1
  <2>1. DiskSelectKeeps(r, handles.disk, proc.disk, Part_items, second) BY <1>2, <1>4, DiskSelectOk
  <2>2. DiskOk(x) /\ x.ref = handles.disk.ref
    <3> HIDE DEF r
    <3>q. QED BY <1>4, <2>1 DEF DiskSelectKeeps, DiskDone
  <2> HIDE DEF r
  <2>q. QED BY <1>4, <2>2 DEF Whole, Holds
<1>6. ok => /\ proc.disk.status = "fine" /\ AfterRead(x, handles.disk, proc.disk, second)
            /\ \E d : Has(x.nodes, d) /\ d.name = Partition /\ d.stamp \in {handles.disk.newStamp, second}
  BY <1>2, <1>4, DiskSelectFound
<1>7. lines = (IF ok THEN hist.lines + 1 ELSE hist.lines) OBVIOUS
<1>8. /\ Ordered(p, second) /\ Seen(p, handles.disk)
      /\ IF updates = 0 THEN Len(p) < 3 /\ (Len(p) = 2 => p[1].at < p[2].at) ELSE p[Len(p)].at < second
  BY <1>1, <1>3 DEF VmInv, Parted, InRounds
<1>9. Apart(p) BY <1>8 DEF Apart
<1> HIDE DEF r, x, ok, p, q, lines, out
<1>10. ok => /\ Ordered(q, second) /\ Seen(q, x)
             /\ q[Len(q)].listed \/ \E k \in 1 .. Len(q) - 1 : q[k].listed /\ q[k].at = q[Len(q) - 1].at
  BY <1>2, <1>4, <1>6, <1>8, <1>9, PartReads DEF q
<1>11. /\ DOMAIN handles' = AllLibs /\ (\A m \in AllLibs : Whole(m, handles'[m]))
       /\ handles'["disk"] = x /\ \A m \in AllLibs \ {"disk"} : handles'[m] = handles[m]
  BY <1>1, <1>5, SetHandle DEF AllLibs
<1>12. /\ DOMAIN hist' = DOMAIN hist /\ hist'.asked = hist.asked /\ hist'.lines = lines
       /\ hist'.since = hist.since /\ hist'.odd = hist.odd /\ hist'.base = hist.base
       /\ hist'.busy = hist.busy /\ hist'.pg0 = hist.pg0 /\ hist'.pages = hist.pages
       /\ hist'.part = q /\ hist'.out = out
  BY <1>1 DEF VmInv, Remembered
<1>13. Typed' BY <1>1 DEF VmInv, Typed, kernel, FilesOk, FileOk, ULongs
<1>14. Remembered' BY <1>7, <1>12 DEF VmInv, Remembered
<1>15. Placed'
  BY <1>1, <1>3 DEF VmInv, Placed, VmPoints, BeforeLines, InLines, SumPoints, BeforeRounds, InRounds
<1>16. Opened'
  BY <1>1, <1>3, <1>5, <1>11 DEF Opened, VmOpen, StatOpen, MemOpen, InLines, InRounds, AllLibs
<1>17. Counted' BY <1>1 DEF Counted, BeforeLines, InLines
<1>18. Asked'
  BY <1>1, <1>7, <1>12 DEF VmInv, Asked, BeforeLines, BeforeRounds, InLines, InRounds, Limited, Silent, More
<1>19. Parted'
  <2>1. second' = second /\ opt' = opt BY <1>1 DEF kernel
  <2>2. PartitionNotStale' BY <1>1, <1>10, <1>12 DEF PartitionNotStale
  <2>q. QED BY <1>1, <1>10, <1>11, <1>12, <2>1, <2>2 DEF Parted, InRounds, AllLibs
<1>20. Headed' BY <1>1, <1>3, <1>12 DEF Headed, HeaderInView, BeforeLines
<1>q. QED BY <1>13, <1>14, <1>15, <1>16, <1>17, <1>18, <1>19, <1>20 DEF VmInv

\* A round of the disks' or the caches' display.
LEMMA RoundInv ==
  ASSUME VmInv, point = "round", updates < MaxLoops, More(updates), NEW l \in {"disk", "slab"},
         opt.modes = {l}, NEW r, NEW out, Round(l, r, out), Whole(l, r.h), r.h.ref = 1,
         r.ok /\ l = "slab" /\ opt.more /\ out # <<>> =>
           /\ out[1] = "header"
           /\ \A k \in DOMAIN out : k + opt.height \in DOMAIN out =>
                \E j \in k .. k + opt.height : out[j] = "header"
  PROVE  VmInv'
<1> DEFINE x == r.h
           ok == r.ok
<1>1. /\ handles' = [handles EXCEPT ![l] = x]
      /\ \/ ok /\ code' = code /\ point' = "next"
         \/ ~ok /\ point' = "done" /\ code' = 1
      /\ hist' = IF ok THEN [[hist EXCEPT !.since = @ + 0, !.lines = @ + 1] EXCEPT !.out = out] ELSE hist
      /\ UNCHANGED <<argv, opt, updates, tog, pg, kernel>>
  BY DEF Round, Call, GoOn, Exit, Lines
<1>2. l \in AllLibs BY DEF AllLibs
<1>3. Whole(l, x) /\ x.ref = 1 OBVIOUS
<1>4. ok /\ l = "slab" /\ opt.more /\ out # <<>> =>
           /\ out[1] = "header"
           /\ \A k \in DOMAIN out : k + opt.height \in DOMAIN out =>
                \E j \in k .. k + opt.height : out[j] = "header"
  OBVIOUS
<1> HIDE DEF x, ok
<1>5. /\ DOMAIN handles' = AllLibs /\ (\A m \in AllLibs : Whole(m, handles'[m]))
      /\ handles'[l] = x /\ \A m \in AllLibs \ {l} : handles'[m] = handles[m]
  BY <1>1, <1>2, <1>3, SetHandle
<1>6. /\ DOMAIN hist' = DOMAIN hist /\ hist'.asked = hist.asked
      /\ hist'.lines = (IF ok THEN hist.lines + 1 ELSE hist.lines)
      /\ hist'.since = hist.since /\ hist'.odd = hist.odd /\ hist'.base = hist.base
      /\ hist'.busy = hist.busy /\ hist'.pg0 = hist.pg0 /\ hist'.pages = hist.pages
      /\ hist'.part = hist.part /\ (ok => hist'.out = out)
  <2>1. CASE ok
    <3> DEFINE k == [hist EXCEPT !.since = @ + 0, !.lines = @ + 1]
    <3>1. /\ DOMAIN k = DOMAIN hist /\ k.since = hist.since /\ k.odd = hist.odd
          /\ k.asked = hist.asked /\ k.lines = hist.lines + 1 /\ k.base = hist.base /\ k.busy = hist.busy
          /\ k.pg0 = hist.pg0 /\ k.pages = hist.pages /\ k.part = hist.part
      BY DEF VmInv, Remembered
    <3>2. hist' = [k EXCEPT !.out = out] BY <1>1, <2>1
    <3> HIDE DEF k
    <3>q. QED BY <2>1, <3>1, <3>2 DEF VmInv, Remembered
  <2>2. CASE ~ok BY <1>1, <2>2
  <2>q. QED BY <2>1, <2>2
<1>7. Typed' BY <1>1 DEF VmInv, Typed, kernel, FilesOk, FileOk, ULongs
<1>8. Remembered' BY <1>6 DEF VmInv, Remembered
<1>9. Placed' BY <1>1 DEF VmInv, Placed, VmPoints, BeforeLines, InLines, SumPoints, BeforeRounds, InRounds
<1>10. Opened'
  BY <1>1, <1>3, <1>5 DEF VmInv, Opened, VmOpen, StatOpen, MemOpen, InLines, InRounds, AllLibs
<1>11. Counted' BY <1>1 DEF Counted, BeforeLines, InLines
<1>12. Asked'
  BY <1>1, <1>6 DEF VmInv, Asked, BeforeLines, BeforeRounds, InLines, InRounds, Limited, Silent, More
<1>13. Parted' BY <1>1 DEF VmInv, Parted, InRounds, PartitionNotStale
<1>14. Headed'
  <2>1. HeaderInView' BY <1>1, <1>4, <1>6 DEF HeaderInView
  <2>q. QED BY <1>1, <1>6, <2>1 DEF Headed, BeforeLines
<1>q. QED BY <1>7, <1>8, <1>9, <1>10, <1>11, <1>12, <1>13, <1>14 DEF VmInv

\* disk_format shows its devices.
LEMMA DiskRoundInv == ASSUME VmInv, DiskRound PROVE VmInv'
<1> DEFINE r == DiskReap(handles.disk, proc.disk, Disk_items, second)
           n == r.h.fetch.total
           out == IF r.ok THEN Printed(n, {j \in 1 .. n : r.h.rows[j][1] = "disk"}) ELSE <<>>
<1>1. /\ point = "round" /\ updates < MaxLoops /\ "disk" \in opt.modes /\ More(updates) /\ Round("disk", r, out)
  BY DEF DiskRound, Rounds
<1>2. opt.modes = {"disk"} BY <1>1 DEF VmInv, Placed, InRounds
<1>3. handles.disk.ref = 1 BY <1>1, <1>2 DEF VmInv, Opened, InRounds
<1>4. Whole("disk", r.h) /\ r.h.ref = 1 BY <1>3, DiskReapWhole
<1> HIDE DEF r, n, out
<1>q. QED BY <1>1, <1>2, <1>4, RoundInv

\* slab_format sorts the caches and shows them all, with a header in view.
LEMMA SlabRoundInv == ASSUME VmInv, SlabRound PROVE VmInv'
<1> DEFINE r == SlabReap(handles.slab, proc.slab, Node_items)
           rows == SlabSort(r.h.rows, Node_items, Node_items[2], TRUE)
           sorted == IF r.ok THEN [r EXCEPT !.h.rows = rows] ELSE r
           n == r.h.fetch.total
           out == IF r.ok THEN Printed(n, 1 .. n) ELSE <<>>
<1>1. /\ point = "round" /\ updates < MaxLoops /\ "slab" \in opt.modes /\ More(updates) /\ Round("slab", sorted, out)
  BY DEF SlabRound, Rounds
<1>2. opt.modes = {"slab"} BY <1>1 DEF VmInv, Placed, InRounds
<1>3. handles.slab.ref = 1 BY <1>1, <1>2 DEF VmInv, Opened, InRounds
<1>4. SlabOk(handles.slab) BY <1>3 DEF VmInv, Opened, Whole, AllLibs, Holds
<1>5. SlabKeeps(r, handles.slab) BY <1>4, FilesAre, SlabReapOk
<1>r. r.ok => [r EXCEPT !.h.rows = rows].h = [r.h EXCEPT !.rows = rows]
  <2>1. DOMAIN r = {"ok", "h"} BY DEF SlabReap, SlabRead
  <2> HIDE DEF r, rows
  <2>q. QED BY <2>1
<1> HIDE DEF r, rows
<1>6. SlabOk(r.h) /\ r.h.ref = 1 /\ r.ok \in BOOLEAN BY <1>3, <1>5 DEF SlabKeeps
<1>7. Whole("slab", sorted.h) /\ sorted.h.ref = 1
  <2>1. CASE r.ok
    <3>1. sorted.h = [r.h EXCEPT !.rows = rows] BY <1>r, <2>1
    <3>2. SlabOk([r.h EXCEPT !.rows = rows]) /\ [r.h EXCEPT !.rows = rows].ref = 1
      BY ONLY <1>6, SlabRowsKeep
    <3>3. SlabOk(sorted.h) /\ sorted.h.ref = 1 BY ONLY <3>1, <3>2
    <3>q. QED BY ONLY <3>3 DEF Whole, Holds
  <2>2. CASE ~r.ok BY <1>6, <2>2 DEF Whole, Holds
  <2>q. QED BY <2>1, <2>2
<1>8. n \in Nat BY <1>6 DEF SlabOk, Stacked
<1>9. opt.more => opt.height \in Nat \ {0} BY <1>1 DEF VmInv, Typed, Options, Placed
<1>10. sorted.ok /\ opt.more /\ out # <<>> =>
           /\ out[1] = "header"
           /\ \A k \in DOMAIN out : k + opt.height \in DOMAIN out =>
                \E j \in k .. k + opt.height : out[j] = "header"
  <2> SUFFICES ASSUME r.ok, opt.more, out # <<>>
               PROVE  /\ out[1] = "header"
                      /\ \A k \in DOMAIN out : k + opt.height \in DOMAIN out =>
                           \E j \in k .. k + opt.height : out[j] = "header"
    OBVIOUS
  <2> HIDE DEF n
  <2>1. Topped(out, n) BY <1>8, <1>9, PrintedTopped
  <2> HIDE DEF out
  <2>2. Len(out) > 0 BY <2>1, EmptySeq, LenProperties DEF Topped
  <2>q. QED BY <2>1, <2>2 DEF Topped
<1> HIDE DEF sorted, n, out
<1>q. QED BY <1>1, <1>2, <1>7, <1>10, RoundInv

-------------------------------------------------------------------------------
\* Every step keeps the invariant.
LEMMA VmStep == VmInv /\ [VmstatNext]_vmstatVars => VmInv'
<1> SUFFICES ASSUME VmInv, [VmstatNext]_vmstatVars PROVE VmInv' OBVIOUS
<1>1. CASE Option BY <1>1, OptionInv
<1>2. CASE Operands BY <1>2, OperandsInv
<1>3. CASE ForkFormat BY <1>3, ForkFormatInv
<1>4. CASE FirstPages BY <1>4, FirstPagesInv
<1>5. CASE SkipFirst BY <1>5, SkipFirstInv
<1>6. CASE FirstLine BY <1>6, FirstLineInv
<1>7. CASE Loop BY <1>7, LoopInv
<1>8. CASE LoopSleep BY <1>8, LoopSleepInv
<1>9. CASE LoopStat BY <1>9, LoopStatInv
<1>10. CASE LoopLine BY <1>10, LoopLineInv
<1>11. CASE DiskNewInfo BY <1>11, DiskNewInfoInv
<1>12. CASE PartFind BY <1>12, PartFindInv
<1>13. CASE PartRound BY <1>13, PartRoundInv
<1>14. CASE DiskRound BY <1>14, DiskRoundInv
<1>15. CASE SlabRound BY <1>15, SlabRoundInv
<1>16. CASE Between BY <1>16, BetweenInv
<1>17. CASE Nap BY <1>17, NapInv
<1>18. CASE Close BY <1>18, CloseInv
<1>19. CASE FilesChange BY <1>19, FilesChangeInv
<1>20. CASE UNCHANGED vmstatVars BY <1>20, IdleInv
<1>21. CASE \/ VmNewInfo \/ StatNewInfo \/ MemNewInfo \/ FirstMemory \/ SlabNewInfo \/ DiskSum
            \/ SumStat \/ SumStatSelect \/ SumVm \/ SumMem \/ SumMemSelect \/ SumPages
  BY <1>21, OpenSteps
<1>q. QED BY <1>1, <1>2, <1>3, <1>4, <1>5, <1>6, <1>7, <1>8, <1>9, <1>10, <1>11, <1>12, <1>13, <1>14,
             <1>15, <1>16, <1>17, <1>18, <1>19, <1>20, <1>21 DEF VmstatNext, Program

\* The invariant holds always.
LEMMA VmAlways == VmstatSpec => []VmInv
<1>q. QED BY InitVm, VmStep, PTL DEF VmstatSpec

\* The invariant has the type.
LEMMA VmTyped == VmInv => VmstatTypeOK
<1> SUFFICES ASSUME VmInv PROVE VmstatTypeOK OBVIOUS
<1>1. /\ updates \in 0 .. MaxLoops /\ tog \in {0, 1} /\ code \in -1 .. 1
      /\ opt.num \in 0 .. ULong - 1
  BY DEF VmInv, Typed, Options
<1>2. pg \in Seq(0 .. ULong - 1)
  <2>1. pg \in [1 .. 2 -> 0 .. ULong - 1] BY DEF VmInv, Typed
  <2> DEFINE S == 0 .. ULong - 1
  <2> HIDE DEF S
  <2>2. \A t \in [1 .. 2 -> S] : t \in Seq(S) BY 2 \in Nat, SeqDef
  <2>q. QED BY <2>1, <2>2 DEF S
<1>3. (point = "done") = (code # -1) BY DEF VmInv, Placed
<1>4. point = "done" /\ code = 0 => \A l \in DOMAIN handles : handles[l].ref = 0 BY DEF VmInv, Opened
<1>q. QED BY <1>1, <1>2, <1>3, <1>4 DEF VmstatTypeOK

\* And the counts.
LEMMA VmCounted == VmInv => CountsAsAsked
<1> SUFFICES ASSUME VmInv PROVE CountsAsAsked OBVIOUS
<1>1. CountedOnce BY DEF VmInv, Counted, CountedOnce
<1>2. LinesAsAsked BY DEF VmInv, Asked, LinesAsAsked, Limited
<1>q. QED BY <1>1, <1>2 DEF CountsAsAsked

(* For any command line, any height of the window, any files of the kernel  *)
(* and any number of updates: what vmstat remembers has its type, it has an *)
(* exit code when it has ended, and when it has ended well every library's  *)
(* handle that its mode opened has been released (vmstat.c:543-545, 599,    *)
(* 728, 789, 847, 903-905, 920).                                            *)
THEOREM VmstatTypeCorrect == VmstatSpec => []VmstatTypeOK
<1>q. QED BY VmAlways, VmTyped, PTL

(* The columns of the lines add up to what happened between the first       *)
(* sample and the last, however the counters of pages wrap and whichever    *)
(* files change between the reads, unless a time ran backwards or a read    *)
(* failed; and a run with a count that ends well has printed that many      *)
(* lines, with -y and without (vmstat.c:385-533, 448, 451, 588).            *)
THEOREM VmstatCounts == VmstatSpec => []CountsAsAsked
<1>q. QED BY VmAlways, VmCounted, PTL

(* A line of a partition is of a device that was there at this read, at the *)
(* one before or at another in the second of that one, whatever devices     *)
(* come and go (diskstats.c:372); and with -n or without, whatever the      *)
(* window's height, what a screen shows has a header in it (vmstat.c:453,   *)
(* 777, 1062).                                                              *)
THEOREM VmstatLines == VmstatSpec => []LinesOfNow
<1>1. VmInv => LinesOfNow BY DEF VmInv, Parted, Headed, LinesOfNow
<1>q. QED BY <1>1, VmAlways, PTL
===============================================================================
