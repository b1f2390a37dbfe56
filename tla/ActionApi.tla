------------------------------- MODULE ActionApi -------------------------------
(***************************************************************************)
(* The handler of the action API: it parses and validates the actions of a *)
(* request, starts a goroutine that captures the processes one after the   *)
(* other, each under the mutex `one`, and answers at once or when that     *)
(* goroutine is done.  The goroutine fills the response in either case.    *)
(***************************************************************************)
EXTENDS Naturals, Integers, Sequences, FiniteSets, SequencesExt

CONSTANTS
  Requests,      \* bound: the requests that arrive
  Pids,          \* processes
  Unsupported,   \* "Unsupported Operation" among the results
  Bodies,        \* the lists of actions a request may have
  Nobody         \* no holder of the mutex

ASSUME ActionApiAssumption ==
  /\ Unsupported \notin Pids /\ Nobody \notin Requests
  /\ IsFiniteSet(Pids) /\ IsFiniteSet(Requests)

VARIABLES
  request,   \* the request: its actions, waitFor, and whether it can be decoded and
             \* has the right key
  handler,   \* the goroutine of net/http: off, parse, validate, forward, wait,
             \* encode, encodeOutput, done
  worker,    \* the goroutine of handleActionAPI: off, next, capture, populate, done
  result,    \* what the actions were parsed into
  next,      \* the index in it the worker is at
  results,   \* processPidsResults, by result; `by` is the index of the capture
  pending,   \* the entries of it that the range loop has not come to
  one,       \* holder of the mutex
  resp,      \* the response that is filled
  sent       \* what was encoded of it

vars == <<request, handler, worker, result, next, results, pending, one, resp, sent>>

(***************************************************************************)
(* What a list of actions may be parsed into.  PROCESS_HIGH_CPU and        *)
(* PROCESS_UNKNOWN look for processes, which come and go, and may find     *)
(* none; a token may stand for several, in any order.                      *)
(***************************************************************************)
Named(action) ==
  LET top == {<<>>} \cup {<<p>> : p \in Pids}
  IN CASE action \in Pids -> {<<action>>}
       [] action = "PROCESS_HIGH_CPU" -> top
       [] action = "PROCESS_UNKNOWN" -> {s \o t : s \in top, t \in top}
       [] action = "token" -> UNION {SetToSeqs(S) : S \in SUBSET Pids}
       [] action \in {"attendance", "malformed"} -> {<<>>}
       [] OTHER -> {<<Unsupported>>}

Parsed(actions) ==
  FoldLeft(LAMBDA found, a : {s \o t : s \in found, t \in Named(a)}, {<<>>}, actions)

\* What a list is parsed into is a list; an induction over the fold, which TLC makes.
ASSUME ParsedAssumption ==
  \A actions \in Bodies : \A s \in Parsed(actions) :
    s \in Seq(Pids \cup {Unsupported})

MayFail(actions) == \E i \in DOMAIN actions : actions[i] \in {"PROCESS_HIGH_CPU", "PROCESS_UNKNOWN"}

HasCmd(q) == \E i \in DOMAIN request[q].actions : request[q].actions[i] = "command"
ShouldWait(q) == request[q].waitFor \/ HasCmd(q)

Keys(s) == {s[i] : i \in DOMAIN s}
NoResponse == [code |-> 0, urls |-> {}, output |-> {}]

Goto(q, from, to) == handler[q] = from /\ handler' = [handler EXCEPT ![q] = to]
Work(q, from, to) == worker[q] = from /\ worker' = [worker EXCEPT ![q] = to]

work == <<worker, next, results, pending, one>>

Init ==
  /\ request = [q \in Requests |-> [actions |-> <<>>, waitFor |-> FALSE, forward |-> FALSE, good |-> FALSE]]
  /\ handler = [q \in Requests |-> "off"] /\ worker = [q \in Requests |-> "off"]
  /\ result = [q \in Requests |-> <<>>] /\ next = [q \in Requests |-> 1]
  /\ results = [q \in Requests |-> {}] /\ pending = [q \in Requests |-> {}]
  /\ one = Nobody
  /\ resp = [q \in Requests |-> NoResponse] /\ sent = [q \in Requests |-> NoResponse]

(***************************************************************************)
(* Mutated forms of the operations below: what a plausible bug would make  *)
(* of them.  The specification does not use them.                          *)
(***************************************************************************)
\* The mutex is released only when there is a URL.
CaptureKeepsLock(q) ==
  /\ Work(q, "capture", "next")
  /\ \E url \in BOOLEAN :
       /\ results' = [results EXCEPT ![q] =
            {r \in @ : r.of # result[q][next[q]]}
              \cup {[of |-> result[q][next[q]], by |-> next[q], url |-> url]}]
       /\ one' = IF url THEN Nobody ELSE one
  /\ next' = [next EXCEPT ![q] = @ + 1]
  /\ UNCHANGED <<request, handler, result, pending, resp, sent>>

\* The handler does not wait for the goroutine.
AwaitNothing(q) ==
  /\ Goto(q, "wait", "encode")
  /\ UNCHANGED <<request, result, work, resp, sent>>

(***************************************************************************)
(* The handler                                                             *)
(***************************************************************************)
Arrive(q) ==
  /\ \E actions \in Bodies, waitFor, forward, good \in BOOLEAN :
       /\ request' = [request EXCEPT ![q] = [actions |-> actions, waitFor |-> waitFor,
                                             forward |-> forward, good |-> good]]
       /\ forward \/ ~good => actions = <<>> /\ ~waitFor
       /\ forward => good
       /\ Goto(q, "off", IF forward THEN "forward" ELSE "parse")
  /\ UNCHANGED <<result, work, resp, sent>>

\* The body cannot be decoded, the key is wrong, or GetTopCpu or GetTopMem failed.
Refuse(q) ==
  /\ Goto(q, "parse", "encode")
  /\ ~request[q].good \/ MayFail(request[q].actions)
  /\ resp' = [resp EXCEPT ![q].code = -1]
  /\ UNCHANGED <<request, result, work, sent>>

Parse(q) ==
  /\ request[q].good
  /\ Goto(q, "parse", "validate")
  /\ \E s \in Parsed(request[q].actions) : result' = [result EXCEPT ![q] = s]
  /\ UNCHANGED <<request, work, resp, sent>>

OnlyUnsupported(q) == Keys(result[q]) \subseteq {Unsupported}

\* Without OnlyUnsupported, one of the processes may still exist, or none.
Validate(q) ==
  \/ /\ Goto(q, "validate", "encode")
     /\ resp' = [resp EXCEPT ![q] = [code |-> -1, urls |-> {},
                   output |-> IF OnlyUnsupported(q) THEN Keys(result[q]) ELSE {}]]
     /\ UNCHANGED <<request, result, work, sent>>
  \/ /\ Goto(q, "validate", IF ShouldWait(q) THEN "wait" ELSE "encode")
     /\ ~OnlyUnsupported(q)
     /\ Work(q, "off", "next")
     /\ UNCHANGED <<request, result, next, results, pending, one, resp, sent>>

\* wg.Wait
Await(q) ==
  /\ Goto(q, "wait", "encode")
  /\ worker[q] = "done"
  /\ UNCHANGED <<request, result, work, resp, sent>>

\* handleYcrashForward: the address cannot be parsed, the request fails, or its
\* answer is passed on; in each case the agent's own response follows.
Forward(q) ==
  /\ Goto(q, "forward", "encode")
  /\ \E code \in {-1, -2, 0} : resp' = [resp EXCEPT ![q].code = code]
  /\ UNCHANGED <<request, result, work, sent>>

\* The encoder reads field after field; without waitFor the goroutine may be
\* writing them meanwhile.
Encode(q) ==
  \/ /\ Goto(q, "encode", "encodeOutput")
     /\ sent' = [sent EXCEPT ![q].code = resp[q].code, ![q].urls = resp[q].urls]
     /\ UNCHANGED <<request, result, work, resp>>
  \/ /\ Goto(q, "encodeOutput", "done")
     /\ sent' = [sent EXCEPT ![q].output = resp[q].output]
     /\ UNCHANGED <<request, result, work, resp>>

Handler(q) == Refuse(q) \/ Parse(q) \/ Validate(q) \/ Await(q) \/ Forward(q) \/ Encode(q)

(***************************************************************************)
(* The goroutine                                                           *)
(***************************************************************************)
Skip(q) ==
  /\ next[q] <= Len(result[q]) /\ result[q][next[q]] = Unsupported
  /\ Work(q, "next", "next")
  /\ results' = [results EXCEPT ![q] =
       {r \in @ : r.of # Unsupported} \cup {[of |-> Unsupported, by |-> next[q], url |-> FALSE]}]
  /\ next' = [next EXCEPT ![q] = @ + 1]
  /\ UNCHANGED <<request, handler, result, pending, one, resp, sent>>

\* ProcessPidsWithMutex, for one process at a time.
Lock(q) ==
  /\ next[q] <= Len(result[q]) /\ result[q][next[q]] \in Pids
  /\ Work(q, "next", "capture")
  /\ one = Nobody /\ one' = q
  /\ UNCHANGED <<request, handler, result, next, results, pending, resp, sent>>

\* The capture ends, with a URL or without; its entry replaces an earlier one of
\* the same process.
Capture(q) ==
  /\ Work(q, "capture", "next")
  /\ \E url \in BOOLEAN :
       results' = [results EXCEPT ![q] =
         {r \in @ : r.of # result[q][next[q]]}
           \cup {[of |-> result[q][next[q]], by |-> next[q], url |-> url]}]
  /\ one' = Nobody
  /\ next' = [next EXCEPT ![q] = @ + 1]
  /\ UNCHANGED <<request, handler, result, pending, resp, sent>>

\* "Maintain legacy response for 1 pid": only with several results are they listed.
Collect(q) ==
  /\ next[q] > Len(result[q])
  /\ IF Cardinality(results[q]) = 1
     THEN /\ Work(q, "next", "done")
          /\ resp' = [resp EXCEPT ![q].urls = {r.by : r \in {x \in results[q] : x.url}}]
          /\ UNCHANGED pending
     ELSE /\ Work(q, "next", "populate")
          /\ pending' = [pending EXCEPT ![q] = results[q]]
          /\ UNCHANGED resp
  /\ UNCHANGED <<request, handler, result, next, results, one, sent>>

\* One round of the range over the map, in any order.
Populate(q) ==
  \/ \E r \in pending[q] :
       /\ Work(q, "populate", "populate")
       /\ pending' = [pending EXCEPT ![q] = @ \ {r}]
       /\ resp' = [resp EXCEPT ![q].urls = IF r.url THEN @ \cup {r.by} ELSE @,
                               ![q].output = @ \cup {r.of}]
       /\ UNCHANGED <<request, handler, result, next, results, one, sent>>
  \/ /\ Work(q, "populate", "done")
     /\ pending[q] = {}
     /\ UNCHANGED <<request, handler, result, next, results, pending, one, resp, sent>>

Worker(q) == Skip(q) \/ Lock(q) \/ Capture(q) \/ Collect(q) \/ Populate(q)

Next == \E q \in Requests : Arrive(q) \/ Handler(q) \/ Worker(q)

Spec == Init /\ [][Next]_vars

(***************************************************************************)
(* Fairness: goroutines are scheduled, captures and forwarded requests end *)
(* and sync.Mutex hands itself to a goroutine that waited long enough.     *)
(***************************************************************************)
FairSpec ==
  /\ Spec
  /\ \A q \in Requests :
       /\ WF_vars(Handler(q)) /\ SF_vars(Lock(q))
       /\ WF_vars(Skip(q) \/ Capture(q) \/ Collect(q) \/ Populate(q))

(***************************************************************************)
(* Properties                                                              *)
(***************************************************************************)
Responses == [code : {0, -1, -2}, urls : SUBSET Nat, output : SUBSET (Pids \cup {Unsupported})]

\* The types; in particular the goroutine stays within the results.
TypeOK ==
  /\ handler \in [Requests -> {"off", "parse", "validate", "forward", "wait", "encode",
                               "encodeOutput", "done"}]
  /\ worker \in [Requests -> {"off", "next", "capture", "populate", "done"}]
  /\ result \in [Requests -> Seq(Pids \cup {Unsupported})]
  /\ \A q \in Requests :
       /\ next[q] \in 1..(Len(result[q]) + 1)
       /\ results[q] \subseteq [of : Pids \cup {Unsupported}, by : Nat, url : BOOLEAN]
       /\ pending[q] \subseteq results[q]
       /\ resp[q].code \in {0, -1, -2} /\ sent[q].code \in {0, -1, -2}
       /\ worker[q] = "capture" => next[q] <= Len(result[q])
  /\ one \in Requests \cup {Nobody}

\* "only one goroutine can run the capture process": the captures of competing
\* requests alternate, process by process, and never overlap.
OneAtATime ==
  \A q, r \in Requests : worker[q] = "capture" /\ worker[r] = "capture" => q = r

\* A request that waits is answered with all its results, in both fields, none of
\* them from before a later capture of the same process.
WaitedIsComplete ==
  \A q \in Requests :
    handler[q] = "done" /\ ShouldWait(q) /\ sent[q].code = 0 /\ result[q] # <<>> =>
      /\ {r.of : r \in results[q]} = Keys(result[q])
      /\ sent[q].urls = {r.by : r \in {x \in results[q] : x.url}}
      /\ sent[q].output = IF Cardinality(Keys(result[q])) > 1 THEN Keys(result[q]) ELSE {}
      /\ \A r \in results[q] : \A i \in (r.by + 1)..Len(result[q]) : result[q][i] # r.of

\* A request that is answered with an error has started no capture and starts none.
ErrorCapturesNothing ==
  \A q \in Requests : resp[q].code # 0 => worker[q] = "off"

\* Requests that compete are captured one at a time and answered with what was
\* captured for them.
AnsweredAsCaptured ==
  TypeOK /\ OneAtATime /\ WaitedIsComplete /\ ErrorCapturesNothing

\* Every request is answered, and what it asked for is done, even with other
\* requests competing for `one`.
EveryRequestServed ==
  \A q \in Requests :
    handler[q] = "parse" ~> handler[q] = "done" /\ worker[q] \in {"off", "done"}
==============================================================================
