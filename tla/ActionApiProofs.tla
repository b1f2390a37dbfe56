---------------------------- MODULE ActionApiProofs ----------------------------
(***************************************************************************)
(* Proofs about ActionApi, for any number of requests and processes, and   *)
(* any lists of actions.  RequestInv says of one request how its response, *)
(* its table of results and what was encoded fit the points that its two   *)
(* goroutines are at.  A step is one request's; the others share only      *)
(* `one` with it, of which HoldsOne speaks.                                *)
(***************************************************************************)
EXTENDS ActionApi, TLAPS, FiniteSetTheorems

Result == Pids \cup {Unsupported}
Entries == [of : Result, by : Nat, url : BOOLEAN]
Request == [actions : Bodies \cup {<<>>}, waitFor : BOOLEAN, forward : BOOLEAN, good : BOOLEAN]

Types ==
  /\ request \in [Requests -> Request]
  /\ handler \in [Requests -> {"off", "parse", "validate", "forward", "wait", "encode",
                               "encodeOutput", "done"}]
  /\ worker \in [Requests -> {"off", "next", "capture", "populate", "done"}]
  /\ result \in [Requests -> Seq(Result)]
  /\ next \in [Requests -> Nat \ {0}]
  /\ results \in [Requests -> SUBSET Entries] /\ pending \in [Requests -> SUBSET Entries]
  /\ one \in Requests \cup {Nobody}
  /\ resp \in [Requests -> Responses] /\ sent \in [Requests -> Responses]

\* The mutex is held by the request that captures.
HoldsOne == \A q \in Requests : worker[q] = "capture" => one = q

\* Where the two goroutines of a request may be at the same time.
Stage(q) ==
  /\ handler[q] \in {"off", "parse", "forward"} => result[q] = <<>>
  /\ handler[q] = "parse" => request[q].actions \in Bodies
  /\ handler[q] \in {"off", "parse", "validate", "forward"} =>
       worker[q] = "off" /\ resp[q] = NoResponse
  /\ worker[q] = "off" => next[q] = 1 /\ results[q] = {}
  /\ worker[q] # "off" => resp[q].code = 0 /\ result[q] # <<>>
  /\ worker[q] # "populate" => pending[q] = {}
  /\ next[q] <= Len(result[q]) + 1
  /\ worker[q] = "capture" => next[q] <= Len(result[q])
  /\ worker[q] \in {"populate", "done"} => next[q] = Len(result[q]) + 1

\* A request that waits is answered when its goroutine is done, if it has one.
Answer(q) ==
  /\ handler[q] \in {"encode", "encodeOutput", "done"} =>
       /\ ShouldWait(q) => worker[q] \in {"off", "done"}
       /\ worker[q] = "off" => resp[q].code # 0 \/ result[q] = <<>>
  /\ handler[q] \in {"encodeOutput", "done"} =>
       sent[q].code = resp[q].code /\ (ShouldWait(q) => sent[q].urls = resp[q].urls)
  /\ handler[q] = "done" /\ ShouldWait(q) => sent[q].output = resp[q].output

\* The table has the last capture of each result that the goroutine has come past.
Table(q) ==
  /\ \A i \in 1..(next[q] - 1) : \E r \in results[q] : r.of = result[q][i]
  /\ \A r \in results[q] :
       /\ r.by \in 1..(next[q] - 1) /\ r.of = result[q][r.by]
       /\ \A i \in (r.by + 1)..(next[q] - 1) : result[q][i] # r.of
  /\ \A r, s \in results[q] : r.of = s.of => r = s

Urls(table) == {r.by : r \in {x \in table : x.url}}
Ofs(table) == {r.of : r \in table}

\* The response has what the range over the table has come past.
Filled(q) ==
  /\ worker[q] \in {"next", "capture"} => resp[q].urls = {} /\ resp[q].output = {}
  /\ worker[q] = "populate" =>
       /\ pending[q] \subseteq results[q] /\ Cardinality(results[q]) # 1
       /\ resp[q].urls = Urls(results[q] \ pending[q])
       /\ resp[q].output = Ofs(results[q] \ pending[q])
  /\ worker[q] = "done" =>
       /\ resp[q].urls = Urls(results[q])
       /\ resp[q].output = IF Cardinality(results[q]) = 1 THEN {} ELSE Ofs(results[q])

RequestInv(q) == Stage(q) /\ Answer(q) /\ Table(q) /\ Filled(q)

IInv == Types /\ HoldsOne /\ \A q \in Requests : RequestInv(q)

-----------------------------------------------------------------------------
\* Before any request arrives the invariant holds.
LEMMA InitInv == Init => IInv
<1> SUFFICES ASSUME Init PROVE IInv OBVIOUS
<1>1. NoResponse \in Responses BY DEF NoResponse, Responses
<1>2. Types BY <1>1 DEF Init, Types, Request
<1>3. HoldsOne BY DEF Init, HoldsOne
<1>4. ASSUME NEW q \in Requests PROVE RequestInv(q)
  <2>1. /\ handler[q] = "off" /\ worker[q] = "off" /\ result[q] = <<>> /\ next[q] = 1
        /\ results[q] = {} /\ pending[q] = {} /\ resp[q] = NoResponse
    BY DEF Init
  <2>2. Stage(q) BY <2>1 DEF Stage
  <2>3. Answer(q) BY <2>1 DEF Answer
  <2>4. Table(q) BY <2>1 DEF Table
  <2>5. Filled(q) BY <2>1 DEF Filled
  <2>q. QED BY <2>2, <2>3, <2>4, <2>5 DEF RequestInv
<1>q. QED BY <1>2, <1>3, <1>4 DEF IInv

\* What is request q's own.
Same(q) ==
  /\ request'[q] = request[q] /\ handler'[q] = handler[q] /\ worker'[q] = worker[q]
  /\ result'[q] = result[q] /\ next'[q] = next[q] /\ results'[q] = results[q]
  /\ pending'[q] = pending[q] /\ resp'[q] = resp[q] /\ sent'[q] = sent[q]

\* A request keeps its invariant while others take steps.
LEMMA Others == ASSUME NEW q \in Requests, RequestInv(q), Same(q) PROVE RequestInv(q)'
<1>1. Stage(q)' BY DEF RequestInv, Same, Stage
<1>2. Answer(q)' BY DEF RequestInv, Same, Answer, ShouldWait, HasCmd
<1>3. Table(q)' BY DEF RequestInv, Same, Table
<1>4. Filled(q)' BY DEF RequestInv, Same, Filled, Urls, Ofs
<1>q. QED BY <1>1, <1>2, <1>3, <1>4 DEF RequestInv

\* The goroutine's part of the invariant while the handler steps.
LEMMA TableKept ==
  ASSUME NEW q \in Requests, Table(q), result'[q] = result[q], next'[q] = next[q],
         results'[q] = results[q]
  PROVE  Table(q)'
BY DEF Table

\* A step of request q that keeps its invariant keeps all of it.
LEMMA Combine ==
  ASSUME IInv, Types', HoldsOne', NEW q \in Requests, RequestInv(q)',
         \A r \in Requests \ {q} : Same(r)
  PROVE  IInv'
<1>1. ASSUME NEW r \in Requests PROVE RequestInv(r)'
  <2>1. CASE r = q BY <2>1
  <2>2. CASE r # q BY <2>2, Others DEF IInv
  <2>q. QED BY <2>1, <2>2
<1>q. QED BY <1>1 DEF IInv

-----------------------------------------------------------------------------
\* A request arrives.
LEMMA ArriveInv == ASSUME IInv, NEW q \in Requests, Arrive(q) PROVE IInv'
<1>0. Types /\ HoldsOne /\ RequestInv(q) BY DEF IInv
<1> USE DEF Types
<1>1. PICK actions \in Bodies, waitFor, forward, good \in BOOLEAN :
        /\ request' = [request EXCEPT ![q] = [actions |-> actions, waitFor |-> waitFor,
                                              forward |-> forward, good |-> good]]
        /\ Goto(q, "off", IF forward THEN "forward" ELSE "parse")
  BY DEF Arrive
<1>2. UNCHANGED <<result, worker, next, results, pending, one, resp, sent>>
  BY DEF Arrive, work
<1>3. handler[q] = "off" /\ handler'[q] \in {"forward", "parse"}
  BY <1>0, <1>1 DEF Goto
<1>4. Types'
  <2>1. request' \in [Requests -> Request] BY <1>0, <1>1 DEF Request
  <2>q. QED BY <1>0, <1>1, <1>2, <2>1 DEF Goto
<1>5. HoldsOne' BY <1>0, <1>2 DEF HoldsOne
<1>6. RequestInv(q)'
  <2>1. request'[q].actions = actions BY <1>0, <1>1
  <2>2. Stage(q)' BY <1>0, <1>2, <1>3, <2>1 DEF RequestInv, Stage
  <2>3. Answer(q)' BY <1>3 DEF Answer
  <2>4. Table(q)' BY <1>0, <1>2, TableKept DEF RequestInv
  <2>5. Filled(q)' BY <1>0, <1>2 DEF RequestInv, Filled, Urls, Ofs
  <2>q. QED BY <2>2, <2>3, <2>4, <2>5 DEF RequestInv
<1>7. \A r \in Requests \ {q} : Same(r) BY <1>0, <1>1, <1>2 DEF Same, Goto
<1>q. QED BY <1>4, <1>5, <1>6, <1>7, Combine

\* A request is refused before anything is done for it.
LEMMA RefuseInv == ASSUME IInv, NEW q \in Requests, Refuse(q) PROVE IInv'
<1>0. Types /\ HoldsOne /\ RequestInv(q) BY DEF IInv
<1> USE DEF Types
<1>1. /\ handler[q] = "parse" /\ handler' = [handler EXCEPT ![q] = "encode"]
      /\ resp' = [resp EXCEPT ![q].code = -1]
      /\ UNCHANGED <<request, result, worker, next, results, pending, one, sent>>
  BY DEF Refuse, Goto, work
<1>2. resp'[q] = [resp[q] EXCEPT !.code = -1] /\ handler'[q] = "encode" BY <1>0, <1>1
<1>3. resp'[q] \in Responses BY <1>0, <1>2 DEF Responses
<1>4. Types' BY <1>0, <1>1, <1>3 DEF Responses
<1>5. HoldsOne' BY <1>0, <1>1 DEF HoldsOne
<1>6. RequestInv(q)'
  <2>1. worker[q] = "off" BY <1>0, <1>1 DEF RequestInv, Stage
  <2>2. resp'[q].code = -1 BY <1>0, <1>2 DEF Responses
  <2>3. Stage(q)' BY <1>0, <1>1, <1>2, <2>1 DEF RequestInv, Stage
  <2>4. Answer(q)' BY <1>1, <1>2, <2>1, <2>2 DEF Answer
  <2>5. Table(q)' BY <1>0, <1>1, TableKept DEF RequestInv
  <2>6. Filled(q)' BY <1>1, <2>1 DEF Filled
  <2>q. QED BY <2>3, <2>4, <2>5, <2>6 DEF RequestInv
<1>7. \A r \in Requests \ {q} : Same(r) BY <1>0, <1>1 DEF Same
<1>q. QED BY <1>4, <1>5, <1>6, <1>7, Combine

\* The actions are parsed.
LEMMA ParseInv == ASSUME IInv, NEW q \in Requests, Parse(q) PROVE IInv'
<1>0. Types /\ HoldsOne /\ RequestInv(q) BY DEF IInv
<1> USE DEF Types
<1>1. PICK s \in Parsed(request[q].actions) : result' = [result EXCEPT ![q] = s]
  BY DEF Parse
<1>2. /\ handler[q] = "parse" /\ handler' = [handler EXCEPT ![q] = "validate"]
      /\ UNCHANGED <<request, worker, next, results, pending, one, resp, sent>>
  BY DEF Parse, Goto, work
<1>3. s \in Seq(Result)
  <2>1. request[q].actions \in Bodies BY <1>0, <1>2 DEF RequestInv, Stage
  <2>q. QED BY <2>1, <1>1, ParsedAssumption DEF Result
<1>4. Types' BY <1>0, <1>1, <1>2, <1>3
<1>5. HoldsOne' BY <1>0, <1>2 DEF HoldsOne
<1>6. RequestInv(q)'
  <2>1. handler'[q] = "validate" /\ result'[q] = s BY <1>0, <1>1, <1>2
  <2>2. /\ worker[q] = "off" /\ next[q] = 1 /\ results[q] = {} /\ pending[q] = {}
        /\ resp[q] = NoResponse
    BY <1>0, <1>2 DEF RequestInv, Stage
  <2>3. Len(s) \in Nat BY <1>3
  <2>4. Stage(q)' BY <1>2, <2>1, <2>2, <2>3 DEF Stage
  <2>5. Answer(q)' BY <2>1 DEF Answer
  <2>6. Table(q)' BY <1>2, <2>2 DEF Table
  <2>7. Filled(q)' BY <1>2, <2>2 DEF Filled
  <2>q. QED BY <2>4, <2>5, <2>6, <2>7 DEF RequestInv
<1>7. \A r \in Requests \ {q} : Same(r) BY <1>0, <1>1, <1>2 DEF Same
<1>q. QED BY <1>4, <1>5, <1>6, <1>7, Combine

\* The actions are refused as they name no process that exists, or the goroutine starts.
LEMMA ValidateInv == ASSUME IInv, NEW q \in Requests, Validate(q) PROVE IInv'
<1>0. Types /\ HoldsOne /\ RequestInv(q) BY DEF IInv
<1> USE DEF Types
<1>1. handler[q] = "validate" BY DEF Validate, Goto
<1>2. /\ worker[q] = "off" /\ next[q] = 1 /\ results[q] = {} /\ pending[q] = {}
      /\ resp[q] = NoResponse /\ Len(result[q]) \in Nat
  BY <1>0, <1>1 DEF RequestInv, Stage
<1>3. UNCHANGED <<request, result, next, results, pending, one, sent>>
  BY DEF Validate, work
<1>4. CASE /\ Goto(q, "validate", "encode")
           /\ resp' = [resp EXCEPT ![q] = [code |-> -1, urls |-> {},
                         output |-> IF OnlyUnsupported(q) THEN Keys(result[q]) ELSE {}]]
           /\ UNCHANGED <<request, result, work, sent>>
  <2>1. worker' = worker BY <1>4 DEF work
  <2>2. Keys(result[q]) \subseteq Result BY <1>0 DEF Keys
  <2>3. handler' = [handler EXCEPT ![q] = "encode"] BY <1>4 DEF Goto
  <2>4. resp'[q].code = -1 /\ resp'[q] \in Responses
    BY <1>0, <1>4, <2>2 DEF Responses, Result
  <2>5. Types' BY <1>0, <1>3, <1>4, <2>1, <2>3, <2>4
  <2>6. HoldsOne' BY <1>0, <1>3, <2>1 DEF HoldsOne
  <2>7. RequestInv(q)'
    <3>1. handler'[q] = "encode" BY <1>0, <2>3
    <3>2. Stage(q)' BY <1>2, <1>3, <2>1, <3>1 DEF Stage
    <3>3. Answer(q)' BY <1>2, <1>3, <2>1, <2>4, <3>1 DEF Answer
    <3>4. Table(q)' BY <1>2, <1>3 DEF Table
    <3>5. Filled(q)' BY <1>2, <2>1 DEF Filled
    <3>q. QED BY <3>2, <3>3, <3>4, <3>5 DEF RequestInv
  <2>8. \A r \in Requests \ {q} : Same(r) BY <1>0, <1>3, <1>4, <2>1, <2>3 DEF Same
  <2>q. QED BY <2>5, <2>6, <2>7, <2>8, Combine
<1>5. CASE /\ Goto(q, "validate", IF ShouldWait(q) THEN "wait" ELSE "encode")
           /\ ~OnlyUnsupported(q)
           /\ Work(q, "off", "next")
           /\ UNCHANGED <<request, result, next, results, pending, one, resp, sent>>
  <2>1. worker' = [worker EXCEPT ![q] = "next"] BY <1>5 DEF Work
  <2>2. handler' = [handler EXCEPT ![q] = IF ShouldWait(q) THEN "wait" ELSE "encode"]
    BY <1>5 DEF Goto
  <2>3. result[q] # <<>> BY <1>5 DEF OnlyUnsupported, Keys
  <2>4. Types' BY <1>0, <1>3, <1>5, <2>1, <2>2
  <2>5. HoldsOne' BY <1>0, <1>3, <2>1 DEF HoldsOne
  <2>6. RequestInv(q)'
    <3>1. worker'[q] = "next" /\ handler'[q] = IF ShouldWait(q) THEN "wait" ELSE "encode"
      BY <1>0, <2>1, <2>2
    <3>2. resp'[q] = NoResponse BY <1>2, <1>5
    <3>3. Stage(q)' BY <1>2, <1>3, <2>3, <3>1, <3>2 DEF Stage, NoResponse
    <3>4. Answer(q)' BY <1>3, <3>1 DEF Answer, ShouldWait, HasCmd
    <3>5. Table(q)' BY <1>2, <1>3 DEF Table
    <3>6. Filled(q)' BY <3>1, <3>2 DEF Filled, NoResponse
    <3>q. QED BY <3>3, <3>4, <3>5, <3>6 DEF RequestInv
  <2>7. \A r \in Requests \ {q} : Same(r) BY <1>0, <1>3, <1>5, <2>1, <2>2 DEF Same
  <2>q. QED BY <2>4, <2>5, <2>6, <2>7, Combine
<1>q. QED BY <1>4, <1>5 DEF Validate

\* The handler has waited for the goroutine.
LEMMA AwaitInv == ASSUME IInv, NEW q \in Requests, Await(q) PROVE IInv'
<1>0. Types /\ HoldsOne /\ RequestInv(q) BY DEF IInv
<1> USE DEF Types
<1>1. /\ handler[q] = "wait" /\ handler' = [handler EXCEPT ![q] = "encode"]
      /\ worker[q] = "done"
      /\ UNCHANGED <<request, result, worker, next, results, pending, one, resp, sent>>
  BY DEF Await, Goto, work
<1>2. handler'[q] = "encode" BY <1>0, <1>1
<1>3. Types' BY <1>0, <1>1
<1>4. HoldsOne' BY <1>0, <1>1 DEF HoldsOne
<1>5. RequestInv(q)'
  <2>1. Stage(q)' BY <1>0, <1>1, <1>2 DEF RequestInv, Stage
  <2>2. Answer(q)' BY <1>1, <1>2 DEF Answer
  <2>3. Table(q)' BY <1>0, <1>1, TableKept DEF RequestInv
  <2>4. Filled(q)' BY <1>0, <1>1 DEF RequestInv, Filled, Urls, Ofs
  <2>q. QED BY <2>1, <2>2, <2>3, <2>4 DEF RequestInv
<1>6. \A r \in Requests \ {q} : Same(r) BY <1>0, <1>1 DEF Same
<1>q. QED BY <1>3, <1>4, <1>5, <1>6, Combine

\* The request was forwarded.
LEMMA ForwardInv == ASSUME IInv, NEW q \in Requests, Forward(q) PROVE IInv'
<1>0. Types /\ HoldsOne /\ RequestInv(q) BY DEF IInv
<1> USE DEF Types
<1>1. PICK code \in {-1, -2, 0} : resp' = [resp EXCEPT ![q].code = code] BY DEF Forward
<1>2. /\ handler[q] = "forward" /\ handler' = [handler EXCEPT ![q] = "encode"]
      /\ UNCHANGED <<request, result, worker, next, results, pending, one, sent>>
  BY DEF Forward, Goto, work
<1>3. resp'[q] = [resp[q] EXCEPT !.code = code] /\ handler'[q] = "encode" BY <1>0, <1>1, <1>2
<1>4. resp'[q] \in Responses BY <1>0, <1>3 DEF Responses
<1>5. Types' BY <1>0, <1>1, <1>2, <1>4 DEF Responses
<1>6. HoldsOne' BY <1>0, <1>2 DEF HoldsOne
<1>7. RequestInv(q)'
  <2>1. worker[q] = "off" /\ result[q] = <<>> BY <1>0, <1>2 DEF RequestInv, Stage
  <2>2. Stage(q)' BY <1>0, <1>2, <1>3, <2>1 DEF RequestInv, Stage
  <2>3. Answer(q)' BY <1>2, <1>3, <2>1 DEF Answer
  <2>4. Table(q)' BY <1>0, <1>2, TableKept DEF RequestInv
  <2>5. Filled(q)' BY <1>2, <2>1 DEF Filled
  <2>q. QED BY <2>2, <2>3, <2>4, <2>5 DEF RequestInv
<1>8. \A r \in Requests \ {q} : Same(r) BY <1>0, <1>1, <1>2 DEF Same
<1>q. QED BY <1>5, <1>6, <1>7, <1>8, Combine

\* The encoder reads the response's code and URLs, then its output.
LEMMA EncodeInv == ASSUME IInv, NEW q \in Requests, Encode(q) PROVE IInv'
<1>0. Types /\ HoldsOne /\ RequestInv(q) BY DEF IInv
<1> USE DEF Types
<1>1. UNCHANGED <<request, result, worker, next, results, pending, one, resp>>
  BY DEF Encode, work
<1>2. HoldsOne' BY <1>0, <1>1 DEF HoldsOne
<1>3. /\ handler[q] \in {"encode", "encodeOutput"} /\ handler'[q] \in {"encodeOutput", "done"}
      /\ handler' \in [Requests -> {"encodeOutput", "done"} \cup {handler[r] : r \in Requests}]
  BY <1>0 DEF Encode, Goto
<1>4. Stage(q)' BY <1>0, <1>1, <1>3 DEF RequestInv, Stage
<1>5. Table(q)' BY <1>0, <1>1, TableKept DEF RequestInv
<1>6. Filled(q)' BY <1>0, <1>1 DEF RequestInv, Filled, Urls, Ofs
<1>7. CASE /\ Goto(q, "encode", "encodeOutput")
           /\ sent' = [sent EXCEPT ![q].code = resp[q].code, ![q].urls = resp[q].urls]
           /\ UNCHANGED <<request, result, work, resp>>
  <2>1. /\ handler[q] = "encode" /\ handler' = [handler EXCEPT ![q] = "encodeOutput"]
        /\ handler'[q] = "encodeOutput"
    BY <1>0, <1>7 DEF Goto
  <2>2. sent'[q] = [code |-> resp[q].code, urls |-> resp[q].urls, output |-> sent[q].output]
    BY <1>0, <1>7 DEF Responses
  <2>3. sent'[q] \in Responses BY <1>0, <2>2 DEF Responses
  <2>4. Types' BY <1>0, <1>1, <1>7, <2>1, <2>3
  <2>5. Answer(q)' BY <1>0, <1>1, <2>1, <2>2 DEF RequestInv, Answer, ShouldWait, HasCmd
  <2>6. \A r \in Requests \ {q} : Same(r) BY <1>0, <1>1, <1>7, <2>1 DEF Same
  <2>q. QED BY <1>2, <1>4, <1>5, <1>6, <2>4, <2>5, <2>6, Combine DEF RequestInv
<1>8. CASE /\ Goto(q, "encodeOutput", "done")
           /\ sent' = [sent EXCEPT ![q].output = resp[q].output]
           /\ UNCHANGED <<request, result, work, resp>>
  <2>1. /\ handler[q] = "encodeOutput" /\ handler' = [handler EXCEPT ![q] = "done"]
        /\ handler'[q] = "done"
    BY <1>0, <1>8 DEF Goto
  <2>2. sent'[q] = [code |-> sent[q].code, urls |-> sent[q].urls, output |-> resp[q].output]
    BY <1>0, <1>8 DEF Responses
  <2>3. sent'[q] \in Responses BY <1>0, <2>2 DEF Responses
  <2>4. Types' BY <1>0, <1>1, <1>8, <2>1, <2>3
  <2>5. Answer(q)' BY <1>0, <1>1, <2>1, <2>2 DEF RequestInv, Answer, ShouldWait, HasCmd
  <2>6. \A r \in Requests \ {q} : Same(r) BY <1>0, <1>1, <1>8, <2>1 DEF Same
  <2>q. QED BY <1>2, <1>4, <1>5, <1>6, <2>4, <2>5, <2>6, Combine DEF RequestInv
<1>q. QED BY <1>7, <1>8 DEF Encode

-----------------------------------------------------------------------------
\* While the goroutine steps, before it ends, the handler has encoded nothing that
\* the request waits for.
LEMMA AnswerKept ==
  ASSUME IInv, NEW q \in Requests, worker[q] \notin {"off", "done"}, worker'[q] # "off",
         request'[q] = request[q], handler'[q] = handler[q], sent'[q] = sent[q],
         resp'[q].code = resp[q].code
  PROVE  Answer(q)'
<1>1. Answer(q) BY DEF IInv, RequestInv
<1>2. ShouldWait(q)' = ShouldWait(q) BY DEF ShouldWait, HasCmd
<1>3. handler[q] \in {"encode", "encodeOutput", "done"} => ~ShouldWait(q) BY <1>1 DEF Answer
<1>q. QED BY <1>1, <1>2, <1>3 DEF Answer

\* The table with the entry of the result that the goroutine comes past.
Added(q, url) ==
  {r \in results[q] : r.of # result[q][next[q]]}
    \cup {[of |-> result[q][next[q]], by |-> next[q], url |-> url]}

\* That entry replaces an earlier one of the same process.
LEMMA TableAdd ==
  ASSUME IInv, NEW q \in Requests, NEW url \in BOOLEAN, next[q] <= Len(result[q]),
         result'[q] = result[q], next'[q] = next[q] + 1, results'[q] = Added(q, url)
  PROVE  Table(q)' /\ Added(q, url) \subseteq Entries
<1> DEFINE n == next[q]
           x == result[q][n]
           new == [of |-> x, by |-> n, url |-> url]
<1>0. /\ Table(q) /\ n \in Nat \ {0} /\ results[q] \subseteq Entries /\ x \in Result
      /\ n \in 1..Len(result[q])
  BY DEF IInv, RequestInv, Types
<1>1. new \in Entries BY <1>0 DEF Entries
<1>2. new.of = x /\ new.by = n OBVIOUS
<1>3. results'[q] = {r \in results[q] : r.of # x} \cup {new} BY DEF Added
<1>4. ASSUME NEW i \in 1..(next'[q] - 1) PROVE \E r \in results'[q] : r.of = result'[q][i]
  <2>1. CASE result[q][i] = x BY <1>2, <1>3, <2>1
  <2>2. CASE result[q][i] # x
    <3>1. i \in 1..(n - 1) BY <1>0, <2>2
    <3>2. PICK r \in results[q] : r.of = result[q][i] BY <1>0, <3>1 DEF Table
    <3>q. QED BY <1>3, <2>2, <3>2
  <2>q. QED BY <2>1, <2>2
<1>5. ASSUME NEW r \in results'[q]
      PROVE  /\ r.by \in 1..(next'[q] - 1) /\ r.of = result'[q][r.by]
             /\ \A i \in (r.by + 1)..(next'[q] - 1) : result'[q][i] # r.of
  <2>1. CASE r = new BY <1>0, <1>2, <2>1
  <2>2. CASE r \in results[q] /\ r.of # x
    <3>1. /\ r.by \in 1..(n - 1) /\ r.of = result[q][r.by]
          /\ \A i \in (r.by + 1)..(n - 1) : result[q][i] # r.of
      BY <1>0, <2>2 DEF Table
    <3>q. QED BY <1>0, <2>2, <3>1
  <2>q. QED BY <1>3, <2>1, <2>2
<1>6. \A r, s \in results'[q] : r.of = s.of => r = s BY <1>0, <1>2, <1>3 DEF Table
<1>7. Table(q)' BY <1>4, <1>5, <1>6 DEF Table
<1>q. QED BY <1>0, <1>1, <1>7 DEF Added

\* The goroutine comes past an unsupported operation.
LEMMA SkipInv == ASSUME IInv, NEW q \in Requests, Skip(q) PROVE IInv'
<1>0. Types /\ HoldsOne /\ RequestInv(q) BY DEF IInv
<1> USE DEF Types
<1>1. /\ next[q] <= Len(result[q]) /\ result[q][next[q]] = Unsupported
      /\ worker[q] = "next" /\ worker' = [worker EXCEPT ![q] = "next"]
      /\ next' = [next EXCEPT ![q] = next[q] + 1]
      /\ results' = [results EXCEPT ![q] = Added(q, FALSE)]
      /\ UNCHANGED <<request, handler, result, pending, one, resp, sent>>
  BY DEF Skip, Work, Added
<1>2. /\ worker'[q] = "next" /\ next'[q] = next[q] + 1 /\ results'[q] = Added(q, FALSE)
  BY <1>0, <1>1
<1>3. Table(q)' /\ Added(q, FALSE) \subseteq Entries BY <1>1, <1>2, TableAdd
<1>4. Types'
  <2>1. next' \in [Requests -> Nat \ {0}] BY <1>0, <1>1
  <2>2. results' \in [Requests -> SUBSET Entries] BY <1>0, <1>1, <1>3
  <2>q. QED BY <1>0, <1>1, <2>1, <2>2
<1>5. HoldsOne' BY <1>0, <1>1 DEF HoldsOne
<1>6. RequestInv(q)'
  <2>1. Len(result[q]) \in Nat /\ next[q] \in Nat BY <1>0
  <2>2. Stage(q)' BY <1>0, <1>1, <1>2, <2>1 DEF RequestInv, Stage
  <2>3. Answer(q)' BY <1>1, <1>2, AnswerKept
  <2>4. Filled(q)' BY <1>0, <1>1, <1>2 DEF RequestInv, Filled
  <2>q. QED BY <1>3, <2>2, <2>3, <2>4 DEF RequestInv
<1>7. \A r \in Requests \ {q} : Same(r) BY <1>0, <1>1 DEF Same
<1>q. QED BY <1>4, <1>5, <1>6, <1>7, Combine

\* The goroutine takes the mutex, which nobody holds.
LEMMA LockInv == ASSUME IInv, NEW q \in Requests, Lock(q) PROVE IInv'
<1>0. Types /\ HoldsOne /\ RequestInv(q) BY DEF IInv
<1> USE DEF Types
<1>1. /\ next[q] <= Len(result[q]) /\ one = Nobody /\ one' = q
      /\ worker[q] = "next" /\ worker' = [worker EXCEPT ![q] = "capture"]
      /\ UNCHANGED <<request, handler, result, next, results, pending, resp, sent>>
  BY DEF Lock, Work
<1>2. worker'[q] = "capture" BY <1>0, <1>1
<1>3. Types' BY <1>0, <1>1
<1>4. HoldsOne'
  <2>1. \A r \in Requests : worker[r] # "capture"
    BY <1>0, <1>1, ActionApiAssumption DEF HoldsOne
  <2>q. QED BY <1>0, <1>1, <2>1 DEF HoldsOne
<1>5. RequestInv(q)'
  <2>1. Stage(q)' BY <1>0, <1>1, <1>2 DEF RequestInv, Stage
  <2>2. Answer(q)' BY <1>1, <1>2, AnswerKept
  <2>3. Table(q)' BY <1>0, <1>1, TableKept DEF RequestInv
  <2>4. Filled(q)' BY <1>0, <1>1, <1>2 DEF RequestInv, Filled
  <2>q. QED BY <2>1, <2>2, <2>3, <2>4 DEF RequestInv
<1>6. \A r \in Requests \ {q} : Same(r) BY <1>0, <1>1 DEF Same
<1>q. QED BY <1>3, <1>4, <1>5, <1>6, Combine

\* A capture ends and gives the mutex back.
LEMMA CaptureInv == ASSUME IInv, NEW q \in Requests, Capture(q) PROVE IInv'
<1>0. Types /\ HoldsOne /\ RequestInv(q) BY DEF IInv
<1> USE DEF Types
<1>1. PICK url \in BOOLEAN : results' = [results EXCEPT ![q] = Added(q, url)]
  BY DEF Capture, Added
<1>2. /\ worker[q] = "capture" /\ worker' = [worker EXCEPT ![q] = "next"]
      /\ next' = [next EXCEPT ![q] = next[q] + 1] /\ one' = Nobody
      /\ UNCHANGED <<request, handler, result, pending, resp, sent>>
  BY DEF Capture, Work
<1>3. /\ worker'[q] = "next" /\ next'[q] = next[q] + 1 /\ results'[q] = Added(q, url)
  BY <1>0, <1>1, <1>2
<1>4. next[q] <= Len(result[q]) BY <1>0, <1>2 DEF RequestInv, Stage
<1>5. Table(q)' /\ Added(q, url) \subseteq Entries BY <1>2, <1>3, <1>4, TableAdd
<1>6. Types' BY <1>0, <1>1, <1>2, <1>5
<1>7. HoldsOne'
  <2>1. \A r \in Requests : worker[r] = "capture" => r = q BY <1>0, <1>2 DEF HoldsOne
  <2>q. QED BY <1>0, <1>2, <1>3, <2>1 DEF HoldsOne
<1>8. RequestInv(q)'
  <2>1. Len(result[q]) \in Nat /\ next[q] \in Nat BY <1>0
  <2>2. Stage(q)' BY <1>0, <1>2, <1>3, <1>4, <2>1 DEF RequestInv, Stage
  <2>3. Answer(q)' BY <1>2, <1>3, AnswerKept
  <2>4. Filled(q)' BY <1>0, <1>2, <1>3 DEF RequestInv, Filled
  <2>q. QED BY <1>5, <2>2, <2>3, <2>4 DEF RequestInv
<1>9. \A r \in Requests \ {q} : Same(r) BY <1>0, <1>1, <1>2 DEF Same
<1>q. QED BY <1>6, <1>7, <1>8, <1>9, Combine

\* The goroutine is past the results; a single one is answered as it always was.
LEMMA CollectInv == ASSUME IInv, NEW q \in Requests, Collect(q) PROVE IInv'
<1>0. Types /\ HoldsOne /\ RequestInv(q) BY DEF IInv
<1> USE DEF Types
<1>1. /\ next[q] > Len(result[q]) /\ worker[q] = "next"
      /\ UNCHANGED <<request, handler, result, next, results, one, sent>>
  BY DEF Collect, Work
<1>2. Len(result[q]) \in Nat /\ next[q] = Len(result[q]) + 1
  <2>1. Len(result[q]) \in Nat /\ next[q] \in Nat BY <1>0
  <2>q. QED BY <1>0, <1>1, <2>1 DEF RequestInv, Stage
<1>3. Table(q)' BY <1>0, <1>1, TableKept DEF RequestInv
<1>4. resp[q].urls = {} /\ resp[q].output = {} BY <1>0, <1>1 DEF RequestInv, Filled
<1>5. CASE Cardinality(results[q]) = 1
  <2>1. /\ worker' = [worker EXCEPT ![q] = "done"] /\ pending' = pending
        /\ resp' = [resp EXCEPT ![q].urls = Urls(results[q])]
    BY <1>5 DEF Collect, Work, Urls
  <2>2. /\ worker'[q] = "done"
        /\ resp'[q] = [code |-> resp[q].code, urls |-> Urls(results[q]), output |-> {}]
    BY <1>0, <1>4, <2>1 DEF Responses
  <2>3. resp'[q] \in Responses BY <1>0, <2>2 DEF Responses, Urls, Entries
  <2>4. Types' BY <1>0, <1>1, <2>1, <2>3
  <2>5. HoldsOne' BY <1>0, <1>1, <2>1 DEF HoldsOne
  <2>6. Stage(q)' BY <1>0, <1>1, <1>2, <2>1, <2>2 DEF RequestInv, Stage
  <2>7. Answer(q)' BY <1>1, <2>2, AnswerKept
  <2>8. Filled(q)' BY <1>1, <1>5, <2>2 DEF Filled, Urls
  <2>9. \A r \in Requests \ {q} : Same(r) BY <1>0, <1>1, <2>1 DEF Same
  <2>q. QED BY <1>3, <2>4, <2>5, <2>6, <2>7, <2>8, <2>9, Combine DEF RequestInv
<1>6. CASE Cardinality(results[q]) # 1
  <2>1. /\ worker' = [worker EXCEPT ![q] = "populate"] /\ resp' = resp
        /\ pending' = [pending EXCEPT ![q] = results[q]]
    BY <1>6 DEF Collect, Work
  <2>2. worker'[q] = "populate" /\ pending'[q] = results[q] BY <1>0, <2>1
  <2>3. Types' BY <1>0, <1>1, <2>1
  <2>4. HoldsOne' BY <1>0, <1>1, <2>1 DEF HoldsOne
  <2>5. Stage(q)' BY <1>0, <1>1, <1>2, <2>1, <2>2 DEF RequestInv, Stage
  <2>6. Answer(q)' BY <1>1, <2>1, <2>2, AnswerKept
  <2>7. Filled(q)' BY <1>1, <1>4, <1>6, <2>1, <2>2 DEF Filled, Urls, Ofs
  <2>8. \A r \in Requests \ {q} : Same(r) BY <1>0, <1>1, <2>1 DEF Same
  <2>q. QED BY <1>3, <2>3, <2>4, <2>5, <2>6, <2>7, <2>8, Combine DEF RequestInv
<1>q. QED BY <1>5, <1>6

\* The range over the table comes to an entry, or has come to all.
LEMMA PopulateInv == ASSUME IInv, NEW q \in Requests, Populate(q) PROVE IInv'
<1>0. Types /\ HoldsOne /\ RequestInv(q) BY DEF IInv
<1> USE DEF Types
<1>1. /\ worker[q] = "populate"
      /\ UNCHANGED <<request, handler, result, next, results, one, sent>>
  BY DEF Populate, Work
<1>2. Table(q)' BY <1>0, <1>1, TableKept DEF RequestInv
<1>3. /\ pending[q] \subseteq results[q] /\ Cardinality(results[q]) # 1
      /\ resp[q].urls = Urls(results[q] \ pending[q])
      /\ resp[q].output = Ofs(results[q] \ pending[q])
  BY <1>0, <1>1 DEF RequestInv, Filled
<1>4. ASSUME NEW r \in pending[q],
             Work(q, "populate", "populate"),
             pending' = [pending EXCEPT ![q] = @ \ {r}],
             resp' = [resp EXCEPT ![q].urls = IF r.url THEN @ \cup {r.by} ELSE @,
                                  ![q].output = @ \cup {r.of}]
      PROVE  IInv'
  <2>1. worker' = worker /\ pending'[q] = pending[q] \ {r} BY <1>0, <1>1, <1>4 DEF Work
  <2>2. resp'[q] = [code |-> resp[q].code,
                    urls |-> IF r.url THEN resp[q].urls \cup {r.by} ELSE resp[q].urls,
                    output |-> resp[q].output \cup {r.of}]
    BY <1>0, <1>4 DEF Responses
  <2>3. r \in results[q] /\ r.of \in Result /\ r.by \in Nat BY <1>0, <1>3 DEF Entries
  <2>4. resp'[q] \in Responses BY <1>0, <2>2, <2>3 DEF Responses, Result
  <2>5. Types' BY <1>0, <1>1, <1>4, <2>1, <2>4
  <2>6. HoldsOne' BY <1>0, <1>1, <2>1 DEF HoldsOne
  <2>7. Stage(q)' BY <1>0, <1>1, <2>1, <2>2 DEF RequestInv, Stage
  <2>8. Answer(q)' BY <1>1, <2>1, <2>2, AnswerKept
  <2>9. results[q] \ pending'[q] = (results[q] \ pending[q]) \cup {r} BY <2>1, <2>3
  <2>10. resp'[q].urls = Urls(results[q] \ pending'[q]) BY <1>3, <2>2, <2>9 DEF Urls
  <2>11. resp'[q].output = Ofs(results[q] \ pending'[q]) BY <1>3, <2>2, <2>9 DEF Ofs
  <2>12. Filled(q)' BY <1>1, <1>3, <2>1, <2>10, <2>11 DEF Filled, Urls, Ofs
  <2>13. \A s \in Requests \ {q} : Same(s) BY <1>0, <1>1, <1>4, <2>1 DEF Same
  <2>q. QED BY <1>2, <2>5, <2>6, <2>7, <2>8, <2>12, <2>13, Combine DEF RequestInv
<1>5. ASSUME Work(q, "populate", "done"), pending[q] = {}, UNCHANGED <<pending, resp>>
      PROVE  IInv'
  <2>1. worker' = [worker EXCEPT ![q] = "done"] /\ worker'[q] = "done" BY <1>0, <1>5 DEF Work
  <2>2. Types' BY <1>0, <1>1, <1>5, <2>1
  <2>3. HoldsOne' BY <1>0, <1>1, <2>1 DEF HoldsOne
  <2>4. Stage(q)' BY <1>0, <1>1, <1>5, <2>1 DEF RequestInv, Stage
  <2>5. Answer(q)' BY <1>1, <1>5, <2>1, AnswerKept
  <2>6. results[q] \ pending[q] = results[q] BY <1>5
  <2>7. Filled(q)' BY <1>1, <1>3, <1>5, <2>1, <2>6 DEF Filled, Urls, Ofs
  <2>8. \A r \in Requests \ {q} : Same(r) BY <1>0, <1>1, <1>5, <2>1 DEF Same
  <2>q. QED BY <1>2, <2>2, <2>3, <2>4, <2>5, <2>7, <2>8, Combine DEF RequestInv
<1>q. QED BY <1>4, <1>5 DEF Populate

\* Every step keeps the invariant.
LEMMA StepInv == IInv /\ [Next]_vars => IInv'
<1> SUFFICES ASSUME IInv, [Next]_vars PROVE IInv' OBVIOUS
<1>1. CASE Next
  <2>1. PICK q \in Requests : Arrive(q) \/ Handler(q) \/ Worker(q) BY <1>1 DEF Next
  <2>2. CASE Arrive(q) BY <2>2, ArriveInv
  <2>3. CASE Handler(q)
    BY <2>3, RefuseInv, ParseInv, ValidateInv, AwaitInv, ForwardInv, EncodeInv DEF Handler
  <2>4. CASE Worker(q)
    BY <2>4, SkipInv, LockInv, CaptureInv, CollectInv, PopulateInv DEF Worker
  <2>q. QED BY <2>1, <2>2, <2>3, <2>4
<1>2. CASE UNCHANGED vars
  <2>1. Types' BY <1>2 DEF IInv, Types, vars
  <2>2. HoldsOne' BY <1>2 DEF IInv, HoldsOne, vars
  <2>3. ASSUME NEW q \in Requests PROVE Same(q) BY <1>2 DEF vars, Same
  <2>4. ASSUME NEW q \in Requests PROVE RequestInv(q)' BY <2>3, Others DEF IInv
  <2>q. QED BY <2>1, <2>2, <2>4 DEF IInv
<1>q. QED BY <1>1, <1>2

-----------------------------------------------------------------------------
\* When the goroutine is past all results the table has one entry for each of them.
LEMMA Counted ==
  ASSUME IInv, NEW q \in Requests, next[q] = Len(result[q]) + 1
  PROVE  /\ Ofs(results[q]) = Keys(result[q])
         /\ IsFiniteSet(Keys(result[q]))
         /\ Cardinality(results[q]) = Cardinality(Keys(result[q]))
<1>1. Table(q) /\ result[q] \in Seq(Result) /\ results[q] \subseteq Entries
  BY DEF IInv, RequestInv, Types
<1>2. 1..(next[q] - 1) = DOMAIN result[q] BY <1>1
<1>3. Ofs(results[q]) = Keys(result[q]) BY <1>1, <1>2 DEF Table, Ofs, Keys
<1>4. IsFiniteSet(Keys(result[q]))
  <2>1. IsFiniteSet(Result) BY ActionApiAssumption, FS_AddElement DEF Result
  <2>2. Keys(result[q]) \in SUBSET Result BY <1>1 DEF Keys
  <2>q. QED BY <2>1, <2>2, FS_Subset
<1> DEFINE f == [r \in results[q] |-> r.of]
<1>5. f \in [results[q] -> Keys(result[q])] BY <1>3 DEF Ofs
<1>6. f \in Injection(results[q], Keys(result[q]))
  BY <1>1, <1>5 DEF Table, Injection, IsInjective
<1>7. f \in Surjection(results[q], Keys(result[q]))
  BY <1>3, <1>5 DEF Ofs, Surjection
<1>q. QED BY <1>3, <1>4, <1>6, <1>7, FS_Injection

\* What the run checks follows from the invariant.
LEMMA InvAnswered == IInv => AnsweredAsCaptured
<1> SUFFICES ASSUME IInv PROVE AnsweredAsCaptured OBVIOUS
<1>0. Types /\ HoldsOne /\ \A q \in Requests : RequestInv(q) BY DEF IInv
<1>1. TypeOK
  <2>1. ASSUME NEW q \in Requests
        PROVE  /\ next[q] \in 1..(Len(result[q]) + 1)
               /\ results[q] \subseteq [of : Pids \cup {Unsupported}, by : Nat, url : BOOLEAN]
               /\ pending[q] \subseteq results[q]
               /\ resp[q].code \in {0, -1, -2} /\ sent[q].code \in {0, -1, -2}
               /\ worker[q] = "capture" => next[q] <= Len(result[q])
    <3>1. next[q] \in Nat \ {0} /\ Len(result[q]) \in Nat BY <1>0 DEF Types
    <3>2. Stage(q) /\ Filled(q) BY <1>0 DEF RequestInv
    <3>3. results[q] \subseteq Entries /\ resp[q] \in Responses /\ sent[q] \in Responses
      BY <1>0 DEF Types
    <3>4. pending[q] \subseteq results[q] BY <3>2 DEF Stage, Filled
    <3>q. QED BY <3>1, <3>2, <3>3, <3>4 DEF Stage, Entries, Result, Responses
  <2>q. QED BY <1>0, <2>1 DEF TypeOK, Types, Result
<1>2. OneAtATime BY <1>0 DEF OneAtATime, HoldsOne
<1>3. ASSUME NEW q \in Requests, handler[q] = "done", ShouldWait(q), sent[q].code = 0,
             result[q] # <<>>
      PROVE  /\ {r.of : r \in results[q]} = Keys(result[q])
             /\ sent[q].urls = {r.by : r \in {x \in results[q] : x.url}}
             /\ sent[q].output = IF Cardinality(Keys(result[q])) > 1 THEN Keys(result[q]) ELSE {}
             /\ \A r \in results[q] : \A i \in (r.by + 1)..Len(result[q]) : result[q][i] # r.of
  <2>1. Stage(q) /\ Answer(q) /\ Table(q) /\ Filled(q) BY <1>0 DEF RequestInv
  <2>2. /\ worker[q] = "done" /\ sent[q].urls = resp[q].urls
        /\ sent[q].output = resp[q].output
    BY <1>3, <2>1 DEF Answer
  <2>3. next[q] = Len(result[q]) + 1 /\ Len(result[q]) \in Nat
    BY <1>0, <2>1, <2>2 DEF Stage, Types
  <2>4. /\ Ofs(results[q]) = Keys(result[q]) /\ IsFiniteSet(Keys(result[q]))
        /\ Cardinality(results[q]) = Cardinality(Keys(result[q]))
    BY <2>3, Counted
  <2>5. Cardinality(Keys(result[q])) \in Nat \ {0}
    <3>0. result[q] \in Seq(Result) BY <1>0 DEF Types
    <3>1. Keys(result[q]) # {}
      <4>1. 1 \in DOMAIN result[q] BY <1>3, <3>0
      <4>q. QED BY <4>1 DEF Keys
    <3>q. QED BY <2>4, <3>1, FS_CardinalityType, FS_EmptySet
  <2>6. sent[q].output = IF Cardinality(Keys(result[q])) > 1 THEN Keys(result[q]) ELSE {}
    BY <2>1, <2>2, <2>4, <2>5 DEF Filled
  <2>7. sent[q].urls = {r.by : r \in {x \in results[q] : x.url}}
    BY <2>1, <2>2 DEF Filled, Urls
  <2>8. \A r \in results[q] : \A i \in (r.by + 1)..Len(result[q]) : result[q][i] # r.of
    BY <2>1, <2>3 DEF Table
  <2>q. QED BY <2>4, <2>6, <2>7, <2>8 DEF Ofs
<1>4. WaitedIsComplete BY <1>3 DEF WaitedIsComplete
<1>5. ErrorCapturesNothing BY <1>0 DEF ErrorCapturesNothing, RequestInv, Stage
<1>q. QED BY <1>1, <1>2, <1>4, <1>5 DEF AnsweredAsCaptured

\* Requests that compete are captured one at a time, under the mutex `one`, and a
\* request that waits is answered with all that was captured for it, of each process
\* the last capture; one that is answered with an error has captured nothing.
THEOREM RequestsAnswered == Spec => []AnsweredAsCaptured
<1>1. Spec => []IInv BY InitInv, StepInv, PTL DEF Spec
<1>q. QED BY <1>1, InvAnswered, PTL
=============================================================================
