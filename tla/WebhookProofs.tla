---------------------------- MODULE WebhookProofs ----------------------------
(***************************************************************************)
(* Theorems about the webhook input, for any number of requests and        *)
(* workers, every queue size and every rate limit: what a client is told   *)
(* is what happened to its request, and a shutdown that does not run into  *)
(* its timeout cuts nobody off and leaves nothing running.                 *)
(*                                                                         *)
(* Handlers read w.queue without the lock that stopWorkers holds. What     *)
(* makes this harmless is the order of shutdown: the queue is taken away   *)
(* only after server.Shutdown has seen the last handler out, unless it     *)
(* gave up (Drained, Answers).                                             *)
(***************************************************************************)
EXTENDS Webhook, TLAPS

(* Start has come past startQueueWorkers, or has returned.                 *)
QueueMade == {"ready", "selecting", "shutdown", "inOnce", "returned"}

(* Each request is handled once, or in the queue once, or neither.         *)
Ledger ==
    \A q \in Requests :
        /\ handled[q] \in {0, 1}
        /\ request[q] \in {"none", "received", "dispatch", "enqueue", "sending",
                           "4xx", "429", "aborted"} => handled[q] = 0 /\ ~Queued(q)
        /\ request[q] \in {"handling", "500"} => handled[q] = 1 /\ ~Queued(q)
        /\ request[q] \in {"respond", "200", "202"} => (handled[q] = 1 <=> ~Queued(q))
        /\ request[q] = "lost" => handled[q] = 0 \/ ~Queued(q)

NoRepeat == \A i, k \in 1 .. Len(buffer) : buffer[i] = buffer[k] => i = k

(* How far Start, the server and the body of shutdownOnce can be.          *)
Stages ==
    /\ server # "none" => start \notin {"new", "marked"}
    /\ server = "shut" => once \in {"draining", "workers", "closing", "joining", "done"}
    /\ once \in {"draining", "workers", "closing", "joining"} => server = "shut"
    /\ field => start \in QueueMade
    /\ once = "closing" => ~field /\ start \in QueueMade
    /\ closed => ~field /\ start \in QueueMade /\ once \in {"joining", "done"} /\ server = "shut"
    /\ queueSize = 0 => ~field /\ \A w \in Workers : worker[w] = "off"

(* What a shutdown has left behind.                                        *)
Drained ==
    /\ server = "shut" /\ once \in {"workers", "closing", "joining", "done"} /\ ~timedOut
          => ~InFlight
    /\ server = "shut" /\ once \in {"closing", "joining", "done"} => ~limiter
    /\ closed /\ once = "done" => \A w \in Workers : worker[w] \in {"off", "exited"}

(* A request on its way through the queue finds it there, unless Shutdown  *)
(* gave up.                                                                *)
Answers ==
    \A q \in Requests :
        /\ request[q] \in {"enqueue", "sending"} => field \/ timedOut
        /\ request[q] = "respond" /\ Queued(q) => field \/ timedOut
        /\ request[q] = "200" /\ Queued(q) => timedOut
        /\ request[q] = "aborted" => timedOut

-----------------------------------------------------------------------------
(* The queue.                                                              *)

(* What the queue holds after a send.                                      *)
LEMMA SendQueues ==
  ASSUME TypeOK, NEW q \in Requests, buffer' = Append(buffer, q)
  PROVE  /\ \A k \in Requests : Queued(k)' <=> Queued(k) \/ k = q
         /\ NoRepeat /\ ~Queued(q) => NoRepeat'
<1>1. /\ buffer \in Seq(Requests) /\ Len(buffer) \in Nat
      /\ Len(buffer') = Len(buffer) + 1 /\ buffer'[Len(buffer) + 1] = q
      /\ \A i \in 1 .. Len(buffer) : buffer'[i] = buffer[i]
  BY DEF TypeOK
<1>2. ASSUME NEW k \in Requests PROVE Queued(k)' <=> Queued(k) \/ k = q
  BY <1>1 DEF Queued
<1>3. ASSUME NoRepeat, ~Queued(q) PROVE NoRepeat'
  BY <1>1, <1>3 DEF NoRepeat, Queued
<1> QED BY <1>2, <1>3

(* What it holds after a worker has taken the first.                       *)
LEMMA TakeUnqueues ==
  ASSUME TypeOK, NoRepeat, buffer # <<>>, buffer' = Tail(buffer)
  PROVE  /\ Head(buffer) \in Requests /\ Queued(Head(buffer))
         /\ \A k \in Requests : Queued(k)' <=> Queued(k) /\ k # Head(buffer)
         /\ NoRepeat'
<1>1. /\ buffer \in Seq(Requests) /\ Len(buffer) \in Nat \ {0} /\ Head(buffer) = buffer[1]
      /\ Head(buffer) \in Requests /\ Len(buffer') = Len(buffer) - 1
      /\ \A i \in 1 .. Len(buffer) - 1 : buffer'[i] = buffer[i + 1]
  BY DEF TypeOK
<1>2. Queued(Head(buffer))
  BY <1>1 DEF Queued
<1>3. ASSUME NEW k \in Requests, Queued(k)' PROVE Queued(k) /\ k # Head(buffer)
  <2>1. PICK i \in 1 .. Len(buffer) - 1 : buffer[i + 1] = k
    BY <1>1, <1>3 DEF Queued
  <2>2. i + 1 \in 1 .. Len(buffer) /\ i + 1 # 1 /\ 1 \in 1 .. Len(buffer)
    BY <1>1
  <2> QED BY <1>1, <2>1, <2>2 DEF Queued, NoRepeat
<1>4. ASSUME NEW k \in Requests, Queued(k), k # Head(buffer) PROVE Queued(k)'
  <2>1. PICK i \in 1 .. Len(buffer) : buffer[i] = k
    BY <1>4 DEF Queued
  <2>2. i - 1 \in 1 .. Len(buffer) - 1 /\ buffer'[i - 1] = k
    BY <1>1, <1>4, <2>1
  <2> QED BY <1>1, <2>2 DEF Queued
<1>5. NoRepeat'
  <2> SUFFICES ASSUME NEW i \in 1 .. Len(buffer'), NEW k \in 1 .. Len(buffer'),
                      buffer'[i] = buffer'[k]
               PROVE  i = k
    BY DEF NoRepeat
  <2>1. i + 1 \in 1 .. Len(buffer) /\ k + 1 \in 1 .. Len(buffer) /\ buffer[i + 1] = buffer[k + 1]
    BY <1>1
  <2>2. i + 1 = k + 1
    BY <2>1 DEF NoRepeat
  <2> QED BY <1>1, <2>2
<1> QED BY <1>1, <1>2, <1>3, <1>4, <1>5

-----------------------------------------------------------------------------
(* Type correctness.                                                       *)

(* The input before Start.                                                 *)
LEMMA InitType == Init => TypeOK
<1> SUFFICES ASSUME Init PROVE TypeOK
  OBVIOUS
<1>1. /\ canceled \in BOOLEAN /\ running \in BOOLEAN /\ limiter \in BOOLEAN
      /\ field \in BOOLEAN /\ closed \in BOOLEAN /\ timedOut \in BOOLEAN
  BY Zenon DEF Init
<1>2. /\ queueSize \in QueueSizes /\ queueSize \in Nat
      /\ buffer \in Seq(Requests) /\ Len(buffer) <= queueSize
      /\ tokens \in 0 .. RateLimit
  BY WebhookAssumption DEF Init, WebhookAssumption
<1>3. /\ request \in [Requests -> {"none"} \cup ActivePcs \cup Codes]
      /\ worker \in [Workers -> WorkerPcs \cup Requests]
      /\ handled \in [Requests -> Nat]
  BY DEF Init, WorkerPcs
<1>4. /\ start \in StartPcs /\ main \in MainPcs /\ once \in OncePcs
      /\ signal \in {"none", "main", "both"}
      /\ server \in {"none", "created", "serving", "failed", "shut"}
  BY DEF Init, StartPcs, MainPcs, OncePcs
<1> QED BY <1>1, <1>2, <1>3, <1>4 DEF TypeOK

(* A step of shutdown leaves whoever entered it somewhere in its code.     *)
LEMMA LeaveOnceType ==
  ASSUME TypeOK, LeaveOnce
  PROVE  start' \in StartPcs /\ main' \in MainPcs /\ once' \in OncePcs
BY DEF TypeOK, LeaveOnce, StartPcs, MainPcs, OncePcs

(* Every step keeps every variable in its type; in particular the queue    *)
(* never holds more than queueSize requests.                               *)
LEMMA NextType == TypeOK /\ [Next]_vars => TypeOK'
<1> SUFFICES ASSUME TypeOK, [Next]_vars PROVE TypeOK'
  OBVIOUS
<1> USE DEF TypeOK, startVars, queueVars, limitVars
<1>q. queueSize \in Nat /\ RateLimit \in Nat
  BY WebhookAssumption DEF WebhookAssumption
<1>r. ASSUME NEW q \in Requests, NEW code \in ActivePcs \cup Codes, Reply(q, code)
      PROVE  request' \in [Requests -> {"none"} \cup ActivePcs \cup Codes]
  BY <1>r DEF Reply
<1>1. CASE UNCHANGED queueSize /\ StartStep
  <2>1. CASE StartMark
    BY ZenonT(60), <1>1, <2>1 DEF StartMark, StartPcs
  <2>2. CASE StartCreate
    <3>1. limiter' \in BOOLEAN /\ tokens' \in 0 .. RateLimit
      BY <1>q, <2>2 DEF StartCreate
    <3> QED BY ZenonT(60), <1>1, <2>2, <3>1 DEF StartCreate, StartPcs
  <2>3. CASE StartListen
    BY ZenonT(60), <1>1, <2>3 DEF StartListen, StartPcs
  <2>4. CASE StartWorkers
    <3>1. field' \in BOOLEAN /\ worker' \in [Workers -> WorkerPcs \cup Requests]
      BY <1>q, <2>4 DEF StartWorkers, WorkerPcs
    <3> QED BY ZenonT(60), <1>1, <2>4, <3>1 DEF StartWorkers, StartPcs
  <2>5. CASE StartServe
    BY ZenonT(60), <1>1, <2>5 DEF StartServe, StartPcs
  <2>6. CASE StartSelect
    BY ZenonT(60), <1>1, <2>6 DEF StartSelect, StartPcs
  <2>7. CASE ShutdownByStart
    BY ZenonT(60), <1>1, <2>7 DEF ShutdownByStart, StartPcs, OncePcs
  <2> QED BY ZenonT(60), <1>1, <2>1, <2>2, <2>3, <2>4, <2>5, <2>6, <2>7 DEF StartStep
<1>2. CASE UNCHANGED queueSize /\ (ServeFails \/ Signal \/ MainStep)
  <2>1. CASE ServeFails \/ Signal
    BY ZenonT(60), <1>2, <2>1 DEF ServeFails, Signal
  <2>2. CASE MainCancel
    BY ZenonT(60), <1>2, <2>2 DEF MainCancel, MainPcs
  <2>3. CASE ShutdownByMain \/ MainExit
    BY <1>2, <2>3 DEF ShutdownByMain, MainExit, MainPcs, OncePcs
  <2> QED BY ZenonT(60), <1>2, <2>1, <2>2, <2>3 DEF MainStep
<1>3. CASE UNCHANGED queueSize /\ OnceStep
  <2>1. CASE ShutdownCheck
    BY ZenonT(60), <1>3, <2>1, LeaveOnceType DEF ShutdownCheck, OncePcs
  <2>2. CASE ShutdownServer
    BY ZenonT(60), <1>3, <2>2 DEF ShutdownServer, MainPcs, OncePcs
  <2>3. CASE ShutdownDrained
    BY ZenonT(60), <1>3, <2>3 DEF ShutdownDrained, OncePcs
  <2>5. CASE StopWorkers
    BY ZenonT(60), <1>3, <2>5 DEF StopWorkers, OncePcs
  <2>6. CASE CloseQueue
    BY ZenonT(60), <1>3, <2>6 DEF CloseQueue, OncePcs
  <2>4. CASE JoinWorkers
    BY ZenonT(60), <1>3, <2>4, LeaveOnceType DEF JoinWorkers
  <2> QED BY <1>3, <2>1, <2>2, <2>3, <2>4, <2>5, <2>6 DEF OnceStep
<1>4. CASE UNCHANGED queueSize /\ RefillTokens
  BY <1>q, <1>4 DEF RefillTokens
<1>5. ASSUME NEW q \in Requests, UNCHANGED queueSize, Arrive(q) \/ RequestStep(q)
      PROVE  TypeOK'
  <2>1. request' \in [Requests -> {"none"} \cup ActivePcs \cup Codes]
    BY <1>5, <1>r DEF Arrive, RequestStep, CheckRequest, Dispatch, EnqueueRead, EnqueueSend,
       HandlerReturns, Respond, Answer, ActivePcs, Codes
  <2>2. handled' \in [Requests -> Nat]
    BY <1>5 DEF Arrive, RequestStep, CheckRequest, Dispatch, EnqueueRead, EnqueueSend,
       HandlerReturns, Respond, CallHandler
  <2>3. tokens' \in 0 .. RateLimit
    BY <1>5, <1>q DEF Arrive, RequestStep, CheckRequest, Dispatch, EnqueueRead, EnqueueSend,
       HandlerReturns, Respond
  <2>4. buffer' \in Seq(Requests) /\ Len(buffer') <= queueSize
    <3>1. UNCHANGED buffer \/ (Len(buffer) < queueSize /\ buffer' = Append(buffer, q))
      BY <1>5 DEF Arrive, RequestStep, CheckRequest, Dispatch, EnqueueRead, EnqueueSend,
         HandlerReturns, Respond
    <3>2. /\ Append(buffer, q) \in Seq(Requests)
          /\ Len(Append(buffer, q)) = Len(buffer) + 1 /\ Len(buffer) \in Nat
      OBVIOUS
    <3>3. ASSUME NEW m \in Nat, NEW n \in Nat, m < n PROVE m + 1 <= n
      BY <3>3
    <3>4. CASE buffer' = Append(buffer, q) /\ Len(buffer) < queueSize
      <4>1. Len(buffer) + 1 <= queueSize
        BY <1>q, <3>2, <3>3, <3>4
      <4> QED BY <3>2, <3>4, <4>1, Zenon
    <3> QED BY <3>1, <3>4
  <2>5. UNCHANGED <<queueSize, startVars, server, limiter, field, closed, once, timedOut, worker>>
    BY <1>5, Zenon DEF Arrive, RequestStep, CheckRequest, Dispatch, EnqueueRead, EnqueueSend,
       HandlerReturns, Respond
  <2> QED BY <2>1, <2>2, <2>3, <2>4, <2>5
<1>6. ASSUME NEW w \in Workers, UNCHANGED queueSize, WorkerStep(w)
      PROVE  TypeOK'
  <2>1. CASE WorkerTake(w)
    <3>1. Head(buffer) \in Requests /\ Tail(buffer) \in Seq(Requests)
          /\ Len(Tail(buffer)) <= queueSize
      BY <1>q, <2>1 DEF WorkerTake
    <3>2. worker' \in [Workers -> WorkerPcs \cup Requests] /\ handled' \in [Requests -> Nat]
      BY <2>1, <3>1 DEF WorkerTake, CallHandler
    <3> QED BY <1>6, <2>1, <3>1, <3>2 DEF WorkerTake
  <2>2. CASE WorkerDone(w) \/ WorkerExit(w)
    BY <1>6, <2>2 DEF WorkerDone, WorkerExit, WorkerPcs
  <2> QED BY <1>6, <2>1, <2>2 DEF WorkerStep
<1>7. CASE UNCHANGED vars
  BY <1>7 DEF vars
<1> QED BY <1>1, <1>2, <1>3, <1>4, <1>5, <1>6, <1>7 DEF Next, Live

(* Every configuration, request and shutdown leaves well-formed state.     *)
THEOREM WebhookType == Spec => []TypeOK
BY InitType, NextType, PTL DEF Spec

-----------------------------------------------------------------------------
(* What is accepted is kept, what is refused is not handled.               *)

(* The steps that leave the requests, the queue and the handler alone.     *)
OtherStep ==
    \/ StartStep \/ ServeFails \/ Signal \/ MainStep \/ OnceStep \/ RefillTokens
    \/ \E w \in Workers : WorkerDone(w) \/ WorkerExit(w)
    \/ UNCHANGED vars

(* A step is one of those, of a request, or of a worker that takes one.    *)
LEMMA StepCases ==
  ASSUME [Next]_vars
  PROVE  /\ UNCHANGED queueSize
         /\ \/ OtherStep
            \/ \E q \in Requests : Arrive(q) \/ RequestStep(q)
            \/ \E w \in Workers : WorkerTake(w)
<1>1. UNCHANGED queueSize
  BY Zenon DEF Next, Live, vars
<1>2. CASE Next
  BY <1>2, Zenon DEF Next, Live, OtherStep, WorkerStep
<1> QED BY <1>1, <1>2 DEF OtherStep

(* And they do leave them alone.                                           *)
LEMMA OtherStepsKeep ==
  ASSUME OtherStep
  PROVE  UNCHANGED <<request, handled, buffer>>
<1> USE DEF startVars, queueVars, limitVars
<1>1. CASE StartStep
  BY <1>1, Zenon DEF StartStep, StartMark, StartCreate, StartListen, StartWorkers, StartServe,
     StartSelect, ShutdownByStart
<1>2. CASE ServeFails \/ Signal \/ MainStep \/ RefillTokens
  BY <1>2, Zenon DEF ServeFails, Signal, MainStep, MainCancel, ShutdownByMain, MainExit, RefillTokens
<1>3. CASE OnceStep
  BY <1>3, Zenon DEF OnceStep, ShutdownCheck, ShutdownServer, ShutdownDrained, StopWorkers,
     CloseQueue, JoinWorkers
<1>4. CASE \E w \in Workers : WorkerDone(w) \/ WorkerExit(w)
  BY <1>4, Zenon DEF WorkerDone, WorkerExit
<1>5. CASE UNCHANGED vars
  BY <1>5 DEF vars
<1> QED BY <1>1, <1>2, <1>3, <1>4, <1>5 DEF OtherStep

(* Every step keeps the ledger.                                            *)
LEMMA LedgerKept ==
  ASSUME TypeOK, Ledger, NoRepeat, [Next]_vars
  PROVE  Ledger' /\ NoRepeat'
<1> USE DEF queueVars
<1>1. CASE OtherStep
  BY <1>1, OtherStepsKeep DEF Ledger, NoRepeat, Queued
<1>2. ASSUME NEW q \in Requests, Arrive(q) \/ RequestStep(q)
      PROVE  Ledger' /\ NoRepeat'
  <2>1. CASE Arrive(q) \/ CheckRequest(q) \/ EnqueueRead(q) \/ HandlerReturns(q) \/ Respond(q)
    <3>1. UNCHANGED <<handled, buffer>>
      BY <2>1, Zenon DEF Arrive, CheckRequest, EnqueueRead, HandlerReturns, Respond
    <3>2. \A k \in Requests \ {q} : request'[k] = request[k]
      BY <2>1 DEF Arrive, CheckRequest, EnqueueRead, HandlerReturns, Respond, Answer, Reply, TypeOK
    <3>3. \/ /\ request[q] \in {"none", "received", "enqueue"}
             /\ request'[q] \in {"received", "4xx", "429", "lost", "dispatch", "sending"}
          \/ request[q] = "handling" /\ request'[q] \in {"respond", "500", "lost"}
          \/ request[q] = "respond" /\ request'[q] \in {"202", "200", "lost"}
      BY <2>1 DEF Arrive, CheckRequest, EnqueueRead, HandlerReturns, Respond, Answer, Reply, TypeOK
    <3>4. NoRepeat' /\ \A k \in Requests : Queued(k)' <=> Queued(k)
      BY <3>1 DEF NoRepeat, Queued
    <3>5. ASSUME NEW k \in Requests, k # q
          PROVE  /\ request'[k] = request[k] /\ handled'[k] = handled[k]
                 /\ Queued(k)' <=> Queued(k)
      BY <3>1, <3>2, <3>4, <3>5
    <3> HIDE DEF Queued
    <3> QED BY <3>1, <3>3, <3>4, <3>5 DEF Ledger
  <2>2. CASE Dispatch(q)
    <3>1. UNCHANGED buffer
      BY <2>2, Zenon DEF Dispatch
    <3>2. /\ \A k \in Requests \ {q} : request'[k] = request[k] /\ handled'[k] = handled[k]
          /\ request[q] = "dispatch"
          /\ \/ request'[q] = "enqueue" /\ handled'[q] = handled[q]
             \/ request'[q] = "handling" /\ handled'[q] = handled[q] + 1
      BY <2>2 DEF Dispatch, Reply, CallHandler, TypeOK
    <3>3. NoRepeat' /\ \A k \in Requests : Queued(k)' <=> Queued(k)
      BY <3>1 DEF NoRepeat, Queued
    <3> QED BY <3>2, <3>3 DEF Ledger
  <2>3. CASE EnqueueSend(q)
    <3>1. /\ \A k \in Requests \ {q} : request'[k] = request[k]
          /\ request[q] = "sending" /\ handled' = handled
          /\ \/ request'[q] = "respond" /\ buffer' = Append(buffer, q)
             \/ request'[q] \in {"429", "lost", "aborted"} /\ buffer' = buffer
      BY <2>3 DEF EnqueueSend, Answer, Reply, TypeOK
    <3>2. CASE buffer' = Append(buffer, q) /\ request'[q] = "respond"
      BY <3>1, <3>2, SendQueues DEF Ledger
    <3>3. CASE buffer' = buffer /\ request'[q] \in {"429", "lost", "aborted"}
      <4>1. NoRepeat' /\ \A k \in Requests : Queued(k)' <=> Queued(k)
        BY <3>3 DEF NoRepeat, Queued
      <4> QED BY <3>1, <3>3, <4>1 DEF Ledger
    <3> QED BY <3>1, <3>2, <3>3
  <2> QED BY <1>2, <2>1, <2>2, <2>3 DEF RequestStep
<1>3. ASSUME NEW w \in Workers, WorkerTake(w)
      PROVE  Ledger' /\ NoRepeat'
  <2> DEFINE q == Head(buffer)
  <2>1. /\ buffer # <<>> /\ buffer' = Tail(buffer) /\ request' = request
        /\ CallHandler(q)
    BY <1>3 DEF WorkerTake
  <2>2. /\ q \in Requests /\ Queued(q) /\ NoRepeat'
        /\ \A k \in Requests : Queued(k)' <=> Queued(k) /\ k # q
    BY <2>1, TakeUnqueues
  <2>3. /\ handled'[q] = handled[q] + 1
        /\ \A k \in Requests \ {q} : handled'[k] = handled[k]
    BY <2>1, <2>2 DEF CallHandler, TypeOK
  <2>4. /\ request[q] \in {"respond", "200", "202", "lost"} /\ handled[q] = 0
    BY <2>2 DEF Ledger, TypeOK, ActivePcs, Codes
  <2> HIDE DEF q
  <2> QED BY <2>1, <2>2, <2>3, <2>4 DEF Ledger
<1> QED BY <1>1, <1>2, <1>3, StepCases

-----------------------------------------------------------------------------
(* The order of a shutdown.                                                *)

(* The steps of requests touch neither Start nor shutdown, nor the field.  *)
LEMMA RequestsKeep ==
  ASSUME NEW q \in Requests, Arrive(q) \/ RequestStep(q)
  PROVE  UNCHANGED <<start, server, once, field, closed, timedOut, worker, limiter>>
BY Zenon DEF Arrive, RequestStep, CheckRequest, Dispatch, EnqueueRead, EnqueueSend,
   HandlerReturns, Respond, startVars, queueVars, limitVars

(* A request is in flight only if it was before, or arrives at a server    *)
(* that is up.                                                             *)
LEMMA InFlightBefore ==
  ASSUME TypeOK, [Next]_vars, InFlight'
  PROVE  InFlight \/ server = "serving"
<1>1. CASE OtherStep
  BY <1>1, OtherStepsKeep DEF InFlight
<1>2. ASSUME NEW q \in Requests, Arrive(q)
      PROVE  server = "serving"
  BY <1>2 DEF Arrive
<1>3. ASSUME NEW q \in Requests, RequestStep(q)
      PROVE  InFlight
  BY <1>3 DEF RequestStep, CheckRequest, Dispatch, EnqueueRead, EnqueueSend, HandlerReturns,
     Respond, InFlight, ActivePcs
<1>4. ASSUME NEW w \in Workers, WorkerTake(w)
      PROVE  InFlight
  BY <1>4 DEF WorkerTake, InFlight
<1> QED BY <1>1, <1>2, <1>3, <1>4, StepCases

(* Every step keeps the stages of Start, server and shutdown in order, and *)
(* what a shutdown leaves behind.                                          *)
LEMMA StagesKept ==
  ASSUME TypeOK, Stages, Drained, [Next]_vars
  PROVE  Stages' /\ Drained'
<1> USE DEF startVars, queueVars, limitVars, QueueMade
<1>1. /\ UNCHANGED queueSize
      /\ InFlight' => InFlight \/ server = "serving"
  BY StepCases, InFlightBefore
<1> HIDE DEF InFlight
<1>2. CASE StartStep
  <2>1. CASE StartMark \/ StartCreate
    BY <1>1, <2>1 DEF StartMark, StartCreate, Stages, Drained
  <2>2. CASE StartListen
    <3>1. /\ start = "created" /\ start' \in {"bound", "returned"}
          /\ UNCHANGED <<server, once, field, closed, timedOut, worker>>
      BY <2>2 DEF StartListen
    <3>2. ~limiter => ~limiter'
      <4>1. CASE UNCHANGED <<running, limiter>>
        BY <4>1
      <4> QED BY <2>2, <4>1 DEF StartListen
    <3> QED BY <1>1, <3>1, <3>2 DEF Stages, Drained
  <2>3. CASE StartWorkers
    <3>1. /\ start = "bound" /\ start' = "ready"
          /\ UNCHANGED <<server, once, closed, timedOut, limiter>>
      BY <2>3 DEF StartWorkers
    <3>2. ASSUME queueSize = 0
          PROVE  ~field' /\ \A w \in Workers : worker'[w] = "off"
      <4>1. ~(queueSize > 0)
        BY <3>2
      <4>2. field' = (queueSize > 0)
        BY <2>3, Zenon DEF StartWorkers
      <4>3. ~field'
        BY <4>1, <4>2, Zenon
      <4>4. \A w \in Workers : worker'[w] = "off"
        BY <2>3, <4>1 DEF StartWorkers
      <4> QED BY <4>3, <4>4
    <3>3. ~closed /\ once # "closing"
      BY <3>1 DEF Stages
    <3>4. Stages'
      BY <1>1, <3>1, <3>2, <3>3 DEF Stages
    <3>5. Drained'
      BY <1>1, <3>1, <3>3 DEF Drained
    <3> QED BY <3>4, <3>5
  <2>4. CASE StartServe
    BY <1>1, <2>4 DEF StartServe, Stages, Drained
  <2>5. CASE StartSelect
    BY <1>1, <2>5 DEF StartSelect, Stages, Drained
  <2>6. CASE ShutdownByStart
    BY <1>1, <2>6 DEF ShutdownByStart, Stages, Drained
  <2> QED BY <1>2, <2>1, <2>2, <2>3, <2>4, <2>5, <2>6 DEF StartStep
<1>3. CASE ServeFails \/ Signal \/ MainStep \/ RefillTokens
  <2>1. /\ UNCHANGED <<start, field, closed, worker, timedOut, limiter>>
        /\ \/ server' = server
           \/ server = "serving" /\ server' = "failed"
        /\ \/ once' = once
           \/ once = "free" /\ once' = "check"
    BY <1>3, Zenon DEF ServeFails, Signal, MainStep, MainCancel, ShutdownByMain, MainExit, RefillTokens
  <2> QED BY <1>1, <2>1 DEF Stages, Drained
<1>4. CASE OnceStep
  <2>1. CASE ShutdownCheck
    BY <1>1, <2>1 DEF ShutdownCheck, LeaveOnce, Stages, Drained
  <2>2. CASE ShutdownServer
    BY <1>1, <2>2 DEF ShutdownServer, Stages, Drained
  <2>3. CASE ShutdownDrained
    <3>1. ~timedOut' => ~InFlight
      BY <2>3 DEF ShutdownDrained
    <3>2. server # "serving"
      BY <2>3 DEF ShutdownDrained, Stages
    <3> QED BY <1>1, <2>3, <3>1, <3>2 DEF ShutdownDrained, Stages, Drained
  <2>4. CASE StopWorkers
    BY <1>1, <2>4 DEF StopWorkers, Stages, Drained
  <2>5. CASE CloseQueue
    BY <1>1, <2>5 DEF CloseQueue, Stages, Drained
  <2>6. CASE JoinWorkers
    BY <1>1, <2>6 DEF JoinWorkers, LeaveOnce, Stages, Drained
  <2> QED BY <1>4, <2>1, <2>2, <2>3, <2>4, <2>5, <2>6 DEF OnceStep
<1>5. ASSUME NEW q \in Requests, Arrive(q) \/ RequestStep(q)
      PROVE  Stages' /\ Drained'
  <2>1. UNCHANGED <<start, server, once, field, closed, timedOut, worker, limiter>>
    BY <1>5, RequestsKeep
  <2> QED BY <1>1, <2>1 DEF Stages, Drained
<1>6. ASSUME NEW w \in Workers, WorkerStep(w)
      PROVE  Stages' /\ Drained'
  <2>1. /\ UNCHANGED <<start, server, once, field, closed, timedOut, limiter>>
        /\ \A v \in Workers : worker[v] \in {"off", "exited"} => worker'[v] = worker[v]
    BY <1>6, WebhookAssumption
       DEF WorkerStep, WorkerTake, WorkerDone, WorkerExit, TypeOK, WebhookAssumption
  <2> QED BY <1>1, <2>1 DEF Stages, Drained
<1>7. CASE UNCHANGED vars
  BY <1>1, <1>7 DEF vars, Stages, Drained
<1> QED BY <1>2, <1>3, <1>4, <1>5, <1>6, <1>7, StepCases DEF OtherStep, WorkerStep

(* Every step keeps what is known of requests on their way.                *)
LEMMA AnswersKept ==
  ASSUME TypeOK, Ledger, NoRepeat, Stages, Drained, Answers, [Next]_vars
  PROVE  Answers'
<1> USE DEF startVars, queueVars, limitVars
<1>1. CASE OtherStep
  <2>1. UNCHANGED <<request, buffer>>
    BY <1>1, OtherStepsKeep
  <2>2. /\ timedOut => timedOut'
        /\ field => field' \/ (once = "workers" /\ timedOut' = timedOut)
    <3>1. CASE StartStep
      <4>1. CASE StartWorkers
        <5>1. ~field /\ timedOut' = timedOut
          BY <4>1 DEF StartWorkers, Stages, QueueMade
        <5> QED BY <5>1
      <4>2. CASE ~StartWorkers
        <5>1. UNCHANGED <<field, timedOut>>
          BY <3>1, <4>2 DEF StartStep, StartMark, StartCreate, StartListen, StartServe,
             StartSelect, ShutdownByStart
        <5> QED BY <5>1
      <4> QED BY <4>1, <4>2
    <3>2. CASE ServeFails \/ Signal \/ MainStep \/ RefillTokens
      <4>1. UNCHANGED <<field, timedOut>>
        BY <3>2 DEF ServeFails, Signal, MainStep, MainCancel, ShutdownByMain, MainExit, RefillTokens
      <4> QED BY <4>1
    <3>3. CASE OnceStep
      <4>1. CASE ShutdownDrained
        <5>1. field' = field /\ (timedOut' = timedOut \/ timedOut' = TRUE)
          BY <4>1 DEF ShutdownDrained
        <5> QED BY <5>1
      <4>2. CASE StopWorkers
        BY <4>2 DEF StopWorkers
      <4>3. CASE ~ShutdownDrained /\ ~StopWorkers
        <5>1. UNCHANGED <<field, timedOut>>
          BY <3>3, <4>3 DEF OnceStep, ShutdownCheck, ShutdownServer, CloseQueue, JoinWorkers
        <5> QED BY <5>1
      <4> QED BY <4>1, <4>2, <4>3
    <3>4. CASE \E w \in Workers : WorkerDone(w) \/ WorkerExit(w)
      <4>1. UNCHANGED <<field, timedOut>>
        BY <3>4 DEF WorkerDone, WorkerExit
      <4> QED BY <4>1
    <3>5. CASE UNCHANGED vars
      BY <3>5 DEF vars
    <3> QED BY <1>1, <3>1, <3>2, <3>3, <3>4, <3>5 DEF OtherStep
  <2>3. ASSUME NEW q \in Requests, request[q] \in {"enqueue", "sending", "respond"}, field
        PROVE  field' \/ timedOut'
    <3>1. InFlight
      BY <2>3 DEF InFlight, ActivePcs
    <3> QED BY <2>2, <2>3, <3>1 DEF Stages, Drained
  <2>4. \A q \in Requests : Queued(q)' <=> Queued(q)
    BY <2>1 DEF Queued
  <2> QED BY <2>1, <2>2, <2>3, <2>4 DEF Answers
<1>2. ASSUME NEW q \in Requests, Arrive(q) \/ RequestStep(q)
      PROVE  Answers'
  <2>1. UNCHANGED <<field, closed, timedOut>>
    BY <1>2, RequestsKeep
  <2>2. \A k \in Requests \ {q} : request'[k] = request[k]
    BY <1>2 DEF Arrive, RequestStep, CheckRequest, Dispatch, EnqueueRead, EnqueueSend,
       HandlerReturns, Respond, Answer, Reply, TypeOK
  <2>3. CASE EnqueueSend(q)
    <3>1. field \/ timedOut
      BY <2>3 DEF EnqueueSend, Answers
    <3>2. \/ request'[q] = "respond" /\ buffer' = Append(buffer, q)
          \/ request'[q] \in {"429", "lost"} /\ buffer' = buffer
          \/ request'[q] = "aborted" /\ buffer' = buffer /\ closed
      BY <2>3 DEF EnqueueSend, Answer, Reply, TypeOK
    <3>3. \A k \in Requests \ {q} : Queued(k)' <=> Queued(k)
      <4>1. CASE buffer' = buffer
        BY <4>1 DEF Queued
      <4>2. CASE buffer' = Append(buffer, q)
        BY <4>2, SendQueues
      <4> QED BY <3>2, <4>1, <4>2
    <3> QED BY <2>1, <2>2, <3>1, <3>2, <3>3 DEF Answers, Stages
  <2>4. CASE ~EnqueueSend(q)
    <3>1. UNCHANGED buffer
      BY <1>2, <2>4, Zenon DEF Arrive, RequestStep, CheckRequest, Dispatch, EnqueueRead,
         HandlerReturns, Respond
    <3>2. \A k \in Requests : Queued(k)' <=> Queued(k)
      BY <3>1 DEF Queued
    <3>3. \/ request'[q] \in {"received", "4xx", "429", "lost", "dispatch", "handling", "500", "202"}
          \/ request'[q] \in {"enqueue", "sending"} /\ field
          \/ request[q] = "handling" /\ request'[q] = "respond"
          \/ request[q] = "respond" /\ request'[q] = "200" /\ ~field
      BY <1>2, <2>4 DEF Arrive, RequestStep, CheckRequest, Dispatch, EnqueueRead,
         HandlerReturns, Respond, Answer, Reply, TypeOK
    <3> QED BY <2>1, <2>2, <3>2, <3>3 DEF Answers, Ledger
  <2> QED BY <2>3, <2>4
<1>3. ASSUME NEW w \in Workers, WorkerTake(w)
      PROVE  Answers'
  <2>1. /\ buffer # <<>> /\ buffer' = Tail(buffer)
        /\ UNCHANGED <<request, field, timedOut>>
    BY <1>3 DEF WorkerTake
  <2>2. \A k \in Requests : Queued(k)' => Queued(k)
    BY <2>1, TakeUnqueues
  <2> QED BY <2>1, <2>2 DEF Answers
<1> QED BY <1>1, <1>2, <1>3, StepCases

-----------------------------------------------------------------------------

WebhookInv == TypeOK /\ Ledger /\ NoRepeat /\ Stages /\ Drained /\ Answers

(* Initially no request is in flight and the queue is empty.               *)
LEMMA InitWebhookInv == Init => WebhookInv
<1> SUFFICES ASSUME Init PROVE WebhookInv
  OBVIOUS
<1>1. TypeOK
  BY InitType
<1>2. Ledger /\ NoRepeat /\ Answers
  <2>1. buffer = <<>> /\ Len(buffer) = 0
    BY DEF Init
  <2>2. \A q \in Requests : ~Queued(q) /\ request[q] = "none" /\ handled[q] = 0
    BY <2>1 DEF Init, Queued
  <2> QED BY <2>1, <2>2 DEF Ledger, NoRepeat, Answers
<1>3. Stages /\ Drained
  BY DEF Init, Stages, Drained
<1> QED BY <1>1, <1>2, <1>3 DEF WebhookInv

(* The invariant holds in every reachable state.                           *)
LEMMA WebhookInvHolds == Spec => []WebhookInv
<1>1. WebhookInv /\ [Next]_vars => WebhookInv'
  BY NextType, LedgerKept, StagesKept, AnswersKept DEF WebhookInv
<1> QED BY <1>1, InitWebhookInv, PTL DEF Spec

(* What a client is told is what happened to its request, however the      *)
(* handlers, the workers and stopWorkers interleave, and whichever answers *)
(* the server's WriteTimeout cuts off (enqueue, writeSuccessResponse).     *)
THEOREM WebhookStatus == Spec => []StatusIsHonest
<1>1. WebhookInv => StatusIsHonest
  <2> SUFFICES ASSUME WebhookInv PROVE StatusIsHonest
    OBVIOUS
  <2>1. AcceptedIsKept
    BY DEF WebhookInv, Ledger, AcceptedIsKept
  <2>2. RefusedIsNotHandled
    BY DEF WebhookInv, Ledger, RefusedIsNotHandled
  <2>3. OkMeansHandled
    BY DEF WebhookInv, Ledger, Answers, OkMeansHandled
  <2> QED BY <2>1, <2>2, <2>3 DEF StatusIsHonest
<1> QED BY <1>1, WebhookInvHolds, PTL

(* A shutdown that does not run into its timeout cuts nobody off and       *)
(* leaves no handler, worker or limiter running (shutdown, stopWorkers).   *)
THEOREM WebhookShutdown == Spec => []ShutdownIsClean
<1>1. WebhookInv => ShutdownIsClean
  <2> SUFFICES ASSUME WebhookInv PROVE ShutdownIsClean
    OBVIOUS
  <2>1. AbortOnlyAfterTimeout
    BY DEF WebhookInv, Answers, AbortOnlyAfterTimeout
  <2>2. CleanShutdownQuiesces
    BY DEF WebhookInv, Stages, Drained, CleanShutdownQuiesces
  <2> QED BY <2>1, <2>2 DEF ShutdownIsClean
<1> QED BY <1>1, WebhookInvHolds, PTL
=============================================================================
