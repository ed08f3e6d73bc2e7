------------------------------ MODULE Webhook -------------------------------
(***************************************************************************)
(* The webhook input of internal/modules/input/webhook.go as driven by     *)
(* runWebhookPipeline (cmd/cannectors/main.go): the HTTP server, the       *)
(* bounded request queue and its workers, and the shutdown path that Start *)
(* and main's call of Stop race for.                                       *)
(*                                                                         *)
(* Start, main, every request and every worker is a goroutine.  w.queue is *)
(* read by request handlers without the mutex; the channel it refers to is *)
(* kept apart from the field, so that a handler can send on a channel that *)
(* stopWorkers has taken away and closed in the meantime.                  *)
(***************************************************************************)
EXTENDS Naturals, Sequences, FiniteSets

CONSTANTS
    Requests,     \* HTTP requests that arrive
    Workers,      \* queue workers: maxConcurrent of them
    QueueSizes,   \* configurations: values of queueSize
    RateLimit     \* burst of the rate limiter; 0 means none

ASSUME WebhookAssumption ==
    /\ QueueSizes \subseteq Nat
    /\ RateLimit \in Nat
    /\ IsFiniteSet(Requests)
    /\ Requests \cap {"off", "waiting", "exited"} = {}

VARIABLES
    queueSize,   \* w.queueSize, fixed; 0: the handler runs in the request
    start,       \* where Start is
    main,        \* where runWebhookPipeline is
    signal,      \* a SIGINT or SIGTERM has reached nobody, main, or Start too
    canceled,    \* main has called cancel()
    running,     \* w.running
    server,      \* the HTTP server: none, created, serving, failed or shut
    limiter,     \* the rate limiter's goroutine runs
    tokens,      \* tokens in its bucket
    field,       \* w.queue # nil
    buffer,      \* contents of the queue channel
    closed,      \* the queue and workerStop channels are closed
    once,        \* shutdownOnce: who runs it, and how far it is
    timedOut,    \* server.Shutdown gave up on requests in flight
    request,     \* each request's handler, ending in its response
    worker,      \* each worker: off, waiting, exited or the request it handles
    handled      \* how often the pipeline handler was called for a request

startVars == <<start, main, signal, canceled, running>>
queueVars == <<field, buffer, closed>>
limitVars == <<limiter, tokens>>
vars == <<queueSize, startVars, server, limitVars, queueVars, once, timedOut,
          request, worker, handled>>

-----------------------------------------------------------------------------

StartPcs == {"new", "marked", "created", "bound", "ready", "selecting",
             "shutdown", "inOnce", "returned"}
MainPcs  == {"waiting", "signaled", "shutdown", "inOnce", "joining",
             "exited", "panicked"}

(* The body of shutdownOnce.Do, step by step.                              *)
OncePcs == {"free", "check", "server", "draining", "workers", "closing",
            "joining", "done"}

(* aborted: the handler panicked on the closed queue.  lost: it ended, and *)
(* its answer did not reach the client.  To the client both are a broken   *)
(* connection.                                                             *)
Codes == {"200", "202", "4xx", "429", "500", "aborted", "lost"}
ActivePcs == {"received", "dispatch", "enqueue", "sending", "handling",
              "respond"}

WorkerPcs == {"off", "waiting", "exited"}

Alive == main \notin {"exited", "panicked"}

Reply(q, code) == request' = [request EXCEPT ![q] = code]

(* A handler ends with an answer.  The answer is lost when the handler has *)
(* outlasted WriteTimeout, which runs from the request's header on, when   *)
(* the pipeline panicked, from which the server recovers, or when the      *)
(* client has gone.                                                        *)
Answer(q, code) == Reply(q, code) \/ Reply(q, "lost")

CallHandler(q) == handled' = [handled EXCEPT ![q] = @ + 1]

InFlight == \E q \in Requests : request[q] \in ActivePcs

-----------------------------------------------------------------------------

Init ==
    /\ queueSize \in QueueSizes
    /\ start = "new"
    /\ main = "waiting"
    /\ signal = "none"
    /\ canceled = FALSE
    /\ running = FALSE
    /\ server = "none"
    /\ limiter = FALSE
    /\ tokens = 0
    /\ field = FALSE
    /\ buffer = <<>>
    /\ closed = FALSE
    /\ once = "free"
    /\ timedOut = FALSE
    /\ request = [q \in Requests |-> "none"]
    /\ worker = [w \in Workers |-> "off"]
    /\ handled = [q \in Requests |-> 0]

-----------------------------------------------------------------------------
(* Start                                                                   *)

StartMark ==
    /\ start = "new"
    /\ running' = TRUE
    /\ start' = "marked"
    /\ UNCHANGED <<main, signal, canceled, server, limitVars, queueVars,
                   once, timedOut, request, worker, handled>>

StartCreate ==
    /\ start = "marked"
    /\ limiter' = (RateLimit > 0)
    /\ tokens' = RateLimit
    /\ server' = "created"
    /\ start' = "created"
    /\ UNCHANGED <<main, signal, canceled, running, queueVars, once,
                   timedOut, request, worker, handled>>

(* net.Listen; a failure undoes the limiter and the running mark.          *)
StartListen ==
    /\ start = "created"
    /\ \/ start' = "bound" /\ UNCHANGED <<running, limiter>>
       \/ /\ start' = "returned"
          /\ running' = FALSE
          /\ limiter' = FALSE
    /\ UNCHANGED <<main, signal, canceled, server, tokens, queueVars, once,
                   timedOut, request, worker, handled>>

StartWorkers ==
    /\ start = "bound"
    /\ start' = "ready"
    /\ field' = (queueSize > 0)
    /\ worker' = [w \in Workers |-> IF queueSize > 0 THEN "waiting" ELSE "off"]
    /\ UNCHANGED <<main, signal, canceled, running, server, limitVars,
                   buffer, closed, once, timedOut, request, handled>>

(* Serve refuses to run on a server that is shut down already.             *)
StartServe ==
    /\ start = "ready"
    /\ start' = "selecting"
    /\ server' = IF server = "shut" THEN "shut" ELSE "serving"
    /\ UNCHANGED <<main, signal, canceled, running, limitVars, queueVars,
                   once, timedOut, request, worker, handled>>

(* Serve returns with an error of its own.                                 *)
ServeFails ==
    /\ server = "serving"
    /\ server' = "failed"
    /\ UNCHANGED <<startVars, limitVars, queueVars, once, timedOut, request,
                   worker, handled>>

(* The select of Start: any branch that is ready may be taken.             *)
StartSelect ==
    /\ start = "selecting"
    /\ \/ /\ canceled \/ signal = "both"
          /\ UNCHANGED running
       \/ /\ server \in {"failed", "shut"}
          /\ running' = FALSE
    /\ start' = "shutdown"
    /\ UNCHANGED <<main, signal, canceled, server, limitVars, queueVars,
                   once, timedOut, request, worker, handled>>

-----------------------------------------------------------------------------
(* main                                                                    *)

(* Start registers for signals only when it comes to its select.           *)
Signal ==
    /\ main = "waiting"
    /\ signal = "none"
    /\ signal' = IF start = "selecting" THEN "both" ELSE "main"
    /\ UNCHANGED <<start, main, canceled, running, server, limitVars,
                   queueVars, once, timedOut, request, worker, handled>>

MainCancel ==
    /\ main = "waiting"
    /\ signal # "none"
    /\ canceled' = TRUE
    /\ main' = "shutdown"
    /\ UNCHANGED <<start, signal, running, server, limitVars, queueVars,
                   once, timedOut, request, worker, handled>>

(* <-errCh: Start has returned; the modules are released, the process ends. *)
MainExit ==
    /\ main \in {"waiting", "joining"}
    /\ start = "returned"
    /\ main' = "exited"
    /\ UNCHANGED <<start, signal, canceled, running, server, limitVars,
                   queueVars, once, timedOut, request, worker, handled>>

-----------------------------------------------------------------------------
(* shutdown                                                                *)

(* shutdownOnce.Do: the first caller runs the body, later ones wait for it *)
(* and return no error.                                                    *)
ShutdownByStart ==
    /\ start = "shutdown"
    /\ \/ once = "free" /\ once' = "check" /\ start' = "inOnce"
       \/ once = "done" /\ start' = "returned" /\ UNCHANGED once
    /\ UNCHANGED <<main, signal, canceled, running, server, limitVars,
                   queueVars, timedOut, request, worker, handled>>

ShutdownByMain ==
    /\ main = "shutdown"
    /\ \/ once = "free" /\ once' = "check" /\ main' = "inOnce"
       \/ once = "done" /\ main' = "joining" /\ UNCHANGED once
    /\ UNCHANGED <<start, signal, canceled, running, server, limitVars,
                   queueVars, timedOut, request, worker, handled>>

(* The end of the body returns to whoever entered it.                      *)
LeaveOnce ==
    /\ once' = "done"
    /\ start' = IF start = "inOnce" THEN "returned" ELSE start
    /\ main' = IF main = "inOnce" THEN "joining" ELSE main

ShutdownCheck ==
    /\ once = "check"
    /\ \/ ~running /\ LeaveOnce /\ UNCHANGED running
       \/ /\ running
          /\ running' = FALSE
          /\ once' = "server"
          /\ UNCHANGED <<start, main>>
    /\ UNCHANGED <<signal, canceled, server, limitVars, queueVars, timedOut,
                   request, worker, handled>>

(* server.Shutdown on a server Start has not created yet is a nil          *)
(* dereference and ends the process.                                       *)
ShutdownServer ==
    /\ once = "server"
    /\ \/ /\ server = "none"
          /\ main' = "panicked"
          /\ UNCHANGED <<server, once>>
       \/ /\ server # "none"
          /\ server' = "shut"
          /\ once' = "draining"
          /\ UNCHANGED main
    /\ UNCHANGED <<start, signal, canceled, running, limitVars, queueVars,
                   timedOut, request, worker, handled>>

(* Shutdown returns when no request is active, or after its five seconds.  *)
ShutdownDrained ==
    /\ once = "draining"
    /\ \/ ~InFlight /\ UNCHANGED timedOut
       \/ InFlight /\ timedOut' = TRUE
    /\ once' = "workers"
    /\ UNCHANGED <<startVars, server, limitVars, queueVars, request, worker,
                   handled>>

(* Fault: the limiter's goroutine is left running.                         *)
StopWorkers_LeavesLimiter ==
    /\ once = "workers"
    /\ field' = FALSE
    /\ once' = IF field THEN "closing" ELSE "joining"
    /\ UNCHANGED <<startVars, server, limitVars, buffer, closed, timedOut,
                   request, worker, handled>>

(* stopWorkers: stop the limiter, take the queue away ...                  *)
StopWorkers ==
    /\ once = "workers"
    /\ limiter' = FALSE
    /\ field' = FALSE
    /\ once' = IF field THEN "closing" ELSE "joining"
    /\ UNCHANGED <<startVars, server, tokens, buffer, closed, timedOut,
                   request, worker, handled>>

(* Fault: the channels are dropped without being closed.                   *)
CloseQueue_Forgets ==
    /\ once = "closing"
    /\ once' = "joining"
    /\ UNCHANGED <<startVars, server, limitVars, queueVars, timedOut, request,
                   worker, handled>>

(* ... close the channels it found ...                                     *)
CloseQueue ==
    /\ once = "closing"
    /\ closed' = TRUE
    /\ once' = "joining"
    /\ UNCHANGED <<startVars, server, limitVars, field, buffer, timedOut,
                   request, worker, handled>>

(* ... and wait for the workers.                                           *)
JoinWorkers ==
    /\ once = "joining"
    /\ \A w \in Workers : worker[w] \in {"off", "exited"}
    /\ LeaveOnce
    /\ UNCHANGED <<signal, canceled, running, server, limitVars, queueVars,
                   timedOut, request, worker, handled>>

-----------------------------------------------------------------------------
(* Requests                                                                *)

Arrive(q) ==
    /\ server = "serving"
    /\ request[q] = "none"
    /\ Reply(q, "received")
    /\ UNCHANGED <<startVars, server, limitVars, queueVars, once, timedOut,
                   worker, handled>>

(* Fault: Allow waits for a token instead of refusing.                     *)
CheckRequest_WaitsForToken(q) ==
    /\ request[q] = "received"
    /\ limiter => tokens > 0
    /\ tokens' = IF limiter THEN tokens - 1 ELSE tokens
    /\ Reply(q, "dispatch")
    /\ UNCHANGED <<startVars, server, limiter, queueVars, once, timedOut,
                   worker, handled>>

(* checkMethodAndPath, checkRateLimit, readRequestBody, checkSignature and *)
(* parsePayload: a request is turned away or goes on.  A limiter taken     *)
(* away meanwhile lets everything pass.                                    *)
CheckRequest(q) ==
    /\ request[q] = "received"
    /\ \/ Answer(q, "4xx") /\ UNCHANGED tokens
       \/ /\ limiter
          /\ tokens = 0
          /\ Answer(q, "429")
          /\ UNCHANGED tokens
       \/ /\ limiter => tokens > 0
          /\ tokens' = IF limiter THEN tokens - 1 ELSE tokens
          /\ Reply(q, "dispatch") \/ Answer(q, "4xx")
    /\ UNCHANGED <<startVars, server, limiter, queueVars, once, timedOut,
                   worker, handled>>

(* The limiter's ticker adds a token unless the bucket is full.            *)
RefillTokens ==
    /\ limiter
    /\ tokens < RateLimit
    /\ tokens' = tokens + 1
    /\ UNCHANGED <<startVars, server, limiter, queueVars, once, timedOut,
                   request, worker, handled>>

(* dispatchToHandler: queue the request or call the handler.               *)
Dispatch(q) ==
    /\ request[q] = "dispatch"
    /\ \/ field /\ Reply(q, "enqueue") /\ UNCHANGED handled
       \/ ~field /\ Reply(q, "handling") /\ CallHandler(q)
    /\ UNCHANGED <<startVars, server, limitVars, queueVars, once, timedOut,
                   worker>>

(* enqueue reads w.queue again: nil never accepts a send.                  *)
EnqueueRead(q) ==
    /\ request[q] = "enqueue"
    /\ \/ field /\ Reply(q, "sending")
       \/ ~field /\ Answer(q, "429")
    /\ UNCHANGED <<startVars, server, limitVars, queueVars, once, timedOut,
                   worker, handled>>

(* Fault: the default branch of the select reports success.                *)
EnqueueSend_Drops(q) ==
    /\ request[q] = "sending"
    /\ Reply(q, "respond")
    /\ buffer' = IF Len(buffer) < queueSize THEN Append(buffer, q) ELSE buffer
    /\ UNCHANGED <<startVars, server, limitVars, field, closed, once,
                   timedOut, worker, handled>>

(* Fault: the capacity is checked after the send, one too late.            *)
EnqueueSend_ChecksLate(q) ==
    /\ request[q] = "sending"
    /\ buffer' = Append(buffer, q)
    /\ Reply(q, IF Len(buffer) < queueSize THEN "respond" ELSE "429")
    /\ UNCHANGED <<startVars, server, limitVars, field, closed, once,
                   timedOut, worker, handled>>

(* The send: into the buffer, or the default branch when it is full, or a  *)
(* panic on a closed channel, which the HTTP server turns into an aborted  *)
(* connection.                                                             *)
EnqueueSend(q) ==
    /\ request[q] = "sending"
    /\ \/ closed /\ Reply(q, "aborted") /\ UNCHANGED buffer
       \/ /\ ~closed
          /\ Len(buffer) < queueSize
          /\ buffer' = Append(buffer, q)
          /\ Reply(q, "respond")
       \/ /\ ~closed
          /\ Len(buffer) = queueSize
          /\ Answer(q, "429")
          /\ UNCHANGED buffer
    /\ UNCHANGED <<startVars, server, limitVars, field, closed, once,
                   timedOut, worker, handled>>

(* The pipeline has run, or failed, in the request.                        *)
HandlerReturns(q) ==
    /\ request[q] = "handling"
    /\ Reply(q, "respond") \/ Answer(q, "500")
    /\ UNCHANGED <<startVars, server, limitVars, queueVars, once, timedOut,
                   worker, handled>>

(* writeSuccessResponse looks at w.queue to choose the status.             *)
Respond(q) ==
    /\ request[q] = "respond"
    /\ Answer(q, IF field THEN "202" ELSE "200")
    /\ UNCHANGED <<startVars, server, limitVars, queueVars, once, timedOut,
                   worker, handled>>

-----------------------------------------------------------------------------
(* Workers                                                                 *)

(* A closed channel still yields what it holds, and the select may prefer  *)
(* workerStop to it.                                                       *)
WorkerTake(w) ==
    /\ worker[w] = "waiting"
    /\ buffer # <<>>
    /\ worker' = [worker EXCEPT ![w] = Head(buffer)]
    /\ buffer' = Tail(buffer)
    /\ CallHandler(Head(buffer))
    /\ UNCHANGED <<startVars, server, limitVars, field, closed, once,
                   timedOut, request>>

WorkerDone(w) ==
    /\ worker[w] \in Requests
    /\ worker' = [worker EXCEPT ![w] = "waiting"]
    /\ UNCHANGED <<startVars, server, limitVars, queueVars, once, timedOut,
                   request, handled>>

WorkerExit(w) ==
    /\ worker[w] = "waiting"
    /\ closed
    /\ worker' = [worker EXCEPT ![w] = "exited"]
    /\ UNCHANGED <<startVars, server, limitVars, queueVars, once, timedOut,
                   request, handled>>

-----------------------------------------------------------------------------

StartStep ==
    \/ StartMark
    \/ StartCreate
    \/ StartListen
    \/ StartWorkers
    \/ StartServe
    \/ StartSelect
    \/ ShutdownByStart

MainStep == MainCancel \/ ShutdownByMain \/ MainExit

OnceStep ==
    \/ ShutdownCheck
    \/ ShutdownServer
    \/ ShutdownDrained
    \/ StopWorkers
    \/ CloseQueue
    \/ JoinWorkers

RequestStep(q) ==
    \/ CheckRequest(q)
    \/ Dispatch(q)
    \/ EnqueueRead(q)
    \/ EnqueueSend(q)
    \/ HandlerReturns(q)
    \/ Respond(q)

WorkerStep(w) == WorkerTake(w) \/ WorkerDone(w) \/ WorkerExit(w)

(* A step of the live process; its configuration does not change.          *)
Live(A) == Alive /\ A /\ UNCHANGED queueSize

Next ==
    \/ Live(StartStep)
    \/ Live(ServeFails)
    \/ Live(Signal)
    \/ Live(MainStep)
    \/ Live(OnceStep)
    \/ Live(RefillTokens)
    \/ \E q \in Requests : Live(Arrive(q)) \/ Live(RequestStep(q))
    \/ \E w \in Workers : Live(WorkerStep(w))

Spec == Init /\ [][Next]_vars

(* Goroutines run on; a handler returns because its calls time out.        *)
FairSpec ==
    /\ Spec
    /\ WF_vars(Live(StartStep))
    /\ WF_vars(Live(MainStep))
    /\ WF_vars(Live(OnceStep))
    /\ \A q \in Requests : WF_vars(Live(RequestStep(q)))
    /\ \A w \in Workers : WF_vars(Live(WorkerStep(w)))

-----------------------------------------------------------------------------

(* Type invariant.                                                         *)
TypeOK ==
    /\ queueSize \in QueueSizes
    /\ start \in StartPcs
    /\ main \in MainPcs
    /\ signal \in {"none", "main", "both"}
    /\ canceled \in BOOLEAN
    /\ running \in BOOLEAN
    /\ server \in {"none", "created", "serving", "failed", "shut"}
    /\ limiter \in BOOLEAN
    /\ tokens \in 0..RateLimit
    /\ field \in BOOLEAN
    /\ buffer \in Seq(Requests)
    /\ Len(buffer) <= queueSize
    /\ closed \in BOOLEAN
    /\ once \in OncePcs
    /\ timedOut \in BOOLEAN
    /\ request \in [Requests -> {"none"} \cup ActivePcs \cup Codes]
    /\ worker \in [Workers -> WorkerPcs \cup Requests]
    /\ handled \in [Requests -> Nat]

Queued(q) == \E i \in 1..Len(buffer) : buffer[i] = q

(* A request answered 202 is handled once or still in the queue, and no    *)
(* request is handled twice, however enqueue, the workers and stopWorkers  *)
(* interleave; at a shutdown the queue is what is dropped.                 *)
AcceptedIsKept ==
    \A q \in Requests :
        /\ handled[q] <= 1
        /\ request[q] = "202" => handled[q] = 1 \/ Queued(q)

(* A request turned away, or that met the closed queue, was never given to *)
(* the pipeline: a client that retries after 4xx or 429 causes no          *)
(* duplicate.  One that retries after a broken connection may: of a lost   *)
(* answer nothing is promised here but AcceptedIsKept's one handling.      *)
RefusedIsNotHandled ==
    \A q \in Requests : request[q] \in {"4xx", "429", "aborted"}
        => handled[q] = 0 /\ ~Queued(q)

(* 200 says the pipeline ran; only a Shutdown that gave up on requests in  *)
(* flight can make an accepted request read as a finished one.             *)
OkMeansHandled ==
    \A q \in Requests : request[q] = "200" /\ ~timedOut => handled[q] = 1

(* No handler meets a closed channel unless Shutdown gave up on it.        *)
AbortOnlyAfterTimeout ==
    (\E q \in Requests : request[q] = "aborted") => timedOut

(* When the body of shutdown ran to its end on a server that was up, and   *)
(* Shutdown did not give up, no handler is running, no worker is left and  *)
(* the limiter is stopped.                                                 *)
CleanShutdownQuiesces ==
    /\ once = "done"
    /\ server = "shut"
    /\ ~timedOut
    /\ closed \/ queueSize = 0
    => /\ ~InFlight
       /\ \A w \in Workers : worker[w] \in {"off", "exited"}
       /\ ~limiter
       /\ ~field

(* What a client is told is what happened to its request: accepted ones    *)
(* are kept, refused ones are not handled, finished ones were (enqueue,    *)
(* writeSuccessResponse, stopWorkers).                                     *)
StatusIsHonest == AcceptedIsKept /\ RefusedIsNotHandled /\ OkMeansHandled

(* A shutdown that did not run into its timeout cut nobody off and left    *)
(* nothing running.                                                        *)
ShutdownIsClean == AbortOnlyAfterTimeout /\ CleanShutdownQuiesces

(* A signal that finds the server up ends the process, whichever of Start  *)
(* and main gets to run shutdown.                                          *)
SignalEndsProcess == signal = "both" ~> ~Alive

(* Every request's handler ends, unless the process ends first.            *)
RequestAnswered ==
    \A q \in Requests :
        request[q] = "received" ~> (request[q] \in Codes \/ ~Alive)

(* The server answers while it is up and goes down when it is told to      *)
(* (handleRequest, shutdown).                                              *)
ServesThenStops == RequestAnswered /\ SignalEndsProcess

-----------------------------------------------------------------------------

(* "Press Ctrl+C to stop..." (runWebhookPipeline): a signal ends the       *)
(* process, at whatever point of Start it arrives.                         *)
CtrlCStops == signal # "none" ~> ~Alive
=============================================================================
