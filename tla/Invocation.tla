----------------------------- MODULE Invocation -----------------------------
(***************************************************************************)
(* The request path of one function in the agent (pkg/agent,               *)
(* functionHandler.go): the inbound handler, which looks the function's    *)
(* result up in Redis, asks the executor for the function's service (this *)
(* starts the wasm job) and, for the synchronous short-function executor   *)
(* type, waits on the handler's functionOutput channel for at most 10 s;   *)
(* and the functionOutput callback, by which the job hands its result      *)
(* back: it sends the result on that channel and then stores it in Redis.  *)
(*                                                                         *)
(* All requests of one function share one functionHandler, hence one       *)
(* channel and one Redis key (the function's UID); functions share         *)
(* nothing, so one function is modelled.  A backend run is named by the    *)
(* request whose executor call started it, and its result by the run.     *)
(***************************************************************************)
EXTENDS Naturals, Sequences

CONSTANTS
    Requests,   \* the inbound requests for the function
    ChanCap,    \* capacity of the functionOutput channel (0: unbuffered)
    SyncMode,   \* ExecutorType = ExecutorTypeWasmShortS
    None        \* "no value": empty Redis key, response not yet written

ASSUME ConstAssumption ==
    /\ ChanCap \in Nat
    /\ SyncMode \in BOOLEAN
    /\ None \notin Requests

VARIABLES
    rpc,      \* rpc[r]: where the handler goroutine of request r is
    resp,     \* resp[r]: the response written to the client of r
    metric,   \* metric[r]: the status code collectFunctionMetric records for r
    run,      \* run[j]: the backend run started by request j, and its callback
    cbCode,   \* cbCode[j]: the status the callback of run j returns to it
    chan,     \* the values buffered in fh.functionOutput
    store     \* the Redis value under the function's UID

vars == <<rpc, resp, metric, run, cbCode, chan, store>>

ReqState == {"idle", "resolving", "waiting", "done"}
RunState == {"none", "running", "rejected", "sending", "storing", "done"}
Body     == {"none", "stored", "storeError", "resolveError", "delivered",
             "timeout", "ack"}
Response == [code : {0, 200, 404}, body : Body, from : Requests \cup {None}]

NoResponse == [code |-> 0, body |-> "none", from |-> None]

\* respondWithSuccess writes the body with the implicit status 200;
\* respondWithError is http.Error(w, msg, http.StatusNotFound).
Success(body, from) == [code |-> 200, body |-> body, from |-> from]
Failure(body)       == [code |-> 404, body |-> body, from |-> None]

\* The request returns: it writes resp and starts collectFunctionMetric
\* with the local variable code.
Answer(r, response, code) ==
    /\ rpc'    = [rpc EXCEPT ![r] = "done"]
    /\ resp'   = [resp EXCEPT ![r] = response]
    /\ metric' = [metric EXCEPT ![r] = code]

TypeOK ==
    /\ rpc      \in [Requests -> ReqState]
    /\ resp     \in [Requests -> Response]
    /\ metric   \in [Requests -> {0, 200, 404}]
    /\ run      \in [Requests -> RunState]
    /\ cbCode   \in [Requests -> {0, 200, 500}]
    /\ chan     \in Seq(Requests)
    /\ store    \in Requests \cup {None}

Init ==
    /\ rpc      = [r \in Requests |-> "idle"]
    /\ resp     = [r \in Requests |-> NoResponse]
    /\ metric   = [r \in Requests |-> 0]
    /\ run      = [j \in Requests |-> "none"]
    /\ cbCode   = [j \in Requests |-> 0]
    /\ chan     = <<>>
    /\ store    = None

-----------------------------------------------------------------------------
(* Mutants: plausible slips in the code below, each named after what it   *)
(* gets wrong.  They are not part of Next; the project's mutation runs     *)
(* substitute them for the definition they mutate.                         *)

\* the timeout answered with http.StatusGatewayTimeout
MutTimeoutGatewayStatus(r) ==
    /\ rpc[r] = "waiting"
    /\ Answer(r, [code |-> 504, body |-> "timeout", from |-> None], 504)
    /\ UNCHANGED <<run, cbCode, chan, store>>

\* the select without its time.After case
MutTimeoutDropped(r) ==
    /\ FALSE
    /\ rpc[r] = "waiting"
    /\ Answer(r, Failure("timeout"), 404)
    /\ UNCHANGED <<run, cbCode, chan, store>>

\* the callback sending on the channel whatever the executor type
MutOutputAlwaysSends(j) ==
    /\ run[j] = "running"
    /\ \/ /\ run'    = [run EXCEPT ![j] = "rejected"]
          /\ cbCode' = [cbCode EXCEPT ![j] = 500]
       \/ /\ run'    = [run EXCEPT ![j] = "sending"]
          /\ UNCHANGED cbCode
    /\ UNCHANGED <<rpc, resp, metric, chan, store>>

-----------------------------------------------------------------------------
(* handler: the request arrives and reads Redis (redisClient.Get).  A hit *)
(* is answered at once; a miss goes on to the executor.                   *)
HandlerLookup(r) ==
    /\ rpc[r] = "idle"
    /\ IF store # None
         THEN Answer(r, Success("stored", store), 200)
         ELSE /\ rpc' = [rpc EXCEPT ![r] = "resolving"]
              /\ UNCHANGED <<resp, metric>>
    /\ UNCHANGED <<run, cbCode, chan, store>>

(* handler: Redis answers with an error other than redis.Nil.  The client *)
(* gets 404 while code keeps its initial value 200.                       *)
HandlerLookupError(r) ==
    /\ rpc[r] = "idle"
    /\ Answer(r, Failure("storeError"), 200)
    /\ UNCHANGED <<run, cbCode, chan, store>>

(* handler: getServiceEntryFromExecutor.  The executor either fails, or   *)
(* returns the service, having created a new job (a new run whose result  *)
(* will come back through the callback) or found the job already there.   *)
(* A synchronous function then waits on the channel; any other answers    *)
(* with the acknowledgement.                                              *)
HandlerResolve(r) ==
    /\ rpc[r] = "resolving"
    /\ \/ /\ Answer(r, Failure("resolveError"), 404)
          /\ UNCHANGED run
       \/ /\ \E newRun \in BOOLEAN :
                run' = IF newRun THEN [run EXCEPT ![r] = "running"] ELSE run
          /\ IF SyncMode
               THEN /\ rpc' = [rpc EXCEPT ![r] = "waiting"]
                    /\ UNCHANGED <<resp, metric>>
               ELSE Answer(r, Success("ack", None), 200)
    /\ UNCHANGED <<cbCode, chan, store>>

(* handler: the select receives a buffered value from fh.functionOutput.  *)
HandlerReceive(r) ==
    /\ rpc[r] = "waiting"
    /\ chan # <<>>
    /\ Answer(r, Success("delivered", Head(chan)), 200)
    /\ chan' = Tail(chan)
    /\ UNCHANGED <<run, cbCode, store>>

(* handler: time.After(10 * time.Second) fires first.                     *)
HandlerTimeout(r) ==
    /\ rpc[r] = "waiting"
    /\ Answer(r, Failure("timeout"), 404)
    /\ UNCHANGED <<run, cbCode, chan, store>>

-----------------------------------------------------------------------------
(* functionOutputHandler: the job of run j posts its result.  A body that *)
(* cannot be read is answered 500; otherwise a synchronous function sends  *)
(* the result on the channel before storing it, any other stores it.       *)
OutputReceive(j) ==
    /\ run[j] = "running"
    /\ \/ /\ run'    = [run EXCEPT ![j] = "rejected"]
          /\ cbCode' = [cbCode EXCEPT ![j] = 500]
       \/ /\ run'    = [run EXCEPT ![j] = IF SyncMode THEN "sending" ELSE "storing"]
          /\ UNCHANGED cbCode
    /\ UNCHANGED <<rpc, resp, metric, chan, store>>

(* fh.functionOutput <- ans with no receiver waiting: the send completes  *)
(* only if the buffer has room, and blocks otherwise.                      *)
OutputBuffer(j) ==
    /\ run[j] = "sending"
    /\ \A r \in Requests : rpc[r] # "waiting"
    /\ Len(chan) < ChanCap
    /\ chan' = Append(chan, j)
    /\ run'  = [run EXCEPT ![j] = "storing"]
    /\ UNCHANGED <<rpc, resp, metric, cbCode, store>>

(* fh.functionOutput <- ans meets the handler of r blocked in its select: *)
(* the value passes directly, both goroutines go on.                       *)
Rendezvous(r, j) ==
    /\ rpc[r] = "waiting"
    /\ run[j] = "sending"
    /\ chan = <<>>
    /\ Answer(r, Success("delivered", j), 200)
    /\ run' = [run EXCEPT ![j] = "storing"]
    /\ UNCHANGED <<cbCode, chan, store>>

(* depoDateRedis: redisClient.Set(uid, result, 0), no expiry.  On failure *)
(* the callback answers 500 (the WriteHeader(200) after it is ignored).   *)
OutputDeposit(j) ==
    /\ run[j] = "storing"
    /\ run' = [run EXCEPT ![j] = "done"]
    /\ \/ /\ store'  = j
          /\ cbCode' = [cbCode EXCEPT ![j] = 200]
       \/ /\ cbCode' = [cbCode EXCEPT ![j] = 500]
          /\ UNCHANGED store
    /\ UNCHANGED <<rpc, resp, metric, chan>>

-----------------------------------------------------------------------------
RequestStep(r) ==
    \/ HandlerLookup(r)
    \/ HandlerLookupError(r)
    \/ HandlerResolve(r)
    \/ HandlerReceive(r)
    \/ HandlerTimeout(r)

CallbackStep(j) ==
    \/ OutputReceive(j)
    \/ OutputBuffer(j)
    \/ OutputDeposit(j)

Next ==
    \/ \E r \in Requests : RequestStep(r)
    \/ \E j \in Requests : CallbackStep(j)
    \/ \E r, j \in Requests : Rendezvous(r, j)

(***************************************************************************)
(* Fairness.  A handler goroutine that can go on does (the Go scheduler,  *)
(* and the timer of its select).  The callback goroutine of a run that has *)
(* posted its result runs on as well; whether a job ever posts is the      *)
(* backend's affair, so OutputReceive is not fair, and neither is the      *)
(* arrival of a request.                                                   *)
(***************************************************************************)
Fairness ==
    /\ \A r \in Requests :
          WF_vars(HandlerResolve(r) \/ HandlerReceive(r) \/ HandlerTimeout(r)
                  \/ \E j \in Requests : Rendezvous(r, j))
    /\ \A j \in Requests : WF_vars(OutputBuffer(j) \/ OutputDeposit(j))

Spec == Init /\ [][Next]_vars /\ Fairness

-----------------------------------------------------------------------------
(***************************************************************************)
(* RequestsEventuallyRespond: every request that has arrived is answered  *)
(* (handler, spec section 7: no connection is left hanging), whether or    *)
(* not the executor reused a job that will never post a result.            *)
(***************************************************************************)
RequestsEventuallyRespond ==
    \A r \in Requests : (rpc[r] # "idle") ~> (rpc[r] = "done")

(***************************************************************************)
(* CallbackEventuallyAnswered: a callback that has read the result of its *)
(* run answers the backend, 200 once Redis holds it or 500 (spec 4.2: the  *)
(* publish is non-blocking, a missing listener must not hold up the        *)
(* callback, and the result is persisted).  functionOutputHandler.         *)
(***************************************************************************)
CallbackEventuallyAnswered ==
    \A j \in Requests : (run[j] \in {"sending", "storing"}) ~> (cbCode[j] # 0)

(***************************************************************************)
(* MetricMatchesResponse: the status code collectFunctionMetric records    *)
(* for an answered request is the status the client received (spec 4.2 and *)
(* 7: error responses are counted tagged with their status).  handler.     *)
(***************************************************************************)
MetricMatchesResponse ==
    \A r \in Requests : rpc[r] = "done" => metric[r] = resp[r].code

=============================================================================
