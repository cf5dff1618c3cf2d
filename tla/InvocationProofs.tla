-------------------------- MODULE InvocationProofs --------------------------
(***************************************************************************)
(* Proofs about Invocation: every variable keeps its type, for every set  *)
(* of requests, every channel capacity and either executor type.  In      *)
(* particular handler answers its clients only 200 or 404 and records the  *)
(* same codes in its metric, and functionOutputHandler answers the backend *)
(* only 200 or 500.                                                        *)
(***************************************************************************)
EXTENDS Invocation, TLAPS

USE ConstAssumption

-----------------------------------------------------------------------------
(* A request that returns keeps the types of rpc, resp and metric.        *)
LEMMA AnswerType ==
    ASSUME TypeOK, NEW r \in Requests, NEW response \in Response,
           NEW code \in {0, 200, 404}, Answer(r, response, code)
    PROVE  /\ rpc' \in [Requests -> ReqState]
           /\ resp' \in [Requests -> Response]
           /\ metric' \in [Requests -> {0, 200, 404}]
  BY DEF TypeOK, Answer, ReqState

(* The responses the handler writes are responses.                         *)
LEMMA ResponsesTyped ==
    /\ \A b \in Body : Failure(b) \in Response
    /\ \A b \in Body, x \in Requests \cup {None} : Success(b, x) \in Response
  BY DEF Failure, Success, Response

-----------------------------------------------------------------------------
(* Init and every step keep the types of all variables.                 *)
LEMMA TypeInit == Init => TypeOK
  BY DEF Init, TypeOK, NoResponse, Response, Body, ReqState, RunState

LEMMA TypeStep == TypeOK /\ [Next]_vars => TypeOK'
<1> SUFFICES ASSUME TypeOK, [Next]_vars PROVE TypeOK'
  OBVIOUS
<1>. USE ResponsesTyped DEF Body
<1>1. ASSUME NEW r \in Requests, HandlerLookup(r) PROVE TypeOK'
  <2>1. CASE store # None
    <3>1. Success("stored", store) \in Response
      BY <2>1 DEF TypeOK
    <3>2. QED
      BY <1>1, <2>1, <3>1, AnswerType DEF HandlerLookup, TypeOK
  <2>2. CASE store = None
    BY <1>1, <2>2 DEF HandlerLookup, TypeOK, ReqState
  <2>3. QED
    BY <2>1, <2>2
<1>2. ASSUME NEW r \in Requests, HandlerLookupError(r) PROVE TypeOK'
  BY <1>2, AnswerType DEF HandlerLookupError, TypeOK
<1>3. ASSUME NEW r \in Requests, HandlerResolve(r) PROVE TypeOK'
  <2>1. run' \in [Requests -> RunState]
    BY <1>3 DEF HandlerResolve, TypeOK, RunState
  <2>2. CASE Answer(r, Failure("resolveError"), 404)
    BY <1>3, <2>1, <2>2, AnswerType DEF HandlerResolve, TypeOK
  <2>3. CASE SyncMode /\ rpc' = [rpc EXCEPT ![r] = "waiting"]
                      /\ UNCHANGED <<resp, metric>>
    BY <1>3, <2>1, <2>3 DEF HandlerResolve, TypeOK, ReqState
  <2>4. CASE ~SyncMode /\ Answer(r, Success("ack", None), 200)
    BY <1>3, <2>1, <2>4, AnswerType DEF HandlerResolve, TypeOK
  <2>5. QED
    BY <1>3, <2>2, <2>3, <2>4 DEF HandlerResolve
<1>4. ASSUME NEW r \in Requests, HandlerReceive(r) PROVE TypeOK'
  <2>1. Head(chan) \in Requests /\ Tail(chan) \in Seq(Requests)
    BY <1>4 DEF HandlerReceive, TypeOK
  <2>2. QED
    BY <1>4, <2>1, AnswerType DEF HandlerReceive, TypeOK
<1>5. ASSUME NEW r \in Requests, HandlerTimeout(r) PROVE TypeOK'
  BY <1>5, AnswerType DEF HandlerTimeout, TypeOK
<1>6. ASSUME NEW j \in Requests, OutputReceive(j) PROVE TypeOK'
  BY <1>6 DEF OutputReceive, TypeOK, RunState
<1>7. ASSUME NEW j \in Requests, OutputBuffer(j) PROVE TypeOK'
  BY <1>7 DEF OutputBuffer, TypeOK, RunState
<1>8. ASSUME NEW j \in Requests, OutputDeposit(j) PROVE TypeOK'
  BY <1>8 DEF OutputDeposit, TypeOK, RunState
<1>9. ASSUME NEW r \in Requests, NEW j \in Requests, Rendezvous(r, j)
      PROVE TypeOK'
  BY <1>9, AnswerType DEF Rendezvous, TypeOK, RunState
<1>10. CASE UNCHANGED vars
  BY <1>10 DEF vars, TypeOK
<1>11. QED
  BY <1>1, <1>2, <1>3, <1>4, <1>5, <1>6, <1>7, <1>8, <1>9, <1>10
     DEF Next, RequestStep, CallbackStep

(***************************************************************************)
(* TypeCorrect: every variable keeps its type, whatever the handlers and  *)
(* callbacks of the function do and in whatever order.                     *)
(***************************************************************************)
THEOREM TypeCorrect == Spec => []TypeOK
  BY TypeInit, TypeStep, PTL DEF Spec

=============================================================================
