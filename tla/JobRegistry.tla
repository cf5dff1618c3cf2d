----------------------------- MODULE JobRegistry -----------------------------
(***************************************************************************)
(* What createOrGetJob promises, as an abstract specification: each call  *)
(* gets or creates the function's job in one atomic step.  If a job is     *)
(* stored, the call returns it; otherwise it stores and returns its own.   *)
(* A call may instead fail (any API error) at any time, and crash only     *)
(* when the pod spec is incomplete.  deleteJob removes the stored job.     *)
(*                                                                         *)
(* WasmJob, where a call is a Get, a Create and a second Get against the  *)
(* API server, is shown to implement this specification (WasmJob's        *)
(* Registry instance and WasmJobProofs' theorem).                          *)
(***************************************************************************)
CONSTANTS Callers, Deleters, PodSpec, NoJob

VARIABLES
    status,   \* status[c]: "pending", "ok", "error" or "panic"
    result,   \* result[c]: the job call c returned, or NoJob
    job,      \* the job stored under the name
    deleted   \* the deleteJob calls made

vars == <<status, result, job, deleted>>

Init ==
    /\ status  = [c \in Callers |-> "pending"]
    /\ result  = [c \in Callers |-> NoJob]
    /\ job     = NoJob
    /\ deleted = {}

\* The whole call at its linearisation point: return the stored job, or
\* store c's own job under the free name.
GetOrCreate(c) ==
    /\ status[c] = "pending"
    /\ job' = IF job = NoJob THEN c ELSE job
    /\ result' = [result EXCEPT ![c] = job']
    /\ status' = [status EXCEPT ![c] = "ok"]
    /\ UNCHANGED deleted

Fail(c) ==
    /\ status[c] = "pending"
    /\ status' = [status EXCEPT ![c] = "error"]
    /\ UNCHANGED <<result, job, deleted>>

Crash(c) ==
    /\ status[c] = "pending"
    /\ PodSpec # "full"
    /\ status' = [status EXCEPT ![c] = "panic"]
    /\ UNCHANGED <<result, job, deleted>>

Delete(d) ==
    /\ d \notin deleted
    /\ deleted' = deleted \cup {d}
    /\ job' = NoJob
    /\ UNCHANGED <<status, result>>

Next ==
    \/ \E c \in Callers : GetOrCreate(c) \/ Fail(c) \/ Crash(c)
    \/ \E d \in Deleters : Delete(d)

Spec == Init /\ [][Next]_vars
=============================================================================
