------------------------------ MODULE WasmJob --------------------------------
(***************************************************************************)
(* The wasm executor's job for one function (wasm/job.go): concurrent      *)
(* createOrGetJob calls, each of which builds the Job object, Gets it by   *)
(* name, Creates it if not found and, if the Create finds it already       *)
(* there, Gets it again; and deleteJob calls.  The Kubernetes API server   *)
(* is the one shared state: the job stored under the name.  A job is       *)
(* named by the call whose Create stored it.                               *)
(*                                                                         *)
(* The pod spec of the function is a constant: complete, without          *)
(* TerminationGracePeriodSeconds, or without a PodSpec at all.  Building  *)
(* the container and the Job object is pure and abstracted.                *)
(***************************************************************************)
EXTENDS Naturals, FiniteSets

CONSTANTS
    Callers,   \* concurrent createOrGetJob calls for the function's job name
    Deleters,  \* deleteJob calls for the same name
    PodSpec,   \* "full", "noGrace" (TerminationGracePeriodSeconds nil), "none"
    NoJob      \* no job stored / no job returned

ASSUME WasmJobAssumption ==
    /\ PodSpec \in {"full", "noGrace", "none"}
    /\ NoJob \notin Callers

VARIABLES
    pc,       \* pc[c]: where call c is
    result,   \* result[c]: the job call c returned, or NoJob
    job,      \* the job stored under the name in the API server
    deleted   \* the deleteJob calls made

vars == <<pc, result, job, deleted>>

PC == {"start", "get", "create", "reget", "ok", "error", "panic"}

TypeOK ==
    /\ pc      \in [Callers -> PC]
    /\ result  \in [Callers -> Callers \cup {NoJob}]
    /\ job     \in Callers \cup {NoJob}
    /\ deleted \subseteq Deleters

Init ==
    /\ pc      = [c \in Callers |-> "start"]
    /\ result  = [c \in Callers |-> NoJob]
    /\ job     = NoJob
    /\ deleted = {}

Goto(c, s) == pc' = [pc EXCEPT ![c] = s]

Returns(c, j) ==
    /\ pc'     = [pc EXCEPT ![c] = "ok"]
    /\ result' = [result EXCEPT ![c] = j]

-----------------------------------------------------------------------------
(* Mutants: the definitions below with a plausible bug each.               *)

MutCreateReturnsOwn(c) ==
    /\ pc[c] = "create"
    /\ \/ job = NoJob /\ job' = c /\ Returns(c, c)
       \/ job # NoJob /\ Returns(c, c) /\ UNCHANGED job
       \/ Goto(c, "error") /\ UNCHANGED <<result, job>>
    /\ UNCHANGED deleted

MutDeleteKeepsJob(d) ==
    /\ d \notin deleted
    /\ deleted' = deleted \cup {d}
    /\ UNCHANGED <<pc, result, job>>

-----------------------------------------------------------------------------
(* Actions.                                                                *)

\* The grace period reads *fn.Spec.PodSpec.TerminationGracePeriodSeconds
\* before the nil check of fn.Spec.PodSpec: a missing PodSpec, or a
\* missing grace period, is a nil dereference; the check that returns
\* "podSpec is not set" comes after it.  Otherwise the Job is built.
Start(c) ==
    /\ pc[c] = "start"
    /\ IF PodSpec = "full" THEN Goto(c, "get") ELSE Goto(c, "panic")
    /\ UNCHANGED <<result, job, deleted>>

\* Jobs(ns).Get(jobName): a stored job is returned; NotFound goes on to
\* the Create; any other error is returned.
Get(c) ==
    /\ pc[c] = "get"
    /\ \/ job # NoJob /\ Returns(c, job)
       \/ job = NoJob /\ Goto(c, "create") /\ UNCHANGED result
       \/ Goto(c, "error") /\ UNCHANGED result
    /\ UNCHANGED <<job, deleted>>

\* Jobs(ns).Create(job): stores c's job if the name is free; AlreadyExists
\* goes on to the second Get; any other error is returned.
Create(c) ==
    /\ pc[c] = "create"
    /\ \/ job = NoJob /\ job' = c /\ Returns(c, c)
       \/ job # NoJob /\ Goto(c, "reget") /\ UNCHANGED <<result, job>>
       \/ Goto(c, "error") /\ UNCHANGED <<result, job>>
    /\ UNCHANGED deleted

\* The Get after AlreadyExists: the stored job, or the error (NotFound if
\* the job was deleted in between).
Reget(c) ==
    /\ pc[c] = "reget"
    /\ \/ job # NoJob /\ Returns(c, job)
       \/ Goto(c, "error") /\ UNCHANGED result
    /\ UNCHANGED <<job, deleted>>

\* deleteJob: Jobs(ns).Delete with background propagation.
Delete(d) ==
    /\ d \notin deleted
    /\ deleted' = deleted \cup {d}
    /\ job' = NoJob
    /\ UNCHANGED <<pc, result>>

Next ==
    \/ \E c \in Callers : Start(c) \/ Get(c) \/ Create(c) \/ Reget(c)
    \/ \E d \in Deleters : Delete(d)

Spec == Init /\ [][Next]_vars

-----------------------------------------------------------------------------
(* Properties.                                                             *)

\* Concurrent createOrGetJob calls agree: as long as no deleteJob ran,
\* every call that succeeded returned the same job, whichever call's
\* Create won and whichever lost with AlreadyExists.
Agreement ==
    deleted = {} =>
        \A c1, c2 \in Callers :
            pc[c1] = "ok" /\ pc[c2] = "ok" => result[c1] = result[c2]

\* The refinement mapping: a call is pending in JobRegistry until it
\* returns, fails or panics.
Status == [c \in Callers |->
             IF pc[c] \in {"start", "get", "create", "reget"} THEN "pending"
                                                               ELSE pc[c]]

Registry == INSTANCE JobRegistry WITH status <- Status

\* createOrGetJob is linearisable: its Get, Create and second Get behave,
\* under any interleaving with other calls and with deleteJob, as one
\* atomic get-or-create; every call that succeeds returns the job stored
\* at some instant of its run, and only the call that stored it returns
\* its own job.
ImplementsRegistry == Registry!Spec

\* createOrGetJob answers a function without a pod spec with its error
\* "podSpec is not set" rather than crashing the executor.
NoPanic ==
    \A c \in Callers : pc[c] # "panic"
=============================================================================
