---------------------------- MODULE WasmJobProofs ----------------------------
(***************************************************************************)
(* Proofs about WasmJob, for every set of concurrent createOrGetJob and   *)
(* deleteJob calls and every pod spec.                                     *)
(***************************************************************************)
EXTENDS WasmJob, TLAPS

USE WasmJobAssumption

(***************************************************************************)
(* The inductive invariant behind Agreement: while no deleteJob has run,   *)
(* every call that returned a job returned the job stored in the API       *)
(* server, and one is stored.  A job, once stored, stays while nothing     *)
(* deletes it, because Create stores only under a free name.               *)
(***************************************************************************)
ReturnedIsStored ==
    deleted = {} =>
        \A c \in Callers : pc[c] = "ok" => result[c] = job /\ job # NoJob

IInv == TypeOK /\ ReturnedIsStored

LEMMA IInvInit == Init => IInv
BY DEF Init, IInv, TypeOK, ReturnedIsStored, PC

LEMMA IInvStep == IInv /\ [Next]_vars => IInv'
<1> SUFFICES ASSUME IInv, [Next]_vars PROVE IInv'
  OBVIOUS
<1>1. ASSUME NEW c \in Callers, Start(c) PROVE IInv'
  BY <1>1 DEF Start, Goto, IInv, TypeOK, ReturnedIsStored, PC
<1>2. ASSUME NEW c \in Callers, Get(c) PROVE IInv'
  BY <1>2 DEF Get, Goto, Returns, IInv, TypeOK, ReturnedIsStored, PC
<1>3. ASSUME NEW c \in Callers, Create(c) PROVE IInv'
  <2>1. CASE job = NoJob /\ job' = c /\ Returns(c, c)
    \* Only c can have returned before: nobody holds a stored job yet.
    <3>1. deleted = {} => \A k \in Callers : pc[k] # "ok"
      BY <2>1 DEF IInv, ReturnedIsStored
    <3>2. TypeOK'
      BY <1>3, <2>1 DEF Create, Returns, IInv, TypeOK, PC
    <3>3. ASSUME deleted' = {}, NEW k \in Callers, pc'[k] = "ok"
          PROVE  result'[k] = job' /\ job' # NoJob
      <4>1. k = c
        BY <1>3, <2>1, <3>1, <3>3 DEF Create, Returns, IInv, TypeOK
      <4>2. QED
        BY <2>1, <4>1 DEF Returns, IInv, TypeOK
    <3>4. QED
      BY <3>2, <3>3 DEF IInv, ReturnedIsStored
  <2>2. CASE job # NoJob /\ Goto(c, "reget") /\ UNCHANGED <<result, job>>
    BY <1>3, <2>2 DEF Create, Goto, IInv, TypeOK, ReturnedIsStored, PC
  <2>3. CASE Goto(c, "error") /\ UNCHANGED <<result, job>>
    BY <1>3, <2>3 DEF Create, Goto, IInv, TypeOK, ReturnedIsStored, PC
  <2>4. QED
    BY <1>3, <2>1, <2>2, <2>3 DEF Create
<1>4. ASSUME NEW c \in Callers, Reget(c) PROVE IInv'
  BY <1>4 DEF Reget, Goto, Returns, IInv, TypeOK, ReturnedIsStored, PC
<1>5. ASSUME NEW d \in Deleters, Delete(d) PROVE IInv'
  BY <1>5 DEF Delete, IInv, TypeOK, ReturnedIsStored
<1>6. CASE UNCHANGED vars
  BY <1>6 DEF vars, IInv, TypeOK, ReturnedIsStored
<1>7. QED
  BY <1>1, <1>2, <1>3, <1>4, <1>5, <1>6 DEF Next

(***************************************************************************)
(* TypeCorrect: every reachable state of createOrGetJob/deleteJob is well  *)
(* typed.                                                                  *)
(***************************************************************************)
THEOREM TypeCorrect == Spec => []TypeOK
<1>1. IInv => TypeOK
  BY DEF IInv
<1>2. QED
  BY IInvInit, IInvStep, <1>1, PTL DEF Spec

(***************************************************************************)
(* AgreementHolds: concurrent createOrGetJob calls for one job name that   *)
(* succeed all return the same job while no deleteJob runs, whatever the   *)
(* interleaving of their Get, Create and second Get.                       *)
(***************************************************************************)
THEOREM AgreementHolds == Spec => []Agreement
<1>1. IInv => Agreement
  BY DEF IInv, ReturnedIsStored, Agreement
<1>2. QED
  BY IInvInit, IInvStep, <1>1, PTL DEF Spec
(***************************************************************************)
(* A step that moves call c between the pending places of                 *)
(* createOrGetJob (start, get, create, reget) leaves the registry's view  *)
(* of every call unchanged.                                                *)
(***************************************************************************)
LEMMA PendingMove ==
    ASSUME TypeOK, NEW c \in Callers,
           pc[c] \in {"start", "get", "create", "reget"},
           NEW s \in {"get", "create", "reget"},
           pc' = [pc EXCEPT ![c] = s]
    PROVE  Status' = Status
BY DEF TypeOK, Status

(***************************************************************************)
(* A step that ends call c in place s sets the registry's view of c to s  *)
(* and leaves every other call's.                                          *)
(***************************************************************************)
LEMMA EndMove ==
    ASSUME TypeOK, NEW c \in Callers,
           NEW s \in {"ok", "error", "panic"},
           pc' = [pc EXCEPT ![c] = s]
    PROVE  Status' = [Status EXCEPT ![c] = s]
BY DEF TypeOK, Status

(***************************************************************************)
(* RegistryRefinement: createOrGetJob and deleteJob, with every           *)
(* interleaving of their API calls, implement JobRegistry: each call      *)
(* takes effect at one step (the Get or Create that returns, the error,   *)
(* or the panic) and every other step of it is a stutter.                  *)
(***************************************************************************)
THEOREM RegistryRefinement == Spec => ImplementsRegistry
<1>1. Init => Registry!Init
  BY DEF Init, Registry!Init, Status
<1>2. TypeOK /\ [Next]_vars => [Registry!Next]_Registry!vars
  <2> SUFFICES ASSUME TypeOK, [Next]_vars PROVE [Registry!Next]_Registry!vars
    OBVIOUS
  <2>1. ASSUME NEW c \in Callers, Start(c) PROVE [Registry!Next]_Registry!vars
    <3>1. CASE PodSpec = "full"
      BY <2>1, <3>1, PendingMove DEF Start, Goto, Registry!vars
    <3>2. CASE PodSpec # "full"
      <4>1. Registry!Crash(c)
        BY <2>1, <3>2, EndMove DEF Start, Goto, Registry!Crash, Status
      <4>2. QED
        BY <4>1 DEF Registry!Next
    <3>3. QED
      BY <3>1, <3>2
  <2>2. ASSUME NEW c \in Callers, Get(c) PROVE [Registry!Next]_Registry!vars
    <3>1. CASE job # NoJob /\ Returns(c, job)
      <4>1. Registry!GetOrCreate(c)
        BY <2>2, <3>1, EndMove DEF Get, Returns, Registry!GetOrCreate, Status
      <4>2. QED
        BY <4>1 DEF Registry!Next
    <3>2. CASE job = NoJob /\ Goto(c, "create") /\ UNCHANGED result
      BY <2>2, <3>2, PendingMove DEF Get, Goto, Registry!vars
    <3>3. CASE Goto(c, "error") /\ UNCHANGED result
      <4>1. Registry!Fail(c)
        BY <2>2, <3>3, EndMove DEF Get, Goto, Registry!Fail, Status
      <4>2. QED
        BY <4>1 DEF Registry!Next
    <3>4. QED
      BY <2>2, <3>1, <3>2, <3>3 DEF Get
  <2>3. ASSUME NEW c \in Callers, Create(c) PROVE [Registry!Next]_Registry!vars
    <3>1. CASE job = NoJob /\ job' = c /\ Returns(c, c)
      <4>1. Registry!GetOrCreate(c)
        BY <2>3, <3>1, EndMove DEF Create, Returns, Registry!GetOrCreate, Status
      <4>2. QED
        BY <4>1 DEF Registry!Next
    <3>2. CASE job # NoJob /\ Goto(c, "reget") /\ UNCHANGED <<result, job>>
      BY <2>3, <3>2, PendingMove DEF Create, Goto, Registry!vars
    <3>3. CASE Goto(c, "error") /\ UNCHANGED <<result, job>>
      <4>1. Registry!Fail(c)
        BY <2>3, <3>3, EndMove DEF Create, Goto, Registry!Fail, Status
      <4>2. QED
        BY <4>1 DEF Registry!Next
    <3>4. QED
      BY <2>3, <3>1, <3>2, <3>3 DEF Create
  <2>4. ASSUME NEW c \in Callers, Reget(c) PROVE [Registry!Next]_Registry!vars
    <3>1. CASE job # NoJob /\ Returns(c, job)
      <4>1. Registry!GetOrCreate(c)
        BY <2>4, <3>1, EndMove DEF Reget, Returns, Registry!GetOrCreate, Status
      <4>2. QED
        BY <4>1 DEF Registry!Next
    <3>2. CASE Goto(c, "error") /\ UNCHANGED result
      <4>1. Registry!Fail(c)
        BY <2>4, <3>2, EndMove DEF Reget, Goto, Registry!Fail, Status
      <4>2. QED
        BY <4>1 DEF Registry!Next
    <3>3. QED
      BY <2>4, <3>1, <3>2 DEF Reget
  <2>5. ASSUME NEW d \in Deleters, Delete(d) PROVE [Registry!Next]_Registry!vars
    <3>1. Registry!Delete(d)
      BY <2>5 DEF Delete, Registry!Delete, Status
    <3>2. QED
      BY <3>1 DEF Registry!Next
  <2>6. CASE UNCHANGED vars
    BY <2>6 DEF vars, Registry!vars, Status
  <2>7. QED
    BY <2>1, <2>2, <2>3, <2>4, <2>5, <2>6 DEF Next
<1>3. QED
  BY <1>1, <1>2, TypeCorrect, PTL DEF Spec, ImplementsRegistry, Registry!Spec
=============================================================================
