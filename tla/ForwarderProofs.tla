---------------------------- MODULE ForwarderProofs ----------------------------
(***************************************************************************)
(* Proofs about Forwarder, for every set of concurrent RoundTrip calls,   *)
(* every set of addresses, every maxRetries and svcAddrRetryCount, and     *)
(* both executor kinds.                                                    *)
(***************************************************************************)
EXTENDS Forwarder, FiniteSetTheorems, TLAPS

USE ForwarderAssumption

(***************************************************************************)
(* The facts the properties rest on.                                       *)
(*                                                                         *)
(* LeaderCalls: outside poolmgr, a call that is at the executor holds the *)
(* throttler's lock; the throttler hands the lock to one call at a time,  *)
(* so SingleFlight follows.                                                *)
(*                                                                         *)
(* ResolvingFresh: a call in getServiceEntry (at the executor, waiting on *)
(* the throttler or resuming after it) entered it with retryCounter 0;    *)
(* only a forward changes retryCounter.  A follower that resumes with a   *)
(* nil address therefore starts its next round resolving again, not       *)
(* forwarding, and AddressHeld is preserved.                               *)
(*                                                                         *)
(* RoundBounds: a call inside a round has a round left (i < maxRetries),  *)
(* and the poolmgr untaps it deferred are at most one per round; this     *)
(* keeps the counters within TypeOK's bounds.                              *)
(***************************************************************************)
LeaderCalls ==
    ~Poolmgr => \A r \in Reqs : pc[r] = "executor" => leader = r

ResolvingFresh ==
    \A r \in Reqs : pc[r] \in {"executor", "wait", "resume"} => rc[r] = 0

RoundBounds ==
    \A r \in Reqs :
        /\ pc[r] \in {"executor", "wait", "resume", "forward", "backoff"}
             => iter[r] < MaxRetries
        /\ pc[r] \in {"top", "executor", "wait", "resume"} => untaps[r] <= iter[r]
        /\ pc[r] \in {"forward", "backoff"} => untaps[r] <= iter[r] + 1

IInv ==
    /\ TypeOK /\ LeaderCalls /\ ResolvingFresh /\ RoundBounds /\ AddressHeld

LEMMA IInvInit == Init => IInv
BY DEF Init, IInv, TypeOK, LeaderCalls, ResolvingFresh, RoundBounds,
       AddressHeld, PC, Outcome

LEMMA IInvStep == IInv /\ [Next]_vars => IInv'
<1> SUFFICES ASSUME IInv, [Next]_vars PROVE IInv'
  OBVIOUS
<1> USE DEF IInv, TypeOK, LeaderCalls, ResolvingFresh, RoundBounds,
            AddressHeld, PC, Outcome
<1>1. ASSUME NEW r \in Reqs, Exhausted(r) PROVE IInv'
  BY <1>1 DEF Exhausted, Return
<1>2. ASSUME NEW r \in Reqs, Resolve(r) PROVE IInv'
  BY <1>2 DEF Resolve
<1>3. ASSUME NEW r \in Reqs, ExecutorReply(r) PROVE IInv'
  <2>1. /\ pc[r] = "executor"
        /\ ~Poolmgr => leader = r
        /\ untaps[r] <= iter[r] /\ iter[r] < MaxRetries
    BY <1>3 DEF ExecutorReply
  \* Release moves only r and the followers waiting on r's lock, which go
  \* to "resume"; no call other than r was at the executor.
  <2>2. ASSUME NEW s \in {"forward", "done"}, Release(r, s)
        PROVE  /\ pc'[r] = s
               /\ \A k \in Reqs \ {r} :
                     pc'[k] = IF pc[k] = "wait" /\ leader = r THEN "resume" ELSE pc[k]
               /\ pc' \in [Reqs -> PC]
               /\ leader' \in Reqs \cup {NoAddr}
               /\ \A k \in Reqs : pc'[k] = "executor" => k # r /\ pc[k] = "executor"
    BY <2>2 DEF Release
  <2>3. CASE \E a \in Addrs :
               /\ ~cancelled[r]
               /\ url' = [url EXCEPT ![r] = a]
               /\ fromCache' = [fromCache EXCEPT ![r] = FALSE]
               /\ untaps' = [untaps EXCEPT ![r] = IF Poolmgr THEN @ + 1 ELSE @]
               /\ Release(r, "forward")
               /\ UNCHANGED <<iter, rc, outcome, cancelled>>
    <3>1. PICK a \in Addrs :
               /\ ~cancelled[r]
               /\ url' = [url EXCEPT ![r] = a]
               /\ fromCache' = [fromCache EXCEPT ![r] = FALSE]
               /\ untaps' = [untaps EXCEPT ![r] = IF Poolmgr THEN @ + 1 ELSE @]
               /\ Release(r, "forward")
               /\ UNCHANGED <<iter, rc, outcome, cancelled>>
      BY <2>3
    <3>2. /\ pc'[r] = "forward"
          /\ \A k \in Reqs \ {r} :
                pc'[k] = IF pc[k] = "wait" /\ leader = r THEN "resume" ELSE pc[k]
          /\ pc' \in [Reqs -> PC]
          /\ leader' \in Reqs \cup {NoAddr}
          /\ \A k \in Reqs : pc'[k] = "executor" => k # r /\ pc[k] = "executor"
      BY <3>1, <2>2
    <3>3. TypeOK'
      <4>1. CASE Poolmgr
        <5>1. untaps' = [untaps EXCEPT ![r] = untaps[r] + 1]
          BY <3>1, <4>1, Zenon
        <5>2. untaps' \in [Reqs -> 0..MaxRetries]
          BY <2>1, <5>1
        <5>3. /\ url' \in [Reqs -> Addrs \cup {NoAddr}]
              /\ fromCache' \in [Reqs -> BOOLEAN]
          BY <3>1
        <5>4. UNCHANGED <<iter, rc, outcome, cancelled>>
          BY <3>1
        <5>5. QED
          BY <3>2, <5>2, <5>3, <5>4
      <4>2. CASE ~Poolmgr
        <5>1. untaps' = untaps
          BY <3>1, <4>2, Zenon
        <5>2. /\ url' \in [Reqs -> Addrs \cup {NoAddr}]
              /\ fromCache' \in [Reqs -> BOOLEAN]
              /\ UNCHANGED <<iter, rc, outcome, cancelled>>
          BY <3>1
        <5>3. QED
          BY <3>2, <5>1, <5>2
      <4>3. QED
        BY <4>1, <4>2
    <3>4. LeaderCalls'
      BY <2>1, <3>2
    <3>5. ResolvingFresh'
      BY <3>1, <3>2
    <3>6. RoundBounds'
      BY <2>1, <3>1, <3>2
    <3>7. AddressHeld'
      BY <3>1, <3>2
    <3>8. QED
      BY <3>3, <3>4, <3>5, <3>6, <3>7
  <2>4. CASE \E o \in {"tooMany", "resolveError"} :
               /\ Release(r, "done")
               /\ outcome' = [outcome EXCEPT ![r] = o]
               /\ UNCHANGED <<iter, rc, url, fromCache, untaps, cancelled>>
    <3>1. PICK o \in {"tooMany", "resolveError"} :
               /\ Release(r, "done")
               /\ outcome' = [outcome EXCEPT ![r] = o]
               /\ UNCHANGED <<iter, rc, url, fromCache, untaps, cancelled>>
      BY <2>4
    <3>2. /\ pc'[r] = "done"
          /\ \A k \in Reqs \ {r} :
                pc'[k] = IF pc[k] = "wait" /\ leader = r THEN "resume" ELSE pc[k]
          /\ pc' \in [Reqs -> PC]
          /\ leader' \in Reqs \cup {NoAddr}
          /\ \A k \in Reqs : pc'[k] = "executor" => k # r /\ pc[k] = "executor"
      BY <3>1, <2>2
    <3>3. TypeOK'
      BY <3>1, <3>2
    <3>4. LeaderCalls'
      BY <2>1, <3>2
    <3>5. ResolvingFresh'
      BY <3>1, <3>2
    <3>6. RoundBounds'
      BY <3>1, <3>2
    <3>7. AddressHeld'
      BY <3>1, <3>2
    <3>8. QED
      BY <3>3, <3>4, <3>5, <3>6, <3>7
  <2>5. QED
    BY <1>3, <2>3, <2>4 DEF ExecutorReply
<1>4. ASSUME NEW r \in Reqs, Resume(r) PROVE IInv'
  BY <1>4 DEF Resume, ServiceEntryFromCache
<1>5. ASSUME NEW r \in Reqs, ThrottleTimeout(r) PROVE IInv'
  BY <1>5 DEF ThrottleTimeout, Return
<1>6. ASSUME NEW r \in Reqs, Forward(r) PROVE IInv'
  BY <1>6 DEF Forward, ReadyToForward, Return, NewRetryCounter, Transport
<1>7. ASSUME NEW r \in Reqs, Wake(r) PROVE IInv'
  BY <1>7 DEF Wake, NextRound
<1>8. ASSUME NEW r \in Reqs, Cancel(r) PROVE IInv'
  BY <1>8 DEF Cancel
<1>9. CASE UNCHANGED vars
  BY <1>9 DEF vars
<1>10. QED
  BY <1>1, <1>2, <1>3, <1>4, <1>5, <1>6, <1>7, <1>8, <1>9 DEF Next, Call

(***************************************************************************)
(* SingleFlightHolds: outside poolmgr, at most one RoundTrip of the       *)
(* function calls the executor at any time, for any number of concurrent  *)
(* calls and any retry settings.  The callers at the executor are among   *)
(* the throttler's lock holder (LeaderCalls), a set of at most one.        *)
(***************************************************************************)
THEOREM SingleFlightHolds == Spec => []SingleFlight
<1>1. IInv => SingleFlight
  <2> SUFFICES ASSUME IInv, ~Poolmgr
               PROVE  Cardinality({r \in Reqs : pc[r] = "executor"}) <= 1
    BY DEF SingleFlight
  <2>1. {r \in Reqs : pc[r] = "executor"} \subseteq {leader}
    BY DEF IInv, LeaderCalls
  <2>2. IsFiniteSet({leader}) /\ Cardinality({leader}) = 1
    BY FS_Singleton
  <2>3. QED
    BY <2>1, <2>2, FS_Subset
<1>2. QED
  BY IInvInit, IInvStep, <1>1, PTL DEF Spec

(***************************************************************************)
(* AddressHeldHolds: RoundTrip never forwards with a nil serviceURL, and  *)
(* keeps an address whenever retryCounter is not 0, for every setting.    *)
(* It needs ResolvingFresh: a follower comes back from the throttler with *)
(* a nil address but with retryCounter 0, so it resolves again.           *)
(***************************************************************************)
THEOREM AddressHeldHolds == Spec => []AddressHeld
<1>1. IInv => AddressHeld
  BY DEF IInv
<1>2. QED
  BY IInvInit, IInvStep, <1>1, PTL DEF Spec

(***************************************************************************)
(* TypeCorrect: the round counter, retryCounter (below                     *)
(* svcAddrRetryCount) and the deferred untaps stay within their bounds.    *)
(***************************************************************************)
THEOREM TypeCorrect == Spec => []TypeOK
<1>1. IInv => TypeOK
  BY DEF IInv
<1>2. QED
  BY IInvInit, IInvStep, <1>1, PTL DEF Spec
=============================================================================
