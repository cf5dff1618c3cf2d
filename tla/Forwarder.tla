----------------------------- MODULE Forwarder ------------------------------
(***************************************************************************)
(* The forwarding path of one function in the agent (functionHandler.go): *)
(* RetryingRoundTripper.RoundTrip, which loops over at most maxRetries    *)
(* rounds, resolving the function's service address with getServiceEntry  *)
(* whenever its retryCounter is 0, forwarding the request and classifying *)
(* the transport error; and getServiceEntry, which for every executor     *)
(* type but poolmgr consults the service cache and then resolves through  *)
(* the svcAddrUpdateThrottler (single-flight keyed by the function).      *)
(*                                                                         *)
(* The service cache of this build is stubbed: getServiceEntryFromCache   *)
(* always returns (nil, nil), addServiceEntryToCache and                  *)
(* removeServiceEntryFromCache do nothing.  The model keeps these calls   *)
(* as what they do: a cache lookup is always a miss, a follower of the    *)
(* throttler reads a nil address, an insert or an eviction changes        *)
(* nothing.  The throttler itself (pkg/throttler) is not in this          *)
(* repository and follows section 4.3 of the design: one leader per key,  *)
(* followers wait for it and then run the callback with                   *)
(* firstToTheLock = FALSE, and a follower whose wait exceeds              *)
(* svcAddrUpdateTimeout fails.                                            *)
(*                                                                         *)
(* Durations (timeout, backoff, exponent) and the request rewrite are     *)
(* abstracted: only the round counter, retryCounter, the held address and *)
(* the way each call ends are kept.                                        *)
(***************************************************************************)
EXTENDS Naturals, FiniteSets

CONSTANTS
    Reqs,          \* concurrent RoundTrip calls for the function
    Addrs,         \* service addresses the executor may return
    MaxRetries,    \* tsRoundTripperParams.maxRetries
    SvcAddrRetry,  \* tsRoundTripperParams.svcAddrRetryCount
    Poolmgr,       \* ExecutorType = ExecutorTypePoolmgr
    NoAddr,        \* a nil *url.URL / no throttler leader
    Disconnects    \* the calls whose client may disconnect (a bound)

ASSUME ForwarderAssumption ==
    /\ MaxRetries \in Nat \ {0}
    /\ SvcAddrRetry \in Nat \ {0}
    /\ Poolmgr \in BOOLEAN
    /\ NoAddr \notin Addrs \cup Reqs
    /\ Disconnects \subseteq Reqs

VARIABLES
    pc,         \* pc[r]: where RoundTrip call r is
    iter,       \* iter[r]: the loop index i
    rc,         \* rc[r]: retryCounter
    url,        \* url[r]: roundTripper.serviceURL
    fromCache,  \* fromCache[r]: roundTripper.urlFromCache
    untaps,     \* untaps[r]: deferred unTapService goroutines registered
    outcome,    \* outcome[r]: how RoundTrip returned
    leader,     \* the throttler's lock holder for the function's key
    cancelled   \* cancelled[r]: the client of call r has disconnected

vars == <<pc, iter, rc, url, fromCache, untaps, outcome, leader, cancelled>>

PC == {"top", "executor", "wait", "resume", "forward", "backoff", "done"}

\* "response": a backend response; "tooMany": the 429 resolution error;
\* "resolveError": any other resolution error (500, or the debug response);
\* "transportError": a transport error returned as is; "exhausted": the
\* error "Unable to get service url for connection".
Outcome == {"none", "response", "tooMany", "resolveError",
            "transportError", "exhausted"}

\* The outcomes of one otelRoundTripper.RoundTrip call, as network.Adapter
\* classifies them.
Transport == {"ok", "dialTimeout", "dialOther", "nonDial"}

TypeOK ==
    /\ pc        \in [Reqs -> PC]
    /\ iter      \in [Reqs -> 0..MaxRetries]
    /\ rc        \in [Reqs -> 0..(SvcAddrRetry - 1)]
    /\ url       \in [Reqs -> Addrs \cup {NoAddr}]
    /\ fromCache \in [Reqs -> BOOLEAN]
    /\ untaps    \in [Reqs -> 0..MaxRetries]
    /\ outcome   \in [Reqs -> Outcome]
    /\ leader    \in Reqs \cup {NoAddr}
    /\ cancelled \in [Reqs -> BOOLEAN]

Init ==
    /\ pc        = [r \in Reqs |-> "top"]
    /\ iter      = [r \in Reqs |-> 0]
    /\ rc        = [r \in Reqs |-> 0]
    /\ url       = [r \in Reqs |-> NoAddr]
    /\ fromCache = [r \in Reqs |-> FALSE]
    /\ untaps    = [r \in Reqs |-> 0]
    /\ outcome   = [r \in Reqs |-> "none"]
    /\ leader    = NoAddr
    /\ cancelled = [r \in Reqs |-> FALSE]

Return(r, o) ==
    /\ pc'      = [pc EXCEPT ![r] = "done"]
    /\ outcome' = [outcome EXCEPT ![r] = o]

\* time.Sleep(executingTimeout) returns: the backoff grows and the for
\* loop's i++ starts the next round.
NextRound(r) ==
    /\ pc'   = [pc EXCEPT ![r] = "top"]
    /\ iter' = [iter EXCEPT ![r] = @ + 1]

\* The call r leaves the throttler for s: if r held the key's lock, the
\* throttler releases it and its waiting followers go on.
Release(r, s) ==
    /\ leader' = IF leader = r THEN NoAddr ELSE leader
    /\ pc' = [k \in Reqs |->
                IF k = r THEN s
                ELSE IF pc[k] = "wait" /\ leader = r THEN "resume"
                ELSE pc[k]]

\* getServiceEntryFromCache: the lookup in fh.fmap is commented out, and
\* the stub returns its zero results, a nil address and no error.
ServiceEntryFromCache == NoAddr

-----------------------------------------------------------------------------
(* Mutants: the definitions below with a plausible bug each.               *)

MutResolveNoLock(r) ==
    /\ pc[r] = "top" /\ iter[r] < MaxRetries /\ rc[r] = 0
    /\ leader' = r
    /\ pc' = [pc EXCEPT ![r] = "executor"]
    /\ UNCHANGED <<iter, rc, url, fromCache, untaps, outcome, cancelled>>

MutResumeForwards(r) ==
    /\ pc[r] = "resume"
    /\ url' = [url EXCEPT ![r] = ServiceEntryFromCache]
    /\ fromCache' = [fromCache EXCEPT ![r] = TRUE]
    /\ pc' = [pc EXCEPT ![r] = "forward"]
    /\ UNCHANGED <<iter, rc, untaps, outcome, leader, cancelled>>

MutCounterOffByOne(c, t) ==
    LET n == IF t = "dialTimeout" THEN c + 1 ELSE c
    IN  IF n > SvcAddrRetry THEN 0 ELSE n

MutReplyKeepsLock(r) ==
    /\ pc[r] = "executor"
    /\ \/ \E a \in Addrs :
            /\ ~cancelled[r]
            /\ url' = [url EXCEPT ![r] = a]
            /\ fromCache' = [fromCache EXCEPT ![r] = FALSE]
            /\ untaps' = [untaps EXCEPT ![r] = IF Poolmgr THEN @ + 1 ELSE @]
            /\ Release(r, "forward")
            /\ UNCHANGED <<iter, rc, outcome, cancelled>>
       \/ \E o \in {"tooMany", "resolveError"} :
            /\ pc' = [pc EXCEPT ![r] = "done"]
            /\ outcome' = [outcome EXCEPT ![r] = o]
            /\ UNCHANGED <<iter, rc, url, fromCache, untaps, leader, cancelled>>

\* retryCounter after a dial error of class t: incremented on a timeout,
\* reset to 0 (after removeServiceEntryFromCache) once at the threshold.
NewRetryCounter(c, t) ==
    LET n == IF t = "dialTimeout" THEN c + 1 ELSE c
    IN  IF n >= SvcAddrRetry THEN 0 ELSE n

\* The loop runs a round without resolving: retryCounter is not 0, so the
\* address of the previous round is used again.
ReadyToForward(r) ==
    \/ pc[r] = "forward"
    \/ pc[r] = "top" /\ iter[r] < MaxRetries /\ rc[r] # 0

-----------------------------------------------------------------------------
(* Actions.                                                                *)

\* The for loop ends after maxRetries rounds.
Exhausted(r) ==
    /\ pc[r] = "top"
    /\ iter[r] >= MaxRetries
    /\ Return(r, "exhausted")
    /\ UNCHANGED <<iter, rc, url, fromCache, untaps, leader, cancelled>>

\* retryCounter = 0: RoundTrip calls getServiceEntry.  Poolmgr goes to the
\* executor directly; otherwise the cache lookup misses (the stub returns
\* nil, nil) and RunOnce makes r the leader if the key is free, a waiting
\* follower if not.
Resolve(r) ==
    /\ pc[r] = "top"
    /\ iter[r] < MaxRetries
    /\ rc[r] = 0
    /\ IF Poolmgr \/ leader = NoAddr
         THEN /\ pc' = [pc EXCEPT ![r] = "executor"]
              /\ leader' = IF Poolmgr THEN leader ELSE r
         ELSE /\ pc' = [pc EXCEPT ![r] = "wait"]
              /\ UNCHANGED leader
    /\ UNCHANGED <<iter, rc, url, fromCache, untaps, outcome, cancelled>>

\* getServiceEntryFromExecutor returns.  An address: addServiceEntryToCache
\* (a no-op), the throttler releases the key, RoundTrip holds the address
\* with urlFromCache = FALSE and, for poolmgr, defers an unTapService.  An
\* error: the throttler releases the key and RoundTrip returns it, as is
\* for 429 and as a 500 (or the debug response) otherwise.  The call runs
\* under the request's ctx, so once that is cancelled it can only fail.
ExecutorReply(r) ==
    /\ pc[r] = "executor"
    /\ \/ \E a \in Addrs :
            /\ ~cancelled[r]
            /\ url' = [url EXCEPT ![r] = a]
            /\ fromCache' = [fromCache EXCEPT ![r] = FALSE]
            /\ untaps' = [untaps EXCEPT ![r] = IF Poolmgr THEN @ + 1 ELSE @]
            /\ Release(r, "forward")
            /\ UNCHANGED <<iter, rc, outcome, cancelled>>
       \/ \E o \in {"tooMany", "resolveError"} :
            /\ Release(r, "done")
            /\ outcome' = [outcome EXCEPT ![r] = o]
            /\ UNCHANGED <<iter, rc, url, fromCache, untaps, cancelled>>

\* A follower runs the RunOnce callback with firstToTheLock = FALSE: it
\* reads the cache (nil, nil) and returns the record {nil, cacheHit: true};
\* RoundTrip finds serviceURL == nil and sleeps (line 344).
Resume(r) ==
    /\ pc[r] = "resume"
    /\ url' = [url EXCEPT ![r] = ServiceEntryFromCache]
    /\ fromCache' = [fromCache EXCEPT ![r] = TRUE]
    /\ pc' = [pc EXCEPT ![r] = "backoff"]
    /\ UNCHANGED <<iter, rc, untaps, outcome, leader, cancelled>>

\* A follower's wait exceeds svcAddrUpdateTimeout: RunOnce fails, and
\* RoundTrip returns the error.
ThrottleTimeout(r) ==
    /\ pc[r] = "wait"
    /\ Return(r, "resolveError")
    /\ UNCHANGED <<iter, rc, url, fromCache, untaps, leader, cancelled>>

\* One round trip to the held address, and the classification of its
\* error: success returns the response; any error in the last round, or
\* an error that is not a dial error, is returned; a dial error updates
\* retryCounter and sleeps (line 479).  Once the request's context is
\* cancelled, the transport returns context.Canceled before dialling,
\* which is not a dial error.
Forward(r) ==
    /\ ReadyToForward(r)
    /\ \E t \in Transport :
         /\ cancelled[r] => t = "nonDial"
         /\ \/ /\ t = "ok" \/ t = "nonDial" \/ iter[r] >= MaxRetries - 1
               /\ Return(r, IF t = "ok" THEN "response" ELSE "transportError")
               /\ UNCHANGED <<iter, rc>>
            \/ /\ t \in {"dialTimeout", "dialOther"}
               /\ iter[r] < MaxRetries - 1
               /\ rc' = [rc EXCEPT ![r] = NewRetryCounter(@, t)]
               /\ pc' = [pc EXCEPT ![r] = "backoff"]
               /\ UNCHANGED <<iter, outcome>>
    /\ UNCHANGED <<url, fromCache, untaps, leader, cancelled>>

\* time.Sleep(executingTimeout) ends: it does not watch the request's
\* context, so it runs to its end whether or not the client has gone.
Wake(r) ==
    /\ pc[r] = "backoff"
    /\ NextRound(r)
    /\ UNCHANGED <<rc, url, fromCache, untaps, outcome, leader, cancelled>>

\* The client disconnects: the request's context (ctx, and every context
\* derived from it by setContext or for the executor call) is cancelled.
Cancel(r) ==
    /\ r \in Disconnects
    /\ pc[r] # "done"
    /\ ~cancelled[r]
    /\ cancelled' = [cancelled EXCEPT ![r] = TRUE]
    /\ UNCHANGED <<pc, iter, rc, url, fromCache, untaps, outcome, leader>>

\* One step of RoundTrip call r.
Call(r) ==
    \/ Exhausted(r)
    \/ Resolve(r)
    \/ ExecutorReply(r)
    \/ Resume(r)
    \/ ThrottleTimeout(r)
    \/ Forward(r)
    \/ Wake(r)

Next == \E r \in Reqs : Call(r) \/ Cancel(r)

\* Every RoundTrip goroutine keeps being scheduled, its sleeps end, and
\* the executor answers every call (the call carries the function's
\* timeout or the request context).  Neither a follower's throttler
\* timeout nor a client's disconnection is assumed.
Fairness ==
    \A r \in Reqs :
        /\ WF_vars(Exhausted(r))
        /\ WF_vars(Resolve(r))
        /\ WF_vars(ExecutorReply(r))
        /\ WF_vars(Resume(r))
        /\ WF_vars(Forward(r))
        /\ WF_vars(Wake(r))

Spec == Init /\ [][Next]_vars /\ Fairness

-----------------------------------------------------------------------------
(* Properties.                                                             *)

\* Single flight (getServiceEntry through RunOnce): for every executor type
\* but poolmgr, at most one RoundTrip of the function is calling the
\* executor at any time, however the calls and their retries interleave.
SingleFlight ==
    ~Poolmgr => Cardinality({r \in Reqs : pc[r] = "executor"}) <= 1

\* RoundTrip never rewrites and forwards a request with a nil serviceURL:
\* an address is held whenever the next round forwards, which is also the
\* case whenever retryCounter is not 0 and the resolution is skipped.
AddressHeld ==
    \A r \in Reqs : (pc[r] = "forward" \/ rc[r] # 0) => url[r] # NoAddr

\* Every RoundTrip returns: no follower waits forever on the throttler and
\* no round loops without advancing i.
AllReturn ==
    \A r \in Reqs : <>(pc[r] = "done")

\* Section 8 of the design: the callers that share a single-flight
\* resolution receive the leader's address (urlFromCache = TRUE comes with
\* an address).
FollowerGetsAddress ==
    \A r \in Reqs : fromCache[r] => url[r] # NoAddr
\* Section 5 of the design: client cancellation wins immediately; every
\* wait, the backoff sleep included, unblocks when the request's context
\* is cancelled.  So once its client has disconnected, RoundTrip starts
\* no further round of its retry loop.
CancelStopsRetries ==
    [][\A r \in Reqs : cancelled[r] => iter'[r] = iter[r]]_vars
=============================================================================
