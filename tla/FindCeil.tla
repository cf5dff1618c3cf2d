------------------------------ MODULE FindCeil -------------------------------
(***************************************************************************)
(* Canary selection in the agent (functionHandler.go): getCanaryBackend   *)
(* draws a number in [0, total weight] and findCeil binary-searches the    *)
(* list of variants by their prefix sums.  One call is one behaviour: the  *)
(* list is chosen in Init, the draw by the first step, and every further   *)
(* step is one iteration of findCeil's loop, so that a loop that makes no  *)
(* progress or an index out of range shows as such.                        *)
(*                                                                         *)
(* The list (fnWeightDistributionList) is built outside this repository;  *)
(* following section 3 of the design, its weights are positive, so the     *)
(* prefix sums increase strictly.  Indices are Go's, from 0; sums[i + 1]   *)
(* is wtDistrList[i].sumPrefix.                                            *)
(***************************************************************************)
EXTENDS Naturals, Sequences

CONSTANTS
    MaxLen,     \* the longest variant list
    MaxWeight,  \* the largest weight of a variant
    NoVariant   \* the empty name "" that findCeil returns when nothing fits

ASSUME FindCeilAssumption ==
    /\ MaxLen \in Nat \ {0}
    /\ MaxWeight \in Nat \ {0}
    /\ NoVariant \notin Nat

VARIABLES
    sums,    \* the prefix sums of the variant list
    draw,    \* randomNumber
    low,     \* findCeil's low
    high,    \* findCeil's high
    pc,      \* "draw", "loop", "done" or "panic" (index out of range)
    chosen   \* the index of the variant returned, or NoVariant

vars == <<sums, draw, low, high, pc, chosen>>

Total == MaxLen * MaxWeight

\* Section 3: prefix sums of positive weights increase strictly.
Increasing(s) == \A i, j \in 1..Len(s) : i < j => s[i] < s[j]

\* The variant lists, by their prefix sums: one to MaxLen variants, each
\* of weight 1..MaxWeight (the first sum, and every difference of two
\* consecutive sums, is a weight).
Lists ==
    {s \in UNION {[1..n -> 1..Total] : n \in 1..MaxLen} :
        /\ s[1] <= MaxWeight
        /\ \A i \in 1..(Len(s) - 1) : s[i + 1] - s[i] <= MaxWeight
        /\ Increasing(s)}

TypeOK ==
    /\ sums   \in Lists
    /\ draw   \in 0..Total
    /\ low    \in 0..MaxLen
    /\ high   \in 0..MaxLen
    /\ pc     \in {"draw", "loop", "done", "panic"}
    /\ chosen \in 0..(MaxLen - 1) \cup {NoVariant}

Init ==
    /\ sums \in Lists
    /\ draw = 0
    /\ low = 0
    /\ high = 0
    /\ pc = "draw"
    /\ chosen = NoVariant

\* The reference of section 4.5: the lowest index whose prefix sum is at
\* least the draw.
LowestCeil(d, s) ==
    IF \E i \in 1..Len(s) : s[i] >= d
      THEN CHOOSE i \in 0..(Len(s) - 1) :
               /\ s[i + 1] >= d
               /\ \A k \in 0..(i - 1) : s[k + 1] < d
      ELSE NoVariant

-----------------------------------------------------------------------------
(* Mutants: the definitions below with a plausible bug each.               *)

MutDrawPastTotal ==
    /\ pc = "draw"
    /\ draw' \in 0..(sums[Len(sums)] + 1)
    /\ low' = 0
    /\ high' = Len(sums) - 1
    /\ pc' = "loop"
    /\ UNCHANGED <<sums, chosen>>

MutExitSwapped ==
    /\ pc = "loop"
    /\ low >= high
    /\ IF low >= Len(sums)
         THEN pc' = "panic" /\ UNCHANGED chosen
         ELSE /\ pc' = "done"
              /\ chosen' = IF draw >= sums[low + 1] THEN low ELSE NoVariant
    /\ UNCHANGED <<sums, draw, low, high>>

\* findCeil's comparison written the other way round.
MutStepReversed ==
    /\ pc = "loop"
    /\ low < high
    /\ LET mid == low + high \div 2 IN
         IF mid >= Len(sums)
           THEN pc' = "panic" /\ UNCHANGED <<low, high>>
           ELSE /\ IF sums[mid + 1] >= draw
                     THEN low' = mid + 1 /\ UNCHANGED high
                     ELSE high' = mid /\ UNCHANGED low
                /\ UNCHANGED pc
    /\ UNCHANGED <<sums, draw, chosen>>

-----------------------------------------------------------------------------
(* Actions.                                                                *)

\* mid := low + high/2, as written (Go's / on non-negative ints truncates).
Mid(l, h) == l + h \div 2

\* getCanaryBackend: rand.Intn(total + 1), then findCeil's low and high.
Draw ==
    /\ pc = "draw"
    /\ draw' \in 0..sums[Len(sums)]
    /\ low' = 0
    /\ high' = Len(sums) - 1
    /\ pc' = "loop"
    /\ UNCHANGED <<sums, chosen>>

\* One iteration of the for loop while low < high; indexing past the list
\* panics.
Step ==
    /\ pc = "loop"
    /\ low < high
    /\ LET mid == Mid(low, high) IN
         IF mid >= Len(sums)
           THEN pc' = "panic" /\ UNCHANGED <<low, high>>
           ELSE /\ IF draw >= sums[mid + 1]
                     THEN low' = mid + 1 /\ UNCHANGED high
                     ELSE high' = mid /\ UNCHANGED low
                /\ UNCHANGED pc
    /\ UNCHANGED <<sums, draw, chosen>>

\* The loop breaks: wtDistrList[low] is returned if its prefix sum reaches
\* the draw, "" otherwise.
Exit ==
    /\ pc = "loop"
    /\ low >= high
    /\ IF low >= Len(sums)
         THEN pc' = "panic" /\ UNCHANGED chosen
         ELSE /\ pc' = "done"
              /\ chosen' = IF sums[low + 1] >= draw THEN low ELSE NoVariant
    /\ UNCHANGED <<sums, draw, low, high>>

Next == Draw \/ Step \/ Exit

\* The goroutine of the request runs on.
Spec == Init /\ [][Next]_vars /\ WF_vars(Next)

-----------------------------------------------------------------------------
(* Properties.                                                             *)

\* When findCeil returns, it returns a variant, never "" (for which
\* getCanaryBackend would hand on fnMap[""], a nil function), and that
\* variant's prefix sum reaches the draw.
SelectsCeiling ==
    pc = "done" => chosen # NoVariant /\ sums[chosen + 1] >= draw

\* findCeil's search never moves past a variant whose prefix sum exceeds
\* the draw: every variant before the one returned has a prefix sum at
\* most the draw.  With SelectsCeiling, the variant returned is the lowest
\* ceiling of section 4.5 or, only when the draw equals that ceiling's
\* prefix sum, the entry just after it; never one further on.
CeilingUpToTie ==
    pc = "done" => \A i \in 0..(chosen - 1) : sums[i + 1] <= draw

\* Section 4.5: when findCeil returns, it returns the lowest-indexed
\* variant whose prefix sum is at least the draw (a draw equal to a prefix
\* sum selects that entry, not the next).
LowestCeiling ==
    pc = "done" => chosen = LowestCeil(draw, sums)

\* findCeil indexes wtDistrList only within the list: neither the loop's
\* wtDistrList[mid] (line 551) nor the final wtDistrList[low] (line 557)
\* panics with an index out of range, for every list of variants.
IndexInRange ==
    pc # "panic"

\* getCanaryBackend returns: the binary search ends for every list.
SearchEnds ==
    <>(pc \in {"done", "panic"})
=============================================================================
