---------------------------- MODULE FindCeilProofs ----------------------------
(***************************************************************************)
(* Proofs about FindCeil, for every MaxLen and MaxWeight: findCeil, run on *)
(* a draw of getCanaryBackend, never returns "" and returns a variant whose *)
(* prefix sum reaches the draw, whatever the list.                         *)
(*                                                                         *)
(* The search keeps the draw at or below the prefix sum of entry high      *)
(* (Bracketed): the draw is at most the total, and high moves only to a    *)
(* mid whose sum exceeds the draw.  When the loop exits with low >= high,  *)
(* the sums increasing makes entry low's sum at least entry high's, so     *)
(* the draw is reached.  The off-by-one of mid shows as a panic or as a   *)
(* loop, never as a wrong variant.  Low moves only past entries whose sum *)
(* is at most the draw (PassedBelow), which bounds how far a tie can push *)
(* the result.                                                            *)
(***************************************************************************)
EXTENDS FindCeil, TLAPS

USE FindCeilAssumption

\* While the loop runs, entry high exists and its prefix sum is at least
\* the draw.
Bracketed ==
    pc = "loop" => high < Len(sums) /\ draw <= sums[high + 1]

\* While the loop runs, low has only moved past entries whose prefix sum
\* is at most the draw, and low is at most the length of the list.
PassedBelow ==
    pc = "loop" => /\ low <= Len(sums)
                   /\ \A i \in 0..(low - 1) : sums[i + 1] <= draw

IInv ==
    /\ TypeOK /\ Bracketed /\ SelectsCeiling
    /\ PassedBelow /\ CeilingUpToTie

\* What membership in Lists gives: a non-empty sequence of sums in
\* 1..Total that increase strictly.
LEMMA ListFacts ==
    ASSUME NEW s \in Lists
    PROVE  /\ Len(s) \in 1..MaxLen
           /\ s \in [1..Len(s) -> 1..Total]
           /\ Increasing(s)
<1>1. PICK n \in 1..MaxLen : s \in [1..n -> 1..Total]
  BY DEF Lists
<1>2. Len(s) = n
  BY <1>1
<1>3. Increasing(s)
  BY DEF Lists
<1>4. QED
  BY <1>1, <1>2, <1>3

\* Total is a positive number.
LEMMA TotalNat == Total \in Nat \ {0}
BY DEF Total

LEMMA IInvInit == Init => IInv
<1> SUFFICES ASSUME Init PROVE IInv
  OBVIOUS
<1>1. Len(sums) \in 1..MaxLen
  BY ListFacts DEF Init
<1>2. QED
  BY <1>1, TotalNat DEF Init, IInv, TypeOK, Bracketed, SelectsCeiling,
                        PassedBelow, CeilingUpToTie

LEMMA IInvStep == IInv /\ [Next]_vars => IInv'
<1> SUFFICES ASSUME IInv, [Next]_vars PROVE IInv'
  OBVIOUS
<1>1. /\ Len(sums) \in 1..MaxLen
      /\ sums \in [1..Len(sums) -> 1..Total]
      /\ Increasing(sums)
  BY ListFacts DEF IInv, TypeOK
<1> USE TotalNat DEF IInv, TypeOK, Bracketed, SelectsCeiling, PassedBelow,
                    CeilingUpToTie
<1>2. CASE Draw
  BY <1>1, <1>2 DEF Draw
<1>3. CASE Step
  <2> DEFINE mid == Mid(low, high)
  <2>1. mid \in Nat /\ low <= mid
    BY <1>3 DEF Step, Mid
  <2>2. CASE mid >= Len(sums)
    BY <1>3, <2>2 DEF Step
  <2>3. CASE mid < Len(sums) /\ draw >= sums[mid + 1]
    \* Every entry up to mid has a sum at most mid's, so at most the draw.
    <3>1. \A i \in 0..mid : sums[i + 1] <= draw
      <4>1. SUFFICES ASSUME NEW i \in 0..mid PROVE sums[i + 1] <= draw
        OBVIOUS
      <4>2. CASE i = mid
        BY <2>3, <4>2
      <4>3. CASE i < mid
        <5>1. sums[i + 1] < sums[mid + 1]
          BY <1>1, <2>1, <2>3, <4>3 DEF Increasing
        <5>2. QED
          BY <1>1, <2>1, <2>3, <5>1
      <4>4. QED
        BY <2>1, <4>2, <4>3
    <3>2. /\ low' = mid + 1
          /\ UNCHANGED <<sums, draw, high, pc, chosen>>
      BY <1>1, <1>3, <2>1, <2>3 DEF Step
    <3>3. low < high /\ pc = "loop"
      BY <1>3 DEF Step
    <3>4. QED
      BY <1>1, <2>1, <2>3, <3>1, <3>2, <3>3
  <2>4. CASE mid < Len(sums) /\ draw < sums[mid + 1]
    BY <1>1, <1>3, <2>1, <2>4 DEF Step
  <2>5. QED
    BY <1>1, <2>1, <2>2, <2>3, <2>4
<1>4. CASE Exit
  <2>1. CASE low >= Len(sums)
    BY <1>4, <2>1 DEF Exit
  <2>2. CASE low < Len(sums)
    \* Entry low comes at or after entry high, so its sum is no smaller.
    <3>1. sums[high + 1] <= sums[low + 1]
      <4>1. pc = "loop" /\ low >= high
        BY <1>4 DEF Exit
      <4>2. CASE low = high
        BY <1>1, <2>2, <4>2
      <4>3. CASE low > high
        BY <1>1, <2>2, <4>1, <4>3 DEF Increasing
      <4>4. QED
        BY <4>1, <4>2, <4>3
    <3>2. draw <= sums[low + 1]
      BY <1>1, <1>4, <2>2, <3>1 DEF Exit
    <3>3. /\ pc' = "done"
          /\ chosen' = low
          /\ UNCHANGED <<sums, draw, low, high>>
      BY <1>4, <2>2, <3>2 DEF Exit
    <3>4. \A i \in 0..(low - 1) : sums[i + 1] <= draw
      BY <1>4 DEF Exit
    <3>5. QED
      BY <1>1, <2>2, <3>2, <3>3, <3>4
  <2>3. QED
    BY <2>1, <2>2
<1>5. CASE UNCHANGED vars
  BY <1>5 DEF vars
<1>6. QED
  BY <1>2, <1>3, <1>4, <1>5 DEF Next

\* findCeil's type: every variable stays in its range (in particular the
\* draw never exceeds the total weight and low, high stay within MaxLen).
THEOREM TypeCorrect == Spec => []TypeOK
BY IInvInit, IInvStep, PTL DEF Spec, IInv

\* When findCeil returns, it returns a variant, never "", whose prefix sum
\* reaches the draw of getCanaryBackend: for every list of variants.
THEOREM SelectsCeilingHolds == Spec => []SelectsCeiling
BY IInvInit, IInvStep, PTL DEF Spec, IInv

\* findCeil never returns a variant past one whose prefix sum exceeds the
\* draw: with low + high/2 as written, the result is the lowest ceiling or,
\* on a tie with its prefix sum, the next entry, for every list.
THEOREM CeilingUpToTieHolds == Spec => []CeilingUpToTie
BY IInvInit, IInvStep, PTL DEF Spec, IInv
=============================================================================
