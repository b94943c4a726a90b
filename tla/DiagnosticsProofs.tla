------------------------- MODULE DiagnosticsProofs -------------------------
(***************************************************************************)
(* Proofs about Diagnostics for any finite set of callbacks and any peaks. *)
(***************************************************************************)
EXTENDS Diagnostics, FiniteSetTheorems, TLAPS

-----------------------------------------------------------------------------
\* The inductive invariant.

\* The callbacks that were counted and have not yet looked at their buffer.
Counted == {c \in Callbacks : pc[c] = "counted"}

\* Each of them may still turn out to be an overflow.
CountedFirst == overflow_count + Cardinality(Counted) <= callback_count

\* An exchange can only raise the peak, and with a sample of the buffer's.
Raising ==
  \A c \in Callbacks :
    /\ pc[c] \in {"load", "exchange"} => sample[c] \in Peaks
    /\ pc[c] = "exchange" => current[c] < sample[c]

SnapshotBehind == snapshot["peak"] <= peak

IInv == TypeOK /\ CountedFirst /\ Raising /\ PeakIsLoudest /\ SnapshotBehind

-----------------------------------------------------------------------------

LEMMA CountedFinite ==
  /\ IsFiniteSet(Counted) /\ Cardinality(Counted) \in Nat
  /\ \A c \in Callbacks : /\ IsFiniteSet(Counted \cup {c})
                          /\ IsFiniteSet(Counted \ {c})
<1>1. IsFiniteSet(Counted)
  BY DiagnosticsAssumption, FS_Subset DEF Counted
<1> QED
  BY <1>1, FS_CardinalityType, FS_AddElement, FS_RemoveElement

(* A callback that enters run_callback is one more that may overflow. *)
LEMMA Entering ==
  ASSUME TypeOK, NEW c \in Callbacks, Step(c, "out", "counted")
  PROVE  Cardinality(Counted') = Cardinality(Counted) + 1
<1>1. c \notin Counted /\ Counted' = Counted \cup {c}
  BY DEF Counted, Step, TypeOK
<1> QED
  BY <1>1, CountedFinite, FS_AddElement

(* A callback that has looked at its buffer is one less. *)
LEMMA Leaving ==
  ASSUME TypeOK, NEW c \in Callbacks, NEW to \in {"out", "load"},
         Step(c, "counted", to)
  PROVE  Cardinality(Counted') = Cardinality(Counted) - 1
<1>1. c \in Counted /\ Counted' = Counted \ {c}
  BY DEF Counted, Step, TypeOK
<1> QED
  BY <1>1, CountedFinite, FS_RemoveElement

(* Every other step of a callback leaves the count alone. *)
LEMMA Staying ==
  ASSUME TypeOK, NEW c \in Callbacks, NEW from \in {"load", "exchange"},
         NEW to \in {"out", "load", "exchange"}, Step(c, from, to)
  PROVE  Counted' = Counted
BY DEF Counted, Step, TypeOK

LEMMA InitIInv == Init => IInv
<1> SUFFICES ASSUME Init PROVE IInv
  OBVIOUS
<1>1. TypeOK
  BY DEF Init, TypeOK, Counters
<1>2. CountedFirst
  <2>1. Counted = {}
    BY DEF Init, Counted
  <2> QED
    BY <2>1, FS_EmptySet DEF Init, CountedFirst
<1>3. Raising /\ PeakIsLoudest /\ SnapshotBehind
  BY DEF Init, Raising, PeakIsLoudest, SnapshotBehind, Counters
<1> QED
  BY <1>1, <1>2, <1>3 DEF IInv

LEMMA NextIInv == IInv /\ [Next]_vars => IInv'
<1> SUFFICES ASSUME IInv, [Next]_vars PROVE IInv'
  OBVIOUS
<1> USE DiagnosticsAssumption
<1>0. TypeOK /\ CountedFirst /\ Cardinality(Counted) \in Nat
  BY CountedFinite DEF IInv
<1>1. ASSUME NEW c \in Callbacks, CountCallback(c) PROVE IInv'
  <2>1. Cardinality(Counted') = Cardinality(Counted) + 1
    BY <1>0, <1>1, Entering DEF CountCallback
  <2>2. CountedFirst'
    BY <1>0, <1>1, <2>1 DEF CountCallback, CountedFirst, TypeOK
  <2>3. TypeOK' /\ Raising' /\ PeakIsLoudest' /\ SnapshotBehind'
    BY <1>1 DEF CountCallback, Step, readVars, IInv, TypeOK, Raising, PeakIsLoudest,
       SnapshotBehind
  <2> QED
    BY <2>2, <2>3 DEF IInv
<1>2. ASSUME NEW c \in Callbacks, CountOverflow(c) PROVE IInv'
  <2>1. Cardinality(Counted') = Cardinality(Counted) - 1
    BY <1>0, <1>2, Leaving DEF CountOverflow
  <2>2. Cardinality(Counted') \in Nat
    BY <1>0, <1>2, <2>1, FS_EmptySet, CountedFinite DEF CountOverflow, Step, Counted
  <2>3. CountedFirst' /\ overflow_count' <= callback_count'
    BY <1>0, <1>2, <2>1, <2>2 DEF CountOverflow, CountedFirst, TypeOK
  <2>4. TypeOK' /\ Raising' /\ PeakIsLoudest' /\ SnapshotBehind'
    BY <1>2, <2>3 DEF CountOverflow, Step, readVars, IInv, TypeOK, Raising,
       PeakIsLoudest, SnapshotBehind
  <2> QED
    BY <2>3, <2>4 DEF IInv
<1>3. ASSUME NEW c \in Callbacks, StaySilent(c) \/ Measure(c) PROVE IInv'
  <2>1. Cardinality(Counted') = Cardinality(Counted) - 1
    BY <1>0, <1>3, Leaving DEF StaySilent, Measure
  <2>2. CountedFirst'
    BY <1>0, <1>3, <2>1 DEF StaySilent, Measure, counters, CountedFirst, TypeOK
  <2>3. TypeOK' /\ Raising'
    BY <1>3 DEF StaySilent, Measure, Step, counters, readVars, IInv, TypeOK, Raising
  <2>4. PeakIsLoudest' /\ SnapshotBehind'
    BY <1>3 DEF StaySilent, Measure, counters, readVars, IInv, PeakIsLoudest,
       SnapshotBehind
  <2> QED
    BY <2>2, <2>3, <2>4 DEF IInv
<1>4. ASSUME NEW c \in Callbacks, LoadPeak(c) PROVE IInv'
  <2>1. Counted' = Counted
    BY <1>0, <1>4, Staying DEF LoadPeak
  <2>2. CountedFirst'
    BY <1>0, <1>4, <2>1 DEF LoadPeak, counters, CountedFirst
  <2>3. TypeOK' /\ Raising'
    BY <1>4 DEF LoadPeak, Step, counters, readVars, IInv, TypeOK, Raising
  <2>4. PeakIsLoudest' /\ SnapshotBehind'
    BY <1>4 DEF LoadPeak, Step, counters, readVars, IInv, TypeOK, PeakIsLoudest,
       SnapshotBehind
  <2> QED
    BY <2>2, <2>3, <2>4 DEF IInv
<1>5. ASSUME NEW c \in Callbacks, Exchange(c) PROVE IInv'
  <2>1. Counted' = Counted
    BY <1>0, <1>5, Staying DEF Exchange
  <2>2. CountedFirst'
    BY <1>0, <1>5, <2>1 DEF Exchange, CountedFirst
  <2>3. peak < sample[c] /\ sample[c] \in Peaks
    BY <1>5 DEF Exchange, Step, IInv, Raising
  <2>4. TypeOK' /\ Raising'
    BY <1>5, <2>3 DEF Exchange, Step, readVars, IInv, TypeOK, Raising
  <2>5. PeakIsLoudest' /\ SnapshotBehind'
    BY <1>5, <2>3 DEF Exchange, readVars, IInv, TypeOK, PeakIsLoudest, SnapshotBehind,
       Counters
  <2> QED
    BY <2>2, <2>4, <2>5 DEF IInv
<1>6. ASSUME NEW c \in Callbacks, ExchangeFails(c) PROVE IInv'
  <2>1. Counted' = Counted
    BY <1>0, <1>6, Staying DEF ExchangeFails
  <2>2. CountedFirst'
    BY <1>0, <1>6, <2>1 DEF ExchangeFails, counters, CountedFirst
  <2>3. TypeOK' /\ Raising' /\ PeakIsLoudest' /\ SnapshotBehind'
    BY <1>6 DEF ExchangeFails, Step, counters, readVars, IInv, TypeOK, Raising,
       PeakIsLoudest, SnapshotBehind
  <2> QED
    BY <2>2, <2>3 DEF IInv
<1>7. CASE Read \/ UNCHANGED vars
  <2>1. Counted' = Counted /\ UNCHANGED <<counters, audioVars, snapshot>>
    BY <1>7 DEF Read, vars, audioVars, readVars, Counted
  <2>2. unread' \subseteq Counters
    BY <1>7 DEF Read, vars, readVars, IInv, TypeOK
  <2> QED
    BY <2>1, <2>2 DEF counters, audioVars, IInv, TypeOK, CountedFirst, Raising,
       PeakIsLoudest, SnapshotBehind
<1>8. ASSUME NEW k \in Counters, LoadCounter(k) PROVE IInv'
  <2>1. Counted' = Counted /\ UNCHANGED <<counters, audioVars>>
    BY <1>8 DEF LoadCounter, audioVars, Counted
  <2>2. CountedFirst' /\ Raising' /\ PeakIsLoudest'
    BY <2>1 DEF counters, audioVars, IInv, CountedFirst, Raising, PeakIsLoudest
  <2>3. Value(k) \in Nat /\ (k = "peak" => Value(k) = peak)
    BY DEF Value, Counters, IInv, TypeOK
  <2>4. TypeOK' /\ SnapshotBehind'
    BY <1>8, <2>1, <2>3 DEF LoadCounter, counters, audioVars, IInv, TypeOK, Counters,
       SnapshotBehind
  <2> QED
    BY <2>2, <2>4 DEF IInv
<1> QED
  BY <1>1, <1>2, <1>3, <1>4, <1>5, <1>6, <1>7, <1>8 DEF Next, Audio

LEMMA SpecIInv == Spec => []IInv
<1> QED
  BY InitIInv, NextIInv, PTL DEF Spec

-----------------------------------------------------------------------------
\* What holds in every reachable state and of every step.

(* Types, and no overflow without a callback that was counted before it. *)
THEOREM DiagnosticsTypeCorrect == Spec => []TypeOK
<1>1. IInv => TypeOK
  BY DEF IInv
<1> QED
  BY SpecIInv, <1>1, PTL

(* However many callbacks compete for it, the peak is the loudest sample of those
   that were reported. *)
THEOREM PeakExact == Spec => []PeakIsLoudest
<1>1. IInv => PeakIsLoudest
  BY DEF IInv
<1> QED
  BY SpecIInv, <1>1, PTL

(* The peak and its snapshot rise or stay. *)
THEOREM PeakMonotone == Spec => PeakNeverFalls
<1>1. ASSUME IInv, [Next]_vars
      PROVE  peak <= peak' /\ snapshot["peak"] <= snapshot'["peak"]
  <2> USE DiagnosticsAssumption DEF IInv, TypeOK
  <2>1. ASSUME NEW c \in Callbacks, Exchange(c)
        PROVE  peak <= peak' /\ snapshot["peak"] <= snapshot'["peak"]
    BY <1>1, <2>1 DEF Exchange, Step, readVars, Raising, Counters
  <2>2. ASSUME NEW k \in Counters, LoadCounter(k)
        PROVE  peak <= peak' /\ snapshot["peak"] <= snapshot'["peak"]
    BY <1>1, <2>2 DEF LoadCounter, Value, Counters, counters, SnapshotBehind
  <2>3. CASE (~\E c \in Callbacks : Exchange(c)) /\ ~\E k \in Counters : LoadCounter(k)
    <3>1. UNCHANGED <<peak, snapshot>>
      BY <1>1, <2>3 DEF Next, Audio, CountCallback, CountOverflow, StaySilent, Measure,
         LoadPeak, ExchangeFails, Read, vars, counters, readVars
    <3> QED
      BY <1>1, <3>1 DEF Counters
  <2> QED
    BY <2>1, <2>2, <2>3
<1>2. IInv /\ [Next]_vars
        => [peak <= peak' /\ snapshot["peak"] <= snapshot'["peak"]]_vars
  BY <1>1
<1> QED
  BY SpecIInv, <1>2, PTL DEF Spec, PeakNeverFalls
=============================================================================
