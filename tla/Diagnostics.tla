---------------------------- MODULE Diagnostics ----------------------------
(***************************************************************************)
(* Diagnostics (stream_controller.rs): counters and the peak, all Relaxed  *)
(* atomics, written by the callbacks of up to two streams (restart plays   *)
(* the new one while the old one is alive) and read one after the other    *)
(* by diagnostics() on the application's thread.  A step is one access to  *)
(* an atomic.                                                              *)
(*                                                                         *)
(* A peak is represented by its rank: for samples that are not negative,   *)
(* the bits of an f32 are ordered as the numbers are.                      *)
(***************************************************************************)
EXTENDS Integers, FiniteSets

CONSTANTS Callbacks,    \* the streams that may call back
          Peaks,        \* the loudest samples a buffer may have
          MaxCallbacks  \* bound: no callback starts after so many

ASSUME DiagnosticsAssumption ==
  /\ IsFiniteSet(Callbacks)
  /\ Peaks \subseteq Nat
  /\ MaxCallbacks \in Nat

VARIABLES callback_count, overflow_count, peak,
          pc,        \* where each callback is
          sample,    \* max_sample of the callback's buffer
          current,   \* what update_peak has loaded
          reported,  \* history: the samples whose update_peak has returned
          unread,    \* the counters diagnostics() has still to load
          snapshot   \* what diagnostics() has loaded

counters == <<callback_count, overflow_count, peak>>
audioVars == <<pc, sample, current, reported>>
readVars == <<unread, snapshot>>
vars == <<counters, audioVars, readVars>>

Counters == {"callback_count", "overflow_count", "peak"}

Value(k) == CASE k = "callback_count" -> callback_count
              [] k = "overflow_count" -> overflow_count
              [] k = "peak" -> peak

Init ==
  /\ callback_count = 0
  /\ overflow_count = 0
  /\ peak = 0
  /\ pc = [c \in Callbacks |-> "out"]
  /\ sample = [c \in Callbacks |-> 0]
  /\ current = [c \in Callbacks |-> 0]
  /\ reported = {}
  /\ unread = {}
  /\ snapshot = [k \in Counters |-> 0]

-----------------------------------------------------------------------------
\* run_callback and update_peak

Step(c, from, to) == pc[c] = from /\ pc' = [pc EXCEPT ![c] = to]

\* Mutant: the callback is not counted.
CountNothing(c) ==
  /\ callback_count < MaxCallbacks
  /\ Step(c, "out", "counted")
  /\ UNCHANGED <<counters, sample, current, reported, readVars>>

CountCallback(c) ==
  /\ callback_count < MaxCallbacks
  /\ Step(c, "out", "counted")
  /\ callback_count' = callback_count + 1
  /\ UNCHANGED <<overflow_count, peak, sample, current, reported, readVars>>

\* The buffer is too long: no peak is taken.
CountOverflow(c) ==
  /\ Step(c, "counted", "out")
  /\ overflow_count' = overflow_count + 1
  /\ UNCHANGED <<callback_count, peak, sample, current, reported, readVars>>

\* The state is not Running: neither is counted further.
StaySilent(c) ==
  /\ Step(c, "counted", "out")
  /\ UNCHANGED <<counters, sample, current, reported, readVars>>

\* The buffer was filled; its loudest sample goes to update_peak.
Measure(c) ==
  /\ Step(c, "counted", "load")
  /\ \E x \in Peaks : sample' = [sample EXCEPT ![c] = x]
  /\ UNCHANGED <<counters, current, reported, readVars>>

\* The loop ends at once when the peak is not exceeded.
LoadPeak(c) ==
  /\ current' = [current EXCEPT ![c] = peak]
  /\ \/ /\ sample[c] <= peak
        /\ Step(c, "load", "out")
        /\ reported' = reported \cup {sample[c]}
     \/ /\ sample[c] > peak
        /\ Step(c, "load", "exchange")
        /\ UNCHANGED reported
  /\ UNCHANGED <<counters, sample, readVars>>

\* Mutant: a plain store in place of the compare-and-swap.
StoreAnyway(c) ==
  /\ Step(c, "exchange", "out")
  /\ peak' = sample[c]
  /\ reported' = reported \cup {sample[c]}
  /\ UNCHANGED <<callback_count, overflow_count, sample, current, readVars>>

Exchange(c) ==
  /\ peak = current[c]
  /\ Step(c, "exchange", "out")
  /\ peak' = sample[c]
  /\ reported' = reported \cup {sample[c]}
  /\ UNCHANGED <<callback_count, overflow_count, sample, current, readVars>>

\* Mutant: the loop is left when the exchange fails.
GiveUp(c) ==
  /\ Step(c, "exchange", "out")
  /\ reported' = reported \cup {sample[c]}
  /\ UNCHANGED <<counters, sample, current, readVars>>

\* Mutant: the next attempt still compares with the old value.
RetryWithoutLoad(c) ==
  /\ Step(c, "exchange", "exchange")
  /\ UNCHANGED <<counters, sample, current, reported, readVars>>

\* compare_exchange_weak fails for another value, and may fail without one.
ExchangeFails(c) ==
  /\ Step(c, "exchange", "load")
  /\ UNCHANGED <<counters, sample, current, reported, readVars>>

-----------------------------------------------------------------------------
\* diagnostics(): Relaxed loads of different atomics may be performed in any order.

Read ==
  /\ unread = {}
  /\ unread' = Counters
  /\ UNCHANGED <<counters, audioVars, snapshot>>

LoadCounter(k) ==
  /\ k \in unread
  /\ snapshot' = [snapshot EXCEPT ![k] = Value(k)]
  /\ unread' = unread \ {k}
  /\ UNCHANGED <<counters, audioVars>>

-----------------------------------------------------------------------------

Audio(c) == \/ CountOverflow(c) \/ StaySilent(c) \/ Measure(c)
            \/ LoadPeak(c) \/ ExchangeFails(c) \/ Exchange(c)

Next == \/ \E c \in Callbacks : CountCallback(c) \/ Audio(c)
        \/ Read \/ \E k \in Counters : LoadCounter(k)

Spec == Init /\ [][Next]_vars

\* A callback runs on; an exchange that is tried again and again while the peak
\* is the one it loaded does not fail spuriously for ever.
FairSpec ==
  Spec /\ \A c \in Callbacks : WF_vars(Audio(c)) /\ SF_vars(Exchange(c))

-----------------------------------------------------------------------------

(* The type invariant, with the order of the two counters: every overflow belongs
   to a callback that was counted before. *)
TypeOK ==
  /\ callback_count \in Nat
  /\ overflow_count \in Nat
  /\ peak \in Peaks \cup {0}
  /\ pc \in [Callbacks -> {"out", "counted", "load", "exchange"}]
  /\ sample \in [Callbacks -> Peaks \cup {0}]
  /\ current \in [Callbacks -> Peaks \cup {0}]
  /\ reported \subseteq Peaks
  /\ unread \subseteq Counters
  /\ snapshot \in [Counters -> Nat]
  /\ overflow_count <= callback_count

(* The peak is the loudest sample of the buffers reported so far: the exchange of
   one callback never loses the louder sample of another, nor invents one. *)
PeakIsLoudest ==
  /\ \A x \in reported : x <= peak
  /\ peak \in reported \cup {0}

(* Neither the peak nor what diagnostics() shows of it ever falls. *)
PeakNeverFalls == [][peak <= peak' /\ snapshot["peak"] <= snapshot'["peak"]]_vars

(* update_peak comes to an end: its loop is repeated only because another callback
   raised the peak, or for a spurious failure. *)
UpdateEnds == \A c \in Callbacks : pc[c] = "load" ~> pc[c] = "out"
=============================================================================
