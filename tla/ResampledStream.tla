-------------------------- MODULE ResampledStream --------------------------
(***************************************************************************)
(* What the resampling path promises to the listener, with no staging and  *)
(* no window of pending samples in it: output k of the stream interpolates *)
(* the two input samples around position k * input_rate / output_rate,     *)
(* however the host cuts its buffers.  A buffer is complete or silent, a   *)
(* silent one does not advance the position, and input samples are lost    *)
(* only in a call whose buffer is silent; the others are numbered on.      *)
(***************************************************************************)
EXTENDS Naturals

CONSTANT MaxFrames  \* the longest buffer a host asks for, in frames

VARIABLES input_rate, output_rate,
          outputs,  \* device samples produced since the stream began
          heard,    \* the last buffer: its interpolations, none if it is silent
          lost      \* samples of the runtime that were not used

vars == <<input_rate, output_rate, outputs, heard, lost>>

\* The weight is in units of 1 / output_rate; without weight the right sample does not
\* count.
Interpolated(left, right, frac) ==
  [left |-> left, right |-> IF frac = 0 THEN left ELSE right, frac |-> frac]

Output(k) ==
  LET left == (k * input_rate) \div output_rate
  IN  Interpolated(left, left + 1, (k * input_rate) % output_rate)

Init ==
  /\ input_rate \in Nat \ {0}
  /\ output_rate \in Nat \ {0}
  /\ outputs = 0
  /\ heard = <<>>
  /\ lost = 0

Deliver(n) ==
  /\ heard' = [f \in 0 .. n - 1 |-> Output(outputs + f)]
  /\ outputs' = outputs + n
  /\ UNCHANGED <<input_rate, output_rate, lost>>

Interrupt ==
  /\ heard' = <<>>
  /\ lost' \in Nat
  /\ lost' >= lost
  /\ UNCHANGED <<input_rate, output_rate, outputs>>

Next == Interrupt \/ \E n \in 0 .. MaxFrames : Deliver(n)

Spec == Init /\ [][Next]_vars
=============================================================================
