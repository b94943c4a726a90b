-------------------------- MODULE LinearResampler --------------------------
(***************************************************************************)
(* The index arithmetic of LinearResampler (resampler.rs), as operators on *)
(* its state, a record r:                                                  *)
(*   r.next   next_idx, the position of the next output, in units of       *)
(*            1 / out of an input sample (the code keeps an f64; here the  *)
(*            rational number is exact)                                    *)
(*   r.base   pending_base, the input index of pending[0]                  *)
(*   r.len    the length of pending                                        *)
(* Input samples are represented by their index in the input stream.       *)
(***************************************************************************)
EXTENDS Integers

\* What sample_at returns outside of the window: 0.0 and the last sample.
BeforeWindow == -1
HeldLast == -2

Larger(a, b) == IF a >= b THEN a ELSE b
Smaller(a, b) == IF a <= b THEN a ELSE b

CeilDiv(a, b) == -((-a) \div b)

NewResampler == [next |-> 0, base |-> 0, len |-> 0]

\* Mutant: samples left over from earlier calls make the count negative.
InputNeededForUnclamped(r, n, in, out) ==
  CeilDiv(r.next + (n - 1) * in + out, out) - (r.base + r.len)

\* Input samples to push before n more outputs can be produced.
InputNeededFor(r, n, in, out) ==
  Larger(0, CeilDiv(r.next + (n - 1) * in + out, out) - (r.base + r.len))

\* Mutant: samples are dropped up to and including the one under next_idx.
PushEager(r, count, out, max_pending) ==
  LET keep_from == (r.next \div out) + 1
      dropped == Smaller(r.len + count, Larger(0, keep_from - r.base))
  IN  [r EXCEPT !.base = @ + dropped, !.len = @ + count - dropped]

\* push: append count samples, drop those behind next_idx - 1, then trim the
\* oldest until max_pending are left.
Push(r, count, out, max_pending) ==
  LET keep_from == (r.next \div out) - 1
      dropped == Smaller(r.len + count, Larger(0, keep_from - r.base))
      trimmed == Larger(0, r.len + count - dropped - max_pending)
  IN  [r EXCEPT !.base = @ + dropped + trimmed,
                !.len = @ + count - dropped - trimmed]

SampleAt(r, idx) ==
  IF idx < r.base THEN BeforeWindow
  ELSE IF idx >= r.base + r.len THEN HeldLast
  ELSE idx

\* The two samples and the weight (in units of 1 / out) of an output at pos.
Interpolate(r, pos, out) ==
  [left |-> SampleAt(r, pos \div out),
   right |-> SampleAt(r, pos \div out + 1),
   frac |-> pos % out]
=============================================================================
