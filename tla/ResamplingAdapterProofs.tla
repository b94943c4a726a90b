--------------------- MODULE ResamplingAdapterProofs ---------------------
(***************************************************************************)
(* Proofs about ResamplingAdapter for all rates, block sizes (empty blocks *)
(* included), channel counts and host buffer sizes.  What is true up to    *)
(* the ratio of RatioFits only is stated under that condition.             *)
(***************************************************************************)
EXTENDS ResamplingAdapter, TLAPS

-----------------------------------------------------------------------------
\* The inductive invariant.

\* The input samples the resampler has been given.
End == resampler.base + resampler.len

\* The input samples that must have been given before n outputs from position p on.
RequiredAt(p, n, in, out) == CeilDiv(p + (n - 1) * in + out, out)

Required(n) == RequiredAt(resampler.next, n, input_rate, output_rate)

\* The position in the input is that of the next output, and what is about to be heard
\* was not dropped.
Position ==
  /\ resampler.next = outputs * input_rate
  /\ RatioFits => resampler.base <= Larger(0, resampler.next \div output_rate - 1)

\* All calls so far have been given what they needed, and less than a block more.
Supplied(n) ==
  /\ Required(n) <= End \/ (outputs = 0 /\ n = 0)
  /\ End < Required(n) + runtime_block_size \/ (outputs = 0 /\ n = 0 /\ End = 0)

\* What each step of a call knows of the samples it stages.
Staging ==
  /\ host_frames * Channels <= MaxHostFrames
  /\ pc # "converting" => Supplied(0)
  /\ pc = "staging" => /\ need = Larger(0, Required(host_frames) - End)
                       /\ RatioFits => need <= MaxHostFrames * 8
                       /\ got > 0 => need > 0 /\ got < need + runtime_block_size
  /\ pc = "converting" => Supplied(host_frames) /\ Required(host_frames) <= End

ResInv ==
  /\ TypeOK
  /\ Position
  /\ Staging
  /\ Lost \in Nat
  /\ ExactInterpolation

-----------------------------------------------------------------------------
\* What an ideal converter interpolates at position pos / out.
IsIdeal(o, pos, out) ==
  /\ o.left = pos \div out
  /\ o.frac = pos % out
  /\ o.frac # 0 => o.right = pos \div out + 1
  /\ o = [left |-> o.left, right |-> o.right, frac |-> o.frac]

-----------------------------------------------------------------------------
\* Lemmas about the resampler's arithmetic.

LEMMA ProductMonotone ==
  ASSUME NEW a \in Int, NEW b \in Int, NEW c \in Nat, a <= b
  PROVE  a * c <= b * c
OBVIOUS

LEMMA DivRem ==
  ASSUME NEW x \in Int, NEW d \in Nat \ {0}
  PROVE  /\ x \div d \in Int
         /\ x % d \in 0 .. d - 1
         /\ x = (x \div d) * d + (x % d)
OBVIOUS

(* floor(x / d) is the greatest number whose product with d is not above x. *)
LEMMA FloorBound ==
  ASSUME NEW x \in Int, NEW d \in Nat \ {0}, NEW c \in Int
  PROVE  c <= x \div d <=> c * d <= x
<1> DEFINE q == x \div d
           m == x % d
<1>1. q \in Int /\ m \in 0 .. d - 1 /\ x = q * d + m
  BY DivRem
<1> HIDE DEF q, m
<1>2. ASSUME c <= q PROVE c * d <= x
  <2>1. c * d <= q * d
    BY <1>1, <1>2, ProductMonotone
  <2>2. c * d \in Int /\ q * d \in Int
    BY <1>1
  <2> QED
    BY <1>1, <2>1, <2>2
<1>3. ASSUME q + 1 <= c PROVE ~(c * d <= x)
  <2>1. (q + 1) * d <= c * d
    BY <1>1, <1>3, ProductMonotone
  <2>2. (q + 1) * d = q * d + d
    BY <1>1
  <2>3. c * d \in Int /\ q * d \in Int
    BY <1>1
  <2> QED
    BY <1>1, <2>1, <2>2, <2>3
<1>4. c <= q \/ q + 1 <= c
  BY <1>1
<1>5. c <= q <=> c * d <= x
  BY <1>1, <1>2, <1>3, <1>4
<1> QED
  BY <1>5 DEF q

(* ceil(x / d) is the least number whose product with d is not below x. *)
LEMMA CeilBound ==
  ASSUME NEW x \in Int, NEW d \in Nat \ {0}, NEW c \in Int
  PROVE  /\ CeilDiv(x, d) \in Int
         /\ CeilDiv(x, d) <= c <=> x <= c * d
<1>1. (-x) \div d \in Int /\ -x \in Int /\ -c \in Int
  BY DivRem
<1>2. -c <= (-x) \div d <=> (-c) * d <= -x
  BY <1>1, FloorBound
<1>3. (-c) * d = -(c * d) /\ c * d \in Int
  OBVIOUS
<1>4. CeilDiv(x, d) = -((-x) \div d)
  BY DEF CeilDiv
<1> DEFINE q == (-x) \div d
           p == c * d
<1>5. /\ q \in Int /\ p \in Int /\ CeilDiv(x, d) = -q
      /\ -c <= q <=> -p <= -x
  BY <1>1, <1>2, <1>3, <1>4
<1> HIDE DEF q, p
<1>6. -q <= c <=> x <= p
  BY <1>5
<1> QED
  BY <1>5, <1>6 DEF p

LEMMA FloorMonotone ==
  ASSUME NEW x \in Int, NEW y \in Int, NEW d \in Nat \ {0}, x <= y
  PROVE  x \div d <= y \div d
<1>1. x \div d \in Int /\ y \div d \in Int
  BY DivRem
<1>2. (x \div d) * d <= x
  BY <1>1, FloorBound
<1>3. (x \div d) * d <= y
  <2>1. (x \div d) * d \in Int
    BY <1>1
  <2> QED
    BY <1>2, <2>1
<1> QED
  BY <1>1, <1>3, FloorBound

(* The input of a host buffer of at most h samples fits eight times its length. *)
LEMMA HostInput ==
  ASSUME NEW in \in Nat, NEW out \in Nat, NEW n \in Nat, NEW h \in Nat,
         in <= 8 * Channels * out, n * Channels <= h
  PROVE  n * in \in Nat /\ n * in <= (h * 8) * out
<1>1. Channels \in Nat
  BY ResamplingAssumption
<1> DEFINE c == 8 * Channels * out
           w == 8 * out
           f == n * Channels
<1>2. c \in Nat /\ w \in Nat /\ f \in Nat
  BY <1>1
<1>3. n * c = f * w
  BY <1>1
<1>4. (h * 8) * out = h * w
  OBVIOUS
<1> HIDE DEF c, w
<1>5. in <= c
  BY DEF c
<1>6. n * in <= n * c
  <2>1. in * n <= c * n
    BY <1>2, <1>5, ProductMonotone
  <2>2. in * n = n * in /\ c * n = n * c
    BY <1>2
  <2> QED
    BY <2>1, <2>2
<1>7. f * w <= h * w
  BY <1>2, ProductMonotone
<1>8. n * in \in Nat /\ n * c \in Nat /\ f * w \in Nat /\ h * w \in Nat
  BY <1>2
<1> QED
  BY <1>3, <1>4, <1>6, <1>7, <1>8

(* What must have been given, as a bound: it is enough to look at the last output. *)
LEMMA RequiredBound ==
  ASSUME NEW p \in Int, NEW n \in Nat, NEW in \in Nat, NEW out \in Nat \ {0}, NEW c \in Int
  PROVE  /\ RequiredAt(p, n, in, out) \in Int
         /\ RequiredAt(p, n, in, out) <= c <=> p + n * in - in + out <= c * out
<1>1. n * in \in Int /\ (n - 1) * in = n * in - in
  OBVIOUS
<1> DEFINE x == p + (n - 1) * in + out
<1>2. x \in Int /\ x = p + n * in - in + out
  BY <1>1
<1> HIDE DEF x
<1>3. CeilDiv(x, out) \in Int /\ (CeilDiv(x, out) <= c <=> x <= c * out)
  BY <1>2, CeilBound
<1> QED
  BY <1>2, <1>3 DEF x, RequiredAt

(* A call that begins with what earlier calls were given needs at most what resample_in
   holds beside the rest of a block. *)
LEMMA NeedFits ==
  ASSUME NEW p \in Nat, NEW n \in Nat, NEW in \in Nat \ {0}, NEW out \in Nat \ {0},
         NEW e \in Int, in <= 8 * Channels * out, n * Channels <= MaxHostFrames,
         RequiredAt(p, 0, in, out) <= e
  PROVE  RequiredAt(p, n, in, out) <= e + MaxHostFrames * 8
<1>1. MaxHostFrames \in Nat
  BY ResamplingAssumption
<1>2. n * in \in Nat /\ n * in <= (MaxHostFrames * 8) * out
  BY <1>1, HostInput
<1> DEFINE h == MaxHostFrames * 8
           ni == n * in
           eo == e * out
           ho == h * out
<1>3. p - in + out <= eo
  <2>1. p + 0 * in - in + out <= e * out
    BY RequiredBound
  <2>2. 0 * in = 0
    OBVIOUS
  <2> QED
    BY <2>1, <2>2
<1>4. (e + h) * out = eo + ho /\ h \in Nat /\ eo \in Int /\ ho \in Int
  BY <1>1
<1> HIDE DEF h, ni, eo, ho
<1>5. ni \in Nat /\ ni <= ho
  BY <1>2 DEF ni, ho, h
<1>6. p + ni - in + out <= eo + ho
  BY <1>3, <1>4, <1>5
<1>7. p + n * in - in + out <= (e + h) * out
  BY <1>4, <1>6 DEF ni
<1>8. e + h \in Int
  BY <1>4
<1> QED
  BY <1>7, <1>8, RequiredBound DEF h

(* Nor does it need more than that beyond the sample under the next output. *)
LEMMA WindowFits ==
  ASSUME NEW p \in Nat, NEW n \in Nat, NEW in \in Nat \ {0}, NEW out \in Nat \ {0},
         in <= 8 * Channels * out, n * Channels <= MaxHostFrames
  PROVE  RequiredAt(p, n, in, out) <= p \div out + MaxHostFrames * 8
<1>1. MaxHostFrames \in Nat \ {0} /\ Channels \in Nat \ {0}
  BY ResamplingAssumption
<1> DEFINE q == p \div out
           h == MaxHostFrames * 8
           ni == n * in
           qo == q * out
           ho == h * out
<1>2. q \in Int /\ p \in Int /\ p < qo + out
  BY DivRem
<1>3. h \in Nat /\ 8 <= h /\ qo \in Int /\ ho \in Int /\ (q + h) * out = qo + ho
  BY <1>1, <1>2
<1>4. ni \in Nat /\ ni - in + out + out <= ho
  <2>1. CASE n = 0
    <3>1. ni = 0
      BY <2>1
    <3>2. 8 * out <= h * out
      BY <1>3, ProductMonotone
    <3> QED
      BY <1>3, <3>1, <3>2
  <2>2. CASE n # 0
    <3> DEFINE k == n - 1
               m == MaxHostFrames - Channels
    <3>1. k \in Nat /\ k * Channels = n * Channels - Channels /\ ni = k * in + in
      BY <1>1, <2>2
    <3>2. n * Channels \in Int /\ k * Channels \in Nat
      BY <1>1, <3>1
    <3>3. m \in Nat /\ k * Channels <= m
      BY <1>1, <3>1, <3>2
    <3> HIDE DEF k, m
    <3>4. k * in \in Nat /\ k * in <= (m * 8) * out
      BY <3>1, <3>3, HostInput
    <3>5. (m * 8) * out = ho - (Channels * 8) * out
      BY <1>1, <1>3 DEF m
    <3>6. 8 * out <= (Channels * 8) * out
      <4>1. 8 <= Channels * 8 /\ Channels * 8 \in Int
        BY <1>1
      <4> QED
        BY <4>1, ProductMonotone
    <3> DEFINE ki == k * in
               co == (Channels * 8) * out
               mo == (m * 8) * out
    <3>7. ki \in Nat /\ co \in Int /\ mo \in Int
      BY <1>1, <3>3, <3>4
    <3>8. ki <= mo /\ mo = ho - co /\ 8 * out <= co /\ ni = ki + in
      BY <3>1, <3>4, <3>5, <3>6
    <3> HIDE DEF ki, co, mo, ho, ni
    <3> QED
      BY <1>3, <3>7, <3>8
  <2> QED
    BY <2>1, <2>2
<1> HIDE DEF q, h, ni, qo, ho
<1>5. p + ni - in + out <= (q + h) * out
  BY <1>2, <1>3, <1>4
<1>6. q + h \in Int
  BY <1>2, <1>3
<1>7. p + n * in - in + out <= (q + h) * out
  BY <1>5 DEF ni
<1>8. RequiredAt(p, n, in, out) <= q + h
  BY <1>6, <1>7, RequiredBound
<1> QED
  BY <1>8 DEF q, h

(* A larger buffer needs no fewer samples. *)
LEMMA RequiredGrows ==
  ASSUME NEW p \in Nat, NEW n \in Nat, NEW in \in Nat, NEW out \in Nat \ {0}
  PROVE  RequiredAt(p, 0, in, out) <= RequiredAt(p, n, in, out)
<1> DEFINE c == RequiredAt(p, n, in, out)
           ni == n * in
           co == c * out
<1>1. c \in Int
  BY RequiredBound
<1>2. p + ni - in + out <= co
  BY <1>1, RequiredBound
<1>3. ni \in Nat /\ co \in Int
  BY <1>1
<1> HIDE DEF c, ni, co
<1>4. p - in + out <= co
  BY <1>2, <1>3
<1>5. p + 0 * in - in + out <= c * out
  <2>1. 0 * in = 0
    OBVIOUS
  <2> QED
    BY <1>4, <2>1 DEF co
<1>6. RequiredAt(p, 0, in, out) <= c
  BY <1>1, <1>5, RequiredBound
<1> QED
  BY <1>6 DEF c

(* push: the samples are counted on, and what is kept fits max_pending. *)
LEMMA PushCounts ==
  ASSUME NEW r \in [next : Nat, base : Nat, len : Nat], NEW count \in Nat,
         NEW out \in Nat \ {0}, NEW max_pending \in Nat
  PROVE  LET q == Push(r, count, out, max_pending)
         IN  /\ q \in [next : Nat, base : Nat, len : 0 .. max_pending]
             /\ q.next = r.next
             /\ q.base + q.len = r.base + r.len + count
<1> DEFINE keep_from == (r.next \div out) - 1
           dropped == Smaller(r.len + count, Larger(0, keep_from - r.base))
           trimmed == Larger(0, r.len + count - dropped - max_pending)
<1>1. /\ r.next \in Nat /\ r.base \in Nat /\ r.len \in Nat
      /\ r = [next |-> r.next, base |-> r.base, len |-> r.len]
  OBVIOUS
<1>2. keep_from \in Int
  BY <1>1, DivRem
<1>3. Push(r, count, out, max_pending) =
        [next |-> r.next, base |-> r.base + dropped + trimmed,
         len |-> r.len + count - dropped - trimmed]
  <2>1. Push(r, count, out, max_pending) =
          [r EXCEPT !.base = @ + dropped + trimmed, !.len = @ + count - dropped - trimmed]
    BY DEF Push
  <2> HIDE DEF dropped, trimmed
  <2> QED
    BY <1>1, <2>1
<1> HIDE DEF keep_from
<1>4. dropped \in 0 .. (r.len + count)
  BY <1>1, <1>2 DEF Smaller, Larger
<1> HIDE DEF dropped
<1>5. trimmed \in 0 .. ((r.len + count) - dropped)
      /\ (r.len + count) - dropped - trimmed <= max_pending
  BY <1>1, <1>4 DEF Larger
<1> HIDE DEF trimmed
<1>6. /\ r.base + dropped + trimmed \in Nat
      /\ r.len + count - dropped - trimmed \in 0 .. max_pending
      /\ (r.base + dropped + trimmed) + (r.len + count - dropped - trimmed)
           = r.base + r.len + count
  BY <1>1, <1>4, <1>5
<1> QED
  BY <1>1, <1>3, <1>6

(* push: if what is given does not reach too far ahead, no sample that is still to be heard
   is dropped, and none is trimmed. *)
LEMMA PushKeeps ==
  ASSUME NEW r \in [next : Nat, base : Nat, len : Nat], NEW count \in Nat,
         NEW out \in Nat \ {0}, NEW max_pending \in Nat,
         r.base <= Larger(0, r.next \div out - 1),
         r.base + r.len + count < r.next \div out + max_pending
  PROVE  Push(r, count, out, max_pending).base <= Larger(0, r.next \div out - 1)
<1> DEFINE floor == r.next \div out
           keep_from == floor - 1
           total == r.len + count
           dropped == Smaller(total, Larger(0, keep_from - r.base))
           trimmed == Larger(0, r.len + count - dropped - max_pending)
<1>1. /\ r.next \in Nat /\ r.base \in Nat /\ r.len \in Nat
      /\ r = [next |-> r.next, base |-> r.base, len |-> r.len]
  OBVIOUS
<1>2. floor \in Nat
  <2>1. floor \in Int /\ 0 * out = 0
    BY <1>1, DivRem
  <2>2. 0 <= floor
    BY <1>1, <2>1, FloorBound
  <2> QED
    BY <2>1, <2>2
<1>3. Push(r, count, out, max_pending) =
        [next |-> r.next, base |-> r.base + dropped + trimmed,
         len |-> r.len + count - dropped - trimmed]
  <2>1. Push(r, count, out, max_pending) =
          [r EXCEPT !.base = @ + dropped + trimmed, !.len = @ + count - dropped - trimmed]
    BY DEF Push
  <2> HIDE DEF dropped, trimmed
  <2> QED
    BY <1>1, <2>1
<1> HIDE DEF floor
<1>4. /\ r.base <= Larger(0, floor - 1)
      /\ r.base + total < floor + max_pending
  BY <1>1 DEF floor
<1>5. dropped \in 0 .. total
  BY <1>1, <1>2 DEF Smaller, Larger
<1>6. total - dropped <= max_pending
  BY <1>1, <1>2, <1>4 DEF Smaller, Larger
<1>7. r.base + dropped <= Larger(0, floor - 1)
  BY <1>1, <1>2, <1>4 DEF Smaller, Larger
<1>8. trimmed = 0
  BY <1>1, <1>5, <1>6 DEF Larger
<1> HIDE DEF dropped, trimmed
<1>9. r.base + dropped + trimmed <= Larger(0, floor - 1)
  BY <1>1, <1>5, <1>7, <1>8
<1> QED
  BY <1>3, <1>9 DEF floor

(* The two samples around a position are in the window if that was given and kept. *)
LEMMA InterpolateExact ==
  ASSUME NEW r \in [next : Nat, base : Nat, len : Nat], NEW out \in Nat \ {0},
         NEW in \in Nat \ {0}, NEW n \in Nat, NEW f \in 0 .. n - 1,
         r.base <= Larger(0, r.next \div out - 1),
         RequiredAt(r.next, n, in, out) <= r.base + r.len
  PROVE  IsIdeal(Interpolate(r, r.next + f * in, out), r.next + f * in, out)
<1> DEFINE pos == r.next + f * in
           p == pos \div out
           m == pos % out
           req == RequiredAt(r.next, n, in, out)
           floor == r.next \div out
<1>1. r.next \in Nat /\ r.base \in Nat /\ r.len \in Nat /\ f \in Nat /\ f + 1 <= n
  OBVIOUS
<1>2. f * in \in Nat /\ pos \in Nat
  BY <1>1
<1>3. p \in Int /\ m \in 0 .. out - 1 /\ pos = p * out + m /\ p * out \in Int
  <2> HIDE DEF pos
  <2>1. pos \in Int
    BY <1>2
  <2>2. p \in Int /\ m \in 0 .. out - 1 /\ pos = p * out + m
    BY <2>1, DivRem
  <2> QED
    BY <2>2
<1>4. floor \in Int /\ floor <= p /\ 0 <= floor
  <2>1. floor \in Int /\ 0 * out = 0
    BY <1>1, DivRem
  <2>2. 0 <= floor
    BY <1>1, <2>1, FloorBound
  <2>3. r.next <= pos
    BY <1>1, <1>2
  <2>4. floor <= p
    BY <1>1, <1>2, <2>3, FloorMonotone
  <2> QED
    BY <2>1, <2>2, <2>4
<1>5. r.base <= p
  <2> HIDE DEF floor, p
  <2> QED
    BY <1>1, <1>3, <1>4 DEF Larger, floor
<1>6. req \in Int
  BY <1>1, RequiredBound
<1>7. pos <= r.next + n * in - in
  <2>1. (f + 1) * in <= n * in
    BY <1>1, ProductMonotone
  <2>2. (f + 1) * in = f * in + in /\ n * in \in Int
    BY <1>1
  <2> QED
    BY <1>1, <1>2, <2>1, <2>2
<1>8. ASSUME NEW c \in Int, req <= c PROVE pos + out <= c * out
  <2>1. r.next + n * in - in + out <= c * out
    BY <1>1, <1>8, RequiredBound
  <2>2. n * in \in Int /\ c * out \in Int
    OBVIOUS
  <2> HIDE DEF pos
  <2> QED
    BY <1>1, <1>2, <1>7, <2>1, <2>2
<1>9. p < r.base + r.len
  <2>1. ~(req <= p)
    <3>1. SUFFICES ASSUME req <= p PROVE FALSE
      OBVIOUS
    <3>2. pos + out <= p * out
      BY <1>3, <1>8, <3>1
    <3> HIDE DEF pos, p, m
    <3> QED
      BY <1>2, <1>3, <3>2
  <2> HIDE DEF p, req
  <2> QED
    BY <1>1, <1>3, <1>6, <2>1 DEF req
<1>10. ASSUME m # 0 PROVE p + 1 < r.base + r.len
  <2>1. ~(req <= p + 1)
    <3>1. SUFFICES ASSUME req <= p + 1 PROVE FALSE
      OBVIOUS
    <3>2. pos + out <= (p + 1) * out
      <4>1. p + 1 \in Int
        BY <1>3
      <4> QED
        BY <1>8, <3>1, <4>1
    <3>3. (p + 1) * out = p * out + out
      <4> HIDE DEF p
      <4> QED
        BY <1>3
    <3> HIDE DEF pos, p, m
    <3> QED
      BY <1>2, <1>3, <1>10, <3>2, <3>3
  <2> HIDE DEF p, req, m
  <2> QED
    BY <1>1, <1>3, <1>6, <2>1 DEF req
<1> HIDE DEF pos, p, m, req, floor
<1>11. SampleAt(r, p) = p
  BY <1>1, <1>3, <1>5, <1>9 DEF SampleAt
<1>12. m # 0 => SampleAt(r, p + 1) = p + 1
  BY <1>1, <1>3, <1>5, <1>10 DEF SampleAt
<1>13. Interpolate(r, pos, out) = [left |-> p, right |-> SampleAt(r, p + 1), frac |-> m]
  BY <1>11 DEF Interpolate, p, m
<1> QED
  BY <1>12, <1>13 DEF pos, p, m, IsIdeal

-----------------------------------------------------------------------------
\* The invariant is inductive.

(* The rates, the block and the resampler's state, as the lemmas above ask for them. *)
LEMMA AdapterTypes ==
  ASSUME TypeOK
  PROVE  /\ input_rate \in Nat \ {0} /\ output_rate \in Nat \ {0}
         /\ RatioFits => input_rate <= 8 * Channels * output_rate
         /\ runtime_block_size \in Nat
         /\ MaxHostFrames \in Nat \ {0}
         /\ resampler \in [next : Nat, base : Nat, len : Nat]
         /\ resampler.next \in Nat /\ resampler.base \in Nat /\ resampler.len \in Nat
         /\ End \in Nat
         /\ host_frames \in Nat /\ need \in Nat /\ got \in Nat
         /\ outputs \in Nat /\ pulled \in Nat
         /\ \A n \in Nat : Required(n) \in Int
<1> USE ResamplingAssumption DEF TypeOK
<1>1. <<input_rate, output_rate>> \in (Nat \ {0}) \X (Nat \ {0})
  OBVIOUS
<1>2. input_rate \in Nat \ {0} /\ output_rate \in Nat \ {0}
  BY <1>1
<1>3. RatioFits => input_rate <= 8 * Channels * output_rate
  BY DEF RatioFits
<1>4. runtime_block_size \in Nat /\ MaxHostFrames \in Nat \ {0}
  OBVIOUS
<1>5. resampler \in [next : Nat, base : Nat, len : Nat]
  BY <1>4 DEF MaxPending
<1>6. resampler.next \in Nat /\ resampler.base \in Nat /\ resampler.len \in Nat
  BY <1>5
<1>7. End \in Nat
  BY <1>6 DEF End
<1>8. host_frames \in Nat /\ need \in Nat /\ got \in Nat /\ outputs \in Nat /\ pulled \in Nat
  BY <1>4 DEF InCapacity
<1>9. \A n \in Nat : Required(n) \in Int
  <2> SUFFICES ASSUME NEW n \in Nat PROVE Required(n) \in Int
    OBVIOUS
  <2>1. resampler.next \in Int /\ input_rate \in Nat /\ 0 \in Int
    BY <1>2, <1>6
  <2>2. RequiredAt(resampler.next, n, input_rate, output_rate) \in Int
    BY <1>2, <2>1, RequiredBound
  <2> QED
    BY <2>2 DEF Required
<1> QED
  BY <1>2, <1>3, <1>4, <1>5, <1>6, <1>7, <1>8, <1>9

LEMMA InitResInv == Init => ResInv
<1> SUFFICES ASSUME Init PROVE ResInv
  OBVIOUS
<1> USE ResamplingAssumption
<1>1. PICK r \in Rates : input_rate = r[1] /\ output_rate = r[2]
  BY DEF Init
<1>2. /\ <<input_rate, output_rate>> \in Rates
      /\ input_rate \in Nat \ {0} /\ output_rate \in Nat \ {0}
  BY <1>1
<1>3. runtime_block_size \in Nat /\ resampler = [next |-> 0, base |-> 0, len |-> 0]
  BY DEF Init, NewResampler
<1>4. resampler \in [next : Nat, base : Nat, len : 0 .. MaxPending]
  BY <1>3 DEF MaxPending
<1>5. TypeOK
  BY <1>2, <1>3, <1>4 DEF Init, TypeOK, InCapacity
<1>6. Position
  BY <1>2, <1>3 DEF Init, Position, Larger
<1>7. Staging
  BY <1>3 DEF Init, Staging, Supplied, End
<1>8. Lost \in Nat
  BY <1>3 DEF Init, Lost
<1>9. ExactInterpolation
  BY DEF Init, ExactInterpolation
<1> QED
  BY <1>5, <1>6, <1>7, <1>8, <1>9 DEF ResInv

LEMMA CallInv ==
  ASSUME ResInv, NEW n \in 0 .. MaxHostFrames, Call(n)
  PROVE  ResInv' /\ Lost' = Lost
<1>1. TypeOK /\ Position /\ Staging /\ Lost \in Nat
  BY DEF ResInv
<1>2. /\ UNCHANGED <<runtime_block_size, input_rate, output_rate, resampler, pulled, outputs, heard>>
      /\ pc = "idle" /\ pc' = "staging"
      /\ n * Channels <= MaxHostFrames
      /\ host_frames' = n /\ got' = 0
      /\ RatioFits' = RatioFits
  BY DEF Call, config, RatioFits
<1>3. need' = Larger(0, Required(n) - End) /\ End' = End /\ \A k : Required(k)' = Required(k)
  BY <1>2 DEF Call, InputNeededFor, Required, RequiredAt, End
<1>4. n \in Nat /\ Required(n) \in Int /\ End \in Nat /\ MaxHostFrames \in Nat
  BY <1>1, AdapterTypes
<1>5. ASSUME RatioFits PROVE Required(n) <= End + MaxHostFrames * 8
  <2> USE <1>5
  <2>1. CASE Required(0) <= End
    <3>1. RequiredAt(resampler.next, 0, input_rate, output_rate) <= End
      BY <2>1 DEF Required
    <3>2. RequiredAt(resampler.next, n, input_rate, output_rate) <= End + MaxHostFrames * 8
      BY <1>1, <1>2, <1>4, <3>1, AdapterTypes, NeedFits
    <3> QED
      BY <3>2 DEF Required
  <2>2. CASE outputs = 0
    <3>1. resampler.next = 0
      BY <1>1, <2>2, AdapterTypes DEF Position
    <3>2. RequiredAt(0, n, input_rate, output_rate) <= 0 \div output_rate + MaxHostFrames * 8
      BY <1>1, <1>2, <1>4, AdapterTypes, WindowFits
    <3>3. 0 \div output_rate = 0
      BY <1>1, AdapterTypes
    <3>4. Required(n) <= MaxHostFrames * 8
      BY <1>4, <3>1, <3>2, <3>3 DEF Required
    <3> QED
      BY <1>4, <3>4
  <2> QED
    BY <1>1, <1>2, <2>1, <2>2 DEF Staging, Supplied
<1>6. need' \in Nat /\ (RatioFits => need' <= MaxHostFrames * 8)
  BY <1>3, <1>4, <1>5 DEF Larger
<1>7. TypeOK'
  <2>1. InCapacity' = InCapacity /\ MaxPending' = MaxPending
    BY <1>2 DEF InCapacity, MaxPending
  <2>2. need' \in Nat /\ got' \in 0 .. InCapacity /\ InCapacity \in Nat
    BY <1>1, <1>2, <1>6, <2>1, AdapterTypes DEF InCapacity
  <2> QED
    BY <1>1, <1>2, <2>1, <2>2 DEF TypeOK
<1>8. Staging'
  BY <1>1, <1>2, <1>3, <1>6 DEF Staging, Supplied
<1>9. Lost' = Lost
  BY <1>1, <1>2, AdapterTypes DEF Lost
<1>10. Position' /\ ExactInterpolation'
  BY <1>1, <1>2 DEF Position, ExactInterpolation
<1> QED
  BY <1>1, <1>7, <1>8, <1>9, <1>10 DEF ResInv

(* Up to the ratio of RatioFits no block is cut off. *)
LEMMA PullBlockInv ==
  ASSUME ResInv, PullBlock
  PROVE  ResInv' /\ (RatioFits => Lost' = Lost)
<1>1. TypeOK /\ Position /\ Staging /\ Lost \in Nat
  BY DEF ResInv
<1>2. /\ UNCHANGED <<runtime_block_size, input_rate, output_rate, resampler, pc, host_frames,
                      need, outputs, heard>>
      /\ pc = "staging" /\ got < need
      /\ got' = Smaller(got + runtime_block_size, InCapacity)
      /\ pulled' = pulled + runtime_block_size
      /\ RatioFits' = RatioFits
  BY DEF PullBlock, config, RatioFits
<1>3. End' = End /\ \A k : Required(k)' = Required(k)
  BY <1>2 DEF Required, RequiredAt, End
<1>4. RatioFits => need <= MaxHostFrames * 8
  BY <1>1, <1>2 DEF Staging
<1>5. /\ got' \in Nat /\ got' <= got + runtime_block_size /\ got' <= InCapacity
      /\ RatioFits => got' = got + runtime_block_size
  BY <1>1, <1>2, <1>4, AdapterTypes DEF Smaller, InCapacity
<1>6. TypeOK'
  <2>1. InCapacity' = InCapacity /\ MaxPending' = MaxPending
    BY <1>2 DEF InCapacity, MaxPending
  <2>2. got' \in 0 .. InCapacity /\ pulled' \in Nat
    BY <1>1, <1>2, <1>5, AdapterTypes DEF InCapacity
  <2> QED
    BY <1>1, <1>2, <2>1, <2>2 DEF TypeOK
<1>7. Staging'
  <2>1. need > 0 /\ got' < need + runtime_block_size
    BY <1>1, <1>2, <1>5, AdapterTypes
  <2> QED
    BY <1>1, <1>2, <1>3, <1>4, <2>1 DEF Staging, Supplied
<1>8. Lost' \in Nat /\ (RatioFits => Lost' = Lost)
  <2>1. Lost' = pulled' - resampler.base - resampler.len - got'
    BY <1>2 DEF Lost
  <2>2. Lost = pulled - resampler.base - resampler.len - got
    BY <1>2 DEF Lost
  <2> QED
    BY <1>1, <1>2, <1>5, <2>1, <2>2, AdapterTypes
<1>9. Position' /\ ExactInterpolation'
  BY <1>1, <1>2 DEF Position, ExactInterpolation
<1> QED
  BY <1>1, <1>6, <1>7, <1>8, <1>9 DEF ResInv

LEMMA PullFailsInv ==
  ASSUME ResInv, PullFails
  PROVE  ResInv' /\ Lost' = Lost + got
<1>1. TypeOK /\ Position /\ Staging /\ Lost \in Nat
  BY DEF ResInv
<1>2. /\ UNCHANGED <<runtime_block_size, input_rate, output_rate, resampler, host_frames, need,
                      got, pulled, outputs>>
      /\ pc = "staging" /\ pc' = "idle" /\ heard' = <<>>
      /\ RatioFits' = RatioFits
  BY DEF PullFails, config, RatioFits
<1>3. End' = End /\ \A k : Required(k)' = Required(k)
  BY <1>2 DEF Required, RequiredAt, End
<1>4. TypeOK'
  BY <1>1, <1>2 DEF TypeOK, InCapacity, MaxPending
<1>5. Staging'
  BY <1>1, <1>2, <1>3 DEF Staging, Supplied
<1>6. Lost' = Lost + got /\ Lost' \in Nat
  <2>1. Lost' = pulled - resampler.base - resampler.len - 0
    BY <1>2 DEF Lost
  <2>2. Lost = pulled - resampler.base - resampler.len - got
    BY <1>2 DEF Lost
  <2>3. got \in Nat /\ pulled \in Nat /\ resampler.base \in Nat /\ resampler.len \in Nat
    BY <1>1, AdapterTypes
  <2>4. Lost' = Lost + got
    BY <2>1, <2>2, <2>3
  <2> QED
    BY <1>1, <2>3, <2>4
<1>7. Position' /\ ExactInterpolation'
  BY <1>1, <1>2 DEF Position, ExactInterpolation
<1> QED
  BY <1>4, <1>5, <1>6, <1>7 DEF ResInv

(* What was staged is counted on; with what was there before it is what the call needs,
   less than a block more, and it fits the window that the resampler keeps. *)
LEMMA PushStagedInv ==
  ASSUME ResInv, PushStaged
  PROVE  ResInv' /\ Lost' = Lost
<1>1. TypeOK /\ Position /\ Staging /\ Lost \in Nat
  BY DEF ResInv
<1>2. /\ UNCHANGED <<runtime_block_size, input_rate, output_rate, host_frames, need, got,
                      pulled, outputs, heard>>
      /\ pc = "staging" /\ pc' = "converting" /\ got >= need
      /\ resampler' = IF got > 0 THEN Push(resampler, got, output_rate, MaxPending)
                                 ELSE resampler
      /\ RatioFits' = RatioFits
  BY DEF PushStaged, config, RatioFits
<1>3. /\ host_frames * Channels <= MaxHostFrames
      /\ Supplied(0)
      /\ need = Larger(0, Required(host_frames) - End)
      /\ got > 0 => need > 0 /\ got < need + runtime_block_size
  BY <1>1, <1>2 DEF Staging
<1>4. /\ input_rate \in Nat \ {0} /\ output_rate \in Nat \ {0}
      /\ RatioFits => input_rate <= 8 * Channels * output_rate
      /\ runtime_block_size \in Nat /\ MaxHostFrames \in Nat \ {0}
      /\ resampler \in [next : Nat, base : Nat, len : Nat]
      /\ resampler.next \in Nat /\ resampler.base \in Nat /\ resampler.len \in Nat
      /\ End \in Nat /\ host_frames \in Nat /\ got \in Nat /\ need \in Nat
      /\ outputs \in Nat /\ pulled \in Nat
      /\ Required(host_frames) \in Int /\ Required(0) \in Int
  BY <1>1, AdapterTypes
<1>5. MaxPending \in Nat /\ MaxPending = MaxHostFrames * 8 + runtime_block_size
  BY <1>4 DEF MaxPending
<1>6. /\ resampler' \in [next : Nat, base : Nat, len : 0 .. MaxPending]
      /\ resampler'.next = resampler.next
      /\ End' = End + got
  <2>1. CASE got = 0
    <3>1. resampler' = resampler
      BY <1>2, <2>1
    <3> QED
      BY <1>1, <1>4, <2>1, <3>1 DEF TypeOK, End
  <2>2. CASE got > 0
    <3> DEFINE q == Push(resampler, got, output_rate, MaxPending)
    <3>1. /\ q \in [next : Nat, base : Nat, len : 0 .. MaxPending]
          /\ q.next = resampler.next
          /\ q.base + q.len = resampler.base + resampler.len + got
      BY <1>4, <1>5, PushCounts
    <3>2. resampler' = q
      BY <1>2, <2>2
    <3> HIDE DEF q
    <3>3. End' = q.base + q.len
      BY <3>2 DEF End
    <3> QED
      BY <3>1, <3>2, <3>3 DEF End
  <2> QED
    BY <1>4, <2>1, <2>2
<1>0. ASSUME RatioFits
      PROVE  resampler'.base <= Larger(0, resampler.next \div output_rate - 1)
  <2>0. resampler.base <= Larger(0, resampler.next \div output_rate - 1)
    BY <1>0, <1>1 DEF Position
  <2>1. CASE got = 0
    <3>1. resampler' = resampler
      BY <1>2, <2>1
    <3> QED
      BY <2>0, <3>1
  <2>2. CASE got > 0
    <3> DEFINE floor == resampler.next \div output_rate
    <3>1. Required(host_frames) <= floor + MaxHostFrames * 8
      BY <1>0, <1>3, <1>4, WindowFits DEF Required
    <3>2. floor \in Int
      BY <1>4, DivRem
    <3>3. End + got < Required(host_frames) + runtime_block_size
      BY <1>3, <1>4, <2>2 DEF Larger
    <3>4. resampler.base + resampler.len + got < floor + MaxPending
      <4> HIDE DEF floor
      <4> QED
        BY <1>4, <1>5, <3>1, <3>2, <3>3 DEF End
    <3>5. Push(resampler, got, output_rate, MaxPending).base <= Larger(0, floor - 1)
      BY <1>4, <1>5, <2>0, <3>4, PushKeeps
    <3> QED
      BY <1>2, <2>2, <3>5
  <2> QED
    BY <1>4, <2>1, <2>2
<1>7. \A n : Required(n)' = Required(n)
  BY <1>2, <1>6 DEF Required
<1>8. Required(host_frames) <= End + got
  BY <1>2, <1>3, <1>4 DEF Larger
<1>9. End + got < Required(host_frames) + runtime_block_size
        \/ (outputs = 0 /\ host_frames = 0 /\ End + got = 0)
  <2>1. CASE got > 0
    BY <1>3, <1>4, <2>1 DEF Larger
  <2>2. CASE got = 0 /\ End < Required(0) + runtime_block_size
    <3>1. Required(0) <= Required(host_frames)
      BY <1>4, RequiredGrows DEF Required
    <3> QED
      BY <1>4, <2>2, <3>1
  <2>3. CASE got = 0 /\ outputs = 0 /\ End = 0
    <3>1. resampler.next = 0
      BY <1>1, <1>4, <2>3 DEF Position
    <3>2. RequiredAt(0, host_frames, input_rate, output_rate) <= 0
      BY <1>8, <2>3, <3>1 DEF Required
    <3>3. 0 + host_frames * input_rate - input_rate + output_rate <= 0 * output_rate
      <4>1. 0 \in Int /\ input_rate \in Nat
        BY <1>4
      <4> QED
        BY <1>4, <3>2, <4>1, RequiredBound
    <3>4. ~(1 <= host_frames)
      <4>1. SUFFICES ASSUME 1 <= host_frames PROVE FALSE
        OBVIOUS
      <4>2. 1 * input_rate <= host_frames * input_rate
        BY <1>4, <4>1, ProductMonotone
      <4>3. 1 * input_rate = input_rate /\ 0 * output_rate = 0
            /\ host_frames * input_rate \in Int
        BY <1>4
      <4> QED
        BY <1>4, <3>3, <4>2, <4>3
    <3> QED
      BY <1>4, <2>3, <3>4
  <2> QED
    BY <1>3, <1>4, <2>1, <2>2, <2>3 DEF Supplied
<1>10. Staging'
  BY <1>2, <1>3, <1>6, <1>7, <1>8, <1>9 DEF Staging, Supplied
<1>11. TypeOK'
  BY <1>1, <1>2, <1>6 DEF TypeOK, InCapacity, MaxPending
<1>12. Position'
  BY <1>0, <1>1, <1>2, <1>6 DEF Position
<1>13. Lost' = Lost
  <2>1. Lost = pulled - resampler.base - resampler.len - got
    BY <1>2 DEF Lost
  <2>2. Lost' = pulled - resampler'.base - resampler'.len - 0
    BY <1>2 DEF Lost
  <2>3. resampler'.base \in Nat /\ resampler'.len \in Nat
    BY <1>6
  <2>4. resampler'.base + resampler'.len = resampler.base + resampler.len + got
    BY <1>6 DEF End
  <2> QED
    BY <1>4, <2>1, <2>2, <2>3, <2>4
<1>14. ExactInterpolation'
  BY <1>2 DEF ExactInterpolation
<1> QED
  BY <1>1, <1>10, <1>11, <1>12, <1>13, <1>14 DEF ResInv

(* What a call hears is ideal, sample by sample. *)
LEMMA HeardIdeal ==
  ASSUME ResInv, RatioFits, Convert
  PROVE  \A f \in 0 .. host_frames - 1 :
           IsIdeal(heard'[f], (outputs + f) * input_rate, output_rate)
<1>1. TypeOK /\ Position /\ Staging
  BY DEF ResInv
<1>2. /\ heard' = [f \in 0 .. host_frames - 1 |->
                        Interpolate(resampler, resampler.next + f * input_rate, output_rate)]
      /\ pc = "converting"
  BY DEF Convert
<1>3. /\ input_rate \in Nat \ {0} /\ output_rate \in Nat \ {0}
      /\ resampler \in [next : Nat, base : Nat, len : Nat]
      /\ host_frames \in Nat /\ outputs \in Nat
  BY <1>1, AdapterTypes
<1>4. RequiredAt(resampler.next, host_frames, input_rate, output_rate)
        <= resampler.base + resampler.len
  BY <1>1, <1>2 DEF Staging, Required, End
<1>5. resampler.base <= Larger(0, resampler.next \div output_rate - 1)
  BY <1>1 DEF Position
<1> SUFFICES ASSUME NEW f \in 0 .. host_frames - 1
             PROVE  IsIdeal(heard'[f], (outputs + f) * input_rate, output_rate)
  OBVIOUS
<1>6. resampler.next + f * input_rate = (outputs + f) * input_rate
  <2>1. resampler.next = outputs * input_rate /\ f \in Int
    BY <1>1, <1>3 DEF Position
  <2> QED
    BY <1>3, <2>1
<1>7. heard'[f] = Interpolate(resampler, resampler.next + f * input_rate, output_rate)
  BY <1>2
<1>8. IsIdeal(Interpolate(resampler, resampler.next + f * input_rate, output_rate),
              resampler.next + f * input_rate, output_rate)
  BY <1>3, <1>4, <1>5, InterpolateExact
<1> QED
  BY <1>6, <1>7, <1>8

LEMMA ConvertInv ==
  ASSUME ResInv, Convert
  PROVE  ResInv' /\ Lost' = Lost
<1>1. TypeOK /\ Position /\ Staging /\ Lost \in Nat
  BY DEF ResInv
<1>2. /\ UNCHANGED <<runtime_block_size, input_rate, output_rate, host_frames, need, got, pulled>>
      /\ pc = "converting" /\ pc' = "idle"
      /\ heard' = [f \in 0 .. host_frames - 1 |->
                        Interpolate(resampler, resampler.next + f * input_rate, output_rate)]
      /\ resampler' = [resampler EXCEPT !.next = @ + host_frames * input_rate]
      /\ outputs' = outputs + host_frames
      /\ RatioFits' = RatioFits
  BY DEF Convert, config, RatioFits
<1>3. /\ input_rate \in Nat \ {0} /\ output_rate \in Nat \ {0}
      /\ resampler \in [next : Nat, base : Nat, len : Nat]
      /\ resampler.next \in Nat /\ resampler.base \in Nat /\ resampler.len \in Nat
      /\ host_frames \in Nat /\ outputs \in Nat /\ pulled \in Nat
  BY <1>1, AdapterTypes
<1>4. /\ resampler'.base = resampler.base /\ resampler'.len = resampler.len
      /\ resampler'.next = resampler.next + host_frames * input_rate
      /\ host_frames * input_rate \in Nat
      /\ End' = End
  BY <1>2, <1>3 DEF End
<1>5. TypeOK'
  <2>1. resampler \in [next : Nat, base : Nat, len : 0 .. MaxPending]
    BY <1>1 DEF TypeOK
  <2>2. resampler.next + host_frames * input_rate \in Nat
    BY <1>3, <1>4
  <2>3. resampler' \in [next : Nat, base : Nat, len : 0 .. MaxPending]
    BY <1>2, <2>1, <2>2
  <2>4. outputs' \in Nat
    BY <1>2, <1>3
  <2> QED
    BY <1>1, <1>2, <2>3, <2>4 DEF TypeOK, InCapacity, MaxPending
<1>6. Position'
  <2>1. resampler'.next = outputs' * input_rate
    <3>1. (outputs + host_frames) * input_rate
            = outputs * input_rate + host_frames * input_rate
      BY <1>3
    <3> QED
      BY <1>1, <1>2, <1>4, <3>1 DEF Position
  <2> DEFINE a == resampler.next \div output_rate
             b == resampler'.next \div output_rate
  <2>2. a \in Int /\ b \in Int /\ a <= b
    <3>1. resampler'.next \in Int /\ resampler.next <= resampler'.next
      BY <1>3, <1>4
    <3>2. /\ \A x \in Int : x \div output_rate \in Int
          /\ resampler.next \in Int
      BY <1>3, DivRem
    <3>3. a \in Int /\ b \in Int
      BY <3>1, <3>2
    <3>4. a <= b
      BY <1>3, <3>1, <3>2, FloorMonotone
    <3> QED
      BY <3>3, <3>4
  <2>3. RatioFits => resampler.base <= Larger(0, a - 1)
    BY <1>1 DEF Position
  <2> HIDE DEF a, b
  <2>4. RatioFits => resampler'.base <= Larger(0, b - 1)
    BY <1>3, <1>4, <2>2, <2>3 DEF Larger
  <2> QED
    BY <1>2, <2>1, <2>4 DEF b, Position
<1>7. Required(0)' = Required(host_frames)
  <2>1. (host_frames - 1) * input_rate = host_frames * input_rate - input_rate
        /\ (0 - 1) * input_rate = 0 - input_rate
    BY <1>3
  <2> DEFINE hi == host_frames * input_rate
             hj == (host_frames - 1) * input_rate
             m == (0 - 1) * input_rate
  <2>2. hi \in Nat /\ hj = hi - input_rate /\ m = 0 - input_rate
        /\ resampler'.next = resampler.next + hi
    BY <1>4, <2>1
  <2> HIDE DEF hi, hj, m
  <2>3. resampler'.next + m + output_rate = resampler.next + hj + output_rate
    BY <1>3, <2>2
  <2> QED
    BY <1>2, <2>3 DEF Required, RequiredAt, hj, m
<1>8. Staging'
  BY <1>1, <1>2, <1>3, <1>4, <1>7 DEF Staging, Supplied
<1>9. Lost' = Lost
  BY <1>2, <1>4 DEF Lost
<1>10. ExactInterpolation'
  <2>1. DOMAIN heard' = 0 .. host_frames - 1
    BY <1>2
  <2> SUFFICES ASSUME RatioFits, NEW f \in 0 .. host_frames - 1
               PROVE  LET o == heard'[f]
                          ideal == Ideal(outputs - host_frames + f)'
                      IN  /\ o.frac = ideal.frac
                          /\ o.left = ideal.left
                          /\ o.frac # 0 => o.right = ideal.left + 1
    BY <1>2, <2>1 DEF ExactInterpolation
  <2>2. outputs' - host_frames' + f = outputs + f
    BY <1>2, <1>3
  <2> QED
    BY <1>2, <2>2, HeardIdeal DEF Ideal, IsIdeal
<1> QED
  BY <1>1, <1>5, <1>6, <1>8, <1>9, <1>10 DEF ResInv

LEMMA NextResInv == ResInv /\ [Next]_vars => ResInv'
<1> SUFFICES ASSUME ResInv, [Next]_vars PROVE ResInv'
  OBVIOUS
<1>1. CASE PullBlock
  BY <1>1, PullBlockInv
<1>2. CASE PushStaged
  BY <1>2, PushStagedInv
<1>3. CASE Convert
  BY <1>3, ConvertInv
<1>4. CASE PullFails
  BY <1>4, PullFailsInv
<1>5. CASE \E n \in 0 .. MaxHostFrames : Call(n)
  BY <1>5, CallInv
<1>6. CASE UNCHANGED vars
  BY <1>6 DEF vars, config, ResInv, TypeOK, Position, Staging, Supplied, Required, End, Lost,
     ExactInterpolation, Ideal, InCapacity, MaxPending, RatioFits
<1> QED
  BY <1>1, <1>2, <1>3, <1>4, <1>5, <1>6 DEF Next, Fill

(* Every reachable state satisfies the inductive invariant. *)
THEOREM ResamplingCorrect == Spec => []ResInv
<1>1. Init => ResInv
  BY InitResInv
<1>2. ResInv /\ [Next]_vars => ResInv'
  BY NextResInv
<1> QED
  BY <1>1, <1>2, PTL DEF Spec

(* TypeOK: whatever the rates, the block and the host's buffers, steep ratios and empty
   blocks included, what a call stages stays within resample_in and what the resampler
   keeps within max_pending. *)
THEOREM AdapterTypeCorrect == Spec => []TypeOK
<1>1. ResInv => TypeOK
  BY DEF ResInv
<1> QED
  BY <1>1, ResamplingCorrect, PTL

(* StagingFits: up to 8 input samples for each output of every channel, every call finds
   room for all it needs and the rest of its last block: the end of resample_in, where
   blocks are cut off and staging would not end, is never reached. *)
THEOREM StagingAlwaysFits == Spec => []StagingFits
<1>1. ASSUME ResInv PROVE StagingFits
  <2> SUFFICES ASSUME RatioFits, pc = "staging"
               PROVE  need + runtime_block_size <= InCapacity
    BY DEF StagingFits
  <2>1. need <= MaxHostFrames * 8
    BY <1>1 DEF ResInv, Staging
  <2> QED
    BY <1>1, <2>1, AdapterTypes DEF ResInv, InCapacity
<1> QED
  BY <1>1, ResamplingCorrect, PTL

(* ExactInterpolation: up to that ratio the k-th sample heard interpolates the two inputs around
   k * input_rate / output_rate, however the host cuts the stream into buffers. *)
THEOREM ConvertsExactly == Spec => []ExactInterpolation
<1>1. ResInv => ExactInterpolation
  BY DEF ResInv
<1> QED
  BY <1>1, ResamplingCorrect, PTL

(* LookaheadBounded: between calls the resampler has less than a block more than the next
   output asks for. *)
THEOREM LittleAhead == Spec => []LookaheadBounded
<1>1. ASSUME ResInv PROVE LookaheadBounded
  <2>1. TypeOK /\ Staging
    BY <1>1 DEF ResInv
  <2>2. input_rate \in Nat /\ resampler.next \in Nat /\ output_rate \in Nat
    BY <2>1, AdapterTypes
  <2>3. resampler.next + (0 - 1) * input_rate + output_rate
          = resampler.next - input_rate + output_rate
    BY <2>2
  <2>4. Required(0) = CeilDiv(resampler.next - input_rate + output_rate, output_rate)
    BY <2>3 DEF Required, RequiredAt
  <2>5. SUFFICES ASSUME pc = "idle", outputs > 0
                 PROVE  End < Required(0) + runtime_block_size
    BY <2>4 DEF LookaheadBounded, End
  <2> QED
    BY <2>1, <2>5, AdapterTypes DEF Staging, Supplied
<1> QED
  BY <1>1, ResamplingCorrect, PTL

-----------------------------------------------------------------------------
\* The stream the device hears.

\* What the refinement mapping of Stream makes of what was interpolated.
Mapped(o) == IF o.frac = 0 THEN [o EXCEPT !.right = o.left] ELSE o

\* Output k of Stream, in terms of the adapter's rates.
Ideally(k) ==
  LET left == (k * input_rate) \div output_rate
  IN  Stream!Interpolated(left, left + 1, (k * input_rate) % output_rate)

LEMMA MappedIdeal ==
  ASSUME NEW o, NEW pos, NEW out, IsIdeal(o, pos, out)
  PROVE  Mapped(o) = Stream!Interpolated(pos \div out, pos \div out + 1, pos % out)
<1> DEFINE p == pos \div out
           m == pos % out
<1>1. /\ o = [left |-> o.left, right |-> o.right, frac |-> o.frac]
      /\ o.left = p /\ o.frac = m /\ (m # 0 => o.right = p + 1)
  BY DEF IsIdeal
<1> HIDE DEF p, m
<1>2. o = [left |-> p, right |-> o.right, frac |-> m]
  BY <1>1
<1>3. Mapped(o) = [left |-> p, right |-> IF m = 0 THEN p ELSE p + 1, frac |-> m]
  <2>1. CASE m = 0
    <3>1. Mapped(o) = [o EXCEPT !.right = p]
      BY <1>1, <2>1 DEF Mapped
    <3>2. [o EXCEPT !.right = p] = [left |-> p, right |-> p, frac |-> m]
      BY <1>2
    <3> QED
      BY <2>1, <3>1, <3>2
  <2>2. CASE m # 0
    BY <1>1, <1>2, <2>2 DEF Mapped
  <2> QED
    BY <2>1, <2>2
<1> QED
  BY <1>3 DEF p, m, Stream!Interpolated

LEMMA InitImplements == Init => Stream!Init
<1> SUFFICES ASSUME Init PROVE Stream!Init
  OBVIOUS
<1>1. ResInv
  BY InitResInv
<1>2. input_rate \in Nat \ {0} /\ output_rate \in Nat \ {0}
  BY <1>1, AdapterTypes DEF ResInv
<1>3. Heard = <<>>
  BY DEF Init, Heard
<1>4. Lost = 0
  BY DEF Init, Lost, NewResampler
<1> QED
  BY <1>2, <1>3, <1>4 DEF Init, Stream!Init

(* At a steeper ratio than that of RatioFits the mapping does not move. *)
LEMMA UnclaimedStutters ==
  ASSUME ~RatioFits, [Next]_vars PROVE UNCHANGED Stream!vars
<1>1. UNCHANGED <<input_rate, output_rate>>
  BY DEF Next, Fill, PullBlock, PushStaged, Convert, PullFails, Call, config, vars
<1>2. ~RatioFits'
  BY <1>1 DEF RatioFits
<1> QED
  BY <1>1, <1>2 DEF Stream!vars

(* Only the end of a call is visible: it delivers the next outputs, or it is silent and
   what was staged for it is lost.  Staging and pushing are stutters. *)
LEMMA NextImplements ==
  ASSUME ResInv, RatioFits, [Next]_vars PROVE [Stream!Next]_(Stream!vars)
<1>1. TypeOK /\ Staging /\ Lost \in Nat
  BY DEF ResInv
<1>0. RatioFits' /\ UNCHANGED <<input_rate, output_rate>>
  BY DEF Next, Fill, PullBlock, PushStaged, Convert, PullFails, Call, config, vars,
     RatioFits
<1>2. CASE PullBlock
  BY <1>0, <1>2, PullBlockInv DEF PullBlock, Stream!vars, Heard
<1>3. CASE PushStaged
  BY <1>0, <1>3, PushStagedInv DEF PushStaged, Stream!vars, Heard
<1>4. ASSUME NEW n \in 0 .. MaxHostFrames, Call(n) PROVE UNCHANGED Stream!vars
  BY <1>0, <1>4, CallInv DEF Call, Stream!vars, Heard
<1>5. CASE PullFails
  <2>1. Lost' \in Nat /\ Lost' >= Lost
    <3>1. Lost' = Lost + got /\ got \in Nat
      BY <1>1, <1>5, PullFailsInv, AdapterTypes
    <3> QED
      BY <1>1, <3>1
  <2>2. heard' = <<>> /\ UNCHANGED outputs
    BY <1>5 DEF PullFails
  <2>3. Heard' = <<>>
    BY <2>2 DEF Heard
  <2>4. Stream!Interrupt
    BY <1>0, <2>1, <2>2, <2>3 DEF Stream!Interrupt
  <2> QED
    BY <2>4 DEF Stream!Next
<1>6. CASE Convert
  <2>1. outputs' = outputs + host_frames /\ DOMAIN heard' = 0 .. host_frames - 1
    BY <1>6 DEF Convert
  <2>2. Lost' = Lost
    BY <1>6, ConvertInv
  <2>3. \A f \in 0 .. host_frames - 1 : Mapped(heard'[f]) = Ideally(outputs + f)
    BY <1>6, HeardIdeal, MappedIdeal DEF Ideally
  <2>4. Heard' = [f \in 0 .. host_frames - 1 |-> Ideally(outputs + f)]
    <3>1. Heard' = [f \in 0 .. host_frames - 1 |-> Mapped(heard'[f])]
      BY <2>1 DEF Heard, Mapped
    <3> QED
      BY <2>3, <3>1
  <2>5. ASSUME NEW n \in 0 .. MaxHostFrames, n = host_frames
        PROVE  Stream!Deliver(n)
    BY <1>0, <2>1, <2>2, <2>4, <2>5 DEF Stream!Deliver, Stream!Output, Ideally
  <2>6. \E n \in 0 .. MaxHostFrames : n = host_frames
    BY <1>1 DEF TypeOK
  <2>7. \E n \in 0 .. MaxHostFrames : Stream!Deliver(n)
    BY <2>5, <2>6
  <2> QED
    BY <2>7, Zenon DEF Stream!Next
<1>7. CASE UNCHANGED vars
  BY <1>0, <1>7 DEF vars, config, Stream!vars, Lost, Heard
<1> QED
  BY <1>2, <1>3, <1>4, <1>5, <1>6, <1>7 DEF Next, Fill

(* Implements: up to the ratio of RatioFits the adapter, seen from the device, is
   ResampledStream.  Every buffer is
   silent or made of the next ideal outputs, and samples of the runtime are lost only in
   a call that fails: no block is cut off, and what is staged beyond the need is kept. *)
THEOREM ResampledStreamImplemented == Spec => Implements
<1>1. Init => Stream!Init
  BY InitImplements
<1>2. ResInv /\ [Next]_vars => [Stream!Next]_(Stream!vars)
  BY NextImplements, UnclaimedStutters
<1> QED
  BY ResamplingCorrect, <1>1, <1>2, PTL DEF Spec, Implements, Stream!Spec

=============================================================================
