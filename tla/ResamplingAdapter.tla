------------------------- MODULE ResamplingAdapter -------------------------
(***************************************************************************)
(* fill_inner of BufferSizeAdapter when the device runs at another rate    *)
(* than the runtime (buffer_size_adapter.rs): a call computes how many     *)
(* input samples it needs, stages whole runtime blocks until it has them,  *)
(* pushes them into the resampler and interpolates one sample per device   *)
(* frame.  Runtime samples are represented by their index in the stream of *)
(* samples pushed into the resampler; routing is that of BufferSizeAdapter.*)
(***************************************************************************)
EXTENDS LinearResampler

CONSTANTS MaxHostFrames,  \* MAX_HOST_FRAMES
          Channels,       \* device channels
          BlockSizes,     \* the block sizes a runtime may have
          Rates,          \* pairs of runtime rate and device rate
          MaxOutputs,     \* bound: no call starts once this many were produced
          MaxLost         \* bound: no call starts, and no block is pulled, once
                          \* this many were lost

ASSUME ResamplingAssumption ==
  /\ MaxHostFrames \in Nat \ {0}
  /\ Channels \in Nat \ {0}
  /\ BlockSizes \subseteq Nat
  /\ Rates \subseteq (Nat \ {0}) \X (Nat \ {0})
  /\ \A r \in Rates : r[1] # r[2]
  /\ MaxOutputs \in Nat
  /\ MaxLost \in Nat

VARIABLES runtime_block_size, input_rate, output_rate,
          resampler,    \* a record of LinearResampler
          pc,           \* where the callback is
          host_frames,  \* frames the host asks for
          need,         \* input samples this call has to stage
          got,          \* input samples staged in resample_in
          pulled,       \* history: samples the runtime has produced
          outputs,      \* device samples produced since the stream began
          heard         \* what the last call interpolated; nothing if it failed

config == <<runtime_block_size, input_rate, output_rate>>
vars == <<config, resampler, pc, host_frames, need, got, pulled, outputs, heard>>

\* The ratio that the eight input samples resample_in has for each sample of a host
\* buffer are enough for.  Nothing in the code compares the rates with it, nor refuses
\* a block without samples.
RatioFits == input_rate <= 8 * Channels * output_rate

\* Mutant: no room is left for the rest of the last block.
InCapacityExact == MaxHostFrames * 8

\* The lengths of resample_in and resample_out, and the resampler's max_pending.
InCapacity == MaxHostFrames * 8 + runtime_block_size
OutCapacity == MaxHostFrames + runtime_block_size
MaxPending == MaxHostFrames * 8 + runtime_block_size

Init ==
  /\ runtime_block_size \in BlockSizes
  /\ \E r \in Rates : input_rate = r[1] /\ output_rate = r[2]
  /\ resampler = NewResampler
  /\ pc = "idle"
  /\ host_frames = 0
  /\ need = 0
  /\ got = 0
  /\ pulled = 0
  /\ outputs = 0
  /\ heard = <<>>

\* What the runtime has produced and is neither staged nor pushed.
Lost == pulled - resampler.base - resampler.len - (IF pc = "staging" THEN got ELSE 0)

\* Mutant: the frames of the buffer are compared with MAX_HOST_FRAMES, not its samples.
CallByFrames(n) ==
  /\ pc = "idle"
  /\ outputs < MaxOutputs
  /\ Lost < MaxLost
  /\ n <= MaxHostFrames
  /\ host_frames' = n
  /\ need' = InputNeededFor(resampler, n, input_rate, output_rate)
  /\ got' = 0
  /\ pc' = "staging"
  /\ UNCHANGED <<config, resampler, pulled, outputs, heard>>

\* run_callback lets a buffer of at most MAX_HOST_FRAMES samples pass.
Call(n) ==
  /\ pc = "idle"
  /\ outputs < MaxOutputs
  /\ Lost < MaxLost
  /\ n * Channels <= MaxHostFrames
  /\ host_frames' = n
  /\ need' = InputNeededFor(resampler, n, input_rate, output_rate)
  /\ got' = 0
  /\ pc' = "staging"
  /\ UNCHANGED <<config, resampler, pulled, outputs, heard>>

\* Mutant: a block is staged only when all of it fits what is needed.
PullWhileFits ==
  /\ pc = "staging"
  /\ Lost < MaxLost
  /\ got + runtime_block_size <= need
  /\ got' = got + runtime_block_size
  /\ pulled' = pulled + runtime_block_size
  /\ UNCHANGED <<config, resampler, pc, host_frames, need, outputs, heard>>

\* Mutant: one block too many is staged when the last one filled the need.
PullWhileNotAbove ==
  /\ pc = "staging"
  /\ Lost < MaxLost
  /\ got <= need
  /\ got' = Smaller(got + runtime_block_size, InCapacity)
  /\ pulled' = pulled + runtime_block_size
  /\ UNCHANGED <<config, resampler, pc, host_frames, need, outputs, heard>>

\* The part of a block that no longer fits into resample_in is cut off.  An empty
\* block, or one of which nothing fits, leaves got as it is: the loop goes on pulling.
PullBlock ==
  /\ pc = "staging"
  /\ Lost < MaxLost
  /\ got < need
  /\ got' = Smaller(got + runtime_block_size, InCapacity)
  /\ pulled' = pulled + runtime_block_size
  /\ UNCHANGED <<config, resampler, pc, host_frames, need, outputs, heard>>

\* The error leaves fill_inner at once: the staged blocks are lost and the host
\* gets silence.
PullFails ==
  /\ pc = "staging"
  /\ got < need
  /\ heard' = <<>>
  /\ pc' = "idle"
  /\ UNCHANGED <<config, resampler, host_frames, need, got, pulled, outputs>>

PushStaged ==
  /\ pc = "staging"
  /\ got >= need
  /\ resampler' = IF got > 0 THEN Push(resampler, got, output_rate, MaxPending)
                             ELSE resampler
  /\ pc' = "converting"
  /\ UNCHANGED <<config, host_frames, need, got, pulled, outputs, heard>>

\* resampler.pull and the frames of the host's buffer.
Convert ==
  /\ pc = "converting"
  /\ host_frames <= OutCapacity
  /\ heard' = [f \in 0 .. host_frames - 1 |->
                        Interpolate(resampler, resampler.next + f * input_rate, output_rate)]
  /\ resampler' = [resampler EXCEPT !.next = @ + host_frames * input_rate]
  /\ outputs' = outputs + host_frames
  /\ pc' = "idle"
  /\ UNCHANGED <<config, host_frames, need, got, pulled>>

Fill == PullBlock \/ PushStaged \/ Convert

Next == Fill \/ PullFails \/ \E n \in 0 .. MaxHostFrames : Call(n)

Spec == Init /\ [][Next]_vars

\* The audio thread runs on inside a callback; the runtime need not ever fail.
FairSpec == Spec /\ WF_vars(Fill)

-----------------------------------------------------------------------------

(* The type invariant: the staged and the pending samples fit the buffers that
   were allocated for them when the stream was built. *)
TypeOK ==
  /\ runtime_block_size \in BlockSizes
  /\ <<input_rate, output_rate>> \in Rates
  /\ resampler \in [next : Nat, base : Nat, len : 0 .. MaxPending]
  /\ pc \in {"idle", "staging", "converting"}
  /\ host_frames \in 0 .. MaxHostFrames
  /\ need \in Nat
  /\ got \in 0 .. InCapacity
  /\ pulled \in Nat
  /\ outputs \in Nat

(* Up to the ratio of RatioFits every call finds room in resample_in for what it needs
   and for the rest of the block that completes it, whatever earlier calls left in the
   resampler: no block is cut off, and staging comes to an end. *)
StagingFits ==
  RatioFits /\ pc = "staging" => need + runtime_block_size <= InCapacity

\* The samples and the weight of the k-th output of an ideal converter.
Ideal(k) == [left |-> (k * input_rate) \div output_rate,
             frac |-> (k * input_rate) % output_rate]

(* Conversion is exact whatever the host's buffer sizes: up to the ratio of RatioFits
   the k-th sample heard interpolates the inputs around k * input_rate / output_rate,
   neither a sample that was dropped too early nor the held last one in place of a
   missing one.  (At a steeper ratio a call whose rest and large block do fill
   resample_in pushes more than max_pending holds, and samples still to be heard are
   trimmed.) *)
ExactInterpolation ==
  RatioFits /\ pc = "idle" =>
    \A f \in DOMAIN heard :
      LET o == heard[f]
          ideal == Ideal(outputs - host_frames + f)
      IN  /\ o.frac = ideal.frac
          /\ o.left = ideal.left
          /\ o.frac # 0 => o.right = ideal.left + 1

(* The resampler runs less than a block ahead of the sample it needs next, so
   converting adds no more latency than the block the runtime works with. *)
LookaheadBounded ==
  pc = "idle" /\ outputs > 0 =>
    resampler.base + resampler.len
      < CeilDiv(resampler.next - input_rate + output_rate, output_rate)
          + runtime_block_size

(* Seen from the device, the adapter is ResampledStream: outputs are ideal and samples
   of the runtime are lost only in a call that fails, whose buffer is silent.  No block
   is cut off at the end of resample_in, and what a successful call has staged beyond
   its need is there for the next one.  It is claimed up to the ratio of RatioFits, which
   does not change while the stream runs; at a steeper one the mapping shows a stream
   that has not begun. *)
Heard == [f \in DOMAIN heard |->
            IF heard[f].frac = 0 THEN [heard[f] EXCEPT !.right = heard[f].left] ELSE heard[f]]
Stream == INSTANCE ResampledStream
  WITH MaxFrames <- MaxHostFrames,
       heard <- IF RatioFits THEN Heard ELSE <<>>,
       outputs <- IF RatioFits THEN outputs ELSE 0,
       lost <- IF RatioFits THEN Lost ELSE 0
Implements == Stream!Spec

(* A call that resample_in has room for ends, if the runtime's blocks are not empty;
   by StagingFits that is every call up to the ratio of RatioFits.  Of the others nothing
   is claimed: they stage empty blocks, or the nothing that is left to stage at the end of
   resample_in, until the runtime fails. *)
CallReturns ==
  pc = "staging" /\ runtime_block_size > 0 /\ need <= InCapacity ~> pc = "idle"
=============================================================================
