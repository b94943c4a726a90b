# Verification of auxide-io

auxide-io plays the audio graph of an auxide `Runtime` (or `RuntimeHandle`) on a
device opened with cpal. This directory holds TLA+ modules translated from the
Rust sources, the TLC configurations that check them on small instances, and
TLAPS proofs of the properties that matter most. Source lines below are those of
`src/`.

## 1. Inventory

| Component | State | Operations |
|---|---|---|
| `buffer_size_adapter.rs`, equal rates | `ring_buffer` of `4 * MAX_HOST_FRAMES` samples, `read_pos`, `write_pos`, `glitch_count` | `fill_passthrough`, `available` |
| `buffer_size_adapter.rs` + `resampler.rs`, other rates | `resample_in`, `resample_out`; the resampler's `next_idx`, `pending`, `pending_base` | `fill_inner`, `push`, `pull`, `input_needed_for` |
| `channel_router.rs` | none | `ChannelMap::apply` |
| `stream_controller.rs`, lifecycle | `stream`, `input_stream`, `state`, `error_flag`, `recovery_needed`, `handle_store` | `play*`, `start`, `stop`, `recover`, `restart`, `clear_error`, drop; `run_callback` and the error callbacks |
| `stream_state.rs` | one atomic byte | `set_state`, `get_state` |
| `error_recovery.rs` | none | `handle_process_error` |
| `recorder.rs`, input streams | `buf` behind a mutex | `push_block`, `save_wav` |
| `stream_controller.rs`, transport | two mutexes, `clock` and `last` | `tick`, `set_clock`, `sample` |
| `stream_controller.rs`, diagnostics | counters, peak, latency (all Relaxed atomics) | `update_peak`, `update_latency`, `diagnostics` |
| `device_management.rs`, rate negotiation | none | `get_best_sample_rate`, `build_output_stream`'s search for a configuration |
| auxide (external crate) | the graph's position in its stream | `process_block`, which may fail or panic |
| cpal (external crate) | streams and their threads | build, `play`, `pause`, drop; data and error callbacks |

**How they interact.** The application's thread calls the controller. Each open
cpal stream calls back on a thread of its own: `run_callback` ticks the
transport, checks the buffer's size, loads `state` and, when it is `Running`,
calls the fill closure. On the handle path the closure locks `handle_store` and
runs the adapter over the runtime; the adapter is owned by the closure, so each
stream has its own. Threads communicate only by the atomics (`state`,
`error_flag`, `recovery_needed`, the counters), the mutexes and by dropping a
stream, which waits for the callback in progress.

**What is hard.** (a) `restart` plays the new stream while the old one is still
alive, so two callbacks compete for one runtime and one set of flags. (b) Dropping
a stream blocks on a thread that may block on `handle_store`. (c) `recover`
clears flags that a callback may be about to set. (d) The fill loops have
nested conditions over two positions that wrap around, driven by host buffers of
any size and by a runtime that may fail between any two blocks. (e) The
resampler must count its look-ahead exactly or it interpolates towards a
placeholder. (f) A device may vanish at any step, and each of a
constructor's queries about devices may see another host than the one before.
(g) Every stream has a ring of its own in front of one runtime, so replacing a
stream splits the runtime's samples. (h) Input callbacks append to a recorder
that the application exports under the same mutex. `PROJECT.json` lists every
hazard at its line.

**What makes each component correct.**
The adapter plays the runtime's stream in order and without gaps, a callback's
buffer is complete or silent, latency is less than a block and the callback
always returns. The resampler's output does not depend on the chunking. The
controller never leaks a stream, never hands unwritten memory to the device,
never loses the report of a failure and never deadlocks; an application that follows
the README gets its sound back.
Across streams no sample of the runtime is played twice and replacing a stream costs
less than a block. Whatever device a stream ends up on, it sounds at the right
pitch. A recording has every captured sample, in order and on its channel.

## 2. Modules

| Module | Models | Notes |
|---|---|---|
| `ChannelRouter` | `ChannelMap::apply` | operators on frames |
| `SampleStream` | what the listener is promised | the abstract specification: no ring, no blocks |
| `BufferSizeAdapter` | `run_callback`'s size check and error path around `fill_passthrough` | implements `SampleStream` |
| `LinearResampler` | index arithmetic of `resampler.rs` | operators on a record |
| `ResampledStream` | what the listener is promised at other rates | abstract: ideal interpolation, no staging, no window |
| `ResamplingAdapter` | the resampling path of `fill_inner` | uses `LinearResampler`, implements `ResampledStream` |
| `StreamController` | the lifecycle against the callbacks | one step per shared access |
| `RecoveryLoop` | the application of `README.md:136-146` | `StreamController` restricted to that client, with its fairness |
| `Handover` | `StreamController` with the adapter of every stream | the composition on the handle path at equal rates |
| `Negotiation` | device and rate of constructors and `restart`, `get_best_sample_rate`, the search for a configuration | one step per query of the host |
| `Recording` | input streams, their callbacks, `Recorder` and its export | sample by sample, under the recorder's mutex |
| `Transport` | `TransportState` between callbacks and application | both mutexes, panics and poisoning |
| `Diagnostics` | counters, `update_peak`, `diagnostics()` | one step per access to an atomic |
| `BufferSizeAdapterProofs`, `ResamplingAdapterProofs`, `StreamControllerProofs`, `HandoverProofs`, `NegotiationProofs`, `RecordingProofs`, `TransportProofs`, `DiagnosticsProofs` | theorems and proofs | see section 5 |
| `MC*` | constants for TLC | |

### BufferSizeAdapter

Every iteration of the loops of `fill_passthrough` is a step. A sample is
represented by its position in the runtime's stream, so a cell that is repeated,
lost or out of order is visible; 0 is silence and `Stale` is what the host left
in its buffer. `pc` is `called` in `run_callback`, `filling` at the head of the
outer loop, `copying` in the inner one and `done` on the way out. `PullFails`
is an error of `process_block`: fill returns it and `run_callback` silences the
whole buffer, in one step because nothing else can look at the buffer. `first`
is a history variable (the sample that was due when the call began) and
`delivered` is the buffer the device took.

The refinement maps `SampleStream!next` to the sample that the stream continues
with between calls and to `first` during one: the callback takes effect when it
returns.

Every caller in the crate passes 2 channels, so the error for 0 channels
(lines 112 to 120) is not modelled; the proofs hold for any positive number. A
host buffer whose length is not a multiple of the channels is not modelled.

### ResamplingAdapter

Input samples are their index among those pushed into the resampler. Positions
are exact rationals (`next` counts units of 1/output rate) where the code has an
f64 advanced by repeated addition; accumulated rounding is out of reach. Each
block staged is a step, `PushStaged` is the push and `Convert` the pull with the
writing of the frames. `InCapacity` and `OutCapacity` are the lengths of the
buffers allocated by `new`; `Convert` is enabled only when the output fits.
`pulled` counts what the runtime has produced; what is neither staged nor pushed is
`Lost`.

Blocks may be empty and ratios as steep as they like, because nothing in the code
refuses them. `RatioFits` (at most `8 * Channels` input samples for each device frame)
names the ratios for which `resample_in`, eight samples for each sample of the host's
buffer, is long enough. Beyond it a call may need more than can be staged: the loop of
lines 138 to 143 then takes blocks of which nothing is left, as it takes empty ones, and
spins until the runtime fails; and a call that does fill the buffer may push
more than `max_pending`, which trims samples still to be heard. `StagingFits`,
`ExactInterpolation` and `Implements` are therefore claimed under `RatioFits`,
`CallReturns` for calls that have room and blocks that are not empty, `TypeOK` and
`LookaheadBounded` always. Without the condition each of the former is violated.

`ResampledStream` has the position in the output stream, the last buffer and the
number of lost samples. The refinement takes `lost` from `Lost` and drops the right
neighbour of an output without weight. It says that a call which succeeds loses no
sample, neither those staged beyond its need nor the part of a block beyond the end of
`resample_in`, and that a call which fails leaves the phase where it was.

### StreamController

`ctl` is the program counter of the application's thread, `cb[s]` that of
stream s's callback: `size` (the check of the buffer's length and the load of
`state`), `lock` (waiting for `handle_store`), `fill`, `raise` (the error path)
and `return`. `pending[s]` holds the two Relaxed stores of the error path, which
other threads may see in either order. `store` tells the handle path (TRUE) from
the legacy one. `Init` covers all constructors: `play*`, `play_handle*`,
`play_duplex` and `play_input`.

Of cpal the model assumes what the crate relies on: an open stream may call back
whether it plays or not (some backends start a stream when it is built), a drop
lets no new callback begin and returns when the one in progress has returned, an
error callback does not run together with the data callback of its stream, a
lost device ends its streams after an error callback, `play` fails on such a
stream. A panic in the runtime ends the stream's thread and poisons the mutex;
the drop of such a stream still returns. Stream identities are reused once
dropped, so two suffice: `restart` never has more than the old and the new one.

The choice of device and configuration inside `restart` is reduced to success or
failure. The build and the `play` of `restart`, and the `play` of `start`, may fail at any
time, with the device there or not: the default device may have changed, lack the cached
rate, or be busy. The input stream appears by its
`play`/`pause` state and its error callback.

### Handover

`StreamController`'s actions (without panics and on the handle path) with
`produced`, the position of the runtime, and `ring[s]`, the samples that wait in the
adapter of stream s. `Serve` is a whole fill: it takes the ring first and then pulls
blocks, which is what `RingInOrder` and `Implements` of `BufferSizeAdapter` establish
step by step; one step is enough because the handle's mutex is held throughout.
`Rebuild` gives the new stream an empty ring, `Release` discards the ring of the
dropped one, every other step of the controller leaves the samples alone.
`overlapped` is history: `restart` was called while the old stream still sounded.
Both then draw blocks in turn, and what is heard is out of order; `InOrder` makes this
exception and no other.

### Negotiation

Every query of the host is a step: the device the constructor takes, the default
device that `get_best_sample_rate` asks (also when another device is played
on, lines 382 to 384), the configurations in which `build_output_stream` searches, the
default device of `restart`. Between them the host may reconfigure any device, plug it
in or out and change the default. A device offers ranges of rates, each with channels
and a format, as cpal does. A configuration is what `with_max_sample_rate` leaves of a
range: its channels, its format and its highest rate. Formats other than F32 are one.
`NearestHighEnd` states what follows: among the highest rates the nearest is taken, and
a rate inside a range never is. Where `min_by_key` and `find` depend on the host's order the
model chooses any. `steady` is history: nothing has changed since the constructor
began. Of cpal it is assumed that building succeeds for a configuration that was
offered and that `play` fails only on a device that has changed since. `play_duplex`
has the device query, negotiation and search of `PlayChosen`; that its input half may
fail is in `Recording`.

### Recording

A sample is the stream that captured it and its number there, so that its channel is
known. `Open` is the search of `build_input_stream` with its fall-back to any F32
format; `PlayDuplex` asks for the output's negotiated rate, as the code does. The
callback waits for the recorder's mutex and appends its block sample by sample;
the export writes the file sample by sample with the mutex held. The export may
fail, and the application may panic while it looks at the samples, which
poisons the mutex. `stop` and `start` of an input stream only make the device
deliver later, which it may do anyway. `len_frames` and `is_empty` only read.

### RecoveryLoop

The loop of `README.md:136-146`: start, then call `recover` whenever
`recovery_needed` is set and ignore its result. No panics. `RecoverFailed` is the state
in which an error of `recover` leaves the controller, without a stream; because
`restart` may fail with the device there, `RequestRecovered` names it as an outcome of
its own and finding 2 says what the loop does about it.

A clock that panics in `run_callback`'s first line is the subject of `Transport`;
in `StreamController` only the runtime panics.

### Transport and Diagnostics

Both are shared by the callbacks of up to two streams, because `restart` plays
the new stream before it drops the old one. `Transport` numbers clocks in the order
of their installation and reports in the order in which they are made. The
statement `*self.last.lock().unwrap() = clock.transport_time()` is `Report` before
`LockLast` in `Assign`: Rust evaluates the right-hand side first. A thread that panics
drops every guard it owns and poisons those mutexes (`Held`), so which ones they are
follows from where it is in `tick`; with the place evaluated first (the mutant
`AssignPlaceFirst`) `last` is among them. `Diagnostics` represents a peak by its rank
(for samples that are not negative the bits of an f32 are ordered as the numbers
are); `compare_exchange_weak` may fail without a reason, and the Relaxed loads of
`diagnostics()` may be performed in any order.

## 3. Runs

| Run | Instance | Shows |
|---|---|---|
| `adapter` | ring of 24, 2 channels, blocks 0, 1, 2, 5, 23, 24, host buffers 0 to 4 frames, an explicit map with one destination outside the device | type and index safety, ring order, latency, no glitches, termination, refinement of `SampleStream` |
| `resampling` | `MAX_HOST_FRAMES` 6, 2 channels, ratios 1/2, 2/3, 3/2, 7/5, 2/1, 16/1, 17/1, 25/1, blocks 0, 1, 2, 5, 16, 45 | indices stay in their buffers and look-ahead is bounded; up to 16/1 buffers are large enough, outputs are exact, `ResampledStream` is refined; termination of every call that has room |
| `controller` | 2 streams, every constructor, every call | the controller's safety properties and that every call returns |
| `recovery_loop` | 2 streams, handle path, the README's loop | requests for recovery are answered, unless the device is gone or the attempt fails |
| `handover` | 2 streams, blocks of 2, host buffers 0 to 3 frames, callbacks until 5 samples were produced | no sample twice, less than a block lost by replacing a stream and none by stop and start, order |
| `negotiation` | 2 devices, 8 sets of ranges (none, stereo at one and two rates, stereo ranges around, below and above the runtime's rate, mono at that rate, integers), 3 runtime rates | right pitch on any device, the nearest of the highest rates, and that the default device can be played |
| `recording` | 2 input streams, 2 channels, blocks of 0 to 2 frames, capture until 3 samples | nothing captured is lost or misplaced, exports are whole, callbacks return |
| `transport` | 2 streams, 2 clocks, 3 reports | time never goes back, `sample` never panics, every tick ends |
| `diagnostics` | 2 streams, peaks 0 to 2, 3 callbacks | the peak is exact and monotone, `update_peak` ends |
| `clock_panic` | as `transport` | violated: finding 3 |
| `device_error` | as `recovery_loop` | violated: finding 1 |
| `failed_recovery` | as `recovery_loop` | violated: finding 2 |

**Bounds.** In `adapter`, no call starts after `MaxSamples` = 60 samples: two and a half
turns of the ring, so both positions pass the end of it at every offset the block sizes
reach. 0, 23 and 24 are the sizes at which the test after a block goes either way; a
host buffer of 4 frames has 8 samples and is oversized. `MaxGlitches` = 3 stops the runs
in which nothing is ever played. In `resampling`, `MaxOutputs` = 14 covers two periods
of the longest ratio (7/5) and several calls; 16/1 is the steepest ratio that satisfies
`RatioFits` with 2 channels, 17/1 and 25/1 are beyond it. Blocks of 0 never fill a need,
those of 45 are nearly as long as the rest of `resample_in` (48 samples and a block) and
overfill the resampler at the steep ratios. `MaxLost` = 20 lets failures lose several
blocks before calls stop, and keeps a call that spins from counting blocks for ever.
These configurations switch the deadlock check off because the bound stops the host. The
controller needs no bound. In `transport`, two clocks and three reports let a report of
the first clock be overtaken by one of the second and a callback by another; the
deadlock check is off because the application's thread ends when `set_clock` meets a
poisoned mutex. In `handover`, blocks of 2 and buffers of up to 3 frames leave the ring
empty and non-empty, serve a buffer from the ring, a block or both; three blocks
(`MaxProduced` = 5, which the last fill may exceed) let two streams alternate and be
replaced again. `negotiation` is not bounded: calls are repeated for ever; the deadlock
check is off because a constructor that fails ends the program there. In `recording`, a
stream that has three samples or more captures no further, which leaves room for several
callbacks of it, and two streams contend with each other and with the export; the
deadlock check is off because capture is bounded. In `diagnostics`, three callbacks with
three peaks let an exchange fail against a louder and against a quieter competitor.

**Fairness.** `BufferSizeAdapter` and `ResamplingAdapter`: weak fairness of the
audio thread once it is inside a callback; the runtime may fail but need not.
`Transport`: weak fairness of running threads (a clock answers or panics), strong
fairness for each mutex. `Diagnostics`: weak fairness of callbacks and strong
fairness of `Exchange`: the hardware does not fail spuriously for ever.
`Recording`: weak fairness of the application inside a call and of callbacks that have
begun, strong fairness of a callback's acquiring the mutex; the application need
not export. `StreamController`: weak fairness for the application's thread inside a call and
for every callback that has begun; strong fairness for acquiring the mutex (it
is released again and again, and every system mutex the standard library uses
lets a waiter in eventually). Nothing is assumed of the application, the host or the
device. `RecoveryLoop` adds what the claim of recovery presupposes: the
application starts the stream and keeps polling, a device that is unplugged comes
back and its loss is reported. `CalmLoopSpec` adds that from some time on devices
stay and process errors cease, without which no recovery can last.

## 4. Findings

1. **A device error is not recovered** (`stream_controller.rs:316`). The error
   callback of the output stream sets `error_flag` only. `recovery_needed` is
   documented as "Returns true if the error callback flagged that recovery is
   needed." (line 767) and is all the loop of `README.md:136-146` polls. Run
   `device_error`: the device vanishes, cpal reports it, the device comes back,
   the loop never replaces the dead stream.
2. **A failed recovery is not retried** (`stream_controller.rs:693`). `recover`
   drops the stream and clears `recovery_needed` before `restart` can fail. Run
   `failed_recovery`: `restart` fails to build, which it may with the device there,
   the controller is left without a stream and without a request, and the loop is done.

3. **A panicking clock outlives its stream** (`stream_controller.rs:119`).
   `CHANGELOG.md:35` says "Graceful failure with silence on stream errors, no panics
   in RT path." `tick` unwraps the lock of the clock's mutex, which stays poisoned
   after a clock has panicked, and `restart` hands the same `TransportState` to
   the new stream: its callback panics at once. `set_transport_clock` panics too.

Also met while reading: `get_best_sample_rate` "falls back to the nearest supported
rate" (`stream_controller.rs:158`), but `supported_configs` makes of each range its
highest rate only (`device_management.rs:50`), so a runtime at 48000 on a device with
one stereo range 44100 to 192000 is resampled to 192000 although the device has its rate
(the instance of `negotiation` has such a range; `NearestHighEnd` states what is
chosen); the staging loop (`buffer_size_adapter.rs:138`) has no way out when blocks are
empty or the ratio is steeper than `resample_in` is made for; `play_duplex` ignores the
sample rate it is given and records at the output's rate, and `build_input_stream` falls
back to any F32 format, so the header that `Recorder::new` fixes may not be that of the
samples (`README.md:121-128` passes 44100 to both); a capture callback waits while a
whole WAV file is written, and after a panic with the recorder locked it drops every
block without a count; `data.len() > MAX_HOST_FRAMES` (line 246) compares samples with a
limit named in frames; after a poisoned mutex the fill closure returns `Ok` without
writing the buffer (the exception in `NoStaleBuffer`).

## 5. Proofs

`BufferSizeAdapterProofs` proves, for all constants that satisfy
`AdapterAssumption`: `TypeCorrect`, `RingAlwaysInOrder`, `LatencyBound`,
`GlitchFree` and `StreamImplemented` (the refinement of `SampleStream`). They
also assume `BlocksFit`: no runtime block is longer than the ring. It is needed:
a longer block overwrites samples that were never read. The type invariant
and `RingInOrder` are not inductive: in the middle of a block the ring is neither
empty nor complete. The invariant says where every position stands relative to
`pulled` and `copied` during the copy, that the outer loop pulls only from an
empty ring, and that the frames written so far are those due since `first`;
the refinement then needs it only in the steps that return.

`StreamControllerProofs` proves for any set of streams that satisfies
`ControllerAssumption`: `ControllerTypeCorrect`, `NoStreamOrphaned`,
`BufferAlwaysWritten`, `FailureAlwaysAnnounced` and `RequestsNotWiped`. The inductive
invariant is `TypeOK /\ Ownership /\ Announced`. `Ownership` ties `ctl` to `stream` and
`fresh` and to the condition of the streams they name: which of them is closing while
the thread joins it, and that there is none between `RecoverJoin` and `RecoverFlag`.
`Announced` says that a callback in its error path that has no stores pending, or has
returned from it, left `recovery_needed` set. The store of FALSE in `RecoverFlag` cannot
break it because by `Ownership` no stream, and so no callback, exists there.

`TransportProofs` proves `TransportTypeCorrect`, `LastNeverPoisoned` and
`NoTimeTravel` for any set of callbacks. `TimeMovesForward` needs that a time which
is not yet published is of the installed clock and the latest report
(`ReadingCurrent`); that holds because its callback holds the clock's mutex, which
is what `TypeOK` says of it. `LastNeverPoisoned`
follows from the position of the panic: a callback whose clock panics holds the clock's
mutex and no other (`PanicPoisonsClock`), and all it holds is poisoned.

`DiagnosticsProofs` proves `DiagnosticsTypeCorrect`, `PeakExact` and `PeakMonotone`
for any finite set of callbacks. An exchange succeeds only against the value loaded
before, which was below the sample (`Raising`). That overflows never exceed
callbacks needs a count of the callbacks that may still turn out to be one
(`CountedFirst`).

`NegotiationProofs` proves `NegotiationTypeCorrect`, `PitchAlwaysRight`,
`RateIsNearestHighEnd` and `DefaultAlwaysPlayable` for any devices, any runtime rates
and any offers, infinite sets of ranges included. `Matched` ties the rates of a stream,
and of the one `restart` is about to install, to `device_rate`. `SteadyRate` says that
negotiation would return the same rate again as long as the host is steady, and that
`restart` then opens the default device. `FailureExplained` is `DefaultPlayable` without
the device of a call that has begun since the failure. That a nearest rate exists is the
well-foundedness of the natural numbers.

`ResamplingAdapterProofs` proves `AdapterTypeCorrect`, `StagingAlwaysFits`,
`ConvertsExactly`, `LittleAhead` and `ResampledStreamImplemented` for any pairs of
different positive rates, any block sizes including 0, any channels and any
`MAX_HOST_FRAMES`; `ResamplingAssumption` says no more than that. `StagingAlwaysFits`,
`ConvertsExactly` and the refinement have `RatioFits`, that is
`input_rate <= 8 * Channels * output_rate`, in their statement: `resample_in` has eight
samples for each one of the host's buffer, and a host's frame has `Channels` of them. At
steeper ratios what remains is that indices stay inside their buffers and that the
resampler is never far ahead (`PushCounts` says how much a push keeps whatever was
staged), and a step of the adapter is a stutter of the stream (`UnclaimedStutters`).
`TypeOK` is not
inductive, since how much a call stages depends on what the calls before it left. The
invariant `ResInv` adds where the window stands: the position is
`outputs * input_rate` and the sample below it was not dropped (`Position`); between
calls the resampler has what all past outputs required and less than a block more, and
during one `need` closes the gap to what this call requires (`Staging`, with
`Supplied`). Capacity follows in two lemmas, `NeedFits` for `resample_in` and
`WindowFits` for `pending`, so that `push` never trims a sample that is still to be heard
(`PushKeeps`); then both neighbours of every position are in the window
(`InterpolateExact`). The arithmetic rests on what floor and ceiling mean
(`FloorBound`, `CeilBound`), because the solver does not divide by a variable.
In the refinement `Convert` is `Deliver`, a pull that fails is `Interrupt` and the
rest are stutters; every lemma of a step says what becomes of `Lost`.

`RecordingProofs` proves `RecordingTypeCorrect`, `RecordsInOrder`, `FramesStayInStep` and
`ExportsWholeFrames` for any set of streams, channels, rates and offers that satisfies
`RecordingAssumption`. `CapturedInOrder` speaks of what was captured, which is ahead of
the recorder while a callback waits or appends; the inductive form counts the samples
done, `captured - block` (`Recorded`). That channels stay in step needs that only the
callback which holds the mutex leaves the recorder in the middle of a frame
(`FramesInStep`). It is proved as long as no stream has captured anything in another
format (`Uniform`), which the history `exact` implies (`AsAskedUniform`).

`HandoverProofs` proves `HandoverTypeCorrect`, `NothingRepeated`, `PlayedInOrder` and the
action property of `LittleLost` (`LossBounded`), for any streams, blocks and host
buffers. It stands on the
invariant of `StreamControllerProofs`: each step of the composition is a step of the
controller, so `IInv` is kept, and its `Ownership` shows that without an
overlapped `restart` only one stream sounds (`OneSounds`), hence that a new stream's
blocks come after all that was heard. `RingShape` says that what waits is one run of less
than a block; `EarliestOfRuns` computes what a fill serves of it and of the blocks
it pulls, which is where sets and their cardinalities meet.

Every invariant, and every action property and refinement, of the passing runs is thus
stated by a theorem. Each inductive invariant was checked by TLC on the instance of its
run before it was proved. Only model-checked: liveness (`CallbackReturns`,
`CallReturns`, `TickReturns`, `UpdateEnds`, `CaptureReturns` and all of `RecoveryLoop`),
which is out of the prover's reach.

## 6. Plan

Done: the two paths of the adapter with an abstract specification each, the lifecycle,
the recovery loop, the composition of controller and adapters, negotiation, recording,
transport, diagnostics, and the proofs of section 5. Next:

1. An abstract specification of the controller (at most one stream that is owned, the
   outstanding request), its refinement by `StreamController` and the proof of it in
   `StreamControllerProofs`.
2. The fill that `Handover` takes as one step, derived from `BufferSizeAdapter`'s loop: a
   theorem that a whole call serves the ring first and leaves less than a block.
3. The peak and the counters as an atomic specification of `Diagnostics`.

## 7. Not modelled

Floating-point rounding of the resampler's position; the bytes of the WAV file; how an
index or a name finds a device; latency values (a single store of the latest one); the
helpers no stream uses (`duplicate_*`, `LinearResampler::reset`,
`adapt_to_host_buffer`); examples, benchmarks and integration tests, which are clients
without state of their own.
