------------------------- MODULE BufferSizeAdapter -------------------------
(***************************************************************************)
(* The audio thread's path from a host callback to the runtime when the    *)
(* device runs at the runtime's rate: run_callback's size check and error  *)
(* handling (stream_controller.rs) around fill_passthrough, the ring       *)
(* buffer between host buffers of any size and runtime blocks of one size  *)
(* (buffer_size_adapter.rs).                                               *)
(*                                                                         *)
(* Samples are represented by their position 1, 2, 3, ... in the stream    *)
(* the runtime produces; 0 is silence and Stale is whatever the host left  *)
(* in its buffer.  One loop iteration of the code is one step.             *)
(***************************************************************************)
EXTENDS ChannelRouter

CONSTANTS MaxHostFrames,  \* MAX_HOST_FRAMES
          Channels,       \* device channels; every caller in the crate passes 2
          ChannelMap,     \* the routing given to with_channel_map
          BlockSizes,     \* the block sizes a runtime may have
          Stale,          \* an uninitialised cell of the host's buffer
          MaxFrames,      \* bound: the longest request of the host, in frames
          MaxSamples,     \* bound: no call starts once this many were pulled
          MaxGlitches     \* bound: no call starts once this many were counted

ASSUME AdapterAssumption ==
  /\ MaxHostFrames \in Nat \ {0}
  /\ Channels \in Nat \ {0}
  /\ BlockSizes \subseteq Nat
  /\ Stale \notin Nat
  /\ MaxFrames \in Nat
  /\ MaxSamples \in Nat
  /\ MaxGlitches \in Nat

VARIABLES ring_buffer, read_pos, write_pos, runtime_block_size, glitch_count,
          pulled,        \* samples the runtime has produced so far
          pc,            \* where the callback is
          host_buffer,   \* the buffer being filled: frames of channels
          host_frames,   \* its length in frames
          frame,         \* fill_passthrough's loop counter
          copied,        \* samples of the current block already in the ring
          first,         \* history: the sample due when the call began
          delivered      \* the buffer the device was given last

ringVars == <<ring_buffer, read_pos, write_pos>>
callVars == <<host_frames, first>>
vars == <<ring_buffer, read_pos, write_pos, runtime_block_size, glitch_count,
          pulled, pc, host_buffer, host_frames, frame, copied, first, delivered>>

RingLen == 4 * MaxHostFrames

Frame(n) == Apply(ChannelMap, n, SilentFrame(Channels))

\* Mutant: the position runs off the end of the ring.
AdvanceUnwrapped(p) == p + 1

\* The position behind p, around the end of the ring.
Advance(p) == (p + 1) % RingLen

\* Mutant: the wrapped case forgets the samples at the start of the ring.
AvailableUpToEnd == IF write_pos >= read_pos
                    THEN write_pos - read_pos
                    ELSE RingLen - read_pos

Available == IF write_pos >= read_pos
             THEN write_pos - read_pos
             ELSE RingLen - read_pos + write_pos

\* Mutant: the ring is refilled while one sample is left.
EmptyBelowTwo == Available < 2

Empty == Available < 1

\* The number of the sample that the stream continues with.
Due == IF pc = "copying" THEN pulled - runtime_block_size + 1
                          ELSE pulled - Available + 1

\* Mutant: the error path leaves the buffer alone.
SilentFromNowhere(k) == host_buffer

\* The host's buffer with silence from frame k on.
SilentFrom(k) == [f \in DOMAIN host_buffer |->
                    IF f < k THEN host_buffer[f] ELSE SilentFrame(Channels)]

Init ==
  /\ ring_buffer = [i \in 0 .. RingLen - 1 |-> Silence]
  /\ read_pos = 0
  /\ write_pos = 0
  /\ runtime_block_size \in BlockSizes
  /\ glitch_count = 0
  /\ pulled = 0
  /\ pc = "idle"
  /\ host_buffer = <<>>
  /\ host_frames = 0
  /\ frame = 0
  /\ copied = 0
  /\ first = 1
  /\ delivered = <<>>

\* The host calls back with a buffer of n frames, in whatever state it is.
Call(n) ==
  /\ pc = "idle"
  /\ pulled < MaxSamples
  /\ glitch_count < MaxGlitches
  /\ host_frames' = n
  /\ host_buffer' = [f \in 0 .. n - 1 |-> [c \in 0 .. Channels - 1 |-> Stale]]
  /\ frame' = 0
  /\ first' = Due
  /\ pc' = "called"
  /\ UNCHANGED <<ringVars, runtime_block_size, glitch_count, pulled, copied, delivered>>

\* run_callback compares the number of samples, not of frames, with the limit.
Oversize ==
  /\ pc = "called"
  /\ host_frames * Channels > MaxHostFrames
  /\ host_buffer' = SilentFrom(0)
  /\ pc' = "done"
  /\ UNCHANGED <<ringVars, runtime_block_size, glitch_count, pulled, callVars,
                 frame, copied, delivered>>

Enter ==
  /\ pc = "called"
  /\ host_frames * Channels <= MaxHostFrames
  /\ pc' = "filling"
  /\ UNCHANGED <<ringVars, runtime_block_size, glitch_count, pulled, host_buffer,
                 callVars, frame, copied, delivered>>

\* One frame: read the ring, zero the frame's channels, route the sample.
EmitFrame ==
  /\ pc = "filling"
  /\ frame < host_frames
  /\ ~Empty
  /\ host_buffer' = [host_buffer EXCEPT ![frame] = Frame(ring_buffer[read_pos])]
  /\ read_pos' = Advance(read_pos)
  /\ frame' = frame + 1
  /\ UNCHANGED <<ring_buffer, write_pos, runtime_block_size, glitch_count, pulled,
                 pc, callVars, copied, delivered>>

\* The ring is empty: the runtime produces one block.
PullBlock ==
  /\ pc = "filling"
  /\ frame < host_frames
  /\ Empty
  /\ pulled' = pulled + runtime_block_size
  /\ copied' = 0
  /\ pc' = "copying"
  /\ UNCHANGED <<ringVars, runtime_block_size, glitch_count, host_buffer, callVars,
                 frame, delivered>>

\* process_block fails: fill returns the error and run_callback silences the
\* whole buffer, the frames already written included.
PullFails ==
  /\ pc = "filling"
  /\ frame < host_frames
  /\ Empty
  /\ host_buffer' = SilentFrom(0)
  /\ pc' = "done"
  /\ UNCHANGED <<ringVars, runtime_block_size, glitch_count, pulled, callVars,
                 frame, copied, delivered>>

CopySample ==
  /\ pc = "copying"
  /\ copied < runtime_block_size
  /\ ring_buffer' = [ring_buffer EXCEPT
                       ![write_pos] = pulled - runtime_block_size + copied + 1]
  /\ write_pos' = Advance(write_pos)
  /\ copied' = copied + 1
  /\ UNCHANGED <<read_pos, runtime_block_size, glitch_count, pulled, pc, host_buffer,
                 callVars, frame, delivered>>

\* Mutant: the second look at the ring is forgotten.
CopiedUnchecked ==
  /\ pc = "copying"
  /\ copied = runtime_block_size
  /\ pc' = "filling"
  /\ UNCHANGED <<ringVars, runtime_block_size, glitch_count, pulled, host_buffer,
                 callVars, frame, copied, delivered>>

Copied ==
  /\ pc = "copying"
  /\ copied = runtime_block_size
  /\ ~Empty
  /\ pc' = "filling"
  /\ UNCHANGED <<ringVars, runtime_block_size, glitch_count, pulled, host_buffer,
                 callVars, frame, copied, delivered>>

\* The block left nothing to read: count a glitch and give up with silence.
Underrun ==
  /\ pc = "copying"
  /\ copied = runtime_block_size
  /\ Empty
  /\ glitch_count' = glitch_count + 1
  /\ host_buffer' = SilentFrom(frame)
  /\ pc' = "done"
  /\ UNCHANGED <<ringVars, runtime_block_size, pulled, callVars, frame, copied,
                 delivered>>

Filled ==
  /\ pc = "filling"
  /\ frame >= host_frames
  /\ pc' = "done"
  /\ UNCHANGED <<ringVars, runtime_block_size, glitch_count, pulled, host_buffer,
                 callVars, frame, copied, delivered>>

\* The callback returns and the device takes the buffer.
Return ==
  /\ pc = "done"
  /\ delivered' = host_buffer
  /\ pc' = "idle"
  /\ UNCHANGED <<ringVars, runtime_block_size, glitch_count, pulled, host_buffer,
                 callVars, frame, copied>>

\* The steps of a callback that has begun and whose runtime does not fail.
Callback ==
  \/ Oversize \/ Enter \/ EmitFrame \/ PullBlock
  \/ CopySample \/ Copied \/ Underrun \/ Filled \/ Return

Next == Callback \/ PullFails \/ \E n \in 0 .. MaxFrames : Call(n)

Spec == Init /\ [][Next]_vars

\* The audio thread keeps running once it is inside the callback; nothing is
\* assumed of the host (it may never call) nor of the runtime's errors.
FairSpec == Spec /\ WF_vars(Callback)

-----------------------------------------------------------------------------

Cell == Nat \cup {Stale}
Buffer(n) == [0 .. n - 1 -> [0 .. Channels - 1 -> Cell]]

(* Every variable holds a value of its Rust type, and every index is inside
   the buffer it indexes. *)
TypeOK ==
  /\ ring_buffer \in [0 .. RingLen - 1 -> Nat]
  /\ read_pos \in 0 .. RingLen - 1
  /\ write_pos \in 0 .. RingLen - 1
  /\ runtime_block_size \in BlockSizes
  /\ glitch_count \in Nat
  /\ pulled \in Nat
  /\ pc \in {"idle", "called", "filling", "copying", "done"}
  /\ host_frames \in 0 .. MaxFrames
  /\ host_buffer \in Buffer(host_frames)
  /\ frame \in 0 .. host_frames
  /\ copied \in 0 .. runtime_block_size
  /\ first \in Nat
  /\ \E n \in 0 .. MaxFrames : delivered \in Buffer(n)

\* The k-th cell behind the read position.
Slot(k) == IF read_pos + k < RingLen THEN read_pos + k ELSE read_pos + k - RingLen

(* The unread part of the ring is a contiguous piece of the runtime's stream:
   the wrap-around of either position never exposes an old or a lost sample. *)
RingInOrder ==
  pc # "copying" =>
    /\ Available <= pulled
    /\ \A k \in 0 .. Available - 1 : ring_buffer[Slot(k)] = Due + k

(* fill_passthrough pulls on demand: between callbacks fewer samples are
   waiting than one block holds, whatever sizes the host has asked for, so the
   ring adds less than a block of latency. *)
LessThanOneBlockWaiting ==
  pc = "idle" => Available < runtime_block_size \/ Available = 0

(* A block of 1 .. RingLen - 1 samples always leaves something to read, so the
   glitch branch of fill_passthrough is unreachable for it. *)
NoGlitches == runtime_block_size \in 1 .. RingLen - 1 => glitch_count = 0

(* Every callback comes back to the host: neither an empty block nor one that
   leaves the ring empty makes the loop of fill_passthrough spin. *)
CallbackReturns == pc = "called" ~> pc = "idle"

\* The stream continues behind this sample once the current call is over.
Continues == IF pc = "idle" THEN Due ELSE first

(* Seen from the device, the adapter is SampleStream: samples arrive in order,
   gap-free and routed; a buffer is complete or silent throughout, and only in
   a silent one are samples lost. *)
Stream == INSTANCE SampleStream WITH next <- Continues
Implements == Stream!Spec
=============================================================================
