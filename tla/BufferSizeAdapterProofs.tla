---------------------- MODULE BufferSizeAdapterProofs ----------------------
(***************************************************************************)
(* Proofs about BufferSizeAdapter for every ring length, channel count,    *)
(* channel map, host buffer size and every block size that fits the ring.  *)
(***************************************************************************)
EXTENDS BufferSizeAdapter, TLAPS

\* No runtime block is longer than the ring.
BlocksFit == BlockSizes \subseteq 0 .. RingLen

-----------------------------------------------------------------------------
\* The inductive invariant: what each control point knows of ring and buffer.

\* While a block is being copied, the part already copied is in order.
CopyInOrder ==
  pc = "copying" =>
    /\ runtime_block_size <= pulled
    /\ frame < host_frames
    /\ write_pos = Slot(copied)
    /\ \A k \in 0 .. copied - 1 : ring_buffer[Slot(k)] = Due + k

\* At most one block waits, and a whole one only until its first frame is read.
Lookahead ==
  pc # "copying" => \/ Available < runtime_block_size
                    \/ Available = 0
                    \/ /\ pc = "filling"
                       /\ frame < host_frames
                       /\ Available = runtime_block_size

\* A block that is empty or as long as the ring leaves the positions equal.
NothingReadable ==
  runtime_block_size \in {0, RingLen} =>
    /\ frame = 0
    /\ pc # "copying" => Available = 0

\* The frames written so far are the stream's, and it is due right behind them.
Progress ==
  /\ pc = "called" => frame = 0 /\ Due = first
  /\ pc \in {"filling", "copying"} =>
       /\ Due = first + frame
       /\ \A f \in 0 .. frame - 1 : host_buffer[f] = Frame(first + f)

\* The finished buffer is complete or silent.
Outcome ==
  pc = "done" =>
    \/ /\ Due = first + host_frames
       /\ \A f \in 0 .. host_frames - 1 : host_buffer[f] = Frame(first + f)
    \/ /\ host_frames > 0
       /\ Due >= first
       /\ \A f \in 0 .. host_frames - 1 : host_buffer[f] = SilentFrame(Channels)

IInv ==
  /\ TypeOK
  /\ RingInOrder
  /\ CopyInOrder
  /\ Lookahead
  /\ NothingReadable
  /\ Progress
  /\ Outcome
  /\ NoGlitches

-----------------------------------------------------------------------------
\* Lemmas about the operators.

(* A position of the ring moves forward by one and wraps to 0 at its end, and
   stays a position: the index arithmetic of fill_passthrough. *)
LEMMA AdvanceWraps ==
  ASSUME NEW p \in 0 .. RingLen - 1
  PROVE  /\ Advance(p) = IF p + 1 = RingLen THEN 0 ELSE p + 1
         /\ Advance(p) \in 0 .. RingLen - 1
<1>1. RingLen \in Nat \ {0}
  BY AdapterAssumption DEF RingLen
<1>2. (p + 1) % RingLen = IF p + 1 = RingLen THEN 0 ELSE p + 1
  BY <1>1
<1> QED
  BY <1>1, <1>2 DEF Advance

(* The number of unread samples is below the ring's length. *)
LEMMA AvailableType ==
  ASSUME read_pos \in 0 .. RingLen - 1, write_pos \in 0 .. RingLen - 1
  PROVE  Available \in 0 .. RingLen - 1
BY AdapterAssumption DEF Available, RingLen

(* A routed frame and a silent frame are frames of samples, one per channel. *)
LEMMA FrameType ==
  /\ \A n \in Nat : Frame(n) \in [0 .. Channels - 1 -> Nat]
  /\ SilentFrame(Channels) \in [0 .. Channels - 1 -> Nat]
<1>1. SilentFrame(Channels) \in [0 .. Channels - 1 -> Nat]
  BY DEF SilentFrame, Silence
<1>2. ASSUME NEW n \in Nat
      PROVE  Frame(n) \in [0 .. Channels - 1 -> Nat]
  BY <1>1 DEF Frame, Apply
<1> QED
  BY <1>1, <1>2

(* Silencing the end of a well-typed host buffer leaves it well-typed. *)
LEMMA SilentFromType ==
  ASSUME NEW k \in Nat, NEW n \in Nat, host_buffer \in Buffer(n)
  PROVE  /\ SilentFrom(k) \in Buffer(n)
         /\ \A f \in 0 .. n - 1 : f >= k => SilentFrom(k)[f] = SilentFrame(Channels)
BY FrameType DEF SilentFrom, Buffer, Cell

-----------------------------------------------------------------------------
\* The invariant is inductive.

LEMMA InitIInv == ASSUME BlocksFit PROVE Init => IInv
<1> SUFFICES ASSUME Init PROVE IInv
  OBVIOUS
<1> USE AdapterAssumption
<1>1. RingLen \in Nat \ {0}
  BY DEF RingLen
<1>2. host_buffer \in Buffer(0) /\ delivered \in Buffer(0)
  BY DEF Init, Buffer
<1>3. TypeOK
  BY <1>1, <1>2 DEF Init, TypeOK, Silence, BlocksFit
<1> QED
  BY <1>1, <1>3 DEF Init, IInv, RingInOrder, CopyInOrder, Lookahead,
     NothingReadable, Progress, Outcome, NoGlitches, Available

LEMMA NextIInv == ASSUME BlocksFit PROVE IInv /\ [Next]_vars => IInv'
<1> SUFFICES ASSUME IInv, [Next]_vars PROVE IInv'
  OBVIOUS
<1> USE AdapterAssumption DEF Empty
<1> DEFINE Parts == /\ RingInOrder /\ CopyInOrder /\ Lookahead /\ NothingReadable
                    /\ Progress /\ Outcome /\ NoGlitches
<1>1. RingLen \in Nat \ {0}
  BY DEF RingLen
<1>2. TypeOK /\ Parts
  BY DEF IInv
<1>3. runtime_block_size \in 0 .. RingLen
  BY <1>2 DEF TypeOK, BlocksFit
<1>4. SUFFICES TypeOK' /\ Parts'
  BY DEF IInv
<1>5. ASSUME NEW n \in 0 .. MaxFrames, Call(n) PROVE TypeOK' /\ Parts'
  <2>1. TypeOK'
    <3>1. first' \in Nat
      BY <1>2, <1>5, AvailableType DEF Call, TypeOK, RingInOrder, Due
    <3>2. host_buffer' \in Buffer(n)
      BY <1>5 DEF Call, Buffer, Cell
    <3> QED
      BY <1>2, <1>3, <1>5, <3>1, <3>2 DEF Call, TypeOK, ringVars
  <2>2. Parts'
    BY <1>1, <1>2, <1>3, <1>5 DEF Call, TypeOK, ringVars, RingInOrder, CopyInOrder,
       Lookahead, NothingReadable, Progress, Outcome, NoGlitches, Available, Slot, Due
  <2> QED
    BY <2>1, <2>2
<1>6. CASE Oversize
  <2>1. TypeOK'
    BY <1>1, <1>2, <1>6, SilentFromType DEF Oversize, TypeOK, ringVars, callVars
  <2>2. Parts'
    BY <1>1, <1>2, <1>3, <1>6, SilentFromType DEF Oversize, TypeOK, ringVars, callVars,
       RingInOrder, CopyInOrder, Lookahead, NothingReadable, Progress, Outcome,
       NoGlitches, Available, Slot, Due
  <2> QED
    BY <2>1, <2>2
<1>7. CASE Enter
  <2>1. TypeOK'
    BY <1>1, <1>2, <1>7 DEF Enter, TypeOK, ringVars, callVars
  <2>2. Parts'
    BY <1>1, <1>2, <1>3, <1>7 DEF Enter, TypeOK, ringVars, callVars,
       RingInOrder, CopyInOrder, Lookahead, NothingReadable, Progress, Outcome,
       NoGlitches, Available, Slot, Due
  <2> QED
    BY <2>1, <2>2
<1>8. CASE EmitFrame
  <2>1. /\ pc = "filling" /\ pc' = pc
        /\ frame \in Nat /\ host_frames \in Nat /\ frame < host_frames
        /\ frame' = frame + 1 /\ host_frames' = host_frames /\ first' = first
        /\ read_pos \in 0 .. RingLen - 1 /\ write_pos \in 0 .. RingLen - 1
        /\ write_pos' = write_pos /\ ring_buffer' = ring_buffer
        /\ pulled \in Nat /\ pulled' = pulled /\ first \in Nat
        /\ runtime_block_size' = runtime_block_size
    BY <1>2, <1>8 DEF EmitFrame, TypeOK, callVars
  <2>2. /\ read_pos' = IF read_pos + 1 = RingLen THEN 0 ELSE read_pos + 1
        /\ read_pos' \in 0 .. RingLen - 1
    BY <1>8, <2>1, AdvanceWraps DEF EmitFrame
  <2>3. Available \in 1 .. RingLen - 1 /\ Available <= pulled
    BY <1>2, <1>8, <2>1, AvailableType DEF EmitFrame, RingInOrder
  <2>4. Available' = Available - 1
    BY <1>1, <2>1, <2>2, <2>3 DEF Available
  <2>5. Due \in Nat /\ Due' = Due + 1
    BY <2>1, <2>3, <2>4 DEF Due
  <2>6. host_buffer' \in Buffer(host_frames)
    <3>1. Frame(ring_buffer[read_pos]) \in [0 .. Channels - 1 -> Nat]
      BY <1>2, <2>1, FrameType DEF TypeOK
    <3> QED
      BY <1>2, <1>8, <3>1 DEF EmitFrame, TypeOK, Buffer, Cell
  <2>7. TypeOK'
    BY <1>2, <1>8, <2>1, <2>2, <2>6 DEF EmitFrame, TypeOK
  <2>8. RingInOrder'
    <3> SUFFICES ASSUME NEW k \in 0 .. Available' - 1
                 PROVE  ring_buffer'[Slot(k)'] = Due' + k
      BY <2>1, <2>3, <2>4 DEF RingInOrder
    <3>1. k + 1 \in 0 .. Available - 1 /\ Due + (k + 1) = Due' + k
      BY <2>3, <2>4, <2>5
    <3>2. Slot(k)' = Slot(k + 1)
      BY <1>1, <2>1, <2>2, <2>3, <3>1 DEF Slot
    <3> QED
      BY <1>2, <2>1, <3>1, <3>2 DEF RingInOrder
  <2>9. Progress'
    <3>1. ring_buffer[Slot(0)] = Due + 0
      BY <1>2, <2>1, <2>3 DEF RingInOrder
    <3>2. Slot(0) = read_pos
      BY <1>1, <2>1 DEF Slot
    <3>3. Due = first + frame /\ ring_buffer[read_pos] = first + frame
      BY <1>2, <2>1, <2>5, <3>1, <3>2 DEF Progress
    <3>4. /\ host_buffer'[frame] = Frame(first + frame)
          /\ \A f \in 0 .. frame - 1 : host_buffer'[f] = host_buffer[f]
      BY <1>2, <1>8, <2>1, <3>3 DEF EmitFrame, TypeOK, Buffer
    <3> QED
      BY <1>2, <2>1, <2>5, <3>3, <3>4 DEF Progress
  <2>10. CopyInOrder' /\ Outcome' /\ NoGlitches'
    BY <1>2, <1>8, <2>1 DEF EmitFrame, CopyInOrder, Outcome, NoGlitches
  <2>11. Lookahead' /\ NothingReadable'
    BY <1>2, <1>3, <2>1, <2>3, <2>4 DEF Lookahead, NothingReadable
  <2> QED
    BY <2>7, <2>8, <2>9, <2>10, <2>11
<1>9. CASE PullBlock
  <2>1. TypeOK'
    BY <1>1, <1>2, <1>3, <1>9 DEF PullBlock, TypeOK, ringVars, callVars
  <2>2. Parts'
    BY <1>1, <1>2, <1>3, <1>9 DEF PullBlock, TypeOK, ringVars, callVars,
       RingInOrder, CopyInOrder, Lookahead, NothingReadable, Progress, Outcome,
       NoGlitches, Available, Slot, Due
  <2> QED
    BY <2>1, <2>2
<1>10. CASE PullFails
  <2>1. TypeOK'
    BY <1>1, <1>2, <1>10, SilentFromType DEF PullFails, TypeOK, ringVars, callVars
  <2>2. Parts'
    BY <1>1, <1>2, <1>3, <1>10, SilentFromType DEF PullFails, TypeOK, ringVars, callVars,
       RingInOrder, CopyInOrder, Lookahead, NothingReadable, Progress, Outcome,
       NoGlitches, Available, Slot, Due
  <2> QED
    BY <2>1, <2>2
<1>11. CASE CopySample
  <2>1. /\ pc = "copying" /\ pc' = pc
        /\ copied \in Nat /\ copied < runtime_block_size /\ copied' = copied + 1
        /\ runtime_block_size' = runtime_block_size /\ frame' = frame
        /\ read_pos \in 0 .. RingLen - 1 /\ write_pos \in 0 .. RingLen - 1
        /\ read_pos' = read_pos /\ pulled \in Nat /\ pulled' = pulled
        /\ host_frames' = host_frames /\ host_buffer' = host_buffer /\ first' = first
    BY <1>2, <1>3, <1>11 DEF CopySample, TypeOK, callVars
  <2>2. /\ write_pos' = IF write_pos + 1 = RingLen THEN 0 ELSE write_pos + 1
        /\ write_pos' \in 0 .. RingLen - 1
    BY <1>11, <2>1, AdvanceWraps DEF CopySample
  <2>3. Due \in Nat /\ Due' = Due /\ pulled - runtime_block_size + copied + 1 = Due + copied
    BY <1>2, <1>3, <2>1 DEF CopyInOrder, Due
  <2>4. /\ ring_buffer' = [ring_buffer EXCEPT ![write_pos] = Due + copied]
        /\ ring_buffer' \in [0 .. RingLen - 1 -> Nat]
    <3>1. pulled - runtime_block_size + copied + 1 \in Nat
      BY <2>1, <2>3
    <3> QED
      BY <1>2, <1>11, <2>1, <2>3, <3>1 DEF CopySample, TypeOK
  <2>5. TypeOK'
    BY <1>2, <1>3, <1>11, <2>1, <2>2, <2>4 DEF CopySample, TypeOK
  <2>6. CopyInOrder'
    <3>1. write_pos = Slot(copied)
      BY <1>2, <2>1 DEF CopyInOrder
    <3>2. write_pos' = Slot(copied + 1)
      BY <1>1, <1>3, <2>1, <2>2, <3>1 DEF Slot
    <3>3. \A k \in 0 .. copied - 1 : Slot(k) # write_pos /\ Slot(k) \in 0 .. RingLen - 1
      BY <1>1, <1>3, <2>1, <3>1 DEF Slot
    <3>4. \A k \in 0 .. copied - 1 : ring_buffer'[Slot(k)] = Due + k
      BY <1>2, <2>1, <2>4, <3>3 DEF CopyInOrder, TypeOK
    <3>5. ring_buffer'[Slot(copied)] = Due + copied
      BY <1>2, <2>1, <2>4, <3>1 DEF TypeOK
    <3>6. ASSUME NEW k \in 0 .. copied' - 1
          PROVE  ring_buffer'[Slot(k)'] = Due' + k
      <4>1. k \in 0 .. copied - 1 \/ k = copied
        BY <2>1
      <4>2. Slot(k)' = Slot(k)
        BY <2>1 DEF Slot
      <4>3. ring_buffer'[Slot(k)] = Due + k
        BY <3>4, <3>5, <4>1
      <4> QED
        BY <2>3, <4>2, <4>3
    <3>7. write_pos' = Slot(copied)'
      BY <2>1, <3>2 DEF Slot
    <3> QED
      BY <1>2, <2>1, <3>6, <3>7 DEF CopyInOrder
  <2>7. RingInOrder' /\ Lookahead' /\ Outcome' /\ NoGlitches'
    BY <1>2, <1>11, <2>1 DEF CopySample, RingInOrder, Lookahead, Outcome, NoGlitches
  <2>8. Progress' /\ NothingReadable'
    BY <1>2, <2>1, <2>3 DEF Progress, NothingReadable
  <2> QED
    BY <2>5, <2>6, <2>7, <2>8
<1>12. CASE Copied
  <2> USE <1>1, <1>2, <1>3, <1>12
  <2>1. TypeOK'
    BY DEF Copied, TypeOK, ringVars, callVars
  <2>2. Available' = Available /\ \A k \in Nat : Slot(k)' = Slot(k)
    BY DEF Copied, Available, Slot, ringVars
  <2>3. Available = runtime_block_size /\ Due' = Due
    BY <2>2 DEF Copied, TypeOK, CopyInOrder, Available, Slot, Due, ringVars
  <2>4. RingInOrder'
    BY <2>2, <2>3 DEF Copied, TypeOK, CopyInOrder, RingInOrder, ringVars
  <2>5. CopyInOrder' /\ Outcome' /\ NoGlitches'
    BY DEF Copied, CopyInOrder, Outcome, NoGlitches
  <2>6. Lookahead' /\ Progress'
    BY <2>2, <2>3 DEF Copied, CopyInOrder, Lookahead, Progress, callVars
  <2>7. NothingReadable'
    BY <2>2, <2>3, AvailableType DEF Copied, TypeOK, NothingReadable
  <2> QED
    BY <2>1, <2>4, <2>5, <2>6, <2>7
<1>13. CASE Underrun
  <2>1. TypeOK'
    BY <1>1, <1>2, <1>13, SilentFromType DEF Underrun, TypeOK, ringVars, callVars
  <2>2. Parts'
    BY <1>1, <1>2, <1>3, <1>13, SilentFromType DEF Underrun, TypeOK, ringVars, callVars,
       RingInOrder, CopyInOrder, Lookahead, NothingReadable, Progress, Outcome,
       NoGlitches, Available, Slot, Due
  <2> QED
    BY <2>1, <2>2
<1>14. CASE Filled
  <2>1. TypeOK'
    BY <1>1, <1>2, <1>14 DEF Filled, TypeOK, ringVars, callVars
  <2>2. Parts'
    BY <1>1, <1>2, <1>3, <1>14 DEF Filled, TypeOK, ringVars, callVars,
       RingInOrder, CopyInOrder, Lookahead, NothingReadable, Progress, Outcome,
       NoGlitches, Available, Slot, Due
  <2> QED
    BY <2>1, <2>2
<1>15. CASE Return
  <2>1. TypeOK'
    BY <1>1, <1>2, <1>15 DEF Return, TypeOK, ringVars, callVars
  <2>2. Parts'
    BY <1>1, <1>2, <1>3, <1>15 DEF Return, TypeOK, ringVars, callVars,
       RingInOrder, CopyInOrder, Lookahead, NothingReadable, Progress, Outcome,
       NoGlitches, Available, Slot, Due
  <2> QED
    BY <2>1, <2>2
<1>16. CASE UNCHANGED vars
  BY <1>2, <1>16 DEF vars, TypeOK, Buffer, RingInOrder, CopyInOrder, Lookahead,
     NothingReadable, Progress, Outcome, NoGlitches, Available, Slot, Due
<1> QED
  BY <1>5, <1>6, <1>7, <1>8, <1>9, <1>10, <1>11, <1>12, <1>13, <1>14, <1>15, <1>16
     DEF Next, Callback

-----------------------------------------------------------------------------
\* What holds in every reachable state.

LEMMA SpecIInv == ASSUME BlocksFit PROVE Spec => []IInv
<1>1. Init => IInv
  BY InitIInv
<1>2. IInv /\ [Next]_vars => IInv'
  BY NextIInv
<1> QED
  BY <1>1, <1>2, PTL DEF Spec

(* Every ring position and loop counter of fill_passthrough stays inside the
   buffer it indexes: no callback can panic on an index, for any ring length,
   any block size that fits it and any sequence of host buffer sizes. *)
THEOREM TypeCorrect == ASSUME BlocksFit PROVE Spec => []TypeOK
<1>1. IInv => TypeOK
  BY DEF IInv
<1> QED
  BY SpecIInv, <1>1, PTL

(* The unread part of the ring is always the contiguous continuation of the
   runtime's stream. *)
THEOREM RingAlwaysInOrder == ASSUME BlocksFit PROVE Spec => []RingInOrder
<1>1. IInv => RingInOrder
  BY DEF IInv
<1> QED
  BY SpecIInv, <1>1, PTL

(* Between callbacks less than one runtime block waits in the ring. *)
THEOREM LatencyBound == ASSUME BlocksFit PROVE Spec => []LessThanOneBlockWaiting
<1>1. IInv => LessThanOneBlockWaiting
  BY DEF IInv, Lookahead, LessThanOneBlockWaiting
<1> QED
  BY SpecIInv, <1>1, PTL

(* The glitch branch is dead code for blocks of 1 .. RingLen - 1 samples. *)
THEOREM GlitchFree == ASSUME BlocksFit PROVE Spec => []NoGlitches
<1>1. IInv => NoGlitches
  BY DEF IInv
<1> QED
  BY SpecIInv, <1>1, PTL

-----------------------------------------------------------------------------
\* The adapter implements SampleStream.

(* The abstract and the detailed specification mean the same frames. *)
LEMMA SameFrames ==
  /\ \A n : Stream!Frame(n) = Frame(n)
  /\ Stream!SilentFrame(Channels) = SilentFrame(Channels)
BY DEF Stream!Frame, Frame, Stream!Apply, Apply, Stream!Destinations, Destinations,
   Stream!SilentFrame, SilentFrame, Stream!Silence, Silence

LEMMA InitImplements == Init => Stream!Init
<1> SUFFICES ASSUME Init PROVE Stream!Init
  OBVIOUS
<1>1. Available = 0
  BY DEF Init, Available
<1> QED
  BY <1>1 DEF Init, Stream!Init, Continues, Due

(* Only a return from the callback is visible: it delivers the next frames of
   the stream or a silent buffer; every other step is a stutter. *)
LEMMA NextImplements ==
  ASSUME IInv, [Next]_vars PROVE [Stream!Next]_(Stream!vars)
<1>1. ASSUME NEW n \in 0 .. MaxFrames, Call(n) PROVE UNCHANGED Stream!vars
  BY <1>1 DEF Call, Stream!vars, Continues
<1>2. CASE (Callback \/ PullFails) /\ ~Return
  <2>1. pc # "idle" /\ pc' # "idle" /\ first' = first /\ delivered' = delivered
    BY <1>2 DEF Callback, Oversize, Enter, EmitFrame, PullBlock, PullFails, CopySample,
       Copied, Underrun, Filled, callVars
  <2> QED
    BY <2>1 DEF Stream!vars, Continues
<1>3. CASE Return
  <2>1. /\ pc = "done" /\ pc' = "idle" /\ delivered' = host_buffer
        /\ Available' = Available /\ pulled' = pulled
    BY <1>3 DEF Return, ringVars, Available
  <2>2. Continues = first /\ Continues' = Due
    BY <2>1 DEF Continues, Due
  <2>3. /\ TypeOK /\ Outcome /\ RingInOrder
        /\ host_frames \in 0 .. MaxFrames /\ MaxFrames \in Nat /\ first \in Nat
        /\ host_buffer = [f \in 0 .. host_frames - 1 |-> host_buffer[f]]
    BY AdapterAssumption DEF IInv, TypeOK, Buffer
  <2>4. Due \in Nat
    BY <2>1, <2>3, AvailableType DEF TypeOK, RingInOrder, Due
  <2>5. CASE /\ Due = first + host_frames
             /\ \A f \in 0 .. host_frames - 1 : host_buffer[f] = Frame(first + f)
    <3>1. delivered' = [f \in 0 .. host_frames - 1 |-> Stream!Frame(Continues + f)]
      BY <2>1, <2>2, <2>3, <2>5, SameFrames
    <3>2. Stream!Deliver(host_frames)
      BY <2>2, <2>5, <3>1 DEF Stream!Deliver
    <3> QED
      BY <2>3, <3>2 DEF Stream!Next
  <2>6. CASE /\ host_frames > 0
             /\ Due >= first
             /\ \A f \in 0 .. host_frames - 1 : host_buffer[f] = SilentFrame(Channels)
    <3>1. delivered' = [f \in 0 .. host_frames - 1 |-> Stream!SilentFrame(Channels)]
      BY <2>1, <2>3, <2>6, SameFrames
    <3>2. Stream!Interrupt(host_frames)
      BY <2>2, <2>4, <2>6, <3>1 DEF Stream!Interrupt
    <3>3. host_frames \in 1 .. MaxFrames
      BY <2>3, <2>6
    <3> QED
      BY <3>2, <3>3 DEF Stream!Next
  <2> QED
    BY <2>1, <2>3, <2>5, <2>6 DEF Outcome
<1>4. CASE UNCHANGED vars
  BY <1>4 DEF vars, Stream!vars, Continues, Due, Available
<1> QED
  BY <1>1, <1>2, <1>3, <1>4 DEF Next

(* Whatever sizes the host asks for and whenever the runtime fails, the device
   hears the runtime's samples in order, without gap or repetition inside the
   buffers that are not silent. *)
THEOREM StreamImplemented == ASSUME BlocksFit PROVE Spec => Implements
<1>1. Init => Stream!Init
  BY InitImplements
<1>2. IInv /\ [Next]_vars => [Stream!Next]_(Stream!vars)
  BY NextImplements
<1> QED
  BY SpecIInv, <1>1, <1>2, PTL DEF Spec, Implements, Stream!Spec
=============================================================================
