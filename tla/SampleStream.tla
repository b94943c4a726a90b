---------------------------- MODULE SampleStream ----------------------------
(***************************************************************************)
(* What the output path promises to the listener, with no ring buffer in   *)
(* it: the runtime's mono stream, whose samples are numbered 1, 2, 3, ...  *)
(* reaches the device in order, without a gap and without a repetition,    *)
(* each sample on the mapped channels of one frame and every other channel *)
(* silent.  A buffer is complete or silent from end to end, and samples   *)
(* are lost only in a call whose buffer is silent.                         *)
(***************************************************************************)
EXTENDS ChannelRouter

CONSTANTS Channels,    \* channels of the device
          ChannelMap,  \* the routing of the mono stream
          MaxFrames    \* the longest buffer a host asks for, in frames

VARIABLES next,       \* number of the next sample to be played
          delivered   \* the buffer the device was given last

vars == <<next, delivered>>

Frame(n) == Apply(ChannelMap, n, SilentFrame(Channels))

Init == /\ next = 1
        /\ delivered = <<>>

\* A complete buffer: the next n samples of the stream.
Deliver(n) ==
  /\ next' = next + n
  /\ delivered' = [f \in 0 .. n - 1 |-> Frame(next + f)]

\* A failing or starving call: the whole buffer is silent, and the stream goes
\* on where it was or behind samples that are lost.
Interrupt(n) ==
  /\ next' \in Nat
  /\ next' >= next
  /\ delivered' = [f \in 0 .. n - 1 |-> SilentFrame(Channels)]

Next == \/ \E n \in 0 .. MaxFrames : Deliver(n)
        \/ \E n \in 1 .. MaxFrames : Interrupt(n)

Spec == Init /\ [][Next]_vars
=============================================================================
