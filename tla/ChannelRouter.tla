--------------------------- MODULE ChannelRouter ---------------------------
(***************************************************************************)
(* How one mono sample of the runtime is placed on the channels of one     *)
(* device frame (channel_router.rs).  A frame is a function from channel   *)
(* indices, counted from 0 as in the code, to samples.  A channel map is   *)
(* MonoToStereo or a record holding the explicit (src, dst) pairs.         *)
(***************************************************************************)
EXTENDS Integers

Silence == 0

MonoToStereo == [kind |-> "MonoToStereo", pairs |-> <<>>]

Explicit(pairs) == [kind |-> "Explicit", pairs |-> pairs]

\* The channels, among those of the device, that receive the source sample.
Destinations(map, channels) ==
  IF map.kind = "MonoToStereo"
  THEN channels \cap {0, 1}
  ELSE {c \in channels : \E i \in DOMAIN map.pairs : map.pairs[i][2] = c}

\* ChannelMap::apply: channels that are not mapped keep what the frame held.
Apply(map, sample, frame) ==
  [c \in DOMAIN frame |->
     IF c \in Destinations(map, DOMAIN frame) THEN sample ELSE frame[c]]

SilentFrame(channels) == [c \in 0 .. channels - 1 |-> Silence]
=============================================================================
