------------------------- MODULE RecordingProofs -------------------------
(***************************************************************************)
(* Proofs about Recording for every set of input streams, every number of  *)
(* channels, every offer of the devices and blocks of every length.        *)
(***************************************************************************)
EXTENDS Recording, TLAPS

-----------------------------------------------------------------------------
\* The inductive invariant.

\* How many samples of stream s were appended, or given up.
Done(s) == captured[s] - block[s]

\* What a callback holds at each step.
CallbackState ==
  \A s \in Streams :
    /\ block[s] <= captured[s]
    /\ cb[s] = "out" => block[s] = 0
    /\ cb[s] = "push" => ~poisoned

\* What the recorder holds of each stream, also in the middle of a block.
Recorded ==
  /\ \A i \in DOMAIN buf : buf[i][2] <= Done(buf[i][1])
  /\ \A i, j \in DOMAIN buf : i < j /\ buf[i][1] = buf[j][1] => buf[i][2] < buf[j][2]
  /\ \A i \in DOMAIN buf : \A k \in 1 .. buf[i][2] : \E j \in 1 .. i : buf[j] = <<buf[i][1], k>>
  /\ ~poisoned => \A s \in Streams : \A k \in 1 .. Done(s) : \E i \in DOMAIN buf : buf[i] = <<s, k>>

\* The file is the beginning of the recording at every moment.
Exported ==
  /\ Len(wav) <= Len(buf)
  /\ \A i \in DOMAIN wav : wav[i] = buf[i]

\* What is known of a stream from the way it was opened.
StreamFormat ==
  \A s \in Streams :
    /\ exact[s] => channels[s] = Channels
    /\ condition[s] = "none" => captured[s] = 0

TypeInv == TypeOK /\ CallbackState

SafeInv == TypeInv /\ Recorded /\ Exported /\ StreamFormat

\* No stream has captured anything in a format that is not the recorder's.
Uniform == \A s \in Streams : captured[s] > 0 => channels[s] = Channels

\* x samples are a number of whole frames.
Whole(x) == \E q \in Int : x = q * Channels

\* Every callback captures whole frames, and only one that appends leaves the recorder in
\* the middle of a frame.
FramesInStep ==
  /\ \A s \in Streams : /\ Whole(captured[s])
                        /\ cb[s] = "lock" => Whole(block[s])
                        /\ cb[s] = "push" => Whole(Len(buf) + block[s])
  /\ (\A s \in Streams : cb[s] # "push") => Whole(Len(buf))
  /\ \A i \in DOMAIN buf : Whole(i - buf[i][2])
  /\ app = "saved" => Whole(Len(wav))

FramesInv == Uniform => FramesInStep

-----------------------------------------------------------------------------
\* Type correctness.

(* The device's configuration is one of those it offers. *)
LEMMA OpenableChannels ==
  ASSUME NEW configs \in Offers, NEW rate, NEW c \in Openable(configs, rate)
  PROVE  /\ c.channels \in Nat \ {0}
         /\ (\E e \in configs : e = [channels |-> Channels, format |-> "F32", rate |-> rate])
              => c.channels = Channels
<1>1. c \in configs
  BY DEF Openable, Exact
<1>2. c.channels \in Nat \ {0}
  BY <1>1, RecordingAssumption
<1>3. ASSUME NEW e \in configs, e = [channels |-> Channels, format |-> "F32", rate |-> rate]
      PROVE  c.channels = Channels
  BY <1>3 DEF Openable, Exact
<1> QED
  BY <1>2, <1>3

LEMMA InitType == Init => TypeInv
<1> SUFFICES ASSUME Init PROVE TypeInv
  OBVIOUS
<1> USE RecordingAssumption DEF Init
<1>1. buf \in Seq(Sample) /\ wav \in Seq(Sample)
  OBVIOUS
<1>2. /\ lock = App <=> app = "save"
      /\ \A s \in Streams : lock = s <=> cb[s] = "push"
  OBVIOUS
<1>3. channels \in [Streams -> Nat \ {0}]
  OBVIOUS
<1>4. TypeOK
  BY <1>1, <1>2, <1>3 DEF TypeOK
<1> QED
  BY <1>4 DEF TypeInv, CallbackState

LEMMA NextType == TypeInv /\ [Next]_vars => TypeInv'
<1> SUFFICES ASSUME TypeInv, [Next]_vars PROVE TypeInv'
  OBVIOUS
<1> USE RecordingAssumption DEF Goto, Step, TypeInv, CallbackState
<1>1. CASE SaveLocks
  BY <1>1 DEF SaveLocks, TypeOK, streamVars, captureVars
<1>2. CASE SavePanics
  BY <1>2 DEF SavePanics, TypeOK, recorderVars, streamVars, captureVars
<1>3. CASE WriteFails \/ AppPanics
  <2>1. lock = App /\ \A s \in Streams : cb[s] # "push"
    BY <1>3 DEF WriteFails, AppPanics, TypeOK
  <2>2. CASE WriteFails
    BY <2>1, <2>2 DEF WriteFails, TypeOK, streamVars, captureVars
  <2>3. CASE AppPanics
    BY <2>1, <2>3 DEF AppPanics, TypeOK, streamVars, captureVars
  <2> QED
    BY <1>3, <2>2, <2>3
<1>4. CASE WriteSample
  BY <1>4 DEF WriteSample, TypeOK, recorderVars, streamVars, captureVars
<1>5. CASE Finalize
  BY <1>5 DEF Finalize, TypeOK, streamVars, captureVars
<1>6. CASE Continue
  BY <1>6 DEF Continue, TypeOK, recorderVars, streamVars, captureVars
<1>7. ASSUME NEW s \in Streams, DropJoin(s) PROVE TypeInv'
  BY <1>7 DEF DropJoin, TypeOK, recorderVars, captureVars
<1>8. ASSUME NEW s \in Streams, NEW rate, Open(s, rate) PROVE TypeInv'
  <2>1. PICK configs \in Offers :
          IF Openable(configs, rate) = {}
          THEN condition' = [condition EXCEPT ![s] = "dropped"] /\ UNCHANGED <<channels, exact>>
          ELSE Opened(s, configs, rate)
    BY <1>8 DEF Open
  <2>2. /\ condition' \in [Streams -> {"none", "open", "dead", "closing", "dropped"}]
        /\ channels' \in [Streams -> Nat \ {0}]
        /\ exact' \in [Streams -> BOOLEAN]
    <3>1. CASE Openable(configs, rate) = {}
      BY <2>1, <3>1 DEF TypeOK
    <3>2. CASE Openable(configs, rate) # {}
      <4>1. PICK c \in Openable(configs, rate) : channels' = [channels EXCEPT ![s] = c.channels]
        BY <2>1, <3>2 DEF Opened
      <4>2. c.channels \in Nat \ {0}
        BY OpenableChannels
      <4> QED
        BY <2>1, <3>2, <4>1, <4>2 DEF Opened, TypeOK
    <3> QED
      BY <3>1, <3>2
  <2> QED
    BY <1>8, <2>2 DEF Open, TypeOK, recorderVars, captureVars
<1>9. ASSUME NEW s \in Streams, Drop(s) PROVE TypeInv'
  BY <1>9 DEF Drop, TypeOK, recorderVars, captureVars
<1>10. ASSUME NEW s \in Streams, LockRecorder(s) PROVE TypeInv'
  BY <1>10 DEF LockRecorder, TypeOK, streamVars, appVars
<1>11. ASSUME NEW s \in Streams, PushSample(s) PROVE TypeInv'
  <2>1. <<s, captured[s] - block[s] + 1>> \in Sample
    BY DEF Sample, TypeOK
  <2> QED
    BY <1>11, <2>1 DEF PushSample, TypeOK, streamVars, appVars
<1>12. ASSUME NEW s \in Streams, Pushed(s) PROVE TypeInv'
  BY <1>12 DEF Pushed, TypeOK, streamVars, appVars
<1>13. ASSUME NEW s \in Streams, PoisonedRecorder(s) PROVE TypeInv'
  BY <1>13 DEF PoisonedRecorder, TypeOK, recorderVars, streamVars, appVars
<1>14. ASSUME NEW s \in Streams, StreamDies(s) PROVE TypeInv'
  BY <1>14 DEF StreamDies, TypeOK, recorderVars, captureVars, appVars
<1>15. ASSUME NEW s \in Streams, NEW n \in 0 .. MaxFrames, Capture(s, n) PROVE TypeInv'
  <2>1. n * channels[s] \in Nat
    BY DEF TypeOK
  <2> QED
    BY <1>15, <2>1 DEF Capture, TypeOK, recorderVars, streamVars, appVars
<1>16. CASE UNCHANGED vars
  BY <1>16 DEF TypeOK, vars, recorderVars, streamVars, captureVars, appVars
<1> QED
  BY <1>1, <1>2, <1>3, <1>4, <1>5, <1>6, <1>7, <1>8, <1>9, <1>10, <1>11, <1>12, <1>13,
     <1>14, <1>15, <1>16 DEF Next, CallProceeds, Recording, PlayInput, PlayDuplex

(* The recorder, its mutex and every callback stay well-typed: the mutex is held just by
   the export in progress or by the callback that appends. *)
THEOREM RecordingTypeCorrect == Spec => []TypeOK
<1>1. Init => TypeInv
  BY InitType
<1>2. TypeInv /\ [Next]_vars => TypeInv'
  BY NextType
<1>3. TypeInv => TypeOK
  BY DEF TypeInv
<1> QED
  BY <1>1, <1>2, <1>3, PTL DEF Spec

-----------------------------------------------------------------------------
\* What the recorder holds.

(* Only a callback and a panic of the application change what is recorded or known of it. *)
LEMMA RecordingSteps ==
  ASSUME TypeInv, [Next]_vars
  PROVE  \/ UNCHANGED <<buf, poisoned, block, captured>>
         \/ AppPanics
         \/ \E s \in Streams : \/ PushSample(s)
                               \/ PoisonedRecorder(s)
                               \/ \E n \in 0 .. MaxFrames : Capture(s, n)
BY DEF Next, CallProceeds, Recording, vars, recorderVars, streamVars, captureVars, appVars,
   SaveLocks, SavePanics, WriteFails, WriteSample, Finalize, Continue, DropJoin, PlayInput,
   PlayDuplex, Open, Drop, LockRecorder, Pushed, StreamDies

(* An appended sample goes behind all others. *)
LEMMA PushedSample ==
  ASSUME TypeInv, NEW s \in Streams, PushSample(s)
  PROVE  /\ Len(buf) \in Nat
         /\ Len(buf') = Len(buf) + 1
         /\ DOMAIN buf = 1 .. Len(buf)
         /\ DOMAIN buf' = 1 .. Len(buf) + 1
         /\ \A i \in DOMAIN buf : buf'[i] = buf[i]
         /\ buf'[Len(buf) + 1] = <<s, Done(s) + 1>>
         /\ \A i \in DOMAIN buf : buf[i] \in Sample
BY DEF TypeInv, TypeOK, PushSample, Done

(* What is in the recorder is a stream and a sample's number, counted from 1. *)
LEMMA RecordedType ==
  ASSUME TypeOK
  PROVE  /\ Len(buf) \in Nat /\ DOMAIN buf = 1 .. Len(buf)
         /\ \A i \in DOMAIN buf : /\ i \in Nat \ {0}
                                 /\ buf[i][1] \in Streams
                                 /\ buf[i][2] \in Nat \ {0}
<1>1. Len(buf) \in Nat /\ DOMAIN buf = 1 .. Len(buf) /\ \A i \in DOMAIN buf : buf[i] \in Sample
  BY DEF TypeOK
<1> QED
  BY <1>1 DEF Sample

LEMMA NextRecorded ==
  ASSUME TypeInv, TypeInv', Recorded, [Next]_vars
  PROVE  Recorded'
<1>1. CASE UNCHANGED <<buf, poisoned, block, captured>>
  BY <1>1 DEF Recorded, Done
<1>2. CASE AppPanics
  BY <1>2 DEF AppPanics, Recorded, Done, captureVars
<1>3. ASSUME NEW s \in Streams, PushSample(s) PROVE Recorded'
  <2>1. /\ Done(s)' = Done(s) + 1
        /\ \A t \in Streams \ {s} : Done(t)' = Done(t)
        /\ \A t \in Streams : Done(t) \in Nat
        /\ poisoned' = poisoned
    BY <1>3 DEF PushSample, Done, TypeInv, TypeOK, CallbackState
  <2>2. /\ Len(buf) \in Nat
        /\ DOMAIN buf = 1 .. Len(buf)
        /\ DOMAIN buf' = 1 .. Len(buf) + 1
        /\ \A i \in DOMAIN buf : buf'[i] = buf[i]
        /\ buf'[Len(buf) + 1] = <<s, Done(s) + 1>>
        /\ \A i \in DOMAIN buf : buf[i] \in Sample
    BY <1>3, PushedSample
  <2>3. \A i \in DOMAIN buf : buf[i][1] \in Streams /\ buf[i][2] \in Nat \ {0}
    BY <2>2 DEF Sample
  <2>4. \A i \in DOMAIN buf' : (buf[i][2] <= Done(buf[i][1]))'
    BY <2>1, <2>2, <2>3 DEF Recorded
  <2>5. \A i, j \in DOMAIN buf' :
          i < j /\ buf'[i][1] = buf'[j][1] => buf'[i][2] < buf'[j][2]
    BY <2>1, <2>2, <2>3 DEF Recorded
  <2>6. ASSUME ~poisoned', NEW t \in Streams, NEW k \in 1 .. Done(t)'
        PROVE  \E i \in DOMAIN buf' : buf'[i] = <<t, k>>
    <3>1. CASE t = s /\ k = Done(s) + 1
      BY <2>2, <3>1
    <3>2. CASE k \in 1 .. Done(t)
      <4>1. PICK i \in DOMAIN buf : buf[i] = <<t, k>>
        BY <2>1, <2>6, <3>2 DEF Recorded
      <4> QED
        BY <2>2, <4>1
    <3> QED
      BY <2>1, <2>6, <3>1, <3>2
  <2>7. ASSUME NEW i \in DOMAIN buf', NEW k \in 1 .. buf'[i][2]
        PROVE  \E j \in 1 .. i : buf'[j] = <<buf'[i][1], k>>
    <3>1. CASE i \in DOMAIN buf
      <4>1. PICK j \in 1 .. i : buf[j] = <<buf[i][1], k>>
        BY <2>2, <2>7, <3>1 DEF Recorded
      <4> QED
        BY <2>2, <3>1, <4>1
    <3>2. CASE i = Len(buf) + 1
      <4>1. ~poisoned
        BY <1>3 DEF PushSample, TypeInv, CallbackState
      <4>2. CASE k = Done(s) + 1
        BY <2>2, <3>2, <4>2
      <4>3. CASE k \in 1 .. Done(s)
        <5>1. PICK j \in DOMAIN buf : buf[j] = <<s, k>>
          BY <4>1, <4>3 DEF Recorded
        <5> QED
          BY <2>2, <3>2, <5>1
      <4> QED
        BY <2>1, <2>2, <2>7, <3>2, <4>2, <4>3
    <3> QED
      BY <2>2, <2>7, <3>1, <3>2
  <2> QED
    BY <2>4, <2>5, <2>6, <2>7 DEF Recorded
<1>4. ASSUME NEW s \in Streams, PoisonedRecorder(s) PROVE Recorded'
  <2>1. /\ poisoned /\ poisoned'
        /\ buf' = buf
        /\ \A t \in Streams : Done(t) \in Nat /\ Done(t)' \in Nat /\ Done(t) <= Done(t)'
    BY <1>4 DEF PoisonedRecorder, recorderVars, Done, TypeInv, TypeOK, CallbackState
  <2>2. \A i \in DOMAIN buf : buf[i] \in Sample
    BY DEF TypeInv, TypeOK
  <2>3. \A i \in DOMAIN buf : buf[i][1] \in Streams /\ buf[i][2] \in Nat \ {0}
    BY <2>2 DEF Sample
  <2>4. \A i \in DOMAIN buf' : (buf[i][2] <= Done(buf[i][1]))'
    BY <2>1, <2>3 DEF Recorded
  <2> QED
    BY <2>1, <2>4 DEF Recorded
<1>5. ASSUME NEW s \in Streams, NEW n \in 0 .. MaxFrames, Capture(s, n) PROVE Recorded'
  <2>1. n * channels[s] \in Nat
    <3>1. channels[s] \in Nat
      BY DEF TypeInv, TypeOK
    <3>2. n \in Nat
      BY RecordingAssumption
    <3> QED
      BY <3>1, <3>2
  <2>2. /\ \A t \in Streams : Done(t)' = Done(t)
        /\ buf' = buf
        /\ poisoned' = poisoned
    BY <1>5, <2>1 DEF Capture, Step, recorderVars, Done, TypeInv, TypeOK, CallbackState
  <2>3. \A i \in DOMAIN buf : buf[i][1] \in Streams
    BY DEF TypeInv, TypeOK, Sample
  <2> QED
    BY <2>2, <2>3 DEF Recorded
<1> QED
  BY <1>1, <1>2, <1>3, <1>4, <1>5, RecordingSteps

LEMMA NextExported ==
  ASSUME TypeInv, Exported, [Next]_vars
  PROVE  Exported'
<1>1. wav \in Seq(Sample) /\ buf \in Seq(Sample)
  BY DEF TypeInv, TypeOK
<1>2. ASSUME NEW s \in Streams, PushSample(s) PROVE Exported'
  <2>1. wav' = wav
    BY <1>2 DEF PushSample, appVars
  <2> QED
    BY <1>1, <1>2, <2>1, PushedSample DEF Exported
<1>3. CASE WriteSample
  <2>1. /\ buf' = buf
        /\ Len(wav) < Len(buf)
        /\ wav' = Append(wav, buf[Len(wav) + 1])
    BY <1>3 DEF WriteSample, recorderVars
  <2>2. /\ Len(wav') = Len(wav) + 1
        /\ DOMAIN wav' = 1 .. Len(wav) + 1
        /\ \A i \in DOMAIN wav : wav'[i] = wav[i]
        /\ wav'[Len(wav) + 1] = buf[Len(wav) + 1]
    BY <1>1, <2>1
  <2> QED
    BY <1>1, <2>1, <2>2 DEF Exported
<1>4. CASE wav' = <<>> /\ buf' = buf
  BY <1>1, <1>4 DEF Exported
<1>5. CASE UNCHANGED <<wav, buf>>
  BY <1>5 DEF Exported
<1>6. \/ WriteSample
      \/ wav' = <<>> /\ buf' = buf
      \/ UNCHANGED <<wav, buf>>
      \/ \E s \in Streams : PushSample(s)
  BY DEF Next, CallProceeds, Recording, vars, recorderVars, streamVars, captureVars, appVars,
     SaveLocks, SavePanics, WriteFails, AppPanics, Finalize, Continue, DropJoin, PlayInput,
     PlayDuplex, Open, Drop, Capture, LockRecorder, PoisonedRecorder, Pushed, StreamDies
<1> QED
  BY <1>2, <1>3, <1>4, <1>5, <1>6

LEMMA NextStreamFormat ==
  ASSUME TypeInv, StreamFormat, [Next]_vars
  PROVE  StreamFormat'
<1>1. TypeOK
  BY DEF TypeInv
<1>2. ASSUME NEW s \in Streams, NEW rate, Open(s, rate) PROVE StreamFormat'
  <2>1. captured' = captured
    BY <1>2 DEF Open, captureVars
  <2>2. PICK configs \in Offers :
          IF Openable(configs, rate) = {}
          THEN condition' = [condition EXCEPT ![s] = "dropped"] /\ UNCHANGED <<channels, exact>>
          ELSE Opened(s, configs, rate)
    BY <1>2 DEF Open
  <2>3. CASE Openable(configs, rate) = {}
    BY <1>1, <2>1, <2>2, <2>3 DEF StreamFormat, TypeOK
  <2>4. CASE Openable(configs, rate) # {}
    <3>1. PICK c \in Openable(configs, rate) : channels' = [channels EXCEPT ![s] = c.channels]
      BY <2>2, <2>4 DEF Opened
    <3>2. exact'[s] => c.channels = Channels
      BY <1>1, <2>2, <2>4, OpenableChannels DEF Opened, TypeOK
    <3> QED
      BY <1>1, <2>1, <2>2, <2>4, <3>1, <3>2 DEF Opened, StreamFormat, TypeOK
  <2> QED
    BY <2>3, <2>4
<1>3. ASSUME NEW s \in Streams, NEW n \in 0 .. MaxFrames, Capture(s, n) PROVE StreamFormat'
  BY <1>1, <1>3 DEF Capture, streamVars, StreamFormat, TypeOK
<1>4. CASE /\ UNCHANGED <<channels, exact, captured>>
           /\ \A s \in Streams : condition'[s] = "none" => condition[s] = "none"
  BY <1>4 DEF StreamFormat
<1>5. \/ /\ UNCHANGED <<channels, exact, captured>>
         /\ \A s \in Streams : condition'[s] = "none" => condition[s] = "none"
      \/ \E s \in Streams : \/ PlayInput(s) \/ PlayDuplex(s)
                            \/ \E n \in 0 .. MaxFrames : Capture(s, n)
  BY <1>1 DEF TypeOK, Next, CallProceeds, Recording, vars, recorderVars, streamVars,
     captureVars, appVars, SaveLocks, SavePanics, WriteFails, AppPanics, WriteSample,
     Finalize, Continue, DropJoin, Drop, LockRecorder, PoisonedRecorder, PushSample,
     Pushed, StreamDies
<1> QED
  BY <1>2, <1>3, <1>4, <1>5 DEF PlayInput, PlayDuplex

LEMMA InitSafe == Init => SafeInv
<1> SUFFICES ASSUME Init PROVE SafeInv
  OBVIOUS
<1>1. TypeInv
  BY InitType
<1>2. Recorded
  BY DEF Init, Recorded, Done
<1>3. Exported /\ StreamFormat
  BY DEF Init, Exported, StreamFormat
<1> QED
  BY <1>1, <1>2, <1>3 DEF SafeInv

LEMMA NextSafe == SafeInv /\ [Next]_vars => SafeInv'
BY NextType, NextRecorded, NextExported, NextStreamFormat DEF SafeInv

(* Each stream's samples are in the recorder in order, without a gap and once each, and
   between its callbacks all of them are, however the callbacks of several streams and
   the exports of the application interleave. *)
THEOREM RecordsInOrder == Spec => []CapturedInOrder
<1>1. SafeInv => CapturedInOrder
  <2> SUFFICES ASSUME SafeInv PROVE CapturedInOrder
    OBVIOUS
  <2>1. TypeOK /\ CallbackState
    BY DEF SafeInv, TypeInv
  <2>2. /\ \A i \in DOMAIN buf : buf[i][1] \in Streams /\ buf[i][2] \in Nat
        /\ \A s \in Streams : block[s] \in Nat /\ captured[s] \in Nat
    BY <2>1, RecordedType DEF TypeOK
  <2>3. \A s \in Streams : /\ Done(s) \in Int /\ Done(s) <= captured[s]
                           /\ cb[s] = "out" => Done(s) = captured[s]
    <3> SUFFICES ASSUME NEW s \in Streams
                 PROVE  /\ Done(s) \in Int /\ Done(s) <= captured[s]
                        /\ cb[s] = "out" => Done(s) = captured[s]
      OBVIOUS
    <3>1. block[s] <= captured[s] /\ (cb[s] = "out" => block[s] = 0)
      BY <2>1 DEF CallbackState
    <3> QED
      BY <2>2, <3>1 DEF Done
  <2>4. \A i \in DOMAIN buf : buf[i][2] <= captured[buf[i][1]]
    BY <2>2, <2>3 DEF SafeInv, Recorded
  <2> QED
    BY <2>3, <2>4 DEF SafeInv, Recorded, CapturedInOrder
<1> QED
  BY <1>1, InitSafe, NextSafe, PTL DEF Spec

-----------------------------------------------------------------------------
\* Whole frames.

LEMMA WholeSum ==
  ASSUME NEW x \in Int, NEW y \in Int, Whole(x), Whole(y)
  PROVE  Whole(x + y) /\ Whole(x - y)
<1>1. PICK q \in Int : x = q * Channels
  BY DEF Whole
<1>2. PICK r \in Int : y = r * Channels
  BY DEF Whole
<1>3. /\ x + y = (q + r) * Channels
      /\ x - y = (q - r) * Channels
  BY <1>1, <1>2, RecordingAssumption
<1>4. q + r \in Int /\ q - r \in Int
  OBVIOUS
<1> QED
  BY <1>3, <1>4 DEF Whole

(* Two numbers that differ by whole frames belong to the same channel. *)
LEMMA SameChannel ==
  ASSUME NEW x \in Nat, NEW y \in Nat, Whole(x - y)
  PROVE  x % Channels = y % Channels
<1> USE RecordingAssumption
<1>1. PICK q \in Int : x - y = q * Channels
  BY DEF Whole
<1> DEFINE a == x \div Channels
           b == y \div Channels
           f == x % Channels
           g == y % Channels
           d == a - b - q
<1>2. /\ a \in Int /\ f \in 0 .. Channels - 1
      /\ x = a * Channels + f
  OBVIOUS
<1>3. /\ b \in Int /\ g \in 0 .. Channels - 1
      /\ y = b * Channels + g
  OBVIOUS
<1>4. d \in Int
  BY <1>2, <1>3
<1>5. d * Channels = a * Channels - b * Channels - q * Channels
  BY <1>2, <1>3
<1> HIDE DEF a, b, f, g, d
<1>6. d * Channels = g - f
  BY <1>1, <1>2, <1>3, <1>5
<1>7. d = 0
  <2>1. CASE d >= 1
    <3>1. d * Channels >= Channels
      BY <1>4, <2>1
    <3> QED
      BY <1>2, <1>3, <1>6, <3>1
  <2>2. CASE d <= -1
    <3>1. d * Channels <= -Channels
      BY <1>4, <2>2
    <3> QED
      BY <1>2, <1>3, <1>6, <3>1
  <2> QED
    BY <1>4, <2>1, <2>2
<1>8. f = g
  BY <1>2, <1>3, <1>6, <1>7
<1> QED
  BY <1>8 DEF f, g

LEMMA WholeIsWhole ==
  ASSUME NEW x \in Nat, Whole(x)
  PROVE  x % Channels = 0
<1>1. Whole(x - 0)
  OBVIOUS
<1>2. x % Channels = 0 % Channels
  BY <1>1, SameChannel
<1> QED
  BY <1>2, RecordingAssumption

LEMMA UniformBack ==
  ASSUME SafeInv, [Next]_vars, Uniform'
  PROVE  Uniform
<1>1. TypeOK /\ StreamFormat
  BY DEF SafeInv, TypeInv
<1>2. ASSUME NEW s \in Streams, captured[s] > 0 PROVE channels[s] = Channels
  <2>1. captured'[s] >= captured[s]
    <3>1. CASE captured' = captured
      BY <1>1, <3>1 DEF TypeOK
    <3>2. ASSUME NEW t \in Streams, NEW n \in 0 .. MaxFrames, Capture(t, n)
          PROVE  captured'[s] >= captured[s]
      <4>1. n * channels[t] \in Nat
        <5>1. channels[t] \in Nat /\ n \in Nat
          BY <1>1, RecordingAssumption DEF TypeOK
        <5> QED
          BY <5>1
      <4> QED
        BY <1>1, <3>2, <4>1 DEF Capture, TypeOK
    <3>3. \/ captured' = captured
          \/ \E t \in Streams, n \in 0 .. MaxFrames : Capture(t, n)
      BY DEF Next, CallProceeds, Recording, vars, captureVars, SaveLocks, SavePanics,
         WriteFails, AppPanics, WriteSample, Finalize, Continue, DropJoin, PlayInput,
         PlayDuplex, Open, Drop, LockRecorder, PoisonedRecorder, PushSample, Pushed, StreamDies
    <3> QED
      BY <3>1, <3>2, <3>3
  <2>2. channels'[s] = channels[s]
    <3>1. ASSUME NEW t \in Streams, NEW rate, Open(t, rate)
          PROVE  channels'[s] = channels[s]
      <4>1. s # t
        BY <1>1, <1>2, <3>1 DEF Open, StreamFormat, TypeOK
      <4> QED
        BY <1>1, <3>1, <4>1 DEF Open, Opened, TypeOK
    <3>2. \/ channels' = channels
          \/ \E t \in Streams : PlayInput(t) \/ PlayDuplex(t)
      BY DEF Next, CallProceeds, Recording, vars, streamVars, SaveLocks, SavePanics,
         WriteFails, AppPanics, WriteSample, Finalize, Continue, DropJoin, Drop, Capture,
         LockRecorder, PoisonedRecorder, PushSample, Pushed, StreamDies
    <3> QED
      BY <3>1, <3>2 DEF PlayInput, PlayDuplex
  <2>3. captured'[s] > 0
    BY <1>1, <1>2, <2>1, NextType DEF SafeInv, TypeInv, TypeOK
  <2> QED
    BY <2>2, <2>3 DEF Uniform
<1> QED
  BY <1>2 DEF Uniform

LEMMA NextFrames ==
  ASSUME SafeInv, FramesInv, [Next]_vars
  PROVE  FramesInv'
<1> USE RecordingAssumption
<1>1. SUFFICES ASSUME Uniform' PROVE FramesInStep'
  BY DEF FramesInv
<1>2. Uniform /\ FramesInStep
  BY <1>1, UniformBack DEF FramesInv
<1>3. TypeOK /\ CallbackState /\ Exported
  BY DEF SafeInv, TypeInv
<1>4. TypeOK'
  BY NextType DEF SafeInv, TypeInv
<1>5. /\ Len(buf) \in Nat
      /\ \A s \in Streams : captured[s] \in Nat /\ block[s] \in Nat
      /\ \A i \in DOMAIN buf : i \in Nat /\ buf[i][2] \in Nat
  BY <1>3, RecordedType DEF TypeOK
<1>6. ASSUME NEW s \in Streams, PushSample(s) PROVE FramesInStep'
  <2>1. /\ Len(buf') = Len(buf) + 1
        /\ DOMAIN buf = 1 .. Len(buf)
        /\ DOMAIN buf' = 1 .. Len(buf) + 1
        /\ \A i \in DOMAIN buf : buf'[i] = buf[i]
        /\ buf'[Len(buf) + 1] = <<s, Done(s) + 1>>
    BY <1>6, PushedSample DEF SafeInv
  <2>2. /\ UNCHANGED <<cb, captured, app, wav>>
        /\ cb[s] = "push"
        /\ block' = [block EXCEPT ![s] = @ - 1]
    BY <1>6 DEF PushSample, appVars
  <2>3. \A t \in Streams \ {s} : cb[t] # "push"
    BY <1>3, <2>2 DEF TypeOK
  <2>4. Len(buf') + block'[s] = Len(buf) + block[s]
    BY <1>3, <1>5, <2>1, <2>2 DEF TypeOK
  <2>5. Whole((Len(buf) + 1) - (Done(s) + 1))
    <3>1. (Len(buf) + 1) - (Done(s) + 1) = (Len(buf) + block[s]) - captured[s]
      BY <1>5 DEF Done
    <3>2. Whole(Len(buf) + block[s]) /\ Whole(captured[s])
      BY <1>2, <2>2 DEF FramesInStep
    <3>3. Len(buf) + block[s] \in Int /\ captured[s] \in Int
      BY <1>5
    <3>4. Whole((Len(buf) + block[s]) - captured[s])
      <4> DEFINE x == Len(buf) + block[s]
                 y == captured[s]
      <4>1. x \in Int /\ y \in Int /\ Whole(x) /\ Whole(y)
        BY <3>2, <3>3
      <4> HIDE DEF x, y
      <4>2. Whole(x - y)
        BY <4>1, WholeSum
      <4> QED
        BY <4>2 DEF x, y
    <3> QED
      BY <3>1, <3>4
  <2>6. \A i \in DOMAIN buf' : Whole(i - buf'[i][2])
    <3> SUFFICES ASSUME NEW i \in DOMAIN buf' PROVE Whole(i - buf'[i][2])
      OBVIOUS
    <3>1. CASE i \in DOMAIN buf
      BY <1>2, <2>1, <3>1 DEF FramesInStep
    <3>2. CASE i = Len(buf) + 1
      <4>1. buf'[i][2] = Done(s) + 1
        BY <2>1, <3>2
      <4> QED
        BY <2>5, <3>2, <4>1, Zenon
    <3> QED
      BY <1>5, <2>1, <3>1, <3>2
  <2>7. \A t \in Streams : /\ Whole(captured'[t])
                           /\ cb'[t] = "lock" => Whole(block'[t])
                           /\ cb'[t] = "push" => Whole(Len(buf') + block'[t])
    BY <1>2, <1>3, <2>2, <2>3, <2>4 DEF FramesInStep, TypeOK
  <2> QED
    BY <1>2, <2>2, <2>6, <2>7 DEF FramesInStep, Whole
<1>7. ASSUME NEW s \in Streams, NEW n \in 0 .. MaxFrames, Capture(s, n) PROVE FramesInStep'
  <2>1. n \in Nat /\ channels[s] \in Nat /\ n * channels[s] \in Nat
    BY <1>3 DEF TypeOK
  <2>2. /\ captured' = [captured EXCEPT ![s] = @ + n * channels[s]]
        /\ block' = [block EXCEPT ![s] = n * channels[s]]
        /\ cb[s] = "out" /\ cb' = [cb EXCEPT ![s] = "lock"]
        /\ UNCHANGED <<buf, channels, app, wav>>
    BY <1>7 DEF Capture, Step, recorderVars, streamVars, appVars
  <2>3. Whole(n * channels[s])
    <3>1. CASE n * channels[s] = 0
      <4>1. n * channels[s] = 0 * Channels
        BY <3>1
      <4> QED
        BY <4>1 DEF Whole
    <3>2. CASE n * channels[s] > 0
      <4>1. channels[s] = Channels
        BY <1>1, <1>3, <1>5, <2>1, <2>2, <3>2 DEF Uniform, TypeOK
      <4> QED
        BY <2>1, <4>1 DEF Whole
    <3> QED
      BY <2>1, <3>1, <3>2
  <2>4. Whole(captured[s] + n * channels[s])
    <3>1. Whole(captured[s]) /\ captured[s] \in Int
      BY <1>2, <1>5 DEF FramesInStep
    <3> DEFINE m == n * channels[s]
    <3>2. m \in Int /\ Whole(m)
      BY <2>1, <2>3
    <3> HIDE DEF m
    <3>3. Whole(captured[s] + m)
      BY <3>1, <3>2, WholeSum
    <3> QED
      BY <3>3 DEF m
  <2>5. \A t \in Streams : /\ Whole(captured'[t])
                           /\ cb'[t] = "lock" => Whole(block'[t])
                           /\ cb'[t] = "push" => Whole(Len(buf') + block'[t])
    BY <1>2, <1>3, <2>2, <2>3, <2>4 DEF FramesInStep, TypeOK
  <2>6. (\A t \in Streams : cb'[t] # "push") => Whole(Len(buf'))
    BY <1>2, <1>3, <2>2 DEF FramesInStep, TypeOK
  <2> QED
    BY <1>2, <2>2, <2>5, <2>6 DEF FramesInStep, Whole
<1>8. ASSUME NEW s \in Streams, LockRecorder(s) PROVE FramesInStep'
  <2>1. /\ cb[s] = "lock" /\ cb' = [cb EXCEPT ![s] = "push"]
        /\ UNCHANGED <<buf, block, captured, app, wav>>
    BY <1>8 DEF LockRecorder, Step, appVars
  <2>2. Whole(Len(buf)) /\ \A t \in Streams : cb[t] # "push"
    BY <1>2, <1>3, <1>8 DEF LockRecorder, TypeOK, FramesInStep
  <2>3. Whole(Len(buf) + block[s])
    <3>1. Whole(block[s]) /\ block[s] \in Int /\ Len(buf) \in Int
      BY <1>2, <1>5, <2>1 DEF FramesInStep
    <3> QED
      BY <2>2, <3>1, WholeSum
  <2>4. \A t \in Streams : /\ Whole(captured'[t])
                           /\ cb'[t] = "lock" => Whole(block'[t])
                           /\ cb'[t] = "push" => Whole(Len(buf') + block'[t])
    BY <1>2, <1>3, <2>1, <2>2, <2>3 DEF FramesInStep, TypeOK
  <2> QED
    BY <1>2, <2>1, <2>2, <2>4 DEF FramesInStep, Whole
<1>9. ASSUME NEW s \in Streams, Pushed(s) PROVE FramesInStep'
  <2>1. /\ cb[s] = "push" /\ block[s] = 0 /\ cb' = [cb EXCEPT ![s] = "out"]
        /\ UNCHANGED <<buf, block, captured, app, wav>>
    BY <1>9 DEF Pushed, Step, appVars
  <2>2. Whole(Len(buf) + block[s]) /\ Len(buf) + block[s] = Len(buf)
    BY <1>2, <1>5, <2>1 DEF FramesInStep
  <2>3. \A t \in Streams : cb'[t] # "push"
    BY <1>3, <2>1 DEF TypeOK
  <2>4. \A t \in Streams : /\ Whole(captured'[t])
                           /\ cb'[t] = "lock" => Whole(block'[t])
    BY <1>2, <1>3, <2>1 DEF FramesInStep, TypeOK
  <2> QED
    BY <1>2, <2>1, <2>2, <2>3, <2>4 DEF FramesInStep, Whole
<1>10. ASSUME NEW s \in Streams, PoisonedRecorder(s) PROVE FramesInStep'
  <2>1. /\ cb[s] = "lock" /\ cb' = [cb EXCEPT ![s] = "out"]
        /\ block' = [block EXCEPT ![s] = 0]
        /\ UNCHANGED <<buf, captured, app, wav>>
    BY <1>10 DEF PoisonedRecorder, Step, recorderVars, appVars
  <2>2. \A t \in Streams : /\ Whole(captured'[t])
                           /\ cb'[t] = "lock" => Whole(block'[t])
                           /\ cb'[t] = "push" => Whole(Len(buf') + block'[t])
    BY <1>2, <1>3, <2>1 DEF FramesInStep, TypeOK
  <2>3. (\A t \in Streams : cb'[t] # "push") => Whole(Len(buf'))
    BY <1>2, <1>3, <2>1 DEF FramesInStep, TypeOK
  <2> QED
    BY <1>2, <2>1, <2>2, <2>3 DEF FramesInStep, Whole
<1>11. CASE Finalize
  <2>1. UNCHANGED <<buf, cb, block, captured, wav>> /\ Len(wav) = Len(buf)
    BY <1>11 DEF Finalize, captureVars
  <2>2. Whole(Len(buf))
    BY <1>2, <1>3, <1>11 DEF Finalize, Goto, TypeOK, FramesInStep
  <2> QED
    BY <1>2, <2>1, <2>2 DEF FramesInStep, Whole
<1>12. CASE /\ UNCHANGED <<buf, cb, block, captured>>
            /\ app' = "saved" => app = "saved" /\ wav' = wav
  BY <1>2, <1>12 DEF FramesInStep, Whole
<1>13. \/ /\ UNCHANGED <<buf, cb, block, captured>>
          /\ app' = "saved" => app = "saved" /\ wav' = wav
       \/ Finalize
       \/ \E s \in Streams : \/ PushSample(s) \/ LockRecorder(s) \/ Pushed(s)
                             \/ PoisonedRecorder(s)
                             \/ \E n \in 0 .. MaxFrames : Capture(s, n)
  BY DEF Next, CallProceeds, Recording, vars, recorderVars, streamVars, captureVars, appVars,
     SaveLocks, SavePanics, WriteFails, AppPanics, WriteSample, Continue, DropJoin,
     PlayInput, PlayDuplex, Open, Drop, StreamDies, Goto
<1> QED
  BY <1>6, <1>7, <1>8, <1>9, <1>10, <1>11, <1>12, <1>13

LEMMA InitFrames == Init => FramesInv
<1> SUFFICES ASSUME Init PROVE FramesInStep
  BY DEF FramesInv
<1>1. Whole(0)
  <2>1. 0 = 0 * Channels
    BY RecordingAssumption
  <2> QED
    BY <2>1 DEF Whole
<1> QED
  BY <1>1 DEF Init, FramesInStep

LEMMA AsAskedUniform == SafeInv /\ AsAsked => Uniform
BY DEF SafeInv, TypeInv, TypeOK, StreamFormat, AsAsked, Uniform

(* As long as every device offers the format that is asked for, each sample is at a
   place of its own channel in the shared recorder. *)
THEOREM FramesStayInStep == Spec => []ChannelsInStep
<1>1. SafeInv /\ FramesInv => ChannelsInStep
  <2> SUFFICES ASSUME SafeInv, FramesInv, AsAsked, NEW i \in DOMAIN buf
               PROVE  (i - 1) % Channels = (buf[i][2] - 1) % Channels
    BY DEF ChannelsInStep
  <2>1. Whole(i - buf[i][2])
    BY AsAskedUniform DEF FramesInv, FramesInStep
  <2>2. i \in Nat \ {0} /\ buf[i][2] \in Nat \ {0}
    BY RecordedType DEF SafeInv, TypeInv
  <2>3. (i - 1) - (buf[i][2] - 1) = i - buf[i][2]
    BY <2>2
  <2>4. i - 1 \in Nat /\ buf[i][2] - 1 \in Nat
    BY <2>2
  <2> QED
    BY <2>1, <2>3, <2>4, SameChannel
<1> QED
  BY <1>1, InitSafe, NextSafe, InitFrames, NextFrames, PTL DEF Spec

(* An exported file is the beginning of the recording and, in the formats asked for,
   whole frames: an export never sees a block that is half appended. *)
THEOREM ExportsWholeFrames == Spec => []ExportWhole
<1>1. SafeInv /\ FramesInv => ExportWhole
  <2> SUFFICES ASSUME SafeInv, FramesInv, app = "saved" PROVE ExportWhole
    BY DEF ExportWhole
  <2>1. AsAsked => Len(wav) % Channels = 0
    <3>1. Len(wav) \in Nat
      BY DEF SafeInv, TypeInv, TypeOK
    <3>2. AsAsked => Whole(Len(wav))
      BY AsAskedUniform DEF FramesInv, FramesInStep
    <3> QED
      BY <3>1, <3>2, WholeIsWhole
  <2> QED
    BY <2>1 DEF SafeInv, Exported, ExportWhole
<1> QED
  BY <1>1, InitSafe, NextSafe, InitFrames, NextFrames, PTL DEF Spec

=============================================================================
