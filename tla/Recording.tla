----------------------------- MODULE Recording -----------------------------
(***************************************************************************)
(* Input streams and the Recorder (build_input_stream, play_input and      *)
(* play_duplex of stream_controller.rs; recorder.rs).  The application     *)
(* opens input streams over one SharedRecorder and exports it while their  *)
(* callbacks append what they capture; a mutex protects the buffer.        *)
(*                                                                         *)
(* A sample is the stream that captured it and its number in that stream,  *)
(* interleaved as the device delivers it: channel (k - 1) % channels of    *)
(* its frame.  Appending and exporting proceed sample by sample.           *)
(***************************************************************************)
EXTENDS Integers, Sequences

CONSTANTS Streams,      \* the input streams the application opens
          Free,         \* the recorder's mutex while nobody holds it
          App,          \* the application's thread, as its holder
          Channels,     \* the channels the recorder was made for
          Rate,         \* the rate the recorder was made for
          DeviceRates,  \* the rates an output may have negotiated
          Offers,       \* the sets of input configurations a device may offer
          MaxFrames,    \* bound: the longest block, in frames
          MaxSamples    \* bound: a stream captures no more once it has so many

ASSUME RecordingAssumption ==
  /\ Free \notin Streams /\ App \notin Streams /\ App # Free
  /\ Channels \in Nat \ {0}
  /\ \A configs \in Offers :
       configs \subseteq [channels : Nat \ {0}, format : {"F32", "I16"}, rate : Nat]
  /\ MaxFrames \in Nat
  /\ MaxSamples \in Nat

VARIABLES
  buf,        \* Recorder::buf
  lock,       \* who holds the recorder's mutex
  poisoned,   \* whether a holder of that mutex panicked
  condition,  \* cpal: "none", "open", "dead", "closing" or "dropped"
  channels,   \* the channels of each stream's configuration
  exact,      \* history: the device offered just what the stream was opened for
  cb,         \* where each stream's callback is
  block,      \* the samples of its block that are not yet appended
  captured,   \* history: samples the device has delivered
  app,        \* where the application's thread is
  wav         \* the samples written to the WAV file

recorderVars == <<buf, lock, poisoned>>
streamVars == <<condition, channels, exact>>
captureVars == <<cb, block, captured>>
appVars == <<app, wav>>
vars == <<recorderVars, streamVars, captureVars, appVars>>

Init ==
  /\ buf = <<>>
  /\ lock = Free
  /\ poisoned = FALSE
  /\ condition = [s \in Streams |-> "none"]
  /\ channels = [s \in Streams |-> Channels]
  /\ exact = [s \in Streams |-> FALSE]
  /\ cb = [s \in Streams |-> "out"]
  /\ block = [s \in Streams |-> 0]
  /\ captured = [s \in Streams |-> 0]
  /\ app = "ready"
  /\ wav = <<>>

-----------------------------------------------------------------------------
\* The application's thread: opening and dropping streams.

Goto(from, to) == app = from /\ app' = to

\* Mutant: the search does not ask for the channels.
ExactAtRate(configs, rate) == {c \in configs : c.format = "F32" /\ c.rate = rate}

Exact(configs, rate) ==
  {c \in configs : c.format = "F32" /\ c.rate = rate /\ c.channels = Channels}

\* What build_input_stream may open: the format asked for, else any in F32.
Openable(configs, rate) ==
  IF Exact(configs, rate) # {} THEN Exact(configs, rate)
                               ELSE {c \in configs : c.format = "F32"}

Opened(s, configs, rate) ==
  /\ condition' = [condition EXCEPT ![s] = "open"]
  /\ \E c \in Openable(configs, rate) : channels' = [channels EXCEPT ![s] = c.channels]
  /\ exact' = [exact EXCEPT ![s] =
                 \E c \in configs : c = [channels |-> Channels, format |-> "F32", rate |-> rate]]

\* Without an F32 configuration the constructor fails and nothing is opened.
Open(s, rate) ==
  /\ Goto("ready", "ready")
  /\ condition[s] = "none"
  /\ \E configs \in Offers :
       IF Openable(configs, rate) = {}
       THEN condition' = [condition EXCEPT ![s] = "dropped"] /\ UNCHANGED <<channels, exact>>
       ELSE Opened(s, configs, rate)
  /\ UNCHANGED <<recorderVars, captureVars, wav>>

PlayInput(s) == Open(s, Rate)

\* play_duplex asks for the output's rate and ignores the one it is given.
PlayDuplex(s) == \E rate \in DeviceRates : Open(s, rate)

\* Dropping the controller: no new callback begins, and the one in progress ends.
Drop(s) ==
  /\ Goto("ready", "drop")
  /\ condition[s] \in {"open", "dead"}
  /\ condition' = [condition EXCEPT ![s] = "closing"]
  /\ UNCHANGED <<recorderVars, channels, exact, captureVars, wav>>

DropJoin(s) ==
  /\ condition[s] = "closing"
  /\ cb[s] = "out"
  /\ Goto("drop", "ready")
  /\ condition' = [condition EXCEPT ![s] = "dropped"]
  /\ UNCHANGED <<recorderVars, channels, exact, captureVars, wav>>

-----------------------------------------------------------------------------
\* recorder.lock().unwrap().save_wav(..)

\* Mutant: the buffer is exported without the mutex.
SaveUnlocked ==
  /\ Goto("ready", "save")
  /\ wav' = <<>>
  /\ UNCHANGED <<recorderVars, streamVars, captureVars>>

SaveLocks ==
  /\ lock = Free
  /\ ~poisoned
  /\ Goto("ready", "save")
  /\ lock' = App
  /\ wav' = <<>>
  /\ UNCHANGED <<buf, poisoned, streamVars, captureVars>>

\* The unwrap of a poisoned mutex, as in README.md's export.
SavePanics ==
  /\ lock = Free
  /\ poisoned
  /\ Goto("ready", "gone")
  /\ UNCHANGED <<recorderVars, streamVars, captureVars, wav>>

WriteSample ==
  /\ app = "save"
  /\ Len(wav) < Len(buf)
  /\ wav' = Append(wav, buf[Len(wav) + 1])
  /\ UNCHANGED <<recorderVars, streamVars, captureVars, app>>

\* Mutant: the guard is kept.
FinalizeKeepsLock ==
  /\ Len(wav) = Len(buf)
  /\ Goto("save", "saved")
  /\ UNCHANGED <<recorderVars, streamVars, captureVars, wav>>

Finalize ==
  /\ Len(wav) = Len(buf)
  /\ Goto("save", "saved")
  /\ lock' = Free
  /\ UNCHANGED <<buf, poisoned, streamVars, captureVars, wav>>

\* The application goes on; the file stays until the next export.
Continue ==
  /\ Goto("saved", "ready")
  /\ UNCHANGED <<recorderVars, streamVars, captureVars, wav>>

\* Writing fails: save_wav returns the error and the guard is dropped.
WriteFails ==
  /\ Goto("save", "ready")
  /\ lock' = Free
  /\ wav' = <<>>
  /\ UNCHANGED <<buf, poisoned, streamVars, captureVars>>

\* A panic that the application survives, as that of a thread it has for looking at the
\* recorder's samples.
AppPanics ==
  /\ Goto("save", "ready")
  /\ lock' = Free
  /\ poisoned' = TRUE
  /\ wav' = <<>>
  /\ UNCHANGED <<buf, streamVars, captureVars>>

-----------------------------------------------------------------------------
\* The callback of input stream s.

Step(s, from, to) == cb[s] = from /\ cb' = [cb EXCEPT ![s] = to]

\* The device delivers a block of n frames.
Capture(s, n) ==
  /\ condition[s] = "open"
  /\ captured[s] < MaxSamples
  /\ Step(s, "out", "lock")
  /\ block' = [block EXCEPT ![s] = n * channels[s]]
  /\ captured' = [captured EXCEPT ![s] = @ + n * channels[s]]
  /\ UNCHANGED <<recorderVars, streamVars, appVars>>

\* Mutant: the callback does not wait for the mutex.
PushUnlocked(s) ==
  /\ ~poisoned
  /\ Step(s, "lock", "push")
  /\ lock' = s
  /\ UNCHANGED <<buf, poisoned, streamVars, block, captured, appVars>>

LockRecorder(s) ==
  /\ lock = Free
  /\ ~poisoned
  /\ Step(s, "lock", "push")
  /\ lock' = s
  /\ UNCHANGED <<buf, poisoned, streamVars, block, captured, appVars>>

\* Mutant: try_lock in place of lock.
BlockDropped(s) ==
  /\ lock # Free
  /\ Step(s, "lock", "out")
  /\ block' = [block EXCEPT ![s] = 0]
  /\ UNCHANGED <<recorderVars, streamVars, captured, appVars>>

\* if let Ok(..) without an else: from now on nothing is recorded.
PoisonedRecorder(s) ==
  /\ lock = Free
  /\ poisoned
  /\ Step(s, "lock", "out")
  /\ block' = [block EXCEPT ![s] = 0]
  /\ UNCHANGED <<recorderVars, streamVars, captured, appVars>>

\* extend_from_slice
PushSample(s) ==
  /\ cb[s] = "push"
  /\ block[s] > 0
  /\ buf' = Append(buf, <<s, captured[s] - block[s] + 1>>)
  /\ block' = [block EXCEPT ![s] = @ - 1]
  /\ UNCHANGED <<lock, poisoned, streamVars, cb, captured, appVars>>

\* Mutant: the guard outlives the callback.
PushedKeepsLock(s) ==
  /\ block[s] = 0
  /\ Step(s, "push", "out")
  /\ UNCHANGED <<recorderVars, streamVars, block, captured, appVars>>

Pushed(s) ==
  /\ block[s] = 0
  /\ Step(s, "push", "out")
  /\ lock' = Free
  /\ UNCHANGED <<buf, poisoned, streamVars, block, captured, appVars>>

\* The device is unplugged: its stream calls back no more.
StreamDies(s) ==
  /\ condition[s] = "open"
  /\ cb[s] = "out"
  /\ condition' = [condition EXCEPT ![s] = "dead"]
  /\ UNCHANGED <<recorderVars, channels, exact, captureVars, appVars>>

-----------------------------------------------------------------------------

CallProceeds == WriteSample \/ Finalize \/ Continue \/ \E s \in Streams : DropJoin(s)

Recording(s) == PushSample(s) \/ Pushed(s) \/ PoisonedRecorder(s)

Next ==
  \/ SaveLocks \/ SavePanics \/ WriteFails \/ AppPanics \/ CallProceeds
  \/ \E s \in Streams : \/ PlayInput(s) \/ PlayDuplex(s) \/ Drop(s)
                        \/ LockRecorder(s) \/ Recording(s) \/ StreamDies(s)
                        \/ \E n \in 0 .. MaxFrames : Capture(s, n)

Spec == Init /\ [][Next]_vars

\* Threads that can run do run, and a mutex that becomes free again and again is
\* acquired by everyone who waits for it.
FairSpec ==
  /\ Spec
  /\ WF_vars(CallProceeds)
  /\ \A s \in Streams : WF_vars(Recording(s)) /\ SF_vars(LockRecorder(s))

-----------------------------------------------------------------------------

Sample == Streams \X (Nat \ {0})

(* The type invariant: the recorder's mutex is held by the export in progress or by
   the callback that appends its block. *)
TypeOK ==
  /\ buf \in Seq(Sample)
  /\ lock \in Streams \cup {App, Free}
  /\ poisoned \in BOOLEAN
  /\ condition \in [Streams -> {"none", "open", "dead", "closing", "dropped"}]
  /\ channels \in [Streams -> Nat \ {0}]
  /\ exact \in [Streams -> BOOLEAN]
  /\ cb \in [Streams -> {"out", "lock", "push"}]
  /\ block \in [Streams -> Nat]
  /\ captured \in [Streams -> Nat]
  /\ app \in {"ready", "drop", "save", "saved", "gone"}
  /\ wav \in Seq(Sample)
  /\ lock = App <=> app = "save"
  /\ \A s \in Streams : lock = s <=> cb[s] = "push"

(* Each stream's samples are recorded in order, without a gap and once each, and none is
   missing between its callbacks: not those captured while the application exported the
   recorder or another stream appended, nor those of the last callback before a drop.
   Only after a panic of the application does recording stop for good. *)
CapturedInOrder ==
  /\ \A i \in DOMAIN buf : buf[i][2] <= captured[buf[i][1]]
  /\ \A i, j \in DOMAIN buf : i < j /\ buf[i][1] = buf[j][1] => buf[i][2] < buf[j][2]
  /\ \A i \in DOMAIN buf : \A k \in 1 .. buf[i][2] : \E j \in 1 .. i : buf[j] = <<buf[i][1], k>>
  /\ \A s \in Streams : cb[s] = "out" /\ ~poisoned =>
       \A k \in 1 .. captured[s] : \E i \in DOMAIN buf : buf[i] = <<s, k>>

\* Every stream has the recorder's channels because its device offered the format.
AsAsked ==
  \A s \in Streams : exact[s] \/ (condition[s] \in {"none", "dropped"} /\ captured[s] = 0)

(* The channels of frames stay in step: as long as every device offers the format that
   is asked for, a sample of channel c is at a place of channel c in the recorder, also
   when several streams share it. *)
ChannelsInStep ==
  AsAsked => \A i \in DOMAIN buf : (i - 1) % Channels = (buf[i][2] - 1) % Channels

(* An exported file is the beginning of the recording and ends with a whole frame: no
   callback is caught in the middle of its block. *)
ExportWhole ==
  app = "saved" =>
    /\ Len(wav) <= Len(buf)
    /\ \A i \in DOMAIN wav : wav[i] = buf[i]
    /\ AsAsked => Len(wav) % Channels = 0

(* A callback that has begun comes back to the device, although it waits while a
   whole file is written. *)
CaptureReturns == \A s \in Streams : cb[s] = "lock" ~> cb[s] = "out"
=============================================================================
