-------------------------- MODULE StreamController --------------------------
(***************************************************************************)
(* The life of an output stream (stream_controller.rs): the application's  *)
(* thread calls start, stop, recover, restart, clear_error and drop while  *)
(* every open cpal stream runs run_callback on a thread of its own.  They  *)
(* share the stream state, two error flags and the mutex around the        *)
(* RuntimeHandle.  A step is one access to something shared.               *)
(*                                                                         *)
(* cpal is external: a stream is open (idle or playing) once it is built,  *)
(* it may call back in both states, it is lost with its device and dead    *)
(* after its error callback, and dropping it blocks until the callback in  *)
(* progress has returned.                                                  *)
(***************************************************************************)
CONSTANTS Streams,   \* identities of cpal streams, reused once dropped
          NoStream,  \* the None of self.stream
          Free       \* the handle mutex while nobody holds it

ASSUME ControllerAssumption ==
  /\ NoStream \notin Streams
  /\ Free \notin Streams

VARIABLES
  ctl,              \* where the application's thread is; "ready" between calls
  stream,           \* self.stream
  fresh,            \* the stream restart has built and not yet installed
  input,            \* self.input_stream: "none", "paused" or "playing"
  state,            \* AtomicStreamState
  error_flag,
  recovery_needed,
  store,            \* whether handle_store holds a RuntimeHandle
  lock,             \* who holds the mutex of handle_store
  poisoned,         \* whether a holder of that mutex panicked
  streams,          \* cpal: the condition of each stream
  devUp,            \* whether the default output device is there
  cb,               \* where each stream's callback is
  buf,              \* what each stream's callback has made of its buffer
  pending           \* stores of run_callback's error path not yet visible

controlVars == <<stream, fresh, input>>
flagVars == <<state, error_flag, recovery_needed>>
storeVars == <<store, lock, poisoned>>
hostVars == <<streams, devUp>>
audioVars == <<cb, buf, pending>>
vars == <<ctl, controlVars, flagVars, storeVars, hostVars, audioVars>>

Open == {"idle", "playing"}

\* play, play_with_channel_map, play_on_device: the callback owns the Runtime.
PlayRuntime == stream \in Streams /\ ~store /\ state = "Stopped" /\ input = "none"

\* play_handle and its variants: the RuntimeHandle is kept for restarts.
PlayHandle == stream \in Streams /\ store /\ state = "Stopped" /\ input = "none"

PlayInput == stream = NoStream /\ ~store /\ state = "Running" /\ input = "paused"

PlayDuplex == stream \in Streams /\ ~store /\ state = "Running" /\ input = "paused"

\* A constructor has returned: its streams are built and none was played.
Init ==
  /\ ctl = "ready"
  /\ fresh = NoStream
  /\ error_flag = FALSE
  /\ recovery_needed = FALSE
  /\ lock = Free
  /\ poisoned = FALSE
  /\ devUp = TRUE
  /\ cb = [s \in Streams |-> "out"]
  /\ buf = [s \in Streams |-> "silence"]
  /\ pending = [s \in Streams |-> {}]
  /\ store \in BOOLEAN
  /\ PlayRuntime \/ PlayHandle \/ PlayInput \/ PlayDuplex
  /\ streams = [s \in Streams |-> IF s = stream THEN "idle" ELSE "none"]

-----------------------------------------------------------------------------
\* The application's thread.

Goto(from, to) == ctl = from /\ ctl' = to

\* A call that does not take effect on the stream leaves it as it is.
After(s, condition) == [streams EXCEPT ![s] = condition]

\* Dropping a cpal stream: no new callback begins ...
Closing(s) == IF s = NoStream THEN streams ELSE After(s, "closing")

\* Mutant: the drop does not wait.
JoinedAtOnce(s) == TRUE

\* ... and the drop returns when the one in progress, if any, has returned.
Joined(s) == s # NoStream => cb[s] = "out"
Closed(s) == IF s = NoStream THEN streams ELSE After(s, "none")

CanPlay(s) == s \in Streams /\ streams[s] \in Open /\ devUp

StartPlay ==
  /\ Goto("ready", "start")
  /\ CanPlay(stream)
  /\ streams' = After(stream, "playing")
  /\ UNCHANGED <<controlVars, flagVars, storeVars, devUp, audioVars>>

\* stream.play() fails, as it may at any time: start returns before it touches state or
\* input.
StartFails ==
  /\ ctl = "ready"
  /\ stream # NoStream
  /\ UNCHANGED vars

\* The rest of start, and all of it when there is no output stream.
StartRuns ==
  /\ \/ Goto("start", "ready") /\ state' = "Running"
     \/ Goto("ready", "ready") /\ stream = NoStream /\ UNCHANGED state
  /\ input' = IF input = "none" THEN "none" ELSE "playing"
  /\ UNCHANGED <<stream, fresh, error_flag, recovery_needed, storeVars, hostVars,
                 audioVars>>

\* Errors of pause are ignored.
StopPause ==
  /\ Goto("ready", "stop")
  /\ streams' = IF CanPlay(stream) THEN After(stream, "idle") ELSE streams
  /\ input' = IF input = "none" THEN "none" ELSE "paused"
  /\ UNCHANGED <<stream, fresh, flagVars, storeVars, devUp, audioVars>>

StopState ==
  /\ Goto("stop", "ready")
  /\ state' = "Stopped"
  /\ UNCHANGED <<controlVars, error_flag, recovery_needed, storeVars, hostVars,
                 audioVars>>

ClearError ==
  /\ Goto("ready", "ready")
  /\ error_flag' = FALSE
  /\ UNCHANGED <<controlVars, state, recovery_needed, storeVars, hostVars, audioVars>>

\* Mutant: the request is withdrawn before the stream is dropped.
RecoverClearsFirst ==
  /\ Goto("ready", "recover.join")
  /\ streams' = Closing(stream)
  /\ recovery_needed' = FALSE
  /\ UNCHANGED <<controlVars, state, error_flag, storeVars, devUp, audioVars>>

\* recover: self.stream = None drops the stream before the flags are cleared.
RecoverDrop ==
  /\ Goto("ready", "recover.join")
  /\ streams' = Closing(stream)
  /\ UNCHANGED <<controlVars, flagVars, storeVars, devUp, audioVars>>

RecoverJoin ==
  /\ Goto("recover.join", "recover.error_flag")
  /\ Joined(stream)
  /\ streams' = Closed(stream)
  /\ stream' = NoStream
  /\ UNCHANGED <<fresh, input, flagVars, storeVars, devUp, audioVars>>

RecoverErrorFlag ==
  /\ Goto("recover.error_flag", "recover.flag")
  /\ error_flag' = FALSE
  /\ UNCHANGED <<controlVars, state, recovery_needed, storeVars, hostVars, audioVars>>

RecoverFlag ==
  /\ Goto("recover.flag", "recover.lock")
  /\ recovery_needed' = FALSE
  /\ UNCHANGED <<controlVars, state, error_flag, storeVars, hostVars, audioVars>>

\* Mutant: the guard of the condition lives on while restart runs.
RecoverKeepsLock ==
  /\ lock = Free
  /\ store /\ Goto("recover.lock", "restart.lock")
  /\ lock' = "application"
  /\ UNCHANGED <<controlVars, flagVars, store, poisoned, hostVars, audioVars>>

\* The guard is dropped at the end of the condition, before restart locks again.
RecoverCheck ==
  /\ lock = Free
  /\ \/ poisoned /\ Goto("recover.lock", "ready")
     \/ ~poisoned /\ store /\ Goto("recover.lock", "restart.lock")
     \/ ~poisoned /\ ~store /\ Goto("recover.lock", "recover.stop")
  /\ UNCHANGED <<controlVars, flagVars, storeVars, hostVars, audioVars>>

RecoverStop ==
  /\ Goto("recover.stop", "ready")
  /\ state' = "Stopped"
  /\ UNCHANGED <<controlVars, error_flag, recovery_needed, storeVars, hostVars,
                 audioVars>>

Restart ==
  /\ Goto("ready", "restart.lock")
  /\ UNCHANGED <<controlVars, flagVars, storeVars, hostVars, audioVars>>

RestartCheck ==
  /\ lock = Free
  /\ \/ (poisoned \/ ~store) /\ Goto("restart.lock", "ready")
     \/ ~poisoned /\ store /\ Goto("restart.lock", "restart.build")
  /\ UNCHANGED <<controlVars, flagVars, storeVars, hostVars, audioVars>>

RestartBuild ==
  /\ devUp
  /\ Goto("restart.build", "restart.play")
  /\ \E s \in Streams :
       /\ streams[s] = "none"
       /\ fresh' = s
       /\ streams' = After(s, "idle")
  /\ UNCHANGED <<stream, input, flagVars, storeVars, devUp, audioVars>>

\* No default device, one without the rate, or one that refuses the stream, being there
\* and even held by the stream about to be replaced: restart returns the error.
RestartBuildFails ==
  /\ Goto("restart.build", "ready")
  /\ UNCHANGED <<controlVars, flagVars, storeVars, hostVars, audioVars>>

\* Mutant: the new stream is installed without being played.
RestartWithoutPlay ==
  /\ CanPlay(fresh)
  /\ Goto("restart.play", "restart.install")
  /\ UNCHANGED <<controlVars, flagVars, storeVars, hostVars, audioVars>>

RestartPlay ==
  /\ CanPlay(fresh)
  /\ Goto("restart.play", "restart.install")
  /\ streams' = After(fresh, "playing")
  /\ UNCHANGED <<controlVars, flagVars, storeVars, devUp, audioVars>>

\* stream.play() fails, with the device or without: the error return drops the stream
\* just built.
RestartPlayFails ==
  /\ Goto("restart.play", "restart.abandon")
  /\ streams' = Closing(fresh)
  /\ UNCHANGED <<controlVars, flagVars, storeVars, devUp, audioVars>>

RestartAbandon ==
  /\ Goto("restart.abandon", "ready")
  /\ Joined(fresh)
  /\ streams' = Closed(fresh)
  /\ fresh' = NoStream
  /\ UNCHANGED <<stream, input, flagVars, storeVars, devUp, audioVars>>

\* self.stream = Some(stream) drops the stream it replaces, if there is one.
RestartInstall ==
  /\ Goto("restart.install", "restart.join")
  /\ streams' = Closing(stream)
  /\ UNCHANGED <<controlVars, flagVars, storeVars, devUp, audioVars>>

RestartJoin ==
  /\ Goto("restart.join", "restart.state")
  /\ Joined(stream)
  /\ streams' = Closed(stream)
  /\ stream' = fresh
  /\ fresh' = NoStream
  /\ UNCHANGED <<input, flagVars, storeVars, devUp, audioVars>>

RestartState ==
  /\ Goto("restart.state", "ready")
  /\ state' = "Running"
  /\ UNCHANGED <<controlVars, error_flag, recovery_needed, storeVars, hostVars,
                 audioVars>>

\* Drop pauses the output stream; then the fields, both streams among them, drop.
Drop ==
  /\ Goto("ready", "drop.join")
  /\ streams' = Closing(stream)
  /\ UNCHANGED <<controlVars, flagVars, storeVars, devUp, audioVars>>

DropJoin ==
  /\ Goto("drop.join", "gone")
  /\ Joined(stream)
  /\ streams' = Closed(stream)
  /\ stream' = NoStream
  /\ input' = "none"
  /\ UNCHANGED <<fresh, flagVars, storeVars, devUp, audioVars>>

-----------------------------------------------------------------------------
\* The callback of stream s: run_callback and the fill closure.

Step(s, from, to) == cb[s] = from /\ cb' = [cb EXCEPT ![s] = to]

Begin(s) ==
  /\ streams[s] \in Open
  /\ devUp
  /\ Step(s, "out", "size")
  /\ buf' = [buf EXCEPT ![s] = "stale"]
  /\ UNCHANGED <<ctl, controlVars, flagVars, storeVars, hostVars, pending>>

\* Mutant: the error path flags the error and returns.
FailsUnsilenced(s, from) ==
  /\ Step(s, from, "return")
  /\ pending' = pending
  /\ recovery_needed' = TRUE
  /\ UNCHANGED <<ctl, controlVars, state, error_flag, hostVars, buf>>

\* The error path stores both flags, then silences the buffer.
Fails(s, from) ==
  /\ Step(s, from, "raise")
  /\ pending' = [pending EXCEPT ![s] = {"error_flag", "recovery_needed"}]
  /\ UNCHANGED <<ctl, controlVars, flagVars, hostVars, buf>>

Oversize(s) == Fails(s, "size") /\ UNCHANGED storeVars

LoadState(s) ==
  /\ \/ /\ state = "Running"
        /\ Step(s, "size", IF store THEN "lock" ELSE "fill")
        /\ UNCHANGED buf
     \/ /\ state # "Running"
        /\ Step(s, "size", "return")
        /\ buf' = [buf EXCEPT ![s] = "silence"]
  /\ UNCHANGED <<ctl, controlVars, flagVars, storeVars, hostVars, pending>>

LockStore(s) ==
  /\ lock = Free
  /\ ~poisoned
  /\ Step(s, "lock", "fill")
  /\ lock' = s
  /\ UNCHANGED <<ctl, controlVars, flagVars, store, poisoned, hostVars, buf, pending>>

\* if let Ok(..) falls through to Ok(()): the buffer keeps what the host left.
PoisonedStore(s) ==
  /\ lock = Free
  /\ poisoned
  /\ Step(s, "lock", "return")
  /\ UNCHANGED <<ctl, controlVars, flagVars, storeVars, hostVars, buf, pending>>

\* Mutant: the guard is not dropped when fill returns.
KeepLock == UNCHANGED <<lock, store>>

Unlock == lock' = Free /\ UNCHANGED store

FillOk(s) ==
  /\ Step(s, "fill", "return")
  /\ buf' = [buf EXCEPT ![s] = "audio"]
  /\ Unlock
  /\ UNCHANGED <<ctl, controlVars, flagVars, poisoned, hostVars, pending>>

FillFails(s) == Fails(s, "fill") /\ Unlock /\ UNCHANGED poisoned

\* The runtime panics: the stream's thread ends and the mutex is poisoned.
FillPanics(s) ==
  /\ Step(s, "fill", "out")
  /\ Unlock
  /\ poisoned' = store
  /\ streams' = IF streams[s] = "closing" THEN streams ELSE After(s, "dead")
  /\ UNCHANGED <<ctl, controlVars, flagVars, devUp, buf, pending>>

\* Both stores are Relaxed: other threads may see them in either order.
RaiseErrorFlag(s) ==
  /\ "error_flag" \in pending[s]
  /\ error_flag' = TRUE
  /\ pending' = [pending EXCEPT ![s] = @ \ {"error_flag"}]
  /\ UNCHANGED <<ctl, controlVars, state, recovery_needed, storeVars, hostVars, cb, buf>>

RaiseRecovery(s) ==
  /\ "recovery_needed" \in pending[s]
  /\ recovery_needed' = TRUE
  /\ pending' = [pending EXCEPT ![s] = @ \ {"recovery_needed"}]
  /\ UNCHANGED <<ctl, controlVars, state, error_flag, storeVars, hostVars, cb, buf>>

\* handle_process_error
SilenceError(s) ==
  /\ pending[s] = {}
  /\ Step(s, "raise", "return")
  /\ buf' = [buf EXCEPT ![s] = "silenced"]
  /\ UNCHANGED <<ctl, controlVars, flagVars, storeVars, hostVars, pending>>

Return(s) ==
  /\ Step(s, "return", "out")
  /\ UNCHANGED <<ctl, controlVars, flagVars, storeVars, hostVars, buf, pending>>

\* The stream's error callback sets error_flag only.  It reports the loss of the
\* device, after which the stream is dead, or an error the stream survives.
ErrorCallback(s) ==
  /\ cb[s] = "out"
  /\ \/ streams[s] = "lost" /\ streams' = After(s, "dead")
     \/ streams[s] \in Open /\ UNCHANGED streams
  /\ error_flag' = TRUE
  /\ UNCHANGED <<ctl, controlVars, state, recovery_needed, storeVars, devUp, audioVars>>

-----------------------------------------------------------------------------
\* The world outside.

DeviceLost ==
  /\ devUp
  /\ devUp' = FALSE
  /\ streams' = [s \in Streams |-> IF streams[s] \in Open THEN "lost" ELSE streams[s]]
  /\ UNCHANGED <<ctl, controlVars, flagVars, storeVars, audioVars>>

DeviceBack ==
  /\ ~devUp
  /\ devUp' = TRUE
  /\ UNCHANGED <<ctl, controlVars, flagVars, storeVars, streams, audioVars>>

\* The error callback of an input stream raises the flag it shares.
InputError ==
  /\ input # "none"
  /\ error_flag' = TRUE
  /\ UNCHANGED <<ctl, controlVars, state, recovery_needed, storeVars, hostVars, audioVars>>

-----------------------------------------------------------------------------

\* The first step of a call the application may make between calls.
CallBegins ==
  StartPlay \/ StartFails \/ StopPause \/ ClearError \/ RecoverDrop \/ Restart \/ Drop

\* The steps that finish a call.
CallProceeds ==
  \/ StartRuns \/ StopState
  \/ RecoverJoin \/ RecoverErrorFlag \/ RecoverFlag \/ RecoverStop
  \/ RestartBuild \/ RestartBuildFails \/ RestartPlay \/ RestartPlayFails
  \/ RestartAbandon \/ RestartInstall \/ RestartJoin \/ RestartState
  \/ DropJoin

CallLocks == RecoverCheck \/ RestartCheck

Faults(s) == Oversize(s) \/ FillFails(s) \/ FillPanics(s)

Audio(s) ==
  \/ LoadState(s) \/ PoisonedStore(s) \/ FillOk(s)
  \/ RaiseErrorFlag(s) \/ RaiseRecovery(s) \/ SilenceError(s) \/ Return(s)
  \/ Faults(s)

World == DeviceLost \/ DeviceBack \/ InputError

Next == \/ CallBegins \/ CallProceeds \/ CallLocks
        \/ \E s \in Streams : Begin(s) \/ LockStore(s) \/ Audio(s) \/ ErrorCallback(s)
        \/ World

Spec == Init /\ [][Next]_vars

\* Threads that can run do run.  A mutex that is released again and again is
\* acquired eventually by everyone who waits for it.  Nothing is assumed of the
\* application, of the host or of the device.
Fairness ==
  /\ WF_vars(CallProceeds)
  /\ SF_vars(CallLocks)
  /\ \A s \in Streams : WF_vars(Audio(s)) /\ SF_vars(LockStore(s))

FairSpec == Spec /\ Fairness

-----------------------------------------------------------------------------

(* The type invariant: values of their types, the handle's mutex held exactly
   while a callback is inside the runtime, and error stores pending only in the
   error path. *)
TypeOK ==
  /\ ctl \in {"ready", "start", "stop", "recover.join", "recover.error_flag",
              "recover.flag", "recover.lock", "recover.stop", "restart.lock",
              "restart.build", "restart.play", "restart.install", "restart.join",
              "restart.state", "restart.abandon", "drop.join", "gone"}
  /\ stream \in Streams \cup {NoStream}
  /\ fresh \in Streams \cup {NoStream}
  /\ input \in {"none", "paused", "playing"}
  /\ state \in {"Running", "Stopped"}
  /\ error_flag \in BOOLEAN
  /\ recovery_needed \in BOOLEAN
  /\ store \in BOOLEAN
  /\ lock \in Streams \cup {Free}
  /\ poisoned \in BOOLEAN
  /\ streams \in [Streams -> {"none", "idle", "playing", "lost", "dead", "closing"}]
  /\ devUp \in BOOLEAN
  /\ cb \in [Streams -> {"out", "size", "lock", "fill", "raise", "return"}]
  /\ buf \in [Streams -> {"stale", "silence", "silenced", "audio"}]
  /\ pending \in [Streams -> SUBSET {"error_flag", "recovery_needed"}]
  /\ \A s \in Streams : lock = s <=> store /\ cb[s] = "fill"
  /\ \A s \in Streams : pending[s] # {} => cb[s] = "raise"

(* No call leaves a stream behind: a stream that exists, or whose callback still
   runs, is the installed one or the one restart is about to install or drop. *)
NoOrphanStream ==
  \A s \in Streams :
    streams[s] # "none" \/ cb[s] # "out" =>
      \/ s = stream
      \/ s = fresh /\ ctl \in {"restart.play", "restart.install", "restart.join",
                               "restart.abandon"}

(* run_callback never hands back what the host left in the buffer, unless the
   handle's mutex was poisoned by a panic of another stream's callback. *)
NoStaleBuffer ==
  \A s \in Streams : cb[s] = "return" /\ buf[s] = "stale" => poisoned

(* A callback that failed is still announced when it returns: recover, which
   clears the flag, has waited for every callback that could have set it. *)
FailureAnnounced ==
  \A s \in Streams : cb[s] = "return" /\ buf[s] = "silenced" => recovery_needed

(* The request for recovery is withdrawn only while no output stream exists, so
   no error of a living stream is ever wiped out by recover. *)
ClearedOnlyBetweenStreams ==
  [][recovery_needed /\ ~recovery_needed' => \A s \in Streams : streams[s] = "none"]_vars

(* Every call returns to the application: joining a stream's callback never
   waits for a callback that waits for the mutex the caller holds. *)
CallReturns == ctl # "ready" ~> ctl \in {"ready", "gone"}
=============================================================================
