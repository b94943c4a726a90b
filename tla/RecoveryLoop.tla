---------------------------- MODULE RecoveryLoop ----------------------------
(***************************************************************************)
(* The application README.md gives for the handle path: play_handle, start *)
(* and then a loop that calls recover whenever recovery_needed is set and  *)
(* ignores what recover returns.  The runtime may report errors but does   *)
(* not panic.                                                              *)
(***************************************************************************)
EXTENDS StreamController

LoopInit == Init /\ PlayHandle

Start == state = "Stopped" /\ StartPlay

\* The loop is entered when start has returned.
Poll == state = "Running" /\ recovery_needed /\ RecoverDrop

LoopNext ==
  \/ Start \/ Poll \/ CallProceeds \/ CallLocks
  \/ \E s \in Streams : \/ Begin(s) \/ LockStore(s) \/ ErrorCallback(s)
                        \/ Audio(s) /\ ~poisoned'
  \/ DeviceLost \/ DeviceBack

\* Besides the threads' fairness: the application starts the stream and keeps
\* polling, an unplugged device is plugged in again and its loss is reported.
LoopFairness ==
  /\ Fairness
  /\ WF_vars(Start)
  /\ WF_vars(Poll)
  /\ WF_vars(DeviceBack)
  /\ \A s \in Streams : WF_vars(streams[s] = "lost" /\ ErrorCallback(s))

LoopSpec == LoopInit /\ [][LoopNext]_vars /\ LoopFairness

\* Process errors, oversized buffers and outages cease some day.
CalmLoopSpec ==
  LoopSpec /\ <>[][~DeviceLost /\ \A s \in Streams : ~Faults(s)]_vars

-----------------------------------------------------------------------------

\* The application has an output stream that is heard.
OutputLive ==
  /\ ctl = "ready"
  /\ stream # NoStream /\ streams[stream] = "playing"
  /\ state = "Running"
  /\ ~recovery_needed

\* recover has returned an error: the old stream is dropped and no new one is there.
RecoverFailed == ctl = "ready" /\ stream = NoStream

(* A request for recovery is answered: the loop ends up with a playing stream
   and no request left, unless the device is gone in the meantime or the attempt
   fails, which the device may make it do while it is there. *)
RequestRecovered ==
  state = "Running" /\ recovery_needed ~> OutputLive \/ ~devUp \/ RecoverFailed

(* recover and restart "rebuild the stream after a device error" (README.md:175):
   an installed stream that died with its device is replaced. *)
DeviceErrorRecovered ==
  state = "Running" /\ stream # NoStream /\ streams[stream] = "dead" ~> OutputLive

(* A recover that failed can be retried by the loop of README.md:136-146, which
   looks at recovery_needed only: without a stream, recovery is still needed. *)
RetryRequested == RecoverFailed => recovery_needed
=============================================================================
