---------------------- MODULE StreamControllerProofs ----------------------
(***************************************************************************)
(* Proofs about StreamController for every number of streams.              *)
(***************************************************************************)
EXTENDS StreamController, TLAPS

-----------------------------------------------------------------------------
\* The inductive invariant.

\* Which streams exist, and what the application's thread holds at each step.
Ownership ==
  /\ NoOrphanStream
  /\ stream # NoStream => streams[stream] # "none" /\ stream # fresh
  /\ fresh # NoStream => streams[fresh] # "none"
  /\ fresh # NoStream <=> ctl \in {"restart.play", "restart.install", "restart.join",
                                   "restart.abandon"}
  /\ ctl \in {"recover.error_flag", "recover.flag", "recover.lock", "recover.stop",
              "gone"} => stream = NoStream

\* What a callback has announced and written at each step.
Announced ==
  /\ poisoned => store
  /\ \A s \in Streams :
       /\ cb[s] = "lock" => store
       /\ cb[s] \in {"size", "lock", "fill", "raise"} => buf[s] = "stale"
       /\ cb[s] = "raise" => "recovery_needed" \in pending[s] \/ recovery_needed
       /\ cb[s] = "return" /\ buf[s] = "silenced" => recovery_needed
       /\ cb[s] = "return" /\ buf[s] = "stale" => poisoned

IInv == TypeOK /\ Ownership /\ Announced

LEMMA InitIInv == Init => IInv
<1> SUFFICES ASSUME Init PROVE IInv
  OBVIOUS
<1> USE ControllerAssumption
<1>1. \A s \in Streams : streams[s] = IF s = stream THEN "idle" ELSE "none"
  BY DEF Init
<1>2. TypeOK
  <2>1. streams \in [Streams -> {"none", "idle", "playing", "lost", "dead", "closing"}]
    BY DEF Init
  <2>2. /\ stream \in Streams \cup {NoStream}
        /\ state \in {"Running", "Stopped"}
        /\ input \in {"none", "paused"}
    BY DEF Init, PlayRuntime, PlayHandle, PlayInput, PlayDuplex
  <2> QED
    BY <2>1, <2>2 DEF Init, TypeOK
<1>3. Ownership
  BY <1>1, <1>2 DEF Init, TypeOK, Ownership, NoOrphanStream
<1>4. Announced
  BY DEF Init, Announced
<1> QED
  BY <1>2, <1>3, <1>4 DEF IInv

LEMMA NextIInv == IInv /\ [Next]_vars => IInv'
<1> SUFFICES ASSUME IInv, [Next]_vars PROVE IInv'
  OBVIOUS
<1> USE ControllerAssumption
<1>1. CASE StartPlay
  BY <1>1 DEF StartPlay, IInv, TypeOK, Ownership, NoOrphanStream, Announced,
     controlVars, flagVars, storeVars, audioVars, Goto, After, CanPlay
<1>2. CASE StartFails
  BY <1>2 DEF StartFails, IInv, TypeOK, Ownership, NoOrphanStream, Announced,
     controlVars, flagVars, storeVars, hostVars, audioVars, vars
<1>3. CASE StartRuns
  BY <1>3 DEF StartRuns, IInv, TypeOK, Ownership, NoOrphanStream, Announced,
     storeVars, hostVars, audioVars, Goto
<1>4. CASE StopPause
  BY <1>4 DEF StopPause, IInv, TypeOK, Ownership, NoOrphanStream, Announced,
     flagVars, storeVars, audioVars, Goto, After, CanPlay
<1>5. CASE StopState
  BY <1>5 DEF StopState, IInv, TypeOK, Ownership, NoOrphanStream, Announced,
     controlVars, storeVars, hostVars, audioVars, Goto
<1>6. CASE ClearError
  BY <1>6 DEF ClearError, IInv, TypeOK, Ownership, NoOrphanStream, Announced,
     controlVars, storeVars, hostVars, audioVars, Goto
<1>7. CASE RecoverDrop
  BY <1>7 DEF RecoverDrop, IInv, TypeOK, Ownership, NoOrphanStream, Announced,
     controlVars, flagVars, storeVars, audioVars, Goto, After, Closing
<1>8. CASE RecoverJoin
  BY <1>8 DEF RecoverJoin, IInv, TypeOK, Ownership, NoOrphanStream, Announced,
     flagVars, storeVars, audioVars, Goto, After, Joined, Closed
<1>9. CASE RecoverErrorFlag
  BY <1>9 DEF RecoverErrorFlag, IInv, TypeOK, Ownership, NoOrphanStream,
     Announced, controlVars, storeVars, hostVars, audioVars, Goto
<1>10. CASE RecoverFlag
  <2>1. \A s \in Streams : cb[s] = "out" /\ cb'[s] = "out"
    BY <1>10 DEF RecoverFlag, Goto, IInv, Ownership, NoOrphanStream, audioVars
  <2>2. Announced'
    BY <1>10, <2>1 DEF RecoverFlag, IInv, Announced, storeVars
  <2>3. TypeOK' /\ Ownership'
    BY <1>10 DEF RecoverFlag, Goto, IInv, TypeOK, Ownership, NoOrphanStream,
       controlVars, storeVars, hostVars, audioVars
  <2> QED
    BY <2>2, <2>3 DEF IInv
<1>11. CASE RecoverCheck
  BY <1>11 DEF RecoverCheck, IInv, TypeOK, Ownership, NoOrphanStream, Announced,
     controlVars, flagVars, storeVars, hostVars, audioVars, Goto
<1>12. CASE RecoverStop
  BY <1>12 DEF RecoverStop, IInv, TypeOK, Ownership, NoOrphanStream, Announced,
     controlVars, storeVars, hostVars, audioVars, Goto
<1>13. CASE Restart
  BY <1>13 DEF Restart, IInv, TypeOK, Ownership, NoOrphanStream, Announced,
     controlVars, flagVars, storeVars, hostVars, audioVars, Goto
<1>14. CASE RestartCheck
  BY <1>14 DEF RestartCheck, IInv, TypeOK, Ownership, NoOrphanStream, Announced,
     controlVars, flagVars, storeVars, hostVars, audioVars, Goto
<1>15. CASE RestartBuild
  BY <1>15 DEF RestartBuild, IInv, TypeOK, Ownership, NoOrphanStream, Announced,
     flagVars, storeVars, audioVars, Goto, After
<1>16. CASE RestartBuildFails
  BY <1>16 DEF RestartBuildFails, IInv, TypeOK, Ownership, NoOrphanStream,
     Announced, controlVars, flagVars, storeVars, hostVars, audioVars, Goto
<1>17. CASE RestartPlay
  BY <1>17 DEF RestartPlay, IInv, TypeOK, Ownership, NoOrphanStream, Announced,
     controlVars, flagVars, storeVars, audioVars, Goto, After
<1>18. CASE RestartPlayFails
  BY <1>18 DEF RestartPlayFails, IInv, TypeOK, Ownership, NoOrphanStream,
     Announced, controlVars, flagVars, storeVars, audioVars, Goto, After,
     Closing
<1>19. CASE RestartAbandon
  BY <1>19 DEF RestartAbandon, IInv, TypeOK, Ownership, NoOrphanStream,
     Announced, flagVars, storeVars, audioVars, Goto, After, Joined, Closed
<1>20. CASE RestartInstall
  BY <1>20 DEF RestartInstall, IInv, TypeOK, Ownership, NoOrphanStream,
     Announced, controlVars, flagVars, storeVars, audioVars, Goto, After,
     Closing
<1>21. CASE RestartJoin
  BY <1>21 DEF RestartJoin, IInv, TypeOK, Ownership, NoOrphanStream, Announced,
     flagVars, storeVars, audioVars, Goto, After, Joined, Closed
<1>22. CASE RestartState
  BY <1>22 DEF RestartState, IInv, TypeOK, Ownership, NoOrphanStream, Announced,
     controlVars, storeVars, hostVars, audioVars, Goto
<1>23. CASE Drop
  BY <1>23 DEF Drop, IInv, TypeOK, Ownership, NoOrphanStream, Announced,
     controlVars, flagVars, storeVars, audioVars, Goto, After, Closing
<1>24. CASE DropJoin
  BY <1>24 DEF DropJoin, IInv, TypeOK, Ownership, NoOrphanStream, Announced,
     flagVars, storeVars, audioVars, Goto, After, Joined, Closed
<1>25. CASE DeviceLost
  <2>1. \A s \in Streams : streams'[s] = "none" <=> streams[s] = "none"
    BY <1>25 DEF DeviceLost, Open
  <2>2. streams' \in [Streams -> {"none", "idle", "playing", "lost", "dead", "closing"}]
    BY <1>25 DEF DeviceLost, IInv, TypeOK
  <2>3. TypeOK'
    <3>1. devUp' \in BOOLEAN
      BY <1>25 DEF DeviceLost
    <3>2. UNCHANGED <<ctl, stream, fresh, input, state, error_flag, recovery_needed,
                      store, lock, poisoned, cb, buf, pending>>
      BY <1>25 DEF DeviceLost, controlVars, flagVars, storeVars, audioVars
    <3> QED
      BY <2>2, <3>1, <3>2 DEF IInv, TypeOK
  <2>4. Ownership'
    BY <1>25, <2>1 DEF DeviceLost, IInv, TypeOK, Ownership, NoOrphanStream,
       controlVars, audioVars
  <2>5. Announced'
    BY <1>25 DEF DeviceLost, IInv, Announced, flagVars, storeVars, audioVars
  <2> QED
    BY <2>3, <2>4, <2>5 DEF IInv
<1>26. CASE DeviceBack
  BY <1>26 DEF DeviceBack, IInv, TypeOK, Ownership, NoOrphanStream, Announced,
     controlVars, flagVars, storeVars, audioVars
<1>27. CASE InputError
  BY <1>27 DEF InputError, IInv, TypeOK, Ownership, NoOrphanStream, Announced,
     controlVars, storeVars, hostVars, audioVars
<1>28. ASSUME NEW s \in Streams, Begin(s) PROVE IInv'
  BY <1>28 DEF Begin, IInv, TypeOK, Ownership, NoOrphanStream, Announced, Step,
     Open, controlVars, flagVars, storeVars, hostVars
<1>29. ASSUME NEW s \in Streams, LockStore(s) PROVE IInv'
  BY <1>29 DEF LockStore, IInv, TypeOK, Ownership, NoOrphanStream, Announced,
     Step, controlVars, flagVars, hostVars
<1>30. ASSUME NEW s \in Streams, LoadState(s) PROVE IInv'
  BY <1>30 DEF LoadState, IInv, TypeOK, Ownership, NoOrphanStream, Announced,
     Step, controlVars, flagVars, storeVars, hostVars
<1>31. ASSUME NEW s \in Streams, PoisonedStore(s) PROVE IInv'
  BY <1>31 DEF PoisonedStore, IInv, TypeOK, Ownership, NoOrphanStream,
     Announced, Step, controlVars, flagVars, storeVars, hostVars
<1>32. ASSUME NEW s \in Streams, FillOk(s) PROVE IInv'
  BY <1>32 DEF FillOk, IInv, TypeOK, Ownership, NoOrphanStream, Announced, Step,
     Unlock, controlVars, flagVars, hostVars
<1>33. ASSUME NEW s \in Streams, RaiseErrorFlag(s) PROVE IInv'
  BY <1>33 DEF RaiseErrorFlag, IInv, TypeOK, Ownership, NoOrphanStream,
     Announced, controlVars, storeVars, hostVars
<1>34. ASSUME NEW s \in Streams, RaiseRecovery(s) PROVE IInv'
  BY <1>34 DEF RaiseRecovery, IInv, TypeOK, Ownership, NoOrphanStream,
     Announced, controlVars, storeVars, hostVars
<1>35. ASSUME NEW s \in Streams, SilenceError(s) PROVE IInv'
  BY <1>35 DEF SilenceError, IInv, TypeOK, Ownership, NoOrphanStream, Announced,
     Step, controlVars, flagVars, storeVars, hostVars
<1>36. ASSUME NEW s \in Streams, Return(s) PROVE IInv'
  BY <1>36 DEF Return, IInv, TypeOK, Ownership, NoOrphanStream, Announced, Step,
     controlVars, flagVars, storeVars, hostVars
<1>37. ASSUME NEW s \in Streams, Oversize(s) PROVE IInv'
  BY <1>37 DEF Oversize, IInv, TypeOK, Ownership, NoOrphanStream, Announced,
     Step, Fails, controlVars, flagVars, storeVars, hostVars
<1>38. ASSUME NEW s \in Streams, FillFails(s) PROVE IInv'
  BY <1>38 DEF FillFails, IInv, TypeOK, Ownership, NoOrphanStream, Announced,
     Step, Fails, Unlock, controlVars, flagVars, hostVars
<1>39. ASSUME NEW s \in Streams, FillPanics(s) PROVE IInv'
  BY <1>39 DEF FillPanics, IInv, TypeOK, Ownership, NoOrphanStream, Announced,
     Step, Unlock, After, controlVars, flagVars
<1>40. ASSUME NEW s \in Streams, ErrorCallback(s) PROVE IInv'
  BY <1>40 DEF ErrorCallback, IInv, TypeOK, Ownership, NoOrphanStream,
     Announced, After, controlVars, storeVars, audioVars
<1>41. CASE UNCHANGED vars
  BY <1>41 DEF vars, TypeOK, Ownership, Announced, IInv, NoOrphanStream,
     controlVars, flagVars, storeVars, hostVars, audioVars
<1> QED
  BY <1>1, <1>2, <1>3, <1>4, <1>5, <1>6, <1>7, <1>8, <1>9, <1>10, <1>11,
     <1>12, <1>13, <1>14, <1>15, <1>16, <1>17, <1>18, <1>19, <1>20, <1>21,
     <1>22, <1>23, <1>24, <1>25, <1>26, <1>27, <1>28, <1>29, <1>30, <1>31,
     <1>32, <1>33, <1>34, <1>35, <1>36, <1>37, <1>38, <1>39, <1>40, <1>41
     DEF Next, CallBegins, CallProceeds, CallLocks, Audio, Faults, World

LEMMA SpecIInv == Spec => []IInv
<1> QED
  BY InitIInv, NextIInv, PTL DEF Spec

-----------------------------------------------------------------------------
\* What holds in every reachable state.

(* The types, the mutex being held exactly while a callback is in the runtime, and
   error stores pending only in the error path, for any number of streams. *)
THEOREM ControllerTypeCorrect == Spec => []TypeOK
<1>1. IInv => TypeOK
  BY DEF IInv
<1> QED
  BY SpecIInv, <1>1, PTL

(* Neither a failed restart nor recover or drop leaves a stream or a running
   callback behind. *)
THEOREM NoStreamOrphaned == Spec => []NoOrphanStream
<1>1. IInv => NoOrphanStream
  BY DEF IInv, Ownership
<1> QED
  BY SpecIInv, <1>1, PTL

(* Unless the mutex is poisoned, every buffer run_callback returns was written. *)
THEOREM BufferAlwaysWritten == Spec => []NoStaleBuffer
<1>1. IInv => NoStaleBuffer
  BY DEF IInv, Announced, NoStaleBuffer
<1> QED
  BY SpecIInv, <1>1, PTL

(* A failed callback's request for recovery is up when the callback returns. *)
THEOREM FailureAlwaysAnnounced == Spec => []FailureAnnounced
<1>1. IInv => FailureAnnounced
  BY DEF IInv, Announced, FailureAnnounced
<1> QED
  BY SpecIInv, <1>1, PTL

(* recovery_needed is cleared in one place, and every stream is gone there. *)
THEOREM RequestsNotWiped == Spec => ClearedOnlyBetweenStreams
<1> DEFINE Gone == \A s \in Streams : streams[s] = "none"
<1>1. ASSUME IInv, [Next]_vars, recovery_needed, ~recovery_needed'
      PROVE  RecoverFlag
  BY <1>1 DEF Next, CallBegins, CallProceeds, CallLocks, Audio, Faults, World,
     StartPlay, StartFails, StartRuns, StopPause, StopState, ClearError, RecoverDrop,
     RecoverJoin, RecoverErrorFlag, RecoverCheck, RecoverStop, Restart, RestartCheck,
     RestartBuild, RestartBuildFails, RestartPlay, RestartPlayFails, RestartAbandon,
     RestartInstall, RestartJoin, RestartState, Drop, DropJoin, DeviceLost, DeviceBack,
     InputError, Begin, LockStore, LoadState, PoisonedStore, FillOk, RaiseErrorFlag,
     RaiseRecovery, SilenceError, Return, Oversize, FillFails, Fails, FillPanics,
     ErrorCallback, flagVars, vars
<1>2. ASSUME IInv, RecoverFlag PROVE Gone
  <2>1. stream = NoStream /\ fresh = NoStream
    BY <1>2 DEF RecoverFlag, Goto, IInv, Ownership
  <2> QED
    BY <1>2, <2>1, ControllerAssumption DEF IInv, Ownership, NoOrphanStream
<1>3. IInv /\ [Next]_vars => [recovery_needed /\ ~recovery_needed' => Gone]_vars
  BY <1>1, <1>2
<1> QED
  BY SpecIInv, <1>3, PTL DEF Spec, ClearedOnlyBetweenStreams
=============================================================================
