-------------------------- MODULE TransportProofs --------------------------
(***************************************************************************)
(* Proofs about Transport for any set of callbacks.                        *)
(***************************************************************************)
EXTENDS Transport, TLAPS

-----------------------------------------------------------------------------
\* The inductive invariant.

\* How far what was published, and what the application saw of it, has come.
InOrder ==
  /\ last.clock <= clock /\ last.report <= reports
  /\ seen.clock <= last.clock /\ seen.report <= last.report

\* A time not yet published is of the installed clock and the latest of all: its
\* callback holds the clock's mutex.
ReadingCurrent ==
  \A c \in Callbacks :
    pc[c] \in {"sampled", "publishing"} =>
      reading[c].clock = clock /\ reading[c].report = reports

\* A dropped stream's callback is not inside tick.
DroppedOutside ==
  \A c \in Callbacks \ alive : pc[c] \in {"out", "unwrap.panicked", "clock.panicked"}

IInv == TypeOK /\ DroppedOutside /\ SampleNeverPanics /\ InOrder /\ ReadingCurrent

-----------------------------------------------------------------------------
\* The types and the mutexes.

LEMMA InitIInv == Init => IInv
<1> SUFFICES ASSUME Init PROVE IInv
  OBVIOUS
<1>1. TypeOK
  BY TransportAssumption DEF Init, TypeOK, Time, Zero
<1>2. SampleNeverPanics /\ InOrder /\ ReadingCurrent
  BY DEF Init, SampleNeverPanics, InOrder, ReadingCurrent, Zero
<1>3. DroppedOutside
  BY DEF Init, DroppedOutside
<1> QED
  BY <1>1, <1>2, <1>3 DEF IInv

(* A callback whose clock panics in tick holds the clock's mutex and no other. *)
LEMMA PanicPoisonsClock ==
  ASSUME TypeOK, NEW c \in Callbacks, ClockPanics(c, "sampling")
  PROVE  Held(c) = {"clock"}
<1>1. clock_lock = c /\ last_lock # c
  BY DEF ClockPanics, Step, TypeOK
<1>2. /\ DOMAIN Holder = {"clock", "last"}
      /\ Holder["clock"] = clock_lock /\ Holder["last"] = last_lock
  BY DEF Holder
<1> QED
  BY <1>1, <1>2 DEF Held

LEMMA TypeStep == TypeOK /\ DroppedOutside /\ [Next]_vars => TypeOK'
<1> SUFFICES ASSUME TypeOK, DroppedOutside, [Next]_vars PROVE TypeOK'
  OBVIOUS
<1> USE TransportAssumption DEF TypeOK
<1>1. ASSUME NEW c \in Callbacks, Tick(c) PROVE TypeOK'
  BY <1>1 DEF Tick, Step, times, locks
<1>2. ASSUME NEW c \in Callbacks, LockClock(c) PROVE TypeOK'
  BY <1>2 DEF LockClock, Step, times
<1>3. ASSUME NEW c \in Callbacks, UnwrapPanics(c) PROVE TypeOK'
  BY <1>3 DEF UnwrapPanics, Step, times, locks
<1>4. ASSUME NEW c \in Callbacks, Report(c, "sampling", "sampled") PROVE TypeOK'
  BY <1>4 DEF Report, Step, Time, locks
<1>5. ASSUME NEW c \in Callbacks, ClockPanics(c, "sampling") PROVE TypeOK'
  <2>1. poisoned' = poisoned \cup {"clock"} /\ clock_lock' = Free /\ UNCHANGED last_lock
    BY <1>5, PanicPoisonsClock DEF ClockPanics
  <2> QED
    BY <1>5, <2>1 DEF ClockPanics, Step, times
<1>6. ASSUME NEW c \in Callbacks, LockLast(c, "sampled", "publishing") PROVE TypeOK'
  BY <1>6 DEF LockLast, Step, times
<1>7. ASSUME NEW c \in Callbacks, Publish(c) PROVE TypeOK'
  BY <1>7 DEF Publish, Step
<1>8. ASSUME NEW c \in Callbacks, TickEnds(c) PROVE TypeOK'
  BY <1>8 DEF TickEnds, Step, times
<1>9. ASSUME NEW c \in Callbacks, Restart(c) PROVE TypeOK'
  BY <1>9 DEF DroppedOutside, Restart, Goto, times, locks
<1>10. ASSUME NEW c \in Callbacks, RestartDrop(c) PROVE TypeOK'
  BY <1>10 DEF RestartDrop, Goto, times, locks
<1>11. CASE SetClock
  BY <1>11 DEF SetClock, Goto, times, locks
<1>12. CASE SetLock
  BY <1>12 DEF SetLock, Goto, times
<1>13. CASE SetStore
  BY <1>13 DEF SetStore, Goto
<1>14. CASE Sample
  BY <1>14 DEF Sample, Goto, times
<1>15. CASE SampleRead
  BY <1>15 DEF SampleRead, Goto, times
<1>16. CASE UNCHANGED vars
  BY <1>16 DEF vars, times, locks
<1> QED
  BY <1>1, <1>2, <1>3, <1>4, <1>5, <1>6, <1>7, <1>8, <1>9, <1>10, <1>11, <1>12,
     <1>13, <1>14, <1>15, <1>16 DEF Next, Assign, TickProceeds, AppProceeds

-----------------------------------------------------------------------------
\* The order of times.

LEMMA OrderStep == IInv /\ [Next]_vars => InOrder' /\ ReadingCurrent'
<1> SUFFICES ASSUME IInv, [Next]_vars PROVE InOrder' /\ ReadingCurrent'
  OBVIOUS
<1> USE TransportAssumption DEF IInv, TypeOK, Time, InOrder, ReadingCurrent
<1>1. ASSUME NEW c \in Callbacks, Tick(c) PROVE InOrder' /\ ReadingCurrent'
  BY <1>1 DEF Tick, Step, times
<1>2. ASSUME NEW c \in Callbacks, LockClock(c) PROVE InOrder' /\ ReadingCurrent'
  BY <1>2 DEF LockClock, Step, times
<1>3. ASSUME NEW c \in Callbacks, UnwrapPanics(c) PROVE InOrder' /\ ReadingCurrent'
  BY <1>3 DEF UnwrapPanics, Step, times
<1>4. ASSUME NEW c \in Callbacks, Report(c, "sampling", "sampled")
      PROVE  InOrder' /\ ReadingCurrent'
  <2>1. InOrder'
    BY <1>4 DEF Report
  <2>2. \A d \in Callbacks : pc[d] \notin {"sampled", "publishing"}
    BY <1>4 DEF Report, Step
  <2>3. ReadingCurrent'
    BY <1>4, <2>2 DEF Report, Step
  <2> QED
    BY <2>1, <2>3
<1>5. ASSUME NEW c \in Callbacks, ClockPanics(c, "sampling")
      PROVE  InOrder' /\ ReadingCurrent'
  BY <1>5 DEF ClockPanics, Step, times
<1>6. ASSUME NEW c \in Callbacks, LockLast(c, "sampled", "publishing")
      PROVE  InOrder' /\ ReadingCurrent'
  BY <1>6 DEF LockLast, Step, times
<1>7. ASSUME NEW c \in Callbacks, Publish(c) PROVE InOrder' /\ ReadingCurrent'
  <2>1. last' = reading[c] /\ reading[c].clock = clock /\ reading[c].report = reports
    BY <1>7 DEF Publish, Step
  <2>2. InOrder'
    BY <1>7, <2>1 DEF Publish
  <2>3. ReadingCurrent'
    BY <1>7 DEF Publish, Step
  <2> QED
    BY <2>2, <2>3
<1>8. ASSUME NEW c \in Callbacks, TickEnds(c) PROVE InOrder' /\ ReadingCurrent'
  BY <1>8 DEF TickEnds, Step, times
<1>9. ASSUME NEW c \in Callbacks, Restart(c) PROVE InOrder' /\ ReadingCurrent'
  BY <1>9 DEF Restart, times
<1>10. ASSUME NEW c \in Callbacks, RestartDrop(c) PROVE InOrder' /\ ReadingCurrent'
  BY <1>10 DEF RestartDrop, times
<1>11. CASE SetClock
  BY <1>11 DEF SetClock, times
<1>12. CASE SetLock
  BY <1>12 DEF SetLock, times
<1>13. CASE SetStore
  <2>1. \A d \in Callbacks : pc[d] \notin {"sampled", "publishing"}
    BY <1>13 DEF SetStore, Goto
  <2> QED
    BY <1>13, <2>1 DEF SetStore
<1>14. CASE Sample
  BY <1>14 DEF Sample, times
<1>15. CASE SampleRead
  BY <1>15 DEF SampleRead, times
<1>16. CASE UNCHANGED vars
  BY <1>16 DEF vars, times
<1> QED
  BY <1>1, <1>2, <1>3, <1>4, <1>5, <1>6, <1>7, <1>8, <1>9, <1>10, <1>11, <1>12,
     <1>13, <1>14, <1>15, <1>16 DEF Next, Assign, TickProceeds, AppProceeds

LEMMA NextIInv == IInv /\ [Next]_vars => IInv'
<1> SUFFICES ASSUME IInv, [Next]_vars PROVE IInv'
  OBVIOUS
<1>1. TypeOK' /\ InOrder' /\ ReadingCurrent'
  BY TypeStep, OrderStep DEF IInv
<1>2. SampleNeverPanics'
  <2>1. ASSUME NEW c \in Callbacks, ClockPanics(c, "sampling") PROVE SampleNeverPanics'
    BY <2>1, PanicPoisonsClock DEF ClockPanics, IInv, SampleNeverPanics
  <2>2. CASE ~\E c \in Callbacks : ClockPanics(c, "sampling")
    <3>1. UNCHANGED poisoned
      BY <2>2 DEF Next, Assign, TickProceeds, AppProceeds, vars, locks, Tick,
         LockClock, UnwrapPanics, Report, LockLast, Publish, TickEnds, Restart,
         RestartDrop, SetClock, SetLock, SetStore, Sample, SampleRead
    <3> QED
      BY <3>1 DEF IInv, SampleNeverPanics
  <2> QED
    BY <2>1, <2>2
<1>3. DroppedOutside'
  <2> USE DEF IInv, TypeOK, DroppedOutside
  <2>1. ASSUME NEW c \in Callbacks, Tick(c) PROVE DroppedOutside'
    BY <2>1 DEF Tick, Step
  <2>2. ASSUME NEW c \in Callbacks, LockClock(c) \/ Assign(c) \/ TickProceeds(c)
        PROVE  DroppedOutside'
    BY <2>2 DEF Assign, TickProceeds, LockClock, UnwrapPanics, Report, ClockPanics,
       LockLast, Publish, TickEnds, Step
  <2>3. ASSUME NEW c \in Callbacks, Restart(c) \/ RestartDrop(c)
        PROVE  DroppedOutside'
    BY <2>3 DEF Restart, RestartDrop
  <2>4. CASE SetClock \/ SetLock \/ AppProceeds \/ Sample \/ UNCHANGED vars
    BY <2>4 DEF SetClock, SetLock, AppProceeds, SetStore, Sample, SampleRead, vars
  <2> QED
    BY <2>1, <2>2, <2>3, <2>4 DEF Next
<1> QED
  BY <1>1, <1>2, <1>3 DEF IInv

LEMMA SpecIInv == Spec => []IInv
<1> QED
  BY InitIInv, NextIInv, PTL DEF Spec

-----------------------------------------------------------------------------
\* What holds in every reachable state and of every step.

(* Types, and the holder of each mutex is known from the threads' positions. *)
THEOREM TransportTypeCorrect == Spec => []TypeOK
<1>1. IInv => TypeOK
  BY DEF IInv
<1> QED
  BY SpecIInv, <1>1, PTL

(* No panic of a clock makes sample panic on the application's thread. *)
THEOREM LastNeverPoisoned == Spec => []SampleNeverPanics
<1>1. IInv => SampleNeverPanics
  BY DEF IInv
<1> QED
  BY SpecIInv, <1>1, PTL

(* The published time and the time the application has seen only go forward, for
   any number of callbacks, clocks and reports. *)
THEOREM NoTimeTravel == Spec => TimeMovesForward
<1>1. ASSUME IInv, [Next]_vars
      PROVE  NotBefore(last, last') /\ NotBefore(seen, seen')
  <2>0. /\ last \in Time /\ seen \in Time
        /\ seen.clock <= last.clock /\ seen.report <= last.report
        /\ last.clock <= clock /\ last.report <= reports
    BY <1>1 DEF IInv, TypeOK, InOrder
  <2> USE DEF NotBefore, Time
  <2>1. ASSUME NEW c \in Callbacks, Publish(c)
        PROVE  NotBefore(last, last') /\ NotBefore(seen, seen')
    <3>1. last' = reading[c] /\ seen' = seen
      BY <2>1 DEF Publish
    <3>2. reading[c].clock = clock /\ reading[c].report = reports
      BY <1>1, <2>1 DEF IInv, ReadingCurrent, Publish, Step
    <3>3. clock \in Nat /\ reports \in Nat
      BY <1>1 DEF IInv, TypeOK
    <3> QED
      BY <2>0, <3>1, <3>2, <3>3
  <2>2. CASE SampleRead
    <3>1. last' = last /\ seen' = last
      BY <2>2 DEF SampleRead, times
    <3> QED
      BY <2>0, <3>1
  <2>3. CASE ~SampleRead /\ ~\E c \in Callbacks : Publish(c)
    <3>1. UNCHANGED <<last, seen>>
      BY <1>1, <2>3 DEF Next, Assign, TickProceeds, AppProceeds, vars, times, Tick,
         LockClock, UnwrapPanics, Report, ClockPanics, LockLast, TickEnds, Restart,
         RestartDrop, SetClock, SetLock, SetStore, Sample
    <3> QED
      BY <2>0, <3>1
  <2> QED
    BY <2>1, <2>2, <2>3
<1>2. IInv /\ [Next]_vars
        => [NotBefore(last, last') /\ NotBefore(seen, seen')]_vars
  BY <1>1
<1> QED
  BY SpecIInv, <1>2, PTL DEF Spec, TimeMovesForward
=============================================================================
