----------------------------- MODULE Transport -----------------------------
(***************************************************************************)
(* TransportState (stream_controller.rs): every callback begins with tick, *)
(* which samples the installed clock and publishes the result; the         *)
(* application's thread calls set_clock and sample.  Two mutexes protect   *)
(* the clock and the last time published.  While restart replaces a stream *)
(* the callbacks of the old and the new one tick concurrently.             *)
(*                                                                         *)
(* Clocks are numbered 1, 2, ... in the order of their installation and 0  *)
(* is None.  A time is the clock that reported it and the number of the    *)
(* report, so a later report of one clock is a later time.  A clock may    *)
(* panic.                                                                  *)
(***************************************************************************)
EXTENDS Integers

CONSTANTS Callbacks,  \* the streams that may call back
          Free,       \* a mutex that nobody holds
          App,        \* the application's thread, as the holder of a mutex
          MaxClocks,  \* bound: clocks installed
          MaxReports  \* bound: no tick starts after so many reports

ASSUME TransportAssumption ==
  /\ Free \notin Callbacks /\ App \notin Callbacks /\ App # Free
  /\ MaxClocks \in Nat
  /\ MaxReports \in Nat

VARIABLES
  clock,       \* the clock behind the first mutex
  last,        \* the time behind the second mutex
  reports,     \* history: how many times clocks have reported
  clock_lock,  \* who holds the first mutex
  last_lock,   \* who holds the second mutex
  poisoned,    \* the mutexes that a panicking thread held
  alive,       \* the streams that are not dropped
  pc,          \* where each callback is
  reading,     \* the time each callback's clock has reported
  app,         \* where the application's thread is
  seen         \* what sample returned last

locks == <<clock_lock, last_lock, poisoned>>
times == <<clock, last, reports>>
vars == <<times, locks, alive, pc, reading, app, seen>>

Zero == [clock |-> 0, report |-> 0]

Init ==
  /\ clock = 0
  /\ last = Zero
  /\ reports = 0
  /\ clock_lock = Free
  /\ last_lock = Free
  /\ poisoned = {}
  /\ \E c \in Callbacks : alive = {c}
  /\ pc = [c \in Callbacks |-> "out"]
  /\ reading = [c \in Callbacks |-> Zero]
  /\ app = "ready"
  /\ seen = Zero

-----------------------------------------------------------------------------
\* tick

Step(c, from, to) == pc[c] = from /\ pc' = [pc EXCEPT ![c] = to]

Tick(c) ==
  /\ c \in alive
  /\ reports < MaxReports
  /\ Step(c, "out", "tick")
  /\ UNCHANGED <<times, locks, alive, reading, app, seen>>

LockClock(c) ==
  /\ clock_lock = Free
  /\ "clock" \notin poisoned
  /\ Step(c, "tick", IF clock = 0 THEN "published" ELSE "sampling")
  /\ clock_lock' = c
  /\ UNCHANGED <<times, last_lock, poisoned, alive, reading, app, seen>>

\* lock().unwrap() of a poisoned mutex panics.
UnwrapPanics(c) ==
  /\ clock_lock = Free
  /\ "clock" \in poisoned
  /\ Step(c, "tick", "unwrap.panicked")
  /\ UNCHANGED <<times, locks, alive, reading, app, seen>>

\* Mutant: the clock's guard is dropped before the time is published.
ReportUnlocked(c, from, to) ==
  /\ Step(c, from, to)
  /\ reports' = reports + 1
  /\ reading' = [reading EXCEPT ![c] = [clock |-> clock, report |-> reports']]
  /\ clock_lock' = Free
  /\ UNCHANGED <<clock, last, last_lock, poisoned, alive, app, seen>>

\* The clock answers ...
Report(c, from, to) ==
  /\ Step(c, from, to)
  /\ reports' = reports + 1
  /\ reading' = [reading EXCEPT ![c] = [clock |-> clock, report |-> reports']]
  /\ UNCHANGED <<clock, last, locks, alive, app, seen>>

\* The mutexes whose guards the callback c owns.
Holder == [clock |-> clock_lock, last |-> last_lock]
Held(c) == {m \in DOMAIN Holder : Holder[m] = c}

\* ... or panics: every guard the callback owns is dropped on the way out, which
\* poisons its mutex.
ClockPanics(c, from) ==
  /\ Step(c, from, "clock.panicked")
  /\ poisoned' = poisoned \cup Held(c)
  /\ clock_lock' = (IF "clock" \in Held(c) THEN Free ELSE clock_lock)
  /\ last_lock' = (IF "last" \in Held(c) THEN Free ELSE last_lock)
  /\ UNCHANGED <<times, alive, reading, app, seen>>

\* last is never poisoned (SampleNeverPanics), so no unwrap of it panics.
LockLast(c, from, to) ==
  /\ last_lock = Free
  /\ Step(c, from, to)
  /\ last_lock' = c
  /\ UNCHANGED <<times, clock_lock, poisoned, alive, reading, app, seen>>

\* Mutant: the left-hand side locks last before the clock is asked.
AssignPlaceFirst(c) ==
  \/ LockLast(c, "sampling", "sampled")
  \/ Report(c, "sampled", "publishing")
  \/ ClockPanics(c, "sampled")

\* tick's assignment evaluates its right-hand side, the clock's report, before the
\* place on its left, which locks last.
Assign(c) ==
  \/ Report(c, "sampling", "sampled")
  \/ ClockPanics(c, "sampling")
  \/ LockLast(c, "sampled", "publishing")

Publish(c) ==
  /\ Step(c, "publishing", "published")
  /\ last' = reading[c]
  /\ last_lock' = Free
  /\ UNCHANGED <<clock, reports, clock_lock, poisoned, alive, reading, app, seen>>

\* The clock's guard lives to the end of the if let; the callback goes on.
TickEnds(c) ==
  /\ Step(c, "published", "out")
  /\ clock_lock' = Free
  /\ UNCHANGED <<times, last_lock, poisoned, alive, reading, app, seen>>

-----------------------------------------------------------------------------
\* The application's thread.

Goto(from, to) == app = from /\ app' = to

SetClock ==
  /\ clock < MaxClocks
  /\ Goto("ready", "set")
  /\ UNCHANGED <<times, locks, alive, pc, reading, seen>>

SetLock ==
  /\ clock_lock = Free
  /\ \/ "clock" \in poisoned /\ Goto("set", "panicked") /\ UNCHANGED clock_lock
     \/ "clock" \notin poisoned /\ Goto("set", "storing") /\ clock_lock' = App
  /\ UNCHANGED <<times, last_lock, poisoned, alive, pc, reading, seen>>

SetStore ==
  /\ Goto("storing", "ready")
  /\ clock' = clock + 1
  /\ clock_lock' = Free
  /\ UNCHANGED <<last, reports, last_lock, poisoned, alive, pc, reading, seen>>

Sample ==
  /\ last_lock = Free
  /\ Goto("ready", "sample")
  /\ last_lock' = App
  /\ UNCHANGED <<times, clock_lock, poisoned, alive, pc, reading, seen>>

\* Mutant: the guard outlives the call.
SampleKeepsLock ==
  /\ Goto("sample", "ready")
  /\ seen' = last
  /\ UNCHANGED <<times, locks, alive, pc, reading>>

SampleRead ==
  /\ Goto("sample", "ready")
  /\ seen' = last
  /\ last_lock' = Free
  /\ UNCHANGED <<times, clock_lock, poisoned, alive, pc, reading>>

\* restart plays a new stream over the same TransportState ...
Restart(c) ==
  /\ c \notin alive
  /\ Goto("ready", "restart")
  /\ alive' = alive \cup {c}
  /\ pc' = [pc EXCEPT ![c] = "out"]
  /\ UNCHANGED <<times, locks, reading, seen>>

\* ... and drops the old one, or the new one if it does not play; a drop waits for
\* the callback.
RestartDrop(c) ==
  /\ c \in alive
  /\ \E d \in alive : d # c
  /\ pc[c] \in {"out", "unwrap.panicked", "clock.panicked"}
  /\ Goto("restart", "ready")
  /\ alive' = alive \ {c}
  /\ UNCHANGED <<times, locks, pc, reading, seen>>

-----------------------------------------------------------------------------

TickProceeds(c) == UnwrapPanics(c) \/ Publish(c) \/ TickEnds(c)

AppProceeds == SetStore \/ SampleRead

Next == \/ \E c \in Callbacks : \/ Tick(c) \/ LockClock(c) \/ Assign(c) \/ TickProceeds(c)
                                \/ Restart(c) \/ RestartDrop(c)
        \/ SetClock \/ SetLock \/ AppProceeds \/ Sample

Spec == Init /\ [][Next]_vars

\* Threads that can run do run, clocks answer or panic, and a mutex that becomes
\* free again and again is acquired by everyone who waits for it.
FairSpec ==
  /\ Spec
  /\ WF_vars(AppProceeds) /\ SF_vars(SetLock)
  /\ \A c \in Callbacks :
       /\ WF_vars(TickProceeds(c))
       /\ SF_vars(LockClock(c)) /\ SF_vars(Assign(c))

-----------------------------------------------------------------------------

Time == [clock : Nat, report : Nat]

(* The type invariant: values of their types, and each mutex held by exactly the
   thread that is between its lock and the end of its guard's life. *)
TypeOK ==
  /\ clock \in Nat
  /\ last \in Time
  /\ reports \in Nat
  /\ clock_lock \in Callbacks \cup {App, Free}
  /\ last_lock \in Callbacks \cup {App, Free}
  /\ poisoned \subseteq {"clock", "last"}
  /\ alive \subseteq Callbacks
  /\ pc \in [Callbacks -> {"out", "tick", "sampling", "sampled", "publishing",
                           "published", "unwrap.panicked", "clock.panicked"}]
  /\ reading \in [Callbacks -> Time]
  /\ app \in {"ready", "set", "storing", "sample", "restart", "panicked"}
  /\ seen \in Time
  /\ clock_lock = App <=> app = "storing"
  /\ last_lock = App <=> app = "sample"
  /\ \A c \in Callbacks :
       /\ clock_lock = c <=> pc[c] \in {"sampling", "sampled", "publishing", "published"}
       /\ last_lock = c <=> pc[c] = "publishing"

NotBefore(t, u) ==
  t.clock < u.clock \/ (t.clock = u.clock /\ t.report <= u.report)

(* Musical time never runs backwards: tick holds the clock while it publishes, so
   neither a replaced clock nor a slower callback overwrites a later time, and the
   application never sees an earlier one. *)
TimeMovesForward == [][NotBefore(last, last') /\ NotBefore(seen, seen')]_vars

(* sample, on the application's thread, never meets a poisoned mutex: whatever callback
   a clock panics in, that callback does not hold last then, which would be poisoned with
   all it holds.  It rests on the order in which tick's assignment is evaluated. *)
SampleNeverPanics == "last" \notin poisoned

(* No callback waits for ever: the two mutexes are taken in one order, and neither
   set_clock nor sample holds one while it waits for another. *)
TickReturns ==
  \A c \in Callbacks :
    pc[c] = "tick" ~> pc[c] \in {"out", "unwrap.panicked", "clock.panicked"}

(* "no panics in RT path" (CHANGELOG.md:35): only a clock that panics itself ends
   a callback. *)
NoPanicOfItsOwn == \A c \in Callbacks : pc[c] # "unwrap.panicked"
=============================================================================
