-------------------------- MODULE HandoverProofs --------------------------
(***************************************************************************)
(* Proofs about Handover for every number of streams, every block size and *)
(* host buffers of every length.                                           *)
(***************************************************************************)
EXTENDS Handover, StreamControllerProofs, FiniteSetTheorems, TLAPS

-----------------------------------------------------------------------------
\* The inductive invariant.

\* What waits in an adapter is one run of samples, shorter than a block.
RingShape ==
  \A s \in Streams : \E lo, hi \in 0 .. produced :
    /\ lo <= hi /\ hi - lo < BlockSize
    /\ ring[s] = lo + 1 .. hi

\* Without an overlapping restart there is one stream at a time.
OneSounds == ~overlapped => \A s, t \in Streams : Sounding(s) /\ Sounding(t) => s = t

HandoverInv ==
  /\ IInv
  /\ HandoverTypeOK
  /\ RingShape
  /\ OneSounds
  /\ NoRepeat
  /\ InOrder

-----------------------------------------------------------------------------
\* Lemmas about the fill.

(* The earliest samples of a set are a part of it from its beginning. *)
LEMMA EarliestFirst ==
  ASSUME NEW samples, IsFiniteSet(samples), samples \subseteq Int, NEW n \in Int,
         NEW x \in samples \ Earliest(samples, n), NEW y \in Earliest(samples, n)
  PROVE  y < x
<1> SUFFICES ASSUME x <= y PROVE FALSE
  BY DEF Earliest
<1> DEFINE Before(z) == {w \in samples : w < z}
<1>1. Before(x) \subseteq Before(y)
  <2>1. x \in Int /\ y \in Int
    BY DEF Earliest
  <2>2. \A w \in samples : w < x => w < y
    BY <2>1
  <2> QED
    BY <2>2
<1>2. IsFiniteSet(Before(y)) /\ IsFiniteSet(Before(x))
  BY FS_Subset
<1>3. Cardinality(Before(x)) <= Cardinality(Before(y))
  BY <1>1, <1>2, FS_Subset
<1>4. Cardinality(Before(y)) < n /\ ~(Cardinality(Before(x)) < n)
  BY DEF Earliest
<1>5. Cardinality(Before(x)) \in Int /\ Cardinality(Before(y)) \in Int
  BY <1>2, FS_CardinalityType
<1> QED
  BY <1>3, <1>4, <1>5

\* The samples that wait in an adapter, and those of the blocks just pulled.
Runs(lo, hi, p, q) == (lo + 1 .. hi) \cup (p + 1 .. q)

(* What is served of a run that waits and of the run of the blocks just pulled: the
   beginning of the first, and of the second only if the first is used up. *)
LEMMA EarliestOfRuns ==
  ASSUME NEW lo \in Nat, NEW hi \in Nat, NEW p \in Nat, NEW q \in Nat, NEW n \in Nat,
         lo <= hi, hi <= p, p <= q, n <= (hi - lo) + (q - p)
  PROVE  Earliest(Runs(lo, hi, p, q), n) =
           IF n <= hi - lo THEN Runs(lo, lo + n, p, p)
                           ELSE Runs(lo, hi, p, p + (n - (hi - lo)))
<1> USE DEF Runs
<1> DEFINE S == Runs(lo, hi, p, q)
           Before(x) == {y \in S : y < x}
<1>1. ASSUME NEW x \in lo + 1 .. hi PROVE Cardinality(Before(x)) = x - 1 - lo
  <2>1. Before(x) = lo + 1 .. x - 1
    OBVIOUS
  <2>2. lo + 1 \in Int /\ x - 1 \in Int
    OBVIOUS
  <2>3. Cardinality(lo + 1 .. x - 1) = IF lo + 1 > x - 1 THEN 0 ELSE (x - 1) - (lo + 1) + 1
    BY <2>2, FS_Interval
  <2> HIDE DEF Before
  <2> QED
    BY <2>1, <2>3
<1>2. ASSUME NEW x \in p + 1 .. q PROVE Cardinality(Before(x)) = (hi - lo) + (x - 1 - p)
  <2> DEFINE A == lo + 1 .. hi
             B == p + 1 .. x - 1
  <2>1. Before(x) = A \cup B
    OBVIOUS
  <2>2. lo + 1 \in Int /\ hi \in Int /\ p + 1 \in Int /\ x - 1 \in Int
    OBVIOUS
  <2>3. /\ IsFiniteSet(A)
        /\ Cardinality(A) = IF lo + 1 > hi THEN 0 ELSE hi - (lo + 1) + 1
    BY <2>2, FS_Interval
  <2>4. /\ IsFiniteSet(B)
        /\ Cardinality(B) = IF p + 1 > x - 1 THEN 0 ELSE (x - 1) - (p + 1) + 1
    BY <2>2, FS_Interval
  <2>5. Cardinality(A \cap B) = 0
    <3>1. A \cap B = {}
      OBVIOUS
    <3> HIDE DEF A, B
    <3> QED
      BY <3>1, FS_EmptySet
  <2> HIDE DEF A, B, Before
  <2>6. Cardinality(A \cup B) = Cardinality(A) + Cardinality(B) - Cardinality(A \cap B)
    BY <2>3, <2>4, FS_Union
  <2>7. Cardinality(A) = hi - lo /\ Cardinality(B) = x - 1 - p
    BY <2>3, <2>4
  <2> QED
    BY <2>1, <2>5, <2>6, <2>7
<1>3. \A x \in S : x \in Earliest(S, n) <=> Cardinality(Before(x)) < n
  BY DEF Earliest
<1>4. \A x \in lo + 1 .. hi : x \in Earliest(S, n) <=> x - 1 - lo < n
  BY <1>1, <1>3
<1>5. \A x \in p + 1 .. q : x \in Earliest(S, n) <=> (hi - lo) + (x - 1 - p) < n
  BY <1>2, <1>3
<1>6. Earliest(S, n) \subseteq S
  BY DEF Earliest
<1> DEFINE E == Earliest(S, n)
<1> HIDE DEF E
<1>7. /\ \A x \in E : x \in (lo + 1 .. hi) \cup (p + 1 .. q)
      /\ \A x \in lo + 1 .. hi : x \in E <=> x - 1 - lo < n
      /\ \A x \in p + 1 .. q : x \in E <=> (hi - lo) + (x - 1 - p) < n
  BY <1>4, <1>5, <1>6 DEF E
<1>8. CASE n <= hi - lo
  <2>1. ASSUME NEW x \in E PROVE x \in lo + 1 .. lo + n
    <3>1. CASE x \in lo + 1 .. hi
      BY <1>7, <1>8, <3>1
    <3>2. CASE x \in p + 1 .. q
      BY <1>7, <1>8, <3>2
    <3> QED
      BY <1>7, <3>1, <3>2
  <2>2. ASSUME NEW x \in lo + 1 .. lo + n PROVE x \in E
    <3>1. x \in lo + 1 .. hi
      BY <1>8
    <3> QED
      BY <1>7, <3>1
  <2>3. E = lo + 1 .. lo + n
    BY <2>1, <2>2
  <2>4. p + 1 .. p = {}
    OBVIOUS
  <2> QED
    BY <1>8, <2>3, <2>4 DEF E
<1>9. CASE ~(n <= hi - lo)
  <2>1. E = (lo + 1 .. hi) \cup (p + 1 .. p + (n - (hi - lo)))
    BY <1>7, <1>9
  <2> QED
    BY <1>9, <2>1 DEF E
<1> QED
  BY <1>8, <1>9

(* The blocks pulled are one run of the runtime's samples, as short as can be. *)
LEMMA PulledRun ==
  ASSUME produced \in Nat, NEW s \in Streams, NEW n \in Nat, NEW c \in Nat,
         Cardinality(ring[s]) = c
  PROVE  \E q \in Nat : /\ Pulled(s, n) = produced + 1 .. q
                        /\ produced <= q
                        /\ IF n <= c THEN q = produced
                                     ELSE n - c <= q - produced /\ q - produced < n - c + BlockSize
<1> USE HandoverAssumption
<1> DEFINE blocks == IF n - c <= 0 THEN 0 ELSE ((n - c) + BlockSize - 1) \div BlockSize
           m == (n - c) + BlockSize - 1
           q == produced + blocks * BlockSize
<1>1. Pulled(s, n) = produced + 1 .. q
  BY DEF Pulled
<1>2. CASE n <= c
  <2>1. blocks = 0
    BY <1>2
  <2>2. q = produced
    BY <2>1
  <2> QED
    BY <1>1, <1>2, <2>2
<1>3. CASE ~(n <= c)
  <2>1. m \in Nat /\ blocks = m \div BlockSize
    BY <1>3
  <2> HIDE DEF m
  <2>2. /\ m \div BlockSize \in Nat
        /\ (m \div BlockSize) * BlockSize <= m
        /\ m < (m \div BlockSize) * BlockSize + BlockSize
    BY <2>1
  <2> DEFINE k == (m \div BlockSize) * BlockSize
  <2>3. k \in Nat /\ q = produced + k
    BY <2>1, <2>2
  <2> HIDE DEF k, q, blocks
  <2>4. k <= m /\ m < k + BlockSize
    BY <2>2 DEF k
  <2>5. n - c <= k /\ k < (n - c) + BlockSize
    BY <2>3, <2>4 DEF m
  <2>6. /\ q \in Nat /\ produced <= q
        /\ n - c <= q - produced /\ q - produced < n - c + BlockSize
    BY <2>3, <2>5
  <2> QED
    BY <1>1, <1>3, <2>6
<1> QED
  BY <1>2, <1>3

(* What a fill does to the ring it serves: of what waited and the blocks pulled, a
   beginning is heard and the rest, less than a block, waits. *)
LEMMA ServeRun ==
  ASSUME HandoverTypeOK, RingShape, NEW s \in Streams, NEW n \in 0 .. MaxFrames, Serve(s, n)
  PROVE  \E q \in Nat :
           /\ Pulled(s, n) = produced + 1 .. q
           /\ produced <= q
           /\ produced' = q
           /\ \E lo, hi \in 0 .. q : /\ lo <= hi /\ hi - lo < BlockSize
                                     /\ ring'[s] = lo + 1 .. hi
<1> USE HandoverAssumption
<1>1. PICK lo \in 0 .. produced, hi \in 0 .. produced :
        lo <= hi /\ hi - lo < BlockSize /\ ring[s] = lo + 1 .. hi
  BY DEF RingShape
<1>2. produced \in Nat /\ n \in Nat /\ lo \in Nat /\ hi \in Nat /\ hi <= produced
  BY <1>1 DEF HandoverTypeOK
<1>3. Cardinality(ring[s]) = hi - lo /\ hi - lo \in Nat
  <2>1. lo + 1 \in Int /\ hi \in Int
    BY <1>2
  <2>2. Cardinality(lo + 1 .. hi) = IF lo + 1 > hi THEN 0 ELSE hi - (lo + 1) + 1
    BY <2>1, FS_Interval
  <2> QED
    BY <1>1, <1>2, <2>2
<1>4. PICK q \in Nat : /\ Pulled(s, n) = produced + 1 .. q
                      /\ produced <= q
                      /\ IF n <= hi - lo
                         THEN q = produced
                         ELSE /\ n - (hi - lo) <= q - produced
                              /\ q - produced < n - (hi - lo) + BlockSize
  BY <1>2, <1>3, PulledRun
<1>5. produced' = q
  <2>1. produced + 1 \in Int /\ q \in Int
    BY <1>2
  <2>2. Cardinality(produced + 1 .. q) = IF produced + 1 > q THEN 0 ELSE q - (produced + 1) + 1
    BY <2>1, FS_Interval
  <2>3. produced' = produced + Cardinality(produced + 1 .. q)
    BY <1>4 DEF Serve
  <2> QED
    BY <1>2, <1>4, <2>2, <2>3
<1> DEFINE available == Runs(lo, hi, produced, q)
           served == Earliest(available, n)
<1>6. ring'[s] = available \ served
  BY <1>1, <1>4 DEF Serve, HandoverTypeOK, Runs
<1>7. served = IF n <= hi - lo THEN Runs(lo, lo + n, produced, produced)
                               ELSE Runs(lo, hi, produced, produced + (n - (hi - lo)))
  <2>1. n <= (hi - lo) + (q - produced)
    BY <1>1, <1>2, <1>4
  <2>2. lo \in Nat /\ hi \in Nat /\ produced \in Nat /\ q \in Nat /\ n \in Nat
    BY <1>2, <1>4
  <2>3. lo <= hi /\ hi <= produced /\ produced <= q
    BY <1>1, <1>2, <1>4
  <2> QED
    BY <2>1, <2>2, <2>3, EarliestOfRuns
<1> HIDE DEF served
<1>8. CASE n <= hi - lo
  <2>1. q = produced
    BY <1>4, <1>8
  <2>2. ring'[s] = (lo + n) + 1 .. hi
    BY <1>2, <1>6, <1>7, <1>8, <2>1 DEF Runs
  <2>3. lo + n \in 0 .. q /\ hi \in 0 .. q /\ lo + n <= hi /\ hi - (lo + n) < BlockSize
    BY <1>1, <1>2, <1>8, <2>1
  <2> QED
    BY <1>4, <1>5, <2>2, <2>3
<1>9. CASE ~(n <= hi - lo)
  <2> DEFINE from == produced + (n - (hi - lo))
  <2>1. ring'[s] = from + 1 .. q
    BY <1>2, <1>4, <1>6, <1>7, <1>9 DEF Runs
  <2>2. from \in 0 .. q /\ q \in 0 .. q /\ from <= q /\ q - from < BlockSize
    BY <1>1, <1>2, <1>4, <1>9
  <2> QED
    BY <1>4, <1>5, <2>1, <2>2
<1> QED
  BY <1>8, <1>9

-----------------------------------------------------------------------------
\* The steps of the controller.

(* Every step is one of the controller's. *)
LEMMA HandoverStep == [HandoverNext]_handoverVars => [Next]_vars
BY DEF HandoverNext, handoverVars, Rebuild, Release, FillServes, FillBreaks, Application,
   Callback, Next, CallBegins, CallProceeds, CallLocks, Audio, Faults, World

(* A stream goes away only in the steps that join it. *)
LEMMA StreamsStay ==
  ASSUME IInv, [HandoverNext]_handoverVars, ~Release, NEW s \in Streams, streams'[s] = "none"
  PROVE  streams[s] = "none"
<1>1. /\ streams \in [Streams -> {"none", "idle", "playing", "lost", "dead", "closing"}]
      /\ stream \in Streams \cup {NoStream} /\ fresh \in Streams \cup {NoStream}
  BY DEF IInv, TypeOK
<1>2. CASE Rebuild \/ UNCHANGED handoverVars \/ Application
  BY <1>1, <1>2 DEF Rebuild, RestartBuild, After, handoverVars, vars, hostVars, Application,
     StartPlay, StartRuns, StopPause, StopState, RecoverDrop, RecoverErrorFlag, RecoverFlag,
     RecoverCheck, Restart, RestartCheck, RestartBuildFails, RestartPlay, RestartPlayFails,
     RestartInstall, RestartState, Drop, Closing
<1>3. CASE DeviceLost \/ DeviceBack
  BY <1>1, <1>3 DEF DeviceLost, DeviceBack
<1>4. ASSUME NEW t \in Streams, Callback(t) \/ FillServes(t) \/ FillBreaks(t)
      PROVE  streams[s] = "none"
  BY <1>1, <1>4 DEF FillServes, FillBreaks, FillOk, FillFails, Callback, Begin, Oversize,
     Fails, LoadState, LockStore, RaiseErrorFlag, RaiseRecovery, SilenceError, Return,
     ErrorCallback, After, hostVars, Open
<1> QED
  BY <1>2, <1>3, <1>4 DEF HandoverNext

(* Only a rebuild lets a stream sound that did not. *)
LEMMA SoundingStays ==
  ASSUME IInv, [HandoverNext]_handoverVars, ~Rebuild, NEW s \in Streams, Sounding(s)'
  PROVE  Sounding(s)
<1>1. /\ streams \in [Streams -> {"none", "idle", "playing", "lost", "dead", "closing"}]
      /\ cb \in [Streams -> {"out", "size", "lock", "fill", "raise", "return"}]
      /\ stream \in Streams \cup {NoStream} /\ fresh \in Streams \cup {NoStream}
  BY DEF IInv, TypeOK
<1>2. streams'[s] \in Open \/ cb'[s] # "out"
  BY DEF Sounding
<1>3. CASE Release \/ UNCHANGED handoverVars
  BY <1>1, <1>2, <1>3 DEF Release, RecoverJoin, RestartJoin, DropJoin, RestartAbandon, Closed,
     After, handoverVars, vars, hostVars, audioVars, Open, Sounding
<1>4. CASE Application
  BY <1>1, <1>2, <1>4 DEF After, hostVars, audioVars, Application,
     StartPlay, StartRuns, StopPause, StopState, RecoverDrop, RecoverErrorFlag, RecoverFlag,
     RecoverCheck, Restart, RestartCheck, RestartBuildFails, RestartPlay, RestartPlayFails,
     RestartInstall, RestartState, Drop, Closing, CanPlay, Open, Sounding
<1>5. CASE DeviceLost \/ DeviceBack
  BY <1>1, <1>2, <1>5 DEF DeviceLost, DeviceBack, audioVars, Open, Sounding
<1>6. ASSUME NEW t \in Streams, Callback(t) \/ FillServes(t) \/ FillBreaks(t)
      PROVE  Sounding(s)
  BY <1>1, <1>2, <1>6 DEF FillServes, FillBreaks, FillOk, FillFails, Callback, Begin,
     Oversize, Fails, LoadState, LockStore, RaiseErrorFlag, RaiseRecovery, SilenceError,
     Return, ErrorCallback, After, hostVars, audioVars, Open, Step, Sounding
<1> QED
  BY <1>3, <1>4, <1>5, <1>6 DEF HandoverNext

(* The stream a rebuild makes is new, and what sounded before is the installed one. *)
LEMMA RebuildAlone ==
  ASSUME IInv, IInv', Rebuild
  PROVE  /\ fresh' \in Streams
         /\ streams[fresh'] = "none"
         /\ \A s \in Streams : Sounding(s)' => s = fresh' \/ (s = stream /\ Sounding(s))
<1>1. /\ fresh' \in Streams /\ streams[fresh'] = "none" /\ streams' = After(fresh', "idle")
      /\ cb' = cb
      /\ ctl = "restart.build"
  BY DEF Rebuild, RestartBuild, Goto, audioVars
<1>2. streams \in [Streams -> {"none", "idle", "playing", "lost", "dead", "closing"}]
  BY DEF IInv, TypeOK
<1>3. ASSUME NEW s \in Streams, Sounding(s)', s # fresh' PROVE s = stream /\ Sounding(s)
  <2>1. Sounding(s)
    BY <1>1, <1>2, <1>3 DEF Sounding, After
  <2>2. streams[s] # "none" \/ cb[s] # "out"
    BY <2>1 DEF Sounding, Open
  <2>3. s = stream
    BY <1>1, <2>2 DEF IInv, Ownership, NoOrphanStream
  <2> QED
    BY <2>1, <2>3
<1> QED
  BY <1>1, <1>3

(* A callback in the runtime belongs to a stream that exists. *)
LEMMA FillingStream ==
  ASSUME IInv, NEW s \in Streams, FillServes(s) \/ FillBreaks(s)
  PROVE  cb[s] = "fill" /\ Sounding(s) /\ streams'[s] # "none"
<1>1. cb[s] = "fill" /\ streams' = streams
  BY DEF FillServes, FillBreaks, FillOk, FillFails, Fails, Step, hostVars
<1>2. streams[s] # "none"
  BY <1>1, ControllerAssumption DEF IInv, Ownership, NoOrphanStream
<1> QED
  BY <1>1, <1>2 DEF Sounding

-----------------------------------------------------------------------------
\* The invariant is inductive.

LEMMA HandoverInvInit == HandoverInit => HandoverInv
<1> SUFFICES ASSUME HandoverInit PROVE HandoverInv
  OBVIOUS
<1>1. IInv
  BY InitIInv DEF HandoverInit
<1>2. HandoverTypeOK /\ NoRepeat /\ InOrder
  BY DEF HandoverInit, HandoverTypeOK, NoRepeat, InOrder
<1>3. RingShape
  <2> SUFFICES ASSUME NEW s \in Streams
               PROVE  \E lo, hi \in 0 .. produced :
                        lo <= hi /\ hi - lo < BlockSize /\ ring[s] = lo + 1 .. hi
    BY DEF RingShape
  <2>1. ring[s] = 0 + 1 .. 0 /\ 0 - 0 < BlockSize /\ 0 \in 0 .. produced
    BY HandoverAssumption DEF HandoverInit
  <2> QED
    BY <2>1
<1>4. OneSounds
  <2>1. \A s \in Streams : streams[s] # "none" \/ cb[s] # "out" => s = stream
    BY ControllerAssumption DEF HandoverInit, Init
  <2> QED
    BY <2>1 DEF OneSounds, Sounding, Open
<1> QED
  BY <1>1, <1>2, <1>3, <1>4 DEF HandoverInv

\* The parts that say where the samples are, and those that say which streams sound.
SamplesInv == HandoverTypeOK /\ RingShape /\ NoRepeat
SoundInv == OneSounds /\ InOrder

LEMMA ServeInv ==
  ASSUME HandoverInv, IInv', [HandoverNext]_handoverVars, NEW s \in Streams, FillServes(s),
         UNCHANGED overlapped
  PROVE  SamplesInv' /\ SoundInv'
<1> USE HandoverAssumption
<1>1. IInv /\ HandoverTypeOK /\ RingShape /\ OneSounds /\ NoRepeat /\ InOrder
  BY DEF HandoverInv
<1>2. /\ produced \in Nat
      /\ ring \in [Streams -> SUBSET (1 .. produced)]
      /\ heard \subseteq 1 .. produced
  BY <1>1 DEF HandoverTypeOK
<1>3. PICK n \in 0 .. MaxFrames : Serve(s, n)
  BY DEF FillServes
<1>4. PICK q \in Nat :
        /\ Pulled(s, n) = produced + 1 .. q
        /\ produced <= q
        /\ produced' = q
        /\ \E lo, hi \in 0 .. q : /\ lo <= hi /\ hi - lo < BlockSize
                                  /\ ring'[s] = lo + 1 .. hi
  BY <1>1, <1>3, ServeRun
<1> DEFINE available == ring[s] \cup (produced + 1 .. q)
           served == Earliest(available, n)
<1>5. /\ served \subseteq available
      /\ heard' = heard \cup served
      /\ ring' = [ring EXCEPT ![s] = available \ served]
  BY <1>3, <1>4 DEF Serve, Earliest
<1>6. /\ available \subseteq 1 .. q
      /\ 1 .. produced \subseteq 1 .. q
      /\ available \cap heard = {}
      /\ \A t \in Streams \ {s} : available \cap ring[t] = {}
  <2>1. (produced + 1 .. q) \cap (1 .. produced) = {}
    BY <1>2
  <2>2. produced + 1 .. q \subseteq 1 .. q /\ 1 .. produced \subseteq 1 .. q
    BY <1>2, <1>4
  <2> QED
    BY <1>1, <1>2, <2>1, <2>2 DEF NoRepeat
<1>7. IsFiniteSet(available) /\ available \subseteq Int
  <2>1. IsFiniteSet(1 .. q)
    BY FS_Interval
  <2> QED
    BY <1>6, <2>1, FS_Subset
<1>8. ASSUME NEW x \in available \ served, NEW y \in served PROVE y < x
  BY <1>3, <1>7, EarliestFirst
<1> HIDE DEF available, served
<1>9. /\ ring' \in [Streams -> SUBSET (1 .. q)]
      /\ ring'[s] = available \ served
      /\ \A t \in Streams \ {s} : ring'[t] = ring[t]
  <2>1. available \ served \in SUBSET (1 .. q)
    BY <1>6
  <2>2. ring \in [Streams -> SUBSET (1 .. q)]
    BY <1>2, <1>6
  <2> QED
    BY <1>5, <2>1, <2>2
<1>10. streams' = streams
  BY DEF FillServes, FillOk, hostVars
<1>11. HandoverTypeOK'
  <2>1. heard' \subseteq 1 .. q
    BY <1>2, <1>5, <1>6
  <2>2. ASSUME NEW t \in Streams, streams'[t] = "none" PROVE ring'[t] = {}
    <3>1. t # s
      BY <1>1, <2>2, FillingStream
    <3> QED
      BY <1>1, <1>9, <1>10, <2>2, <3>1 DEF HandoverTypeOK
  <2> QED
    BY <1>1, <1>4, <1>9, <2>1, <2>2 DEF HandoverTypeOK
<1>12. RingShape'
  <2>1. ASSUME NEW t \in Streams \ {s}
        PROVE  \E lo, hi \in 0 .. q : lo <= hi /\ hi - lo < BlockSize /\ ring'[t] = lo + 1 .. hi
    <3>1. PICK lo \in 0 .. produced, hi \in 0 .. produced :
            lo <= hi /\ hi - lo < BlockSize /\ ring[t] = lo + 1 .. hi
      BY <1>1 DEF RingShape
    <3>2. lo \in 0 .. q /\ hi \in 0 .. q
      BY <1>2, <1>4
    <3> QED
      BY <1>9, <3>1, <3>2
  <2> QED
    BY <1>4, <2>1 DEF RingShape
<1>13. NoRepeat'
  BY <1>1, <1>5, <1>6, <1>9 DEF NoRepeat
<1>14. \A t \in Streams : Sounding(t)' => Sounding(t)
  <2>1. /\ cb[s] = "fill" /\ cb' = [cb EXCEPT ![s] = "return"]
        /\ cb \in [Streams -> {"out", "size", "lock", "fill", "raise", "return"}]
    BY <1>1 DEF FillServes, FillOk, Step, IInv, TypeOK
  <2>2. ~Rebuild
    BY <2>1 DEF Rebuild, RestartBuild, audioVars
  <2> QED
    BY <1>1, <2>2, SoundingStays
<1>15. OneSounds'
  BY <1>1, <1>14 DEF OneSounds
<1>16. InOrder'
  <2> SUFFICES ASSUME ~overlapped, NEW t \in Streams, Sounding(t)',
                      NEW x \in ring'[t], NEW y \in heard'
               PROVE  y < x
    BY DEF InOrder
  <2>1. Sounding(s) /\ Sounding(t)
    BY <1>1, <1>14, FillingStream
  <2>2. t = s
    BY <1>1, <2>1 DEF OneSounds
  <2>3. x \in available \ served
    BY <1>9, <2>2
  <2>4. CASE y \in served
    BY <1>8, <2>3, <2>4
  <2>5. CASE y \in heard
    <3>1. CASE x \in ring[s]
      BY <1>1, <2>1, <2>5, <3>1 DEF InOrder
    <3>2. CASE x \in produced + 1 .. q
      BY <1>2, <2>5, <3>2
    <3> QED
      BY <2>3, <3>1, <3>2 DEF available
  <2> QED
    BY <1>5, <2>4, <2>5
<1> QED
  BY <1>11, <1>12, <1>13, <1>15, <1>16 DEF SamplesInv, SoundInv

LEMMA BreakInv ==
  ASSUME HandoverInv, IInv', [HandoverNext]_handoverVars, NEW s \in Streams, FillBreaks(s),
         UNCHANGED overlapped
  PROVE  SamplesInv' /\ SoundInv'
<1> USE HandoverAssumption
<1>1. IInv /\ HandoverTypeOK /\ RingShape /\ OneSounds /\ NoRepeat /\ InOrder
  BY DEF HandoverInv
<1>2. /\ produced \in Nat
      /\ ring \in [Streams -> SUBSET (1 .. produced)]
      /\ heard \subseteq 1 .. produced
  BY <1>1 DEF HandoverTypeOK
<1>3. produced' \in Nat /\ produced <= produced'
  <2>1. PICK k \in 0 .. MaxFrames : produced' = produced + k * BlockSize
    BY DEF FillBreaks
  <2>2. k * BlockSize \in Nat
    OBVIOUS
  <2> QED
    BY <1>2, <2>1, <2>2
<1>4. /\ ring' = [ring EXCEPT ![s] = {}]
      /\ heard' = heard
      /\ streams' = streams
      /\ cb[s] = "fill" /\ cb' = [cb EXCEPT ![s] = "raise"]
  BY DEF FillBreaks, FillFails, Fails, Step, hostVars
<1>5. 1 .. produced \subseteq 1 .. produced'
  BY <1>2, <1>3
<1>6. HandoverTypeOK'
  BY <1>1, <1>2, <1>3, <1>4, <1>5 DEF HandoverTypeOK
<1>7. RingShape'
  <2> SUFFICES ASSUME NEW t \in Streams
               PROVE  \E lo, hi \in 0 .. produced' :
                        lo <= hi /\ hi - lo < BlockSize /\ ring'[t] = lo + 1 .. hi
    BY DEF RingShape
  <2>1. CASE t = s
    <3>1. ring'[t] = 0 + 1 .. 0 /\ 0 - 0 < BlockSize /\ 0 \in 0 .. produced'
      BY <1>2, <1>3, <1>4, <2>1
    <3> QED
      BY <3>1
  <2>2. CASE t # s
    <3>1. PICK lo \in 0 .. produced, hi \in 0 .. produced :
            lo <= hi /\ hi - lo < BlockSize /\ ring[t] = lo + 1 .. hi
      BY <1>1 DEF RingShape
    <3>2. lo \in 0 .. produced' /\ hi \in 0 .. produced'
      BY <1>2, <1>3
    <3> QED
      BY <1>2, <1>4, <2>2, <3>1, <3>2
  <2> QED
    BY <2>1, <2>2
<1>8. NoRepeat'
  BY <1>1, <1>2, <1>4 DEF NoRepeat
<1>9. \A t \in Streams : Sounding(t)' => Sounding(t)
  <2>1. cb \in [Streams -> {"out", "size", "lock", "fill", "raise", "return"}]
    BY <1>1 DEF IInv, TypeOK
  <2>2. ~Rebuild
    BY <1>4, <2>1 DEF Rebuild, RestartBuild, audioVars
  <2> QED
    BY <1>1, <2>2, SoundingStays
<1>10. SoundInv'
  BY <1>1, <1>2, <1>4, <1>9 DEF SoundInv, OneSounds, InOrder
<1> QED
  BY <1>6, <1>7, <1>8, <1>10 DEF SamplesInv

(* Dropping a stream loses what waited in its adapter. *)
LEMMA ReleaseInv ==
  ASSUME HandoverInv, IInv', [HandoverNext]_handoverVars, Release
  PROVE  SamplesInv' /\ SoundInv'
<1> USE HandoverAssumption
<1>1. IInv /\ HandoverTypeOK /\ RingShape /\ OneSounds /\ NoRepeat /\ InOrder
  BY DEF HandoverInv
<1>2. /\ produced \in Nat
      /\ ring \in [Streams -> SUBSET (1 .. produced)]
      /\ heard \subseteq 1 .. produced
  BY <1>1 DEF HandoverTypeOK
<1>3. UNCHANGED <<produced, heard, overlapped>>
  BY DEF Release
<1>4. PICK s \in Streams \cup {NoStream} :
        /\ ring' = IF s = NoStream THEN ring ELSE [ring EXCEPT ![s] = {}]
        /\ streams' = IF s = NoStream THEN streams ELSE [streams EXCEPT ![s] = "none"]
        /\ s # NoStream => streams[s] # "none"
  BY <1>1 DEF Release, Discard, RecoverJoin, RestartJoin, DropJoin, RestartAbandon, Closed,
     After, IInv, TypeOK, Ownership
<1>5. /\ NoStream \notin Streams
      /\ streams \in [Streams -> {"none", "idle", "playing", "lost", "dead", "closing"}]
  BY <1>1, ControllerAssumption DEF IInv, TypeOK
<1>6. \A t \in Streams : ring'[t] = IF t = s THEN {} ELSE ring[t]
  BY <1>2, <1>4, <1>5
<1>7. HandoverTypeOK'
  <2>1. ring' \in [Streams -> SUBSET (1 .. produced)]
    BY <1>2, <1>4
  <2>2. ASSUME NEW t \in Streams, streams'[t] = "none" PROVE ring'[t] = {}
    BY <1>1, <1>4, <1>5, <1>6, <2>2 DEF HandoverTypeOK
  <2> QED
    BY <1>1, <1>3, <2>1, <2>2 DEF HandoverTypeOK
<1>8. RingShape'
  <2> SUFFICES ASSUME NEW t \in Streams
               PROVE  \E lo, hi \in 0 .. produced :
                        lo <= hi /\ hi - lo < BlockSize /\ ring'[t] = lo + 1 .. hi
    BY <1>3 DEF RingShape
  <2>1. CASE t = s
    <3>1. ring'[t] = 0 + 1 .. 0 /\ 0 - 0 < BlockSize /\ 0 \in 0 .. produced
      BY <1>2, <1>6, <2>1
    <3> QED
      BY <3>1
  <2>2. CASE t # s
    BY <1>1, <1>6, <2>2 DEF RingShape
  <2> QED
    BY <2>1, <2>2
<1>9. NoRepeat'
  BY <1>1, <1>3, <1>6 DEF NoRepeat
<1>10. \A t \in Streams : Sounding(t)' => Sounding(t)
  <2>1. ~Rebuild
    BY DEF Release, Rebuild, RestartBuild, RecoverJoin, RestartJoin, DropJoin, RestartAbandon,
       Goto
  <2> QED
    BY <1>1, <2>1, SoundingStays
<1>11. SoundInv'
  BY <1>1, <1>3, <1>6, <1>10 DEF SoundInv, OneSounds, InOrder
<1> QED
  BY <1>7, <1>8, <1>9, <1>11 DEF SamplesInv

(* A new stream begins with an empty adapter. *)
LEMMA RebuildInv ==
  ASSUME HandoverInv, IInv', [HandoverNext]_handoverVars, Rebuild
  PROVE  ring' = ring /\ SamplesInv' /\ SoundInv'
<1> USE HandoverAssumption
<1>1. IInv /\ HandoverTypeOK /\ RingShape /\ OneSounds /\ NoRepeat /\ InOrder
  BY DEF HandoverInv
<1>2. /\ fresh' \in Streams
      /\ streams[fresh'] = "none"
      /\ \A s \in Streams : Sounding(s)' => s = fresh' \/ (s = stream /\ Sounding(s))
  BY <1>1, RebuildAlone
<1>3. ring[fresh'] = {}
  BY <1>1, <1>2 DEF HandoverTypeOK
<1>4. /\ ring' = [ring EXCEPT ![fresh'] = {}]
      /\ UNCHANGED <<produced, heard>>
      /\ overlapped' = (stream # NoStream /\ Sounding(stream))
  BY DEF Rebuild, NewAdapter
<1>5. ring' = ring
  BY <1>1, <1>3, <1>4 DEF HandoverTypeOK
<1>6. overlapped' \in BOOLEAN
  BY <1>4
<1>7. \A t \in Streams : streams'[t] = "none" => streams[t] = "none"
  <2>1. ~Release
    BY DEF Release, Rebuild, RestartBuild, RecoverJoin, RestartJoin, DropJoin, RestartAbandon,
       Goto
  <2> QED
    BY <1>1, <2>1, StreamsStay
<1>8. SamplesInv'
  <2>1. HandoverTypeOK'
    BY <1>1, <1>4, <1>5, <1>6, <1>7 DEF HandoverTypeOK
  <2>2. RingShape'
    BY <1>1, <1>4, <1>5 DEF RingShape
  <2>3. NoRepeat'
    BY <1>1, <1>4, <1>5 DEF NoRepeat
  <2> QED
    BY <2>1, <2>2, <2>3 DEF SamplesInv
<1>9. ~overlapped' => \A t \in Streams : Sounding(t)' => t = fresh'
  BY <1>2, <1>4, ControllerAssumption
<1>10. SoundInv'
  BY <1>3, <1>4, <1>5, <1>9 DEF SoundInv, OneSounds, InOrder
<1> QED
  BY <1>5, <1>8, <1>10

LEMMA HandoverInvNext == HandoverInv /\ [HandoverNext]_handoverVars => HandoverInv'
<1> SUFFICES ASSUME HandoverInv, [HandoverNext]_handoverVars PROVE HandoverInv'
  OBVIOUS
<1>1. IInv'
  BY HandoverStep, NextIInv DEF HandoverInv
<1>2. SamplesInv' /\ SoundInv'
  <2>1. CASE Rebuild
    BY <1>1, <2>1, RebuildInv
  <2>2. CASE Release
    BY <1>1, <2>2, ReleaseInv
  <2>3. ASSUME NEW s \in Streams, FillServes(s), UNCHANGED overlapped
        PROVE  SamplesInv' /\ SoundInv'
    BY <1>1, <2>3, ServeInv
  <2>4. ASSUME NEW s \in Streams, FillBreaks(s), UNCHANGED overlapped
        PROVE  SamplesInv' /\ SoundInv'
    BY <1>1, <2>4, BreakInv
  <2>5. CASE UNCHANGED <<sampleVars, overlapped>> /\ ~Rebuild /\ ~Release
    <3>1. \A t \in Streams : Sounding(t)' => Sounding(t)
      BY <2>5, SoundingStays DEF HandoverInv
    <3>2. \A t \in Streams : streams'[t] = "none" => streams[t] = "none"
      BY <2>5, StreamsStay DEF HandoverInv
    <3> QED
      BY <2>5, <3>1, <3>2 DEF HandoverInv, SamplesInv, SoundInv, HandoverTypeOK, RingShape,
         NoRepeat, OneSounds, InOrder, sampleVars
  <2> QED
    BY <2>1, <2>2, <2>3, <2>4, <2>5 DEF HandoverNext, handoverVars
<1> QED
  BY <1>1, <1>2 DEF HandoverInv, SamplesInv, SoundInv

LEMMA HandoverInvHolds == HandoverSpec => []HandoverInv
BY HandoverInvInit, HandoverInvNext, PTL DEF HandoverSpec

-----------------------------------------------------------------------------
\* What holds in every reachable state.

(* Samples are numbers of the runtime's stream, and only a stream that exists has some
   waiting. *)
THEOREM HandoverTypeCorrect == HandoverSpec => []HandoverTypeOK
<1>1. HandoverInv => HandoverTypeOK
  BY DEF HandoverInv
<1> QED
  BY <1>1, HandoverInvHolds, PTL

(* No sample is played twice, whichever streams play and however they are replaced. *)
THEOREM NothingRepeated == HandoverSpec => []NoRepeat
<1>1. HandoverInv => NoRepeat
  BY DEF HandoverInv
<1> QED
  BY <1>1, HandoverInvHolds, PTL

(* Unless a restart built a stream beside one that sounded, what waits is later than all
   that was heard. *)
THEOREM PlayedInOrder == HandoverSpec => []InOrder
<1>1. HandoverInv => InOrder
  BY DEF HandoverInv
<1> QED
  BY <1>1, HandoverInvHolds, PTL

(* Samples are lost only by a fill that fails and by dropping a stream, and then fewer
   than a block of them. *)
THEOREM LittleLost == HandoverSpec => LossBounded
<1> DEFINE Kept == \/ Lost' = Lost
                   \/ \E s \in Streams : cb[s] = "fill" /\ cb'[s] = "raise"
                   \/ /\ \E s \in Streams : streams[s] # "none" /\ streams'[s] = "none"
                      /\ Lost \subseteq Lost'
                      /\ Cardinality(Lost' \ Lost) < BlockSize
<1>1. ASSUME HandoverInv, HandoverInv', [HandoverNext]_handoverVars PROVE Kept
  <2>1. /\ produced \in Nat
        /\ ring \in [Streams -> SUBSET (1 .. produced)]
        /\ heard \subseteq 1 .. produced
    BY <1>1 DEF HandoverInv, HandoverTypeOK
  <2>2. CASE Rebuild
    <3>1. ring' = ring /\ UNCHANGED <<produced, heard>>
      BY <1>1, <2>2, RebuildInv DEF Rebuild, HandoverInv
    <3> QED
      BY <3>1 DEF Lost
  <2>3. CASE Release
    <3>1. PICK s \in Streams \cup {NoStream} :
            /\ ring' = IF s = NoStream THEN ring ELSE [ring EXCEPT ![s] = {}]
            /\ streams' = IF s = NoStream THEN streams ELSE [streams EXCEPT ![s] = "none"]
            /\ s # NoStream => streams[s] # "none"
      BY <1>1, <2>3 DEF Release, Discard, RecoverJoin, RestartJoin, DropJoin, RestartAbandon,
         Closed, After, HandoverInv, IInv, TypeOK, Ownership
    <3>2. UNCHANGED <<produced, heard>>
      BY <2>3 DEF Release
    <3>3. CASE s = NoStream
      BY <3>1, <3>2, <3>3 DEF Lost
    <3>4. CASE s \in Streams /\ s # NoStream
      <4>1. streams[s] # "none" /\ streams'[s] = "none"
        BY <1>1, <3>1, <3>4 DEF HandoverInv, IInv, TypeOK
      <4>2. \A t \in Streams : ring'[t] = IF t = s THEN {} ELSE ring[t]
        BY <2>1, <3>1, <3>4
      <4>3. Lost \subseteq Lost' /\ Lost' \ Lost \subseteq ring[s]
        BY <3>2, <4>2 DEF Lost
      <4>4. IsFiniteSet(ring[s]) /\ Cardinality(ring[s]) < BlockSize
        <5>1. PICK lo \in 0 .. produced, hi \in 0 .. produced :
                lo <= hi /\ hi - lo < BlockSize /\ ring[s] = lo + 1 .. hi
          BY <1>1, <3>4 DEF HandoverInv, RingShape
        <5>2. lo + 1 \in Int /\ hi \in Int
          BY <2>1
        <5>3. /\ IsFiniteSet(lo + 1 .. hi)
              /\ Cardinality(lo + 1 .. hi) = IF lo + 1 > hi THEN 0 ELSE hi - (lo + 1) + 1
          BY <5>2, FS_Interval
        <5> QED
          BY <2>1, <5>1, <5>3, HandoverAssumption
      <4>5. Cardinality(Lost' \ Lost) <= Cardinality(ring[s]) /\ IsFiniteSet(Lost' \ Lost)
        BY <4>3, <4>4, FS_Subset
      <4>6. Cardinality(Lost' \ Lost) \in Nat /\ Cardinality(ring[s]) \in Nat
        BY <4>4, <4>5, FS_CardinalityType
      <4> QED
        BY <3>4, <4>1, <4>3, <4>4, <4>5, <4>6, HandoverAssumption
    <3> QED
      BY <3>3, <3>4
  <2>4. ASSUME NEW s \in Streams, FillServes(s) PROVE Kept
    <3>1. PICK n \in 0 .. MaxFrames : Serve(s, n)
      BY <2>4 DEF FillServes
    <3>2. PICK q \in Nat : /\ Pulled(s, n) = produced + 1 .. q
                          /\ produced <= q
                          /\ produced' = q
      BY <1>1, <3>1, ServeRun DEF HandoverInv
    <3> DEFINE available == ring[s] \cup (produced + 1 .. q)
               served == Earliest(available, n)
    <3>3. /\ served \subseteq available
          /\ heard' = heard \cup served
          /\ ring' = [ring EXCEPT ![s] = available \ served]
      BY <3>1, <3>2 DEF Serve, Earliest
    <3> HIDE DEF served
    <3>4. /\ ring'[s] = available \ served
          /\ \A t \in Streams \ {s} : ring'[t] = ring[t]
      BY <2>1, <3>3
    <3> DEFINE kept == heard \cup UNION {ring[t] : t \in Streams}
    <3>5. (heard \cup UNION {ring[t] : t \in Streams})' = kept \cup (produced + 1 .. q)
      BY <3>3, <3>4
    <3>6. kept \subseteq 1 .. produced
      BY <2>1
    <3>7. (1 .. q) \ (kept \cup (produced + 1 .. q)) = (1 .. produced) \ kept
      <4> HIDE DEF kept
      <4>1. 1 .. q = (1 .. produced) \cup (produced + 1 .. q)
        BY <2>1, <3>2
      <4>2. (1 .. produced) \cap (produced + 1 .. q) = {}
        BY <2>1
      <4> QED
        BY <3>6, <4>1, <4>2
    <3> QED
      BY <3>2, <3>5, <3>7 DEF Lost
  <2>5. ASSUME NEW s \in Streams, FillBreaks(s) PROVE Kept
    <3>1. cb[s] = "fill" /\ cb'[s] = "raise"
      BY <1>1, <2>5 DEF FillBreaks, FillFails, Fails, Step, HandoverInv, IInv, TypeOK
    <3> QED
      BY <3>1
  <2>6. CASE UNCHANGED sampleVars
    BY <2>6 DEF sampleVars, Lost
  <2> HIDE DEF Kept
  <2> QED
    BY <1>1, <2>2, <2>3, <2>4, <2>5, <2>6 DEF HandoverNext, handoverVars
<1>2. HandoverInv /\ HandoverInv' /\ [HandoverNext]_handoverVars => [Kept]_handoverVars
  BY <1>1
<1> QED
  BY <1>2, HandoverInvHolds, PTL DEF HandoverSpec, LossBounded
=============================================================================
