------------------------------ MODULE Handover ------------------------------
(***************************************************************************)
(* StreamController and the adapters of its streams together: one          *)
(* RuntimeHandle plays on through stop and start, failing fills, recover   *)
(* and restart, while every stream that is built gets a BufferSizeAdapter  *)
(* of its own, with its own ring of samples that wait (handle path, equal  *)
(* rates).  A fill serves the ring first and then pulls blocks, as it is   *)
(* modelled step by step in BufferSizeAdapter; it is one step here, for    *)
(* the handle's mutex is held throughout.  The runtime does not panic.     *)
(***************************************************************************)
EXTENDS StreamController, Integers, FiniteSets

CONSTANTS BlockSize,   \* samples in a block of the runtime
          MaxFrames,   \* bound: the longest buffer of the host, in frames
          MaxProduced  \* bound: no callback begins once so much was produced

ASSUME HandoverAssumption ==
  /\ BlockSize \in Nat \ {0}
  /\ MaxFrames \in Nat
  /\ MaxProduced \in Nat

VARIABLES
  produced,   \* samples the runtime has produced, numbered from 1
  ring,       \* the samples that wait in the ring of each stream's adapter
  heard,      \* history: the samples that were handed to a device
  overlapped  \* history: the last restart built its stream beside a sounding one

sampleVars == <<produced, ring, heard>>
handoverVars == <<vars, sampleVars, overlapped>>

HandoverInit ==
  /\ Init /\ PlayHandle
  /\ produced = 0
  /\ ring = [s \in Streams |-> {}]
  /\ heard = {}
  /\ overlapped = FALSE

\* A stream that plays or may play, or a callback on its way.
Sounding(s) == streams[s] \in Open \/ cb[s] # "out"

-----------------------------------------------------------------------------
\* The fill closures.

\* Mutant: a block is pulled before the ring is looked at.
PulledAhead(s, n) ==
  produced + 1 .. produced + BlockSize * (1 + (n \div BlockSize))

\* The blocks pulled for n frames: none if the ring has enough.
Pulled(s, n) ==
  LET missing == n - Cardinality(ring[s])
      blocks == IF missing <= 0 THEN 0 ELSE (missing + BlockSize - 1) \div BlockSize
  IN  produced + 1 .. produced + blocks * BlockSize

\* The first n samples of a set.
Earliest(samples, n) == {x \in samples : Cardinality({y \in samples : y < x}) < n}

\* The ring is served first: what it holds is older than any new block.
Serve(s, n) ==
  LET available == ring[s] \cup Pulled(s, n)
      served == Earliest(available, n)
  IN  /\ produced' = produced + Cardinality(Pulled(s, n))
      /\ heard' = heard \cup served
      /\ ring' = [ring EXCEPT ![s] = available \ served]

FillServes(s) == FillOk(s) /\ \E n \in 0 .. MaxFrames : Serve(s, n)

\* A pull fails, which happens when the ring is empty: what the ring held and the
\* blocks pulled before are written over with silence.
FillBreaks(s) ==
  /\ FillFails(s)
  /\ \E k \in 0 .. MaxFrames :
       /\ Cardinality(ring[s]) + k * BlockSize < MaxFrames
       /\ produced' = produced + k * BlockSize
  /\ ring' = [ring EXCEPT ![s] = {}]
  /\ UNCHANGED heard

-----------------------------------------------------------------------------
\* The steps that make and drop adapters.

\* Mutant: restart clones the adapter of the stream it replaces.
ClonedAdapter(s) ==
  ring' = [ring EXCEPT ![s] = IF stream = NoStream THEN {} ELSE ring[stream]]

NewAdapter(s) == ring' = [ring EXCEPT ![s] = {}]

Rebuild ==
  /\ RestartBuild
  /\ NewAdapter(fresh')
  /\ overlapped' = (stream # NoStream /\ Sounding(stream))
  /\ UNCHANGED <<produced, heard>>

\* Mutant: the ring of a dropped stream lives on.
DiscardNothing(s) == UNCHANGED ring

\* The ring goes with the stream.
Discard(s) == ring' = IF s = NoStream THEN ring ELSE [ring EXCEPT ![s] = {}]

Release ==
  /\ \/ (RecoverJoin \/ RestartJoin \/ DropJoin) /\ Discard(stream)
     \/ RestartAbandon /\ Discard(fresh)
  /\ UNCHANGED <<produced, heard, overlapped>>

-----------------------------------------------------------------------------

Application ==
  \/ StartPlay \/ StartRuns \/ StopPause \/ StopState
  \/ RecoverDrop \/ RecoverErrorFlag \/ RecoverFlag \/ RecoverCheck
  \/ Restart \/ RestartCheck \/ RestartBuildFails \/ RestartPlay \/ RestartPlayFails
  \/ RestartInstall \/ RestartState \/ Drop

Callback(s) ==
  \/ Begin(s) /\ produced < MaxProduced
  \/ Oversize(s) \/ LoadState(s) \/ LockStore(s)
  \/ RaiseErrorFlag(s) \/ RaiseRecovery(s) \/ SilenceError(s) \/ Return(s)
  \/ ErrorCallback(s)

HandoverNext ==
  \/ Rebuild \/ Release
  \/ (\E s \in Streams : FillServes(s) \/ FillBreaks(s)) /\ UNCHANGED overlapped
  \/ /\ Application \/ DeviceLost \/ DeviceBack \/ \E s \in Streams : Callback(s)
     /\ UNCHANGED <<sampleVars, overlapped>>

HandoverSpec == HandoverInit /\ [][HandoverNext]_handoverVars

-----------------------------------------------------------------------------

(* The type invariant: samples are numbers of the runtime's stream, and only a stream
   that exists has some waiting. *)
HandoverTypeOK ==
  /\ produced \in Nat
  /\ ring \in [Streams -> SUBSET (1 .. produced)]
  /\ heard \subseteq 1 .. produced
  /\ overlapped \in BOOLEAN
  /\ \A s \in Streams : streams[s] = "none" => ring[s] = {}

(* No sample is played twice, whatever streams take part in playing: none that waits in
   one stream's adapter was heard or waits in another's. *)
NoRepeat ==
  \A s \in Streams :
    /\ ring[s] \cap heard = {}
    /\ \A t \in Streams \ {s} : ring[s] \cap ring[t] = {}

\* The samples that were produced and will never be heard.
Lost == (1 .. produced) \ (heard \cup UNION {ring[s] : s \in Streams})

(* The runtime's stream has a gap only where a fill failed or a stream was dropped, and
   dropping one costs less than a block: stop and start, a lost device and a restart
   that builds nothing cost no sample. *)
LossBounded ==
  [][\/ Lost' = Lost
     \/ \E s \in Streams : cb[s] = "fill" /\ cb'[s] = "raise"
     \/ /\ \E s \in Streams : streams[s] # "none" /\ streams'[s] = "none"
        /\ Lost \subseteq Lost'
        /\ Cardinality(Lost' \ Lost) < BlockSize]_handoverVars

(* What is still to be played is later than all that was heard, across every recover.
   Not so when restart builds a stream beside one that still sounds: both draw blocks
   from the runtime in turn, and what waits in one is played after the other's. *)
InOrder ==
  ~overlapped =>
    \A s \in Streams : Sounding(s) => \A x \in ring[s], y \in heard : y < x
=============================================================================
