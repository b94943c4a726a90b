------------------------- MODULE NegotiationProofs -------------------------
(***************************************************************************)
(* Proofs about Negotiation for any devices, any sets of configurations,   *)
(* infinite ones included, and any runtime rates.                          *)
(***************************************************************************)
EXTENDS Negotiation, WellFoundedInduction, TLAPS

-----------------------------------------------------------------------------
\* What the searches return.

LEMMA ConfigTypes ==
  ASSUME TypeOK, NEW d \in Devices \cup {None}, NEW config \in Configs(d)
  PROVE  config.channels \in Nat \ {0} /\ config.rate \in Nat \ {0}
<1>1. PICK range \in Ranges(d) : config = AtHighest(range)
  BY DEF Configs
<1>2. offers[d] \in Offers /\ range \in offers[d]
  BY <1>1 DEF TypeOK, Ranges
<1>3. range.channels \in Nat \ {0} /\ range.high \in Nat \ {0}
  BY <1>2, NegotiationAssumption
<1> QED
  BY <1>1, <1>3 DEF AtHighest

LEMMA RateTypes ==
  ASSUME TypeOK, NEW d \in Devices \cup {None}
  PROVE  /\ StereoRates(Configs(d)) \subseteq Nat \ {0}
         /\ AnyRates(Configs(d)) \subseteq Nat \ {0}
BY ConfigTypes DEF StereoRates, AnyRates

LEMMA BestRatesTypes ==
  ASSUME TypeOK, NEW d \in Devices \cup {None}
  PROVE  BestRates(Configs(d), runtime_rate) \subseteq Nat \ {0}
BY RateTypes DEF BestRates, Nearest

\* Negotiation finds a rate, and a stereo one, wherever there is a stereo one.
LEMMA StereoNegotiated ==
  ASSUME TypeOK, NEW d \in Devices \cup {None}, StereoRates(Configs(d)) # {}
  PROVE  /\ BestRates(Configs(d), runtime_rate) # {}
         /\ BestRates(Configs(d), runtime_rate) \subseteq StereoRates(Configs(d))
<1> DEFINE rates == StereoRates(Configs(d))
           distances == {Distance(r, runtime_rate) : r \in rates}
<1>1. rates \subseteq Nat /\ runtime_rate \in Nat
  BY RateTypes, NegotiationAssumption DEF TypeOK
<1>2. distances \in SUBSET Nat /\ distances # {}
  BY <1>1 DEF Distance
<1>3. PICK n \in distances : \A m \in distances : n <= m
  <2>1. PICK n \in distances : \A m \in distances : <<m, n>> \notin OpToRel(<, Nat)
    BY <1>2, NatLessThanWellFounded, WFMin
  <2>2. ASSUME NEW m \in distances PROVE ~(m < n)
    <3>1. <<m, n>> \in Nat \X Nat
      BY <1>2
    <3>2. m < n => <<m, n>> \in OpToRel(<, Nat)
      BY <3>1, Zenon DEF OpToRel
    <3> QED
      BY <2>1, <3>2
  <2> QED
    BY <1>2, <2>2
<1>4. PICK r \in rates : n = Distance(r, runtime_rate)
  BY <1>3
<1>5. r \in Nearest(rates, runtime_rate)
  BY <1>3, <1>4 DEF Nearest
<1> QED
  BY <1>5 DEF BestRates, Nearest

LEMMA BuildableTypes ==
  ASSUME TypeOK, NEW s \in Buildable
  PROVE  /\ s \in Stream
         /\ s.rate = device_rate
         /\ s.adapter = Adapter(runtime_rate, device_rate)
<1>1. PICK config \in Suitable(Configs(device), device_rate) :
        s = [device |-> device, rate |-> config.rate, channels |-> config.channels,
             adapter |-> Adapter(runtime_rate, device_rate)]
  BY DEF Buildable
<1>2. /\ config \in Configs(device)
      /\ config.channels = 2
      /\ config.rate = device_rate
  BY <1>1 DEF Suitable, Playable
<1>3. device \in Devices
  BY <1>2 DEF TypeOK, Configs, Ranges
<1>4. device_rate \in Nat \ {0} /\ runtime_rate \in Nat \ {0}
  BY <1>2, <1>3, ConfigTypes, NegotiationAssumption DEF TypeOK
<1> QED
  BY <1>1, <1>2, <1>3, <1>4 DEF Stream, Adapter

-----------------------------------------------------------------------------
\* The inductive invariant.

\* Streams exist only behind the constructor, and their rates are the negotiated ones.
Matched ==
  /\ pc \in {"new", "negotiate", "build", "closed"} => stream = None
  /\ pc # "replay" => built = None
  /\ \A s \in {stream, built} \ {None} :
       /\ s.rate = device_rate
       /\ s.adapter = Adapter(runtime_rate, device_rate)

Negotiated(rate) ==
  LET best == BestRates(Configs(default), runtime_rate)
  IN  IF best = {} THEN rate = runtime_rate ELSE rate \in best

\* While the host is steady, the rate is what negotiation would return again and restart
\* is about to reopen the default device.
SteadyRate ==
  steady =>
    /\ pc \in {"build", "open", "reopen", "rebuild", "replay"} => Negotiated(device_rate)
    /\ pc \in {"rebuild", "replay"} => device = default

\* The call that failed last was refused by a default device without stereo; a
\* constructor may have been refused by another one.
FailureExplained ==
  /\ pc \in {"new", "negotiate", "build"} => result = "none"
  /\ steady /\ result = "error" /\ (pc = "closed" => device = default)
       => StereoRates(Configs(default)) = {}

IInv == TypeOK /\ Matched /\ SteadyRate /\ FailureExplained

LEMMA InitIInv == Init => IInv
<1> SUFFICES ASSUME Init PROVE IInv
  OBVIOUS
<1>1. TypeOK
  BY NegotiationAssumption DEF Init, TypeOK
<1>2. Matched /\ SteadyRate /\ FailureExplained
  BY DEF Init, Matched, SteadyRate, FailureExplained
<1> QED
  BY <1>1, <1>2 DEF IInv

-----------------------------------------------------------------------------
\* The types and the rates of streams.

LEMMA TypeStep == TypeOK /\ Matched /\ [Next]_vars => TypeOK' /\ Matched'
<1> SUFFICES ASSUME TypeOK, Matched, [Next]_vars PROVE TypeOK' /\ Matched'
  OBVIOUS
<1> USE DEF Goto, hostVars, streamVars
<1>1. CASE Play
  BY <1>1 DEF Play, PlayDefault, PlayChosen, TypeOK, Matched
<1>2. CASE Negotiate
  <2>1. BestRates(Configs(default), runtime_rate) \subseteq Nat \ {0}
    BY BestRatesTypes DEF TypeOK
  <2>2. device_rate' \in Nat
    BY <1>2, <2>1, NegotiationAssumption DEF Negotiate, TypeOK
  <2> QED
    BY <1>2, <2>2 DEF Negotiate, TypeOK, Matched
<1>3. CASE Build
  BY <1>3, BuildableTypes DEF Build, TypeOK, Matched
<1>4. CASE BuildFails
  BY <1>4 DEF BuildFails, TypeOK, Matched
<1>5. CASE Restart
  BY <1>5 DEF Restart, TypeOK, Matched
<1>6. CASE RestartRefused
  BY <1>6 DEF RestartRefused, TypeOK, Matched
<1>7. CASE RestartDevice
  BY <1>7 DEF RestartDevice, TypeOK, Matched
<1>8. CASE RestartBuild
  BY <1>8, BuildableTypes DEF RestartBuild, TypeOK, Matched
<1>9. CASE RestartBuildFails
  BY <1>9 DEF RestartBuildFails, TypeOK, Matched
<1>10. CASE RestartPlays
  BY <1>10 DEF RestartPlays, TypeOK, Matched
<1>11. CASE RestartPlayFails
  BY <1>11 DEF RestartPlayFails, TypeOK, Matched
<1>12. ASSUME NEW d \in Devices, NEW ranges \in Offers, Reconfigure(d, ranges)
       PROVE  TypeOK' /\ Matched'
  BY <1>12 DEF Reconfigure, TypeOK, Matched
<1>13. ASSUME NEW d \in Devices \cup {None}, ChangeDefault(d)
       PROVE  TypeOK' /\ Matched'
  BY <1>13 DEF ChangeDefault, TypeOK, Matched
<1>14. CASE UNCHANGED vars
  BY <1>14 DEF vars, TypeOK, Matched
<1> QED
  BY <1>1, <1>2, <1>3, <1>4, <1>5, <1>6, <1>7, <1>8, <1>9, <1>10, <1>11, <1>12, <1>13,
     <1>14 DEF Next, Construct, Reopen, Host

-----------------------------------------------------------------------------
\* While the host is steady.

\* The search fails on the default device only if it offers nothing in stereo.
LEMMA RefusedWithoutStereo ==
  ASSUME TypeOK, device = default, Negotiated(device_rate), Buildable = {}
  PROVE  StereoRates(Configs(default)) = {}
<1> SUFFICES ASSUME StereoRates(Configs(default)) # {} PROVE FALSE
  OBVIOUS
<1>1. device_rate \in StereoRates(Configs(default))
  BY StereoNegotiated DEF TypeOK, Negotiated
<1>2. Suitable(Configs(device), device_rate) # {}
  BY <1>1 DEF StereoRates, Suitable
<1> QED
  BY <1>2 DEF Buildable

LEMMA NoDeviceNoStereo == default = None => StereoRates(Configs(default)) = {}
BY DEF Configs, Ranges, StereoRates

LEMMA SteadyStep == IInv /\ [Next]_vars => SteadyRate' /\ FailureExplained'
<1> SUFFICES ASSUME IInv, [Next]_vars PROVE SteadyRate' /\ FailureExplained'
  OBVIOUS
<1> USE DEF Goto, hostVars, streamVars, IInv, SteadyRate, FailureExplained, Negotiated,
            Configs, Ranges
<1>1. CASE Play
  BY <1>1, NoDeviceNoStereo DEF Play, PlayDefault, PlayChosen, TypeOK
<1>2. CASE Negotiate
  BY <1>2 DEF Negotiate
<1>3. CASE Build
  BY <1>3 DEF Build
<1>4. CASE BuildFails
  BY <1>4, RefusedWithoutStereo DEF BuildFails
<1>5. CASE Restart
  BY <1>5 DEF Restart
<1>6. CASE RestartRefused
  BY <1>6 DEF RestartRefused
<1>7. CASE RestartDevice
  BY <1>7, NoDeviceNoStereo DEF RestartDevice
<1>8. CASE RestartBuild
  BY <1>8 DEF RestartBuild
<1>9. CASE RestartBuildFails
  BY <1>9, RefusedWithoutStereo DEF RestartBuildFails
<1>10. CASE RestartPlays
  BY <1>10 DEF RestartPlays
<1>11. CASE RestartPlayFails
  BY <1>11, RefusedWithoutStereo DEF RestartPlayFails
<1>12. ASSUME NEW d \in Devices, NEW ranges \in Offers, Reconfigure(d, ranges)
       PROVE  SteadyRate' /\ FailureExplained'
  BY <1>12 DEF Reconfigure
<1>13. ASSUME NEW d \in Devices \cup {None}, ChangeDefault(d)
       PROVE  SteadyRate' /\ FailureExplained'
  BY <1>13 DEF ChangeDefault
<1>14. CASE UNCHANGED vars
  BY <1>14 DEF vars
<1> QED
  BY <1>1, <1>2, <1>3, <1>4, <1>5, <1>6, <1>7, <1>8, <1>9, <1>10, <1>11, <1>12, <1>13,
     <1>14 DEF Next, Construct, Reopen, Host

LEMMA Invariance == Spec => []IInv
<1>1. IInv /\ [Next]_vars => IInv'
  BY TypeStep, SteadyStep DEF IInv
<1> QED
  BY InitIInv, <1>1, PTL DEF Spec

-----------------------------------------------------------------------------

(* Every stream that is opened has two channels, on whatever device. *)
THEOREM NegotiationTypeCorrect == Spec => []TypeOK
<1>1. IInv => TypeOK
  BY DEF IInv
<1> QED
  BY Invariance, <1>1, PTL

(* The adapter of the open stream converts from the runtime's rate to the stream's,
   across every restart and however the host changes. *)
THEOREM PitchAlwaysRight == Spec => []RightPitch
<1>1. IInv => RightPitch
  <2> SUFFICES ASSUME IInv, stream # None
               PROVE  runtime_rate * stream.adapter.output
                        = stream.rate * stream.adapter.input
    BY DEF RightPitch
  <2>1. /\ stream.rate = device_rate
        /\ stream.adapter = Adapter(runtime_rate, device_rate)
    BY DEF IInv, Matched
  <2>2. runtime_rate \in Nat /\ device_rate \in Nat
    BY NegotiationAssumption DEF IInv, TypeOK
  <2>3. runtime_rate * device_rate = device_rate * runtime_rate
    BY <2>2
  <2> QED
    BY <2>1, <2>2, <2>3 DEF Adapter
<1> QED
  BY Invariance, <1>1, PTL

(* The rate of a stream on the default device is the nearest among the highest rates of
   the stereo ranges it offers, as long as the host stays as it is. *)
THEOREM RateIsNearestHighEnd == Spec => []NearestHighEnd
<1>1. IInv => NearestHighEnd
  <2> SUFFICES ASSUME IInv, steady, stream # None,
                      NEW range \in Ranges(default), Playable(range)
               PROVE  Distance(stream.rate, runtime_rate) <= Distance(range.high, runtime_rate)
    BY DEF NearestHighEnd
  <2>1. stream.rate = device_rate /\ Negotiated(device_rate)
    BY DEF IInv, Matched, SteadyRate, TypeOK
  <2>2. range.high \in StereoRates(Configs(default))
    <3>1. AtHighest(range) \in Configs(default)
      BY DEF Configs
    <3>2. Playable(AtHighest(range)) /\ AtHighest(range).rate = range.high
      BY DEF Playable, AtHighest
    <3> QED
      BY <3>1, <3>2 DEF StereoRates
  <2>3. device_rate \in BestRates(Configs(default), runtime_rate)
    BY <2>1, <2>2, StereoNegotiated DEF IInv, TypeOK, Negotiated
  <2>4. range.high \in Nat /\ runtime_rate \in Nat
    BY <2>2, RateTypes, NegotiationAssumption DEF IInv, TypeOK
  <2> QED
    BY <2>1, <2>2, <2>3, <2>4 DEF BestRates, Nearest, Distance
<1> QED
  BY Invariance, <1>1, PTL

(* Playing on the default device and restarting there fail only if it offers nothing in
   stereo, as long as the host stays as it is. *)
THEOREM DefaultAlwaysPlayable == Spec => []DefaultPlayable
<1>1. IInv => DefaultPlayable
  BY DEF IInv, FailureExplained, DefaultPlayable
<1> QED
  BY Invariance, <1>1, PTL
=============================================================================
