---------------------------- MODULE Negotiation ----------------------------
(***************************************************************************)
(* How an output stream gets its device, its rate and its configuration    *)
(* (device_management.rs and the constructors of stream_controller.rs).    *)
(* A constructor takes a device, negotiates a rate with the default device *)
(* and asks its own device for a stereo F32 stream at that rate; restart   *)
(* asks whatever is the default device by then for the rate that was       *)
(* negotiated at first.  Each of these is a query of its own, and devices  *)
(* may be plugged in or out, reconfigured or made the default between      *)
(* them.                                                                   *)
(*                                                                         *)
(* A device offers ranges of rates, each with its channels and its sample  *)
(* format; a device that offers nothing is one that is not there.  Both    *)
(* queries make of a range one configuration, at its highest rate.         *)
(***************************************************************************)
EXTENDS Integers

CONSTANTS Devices,       \* the devices of the host
          None,          \* no device, or no stream
          Offers,        \* the sets of ranges a device may offer
          RuntimeRates   \* the rates a runtime may have

ASSUME NegotiationAssumption ==
  /\ None \notin Devices
  /\ \A ranges \in Offers :
       /\ ranges \subseteq [channels : Nat \ {0}, format : {"F32", "I16"},
                            low : Nat \ {0}, high : Nat \ {0}]
       /\ \A range \in ranges : range.low <= range.high
  /\ RuntimeRates \subseteq Nat \ {0}

VARIABLES
  offers,        \* the host: what each device offers
  default,       \* the host: the default output device
  pc,            \* where the application's call is
  call,          \* the call in progress, or the last one
  device,        \* the device of the call
  runtime_rate,
  device_rate,   \* the rate negotiated by the constructor
  store,         \* whether the RuntimeHandle is kept for restarts
  stream,        \* the open stream with the rates its adapter was made for
  built,         \* the stream that restart has built and not yet played
  result,        \* how the last call ended
  steady         \* history: the host is as it was when the constructor began

hostVars == <<offers, default>>
streamVars == <<stream, built>>
vars == <<hostVars, pc, call, device, runtime_rate, device_rate, store, streamVars,
          result, steady>>

\* Mutant: the search for a configuration does not look at the channels.
PlayableInMono(config) == config.format = "F32"

Playable(config) == config.channels = 2 /\ config.format = "F32"

StereoRates(configs) == {config.rate : config \in {c \in configs : Playable(c)}}
AnyRates(configs) == {config.rate : config \in {c \in configs : c.format = "F32"}}

Distance(a, b) == IF a <= b THEN b - a ELSE a - b

\* Mutant: the highest rate wins.
NearestHighest(rates, requested) == {r \in rates : \A s \in rates : s <= r}

\* The rates of min_by_key: the first of equally near ones depends on the host's order.
Nearest(rates, requested) ==
  {r \in rates : \A s \in rates : Distance(r, requested) <= Distance(s, requested)}

\* Mutant: the search for the nearest rate does not ask for two channels.
BestOfAnyWidth(configs, requested) ==
  IF requested \in StereoRates(configs) THEN {requested}
  ELSE Nearest(AnyRates(configs), requested)

\* What get_best_sample_rate may return for a device; nothing if it is an error.
BestRates(configs, requested) ==
  IF requested \in StereoRates(configs) THEN {requested}
  ELSE IF StereoRates(configs) # {} THEN Nearest(StereoRates(configs), requested)
  ELSE AnyRates(configs)

\* The adapter of a stream: equal rates are passed through, others converted.
Adapter(input, output) ==
  IF input # output THEN [input |-> input, output |-> output]
                    ELSE [input |-> 1, output |-> 1]

\* Mutant: the search for a configuration forgets the rate.
AnySuitable(configs, rate) == {config \in configs : Playable(config)}

Suitable(configs, rate) == {config \in configs : Playable(config) /\ config.rate = rate}

Ranges(d) == IF d = None THEN {} ELSE offers[d]

\* with_max_sample_rate
AtHighest(range) ==
  [channels |-> range.channels, format |-> range.format, rate |-> range.high]

\* supported_configs
Configs(d) == {AtHighest(range) : range \in Ranges(d)}

Init ==
  /\ offers \in [Devices -> Offers]
  /\ default \in Devices \cup {None}
  /\ pc = "new"
  /\ call = "none"
  /\ device = None
  /\ runtime_rate \in RuntimeRates
  /\ device_rate = 0
  /\ store \in BOOLEAN
  /\ stream = None
  /\ built = None
  /\ result = "none"
  /\ steady = TRUE

-----------------------------------------------------------------------------
\* The constructors.

Goto(from, to) == pc = from /\ pc' = to

\* play, play_handle and their variants with a channel map.
PlayDefault ==
  /\ call' = "play"
  /\ device' = default

\* play_on_device, play_on_device_by_name, play_handle_on_device, play_duplex; None
\* if there is no such device.
PlayChosen ==
  /\ call' = "play_on"
  /\ device' \in {d \in Devices : offers[d] # {}} \cup {None}

Play ==
  /\ PlayDefault \/ PlayChosen
  /\ IF device' = None THEN Goto("new", "closed") /\ result' = "error"
                       ELSE Goto("new", "negotiate") /\ UNCHANGED result
  /\ steady' = TRUE
  /\ UNCHANGED <<hostVars, runtime_rate, device_rate, store, streamVars>>

\* get_best_sample_rate asks the default device, whichever device is played on;
\* an error leaves the runtime's rate.
Negotiate ==
  /\ Goto("negotiate", "build")
  /\ LET best == BestRates(Configs(default), runtime_rate)
     IN  IF best = {} THEN device_rate' = runtime_rate ELSE device_rate' \in best
  /\ UNCHANGED <<hostVars, call, device, runtime_rate, store, streamVars, result, steady>>

\* What build_output_stream may open.
Buildable ==
  {[device |-> device, rate |-> config.rate, channels |-> config.channels,
    adapter |-> Adapter(runtime_rate, device_rate)] :
      config \in Suitable(Configs(device), device_rate)}

Build ==
  /\ Goto("build", "open")
  /\ stream' \in Buildable
  /\ result' = "ok"
  /\ UNCHANGED <<hostVars, call, device, runtime_rate, device_rate, store, built, steady>>

\* "No suitable config": the constructor returns no controller.
BuildFails ==
  /\ Goto("build", "closed")
  /\ Buildable = {}
  /\ result' = "error"
  /\ UNCHANGED <<hostVars, call, device, runtime_rate, device_rate, store, streamVars,
                 steady>>

-----------------------------------------------------------------------------
\* restart, called by the application or by recover, which drops the stream first.

Restart ==
  /\ store
  /\ \/ call' = "restart" /\ UNCHANGED stream
     \/ call' = "recover" /\ stream' = None
  /\ Goto("open", "reopen")
  /\ UNCHANGED <<hostVars, device, runtime_rate, device_rate, store, built, result, steady>>

\* The legacy path: restart returns an error, recover just stops.
RestartRefused ==
  /\ ~store
  /\ \/ call' = "restart" /\ result' = "refused" /\ UNCHANGED stream
     \/ call' = "recover" /\ result' = "ok" /\ stream' = None
  /\ pc = "open"
  /\ UNCHANGED <<hostVars, pc, device, runtime_rate, device_rate, store, built, steady>>

RestartDevice ==
  /\ device' = default
  /\ IF default = None THEN Goto("reopen", "open") /\ result' = "error"
                       ELSE Goto("reopen", "rebuild") /\ UNCHANGED result
  /\ UNCHANGED <<hostVars, call, runtime_rate, device_rate, store, streamVars, steady>>

RestartBuild ==
  /\ Goto("rebuild", "replay")
  /\ built' \in Buildable
  /\ UNCHANGED <<hostVars, call, device, runtime_rate, device_rate, store, stream, result,
                 steady>>

RestartBuildFails ==
  /\ Goto("rebuild", "open")
  /\ Buildable = {}
  /\ result' = "error"
  /\ UNCHANGED <<hostVars, call, device, runtime_rate, device_rate, store, streamVars,
                 steady>>

RestartPlays ==
  /\ Goto("replay", "open")
  /\ stream' = built
  /\ built' = None
  /\ result' = "ok"
  /\ UNCHANGED <<hostVars, call, device, runtime_rate, device_rate, store, steady>>

\* cpal: play fails on a device that has changed since the stream was built.
RestartPlayFails ==
  /\ Goto("replay", "open")
  /\ Buildable = {}
  /\ built' = None
  /\ result' = "error"
  /\ UNCHANGED <<hostVars, call, device, runtime_rate, device_rate, store, stream, steady>>

-----------------------------------------------------------------------------
\* The host: any device may change, and any may become the default.

Reconfigure(d, ranges) ==
  /\ ranges # offers[d]
  /\ offers' = [offers EXCEPT ![d] = ranges]
  /\ steady' = FALSE
  /\ UNCHANGED <<default, pc, call, device, runtime_rate, device_rate, store, streamVars,
                 result>>

ChangeDefault(d) ==
  /\ d # default
  /\ default' = d
  /\ steady' = FALSE
  /\ UNCHANGED <<offers, pc, call, device, runtime_rate, device_rate, store, streamVars,
                 result>>

-----------------------------------------------------------------------------

Construct == Play \/ Negotiate \/ Build \/ BuildFails

Reopen == \/ Restart \/ RestartRefused \/ RestartDevice
          \/ RestartBuild \/ RestartBuildFails \/ RestartPlays \/ RestartPlayFails

Host == \/ \E d \in Devices, ranges \in Offers : Reconfigure(d, ranges)
        \/ \E d \in Devices \cup {None} : ChangeDefault(d)

Next == Construct \/ Reopen \/ Host

Spec == Init /\ [][Next]_vars

-----------------------------------------------------------------------------

Stream == [device : Devices, rate : Nat \ {0}, channels : {2},
           adapter : [input : Nat \ {0}, output : Nat \ {0}]]

(* The type invariant: every stream, the one being restarted included, has the two
   channels that the fill closures assume. *)
TypeOK ==
  /\ offers \in [Devices -> Offers]
  /\ default \in Devices \cup {None}
  /\ pc \in {"new", "negotiate", "build", "open", "reopen", "rebuild", "replay", "closed"}
  /\ call \in {"none", "play", "play_on", "restart", "recover"}
  /\ device \in Devices \cup {None}
  /\ runtime_rate \in RuntimeRates
  /\ device_rate \in Nat
  /\ store \in BOOLEAN
  /\ stream \in Stream \cup {None}
  /\ built \in Stream \cup {None}
  /\ result \in {"none", "ok", "error", "refused"}
  /\ steady \in BOOLEAN

(* Whatever device a stream ends up on, and whenever the host changed in between, it
   sounds at the right pitch: the adapter converts from the runtime's rate to just
   the rate the stream runs at. *)
RightPitch ==
  stream # None =>
    runtime_rate * stream.adapter.output = stream.rate * stream.adapter.input

(* A stream on the default device runs at the nearest to the runtime's rate among the
   highest rates of the stereo ranges that the device offers, also after any number of
   restarts, as long as the host stays as it is.  That is "the nearest supported rate"
   of get_best_sample_rate's comment on a device whose ranges are single rates only: a
   rate below the end of a range is never found, however near it is, nor if it is the
   runtime's own. *)
NearestHighEnd ==
  steady /\ stream # None /\ stream.device = default =>
    \A range \in Ranges(default) :
      Playable(range) =>
        Distance(stream.rate, runtime_rate) <= Distance(range.high, runtime_rate)

(* While the host stays as it is, neither playing on the default device nor
   restarting a stream that was opened on it fails, if only the device offers any
   stereo F32 configuration: negotiation and search agree with each other. *)
DefaultPlayable ==
  steady /\ result = "error" /\ device = default => StereoRates(Configs(default)) = {}
=============================================================================
