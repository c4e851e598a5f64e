----------------------------- MODULE KeyHandler -----------------------------
(***************************************************************************)
(* The device key handler, DeviceParts/.../KeyHandler.java: which sensors  *)
(* listen while the display is off, when an ambient display pulse is       *)
(* launched, which gestures the proximity check blocks, and the torch      *)
(* behind the alert slider.                                                *)
(*                                                                         *)
(* Settings changes, display broadcasts, sensor events, slider events and  *)
(* gestures arrive on different threads and in any order.  External: the   *)
(* settings provider, which posts onChange; the display, whose broadcasts  *)
(* are delivered in order; the sensor, which reports its value to a new    *)
(* listener and then every change; the status bar, which owns the torch.   *)
(***************************************************************************)
EXTENDS Naturals, Sequences

CONSTANTS
  config_proxiSensorWakupCheck,        \* resource of the device
  MaxEvent       \* bound: changes of settings, display, sensor, slider, torch

ASSUME KeyHandlerAssumption ==
  /\ config_proxiSensorWakupCheck \in BOOLEAN
  /\ MaxEvent \in Nat

Feature == {"tilt", "wave", "pocket"}
Uri == {"proxi_check", "double_tap", "features"}
Listener == {"proxi", "pocket", "tilt"}
Age == {"wave", "between", "pocket"}   \* delta < 1 s, up to 5 s, above

VARIABLES
  proxi_check, double_tap, features,   \* the stored settings; features: its parts
  posted,                              \* onChange calls posted to mHandler
  broadcasts,                          \* SCREEN_ON and SCREEN_OFF in flight
  display,                             \* what the display is
  mDispOn, mUseProxiCheck, mDoubleTapToWake, mUse,   \* mUse: mUse...Check
  listeners, told,                     \* registered; those who know the value
  near, mProxyIsNear, mProxyWasNear,
  age,                                 \* of mProxySensorTimestamp
  slider,                              \* slider thread: idle, or in toggleTorch
  mToggleTorch, mTorchState, torch,
  events,                              \* bound
  pulse, seenNear, applied, dropped, lit, torn  \* ghosts, see below

settings == <<proxi_check, double_tap, features>>
screen == <<broadcasts, display, mDispOn>>
uses == <<mUseProxiCheck, mDoubleTapToWake, mUse>>
sensors == <<listeners, told, near, mProxyIsNear, mProxyWasNear, age>>
light == <<slider, mToggleTorch, mTorchState, torch, lit, torn>>
history == <<applied, dropped>>
vars == <<settings, posted, screen, uses, sensors, light, events, pulse, seenNear, history>>

(* The feature setting is a string of parts: none (it was never written),  *)
(* as many as an older version wrote, or all.  A part that is not there    *)
(* reads as off.                                                           *)
Written == {{}, {"tilt"}, {"tilt", "wave"}, Feature}
FeatureSetting == UNION {[parts -> BOOLEAN] : parts \in Written}
Enabled == {f \in DOMAIN features : features[f]}

Init ==                                \* the constructor
  /\ proxi_check \in BOOLEAN /\ double_tap \in BOOLEAN /\ features \in FeatureSetting
  /\ posted = {} /\ broadcasts = <<>> /\ display = "on" /\ mDispOn = TRUE
  \* update() runs before mProxiSensorWakupCheck is assigned
  /\ mUseProxiCheck = FALSE /\ mDoubleTapToWake = double_tap /\ mUse = Enabled
  /\ listeners = {} /\ told = {} /\ near \in BOOLEAN
  /\ mProxyIsNear = FALSE /\ mProxyWasNear = FALSE /\ age = "pocket"
  /\ slider = "idle" /\ mToggleTorch = FALSE /\ mTorchState = FALSE /\ torch = FALSE
  /\ events = 0
  /\ pulse = "none"         \* the cause of the pulse of this step
  /\ seenNear = FALSE       \* near reported to the pocket listener since display off
  /\ applied = FALSE        \* a setting was applied while the display was off,
                            \* in this period or (a listener is left) before
  /\ dropped = {}           \* listeners whose setting was switched off while
                            \* the display was off
  /\ lit = "none"           \* who turned the torch on
  /\ torn = FALSE           \* a torch call was lost, or raced with the slider

Event == events < MaxEvent /\ events' = events + 1

-----------------------------------------------------------------------------
(* The user changes a setting; the provider posts onChange.                *)
ChangeSetting ==
  /\ Event
  /\ \/ /\ proxi_check' = ~proxi_check /\ posted' = posted \cup {"proxi_check"}
        /\ UNCHANGED <<double_tap, features>>
     \/ /\ double_tap' = ~double_tap /\ posted' = posted \cup {"double_tap"}
        /\ UNCHANGED <<proxi_check, features>>
     \/ /\ \E f \in Feature :                     \* all parts are written
             features' = [g \in Feature |-> (g \in Enabled) # (g = f)]
        /\ posted' = posted \cup {"features"}
        /\ UNCHANGED <<proxi_check, double_tap>>
  /\ pulse' = "none"
  /\ UNCHANGED <<screen, uses, sensors, light, seenNear, history>>

\* Mutant: the proximity listener is not registered.
ListenersWithoutProxi ==
  {l \in Listener : \/ l = "pocket" /\ mUse \cap {"pocket", "wave"} # {}
                    \/ l = "tilt" /\ "tilt" \in mUse}
ListenersInUse ==
  {l \in Listener : \/ l = "proxi" /\ mUseProxiCheck
                    \/ l = "pocket" /\ mUse \cap {"pocket", "wave"} # {}
                    \/ l = "tilt" /\ "tilt" \in mUse}

update ==
  /\ mUseProxiCheck' = (proxi_check /\ config_proxiSensorWakupCheck)
  /\ mDoubleTapToWake' = double_tap
  /\ UNCHANGED mUse
\* Mutant: one part is read at the index of the next.
PartsShifted ==
  /\ mUse' = {IF f = "wave" THEN "single_tap" ELSE f : f \in Enabled}
  /\ UNCHANGED <<mUseProxiCheck, mDoubleTapToWake>>
updateDozeSettings ==                  \* an empty setting changes nothing
  /\ mUse' = IF DOMAIN features = {} THEN mUse ELSE Enabled
  /\ UNCHANGED <<mUseProxiCheck, mDoubleTapToWake>>

\* Mutant: onChange does not look at the uri.
OnChangeUpdates(uri) == update
OnChange(uri) == IF uri = "features" THEN updateDozeSettings ELSE update

onChange(uri) ==
  /\ uri \in posted
  /\ posted' = posted \ {uri}
  /\ OnChange(uri)
  /\ applied' = (applied \/ ~mDispOn)
  /\ dropped' = IF mDispOn THEN dropped ELSE dropped \cup (listeners \ ListenersInUse')
  /\ pulse' = "none"
  /\ UNCHANGED <<settings, screen, sensors, light, events, seenNear>>

-----------------------------------------------------------------------------
(* The display goes on or off; onReceive runs when the broadcast arrives.  *)
SwitchDisplay ==
  /\ Event
  /\ display' = IF display = "on" THEN "off" ELSE "on"
  /\ broadcasts' = Append(broadcasts, display')
  /\ pulse' = "none"
  /\ UNCHANGED <<settings, posted, mDispOn, uses, sensors, light, seenNear, history>>

\* Mutant: the pocket listener is kept when only the wave check is on.
KeepsPocketListener ==
  LET unused == IF "pocket" \in mUse THEN ListenersInUse ELSE ListenersInUse \ {"pocket"}
  IN  /\ listeners' = listeners \ unused /\ told' = told \ unused
      /\ dropped' = dropped \cap listeners'
      /\ UNCHANGED <<age, seenNear, applied>>
onDisplayOn ==
  /\ listeners' = listeners \ ListenersInUse
  /\ told' = told \ ListenersInUse
  /\ dropped' = dropped \cap listeners'
  /\ UNCHANGED <<age, seenNear, applied>>

\* Mutant: the timestamp is not set when the listener is registered.
AgeKept == age
AgeAtDisplayOff == IF "pocket" \in ListenersInUse THEN "wave" ELSE age

onDisplayOff ==
  /\ listeners' = listeners \cup ListenersInUse
  /\ told' = told \cap listeners
  /\ age' = AgeAtDisplayOff
  /\ seenNear' = FALSE /\ applied' = (listeners # {}) /\ UNCHANGED dropped

onReceive ==
  /\ broadcasts # <<>>
  /\ broadcasts' = Tail(broadcasts)
  /\ mDispOn' = (Head(broadcasts) = "on")
  /\ IF Head(broadcasts) = "on" THEN onDisplayOn ELSE onDisplayOff
  /\ pulse' = "none"
  /\ UNCHANGED <<settings, posted, display, uses, near, mProxyIsNear, mProxyWasNear,
                 light, events>>

-----------------------------------------------------------------------------
(* The object in front of the sensor comes or goes; time passes, and then  *)
(* every listener has been told the value (events take less than a second).*)
MoveObject ==
  /\ Event
  /\ near' = ~near /\ told' = {}
  /\ pulse' = "none"
  /\ UNCHANGED <<settings, posted, screen, uses, listeners, mProxyIsNear, mProxyWasNear,
                 age, light, seenNear, history>>

Wait ==
  /\ listeners \ {"tilt"} \subseteq told /\ age # "pocket"
  /\ age' = IF age = "wave" THEN "between" ELSE "pocket"
  /\ pulse' = "none"
  /\ UNCHANGED <<settings, posted, screen, uses, listeners, told, near, mProxyIsNear,
                 mProxyWasNear, light, events, seenNear, history>>

(* onSensorChanged of the three listeners.                                 *)
ProximityEvent ==
  /\ "proxi" \in listeners \ told
  /\ told' = told \cup {"proxi"}
  /\ mProxyIsNear' = near
  /\ pulse' = "none"
  /\ UNCHANGED <<settings, posted, screen, uses, listeners, near, mProxyWasNear, age,
                 light, events, seenNear, history>>

PulseFor(a) ==
  CASE mUse = {} -> "none"
    [] a = "wave" /\ "wave" \in mUse -> "wave"
    [] a = "pocket" /\ "pocket" \in mUse -> "pocket"
    [] OTHER -> "none"

PocketEvent ==
  /\ "pocket" \in listeners \ told
  /\ told' = told \cup {"pocket"}
  /\ IF mUse \cap {"pocket", "wave"} # {}
     THEN /\ pulse' = IF mProxyWasNear /\ ~near THEN PulseFor(age) ELSE "none"
          /\ age' = "wave" /\ mProxyWasNear' = near
     ELSE pulse' = "none" /\ UNCHANGED <<age, mProxyWasNear>>
  /\ seenNear' = (seenNear \/ near)
  /\ UNCHANGED <<settings, posted, screen, uses, listeners, near, mProxyIsNear, light,
                 events, history>>

TiltEvent ==
  /\ "tilt" \in listeners
  /\ pulse' = "tilt"
  /\ UNCHANGED <<settings, posted, screen, uses, sensors, light, events, seenNear, history>>

isDisabledKeyEvent == mProxyIsNear /\ mUseProxiCheck     \* of a checked gesture

-----------------------------------------------------------------------------
(* doHandleSliderAction for the action that the settings give to the new   *)
(* position: 4 is the flashlight.  The flags are set first ...             *)
nonLight == <<settings, posted, screen, uses, sensors, seenNear, history>>

Flag(state) ==
  mToggleTorch' = TRUE /\ mTorchState' = state /\ slider' = "toggleTorch"
Done == slider' = "idle" /\ UNCHANGED <<mToggleTorch, mTorchState>>

doHandleSliderAction(action) ==
  /\ slider = "idle" /\ Event
  /\ IF action = 4 THEN IF isDisabledKeyEvent THEN Done ELSE Flag(TRUE)
                   ELSE IF mTorchState THEN Flag(FALSE) ELSE Done
  /\ pulse' = "none" /\ UNCHANGED <<nonLight, torch, lit, torn>>

(* ... then toggleTorch asks the status bar, which may not be there: for   *)
(* the state of the flags, or to toggle.                                   *)
\* Mutant: the status bar is always asked to toggle.
AskToggles == ~torch
Ask == IF mToggleTorch THEN mTorchState ELSE ~torch

toggleTorch(who) ==
  \/ /\ torch' = Ask /\ mToggleTorch' = FALSE
     /\ lit' = IF ~torch' THEN "none" ELSE IF torch THEN lit ELSE who
     /\ torn' = (torn \/ (who = "gesture" /\ slider # "idle"))
  \/ torn' = TRUE /\ UNCHANGED <<torch, mToggleTorch, lit>>

SliderToggles ==
  /\ slider = "toggleTorch" /\ slider' = "idle"
  /\ toggleTorch("slider")
  /\ pulse' = "none" /\ UNCHANGED <<nonLight, mTorchState, events>>

GestureToggles ==            \* launchSpecialActions, TORCH_ENTRY
  /\ Event /\ ~isDisabledKeyEvent
  /\ toggleTorch("gesture")
  /\ pulse' = "none" /\ UNCHANGED <<nonLight, slider, mTorchState>>

UserToggles ==               \* the tile of the status bar
  /\ Event
  /\ torch' = ~torch /\ lit' = IF torch' THEN "user" ELSE "none"
  /\ pulse' = "none" /\ UNCHANGED <<nonLight, slider, mToggleTorch, mTorchState, torn>>

Handler == onReceive \/ \E uri \in Uri : onChange(uri)

Next ==
  \/ ChangeSetting \/ SwitchDisplay \/ Handler
  \/ MoveObject \/ Wait \/ ProximityEvent \/ PocketEvent \/ TiltEvent
  \/ \E action \in {0, 4} : doHandleSliderAction(action)
  \/ SliderToggles \/ GestureToggles \/ UserToggles

Spec == Init /\ [][Next]_vars

(* Posted calls and broadcasts are delivered.                              *)
Fairness == WF_vars(onReceive) /\ \A uri \in Uri : WF_vars(onChange(uri))

-----------------------------------------------------------------------------
TypeOK ==
  /\ proxi_check \in BOOLEAN /\ double_tap \in BOOLEAN /\ features \in FeatureSetting
  /\ posted \subseteq Uri /\ broadcasts \in Seq({"on", "off"})
  /\ display \in {"on", "off"} /\ mDispOn \in BOOLEAN
  /\ mUseProxiCheck \in BOOLEAN /\ mDoubleTapToWake \in BOOLEAN /\ mUse \subseteq Feature
  /\ told \subseteq listeners /\ listeners \subseteq Listener
  /\ near \in BOOLEAN /\ mProxyIsNear \in BOOLEAN /\ mProxyWasNear \in BOOLEAN
  /\ age \in Age /\ slider \in {"idle", "toggleTorch"}
  /\ mToggleTorch \in BOOLEAN /\ mTorchState \in BOOLEAN /\ torch \in BOOLEAN
  /\ events \in Nat
  /\ pulse \in {"none", "wave", "pocket", "tilt"}
  /\ lit \in {"none", "slider", "gesture", "user"}
  /\ {seenNear, applied, torn} \subseteq BOOLEAN /\ dropped \subseteq Listener

(* While the display is on a sensor listens only if its setting was         *)
(* switched off while the display was off and it was not unregistered      *)
(* since: listeners are registered and unregistered by the settings of the *)
(* moment, so that one stays.  Every other change of settings, in any      *)
(* number of periods, leaves no listener.                                  *)
NothingListens == mDispOn => listeners \subseteq dropped

(* A pocket pulse means that something covered the sensor and went away    *)
(* while the display was off: what the sensor reported before the display  *)
(* was last on does not count -- unless a setting was applied while it was *)
(* off: a listener that is left hears the sensor also while it is on.      *)
PocketPulseIsRemoval == pulse = "pocket" /\ ~applied => seenNear

(* While the display is off and the settings stay as they are, a checked   *)
(* gesture is blocked when the sensor, settled, is covered, and only then, *)
(* whatever the sensor reported in earlier periods.                        *)
GateFollowsSensor ==
  ~mDispOn /\ ~applied /\ listeners \ {"tilt"} \subseteq told /\ mUseProxiCheck
    => (isDisabledKeyEvent <=> near)

(* A torch that the slider turned on is off once the slider has left the   *)
(* flashlight position, whatever gestures and the tile did to the torch,   *)
(* unless a call was lost or a gesture came in the middle of the slider's. *)
SliderTorchEnds == slider = "idle" /\ ~mTorchState /\ ~torn => lit # "slider"

(* The settings are applied in the end, and stay so (the proximity check   *)
(* apart, see ProximityCheckUsed).                                         *)
SettingsApplied == <>[](mUse = Enabled /\ mDoubleTapToWake = double_tap)

-----------------------------------------------------------------------------
(* res/values/strings.xml:36, the setting that is on by default: "Check    *)
(* proximity sensor for handling gestures".  (Refuted by a run: until one  *)
(* of the settings changes, the check is off.)                             *)
ProximityCheckUsed ==
  ~mDispOn /\ ~applied /\ posted = {} /\ listeners \ {"tilt"} \subseteq told
    /\ proxi_check /\ config_proxiSensorWakupCheck /\ near => isDisabledKeyEvent

=============================================================================
