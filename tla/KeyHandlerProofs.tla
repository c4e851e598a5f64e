-------------------------- MODULE KeyHandlerProofs --------------------------
(***************************************************************************)
(* Proofs about KeyHandler, for either value of the resource and any       *)
(* number of events.                                                       *)
(*                                                                         *)
(* The argument: as long as no setting is applied while the display is     *)
(* off, the registered listeners are those of the settings, or none        *)
(* (ListenInv); in every case, one that is not of the settings has lost    *)
(* its setting while the display was off (DropInv); who has been told the  *)
(* value knows it (GateInv); a covered sensor remembered from an earlier   *)
(* period is still young and not yet told (PocketInv); and the slider's    *)
(* thread owns the flag (SliderInv).                                       *)
(***************************************************************************)
EXTENDS KeyHandler, TLAPS

ListenInv ==
  ~applied => listeners = IF mDispOn THEN {} ELSE ListenersInUse

DropInv ==
  listeners \subseteq IF mDispOn THEN dropped ELSE ListenersInUse \cup dropped

GateInv == "proxi" \in told => mProxyIsNear = near

PocketInv ==
  ~applied /\ "pocket" \in listeners /\ mProxyWasNear /\ ~seenNear =>
    age = "wave" /\ "pocket" \notin told

SliderInv ==
  /\ ~torn => (slider = "toggleTorch" <=> mToggleTorch)
  /\ SliderTorchEnds

IInv == TypeOK /\ ListenInv /\ DropInv /\ GateInv /\ PocketInv /\ SliderInv /\ PocketPulseIsRemoval

-----------------------------------------------------------------------------
USE DEF Feature, Uri, Listener, Age

LEMMA ListenersType == ListenersInUse \subseteq Listener
BY DEF ListenersInUse

(* Whatever its parts, the setting enables features only.                  *)
LEMMA EnabledType ==
  ASSUME features \in FeatureSetting
  PROVE  Enabled \subseteq Feature
<1>1. PICK parts \in Written : features \in [parts -> BOOLEAN]
  BY DEF FeatureSetting
<1>2. parts \subseteq Feature /\ DOMAIN features = parts
  BY <1>1 DEF Written
<1> QED BY <1>2 DEF Enabled

LEMMA AllPartsWritten ==
  ASSUME NEW F \in [Feature -> BOOLEAN]
  PROVE  F \in FeatureSetting
<1>1. Feature \in Written
  BY DEF Written
<1> QED BY <1>1 DEF FeatureSetting

LEMMA EventType ==
  ASSUME TypeOK, Event
  PROVE  events' \in Nat
BY DEF TypeOK, Event

LEMMA InitOK == Init => IInv
<1> SUFFICES ASSUME Init PROVE IInv
  OBVIOUS
<1>1. broadcasts \in Seq({"on", "off"})
  BY DEF Init
<1>2. TypeOK
  <2>1. Enabled \subseteq Feature
    BY EnabledType DEF Init
  <2> QED BY <1>1, <2>1 DEF Init, TypeOK
<1>3. ListenInv /\ DropInv /\ GateInv /\ PocketInv
  BY DEF Init, ListenInv, DropInv, GateInv, PocketInv
<1>4. SliderInv /\ PocketPulseIsRemoval
  BY DEF Init, SliderInv, SliderTorchEnds, PocketPulseIsRemoval
<1> QED BY <1>2, <1>3, <1>4 DEF IInv

LEMMA ChangeSettingOK ==
  ASSUME IInv, ChangeSetting
  PROVE  IInv'
<1>1. TypeOK /\ pulse' = "none" /\ UNCHANGED <<screen, uses, sensors, light, seenNear, history>>
  BY DEF IInv, ChangeSetting
<1>2. /\ proxi_check' \in BOOLEAN /\ double_tap' \in BOOLEAN
      /\ posted' \subseteq Uri /\ features' \in FeatureSetting
  <2>1. features' \in [Feature -> BOOLEAN] \/ features' = features
    BY DEF ChangeSetting
  <2>2. features' \in FeatureSetting
    BY <1>1, <2>1, AllPartsWritten DEF TypeOK
  <2> QED BY <1>1, <2>2 DEF TypeOK, ChangeSetting
<1>3. TypeOK'
  BY <1>1, <1>2, EventType DEF TypeOK, ChangeSetting, screen, uses, sensors, light, history
<1>4. ListenInv' /\ DropInv' /\ GateInv' /\ PocketInv'
  BY <1>1 DEF IInv, ListenInv, DropInv, history, ListenersInUse, GateInv, PocketInv, screen, uses, sensors
<1>5. SliderInv' /\ PocketPulseIsRemoval'
  BY <1>1 DEF IInv, SliderInv, SliderTorchEnds, PocketPulseIsRemoval, light, history
<1> QED BY <1>3, <1>4, <1>5 DEF IInv

LEMMA OnChangeOK ==
  ASSUME IInv, NEW uri \in Uri, onChange(uri)
  PROVE  IInv'
<1>1. /\ TypeOK /\ pulse' = "none" /\ applied' = (applied \/ ~mDispOn)
      /\ posted' = posted \ {uri}
      /\ dropped' = IF mDispOn THEN dropped ELSE dropped \cup (listeners \ ListenersInUse')
      /\ UNCHANGED <<settings, screen, sensors, light, events, seenNear>>
  BY DEF IInv, onChange
<1>2. mUseProxiCheck' \in BOOLEAN /\ mDoubleTapToWake' \in BOOLEAN /\ mUse' \subseteq Feature
  BY <1>1, KeyHandlerAssumption, EnabledType DEF TypeOK, onChange, OnChange, update, updateDozeSettings
<1>3. TypeOK'
  <2>1. dropped' \subseteq Listener
    BY <1>1 DEF TypeOK
  <2>2. {seenNear', applied', torn'} \subseteq BOOLEAN
    BY <1>1 DEF TypeOK, light
  <2> QED BY <1>1, <1>2, <2>1, <2>2 DEF TypeOK, settings, screen, sensors, light
<1>4. ~applied' => ~applied /\ mDispOn
  BY <1>1 DEF TypeOK
<1>5. ListenInv' /\ DropInv' /\ GateInv' /\ PocketInv'
  <2>1. ListenInv' /\ GateInv' /\ PocketInv'
    BY <1>1, <1>4 DEF IInv, ListenInv, GateInv, PocketInv, screen, sensors
  <2>2. DropInv'
    BY <1>1 DEF IInv, DropInv, screen, sensors
  <2> QED BY <2>1, <2>2
<1>6. SliderInv' /\ PocketPulseIsRemoval'
  BY <1>1 DEF IInv, SliderInv, SliderTorchEnds, PocketPulseIsRemoval, light, history
<1> QED BY <1>3, <1>5, <1>6 DEF IInv

LEMMA SwitchDisplayOK ==
  ASSUME IInv, SwitchDisplay
  PROVE  IInv'
<1>1. /\ TypeOK /\ pulse' = "none" /\ display' \in {"on", "off"}
      /\ broadcasts' = Append(broadcasts, display')
      /\ UNCHANGED <<settings, posted, mDispOn, uses, sensors, light, seenNear, history>>
  BY DEF IInv, SwitchDisplay, TypeOK
<1>2. broadcasts' \in Seq({"on", "off"})
  BY <1>1 DEF TypeOK
<1>3. TypeOK'
  BY <1>1, <1>2, EventType DEF TypeOK, SwitchDisplay, settings, uses, sensors, light, history
<1>4. ListenInv' /\ DropInv' /\ GateInv' /\ PocketInv'
  BY <1>1 DEF IInv, ListenInv, DropInv, history, ListenersInUse, GateInv, PocketInv, uses, sensors
<1>5. SliderInv' /\ PocketPulseIsRemoval'
  BY <1>1 DEF IInv, SliderInv, SliderTorchEnds, PocketPulseIsRemoval, light, history
<1> QED BY <1>3, <1>4, <1>5 DEF IInv

(* The two broadcasts: listeners are unregistered, or registered, by the   *)
(* settings; from none left over, exactly those in use come.               *)
LEMMA OnReceiveOK ==
  ASSUME IInv, onReceive
  PROVE  IInv'
<1>1. /\ TypeOK /\ pulse' = "none"
      /\ UNCHANGED <<settings, posted, display, uses, near, mProxyIsNear, mProxyWasNear,
                     light, events>>
  BY DEF IInv, onReceive
<1>2. broadcasts' \in Seq({"on", "off"})
  <2>1. broadcasts \in Seq({"on", "off"}) /\ broadcasts # <<>> /\ broadcasts' = Tail(broadcasts)
    BY <1>1 DEF TypeOK, onReceive
  <2> QED BY <2>1
<1>3. ListenersInUse' = ListenersInUse
  BY <1>1 DEF ListenersInUse, uses
<1>4. SliderInv' /\ PocketPulseIsRemoval'
  BY <1>1 DEF IInv, SliderInv, SliderTorchEnds, PocketPulseIsRemoval, light, history
<1>5. CASE Head(broadcasts) = "on"
  <2>1. /\ mDispOn' = TRUE
        /\ listeners' = listeners \ ListenersInUse /\ told' = told \ ListenersInUse
        /\ dropped' = dropped \cap listeners'
        /\ UNCHANGED <<age, seenNear, applied>>
    BY <1>5 DEF onReceive, onDisplayOn
  <2>2. TypeOK'
    <3>1. told' \subseteq listeners' /\ listeners' \subseteq Listener
      BY <1>1, <2>1 DEF TypeOK
    <3>2. {seenNear', applied', torn'} \subseteq BOOLEAN /\ age' \in Age /\ mDispOn' \in BOOLEAN
      BY <1>1, <2>1 DEF TypeOK, light, history
    <3>3. dropped' \subseteq Listener
      BY <1>1, <2>1 DEF TypeOK
    <3> QED BY <1>1, <1>2, <3>1, <3>2, <3>3 DEF TypeOK, settings, uses, light
  <2>3. ~applied => listeners' = {}
    BY <2>1, <1>1 DEF IInv, ListenInv
  <2>4. ListenInv' /\ DropInv' /\ GateInv' /\ PocketInv'
    <3>1. ListenInv' /\ GateInv' /\ PocketInv'
      BY <1>1, <2>1, <2>3 DEF IInv, ListenInv, GateInv, PocketInv
    <3>2. DropInv'
      BY <1>1, <2>1 DEF IInv, DropInv
    <3> QED BY <3>1, <3>2
  <2> QED BY <1>4, <2>2, <2>4 DEF IInv
<1>6. CASE Head(broadcasts) # "on"
  <2>1. /\ mDispOn' = FALSE
        /\ listeners' = listeners \cup ListenersInUse /\ told' = told \cap listeners
        /\ age' = AgeAtDisplayOff /\ seenNear' = FALSE /\ applied' = (listeners # {})
        /\ dropped' = dropped
    BY <1>6 DEF onReceive, onDisplayOff
  <2>2. TypeOK'
    <3>1. told' \subseteq listeners' /\ listeners' \subseteq Listener
      BY <1>1, <2>1, ListenersType DEF TypeOK
    <3>2. {seenNear', applied', torn'} \subseteq BOOLEAN /\ age' \in Age /\ mDispOn' \in BOOLEAN
      BY <1>1, <2>1 DEF TypeOK, light, AgeAtDisplayOff
    <3>3. dropped' \subseteq Listener
      BY <1>1, <2>1 DEF TypeOK
    <3> QED BY <1>1, <1>2, <3>1, <3>2, <3>3 DEF TypeOK, settings, uses, light
  <2>3. ~applied' => listeners' = ListenersInUse /\ told' = {}
    BY <2>1
  <2>4. ListenInv' /\ DropInv' /\ GateInv' /\ PocketInv'
    <3>1. ListenInv' /\ GateInv' /\ PocketInv'
      BY <1>1, <1>3, <2>1, <2>3 DEF IInv, ListenInv, GateInv, PocketInv, AgeAtDisplayOff
    <3>2. DropInv'
      BY <1>1, <1>3, <2>1 DEF IInv, DropInv
    <3> QED BY <3>1, <3>2
  <2> QED BY <1>4, <2>2, <2>4 DEF IInv
<1> QED BY <1>5, <1>6

(* The sensor, its listeners and the time.                                 *)
LEMMA MoveObjectOK ==
  ASSUME IInv, MoveObject
  PROVE  IInv'
<1>1. /\ TypeOK /\ pulse' = "none" /\ near' = ~near /\ told' = {}
      /\ UNCHANGED <<settings, posted, screen, uses, listeners, mProxyIsNear, mProxyWasNear,
                     age, light, seenNear, history>>
  BY DEF IInv, MoveObject
<1>2. TypeOK'
  BY <1>1, EventType DEF TypeOK, MoveObject, settings, screen, uses, light, history
<1>3. ListenInv' /\ DropInv' /\ GateInv' /\ PocketInv'
  BY <1>1 DEF IInv, ListenInv, DropInv, history, ListenersInUse, GateInv, PocketInv, screen, uses
<1>4. SliderInv' /\ PocketPulseIsRemoval'
  BY <1>1 DEF IInv, SliderInv, SliderTorchEnds, PocketPulseIsRemoval, light, history
<1> QED BY <1>2, <1>3, <1>4 DEF IInv

LEMMA WaitOK ==
  ASSUME IInv, Wait
  PROVE  IInv'
<1>1. /\ TypeOK /\ pulse' = "none" /\ listeners \ {"tilt"} \subseteq told
      /\ age' \in Age
      /\ UNCHANGED <<settings, posted, screen, uses, listeners, told, near, mProxyIsNear,
                     mProxyWasNear, light, events, seenNear, history>>
  BY DEF IInv, Wait
<1>2. TypeOK'
  BY <1>1 DEF TypeOK, settings, screen, uses, light, history
<1>3. "pocket" \in listeners => "pocket" \in told
  BY <1>1
<1>4. ListenInv' /\ DropInv' /\ GateInv' /\ PocketInv'
  BY <1>1, <1>3 DEF IInv, ListenInv, DropInv, history, ListenersInUse, GateInv, PocketInv, screen, uses
<1>5. SliderInv' /\ PocketPulseIsRemoval'
  BY <1>1 DEF IInv, SliderInv, SliderTorchEnds, PocketPulseIsRemoval, light, history
<1> QED BY <1>2, <1>4, <1>5 DEF IInv

LEMMA ProximityEventOK ==
  ASSUME IInv, ProximityEvent
  PROVE  IInv'
<1>1. /\ TypeOK /\ pulse' = "none" /\ "proxi" \in listeners \ told
      /\ told' = told \cup {"proxi"} /\ mProxyIsNear' = near
      /\ UNCHANGED <<settings, posted, screen, uses, listeners, near, mProxyWasNear, age,
                     light, events, seenNear, history>>
  BY DEF IInv, ProximityEvent
<1>2. TypeOK'
  BY <1>1 DEF TypeOK, settings, screen, uses, light, history
<1>3. ListenInv' /\ DropInv' /\ GateInv' /\ PocketInv'
  BY <1>1 DEF IInv, ListenInv, DropInv, history, ListenersInUse, GateInv, PocketInv, screen, uses
<1>4. SliderInv' /\ PocketPulseIsRemoval'
  BY <1>1 DEF IInv, SliderInv, SliderTorchEnds, PocketPulseIsRemoval, light, history
<1> QED BY <1>2, <1>3, <1>4 DEF IInv

LEMMA PulseForType ==
  ASSUME NEW a \in Age
  PROVE  PulseFor(a) \in {"none", "wave", "pocket"} /\ (PulseFor(a) = "pocket" => a = "pocket")
<1>1. CASE mUse = {}
  BY <1>1 DEF PulseFor
<1>2. CASE mUse # {} /\ a = "wave" /\ "wave" \in mUse
  BY <1>2 DEF PulseFor
<1>3. CASE mUse # {} /\ a = "pocket" /\ "pocket" \in mUse
  BY <1>3 DEF PulseFor
<1>4. CASE mUse # {} /\ ~(a = "wave" /\ "wave" \in mUse) /\ ~(a = "pocket" /\ "pocket" \in mUse)
  BY <1>4 DEF PulseFor
<1> QED BY <1>1, <1>2, <1>3, <1>4

LEMMA PocketEventOK ==
  ASSUME IInv, PocketEvent
  PROVE  IInv'
<1> DEFINE used == mUse \cap {"pocket", "wave"} # {}
<1>1. /\ TypeOK /\ "pocket" \in listeners \ told /\ told' = told \cup {"pocket"}
      /\ seenNear' = (seenNear \/ near)
      /\ UNCHANGED <<settings, posted, screen, uses, listeners, near, mProxyIsNear, light,
                     events, history>>
  BY DEF IInv, PocketEvent
<1>2. /\ used => /\ pulse' = IF mProxyWasNear /\ ~near THEN PulseFor(age) ELSE "none"
                 /\ age' = "wave" /\ mProxyWasNear' = near
      /\ ~used => pulse' = "none" /\ UNCHANGED <<age, mProxyWasNear>>
  BY DEF PocketEvent
<1>3. ~applied => used
  BY <1>1 DEF IInv, ListenInv, DropInv, ListenersInUse
<1> HIDE DEF used
<1>4. /\ pulse' \in {"none", "wave", "pocket"} /\ age' \in Age /\ mProxyWasNear' \in BOOLEAN
      /\ pulse' = "pocket" => mProxyWasNear /\ age = "pocket"
  BY <1>1, <1>2, PulseForType DEF TypeOK
<1>5. TypeOK'
  BY <1>1, <1>4 DEF TypeOK, settings, screen, uses, light, history
<1>6. PocketPulseIsRemoval'
  BY <1>1, <1>4 DEF IInv, TypeOK, history, PocketInv, PocketPulseIsRemoval
<1>7. ListenInv' /\ DropInv' /\ GateInv'
  BY <1>1 DEF IInv, ListenInv, DropInv, history, ListenersInUse, GateInv, screen, uses
<1>8. PocketInv'
  BY <1>1, <1>2, <1>3 DEF TypeOK, history, PocketInv
<1>9. SliderInv'
  BY <1>1 DEF IInv, SliderInv, SliderTorchEnds, light
<1> QED BY <1>5, <1>6, <1>7, <1>8, <1>9 DEF IInv

LEMMA TiltEventOK ==
  ASSUME IInv, TiltEvent
  PROVE  IInv'
<1>1. /\ TypeOK /\ pulse' = "tilt"
      /\ UNCHANGED <<settings, posted, screen, uses, sensors, light, events, seenNear, history>>
  BY DEF IInv, TiltEvent
<1>2. TypeOK'
  BY <1>1 DEF TypeOK, settings, screen, uses, sensors, light, history
<1>3. ListenInv' /\ DropInv' /\ GateInv' /\ PocketInv'
  BY <1>1 DEF IInv, ListenInv, DropInv, history, ListenersInUse, GateInv, PocketInv, screen, uses, sensors
<1>4. SliderInv' /\ PocketPulseIsRemoval'
  BY <1>1 DEF IInv, SliderInv, SliderTorchEnds, PocketPulseIsRemoval, light, history
<1> QED BY <1>2, <1>3, <1>4 DEF IInv

-----------------------------------------------------------------------------
(* The torch: every step of it leaves settings, display and sensors alone. *)
LEMMA LightStep ==
  ASSUME IInv, UNCHANGED nonLight, pulse' = "none", events' \in Nat,
         slider' \in {"idle", "toggleTorch"}, mToggleTorch' \in BOOLEAN,
         mTorchState' \in BOOLEAN, torch' \in BOOLEAN,
         lit' \in {"none", "slider", "gesture", "user"}, torn' \in BOOLEAN, SliderInv'
  PROVE  IInv'
<1>1. TypeOK'
  BY DEF IInv, TypeOK, nonLight, history, settings, screen, uses, sensors
<1>2. ListenInv' /\ DropInv' /\ GateInv' /\ PocketInv'
  BY DEF IInv, ListenInv, DropInv, history, ListenersInUse, GateInv, PocketInv, nonLight, screen, uses, sensors
<1>3. PocketPulseIsRemoval'
  BY DEF PocketPulseIsRemoval
<1> QED BY <1>1, <1>2, <1>3 DEF IInv

LEMMA SliderActionOK ==
  ASSUME IInv, NEW action \in {0, 4}, doHandleSliderAction(action)
  PROVE  IInv'
<1>1. /\ TypeOK /\ SliderInv /\ slider = "idle" /\ pulse' = "none" /\ events' \in Nat
      /\ UNCHANGED <<nonLight, torch, lit, torn>>
  BY EventType DEF IInv, doHandleSliderAction
<1>2. \/ slider' = "idle" /\ UNCHANGED <<mToggleTorch, mTorchState>>
      \/ /\ slider' = "toggleTorch" /\ mToggleTorch' = TRUE
         /\ mTorchState' \in BOOLEAN
  BY DEF doHandleSliderAction, Flag, Done
<1>3. SliderInv'
  BY <1>1, <1>2 DEF SliderInv, SliderTorchEnds
<1> QED BY <1>1, <1>2, <1>3, LightStep DEF TypeOK

LEMMA ToggleTorchType ==
  ASSUME TypeOK, NEW who \in {"slider", "gesture"}, toggleTorch(who)
  PROVE  /\ torch' \in BOOLEAN /\ mToggleTorch' \in BOOLEAN /\ torn' \in BOOLEAN
         /\ lit' \in {"none", "slider", "gesture", "user"}
         /\ ~torn' => /\ ~torn /\ torch' = Ask /\ mToggleTorch' = FALSE
                      /\ lit' = IF ~torch' THEN "none" ELSE IF torch THEN lit ELSE who
                      /\ who = "gesture" => slider = "idle"
BY DEF TypeOK, toggleTorch, Ask

LEMMA SliderTogglesOK ==
  ASSUME IInv, SliderToggles
  PROVE  IInv'
<1>1. /\ TypeOK /\ SliderInv /\ slider = "toggleTorch" /\ slider' = "idle" /\ pulse' = "none"
      /\ toggleTorch("slider") /\ UNCHANGED <<nonLight, mTorchState, events>>
  BY DEF IInv, SliderToggles
<1>2. SliderInv'
  BY <1>1, ToggleTorchType DEF SliderInv, SliderTorchEnds, Ask
<1> QED BY <1>1, <1>2, ToggleTorchType, LightStep DEF TypeOK

LEMMA GestureTogglesOK ==
  ASSUME IInv, GestureToggles
  PROVE  IInv'
<1>1. /\ TypeOK /\ SliderInv /\ pulse' = "none" /\ events' \in Nat
      /\ toggleTorch("gesture") /\ UNCHANGED <<nonLight, slider, mTorchState>>
  BY EventType DEF IInv, GestureToggles
<1>2. SliderInv'
  BY <1>1, ToggleTorchType DEF SliderInv, SliderTorchEnds, Ask
<1> QED BY <1>1, <1>2, ToggleTorchType, LightStep DEF TypeOK

LEMMA UserTogglesOK ==
  ASSUME IInv, UserToggles
  PROVE  IInv'
<1>1. /\ TypeOK /\ SliderInv /\ pulse' = "none" /\ events' \in Nat
      /\ torch' = ~torch /\ lit' = IF torch' THEN "user" ELSE "none"
      /\ UNCHANGED <<nonLight, slider, mToggleTorch, mTorchState, torn>>
  BY EventType DEF IInv, UserToggles
<1>2. SliderInv'
  BY <1>1 DEF SliderInv, SliderTorchEnds
<1> QED BY <1>1, <1>2, LightStep DEF TypeOK

(* Settings, display, sensors and torch stay consistent in every order of  *)
(* the events.                                                             *)
THEOREM Inductive == Spec => []IInv
<1>1. IInv /\ [Next]_vars => IInv'
  <2> SUFFICES ASSUME IInv, [Next]_vars PROVE IInv'
    OBVIOUS
  <2>1. CASE UNCHANGED vars
    <3>1. TypeOK'
      BY <2>1 DEF vars, settings, screen, uses, sensors, light, history, IInv, TypeOK
    <3>2. ListenInv' /\ DropInv' /\ GateInv' /\ PocketInv'
      BY <2>1 DEF vars, history, screen, uses, sensors, IInv, ListenInv, DropInv, ListenersInUse, GateInv, PocketInv
    <3>3. SliderInv' /\ PocketPulseIsRemoval'
      BY <2>1 DEF vars, history, light, IInv, SliderInv, SliderTorchEnds, PocketPulseIsRemoval
    <3> QED BY <3>1, <3>2, <3>3 DEF IInv
  <2>2. CASE ChangeSetting \/ SwitchDisplay \/ Handler
    BY <2>2, ChangeSettingOK, SwitchDisplayOK, OnReceiveOK, OnChangeOK DEF Handler
  <2>3. CASE MoveObject \/ Wait \/ ProximityEvent \/ PocketEvent \/ TiltEvent
    BY <2>3, MoveObjectOK, WaitOK, ProximityEventOK, PocketEventOK, TiltEventOK
  <2>4. CASE \/ \E action \in {0, 4} : doHandleSliderAction(action)
             \/ SliderToggles \/ GestureToggles \/ UserToggles
    BY <2>4, SliderActionOK, SliderTogglesOK, GestureTogglesOK, UserTogglesOK
  <2> QED BY <2>1, <2>2, <2>3, <2>4 DEF Next
<1> QED BY <1>1, InitOK, PTL DEF Spec

(* Every variable of the model keeps its type.                             *)
THEOREM TypeCorrect == Spec => []TypeOK
<1>1. IInv => TypeOK
  BY DEF IInv
<1> QED BY <1>1, Inductive, PTL

(* While the display is on, no sensor keeps listening but those whose      *)
(* setting was switched off while the display was off.                     *)
THEOREM NoSensorIsLeft == Spec => []NothingListens
<1>1. IInv => NothingListens
  BY DEF IInv, DropInv, NothingListens
<1> QED BY <1>1, Inductive, PTL

(* A pocket pulse has its cause in the current display-off period: onset   *)
(* of the period makes a value remembered from before too young for it.    *)
THEOREM PocketPulseHasItsCause == Spec => []PocketPulseIsRemoval
<1>1. IInv => PocketPulseIsRemoval
  BY DEF IInv
<1> QED BY <1>1, Inductive, PTL

(* The proximity check blocks gestures if and only if the settled sensor   *)
(* is covered, however many periods and values came before.                *)
THEOREM GateIsTheSensor == Spec => []GateFollowsSensor
<1>1. IInv => GateFollowsSensor
  <2> SUFFICES ASSUME IInv, ~mDispOn, ~applied, listeners \ {"tilt"} \subseteq told,
                      mUseProxiCheck
               PROVE  isDisabledKeyEvent <=> near
    BY DEF GateFollowsSensor
  <2>1. "proxi" \in told
    BY DEF IInv, ListenInv, DropInv, ListenersInUse
  <2>2. mProxyIsNear = near
    BY <2>1 DEF IInv, GateInv
  <2> QED BY <2>2 DEF isDisabledKeyEvent
<1> QED BY <1>1, Inductive, PTL

(* The slider turns off the torch it has turned on, whatever gestures and  *)
(* the tile did in between.                                                *)
THEOREM SliderTurnsItsTorchOff == Spec => []SliderTorchEnds
<1>1. IInv => SliderTorchEnds
  BY DEF IInv, SliderInv
<1> QED BY <1>1, Inductive, PTL

=============================================================================
