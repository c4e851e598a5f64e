---------------------------- MODULE DeviceParts -----------------------------
(***************************************************************************)
(* The parts of the DeviceParts application and of the fingerprint HAL,    *)
(* side by side.  They run in one device, but no step of one reads or      *)
(* writes what another one keeps, so each can be explored while the others *)
(* stand still: a property of one part's variables holds in every          *)
(* interleaving if it holds while only that part moves.  Which one does is *)
(* chosen in the initial state:                                            *)
(*   - "panel", "switches", "night", "finger": DisplayModes with one of    *)
(*     four writers beside the HAL and the restores: PanelSettings, the    *)
(*     other switches and the tile, the night mode, or fingers.  They      *)
(*     write different nodes and modes, and their steps depend on none of  *)
(*     each other's, only on the view and the restores (the proofs take    *)
(*     them all together);                                                 *)
(*   - "gestures": the gestures of two users;                              *)
(*   - "refresh": the refresh rate;                                        *)
(*   - "services": the overlay of frame rates and the fall sensor.         *)
(***************************************************************************)
EXTENDS DisplayModes

CONSTANT MaxThread      \* of DeviceServices
ASSUME MaxThreadAssumption == MaxThread \in Nat

VARIABLES
  part,
  gesturesMapping, gesturesNode, current, started, bootCompleted, switched, mRestoreUser,
  gesturesAt, gesturesRead, change, gesturesClobbered,
  display, dozing, sent, fpsInbox, fallInbox, fps, mCurFPSThread, polling, mInterrupt, main,
  fallService, tasks, listening, event, direction, motor, early, leaked, startedOff, contended,
  peak, lowest, auto, todo, screen, checked, usable, shade, autoRefreshEnabled,
  chosen, fixed, cut

Gestures == INSTANCE Gestures
  WITH mapping <- gesturesMapping, node <- gesturesNode, at <- gesturesAt,
       read <- gesturesRead, clobbered <- gesturesClobbered
Services == INSTANCE DeviceServices
Refresh == INSTANCE RefreshRate

gestures == <<gesturesMapping, gesturesNode, current, started, bootCompleted, switched,
              mRestoreUser, gesturesAt, gesturesRead, change, gesturesClobbered>>
services == <<display, dozing, sent, fpsInbox, fallInbox, fps, mCurFPSThread, polling,
              mInterrupt, main, fallService, tasks, listening, event, direction, motor,
              early, leaked, startedOff, contended>>
refresh == <<peak, lowest, auto, todo, screen, checked, usable, shade, autoRefreshEnabled,
             chosen, fixed, cut>>

PartsInit ==
  /\ part \in {"panel", "switches", "night", "finger", "gestures", "services", "refresh"}
  /\ Init /\ Gestures!Init /\ Services!Init /\ Refresh!Init
  /\ part # "gestures" => switched = <<>>     \* one initial state for the others
  /\ part # "refresh" => peak = 90 /\ auto = 0

(* Bound: where settings are switched, KeyHandler restores while nothing   *)
(* else disturbs the panel (beside the night mode it does so at any time). *)
UserSwitchesAlone ==
  at'["KeyHandler"] = 0 \/ (at'["Startup"] = 0 /\ ~Held' /\ ~disturbed)

PartsNext ==
  /\ UNCHANGED part
  /\ \/ /\ part = "panel" /\ Next /\ UserSwitchesAlone
        /\ switching' \in {NoSwitch} \cup (Panel \X {0, 1}) /\ "hbm" \notin clobbered'
        /\ UNCHANGED <<finger, night, gestures, services, refresh>>
     \/ /\ part = "switches" /\ Next /\ UserSwitchesAlone
        /\ UNCHANGED <<mCurrentMode, checking, finger, night, gestures, services, refresh>>
     \/ /\ part = "night" /\ Next
        /\ at'["KeyHandler"] = 0 \/ (at'["Startup"] = 0 /\ ~(disturbed /\ at["KeyHandler"] = 0))
        /\ UNCHANGED <<finger, panel, gestures, services, refresh>>
     \/ /\ part = "finger" /\ Next
        /\ UNCHANGED <<startup, night, panel, gestures, services, refresh>>
     \/ part = "gestures" /\ Gestures!Next /\ UNCHANGED <<vars, services, refresh>>
     \/ part = "services" /\ Services!Next /\ UNCHANGED <<vars, gestures, refresh>>
     \/ part = "refresh" /\ Refresh!Next /\ UNCHANGED <<vars, gestures, services>>

partsVars == <<part, vars, gestures, services, refresh>>
PartsSpec == PartsInit /\ [][PartsNext]_partsVars /\ Services!Fairness

-----------------------------------------------------------------------------
(* Every variable of every part has a value that the code can give it.     *)
PartsTypeOK == TypeOK /\ Gestures!TypeOK /\ Services!TypeOK /\ Refresh!TypeOK

(* See Gestures, DeviceServices and RefreshRate.                           *)
SystemUserGetsOwnGestures == Gestures!SystemUserGetsOwnGestures
ServicesFollowScreen == Services!ServicesFollowScreen
FallClosesCamera == Services!FallClosesCamera
RateFollowsChoice == Refresh!RateFollowsChoice

=============================================================================
