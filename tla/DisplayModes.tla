---------------------------- MODULE DisplayModes ----------------------------
(***************************************************************************)
(* The display modes of the panel, which several processes write:          *)
(*   - the fingerprint-in-screen HAL, fod/FingerprintInscreen.cpp, which   *)
(*     saves the user's modes and neutralises them while the FOD view is   *)
(*     shown, and restores them when it is hidden, and which sets the      *)
(*     display service's dim and press modes for the finger;               *)
(*   - DeviceParts: PanelSettings (one of sRGB, DCI-P3, wide color), the   *)
(*     DC dimming and HBM switches and the HBM tile, which keep a node and *)
(*     a setting each, and Startup, which writes the stored settings to    *)
(*     the kernel's nodes after a boot;                                    *)
(*   - KeyHandler, in system_server, which does the same after a switch of *)
(*     users.                                                              *)
(* A node and a setting are written, or read, one after the other, and the *)
(* other processes may come in between.                                    *)
(*                                                                         *)
(* A reboot clears the nodes; the HAL can restart alone and then knows     *)
(* nothing of what it saved.  The sRGB node of the HAL, customer_srgb, is  *)
(* not the one of DeviceParts.  External: when views, broadcasts, clicks   *)
(* and fingers come, the writer of the night mode, and SystemUI, which     *)
(* answers each finger event with a call of its own, some time later.      *)
(***************************************************************************)
EXTENDS FiniteSets, Naturals, Sequences

CONSTANT OldPrefs     \* the switches an old version may have left on

Panel == {"srgb", "dci", "wide"}
Stored == Panel \cup {"dcd", "hbm"}             \* restored by Startup
Node == Stored \cup {"night", "customer_srgb"}
Saved == {"wide", "dci", "customer_srgb", "night", "dcd"}     \* by the HAL
Imported == {"srgb", "hbm", "dcd", "dci"}       \* by maybeImportOldSettings
Value == {0, 1, 5}                              \* HBM is written as 5, or 1
Restorer == {"Startup", "KeyHandler"}           \* who calls restoreAfterUserSwitch
ImportOrder == <<"srgb", "hbm", "dcd", "dci">>
RestoreOrder == <<"srgb", "dcd", "dci", "wide", "hbm">>
NoSwitch == <<>>

ASSUME PrefsAssumption == \A p \in OldPrefs : p \subseteq Imported

VARIABLES
  node,           \* kernel: value of each node
  setting,        \* Settings.System, survives
  prefs,          \* SharedPreferences: switches an old version left on, survives
  imported,       \* omni_device_setting_imported, survives
  booted,         \* Startup has been called
  importing,      \* its next step of the import, or 0
  at, read,       \* of each restorer: position in RestoreOrder, or 0; setting read
  mFodCircleVisible, saved,
  hal,            \* the HAL's one thread: idle, or in the middle of a show or hide
  mIsEnrolling, mCallback,      \* mCallback: one is registered
  vendorMode,     \* display service, modes 16..21: "boot", "fod" or "normal"
  dim, press,     \* display service, modes SET_DIM and NOTIFY_PRESS
  calls,          \* onPress and onRelease that SystemUI will still make
  late,           \* ghost: one came after the hide, or the HAL forgot the view
  mCurrentMode,   \* of PanelSettings: "closed", "off" or a panel mode
  checking,       \* PanelSettings disables a mode and will enable this one
  switching,      \* a switch has done the first of its two writes: mode, value
  night,          \* ghost: what the night mode was last set to
  clobbered,      \* ghost: nodes whose last write was lost, or not the setting
  disturbed       \* ghost: PanelSettings may have been told of a wrong mode

stored == <<setting, prefs, imported>>
startup == <<booted, importing, at, read>>
fod == <<mFodCircleVisible, saved, hal, vendorMode>>
finger == <<mIsEnrolling, mCallback, dim, press, calls, late>>
panel == <<mCurrentMode, checking, switching>>
ghosts == <<night, clobbered, disturbed>>
vars == <<node, stored, startup, fod, finger, panel, ghosts>>

AllOff == [n \in Node |-> 0]
Flag(on) == IF on THEN 1 ELSE 0

Init ==
  /\ node = AllOff /\ setting = [n \in Stored |-> 0]
  /\ prefs \in OldPrefs /\ imported = FALSE
  /\ booted = FALSE /\ importing = 0
  /\ at = [r \in Restorer |-> 0] /\ read = [r \in Restorer |-> "none"]
  /\ mFodCircleVisible = FALSE /\ saved = [n \in Saved |-> 0] /\ hal = "idle"
  /\ mIsEnrolling = FALSE /\ mCallback = FALSE
  /\ vendorMode = "boot" /\ dim = 0 /\ press = 0 /\ calls = <<>> /\ late = FALSE
  /\ mCurrentMode = "closed" /\ checking = "none" /\ switching = NoSwitch
  /\ night = 0 /\ clobbered = {} /\ disturbed = FALSE

(* The HAL holds the modes: what is written to its nodes now, the hide     *)
(* overwrites.                                                             *)
Held == mFodCircleVisible \/ hal # "idle"
Covered(n) == Held /\ n \in Saved

(* A write of a node.  The ghosts tell whether it was lost, or was not     *)
(* what the setting is.                                                    *)
Write(n, v, wrong) ==
  /\ node' = [node EXCEPT ![n] = v]
  /\ clobbered' = IF wrong \/ Covered(n) THEN clobbered \cup {n} ELSE clobbered \ {n}
  /\ disturbed' = (disturbed \/ (n \in Panel /\ (wrong \/ Covered(n))))

(* A step with which the HAL loses the modes that it saves.                *)
Lose(condition) ==
  /\ clobbered' = IF condition THEN clobbered \cup Saved ELSE clobbered
  /\ disturbed' = (disturbed \/ condition)

-----------------------------------------------------------------------------
\* Mutant: DC dimming is not saved.
SavedWithoutDcd == [n \in Saved |-> IF n = "dcd" THEN 0 ELSE node[n]]
SavedModes == [n \in Saved |-> node[n]]

onShowFODView ==                 \* reads the nodes ...
  /\ hal = "idle" /\ hal' = "showing"
  /\ saved' = SavedModes
  /\ Lose(mFodCircleVisible)
  /\ UNCHANGED <<node, stored, startup, mFodCircleVisible, vendorMode, finger, panel, night>>

ShowModes ==                     \* ... and writes them
  /\ hal = "showing" /\ hal' = "idle"
  /\ node' = [n \in Node |-> IF n = "wide" THEN 1 ELSE IF n \in Saved THEN 0 ELSE node[n]]
  /\ mFodCircleVisible' = TRUE /\ vendorMode' = "fod"
  /\ UNCHANGED <<stored, startup, saved, finger, panel, ghosts>>

onHideFODView ==
  /\ hal = "idle" /\ hal' = "hiding"
  /\ mFodCircleVisible' = FALSE
  /\ Lose(~mFodCircleVisible)
  /\ UNCHANGED <<node, stored, startup, saved, vendorMode, finger, panel, night>>

RestoredModes == [n \in Node |-> IF n \in Saved THEN saved[n] ELSE node[n]]

\* Mutant: the press is not taken back.
DimOff == dim' = 0 /\ press' = press
FingerOff == dim' = 0 /\ press' = 0

HideModes ==
  /\ hal = "hiding" /\ hal' = "idle"
  /\ node' = RestoredModes /\ vendorMode' = "normal"
  /\ FingerOff /\ late' = FALSE
  /\ UNCHANGED <<stored, startup, mFodCircleVisible, saved, mIsEnrolling, mCallback, calls,
                 panel, ghosts>>

(* The HAL's process is restarted: its variables are zero again.           *)
HalRestart ==
  /\ mFodCircleVisible' = FALSE /\ saved' = [n \in Saved |-> 0] /\ hal' = "idle"
  /\ mIsEnrolling' = FALSE /\ mCallback' = FALSE
  /\ late' = (late \/ Held)
  /\ Lose(Held)
  /\ UNCHANGED <<node, stored, startup, vendorMode, dim, press, calls, panel, night>>

-----------------------------------------------------------------------------
(* The finger.  A finger event is forwarded while the view is shown and a  *)
(* callback is registered, and refused otherwise.                          *)
MaxCall == 2            \* bound: forwarded events not answered yet
AllButFinger == <<node, stored, startup, fod, panel, ghosts>>

Enroll(on) ==           \* onStartEnroll, onFinishEnroll
  /\ hal = "idle" /\ mIsEnrolling' = on
  /\ UNCHANGED <<AllButFinger, mCallback, dim, press, calls, late>>

setCallback ==
  /\ hal = "idle" /\ mCallback' = TRUE
  /\ UNCHANGED <<AllButFinger, mIsEnrolling, dim, press, calls, late>>

handleAcquired(call) ==
  /\ hal = "idle" /\ mCallback /\ mFodCircleVisible /\ Len(calls) < MaxCall
  /\ calls' = Append(calls, call)
  /\ UNCHANGED <<AllButFinger, mIsEnrolling, mCallback, dim, press, late>>

onPress ==
  /\ hal = "idle" /\ calls # <<>> /\ Head(calls) = "press" /\ calls' = Tail(calls)
  /\ dim' = IF mIsEnrolling THEN 8 ELSE dim
  /\ press' = 1
  /\ late' = (late \/ ~mFodCircleVisible)
  /\ UNCHANGED <<AllButFinger, mIsEnrolling, mCallback>>

onRelease ==
  /\ hal = "idle" /\ calls # <<>> /\ Head(calls) = "release" /\ calls' = Tail(calls)
  /\ press' = 0 /\ dim' = 5
  /\ late' = (late \/ ~mFodCircleVisible)
  /\ UNCHANGED <<AllButFinger, mIsEnrolling, mCallback>>

-----------------------------------------------------------------------------
(* DeviceParts has one main thread: Startup, then the user interface.      *)
StartupDone == booted /\ importing = 0 /\ at["Startup"] = 0
MainThreadFree == StartupDone /\ checking = "none" /\ switching = NoSwitch

Switching(n) == switching # NoSwitch /\ switching[1] = n

(* PanelSettings.onViewCreated: the current mode is what the nodes say.    *)
onViewCreated ==
  /\ MainThreadFree
  /\ mCurrentMode' = IF node["dci"] # 0 THEN "dci"
                     ELSE IF node["srgb"] # 0 THEN "srgb"
                     ELSE IF node["wide"] # 0 THEN "wide" ELSE "off"
  /\ disturbed' = (disturbed \/ Held)
  /\ UNCHANGED <<node, stored, startup, fod, finger, checking, switching, night, clobbered>>

(* onCheckedChanged: disableCurrenMode, then the new mode.  PanelSettings  *)
(* writes a node first and the setting after it.                           *)
WriteFirst(n, v) == Write(n, v, FALSE) /\ switching' = <<n, v>>

\* Mutant: the mode in use is not disabled.
DisableNothing == UNCHANGED <<node, clobbered, disturbed, switching>>
disableCurrenMode ==
  IF mCurrentMode \in Panel THEN WriteFirst(mCurrentMode, 0)
  ELSE UNCHANGED <<node, clobbered, disturbed, switching>>

onCheckedChanged(mode) ==
  /\ mCurrentMode \notin {"closed", mode} /\ MainThreadFree
  /\ disableCurrenMode
  /\ checking' = mode
  /\ UNCHANGED <<stored, startup, fod, finger, mCurrentMode, night>>

Enabled(mode) == mCurrentMode' = mode /\ checking' = "none"

EnableMode ==
  /\ checking # "none" /\ switching = NoSwitch
  /\ IF checking = "off"
     THEN Enabled("off") /\ UNCHANGED <<node, clobbered, disturbed, switching>>
     ELSE WriteFirst(checking, 1) /\ UNCHANGED <<mCurrentMode, checking>>
  /\ UNCHANGED <<stored, startup, fod, finger, night>>

PutInt ==
  /\ switching # NoSwitch /\ switching[1] \in Panel /\ switching' = NoSwitch
  /\ setting' = [setting EXCEPT ![switching[1]] = switching[2]]
  /\ IF switching[1] = checking THEN Enabled(checking) ELSE UNCHANGED <<mCurrentMode, checking>>
  /\ UNCHANGED <<node, prefs, imported, startup, fod, finger, ghosts>>

(* onPreferenceChange of the DC dimming and HBM switches, which write the  *)
(* setting first and the node after it.                                    *)
PutFirst(n, v) ==
  /\ MainThreadFree
  /\ setting' = [setting EXCEPT ![n] = v] /\ switching' = <<n, v>>
  /\ UNCHANGED <<node, prefs, imported, startup, fod, finger, mCurrentMode, checking, ghosts>>

DCDModeSwitch(enabled) == PutFirst("dcd", Flag(enabled))
HBMModeSwitch(enabled) == PutFirst("hbm", IF enabled THEN 5 ELSE 0)

WriteValue ==
  /\ switching # NoSwitch /\ switching[1] \notin Panel /\ switching' = NoSwitch
  /\ Write(switching[1], switching[2], FALSE)
  /\ UNCHANGED <<stored, startup, fod, finger, mCurrentMode, checking, night>>

(* HBMModeTileService.onClick writes the node, and the old preferences,    *)
(* which nobody reads any more: they were imported before the first click. *)
HBMModeTile ==
  /\ MainThreadFree
  /\ Write("hbm", IF node["hbm"] # 0 THEN 0 ELSE 5, TRUE)
  /\ UNCHANGED <<stored, startup, fod, finger, panel, night>>

NightMode(v) ==
  /\ Write("night", v, FALSE) /\ night' = v
  /\ UNCHANGED <<stored, startup, fod, finger, panel>>

-----------------------------------------------------------------------------
(* Startup imports the old preferences once and then restores; KeyHandler  *)
(* restores at any time.  A restore reads a setting and writes its node, 1 *)
(* or 0, for HBM too, one mode after the other.                            *)
onReceive ==
  /\ ~booted /\ booted' = TRUE
  /\ importing' = IF imported THEN 0 ELSE 1
  /\ at' = [at EXCEPT !["Startup"] = IF imported THEN 1 ELSE 0]
  /\ UNCHANGED <<node, stored, read, fod, finger, panel, ghosts>>

maybeImportOldSettings ==
  /\ importing # 0
  /\ IF importing \in DOMAIN ImportOrder
     THEN LET n == ImportOrder[importing]
          IN  /\ setting' = [setting EXCEPT ![n] = Flag(n \in prefs)]
              /\ importing' = importing + 1 /\ UNCHANGED <<imported, at>>
     ELSE /\ imported' = TRUE /\ importing' = 0
          /\ at' = [at EXCEPT !["Startup"] = 1] /\ UNCHANGED setting
  /\ UNCHANGED <<node, prefs, booted, read, fod, finger, panel, ghosts>>

UserSwitched ==                  \* KeyHandler, USER_SWITCHED to the system user
  /\ at["KeyHandler"] = 0 /\ at' = [at EXCEPT !["KeyHandler"] = 1]
  /\ UNCHANGED <<node, stored, booted, importing, read, fod, finger, panel, ghosts>>

ReadSetting(r) ==
  /\ at[r] # 0 /\ read[r] = "none"
  /\ read' = [read EXCEPT ![r] = IF setting[RestoreOrder[at[r]]] # 0 THEN "on" ELSE "off"]
  /\ UNCHANGED <<node, stored, booted, importing, at, fod, finger, panel, ghosts>>

\* Mutant: every mode is restored with the value of HBM.
RestoreFives(value) == IF value = "on" THEN 5 ELSE 0
Restored(value) == IF value = "on" THEN 1 ELSE 0

restore(r) ==
  LET n == RestoreOrder[at[r]]
      stale == \/ (read[r] = "on") # (setting[n] # 0)
               \/ n \in Panel /\ Switching(n)
  IN  /\ at[r] # 0 /\ read[r] # "none" /\ read' = [read EXCEPT ![r] = "none"]
      /\ Write(n, Restored(read[r]), stale)
      /\ at' = [at EXCEPT ![r] = IF @ = Len(RestoreOrder) THEN 0 ELSE @ + 1]
      /\ UNCHANGED <<stored, booted, importing, fod, finger, panel, night>>

Reboot ==
  /\ node' = AllOff
  /\ booted' = FALSE /\ importing' = 0
  /\ at' = [r \in Restorer |-> 0] /\ read' = [r \in Restorer |-> "none"]
  /\ mFodCircleVisible' = FALSE /\ saved' = [n \in Saved |-> 0] /\ hal' = "idle"
  /\ mIsEnrolling' = FALSE /\ mCallback' = FALSE
  /\ vendorMode' = "boot" /\ dim' = 0 /\ press' = 0 /\ calls' = <<>> /\ late' = FALSE
  /\ mCurrentMode' = "closed" /\ checking' = "none" /\ switching' = NoSwitch
  /\ night' = 0 /\ clobbered' = {}
  /\ UNCHANGED <<stored, disturbed>>

Next ==
  \/ onShowFODView \/ ShowModes \/ onHideFODView \/ HideModes \/ HalRestart
  \/ \E on \in BOOLEAN : Enroll(on)
  \/ setCallback \/ onPress \/ onRelease
  \/ \E call \in {"press", "release"} : handleAcquired(call)
  \/ onViewCreated \/ EnableMode \/ PutInt \/ WriteValue
  \/ \E mode \in Panel \cup {"off"} : onCheckedChanged(mode)
  \/ \E enabled \in BOOLEAN : DCDModeSwitch(enabled) \/ HBMModeSwitch(enabled)
  \/ HBMModeTile \/ \E v \in {0, 1} : NightMode(v)
  \/ onReceive \/ maybeImportOldSettings \/ UserSwitched
  \/ \E r \in Restorer : ReadSetting(r) \/ restore(r)
  \/ Reboot

Spec == Init /\ [][Next]_vars

-----------------------------------------------------------------------------
TypeOK ==
  /\ node \in [Node -> Value] /\ \A n \in Node \ {"hbm"} : node[n] # 5
  /\ setting \in [Stored -> Value]
  /\ prefs \subseteq Imported /\ imported \in BOOLEAN
  /\ booted \in BOOLEAN /\ importing \in 0..5
  /\ at \in [Restorer -> 0..5] /\ read \in [Restorer -> {"none", "on", "off"}]
  /\ mFodCircleVisible \in BOOLEAN /\ saved \in [Saved -> {0, 1}]
  /\ hal \in {"idle", "showing", "hiding"}
  /\ {mIsEnrolling, mCallback, late} \subseteq BOOLEAN
  /\ vendorMode \in {"boot", "fod", "normal"} /\ dim \in {0, 5, 8} /\ press \in {0, 1}
  /\ calls \in Seq({"press", "release"}) /\ Len(calls) <= MaxCall
  /\ mCurrentMode \in Panel \cup {"closed", "off"}
  /\ checking \in Panel \cup {"none", "off"}
  /\ switching \in {NoSwitch} \cup ((Stored \ {"hbm"}) \X {0, 1}) \cup ({"hbm"} \X {0, 5})
  /\ night \in {0, 1} /\ clobbered \subseteq Node /\ disturbed \in BOOLEAN

(* Once Startup has restored, the panel is in the modes that the user      *)
(* chose: a node that the HAL does not hold is on when its setting is, and *)
(* the night mode, which is not a setting, as it was set, through reboots, *)
(* restores, shows and hides in any number.  Excepted is a mode whose last *)
(* write was lost: to a view (it was written while the HAL held the modes, *)
(* or a show without a hide, or the like, lost them), to a restore that    *)
(* came into a change of that very mode, or, for HBM, to the tile.         *)
NodesFollowSettings ==
  /\ StartupDone =>
       \A n \in Stored \ clobbered :
         Covered(n) \/ Switching(n) \/ (node[n] # 0 <=> setting[n] # 0)
  /\ "night" \notin clobbered => Covered("night") \/ node["night"] = night

(* A hidden view leaves nothing behind in the display service: no dimming, *)
(* no press, none of the view's modes, whatever fingers did while it was   *)
(* shown -- unless SystemUI's answer to one of them came after the hide,   *)
(* or the HAL was restarted under the view.                                *)
HiddenIsClean == ~Held /\ ~late => dim = 0 /\ press = 0 /\ vendorMode # "fod"

(* At most one color mode of the panel is on, and stored: PanelSettings    *)
(* knows the one to disable, also when Startup has restored it, or         *)
(* KeyHandler does so meanwhile.  Excepted are an old version that left    *)
(* two on, a panel mode lost as above, and PanelSettings opened while the  *)
(* HAL holds the modes.                                                    *)
OneMode ==
  ~disturbed /\ Cardinality(prefs \cap Panel) <= 1 =>
    /\ Cardinality({n \in Panel : setting[n] # 0}) <= 1
    /\ ~Held => Cardinality({n \in Panel : node[n] # 0}) <= 1

=============================================================================
