------------------------- MODULE DisplayModesProofs -------------------------
(***************************************************************************)
(* Proofs about DisplayModes, for any set of old preferences, with every   *)
(* interleaving of its writers (the run explores one writer at a time).    *)
(*                                                                         *)
(* The argument: what a node will be once the view is hidden, Effective,   *)
(* follows the settings and the night mode through shows, hides, restores  *)
(* and the two writes of each switch, unless the ghost clobbered tells     *)
(* that the write was lost (NodesInv); so what PanelSettings reads from    *)
(* the nodes is the one setting that is on, the one it disables before it  *)
(* enables another (ModeInv), and the handlers of DeviceParts' one thread  *)
(* come one after the other (OrderInv).                                    *)
(***************************************************************************)
EXTENDS DisplayModes, FiniteSetTheorems, TLAPS

Effective(n) == IF Covered(n) THEN saved[n] ELSE node[n]

(* Startup has restored mode n since the boot.                             *)
Done(n) ==
  /\ booted /\ importing = 0
  /\ at["Startup"] = 0 \/ \E i \in 1..4 : i < at["Startup"] /\ RestoreOrder[i] = n

Follows(n) ==
  /\ ~Switching(n) => (Effective(n) # 0 <=> setting[n] # 0)
  /\ n \in Panel /\ Switching(n) => Effective(n) = switching[2]

NodesInv ==
  /\ \A n \in Stored : Done(n) /\ n \notin clobbered => Follows(n)
  /\ "night" \notin clobbered => Effective("night") = night

OrderInv ==
  /\ booted /\ importing = 0 => imported
  /\ importing # 0 => booted /\ ~imported
  /\ ~imported => \A n \in Stored : setting[n] # 0 => n \in prefs
  /\ ~StartupDone => mCurrentMode = "closed" /\ checking = "none" /\ switching = NoSwitch
  /\ switching # NoSwitch =>
       IF switching[1] \in Panel
       THEN /\ checking # "none"
            /\ switching[2] = 0 => switching[1] = mCurrentMode /\ mCurrentMode # checking
            /\ switching[2] = 1 => switching[1] = checking
       ELSE checking = "none" /\ setting[switching[1]] = switching[2]

(* What PanelSettings relies on, if an old version left one mode at most.  *)
OneIsOn ==
  /\ \A a, b \in Panel : setting[a] # 0 /\ setting[b] # 0 => a = b
  /\ \A n \in Panel : Effective(n) # 0 => setting[n] # 0 \/ Switching(n)
  /\ checking = "none" /\ mCurrentMode # "closed" =>
       \A n \in Panel : setting[n] # 0 => n = mCurrentMode
  /\ checking # "none" => \A n \in Panel : setting[n] # 0 => switching = <<n, 0>>

OnePref == \A a, b \in prefs \cap Panel : a = b

ModeInv ==
  ~disturbed => clobbered \cap Panel = {} /\ (OnePref => OneIsOn)

IInv == TypeOK /\ prefs \in OldPrefs /\ NodesInv /\ OrderInv /\ ModeInv /\ HiddenIsClean

-----------------------------------------------------------------------------
USE DEF Panel, Stored, Node, Saved, Imported, Value, MaxCall, Restorer

(* At most one member, and at most one: the cardinality counts the modes.  *)
LEMMA AtMostOne ==
  ASSUME NEW S \in SUBSET Panel
  PROVE  (\A a, b \in S : a = b) <=> Cardinality(S) <= 1
<1>1. IsFiniteSet(Panel) /\ IsFiniteSet(S)
  <2>1. IsFiniteSet({}) /\ IsFiniteSet({"srgb"}) /\ IsFiniteSet({"srgb", "dci"})
        /\ IsFiniteSet({"srgb", "dci", "wide"})
    BY FS_EmptySet, FS_Singleton, FS_AddElement
  <2> QED BY <2>1, FS_Subset
<1>2. ASSUME \A a, b \in S : a = b PROVE Cardinality(S) <= 1
  <2>1. CASE S = {}
    BY <2>1, FS_EmptySet
  <2>2. CASE S # {}
    <3>1. PICK a \in S : TRUE
      BY <2>2
    <3>2. S = {a}
      BY <1>2
    <3> QED BY <3>2, FS_Singleton
  <2> QED BY <2>1, <2>2
<1>3. ASSUME Cardinality(S) <= 1, NEW a \in S, NEW b \in S, a # b PROVE FALSE
  <2>1. Cardinality({a, b}) = 2
    <3>1. IsFiniteSet({a}) /\ Cardinality({a}) = 1 /\ b \notin {a}
      BY <1>3, FS_Singleton
    <3>2. Cardinality({a} \cup {b}) = 2
      BY <3>1, FS_AddElement
    <3>3. {a, b} = {a} \cup {b}
      OBVIOUS
    <3> QED BY <3>2, <3>3
  <2>2. {a, b} \subseteq S
    OBVIOUS
  <2>3. Cardinality({a, b}) <= Cardinality(S)
    BY <1>1, <2>2, FS_Subset
  <2>4. Cardinality(S) \in Nat
    BY <1>1, FS_CardinalityType
  <2> QED BY <1>3, <2>1, <2>3, <2>4
<1> QED BY <1>2, <1>3

(* The type of what no step but the named ones changes.                    *)
FingerType ==
  /\ {mIsEnrolling, mCallback, late} \subseteq BOOLEAN /\ dim \in {0, 5, 8} /\ press \in {0, 1}
  /\ calls \in Seq({"press", "release"}) /\ Len(calls) <= MaxCall
NodeType == node \in [Node -> Value] /\ \A n \in Node \ {"hbm"} : node[n] # 5
FodType == /\ mFodCircleVisible \in BOOLEAN /\ saved \in [Saved -> {0, 1}]
           /\ hal \in {"idle", "showing", "hiding"} /\ vendorMode \in {"boot", "fod", "normal"}
StoredType == /\ setting \in [Stored -> Value] /\ prefs \subseteq Imported
              /\ imported \in BOOLEAN
StartupType == /\ booted \in BOOLEAN /\ importing \in 0..5
               /\ at \in [Restorer -> 0..5] /\ read \in [Restorer -> {"none", "on", "off"}]
Switches == {NoSwitch} \cup ((Stored \ {"hbm"}) \X {0, 1}) \cup ({"hbm"} \X {0, 5})
PanelType == /\ mCurrentMode \in Panel \cup {"closed", "off"}
             /\ checking \in Panel \cup {"none", "off"}
             /\ switching \in Switches
GhostType == night \in {0, 1} /\ clobbered \subseteq Node /\ disturbed \in BOOLEAN

LEMMA TypeParts ==
  /\ TypeOK <=> /\ FingerType /\ NodeType /\ FodType /\ StoredType /\ StartupType /\ PanelType
                /\ GhostType
  /\ TypeOK' <=> /\ FingerType' /\ NodeType' /\ FodType' /\ StoredType' /\ StartupType'
                 /\ PanelType' /\ GhostType'
BY DEF TypeOK, FingerType, NodeType, FodType, StoredType, StartupType, PanelType, GhostType,
       Switches

(* A switch that has done its first write knows its mode and value.        *)
LEMMA SwitchFacts ==
  ASSUME PanelType
  PROVE  /\ NoSwitch \in Switches
         /\ switching # NoSwitch =>
              /\ switching = <<switching[1], switching[2]>>
              /\ switching[1] \in Stored /\ switching[2] \in Value
              /\ switching[1] # "hbm" => switching[2] \in {0, 1}
         /\ \A n \in Stored, v \in Value :
              /\ (IF n = "hbm" THEN v # 1 ELSE v # 5) => <<n, v>> \in Switches
              /\ <<n, v>> # NoSwitch /\ <<n, v>>[1] = n /\ <<n, v>>[2] = v
BY DEF PanelType, Switches, NoSwitch

LEMMA InitOK == Init => IInv
<1> SUFFICES ASSUME Init PROVE IInv
  OBVIOUS
<1>1. FingerType
  <2>1. mIsEnrolling = FALSE /\ mCallback = FALSE /\ late = FALSE /\ dim = 0 /\ press = 0
    BY DEF Init
  <2>2. calls = <<>>
    BY DEF Init
  <2>3. calls \in Seq({"press", "release"}) /\ Len(calls) <= MaxCall
    BY <2>2
  <2> QED BY <2>1, <2>3 DEF FingerType
<1>2. NodeType /\ FodType /\ GhostType
  <2>1. node \in [Node -> {0}]
    BY DEF Init, AllOff
  <2>2. saved \in [Saved -> {0, 1}]
    BY DEF Init
  <2>3. /\ mFodCircleVisible = FALSE /\ hal = "idle" /\ vendorMode = "boot" /\ clobbered = {}
        /\ night \in {0, 1} /\ disturbed \in BOOLEAN
    BY DEF Init
  <2>4. NodeType
    BY <2>1 DEF NodeType
  <2> QED BY <2>2, <2>3, <2>4 DEF FodType, GhostType
<1>3. PanelType
  BY DEF Init, PanelType, Switches
<1>4. StoredType /\ prefs \in OldPrefs
  BY PrefsAssumption DEF Init, StoredType
<1>5. StartupType
  <2>1. booted = FALSE /\ importing = 0 /\ 0 \in 0..5
    BY DEF Init
  <2>2. at \in [Restorer -> 0..5] /\ read \in [Restorer -> {"none", "on", "off"}]
    BY DEF Init
  <2> QED BY <2>1, <2>2 DEF StartupType
<1>6. NodesInv
  BY DEF Init, NodesInv, Done, Effective, Covered, Held, AllOff
<1>7. OrderInv
  BY DEF Init, OrderInv
<1>8. ModeInv
  BY DEF Init, ModeInv, OneIsOn, Effective, Covered, Held, AllOff
<1>9. HiddenIsClean
  BY DEF Init, HiddenIsClean
<1> QED BY <1>1, <1>2, <1>3, <1>4, <1>5, <1>6, <1>7, <1>8, <1>9, TypeParts DEF IInv

(* A step after which every node is effectively what it was before, or     *)
(* lost, and that leaves the settings alone.                               *)
LEMMA EffectiveKept ==
  ASSUME IInv, UNCHANGED <<stored, startup, panel, night>>,
         disturbed' \/ (clobbered' = clobbered /\ disturbed' = disturbed),
         clobbered \subseteq clobbered',
         \A n \in Node \ clobbered' : Effective(n)' = Effective(n)
  PROVE  NodesInv' /\ OrderInv' /\ ModeInv'
<1>1. /\ NodesInv /\ OrderInv /\ ModeInv
      /\ UNCHANGED <<setting, prefs, imported, booted, importing, at, mCurrentMode, checking,
                     switching, night>>
  BY DEF IInv, stored, startup, panel
<1>2. NodesInv'
  BY <1>1 DEF NodesInv, Done, Follows, Switching
<1>3. OrderInv'
  BY <1>1 DEF OrderInv, StartupDone
<1>4. ModeInv'
  <2>1. CASE disturbed'
    BY <2>1 DEF ModeInv
  <2>2. CASE ~disturbed'
    <3>1. clobbered' = clobbered /\ disturbed' = disturbed
      BY <2>2
    <3>2. ~disturbed /\ clobbered \cap Panel = {}
      BY <1>1, <2>2, <3>1 DEF ModeInv
    <3>3. \A n \in Panel : Effective(n)' = Effective(n)
      BY <3>1, <3>2
    <3> QED BY <1>1, <3>1, <3>2, <3>3 DEF ModeInv, OneIsOn, OnePref, Switching
  <2> QED BY <2>1, <2>2
<1> QED BY <1>2, <1>3, <1>4

(* Lose, on the ghosts.                                                    *)
LEMMA LoseFacts ==
  ASSUME TypeOK, NEW c \in BOOLEAN, Lose(c), night' = night
  PROVE  /\ GhostType'
         /\ disturbed' \/ (clobbered' = clobbered /\ disturbed' = disturbed)
         /\ clobbered \subseteq clobbered'
         /\ c => Saved \subseteq clobbered'
BY DEF Lose, TypeOK, GhostType

(* The HAL.                                                                *)
LEMMA ShowStartsOK ==
  ASSUME IInv, onShowFODView
  PROVE  IInv'
<1>1. /\ TypeOK /\ hal = "idle" /\ hal' = "showing" /\ Lose(mFodCircleVisible)
      /\ UNCHANGED <<node, stored, startup, mFodCircleVisible, vendorMode, finger, panel, night>>
      /\ saved' = [n \in Saved |-> node[n]]
  BY DEF IInv, onShowFODView, SavedModes
<1>2. NodeType /\ FodType /\ FingerType /\ StoredType /\ StartupType /\ PanelType
  BY <1>1, TypeParts
<1>3. FodType'
  <2>1. \A n \in Saved : node[n] \in {0, 1}
    BY <1>2 DEF NodeType
  <2>2. saved' \in [Saved -> {0, 1}]
    BY <1>1, <2>1
  <2> QED BY <1>1, <1>2, <2>2 DEF FodType
<1>4. NodeType' /\ FingerType' /\ StoredType' /\ StartupType' /\ PanelType'
  BY <1>1, <1>2 DEF NodeType, FingerType, StoredType, StartupType, PanelType,
                    finger, stored, startup, panel
<1>5. /\ GhostType'
      /\ disturbed' \/ (clobbered' = clobbered /\ disturbed' = disturbed)
      /\ clobbered \subseteq clobbered'
      /\ mFodCircleVisible => Saved \subseteq clobbered'
  <2>1. mFodCircleVisible \in BOOLEAN
    BY <1>2 DEF FodType
  <2> QED BY <1>1, <2>1, LoseFacts
<1>6. \A n \in Node \ clobbered' : Effective(n)' = Effective(n)
  <2>1. ASSUME NEW n \in Saved, ~mFodCircleVisible PROVE Effective(n)' = Effective(n)
    BY <1>1, <2>1 DEF Effective, Covered, Held
  <2>2. ASSUME NEW n \in Node \ Saved PROVE Effective(n)' = Effective(n)
    BY <1>1 DEF Effective, Covered
  <2> QED BY <1>5, <2>1, <2>2
<1>7. HiddenIsClean' /\ prefs' \in OldPrefs
  BY <1>1 DEF HiddenIsClean, Held, IInv, stored
<1> QED BY <1>1, <1>3, <1>4, <1>5, <1>6, <1>7, EffectiveKept, TypeParts DEF IInv

LEMMA ShowEndsOK ==
  ASSUME IInv, ShowModes
  PROVE  IInv'
<1>1. /\ TypeOK /\ hal = "showing" /\ hal' = "idle" /\ mFodCircleVisible' = TRUE
      /\ vendorMode' = "fod"
      /\ UNCHANGED <<stored, startup, saved, finger, panel, ghosts>>
      /\ node' = [n \in Node |-> IF n = "wide" THEN 1 ELSE IF n \in Saved THEN 0 ELSE node[n]]
  BY DEF IInv, ShowModes
<1>2. NodeType /\ FodType /\ FingerType /\ StoredType /\ StartupType /\ PanelType /\ GhostType
  BY <1>1, TypeParts
<1>3. NodeType'
  BY <1>1, <1>2 DEF NodeType
<1>4. FodType'
  BY <1>1, <1>2 DEF FodType
<1>5. FingerType' /\ StoredType' /\ StartupType' /\ PanelType' /\ GhostType'
  BY <1>1, <1>2 DEF FingerType, StoredType, StartupType, PanelType, GhostType,
                    finger, stored, startup, panel, ghosts
<1>6. \A n \in Node : Effective(n)' = Effective(n)
  BY <1>1 DEF Effective, Covered, Held
<1>7. HiddenIsClean' /\ prefs' \in OldPrefs
  BY <1>1 DEF HiddenIsClean, Held, IInv, stored
<1>8. clobbered' = clobbered /\ disturbed' = disturbed /\ night' = night
  BY <1>1 DEF ghosts
<1> QED BY <1>1, <1>3, <1>4, <1>5, <1>6, <1>7, <1>8, EffectiveKept, TypeParts DEF IInv

LEMMA HideStartsOK ==
  ASSUME IInv, onHideFODView
  PROVE  IInv'
<1>1. /\ TypeOK /\ hal = "idle" /\ hal' = "hiding" /\ Lose(~mFodCircleVisible)
      /\ mFodCircleVisible' = FALSE
      /\ UNCHANGED <<node, stored, startup, saved, vendorMode, finger, panel, night>>
  BY DEF IInv, onHideFODView
<1>2. NodeType /\ FodType /\ FingerType /\ StoredType /\ StartupType /\ PanelType
  BY <1>1, TypeParts
<1>3. FodType'
  BY <1>1, <1>2 DEF FodType
<1>4. NodeType' /\ FingerType' /\ StoredType' /\ StartupType' /\ PanelType'
  BY <1>1, <1>2 DEF NodeType, FingerType, StoredType, StartupType, PanelType,
                    finger, stored, startup, panel
<1>5. /\ GhostType'
      /\ disturbed' \/ (clobbered' = clobbered /\ disturbed' = disturbed)
      /\ clobbered \subseteq clobbered'
      /\ ~mFodCircleVisible => Saved \subseteq clobbered'
  BY <1>1, LoseFacts
<1>6. \A n \in Node \ clobbered' : Effective(n)' = Effective(n)
  <2>1. ASSUME NEW n \in Saved, mFodCircleVisible PROVE Effective(n)' = Effective(n)
    BY <1>1, <2>1 DEF Effective, Covered, Held
  <2>2. ASSUME NEW n \in Node \ Saved PROVE Effective(n)' = Effective(n)
    BY <1>1 DEF Effective, Covered
  <2> QED BY <1>5, <2>1, <2>2
<1>7. HiddenIsClean' /\ prefs' \in OldPrefs
  BY <1>1 DEF HiddenIsClean, Held, IInv, stored
<1> QED BY <1>1, <1>3, <1>4, <1>5, <1>6, <1>7, EffectiveKept, TypeParts DEF IInv

LEMMA HideEndsOK ==
  ASSUME IInv, HideModes
  PROVE  IInv'
<1>1. /\ TypeOK /\ hal = "hiding" /\ hal' = "idle" /\ vendorMode' = "normal"
      /\ UNCHANGED <<stored, startup, mFodCircleVisible, saved, mIsEnrolling, mCallback, calls,
                     panel, ghosts>>
      /\ dim' = 0 /\ press' = 0 /\ late' = FALSE
      /\ node' = [n \in Node |-> IF n \in Saved THEN saved[n] ELSE node[n]]
  BY DEF IInv, HideModes, FingerOff, RestoredModes
<1>2. NodeType /\ FodType /\ FingerType /\ StoredType /\ StartupType /\ PanelType /\ GhostType
  BY <1>1, TypeParts
<1>3. NodeType'
  <2>1. \A n \in Saved : saved[n] \in {0, 1}
    BY <1>2 DEF FodType
  <2>2. \A n \in Node : node'[n] = IF n \in Saved THEN saved[n] ELSE node[n]
    BY <1>1
  <2>3. \A n \in Node : node'[n] \in Value /\ (n # "hbm" => node'[n] # 5)
    BY <1>2, <2>1, <2>2 DEF NodeType
  <2>4. node' \in [Node -> Value]
    BY <1>1, <2>2, <2>3
  <2> QED BY <2>3, <2>4 DEF NodeType
<1>4. FodType'
  BY <1>1, <1>2 DEF FodType
<1>5. FingerType' /\ StoredType' /\ StartupType' /\ PanelType' /\ GhostType'
  BY <1>1, <1>2 DEF FingerType, StoredType, StartupType, PanelType, GhostType,
                    stored, startup, panel, ghosts
<1>6. \A n \in Node : Effective(n)' = Effective(n)
  BY <1>1 DEF Effective, Covered, Held
<1>7. HiddenIsClean' /\ prefs' \in OldPrefs
  BY <1>1 DEF HiddenIsClean, IInv, stored
<1>8. clobbered' = clobbered /\ disturbed' = disturbed /\ night' = night
  BY <1>1 DEF ghosts
<1> QED BY <1>1, <1>3, <1>4, <1>5, <1>6, <1>7, <1>8, EffectiveKept, TypeParts DEF IInv

LEMMA HalRestartOK ==
  ASSUME IInv, HalRestart
  PROVE  IInv'
<1>1. /\ TypeOK
      /\ UNCHANGED <<node, stored, startup, vendorMode, dim, press, calls, panel, night>>
      /\ mFodCircleVisible' = FALSE /\ hal' = "idle" /\ Lose(Held)
      /\ saved' = [n \in Saved |-> 0] /\ mIsEnrolling' = FALSE /\ mCallback' = FALSE
      /\ late' = (late \/ Held)
  BY DEF IInv, HalRestart
<1>2. NodeType /\ FodType /\ FingerType /\ StoredType /\ StartupType /\ PanelType
  BY <1>1, TypeParts
<1>3. FodType' /\ NodeType'
  BY <1>1, <1>2 DEF FodType, NodeType
<1>4. Held \in BOOLEAN
  BY <1>2 DEF FodType, Held
<1>5. FingerType' /\ StoredType' /\ StartupType' /\ PanelType'
  BY <1>1, <1>2, <1>4 DEF FingerType, StoredType, StartupType, PanelType,
                          stored, startup, panel
<1>6. /\ GhostType'
      /\ disturbed' \/ (clobbered' = clobbered /\ disturbed' = disturbed)
      /\ clobbered \subseteq clobbered'
      /\ Held => Saved \subseteq clobbered'
  BY <1>1, <1>4, LoseFacts
<1>7. \A n \in Node \ clobbered' : Effective(n)' = Effective(n)
  <2>1. ~Held'
    BY <1>1 DEF Held
  <2>2. ASSUME NEW n \in Node, ~Held \/ n \notin Saved PROVE Effective(n)' = Effective(n)
    BY <1>1, <2>1, <2>2 DEF Effective, Covered
  <2> QED BY <1>6, <2>2
<1>8. HiddenIsClean' /\ prefs' \in OldPrefs
  BY <1>1 DEF HiddenIsClean, IInv, stored
<1> QED BY <1>1, <1>3, <1>5, <1>6, <1>7, <1>8, EffectiveKept, TypeParts DEF IInv

-----------------------------------------------------------------------------
(* The finger: no step of it touches a node, and after the hide, or when   *)
(* the HAL forgot the view, a late answer is told.                         *)
LEMMA FingerStep ==
  ASSUME IInv, UNCHANGED AllButFinger, FingerType',
         ~Held /\ ~late' => ~late /\ dim' = dim /\ press' = press
  PROVE  IInv'
<1>1. UNCHANGED <<node, stored, startup, fod, panel, ghosts>>
  BY DEF AllButFinger
<1>2. TypeOK'
  BY <1>1, TypeParts DEF IInv, NodeType, FodType, StoredType, StartupType, PanelType, GhostType,
                         stored, startup, fod, panel, ghosts
<1>3. \A n \in Node : Effective(n)' = Effective(n)
  BY <1>1 DEF Effective, Covered, Held, fod
<1>4. NodesInv' /\ OrderInv' /\ ModeInv' /\ prefs' \in OldPrefs
  BY <1>1, <1>3, EffectiveKept DEF IInv, stored, ghosts
<1>5. HiddenIsClean'
  BY <1>1 DEF IInv, HiddenIsClean, Held, fod
<1> QED BY <1>2, <1>4, <1>5 DEF IInv

LEMMA FingerOK ==
  ASSUME IInv,
         \/ \E on \in BOOLEAN : Enroll(on)
         \/ setCallback \/ onPress \/ onRelease
         \/ \E call \in {"press", "release"} : handleAcquired(call)
  PROVE  IInv'
<1>1. FingerType /\ FodType
  BY TypeParts DEF IInv
<1>2. ASSUME NEW on \in BOOLEAN, Enroll(on) PROVE IInv'
  <2>1. FingerType'
    BY <1>1, <1>2 DEF FingerType, Enroll
  <2> QED BY <1>2, <2>1, FingerStep DEF Enroll, Held
<1>3. ASSUME setCallback PROVE IInv'
  <2>1. FingerType'
    BY <1>1, <1>3 DEF FingerType, setCallback
  <2> QED BY <1>3, <2>1, FingerStep DEF setCallback, Held
<1>4. ASSUME NEW call \in {"press", "release"}, handleAcquired(call) PROVE IInv'
  <2>1. calls \in Seq({"press", "release"}) /\ Len(calls) < 2 /\ calls' = Append(calls, call)
    BY <1>1, <1>4 DEF FingerType, handleAcquired
  <2>2. calls' \in Seq({"press", "release"}) /\ Len(calls') <= 2
    BY <2>1
  <2>3. FingerType'
    BY <1>1, <1>4, <2>2 DEF FingerType, handleAcquired
  <2> QED BY <1>4, <2>3, FingerStep DEF handleAcquired, Held
<1>5. calls # <<>> /\ calls' = Tail(calls) =>
        calls' \in Seq({"press", "release"}) /\ Len(calls') <= MaxCall
  BY <1>1 DEF FingerType
<1>6. ASSUME onPress PROVE IInv'
  <2>1. calls' \in Seq({"press", "release"}) /\ Len(calls') <= MaxCall
    BY <1>5, <1>6 DEF onPress
  <2>2. /\ dim' \in {0, 5, 8} /\ press' \in {0, 1} /\ mIsEnrolling' = mIsEnrolling
        /\ mCallback' = mCallback /\ late' \in BOOLEAN
    BY <1>1, <1>6 DEF onPress, FingerType, FodType
  <2>3. FingerType'
    BY <1>1, <2>1, <2>2 DEF FingerType
  <2> QED BY <1>6, <2>3, FingerStep DEF onPress, Held
<1>7. ASSUME onRelease PROVE IInv'
  <2>1. calls' \in Seq({"press", "release"}) /\ Len(calls') <= MaxCall
    BY <1>5, <1>7 DEF onRelease
  <2>2. /\ dim' \in {0, 5, 8} /\ press' \in {0, 1} /\ mIsEnrolling' = mIsEnrolling
        /\ mCallback' = mCallback /\ late' \in BOOLEAN
    BY <1>1, <1>7 DEF onRelease, FingerType, FodType
  <2>3. FingerType'
    BY <1>1, <2>1, <2>2 DEF FingerType
  <2> QED BY <1>7, <2>3, FingerStep DEF onRelease, Held
<1> QED BY <1>2, <1>3, <1>4, <1>6, <1>7

-----------------------------------------------------------------------------
(* DeviceParts: none of its steps touches the view or the finger.          *)
LEMMA ViewKept ==
  ASSUME IInv, UNCHANGED <<fod, finger>>
  PROVE  FingerType' /\ FodType' /\ HiddenIsClean'
BY TypeParts DEF IInv, FingerType, FodType, HiddenIsClean, Held, fod, finger

(* A write of a node.                                                      *)
LEMMA WriteFacts ==
  ASSUME IInv, NEW n \in Node, NEW v \in Value, n = "hbm" \/ v # 5, NEW wrong \in BOOLEAN,
         Write(n, v, wrong), UNCHANGED fod
  PROVE  /\ NodeType' /\ clobbered' \subseteq Node /\ disturbed' \in BOOLEAN
         /\ \A m \in Node \ {n} : Effective(m)' = Effective(m)
         /\ clobbered' \ {n} = clobbered \ {n}
         /\ n \notin clobbered' => ~wrong /\ Effective(n)' = v
         /\ ~disturbed' => ~disturbed /\ (n \in Panel => n \notin clobbered')
<1>1. NodeType /\ GhostType
  BY TypeParts DEF IInv
<1>2. /\ node' = [node EXCEPT ![n] = v]
      /\ clobbered' = IF wrong \/ Covered(n) THEN clobbered \cup {n} ELSE clobbered \ {n}
      /\ disturbed' = (disturbed \/ (n \in Panel /\ (wrong \/ Covered(n))))
  BY DEF Write
<1>3. /\ node' \in [Node -> Value] /\ node'[n] = v
      /\ \A m \in Node \ {n} : node'[m] = node[m]
  BY <1>1, <1>2 DEF NodeType
<1>4. NodeType'
  BY <1>1, <1>3 DEF NodeType
<1>5. \A m \in Node \ {n} : Effective(m)' = Effective(m)
  BY <1>3 DEF Effective, Covered, Held, fod
<1>6. ~Covered(n) => Effective(n)' = v
  BY <1>3 DEF Effective, Covered, Held, fod
<1>7. n \notin clobbered' => ~wrong /\ ~Covered(n)
  BY <1>2
<1>8. ~disturbed' => ~disturbed /\ (n \in Panel => n \notin clobbered')
  BY <1>1, <1>2 DEF GhostType
<1>9. clobbered' \subseteq Node /\ disturbed' \in BOOLEAN
  BY <1>1, <1>2 DEF GhostType, Covered, Held
<1>10. clobbered' \ {n} = clobbered \ {n}
  BY <1>2
<1> QED BY <1>4, <1>5, <1>6, <1>7, <1>8, <1>9, <1>10

(* The first of PanelSettings' two writes.                                 *)
LEMMA WriteFirstFacts ==
  ASSUME IInv, NEW n \in Panel, NEW v \in {0, 1}, switching = NoSwitch, WriteFirst(n, v),
         UNCHANGED <<stored, startup, fod, night>>
  PROVE  /\ NodeType' /\ GhostType' /\ NodesInv' /\ switching' = <<n, v>>
         /\ switching' \in Switches
         /\ ~disturbed' => /\ ~disturbed /\ clobbered' \cap Panel = {}
                           /\ \A m \in Panel \ {n} : Effective(m)' = Effective(m)
<1>a. Write(n, v, FALSE) /\ switching' = <<n, v>>
  BY DEF WriteFirst
<1>b. n \in Node /\ v \in Value /\ v # 5
  OBVIOUS
<1>1. switching' = <<n, v>> /\ n \in Node /\ v \in Value /\ v # 5
  BY <1>a, <1>b
<1>2. /\ NodeType' /\ clobbered' \subseteq Node /\ disturbed' \in BOOLEAN
      /\ \A m \in Node \ {n} : Effective(m)' = Effective(m)
      /\ clobbered' \ {n} = clobbered \ {n}
      /\ n \notin clobbered' => Effective(n)' = v
      /\ ~disturbed' => ~disturbed /\ (n \in Panel => n \notin clobbered')
  BY <1>a, <1>b, WriteFacts
<1>3. NodesInv /\ ModeInv /\ PanelType /\ GhostType
  BY TypeParts DEF IInv
<1>4. GhostType'
  BY <1>2, <1>3 DEF GhostType
<1>5. <<n, v>> \in Switches /\ <<n, v>> # NoSwitch /\ <<n, v>>[1] = n /\ <<n, v>>[2] = v
  BY <1>1, <1>3, SwitchFacts
<1>6. \A m \in Node \ {n} : ~(Switching(m)') /\ ~Switching(m)
  BY <1>1, <1>5 DEF Switching
<1>7. Switching(n)' /\ switching'[2] = v
  BY <1>1, <1>5 DEF Switching
<1>8. NodesInv'
  <2>1. ASSUME NEW m \in Stored, Done(m)', m \notin clobbered' PROVE Follows(m)'
    <3>1. Done(m) /\ setting'[m] = setting[m]
      BY <2>1 DEF Done, startup, stored
    <3>2. CASE m = n
      BY <1>2, <1>7, <2>1, <3>2 DEF Follows
    <3>3. CASE m # n
      BY <1>2, <1>3, <1>6, <2>1, <3>1, <3>3 DEF Follows, NodesInv
    <3> QED BY <3>2, <3>3
  <2>2. "night" \notin clobbered' => Effective("night")' = night'
    BY <1>2, <1>3 DEF NodesInv
  <2> QED BY <2>1, <2>2 DEF NodesInv
<1>9. ~disturbed' => /\ ~disturbed /\ clobbered' \cap Panel = {}
                     /\ \A m \in Panel \ {n} : Effective(m)' = Effective(m)
  BY <1>2, <1>3 DEF ModeInv
<1> QED BY <1>1, <1>2, <1>4, <1>5, <1>8, <1>9

(* The mode in use is the only one that is on.                             *)
LEMMA CheckedOK ==
  ASSUME IInv, NEW mode \in Panel \cup {"off"}, onCheckedChanged(mode)
  PROVE  IInv'
<1>1. /\ mCurrentMode \notin {"closed", mode} /\ StartupDone /\ checking = "none"
      /\ switching = NoSwitch /\ disableCurrenMode /\ checking' = mode
      /\ UNCHANGED <<stored, startup, fod, finger, mCurrentMode, night>>
  BY DEF onCheckedChanged, MainThreadFree
<1>2. PanelType /\ StoredType /\ StartupType /\ NodesInv /\ OrderInv /\ ModeInv /\ GhostType
      /\ NodeType
  BY TypeParts DEF IInv
<1>3. mCurrentMode' \in Panel \cup {"closed", "off"} /\ checking' \in Panel \cup {"none", "off"}
  BY <1>1, <1>2 DEF PanelType
<1>4. StoredType' /\ StartupType' /\ prefs' \in OldPrefs
  BY <1>1, <1>2 DEF StoredType, StartupType, stored, startup, IInv
<1>5. StartupDone' /\ (booted' /\ importing' = 0 => imported')
      /\ (importing' # 0 => booted' /\ ~imported')
      /\ (~imported' => \A n \in Stored : setting'[n] # 0 => n \in prefs')
  BY <1>1, <1>2 DEF StartupDone, stored, startup, OrderInv
<1>6. CASE mCurrentMode \in Panel
  <2>1. WriteFirst(mCurrentMode, 0) /\ mCurrentMode \in Panel /\ 0 \in {0, 1}
    BY <1>1, <1>6 DEF disableCurrenMode
  <2>2. /\ NodeType' /\ GhostType' /\ NodesInv' /\ switching' = <<mCurrentMode, 0>>
        /\ switching' \in Switches
        /\ ~disturbed' =>
              /\ ~disturbed /\ clobbered' \cap Panel = {}
              /\ \A m \in Panel \ {mCurrentMode} : Effective(m)' = Effective(m)
    BY <1>1, <2>1, WriteFirstFacts
  <2>3. switching' # NoSwitch /\ switching'[1] = mCurrentMode /\ switching'[2] = 0
    BY <1>2, <2>1, <2>2, SwitchFacts
  <2>4. TypeOK'
    BY <1>1, <1>3, <1>4, <2>2, ViewKept, TypeParts DEF PanelType
  <2>5. OrderInv'
    <3>1. switching'[1] \in Panel /\ checking' # "none" /\ switching'[2] = 0
          /\ switching'[1] = mCurrentMode' /\ mCurrentMode' # checking'
      BY <1>1, <2>1, <2>3
    <3> QED BY <1>5, <3>1 DEF OrderInv
  <2>6. ModeInv'
    <3>1. ASSUME ~disturbed', OnePref' PROVE OneIsOn'
      <4>1. OneIsOn /\ setting' = setting
        BY <1>1, <1>2, <2>2, <3>1 DEF ModeInv, OnePref, stored
      <4>2. \A n \in Panel : ~Switching(n)
        BY <1>1 DEF Switching
      <4>3. \A n \in Panel : setting[n] # 0 => switching' = <<n, 0>>
        BY <1>1, <2>2, <4>1 DEF OneIsOn
      <4>4. \A n \in Panel : Effective(n)' # 0 => setting[n] # 0 \/ Switching(n)'
        BY <2>2, <2>3, <3>1, <4>1, <4>2 DEF OneIsOn, Switching
      <4> QED BY <1>1, <4>1, <4>3, <4>4 DEF OneIsOn
    <3> QED BY <2>2, <3>1 DEF ModeInv
  <2> QED BY <1>1, <1>4, <2>2, <2>4, <2>5, <2>6, ViewKept DEF IInv
<1>7. CASE mCurrentMode \notin Panel
  <2>1. UNCHANGED <<node, clobbered, disturbed, switching>>
    BY <1>1, <1>7 DEF disableCurrenMode
  <2>2. NodeType' /\ GhostType' /\ PanelType'
    BY <1>1, <1>2, <1>3, <2>1 DEF NodeType, GhostType, PanelType
  <2>3. TypeOK'
    BY <1>1, <1>4, <2>2, ViewKept, TypeParts
  <2>4. \A n \in Node : Effective(n)' = Effective(n)
    BY <1>1, <2>1 DEF Effective, Covered, Held, fod
  <2>5. NodesInv'
    BY <1>1, <1>2, <2>1, <2>4 DEF NodesInv, Done, Follows, Switching, startup, stored
  <2>6. OrderInv'
    BY <1>1, <1>5, <2>1 DEF OrderInv
  <2>7. ModeInv'
    <3>1. ASSUME ~disturbed', OnePref' PROVE OneIsOn'
      <4>1. OneIsOn /\ setting' = setting
        BY <1>1, <1>2, <2>1, <3>1 DEF ModeInv, OnePref, stored
      <4>2. \A n \in Panel : setting[n] = 0
        BY <1>1, <1>7, <4>1 DEF OneIsOn
      <4> QED BY <1>1, <2>1, <2>4, <4>1, <4>2 DEF OneIsOn, Switching
    <3> QED BY <1>2, <2>1, <3>1 DEF ModeInv, OnePref
  <2> QED BY <1>1, <1>4, <2>3, <2>5, <2>6, <2>7, ViewKept DEF IInv
<1> QED BY <1>6, <1>7

LEMMA EnableOK ==
  ASSUME IInv, EnableMode
  PROVE  IInv'
<1>1. /\ checking # "none" /\ switching = NoSwitch
      /\ UNCHANGED <<stored, startup, fod, finger, night>>
  BY DEF EnableMode
<1>2. PanelType /\ StoredType /\ StartupType /\ NodesInv /\ OrderInv /\ ModeInv /\ GhostType
      /\ NodeType
  BY TypeParts DEF IInv
<1>3. StoredType' /\ StartupType' /\ prefs' \in OldPrefs
  BY <1>1, <1>2 DEF StoredType, StartupType, stored, startup, IInv
<1>4. StartupDone' /\ (booted' /\ importing' = 0 => imported')
      /\ (importing' # 0 => booted' /\ ~imported')
      /\ (~imported' => \A n \in Stored : setting'[n] # 0 => n \in prefs')
  BY <1>1, <1>2 DEF StartupDone, stored, startup, OrderInv
<1>5. ASSUME ~disturbed, OnePref PROVE \A n \in Panel : setting[n] = 0
  <2>1. OneIsOn
    BY <1>2, <1>5 DEF ModeInv
  <2>2. \A n \in Panel : switching # <<n, 0>>
    BY <1>1, <1>2, SwitchFacts
  <2> QED BY <1>1, <2>1, <2>2 DEF OneIsOn
<1>6. CASE checking # "off"
  <2>1. WriteFirst(checking, 1) /\ mCurrentMode' = mCurrentMode /\ checking' = checking
    BY <1>6 DEF EnableMode
  <2>2. checking \in Panel /\ 1 \in {0, 1}
    BY <1>1, <1>2, <1>6 DEF PanelType
  <2>3. /\ NodeType' /\ GhostType' /\ NodesInv' /\ switching' = <<checking, 1>>
        /\ switching' \in Switches
        /\ ~disturbed' =>
              /\ ~disturbed /\ clobbered' \cap Panel = {}
              /\ \A m \in Panel \ {checking} : Effective(m)' = Effective(m)
    BY <1>1, <2>1, <2>2, WriteFirstFacts
  <2>4. switching' # NoSwitch /\ switching'[1] = checking /\ switching'[2] = 1
    BY <1>2, <2>2, <2>3, SwitchFacts
  <2>5. TypeOK'
    BY <1>1, <1>2, <1>3, <2>1, <2>3, ViewKept, TypeParts DEF PanelType
  <2>6. OrderInv'
    BY <1>1, <1>4, <2>1, <2>2, <2>4 DEF OrderInv
  <2>7. ModeInv'
    <3>1. ASSUME ~disturbed', OnePref' PROVE OneIsOn'
      <4>1. OneIsOn /\ setting' = setting /\ \A n \in Panel : setting[n] = 0
        BY <1>1, <1>2, <1>5, <2>3, <3>1 DEF ModeInv, OnePref, stored
      <4>2. \A n \in Panel : Effective(n)' # 0 => Switching(n)'
        BY <1>1, <2>3, <2>4, <3>1, <4>1 DEF OneIsOn, Switching
      <4> QED BY <4>1, <4>2 DEF OneIsOn
    <3> QED BY <2>3, <3>1 DEF ModeInv
  <2> QED BY <1>1, <1>3, <2>3, <2>5, <2>6, <2>7, ViewKept DEF IInv
<1>7. CASE checking = "off"
  <2>1. /\ mCurrentMode' = "off" /\ checking' = "none"
        /\ UNCHANGED <<node, clobbered, disturbed, switching>>
    BY <1>7 DEF EnableMode, Enabled
  <2>2. NodeType' /\ GhostType' /\ PanelType'
    BY <1>1, <1>2, <2>1 DEF NodeType, GhostType, PanelType
  <2>3. TypeOK'
    BY <1>1, <1>3, <2>2, ViewKept, TypeParts
  <2>4. \A n \in Node : Effective(n)' = Effective(n)
    BY <1>1, <2>1 DEF Effective, Covered, Held, fod
  <2>5. NodesInv'
    BY <1>1, <1>2, <2>1, <2>4 DEF NodesInv, Done, Follows, Switching, startup, stored
  <2>6. OrderInv'
    BY <1>1, <1>4, <2>1 DEF OrderInv
  <2>7. ModeInv'
    <3>1. ASSUME ~disturbed', OnePref' PROVE OneIsOn'
      <4>1. OneIsOn /\ setting' = setting /\ \A n \in Panel : setting[n] = 0
        BY <1>1, <1>2, <1>5, <2>1, <3>1 DEF ModeInv, OnePref, stored
      <4> QED BY <1>1, <2>1, <2>4, <4>1 DEF OneIsOn, Switching
    <3> QED BY <1>2, <2>1, <3>1 DEF ModeInv, OnePref
  <2> QED BY <1>1, <1>3, <2>3, <2>5, <2>6, <2>7, ViewKept DEF IInv
<1> QED BY <1>6, <1>7

(* ... and the second.                                                     *)
LEMMA PutIntOK ==
  ASSUME IInv, PutInt
  PROVE  IInv'
<1> DEFINE n == switching[1]
           v == switching[2]
<1>1. /\ switching # NoSwitch /\ n \in Panel /\ switching' = NoSwitch
      /\ setting' = [setting EXCEPT ![n] = v]
      /\ IF n = checking THEN mCurrentMode' = checking /\ checking' = "none"
                         ELSE UNCHANGED <<mCurrentMode, checking>>
      /\ UNCHANGED <<node, prefs, imported, startup, fod, finger, ghosts>>
  BY DEF PutInt, Enabled
<1>2. PanelType /\ StoredType /\ StartupType /\ NodesInv /\ OrderInv /\ ModeInv /\ GhostType
      /\ NodeType
  BY TypeParts DEF IInv
<1>3. /\ n \in Stored /\ v \in {0, 1} /\ v \in Value /\ NoSwitch \in Switches
      /\ switching = <<n, v>>
  BY <1>1, <1>2, SwitchFacts
<1>4. /\ checking # "none"
      /\ v = 0 => n = mCurrentMode /\ mCurrentMode # checking
      /\ v = 1 => n = checking
  BY <1>1, <1>2 DEF OrderInv
<1>5. StartupDone /\ imported
  BY <1>1, <1>2 DEF OrderInv, StartupDone
<1>6. \A m \in Stored : Switching(m) <=> m = n
  BY <1>1 DEF Switching
<1> HIDE DEF n, v
<1>7. /\ setting' \in [Stored -> Value] /\ setting'[n] = v
      /\ \A m \in Stored \ {n} : setting'[m] = setting[m]
  BY <1>1, <1>2, <1>3 DEF StoredType
<1>8. TypeOK'
  <2>1. StoredType' /\ StartupType' /\ NodeType' /\ GhostType'
    BY <1>1, <1>2, <1>7 DEF StoredType, StartupType, NodeType, GhostType, startup, ghosts
  <2>2. PanelType'
    BY <1>1, <1>2, <1>3 DEF PanelType
  <2> QED BY <1>1, <2>1, <2>2, ViewKept, TypeParts
<1>9. \A m \in Node : Effective(m)' = Effective(m)
  BY <1>1 DEF Effective, Covered, Held, fod
<1>10. \A m \in Stored : ~(Switching(m)')
  BY <1>1 DEF Switching
<1>11. \A m \in Stored : Done(m)
  BY <1>5 DEF StartupDone, Done
<1>12. n \notin clobbered => Effective(n) = v
  BY <1>1, <1>2, <1>3, <1>6, <1>11 DEF NodesInv, Follows, v
<1>13. NodesInv'
  <2>1. ASSUME NEW m \in Stored, m \notin clobbered' PROVE Follows(m)'
    <3>1. m \notin clobbered /\ Effective(m)' = Effective(m)
      BY <1>1, <1>9, <2>1 DEF ghosts
    <3>2. CASE m = n
      BY <1>7, <1>10, <1>12, <3>1, <3>2 DEF Follows
    <3>3. CASE m # n
      <4>1. Effective(m) # 0 <=> setting[m] # 0
        BY <1>2, <1>6, <1>11, <3>1, <3>3 DEF NodesInv, Follows
      <4> QED BY <1>7, <1>10, <3>1, <3>3, <4>1 DEF Follows
    <3> QED BY <3>2, <3>3
  <2>2. "night" \notin clobbered' => Effective("night")' = night'
    BY <1>1, <1>2, <1>9 DEF NodesInv, ghosts
  <2> QED BY <2>1, <2>2 DEF NodesInv
<1>14. OrderInv'
  <2>1. booted' = booted /\ importing' = importing /\ imported' /\ StartupDone'
    BY <1>1, <1>5 DEF startup, StartupDone
  <2> QED BY <1>1, <1>2, <1>5, <2>1 DEF OrderInv
<1>15. ModeInv'
  <2>1. ASSUME ~disturbed', OnePref' PROVE OneIsOn'
    <3>1. OneIsOn /\ n \notin clobbered
      BY <1>1, <1>2, <2>1 DEF ModeInv, OnePref, ghosts
    <3>2. \A m \in Panel : setting[m] # 0 => m = n /\ v = 0
      BY <1>3, <1>4, <3>1 DEF OneIsOn
    <3>3. \A m \in Panel : setting'[m] # 0 => m = n /\ v = 1
      BY <1>3, <1>7, <3>2
    <3>4. \A m \in Panel : Effective(m)' # 0 => setting'[m] # 0
      <4>1. ASSUME NEW m \in Panel, Effective(m)' # 0 PROVE setting'[m] # 0
        <5>1. Effective(m) # 0 /\ m \in Stored /\ m \in Node
          BY <1>9, <4>1
        <5>2. m = n
          BY <1>6, <3>1, <3>2, <5>1 DEF OneIsOn
        <5> QED BY <1>7, <1>12, <3>1, <5>1, <5>2
      <4> QED BY <4>1
    <3> QED BY <1>1, <1>4, <3>3, <3>4 DEF OneIsOn
  <2> QED BY <1>1, <1>2, <2>1 DEF ModeInv, ghosts, OnePref
<1> QED BY <1>1, <1>8, <1>13, <1>14, <1>15, ViewKept DEF IInv

(* The other switches.                                                     *)
LEMMA PutFirstOK ==
  ASSUME IInv, NEW n \in {"dcd", "hbm"}, NEW v \in Value, IF n = "hbm" THEN v # 1 ELSE v # 5,
         PutFirst(n, v)
  PROVE  IInv'
<1>1. /\ StartupDone /\ checking = "none" /\ switching = NoSwitch
      /\ setting' = [setting EXCEPT ![n] = v] /\ switching' = <<n, v>>
      /\ UNCHANGED <<node, prefs, imported, startup, fod, finger, mCurrentMode, checking, ghosts>>
  BY DEF PutFirst, MainThreadFree
<1>2. PanelType /\ StoredType /\ StartupType /\ NodesInv /\ OrderInv /\ ModeInv /\ GhostType
      /\ NodeType
  BY TypeParts DEF IInv
<1>3. /\ <<n, v>> \in Switches /\ <<n, v>> # NoSwitch /\ <<n, v>>[1] = n /\ <<n, v>>[2] = v
      /\ n \in Stored /\ n \notin Panel
  <2>1. n \in Stored /\ n \notin Panel
    OBVIOUS
  <2> QED BY <1>2, <2>1, SwitchFacts
<1>4. /\ setting' \in [Stored -> Value] /\ setting'[n] = v
      /\ \A m \in Stored \ {n} : setting'[m] = setting[m]
  BY <1>1, <1>2, <1>3 DEF StoredType
<1>5. TypeOK'
  <2>1. StoredType' /\ StartupType' /\ NodeType' /\ GhostType'
    BY <1>1, <1>2, <1>4 DEF StoredType, StartupType, NodeType, GhostType, startup, ghosts
  <2>2. PanelType'
    BY <1>1, <1>2, <1>3 DEF PanelType
  <2> QED BY <1>1, <2>1, <2>2, ViewKept, TypeParts
<1>6. \A m \in Node : Effective(m)' = Effective(m)
  BY <1>1 DEF Effective, Covered, Held, fod
<1>7. \A m \in Stored : ~Switching(m) /\ (Switching(m)' <=> m = n)
  BY <1>1, <1>3 DEF Switching
<1>8. NodesInv'
  <2>1. ASSUME NEW m \in Stored, Done(m)', m \notin clobbered' PROVE Follows(m)'
    <3>1. Done(m) /\ m \notin clobbered /\ Effective(m)' = Effective(m)
      BY <1>1, <1>6, <2>1 DEF Done, startup, ghosts
    <3>2. CASE m = n
      BY <1>3, <1>7, <3>2 DEF Follows
    <3>3. CASE m # n
      <4>1. Effective(m) # 0 <=> setting[m] # 0
        BY <1>2, <1>7, <3>1 DEF NodesInv, Follows
      <4> QED BY <1>4, <1>7, <3>1, <3>3, <4>1 DEF Follows
    <3> QED BY <3>2, <3>3
  <2>2. "night" \notin clobbered' => Effective("night")' = night'
    BY <1>1, <1>2, <1>6 DEF NodesInv, ghosts
  <2> QED BY <2>1, <2>2 DEF NodesInv
<1>9. OrderInv'
  <2>1. StartupDone' /\ imported /\ imported' /\ (importing' # 0 => booted' /\ ~imported')
    BY <1>1, <1>2 DEF OrderInv, startup, StartupDone
  <2> QED BY <1>1, <1>3, <1>4, <2>1 DEF OrderInv
<1>10. ModeInv'
  <2>1. ASSUME ~disturbed', OnePref' PROVE OneIsOn'
    <3>1. OneIsOn
      BY <1>1, <1>2, <2>1 DEF ModeInv, OnePref, ghosts
    <3>2. \A m \in Panel : setting'[m] = setting[m] /\ m \in Stored /\ m \in Node
      BY <1>3, <1>4
    <3> QED BY <1>1, <1>6, <1>7, <3>1, <3>2 DEF OneIsOn
  <2> QED BY <1>1, <1>2, <2>1 DEF ModeInv, ghosts, OnePref
<1> QED BY <1>1, <1>5, <1>8, <1>9, <1>10, ViewKept DEF IInv

LEMMA SwitchOK ==
  ASSUME IInv, NEW enabled \in BOOLEAN, DCDModeSwitch(enabled) \/ HBMModeSwitch(enabled)
  PROVE  IInv'
<1>1. CASE DCDModeSwitch(enabled)
  <2>1. PutFirst("dcd", Flag(enabled)) /\ Flag(enabled) \in {0, 1}
    BY <1>1 DEF DCDModeSwitch, Flag
  <2> QED BY <2>1, PutFirstOK
<1>2. CASE HBMModeSwitch(enabled)
  <2>1. PICK v \in {0, 5} : PutFirst("hbm", v)
    BY <1>2 DEF HBMModeSwitch
  <2> QED BY <2>1, PutFirstOK
<1> QED BY <1>1, <1>2

(* A write of a node that is no panel mode, and changes nothing else.      *)
LEMMA OtherWriteOK ==
  ASSUME IInv, NEW n \in Node \ Panel, NEW v \in Value, n = "hbm" \/ v # 5,
         NEW wrong \in BOOLEAN, Write(n, v, wrong),
         UNCHANGED <<stored, startup, fod, finger, mCurrentMode, checking>>,
         switching' \in Switches, night' \in {0, 1},
         \A m \in Stored \ {n} : Switching(m)' <=> Switching(m),
         switching' = switching \/ (switching' = NoSwitch /\ Switching(n)),
         ~wrong /\ n \in Stored => (v # 0 <=> setting[n] # 0),
         IF n = "night" THEN v = night' ELSE night' = night
  PROVE  IInv'
<1>1. /\ NodeType' /\ clobbered' \subseteq Node /\ disturbed' \in BOOLEAN
      /\ \A m \in Node \ {n} : Effective(m)' = Effective(m)
      /\ clobbered' \ {n} = clobbered \ {n}
      /\ n \notin clobbered' => ~wrong /\ Effective(n)' = v
      /\ ~disturbed' => ~disturbed /\ (n \in Panel => n \notin clobbered')
  BY WriteFacts
<1>2. PanelType /\ StoredType /\ StartupType /\ NodesInv /\ OrderInv /\ ModeInv /\ GhostType
  BY TypeParts DEF IInv
<1>3. TypeOK'
  <2>1. StoredType' /\ StartupType' /\ GhostType'
    BY <1>1, <1>2 DEF StoredType, StartupType, GhostType, startup, stored
  <2>2. PanelType'
    BY <1>2 DEF PanelType
  <2> QED BY <1>1, <2>1, <2>2, ViewKept, TypeParts
<1>4. NodesInv'
  <2>1. ASSUME NEW m \in Stored, Done(m)', m \notin clobbered' PROVE Follows(m)'
    <3>1. Done(m) /\ setting' = setting /\ m \in Node
      BY <2>1 DEF Done, startup, stored
    <3>2. CASE m = n
      BY <1>1, <2>1, <3>1, <3>2 DEF Follows
    <3>3. CASE m # n
      <4>1. Follows(m) /\ Effective(m)' = Effective(m) /\ (Switching(m)' <=> Switching(m))
        BY <1>1, <1>2, <2>1, <3>1, <3>3 DEF NodesInv
      <4>2. Switching(m) => switching' = switching
        BY <3>3 DEF Switching
      <4> QED BY <3>1, <4>1, <4>2 DEF Follows
    <3> QED BY <3>2, <3>3
  <2>2. "night" \notin clobbered' => Effective("night")' = night'
    BY <1>1, <1>2 DEF NodesInv
  <2> QED BY <2>1, <2>2 DEF NodesInv
<1>5. OrderInv'
  <2>1. StartupDone' <=> StartupDone
    BY DEF startup, StartupDone
  <2> QED BY <1>2, <2>1 DEF OrderInv, startup, stored
<1>6. ModeInv'
  <2>1. ASSUME ~disturbed', OnePref' PROVE OneIsOn'
    <3>1. OneIsOn
      BY <1>1, <1>2, <2>1 DEF ModeInv, OnePref, stored
    <3>2. \A m \in Panel : switching = <<m, 0>> => switching' = <<m, 0>>
      <4>1. ASSUME NEW m \in Panel, switching = <<m, 0>> PROVE switching' = <<m, 0>>
        <5>1. ~Switching(n)
          BY <4>1 DEF Switching
        <5> QED BY <4>1, <5>1
      <4> QED BY <4>1
    <3>4. \A m \in Panel : m \in Node \ {n} /\ m \in Stored \ {n}
      OBVIOUS
    <3>5. \A m \in Panel : Effective(m)' # 0 => setting[m] # 0 \/ Switching(m)'
      BY <1>1, <3>1, <3>4 DEF OneIsOn
    <3>3. mCurrentMode' = mCurrentMode /\ checking' = checking /\ setting' = setting
      BY DEF stored
    <3> QED BY <3>1, <3>2, <3>3, <3>5 DEF OneIsOn
  <2> QED BY <1>1, <1>2, <2>1 DEF ModeInv
<1> QED BY <1>3, <1>4, <1>5, <1>6, ViewKept DEF IInv, stored

LEMMA WriteValueOK ==
  ASSUME IInv, WriteValue
  PROVE  IInv'
<1> DEFINE n == switching[1]
           v == switching[2]
<1>1. /\ switching # NoSwitch /\ n \notin Panel /\ switching' = NoSwitch
      /\ Write(n, v, FALSE)
      /\ UNCHANGED <<stored, startup, fod, finger, mCurrentMode, checking, night>>
  BY DEF WriteValue
<1>2. PanelType /\ OrderInv /\ GhostType
  BY TypeParts DEF IInv
<1>3. /\ n \in Stored /\ v \in Value /\ (n = "hbm" \/ v # 5) /\ setting[n] = v
      /\ NoSwitch \in Switches
  BY <1>1, <1>2, SwitchFacts DEF OrderInv
<1>4. \A m \in Stored \ {n} : Switching(m)' <=> Switching(m)
  BY <1>1 DEF Switching
<1>5. Switching(n) /\ night \in {0, 1}
  BY <1>1, <1>2 DEF Switching, GhostType
<1> HIDE DEF n, v
<1>6. n \in Node \ Panel /\ n # "night"
  BY <1>1, <1>3
<1> QED BY <1>1, <1>3, <1>4, <1>5, <1>6, OtherWriteOK

LEMMA TileOK ==
  ASSUME IInv, HBMModeTile
  PROVE  IInv'
<1>1. PICK v \in {0, 5} : Write("hbm", v, TRUE)
  BY DEF HBMModeTile
<1>2. UNCHANGED <<stored, startup, fod, finger, mCurrentMode, checking, switching, night>>
  BY DEF HBMModeTile, panel
<1>3. switching \in Switches /\ night \in {0, 1}
  BY TypeParts DEF IInv, PanelType, GhostType
<1>4. \A m \in Stored \ {"hbm"} : Switching(m)' <=> Switching(m)
  BY <1>2 DEF Switching
<1>5. "hbm" \in Node \ Panel /\ v \in Value
  OBVIOUS
<1> QED BY <1>1, <1>2, <1>3, <1>4, <1>5, OtherWriteOK

LEMMA NightOK ==
  ASSUME IInv, NEW v \in {0, 1}, NightMode(v)
  PROVE  IInv'
<1>1. Write("night", v, FALSE) /\ night' = v
  BY DEF NightMode
<1>2. UNCHANGED <<stored, startup, fod, finger, mCurrentMode, checking, switching>>
  BY DEF NightMode, panel
<1>3. switching \in Switches
  BY TypeParts DEF IInv, PanelType
<1>4. \A m \in Stored \ {"night"} : Switching(m)' <=> Switching(m)
  BY <1>2 DEF Switching
<1>5. /\ "night" \in Node \ Panel /\ "night" \notin Stored /\ v \in Value /\ v # 5
      /\ night' \in {0, 1}
  BY <1>1
<1> QED BY <1>1, <1>2, <1>3, <1>4, <1>5, OtherWriteOK

(* PanelSettings reads the nodes: of the settings, when it is undisturbed. *)
LEMMA ViewCreatedOK ==
  ASSUME IInv, onViewCreated
  PROVE  IInv'
<1>1. /\ StartupDone /\ checking = "none" /\ switching = NoSwitch
      /\ disturbed' = (disturbed \/ Held)
      /\ UNCHANGED <<node, stored, startup, fod, finger, checking, switching, night, clobbered>>
  BY DEF onViewCreated, MainThreadFree
<1>2. PanelType /\ StoredType /\ StartupType /\ NodesInv /\ OrderInv /\ ModeInv /\ GhostType
      /\ NodeType /\ FodType
  BY TypeParts DEF IInv
<1>3. /\ mCurrentMode' \in Panel \cup {"off"}
      /\ \A n \in Panel : node[n] # 0 => mCurrentMode' \in Panel /\ node[mCurrentMode'] # 0
  BY DEF onViewCreated
<1>4. Held \in BOOLEAN
  BY <1>2 DEF FodType, Held
<1>5. TypeOK'
  <2>1. NodeType' /\ StoredType' /\ StartupType' /\ GhostType'
    BY <1>1, <1>2, <1>4 DEF NodeType, StoredType, StartupType, GhostType, stored, startup
  <2>2. PanelType'
    BY <1>1, <1>2, <1>3 DEF PanelType
  <2> QED BY <1>1, <2>1, <2>2, ViewKept, TypeParts
<1>6. \A n \in Node : Effective(n)' = Effective(n)
  BY <1>1 DEF Effective, Covered, Held, fod
<1>7. NodesInv'
  BY <1>1, <1>2, <1>6 DEF NodesInv, Done, Follows, Switching, stored, startup
<1>8. OrderInv'
  <2>1. StartupDone'
    BY <1>1 DEF startup, StartupDone
  <2> QED BY <1>1, <1>2, <2>1 DEF OrderInv, startup, stored
<1>9. ModeInv'
  <2>1. ~disturbed' => ~disturbed /\ ~Held
    BY <1>1, <1>2, <1>4 DEF GhostType
  <2>2. ASSUME ~disturbed', OnePref' PROVE OneIsOn'
    <3>1. OneIsOn /\ clobbered \cap Panel = {}
      BY <1>1, <1>2, <2>1, <2>2 DEF ModeInv, OnePref, stored
    <3>2. \A n \in Panel : node[n] # 0 <=> setting[n] # 0
      <4>1. \A n \in Panel : Done(n) /\ ~Switching(n) /\ Effective(n) = node[n] /\ n \in Stored
        BY <1>1, <2>1, <2>2 DEF Done, StartupDone, Switching, Effective, Covered
      <4> QED BY <1>2, <3>1, <4>1 DEF NodesInv, Follows
    <3>3. \A n \in Panel : setting[n] # 0 => n = mCurrentMode'
      BY <1>3, <3>1, <3>2 DEF OneIsOn
    <3> QED BY <1>1, <1>6, <3>1, <3>3 DEF OneIsOn, Switching, stored
  <2> QED BY <1>1, <1>2, <2>1, <2>2 DEF ModeInv
<1> QED BY <1>1, <1>5, <1>7, <1>8, <1>9, ViewKept DEF IInv, stored

-----------------------------------------------------------------------------
(* A step of the restores or the import that writes no node.               *)
LEMMA ReceiverStep ==
  ASSUME IInv, UNCHANGED <<node, prefs, fod, finger, panel, ghosts>>,
         StartupType', setting' \in [Stored -> Value], imported' \in BOOLEAN, OrderInv',
         \A n \in Stored : Done(n)' => Done(n) /\ setting'[n] = setting[n],
         \A n \in Panel : setting[n] # 0 => setting'[n] # 0,
         \/ \A n \in Panel : setting'[n] = setting[n]
         \/ /\ mCurrentMode = "closed" /\ checking = "none"
            /\ \A n \in Panel : setting'[n] # 0 => n \in prefs
  PROVE  IInv'
<1>1. PanelType /\ StoredType /\ StartupType /\ NodesInv /\ OrderInv /\ ModeInv /\ GhostType
      /\ NodeType
  BY TypeParts DEF IInv
<1>2. TypeOK'
  BY <1>1, ViewKept, TypeParts DEF NodeType, StoredType, PanelType, GhostType, panel, ghosts
<1>3. \A n \in Node : Effective(n)' = Effective(n)
  BY DEF Effective, Covered, Held, fod
<1>4. \A n \in Stored : Switching(n)' <=> Switching(n)
  BY DEF Switching, panel
<1>5. NodesInv'
  <2>1. ASSUME NEW n \in Stored, Done(n)', n \notin clobbered' PROVE Follows(n)'
    <3>1. Follows(n) /\ setting'[n] = setting[n]
      BY <1>1, <2>1 DEF NodesInv, ghosts
    <3> QED BY <1>3, <1>4, <3>1 DEF Follows, panel
  <2>2. "night" \notin clobbered' => Effective("night")' = night'
    BY <1>1, <1>3 DEF NodesInv, ghosts
  <2> QED BY <2>1, <2>2 DEF NodesInv
<1>6. ModeInv'
  <2>1. ASSUME ~disturbed', OnePref' PROVE OneIsOn'
    <3>1. OneIsOn /\ OnePref
      BY <1>1, <2>1 DEF ModeInv, OnePref, ghosts
    <3>2. \A a, b \in Panel : setting'[a] # 0 /\ setting'[b] # 0 => a = b
      <4>1. CASE \A n \in Panel : setting'[n] = setting[n]
        BY <3>1, <4>1 DEF OneIsOn
      <4>2. CASE \A n \in Panel : setting'[n] # 0 => n \in prefs
        BY <3>1, <4>2 DEF OnePref
      <4> QED BY <4>1, <4>2
    <3>3. \A n \in Panel : Effective(n)' # 0 => setting'[n] # 0 \/ Switching(n)'
      <4>1. ASSUME NEW n \in Panel, Effective(n)' # 0 PROVE setting'[n] # 0 \/ Switching(n)'
        <5>1. n \in Node /\ n \in Stored
          OBVIOUS
        <5>2. Effective(n) # 0
          BY <1>3, <4>1, <5>1
        <5>3. setting[n] # 0 \/ Switching(n)
          BY <3>1, <5>2 DEF OneIsOn
        <5> QED BY <1>4, <5>1, <5>3
      <4> QED BY <4>1
    <3>4. mCurrentMode' = mCurrentMode /\ checking' = checking /\ switching' = switching
      BY DEF panel
    <3> QED BY <3>1, <3>2, <3>3, <3>4 DEF OneIsOn
  <2> QED BY <1>1, <2>1 DEF ModeInv, ghosts
<1> QED BY <1>2, <1>5, <1>6, ViewKept DEF IInv

LEMMA BootOK ==
  ASSUME IInv, onReceive
  PROVE  IInv'
<1>1. /\ ~booted /\ booted' = TRUE /\ importing' = IF imported THEN 0 ELSE 1
      /\ at' = [at EXCEPT !["Startup"] = IF imported THEN 1 ELSE 0]
      /\ UNCHANGED <<node, stored, read, fod, finger, panel, ghosts>>
  BY DEF onReceive
<1>2. PanelType /\ StoredType /\ StartupType /\ OrderInv
  BY TypeParts DEF IInv
<1>3. StartupType' /\ (importing' = 0 => at'["Startup"] = 1)
  <2>1. at' \in [Restorer -> 0..5] /\ at'["Startup"] = IF imported THEN 1 ELSE 0
    BY <1>1, <1>2 DEF StartupType
  <2> QED BY <1>1, <1>2, <2>1 DEF StartupType
<1>4. ~StartupDone /\ ~StartupDone'
  BY <1>1, <1>3 DEF StartupDone
<1>5. OrderInv'
  BY <1>1, <1>2, <1>4 DEF OrderInv, stored, panel
<1>6. \A n \in Stored : ~(Done(n)')
  BY <1>1, <1>3 DEF Done
<1>7. setting' = setting /\ UNCHANGED <<prefs, imported>>
  BY <1>1 DEF stored
<1> QED BY <1>1, <1>2, <1>3, <1>5, <1>6, <1>7, ReceiverStep DEF StoredType

LEMMA ImportOK ==
  ASSUME IInv, maybeImportOldSettings
  PROVE  IInv'
<1>1. /\ importing # 0
      /\ UNCHANGED <<node, prefs, booted, read, fod, finger, panel, ghosts>>
  BY DEF maybeImportOldSettings
<1>2. PanelType /\ StoredType /\ StartupType /\ OrderInv
  BY TypeParts DEF IInv
<1>3. booted /\ ~imported /\ ~StartupDone /\ mCurrentMode = "closed" /\ checking = "none"
  BY <1>1, <1>2 DEF OrderInv, StartupDone
<1>4. \A n \in Stored : setting[n] # 0 => n \in prefs
  BY <1>2, <1>3 DEF OrderInv
<1>5. DOMAIN ImportOrder = 1..4 /\ \A i \in 1..4 : ImportOrder[i] \in Stored
  BY DEF ImportOrder
<1>6. CASE importing \in 1..4
  <2> DEFINE n == ImportOrder[importing]
  <2>1. /\ setting' = [setting EXCEPT ![n] = Flag(n \in prefs)]
        /\ importing' = importing + 1 /\ UNCHANGED <<imported, at>>
    BY <1>5, <1>6 DEF maybeImportOldSettings
  <2>2. n \in Stored
    BY <1>5, <1>6
  <2> HIDE DEF n
  <2>3. /\ setting' \in [Stored -> Value] /\ setting'[n] = IF n \in prefs THEN 1 ELSE 0
        /\ \A m \in Stored \ {n} : setting'[m] = setting[m]
    BY <1>2, <2>1, <2>2 DEF StoredType, Flag
  <2>4. importing' \in 1..5 /\ importing' # 0
    BY <1>6, <2>1
  <2>5. StartupType'
    BY <1>1, <1>2, <2>1, <2>4 DEF StartupType
  <2>6. \A m \in Stored : /\ setting'[m] # 0 => m \in prefs
                          /\ setting[m] # 0 => setting'[m] # 0
    BY <1>4, <2>3
  <2>7. OrderInv'
    <3>1. ~StartupDone' /\ mCurrentMode' = "closed" /\ checking' = "none"
          /\ switching' = NoSwitch
      BY <1>1, <1>2, <1>3, <2>4 DEF OrderInv, StartupDone, panel
    <3> QED BY <1>1, <1>3, <2>1, <2>4, <2>6, <3>1 DEF OrderInv
  <2>8. \A m \in Stored : ~(Done(m)')
    BY <2>4 DEF Done
  <2>9. \A m \in Panel : m \in Stored
    OBVIOUS
  <2> QED BY <1>1, <1>2, <1>3, <2>1, <2>3, <2>5, <2>6, <2>7, <2>8, <2>9, ReceiverStep
          DEF StoredType
<1>7. CASE importing \notin 1..4
  <2>1. /\ imported' = TRUE /\ importing' = 0 /\ at' = [at EXCEPT !["Startup"] = 1]
        /\ setting' = setting
    BY <1>5, <1>7 DEF maybeImportOldSettings
  <2>2. at' \in [Restorer -> 0..5] /\ at'["Startup"] = 1
    BY <1>2, <2>1 DEF StartupType
  <2>3. StartupType'
    BY <1>1, <1>2, <2>1, <2>2 DEF StartupType
  <2>4. OrderInv'
    <3>1. ~StartupDone' /\ mCurrentMode' = "closed" /\ checking' = "none"
          /\ switching' = NoSwitch
      BY <1>1, <1>2, <1>3, <2>2 DEF OrderInv, StartupDone, panel
    <3> QED BY <1>1, <1>3, <2>1, <3>1 DEF OrderInv
  <2>5. \A m \in Stored : ~(Done(m)')
    BY <2>2 DEF Done
  <2> QED BY <1>1, <1>2, <1>3, <2>1, <2>3, <2>4, <2>5, ReceiverStep DEF StoredType
<1> QED BY <1>6, <1>7

LEMMA UserSwitchedOK ==
  ASSUME IInv, UserSwitched
  PROVE  IInv'
<1>1. /\ at' = [at EXCEPT !["KeyHandler"] = 1]
      /\ UNCHANGED <<node, stored, booted, importing, read, fod, finger, panel, ghosts>>
  BY DEF UserSwitched
<1>2. StoredType /\ StartupType /\ OrderInv
  BY TypeParts DEF IInv
<1>3. at' \in [Restorer -> 0..5] /\ at'["Startup"] = at["Startup"]
  BY <1>1, <1>2 DEF StartupType
<1>4. StartupType'
  BY <1>1, <1>2, <1>3 DEF StartupType
<1>5. setting' = setting /\ UNCHANGED <<prefs, imported>>
  BY <1>1 DEF stored
<1>6. OrderInv'
  <2>1. StartupDone' <=> StartupDone
    BY <1>1, <1>3 DEF StartupDone
  <2> QED BY <1>1, <1>2, <1>5, <2>1 DEF OrderInv, panel
<1>7. \A n \in Stored : Done(n)' <=> Done(n)
  BY <1>1, <1>3 DEF Done
<1> QED BY <1>1, <1>2, <1>4, <1>5, <1>6, <1>7, ReceiverStep DEF StoredType

LEMMA ReadOK ==
  ASSUME IInv, NEW r \in Restorer, ReadSetting(r)
  PROVE  IInv'
<1>1. /\ \E value \in {"on", "off"} : read' = [read EXCEPT ![r] = value]
      /\ UNCHANGED <<node, stored, booted, importing, at, fod, finger, panel, ghosts>>
  BY DEF ReadSetting
<1>2. StoredType /\ StartupType /\ OrderInv
  BY TypeParts DEF IInv
<1>3. read' \in [Restorer -> {"none", "on", "off"}]
  BY <1>1, <1>2 DEF StartupType
<1>4. StartupType'
  BY <1>1, <1>2, <1>3 DEF StartupType
<1>5. setting' = setting /\ UNCHANGED <<prefs, imported>>
  BY <1>1 DEF stored
<1>6. OrderInv'
  <2>1. StartupDone' <=> StartupDone
    BY <1>1 DEF StartupDone
  <2> QED BY <1>1, <1>2, <1>5, <2>1 DEF OrderInv, panel
<1>7. \A n \in Stored : Done(n)' <=> Done(n)
  BY <1>1 DEF Done
<1> QED BY <1>1, <1>2, <1>4, <1>5, <1>6, <1>7, ReceiverStep DEF StoredType

(* A restore writes a node: of the setting, unless the write is stale.     *)
LEMMA OrderFacts ==
  /\ Len(RestoreOrder) = 5
  /\ \A i \in 1..5 : RestoreOrder[i] \in Stored
  /\ \A m \in Stored : m = RestoreOrder[5] \/ \E i \in 1..4 : RestoreOrder[i] = m
BY DEF RestoreOrder

LEMMA RestoreOK ==
  ASSUME IInv, NEW r \in Restorer, restore(r)
  PROVE  IInv'
<1>2. PanelType /\ StoredType /\ StartupType /\ NodesInv /\ OrderInv /\ ModeInv /\ GhostType
  BY TypeParts DEF IInv
<1>3. at[r] \in 1..5
  BY <1>2 DEF StartupType, restore
<1>4. PICK n \in Stored : n = RestoreOrder[at[r]]
  BY <1>3, OrderFacts
<1>5. PICK v \in {0, 1} : v = Restored(read[r])
  BY DEF Restored
<1>1. /\ at[r] # 0 /\ read' = [read EXCEPT ![r] = "none"]
      /\ at' = [at EXCEPT ![r] = IF at[r] = Len(RestoreOrder) THEN 0 ELSE at[r] + 1]
      /\ UNCHANGED <<stored, booted, importing, fod, finger, panel, night>>
  BY DEF restore
<1> DEFINE stale == \/ (read[r] = "on") # (setting[n] # 0)
                    \/ n \in Panel /\ Switching(n)
<1>a. Write(n, v, stale)
  BY <1>4, <1>5 DEF restore
<1>6. ~stale => (v # 0 <=> setting[n] # 0) /\ ~(n \in Panel /\ Switching(n))
  BY <1>5 DEF Restored
<1>7. at'[r] = IF at[r] = 5 THEN 0 ELSE at[r] + 1
  BY <1>1, <1>2, OrderFacts DEF StartupType
<1>8. /\ at' \in [Restorer -> 0..5]
      /\ \A q \in Restorer : q # r => at'[q] = at[q]
  <2>1. (IF at[r] = Len(RestoreOrder) THEN 0 ELSE at[r] + 1) \in 0..5
    BY <1>3, OrderFacts
  <2> QED BY <1>1, <1>2, <2>1 DEF StartupType
<1>9. \A m \in Stored : Done(m)' => m = n \/ Done(m)
  <2>1. CASE r = "Startup"
    <3>1. ASSUME NEW m \in Stored, Done(m)' PROVE m = n \/ Done(m)
      <4>1. booted /\ importing = 0
        BY <1>1, <3>1 DEF Done
      <4>2. CASE at[r] = 5
        BY <1>4, <2>1, <4>1, <4>2, OrderFacts DEF Done
      <4>3. CASE at[r] # 5
        <5>1. at'["Startup"] = at["Startup"] + 1 /\ at["Startup"] \in 1..4
          BY <1>3, <1>7, <2>1, <4>3
        <5>2. PICK i \in 1..4 : i < at["Startup"] + 1 /\ RestoreOrder[i] = m
          BY <3>1, <5>1 DEF Done
        <5>3. CASE i = at["Startup"]
          BY <1>4, <2>1, <5>2, <5>3
        <5>4. CASE i # at["Startup"]
          <6>1. i < at["Startup"]
            BY <5>1, <5>2, <5>4
          <6> QED BY <4>1, <5>2, <6>1 DEF Done
        <5> QED BY <5>3, <5>4
      <4> QED BY <4>2, <4>3
    <3> QED BY <3>1
  <2>2. CASE r # "Startup"
    <3>1. at'["Startup"] = at["Startup"]
      BY <1>8, <2>2
    <3> QED BY <1>1, <3>1 DEF Done
  <2> QED BY <2>1, <2>2
<1> HIDE DEF stale
<1>10. /\ NodeType' /\ clobbered' \subseteq Node /\ disturbed' \in BOOLEAN
       /\ \A m \in Node \ {n} : Effective(m)' = Effective(m)
       /\ clobbered' \ {n} = clobbered \ {n}
       /\ n \notin clobbered' => ~stale /\ Effective(n)' = v
       /\ ~disturbed' => ~disturbed /\ (n \in Panel => n \notin clobbered')
  <2>1. n \in Node /\ v \in Value /\ v # 5 /\ UNCHANGED fod
    BY <1>1
  <2>2. CASE stale
    <3>1. Write(n, v, TRUE)
      BY <1>a, <2>2 DEF Write
    <3> QED BY <2>1, <2>2, <3>1, WriteFacts
  <2>3. CASE ~stale
    <3>1. Write(n, v, FALSE)
      BY <1>a, <2>3 DEF Write
    <3> QED BY <2>1, <2>3, <3>1, WriteFacts
  <2> QED BY <2>2, <2>3
<1>11. TypeOK'
  <2>1. read' \in [Restorer -> {"none", "on", "off"}]
    BY <1>1, <1>2 DEF StartupType
  <2>2. StartupType'
    BY <1>1, <1>2, <1>8, <2>1 DEF StartupType
  <2>3. StoredType' /\ GhostType' /\ PanelType'
    BY <1>1, <1>2, <1>10 DEF StoredType, PanelType, GhostType, stored, panel
  <2> QED BY <1>1, <1>10, <2>2, <2>3, ViewKept, TypeParts
<1>12. \A m \in Stored : Switching(m)' <=> Switching(m)
  BY <1>1 DEF Switching, panel
<1>13. NodesInv'
  <2>1. ASSUME NEW m \in Stored, Done(m)', m \notin clobbered' PROVE Follows(m)'
    <3>1. setting' = setting /\ switching' = switching /\ m \in Node
      BY <1>1 DEF stored, panel
    <3>2. CASE m = n
      BY <1>6, <1>10, <1>12, <2>1, <3>1, <3>2 DEF Follows
    <3>3. CASE m # n
      <4>1. Follows(m) /\ Effective(m)' = Effective(m)
        BY <1>2, <1>9, <1>10, <2>1, <3>1, <3>3 DEF NodesInv
      <4> QED BY <1>12, <3>1, <4>1 DEF Follows
    <3> QED BY <3>2, <3>3
  <2>2. "night" \notin clobbered' => Effective("night")' = night'
    <3>1. "night" \in Node \ {n}
      BY <1>4
    <3> QED BY <1>1, <1>2, <1>10, <3>1 DEF NodesInv
  <2> QED BY <2>1, <2>2 DEF NodesInv
<1>14. OrderInv'
  <2>1. CASE r = "Startup"
    <3>1. ~StartupDone
      BY <1>1, <2>1 DEF StartupDone
    <3> QED BY <1>1, <1>2, <3>1 DEF OrderInv, stored, panel
  <2>2. CASE r # "Startup"
    <3>1. at'["Startup"] = at["Startup"]
      BY <1>8, <2>2
    <3>2. StartupDone' <=> StartupDone
      BY <1>1, <3>1 DEF StartupDone
    <3> QED BY <1>1, <1>2, <3>2 DEF OrderInv, stored, panel
  <2> QED BY <2>1, <2>2
<1>15. ModeInv'
  <2>1. ASSUME ~disturbed', OnePref' PROVE OneIsOn'
    <3>1. OneIsOn
      BY <1>1, <1>2, <1>10, <2>1 DEF ModeInv, OnePref, stored
    <3>2. /\ setting' = setting /\ switching' = switching
          /\ mCurrentMode' = mCurrentMode /\ checking' = checking
      BY <1>1 DEF stored, panel
    <3>3. \A m \in Panel : Effective(m)' # 0 => setting[m] # 0 \/ Switching(m)'
      <4>1. ASSUME NEW m \in Panel, Effective(m)' # 0 PROVE setting[m] # 0 \/ Switching(m)'
        <5>1. m \in Node /\ m \in Stored
          OBVIOUS
        <5>2. CASE m = n
          BY <1>6, <1>10, <2>1, <4>1, <5>2
        <5>3. CASE m # n
          <6>1. Effective(m) # 0
            BY <1>10, <4>1, <5>1, <5>3
          <6>2. setting[m] # 0 \/ Switching(m)
            BY <3>1, <6>1 DEF OneIsOn
          <6> QED BY <1>12, <5>1, <6>2
        <5> QED BY <5>2, <5>3
      <4> QED BY <4>1
    <3> QED BY <3>1, <3>2, <3>3 DEF OneIsOn
  <2> QED BY <1>2, <1>10, <2>1 DEF ModeInv
<1> QED BY <1>1, <1>11, <1>13, <1>14, <1>15, ViewKept DEF IInv, stored

LEMMA RebootOK ==
  ASSUME IInv, Reboot
  PROVE  IInv'
<1>1. /\ node' = [n \in Node |-> 0] /\ booted' = FALSE /\ importing' = 0
      /\ mFodCircleVisible' = FALSE /\ hal' = "idle"
      /\ saved' = [n \in Saved |-> 0] /\ vendorMode' = "boot"
      /\ mCurrentMode' = "closed" /\ checking' = "none" /\ switching' = NoSwitch
      /\ night' = 0 /\ clobbered' = {}
      /\ UNCHANGED <<stored, disturbed>>
  BY DEF Reboot, AllOff
<1>2. StoredType /\ GhostType /\ PanelType /\ OrderInv /\ ModeInv
  BY TypeParts DEF IInv
<1>3. FingerType'
  <2>1. /\ mIsEnrolling' = FALSE /\ mCallback' = FALSE /\ late' = FALSE /\ dim' = 0
        /\ press' = 0 /\ calls' = <<>>
    BY DEF Reboot
  <2>2. <<>> \in Seq({"press", "release"}) /\ Len(<<>>) <= 2
    OBVIOUS
  <2> QED BY <2>1, <2>2 DEF FingerType
<1>4. node' \in [Node -> {0}] /\ saved' \in [Saved -> {0}]
  BY <1>1
<1>5. NodeType' /\ FodType'
  <2>1. NodeType'
    BY <1>4 DEF NodeType
  <2>2. saved' \in [Saved -> {0, 1}]
    BY <1>4
  <2> QED BY <1>1, <2>1, <2>2 DEF FodType
<1>6. StoredType' /\ PanelType' /\ GhostType'
  BY <1>1, <1>2, SwitchFacts DEF StoredType, PanelType, GhostType, stored
<1>7. StartupType'
  <2>1. at' \in [Restorer -> 0..5] /\ read' \in [Restorer -> {"none", "on", "off"}]
    BY DEF Reboot
  <2>2. booted' = FALSE /\ importing' = 0 /\ 0 \in 0..5
    BY <1>1
  <2> QED BY <2>1, <2>2 DEF StartupType
<1>8. \A n \in Node : Effective(n)' = 0
  BY <1>1 DEF Effective, Covered, Held
<1>9. NodesInv'
  BY <1>1, <1>8 DEF NodesInv, Done
<1>10. OrderInv'
  BY <1>1, <1>2 DEF OrderInv, stored
<1>11. ModeInv'
  <2>1. ASSUME ~disturbed', OnePref' PROVE OneIsOn'
    <3>1. OneIsOn
      BY <1>1, <1>2, <2>1 DEF ModeInv, OnePref, stored
    <3>2. setting' = setting /\ \A n \in Panel : n \in Node
      BY <1>1 DEF stored
    <3> QED BY <1>1, <1>8, <3>1, <3>2 DEF OneIsOn
  <2> QED BY <1>1, <2>1 DEF ModeInv
<1>12. HiddenIsClean' /\ prefs' \in OldPrefs
  BY <1>1 DEF Reboot, HiddenIsClean, IInv, stored
<1> QED BY <1>3, <1>5, <1>6, <1>7, <1>9, <1>10, <1>11, <1>12, TypeParts DEF IInv

-----------------------------------------------------------------------------
LEMMA StepOK ==
  ASSUME IInv, [Next]_vars
  PROVE  IInv'
<1>1. CASE UNCHANGED vars
  <2>1. UNCHANGED AllButFinger /\ UNCHANGED finger
    BY <1>1 DEF vars, AllButFinger
  <2>2. FingerType'
    BY <2>1, TypeParts DEF IInv, FingerType, finger
  <2> QED BY <2>1, <2>2, FingerStep DEF finger
<1>2. CASE onShowFODView \/ ShowModes \/ onHideFODView \/ HideModes \/ HalRestart
  BY <1>2, ShowStartsOK, ShowEndsOK, HideStartsOK, HideEndsOK, HalRestartOK
<1>3. CASE \/ \E on \in BOOLEAN : Enroll(on)
           \/ setCallback \/ onPress \/ onRelease
           \/ \E call \in {"press", "release"} : handleAcquired(call)
  BY <1>3, FingerOK
<1>4. CASE \/ onViewCreated \/ EnableMode \/ PutInt
           \/ \E mode \in Panel \cup {"off"} : onCheckedChanged(mode)
  BY <1>4, ViewCreatedOK, EnableOK, PutIntOK, CheckedOK
<1>5. CASE \/ \E enabled \in BOOLEAN : DCDModeSwitch(enabled) \/ HBMModeSwitch(enabled)
           \/ WriteValue \/ HBMModeTile \/ \E v \in {0, 1} : NightMode(v)
  BY <1>5, SwitchOK, WriteValueOK, TileOK, NightOK
<1>6. CASE \/ onReceive \/ maybeImportOldSettings \/ UserSwitched
           \/ \E r \in Restorer : ReadSetting(r) \/ restore(r)
           \/ Reboot
  BY <1>6, BootOK, ImportOK, UserSwitchedOK, ReadOK, RestoreOK, RebootOK
<1> QED BY <1>1, <1>2, <1>3, <1>4, <1>5, <1>6 DEF Next

(* The HAL, the finger, DeviceParts, the night mode, the restores of two   *)
(* processes and reboots, in every interleaving of their reads and writes. *)
THEOREM Inductive == Spec => []IInv
<1>1. IInv /\ [Next]_vars => IInv'
  BY StepOK
<1> QED BY <1>1, InitOK, PTL DEF Spec

(* Once Startup has restored, a node that the HAL does not hold and that   *)
(* no lost write has left, or that is being switched, is on when its       *)
(* setting is.                                                             *)
THEOREM PanelIsAsChosen == Spec => []NodesFollowSettings
<1>1. IInv => NodesFollowSettings
  <2> SUFFICES ASSUME IInv PROVE NodesFollowSettings
    OBVIOUS
  <2>1. ASSUME StartupDone, NEW n \in Stored \ clobbered, ~Covered(n), ~Switching(n)
        PROVE  node[n] # 0 <=> setting[n] # 0
    BY <2>1 DEF IInv, NodesInv, Done, StartupDone, Follows, Effective
  <2>2. "night" \notin clobbered => Covered("night") \/ node["night"] = night
    BY DEF IInv, NodesInv, Effective
  <2> QED BY <2>1, <2>2 DEF NodesFollowSettings
<1> QED BY <1>1, Inductive, PTL

(* A hidden view leaves no dimming, press or mode behind.                  *)
THEOREM NothingIsLeftBehind == Spec => []HiddenIsClean
<1>1. IInv => HiddenIsClean
  BY DEF IInv
<1> QED BY <1>1, Inductive, PTL

(* Undisturbed, and if an old version left one at most, no two color modes *)
(* are ever stored or on together, before and after the import of the old  *)
(* preferences and at every step of a switch or a restore.                 *)
THEOREM ModesExclude == Spec => []OneMode
<1>1. IInv => OneMode
  <2> SUFFICES ASSUME IInv, ~disturbed, Cardinality(prefs \cap Panel) <= 1
               PROVE  /\ Cardinality({n \in Panel : setting[n] # 0}) <= 1
                      /\ ~Held => Cardinality({n \in Panel : node[n] # 0}) <= 1
    BY DEF OneMode
  <2>1. PanelType /\ OrderInv /\ ModeInv
    BY TypeParts DEF IInv
  <2>2. OneIsOn
    <3>1. prefs \cap Panel \in SUBSET Panel
      OBVIOUS
    <3>2. OnePref
      BY <3>1, AtMostOne DEF OnePref
    <3> QED BY <2>1, <3>2 DEF ModeInv
  <2>3. Cardinality({n \in Panel : setting[n] # 0}) <= 1
    <3>1. {n \in Panel : setting[n] # 0} \in SUBSET Panel
      OBVIOUS
    <3> QED BY <2>2, <3>1, AtMostOne DEF OneIsOn
  <2>4. ASSUME ~Held PROVE Cardinality({n \in Panel : node[n] # 0}) <= 1
    <3>1. {n \in Panel : node[n] # 0} \in SUBSET Panel
      OBVIOUS
    <3>2. \A n \in Panel : node[n] # 0 => setting[n] # 0 \/ Switching(n)
      BY <2>2, <2>4 DEF OneIsOn, Effective, Covered
    <3>3. ASSUME NEW a \in Panel, NEW b \in Panel, node[a] # 0, node[b] # 0 PROVE a = b
      <4>1. CASE switching = NoSwitch
        BY <2>2, <3>2, <3>3, <4>1 DEF OneIsOn, Switching
      <4>2. CASE switching # NoSwitch /\ switching[1] \notin Panel
        BY <2>2, <3>2, <3>3, <4>2 DEF OneIsOn, Switching
      <4>3. CASE switching # NoSwitch /\ switching[1] \in Panel
        <5>1. checking # "none"
          BY <2>1, <4>3 DEF OrderInv
        <5>2. \A n \in Panel : setting[n] # 0 => n = switching[1]
          BY <2>2, <5>1 DEF OneIsOn
        <5> QED BY <3>2, <3>3, <5>2 DEF Switching
      <4> QED BY <4>1, <4>2, <4>3
    <3> QED BY <3>1, <3>3, AtMostOne
  <2> QED BY <2>3, <2>4
<1> QED BY <1>1, Inductive, PTL

(* Every variable of the model keeps its type.                             *)
THEOREM TypeCorrect == Spec => []TypeOK
<1>1. IInv => TypeOK
  BY DEF IInv
<1> QED BY <1>1, Inductive, PTL

=============================================================================
