------------------------- MODULE DevicePartsProofs --------------------------
(***************************************************************************)
(* Proofs about DeviceParts: the services follow the screen, the rate the  *)
(* choice and the gestures their user.  PartsNext moves one part only.     *)
(* Together lets all parts move in any order, or at once, and writes of    *)
(* every kind meet in the panel's modes; each part has an inductive        *)
(* invariant of its own, which all of these steps preserve, so nothing is  *)
(* lost by exploring the parts one at a time.                              *)
(***************************************************************************)
EXTENDS DeviceParts, DisplayModesProofs, SequenceTheorems

-----------------------------------------------------------------------------
(* All parts together: what one does is nothing to the others.             *)
Together ==
  /\ Init /\ Gestures!Init /\ Services!Init /\ Refresh!Init
  /\ [][Next]_vars
  /\ [][Gestures!Next]_gestures
  /\ [][Services!Next]_services
  /\ [][Refresh!Next]_refresh

(* The sum that DeviceParts explores is part of that: whichever part moves,*)
(* the others stand still.                                                 *)
THEOREM SumIsTogether == PartsSpec => Together
<1>1. PartsInit => Init /\ Gestures!Init /\ Services!Init /\ Refresh!Init
  BY DEF PartsInit
<1>2. [PartsNext]_partsVars => /\ [Next]_vars
                               /\ [Gestures!Next]_gestures
                               /\ [Services!Next]_services
                               /\ [Refresh!Next]_refresh
  BY DEF PartsNext, partsVars
<1> QED BY <1>1, <1>2, PTL DEF PartsSpec, Together

-----------------------------------------------------------------------------
(* The services.  TypeOK of DeviceServices, in parts.                      *)
OverlayType ==
  /\ display \in {"on", "off"} /\ sent \in {"on", "off"} /\ dozing \in BOOLEAN
  /\ fpsInbox \in {"none", "on", "off"} /\ fps \in {"stopped", "shown", "gone"}
  /\ mCurFPSThread \in Services!Thread \cup {Services!NoThread}
  /\ mInterrupt \subseteq polling /\ polling \subseteq Services!Thread
  /\ main \in {"free", "joining", "leaving", "closing"}
  /\ early \in BOOLEAN /\ leaked \in 0..MaxThread

SensorType ==
  /\ fallInbox \in {"none", "on", "off"}
  /\ tasks \in Seq({"enable", "disable"}) /\ Len(tasks) <= Services!MaxTask
  /\ fallService \in BOOLEAN /\ listening \in BOOLEAN /\ event \in BOOLEAN
  /\ startedOff \in BOOLEAN /\ contended \in BOOLEAN
  /\ direction \in {"up", "down"} /\ motor \in {"up", "down"}

(* The overlay.  Unless the main thread is in stopThread, the view is      *)
(* shown exactly while there is a thread, and that thread is in its loop   *)
(* and not told to end.  A SCREEN_ON for a view that is already shown can  *)
(* only mean that it was created with the screen off.  Each such SCREEN_ON *)
(* leaves one thread behind.                                               *)
Active == main \in {"free", "closing"}

OverlayInv ==
  /\ mInterrupt \subseteq {mCurFPSThread} \cap polling
  /\ Active => /\ mInterrupt = {}
               /\ fps = "shown" => mCurFPSThread \in polling
               /\ fps # "shown" => mCurFPSThread = Services!NoThread
  /\ main = "joining" => fps = "gone"
  /\ fps = "stopped" => fpsInbox = "none" /\ main # "leaving"
  /\ fpsInbox # "none" => fpsInbox = sent
  /\ Active /\ fps = "shown" /\ sent = "off" => fpsInbox = "off" \/ early
  /\ Active /\ fps = "shown" /\ fpsInbox = "on" => early
  /\ early => fps = "shown" /\ Active

Leaks == Cardinality(polling \ {mCurFPSThread}) = leaked

(* The fall sensor: what it will be when the executor has run its tasks is *)
(* what the service and the last broadcast it received want.               *)
WillListen == IF tasks = <<>> THEN listening ELSE tasks[Len(tasks)] = "enable"

FallInv ==
  /\ fallInbox # "none" => fallService /\ fallInbox = sent
  /\ ~startedOff /\ fallInbox = "none" => (WillListen <=> fallService /\ sent = "on")

ServicesInv == OverlayType /\ SensorType /\ OverlayInv /\ Leaks /\ FallInv

LEMMA ThreadFacts ==
  ASSUME OverlayType
  PROVE  /\ IsFiniteSet(polling)
         /\ \A t \in Services!Thread : t # Services!NoThread
         /\ \A S \in SUBSET polling : IsFiniteSet(S) /\ Cardinality(S) \in 0..MaxThread
<1>1. IsFiniteSet(Services!Thread) /\ Cardinality(Services!Thread) = MaxThread
  <2>1. MaxThread \in Int /\ MaxThread >= 0
    BY MaxThreadAssumption
  <2>2. IsFiniteSet(1..MaxThread) /\ Cardinality(1..MaxThread) = MaxThread
    <3>1. IF 1 > MaxThread THEN Cardinality(1..MaxThread) = 0
          ELSE Cardinality(1..MaxThread) = MaxThread - 1 + 1
      BY <2>1, FS_Interval
    <3>2. IsFiniteSet(1..MaxThread)
      BY <2>1, FS_Interval
    <3> QED BY <2>1, <3>1, <3>2
  <2> QED BY <2>2 DEF Services!Thread
<1>2. \A S \in SUBSET polling : IsFiniteSet(S) /\ Cardinality(S) \in 0..MaxThread
  <2> SUFFICES ASSUME NEW S \in SUBSET polling
               PROVE  IsFiniteSet(S) /\ Cardinality(S) \in 0..MaxThread
    OBVIOUS
  <2>1. S \subseteq Services!Thread
    BY DEF OverlayType
  <2>2. IsFiniteSet(S) /\ Cardinality(S) <= MaxThread
    BY <1>1, <2>1, FS_Subset
  <2>3. Cardinality(S) \in Nat
    BY <2>2, FS_CardinalityType
  <2> QED BY <2>2, <2>3, MaxThreadAssumption
<1>3. \A t \in Services!Thread : t # Services!NoThread
  BY DEF Services!Thread, Services!NoThread
<1> QED BY <1>2, <1>3

LEMMA ServicesTypeParts == Services!TypeOK <=> OverlayType /\ SensorType
BY DEF Services!TypeOK, OverlayType, SensorType

LEMMA ServicesInitOK == Services!Init => ServicesInv
<1> SUFFICES ASSUME Services!Init PROVE ServicesInv
  OBVIOUS
<1>1. OverlayType
  <2>1. 0 \in 0..MaxThread
    BY MaxThreadAssumption
  <2>2. polling = {} /\ mInterrupt = {} /\ mCurFPSThread = Services!NoThread
    BY DEF Services!Init
  <2> QED BY <2>1, <2>2 DEF Services!Init, OverlayType
<1>2. SensorType
  <2>1. tasks = <<>>
    BY DEF Services!Init
  <2>2. tasks \in Seq({"enable", "disable"}) /\ Len(tasks) <= Services!MaxTask
    BY <2>1 DEF Services!MaxTask
  <2> QED BY <2>2 DEF Services!Init, SensorType
<1>3. OverlayInv /\ FallInv
  BY DEF Services!Init, OverlayInv, FallInv, WillListen, Active
<1>4. Leaks
  BY FS_EmptySet DEF Services!Init, Leaks
<1> QED BY <1>1, <1>2, <1>3, <1>4 DEF ServicesInv

(* Steps that leave the fall sensor and its executor alone.                *)
LEMMA FallKept ==
  ASSUME ServicesInv, UNCHANGED <<sent, fallInbox, fallService, tasks, listening, startedOff>>
  PROVE  FallInv'
<1>1. WillListen' = WillListen
  BY DEF WillListen
<1> QED BY <1>1 DEF ServicesInv, FallInv

LEMMA SensorTypeKept ==
  ASSUME ServicesInv, UNCHANGED <<Services!sensor, Services!camera>>
  PROVE  SensorType'
BY DEF ServicesInv, SensorType, Services!sensor, Services!camera

LEMMA LeaksKept ==
  ASSUME ServicesInv, leaked' = leaked,
         polling' \ {mCurFPSThread'} = polling \ {mCurFPSThread}
  PROVE  Leaks'
BY DEF ServicesInv, Leaks

(* The display and its broadcasts.                                         *)
LEMMA ScreenOK ==
  ASSUME ServicesInv, Services!Display \/ Services!Dozing \/ Services!Broadcast
  PROVE  ServicesInv'
<1>1. CASE Services!Display \/ Services!Dozing
  <2>1. /\ UNCHANGED <<sent, Services!overlay, main, Services!sensor, Services!camera>>
        /\ display' \in {"on", "off"} /\ dozing' \in BOOLEAN
    BY <1>1 DEF ServicesInv, OverlayType, Services!Display, Services!Dozing
  <2>2. OverlayType' /\ OverlayInv'
    BY <2>1 DEF ServicesInv, OverlayType, OverlayInv, Active, Services!overlay
  <2>3. Leaks'
    BY <2>1, LeaksKept DEF Services!overlay
  <2>4. FallInv' /\ SensorType'
    BY <2>1, FallKept, SensorTypeKept DEF Services!sensor
  <2> QED BY <2>2, <2>3, <2>4 DEF ServicesInv
<1>2. CASE Services!Broadcast
  <2>1. /\ sent # display /\ fpsInbox = "none" /\ fallInbox = "none" /\ sent' = display
        /\ fpsInbox' = IF fps # "stopped" THEN display ELSE "none"
        /\ fallInbox' = IF fallService THEN display ELSE "none"
        /\ UNCHANGED <<display, dozing, fps, mCurFPSThread, polling, mInterrupt, early, leaked,
                 main, fallService, tasks, listening, event, startedOff, Services!camera>>
    BY <1>2 DEF Services!Broadcast
  <2>2. OverlayType'
    BY <2>1 DEF ServicesInv, OverlayType
  <2>3. OverlayInv'
    BY <2>1 DEF ServicesInv, OverlayType, OverlayInv, Active
  <2>4. SensorType'
    BY <2>1 DEF ServicesInv, OverlayType, SensorType, Services!camera
  <2>5. Leaks'
    BY <2>1, LeaksKept
  <2>6. FallInv'
    <3>1. WillListen' = WillListen
      BY <2>1 DEF WillListen
    <3> QED BY <2>1, <3>1 DEF ServicesInv, OverlayType, SensorType, FallInv
  <2> QED BY <2>2, <2>3, <2>4, <2>5, <2>6 DEF ServicesInv
<1> QED BY <1>1, <1>2

(* The overlay.  A new thread is none of those in their loop.              *)
LEMMA NewThread ==
  ASSUME ServicesInv, Services!startThread
  PROVE  /\ mCurFPSThread' \in Services!Thread /\ mCurFPSThread' \notin polling
         /\ polling' = polling \cup {mCurFPSThread'} /\ mInterrupt' = mInterrupt
         /\ polling' \subseteq Services!Thread
         /\ polling' \ {mCurFPSThread'} = polling
<1>1. \E t : t \in Services!Thread \ polling
  BY DEF ServicesInv, OverlayType, Services!startThread
<1>2. mCurFPSThread' \in Services!Thread \ polling
  BY <1>1 DEF Services!startThread
<1> QED BY <1>2 DEF ServicesInv, OverlayType, Services!startThread

LEMMA FpsCreateOK ==
  ASSUME ServicesInv, Services!FpsCreate
  PROVE  ServicesInv'
<1>1. /\ main = "free" /\ fps = "stopped" /\ fps' = "shown" /\ early' = (sent = "off")
      /\ UNCHANGED <<Services!screen, fpsInbox, leaked, main, Services!sensor, Services!camera>>
      /\ Services!startThread
  BY DEF Services!FpsCreate
<1>2. OverlayType'
  BY <1>1, NewThread DEF ServicesInv, OverlayType, Services!screen
<1>3. OverlayInv'
  BY <1>1, NewThread DEF ServicesInv, OverlayType, OverlayInv, Active, Services!screen
<1>4. Leaks'
  <2>1. mCurFPSThread = Services!NoThread
    BY <1>1 DEF ServicesInv, OverlayInv, Active
  <2>2. polling \ {mCurFPSThread} = polling
    BY <2>1, ThreadFacts DEF ServicesInv, OverlayType
  <2> QED BY <1>1, <2>2, NewThread, LeaksKept
<1>5. FallInv' /\ SensorType'
  BY <1>1, FallKept, SensorTypeKept DEF Services!sensor, Services!screen
<1> QED BY <1>2, <1>3, <1>4, <1>5 DEF ServicesInv

LEMMA FpsScreenOnOK ==
  ASSUME ServicesInv, Services!FpsScreenOn
  PROVE  ServicesInv'
<1>1. /\ main = "free" /\ fpsInbox = "on" /\ fpsInbox' = "none"
      /\ UNCHANGED <<Services!screen, main, Services!sensor, Services!camera>>
  BY DEF Services!FpsScreenOn
<1>2. FallInv' /\ SensorType'
  BY <1>1, FallKept, SensorTypeKept DEF Services!sensor, Services!screen
<1>3. sent = "on" /\ fps # "stopped"
  BY <1>1 DEF ServicesInv, OverlayInv
<1>4. CASE UNCHANGED <<fps, mCurFPSThread, polling, mInterrupt, early, leaked>>
  <2>1. OverlayType'
    BY <1>1, <1>4 DEF ServicesInv, OverlayType, Services!screen
  <2>2. OverlayInv'
    BY <1>1, <1>3, <1>4 DEF ServicesInv, OverlayType, OverlayInv, Active, Services!screen
  <2> QED BY <1>2, <1>4, <2>1, <2>2, LeaksKept DEF ServicesInv
<1>5. CASE /\ Services!startThread /\ fps' = "shown"
           /\ early' = FALSE /\ leaked' = leaked + IF early THEN 1 ELSE 0
  <2>1. leaked' = Cardinality(polling)
    <3>1. CASE early
      <4>1. mCurFPSThread \in polling
        BY <1>1, <3>1 DEF ServicesInv, OverlayInv, Active
      <4>2. Cardinality(polling \ {mCurFPSThread}) = Cardinality(polling) - 1
        BY <4>1, ThreadFacts, FS_RemoveElement DEF ServicesInv
      <4>3. Cardinality(polling) \in Nat
        BY ThreadFacts, FS_CardinalityType DEF ServicesInv
      <4> QED BY <1>5, <3>1, <4>2, <4>3 DEF ServicesInv, Leaks
    <3>2. CASE ~early
      <4>1. mCurFPSThread = Services!NoThread
        BY <1>1, <3>2 DEF ServicesInv, OverlayInv, Active
      <4>2. polling \ {mCurFPSThread} = polling
        BY <4>1, ThreadFacts DEF ServicesInv, OverlayType
      <4>3. leaked \in Nat
        BY DEF ServicesInv, OverlayType
      <4> QED BY <1>5, <3>2, <4>2, <4>3 DEF ServicesInv, Leaks
    <3> QED BY <3>1, <3>2 DEF ServicesInv, OverlayType
  <2>2. Leaks'
    BY <1>5, <2>1, NewThread DEF Leaks
  <2>3. OverlayType'
    <3>1. leaked' \in 0..MaxThread
      BY <2>1, ThreadFacts DEF ServicesInv
    <3> QED BY <1>1, <1>5, <3>1, NewThread DEF ServicesInv, OverlayType, Services!screen
  <2>4. OverlayInv'
    BY <1>1, <1>3, <1>5, NewThread
       DEF ServicesInv, OverlayType, OverlayInv, Active, Services!screen
  <2> QED BY <1>2, <2>2, <2>3, <2>4 DEF ServicesInv
<1> QED BY <1>4, <1>5 DEF Services!FpsScreenOn

(* stopThread with a thread tells it to end, and waits; without one the    *)
(* handler goes on.                                                        *)
LEMMA FpsScreenOffOK ==
  ASSUME ServicesInv, Services!FpsScreenOff
  PROVE  ServicesInv'
<1>1. /\ main = "free" /\ fpsInbox = "off" /\ fpsInbox' = "none" /\ fps' = "gone"
      /\ early' = FALSE /\ Services!stopThread("joining")
      /\ UNCHANGED <<Services!screen, leaked, Services!sensor, Services!camera>>
  BY DEF Services!FpsScreenOff
<1>2. FallInv' /\ SensorType'
  BY <1>1, FallKept, SensorTypeKept DEF Services!sensor, Services!screen
<1>3. mCurFPSThread = Services!NoThread => mCurFPSThread \notin polling
  BY ThreadFacts DEF ServicesInv, OverlayType
<1>4. mCurFPSThread' = mCurFPSThread /\ polling' = polling
  BY <1>1, <1>3 DEF ServicesInv, OverlayInv, Active, Services!stopThread
<1>5. OverlayType'
  BY <1>1, <1>4 DEF ServicesInv, OverlayType, Services!screen, Services!stopThread
<1>6. OverlayInv'
  BY <1>1, <1>3, <1>4
     DEF ServicesInv, OverlayInv, Active, Services!screen, Services!stopThread
<1> QED BY <1>1, <1>2, <1>4, <1>5, <1>6, LeaksKept DEF ServicesInv

LEMMA FpsDestroyOK ==
  ASSUME ServicesInv, Services!FpsDestroy
  PROVE  ServicesInv'
<1>1. /\ main = "free" /\ fps # "stopped" /\ early' = FALSE /\ Services!stopThread("leaving")
      /\ fps' = IF main' = "free" THEN "stopped" ELSE fps
      /\ fpsInbox' = IF main' = "free" THEN "none" ELSE fpsInbox
      /\ UNCHANGED <<Services!screen, leaked, Services!sensor, Services!camera>>
  BY DEF Services!FpsDestroy
<1>2. FallInv' /\ SensorType'
  BY <1>1, FallKept, SensorTypeKept DEF Services!sensor, Services!screen
<1>3. mCurFPSThread = Services!NoThread => mCurFPSThread \notin polling
  BY ThreadFacts DEF ServicesInv, OverlayType
<1>4. mCurFPSThread' = mCurFPSThread /\ polling' = polling
  BY <1>1, <1>3 DEF ServicesInv, OverlayInv, Active, Services!stopThread
<1>5. OverlayType'
  BY <1>1, <1>4 DEF ServicesInv, OverlayType, Services!screen, Services!stopThread
<1>6. OverlayInv'
  BY <1>1, <1>3, <1>4
     DEF ServicesInv, OverlayInv, Active, Services!screen, Services!stopThread
<1> QED BY <1>1, <1>2, <1>4, <1>5, <1>6, LeaksKept DEF ServicesInv

LEMMA JoinOK ==
  ASSUME ServicesInv,
         Services!JoinReturns \/ \E t \in Services!Thread : Services!PollEnds(t)
  PROVE  ServicesInv'
<1>1. UNCHANGED <<Services!screen, Services!sensor, Services!camera>>
  BY DEF Services!JoinReturns, Services!PollEnds
<1>2. FallInv' /\ SensorType'
  BY <1>1, FallKept, SensorTypeKept DEF Services!sensor, Services!screen
<1>3. CASE Services!JoinReturns
  <2>1. /\ main \in {"joining", "leaving"} /\ mCurFPSThread \notin polling
        /\ mCurFPSThread' = Services!NoThread /\ main' = "free"
        /\ fps' = IF main = "leaving" THEN "stopped" ELSE fps
        /\ fpsInbox' = IF main = "leaving" THEN "none" ELSE fpsInbox
        /\ UNCHANGED <<polling, mInterrupt, early, leaked>>
    BY <1>3 DEF Services!JoinReturns
  <2>2. OverlayType'
    BY <1>1, <2>1 DEF ServicesInv, OverlayType, Services!screen
  <2>3. OverlayInv'
    BY <1>1, <2>1 DEF ServicesInv, OverlayInv, Active, Services!screen
  <2>4. polling' \ {mCurFPSThread'} = polling \ {mCurFPSThread}
    BY <2>1, ThreadFacts DEF ServicesInv, OverlayType
  <2> QED BY <1>2, <2>1, <2>2, <2>3, <2>4, LeaksKept DEF ServicesInv
<1>4. ASSUME NEW t \in Services!Thread, Services!PollEnds(t)
      PROVE  ServicesInv'
  <2>1. /\ t \in polling \cap mInterrupt
        /\ polling' = polling \ {t} /\ mInterrupt' = mInterrupt \ {t}
        /\ UNCHANGED <<fpsInbox, fps, mCurFPSThread, early, leaked, main>>
    BY <1>4 DEF Services!PollEnds
  <2>2. t = mCurFPSThread /\ ~Active
    BY <2>1 DEF ServicesInv, OverlayInv
  <2>3. OverlayType'
    BY <1>1, <2>1 DEF ServicesInv, OverlayType, Services!screen
  <2>4. OverlayInv'
    BY <1>1, <2>1, <2>2 DEF ServicesInv, OverlayInv, Active, Services!screen
  <2> QED BY <1>2, <2>1, <2>2, <2>3, <2>4, LeaksKept DEF ServicesInv
<1> QED BY <1>3, <1>4

(* The fall sensor.                                                        *)
LEMMA OverlayKept ==
  ASSUME ServicesInv, UNCHANGED <<Services!screen, Services!overlay, main>>
  PROVE  OverlayType' /\ OverlayInv' /\ Leaks'
<1>1. OverlayType' /\ OverlayInv'
  BY DEF ServicesInv, OverlayType, OverlayInv, Active, Services!screen, Services!overlay
<1>2. Leaks'
  BY LeaksKept DEF Services!overlay
<1> QED BY <1>1, <1>2

LEMMA Enqueued ==
  ASSUME NEW task \in {"enable", "disable"}, ServicesInv, Len(tasks) < Services!MaxTask,
         tasks' = Append(tasks, task)
  PROVE  /\ tasks' \in Seq({"enable", "disable"}) /\ Len(tasks') <= Services!MaxTask
         /\ WillListen' <=> task = "enable"
<1>1. tasks \in Seq({"enable", "disable"})
  BY DEF ServicesInv, SensorType
<1>2. /\ Append(tasks, task) \in Seq({"enable", "disable"})
      /\ Len(Append(tasks, task)) = Len(tasks) + 1
      /\ Append(tasks, task)[Len(tasks) + 1] = task
      /\ Append(tasks, task) # <<>> /\ Len(tasks) \in Nat
  BY <1>1
<1> QED BY <1>2 DEF WillListen, Services!MaxTask

LEMMA FallOK ==
  ASSUME ServicesInv, Services!FallStart \/ Services!FallReceive \/ Services!FallDestroy
  PROVE  ServicesInv'
<1>1. UNCHANGED <<Services!screen, Services!overlay, main, Services!camera, listening, event>>
  BY DEF Services!FallStart, Services!FallReceive, Services!FallDestroy
<1>2. OverlayType' /\ OverlayInv' /\ Leaks'
  BY <1>1, OverlayKept
<1>3. CASE Services!FallStart
  <2>1. /\ Len(tasks) < Services!MaxTask /\ tasks' = Append(tasks, "enable")
        /\ fallService' = TRUE /\ startedOff' = (sent = "off" \/ fallInbox = "off")
        /\ fallInbox' = fallInbox
    BY <1>3 DEF Services!FallStart
  <2>2. WillListen' /\ tasks' \in Seq({"enable", "disable"}) /\ Len(tasks') <= Services!MaxTask
    BY <2>1, Enqueued
  <2>3. SensorType'
    BY <1>1, <2>1, <2>2 DEF ServicesInv, SensorType, Services!camera
  <2>4. FallInv'
    BY <1>1, <2>1, <2>2 DEF ServicesInv, OverlayType, FallInv, Services!screen
  <2> QED BY <1>2, <2>3, <2>4 DEF ServicesInv
<1>4. CASE Services!FallReceive
  <2>1. /\ Len(tasks) < Services!MaxTask /\ tasks' = Append(tasks, Services!FallTask(fallInbox))
        /\ fallService' = fallService /\ startedOff' = FALSE
        /\ fallInbox # "none" /\ fallInbox' = "none"
    BY <1>4 DEF Services!FallReceive
  <2>2. /\ Services!FallTask(fallInbox) \in {"enable", "disable"}
        /\ Services!FallTask(fallInbox) = "enable" <=> sent = "on"
    BY <2>1 DEF ServicesInv, SensorType, FallInv, Services!FallTask
  <2>3. /\ WillListen' <=> sent = "on"
        /\ tasks' \in Seq({"enable", "disable"}) /\ Len(tasks') <= Services!MaxTask
    BY <2>1, <2>2, Enqueued
  <2>4. SensorType'
    BY <1>1, <2>1, <2>3 DEF ServicesInv, SensorType, Services!camera
  <2>5. FallInv'
    BY <1>1, <2>1, <2>3 DEF ServicesInv, FallInv, Services!screen
  <2> QED BY <1>2, <2>4, <2>5 DEF ServicesInv
<1>5. CASE Services!FallDestroy
  <2>1. /\ Len(tasks) < Services!MaxTask /\ tasks' = Append(tasks, "disable")
        /\ fallService' = FALSE /\ startedOff' = FALSE /\ fallInbox' = "none"
    BY <1>5 DEF Services!FallDestroy
  <2>2. ~WillListen' /\ tasks' \in Seq({"enable", "disable"}) /\ Len(tasks') <= Services!MaxTask
    BY <2>1, Enqueued
  <2>3. SensorType'
    BY <1>1, <2>1, <2>2 DEF ServicesInv, SensorType, Services!camera
  <2>4. FallInv'
    BY <1>1, <2>1, <2>2 DEF ServicesInv, FallInv, Services!screen
  <2> QED BY <1>2, <2>3, <2>4 DEF ServicesInv
<1> QED BY <1>3, <1>4, <1>5

(* The executor runs the first task: what it will come to does not change. *)
LEMMA RunTaskOK ==
  ASSUME ServicesInv, Services!RunTask
  PROVE  ServicesInv'
<1>1. /\ tasks # <<>> /\ tasks' = Tail(tasks) /\ listening' = (Head(tasks) = "enable")
      /\ event' = (event /\ listening')
      /\ UNCHANGED <<Services!screen, Services!overlay, main, fallInbox, fallService, startedOff,
                     Services!camera>>
  BY DEF Services!RunTask
<1>2. OverlayType' /\ OverlayInv' /\ Leaks'
  BY <1>1, OverlayKept
<1>3. tasks \in Seq({"enable", "disable"}) /\ Len(tasks) <= Services!MaxTask
  BY DEF ServicesInv, SensorType
<1>4. /\ Tail(tasks) \in Seq({"enable", "disable"}) /\ Len(Tail(tasks)) <= Services!MaxTask
      /\ Head(tasks) = tasks[1]
      /\ Tail(tasks) # <<>> => Tail(tasks)[Len(Tail(tasks))] = tasks[Len(tasks)]
      /\ Tail(tasks) = <<>> => Len(tasks) = 1
  <2>1. /\ Tail(tasks) \in Seq({"enable", "disable"}) /\ Len(Tail(tasks)) = Len(tasks) - 1
        /\ \A i \in 1..Len(Tail(tasks)) : Tail(tasks)[i] = tasks[i + 1]
    BY <1>1, <1>3, HeadTailProperties
  <2>2. Tail(tasks) = <<>> <=> Len(Tail(tasks)) = 0
    BY <2>1, EmptySeq
  <2>3. Len(tasks) \in Nat /\ Len(Tail(tasks)) \in Nat
    BY <1>3, <2>1, LenProperties
  <2>4. Head(tasks) = tasks[1]
    BY <1>1, <1>3
  <2> QED BY <1>3, <2>1, <2>2, <2>3, <2>4 DEF Services!MaxTask
<1>5. WillListen' = WillListen
  BY <1>1, <1>4 DEF WillListen
<1>6. SensorType'
  BY <1>1, <1>4 DEF ServicesInv, SensorType, Services!camera
<1>7. FallInv'
  BY <1>1, <1>5 DEF ServicesInv, FallInv, Services!screen
<1> QED BY <1>2, <1>6, <1>7 DEF ServicesInv

(* Falls, the motor, and the camera HAL, which shares it.                  *)
LEMMA CameraOK ==
  ASSUME ServicesInv,
         \/ Services!Fall \/ Services!onSensorChanged \/ Services!RunMotor
         \/ \E d \in {"up", "down"} : Services!HalMoves(d)
  PROVE  ServicesInv'
<1>1. /\ UNCHANGED <<Services!screen, Services!overlay, fallInbox, fallService, tasks, listening,
                     startedOff>>
      /\ main' = main \/ (Active /\ Active')
  BY DEF Services!Fall, Services!onSensorChanged, Services!RunMotor, Services!HalMoves,
         Services!sensor, Active
<1>2. main' \in {"free", "joining", "leaving", "closing"}
  BY DEF ServicesInv, OverlayType, Services!Fall, Services!onSensorChanged, Services!RunMotor,
         Services!HalMoves
<1>3. OverlayType'
  BY <1>1, <1>2 DEF ServicesInv, OverlayType, Services!screen, Services!overlay
<1>4. OverlayInv'
  BY <1>1 DEF ServicesInv, OverlayInv, Active, Services!screen, Services!overlay
<1>5. Leaks'
  BY <1>1, LeaksKept DEF Services!overlay
<1>6. event' \in BOOLEAN
  BY DEF ServicesInv, SensorType, Services!Fall, Services!onSensorChanged, Services!RunMotor,
         Services!HalMoves, Services!sensor
<1>7. direction' \in {"up", "down"} /\ motor' \in {"up", "down"} /\ contended' \in BOOLEAN
  BY DEF ServicesInv, SensorType, Services!Fall, Services!onSensorChanged, Services!RunMotor,
         Services!HalMoves, Services!camera
<1>8. SensorType'
  BY <1>1, <1>6, <1>7 DEF ServicesInv, SensorType
<1>9. FallInv'
  BY <1>1, FallKept DEF Services!screen
<1> QED BY <1>3, <1>4, <1>5, <1>8, <1>9 DEF ServicesInv

LEMMA ProcessDiesOK ==
  ASSUME ServicesInv, Services!ProcessDies
  PROVE  ServicesInv'
<1>1. 0 \in 0..MaxThread
  BY MaxThreadAssumption
<1>2. OverlayType'
  BY <1>1 DEF ServicesInv, OverlayType, Services!ProcessDies, Services!screen
<1>3. OverlayInv'
  BY DEF OverlayInv, Active, Services!ProcessDies
<1>4. Leaks'
  BY FS_EmptySet DEF Leaks, Services!ProcessDies
<1>5. SensorType'
  <2>1. tasks' = <<>>
    BY DEF Services!ProcessDies
  <2>2. tasks' \in Seq({"enable", "disable"}) /\ Len(tasks') <= Services!MaxTask
    BY <2>1 DEF Services!MaxTask
  <2> QED BY <2>2 DEF ServicesInv, SensorType, Services!ProcessDies, Services!camera
<1>6. FallInv'
  BY DEF FallInv, WillListen, Services!ProcessDies
<1> QED BY <1>2, <1>3, <1>4, <1>5, <1>6 DEF ServicesInv

LEMMA ServicesStep ==
  ASSUME ServicesInv, Services!Next \/ UNCHANGED services
  PROVE  ServicesInv'
<1>1. CASE UNCHANGED services
  <2>1. UNCHANGED <<Services!screen, Services!overlay, main, Services!sensor, Services!camera>>
    BY <1>1 DEF services, Services!screen, Services!overlay, Services!sensor, Services!camera
  <2>2. SensorType' /\ FallInv'
    BY <2>1, SensorTypeKept, FallKept DEF Services!sensor, Services!screen
  <2> QED BY <2>1, <2>2, OverlayKept DEF ServicesInv
<1>2. CASE Services!Next
  BY <1>2, ScreenOK, FpsCreateOK, FpsScreenOnOK, FpsScreenOffOK, FpsDestroyOK, JoinOK, FallOK,
     RunTaskOK, CameraOK, ProcessDiesOK
     DEF Services!Next, Services!MainThread
<1> QED BY <1>1, <1>2

LEMMA ServicesInductive == Together => []ServicesInv
<1>1. ServicesInv /\ [Services!Next]_services => ServicesInv'
  BY ServicesStep
<1> QED BY <1>1, ServicesInitOK, PTL DEF Together

LEMMA ServicesPromise == ServicesInv => Services!ServicesFollowScreen
<1> SUFFICES ASSUME ServicesInv PROVE Services!ServicesFollowScreen
  OBVIOUS
<1>1. Cardinality(polling \ {mCurFPSThread}) <= leaked
  BY DEF ServicesInv, OverlayType, Leaks
<1>2. /\ main = "free" /\ fps # "shown" => mCurFPSThread = Services!NoThread
      /\ main = "free" /\ fps = "shown" /\ sent = "off" => fpsInbox = "off" \/ early
  BY DEF ServicesInv, OverlayInv, Active
<1>3. tasks = <<>> /\ fallInbox = "none" /\ ~startedOff =>
        (listening <=> fallService /\ sent = "on")
  BY DEF ServicesInv, FallInv, WillListen
<1>4. Services!Cardinality(polling \ {mCurFPSThread}) = Cardinality(polling \ {mCurFPSThread})
  BY DEF Services!Cardinality, Cardinality
<1> QED BY <1>1, <1>2, <1>3, <1>4 DEF Services!ServicesFollowScreen

(* No thread polls but the current one, none while the service has         *)
(* received SCREEN_OFF or is destroyed, but for those that a service       *)
(* created with the screen off leaves; and the fall sensor listens when    *)
(* its service runs and the screen is on, once the executor is idle.       *)
THEOREM ServicesDoFollow == PartsSpec => []ServicesFollowScreen
<1>1. ServicesInv => ServicesFollowScreen
  BY ServicesPromise DEF ServicesFollowScreen
<1> QED BY <1>1, ServicesInductive, SumIsTogether, PTL

-----------------------------------------------------------------------------
(* The refresh rate: the writes that a handler has still to do, one shape  *)
(* for each.  A tile that is clicked writes first what it read; a fixed    *)
(* rate writes peak and lowest; the "auto" switch writes 90 and 60 before  *)
(* its own setting.                                                        *)
Peak(rate) == <<"peak", rate>>
Lowest(rate) == <<"lowest", rate>>
Automatic(value) == <<"auto", value>>

FixedWrites ==
  /\ auto = 0
  /\ \E rate \in Refresh!Rate :
       /\ ~cut => chosen = rate
       /\ \/ todo = <<Lowest(rate)>> /\ peak = rate
          \/ todo = <<Peak(rate), Lowest(rate)>>
          \/ \E other \in Refresh!Rate :
               \/ todo = <<Lowest(other), Peak(rate), Lowest(rate)>>
               \/ todo = <<Peak(other), Lowest(other), Peak(rate), Lowest(rate)>>

AutoWrites ==
  /\ screen /\ ~shade
  /\ ~cut => chosen = 90 /\ ~fixed
  /\ \E value \in {0, 1} :
       \/ todo = <<Automatic(value)>> /\ peak = 90 /\ lowest = 60
       \/ todo = <<Lowest(60), Automatic(value)>> /\ peak = 90
       \/ todo = <<Peak(90), Lowest(60), Automatic(value)>>

Settled ==
  todo = <<>> /\ ~cut =>
    /\ peak = chosen /\ lowest <= peak
    /\ fixed => lowest = peak
    /\ auto = 1 => lowest # 90

(* What the screen and the tile show of "auto" is not stale when they act  *)
(* on it: neither is open while the other one can change it.               *)
RefreshType ==
  /\ peak \in Refresh!Rate /\ lowest \in Refresh!Rate \cup {Refresh!Unset} /\ auto \in {0, 1}
  /\ screen \in BOOLEAN /\ checked \in BOOLEAN /\ usable \in BOOLEAN /\ shade \in BOOLEAN
  /\ autoRefreshEnabled \in BOOLEAN /\ fixed \in BOOLEAN /\ cut \in BOOLEAN
  /\ chosen \in Refresh!Rate

RefreshInv ==
  /\ RefreshType
  /\ todo = <<>> \/ FixedWrites \/ AutoWrites
  /\ usable => screen /\ auto = 0
  /\ shade => (autoRefreshEnabled <=> auto = 1)
  /\ Settled

LEMMA RefreshInitOK == Refresh!Init => RefreshInv
<1> SUFFICES ASSUME Refresh!Init PROVE RefreshInv
  OBVIOUS
<1>1. RefreshType
  BY DEF Refresh!Init, RefreshType, Refresh!Unset
<1>2. lowest <= peak /\ lowest # 90
  BY DEF Refresh!Init, Refresh!Rate, Refresh!Unset
<1> QED BY <1>1, <1>2 DEF Refresh!Init, RefreshInv, Settled

LEMMA WriteOK ==
  ASSUME RefreshInv, Refresh!Write
  PROVE  RefreshInv'
<1>1. /\ todo # <<>> /\ todo' = Tail(todo)
      /\ peak' = IF Head(todo)[1] = "peak" THEN Head(todo)[2] ELSE peak
      /\ lowest' = IF Head(todo)[1] = "lowest" THEN Head(todo)[2] ELSE lowest
      /\ auto' = IF Head(todo)[1] = "auto" THEN Head(todo)[2] ELSE auto
      /\ usable' = IF Head(todo)[1] = "auto" THEN Head(todo)[2] = 0 ELSE usable
      /\ UNCHANGED <<screen, checked, shade, autoRefreshEnabled, chosen, fixed, cut>>
  BY DEF Refresh!Write, Refresh!tile, Refresh!ghosts
<1>2. CASE FixedWrites
  <2> PICK rate \in Refresh!Rate :
       /\ ~cut => chosen = rate
       /\ \/ todo = <<Lowest(rate)>> /\ peak = rate
          \/ todo = <<Peak(rate), Lowest(rate)>>
          \/ \E other \in Refresh!Rate :
               \/ todo = <<Lowest(other), Peak(rate), Lowest(rate)>>
               \/ todo = <<Peak(other), Lowest(other), Peak(rate), Lowest(rate)>>
    BY <1>2 DEF FixedWrites
  <2>1. CASE todo = <<Lowest(rate)>> /\ peak = rate
    <3>1. /\ todo' = <<>> /\ lowest' = rate
          /\ UNCHANGED <<peak, auto, usable>>
      BY <1>1, <2>1 DEF Lowest
    <3> QED BY <1>1, <1>2, <2>1, <3>1
            DEF RefreshInv, RefreshType, Settled, FixedWrites, Refresh!Rate, Refresh!Unset
  <2>2. CASE todo = <<Peak(rate), Lowest(rate)>>
    <3>1. /\ todo' = <<Lowest(rate)>> /\ peak' = rate
          /\ UNCHANGED <<lowest, auto, usable>>
      BY <1>1, <2>2 DEF Peak, Lowest
    <3>2. FixedWrites'
      BY <1>1, <1>2, <3>1 DEF FixedWrites
    <3> QED BY <1>1, <3>1, <3>2 DEF RefreshInv, RefreshType, Settled
  <2>3. ASSUME NEW other \in Refresh!Rate,
               \/ todo = <<Lowest(other), Peak(rate), Lowest(rate)>>
               \/ todo = <<Peak(other), Lowest(other), Peak(rate), Lowest(rate)>>
        PROVE  RefreshInv'
    <3>1. /\ \/ todo' = <<Peak(rate), Lowest(rate)>>
             \/ todo' = <<Lowest(other), Peak(rate), Lowest(rate)>>
          /\ peak' \in Refresh!Rate /\ lowest' \in Refresh!Rate \cup {Refresh!Unset}
          /\ UNCHANGED <<auto, usable>>
      <4>1. CASE todo = <<Lowest(other), Peak(rate), Lowest(rate)>>
        <5>1. /\ Head(todo)[1] = "lowest" /\ Head(todo)[2] = other
              /\ Tail(todo) = <<Peak(rate), Lowest(rate)>>
          BY <4>1 DEF Lowest
        <5> QED BY <1>1, <5>1 DEF RefreshInv, RefreshType
      <4>2. CASE todo = <<Peak(other), Lowest(other), Peak(rate), Lowest(rate)>>
        <5>1. /\ Head(todo)[1] = "peak" /\ Head(todo)[2] = other
              /\ Tail(todo) = <<Lowest(other), Peak(rate), Lowest(rate)>>
          BY <4>2 DEF Peak
        <5> QED BY <1>1, <5>1 DEF RefreshInv, RefreshType
      <4> QED BY <2>3, <4>1, <4>2
    <3>2. FixedWrites'
      BY <1>1, <1>2, <3>1 DEF FixedWrites
    <3>3. todo' # <<>>
      BY <3>1
    <3> QED BY <1>1, <3>1, <3>2, <3>3 DEF RefreshInv, RefreshType, Settled
  <2> QED BY <2>1, <2>2, <2>3
<1>3. CASE AutoWrites
  <2> PICK value \in {0, 1} :
       \/ todo = <<Automatic(value)>> /\ peak = 90 /\ lowest = 60
       \/ todo = <<Lowest(60), Automatic(value)>> /\ peak = 90
       \/ todo = <<Peak(90), Lowest(60), Automatic(value)>>
    BY <1>3 DEF AutoWrites
  <2>1. CASE todo = <<Automatic(value)>> /\ peak = 90 /\ lowest = 60
    <3>1. /\ todo' = <<>> /\ auto' = value /\ usable' = (value = 0)
          /\ UNCHANGED <<peak, lowest>>
      BY <1>1, <2>1 DEF Automatic
    <3>2. RefreshType'
      BY <1>1, <3>1 DEF RefreshInv, RefreshType
    <3>3. Settled'
      BY <1>1, <1>3, <2>1, <3>1 DEF Settled, AutoWrites
    <3> QED BY <1>1, <1>3, <3>1, <3>2, <3>3 DEF RefreshInv, AutoWrites
  <2>2. CASE todo = <<Lowest(60), Automatic(value)>> /\ peak = 90
    <3>1. /\ todo' = <<Automatic(value)>> /\ lowest' = 60
          /\ UNCHANGED <<peak, auto, usable>>
      BY <1>1, <2>2 DEF Automatic, Lowest
    <3>2. AutoWrites'
      BY <1>1, <1>3, <2>2, <3>1 DEF AutoWrites
    <3> QED BY <1>1, <3>1, <3>2 DEF RefreshInv, RefreshType, Settled, Refresh!Rate
  <2>3. CASE todo = <<Peak(90), Lowest(60), Automatic(value)>>
    <3>1. /\ todo' = <<Lowest(60), Automatic(value)>> /\ peak' = 90
          /\ UNCHANGED <<lowest, auto, usable>>
      BY <1>1, <2>3 DEF Automatic, Lowest, Peak
    <3>2. AutoWrites'
      BY <1>1, <1>3, <3>1 DEF AutoWrites
    <3> QED BY <1>1, <3>1, <3>2 DEF RefreshInv, RefreshType, Settled, Refresh!Rate
  <2> QED BY <2>1, <2>2, <2>3
<1> QED BY <1>1, <1>2, <1>3 DEF RefreshInv

(* The screen.                                                             *)
LEMMA ScreenHandlersOK ==
  ASSUME RefreshInv,
         \/ Refresh!onCreatePreferences \/ Refresh!CloseScreen \/ Refresh!RefreshRateSwitch
         \/ \E enabled \in BOOLEAN : Refresh!AutoRefreshRateSwitch(enabled)
  PROVE  RefreshInv'
<1>1. CASE Refresh!onCreatePreferences \/ Refresh!CloseScreen
  <2>1. /\ todo = <<>> /\ ~shade /\ todo' = todo
        /\ screen' \in BOOLEAN /\ checked' \in BOOLEAN /\ usable' \in BOOLEAN
        /\ usable' => screen' /\ auto = 0
        /\ UNCHANGED <<peak, lowest, auto, shade, autoRefreshEnabled, chosen, fixed, cut>>
    BY <1>1 DEF Refresh!onCreatePreferences, Refresh!CloseScreen, Refresh!MainThreadFree,
                Refresh!rates, Refresh!tile, Refresh!ghosts, Refresh!isCurrentlyEnabled
  <2>2. RefreshType' /\ Settled'
    BY <2>1 DEF RefreshInv, RefreshType, Settled
  <2> QED BY <2>1, <2>2 DEF RefreshInv
<1>2. CASE Refresh!RefreshRateSwitch
  <2>1. /\ todo = <<>> /\ screen /\ usable /\ ~shade
        /\ checked' = ~checked
        /\ UNCHANGED <<peak, lowest, auto, screen, usable, shade, autoRefreshEnabled>>
    BY <1>2 DEF Refresh!RefreshRateSwitch, Refresh!MainThreadFree, Refresh!rates, Refresh!tile
  <2>2. PICK rate \in Refresh!Rate :
          todo' = <<Peak(rate), Lowest(rate)>> /\ chosen' = rate /\ fixed' = TRUE /\ cut' = FALSE
    <3>1. Refresh!RateOf(checked') \in Refresh!Rate
      BY DEF Refresh!RateOf, Refresh!Rate
    <3>2. /\ todo' = <<Peak(Refresh!RateOf(checked')), Lowest(Refresh!RateOf(checked'))>>
          /\ chosen' = Refresh!RateOf(checked') /\ fixed' = TRUE /\ cut' = FALSE
      BY <1>2 DEF Refresh!RefreshRateSwitch, Refresh!setPeakRefresh, Refresh!Choose, Peak, Lowest
    <3> QED BY <3>1, <3>2
  <2>3. auto = 0
    BY <2>1 DEF RefreshInv
  <2>4. FixedWrites' /\ todo' # <<>>
    BY <2>1, <2>2, <2>3 DEF FixedWrites
  <2> QED BY <2>1, <2>2, <2>3, <2>4 DEF RefreshInv, RefreshType, Settled
<1>3. ASSUME NEW enabled \in BOOLEAN, Refresh!AutoRefreshRateSwitch(enabled)
      PROVE  RefreshInv'
  <2>1. /\ todo = <<>> /\ screen /\ ~shade
        /\ todo' = <<Peak(90), Lowest(60), Automatic(IF enabled THEN 1 ELSE 0)>>
        /\ chosen' = 90 /\ fixed' = FALSE /\ cut' = FALSE
        /\ UNCHANGED <<peak, lowest, auto, screen, checked, usable, shade, autoRefreshEnabled>>
    BY <1>3 DEF Refresh!AutoRefreshRateSwitch, Refresh!MainThreadFree, Refresh!rates,
                Refresh!tile, Refresh!ui, Refresh!Choose, Peak, Lowest, Automatic
  <2>2. (IF enabled THEN 1 ELSE 0) \in {0, 1} /\ todo' # <<>>
    BY <2>1
  <2>3. AutoWrites'
    BY <2>1, <2>2 DEF AutoWrites
  <2> QED BY <2>1, <2>2, <2>3 DEF RefreshInv, RefreshType, Settled, Refresh!Rate
<1> QED BY <1>1, <1>2, <1>3

LEMMA FourWrites ==
  ASSUME NEW a, NEW b, NEW c, NEW d
  PROVE  <<a, b>> \o <<c, d>> = <<a, b, c, d>>
<1> DEFINE S == {a, b, c, d}  s == <<a, b>>  t == <<c, d>>  both == <<a, b, c, d>>
<1>1. s \in Seq(S) /\ t \in Seq(S) /\ both \in Seq(S)
  OBVIOUS
<1>2. Len(s) = 2 /\ Len(t) = 2 /\ Len(both) = 4
  OBVIOUS
<1>3. /\ s \o t \in Seq(S) /\ Len(s \o t) = 4
      /\ \A i \in 1..4 : (s \o t)[i] = IF i <= 2 THEN s[i] ELSE t[i - 2]
  <2> HIDE DEF s, t
  <2>1. /\ s \o t \in Seq(S) /\ Len(s \o t) = Len(s) + Len(t)
        /\ \A i \in 1..Len(s) + Len(t) :
             (s \o t)[i] = IF i <= Len(s) THEN s[i] ELSE t[i - Len(s)]
    BY <1>1, ConcatProperties
  <2> QED BY <1>2, <2>1
<1>4. \A i \in 1..4 : both[i] = IF i <= 2 THEN s[i] ELSE t[i - 2]
  OBVIOUS
<1> HIDE DEF s, t, both
<1>5. s \o t = both
  <2>1. \A i \in 1..4 : (s \o t)[i] = both[i]
    BY <1>3, <1>4
  <2> QED BY <1>1, <1>2, <1>3, <2>1, SeqEqual
<1> QED BY <1>5 DEF s, t, both

(* The tile.  When it is only looked at it writes the peak it reads, which *)
(* is what was chosen, and as both rates only if apps may not choose.      *)
LEMMA TileHandlersOK ==
  ASSUME RefreshInv, Refresh!onStartListening \/ Refresh!onStopListening \/ Refresh!onClick
  PROVE  RefreshInv'
<1> DEFINE shown == Refresh!RateOf(Refresh!isCurrentlyEnabled)
<1>1. shown = peak /\ shown \in Refresh!Rate
  BY DEF RefreshInv, RefreshType, Refresh!RateOf, Refresh!isCurrentlyEnabled, Refresh!Rate
<1>2. CASE Refresh!onStartListening
  <2>1. /\ todo = <<>> /\ ~shade /\ shade' = TRUE /\ autoRefreshEnabled' = (auto = 1)
        /\ UNCHANGED <<peak, lowest, auto, screen, checked, usable, chosen, fixed, cut>>
    BY <1>2 DEF Refresh!onStartListening, Refresh!MainThreadFree, Refresh!rates, Refresh!ui,
                Refresh!ghosts
  <2>2. todo' = IF auto = 1 THEN <<>> ELSE <<Peak(shown), Lowest(shown)>>
    BY <1>2 DEF Refresh!onStartListening, Refresh!TileWrites, Refresh!setPeakRefresh, Peak, Lowest
  <2>3. RefreshType'
    BY <2>1 DEF RefreshInv, RefreshType
  <2>4. CASE auto = 1
    BY <2>1, <2>2, <2>3, <2>4 DEF RefreshInv, Settled
  <2>5. CASE auto = 0
    <3>1. todo' = <<Peak(shown), Lowest(shown)>>
      BY <2>2, <2>5
    <3>2. ~cut => chosen = shown
      BY <1>1, <2>1 DEF RefreshInv, Settled
    <3>3. FixedWrites' /\ todo' # <<>>
      BY <1>1, <2>1, <2>5, <3>1, <3>2 DEF FixedWrites
    <3> QED BY <2>1, <2>3, <3>3 DEF RefreshInv, Settled
  <2> QED BY <2>4, <2>5 DEF RefreshInv, RefreshType
<1>3. CASE Refresh!onStopListening
  <2>1. /\ todo = <<>> /\ shade' = FALSE
        /\ UNCHANGED <<peak, lowest, auto, todo, screen, checked, usable, autoRefreshEnabled,
                       chosen, fixed, cut>>
    BY <1>3 DEF Refresh!onStopListening, Refresh!MainThreadFree, Refresh!rates, Refresh!ui,
                Refresh!ghosts
  <2> QED BY <2>1 DEF RefreshInv, RefreshType, Settled
<1>4. CASE Refresh!onClick
  <2> DEFINE rate == Refresh!RateOf(~Refresh!isCurrentlyEnabled)
  <2>1. /\ todo = <<>> /\ shade /\ ~autoRefreshEnabled
        /\ todo' = <<Peak(shown), Lowest(shown)>> \o <<Peak(rate), Lowest(rate)>>
        /\ chosen' = rate /\ fixed' = TRUE /\ cut' = FALSE
        /\ UNCHANGED <<peak, lowest, auto, screen, checked, usable, shade, autoRefreshEnabled>>
    BY <1>4 DEF Refresh!onClick, Refresh!MainThreadFree, Refresh!rates, Refresh!ui, Refresh!tile,
                Refresh!Choose, Refresh!setPeakRefresh, Peak, Lowest
  <2>2. rate \in Refresh!Rate
    BY DEF Refresh!RateOf, Refresh!Rate
  <2>3. todo' = <<Peak(shown), Lowest(shown), Peak(rate), Lowest(rate)>>
    BY <2>1, FourWrites
  <2>4. auto' = 0
    BY <2>1 DEF RefreshInv, RefreshType
  <2> HIDE DEF shown, rate
  <2>5. FixedWrites'
    <3>1. \E a \in Refresh!Rate :
            /\ ~cut' => chosen' = a
            /\ \E b \in Refresh!Rate : todo' = <<Peak(b), Lowest(b), Peak(a), Lowest(a)>>
      BY <1>1, <2>1, <2>2, <2>3
    <3> QED BY <2>4, <3>1 DEF FixedWrites
  <2>6. todo' # <<>>
    BY <2>3
  <2> QED BY <2>1, <2>2, <2>4, <2>5, <2>6 DEF RefreshInv, RefreshType, Settled
<1> QED BY <1>2, <1>3, <1>4

LEMMA RefreshStep ==
  ASSUME RefreshInv, Refresh!Next \/ UNCHANGED refresh
  PROVE  RefreshInv'
<1>1. CASE UNCHANGED refresh
  <2>1. UNCHANGED <<peak, lowest, auto, todo, screen, checked, usable, shade, autoRefreshEnabled,
                    chosen, fixed, cut>>
    BY <1>1 DEF refresh
  <2> QED BY <2>1 DEF RefreshInv, RefreshType, Settled, FixedWrites, AutoWrites
<1>2. CASE Refresh!ProcessEnds
  <2>1. /\ todo' = <<>> /\ screen' = FALSE /\ checked' = FALSE /\ usable' = FALSE
        /\ shade' = FALSE /\ autoRefreshEnabled' = FALSE
        /\ cut' = (cut \/ todo # <<>>)
        /\ UNCHANGED <<peak, lowest, auto, chosen, fixed>>
    BY <1>2 DEF Refresh!ProcessEnds, Refresh!rates
  <2>2. RefreshType'
    BY <2>1 DEF RefreshInv, RefreshType
  <2> QED BY <2>1, <2>2 DEF RefreshInv, Settled
<1>3. CASE Refresh!Next
  BY <1>2, <1>3, WriteOK, ScreenHandlersOK, TileHandlersOK DEF Refresh!Next
<1> QED BY <1>1, <1>3

LEMMA RatePromise == RefreshInv => Refresh!RateFollowsChoice
BY DEF RefreshInv, Settled, Refresh!RateFollowsChoice

LEMMA RefreshInductive == Together => []RefreshInv
<1>1. RefreshInv /\ [Refresh!Next]_refresh => RefreshInv'
  BY RefreshStep
<1> QED BY <1>1, RefreshInitOK, PTL DEF Together

(* Between handlers the peak is what was last chosen, on the screen or on  *)
(* the tile, however often the tile was looked at.                         *)
THEOREM RateDoesFollow == PartsSpec => []RateFollowsChoice
<1>1. RefreshInv => RateFollowsChoice
  BY RatePromise DEF RateFollowsChoice
<1> QED BY <1>1, RefreshInductive, SumIsTogether, PTL

-----------------------------------------------------------------------------
(* The gestures.  TypeOK of Gestures, in parts.                            *)
UsersType ==
  /\ current \in started /\ started \subseteq Gestures!User /\ bootCompleted \subseteq started
  /\ switched \in Seq(Gestures!User) /\ Len(switched) <= Gestures!MaxSwitch
  /\ mRestoreUser \in BOOLEAN

MapsType == gesturesMapping \in [Gestures!User -> [Gestures!Gesture -> Gestures!Mapping]]
SetsType == gesturesNode \subseteq Gestures!Gesture /\ gesturesClobbered \subseteq Gestures!Gesture
AtType == gesturesAt \in [Gestures!Restorer -> 0..2]
ReadType == gesturesRead \in [Gestures!Restorer -> Gestures!Mapping \cup {"none"}]
ChangeType ==
  change \in {Gestures!NoChange}
             \cup (Gestures!User \X Gestures!Gesture \X (Gestures!Mapping \ {""}))

GesturesType == MapsType /\ SetsType /\ AtType /\ ReadType /\ ChangeType

(* The system user's state of a gesture is still to be restored: by its    *)
(* Startup, or by KeyHandler, which ignores the first broadcast it gets.   *)
Place(g) == IF g = "circle" THEN 1 ELSE 2
Returns(i) == switched[i] = "system" /\ (i > 1 \/ mRestoreUser)
Awaited(g) ==
  \/ "system" \in bootCompleted \/ \E i \in DOMAIN switched : Returns(i)
  \/ gesturesAt["system"] \in 1..Place(g) \/ gesturesAt["KeyHandler"] \in 1..Place(g)

(* What the system user has mapped once GestureSettings has written it.    *)
Mapped(g) ==
  IF change # Gestures!NoChange /\ change[1] = "system" /\ change[2] = g
  THEN change[3] ELSE gesturesMapping["system"][g]

(* KeyHandler never ignores a switch back: if a guest has been started the *)
(* broadcast of the switch to the guest is the first one, or it came       *)
(* before; while the system user is back, its own one comes later.         *)
HistoryInv ==
  /\ gesturesAt["guest"] # 0 => "guest" \in started
  /\ "guest" \in started /\ ~mRestoreUser =>
       /\ switched # <<>>
       /\ current = "system" => \E i \in DOMAIN switched : i > 1 /\ switched[i] = "system"

PanelReports ==
  current = "system" =>
    \A g \in Gestures!Gesture \ gesturesClobbered :
      Awaited(g) \/ (g \in gesturesNode <=> Gestures!Enabled(Mapped(g)))

GesturesInv == UsersType /\ GesturesType /\ HistoryInv /\ PanelReports

LEMMA PlaceFacts ==
  /\ \A r \in Gestures!Restorer, g \in Gestures!Gesture :
       Gestures!At(r, g) => gesturesAt[r] = Place(g)
  /\ \A g \in Gestures!Gesture : Gestures!Position(g) = Place(g) /\ Place(g) \in 1..2
<1>1. /\ DOMAIN Gestures!RestoreOrder = 1..2
      /\ Gestures!RestoreOrder[1] = "circle" /\ Gestures!RestoreOrder[2] = "up"
  BY DEF Gestures!RestoreOrder
<1>2. ASSUME NEW g \in Gestures!Gesture
      PROVE  Place(g) \in 1..2 /\ \A i \in 1..2 : Gestures!RestoreOrder[i] = g <=> i = Place(g)
  BY <1>1 DEF Place, Gestures!Gesture
<1>3. ASSUME NEW g \in Gestures!Gesture
      PROVE  Gestures!Position(g) = Place(g)
  BY <1>1, <1>2 DEF Gestures!Position
<1> QED BY <1>1, <1>2, <1>3 DEF Gestures!At

LEMMA OwnerFacts ==
  ASSUME NEW r \in Gestures!Restorer
  PROVE  /\ Gestures!Owner(r) \in Gestures!User
         /\ Gestures!Owner(r) = "system" => r \in {"system", "KeyHandler"}
         /\ Gestures!Owner(r) # "system" => r = "guest" /\ Gestures!Owner(r) = "guest"
BY DEF Gestures!Restorer, Gestures!User, Gestures!Owner

LEMMA GesturesInitOK == Gestures!Init => GesturesInv
<1> SUFFICES ASSUME Gestures!Init PROVE GesturesInv
  OBVIOUS
<1>1. UsersType
  <2>1. switched = <<>> \/ switched = <<"system">>
    BY DEF Gestures!Init, Gestures!AtBoot
  <2>2. switched \in Seq(Gestures!User) /\ Len(switched) <= Gestures!MaxSwitch
    <3>1. "system" \in Gestures!User
      BY DEF Gestures!User
    <3>2. CASE switched = <<>>
      BY <3>2 DEF Gestures!MaxSwitch
    <3>3. CASE switched = <<"system">>
      <4>1. <<"system">> \in Seq(Gestures!User) /\ Len(<<"system">>) = 1
        BY <3>1
      <4> QED BY <3>3, <4>1 DEF Gestures!MaxSwitch
    <3> QED BY <2>1, <3>2, <3>3
  <2> QED BY <2>2 DEF Gestures!Init, UsersType, Gestures!User
<1>2. GesturesType
  <2>1. gesturesMapping = [u \in Gestures!User |-> [g \in Gestures!Gesture |-> ""]]
    BY DEF Gestures!Init
  <2>2. gesturesMapping \in [Gestures!User -> [Gestures!Gesture -> Gestures!Mapping]]
    BY <2>1 DEF Gestures!Mapping
  <2>3. MapsType
    BY <2>2 DEF MapsType
  <2>4. SetsType /\ ChangeType
    BY DEF Gestures!Init, SetsType, ChangeType
  <2>5. AtType /\ ReadType
    <3>1. 0 \in 0..2
      OBVIOUS
    <3> QED BY <3>1 DEF Gestures!Init, AtType, ReadType
  <2> QED BY <2>3, <2>4, <2>5 DEF GesturesType
<1>3. HistoryInv /\ PanelReports
  BY DEF Gestures!Init, HistoryInv, PanelReports, Awaited, Gestures!Restorer, Gestures!User
<1> QED BY <1>1, <1>2, <1>3 DEF GesturesInv

(* Startup begins: every gesture of the user is awaited.                   *)
LEMMA StartupOK ==
  ASSUME GesturesInv, NEW u \in Gestures!User, Gestures!onReceive(u)
  PROVE  GesturesInv'
<1>1. /\ u \in bootCompleted /\ bootCompleted' = bootCompleted \ {u}
      /\ gesturesAt' = [gesturesAt EXCEPT ![u] = 1]
      /\ UNCHANGED <<gesturesMapping, gesturesNode, gesturesRead, gesturesClobbered, current,
                     started, switched, mRestoreUser, change>>
  BY DEF Gestures!onReceive
<1>2. u \in Gestures!Restorer
  BY DEF Gestures!Restorer
<1>3. UsersType' /\ GesturesType'
  <2>1. AtType'
    BY <1>1, <1>2 DEF GesturesInv, GesturesType, AtType
  <2>2. MapsType' /\ SetsType' /\ ReadType' /\ ChangeType'
    BY <1>1 DEF GesturesInv, GesturesType, MapsType, SetsType, ReadType, ChangeType
  <2> QED BY <1>1, <2>1, <2>2 DEF GesturesInv, UsersType, GesturesType
<1>4. HistoryInv'
  <2>1. gesturesAt'["guest"] # 0 => gesturesAt["guest"] # 0 \/ u = "guest"
    BY <1>1 DEF GesturesInv, GesturesType, AtType, Gestures!Restorer, Gestures!User
  <2> QED BY <1>1, <2>1 DEF GesturesInv, UsersType, HistoryInv
<1>5. PanelReports'
  <2>1. ASSUME NEW g \in Gestures!Gesture, Awaited(g)
        PROVE  Awaited(g)'
    <3>1. Place(g) \in 1..2 /\ 1 \in 1..Place(g)
      BY PlaceFacts
    <3>2. CASE u = "system"
      <4>1. gesturesAt'["system"] = 1
        BY <1>1, <1>2, <3>2 DEF GesturesInv, GesturesType, AtType
      <4> QED BY <3>1, <4>1 DEF Awaited, Place
    <3>3. CASE u = "guest"
      <4>1. /\ gesturesAt'["system"] = gesturesAt["system"]
            /\ gesturesAt'["KeyHandler"] = gesturesAt["KeyHandler"]
        BY <1>1, <3>3
           DEF GesturesInv, GesturesType, AtType, Gestures!Restorer, Gestures!User
      <4> QED BY <1>1, <2>1, <3>3, <4>1 DEF Awaited, Returns, Place
    <3> QED BY <3>2, <3>3 DEF Gestures!User
  <2>2. \A g : Mapped(g)' = Mapped(g)
    BY <1>1 DEF Mapped
  <2> QED BY <1>1, <2>1, <2>2 DEF GesturesInv, PanelReports
<1> QED BY <1>3, <1>4, <1>5 DEF GesturesInv

LEMMA GetStringOK ==
  ASSUME GesturesInv, NEW r \in Gestures!Restorer, NEW g \in Gestures!Gesture,
         Gestures!GetString(r, g)
  PROVE  GesturesInv'
<1>1. /\ gesturesRead' = [gesturesRead EXCEPT ![r] = gesturesMapping[Gestures!Owner(r)][g]]
      /\ UNCHANGED <<gesturesMapping, gesturesNode, gesturesAt, gesturesClobbered, current,
                     started, bootCompleted, switched, mRestoreUser, change>>
  BY DEF Gestures!GetString, Gestures!users
<1>2. gesturesMapping[Gestures!Owner(r)][g] \in Gestures!Mapping
  BY OwnerFacts DEF GesturesInv, GesturesType, MapsType
<1>3. GesturesType'
  <2>1. ReadType'
    BY <1>1, <1>2 DEF GesturesInv, GesturesType, ReadType
  <2>2. MapsType' /\ SetsType' /\ AtType' /\ ChangeType'
    BY <1>1 DEF GesturesInv, GesturesType, MapsType, SetsType, AtType, ChangeType
  <2> QED BY <2>1, <2>2 DEF GesturesType
<1>4. UsersType' /\ HistoryInv'
  BY <1>1 DEF GesturesInv, UsersType, HistoryInv
<1>5. \A h : Mapped(h)' = Mapped(h) /\ Awaited(h)' = Awaited(h)
  BY <1>1 DEF Mapped, Awaited, Returns, Place
<1>6. PanelReports'
  BY <1>1, <1>5 DEF GesturesInv, PanelReports
<1> QED BY <1>3, <1>4, <1>6 DEF GesturesInv

(* The default is stored where the restorer of the gesture is.             *)
LEMMA PutDefaultOK ==
  ASSUME GesturesInv, NEW r \in Gestures!Restorer, NEW g \in Gestures!Gesture,
         Gestures!PutDefault(r, g)
  PROVE  GesturesInv'
<1>1. /\ Gestures!At(r, g)
      /\ gesturesMapping' = [gesturesMapping EXCEPT ![Gestures!Owner(r)][g] = "app"]
      /\ gesturesRead' = [gesturesRead EXCEPT ![r] = "app"]
      /\ UNCHANGED <<gesturesNode, gesturesAt, gesturesClobbered, current, started,
                     bootCompleted, switched, mRestoreUser, change>>
  BY DEF Gestures!PutDefault, Gestures!users
<1>2. "app" \in Gestures!Mapping /\ Gestures!Owner(r) \in Gestures!User
  BY OwnerFacts DEF Gestures!Mapping
<1>3. MapsType' /\ ReadType'
  BY <1>1, <1>2 DEF GesturesInv, GesturesType, MapsType, ReadType
<1>4. UsersType' /\ GesturesType' /\ HistoryInv'
  <2>1. SetsType' /\ AtType' /\ ChangeType'
    BY <1>1 DEF GesturesInv, GesturesType, SetsType, AtType, ChangeType
  <2> QED BY <1>1, <1>3, <2>1 DEF GesturesInv, UsersType, GesturesType, HistoryInv
<1>5. \A h : Awaited(h)' = Awaited(h)
  BY <1>1 DEF Awaited, Returns, Place
<1>6. ASSUME NEW h \in Gestures!Gesture, ~Awaited(h)
      PROVE  Mapped(h)' = Mapped(h)
  <2>1. gesturesMapping'["system"][h] = gesturesMapping["system"][h]
    <3>1. CASE Gestures!Owner(r) = "system"
      <4>1. gesturesAt[r] = Place(g) /\ Place(g) \in 1..Place(g)
        BY <1>1, PlaceFacts
      <4>2. g # h
        BY <1>6, <3>1, <4>1, OwnerFacts DEF Awaited
      <4> QED BY <1>1, <1>2, <3>1, <4>2 DEF GesturesInv, GesturesType, MapsType
    <3>2. CASE Gestures!Owner(r) # "system"
      <4>1. "system" \in Gestures!User
        BY DEF Gestures!User
      <4> QED BY <1>1, <1>2, <3>2, <4>1 DEF GesturesInv, GesturesType, MapsType
    <3> QED BY <3>1, <3>2
  <2> QED BY <1>1, <2>1 DEF Mapped
<1>7. PanelReports'
  BY <1>1, <1>5, <1>6 DEF GesturesInv, PanelReports
<1> QED BY <1>4, <1>7 DEF GesturesInv

(* A restorer writes the node.  It writes the system user's state, or the  *)
(* gesture is still awaited, or it counts as clobbered.                    *)
LEMMA RestoreGestureOK ==
  ASSUME GesturesInv, NEW r \in Gestures!Restorer, NEW g \in Gestures!Gesture,
         Gestures!restore(r, g)
  PROVE  GesturesInv'
<1> DEFINE stale == \/ Gestures!Changing(Gestures!Owner(r), g)
                    \/ Gestures!Enabled(gesturesRead[r])
                         # Gestures!Enabled(gesturesMapping[Gestures!Owner(r)][g])
           tooLate == Gestures!Owner(r) = "guest" /\ current = "system" /\ ~Gestures!Pending(g)
<1>1. /\ Gestures!At(r, g)
      /\ gesturesNode' = IF Gestures!Enabled(gesturesRead[r])
                         THEN gesturesNode \cup {g} ELSE gesturesNode \ {g}
      /\ gesturesClobbered' = IF stale \/ tooLate
                              THEN gesturesClobbered \cup {g} ELSE gesturesClobbered \ {g}
      /\ gesturesRead' = [gesturesRead EXCEPT ![r] = "none"]
      /\ UNCHANGED <<gesturesMapping, current, started, bootCompleted, switched, mRestoreUser,
                     change>>
  BY DEF Gestures!restore, Gestures!users
<1>2. gesturesAt' = [gesturesAt EXCEPT ![r] = (gesturesAt[r] + 1) % 3]
  <2>1. Len(Gestures!RestoreOrder) = 2
    BY DEF Gestures!RestoreOrder
  <2>2. gesturesAt' = [gesturesAt EXCEPT
                         ![r] = (gesturesAt[r] + 1) % (Len(Gestures!RestoreOrder) + 1)]
    BY DEF Gestures!restore
  <2> QED BY <2>1, <2>2
<1>3. gesturesAt[r] = Place(g) /\ Place(g) \in 1..2
  BY <1>1, PlaceFacts
<1>4. gesturesAt'[r] = (IF g = "circle" THEN 2 ELSE 0)
  <2>1. (1 + 1) % 3 = 2 /\ (2 + 1) % 3 = 0
    OBVIOUS
  <2>2. gesturesAt'[r] = (gesturesAt[r] + 1) % 3
    BY <1>2 DEF GesturesInv, GesturesType, AtType
  <2> QED BY <1>3, <2>1, <2>2 DEF Place
<1>5. AtType'
  <2>1. (gesturesAt[r] + 1) % 3 \in 0..2
    BY <1>3
  <2> QED BY <1>2, <2>1 DEF GesturesInv, GesturesType, AtType
<1>6. \A q \in Gestures!Restorer \ {r} : gesturesAt'[q] = gesturesAt[q]
  BY <1>2 DEF GesturesInv, GesturesType, AtType
<1>7. {"system", "guest", "KeyHandler"} \subseteq Gestures!Restorer
  BY DEF Gestures!Restorer, Gestures!User
<1>8. UsersType' /\ GesturesType'
  <2>1. ReadType'
    BY <1>1 DEF GesturesInv, GesturesType, ReadType
  <2>2. SetsType'
    BY <1>1 DEF GesturesInv, GesturesType, SetsType
  <2>3. MapsType' /\ ChangeType'
    BY <1>1 DEF GesturesInv, GesturesType, MapsType, ChangeType
  <2> QED BY <1>1, <1>5, <2>1, <2>2, <2>3 DEF GesturesInv, UsersType, GesturesType
<1>9. HistoryInv'
  <2>1. gesturesAt'["guest"] # 0 => gesturesAt["guest"] # 0
    BY <1>3, <1>6, <1>7
  <2> QED BY <1>1, <2>1 DEF GesturesInv, HistoryInv
<1>10. \A h : Mapped(h)' = Mapped(h)
  BY <1>1 DEF Mapped
<1>11. ASSUME NEW h \in Gestures!Gesture, h # g, Awaited(h)
       PROVE  Awaited(h)'
  <2>1. ASSUME NEW q \in Gestures!Restorer, gesturesAt[q] \in 1..Place(h)
        PROVE  gesturesAt'[q] \in 1..Place(h)
    <3>1. CASE q # r
      BY <1>6, <2>1, <3>1
    <3>2. CASE q = r
      <4>1. g = "circle" /\ h = "up"
        BY <1>3, <1>11, <2>1, <3>2 DEF Place, Gestures!Gesture
      <4> QED BY <1>4, <3>2, <4>1 DEF Place
    <3> QED BY <3>1, <3>2
  <2>2. CASE "system" \in bootCompleted
    BY <1>1, <2>2 DEF Awaited
  <2>3. CASE \E i \in DOMAIN switched : Returns(i)
    BY <1>1, <2>3 DEF Awaited, Returns
  <2>4. CASE gesturesAt["system"] \in 1..Place(h)
    BY <1>7, <2>1, <2>4 DEF Awaited, Place
  <2>5. CASE gesturesAt["KeyHandler"] \in 1..Place(h)
    BY <1>7, <2>1, <2>5 DEF Awaited, Place
  <2> QED BY <1>11, <2>2, <2>3, <2>4, <2>5 DEF Awaited
<1>12. ASSUME current = "system", g \notin gesturesClobbered'
       PROVE  Awaited(g)' \/ (g \in gesturesNode' <=> Gestures!Enabled(Mapped(g)))
  <2>1. ~stale /\ ~tooLate
    BY <1>1, <1>12
  <2>2. CASE Gestures!Owner(r) = "system"
    <3>1. Mapped(g) = gesturesMapping["system"][g]
      BY <2>1, <2>2 DEF Mapped, Gestures!Changing
    <3>2. Gestures!Enabled(gesturesRead[r]) <=> Gestures!Enabled(Mapped(g))
      BY <2>1, <2>2, <3>1 DEF Gestures!Enabled
    <3> QED BY <1>1, <3>2
  <2>3. CASE Gestures!Owner(r) # "system"
    <3>1. r = "guest" /\ Gestures!Owner(r) = "guest"
      BY <2>3, OwnerFacts
    <3>2. Gestures!Pending(g)
      BY <1>12, <2>1, <3>1
    <3>3. /\ gesturesAt'["system"] = gesturesAt["system"]
          /\ gesturesAt'["KeyHandler"] = gesturesAt["KeyHandler"]
      BY <1>6, <1>7, <3>1
    <3>4. "guest" \in started
      BY <1>3, <3>1 DEF GesturesInv, HistoryInv
    <3>5. CASE "system" \in bootCompleted
      BY <1>1, <3>5 DEF Awaited
    <3>6. CASE \E i \in DOMAIN switched : switched[i] = "system"
      <4>1. \E i \in DOMAIN switched : Returns(i)
        BY <1>12, <3>4, <3>6 DEF GesturesInv, HistoryInv, Returns, UsersType
      <4> QED BY <1>1, <4>1 DEF Awaited, Returns
    <3>7. CASE \E q \in {"system", "KeyHandler"} : gesturesAt[q] \in 1..Gestures!Position(g)
      BY <3>3, <3>7, PlaceFacts DEF Awaited, Place
    <3> QED BY <3>2, <3>5, <3>6, <3>7 DEF Gestures!Pending
  <2> QED BY <2>2, <2>3
<1> HIDE DEF stale, tooLate
<1>13. PanelReports'
  <2> SUFFICES ASSUME current = "system",
                      NEW h \in Gestures!Gesture, h \notin gesturesClobbered'
               PROVE  Awaited(h)' \/ (h \in gesturesNode' <=> Gestures!Enabled(Mapped(h)'))
    BY <1>1 DEF PanelReports
  <2>1. CASE h = g
    BY <1>10, <1>12, <2>1
  <2>2. CASE h # g
    <3>1. h \notin gesturesClobbered /\ (h \in gesturesNode' <=> h \in gesturesNode)
      BY <1>1, <2>2
    <3>2. Awaited(h) \/ (h \in gesturesNode <=> Gestures!Enabled(Mapped(h)))
      BY <3>1 DEF GesturesInv, PanelReports
    <3>3. CASE Awaited(h)
      BY <1>11, <2>2, <3>3
    <3>4. CASE h \in gesturesNode <=> Gestures!Enabled(Mapped(h))
      BY <1>10, <3>1, <3>4
    <3> QED BY <3>2, <3>3, <3>4
  <2> QED BY <2>1, <2>2
<1> QED BY <1>8, <1>9, <1>13 DEF GesturesInv

(* KeyHandler hears of a switch: the others move up, or it restores.       *)
LEMMA GesturesUserSwitchedOK ==
  ASSUME GesturesInv, Gestures!UserSwitched
  PROVE  GesturesInv'
<1>1. /\ switched # <<>> /\ switched' = Tail(switched)
      /\ \/ /\ Head(switched) = "system" /\ mRestoreUser
            /\ gesturesAt' = [gesturesAt EXCEPT !["KeyHandler"] = 1] /\ UNCHANGED mRestoreUser
         \/ /\ ~(Head(switched) = "system" /\ mRestoreUser)
            /\ mRestoreUser' = TRUE /\ UNCHANGED gesturesAt
      /\ UNCHANGED <<gesturesMapping, gesturesNode, gesturesRead, gesturesClobbered, current,
                     started, bootCompleted, change>>
  BY DEF Gestures!UserSwitched, Gestures!Restores
<1>2. {"system", "guest", "KeyHandler"} \subseteq Gestures!Restorer
  BY DEF Gestures!Restorer, Gestures!User
<1>3. mRestoreUser' = TRUE
  BY <1>1 DEF GesturesInv, UsersType
<1>4. /\ Tail(switched) \in Seq(Gestures!User) /\ Len(Tail(switched)) = Len(switched) - 1
      /\ Len(switched) \in Nat /\ Head(switched) = switched[1]
      /\ DOMAIN switched = 1..Len(switched) /\ DOMAIN Tail(switched) = 1..Len(switched) - 1
      /\ \A i \in 1..Len(switched) - 1 : Tail(switched)[i] = switched[i + 1]
  <2>1. switched \in Seq(Gestures!User) /\ switched # <<>>
    BY <1>1 DEF GesturesInv, UsersType
  <2>2. /\ Tail(switched) \in Seq(Gestures!User) /\ Len(Tail(switched)) = Len(switched) - 1
        /\ \A i \in 1..Len(Tail(switched)) : Tail(switched)[i] = switched[i + 1]
    BY <2>1, HeadTailProperties
  <2>3. Len(switched) \in Nat /\ DOMAIN switched = 1..Len(switched)
    BY <2>1, LenProperties
  <2>4. DOMAIN Tail(switched) = 1..Len(Tail(switched))
    BY <2>2, LenProperties
  <2>5. Head(switched) = switched[1]
    BY <2>1
  <2> QED BY <2>2, <2>3, <2>4, <2>5
<1>5. UsersType'
  <2>1. Len(switched') <= Gestures!MaxSwitch
    BY <1>1, <1>4 DEF GesturesInv, UsersType, Gestures!MaxSwitch
  <2> QED BY <1>1, <1>3, <1>4, <2>1 DEF GesturesInv, UsersType
<1>6. GesturesType'
  <2>1. AtType'
    BY <1>1, <1>2 DEF GesturesInv, GesturesType, AtType
  <2>2. MapsType' /\ SetsType' /\ ReadType' /\ ChangeType'
    BY <1>1 DEF GesturesInv, GesturesType, MapsType, SetsType, ReadType, ChangeType
  <2> QED BY <2>1, <2>2 DEF GesturesType
<1>7. HistoryInv'
  <2>1. gesturesAt'["guest"] = gesturesAt["guest"]
    BY <1>1, <1>2 DEF GesturesInv, GesturesType, AtType
  <2> QED BY <1>1, <1>3, <2>1 DEF GesturesInv, HistoryInv
<1>8. \A g : Mapped(g)' = Mapped(g)
  BY <1>1 DEF Mapped
<1>9. ASSUME NEW g \in Gestures!Gesture, Awaited(g)
      PROVE  Awaited(g)'
  <2>1. CASE Head(switched) = "system" /\ mRestoreUser
             /\ gesturesAt' = [gesturesAt EXCEPT !["KeyHandler"] = 1]
    <3>1. gesturesAt'["KeyHandler"] = 1
      BY <1>2, <2>1 DEF GesturesInv, GesturesType, AtType
    <3>2. 1 \in 1..Place(g)
      BY PlaceFacts
    <3> QED BY <3>1, <3>2 DEF Awaited, Place
  <2>2. CASE ~(Head(switched) = "system" /\ mRestoreUser) /\ UNCHANGED gesturesAt
    <3>1. ASSUME NEW i \in DOMAIN switched, Returns(i)
          PROVE  \E j \in DOMAIN switched' : Returns(j)'
      <4>1. i \in 1..Len(switched) /\ i # 1
        BY <1>4, <2>2, <3>1 DEF Returns
      <4>2. i - 1 \in DOMAIN Tail(switched) /\ Tail(switched)[i - 1] = "system"
        BY <1>4, <3>1, <4>1 DEF Returns
      <4>3. Returns(i - 1)'
        BY <1>1, <1>3, <4>2 DEF Returns
      <4> QED BY <1>1, <4>2, <4>3 DEF Returns
    <3>2. CASE \E i \in DOMAIN switched : Returns(i)
      <4>1. \E j \in DOMAIN switched' : Returns(j)'
        BY <3>1, <3>2
      <4> QED BY <4>1 DEF Awaited, Returns
    <3>3. CASE ~ \E i \in DOMAIN switched : Returns(i)
      BY <1>1, <1>9, <2>2, <3>3 DEF Awaited, Place
    <3> QED BY <3>2, <3>3
  <2> QED BY <1>1, <2>1, <2>2
<1>10. PanelReports'
  BY <1>1, <1>8, <1>9 DEF GesturesInv, PanelReports
<1> QED BY <1>5, <1>6, <1>7, <1>10 DEF GesturesInv

(* GestureSettings: the node first, and then the mapping.                  *)
LEMMA ChangeOK ==
  ASSUME GesturesInv, NEW g \in Gestures!Gesture, NEW value \in Gestures!Mapping \ {""},
         Gestures!onPreferenceChange(g, value)
  PROVE  GesturesInv'
<1>1. /\ change = Gestures!NoChange
      /\ gesturesNode' = IF value = "disabled" THEN gesturesNode \ {g} ELSE gesturesNode \cup {g}
      /\ change' = <<current, g, value>> /\ gesturesClobbered' = gesturesClobbered \ {g}
      /\ UNCHANGED <<gesturesMapping, gesturesAt, gesturesRead, current, started,
                     bootCompleted, switched, mRestoreUser>>
  BY DEF Gestures!onPreferenceChange, Gestures!users
<1>2. UsersType' /\ HistoryInv' /\ \A h : Awaited(h)' = Awaited(h)
  BY <1>1 DEF GesturesInv, UsersType, HistoryInv, Awaited, Returns, Place
<1>3. GesturesType'
  <2>1. current \in Gestures!User
    BY DEF GesturesInv, UsersType
  <2>2. ChangeType'
    BY <1>1, <2>1 DEF ChangeType
  <2>3. SetsType'
    BY <1>1 DEF GesturesInv, GesturesType, SetsType
  <2>4. MapsType' /\ AtType' /\ ReadType'
    BY <1>1 DEF GesturesInv, GesturesType, MapsType, AtType, ReadType
  <2> QED BY <2>2, <2>3, <2>4 DEF GesturesType
<1>4. PanelReports'
  <2> SUFFICES ASSUME current = "system",
                      NEW h \in Gestures!Gesture, h \notin gesturesClobbered'
               PROVE  Awaited(h) \/ (h \in gesturesNode' <=> Gestures!Enabled(Mapped(h)'))
    BY <1>1, <1>2 DEF PanelReports
  <2>1. CASE h = g
    <3>1. Mapped(h)' = value
      BY <1>1, <2>1 DEF Mapped, Gestures!NoChange
    <3> QED BY <1>1, <2>1, <3>1 DEF Gestures!Enabled
  <2>2. CASE h # g
    <3>1. Mapped(h)' = gesturesMapping["system"][h] /\ Mapped(h) = gesturesMapping["system"][h]
      BY <1>1, <2>2 DEF Mapped
    <3>2. Awaited(h) \/ (h \in gesturesNode <=> Gestures!Enabled(Mapped(h)))
      BY <1>1, <2>2 DEF GesturesInv, PanelReports
    <3> QED BY <1>1, <2>2, <3>1, <3>2
  <2> QED BY <2>1, <2>2
<1> QED BY <1>2, <1>3, <1>4 DEF GesturesInv

LEMMA PutStringOK ==
  ASSUME GesturesInv, Gestures!PutString
  PROVE  GesturesInv'
<1>1. /\ change # Gestures!NoChange /\ change' = Gestures!NoChange
      /\ gesturesMapping' = [gesturesMapping EXCEPT ![change[1]][change[2]] = change[3]]
      /\ UNCHANGED <<gesturesNode, gesturesAt, gesturesRead, gesturesClobbered, current,
                     started, bootCompleted, switched, mRestoreUser>>
  BY DEF Gestures!PutString, Gestures!users
<1>2. /\ change[1] \in Gestures!User /\ change[2] \in Gestures!Gesture
      /\ change[3] \in Gestures!Mapping
  BY <1>1 DEF GesturesInv, GesturesType, ChangeType
<1>3. UsersType' /\ HistoryInv' /\ \A h : Awaited(h)' = Awaited(h)
  BY <1>1 DEF GesturesInv, UsersType, HistoryInv, Awaited, Returns, Place
<1>4. MapsType'
  BY <1>1, <1>2 DEF GesturesInv, GesturesType, MapsType
<1>5. ASSUME NEW g \in Gestures!Gesture
      PROVE  Mapped(g)' = Mapped(g)
  <2>1. "system" \in Gestures!User
    BY DEF Gestures!User
  <2>2. gesturesMapping'["system"][g] = IF change[1] = "system" /\ change[2] = g
                                        THEN change[3] ELSE gesturesMapping["system"][g]
    BY <1>1, <1>2, <2>1 DEF GesturesInv, GesturesType, MapsType
  <2> QED BY <1>1, <2>2 DEF Mapped
<1>6. PanelReports'
  BY <1>1, <1>3, <1>5 DEF GesturesInv, PanelReports
<1>7. GesturesType'
  <2>1. SetsType' /\ AtType' /\ ReadType' /\ ChangeType'
    BY <1>1 DEF GesturesInv, GesturesType, SetsType, AtType, ReadType, ChangeType
  <2> QED BY <1>4, <2>1 DEF GesturesType
<1> QED BY <1>3, <1>6, <1>7 DEF GesturesInv

(* Users come and go.  A switch back comes after the switch away.          *)
LEMMA SwitchUserOK ==
  ASSUME GesturesInv, NEW u \in Gestures!User, Gestures!SwitchUser(u)
  PROVE  GesturesInv'
<1>1. /\ u # current /\ current' = u /\ Len(switched) < Gestures!MaxSwitch
      /\ switched' = Append(switched, u) /\ started' = started \cup {u}
      /\ bootCompleted' = IF u \in started THEN bootCompleted ELSE bootCompleted \cup {u}
      /\ UNCHANGED <<gesturesMapping, gesturesNode, gesturesAt, gesturesRead,
                     gesturesClobbered, mRestoreUser, change>>
  BY DEF Gestures!SwitchUser
<1>2. /\ switched' \in Seq(Gestures!User) /\ Len(switched') = Len(switched) + 1
      /\ Len(switched) \in Nat /\ switched'[Len(switched) + 1] = u
      /\ DOMAIN switched' = 1..Len(switched) + 1 /\ switched' # <<>>
  <2>1. switched \in Seq(Gestures!User)
    BY DEF GesturesInv, UsersType
  <2>2. /\ Append(switched, u) \in Seq(Gestures!User)
        /\ Len(Append(switched, u)) = Len(switched) + 1
        /\ Append(switched, u)[Len(switched) + 1] = u /\ Append(switched, u) # <<>>
    BY <2>1, AppendProperties
  <2>3. Len(switched) \in Nat
    BY <2>1, LenProperties
  <2>4. DOMAIN Append(switched, u) = 1..Len(Append(switched, u))
    BY <2>2, LenProperties
  <2> QED BY <1>1, <2>2, <2>3, <2>4
<1>3. UsersType' /\ GesturesType'
  <2>1. Len(switched') <= Gestures!MaxSwitch
    BY <1>1, <1>2 DEF Gestures!MaxSwitch
  <2>2. GesturesType'
    BY <1>1 DEF GesturesInv, GesturesType, MapsType, SetsType, AtType, ReadType, ChangeType
  <2> QED BY <1>1, <1>2, <2>1, <2>2 DEF GesturesInv, UsersType
<1>4. u = "system" /\ ~mRestoreUser => Len(switched) + 1 > 1
  <2> SUFFICES ASSUME u = "system", ~mRestoreUser PROVE Len(switched) # 0
    BY <1>2
  <2>1. current = "guest" /\ "guest" \in started
    BY <1>1 DEF GesturesInv, UsersType, Gestures!User
  <2>2. switched # <<>> /\ switched \in Seq(Gestures!User)
    BY <2>1 DEF GesturesInv, HistoryInv, UsersType
  <2> QED BY <2>2, EmptySeq
<1>5. HistoryInv'
  <2>1. gesturesAt'["guest"] # 0 => "guest" \in started'
    BY <1>1 DEF GesturesInv, HistoryInv
  <2> SUFFICES ASSUME ~mRestoreUser, u = "system"
               PROVE  \E i \in DOMAIN switched' : i > 1 /\ switched'[i] = "system"
    BY <1>1, <1>2, <2>1 DEF HistoryInv
  <2>2. Len(switched) + 1 \in DOMAIN switched' /\ Len(switched) + 1 > 1
    BY <1>2, <1>4
  <2> QED BY <1>2, <2>2
<1>6. PanelReports'
  <2>1. ASSUME u = "system"
        PROVE  \E i \in DOMAIN switched' : Returns(i)'
    <3>1. Len(switched) + 1 > 1 \/ mRestoreUser'
      BY <1>1, <1>4, <2>1
    <3>2. /\ Len(switched) + 1 \in DOMAIN switched'
          /\ switched'[Len(switched) + 1] = "system"
      BY <1>2, <2>1
    <3> QED BY <3>1, <3>2 DEF Returns
  <2>2. u = "system" => \A g : Awaited(g)'
    BY <2>1 DEF Awaited, Returns
  <2> QED BY <1>1, <2>2 DEF PanelReports
<1> QED BY <1>3, <1>5, <1>6 DEF GesturesInv

LEMMA StopUserOK ==
  ASSUME GesturesInv, NEW u \in Gestures!User, Gestures!StopUser(u)
  PROVE  GesturesInv'
<1>1. /\ u \in started \ {"system", current} /\ started' = started \ {u}
      /\ bootCompleted' = bootCompleted \ {u}
      /\ gesturesAt' = [gesturesAt EXCEPT ![u] = 0]
      /\ gesturesRead' = [gesturesRead EXCEPT ![u] = "none"]
      /\ UNCHANGED <<gesturesMapping, gesturesNode, gesturesClobbered, current, switched,
                     mRestoreUser, change>>
  BY DEF Gestures!StopUser
<1>2. u = "guest" /\ {"system", "guest", "KeyHandler"} \subseteq Gestures!Restorer
  BY <1>1 DEF Gestures!Restorer, Gestures!User
<1>3. /\ gesturesAt'["guest"] = 0 /\ gesturesAt'["system"] = gesturesAt["system"]
      /\ gesturesAt'["KeyHandler"] = gesturesAt["KeyHandler"]
  BY <1>1, <1>2 DEF GesturesInv, GesturesType, AtType
<1>4. UsersType' /\ GesturesType'
  <2>1. AtType'
    BY <1>1, <1>2 DEF GesturesInv, GesturesType, AtType
  <2>2. ReadType'
    BY <1>1, <1>2 DEF GesturesInv, GesturesType, ReadType
  <2>3. MapsType' /\ SetsType' /\ ChangeType'
    BY <1>1 DEF GesturesInv, GesturesType, MapsType, SetsType, ChangeType
  <2> QED BY <1>1, <2>1, <2>2, <2>3 DEF GesturesInv, UsersType, GesturesType
<1>5. HistoryInv'
  BY <1>1, <1>2, <1>3 DEF HistoryInv
<1>6. \A g : Mapped(g)' = Mapped(g) /\ Awaited(g)' = Awaited(g)
  BY <1>1, <1>3 DEF Mapped, Awaited, Returns, Place
<1>7. PanelReports'
  BY <1>1, <1>6 DEF GesturesInv, PanelReports
<1> QED BY <1>4, <1>5, <1>7 DEF GesturesInv

LEMMA GesturesRebootOK ==
  ASSUME GesturesInv, Gestures!Reboot
  PROVE  GesturesInv'
<1>1. /\ gesturesNode' = {} /\ change' = Gestures!NoChange /\ gesturesClobbered' = {}
      /\ current' = "system" /\ started' = {"system"} /\ bootCompleted' = {"system"}
      /\ switched' = <<>> \/ switched' = <<"system">>
      /\ mRestoreUser' = FALSE
      /\ gesturesAt' = [r \in Gestures!Restorer |-> 0]
      /\ gesturesRead' = [r \in Gestures!Restorer |-> "none"]
      /\ UNCHANGED gesturesMapping
  BY DEF Gestures!Reboot, Gestures!AtBoot
<1>2. UsersType'
  <2>1. "system" \in Gestures!User
    BY DEF Gestures!User
  <2>2. <<"system">> \in Seq(Gestures!User) /\ Len(<<"system">>) = 1
    BY <2>1
  <2>3. switched' \in Seq(Gestures!User) /\ Len(switched') <= Gestures!MaxSwitch
    <3>1. CASE switched' = <<>>
      BY <3>1 DEF Gestures!MaxSwitch
    <3>2. CASE switched' = <<"system">>
      BY <2>2, <3>2 DEF Gestures!MaxSwitch
    <3> QED BY <1>1, <3>1, <3>2
  <2> QED BY <1>1, <2>1, <2>3 DEF UsersType
<1>3. GesturesType'
  <2>1. MapsType' /\ SetsType' /\ ChangeType'
    BY <1>1 DEF GesturesInv, GesturesType, MapsType, SetsType, ChangeType
  <2>2. AtType' /\ ReadType'
    BY <1>1 DEF AtType, ReadType
  <2> QED BY <2>1, <2>2 DEF GesturesType
<1>4. HistoryInv' /\ PanelReports'
  BY <1>1 DEF HistoryInv, PanelReports, Awaited, Gestures!Restorer, Gestures!User
<1> QED BY <1>2, <1>3, <1>4 DEF GesturesInv

LEMMA GesturesStep ==
  ASSUME GesturesInv, Gestures!Next \/ UNCHANGED gestures
  PROVE  GesturesInv'
<1>1. CASE UNCHANGED gestures
  <2>1. UNCHANGED <<gesturesMapping, gesturesNode, current, started, bootCompleted, switched,
                    mRestoreUser, gesturesAt, gesturesRead, change, gesturesClobbered>>
    BY <1>1 DEF gestures
  <2>2. UsersType' /\ GesturesType' /\ HistoryInv'
    BY <2>1 DEF GesturesInv, UsersType, GesturesType, HistoryInv, MapsType, SetsType, AtType,
                ReadType, ChangeType
  <2>3. \A g : Mapped(g)' = Mapped(g) /\ Awaited(g)' = Awaited(g)
    BY <2>1 DEF Mapped, Awaited, Returns, Place
  <2>4. PanelReports'
    BY <2>1, <2>3 DEF GesturesInv, PanelReports
  <2> QED BY <2>2, <2>4 DEF GesturesInv
<1>2. CASE Gestures!Next
  <2>1. CASE \E r \in Gestures!Restorer, g \in Gestures!Gesture :
               \/ Gestures!GetString(r, g) \/ Gestures!PutDefault(r, g)
               \/ Gestures!restore(r, g)
    BY <2>1, GetStringOK, PutDefaultOK, RestoreGestureOK
  <2>2. CASE \E u \in Gestures!User : \/ Gestures!onReceive(u) \/ Gestures!SwitchUser(u)
                                      \/ Gestures!StopUser(u)
    BY <2>2, StartupOK, SwitchUserOK, StopUserOK
  <2>3. CASE \E g \in Gestures!Gesture, value \in Gestures!Mapping \ {""} :
               Gestures!onPreferenceChange(g, value)
    BY <2>3, ChangeOK
  <2> QED BY <1>2, <2>1, <2>2, <2>3, GesturesUserSwitchedOK, PutStringOK, GesturesRebootOK
             DEF Gestures!Next
<1> QED BY <1>1, <1>2

LEMMA GesturesInductive == Together => []GesturesInv
<1>1. GesturesInv /\ [Gestures!Next]_gestures => GesturesInv'
  BY GesturesStep
<1> QED BY <1>1, GesturesInitOK, PTL DEF Together

LEMMA GesturesPromise == GesturesInv => Gestures!SystemUserGetsOwnGestures
<1> SUFFICES ASSUME GesturesInv, current = "system", "system" \notin bootCompleted,
                    switched = <<>>, change = Gestures!NoChange,
                    gesturesAt["system"] = 0, gesturesAt["KeyHandler"] = 0,
                    NEW g \in Gestures!Gesture \ gesturesClobbered
             PROVE  g \in gesturesNode <=> Gestures!Enabled(gesturesMapping["system"][g])
  BY DEF Gestures!SystemUserGetsOwnGestures
<1>1. ~Awaited(g)
  BY DEF Awaited
<1>2. Mapped(g) = gesturesMapping["system"][g]
  BY DEF Mapped
<1> QED BY <1>1, <1>2 DEF GesturesInv, PanelReports

(* Back, with every broadcast received and every restore at its end, the   *)
(* system user has its own gestures, in any interleaving of the reads and  *)
(* writes of three restores and the settings.  Excepted are the gestures   *)
(* in clobbered: last written for a guest who had left, or into a change.  *)
THEOREM GesturesAreOwn == PartsSpec => []SystemUserGetsOwnGestures
<1>1. GesturesInv => SystemUserGetsOwnGestures
  BY GesturesPromise DEF SystemUserGetsOwnGestures
<1> QED BY <1>1, GesturesInductive, SumIsTogether, PTL

-----------------------------------------------------------------------------
LEMMA ShortSeq ==
  ASSUME NEW S, NEW a \in S, NEW b \in S, NEW c \in S, NEW d \in S
  PROVE  /\ <<a>> \in Seq(S) /\ Len(<<a>>) <= 4
         /\ <<a, b>> \in Seq(S) /\ Len(<<a, b>>) <= 4
         /\ <<a, b, c>> \in Seq(S) /\ Len(<<a, b, c>>) <= 4
         /\ <<a, b, c, d>> \in Seq(S) /\ Len(<<a, b, c, d>>) <= 4
OBVIOUS

(* The writes to do are few, and each is of a setting and its value.       *)
LEMMA TodoType ==
  ASSUME RefreshInv
  PROVE  /\ todo \in Seq({"peak", "lowest", "auto"} \X (Refresh!Rate \cup {0, 1}))
         /\ Len(todo) <= 4
<1> DEFINE W == {"peak", "lowest", "auto"} \X (Refresh!Rate \cup {0, 1})
<1>1. \A rate \in Refresh!Rate : Peak(rate) \in W /\ Lowest(rate) \in W
  BY DEF Peak, Lowest
<1>2. \A value \in {0, 1} : Automatic(value) \in W
  BY DEF Automatic
<1>3. 60 \in Refresh!Rate /\ 90 \in Refresh!Rate
  BY DEF Refresh!Rate
<1> HIDE DEF W
<1>5. CASE FixedWrites
  <2>1. PICK rate \in Refresh!Rate, other \in Refresh!Rate :
          \/ todo = <<Lowest(rate)>>
          \/ todo = <<Peak(rate), Lowest(rate)>>
          \/ todo = <<Lowest(other), Peak(rate), Lowest(rate)>>
          \/ todo = <<Peak(other), Lowest(other), Peak(rate), Lowest(rate)>>
    BY <1>5 DEF FixedWrites
  <2> DEFINE p == Peak(rate)  l == Lowest(rate)  q == Peak(other)  k == Lowest(other)
  <2>2. p \in W /\ l \in W /\ q \in W /\ k \in W
    BY <1>1
  <2> HIDE DEF p, l, q, k
  <2>3. todo \in {<<l>>, <<p, l>>, <<k, p, l>>, <<q, k, p, l>>}
    BY <2>1 DEF p, l, q, k
  <2>4. CASE todo = <<l>>
    BY <2>2, <2>4, ShortSeq DEF W
  <2>5. CASE todo = <<p, l>>
    BY <2>2, <2>5, ShortSeq DEF W
  <2>6. CASE todo = <<k, p, l>>
    BY <2>2, <2>6, ShortSeq DEF W
  <2>7. CASE todo = <<q, k, p, l>>
    BY <2>2, <2>7, ShortSeq DEF W
  <2> QED BY <2>3, <2>4, <2>5, <2>6, <2>7
<1>6. CASE AutoWrites
  <2>1. PICK value \in {0, 1} : todo \in {<<Automatic(value)>>, <<Lowest(60), Automatic(value)>>,
                                         <<Peak(90), Lowest(60), Automatic(value)>>}
    BY <1>6 DEF AutoWrites
  <2> DEFINE p == Peak(90)  l == Lowest(60)  a == Automatic(value)
  <2>2. p \in W /\ l \in W /\ a \in W
    BY <1>1, <1>2, <1>3
  <2> HIDE DEF p, l, a
  <2>3. todo \in {<<a>>, <<l, a>>, <<p, l, a>>}
    BY <2>1 DEF p, l, a
  <2>4. CASE todo = <<a>>
    BY <2>2, <2>4, ShortSeq DEF W
  <2>5. CASE todo = <<l, a>>
    BY <2>2, <2>5, ShortSeq DEF W
  <2>6. CASE todo = <<p, l, a>>
    BY <2>2, <2>6, ShortSeq DEF W
  <2> QED BY <2>3, <2>4, <2>5, <2>6
<1>7. CASE todo = <<>>
  BY <1>7
<1> QED BY <1>5, <1>6, <1>7 DEF RefreshInv

(* Every variable of every part keeps its type.                            *)
THEOREM PartsTypeCorrect == PartsSpec => []PartsTypeOK
<1>1. RefreshInv => Refresh!TypeOK
  <2> SUFFICES ASSUME RefreshInv PROVE Refresh!TypeOK
    OBVIOUS
  <2>1. {screen, checked, usable, shade, autoRefreshEnabled, fixed, cut} \subseteq BOOLEAN
    BY DEF RefreshInv, RefreshType
  <2> QED BY <2>1, TodoType DEF RefreshInv, RefreshType, Refresh!TypeOK
<1>2. ServicesInv => Services!TypeOK
  BY ServicesTypeParts DEF ServicesInv
<1>3. GesturesInv => Gestures!TypeOK
  BY DEF GesturesInv, UsersType, GesturesType, Gestures!TypeOK, MapsType, SetsType, AtType,
         ReadType, ChangeType
<1>4. Together => Spec
  BY PTL DEF Together, Spec
<1>5. TypeOK /\ Gestures!TypeOK /\ Services!TypeOK /\ Refresh!TypeOK => PartsTypeOK
  BY DEF PartsTypeOK
<1> QED BY <1>1, <1>2, <1>3, <1>4, <1>5, TypeCorrect, RefreshInductive, ServicesInductive,
           GesturesInductive, SumIsTogether, PTL

(* The parts keep their promises also when they run at the same time: the  *)
(* HAL, the finger, the settings, the night mode and Startup on the modes, *)
(* with users, services and refresh rate changing meanwhile.               *)
THEOREM PartsDoNotDisturb ==
  Together => [](/\ NodesFollowSettings /\ HiddenIsClean /\ OneMode
                 /\ Services!ServicesFollowScreen
                 /\ Refresh!RateFollowsChoice
                 /\ Gestures!SystemUserGetsOwnGestures)
<1>1. Together => Spec
  BY PTL DEF Together, Spec
<1> QED BY <1>1, PanelIsAsChosen, NothingIsLeftBehind, ModesExclude, ServicesInductive,
           RefreshInductive, GesturesInductive, ServicesPromise, RatePromise, GesturesPromise, PTL

=============================================================================
