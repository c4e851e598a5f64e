--------------------------- MODULE DeviceServices ---------------------------
(***************************************************************************)
(* The two services of the DeviceParts process: FPSInfoService, which      *)
(* polls the frame rate on a thread of its own and shows it in an overlay, *)
(* and FallSensorService, which closes the front camera when the device    *)
(* falls (FallSensor, CameraMotorController).  Both follow the screen.     *)
(*                                                                         *)
(* Everything they do runs on the main thread of the process, one handler  *)
(* after the other, sensor events included, except the polling threads and *)
(* the executor that registers the sensor's listener.  stopThread waits    *)
(* for its thread to end, and the main thread with it.                     *)
(*                                                                         *)
(* External: the display; the power manager's notifier, which sends        *)
(* SCREEN_ON and SCREEN_OFF in turn, each when the one before is received; *)
(* the dream manager; the camera HAL, which also drives the motor; the     *)
(* end of the process, after which the (sticky) services start again.      *)
(***************************************************************************)
EXTENDS Naturals, Sequences, FiniteSets

CONSTANT MaxThread      \* bound: polling threads alive at once

Thread == 1..MaxThread
NoThread == 0

VARIABLES
  display, dozing,
  sent,            \* the last broadcast of the screen: "on" or "off"
  fpsInbox, fallInbox,          \* ... while the service has not received it
  fps,             \* FPSInfoService: "stopped", "shown" or "gone" (the view)
  mCurFPSThread, polling,       \* threads in their loop
  mInterrupt,      \* ... that are told to end
  main,            \* main thread: "free", "joining", "leaving", "closing"
  fallService, tasks, listening,          \* tasks: of the executor
  event,           \* a fall, not handled yet
  direction, motor,             \* what the motor will do, and where it went
  early,           \* ghost: the service was created with the screen off
  leaked,          \* ghost: ... and SCREEN_ON started a second thread, so often
  startedOff,      \* ghost: the fall sensor was enabled with the screen off
  contended        \* ghost: the HAL wrote the direction while a fall was handled

screen == <<display, dozing, sent>>
overlay == <<fpsInbox, fps, mCurFPSThread, polling, mInterrupt, early, leaked>>
sensor == <<fallInbox, fallService, tasks, listening, event, startedOff>>
camera == <<direction, motor, contended>>
vars == <<screen, overlay, main, sensor, camera>>

Init ==
  /\ display = "on" /\ dozing = FALSE /\ sent = "on"
  /\ fpsInbox = "none" /\ fallInbox = "none"
  /\ fps = "stopped" /\ mCurFPSThread = NoThread
  /\ polling = {} /\ mInterrupt = {}
  /\ main = "free"
  /\ fallService = FALSE /\ tasks = <<>> /\ listening = FALSE /\ event = FALSE
  /\ direction = "down" /\ motor = "down"
  /\ early = FALSE /\ leaked = 0 /\ startedOff = FALSE /\ contended = FALSE

-----------------------------------------------------------------------------
(* External: the display, its broadcasts, dozing.                          *)
Display ==
  /\ display' = IF display = "on" THEN "off" ELSE "on"
  /\ UNCHANGED <<dozing, sent, overlay, main, sensor, camera>>

Dozing ==
  /\ dozing' = ~dozing /\ (dozing' => display = "off")
  /\ UNCHANGED <<display, sent, overlay, main, sensor, camera>>

Broadcast ==
  /\ sent # display /\ fpsInbox = "none" /\ fallInbox = "none"
  /\ sent' = display
  /\ fpsInbox' = IF fps # "stopped" THEN display ELSE "none"
  /\ fallInbox' = IF fallService THEN display ELSE "none"
  /\ UNCHANGED <<display, dozing, fps, mCurFPSThread, polling, mInterrupt, early, leaked,
                 main, fallService, tasks, listening, event, startedOff, camera>>

-----------------------------------------------------------------------------
(* FPSInfoService.  startThread overwrites the thread it had by a new one. *)
startThread ==
  /\ polling # Thread
  /\ mCurFPSThread' = CHOOSE t \in Thread \ polling : TRUE
  /\ polling' = polling \cup {mCurFPSThread'}
  /\ UNCHANGED mInterrupt

\* Mutant: the thread is awaited, and not told to end.
JoinOnly(next) ==
  /\ main' = IF mCurFPSThread \in polling THEN next ELSE "free"
  /\ UNCHANGED <<mInterrupt, polling>>
  /\ mCurFPSThread' = IF mCurFPSThread \in polling THEN mCurFPSThread ELSE NoThread
stopThread(next) ==
  /\ main' = IF mCurFPSThread \in polling THEN next ELSE "free"
  /\ mInterrupt' = mInterrupt \cup ({mCurFPSThread} \cap polling)
  /\ mCurFPSThread' = IF mCurFPSThread \in polling THEN mCurFPSThread ELSE NoThread
  /\ UNCHANGED polling

FpsCreate ==
  /\ main = "free" /\ fps = "stopped"
  /\ startThread
  /\ fps' = "shown"
  /\ early' = (sent = "off")
  /\ UNCHANGED <<screen, fpsInbox, leaked, main, sensor, camera>>

FpsScreenOn ==
  /\ main = "free" /\ fpsInbox = "on" /\ fpsInbox' = "none"
  /\ IF dozing
     THEN UNCHANGED <<fps, mCurFPSThread, polling, mInterrupt, early, leaked>>
     ELSE /\ startThread /\ fps' = "shown"
          /\ early' = FALSE /\ leaked' = leaked + IF early THEN 1 ELSE 0
  /\ UNCHANGED <<screen, main, sensor, camera>>

FpsScreenOff ==
  /\ main = "free" /\ fpsInbox = "off" /\ fpsInbox' = "none"
  /\ fps' = "gone"
  /\ stopThread("joining")
  /\ early' = FALSE
  /\ UNCHANGED <<screen, leaked, sensor, camera>>

FpsDestroy ==
  /\ main = "free" /\ fps # "stopped"
  /\ stopThread("leaving")
  /\ fps' = IF main' = "free" THEN "stopped" ELSE fps
  /\ fpsInbox' = IF main' = "free" THEN "none" ELSE fpsInbox
  /\ early' = FALSE
  /\ UNCHANGED <<screen, leaked, sensor, camera>>

(* join returns; onDestroy then removes the view and the receiver.         *)
JoinReturns ==
  /\ main \in {"joining", "leaving"} /\ mCurFPSThread \notin polling
  /\ mCurFPSThread' = NoThread
  /\ fps' = IF main = "leaving" THEN "stopped" ELSE fps
  /\ fpsInbox' = IF main = "leaving" THEN "none" ELSE fpsInbox
  /\ main' = "free"
  /\ UNCHANGED <<screen, polling, mInterrupt, early, leaked, sensor, camera>>

(* CurFPSThread.run: the flag is tested once a second, before a value is   *)
(* read and sent to the view's handler; only the end of the loop shows.    *)
PollEnds(t) ==
  /\ t \in polling \cap mInterrupt
  /\ polling' = polling \ {t} /\ mInterrupt' = mInterrupt \ {t}
  /\ UNCHANGED <<screen, fpsInbox, fps, mCurFPSThread, early, leaked, main, sensor, camera>>

-----------------------------------------------------------------------------
(* FallSensorService.  Each start enables, also with the screen off.  (The *)
(* next instance has its own listener and executor: the two are not there  *)
(* at once here.)                                                          *)
MaxTask == 3            \* bound: tasks of the executor not run yet

FallStart ==
  /\ main = "free" /\ (fallService \/ (tasks = <<>> /\ ~listening)) /\ Len(tasks) < MaxTask
  /\ fallService' = TRUE
  /\ tasks' = Append(tasks, "enable")
  /\ startedOff' = (sent = "off" \/ fallInbox = "off")
  /\ UNCHANGED <<screen, overlay, main, fallInbox, listening, event, camera>>

\* Mutant: the sensor is enabled by both broadcasts.
FallEnables(action) == "enable"
FallTask(action) == IF action = "on" THEN "enable" ELSE "disable"

FallReceive ==
  /\ main = "free" /\ fallInbox # "none" /\ Len(tasks) < MaxTask
  /\ tasks' = Append(tasks, FallTask(fallInbox))
  /\ fallInbox' = "none"
  /\ startedOff' = FALSE
  /\ UNCHANGED <<screen, overlay, main, fallService, listening, event, camera>>

FallDestroy ==
  /\ main = "free" /\ fallService /\ Len(tasks) < MaxTask
  /\ tasks' = Append(tasks, "disable")
  /\ fallService' = FALSE /\ fallInbox' = "none" /\ startedOff' = FALSE
  /\ UNCHANGED <<screen, overlay, main, listening, event, camera>>

(* The executor; a listener that is gone hears of no earlier event.        *)
RunTask ==
  /\ tasks # <<>> /\ tasks' = Tail(tasks)
  /\ listening' = (Head(tasks) = "enable")
  /\ event' = (event /\ listening')
  /\ UNCHANGED <<screen, overlay, main, fallInbox, fallService, startedOff, camera>>

Fall ==
  /\ listening /\ event' = TRUE
  /\ UNCHANGED <<screen, overlay, main, fallInbox, fallService, tasks, listening, startedOff,
                 camera>>

(* onSensorChanged: ensureCameraClosed writes the direction, then enables. *)
onSensorChanged ==
  /\ main = "free" /\ event
  /\ event' = FALSE /\ main' = "closing"
  /\ direction' = "down" /\ contended' = FALSE
  /\ UNCHANGED <<screen, overlay, fallInbox, fallService, tasks, listening, startedOff,
                 motor>>

RunMotor ==
  /\ main = "closing" /\ main' = "free"
  /\ motor' = direction
  /\ UNCHANGED <<screen, overlay, sensor, direction, contended>>

(* External: the camera HAL moves the motor with the same two writes.      *)
HalMoves(d) ==
  /\ direction' = d /\ motor' = d
  /\ contended' = (contended \/ (main = "closing" /\ d = "up"))
  /\ UNCHANGED <<screen, overlay, main, sensor>>

ProcessDies ==
  /\ fpsInbox' = "none" /\ fallInbox' = "none"
  /\ fps' = "stopped" /\ mCurFPSThread' = NoThread
  /\ polling' = {} /\ mInterrupt' = {}
  /\ early' = FALSE /\ leaked' = 0
  /\ main' = "free"
  /\ fallService' = FALSE /\ tasks' = <<>> /\ listening' = FALSE /\ event' = FALSE
  /\ startedOff' = FALSE
  /\ UNCHANGED <<screen, camera>>

MainThread ==
  FpsScreenOn \/ FpsScreenOff \/ JoinReturns \/ FallReceive \/ onSensorChanged \/ RunMotor
Next ==
  \/ Display \/ Dozing \/ Broadcast
  \/ FpsCreate \/ FpsDestroy \/ \E t \in Thread : PollEnds(t)
  \/ FallStart \/ FallDestroy \/ RunTask \/ Fall
  \/ MainThread
  \/ \E d \in {"up", "down"} : HalMoves(d)
  \/ ProcessDies

(* Threads are scheduled: a loop that is to end does, the main thread goes *)
(* on, and takes in order what is queued for it, so a fall gets its turn.  *)
Fairness ==
  /\ WF_vars(\E t \in 1..MaxThread : PollEnds(t))
  /\ WF_vars(JoinReturns \/ RunMotor)
  /\ SF_vars(onSensorChanged)

Spec == Init /\ [][Next]_vars /\ Fairness

-----------------------------------------------------------------------------
TypeOK ==
  /\ {display, sent} \subseteq {"on", "off"} /\ dozing \in BOOLEAN
  /\ {fpsInbox, fallInbox} \subseteq {"none", "on", "off"}
  /\ fps \in {"stopped", "shown", "gone"}
  /\ mCurFPSThread \in Thread \cup {NoThread} /\ mInterrupt \subseteq polling
  /\ polling \subseteq Thread
  /\ main \in {"free", "joining", "leaving", "closing"}
  /\ tasks \in Seq({"enable", "disable"}) /\ Len(tasks) <= MaxTask
  /\ {fallService, listening, event, startedOff, contended} \subseteq BOOLEAN
  /\ {direction, motor} \subseteq {"up", "down"}
  /\ early \in BOOLEAN /\ leaked \in 0..MaxThread

(* Both services follow the screen.  No thread polls but the current one,  *)
(* and none while the service has received SCREEN_OFF or is destroyed: the *)
(* only thread that is ever left running is the first one of a service     *)
(* created with the screen off, one for each.  Once its tasks are run the  *)
(* fall sensor listens when the service runs and the screen is on.         *)
ServicesFollowScreen ==
  /\ Cardinality(polling \ {mCurFPSThread}) <= leaked
  /\ main = "free" /\ fps # "shown" => mCurFPSThread = NoThread
  /\ main = "free" /\ fps = "shown" /\ sent = "off" => fpsInbox = "off" \/ early
  /\ tasks = <<>> /\ fallInbox = "none" /\ ~startedOff =>
       (listening <=> fallService /\ sent = "on")

(* A fall closes the camera, although the main thread may be waiting for   *)
(* the poller -- unless the sensor is disabled before, or the camera HAL   *)
(* reverses the direction between the two writes.                          *)
FallClosesCamera == event ~> (motor = "down" \/ ~listening \/ contended)

=============================================================================
