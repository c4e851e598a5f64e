# Verification project for android_device_oneplus_oneplus7pro

TLA+ models of the stateful parts of the OnePlus 7 Pro device tree, TLC
configurations that check them on small instances, and TLAPS proofs of the
results that matter most. All paths below are relative to `src/`.

1. [The system](#1-the-system)
2. [Modules and how they correspond to the code](#2-modules-and-how-they-correspond-to-the-code)
3. [Runs, bounds and what they show](#3-runs-bounds-and-what-they-show)
4. [Fairness](#4-fairness)
5. [Proofs](#5-proofs)
6. [Disagreements found](#6-disagreements-found)
7. [Not modelled](#7-not-modelled)
8. [Plan](#8-plan)

## 1. The system

The repository holds no single program but a set of processes that share a
kernel, sysfs nodes, the settings provider and a disk. Most of its files are
configuration and translations; the behaviour is in about 9,000 lines of C++
and Java.

| component | code | state it keeps | operations |
|---|---|---|---|
| failsafe boot update | `gpt-utils/gpt-utils.cpp` (`prepare_boot_update`) | none in memory: the two GPTs of every LUN, the XBL boot LUN | three stages: MAIN, BACKUP, FINALIZE |
| GPT disk handle | `gpt-utils/gpt-utils.cpp` (`gpt_disk_*`) | `struct gpt_disk`, a snapshot of one disk's GPT | alloc, get_disk_info, get_pentry, update_crc, commit, free |
| vibrator HAL | `vibrator/aidl/Vibrator.cpp`, `vibrator/effect` | device, id of the uploaded effect, magnitude, external control; detached callback threads | on, off, perform, setAmplitude, setExternalControl |
| key handler | `DeviceParts/.../KeyHandler.java` | copies of the settings, registered sensor listeners, last proximity values, torch flags | settings changes, display broadcasts, sensor events, slider, gestures |
| display modes | `fod/FingerprintInscreen.cpp`, `PanelSettings`, `DCDModeSwitch`, `HBMModeSwitch`, `HBMModeTileService`, `Startup` | saved modes, enrolling, callback (HAL), the current mode (PanelSettings); settings, old preferences, sysfs nodes, the display service's modes | show / hide the FOD view, finger events, press / release, enroll, pick a mode, switches, tile, import, restore |
| gestures | `GestureSettings.java`, `Startup.java`, `KeyHandler.java` (user switches) | a mapping per user and gesture, the touch panel's nodes, `mRestoreUser` | change a mapping, restore on boot, restore for the system user |
| audio policy manager | `policy_hal/AudioPolicyManager.cpp` | phone state and the one before, open outputs and inputs, `mvoice_call_state`, `mIsInputRequestOnProgress`, active tracks, mutes, HDMI events; routes and volumes | phone state, get / start / stop input, get output, offload query, start / stop source, HDMI connection; other devices |
| fall sensor, camera motor | `FallSensor*`, `CameraMotorController` | a listener, an executor's tasks; the motor's direction and position | start, screen on / off, fall event, destroy |
| FPS overlay | `FPSInfoService.java` | a polling thread, a window | create, screen on / off, poll, destroy |
| refresh rate | `RefreshRateSwitch`, `AutoRefreshRateSwitch`, `RefreshRateTileService` | peak and lowest rate, whether apps may choose | two switches, tile looked at and clicked |
| vibrator strength | `VibratorStrengthPreference` | a node and a setting | set, restore |
| settings screens | `DozeSettings`, `DeviceSettings`, key mapping | settings | store |
| lookups, CRC, init, mains | rest of `gpt-utils`, `init`, `service.cpp` | none | pure functions, boot-time property writes, registration |

**Interactions.** The updater (external) calls `prepare_boot_update` and writes
images between the calls; the boot loader (external) decides from the two GPTs
which copy boots; the boot control HAL (external, only its build file is here)
uses `gpt_disk_*` on the same disks. The FOD HAL and DeviceParts never talk to
each other but write the same sysfs nodes. KeyHandler runs in the system server,
hears of settings through posted `onChange` calls, of the display through
broadcasts, and asks the status bar for the torch. `Startup` runs after each boot,
and again when a user starts, and rewrites the nodes from that user's settings;
KeyHandler does the same when the system user comes back. It also starts the two
services of DeviceParts, the FPS overlay and the fall sensor, which follow the
screen's broadcasts on the one main thread of their process; a fall makes the
service drive the camera's motor, which the camera HAL (external) drives too. The
FOD HAL forwards finger events to SystemUI (external), which answers with calls
of its own. The vibrator
service has a single binder thread and one detached thread per accepted call.

**What is hard.**
*Crashes:* an update is resumed from what two header bytes say, after a power loss
at any step, with sectors that reach the medium in any order; the handle's commit
writes header and entries without an fsync; the FOD HAL or the whole device can
restart while modes are neutralised.
*Ordering and staleness:* KeyHandler registers listeners by the settings of the
moment and keeps proximity values over display periods; a `gpt_disk` is a snapshot.
*Partial failure:* one LUN of several fails, one of two writes of `commit` fails,
the cleanup of a failed vibration fails.
*Several writers:* FOD HAL, settings, tile and restore on one node; slider, gesture
and tile on one torch; two handles on one disk; application and system server on
the gesture nodes; two switches and a tile on the refresh rate; fall sensor and camera HAL on one motor; plug and speaker
setting on one HDMI output.
*Threads and late answers:* the main thread waits for a poller that looks at its
flag once a second; a sensor's listener is registered by an executor; SystemUI's
answer to a finger may come after the view is gone.
*Numbers and limits:* effect slots, 16-bit lengths, a quotient that must not be
rounded down.

**What makes each component correct.** Failsafe update: every power loss leaves
something complete to boot, and the copy the updater may overwrite is not in use.
GPT handle: one valid table at any time, a finished commit is valid, no lost
update. Vibrator: off silences, slots are given back, completion is reported after
the end and always. Key handler: no sensor listens with the display on, pulses
have their cause, the gate follows the sensor, the slider's torch ends, settings
arrive. Display modes: after any sequence the panel shows what the user chose, one
color mode at a time, and a hidden view leaves nothing in the display service.
Gestures: the system user gets its own gestures back whatever guests did. Services:
they run when the screen is on and no thread is lost; a fall closes the camera. Refresh rate: it is what was last chosen.
Audio policy: what calls and recordings exclude is closed or
refused, whatever was granted before, and the HAL, AudioFlinger and the sound
trigger service are told of both begin and end; what a track's start switched on, its stop
switches off; HDMI is used when both parties want it. `PROJECT.json` lists the hazards line by line with the
property that would catch each, or why none does.

## 2. Modules and how they correspond to the code

`PROJECT.json` ("map") names the source lines of every definition. `MC*.tla` give
values to constants and contain nothing else. Operators under a comment
`Mutant:` are altered forms of a definition of the code, used to show that a
property can fail; no specification uses them.

### FailsafeUpdate, FailsafeBoot

`FailsafeUpdate` has one action per system call that matters in
`prepare_partitions` (`pc` is the position): `Check` reads both headers, infers the
stage (`InternalStage`) and decides (`Verdict`); `SetXblBootPartition` is the ioctl;
`SetChainHeader` / `SetChainEntries` are the two writes of `gpt2_set_boot_chain`;
`SetPrimaryState` / `SetSecondaryState` are `gpt_set_state`; `SyncAndClose` is the
EXIT label with the only `fsync`; `SystemCallFails` is any error path. `Call`,
`NextLun` and `Return` are the loop of `prepare_boot_update`.

A GPT is abstracted to what the code and the boot loader can tell apart: the state
of each header (ok, bad signature, bad CRC), whether the primary entries match
their CRC, which array the secondary CRC covers and which array is there (normal,
swapped by the boot chain switch, torn). `blk_rw` works on `cache`; `disk` is the
medium; `Writeback` moves one block, `WritebackPart` tears the entries array,
`PowerLoss` forgets the cache. `SyncWrites` selects whether blocks reach the medium
in program order. The updater (`plan`, `grant`, `written`) is external: it starts a
stage when the images that stage will boot from are complete, and overwrites a
copy only after the stage that takes this copy out of use returned 0.
A LUN in `Unusual` may start with a damaged table or without backup partitions.
With `ShortWrites`, `ShortWrite` is a `write()` that stores a part of the entries and
that `blk_rw` takes for a whole one; a header is one block of the device and is not cut.
The walk that builds the list of LUNs is not modelled, its result is the constant
`Lun`; the lookup of device nodes appears only as a system call that may fail. The
promises are about LUNs that have backup partitions: on one without, MAIN returns 0
and switches nothing, which the model does and no property judges.

`FailsafeBoot` is the promise without tables, caches or stages: each LUN boots
from one of two copies, is switched only to a complete one, and only the other
copy is written. `FailsafeUpdate!Promise` instantiates it with
`live <- Live(disk[l])` for the LUNs that do not start out damaged.

### GptDisk

Per handle, a struct of two headers and two arrays and the position `pc` of its
user; reads (`ReadInfo`, four of them), `gpt_disk_get_pentry`,
`gpt_disk_update_crc`, the two writes of `gpt_disk_commit`, `gpt_disk_free`, and
`Fail` for every error path. A table is an entries array and the array its header's
CRC was computed over; `Valid` says they are equal. As in the code, all four reads
are of the *primary* GPT, no CRC is checked, commit writes the primary GPT only
and does not fsync. `overlap` and `promised` are ghosts. Short writes are not modelled
here: one that `blk_rw` takes for a whole one leaves a table as a power loss between
the two writes of a commit does.

### Vibrator

`device` is chosen at start as the constructors do: LED, force feedback, or none.
`playing` is the kernel's side (external): per uploaded effect the milliseconds it
still plays, with the call it belongs to and the length that call was about (for the
properties). `Play` is remove, upload and start; each failing ioctl or write is an
action part of its own (`RemoveFails`, `UploadFails`, `WriteFails`,
`WriteAndRemoveFail`) with the state that its error path leaves, the id forgotten
included. `waiting` holds the detached threads; `Tick` is a millisecond for
kernel and threads alike. Two lengths are truncated: the one given to the kernel to the
width of `ff_replay.length` (`LengthMod`, 2^16, shrunk to 4 in the run), and the argument
of `usleep(timeoutMs * 1000)`, a product of 32 bits, to `SleepMod` (2^32, shrunk to 5000 in
the run, so that a call of 5 ms is reported at once). Streams
(`rate` > 0) exist only if the library is built with `USE_EFFECT_STREAM`, which
the repository's `Android.bp` does not define; effects with `rate` 0 are the
driver's. The binder pool has one thread, so calls do not overlap.

### KeyHandler

The stored settings against the handler's copies (`mUse...`), with posted
`onChange` calls and broadcasts in flight; the constructor's order of
assignments is in `Init`. `onDisplayOn` / `onDisplayOff` register by the settings
of the moment. `near` is the sensor; `told` are the listeners that know its value.
`mProxySensorTimestamp` is an age in three classes, the ones the code
distinguishes (below 1 s, up to 5 s, above). `Wait` lets time pass only when every
listener has been told: sensor events arrive in less than a second. The slider's
thread is two steps, the flags and the call to the status bar, between which
gestures may come. `features` is the stored string by its parts: it may have been
never written (then `updateDozeSettings` changes nothing) or by an older version, with
fewer parts; the parts of the pulse on notifications and of the single tap gate nothing
here and are left out. Slider actions are the flashlight (4) and any other (0). The
status bar may be missing, and then the call is lost. One user, no camera.

### DisplayModes

The sysfs nodes, the settings and the old preferences, with the FOD HAL, the
settings screens, the tile, `Startup` and KeyHandler as writers. The HAL shows a view
in two steps, reading the modes (`onShowFODView`) and neutralising them (`ShowModes`), and
hides it in two (`onHideFODView`, `HideModes`); `hal` is between them, and while the HAL
holds the modes (`Held`) what others write to its nodes is lost to the hide.
`HalRestart` forgets. `handleAcquired`
forwards a finger event if the view is shown and a callback is registered;
`calls` are the `onPress` and `onRelease` that SystemUI then makes, in order and
any time later. `dim` and `press` are the display service's modes SET_DIM and
NOTIFY_PRESS, `vendorMode` stands for its modes 16 to 21, which the HAL always
sets together.

DeviceParts runs on one main thread. `PanelSettings.onCheckedChanged` is up to four steps:
the node of the mode to disable, its setting (`PutInt`), the node of the new mode
(`EnableMode`), its setting; the DC dimming and HBM switches write the setting
(`PutFirst`) and then the node (`WriteValue`). `Startup` is the import, one setting a step
(`maybeImportOldSettings`), and then `restoreAfterUserSwitch`: `ReadSetting` and `restore` per
mode, in the code's order. KeyHandler runs the same restore in system_server, at any
time and beside all of these, so that it may read a setting that a click is changing, or
write a node after the click. After a reboot any of these may be cut anywhere.

One user is modelled here; a switch of users changes whose settings a restore reads,
which `Gestures` models. The settings screen is used after `Startup` has run. Nodes are
independent (no driver coupling). The HAL's writes of one show or one hide are one step;
a process killed between them loses modes as `HalRestart` does. `onViewCreated` reads its nodes
in one step. The tile's write to the old preferences is left out: they are read once,
before any click. The writer of the night mode is external. The end of DeviceParts'
process between the two writes of a switch is a reboot here. The only bound of the module is on
`calls` (`MaxCall`).

### Gestures

`mapping` is each user's setting, `node` the kernel's, one for all users.
`restoreAfterUserSwitch` is the gesture part of `Startup`'s method of that name,
per gesture `GetString`, `PutDefault` where an empty mapping has a default, and `restore`, which
writes the node. Three such restores may run at once: each user's `Startup`
(`onReceive`, in a process of the user that started) and KeyHandler's
(`UserSwitched`, in the system server); `at` and `read` are their positions and what they have read.
Two gestures stand for the eight. The circle has a default (as the double swipe, the left
and the right arrow, each of which reads its own mapping and tests that). The up arrow has none in
effect (as the down, up and left swipe): `Startup.java:119` tests the value left from the
circle, which is not empty then, so that TORCH is never stored for it.
`onPreferenceChange` writes the node and `PutString` the mapping, and a restore of
the system server, or the late `Startup` of another user, can come in between; one of the
same process cannot. Users, their order and the delay of their broadcasts are external. A
settings screen is opened only after `Startup` has run for that user.

### DeviceServices

`FPSInfoService` and `FallSensorService` with what they use. `main` is the main
thread of their process: `stopThread` either finds its thread dead or leaves `main`
waiting, and only `JoinReturns` lets another handler run; `onDestroy` goes on after
the join (`leaving`). `polling` are the threads in their loop, `mInterrupt` those told
to end; `startThread` overwrites `mCurFPSThread` as the code does, whatever it held.
`FallStart` is `onCreate` with `onStartCommand`, and each further start; `tasks` is
the executor's queue. `onSensorChanged` writes the motor's direction and `RunMotor`
starts it: two writes between which `HalMoves`, the camera HAL, may come. Screen
broadcasts are sent in turn, each when both services have received the one before.

### RefreshRate

`peak` and `lowest` are the framework's settings, `auto` the one of
`AutoRefreshRateSwitch`. A handler queues its writes in `todo` and `Write` does one
of them, so that `ProcessEnds` can cut a handler; all handlers run on one main
thread and wait for that (`MainThreadFree`). `checked` and `usable` are what the screen's
rate switch shows: `onCreatePreferences` reads them, a click toggles `checked`, and the
auto switch changes `usable` only. `onStartListening` writes the rate it reads, before any
click. The shade covers the screen while it is open. `chosen`, `fixed` and `cut` are ghosts.

### DeviceParts

The composition of the four modules above. Its specification is their sum: the
initial state chooses which part moves (`part`), and the others stand still; for
DisplayModes it chooses one of four groups of writers beside the HAL and the restores
(`panel`: PanelSettings; `switches`: the DC dimming and HBM switches and the tile; `night`:
the external night mode; `finger`: finger events, without restores). In these groups
KeyHandler's restore is explored where it meets what it can disturb
(`UserSwitchesAlone`: beside switches only while `Startup` is done and the HAL does not
hold the modes; beside the night mode while `Startup` is done). The sum and these bounds keep
the run small and lose nothing for the properties checked: `DevicePartsProofs` proves
them for `Together`, in which all parts, all writers and both restores move in any order, write
by write (`PartsDoNotDisturb`), and that the sum is contained in it (`SumIsTogether`). That the
parts share no variable is a fact about the code: no step of the gestures, the services
or the refresh rate reads or writes what another part keeps.

### AudioPolicy

What `AudioPolicyManagerCustom` adds to the framework's manager for concurrency.
`config` is a set of `APMConfigHelper` flags (voice, DSD, record-and-play and VA
concurrency; `VOICE_CONCURRENCY` and `RECORD_PLAY_CONCURRENCY` are build options
this device's `BoardConfig` does not set, and the code for them is modelled as it
is). `setPhoneState` closes inputs and outputs on entry to a call, suspends and
restores the primary output; `startInput` announces and closes, and may fail in the
middle; `stopInput` reports the end; `isOffloadSupported` and `getOutputForDevices`
are separate actions with `granted` between them. The flags of a request go through
the code's overrides in its order, one operator each (`VoipFlags` to `DirectFlags`).
`ClosingLoop` is the loop by index over the collection that `closeOutput` shortens:
it does not look at the output after a closed one (`LookAt` is one round of it,
`jumped` marks what it passed over). The base class is external:
inputs and outputs are opened and released at any time, `closeInput` is what
`setForceUse` and a lost device do. Not represented: routing, volumes, patches,
mixed outputs, compressed VoIP.

### AudioSources, PolicyManager

`AudioSources` keeps the tracks that are active and what starting them switched on.
`startSource` mutes alarms under an enforced sound and connects the remote submix
input of a recorder's mix; `stopSource` undoes each by the condition of the moment
(`StopsLast` looks at the volume source that stops, not at the output). A beacon is
refused while anything else plays; the events for the beacon mute nothing
(`handleEventForBeacon` does nothing in this manager, `AudioPolicyManager.h:145`). `setForceUse` changes
the force use for SYSTEM. `ConnectHdmi` and `DisconnectHdmi` are the branches of
`setDeviceConnectionStateInt` for the HDMI output, whose device has two addresses,
the plug and the `hdmi_spkr` setting (`Event`), and which is kept only when it is
`Wanted`; a connection may fail to open an output, and one that succeeds asks the HAL
whether voice may go to the display port.

`PolicyManager` puts the two halves side by side, again as a sum (`half`): all
methods run under the manager's lock, and neither half touches what the other keeps.
`PolicyManagerProofs` proves the properties for both halves moving in any order.

## 3. Runs, bounds and what they show

| run | spec and bounds | checked | what it shows |
|---|---|---|---|
| `failsafe_reordered` | 2 LUNs, the second may be unusual, XBL, any order of stages, any order of blocks, 2 power losses, 1 failing call or short write | TypeOK, SurvivesPowerLoss, GrantedCopyNotLive, XblBackupNotLive, FinalizedIsRedundant, SignatureTellsStage | what has settled on the medium boots, from a copy nobody writes |
| `failsafe_inorder` | 2 LUNs, program order, stages in order, 2 power losses, 1 failing call | ImplementsPromise, Completes | refinement of FailsafeBoot, which boots after every step; a repeated script finishes |
| `failsafe_bothbad` | 1 LUN, 1 power loss | NeverBothBad (violated) | section 6 |
| `failsafe_xbl` | 1 LUN, XBL, 1 power loss | AlreadySetMeansReady (violated) | section 6 |
| `gptdisk_sessions` | 2 handles in 3 sessions, 2 partitions, 1 power loss, 1 failing call | TypeOK, PowerLossLeavesATable, CommitMakesValid, NoLostUpdate | one valid table always; a commit repairs; no lost update in turn |
| `gptdisk_backup` | 2 handles, no faults | BackupHeaderIsBackup (violated) | section 6 |
| `vibrator_calls` | 3 calls of any kind, 2 failing system calls, 2 slots, 3 devices, lengths below and above both widths | TypeOK, OffSilences, OneEffect, CompleteNotEarly, EveryoneNotified | off, slots and callbacks |
| `vibrator_write` | 1 failing call | AcceptedOnPlays (violated) | section 6 |
| `keyhandler_events` | 5 changes of settings, display, object, slider or torch, every order of the calls they cause | TypeOK, NothingListens, PocketPulseIsRemoval, GateFollowsSensor, SliderTorchEnds, SettingsApplied | listeners, pulses, gate, torch, settings |
| `keyhandler_boot` | 2 changes | ProximityCheckUsed (violated) | section 6 |
| `deviceparts` | two sets of old preferences, 2 pollers, 3 tasks of the executor, 2 answers of SystemUI outstanding, 2 users, 3 unheard switches; every read and write of the restores a step | PartsTypeOK, NodesFollowSettings, OneMode, HiddenIsClean, SystemUserGetsOwnGestures, ServicesFollowScreen, FallClosesCamera, RateFollowsChoice | modes, gestures, services and refresh rate of DeviceParts and the FOD HAL |
| `policymanager` | 2 recording clients (one not on the primary module), 2 sessions, 2 direct outputs, 1 unused answer, 2 suspends, 4 configurations; 6 tracks on 2 outputs, 3 mutes left, both HDMI configurations | ManagerTypeOK, CallStateKnown, RecordingTold, OffloadExcluded, NoBlockedRecordingInCall, PrimaryRestored, CaptureReported, StopUndoesStart, HdmiFollowsBoth | calls, recordings and players exclude each other and the right parties are told; what a start switches on a stop switches off; HDMI |

Every property of a passing run has a mutant, a plausible bug in the code that
makes TLC find the property violated under the same bounds.

**Why the bounds are enough.** *FailsafeUpdate:* LUNs are independent apart from
the loop's result, for which two are enough to have one fail and one succeed; two
power losses allow one during the recovery from the first; the theorems of
section 5 hold for any number of LUNs, losses and faults. In all modules the safety
properties are proved without the bounds; what depends on them is the liveness
(Completes, EveryoneNotified, SettingsApplied, FallClosesCamera), the existence of a
mutant's counterexample, and the five runs that expect a violation.
*GptDisk:* two partitions let two users touch different entries, three sessions
allow a third reader after two writers, in turn or overlapping. *Vibrator:* three
calls are enough for a call over a playing effect followed by another that finds
what it left, with two faults (the write and its cleanup both failing needs two);
two slots make a leak visible as exhaustion. *KeyHandler:* display off, on, off
takes three changes and leaves two for the sensor or a setting, which the
shortest counterexamples of the mutants need; the run starts with the double-tap setting
off (`FairSpecOffFirst`), since no guard looks at its value and the rest is symmetric. *AudioPolicy:* two clients
give one recording that starts or stops during another, on and off the primary
module; two direct outputs are what the closing loop needs to pass over one; two
sessions keep each other out, and are symmetric; one unused answer can already be
out of date; the second suspend is the imbalance that the ghost excludes.
*AudioSources:* two tracks of one stream and one of another on the mix tell the
stream's activity from the output's; two enforced tracks make the mute a count.
*DisplayModes:* two answers of SystemUI are a press and the release after it, one of
which may be late; the old preferences hold one panel mode and DC dimming, or two panel
modes at once, which the import allows. *DeviceServices:* two threads are the current one and one that it
replaced (`MaxThread`; a third would be a second leak of the same kind); three tasks
(`MaxTask`) are a start between two broadcasts. *Gestures:* three unheard switches
(`MaxSwitch`) are to a guest, back, and away again; a guest changes only the circle's
mapping (`Changes`), because guests' mappings matter only through the node they
leave, and one gesture that a guest can set and clear shows that. Liveness
is checked in bounded models: after the last change everything posted must still be delivered.

**Side conditions stated as ghosts.** Properties that hold only while the
outside behaves say so explicitly. `exposed` (FailsafeUpdate): power was lost with
unordered blocks in flight, the case run `failsafe_bothbad` shows to be fatal.
`overlap` (GptDisk): handles used at once, which nothing forbids and nothing
protects. `cut` (FailsafeUpdate): a short write was taken for a whole one. `leaked`
(Vibrator): the effects that the kernel refused to remove, each by itself. `applied`,
`dropped` and `torn` (KeyHandler): a setting applied while the display was off, the listeners whose
setting was switched off then, a torch call lost or raced. `clobbered` (DisplayModes): the modes, one
by one, whose last write was lost to a FOD view, came from a restore into a change of that mode, or
from the tile, which does not store the setting; `disturbed`: a panel mode was so lost, or
PanelSettings opened while the HAL held the modes; `late`: an answer of SystemUI after the
hide. `clobbered` (Gestures): the gestures whose node was last written by `Startup`
for a guest who had left, or by a restore into a change of that mapping.
`early`, `leaked`, `startedOff`, `contended` (DeviceServices): a service created or
started with the screen off, the threads lost by that, the HAL's write between the
two of a fall. `cut` (RefreshRate): the process ended between two writes of a handler.
`switched`, `cut`, `failed` (AudioSources): the force use changed under
an enforced sound, a submix input disconnected under another track, a device that
could not be opened. `jumped`, `held` and `irregular` (AudioPolicy): an output that a
closing loop passed over, an input that was open and idle when the call began, a call
that was resumed or ended in a ring. What happens in those cases is part of the models and of the
hazard list, and the code gives no guarantee for it. A property does not catch the case its
ghost excludes: the hazard list says so at each, and names no property for a hazard
that is nothing but the excluded case.

`CHECK_DEADLOCK FALSE` is set in the runs of FailsafeUpdate, GptDisk, Vibrator and
KeyHandler: their bounds end every behaviour, and the systems may rest (an update
that is done or a device that does not boot, a vibrator nobody calls). The runs
`deviceparts` and `policymanager` are checked for deadlock.

## 4. Fairness

- `FailsafeUpdate!FairSpec`: the program runs on until it returns, dirty blocks are
  written back, the updater goes on with its script. No fairness for failing calls
  or power losses, which are bounded: with endless losses an update need not end.
- `Vibrator!FairSpec`: time passes (`Tick`) and the detached threads, which only
  sleep and call back, are scheduled. Nobody is forced to call the HAL.
- `KeyHandler!Fairness`: a call posted to a handler and a broadcast are delivered.
  Changes, sensor events and gestures are not forced.

- `DeviceServices!Fairness` (in `PartsSpec`): a polling thread that is told to end leaves
  its loop, whose every pass ends after a second; a main thread that waits goes on
  when its thread has ended, and one that writes the motor's direction starts the
  motor; the sensor's event is handled if the main thread is free again and again
  (strong fairness: a queue is served in order, so no event waits for ever behind
  broadcasts that keep coming). Nobody is forced to start a service, and the
  process may die at any time.

`GptDisk`, `DisplayModes`, `Gestures`, `RefreshRate`, `AudioPolicy` and `AudioSources` state safety only.

## 5. Proofs

Every safety property that a run checks is also a theorem of the run's specification,
for every value of the constants: any number of LUNs, handles, partitions, clients,
sessions, outputs, lengths, events and threads. The assumptions are the named `ASSUME`s of the
modules, which TLC evaluates in the runs: constants have their types (`ConfigAssumption`,
`DiskAssumption`, `VibratorAssumption`, `KeyHandlerAssumption`, `PrefsAssumption`,
`MaxThreadAssumption`, `PolicyAssumption`), `Xbl` is not a LUN, and a partition is not
named like the header's block.
Each proof module has an invariant `IInv` (or one per part); it holds initially, every action preserves it (one lemma per action or group of
actions), and it implies the properties.

| module | theorems | what they establish |
|---|---|---|
| `FailsafeUpdateProofs` | PowerLossSafe, GrantSafe, SignatureSound, XblGrantSafe, FinalizedSafe, KeepsPromise | a settled medium boots, from a copy nobody writes; FINALIZE restores redundancy; refinement of FailsafeBoot |
| `FailsafeBootProofs` | AlwaysBootable | the abstract specification's own guarantee |
| `GptDiskProofs` | ATableSurvives, CommitIsValid, CommitsAreKept | one valid table always; commits are valid and not lost |
| `VibratorProofs` | OffIsSilent, SlotsDoNotRunOut, NotifiedInTime | off, slots, callbacks |
| `KeyHandlerProofs` | NoSensorIsLeft, PocketPulseHasItsCause, GateIsTheSensor, SliderTurnsItsTorchOff | listeners, pulses, gate, torch |
| `DisplayModesProofs` | PanelIsAsChosen, NothingIsLeftBehind, ModesExclude | modes, with the single writes of all processes interleaved |
| `DevicePartsProofs` | ServicesDoFollow, RateDoesFollow, GesturesAreOwn, PartsDoNotDisturb | services, refresh rate, gestures, and all parts at once |
| `PolicyManagerProofs` | CallStateIsKnown, HalIsTold, OffloadIsExcluded, NoBlockedRecording, PrimaryIsRestored, CaptureIsReported, StopDoesUndoStart, HdmiDoesFollowBoth | calls, recordings, players; tracks; HDMI |

Each has its type invariant as a theorem, too. Why the properties are not inductive, and what `IInv` adds:

- *FailsafeUpdate.* `SurvivesPowerLoss` says nothing of a half-done call being about to
  write the *right* next block. For behaviours not `exposed`, `IInv` adds
  `TableOK` (the cached table of each LUN is usable and a corrupted primary
  signature comes only with a swapped secondary array), `StepInv` (what each
  position of `prepare_partitions` may rely on), `LoopInv` (LUNs done in this call have
  the state of the stage, which is what a return of 0 grants), `TornInv` (an image is
  torn only while both cache and medium rule its chain out), `AgreeInv` (cache and
  medium agree on clean blocks), `CleanInv` (only the current LUN has dirty blocks),
  `DiskInv` (in program order at most one block is in flight, and the medium is always
  usable). `XblBackupNotLive` and `FinalizedIsRedundant` do not except `exposed`
  behaviours, and have an invariant of their own, `CallInv`: a call works on the current
  LUN alone and finds cache and medium agreed (`MediaInv`); XBL's boot LUN is B only while
  there is a LUN whose secondary header no BACKUP has reached, in cache and on the medium, so
  that a BACKUP that has found all of them done, and a FINALIZE, find A selected or fail
  (`XblInv`); what FINALIZE has written so far, all images being new, is that each
  LUN it has done has two usable tables naming the primary copies (`FinalInv`).
- *Refinement.* `KeepsPromise`: `SyncWrites => (Spec => ImplementsPromise)`. `MediumSteps`
  shows that a write-back either keeps the copy a LUN boots from or moves it to a complete
  one, `ImageSteps` that an image is written only where the medium does not boot from.
- *GptDisk.* The secondary table is never written (`SecondaryKept`); each block of the
  primary that is clean is the same in cache and medium (`AgreeInv`); a handle that is ready
  to be committed has the CRC of its own array (`HandleInv`). Unless handles overlapped, one
  is in use at a time, the entries its user has not edited are the cached ones, and
  between the writes of a commit the cached header already is its own (`AloneInv`).
- *Vibrator.* Which slots can be in use depends on the device that was found (`PerDevice`);
  an effect plays no longer than the sleeping thread of its own call waits (`NotLonger`),
  also after that call was superseded or could not be removed. The truncated length
  (`LengthMod`) can only be shorter than the one reported; the truncated sleep can be, too, so
  that the result is for lengths whose microseconds fit `SleepMod`.
- *KeyHandler.* While no setting is `applied` with the display off, the listeners are those of
  the settings (`ListenInv`); who has been told the sensor's value remembers it (`GateInv`); a
  near value remembered from an earlier period is young, and the listener has not been told
  of this period's yet (`PocketInv`); the torch flag is the slider's own (`SliderInv`). `PocketPulseIsRemoval` was first stated for every behaviour, and the proof
  failed: when the pocket gesture is turned off while the display is off and on again later, a
  listener is left that hears the sensor while the display is on, and what it heard then counts.
  That needs seven events, more than the run's bound; the property now excepts `applied`.
- *DisplayModes.* What a node will show, `Effective`, is the node or, while the HAL holds it, the
  saved mode; a mode that Startup has restored (`Done`) is on exactly when its setting is, unless a
  switch is between its two writes or the mode is `clobbered` (`NodesInv`). What a restorer has
  read and not yet written is still the setting, or its write will count as clobbered; `OrderInv`
  says which of Startup's steps, and of the screen's, exclude each other. The mode PanelSettings holds as
  current is the only one that is set or on, and none is while it turns a new one on, unless
  `disturbed` or two were imported (`ModeInv`); a restore that comes in between writes what is set.
- *Services.* No thread is told to end but the current one. Outside `stopThread` the view is shown exactly while there is a current thread,
  which is in its loop; all other threads in their loops were lost by a service created with the screen
  off, and `leaked` counts them (`Leaks`, with cardinalities). The fall sensor will listen, once the
  executor is idle, exactly if the last broadcast the service received says so (`FallInv`).
- *Refresh rate.* The writes a handler has still to do have one of seven shapes, and after the last
  one the settings are what was chosen. *Gestures.* While the system user is current,
  each gesture that is not clobbered has the node its mapping says, or what restores it is on the
  way (`Awaited`: its Startup or KeyHandler's restore has not passed the gesture, or will start with a
  broadcast KeyHandler does not ignore). That KeyHandler ignores no switch back is `HistoryInv`.
- *AudioPolicy.* An input that a call blocks is held also while idle; a suspended output
  belongs to one call whose end will be noticed; while offload is excluded each offload output
  that is left has been passed over by the loop. The last rests on `ClosingFacts`, what the loop by index leaves
  of any sequence of outputs. It is proved by induction on the rounds: the library's induction
  theorems take an operator, so `Induction` is stated for sets of natural numbers
  and derived from the well-foundedness of `<` (`WFMin`); `PassExists` shows by it that the recursive
  function exists.
- *AudioSources.* Mutes count the enforced sounds that are active; the submix input is
  connected only under a track of the mix.

Only model-checked: Completes, EveryoneNotified, SettingsApplied and FallClosesCamera
(liveness under fairness is out of the prover's reach). The properties of the runs that
expect a violation are false.

## 6. Disagreements found

| run | property | what |
|---|---|---|
| `failsafe_bothbad` | NeverBothBad | BACKUP repairs the primary header and corrupts the secondary one without an fsync in between; reordered, one power loss leaves both corrupted, which `gpt-utils.cpp:773` calls unacceptable |
| `failsafe_xbl` | AlreadySetMeansReady | after a BACKUP cut off between the XBL switch and the GPT write, MAIN finds its stage "already set - ready for update" and does not switch XBL away from the copy it grants |
| `gptdisk_backup` | BackupHeaderIsBackup | `hdr_bak` is read with `PRIMARY_GPT`: the "GPT backup header" of the handle is the primary one |
| `vibrator_write` | AcceptedOnPlays | the result of the cleanup ioctl hides the failed write: `on()` returns ok and nothing plays |
| `keyhandler_boot` | ProximityCheckUsed | `update()` runs before `mProxiSensorWakupCheck` is assigned: until a setting changes, the proximity check is off although it is on by default |

Behaviour that no text of the repository contradicts, so that it is no finding, but
that the properties had to exclude, is in the hazard list with the ghost that
excludes it. The ones met in this part of the code that a maintainer should look at:
`Startup.java:119` tests the circle's value before it stores the up arrow's default, which
is therefore never stored; `PanelSettings.java:94` and a restore in the system server can leave a
mode's node and setting different, or two color modes on, and `Startup.java:54-64` can import two;
`Vibrator.cpp:415` calls `usleep` with a product of 32 bits, so that a vibration of more than 4294967 ms
is reported too early; `gpt-utils.cpp:154-165` takes a short write for a whole one;
`RefreshRateTileService.java:59` makes 90 Hz the lowest rate
when the tile is merely looked at after the auto switch was turned off; `AudioPolicyManager.cpp:1119/1287` leave alarms muted if
the force use for SYSTEM changes while an enforced sound plays;
`FPSInfoService.java:224` loses a thread when the service is created with the
screen off.

## 7. Not modelled

- *Audio policy manager*, the rest: connection of other devices, routing, volumes
  and their delays, invalidation of tracks; calls into the framework's base class
  and engine, whose source is not in the repository.
- *Vibrator strength*: one slider of one screen writes the level to the node and then
  to the setting, from which `Startup` restores the node.
- *Settings screens, key mapping*: they store settings; the effect of their writes
  is `ChangeSetting` (KeyHandler), the starts and stops of DeviceServices and the
  switches (DisplayModes). `GestureSettings` is modelled.
- *GPT lookups, CRC*: pure functions of names and bytes; the models take a CRC as an
  injective digest of the array.
- *Property overrides, service mains, sepolicy, overlays, build files, `oneplus`
  stubs, `bluetooth` and `include` headers, `bootctrl`* (a build file only): no
  behaviour over time.
- Parts left out of modelled components: ringer and zen modes, media keys, calibration
  and the observer of the camera's client in KeyHandler (plain calls under the
  display's broadcasts); status calls to the vendor fingerprint service and the
  vibrator strength that `Startup` restores in DisplayModes; drawing of the FPS
  overlay; composition, always-on and capability calls of the vibrator, which keep
  no state; a failing `fsync` in FailsafeUpdate (the code ignores its result, so
  that nothing it promises would hold; the model's `fsync` waits for all blocks).

## 8. Plan

Done, in this order: FailsafeUpdate with its abstract specification and proofs,
GptDisk, Vibrator, KeyHandler, DisplayModes, AudioPolicy; then finger events in
DisplayModes, Gestures, DeviceServices, RefreshRate and their sum DeviceParts; AudioSources and
the sum PolicyManager; then proofs of every safety property of the runs, and of both sums
against the free interleaving of their parts.

To do:

1. An abstract atomic table store for GptDisk, of which commits in turn are steps, and an
   abstract torch (who turned it on, who turns it off) for KeyHandler, each with the
   refinement proved step by step.
2. Action properties on top of the invariants: a commit changes no entry its user has not
   edited; FINALIZE never switches a LUN back.
3. The safety part of the liveness arguments: what a rank that decreases with each stage of
   the updater's script (Completes) and with each callback thread (EveryoneNotified) does
   under each action.
