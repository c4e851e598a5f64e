------------------------------ MODULE Vibrator ------------------------------
(***************************************************************************)
(* The vibrator HAL, vibrator/aidl/Vibrator.cpp: the AIDL calls on, off,   *)
(* perform, setAmplitude and setExternalControl over a force-feedback      *)
(* input device (InputFFDevice) or an LED class device                     *)
(* (LedVibratorDevice).  The binder pool has one thread, so calls run one  *)
(* after the other; every accepted call with a callback starts a detached  *)
(* thread that sleeps and calls onComplete.                                *)
(*                                                                         *)
(* Time is a count of milliseconds; external to the repository are the     *)
(* kernel drivers: a fixed number of slots for uploaded effects, each      *)
(* playing for the length it was uploaded with.  The effect streams of     *)
(* USE_EFFECT_STREAM are not built, so the driver gives effects' lengths.  *)
(***************************************************************************)
EXTENDS Integers, FiniteSets

CONSTANTS
  Slot,         \* effect slots of the input device
  Timeout,      \* arguments of on(), in ms
  Effect,       \* predefined effects: the ms for which the driver plays each
  LengthMod,    \* width of ff_replay.length: 2^16 in the kernel's interface
  SleepMod,     \* width of usleep's argument, in microseconds: 2^32
  MaxCall,      \* bound: calls
  MaxFault      \* bound: failing system calls

ASSUME VibratorAssumption ==
  /\ IsFiniteSet(Slot) /\ -1 \notin Slot
  /\ Timeout \subseteq Nat /\ Effect \subseteq Nat
  /\ LengthMod \in Nat \ {0} /\ SleepMod \in Nat \ {0}
  /\ MaxCall \in Nat /\ MaxFault \in Nat

Invalid == -1                         \* INVALID_VALUE
Magnitude == {"light", "medium", "strong", "amplitude"}

VARIABLES
  device,               \* "led" (ledVib.mDetected), "ff", or "none" (no mVibraFd)
  mCurrAppId,           \* id of the uploaded effect, or Invalid
  mCurrMagnitude,
  mInExternalControl,
  playing,              \* kernel: per uploaded effect, the ms it still plays,
                        \* and (ghost) its call and the ms this call is about
  waiting,              \* threads: per call, the ms until its onComplete
  notified,             \* calls whose callback has been called
  call, last,           \* number of calls; the last call accepted, and its kind
  faults,               \* bound
  leaked                \* ghost: the effects whose removal has failed

deviceVars == <<device, mCurrAppId, mCurrMagnitude, mInExternalControl, playing>>
vars == <<deviceVars, waiting, notified, call, last, faults, leaked>>

Empty == [x \in {} |-> 0]
Put(f, x, v) == [y \in DOMAIN f \cup {x} |-> IF y = x THEN v ELSE f[y]]
Drop(f, x) == [y \in DOMAIN f \ {x} |-> f[y]]

Init ==
  /\ device \in {"ff", "led", "none"}
  /\ mCurrAppId = Invalid /\ mCurrMagnitude = "strong"
  /\ mInExternalControl = FALSE
  /\ playing = Empty /\ waiting = Empty /\ notified = {}
  /\ call = 0 /\ last = [kind |-> "none", call |-> 0]
  /\ faults = 0 /\ leaked = {}

-----------------------------------------------------------------------------
(* usleep(ms * 1000): the product is an unsigned 32-bit number of          *)
(* microseconds, so that beyond 71 minutes the thread sleeps for less.     *)
\* Mutant: milliseconds are handed to usleep.
SleepUnscaled(ms) == (ms % SleepMod) \div 1000
Sleep(ms) == ((ms * 1000) % SleepMod) \div 1000

(* The end of a call: an exception, or it is accepted and, given a         *)
(* callback, leaves a thread that sleeps.                                  *)
\* Mutant: the thread replaces the one of the call before.
AcceptOneThread(kind, ms) ==
  /\ last' = [kind |-> kind, call |-> call + 1]
  /\ \/ waiting' = waiting
     \/ kind # "off" /\ waiting' = Put(Empty, call + 1, Sleep(ms))
Accept(kind, ms) ==
  /\ last' = [kind |-> kind, call |-> call + 1]
  /\ \/ waiting' = waiting
     \/ kind # "off" /\ waiting' = Put(waiting, call + 1, Sleep(ms))
Refuse == UNCHANGED <<last, waiting>>

BeginCall == call < MaxCall /\ call' = call + 1 /\ UNCHANGED <<device, notified>>
CanFail(n) == faults + n <= MaxFault
Fault(n) == CanFail(n) /\ faults' = faults + n

-----------------------------------------------------------------------------
(* InputFFDevice::play with timeoutMs # 0: the current effect is removed,  *)
(* a new one is uploaded under a free id, and started.                     *)
\* Mutant: the effect in use is not removed first.
RemovedKept == playing
Removed == Drop(playing, mCurrAppId)
Free == Slot \ DOMAIN Removed

Vibration(left, ms) == [left |-> left, ms |-> ms, call |-> call + 1]

Play(left, ms) ==
  /\ \E id \in Free : /\ playing' = Put(Removed, id, Vibration(left, ms))
                      /\ mCurrAppId' = id
  /\ UNCHANGED <<faults, leaked>>

(* The write fails and the EVIOCRMFF that cleans up succeeds: ret is that  *)
(* call's 0, and play returns it although nothing plays.                   *)
WriteFails ==
  /\ Fault(1) /\ Free # {}
  /\ mCurrAppId' = Invalid /\ playing' = Removed /\ UNCHANGED leaked

(* What play leaves when it returns -1.                                    *)
RemoveFails ==                                                \* EVIOCRMFF
  /\ mCurrAppId # Invalid /\ Fault(1)
  /\ mCurrAppId' = Invalid /\ leaked' = leaked \cup {mCurrAppId} /\ UNCHANGED playing
UploadFails ==                                                \* EVIOCSFF
  /\ \/ Fault(1)
     \/ Free = {} /\ UNCHANGED faults
  /\ mCurrAppId' = Invalid /\ playing' = Removed /\ UNCHANGED leaked
WriteAndRemoveFail ==                               \* the write, EVIOCRMFF
  /\ Fault(2)
  /\ \E id \in Free : /\ playing' = Put(Removed, id, Vibration(0, 0))
                      /\ leaked' = leaked \cup {id}
  /\ mCurrAppId' = Invalid
PlayFails == RemoveFails \/ UploadFails \/ WriteAndRemoveFail

(* timeoutMs = 0: the current effect is removed.                           *)
\* Mutant: the id is forgotten, the effect is not removed.
StopForgets == mCurrAppId' = Invalid /\ UNCHANGED <<playing, faults, leaked>>
Stop ==
  /\ playing' = Drop(playing, mCurrAppId) /\ mCurrAppId' = Invalid
  /\ UNCHANGED <<faults, leaked>>

(* LedVibratorDevice::on and off; the id Invalid stands for the LED.       *)
LedOn(ms) ==
  playing' = Put(playing, Invalid, Vibration(ms, ms)) /\ UNCHANGED <<faults, leaked>>
LedOff == playing' = Empty /\ UNCHANGED <<faults, leaked>>
LedFails == Fault(1) /\ UNCHANGED <<playing, leaked>>

-----------------------------------------------------------------------------
(* effect.replay.length = timeoutMs: 16 bits, unsigned.                    *)
\* Mutant: 16 bits, signed.
ReplayLengthSigned(timeoutMs) ==
  ((timeoutMs + (LengthMod \div 2)) % LengthMod) - (LengthMod \div 2)
ReplayLength(timeoutMs) == timeoutMs % LengthMod

(* The device's on and off return 0 or not.                                *)
DeviceOn(timeoutMs, ok) ==
  \/ /\ device = "led" /\ UNCHANGED mCurrAppId
     /\ IF ok THEN LedOn(timeoutMs) ELSE LedFails
  \/ /\ device = "ff" /\ timeoutMs # 0
     /\ IF ok THEN Play(ReplayLength(timeoutMs), timeoutMs) \/ WriteFails ELSE PlayFails
  \/ /\ device = "ff" /\ timeoutMs = 0
     /\ IF ok THEN Stop ELSE RemoveFails
  \/ /\ device = "none" /\ ok
     /\ UNCHANGED <<mCurrAppId, playing, faults, leaked>>

DeviceOff(ok) ==
  IF device = "led"
  THEN UNCHANGED mCurrAppId /\ IF ok THEN LedOff ELSE LedFails
  ELSE DeviceOn(0, ok)

on(timeoutMs) ==
  /\ BeginCall /\ UNCHANGED <<mCurrMagnitude, mInExternalControl>>
  /\ \/ DeviceOn(timeoutMs, TRUE) /\ Accept("on", timeoutMs)
     \/ DeviceOn(timeoutMs, FALSE) /\ Refuse

off ==
  /\ BeginCall /\ UNCHANGED <<mCurrMagnitude, mInExternalControl>>
  /\ \/ DeviceOff(TRUE) /\ Accept("off", 0)
     \/ DeviceOff(FALSE) /\ Refuse

(* What perform returns, and its thread sleeps: what the driver says.      *)
PlayLength(e) == IF device = "none" THEN 0 ELSE e

perform(e, es) ==
  /\ device # "led" /\ BeginCall /\ UNCHANGED mInExternalControl
  /\ mCurrMagnitude' = es
  /\ \/ /\ device = "ff" /\ (Play(e, PlayLength(e)) \/ WriteFails)
        /\ Accept("perform", PlayLength(e))
     \/ device = "ff" /\ PlayFails /\ Refuse
     \/ /\ device = "none" /\ UNCHANGED <<mCurrAppId, playing, faults, leaked>>
        /\ Accept("perform", PlayLength(e))

setAmplitude ==
  /\ device # "led" /\ ~mInExternalControl /\ BeginCall /\ Refuse
  /\ \/ device = "ff" /\ mCurrMagnitude' = "amplitude" /\ UNCHANGED faults
     \/ device = "ff" /\ Fault(1) /\ UNCHANGED mCurrMagnitude
     \/ device = "none" /\ UNCHANGED <<faults, mCurrMagnitude>>
  /\ UNCHANGED <<mCurrAppId, mInExternalControl, playing, leaked>>

setExternalControl(enabled) ==
  /\ device = "ff" /\ BeginCall /\ Refuse
  /\ mInExternalControl' = enabled
  /\ UNCHANGED <<mCurrAppId, mCurrMagnitude, playing, faults, leaked>>

-----------------------------------------------------------------------------
(* A millisecond passes; a thread whose sleep is over calls onComplete.    *)
Minus1(ms) == IF ms > 0 THEN ms - 1 ELSE 0

Tick ==
  /\ \/ \E x \in DOMAIN playing : playing[x].left > 0
     \/ \E c \in DOMAIN waiting : waiting[c] > 0
  /\ playing' = [x \in DOMAIN playing |-> [playing[x] EXCEPT !.left = Minus1(@)]]
  /\ waiting' = [c \in DOMAIN waiting |-> Minus1(waiting[c])]
  /\ UNCHANGED <<device, mCurrAppId, mCurrMagnitude, mInExternalControl, notified,
                 call, last, faults, leaked>>

onComplete(c) ==
  /\ c \in DOMAIN waiting /\ waiting[c] = 0
  /\ waiting' = Drop(waiting, c) /\ notified' = notified \cup {c}
  /\ UNCHANGED <<deviceVars, call, last, faults, leaked>>

Calls ==
  \/ \E t \in Timeout : on(t)
  \/ off
  \/ \E e \in Effect, es \in {"light", "medium", "strong"} : perform(e, es)
  \/ setAmplitude
  \/ \E enabled \in BOOLEAN : setExternalControl(enabled)

Complete == \E c \in DOMAIN waiting : onComplete(c)

Next == Calls \/ Tick \/ Complete

Spec == Init /\ [][Next]_vars

(* Time passes, and the detached threads are scheduled.                    *)
FairSpec == Spec /\ WF_vars(Tick) /\ WF_vars(Complete)

-----------------------------------------------------------------------------
TypeOK ==
  /\ device \in {"ff", "led", "none"}
  /\ mCurrAppId \in Slot \cup {Invalid}
  /\ mCurrMagnitude \in Magnitude /\ mInExternalControl \in BOOLEAN
  /\ DOMAIN playing \subseteq Slot \cup {Invalid}
  /\ \A x \in DOMAIN playing : playing[x] \in [left : Nat, ms : Nat, call : 1..call]
  /\ DOMAIN waiting \subseteq 1..call /\ \A c \in DOMAIN waiting : waiting[c] \in Nat
  /\ notified \subseteq 1..call /\ call \in Nat /\ faults \in Nat /\ leaked \subseteq Slot
  /\ last \in [kind : {"none", "on", "off", "perform"}, call : 0..call]

(* An off() that returned ok leaves the device silent until the next call, *)
(* whatever failed before: only an effect whose own removal failed, whose  *)
(* id the HAL has forgotten, can still vibrate.                            *)
OffSilences ==
  last.kind = "off" /\ last.call = call =>
    \A x \in DOMAIN playing \ leaked : playing[x].left = 0

(* The HAL uses one slot of the device at a time: every other slot that is *)
(* taken holds an effect whose own removal failed, so that uploads run out *)
(* of slots only by as many failures.                                      *)
OneEffect ==
  device = "ff" =>
    DOMAIN playing \ leaked = IF mCurrAppId = Invalid THEN {} ELSE {mCurrAppId}

(* The framework takes onComplete for the end of the vibration it asked    *)
(* for: no vibration goes on after the callback of its own call, also when *)
(* later calls have superseded it or could not remove it, if its length in *)
(* microseconds is within the 32 bits of usleep.                           *)
CompleteNotEarly ==
  \A x \in DOMAIN playing :
    playing[x].left > 0 /\ playing[x].ms * 1000 < SleepMod => playing[x].call \notin notified

(* Every thread that was started gets to call onComplete.                  *)
EveryoneNotified == \A c \in 1..MaxCall : c \in DOMAIN waiting ~> c \in notified

-----------------------------------------------------------------------------
(* Vibrator.cpp:126: "value in param@timeoutMs will be used as the play    *)
(* length": an accepted on() plays.  (Refuted by a run: a failing write is *)
(* accepted.)                                                              *)
AcceptedOnPlays ==
  [][\A t \in Timeout \ {0} :
       device = "ff" /\ on(t) /\ last' # last => \E x \in DOMAIN playing' : playing'[x].left = t]_vars

=============================================================================
