--------------------------- MODULE VibratorProofs ---------------------------
(***************************************************************************)
(* Proofs about Vibrator, for any slots, timeouts and effects, any widths  *)
(* of the length and of the sleep, and any number of calls and faults.     *)
(*                                                                         *)
(* The argument: a slot that is taken holds the effect the HAL remembers,  *)
(* or one whose removal has failed (OneEffect), the LED is one vibration,  *)
(* and no device none (PerDevice).  A vibration is no longer than what its *)
(* own call asked for, and the thread of this call sleeps for at least as  *)
(* long as it goes on (NotLonger); calls have different numbers, and no    *)
(* later call lengthens it.                                                *)
(***************************************************************************)
EXTENDS Vibrator, TLAPS

PerDevice ==
  /\ device = "none" => DOMAIN playing = {}
  /\ device = "led" => DOMAIN playing \subseteq {Invalid}
  /\ device # "ff" => mCurrAppId = Invalid /\ leaked = {}
  /\ leaked \subseteq DOMAIN playing

NotLonger ==
  \A x \in DOMAIN playing :
    /\ playing[x].left <= playing[x].ms
    /\ playing[x].ms * 1000 < SleepMod /\ playing[x].call \in DOMAIN waiting =>
         playing[x].left <= waiting[playing[x].call]

IInv == /\ TypeOK /\ PerDevice /\ NotLonger
        /\ OneEffect /\ OffSilences /\ CompleteNotEarly

-----------------------------------------------------------------------------
USE DEF Invalid, Magnitude

LEMMA EmptyFacts == DOMAIN Empty = {}
BY DEF Empty

LEMMA DropFacts ==
  ASSUME NEW f, NEW x
  PROVE  /\ DOMAIN Drop(f, x) = DOMAIN f \ {x}
         /\ \A y \in DOMAIN f \ {x} : Drop(f, x)[y] = f[y]
BY DEF Drop

(* The width of the length of an effect may only shorten it.               *)
LEMMA Truncated ==
  ASSUME NEW t \in Nat
  PROVE  ReplayLength(t) \in Nat /\ ReplayLength(t) <= t
BY VibratorAssumption DEF ReplayLength

(* The width of the sleep does not matter to a length that fits in it.     *)
LEMMA SleepFacts ==
  ASSUME NEW ms \in Nat
  PROVE  Sleep(ms) \in Nat /\ (ms * 1000 < SleepMod => Sleep(ms) = ms)
<1> DEFINE us == ms * 1000
           m == us % SleepMod
<1>1. SleepMod \in Nat /\ SleepMod > 0 /\ us \in Nat
  BY VibratorAssumption
<1>2. Sleep(ms) = m \div 1000
  BY DEF Sleep
<1>3. us \div 1000 = ms
  OBVIOUS
<1> HIDE DEF us
<1>4. m \in Nat /\ (us < SleepMod => m = us)
  BY <1>1
<1> HIDE DEF m
<1>5. m \div 1000 \in Nat
  BY <1>4
<1> QED BY <1>2, <1>3, <1>4, <1>5 DEF us

-----------------------------------------------------------------------------
(* What a call to the device leaves, whatever it returns.                  *)
DeviceOK ==
  /\ mCurrAppId' \in Slot \cup {Invalid} /\ faults' \in Nat /\ leaked' \subseteq Slot
  /\ DOMAIN playing' \subseteq Slot \cup {Invalid}
  /\ PerDevice' /\ OneEffect'

(* Each vibration is one of before, or the call's own.                     *)
Own(x, ms) == /\ playing'[x] \in [left : Nat, ms : Nat, call : {call + 1}]
              /\ playing'[x].left <= ms /\ playing'[x].ms = ms
Started(ms) ==
  \A x \in DOMAIN playing' : \/ x \in DOMAIN playing /\ playing'[x] = playing[x]
                             \/ Own(x, ms)

(* Nothing that can be removed vibrates.                                   *)
Silent == DOMAIN playing' \ leaked' = {}

LEMMA RemovedFacts ==
  ASSUME IInv, device = "ff"
  PROVE  /\ DOMAIN Removed = DOMAIN playing \ {mCurrAppId}
         /\ \A x \in DOMAIN Removed : Removed[x] = playing[x]
         /\ DOMAIN Removed = leaked
         /\ leaked \subseteq Slot /\ Free = Slot \ leaked /\ -1 \notin Slot
<1>1. DOMAIN Removed = DOMAIN playing \ {mCurrAppId}
      /\ \A x \in DOMAIN Removed : Removed[x] = playing[x]
  BY DropFacts DEF Removed
<1>2. TypeOK /\ OneEffect /\ PerDevice
  BY DEF IInv
<1>3. leaked \subseteq Slot /\ -1 \notin Slot
  BY <1>2, VibratorAssumption DEF TypeOK
<1>4. DOMAIN playing \ leaked = IF mCurrAppId = -1 THEN {} ELSE {mCurrAppId}
  BY <1>2 DEF OneEffect
<1>5. leaked \subseteq DOMAIN playing /\ mCurrAppId \notin leaked
  BY <1>2, <1>3, <1>4 DEF PerDevice
<1>6. DOMAIN Removed = leaked
  BY <1>1, <1>4, <1>5, <1>3
<1> QED BY <1>1, <1>3, <1>6 DEF Free

LEMMA PlayOK ==
  ASSUME IInv, device = "ff", device' = device, NEW left \in Nat, NEW ms \in Nat,
         left <= ms, Play(left, ms)
  PROVE  DeviceOK /\ Started(ms)
<1>1. PICK id \in Free : playing' = Put(Removed, id, Vibration(left, ms)) /\ mCurrAppId' = id
  BY DEF Play
<1>2. faults' = faults /\ leaked' = leaked /\ TypeOK
  BY DEF Play, IInv
<1>3. /\ DOMAIN playing' = leaked \cup {id} /\ playing'[id] = Vibration(left, ms)
      /\ \A y \in leaked \ {id} : y \in DOMAIN playing /\ playing'[y] = playing[y]
  <2>1. /\ DOMAIN playing' = DOMAIN Removed \cup {id} /\ playing'[id] = Vibration(left, ms)
        /\ \A y \in DOMAIN Removed \ {id} : playing'[y] = Removed[y]
    BY <1>1 DEF Put
  <2> QED BY <2>1, RemovedFacts
<1>4. id \in Slot /\ id \notin leaked /\ id # -1
  BY RemovedFacts
<1>5. Started(ms)
  BY <1>2, <1>3 DEF Started, Own, Vibration, TypeOK
<1>6. DOMAIN playing' \subseteq Slot \cup {Invalid}
  BY <1>3, <1>4, RemovedFacts
<1>7. PerDevice' /\ OneEffect'
  BY <1>1, <1>2, <1>3, <1>4 DEF PerDevice, OneEffect
<1> QED BY <1>1, <1>2, <1>4, <1>5, <1>6, <1>7 DEF TypeOK, DeviceOK

(* Every other outcome for the input device that forgets the id.           *)
LEMMA ForgetOK ==
  ASSUME IInv, device = "ff", device' = device, mCurrAppId' = Invalid,
         playing' = Removed, leaked' = leaked, faults' \in Nat, NEW ms
  PROVE  DeviceOK /\ Started(ms) /\ Silent
<1>1. TypeOK /\ DOMAIN playing' = leaked
  BY RemovedFacts DEF IInv
<1>2. Started(ms)
  BY RemovedFacts DEF Started
<1>3. PerDevice' /\ OneEffect'
  BY <1>1 DEF PerDevice, OneEffect
<1> QED BY <1>1, <1>2, <1>3, RemovedFacts DEF TypeOK, DeviceOK, Silent

LEMMA FaultType ==
  ASSUME TypeOK, NEW n \in Nat, Fault(n)
  PROVE  faults' \in Nat
BY DEF TypeOK, Fault

LEMMA WriteFailsOK ==
  ASSUME IInv, device = "ff", device' = device, WriteFails, NEW ms
  PROVE  DeviceOK /\ Started(ms)
<1>1. faults' \in Nat
  BY FaultType DEF WriteFails, IInv
<1> QED BY <1>1, ForgetOK DEF WriteFails

LEMMA RemoveFailsOK ==
  ASSUME IInv, device = "ff", device' = device, RemoveFails
  PROVE  DeviceOK /\ Started(0)
<1>1. faults' \in Nat /\ TypeOK /\ OneEffect /\ PerDevice
  BY FaultType DEF RemoveFails, IInv
<1>2. mCurrAppId' = Invalid /\ leaked' = leaked \cup {mCurrAppId} /\ playing' = playing
      /\ mCurrAppId # Invalid
  BY DEF RemoveFails
<1>3. mCurrAppId \in DOMAIN playing /\ mCurrAppId \in Slot
      /\ DOMAIN playing' \ leaked' = {}
  BY <1>1, <1>2 DEF OneEffect, TypeOK
<1>4. leaked' \subseteq DOMAIN playing' /\ leaked' \subseteq Slot
  BY <1>1, <1>2, <1>3 DEF PerDevice, TypeOK
<1>5. PerDevice' /\ OneEffect'
  BY <1>2, <1>3, <1>4 DEF PerDevice, OneEffect
<1>6. Started(0)
  BY <1>2 DEF Started
<1> QED BY <1>1, <1>2, <1>4, <1>5, <1>6 DEF TypeOK, DeviceOK

LEMMA PlayFailsOK ==
  ASSUME IInv, device = "ff", device' = device, PlayFails
  PROVE  DeviceOK /\ Started(0)
<1>1. CASE UploadFails
  <2>1. faults' \in Nat
    BY <1>1, FaultType DEF UploadFails, IInv, TypeOK
  <2> QED BY <1>1, <2>1, ForgetOK DEF UploadFails
<1>2. CASE WriteAndRemoveFail
  <2>1. faults' \in Nat /\ TypeOK
    BY <1>2, FaultType DEF WriteAndRemoveFail, IInv
  <2>2. PICK id \in Free : /\ playing' = Put(Removed, id, Vibration(0, 0))
                          /\ leaked' = leaked \cup {id}
    BY <1>2 DEF WriteAndRemoveFail
  <2>3. /\ DOMAIN playing' = leaked \cup {id} /\ playing'[id] = Vibration(0, 0)
        /\ \A y \in leaked \ {id} : y \in DOMAIN playing /\ playing'[y] = playing[y]
    <3>1. /\ DOMAIN playing' = DOMAIN Removed \cup {id} /\ playing'[id] = Vibration(0, 0)
          /\ \A y \in DOMAIN Removed \ {id} : playing'[y] = Removed[y]
      BY <2>2 DEF Put
    <3> QED BY <3>1, <1>2, RemovedFacts
  <2>4. id \in Slot /\ mCurrAppId' = Invalid
    BY <1>2, RemovedFacts DEF WriteAndRemoveFail
  <2>5. Started(0)
    BY <2>1, <2>3 DEF Started, Own, Vibration, TypeOK
  <2>6. PerDevice' /\ OneEffect'
    BY <2>2, <2>3, <2>4 DEF PerDevice, OneEffect
  <2>7. DOMAIN playing' \subseteq Slot \cup {Invalid} /\ leaked' \subseteq Slot
    BY <2>2, <2>3, <2>4, RemovedFacts
  <2> QED BY <2>1, <2>4, <2>5, <2>6, <2>7 DEF DeviceOK
<1> QED BY <1>1, <1>2, RemoveFailsOK DEF PlayFails

(* The LED, and the absence of a device.                                   *)
LEMMA LedOK ==
  ASSUME IInv, device = "led", device' = device, UNCHANGED mCurrAppId
  PROVE  /\ \A ms \in Nat : LedOn(ms) => DeviceOK /\ Started(ms)
         /\ LedOff => DeviceOK /\ Started(0) /\ Silent
         /\ LedFails => DeviceOK /\ Started(0)
<1>1. TypeOK /\ DOMAIN playing \subseteq {Invalid} /\ mCurrAppId = Invalid /\ leaked = {}
  BY DEF IInv, PerDevice
<1>2. ASSUME NEW ms \in Nat, LedOn(ms) PROVE DeviceOK /\ Started(ms)
  <2>1. DOMAIN playing' = {Invalid} /\ playing'[Invalid] = Vibration(ms, ms)
    <3>1. DOMAIN playing' = DOMAIN playing \cup {Invalid} /\ playing'[Invalid] = Vibration(ms, ms)
      BY <1>2, Zenon DEF LedOn, Put
    <3> QED BY <1>1, <3>1
  <2>2. Started(ms)
    BY <1>1, <2>1 DEF Started, Own, Vibration, TypeOK
  <2> QED BY <1>1, <1>2, <2>1, <2>2 DEF LedOn, DeviceOK, PerDevice, OneEffect, TypeOK
<1>3. ASSUME LedOff PROVE DeviceOK /\ Started(0) /\ Silent
  <2>1. DOMAIN playing' = {} /\ leaked' = leaked /\ faults' = faults
    BY <1>3, EmptyFacts DEF LedOff
  <2> QED BY <1>1, <2>1 DEF DeviceOK, Started, Silent, PerDevice, OneEffect, TypeOK
<1>4. ASSUME LedFails PROVE DeviceOK /\ Started(0)
  <2>1. faults' \in Nat /\ playing' = playing /\ leaked' = leaked
    BY <1>1, <1>4, FaultType DEF LedFails
  <2> QED BY <1>1, <2>1 DEF DeviceOK, Started, PerDevice, OneEffect, TypeOK
<1> QED BY <1>2, <1>3, <1>4

LEMMA NoDeviceOK ==
  ASSUME IInv, device = "none", device' = device,
         UNCHANGED <<mCurrAppId, playing, faults, leaked>>, NEW ms
  PROVE  DeviceOK /\ Started(ms) /\ Silent
<1>1. DOMAIN playing' = {}
  BY DEF IInv, PerDevice
<1> QED BY <1>1 DEF IInv, TypeOK, DeviceOK, Started, Silent, PerDevice, OneEffect

LEMMA DeviceOnOK ==
  ASSUME IInv, device' = device, NEW t \in Nat
  PROVE  /\ DeviceOn(t, TRUE) => DeviceOK /\ Started(t)
         /\ DeviceOn(t, FALSE) => DeviceOK /\ Started(0)
         /\ DeviceOn(0, TRUE) /\ device # "led" => DeviceOK /\ Started(0) /\ Silent
<1>1. CASE device = "led"
  BY <1>1, LedOK DEF DeviceOn
<1>2. CASE device = "none"
  BY <1>2, NoDeviceOK DEF DeviceOn
<1>3. CASE device = "ff"
  <2>1. \A ms : Stop => DeviceOK /\ Started(ms) /\ Silent
    <3> SUFFICES ASSUME NEW ms, Stop PROVE DeviceOK /\ Started(ms) /\ Silent
      OBVIOUS
    <3> QED BY <1>3, ForgetOK DEF Stop, Removed, IInv, TypeOK
  <2>2. RemoveFails => DeviceOK /\ Started(0)
    BY <1>3, RemoveFailsOK
  <2>3. t # 0 /\ DeviceOn(t, TRUE) => DeviceOK /\ Started(t)
    BY <1>3, Truncated, PlayOK, WriteFailsOK DEF DeviceOn
  <2>4. t # 0 /\ DeviceOn(t, FALSE) => DeviceOK /\ Started(0)
    BY <1>3, PlayFailsOK DEF DeviceOn
  <2> QED BY <1>3, <2>1, <2>2, <2>3, <2>4 DEF DeviceOn
<1>4. device \in {"ff", "led", "none"}
  BY DEF IInv, TypeOK
<1> QED BY <1>1, <1>2, <1>3, <1>4

LEMMA DeviceOffOK ==
  ASSUME IInv, device' = device
  PROVE  /\ DeviceOff(TRUE) => DeviceOK /\ Started(0) /\ Silent
         /\ DeviceOff(FALSE) => DeviceOK /\ Started(0)
BY LedOK, DeviceOnOK DEF DeviceOff

-----------------------------------------------------------------------------
(* The types, and the calls of the vibrations, after a call.               *)
LEMMA CallType ==
  ASSUME IInv, BeginCall, DeviceOK, NEW ms \in Nat, Started(ms)
  PROVE  /\ call \in Nat /\ call' = call + 1 /\ device' = device /\ notified' = notified
         /\ call' \notin DOMAIN waiting /\ call' \notin notified
         /\ 1..call \subseteq 1..call' /\ 0..call \subseteq 0..call' /\ call' \in 1..call'
         /\ \A x \in DOMAIN playing' :
              /\ playing'[x] \in [left : Nat, ms : Nat, call : 1..call']
              /\ playing'[x].left <= playing'[x].ms
              /\ \/ x \in DOMAIN playing /\ playing'[x] = playing[x] /\ playing[x].call # call'
                 \/ playing'[x].call = call' /\ playing'[x].ms = ms
<1>1. TypeOK /\ call \in Nat /\ call' = call + 1 /\ device' = device /\ notified' = notified
  BY DEF IInv, TypeOK, BeginCall
<1>2. call' \notin 1..call /\ 1..call \subseteq 1..call' /\ call' \in 1..call'
      /\ 0..call \subseteq 0..call'
  BY <1>1
<1>3. call' \notin DOMAIN waiting /\ call' \notin notified
  BY <1>1, <1>2 DEF TypeOK
<1>4. ASSUME NEW x \in DOMAIN playing'
      PROVE  /\ playing'[x] \in [left : Nat, ms : Nat, call : 1..call']
             /\ playing'[x].left <= playing'[x].ms
             /\ \/ x \in DOMAIN playing /\ playing'[x] = playing[x] /\ playing[x].call # call'
                \/ playing'[x].call = call' /\ playing'[x].ms = ms
  <2>1. CASE x \in DOMAIN playing /\ playing'[x] = playing[x]
    <3>1. playing[x] \in [left : Nat, ms : Nat, call : 1..call]
      BY <1>1, <2>1 DEF TypeOK
    <3>2. playing[x].left <= playing[x].ms
      BY <2>1 DEF IInv, NotLonger
    <3> QED BY <1>2, <2>1, <3>1, <3>2
  <2>2. CASE Own(x, ms)
    BY <1>1, <1>2, <2>2 DEF Own
  <2> QED BY <2>1, <2>2 DEF Started
<1> QED BY <1>1, <1>2, <1>3, <1>4

(* An accepted call: its number is new, and its thread outlasts what plays.*)
LEMMA Accepted ==
  ASSUME IInv, BeginCall, DeviceOK, NEW kind \in {"on", "off", "perform"}, NEW ms \in Nat,
         Started(ms), Accept(kind, ms), mCurrMagnitude' \in Magnitude,
         mInExternalControl' \in BOOLEAN, kind = "off" => Silent
  PROVE  IInv'
<1>1. TypeOK /\ call \in Nat
  BY DEF IInv, TypeOK
<1>2. last'.kind = kind /\ last'.call = call'
      /\ last' \in [kind : {"none", "on", "off", "perform"}, call : 0..call']
  BY <1>1, CallType DEF Accept
<1>3. waiting' = waiting \/ waiting' = Put(waiting, call', Sleep(ms))
  BY CallType DEF Accept
<1>4. /\ DOMAIN waiting' \subseteq DOMAIN waiting \cup {call'}
      /\ call' \in DOMAIN waiting' => waiting'[call'] = Sleep(ms)
      /\ \A c \in DOMAIN waiting' \ {call'} : waiting'[c] = waiting[c]
  <2>1. CASE waiting' = waiting
    BY <2>1, CallType
  <2>2. CASE waiting' = Put(waiting, call', Sleep(ms))
    BY <2>2 DEF Put
  <2> QED BY <1>3, <2>1, <2>2
<1>5. \A c \in DOMAIN waiting' : waiting'[c] \in Nat
  BY <1>1, <1>4, SleepFacts DEF TypeOK
<1>6. TypeOK'
  <2>1. DOMAIN waiting' \subseteq 1..call' /\ notified' \subseteq 1..call' /\ call' \in Nat
    <3>1. 1..call \subseteq 1..call' /\ call' \in 1..call' /\ call' = call + 1 /\ notified' = notified
      BY CallType
    <3>2. DOMAIN waiting \subseteq 1..call /\ notified \subseteq 1..call
      BY <1>1 DEF TypeOK
    <3>3. call' \in Nat
      BY <1>1, <3>1
    <3>4. DOMAIN waiting' \subseteq 1..call'
      BY <1>4, <3>1, <3>2
    <3> QED BY <3>1, <3>2, <3>3, <3>4
  <2>2. \A x \in DOMAIN playing' : playing'[x] \in [left : Nat, ms : Nat, call : 1..call']
    BY CallType
  <2>3. device' \in {"ff", "led", "none"}
    BY <1>1, CallType DEF TypeOK
  <2> QED BY <1>2, <1>5, <2>1, <2>2, <2>3 DEF TypeOK, DeviceOK
<1>7. NotLonger'
  <2> SUFFICES ASSUME NEW x \in DOMAIN playing'
               PROVE  /\ playing'[x].left <= playing'[x].ms
                      /\ playing'[x].ms * 1000 < SleepMod /\ playing'[x].call \in DOMAIN waiting'
                           => playing'[x].left <= waiting'[playing'[x].call]
    BY DEF NotLonger
  <2>1. CASE x \in DOMAIN playing /\ playing'[x] = playing[x] /\ playing[x].call # call'
    BY <1>4, <2>1 DEF IInv, NotLonger
  <2>2. CASE playing'[x].call = call' /\ playing'[x].ms = ms
    BY <1>4, <2>2, CallType, SleepFacts
  <2> QED BY <2>1, <2>2, CallType
<1>8. OffSilences'
  BY <1>2 DEF OffSilences, Silent
<1>9. CompleteNotEarly'
  BY CallType DEF IInv, CompleteNotEarly
<1> QED BY <1>6, <1>7, <1>8, <1>9 DEF IInv, DeviceOK

(* A refused call leaves the last accepted one as it was.                  *)
LEMMA Refused ==
  ASSUME IInv, BeginCall, DeviceOK, Started(0), Refuse, mCurrMagnitude' \in Magnitude,
         mInExternalControl' \in BOOLEAN
  PROVE  IInv'
<1>1. TypeOK /\ last' = last /\ waiting' = waiting /\ 0 \in Nat
  BY DEF IInv, Refuse
<1>2. last' \in [kind : {"none", "on", "off", "perform"}, call : 0..call']
  BY <1>1, CallType DEF TypeOK
<1>3. TypeOK'
  <2>1. DOMAIN waiting' \subseteq 1..call' /\ notified' \subseteq 1..call' /\ call' \in Nat
    <3>1. 1..call \subseteq 1..call' /\ call' = call + 1 /\ notified' = notified /\ call \in Nat
      BY <1>1, CallType
    <3>2. DOMAIN waiting \subseteq 1..call /\ notified \subseteq 1..call
      BY <1>1 DEF TypeOK
    <3>3. call' \in Nat
      BY <3>1
    <3> QED BY <1>1, <3>1, <3>2, <3>3
  <2>2. \A x \in DOMAIN playing' : playing'[x] \in [left : Nat, ms : Nat, call : 1..call']
    BY <1>1, CallType
  <2>3. device' \in {"ff", "led", "none"} /\ \A c \in DOMAIN waiting' : waiting'[c] \in Nat
    BY <1>1, CallType DEF TypeOK
  <2> QED BY <1>2, <2>1, <2>2, <2>3 DEF TypeOK, DeviceOK
<1>4. NotLonger' /\ CompleteNotEarly'
  BY <1>1, CallType DEF IInv, NotLonger, CompleteNotEarly
<1>5. OffSilences'
  <2>1. last.call # call'
    BY <1>1, CallType DEF TypeOK
  <2> QED BY <1>1, <2>1 DEF OffSilences
<1> QED BY <1>3, <1>4, <1>5 DEF IInv, DeviceOK

LEMMA InitOK == Init => IInv
<1> SUFFICES ASSUME Init PROVE IInv
  OBVIOUS
<1>1. TypeOK
  <2>1. DOMAIN playing = {} /\ DOMAIN waiting = {} /\ notified = {}
    BY EmptyFacts DEF Init
  <2>2. last \in [kind : {"none", "on", "off", "perform"}, call : 0..call] /\ call = 0
    BY DEF Init
  <2>3. /\ device \in {"ff", "led", "none"} /\ mCurrAppId \in Slot \cup {Invalid}
        /\ mCurrMagnitude \in Magnitude /\ mInExternalControl \in BOOLEAN
        /\ faults \in Nat /\ leaked = {}
    BY DEF Init
  <2> QED BY <2>1, <2>2, <2>3 DEF TypeOK
<1>2. PerDevice /\ NotLonger /\ OneEffect /\ OffSilences /\ CompleteNotEarly
  BY EmptyFacts DEF Init, PerDevice, NotLonger, OneEffect, OffSilences, CompleteNotEarly
<1> QED BY <1>1, <1>2 DEF IInv

LEMMA OnOK ==
  ASSUME IInv, NEW t \in Timeout, on(t)
  PROVE  IInv'
<1>1. TypeOK /\ BeginCall /\ device' = device /\ t \in Nat
      /\ UNCHANGED <<mCurrMagnitude, mInExternalControl>>
  BY VibratorAssumption DEF on, BeginCall, IInv
<1>2. mCurrMagnitude' \in Magnitude /\ mInExternalControl' \in BOOLEAN
  BY <1>1 DEF TypeOK
<1>3. CASE DeviceOn(t, TRUE) /\ Accept("on", t)
  BY <1>1, <1>2, <1>3, DeviceOnOK, Accepted
<1>4. CASE DeviceOn(t, FALSE) /\ Refuse
  BY <1>1, <1>2, <1>4, DeviceOnOK, Refused
<1> QED BY <1>3, <1>4 DEF on

LEMMA OffOK ==
  ASSUME IInv, off
  PROVE  IInv'
<1>1. TypeOK /\ BeginCall /\ device' = device /\ UNCHANGED <<mCurrMagnitude, mInExternalControl>>
  BY DEF off, BeginCall, IInv
<1>2. mCurrMagnitude' \in Magnitude /\ mInExternalControl' \in BOOLEAN
  BY <1>1 DEF TypeOK
<1>3. CASE DeviceOff(TRUE) /\ Accept("off", 0)
  BY <1>1, <1>2, <1>3, DeviceOffOK, Accepted
<1>4. CASE DeviceOff(FALSE) /\ Refuse
  BY <1>1, <1>2, <1>4, DeviceOffOK, Refused
<1> QED BY <1>3, <1>4 DEF off

LEMMA PerformOK ==
  ASSUME IInv, NEW e \in Effect, NEW es \in {"light", "medium", "strong"}, perform(e, es)
  PROVE  IInv'
<1>1. TypeOK /\ BeginCall /\ device' = device /\ UNCHANGED mInExternalControl
      /\ mCurrMagnitude' = es
  BY DEF perform, BeginCall, IInv
<1>2. mCurrMagnitude' \in Magnitude /\ mInExternalControl' \in BOOLEAN
  BY <1>1 DEF TypeOK
<1>3. e \in Nat /\ PlayLength(e) \in Nat /\ (device = "ff" => PlayLength(e) = e)
  BY VibratorAssumption DEF PlayLength
<1>4. CASE device = "ff" /\ (Play(e, PlayLength(e)) \/ WriteFails) /\ Accept("perform", PlayLength(e))
  <2>1. DeviceOK /\ Started(PlayLength(e))
    BY <1>1, <1>3, <1>4, PlayOK, WriteFailsOK
  <2> QED BY <1>1, <1>2, <1>3, <1>4, <2>1, Accepted
<1>5. CASE device = "ff" /\ PlayFails /\ Refuse
  BY <1>1, <1>2, <1>5, PlayFailsOK, Refused
<1>6. CASE /\ device = "none" /\ UNCHANGED <<mCurrAppId, playing, faults, leaked>>
           /\ Accept("perform", PlayLength(e))
  BY <1>1, <1>2, <1>3, <1>6, NoDeviceOK, Accepted
<1> QED BY <1>4, <1>5, <1>6 DEF perform

(* The calls that only set a parameter of the device.                      *)
LEMMA ParameterOK ==
  ASSUME IInv, setAmplitude \/ \E enabled \in BOOLEAN : setExternalControl(enabled)
  PROVE  IInv'
<1>1. TypeOK /\ BeginCall /\ device' = device /\ Refuse
      /\ UNCHANGED <<mCurrAppId, playing, leaked>>
  BY DEF setAmplitude, setExternalControl, BeginCall, IInv
<1>2. mCurrMagnitude' \in Magnitude /\ mInExternalControl' \in BOOLEAN
  BY <1>1 DEF TypeOK, setAmplitude, setExternalControl
<1>3. faults' \in Nat
  BY <1>1, FaultType DEF TypeOK, setAmplitude, setExternalControl
<1>4. DeviceOK /\ Started(0)
  BY <1>1, <1>3 DEF IInv, TypeOK, DeviceOK, Started, PerDevice, OneEffect
<1> QED BY <1>1, <1>2, <1>4, Refused

LEMMA TickOK ==
  ASSUME IInv, Tick
  PROVE  IInv'
<1>1. TypeOK /\ UNCHANGED <<device, mCurrAppId, mCurrMagnitude, mInExternalControl, notified,
                           call, last, faults, leaked>>
  BY DEF IInv, Tick
<1>2. /\ DOMAIN playing' = DOMAIN playing
      /\ \A x \in DOMAIN playing :
           playing'[x] = [playing[x] EXCEPT !.left = Minus1(playing[x].left)]
  BY DEF Tick
<1>3. \A x \in DOMAIN playing :
        /\ playing'[x] \in [left : Nat, ms : Nat, call : 1..call]
        /\ playing'[x].left = Minus1(playing[x].left) /\ playing[x].left \in Nat
        /\ playing'[x].ms = playing[x].ms /\ playing'[x].call = playing[x].call
        /\ playing[x].ms \in Nat
  BY <1>1, <1>2 DEF TypeOK, Minus1
<1>4. /\ DOMAIN waiting' = DOMAIN waiting
      /\ \A c \in DOMAIN waiting : /\ waiting'[c] = Minus1(waiting[c])
                                   /\ waiting[c] \in Nat /\ waiting'[c] \in Nat
  BY <1>1 DEF TypeOK, Tick, Minus1
<1>5. TypeOK'
  BY <1>1, <1>2, <1>3, <1>4 DEF TypeOK
<1>6. NotLonger'
  <2> SUFFICES ASSUME NEW x \in DOMAIN playing
               PROVE  /\ playing'[x].left <= playing'[x].ms
                      /\ playing'[x].ms * 1000 < SleepMod /\ playing'[x].call \in DOMAIN waiting'
                           => playing'[x].left <= waiting'[playing'[x].call]
    BY <1>2 DEF NotLonger
  <2>1. playing[x].left <= playing[x].ms
    BY DEF IInv, NotLonger
  <2>2. ASSUME playing'[x].ms * 1000 < SleepMod, playing'[x].call \in DOMAIN waiting'
        PROVE  playing[x].left <= waiting[playing[x].call]
    BY <1>3, <1>4, <2>2 DEF IInv, NotLonger
  <2> QED BY <1>3, <1>4, <2>1, <2>2 DEF Minus1
<1>7. OffSilences' /\ CompleteNotEarly'
  BY <1>1, <1>2, <1>3 DEF IInv, OffSilences, CompleteNotEarly, Minus1
<1>8. PerDevice' /\ OneEffect'
  BY <1>1, <1>2 DEF IInv, PerDevice, OneEffect
<1> QED BY <1>5, <1>6, <1>7, <1>8 DEF IInv

LEMMA OnCompleteOK ==
  ASSUME IInv, NEW c \in DOMAIN waiting, onComplete(c)
  PROVE  IInv'
<1>1. TypeOK /\ waiting[c] = 0 /\ waiting' = Drop(waiting, c) /\ notified' = notified \cup {c}
      /\ UNCHANGED <<deviceVars, call, last, faults, leaked>>
  BY DEF IInv, onComplete
<1>2. /\ DOMAIN waiting' = DOMAIN waiting \ {c}
      /\ \A x \in DOMAIN waiting' : waiting'[x] = waiting[x]
  BY <1>1, DropFacts
<1>3. TypeOK'
  BY <1>1, <1>2 DEF TypeOK, deviceVars
<1>4. NotLonger'
  BY <1>1, <1>2 DEF IInv, NotLonger, deviceVars
<1>5. CompleteNotEarly'
  <2>1. ASSUME NEW x \in DOMAIN playing, playing[x].call = c, playing[x].ms * 1000 < SleepMod
        PROVE  ~(playing[x].left > 0)
    BY <1>1, <2>1 DEF IInv, NotLonger, TypeOK
  <2> QED BY <1>1, <2>1 DEF IInv, CompleteNotEarly, deviceVars
<1>6. PerDevice' /\ OneEffect' /\ OffSilences'
  BY <1>1 DEF IInv, PerDevice, OneEffect, OffSilences, deviceVars
<1> QED BY <1>3, <1>4, <1>5, <1>6 DEF IInv

(* Calls, time and the detached threads keep the device, the id the HAL    *)
(* remembers and the sleeping threads consistent.                          *)
THEOREM Inductive == Spec => []IInv
<1>1. IInv /\ [Next]_vars => IInv'
  <2> SUFFICES ASSUME IInv, [Next]_vars PROVE IInv'
    OBVIOUS
  <2>1. CASE UNCHANGED vars
    BY <2>1 DEF vars, deviceVars, IInv, TypeOK, PerDevice, NotLonger, OneEffect, OffSilences,
                CompleteNotEarly
  <2>2. CASE Calls
    BY <2>2, OnOK, OffOK, PerformOK, ParameterOK DEF Calls
  <2>3. CASE Tick
    BY <2>3, TickOK
  <2>4. CASE Complete
    BY <2>4, OnCompleteOK DEF Complete
  <2> QED BY <2>1, <2>2, <2>3, <2>4 DEF Next
<1> QED BY <1>1, InitOK, PTL DEF Spec

(* Every variable of the model keeps its type.                             *)
THEOREM TypeCorrect == Spec => []TypeOK
<1>1. IInv => TypeOK
  BY DEF IInv
<1> QED BY <1>1, Inductive, PTL

(* After an off() that returned ok nothing vibrates until the next call,  *)
(* except an effect whose own removal has failed.                          *)
THEOREM OffIsSilent == Spec => []OffSilences
<1>1. IInv => OffSilences
  BY DEF IInv
<1> QED BY <1>1, Inductive, PTL

(* The slots that are taken are those of the remembered effect and of the  *)
(* effects whose removal has failed: slots run out by failures only.       *)
THEOREM SlotsDoNotRunOut == Spec => []OneEffect
<1>1. IInv => OneEffect
  BY DEF IInv
<1> QED BY <1>1, Inductive, PTL

(* When a call is notified its vibration is over, for any call, superseded *)
(* or not, any truncation to the width of ff_replay.length, and any length *)
(* whose microseconds fit in the width of usleep's argument.               *)
THEOREM NotifiedInTime == Spec => []CompleteNotEarly
<1>1. IInv => CompleteNotEarly
  BY DEF IInv
<1> QED BY <1>1, Inductive, PTL

=============================================================================
