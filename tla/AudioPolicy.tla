----------------------------- MODULE AudioPolicy -----------------------------
(***************************************************************************)
(* Concurrency of calls, recordings and direct playback in the audio       *)
(* policy manager, policy_hal/AudioPolicyManager.cpp: which outputs and    *)
(* inputs are closed or refused when the phone enters a call or a          *)
(* recording starts, and what the HAL and the sound trigger service are    *)
(* told.  All calls run under the lock of the audio policy service.        *)
(*                                                                         *)
(* Devices, volumes and patches are not represented.  Mixed outputs are    *)
(* opened at start, have the lowest handles, and are never closed.         *)
(* The profile of the primary output has the deep buffer flag, or it would *)
(* not be suspended.  External: the base class AudioPolicyManager, which   *)
(* opens and releases inputs (one per client here) and outputs;            *)
(* AudioFlinger, which counts suspends; the order in which clients call.   *)
(***************************************************************************)
EXTENDS Naturals, Sequences, FiniteSets, SequencesExt

CONSTANTS
  Client,        \* recording clients (port ids)
  Primary,       \* those whose input is on the primary module
  Records,       \* client -> the sources it records
  Session,       \* playback sessions
  Config,        \* configurations of APMConfigHelper
  MaxOutput,     \* bound: direct outputs open at once
  MaxGranted,    \* bound: sessions with an answer not yet used
  MaxSuspend     \* bound: suspends of the primary output

Flag == {"voiceConc", "playDisabled", "recDisabled", "voipDisabled", "deepFallback",
         "dsdDisabled", "recPlayConc", "recPlayDisabled", "vaConc", "multipleOffload"}

Source == {"mic", "voip", "uplink", "hotword"}

ASSUME PolicyAssumption ==
  /\ Primary \subseteq Client /\ Config \subseteq SUBSET Flag
  /\ Records \in [Client -> SUBSET Source]
  /\ {MaxOutput, MaxGranted, MaxSuspend} \subseteq Nat

Mode == {"normal", "ringtone", "in_call", "in_comm"}
Profile == {"compress", "dsd", "direct", "voip"}
Output == [profile : Profile, session : Session, jumped : BOOLEAN]
Input == [state : {"none", "idle", "active"}, source : Source, held : BOOLEAN]

VARIABLES
  config,                    \* the flags that are set, fixed
  phone, mPrevPhoneState, mvoice_call_state,
  mOutputs,                  \* the direct outputs, by increasing handle;
                             \* ghost jumped: a closing loop passed over it
  mInputs,                   \* per client; ghost held: idle when a call began
  mIsInputRequestOnProgress,
  granted,                   \* sessions that were told: offload is supported
  rec_play_conc_on,          \* HAL parameter
  capture,                   \* sound trigger service: capture state
  suspended,                 \* AudioFlinger: suspends of the primary output
  irregular                  \* ghost: a call was resumed, or ended in a ring

modes == <<config, phone, mPrevPhoneState, mvoice_call_state, suspended, irregular>>
recording == <<mInputs, mIsInputRequestOnProgress, rec_play_conc_on, capture>>
vars == <<modes, mOutputs, recording, granted>>

Has(flag) == flag \in config
NoInput == [state |-> "none", source |-> "mic", held |-> FALSE]

(* The constructor does not initialize mvoice_call_state.                  *)
Init ==
  /\ config \in Config
  /\ phone = "normal" /\ mPrevPhoneState = "normal" /\ mvoice_call_state \in BOOLEAN
  /\ mOutputs = <<>> /\ granted = {}
  /\ mInputs = [c \in Client |-> NoInput]
  /\ mIsInputRequestOnProgress = FALSE /\ rec_play_conc_on = FALSE /\ capture = FALSE
  /\ suspended = 0 /\ irregular = FALSE

-----------------------------------------------------------------------------
(* activeInputsCountOnDevices(primary), activeNonSoundTriggerInputs...     *)
ActivePrimary(inputs) == {c \in Primary : inputs[c].state = "active"}
NonSoundTrigger(inputs) == {c \in ActivePrimary(inputs) : inputs[c].source # "hotword"}

RecPlay == Has("recPlayConc") /\ Has("recPlayDisabled")
isInCall == phone \in {"in_call", "in_comm"}

(* A voice call is active, or runs in the background of a VoIP call.       *)
InVoiceCall ==
  \/ phone = "in_call"
  \/ mPrevPhoneState = "in_call" /\ phone = "in_comm"

(* Sources that record concurrency blocks in a call.                       *)
Blocked(source) ==
  Has("voiceConc") /\ IF Has("recDisabled")
                      THEN source # "uplink" /\ (source = "voip" => Has("voipDisabled"))
                      ELSE source = "voip" /\ Has("voipDisabled")

Offload(o) == o.profile \in {"compress", "dsd"}
Offloads == {o \in Output : Offload(o)}

(* for (i = 0; i < mOutputs.size(); i++) if (...) closeOutput(keyAt(i)):   *)
(* the output after a closed one is not looked at.  pass[i]: what is left  *)
(* of the first i outputs, and whether the last of them was closed.        *)
LookAt(a, o, closing) ==
  IF o \in closing /\ ~a.closed
  THEN [kept |-> a.kept, closed |-> TRUE]
  ELSE [kept   |-> Append(a.kept, [o EXCEPT !.jumped = @ \/ o \in closing]),
        closed |-> FALSE]
ClosingLoop(outputs, closing) ==
  LET pass[i \in 0..Len(outputs)] ==
        IF i = 0 THEN [kept |-> <<>>, closed |-> FALSE]
                 ELSE LookAt(pass[i - 1], outputs[i], closing)
  IN  pass[Len(outputs)].kept

(* stopInput of clients S, active or not, and what remains active.  The    *)
(* base class reports the end of capture on the primary module; for VA     *)
(* concurrency stopInput does so again, by a condition that also holds for *)
(* any input that is not on the primary module.                            *)
Ended(S) == [c \in Client |-> IF c \in S /\ mInputs[c].state = "active"
                              THEN [mInputs[c] EXCEPT !.state = "idle"] ELSE mInputs[c]]
CaptureAfter(S, inputs) ==
  LET base   == S \cap ActivePrimary(mInputs) # {} /\ ActivePrimary(inputs) = {}
      custom == Has("vaConc") /\ \E c \in S : c \notin Primary \/ NonSoundTrigger(inputs) = {}
  IN  capture /\ ~base /\ ~custom
\* Mutant: the HAL is told at every stop.
RecPlayOffAlways(S, inputs) == RecPlay /\ S # {}
RecPlayOff(S, inputs) == RecPlay /\ S # {} /\ ActivePrimary(inputs) = {}

-----------------------------------------------------------------------------
(* setPhoneState.  The effect of entering a call on inputs and outputs ... *)
\* Mutant: a call that follows a VoIP call is not noticed.
EntersCallFromNormal(state) == Has("voiceConc") /\ phone = "normal" /\ state = "in_call"
EntersCall(state) == Has("voiceConc") /\ phone # "in_call" /\ state = "in_call"

Closed(state) ==
  IF EntersCall(state)
  THEN {c \in Client : mInputs[c].state = "active" /\ Blocked(mInputs[c].source)} ELSE {}
HeldBack(c) == mInputs[c].state = "idle" /\ Blocked(mInputs[c].source)
InputsInMode(state) ==
  [c \in Client |->
     IF c \in Closed(state) THEN NoInput
     ELSE [mInputs[c] EXCEPT !.held = IF EntersCall(state) THEN HeldBack(c) ELSE @]]

FallsBack(o) ==
  IF ~Has("deepFallback") THEN Has("playDisabled") /\ Offload(o)
  ELSE IF o.profile = "voip" THEN Has("voipDisabled") ELSE Has("playDisabled")

(* ... then of the DSD loop, on every change of the phone state, and of    *)
(* the loop for record and play concurrency.                               *)
OutputsInMode(state) ==
  LET Entry == IF EntersCall(state) THEN {o \in Output : FallsBack(o)} ELSE {}
      Dsd   == IF Has("dsdDisabled") THEN {o \in Output : o.profile = "dsd"} ELSE {}
      Comm  == IF RecPlay /\ state = "in_comm" THEN Offloads ELSE {}
  IN  ClosingLoop(ClosingLoop(ClosingLoop(mOutputs, Entry), Dsd), Comm)

Suspends(state) == EntersCall(state) /\ Has("playDisabled") /\ ~Has("deepFallback")
\* Mutant: the end of a call is noticed only when it ends directly.
LeavesCallDirectly(state) ==
  /\ Has("voiceConc") /\ Has("playDisabled") /\ mvoice_call_state
  /\ phone = "in_call" /\ state = "normal"
LeavesCall(state) ==
  /\ Has("voiceConc") /\ Has("playDisabled") /\ mvoice_call_state
  /\ isInCall /\ state = "normal"

setPhoneState(state) ==
  /\ state # phone                              \* mEngine->setPhoneState
  /\ Suspends(state) => suspended < MaxSuspend
  /\ phone' = state /\ mPrevPhoneState' = phone
  /\ mvoice_call_state' = ((mvoice_call_state \/ EntersCall(state)) /\ ~LeavesCall(state))
  /\ mInputs' = InputsInMode(state)
  /\ capture' = CaptureAfter(Closed(state), mInputs')
  /\ rec_play_conc_on' = (rec_play_conc_on /\ ~RecPlayOff(Closed(state), mInputs'))
  /\ mOutputs' = OutputsInMode(state)
  /\ suspended' = IF Suspends(state) THEN suspended + 1
                  ELSE IF LeavesCall(state) /\ ~Has("deepFallback") /\ suspended > 0
                       THEN suspended - 1 ELSE suspended
  /\ irregular' = (irregular \/ (suspended > 0 /\ state \in {"ringtone", "in_call"}))
  /\ UNCHANGED <<config, mIsInputRequestOnProgress, granted>>

-----------------------------------------------------------------------------
(* Inputs: getInputForAttr, startInput, stopInput, and their ends.         *)
\* Mutant: a call in the background of a VoIP call refuses nothing.
RefusesInForeground(source) == mvoice_call_state /\ phone = "in_call" /\ Blocked(source)
Refuses(source) == mvoice_call_state /\ InVoiceCall /\ Blocked(source)

getInputForAttr(c, source) ==
  /\ mInputs[c].state = "none" /\ ~Refuses(source)
  /\ mInputs' = [mInputs EXCEPT ![c] = [state |-> "idle", source |-> source, held |-> FALSE]]
  /\ UNCHANGED <<modes, mOutputs, mIsInputRequestOnProgress, rec_play_conc_on, capture,
                 granted>>

\* Mutant: capture is reported for the first input of any module.
FirstCaptureOfAny(c, inputs) == {d \in Client : inputs[d].state = "active"} = {c}
FirstCapture(c, inputs) ==
  /\ c \in Primary
  /\ IF Has("vaConc") THEN \E d \in Primary : NonSoundTrigger(inputs) = {d}
                      ELSE ActivePrimary(inputs) = {c}

(* start() of the input may fail: what was announced stays announced.      *)
startInput(c, ok) ==
  LET first == RecPlay /\ ActivePrimary(mInputs) = {} IN
  /\ mInputs[c].state = "idle"
  /\ rec_play_conc_on' = (rec_play_conc_on \/ first)
  /\ mOutputs' = IF first THEN ClosingLoop(mOutputs, Offloads) ELSE mOutputs
  /\ mIsInputRequestOnProgress' =
       (IF Has("recPlayConc") THEN ~ok ELSE mIsInputRequestOnProgress)
  /\ mInputs' = IF ok THEN [mInputs EXCEPT ![c].state = "active"] ELSE mInputs
  /\ capture' = (capture \/ (ok /\ FirstCapture(c, mInputs')))
  /\ UNCHANGED <<modes, granted>>

stopInput(c) ==
  /\ mInputs[c].state # "none"
  /\ mInputs' = Ended({c})
  /\ capture' = CaptureAfter({c}, mInputs')
  /\ rec_play_conc_on' = (rec_play_conc_on /\ ~RecPlayOff({c}, mInputs'))
  /\ UNCHANGED <<modes, mOutputs, mIsInputRequestOnProgress, granted>>

releaseInput(c) ==
  /\ mInputs[c].state = "idle"
  /\ mInputs' = [mInputs EXCEPT ![c] = NoInput]
  /\ UNCHANGED <<modes, mOutputs, mIsInputRequestOnProgress, rec_play_conc_on, capture,
                 granted>>

(* setForceUse and the loss of a device close an input in the base class,  *)
(* without stopInput; setForceUse leaves the hotword alone.                *)
closeInput(c) ==
  /\ mInputs[c].state = "active" /\ (c \in Primary => mInputs[c].source # "hotword")
  /\ mInputs' = [mInputs EXCEPT ![c] = NoInput]
  /\ capture' = (capture /\ ~(c \in Primary /\ ActivePrimary(mInputs') = {}))
  /\ UNCHANGED <<modes, mOutputs, mIsInputRequestOnProgress, rec_play_conc_on, granted>>

-----------------------------------------------------------------------------
(* Outputs: a player asks whether offload is supported, and later for an   *)
(* output; the answer may be out of date.                                  *)
RecordingNow == RecPlay /\ (mIsInputRequestOnProgress \/ ActivePrimary(mInputs) # {})

isOffloadSupported(s, dsd) ==
  /\ ~(Has("voiceConc") /\ Has("playDisabled") /\ isInCall)
  /\ ~(Has("dsdDisabled") /\ dsd /\ isInCall)
  /\ ~RecordingNow
  /\ Cardinality(granted \cup {s}) <= MaxGranted
  /\ granted' = granted \cup {s}
  /\ UNCHANGED <<modes, mOutputs, recording>>

(* Requests: compressed music, PCM music, with or without DIRECT, and the  *)
(* voice stream of a VoIP call.                                            *)
Request == [stream : {"music"}, flags : {{"compress"}}, format : {"mp3", "dsd"}]
           \cup [stream : {"music"}, flags : {{}, {"direct"}}, format : {"pcm"}]
           \cup [stream : {"voice"}, flags : {{}}, format : {"pcm"}]

(* getOutputForDevices: what becomes of the flags, in the order of the     *)
(* code; {"none"} is the refusal of an output.                             *)
VoipFlags(q) ==
  IF q.stream = "voice" /\ phone # "in_call" THEN {"voip_rx", "direct"} ELSE q.flags

\* Mutant: compressed music falls back only during a call in the foreground.
VoiceFlagsInForeground(f, q) ==
  IF ~Has("voiceConc") \/ ~mvoice_call_state \/ ~InVoiceCall THEN f
  ELSE IF "voip_rx" \in f THEN (IF Has("voipDisabled") THEN {"none"} ELSE f)
  ELSE IF Has("playDisabled") /\ "compress" \in f /\ phone = "in_call" THEN {"fast"}
  ELSE f
VoiceFlags(f, q) ==
  IF ~Has("voiceConc") \/ ~mvoice_call_state \/ ~InVoiceCall THEN f
  ELSE IF "voip_rx" \in f THEN (IF Has("voipDisabled") THEN {"none"} ELSE f)
  ELSE IF Has("playDisabled") /\ "compress" \in f
       THEN (IF Has("deepFallback") /\ q.stream = "music" THEN {"deep"} ELSE {"fast"})
  ELSE f

RecordFlags(f) ==
  IF RecordingNow /\ f \cap {"fast", "none"} = {} /\ ~("voip_rx" \in f /\ phone = "in_comm")
  THEN {"deep"} ELSE f

ProxyFlags(f, q, proxy) ==
  IF ~proxy \/ q.stream = "music" \/ "none" \in f THEN f
  ELSE IF "direct" \in f THEN {"direct"} ELSE {"fast"}

InUse(P) == \E i \in DOMAIN mOutputs : mOutputs[i].profile \in P

DirectFlags(f, q) ==
  LET g == IF "compress" \in f THEN f \cup {"direct"} ELSE f
  IN  CASE g = {} /\ q.stream = "music"           -> {"direct"}
        [] g = {"direct"} /\ q.stream # "music"   -> {}
        [] OTHER                                  -> g

Flags(q, proxy) ==
  DirectFlags(ProxyFlags(RecordFlags(VoiceFlags(VoipFlags(q), q)), q, proxy), q)

\* Mutant: a refused request is served all the same.
ProfileForRefused(q, proxy) ==
  LET f == Flags(q, proxy)
  IN  CASE f = {"none"}        -> "none"
        [] "direct" \notin f   -> "mixed"
        [] "voip_rx" \in f     -> "voip"
        [] "compress" \in f    -> "compress"
        [] OTHER               -> "direct"
ProfileFor(q, proxy) ==
  LET f == Flags(q, proxy)
  IN  CASE "direct" \notin f -> "mixed"
        [] "voip_rx" \in f   -> "voip"
        [] "compress" \in f  -> IF q.format = "dsd" THEN "dsd" ELSE "compress"
        [] OTHER             -> "direct"

(* An open output of the profile keeps other sessions out, unless several  *)
(* offloads are allowed.  (A reused output and a mixed one change nothing  *)
(* here; the profile may also have no free stream.)                        *)
KeptOut(s, p) ==
  /\ ~Has("multipleOffload")
  /\ \E i \in DOMAIN mOutputs :
       /\ mOutputs[i].profile = p /\ mOutputs[i].session # s
       /\ \A j \in DOMAIN mOutputs : mOutputs[j].profile = p => j <= i
  /\ p = "direct" \/ (p \in {"compress", "dsd"} /\ InUse({"compress", "dsd"}))

getOutputForDevices(s, q, proxy) ==
  LET p == ProfileFor(q, proxy) IN
  /\ "compress" \in q.flags => s \in granted
  /\ p # "mixed" /\ ~KeptOut(s, p)
  /\ Len(mOutputs) < MaxOutput
  /\ mOutputs' = Append(mOutputs, [profile |-> p, session |-> s, jumped |-> FALSE])
  /\ granted' = granted \ {s}
  /\ UNCHANGED <<modes, recording>>

releaseOutput(i) ==
  /\ i \in DOMAIN mOutputs
  /\ mOutputs' = RemoveAt(mOutputs, i)
  /\ UNCHANGED <<modes, recording, granted>>

Next ==
  \/ \E state \in Mode : setPhoneState(state)
  \/ \E c \in Client :
       \/ \E source \in Records[c] : getInputForAttr(c, source)
       \/ \E ok \in BOOLEAN : startInput(c, ok)
       \/ stopInput(c) \/ releaseInput(c) \/ closeInput(c)
  \/ \E s \in Session :
       \/ \E dsd \in BOOLEAN : isOffloadSupported(s, dsd)
       \/ \E q \in Request, proxy \in BOOLEAN : getOutputForDevices(s, q, proxy)
  \/ \E i \in 1..MaxOutput : releaseOutput(i)

Spec == Init /\ [][Next]_vars

-----------------------------------------------------------------------------
TypeOK ==
  /\ config \in Config
  /\ {phone, mPrevPhoneState} \subseteq Mode /\ mvoice_call_state \in BOOLEAN
  /\ mOutputs \in Seq(Output) /\ Len(mOutputs) <= MaxOutput
  /\ mInputs \in [Client -> Input]
  /\ {mIsInputRequestOnProgress, rec_play_conc_on, capture, irregular} \subseteq BOOLEAN
  /\ granted \subseteq Session /\ suspended \in 0..MaxSuspend

(* Wherever mvoice_call_state decides something about a request, a call    *)
(* has set it, although the constructor leaves it uninitialized and the    *)
(* end of a call does not always reset it.                                 *)
CallStateKnown == Has("voiceConc") /\ InVoiceCall => mvoice_call_state

(* Record and play concurrency: while an input of the primary module is    *)
(* active, whatever other inputs start, fail, stop or are closed, the HAL  *)
(* has been told.                                                          *)
RecordingTold == RecPlay /\ ActivePrimary(mInputs) # {} => rec_play_conc_on

(* ... and no offload output is open; nor is one during a call, in the    *)
(* foreground or behind a VoIP call, if voice concurrency forbids it: also *)
(* for a player that was told that offload is supported before recording   *)
(* or call began -- but one that the closing loop has passed over.         *)
NoOffloadDuring ==
  \/ RecPlay /\ ActivePrimary(mInputs) # {}
  \/ Has("voiceConc") /\ Has("playDisabled") /\ InVoiceCall
OffloadExcluded ==
  NoOffloadDuring => \A i \in DOMAIN mOutputs : Offload(mOutputs[i]) => mOutputs[i].jumped

(* Voice concurrency for recordings: a source that calls block is active   *)
(* only if its input was open, and idle, when the call began: startInput   *)
(* does not ask.                                                           *)
NoBlockedRecordingInCall ==
  InVoiceCall => \A c \in Client :
    mInputs[c].state = "active" /\ Blocked(mInputs[c].source) => mInputs[c].held

(* After a call the primary output is not left suspended, also when a VoIP *)
(* call came between, unless a call was resumed or went over into a ring.  *)
PrimaryRestored == phone = "normal" /\ ~irregular => suspended = 0

(* The sound trigger service knows of capture on the primary module.       *)
CaptureReported == ~Has("vaConc") => (capture <=> ActivePrimary(mInputs) # {})

=============================================================================
