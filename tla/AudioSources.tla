---------------------------- MODULE AudioSources ----------------------------
(***************************************************************************)
(* Sources and devices in the audio policy manager: what starting a track  *)
(* on an output switches on -- the mute of alarms under an enforced sound, *)
(* the remote submix input of a recorder -- and stopping it must switch    *)
(* off again; and when the HDMI output is available, which two parties     *)
(* switch: the plug, and the HDMI speaker setting ("hdmi_spkr").           *)
(*                                                                         *)
(* One output plays to the speaker, one to a mix of type RECORDERS.        *)
(* Routing, delays and volumes are not represented.  External: the base    *)
(* class, which opens outputs and inputs for a device, or fails to;        *)
(* AudioFlinger, which stops what it has started; the display port HAL.    *)
(***************************************************************************)
EXTENDS Naturals, FiniteSets

(* Tracks; those of one stream share its volume source.                    *)
Track == [stream : {"music"}, output : {"mix"}, id : {1, 2}]
         \cup [stream : {"alarm"}, output : {"mix"}, id : {1}]
         \cup [stream : {"enforced"}, output : {"speaker"}, id : {1, 2}]
         \cup [stream : {"tts"}, output : {"speaker"}, id : {1}]

MaxMute == 3             \* bound: mutes that were not undone

VARIABLES
  active,                \* tracks that are active
  alarmMute,             \* mute count of alarms on the speaker output
  enforcedSystem,        \* force use for SYSTEM is SYSTEM_ENFORCED
  submix,                \* the mix's remote submix input is connected
  hdmiSpkEnabled,        \* of APMConfigHelper, fixed
  hdmi,                  \* the HDMI output is in mAvailableOutputDevices
  mHdmiAudioDisabled, mHdmiAudioEvent,
  dpForVoice,            \* engine: voice may be routed to the display port
  switched,              \* ghost: the force use has changed under an enforced sound
  cut,                   \* ghost: a stop disconnected the input under another track
  failed                 \* ghost: no output, or input, could be opened

sources == <<active, alarmMute, enforcedSystem, submix, switched, cut>>
devices == <<hdmi, mHdmiAudioDisabled, mHdmiAudioEvent, dpForVoice>>
vars == <<sources, hdmiSpkEnabled, devices, failed>>

Init ==
  /\ active = {} /\ alarmMute = 0 /\ enforcedSystem = FALSE /\ submix = FALSE
  /\ hdmiSpkEnabled \in BOOLEAN
  /\ hdmi = FALSE /\ mHdmiAudioDisabled = FALSE /\ mHdmiAudioEvent = FALSE
  /\ dpForVoice = FALSE /\ switched = FALSE /\ cut = FALSE /\ failed = {}

Playing(output) == {t \in active : t.output = output}
ActivityCount(t) == Cardinality({u \in Playing(t.output) : u.stream = t.stream})

-----------------------------------------------------------------------------
(* startSource.  A TTS track is refused while another output is used; the  *)
(* beacon mutes nothing (handleEventForBeacon is empty).                   *)
Refused(t) == t.stream = "tts" /\ \E u \in active : u.stream # "tts"

startSource(t, opens) ==
  /\ t \notin active /\ ~Refused(t) /\ alarmMute < MaxMute
  /\ active' = active \cup {t}
  /\ alarmMute' = IF t.stream = "enforced" /\ enforcedSystem THEN alarmMute + 1 ELSE alarmMute
  /\ submix' = (submix \/ (t.output = "mix" /\ opens))
  /\ failed' = IF t.output # "mix" \/ submix THEN failed
               ELSE IF opens THEN failed \ {"submix"} ELSE failed \cup {"submix"}
  /\ cut' = (cut /\ ~submix')
  /\ UNCHANGED <<enforcedSystem, switched, hdmiSpkEnabled, devices>>

(* stopSource looks at the activity of the volume source that stops, not   *)
(* at that of the output.                                                  *)
\* Mutant: ... at whether it was active at all.
StopsLastOrNot(t) == t.output = "mix" /\ ActivityCount(t) = 0
StopsLast(t) == t.output = "mix" /\ ActivityCount(t) = 1

stopSource(t) ==
  /\ t \in active /\ active' = active \ {t}
  /\ submix' = (submix /\ ~StopsLast(t))
  /\ cut' = (Playing("mix")' # {} /\ (cut \/ (submix /\ StopsLast(t))))
  /\ alarmMute' = IF t.stream = "enforced" /\ enforcedSystem /\ alarmMute > 0
                  THEN alarmMute - 1 ELSE alarmMute
  /\ failed' = IF Playing("mix")' = {} THEN failed \ {"submix"} ELSE failed
  /\ UNCHANGED <<enforcedSystem, switched, hdmiSpkEnabled, devices>>

(* setForceUse(FOR_SYSTEM): enforced tracks are invalidated, and stop and  *)
(* start again some time later.                                            *)
setForceUse ==
  /\ enforcedSystem' = ~enforcedSystem
  /\ switched' = (switched \/ \E t \in active : t.stream = "enforced")
  /\ UNCHANGED <<active, alarmMute, submix, cut, hdmiSpkEnabled, devices, failed>>

-----------------------------------------------------------------------------
(* setDeviceConnectionStateInt(AUX_DIGITAL, ...).                          *)
Event(speaker, on) ==
  IF ~hdmiSpkEnabled THEN UNCHANGED <<mHdmiAudioDisabled, mHdmiAudioEvent>>
  ELSE IF speaker THEN mHdmiAudioDisabled' = ~on /\ UNCHANGED mHdmiAudioEvent
  ELSE mHdmiAudioEvent' = on /\ UNCHANGED mHdmiAudioDisabled

\* Mutant: the plug is enough.
PlugWanted == ~hdmiSpkEnabled \/ mHdmiAudioEvent
Wanted == ~hdmiSpkEnabled \/ (~mHdmiAudioDisabled /\ mHdmiAudioEvent)

(* opens: checkOutputsForDevice succeeds; voice: the HAL's dp_for_voice.   *)
ConnectHdmi(speaker, opens, voice) ==
  /\ UNCHANGED <<sources, hdmiSpkEnabled>> /\ Event(speaker, TRUE)
  /\ LET tried == ~hdmi /\ Wanted' IN
     /\ hdmi' = (hdmi \/ (tried /\ opens))
     /\ dpForVoice' = IF tried /\ opens THEN voice ELSE dpForVoice
     /\ failed' = IF ~tried THEN failed
                  ELSE IF opens THEN failed \ {"hdmi"} ELSE failed \cup {"hdmi"}

DisconnectHdmi(speaker) ==
  /\ Event(speaker, FALSE)
  /\ hdmi' = FALSE
  /\ dpForVoice' = (dpForVoice /\ ~hdmi)
  /\ failed' = failed \ {"hdmi"}
  /\ UNCHANGED <<sources, hdmiSpkEnabled>>

Next ==
  \/ \E t \in Track : stopSource(t) \/ \E opens \in BOOLEAN : startSource(t, opens)
  \/ setForceUse
  \/ \E speaker \in BOOLEAN :
       \/ DisconnectHdmi(speaker)
       \/ \E opens, voice \in BOOLEAN : ConnectHdmi(speaker, opens, voice)

Spec == Init /\ [][Next]_vars

-----------------------------------------------------------------------------
TypeOK ==
  /\ active \subseteq Track /\ alarmMute \in 0..MaxMute
  /\ {enforcedSystem, submix, switched, cut, hdmiSpkEnabled, dpForVoice} \subseteq BOOLEAN
  /\ {hdmi, mHdmiAudioDisabled, mHdmiAudioEvent} \subseteq BOOLEAN
  /\ failed \subseteq {"submix", "hdmi"}

(* Stopping undoes what starting did, in whatever order tracks start and   *)
(* stop.  Alarms on the output are muted as often as enforced sounds play, *)
(* unless the force use has changed under one; the recorder's input is     *)
(* connected exactly while the mix plays, unless it could not be opened or *)
(* the last track of one stream has stopped under another stream.          *)
StopUndoesStart ==
  /\ ~switched =>
       alarmMute = IF enforcedSystem THEN Cardinality({t \in active : t.stream = "enforced"})
                                     ELSE 0
  /\ submix => Playing("mix") # {}
  /\ Playing("mix") # {} /\ ~cut /\ "submix" \notin failed => submix

(* With the HDMI speaker feature, the output is available exactly while    *)
(* the sink is plugged and the speaker not disabled, however the two       *)
(* events, repeated or not, interleave -- unless it could not be opened;   *)
(* and voice never goes to a display port that is gone.                    *)
HdmiFollowsBoth ==
  /\ hdmiSpkEnabled /\ hdmi => mHdmiAudioEvent /\ ~mHdmiAudioDisabled
  /\ hdmiSpkEnabled /\ mHdmiAudioEvent /\ ~mHdmiAudioDisabled /\ ~hdmi => "hdmi" \in failed
  /\ dpForVoice => hdmi

=============================================================================
