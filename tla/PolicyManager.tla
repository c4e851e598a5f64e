--------------------------- MODULE PolicyManager ----------------------------
(***************************************************************************)
(* The audio policy manager: AudioPolicy (phone state, recordings, direct  *)
(* outputs) and AudioSources (tracks, force use, HDMI) side by side.  All  *)
(* its methods run under one lock, and no step of one half reads or writes *)
(* what the other half keeps: a property of one half holds in every        *)
(* interleaving if it holds while only that half moves.  Which one does is *)
(* chosen in the initial state.  (setForceUse is in both: here it closes   *)
(* inputs, there it changes what a stop undoes.)                           *)
(***************************************************************************)
EXTENDS AudioPolicy

VARIABLES
  half,
  active, alarmMute, enforcedSystem, submix, hdmiSpkEnabled, hdmi, mHdmiAudioDisabled,
  mHdmiAudioEvent, dpForVoice, switched, cut, failed

Sources == INSTANCE AudioSources

concurrency == vars
sources == <<active, alarmMute, enforcedSystem, submix, hdmiSpkEnabled, hdmi,
             mHdmiAudioDisabled, mHdmiAudioEvent, dpForVoice, switched, cut, failed>>

(* The half that stands still has one initial state.                       *)
ManagerInit ==
  /\ half \in {"concurrency", "sources"} /\ Init /\ Sources!Init
  /\ half = "concurrency" => ~hdmiSpkEnabled
  /\ half = "sources" => config = (CHOOSE c \in Config : TRUE) /\ ~mvoice_call_state

ManagerNext ==
  /\ UNCHANGED half
  /\ \/ half = "concurrency" /\ Next /\ UNCHANGED sources
     \/ half = "sources" /\ Sources!Next /\ UNCHANGED concurrency

ManagerSpec == ManagerInit /\ [][ManagerNext]_<<half, concurrency, sources>>

-----------------------------------------------------------------------------
(* Every variable of both halves has a value that the code can give it.    *)
ManagerTypeOK == TypeOK /\ Sources!TypeOK

(* See AudioSources.                                                       *)
StopUndoesStart == Sources!StopUndoesStart
HdmiFollowsBoth == Sources!HdmiFollowsBoth

=============================================================================
