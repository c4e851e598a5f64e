--------------------------- MODULE MCPolicyManager --------------------------
(* Values for the run of PolicyManager: two recording clients, one on the  *)
(* primary module and one elsewhere, and configurations that turn each     *)
(* kind of concurrency on, alone or together.                              *)
EXTENDS PolicyManager, TLC
CONSTANTS c1, c2, s1, s2

TwoClients == {c1, c2}
OnePrimary == {c1}
TwoSessions == {s1, s2}
RecordedSources == c1 :> {"mic", "voip", "hotword"} @@ c2 :> {"mic", "uplink"}
SessionSymmetry == Permutations(TwoSessions)
Voice == {"voiceConc", "playDisabled", "recDisabled", "voipDisabled"}
Configs ==
  {{"dsdDisabled", "vaConc", "multipleOffload"},
   Voice \cup {"dsdDisabled"},
   Voice \cup {"deepFallback"},
   (Voice \ {"voipDisabled"}) \cup {"recPlayConc", "recPlayDisabled", "multipleOffload"}}
=============================================================================
