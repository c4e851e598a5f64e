--------------------------- MODULE MCDeviceParts ----------------------------
(* Values for the run of DeviceParts: an old version left a panel mode and *)
(* DC dimming on, or two panel modes (the others can be switched on).      *)
EXTENDS DeviceParts

SomeOn == {{"dci", "dcd"}, {"srgb", "dci"}}
=============================================================================
