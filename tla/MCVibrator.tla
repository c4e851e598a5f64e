---------------------------- MODULE MCVibrator ----------------------------
(* Values for the runs of Vibrator: with LengthMod = 4 the timeout 5 is    *)
(* truncated to 1, and with SleepMod = 5000 its thread does not sleep.     *)
EXTENDS Vibrator

TwoSlots == {0, 1}
Timeouts == {0, 2, 5}
Effects == {1, 3}
=============================================================================
