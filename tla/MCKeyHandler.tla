---------------------------- MODULE MCKeyHandler ----------------------------
(* The runs of KeyHandler: the module and the bounds of the cfgs.          *)
EXTENDS KeyHandler

(* No guard looks at the value of the double-tap setting: behaviours that  *)
(* begin with TRUE are those that begin with FALSE with the value flipped. *)
InitOffFirst == Init /\ double_tap = FALSE
FairSpecOffFirst == InitOffFirst /\ [][Next]_vars /\ Fairness
=============================================================================
