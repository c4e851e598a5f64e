-------------------------- MODULE FailsafeBootProofs --------------------------
(* What the abstract specification itself guarantees.                      *)
EXTENDS FailsafeBoot, TLAPS

(* Whatever the order of switches and writes, a boot at any moment finds   *)
(* complete images.                                                        *)
THEOREM AlwaysBootable == Spec => [](TypeOK /\ LiveComplete)
<1> DEFINE Inv == TypeOK /\ LiveComplete
<1> USE DEF TypeOK, LiveComplete, Copy, Content
<1>1. Init => Inv
  BY DEF Init
<1>2. Inv /\ [Next]_vars => Inv'
  <2> SUFFICES ASSUME Inv, [Next]_vars PROVE Inv'
    OBVIOUS
  <2>1. ASSUME NEW l \in Lun, NEW c \in Copy, Switch(l, c) PROVE Inv'
    BY <2>1 DEF Switch
  <2>2. ASSUME NEW l \in Lun, NEW c \in Copy, NEW v \in Content, Write(l, c, v)
        PROVE  Inv'
    BY <2>2 DEF Write
  <2>3. CASE UNCHANGED vars
    BY <2>3 DEF vars
  <2> QED BY <2>1, <2>2, <2>3 DEF Next
<1> QED BY <1>1, <1>2, PTL DEF Spec
=============================================================================
