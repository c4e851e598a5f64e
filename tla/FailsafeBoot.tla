---------------------------- MODULE FailsafeBoot ----------------------------
(***************************************************************************)
(* What the failsafe update of gpt-utils promises, without tables, caches  *)
(* or stages: every LUN boots from one of two copies of its images, the    *)
(* boot is switched only to a complete copy, and only the copy that is not *)
(* booted from is ever written.                                            *)
(***************************************************************************)
CONSTANTS Lun

VARIABLES
  live,   \* per LUN, the copy a boot at this moment uses
  img     \* per LUN and copy, the content

vars == <<live, img>>

Copy == {"primary", "backup"}
Content == {"old", "torn", "new"}

Init ==
  /\ live = [l \in Lun |-> "primary"]
  /\ img = [l \in Lun |-> [c \in Copy |-> "old"]]

Switch(l, c) ==
  /\ img[l][c] # "torn"
  /\ live' = [live EXCEPT ![l] = c]
  /\ UNCHANGED img

Write(l, c, v) ==
  /\ live[l] # c
  /\ img' = [img EXCEPT ![l][c] = v]
  /\ UNCHANGED live

Next == \E l \in Lun, c \in Copy :
          Switch(l, c) \/ \E v \in Content : Write(l, c, v)

Spec == Init /\ [][Next]_vars

TypeOK == live \in [Lun -> Copy] /\ img \in [Lun -> [Copy -> Content]]

(* A boot at any moment finds complete images.                             *)
LiveComplete == \A l \in Lun : img[l][live[l]] # "torn"

=============================================================================
