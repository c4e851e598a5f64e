------------------------------ MODULE Gestures ------------------------------
(***************************************************************************)
(* The touch panel's gestures, which each user maps to actions.  The       *)
(* kernel's nodes say which gestures the panel reports, for everybody.     *)
(* They are written by                                                     *)
(*   - GestureSettings, when the current user changes a mapping;           *)
(*   - Startup, in a process of the user that has started, for that user;  *)
(*   - KeyHandler, in system_server, when the system user is back.         *)
(* A mapping and a node are read or written one after the other, and the   *)
(* other processes may come in between.                                    *)
(*                                                                         *)
(* Of the eight gestures two stand for all: the circle (the double swipe,  *)
(* the left and the right arrow) has a default, which a restore stores;    *)
(* the up arrow (down, up and left swipe) has none in effect: its default  *)
(* is tried with the value of the circle, which is never empty then.       *)
(*                                                                         *)
(* External: users that start, stop and switch.  USER_SWITCHED comes in    *)
(* the order of the switches; after a boot one for the system user may     *)
(* come too.  BOOT_COMPLETED of a user comes any time after its start.     *)
(***************************************************************************)
EXTENDS Sequences, Naturals

User == {"system", "guest"}
Gesture == {"circle", "up"}
RestoreOrder == <<"circle", "up">>
Restorer == User \cup {"KeyHandler"}      \* a user: its Startup
Owner(r) == IF r = "KeyHandler" THEN "system" ELSE r
Mapping == {"", "app", "disabled"}
MaxSwitch == 3          \* bound: switches that KeyHandler has not heard of
Changes(u) == IF u = "system" THEN Gesture ELSE {"circle"}     \* bound for guests
NoChange == <<>>

VARIABLES
  mapping,         \* Settings.System of each user, survives
  node,            \* kernel: the gestures that are enabled
  current, started,
  bootCompleted, switched,      \* broadcasts not received yet
  mRestoreUser,    \* KeyHandler has heard of a switch
  at, read,        \* of each restorer: position in RestoreOrder, or 0; mapping read
  change,          \* GestureSettings wrote the node, not yet the mapping
  clobbered        \* ghost: gestures whose node was last written for a guest
                   \* who had left, or into a change of their mapping

vars == <<mapping, node, current, started, bootCompleted, switched, mRestoreUser,
          at, read, change, clobbered>>
users == <<current, started, bootCompleted, switched, mRestoreUser>>

AtBoot == {<<>>, <<"system">>}   \* of USER_SWITCHED

Init ==
  /\ mapping = [u \in User |-> [g \in Gesture |-> ""]]
  /\ node = {} /\ change = NoChange /\ clobbered = {}
  /\ current = "system" /\ started = {"system"}
  /\ bootCompleted = {"system"} /\ switched \in AtBoot /\ mRestoreUser = FALSE
  /\ at = [r \in Restorer |-> 0] /\ read = [r \in Restorer |-> "none"]

-----------------------------------------------------------------------------
(* Startup.restoreAfterUserSwitch, of which three may run at once.         *)
Enabled(value) == value \notin {"", "disabled"}
HasDefault(g) == g = "circle"

At(r, g) == at[r] \in DOMAIN RestoreOrder /\ RestoreOrder[at[r]] = g
Changing(u, g) == change # NoChange /\ change[1] = u /\ change[2] = g

(* The system user's state of gesture g is still to be restored.           *)
Position(g) == CHOOSE i \in DOMAIN RestoreOrder : RestoreOrder[i] = g
Pending(g) ==
  \/ "system" \in bootCompleted \/ \E i \in DOMAIN switched : switched[i] = "system"
  \/ \E r \in {"system", "KeyHandler"} : at[r] \in 1..Position(g)

onReceive(u) ==                  \* Startup, BOOT_COMPLETED; its main thread
  /\ u \in bootCompleted         \* ... is that of the user's settings
  /\ \A g \in Gesture : ~Changing(u, g)
  /\ bootCompleted' = bootCompleted \ {u}
  /\ at' = [at EXCEPT ![u] = 1]
  /\ UNCHANGED <<mapping, node, current, started, switched, mRestoreUser, read, change,
                 clobbered>>

GetString(r, g) ==
  /\ At(r, g) /\ read[r] = "none"
  /\ read' = [read EXCEPT ![r] = mapping[Owner(r)][g]]
  /\ UNCHANGED <<mapping, node, users, at, change, clobbered>>

PutDefault(r, g) ==
  /\ At(r, g) /\ read[r] = "" /\ HasDefault(g)
  /\ mapping' = [mapping EXCEPT ![Owner(r)][g] = "app"]
  /\ read' = [read EXCEPT ![r] = "app"]
  /\ UNCHANGED <<node, users, at, change, clobbered>>

restore(r, g) ==
  LET stale == \/ Changing(Owner(r), g)
               \/ Enabled(read[r]) # Enabled(mapping[Owner(r)][g])
      late == Owner(r) = "guest" /\ current = "system" /\ ~Pending(g)
  IN  /\ At(r, g) /\ read[r] # "none" /\ ~(read[r] = "" /\ HasDefault(g))
      /\ node' = IF Enabled(read[r]) THEN node \cup {g} ELSE node \ {g}
      /\ clobbered' = IF stale \/ late THEN clobbered \cup {g} ELSE clobbered \ {g}
      /\ read' = [read EXCEPT ![r] = "none"]
      /\ at' = [at EXCEPT ![r] = (@ + 1) % (Len(RestoreOrder) + 1)]
      /\ UNCHANGED <<mapping, users, change>>

(* KeyHandler.mSystemStateReceiver: the first broadcast may be the one of  *)
(* the boot, before Startup has run; a switch to another user restores     *)
(* nothing.                                                                *)
\* Mutant: the condition is negated.
RestoresFirst(u) == u = "system" /\ ~mRestoreUser
Restores(u) == u = "system" /\ mRestoreUser

UserSwitched ==
  /\ switched # <<>> /\ switched' = Tail(switched) /\ at["KeyHandler"] = 0
  /\ IF Restores(Head(switched))
     THEN at' = [at EXCEPT !["KeyHandler"] = 1] /\ UNCHANGED mRestoreUser
     ELSE mRestoreUser' = TRUE /\ UNCHANGED at
  /\ UNCHANGED <<mapping, node, current, started, bootCompleted, read, change, clobbered>>

-----------------------------------------------------------------------------
(* GestureSettings.onPreferenceChange writes the node, then the mapping.   *)
onPreferenceChange(g, value) ==
  /\ change = NoChange /\ g \in Changes(current)
  /\ current \notin bootCompleted /\ at[current] = 0
  /\ node' = IF value = "disabled" THEN node \ {g} ELSE node \cup {g}
  /\ change' = <<current, g, value>> /\ clobbered' = clobbered \ {g}
  /\ UNCHANGED <<mapping, users, at, read>>

PutString ==
  /\ change # NoChange /\ change' = NoChange
  /\ mapping' = [mapping EXCEPT ![change[1]][change[2]] = change[3]]
  /\ UNCHANGED <<node, users, at, read, clobbered>>

-----------------------------------------------------------------------------
(* External: users come and go, the device reboots.                        *)
SwitchUser(u) ==
  /\ u # current /\ current' = u /\ Len(switched) < MaxSwitch
  /\ switched' = Append(switched, u)
  /\ started' = started \cup {u}
  /\ bootCompleted' = IF u \in started THEN bootCompleted ELSE bootCompleted \cup {u}
  /\ UNCHANGED <<mapping, node, mRestoreUser, at, read, change, clobbered>>

StopUser(u) ==
  /\ u \in started \ {"system", current} /\ change = NoChange
  /\ started' = started \ {u} /\ bootCompleted' = bootCompleted \ {u}
  /\ at' = [at EXCEPT ![u] = 0] /\ read' = [read EXCEPT ![u] = "none"]
  /\ UNCHANGED <<mapping, node, current, switched, mRestoreUser, change, clobbered>>

Reboot ==
  /\ node' = {} /\ change' = NoChange
  /\ current' = "system" /\ started' = {"system"}
  /\ bootCompleted' = {"system"} /\ switched' \in AtBoot
  /\ mRestoreUser' = FALSE /\ clobbered' = {}
  /\ at' = [r \in Restorer |-> 0] /\ read' = [r \in Restorer |-> "none"]
  /\ UNCHANGED mapping

Next ==
  \/ \E u \in User : onReceive(u) \/ SwitchUser(u) \/ StopUser(u)
  \/ \E r \in Restorer, g \in Gesture : GetString(r, g) \/ PutDefault(r, g) \/ restore(r, g)
  \/ \E g \in Gesture, value \in Mapping \ {""} : onPreferenceChange(g, value)
  \/ UserSwitched \/ PutString \/ Reboot

Spec == Init /\ [][Next]_vars

-----------------------------------------------------------------------------
TypeOK ==
  /\ mapping \in [User -> [Gesture -> Mapping]] /\ node \subseteq Gesture
  /\ current \in started /\ started \subseteq User /\ bootCompleted \subseteq started
  /\ switched \in Seq(User) /\ Len(switched) <= MaxSwitch
  /\ at \in [Restorer -> 0..2] /\ read \in [Restorer -> Mapping \cup {"none"}]
  /\ change \in {NoChange} \cup (User \X Gesture \X (Mapping \ {""}))
  /\ mRestoreUser \in BOOLEAN /\ clobbered \subseteq Gesture

(* With the system user back, every broadcast received and every restore   *)
(* at its end, the panel reports the gestures which that user has mapped,  *)
(* whatever guests did in between, in any interleaving of the restores of  *)
(* three processes and the settings.  Excepted is a gesture whose node was *)
(* last written by Startup for a guest who had already left, or by a       *)
(* restore that came into a change of its mapping.                         *)
SystemUserGetsOwnGestures ==
  /\ current = "system" /\ "system" \notin bootCompleted /\ switched = <<>>
  /\ change = NoChange /\ at["system"] = 0 /\ at["KeyHandler"] = 0
  => \A g \in Gesture \ clobbered : g \in node <=> Enabled(mapping["system"][g])

=============================================================================
