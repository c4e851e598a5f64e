------------------------------ MODULE GptDisk ------------------------------
(***************************************************************************)
(* The gpt_disk handle of gpt-utils/gpt-utils.cpp: a snapshot of the GPT   *)
(* of one disk that its user (the boot control HAL, external) edits and    *)
(* writes back:  gpt_disk_alloc, gpt_disk_get_disk_info,                   *)
(* gpt_disk_get_pentry, gpt_disk_update_crc, gpt_disk_commit and           *)
(* gpt_disk_free.  Nothing locks the disk between two handles, nothing     *)
(* checks a CRC when the snapshot is taken, and commit does not fsync.     *)
(*                                                                         *)
(* A table is its entries array and, in the header, the CRC of an entries  *)
(* array, represented by the array it was computed over.                   *)
(***************************************************************************)
EXTENDS Naturals, FiniteSets

CONSTANTS
  Handle,        \* handles of the users of the library
  Part,          \* partitions; an entry is abstracted to one attribute bit
  Null,          \* a NULL pointer in the handle
  MaxSession,    \* bound: handles allocated
  MaxPowerLoss,  \* bound: power losses
  MaxFault       \* bound: failing system calls

Bit == {0, 1}
Array == [Part -> Bit]
Unknown == 2

ASSUME DiskAssumption ==
  /\ {MaxSession, MaxPowerLoss, MaxFault} \subseteq Nat
  /\ Null \notin Array /\ "hdr" \notin Part

Copy == {"primary", "secondary"}        \* enum gpt_instance
Table == [hdr : Array, ent : Array]     \* hdr: the array its CRC covers
Valid(t) == t.hdr = t.ent
Block == Copy \X ({"hdr"} \cup Part)

Disk == [hdr : Array \cup {Null}, hdr_bak : Array \cup {Null},
         pentry_arr : Array \cup {Null}, pentry_arr_bak : Array \cup {Null}]
NullDisk == [hdr |-> Null, hdr_bak |-> Null,
             pentry_arr |-> Null, pentry_arr_bak |-> Null]

VARIABLES
  medium,    \* per copy, the table a power loss leaves
  cache,     \* per copy, the table the page cache holds
  dirty,     \* blocks of the cache that are not on the medium
  disk,      \* per handle, its struct gpt_disk
  pc,        \* per handle, the next step of its user
  edits,     \* per handle, the entries its user has changed
  sessions, losses, faults,   \* bounds
  promised,  \* ghost: the entries as the returned commits left them
  overlap    \* ghost: two handles have been in use at once

tables == <<medium, cache, dirty>>
bounds == <<sessions, losses, faults>>
vars == <<tables, disk, pc, edits, bounds, promised, overlap>>

Init ==
  /\ \E a \in Array : medium = [c \in Copy |-> [hdr |-> a, ent |-> a]]
  /\ cache = medium /\ dirty = {}
  /\ disk = [h \in Handle |-> NullDisk]
  /\ pc = [h \in Handle |-> "free"]
  /\ edits = [h \in Handle |-> {}]
  /\ sessions = 0 /\ losses = 0 /\ faults = 0
  /\ promised = medium["primary"].ent /\ overlap = FALSE

Goto(h, step) == pc' = [pc EXCEPT ![h] = step]

gpt_disk_alloc(h) ==
  /\ pc[h] = "free" /\ sessions < MaxSession
  /\ disk' = [disk EXCEPT ![h] = NullDisk]
  /\ edits' = [edits EXCEPT ![h] = {}]
  /\ Goto(h, "hdr")
  /\ sessions' = sessions + 1
  /\ overlap' = (overlap \/ \E g \in Handle : pc[g] # "free")
  /\ UNCHANGED <<tables, losses, faults, promised>>

(* gpt_disk_get_disk_info: four reads through the page cache.  The backup  *)
(* header is read with PRIMARY_GPT, and its entries where that header says *)
(* they are: also in the primary table.                                    *)
\* Mutant: header and entries are taken from the secondary GPT.
ReadFromSecondary == "secondary"
ReadFrom == "primary"

ReadInfo(h) ==
  LET Fill(field, value, next) ==
        /\ pc[h] = field
        /\ disk' = [disk EXCEPT ![h][field] = value]
        /\ Goto(h, next)
  IN
  /\ \/ Fill("hdr", cache[ReadFrom].hdr, "hdr_bak")
     \/ Fill("hdr_bak", cache[ReadFrom].hdr, "pentry_arr")
     \/ Fill("pentry_arr", cache[ReadFrom].ent, "pentry_arr_bak")
     \/ Fill("pentry_arr_bak", cache[ReadFrom].ent, "edit")
  /\ UNCHANGED <<tables, edits, bounds, promised, overlap>>

(* The user changes an entry in both arrays, through the pointers that     *)
(* gpt_disk_get_pentry returns for the two instances.                      *)
gpt_disk_get_pentry(h, p, v) ==
  /\ pc[h] \in {"edit", "update_crc"} /\ p \notin edits[h]
  /\ disk' = [disk EXCEPT ![h].pentry_arr[p] = v, ![h].pentry_arr_bak[p] = v]
  /\ edits' = [edits EXCEPT ![h] = @ \cup {p}]
  /\ Goto(h, "update_crc")
  /\ UNCHANGED <<tables, bounds, promised, overlap>>

\* Mutant: only the CRC of the backup array is recomputed.
UpdateBackupCrcOnly(h) ==
  /\ pc[h] = "update_crc"
  /\ disk' = [disk EXCEPT ![h].hdr_bak = disk[h].pentry_arr_bak]
  /\ Goto(h, "set_header")
  /\ UNCHANGED <<tables, edits, bounds, promised, overlap>>
gpt_disk_update_crc(h) ==
  /\ pc[h] = "update_crc"
  /\ disk' = [disk EXCEPT ![h].hdr = disk[h].pentry_arr,
                          ![h].hdr_bak = disk[h].pentry_arr_bak]
  /\ Goto(h, "set_header")
  /\ UNCHANGED <<tables, edits, bounds, promised, overlap>>

(* gpt_disk_commit: the primary header, then the primary entries.          *)
\* Mutant: both headers are written before the entries.
CommitBothHeaders(h) ==
  /\ pc[h] = "set_header"
  /\ cache' = [cache EXCEPT !["primary"].hdr = disk[h].hdr,
                            !["secondary"].hdr = disk[h].hdr_bak]
  /\ dirty' = dirty \cup (Copy \X {"hdr"})
  /\ Goto(h, "set_pentry_arr")
  /\ UNCHANGED <<medium, disk, edits, bounds, promised, overlap>>
\* Mutant: a handle that is not initialized is not refused.
CommitUninitialized(h) ==
  /\ pc[h] \in {"hdr", "set_header"}
  /\ cache' = [cache EXCEPT !["primary"].hdr = disk[h].hdr]
  /\ dirty' = dirty \cup {<<"primary", "hdr">>}
  /\ Goto(h, "set_pentry_arr")
  /\ UNCHANGED <<medium, disk, edits, bounds, promised, overlap>>
CommitHeader(h) ==
  /\ pc[h] = "set_header"
  /\ cache' = [cache EXCEPT !["primary"].hdr = disk[h].hdr]
  /\ dirty' = dirty \cup {<<"primary", "hdr">>}
  /\ Goto(h, "set_pentry_arr")
  /\ UNCHANGED <<medium, disk, edits, bounds, promised, overlap>>

CommitEntries(h) ==
  /\ pc[h] = "set_pentry_arr"
  /\ cache' = [cache EXCEPT !["primary"].ent = disk[h].pentry_arr]
  /\ dirty' = dirty \cup ({"primary"} \X Part)
  /\ promised' = [p \in Part |-> IF p \in edits[h] THEN disk[h].pentry_arr[p]
                                                   ELSE promised[p]]
  /\ Goto(h, "committed")
  /\ UNCHANGED <<medium, disk, edits, bounds, overlap>>

(* A system call fails: the library returns -1 and its user gives up.      *)
Fail(h) ==
  /\ pc[h] \in {"hdr", "hdr_bak", "pentry_arr", "pentry_arr_bak", "set_header",
                "set_pentry_arr"}
  /\ faults < MaxFault
  /\ faults' = faults + 1
  /\ Goto(h, "failed")
  /\ UNCHANGED <<tables, disk, edits, sessions, losses, promised, overlap>>

gpt_disk_free(h) ==
  /\ pc[h] \in {"committed", "failed"}
  /\ Goto(h, "free")
  /\ disk' = [disk EXCEPT ![h] = NullDisk]
  /\ edits' = [edits EXCEPT ![h] = {}]
  /\ UNCHANGED <<tables, bounds, promised, overlap>>

(* The kernel writes one block back, the entries sector by sector.         *)
Writeback(c, b) ==
  /\ <<c, b>> \in dirty
  /\ medium' = IF b = "hdr" THEN [medium EXCEPT ![c].hdr = cache[c].hdr]
                            ELSE [medium EXCEPT ![c].ent[b] = cache[c].ent[b]]
  /\ dirty' = dirty \ {<<c, b>>}
  /\ UNCHANGED <<cache, disk, pc, edits, bounds, promised, overlap>>

(* Power is lost: commits in the page cache are kept or lost entry by      *)
(* entry, so nothing is promised any more of the entries in flight.        *)
PowerLoss ==
  /\ losses < MaxPowerLoss
  /\ losses' = losses + 1
  /\ cache' = medium /\ dirty' = {}
  /\ disk' = [h \in Handle |-> NullDisk]
  /\ pc' = [h \in Handle |-> "free"]
  /\ edits' = [h \in Handle |-> {}]
  /\ promised' = [p \in Part |-> IF <<"primary", p>> \in dirty THEN Unknown
                                                             ELSE promised[p]]
  /\ UNCHANGED <<medium, sessions, faults, overlap>>

Next ==
  \/ \E h \in Handle :
       \/ gpt_disk_alloc(h) \/ ReadInfo(h)
       \/ \E p \in Part, v \in Bit : gpt_disk_get_pentry(h, p, v)
       \/ gpt_disk_update_crc(h) \/ CommitHeader(h) \/ CommitEntries(h)
       \/ Fail(h) \/ gpt_disk_free(h)
  \/ \E c \in Copy, b \in {"hdr"} \cup Part : Writeback(c, b)
  \/ PowerLoss

Spec == Init /\ [][Next]_vars

-----------------------------------------------------------------------------
TypeOK ==
  /\ medium \in [Copy -> Table] /\ cache \in [Copy -> Table]
  /\ dirty \subseteq Block
  /\ disk \in [Handle -> Disk]
  /\ pc \in [Handle -> {"free", "hdr", "hdr_bak", "pentry_arr", "pentry_arr_bak",
                        "edit", "update_crc", "set_header", "set_pentry_arr",
                        "committed", "failed"}]
  /\ edits \in [Handle -> SUBSET Part]
  /\ sessions \in Nat /\ losses \in Nat /\ faults \in Nat
  /\ promised \in [Part -> Bit \cup {Unknown}] /\ overlap \in BOOLEAN

(* Whatever handles do at the same time, whatever fails, and at whatever   *)
(* moment power is lost in the middle of a commit, one of the two tables   *)
(* on the medium is valid.                                                 *)
PowerLossLeavesATable == \E c \in Copy : Valid(medium[c])

(* A commit that has returned 0 and reached the medium leaves a valid      *)
(* primary table with the user's array, also when an interrupted or failed *)
(* commit before it had left header and entries that did not match.        *)
CommitMakesValid ==
  \A h \in Handle : pc[h] = "committed" /\ dirty = {} /\ ~overlap =>
    Valid(medium["primary"]) /\ medium["primary"].ent = disk[h].pentry_arr

(* As long as handles are used one after the other, no commit undoes what  *)
(* an earlier commit that returned 0 has written to another entry.         *)
NoLostUpdate ==
  ~overlap => \A p \in Part :
    promised[p] # Unknown => cache["primary"].ent[p] = promised[p]

-----------------------------------------------------------------------------
(* gpt-utils.h:119: hdr_bak of the handle is the "GPT backup header", the  *)
(* one of the secondary GPT.  (Refuted by a run: after a commit, which     *)
(* writes the primary GPT only, the two differ.)                           *)
BackupHeaderIsBackup ==
  \A h \in Handle : pc[h] = "edit" /\ ~overlap => disk[h].hdr_bak = cache["secondary"].hdr

=============================================================================
