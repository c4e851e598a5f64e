--------------------------- MODULE FailsafeUpdate ---------------------------
(***************************************************************************)
(* The failsafe update of the boot-critical partitions in                  *)
(* gpt-utils/gpt-utils.cpp.  prepare_boot_update(stage) walks the LUNs     *)
(* that hold boot-critical partitions and, per LUN, prepare_partitions     *)
(* switches the boot chain by rewriting the secondary GPT and corrupting   *)
(* or repairing one byte of a GPT header.  There is no other record of the *)
(* progress of an update: the stage is inferred from the two headers.      *)
(*                                                                         *)
(* Writes go through the page cache: `cache' is what a read returns,       *)
(* `disk' is what a power loss leaves, and the only fsync is at the exit   *)
(* of prepare_partitions.  blk_rw takes a short write for a whole one; a   *)
(* header is one block of the device, only the entries can be cut.         *)
(*                                                                         *)
(* The list of LUNs, which prepare_boot_update builds from symbolic links, *)
(* is a constant.  External to the repository: the boot loader (which      *)
(* table it uses), the kernel's writeback, the tables before the update,   *)
(* and the updater that calls the stages and writes the images between.    *)
(***************************************************************************)
EXTENDS Naturals, FiniteSets

CONSTANTS
  Lun,           \* block devices with boot-critical partitions (lun_list)
  Unusual,       \* those that may start with a damaged table, or without
                 \* "name" / "namebak" pairs of partitions
  Xbl,           \* the XBL image, which lives outside the GPT-switched LUNs
  UsesXbl,       \* a UFS target with both xbl and xblbak
  SyncWrites,    \* sectors reach the medium in program order
  ShortWrites,   \* a write of the entries may write a part of them
  AnyOrder,      \* the updater may call the stages in any order
  MaxPowerLoss,  \* bound: power losses
  MaxFault       \* bound: failing system calls

ASSUME ConfigAssumption ==
  /\ Unusual \subseteq Lun
  /\ Xbl \notin Lun
  /\ {UsesXbl, SyncWrites, ShortWrites, AnyOrder} \subseteq BOOLEAN
  /\ {MaxPowerLoss, MaxFault} \subseteq Nat

Main == 1       \* enum boot_update_stage
Backup == 2
Finalize == 3
Stage == {Main, Backup, Finalize}

Chain == {"primary", "backup"}      \* the two copies of every image
Content == {"old", "torn", "new"}   \* an image: "torn" while it is written
Unit == IF UsesXbl THEN Lun \cup {Xbl} ELSE Lun

(***************************************************************************)
(* The GPT of one LUN.  primary / secondary: enum gpt_state of the header. *)
(* pentries: the primary entries match the CRC in the primary header.      *)
(* pairs: gpt_boot_chain_swap finds partitions with a backup in them.      *)
(* secCrc, sentries: which entries array the secondary header's CRC was    *)
(* computed over, and which array is there ("torn": part of two arrays).   *)
(***************************************************************************)
HeaderState == {"ok", "bad_signature", "bad_crc"}
Table == [primary   : HeaderState,
          pentries  : {"intact", "damaged"},
          pairs     : BOOLEAN,
          secondary : HeaderState,
          secCrc    : {"normal", "swapped"},
          sentries  : {"normal", "swapped", "torn"}]
Block == {"primaryHeader", "secondaryHeader", "secondaryEntries"}

VARIABLES
  disk,      \* per LUN, the table a power loss leaves behind
  cache,     \* per LUN, the table blk_rw reads and writes
  dirty,     \* per LUN, the blocks of the cache not yet on the medium
  bootLun,   \* the chain of the XBL boot LUN (A = primary, B = backup)
  img,       \* per unit and chain, the content of the boot images
  pc, stage, todo, lun, r, isError,          \* the call in progress
  alive, plan, grant, written, done,         \* the updater
  losses, faults,                            \* bounds
  exposed,   \* ghost: power was lost with unordered blocks in flight
  cut        \* ghost: a short write was taken for a whole one

mediaVars == <<disk, cache, dirty>>
callVars == <<pc, stage, todo, lun, r, isError>>
updaterVars == <<alive, plan, grant, written, done>>
boundVars == <<losses, faults, exposed, cut>>
vars == <<mediaVars, bootLun, img, callVars, updaterVars, boundVars>>

-----------------------------------------------------------------------------
(* What the boot loader makes of a table: it takes the primary GPT if its  *)
(* header and entries are valid, else the secondary one; the partitions a  *)
(* swapped table names are the backup copies.                              *)
PrimaryUsable(t) == t.primary = "ok" /\ t.pentries = "intact"
SecondaryUsable(t) == t.secondary = "ok" /\ t.secCrc = t.sentries
Live(t) ==
  CASE PrimaryUsable(t)   -> "primary"
    [] ~PrimaryUsable(t) /\ SecondaryUsable(t) ->
         (IF t.sentries = "swapped" THEN "backup" ELSE "primary")
    [] OTHER              -> "none"

BootsFrom(u) == IF u \in Lun THEN Live(disk[u]) ELSE bootLun
Bootable(u) == BootsFrom(u) \in Chain /\ img[u][BootsFrom(u)] # "torn"

HealthyTable == [primary |-> "ok", pentries |-> "intact", pairs |-> TRUE,
                 secondary |-> "ok", secCrc |-> "normal", sentries |-> "normal"]
(* A header whose CRC does not match, primary entries a power loss tore    *)
(* during gpt_disk_commit, or a LUN without backup partitions.             *)
UnusualTable == {[HealthyTable EXCEPT !.primary = "bad_crc"],
                 [HealthyTable EXCEPT !.secondary = "bad_crc"],
                 [HealthyTable EXCEPT !.pentries = "damaged"],
                 [HealthyTable EXCEPT !.pairs = FALSE]}

Init ==
  /\ disk \in [Lun -> {HealthyTable} \cup UnusualTable]
  /\ \A l \in Lun \ Unusual : disk[l] = HealthyTable
  /\ cache = disk
  /\ dirty = [l \in Lun |-> {}]
  /\ bootLun = "primary"
  /\ img = [u \in Unit |-> [c \in Chain |-> "old"]]
  /\ pc = "idle" /\ stage = Main /\ todo = {} /\ lun \in Lun
  /\ r = "ok" /\ isError = FALSE
  /\ alive = TRUE /\ plan = Main /\ grant = "none" /\ written = {}
  /\ done = FALSE
  /\ losses = 0 /\ faults = 0 /\ exposed = FALSE /\ cut = FALSE

-----------------------------------------------------------------------------
(* The updater: it may start a stage when the images the stage will boot   *)
(* from are complete, and it rewrites a copy only under the return of the  *)
(* stage that takes this copy out of use.                                  *)
Complete(c) == \A u \in Unit : img[u][c] = "new"
Allowed(s) == /\ s = Backup => Complete("primary")
              /\ s = Finalize => Complete("primary") /\ Complete("backup")

Call(s) ==                                     \* prepare_boot_update(s)
  /\ alive /\ ~done /\ pc = "idle"
  /\ AnyOrder \/ s = plan
  /\ Allowed(s)
  /\ pc' = "next" /\ stage' = s /\ todo' = Lun /\ isError' = FALSE
  /\ grant' = "none" /\ written' = {}
  /\ UNCHANGED <<mediaVars, bootLun, img, lun, r, alive, plan, done, boundVars>>

Restart ==                 \* the next stage is not allowed: run the script again
  /\ alive /\ ~done /\ pc = "idle"
  /\ grant = "none" \/ (written = Unit /\ Complete(grant))
  /\ ~Allowed(plan)
  /\ plan' = Main
  /\ UNCHANGED <<mediaVars, bootLun, img, callVars, alive, grant, written, done,
                 boundVars>>

BeginImage(u) ==
  /\ alive /\ pc = "idle" /\ grant # "none" /\ u \notin written
  /\ img' = [img EXCEPT ![u][grant] = "torn"]
  /\ written' = written \cup {u}
  /\ UNCHANGED <<mediaVars, bootLun, callVars, alive, plan, grant, done, boundVars>>

EndImage(u) ==
  /\ alive /\ pc = "idle" /\ grant # "none" /\ u \in written
  /\ img[u][grant] = "torn"
  /\ img' = [img EXCEPT ![u][grant] = "new"]
  /\ UNCHANGED <<mediaVars, bootLun, callVars, updaterVars, boundVars>>

-----------------------------------------------------------------------------
(* prepare_boot_update: the loop over the LUNs, and its return.            *)
NextLun(l) ==
  /\ pc = "next" /\ l \in todo
  /\ todo' = todo \ {l} /\ lun' = l /\ r' = "ok" /\ pc' = "check"
  /\ UNCHANGED <<mediaVars, bootLun, img, stage, isError, updaterVars, boundVars>>

Granted(s) == CASE s = Main -> "primary" [] s = Backup -> "backup"
                [] s = Finalize -> "none"

\* Mutant: the script counts on after the last stage.
NextStageUnbounded(s) == s + 1
NextStage(s) == IF s = Finalize THEN Main ELSE s + 1

Return ==
  /\ pc = "next" /\ todo = {}
  /\ pc' = "idle"
  /\ grant' = IF isError THEN "none" ELSE Granted(stage)
  /\ done' = (stage = Finalize /\ ~isError)
  /\ plan' = NextStage(stage)
  /\ UNCHANGED <<mediaVars, bootLun, img, stage, todo, lun, r, isError, alive,
                 written, boundVars>>

-----------------------------------------------------------------------------
(* prepare_partitions(stage, lun), one step per system call that matters.  *)

InternalStage(t) ==
  CASE t.primary = "ok" /\ t.secondary = "ok" -> Main
    [] t.primary = "bad_signature"            -> Backup
    [] OTHER                                  -> Finalize

\* Mutant: a stage that is already set is refused.
VerdictStrict(t, s) ==
  IF "bad_crc" \notin {t.primary, t.secondary} /\ s = InternalStage(t)
  THEN "go" ELSE "abort"
\* Mutant: the stage after the one in progress counts as already set.
VerdictEarly(t, s) ==
  CASE s = InternalStage(t)     -> "go"
    [] s = InternalStage(t) + 1 -> "already"
    [] OTHER                    -> "abort"
Verdict(t, s) ==
  IF \/ "bad_crc" \in {t.primary, t.secondary}
     \/ t.primary = "bad_signature" /\ t.secondary = "bad_signature"
     \/ s \notin {InternalStage(t) - 1, InternalStage(t)}
  THEN "abort"
  ELSE IF s = InternalStage(t) THEN "go" ELSE "already"

\* Mutant: MAIN corrupts the primary header without switching the chain.
FirstWriteSwapped(s) == "setPrimary"
\* Mutant: the secondary entries are rewritten under the old header CRC.
FirstWriteNoHeader(s) == IF s = Backup THEN "setPrimary" ELSE "setEntries"
FirstWrite(s) == IF s = Backup THEN "setPrimary" ELSE "setHeader"

Check ==
  /\ pc = "check"
  /\ LET v == Verdict(cache[lun], stage) IN
     /\ r' = IF v = "abort" THEN "err" ELSE r
     /\ pc' = CASE v # "go" -> "sync"
                [] v = "go" /\ UsesXbl /\ stage # Finalize -> "xbl"
                [] OTHER -> FirstWrite(stage)
  /\ UNCHANGED <<mediaVars, bootLun, img, stage, todo, lun, isError, updaterVars,
                 boundVars>>

\* Mutant: both stages switch to the backup LUN.
XblBootLunSame(s) == "backup"
XblBootLun(s) == IF s = Main THEN "backup" ELSE "primary"

(* gpt_utils_set_xbl_boot_partition: an ioctl on the UFS device, not a     *)
(* write through the page cache.                                           *)
SetXblBootPartition ==
  /\ pc = "xbl"
  /\ bootLun' = XblBootLun(stage)
  /\ pc' = FirstWrite(stage)
  /\ UNCHANGED <<mediaVars, img, stage, todo, lun, r, isError, updaterVars, boundVars>>

(* blk_rw with rw # 0: block b of the LUN takes its value in table t.      *)
Write(b, t) ==
  /\ SyncWrites => dirty[lun] = {}
  /\ cache' = [cache EXCEPT ![lun] = t]
  /\ dirty' = [dirty EXCEPT ![lun] = @ \cup {b}]
  /\ UNCHANGED disk

Entries(s) == IF s = Main THEN "swapped" ELSE "normal"

(* gpt2_set_boot_chain up to the write of the secondary header.            *)
SetChainHeader ==
  /\ pc = "setHeader"
  /\ LET t == cache[lun] IN
     \/ /\ t.pentries = "damaged"
        /\ r' = "err" /\ pc' = "sync" /\ UNCHANGED mediaVars
     \/ /\ t.pentries = "intact" /\ stage = Main /\ ~t.pairs
        /\ pc' = "sync" /\ UNCHANGED <<r, mediaVars>>
     \/ /\ t.pentries = "intact" /\ (stage = Main => t.pairs)
        /\ Write("secondaryHeader", [t EXCEPT !.secCrc = Entries(stage)])
        /\ pc' = "setEntries" /\ UNCHANGED r
  /\ UNCHANGED <<bootLun, img, stage, todo, lun, isError, updaterVars, boundVars>>

WriteEntries(entries) ==
  /\ pc = "setEntries"
  /\ Write("secondaryEntries", [cache[lun] EXCEPT !.sentries = entries])
  /\ pc' = IF stage = Main THEN "setPrimary" ELSE "setSecondary"
  /\ UNCHANGED <<bootLun, img, stage, todo, lun, r, isError, updaterVars, losses, exposed>>

SetChainEntries == WriteEntries(Entries(stage)) /\ UNCHANGED <<faults, cut>>

(* write() writes less than it was asked to, and blk_rw returns 0.         *)
ShortWrite ==
  /\ ShortWrites /\ faults < MaxFault
  /\ WriteEntries(IF cache[lun].sentries = Entries(stage) THEN Entries(stage) ELSE "torn")
  /\ faults' = faults + 1 /\ cut' = TRUE

(* gpt_set_state(fd, PRIMARY_GPT, ...)                                     *)
SetPrimaryState ==
  /\ pc = "setPrimary"
  /\ Write("primaryHeader", [cache[lun] EXCEPT
             !.primary = IF stage = Main THEN "bad_signature" ELSE "ok"])
  /\ pc' = IF stage = Main THEN "sync" ELSE "setSecondary"
  /\ UNCHANGED <<bootLun, img, stage, todo, lun, r, isError, updaterVars, boundVars>>

(* gpt_set_state(fd, SECONDARY_GPT, ...)                                   *)
SetSecondaryState ==
  /\ pc = "setSecondary"
  /\ Write("secondaryHeader", [cache[lun] EXCEPT
             !.secondary = IF stage = Backup THEN "bad_signature" ELSE "ok"])
  /\ pc' = "sync"
  /\ UNCHANGED <<bootLun, img, stage, todo, lun, r, isError, updaterVars, boundVars>>

\* Mutant: prepare_boot_update keeps the result of the last LUN only.
SyncAndCloseLastResult ==
  /\ pc = "sync" /\ dirty[lun] = {}
  /\ isError' = (r = "err")
  /\ pc' = "next"
  /\ UNCHANGED <<mediaVars, bootLun, img, stage, todo, lun, r, updaterVars, boundVars>>

(* EXIT: fsync waits for the writeback of the LUN, then close and return r. *)
SyncAndClose ==
  /\ pc = "sync" /\ dirty[lun] = {}
  /\ isError' = (isError \/ r = "err")
  /\ pc' = "next"
  /\ UNCHANGED <<mediaVars, bootLun, img, stage, todo, lun, r, updaterVars, boundVars>>

(* Any of the system calls fails: goto EXIT with r < 0.                    *)
SystemCallFails ==
  /\ pc \in {"check", "xbl", "setHeader", "setEntries", "setPrimary", "setSecondary"}
  /\ faults < MaxFault
  /\ faults' = faults + 1
  /\ r' = "err" /\ pc' = "sync"
  /\ UNCHANGED <<mediaVars, bootLun, img, stage, todo, lun, isError, updaterVars,
                 losses, exposed, cut>>

-----------------------------------------------------------------------------
(* The kernel's writeback of one block, and a power loss.                  *)
Merge(b, from, to) ==
  CASE b = "primaryHeader"    -> [to EXCEPT !.primary = from.primary]
    [] b = "secondaryHeader"  -> [to EXCEPT !.secondary = from.secondary,
                                            !.secCrc = from.secCrc]
    [] b = "secondaryEntries" -> [to EXCEPT !.sentries = from.sentries]

Writeback(l, b) ==
  /\ b \in dirty[l]
  /\ disk' = [disk EXCEPT ![l] = Merge(b, cache[l], @)]
  /\ dirty' = [dirty EXCEPT ![l] = @ \ {b}]
  /\ UNCHANGED <<cache, bootLun, img, callVars, updaterVars, boundVars>>

(* The entries array spans several sectors: some of them are written.      *)
WritebackPart(l) ==
  /\ "secondaryEntries" \in dirty[l]
  /\ disk[l].sentries \notin {"torn", cache[l].sentries}
  /\ disk' = [disk EXCEPT ![l].sentries = "torn"]
  /\ UNCHANGED <<cache, dirty, bootLun, img, callVars, updaterVars, boundVars>>

(* Power is lost; the device comes up again if the boot loader can boot,   *)
(* and the update script then starts from its beginning.                   *)
PowerLoss ==
  /\ alive /\ losses < MaxPowerLoss
  /\ losses' = losses + 1
  /\ exposed' = (exposed \/ (~SyncWrites /\ \E l \in Lun : dirty[l] # {}))
  /\ cache' = disk
  /\ dirty' = [l \in Lun |-> {}]
  /\ alive' = (\A u \in Unit : Bootable(u))
  /\ pc' = "idle" /\ plan' = Main /\ grant' = "none" /\ written' = {}
  /\ UNCHANGED <<disk, bootLun, img, stage, todo, lun, r, isError, done, faults, cut>>

-----------------------------------------------------------------------------
Program ==
  \/ \E l \in Lun : NextLun(l)
  \/ Return \/ Check \/ SetXblBootPartition
  \/ SetChainHeader \/ SetChainEntries
  \/ SetPrimaryState \/ SetSecondaryState
  \/ SyncAndClose

Kernel == \E l \in Lun : WritebackPart(l) \/ \E b \in Block : Writeback(l, b)

Updater ==
  \/ \E s \in Stage : Call(s)
  \/ Restart
  \/ \E u \in Unit : BeginImage(u) \/ EndImage(u)

Next == Program \/ Kernel \/ Updater \/ SystemCallFails \/ ShortWrite \/ PowerLoss

Spec == Init /\ [][Next]_vars

(* The program runs until it returns, dirty pages are written back, and    *)
(* the updater keeps working through its script.                           *)
FairSpec == /\ Spec
            /\ WF_vars(Program)
            /\ WF_vars(\E l \in Lun, b \in Block : Writeback(l, b))
            /\ WF_vars(Updater)

-----------------------------------------------------------------------------
TypeOK ==
  /\ disk \in [Lun -> Table] /\ cache \in [Lun -> Table]
  /\ dirty \in [Lun -> SUBSET Block]
  /\ bootLun \in Chain
  /\ img \in [Unit -> [Chain -> Content]]
  /\ pc \in {"idle", "next", "check", "xbl", "setHeader", "setEntries",
             "setPrimary", "setSecondary", "sync"}
  /\ stage \in Stage /\ todo \subseteq Lun /\ lun \in Lun
  /\ r \in {"ok", "err"} /\ isError \in BOOLEAN
  /\ alive \in BOOLEAN /\ plan \in Stage /\ grant \in Chain \cup {"none"}
  /\ written \subseteq Unit /\ done \in BOOLEAN
  /\ losses \in Nat /\ faults \in Nat /\ exposed \in BOOLEAN /\ cut \in BOOLEAN

Settled(l) == SyncWrites \/ dirty[l] = {}

(* At every moment at which power may be lost -- with writes in program    *)
(* order that is every step of every call, otherwise the moments at which  *)
(* nothing of the LUN is in flight -- the boot loader finds a usable GPT   *)
(* and the images it names are complete -- unless a write of the entries   *)
(* was short.                                                              *)
SurvivesPowerLoss ==
  ~exposed /\ ~cut => \A l \in Lun : disk[l].pairs /\ Settled(l) => Bootable(l)

(* While the updater may overwrite one copy of the images, because the     *)
(* stage that takes it out of use has returned 0, no switched LUN boots    *)
(* from that copy (hence also: all of them boot from the same one).        *)
GrantedCopyNotLive ==
  ~exposed /\ ~cut /\ grant # "none" =>
    \A l \in Lun : disk[l].pairs => Live(disk[l]) # grant

(* For XBL: the backup copy is written only with boot LUN A selected.      *)
XblBackupNotLive ==
  UsesXbl /\ grant = "backup" => bootLun = "primary"

(* When FINALIZE has returned 0 the redundancy is back: on the medium both *)
(* tables of every LUN are usable and name the primary copies, all images  *)
(* are the new ones, and XBL boots from LUN A.  (After a short write of    *)
(* the entries that blk_rw did not report: but for the secondary tables.)  *)
FinalizedIsRedundant ==
  done => /\ \A l \in Lun : /\ PrimaryUsable(disk[l])
                            /\ cut \/ (SecondaryUsable(disk[l]) /\ disk[l].sentries = "normal")
          /\ \A u \in Unit, c \in Chain : img[u][c] = "new"
          /\ bootLun = "primary"

(* A table on the medium never names the secondary entries as usable while *)
(* the primary header is corrupted and the entries are still the normal    *)
(* ones: the signature byte alone must mean "boot chain switched", because *)
(* the next call infers the stage from nothing else.                       *)
SignatureTellsStage ==
  ~exposed /\ ~cut => \A l \in Lun : Settled(l) /\ disk[l].primary = "bad_signature"
                                       => Live(disk[l]) = "backup"

(* With writes in program order the update implements the abstract         *)
(* specification: a LUN's boot is switched only to complete images and a   *)
(* copy in use is never written, in the middle of a call as well.          *)
Ordinary == Lun \ Unusual
Promise == INSTANCE FailsafeBoot WITH
             Lun  <- Ordinary,
             live <- [l \in Ordinary |-> Live(disk[l])],
             img  <- [l \in Ordinary |-> img[l]]
ImplementsPromise == Promise!Spec

(* An update whose power losses and failing calls come to an end is        *)
(* finished: a script that runs the stages in order, again from the start  *)
(* after a power loss, gets FINALIZE to return 0.                          *)
Completes == <>done

-----------------------------------------------------------------------------
(* gpt-utils.cpp:773 and :780 call two bad headers an "unexpected and      *)
(* unacceptable" combination: no state the medium comes to rest in has     *)
(* both.  (Refuted by a run: one power loss is enough.)                    *)
NeverBothBad ==
  \A l \in Lun : dirty[l] = {} =>
    disk[l].primary # "bad_signature" \/ disk[l].secondary # "bad_signature"

(* gpt-utils.cpp:801: a stage that is already set means "ready for         *)
(* update".  Ready for the update of the primary images means that XBL     *)
(* does not boot from its primary copy.  (Refuted by a run.)               *)
AlreadySetMeansReady ==
  UsesXbl /\ grant = "primary" => bootLun = "backup"

=============================================================================
