------------------------ MODULE FailsafeUpdateProofs ------------------------
(***************************************************************************)
(* Proofs about FailsafeUpdate, for every set of LUNs, every order of the  *)
(* stages, both kinds of writeback and any number of faults.               *)
(*                                                                         *)
(* The argument: the cached table is always one the boot loader could use  *)
(* (TableOK), a corrupted signature always comes with a switched secondary *)
(* table, and an image is torn only while the table rules its chain out    *)
(* (TornInv).  The medium agrees with the cache on every clean block       *)
(* (AgreeInv); when it is clean, or written in program order, the same is  *)
(* true of what a power loss leaves (DiskInv).                             *)
(***************************************************************************)
EXTENDS FailsafeUpdate, TLAPS

TableOK(t) ==
  /\ ~PrimaryUsable(t) => SecondaryUsable(t)
  /\ t.primary = "bad_signature" => t.pentries = "intact" /\ t.sentries = "swapped"

(* What a stage has achieved on a LUN when it returns 0 for it.            *)
After(s, t) ==
  /\ s = Main /\ t.pairs => t.primary = "bad_signature"
  /\ s = Backup => PrimaryUsable(t) /\ t.secondary = "bad_signature"
  /\ s = Finalize => PrimaryUsable(t) /\ SecondaryUsable(t)

(* The table of the current LUN at each step of prepare_partitions.        *)
StepInv ==
  LET t == cache[lun] IN
  /\ pc = "xbl" => stage # Finalize /\ Verdict(t, stage) = "go"
  /\ pc = "setHeader" => stage # Backup /\ Verdict(t, stage) = "go"
  /\ pc = "setEntries" =>
       /\ stage # Backup /\ PrimaryUsable(t) /\ t.secCrc = Entries(stage)
       /\ t.secondary = IF stage = Main THEN "ok" ELSE "bad_signature"
  /\ pc = "setPrimary" =>
       /\ stage # Finalize /\ t.pentries = "intact" /\ SecondaryUsable(t)
       /\ t.sentries = "swapped"
       /\ t.primary = IF stage = Main THEN "ok" ELSE "bad_signature"
  /\ pc = "setSecondary" =>
       /\ stage # Main /\ PrimaryUsable(t)
       /\ stage = Finalize => t.secCrc = t.sentries
  /\ pc = "sync" /\ r = "ok" => After(stage, t)

(* The LUNs the loop has finished; what the return value then grants.      *)
LoopInv ==
  /\ pc # "idle" /\ ~isError =>
       \A l \in Lun \ todo : (pc = "next" \/ l # lun) => After(stage, cache[l])
  /\ grant # "none" => /\ pc = "idle"
                       /\ \A l \in Lun :
                            After(IF grant = "primary" THEN Main ELSE Backup, cache[l])
  /\ pc # "idle" /\ stage # Main => Complete("primary")
  /\ pc # "idle" /\ stage = Finalize => Complete("backup")

TornInv ==
  \A l \in Lun :
    /\ img[l]["primary"] = "torn" /\ cache[l].pairs =>
         cache[l].primary = "bad_signature" /\ disk[l].primary = "bad_signature"
    /\ img[l]["backup"] = "torn" =>
         /\ PrimaryUsable(cache[l]) /\ cache[l].secondary = "bad_signature"
         /\ PrimaryUsable(disk[l]) /\ disk[l].secondary = "bad_signature"

AgreeInv ==
  \A l \in Lun :
    /\ cache[l].pentries = disk[l].pentries /\ cache[l].pairs = disk[l].pairs
    /\ "primaryHeader" \notin dirty[l] => cache[l].primary = disk[l].primary
    /\ "secondaryHeader" \notin dirty[l] => /\ cache[l].secondary = disk[l].secondary
                                            /\ cache[l].secCrc = disk[l].secCrc
    /\ "secondaryEntries" \notin dirty[l] => cache[l].sentries = disk[l].sentries

CleanInv == \A l \in Lun : pc \in {"idle", "next"} \/ l # lun => dirty[l] = {}

(* Writes in program order: one block in flight, and the medium stays a    *)
(* table the boot loader can use.                                          *)
DiskInv ==
  SyncWrites => \A l \in Lun :
    /\ TableOK(disk[l])
    /\ \A b, c \in dirty[l] : b = c
    /\ "secondaryEntries" \in dirty[l] => PrimaryUsable(cache[l])

Core == /\ \A l \in Lun : TableOK(cache[l])
        /\ StepInv /\ LoopInv /\ TornInv /\ AgreeInv /\ CleanInv /\ DiskInv

(* Until power is lost with unordered blocks in flight, or a short write   *)
(* of the entries is taken for a whole one.                                *)
Regular == ~exposed /\ ~cut

IInv == TypeOK /\ (Regular => Core)
-----------------------------------------------------------------------------
USE DEF Main, Backup, Finalize, Stage, Chain, Content, HeaderState, Block

LEMMA LunIsUnit == Lun \subseteq Unit
BY DEF Unit

(* A table with one field written is a table, and keeps the other fields.  *)
LEMMA PrimaryWrite ==
  ASSUME NEW t \in Table, NEW v \in HeaderState, NEW n, n = [t EXCEPT !.primary = v]
  PROVE  /\ n \in Table /\ n.primary = v
         /\ n.pentries = t.pentries /\ n.pairs = t.pairs /\ n.secondary = t.secondary
         /\ n.secCrc = t.secCrc /\ n.sentries = t.sentries
BY DEF Table

LEMMA SecondaryWrite ==
  ASSUME NEW t \in Table, NEW v \in HeaderState, NEW n, n = [t EXCEPT !.secondary = v]
  PROVE  /\ n \in Table /\ n.secondary = v
         /\ n.primary = t.primary /\ n.pentries = t.pentries /\ n.pairs = t.pairs
         /\ n.secCrc = t.secCrc /\ n.sentries = t.sentries
BY DEF Table

LEMMA SecCrcWrite ==
  ASSUME NEW t \in Table, NEW v \in {"normal", "swapped"}, NEW n, n = [t EXCEPT !.secCrc = v]
  PROVE  /\ n \in Table /\ n.secCrc = v
         /\ n.primary = t.primary /\ n.pentries = t.pentries /\ n.pairs = t.pairs
         /\ n.secondary = t.secondary /\ n.sentries = t.sentries
BY DEF Table

LEMMA EntriesWrite ==
  ASSUME NEW t \in Table, NEW v \in {"normal", "swapped", "torn"}, NEW n, n = [t EXCEPT !.sentries = v]
  PROVE  /\ n \in Table /\ n.sentries = v
         /\ n.primary = t.primary /\ n.pentries = t.pentries /\ n.pairs = t.pairs
         /\ n.secondary = t.secondary /\ n.secCrc = t.secCrc
BY DEF Table

(* Writing one block back leaves a table that has this block of the cache  *)
(* and the other blocks of the medium.                                     *)
LEMMA MergeFacts ==
  ASSUME NEW b \in Block, NEW c \in Table, NEW d \in Table, NEW n,
         n = Merge(b, c, d)
  PROVE  /\ n \in Table /\ n.pentries = d.pentries /\ n.pairs = d.pairs
         /\ n.primary = IF b = "primaryHeader" THEN c.primary ELSE d.primary
         /\ n.secondary = IF b = "secondaryHeader" THEN c.secondary ELSE d.secondary
         /\ n.secCrc = IF b = "secondaryHeader" THEN c.secCrc ELSE d.secCrc
         /\ n.sentries = IF b = "secondaryEntries" THEN c.sentries ELSE d.sentries
<1>1. CASE b = "primaryHeader"
  BY <1>1 DEF Merge, Table
<1>2. CASE b = "secondaryHeader"
  BY <1>2 DEF Merge, Table
<1>3. CASE b = "secondaryEntries"
  BY <1>3 DEF Merge, Table
<1> QED BY <1>1, <1>2, <1>3

LEMMA InitTables ==
  /\ HealthyTable \in Table
  /\ UnusualTable \subseteq Table
<1>1. [HealthyTable EXCEPT !.primary = "bad_crc"] \in Table
  BY DEF HealthyTable, Table
<1>2. [HealthyTable EXCEPT !.secondary = "bad_crc"] \in Table
  BY DEF HealthyTable, Table
<1>3. [HealthyTable EXCEPT !.pentries = "damaged"] \in Table
  BY DEF HealthyTable, Table
<1>4. [HealthyTable EXCEPT !.pairs = FALSE] \in Table
  BY DEF HealthyTable, Table
<1>5. HealthyTable \in Table
  BY DEF HealthyTable, Table
<1> QED BY <1>1, <1>2, <1>3, <1>4, <1>5 DEF UnusualTable

LEMMA InitType == Init => TypeOK
<1> SUFFICES ASSUME Init PROVE TypeOK
  OBVIOUS
<1>1. disk \in [Lun -> Table] /\ cache \in [Lun -> Table]
  BY InitTables DEF Init
<1>2. img \in [Unit -> [Chain -> Content]]
  BY DEF Init
<1>3. dirty \in [Lun -> SUBSET Block]
  BY DEF Init
<1> QED BY <1>1, <1>2, <1>3 DEF Init, TypeOK

(* What a blk_rw write leaves in the cache when the block holds a table.    *)
LEMMA WriteType ==
  ASSUME TypeOK, NEW b \in Block, NEW t \in Table, Write(b, t)
  PROVE  /\ disk' = disk
         /\ cache' \in [Lun -> Table] /\ cache'[lun] = t
         /\ \A l \in Lun : l # lun => cache'[l] = cache[l] /\ dirty'[l] = dirty[l]
         /\ dirty' \in [Lun -> SUBSET Block] /\ dirty'[lun] = dirty[lun] \cup {b}
BY DEF Write, TypeOK

LEMMA NextType == TypeOK /\ [Next]_vars => TypeOK'
<1> SUFFICES ASSUME TypeOK, [Next]_vars PROVE TypeOK'
  OBVIOUS
<1> USE DEF TypeOK
<1>1. ASSUME NEW s \in Stage, Call(s) PROVE TypeOK'
  BY <1>1 DEF Call, mediaVars, boundVars
<1>2. CASE Restart
  BY <1>2 DEF Restart, mediaVars, boundVars, callVars
<1>3. ASSUME NEW u \in Unit, BeginImage(u) PROVE TypeOK'
  BY <1>3 DEF BeginImage, mediaVars, boundVars, callVars
<1>4. ASSUME NEW u \in Unit, EndImage(u) PROVE TypeOK'
  BY <1>4 DEF EndImage, mediaVars, boundVars, callVars, updaterVars
<1>5. ASSUME NEW l \in Lun, NextLun(l) PROVE TypeOK'
  BY <1>5 DEF NextLun, mediaVars, boundVars, updaterVars
<1>6. CASE Return
  BY <1>6 DEF Return, Granted, NextStage, mediaVars, boundVars
<1>7. CASE Check
  BY <1>7 DEF Check, FirstWrite, mediaVars, boundVars, updaterVars
<1>8. CASE SetXblBootPartition
  BY <1>8 DEF SetXblBootPartition, XblBootLun, FirstWrite, mediaVars, boundVars, updaterVars
<1>9. CASE SetChainHeader
  <2>1. [cache[lun] EXCEPT !.secCrc = Entries(stage)] \in Table
    BY SecCrcWrite DEF Entries
  <2> QED
    BY <1>9, <2>1, WriteType DEF SetChainHeader, mediaVars, boundVars, updaterVars
<1>10. CASE SetChainEntries
  <2>1. [cache[lun] EXCEPT !.sentries = Entries(stage)] \in Table
    BY EntriesWrite DEF Entries
  <2> QED
    BY <1>10, <2>1, WriteType DEF SetChainEntries, WriteEntries, updaterVars
<1>11. CASE SetPrimaryState
  <2>1. \A v \in HeaderState : [cache[lun] EXCEPT !.primary = v] \in Table
    BY PrimaryWrite
  <2> QED
    BY <1>11, <2>1, WriteType DEF SetPrimaryState, boundVars, updaterVars
<1>12. CASE SetSecondaryState
  <2>1. \A v \in HeaderState : [cache[lun] EXCEPT !.secondary = v] \in Table
    BY SecondaryWrite
  <2> QED
    BY <1>12, <2>1, WriteType DEF SetSecondaryState, boundVars, updaterVars
<1>13. CASE SyncAndClose
  BY <1>13 DEF SyncAndClose, mediaVars, boundVars, updaterVars
<1>14. CASE SystemCallFails
  BY <1>14 DEF SystemCallFails, mediaVars, updaterVars
<1>15. ASSUME NEW l \in Lun, NEW b \in Block, Writeback(l, b) PROVE TypeOK'
  <2>1. Merge(b, cache[l], disk[l]) \in Table
    BY MergeFacts
  <2> QED
    BY <1>15, <2>1 DEF Writeback, callVars, boundVars, updaterVars
<1>16. ASSUME NEW l \in Lun, WritebackPart(l) PROVE TypeOK'
  <2>1. [disk[l] EXCEPT !.sentries = "torn"] \in Table
    BY EntriesWrite
  <2> QED
    BY <1>16, <2>1 DEF WritebackPart, callVars, boundVars, updaterVars
<1>17. CASE PowerLoss
  BY <1>17 DEF PowerLoss
<1>18. CASE UNCHANGED vars
  BY <1>18 DEF vars, mediaVars, callVars, boundVars, updaterVars
<1>19. CASE ShortWrite
  <2>1. PICK e \in {"normal", "swapped", "torn"} : WriteEntries(e)
    BY <1>19 DEF ShortWrite, Entries
  <2>2. [cache[lun] EXCEPT !.sentries = e] \in Table
    BY EntriesWrite
  <2>3. faults' \in Nat /\ cut' \in BOOLEAN
    BY <1>19 DEF ShortWrite
  <2> QED
    BY <2>1, <2>2, <2>3, WriteType DEF WriteEntries, updaterVars
<1> QED
  BY <1>1, <1>2, <1>3, <1>4, <1>5, <1>6, <1>7, <1>8, <1>9, <1>10, <1>11, <1>12,
     <1>13, <1>14, <1>15, <1>16, <1>17, <1>18, <1>19
     DEF Next, Program, Kernel, Updater

-----------------------------------------------------------------------------
(* The strengthening holds initially and is kept by every step, as long as *)
(* no power was lost with unordered blocks in flight and no short write    *)
(* was taken for a whole one.                                              *)
LEMMA InitCore == Init => Core
<1> SUFFICES ASSUME Init PROVE Core
  OBVIOUS
<1>1. ASSUME NEW l \in Lun
      PROVE  TableOK(disk[l]) /\ cache[l] = disk[l] /\ dirty[l] = {}
  <2>1. disk[l] \in {HealthyTable} \cup UnusualTable
    BY DEF Init
  <2>2. TableOK(HealthyTable)
    BY DEF TableOK, PrimaryUsable, SecondaryUsable, HealthyTable
  <2>3. \A t \in UnusualTable : TableOK(t)
    BY DEF TableOK, PrimaryUsable, SecondaryUsable, HealthyTable, UnusualTable
  <2> QED BY <2>1, <2>2, <2>3 DEF Init
<1>2. \A l \in Lun, c \in Chain : img[l][c] # "torn"
  BY LunIsUnit DEF Init
<1>3. \A l \in Lun : TableOK(cache[l])
  BY <1>1
<1>4. StepInv /\ LoopInv /\ CleanInv
  BY <1>1 DEF Init, StepInv, LoopInv, CleanInv
<1>5. TornInv
  BY <1>2 DEF TornInv
<1>6. AgreeInv /\ DiskInv
  BY <1>1 DEF AgreeInv, DiskInv
<1> QED BY <1>3, <1>4, <1>5, <1>6 DEF Core

(* Steps that leave tables and images alone keep what is said about them.  *)
LEMMA TablesUnchanged ==
  ASSUME Core, UNCHANGED <<disk, cache, dirty, img>>
  PROVE  (\A l \in Lun : TableOK(cache[l]))' /\ TornInv' /\ AgreeInv' /\ DiskInv'
BY DEF Core, TornInv, AgreeInv, DiskInv

LEMMA CallCore ==
  ASSUME TypeOK, Core, NEW s \in Stage, Call(s) PROVE Core'
<1>1. UNCHANGED <<disk, cache, dirty, img>>
  BY DEF Call, mediaVars
<1>2. StepInv' /\ CleanInv'
  BY DEF Call, StepInv, CleanInv, Core, mediaVars
<1>3. LoopInv'
  BY DEF Call, LoopInv, Core, mediaVars, Allowed, Complete
<1> QED BY <1>1, <1>2, <1>3, TablesUnchanged DEF Core

LEMMA NextLunCore ==
  ASSUME TypeOK, Core, NEW l \in Lun, NextLun(l) PROVE Core'
<1>1. UNCHANGED <<disk, cache, dirty, img>>
  BY DEF NextLun, mediaVars
<1>2. StepInv' /\ CleanInv'
  BY DEF NextLun, StepInv, CleanInv, Core, mediaVars
<1>3. LoopInv'
  BY DEF NextLun, LoopInv, Core, mediaVars, updaterVars, Complete
<1> QED BY <1>1, <1>2, <1>3, TablesUnchanged DEF Core

LEMMA ReturnCore ==
  ASSUME TypeOK, Core, Return PROVE Core'
<1>1. UNCHANGED <<disk, cache, dirty, img>>
  BY DEF Return, mediaVars
<1>2. StepInv' /\ CleanInv'
  BY DEF Return, StepInv, CleanInv, Core, mediaVars
<1>3. ASSUME grant' # "none"
      PROVE  \A l \in Lun : After(IF grant' = "primary" THEN Main ELSE Backup, cache[l])
  <2>1. ~isError /\ grant' = Granted(stage)
    BY <1>3 DEF Return, TypeOK
  <2>2. \A l \in Lun : After(stage, cache[l])
    BY <2>1 DEF Return, Core, LoopInv
  <2>3. stage = IF grant' = "primary" THEN Main ELSE Backup
    BY <2>1, <1>3 DEF Granted, TypeOK
  <2> QED BY <2>2, <2>3
<1>4. LoopInv'
  BY <1>1, <1>3 DEF Return, LoopInv
<1> QED BY <1>1, <1>2, <1>4, TablesUnchanged DEF Core

(* The verdict of the stage check, read as a fact about the table.         *)
LEMMA VerdictFacts ==
  ASSUME NEW t \in Table, TableOK(t), NEW s \in Stage
  PROVE  /\ Verdict(t, s) = "already" => After(s, t)
         /\ Verdict(t, s) = "go" =>
              /\ s = Main => t.primary = "ok" /\ t.secondary = "ok"
              /\ s = Backup => t.primary = "bad_signature" /\ SecondaryUsable(t)
              /\ s = Finalize => t.primary = "ok" /\ t.secondary = "bad_signature"
<1> DEFINE i == InternalStage(t)
<1>1. t.primary = "ok" /\ t.secondary = "ok" => i = 1
  BY DEF InternalStage
<1>2. t.primary = "bad_signature" => i = 2
  BY DEF InternalStage
<1>3. t.primary = "ok" /\ t.secondary = "bad_signature" => i = 3
  BY DEF InternalStage
<1>4. t.primary \in HeaderState /\ t.secondary \in HeaderState
  BY DEF Table
<1>5. t.primary = "bad_signature" => SecondaryUsable(t) /\ t.secondary = "ok"
  BY DEF TableOK, PrimaryUsable, SecondaryUsable
<1>6. t.secondary = "bad_signature" => PrimaryUsable(t)
  BY DEF TableOK, SecondaryUsable
<1>7. CASE "bad_crc" \in {t.primary, t.secondary}
  BY <1>7 DEF Verdict
<1>8. CASE "bad_crc" \notin {t.primary, t.secondary}
  <2>1. Verdict(t, s) = IF s = i - 1 THEN "already"
                        ELSE IF s # i THEN "abort" ELSE "go"
    BY <1>8, <1>5 DEF Verdict
  <2>2. CASE t.primary = "bad_signature"
    BY <2>1, <2>2, <1>2, <1>5 DEF After
  <2>3. CASE t.primary = "ok" /\ t.secondary = "ok"
    BY <2>1, <2>3, <1>1 DEF After
  <2>4. CASE t.primary = "ok" /\ t.secondary = "bad_signature"
    BY <2>1, <2>4, <1>3, <1>6 DEF After
  <2> QED BY <1>4, <1>8, <2>2, <2>3, <2>4
<1> QED BY <1>7, <1>8

LEMMA CheckCore ==
  ASSUME TypeOK, Core, Check PROVE Core'
<1>1. UNCHANGED <<disk, cache, dirty, img>>
  BY DEF Check, mediaVars
<1> DEFINE t == cache[lun]
<1>2. t \in Table /\ TableOK(t) /\ lun \in Lun /\ stage \in Stage
  BY DEF TypeOK, Core
<1>3. /\ pc = "check" /\ pc' \notin {"idle", "next"}
      /\ UNCHANGED <<stage, todo, lun, isError, grant>>
  BY DEF Check, FirstWrite, updaterVars
<1>4. CleanInv' /\ LoopInv'
  BY <1>1, <1>3 DEF CleanInv, LoopInv, Core, Complete
<1>5. StepInv'
  <2>1. CASE Verdict(t, stage) = "go"
    <3>1. pc' = IF UsesXbl /\ stage # Finalize THEN "xbl" ELSE FirstWrite(stage)
      BY <2>1, ConfigAssumption DEF Check
    <3>2. stage = Backup => SecondaryUsable(t) /\ t.primary = "bad_signature"
                            /\ t.pentries = "intact" /\ t.sentries = "swapped"
      BY <1>2, <2>1, VerdictFacts DEF TableOK
    <3> QED BY <1>1, <1>2, <2>1, <3>1, <3>2 DEF Check, StepInv, FirstWrite
  <2>2. CASE Verdict(t, stage) # "go"
    <3>1. pc' = "sync" /\ (r' = "ok" => After(stage, t))
      BY <1>2, <2>2, VerdictFacts DEF Check, Verdict
    <3> QED BY <1>1, <3>1 DEF Check, StepInv
  <2> QED BY <2>1, <2>2
<1> QED BY <1>1, <1>4, <1>5, TablesUnchanged DEF Core

LEMMA XblCore ==
  ASSUME TypeOK, Core, SetXblBootPartition PROVE Core'
<1>1. UNCHANGED <<disk, cache, dirty, img>>
  BY DEF SetXblBootPartition, mediaVars
<1> DEFINE t == cache[lun]
<1>2. t \in Table /\ TableOK(t) /\ lun \in Lun /\ stage \in Stage
  BY DEF TypeOK, Core
<1>3. /\ pc = "xbl" /\ pc' \notin {"idle", "next"}
      /\ UNCHANGED <<stage, todo, lun, isError, grant>>
  BY DEF SetXblBootPartition, FirstWrite, updaterVars
<1>4. CleanInv' /\ LoopInv'
  BY <1>1, <1>3 DEF CleanInv, LoopInv, Core, Complete
<1>5. StepInv'
  <2>1. stage # Finalize /\ Verdict(t, stage) = "go" /\ pc' = FirstWrite(stage)
    BY DEF SetXblBootPartition, Core, StepInv
  <2>2. stage = Backup => SecondaryUsable(t) /\ t.primary = "bad_signature"
                          /\ t.pentries = "intact" /\ t.sentries = "swapped"
    BY <1>2, <2>1, VerdictFacts DEF TableOK
  <2> QED BY <1>1, <1>2, <2>1, <2>2 DEF SetXblBootPartition, StepInv, FirstWrite
<1> QED BY <1>1, <1>4, <1>5, TablesUnchanged DEF Core

LEMMA SyncCore ==
  ASSUME TypeOK, Core, SyncAndClose PROVE Core'
<1>1. UNCHANGED <<disk, cache, dirty, img>>
  BY DEF SyncAndClose, mediaVars
<1>2. StepInv' /\ CleanInv'
  BY DEF SyncAndClose, StepInv, CleanInv, Core, mediaVars
<1>3. ~isError' => ~isError /\ After(stage, cache[lun])
  BY DEF SyncAndClose, Core, StepInv, TypeOK
<1>4. LoopInv'
  BY <1>3 DEF SyncAndClose, LoopInv, Core, mediaVars, updaterVars, Complete, TypeOK
<1> QED BY <1>1, <1>2, <1>4, TablesUnchanged DEF Core

LEMMA SystemCallFailsCore ==
  ASSUME TypeOK, Core, SystemCallFails PROVE Core'
<1>1. UNCHANGED <<disk, cache, dirty, img>>
  BY DEF SystemCallFails, mediaVars
<1>2. StepInv' /\ CleanInv'
  BY DEF SystemCallFails, StepInv, CleanInv, Core, mediaVars
<1>3. LoopInv'
  BY DEF SystemCallFails, LoopInv, Core, mediaVars, updaterVars, Complete
<1> QED BY <1>1, <1>2, <1>3, TablesUnchanged DEF Core

LEMMA RestartCore ==
  ASSUME TypeOK, Core, Restart PROVE Core'
<1>1. UNCHANGED <<disk, cache, dirty, img, pc, stage, todo, lun, r, isError, grant>>
  BY DEF Restart, mediaVars, callVars
<1>2. StepInv' /\ CleanInv' /\ LoopInv'
  BY <1>1 DEF StepInv, CleanInv, LoopInv, Core, Complete
<1> QED BY <1>1, <1>2, TablesUnchanged DEF Core

(* Writes of prepare_partitions: the table of the current LUN changes in   *)
(* the cache only, and one block becomes dirty.                            *)
LEMMA WriteFrame ==
  ASSUME TypeOK, Core, NEW b \in Block, NEW n \in Table, Write(b, n), TableOK(n),
         UNCHANGED <<img, stage, todo, lun, isError, grant>>,
         pc \notin {"idle", "next"}, pc' \notin {"idle", "next"}
  PROVE  /\ \A l \in Lun : TableOK(cache'[l])
         /\ LoopInv' /\ CleanInv'
<1>1. /\ \A l \in Lun : l # lun => cache'[l] = cache[l] /\ dirty'[l] = dirty[l]
      /\ cache'[lun] = n /\ lun \in Lun
  BY WriteType DEF TypeOK
<1>2. \A l \in Lun : TableOK(cache'[l])
  BY <1>1 DEF Core
<1>3. CleanInv'
  BY <1>1 DEF Core, CleanInv
<1>4. LoopInv'
  BY <1>1 DEF Core, LoopInv, Complete
<1> QED BY <1>2, <1>3, <1>4

LEMMA SetChainHeaderCore ==
  ASSUME TypeOK, Core, SetChainHeader PROVE Core'
<1> DEFINE t == cache[lun]
<1> DEFINE n == [t EXCEPT !.secCrc = Entries(stage)]
<1>1. /\ t \in Table /\ TableOK(t) /\ lun \in Lun /\ stage \in {Main, Finalize}
      /\ Verdict(t, stage) = "go"
      /\ t.primary = "ok"
      /\ t.secondary = IF stage = Main THEN "ok" ELSE "bad_signature"
  <2>1. stage \in {Main, Finalize} /\ Verdict(t, stage) = "go"
    BY DEF SetChainHeader, Core, StepInv, TypeOK
  <2>2. t \in Table /\ TableOK(t) /\ lun \in Lun
    BY DEF TypeOK, Core
  <2> QED BY <2>1, <2>2, VerdictFacts
<1>2. /\ pc = "setHeader" /\ pc' \notin {"idle", "next"}
      /\ UNCHANGED <<img, stage, todo, lun, isError, grant>>
  BY DEF SetChainHeader, updaterVars
<1>3. ASSUME UNCHANGED mediaVars, pc' = "sync", r' = "ok" => After(stage, t)
      PROVE  Core'
  <2>1. UNCHANGED <<disk, cache, dirty, img>>
    BY <1>2, <1>3 DEF mediaVars
  <2>2. StepInv' /\ CleanInv' /\ LoopInv'
    BY <2>1, <1>2, <1>3 DEF StepInv, CleanInv, LoopInv, Core, Complete
  <2> QED BY <2>1, <2>2, TablesUnchanged DEF Core
<1>4. CASE t.pentries = "damaged"
  <2>1. UNCHANGED mediaVars /\ pc' = "sync" /\ r' = "err"
    BY <1>4 DEF SetChainHeader
  <2> QED BY <2>1, <1>3
<1>5. CASE t.pentries # "damaged" /\ stage = Main /\ ~t.pairs
  <2>1. UNCHANGED mediaVars /\ pc' = "sync"
    BY <1>5 DEF SetChainHeader
  <2> QED BY <2>1, <1>3, <1>5 DEF After
<1>6. CASE t.pentries = "intact" /\ (stage = Main => t.pairs)
  <2>1. Write("secondaryHeader", n) /\ pc' = "setEntries"
    BY <1>6 DEF SetChainHeader
  <2>2. /\ n \in Table /\ n.secCrc = Entries(stage)
        /\ n.primary = t.primary /\ n.pentries = t.pentries /\ n.pairs = t.pairs
        /\ n.secondary = t.secondary /\ n.sentries = t.sentries
    BY <1>1, SecCrcWrite DEF Entries
  <2>3. PrimaryUsable(n) /\ TableOK(n)
    BY <1>1, <1>6, <2>2 DEF TableOK, PrimaryUsable
  <2>4. /\ disk' = disk
        /\ cache'[lun] = n
        /\ \A l \in Lun : l # lun => cache'[l] = cache[l] /\ dirty'[l] = dirty[l]
        /\ dirty'[lun] = dirty[lun] \cup {"secondaryHeader"}
    BY <2>1, <2>2, WriteType
  <2>5. (\A l \in Lun : TableOK(cache[l]))' /\ LoopInv' /\ CleanInv'
    BY <1>2, <2>1, <2>2, <2>3, WriteFrame
  <2>6. StepInv'
    BY <1>1, <1>2, <2>1, <2>2, <2>3, <2>4 DEF StepInv
  <2>7. TornInv'
    <3>1. img[lun]["primary"] = "torn" => ~t.pairs
      BY <1>1 DEF Core, TornInv
    <3>2. img[lun]["backup"] # "torn"
      BY <1>1, <1>2, LunIsUnit DEF Core, TornInv, LoopInv, Complete
    <3> QED BY <1>2, <2>2, <2>4, <3>1, <3>2 DEF Core, TornInv
  <2>8. AgreeInv'
    BY <2>2, <2>4 DEF Core, AgreeInv
  <2>9. DiskInv'
    BY <1>1, <1>2, <2>1, <2>3, <2>4 DEF Core, DiskInv, Write
  <2> QED BY <2>5, <2>6, <2>7, <2>8, <2>9 DEF Core
<1> QED BY <1>1, <1>4, <1>5, <1>6 DEF Table

LEMMA SetChainEntriesCore ==
  ASSUME TypeOK, Core, SetChainEntries PROVE Core'
<1> DEFINE t == cache[lun]
<1> DEFINE n == [t EXCEPT !.sentries = Entries(stage)]
<1>1. /\ t \in Table /\ lun \in Lun /\ stage \in {Main, Finalize}
      /\ PrimaryUsable(t) /\ t.secCrc = Entries(stage)
      /\ t.secondary = IF stage = Main THEN "ok" ELSE "bad_signature"
  BY DEF SetChainEntries, WriteEntries, Core, StepInv, TypeOK
<1>2. /\ pc = "setEntries"
      /\ pc' = IF stage = Main THEN "setPrimary" ELSE "setSecondary"
      /\ UNCHANGED <<img, stage, todo, lun, isError, grant>>
      /\ Write("secondaryEntries", n)
  BY DEF SetChainEntries, WriteEntries, updaterVars
<1>3. /\ n \in Table /\ n.sentries = Entries(stage)
      /\ n.primary = t.primary /\ n.pentries = t.pentries /\ n.pairs = t.pairs
      /\ n.secondary = t.secondary /\ n.secCrc = t.secCrc
  BY <1>1, EntriesWrite DEF Entries
<1>4. PrimaryUsable(n) /\ TableOK(n) /\ n.primary = "ok" /\ n.pentries = "intact"
  BY <1>1, <1>3 DEF TableOK, PrimaryUsable
<1>5. /\ disk' = disk
      /\ cache'[lun] = n
      /\ \A l \in Lun : l # lun => cache'[l] = cache[l] /\ dirty'[l] = dirty[l]
      /\ dirty'[lun] = dirty[lun] \cup {"secondaryEntries"}
  BY <1>2, <1>3, WriteType
<1>6. (\A l \in Lun : TableOK(cache[l]))' /\ LoopInv' /\ CleanInv'
  BY <1>2, <1>3, <1>4, WriteFrame
<1>7. StepInv'
  <2>1. stage = Main => SecondaryUsable(n) /\ n.sentries = "swapped"
    BY <1>1, <1>3 DEF SecondaryUsable, Entries
  <2> QED BY <1>1, <1>2, <1>3, <1>4, <1>5, <2>1 DEF StepInv
<1>8. TornInv'
  <2>1. img[lun]["primary"] = "torn" => ~t.pairs
    BY <1>1 DEF Core, TornInv, PrimaryUsable
  <2>2. img[lun]["backup"] # "torn"
    BY <1>1, <1>2, LunIsUnit DEF Core, TornInv, LoopInv, Complete
  <2> QED BY <1>2, <1>3, <1>5, <2>1, <2>2 DEF Core, TornInv
<1>9. AgreeInv'
  BY <1>3, <1>5 DEF Core, AgreeInv
<1>10. DiskInv'
  BY <1>1, <1>2, <1>4, <1>5 DEF Core, DiskInv, Write
<1> QED BY <1>6, <1>7, <1>8, <1>9, <1>10 DEF Core

LEMMA SetPrimaryStateCore ==
  ASSUME TypeOK, Core, SetPrimaryState PROVE Core'
<1> DEFINE t == cache[lun]
<1> DEFINE v == IF stage = Main THEN "bad_signature" ELSE "ok"
<1> DEFINE n == [t EXCEPT !.primary = v]
<1>1. /\ t \in Table /\ lun \in Lun /\ stage \in {Main, Backup}
      /\ t.pentries = "intact" /\ SecondaryUsable(t) /\ t.sentries = "swapped"
      /\ t.primary = IF stage = Main THEN "ok" ELSE "bad_signature"
  BY DEF SetPrimaryState, Core, StepInv, TypeOK
<1>2. /\ pc = "setPrimary"
      /\ pc' = IF stage = Main THEN "sync" ELSE "setSecondary"
      /\ UNCHANGED <<img, stage, todo, lun, isError, grant>>
      /\ Write("primaryHeader", n)
  BY DEF SetPrimaryState, updaterVars
<1>3. /\ n \in Table /\ n.primary = v
      /\ n.pentries = t.pentries /\ n.pairs = t.pairs /\ n.secondary = t.secondary
      /\ n.secCrc = t.secCrc /\ n.sentries = t.sentries
  BY <1>1, PrimaryWrite
<1>4. SecondaryUsable(n) /\ TableOK(n) /\ n.pentries = "intact"
  BY <1>1, <1>3 DEF TableOK, SecondaryUsable
<1>5. /\ disk' = disk
      /\ cache'[lun] = n
      /\ \A l \in Lun : l # lun => cache'[l] = cache[l] /\ dirty'[l] = dirty[l]
      /\ dirty'[lun] = dirty[lun] \cup {"primaryHeader"}
  BY <1>2, <1>3, WriteType
<1> HIDE DEF n, v
<1>6. (\A l \in Lun : TableOK(cache[l]))' /\ LoopInv' /\ CleanInv'
  BY <1>2, <1>3, <1>4, WriteFrame
<1>7. StepInv'
  <2>1. stage = Main => After(stage, n)
    BY <1>3 DEF After, v
  <2>2. stage = Backup => PrimaryUsable(n)
    BY <1>3, <1>4 DEF PrimaryUsable, v
  <2> QED BY <1>1, <1>2, <1>5, <2>1, <2>2 DEF StepInv
<1>8. TornInv'
  <2>1. stage = Backup => img[lun]["primary"] # "torn"
    BY <1>1, <1>2, LunIsUnit DEF Core, LoopInv, Complete
  <2>2. stage = Main => (img[lun]["primary"] = "torn" => ~t.pairs)
    BY <1>1 DEF Core, TornInv
  <2>3. img[lun]["backup"] # "torn"
    BY <1>1 DEF Core, TornInv, SecondaryUsable
  <2> QED BY <1>1, <1>2, <1>3, <1>5, <2>1, <2>2, <2>3 DEF Core, TornInv
<1>9. AgreeInv'
  BY <1>3, <1>5 DEF Core, AgreeInv
<1>10. DiskInv'
  BY <1>1, <1>2, <1>4, <1>5 DEF Core, DiskInv, Write
<1> QED BY <1>6, <1>7, <1>8, <1>9, <1>10 DEF Core

LEMMA SetSecondaryStateCore ==
  ASSUME TypeOK, Core, SetSecondaryState PROVE Core'
<1> DEFINE t == cache[lun]
<1> DEFINE v == IF stage = Backup THEN "bad_signature" ELSE "ok"
<1> DEFINE n == [t EXCEPT !.secondary = v]
<1>1. /\ t \in Table /\ lun \in Lun /\ stage \in {Backup, Finalize}
      /\ PrimaryUsable(t)
      /\ stage = Finalize => t.secCrc = t.sentries
  BY DEF SetSecondaryState, Core, StepInv, TypeOK
<1>2. /\ pc = "setSecondary" /\ pc' = "sync"
      /\ UNCHANGED <<img, stage, todo, lun, isError, grant>>
      /\ Write("secondaryHeader", n)
  BY DEF SetSecondaryState, updaterVars
<1>3. /\ n \in Table /\ n.secondary = v
      /\ n.primary = t.primary /\ n.pentries = t.pentries /\ n.pairs = t.pairs
      /\ n.secCrc = t.secCrc /\ n.sentries = t.sentries
  BY <1>1, SecondaryWrite
<1>4. PrimaryUsable(n) /\ TableOK(n) /\ n.primary = "ok"
  BY <1>1, <1>3 DEF TableOK, PrimaryUsable
<1>5. /\ disk' = disk
      /\ cache'[lun] = n
      /\ \A l \in Lun : l # lun => cache'[l] = cache[l] /\ dirty'[l] = dirty[l]
      /\ dirty'[lun] = dirty[lun] \cup {"secondaryHeader"}
  BY <1>2, <1>3, WriteType
<1> HIDE DEF n, v
<1>6. (\A l \in Lun : TableOK(cache[l]))' /\ LoopInv' /\ CleanInv'
  BY <1>2, <1>3, <1>4, WriteFrame
<1>7. StepInv'
  <2>1. After(stage, n)
    BY <1>1, <1>3, <1>4 DEF After, SecondaryUsable, v
  <2> QED BY <1>1, <1>2, <1>5, <2>1 DEF StepInv
<1>8. TornInv'
  <2>1. img[lun]["primary"] = "torn" => ~t.pairs
    BY <1>1 DEF Core, TornInv, PrimaryUsable
  <2>2. stage = Finalize => img[lun]["backup"] # "torn"
    BY <1>1, <1>2, LunIsUnit DEF Core, LoopInv, Complete
  <2> QED BY <1>1, <1>2, <1>3, <1>4, <1>5, <2>1, <2>2 DEF Core, TornInv, v
<1>9. AgreeInv'
  BY <1>3, <1>5 DEF Core, AgreeInv
<1>10. DiskInv'
  BY <1>1, <1>2, <1>4, <1>5 DEF Core, DiskInv, Write
<1> QED BY <1>6, <1>7, <1>8, <1>9, <1>10 DEF Core

-----------------------------------------------------------------------------
(* The updater's writes of the images: between calls nothing is dirty, so  *)
(* what the last stage achieved in the cache it achieved on the medium.    *)
LEMMA CleanAgrees ==
  ASSUME Core, NEW l \in Lun, dirty[l] = {}
  PROVE  /\ disk[l].primary = cache[l].primary /\ disk[l].pentries = cache[l].pentries
         /\ disk[l].pairs = cache[l].pairs /\ disk[l].secondary = cache[l].secondary
         /\ disk[l].secCrc = cache[l].secCrc /\ disk[l].sentries = cache[l].sentries
         /\ TableOK(disk[l])
BY DEF Core, AgreeInv, TableOK, PrimaryUsable, SecondaryUsable

LEMMA BeginImageCore ==
  ASSUME TypeOK, Core, NEW u \in Unit, BeginImage(u) PROVE Core'
<1>1. /\ pc = "idle" /\ grant \in Chain /\ img' = [img EXCEPT ![u][grant] = "torn"]
      /\ UNCHANGED <<disk, cache, dirty, pc, stage, todo, lun, r, isError, grant>>
  BY DEF BeginImage, mediaVars, callVars, TypeOK
<1>2. (\A l \in Lun : TableOK(cache[l]))' /\ StepInv' /\ CleanInv' /\ AgreeInv' /\ DiskInv'
  BY <1>1 DEF Core, StepInv, CleanInv, AgreeInv, DiskInv
<1>3. LoopInv'
  BY <1>1 DEF Core, LoopInv
<1>4. TornInv'
  <2> SUFFICES ASSUME NEW l \in Lun
      PROVE /\ img'[l]["primary"] = "torn" /\ cache[l].pairs =>
                 cache[l].primary = "bad_signature" /\ disk[l].primary = "bad_signature"
            /\ img'[l]["backup"] = "torn" =>
                 /\ PrimaryUsable(cache[l]) /\ cache[l].secondary = "bad_signature"
                 /\ PrimaryUsable(disk[l]) /\ disk[l].secondary = "bad_signature"
    BY <1>1 DEF TornInv
  <2>1. img \in [Unit -> [Chain -> Content]] /\ l \in Unit
    BY LunIsUnit DEF TypeOK
  <2>2. \A c \in Chain : img'[l][c] = "torn" => img[l][c] = "torn" \/ c = grant
    BY <1>1, <2>1
  <2>3. dirty[l] = {} /\ After(IF grant = "primary" THEN Main ELSE Backup, cache[l])
    BY <1>1 DEF Core, CleanInv, LoopInv
  <2>4. grant = "primary" /\ cache[l].pairs =>
          cache[l].primary = "bad_signature" /\ disk[l].primary = "bad_signature"
    BY <2>3, CleanAgrees DEF After
  <2>5. grant = "backup" =>
          /\ PrimaryUsable(cache[l]) /\ cache[l].secondary = "bad_signature"
          /\ PrimaryUsable(disk[l]) /\ disk[l].secondary = "bad_signature"
    BY <2>3, CleanAgrees DEF After, PrimaryUsable
  <2> QED BY <2>2, <2>4, <2>5 DEF Core, TornInv
<1> QED BY <1>2, <1>3, <1>4 DEF Core

LEMMA EndImageCore ==
  ASSUME TypeOK, Core, NEW u \in Unit, EndImage(u) PROVE Core'
<1>1. /\ pc = "idle" /\ grant \in Chain /\ img' = [img EXCEPT ![u][grant] = "new"]
      /\ UNCHANGED <<disk, cache, dirty, pc, stage, todo, lun, r, isError, grant>>
  BY DEF EndImage, mediaVars, callVars, updaterVars, TypeOK
<1>2. (\A l \in Lun : TableOK(cache[l]))' /\ StepInv' /\ CleanInv' /\ AgreeInv' /\ DiskInv'
  BY <1>1 DEF Core, StepInv, CleanInv, AgreeInv, DiskInv
<1>3. LoopInv'
  BY <1>1 DEF Core, LoopInv
<1>4. \A l \in Lun, c \in Chain : img'[l][c] = "torn" => img[l][c] = "torn"
  BY <1>1, LunIsUnit DEF TypeOK
<1>5. TornInv'
  BY <1>1, <1>4 DEF Core, TornInv
<1> QED BY <1>2, <1>3, <1>5 DEF Core

-----------------------------------------------------------------------------
(* The kernel and the power: with one block in flight the medium moves     *)
(* from one usable table to the next; without a promise of order it is     *)
(* only known once everything is written.                                  *)
LEMMA WritebackCore ==
  ASSUME TypeOK, Core, NEW l \in Lun, NEW b \in Block, Writeback(l, b) PROVE Core'
<1> DEFINE n == disk'[l]
<1>1. /\ b \in dirty[l] /\ dirty'[l] = dirty[l] \ {b}
      /\ \A k \in Lun : k # l => disk'[k] = disk[k] /\ dirty'[k] = dirty[k]
      /\ UNCHANGED <<cache, img, pc, stage, todo, lun, r, isError, grant>>
  BY DEF Writeback, callVars, updaterVars, TypeOK
<1>2. n = Merge(b, cache[l], disk[l]) /\ cache[l] \in Table /\ disk[l] \in Table
  BY DEF Writeback, TypeOK
<1> HIDE DEF n
<1>3. /\ n.pentries = disk[l].pentries /\ n.pairs = disk[l].pairs
      /\ n.primary = IF b = "primaryHeader" THEN cache[l].primary ELSE disk[l].primary
      /\ n.secondary = IF b = "secondaryHeader" THEN cache[l].secondary ELSE disk[l].secondary
      /\ n.secCrc = IF b = "secondaryHeader" THEN cache[l].secCrc ELSE disk[l].secCrc
      /\ n.sentries = IF b = "secondaryEntries" THEN cache[l].sentries ELSE disk[l].sentries
  BY <1>2, MergeFacts
<1>4. (\A k \in Lun : TableOK(cache[k]))' /\ StepInv' /\ LoopInv'
  BY <1>1 DEF Core, StepInv, LoopInv, Complete
<1>5. CleanInv'
  BY <1>1 DEF Core, CleanInv
<1>6. AgreeInv'
  BY <1>1, <1>3 DEF Core, AgreeInv, n
<1>7. TornInv'
  <2>1. disk[l].primary = "bad_signature" /\ cache[l].primary = "bad_signature"
          => n.primary = "bad_signature"
    BY <1>3
  <2>2. /\ PrimaryUsable(disk[l]) /\ PrimaryUsable(cache[l]) => PrimaryUsable(n)
        /\ disk[l].secondary = "bad_signature" /\ cache[l].secondary = "bad_signature"
             => n.secondary = "bad_signature"
    BY <1>3 DEF PrimaryUsable
  <2> QED BY <1>1, <2>1, <2>2 DEF Core, TornInv, n
<1>8. DiskInv'
  <2> SUFFICES ASSUME SyncWrites PROVE DiskInv'
    BY DEF DiskInv
  <2>1. dirty[l] = {b}
    BY <1>1 DEF Core, DiskInv
  <2>2. /\ n.primary = cache[l].primary /\ n.pentries = cache[l].pentries
        /\ n.secondary = cache[l].secondary
        /\ n.secCrc = cache[l].secCrc /\ n.sentries = cache[l].sentries
    BY <1>3, <2>1 DEF Core, AgreeInv
  <2>3. TableOK(n)
    BY <2>2 DEF Core, TableOK, PrimaryUsable, SecondaryUsable
  <2> QED BY <1>1, <2>3 DEF Core, DiskInv, n
<1> QED BY <1>4, <1>5, <1>6, <1>7, <1>8 DEF Core

LEMMA WritebackPartCore ==
  ASSUME TypeOK, Core, NEW l \in Lun, WritebackPart(l) PROVE Core'
<1> DEFINE n == disk'[l]
<1>1. /\ "secondaryEntries" \in dirty[l]
      /\ \A k \in Lun : k # l => disk'[k] = disk[k]
      /\ UNCHANGED <<cache, dirty, img, pc, stage, todo, lun, r, isError, grant>>
  BY DEF WritebackPart, callVars, updaterVars, TypeOK
<1>2. n = [disk[l] EXCEPT !.sentries = "torn"] /\ disk[l] \in Table
  BY DEF WritebackPart, TypeOK
<1> HIDE DEF n
<1>3. /\ n.primary = disk[l].primary /\ n.pentries = disk[l].pentries
      /\ n.pairs = disk[l].pairs /\ n.secondary = disk[l].secondary
      /\ n.secCrc = disk[l].secCrc
  BY <1>2, EntriesWrite
<1>4. (\A k \in Lun : TableOK(cache[k]))' /\ StepInv' /\ LoopInv' /\ CleanInv'
  BY <1>1 DEF Core, StepInv, LoopInv, CleanInv, Complete
<1>5. AgreeInv'
  BY <1>1, <1>3 DEF Core, AgreeInv, n
<1>6. TornInv'
  <2>1. PrimaryUsable(disk[l]) => PrimaryUsable(n)
    BY <1>3 DEF PrimaryUsable
  <2> QED BY <1>1, <1>3, <2>1 DEF Core, TornInv, n
<1>7. DiskInv'
  <2> SUFFICES ASSUME SyncWrites PROVE DiskInv'
    BY DEF DiskInv
  <2>1. "primaryHeader" \notin dirty[l] /\ PrimaryUsable(cache[l])
    BY <1>1 DEF Core, DiskInv
  <2>2. PrimaryUsable(n) /\ TableOK(n)
    BY <1>3, <2>1 DEF Core, AgreeInv, TableOK, PrimaryUsable
  <2> QED BY <1>1, <2>2 DEF Core, DiskInv, n
<1> QED BY <1>4, <1>5, <1>6, <1>7 DEF Core

LEMMA PowerLossCore ==
  ASSUME TypeOK, Core, PowerLoss, Regular' PROVE Core'
<1>1. /\ SyncWrites \/ \A l \in Lun : dirty[l] = {}
      /\ cache' = disk /\ disk' = disk /\ \A l \in Lun : dirty'[l] = {}
      /\ pc' = "idle" /\ grant' = "none" /\ img' = img
  BY DEF PowerLoss, Regular
<1>2. \A l \in Lun : TableOK(disk[l])
  BY <1>1, CleanAgrees DEF Core, DiskInv
<1>3. StepInv' /\ LoopInv' /\ CleanInv'
  BY <1>1 DEF StepInv, LoopInv, CleanInv
<1>4. TornInv'
  BY <1>1 DEF Core, TornInv, AgreeInv
<1>5. AgreeInv' /\ DiskInv'
  BY <1>1, <1>2 DEF AgreeInv, DiskInv
<1> QED BY <1>1, <1>2, <1>3, <1>4, <1>5 DEF Core

LEMMA NextCore == TypeOK /\ Core /\ [Next]_vars /\ Regular' => Core'
<1> SUFFICES ASSUME TypeOK, Core, [Next]_vars, Regular' PROVE Core'
  OBVIOUS
<1>1. CASE Program
  BY <1>1, NextLunCore, ReturnCore, CheckCore, XblCore, SetChainHeaderCore,
     SetChainEntriesCore, SetPrimaryStateCore, SetSecondaryStateCore, SyncCore
     DEF Program
<1>2. CASE Kernel
  BY <1>2, WritebackCore, WritebackPartCore DEF Kernel
<1>3. CASE Updater
  BY <1>3, CallCore, RestartCore, BeginImageCore, EndImageCore DEF Updater
<1>4. CASE SystemCallFails
  BY <1>4, SystemCallFailsCore
<1>5. CASE PowerLoss
  BY <1>5, PowerLossCore
<1>6. CASE UNCHANGED vars
  BY <1>6 DEF vars, mediaVars, callVars, updaterVars, boundVars, Core, StepInv,
     LoopInv, TornInv, AgreeInv, CleanInv, DiskInv, Complete
<1>7. ~ShortWrite
  BY DEF Regular, ShortWrite
<1> QED BY <1>1, <1>2, <1>3, <1>4, <1>5, <1>6, <1>7 DEF Next

(* The ghosts only ever record: once one of them is set, it stays set.     *)
LEMMA RegularBefore == TypeOK /\ [Next]_vars /\ Regular' => Regular
BY DEF Regular, TypeOK, Next, Program, Kernel, Updater, NextLun, Return, Check,
   SetXblBootPartition, SetChainHeader, SetChainEntries, SetPrimaryState,
   SetSecondaryState, SyncAndClose, WritebackPart, Writeback, Call, Restart,
   BeginImage, EndImage, SystemCallFails, ShortWrite, WriteEntries, PowerLoss, vars, boundVars

-----------------------------------------------------------------------------
(* Every variable keeps its type.                                          *)
THEOREM TypeCorrect == Spec => []TypeOK
<1>1. Init => TypeOK
  BY InitType
<1>2. TypeOK /\ [Next]_vars => TypeOK'
  BY NextType
<1> QED BY <1>1, <1>2, PTL DEF Spec

(* The inductive invariant: as long as no power was lost with unordered    *)
(* blocks in flight and no write of the entries was short, cached tables are usable, the signature comes with a  *)
(* switched secondary table, and torn images are out of use.               *)
THEOREM Inductive == Spec => []IInv
<1>1. Init => IInv
  BY InitType, InitCore DEF IInv
<1>2. IInv /\ [Next]_vars => IInv'
  BY NextType, NextCore, RegularBefore DEF IInv
<1> QED BY <1>1, <1>2, PTL DEF Spec

(* The boot loader's choice, on a table it can use.                        *)
LEMMA LiveCases ==
  ASSUME NEW t, TableOK(t)
  PROVE  /\ PrimaryUsable(t) => Live(t) = "primary"
         /\ ~PrimaryUsable(t) => Live(t) = IF t.sentries = "swapped"
                                           THEN "backup" ELSE "primary"
         /\ t.primary = "bad_signature" => Live(t) = "backup"
         /\ Live(t) \in Chain
BY DEF Live, TableOK, PrimaryUsable

LEMMA SettledTable ==
  ASSUME IInv, Regular, NEW l \in Lun, Settled(l)
  PROVE  TableOK(disk[l])
BY CleanAgrees DEF IInv, Core, DiskInv, Settled

LEMMA SurvivesState == IInv => SurvivesPowerLoss
<1> SUFFICES ASSUME IInv, Regular, NEW l \in Lun, disk[l].pairs, Settled(l)
             PROVE  Bootable(l)
  BY DEF SurvivesPowerLoss, Regular
<1>1. TableOK(disk[l])
  BY SettledTable
<1>2. img[l]["primary"] = "torn" => Live(disk[l]) = "backup"
  BY <1>1, LiveCases DEF IInv, Core, TornInv, AgreeInv
<1>3. img[l]["backup"] = "torn" => Live(disk[l]) = "primary"
  BY <1>1, LiveCases DEF IInv, Core, TornInv
<1>4. Live(disk[l]) \in Chain
  BY <1>1, LiveCases
<1> QED BY <1>2, <1>3, <1>4 DEF Bootable, BootsFrom

(* Power may be lost at any step of any call -- between calls only, if the *)
(* medium orders the writes as it likes -- and the boot loader finds a     *)
(* usable GPT that names complete images.                                  *)
THEOREM PowerLossSafe == Spec => []SurvivesPowerLoss
BY Inductive, SurvivesState, PTL

LEMMA GrantedState == IInv => GrantedCopyNotLive
<1> SUFFICES ASSUME IInv, Regular, grant # "none", NEW l \in Lun, disk[l].pairs
             PROVE  Live(disk[l]) # grant
  BY DEF GrantedCopyNotLive, Regular
<1>1. Core /\ grant \in Chain /\ dirty[l] = {}
  BY DEF IInv, TypeOK, Core, LoopInv, CleanInv
<1>2. /\ TableOK(disk[l]) /\ disk[l].primary = cache[l].primary
        /\ disk[l].pentries = cache[l].pentries /\ cache[l].pairs
  BY <1>1, CleanAgrees
<1>3. After(IF grant = "primary" THEN Main ELSE Backup, cache[l])
  BY <1>1 DEF Core, LoopInv
<1>4. CASE grant = "primary"
  BY <1>2, <1>3, <1>4, LiveCases DEF After
<1>5. CASE grant = "backup"
  BY <1>2, <1>3, <1>5, LiveCases DEF After, PrimaryUsable
<1> QED BY <1>1, <1>4, <1>5

(* While the updater may overwrite one copy of the images, no LUN that     *)
(* takes part in the switch boots from this copy.                          *)
THEOREM GrantSafe == Spec => []GrantedCopyNotLive
BY Inductive, GrantedState, PTL

(* A corrupted primary signature on a settled medium always means that the *)
(* boot chain is switched: the stage can be inferred from it.              *)
THEOREM SignatureSound == Spec => []SignatureTellsStage
<1>1. IInv => SignatureTellsStage
  BY SettledTable, LiveCases DEF SignatureTellsStage, Regular
<1> QED BY <1>1, Inductive, PTL

-----------------------------------------------------------------------------
(* With whole writes in program order nothing is ever exposed, and the     *)
(* LUNs that start out healthy keep their pairs of partitions.             *)
OrderedInv == SyncWrites /\ ~ShortWrites /\ IInv /\ Regular /\ \A l \in Ordinary : disk[l].pairs

LEMMA MediumSteps ==
  ASSUME TypeOK, [Next]_vars
  PROVE  \/ disk' = disk
         \/ /\ img' = img
            /\ \E l \in Lun : /\ disk'[l].pairs = disk[l].pairs
                              /\ \A k \in Lun : k # l => disk'[k] = disk[k]
<1>1. ASSUME NEW l \in Lun, NEW b \in Block, Writeback(l, b)
      PROVE  /\ img' = img /\ disk'[l].pairs = disk[l].pairs
             /\ \A k \in Lun : k # l => disk'[k] = disk[k]
  <2>1. disk'[l] = Merge(b, cache[l], disk[l])
    BY <1>1 DEF Writeback, TypeOK
  <2>2. disk'[l].pairs = disk[l].pairs
    BY <2>1, MergeFacts DEF TypeOK
  <2> QED BY <1>1, <2>2 DEF Writeback, TypeOK
<1>2. ASSUME NEW l \in Lun, WritebackPart(l)
      PROVE  /\ img' = img /\ disk'[l].pairs = disk[l].pairs
             /\ \A k \in Lun : k # l => disk'[k] = disk[k]
  <2>1. disk'[l] = [disk[l] EXCEPT !.sentries = "torn"]
    BY <1>2 DEF WritebackPart, TypeOK
  <2>2. disk'[l].pairs = disk[l].pairs
    BY <2>1, EntriesWrite DEF TypeOK
  <2> QED BY <1>2, <2>2 DEF WritebackPart, TypeOK
<1>3. CASE Kernel
  BY <1>1, <1>2, <1>3 DEF Kernel
<1>4. CASE Program
  BY <1>4 DEF Program, NextLun, Return, Check, SetXblBootPartition, SetChainHeader,
     SetChainEntries, WriteEntries, SetPrimaryState, SetSecondaryState, SyncAndClose, Write,
     mediaVars
<1>5. CASE ~Kernel /\ ~Program
  BY <1>5 DEF Next, Updater, Call, Restart, BeginImage, EndImage, SystemCallFails,
     ShortWrite, WriteEntries, Write, PowerLoss, mediaVars, vars
<1> QED BY <1>3, <1>4, <1>5

LEMMA ImageSteps ==
  ASSUME TypeOK, [Next]_vars
  PROVE  \/ img' = img
         \/ /\ disk' = disk /\ grant \in Chain
            /\ \E u \in Unit, v \in Content : img' = [img EXCEPT ![u][grant] = v]
BY DEF TypeOK, Next, Program, Kernel, Updater, NextLun, Return, Check,
   SetXblBootPartition, SetChainHeader, SetChainEntries, SetPrimaryState,
   SetSecondaryState, SyncAndClose, WritebackPart, Writeback, Call, Restart,
   BeginImage, EndImage, SystemCallFails, ShortWrite, WriteEntries, PowerLoss, vars, mediaVars

LEMMA OrderedStep ==
  ASSUME OrderedInv, [Next]_vars PROVE OrderedInv'
<1>1. Regular'
  <2> USE DEF OrderedInv, Regular, boundVars
  <2>1. CASE PowerLoss
    BY <2>1 DEF PowerLoss
  <2>2. CASE Program
    BY <2>2 DEF Program, NextLun, Return, Check, SetXblBootPartition, SetChainHeader,
       SetChainEntries, WriteEntries, SetPrimaryState, SetSecondaryState, SyncAndClose
  <2>3. CASE Kernel \/ Updater \/ SystemCallFails \/ UNCHANGED vars
    BY <2>3 DEF Kernel, WritebackPart, Writeback, Updater, Call, Restart, BeginImage,
       EndImage, SystemCallFails, vars
  <2>4. ~ShortWrite
    BY DEF ShortWrite
  <2> QED BY <2>1, <2>2, <2>3, <2>4 DEF Next
<1>2. IInv'
  BY <1>1, NextType, NextCore DEF OrderedInv, IInv
<1>3. \A l \in Ordinary : disk'[l].pairs
  BY MediumSteps DEF OrderedInv, IInv, Ordinary
<1> QED BY <1>1, <1>2, <1>3 DEF OrderedInv

(* What OrderedInv says of a LUN, in the words of the abstract spec.       *)
LEMMA OrderedFacts ==
  ASSUME OrderedInv, NEW l \in Ordinary
  PROVE  /\ Live(disk[l]) \in Chain /\ img[l][Live(disk[l])] # "torn"
         /\ grant # "none" => Live(disk[l]) # grant
         /\ l \in Lun /\ l \in Unit /\ img \in [Unit -> [Chain -> Content]]
<1>1. l \in Lun /\ disk[l].pairs /\ IInv /\ Regular /\ Settled(l)
  BY DEF Ordinary, OrderedInv, Settled
<1>2. SurvivesPowerLoss /\ GrantedCopyNotLive
  BY <1>1, SurvivesState, GrantedState
<1>3. TableOK(disk[l]) /\ BootsFrom(l) = Live(disk[l])
  BY <1>1, SettledTable DEF BootsFrom
<1> QED BY <1>1, <1>2, <1>3, LiveCases, LunIsUnit
        DEF Regular, SurvivesPowerLoss, GrantedCopyNotLive, Bootable, IInv, TypeOK

LiveFacts == \A l \in Ordinary : Live(disk[l]) \in Chain /\ img[l][Live(disk[l])] # "torn"

LEMMA LiveFactsHold == OrderedInv => LiveFacts
BY OrderedFacts DEF LiveFacts

LEMMA LiveFactsNext == OrderedInv' => LiveFacts'
BY LiveFactsHold, PTL

LEMMA OrderedInit == SyncWrites /\ ~ShortWrites /\ Init => OrderedInv
<1> SUFFICES ASSUME SyncWrites, ~ShortWrites, Init PROVE OrderedInv
  OBVIOUS
<1>1. IInv /\ Regular
  BY InitType, InitCore DEF IInv, Init, Regular
<1>2. \A l \in Ordinary : disk[l] = HealthyTable
  BY DEF Init, Ordinary
<1> QED BY <1>1, <1>2 DEF OrderedInv, HealthyTable

LEMMA PromiseInit == Init => Promise!Init
<1> SUFFICES ASSUME Init PROVE Promise!Init
  OBVIOUS
<1>1. \A l \in Ordinary : disk[l] = HealthyTable /\ img[l] = [c \in Chain |-> "old"]
  BY LunIsUnit DEF Init, Ordinary
<1>2. Live(HealthyTable) = "primary"
  BY DEF Live, PrimaryUsable, HealthyTable
<1> QED BY <1>1, <1>2 DEF Promise!Init, Promise!Copy

LEMMA PromiseStep ==
  ASSUME OrderedInv, OrderedInv', [Next]_vars
  PROVE  [Promise!Next]_Promise!vars
<1> DEFINE live == [l \in Ordinary |-> Live(disk[l])]
<1> DEFINE copies == [l \in Ordinary |-> img[l]]
<1>1. TypeOK /\ Ordinary \subseteq Lun
  BY DEF OrderedInv, IInv, Ordinary
<1>2. CASE disk' = disk /\ img' = img
  BY <1>2 DEF Promise!vars
<1>3. ASSUME img' = img, NEW l \in Lun, \A k \in Lun : k # l => disk'[k] = disk[k]
      PROVE  [Promise!Next]_Promise!vars
  <2>1. copies' = copies
    BY <1>3
  <2>2. CASE l \notin Ordinary
    BY <1>1, <1>3, <2>1, <2>2 DEF Promise!vars
  <2>3. CASE l \in Ordinary
    <3>1. Live(disk'[l]) \in Chain /\ img[l][Live(disk'[l])] # "torn"
      BY <1>3, <2>3, LiveFactsNext DEF LiveFacts
    <3>2. live' = [live EXCEPT ![l] = Live(disk'[l])]
      BY <1>1, <1>3, <2>3
    <3>3. Promise!Switch(l, Live(disk'[l]))
      BY <2>1, <2>3, <3>1, <3>2 DEF Promise!Switch
    <3> QED BY <2>3, <3>1, <3>3 DEF Promise!Next, Promise!Copy
  <2> QED BY <2>2, <2>3
<1>4. ASSUME disk' = disk, grant \in Chain, NEW u \in Unit, NEW v \in Content,
             img' = [img EXCEPT ![u][grant] = v]
      PROVE  [Promise!Next]_Promise!vars
  <2>1. live' = live
    BY <1>4
  <2>2. CASE u \notin Ordinary
    <3>1. \A l \in Ordinary : img'[l] = img[l]
      BY <1>1, <1>4, <2>2, LunIsUnit DEF TypeOK
    <3> QED BY <2>1, <3>1 DEF Promise!vars
  <2>3. CASE u \in Ordinary
    <3>1. Live(disk[u]) # grant
      BY <1>4, <2>3, OrderedFacts
    <3>2. copies' = [copies EXCEPT ![u][grant] = v]
      BY <1>1, <1>4, <2>3, LunIsUnit DEF TypeOK
    <3>3. Promise!Write(u, grant, v)
      BY <2>1, <2>3, <3>1, <3>2 DEF Promise!Write
    <3> QED BY <1>4, <2>3, <3>3 DEF Promise!Next, Promise!Copy, Promise!Content
  <2> QED BY <2>2, <2>3
<1> QED BY <1>1, <1>2, <1>3, <1>4, MediumSteps, ImageSteps

(* With whole writes in program order the program implements FailsafeBoot: *)
(* it switches a boot only to complete images and, in the middle of a call *)
(* as well, never lets the updater write a copy in use.                    *)
THEOREM KeepsPromise == SyncWrites /\ ~ShortWrites => (Spec => ImplementsPromise)
<1> SUFFICES ASSUME SyncWrites, ~ShortWrites PROVE Spec => ImplementsPromise
  OBVIOUS
<1>1. Init => OrderedInv /\ Promise!Init
  BY OrderedInit, PromiseInit
<1>2. OrderedInv /\ [Next]_vars => OrderedInv'
  BY OrderedStep
<1>3. OrderedInv /\ OrderedInv' /\ [Next]_vars => [Promise!Next]_Promise!vars
  BY PromiseStep
<1> QED BY <1>1, <1>2, <1>3, PTL DEF Spec, ImplementsPromise, Promise!Spec

-----------------------------------------------------------------------------
(* FINALIZE and the XBL boot LUN: what holds whatever a power loss did to  *)
(* the tables, because a call goes by what it reads.                       *)
(* A call finds the medium and the cache agreed, and works alone.          *)
MediaInv ==
  /\ AgreeInv /\ CleanInv
  /\ pc \in {"check", "xbl"} => dirty[lun] = {}
  /\ pc \notin {"idle", "next"} => lun \notin todo
  /\ grant # "none" \/ done => pc = "idle"
  /\ done => grant = "none"

(* LUN B of the XBL is selected only while there is a LUN whose secondary  *)
(* header no BACKUP has reached, in the cache and on the medium.  A BACKUP *)
(* that has found all of them done, and a FINALIZE that restores one after *)
(* the other, could not go on if B was selected.                           *)
Untouched(l) == cache[l].secondary # "bad_signature" /\ disk[l].secondary # "bad_signature"

Refused(l) == l = lun /\ (pc = "check" \/ (pc = "sync" /\ r = "err"))

XblInv ==
  /\ ~UsesXbl => bootLun = "primary" /\ pc # "xbl"
  /\ pc = "xbl" => stage # Finalize /\ (stage = Main => cache[lun].secondary = "ok")
  /\ bootLun = "backup" => \E l \in Lun : Untouched(l)
  /\ stage = Backup => /\ pc \notin {"setHeader", "setEntries"}
                       /\ pc \in {"setPrimary", "setSecondary"} => bootLun = "primary"
  /\ stage = Backup /\ pc # "idle" /\ ~isError /\ bootLun = "backup" =>
       \A l \in Lun \ todo : pc = "next" \/ l # lun \/ (pc = "sync" /\ r = "ok") =>
         cache[l].secondary = "bad_signature"
  /\ stage = Finalize /\ pc # "idle" /\ ~isError /\ bootLun = "backup" =>
       \E l \in Lun : Untouched(l) /\ (l \in todo \/ Refused(l))
  /\ grant = "backup" => bootLun = "primary"

(* FINALIZE leaves on each LUN two usable tables that name the primary     *)
(* copies.                                                                 *)
EntriesOK(t) == cut \/ t.sentries = "normal"
Redundant(t) ==
  PrimaryUsable(t) /\ t.secondary = "ok" /\ t.secCrc = "normal" /\ EntriesOK(t)
AllNew == Complete("primary") /\ Complete("backup")

FinalInv ==
  /\ stage = Finalize /\ pc # "idle" => AllNew
  /\ stage = Finalize =>
       /\ pc # "setPrimary"
       /\ pc = "setHeader" => cache[lun].primary = "ok"
       /\ pc = "setEntries" => PrimaryUsable(cache[lun]) /\ cache[lun].secCrc = "normal"
       /\ pc = "setSecondary" => /\ PrimaryUsable(cache[lun])
                                 /\ cache[lun].secCrc = "normal" /\ EntriesOK(cache[lun])
       /\ pc = "sync" /\ r = "ok" => Redundant(cache[lun])
       /\ pc # "idle" /\ ~isError =>
            \A l \in Lun \ todo : pc = "next" \/ l # lun => Redundant(cache[l])
  /\ done => AllNew /\ bootLun = "primary" /\ \A l \in Lun : Redundant(cache[l])

CallInv == MediaInv /\ XblInv /\ FinalInv

LEMMA CallInvInit == Init => CallInv
<1> SUFFICES ASSUME Init PROVE CallInv
  OBVIOUS
<1>1. MediaInv
  BY DEF Init, MediaInv, AgreeInv, CleanInv
<1>2. XblInv
  BY DEF Init, XblInv
<1>3. FinalInv
  BY DEF Init, FinalInv
<1> QED BY <1>1, <1>2, <1>3 DEF CallInv

(* The updater, and the loop over the LUNs.                                *)
LEMMA UpdaterCall ==
  ASSUME TypeOK, CallInv, Updater
  PROVE  CallInv'
<1>1. UNCHANGED <<disk, cache, dirty, bootLun, lun, r, done, cut>>
  BY DEF Updater, Call, Restart, BeginImage, EndImage, mediaVars, callVars, updaterVars, boundVars
<1>2. ASSUME NEW s \in Stage, Call(s)
      PROVE  CallInv'
  <2>1. /\ ~done /\ pc = "idle" /\ Allowed(s) /\ pc' = "next" /\ stage' = s /\ todo' = Lun
        /\ isError' = FALSE /\ grant' = "none" /\ img' = img
    BY <1>2 DEF Call
  <2>2. MediaInv'
    BY <1>1, <2>1 DEF CallInv, MediaInv, AgreeInv, CleanInv
  <2>3. XblInv'
    BY <1>1, <2>1 DEF CallInv, XblInv, Untouched
  <2>4. FinalInv'
    BY <1>1, <2>1 DEF CallInv, FinalInv, Allowed, AllNew, Complete
  <2> QED BY <2>2, <2>3, <2>4 DEF CallInv
<1>3. CASE Restart
  <2>1. UNCHANGED <<pc, stage, todo, isError, grant, img>>
    BY <1>3 DEF Restart, callVars
  <2> QED BY <1>1, <2>1 DEF CallInv, MediaInv, AgreeInv, CleanInv, XblInv, Untouched, Refused,
                            FinalInv, Redundant, EntriesOK, AllNew, Complete
<1>4. CASE \E u \in Unit : BeginImage(u) \/ EndImage(u)
  <2>1. UNCHANGED <<pc, stage, todo, isError, grant>> /\ pc = "idle" /\ grant # "none"
    BY <1>4 DEF BeginImage, EndImage, callVars, updaterVars
  <2>2. ~done
    BY <2>1 DEF CallInv, MediaInv
  <2>3. MediaInv'
    BY <1>1, <2>1 DEF CallInv, MediaInv, AgreeInv, CleanInv
  <2>4. XblInv'
    BY <1>1, <2>1 DEF CallInv, XblInv, Untouched, Refused
  <2>5. FinalInv'
    BY <1>1, <2>1, <2>2 DEF CallInv, FinalInv
  <2> QED BY <2>3, <2>4, <2>5 DEF CallInv
<1> QED BY <1>2, <1>3, <1>4 DEF Updater

LEMMA LoopCall ==
  ASSUME TypeOK, CallInv, (\E l \in Lun : NextLun(l)) \/ Return
  PROVE  CallInv'
<1>1. UNCHANGED <<disk, cache, dirty, bootLun, img, stage, isError, cut>> /\ pc = "next"
  BY DEF NextLun, Return, mediaVars, boundVars
<1>2. ASSUME NEW l \in Lun, NextLun(l)
      PROVE  CallInv'
  <2>1. /\ l \in todo /\ todo' = todo \ {l} /\ lun' = l /\ r' = "ok" /\ pc' = "check"
        /\ UNCHANGED <<grant, done>>
    BY <1>2 DEF NextLun, updaterVars
  <2>2. MediaInv'
    BY <1>1, <2>1 DEF CallInv, MediaInv, AgreeInv, CleanInv
  <2>3. XblInv'
    <3>1. stage = Finalize /\ ~isError /\ bootLun = "backup" =>
            \E k \in Lun : Untouched(k) /\ k \in todo
      BY <1>1 DEF CallInv, XblInv, Refused
    <3>2. stage = Backup /\ ~isError /\ bootLun = "backup" =>
            \A k \in Lun \ todo : cache[k].secondary = "bad_signature"
      BY <1>1 DEF CallInv, XblInv
    <3> QED BY <1>1, <2>1, <3>1, <3>2 DEF CallInv, XblInv, Untouched, Refused
  <2>4. FinalInv'
    BY <1>1, <2>1 DEF CallInv, FinalInv, Redundant, EntriesOK, AllNew, Complete
  <2> QED BY <2>2, <2>3, <2>4 DEF CallInv
<1>3. CASE Return
  <2>1. /\ todo = {} /\ pc' = "idle" /\ grant' = IF isError THEN "none" ELSE Granted(stage)
        /\ done' = (stage = Finalize /\ ~isError) /\ UNCHANGED <<todo, lun, r>>
    BY <1>3 DEF Return
  <2>2. /\ Granted(stage) = "backup" => stage = Backup
        /\ done' => grant' = "none"
    BY <2>1 DEF Granted, TypeOK
  <2>3. MediaInv'
    BY <1>1, <2>1, <2>2 DEF CallInv, MediaInv, AgreeInv, CleanInv
  <2>4. stage \in {Backup, Finalize} /\ ~isError => bootLun = "primary"
    <3>1. bootLun = "backup" => \E l \in Lun : Untouched(l)
      BY DEF CallInv, XblInv
    <3>2. stage = Backup /\ ~isError /\ bootLun = "backup" =>
            \A l \in Lun : cache[l].secondary = "bad_signature"
      BY <1>1, <2>1 DEF CallInv, XblInv
    <3>3. stage = Finalize /\ ~isError /\ bootLun = "backup" => FALSE
      BY <1>1, <2>1 DEF CallInv, XblInv, Refused
    <3> QED BY <3>1, <3>2, <3>3 DEF Untouched, TypeOK
  <2>5. XblInv'
    BY <1>1, <2>1, <2>2, <2>4 DEF CallInv, XblInv, Untouched
  <2>6. FinalInv'
    BY <1>1, <2>1, <2>4 DEF CallInv, FinalInv, Redundant, EntriesOK, AllNew, Complete
  <2> QED BY <2>3, <2>5, <2>6 DEF CallInv
<1> QED BY <1>2, <1>3

(* What a stage finds on a LUN where it goes on, and where it is set.      *)
LEMMA VerdictCases ==
  ASSUME NEW t \in Table, NEW s \in Stage
  PROVE  /\ Verdict(t, s) = "go" =>
              /\ s = Main => t.secondary = "ok"
              /\ s = Finalize => t.primary = "ok" /\ t.secondary = "bad_signature"
         /\ Verdict(t, s) = "already" =>
              /\ s # Finalize
              /\ s = Backup => t.secondary = "bad_signature"
         /\ Verdict(t, s) \in {"abort", "already", "go"}
<1>1. t.primary \in HeaderState /\ t.secondary \in HeaderState
  BY DEF Table
<1>2. InternalStage(t) \in Stage
  BY DEF InternalStage
<1> QED BY <1>1, <1>2 DEF Verdict, InternalStage

LEMMA CheckCall ==
  ASSUME TypeOK, CallInv, Check
  PROVE  CallInv'
<1> DEFINE t == cache[lun]  v == Verdict(t, stage)
<1>1. /\ pc = "check" /\ r' = IF v = "abort" THEN "err" ELSE r
      /\ pc' = CASE v # "go" -> "sync"
                 [] v = "go" /\ UsesXbl /\ stage # Finalize -> "xbl"
                 [] OTHER -> FirstWrite(stage)
      /\ UNCHANGED <<disk, cache, dirty, bootLun, img, stage, todo, lun, isError, grant, done, cut>>
  BY DEF Check, mediaVars, updaterVars, boundVars
<1>2. t \in Table /\ stage \in Stage /\ lun \in Lun
  BY DEF TypeOK
<1>3. /\ v = "go" => /\ stage = Main => t.secondary = "ok"
                     /\ stage = Finalize => t.primary = "ok" /\ t.secondary = "bad_signature"
      /\ v = "already" => stage # Finalize /\ (stage = Backup => t.secondary = "bad_signature")
      /\ v \in {"abort", "already", "go"}
  BY <1>2, VerdictCases
<1> HIDE DEF v
<1>4. /\ v = "go" /\ UsesXbl /\ stage # Finalize => pc' = "xbl"
      /\ v = "go" /\ ~(UsesXbl /\ stage # Finalize) =>
           pc' = IF stage = Backup THEN "setPrimary" ELSE "setHeader"
      /\ v # "go" => pc' = "sync"
  BY <1>1 DEF FirstWrite
<1>5. MediaInv'
  <2>1. pc' \notin {"idle", "next"}
    BY <1>2, <1>4
  <2> QED BY <1>1, <2>1 DEF CallInv, MediaInv, AgreeInv, CleanInv
<1>6. XblInv'
  <2>1. /\ ~UsesXbl => bootLun' = "primary" /\ pc' # "xbl"
        /\ pc' = "xbl" => stage # Finalize /\ (stage = Main => t.secondary = "ok")
        /\ stage = Backup /\ pc' \in {"setPrimary", "setSecondary"} => bootLun' = "primary"
        /\ stage = Backup => pc' \notin {"setHeader", "setEntries"}
    BY <1>1, <1>3, <1>4 DEF CallInv, XblInv
  <2>2. stage = Backup /\ ~isError /\ bootLun = "backup" =>
          \A l \in Lun \ todo : l # lun \/ (pc' = "sync" /\ r' = "ok") =>
            cache[l].secondary = "bad_signature"
    BY <1>1, <1>3, <1>4 DEF CallInv, XblInv
  <2>3. stage = Finalize /\ ~isError /\ bootLun = "backup" =>
          \E l \in Lun : Untouched(l)' /\ (l \in todo' \/ Refused(l)')
    <3> SUFFICES ASSUME stage = Finalize, ~isError, bootLun = "backup"
                 PROVE  \E l \in Lun : Untouched(l)' /\ (l \in todo' \/ Refused(l)')
      OBVIOUS
    <3>1. PICK l \in Lun : Untouched(l) /\ (l \in todo \/ l = lun)
      BY <1>1 DEF CallInv, XblInv, Refused
    <3>2. Untouched(l)'
      BY <1>1, <3>1 DEF Untouched
    <3>3. l = lun => v = "abort"
      BY <1>3, <3>1 DEF Untouched
    <3> QED BY <1>1, <1>4, <3>1, <3>2, <3>3 DEF Refused
  <2>4. /\ bootLun' = "backup" => \E l \in Lun : Untouched(l)'
        /\ grant' = "backup" => bootLun' = "primary"
    BY <1>1 DEF CallInv, XblInv, Untouched
  <2>5. pc' # "next"
    BY <1>2, <1>4
  <2> QED BY <1>1, <2>1, <2>2, <2>3, <2>4, <2>5 DEF XblInv
<1>7. FinalInv'
  <2>1. stage = Finalize => pc' \in {"setHeader", "sync"} /\ (pc' = "setHeader" => v = "go")
                            /\ (pc' = "sync" => r' = "err")
    BY <1>1, <1>3, <1>4
  <2>2. stage = Finalize /\ pc' = "setHeader" => t.primary = "ok"
    BY <1>3, <2>1
  <2>3. stage = Finalize /\ ~isError =>
          \A l \in Lun \ todo : l # lun => Redundant(cache[l])
    BY <1>1 DEF CallInv, FinalInv
  <2>4. ~done
    BY <1>1 DEF CallInv, MediaInv
  <2>5. AllNew' = AllNew
    BY <1>1 DEF AllNew, Complete
  <2> QED BY <1>1, <2>1, <2>2, <2>3, <2>4, <2>5 DEF CallInv, FinalInv, Redundant, EntriesOK
<1> QED BY <1>5, <1>6, <1>7 DEF CallInv

LEMMA XblCall ==
  ASSUME TypeOK, CallInv, SetXblBootPartition
  PROVE  CallInv'
<1>1. /\ pc = "xbl" /\ bootLun' = XblBootLun(stage) /\ pc' = FirstWrite(stage)
      /\ UNCHANGED <<disk, cache, dirty, img, stage, todo, lun, r, isError, grant, done>>
  BY DEF SetXblBootPartition, mediaVars, updaterVars
<1>2. UsesXbl /\ stage \in {Main, Backup} /\ ~done /\ grant = "none" /\ lun \in Lun
  BY <1>1 DEF CallInv, MediaInv, XblInv, TypeOK
<1>3. /\ stage = Main => bootLun' = "backup" /\ pc' = "setHeader"
      /\ stage = Backup => bootLun' = "primary" /\ pc' = "setPrimary"
  BY <1>1, <1>2 DEF XblBootLun, FirstWrite
<1>4. MediaInv'
  BY <1>1, <1>2, <1>3 DEF CallInv, MediaInv, AgreeInv, CleanInv
<1>5. stage = Main => Untouched(lun)'
  <2>1. stage = Main => cache[lun].secondary = "ok" /\ dirty[lun] = {}
    BY <1>1 DEF CallInv, MediaInv, XblInv
  <2>2. stage = Main => disk[lun].secondary = "ok"
    BY <1>2, <2>1 DEF CallInv, MediaInv, AgreeInv
  <2> QED BY <1>1, <2>1, <2>2 DEF Untouched
<1>6. XblInv'
  BY <1>1, <1>2, <1>3, <1>5 DEF XblInv
<1>7. FinalInv'
  BY <1>1, <1>2, <1>3 DEF FinalInv
<1> QED BY <1>4, <1>6, <1>7 DEF CallInv

LEMMA ExitCall ==
  ASSUME TypeOK, CallInv, SyncAndClose \/ SystemCallFails
  PROVE  CallInv'
<1>1. /\ UNCHANGED <<disk, cache, dirty, bootLun, img, stage, todo, lun, grant, done, cut>>
      /\ pc \notin {"idle", "next"}
  BY DEF SyncAndClose, SystemCallFails, mediaVars, updaterVars, boundVars
<1>2. /\ ~done /\ grant = "none" /\ lun \notin todo
      /\ AllNew' = AllNew /\ \A l : Untouched(l)' = Untouched(l)
  BY <1>1 DEF CallInv, MediaInv, AllNew, Complete, Untouched
<1>3. CASE SyncAndClose
  <2>1. /\ pc = "sync" /\ dirty[lun] = {} /\ isError' = (isError \/ r = "err") /\ pc' = "next"
        /\ r' = r /\ (~isError' => ~isError /\ r = "ok")
    BY <1>3 DEF SyncAndClose, TypeOK
  <2>2. MediaInv'
    BY <1>1, <1>2, <2>1 DEF CallInv, MediaInv, AgreeInv, CleanInv
  <2>3. XblInv'
    BY <1>1, <1>2, <2>1 DEF CallInv, XblInv, Refused
  <2>4. FinalInv'
    BY <1>1, <1>2, <2>1 DEF CallInv, FinalInv, Redundant, EntriesOK
  <2> QED BY <2>2, <2>3, <2>4 DEF CallInv
<1>4. CASE SystemCallFails
  <2>1. pc # "sync" /\ r' = "err" /\ pc' = "sync" /\ isError' = isError
    BY <1>4 DEF SystemCallFails
  <2>2. MediaInv'
    BY <1>1, <1>2, <2>1 DEF CallInv, MediaInv, AgreeInv, CleanInv
  <2>3. XblInv'
    BY <1>1, <1>2, <2>1 DEF CallInv, XblInv, Refused
  <2>4. FinalInv'
    BY <1>1, <1>2, <2>1 DEF CallInv, FinalInv, Redundant, EntriesOK
  <2> QED BY <2>2, <2>3, <2>4 DEF CallInv
<1> QED BY <1>3, <1>4

(* Writes of prepare_partitions: block b of the current LUN takes its      *)
(* value in n, which has the other blocks of the cached table.             *)
WritesBlock(b, n) ==
  LET t == cache[lun] IN
  /\ Write(b, n)
  /\ n.pentries = t.pentries /\ n.pairs = t.pairs
  /\ b # "primaryHeader" => n.primary = t.primary
  /\ b # "secondaryHeader" => n.secondary = t.secondary /\ n.secCrc = t.secCrc
  /\ b # "secondaryEntries" => n.sentries = t.sentries
  /\ UNCHANGED <<bootLun, img, stage, todo, lun, r, isError, grant, done>>

LEMMA WriteCall ==
  ASSUME TypeOK, CallInv, NEW b \in Block, NEW n \in Table, WritesBlock(b, n),
         pc \in {"setHeader", "setEntries", "setPrimary", "setSecondary"},
         pc' \in {"setEntries", "setPrimary", "setSecondary", "sync"},
         stage = Backup => pc' # "setEntries",
         n.secondary = "bad_signature" => cache[lun].secondary = "bad_signature" \/ bootLun = "primary"
  PROVE  /\ MediaInv' /\ XblInv' /\ ~done' /\ AllNew' = AllNew
         /\ lun' = lun /\ cache'[lun] = n
         /\ \A l \in Lun \ todo : l # lun => cache'[l] = cache[l]
<1>1. /\ \A l \in Lun : l # lun => cache'[l] = cache[l] /\ dirty'[l] = dirty[l]
      /\ cache'[lun] = n /\ dirty'[lun] = dirty[lun] \cup {b} /\ disk' = disk /\ lun \in Lun
  BY WriteType DEF TypeOK, WritesBlock
<1>2. ~done /\ grant = "none" /\ lun \notin todo
  BY DEF CallInv, MediaInv
<1>3. MediaInv'
  <2>1. AgreeInv'
    BY <1>1 DEF CallInv, MediaInv, AgreeInv, WritesBlock
  <2>2. CleanInv'
    BY <1>1 DEF CallInv, MediaInv, CleanInv, WritesBlock
  <2> QED BY <1>2, <2>1, <2>2 DEF MediaInv, WritesBlock
<1>4. XblInv'
  <2>1. \A l \in Lun : Untouched(l) /\ bootLun = "backup" => Untouched(l)'
    <3>1. bootLun = "backup" /\ Untouched(lun) => Untouched(lun)'
      BY <1>1 DEF Untouched, WritesBlock
    <3> QED BY <1>1, <3>1 DEF Untouched
  <2>2. UNCHANGED <<bootLun, stage, todo, lun, r, isError, grant>>
    BY DEF WritesBlock
  <2>3. pc' # "xbl" /\ pc' # "setHeader" /\ pc' # "next" /\ pc' # "check"
    OBVIOUS
  <2>4. stage = Backup => bootLun = "primary"
    BY DEF CallInv, XblInv
  <2>5. stage = Finalize /\ ~isError /\ bootLun = "backup" =>
          \E l \in Lun : Untouched(l) /\ l \in todo
    BY DEF CallInv, XblInv, Refused
  <2>6. /\ ~UsesXbl => bootLun = "primary"
        /\ bootLun = "backup" => \E l \in Lun : Untouched(l)
    BY DEF CallInv, XblInv
  <2>7. /\ ~UsesXbl => bootLun' = "primary"
        /\ bootLun' = "backup" => \E l \in Lun : Untouched(l)'
        /\ stage' = Backup => bootLun' = "primary" /\ pc' \notin {"setHeader", "setEntries"}
        /\ stage' = Finalize /\ ~isError' /\ bootLun' = "backup" =>
             \E l \in Lun : Untouched(l)' /\ l \in todo'
    BY <2>1, <2>2, <2>4, <2>5, <2>6
  <2> QED BY <1>2, <2>2, <2>3, <2>7 DEF XblInv
<1>5. AllNew' = AllNew
  BY DEF AllNew, Complete, WritesBlock
<1> QED BY <1>1, <1>2, <1>3, <1>4, <1>5 DEF WritesBlock

LEMMA HeaderCall ==
  ASSUME TypeOK, CallInv, SetChainHeader
  PROVE  CallInv'
<1> DEFINE t == cache[lun]  n == [t EXCEPT !.secCrc = Entries(stage)]
<1>1. /\ pc = "setHeader" /\ UNCHANGED <<bootLun, img, stage, todo, lun, isError, grant, done, cut>>
      /\ t \in Table /\ lun \in Lun /\ stage \in {Main, Finalize} /\ ~done /\ grant = "none"
      /\ stage = Finalize => t.primary = "ok" /\ AllNew
  BY DEF SetChainHeader, updaterVars, boundVars, TypeOK, CallInv, MediaInv, XblInv, FinalInv
<1>2. CASE UNCHANGED mediaVars /\ pc' = "sync" /\ (r' = "err" \/ stage = Main)
  <2>1. UNCHANGED <<disk, cache, dirty>>
    BY <1>2 DEF mediaVars
  <2>2. MediaInv'
    BY <1>1, <1>2, <2>1 DEF CallInv, MediaInv, AgreeInv, CleanInv
  <2>3. XblInv'
    BY <1>1, <1>2, <2>1 DEF CallInv, XblInv, Untouched, Refused
  <2>4. FinalInv'
    BY <1>1, <1>2, <2>1 DEF CallInv, FinalInv, Redundant, EntriesOK, AllNew, Complete
  <2> QED BY <2>2, <2>3, <2>4 DEF CallInv
<1>3. CASE /\ t.pentries = "intact" /\ Write("secondaryHeader", n)
           /\ pc' = "setEntries" /\ r' = r
  <2>1. /\ n \in Table /\ n.secCrc = Entries(stage)
        /\ n.primary = t.primary /\ n.pentries = t.pentries /\ n.pairs = t.pairs
        /\ n.secondary = t.secondary /\ n.sentries = t.sentries
    BY <1>1, SecCrcWrite DEF Entries
  <2> HIDE DEF n
  <2>2. WritesBlock("secondaryHeader", n)
    BY <1>1, <1>3, <2>1 DEF WritesBlock
  <2>3. /\ MediaInv' /\ XblInv' /\ ~done' /\ AllNew' = AllNew /\ lun' = lun /\ cache'[lun] = n
        /\ \A l \in Lun \ todo : l # lun => cache'[l] = cache[l]
    BY <1>1, <1>3, <2>1, <2>2, WriteCall
  <2>4. stage = Finalize => PrimaryUsable(n) /\ n.secCrc = "normal"
    BY <1>1, <1>3, <2>1 DEF PrimaryUsable, Entries
  <2>5. FinalInv'
    BY <1>1, <1>3, <2>3, <2>4 DEF CallInv, FinalInv, Redundant, EntriesOK
  <2> QED BY <2>3, <2>5 DEF CallInv
<1> QED BY <1>1, <1>2, <1>3 DEF SetChainHeader

LEMMA EntriesCall ==
  ASSUME TypeOK, CallInv, SetChainEntries \/ ShortWrite
  PROVE  CallInv'
<1> DEFINE t == cache[lun]
<1>1. PICK e \in {"normal", "swapped", "torn"} :
        WriteEntries(e) /\ ((e = Entries(stage) /\ cut' = cut) \/ cut' = TRUE)
  BY DEF SetChainEntries, ShortWrite, Entries
<1> DEFINE n == [t EXCEPT !.sentries = e]
<1>2. /\ pc = "setEntries" /\ pc' = IF stage = Main THEN "setPrimary" ELSE "setSecondary"
      /\ UNCHANGED <<bootLun, img, stage, todo, lun, r, isError, grant, done>>
      /\ Write("secondaryEntries", n)
      /\ t \in Table /\ lun \in Lun /\ stage \in {Main, Finalize}
      /\ stage = Finalize => PrimaryUsable(t) /\ t.secCrc = "normal" /\ AllNew
  BY <1>1 DEF WriteEntries, updaterVars, TypeOK, CallInv, XblInv, FinalInv
<1>3. /\ n \in Table /\ n.sentries = e
      /\ n.primary = t.primary /\ n.pentries = t.pentries /\ n.pairs = t.pairs
      /\ n.secondary = t.secondary /\ n.secCrc = t.secCrc
  BY <1>2, EntriesWrite
<1> HIDE DEF n
<1>4. WritesBlock("secondaryEntries", n)
  BY <1>2, <1>3 DEF WritesBlock
<1>5. /\ MediaInv' /\ XblInv' /\ ~done' /\ AllNew' = AllNew /\ lun' = lun /\ cache'[lun] = n
      /\ \A l \in Lun \ todo : l # lun => cache'[l] = cache[l]
  BY <1>2, <1>3, <1>4, WriteCall
<1>6. stage = Finalize => /\ PrimaryUsable(n) /\ n.secCrc = "normal"
                          /\ cut' \/ n.sentries = "normal"
  BY <1>1, <1>2, <1>3 DEF PrimaryUsable, Entries
<1>7. cut => cut'
  BY <1>1
<1>8. FinalInv'
  BY <1>2, <1>5, <1>6, <1>7 DEF CallInv, FinalInv, Redundant, EntriesOK
<1> QED BY <1>5, <1>8 DEF CallInv

LEMMA StatesCall ==
  ASSUME TypeOK, CallInv, SetPrimaryState \/ SetSecondaryState
  PROVE  CallInv'
<1> DEFINE t == cache[lun]
<1>1. /\ UNCHANGED <<bootLun, img, stage, todo, lun, r, isError, grant, done, cut>>
      /\ t \in Table /\ lun \in Lun /\ stage \in Stage
  BY DEF SetPrimaryState, SetSecondaryState, updaterVars, boundVars, TypeOK
<1>2. CASE SetPrimaryState
  <2> DEFINE n == [t EXCEPT !.primary = IF stage = Main THEN "bad_signature" ELSE "ok"]
  <2>1. /\ pc = "setPrimary" /\ pc' = IF stage = Main THEN "sync" ELSE "setSecondary"
        /\ Write("primaryHeader", n) /\ stage # Finalize
    BY <1>2 DEF SetPrimaryState, CallInv, FinalInv
  <2>2. /\ n \in Table /\ n.pentries = t.pentries /\ n.pairs = t.pairs
        /\ n.secondary = t.secondary /\ n.secCrc = t.secCrc /\ n.sentries = t.sentries
    BY <1>1, PrimaryWrite
  <2> HIDE DEF n
  <2>3. WritesBlock("primaryHeader", n)
    BY <1>1, <2>1, <2>2 DEF WritesBlock
  <2>4. MediaInv' /\ XblInv' /\ ~done' /\ stage' # Finalize
    BY <1>1, <2>1, <2>2, <2>3, WriteCall
  <2>5. FinalInv'
    BY <2>4 DEF FinalInv
  <2> QED BY <2>4, <2>5 DEF CallInv
<1>3. CASE SetSecondaryState
  <2> DEFINE n == [t EXCEPT !.secondary = IF stage = Backup THEN "bad_signature" ELSE "ok"]
  <2>1. /\ pc = "setSecondary" /\ pc' = "sync" /\ Write("secondaryHeader", n)
        /\ stage = Backup => bootLun = "primary"
        /\ stage = Finalize => PrimaryUsable(t) /\ t.secCrc = "normal" /\ EntriesOK(t)
    BY <1>3 DEF SetSecondaryState, CallInv, XblInv, FinalInv
  <2>2. /\ n \in Table /\ n.secondary = IF stage = Backup THEN "bad_signature" ELSE "ok"
        /\ n.primary = t.primary /\ n.pentries = t.pentries /\ n.pairs = t.pairs
        /\ n.secCrc = t.secCrc /\ n.sentries = t.sentries
    BY <1>1, SecondaryWrite
  <2> HIDE DEF n
  <2>3. WritesBlock("secondaryHeader", n)
    BY <1>1, <2>1, <2>2 DEF WritesBlock
  <2>4. /\ MediaInv' /\ XblInv' /\ ~done' /\ AllNew' = AllNew /\ lun' = lun /\ cache'[lun] = n
        /\ \A l \in Lun \ todo : l # lun => cache'[l] = cache[l]
    BY <1>1, <2>1, <2>2, <2>3, WriteCall
  <2>5. stage = Finalize => Redundant(n)
    BY <2>1, <2>2 DEF Redundant, EntriesOK, PrimaryUsable
  <2>6. FinalInv'
    BY <1>1, <2>1, <2>4, <2>5 DEF CallInv, FinalInv, Redundant, EntriesOK
  <2> QED BY <2>4, <2>6 DEF CallInv
<1> QED BY <1>2, <1>3

(* The kernel writes back what the cache has; a power loss makes the cache *)
(* what the medium has.  A LUN that no BACKUP has reached stays one.       *)
LEMMA KernelCall ==
  ASSUME TypeOK, CallInv, Kernel
  PROVE  CallInv'
<1>1. /\ UNCHANGED <<cache, bootLun, img, pc, stage, todo, lun, r, isError, grant, done, cut>>
      /\ \A l \in Lun : dirty'[l] \subseteq dirty[l]
  BY DEF Kernel, Writeback, WritebackPart, callVars, updaterVars, boundVars, TypeOK
<1>2. AgreeInv' /\ \A l \in Lun : Untouched(l) => Untouched(l)'
  <2>1. ASSUME NEW l \in Lun, NEW b \in Block, Writeback(l, b)
        PROVE  AgreeInv' /\ \A k \in Lun : Untouched(k) => Untouched(k)'
    <3> DEFINE n == disk'[l]
    <3>1. /\ dirty'[l] = dirty[l] \ {b}
          /\ \A k \in Lun : k # l => disk'[k] = disk[k] /\ dirty'[k] = dirty[k]
      BY <2>1 DEF Writeback, TypeOK
    <3>2. n = Merge(b, cache[l], disk[l]) /\ cache[l] \in Table /\ disk[l] \in Table
      BY <2>1 DEF Writeback, TypeOK
    <3> HIDE DEF n
    <3>3. /\ n.pentries = disk[l].pentries /\ n.pairs = disk[l].pairs
          /\ n.primary = IF b = "primaryHeader" THEN cache[l].primary ELSE disk[l].primary
          /\ n.secondary = IF b = "secondaryHeader" THEN cache[l].secondary ELSE disk[l].secondary
          /\ n.secCrc = IF b = "secondaryHeader" THEN cache[l].secCrc ELSE disk[l].secCrc
          /\ n.sentries = IF b = "secondaryEntries" THEN cache[l].sentries ELSE disk[l].sentries
      BY <3>2, MergeFacts
    <3>4. AgreeInv'
      BY <1>1, <3>1, <3>3 DEF CallInv, MediaInv, AgreeInv, n
    <3>5. \A k \in Lun : Untouched(k) => Untouched(k)'
      BY <1>1, <3>1, <3>3 DEF Untouched, n
    <3> QED BY <3>4, <3>5
  <2>2. ASSUME NEW l \in Lun, WritebackPart(l)
        PROVE  AgreeInv' /\ \A k \in Lun : Untouched(k) => Untouched(k)'
    <3> DEFINE n == disk'[l]
    <3>1. /\ "secondaryEntries" \in dirty[l] /\ dirty' = dirty
          /\ \A k \in Lun : k # l => disk'[k] = disk[k]
      BY <2>2 DEF WritebackPart, TypeOK
    <3>2. n = [disk[l] EXCEPT !.sentries = "torn"] /\ disk[l] \in Table
      BY <2>2 DEF WritebackPart, TypeOK
    <3> HIDE DEF n
    <3>3. /\ n.primary = disk[l].primary /\ n.pentries = disk[l].pentries
          /\ n.pairs = disk[l].pairs /\ n.secondary = disk[l].secondary
          /\ n.secCrc = disk[l].secCrc
      BY <3>2, EntriesWrite
    <3>4. AgreeInv'
      BY <1>1, <3>1, <3>3 DEF CallInv, MediaInv, AgreeInv, n
    <3>5. \A k \in Lun : Untouched(k) => Untouched(k)'
      BY <1>1, <3>1, <3>3 DEF Untouched, n
    <3> QED BY <3>4, <3>5
  <2> QED BY <2>1, <2>2 DEF Kernel
<1>3. MediaInv'
  <2>1. CleanInv'
    BY <1>1 DEF CallInv, MediaInv, CleanInv
  <2>2. pc \in {"check", "xbl"} => dirty'[lun] = {}
    BY <1>1 DEF CallInv, MediaInv, TypeOK
  <2> QED BY <1>1, <1>2, <2>1, <2>2 DEF CallInv, MediaInv
<1>4. XblInv'
  <2>1. \A l \in Lun : Refused(l)' = Refused(l)
    BY <1>1 DEF Refused
  <2> QED BY <1>1, <1>2, <2>1 DEF CallInv, XblInv
<1>5. FinalInv'
  BY <1>1 DEF CallInv, FinalInv, Redundant, EntriesOK, AllNew, Complete
<1> QED BY <1>3, <1>4, <1>5 DEF CallInv

LEMMA PowerCall ==
  ASSUME TypeOK, CallInv, PowerLoss
  PROVE  CallInv'
<1>1. /\ cache' = disk /\ dirty' = [l \in Lun |-> {}] /\ pc' = "idle" /\ grant' = "none"
      /\ UNCHANGED <<disk, bootLun, img, stage, todo, lun, r, isError, done, cut>>
  BY DEF PowerLoss
<1>2. MediaInv'
  BY <1>1 DEF MediaInv, AgreeInv, CleanInv
<1>3. XblInv'
  BY <1>1 DEF CallInv, XblInv, Untouched
<1>4. FinalInv'
  <2>1. done => AllNew /\ bootLun = "primary" /\ \A l \in Lun : Redundant(cache[l])
    BY DEF CallInv, FinalInv
  <2>2. done => \A l \in Lun : Redundant(disk[l])
    BY <2>1 DEF CallInv, MediaInv, CleanInv, AgreeInv, Redundant, EntriesOK, PrimaryUsable
  <2> QED BY <1>1, <2>1, <2>2 DEF FinalInv, Redundant, EntriesOK, AllNew, Complete
<1> QED BY <1>2, <1>3, <1>4 DEF CallInv

LEMMA CallInductive == Spec => []CallInv
<1>1. TypeOK /\ CallInv /\ [Next]_vars => CallInv'
  <2> SUFFICES ASSUME TypeOK, CallInv, [Next]_vars PROVE CallInv'
    OBVIOUS
  <2>1. CASE Program
    BY <2>1, LoopCall, CheckCall, XblCall, HeaderCall, EntriesCall, StatesCall, ExitCall
       DEF Program
  <2>2. CASE Kernel \/ Updater \/ SystemCallFails \/ PowerLoss
    BY <2>2, KernelCall, UpdaterCall, ExitCall, PowerCall
  <2>3. CASE UNCHANGED vars
    BY <2>3 DEF vars, mediaVars, callVars, updaterVars, boundVars, CallInv, MediaInv, AgreeInv,
       CleanInv, XblInv, Untouched, Refused, FinalInv, Redundant, EntriesOK, AllNew, Complete
  <2>4. CASE ShortWrite
    BY <2>4, EntriesCall
  <2> QED BY <2>1, <2>2, <2>3, <2>4 DEF Next
<1> QED BY <1>1, CallInvInit, TypeCorrect, PTL DEF Spec

(* While the updater may overwrite the backup copy of the XBL, the device  *)
(* boots from the primary one -- also when power was lost before, and when *)
(* BACKUP has found every LUN set and switched nothing itself.             *)
THEOREM XblGrantSafe == Spec => []XblBackupNotLive
<1>1. CallInv => XblBackupNotLive
  BY DEF CallInv, XblInv, XblBackupNotLive
<1> QED BY <1>1, CallInductive, PTL

(* When FINALIZE has returned 0, the medium has both tables of every LUN,  *)
(* every image is new, and XBL boots from LUN A, and it stays so.          *)
THEOREM FinalizedSafe == Spec => []FinalizedIsRedundant
<1>1. TypeOK /\ CallInv => FinalizedIsRedundant
  <2> SUFFICES ASSUME TypeOK, CallInv, done PROVE FinalizedIsRedundant
    BY DEF FinalizedIsRedundant
  <2>1. AllNew /\ bootLun = "primary" /\ \A l \in Lun : Redundant(cache[l])
    BY DEF CallInv, FinalInv
  <2>2. \A l \in Lun : Redundant(disk[l])
    BY <2>1 DEF CallInv, MediaInv, CleanInv, AgreeInv, Redundant, EntriesOK, PrimaryUsable
  <2>3. \A u \in Unit, c \in Chain : img[u][c] = "new"
    BY <2>1 DEF AllNew, Complete
  <2> QED BY <2>1, <2>2, <2>3
          DEF FinalizedIsRedundant, Redundant, EntriesOK, SecondaryUsable
<1> QED BY <1>1, TypeCorrect, CallInductive, PTL

=============================================================================
