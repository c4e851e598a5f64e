---------------------------- MODULE GptDiskProofs ----------------------------
(***************************************************************************)
(* Proofs about GptDisk, for any handles, partitions, sessions, faults and *)
(* power losses.                                                           *)
(*                                                                         *)
(* The argument: the secondary table is never written (SecondaryKept); a   *)
(* handle carries arrays from the reads on, and matching header and array  *)
(* from the CRC update on (HandleInv); the medium has every clean block of *)
(* the cache (AgreeInv); and as long as no two handles have been in use at *)
(* once, what the only user has not edited is what the cache holds         *)
(* (AloneInv).                                                             *)
(***************************************************************************)
EXTENDS GptDisk, TLAPS

Copied == {"pentry_arr_bak", "edit", "update_crc"}
Ready == {"set_header", "set_pentry_arr", "committed"}

SecondaryKept ==
  /\ Valid(medium["secondary"]) /\ cache["secondary"] = medium["secondary"]
  /\ \A b \in {"hdr"} \cup Part : <<"secondary", b>> \notin dirty

HandleInv ==
  \A h \in Handle :
    /\ pc[h] \in Copied \cup Ready => disk[h].pentry_arr \in Array
    /\ pc[h] \in {"edit", "update_crc"} => disk[h].pentry_arr_bak \in Array
    /\ pc[h] \in Ready => disk[h].hdr = disk[h].pentry_arr

AgreeInv ==
  /\ <<"primary", "hdr">> \notin dirty => cache["primary"].hdr = medium["primary"].hdr
  /\ \A p \in Part : <<"primary", p>> \notin dirty =>
       cache["primary"].ent[p] = medium["primary"].ent[p]

(* The state of the only handle in use.                                    *)
AloneInv ==
  /\ \A g, h \in Handle : pc[g] # "free" /\ pc[h] # "free" => g = h
  /\ \A h \in Handle :
       /\ pc[h] \in Copied \cup {"set_header", "set_pentry_arr"} =>
            \A p \in Part \ edits[h] : disk[h].pentry_arr[p] = cache["primary"].ent[p]
       /\ pc[h] \in {"set_pentry_arr", "committed"} => cache["primary"].hdr = disk[h].hdr
       /\ pc[h] = "committed" => cache["primary"].ent = disk[h].pentry_arr

IInv == /\ TypeOK /\ SecondaryKept /\ HandleInv /\ AgreeInv
        /\ ~overlap => AloneInv /\ NoLostUpdate

-----------------------------------------------------------------------------
USE DEF Bit, Array, Copy, Table, Valid, Disk, Copied, Ready

Step == {"free", "hdr", "hdr_bak", "pentry_arr", "pentry_arr_bak", "edit",
         "update_crc", "set_header", "set_pentry_arr", "committed", "failed"}

(* The user of one handle takes a step to next, and leaves in it the       *)
(* arrays d and the edits e.                                               *)
HandleStep(h, d, next, e) ==
  /\ disk' = [disk EXCEPT ![h] = d] /\ pc' = [pc EXCEPT ![h] = next]
  /\ edits' = [edits EXCEPT ![h] = e]

LEMMA HandleStepFacts ==
  ASSUME TypeOK, NEW h \in Handle, NEW d \in Disk, NEW next \in Step,
         NEW e \in SUBSET Part, HandleStep(h, d, next, e)
  PROVE  /\ disk' \in [Handle -> Disk] /\ pc' \in [Handle -> Step]
         /\ edits' \in [Handle -> SUBSET Part]
         /\ disk'[h] = d /\ pc'[h] = next /\ edits'[h] = e
         /\ \A g \in Handle \ {h} : disk'[g] = disk[g] /\ pc'[g] = pc[g]
                                                       /\ edits'[g] = edits[g]
BY DEF HandleStep, TypeOK, Step

LEMMA TypeStep ==
  ASSUME TypeOK, NEW h \in Handle, NEW d \in Disk, NEW next \in Step,
         NEW e \in SUBSET Part, HandleStep(h, d, next, e), UNCHANGED tables,
         promised' = promised, sessions' \in Nat, losses' \in Nat, faults' \in Nat,
         overlap' \in BOOLEAN
  PROVE  TypeOK'
BY HandleStepFacts DEF TypeOK, tables, Step

LEMMA NullDiskType == NullDisk \in Disk
BY DEF NullDisk

(* What each step of the user writes into the handle.                      *)
LEMMA ReadStep ==
  ASSUME TypeOK, NEW h \in Handle, ReadInfo(h)
  PROVE  \E d \in Disk, next \in {"hdr_bak", "pentry_arr", "pentry_arr_bak", "edit"} :
           /\ HandleStep(h, d, next, edits[h])
           /\ pc[h] \in {"hdr", "hdr_bak", "pentry_arr", "pentry_arr_bak"}
           /\ next = "pentry_arr_bak" => d.pentry_arr = cache["primary"].ent
           /\ next = "edit" => /\ pc[h] = "pentry_arr_bak"
                               /\ d.pentry_arr = disk[h].pentry_arr
                               /\ d.pentry_arr_bak = cache["primary"].ent
<1> DEFINE a == cache["primary"].hdr
           b == cache["primary"].ent
<1>1. a \in Array /\ b \in Array /\ disk[h] \in Disk
  BY DEF TypeOK
<1>2. edits' = [edits EXCEPT ![h] = edits[h]]
  BY DEF ReadInfo, TypeOK
<1>3. CASE pc[h] = "hdr"
  <2>1. disk' = [disk EXCEPT ![h] = [@ EXCEPT !.hdr = a]] /\ Goto(h, "hdr_bak")
    BY <1>3 DEF ReadInfo, ReadFrom
  <2>2. [disk[h] EXCEPT !.hdr = a] \in Disk
    BY <1>1
  <2> QED BY <2>1, <2>2, <1>2, <1>3 DEF HandleStep, Goto, TypeOK
<1>4. CASE pc[h] = "hdr_bak"
  <2>1. disk' = [disk EXCEPT ![h] = [@ EXCEPT !.hdr_bak = a]] /\ Goto(h, "pentry_arr")
    BY <1>4 DEF ReadInfo, ReadFrom
  <2>2. [disk[h] EXCEPT !.hdr_bak = a] \in Disk
    BY <1>1
  <2> QED BY <2>1, <2>2, <1>2, <1>4 DEF HandleStep, Goto, TypeOK
<1>5. CASE pc[h] = "pentry_arr"
  <2>1. disk' = [disk EXCEPT ![h] = [@ EXCEPT !.pentry_arr = b]] /\ Goto(h, "pentry_arr_bak")
    BY <1>5 DEF ReadInfo, ReadFrom
  <2>2. [disk[h] EXCEPT !.pentry_arr = b] \in Disk
    BY <1>1
  <2>3. [disk[h] EXCEPT !.pentry_arr = b].pentry_arr = b
    BY <1>1
  <2> QED BY <2>1, <2>2, <2>3, <1>2, <1>5 DEF HandleStep, Goto, TypeOK
<1>6. CASE pc[h] = "pentry_arr_bak"
  <2> DEFINE d == [disk[h] EXCEPT !.pentry_arr_bak = b]
  <2>1. disk' = [disk EXCEPT ![h] = d] /\ Goto(h, "edit")
    BY <1>6 DEF ReadInfo, ReadFrom
  <2>2. d \in Disk
    BY <1>1
  <2>3. d.pentry_arr_bak = b /\ d.pentry_arr = disk[h].pentry_arr
    BY <1>1
  <2> HIDE DEF d
  <2> QED BY <2>1, <2>2, <2>3, <1>2, <1>6 DEF HandleStep, Goto
<1>7. pc[h] \in {"hdr", "hdr_bak", "pentry_arr", "pentry_arr_bak"}
  BY DEF ReadInfo
<1> QED BY <1>3, <1>4, <1>5, <1>6, <1>7

LEMMA EditStep ==
  ASSUME IInv, NEW h \in Handle, NEW p \in Part, NEW v \in Bit, gpt_disk_get_pentry(h, p, v)
  PROVE  \E d \in Disk :
           /\ HandleStep(h, d, "update_crc", edits[h] \cup {p})
           /\ \A q \in Part \ {p} : d.pentry_arr[q] = disk[h].pentry_arr[q]
           /\ d.pentry_arr \in Array /\ d.pentry_arr_bak \in Array
<1> DEFINE a == [disk[h].pentry_arr EXCEPT ![p] = v]
           b == [disk[h].pentry_arr_bak EXCEPT ![p] = v]
           d == [disk[h] EXCEPT !.pentry_arr = a, !.pentry_arr_bak = b]
<1>1. disk[h] \in Disk /\ disk[h].pentry_arr \in Array /\ disk[h].pentry_arr_bak \in Array
  BY DEF IInv, TypeOK, HandleInv, gpt_disk_get_pentry
<1>2. a \in Array /\ b \in Array
  BY <1>1
<1>3. d \in Disk /\ d.pentry_arr = a /\ d.pentry_arr_bak = b
  <2> HIDE DEF a, b
  <2> QED BY <1>1, <1>2
<1>4. disk' = [disk EXCEPT ![h] = d]
  <2>1. disk \in [Handle -> Disk] /\ disk[h] \in Disk
    BY DEF IInv, TypeOK
  <2>2. disk' = [disk EXCEPT ![h].pentry_arr[p] = v, ![h].pentry_arr_bak[p] = v]
    BY DEF gpt_disk_get_pentry
  <2> DEFINE c == [disk EXCEPT ![h].pentry_arr[p] = v]
  <2>3. c = [disk EXCEPT ![h] = [disk[h] EXCEPT !.pentry_arr = a]]
    BY <2>1
  <2>4. disk' = [c EXCEPT ![h].pentry_arr_bak[p] = v]
    BY <2>2
  <2>5. c[h] = [disk[h] EXCEPT !.pentry_arr = a]
    BY <2>1, <2>3
  <2> HIDE DEF c, a
  <2>6. c[h].pentry_arr_bak = disk[h].pentry_arr_bak
    BY <2>1, <2>5
  <2>7. disk' = [c EXCEPT ![h] = [c[h] EXCEPT !.pentry_arr_bak = b]]
    BY <2>1, <2>3, <2>4, <2>6
  <2> QED BY <2>1, <2>3, <2>5, <2>7
<1>5. edits' = [edits EXCEPT ![h] = edits[h] \cup {p}] /\ pc' = [pc EXCEPT ![h] = "update_crc"]
  BY DEF gpt_disk_get_pentry, Goto, IInv, TypeOK
<1>6. \A q \in Part \ {p} : a[q] = disk[h].pentry_arr[q]
  BY <1>1
<1> HIDE DEF d, a, b
<1> QED BY <1>2, <1>3, <1>4, <1>5, <1>6 DEF HandleStep

LEMMA CrcStep ==
  ASSUME IInv, NEW h \in Handle, gpt_disk_update_crc(h)
  PROVE  \E d \in Disk :
           /\ HandleStep(h, d, "set_header", edits[h])
           /\ d.hdr = disk[h].pentry_arr /\ d.pentry_arr = disk[h].pentry_arr
           /\ d.pentry_arr \in Array
<1> DEFINE d == [disk[h] EXCEPT !.hdr = disk[h].pentry_arr, !.hdr_bak = disk[h].pentry_arr_bak]
<1>1. disk[h] \in Disk /\ disk[h].pentry_arr \in Array /\ disk[h].pentry_arr_bak \in Array
  BY DEF IInv, TypeOK, HandleInv, gpt_disk_update_crc
<1>2. d \in Disk /\ d.hdr = disk[h].pentry_arr /\ d.pentry_arr = disk[h].pentry_arr
  BY <1>1
<1>3. disk' = [disk EXCEPT ![h] = d]
  BY DEF gpt_disk_update_crc, IInv, TypeOK
<1>4. edits' = [edits EXCEPT ![h] = edits[h]] /\ pc' = [pc EXCEPT ![h] = "set_header"]
  BY DEF gpt_disk_update_crc, Goto, IInv, TypeOK
<1> HIDE DEF d
<1> QED BY <1>1, <1>2, <1>3, <1>4 DEF HandleStep

(* A step that leaves the tables and the promises alone.                   *)
LEMMA QuietTables ==
  ASSUME IInv, UNCHANGED <<tables, promised>>, ~overlap' => ~overlap
  PROVE  SecondaryKept' /\ AgreeInv' /\ (~overlap' => NoLostUpdate')
BY DEF IInv, tables, SecondaryKept, AgreeInv, NoLostUpdate

(* A handle stays as consistent as its user's step leaves it.              *)
LEMMA OneHandle ==
  ASSUME IInv, NEW h \in Handle, NEW d \in Disk, NEW next \in Step, NEW e \in SUBSET Part,
         HandleStep(h, d, next, e),
         next \in Copied \cup Ready => d.pentry_arr \in Array,
         next \in {"edit", "update_crc"} => d.pentry_arr_bak \in Array,
         next \in Ready => d.hdr = d.pentry_arr
  PROVE  HandleInv'
<1>1. TypeOK /\ HandleInv
  BY DEF IInv
<1> QED BY <1>1, HandleStepFacts DEF HandleInv

(* The same of the only handle in use, when its step leaves the cache.     *)
LEMMA OnlyHandle ==
  ASSUME IInv, NEW h \in Handle, NEW d \in Disk, NEW next \in Step, NEW e \in SUBSET Part,
         HandleStep(h, d, next, e), ~overlap, UNCHANGED cache, pc[h] # "free",
         next \in Copied \cup {"set_header", "set_pentry_arr"} =>
           \A p \in Part \ e : d.pentry_arr[p] = cache["primary"].ent[p],
         next \notin {"set_pentry_arr", "committed"}
  PROVE  AloneInv'
<1>1. TypeOK /\ AloneInv
  BY DEF IInv
<1>2. \A g \in Handle \ {h} : pc[g] = "free" /\ pc'[g] = "free"
  BY <1>1, HandleStepFacts DEF AloneInv
<1>3. disk'[h] = d /\ pc'[h] = next /\ edits'[h] = e
  BY <1>1, HandleStepFacts
<1>4. \A g, k \in Handle : pc'[g] # "free" /\ pc'[k] # "free" => g = k
  BY <1>2
<1>5. \A g \in Handle : pc'[g] # "free" => g = h
  BY <1>2
<1> QED BY <1>3, <1>4, <1>5 DEF AloneInv

LEMMA InitOK == Init => IInv
<1> SUFFICES ASSUME Init PROVE IInv
  OBVIOUS
<1>1. PICK a \in Array : medium = [c \in Copy |-> [hdr |-> a, ent |-> a]]
  BY DEF Init
<1>2. TypeOK
  BY <1>1, NullDiskType DEF Init, TypeOK, Block, Step
<1>3. SecondaryKept /\ AgreeInv /\ NoLostUpdate
  BY <1>1 DEF Init, SecondaryKept, AgreeInv, NoLostUpdate
<1>4. HandleInv /\ AloneInv
  BY DEF Init, HandleInv, AloneInv
<1> QED BY <1>2, <1>3, <1>4 DEF IInv

LEMMA AllocOK ==
  ASSUME IInv, NEW h \in Handle, gpt_disk_alloc(h)
  PROVE  IInv'
<1>1. TypeOK /\ UNCHANGED <<tables, losses, faults, promised>>
  BY DEF IInv, gpt_disk_alloc
<1>2. HandleStep(h, NullDisk, "hdr", {})
  BY DEF gpt_disk_alloc, HandleStep, Goto
<1>3. TypeOK'
  BY <1>1, <1>2, NullDiskType, TypeStep DEF gpt_disk_alloc, TypeOK, tables, Step
<1>4. overlap' = (overlap \/ \E g \in Handle : pc[g] # "free")
  BY DEF gpt_disk_alloc
<1>5. SecondaryKept' /\ AgreeInv' /\ (~overlap' => NoLostUpdate')
  BY <1>1, <1>4, QuietTables
<1>6. HandleInv'
  BY <1>2, NullDiskType, OneHandle DEF Step
<1>7. ASSUME ~overlap' PROVE AloneInv'
  <2>1. \A g \in Handle : pc[g] = "free"
    BY <1>4, <1>7
  <2>2. \A g \in Handle : pc'[g] # "free" => g = h /\ pc'[g] = "hdr"
    BY <2>1, <1>1, <1>2, HandleStepFacts, NullDiskType DEF Step
  <2> QED BY <2>2 DEF AloneInv
<1> QED BY <1>3, <1>5, <1>6, <1>7 DEF IInv

LEMMA ReadOK ==
  ASSUME IInv, NEW h \in Handle, ReadInfo(h)
  PROVE  IInv'
<1>1. TypeOK /\ HandleInv /\ UNCHANGED <<tables, bounds, promised, overlap>>
  BY DEF IInv, ReadInfo
<1>2. PICK d \in Disk, next \in {"hdr_bak", "pentry_arr", "pentry_arr_bak", "edit"} :
         /\ HandleStep(h, d, next, edits[h])
         /\ pc[h] \in {"hdr", "hdr_bak", "pentry_arr", "pentry_arr_bak"}
         /\ next = "pentry_arr_bak" => d.pentry_arr = cache["primary"].ent
         /\ next = "edit" => /\ pc[h] = "pentry_arr_bak"
                             /\ d.pentry_arr = disk[h].pentry_arr
                             /\ d.pentry_arr_bak = cache["primary"].ent
  BY <1>1, ReadStep
<1>3. next \in Step /\ edits[h] \in SUBSET Part /\ cache["primary"].ent \in Array
  BY <1>1 DEF TypeOK, Step
<1>4. TypeOK'
  BY <1>1, <1>2, <1>3, TypeStep DEF TypeOK, tables, bounds
<1>5. SecondaryKept' /\ AgreeInv' /\ (~overlap' => NoLostUpdate')
  BY <1>1, QuietTables
<1>6. next \in Copied \cup Ready => d.pentry_arr \in Array
  BY <1>1, <1>2, <1>3 DEF HandleInv
<1>7. HandleInv'
  BY <1>2, <1>3, <1>6, OneHandle
<1>8. ASSUME ~overlap' PROVE AloneInv'
  <2>1. AloneInv /\ ~overlap
    BY <1>1, <1>8 DEF IInv
  <2>2. next \in Copied => \A p \in Part \ edits[h] : d.pentry_arr[p] = cache["primary"].ent[p]
    BY <1>2, <2>1 DEF AloneInv
  <2> QED BY <1>1, <1>2, <1>3, <2>1, <2>2, OnlyHandle DEF tables
<1> QED BY <1>4, <1>5, <1>7, <1>8 DEF IInv

LEMMA EditOK ==
  ASSUME IInv, NEW h \in Handle, NEW p \in Part, NEW v \in Bit, gpt_disk_get_pentry(h, p, v)
  PROVE  IInv'
<1>1. TypeOK /\ HandleInv /\ UNCHANGED <<tables, bounds, promised, overlap>>
  BY DEF IInv, gpt_disk_get_pentry
<1>2. PICK d \in Disk :
         /\ HandleStep(h, d, "update_crc", edits[h] \cup {p})
         /\ \A q \in Part \ {p} : d.pentry_arr[q] = disk[h].pentry_arr[q]
         /\ d.pentry_arr \in Array /\ d.pentry_arr_bak \in Array
  BY EditStep
<1>3. edits[h] \cup {p} \in SUBSET Part /\ "update_crc" \in Step
  BY <1>1 DEF TypeOK, Step
<1>4. TypeOK'
  BY <1>1, <1>2, <1>3, TypeStep DEF TypeOK, tables, bounds
<1>5. SecondaryKept' /\ AgreeInv' /\ (~overlap' => NoLostUpdate')
  BY <1>1, QuietTables
<1>6. HandleInv'
  BY <1>2, <1>3, OneHandle
<1>7. ASSUME ~overlap' PROVE AloneInv'
  <2>1. AloneInv /\ ~overlap
    BY <1>1, <1>7 DEF IInv
  <2>2. disk[h].pentry_arr \in Array /\ pc[h] \in {"edit", "update_crc"}
    BY <1>1 DEF HandleInv, gpt_disk_get_pentry
  <2>3. \A q \in Part \ edits[h] : disk[h].pentry_arr[q] = cache["primary"].ent[q]
    BY <2>1, <2>2 DEF AloneInv
  <2>4. \A q \in Part \ (edits[h] \cup {p}) : d.pentry_arr[q] = cache["primary"].ent[q]
    BY <1>2, <2>2, <2>3
  <2> QED BY <1>1, <1>2, <1>3, <2>1, <2>2, <2>4, OnlyHandle DEF tables
<1> QED BY <1>4, <1>5, <1>6, <1>7 DEF IInv

LEMMA CrcOK ==
  ASSUME IInv, NEW h \in Handle, gpt_disk_update_crc(h)
  PROVE  IInv'
<1>1. TypeOK /\ HandleInv /\ UNCHANGED <<tables, bounds, promised, overlap>> /\ pc[h] = "update_crc"
  BY DEF IInv, gpt_disk_update_crc
<1>2. PICK d \in Disk :
         /\ HandleStep(h, d, "set_header", edits[h])
         /\ d.hdr = disk[h].pentry_arr /\ d.pentry_arr = disk[h].pentry_arr
         /\ d.pentry_arr \in Array
  BY CrcStep
<1>3. edits[h] \in SUBSET Part /\ "set_header" \in Step
  BY <1>1 DEF TypeOK, Step
<1>4. TypeOK'
  BY <1>1, <1>2, <1>3, TypeStep DEF TypeOK, tables, bounds
<1>5. SecondaryKept' /\ AgreeInv' /\ (~overlap' => NoLostUpdate')
  BY <1>1, QuietTables
<1>6. HandleInv'
  BY <1>2, <1>3, OneHandle
<1>7. ASSUME ~overlap' PROVE AloneInv'
  <2>1. AloneInv /\ ~overlap
    BY <1>1, <1>7 DEF IInv
  <2>2. \A q \in Part \ edits[h] : d.pentry_arr[q] = cache["primary"].ent[q]
    BY <1>1, <1>2, <2>1 DEF AloneInv
  <2> QED BY <1>1, <1>2, <1>3, <2>1, <2>2, OnlyHandle DEF tables
<1> QED BY <1>4, <1>5, <1>6, <1>7 DEF IInv

LEMMA FailOK ==
  ASSUME IInv, NEW h \in Handle, Fail(h)
  PROVE  IInv'
<1>1. TypeOK /\ UNCHANGED <<tables, disk, edits, sessions, losses, promised, overlap>>
  BY DEF IInv, Fail
<1>2. HandleStep(h, disk[h], "failed", edits[h]) /\ pc[h] # "free"
  BY <1>1 DEF Fail, HandleStep, Goto, TypeOK
<1>3. disk[h] \in Disk /\ edits[h] \in SUBSET Part /\ "failed" \in Step
  BY <1>1 DEF TypeOK, Step
<1>4. sessions' \in Nat /\ losses' \in Nat /\ faults' \in Nat /\ overlap' \in BOOLEAN
  BY <1>1 DEF Fail, TypeOK
<1>5. TypeOK'
  BY <1>1, <1>2, <1>3, <1>4, TypeStep
<1>6. SecondaryKept' /\ AgreeInv' /\ (~overlap' => NoLostUpdate')
  BY <1>1, QuietTables
<1>7. HandleInv'
  BY <1>2, <1>3, OneHandle
<1>8. ASSUME ~overlap' PROVE AloneInv'
  BY <1>1, <1>2, <1>3, <1>8, OnlyHandle DEF tables
<1> QED BY <1>5, <1>6, <1>7, <1>8 DEF IInv

LEMMA FreeOK ==
  ASSUME IInv, NEW h \in Handle, gpt_disk_free(h)
  PROVE  IInv'
<1>1. TypeOK /\ UNCHANGED <<tables, bounds, promised, overlap>> /\ pc[h] # "free"
  BY DEF IInv, gpt_disk_free
<1>2. HandleStep(h, NullDisk, "free", {})
  BY DEF gpt_disk_free, HandleStep, Goto
<1>3. {} \in SUBSET Part /\ "free" \in Step
  BY DEF Step
<1>4. TypeOK'
  BY <1>1, <1>2, <1>3, NullDiskType, TypeStep DEF TypeOK, tables, bounds
<1>5. SecondaryKept' /\ AgreeInv' /\ (~overlap' => NoLostUpdate')
  BY <1>1, QuietTables
<1>6. HandleInv'
  BY <1>2, <1>3, NullDiskType, OneHandle
<1>7. ASSUME ~overlap' PROVE AloneInv'
  BY <1>1, <1>2, <1>3, <1>7, NullDiskType, OnlyHandle DEF tables
<1> QED BY <1>4, <1>5, <1>6, <1>7 DEF IInv

LEMMA HeaderOK ==
  ASSUME IInv, NEW h \in Handle, CommitHeader(h)
  PROVE  IInv'
<1>1. /\ TypeOK /\ SecondaryKept /\ HandleInv /\ AgreeInv /\ pc[h] = "set_header"
      /\ UNCHANGED <<medium, disk, edits, bounds, promised, overlap>>
      /\ dirty' = dirty \cup {<<"primary", "hdr">>}
  BY DEF IInv, CommitHeader
<1>2. disk[h] \in Disk /\ disk[h].pentry_arr \in Array /\ disk[h].hdr = disk[h].pentry_arr
  BY <1>1 DEF HandleInv, TypeOK
<1>3. /\ cache' \in [Copy -> Table] /\ cache'["secondary"] = cache["secondary"]
      /\ cache'["primary"].hdr = disk[h].hdr /\ cache'["primary"].ent = cache["primary"].ent
  BY <1>1, <1>2 DEF CommitHeader, TypeOK
<1>4. /\ HandleStep(h, disk[h], "set_pentry_arr", edits[h])
      /\ edits[h] \in SUBSET Part /\ "set_pentry_arr" \in Step
  BY <1>1 DEF CommitHeader, HandleStep, Goto, TypeOK, Step
<1>5. TypeOK'
  <2>1. pc' \in [Handle -> Step]
    BY <1>1, <1>2, <1>4, HandleStepFacts
  <2> QED BY <1>1, <1>3, <2>1 DEF TypeOK, bounds, Step, Block
<1>6. SecondaryKept' /\ AgreeInv'
  BY <1>1, <1>3, DiskAssumption DEF SecondaryKept, AgreeInv
<1>7. HandleInv'
  BY <1>2, <1>4, OneHandle
<1>8. ASSUME ~overlap' PROVE AloneInv' /\ NoLostUpdate'
  <2>1. AloneInv /\ NoLostUpdate /\ ~overlap
    BY <1>1, <1>8 DEF IInv
  <2>2. \A g \in Handle : pc'[g] # "free" => g = h
    BY <1>1, <1>2, <1>4, <2>1, HandleStepFacts DEF AloneInv
  <2>3. pc'[h] = "set_pentry_arr" /\ disk' = disk /\ edits' = edits
    BY <1>1, <1>2, <1>4, HandleStepFacts
  <2> QED BY <1>1, <1>3, <2>1, <2>2, <2>3 DEF AloneInv, NoLostUpdate
<1> QED BY <1>5, <1>6, <1>7, <1>8 DEF IInv

LEMMA EntriesOK ==
  ASSUME IInv, NEW h \in Handle, CommitEntries(h)
  PROVE  IInv'
<1>1. /\ TypeOK /\ SecondaryKept /\ HandleInv /\ AgreeInv /\ pc[h] = "set_pentry_arr"
      /\ UNCHANGED <<medium, disk, edits, bounds, overlap>>
      /\ dirty' = dirty \cup ({"primary"} \X Part)
      /\ promised' = [p \in Part |-> IF p \in edits[h] THEN disk[h].pentry_arr[p]
                                                       ELSE promised[p]]
  BY DEF IInv, CommitEntries
<1>2. disk[h] \in Disk /\ disk[h].pentry_arr \in Array /\ disk[h].hdr = disk[h].pentry_arr
  BY <1>1 DEF HandleInv, TypeOK
<1>3. /\ cache' \in [Copy -> Table] /\ cache'["secondary"] = cache["secondary"]
      /\ cache'["primary"].ent = disk[h].pentry_arr
      /\ cache'["primary"].hdr = cache["primary"].hdr
  BY <1>1, <1>2 DEF CommitEntries, TypeOK
<1>4. /\ HandleStep(h, disk[h], "committed", edits[h])
      /\ edits[h] \in SUBSET Part /\ "committed" \in Step
  BY <1>1 DEF CommitEntries, HandleStep, Goto, TypeOK, Step
<1>5. TypeOK'
  <2>1. pc' \in [Handle -> Step]
    BY <1>1, <1>2, <1>4, HandleStepFacts
  <2>2. promised' \in [Part -> Bit \cup {Unknown}]
    BY <1>1, <1>2 DEF TypeOK
  <2>3. dirty' \subseteq Block
    BY <1>1 DEF TypeOK, Block
  <2> QED BY <1>1, <1>3, <2>1, <2>2, <2>3 DEF TypeOK, bounds, Step
<1>6. SecondaryKept' /\ AgreeInv'
  <2>1. \A b : <<"secondary", b>> \in dirty' => <<"secondary", b>> \in dirty
    BY <1>1
  <2>2. \A p \in Part : <<"primary", p>> \in dirty'
    BY <1>1
  <2>3. <<"primary", "hdr">> \notin dirty' => <<"primary", "hdr">> \notin dirty
    BY <1>1
  <2> QED BY <1>1, <1>3, <2>1, <2>2, <2>3 DEF SecondaryKept, AgreeInv
<1>7. HandleInv'
  BY <1>2, <1>4, OneHandle
<1>8. ASSUME ~overlap' PROVE AloneInv' /\ NoLostUpdate'
  <2>1. AloneInv /\ NoLostUpdate /\ ~overlap
    BY <1>1, <1>8 DEF IInv
  <2>2. \A g \in Handle : pc'[g] # "free" => g = h
    BY <1>1, <1>2, <1>4, <2>1, HandleStepFacts DEF AloneInv
  <2>3. pc'[h] = "committed" /\ disk' = disk
    BY <1>1, <1>2, <1>4, HandleStepFacts
  <2>4. cache["primary"].hdr = disk[h].hdr
        /\ \A p \in Part \ edits[h] : disk[h].pentry_arr[p] = cache["primary"].ent[p]
    BY <1>1, <2>1 DEF AloneInv
  <2>5. AloneInv'
    BY <1>3, <2>2, <2>3, <2>4 DEF AloneInv
  <2>6. ASSUME NEW p \in Part, promised'[p] # Unknown
        PROVE  cache'["primary"].ent[p] = promised'[p]
    BY <1>1, <1>3, <2>1, <2>4, <2>6 DEF NoLostUpdate
  <2> QED BY <2>5, <2>6 DEF NoLostUpdate
<1> QED BY <1>5, <1>6, <1>7, <1>8 DEF IInv

LEMMA WritebackOK ==
  ASSUME IInv, NEW c \in Copy, NEW b \in {"hdr"} \cup Part, Writeback(c, b)
  PROVE  IInv'
<1>1. /\ TypeOK /\ SecondaryKept /\ HandleInv /\ AgreeInv /\ c = "primary"
      /\ UNCHANGED <<cache, disk, pc, edits, bounds, promised, overlap>>
      /\ dirty' = dirty \ {<<c, b>>}
  BY DEF IInv, Writeback, SecondaryKept
<1>2. medium' \in [Copy -> Table] /\ medium'["secondary"] = medium["secondary"]
  <2>1. CASE b = "hdr"
    BY <1>1, <2>1 DEF Writeback, TypeOK
  <2>2. CASE b # "hdr"
    <3>1. medium' = [medium EXCEPT ![c].ent[b] = cache[c].ent[b]] /\ b \in Part
      BY <2>2 DEF Writeback
    <3>2. medium[c].ent \in Array /\ cache[c].ent[b] \in Bit
      BY <1>1, <3>1 DEF TypeOK
    <3> QED BY <1>1, <3>1, <3>2 DEF TypeOK
  <2> QED BY <2>1, <2>2
<1>3. TypeOK'
  BY <1>1, <1>2 DEF TypeOK, bounds
<1>4. SecondaryKept'
  BY <1>1, <1>2 DEF SecondaryKept
<1>5. AgreeInv'
  <2>1. CASE b = "hdr"
    <3>1. /\ medium'["primary"].hdr = cache["primary"].hdr
          /\ medium'["primary"].ent = medium["primary"].ent
      BY <1>1, <2>1 DEF Writeback, TypeOK
    <3>2. \A p \in Part : <<"primary", p>> \notin dirty' => <<"primary", p>> \notin dirty
      BY <1>1, <2>1, DiskAssumption
    <3> QED BY <1>1, <3>1, <3>2 DEF AgreeInv
  <2>2. CASE b # "hdr"
    <3>1. /\ medium'["primary"].hdr = medium["primary"].hdr
          /\ medium'["primary"].ent = [medium["primary"].ent EXCEPT ![b] = cache["primary"].ent[b]]
          /\ medium["primary"].ent \in Array
      BY <1>1, <2>2 DEF Writeback, TypeOK
    <3>2. <<"primary", "hdr">> \notin dirty' => <<"primary", "hdr">> \notin dirty
      BY <1>1, <2>2
    <3>3. \A p \in Part \ {b} : <<"primary", p>> \notin dirty' => <<"primary", p>> \notin dirty
      BY <1>1
    <3>4. \A p \in Part : medium'["primary"].ent[p] = IF p = b THEN cache["primary"].ent[p]
                                                              ELSE medium["primary"].ent[p]
      BY <3>1
    <3> QED BY <1>1, <3>1, <3>2, <3>3, <3>4 DEF AgreeInv
  <2> QED BY <2>1, <2>2
<1>6. HandleInv' /\ (~overlap' => AloneInv' /\ NoLostUpdate')
  BY <1>1 DEF IInv, HandleInv, AloneInv, NoLostUpdate
<1> QED BY <1>3, <1>4, <1>5, <1>6 DEF IInv

LEMMA PowerLossOK ==
  ASSUME IInv, PowerLoss
  PROVE  IInv'
<1>1. /\ TypeOK /\ SecondaryKept /\ AgreeInv
      /\ UNCHANGED <<medium, sessions, faults, overlap>> /\ cache' = medium /\ dirty' = {}
  BY DEF IInv, PowerLoss
<1>2. TypeOK'
  <2>1. promised' \in [Part -> Bit \cup {Unknown}]
    BY <1>1 DEF PowerLoss, TypeOK
  <2>2. losses' \in Nat
    BY <1>1 DEF PowerLoss, TypeOK
  <2> QED BY <1>1, <2>1, <2>2, NullDiskType DEF PowerLoss, TypeOK, Block
<1>3. SecondaryKept' /\ AgreeInv'
  BY <1>1 DEF SecondaryKept, AgreeInv
<1>4. HandleInv' /\ AloneInv'
  BY DEF PowerLoss, HandleInv, AloneInv
<1>5. ASSUME ~overlap, NEW p \in Part, promised'[p] # Unknown
      PROVE  cache'["primary"].ent[p] = promised'[p]
  <2>1. <<"primary", p>> \notin dirty /\ promised'[p] = promised[p]
    BY <1>5 DEF PowerLoss
  <2>2. cache["primary"].ent[p] = promised[p]
    BY <1>5, <2>1 DEF IInv, NoLostUpdate
  <2> QED BY <1>1, <2>1, <2>2 DEF AgreeInv
<1>6. ~overlap' => NoLostUpdate'
  BY <1>1, <1>5 DEF NoLostUpdate
<1> QED BY <1>2, <1>3, <1>4, <1>6 DEF IInv

(* The steps of the handles, of the kernel and a power loss all keep what  *)
(* the cache, the medium and the handles have in common.                   *)
THEOREM Inductive == Spec => []IInv
<1>1. IInv /\ [Next]_vars => IInv'
  <2> SUFFICES ASSUME IInv, [Next]_vars PROVE IInv'
    OBVIOUS
  <2>1. CASE UNCHANGED vars
    BY <2>1 DEF vars, tables, bounds, IInv, TypeOK, SecondaryKept, HandleInv, AgreeInv,
                AloneInv, NoLostUpdate
  <2>2. ASSUME NEW h \in Handle,
               \/ gpt_disk_alloc(h) \/ ReadInfo(h)
               \/ \E p \in Part, v \in Bit : gpt_disk_get_pentry(h, p, v)
               \/ gpt_disk_update_crc(h) \/ CommitHeader(h) \/ CommitEntries(h)
               \/ Fail(h) \/ gpt_disk_free(h)
        PROVE  IInv'
    BY <2>2, AllocOK, ReadOK, EditOK, CrcOK, HeaderOK, EntriesOK, FailOK, FreeOK
  <2>3. CASE Next
    BY <2>2, <2>3, WritebackOK, PowerLossOK DEF Next
  <2> QED BY <2>1, <2>3
<1> QED BY <1>1, InitOK, PTL DEF Spec

(* Every variable of the model keeps its type.                             *)
THEOREM TypeCorrect == Spec => []TypeOK
<1>1. IInv => TypeOK
  BY DEF IInv
<1> QED BY <1>1, Inductive, PTL

(* At whatever moment power is lost, and whatever the handles were doing,  *)
(* one table on the medium is valid: commit leaves the secondary one alone.*)
THEOREM ATableSurvives == Spec => []PowerLossLeavesATable
<1>1. IInv => PowerLossLeavesATable
  BY DEF IInv, SecondaryKept, PowerLossLeavesATable
<1> QED BY <1>1, Inductive, PTL

(* A commit that has returned 0 and reached the medium leaves a valid      *)
(* primary table that has the user's array, as long as handles are used    *)
(* one after the other.                                                    *)
THEOREM CommitIsValid == Spec => []CommitMakesValid
<1>1. IInv => CommitMakesValid
  <2> SUFFICES ASSUME IInv, NEW h \in Handle, pc[h] = "committed", dirty = {}, ~overlap
               PROVE  Valid(medium["primary"]) /\ medium["primary"].ent = disk[h].pentry_arr
    BY DEF CommitMakesValid
  <2>1. /\ cache["primary"].hdr = disk[h].hdr /\ cache["primary"].ent = disk[h].pentry_arr
        /\ disk[h].hdr = disk[h].pentry_arr
    BY DEF IInv, HandleInv, AloneInv
  <2>2. /\ medium["primary"].hdr = cache["primary"].hdr
        /\ \A p \in Part : medium["primary"].ent[p] = cache["primary"].ent[p]
    BY DEF IInv, AgreeInv
  <2>3. medium["primary"].ent \in Array /\ cache["primary"].ent \in Array
    BY DEF IInv, TypeOK
  <2>4. medium["primary"].ent = cache["primary"].ent
    BY <2>2, <2>3
  <2> QED BY <2>1, <2>2, <2>4
<1> QED BY <1>1, Inductive, PTL

(* Handles used one after the other never undo an earlier commit's change  *)
(* of an entry they have not edited themselves.                            *)
THEOREM CommitsAreKept == Spec => []NoLostUpdate
<1>1. IInv => NoLostUpdate
  BY DEF IInv, NoLostUpdate
<1> QED BY <1>1, Inductive, PTL

=============================================================================
