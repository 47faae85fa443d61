--------------------------- MODULE ThreadCloudProofs ---------------------------
(***************************************************************************)
(* Theorems about ThreadCloud, for any number of threads, versions,        *)
(* uploads, changes from other machines and starts.                        *)
(***************************************************************************)
EXTENDS ThreadCloud, TLAPS

(***************************************************************************)
(* Types.                                                                  *)
(***************************************************************************)

\* A merge that has an entry at hand has its thread and the file's version.
LEMMA MergeFields ==
  ASSUME NEW m \in Merges, m # NoMerge
  PROVE  /\ m.at \in {"read", "import", "found", "writing"}
         /\ m.id \in Ids /\ m.cloud \in Versions
         /\ m.at \in {"read", "import"} =>
              m \in [at : {"read", "import"}, id : Ids, cloud : Versions]
         /\ m.at \in {"found", "writing"} =>
              /\ m \in [at : {"found", "writing"}, id : Ids, cloud : Versions,
                        local : Versions]
              /\ m.local \in Versions
  BY DEF Merges

LEMMA WriteFields ==
  ASSUME NEW w \in Writes, w.at # "none"
  PROVE  /\ w \in [at : {"queued", "checked"}, id : Ids, v : Versions]
         /\ w.at \in {"queued", "checked"} /\ w.id \in Ids /\ w.v \in Versions
  BY DEF Writes, NoWrite

LEMMA InitTypes == Init => TypeOK
  <1> SUFFICES ASSUME Init PROVE TypeOK
    OBVIOUS
  <1>1. 0 .. 1 \subseteq 0 .. MaxV /\ 0 \in 0 .. MaxV
    BY CloudAssumption
  <1>2. local \in [Ids -> 0 .. MaxV] /\ top \in [Ids -> 0 .. MaxV]
    BY <1>1 DEF Init
  <1>3. file \in [Ids -> Files] /\ archive \in [Ids -> 0 .. MaxV]
    BY <1>1 DEF Init, None, Files
  <1>4. /\ 0 \in 0 .. MaxUploads /\ 0 \in 0 .. MaxArrivals
        /\ 0 \in 0 .. MaxStarts
    BY CloudAssumption
  <1>5. write \in [Writers -> Writes] /\ merge \in Merges
    BY DEF Init, Writes, Merges
  <1>6. QED
    BY <1>2, <1>3, <1>4, <1>5 DEF Init, TypeOK

LEMMA StartTypes ==
  ASSUME TypeOK, Start \/ Serve \/ Crash
  PROVE  TypeOK'
  <1>1. CASE Start
    <2>1. starts' \in 0 .. MaxStarts
      BY <1>1, CloudAssumption DEF TypeOK, Start
    <2>2. behind' \in [Ids -> BOOLEAN] /\ todo' \subseteq Ids
      BY <1>1 DEF TypeOK, Start
    <2>3. QED
      BY <1>1, <2>1, <2>2 DEF TypeOK, Start
  <1>2. CASE Serve
    BY <1>2 DEF TypeOK, Serve, processVars, ghostVars
  <1>3. CASE Crash
    <2>1. behind' \in [Ids -> BOOLEAN]
      BY <1>3 DEF TypeOK, Crash
    <2>2. write' \in [Writers -> Writes] /\ merge' \in Merges
      BY <1>3 DEF Crash, Writes, Merges
    <2>3. QED
      BY <1>3, <2>1, <2>2 DEF TypeOK, Crash
  <1>4. QED
    BY <1>1, <1>2, <1>3

LEMMA MergeTypes ==
  ASSUME TypeOK,
         \/ \E id \in Ids : ReadEntry(id)
         \/ LookUpLocal \/ DropLocal \/ ImportCloud \/ KeepLocal \/ KeptLocal
  PROVE  TypeOK'
  <1>1. CASE \E id \in Ids : ReadEntry(id)
    <2>1. PICK id \in Ids : ReadEntry(id)
      BY <1>1
    <2>2. merge' \in Merges
      BY <2>1 DEF ReadEntry, Merges
    <2>3. QED
      BY <2>1, <2>2 DEF TypeOK, ReadEntry, ghostVars
  <1>2. CASE LookUpLocal
    <2>1. merge # NoMerge /\ merge \in Merges
      BY <1>2 DEF TypeOK, LookUpLocal, NoMerge
    <2>2. merge.id \in Ids /\ merge.cloud \in Versions /\ local[merge.id] \in 0 .. MaxV
      BY <2>1, MergeFields DEF TypeOK
    <2>3. merge \in [at : {"read", "import"}, id : Ids, cloud : Versions]
      BY <1>2, <2>1, MergeFields DEF LookUpLocal
    <2>4. [merge EXCEPT !.at = "import"] \in Merges
      BY <2>3 DEF Merges
    <2>5. local[merge.id] # None =>
            [at |-> "found", id |-> merge.id, cloud |-> merge.cloud,
             local |-> local[merge.id]] \in Merges
      BY <2>2, CloudAssumption DEF Merges, Versions, None
    <2>6. merge' \in Merges
      BY <1>2, <2>4, <2>5 DEF LookUpLocal, Merges
    <2>7. QED
      BY <1>2, <2>6 DEF TypeOK, LookUpLocal, ghostVars
  <1>3. CASE DropLocal
    <2>1. merge # NoMerge /\ merge \in Merges
      BY <1>3 DEF TypeOK, DropLocal, NoMerge
    <2>2. merge.id \in Ids /\ merge.cloud \in Versions
      BY <2>1, MergeFields
    <2>3. merge' \in Merges
      BY <1>3, <2>2 DEF DropLocal, Merges
    <2>4. local' \in [Ids -> 0 .. MaxV]
      BY <1>3, CloudAssumption DEF TypeOK, DropLocal, None
    <2>5. calm' \in [Ids -> BOOLEAN]
      <3>1. (calm[merge.id] /\ local[merge.id] <= merge.cloud) \in BOOLEAN
        OBVIOUS
      <3>2. QED
        BY <1>3, <3>1 DEF TypeOK, DropLocal
    <2>6. QED
      BY <1>3, <2>3, <2>4, <2>5 DEF TypeOK, DropLocal
  <1>4. CASE ImportCloud
    <2>1. merge # NoMerge /\ merge \in Merges
      BY <1>4 DEF TypeOK, ImportCloud, NoMerge
    <2>2. merge.id \in Ids /\ merge.cloud \in 0 .. MaxV
      BY <2>1, MergeFields DEF Versions
    <2>3. local' \in [Ids -> 0 .. MaxV]
      BY <1>4, <2>2 DEF TypeOK, ImportCloud, Upserted
    <2>4. QED
      BY <1>4, <2>3 DEF TypeOK, ImportCloud, Merges, ghostVars
  <1>5. CASE KeepLocal
    <2>1. merge # NoMerge /\ merge \in Merges
      BY <1>5 DEF TypeOK, KeepLocal, NoMerge
    <2>2. /\ merge \in [at : {"found", "writing"}, id : Ids, cloud : Versions,
                        local : Versions]
          /\ merge.id \in Ids /\ merge.local \in Versions
      BY <1>5, <2>1, MergeFields DEF KeepLocal
    <2>3. merge' \in Merges
      BY <1>5, <2>2 DEF KeepLocal, Merges
    <2>4. [at |-> "queued", id |-> merge.id, v |-> merge.local] \in Writes
      BY <2>2 DEF Writes
    <2>5. write' \in [Writers -> Writes]
      BY <1>5, <2>4 DEF KeepLocal, TypeOK
    <2>6. QED
      BY <1>5, <2>3, <2>5 DEF TypeOK, KeepLocal, ghostVars
  <1>6. CASE KeptLocal
    BY <1>6 DEF TypeOK, KeptLocal, Merges, ghostVars
  <1>7. QED
    BY <1>1, <1>2, <1>3, <1>4, <1>5, <1>6

LEMMA UploadTypes ==
  ASSUME TypeOK, NEW id \in Ids, NEW v \in Versions, Upload(id, v)
  PROVE  TypeOK'
  <1>1. v \in 0 .. MaxV
    BY DEF Versions
  <1>2. local' \in [Ids -> 0 .. MaxV]
    BY <1>1 DEF TypeOK, Upload, Upserted
  <1>3. top' \in [Ids -> 0 .. MaxV]
    BY <1>1 DEF TypeOK, Upload, Raised, Maximum
  <1>4. uploads' \in 0 .. MaxUploads
    BY CloudAssumption DEF TypeOK, Upload
  <1>5. write' \in [Writers -> Writes]
    BY DEF TypeOK, Upload, WriteStarted, Writes
  <1>6. behind' \in [Ids -> BOOLEAN] /\ gone' \in [Ids -> BOOLEAN]
    <2>1. (~synced) \in BOOLEAN
      OBVIOUS
    <2>2. QED
      BY <2>1 DEF TypeOK, Upload
  <1>7. QED
    BY <1>2, <1>3, <1>4, <1>5, <1>6 DEF TypeOK, Upload, processVars

LEMMA DeletionTypes ==
  ASSUME TypeOK, NEW id \in Ids,
         DeleteRow(id) \/ DeleteByCommand(id) \/ RemoveFile(id)
  PROVE  TypeOK'
  <1>1. None \in 0 .. MaxV /\ None \in Files
    BY CloudAssumption DEF None, Files
  <1>2. CASE RowDeleted(id) /\ removing' \subseteq removing \cup {id}
    <2>1. (~Remains(id)) \in BOOLEAN
      OBVIOUS
    <2>2. gone' \in [Ids -> BOOLEAN]
      BY <1>2, <2>1 DEF TypeOK, RowDeleted
    <2>3. QED
      BY <1>1, <1>2, <2>2 DEF TypeOK, RowDeleted, processVars
  <1>3. CASE RemoveFile(id) /\ file' = [file EXCEPT ![id] = None]
             /\ ~ UNCHANGED ghostVars
    <2> DEFINE clean == local[id] = None /\ Writing(id) = {}
    <2>1. clean \in BOOLEAN /\ (local[id] # None) \in BOOLEAN
      OBVIOUS
    <2>2. gone' \in [Ids -> BOOLEAN] /\ calm' \in [Ids -> BOOLEAN]
      BY <1>3, <2>1 DEF TypeOK, RemoveFile
    <2>3. behind' \in [Ids -> BOOLEAN]
      BY <1>3, <2>1 DEF TypeOK, RemoveFile
    <2>4. top' \in [Ids -> 0 .. MaxV] /\ file' \in [Ids -> Files]
      BY <1>1, <1>3 DEF TypeOK, RemoveFile
    <2>5. QED
      BY <1>3, <2>2, <2>3, <2>4 DEF TypeOK, RemoveFile, processVars
  <1>4. CASE RemoveFile(id) /\ UNCHANGED ghostVars
    <2>1. file' \in [Ids -> Files]
      BY <1>1, <1>4 DEF TypeOK, RemoveFile
    <2>2. QED
      BY <1>4, <2>1 DEF TypeOK, RemoveFile, processVars, ghostVars
  <1>5. QED
    BY <1>2, <1>3, <1>4 DEF DeleteRow, DeleteByCommand, RemoveFile

LEMMA WriteTypes ==
  ASSUME TypeOK, NEW n \in Writers, CheckFile(n) \/ RenameFile(n)
  PROVE  TypeOK'
  <1>1. /\ write[n] \in [at : {"queued", "checked"}, id : Ids, v : Versions]
        /\ write[n].id \in Ids /\ write[n].v \in Versions
    BY WriteFields DEF TypeOK, CheckFile, RenameFile
  <1>2. [write[n] EXCEPT !.at = "checked"] \in Writes /\ NoWrite \in Writes
    BY <1>1 DEF Writes
  <1>3. CASE CheckFile(n)
    <2>1. write' \in [Writers -> Writes]
      BY <1>2, <1>3 DEF TypeOK, CheckFile
    <2>2. behind' \in [Ids -> BOOLEAN]
      BY <1>1, <1>3 DEF TypeOK, CheckFile
    <2>3. QED
      BY <1>3, <2>1, <2>2 DEF TypeOK, CheckFile, processVars
  <1>4. CASE RenameFile(n)
    <2>1. write' \in [Writers -> Writes]
      BY <1>2, <1>4 DEF TypeOK, RenameFile
    <2>2. file' \in [Ids -> Files]
      BY <1>1, <1>4 DEF TypeOK, RenameFile, Files, Versions
    <2>3. behind' \in [Ids -> BOOLEAN]
      <3>1. (behind[write[n].id] /\ write[n].v < local[write[n].id]) \in BOOLEAN
        OBVIOUS
      <3>2. QED
        BY <1>4, <3>1 DEF TypeOK, RenameFile
    <2>4. QED
      BY <1>4, <2>1, <2>2, <2>3 DEF TypeOK, RenameFile, processVars
  <1>5. QED
    BY <1>3, <1>4

LEMMA OutsideTypes ==
  ASSUME TypeOK, NEW id \in Ids,
         \/ Export(id) \/ Import(id) \/ ImportMessages(id)
         \/ \E x \in Files : CloudArrives(id, x)
  PROVE  TypeOK'
  <1>1. CASE Export(id)
    BY <1>1 DEF TypeOK, Export, processVars, ghostVars
  <1>2. CASE Import(id)
    <2>1. archive[id] \in 0 .. MaxV
      BY DEF TypeOK
    <2>2. local' \in [Ids -> 0 .. MaxV] /\ top' \in [Ids -> 0 .. MaxV]
      BY <1>2, <2>1 DEF TypeOK, Import, Upserted, Raised, Maximum
    <2>3. QED
      BY <1>2, <2>2 DEF TypeOK, Import, processVars
  <1>3. CASE ImportMessages(id)
    <2>1. 1 \in 0 .. MaxV
      BY CloudAssumption
    <2>2. local' \in [Ids -> 0 .. MaxV] /\ top' \in [Ids -> 0 .. MaxV]
      BY <1>3, <2>1 DEF TypeOK, ImportMessages, Upserted, Raised, Maximum
    <2>3. QED
      BY <1>3, <2>2 DEF TypeOK, ImportMessages, processVars
  <1>4. CASE \E x \in Files : CloudArrives(id, x)
    <2>1. PICK x \in Files : CloudArrives(id, x)
      BY <1>4
    <2> DEFINE newer == /\ x \in Int /\ file[id] \in Int /\ x > file[id]
                        /\ \A n \in Writing(id) : write[n].at # "checked"
    <2>2. (calm[id] /\ newer) \in BOOLEAN /\ (behind[id] \/ ~newer) \in BOOLEAN
      OBVIOUS
    <2>3. calm' \in [Ids -> BOOLEAN] /\ behind' \in [Ids -> BOOLEAN]
      BY <2>1, <2>2 DEF TypeOK, CloudArrives
    <2>4. x \in Int => x \in 0 .. MaxV
      BY CloudAssumption DEF Files
    <2>5. top' \in [Ids -> 0 .. MaxV]
      BY <2>1, <2>4 DEF TypeOK, CloudArrives, Raised, Maximum
    <2>6. arrivals' \in 0 .. MaxArrivals
      BY <2>1, CloudAssumption DEF TypeOK, CloudArrives
    <2>7. QED
      BY <2>1, <2>3, <2>5, <2>6 DEF TypeOK, CloudArrives, processVars
  <1>5. QED
    BY <1>1, <1>2, <1>3, <1>4

LEMMA TypeNext == TypeOK /\ [Next]_vars => TypeOK'
  <1> SUFFICES ASSUME TypeOK, [Next]_vars PROVE TypeOK'
    OBVIOUS
  <1>1. CASE UNCHANGED vars
    BY <1>1 DEF vars, TypeOK
  <1>2. CASE Next
    BY <1>2, StartTypes, MergeTypes, UploadTypes, DeletionTypes, WriteTypes,
       OutsideTypes
    DEF Next
  <1>3. QED
    BY <1>1, <1>2

\* Every row, file and version under way is one that a request, a merge, an
\* import or another machine brought, whatever fails or is killed in between.
THEOREM TypeCorrect == Spec => []TypeOK
  <1>1. QED
    BY InitTypes, TypeNext, PTL DEF Spec

(***************************************************************************)
(* Nothing is lost.  What is inductive: of a calm thread nobody has a      *)
(* version that is greater than top; a write that has looked at the file   *)
(* has a version that is not smaller than the file's; and the merge's copy *)
(* is not newer than the file it was read from, because files of calm      *)
(* threads only grow.  So the merge may forget its copy at any time.       *)
(***************************************************************************)
RowAndFile(id) ==
  /\ file[id] \in 0 .. MaxV
  /\ local[id] <= top[id] /\ file[id] <= top[id]
  /\ top[id] \in {local[id], file[id]}

WritesFit(id) ==
  \A n \in Writers :
    write[n].at # "none" /\ write[n].id = id =>
      /\ write[n].v <= top[id]
      /\ write[n].at = "checked" => file[id] <= write[n].v

MergeFits(id) ==
  merge # NoMerge /\ merge.id = id =>
    /\ merge.cloud <= file[id]
    /\ merge.at \in {"found", "writing"} => merge.local <= top[id]

Fits(id) == RowAndFile(id) /\ WritesFit(id) /\ MergeFits(id)

\* Only a start merges, and only requests delete.
Phases ==
  /\ merge # NoMerge => mode = "importing"
  /\ removing # {} => mode = "serving"

\* s.mu.
OneHolder ==
  \A n, k \in Writers :
    write[n].at = "checked" /\ write[k].at = "checked" => n = k

CloudInv == Phases /\ OneHolder /\ \A id \in Ids : calm[id] => Fits(id)

LEMMA CloudInit == Init => CloudInv
  <1> SUFFICES ASSUME Init PROVE CloudInv
    OBVIOUS
  <1>1. Phases /\ OneHolder
    BY DEF Init, Phases, OneHolder, NoWrite
  <1>2. ASSUME NEW id \in Ids PROVE Fits(id)
    <2>1. RowAndFile(id)
      <3>1. local[id] \in 0 .. 1
        BY DEF Init
      <3>2. QED
        BY <3>1, CloudAssumption DEF Init, RowAndFile, None
    <2>2. WritesFit(id) /\ MergeFits(id)
      BY DEF Init, WritesFit, MergeFits, NoWrite
    <2>3. QED
      BY <2>1, <2>2 DEF Fits
  <1>3. QED
    BY <1>1, <1>2 DEF CloudInv

\* Starting, serving and dying move no version.
LEMMA StartFits ==
  ASSUME TypeOK, CloudInv, Start \/ Serve \/ Crash
  PROVE  CloudInv'
  <1>1. Phases'
    BY DEF CloudInv, Phases, Start, Serve, Crash
  <1>2. OneHolder'
    BY DEF CloudInv, OneHolder, Start, Serve, Crash, NoWrite
  <1>3. ASSUME NEW id \in Ids, calm'[id] PROVE Fits(id)'
    <2>1. Fits(id) /\ local' = local /\ file' = file /\ top' = top
      BY <1>3 DEF CloudInv, Start, Serve, Crash, ghostVars
    <2>2. WritesFit(id)'
      BY <2>1 DEF Fits, WritesFit, Start, Serve, Crash, NoWrite
    <2>3. MergeFits(id)'
      BY <2>1 DEF Fits, MergeFits, Start, Serve, Crash
    <2>4. QED
      BY <2>1, <2>2, <2>3 DEF Fits, RowAndFile
  <1>4. QED
    BY <1>1, <1>2, <1>3 DEF CloudInv

LEMMA MergeFitsNext ==
  ASSUME TypeOK, CloudInv,
         \/ \E id \in Ids : ReadEntry(id)
         \/ LookUpLocal \/ DropLocal \/ ImportCloud \/ KeepLocal \/ KeptLocal
  PROVE  CloudInv'
  <1>1. CASE \E id \in Ids : ReadEntry(id)
    <2>1. PICK e \in Ids : ReadEntry(e)
      BY <1>1
    <2>2. Phases' /\ OneHolder'
      BY <2>1 DEF CloudInv, Phases, OneHolder, ReadEntry
    <2>3. ASSUME NEW id \in Ids, calm'[id] PROVE Fits(id)'
      <3>1. Fits(id) /\ local' = local /\ file' = file /\ top' = top /\ write' = write
        BY <2>1, <2>3 DEF CloudInv, ReadEntry, ghostVars
      <3>2. MergeFits(id)'
        BY <2>1, <3>1 DEF ReadEntry, MergeFits, Fits, RowAndFile, NoMerge
      <3>3. QED
        BY <3>1, <3>2 DEF Fits, RowAndFile, WritesFit
    <2>4. QED
      BY <2>2, <2>3 DEF CloudInv
  <1>2. CASE LookUpLocal
    <2>1. Phases' /\ OneHolder'
      BY <1>2 DEF CloudInv, Phases, OneHolder, LookUpLocal, NoMerge
    <2>2. merge # NoMerge /\ merge \in [at : {"read", "import"}, id : Ids, cloud : Versions]
      BY <1>2, MergeFields DEF TypeOK, LookUpLocal, NoMerge
    <2>3. ASSUME NEW id \in Ids, calm'[id] PROVE Fits(id)'
      <3>1. Fits(id) /\ local' = local /\ file' = file /\ top' = top /\ write' = write
        BY <1>2, <2>3 DEF CloudInv, LookUpLocal, ghostVars
      <3>2. MergeFits(id)'
        BY <1>2, <2>2, <3>1 DEF LookUpLocal, MergeFits, Fits, RowAndFile, NoMerge
      <3>3. QED
        BY <3>1, <3>2 DEF Fits, RowAndFile, WritesFit
    <2>4. QED
      BY <2>1, <2>3 DEF CloudInv
  <1>3. CASE DropLocal
    <2>1. Phases' /\ OneHolder'
      BY <1>3 DEF CloudInv, Phases, OneHolder, DropLocal, NoMerge
    <2>2. merge # NoMerge /\ merge.id \in Ids /\ merge.cloud \in Versions
      BY <1>3, MergeFields DEF TypeOK, DropLocal, NoMerge
    <2>3. ASSUME NEW id \in Ids, calm'[id] PROVE Fits(id)'
      <3>1. /\ Fits(id) /\ file' = file /\ top' = top /\ write' = write
            /\ top[id] \in 0 .. MaxV /\ local[id] \in 0 .. MaxV
        BY <1>3, <2>2, <2>3 DEF TypeOK, CloudInv, DropLocal
      <3>2. RowAndFile(id)'
        <4>1. CASE local' = local
          BY <3>1, <4>1 DEF Fits, RowAndFile
        <4>2. CASE local' # local
          <5>1. /\ local' = [local EXCEPT ![merge.id] = None]
                /\ calm' = [calm EXCEPT ![merge.id] = @ /\ local[merge.id] <= merge.cloud]
            BY <1>3, <4>2 DEF DropLocal
          <5>2. CASE id # merge.id
            BY <3>1, <5>1, <5>2 DEF TypeOK, Fits, RowAndFile
          <5>3. CASE id = merge.id
            <6>1. local[id] <= merge.cloud /\ merge.cloud <= file[id]
              BY <2>2, <2>3, <3>1, <5>1, <5>3 DEF TypeOK, Fits, MergeFits
            <6>2. local'[id] = 0
              BY <5>1, <5>3, <2>2 DEF TypeOK, None
            <6>3. QED
              BY <2>2, <3>1, <6>1, <6>2 DEF Fits, RowAndFile, Versions
          <5>4. QED
            BY <5>2, <5>3
        <4>3. QED
          BY <4>1, <4>2
      <3>3. MergeFits(id)'
        BY <1>3, <2>2, <3>1 DEF DropLocal, MergeFits, Fits, NoMerge
      <3>4. QED
        BY <3>1, <3>2, <3>3 DEF Fits, WritesFit
    <2>4. QED
      BY <2>1, <2>3 DEF CloudInv
  <1>4. CASE ImportCloud
    <2>1. Phases' /\ OneHolder'
      BY <1>4 DEF CloudInv, Phases, OneHolder, ImportCloud
    <2>2. merge # NoMerge /\ merge.id \in Ids /\ merge.cloud \in Versions
      BY <1>4, MergeFields DEF TypeOK, ImportCloud, NoMerge
    <2>3. ASSUME NEW id \in Ids, calm'[id] PROVE Fits(id)'
      <3>1. /\ Fits(id) /\ file' = file /\ top' = top /\ write' = write
            /\ top[id] \in 0 .. MaxV /\ local[id] \in 0 .. MaxV
        BY <1>4, <2>3 DEF TypeOK, CloudInv, ImportCloud, ghostVars
      <3>2. RowAndFile(id)'
        BY <1>4, <2>2, <3>1
        DEF TypeOK, ImportCloud, Upserted, Fits, RowAndFile, MergeFits, Versions
      <3>3. MergeFits(id)'
        BY <1>4 DEF ImportCloud, MergeFits
      <3>4. QED
        BY <3>1, <3>2, <3>3 DEF Fits, WritesFit
    <2>4. QED
      BY <2>1, <2>3 DEF CloudInv
  <1>5. CASE KeepLocal
    <2>1. /\ merge # NoMerge /\ merge.id \in Ids /\ merge.local \in Versions
          /\ merge \in [at : {"found", "writing"}, id : Ids, cloud : Versions,
                        local : Versions]
      BY <1>5, MergeFields DEF TypeOK, KeepLocal, NoMerge
    <2>2. 0 \in Writers
      BY CloudAssumption DEF Writers
    <2>3. Phases' /\ OneHolder'
      BY <1>5, <2>1, <2>2 DEF TypeOK, CloudInv, Phases, OneHolder, KeepLocal
    <2>4. ASSUME NEW id \in Ids, calm'[id] PROVE Fits(id)'
      <3>1. Fits(id) /\ local' = local /\ file' = file /\ top' = top
        BY <1>5, <2>4 DEF CloudInv, KeepLocal, ghostVars
      <3>2. WritesFit(id)'
        BY <1>5, <2>1, <2>2, <3>1
        DEF TypeOK, KeepLocal, WritesFit, MergeFits, Fits
      <3>3. MergeFits(id)'
        BY <1>5, <2>1, <3>1 DEF KeepLocal, MergeFits, Fits
      <3>4. QED
        BY <3>1, <3>2, <3>3 DEF Fits, RowAndFile
    <2>5. QED
      BY <2>3, <2>4 DEF CloudInv
  <1>6. CASE KeptLocal
    <2>1. Phases' /\ OneHolder'
      BY <1>6 DEF CloudInv, Phases, OneHolder, KeptLocal
    <2>2. ASSUME NEW id \in Ids, calm'[id] PROVE Fits(id)'
      BY <1>6, <2>2
      DEF CloudInv, KeptLocal, ghostVars, Fits, RowAndFile, WritesFit, MergeFits
    <2>3. QED
      BY <2>1, <2>2 DEF CloudInv
  <1>7. QED
    BY <1>1, <1>2, <1>3, <1>4, <1>5, <1>6

\* A request is served when nothing merges.
LEMMA UploadFits ==
  ASSUME TypeOK, CloudInv, NEW u \in Ids, NEW v \in Versions, Upload(u, v)
  PROVE  CloudInv'
  <1>1. merge = NoMerge /\ merge' = merge
    BY DEF CloudInv, Phases, Upload, processVars
  <1>2. uploads + 1 \in Writers
    BY CloudAssumption DEF TypeOK, Upload, Writers
  <1>3. Phases' /\ OneHolder'
    BY <1>1, <1>2
    DEF TypeOK, CloudInv, Phases, OneHolder, Upload, WriteStarted, processVars
  <1>4. ASSUME NEW id \in Ids, calm'[id] PROVE Fits(id)'
    <2>1. /\ Fits(id) /\ file' = file /\ MergeFits(id)'
          /\ top[id] \in 0 .. MaxV /\ local[id] \in 0 .. MaxV
      BY <1>1, <1>4 DEF TypeOK, CloudInv, Upload, MergeFits
    <2>2. /\ top'[id] = IF id = u THEN Maximum(top[id], v) ELSE top[id]
          /\ local'[id] = IF id = u THEN v ELSE local[id]
      BY DEF TypeOK, Upload, Upserted, Raised
    <2>3. RowAndFile(id)'
      BY <2>1, <2>2 DEF Upload, Fits, RowAndFile, Maximum, Versions
    <2>4. WritesFit(id)'
      <3>1. CASE write' = write
        <4>1. top[id] <= top'[id] /\ top'[id] \in 0 .. MaxV
          BY <2>1, <2>2 DEF Maximum, Versions
        <4>2. \A n \in Writers : write[n].at # "none" => write[n].v \in Versions
          BY WriteFields DEF TypeOK
        <4>3. QED
          BY <2>1, <3>1, <4>1, <4>2 DEF Fits, WritesFit, Versions
      <3>2. CASE write' = [write EXCEPT ![uploads + 1] =
                             [at |-> "queued", id |-> u, v |-> v]]
        <4>1. ASSUME NEW n \in Writers, write'[n].at # "none", write'[n].id = id
              PROVE  /\ write'[n].v <= top'[id]
                     /\ write'[n].at = "checked" => file'[id] <= write'[n].v
          <5>1. CASE n = uploads + 1
            <6>1. write'[n] = [at |-> "queued", id |-> u, v |-> v]
              BY <1>2, <3>2, <5>1 DEF TypeOK
            <6>2. QED
              BY <2>1, <2>2, <4>1, <6>1 DEF Maximum, Versions
          <5>2. CASE n # uploads + 1
            <6>1. write'[n] = write[n]
              BY <3>2, <5>2 DEF TypeOK
            <6>2. write[n].v \in Versions
              BY <4>1, <6>1, WriteFields DEF TypeOK
            <6>3. QED
              BY <2>1, <2>2, <4>1, <6>1, <6>2
              DEF Fits, WritesFit, Maximum, Versions
          <5>3. QED
            BY <5>1, <5>2
        <4>2. QED
          BY <4>1 DEF WritesFit
      <3>3. QED
        BY <3>1, <3>2 DEF Upload, WriteStarted
    <2>5. QED
      BY <2>1, <2>3, <2>4 DEF Fits
  <1>5. QED
    BY <1>3, <1>4 DEF CloudInv

LEMMA DeletionFits ==
  ASSUME TypeOK, CloudInv, NEW d \in Ids,
         DeleteRow(d) \/ DeleteByCommand(d) \/ RemoveFile(d)
  PROVE  CloudInv'
  <1>1. CASE DeleteRow(d) \/ DeleteByCommand(d)
    <2>1. Phases' /\ OneHolder'
      BY <1>1
      DEF CloudInv, Phases, OneHolder, DeleteRow, DeleteByCommand, RowDeleted,
          processVars
    <2>2. RowDeleted(d)
      BY <1>1 DEF DeleteRow, DeleteByCommand
    <2>3. ASSUME NEW id \in Ids, calm'[id] PROVE Fits(id)'
      <3>1. id # d
        BY <2>2, <2>3 DEF TypeOK, RowDeleted
      <3>2. Fits(id) /\ calm[id]
        BY <2>2, <2>3, <3>1 DEF TypeOK, CloudInv, RowDeleted
      <3>3. /\ local'[id] = local[id] /\ file' = file /\ top'[id] = top[id]
            /\ write' = write /\ merge' = merge
        BY <2>2, <3>1 DEF TypeOK, RowDeleted, processVars
      <3>4. QED
        BY <3>2, <3>3 DEF Fits, RowAndFile, WritesFit, MergeFits
    <2>4. QED
      BY <2>1, <2>3 DEF CloudInv
  <1>2. CASE RemoveFile(d)
    <2>1. merge = NoMerge /\ merge' = merge /\ write' = write /\ local' = local
      BY <1>2 DEF CloudInv, Phases, RemoveFile, processVars
    <2>2. Phases' /\ OneHolder'
      BY <1>2, <2>1 DEF CloudInv, Phases, OneHolder, RemoveFile, processVars
    <2>3. ASSUME NEW id \in Ids, calm'[id] PROVE Fits(id)'
      <3>1. CASE id # d \/ UNCHANGED <<file, ghostVars>>
        <4>1. Fits(id)
          BY <1>2, <2>3, <3>1 DEF TypeOK, CloudInv, RemoveFile, ghostVars
        <4>2. file'[id] = file[id] /\ top'[id] = top[id]
          BY <1>2, <3>1 DEF TypeOK, RemoveFile, ghostVars
        <4>3. QED
          BY <2>1, <4>1, <4>2 DEF Fits, RowAndFile, WritesFit, MergeFits
      <3>2. CASE id = d /\ ~ UNCHANGED <<file, ghostVars>>
        <4>1. local[d] = None /\ Writing(d) = {}
          BY <1>2, <2>3, <3>2 DEF TypeOK, RemoveFile
        <4>2. file'[id] = None /\ top'[id] = None
          BY <1>2, <3>2, <4>1 DEF TypeOK, RemoveFile
        <4>3. RowAndFile(id)'
          BY <2>1, <3>2, <4>1, <4>2, CloudAssumption DEF RowAndFile, None
        <4>4. WritesFit(id)' /\ MergeFits(id)'
          BY <2>1, <3>2, <4>1 DEF WritesFit, MergeFits, Writing
        <4>5. QED
          BY <4>3, <4>4 DEF Fits
      <3>3. QED
        BY <3>1, <3>2
    <2>4. QED
      BY <2>2, <2>3 DEF CloudInv
  <1>3. QED
    BY <1>1, <1>2

LEMMA WriteFits ==
  ASSUME TypeOK, CloudInv, NEW w \in Writers, CheckFile(w) \/ RenameFile(w)
  PROVE  CloudInv'
  <1>1. Phases'
    BY DEF CloudInv, Phases, CheckFile, RenameFile, processVars
  <1>2. /\ write[w] \in [at : {"queued", "checked"}, id : Ids, v : Versions]
        /\ write[w].id \in Ids /\ write[w].v \in Versions
    BY WriteFields DEF TypeOK, CheckFile, RenameFile
  <1>3. /\ write'[w] = NoWrite
           \/ /\ CheckFile(w) /\ write'[w] = [write[w] EXCEPT !.at = "checked"]
              /\ file[write[w].id] \in Int /\ ~(file[write[w].id] > write[w].v)
        /\ \A n \in Writers \ {w} : write'[n] = write[n]
    BY DEF TypeOK, CheckFile, RenameFile
  <1>4. OneHolder'
    <2>1. CASE write'[w] = NoWrite
      BY <1>3, <2>1 DEF CloudInv, OneHolder, NoWrite
    <2>2. CASE CheckFile(w)
      BY <1>3, <2>2 DEF OneHolder, CheckFile, MutexFree
    <2>3. QED
      BY <1>3, <2>1, <2>2
  <1>5. ASSUME NEW id \in Ids, calm'[id] PROVE Fits(id)'
    <2>1. /\ Fits(id) /\ local' = local /\ top' = top /\ merge' = merge
          /\ top[id] \in 0 .. MaxV
      BY <1>5 DEF TypeOK, CloudInv, CheckFile, RenameFile, processVars
    <2>2. CASE file' = file
      <3>1. RowAndFile(id)' /\ MergeFits(id)'
        BY <2>1, <2>2 DEF Fits, RowAndFile, MergeFits
      <3>2. WritesFit(id)'
        BY <1>2, <1>3, <2>1, <2>2
        DEF Fits, RowAndFile, WritesFit, NoWrite, Versions
      <3>3. QED
        BY <3>1, <3>2 DEF Fits
    <2>3. CASE file' # file
      <3>1. /\ write[w].at = "checked" /\ write'[w] = NoWrite
            /\ file' = [file EXCEPT ![write[w].id] = write[w].v]
        BY <1>3, <2>3 DEF TypeOK, CheckFile, RenameFile
      <3>2. CASE id # write[w].id
        <4>1. file'[id] = file[id]
          BY <3>1, <3>2 DEF TypeOK
        <4>2. QED
          BY <1>3, <2>1, <3>1, <3>2, <4>1
          DEF Fits, RowAndFile, WritesFit, MergeFits, NoWrite
      <3>3. CASE id = write[w].id
        <4>1. /\ file'[id] = write[w].v /\ file[id] \in 0 .. MaxV
              /\ file[id] <= write[w].v /\ write[w].v <= top[id]
          BY <2>1, <3>1, <3>3 DEF TypeOK, Fits, RowAndFile, WritesFit
        <4>2. RowAndFile(id)'
          BY <1>2, <2>1, <4>1 DEF Fits, RowAndFile, Versions
        <4>3. MergeFits(id)'
          <5>1. merge # NoMerge => merge.cloud \in Versions
            BY MergeFields DEF TypeOK
          <5>2. QED
            BY <1>2, <2>1, <4>1, <5>1 DEF Fits, MergeFits, Versions
        <4>4. WritesFit(id)'
          BY <1>3, <2>1, <3>1
          DEF CloudInv, OneHolder, Fits, WritesFit, NoWrite
        <4>5. QED
          BY <4>2, <4>3, <4>4 DEF Fits
      <3>4. QED
        BY <3>2, <3>3
    <2>4. QED
      BY <2>2, <2>3
  <1>6. QED
    BY <1>1, <1>4, <1>5 DEF CloudInv

\* An import raises the row, and top with it.
LEMMA ImportFits ==
  ASSUME TypeOK, CloudInv, NEW i \in Ids, Import(i) \/ ImportMessages(i)
  PROVE  CloudInv'
  <1>1. Phases' /\ OneHolder'
    BY DEF CloudInv, Phases, OneHolder, Import, ImportMessages, processVars
  <1>2. PICK v \in 0 .. MaxV :
          /\ v > local[i]
          /\ local' = [local EXCEPT ![i] = v] /\ top' = Raised(top, i, v)
    <2>1. CASE Import(i)
      BY <2>1 DEF TypeOK, Import, Upserted
    <2>2. CASE ImportMessages(i)
      <3>1. 1 \in 0 .. MaxV /\ 1 > local[i]
        BY <2>2, CloudAssumption DEF ImportMessages, None
      <3>2. local' = [local EXCEPT ![i] = 1] /\ top' = Raised(top, i, 1)
        BY <2>2, <3>1 DEF ImportMessages, Upserted
      <3>3. QED
        BY <3>1, <3>2
    <2>3. QED
      BY <2>1, <2>2
  <1>3. ASSUME NEW id \in Ids, calm'[id] PROVE Fits(id)'
    <2>1. /\ Fits(id) /\ file' = file /\ write' = write /\ merge' = merge
          /\ top[id] \in 0 .. MaxV /\ local[id] \in 0 .. MaxV
      BY <1>3 DEF TypeOK, CloudInv, Import, ImportMessages, processVars
    <2>2. /\ top'[id] = IF id = i THEN Maximum(top[id], v) ELSE top[id]
          /\ local'[id] = IF id = i THEN v ELSE local[id]
      BY <1>2 DEF TypeOK, Raised
    <2>3. RowAndFile(id)'
      BY <1>2, <2>1, <2>2 DEF Fits, RowAndFile, Maximum
    <2>4. top[id] <= top'[id] /\ top'[id] \in 0 .. MaxV
      BY <2>1, <2>2 DEF Maximum
    <2>5. WritesFit(id)'
      <3>1. \A n \in Writers : write[n].at # "none" => write[n].v \in Versions
        BY WriteFields DEF TypeOK
      <3>2. QED
        BY <2>1, <2>4, <3>1 DEF Fits, WritesFit, Versions
    <2>6. MergeFits(id)'
      <3>1. merge # NoMerge /\ merge.at \in {"found", "writing"} =>
              merge.local \in Versions
        BY MergeFields DEF TypeOK
      <3>2. QED
        BY <2>1, <2>4, <3>1 DEF Fits, MergeFits, Versions
    <2>7. QED
      BY <2>3, <2>5, <2>6 DEF Fits
  <1>4. QED
    BY <1>1, <1>3 DEF CloudInv

\* Another machine's file keeps a thread calm if it is a newer one, and comes
\* when no write is about to replace it.
LEMMA ArrivalFits ==
  ASSUME TypeOK, CloudInv, NEW i \in Ids, NEW x \in Files, CloudArrives(i, x)
  PROVE  CloudInv'
  <1>1. Phases' /\ OneHolder'
    BY DEF CloudInv, Phases, OneHolder, CloudArrives, processVars
  <1>2. ASSUME NEW id \in Ids, calm'[id] PROVE Fits(id)'
    <2>1. /\ Fits(id) /\ local' = local /\ write' = write /\ merge' = merge
          /\ top[id] \in 0 .. MaxV /\ local[id] \in 0 .. MaxV
      BY <1>2 DEF TypeOK, CloudInv, CloudArrives, processVars
    <2>2. CASE id # i
      <3>1. file'[id] = file[id] /\ top'[id] = top[id]
        BY <2>2 DEF TypeOK, CloudArrives, Raised
      <3>2. QED
        BY <2>1, <3>1 DEF Fits, RowAndFile, WritesFit, MergeFits
    <2>3. CASE id = i
      <3>1. /\ x \in Int /\ file[id] \in Int /\ x > file[id]
            /\ \A n \in Writing(id) : write[n].at # "checked"
        BY <1>2, <2>3 DEF TypeOK, CloudArrives
      <3>2. /\ x \in 0 .. MaxV /\ file'[id] = x
            /\ top'[id] = Maximum(top[id], x)
        BY <2>3, <3>1, CloudAssumption DEF TypeOK, CloudArrives, Raised, Files
      <3>3. RowAndFile(id)' /\ top[id] <= top'[id] /\ top'[id] \in 0 .. MaxV
        BY <2>1, <3>1, <3>2 DEF Fits, RowAndFile, Maximum
      <3>4. WritesFit(id)'
        <4>1. \A n \in Writers : write[n].at # "none" => write[n].v \in Versions
          BY WriteFields DEF TypeOK
        <4>2. QED
          BY <2>1, <3>1, <3>3, <4>1 DEF Fits, WritesFit, Writing, Versions
      <3>5. MergeFits(id)'
        <4>1. merge # NoMerge =>
                /\ merge.cloud \in Versions
                /\ merge.at \in {"found", "writing"} => merge.local \in Versions
          BY MergeFields DEF TypeOK
        <4>2. QED
          BY <2>1, <3>1, <3>2, <3>3, <4>1 DEF Fits, MergeFits, Versions
      <3>6. QED
        BY <3>3, <3>4, <3>5 DEF Fits
    <2>4. QED
      BY <2>2, <2>3
  <1>3. QED
    BY <1>1, <1>2 DEF CloudInv

LEMMA CloudNext == TypeOK /\ CloudInv /\ [Next]_vars => CloudInv'
  <1> SUFFICES ASSUME TypeOK, CloudInv, [Next]_vars PROVE CloudInv'
    OBVIOUS
  <1>1. CASE UNCHANGED vars
    BY <1>1
    DEF vars, CloudInv, Phases, OneHolder, Fits, RowAndFile, WritesFit, MergeFits
  <1>2. CASE \E id \in Ids : Export(id)
    BY <1>2
    DEF Export, processVars, ghostVars, CloudInv, Phases, OneHolder, Fits,
        RowAndFile, WritesFit, MergeFits
  <1>3. CASE Next /\ ~ \E id \in Ids : Export(id)
    BY <1>3, StartFits, MergeFitsNext, UploadFits, DeletionFits, WriteFits,
       ImportFits, ArrivalFits
    DEF Next
  <1>4. QED
    BY <1>1, <1>2, <1>3

\* The greatest version of a calm thread is in its row or in its file, for any
\* number of threads, uploads, kills, merges and imports.
THEOREM CloudSafe == Spec => []NothingLost
  <1>1. TypeOK /\ CloudInv => NothingLost
    BY DEF CloudInv, Fits, RowAndFile, NothingLost
  <1>2. QED
    BY <1>1, CloudInit, CloudNext, TypeCorrect, PTL DEF Spec

(***************************************************************************)
(* Deleted threads.  What is inductive: besides its row and file, no write *)
(* and no merge has a thread that is gone.                                 *)
(***************************************************************************)
Vanished(id) ==
  /\ local[id] = None /\ file[id] = None
  /\ Writing(id) = {}
  /\ merge = NoMerge \/ merge.id # id

GoneInv == \A id \in Ids : gone[id] => Vanished(id)

LEMMA GoneNext == TypeOK /\ CloudInv /\ GoneInv /\ [Next]_vars => GoneInv'
  <1> SUFFICES ASSUME TypeOK, CloudInv, GoneInv, [Next]_vars,
                      NEW id \in Ids, gone'[id]
               PROVE  Vanished(id)'
    BY DEF GoneInv
  <1>1. CASE gone' = gone /\ local' = local /\ file' = file /\ write' = write
    <2>1. Vanished(id)
      BY <1>1 DEF GoneInv
    <2>2. merge' = NoMerge \/ merge'.id # id
      <3>1. CASE merge' = merge
        BY <2>1, <3>1 DEF Vanished
      <3>2. CASE \E e \in Ids : ReadEntry(e)
        BY <2>1, <3>2
        DEF ReadEntry, Vanished, NoMerge, Versions, None
      <3>3. CASE LookUpLocal
        <4>1. merge # NoMerge
              /\ merge \in [at : {"read", "import"}, id : Ids, cloud : Versions]
          BY <3>3, MergeFields DEF TypeOK, LookUpLocal, NoMerge
        <4>2. QED
          BY <2>1, <3>3, <4>1 DEF LookUpLocal, Vanished
      <3>4. CASE DropLocal
        BY <2>1, <3>4 DEF DropLocal, Vanished, NoMerge
      <3>5. CASE ImportCloud \/ KeptLocal \/ Crash
        BY <3>5 DEF ImportCloud, KeptLocal, Crash
      <3>6. CASE KeepLocal
        <4>1. merge # NoMerge
              /\ merge \in [at : {"found", "writing"}, id : Ids, cloud : Versions,
                            local : Versions]
          BY <3>6, MergeFields DEF TypeOK, KeepLocal, NoMerge
        <4>2. QED
          BY <2>1, <3>6, <4>1 DEF KeepLocal, Vanished
      <3>7. CASE \/ Start \/ Serve \/ UNCHANGED vars
                 \/ \E d \in Ids : \/ DeleteRow(d) \/ RemoveFile(d)
                                   \/ DeleteByCommand(d) \/ Import(d)
                                   \/ ImportMessages(d) \/ Export(d)
                                   \/ \E v \in Versions : Upload(d, v)
                                   \/ \E x \in Files : CloudArrives(d, x)
                 \/ \E n \in Writers : CheckFile(n) \/ RenameFile(n)
        <4>1. merge' = merge
          BY <3>7
          DEF Start, Serve, DeleteRow, DeleteByCommand, RowDeleted, RemoveFile,
              Import, ImportMessages, Export, Upload, CloudArrives, CheckFile,
              RenameFile, processVars, vars
        <4>2. QED
          BY <3>1, <4>1
      <3>8. QED
        BY <3>2, <3>3, <3>4, <3>5, <3>6, <3>7 DEF Next
    <2>3. QED
      BY <1>1, <2>1, <2>2 DEF Vanished, Writing
  <1>2. CASE DropLocal \/ ImportCloud
    <2>1. merge # NoMerge /\ merge.id \in Ids /\ gone' = gone
      BY <1>2, MergeFields
      DEF TypeOK, DropLocal, ImportCloud, NoMerge, ghostVars
    <2>2. Vanished(id) /\ id # merge.id
      BY <2>1 DEF GoneInv, Vanished
    <2>3. local'[id] = local[id] /\ file' = file /\ write' = write
      BY <1>2, <2>2 DEF TypeOK, DropLocal, ImportCloud, Upserted
    <2>4. merge' = NoMerge \/ merge'.id # id
      BY <1>2, <2>2 DEF DropLocal, ImportCloud
    <2>5. QED
      BY <2>2, <2>3, <2>4 DEF Vanished, Writing
  <1>3. CASE KeepLocal
    <2>1. merge # NoMerge /\ merge.id \in Ids /\ gone' = gone
          /\ merge \in [at : {"found", "writing"}, id : Ids, cloud : Versions,
                        local : Versions]
      BY <1>3, MergeFields DEF TypeOK, KeepLocal, NoMerge, ghostVars
    <2>2. Vanished(id) /\ id # merge.id
      BY <2>1 DEF GoneInv, Vanished
    <2>3. /\ local' = local /\ file' = file /\ merge'.id # id
          /\ \A n \in Writers : write'[n] = write[n] \/ write'[n].id # id
      BY <1>3, <2>1, <2>2 DEF TypeOK, KeepLocal
    <2>4. QED
      BY <2>2, <2>3 DEF Vanished, Writing
  <1>4. CASE Crash
    <2>1. Vanished(id)
      BY <1>4 DEF Crash, GoneInv
    <2>2. QED
      BY <1>4, <2>1 DEF Crash, Vanished, Writing, NoWrite
  <1>5. CASE \E d \in Ids : \E v \in Versions : Upload(d, v)
    <2>1. PICK d \in Ids, v \in Versions : Upload(d, v)
      BY <1>5
    <2>2. Vanished(id) /\ id # d
      BY <2>1 DEF TypeOK, Upload, GoneInv
    <2>3. /\ local'[id] = local[id] /\ file' = file /\ merge' = merge
          /\ \A n \in Writers : write'[n] = write[n] \/ write'[n].id # id
      BY <2>1, <2>2
      DEF TypeOK, Upload, Upserted, WriteStarted, processVars
    <2>4. QED
      BY <2>2, <2>3 DEF Vanished, Writing
  <1>6. CASE \E d \in Ids : DeleteRow(d) \/ DeleteByCommand(d)
    <2>1. PICK d \in Ids : RowDeleted(d)
      BY <1>6 DEF DeleteRow, DeleteByCommand
    <2>2. /\ local'[d] = None /\ \A i \in Ids \ {d} : local'[i] = local[i]
          /\ file' = file /\ merge' = merge /\ write' = write
      BY <2>1 DEF TypeOK, RowDeleted, processVars
    <2>3. CASE id = d
      <3>1. ~Remains(id)
        BY <2>1, <2>3 DEF TypeOK, RowDeleted
      <3>2. QED
        BY <2>2, <2>3, <3>1 DEF Remains, Vanished, Writing
    <2>4. CASE id # d
      <3>1. Vanished(id)
        BY <2>1, <2>4 DEF TypeOK, RowDeleted, GoneInv
      <3>2. QED
        BY <2>2, <2>4, <3>1 DEF Vanished, Writing
    <2>5. QED
      BY <2>3, <2>4
  <1>7. CASE \E d \in Ids : RemoveFile(d)
    <2>1. PICK d \in Ids : RemoveFile(d)
      BY <1>7
    <2>2. local' = local /\ merge' = merge /\ merge = NoMerge /\ write' = write
      BY <2>1 DEF RemoveFile, CloudInv, Phases, processVars
    <2>3. CASE id = d /\ ~ UNCHANGED <<file, ghostVars>>
      <3>1. /\ file' = [file EXCEPT ![d] = None]
            /\ gone' = [gone EXCEPT ![d] = local[d] = None /\ Writing(d) = {}]
        BY <2>1, <2>3 DEF RemoveFile
      <3>2. file'[id] = None /\ local[id] = None /\ Writing(id) = {}
        BY <2>3, <3>1 DEF TypeOK
      <3>3. QED
        BY <2>2, <3>2 DEF Vanished, Writing
    <2>4. CASE id # d \/ UNCHANGED <<file, ghostVars>>
      <3>1. gone'[id] = gone[id] /\ file'[id] = file[id]
        BY <2>1, <2>4 DEF TypeOK, RemoveFile, ghostVars
      <3>2. QED
        BY <2>2, <3>1 DEF GoneInv, Vanished, Writing
    <2>5. QED
      BY <2>3, <2>4
  <1>8. CASE \E d \in Ids : \/ Import(d) \/ ImportMessages(d)
                            \/ \E x \in Files : CloudArrives(d, x)
    <2>1. PICK d \in Ids : \/ Import(d) \/ ImportMessages(d)
                           \/ \E x \in Files : CloudArrives(d, x)
      BY <1>8
    <2>2. Vanished(id) /\ id # d
      BY <2>1 DEF TypeOK, Import, ImportMessages, CloudArrives, GoneInv
    <2>3. /\ local'[id] = local[id] /\ file'[id] = file[id] /\ merge' = merge
          /\ write' = write
      BY <2>1, <2>2
      DEF TypeOK, Import, ImportMessages, CloudArrives, Upserted, processVars
    <2>4. QED
      BY <2>2, <2>3 DEF Vanished, Writing
  <1>9. CASE \E n \in Writers : CheckFile(n) \/ RenameFile(n)
    <2>1. PICK n \in Writers : CheckFile(n) \/ RenameFile(n)
      BY <1>9
    <2>2. Vanished(id) /\ local' = local /\ merge' = merge
      BY <2>1 DEF CheckFile, RenameFile, GoneInv, processVars
    <2>3. /\ write[n] \in [at : {"queued", "checked"}, id : Ids, v : Versions]
          /\ write[n].id # id
      BY <2>1, <2>2, WriteFields
      DEF TypeOK, CheckFile, RenameFile, Vanished, Writing
    <2>4. /\ file'[id] = file[id]
          /\ write'[n].at = "none" \/ write'[n].id # id
          /\ \A k \in Writers \ {n} : write'[k] = write[k]
      BY <2>1, <2>3 DEF TypeOK, CheckFile, RenameFile, NoWrite
    <2>5. QED
      BY <2>2, <2>4 DEF Vanished, Writing
  <1>10. CASE \/ Start \/ (\E e \in Ids : ReadEntry(e)) \/ LookUpLocal
              \/ KeptLocal \/ Serve \/ (\E d \in Ids : Export(d))
              \/ UNCHANGED vars
    <2>1. gone' = gone /\ local' = local /\ file' = file /\ write' = write
      BY <1>10
      DEF Start, ReadEntry, LookUpLocal, KeptLocal, Serve, Export, ghostVars,
          vars
    <2>2. QED
      BY <1>1, <2>1
  <1>11. QED
    BY <1>2, <1>3, <1>4, <1>5, <1>6, <1>7, <1>8, <1>9, <1>10 DEF Next

\* A thread that was deleted with its file, and with no write or merge of it
\* under way, stays deleted, for any number of threads, uploads and starts.  A
\* deletion that leaves the file (os.Remove failed, or the delete-thread
\* command) is none of those: the next merge brings the thread back.
THEOREM DeletedStays == Spec => []DeletedStaysDeleted
  <1>1. Init => GoneInv
    BY DEF Init, GoneInv
  <1>2. GoneInv => DeletedStaysDeleted
    BY DEF GoneInv, Vanished, DeletedStaysDeleted
  <1>3. Spec => []CloudInv
    BY CloudInit, CloudNext, TypeCorrect, PTL DEF Spec
  <1>4. QED
    BY <1>1, <1>2, <1>3, GoneNext, TypeCorrect, PTL DEF Spec

(***************************************************************************)
(* Files catch up.  What is inductive: unless something is known to have   *)
(* kept the file behind, the row is gone, a write of its version or a      *)
(* greater one is on its way, or the file has it and no write that has     *)
(* looked at the file already is left to undo it.                          *)
(***************************************************************************)
Caught(id) ==
  \/ local[id] = None
  \/ \E n \in Writing(id) : local[id] <= write[n].v
  \/ /\ file[id] \in 0 .. MaxV /\ local[id] <= file[id]
     /\ \A n \in Writing(id) : write[n].at # "checked"

\* Goroutines that write belong to uploads of this process, or to the merge,
\* which waits for its own.
WritersPlaced ==
  /\ \A n \in Writers : n > uploads => write[n] = NoWrite
  /\ mode = "importing" =>
       \A n \in Writers : write[n] # NoWrite => n = 0 /\ merge.at = "writing"
  /\ mode = "down" => \A n \in Writers : write[n] = NoWrite

\* The file the merge has read has not become older.
CopyCurrent ==
  merge.at \in {"read", "found", "import"} =>
    \/ behind[merge.id]
    \/ file[merge.id] \in 0 .. MaxV /\ merge.cloud <= file[merge.id]

LateInv ==
  WritersPlaced /\ CopyCurrent /\ \A id \in Ids : behind[id] \/ Caught(id)

LEMMA LateInit == Init => LateInv
  BY DEF Init, LateInv, WritersPlaced, CopyCurrent, NoMerge

LEMMA StartLate ==
  ASSUME TypeOK, CloudInv, LateInv, Start \/ Serve \/ Crash
  PROVE  LateInv'
  <1>1. WritersPlaced'
    BY DEF LateInv, WritersPlaced, Start, Serve, Crash
  <1>2. CopyCurrent'
    <2>1. CASE merge' = NoMerge
      BY <2>1 DEF CopyCurrent, NoMerge
    <2>2. CASE merge' = merge /\ merge # NoMerge
      BY <2>2 DEF CloudInv, Phases, LateInv, CopyCurrent, Start, Serve, Crash,
                  ghostVars
    <2>3. QED
      BY <2>1, <2>2 DEF Start, Serve, Crash
  <1>3. ASSUME NEW id \in Ids PROVE behind'[id] \/ Caught(id)'
    <2>1. local' = local /\ file' = file
      BY DEF Start, Serve, Crash
    <2>2. CASE Start \/ Serve
      BY <2>1, <2>2 DEF LateInv, Start, Serve, Caught, Writing, ghostVars
    <2>3. CASE Crash
      BY <2>1, <2>3 DEF TypeOK, LateInv, Crash, Caught, Writing, NoWrite
    <2>4. QED
      BY <2>2, <2>3
  <1>4. QED
    BY <1>1, <1>2, <1>3 DEF LateInv

LEMMA MergeLate ==
  ASSUME TypeOK, CloudInv, LateInv,
         \/ \E id \in Ids : ReadEntry(id)
         \/ LookUpLocal \/ DropLocal \/ ImportCloud \/ KeepLocal \/ KeptLocal
  PROVE  LateInv'
  <1>1. CASE \/ \E id \in Ids : ReadEntry(id)
             \/ LookUpLocal \/ KeptLocal
    <2>1. /\ local' = local /\ file' = file /\ write' = write /\ mode' = mode
          /\ behind' = behind /\ uploads' = uploads
          /\ \A n \in Writers : write[n] = NoWrite \/ mode # "importing"
                                \/ KeptLocal
      BY <1>1
      DEF LateInv, WritersPlaced, ReadEntry, LookUpLocal, KeptLocal, ghostVars,
          NoMerge
    <2>2. WritersPlaced'
      <3>1. CASE KeptLocal
        BY <2>1, <3>1, CloudAssumption
        DEF CloudInv, Phases, LateInv, WritersPlaced, KeptLocal, Writers, NoMerge
      <3>2. CASE ~KeptLocal
        BY <2>1, <3>2 DEF LateInv, WritersPlaced
      <3>3. QED
        BY <3>1, <3>2
    <2>3. CopyCurrent'
      <3>1. CASE KeptLocal
        BY <3>1 DEF KeptLocal, CopyCurrent, NoMerge
      <3>2. CASE LookUpLocal
        <4>1. merge \in [at : {"read", "import"}, id : Ids, cloud : Versions]
          BY <3>2, MergeFields DEF TypeOK, LookUpLocal, NoMerge
        <4>2. QED
          BY <2>1, <3>2, <4>1 DEF LookUpLocal, LateInv, CopyCurrent, NoMerge
      <3>3. CASE \E id \in Ids : ReadEntry(id)
        BY <2>1, <3>3 DEF ReadEntry, CopyCurrent, NoMerge, Versions
      <3>4. QED
        BY <1>1, <3>1, <3>2, <3>3
    <2>4. QED
      BY <2>1, <2>2, <2>3 DEF LateInv, Caught, Writing
  <1>2. CASE DropLocal \/ ImportCloud
    <2>1. /\ merge # NoMerge /\ merge.id \in Ids /\ merge.cloud \in Versions
          /\ merge.at \in {"found", "import"}
          /\ file' = file /\ write' = write /\ mode' = mode
          /\ behind' = behind /\ uploads' = uploads
      BY <1>2, MergeFields
      DEF TypeOK, DropLocal, ImportCloud, ghostVars, NoMerge
    <2>2. mode = "importing" /\ \A n \in Writers : write[n] = NoWrite
      BY <2>1 DEF CloudInv, Phases, LateInv, WritersPlaced
    <2>3. WritersPlaced'
      BY <2>1, <2>2 DEF WritersPlaced
    <2>4. CopyCurrent'
      BY <1>2, <2>1 DEF DropLocal, ImportCloud, LateInv, CopyCurrent, NoMerge
    <2>5. ASSUME NEW id \in Ids, ~behind[id] PROVE Caught(id)'
      <3>1. CASE local'[id] = local[id]
        BY <2>1, <2>5, <3>1 DEF LateInv, Caught, Writing
      <3>2. CASE local'[id] # local[id]
        <4>1. id = merge.id
          BY <1>2, <2>1, <3>2 DEF TypeOK, DropLocal, ImportCloud, Upserted
        <4>2. CASE DropLocal
          BY <3>2, <4>1, <4>2 DEF TypeOK, DropLocal, Caught
        <4>3. CASE ImportCloud
          <5>1. local'[id] = merge.cloud
            BY <3>2, <4>1, <4>3 DEF TypeOK, ImportCloud, Upserted
          <5>2. file[id] \in 0 .. MaxV /\ merge.cloud <= file[id]
            BY <2>1, <2>5, <4>1, <4>3 DEF LateInv, CopyCurrent, ImportCloud
          <5>3. Writing(id)' = {}
            BY <2>1, <2>2 DEF Writing, NoWrite
          <5>4. QED
            BY <2>1, <5>1, <5>2, <5>3 DEF Caught
        <4>4. QED
          BY <1>2, <4>2, <4>3
      <3>3. QED
        BY <3>1, <3>2
    <2>6. QED
      BY <2>1, <2>3, <2>4, <2>5 DEF LateInv
  <1>3. CASE KeepLocal
    <2>1. /\ merge # NoMerge /\ merge.id \in Ids /\ merge.local \in Versions
          /\ merge \in [at : {"found", "writing"}, id : Ids, cloud : Versions,
                        local : Versions]
      BY <1>3, MergeFields DEF TypeOK, KeepLocal, NoMerge
    <2>2. mode = "importing" /\ \A n \in Writers : write[n] = NoWrite
      BY <1>3, <2>1 DEF CloudInv, Phases, LateInv, WritersPlaced, KeepLocal
    <2>3. /\ 0 \in Writers /\ merge'.at = "writing" /\ mode' = mode
          /\ uploads' = uploads /\ behind' = behind
          /\ write'[0].at = "queued"
          /\ \A n \in Writers \ {0} : write'[n] = write[n]
      BY <1>3, <2>1, CloudAssumption
      DEF TypeOK, KeepLocal, Writers, ghostVars
    <2>4. WritersPlaced'
      BY <2>2, <2>3 DEF TypeOK, WritersPlaced
    <2>5. CopyCurrent'
      BY <2>3 DEF CopyCurrent
    <2>6. ASSUME NEW id \in Ids, ~behind[id] PROVE Caught(id)'
      <3>1. local' = local /\ file' = file
        BY <1>3 DEF KeepLocal
      <3>2. \A n \in Writers : write'[n].at # "checked"
        BY <2>2, <2>3 DEF NoWrite
      <3>3. Writing(id) = {}
        BY <2>2 DEF Writing, NoWrite
      <3>4. QED
        BY <2>6, <3>1, <3>2, <3>3 DEF LateInv, Caught, Writing
    <2>7. QED
      BY <2>3, <2>4, <2>5, <2>6 DEF LateInv
  <1>4. QED
    BY <1>1, <1>2, <1>3

LEMMA RequestLate ==
  ASSUME TypeOK, CloudInv, LateInv, NEW u \in Ids,
         \/ \E v \in Versions : Upload(u, v)
         \/ DeleteRow(u) \/ RemoveFile(u)
  PROVE  LateInv'
  <1>1. /\ mode = "serving" /\ mode' = mode /\ merge = NoMerge /\ merge' = merge
    BY DEF CloudInv, Phases, Upload, DeleteRow, RowDeleted, RemoveFile, processVars
  <1>2. CopyCurrent'
    BY <1>1 DEF CopyCurrent, NoMerge
  <1>3. CASE \E v \in Versions : Upload(u, v)
    <2>1. PICK v \in Versions : Upload(u, v)
      BY <1>3
    <2>2. /\ uploads' = uploads + 1 /\ uploads \in Nat /\ uploads' \in Writers
          /\ write[uploads'] = NoWrite
      BY <2>1, CloudAssumption
      DEF TypeOK, Upload, Writers, LateInv, WritersPlaced
    <2>3. \A n \in Writers \ {uploads'} : write'[n] = write[n]
      BY <2>1, <2>2 DEF TypeOK, Upload, WriteStarted
    <2>4. WritersPlaced'
      <3>1. ASSUME NEW n \in Writers, n > uploads' PROVE write'[n] = NoWrite
        BY <2>2, <2>3, <3>1 DEF Writers, LateInv, WritersPlaced
      <3>2. QED
        BY <1>1, <3>1 DEF WritersPlaced
    <2>5. ASSUME NEW id \in Ids, ~behind'[id] PROVE Caught(id)'
      <3>1. CASE id = u
        <4>1. synced
          BY <2>1, <2>5, <3>1 DEF TypeOK, Upload
        <4>2. write'[uploads'] = [at |-> "queued", id |-> u, v |-> v]
          BY <2>1, <2>2, <4>1 DEF TypeOK, Upload, WriteStarted
        <4>3. local'[id] = v /\ v \in Int
          BY <2>1, <3>1 DEF TypeOK, Upload, Upserted, Versions
        <4>4. QED
          BY <2>2, <3>1, <4>2, <4>3 DEF Caught, Writing
      <3>2. CASE id # u
        <4>1. ~behind[id] /\ local'[id] = local[id] /\ file' = file
          BY <2>1, <2>5, <3>2 DEF TypeOK, Upload, Upserted
        <4>2. \/ write'[uploads'] = NoWrite
              \/ write'[uploads'] = [at |-> "queued", id |-> u, v |-> v]
          BY <2>1, <2>2 DEF TypeOK, Upload, WriteStarted
        <4>3. Writing(id)' = Writing(id)
          <5>1. ~(write[uploads'].at # "none" /\ write[uploads'].id = id)
            BY <2>2 DEF NoWrite
          <5>2. ~(write'[uploads'].at # "none" /\ write'[uploads'].id = id)
            BY <3>2, <4>2 DEF NoWrite
          <5>3. QED
            BY <2>3, <5>1, <5>2 DEF Writing
        <4>4. ASSUME NEW n \in Writing(id) PROVE write'[n] = write[n]
          <5>1. n \in Writers /\ write[n].at # "none"
            BY DEF Writing
          <5>2. write[uploads'].at = "none"
            BY <2>2 DEF NoWrite
          <5>3. n # uploads'
            BY <5>1, <5>2
          <5>4. QED
            BY <2>3, <5>1, <5>3
        <4>5. QED
          BY <4>1, <4>3, <4>4 DEF LateInv, Caught
      <3>3. QED
        BY <3>1, <3>2
    <2>6. QED
      BY <1>2, <2>4, <2>5 DEF LateInv
  <1>4. CASE DeleteRow(u) \/ RemoveFile(u)
    <2>1. write' = write /\ uploads' = uploads
      BY <1>4 DEF DeleteRow, RowDeleted, RemoveFile
    <2>2. WritersPlaced'
      BY <1>1, <2>1 DEF LateInv, WritersPlaced
    <2>3. ASSUME NEW id \in Ids, ~behind'[id] PROVE Caught(id)'
      <3>1. CASE UNCHANGED <<local, file, ghostVars>>
        BY <2>1, <2>3, <3>1 DEF LateInv, Caught, Writing, ghostVars
      <3>2. CASE id = u /\ ~ UNCHANGED <<local, file, ghostVars>>
        BY <1>4, <2>3, <3>2
        DEF TypeOK, DeleteRow, RowDeleted, RemoveFile, Caught
      <3>3. CASE id # u
        <4>1. ~behind[id] /\ local'[id] = local[id] /\ file'[id] = file[id]
          BY <1>4, <2>3, <3>3
          DEF TypeOK, DeleteRow, RowDeleted, RemoveFile, ghostVars
        <4>2. QED
          BY <2>1, <4>1 DEF LateInv, Caught, Writing
      <3>4. QED
        BY <3>1, <3>2, <3>3
    <2>4. QED
      BY <1>2, <2>2, <2>3 DEF LateInv
  <1>5. QED
    BY <1>3, <1>4

LEMMA WriteLate ==
  ASSUME TypeOK, CloudInv, LateInv, NEW w \in Writers,
         CheckFile(w) \/ RenameFile(w)
  PROVE  LateInv'
  <1>1. /\ write[w] \in [at : {"queued", "checked"}, id : Ids, v : Versions]
        /\ write[w].id \in Ids /\ write[w].v \in Versions
    BY WriteFields DEF TypeOK, CheckFile, RenameFile
  <1>2. /\ local' = local /\ merge' = merge /\ mode' = mode
        /\ uploads' = uploads /\ write[w] # NoWrite
        /\ \A n \in Writers \ {w} : write'[n] = write[n]
    BY DEF TypeOK, CheckFile, RenameFile, processVars, NoWrite
  <1>3. WritersPlaced'
    BY <1>2 DEF LateInv, WritersPlaced
  <1>4. CopyCurrent'
    <2>1. merge.at \notin {"read", "found", "import"}
      <3>1. CASE merge = NoMerge
        BY <3>1 DEF NoMerge
      <3>2. CASE merge # NoMerge
        BY <1>2, <3>2 DEF CloudInv, Phases, LateInv, WritersPlaced
      <3>3. QED
        BY <3>1, <3>2
    <2>2. QED
      BY <1>2, <2>1 DEF CopyCurrent
  <1>5. ASSUME NEW id \in Ids, ~behind'[id] PROVE Caught(id)'
    <2>1. local[id] \in 0 .. MaxV
      BY DEF TypeOK
    <2>2. CASE id # write[w].id
      <3>1. /\ ~behind[id] /\ file'[id] = file[id]
            /\ write'[w].at = "none" \/ write'[w].id # id
        BY <1>1, <1>5, <2>2 DEF TypeOK, CheckFile, RenameFile, NoWrite
      <3>2. /\ Writing(id)' = Writing(id)
            /\ \A n \in Writing(id) : write'[n] = write[n]
        BY <1>2, <2>2, <3>1 DEF Writing
      <3>3. QED
        BY <1>2, <3>1, <3>2 DEF LateInv, Caught
    <2>3. CASE id = write[w].id /\ CheckFile(w)
      <3>1. ~behind[id] /\ file[id] # Unreadable /\ file' = file
        <4>1. file[id] # Unreadable /\ behind' = behind
          BY <1>1, <1>5, <2>3, CloudAssumption DEF TypeOK, CheckFile
        <4>2. QED
          BY <1>5, <2>3, <4>1 DEF CheckFile
      <3>2. file[id] \in 0 .. MaxV
        BY <3>1 DEF TypeOK, Files
      <3>3. \A n \in Writers : write[n].at # "checked"
        BY <2>3 DEF CheckFile, MutexFree
      <3>4. CASE write' = [write EXCEPT ![w].at = "checked"]
                 /\ ~(file[id] > write[w].v)
        <4>1. Writing(id)' = Writing(id)
              /\ \A n \in Writing(id) : write'[n].v = write[n].v
          BY <1>1, <1>2, <3>4 DEF TypeOK, Writing
        <4>2. w \in Writing(id)
          BY <1>1, <2>3 DEF Writing
        <4>3. CASE local[id] <= write[w].v
          BY <1>2, <4>1, <4>2, <4>3 DEF Caught
        <4>4. CASE ~(local[id] <= write[w].v)
          <5>1. ~(local[id] <= file[id])
            BY <1>1, <2>1, <3>2, <3>4, <4>4 DEF Versions
          <5>2. QED
            BY <1>2, <3>1, <4>1, <5>1 DEF LateInv, Caught
        <4>5. QED
          BY <4>3, <4>4
      <3>5. CASE write' = [write EXCEPT ![w] = NoWrite] /\ file[id] > write[w].v
        <4>1. \A n \in Writing(id) \ {w} : n \in Writing(id)' /\ write'[n] = write[n]
          BY <1>2 DEF Writing
        <4>2. \A n \in Writing(id)' : write'[n].at # "checked"
          BY <1>2, <3>3, <3>5 DEF TypeOK, Writing, NoWrite
        <4>3. CASE local[id] <= file[id]
          BY <1>2, <3>1, <3>2, <4>2, <4>3 DEF Caught
        <4>4. CASE ~(local[id] <= file[id])
          <5>1. ~(local[id] <= write[w].v)
            BY <1>1, <2>1, <3>2, <3>5, <4>4 DEF Versions
          <5>2. QED
            BY <1>2, <3>1, <4>1, <4>4, <5>1 DEF LateInv, Caught
        <4>5. QED
          BY <4>3, <4>4
      <3>6. QED
        BY <2>3, <3>1, <3>2, <3>4, <3>5 DEF CheckFile
    <2>4. CASE id = write[w].id /\ RenameFile(w)
      <3>1. /\ write[w].at = "checked" /\ write' = [write EXCEPT ![w] = NoWrite]
            /\ file'[id] = write[w].v
            /\ ~behind[id] \/ local[id] <= write[w].v
        BY <1>1, <1>5, <2>1, <2>4 DEF TypeOK, RenameFile, Versions
      <3>2. \A n \in Writing(id)' : write'[n].at # "checked"
        BY <1>2, <3>1 DEF TypeOK, CloudInv, OneHolder, Writing, NoWrite
      <3>3. CASE local[id] <= write[w].v
        BY <1>1, <1>2, <3>1, <3>2, <3>3 DEF Caught, Versions
      <3>4. CASE ~(local[id] <= write[w].v)
        <4>1. local[id] = None
              \/ \E n \in Writing(id) \ {w} : local[id] <= write[n].v
          BY <1>1, <2>4, <3>1, <3>4 DEF LateInv, Caught, Writing
        <4>2. \A n \in Writing(id) \ {w} : n \in Writing(id)' /\ write'[n] = write[n]
          BY <1>2 DEF Writing
        <4>3. QED
          BY <1>2, <4>1, <4>2 DEF Caught
      <3>5. QED
        BY <3>3, <3>4
    <2>5. QED
      BY <2>2, <2>3, <2>4
  <1>6. QED
    BY <1>3, <1>4, <1>5 DEF LateInv

LEMMA OutsideLate ==
  ASSUME TypeOK, CloudInv, LateInv, NEW i \in Ids,
         \/ Import(i) \/ ImportMessages(i) \/ Export(i) \/ DeleteByCommand(i)
         \/ \E x \in Files : CloudArrives(i, x)
  PROVE  LateInv'
  <1>1. /\ write' = write /\ merge' = merge /\ mode' = mode /\ uploads' = uploads
    BY DEF Import, ImportMessages, Export, DeleteByCommand, RowDeleted,
           CloudArrives, processVars
  <1>2. WritersPlaced'
    BY <1>1 DEF LateInv, WritersPlaced
  <1>3. \A id \in Ids \ {i} :
          /\ local'[id] = local[id] /\ file'[id] = file[id]
          /\ behind'[id] = behind[id]
    BY DEF TypeOK, Import, ImportMessages, Export, DeleteByCommand, RowDeleted,
           CloudArrives, Upserted, ghostVars
  <1>4. \/ /\ local'[i] = local[i] \/ local'[i] = None
           /\ file'[i] = file[i] /\ behind'[i] = behind[i]
        \/ behind'[i]
        \/ /\ local'[i] = local[i] /\ behind'[i] = behind[i]
           /\ file[i] \in 0 .. MaxV /\ file'[i] \in 0 .. MaxV
           /\ file[i] < file'[i]
           /\ \A n \in Writing(i) : write[n].at # "checked"
    <2>1. CASE Export(i) \/ DeleteByCommand(i)
      BY <2>1 DEF TypeOK, Export, DeleteByCommand, RowDeleted, ghostVars
    <2>2. CASE Import(i) \/ ImportMessages(i)
      BY <2>2 DEF TypeOK, Import, ImportMessages
    <2>3. CASE \E x \in Files : CloudArrives(i, x)
      <3>1. PICK x \in Files : CloudArrives(i, x)
        BY <2>3
      <3> DEFINE newer == /\ x \in Int /\ file[i] \in Int /\ x > file[i]
                          /\ \A n \in Writing(i) : write[n].at # "checked"
      <3>2. behind'[i] = (behind[i] \/ ~newer)
        BY <3>1 DEF TypeOK, CloudArrives
      <3>3. local' = local /\ file'[i] = x
        BY <3>1 DEF TypeOK, CloudArrives
      <3>4. newer => x \in 0 .. MaxV /\ file[i] \in 0 .. MaxV
        BY CloudAssumption DEF TypeOK, Files
      <3>5. CASE newer
        <4>1. behind'[i] = behind[i]
          BY <3>2, <3>5 DEF TypeOK
        <4>2. QED
          BY <3>3, <3>4, <3>5, <4>1
      <3>6. CASE ~newer
        BY <3>2, <3>6
      <3>7. QED
        BY <3>5, <3>6
    <2>4. QED
      BY <2>1, <2>2, <2>3
  <1>5. CopyCurrent'
    <2>1. SUFFICES ASSUME merge.at \in {"read", "found", "import"},
                          ~behind'[merge.id]
                   PROVE  /\ file'[merge.id] \in 0 .. MaxV
                          /\ merge.cloud <= file'[merge.id]
      BY <1>1 DEF CopyCurrent
    <2>2. merge # NoMerge /\ merge.id \in Ids /\ merge.cloud \in Versions
      BY <2>1, MergeFields DEF TypeOK, NoMerge
    <2>3. CASE merge.id # i
      BY <1>3, <2>1, <2>2, <2>3 DEF LateInv, CopyCurrent
    <2>4. CASE merge.id = i
      BY <1>4, <2>1, <2>2, <2>4 DEF LateInv, CopyCurrent, Versions
    <2>5. QED
      BY <2>3, <2>4
  <1>6. ASSUME NEW id \in Ids, ~behind'[id] PROVE Caught(id)'
    <2>1. Writing(id)' = Writing(id)
      BY <1>1 DEF Writing
    <2>2. CASE local'[id] = local[id] /\ file'[id] = file[id] /\ ~behind[id]
      BY <1>1, <2>1, <2>2 DEF LateInv, Caught
    <2>3. CASE /\ local'[id] = local[id] /\ ~behind[id]
               /\ file[id] \in 0 .. MaxV /\ file'[id] \in 0 .. MaxV
               /\ file[id] < file'[id]
      <3>1. local[id] \in 0 .. MaxV
        BY DEF TypeOK
      <3>2. QED
        BY <1>1, <2>1, <2>3, <3>1 DEF LateInv, Caught
    <2>4. CASE local'[id] = None
      BY <2>4 DEF Caught
    <2>5. QED
      BY <1>3, <1>4, <1>6, <2>2, <2>3, <2>4
  <1>7. QED
    BY <1>2, <1>5, <1>6 DEF LateInv

LEMMA LateNext == TypeOK /\ CloudInv /\ LateInv /\ [Next]_vars => LateInv'
  <1> SUFFICES ASSUME TypeOK, CloudInv, LateInv, [Next]_vars PROVE LateInv'
    OBVIOUS
  <1>1. CASE UNCHANGED vars
    BY <1>1 DEF vars, LateInv, WritersPlaced, CopyCurrent, Caught, Writing
  <1>2. CASE Next
    BY <1>2, StartLate, MergeLate, RequestLate, WriteLate, OutsideLate DEF Next
  <1>3. QED
    BY <1>1, <1>2

\* The file of a thread catches up with its row, or something is known to have
\* kept it behind, for any number of uploads, writes and other machines.
THEOREM FilesCatchUp == Spec => []FileCaughtUp
  <1>1. LateInv => FileCaughtUp
    BY DEF LateInv, Caught, FileCaughtUp
  <1>2. Spec => []CloudInv
    BY CloudInit, CloudNext, TypeCorrect, PTL DEF Spec
  <1>3. QED
    BY <1>1, <1>2, LateInit, LateNext, TypeCorrect, PTL DEF Spec
================================================================================
