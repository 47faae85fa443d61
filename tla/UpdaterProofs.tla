---------------------------- MODULE UpdaterProofs ----------------------------
(***************************************************************************)
(* Theorems about Updater, for any set of releases.                        *)
(***************************************************************************)
EXTENDS Updater, TLAPS

(***************************************************************************)
(* Types.                                                                  *)
(***************************************************************************)
LEMMA ProgramType ==
  ASSUME NEW r \in Releases \cup {Installed}, NEW works \in BOOLEAN
  PROVE  /\ Program(r, works) \in Programs
         /\ Program(r, works).of = r /\ Program(r, works).works = works
         /\ Program(r, works) \notin {Missing, Torn}
  <1>1. Program(r, works) \in Programs
    BY DEF Program, Programs
  <1>2. QED
    BY <1>1, UpdaterAssumption DEF Program

LEMMA InitTypes == Init => TypeOK
  <1> SUFFICES ASSUME Init PROVE TypeOK
    OBVIOUS
  <1>1. binary \in Programs
    BY ProgramType DEF Init
  <1>2. QED
    BY <1>1 DEF Init, TypeOK, PC

\* What the end of an attempt leaves.
LEMMA Ending ==
  ASSUME TypeOK, GivesUp \/ Killed
  PROVE  /\ pc' \in {"idle", "down"} /\ target' = Installed
         /\ candidate' = Missing /\ hadOld' = FALSE /\ left' \in BOOLEAN
  <1>1. (left \/ candidate # Missing) \in BOOLEAN /\ left \in BOOLEAN
    BY DEF TypeOK
  <1>2. CASE GivesUp
    BY <1>1, <1>2 DEF GivesUp
  <1>3. CASE Killed
    BY <1>1, <1>3 DEF Killed
  <1>4. QED
    BY <1>2, <1>3

LEMMA FetchTypes ==
  ASSUME TypeOK,
         \/ \E r \in Releases : Found(r)
         \/ Download \/ Verify \/ Unpack \/ Unpacked \/ Probe
  PROVE  TypeOK'
  <1>1. ASSUME NEW r \in Releases, Found(r) PROVE TypeOK'
    BY <1>1 DEF TypeOK, Found, Running, files, cache, PC
  <1>2. ASSUME Download PROVE TypeOK'
    <2>1. target.works \in BOOLEAN
      BY UpdaterAssumption DEF TypeOK
    <2>2. \A works \in {target.works, FALSE} : Program(target, works) \in Programs
      BY <2>1, ProgramType DEF TypeOK
    <2>3. archive' \in Programs \cup {Missing}
      BY <1>2, <2>2 DEF TypeOK, Download
    <2>4. CASE GivesUp
      BY <1>2, <2>3, <2>4, Ending DEF TypeOK, Download, Running, files, PC
    <2>5. CASE pc' = "verify" /\ UNCHANGED <<target, candidate, left, hadOld>>
      BY <1>2, <2>3, <2>5 DEF TypeOK, Download, Running, files, PC
    <2>6. QED
      BY <1>2, <2>4, <2>5 DEF Download
  <1>3. ASSUME Verify PROVE TypeOK'
    <2>1. \/ pc' = "unpack" /\ UNCHANGED <<target, candidate, left, hadOld>>
          \/ GivesUp
      BY <1>3 DEF Verify
    <2>2. /\ pc' \in PC /\ target' \in Releases \cup {Installed}
          /\ candidate' = Missing /\ hadOld' = FALSE /\ left' \in BOOLEAN
      BY <1>3, <2>1, Ending DEF TypeOK, Verify, PC
    <2>3. QED
      BY <1>3, <2>2 DEF TypeOK, Verify, Running, files
  <1>4. ASSUME Unpack \/ Unpacked PROVE TypeOK'
    BY <1>4, Ending DEF TypeOK, Unpack, Unpacked, Running, files, PC
  <1>5. ASSUME Probe PROVE TypeOK'
    BY <1>5, Ending DEF TypeOK, Probe, Running, files, PC
  <1>6. QED
    BY <1>1, <1>2, <1>3, <1>4, <1>5

LEMMA SwapTypes ==
  ASSUME TypeOK, Stage \/ Copied \/ BackUp \/ Install \/ Synced \/ Kickstart
  PROVE  TypeOK'
  <1>1. ASSUME Stage PROVE TypeOK'
    BY <1>1 DEF TypeOK, Stage, Goes, Running, files, cache, PC
  <1>2. ASSUME Copied PROVE TypeOK'
    BY <1>2, Ending DEF TypeOK, Copied, Running, files, PC
  <1>3. ASSUME BackUp PROVE TypeOK'
    BY <1>3, Ending DEF TypeOK, BackUp, Running, files, PC
  <1>4. ASSUME Install PROVE TypeOK'
    BY <1>4, Ending DEF TypeOK, Install, Running, files, PC
  <1>5. ASSUME Synced PROVE TypeOK'
    BY <1>5, Ending DEF TypeOK, Synced, Running, files, PC
  <1>6. ASSUME Kickstart PROVE TypeOK'
    BY <1>6, Ending DEF TypeOK, Kickstart, Running, files, PC
  <1>7. QED
    BY <1>1, <1>2, <1>3, <1>4, <1>5, <1>6

LEMMA EnvironmentTypes ==
  ASSUME TypeOK, (\E r \in Releases : Publish(r)) \/ Crash \/ Start \/ Rescue
  PROVE  TypeOK'
  <1>1. ASSUME NEW r \in Releases, Publish(r) PROVE TypeOK'
    BY <1>1 DEF TypeOK, Publish, files, cache
  <1>2. ASSUME Crash PROVE TypeOK'
    BY <1>2, Ending DEF TypeOK, Crash, Running, files, PC
  <1>3. ASSUME Start PROVE TypeOK'
    <2>1. binary.of \in Releases \cup {Installed}
      BY <1>3 DEF TypeOK, Start, Works, Programs
    <2>2. QED
      BY <1>3, <2>1 DEF TypeOK, Start, files, cache, PC
  <1>4. ASSUME Rescue PROVE TypeOK'
    BY <1>4 DEF TypeOK, Rescue, Running, files, cache
  <1>5. QED
    BY <1>1, <1>2, <1>3, <1>4

LEMMA NextTypes == TypeOK /\ [Next]_vars => TypeOK'
  <1>1. ASSUME TypeOK, UNCHANGED vars PROVE TypeOK'
    BY <1>1 DEF TypeOK, vars, files, cache
  <1>2. QED
    BY <1>1, FetchTypes, SwapTypes, EnvironmentTypes DEF Next, Apply

\* The variables keep their types, and no attempt begins with the extract
\* directory of an earlier one as its own: every error removes it, unless
\* that fails, and a kill leaves it where nobody looks for it.
THEOREM TypeCorrect == Spec => []TypeOK
  BY InitTypes, NextTypes, PTL DEF Spec

(***************************************************************************)
(* The three files.                                                        *)
(***************************************************************************)
Swapping == {"stage", "copying", "backup", "install"}

\* Where the attempt is, and what lies at the three paths.
FilesInv ==
  /\ binary # Missing => Works(binary)
  /\ pc \in {"verify", "unpack", "unpacking", "probe"} \cup Swapping =>
       archive # Missing /\ archive.of = target
  /\ pc \in {"probe"} \cup Swapping => candidate = archive
  /\ pc \in Swapping => archive.works
  /\ pc \in {"backup", "install"} => staged = archive
  /\ pc = "backup" => backup = Missing
  /\ pc = "install" =>
       IF hadOld THEN binary = Missing /\ Works(backup) ELSE backup = Missing
  /\ ~stuck =>
       binary # Missing \/ (pc \in {"down", "install"} /\ Works(backup))

LEMMA ArchiveIsProgram ==
  ASSUME TypeOK, archive # Missing
  PROVE  archive \in Programs /\ archive # Torn
  BY UpdaterAssumption DEF TypeOK

LEMMA InitFiles == Init => FilesInv
  <1> SUFFICES ASSUME Init PROVE FilesInv
    OBVIOUS
  <1>1. Works(binary)
    BY ProgramType DEF Init, Works
  <1>2. QED
    BY <1>1 DEF Init, FilesInv, Swapping, Works

LEMMA FetchFiles ==
  ASSUME TypeOK, FilesInv,
         \/ \E r \in Releases : Found(r)
         \/ Download \/ Verify \/ Unpack \/ Unpacked \/ Probe
  PROVE  FilesInv'
  <1>1. ASSUME NEW r \in Releases, Found(r) PROVE FilesInv'
    BY <1>1 DEF FilesInv, Found, files, cache, Swapping, Works
  <1>2. ASSUME Download PROVE FilesInv'
    <2>1. ASSUME NEW works \in {target.works, FALSE}
          PROVE  Program(target, works) # Missing /\ Program(target, works).of = target
      <3>1. target.works \in BOOLEAN /\ target \in Releases \cup {Installed}
        BY UpdaterAssumption DEF TypeOK
      <3>2. Program(target, works) \in Programs
        BY <3>1, <2>1 DEF Program, Programs
      <3>3. QED
        BY <3>2, UpdaterAssumption DEF Program
    <2>2. QED
      BY <1>2, <2>1 DEF FilesInv, Download, GivesUp, files, Swapping, Works
  <1>3. ASSUME Verify \/ Unpack \/ Unpacked PROVE FilesInv'
    BY <1>3 DEF FilesInv, Verify, Unpack, Unpacked, GivesUp, files, Swapping, Works
  <1>4. ASSUME Probe PROVE FilesInv'
    BY <1>4 DEF FilesInv, Probe, GivesUp, files, Swapping, Works
  <1>5. QED
    BY <1>1, <1>2, <1>3, <1>4

LEMMA SwapFiles ==
  ASSUME TypeOK, FilesInv, Stage \/ Copied \/ BackUp \/ Install \/ Synced \/ Kickstart
  PROVE  FilesInv'
  <1>1. ASSUME Stage PROVE FilesInv'
    BY <1>1 DEF FilesInv, Stage, Goes, cache, Swapping, Works
  <1>2. ASSUME Copied PROVE FilesInv'
    BY <1>2 DEF FilesInv, Copied, GivesUp, Swapping, Works
  <1>3. ASSUME BackUp PROVE FilesInv'
    BY <1>3 DEF FilesInv, BackUp, GivesUp, files, Swapping, Works
  <1>4. ASSUME Install PROVE FilesInv'
    <2>1. Works(staged) /\ staged # Missing
      BY <1>4, ArchiveIsProgram DEF FilesInv, Install, Swapping, Works
    <2>2. QED
      BY <1>4, <2>1 DEF FilesInv, Install, GivesUp, Swapping, Works
  <1>5. ASSUME Synced PROVE FilesInv'
    BY <1>5 DEF FilesInv, Synced, GivesUp, files, Swapping, Works
  <1>6. ASSUME Kickstart PROVE FilesInv'
    BY <1>6 DEF FilesInv, Kickstart, Killed, GivesUp, files, Swapping, Works
  <1>7. QED
    BY <1>1, <1>2, <1>3, <1>4, <1>5, <1>6

LEMMA EnvironmentFiles ==
  ASSUME TypeOK, FilesInv, (\E r \in Releases : Publish(r)) \/ Crash \/ Start \/ Rescue
  PROVE  FilesInv'
  <1>1. ASSUME NEW r \in Releases, Publish(r) PROVE FilesInv'
    BY <1>1 DEF FilesInv, Publish, files, cache, Works
  <1>2. ASSUME Crash PROVE FilesInv'
    BY <1>2 DEF FilesInv, Crash, Killed, files, Swapping, Works
  <1>3. ASSUME Start PROVE FilesInv'
    BY <1>3 DEF FilesInv, Start, files, cache, Swapping, Works
  <1>4. ASSUME Rescue PROVE FilesInv'
    BY <1>4 DEF FilesInv, Rescue, cache, Swapping, Works
  <1>5. QED
    BY <1>1, <1>2, <1>3, <1>4

LEMMA NextFiles == TypeOK /\ FilesInv /\ [Next]_vars => FilesInv'
  <1>1. ASSUME FilesInv, UNCHANGED vars PROVE FilesInv'
    BY <1>1 DEF FilesInv, vars, files, cache, Works
  <1>2. QED
    BY <1>1, FetchFiles, SwapFiles, EnvironmentFiles DEF Next, Apply

\* Wherever the machine stops, a program that works is at the path or beside
\* it: the two renames of swap and the one that undoes the first never leave
\* none, unless undoing failed.
THEOREM Runnable == Spec => []RunnableKept
  <1>1. FilesInv => RunnableKept
    BY DEF FilesInv, RunnableKept
  <1>2. QED
    BY <1>1, InitTypes, InitFiles, NextTypes, NextFiles, PTL DEF Spec

(***************************************************************************)
(* Versions.                                                               *)
(***************************************************************************)

\* What an attempt installs is newer than the process that makes it.
TargetNewer == pc \notin {"down", "idle"} => Newer(target, current)

AtLeast(r) == r = current \/ Newer(r, current)

\* What may be started next is not older than what ran last.
OrderInv ==
  /\ TargetNewer
  /\ Works(binary) => AtLeast(binary.of)
  /\ binary = Missing /\ Works(backup) => AtLeast(backup.of)

LEMMA InitOrder == Init => OrderInv
  BY UpdaterAssumption
     DEF Init, OrderInv, TargetNewer, AtLeast, Works, Program, Programs

LEMMA NextOrder == TypeOK /\ FilesInv /\ OrderInv /\ [Next]_vars => OrderInv'
  <1> SUFFICES ASSUME TypeOK, FilesInv, OrderInv, [Next]_vars PROVE OrderInv'
    OBVIOUS
  <1> USE DEF OrderInv, TargetNewer, AtLeast
  <1>1. ASSUME NEW r \in Releases, Found(r) PROVE OrderInv'
    BY <1>1 DEF Found, Selected, Candidates, Running, files, Works
  <1>2. ASSUME Download \/ Verify \/ Unpack \/ Unpacked \/ Probe PROVE OrderInv'
    BY <1>2 DEF Download, Verify, Unpack, Unpacked, Probe, GivesUp, Running, files, Works
  <1>3. ASSUME Stage \/ Copied PROVE OrderInv'
    BY <1>3 DEF Stage, Copied, Goes, GivesUp, Running, Works
  <1>4. ASSUME BackUp PROVE OrderInv'
    BY <1>4 DEF BackUp, GivesUp, Running, files, Works, FilesInv
  <1>5. ASSUME Install PROVE OrderInv'
    <2>1. staged.of = target
      BY <1>5 DEF Install, FilesInv, Swapping
    <2>2. hadOld => binary = Missing /\ Works(backup)
      BY <1>5 DEF Install, FilesInv
    <2>3. CASE GivesUp
      BY <1>5, <2>2, <2>3 DEF Install, GivesUp, Running, Works
    <2>4. CASE binary' = staged /\ pc' = "sync" /\ UNCHANGED target
      <3>1. UNCHANGED current /\ binary' # Missing
        BY <1>5, <2>4, ArchiveIsProgram
        DEF Install, FilesInv, Swapping, Running, Works
      <3>2. QED
        BY <1>5, <2>1, <2>4, <3>1 DEF Install, Works
    <2>5. QED
      BY <1>5, <2>3, <2>4 DEF Install
  <1>6. ASSUME Synced \/ Kickstart PROVE OrderInv'
    BY <1>6 DEF Synced, Kickstart, Killed, GivesUp, Running, files, Works
  <1>7. ASSUME NEW r \in Releases, Publish(r) PROVE OrderInv'
    BY <1>7 DEF Publish, files, Works
  <1>8. ASSUME Crash PROVE OrderInv'
    BY <1>8 DEF Crash, Killed, Running, files, Works
  <1>9. ASSUME Start PROVE OrderInv'
    BY <1>9 DEF Start, files, Works
  <1>10. ASSUME Rescue PROVE OrderInv'
    BY <1>10 DEF Rescue, Running, Works, FilesInv
  <1>11. ASSUME UNCHANGED vars PROVE OrderInv'
    BY <1>11 DEF vars, files, Works
  <1>12. QED
    BY <1>1, <1>2, <1>3, <1>4, <1>5, <1>6, <1>7, <1>8, <1>9, <1>10, <1>11
       DEF Next, Apply

\* The process that is started is the one that ran last or a newer one: also
\* when it was killed in the middle of a swap, when the backup was put back and
\* when a release was withdrawn meanwhile.
THEOREM OnlyForward == Spec => NeverOlder
  <1>1. ASSUME OrderInv, [Next]_vars
        PROVE  current' # current => Newer(current', current)
    BY <1>1 DEF OrderInv, AtLeast, Next, Apply, Found, Download, Verify, Unpack, Unpacked, Probe, Stage,
                Copied, BackUp, Install, Synced, Kickstart, Publish, Crash, Start,
                Rescue, Running, vars
  <1>2. OrderInv /\ [Next]_vars => [current' # current => Newer(current', current)]_vars
    BY <1>1
  <1>3. QED
    BY <1>2, InitTypes, InitFiles, InitOrder, NextTypes, NextFiles, NextOrder, PTL
       DEF Spec, NeverOlder

(***************************************************************************)
(* The backup.                                                             *)
(***************************************************************************)

\* A process that was started as what lies at the path has it as its version,
\* and moves it to the backup.
OwnInv ==
  /\ ~stayed /\ pc \notin {"down", "sync", "restart"} /\ Works(binary) =>
       binary.of = current
  /\ ~stayed /\ pc = "install" /\ hadOld => backup.of = current

LEMMA NewerIsOther ==
  ASSUME NEW r \in Releases \cup {Installed}
  PROVE  ~Newer(r, r)
  <1>1. r.num \in Nat /\ r.pre \in Seq(Nat)
    BY UpdaterAssumption
  <1>2. ~StringLess(r.pre, r.pre)
    BY <1>1 DEF StringLess
  <1>3. QED
    BY <1>1, <1>2 DEF Newer

LEMMA InitOwn == Init => OwnInv
  BY DEF Init, OwnInv, Program

LEMMA NextOwn == TypeOK /\ FilesInv /\ OwnInv /\ [Next]_vars => OwnInv'
  <1> SUFFICES ASSUME TypeOK, FilesInv, OwnInv, [Next]_vars PROVE OwnInv'
    OBVIOUS
  <1> USE DEF OwnInv
  <1>1. ASSUME NEW r \in Releases, Found(r) PROVE OwnInv'
    BY <1>1 DEF Found, Running, files, Works
  <1>2. ASSUME Download \/ Verify \/ Unpack \/ Unpacked \/ Probe PROVE OwnInv'
    BY <1>2 DEF Download, Verify, Unpack, Unpacked, Probe, GivesUp, Running, files, Works
  <1>3. ASSUME Stage \/ Copied PROVE OwnInv'
    BY <1>3 DEF Stage, Copied, Goes, GivesUp, Running, Works
  <1>4. ASSUME BackUp PROVE OwnInv'
    BY <1>4 DEF BackUp, GivesUp, Running, files, Works, FilesInv
  <1>5. ASSUME Install PROVE OwnInv'
    BY <1>5 DEF Install, GivesUp, Running, Works, FilesInv
  <1>6. ASSUME Synced \/ Kickstart PROVE OwnInv'
    BY <1>6 DEF Synced, Kickstart, Killed, GivesUp, Running, files, Works
  <1>7. ASSUME NEW r \in Releases, Publish(r) PROVE OwnInv'
    BY <1>7 DEF Publish, files, Works
  <1>8. ASSUME Crash PROVE OwnInv'
    BY <1>8 DEF Crash, Killed, Running, files, Works
  <1>9. ASSUME Start PROVE OwnInv'
    BY <1>9 DEF Start, files, Works
  <1>10. ASSUME Rescue PROVE OwnInv'
    BY <1>10 DEF Rescue, Running, Works
  <1>11. ASSUME UNCHANGED vars PROVE OwnInv'
    BY <1>11 DEF vars, files, Works
  <1>12. QED
    BY <1>1, <1>2, <1>3, <1>4, <1>5, <1>6, <1>7, <1>8, <1>9, <1>10, <1>11
       DEF Next, Apply

LEMMA NextPrevious ==
  TypeOK /\ FilesInv /\ OrderInv /\ OwnInv /\ BackupIsPrevious /\ [Next]_vars
    => BackupIsPrevious'
  <1> SUFFICES ASSUME TypeOK, FilesInv, OrderInv, OwnInv, BackupIsPrevious, [Next]_vars
               PROVE  BackupIsPrevious'
    OBVIOUS
  <1> USE DEF BackupIsPrevious
  <1>1. ASSUME NEW r \in Releases, Found(r) PROVE BackupIsPrevious'
    BY <1>1 DEF Found, files, Works
  <1>2. ASSUME Download \/ Verify \/ Unpack \/ Unpacked \/ Probe PROVE BackupIsPrevious'
    BY <1>2 DEF Download, Verify, Unpack, Unpacked, Probe, files, Works
  <1>3. ASSUME Stage \/ Copied PROVE BackupIsPrevious'
    BY <1>3 DEF Stage, Copied, Works
  <1>4. ASSUME BackUp PROVE BackupIsPrevious'
    BY <1>4 DEF BackUp, files, Works
  <1>5. ASSUME Install PROVE BackupIsPrevious'
    <2>1. CASE binary' = staged /\ UNCHANGED backup /\ repeated' = stayed
      <3> SUFFICES ASSUME ~stayed, Works(backup)
                   PROVE  staged.of # backup.of
        BY <2>1 DEF Works
      <3>1. hadOld /\ backup.of = current
        BY <1>5 DEF Install, FilesInv, OwnInv, Works
      <3>2. staged.of = target /\ Newer(target, current)
        BY <1>5 DEF Install, FilesInv, OrderInv, TargetNewer, Swapping
      <3>3. current \in Releases \cup {Installed}
        BY DEF TypeOK
      <3>4. QED
        BY <3>1, <3>2, <3>3, NewerIsOther
    <2>2. CASE backup' = Missing
      BY <2>2 DEF Works
    <2>3. CASE UNCHANGED <<binary, backup>>
      BY <1>5, <2>3 DEF Install, FilesInv, Works
    <2>4. QED
      BY <1>5, <2>1, <2>2, <2>3 DEF Install
  <1>6. ASSUME Synced \/ Kickstart PROVE BackupIsPrevious'
    BY <1>6 DEF Synced, Kickstart, files, Works
  <1>7. ASSUME NEW r \in Releases, Publish(r) PROVE BackupIsPrevious'
    BY <1>7 DEF Publish, files, Works
  <1>8. ASSUME Crash \/ Start \/ Rescue PROVE BackupIsPrevious'
    BY <1>8 DEF Crash, Start, Rescue, files, Works
  <1>9. ASSUME UNCHANGED vars PROVE BackupIsPrevious'
    BY <1>9 DEF vars, files, Works
  <1>10. QED
    BY <1>1, <1>2, <1>3, <1>4, <1>5, <1>6, <1>7, <1>8, <1>9 DEF Next, Apply

\* One can go back: what lies in the backup is another release than the one at
\* the path, unless a process that outlived its update made it twice.
THEOREM WayBack == Spec => []BackupIsPrevious
  <1>1. Init => BackupIsPrevious
    BY DEF Init, BackupIsPrevious, Works
  <1>2. QED
    BY <1>1, InitTypes, InitFiles, InitOrder, InitOwn, NextTypes, NextFiles,
       NextOrder, NextOwn, NextPrevious, PTL DEF Spec

==============================================================================
