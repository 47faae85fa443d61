----------------------------- MODULE ThreadCloud -----------------------------
(***************************************************************************)
(* The thread store of one machine and its files in iCloud                 *)
(* (internal/neo/threadstore, the start-up and the import and export       *)
(* commands of cmd/amp-proxy-neo/main.go).                                 *)
(*                                                                         *)
(* Uploads go to SQLite and leave a goroutine behind that writes a file;   *)
(* a start merges the files into SQLite before requests are served; other  *)
(* machines change the files at any time, and the export and import        *)
(* commands are processes of their own that open SQLite directly.          *)
(*                                                                         *)
(* A thread's contents are its version: everything here is decided by      *)
(* versions, so what is asked is whether the greatest one survives.        *)
(***************************************************************************)
EXTENDS Integers, FiniteSets

CONSTANTS
  Ids,          \* threads
  MaxV,         \* bound: versions
  MaxUploads,   \* bound: accepted uploads
  MaxArrivals,  \* bound: changes that iCloud brings from other machines
  MaxStarts,    \* bound: starts of the process
  Unreadable    \* a file that does not parse (icloud.go readThreadFile)

ASSUME CloudAssumption ==
  /\ MaxV \in Nat \ {0} /\ MaxUploads \in Nat
  /\ MaxArrivals \in Nat /\ MaxStarts \in Nat \ {0}
  /\ Unreadable \notin Int

\* A thread with a version is positive (ParseThread); 0 is a missing one.
Versions == 1 .. MaxV
None == 0
Files == (0 .. MaxV) \cup {Unreadable}

VARIABLES
  local,     \* SQLite: the version of each thread's row
  file,      \* the file of each thread
  mode,      \* "down", "importing" or "serving"
  synced,    \* threads is the ICloudSyncStore and not only its base
  todo,      \* importing: directory entries that are still to be merged
  merge,     \* importing: the entry at hand
  write,     \* the goroutines that write files, one per upload, and 0: merge's
  uploads,   \* uploads accepted so far
  removing,  \* DeleteThread: threads whose row is deleted and whose file is not
  archive,   \* what the last export wrote (tar.gz or JSON)
  arrivals, starts,
  \* For the properties:
  top,       \* the greatest version since the thread's last deletion
  calm,      \* nothing happened that is meant or known to take versions away
  behind,    \* something happened that leaves the file behind SQLite
  gone       \* the thread was deleted, and nobody brought it back

processVars == <<mode, synced, todo, merge, starts>>
ghostVars == <<top, calm, behind, gone>>
vars == <<local, file, mode, synced, todo, merge, write, uploads, removing,
          archive, arrivals, starts, top, calm, behind, gone>>

NoMerge == [at |-> "idle"]
Merges ==
  {NoMerge}
  \cup [at : {"read", "import"}, id : Ids, cloud : Versions]
  \cup [at : {"found", "writing"}, id : Ids, cloud : Versions, local : Versions]

\* A goroutine in WriteThread: it waits for s.mu, or holds it and has found
\* that the file does not keep it from writing.
NoWrite == [at |-> "none"]
Writes == {NoWrite} \cup [at : {"queued", "checked"}, id : Ids, v : Versions]
Writers == 0 .. MaxUploads

Writing(id) == {n \in Writers : write[n].at # "none" /\ write[n].id = id}

Maximum(a, b) == IF a < b THEN b ELSE a
Raised(f, id, x) == [f EXCEPT ![id] = Maximum(@, x)]

Init ==
  /\ local \in [Ids -> 0 .. 1]
  /\ file = [id \in Ids |-> None]
  /\ mode = "down" /\ synced = FALSE /\ todo = {} /\ merge = NoMerge
  /\ write = [n \in Writers |-> NoWrite]
  /\ uploads = 0 /\ removing = {}
  /\ archive = [id \in Ids |-> None]
  /\ arrivals = 0 /\ starts = 0
  /\ top = local
  /\ calm = [id \in Ids |-> TRUE]
  /\ behind = [id \in Ids |-> TRUE]
  /\ gone = [id \in Ids |-> FALSE]

------------------------------------------------------------------------------
(* Starts and merging.                                                      *)

\* ImportExisting lists the directory, or cannot and the process goes on
\* without synchronisation.
Start ==
  /\ mode = "down" /\ starts < MaxStarts
  /\ starts' = starts + 1
  /\ \/ /\ mode' = "importing" /\ synced' = TRUE
        /\ todo' = {id \in Ids : file[id] # None}
        /\ UNCHANGED behind
     \/ /\ mode' = "serving" /\ synced' = FALSE
        /\ behind' = [id \in Ids |-> TRUE]
        /\ UNCHANGED todo
  /\ UNCHANGED <<local, file, merge, write, uploads, removing, archive,
                 arrivals, top, calm, gone>>

\* Mutant: the error of a file that does not parse is not looked at.
ReadEntryUnchecked(id) ==
  /\ mode = "importing" /\ merge = NoMerge /\ id \in todo
  /\ todo' = todo \ {id}
  /\ merge' = [at |-> "read", id |-> id, cloud |-> file[id]]
  /\ UNCHANGED <<local, file, mode, synced, write, uploads, removing, archive,
                 arrivals, starts, ghostVars>>

\* The next entry is read; one that cannot be is logged and skipped.
ReadEntry(id) ==
  /\ mode = "importing" /\ merge = NoMerge /\ id \in todo
  /\ todo' = todo \ {id}
  /\ merge' = IF file[id] \in Versions
              THEN [at |-> "read", id |-> id, cloud |-> file[id]]
              ELSE NoMerge
  /\ UNCHANGED <<local, file, mode, synced, write, uploads, removing, archive,
                 arrivals, starts, ghostVars>>

\* mergeCloudThread looks the thread up, or fails to and skips it.
LookUpLocal ==
  /\ merge.at = "read"
  /\ merge' \in
       { IF local[merge.id] = None THEN [merge EXCEPT !.at = "import"]
         ELSE [at |-> "found", id |-> merge.id, cloud |-> merge.cloud,
               local |-> local[merge.id]],
         NoMerge }
  /\ UNCHANGED <<local, file, mode, synced, todo, write, uploads, removing,
                 archive, arrivals, starts, ghostVars>>

\* Mutant: the versions are not compared.
DropLocalAlways ==
  /\ merge.at = "found"
  /\ merge' = [at |-> "import", id |-> merge.id, cloud |-> merge.cloud]
  /\ local' = [local EXCEPT ![merge.id] = None]
  /\ UNCHANGED <<file, mode, synced, todo, write, uploads, removing, archive,
                 arrivals, starts, ghostVars>>

\* The cloud's version is greater, or it is equal and the file is newer: the
\* row goes before the cloud's thread comes.  An error of the deletion is
\* ignored.
DropLocal ==
  /\ merge.at = "found" /\ merge.cloud >= merge.local
  /\ merge' = [at |-> "import", id |-> merge.id, cloud |-> merge.cloud]
  /\ \/ /\ local' = [local EXCEPT ![merge.id] = None]
        \* A command may have imported a greater one since the look-up.
        /\ calm' = [calm EXCEPT ![merge.id] = @ /\ local[merge.id] <= merge.cloud]
     \/ UNCHANGED <<local, calm>>
  /\ UNCHANGED <<file, mode, synced, todo, write, uploads, removing, archive,
                 arrivals, starts, top, behind, gone>>

\* UploadThread of SQLite: the row is written if the version is greater.
Upserted(id, v) == IF v > local[id] THEN [local EXCEPT ![id] = v] ELSE local

\* ImportThread into the row that is free now; a failure is logged.
ImportCloud ==
  /\ merge.at = "import"
  /\ local' \in {Upserted(merge.id, merge.cloud), local}
  /\ merge' = NoMerge
  /\ UNCHANGED <<file, mode, synced, todo, write, uploads, removing, archive,
                 arrivals, starts, ghostVars>>

\* The row is kept and its thread written to the file.
KeepLocal ==
  /\ merge.at = "found" /\ merge.cloud <= merge.local
  /\ merge' = [merge EXCEPT !.at = "writing"]
  /\ write' = [write EXCEPT ![0] =
                 [at |-> "queued", id |-> merge.id, v |-> merge.local]]
  /\ UNCHANGED <<local, file, mode, synced, todo, uploads, removing, archive,
                 arrivals, starts, ghostVars>>

KeptLocal ==
  /\ merge.at = "writing" /\ write[0] = NoWrite
  /\ merge' = NoMerge
  /\ UNCHANGED <<local, file, mode, synced, todo, write, uploads, removing,
                 archive, arrivals, starts, ghostVars>>

Serve ==
  /\ mode = "importing" /\ todo = {} /\ merge = NoMerge
  /\ mode' = "serving"
  /\ UNCHANGED <<local, file, synced, todo, merge, write, uploads, removing,
                 archive, arrivals, starts, ghostVars>>

\* The process is killed or ends; nothing waits for its goroutines.
Crash ==
  /\ mode # "down"
  /\ mode' = "down" /\ todo' = {} /\ merge' = NoMerge
  /\ behind' = [id \in Ids |-> behind[id] \/ Writing(id) # {}]
  /\ write' = [n \in Writers |-> NoWrite]
  /\ removing' = {}
  /\ UNCHANGED <<local, file, synced, uploads, archive, arrivals, starts, top,
                 calm, gone>>

------------------------------------------------------------------------------
(* Requests: sessions and the HTTP handlers call the same store.            *)

\* UploadThread of ICloudSyncStore starts the goroutine of the file.
WriteStarted(id, v) ==
  IF synced
  THEN [write EXCEPT ![uploads + 1] = [at |-> "queued", id |-> id, v |-> v]]
  ELSE write

\* An accepted upload; one whose version is not greater is answered with a
\* conflict and changes nothing.
Upload(id, v) ==
  /\ mode = "serving" /\ uploads < MaxUploads
  /\ v > local[id]
  /\ local' = Upserted(id, v)
  /\ uploads' = uploads + 1
  /\ write' = WriteStarted(id, v)
  /\ top' = Raised(top, id, v)
  /\ behind' = [behind EXCEPT ![id] = ~synced]
  /\ gone' = [gone EXCEPT ![id] = FALSE]
  /\ UNCHANGED <<file, processVars, removing, archive, arrivals, calm>>

\* What may bring a thread back whose row is deleted: its file, a write that is
\* under way, and the merge's copy.
Remains(id) ==
  file[id] # None \/ Writing(id) # {} \/ (merge # NoMerge /\ merge.id = id)

\* DeleteThread of SQLite.
RowDeleted(id) ==
  /\ local' = [local EXCEPT ![id] = None]
  /\ top' = [top EXCEPT ![id] = None]
  /\ calm' = [calm EXCEPT ![id] = FALSE]
  /\ gone' = [gone EXCEPT ![id] = ~Remains(id)]
  /\ UNCHANGED <<file, processVars, write, uploads, archive, arrivals, behind>>

\* DeleteThread of a request: the row, then the file, without s.mu.
DeleteRow(id) ==
  /\ mode = "serving"
  /\ RowDeleted(id)
  /\ removing' = IF synced THEN removing \cup {id} ELSE removing

\* The delete-thread command, a process of its own: it opens SQLite without
\* the synchronisation, so that the file stays.
DeleteByCommand(id) == RowDeleted(id) /\ UNCHANGED removing

\* Mutant: only the row is deleted.
RemoveFileForgotten(id) ==
  /\ id \in removing
  /\ removing' = removing \ {id}
  /\ gone' = [gone EXCEPT ![id] = local[id] = None /\ Writing(id) = {}]
  /\ UNCHANGED <<local, file, processVars, write, uploads, archive, arrivals,
                 top, calm, behind>>

\* The error of os.Remove is ignored: then the file stays.
RemoveFile(id) ==
  /\ id \in removing
  /\ removing' = removing \ {id}
  /\ \/ /\ file' = [file EXCEPT ![id] = None]
        /\ LET clean == local[id] = None /\ Writing(id) = {}
           IN /\ gone' = [gone EXCEPT ![id] = clean]
              /\ calm' = [calm EXCEPT ![id] = clean]
              /\ top' = [top EXCEPT ![id] = IF clean THEN None ELSE @]
        /\ behind' = [behind EXCEPT ![id] = local[id] # None]
     \/ file[id] # None /\ UNCHANGED <<file, ghostVars>>
  /\ UNCHANGED <<local, processVars, write, uploads, archive, arrivals>>

------------------------------------------------------------------------------
(* WriteThread: one goroutine at a time holds s.mu from its look at the file *)
(* to the rename.                                                            *)

MutexFree == \A n \in Writers : write[n].at # "checked"

\* Mutant: whatever the file holds is replaced.
CheckFileBlind(n) ==
  /\ write[n].at = "queued" /\ MutexFree
  /\ write' = [write EXCEPT ![n].at = "checked"]
  /\ UNCHANGED <<local, file, processVars, uploads, removing, archive, arrivals,
                 ghostVars>>

\* It stops if the file is newer, or if it cannot be read (unlike a missing one).
CheckFile(n) ==
  /\ write[n].at = "queued" /\ MutexFree
  /\ LET w == write[n]
         keepCloud == file[w.id] \in Int /\ file[w.id] > w.v
     IN \/ /\ file[w.id] \in Int /\ ~keepCloud
           /\ write' = [write EXCEPT ![n].at = "checked"]
           /\ UNCHANGED behind
        \/ /\ keepCloud
           /\ write' = [write EXCEPT ![n] = NoWrite]
           /\ UNCHANGED behind
        \/ /\ file[w.id] = Unreadable
           /\ write' = [write EXCEPT ![n] = NoWrite]
           /\ behind' = [behind EXCEPT ![w.id] = TRUE]
  /\ UNCHANGED <<local, file, processVars, uploads, removing, archive, arrivals,
                 top, calm, gone>>

\* The temporary file takes the place of the old one, or an error is dropped.
RenameFile(n) ==
  /\ write[n].at = "checked"
  /\ write' = [write EXCEPT ![n] = NoWrite]
  /\ \/ /\ file' = [file EXCEPT ![write[n].id] = write[n].v]
        /\ behind' = [behind EXCEPT ![write[n].id] = @ /\ write[n].v < local[write[n].id]]
     \/ /\ behind' = [behind EXCEPT ![write[n].id] = TRUE]
        /\ UNCHANGED file
  /\ UNCHANGED <<local, processVars, uploads, removing, archive, arrivals, top,
                 calm, gone>>

------------------------------------------------------------------------------
(* Other processes and machines.                                            *)

\* ExportAll lists the threads and writes what each row holds when its turn
\* comes; ExportThread writes one.
Export(id) ==
  /\ local[id] # None
  /\ archive' = [archive EXCEPT ![id] = local[id]]
  /\ UNCHANGED <<local, file, processVars, write, uploads, removing, arrivals,
                 ghostVars>>

\* The import command: one thread of the archive after the other, each only
\* if its version is greater, without a file.
Import(id) ==
  /\ archive[id] > local[id]
  /\ local' = Upserted(id, archive[id])
  /\ top' = Raised(top, id, archive[id])
  /\ behind' = [behind EXCEPT ![id] = TRUE]
  /\ gone' = [gone EXCEPT ![id] = FALSE]
  /\ UNCHANGED <<file, processVars, write, uploads, removing, archive, arrivals,
                 calm>>

\* A file of messages without a version becomes a new thread of version 1.
ImportMessages(id) ==
  /\ local[id] = None /\ file[id] = None /\ top[id] = None /\ Writing(id) = {}
  /\ local' = Upserted(id, 1)
  /\ top' = Raised(top, id, 1)
  /\ behind' = [behind EXCEPT ![id] = TRUE]
  /\ gone' = [gone EXCEPT ![id] = FALSE]
  /\ UNCHANGED <<file, processVars, write, uploads, removing, archive, arrivals,
                 calm>>

\* iCloud brings another machine's file, its removal, or half a download.
CloudArrives(id, x) ==
  /\ arrivals < MaxArrivals
  /\ x # file[id]
  /\ arrivals' = arrivals + 1
  /\ file' = [file EXCEPT ![id] = x]
  /\ LET newer == /\ x \in Int /\ file[id] \in Int /\ x > file[id]
                  /\ \A n \in Writing(id) : write[n].at # "checked"
     IN /\ calm' = [calm EXCEPT ![id] = @ /\ newer]
        /\ top' = IF x \in Int THEN Raised(top, id, x) ELSE top
        /\ behind' = [behind EXCEPT ![id] = @ \/ ~newer]
  /\ gone' = [gone EXCEPT ![id] = FALSE]
  /\ UNCHANGED <<local, processVars, write, uploads, removing, archive>>

Next ==
  \/ Start \/ LookUpLocal \/ DropLocal \/ ImportCloud \/ KeepLocal \/ KeptLocal
  \/ Serve \/ Crash
  \/ \E id \in Ids :
       \/ ReadEntry(id) \/ DeleteRow(id) \/ RemoveFile(id)
       \/ DeleteByCommand(id) \/ Import(id) \/ ImportMessages(id) \/ Export(id)
       \/ \E v \in Versions : Upload(id, v)
       \/ \E x \in Files : CloudArrives(id, x)
  \/ \E n \in Writers : CheckFile(n) \/ RenameFile(n)

Spec == Init /\ [][Next]_vars

------------------------------------------------------------------------------
TypeOK ==
  /\ local \in [Ids -> 0 .. MaxV] /\ file \in [Ids -> Files]
  /\ mode \in {"down", "importing", "serving"} /\ synced \in BOOLEAN
  /\ todo \subseteq Ids /\ merge \in Merges
  /\ write \in [Writers -> Writes]
  /\ uploads \in 0 .. MaxUploads /\ removing \subseteq Ids
  /\ archive \in [Ids -> 0 .. MaxV]
  /\ arrivals \in 0 .. MaxArrivals /\ starts \in 0 .. MaxStarts
  /\ top \in [Ids -> 0 .. MaxV]
  /\ calm \in [Ids -> BOOLEAN] /\ behind \in [Ids -> BOOLEAN]
  /\ gone \in [Ids -> BOOLEAN]

\* The greatest version of a thread is in its row or in its file, whatever
\* uploads overlap and wherever the process is killed: the merge deletes the
\* row before it imports the file, and writes come late, in any order or not at
\* all.
NothingLost ==
  \A id \in Ids : calm[id] => top[id] \in {local[id], file[id]}

\* Unless something is known to have kept it behind, the file of a thread has
\* the row's version or a goroutine is about to write it: a late write of an
\* older version never undoes a newer one's.
FileCaughtUp ==
  mode = "serving" /\ synced =>
    \A id \in Ids :
      \/ behind[id] \/ local[id] = None
      \/ file[id] \in Int /\ file[id] >= local[id]
      \/ \E n \in Writing(id) : write[n].v >= local[id]

\* A thread that was deleted does not come back by itself, at no later start
\* either, unless the deletion left a part of it behind: its file, because
\* os.Remove failed or because the delete-thread command never removes it, or
\* a write or a merge that was under way.
DeletedStaysDeleted ==
  \A id \in Ids : gone[id] => local[id] = None /\ file[id] = None

==============================================================================
