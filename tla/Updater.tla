------------------------------- MODULE Updater -------------------------------
(***************************************************************************)
(* The updater (internal/neo/updater/updater.go): every hour the process   *)
(* asks GitHub for releases, picks one for its channel, downloads, checks  *)
(* and probes it, swaps it for its own binary with two renames and has     *)
(* itself started again.  It may be killed anywhere, every call may fail,  *)
(* and the system starts whatever lies at the path of the binary.          *)
(*                                                                         *)
(* A program is the release it was built from and whether it works; a file *)
(* that was not written to its end is Torn.                                *)
(***************************************************************************)
EXTENDS Integers, Sequences, FiniteSets

CONSTANTS
  Releases,  \* what may be published
  Installed, \* the release that is installed at first
  Missing, Torn

Program(r, works) == [of |-> r, works |-> works]
Programs == [of : Releases \cup {Installed}, works : BOOLEAN]

\* A release: the numbers of its tag, its suffix as characters (numbers stand
\* for them), GitHub's flags, whether it has an asset for this machine and a
\* checksum beside it, and whether the program in it works.
ASSUME UpdaterAssumption ==
  /\ \A r \in Releases \cup {Installed} :
       /\ r.num \in Nat /\ r.pre \in Seq(Nat)
       /\ {r.beta, r.flagged, r.draft, r.asset, r.sum, r.works} \subseteq BOOLEAN
  /\ Installed.works
  /\ Missing # Torn /\ Missing \notin Programs /\ Torn \notin Programs

VARIABLES
  channel,   \* the channel of the configuration
  published, \* GitHub's releases
  current,   \* the version of the process that runs, or ran last
  pc,        \* what the process is doing
  target,    \* the release that was found
  archive,   \* the archive downloaded last; it stays in the cache directory
  candidate, \* the program in the attempt's extract directory
  left,      \* an extract directory that nobody removes any more
  binary, staged, backup, \* the files at the path, at .new and at .bak
  hadOld,    \* swap moved a file away
  \* For the properties:
  stayed,    \* the process goes on after its program was replaced
  repeated,  \* such a process made the last swap
  stuck      \* a swap failed and could not be undone

files == <<binary, staged, backup>>
cache == <<archive, candidate, left>>
vars == <<channel, published, current, pc, target, cache, files, hadOld,
          stayed, repeated, stuck>>

Channels == {"stable", "beta", "dev", "off"}
PC == {"down", "idle", "apply", "verify", "unpack", "unpacking", "probe",
       "stage", "copying", "backup", "install", "sync", "restart"}

Works(file) == file \notin {Missing, Torn} /\ file.works

------------------------------------------------------------------------------
(* Versions and channels.                                                   *)

\* Strings compare character by character, a prefix before what it begins.
StringLess(s, t) ==
  \E i \in 0 .. Len(s) :
    /\ i < Len(t) /\ SubSeq(s, 1, i) = SubSeq(t, 1, i)
    /\ i = Len(s) \/ (i < Len(s) /\ s[i + 1] < t[i + 1])

\* CompareVersions(r, q) > 0.  A prerelease comes after the release of the same
\* number, as the test has it.
Newer(r, q) ==
  \/ r.num > q.num
  \/ /\ r.num = q.num
     /\ r.pre # << >>
     /\ q.pre = << >> \/ StringLess(q.pre, r.pre)

Pre(r) == r.pre # << >>

ChannelAllows(ch, r) ==
  CASE ch = "stable" -> ~Pre(r) /\ ~r.flagged
    [] ch = "beta" -> ~Pre(r) \/ r.beta
    [] ch = "dev" -> TRUE
    [] ch = "off" -> FALSE

\* Mutant: the version that runs is not looked at.
CandidatesAll == {r \in published : ~r.draft /\ ChannelAllows(channel, r)}

\* selectRelease: a newest one; the sort does not say which of equal ones.
Candidates ==
  {r \in published : ~r.draft /\ ChannelAllows(channel, r) /\ Newer(r, current)}
Selected == {r \in Candidates : \A q \in Candidates : ~Newer(q, r)}

------------------------------------------------------------------------------
Init ==
  /\ channel \in Channels /\ published = {} /\ current = Installed
  /\ pc = "idle" /\ target = Installed
  /\ archive = Missing /\ candidate = Missing /\ left = FALSE
  /\ binary = Program(Installed, TRUE) /\ staged = Missing /\ backup = Missing
  /\ hadOld = FALSE
  /\ stayed = FALSE /\ repeated = FALSE /\ stuck = FALSE

Goes(from, to) == pc = from /\ pc' = to

\* Mutant: the deferred clean-up is missing.
GivesUpAtOnce == pc' = "idle" /\ UNCHANGED <<target, candidate, left, hadOld>>

\* An error ends the attempt; the next tick begins another one.  The extract
\* directory is removed, and an error of that ignored.
GivesUp ==
  /\ pc' = "idle"
  /\ target' = Installed /\ candidate' = Missing /\ hadOld' = FALSE
  /\ left' \in {left, left \/ candidate # Missing}

\* A process that is killed removes nothing.
Killed ==
  /\ pc' = "down"
  /\ target' = Installed /\ candidate' = Missing /\ hadOld' = FALSE
  /\ left' = (left \/ candidate # Missing)

Running == <<channel, published, current>>

\* Check, of the ticker.  (The admin interface only looks.)
Found(r) ==
  /\ pc = "idle" /\ r \in Selected
  /\ r.asset
  /\ pc' = "apply" /\ target' = r
  /\ UNCHANGED <<Running, cache, files, hadOld, stayed, repeated, stuck>>

\* download: to update.tmp, then renamed; what was received may be damaged.
\* A release may be gone, the server answer with an error, or syncing the
\* directory fail after the rename.
Download ==
  /\ pc = "apply"
  /\ \/ /\ target \in published
        /\ \E works \in {target.works, FALSE} : archive' = Program(target, works)
        /\ \/ pc' = "verify" /\ UNCHANGED <<target, candidate, left, hadOld>>
           \/ GivesUp
     \/ GivesUp /\ UNCHANGED archive
  /\ UNCHANGED <<Running, files, stayed, repeated, stuck>>

\* verifySHA256: without a checksum, or if it cannot be fetched, the archive is
\* taken as it is.
Verify ==
  /\ pc = "verify"
  /\ \/ /\ ~target.sum \/ archive.works = target.works
        /\ pc' = "unpack" /\ UNCHANGED <<target, candidate, left, hadOld>>
     \/ /\ target.sum \* the request failed
        /\ pc' = "unpack" /\ UNCHANGED <<target, candidate, left, hadOld>>
     \/ GivesUp
  /\ UNCHANGED <<Running, archive, files, stayed, repeated, stuck>>

\* prepareCandidate: into a directory of the attempt's own.
Unpack ==
  /\ pc = "unpack"
  /\ \/ pc' = "unpacking" /\ candidate' = Torn /\ UNCHANGED <<target, left, hadOld>>
     \/ GivesUp
  /\ UNCHANGED <<Running, archive, files, stayed, repeated, stuck>>

Unpacked ==
  /\ pc = "unpacking"
  /\ \/ pc' = "probe" /\ candidate' = archive /\ UNCHANGED <<target, left, hadOld>>
     \/ GivesUp
  /\ UNCHANGED <<Running, archive, files, stayed, repeated, stuck>>

\* The program must answer; it may also be too slow.
Probe ==
  /\ pc = "probe"
  /\ \/ /\ candidate.works
        /\ pc' = "stage" /\ UNCHANGED <<target, candidate, left, hadOld>>
     \/ GivesUp
  /\ UNCHANGED <<Running, archive, files, stayed, repeated, stuck>>

------------------------------------------------------------------------------
(* swap.                                                                    *)

Stage ==
  /\ Goes("stage", "copying")
  /\ staged' = Torn
  /\ UNCHANGED <<Running, target, cache, binary, backup, hadOld, stayed, repeated, stuck>>

\* copyFile syncs the copy.  Then the old backup is removed.
Copied ==
  /\ pc = "copying"
  /\ \/ /\ staged' = candidate
        /\ backup' = Missing
        /\ pc' = "backup" /\ UNCHANGED <<target, candidate, left, hadOld>>
     \/ GivesUp /\ UNCHANGED <<staged, backup>>
  /\ UNCHANGED <<Running, archive, binary, stayed, repeated, stuck>>

\* The first rename.  It is left out when os.Stat fails: there is no program,
\* or there is one and the second rename will replace it without a backup.
BackUp ==
  /\ pc = "backup"
  /\ \/ /\ binary # Missing
        /\ backup' = binary /\ binary' = Missing
        /\ hadOld' = TRUE /\ pc' = "install"
        /\ UNCHANGED <<target, candidate, left, staged>>
     \/ /\ hadOld' = FALSE /\ pc' = "install"
        /\ UNCHANGED <<target, candidate, left, files>>
     \/ /\ binary # Missing
        /\ staged' = Missing
        /\ GivesUp
        /\ UNCHANGED <<binary, backup>>
  /\ UNCHANGED <<Running, archive, stayed, repeated, stuck>>

\* Mutant: a failed rename leaves the path empty and removes both copies.
InstallCleansUp ==
  /\ pc = "install"
  /\ \/ /\ binary' = staged /\ staged' = Missing
        /\ pc' = "sync" /\ UNCHANGED <<backup, target, candidate, left, hadOld>>
     \/ /\ staged' = Missing /\ backup' = Missing
        /\ GivesUp
        /\ UNCHANGED binary
  /\ UNCHANGED <<Running, archive, stayed, repeated, stuck>>

\* The second rename; if it fails the first one is undone, if that works.
Install ==
  /\ pc = "install"
  /\ \/ /\ binary' = staged /\ staged' = Missing
        /\ pc' = "sync" /\ UNCHANGED <<backup, target, candidate, left, hadOld>>
        /\ repeated' = stayed /\ UNCHANGED stuck
     \/ /\ \/ hadOld /\ binary' = backup /\ backup' = Missing /\ UNCHANGED stuck
           \/ /\ stuck' = (stuck \/ binary = Missing)
              /\ UNCHANGED <<binary, backup>>
        /\ GivesUp
        /\ UNCHANGED <<staged, repeated>>
  /\ UNCHANGED <<Running, archive, stayed>>

\* fsyncDir; if it fails the process goes on as the old version.
Synced ==
  /\ pc = "sync"
  /\ \/ pc' = "restart" /\ UNCHANGED <<target, candidate, left, hadOld, stayed>>
     \/ GivesUp /\ stayed' = TRUE
  /\ UNCHANGED <<Running, archive, files, repeated, stuck>>

\* kickstart: launchd kills the process, which has not removed its extract
\* directory yet, and starts the path, or does not know the agent.
Kickstart ==
  /\ pc = "restart"
  /\ \/ Killed /\ UNCHANGED stayed
     \/ GivesUp /\ stayed' = TRUE
  /\ UNCHANGED <<Running, archive, files, repeated, stuck>>

------------------------------------------------------------------------------
(* The environment.                                                         *)

Publish(r) ==
  /\ published' \in {published \cup {r}, published \ {r}}
  /\ UNCHANGED <<channel, current, pc, target, cache, files, hadOld, stayed,
                 repeated, stuck>>

\* The process is killed, wherever it is.
Crash ==
  /\ pc # "down"
  /\ Killed
  /\ UNCHANGED <<Running, archive, files, stayed, repeated, stuck>>

\* launchd starts the program, if there is one that works.
Start ==
  /\ pc = "down" /\ Works(binary)
  /\ pc' = "idle" /\ current' = binary.of
  /\ stayed' = FALSE /\ stuck' = FALSE
  /\ UNCHANGED <<channel, published, target, cache, files, hadOld, repeated>>

\* Somebody who finds no program puts the backup back.
Rescue ==
  /\ pc = "down" /\ ~Works(binary) /\ Works(backup)
  /\ binary' = backup /\ backup' = Missing
  /\ UNCHANGED <<Running, pc, target, cache, staged, hadOld, stayed, repeated, stuck>>

Apply == Download \/ Verify \/ Unpack \/ Unpacked \/ Probe \/ Stage \/ Copied
         \/ BackUp \/ Install \/ Synced \/ Kickstart

Next ==
  \/ \E r \in Releases : Found(r) \/ Publish(r)
  \/ Apply \/ Crash \/ Start \/ Rescue

Spec == Init /\ [][Next]_vars

------------------------------------------------------------------------------
\* An attempt that has ended has no extract directory any more that it would
\* still remove, whatever error ended it, and so has the next one its own.
TypeOK ==
  /\ channel \in Channels /\ published \subseteq Releases
  /\ {current, target} \subseteq Releases \cup {Installed}
  /\ pc \in PC /\ {hadOld, left, stayed, repeated, stuck} \subseteq BOOLEAN
  /\ archive \in Programs \cup {Missing}
  /\ candidate \in Programs \cup {Missing, Torn}
  /\ pc \in {"down", "idle", "apply", "verify", "unpack"} =>
       candidate = Missing /\ ~hadOld
  /\ {binary, staged, backup} \subseteq Programs \cup {Missing, Torn}

\* Whenever the machine stops, a program that works lies at the path or, when
\* the path is empty, beside it: neither a torn file nor one that was not
\* probed is ever started, and the old one is never the only one and removed.
\* Exception: after a swap that failed and could not be undone, the next
\* attempt begins by removing the copies that are left.
RunnableKept ==
  ~stuck => Works(binary) \/ (binary = Missing /\ Works(backup))

\* A process is never replaced by an older one, whatever fails or is killed.
NeverOlder ==
  [][current' # current => Newer(current', current)]_vars

\* The backup is the program before the one that is installed, so that one can
\* go back.  Exception: a process that was not started again after its update
\* finds the same release once more, and its backup is then the new program.
BackupIsPrevious ==
  ~repeated /\ Works(backup) /\ Works(binary) => binary.of # backup.of

==============================================================================
