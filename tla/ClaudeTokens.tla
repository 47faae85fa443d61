----------------------------- MODULE ClaudeTokens -----------------------------
(***************************************************************************)
(* Claude's OAuth tokens (pkg/token/token_manager.go, pkg/keychain,        *)
(* pkg/auth/auth_source.go).  Processes share one entry of the keychain    *)
(* and refresh it under a file lock; each keeps a snapshot of the entry    *)
(* for a few seconds.  A refresh token is consumed by the refresh that it  *)
(* pays for, so whoever uses it must know that nobody else has.            *)
(*                                                                         *)
(* Tokens are numbered as the identity provider issues them.  The age of   *)
(* an access token is what the code tells apart: fresh, near its end (in   *)
(* the margin of five minutes) or expired.                                 *)
(***************************************************************************)
EXTENDS Integers, FiniteSets

CONSTANTS
  Procs,    \* processes that share the entry
  Callers,  \* goroutines of these processes
  ProcOf,   \* the process of each
  MaxToken, \* bound: tokens issued
  HasKey,   \* an API key is configured (Config.PreferredAPIKey)
  Nobody

ASSUME ClaudeAssumption ==
  /\ MaxToken \in Nat \ {0}
  /\ ProcOf \in [Callers -> Procs]
  /\ HasKey \in BOOLEAN
  /\ Nobody \notin Callers

Tokens == 1 .. MaxToken

\* Credentials: an access token and a refresh token, which may be missing.
Creds == [a : Tokens, r : 0 .. MaxToken]
NoCreds == [a |-> 0, r |-> 0]

VARIABLES
  keychain,  \* the entry
  snap,      \* each process' snapshot; NoCreds: none, or older than its TTL
  lock,      \* the caller that holds the file lock
  pc,        \* where each caller is
  op,        \* its call: GetAccessToken or ForceRefresh
  creds,     \* the credentials it has at hand
  spent,     \* the refresh token it sent
  \* The identity provider:
  issued, consumed, age,
  \* For the properties:
  answer,    \* the result of the call that ended last, until another begins
  lost       \* consumed refresh tokens whose successor never reached the entry

callerVars == <<pc, op, creds, spent>>
serverVars == <<issued, consumed, age>>
vars == <<keychain, snap, lock, pc, op, creds, spent, issued, consumed, age,
          answer, lost>>

PC == {"idle", "read", "cache", "have", "lock", "reread", "recheck", "refresh",
       "write"}
Ages == {"unissued", "fresh", "near", "expired"}
Outcome == [route : {"local"}, token : Tokens]
           \cup [route : {"apikey", "amp", "error", "refreshed"}, token : {0}]

Failure == [route |-> "error", token |-> 0]

Init ==
  /\ keychain \in {[a |-> 1, r |-> 1], [a |-> 1, r |-> 0]}
  /\ snap = [p \in Procs |-> NoCreds]
  /\ lock = Nobody
  /\ pc = [c \in Callers |-> "idle"]
  /\ op = [c \in Callers |-> "get"]
  /\ creds = [c \in Callers |-> NoCreds]
  /\ spent = [c \in Callers |-> 0]
  /\ issued = 1 /\ consumed = {}
  /\ age \in [Tokens -> Ages]
  /\ age[1] # "unissued" /\ \A t \in Tokens \ {1} : age[t] = "unissued"
  /\ answer = Failure /\ lost = {}

\* A token may still be used, and need not be refreshed yet.
Usable(t) == age[t] \in {"fresh", "near"}
Fresh(t) == age[t] = "fresh"

------------------------------------------------------------------------------
(* Ends of a call.                                                          *)

\* AuthResolver: without a local token the API key is tried, then amp.
FallBack == [route |-> IF HasKey THEN "apikey" ELSE "amp", token |-> 0]

Result(c, t) ==
  CASE op[c] = "get" /\ t # 0 -> [route |-> "local", token |-> t]
    [] op[c] = "get" /\ t = 0 -> FallBack
    [] OTHER -> Failure

Ends(c, outcome) ==
  /\ pc' = [pc EXCEPT ![c] = "idle"]
  /\ answer' = outcome
  /\ creds' = [creds EXCEPT ![c] = NoCreds]
  /\ spent' = [spent EXCEPT ![c] = 0]
  /\ UNCHANGED op

\* Mutant: the access token is returned whatever its age.
FailsTrusting(c) == Ends(c, Result(c, creds[c].a))

\* An error: GetAccessToken still returns a token that has not expired.
Fails(c) ==
  Ends(c, Result(c, IF creds[c].a # 0 /\ Usable(creds[c].a) THEN creds[c].a ELSE 0))

Unlocks(c) == lock' = IF lock = c THEN Nobody ELSE lock

Goes(c, at) == pc' = [pc EXCEPT ![c] = at] /\ UNCHANGED <<op, spent, answer>>

Invalidated(p) == [snap EXCEPT ![p] = NoCreds]

------------------------------------------------------------------------------
(* GetAccessToken and ForceRefresh.                                         *)

GetAccessToken(c) ==
  /\ pc[c] = "idle"
  /\ pc' = [pc EXCEPT ![c] = "read"]
  /\ op' = [op EXCEPT ![c] = "get"]
  /\ answer' = Failure
  /\ UNCHANGED <<keychain, snap, lock, creds, spent, serverVars, lost>>

ForceRefresh(c) ==
  /\ pc[c] = "idle"
  /\ pc' = [pc EXCEPT ![c] = "lock"]
  /\ op' = [op EXCEPT ![c] = "force"]
  /\ answer' = Failure
  /\ UNCHANGED <<keychain, snap, lock, creds, spent, serverVars, lost>>

\* readKeychain: the snapshot, if it is not too old.
ReadSnapshot(c) ==
  /\ pc[c] = "read" /\ snap[ProcOf[c]] # NoCreds
  /\ creds' = [creds EXCEPT ![c] = snap[ProcOf[c]]]
  /\ Goes(c, "have")
  /\ UNCHANGED <<keychain, snap, lock, serverVars, lost>>

\* readKeychainFresh runs a command, and stores what it printed afterwards.
ReadKeychain(c) ==
  /\ \/ pc[c] = "read" /\ snap[ProcOf[c]] = NoCreds
     \/ pc[c] = "reread"
  /\ \/ /\ creds' = [creds EXCEPT ![c] = keychain]
        /\ Goes(c, "cache")
        /\ UNCHANGED <<snap, lock>>
     \/ /\ snap' = Invalidated(ProcOf[c])
        /\ Ends(c, Result(c, 0))
        /\ Unlocks(c)
  /\ UNCHANGED <<keychain, serverVars, lost>>

StoreSnapshot(c) ==
  /\ pc[c] = "cache"
  /\ snap' = [snap EXCEPT ![ProcOf[c]] = creds[c]]
  /\ Goes(c, IF lock = c THEN "recheck" ELSE "have")
  /\ UNCHANGED <<keychain, lock, creds, serverVars, lost>>

CheckExpiry(c) ==
  /\ pc[c] = "have"
  /\ IF Fresh(creds[c].a)
     THEN Ends(c, Result(c, creds[c].a))
     ELSE Goes(c, "lock") /\ UNCHANGED creds
  /\ UNCHANGED <<keychain, snap, lock, serverVars, lost>>

\* Mutant: the lock file is opened but not locked.
LockShared(c) ==
  /\ pc[c] = "lock"
  /\ lock' = c
  /\ snap' = Invalidated(ProcOf[c])
  /\ Goes(c, "reread") /\ UNCHANGED creds
  /\ UNCHANGED <<keychain, serverVars, lost>>

\* flock, or an error of it; the snapshot is dropped before the entry is read
\* again.
Lock(c) ==
  /\ pc[c] = "lock"
  /\ \/ /\ lock = Nobody
        /\ lock' = c
        /\ snap' = Invalidated(ProcOf[c])
        /\ Goes(c, "reread") /\ UNCHANGED creds
     \/ /\ Ends(c, Result(c, 0))
        /\ UNCHANGED <<lock, snap>>
  /\ UNCHANGED <<keychain, serverVars, lost>>

\* Mutant: an entry without a refresh token is refreshed, too.
RecheckAnyToken(c) ==
  /\ pc[c] = "recheck"
  /\ spent' = [spent EXCEPT ![c] = creds[c].r]
  /\ pc' = [pc EXCEPT ![c] = "refresh"]
  /\ UNCHANGED <<op, creds, answer, lock, keychain, snap, serverVars, lost>>

\* Somebody else may have refreshed the entry while the caller waited.
Recheck(c) ==
  /\ pc[c] = "recheck"
  /\ \/ /\ op[c] = "get" /\ Fresh(creds[c].a)
        /\ Ends(c, Result(c, creds[c].a))
        /\ Unlocks(c)
     \/ /\ ~(op[c] = "get" /\ Fresh(creds[c].a))
        /\ creds[c].r = 0
        /\ Fails(c)
        /\ Unlocks(c)
     \/ /\ ~(op[c] = "get" /\ Fresh(creds[c].a))
        /\ creds[c].r # 0
        /\ spent' = [spent EXCEPT ![c] = creds[c].r]
        /\ pc' = [pc EXCEPT ![c] = "refresh"]
        /\ UNCHANGED <<op, creds, answer, lock>>
  /\ UNCHANGED <<keychain, snap, serverVars, lost>>

\* The provider takes a refresh token that was not consumed, consumes it if it
\* answers with a new one, and issues an access token.
Issues(r, rotates) ==
  /\ r \notin consumed /\ issued < MaxToken
  /\ issued' = issued + 1
  /\ age' = [age EXCEPT ![issued + 1] = "fresh"]
  /\ consumed' = IF rotates THEN consumed \cup {r} ELSE consumed

\* doRefresh: the answer arrives.
Refreshed(c) ==
  /\ pc[c] = "refresh"
  /\ \E rotates \in BOOLEAN :
       /\ Issues(spent[c], rotates)
       /\ creds' = [creds EXCEPT ![c] =
                      [a |-> issued + 1,
                       r |-> IF rotates THEN issued + 1 ELSE spent[c]]]
  /\ Goes(c, "write")
  /\ UNCHANGED <<keychain, snap, lock, lost>>

\* The provider refused, was not reached, or the answer was lost on its way
\* (a time-out, a cancelled request) although the provider acted.
RefreshFails(c) ==
  /\ pc[c] = "refresh"
  /\ \/ UNCHANGED <<serverVars, lost>>
     \/ /\ Issues(spent[c], TRUE)
        /\ lost' = lost \cup {spent[c]}
  /\ Fails(c)
  /\ Unlocks(c)
  /\ UNCHANGED <<keychain, snap>>

\* Mutant: the rotated refresh token is not written.
WriteBackAccessOnly(c) ==
  /\ pc[c] = "write"
  /\ keychain' = [a |-> creds[c].a, r |-> spent[c]]
  /\ snap' = Invalidated(ProcOf[c])
  /\ Ends(c, Result(c, creds[c].a))
  /\ Unlocks(c)
  /\ UNCHANGED <<serverVars, lost>>

\* The entry is written back.  If that fails GetAccessToken returns the token
\* nevertheless, and ForceRefresh an error.
WriteBack(c) ==
  /\ pc[c] = "write"
  /\ \/ /\ keychain' = creds[c]
        /\ snap' = Invalidated(ProcOf[c])
        /\ Ends(c, IF op[c] = "get" THEN Result(c, creds[c].a)
                   ELSE [route |-> "refreshed", token |-> 0])
        /\ UNCHANGED lost
     \/ /\ lost' = lost \cup ({spent[c]} \cap consumed)
        /\ snap' = IF op[c] = "get" THEN Invalidated(ProcOf[c]) ELSE snap
        /\ Ends(c, Result(c, creds[c].a))
        /\ UNCHANGED keychain
  /\ Unlocks(c)
  /\ UNCHANGED serverVars

------------------------------------------------------------------------------
(* The environment.                                                         *)

\* The snapshot's five seconds are over, or ReloadFromKeychain drops it.
SnapshotAges(p) ==
  /\ snap[p] # NoCreds
  /\ snap' = Invalidated(p)
  /\ UNCHANGED <<keychain, lock, callerVars, serverVars, answer, lost>>

\* Minutes pass.  No token gets from fresh to expired while the command that
\* writes it back runs: that takes less than the margin.
TimePasses ==
  /\ \A c \in Callers : pc[c] = "write" => age[creds[c].a] = "fresh"
  /\ age' = [t \in Tokens |->
               CASE age[t] = "fresh" -> "near"
                 [] age[t] = "near" -> "expired"
                 [] OTHER -> age[t]]
  /\ age' # age
  /\ UNCHANGED <<keychain, snap, lock, callerVars, issued, consumed, answer, lost>>

\* The user logs in with Claude Code, which writes the entry.
Login ==
  /\ issued < MaxToken
  /\ issued' = issued + 1
  /\ age' = [age EXCEPT ![issued + 1] = "fresh"]
  /\ keychain' = [a |-> issued + 1, r |-> issued + 1]
  /\ UNCHANGED <<snap, lock, callerVars, consumed, answer, lost>>

\* A process ends; the system releases its lock.
Crash(p) ==
  LET mine == {c \in Callers : ProcOf[c] = p}
  IN /\ \E c \in mine : pc[c] # "idle"
     /\ snap' = Invalidated(p)
     /\ lock' = IF lock \in mine THEN Nobody ELSE lock
     /\ pc' = [c \in Callers |-> IF c \in mine THEN "idle" ELSE pc[c]]
     /\ creds' = [c \in Callers |-> IF c \in mine THEN NoCreds ELSE creds[c]]
     /\ spent' = [c \in Callers |-> IF c \in mine THEN 0 ELSE spent[c]]
     /\ lost' = lost \cup {spent[c] : c \in {d \in mine :
                             pc[d] = "write" /\ spent[d] \in consumed}}
     /\ answer' = Failure
     /\ UNCHANGED <<keychain, op, serverVars>>

Step(c) ==
  \/ ReadSnapshot(c) \/ ReadKeychain(c) \/ StoreSnapshot(c) \/ CheckExpiry(c)
  \/ Lock(c) \/ Recheck(c) \/ Refreshed(c) \/ RefreshFails(c) \/ WriteBack(c)

Next ==
  \/ \E c \in Callers : GetAccessToken(c) \/ ForceRefresh(c) \/ Step(c)
  \/ \E p \in Procs : SnapshotAges(p) \/ Crash(p)
  \/ TimePasses \/ Login

Spec == Init /\ [][Next]_vars

------------------------------------------------------------------------------
TypeOK ==
  /\ keychain \in Creds /\ snap \in [Procs -> Creds \cup {NoCreds}]
  /\ lock \in Callers \cup {Nobody}
  /\ pc \in [Callers -> PC] /\ op \in [Callers -> {"get", "force"}]
  /\ creds \in [Callers -> Creds \cup {NoCreds}]
  /\ spent \in [Callers -> 0 .. MaxToken]
  /\ answer \in Outcome
  /\ issued \in Tokens /\ consumed \subseteq Tokens /\ lost \subseteq Tokens
  /\ age \in [Tokens -> Ages]

\* Nobody sends a refresh token that a refresh has consumed, unless that
\* refresh's answer never reached the keychain: it was lost, could not be
\* written, or the process ended in between.  This is what the lock and the
\* second look at the entry are for.
RefreshedOnce ==
  \A c \in Callers :
    pc[c] = "refresh" => spent[c] \notin consumed \/ spent[c] \in lost

\* The entry's refresh token is good, or the caller that consumed it is about
\* to replace it, with the same exceptions.
KeychainGood ==
  keychain.r \in consumed =>
    \/ keychain.r \in lost
    \/ \E c \in Callers : pc[c] = "write" /\ spent[c] = keychain.r

\* GetAccessToken "returns a non-expired access token", whichever way it ends.
ReturnsUnexpired ==
  [][\A c \in Callers :
       pc[c] \notin {"idle", pc'[c]} /\ pc'[c] = "idle" /\ answer'.route = "local"
         => age[answer'.token] # "expired"]_vars

==============================================================================
