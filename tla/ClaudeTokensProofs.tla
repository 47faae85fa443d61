-------------------------- MODULE ClaudeTokensProofs --------------------------
(***************************************************************************)
(* Theorems about ClaudeTokens, for any number of processes, goroutines    *)
(* and tokens.                                                             *)
(***************************************************************************)
EXTENDS ClaudeTokens, TLAPS

(***************************************************************************)
(* Types.                                                                  *)
(***************************************************************************)

\* What a caller has at hand where the code uses it.
Shaped ==
  \A c \in Callers :
    /\ pc[c] = "refresh" => spent[c] \in Tokens
    /\ pc[c] = "write" => creds[c] \in Creds

Typed == TypeOK /\ Shaped

LEMMA CredsFields ==
  ASSUME NEW k \in Creds \cup {NoCreds}
  PROVE  k.a \in 0 .. MaxToken /\ k.r \in 0 .. MaxToken
  BY ClaudeAssumption DEF Creds, NoCreds, Tokens

LEMMA ResultType ==
  ASSUME NEW c \in Callers, NEW t \in 0 .. MaxToken
  PROVE  Result(c, t) \in Outcome
  <1>1. Failure \in Outcome /\ FallBack \in Outcome
    BY DEF Failure, FallBack, Outcome
  <1>2. t # 0 => [route |-> "local", token |-> t] \in Outcome
    BY ClaudeAssumption DEF Outcome, Tokens
  <1>3. QED
    BY <1>1, <1>2 DEF Result

\* The end of a call keeps what belongs to the caller well-typed.
LEMMA EndsTypes ==
  ASSUME Typed, NEW c \in Callers, NEW outcome \in Outcome, Ends(c, outcome)
  PROVE  /\ pc' \in [Callers -> PC] /\ op' \in [Callers -> {"get", "force"}]
         /\ creds' \in [Callers -> Creds \cup {NoCreds}]
         /\ spent' \in [Callers -> 0 .. MaxToken] /\ answer' \in Outcome
         /\ Shaped'
  <1>1. "idle" \in PC /\ 0 \in 0 .. MaxToken
    BY ClaudeAssumption DEF PC
  <1>2. pc' \in [Callers -> PC]
    BY <1>1 DEF Typed, TypeOK, Ends
  <1>3. creds' \in [Callers -> Creds \cup {NoCreds}]
    BY DEF Typed, TypeOK, Ends
  <1>4. spent' \in [Callers -> 0 .. MaxToken]
    BY <1>1 DEF Typed, TypeOK, Ends
  <1>5. Shaped'
    <2> SUFFICES ASSUME NEW d \in Callers
                 PROVE  /\ pc'[d] = "refresh" => spent'[d] \in Tokens
                        /\ pc'[d] = "write" => creds'[d] \in Creds
      BY DEF Shaped
    <2>1. CASE d = c
      BY <2>1 DEF Typed, TypeOK, Ends
    <2>2. CASE d # c
      BY <2>2 DEF Typed, TypeOK, Shaped, Ends
    <2>3. QED
      BY <2>1, <2>2
  <1>6. QED
    BY <1>2, <1>3, <1>4, <1>5 DEF Typed, TypeOK, Ends

LEMMA FailsTypes ==
  ASSUME Typed, NEW c \in Callers
  PROVE  \E outcome \in Outcome : Fails(c) <=> Ends(c, outcome)
  <1> DEFINE t == IF creds[c].a # 0 /\ Usable(creds[c].a) THEN creds[c].a ELSE 0
  <1>1. t \in 0 .. MaxToken
    <2>1. creds[c] \in Creds \cup {NoCreds}
      BY DEF Typed, TypeOK
    <2>2. QED
      BY <2>1, CredsFields, ClaudeAssumption
  <1>2. Result(c, t) \in Outcome
    BY <1>1, ResultType
  <1>3. QED
    BY <1>2 DEF Fails

\* A caller that goes on, with the credentials it had or with others.
LEMMA GoesTypes ==
  ASSUME Typed, NEW c \in Callers, NEW at \in PC \ {"refresh", "write"}, Goes(c, at),
         NEW k \in Creds \cup {NoCreds}, creds' = [creds EXCEPT ![c] = k]
  PROVE  /\ pc' \in [Callers -> PC] /\ op' \in [Callers -> {"get", "force"}]
         /\ creds' \in [Callers -> Creds \cup {NoCreds}]
         /\ spent' \in [Callers -> 0 .. MaxToken] /\ answer' \in Outcome
         /\ Shaped'
  <1>1. /\ pc' \in [Callers -> PC]
        /\ creds' \in [Callers -> Creds \cup {NoCreds}]
    BY DEF Typed, TypeOK, Goes
  <1>2. Shaped'
    <2> SUFFICES ASSUME NEW d \in Callers
                 PROVE  /\ pc'[d] = "refresh" => spent'[d] \in Tokens
                        /\ pc'[d] = "write" => creds'[d] \in Creds
      BY DEF Shaped
    <2>1. CASE d = c
      BY <2>1 DEF Typed, TypeOK, Goes
    <2>2. CASE d # c
      BY <2>2 DEF Typed, TypeOK, Shaped, Goes
    <2>3. QED
      BY <2>1, <2>2
  <1>3. QED
    BY <1>1, <1>2 DEF Typed, TypeOK, Goes

LEMMA SameCreds ==
  ASSUME Typed, NEW c \in Callers
  PROVE  /\ creds[c] \in Creds \cup {NoCreds}
         /\ creds = [creds EXCEPT ![c] = creds[c]]
  BY DEF Typed, TypeOK

LEMMA InvalidatedType ==
  ASSUME Typed, NEW p \in Procs
  PROVE  Invalidated(p) \in [Procs -> Creds \cup {NoCreds}]
  BY DEF Typed, TypeOK, Invalidated

LEMMA UnlocksType ==
  ASSUME Typed, NEW c \in Callers, Unlocks(c)
  PROVE  lock' \in Callers \cup {Nobody}
  BY DEF Typed, TypeOK, Unlocks

LEMMA IssuesTypes ==
  ASSUME Typed, NEW r \in Tokens, NEW rotates \in BOOLEAN, Issues(r, rotates)
  PROVE  /\ issued + 1 \in Tokens /\ issued' \in Tokens
         /\ consumed' \subseteq Tokens /\ age' \in [Tokens -> Ages]
  <1>1. issued + 1 \in Tokens
    BY ClaudeAssumption DEF Typed, TypeOK, Issues, Tokens
  <1>2. "fresh" \in Ages
    BY DEF Ages
  <1>3. QED
    BY <1>1, <1>2 DEF Typed, TypeOK, Issues

LEMMA InitTyped == Init => Typed
  <1> SUFFICES ASSUME Init PROVE Typed
    OBVIOUS
  <1>1. 1 \in Tokens /\ 0 \in 0 .. MaxToken /\ 1 \in 0 .. MaxToken
    BY ClaudeAssumption DEF Tokens
  <1>2. keychain \in Creds
    BY <1>1 DEF Init, Creds
  <1>3. Failure \in Outcome
    BY DEF Failure, Outcome
  <1>4. Shaped
    BY DEF Init, Shaped
  <1>5. /\ pc \in [Callers -> PC] /\ op \in [Callers -> {"get", "force"}]
        /\ creds \in [Callers -> Creds \cup {NoCreds}]
        /\ spent \in [Callers -> 0 .. MaxToken]
    BY <1>1 DEF Init, PC
  <1>6. QED
    BY <1>1, <1>2, <1>3, <1>4, <1>5 DEF Init, Typed, TypeOK

LEMMA BeginTyped ==
  ASSUME Typed, NEW c \in Callers, GetAccessToken(c) \/ ForceRefresh(c)
  PROVE  Typed'
  <1>1. "read" \in PC /\ "lock" \in PC /\ Failure \in Outcome
    BY DEF PC, Failure, Outcome
  <1>2. pc' \in [Callers -> PC] /\ op' \in [Callers -> {"get", "force"}]
    BY <1>1 DEF Typed, TypeOK, GetAccessToken, ForceRefresh
  <1>3. Shaped'
    <2> SUFFICES ASSUME NEW d \in Callers
                 PROVE  /\ pc'[d] = "refresh" => spent'[d] \in Tokens
                        /\ pc'[d] = "write" => creds'[d] \in Creds
      BY DEF Shaped
    <2>1. CASE d = c
      BY <2>1 DEF Typed, TypeOK, GetAccessToken, ForceRefresh
    <2>2. CASE d # c
      BY <2>2 DEF Typed, TypeOK, Shaped, GetAccessToken, ForceRefresh
    <2>3. QED
      BY <2>1, <2>2
  <1>4. QED
    BY <1>1, <1>2, <1>3
       DEF Typed, TypeOK, GetAccessToken, ForceRefresh, serverVars

LEMMA ReadTyped ==
  ASSUME Typed, NEW c \in Callers,
         ReadSnapshot(c) \/ ReadKeychain(c) \/ StoreSnapshot(c)
  PROVE  Typed'
  <1>p. ProcOf[c] \in Procs
    BY ClaudeAssumption
  <1>s. snap[ProcOf[c]] \in Creds \cup {NoCreds} /\ creds[c] \in Creds \cup {NoCreds}
    BY <1>p DEF Typed, TypeOK
  <1>1. CASE ReadSnapshot(c)
    <2>1. "have" \in PC \ {"refresh", "write"}
      BY DEF PC
    <2>2. Goes(c, "have") /\ creds' = [creds EXCEPT ![c] = snap[ProcOf[c]]]
      BY <1>1 DEF ReadSnapshot
    <2>3. QED
      BY <1>1, <1>s, <2>1, <2>2, GoesTypes DEF Typed, TypeOK, ReadSnapshot, serverVars
  <1>2. CASE ReadKeychain(c)
    <2>1. CASE /\ creds' = [creds EXCEPT ![c] = keychain]
               /\ Goes(c, "cache")
               /\ UNCHANGED <<snap, lock>>
      <3>1. "cache" \in PC \ {"refresh", "write"} /\ keychain \in Creds \cup {NoCreds}
        BY DEF PC, Typed, TypeOK
      <3>2. QED
        BY <1>2, <2>1, <3>1, GoesTypes DEF Typed, TypeOK, ReadKeychain, serverVars
    <2>2. CASE /\ snap' = Invalidated(ProcOf[c])
               /\ Ends(c, Result(c, 0))
               /\ Unlocks(c)
      <3>1. Result(c, 0) \in Outcome
        BY ResultType, ClaudeAssumption
      <3>2. snap' \in [Procs -> Creds \cup {NoCreds}] /\ lock' \in Callers \cup {Nobody}
        BY <2>2, <1>p, InvalidatedType, UnlocksType
      <3>3. QED
        BY <1>2, <2>2, <3>1, <3>2, EndsTypes DEF Typed, TypeOK, ReadKeychain, serverVars
    <2>3. QED
      BY <1>2, <2>1, <2>2 DEF ReadKeychain
  <1>3. CASE StoreSnapshot(c)
    <2> DEFINE at == IF lock = c THEN "recheck" ELSE "have"
    <2>1. at \in PC \ {"refresh", "write"}
      BY DEF PC
    <2>2. Goes(c, at) /\ creds' = [creds EXCEPT ![c] = creds[c]]
      BY <1>3, SameCreds DEF StoreSnapshot
    <2>3. snap' \in [Procs -> Creds \cup {NoCreds}]
      BY <1>3, <1>s, <1>p DEF Typed, TypeOK, StoreSnapshot
    <2> HIDE DEF at
    <2>4. QED
      BY <1>3, <1>s, <2>1, <2>2, <2>3, GoesTypes DEF Typed, TypeOK, StoreSnapshot, serverVars
  <1>4. QED
    BY <1>1, <1>2, <1>3

LEMMA CheckTyped ==
  ASSUME Typed, NEW c \in Callers, CheckExpiry(c) \/ Lock(c)
  PROVE  Typed'
  <1>p. ProcOf[c] \in Procs
    BY ClaudeAssumption
  <1>s. /\ creds[c] \in Creds \cup {NoCreds}
        /\ creds = [creds EXCEPT ![c] = creds[c]]
    BY SameCreds
  <1>r. Result(c, creds[c].a) \in Outcome /\ Result(c, 0) \in Outcome
    BY <1>s, CredsFields, ResultType, ClaudeAssumption
  <1>g. "lock" \in PC \ {"refresh", "write"} /\ "reread" \in PC \ {"refresh", "write"}
    BY DEF PC
  <1>1. CASE CheckExpiry(c)
    <2>1. CASE Ends(c, Result(c, creds[c].a))
      BY <1>1, <2>1, <1>r, EndsTypes DEF Typed, TypeOK, CheckExpiry, serverVars
    <2>2. CASE Goes(c, "lock") /\ UNCHANGED creds
      <3>1. creds' = [creds EXCEPT ![c] = creds[c]]
        BY <2>2, <1>s
      <3>2. QED
        BY <1>1, <2>2, <3>1, <1>s, <1>g, GoesTypes
           DEF Typed, TypeOK, CheckExpiry, serverVars
    <2>3. QED
      BY <1>1, <2>1, <2>2 DEF CheckExpiry
  <1>2. CASE Lock(c)
    <2>1. CASE /\ lock' = c
               /\ snap' = Invalidated(ProcOf[c])
               /\ Goes(c, "reread") /\ UNCHANGED creds
      <3>1. creds' = [creds EXCEPT ![c] = creds[c]]
        BY <2>1, <1>s
      <3>2. snap' \in [Procs -> Creds \cup {NoCreds}]
        BY <2>1, <1>p, InvalidatedType
      <3>3. QED
        BY <1>2, <2>1, <3>1, <3>2, <1>s, <1>g, GoesTypes DEF Typed, TypeOK, Lock, serverVars
    <2>2. CASE Ends(c, Result(c, 0)) /\ UNCHANGED <<lock, snap>>
      BY <1>2, <2>2, <1>r, EndsTypes DEF Typed, TypeOK, Lock, serverVars
    <2>3. QED
      BY <1>2, <2>1, <2>2 DEF Lock
  <1>3. QED
    BY <1>1, <1>2

LEMMA RecheckTyped ==
  ASSUME Typed, NEW c \in Callers, Recheck(c)
  PROVE  Typed'
  <1>s. creds[c] \in Creds \cup {NoCreds}
    BY SameCreds
  <1>1. CASE \/ Ends(c, Result(c, creds[c].a)) /\ Unlocks(c)
             \/ Fails(c) /\ Unlocks(c)
    <2>1. Result(c, creds[c].a) \in Outcome
      BY <1>s, CredsFields, ResultType
    <2>2. PICK outcome \in Outcome : Ends(c, outcome)
      BY <1>1, <2>1, FailsTypes
    <2>3. lock' \in Callers \cup {Nobody}
      BY <1>1, UnlocksType
    <2>4. QED
      BY <2>2, <2>3, EndsTypes DEF Typed, TypeOK, Recheck, serverVars
  <1>2. CASE /\ creds[c].r # 0
             /\ spent' = [spent EXCEPT ![c] = creds[c].r]
             /\ pc' = [pc EXCEPT ![c] = "refresh"]
             /\ UNCHANGED <<op, creds, answer, lock>>
    <2>1. creds[c].r \in Tokens /\ creds[c].r \in 0 .. MaxToken
      BY <1>s, <1>2, CredsFields, ClaudeAssumption DEF Tokens
    <2>2. pc' \in [Callers -> PC] /\ spent' \in [Callers -> 0 .. MaxToken]
      BY <1>2, <2>1 DEF Typed, TypeOK, PC
    <2>3. Shaped'
      <3> SUFFICES ASSUME NEW d \in Callers
                   PROVE  /\ pc'[d] = "refresh" => spent'[d] \in Tokens
                          /\ pc'[d] = "write" => creds'[d] \in Creds
        BY DEF Shaped
      <3>1. CASE d = c
        BY <3>1, <1>2, <2>1 DEF Typed, TypeOK
      <3>2. CASE d # c
        BY <3>2, <1>2 DEF Typed, TypeOK, Shaped
      <3>3. QED
        BY <3>1, <3>2
    <2>4. QED
      BY <1>2, <2>2, <2>3 DEF Typed, TypeOK, Recheck, serverVars
  <1>3. QED
    BY <1>1, <1>2 DEF Recheck

LEMMA RefreshTyped ==
  ASSUME Typed, NEW c \in Callers, Refreshed(c) \/ RefreshFails(c)
  PROVE  Typed'
  <1>1. CASE Refreshed(c)
    <2>1. PICK rotates \in BOOLEAN :
            /\ Issues(spent[c], rotates)
            /\ creds' = [creds EXCEPT ![c] =
                           [a |-> issued + 1,
                            r |-> IF rotates THEN issued + 1 ELSE spent[c]]]
      BY <1>1 DEF Refreshed
    <2>2. spent[c] \in Tokens
      BY <1>1 DEF Refreshed, Typed, Shaped
    <2>3. /\ issued + 1 \in Tokens /\ issued' \in Tokens
          /\ consumed' \subseteq Tokens /\ age' \in [Tokens -> Ages]
      BY <2>1, <2>2, IssuesTypes
    <2>4. [a |-> issued + 1, r |-> IF rotates THEN issued + 1 ELSE spent[c]] \in Creds
      BY <2>2, <2>3, ClaudeAssumption DEF Creds, Tokens
    <2>5. /\ creds' \in [Callers -> Creds \cup {NoCreds}]
          /\ pc' \in [Callers -> PC]
      BY <1>1, <2>1, <2>4 DEF Typed, TypeOK, Refreshed, Goes, PC
    <2>6. Shaped'
      <3> SUFFICES ASSUME NEW d \in Callers
                   PROVE  /\ pc'[d] = "refresh" => spent'[d] \in Tokens
                          /\ pc'[d] = "write" => creds'[d] \in Creds
        BY DEF Shaped
      <3>1. CASE d = c
        BY <3>1, <1>1, <2>1, <2>4 DEF Typed, TypeOK, Refreshed, Goes
      <3>2. CASE d # c
        BY <3>2, <1>1, <2>1 DEF Typed, TypeOK, Shaped, Refreshed, Goes
      <3>3. QED
        BY <3>1, <3>2
    <2>7. QED
      BY <1>1, <2>3, <2>5, <2>6 DEF Typed, TypeOK, Refreshed, Goes
  <1>2. CASE RefreshFails(c)
    <2>1. PICK outcome \in Outcome : Ends(c, outcome)
      BY <1>2, FailsTypes DEF RefreshFails
    <2>2. lock' \in Callers \cup {Nobody}
      BY <1>2, UnlocksType DEF RefreshFails
    <2>3. spent[c] \in Tokens
      BY <1>2 DEF RefreshFails, Typed, Shaped
    <2>4. /\ issued' \in Tokens /\ consumed' \subseteq Tokens
          /\ age' \in [Tokens -> Ages] /\ lost' \subseteq Tokens
      BY <1>2, <2>3, IssuesTypes DEF RefreshFails, Typed, TypeOK, serverVars
    <2>5. QED
      BY <1>2, <2>1, <2>2, <2>4, EndsTypes DEF Typed, TypeOK, RefreshFails
  <1>3. QED
    BY <1>1, <1>2

LEMMA WriteBackTyped ==
  ASSUME Typed, NEW c \in Callers, WriteBack(c)
  PROVE  Typed'
  <1>p. ProcOf[c] \in Procs
    BY ClaudeAssumption
  <1>s. creds[c] \in Creds
    BY DEF WriteBack, Typed, Shaped
  <1>1. Result(c, creds[c].a) \in Outcome
    BY <1>s, CredsFields, ResultType
  <1>2. [route |-> "refreshed", token |-> 0] \in Outcome
    BY DEF Outcome
  <1>3. lock' \in Callers \cup {Nobody}
    BY UnlocksType DEF WriteBack
  <1>4. snap' \in [Procs -> Creds \cup {NoCreds}]
    BY <1>p, InvalidatedType DEF WriteBack, Typed, TypeOK
  <1>5. keychain' \in Creds /\ lost' \subseteq Tokens
    BY <1>s DEF WriteBack, Typed, TypeOK
  <1>6. PICK outcome \in Outcome : Ends(c, outcome)
    BY <1>1, <1>2 DEF WriteBack
  <1>7. QED
    BY <1>3, <1>4, <1>5, <1>6, EndsTypes DEF Typed, TypeOK, WriteBack, serverVars

LEMMA EnvironmentTyped ==
  ASSUME Typed, (\E p \in Procs : SnapshotAges(p)) \/ TimePasses \/ Login
  PROVE  Typed'
  <1>1. ASSUME NEW p \in Procs, SnapshotAges(p) PROVE Typed'
    BY <1>1, InvalidatedType
       DEF Typed, TypeOK, Shaped, SnapshotAges, callerVars, serverVars
  <1>2. CASE TimePasses
    <2>1. age' \in [Tokens -> Ages]
      BY <1>2 DEF TimePasses, Typed, TypeOK, Ages
    <2>2. QED
      BY <1>2, <2>1 DEF Typed, TypeOK, Shaped, TimePasses, callerVars
  <1>3. CASE Login
    <2>1. issued + 1 \in Tokens /\ issued + 1 \in 0 .. MaxToken
      BY <1>3, ClaudeAssumption DEF Typed, TypeOK, Login, Tokens
    <2>2. keychain' \in Creds /\ issued' \in Tokens
      BY <1>3, <2>1 DEF Login, Creds
    <2>3. age' \in [Tokens -> Ages]
      BY <1>3, <2>1 DEF Login, Typed, TypeOK, Ages
    <2>4. QED
      BY <1>3, <2>2, <2>3 DEF Typed, TypeOK, Shaped, Login, callerVars
  <1>4. QED
    BY <1>1, <1>2, <1>3

LEMMA CrashTyped ==
  ASSUME Typed, NEW p \in Procs, Crash(p)
  PROVE  Typed'
  <1>1. Failure \in Outcome /\ "idle" \in PC /\ 0 \in 0 .. MaxToken
    BY ClaudeAssumption DEF Failure, Outcome, PC
  <1>2. /\ pc' \in [Callers -> PC]
        /\ creds' \in [Callers -> Creds \cup {NoCreds}]
        /\ spent' \in [Callers -> 0 .. MaxToken]
    BY <1>1 DEF Typed, TypeOK, Crash
  <1>3. snap' \in [Procs -> Creds \cup {NoCreds}]
    BY InvalidatedType DEF Crash
  <1>4. lock' \in Callers \cup {Nobody}
    BY DEF Typed, TypeOK, Crash
  <1>5. lost' \subseteq Tokens
    BY DEF Typed, TypeOK, Crash
  <1>6. Shaped'
    BY DEF Typed, TypeOK, Shaped, Crash
  <1>7. QED
    BY <1>1, <1>2, <1>3, <1>4, <1>5, <1>6 DEF Typed, TypeOK, Crash, serverVars

LEMMA NextTyped == Typed /\ [Next]_vars => Typed'
  <1> SUFFICES ASSUME Typed, [Next]_vars PROVE Typed'
    OBVIOUS
  <1>1. ASSUME NEW c \in Callers, GetAccessToken(c) \/ ForceRefresh(c) PROVE Typed'
    BY <1>1, BeginTyped
  <1>2. ASSUME NEW c \in Callers, Step(c) PROVE Typed'
    BY <1>2, ReadTyped, CheckTyped, RecheckTyped, RefreshTyped, WriteBackTyped
       DEF Step
  <1>3. ASSUME NEW p \in Procs, SnapshotAges(p) \/ Crash(p) PROVE Typed'
    BY <1>3, EnvironmentTyped, CrashTyped
  <1>4. CASE TimePasses \/ Login
    BY <1>4, EnvironmentTyped
  <1>5. CASE UNCHANGED vars
    BY <1>5 DEF Typed, TypeOK, Shaped, vars
  <1>6. QED
    BY <1>1, <1>2, <1>3, <1>4, <1>5 DEF Next

\* The variables keep their types, whatever the callers, the provider and the
\* user do: a refresh is never sent without a refresh token, and what is
\* written to the keychain has an access token.
THEOREM TypeCorrect == Spec => []TypeOK
  <1>1. Init => Typed
    BY InitTyped
  <1>2. Typed /\ [Next]_vars => Typed'
    BY NextTyped
  <1>3. Typed => TypeOK
    BY DEF Typed
  <1>4. QED
    BY <1>1, <1>2, <1>3, PTL DEF Spec

(***************************************************************************)
(* The file lock, and the refresh tokens that a refresh has consumed.      *)
(***************************************************************************)

\* Only the caller that holds the lock refreshes the entry; one that reads it
\* may hold it or not.
LockInv ==
  \A c \in Callers :
    /\ pc[c] \in {"reread", "recheck", "refresh", "write"} => lock = c
    /\ pc[c] \in {"idle", "read", "have", "lock"} => lock # c

\* Nobody has a refresh token that was not issued.
Bounded ==
  /\ keychain.r <= issued /\ consumed \subseteq 1 .. issued
  /\ \A p \in Procs : snap[p].r <= issued
  /\ \A c \in Callers : creds[c].r <= issued /\ spent[c] <= issued

\* Caller c holds the lock and has read the entry under it.
HasReread(c) == pc[c] = "recheck" \/ (pc[c] = "cache" /\ lock = c)

\* What the holder of the lock has at hand is good on its way from the entry
\* to the provider and back.
HolderGood ==
  \A c \in Callers :
    /\ HasReread(c) /\ creds[c].r \in consumed => creds[c].r \in lost
    /\ pc[c] = "write" => creds[c].r \notin consumed

TokenInv == Typed /\ LockInv /\ Bounded /\ RefreshedOnce /\ KeychainGood /\ HolderGood

\* Two callers that need the lock are the same one.
LEMMA OneHolder ==
  ASSUME LockInv, NEW c \in Callers, lock = c, NEW d \in Callers, d # c
  PROVE  pc[d] \notin {"reread", "recheck", "refresh", "write"} /\ ~HasReread(d)
  BY DEF LockInv, HasReread

LEMMA InitTokenInv == Init => TokenInv
  <1> SUFFICES ASSUME Init PROVE TokenInv
    OBVIOUS
  <1>1. Typed
    BY InitTyped
  <1>2. LockInv
    BY ClaudeAssumption DEF Init, LockInv
  <1>3. keychain.r <= 1
    BY DEF Init
  <1>4. Bounded
    BY <1>3 DEF Init, Bounded, NoCreds
  <1>5. RefreshedOnce /\ KeychainGood /\ HolderGood
    BY DEF Init, RefreshedOnce, KeychainGood, HolderGood, HasReread
  <1>6. QED
    BY <1>1, <1>2, <1>4, <1>5 DEF TokenInv

\* Calls that begin, a snapshot that is dropped.
LEMMA QuietSafe ==
  ASSUME TokenInv,
         \/ \E c \in Callers : GetAccessToken(c) \/ ForceRefresh(c)
         \/ \E p \in Procs : SnapshotAges(p)
         \/ TimePasses
  PROVE  LockInv' /\ Bounded' /\ RefreshedOnce' /\ KeychainGood' /\ HolderGood'
  <1>t. Typed
    BY DEF TokenInv
  <1>1. ASSUME NEW c \in Callers, GetAccessToken(c) \/ ForceRefresh(c)
        PROVE  LockInv' /\ Bounded' /\ RefreshedOnce' /\ KeychainGood' /\ HolderGood'
    <2>1. /\ pc[c] = "idle" /\ pc'[c] \in {"read", "lock"}
          /\ \A d \in Callers \ {c} : pc'[d] = pc[d]
          /\ UNCHANGED <<keychain, snap, lock, creds, spent, issued, consumed, lost>>
      BY <1>1, <1>t DEF Typed, TypeOK, GetAccessToken, ForceRefresh, serverVars
    <2>2. LockInv'
      BY <2>1 DEF TokenInv, LockInv
    <2>3. Bounded' /\ RefreshedOnce'
      BY <2>1 DEF TokenInv, Bounded, RefreshedOnce
    <2>4. KeychainGood'
      BY <2>1 DEF TokenInv, KeychainGood
    <2>5. HolderGood'
      BY <2>1 DEF TokenInv, HolderGood, HasReread
    <2>6. QED
      BY <2>2, <2>3, <2>4, <2>5
  <1>2. ASSUME NEW p \in Procs, SnapshotAges(p)
        PROVE  LockInv' /\ Bounded' /\ RefreshedOnce' /\ KeychainGood' /\ HolderGood'
    <2>1. UNCHANGED <<keychain, lock, pc, creds, spent, issued, consumed, lost>>
      BY <1>2 DEF SnapshotAges, callerVars, serverVars
    <2>2. \A q \in Procs : snap'[q].r <= issued
      BY <1>2, <1>t DEF TokenInv, Bounded, SnapshotAges, Invalidated, Typed,
                        TypeOK, NoCreds, Tokens
    <2>3. QED
      BY <2>1, <2>2 DEF TokenInv, LockInv, Bounded, RefreshedOnce, KeychainGood,
                        HolderGood, HasReread
  <1>3. CASE TimePasses
    BY <1>3 DEF TokenInv, TimePasses, callerVars, LockInv, Bounded, RefreshedOnce,
                KeychainGood, HolderGood, HasReread
  <1>4. QED
    BY <1>1, <1>2, <1>3

\* What a call leaves behind when it ends without a refresh.
LEMMA EndSafe ==
  ASSUME TokenInv, NEW c \in Callers, NEW outcome, Ends(c, outcome), Unlocks(c),
         UNCHANGED <<keychain, issued, consumed, lost>>, pc[c] # "write",
         snap' \in {snap, Invalidated(ProcOf[c])}
  PROVE  LockInv' /\ Bounded' /\ RefreshedOnce' /\ KeychainGood' /\ HolderGood'
  <1>t. Typed /\ TypeOK
    BY DEF TokenInv, Typed
  <1>1. /\ pc'[c] = "idle" /\ creds'[c] = NoCreds /\ spent'[c] = 0
        /\ \A d \in Callers \ {c} :
             pc'[d] = pc[d] /\ creds'[d] = creds[d] /\ spent'[d] = spent[d]
    BY <1>t DEF TypeOK, Ends
  <1>2. lock' # c /\ \A d \in Callers \ {c} : lock' = d <=> lock = d
    BY ClaudeAssumption DEF Unlocks
  <1>3. LockInv'
    BY <1>1, <1>2 DEF TokenInv, LockInv
  <1>4. Bounded'
    <2>1. \A q \in Procs : snap'[q].r <= issued
      BY <1>t DEF TokenInv, Bounded, Invalidated, TypeOK, NoCreds, Tokens
    <2>2. \A d \in Callers : creds'[d].r <= issued /\ spent'[d] <= issued
      <3> SUFFICES ASSUME NEW d \in Callers
                   PROVE  creds'[d].r <= issued /\ spent'[d] <= issued
        OBVIOUS
      <3>1. CASE d = c
        BY <3>1, <1>1, <1>t DEF NoCreds, TypeOK, Tokens
      <3>2. CASE d # c
        BY <3>2, <1>1 DEF TokenInv, Bounded
      <3>3. QED
        BY <3>1, <3>2
    <2>3. QED
      BY <2>1, <2>2 DEF TokenInv, Bounded
  <1>5. RefreshedOnce' /\ KeychainGood'
    BY <1>1 DEF TokenInv, RefreshedOnce, KeychainGood
  <1>6. HolderGood'
    BY <1>1, <1>2 DEF TokenInv, HolderGood, HasReread
  <1>7. QED
    BY <1>3, <1>4, <1>5, <1>6

\* A caller that does not hold the lock ends its call: nothing else changes.
LEMMA FreeUnlocks ==
  ASSUME NEW c \in Callers, lock # c, UNCHANGED lock
  PROVE  Unlocks(c)
  BY DEF Unlocks

LEMMA ReadSafe ==
  ASSUME TokenInv, NEW c \in Callers,
         ReadSnapshot(c) \/ ReadKeychain(c) \/ StoreSnapshot(c)
  PROVE  LockInv' /\ Bounded' /\ RefreshedOnce' /\ KeychainGood' /\ HolderGood'
  <1>t. Typed /\ TypeOK
    BY DEF TokenInv, Typed
  <1>p. ProcOf[c] \in Procs
    BY ClaudeAssumption
  <1>1. CASE ReadSnapshot(c)
    <2>1. /\ pc[c] = "read" /\ pc'[c] = "have" /\ creds'[c] = snap[ProcOf[c]]
          /\ \A d \in Callers \ {c} : pc'[d] = pc[d] /\ creds'[d] = creds[d]
          /\ UNCHANGED <<keychain, snap, lock, spent, issued, consumed, lost>>
      BY <1>1, <1>t DEF TypeOK, ReadSnapshot, Goes, serverVars
    <2>2. LockInv'
      BY <2>1 DEF TokenInv, LockInv
    <2>3. Bounded'
      BY <2>1, <1>p DEF TokenInv, Bounded
    <2>4. RefreshedOnce' /\ KeychainGood'
      BY <2>1 DEF TokenInv, RefreshedOnce, KeychainGood
    <2>5. HolderGood'
      BY <2>1 DEF TokenInv, HolderGood, HasReread
    <2>6. QED
      BY <2>2, <2>3, <2>4, <2>5
  <1>2. CASE ReadKeychain(c)
    <2>1. CASE /\ creds' = [creds EXCEPT ![c] = keychain]
               /\ Goes(c, "cache")
               /\ UNCHANGED <<snap, lock>>
      <3>1. /\ pc[c] \in {"read", "reread"} /\ pc'[c] = "cache" /\ creds'[c] = keychain
            /\ \A d \in Callers \ {c} : pc'[d] = pc[d] /\ creds'[d] = creds[d]
            /\ UNCHANGED <<keychain, snap, lock, spent, issued, consumed, lost>>
        BY <1>2, <2>1, <1>t DEF TypeOK, ReadKeychain, Goes, serverVars
      <3>2. LockInv'
        BY <3>1 DEF TokenInv, LockInv
      <3>3. Bounded'
        BY <3>1 DEF TokenInv, Bounded
      <3>4. RefreshedOnce' /\ KeychainGood'
        BY <3>1 DEF TokenInv, RefreshedOnce, KeychainGood
      <3>5. lock = c /\ keychain.r \in consumed => keychain.r \in lost
        <4> SUFFICES ASSUME lock = c, keychain.r \in consumed, keychain.r \notin lost
                     PROVE  FALSE
          OBVIOUS
        <4>1. PICK d \in Callers : pc[d] = "write" /\ spent[d] = keychain.r
          BY DEF TokenInv, KeychainGood
        <4>2. d # c
          BY <3>1, <4>1
        <4>3. QED
          BY <4>1, <4>2, OneHolder DEF TokenInv
      <3>6. HolderGood'
        <4> SUFFICES ASSUME NEW d \in Callers
                     PROVE  /\ HasReread(d)' /\ creds'[d].r \in consumed
                                 => creds'[d].r \in lost
                            /\ pc'[d] = "write" => creds'[d].r \notin consumed
          BY <3>1 DEF HolderGood
        <4>1. CASE d = c
          BY <4>1, <3>1, <3>5 DEF HasReread
        <4>2. CASE d # c
          BY <4>2, <3>1 DEF TokenInv, HolderGood, HasReread
        <4>3. QED
          BY <4>1, <4>2
      <3>7. QED
        BY <3>2, <3>3, <3>4, <3>6
    <2>2. CASE /\ snap' = Invalidated(ProcOf[c])
               /\ Ends(c, Result(c, 0))
               /\ Unlocks(c)
      <3>1. pc[c] # "write" /\ UNCHANGED <<keychain, issued, consumed, lost>>
        BY <1>2 DEF ReadKeychain, serverVars
      <3>2. QED
        BY <2>2, <3>1, EndSafe
    <2>3. QED
      BY <1>2, <2>1, <2>2 DEF ReadKeychain
  <1>3. CASE StoreSnapshot(c)
    <2>1. /\ pc[c] = "cache" /\ pc'[c] = IF lock = c THEN "recheck" ELSE "have"
          /\ \A d \in Callers \ {c} : pc'[d] = pc[d]
          /\ UNCHANGED <<keychain, lock, creds, spent, issued, consumed, lost>>
      BY <1>3, <1>t DEF TypeOK, StoreSnapshot, Goes, serverVars
    <2>2. LockInv'
      BY <2>1 DEF TokenInv, LockInv
    <2>3. \A q \in Procs : snap'[q].r <= issued
      BY <1>3, <1>t DEF TokenInv, Bounded, StoreSnapshot, TypeOK
    <2>4. Bounded'
      BY <2>1, <2>3 DEF TokenInv, Bounded
    <2>5. RefreshedOnce' /\ KeychainGood'
      BY <2>1 DEF TokenInv, RefreshedOnce, KeychainGood
    <2>6. HolderGood'
      BY <2>1 DEF TokenInv, HolderGood, HasReread
    <2>7. QED
      BY <2>2, <2>4, <2>5, <2>6
  <1>4. QED
    BY <1>1, <1>2, <1>3

LEMMA CheckSafe ==
  ASSUME TokenInv, NEW c \in Callers, CheckExpiry(c) \/ Lock(c)
  PROVE  LockInv' /\ Bounded' /\ RefreshedOnce' /\ KeychainGood' /\ HolderGood'
  <1>t. Typed /\ TypeOK
    BY DEF TokenInv, Typed
  <1>p. ProcOf[c] \in Procs
    BY ClaudeAssumption
  <1>1. /\ pc[c] \in {"have", "lock"} /\ lock # c
        /\ UNCHANGED <<keychain, issued, consumed, lost>>
    BY DEF TokenInv, LockInv, CheckExpiry, Lock, serverVars
  <1>2. ASSUME NEW outcome, Ends(c, outcome), UNCHANGED <<lock, snap>>
        PROVE  LockInv' /\ Bounded' /\ RefreshedOnce' /\ KeychainGood' /\ HolderGood'
    <2>1. Unlocks(c)
      BY <1>1, <1>2, FreeUnlocks
    <2>2. QED
      BY <1>1, <1>2, <2>1, EndSafe
  <1>3. CASE CheckExpiry(c)
    <2>1. CASE Goes(c, "lock") /\ UNCHANGED creds
      <3>1. /\ pc'[c] = "lock" /\ \A d \in Callers \ {c} : pc'[d] = pc[d]
            /\ UNCHANGED <<keychain, snap, lock, creds, spent, issued, consumed, lost>>
        BY <1>1, <1>3, <2>1, <1>t DEF TypeOK, CheckExpiry, Goes, serverVars
      <3>2. LockInv'
        BY <1>1, <3>1 DEF TokenInv, LockInv
      <3>3. Bounded'
        BY <3>1 DEF TokenInv, Bounded
      <3>4. RefreshedOnce' /\ KeychainGood'
        BY <1>1, <3>1 DEF TokenInv, RefreshedOnce, KeychainGood
      <3>5. HolderGood'
        BY <3>1 DEF TokenInv, HolderGood, HasReread
      <3>6. QED
        BY <3>2, <3>3, <3>4, <3>5
    <2>2. QED
      BY <1>2, <1>3, <2>1 DEF CheckExpiry
  <1>4. CASE Lock(c)
    <2>1. CASE /\ lock = Nobody
               /\ lock' = c
               /\ snap' = Invalidated(ProcOf[c])
               /\ Goes(c, "reread") /\ UNCHANGED creds
      <3>1. /\ pc'[c] = "reread" /\ \A d \in Callers \ {c} : pc'[d] = pc[d]
            /\ UNCHANGED <<keychain, creds, spent, issued, consumed, lost>>
        BY <1>1, <1>4, <2>1, <1>t DEF TypeOK, Lock, Goes, serverVars
      <3>2. \A d \in Callers : lock # d
        BY <2>1, ClaudeAssumption
      <3>3. LockInv'
        BY <3>1, <3>2, <2>1 DEF TokenInv, LockInv
      <3>4. \A q \in Procs : snap'[q].r <= issued
        BY <2>1, <1>t DEF TokenInv, Bounded, Invalidated, TypeOK, NoCreds, Tokens
      <3>5. Bounded'
        BY <3>1, <3>4 DEF TokenInv, Bounded
      <3>6. RefreshedOnce' /\ KeychainGood'
        BY <1>1, <3>1 DEF TokenInv, RefreshedOnce, KeychainGood
      <3>7. HolderGood'
        BY <3>1, <3>2, <2>1 DEF TokenInv, HolderGood, HasReread
      <3>8. QED
        BY <3>3, <3>5, <3>6, <3>7
    <2>2. QED
      BY <1>2, <1>4, <2>1 DEF Lock
  <1>5. QED
    BY <1>3, <1>4

LEMMA RecheckSafe ==
  ASSUME TokenInv, NEW c \in Callers, Recheck(c)
  PROVE  LockInv' /\ Bounded' /\ RefreshedOnce' /\ KeychainGood' /\ HolderGood'
  <1>t. Typed /\ TypeOK
    BY DEF TokenInv, Typed
  <1>1. pc[c] = "recheck" /\ UNCHANGED <<keychain, snap, issued, consumed, lost>>
    BY DEF Recheck, serverVars
  <1>2. ASSUME NEW outcome, Ends(c, outcome), Unlocks(c)
        PROVE  LockInv' /\ Bounded' /\ RefreshedOnce' /\ KeychainGood' /\ HolderGood'
    BY <1>1, <1>2, EndSafe
  <1>3. CASE /\ spent' = [spent EXCEPT ![c] = creds[c].r]
             /\ pc' = [pc EXCEPT ![c] = "refresh"]
             /\ UNCHANGED <<op, creds, answer, lock>>
    <2>1. /\ pc'[c] = "refresh" /\ spent'[c] = creds[c].r
          /\ \A d \in Callers \ {c} : pc'[d] = pc[d] /\ spent'[d] = spent[d]
      BY <1>3, <1>t DEF TypeOK
    <2>2. LockInv'
      BY <1>1, <1>3, <2>1 DEF TokenInv, LockInv
    <2>3. Bounded'
      BY <1>1, <1>3, <2>1 DEF TokenInv, Bounded
    <2>4. RefreshedOnce'
      BY <1>1, <2>1 DEF TokenInv, RefreshedOnce, HolderGood, HasReread
    <2>5. KeychainGood'
      BY <1>1, <2>1 DEF TokenInv, KeychainGood
    <2>6. HolderGood'
      BY <1>1, <1>3, <2>1 DEF TokenInv, HolderGood, HasReread
    <2>7. QED
      BY <2>2, <2>3, <2>4, <2>5, <2>6
  <1>4. QED
    BY <1>2, <1>3 DEF Recheck, Fails

\* A refresh consumes at most the token it was paid with, which the holder of
\* the lock sent and nobody else can send any more.
LEMMA RefreshedSafe ==
  ASSUME TokenInv, NEW c \in Callers, Refreshed(c)
  PROVE  LockInv' /\ Bounded' /\ RefreshedOnce' /\ KeychainGood' /\ HolderGood'
  <1>t. Typed /\ TypeOK
    BY DEF TokenInv, Typed
  <1>1. PICK rotates \in BOOLEAN :
          /\ Issues(spent[c], rotates)
          /\ creds' = [creds EXCEPT ![c] =
                         [a |-> issued + 1,
                          r |-> IF rotates THEN issued + 1 ELSE spent[c]]]
    BY DEF Refreshed
  <1>2. /\ pc[c] = "refresh" /\ pc'[c] = "write" /\ lock = c
        /\ \A d \in Callers \ {c} : pc'[d] = pc[d] /\ creds'[d] = creds[d]
        /\ UNCHANGED <<keychain, snap, lock, spent, lost>>
    BY <1>1, <1>t DEF TypeOK, Refreshed, Goes, TokenInv, LockInv
  <1>3. /\ creds'[c].r = IF rotates THEN issued + 1 ELSE spent[c]
        /\ issued' = issued + 1 /\ issued \in Nat
        /\ spent[c] \notin consumed /\ spent[c] <= issued /\ spent[c] \in Tokens
        /\ consumed' = IF rotates THEN consumed \cup {spent[c]} ELSE consumed
    BY <1>1, <1>2, <1>t DEF TypeOK, Issues, Typed, Shaped, TokenInv, Bounded, Tokens
  <1>4. \A d \in Callers \ {c} :
          pc[d] \notin {"reread", "recheck", "refresh", "write"} /\ ~HasReread(d)
    BY <1>2, OneHolder DEF TokenInv
  <1>5. LockInv'
    BY <1>2 DEF TokenInv, LockInv
  <1>6. Bounded'
    <2>1. keychain'.r <= issued' /\ \A q \in Procs : snap'[q].r <= issued'
      <3>1. keychain.r \in Nat /\ \A q \in Procs : snap[q].r \in Nat
        BY <1>t, CredsFields DEF TypeOK
      <3>2. QED
        BY <3>1, <1>2, <1>3 DEF TokenInv, Bounded
    <2>2. consumed' \subseteq 1 .. issued'
      BY <1>3 DEF TokenInv, Bounded, Tokens
    <2>3. ASSUME NEW d \in Callers
          PROVE  creds'[d].r <= issued' /\ spent'[d] <= issued'
      <3>1. creds[d].r \in Nat /\ spent[d] \in Nat
        BY <1>t, CredsFields DEF TypeOK
      <3>2. CASE d = c
        BY <3>1, <3>2, <1>2, <1>3 DEF TokenInv, Bounded, Tokens
      <3>3. CASE d # c
        BY <3>1, <3>3, <1>2, <1>3 DEF TokenInv, Bounded
      <3>4. QED
        BY <3>2, <3>3
    <2>4. QED
      BY <2>1, <2>2, <2>3 DEF Bounded
  <1>7. RefreshedOnce'
    BY <1>2, <1>4 DEF RefreshedOnce
  <1>8. KeychainGood'
    <2> SUFFICES ASSUME keychain.r \in consumed', keychain.r \notin lost
                 PROVE  \E d \in Callers : pc'[d] = "write" /\ spent'[d] = keychain.r
      BY <1>2 DEF KeychainGood
    <2>1. CASE keychain.r \in consumed
      <3>1. PICK d \in Callers : pc[d] = "write" /\ spent[d] = keychain.r
        BY <2>1 DEF TokenInv, KeychainGood
      <3>2. QED
        BY <3>1, <1>2, <1>4
    <2>2. CASE keychain.r = spent[c]
      BY <2>2, <1>2
    <2>3. QED
      BY <2>1, <2>2, <1>3
  <1>9. HolderGood'
    <2> SUFFICES ASSUME NEW d \in Callers
                 PROVE  /\ HasReread(d)' /\ creds'[d].r \in consumed'
                             => creds'[d].r \in lost'
                        /\ pc'[d] = "write" => creds'[d].r \notin consumed'
      BY DEF HolderGood
    <2>1. CASE d = c
      <3>1. issued + 1 \notin consumed'
        BY <1>3 DEF TokenInv, Bounded, Tokens
      <3>2. QED
        BY <2>1, <3>1, <1>2, <1>3 DEF HasReread
    <2>2. CASE d # c
      BY <2>2, <1>2, <1>4 DEF HasReread
    <2>3. QED
      BY <2>1, <2>2
  <1>10. QED
    BY <1>5, <1>6, <1>7, <1>8, <1>9

LEMMA RefreshFailsSafe ==
  ASSUME TokenInv, NEW c \in Callers, RefreshFails(c)
  PROVE  LockInv' /\ Bounded' /\ RefreshedOnce' /\ KeychainGood' /\ HolderGood'
  <1>t. Typed /\ TypeOK
    BY DEF TokenInv, Typed
  <1>e. PICK outcome : Ends(c, outcome)
    BY DEF RefreshFails, Fails
  <1>u. Unlocks(c) /\ pc[c] = "refresh" /\ UNCHANGED <<keychain, snap>>
    BY DEF RefreshFails
  <1>1. CASE UNCHANGED <<serverVars, lost>>
    BY <1>1, <1>e, <1>u, EndSafe DEF serverVars
  <1>2. CASE Issues(spent[c], TRUE) /\ lost' = lost \cup {spent[c]}
    <2>1. /\ issued' = issued + 1 /\ issued \in Nat /\ lock = c
          /\ consumed' = consumed \cup {spent[c]}
          /\ spent[c] <= issued /\ spent[c] \in Tokens
      BY <1>2, <1>u, <1>t DEF TypeOK, Issues, Typed, Shaped, TokenInv, Bounded,
                               LockInv, Tokens
    <2>2. /\ pc'[c] = "idle" /\ creds'[c] = NoCreds /\ spent'[c] = 0
          /\ \A d \in Callers \ {c} :
               pc'[d] = pc[d] /\ creds'[d] = creds[d] /\ spent'[d] = spent[d]
      BY <1>e, <1>t DEF TypeOK, Ends
    <2>3. \A d \in Callers \ {c} :
            pc[d] \notin {"reread", "recheck", "refresh", "write"} /\ ~HasReread(d)
      BY <2>1, OneHolder DEF TokenInv
    <2>4. lock' = Nobody /\ \A d \in Callers : d # Nobody
      BY <1>u, <2>1, ClaudeAssumption DEF Unlocks
    <2>5. LockInv'
      BY <2>2, <2>3, <2>4 DEF LockInv
    <2>6. Bounded'
      <3>1. /\ keychain.r \in Nat /\ \A q \in Procs : snap[q].r \in Nat
            /\ \A d \in Callers : creds[d].r \in Nat /\ spent[d] \in Nat
        BY <1>t, CredsFields DEF TypeOK
      <3>2. keychain'.r <= issued' /\ \A q \in Procs : snap'[q].r <= issued'
        BY <3>1, <1>u, <2>1 DEF TokenInv, Bounded
      <3>3. consumed' \subseteq 1 .. issued'
        <4>1. consumed \subseteq 1 .. issued + 1
          BY <2>1 DEF TokenInv, Bounded
        <4>2. spent[c] \in 1 .. issued + 1
          BY <2>1 DEF Tokens
        <4>3. QED
          BY <4>1, <4>2, <2>1
      <3>4. ASSUME NEW d \in Callers
            PROVE  creds'[d].r <= issued' /\ spent'[d] <= issued'
        <4>1. CASE d = c
          BY <4>1, <2>1, <2>2 DEF NoCreds
        <4>2. CASE d # c
          BY <4>2, <3>1, <2>1, <2>2 DEF TokenInv, Bounded
        <4>3. QED
          BY <4>1, <4>2
      <3>5. QED
        BY <3>2, <3>3, <3>4 DEF Bounded
    <2>7. RefreshedOnce'
      BY <2>2, <2>3 DEF RefreshedOnce
    <2>8. KeychainGood'
      <3> SUFFICES ASSUME keychain.r \in consumed', keychain.r \notin lost'
                   PROVE  FALSE
        BY <1>u DEF KeychainGood
      <3>1. keychain.r \in consumed /\ keychain.r \notin lost
        BY <1>2, <2>1
      <3>2. PICK d \in Callers : pc[d] = "write" /\ spent[d] = keychain.r
        BY <3>1 DEF TokenInv, KeychainGood
      <3>3. QED
        BY <3>2, <2>3, <1>u
    <2>9. HolderGood'
      BY <2>2, <2>3, <2>4 DEF HolderGood, HasReread
    <2>10. QED
      BY <2>5, <2>6, <2>7, <2>8, <2>9
  <1>3. QED
    BY <1>1, <1>2 DEF RefreshFails

\* The holder writes back what it was given, or loses it.
LEMMA WriteBackSafe ==
  ASSUME TokenInv, NEW c \in Callers, WriteBack(c)
  PROVE  LockInv' /\ Bounded' /\ RefreshedOnce' /\ KeychainGood' /\ HolderGood'
  <1>t. Typed /\ TypeOK
    BY DEF TokenInv, Typed
  <1>e. PICK outcome : Ends(c, outcome)
    BY DEF WriteBack
  <1>u. /\ Unlocks(c) /\ pc[c] = "write" /\ UNCHANGED <<issued, consumed>>
        /\ snap' \in {snap, Invalidated(ProcOf[c])}
    BY DEF WriteBack, serverVars
  <1>1. /\ lock = c /\ creds[c].r \notin consumed /\ creds[c].r <= issued
    BY <1>u DEF TokenInv, LockInv, HolderGood, Bounded
  <1>2. /\ pc'[c] = "idle" /\ creds'[c] = NoCreds /\ spent'[c] = 0
        /\ \A d \in Callers \ {c} :
             pc'[d] = pc[d] /\ creds'[d] = creds[d] /\ spent'[d] = spent[d]
    BY <1>e, <1>t DEF TypeOK, Ends
  <1>3. \A d \in Callers \ {c} :
          pc[d] \notin {"reread", "recheck", "refresh", "write"} /\ ~HasReread(d)
    BY <1>1, OneHolder DEF TokenInv
  <1>4. lock' = Nobody /\ \A d \in Callers : d # Nobody
    BY <1>u, <1>1, ClaudeAssumption DEF Unlocks
  <1>5. LockInv'
    BY <1>2, <1>3, <1>4 DEF LockInv
  <1>6. keychain' = creds[c] \/ (keychain' = keychain
                                 /\ lost' = lost \cup ({spent[c]} \cap consumed))
    BY DEF WriteBack
  <1>7. Bounded'
    <2>1. \A q \in Procs : snap'[q].r <= issued
      BY <1>u, <1>t DEF TokenInv, Bounded, Invalidated, TypeOK, NoCreds, Tokens
    <2>2. keychain'.r <= issued
      BY <1>6, <1>1 DEF TokenInv, Bounded
    <2>3. ASSUME NEW d \in Callers
          PROVE  creds'[d].r <= issued /\ spent'[d] <= issued
      <3>1. CASE d = c
        BY <3>1, <1>2, <1>t DEF NoCreds, TypeOK, Tokens
      <3>2. CASE d # c
        BY <3>2, <1>2 DEF TokenInv, Bounded
      <3>3. QED
        BY <3>1, <3>2
    <2>4. QED
      BY <2>1, <2>2, <2>3, <1>u DEF TokenInv, Bounded
  <1>8. RefreshedOnce'
    BY <1>2, <1>3 DEF RefreshedOnce
  <1>9. KeychainGood'
    <2>1. CASE keychain' = creds[c]
      BY <2>1, <1>1, <1>u DEF KeychainGood
    <2>2. CASE keychain' = keychain /\ lost' = lost \cup ({spent[c]} \cap consumed)
      <3> SUFFICES ASSUME keychain.r \in consumed, keychain.r \notin lost'
                   PROVE  FALSE
        BY <2>2, <1>u DEF KeychainGood
      <3>1. PICK d \in Callers : pc[d] = "write" /\ spent[d] = keychain.r
        BY <2>2 DEF TokenInv, KeychainGood
      <3>2. d = c
        BY <3>1, <1>3
      <3>3. QED
        BY <3>1, <3>2, <2>2
    <2>3. QED
      BY <2>1, <2>2, <1>6
  <1>10. HolderGood'
    BY <1>2, <1>3, <1>4 DEF HolderGood, HasReread
  <1>11. QED
    BY <1>5, <1>7, <1>8, <1>9, <1>10

\* A login brings a token that nobody has used; a process that ends gives the
\* lock back.
LEMMA LoginSafe ==
  ASSUME TokenInv, Login
  PROVE  LockInv' /\ Bounded' /\ RefreshedOnce' /\ KeychainGood' /\ HolderGood'
  <1>t. Typed /\ TypeOK
    BY DEF TokenInv, Typed
  <1>1. /\ keychain'.r = issued + 1 /\ issued' = issued + 1 /\ issued \in Nat
        /\ UNCHANGED <<snap, lock, pc, op, creds, spent, consumed, lost>>
    BY <1>t DEF Login, callerVars, TypeOK, Tokens
  <1>2. Bounded'
    <2>1. /\ \A q \in Procs : snap[q].r \in Nat
          /\ \A d \in Callers : creds[d].r \in Nat /\ spent[d] \in Nat
      BY <1>t, CredsFields DEF TypeOK
    <2>2. consumed \subseteq 1 .. issued + 1
      BY <1>1 DEF TokenInv, Bounded
    <2>3. QED
      BY <2>1, <2>2, <1>1 DEF TokenInv, Bounded
  <1>3. KeychainGood'
    BY <1>1 DEF TokenInv, Bounded, KeychainGood
  <1>4. QED
    BY <1>1, <1>2, <1>3
       DEF TokenInv, LockInv, RefreshedOnce, HolderGood, HasReread

LEMMA CrashSafe ==
  ASSUME TokenInv, NEW p \in Procs, Crash(p)
  PROVE  LockInv' /\ Bounded' /\ RefreshedOnce' /\ KeychainGood' /\ HolderGood'
  <1> DEFINE mine == {c \in Callers : ProcOf[c] = p}
  <1>t. Typed /\ TypeOK
    BY DEF TokenInv, Typed
  <1>1. /\ \A c \in mine : pc'[c] = "idle" /\ creds'[c] = NoCreds /\ spent'[c] = 0
        /\ \A c \in Callers \ mine :
             pc'[c] = pc[c] /\ creds'[c] = creds[c] /\ spent'[c] = spent[c]
        /\ UNCHANGED <<keychain, issued, consumed>>
        /\ lost \subseteq lost'
        /\ \A c \in mine : pc[c] = "write" /\ spent[c] \in consumed => spent[c] \in lost'
    BY <1>t DEF TypeOK, Crash, serverVars
  <1>2. /\ \A c \in mine : lock' # c
        /\ \A c \in Callers \ mine : lock' = c <=> lock = c
    BY ClaudeAssumption DEF Crash
  <1>3. snap' = Invalidated(p)
    BY DEF Crash
  <1> HIDE DEF mine
  <1>m. mine \subseteq Callers
    BY DEF mine
  <1>4. LockInv'
    BY <1>1, <1>2 DEF TokenInv, LockInv
  <1>5. Bounded'
    <2>1. \A q \in Procs : snap'[q].r <= issued
      BY <1>3, <1>t DEF TokenInv, Bounded, Invalidated, TypeOK, NoCreds, Tokens
    <2>2. ASSUME NEW d \in Callers
          PROVE  creds'[d].r <= issued /\ spent'[d] <= issued
      <3>1. CASE d \in mine
        BY <3>1, <1>1, <1>t DEF NoCreds, TypeOK, Tokens
      <3>2. CASE d \notin mine
        BY <3>2, <1>1 DEF TokenInv, Bounded
      <3>3. QED
        BY <3>1, <3>2
    <2>3. QED
      BY <2>1, <2>2, <1>1 DEF TokenInv, Bounded
  <1>6. RefreshedOnce'
    BY <1>1 DEF TokenInv, RefreshedOnce
  <1>7. KeychainGood'
    <2> SUFFICES ASSUME keychain.r \in consumed, keychain.r \notin lost'
                 PROVE  \E d \in Callers : pc'[d] = "write" /\ spent'[d] = keychain.r
      BY <1>1 DEF KeychainGood
    <2>1. PICK d \in Callers : pc[d] = "write" /\ spent[d] = keychain.r
      BY <1>1 DEF TokenInv, KeychainGood
    <2>2. d \notin mine
      BY <2>1, <1>1
    <2>3. QED
      BY <2>1, <2>2, <1>1
  <1>8. HolderGood'
    BY <1>1, <1>2 DEF TokenInv, HolderGood, HasReread
  <1>9. QED
    BY <1>4, <1>5, <1>6, <1>7, <1>8

TokenSafe == LockInv /\ Bounded /\ RefreshedOnce /\ KeychainGood /\ HolderGood

LEMMA NextTokenInv == TokenInv /\ [Next]_vars => TokenInv'
  <1> SUFFICES ASSUME TokenInv, [Next]_vars PROVE TokenInv'
    OBVIOUS
  <1>0. Typed'
    BY NextTyped DEF TokenInv
  <1>1. ASSUME NEW c \in Callers, GetAccessToken(c) \/ ForceRefresh(c) PROVE TokenSafe'
    BY <1>1, QuietSafe DEF TokenSafe
  <1>2. ASSUME NEW c \in Callers, Step(c) PROVE TokenSafe'
    BY <1>2, ReadSafe, CheckSafe, RecheckSafe, RefreshedSafe, RefreshFailsSafe,
       WriteBackSafe DEF Step, TokenSafe
  <1>3. ASSUME NEW p \in Procs, SnapshotAges(p) \/ Crash(p) PROVE TokenSafe'
    BY <1>3, QuietSafe, CrashSafe DEF TokenSafe
  <1>4. ASSUME TimePasses \/ Login PROVE TokenSafe'
    BY <1>4, QuietSafe, LoginSafe DEF TokenSafe
  <1>5. ASSUME UNCHANGED vars PROVE TokenSafe'
    BY <1>5 DEF TokenInv, LockInv, Bounded, RefreshedOnce, KeychainGood, HolderGood,
                HasReread, TokenSafe, vars
  <1>6. TokenSafe'
    BY <1>1, <1>2, <1>3, <1>4, <1>5 DEF Next
  <1>7. QED
    BY <1>0, <1>6 DEF TokenInv, TokenSafe

\* No refresh is sent with a token that another refresh has consumed, unless
\* the answer to that one was lost: the lock and the second look at the entry
\* keep any number of goroutines in any number of processes from it.
THEOREM OneRefresh == Spec => []RefreshedOnce
  <1>1. TokenInv => RefreshedOnce
    BY DEF TokenInv
  <1>2. QED
    BY <1>1, InitTokenInv, NextTokenInv, PTL DEF Spec

\* The keychain holds a refresh token that can still be used, or that the
\* holder of the lock is about to replace, or whose successor was lost.
THEOREM EntryGood == Spec => []KeychainGood
  <1>1. TokenInv => KeychainGood
    BY DEF TokenInv
  <1>2. QED
    BY <1>1, InitTokenInv, NextTokenInv, PTL DEF Spec

(***************************************************************************)
(* The age of what GetAccessToken returns.                                 *)
(***************************************************************************)

\* A token is written back before it expires.
WriteUsable == \A c \in Callers : pc[c] = "write" => Usable(creds[c].a)

AgeInv == Typed /\ WriteUsable

\* The call of c that ends answers with a token only if the token is usable.
AnswersUsable(c) ==
  pc'[c] = "idle" /\ answer'.route = "local" => age[answer'.token] # "expired"

LEMMA ResultUsable ==
  ASSUME NEW c \in Callers, NEW t, Result(c, t).route = "local"
  PROVE  t # 0 /\ Result(c, t).token = t
  BY DEF Result, FallBack, Failure

\* What a step of a caller changes.
LEMMA StepChanges ==
  ASSUME Typed, NEW c \in Callers, Step(c)
  PROVE  /\ \A d \in Callers \ {c} : pc'[d] = pc[d] /\ creds'[d] = creds[d]
         /\ pc'[c] = "write" => Refreshed(c)
         /\ Refreshed(c) \/ RefreshFails(c) \/ UNCHANGED age
  <1>1. Typed /\ TypeOK
    BY DEF Typed
  <1>2. ASSUME NEW outcome, Ends(c, outcome)
        PROVE  /\ pc'[c] = "idle"
               /\ \A d \in Callers \ {c} : pc'[d] = pc[d] /\ creds'[d] = creds[d]
    BY <1>1, <1>2 DEF TypeOK, Ends
  <1>3. CASE ReadSnapshot(c) \/ StoreSnapshot(c)
    BY <1>1, <1>3 DEF TypeOK, ReadSnapshot, StoreSnapshot, Goes, serverVars
  <1>4. CASE ReadKeychain(c)
    BY <1>1, <1>2, <1>4 DEF TypeOK, ReadKeychain, Goes, serverVars
  <1>5. CASE CheckExpiry(c) \/ Lock(c)
    BY <1>1, <1>2, <1>5 DEF TypeOK, CheckExpiry, Lock, Goes, serverVars
  <1>6. CASE Recheck(c)
    BY <1>1, <1>2, <1>6 DEF TypeOK, Recheck, Fails, serverVars
  <1>7. CASE Refreshed(c)
    BY <1>1, <1>7 DEF TypeOK, Refreshed, Goes
  <1>8. CASE RefreshFails(c)
    BY <1>1, <1>2, <1>8 DEF RefreshFails, Fails
  <1>9. CASE WriteBack(c)
    BY <1>1, <1>2, <1>9 DEF WriteBack, serverVars
  <1>10. QED
    BY <1>3, <1>4, <1>5, <1>6, <1>7, <1>8, <1>9 DEF Step

\* A new token is fresh, and no other changes.
LEMMA IssuedFresh ==
  ASSUME Typed, NEW r, NEW rotates \in BOOLEAN, Issues(r, rotates)
  PROVE  /\ age'[issued + 1] = "fresh"
         /\ \A t \in Tokens : Usable(t) => Usable(t)'
  <1>1. issued + 1 \in Tokens
    BY ClaudeAssumption DEF Typed, TypeOK, Issues, Tokens
  <1>2. QED
    BY <1>1 DEF Typed, TypeOK, Issues, Usable

LEMMA NextWriteUsable ==
  ASSUME AgeInv, [Next]_vars
  PROVE  WriteUsable'
  <1>t. Typed /\ TypeOK
    BY DEF AgeInv, Typed
  <1>a. \A c \in Callers : pc[c] = "write" => creds[c].a \in Tokens
    BY <1>t DEF Typed, Shaped, Creds
  <1>1. ASSUME NEW c \in Callers, GetAccessToken(c) \/ ForceRefresh(c)
        PROVE  WriteUsable'
    BY <1>1, <1>t DEF AgeInv, WriteUsable, TypeOK, GetAccessToken, ForceRefresh,
                      serverVars, Usable
  <1>2. ASSUME NEW c \in Callers, Step(c)
        PROVE  WriteUsable'
    <2>1. /\ \A d \in Callers \ {c} : pc'[d] = pc[d] /\ creds'[d] = creds[d]
          /\ pc'[c] = "write" => Refreshed(c)
          /\ Refreshed(c) \/ RefreshFails(c) \/ UNCHANGED age
      BY <1>2, <1>t, StepChanges
    <2>2. \A t \in Tokens : Usable(t) => Usable(t)'
      BY <2>1, <1>t, IssuedFresh DEF Refreshed, RefreshFails, Usable, serverVars
    <2>3. Refreshed(c) => Usable(creds[c].a)'
      <3> SUFFICES ASSUME Refreshed(c) PROVE Usable(creds[c].a)'
        OBVIOUS
      <3>1. age'[issued + 1] = "fresh" /\ creds'[c].a = issued + 1
        BY <1>t, IssuedFresh DEF TypeOK, Refreshed
      <3>2. QED
        BY <3>1 DEF Usable
    <2>4. ASSUME NEW d \in Callers, pc'[d] = "write" PROVE Usable(creds[d].a)'
      <3>1. CASE d = c
        BY <3>1, <2>1, <2>3, <2>4
      <3>2. CASE d # c
        <4>1. pc[d] = "write" /\ creds'[d] = creds[d]
          BY <3>2, <2>1, <2>4
        <4>2. Usable(creds[d].a) /\ creds[d].a \in Tokens
          BY <4>1, <1>a DEF AgeInv, WriteUsable
        <4>3. QED
          BY <4>1, <4>2, <2>2 DEF Usable
      <3>3. QED
        BY <3>1, <3>2
    <2>5. QED
      BY <2>4 DEF WriteUsable
  <1>3. ASSUME NEW p \in Procs, SnapshotAges(p) PROVE WriteUsable'
    BY <1>3 DEF AgeInv, WriteUsable, SnapshotAges, callerVars, serverVars, Usable
  <1>4. ASSUME NEW p \in Procs, Crash(p) PROVE WriteUsable'
    BY <1>4, <1>t DEF AgeInv, WriteUsable, TypeOK, Crash, serverVars, Usable
  <1>5. ASSUME TimePasses PROVE WriteUsable'
    <2>1. ASSUME NEW c \in Callers, pc[c] = "write"
          PROVE  age'[creds[c].a] = "near"
      BY <1>5, <1>a, <2>1 DEF TimePasses
    <2>2. QED
      BY <1>5, <2>1 DEF WriteUsable, TimePasses, callerVars, Usable
  <1>6. ASSUME Login PROVE WriteUsable'
    <2>1. issued + 1 \in Tokens
      BY <1>6, <1>t, ClaudeAssumption DEF TypeOK, Login, Tokens
    <2>2. \A t \in Tokens : Usable(t) => Usable(t)'
      BY <1>6, <1>t, <2>1 DEF TypeOK, Login, Usable
    <2>3. UNCHANGED <<pc, creds>>
      BY <1>6 DEF Login, callerVars
    <2>4. QED
      BY <2>2, <2>3, <1>a DEF AgeInv, WriteUsable, Usable
  <1>7. ASSUME UNCHANGED vars PROVE WriteUsable'
    BY <1>7 DEF AgeInv, WriteUsable, vars, Usable
  <1>8. QED
    BY <1>1, <1>2, <1>3, <1>4, <1>5, <1>6, <1>7 DEF Next

\* Each way a call can end.
LEMMA EndAnswers ==
  ASSUME Typed, NEW c \in Callers, NEW t, Ends(c, Result(c, t)),
         t # 0 => age[t] # "expired"
  PROVE  AnswersUsable(c)
  <1>1. answer' = Result(c, t)
    BY DEF Ends
  <1>2. QED
    BY <1>1, ResultUsable DEF AnswersUsable

LEMMA FailsAnswers ==
  ASSUME Typed, NEW c \in Callers, Fails(c)
  PROVE  AnswersUsable(c)
  <1> DEFINE t == IF creds[c].a # 0 /\ Usable(creds[c].a) THEN creds[c].a ELSE 0
  <1>1. Ends(c, Result(c, t))
    BY DEF Fails
  <1>2. t # 0 => age[t] # "expired"
    BY DEF Usable
  <1> HIDE DEF t
  <1>3. QED
    BY <1>1, <1>2, EndAnswers

LEMMA StepAnswers ==
  ASSUME AgeInv, NEW c \in Callers, Step(c)
  PROVE  AnswersUsable(c)
  <1>t. Typed /\ TypeOK
    BY DEF AgeInv, Typed
  <1>0. ASSUME Ends(c, Result(c, 0)) PROVE AnswersUsable(c)
    BY <1>0, <1>t, EndAnswers
  <1>g. ASSUME NEW at \in PC \ {"idle"}, Goes(c, at) PROVE AnswersUsable(c)
    BY <1>g, <1>t DEF TypeOK, Goes, AnswersUsable
  <1>1. CASE ReadSnapshot(c) \/ StoreSnapshot(c)
    BY <1>1, <1>g DEF ReadSnapshot, StoreSnapshot, PC
  <1>2. CASE ReadKeychain(c)
    BY <1>2, <1>0, <1>g DEF ReadKeychain, PC
  <1>3. CASE CheckExpiry(c)
    <2>1. Fresh(creds[c].a) => age[creds[c].a] # "expired"
      BY DEF Fresh
    <2>2. QED
      BY <1>3, <1>g, <1>t, <2>1, EndAnswers DEF CheckExpiry, PC
  <1>4. CASE Lock(c)
    BY <1>4, <1>0, <1>g DEF Lock, PC
  <1>5. CASE Recheck(c)
    <2>1. CASE Fresh(creds[c].a) /\ Ends(c, Result(c, creds[c].a))
      BY <2>1, <1>t, EndAnswers DEF Fresh
    <2>2. CASE Fails(c)
      BY <2>2, <1>t, FailsAnswers
    <2>3. CASE pc' = [pc EXCEPT ![c] = "refresh"]
      BY <2>3, <1>t DEF TypeOK, AnswersUsable
    <2>4. QED
      BY <1>5, <2>1, <2>2, <2>3 DEF Recheck
  <1>6. CASE Refreshed(c)
    BY <1>6, <1>g DEF Refreshed, PC
  <1>7. CASE RefreshFails(c)
    BY <1>7, <1>t, FailsAnswers DEF RefreshFails
  <1>8. CASE WriteBack(c)
    <2>1. age[creds[c].a] # "expired"
      BY <1>8 DEF WriteBack, AgeInv, WriteUsable, Usable
    <2>2. CASE Ends(c, Result(c, creds[c].a))
      BY <2>1, <2>2, <1>t, EndAnswers
    <2>3. CASE Ends(c, [route |-> "refreshed", token |-> 0])
      BY <2>3 DEF Ends, AnswersUsable
    <2>4. QED
      BY <1>8, <2>2, <2>3 DEF WriteBack
  <1>9. QED
    BY <1>1, <1>2, <1>3, <1>4, <1>5, <1>6, <1>7, <1>8 DEF Step

\* What a step must not do, as ReturnsUnexpired has it.
Unexpired ==
  \A c \in Callers :
    pc[c] \notin {"idle", pc'[c]} /\ pc'[c] = "idle" /\ answer'.route = "local"
      => age[answer'.token] # "expired"

LEMMA NextUnexpired ==
  ASSUME AgeInv, [Next]_vars
  PROVE  Unexpired
  <1>t. Typed /\ TypeOK
    BY DEF AgeInv, Typed
  <1>1. ASSUME NEW c \in Callers, GetAccessToken(c) \/ ForceRefresh(c)
        PROVE  Unexpired
    BY <1>1, <1>t DEF TypeOK, GetAccessToken, ForceRefresh, Failure, Unexpired
  <1>2. ASSUME NEW c \in Callers, Step(c) PROVE Unexpired
    <2>1. \A d \in Callers \ {c} : pc'[d] = pc[d]
      BY <1>2, <1>t, StepChanges
    <2>2. AnswersUsable(c)
      BY <1>2, StepAnswers
    <2>3. QED
      BY <2>1, <2>2 DEF Unexpired, AnswersUsable
  <1>3. ASSUME NEW p \in Procs, SnapshotAges(p) PROVE Unexpired
    BY <1>3 DEF SnapshotAges, callerVars, Unexpired
  <1>4. ASSUME NEW p \in Procs, Crash(p) PROVE Unexpired
    BY <1>4 DEF Crash, Failure, Unexpired
  <1>5. ASSUME TimePasses \/ Login \/ UNCHANGED vars PROVE Unexpired
    BY <1>5 DEF TimePasses, Login, callerVars, vars, Unexpired
  <1>6. QED
    BY <1>1, <1>2, <1>3, <1>4, <1>5 DEF Next

\* Whatever call of GetAccessToken ends, and however, a token it returns has
\* not expired: not one of a stale snapshot, not one that aged while the
\* caller waited for the lock, and not one that could not be refreshed.
THEOREM NothingExpired == Spec => ReturnsUnexpired
  <1>1. Init => AgeInv
    <2>1. Init => WriteUsable
      BY DEF Init, WriteUsable
    <2>2. QED
      BY <2>1, InitTyped DEF AgeInv
  <1>2. AgeInv /\ [Next]_vars => AgeInv'
    BY NextTyped, NextWriteUsable DEF AgeInv
  <1>3. AgeInv /\ [Next]_vars => [Unexpired]_vars
    BY NextUnexpired
  <1>4. QED
    BY <1>1, <1>2, <1>3, PTL DEF Spec, ReturnsUnexpired, Unexpired

==============================================================================
