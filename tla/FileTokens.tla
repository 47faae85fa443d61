------------------------------ MODULE FileTokens ------------------------------
(***************************************************************************)
(* OAuth tokens that another program keeps in a file: Codex                *)
(* (pkg/token/codex_auth.go) and Gemini (pkg/token/gemini_auth.go).  The   *)
(* proxy loads the file into memory, refreshes in memory only and never    *)
(* writes the file.  One refresh at a time is under way in the process,    *)
(* whoever needs one joins it; a loop refreshes ahead of the expiry, and   *)
(* loads the file again when that fails.                                   *)
(*                                                                         *)
(* Tokens are numbered as the provider issues them; 0 is no token.  The    *)
(* age of an access token is what the code tells apart: fresh, near its    *)
(* end (in the margin of five minutes), expired.  The expiry the manager   *)
(* records is such an age, and need not be the token's.                    *)
(***************************************************************************)
EXTENDS Integers, FiniteSets

CONSTANTS
  Callers,   \* goroutines that call GetAccessToken
  Starter,   \* the refresh at start
  Loop,      \* refreshLoop
  MaxToken   \* bound: tokens issued

ASSUME FileTokensAssumption ==
  /\ MaxToken \in Nat /\ MaxToken >= 2
  /\ Starter # Loop /\ {Starter, Loop} \cap Callers = {}

Tokens == 1 .. MaxToken
Actors == Callers \cup {Starter, Loop}
Kinds == {"codex", "gemini"}
Ages == {"fresh", "near", "expired"}

VARIABLES
  kind,      \* which of the two managers
  mem,       \* its accessToken, refreshToken and recorded expiry
  file, adc, \* the file of the program; the refresh token of gcloud's file
  pc,        \* where each goroutine is
  held,      \* the access token and expiry GetAccessToken read at first
  sent,      \* the refresh token that the leader of a refresh has sent
  again,     \* the loop refreshes again after it loaded the file
  \* The provider:
  issued, age, refused,
  \* For the properties:
  answer,    \* the token GetAccessToken returned in the last step; 0: none
  replaced,  \* refresh tokens that a refresh of this machine replaced
  putBack,   \* those of them that were loaded from the file again
  guessed,   \* access tokens whose expiry was assumed: of a Codex file, or of
             \* an answer without a lifetime
  raced      \* callers whose refreshed token the loop replaced by the file's

managerVars == <<mem, pc, held, sent, again>>
worldVars == <<kind, file, adc, issued, age, refused>>
ghosts == <<answer, replaced, putBack, guessed, raced>>
reloadVars == <<replaced, putBack, guessed>>
vars == <<managerVars, worldVars, ghosts>>

NoAnswer == answer' = 0 /\ UNCHANGED <<reloadVars, raced>>

NoHeld == [a |-> 0, exp |-> "expired"]
------------------------------------------------------------------------------
(* loadFromFile.                                                            *)

\* Mutant: the recorded expiry of a Gemini token is trusted to be there.
FileExpiryUnchecked(k, a) == "fresh"

\* A Codex file has no expiry: half an hour is assumed.  Gemini's has one; if
\* it is missing or past, the token counts as expired.
FileExpiry(k, a) ==
  IF k = "codex" THEN "fresh" ELSE IF a = 0 THEN "expired" ELSE age[a]

\* What loading makes of the memory: the file, for Gemini with a refresh token
\* only; gcloud's file replaces the refresh token alone.
Loadable == IF kind = "codex" THEN file.a # 0 \/ file.r # 0
            ELSE file.r # 0 \/ adc # 0
Loaded(m) ==
  CASE kind = "codex" \/ file.r # 0 ->
         [a |-> file.a, r |-> file.r, exp |-> FileExpiry(kind, file.a)]
    [] kind = "gemini" /\ file.r = 0 /\ adc # 0 ->
         [a |-> m.a, r |-> adc, exp |-> "expired"]
    [] OTHER -> m

Load(m) ==
  /\ mem' = Loaded(m)
  /\ putBack' = IF Loadable THEN putBack \cup ({Loaded(m).r} \cap replaced)
                ELSE putBack
  /\ guessed' = IF kind = "codex" /\ Loadable THEN guessed \cup {file.a} ELSE guessed

Empty == [a |-> 0, r |-> 0, exp |-> "expired"]

\* The constructor: load, and refresh at once; Gemini only if the token has
\* expired, and before anything else runs.
AtStart(m) ==
  [c \in Actors |->
     IF c = Starter /\ m.r # 0 /\ (kind = "codex" \/ m.exp = "expired")
     THEN "ask" ELSE "idle"]

Init ==
  /\ kind \in Kinds
  /\ file \in [a : {0, 1}, r : {0, 1}]
  /\ adc \in IF kind = "gemini" THEN {0, 2} ELSE {0}
  /\ issued = (IF adc = 2 THEN 2 ELSE 1) /\ refused = {}
  /\ age \in [Tokens -> Ages] /\ \A t \in Tokens \ {1} : age[t] = "fresh"
  /\ mem = Loaded(Empty) /\ pc = AtStart(mem)
  /\ held = [c \in Callers |-> NoHeld]
  /\ sent = [c \in Actors |-> 0]
  /\ again = FALSE
  /\ answer = 0 /\ replaced = {} /\ putBack = {} /\ raced = {}
  /\ guessed = IF kind = "codex" THEN {file.a} ELSE {}

Started == kind = "gemini" => pc[Starter] = "idle"

------------------------------------------------------------------------------
(* refresh: the group lets one request be under way.                        *)

\* Mutant: every goroutine sends its own request.
LeadsAlways(c) == TRUE

Leads(c) == \A d \in Actors : pc[d] # "sent"

\* Where a goroutine goes on when the refresh it led or joined has ended.
After(c, ok) ==
  CASE c = Starter -> "idle"
    [] c = Loop -> IF ok \/ again THEN "idle" ELSE "reload"
    [] OTHER -> IF ok THEN "ok" ELSE "fail"

\* The result reaches the leader and all who joined.
Results(leader, ok) ==
  /\ pc' = [c \in Actors |->
              IF c = leader \/ pc[c] = "join" THEN After(c, ok) ELSE pc[c]]
  /\ again' = (again /\ ~(leader = Loop \/ pc[Loop] = "join"))
  /\ sent' = [sent EXCEPT ![leader] = 0]

Ask(c) ==
  /\ pc[c] = "ask"
  /\ \/ /\ Leads(c) /\ mem.r # 0
        /\ pc' = [pc EXCEPT ![c] = "sent"]
        /\ sent' = [sent EXCEPT ![c] = mem.r]
        /\ UNCHANGED again
     \/ /\ Leads(c) /\ mem.r = 0
        /\ Results(c, FALSE)
     \/ /\ ~Leads(c)
        /\ pc' = [pc EXCEPT ![c] = "join"]
        /\ UNCHANGED <<sent, again>>
  /\ NoAnswer /\ UNCHANGED <<mem, held, worldVars>>

Grants(r) == r \notin refused /\ issued < MaxToken

\* Codex' provider may replace the refresh token, Google does not.
Rotates == IF kind = "codex" THEN BOOLEAN ELSE {FALSE}

\* The provider answers with a token and, mostly, with its lifetime, which may
\* be shorter than the margin; if it does not say one, an hour is assumed.  The
\* answer is written to memory whatever was loaded in the meantime.
Answered(c) ==
  /\ pc[c] = "sent" /\ Grants(sent[c])
  /\ \E rotates \in Rotates, life \in {"fresh", "near"}, stated \in BOOLEAN :
       /\ mem' = [a |-> issued + 1, r |-> IF rotates THEN issued + 1 ELSE mem.r,
                  exp |-> IF stated THEN life ELSE "fresh"]
       /\ age' = [age EXCEPT ![issued + 1] = life]
       /\ guessed' = IF stated THEN guessed ELSE guessed \cup {issued + 1}
       /\ refused' = IF rotates THEN refused \cup {sent[c]} ELSE refused
       /\ replaced' = IF rotates THEN replaced \cup {sent[c]} ELSE replaced
       /\ putBack' = IF rotates THEN putBack \ {sent[c]} ELSE putBack
  /\ issued' = issued + 1
  /\ Results(c, TRUE)
  /\ answer' = 0 /\ UNCHANGED <<kind, file, adc, held, raced>>

\* The provider refuses, or there is no answer: the network, the time-out, or
\* the leader's request was cancelled, which fails all who joined.  The
\* provider may have replaced the token nevertheless.
Failed(c) ==
  /\ pc[c] = "sent"
  /\ refused' \in IF Grants(sent[c]) /\ TRUE \in Rotates
                  THEN {refused, refused \cup {sent[c]}} ELSE {refused}
  /\ Results(c, FALSE)
  /\ NoAnswer /\ UNCHANGED <<mem, held, kind, file, adc, issued, age>>

------------------------------------------------------------------------------
(* GetAccessToken.                                                          *)

Returns(c, t) ==
  /\ answer' = t
  /\ held' = [held EXCEPT ![c] = NoHeld]
  /\ raced' = raced \ {c}

GetAccessToken(c) ==
  /\ pc[c] = "idle" /\ Started
  /\ IF mem.a # 0 /\ mem.exp = "fresh"
     THEN Returns(c, mem.a) /\ UNCHANGED pc
     ELSE /\ pc' = [pc EXCEPT ![c] = "ask"]
          /\ held' = [held EXCEPT ![c] = [a |-> mem.a, exp |-> mem.exp]]
          /\ answer' = 0 /\ UNCHANGED raced
  /\ UNCHANGED <<mem, sent, again, worldVars, reloadVars>>

\* After a refresh the memory is read again, and not looked at.
ReturnRefreshed(c) ==
  /\ pc[c] = "ok"
  /\ Returns(c, mem.a)
  /\ pc' = [pc EXCEPT ![c] = "idle"]
  /\ UNCHANGED <<mem, sent, again, worldVars, reloadVars>>

StillGood(h) == h.a # 0 /\ h.exp # "expired"

ReturnHeld(c) ==
  /\ pc[c] = "fail"
  /\ Returns(c, IF StillGood(held[c]) THEN held[c].a ELSE 0)
  /\ pc' = [pc EXCEPT ![c] = "idle"]
  /\ UNCHANGED <<mem, sent, again, worldVars, reloadVars>>

------------------------------------------------------------------------------
(* refreshLoop.                                                             *)

\* Every minute.  Codex loads the file when a token is missing, Gemini does
\* nothing without a refresh token.
Tick ==
  /\ pc[Loop] = "idle" /\ Started
  /\ \/ /\ kind = "codex" /\ (mem.r = 0 \/ mem.a = 0)
        /\ Load(mem)
        /\ raced' = raced \cup {c \in Callers : pc[c] = "ok"}
        /\ UNCHANGED pc
     \/ /\ mem.r # 0 /\ (kind = "codex" => mem.a # 0)
        /\ mem.exp # "fresh"
        /\ pc' = [pc EXCEPT ![Loop] = "ask"]
        /\ UNCHANGED <<mem, putBack, guessed, raced>>
  /\ answer' = 0 /\ UNCHANGED <<held, sent, again, worldVars, replaced>>

\* Mutant: a failed refresh is left to the next tick.
ReloadNothing ==
  /\ pc[Loop] = "reload"
  /\ pc' = [pc EXCEPT ![Loop] = "idle"]
  /\ NoAnswer /\ UNCHANGED <<mem, held, sent, again, worldVars>>

\* After a failed refresh: the user may have logged in again.  Gemini then
\* tries once more.
Reload ==
  /\ pc[Loop] = "reload"
  /\ Load(mem)
  /\ raced' = raced \cup {c \in Callers : pc[c] = "ok"}
  /\ again' = (kind = "gemini" /\ Loadable)
  /\ pc' = [pc EXCEPT ![Loop] = IF again' THEN "ask" ELSE "idle"]
  /\ answer' = 0 /\ UNCHANGED <<held, sent, worldVars, replaced>>

------------------------------------------------------------------------------
(* The environment.                                                         *)

\* Minutes pass; less than the margin while a refreshed token is returned.
Older(e) == CASE e = "fresh" -> "near" [] OTHER -> "expired"
TimePasses ==
  /\ \A c \in Callers : pc[c] # "ok"
  /\ age' = [t \in Tokens |-> IF t <= issued THEN Older(age[t]) ELSE age[t]]
  /\ mem' = [mem EXCEPT !.exp = Older(@)]
  /\ held' = [c \in Callers |-> [held[c] EXCEPT !.exp = Older(@)]]
  /\ <<age, mem>>' # <<age, mem>>
  /\ NoAnswer /\ UNCHANGED <<kind, file, adc, pc, sent, again, issued, refused>>

\* The user logs in with the program, or the program refreshes its file; the
\* refresh token it had is then replaced.  An account may be revoked.
Login ==
  /\ issued < MaxToken
  /\ issued' = issued + 1
  /\ file' = [a |-> issued + 1, r |-> issued + 1]
  /\ \/ UNCHANGED <<refused, replaced>>
     \/ /\ file.r # 0 /\ file.r \notin refused
        /\ refused' = refused \cup {file.r}
        /\ UNCHANGED replaced
  /\ answer' = 0 /\ UNCHANGED <<kind, adc, age, managerVars, putBack, guessed, raced>>

Revoke ==
  /\ kind = "gemini" /\ mem.r # 0 /\ mem.r \notin refused
  /\ refused' = refused \cup {mem.r}
  /\ NoAnswer /\ UNCHANGED <<kind, file, adc, issued, age, managerVars>>

\* The process ends and is started again.
Restart ==
  /\ Load(Empty) /\ pc' = AtStart(mem')
  /\ held' = [c \in Callers |-> NoHeld]
  /\ sent' = [c \in Actors |-> 0]
  /\ again' = FALSE /\ answer' = 0 /\ raced' = {}
  /\ UNCHANGED <<worldVars, replaced>>

Step(c) == Ask(c) \/ Answered(c) \/ Failed(c)
Return(c) == ReturnRefreshed(c) \/ ReturnHeld(c)
LoopStep == Tick \/ Reload

Next ==
  \/ \E c \in Actors : Step(c)
  \/ \E c \in Callers : GetAccessToken(c) \/ Return(c)
  \/ LoopStep \/ TimePasses \/ Login \/ Revoke \/ Restart

Spec == Init /\ [][Next]_vars

\* The ticker ticks, requests end by their time-out, and time passes.
FairSpec ==
  /\ Spec
  /\ \A c \in Actors : WF_vars(Step(c))
  /\ \A c \in Callers : WF_vars(Return(c))
  /\ WF_vars(LoopStep) /\ WF_vars(TimePasses)

------------------------------------------------------------------------------
\* A refresh token that a refresh of the process has replaced is not sent
\* again, by whichever goroutines ask at the same time, unless the file, which
\* the proxy never updates, brought it back.
SentOnce ==
  \A c \in Actors :
    pc[c] = "sent" /\ sent[c] \in replaced => sent[c] \in putBack

Unexpired(t) == t # 0 /\ (age[t] # "expired" \/ t \in guessed)

\* GetAccessToken answers with a token that has not expired.  Exceptions: a
\* token whose expiry the code had to assume (half an hour for a Codex token
\* taken from the file, an hour for one that the provider gave no lifetime),
\* and a token that the loop took from the file after the caller's refresh had
\* succeeded.
ReturnsUnexpired ==
  [][\A c \in Callers :
       /\ ReturnRefreshed(c) => Unexpired(answer') \/ c \in raced
       /\ (GetAccessToken(c) \/ ReturnHeld(c)) => answer' = 0 \/ Unexpired(answer')]_vars

\* A refresh token that the provider refuses does not stay in memory while the
\* file has a good one: the loop comes to load it.
Usable(r) == r # 0 /\ r \notin refused
LoginPickedUp ==
  mem.r # 0 /\ ~Usable(mem.r) /\ Usable(file.r) ~> Usable(mem.r) \/ ~Usable(file.r)

==============================================================================
