--------------------------- MODULE FileTokensProofs ---------------------------
(***************************************************************************)
(* Theorems about FileTokens, for any number of goroutines and tokens.     *)
(***************************************************************************)
EXTENDS FileTokens, TLAPS

PC == {"idle", "ask", "sent", "join", "ok", "fail", "reload"}
AnyToken == 0 .. MaxToken

MemTyped(m) == m.a \in AnyToken /\ m.r \in AnyToken /\ m.exp \in Ages

\* The types of the variables, as far as the proofs need them; no token is used
\* before it is issued, and one that is issued later is fresh.
Typed ==
  /\ kind \in Kinds
  /\ mem \in [a : AnyToken, r : AnyToken, exp : Ages]
  /\ file \in [a : AnyToken, r : AnyToken] /\ adc \in AnyToken
  /\ pc \in [Actors -> PC] /\ sent \in [Actors -> AnyToken]
  /\ held \in [Callers -> [a : AnyToken, exp : Ages]]
  /\ issued \in Tokens /\ age \in [Tokens -> Ages]
  /\ mem.r <= issued /\ file.r <= issued /\ adc <= issued
  /\ mem.a <= issued /\ file.a <= issued
  /\ \A c \in Callers : held[c].a <= issued
  /\ \A c \in Actors : sent[c] <= issued
  /\ replaced \subseteq 1 .. issued
  /\ \A t \in Tokens : t > issued => age[t] = "fresh"

\* One refresh is under way, and a token that was replaced is at hand only if
\* the file brought it back.
SentInv ==
  /\ \A c, d \in Actors : pc[c] = "sent" /\ pc[d] = "sent" => c = d
  /\ \A c \in Actors : pc[c] = "sent" => sent[c] # 0
  /\ SentOnce
  /\ mem.r \in replaced => mem.r \in putBack

\* The expiry that goes with a token is not later than the token's own.
Honest(a, exp) ==
  a # 0 => \/ a \in guessed
           \/ exp = "expired"
           \/ exp = "near" /\ age[a] # "expired"
           \/ exp = "fresh" /\ age[a] = "fresh"

\* What a caller will return.
AgeInv ==
  /\ Honest(mem.a, mem.exp)
  /\ \A c \in Callers : Honest(held[c].a, held[c].exp)
  /\ \A c \in Callers : pc[c] = "ok" => c \in raced \/ Unexpired(mem.a)

Inv == Typed /\ SentInv /\ AgeInv

(***************************************************************************)
(* Loading the file.                                                       *)
(***************************************************************************)
LEMMA LoadedTyped ==
  ASSUME Typed, NEW m \in [a : AnyToken, r : AnyToken, exp : Ages], m.r <= issued,
         m.a <= issued
  PROVE  /\ Loaded(m) \in [a : AnyToken, r : AnyToken, exp : Ages]
         /\ Loaded(m).r <= issued /\ Loaded(m).a <= issued
  <1>1. CASE kind = "codex" \/ file.r # 0
    <2>1. FileExpiry(kind, file.a) \in Ages
      BY FileTokensAssumption DEF FileExpiry, Typed, Ages, AnyToken, Tokens
    <2>2. Loaded(m) = [a |-> file.a, r |-> file.r, exp |-> FileExpiry(kind, file.a)]
      BY <1>1 DEF Loaded
    <2>3. QED
      BY <2>1, <2>2 DEF Typed
  <1>2. CASE kind = "gemini" /\ file.r = 0 /\ adc # 0
    <2>1. Loaded(m) = [a |-> m.a, r |-> adc, exp |-> "expired"]
      BY <1>2 DEF Loaded
    <2>2. QED
      BY <2>1 DEF Typed, Ages
  <1>3. CASE kind = "gemini" /\ file.r = 0 /\ adc = 0
    <2>1. Loaded(m) = m
      BY <1>3 DEF Loaded
    <2>2. QED
      BY <2>1
  <1>4. QED
    BY <1>1, <1>2, <1>3 DEF Typed, Kinds

LEMMA LoadGood ==
  ASSUME Typed, NEW m \in [a : AnyToken, r : AnyToken, exp : Ages], Load(m),
         m.r \in replaced => m.r \in putBack, Honest(m.a, m.exp), 0 \notin replaced,
         UNCHANGED <<replaced, age>>
  PROVE  /\ putBack \subseteq putBack' /\ guessed \subseteq guessed'
         /\ mem'.r \in replaced => mem'.r \in putBack'
         /\ Honest(mem.a, mem.exp)'
  <1>0. mem' = Loaded(m)
    BY DEF Load
  <1>1. putBack \subseteq putBack' /\ guessed \subseteq guessed'
    BY DEF Load
  <1>2. mem'.r \in replaced => mem'.r \in putBack'
    <2>1. CASE Loadable
      BY <1>0, <2>1 DEF Load
    <2>2. CASE ~Loadable /\ kind = "codex"
      <3>1. mem'.r = 0
        BY <1>0, <2>2 DEF Loadable, Loaded, Typed, AnyToken
      <3>2. QED
        BY <3>1
    <2>3. CASE ~Loadable /\ kind # "codex"
      BY <1>0, <1>1, <2>3 DEF Loadable, Loaded
    <2>4. QED
      BY <2>1, <2>2, <2>3
  <1>3. Honest(mem.a, mem.exp)'
    <2>1. CASE kind = "codex"
      <3>1. mem'.a = file.a /\ (file.a # 0 => file.a \in guessed')
        BY <1>0, <2>1 DEF Load, Loaded, Loadable
      <3>2. QED
        BY <3>1 DEF Honest
    <2>2. CASE kind = "gemini" /\ file.r # 0
      <3>1. /\ mem'.a = file.a
            /\ mem'.exp = IF file.a = 0 THEN "expired" ELSE age[file.a]
        BY <1>0, <2>2 DEF Loaded, FileExpiry
      <3>2. file.a # 0 => age[file.a] \in Ages
        BY FileTokensAssumption DEF Typed, AnyToken, Tokens
      <3>3. QED
        BY <3>1, <3>2 DEF Honest, Ages
    <2>3. CASE kind = "gemini" /\ file.r = 0
      <3>1. mem' = m \/ mem'.exp = "expired"
        BY <1>0, <2>3 DEF Loaded
      <3>2. QED
        BY <3>1, <1>1 DEF Honest
    <2>4. QED
      BY <2>1, <2>2, <2>3 DEF Typed, Kinds
  <1>4. QED
    BY <1>1, <1>2, <1>3

LEMMA EmptyTyped ==
  /\ Empty \in [a : AnyToken, r : AnyToken, exp : Ages]
  /\ Empty.a = 0 /\ Empty.r = 0
  BY FileTokensAssumption DEF Empty, AnyToken, Ages

LEMMA AtStartTyped ==
  ASSUME NEW m
  PROVE  /\ AtStart(m) \in [Actors -> PC]
         /\ \A c \in Actors : AtStart(m)[c] \notin {"sent", "ok"}
  BY DEF AtStart, PC

LEMMA NoHeldTyped == NoHeld \in [a : AnyToken, exp : Ages] /\ NoHeld.a = 0
  BY FileTokensAssumption DEF NoHeld, AnyToken, Ages

LEMMA InitInv == Init => Inv
  <1> SUFFICES ASSUME Init PROVE Inv
    OBVIOUS
  <1>1. /\ kind \in Kinds /\ issued \in Tokens /\ issued \in {1, 2}
        /\ file \in [a : AnyToken, r : AnyToken] /\ adc \in AnyToken
        /\ file.r <= issued /\ file.a <= issued /\ adc <= issued
    BY FileTokensAssumption DEF Init, Tokens, AnyToken
  <1>2. age \in [Tokens -> Ages] /\ \A t \in Tokens : t > issued => age[t] = "fresh"
    BY <1>1 DEF Init, Tokens
  <1>3. FileExpiry(kind, file.a) \in Ages
    BY <1>1, <1>2, FileTokensAssumption DEF FileExpiry, Ages, AnyToken, Tokens
  <1>4. /\ mem \in [a : AnyToken, r : AnyToken, exp : Ages]
        /\ mem.r <= issued /\ mem.a <= issued
    <2>1. CASE kind = "codex" \/ file.r # 0
      <3>1. mem = [a |-> file.a, r |-> file.r, exp |-> FileExpiry(kind, file.a)]
        BY <2>1 DEF Init, Loaded
      <3>2. QED
        BY <1>1, <1>3, <3>1
    <2>2. CASE kind = "gemini" /\ file.r = 0 /\ adc # 0
      <3>1. mem = [a |-> 0, r |-> adc, exp |-> "expired"]
        BY <2>2 DEF Init, Loaded, Empty
      <3>2. QED
        BY <1>1, <3>1, FileTokensAssumption DEF Ages, AnyToken
    <2>3. CASE kind = "gemini" /\ file.r = 0 /\ adc = 0
      <3>1. mem = Empty
        BY <2>3 DEF Init, Loaded
      <3>2. QED
        BY <1>1, <3>1, EmptyTyped
    <2>4. QED
      BY <1>1, <2>1, <2>2, <2>3 DEF Kinds
  <1>5. pc \in [Actors -> PC] /\ \A c \in Actors : pc[c] \notin {"sent", "ok"}
    BY AtStartTyped DEF Init
  <1>6. Typed
    BY <1>1, <1>2, <1>4, <1>5, NoHeldTyped, FileTokensAssumption
       DEF Init, Typed, AnyToken, Tokens
  <1>7. SentInv
    BY <1>5 DEF Init, SentInv, SentOnce
  <1>8. Honest(mem.a, mem.exp)
    <2>1. CASE kind = "codex"
      BY <2>1 DEF Init, Loaded, Honest
    <2>2. CASE kind = "gemini" /\ file.r # 0
      <3>1. mem.a = file.a /\ mem.exp = IF file.a = 0 THEN "expired" ELSE age[file.a]
        BY <2>2 DEF Init, Loaded, FileExpiry
      <3>2. file.a # 0 => age[file.a] \in Ages
        BY <1>1, <1>2, FileTokensAssumption DEF AnyToken, Tokens
      <3>3. QED
        BY <3>1, <3>2 DEF Honest, Ages
    <2>3. CASE kind = "gemini" /\ file.r = 0
      <3>1. mem.a = 0
        BY <2>3 DEF Init, Loaded, Empty
      <3>2. QED
        BY <3>1 DEF Honest
    <2>4. QED
      BY <1>1, <2>1, <2>2, <2>3 DEF Kinds
  <1>9. AgeInv
    <2>1. \A c \in Callers : pc[c] # "ok" /\ Honest(held[c].a, held[c].exp)
      BY <1>5, NoHeldTyped DEF Init, Honest, Actors
    <2>2. QED
      BY <1>8, <2>1 DEF AgeInv
  <1>10. QED
    BY <1>6, <1>7, <1>9 DEF Inv

(***************************************************************************)
(* The refresh.                                                            *)
(***************************************************************************)
LEMMA ResultsChange ==
  ASSUME Typed, NEW leader \in Actors, NEW ok \in BOOLEAN, Results(leader, ok)
  PROVE  /\ pc' \in [Actors -> PC] /\ sent' \in [Actors -> AnyToken]
         /\ \A c \in Actors : sent'[c] <= issued
         /\ \A c \in Actors : pc'[c] = "sent" =>
              pc[c] = "sent" /\ c # leader /\ sent'[c] = sent[c]
         /\ \A c \in Callers : pc'[c] = "ok" => pc[c] = "ok" \/ ok
  <1>1. \A c \in Actors : After(c, ok) \in PC \ {"sent"}
    BY DEF After, PC
  <1>2. \A c \in Callers : After(c, ok) = "ok" => ok
    BY FileTokensAssumption DEF After
  <1>3. /\ pc' = [c \in Actors |->
                    IF c = leader \/ pc[c] = "join" THEN After(c, ok) ELSE pc[c]]
        /\ sent' = [sent EXCEPT ![leader] = 0]
    BY DEF Results
  <1>4. 0 \in AnyToken /\ 0 <= issued
    BY FileTokensAssumption DEF Typed, AnyToken, Tokens
  <1>5. pc' \in [Actors -> PC]
    BY <1>1, <1>3 DEF Typed
  <1>6. sent' \in [Actors -> AnyToken] /\ \A c \in Actors : sent'[c] <= issued
    BY <1>3, <1>4 DEF Typed
  <1>7. \A c \in Actors : pc'[c] = "sent" =>
          pc[c] = "sent" /\ c # leader /\ sent'[c] = sent[c]
    BY <1>1, <1>3 DEF Typed
  <1>8. \A c \in Callers : pc'[c] = "ok" => pc[c] = "ok" \/ ok
    BY <1>2, <1>3 DEF Actors
  <1>9. QED
    BY <1>5, <1>6, <1>7, <1>8

\* Nothing but the places of the goroutines and what they sent has changed.
LEMMA SameTokens ==
  ASSUME AgeInv, UNCHANGED <<mem, age, guessed>>, raced \subseteq raced',
         \A c \in Callers : Honest(held'[c].a, held'[c].exp) \/ held'[c] = held[c],
         \A c \in Callers : pc'[c] = "ok" => pc[c] = "ok"
  PROVE  AgeInv'
  BY DEF AgeInv, Honest, Unexpired

LEMMA AskInv ==
  ASSUME Inv, NEW c \in Actors, Ask(c)
  PROVE  Inv'
  <1>0. Typed /\ SentInv /\ AgeInv
    BY DEF Inv
  <1>1. UNCHANGED <<mem, held, kind, file, adc, issued, age, refused, replaced,
                    putBack, guessed, raced>>
    BY DEF Ask, NoAnswer, worldVars, reloadVars
  <1>2. CASE /\ Leads(c) /\ mem.r # 0
             /\ pc' = [pc EXCEPT ![c] = "sent"]
             /\ sent' = [sent EXCEPT ![c] = mem.r]
    <2>1. Typed'
      BY <1>0, <1>1, <1>2 DEF Typed, PC
    <2>2. /\ pc'[c] = "sent" /\ sent'[c] = mem.r
          /\ \A d \in Actors \ {c} : pc'[d] # "sent"
      BY <1>0, <1>2 DEF Typed, Leads
    <2>3. SentInv'
      BY <1>0, <1>1, <1>2, <2>2 DEF SentInv, SentOnce
    <2>4. \A d \in Callers : pc'[d] = "ok" => pc[d] = "ok"
      BY <1>0, <1>2 DEF Typed, Actors
    <2>5. AgeInv'
      BY <1>0, <1>1, <2>4, SameTokens
    <2>6. QED
      BY <2>1, <2>3, <2>5 DEF Inv
  <1>3. CASE Results(c, FALSE)
    <2>1. /\ pc' \in [Actors -> PC] /\ sent' \in [Actors -> AnyToken]
          /\ \A d \in Actors : sent'[d] <= issued
          /\ \A d \in Actors : pc'[d] = "sent" => pc[d] = "sent" /\ sent'[d] = sent[d]
          /\ \A d \in Callers : pc'[d] = "ok" => pc[d] = "ok"
      BY <1>0, <1>3, ResultsChange
    <2>2. Typed'
      BY <1>0, <1>1, <2>1 DEF Typed
    <2>3. SentInv'
      BY <1>0, <1>1, <2>1 DEF SentInv, SentOnce
    <2>4. AgeInv'
      BY <1>0, <1>1, <2>1, SameTokens
    <2>5. QED
      BY <2>2, <2>3, <2>4 DEF Inv
  <1>4. CASE pc' = [pc EXCEPT ![c] = "join"] /\ UNCHANGED <<sent, again>>
    <2>1. Typed'
      BY <1>0, <1>1, <1>4 DEF Typed, PC
    <2>2. \A d \in Actors : pc'[d] \in {pc[d], "join"}
      BY <1>0, <1>4 DEF Typed
    <2>3. SentInv'
      BY <1>0, <1>1, <1>4, <2>2 DEF SentInv, SentOnce
    <2>4. AgeInv'
      BY <1>0, <1>1, <2>2, SameTokens DEF Actors
    <2>5. QED
      BY <2>1, <2>3, <2>4 DEF Inv
  <1>5. QED
    BY <1>2, <1>3, <1>4 DEF Ask

\* The token that was sent is replaced while nobody else has sent one, and
\* what is in memory is then the new one.
LEMMA AnsweredInv ==
  ASSUME Inv, NEW c \in Actors, Answered(c)
  PROVE  Inv'
  <1>0. Typed /\ SentInv /\ AgeInv
    BY DEF Inv
  <1>1. PICK rotates \in BOOLEAN, life \in {"fresh", "near"}, stated \in BOOLEAN :
          /\ mem' = [a |-> issued + 1, r |-> IF rotates THEN issued + 1 ELSE mem.r,
                     exp |-> IF stated THEN life ELSE "fresh"]
          /\ age' = [age EXCEPT ![issued + 1] = life]
          /\ guessed' = IF stated THEN guessed ELSE guessed \cup {issued + 1}
          /\ replaced' = IF rotates THEN replaced \cup {sent[c]} ELSE replaced
          /\ putBack' = IF rotates THEN putBack \ {sent[c]} ELSE putBack
    BY DEF Answered, Rotates
  <1>2. /\ pc[c] = "sent" /\ issued' = issued + 1 /\ Results(c, TRUE)
        /\ UNCHANGED <<kind, file, adc, held, raced>>
    BY DEF Answered
  <1>3. issued + 1 \in Tokens /\ issued + 1 \in AnyToken /\ issued \in Nat
    BY <1>0, FileTokensAssumption DEF Answered, Grants, Typed, Tokens, AnyToken
  <1>4. /\ pc' \in [Actors -> PC] /\ sent' \in [Actors -> AnyToken]
        /\ \A d \in Actors : sent'[d] <= issued
        /\ \A d \in Actors : pc'[d] # "sent"
    <2>1. \A d \in Actors : pc[d] = "sent" => d = c
      BY <1>0, <1>2 DEF SentInv
    <2>2. QED
      BY <1>0, <1>2, <2>1, ResultsChange
  <1>5. sent[c] \in 1 .. issued
    BY <1>0, <1>2, <1>3 DEF Typed, SentInv, AnyToken
  <1>6. Typed'
    <2>1. /\ mem' \in [a : AnyToken, r : AnyToken, exp : Ages]
          /\ mem'.r <= issued + 1 /\ mem'.a <= issued + 1
      BY <1>0, <1>1, <1>3 DEF Typed, Ages, AnyToken
    <2>2. replaced' \subseteq 1 .. issued + 1
      <3>1. replaced' \subseteq 1 .. issued
        BY <1>0, <1>1, <1>5 DEF Typed
      <3>2. QED
        BY <3>1, <1>3
    <2>3. /\ file.r <= issued + 1 /\ file.a <= issued + 1 /\ adc <= issued + 1
          /\ \A d \in Actors : sent'[d] <= issued + 1
          /\ \A d \in Callers : held[d].a <= issued + 1
      BY <1>0, <1>3, <1>4 DEF Typed, AnyToken
    <2>4. /\ age' \in [Tokens -> Ages]
          /\ \A t \in Tokens : t > issued + 1 => age'[t] = "fresh"
      BY <1>0, <1>1, <1>3 DEF Typed, Tokens, Ages
    <2>5. QED
      BY <1>0, <1>2, <1>3, <1>4, <2>1, <2>2, <2>3, <2>4 DEF Typed
  <1>7. SentInv'
    <2>1. mem'.r \in replaced' => mem'.r \in putBack'
      <3>1. CASE rotates
        <4>1. mem'.r = issued + 1
          BY <1>1, <3>1
        <4>2. issued + 1 \notin replaced'
          BY <1>0, <1>1, <1>3, <1>5 DEF Typed
        <4>3. QED
          BY <4>1, <4>2
      <3>2. CASE ~rotates
        BY <1>0, <1>1, <3>2 DEF SentInv
      <3>3. QED
        BY <3>1, <3>2
    <2>2. QED
      BY <1>4, <2>1 DEF SentInv, SentOnce
  <1>8. AgeInv'
    <2>1. age'[issued + 1] = life /\ \A t \in 1 .. issued : age'[t] = age[t]
      BY <1>0, <1>1, <1>3 DEF Typed, Tokens
    <2>2. mem'.a = issued + 1 /\ mem'.exp = IF stated THEN life ELSE "fresh"
      BY <1>1
    <2>3. Honest(mem.a, mem.exp)'
      BY <1>1, <2>1, <2>2 DEF Honest
    <2>4. Unexpired(mem.a)'
      BY <1>3, <2>1, <2>2 DEF Unexpired
    <2>5. ASSUME NEW d \in Callers PROVE Honest(held[d].a, held[d].exp)'
      <3>1. held[d].a # 0 => held[d].a \in 1 .. issued
        BY <1>0, <1>3 DEF Typed, AnyToken
      <3>2. QED
        BY <1>0, <1>1, <1>2, <2>1, <3>1 DEF AgeInv, Honest
    <2>6. QED
      BY <2>3, <2>4, <2>5 DEF AgeInv
  <1>9. QED
    BY <1>6, <1>7, <1>8 DEF Inv

LEMMA FailedInv ==
  ASSUME Inv, NEW c \in Actors, Failed(c)
  PROVE  Inv'
  <1>0. Typed /\ SentInv /\ AgeInv
    BY DEF Inv
  <1>1. /\ UNCHANGED <<mem, held, kind, file, adc, issued, age, replaced, putBack,
                       guessed, raced>>
        /\ Results(c, FALSE)
    BY DEF Failed, NoAnswer, reloadVars
  <1>2. /\ pc' \in [Actors -> PC] /\ sent' \in [Actors -> AnyToken]
        /\ \A d \in Actors : sent'[d] <= issued
        /\ \A d \in Actors : pc'[d] = "sent" => pc[d] = "sent" /\ sent'[d] = sent[d]
        /\ \A d \in Callers : pc'[d] = "ok" => pc[d] = "ok"
    BY <1>0, <1>1, ResultsChange
  <1>3. Typed'
    BY <1>0, <1>1, <1>2 DEF Typed
  <1>4. SentInv'
    BY <1>0, <1>1, <1>2 DEF SentInv, SentOnce
  <1>5. AgeInv'
    BY <1>0, <1>1, <1>2, SameTokens
  <1>6. QED
    BY <1>3, <1>4, <1>5 DEF Inv

(***************************************************************************)
(* GetAccessToken.                                                         *)
(***************************************************************************)
LEMMA GetInv ==
  ASSUME Inv, NEW c \in Callers, GetAccessToken(c) \/ Return(c)
  PROVE  Inv'
  <1>0. Typed /\ SentInv /\ AgeInv /\ c \in Actors
    BY DEF Inv, Actors
  <1>1. UNCHANGED <<mem, sent, kind, file, adc, issued, age, replaced, putBack, guessed>>
    BY DEF GetAccessToken, Return, ReturnRefreshed, ReturnHeld, worldVars, reloadVars
  <1>2. /\ pc' \in [Actors -> PC]
        /\ pc'[c] \notin {"sent", "ok"} \/ pc' = pc
        /\ \A d \in Actors \ {c} : pc'[d] = pc[d]
    BY <1>0 DEF Typed, GetAccessToken, Return, ReturnRefreshed, ReturnHeld, PC
  <1>3. pc' = pc => pc[c] = "idle"
    BY <1>0 DEF Typed, GetAccessToken, Return, ReturnRefreshed, ReturnHeld
  <1>4. /\ held' \in [Callers -> [a : AnyToken, exp : Ages]]
        /\ \A d \in Callers : held'[d].a <= issued
    <2>1. /\ [a |-> mem.a, exp |-> mem.exp] \in [a : AnyToken, exp : Ages]
          /\ mem.a <= issued /\ 0 <= issued
      BY <1>0, FileTokensAssumption DEF Typed, Tokens
    <2>2. \/ held' = [held EXCEPT ![c] = NoHeld]
          \/ held' = [held EXCEPT ![c] = [a |-> mem.a, exp |-> mem.exp]]
      BY DEF GetAccessToken, Return, ReturnRefreshed, ReturnHeld, Returns
    <2>3. QED
      BY <1>0, <2>1, <2>2, NoHeldTyped DEF Typed
  <1>5. \A d \in Callers : Honest(held'[d].a, held'[d].exp)
    <2> SUFFICES ASSUME NEW d \in Callers PROVE Honest(held'[d].a, held'[d].exp)
      OBVIOUS
    <2>1. \/ held' = [held EXCEPT ![c] = NoHeld]
          \/ held' = [held EXCEPT ![c] = [a |-> mem.a, exp |-> mem.exp]]
      BY DEF GetAccessToken, Return, ReturnRefreshed, ReturnHeld, Returns
    <2>2. held'[d] \in {held[d], NoHeld, [a |-> mem.a, exp |-> mem.exp]}
      BY <1>0, <2>1 DEF Typed
    <2>3. CASE held'[d] = held[d]
      BY <1>0, <2>3 DEF AgeInv
    <2>4. CASE held'[d] = NoHeld
      BY <2>4, NoHeldTyped DEF Honest
    <2>5. CASE held'[d] = [a |-> mem.a, exp |-> mem.exp]
      BY <1>0, <2>5 DEF AgeInv
    <2>6. QED
      BY <2>2, <2>3, <2>4, <2>5
  <1>6. \A d \in Callers \ {c} : d \in raced => d \in raced'
    BY DEF GetAccessToken, Return, ReturnRefreshed, ReturnHeld, Returns
  <1>7. Typed'
    BY <1>0, <1>1, <1>2, <1>4 DEF Typed
  <1>8. SentInv'
    BY <1>0, <1>1, <1>2, <1>3 DEF SentInv, SentOnce
  <1>9. AgeInv'
    <2>1. ASSUME NEW d \in Callers, pc'[d] = "ok" PROVE d \in raced' \/ Unexpired(mem.a)'
      <3>1. d # c /\ pc[d] = "ok"
        BY <1>2, <1>3, <2>1 DEF Actors
      <3>2. QED
        BY <1>0, <1>1, <1>6, <3>1 DEF AgeInv, Unexpired
    <2>2. Honest(mem.a, mem.exp)'
      BY <1>0, <1>1 DEF AgeInv, Honest
    <2>3. \A d \in Callers : Honest(held[d].a, held[d].exp)'
      BY <1>1, <1>5 DEF Honest
    <2>4. QED
      BY <2>1, <2>2, <2>3 DEF AgeInv
  <1>10. QED
    BY <1>7, <1>8, <1>9 DEF Inv

(***************************************************************************)
(* The loop.                                                               *)
(***************************************************************************)

\* Loading lets go of the callers that have not returned yet.
LEMMA LoadInv ==
  ASSUME Inv, Load(mem), pc' \in [Actors -> PC],
         \A c \in Actors : pc'[c] = "sent" => pc[c] = "sent",
         \A c \in Callers : pc'[c] = "ok" => pc[c] = "ok",
         raced' = raced \cup {c \in Callers : pc[c] = "ok"},
         UNCHANGED <<kind, file, adc, issued, age, held, sent, replaced>>
  PROVE  Inv'
  <1>0. Typed /\ SentInv /\ AgeInv
    BY DEF Inv
  <1>1. 0 \notin replaced /\ mem \in [a : AnyToken, r : AnyToken, exp : Ages]
        /\ mem.r <= issued /\ mem.a <= issued
    BY <1>0 DEF Typed
  <1>2. /\ mem' \in [a : AnyToken, r : AnyToken, exp : Ages]
        /\ mem'.r <= issued /\ mem'.a <= issued
    BY <1>0, <1>1, LoadedTyped DEF Load
  <1>3. /\ putBack \subseteq putBack' /\ guessed \subseteq guessed'
        /\ mem'.r \in replaced => mem'.r \in putBack'
        /\ Honest(mem.a, mem.exp)'
    BY <1>0, <1>1, LoadGood DEF SentInv, AgeInv
  <1>4. Typed'
    BY <1>0, <1>2 DEF Typed
  <1>5. SentInv'
    BY <1>0, <1>3 DEF SentInv, SentOnce
  <1>6. AgeInv'
    <2>1. \A c \in Callers : pc'[c] = "ok" => c \in raced'
      OBVIOUS
    <2>2. \A c \in Callers : Honest(held[c].a, held[c].exp)'
      BY <1>0, <1>3 DEF AgeInv, Honest
    <2>3. QED
      BY <1>3, <2>1, <2>2 DEF AgeInv
  <1>7. QED
    BY <1>4, <1>5, <1>6 DEF Inv

LEMMA LoopInv ==
  ASSUME Inv, LoopStep
  PROVE  Inv'
  <1>0. Typed /\ SentInv /\ AgeInv /\ Loop \in Actors /\ Loop \notin Callers
    BY FileTokensAssumption DEF Inv, Actors
  <1>1. UNCHANGED <<kind, file, adc, issued, age, held, sent, replaced>>
    BY DEF LoopStep, Tick, Reload, worldVars
  <1>2. CASE /\ Load(mem) /\ UNCHANGED pc
             /\ raced' = raced \cup {c \in Callers : pc[c] = "ok"}
    BY <1>0, <1>1, <1>2, LoadInv DEF Typed
  <1>3. CASE /\ pc' = [pc EXCEPT ![Loop] = "ask"]
             /\ UNCHANGED <<mem, putBack, guessed, raced>>
    <2>1. /\ pc' \in [Actors -> PC] /\ \A c \in Actors : pc'[c] \in {pc[c], "ask"}
      BY <1>0, <1>3 DEF Typed, PC
    <2>2. Typed'
      BY <1>0, <1>1, <1>3, <2>1 DEF Typed
    <2>3. SentInv'
      BY <1>0, <1>1, <1>3, <2>1 DEF SentInv, SentOnce
    <2>4. AgeInv'
      BY <1>0, <1>1, <1>3, <2>1, SameTokens DEF Actors
    <2>5. QED
      BY <2>2, <2>3, <2>4 DEF Inv
  <1>4. CASE Reload
    <2>1. PICK at \in {"ask", "idle"} : pc' = [pc EXCEPT ![Loop] = at]
      BY <1>4 DEF Reload
    <2>2. /\ pc' \in [Actors -> PC] /\ \A c \in Actors : pc'[c] \in {pc[c], at}
      BY <1>0, <2>1 DEF Typed, PC
    <2>3. /\ \A c \in Actors : pc'[c] = "sent" => pc[c] = "sent"
          /\ \A c \in Callers : pc'[c] = "ok" => pc[c] = "ok"
      BY <2>1, <2>2 DEF Actors
    <2>4. QED
      BY <1>1, <1>4, <2>2, <2>3, LoadInv DEF Reload
  <1>5. QED
    BY <1>2, <1>3, <1>4 DEF LoopStep, Tick

(***************************************************************************)
(* The environment.                                                        *)
(***************************************************************************)
LEMMA OlderHonest ==
  ASSUME Typed, NEW a \in AnyToken, NEW exp \in Ages, Honest(a, exp), TimePasses
  PROVE  \/ a = 0 \/ a \in guessed'
         \/ Older(exp) = "expired"
         \/ Older(exp) = "near" /\ age'[a] # "expired"
  <1>0. UNCHANGED guessed
    BY DEF TimePasses, NoAnswer, reloadVars
  <1> SUFFICES ASSUME a # 0, a \notin guessed
               PROVE  \/ Older(exp) = "expired"
                      \/ Older(exp) = "near" /\ age'[a] # "expired"
    BY <1>0
  <1>1. a \in Tokens /\ age[a] \in Ages
    BY FileTokensAssumption DEF Typed, AnyToken, Tokens
  <1>2. age'[a] \in {Older(age[a]), age[a]}
    BY <1>1 DEF TimePasses
  <1>3. CASE exp = "fresh"
    <2>1. age[a] = "fresh"
      BY <1>3 DEF Honest
    <2>2. QED
      BY <1>2, <1>3, <2>1 DEF Older
  <1>4. CASE exp # "fresh"
    BY <1>4 DEF Older
  <1>5. QED
    BY <1>3, <1>4

LEMMA TimeInv ==
  ASSUME Inv, TimePasses
  PROVE  Inv'
  <1>0. Typed /\ SentInv /\ AgeInv
    BY DEF Inv
  <1>1. UNCHANGED <<kind, file, adc, pc, sent, issued, replaced, putBack, guessed, raced>>
    BY DEF TimePasses, NoAnswer, reloadVars
  <1>2. \A e \in Ages : Older(e) \in Ages
    BY DEF Older, Ages
  <1>3. mem' = [mem EXCEPT !.exp = Older(@)]
        /\ held' = [c \in Callers |-> [held[c] EXCEPT !.exp = Older(@)]]
    BY DEF TimePasses
  <1>4. /\ mem' \in [a : AnyToken, r : AnyToken, exp : Ages]
        /\ mem'.a = mem.a /\ mem'.r = mem.r /\ mem'.exp = Older(mem.exp)
    BY <1>0, <1>2, <1>3 DEF Typed
  <1>5. /\ held' \in [Callers -> [a : AnyToken, exp : Ages]]
        /\ \A c \in Callers :
             held'[c].a = held[c].a /\ held'[c].exp = Older(held[c].exp)
    BY <1>0, <1>2, <1>3 DEF Typed
  <1>6. age' \in [Tokens -> Ages] /\ \A t \in Tokens : t > issued => age'[t] = "fresh"
    <2>1. age' = [t \in Tokens |-> IF t <= issued THEN Older(age[t]) ELSE age[t]]
      BY DEF TimePasses
    <2>2. age' \in [Tokens -> Ages]
      BY <1>0, <1>2, <2>1 DEF Typed
    <2>3. \A t \in Tokens : t > issued => ~(t <= issued)
      BY <1>0 DEF Typed, Tokens
    <2>4. QED
      BY <1>0, <2>1, <2>2, <2>3 DEF Typed
  <1>7. Typed'
    BY <1>0, <1>1, <1>4, <1>5, <1>6 DEF Typed
  <1>8. SentInv'
    BY <1>0, <1>1, <1>4 DEF SentInv, SentOnce
  <1>9. AgeInv'
    <2>1. Honest(mem.a, mem.exp)'
      <3>1. mem.a \in AnyToken /\ mem.exp \in Ages /\ Honest(mem.a, mem.exp)
        BY <1>0 DEF Typed, AgeInv
      <3>2. QED
        BY <1>0, <1>4, <3>1, OlderHonest DEF Honest
    <2>2. ASSUME NEW c \in Callers PROVE Honest(held[c].a, held[c].exp)'
      <3>1. /\ held[c].a \in AnyToken /\ held[c].exp \in Ages
            /\ Honest(held[c].a, held[c].exp)
        BY <1>0 DEF Typed, AgeInv
      <3>2. QED
        BY <1>0, <1>5, <3>1, OlderHonest DEF Honest
    <2>3. \A c \in Callers : pc'[c] # "ok"
      BY <1>1 DEF TimePasses
    <2>4. QED
      BY <2>1, <2>2, <2>3 DEF AgeInv
  <1>10. QED
    BY <1>7, <1>8, <1>9 DEF Inv

LEMMA LoginInv ==
  ASSUME Inv, Login \/ Revoke
  PROVE  Inv'
  <1>0. Typed /\ SentInv /\ AgeInv
    BY DEF Inv
  <1>1. UNCHANGED <<kind, adc, age, mem, pc, held, sent, putBack, guessed, raced>>
    BY DEF Login, Revoke, managerVars, NoAnswer, reloadVars
  <1>2. UNCHANGED replaced
    BY DEF Login, Revoke, NoAnswer, reloadVars
  <1>3. SentInv' /\ AgeInv'
    BY <1>0, <1>1, <1>2 DEF SentInv, SentOnce, AgeInv, Honest, Unexpired
  <1>4. CASE Revoke
    BY <1>0, <1>1, <1>2, <1>3, <1>4 DEF Revoke, Typed, Inv
  <1>5. CASE Login
    <2>1. /\ issued' = issued + 1 /\ issued \in Nat /\ issued + 1 \in Tokens
          /\ file' = [a |-> issued + 1, r |-> issued + 1] /\ issued + 1 \in AnyToken
      BY <1>0, <1>5, FileTokensAssumption DEF Login, Typed, Tokens, AnyToken
    <2>2. /\ mem.r <= issued + 1 /\ mem.a <= issued + 1 /\ adc <= issued + 1
          /\ \A c \in Actors : sent[c] <= issued + 1
          /\ \A c \in Callers : held[c].a <= issued + 1
      BY <1>0, <2>1 DEF Typed, AnyToken
    <2>3. replaced \subseteq 1 .. issued + 1
      BY <1>0, <2>1 DEF Typed
    <2>4. \A t \in Tokens : t > issued + 1 => age[t] = "fresh"
      BY <1>0, <2>1 DEF Typed, Tokens
    <2>5. Typed'
      BY <1>0, <1>1, <1>2, <2>1, <2>2, <2>3, <2>4 DEF Typed
    <2>6. QED
      BY <1>3, <2>5 DEF Inv
  <1>6. QED
    BY <1>4, <1>5

\* A process that is started again has nothing but the file.
LEMMA RestartInv ==
  ASSUME Inv, Restart
  PROVE  Inv'
  <1>0. Typed /\ SentInv /\ AgeInv
    BY DEF Inv
  <1>1. /\ Load(Empty) /\ pc' = AtStart(mem')
        /\ held' = [c \in Callers |-> NoHeld]
        /\ sent' = [c \in Actors |-> 0]
        /\ UNCHANGED <<kind, file, adc, issued, age, replaced>>
    BY DEF Restart, worldVars
  <1>2. 0 \notin replaced /\ 0 <= issued /\ 0 \in AnyToken
    BY <1>0, FileTokensAssumption DEF Typed, Tokens, AnyToken
  <1>3. /\ mem' \in [a : AnyToken, r : AnyToken, exp : Ages]
        /\ mem'.r <= issued /\ mem'.a <= issued
    BY <1>0, <1>1, <1>2, EmptyTyped, LoadedTyped DEF Load
  <1>4. /\ mem'.r \in replaced => mem'.r \in putBack'
        /\ Honest(mem.a, mem.exp)'
    <2>1. Honest(Empty.a, Empty.exp) /\ Empty.r \notin replaced
      BY <1>2, EmptyTyped DEF Honest
    <2>2. QED
      BY <1>0, <1>1, <1>2, <2>1, EmptyTyped, LoadGood
  <1>5. pc' \in [Actors -> PC] /\ \A c \in Actors : pc'[c] \notin {"sent", "ok"}
    BY <1>1, AtStartTyped
  <1>6. Typed'
    BY <1>0, <1>1, <1>2, <1>3, <1>5, NoHeldTyped DEF Typed
  <1>7. SentInv'
    BY <1>1, <1>4, <1>5 DEF SentInv, SentOnce
  <1>8. AgeInv'
    <2>1. \A c \in Callers : held'[c].a = 0 /\ pc'[c] # "ok"
      BY <1>1, <1>5, NoHeldTyped DEF Actors
    <2>2. QED
      BY <1>4, <2>1 DEF AgeInv, Honest
  <1>9. QED
    BY <1>6, <1>7, <1>8 DEF Inv

LEMMA NextInv == Inv /\ [Next]_vars => Inv'
  <1> SUFFICES ASSUME Inv, [Next]_vars PROVE Inv'
    OBVIOUS
  <1>1. ASSUME NEW c \in Actors, Step(c) PROVE Inv'
    BY <1>1, AskInv, AnsweredInv, FailedInv DEF Step
  <1>2. ASSUME UNCHANGED vars PROVE Inv'
    BY <1>2 DEF Inv, Typed, SentInv, SentOnce, AgeInv, Honest, Unexpired, vars,
                managerVars, worldVars, ghosts
  <1>3. QED
    BY <1>1, <1>2, GetInv, LoopInv, TimeInv, LoginInv, RestartInv DEF Next

(***************************************************************************)
(* Theorems.                                                               *)
(***************************************************************************)

\* No goroutine sends a refresh token that the process has replaced, unless
\* the file brought it back: the refresh that all join, and the order in which
\* its answer is written to memory and let go, keep the loop, the callers and
\* the refresh at start from it, also across restarts.
THEOREM OneSends == Spec => []SentOnce
  <1>1. Inv => SentOnce
    BY DEF Inv, SentInv
  <1>2. QED
    BY <1>1, InitInv, NextInv, PTL DEF Spec

\* What GetAccessToken must not return, as ReturnsUnexpired has it.
Answers ==
  \A c \in Callers :
    /\ ReturnRefreshed(c) => Unexpired(answer') \/ c \in raced
    /\ (GetAccessToken(c) \/ ReturnHeld(c)) => answer' = 0 \/ Unexpired(answer')

\* GetAccessToken never answers with a token that has expired, other than in
\* the cases the property names: the recorded expiry of a token whose lifetime
\* the code was told is never later than the token's own, in memory and in
\* what a caller holds while it waits.
THEOREM NothingExpired == Spec => ReturnsUnexpired
  <1>1. ASSUME Inv PROVE Answers
    <2> SUFFICES ASSUME NEW c \in Callers
                 PROVE  /\ ReturnRefreshed(c) => Unexpired(answer') \/ c \in raced
                        /\ (GetAccessToken(c) \/ ReturnHeld(c))
                             => answer' = 0 \/ Unexpired(answer')
      BY DEF Answers
    <2>0. /\ Honest(mem.a, mem.exp) /\ Honest(held[c].a, held[c].exp)
          /\ pc[c] = "ok" => c \in raced \/ Unexpired(mem.a)
      BY <1>1 DEF Inv, AgeInv
    <2>1. ASSUME ReturnRefreshed(c) PROVE Unexpired(answer') \/ c \in raced
      BY <2>0, <2>1 DEF ReturnRefreshed, Returns
    <2>2. ASSUME GetAccessToken(c) PROVE answer' = 0 \/ Unexpired(answer')
      <3>1. answer' = 0 \/ (answer' = mem.a /\ mem.exp = "fresh")
        BY <2>2 DEF GetAccessToken, Returns
      <3>2. QED
        BY <2>0, <3>1 DEF Honest, Unexpired
    <2>3. ASSUME ReturnHeld(c) PROVE answer' = 0 \/ Unexpired(answer')
      <3>1. answer' = 0 \/ (answer' = held[c].a /\ held[c].exp # "expired")
        BY <2>3 DEF ReturnHeld, Returns, StillGood
      <3>2. QED
        BY <2>0, <3>1 DEF Honest, Unexpired
    <2>4. QED
      BY <2>1, <2>2, <2>3
  <1>2. Inv => [Answers]_vars
    BY <1>1
  <1>3. QED
    BY <1>2, InitInv, NextInv, PTL DEF Spec, ReturnsUnexpired, Answers

==============================================================================
