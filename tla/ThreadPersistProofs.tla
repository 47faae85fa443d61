-------------------------- MODULE ThreadPersistProofs --------------------------
(***************************************************************************)
(* What becomes of a thread on its two ways to the store: through the      *)
(* sessions of amp's client (ThreadPersist) and, at the end of this        *)
(* module, through the browser's chat (ChatSocket).                        *)
(*                                                                         *)
(* ThreadPersist, for any number of sessions and runs and any thread to    *)
(* begin with: types, that no upload makes the store or amp's server       *)
(* forget an answer, and that an upload which is over has left its answer  *)
(* in the store.  Histories are compared by Below: one that has no more    *)
(* messages than another, and no answer that the other lacks.  The         *)
(* invariant says that versions follow the lengths of histories, or the    *)
(* version that a session found when it hydrated (Bounded), and that the   *)
(* current session is above the store and all uploads under way once it is *)
(* hydrated (WarmInv): then what it uploads next beats them all and has    *)
(* all their answers.                                                      *)
(***************************************************************************)
EXTENDS ThreadPersist, ChatSocket, SequenceTheorems, TLAPS

PC == {"none", "cold", "fetched", "warm", "check", "build", "local",
       "upstream", "done", "failed"}

\* A run may take any step: its record stays a run record.
LEMMA GoTypes ==
  ASSUME TypeOK, NEW r \in Runs, NEW pc \in PC, Go(r, pc)
  PROVE  run' \in [Runs -> RunRecord]
  <1>1. run \in [Runs -> RunRecord] /\ run[r] \in RunRecord
    BY DEF TypeOK
  <1>2. [run[r] EXCEPT !.pc = pc] \in RunRecord
    BY <1>1 DEF RunRecord, PC
  <1>3. QED
    BY <1>1, <1>2 DEF Go

\* A session's record stays one when its history is replaced.
LEMMA SessionTypes ==
  ASSUME TypeOK, NEW c \in Conns, NEW s \in SessionRecord,
         sess' = [sess EXCEPT ![c] = s]
  PROVE  sess' \in [Conns -> SessionRecord]
  BY DEF TypeOK

\* What a new session starts with.
LEMMA NewSessionTypes ==
  ASSUME NEW history \in Seq(Message)
  PROVE  NewSession(history) \in SessionRecord
  BY DEF NewSession, SessionRecord

\* Prompts and answers are messages.
LEMMA MessageTypes ==
  ASSUME NEW n \in 0 .. MaxRuns
  PROVE  Prompt(n) \in Message /\ Answer(n) \in Message
  BY DEF Prompt, Answer, Message

LEMMA NoThreadTypes == NoThread \in Version
  BY DEF NoThread, Version

LEMMA VersionFields ==
  ASSUME NEW version \in Version
  PROVE  version.v \in Nat /\ version.msgs \in Seq(Message)
  <1>1. CASE version = NoThread
    <2>1. <<>> \in Seq(Message)
      BY EmptySeq
    <2>2. QED
      BY <1>1, <2>1 DEF NoThread
  <1>2. CASE version \in [v : Nat, msgs : Seq(Message)]
    BY <1>2
  <1>3. QED
    BY <1>1, <1>2 DEF Version

LEMMA NoRunTypes == NoRun \in RunRecord
  <1>1. Prompt(0) \in Message
    BY MessageTypes, PersistAssumption
  <1>2. QED
    BY <1>1, NoThreadTypes, PersistAssumption DEF NoRun, RunRecord, Conns

LEMMA InitTypes == Init => TypeOK
  <1> SUFFICES ASSUME Init PROVE TypeOK
    OBVIOUS
  <1>1. store \in Version /\ upstream \in Version
    <2>1. PICK t \in Threads : store = t.store /\ upstream = t.upstream
      BY DEF Init
    <2>2. t \in [store : Version, upstream : Version]
      BY ThreadsAssumption
    <2>3. QED
      BY <2>1, <2>2
  <1>2. NewSession(<<>>) \in SessionRecord
    BY NewSessionTypes, EmptySeq
  <1>3. sess \in [Conns -> SessionRecord]
    BY <1>2 DEF Init
  <1>4. run \in [Runs -> RunRecord]
    BY NoRunTypes DEF Init
  <1>5. thread \in Seq(Message) /\ conns \in Conns /\ runs \in 0 .. MaxRuns
    BY PersistAssumption DEF Init, Conns
  <1>6. QED
    BY <1>1, <1>3, <1>4, <1>5 DEF Init, TypeOK

\* Every way to start a run keeps the types.
LEMMA StartTypes ==
  ASSUME TypeOK, NEW history \in Seq(Message), NEW prompt \in Message,
         StartRun(history, prompt), calm' \in BOOLEAN
  PROVE  TypeOK'
  <1>1. runs + 1 \in Runs /\ runs' \in 0 .. MaxRuns
    BY PersistAssumption DEF StartRun, TypeOK, Runs
  <1>2. conns \in Conns /\ sess[conns] \in SessionRecord
    BY DEF TypeOK
  <1>3. [NoRun EXCEPT !.pc = "cold", !.sess = conns, !.prompt = prompt,
                      !.needsHydrate = ~sess[conns].hydrated,
                      !.priorLocalLen = Len(history)] \in RunRecord
    <2>1. Len(history) \in Nat
      BY LenProperties
    <2>2. (~sess[conns].hydrated) \in BOOLEAN
      OBVIOUS
    <2>3. ASSUME NEW flag \in BOOLEAN, NEW n \in Nat
          PROVE  [NoRun EXCEPT !.pc = "cold", !.sess = conns, !.prompt = prompt,
                               !.needsHydrate = flag, !.priorLocalLen = n]
                   \in RunRecord
      BY <1>2, NoRunTypes DEF RunRecord
    <2>4. QED
      BY <2>1, <2>2, <2>3
  <1>4. run' \in [Runs -> RunRecord]
    BY <1>1, <1>3 DEF StartRun, TypeOK
  <1>5. sess' \in [Conns -> SessionRecord]
    <2>1. [sess[conns] EXCEPT !.history = history, !.hydrated = TRUE]
            \in SessionRecord
      BY <1>2 DEF SessionRecord
    <2>2. sess' = [sess EXCEPT ![conns] =
                     [sess[conns] EXCEPT !.history = history, !.hydrated = TRUE]]
      BY <1>2 DEF StartRun, TypeOK
    <2>3. QED
      BY <1>2, <2>1, <2>2, SessionTypes
  <1>6. QED
    BY <1>1, <1>4, <1>5 DEF StartRun, TypeOK

LEMMA ClientTypes == TypeOK /\ (Client \/ Restart) => TypeOK'
  <1> SUFFICES ASSUME TypeOK, Client \/ Restart PROVE TypeOK'
    OBVIOUS
  <1> DEFINE history == sess[conns].history
             prompt == Prompt(runs + 1)
  <1>1. history \in Seq(Message)
    BY DEF TypeOK, SessionRecord
  <1>2. runs < MaxRuns => prompt \in Message
    <2>1. runs < MaxRuns => runs + 1 \in 0 .. MaxRuns
      BY PersistAssumption DEF TypeOK
    <2>2. QED
      BY <2>1, MessageTypes
  <1>3. \A k \in 0 .. Len(history) : SubSeq(history, 1, k) \in Seq(Message)
    BY <1>1, SubSeqProperties
  <1>4. CASE ClientAppend
    <2>1. StartRun(Append(history, prompt), prompt) /\ calm' = calm
      BY <1>4 DEF ClientAppend
    <2>2. prompt \in Message
      BY <1>2, <2>1 DEF StartRun
    <2>3. Append(history, prompt) \in Seq(Message)
      BY <1>1, <2>2, AppendProperties
    <2>4. QED
      BY <2>1, <2>2, <2>3, StartTypes DEF TypeOK
  <1>5. CASE Retry
    <2>1. PICK k \in 1 .. Len(history) : StartRun(SubSeq(history, 1, k), history[k])
      BY <1>5 DEF Retry
    <2>2. history[k] \in Message
      BY <1>1, <2>1
    <2>3. SubSeq(history, 1, k) \in Seq(Message)
      BY <1>1, <1>3, <2>1, LenProperties
    <2>4. QED
      BY <1>5, <2>1, <2>2, <2>3, StartTypes DEF Retry
  <1>6. CASE Edit
    <2> DEFINE edited(k) == IF k = 0 THEN <<>>
                            ELSE Append(SubSeq(history, 1, k - 1), prompt)
    <2>1. PICK k \in 0 .. Len(history) : StartRun(edited(k), prompt)
      BY <1>6 DEF Edit
    <2>2. prompt \in Message
      BY <1>2, <2>1 DEF StartRun
    <2>3. edited(k) \in Seq(Message)
      <3>1. CASE k = 0
        BY <3>1
      <3>2. CASE k # 0
        <4>1. k - 1 \in 0 .. Len(history)
          BY <1>1, <3>2, LenProperties
        <4>2. SubSeq(history, 1, k - 1) \in Seq(Message)
          BY <4>1, <1>3
        <4>3. QED
          BY <3>2, <4>2, <2>2, AppendProperties
      <3>3. QED
        BY <3>1, <3>2
    <2> HIDE DEF edited
    <2>4. QED
      BY <1>6, <2>1, <2>2, <2>3, StartTypes DEF Edit
  <1>7. CASE Cancel
    <2>1. ASSUME NEW r \in Runs
          PROVE  [run[r] EXCEPT !.cancelled =
                    @ \/ (run[r].sess = conns /\ Executing(r))] \in RunRecord
      <3>1. run[r] \in RunRecord
        BY DEF TypeOK
      <3>2. (run[r].cancelled \/ (run[r].sess = conns /\ Executing(r))) \in BOOLEAN
        OBVIOUS
      <3>3. QED
        BY <3>1, <3>2 DEF RunRecord
    <2>2. run' \in [Runs -> RunRecord]
      BY <1>7, <2>1 DEF Cancel
    <2>3. QED
      BY <1>7, <2>2 DEF Cancel, sessVars, TypeOK
  <1>8. CASE DeleteThread
    BY <1>8, NoThreadTypes DEF DeleteThread, sessVars, TypeOK
  <1>9. CASE Connect
    <2>1. conns + 1 \in Conns /\ NewSession(thread) \in SessionRecord
      BY <1>9, NewSessionTypes, PersistAssumption DEF Connect, TypeOK, Conns
    <2>2. calm' \in BOOLEAN
      BY <1>9 DEF Connect
    <2>3. sess' \in [Conns -> SessionRecord]
      BY <1>9, <2>1, SessionTypes DEF Connect
    <2>4. QED
      BY <1>9, <2>1, <2>2, <2>3 DEF Connect, TypeOK
  <1>10. CASE Restart
    <2>1. conns + 1 \in Conns /\ NewSession(<<>>) \in SessionRecord
      <3>1. conns + 1 \in Conns
        BY <1>10, PersistAssumption DEF Restart, TypeOK, Conns
      <3>2. <<>> \in Seq(Message)
        BY EmptySeq
      <3>3. QED
        BY <3>1, <3>2, NewSessionTypes
    <2>2. sess' \in [Conns -> SessionRecord]
      BY <1>10, <2>1, SessionTypes DEF Restart
    <2>3. ASSUME NEW r \in Runs
          PROVE  [run[r] EXCEPT !.pc = "failed"] \in RunRecord /\ run[r] \in RunRecord
      BY DEF TypeOK, RunRecord
    <2>4. run' \in [Runs -> RunRecord]
      BY <1>10, <2>3 DEF Restart
    <2>5. QED
      BY <1>10, <2>1, <2>2, <2>4, EmptySeq DEF Restart, TypeOK
  <1>11. QED
    BY <1>4, <1>5, <1>6, <1>7, <1>8, <1>9, <1>10 DEF Client

LEMMA RunTypes ==
  ASSUME TypeOK, NEW r \in Runs, RunStep(r) PROVE TypeOK'
  <1> DEFINE c == run[r].sess
             s == sess[c]
  <1>1. run[r] \in RunRecord /\ c \in Conns /\ s \in SessionRecord
    BY DEF TypeOK, RunRecord
  <1>2. ASSUME NEW version \in Version, Fetched(r, version), calm' \in BOOLEAN
        PROVE  TypeOK'
    <2>1. version.v \in Nat /\ version.msgs \in Seq(Message)
      BY VersionFields
    <2>2. [run[r] EXCEPT !.pc = "fetched", !.got = version.msgs] \in RunRecord
      BY <1>1, <2>1 DEF RunRecord
    <2>3. run' = [run EXCEPT ![r] =
                    [run[r] EXCEPT !.pc = "fetched", !.got = version.msgs]]
      BY <1>2 DEF Fetched, TypeOK
    <2>4. run' \in [Runs -> RunRecord]
      BY <2>2, <2>3 DEF TypeOK
    <2>5. [s EXCEPT !.serverV = version.v] \in SessionRecord
      BY <1>1, <2>1 DEF SessionRecord
    <2>6. sess' = [sess EXCEPT ![c] = [s EXCEPT !.serverV = version.v]]
      BY <1>2 DEF Fetched
    <2>7. sess' \in [Conns -> SessionRecord]
      BY <1>1, <2>5, <2>6, SessionTypes
    <2>8. QED
      BY <1>2, <2>4, <2>7 DEF Fetched, TypeOK
  <1>3. CASE FetchLocal(r)
    BY <1>2, <1>3 DEF FetchLocal, TypeOK
  <1>4. CASE FetchUpstream(r)
    <2>1. calm' \in BOOLEAN
      BY <1>4 DEF FetchUpstream
    <2>2. QED
      BY <1>2, <1>4, <2>1 DEF FetchUpstream, TypeOK
  <1>5. CASE FetchFails(r)
    <2>1. run' \in [Runs -> RunRecord]
      BY <1>5, GoTypes DEF FetchFails, PC
    <2>2. [s EXCEPT !.persistUnsafe = TRUE] \in SessionRecord
      BY <1>1 DEF SessionRecord
    <2>3. sess' \in [Conns -> SessionRecord]
      BY <1>1, <1>5, <2>2, SessionTypes DEF FetchFails
    <2>4. QED
      BY <1>5, <2>1, <2>3 DEF FetchFails, TypeOK
  <1>6. CASE AlreadyHydrated(r)
    <2>1. run' \in [Runs -> RunRecord]
      BY <1>6, GoTypes DEF AlreadyHydrated, PC
    <2>2. QED
      BY <1>6, <2>1 DEF AlreadyHydrated, sessVars, TypeOK
  <1>7. CASE Hydrate(r)
    <2>1. run' \in [Runs -> RunRecord]
      BY <1>7, GoTypes DEF Hydrate, PC
    <2>2. /\ run[r].got \in Seq(Message) /\ run[r].prompt \in Message
          /\ s.history \in Seq(Message)
      BY <1>1 DEF RunRecord, SessionRecord
    <2>3. Len(run[r].got) \in Nat /\ Hydrated(r, s.history) \in Seq(Message)
      BY <2>2, LenProperties, AppendProperties DEF Hydrated
    <2> DEFINE n == Len(run[r].got)
               h == Hydrated(r, s.history)
    <2>4. sess' = [sess EXCEPT ![c] =
                     [s EXCEPT !.serverPriorLen = n, !.history = h]]
      BY <1>1, <1>7 DEF Hydrate, TypeOK, SessionRecord
    <2> HIDE DEF n, h
    <2>5. [s EXCEPT !.serverPriorLen = n, !.history = h] \in SessionRecord
      BY <1>1, <2>3 DEF SessionRecord, n, h
    <2>6. sess' \in [Conns -> SessionRecord]
      BY <1>1, <2>4, <2>5, SessionTypes
    <2>7. QED
      BY <1>7, <2>1, <2>6 DEF Hydrate, TypeOK
  <1>8. CASE Answered(r)
    <2>1. run' \in [Runs -> RunRecord]
      BY <1>8, GoTypes DEF Answered, PC
    <2>2. Answer(r) \in Message
      BY MessageTypes, PersistAssumption DEF Runs
    <2>3. Append(s.history, Answer(r)) \in Seq(Message)
      BY <1>1, <2>2, AppendProperties DEF SessionRecord
    <2>4. [s EXCEPT !.history = Append(s.history, Answer(r))] \in SessionRecord
      BY <1>1, <2>3 DEF SessionRecord
    <2>5. sess' = [sess EXCEPT ![c] =
                     [s EXCEPT !.history = Append(s.history, Answer(r))]]
      BY <1>8 DEF Answered
    <2>6. sess' \in [Conns -> SessionRecord]
      BY <1>1, <2>4, <2>5, SessionTypes
    <2>7. QED
      BY <1>8, <2>1, <2>3, <2>6 DEF Answered, History, TypeOK
  <1>9. CASE RunFails(r)
    <2>1. run' \in [Runs -> RunRecord]
      BY <1>9, GoTypes DEF RunFails, PC
    <2>2. QED
      BY <1>9, <2>1 DEF RunFails, sessVars, TypeOK
  <1>10. QED
    BY <1>3, <1>4, <1>5, <1>6, <1>7, <1>8, <1>9 DEF RunStep

LEMMA PersistTypes ==
  ASSUME TypeOK, NEW r \in Runs, Persist(r) PROVE TypeOK'
  <1>1. ASSUME NEW pc \in PC, Go(r, pc),
               UNCHANGED <<thread, sessVars, runs, calm>>,
               store' \in Version, upstream' \in Version
        PROVE  TypeOK'
    <2>1. run' \in [Runs -> RunRecord]
      BY <1>1, GoTypes
    <2>2. QED
      BY <1>1, <2>1 DEF sessVars, TypeOK
  <1>2. run[r] \in RunRecord /\ run[r].upload \in Version
    BY DEF TypeOK, RunRecord
  <1>3. CASE Check(r)
    BY <1>1, <1>3 DEF Check, TypeOK, PC
  <1>4. CASE Build(r)
    <2> DEFINE s == sess[run[r].sess]
               built == [v |-> UploadV(s), msgs |-> s.history]
    <2>1. s \in SessionRecord
      BY <1>2 DEF TypeOK, RunRecord
    <2>2. s.history \in Seq(Message) /\ s.serverV \in Nat /\ Len(s.history) \in Nat
      BY <2>1, LenProperties DEF SessionRecord
    <2> HIDE DEF s
    <2>3. UploadV(s) \in Nat /\ UploadV(s) > Len(s.history)
      BY <2>2 DEF UploadV
    <2>4. built \in Version
      BY <2>2, <2>3 DEF Version
    <2> HIDE DEF built
    <2>5. [run[r] EXCEPT !.pc = "local", !.upload = built] \in RunRecord
      BY <1>2, <2>4 DEF RunRecord
    <2>6. run' = [run EXCEPT ![r] =
                    [run[r] EXCEPT !.pc = "local", !.upload = built]]
      BY <1>4 DEF Build, TypeOK, built, s
    <2>7. run' \in [Runs -> RunRecord]
      BY <2>5, <2>6 DEF TypeOK
    <2>8. QED
      BY <1>4, <2>7 DEF Build, sessVars, TypeOK
  <1>5. CASE StoreLocal(r)
    BY <1>1, <1>2, <1>5 DEF StoreLocal, TypeOK, PC
  <1>6. CASE Conflict(r)
    BY <1>1, <1>6 DEF Conflict, TypeOK, PC
  <1>7. CASE StoreFails(r)
    BY <1>1, <1>7 DEF StoreFails, TypeOK, PC
  <1>8. CASE UploadUpstream(r)
    BY <1>1, <1>2, <1>8 DEF UploadUpstream, TypeOK, PC
  <1>9. CASE UpstreamFails(r)
    BY <1>1, <1>9 DEF UpstreamFails, TypeOK, PC
  <1>10. QED
    BY <1>3, <1>4, <1>5, <1>6, <1>7, <1>8, <1>9 DEF Persist

LEMMA StepTypes == TypeOK /\ [Next]_vars => TypeOK'
  <1> SUFFICES ASSUME TypeOK, [Next]_vars PROVE TypeOK'
    OBVIOUS
  <1>1. CASE UNCHANGED vars
    BY <1>1 DEF vars, sessVars, TypeOK
  <1>2. CASE Client \/ Restart
    BY <1>2, ClientTypes
  <1>3. ASSUME NEW r \in Runs, RunStep(r) \/ Persist(r) PROVE TypeOK'
    BY <1>3, RunTypes, PersistTypes
  <1>4. CASE Finished
    BY <1>1, <1>4 DEF Finished
  <1>5. QED
    BY <1>1, <1>2, <1>3, <1>4 DEF Next

(***************************************************************************)
(* What an upload under way offers, and what a session hydrates from.      *)
(***************************************************************************)
Session(r) == sess[run[r].sess]
Uploading(r) == At(r, "local") \/ At(r, "upstream")

\* An upload that may still reach the store or amp's server.
Live(r) ==
  /\ run[r].pc \in {"check", "build", "local", "upstream"}
  /\ ~Session(r).persistUnsafe

\* What it has built, or would build now.
Offer(r) ==
  IF Uploading(r) THEN run[r].upload
  ELSE [v |-> UploadV(Session(r)), msgs |-> Session(r).history]

Held == IF store = NoThread THEN upstream ELSE store

Current == sess[conns]
Hydrating(r) == run[r].pc \in {"cold", "fetched"} /\ run[r].needsHydrate
Settled == Current.hydrated /\ \A r \in Runs : ~Hydrating(r)

\* Histories grow: a is a history that b continues or replaces.  They need
\* not share their prompts, since those of failed runs are dropped.
Below(a, b) ==
  /\ Len(a) <= Len(b)
  /\ Answers(a) \subseteq Answers(b)
  /\ Len(a) = Len(b) => Answers(b) \subseteq Answers(a)

Comparable(a, b) == Below(a, b) \/ Below(b, a)

\* The version follows from the version n that was found, or from the length.
Bounded(version, n) == version.v <= n + 1 \/ version.v <= Len(version.msgs) + 1

LEMMA AnswersAppend ==
  ASSUME NEW h \in Seq(Message), NEW m \in Message
  PROVE  /\ Len(Append(h, m)) = Len(h) + 1
         /\ Answers(Append(h, m)) =
              Answers(h) \cup (IF m.by = "assistant" THEN {m} ELSE {})
  <1> DEFINE t == Append(h, m)
  <1>1. /\ t \in Seq(Message) /\ Len(h) \in Nat
        /\ Len(t) = Len(h) + 1 /\ t[Len(h) + 1] = m
        /\ \A i \in 1 .. Len(h) : t[i] = h[i]
    BY AppendProperties, LenProperties
  <1>2. DOMAIN t = 1 .. Len(h) + 1 /\ DOMAIN h = 1 .. Len(h)
    BY <1>1, LenProperties
  <1> HIDE DEF t
  <1>3. {t[i] : i \in DOMAIN t} = {h[i] : i \in DOMAIN h} \cup {m}
    <2>1. ASSUME NEW x \in {t[i] : i \in DOMAIN t}
          PROVE  x \in {h[i] : i \in DOMAIN h} \cup {m}
      BY <1>1, <1>2
    <2>2. ASSUME NEW x \in {h[i] : i \in DOMAIN h}
          PROVE  x \in {t[i] : i \in DOMAIN t}
      BY <1>1, <1>2
    <2>3. m \in {t[i] : i \in DOMAIN t}
      BY <1>1, <1>2
    <2>4. QED
      BY <2>1, <2>2, <2>3
  <1>4. Answers(t) = Answers(h) \cup (IF m.by = "assistant" THEN {m} ELSE {})
    BY <1>3 DEF Answers
  <1>5. QED
    BY <1>1, <1>4 DEF t

LEMMA AnswersEmpty == Answers(<<>>) = {}
  BY DEF Answers

LEMMA BelowRefl ==
  ASSUME NEW h \in Seq(Message)
  PROVE  Below(h, h)
  BY LenProperties DEF Below

LEMMA BelowTrans ==
  ASSUME NEW a \in Seq(Message), NEW b \in Seq(Message), NEW c \in Seq(Message),
         Below(a, b), Below(b, c)
  PROVE  Below(a, c)
  <1>1. Len(a) \in Nat /\ Len(b) \in Nat /\ Len(c) \in Nat
    BY LenProperties
  <1>2. QED
    BY <1>1 DEF Below

LEMMA BelowAppend ==
  ASSUME NEW h \in Seq(Message), NEW m \in Message
  PROVE  Below(h, Append(h, m))
  <1>1. Len(h) \in Nat
    BY LenProperties
  <1>2. QED
    BY <1>1, AnswersAppend DEF Below

LEMMA BelowEmpty ==
  ASSUME NEW h \in Seq(Message)
  PROVE  Below(<<>>, h)
  <1>1. Len(h) \in Nat /\ (Len(h) = 0 => h = <<>>)
    BY LenProperties, EmptySeq
  <1>2. QED
    BY <1>1, AnswersEmpty, EmptySeq DEF Below

LEMMA UploadVIs ==
  ASSUME NEW s \in SessionRecord
  PROVE  /\ UploadV(s) \in Nat
         /\ UploadV(s) >= s.serverV + 1 /\ UploadV(s) >= Len(s.history) + 1
         /\ UploadV(s) = s.serverV + 1 \/ UploadV(s) = Len(s.history) + 1
  <1>1. s.serverV \in Nat /\ Len(s.history) \in Nat
    BY LenProperties DEF SessionRecord
  <1>2. QED
    BY <1>1 DEF UploadV

\* A stored version counts its messages, but for the missing row.
LEMMA VersionIs ==
  ASSUME NEW version \in Version
  PROVE  /\ version.v \in Nat /\ version.msgs \in Seq(Message)
         /\ version = NoThread <=> version.v = 0
  <1>1. version.v \in Nat /\ version.msgs \in Seq(Message)
    BY VersionFields
  <1>2. version # NoThread => version.v > Len(version.msgs) /\ Len(version.msgs) \in Nat
    BY <1>1, LenProperties DEF Version
  <1>3. QED
    BY <1>1, <1>2 DEF NoThread

(***************************************************************************)
(* The invariant.                                                          *)
(***************************************************************************)
\* Sessions come one after another, and so do the runs of each: only the
\* last run of the last session executes.  The first run of a session
\* hydrates it before anything else happens in it.
Shape ==
  /\ \A r \in Runs : r > runs => At(r, "none")
  /\ \A r \in Runs : ~At(r, "none") => run[r].sess <= conns
  /\ \A r \in Runs : Executing(r) =>
       run[r].sess = conns /\ r = runs /\ ~run[r].cancelled
  /\ \A r \in Runs : At(r, "fetched") => run[r].needsHydrate
  /\ ~Current.hydrated =>
       /\ Current.history = thread /\ ~Current.persistUnsafe
       /\ \A r \in Runs : run[r].sess = conns => At(r, "none")
  /\ \A r \in Runs : Hydrating(r) =>
       /\ Current.hydrated /\ ~Current.persistUnsafe
       /\ run[r].prompt.by = "user"
       /\ Current.history = Append(thread, run[r].prompt)
       /\ run[r].priorLocalLen = Len(thread) + 1
       /\ \A q \in Runs : run[q].sess = conns /\ q # r => At(q, "none")

\* An upload under way has its answer, and whatever the store or the server
\* has that it would replace.
LiveInv(r) ==
  /\ Answer(r) \in Answers(Offer(r).msgs)
  /\ Len(Offer(r).msgs) >= Session(r).serverPriorLen + 2
  /\ Bounded(Offer(r), Held.v)
  /\ Offer(r).v > store.v => Answers(store.msgs) \subseteq Answers(Offer(r).msgs)
  /\ Offer(r).v > upstream.v =>
       Answers(upstream.msgs) \subseteq Answers(Offer(r).msgs)
  /\ store = NoThread => Offer(r).v > upstream.v
  /\ At(r, "upstream") =>
       store # NoThread /\ Answers(Offer(r).msgs) \subseteq Answers(store.msgs)
  /\ InStep(Session(r)) /\ store.v >= Offer(r).v => Answer(r) \in Answers(store.msgs)

\* Of two uploads under way the greater version has the answers of the other.
PairInv(r, q) ==
  /\ Offer(r).v < Offer(q).v => Answers(Offer(r).msgs) \subseteq Answers(Offer(q).msgs)
  /\ InStep(Session(r)) /\ Offer(r).v <= Offer(q).v =>
       Answer(r) \in Answers(Offer(q).msgs)

LiveInvs == \A r \in Runs : Live(r) => LiveInv(r)
PairInvs == \A r, q \in Runs : Live(r) /\ Live(q) => PairInv(r, q)
StoreAhead == store # NoThread => Answers(upstream.msgs) \subseteq Answers(store.msgs)

\* Before the session is hydrated its uploads to come are still unknown; all
\* others are below the process-wide history.
ColdInv ==
  /\ \A r \in Runs : Live(r) => Below(Offer(r).msgs, thread)
  /\ \A r \in Runs : At(r, "fetched") =>
       /\ Comparable(run[r].got, thread)
       /\ Below(Held.msgs, run[r].got) \/ Below(Held.msgs, thread)
       /\ Answers(upstream.msgs) \subseteq Answers(run[r].got) \cup Answers(thread)
       /\ Current.serverV <= Held.v /\ Bounded(store, Current.serverV)
       /\ store = NoThread => upstream.v <= Current.serverV
       /\ \A q \in Runs : Live(q) => Bounded(Offer(q), Current.serverV)

\* A hydrated session has whatever anybody has.
WarmInv ==
  /\ Below(Held.msgs, Current.history) /\ Below(thread, Current.history)
  /\ Answers(upstream.msgs) \subseteq Answers(Current.history)
  /\ Current.serverV <= Held.v /\ Bounded(store, Current.serverV)
  /\ store = NoThread => upstream.v <= Current.serverV
  /\ Len(Current.history) >= Current.serverPriorLen + 1
  /\ \A r \in Runs : Live(r) =>
       /\ Below(Offer(r).msgs, Current.history)
       /\ Bounded(Offer(r), Current.serverV)
       /\ Comparable(Offer(r).msgs, thread)
       /\ run[r].sess # conns => Below(Offer(r).msgs, thread)

CurrentInv ==
  ~Current.persistUnsafe =>
    /\ Comparable(Held.msgs, thread)
    /\ Settled => WarmInv
    /\ ~Settled => ColdInv

Data == /\ LiveInvs /\ PairInvs /\ StoreAhead /\ CurrentInv
        /\ AnswersStored

\* No upload of a session that could not hydrate.
SafeUploads ==
  \A r \in Runs : run[r].pc \in {"build", "local", "upstream"} =>
    ~Session(r).persistUnsafe

PersistInv == calm => Shape /\ SafeUploads /\ Data

LEMMA PersistInit == TypeOK /\ Init => PersistInv
  <1> SUFFICES ASSUME TypeOK, Init, calm PROVE Shape /\ SafeUploads /\ Data
    BY DEF PersistInv
  <1>1. /\ \A r \in Runs : run[r] = NoRun
        /\ conns \in Conns /\ sess[conns] = NewSession(<<>>) /\ thread = <<>>
    BY DEF Init, TypeOK
  <1>2. \A r \in Runs : At(r, "none") /\ ~Live(r)
    BY <1>1 DEF At, NoRun, Live
  <1>3. ~Current.hydrated /\ ~Settled
    BY <1>1 DEF Current, NewSession, Settled
  <1>4. Shape
    BY <1>1, <1>2 DEF Shape, Current, NewSession, At, Executing, Hydrating
  <1>5. LiveInvs /\ PairInvs
    BY <1>2 DEF LiveInvs, PairInvs
  <1>6. StoreAhead
    BY DEF Init, StoreAhead
  <1>7. CurrentInv
    <2>1. Held.msgs \in Seq(Message)
      BY VersionIs DEF Held, TypeOK
    <2>2. Comparable(Held.msgs, thread)
      BY <1>1, <2>1, BelowEmpty DEF Comparable
    <2>3. ColdInv
      BY <1>2 DEF ColdInv, At
    <2>4. QED
      BY <1>3, <2>2, <2>3 DEF CurrentInv
  <1>8. AnswersStored
    BY <1>2 DEF AnswersStored, At
  <1>9. SafeUploads
    BY <1>2 DEF SafeUploads, At
  <1>10. QED
    BY <1>4, <1>5, <1>6, <1>7, <1>8, <1>9 DEF Data

(***************************************************************************)
(* What the steps change, field by field.                                  *)
(***************************************************************************)
SameLocals(r) ==
  /\ run'[r].sess = run[r].sess /\ run'[r].prompt = run[r].prompt
  /\ run'[r].needsHydrate = run[r].needsHydrate
  /\ run'[r].priorLocalLen = run[r].priorLocalLen
  /\ run'[r].cancelled = run[r].cancelled

LEMMA GoIs ==
  ASSUME TypeOK, NEW r \in Runs, NEW pc \in PC, Go(r, pc)
  PROVE  /\ run'[r].pc = pc /\ SameLocals(r)
         /\ run'[r].got = run[r].got /\ run'[r].upload = run[r].upload
         /\ \A q \in Runs : q # r => run'[q] = run[q]
  <1>1. run[r] \in RunRecord /\ run'[r] = [run[r] EXCEPT !.pc = pc]
    BY DEF TypeOK, Go
  <1>2. \A q \in Runs : q # r => run'[q] = run[q]
    BY DEF TypeOK, Go
  <1>3. QED
    BY <1>1, <1>2 DEF SameLocals, RunRecord

\* The types that the proofs use.
LEMMA Types ==
  ASSUME TypeOK
  PROVE  /\ conns \in Nat /\ conns \in Conns /\ runs \in Nat
         /\ thread \in Seq(Message) /\ Len(thread) \in Nat
         /\ store \in Version /\ upstream \in Version /\ Held \in Version
         /\ store.v \in Nat /\ upstream.v \in Nat /\ Held.v \in Nat
         /\ store.msgs \in Seq(Message) /\ upstream.msgs \in Seq(Message)
         /\ Held.msgs \in Seq(Message)
         /\ store = NoThread <=> store.v = 0
         /\ \A c \in Conns :
              /\ sess[c] \in SessionRecord /\ sess[c].history \in Seq(Message)
              /\ Len(sess[c].history) \in Nat /\ sess[c].serverV \in Nat
              /\ sess[c].serverPriorLen \in Nat
              /\ sess[c].hydrated \in BOOLEAN /\ sess[c].persistUnsafe \in BOOLEAN
         /\ \A r \in Runs :
              /\ r \in Nat /\ Answer(r) \in Message
              /\ run[r] \in RunRecord /\ run[r].sess \in Conns
              /\ run[r].upload \in Version /\ run[r].got \in Seq(Message)
              /\ run[r].upload.v \in Nat /\ run[r].upload.msgs \in Seq(Message)
              /\ run[r].prompt \in Message /\ Len(run[r].got) \in Nat
              /\ run[r].needsHydrate \in BOOLEAN
              /\ run[r].pc \in PC
  <1>1. Conns \subseteq Nat /\ Runs \subseteq Nat
    BY PersistAssumption DEF Conns, Runs
  <1>2. \A x \in Version :
          x.v \in Nat /\ x.msgs \in Seq(Message) /\ (x = NoThread <=> x.v = 0)
    BY VersionIs
  <1>3. store \in Version /\ upstream \in Version /\ Held \in Version
    BY DEF TypeOK, Held
  <1>4. \A c \in Conns :
          /\ sess[c] \in SessionRecord /\ sess[c].history \in Seq(Message)
          /\ sess[c].serverV \in Nat /\ sess[c].serverPriorLen \in Nat
          /\ sess[c].hydrated \in BOOLEAN /\ sess[c].persistUnsafe \in BOOLEAN
    BY DEF TypeOK, SessionRecord
  <1>5. \A r \in Runs : run[r] \in RunRecord
    BY DEF TypeOK
  <1>6. \A r \in Runs :
          /\ run[r].sess \in Conns /\ run[r].upload \in Version
          /\ run[r].got \in Seq(Message) /\ run[r].prompt \in Message
          /\ run[r].needsHydrate \in BOOLEAN
          /\ run[r].pc \in PC
    BY <1>5 DEF RunRecord, PC
  <1>7. \A r \in Runs : Answer(r) \in Message
    BY MessageTypes, PersistAssumption DEF Runs
  <1>8. \A h \in Seq(Message) : Len(h) \in Nat
    BY LenProperties
  <1>9. conns \in Conns /\ runs \in Nat /\ thread \in Seq(Message)
    BY PersistAssumption DEF TypeOK
  <1>10. /\ conns \in Nat /\ conns \in Conns /\ runs \in Nat
         /\ thread \in Seq(Message) /\ Len(thread) \in Nat
    BY <1>1, <1>8, <1>9
  <1>11. /\ store.v \in Nat /\ upstream.v \in Nat /\ Held.v \in Nat
         /\ store.msgs \in Seq(Message) /\ upstream.msgs \in Seq(Message)
         /\ Held.msgs \in Seq(Message)
         /\ store = NoThread <=> store.v = 0
    BY <1>2, <1>3
  <1>12. \A c \in Conns : Len(sess[c].history) \in Nat
    BY <1>4, <1>8
  <1>13. \A r \in Runs :
           /\ r \in Nat /\ Len(run[r].got) \in Nat
           /\ run[r].upload.v \in Nat /\ run[r].upload.msgs \in Seq(Message)
    BY <1>1, <1>2, <1>6, <1>8
  <1>14. QED
    BY <1>3, <1>4, <1>5, <1>6, <1>7, <1>10, <1>11, <1>12, <1>13

LEMMA OfferTypes ==
  ASSUME TypeOK, NEW r \in Runs
  PROVE  /\ Offer(r).v \in Nat /\ Offer(r).msgs \in Seq(Message)
         /\ Len(Offer(r).msgs) \in Nat
  <1>1. Session(r) \in SessionRecord /\ Session(r).history \in Seq(Message)
    BY Types DEF Session
  <1>2. UploadV(Session(r)) \in Nat
    BY <1>1, UploadVIs
  <1>3. Offer(r).v \in Nat /\ Offer(r).msgs \in Seq(Message)
    BY <1>1, <1>2, Types DEF Offer
  <1>4. QED
    BY <1>3, LenProperties

\* A new run and the history it starts with.
LEMMA StartIs ==
  ASSUME TypeOK, NEW history \in Seq(Message), NEW prompt \in Message,
         StartRun(history, prompt)
  PROVE  LET n == runs + 1
         IN  /\ n \in Runs /\ runs' = n
             /\ run'[n].pc = "cold" /\ run'[n].sess = conns
             /\ run'[n].prompt = prompt /\ ~run'[n].cancelled
             /\ run'[n].needsHydrate = ~Current.hydrated
             /\ run'[n].priorLocalLen = Len(history)
             /\ \A q \in Runs : q # n => run'[q] = run[q]
             /\ sess'[conns] =
                  [sess[conns] EXCEPT !.history = history, !.hydrated = TRUE]
             /\ sess'[conns].history = history /\ sess'[conns].hydrated
             /\ sess'[conns].persistUnsafe = sess[conns].persistUnsafe
             /\ sess'[conns].serverV = sess[conns].serverV
             /\ sess'[conns].serverPriorLen = sess[conns].serverPriorLen
             /\ \A c \in Conns : c # conns => sess'[c] = sess[c]
             /\ UNCHANGED <<store, upstream, thread, conns>>
  <1> DEFINE n == runs + 1
             new == [NoRun EXCEPT !.pc = "cold", !.sess = conns, !.prompt = prompt,
                             !.needsHydrate = ~sess[conns].hydrated,
                             !.priorLocalLen = Len(history)]
             s == [sess[conns] EXCEPT !.history = history, !.hydrated = TRUE]
  <1>1. n \in Runs /\ runs' = n /\ UNCHANGED <<store, upstream, thread, conns>>
    BY PersistAssumption DEF StartRun, TypeOK, Runs
  <1>2. run' = [run EXCEPT ![n] = new]
    BY DEF StartRun
  <1>3. sess' = [sess EXCEPT ![conns] = s]
    BY DEF StartRun, TypeOK
  <1>4. /\ new.pc = "cold" /\ new.sess = conns /\ new.prompt = prompt
        /\ ~new.cancelled /\ new.needsHydrate = ~sess[conns].hydrated
        /\ new.priorLocalLen = Len(history)
    BY DEF NoRun
  <1>5. /\ s.history = history /\ s.hydrated
        /\ s.persistUnsafe = sess[conns].persistUnsafe
        /\ s.serverV = sess[conns].serverV
        /\ s.serverPriorLen = sess[conns].serverPriorLen
    <2>1. sess[conns] \in SessionRecord
      BY Types
    <2>2. QED
      BY <2>1 DEF SessionRecord
  <1> HIDE DEF new, s
  <1>6. run'[n] = new /\ \A q \in Runs : q # n => run'[q] = run[q]
    BY <1>1, <1>2 DEF TypeOK
  <1>7. sess'[conns] = s /\ \A c \in Conns : c # conns => sess'[c] = sess[c]
    BY <1>3 DEF TypeOK
  <1>8. QED
    BY <1>1, <1>4, <1>5, <1>6, <1>7 DEF Current, s

(***************************************************************************)
(* Every step keeps the shape.                                             *)
(***************************************************************************)
OthersSame(r) == \A q \in Runs : q # r => run'[q] = run[q]

LEMMA ShapeMove ==
  ASSUME TypeOK, Shape, NEW r \in Runs, ~At(r, "none"),
         run'[r].pc \notin {"none", "cold", "fetched"},
         run'[r].pc = "warm" => Executing(r),
         SameLocals(r), OthersSame(r), UNCHANGED <<conns, runs>>,
         \/ UNCHANGED <<sess, thread>>
         \/ Executing(r) /\ sess'[conns].hydrated = sess[conns].hydrated
  PROVE  Shape'
  <1> USE DEF At, Executing, Hydrating, Current, SameLocals, OthersSame
  <1>1. \A q \in Runs : q > runs' => run'[q].pc = "none"
    BY DEF Shape
  <1>2. \A q \in Runs : run'[q].pc # "none" => run'[q].sess <= conns'
    BY DEF Shape
  <1>3. \A q \in Runs : run'[q].pc \in {"cold", "fetched", "warm"} =>
          run'[q].sess = conns' /\ q = runs' /\ ~run'[q].cancelled
    BY DEF Shape
  <1>4. \A q \in Runs : run'[q].pc = "fetched" => run'[q].needsHydrate
    BY DEF Shape
  <1>5. ~sess'[conns].hydrated =>
          /\ sess'[conns].history = thread' /\ ~sess'[conns].persistUnsafe
          /\ \A q \in Runs : run'[q].sess = conns' => run'[q].pc = "none"
    <2>1. CASE UNCHANGED <<sess, thread>>
      BY <2>1 DEF Shape
    <2>2. CASE Executing(r) /\ sess'[conns].hydrated = sess[conns].hydrated
      BY <2>2 DEF Shape
    <2>3. QED
      BY <2>1, <2>2
  <1>6. ASSUME NEW q \in Runs, Hydrating(q)'
        PROVE  /\ sess'[conns].hydrated /\ ~sess'[conns].persistUnsafe
               /\ run'[q].prompt.by = "user"
               /\ sess'[conns].history = Append(thread', run'[q].prompt)
               /\ run'[q].priorLocalLen = Len(thread') + 1
               /\ \A p \in Runs : run'[p].sess = conns' /\ p # q => run'[p].pc = "none"
    <2>1. q # r /\ Hydrating(q) /\ run'[q] = run[q]
      BY <1>6
    <2>2. UNCHANGED <<sess, thread>>
      BY <2>1 DEF Shape
    <2>3. QED
      BY <2>1, <2>2 DEF Shape
  <1>7. QED
    BY <1>1, <1>2, <1>3, <1>4, <1>5, <1>6 DEF Shape

\* The thread was fetched.
FetchedIs(r, version) ==
  /\ run'[r].pc = "fetched" /\ run'[r].got = version.msgs /\ SameLocals(r)
  /\ OthersSame(r)
  /\ sess'[conns].serverV = version.v
  /\ sess'[conns].history = sess[conns].history
  /\ sess'[conns].hydrated = sess[conns].hydrated
  /\ sess'[conns].persistUnsafe = sess[conns].persistUnsafe
  /\ sess'[conns].serverPriorLen = sess[conns].serverPriorLen
  /\ \A c \in Conns : c # conns => sess'[c] = sess[c]

LEMMA FetchIs ==
  ASSUME TypeOK, Shape, NEW r \in Runs, NEW version, Fetched(r, version)
  PROVE  FetchedIs(r, version)
  <1>1. /\ run[r] \in RunRecord /\ run[r].sess = conns /\ conns \in Conns
        /\ sess[conns] \in SessionRecord
    BY Types DEF Fetched, Shape, Executing, At
  <1>2. run'[r] = [run[r] EXCEPT !.pc = "fetched", !.got = version.msgs]
    BY DEF Fetched, TypeOK
  <1>3. sess'[conns] = [sess[conns] EXCEPT !.serverV = version.v]
    BY <1>1 DEF Fetched, TypeOK
  <1>4. /\ \A q \in Runs : q # r => run'[q] = run[q]
        /\ \A c \in Conns : c # conns => sess'[c] = sess[c]
    BY <1>1 DEF Fetched, TypeOK
  <1>5. run'[r].pc = "fetched" /\ run'[r].got = version.msgs /\ SameLocals(r)
    BY <1>1, <1>2 DEF SameLocals, RunRecord
  <1>6. /\ sess'[conns].serverV = version.v
        /\ sess'[conns].history = sess[conns].history
        /\ sess'[conns].hydrated = sess[conns].hydrated
        /\ sess'[conns].persistUnsafe = sess[conns].persistUnsafe
        /\ sess'[conns].serverPriorLen = sess[conns].serverPriorLen
    BY <1>1, <1>3 DEF SessionRecord
  <1>7. QED
    BY <1>4, <1>5, <1>6 DEF FetchedIs, OthersSame

LEMMA ShapeFetched ==
  ASSUME TypeOK, Shape, NEW r \in Runs, Hydrating(r), NEW version,
         FetchedIs(r, version), UNCHANGED <<thread, conns, runs>>
  PROVE  Shape'
  <1> USE DEF At, Executing, Hydrating, Current, SameLocals, OthersSame, FetchedIs
  <1>1. run[r].sess = conns /\ r = runs /\ ~run[r].cancelled /\ sess[conns].hydrated
    BY DEF Shape
  <1>2. \A q \in Runs : q # r => ~Hydrating(q) /\ ~Executing(q)
    BY <1>1 DEF Shape
  <1>3. /\ \A q \in Runs : q > runs' => run'[q].pc = "none"
        /\ \A q \in Runs : run'[q].pc # "none" => run'[q].sess <= conns'
    BY <1>1 DEF Shape
  <1>4. /\ \A q \in Runs : run'[q].pc \in {"cold", "fetched", "warm"} =>
             run'[q].sess = conns' /\ q = runs' /\ ~run'[q].cancelled
        /\ \A q \in Runs : run'[q].pc = "fetched" => run'[q].needsHydrate
    BY <1>1, <1>2 DEF Shape
  <1>5. ASSUME NEW q \in Runs, Hydrating(q)'
        PROVE  /\ sess'[conns].hydrated /\ ~sess'[conns].persistUnsafe
               /\ run'[q].prompt.by = "user"
               /\ sess'[conns].history = Append(thread', run'[q].prompt)
               /\ run'[q].priorLocalLen = Len(thread') + 1
               /\ \A p \in Runs : run'[p].sess = conns' /\ p # q => run'[p].pc = "none"
    <2>1. q = r
      BY <1>2, <1>5
    <2>2. QED
      BY <2>1 DEF Shape
  <1>6. QED
    BY <1>1, <1>3, <1>4, <1>5 DEF Shape

\* The client appends a prompt.
LEMMA ShapeAppend ==
  ASSUME TypeOK, Shape, NEW prompt \in Message, prompt.by = "user",
         StartRun(Append(Current.history, prompt), prompt)
  PROVE  Shape'
  <1> DEFINE n == runs + 1
             h == Append(Current.history, prompt)
  <1> USE DEF At, Executing, Hydrating, Current
  <1>1. Current.history \in Seq(Message) /\ conns \in Nat /\ runs \in Nat
    BY Types
  <1>2. h \in Seq(Message) /\ Len(h) = Len(Current.history) + 1
    BY <1>1, AppendProperties
  <1>3. /\ n \in Runs /\ runs' = n
        /\ run'[n].pc = "cold" /\ run'[n].sess = conns
        /\ run'[n].prompt = prompt /\ ~run'[n].cancelled
        /\ run'[n].needsHydrate = ~Current.hydrated
        /\ run'[n].priorLocalLen = Len(h)
        /\ \A q \in Runs : q # n => run'[q] = run[q]
        /\ sess'[conns].history = h /\ sess'[conns].hydrated
        /\ sess'[conns].persistUnsafe = sess[conns].persistUnsafe
        /\ UNCHANGED <<thread, conns>>
    BY <1>2, StartIs
  <1> HIDE DEF h
  <1>4. \A q \in Runs : ~Executing(q)
    BY DEF Shape, StartRun, Busy
  <1>5. \A q \in Runs : q \in Nat
    BY Types
  <1>6. /\ \A q \in Runs : q > runs' => run'[q].pc = "none"
        /\ \A q \in Runs : run'[q].pc # "none" => run'[q].sess <= conns'
    BY <1>1, <1>3, <1>5 DEF Shape
  <1>7. /\ \A q \in Runs : run'[q].pc \in {"cold", "fetched", "warm"} =>
             run'[q].sess = conns' /\ q = runs' /\ ~run'[q].cancelled
        /\ \A q \in Runs : run'[q].pc = "fetched" => run'[q].needsHydrate
    BY <1>3, <1>4 DEF Shape
  <1>8. ASSUME NEW q \in Runs, Hydrating(q)'
        PROVE  /\ sess'[conns].hydrated /\ ~sess'[conns].persistUnsafe
               /\ run'[q].prompt.by = "user"
               /\ sess'[conns].history = Append(thread', run'[q].prompt)
               /\ run'[q].priorLocalLen = Len(thread') + 1
               /\ \A p \in Runs : run'[p].sess = conns' /\ p # q => run'[p].pc = "none"
    <2>1. q = n /\ ~Current.hydrated
      BY <1>3, <1>4, <1>8
    <2>2. Current.history = thread /\ ~Current.persistUnsafe
      BY <2>1 DEF Shape
    <2>3. \A p \in Runs : run[p].sess = conns => run[p].pc = "none"
      BY <2>1 DEF Shape
    <2>4. QED
      BY <1>2, <1>3, <2>1, <2>2, <2>3 DEF h
  <1>9. QED
    BY <1>3, <1>6, <1>7, <1>8 DEF Shape

\* The next client binds the process-wide history.
LEMMA ShapeConnect ==
  ASSUME TypeOK, Shape, Connect, \A r \in Runs : ~Executing(r)
  PROVE  Shape'
  <1> USE DEF At, Executing, Hydrating, Current
  <1>1. /\ conns + 1 \in Conns /\ conns' = conns + 1 /\ conns \in Nat
        /\ UNCHANGED <<thread, runs, run>>
    BY Types, PersistAssumption DEF Connect, Conns
  <1>2. sess'[conns'] = NewSession(thread)
    BY <1>1 DEF Connect, TypeOK
  <1>3. /\ \A r \in Runs : r > runs' => run'[r].pc = "none"
        /\ \A r \in Runs : run'[r].pc # "none" => run'[r].sess <= conns'
    BY <1>1, Types DEF Shape, Conns
  <1>4. \A r \in Runs : run'[r].pc \notin {"cold", "fetched", "warm"}
    BY <1>1
  <1>5. ASSUME NEW r \in Runs, run'[r].sess = conns' PROVE run'[r].pc = "none"
    BY <1>1, <1>5 DEF Shape
  <1>6. sess'[conns'].history = thread' /\ ~sess'[conns'].persistUnsafe
    BY <1>1, <1>2 DEF NewSession
  <1>7. QED
    BY <1>3, <1>4, <1>5, <1>6 DEF Shape

\* The process starts again.
LEMMA RestartIs ==
  ASSUME TypeOK, Restart, NEW r \in Runs
  PROVE  /\ run'[r].sess = run[r].sess /\ run'[r].pc \in {"none", "done", "failed"}
         /\ run'[r].pc = "done" <=> run[r].pc = "done"
         /\ run'[r].pc = "none" <=> run[r].pc = "none"
  <1>1. run[r] \in RunRecord
    BY Types
  <1>2. CASE run[r].pc \in {"none", "done"}
    <2>1. run'[r] = run[r]
      BY <1>2 DEF Restart
    <2>2. QED
      BY <1>2, <2>1
  <1>3. CASE run[r].pc \notin {"none", "done"}
    <2>1. run'[r] = [run[r] EXCEPT !.pc = "failed"]
      BY <1>3 DEF Restart
    <2>2. QED
      BY <1>1, <1>3, <2>1 DEF RunRecord
  <1>4. QED
    BY <1>2, <1>3

LEMMA ShapeRestart ==
  ASSUME TypeOK, Shape, Restart
  PROVE  Shape'
  <1> USE DEF At, Executing, Hydrating, Current
  <1>1. /\ conns + 1 \in Conns /\ conns' = conns + 1 /\ conns \in Nat
        /\ thread' = <<>> /\ runs' = runs
    BY Types, PersistAssumption DEF Restart, Conns
  <1>2. sess'[conns'] = NewSession(<<>>)
    BY <1>1 DEF Restart, TypeOK
  <1>3. /\ \A r \in Runs : r > runs' => run'[r].pc = "none"
        /\ \A r \in Runs : run'[r].pc # "none" => run'[r].sess <= conns'
    <2>1. \A r \in Runs : run[r].sess \in Nat
      BY Types, PersistAssumption DEF Conns
    <2>2. QED
      BY <1>1, <2>1, RestartIs DEF Shape
  <1>4. \A r \in Runs : run'[r].pc \notin {"cold", "fetched", "warm"}
    BY RestartIs
  <1>5. ASSUME NEW r \in Runs, run'[r].sess = conns' PROVE run'[r].pc = "none"
    BY <1>1, <1>5, RestartIs DEF Shape
  <1>6. sess'[conns'].history = thread' /\ ~sess'[conns'].persistUnsafe
    BY <1>1, <1>2 DEF NewSession
  <1>7. QED
    BY <1>3, <1>4, <1>5, <1>6 DEF Shape

(***************************************************************************)
(* Every step keeps the data.                                              *)
(***************************************************************************)
\* A run moves on, or is over, and nothing else changes.
LEMMA DataQuiet ==
  ASSUME TypeOK, Data, UNCHANGED <<store, upstream, thread, conns, sess>>, calm,
         \A q \in Runs :
           /\ run'[q].sess = run[q].sess
           /\ Live(q)' => /\ Live(q) /\ Offer(q)' = Offer(q)
                          /\ run'[q].pc = "upstream" => At(q, "upstream")
           /\ run'[q].pc = "fetched" => At(q, "fetched") /\ run'[q].got = run[q].got
           /\ Hydrating(q)' <=> Hydrating(q)
           /\ run'[q].pc = "done" =>
                \/ At(q, "done") \/ Answer(q) \in Answers(store.msgs)
                \/ Session(q).persistUnsafe \/ ~InStep(Session(q))
  PROVE  Data'
  <1> USE DEF At, Session, Current
  <1>1. Held' = Held
    BY DEF Held
  <1>2. \A q \in Runs : Session(q)' = Session(q)
    OBVIOUS
  <1>3. LiveInvs'
    <2> SUFFICES ASSUME NEW q \in Runs, Live(q)' PROVE LiveInv(q)'
      BY DEF LiveInvs
    <2>1. Live(q) /\ Offer(q)' = Offer(q) /\ LiveInv(q)
      BY DEF Data, LiveInvs
    <2>2. QED
      BY <1>1, <1>2, <2>1 DEF LiveInv, Bounded, InStep
  <1>4. PairInvs'
    <2> SUFFICES ASSUME NEW r \in Runs, NEW q \in Runs, Live(r)', Live(q)'
                 PROVE  PairInv(r, q)'
      BY DEF PairInvs
    <2>1. /\ Live(r) /\ Offer(r)' = Offer(r) /\ Live(q) /\ Offer(q)' = Offer(q)
          /\ PairInv(r, q)
      BY DEF Data, PairInvs
    <2>2. QED
      BY <1>2, <2>1 DEF PairInv, InStep
  <1>5. StoreAhead'
    BY DEF Data, StoreAhead
  <1>6. CurrentInv'
    <2> SUFFICES ASSUME ~Current.persistUnsafe PROVE CurrentInv'
      BY DEF CurrentInv
    <2>1. Comparable(Held.msgs, thread)'
      BY <1>1 DEF Data, CurrentInv, Comparable, Below
    <2>2. Settled' <=> Settled
      BY DEF Settled
    <2>3. ASSUME Settled PROVE WarmInv'
      <3>1. WarmInv
        BY <2>3 DEF Data, CurrentInv
      <3>2. \A q \in Runs : Live(q)' =>
              /\ Below(Offer(q)'.msgs, Current.history)
              /\ Bounded(Offer(q)', Current.serverV)
              /\ Comparable(Offer(q)'.msgs, thread)
              /\ run[q].sess # conns => Below(Offer(q)'.msgs, thread)
        BY <3>1 DEF WarmInv
      <3>3. QED
        BY <1>1, <3>1, <3>2 DEF WarmInv, Below, Bounded, Comparable
    <2>4. ASSUME ~Settled PROVE ColdInv'
      <3>1. ColdInv
        BY <2>4 DEF Data, CurrentInv
      <3>2. \A q \in Runs : Live(q)' => Below(Offer(q)'.msgs, thread)
        BY <3>1 DEF ColdInv
      <3>3. ASSUME NEW r \in Runs, run'[r].pc = "fetched"
            PROVE  /\ Comparable(run'[r].got, thread)
                   /\ Below(Held.msgs, run'[r].got) \/ Below(Held.msgs, thread)
                   /\ Answers(upstream.msgs) \subseteq Answers(run'[r].got) \cup Answers(thread)
                   /\ Current.serverV <= Held.v /\ Bounded(store, Current.serverV)
                   /\ store = NoThread => upstream.v <= Current.serverV
                   /\ \A q \in Runs : Live(q)' => Bounded(Offer(q)', Current.serverV)
        BY <3>1, <3>3 DEF ColdInv
      <3>4. QED
        BY <1>1, <3>2, <3>3 DEF ColdInv, Below, Bounded, Comparable
    <2>5. QED
      BY <2>1, <2>2, <2>3, <2>4 DEF CurrentInv
  <1>7. AnswersStored'
    <2> SUFFICES ASSUME NEW r \in Runs, run'[r].pc = "done",
                        ~Session(r).persistUnsafe, InStep(Session(r))
                 PROVE  Answer(r) \in Answers(store.msgs)
      BY DEF AnswersStored, InStep
    <2>1. QED
      BY DEF Data, AnswersStored
  <1>8. QED
    BY <1>3, <1>4, <1>5, <1>6, <1>7 DEF Data

\* The store takes the upload of r.
LEMMA DataStore ==
  ASSUME TypeOK, Shape, Data, calm, NEW r \in Runs, StoreLocal(r), Live(r)
  PROVE  Data'
  <1> USE DEF At, Session, Current
  <1>1. /\ run[r].pc = "local" /\ run[r].upload = Offer(r)
        /\ store' = Offer(r) /\ Offer(r).v > store.v
        /\ UNCHANGED <<upstream, thread, conns, sess, runs, calm>>
    BY DEF StoreLocal, Newer, Offer, Uploading, sessVars
  <1>2. PICK pc \in {"upstream", "done"} : Go(r, pc)
    BY DEF StoreLocal
  <1>3. /\ run'[r].pc = pc /\ SameLocals(r) /\ run'[r].upload = run[r].upload
        /\ \A q \in Runs : q # r => run'[q] = run[q]
    BY <1>2, GoIs DEF PC
  <1>4. \A q \in Runs :
          /\ run'[q].sess = run[q].sess /\ Session(q)' = Session(q)
          /\ Live(q)' => Live(q) /\ Offer(q)' = Offer(q)
          /\ run'[q].pc = "upstream" => q = r \/ run[q].pc = "upstream"
          /\ Hydrating(q)' <=> Hydrating(q)
          /\ run'[q].pc = "fetched" => run[q].pc = "fetched" /\ run'[q] = run[q]
          /\ run'[q].pc = "done" => run[q].pc = "done" \/ q = r
    BY <1>1, <1>3 DEF Live, Offer, Uploading, SameLocals, Hydrating
  <1>5. /\ store.v \in Nat /\ upstream.v \in Nat /\ store \in Version
        /\ store = NoThread <=> store.v = 0
        /\ \A q \in Runs : Offer(q).v \in Nat
    BY Types, OfferTypes
  <1>6. store' # NoThread /\ Held' = Offer(r) /\ Held.v <= Offer(r).v
    <2>1. Offer(r).v > 0
      BY <1>1, <1>5
    <2>2. store' # NoThread
      BY <1>1, <2>1 DEF NoThread
    <2>3. store = NoThread => Offer(r).v > upstream.v
      BY DEF Data, LiveInvs, LiveInv
    <2>4. QED
      BY <1>1, <1>5, <2>2, <2>3 DEF Held
  <1>7. Answers(store.msgs) \subseteq Answers(Offer(r).msgs) /\ LiveInv(r)
    BY <1>1 DEF Data, LiveInvs, LiveInv
  <1>8. LiveInvs'
    <2> SUFFICES ASSUME NEW q \in Runs, Live(q)' PROVE LiveInv(q)'
      BY DEF LiveInvs
    <2>1. Live(q) /\ Offer(q)' = Offer(q) /\ LiveInv(q) /\ PairInv(q, r) /\ PairInv(r, q)
      BY <1>4 DEF Data, LiveInvs, PairInvs
    <2>2. Bounded(Offer(q), Offer(r).v)
      BY <1>5, <1>6, <2>1, Types DEF LiveInv, Bounded
    <2>3. Offer(q).v > Offer(r).v => Answers(Offer(r).msgs) \subseteq Answers(Offer(q).msgs)
      BY <1>5, <2>1 DEF PairInv
    <2>4. run'[q].pc = "upstream" => Answers(Offer(q).msgs) \subseteq Answers(Offer(r).msgs)
      BY <1>4, <1>7, <2>1 DEF LiveInv
    <2>5. InStep(Session(q)) /\ Offer(r).v >= Offer(q).v => Answer(q) \in Answers(Offer(r).msgs)
      BY <1>5, <2>1 DEF PairInv
    <2>6. QED
      BY <1>1, <1>4, <1>6, <2>1, <2>2, <2>3, <2>4, <2>5 DEF LiveInv, Bounded, InStep
  <1>9. PairInvs'
    <2> SUFFICES ASSUME NEW p \in Runs, NEW q \in Runs, Live(p)', Live(q)'
                 PROVE  PairInv(p, q)'
      BY DEF PairInvs
    <2>1. /\ Live(p) /\ Offer(p)' = Offer(p) /\ Live(q) /\ Offer(q)' = Offer(q)
          /\ PairInv(p, q)
      BY <1>4 DEF Data, PairInvs
    <2>2. QED
      BY <1>4, <2>1 DEF PairInv, InStep
  <1>10. StoreAhead'
    <2>1. Answers(upstream.msgs) \subseteq Answers(Offer(r).msgs)
      BY <1>7 DEF Data, StoreAhead, LiveInv
    <2>2. QED
      BY <1>1, <2>1 DEF StoreAhead
  <1>11. CurrentInv'
    <2> SUFFICES ASSUME ~Current.persistUnsafe PROVE CurrentInv'
      BY <1>1 DEF CurrentInv
    <2>1. Settled' <=> Settled
      BY <1>1, <1>4 DEF Settled
    <2>2. ASSUME Settled PROVE WarmInv' /\ Comparable(Held.msgs, thread)'
      <3>1. WarmInv
        BY <2>2 DEF Data, CurrentInv
      <3>2. /\ Below(Offer(r).msgs, Current.history) /\ Bounded(Offer(r), Current.serverV)
            /\ Comparable(Offer(r).msgs, thread)
        BY <3>1 DEF WarmInv
      <3>3. \A q \in Runs : Live(q)' =>
              /\ Below(Offer(q)'.msgs, Current.history)
              /\ Bounded(Offer(q)', Current.serverV)
              /\ Comparable(Offer(q)'.msgs, thread)
              /\ run'[q].sess # conns => Below(Offer(q)'.msgs, thread)
        BY <1>4, <3>1 DEF WarmInv
      <3>4. Current.serverV <= Offer(r).v
        BY <1>5, <1>6, <3>1, Types DEF WarmInv
      <3>5. QED
        BY <1>1, <1>6, <3>1, <3>2, <3>3, <3>4 DEF WarmInv, Below, Bounded, Comparable
    <2>3. ASSUME ~Settled PROVE ColdInv' /\ Comparable(Held.msgs, thread)'
      <3>1. ColdInv /\ Below(Offer(r).msgs, thread)
        BY <2>3 DEF Data, CurrentInv, ColdInv
      <3>2. \A q \in Runs : Live(q)' => Below(Offer(q)'.msgs, thread)
        BY <1>4, <3>1 DEF ColdInv
      <3>3. ASSUME NEW p \in Runs, run'[p].pc = "fetched"
            PROVE  /\ Comparable(run'[p].got, thread)
                   /\ Answers(upstream.msgs) \subseteq Answers(run'[p].got) \cup Answers(thread)
                   /\ Current.serverV <= Offer(r).v /\ Bounded(Offer(r), Current.serverV)
                   /\ \A q \in Runs : Live(q)' => Bounded(Offer(q)', Current.serverV)
        <4>1. /\ run[p].pc = "fetched" /\ run'[p] = run[p]
              /\ Current.serverV <= Held.v
          BY <1>4, <3>1, <3>3 DEF ColdInv
        <4>2. Current.serverV <= Offer(r).v
          BY <1>5, <1>6, <4>1, Types
        <4>3. QED
          BY <1>4, <3>1, <4>1, <4>2 DEF ColdInv
      <3>4. QED
        BY <1>1, <1>6, <3>1, <3>2, <3>3 DEF ColdInv, Below, Bounded, Comparable
    <2>4. QED
      BY <2>1, <2>2, <2>3 DEF CurrentInv
  <1>12. AnswersStored'
    <2> SUFFICES ASSUME NEW q \in Runs, run'[q].pc = "done",
                        ~Session(q).persistUnsafe, InStep(Session(q))
                 PROVE  Answer(q) \in Answers(Offer(r).msgs)
      BY <1>1, <1>4 DEF AnswersStored, InStep
    <2>1. CASE q = r
      BY <1>7, <2>1 DEF LiveInv
    <2>2. CASE run[q].pc = "done"
      BY <1>7, <2>2 DEF Data, AnswersStored
    <2>3. QED
      BY <1>4, <2>1, <2>2
  <1>13. QED
    BY <1>8, <1>9, <1>10, <1>11, <1>12 DEF Data
\* amp's server takes the upload of r, or refuses it.
LEMMA DataUpstream ==
  ASSUME TypeOK, Shape, Data, calm, NEW r \in Runs, UploadUpstream(r), Live(r)
  PROVE  Data'
  <1> USE DEF At, Session, Current
  <1>1. /\ run[r].pc = "upstream" /\ run[r].upload = Offer(r)
        /\ UNCHANGED <<store, thread, conns, sess, runs, calm>>
        /\ upstream' = upstream \/ (upstream' = Offer(r) /\ Offer(r).v > upstream.v)
    BY DEF UploadUpstream, Newer, Offer, Uploading, sessVars
  <1>2. /\ run'[r].pc = "done" /\ SameLocals(r)
        /\ \A q \in Runs : q # r => run'[q] = run[q]
    BY GoIs DEF UploadUpstream, PC
  <1>3. \A q \in Runs :
          /\ run'[q].sess = run[q].sess /\ Session(q)' = Session(q)
          /\ Live(q)' => Live(q) /\ Offer(q)' = Offer(q) /\ q # r /\ run'[q] = run[q]
          /\ Hydrating(q)' <=> Hydrating(q)
          /\ run'[q].pc = "fetched" => run[q].pc = "fetched" /\ run'[q] = run[q]
          /\ run'[q].pc = "done" => run[q].pc = "done" \/ q = r
    BY <1>1, <1>2 DEF Live, Offer, Uploading, SameLocals, Hydrating
  <1>4. /\ store # NoThread /\ Answers(Offer(r).msgs) \subseteq Answers(store.msgs)
        /\ Answer(r) \in Answers(Offer(r).msgs)
        /\ Answers(upstream.msgs) \subseteq Answers(store.msgs)
    BY <1>1 DEF Data, LiveInvs, LiveInv, StoreAhead
  <1>5. Held' = store /\ Held = store
    BY <1>1, <1>4 DEF Held
  <1>6. upstream.v \in Nat /\ \A q \in Runs : Offer(q).v \in Nat
    BY Types, OfferTypes
  <1>7. LiveInvs'
    <2> SUFFICES ASSUME NEW q \in Runs, Live(q)' PROVE LiveInv(q)'
      BY DEF LiveInvs
    <2>1. Live(q) /\ Offer(q)' = Offer(q) /\ LiveInv(q) /\ PairInv(r, q)
      BY <1>3 DEF Data, LiveInvs, PairInvs
    <2>2. Offer(q).v > upstream'.v => Answers(upstream'.msgs) \subseteq Answers(Offer(q).msgs)
      BY <1>1, <1>6, <2>1 DEF LiveInv, PairInv
    <2>3. QED
      BY <1>1, <1>3, <1>4, <1>5, <2>1, <2>2 DEF LiveInv, Bounded, InStep
  <1>8. PairInvs'
    <2> SUFFICES ASSUME NEW p \in Runs, NEW q \in Runs, Live(p)', Live(q)'
                 PROVE  PairInv(p, q)'
      BY DEF PairInvs
    <2>1. /\ Live(p) /\ Offer(p)' = Offer(p) /\ Live(q) /\ Offer(q)' = Offer(q)
          /\ PairInv(p, q)
      BY <1>3 DEF Data, PairInvs
    <2>2. QED
      BY <1>3, <2>1 DEF PairInv, InStep
  <1>9. StoreAhead'
    BY <1>1, <1>4 DEF StoreAhead
  <1>10. CurrentInv'
    <2> SUFFICES ASSUME ~Current.persistUnsafe PROVE CurrentInv'
      BY <1>1 DEF CurrentInv
    <2>1. Settled' <=> Settled
      BY <1>1, <1>3 DEF Settled
    <2>2. Comparable(Held.msgs, thread)'
      BY <1>1, <1>5 DEF Data, CurrentInv, Comparable, Below
    <2>3. ASSUME Settled PROVE WarmInv'
      <3>1. WarmInv
        BY <2>3 DEF Data, CurrentInv
      <3>2. Answers(upstream'.msgs) \subseteq Answers(Current.history)
        BY <1>1, <3>1 DEF WarmInv, Below
      <3>3. \A q \in Runs : Live(q)' =>
              /\ Below(Offer(q)'.msgs, Current.history)
              /\ Bounded(Offer(q)', Current.serverV)
              /\ Comparable(Offer(q)'.msgs, thread)
              /\ run'[q].sess # conns => Below(Offer(q)'.msgs, thread)
        BY <1>3, <3>1 DEF WarmInv
      <3>4. QED
        BY <1>1, <1>4, <1>5, <3>1, <3>2, <3>3 DEF WarmInv, Below, Bounded, Comparable
    <2>4. ASSUME ~Settled PROVE ColdInv'
      <3>1. ColdInv /\ Below(Offer(r).msgs, thread)
        BY <2>4 DEF Data, CurrentInv, ColdInv
      <3>2. \A q \in Runs : Live(q)' => Below(Offer(q)'.msgs, thread)
        BY <1>3, <3>1 DEF ColdInv
      <3>3. ASSUME NEW p \in Runs, run'[p].pc = "fetched"
            PROVE  /\ Comparable(run'[p].got, thread)
                   /\ Below(store.msgs, run'[p].got) \/ Below(store.msgs, thread)
                   /\ Answers(upstream'.msgs) \subseteq Answers(run'[p].got) \cup Answers(thread)
                   /\ Current.serverV <= store.v /\ Bounded(store, Current.serverV)
                   /\ \A q \in Runs : Live(q)' => Bounded(Offer(q)', Current.serverV)
        <4>1. run[p].pc = "fetched" /\ run'[p] = run[p]
          BY <1>3, <3>3
        <4>2. Answers(upstream'.msgs) \subseteq Answers(run'[p].got) \cup Answers(thread)
          BY <1>1, <3>1, <4>1 DEF ColdInv, Below
        <4>3. QED
          BY <1>3, <1>5, <3>1, <4>1, <4>2 DEF ColdInv
      <3>4. QED
        BY <1>1, <1>4, <1>5, <3>1, <3>2, <3>3 DEF ColdInv, Below, Bounded, Comparable
    <2>5. QED
      BY <2>1, <2>2, <2>3, <2>4 DEF CurrentInv
  <1>11. AnswersStored'
    <2> SUFFICES ASSUME NEW q \in Runs, run'[q].pc = "done",
                        ~Session(q).persistUnsafe, InStep(Session(q))
                 PROVE  Answer(q) \in Answers(store.msgs)
      BY <1>1, <1>3 DEF AnswersStored, InStep
    <2>1. CASE q = r
      BY <1>4, <2>1
    <2>2. CASE run[q].pc = "done"
      BY <2>2 DEF Data, AnswersStored
    <2>3. QED
      BY <1>3, <2>1, <2>2
  <1>12. QED
    BY <1>7, <1>8, <1>9, <1>10, <1>11 DEF Data

\* A message m joins the history of a hydrated session: the prompt of a run
\* that starts, or the answer of one that wants to upload it.
Grows(r, m) ==
  /\ sess'[conns].history = Append(Current.history, m)
  /\ sess'[conns].hydrated = Current.hydrated
  /\ sess'[conns].persistUnsafe = Current.persistUnsafe
  /\ sess'[conns].serverV = Current.serverV
  /\ sess'[conns].serverPriorLen = Current.serverPriorLen
  /\ \A c \in Conns : c # conns => sess'[c] = sess[c]
  /\ OthersSame(r) /\ run'[r].sess = conns
  /\ UNCHANGED <<store, upstream, conns>>
  /\ \/ /\ run'[r].pc = "cold" /\ ~run'[r].needsHydrate /\ thread' = thread
     \/ /\ run'[r].pc = "check" /\ m = Answer(r)
        /\ thread' = sess'[conns].history

\* What the uploads of the session offer from then on is greater than all
\* there is.
LEMMA DataGrow ==
  ASSUME TypeOK, Shape, Data, calm, NEW r \in Runs, NEW m \in Message, Grows(r, m),
         Settled, ~Current.persistUnsafe, ~Live(r), ~At(r, "done")
  PROVE  Data'
  <1> USE DEF At, Session, Current, OthersSame, Grows
  <1> DEFINE h == Current.history
             grown == Append(h, m)
             v == UploadV(sess'[conns])
             kept(q) == Live(q) /\ Offer(q)' = Offer(q) /\ run'[q] = run[q]
  <1>1. /\ h \in Seq(Message) /\ Len(h) \in Nat /\ conns \in Conns
        /\ sess[conns] \in SessionRecord /\ thread \in Seq(Message)
        /\ Current.serverV \in Nat /\ Current.serverPriorLen \in Nat
        /\ store.v \in Nat /\ upstream.v \in Nat /\ Held.v \in Nat
        /\ Held.msgs \in Seq(Message)
    BY Types
  <1>2. /\ grown \in Seq(Message) /\ Len(grown) = Len(h) + 1
        /\ Answers(h) \subseteq Answers(grown)
        /\ m = Answer(r) => m \in Answers(grown)
    <2>1. grown \in Seq(Message)
      BY <1>1, AppendProperties
    <2>2. m = Answer(r) => m.by = "assistant"
      BY DEF Answer
    <2>3. QED
      BY <1>1, <2>1, <2>2, AnswersAppend
  <1>3. WarmInv
    BY DEF Data, CurrentInv
  <1>4. /\ v \in Nat /\ v >= Current.serverV + 1 /\ v >= Len(h) + 2
        /\ v = Current.serverV + 1 \/ v = Len(h) + 2
        /\ UploadV(Current) \in Nat
    <2>1. v = IF Current.serverV + 1 > Len(grown) + 1 THEN Current.serverV + 1
              ELSE Len(grown) + 1
      BY DEF UploadV
    <2>2. UploadV(Current) \in Nat
      BY <1>1, UploadVIs
    <2>3. QED
      BY <1>1, <1>2, <2>1, <2>2
  <1>5. /\ Len(h) >= Current.serverPriorLen + 1
        /\ InStep(Current) => Current.serverV + 1 < v
    BY <1>1, <1>3, <1>4 DEF WarmInv, InStep
  <1>6. \A q \in Runs :
          /\ q # r => run'[q] = run[q]
          /\ Session(q)'.persistUnsafe = sess[run'[q].sess].persistUnsafe
          /\ InStep(Session(q))' <=> InStep(sess[run'[q].sess])
          /\ Session(q)'.serverPriorLen = sess[run'[q].sess].serverPriorLen
    <2>1. \A c \in Conns :
            /\ sess'[c].persistUnsafe = sess[c].persistUnsafe
            /\ sess'[c].serverV = sess[c].serverV
            /\ sess'[c].serverPriorLen = sess[c].serverPriorLen
      OBVIOUS
    <2>2. \A q \in Runs : run'[q].sess \in Conns
      BY <1>1, Types
    <2>3. QED
      BY <2>1, <2>2 DEF InStep
  <1> DEFINE fresh(q) == /\ Offer(q)'.v = v /\ Offer(q)'.msgs = grown
                         /\ run'[q].pc \in {"check", "build"}
                         /\ run'[q].sess = conns
                         /\ Answer(q) \in Answers(grown)
                         /\ q # r => Live(q) /\ run[q].sess = conns
  <1> HIDE DEF h, grown, v
  <1>7. ASSUME NEW q \in Runs, Live(q)'
        PROVE  \/ q # r /\ kept(q)
               \/ fresh(q)
    <2>1. CASE q = r
      <3>1. run'[r].pc = "check" /\ m = Answer(r)
        BY <1>7, <2>1 DEF Live
      <3>2. Offer(r)'.v = v /\ Offer(r)'.msgs = grown
        BY <3>1 DEF Offer, Uploading, v, grown, h
      <3>3. QED
        BY <1>2, <2>1, <3>1, <3>2
    <2>2. CASE q # r /\ (Uploading(q) \/ run[q].sess # conns)
      <3>1. run'[q] = run[q] /\ Live(q)
        BY <1>6, <1>7, <2>2 DEF Live
      <3>2. Offer(q)' = Offer(q)
        <4>1. CASE Uploading(q)
          BY <3>1, <4>1 DEF Offer, Uploading
        <4>2. CASE run[q].sess # conns
          <5>1. sess'[run[q].sess] = sess[run[q].sess]
            BY <4>2, Types
          <5>2. QED
            BY <3>1, <5>1 DEF Offer, Uploading
        <4>3. QED
          BY <2>2, <4>1, <4>2
      <3>3. QED
        BY <2>2, <3>1, <3>2
    <2>3. CASE q # r /\ ~Uploading(q) /\ run[q].sess = conns
      <3>1. run'[q] = run[q] /\ Live(q)
        BY <1>6, <1>7, <2>3 DEF Live
      <3>2. Offer(q)'.v = v /\ Offer(q)'.msgs = grown /\ Offer(q).msgs = h
        BY <2>3, <3>1 DEF Offer, Uploading, v, grown, h
      <3>3. Answer(q) \in Answers(h)
        BY <3>1, <3>2 DEF Data, LiveInvs, LiveInv
      <3>4. run[q].pc \in {"check", "build"}
        BY <2>3, <3>1 DEF Live, Uploading
      <3>5. QED
        BY <1>2, <2>3, <3>1, <3>2, <3>3, <3>4
    <2>4. QED
      BY <2>1, <2>2, <2>3
  <1> HIDE DEF kept, fresh
  <1>8. ASSUME NEW q \in Runs, Live(q)
        PROVE  /\ Offer(q).v \in Nat /\ Offer(q).v <= v
               /\ InStep(Current) => Offer(q).v < v
               /\ Answers(Offer(q).msgs) \subseteq Answers(grown)
               /\ Below(Offer(q).msgs, h) /\ Bounded(Offer(q), Current.serverV)
               /\ Answer(q) \in Answers(grown)
    <2>1. /\ Below(Offer(q).msgs, h) /\ Bounded(Offer(q), Current.serverV)
          /\ Answer(q) \in Answers(Offer(q).msgs)
      BY <1>3, <1>8 DEF WarmInv, h, Data, LiveInvs, LiveInv
    <2>2. Offer(q).v \in Nat /\ Len(Offer(q).msgs) \in Nat
      BY OfferTypes
    <2>3. /\ Len(Offer(q).msgs) <= Len(h)
          /\ Answers(Offer(q).msgs) \subseteq Answers(h)
          /\ Offer(q).v <= Current.serverV + 1 \/ Offer(q).v <= Len(Offer(q).msgs) + 1
      BY <2>1 DEF Below, Bounded
    <2>4. Offer(q).v <= v /\ (InStep(Current) => Offer(q).v < v)
      BY <1>1, <1>4, <1>5, <2>2, <2>3
    <2>5. QED
      BY <1>2, <2>1, <2>2, <2>3, <2>4
  <1>9. /\ Held' = Held /\ Answers(store.msgs) \subseteq Answers(grown)
        /\ Answers(upstream.msgs) \subseteq Answers(grown)
        /\ store.v <= v
        /\ InStep(Current) => store.v < v
        /\ store = NoThread => v > upstream.v
    <2>1. Held' = Held
      BY DEF Held
    <2>2. CASE store = NoThread
      <3>1. store.v = 0 /\ Answers(store.msgs) = {}
        BY <2>2, AnswersEmpty DEF NoThread
      <3>2. QED
        BY <1>1, <1>2, <1>3, <1>4, <2>1, <2>2, <3>1 DEF WarmInv, h
    <2>3. CASE store # NoThread
      <3>1. Below(store.msgs, h) /\ Bounded(store, Current.serverV) /\ Len(store.msgs) \in Nat
        BY <1>1, <1>3, <2>3, Types, LenProperties DEF WarmInv, Held, h
      <3>2. /\ Len(store.msgs) <= Len(h)
            /\ Answers(store.msgs) \subseteq Answers(h)
            /\ store.v <= Current.serverV + 1 \/ store.v <= Len(store.msgs) + 1
        BY <3>1 DEF Below, Bounded
      <3>3. store.v <= v /\ (InStep(Current) => store.v < v)
        BY <1>1, <1>4, <1>5, <3>1, <3>2
      <3>4. Answers(upstream.msgs) \subseteq Answers(grown)
        BY <1>2, <1>3 DEF WarmInv, h
      <3>5. QED
        BY <1>2, <2>1, <2>3, <3>2, <3>3, <3>4
    <2>4. QED
      BY <2>2, <2>3
  <1>10. Bounded([v |-> v, msgs |-> grown], Current.serverV)
    BY <1>2, <1>4 DEF Bounded
  <1>11. LiveInvs'
    <2> SUFFICES ASSUME NEW q \in Runs, Live(q)' PROVE LiveInv(q)'
      BY DEF LiveInvs
    <2>1. CASE kept(q)
      <3>1. LiveInv(q)
        BY <2>1 DEF kept, Data, LiveInvs
      <3>2. QED
        BY <1>6, <1>9, <2>1, <3>1 DEF kept, LiveInv, Bounded
    <2>2. CASE fresh(q)
      <3>1. Bounded(Offer(q)', Held.v)
        BY <1>1, <1>2, <1>3, <1>4, <2>2 DEF Bounded, WarmInv, fresh
      <3>2. Len(grown) >= Current.serverPriorLen + 2
        BY <1>1, <1>2, <1>5
      <3>3. ~(InStep(Current) /\ store.v >= v)
        BY <1>1, <1>4, <1>9
      <3>4. /\ Session(q)'.serverPriorLen = Current.serverPriorLen
            /\ InStep(Session(q))' <=> InStep(Current)
        BY <1>6, <2>2 DEF fresh
      <3>5. QED
        BY <1>9, <2>2, <3>1, <3>2, <3>3, <3>4 DEF fresh, LiveInv, Bounded
    <2>3. QED
      BY <1>7, <2>1, <2>2
  <1>12. PairInvs'
    <2> SUFFICES ASSUME NEW p \in Runs, NEW q \in Runs, Live(p)', Live(q)'
                 PROVE  PairInv(p, q)'
      BY DEF PairInvs
    <2>1. CASE kept(p) /\ kept(q)
      <3>1. PairInv(p, q)
        BY <2>1 DEF kept, Data, PairInvs
      <3>2. QED
        BY <1>6, <2>1, <3>1 DEF kept, PairInv
    <2>2. CASE kept(p) /\ fresh(q)
      BY <1>8, <2>2 DEF kept, fresh, PairInv
    <2>3. CASE fresh(p) /\ fresh(q)
      BY <1>4, <2>3 DEF fresh, PairInv
    <2>4. CASE fresh(p) /\ kept(q)
      <3>1. /\ Offer(q)' = Offer(q) /\ Offer(q).v \in Nat /\ Offer(q).v <= v
            /\ InStep(Current) => Offer(q).v < v
        BY <1>8, <2>4 DEF kept
      <3>2. Offer(p)'.v = v /\ (InStep(Session(p))' <=> InStep(Current))
        BY <1>6, <2>4 DEF fresh
      <3>3. QED
        BY <1>4, <3>1, <3>2 DEF PairInv
    <2>5. QED
      BY <1>7, <2>1, <2>2, <2>3, <2>4
  <1>13. StoreAhead'
    BY DEF Data, StoreAhead
  <1>14. CurrentInv'
    <2>1. Below(h, grown) /\ Below(grown, grown)
      BY <1>1, <1>2, BelowAppend, BelowRefl DEF grown
    <2>2. \A x \in Seq(Message) : Below(x, h) => Below(x, grown)
      BY <1>1, <1>2, <2>1, BelowTrans
    <2>3. Below(Held.msgs, grown) /\ Below(thread, grown) /\ Comparable(Held.msgs, thread)
      BY <1>1, <1>3, <2>2 DEF WarmInv, h, Data, CurrentInv
    <2>4. sess'[conns].history = grown /\ (thread' = thread \/ thread' = grown)
      BY DEF grown, h
    <2>5. Comparable(Held.msgs, thread') /\ Below(thread', grown)
      BY <2>1, <2>3, <2>4 DEF Comparable
    <2>6. Settled'
      BY DEF Settled, Hydrating
    <2>7. ASSUME NEW q \in Runs, Live(q)'
          PROVE  /\ Below(Offer(q)'.msgs, grown)
                 /\ Bounded(Offer(q)', Current.serverV)
                 /\ Comparable(Offer(q)'.msgs, thread')
                 /\ run'[q].sess # conns => Below(Offer(q)'.msgs, thread')
      <3>1. CASE kept(q)
        <4>1. /\ Live(q) /\ Offer(q)' = Offer(q) /\ run'[q] = run[q]
              /\ Offer(q).msgs \in Seq(Message)
          BY <3>1, OfferTypes DEF kept
        <4>2. /\ Below(Offer(q).msgs, h) /\ Bounded(Offer(q), Current.serverV)
              /\ Comparable(Offer(q).msgs, thread)
              /\ run[q].sess # conns => Below(Offer(q).msgs, thread)
          BY <1>3, <4>1 DEF WarmInv, h
        <4>3. Below(Offer(q).msgs, grown)
          BY <2>2, <4>1, <4>2
        <4>4. Comparable(Offer(q).msgs, grown)
          BY <4>3 DEF Comparable
        <4>5. QED
          BY <2>4, <4>1, <4>2, <4>3, <4>4
      <3>2. CASE fresh(q)
        BY <1>10, <2>1, <2>5, <3>2 DEF fresh, Comparable, Bounded
      <3>3. QED
        BY <1>7, <2>7, <3>1, <3>2
    <2>8. WarmInv'
      <3>1. Len(grown) >= Current.serverPriorLen + 1
        BY <1>1, <1>2, <1>5
      <3>2. /\ Current.serverV <= Held.v /\ Bounded(store, Current.serverV)
            /\ store = NoThread => upstream.v <= Current.serverV
        BY <1>3 DEF WarmInv
      <3>3. QED
        BY <1>9, <2>3, <2>4, <2>5, <2>7, <3>1, <3>2 DEF WarmInv, Below, Bounded, Comparable
    <2>9. QED
      BY <1>9, <2>5, <2>6, <2>8 DEF CurrentInv, Comparable, Below
  <1>15. AnswersStored'
    <2> SUFFICES ASSUME NEW q \in Runs, run'[q].pc = "done",
                        ~Session(q)'.persistUnsafe, InStep(Session(q))'
                 PROVE  Answer(q) \in Answers(store.msgs)
      BY DEF AnswersStored
    <2>1. QED
      BY <1>6 DEF Data, AnswersStored
  <1>16. QED
    BY <1>11, <1>12, <1>13, <1>14, <1>15 DEF Data

\* The uploads under way, and what the finished ones left, stay as they are.
SameUploads ==
  /\ UNCHANGED <<store, upstream>>
  /\ \A q \in Runs : Live(q)' => Live(q) /\ Offer(q)' = Offer(q)
  /\ \A q \in Runs : Live(q)' \/ run'[q].pc = "done" =>
       /\ run'[q].pc = run[q].pc /\ run'[q].sess = run[q].sess
       /\ Session(q)'.persistUnsafe = Session(q).persistUnsafe
       /\ Session(q)'.serverV = Session(q).serverV
       /\ Session(q)'.serverPriorLen = Session(q).serverPriorLen

\* A step in a session that has uploaded nothing.
LEMMA Elsewhere ==
  ASSUME TypeOK, NEW c \in Conns, UNCHANGED <<store, upstream>>,
         \A d \in Conns : d # c => sess'[d] = sess[d],
         \A q \in Runs : Live(q)' \/ run'[q].pc = "done" =>
           run'[q] = run[q] /\ run[q].sess # c
  PROVE  SameUploads
  <1> USE DEF Session, At
  <1>1. ASSUME NEW q \in Runs, Live(q)' \/ run'[q].pc = "done"
        PROVE  run'[q] = run[q] /\ sess'[run[q].sess] = sess[run[q].sess]
    BY <1>1, Types
  <1>2. ASSUME NEW q \in Runs, Live(q)'
        PROVE  Live(q) /\ Offer(q)' = Offer(q)
    BY <1>1, <1>2 DEF Live, Offer, Uploading
  <1>3. QED
    BY <1>1, <1>2 DEF SameUploads

LEMMA DataKept ==
  ASSUME Data, calm, SameUploads, CurrentInv'
  PROVE  Data'
  <1> USE DEF At, SameUploads
  <1>1. Held' = Held
    BY DEF Held
  <1>2. \A q \in Runs : Live(q)' \/ run'[q].pc = "done" =>
          InStep(Session(q))' <=> InStep(Session(q))
    BY DEF InStep
  <1>3. LiveInvs'
    <2> SUFFICES ASSUME NEW q \in Runs, Live(q)' PROVE LiveInv(q)'
      BY DEF LiveInvs
    <2>1. LiveInv(q) /\ Offer(q)' = Offer(q)
      BY DEF Data, LiveInvs
    <2>2. QED
      BY <1>1, <1>2, <2>1 DEF LiveInv, Bounded
  <1>4. PairInvs'
    <2> SUFFICES ASSUME NEW p \in Runs, NEW q \in Runs, Live(p)', Live(q)'
                 PROVE  PairInv(p, q)'
      BY DEF PairInvs
    <2>1. PairInv(p, q) /\ Offer(p)' = Offer(p) /\ Offer(q)' = Offer(q)
      BY DEF Data, PairInvs
    <2>2. QED
      BY <1>2, <2>1 DEF PairInv
  <1>5. StoreAhead'
    BY DEF Data, StoreAhead
  <1>6. AnswersStored'
    <2> SUFFICES ASSUME NEW q \in Runs, run'[q].pc = "done",
                        ~Session(q)'.persistUnsafe, InStep(Session(q))'
                 PROVE  Answer(q) \in Answers(store.msgs)
      BY DEF AnswersStored, Session
    <2>1. run[q].pc = "done" /\ ~Session(q).persistUnsafe /\ InStep(Session(q))
      BY <1>2
    <2>2. QED
      BY <2>1 DEF Data, AnswersStored, Session
  <1>7. QED
    BY <1>3, <1>4, <1>5, <1>6 DEF Data

\* A session that could not hydrate uploads nothing.
LEMMA DataUnsafe ==
  ASSUME TypeOK, Shape, Data, calm, NEW r \in Runs, NEW m \in Message, Grows(r, m),
         Current.persistUnsafe
  PROVE  Data'
  <1> USE DEF At, Session, Current, OthersSame, Grows
  <1>1. CurrentInv'
    BY DEF CurrentInv
  <1>2. \A c \in Conns :
          /\ sess'[c].persistUnsafe = sess[c].persistUnsafe
          /\ sess'[c].serverV = sess[c].serverV
          /\ sess'[c].serverPriorLen = sess[c].serverPriorLen
    OBVIOUS
  <1>3. ASSUME NEW q \in Runs, Live(q)' \/ run'[q].pc = "done"
        PROVE  run'[q] = run[q] /\ run[q].sess \in Conns
    <2>1. ~Live(r)' /\ run'[r].pc # "done"
      BY DEF Live
    <2>2. QED
      BY <1>3, <2>1, Types
  <1>4. ASSUME NEW q \in Runs, Live(q)'
        PROVE  Live(q) /\ Offer(q)' = Offer(q)
    <2>1. run'[q] = run[q] /\ run[q].sess # conns
      BY <1>3, <1>4 DEF Live
    <2>2. sess'[run[q].sess] = sess[run[q].sess]
      BY <1>3, <1>4, <2>1
    <2>3. QED
      BY <1>4, <2>1, <2>2 DEF Live, Offer, Uploading
  <1>5. SameUploads
    BY <1>2, <1>3, <1>4 DEF SameUploads
  <1>6. QED
    BY <1>1, <1>5, DataKept

\* The first prompt of a session: its run is about to hydrate it.
LEMMA DataFirst ==
  ASSUME TypeOK, Shape, Data, calm, NEW prompt \in Message, ~Current.hydrated,
         StartRun(Append(Current.history, prompt), prompt)
  PROVE  Data'
  <1> DEFINE n == runs + 1
             h == Append(Current.history, prompt)
  <1> USE DEF At, Executing, Hydrating, Current
  <1>1. h \in Seq(Message) /\ conns \in Conns
    BY Types, AppendProperties
  <1>2. /\ n \in Runs /\ run'[n].pc = "cold" /\ run'[n].needsHydrate
        /\ run'[n].sess = conns
        /\ \A q \in Runs : q # n => run'[q] = run[q]
        /\ sess'[conns].persistUnsafe = sess[conns].persistUnsafe
        /\ \A c \in Conns : c # conns => sess'[c] = sess[c]
        /\ UNCHANGED <<store, upstream, thread, conns>>
    BY <1>1, StartIs
  <1> HIDE DEF h, n
  <1>3. \A q \in Runs : ~Executing(q) /\ (run[q].sess = conns => run[q].pc = "none")
    BY DEF Shape, StartRun, Busy
  <1>4. \A q \in Runs : Live(q)' \/ run'[q].pc = "done" =>
          run'[q] = run[q] /\ run[q].sess # conns
    BY <1>2, <1>3 DEF Live
  <1>5. SameUploads
    BY <1>1, <1>2, <1>4, Elsewhere
  <1>6. CurrentInv'
    <2> SUFFICES ASSUME ~Current.persistUnsafe PROVE CurrentInv'
      BY <1>2 DEF CurrentInv
    <2>1. ~Settled /\ ~Settled'
      BY <1>2 DEF Settled
    <2>2. ColdInv /\ Comparable(Held.msgs, thread)
      BY <2>1 DEF Data, CurrentInv
    <2>3. \A q \in Runs : run'[q].pc # "fetched"
      BY <1>2, <1>3
    <2>4. ColdInv'
      BY <1>2, <1>5, <2>2, <2>3 DEF ColdInv, SameUploads, Below
    <2>5. QED
      BY <1>2, <2>1, <2>2, <2>4 DEF CurrentInv, Held, Comparable, Below
  <1>7. QED
    BY <1>5, <1>6, DataKept

\* The session reads what is held of the thread.
LEMMA DataFetched ==
  ASSUME TypeOK, Shape, Data, calm, NEW r \in Runs, At(r, "cold"), Hydrating(r),
         FetchedIs(r, Held), UNCHANGED <<store, upstream, thread, conns>>
  PROVE  Data'
  <1> USE DEF At, Session, Hydrating, Current, FetchedIs, OthersSame, SameLocals
  <1>1. run[r].sess = conns /\ conns \in Conns /\ ~Current.persistUnsafe
    BY Types DEF Shape, Executing
  <1>2. \A q \in Runs :
          /\ run[q].sess = conns /\ q # r => run[q].pc = "none"
          /\ q # r => run[q].pc # "fetched"
    BY <1>1 DEF Shape, Executing
  <1>3. \A q \in Runs : Live(q)' \/ run'[q].pc = "done" =>
          run'[q] = run[q] /\ run[q].sess # conns
    BY <1>2 DEF Live
  <1>4. SameUploads
    BY <1>1, <1>3, Elsewhere
  <1>5. CurrentInv'
    <2>1. ~Settled /\ ~Settled'
      BY DEF Settled
    <2>2. ColdInv /\ Comparable(Held.msgs, thread)
      BY <1>1, <2>1 DEF Data, CurrentInv
    <2>3. Below(Held.msgs, Held.msgs) /\ Held.v \in Nat /\ store.v \in Nat
      BY Types, BelowRefl
    <2>4. Answers(upstream.msgs) \subseteq Answers(Held.msgs)
      BY DEF Data, StoreAhead, Held
    <2>5. Bounded(store, Held.v) /\ (store = NoThread => upstream.v <= Held.v)
      BY <2>3, Types DEF Bounded, Held
    <2>6. \A q \in Runs : Live(q)' =>
            Below(Offer(q)'.msgs, thread) /\ Bounded(Offer(q)', Held.v)
      BY <1>4, <2>2 DEF SameUploads, ColdInv, Data, LiveInvs, LiveInv
    <2>7. Held' = Held
      BY DEF Held
    <2>8. \A q \in Runs : run'[q].pc = "fetched" => q = r
      BY <1>2
    <2>9. ColdInv'
      BY <2>2, <2>3, <2>4, <2>5, <2>6, <2>7, <2>8 DEF ColdInv, Below, Bounded, Comparable
    <2>10. QED
      BY <2>1, <2>2, <2>7, <2>9 DEF CurrentInv, Comparable, Below
  <1>6. QED
    BY <1>4, <1>5, DataKept

LEMMA DataFetchFails ==
  ASSUME TypeOK, Shape, Data, calm, NEW r \in Runs, FetchFails(r)
  PROVE  Data'
  <1> USE DEF At, Session, Hydrating, Current
  <1>1. run[r].sess = conns /\ conns \in Conns /\ conns' = conns
    BY Types DEF FetchFails, Shape, Executing
  <1>2. /\ run'[r].pc = "warm" /\ \A q \in Runs : q # r => run'[q] = run[q]
        /\ sess'[conns].persistUnsafe
        /\ \A c \in Conns : c # conns => sess'[c] = sess[c]
    <2>1. run'[r].pc = "warm" /\ \A q \in Runs : q # r => run'[q] = run[q]
      BY GoIs DEF FetchFails, PC
    <2>2. sess'[conns] = [sess[conns] EXCEPT !.persistUnsafe = TRUE]
      BY <1>1 DEF FetchFails, TypeOK
    <2>3. \A c \in Conns : c # conns => sess'[c] = sess[c]
      BY <1>1 DEF FetchFails, TypeOK
    <2>4. QED
      BY <1>1, <2>1, <2>2, <2>3, Types DEF SessionRecord
  <1>3. \A q \in Runs : run[q].sess = conns /\ q # r => run[q].pc = "none"
    BY <1>1 DEF Shape, FetchFails
  <1>4. \A q \in Runs : Live(q)' \/ run'[q].pc = "done" =>
          run'[q] = run[q] /\ run[q].sess # conns
    BY <1>2, <1>3 DEF Live
  <1>5. SameUploads
    BY <1>1, <1>2, <1>4, Elsewhere DEF FetchFails
  <1>6. CurrentInv'
    BY <1>1, <1>2 DEF CurrentInv
  <1>7. QED
    BY <1>5, <1>6, DataKept

\* What the messages that were read make of the history: nothing is dropped.
LEMMA HydrateIs ==
  ASSUME TypeOK, Shape, NEW r \in Runs, Hydrate(r)
  PROVE  LET h == IF Len(run[r].got) >= Len(thread) + 1
                  THEN Append(run[r].got, run[r].prompt)
                  ELSE Append(thread, run[r].prompt)
         IN  /\ run[r].sess = conns /\ Hydrating(r) /\ Current.hydrated
             /\ run'[r].pc = "warm" /\ SameLocals(r) /\ OthersSame(r)
             /\ sess'[conns].history = h
             /\ sess'[conns].serverPriorLen = Len(run[r].got)
             /\ sess'[conns].hydrated = Current.hydrated
             /\ sess'[conns].persistUnsafe = Current.persistUnsafe
             /\ sess'[conns].serverV = Current.serverV
             /\ \A c \in Conns : c # conns => sess'[c] = sess[c]
             /\ UNCHANGED <<store, upstream, thread, conns, runs>>
  <1> DEFINE n == Len(run[r].got)
             h == Hydrated(r, Current.history)
  <1> USE DEF At, Current
  <1>1. run[r].sess = conns /\ Hydrating(r) /\ conns \in Conns
    BY Types DEF Hydrate, Shape, Executing, Hydrating
  <1>2. run'[r].pc = "warm" /\ SameLocals(r) /\ OthersSame(r)
    BY GoIs DEF Hydrate, PC, OthersSame
  <1>3. h = IF n >= Len(thread) + 1 THEN Append(run[r].got, run[r].prompt)
            ELSE Append(thread, run[r].prompt)
    BY <1>1 DEF Hydrated, Shape
  <1>4. sess[conns] \in SessionRecord
    BY Types
  <1>5. /\ sess'[conns] = [sess[conns] EXCEPT !.serverPriorLen = n, !.history = h]
        /\ \A c \in Conns : c # conns => sess'[c] = sess[c]
    BY <1>1, <1>4 DEF Hydrate, TypeOK, SessionRecord
  <1> HIDE DEF n, h
  <1>6. /\ sess'[conns].history = h /\ sess'[conns].serverPriorLen = n
        /\ sess'[conns].hydrated = Current.hydrated
        /\ sess'[conns].persistUnsafe = Current.persistUnsafe
        /\ sess'[conns].serverV = Current.serverV
    BY <1>4, <1>5 DEF SessionRecord
  <1>7. Current.hydrated /\ UNCHANGED <<store, upstream, thread, conns, runs>>
    BY <1>1 DEF Hydrate, Shape
  <1>8. QED
    BY <1>1, <1>2, <1>3, <1>5, <1>6, <1>7 DEF n

LEMMA DataHydrate ==
  ASSUME TypeOK, Shape, Data, calm, NEW r \in Runs, Hydrate(r)
  PROVE  Data'
  <1> USE DEF At, Session, Current, SameLocals, OthersSame
  <1> DEFINE got == run[r].got
             prompt == run[r].prompt
             h == IF Len(got) >= Len(thread) + 1 THEN Append(got, prompt)
                  ELSE Append(thread, prompt)
  <1>1. /\ run[r].sess = conns /\ Hydrating(r) /\ run[r].pc = "fetched"
        /\ Current.hydrated /\ ~Current.persistUnsafe /\ conns \in Conns
        /\ run'[r].pc = "warm" /\ run'[r].sess = conns
        /\ \A q \in Runs : q # r => run'[q] = run[q]
        /\ UNCHANGED <<store, upstream, thread, conns>>
    BY HydrateIs, Types DEF Shape, Hydrate
  <1>2. /\ sess'[conns].history = h
        /\ sess'[conns].serverPriorLen = Len(got)
        /\ sess'[conns].hydrated /\ ~sess'[conns].persistUnsafe
        /\ sess'[conns].serverV = Current.serverV
        /\ \A c \in Conns : c # conns => sess'[c] = sess[c]
    BY <1>1, HydrateIs
  <1>3. \A q \in Runs :
          /\ run[q].sess = conns /\ q # r => run[q].pc = "none"
          /\ Hydrating(q) => q = r
    BY <1>1 DEF Shape, Executing, Hydrating
  <1>4. \A q \in Runs : Live(q)' \/ run'[q].pc = "done" =>
          run'[q] = run[q] /\ run[q].sess # conns
    BY <1>1, <1>3 DEF Live
  <1>5. SameUploads
    BY <1>1, <1>2, <1>4, Elsewhere
  <1>6. ~Settled /\ Settled'
    BY <1>1, <1>2, <1>3 DEF Settled, Hydrating
  <1>7. ColdInv /\ Comparable(Held.msgs, thread)
    BY <1>1, <1>6 DEF Data, CurrentInv
  <1>8. /\ Comparable(got, thread)
        /\ Below(Held.msgs, got) \/ Below(Held.msgs, thread)
        /\ Answers(upstream.msgs) \subseteq Answers(got) \cup Answers(thread)
        /\ Current.serverV <= Held.v /\ Bounded(store, Current.serverV)
        /\ store = NoThread => upstream.v <= Current.serverV
        /\ \A q \in Runs : Live(q) => Bounded(Offer(q), Current.serverV)
    BY <1>1, <1>7 DEF ColdInv
  <1>9. /\ got \in Seq(Message) /\ thread \in Seq(Message) /\ prompt \in Message
        /\ Len(got) \in Nat /\ Len(thread) \in Nat /\ Held.msgs \in Seq(Message)
    BY Types
  <1>10. /\ Append(got, prompt) \in Seq(Message) /\ Append(thread, prompt) \in Seq(Message)
         /\ Len(Append(got, prompt)) = Len(got) + 1
         /\ Len(Append(thread, prompt)) = Len(thread) + 1
         /\ Below(got, Append(got, prompt)) /\ Below(thread, Append(thread, prompt))
    BY <1>9, AppendProperties, AnswersAppend, BelowAppend
  <1> HIDE DEF got, prompt
  <1>11. h \in Seq(Message) /\ Below(got, h) /\ Below(thread, h) /\ Len(h) >= Len(got) + 1
    <2>1. CASE Len(got) >= Len(thread) + 1
      <3>1. Below(thread, got)
        BY <1>8, <1>9, <2>1 DEF Comparable, Below
      <3>2. Below(thread, Append(got, prompt))
        BY <1>9, <1>10, <3>1, BelowTrans
      <3>3. QED
        BY <1>9, <1>10, <2>1, <3>2
    <2>2. CASE ~(Len(got) >= Len(thread) + 1)
      <3>1. Len(got) <= Len(thread) /\ Below(got, thread)
        BY <1>8, <1>9, <2>2 DEF Comparable, Below
      <3>2. Below(got, Append(thread, prompt))
        BY <1>9, <1>10, <3>1, BelowTrans
      <3>3. QED
        BY <1>9, <1>10, <2>2, <3>1, <3>2
    <2>3. QED
      BY <2>1, <2>2
  <1> HIDE DEF h
  <1>12. Below(Held.msgs, h)
    BY <1>8, <1>9, <1>11, BelowTrans
  <1>13. Answers(upstream.msgs) \subseteq Answers(h)
    BY <1>8, <1>11 DEF Below
  <1>14. ASSUME NEW q \in Runs, Live(q)'
         PROVE  /\ Below(Offer(q)'.msgs, h) /\ Bounded(Offer(q)', Current.serverV)
                /\ Below(Offer(q)'.msgs, thread)
    <2>1. Live(q) /\ Offer(q)' = Offer(q) /\ Offer(q).msgs \in Seq(Message)
      BY <1>5, <1>14, OfferTypes DEF SameUploads
    <2>2. Below(Offer(q).msgs, thread) /\ Bounded(Offer(q), Current.serverV)
      BY <1>7, <1>8, <2>1 DEF ColdInv
    <2>3. QED
      BY <1>9, <1>11, <2>1, <2>2, BelowTrans
  <1>15. Held' = Held
    BY <1>1 DEF Held
  <1>16. WarmInv'
    BY <1>1, <1>2, <1>8, <1>11, <1>12, <1>13, <1>14, <1>15
       DEF WarmInv, Below, Bounded, Comparable
  <1>17. CurrentInv'
    BY <1>1, <1>6, <1>7, <1>15, <1>16 DEF CurrentInv, Comparable, Below
  <1>18. QED
    BY <1>5, <1>17, DataKept

\* The next client comes; nothing calm leaves an upload behind that is not
\* below what it binds.
LEMMA DataConnect ==
  ASSUME TypeOK, Shape, Data, calm, Connect, calm'
  PROVE  Data'
  <1> USE DEF At, Session, Current
  <1>1. /\ \A r \in Runs : ~Executing(r)
        /\ \A c \in Conns : ~sess[c].persistUnsafe
        /\ \/ sess[conns].history = thread
           \/ \A r \in Runs : run[r].sess = conns => Ended(r)
        /\ UNCHANGED <<store, upstream, thread, runs, run>>
    BY DEF Connect
  <1>2. /\ conns' = conns + 1 /\ conns + 1 \in Conns /\ conns \in Conns
    BY Types, PersistAssumption DEF Connect, Conns
  <1>3. /\ sess'[conns + 1] = NewSession(thread)
        /\ \A c \in Conns : c # conns + 1 => sess'[c] = sess[c]
    BY <1>2 DEF Connect, TypeOK
  <1>4. \A q \in Runs : run[q].sess = conns + 1 => run[q].pc = "none"
    BY <1>2, Types DEF Shape, Conns
  <1>5. \A q \in Runs : Live(q)' \/ run'[q].pc = "done" =>
          run'[q] = run[q] /\ run[q].sess # conns + 1
    BY <1>1, <1>4 DEF Live
  <1>6. SameUploads
    BY <1>1, <1>2, <1>3, <1>5, Elsewhere
  <1>7. Comparable(Held.msgs, thread) /\ ~Current.persistUnsafe /\ Held' = Held
    BY <1>1, <1>2 DEF Data, CurrentInv, Held
  <1>8. ASSUME NEW q \in Runs, Live(q) PROVE Below(Offer(q).msgs, thread)
    <2>1. CASE Settled
      <3>1. WarmInv
        BY <1>7, <2>1 DEF Data, CurrentInv
      <3>2. ~Ended(q)
        BY <1>8 DEF Live, Ended
      <3>3. QED
        BY <1>1, <1>8, <3>1, <3>2 DEF WarmInv
    <2>2. CASE ~Settled
      BY <1>7, <1>8, <2>2 DEF Data, CurrentInv, ColdInv
    <2>3. QED
      BY <2>1, <2>2
  <1>9. ColdInv'
    <2>1. \A q \in Runs : run'[q].pc # "fetched"
      BY <1>1 DEF Executing
    <2>2. \A q \in Runs : Live(q)' => Below(Offer(q)'.msgs, thread)
      BY <1>6, <1>8 DEF SameUploads
    <2>3. QED
      BY <1>1, <2>1, <2>2 DEF ColdInv, Below
  <1>10. ~Settled'
    BY <1>2, <1>3 DEF Settled, NewSession
  <1>11. CurrentInv'
    BY <1>1, <1>7, <1>9, <1>10 DEF CurrentInv, Comparable, Below
  <1>12. QED
    BY <1>6, <1>11, DataKept

LEMMA DataRestart ==
  ASSUME TypeOK, Shape, Data, calm, Restart
  PROVE  Data'
  <1> USE DEF At, Session, Current
  <1>1. /\ conns' = conns + 1 /\ conns + 1 \in Conns /\ conns \in Conns
        /\ thread' = <<>> /\ UNCHANGED <<store, upstream, runs>>
    BY Types, PersistAssumption DEF Restart, Conns
  <1>2. /\ sess'[conns + 1] = NewSession(<<>>)
        /\ \A c \in Conns : c # conns + 1 => sess'[c] = sess[c]
    BY <1>1 DEF Restart, TypeOK
  <1>3. \A q \in Runs : ~Live(q)' /\ run'[q].pc # "fetched"
    BY RestartIs DEF Live
  <1>4. \A q \in Runs : run'[q].pc = "done" =>
          run'[q] = run[q] /\ run[q].sess # conns + 1
    <2>1. \A q \in Runs : run'[q].pc = "done" => run[q].pc = "done"
      BY RestartIs
    <2>2. \A q \in Runs : run[q].pc = "done" => run'[q] = run[q]
      BY DEF Restart
    <2>3. \A q \in Runs : run[q].sess = conns + 1 => run[q].pc = "none"
      BY <1>1, Types DEF Shape, Conns
    <2>4. QED
      BY <2>1, <2>2, <2>3
  <1>5. SameUploads
    BY <1>1, <1>2, <1>3, <1>4, Elsewhere
  <1>6. CurrentInv'
    <2>1. Held' = Held /\ Held.msgs \in Seq(Message)
      BY <1>1, Types DEF Held
    <2>2. Comparable(<<>>, Held.msgs)
      BY <2>1, BelowEmpty DEF Comparable
    <2>3. ColdInv' /\ ~Settled'
      BY <1>1, <1>2, <1>3 DEF ColdInv, Settled, NewSession
    <2>4. QED
      BY <1>1, <2>1, <2>2, <2>3 DEF CurrentInv, Comparable, Below
  <1>7. QED
    BY <1>5, <1>6, DataKept

(***************************************************************************)
(* Every step keeps the invariant.                                         *)
(***************************************************************************)
\* A prompt that the client appends.
LEMMA AppendKeeps ==
  ASSUME TypeOK, calm, Shape, SafeUploads, Data, ClientAppend
  PROVE  Shape' /\ SafeUploads' /\ Data'
  <1> DEFINE n == runs + 1
             prompt == Prompt(n)
             h == Append(Current.history, prompt)
  <1> USE DEF At, Current, Session
  <1>1. StartRun(h, prompt) /\ prompt \in Message /\ prompt.by = "user"
    <2>1. StartRun(h, prompt)
      BY DEF ClientAppend
    <2>2. n \in 0 .. MaxRuns
      BY <2>1, Types, PersistAssumption DEF StartRun
    <2>3. QED
      BY <2>1, <2>2, MessageTypes DEF Prompt
  <1> HIDE DEF prompt
  <1>2. h \in Seq(Message) /\ conns \in Conns
    BY <1>1, Types, AppendProperties
  <1> HIDE DEF h
  <1>3. /\ n \in Runs /\ run'[n].pc = "cold" /\ run'[n].sess = conns
        /\ run'[n].needsHydrate = ~Current.hydrated
        /\ \A q \in Runs : q # n => run'[q] = run[q]
        /\ sess'[conns].history = h /\ sess'[conns].hydrated
        /\ sess'[conns].persistUnsafe = sess[conns].persistUnsafe
        /\ sess'[conns].serverV = sess[conns].serverV
        /\ sess'[conns].serverPriorLen = sess[conns].serverPriorLen
        /\ \A c \in Conns : c # conns => sess'[c] = sess[c]
        /\ UNCHANGED <<store, upstream, thread, conns>>
    BY <1>1, <1>2, StartIs
  <1>4. run[n].pc = "none"
    BY <1>3, Types DEF Shape
  <1>5. Shape'
    BY <1>1, ShapeAppend DEF h
  <1>6. SafeUploads'
    <2>1. \A c \in Conns : sess'[c].persistUnsafe = sess[c].persistUnsafe
      BY <1>3
    <2>2. \A q \in Runs : run[q].sess \in Conns
      BY Types
    <2>3. QED
      BY <1>3, <2>1, <2>2 DEF SafeUploads
  <1>7. Data'
    <2>1. CASE ~Current.hydrated
      BY <1>1, <2>1, DataFirst DEF h
    <2>2. CASE Current.hydrated
      <3>1. Grows(n, prompt)
        BY <1>2, <1>3, <2>2 DEF Grows, OthersSame, h
      <3>2. \A q \in Runs : ~Executing(q)
        BY <1>1 DEF Shape, StartRun, Busy
      <3>3. Settled
        BY <2>2, <3>2 DEF Settled, Hydrating, Executing
      <3>4. ~Live(n)
        BY <1>4 DEF Live
      <3> HIDE DEF n
      <3>5. QED
        BY <1>1, <1>3, <1>4, <3>1, <3>3, <3>4, DataGrow, DataUnsafe
    <2>3. QED
      BY <2>1, <2>2
  <1>8. QED
    BY <1>5, <1>6, <1>7

\* The answer of a run.
LEMMA AnsweredKeeps ==
  ASSUME TypeOK, calm, Shape, SafeUploads, Data, NEW r \in Runs, Answered(r)
  PROVE  Shape' /\ SafeUploads' /\ Data'
  <1> USE DEF At, Current, Session
  <1>1. run[r].pc = "warm" /\ run[r].sess = conns /\ conns \in Conns /\ Current.hydrated
    BY Types DEF Answered, Shape, Executing
  <1>2. /\ run'[r].pc = "check" /\ SameLocals(r) /\ OthersSame(r)
        /\ UNCHANGED <<store, upstream, conns, runs>>
    BY GoIs DEF Answered, PC, OthersSame
  <1>3. sess[conns] \in SessionRecord
    BY Types
  <1>4. /\ sess'[conns] = [sess[conns] EXCEPT !.history =
                             Append(Current.history, Answer(r))]
        /\ \A c \in Conns : c # conns => sess'[c] = sess[c]
        /\ thread' = Append(Current.history, Answer(r))
    BY <1>1 DEF Answered, History, TypeOK
  <1>5. Grows(r, Answer(r))
    <2>1. /\ sess'[conns].history = Append(Current.history, Answer(r))
          /\ sess'[conns].hydrated = Current.hydrated
          /\ sess'[conns].persistUnsafe = Current.persistUnsafe
          /\ sess'[conns].serverV = Current.serverV
          /\ sess'[conns].serverPriorLen = Current.serverPriorLen
      BY <1>3, <1>4 DEF SessionRecord
    <2>2. QED
      BY <1>1, <1>2, <1>4, <2>1 DEF Grows, SameLocals
  <1>6. Shape'
    <2>1. Executing(r) /\ sess'[conns].hydrated = sess[conns].hydrated
      BY <1>1, <1>5 DEF Executing, Grows
    <2>2. QED
      BY <1>1, <1>2, <2>1, ShapeMove
  <1>7. SafeUploads'
    <2>1. \A c \in Conns : sess'[c].persistUnsafe = sess[c].persistUnsafe
      BY <1>5 DEF Grows
    <2>2. \A q \in Runs : run[q].sess \in Conns
      BY Types
    <2>3. QED
      BY <1>2, <2>1, <2>2 DEF SafeUploads, OthersSame
  <1>8. Data'
    <2>1. Settled
      BY <1>1 DEF Shape, Settled, Hydrating, Executing
    <2>2. ~Live(r)
      BY <1>1 DEF Live
    <2>3. Answer(r) \in Message
      BY Types
    <2>4. QED
      BY <1>1, <1>5, <2>1, <2>2, <2>3, DataGrow, DataUnsafe
  <1>9. QED
    BY <1>6, <1>7, <1>8

\* The steps around hydration.
LEMMA HydrationKeeps ==
  ASSUME TypeOK, calm, Shape, SafeUploads, Data, NEW r \in Runs, calm',
         FetchLocal(r) \/ FetchUpstream(r) \/ FetchFails(r) \/ Hydrate(r)
  PROVE  Shape' /\ SafeUploads' /\ Data'
  <1> USE DEF At, Session
  <1>1. ASSUME Fetched(r, Held) PROVE Shape' /\ SafeUploads' /\ Data'
    <2>1. FetchedIs(r, Held)
      BY <1>1, FetchIs
    <2>2. Hydrating(r) /\ run[r].pc = "cold" /\ UNCHANGED <<store, upstream, thread, conns, runs>>
      BY <1>1 DEF Fetched, Hydrating
    <2>3. Shape'
      BY <2>1, <2>2, ShapeFetched
    <2>4. Data'
      BY <2>1, <2>2, DataFetched
    <2>5. SafeUploads'
      <3>1. \A c \in Conns : sess'[c].persistUnsafe = sess[c].persistUnsafe
        BY <2>1 DEF FetchedIs
      <3>2. \A q \in Runs : run[q].sess \in Conns
        BY Types
      <3>3. QED
        BY <2>1, <3>1, <3>2 DEF SafeUploads, FetchedIs, OthersSame
    <2>6. QED
      BY <2>3, <2>4, <2>5
  <1>2. CASE FetchLocal(r)
    BY <1>1, <1>2 DEF FetchLocal, Fetched, Held
  <1>3. CASE FetchUpstream(r)
    BY <1>1, <1>3 DEF FetchUpstream, Held
  <1>4. CASE FetchFails(r)
    <2>1. run[r].sess = conns /\ conns \in Conns /\ run[r].pc = "cold"
      BY <1>4, Types DEF FetchFails, Shape, Executing
    <2>2. /\ run'[r].pc = "warm" /\ SameLocals(r) /\ OthersSame(r)
          /\ UNCHANGED <<conns, runs>>
      BY <1>4, GoIs DEF FetchFails, PC, OthersSame
    <2>3. /\ sess'[conns].hydrated = sess[conns].hydrated
          /\ \A c \in Conns : c # conns => sess'[c] = sess[c]
      <3>1. sess[conns] \in SessionRecord
        BY Types
      <3>2. QED
        BY <1>4, <2>1, <3>1 DEF FetchFails, TypeOK, SessionRecord
    <2>4. Shape'
      BY <2>1, <2>2, <2>3, ShapeMove DEF Executing
    <2>5. SafeUploads'
      <3>1. \A q \in Runs : run[q].sess = conns /\ q # r => run[q].pc = "none"
        BY <1>4 DEF FetchFails, Shape, Hydrating
      <3>2. \A q \in Runs : run[q].sess \in Conns
        BY Types
      <3>3. QED
        BY <2>2, <2>3, <3>1, <3>2 DEF SafeUploads, OthersSame
    <2>6. QED
      BY <1>4, <2>4, <2>5, DataFetchFails
  <1>5. CASE Hydrate(r)
    <2>1. /\ run[r].sess = conns /\ Hydrating(r)
          /\ run'[r].pc = "warm" /\ SameLocals(r) /\ OthersSame(r)
          /\ sess'[conns].hydrated = sess[conns].hydrated
          /\ sess'[conns].persistUnsafe = sess[conns].persistUnsafe
          /\ \A c \in Conns : c # conns => sess'[c] = sess[c]
          /\ UNCHANGED <<conns, runs>>
      BY <1>5, HydrateIs DEF Current
    <2>2. Shape'
      BY <2>1, ShapeMove DEF Executing, Hydrating
    <2>3. SafeUploads'
      <3>1. \A c \in Conns : sess'[c].persistUnsafe = sess[c].persistUnsafe
        BY <2>1
      <3>2. \A q \in Runs : run[q].sess \in Conns
        BY Types
      <3>3. QED
        BY <2>1, <3>1, <3>2 DEF SafeUploads, OthersSame
    <2>4. QED
      BY <1>5, <2>2, <2>3, DataHydrate
  <1>6. QED
    BY <1>2, <1>3, <1>4, <1>5

\* What the upload builds is what it offered already.
LEMMA BuildIs ==
  ASSUME TypeOK, NEW r \in Runs, Build(r)
  PROVE  /\ run[r].pc = "build" /\ run'[r].pc = "local" /\ SameLocals(r) /\ OthersSame(r)
         /\ run'[r].upload = Offer(r)
  <1> DEFINE s == sess[run[r].sess]
             built == [v |-> UploadV(s), msgs |-> s.history]
  <1>1. run[r] \in RunRecord
    BY Types
  <1>2. run'[r] = [run[r] EXCEPT !.pc = "local", !.upload = built]
    BY DEF Build, TypeOK
  <1>3. OthersSame(r)
    BY DEF Build, TypeOK, OthersSame
  <1>4. run[r].pc = "build" /\ built = Offer(r)
    BY DEF Build, Offer, Uploading, At, Session
  <1> HIDE DEF built
  <1>5. QED
    BY <1>1, <1>2, <1>3, <1>4 DEF SameLocals, RunRecord

\* The steps that leave the sessions, the store and amp's server alone.
LEMMA QuietKeeps ==
  ASSUME TypeOK, calm, Shape, SafeUploads, Data, NEW r \in Runs,
         \/ AlreadyHydrated(r) \/ RunFails(r) \/ Check(r) \/ Build(r)
         \/ Conflict(r) \/ StoreFails(r) \/ UpstreamFails(r)
  PROVE  Shape' /\ SafeUploads' /\ Data'
  <1> USE DEF At, Session
  <1>1. UNCHANGED <<store, upstream, thread, conns, sess, runs, calm>>
    BY DEF AlreadyHydrated, RunFails, Check, Build, Conflict, StoreFails,
           UpstreamFails, sessVars
  <1> DEFINE quiet(q) ==
               /\ run'[q].sess = run[q].sess
               /\ Live(q)' => /\ Live(q) /\ Offer(q)' = Offer(q)
                              /\ run'[q].pc = "upstream" => At(q, "upstream")
               /\ run'[q].pc = "fetched" => At(q, "fetched") /\ run'[q].got = run[q].got
               /\ Hydrating(q)' <=> Hydrating(q)
               /\ run'[q].pc = "done" =>
                    \/ At(q, "done") \/ Answer(q) \in Answers(store.msgs)
                    \/ Session(q).persistUnsafe \/ ~InStep(Session(q))
  <1>2. ASSUME OthersSame(r), SameLocals(r), quiet(r),
               run[r].pc # "none", run'[r].pc \notin {"none", "cold", "fetched"},
               run'[r].pc = "warm" => Executing(r),
               run'[r].pc \in {"build", "local", "upstream"} => ~Session(r).persistUnsafe
        PROVE  Shape' /\ SafeUploads' /\ Data'
    <2>1. Shape'
      BY <1>1, <1>2, ShapeMove
    <2>2. SafeUploads'
      BY <1>1, <1>2 DEF SafeUploads, OthersSame, SameLocals
    <2>3. ASSUME NEW q \in Runs PROVE quiet(q)
      <3>1. CASE q = r
        BY <1>2, <3>1
      <3>2. CASE q # r
        BY <1>1, <1>2, <3>2 DEF OthersSame, Live, Offer, Uploading, Hydrating
      <3>3. QED
        BY <3>1, <3>2
    <2>4. Data'
      BY <1>1, <2>3, DataQuiet
    <2>5. QED
      BY <2>1, <2>2, <2>4
  <1>3. ASSUME NEW pc \in PC, Go(r, pc)
        PROVE  /\ OthersSame(r) /\ SameLocals(r) /\ run'[r].pc = pc
               /\ run'[r].upload = run[r].upload /\ run'[r].got = run[r].got
    BY <1>3, GoIs DEF OthersSame
  <1>4. ASSUME Live(r) PROVE LiveInv(r)
    BY <1>4 DEF Data, LiveInvs
  <1>5. CASE AlreadyHydrated(r)
    <2>1. /\ run[r].pc = "cold" /\ ~run[r].needsHydrate /\ run'[r].pc = "warm"
          /\ OthersSame(r) /\ SameLocals(r)
      BY <1>3, <1>5 DEF AlreadyHydrated, PC
    <2>2. quiet(r)
      BY <2>1 DEF Live, Hydrating, SameLocals
    <2>3. QED
      BY <1>2, <2>1, <2>2 DEF Executing
  <1>6. CASE RunFails(r)
    <2>1. /\ run[r].pc = "warm" /\ run'[r].pc = "failed"
          /\ OthersSame(r) /\ SameLocals(r)
      BY <1>3, <1>6 DEF RunFails, PC
    <2>2. quiet(r)
      BY <2>1 DEF Live, Hydrating, SameLocals
    <2>3. QED
      BY <1>2, <2>1, <2>2
  <1>7. CASE Check(r)
    <2>1. PICK pc \in {"build", "done"} :
            Go(r, pc) /\ (pc = "build" <=> MayPersist(Session(r)))
      BY <1>7 DEF Check
    <2>2. /\ run[r].pc = "check" /\ run'[r].pc = pc
          /\ OthersSame(r) /\ SameLocals(r)
      BY <1>3, <1>7, <2>1 DEF Check, PC
    <2>3. pc = "done" => Session(r).persistUnsafe
      <3> SUFFICES ASSUME pc = "done", ~Session(r).persistUnsafe PROVE FALSE
        OBVIOUS
      <3>1. Live(r)
        BY <2>2 DEF Live
      <3>2. Len(Session(r).history) >= Session(r).serverPriorLen + 2
        BY <1>4, <2>2, <3>1 DEF LiveInv, Offer, Uploading
      <3>3. Len(Session(r).history) \in Nat /\ Session(r).serverPriorLen \in Nat
        BY Types
      <3>4. QED
        BY <2>1, <3>2, <3>3 DEF MayPersist
    <2>4. quiet(r)
      BY <1>1, <2>2, <2>3 DEF Live, Hydrating, SameLocals, Offer, Uploading
    <2>5. pc = "build" => ~Session(r).persistUnsafe
      BY <2>1 DEF MayPersist
    <2> HIDE DEF quiet
    <2>6. QED
      BY <1>2, <2>2, <2>4, <2>5
  <1>8. CASE Build(r)
    <2>1. /\ run[r].pc = "build" /\ run'[r].pc = "local" /\ SameLocals(r)
          /\ OthersSame(r) /\ run'[r].upload = Offer(r)
      BY <1>8, BuildIs
    <2>2. ~Session(r).persistUnsafe
      BY <2>1 DEF SafeUploads
    <2>3. quiet(r)
      BY <1>1, <2>1, <2>2 DEF Live, Hydrating, SameLocals, Offer, Uploading
    <2>4. QED
      BY <1>2, <2>1, <2>2, <2>3
  <1>9. CASE Conflict(r)
    <2>1. /\ run[r].pc = "local" /\ run'[r].pc = "done"
          /\ OthersSame(r) /\ SameLocals(r) /\ ~(run[r].upload.v > store.v)
      BY <1>3, <1>9 DEF Conflict, PC, Newer
    <2>2. Live(r) /\ Offer(r) = run[r].upload
      BY <2>1 DEF SafeUploads, Live, Offer, Uploading
    <2>3. InStep(Session(r)) => Answer(r) \in Answers(store.msgs)
      BY <1>4, <2>1, <2>2, Types DEF LiveInv
    <2>4. quiet(r)
      BY <2>1, <2>3 DEF Live, Hydrating, SameLocals
    <2>5. QED
      BY <1>2, <2>1, <2>4
  <1>10. CASE StoreFails(r)
    <2>1. /\ run[r].pc = "local" /\ run'[r].pc = "failed"
          /\ OthersSame(r) /\ SameLocals(r)
      BY <1>3, <1>10 DEF StoreFails, PC
    <2>2. quiet(r)
      BY <2>1 DEF Live, Hydrating, SameLocals
    <2>3. QED
      BY <1>2, <2>1, <2>2
  <1>11. CASE UpstreamFails(r)
    <2>1. /\ run[r].pc = "upstream" /\ run'[r].pc = "done"
          /\ OthersSame(r) /\ SameLocals(r)
      BY <1>3, <1>11 DEF UpstreamFails, PC
    <2>2. Live(r)
      BY <2>1 DEF SafeUploads, Live
    <2>3. Answer(r) \in Answers(store.msgs)
      BY <1>4, <2>1, <2>2 DEF LiveInv
    <2>4. quiet(r)
      BY <2>1, <2>3 DEF Live, Hydrating, SameLocals
    <2>5. QED
      BY <1>2, <2>1, <2>4
  <1>12. QED
    BY <1>5, <1>6, <1>7, <1>8, <1>9, <1>10, <1>11

\* The two steps that write, to the store and to amp's server.
LEMMA WriteKeeps ==
  ASSUME TypeOK, calm, Shape, SafeUploads, Data, NEW r \in Runs,
         StoreLocal(r) \/ UploadUpstream(r)
  PROVE  /\ Shape' /\ SafeUploads' /\ Data' /\ Live(r)
         /\ Offer(r) = run[r].upload
  <1> USE DEF At, Session
  <1>1. /\ run[r].pc \in {"local", "upstream"} /\ UNCHANGED <<thread, conns, sess, runs>>
    BY DEF StoreLocal, UploadUpstream, sessVars
  <1>2. PICK pc \in {"upstream", "done"} : Go(r, pc)
    BY DEF StoreLocal, UploadUpstream
  <1>3. run'[r].pc = pc /\ SameLocals(r) /\ OthersSame(r)
    BY <1>2, GoIs DEF PC, OthersSame
  <1>4. Live(r) /\ Offer(r) = run[r].upload
    BY <1>1 DEF SafeUploads, Live, Offer, Uploading
  <1>5. Shape'
    BY <1>1, <1>3, ShapeMove
  <1>6. SafeUploads'
    BY <1>1, <1>3 DEF SafeUploads, SameLocals, OthersSame
  <1>7. QED
    BY <1>4, <1>5, <1>6, DataStore, DataUpstream

LEMMA PersistKeeps == TypeOK /\ PersistInv /\ [Next]_vars => PersistInv'
  <1> SUFFICES ASSUME TypeOK, PersistInv, [Next]_vars, calm'
               PROVE  Shape' /\ SafeUploads' /\ Data'
    BY DEF PersistInv
  <1>1. calm
    BY DEF Next, Client, RunStep, Persist, Finished, vars, ClientAppend, Retry, Edit,
           Cancel, DeleteThread, Connect, Restart, FetchLocal, FetchUpstream,
           FetchFails, AlreadyHydrated, Hydrate, Answered, RunFails, Check, Build,
           StoreLocal, Conflict, StoreFails, UploadUpstream, UpstreamFails
  <1>2. Shape /\ SafeUploads /\ Data
    BY <1>1 DEF PersistInv
  <1>3. CASE UNCHANGED vars
    <2>1. Shape' /\ SafeUploads'
      BY <1>2, <1>3 DEF vars, sessVars, Shape, SafeUploads, At, Executing, Hydrating,
                        Current, Session
    <2>2. Data'
      BY <1>1, <1>2, <1>3, DataQuiet
         DEF vars, sessVars, At, Live, Offer, Uploading, Hydrating, Session
    <2>3. QED
      BY <2>1, <2>2
  <1>4. CASE Client
    <2>1. CASE ClientAppend
      BY <1>1, <1>2, <2>1, AppendKeeps
    <2>2. CASE Connect
      <3>1. \A r \in Runs : ~Executing(r)
        BY <2>2 DEF Connect
      <3>2. SafeUploads'
        <4>1. UNCHANGED run /\ \A c \in Conns : c # conns + 1 => sess'[c] = sess[c]
          BY <2>2 DEF Connect, TypeOK
        <4>2. \A r \in Runs : run[r].sess \in Conns /\ run[r].sess \in Nat
          BY Types, PersistAssumption DEF Conns
        <4>3. \A r \in Runs : run[r].pc # "none" => run[r].sess # conns + 1
          BY <1>2, <4>2, Types DEF Shape, At
        <4>4. QED
          BY <1>2, <4>1, <4>2, <4>3 DEF SafeUploads, Session
      <3>3. QED
        BY <1>1, <1>2, <2>2, <3>1, <3>2, ShapeConnect, DataConnect
    <2>3. CASE Retry \/ Edit \/ Cancel \/ DeleteThread
      BY <2>3 DEF Retry, Edit, Cancel, DeleteThread
    <2>4. QED
      BY <1>4, <2>1, <2>2, <2>3 DEF Client
  <1>5. CASE Restart
    <2>1. SafeUploads'
      BY <1>5, RestartIs DEF SafeUploads
    <2>2. QED
      BY <1>1, <1>2, <1>5, <2>1, ShapeRestart, DataRestart
  <1>6. ASSUME NEW r \in Runs, RunStep(r)
        PROVE  Shape' /\ SafeUploads' /\ Data'
    BY <1>1, <1>2, <1>6, AnsweredKeeps, HydrationKeeps, QuietKeeps DEF RunStep
  <1>7. ASSUME NEW r \in Runs, Persist(r)
        PROVE  Shape' /\ SafeUploads' /\ Data'
    BY <1>1, <1>2, <1>7, QuietKeeps, WriteKeeps DEF Persist
  <1>8. QED
    BY <1>3, <1>4, <1>5, <1>6, <1>7 DEF Next, Finished

(***************************************************************************)
(* The theorems.                                                           *)
(***************************************************************************)

\* Type correctness, and with it: every version in the store, on amp's server
\* or under way counts more than its messages.  Go code: buildThreadForUpload
\* and everything that moves versions.
THEOREM TypeCorrect == Spec => []TypeOK
  BY InitTypes, StepTypes, PTL DEF Spec

\* The invariant holds throughout.
LEMMA PersistInvariant == Spec => [](TypeOK /\ PersistInv)
  <1>1. TypeOK /\ [Next]_vars => TypeOK'
    BY StepTypes
  <1>2. Init => TypeOK /\ PersistInv
    BY InitTypes, PersistInit
  <1>3. (TypeOK /\ PersistInv) /\ [Next]_vars => (TypeOK /\ PersistInv)'
    BY <1>1, PersistKeeps
  <1>4. QED
    BY <1>2, <1>3, PTL DEF Spec

\* The upload of a session that hydrated from a version that counts its
\* messages brings its answer into the store, or finds it there.  Go code:
\* persistThread, buildThreadForUpload and SQLiteStore.UploadThread.
THEOREM AnswersKept == Spec => []AnswersStored
  <1>1. TypeOK /\ PersistInv => AnswersStored
    BY DEF PersistInv, Data, AnswersStored
  <1>2. QED
    BY <1>1, PersistInvariant, PTL

\* While nothing that may lose answers has happened, no step takes an answer
\* away from the store or from amp's server.  Go code: the version rule of
\* UploadThread against the versions that persistThread computes.
THEOREM NothingForgotten == Spec => NothingLost
  <1>1. TypeOK /\ PersistInv /\ [Next]_vars =>
          [calm' => /\ Answers(store.msgs) \subseteq Answers(store'.msgs)
                    /\ Answers(upstream.msgs) \subseteq Answers(upstream'.msgs)]_vars
    <2> SUFFICES ASSUME TypeOK, PersistInv, Next, calm'
                 PROVE  /\ Answers(store.msgs) \subseteq Answers(store'.msgs)
                        /\ Answers(upstream.msgs) \subseteq Answers(upstream'.msgs)
      BY DEF vars
    <2>1. CASE UNCHANGED <<store, upstream>>
      BY <2>1
    <2>2. ASSUME NEW r \in Runs, StoreLocal(r) \/ UploadUpstream(r)
          PROVE  /\ Answers(store.msgs) \subseteq Answers(store'.msgs)
                 /\ Answers(upstream.msgs) \subseteq Answers(upstream'.msgs)
      <3>1. calm /\ Shape /\ SafeUploads /\ Data
        BY <2>2 DEF StoreLocal, UploadUpstream, PersistInv
      <3>2. Live(r) /\ Offer(r) = run[r].upload
        BY <2>2, <3>1, WriteKeeps
      <3>3. LiveInv(r)
        BY <3>1, <3>2 DEF Data, LiveInvs
      <3>4. CASE StoreLocal(r)
        BY <3>2, <3>3, <3>4 DEF StoreLocal, Newer, LiveInv
      <3>5. CASE UploadUpstream(r)
        BY <3>2, <3>3, <3>5 DEF UploadUpstream, Newer, LiveInv
      <3>6. QED
        BY <2>2, <3>4, <3>5
    <2>3. QED
      BY <2>1, <2>2
         DEF Next, Client, RunStep, Persist, Finished, vars, ClientAppend, StartRun,
             Retry, Edit, Cancel, DeleteThread, Connect, Restart, FetchLocal,
             FetchUpstream, Fetched, FetchFails, AlreadyHydrated, Hydrate, Answered,
             RunFails, Check, Build, Conflict, StoreFails, UpstreamFails
  <1>2. QED
    BY <1>1, PersistInvariant, PTL DEF Spec, NothingLost

(***************************************************************************)
(* ChatSocket.  While the session has what the store has, the row is a     *)
(* prefix of the session's history, and so is every snapshot that          *)
(* handleSend is about to store; a version tells how long its history is.  *)
(* Whatever the order of the uploads, the row then has the longest of      *)
(* them, and a message that was refused finds its turns in it.             *)
(***************************************************************************)
IsPrefixOf(s, t) ==
  /\ Len(s) <= Len(t)
  /\ \A i \in 1 .. Len(s) : s[i] = t[i]

\* What the session has of the message is in these turns.
Stored(r, turns) ==
  {User(r), Reply(r)} \cap SetOf(session.history) \subseteq SetOf(turns)

ThreadRow == [v : Nat, turns : Seq(Turns)]

ChatTypes ==
  /\ row \in ThreadRow /\ upload \in [Reqs -> ThreadRow]
  /\ mem \in Seq(Turns)
  /\ session \in [on : BOOLEAN, history : Seq(Turns)]
  /\ handler \in [Reqs -> Handler] /\ runner \in [Reqs -> Runner]
  /\ others \in Nat /\ done \subseteq Reqs

\* handleSend has gone past the frames only when the other goroutine has ended,
\* and neither works without a session.
StageOf(r) ==
  /\ handler[r] \in {"none", "sent"} => runner[r] = "none"
  /\ handler[r] \in {"persist", "upload", "tell"} => runner[r] = "closed"
  /\ handler[r] \in {"drain", "persist", "upload", "tell"} => session.on
  /\ runner[r] \notin {"none", "closed"} => session.on
  /\ r \in done => handler[r] = "ended" /\ runner[r] = "closed"

Stages ==
  /\ \A r \in Reqs : StageOf(r)
  /\ ~session.on => session.history = << >>

RowKept ==
  /\ Len(row.turns) <= row.v /\ row.v <= Len(row.turns) + 1
  /\ session.on => IsPrefixOf(row.turns, session.history)
  /\ ~session.on => mem = << >> \/ mem = row.turns

TurnsKept(r) ==
  /\ handler[r] = "upload" =>
       /\ IsPrefixOf(upload[r].turns, session.history)
       /\ upload[r].v = Len(upload[r].turns) + 1
       /\ Stored(r, upload[r].turns)
  /\ handler[r] = "tell" /\ r \notin cancelled \cup unstored => Stored(r, row.turns)
  /\ r \in done \ unstored => Stored(r, row.turns)

Kept == RowKept /\ \A r \in Reqs : TurnsKept(r)

ChatInv == ChatTypes /\ Stages /\ (~apart => Kept)

LEMMA TurnIs ==
  \A r \in Reqs :
    /\ User(r) \in Turns /\ Reply(r) \in Turns
    /\ \A q \in Reqs : /\ User(q) # Reply(r)
                       /\ q # r => User(q) # User(r) /\ Reply(q) # Reply(r)
  BY DEF User, Reply, Turns

LEMMA SetOfEmpty == SetOf(<< >>) = {}
  BY DEF SetOf, ToSet

LEMMA SetOfAppend ==
  ASSUME NEW h \in Seq(Turns), NEW t \in Turns
  PROVE  SetOf(Append(h, t)) = SetOf(h) \cup {t}
  <1> DEFINE g == Append(h, t)
  <1>1. /\ g \in Seq(Turns) /\ Len(g) = Len(h) + 1 /\ Len(h) \in Nat
        /\ \A i \in 1 .. Len(h) : g[i] = h[i]
        /\ g[Len(h) + 1] = t
    BY LenProperties, AppendProperties
  <1>2. DOMAIN g = 1 .. Len(h) + 1 /\ DOMAIN h = 1 .. Len(h)
    BY <1>1, LenProperties
  <1> HIDE DEF g
  <1>3. DOMAIN g = DOMAIN h \cup {Len(h) + 1} /\ Len(h) + 1 \notin DOMAIN h
    BY <1>1, <1>2
  <1>4. {g[i] : i \in DOMAIN g} = {h[i] : i \in DOMAIN h} \cup {t}
    <2>1. \A i \in DOMAIN h : g[i] = h[i]
      BY <1>1, <1>2
    <2>2. QED
      BY <1>1, <1>3, <2>1
  <1>5. QED
    BY <1>4 DEF SetOf, ToSet, g

LEMMA PrefixAppend ==
  ASSUME NEW s \in Seq(Turns), NEW h \in Seq(Turns), NEW t \in Turns,
         IsPrefixOf(s, h)
  PROVE  IsPrefixOf(s, Append(h, t))
  <1> DEFINE g == Append(h, t)
  <1>1. /\ g \in Seq(Turns) /\ Len(g) = Len(h) + 1 /\ Len(h) \in Nat
        /\ \A i \in 1 .. Len(h) : g[i] = h[i]
        /\ Len(s) \in Nat
    BY LenProperties, AppendProperties
  <1> HIDE DEF g
  <1>2. IsPrefixOf(s, g)
    BY <1>1 DEF IsPrefixOf
  <1>3. QED
    BY <1>2 DEF g

LEMMA PrefixSame ==
  ASSUME NEW s \in Seq(Turns) PROVE IsPrefixOf(s, s)
  BY LenProperties DEF IsPrefixOf

\* Of two prefixes the longer one has all the turns of the other.
LEMMA PrefixesOrdered ==
  ASSUME NEW s \in Seq(Turns), NEW t \in Seq(Turns), NEW h \in Seq(Turns),
         IsPrefixOf(s, h), IsPrefixOf(t, h), Len(s) <= Len(t)
  PROVE  SetOf(s) \subseteq SetOf(t)
  <1>1. /\ Len(s) \in Nat /\ Len(t) \in Nat
        /\ DOMAIN s = 1 .. Len(s) /\ DOMAIN t = 1 .. Len(t)
    BY LenProperties
  <1>2. \A i \in DOMAIN s : i \in DOMAIN t /\ s[i] = t[i]
    BY <1>1 DEF IsPrefixOf
  <1>3. QED
    BY <1>2 DEF SetOf, ToSet

LEMMA ChatInitInv == ChatInit => ChatInv
  <1> SUFFICES ASSUME ChatInit PROVE ChatInv
    OBVIOUS
  <1>1. << >> \in Seq(Turns) /\ Len(<< >>) = 0
    BY EmptySeq
  <1>2. OldThread \in Seq(Turns) /\ Len(OldThread) = Old
    <2>1. \A n \in 1 .. Old : <<"old", n>> \in Turns
      BY DEF Turns
    <2>2. Old \in Nat
      BY ChatAssumption
    <2>3. OldThread \in [1 .. Old -> Turns]
      BY <2>1 DEF OldThread
    <2>4. OldThread \in Seq(Turns)
      BY <2>2, <2>3, SeqDef
    <2>5. /\ Len(OldThread) \in Nat /\ DOMAIN OldThread = 1 .. Len(OldThread)
          /\ DOMAIN OldThread = 1 .. Old
      BY <2>4, LenProperties DEF OldThread
    <2>6. 1 .. Len(OldThread) = 1 .. Old
      BY <2>5
    <2>7. Len(OldThread) = Old
      <3>1. PICK l \in Nat : l = Len(OldThread) /\ 1 .. l = 1 .. Old
        BY <2>5, <2>6
      <3>2. \A i \in Nat : 1 <= i => (i <= l <=> i <= Old)
        BY <2>2, <3>1
      <3>3. l = Old
        BY <2>2, <3>1, <3>2
      <3>4. QED
        BY <3>1, <3>3
    <2>8. QED
      BY <2>4, <2>7
  <1>3. ChatTypes
    <2>1. NoUpload \in ThreadRow /\ [v |-> Old + 1, turns |-> OldThread] \in ThreadRow
      BY <1>1, <1>2, ChatAssumption DEF NoUpload, ThreadRow
    <2>2. row \in ThreadRow /\ upload \in [Reqs -> ThreadRow]
      BY <2>1 DEF ChatInit
    <2>3. mem \in Seq(Turns) /\ session \in [on : BOOLEAN, history : Seq(Turns)]
      BY <1>1 DEF ChatInit
    <2>4. /\ handler \in [Reqs -> Handler] /\ runner \in [Reqs -> Runner]
          /\ others \in Nat /\ done \subseteq Reqs
      BY DEF ChatInit, Handler, Runner
    <2>5. QED
      BY <2>2, <2>3, <2>4 DEF ChatTypes
  <1>4. Stages
    BY DEF ChatInit, Stages, StageOf
  <1>5. RowKept
    BY <1>1, <1>2, ChatAssumption DEF ChatInit, RowKept, NoUpload
  <1>6. \A r \in Reqs : TurnsKept(r)
    BY DEF ChatInit, TurnsKept
  <1>7. QED
    BY <1>3, <1>4, <1>5, <1>6 DEF ChatInv, Kept

\* A goroutine of a message moves, and nothing of the thread changes.
Moves(r) ==
  /\ UNCHANGED <<row, session, upload, others, done, apart, unstored>>
  /\ \A q \in Reqs \ {r} : handler'[q] = handler[q] /\ runner'[q] = runner[q]
  /\ handler' \in [Reqs -> Handler] /\ runner' \in [Reqs -> Runner]
  /\ mem' = mem \/ (mem' = session.history /\ session.on)
  /\ cancelled \subseteq cancelled'
  /\ handler'[r] \notin {"upload", "tell"} \/ handler'[r] = handler[r]

LEMMA MovesKept ==
  ASSUME ChatInv, NEW r \in Reqs, Moves(r), StageOf(r)'
  PROVE  ChatInv'
  <1>1. ChatTypes'
    BY DEF ChatInv, ChatTypes, Moves
  <1>2. Stages'
    BY DEF ChatInv, Stages, StageOf, Moves
  <1>3. ASSUME ~apart' PROVE Kept'
    <2>1. Kept
      BY <1>3 DEF ChatInv, Moves
    <2>2. RowKept'
      BY <2>1 DEF Kept, RowKept, Moves
    <2>3. ASSUME NEW q \in Reqs PROVE TurnsKept(q)'
      BY <2>1 DEF Kept, TurnsKept, Stored, Moves
    <2>4. QED
      BY <2>2, <2>3 DEF Kept
  <1>4. QED
    BY <1>1, <1>2, <1>3 DEF ChatInv

\* One goroutine of a message appends a turn of it to the session's history.
LEMMA AppendsKept ==
  ASSUME ChatInv, NEW r \in Reqs, NEW t \in {User(r), Reply(r)}, NEW to \in Runner,
         runner[r] \notin {"none", "closed"},
         runner' = [runner EXCEPT ![r] = to], to \notin {"none", "closed"},
         session' = [session EXCEPT !.history = Append(session.history, t)],
         KeepRest, UNCHANGED mem
  PROVE  ChatInv'
  <1> USE DEF KeepRest
  <1>a. /\ t \in Turns /\ session.on /\ session.history \in Seq(Turns)
        /\ session'.on = session.on
        /\ session'.history = Append(session.history, t)
    BY TurnIs DEF ChatInv, ChatTypes, Stages, StageOf
  <1>b. session'.history \in Seq(Turns)
    BY <1>a, AppendProperties
  <1>c. /\ handler[r] \notin {"none", "sent", "persist", "upload", "tell"}
        /\ r \notin done
    BY DEF ChatInv, Stages, StageOf
  <1>1. ChatTypes'
    BY <1>a, <1>b DEF ChatInv, ChatTypes
  <1>2. Stages'
    <2>1. runner'[r] = to /\ \A q \in Reqs \ {r} : runner'[q] = runner[q]
      BY DEF ChatInv, ChatTypes
    <2>2. \A q \in Reqs : StageOf(q)'
      BY <1>a, <1>c, <2>1 DEF ChatInv, Stages, StageOf
    <2>3. QED
      BY <1>a, <2>2 DEF Stages
  <1>3. ASSUME ~apart' PROVE Kept'
    <2>1. Kept
      BY <1>3 DEF ChatInv
    <2>2. row.turns \in Seq(Turns) /\ \A q \in Reqs : upload[q].turns \in Seq(Turns)
      BY DEF ChatInv, ChatTypes, ThreadRow
    <2>3. RowKept'
      <3>1. IsPrefixOf(row.turns, session'.history)
        BY <1>a, <2>1, <2>2, PrefixAppend DEF Kept, RowKept
      <3>2. QED
        BY <1>a, <2>1, <3>1 DEF Kept, RowKept
    <2>4. SetOf(session'.history) = SetOf(session.history) \cup {t}
      BY <1>a, SetOfAppend
    <2>5. ASSUME NEW q \in Reqs PROVE TurnsKept(q)'
      <3>1. CASE q = r
        BY <1>c, <3>1 DEF TurnsKept
      <3>2. CASE q # r
        <4>1. t \notin {User(q), Reply(q)}
          BY <3>2, TurnIs
        <4>2. {User(q), Reply(q)} \cap SetOf(session'.history)
                = {User(q), Reply(q)} \cap SetOf(session.history)
          BY <2>4, <4>1
        <4>3. handler[q] = "upload" => IsPrefixOf(upload[q].turns, session'.history)
          BY <1>a, <2>1, <2>2, PrefixAppend DEF Kept, TurnsKept
        <4>4. TurnsKept(q)
          BY <2>1 DEF Kept
        <4>5. QED
          BY <4>2, <4>3, <4>4 DEF TurnsKept, Stored
      <3>3. QED
        BY <3>1, <3>2
    <2>6. QED
      BY <2>3, <2>5 DEF Kept
  <1>4. QED
    BY <1>1, <1>2, <1>3 DEF ChatInv

\* The process ends: nothing is left of the session.
LEMMA FreshKept ==
  ASSUME ChatInv, Fresh, UNCHANGED <<row, others, done, apart, unstored>>
  PROVE  ChatInv'
  <1>a. /\ session'.on = FALSE /\ session'.history = << >> /\ mem' = << >>
        /\ << >> \in Seq(Turns)
    BY EmptySeq DEF Fresh
  <1>b. \A q \in Reqs :
          /\ handler'[q] = IF handler[q] = "none" THEN "none" ELSE "ended"
          /\ runner'[q] = IF handler[q] = "none" THEN "none" ELSE "closed"
    BY DEF Fresh
  <1>1. ChatTypes'
    <2>1. NoUpload \in ThreadRow
      BY <1>a DEF NoUpload, ThreadRow
    <2>2. upload' \in [Reqs -> ThreadRow]
      BY <2>1 DEF Fresh
    <2>3. handler' \in [Reqs -> Handler] /\ runner' \in [Reqs -> Runner]
      BY DEF Fresh, Handler, Runner
    <2>4. session' \in [on : BOOLEAN, history : Seq(Turns)] /\ mem' \in Seq(Turns)
      BY <1>a DEF Fresh
    <2>5. QED
      BY <2>2, <2>3, <2>4 DEF ChatInv, ChatTypes
  <1>2. Stages'
    BY <1>a, <1>b DEF ChatInv, Stages, StageOf
  <1>3. ASSUME ~apart' PROVE Kept'
    <2>1. RowKept
      BY <1>3 DEF ChatInv, Kept
    <2>2. RowKept'
      BY <1>a, <2>1 DEF RowKept
    <2>3. ASSUME NEW q \in Reqs PROVE TurnsKept(q)'
      BY <1>a, <1>b, SetOfEmpty DEF TurnsKept, Stored
    <2>4. QED
      BY <2>2, <2>3 DEF Kept
  <1>4. QED
    BY <1>1, <1>2, <1>3 DEF ChatInv

LEMMA BeginKept ==
  ASSUME ChatInv, NEW r \in Reqs, Begin(r)
  PROVE  ChatInv'
  <1>a. /\ handler[r] = "sent" /\ runner[r] = "none" /\ r \notin done
        /\ session'.on = TRUE /\ session'.history = Bound
        /\ Bound \in Seq(Turns)
        /\ handler'[r] = "drain" /\ runner'[r] = "user"
        /\ \A q \in Reqs \ {r} : handler'[q] = handler[q] /\ runner'[q] = runner[q]
    BY DEF ChatInv, ChatTypes, Stages, StageOf, Begin, Bound
  <1>1. ChatTypes'
    BY <1>a DEF ChatInv, ChatTypes, Begin, Handler, Runner
  <1>2. Stages'
    <2>1. \A q \in Reqs : StageOf(q)'
      BY <1>a DEF ChatInv, Stages, StageOf, Begin
    <2>2. QED
      BY <1>a, <2>1 DEF Stages
  <1>3. ASSUME ~apart' PROVE Kept'
    <2>1. Kept /\ Keeps(Bound)
      BY <1>3 DEF ChatInv, Begin
    <2>2. CASE session.on
      <3>1. session'.history = session.history
        BY <1>a, <2>2 DEF Bound
      <3>2. RowKept'
        BY <1>a, <2>1, <2>2, <3>1 DEF Kept, RowKept, Begin
      <3>3. ASSUME NEW q \in Reqs PROVE TurnsKept(q)'
        BY <1>a, <2>1, <3>1 DEF Kept, TurnsKept, Stored, Begin
      <3>4. QED
        BY <3>2, <3>3 DEF Kept
    <2>3. CASE ~session.on
      <3>1. row.turns \in Seq(Turns) /\ row.turns = Bound
        <4>1. row.turns \in Seq(Turns)
          BY DEF ChatInv, ChatTypes, ThreadRow
        <4>2. CASE mem = << >>
          <5>1. SetOf(row.turns) = {}
            BY <2>1, <2>3, <4>2, SetOfEmpty DEF Keeps, Bound
          <5>2. DOMAIN row.turns = {}
            BY <5>1 DEF SetOf, ToSet
          <5>3. Len(row.turns) = 0
            <6>1. PICK l \in Nat : l = Len(row.turns) /\ 1 .. l = {}
              BY <4>1, <5>2, LenProperties
            <6>2. 1 \notin 1 .. l
              BY <6>1
            <6>3. l = 0
              BY <6>1, <6>2
            <6>4. QED
              BY <6>1, <6>3
          <5>4. row.turns = << >>
            BY <4>1, <5>3, EmptySeq
          <5>5. QED
            BY <2>3, <4>1, <4>2, <5>4 DEF Bound
        <4>3. CASE mem = row.turns
          BY <2>3, <4>1, <4>3 DEF Bound
        <4>4. QED
          BY <2>1, <2>3, <4>2, <4>3 DEF Kept, RowKept
      <3>2. row' = row /\ session'.history = row.turns
        BY <1>a, <3>1 DEF Begin
      <3>3. RowKept'
        BY <1>a, <2>1, <3>1, <3>2, PrefixSame DEF Kept, RowKept
      <3>4. ASSUME NEW q \in Reqs PROVE TurnsKept(q)'
        <4>1. handler'[q] \notin {"upload", "tell"}
          BY <1>a, <2>3 DEF ChatInv, Stages, StageOf
        <4>2. Stored(q, row.turns)'
          BY <3>2 DEF Stored
        <4>3. QED
          BY <4>1, <4>2 DEF TurnsKept
      <3>5. QED
        BY <3>3, <3>4 DEF Kept
    <2>4. QED
      BY <2>2, <2>3
  <1>4. QED
    BY <1>1, <1>2, <1>3 DEF ChatInv

LEMMA SnapshotKept ==
  ASSUME ChatInv, NEW r \in Reqs, Snapshot(r)
  PROVE  ChatInv'
  <1>a. /\ session.history \in Seq(Turns) /\ Len(session.history) \in Nat
        /\ runner[r] = "closed" /\ handler[r] = "persist" /\ session.on
    BY LenProperties DEF ChatInv, ChatTypes, Stages, StageOf, Snapshot
  <1>b. /\ upload'[r].v = Len(session.history) + 1
        /\ upload'[r].turns = session.history
        /\ handler'[r] = "upload"
        /\ \A q \in Reqs \ {r} : handler'[q] = handler[q] /\ upload'[q] = upload[q]
    BY DEF ChatInv, ChatTypes, Snapshot
  <1>1. ChatTypes'
    <2>1. [v |-> Len(session.history) + 1, turns |-> session.history] \in ThreadRow
      BY <1>a DEF ThreadRow
    <2>2. QED
      BY <2>1 DEF ChatInv, ChatTypes, Snapshot, Handler
  <1>2. Stages'
    BY <1>a, <1>b DEF ChatInv, Stages, StageOf, Snapshot
  <1>3. ASSUME ~apart' PROVE Kept'
    <2>1. Kept
      BY <1>3 DEF ChatInv, Snapshot
    <2>2. RowKept'
      BY <2>1 DEF Kept, RowKept, Snapshot
    <2>3. ASSUME NEW q \in Reqs PROVE TurnsKept(q)'
      <3>1. CASE q = r
        <4>1. r \notin done
          BY <1>a DEF ChatInv, Stages, StageOf
        <4>2. QED
          BY <1>a, <1>b, <3>1, <4>1, PrefixSame DEF TurnsKept, Stored, Snapshot
      <3>2. CASE q # r
        BY <1>b, <2>1, <3>2 DEF Kept, TurnsKept, Stored, Snapshot
      <3>3. QED
        BY <3>1, <3>2
    <2>4. QED
      BY <2>2, <2>3 DEF Kept
  <1>4. QED
    BY <1>1, <1>2, <1>3 DEF ChatInv

\* Whether the row is replaced or refuses the snapshot, the greater version has
\* all the turns of the other.
LEMMA UploadKept ==
  ASSUME ChatInv, NEW r \in Reqs, Upload(r)
  PROVE  ChatInv'
  <1>a. /\ handler[r] = "upload" /\ handler'[r] = "tell" /\ session.on
        /\ runner[r] = "closed" /\ r \notin done
        /\ \A q \in Reqs \ {r} : handler'[q] = handler[q] /\ upload'[q] = upload[q]
    BY DEF ChatInv, ChatTypes, Stages, StageOf, Upload
  <1>b. /\ upload[r] \in ThreadRow /\ row \in ThreadRow
        /\ session.history \in Seq(Turns)
    BY DEF ChatInv, ChatTypes
  <1>c. /\ upload[r].turns \in Seq(Turns) /\ row.turns \in Seq(Turns)
        /\ upload[r].v \in Nat /\ row.v \in Nat
        /\ Len(upload[r].turns) \in Nat /\ Len(row.turns) \in Nat
    BY <1>b, LenProperties DEF ThreadRow
  <1>1. ChatTypes'
    <2>1. NoUpload \in ThreadRow
      BY EmptySeq DEF NoUpload, ThreadRow
    <2>2. row' \in ThreadRow
      BY <1>b DEF Upload
    <2>3. QED
      BY <2>1, <2>2 DEF ChatInv, ChatTypes, Upload, Handler
  <1>2. Stages'
    BY <1>a DEF ChatInv, Stages, StageOf, Upload
  <1>3. ASSUME ~apart' PROVE Kept'
    <2>1. Kept
      BY <1>3 DEF ChatInv, Upload
    <2>2. /\ IsPrefixOf(upload[r].turns, session.history)
          /\ upload[r].v = Len(upload[r].turns) + 1
          /\ Stored(r, upload[r].turns)
          /\ IsPrefixOf(row.turns, session.history)
          /\ Len(row.turns) <= row.v /\ row.v <= Len(row.turns) + 1
      BY <1>a, <2>1 DEF Kept, RowKept, TurnsKept
    <2>3. /\ SetOf(row.turns) \subseteq SetOf(row'.turns)
          /\ RowKept'
          /\ r \notin cancelled \cup unstored' =>
               SetOf(upload[r].turns) \subseteq SetOf(row'.turns)
      <3> DEFINE decides == /\ row' = IF r \notin cancelled /\ Accepts(upload[r].v)
                                        THEN upload[r] ELSE row
                            /\ UNCHANGED unstored
      <3>1. CASE decides /\ r \notin cancelled /\ upload[r].v > row.v
        <4>1. row' = upload[r] /\ Len(row.turns) <= Len(upload[r].turns)
          BY <1>c, <2>2, <3>1 DEF Accepts
        <4>2. SetOf(row.turns) \subseteq SetOf(upload[r].turns)
          BY <1>b, <1>c, <2>2, <4>1, PrefixesOrdered
        <4>3. RowKept'
          BY <1>a, <1>c, <2>2, <4>1 DEF RowKept, Upload
        <4>4. QED
          BY <4>1, <4>2, <4>3
      <3>2. CASE decides /\ r \notin cancelled /\ ~(upload[r].v > row.v)
        <4>1. row' = row /\ Len(upload[r].turns) <= Len(row.turns)
          BY <1>c, <2>2, <3>2 DEF Accepts
        <4>2. SetOf(upload[r].turns) \subseteq SetOf(row.turns)
          BY <1>b, <1>c, <2>2, <4>1, PrefixesOrdered
        <4>3. RowKept'
          BY <1>a, <2>1, <4>1 DEF Kept, RowKept, Upload
        <4>4. QED
          BY <4>1, <4>2, <4>3
      <3>3. CASE (decides /\ r \in cancelled) \/ (row' = row /\ r \in unstored')
        <4>1. row' = row /\ r \in cancelled \cup unstored'
          BY <3>3
        <4>2. RowKept'
          BY <1>a, <2>1, <4>1 DEF Kept, RowKept, Upload
        <4>3. QED
          BY <4>1, <4>2
      <3>4. decides \/ (row' = row /\ r \in unstored')
        BY DEF Upload
      <3>5. QED
        BY <3>1, <3>2, <3>3, <3>4
    <2>4. ASSUME NEW q \in Reqs PROVE TurnsKept(q)'
      <3>1. CASE q = r
        BY <1>a, <2>2, <2>3, <3>1 DEF TurnsKept, Stored, Upload
      <3>2. CASE q # r
        <4>1. TurnsKept(q)
          BY <2>1 DEF Kept
        <4>2. handler'[q] = handler[q] /\ upload'[q] = upload[q]
          BY <1>a, <3>2
        <4>3. QED
          BY <2>3, <4>1, <4>2 DEF TurnsKept, Stored, Upload
      <3>3. QED
        BY <3>1, <3>2
    <2>5. QED
      BY <2>3, <2>4 DEF Kept
  <1>4. QED
    BY <1>1, <1>2, <1>3 DEF ChatInv

LEMMA TellKept ==
  ASSUME ChatInv, NEW r \in Reqs, Tell(r)
  PROVE  ChatInv'
  <1>a. /\ handler[r] = "tell" /\ handler'[r] = "ended" /\ runner[r] = "closed"
        /\ \A q \in Reqs \ {r} : handler'[q] = handler[q]
        /\ \A q \in Reqs : q \in done' => q \in done \/ (q = r /\ r \notin cancelled)
        /\ cancelled' = cancelled \cup {r}
    BY DEF ChatInv, ChatTypes, Stages, StageOf, Tell, Leaves
  <1>1. ChatTypes'
    BY DEF ChatInv, ChatTypes, Tell, Leaves, Handler
  <1>2. Stages'
    BY <1>a DEF ChatInv, Stages, StageOf, Tell
  <1>3. ASSUME ~apart' PROVE Kept'
    <2>1. Kept
      BY <1>3 DEF ChatInv, Tell
    <2>2. RowKept'
      BY <2>1 DEF Kept, RowKept, Tell
    <2>3. ASSUME NEW q \in Reqs PROVE TurnsKept(q)'
      <3>1. TurnsKept(q)
        BY <2>1 DEF Kept
      <3>2. QED
        BY <1>a, <3>1 DEF TurnsKept, Stored, Tell
    <2>4. QED
      BY <2>2, <2>3 DEF Kept
  <1>4. QED
    BY <1>1, <1>2, <1>3 DEF ChatInv

LEMMA CLITurnKept == ChatInv /\ CLITurn => ChatInv'
  <1> SUFFICES ASSUME ChatInv, CLITurn PROVE ChatInv'
    OBVIOUS
  <1>a. /\ row.turns \in Seq(Turns) /\ row.v \in Nat
        /\ others + 1 \in 1 .. MaxOther
    BY ChatAssumption DEF ChatInv, ChatTypes, ThreadRow, CLITurn
  <1> DEFINE t == Other(others + 1)
  <1>b. t \in Turns
    BY <1>a DEF Turns
  <1> HIDE DEF t
  <1>c. /\ row'.v = row.v + 1 /\ row'.turns = Append(row.turns, t)
        /\ mem' = row'.turns
    BY DEF CLITurn, t
  <1>d. /\ row'.turns \in Seq(Turns) /\ Len(row'.turns) = Len(row.turns) + 1
        /\ Len(row.turns) \in Nat
    BY <1>a, <1>b, <1>c, AppendProperties, LenProperties
  <1>1. ChatTypes'
    <2>1. row' \in ThreadRow
      BY <1>a, <1>c, <1>d DEF CLITurn, ThreadRow
    <2>2. QED
      BY <1>c, <1>d, <2>1 DEF ChatInv, ChatTypes, CLITurn
  <1>2. Stages'
    BY DEF ChatInv, Stages, StageOf, CLITurn
  <1>3. ASSUME ~apart' PROVE Kept'
    <2>1. Kept /\ ~session.on
      BY <1>3 DEF ChatInv, CLITurn
    <2>2. RowKept'
      BY <1>a, <1>c, <1>d, <2>1 DEF Kept, RowKept, CLITurn
    <2>3. ASSUME NEW q \in Reqs PROVE TurnsKept(q)'
      <3>1. handler'[q] \notin {"upload", "tell"} /\ session'.history = << >>
        BY <2>1 DEF ChatInv, Stages, StageOf, CLITurn
      <3>2. QED
        BY <3>1, SetOfEmpty DEF TurnsKept, Stored
    <2>4. QED
      BY <2>2, <2>3 DEF Kept
  <1>4. QED
    BY <1>1, <1>2, <1>3 DEF ChatInv

LEMMA ChatNextInv == ChatInv /\ [ChatNext]_chatVars => ChatInv'
  <1> SUFFICES ASSUME ChatInv, [ChatNext]_chatVars PROVE ChatInv'
    OBVIOUS
  <1>a. ChatTypes /\ Stages
    BY DEF ChatInv
  <1>1. CASE UNCHANGED chatVars
    BY <1>1 DEF chatVars, processVars, ChatInv, ChatTypes, Stages, StageOf, Kept,
                RowKept, TurnsKept, Stored
  <1>2. ASSUME NEW r \in Reqs, Send(r) \/ HandleCancel(r) \/ PassFrame(r) \/ Drained(r)
        PROVE  ChatInv'
    <2>1. /\ UNCHANGED <<row, session, upload, others, done, apart, unstored, mem, runner>>
          /\ cancelled \subseteq cancelled'
          /\ \/ handler' = handler
             \/ \E to \in {"sent", "persist", "ended"} :
                  handler' = [handler EXCEPT ![r] = to]
      <3>1. CASE Send(r)
        BY <3>1 DEF Send
      <3>2. CASE HandleCancel(r)
        BY <3>2 DEF HandleCancel
      <3>3. CASE PassFrame(r)
        BY <3>3 DEF PassFrame, Leaves
      <3>4. CASE Drained(r)
        BY <3>4 DEF Drained
      <3>5. QED
        BY <1>2, <3>1, <3>2, <3>3, <3>4
    <2>3. Moves(r)
      BY <1>a, <2>1 DEF ChatTypes, Handler, Moves
    <2>2. StageOf(r)'
      BY <1>a, <1>2 DEF ChatTypes, Stages, StageOf, Send, HandleCancel, PassFrame,
                        Drained, Leaves
    <2>4. QED
      BY <2>2, <2>3, MovesKept
  <1>3. ASSUME NEW r \in Reqs,
               Frame(r) \/ Settle(r) \/ Publish(r) \/ RoundAnswered(r) \/ RoundFails(r)
        PROVE  ChatInv'
    <2>1. /\ UNCHANGED <<row, session, upload, others, done, apart, unstored,
                           handler, cancelled>>
          /\ mem' = mem \/ mem' = session.history
          /\ runner[r] \notin {"none", "closed"}
          /\ \E to \in Runner \ {"none"} : runner' = [runner EXCEPT ![r] = to]
      BY <1>3 DEF Frame, Settle, Publish, RoundAnswered, RoundFails, RunnerStep,
                  KeepRest, Runner
    <2>2. session.on /\ handler[r] \notin {"none", "sent", "persist", "upload", "tell"}
          /\ r \notin done
      BY <1>a, <2>1 DEF Stages, StageOf
    <2>3. Moves(r)
      BY <1>a, <2>1, <2>2 DEF ChatTypes, Moves
    <2>4. StageOf(r)'
      BY <1>a, <2>1, <2>2 DEF ChatTypes, StageOf
    <2>5. QED
      BY <2>3, <2>4, MovesKept
  <1>4. ASSUME NEW r \in Reqs, AppendUser(r) PROVE ChatInv'
    BY <1>4, AppendsKept DEF AppendUser, RunnerStep, Runner
  <1>5. ASSUME NEW r \in Reqs, KeepAnswer(r) PROVE ChatInv'
    BY <1>5, AppendsKept DEF KeepAnswer, RunnerStep, Runner
  <1>6. CASE Disconnect
    <2>1. /\ UNCHANGED <<row, mem, session, handler, runner, upload, others, done, apart,
                       unstored>>
          /\ cancelled \subseteq cancelled'
      BY <1>6 DEF Disconnect
    <2>2. ChatTypes' /\ Stages'
      BY <1>a, <2>1 DEF ChatTypes, Stages, StageOf
    <2>3. ~apart' => Kept'
      BY <2>1 DEF ChatInv, Kept, RowKept, TurnsKept, Stored
    <2>4. QED
      BY <2>2, <2>3 DEF ChatInv
  <1>7. ASSUME NEW r \in Reqs, Panic(r) PROVE ChatInv'
    BY <1>7, FreshKept DEF Panic
  <1>8. CASE ProcessRestart
    BY <1>8, FreshKept DEF ProcessRestart
  <1>9. QED
    BY <1>1, <1>2, <1>3, <1>4, <1>5, <1>6, <1>7, <1>8, BeginKept, SnapshotKept,
       UploadKept, TellKept, CLITurnKept
       DEF ChatNext, HandlerStep, OwnStep

\* Whichever of several messages stores the thread last, a turn that the browser
\* was told is done (handleSend, persist) is in the store with its answer, as
\* long as the session has what the store has.
THEOREM DoneKept == ChatSpec => []DoneStored
  <1>1. ChatInv => DoneStored
    BY DEF ChatInv, ChatTypes, Kept, TurnsKept, Stored, DoneStored
  <1>2. QED
    BY <1>1, ChatInitInv, ChatNextInv, PTL DEF ChatSpec

================================================================================
