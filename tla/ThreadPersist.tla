----------------------------- MODULE ThreadPersist -----------------------------
(***************************************************************************)
(* How the history of one thread gets from the sessions of its clients     *)
(* into the local thread store and on to amp's server, and back when a new *)
(* session hydrates (internal/neo/rivet/persist.go, the hydration and the  *)
(* background upload of runLocalInference, internal/neo/threadstore).      *)
(*                                                                         *)
(* A message is a prompt or an answer, named after the run that brought    *)
(* it; the messages of an answer's tool rounds count as one.  Clients of   *)
(* the thread come one after another, and each prompts only when its last  *)
(* prompt was answered, refused or cancelled; what goroutines of one       *)
(* session do to each other's history is the matter of RivetSession.       *)
(***************************************************************************)
EXTENDS Integers, Sequences

CONSTANTS
  Threads,     \* what store and server hold at first: [store, upstream]
  Configured,  \* TRUE: there is an upstream URL and an API key
  Commands,    \* what clients may do besides appending prompts
  MaxConns,    \* bound: sessions
  MaxRuns      \* bound: runs

ASSUME PersistAssumption ==
  /\ MaxConns \in Nat \ {0} /\ MaxRuns \in Nat
  /\ Configured \in BOOLEAN
  /\ Commands \subseteq {"retry", "edit", "cancel", "delete"}

Conns == 1 .. MaxConns
Runs == 1 .. MaxRuns

Message == [by : {"user", "assistant"}, of : 0 .. MaxRuns]
Prompt(n) == [by |-> "user", of |-> n]
Answer(n) == [by |-> "assistant", of |-> n]

\* A stored version of the thread: it counts at least its messages, and is
\* positive (ParseThread).  Version 0 stands for a missing row: it gives way
\* to every upload.
NoThread == [v |-> 0, msgs |-> <<>>]
Version ==
  {x \in [v : Nat, msgs : Seq(Message)] : x.v > Len(x.msgs)} \cup {NoThread}

ASSUME ThreadsAssumption ==
  Threads \subseteq [store : Version, upstream : Version]

VARIABLES
  store,     \* the row of the thread in SQLite
  upstream,  \* the thread on amp's server
  thread,    \* the process-wide history that a new session binds
  conns,     \* number of sessions so far; the last one is the client's
  sess,      \* per session: the fields of RivetSession that matter here
  runs,      \* number of runs so far
  run,       \* per run: its locals, and its background upload
  calm       \* history variable: so far nothing that may lose answers

sessVars == <<conns, sess>>
vars == <<store, upstream, thread, conns, sess, runs, run, calm>>

NewSession(history) ==
  [history |-> history, hydrated |-> FALSE, persistUnsafe |-> FALSE,
   serverV |-> 0, serverPriorLen |-> 0]

NoRun == [pc |-> "none", sess |-> 1, prompt |-> Prompt(0), needsHydrate |-> FALSE,
          priorLocalLen |-> 0, cancelled |-> FALSE, got |-> <<>>,
          upload |-> NoThread]

\* The answers among messages.
Answers(msgs) == {m \in {msgs[i] : i \in DOMAIN msgs} : m.by = "assistant"}

Init ==
  /\ \E t \in Threads : store = t.store /\ upstream = t.upstream
  /\ thread = <<>>
  /\ conns = 1 /\ sess = [c \in Conns |-> NewSession(<<>>)]
  /\ runs = 0 /\ run = [r \in Runs |-> NoRun]
  /\ calm = (store = NoThread \/ Answers(upstream.msgs) \subseteq Answers(store.msgs))

At(r, pc) == run[r].pc = pc
Executing(r) == run[r].pc \in {"cold", "fetched", "warm"}
Ended(r) == run[r].pc \in {"none", "done", "failed"}
Busy == \E r \in Runs : run[r].sess = conns /\ Executing(r) /\ ~run[r].cancelled
History(r) == sess[run[r].sess].history

Go(r, pc) == run' = [run EXCEPT ![r].pc = pc]

(***************************************************************************)
(* The client.                                                             *)
(***************************************************************************)
\* The messages that stay when the answer at the end is dropped.
TrimPoint(history, k) ==
  /\ k > 0 => history[k].by = "user"
  /\ \A j \in (k + 1) .. Len(history) : history[j].by # "user"

\* A prompt puts history in place of the session's and starts a run, whose
\* first critical section notes whether it has to hydrate.
StartRun(history, prompt) ==
  /\ runs < MaxRuns /\ ~Busy
  /\ runs' = runs + 1
  /\ run' = [run EXCEPT ![runs + 1] =
               [NoRun EXCEPT !.pc = "cold", !.sess = conns, !.prompt = prompt,
                             !.needsHydrate = ~sess[conns].hydrated,
                             !.priorLocalLen = Len(history)]]
  /\ sess' = [sess EXCEPT ![conns].history = history,
                          ![conns].hydrated = TRUE]
  /\ UNCHANGED <<store, upstream, thread, conns>>

ClientAppend ==
  LET prompt == Prompt(runs + 1)
  IN  StartRun(Append(sess[conns].history, prompt), prompt) /\ UNCHANGED calm

\* A retry drops the last answer; without a prompt left it runs nothing.
Retry ==
  LET history == sess[conns].history
  IN  /\ "retry" \in Commands
      /\ \E k \in 1 .. Len(history) :
           TrimPoint(history, k) /\ StartRun(SubSeq(history, 1, k), history[k])
      /\ calm' = FALSE

\* An edit also replaces the prompt, if the session has one.
Edit ==
  LET history == sess[conns].history
      prompt == Prompt(runs + 1)
  IN  /\ "edit" \in Commands
      /\ \E k \in 0 .. Len(history) :
           /\ TrimPoint(history, k)
           /\ StartRun(IF k = 0 THEN <<>>
                       ELSE Append(SubSeq(history, 1, k - 1), prompt), prompt)
      /\ calm' = FALSE

\* client_cancel cancels the context of the run.
Cancel ==
  /\ "cancel" \in Commands /\ Busy
  /\ run' = [r \in Runs |->
               [run[r] EXCEPT !.cancelled =
                  @ \/ (run[r].sess = conns /\ Executing(r))]]
  /\ calm' = FALSE
  /\ UNCHANGED <<store, upstream, thread, sessVars, runs>>

\* deleteThread of the HTTP interface.
DeleteThread ==
  /\ "delete" \in Commands
  /\ store' = NoThread /\ calm' = FALSE
  /\ UNCHANGED <<upstream, thread, sessVars, runs, run>>

\* The next client binds the process-wide history.  Goroutines of the
\* session before it go on; what a run has not answered yet is not bound.
\* What an unsafe session answered is, and the new session is not unsafe.
\* A prompt whose run failed is not, but an upload of the session that is
\* under way still carries it, and counts it.
Connect ==
  /\ conns < MaxConns
  /\ conns' = conns + 1
  /\ sess' = [sess EXCEPT ![conns + 1] = NewSession(thread)]
  /\ calm' = (calm /\ (\A r \in Runs : ~Executing(r))
                   /\ (\A c \in Conns : ~sess[c].persistUnsafe)
                   /\ \/ sess[conns].history = thread
                      \/ \A r \in Runs : run[r].sess = conns => Ended(r))
  /\ UNCHANGED <<store, upstream, thread, runs, run>>

\* The process dies, with its goroutines, and is started again; a client
\* connects.  Store and server keep what they have.
Restart ==
  /\ conns < MaxConns
  /\ conns' = conns + 1
  /\ sess' = [sess EXCEPT ![conns + 1] = NewSession(<<>>)]
  /\ thread' = <<>>
  /\ run' = [r \in Runs |->
               IF run[r].pc \in {"none", "done"} THEN run[r]
               ELSE [run[r] EXCEPT !.pc = "failed"]]
  /\ UNCHANGED <<store, upstream, runs, calm>>

(***************************************************************************)
(* Hydration.                                                              *)
(***************************************************************************)
\* fetchThreadHistory read the thread v: its version becomes serverV.
Fetched(r, version) ==
  /\ At(r, "cold") /\ run[r].needsHydrate /\ ~run[r].cancelled
  /\ version # NoThread
  /\ run' = [run EXCEPT ![r].pc = "fetched", ![r].got = version.msgs]
  /\ sess' = [sess EXCEPT ![run[r].sess].serverV = version.v]
  /\ UNCHANGED <<store, upstream, thread, conns, runs>>

FetchLocal(r) == Fetched(r, store) /\ UNCHANGED calm

\* The store does not know the thread, or reading it failed.  The backfill
\* of the store leaves it as it was: the body it parses carries no thread id
\* and ParseThread refuses it.
FetchUpstream(r) ==
  /\ Configured
  /\ Fetched(r, upstream)
  /\ calm' = (calm /\ store = NoThread)

\* Nobody knows the thread, or nobody answers, or the run was cancelled: the
\* session is marked and goes on with what it has.
FetchFails(r) ==
  /\ At(r, "cold") /\ run[r].needsHydrate
  /\ Go(r, "warm")
  /\ sess' = [sess EXCEPT ![run[r].sess].persistUnsafe = TRUE]
  /\ UNCHANGED <<store, upstream, thread, conns, runs, calm>>

AlreadyHydrated(r) ==
  /\ At(r, "cold") /\ ~run[r].needsHydrate
  /\ Go(r, "warm")
  /\ UNCHANGED <<store, upstream, thread, sessVars, runs, calm>>

\* The stored messages take the place of the history unless the session had
\* more of them when the run began.
Hydrated(r, history) ==
  IF Len(run[r].got) >= run[r].priorLocalLen
  THEN Append(run[r].got, run[r].prompt) ELSE history

Hydrate(r) ==
  /\ At(r, "fetched")
  /\ Go(r, "warm")
  /\ sess' = [sess EXCEPT
                ![run[r].sess].serverPriorLen = Len(run[r].got),
                ![run[r].sess].history = Hydrated(r, @)]
  /\ UNCHANGED <<store, upstream, thread, conns, runs, calm>>

(***************************************************************************)
(* The end of a run.                                                       *)
(***************************************************************************)
\* The answer joins the history of the session and the process-wide one, and
\* the background upload is started.
Answered(r) ==
  /\ At(r, "warm") /\ ~run[r].cancelled
  /\ Go(r, "check")
  /\ sess' = [sess EXCEPT ![run[r].sess].history = Append(@, Answer(r))]
  /\ thread' = Append(History(r), Answer(r))
  /\ UNCHANGED <<store, upstream, conns, runs, calm>>

\* An error or the cancelled context: runLocalInference returns early and
\* persists nothing.
RunFails(r) ==
  /\ At(r, "warm")
  /\ Go(r, "failed")
  /\ UNCHANGED <<store, upstream, thread, sessVars, runs, calm>>

(***************************************************************************)
(* persistThread.                                                          *)
(***************************************************************************)
\* Mutant: the mark of a failed hydration is not looked at.
MayPersistUnsafe(s) == s.serverPriorLen = 0 \/ Len(s.history) >= s.serverPriorLen

MayPersist(s) ==
  /\ ~s.persistUnsafe
  /\ s.serverPriorLen > 0 => Len(s.history) >= s.serverPriorLen

Check(r) ==
  /\ At(r, "check")
  /\ Go(r, IF MayPersist(sess[run[r].sess]) THEN "build" ELSE "done")
  /\ UNCHANGED <<store, upstream, thread, sessVars, runs, calm>>

\* Mutant: the length of the history is left out of the version.
UploadVFromServer(s) == s.serverV + 1

\* Mutant: the version of a history is its length.
UploadVIsLength(s) ==
  IF s.serverV + 1 > Len(s.history) THEN s.serverV + 1 ELSE Len(s.history)

\* v must be greater than what the server has.
UploadV(s) ==
  IF s.serverV + 1 > Len(s.history) + 1 THEN s.serverV + 1 ELSE Len(s.history) + 1

\* The history is read a second time for the upload.
Build(r) ==
  LET s == sess[run[r].sess]
  IN  /\ At(r, "build")
      /\ run' = [run EXCEPT ![r].pc = "local",
                            ![r].upload = [v |-> UploadV(s), msgs |-> s.history]]
      /\ UNCHANGED <<store, upstream, thread, sessVars, runs, calm>>

\* The upsert of SQLiteStore.UploadThread replaces only smaller versions.
Newer(version, row) == version.v > row.v

StoreLocal(r) ==
  /\ At(r, "local")
  /\ Newer(run[r].upload, store)
  /\ store' = run[r].upload
  /\ Go(r, IF Configured THEN "upstream" ELSE "done")
  /\ UNCHANGED <<upstream, thread, sessVars, runs, calm>>

\* ErrVersionConflict: nothing is uploaded anywhere.
Conflict(r) ==
  /\ At(r, "local")
  /\ ~Newer(run[r].upload, store)
  /\ Go(r, "done")
  /\ UNCHANGED <<store, upstream, thread, sessVars, runs, calm>>

\* Another error of the store, or the 45 seconds are over.
StoreFails(r) ==
  /\ At(r, "local")
  /\ Go(r, "failed")
  /\ UNCHANGED <<store, upstream, thread, sessVars, runs, calm>>

\* amp's server keeps the messages of greater versions only.
UploadUpstream(r) ==
  /\ At(r, "upstream")
  /\ upstream' = IF Newer(run[r].upload, upstream) THEN run[r].upload ELSE upstream
  /\ Go(r, "done")
  /\ UNCHANGED <<store, thread, sessVars, runs, calm>>

UpstreamFails(r) ==
  /\ At(r, "upstream")
  /\ Go(r, "done")
  /\ UNCHANGED <<store, upstream, thread, sessVars, runs, calm>>

(***************************************************************************)
(* The specification.                                                      *)
(***************************************************************************)
Client == ClientAppend \/ Retry \/ Edit \/ Cancel \/ DeleteThread \/ Connect

RunStep(r) ==
  \/ FetchLocal(r) \/ FetchUpstream(r) \/ FetchFails(r) \/ AlreadyHydrated(r)
  \/ Hydrate(r) \/ Answered(r) \/ RunFails(r)

Persist(r) ==
  \/ Check(r) \/ Build(r) \/ StoreLocal(r) \/ Conflict(r) \/ StoreFails(r)
  \/ UploadUpstream(r) \/ UpstreamFails(r)

\* Nothing is left to do within the bounds.
Finished == (\A r \in Runs : Ended(r)) /\ UNCHANGED vars

Next ==
  \/ Client \/ Restart
  \/ (\E r \in Runs : RunStep(r) \/ Persist(r))
  \/ Finished

Spec == Init /\ [][Next]_vars

(***************************************************************************)
(* Properties.                                                             *)
(***************************************************************************)
SessionRecord ==
  [history : Seq(Message), hydrated : BOOLEAN, persistUnsafe : BOOLEAN,
   serverV : Nat, serverPriorLen : Nat]

RunRecord ==
  [pc : {"none", "cold", "fetched", "warm", "check", "build", "local",
         "upstream", "done", "failed"},
   sess : Conns, prompt : Message, needsHydrate : BOOLEAN, priorLocalLen : Nat,
   cancelled : BOOLEAN, got : Seq(Message), upload : Version]

TypeOK ==
  /\ store \in Version /\ upstream \in Version
  /\ thread \in Seq(Message)
  /\ conns \in Conns /\ sess \in [Conns -> SessionRecord]
  /\ runs \in 0 .. MaxRuns /\ run \in [Runs -> RunRecord]
  /\ calm \in BOOLEAN

\* No upload makes the store or amp's server forget an answer: overlapping
\* uploads, restarts, reconnections, failed hydrations and failed uploads in
\* any order never replace a history by one without some of its answers.
\* What does is named by calm: a retry or edit, which means to; a cancel,
\* whose next run does not wait for hydration; a client that reconnects
\* before its prompt is answered, or after a session that could not hydrate,
\* or after a failed prompt while an upload is under way; a store that was
\* behind amp's server to begin with, or hydrating from the server although
\* the store had the thread; and the deletion of the thread.
NothingLost ==
  [][calm' => /\ Answers(store.msgs) \subseteq Answers(store'.msgs)
              /\ Answers(upstream.msgs) \subseteq Answers(upstream'.msgs)]_vars

\* The session found a version that counts its messages, as Neo's own do.
\* The server's own versions count every change of the thread.
InStep(s) == s.serverV <= s.serverPriorLen + 1

\* When the upload of an answer is over, the store has the answer, although
\* the upload itself may have been refused: then a later one brought it.
AnswersStored ==
  calm =>
    \A r \in Runs :
      LET s == sess[run[r].sess]
      IN  At(r, "done") /\ ~s.persistUnsafe /\ InStep(s) =>
            Answer(r) \in Answers(store.msgs)

(***************************************************************************)
(* Claims of the source that the code does not keep; each is refuted by a  *)
(* run of its own (see README.md).                                         *)
(***************************************************************************)

\* The assembled thread, user and assistant, is persisted "locally first":
\* the upload of a session that hydrated leaves the answer in the store.
AnswersPersisted ==
  calm =>
    \A r \in Runs :
      At(r, "done") /\ ~sess[run[r].sess].persistUnsafe =>
        Answer(r) \in Answers(store.msgs)

================================================================================
