------------------------------ MODULE ChatSocket ------------------------------
(***************************************************************************)
(* The browser's chat (cmd/amp-proxy-neo/chat_ws.go and                    *)
(* internal/neo/rivet/standalone.go): every message is handled by two      *)
(* goroutines of its own, one that asks the model and one that passes its  *)
(* frames to the websocket, stores the thread and tells the browser that   *)
(* the turn is done.  All messages of a thread share a session, which the  *)
(* handler keeps until the process ends.                                   *)
(*                                                                         *)
(* One thread is modelled.  Its history is a sequence of turns: those it   *)
(* had, and for every message the browser's and the assistant's.           *)
(***************************************************************************)
EXTENDS Integers, Sequences, SequencesExt

CONSTANTS
  Reqs,     \* messages of the browser, each with its request id
  Old,      \* how many turns the stored thread has at first, if there is one
  Cap,      \* bound: frames in the channel between the goroutines
  MaxOther, \* bound: turns that amp's CLI adds to the thread
  Providers \* the providers the modes lead to

ASSUME ChatAssumption ==
  /\ Cap \in Nat \ {0} /\ MaxOther \in Nat /\ Old \in Nat
  /\ Providers \subseteq {"anthropic", "google", "openai"}

User(r) == <<"user", r>>
Reply(r) == <<"assistant", r>>
Other(n) == <<"cli", n>>
Turns == {User(r) : r \in Reqs} \cup {Reply(r) : r \in Reqs}
         \cup {Other(n) : n \in 1 .. MaxOther} \cup {<<"old", n>> : n \in 1 .. Old}

VARIABLES
  row,       \* the stored thread: its version and its turns
  mem,       \* the history that the process keeps for the thread
  session,   \* whether the handler has a session, and its history
  handler,   \* handleSend of each message
  runner,    \* runStandalone of each message
  queue,     \* frames between the two
  cancelled, \* messages whose context has ended
  gone,      \* messages whose connection is closed
  upload,    \* what handleSend is about to store
  others,    \* turns of the CLI so far
  \* For the properties:
  done,      \* messages the browser was told are done
  apart,     \* the session does not have what the store has
  unstored,  \* messages whose upload failed in the store
  panicked   \* the process has ended by a panic

processVars == <<mem, session, handler, runner, queue, cancelled, gone, upload>>
chatVars == <<row, processVars, others, done, apart, unstored, panicked>>

Handler == {"none", "sent", "drain", "persist", "upload", "tell", "ended"}
Runner == {"none", "user", "append", "round", "answer", "keep", "publish",
           "settle", "idle", "error", "closed"}

NoUpload == [v |-> 0, turns |-> << >>]
SetOf(turns) == ToSet(turns)

OldThread == [n \in 1 .. Old |-> <<"old", n>>]

ChatInit ==
  /\ row \in {NoUpload, [v |-> Old + 1, turns |-> OldThread]}
  /\ mem = << >>
  /\ session = [on |-> FALSE, history |-> << >>]
  /\ handler = [r \in Reqs |-> "none"] /\ runner = [r \in Reqs |-> "none"]
  /\ queue = [r \in Reqs |-> 0]
  /\ cancelled = {} /\ gone = {}
  /\ upload = [r \in Reqs |-> NoUpload]
  /\ others = 0 /\ done = {} /\ apart = FALSE /\ unstored = {}
  /\ panicked = FALSE

Keeps(turns) == SetOf(row.turns) \subseteq SetOf(turns)

------------------------------------------------------------------------------
(* The browser.                                                             *)

Send(r) ==
  /\ handler[r] = "none"
  /\ handler' = [handler EXCEPT ![r] = "sent"]
  /\ UNCHANGED <<row, mem, session, runner, queue, cancelled, gone, upload,
                 others, done, apart, unstored, panicked>>

\* handleCancel: nothing is found before handleSend has registered the message.
HandleCancel(r) ==
  /\ handler[r] \in {"drain", "persist", "upload", "tell"}
  /\ cancelled' = cancelled \cup {r}
  /\ UNCHANGED <<row, mem, session, handler, runner, queue, gone, upload,
                 others, done, apart, unstored, panicked>>

\* The connection is closed; ServeHTTP returns, which ends the contexts of its
\* messages.
Disconnect ==
  /\ LET sent == {r \in Reqs : handler[r] # "none"}
     IN /\ ~(sent \subseteq gone)
        /\ gone' = gone \cup sent
        /\ cancelled' = cancelled \cup {r \in sent : handler[r] # "ended"}
  /\ UNCHANGED <<row, mem, session, handler, runner, queue, upload, others,
                 done, apart, unstored, panicked>>

------------------------------------------------------------------------------
(* handleSend and runStandalone.                                            *)

\* session: a new one begins with what the process knows of the thread, and
\* does not look into the store.
Bound == IF session.on THEN session.history ELSE mem

Begin(r) ==
  /\ handler[r] = "sent"
  /\ session' = [on |-> TRUE, history |-> Bound]
  /\ apart' = (apart \/ ~Keeps(Bound))
  /\ handler' = [handler EXCEPT ![r] = "drain"]
  /\ runner' = [runner EXCEPT ![r] = "user"]
  /\ UNCHANGED <<row, mem, queue, cancelled, gone, upload, others, done,
                 unstored, panicked>>

\* writeFrame: into the channel, or given up when the context has ended; with
\* both possible either is taken.
WriteFrame(r) ==
  \/ /\ queue[r] < Cap
     /\ queue' = [queue EXCEPT ![r] = @ + 1]
  \/ r \in cancelled /\ UNCHANGED queue

RunnerStep(r, from, to) == runner[r] = from /\ runner' = [runner EXCEPT ![r] = to]
KeepRest == UNCHANGED <<row, handler, cancelled, gone, upload, others, done,
                        apart, unstored, panicked>>

\* The frames of a turn: what the browser wrote, the answer, the end.
Frame(r) ==
  /\ \/ RunnerStep(r, "user", "append")
     \/ RunnerStep(r, "answer", "keep")
     \/ RunnerStep(r, "idle", "closed")
     \/ RunnerStep(r, "error", "closed")
  /\ WriteFrame(r)
  /\ KeepRest /\ UNCHANGED <<mem, session>>

AppendUser(r) ==
  /\ RunnerStep(r, "append", "round")
  /\ session' = [session EXCEPT !.history = Append(@, User(r))]
  /\ KeepRest /\ UNCHANGED <<mem, queue>>

\* runOneInferenceRound: the model answers; Anthropic's and Google's rounds
\* give up when the frame of the answer cannot be written.
RoundAnswered(r) ==
  /\ RunnerStep(r, "round", "answer")
  /\ KeepRest /\ UNCHANGED <<mem, session, queue>>

\* No credentials, an error of the provider, or the context has ended; nothing
\* is said of the last.
RoundFails(r) ==
  /\ runner[r] \in {"round", "keep"} /\ (runner[r] = "keep" => r \in cancelled)
  /\ runner' = [runner EXCEPT ![r] = IF r \in cancelled THEN "closed" ELSE "error"]
  /\ KeepRest /\ UNCHANGED <<mem, session, queue>>

KeepAnswer(r) ==
  /\ RunnerStep(r, "keep", "publish")
  /\ session' = [session EXCEPT !.history = Append(@, Reply(r))]
  /\ KeepRest /\ UNCHANGED <<mem, queue>>

\* persistInMemoryThread.
Publish(r) ==
  /\ RunnerStep(r, "publish", "settle")
  /\ mem' = session.history
  /\ KeepRest /\ UNCHANGED <<session, queue>>

\* The end of a round.  The OpenAI and custom rounds then close the websocket
\* of amp's CLI, which this session does not have: its mutex is nil.
Settle(r) ==
  /\ Providers \cap {"anthropic", "google"} # {}
  /\ RunnerStep(r, "settle", "idle")
  /\ KeepRest /\ UNCHANGED <<mem, session, queue>>

Fresh == /\ mem' = << >> /\ session' = [on |-> FALSE, history |-> << >>]
         /\ handler' = [r \in Reqs |-> IF handler[r] = "none" THEN "none" ELSE "ended"]
         /\ runner' = [r \in Reqs |-> IF handler[r] = "none" THEN "none" ELSE "closed"]
         /\ queue' = [r \in Reqs |-> 0]
         /\ gone' = {r \in Reqs : handler[r] # "none"}
         /\ cancelled' = gone'
         /\ upload' = [r \in Reqs |-> NoUpload]

Panic(r) ==
  /\ runner[r] = "settle" /\ "openai" \in Providers
  /\ Fresh /\ panicked' = TRUE
  /\ UNCHANGED <<row, others, done, apart, unstored>>

\* handleSend ends: the context with it.
Leaves(r) ==
  /\ handler' = [handler EXCEPT ![r] = "ended"]
  /\ cancelled' = cancelled \cup {r}

\* Mutant: handleSend returns and leaves its context open.
PassFrameForgetful(r) ==
  /\ handler[r] = "drain" /\ queue[r] > 0
  /\ \/ /\ r \notin gone
        /\ queue' = [queue EXCEPT ![r] = @ - 1] /\ UNCHANGED handler
     \/ handler' = [handler EXCEPT ![r] = "ended"] /\ UNCHANGED queue
  /\ UNCHANGED <<row, mem, session, runner, cancelled, gone, upload, others,
                 done, apart, unstored, panicked>>

\* A frame is written to the websocket, or the write fails: the connection is
\* closed, or ten seconds are over.
PassFrame(r) ==
  /\ handler[r] = "drain" /\ queue[r] > 0
  /\ \/ /\ r \notin gone
        /\ queue' = [queue EXCEPT ![r] = @ - 1] /\ UNCHANGED <<handler, cancelled>>
     \/ Leaves(r) /\ UNCHANGED queue
  /\ UNCHANGED <<row, mem, session, runner, gone, upload, others, done, apart,
                 unstored, panicked>>

Drained(r) ==
  /\ handler[r] = "drain" /\ queue[r] = 0 /\ runner[r] = "closed"
  /\ handler' = [handler EXCEPT ![r] = "persist"]
  /\ UNCHANGED <<row, mem, session, runner, queue, cancelled, gone, upload,
                 others, done, apart, unstored, panicked>>

\* BuildStandaloneThreadJSON.
Snapshot(r) ==
  /\ handler[r] = "persist"
  /\ upload' = [upload EXCEPT ![r] = [v |-> Len(session.history) + 1,
                                      turns |-> session.history]]
  /\ handler' = [handler EXCEPT ![r] = "upload"]
  /\ UNCHANGED <<row, mem, session, runner, queue, cancelled, gone, others,
                 done, apart, unstored, panicked>>

\* Mutant: an older version replaces a newer one.
AcceptsAny(v) == TRUE

Accepts(v) == v > row.v

\* UploadThread; a conflict is ignored, and an error of the database is logged,
\* which an ended context is, too.
Upload(r) ==
  /\ handler[r] = "upload"
  /\ \/ /\ row' = IF r \notin cancelled /\ Accepts(upload[r].v) THEN upload[r] ELSE row
        /\ UNCHANGED unstored
     \/ /\ unstored' = unstored \cup {r}
        /\ UNCHANGED row
  /\ upload' = [upload EXCEPT ![r] = NoUpload]
  /\ handler' = [handler EXCEPT ![r] = "tell"]
  /\ UNCHANGED <<mem, session, runner, queue, cancelled, gone, others, done,
                 apart, panicked>>

Tell(r) ==
  /\ handler[r] = "tell"
  /\ done' = IF r \notin cancelled THEN done \cup {r} ELSE done
  /\ Leaves(r)
  /\ UNCHANGED <<row, mem, session, runner, queue, gone, upload, others,
                 apart, unstored, panicked>>

------------------------------------------------------------------------------
(* The environment.                                                         *)

\* amp's CLI adds a turn to the thread, through a session of its own.
CLITurn ==
  /\ others < MaxOther
  /\ others' = others + 1
  /\ row' = [v |-> row.v + 1, turns |-> Append(row.turns, Other(others + 1))]
  /\ mem' = row'.turns
  /\ apart' = (apart \/ session.on)
  /\ UNCHANGED <<session, handler, runner, queue, cancelled, gone, upload, done,
                 unstored, panicked>>

ProcessRestart ==
  /\ session.on \/ mem # << >>
  /\ Fresh
  /\ UNCHANGED <<row, others, done, apart, unstored, panicked>>

HandlerStep(r) ==
  Begin(r) \/ PassFrame(r) \/ Drained(r) \/ Snapshot(r) \/ Upload(r) \/ Tell(r)
OwnStep(r) ==
  \/ Frame(r) \/ AppendUser(r) \/ KeepAnswer(r) \/ Publish(r) \/ Settle(r)
  \/ r \in cancelled /\ RoundFails(r)

ChatNext ==
  \/ \E r \in Reqs : Send(r) \/ HandleCancel(r) \/ HandlerStep(r) \/ OwnStep(r)
                     \/ RoundAnswered(r) \/ RoundFails(r) \/ Panic(r)
  \/ Disconnect \/ CLITurn \/ ProcessRestart

ChatSpec == ChatInit /\ [][ChatNext]_chatVars

\* The goroutines run and writes end by their deadline; the model need not
\* answer, but a request whose context has ended does.
ChatFairSpec ==
  /\ ChatSpec
  /\ \A r \in Reqs : WF_chatVars(HandlerStep(r)) /\ WF_chatVars(OwnStep(r) \/ Panic(r))

------------------------------------------------------------------------------
\* A turn that the browser was told is done is in the store with its answer, if
\* there was one, whichever of several messages stores the thread last.
\* Exceptions: an error of the database, which handleSend logs before it reports
\* the turn done; a session that began without what the store has, or a thread
\* that the CLI has changed since.
DoneStored ==
  ~apart => \A r \in done \ unstored :
              {User(r), Reply(r)} \cap SetOf(session.history) \subseteq SetOf(row.turns)

\* A message that the browser cancelled or that handleSend has left comes to its
\* end, both goroutines of it, although the model may never answer, the channel
\* is full and nobody reads it any more.
CancelEnds ==
  \A r \in Reqs : r \in cancelled \/ handler[r] = "ended"
                   ~> runner[r] \in {"none", "closed"} /\ handler[r] = "ended"

\* The turn of the browser "returns Rivet UI frames directly instead of writing
\* them to an amp CLI websocket": no turn ends the process.
NeverPanics == ~panicked

==============================================================================
