---------------------------- MODULE RivetSession ----------------------------
(***************************************************************************)
(* One Rivet session of amp-proxy-neo: the state a websocket connection    *)
(* keeps for its thread (internal/neo/rivet/inference.go, RivetSession),   *)
(* the frames of the amp client that change it (observeClient, called by   *)
(* pipeClient in forwarder.go) and the goroutines that run local           *)
(* inference (runLocalInference and the rounds of its four providers).     *)
(*                                                                         *)
(* The client's frames are handled one at a time by the reader goroutine,  *)
(* so each is one action.  A run is a goroutine of its own: it takes one   *)
(* step per critical section or per wait, and its steps interleave with    *)
(* the frames and with the steps of the other runs.                        *)
(*                                                                         *)
(* A turn of the history is abstracted to who wrote it and how many tool   *)
(* calls it carries; texts, tool arguments and results are left out.       *)
(***************************************************************************)
EXTENDS Integers, Sequences

CONSTANTS
  Msgs,        \* the messages the client may send (one per messageId)
  Images,      \* those whose first content block is an image
  NoMsg,       \* the empty messageId
  MaxRuns,     \* bound: how many inference goroutines are started
  MaxRounds,   \* maxToolRounds of the tool loop
  MaxCalls,    \* bound: tool calls of one assistant turn
  MaxFrames,   \* bound: client frames of the session
  FrameKinds,  \* which client frames occur, a subset of AllFrames
  Providers,   \* whose models answer, a subset of AllProviders
  Patient,     \* TRUE: the client sends prompts only while it is shown idle
  Threads      \* what the process and the store hold of the thread at start

\* "passthrough" is an append in a mode that is not served here.
AllFrames == {"append", "passthrough", "retry", "edit", "cancel", "leave"}

AllProviders == {"anthropic", "gemini", "openai", "custom"}

\* Their rounds end with an agent_state; those of the others hang up.
SayIdle == {"anthropic", "gemini"}

Runs == 1 .. MaxRuns

Turn == [kind  : {"user", "image", "assistant", "results"},
         msg   : Msgs \cup {NoMsg},
         run   : 0 .. MaxRuns,
         round : 0 .. MaxRounds,
         calls : 0 .. MaxCalls]

\* The turns are older than this session: no run of it wrote them.
Earlier(h) == \A i \in DOMAIN h : h[i].run = 0

ASSUME SessionAssumption ==
  /\ MaxRuns \in Nat /\ MaxRounds \in Nat \ {0} /\ MaxCalls \in Nat
  /\ MaxFrames \in Nat
  /\ Images \subseteq Msgs /\ NoMsg \notin Msgs
  /\ FrameKinds \subseteq AllFrames
  /\ Providers \subseteq AllProviders
  /\ Patient \in BOOLEAN
  /\ Threads \subseteq [bound : Seq(Turn), stored : Seq(Turn)]
  /\ \A t \in Threads : Earlier(t.bound) /\ Earlier(t.stored)

\* A tool call is named by the run that leased it, its round and its place.
ToolIds == Runs \X (1 .. MaxRounds) \X (1 .. MaxCalls)

VARIABLES
  history,         \* s.history
  inflight,        \* s.inflight
  lastMsgID,       \* s.lastMsgID
  inflightCancel,  \* s.inflightCancel: the run it cancels, 0 for nil
  hydrated,        \* s.hydrated
  persistUnsafe,   \* s.persistUnsafe
  agentMode,       \* s.agentMode: served here, or by amp's server (byok)
  chan,            \* s.pendingToolResults: each tool's channel, if registered
  run,             \* the inference goroutines
  runs,            \* how many of them were started
  thread,          \* threadState.history, which later connections bind
  stored,          \* the messages hydration finds for the thread
  open,            \* the client's websocket is connected
  ui,              \* what the client shows: the last agent_state, or that
                   \* it sent a prompt, or that it was told to close
  upstreamRunning, \* amp's server runs an inference for this thread
  frames,          \* how many client frames were handled
  cancelUsed,      \* history variable: a client_cancel was handled
  spoiled,         \* history variable: see RequestsWellFormed
  exhausted        \* history variable: a run used up its rounds

sessionVars == <<history, inflight, lastMsgID, inflightCancel, hydrated,
                 persistUnsafe, agentMode, chan>>
envVars == <<thread, stored, open, ui, upstreamRunning>>
auxVars == <<cancelUsed, spoiled, exhausted>>
vars == <<sessionVars, run, runs, envVars, frames, auxVars>>

(***************************************************************************)
(* Turns and the points a run passes.                                      *)
(***************************************************************************)
UserTurn(m) ==
  [kind |-> IF m \in Images THEN "image" ELSE "user",
   msg |-> m, run |-> 0, round |-> 0, calls |-> 0]

\* A turn rebuilt from the frame's text alone, whatever its first block was.
TextTurn(m) == [UserTurn(m) EXCEPT !.kind = "user"]

AssistantTurn(r, n) ==
  [kind |-> "assistant", msg |-> NoMsg, run |-> r, round |-> run[r].round,
   calls |-> n]

ResultsTurn(r) ==
  [kind |-> "results", msg |-> NoMsg, run |-> r, round |-> run[r].round,
   calls |-> run[r].call]

PC == {"none",      \* not started
       "spawned",   \* the go statement was executed
       "started",   \* its cancel function is registered
       "cold",      \* hydration, plugin hooks and tool bootstrap under way
       "warm",      \* hydration is over
       "request",   \* about to snapshot the history and call the model
       "stream",    \* reading the model's answer
       "copy",      \* a turn was appended; about to copy the history
       "publish",   \* about to write the copy to the process-wide thread
       "tool",      \* waiting for the result of a leased tool
       "closing",   \* the loop is over; the deferred calls come next
       "cleared",   \* s.inflightCancel was reset
       "done"}

Executing(r) == run[r].pc \notin {"none", "done"}

NoRun == [pc |-> "none", cancelled |-> FALSE, needsHydrate |-> FALSE,
          priorLocalLen |-> 0, prompt |-> NoMsg, provider |-> "none",
          round |-> 0, calls |-> 0, call |-> 0, copied |-> <<>>]

\* A history the Messages API accepts: an assistant turn with tool calls is
\* followed by the user turn with the results of exactly these calls, and
\* results come after nothing else.
Answers(h, i) ==
  /\ h[i].kind = "assistant" /\ h[i].calls > 0
  /\ h[i + 1].kind = "results"
  /\ h[i].run = h[i + 1].run /\ h[i].round = h[i + 1].round
  /\ h[i].calls = h[i + 1].calls

WellFormed(h) ==
  \A i \in DOMAIN h :
    /\ h[i].kind = "assistant" /\ h[i].calls > 0 =>
         i < Len(h) /\ Answers(h, i)
    /\ h[i].kind = "results" => i > 1 /\ Answers(h, i - 1)

Init ==
  /\ \E t \in Threads :
       history = t.bound /\ thread = t.bound /\ stored = t.stored
  /\ inflight = FALSE
  /\ lastMsgID = NoMsg
  /\ inflightCancel = 0
  /\ hydrated = FALSE
  /\ persistUnsafe = FALSE
  /\ agentMode = "local"
  /\ chan = [t \in ToolIds |-> "absent"]
  /\ run = [r \in Runs |-> NoRun]
  /\ runs = 0
  /\ open = TRUE
  /\ ui = "idle"
  /\ upstreamRunning = FALSE
  /\ frames = 0
  /\ cancelUsed = FALSE /\ exhausted = FALSE
  /\ spoiled = ~(WellFormed(history) /\ WellFormed(stored))

(***************************************************************************)
(* The client's frames.                                                    *)
(***************************************************************************)

\* Another frame of this kind is read.  A patient client waits to be shown
\* idle before it prompts again; it may cancel or leave at any time.
Frame(kind) ==
  /\ open
  /\ kind \in FrameKinds
  /\ frames < MaxFrames
  /\ Patient /\ kind \notin {"cancel", "leave"} => ui = "idle"
  /\ frames' = frames + 1

\* What the client is shown, unless it was told to close the websocket:
\* after the Close frame the library sends no other.
Show(state) == ui' = IF ui = "closed" THEN ui ELSE state

\* Mutant: the check of inflight is forgotten.
CanRunAlways == TRUE

CanRun == ~inflight

\* What the three prompting frames do once they have changed the history:
\* claim inflight and start a goroutine, unless one is thought to be running.
Prompt(m) ==
  /\ Show("sent")
  /\ IF CanRun
       THEN /\ runs < MaxRuns
            /\ runs' = runs + 1
            /\ run' = [run EXCEPT ![runs + 1] = [@ EXCEPT !.pc = "spawned",
                                                          !.prompt = m]]
            /\ inflight' = TRUE
       ELSE UNCHANGED <<run, runs, inflight>>

\* The history is changed by the client although a run is executing.
Meddles == spoiled' = (spoiled \/ \E r \in Runs : Executing(r))

\* client_append_user_msg in a mode that shouldRouteLocal serves here.  The
\* frame's mode wins over the session's; a repeat of the last messageId is
\* dropped.
ClientAppend(m) ==
  /\ Frame("append")
  /\ agentMode' = "local"
  /\ IF m = lastMsgID
       THEN UNCHANGED <<history, lastMsgID, run, runs, inflight, ui, spoiled>>
       ELSE /\ history' = Append(history, UserTurn(m))
            /\ lastMsgID' = m
            /\ Prompt(m)
            /\ Meddles
  /\ UNCHANGED <<inflightCancel, hydrated, persistUnsafe, chan, thread, stored,
                 open, upstreamRunning, cancelUsed, exhausted>>

\* client_append_user_msg in a mode that is left to amp's server: forwarded.
ClientAppendPassthrough ==
  /\ Frame("passthrough")
  /\ agentMode' = "byok"
  /\ upstreamRunning' = TRUE
  /\ UNCHANGED <<history, inflight, lastMsgID, inflightCancel, hydrated,
                 persistUnsafe, chan, run, runs, thread, stored, open, ui,
                 auxVars>>

\* Mutant: results count as the last user turn.
TrimPointAtResults(k) ==
  /\ k \in 0 .. Len(history)
  /\ k > 0 => history[k].kind \in {"user", "results"}
  /\ \A j \in (k + 1) .. Len(history) :
       history[j].kind \notin {"user", "results"}

\* The turns that stay when the trailing ones are dropped up to the last
\* user turn that starts with text.
TrimPoint(k) ==
  /\ k \in 0 .. Len(history)
  /\ k > 0 => history[k].kind = "user"
  /\ \A j \in (k + 1) .. Len(history) : history[j].kind # "user"

\* client_retry: the run is started only if a prompt is left.
ClientRetry ==
  /\ Frame("retry")
  /\ \E k \in 0 .. Len(history) :
       /\ TrimPoint(k)
       /\ history' = SubSeq(history, 1, k)
       /\ IF k = 0 THEN UNCHANGED <<run, runs, inflight, ui>>
                   ELSE Prompt(history[k].msg)
  /\ Meddles
  /\ UNCHANGED <<lastMsgID, inflightCancel, hydrated, persistUnsafe, agentMode,
                 chan, thread, stored, open, upstreamRunning, cancelUsed,
                 exhausted>>

\* client_edit_message: the last prompt is replaced, and a run started even
\* if there was none to replace.
ClientEdit(m) ==
  /\ Frame("edit")
  /\ \E k \in 0 .. Len(history) :
       /\ TrimPoint(k)
       /\ history' = IF k = 0 THEN <<>>
                     ELSE Append(SubSeq(history, 1, k - 1), TextTurn(m))
  /\ lastMsgID' = m
  /\ Prompt(m)
  /\ Meddles
  /\ UNCHANGED <<inflightCancel, hydrated, persistUnsafe, agentMode, chan,
                 thread, stored, open, upstreamRunning, cancelUsed, exhausted>>

\* client_cancel: inflight is dropped at once, the goroutine told to stop.
ClientCancel ==
  /\ Frame("cancel")
  /\ inflightCancel' = 0
  /\ inflight' = FALSE
  /\ run' = IF inflightCancel = 0 THEN run
            ELSE [run EXCEPT ![inflightCancel].cancelled = TRUE]
  /\ cancelUsed' = TRUE
  /\ UNCHANGED <<history, lastMsgID, hydrated, persistUnsafe, agentMode, chan,
                 runs, envVars, spoiled, exhausted>>

\* executor_tool_result for a tool that is waited for.  A result for any
\* other tool, and a repeat, change nothing.
ToolResult(t) ==
  /\ open
  /\ chan[t] = "empty"
  /\ chan' = [chan EXCEPT ![t] = "full"]
  /\ UNCHANGED <<history, inflight, lastMsgID, inflightCancel, hydrated,
                 persistUnsafe, agentMode, run, runs, envVars, frames, auxVars>>

\* The websocket ends.  The runs are not told: they keep a background context.
Disconnect ==
  /\ Frame("leave")
  /\ open' = FALSE
  /\ UNCHANGED <<sessionVars, run, runs, thread, stored, ui, upstreamRunning,
                 auxVars>>

\* amp's server ends an inference that was left to it.
UpstreamFinish ==
  /\ upstreamRunning
  /\ upstreamRunning' = FALSE
  /\ UNCHANGED <<sessionVars, run, runs, thread, stored, open, ui, frames,
                 auxVars>>

(***************************************************************************)
(* The steps of an inference goroutine.                                    *)
(***************************************************************************)
At(r, pc) == run[r].pc = pc
Go(r, pc) == run' = [run EXCEPT ![r].pc = pc]

\* Mutant: the error path forgets the client.
FailSilently(r) == Go(r, "closing") /\ ui' = ui

\* A goroutine that leaves its loop on an error shows the client idle first
\* and tells it to close the websocket; frames may still come from it.
Fail(r) == Go(r, "closing") /\ ui' = "closed"

RunStart(r) ==
  /\ At(r, "spawned")
  /\ Go(r, "started")
  /\ inflightCancel' = r
  /\ UNCHANGED <<history, inflight, lastMsgID, hydrated, persistUnsafe,
                 agentMode, chan, runs, envVars, frames, auxVars>>

\* Only the first run of a session fetches the thread.
RunPrepare(r) ==
  /\ At(r, "started")
  /\ run' = [run EXCEPT ![r] = [@ EXCEPT !.pc = "cold",
                                         !.needsHydrate = ~hydrated,
                                         !.priorLocalLen = Len(history)]]
  /\ hydrated' = TRUE
  /\ UNCHANGED <<history, inflight, lastMsgID, inflightCancel, persistUnsafe,
                 agentMode, chan, runs, envVars, frames, auxVars>>

HydrateSkip(r) ==
  /\ At(r, "cold")
  /\ ~run[r].needsHydrate
  /\ Go(r, "warm")
  /\ UNCHANGED <<sessionVars, runs, envVars, frames, auxVars>>

HydrateFails(r) ==
  /\ At(r, "cold")
  /\ run[r].needsHydrate
  /\ Go(r, "warm")
  /\ persistUnsafe' = TRUE
  /\ UNCHANGED <<history, inflight, lastMsgID, inflightCancel, hydrated,
                 agentMode, chan, runs, envVars, frames, auxVars>>

\* The stored thread replaces the history if it is not shorter than the
\* history was when this run started; the prompt is appended to it again.
HydrateOk(r) ==
  /\ At(r, "cold")
  /\ run[r].needsHydrate
  /\ Go(r, "warm")
  /\ history' = IF Len(stored) >= run[r].priorLocalLen
                  THEN Append(stored, TextTurn(run[r].prompt))
                  ELSE history
  /\ UNCHANGED <<inflight, lastMsgID, inflightCancel, hydrated, persistUnsafe,
                 agentMode, chan, runs, envVars, frames, auxVars>>

\* Hooks and tool bootstrap were answered or timed out; credentials found.
Dispatch(r, provider) ==
  /\ At(r, "warm")
  /\ run' = [run EXCEPT ![r] = [@ EXCEPT !.pc = "request", !.round = 1,
                                         !.provider = provider]]
  /\ UNCHANGED <<sessionVars, runs, envVars, frames, auxVars>>

DispatchFails(r) ==
  /\ At(r, "warm")
  /\ Fail(r)
  /\ UNCHANGED <<sessionVars, runs, thread, stored, open, upstreamRunning,
                 frames, auxVars>>

\* The history is sent and the model starts to answer.
RequestAccepted(r) ==
  /\ At(r, "request")
  /\ ~run[r].cancelled
  /\ Go(r, "stream")
  /\ Show("busy")
  /\ UNCHANGED <<sessionVars, runs, thread, stored, open, upstreamRunning,
                 frames, auxVars>>

\* Cancelled, refused for good, or cut off (which OpenAI's round ignores).
RequestFails(r) ==
  /\ \/ At(r, "request")
     \/ At(r, "stream") /\ run[r].provider # "openai"
  /\ Fail(r)
  /\ UNCHANGED <<sessionVars, runs, thread, stored, open, upstreamRunning,
                 frames, auxVars>>

\* Gemini refuses the first request: the next round is Claude's.
GeminiFallback(r) ==
  /\ At(r, "request")
  /\ run[r].provider = "gemini"
  /\ run[r].round = 1 /\ MaxRounds > 1
  /\ run' = [run EXCEPT ![r] = [@ EXCEPT !.round = 2,
                                         !.provider = "anthropic"]]
  /\ UNCHANGED <<sessionVars, runs, envVars, frames, auxVars>>

\* Mutant: the history is copied before the answer is appended to it.
AppendAnswerCopied(r, n, calls) ==
  /\ history' = Append(history, AssistantTurn(r, n))
  /\ run' = [run EXCEPT ![r] = [@ EXCEPT !.pc = "publish",
                                         !.copied = history,
                                         !.calls = calls, !.call = 0]]
  /\ spoiled' = (spoiled \/ calls # n)
  /\ UNCHANGED <<inflight, lastMsgID, inflightCancel, hydrated, persistUnsafe,
                 agentMode, chan, runs, envVars, frames, cancelUsed, exhausted>>

\* An answer with n tool calls becomes a turn of the history; calls says how
\* many of them are to be executed: all or none.
AppendAnswer(r, n, calls) ==
  /\ history' = Append(history, AssistantTurn(r, n))
  /\ run' = [run EXCEPT ![r] = [@ EXCEPT !.pc = "copy",
                                         !.calls = calls, !.call = 0]]
  /\ spoiled' = (spoiled \/ calls # n)
  /\ UNCHANGED <<inflight, lastMsgID, inflightCancel, hydrated, persistUnsafe,
                 agentMode, chan, runs, envVars, frames, cancelUsed, exhausted>>

Streams(r, provider) == At(r, "stream") /\ run[r].provider = provider

\* The calls are not executed if the model says that it ended its turn.
AnthropicAnswer(r, n, ended) ==
  /\ Streams(r, "anthropic")
  /\ AppendAnswer(r, n, IF ended THEN 0 ELSE n)

\* The other rounds do not look at the stop reason.
GeminiAnswer(r, n) == Streams(r, "gemini") /\ AppendAnswer(r, n, n)

\* What had arrived when the stream ended, was cut off or cancelled.
OpenAIAnswer(r, n) == Streams(r, "openai") /\ AppendAnswer(r, n, n)

CustomAnswer(r, n) == Streams(r, "custom") /\ AppendAnswer(r, n, n)

\* persistInMemoryThread: the history is copied under the session's lock ...
Copy(r) ==
  /\ At(r, "copy")
  /\ run' = [run EXCEPT ![r] = [@ EXCEPT !.pc = "publish", !.copied = history]]
  /\ UNCHANGED <<sessionVars, runs, envVars, frames, auxVars>>

\* ... and written under the thread's.
Publish(r, pc) ==
  /\ At(r, "publish")
  /\ thread' = run[r].copied
  /\ run' = [run EXCEPT ![r] = [@ EXCEPT !.pc = pc, !.copied = <<>>]]

\* No tool to run: the client is shown idle, or told to close, and the loop
\* is left.
StopRound(r) ==
  /\ Publish(r, "closing")
  /\ run[r].calls = 0
  /\ Show(IF run[r].provider \in SayIdle THEN "idle" ELSE "closed")
  /\ UNCHANGED <<sessionVars, runs, stored, open, upstreamRunning, frames,
                 auxVars>>

Tool(r) == <<r, run[r].round, run[r].call>>

\* The client is told that tools run; the first of the answer is registered and
\* leased.
FirstTool(r) ==
  /\ At(r, "publish")
  /\ run[r].calls > 0 /\ run[r].call = 0
  /\ thread' = run[r].copied
  /\ run' = [run EXCEPT ![r] = [@ EXCEPT !.pc = "tool", !.call = 1,
                                          !.copied = <<>>]]
  /\ chan' = [chan EXCEPT ![<<r, run[r].round, 1>>] = "empty"]
  /\ Show("busy")
  /\ UNCHANGED <<history, inflight, lastMsgID, inflightCancel, hydrated,
                 persistUnsafe, agentMode, runs, stored, open,
                 upstreamRunning, frames, auxVars>>

Collected(r) == run[r].call = run[r].calls

\* A result that is not the last one: the next tool is leased.
NextTool(r) ==
  /\ At(r, "tool")
  /\ chan[Tool(r)] = "full"
  /\ ~Collected(r)
  /\ run' = [run EXCEPT ![r] = [@ EXCEPT !.call = run[r].call + 1]]
  /\ chan' = [chan EXCEPT ![Tool(r)] = "absent",
                          ![<<r, run[r].round, run[r].call + 1>>] = "empty"]
  /\ UNCHANGED <<history, inflight, lastMsgID, inflightCancel, hydrated,
                 persistUnsafe, agentMode, runs, envVars, frames, auxVars>>

\* The last result: all of them become one user turn.
LastTool(r) ==
  /\ At(r, "tool")
  /\ chan[Tool(r)] = "full"
  /\ Collected(r)
  /\ Go(r, "copy")
  /\ chan' = [chan EXCEPT ![Tool(r)] = "absent"]
  /\ history' = Append(history, ResultsTurn(r))
  /\ UNCHANGED <<inflight, lastMsgID, inflightCancel, hydrated, persistUnsafe,
                 agentMode, runs, envVars, frames, auxVars>>

\* Mutant: an abandoned wait leaves its channel registered.
ToolAbandonedRegistered(r) ==
  /\ At(r, "tool")
  /\ Fail(r)
  /\ spoiled' = TRUE
  /\ UNCHANGED <<sessionVars, runs, thread, stored, open, upstreamRunning,
                 frames, cancelUsed, exhausted>>

\* Mutant: only a cancel ends the wait, there is no timeout.
ToolAbandonedOnCancel(r) ==
  /\ At(r, "tool") /\ run[r].cancelled
  /\ Fail(r)
  /\ chan' = [chan EXCEPT ![Tool(r)] = "absent"]
  /\ spoiled' = TRUE
  /\ UNCHANGED <<history, inflight, lastMsgID, inflightCancel, hydrated,
                 persistUnsafe, agentMode, runs, thread, stored, open,
                 upstreamRunning, frames, cancelUsed, exhausted>>

\* Five minutes without a result, or the run was cancelled.
ToolAbandoned(r) ==
  /\ At(r, "tool")
  /\ Fail(r)
  /\ chan' = [chan EXCEPT ![Tool(r)] = "absent"]
  /\ spoiled' = TRUE
  /\ UNCHANGED <<history, inflight, lastMsgID, inflightCancel, hydrated,
                 persistUnsafe, agentMode, runs, thread, stored, open,
                 upstreamRunning, frames, cancelUsed, exhausted>>

\* Mutant: the tool loop has no limit.
NextRoundUnbounded(r) ==
  /\ At(r, "publish")
  /\ run[r].calls > 0 /\ Collected(r)
  /\ thread' = run[r].copied
  /\ run' = [run EXCEPT ![r] = [@ EXCEPT !.pc = "request",
                                         !.round = run[r].round + 1,
                                         !.calls = 0, !.call = 0,
                                         !.copied = <<>>]]
  /\ UNCHANGED <<sessionVars, runs, stored, open, ui, upstreamRunning, frames,
                 auxVars>>

\* The results are published; the model is asked again.
NextRound(r) ==
  /\ At(r, "publish")
  /\ run[r].calls > 0 /\ Collected(r)
  /\ run[r].round < MaxRounds
  /\ thread' = run[r].copied
  /\ run' = [run EXCEPT ![r] = [@ EXCEPT !.pc = "request",
                                         !.round = run[r].round + 1,
                                         !.calls = 0, !.call = 0,
                                         !.copied = <<>>]]
  /\ UNCHANGED <<sessionVars, runs, stored, open, ui, upstreamRunning, frames,
                 auxVars>>

\* The results are published, but the tool loop has used up its rounds.
RoundsUsedUp(r) ==
  /\ Publish(r, "closing")
  /\ run[r].calls > 0 /\ Collected(r)
  /\ run[r].round = MaxRounds
  /\ exhausted' = TRUE
  /\ UNCHANGED <<sessionVars, runs, stored, open, ui, upstreamRunning, frames,
                 cancelUsed, spoiled>>

\* The deferred calls: first the cancel function is forgotten ...
ClearCancel(r) ==
  /\ At(r, "closing")
  /\ Go(r, "cleared")
  /\ inflightCancel' = 0
  /\ UNCHANGED <<history, inflight, lastMsgID, hydrated, persistUnsafe,
                 agentMode, chan, runs, envVars, frames, auxVars>>

\* Mutant: an early exit skips markIdle.
MarkIdleSkipped(r) ==
  /\ At(r, "cleared")
  /\ run' = [run EXCEPT ![r] = [NoRun EXCEPT !.pc = "done"]]
  /\ UNCHANGED <<sessionVars, runs, envVars, frames, auxVars>>

\* ... and last of all inflight is dropped; the goroutine and its locals end.
MarkIdle(r) ==
  /\ At(r, "cleared")
  /\ run' = [run EXCEPT ![r] = [NoRun EXCEPT !.pc = "done"]]
  /\ inflight' = FALSE
  /\ UNCHANGED <<history, lastMsgID, inflightCancel, hydrated, persistUnsafe,
                 agentMode, chan, runs, envVars, frames, auxVars>>

(***************************************************************************)
(* The specification.                                                      *)
(***************************************************************************)
Client ==
  \/ \E m \in Msgs : ClientAppend(m)
  \/ ClientAppendPassthrough
  \/ ClientRetry
  \/ \E m \in Msgs : ClientEdit(m)
  \/ ClientCancel
  \/ \E t \in ToolIds : ToolResult(t)
  \/ Disconnect
  \/ UpstreamFinish

RunStep(r) ==
  \/ RunStart(r) \/ RunPrepare(r)
  \/ HydrateSkip(r) \/ HydrateFails(r) \/ HydrateOk(r)
  \/ (\E p \in Providers : Dispatch(r, p)) \/ DispatchFails(r)
  \/ RequestAccepted(r) \/ RequestFails(r) \/ GeminiFallback(r)
  \/ \E n \in 0 .. MaxCalls :
       \/ \E ended \in BOOLEAN : AnthropicAnswer(r, n, ended)
       \/ GeminiAnswer(r, n) \/ OpenAIAnswer(r, n) \/ CustomAnswer(r, n)
  \/ Copy(r) \/ StopRound(r)
  \/ FirstTool(r) \/ NextTool(r) \/ LastTool(r) \/ ToolAbandoned(r)
  \/ NextRound(r) \/ RoundsUsedUp(r)
  \/ ClearCancel(r) \/ MarkIdle(r)

\* Nothing is left to do within the bounds.
Quiet == \A r \in Runs : ~Executing(r)
Finished == Quiet /\ UNCHANGED vars

Next == Client \/ (\E r \in Runs : RunStep(r)) \/ Finished

\* Every wait of a goroutine has a timeout, so each of them keeps moving.
Fairness == \A r \in Runs : WF_vars(RunStep(r))

Spec == Init /\ [][Next]_vars
FairSpec == Spec /\ Fairness

(***************************************************************************)
(* Properties.                                                             *)
(***************************************************************************)
RunRecord ==
  [pc : PC, cancelled : BOOLEAN, needsHydrate : BOOLEAN, priorLocalLen : Nat,
   prompt : Msgs \cup {NoMsg}, provider : AllProviders \cup {"none"},
   round : 0 .. MaxRounds, calls : 0 .. MaxCalls, call : 0 .. MaxCalls,
   copied : Seq(Turn)]

\* Every variable has the type of the field it models.
TypeOK ==
  /\ history \in Seq(Turn)
  /\ thread \in Seq(Turn)
  /\ stored \in Seq(Turn)
  /\ run \in [Runs -> RunRecord]
  /\ chan \in [ToolIds -> {"absent", "empty", "full"}]
  /\ lastMsgID \in Msgs \cup {NoMsg}
  /\ inflightCancel \in 0 .. MaxRuns
  /\ runs \in 0 .. MaxRuns
  /\ frames \in 0 .. MaxFrames
  /\ agentMode \in {"local", "byok"}
  /\ ui \in {"idle", "sent", "busy", "closed"}
  /\ inflight \in BOOLEAN /\ hydrated \in BOOLEAN
  /\ persistUnsafe \in BOOLEAN /\ open \in BOOLEAN
  /\ upstreamRunning \in BOOLEAN /\ cancelUsed \in BOOLEAN
  /\ spoiled \in BOOLEAN /\ exhausted \in BOOLEAN

\* inflight never outlives the goroutine it stands for: whenever it is set,
\* the run started last has not ended, so the deferred markIdle is still to
\* come and the session cannot refuse prompts for ever.  Holds whatever the
\* client does, cancels included.
InflightBacked == inflight => runs > 0 /\ Executing(runs)

\* Until the first client_cancel a session executes one inference at a time:
\* the check-and-set of inflight under the lock, and the deferred markIdle
\* of the right goroutine, keep the runs apart.
SingleRunUnlessCancelled ==
  ~cancelUsed => \A r, q \in Runs : Executing(r) /\ Executing(q) => r = q

\* pendingToolResults holds a channel for a tool call exactly while the
\* goroutine that leased it waits for it: no wait without a channel, and no
\* channel left behind by a timeout or a cancel, which would go on
\* swallowing the executor's frames (tryDeliverToolResult, isPendingTool).
PendingBacked ==
  \A t \in ToolIds :
    chan[t] # "absent" <=> At(t[1], "tool") /\ t = Tool(t[1])

\* Every request is well-formed, however many rounds, retries, edits and
\* hydrations came before, as long as the thread was well-formed to begin
\* with, no run left a tool call unanswered (timeout, cancel, stop reason
\* end_turn) and the client changed the history under no executing run:
\* these are the only ways to spoil it.
RequestsWellFormed ==
  ~spoiled => \A r \in Runs : At(r, "request") => WellFormed(history)

\* When every goroutine has ended the client does not go on showing a busy
\* agent, on every path out of runLocalInference but one: the tool loop that
\* used up its rounds, which writes no agent_state although the comment before
\* persistence takes it for already emitted.
UISettles == Quiet /\ ~exhausted => ui # "busy"

\* Until the first client_cancel every answer of this session that is still
\* in the history is in the process-wide thread as well, or its goroutine is
\* about to put it there: a connection that binds the thread after the run
\* misses none of it.
AnswersReachThread ==
  ~cancelUsed =>
    \A i \in DOMAIN history :
      history[i].kind = "assistant" /\ history[i].run # 0 =>
        \/ \E j \in DOMAIN thread : thread[j] = history[i]
        \/ run[history[i].run].pc \in {"copy", "publish"}

\* Every inference ends, although hooks, tools and the model may never
\* answer: each wait of runLocalInference has a timeout.
RunsEnd == \A r \in Runs : At(r, "spawned") ~> At(r, "done")

=============================================================================
