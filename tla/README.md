# Formal models of amp-proxy-neo

TLA+ models of the concurrent parts of amp-proxy-neo, the TLC runs that check
small instances of them, and theorems about them that TLAPS proves for every
value of the constants. `PROJECT.json` is the index: components, runs, the map
from definitions to source lines, hazards, findings and theorems.

Paths below are relative to the repository. `inference.go`, `persist.go`,
`standalone.go`, `writer.go` and `forwarder.go` are in `internal/neo/rivet/`,
`icloud.go` in `internal/neo/threadstore/`, `updater.go` in
`internal/neo/updater/`, `chat_ws.go` and `main.go` in `cmd/amp-proxy-neo/`.

## The system

amp-proxy-neo sits between the amp command-line client and amp's server. It takes
the websocket of a *Rivet session*, answers the client's prompts itself with the
user's own model credentials, leaves other modes to amp's server, keeps the
threads in a local store that it shares with the user's other machines through
iCloud, serves plain provider requests over HTTP, offers the threads in a
browser, and keeps itself up to date.

| component | state it keeps | operations | interacts with |
|---|---|---|---|
| Rivet session (`inference.go`, `gemini.go`, client loop of `forwarder.go`) | history, `inflight`, `inflightCancel`, `hydrated`, `persistUnsafe`, `pendingToolResults`, mode | frames of the client: append, retry, edit, cancel, tool result; goroutines of local inference: hydrate, dispatch, rounds, tools, deferred clean-up | frame writer, thread state, store, model providers, executor |
| Frame writer (`writer.go`) | coalescing buffer, timer, bounded channel, `failed`, `done` | Write, appendDelta, flush, timer callback, writer goroutine, Close | every goroutine of a run; the websocket |
| Thread state (`inference.go` 219-234, 405-449) | per-thread history and `nextSeq`, process-wide | bind, publish | all sessions of a thread |
| Thread persistence (`persist.go`) | `serverV`, `serverPriorLen`, stored metadata | persistThread, fetchThreadHistory with backfill | store, amp's server |
| Thread store (`internal/neo/threadstore`) | threads with a version | upload (only greater versions), get, list, delete, import, export | persistence, HTTP handlers, iCloud |
| iCloud synchronisation (`icloud.go`) | one file per thread | background write, delete, merge at start | store, other machines |
| Browser-direct chat (`standalone.go`, `chat_ws.go`) | sessions per thread, cancels per request | send, cancel, persist | session, store |
| Claude token manager (`pkg/token/token_manager.go`, `pkg/keychain`) | snapshot of the keychain's entry | get, refresh under a file lock, write back | identity provider, other processes |
| Codex and Gemini token managers (`pkg/token/codex_auth.go`, `gemini_auth.go`) | tokens in memory, the files of other programs | load, get, shared refresh, loop | identity providers, the programs that own the files |
| Authentication resolver (`pkg/auth`) | configuration | chain of sources | token managers |
| Provider handlers, retryer, request logger (`cmd/amp-proxy-neo/provider_router.go`, `pkg/provider`, `pkg/retry`, `pkg/logger`) | pending log entries, database of requests | route, send, retry, stream, record, flush | resolver, providers, sessions' rounds |
| Updater (`updater.go`) | last check, files beside the binary | check, download, verify, probe, swap, restart | GitHub, launchd |
| Forwarder (`forwarder.go`) | two websockets, write mutexes | relay | session, amp's server |
| Configuration (`pkg/config`), admin interface (`pkg/adminbase`) | settings, a file | load, change, save | everything above |
| Title generation, self-serve actors, web interface, scripts | cached titles, user id | request handling | store, amp's server |
| Frame tap, remote agent, websocket bridge of the Responses API | | | nothing starts them |

What is hard here: the client's frames are handled by one goroutine while
inference runs in others and survives the connection; `client_cancel` drops
`inflight` before the goroutine it stands for is gone; hydration rewrites the
history in the background; tools answer late, twice or never; the writer joins
text under a lock, with a timer and a channel that can be full; versions decide
whether an upload is kept; files are written by goroutines nobody waits for and
changed by other machines; the process may be killed between two renames, or
between a deletion and the import that follows it; a rotating refresh token must
be used once by processes that share it; entries of the log are paired by
model names. `PROJECT.json` lists each such place at its line under `hazards`.

What makes each component correct:

- session: one inference at a time; `inflight` and the tool channels never outlive
  their goroutine; every request is one the Messages API accepts; no answer is lost
  to later connections of the thread; every inference ends; the client is not left
  with a busy agent;
- frame writer: order per writer, nothing lost before Close returns, no mixing of
  blocks, no send on the closed channel, no text stuck in the buffer, Close returns;
- persistence, store and iCloud: an upload never replaces newer content, the
  greatest version survives kills and merges, files catch up with rows, a thread
  that was deleted with its file stays deleted, and what a user was shown is eventually stored;
- browser chat: what was reported done is stored, and every message ends;
- tokens: a consumed refresh token is never sent again nor kept, nothing expired is
  returned, a new login is noticed;
- requests and their log: each start and each result goes into one line of the log and
  no more, and an abandoned request ends;
- updater: something that runs is there at every moment, one can go back, and no
  update installs an older version.

## Modules

| module | models |
|---|---|
| `RivetSession` | a Rivet session: client frames and inference goroutines |
| `FrameChannel` | what the frame writer promises: an ordered channel per writer |
| `FrameWriter` | the frame writer, a run's goroutine and its two hooks |
| `ThreadPersist` | hydration and persistence of one thread through sessions, restarts and failures |
| `ThreadCloud` | SQLite and iCloud: uploads with background writes, deletions, the merge at start, import and export, other machines |
| `ChatSocket` | two goroutines per message of the browser, on one shared session |
| `ClaudeTokens` | goroutines and processes that share a keychain entry |
| `FileTokens` | the Codex and the Gemini manager |
| `ProviderRequests` | a provider request from the router to its line in the log |
| `Updater` | releases, the update and its swap, kills |

`MC<module>` holds a module's small instance (`ThreadCloud` needs none),
`<module>Proofs` its theorems; those of `ChatSocket`, the other way by which a thread
reaches the store, stand at the end of `ThreadPersistProofs`.
`ThreadPersist` covers a thread from its sessions to the store's row and amp's
server, `ThreadCloud` from the row to the file; they meet at `Upserted`, the
versioned upsert of SQLite. `ProviderRequests` covers how the rounds of a
`RivetSession` or a `ChatSocket` send their requests.

Operators named `...Skipped`, `...Always` and the like with a comment `Mutant:`
are slips of the definition below them, used by `PROJECT.json` to show that each
property can fail.

### RivetSession

The fields of the Go struct keep their names. `run[r]` is the r-th goroutine of
`runLocalInference`; its `pc` names the places between which another goroutine can
act, its other fields are the goroutine's locals (whether it hydrates, the length of
the history it saw, its provider, round, tool call, and the copy of the history that
`persistInMemoryThread` takes under one lock and writes under another). `chan` is
`pendingToolResults`: for each tool call no channel, an empty one, or one that holds
the result. `thread` is the process-wide thread, `stored` what hydration will find,
`ui` what the client shows (`closed` once it was told to close the websocket).

Each frame of the client is one action (`ClientAppend`, `ClientAppendPassthrough`,
`ClientRetry`, `ClientEdit`, `ClientCancel`, `ToolResult`, `Disconnect`): the reader
goroutine handles frames one at a time, and what it changes it changes under one
hold of `s.mu`. A goroutine takes one step per critical section or wait:

    spawned -RunStart-> started -RunPrepare-> cold -Hydrate*-> warm -Dispatch->
    request -RequestAccepted-> stream -*Answer-> copy -Copy-> publish
      -StopRound / RoundsUsedUp-> closing -ClearCancel-> cleared -MarkIdle-> done
      -FirstTool-> tool -NextTool-> tool -LastTool-> copy -> publish -NextRound-> request

with an error edge to `closing` from warm, request, stream and tool. The providers
differ in what matters here: Anthropic's round does not execute calls if the model
says that it ended its turn, and Gemini may hand its first round to Claude; OpenAI's
and the custom provider's round end by telling the client to close, and OpenAI's
keeps what had arrived when a stream is cut off.

A turn is abstracted to who wrote it and how many tool calls it carries. Left out:
texts, arguments and results, compaction of a long history, frames that only change
settings, permissions and plugin hooks, sequence numbers, a second connection on the
same thread. `stored` does not change: a session reads it once. The turns that a
thread has to begin with are older than the session (`Earlier`: no run of it wrote
them). They need not be complete: amp's server, or an earlier session, may have left a
call without its results. `spoiled` is then true from the start, and becomes true with
the steps by which this session breaks a history, so that `RequestsWellFormed` speaks
of the sessions whose history nothing has broken.

### FrameWriter

`pc` says where each producer is inside `Write` or `Close`; the states in `Locked`
hold `coalMu`. `held` is the frame the holder has taken out of the buffer and has not
enqueued yet, `out` the channel, `timer` and `callbacks` the `time.AfterFunc` timer:
`Stop` on a timer that has fired leaves its callback waiting for the lock. A frame is
the sequence of the writes it carries, so a coalesced frame shows what it joined.
`wire` is the websocket: after `HangUp` (the Close frame the session writes past the
channel) and after `Break` (the client is gone) the next write fails and the writer
goroutine only drains. `echo` is the number of frames that the run writes before it
starts the hooks: the echo of the prompt, which is left out when the client gave the
message no id. It then writes none until both hooks have ended, and all it writes
afterwards is of the answer (`OfAnswer`): deltas, and tool calls, states and errors,
which go through `Write` as frames of their own. A hook writes one frame. `buf` counts deltas, not
bytes, and a newline is a choice of the model's text.

`FrameChannel` says what is promised to the goroutines that write: it counts the
writes of each that were accepted and received, and a frame carries the next write of
one producer, or the next several if they are deltas of one block. `IsChannel` maps
the frames on the wire to its `frames`, and the number of the last write of a producer
among them to its `received`.

### ThreadPersist

One thread: its row in SQLite (`store`), what amp's server has (`upstream`), the
process-wide history that sessions bind (`thread`), and the sessions and runs that
came so far. Each run first hydrates its session if no run before did
(`FetchLocal`, `FetchUpstream` or `FetchFails`, then `Hydrate`), is answered or fails,
and leaves a background upload behind, whose steps are the lock holds and calls of
`persistThread`: `Check` (unsafe mark and floor), `Build` (version and snapshot),
`StoreLocal` or `Conflict`, `UploadUpstream`. Nobody waits for an upload, so uploads
of consecutive runs and sessions overlap. `Connect` starts the next session on the
process-wide history while goroutines of the last one go on; `Restart` ends every
goroutine and forgets that history.

`FetchUpstream` leaves the local store alone although the code means to backfill it:
the JSON it hands to `ParseThread` has no `id`, so the thread is refused
(`persist.go` 355-364, `store.go` 74). What amp's server does with an upload is taken
from the comments of the code (`Newer`). A message is a prompt or an answer; metadata,
titles and the conversion of messages are left out, and so are uploads by the amp
client through the HTTP interface, which `ThreadCloud` has.

The properties speak of *calm* histories. `calm` is false if the store is behind amp's
server to begin with, and becomes false with the steps that may take messages away: a
retry or edit, which is meant to; a deletion; a cancel, after which the next run does
not wait for hydration; a client that reconnects before its prompt is answered, or
after a session that could not hydrate, or after a failed prompt while an upload is
under way; and hydrating from the server although the store had the thread. Each of
them can lose answers, which is why it is listed. Failed
prompts are counted in the version of an upload that is still to be built, but are not
in the history that the next session binds: after three of them, in the fifth run, the
earlier upload beats that of the next session and takes its answer away.

### ThreadCloud

A thread's contents are its version, since versions decide every step. `local` is
the row, `file` the file: missing, a version, or `Unreadable` (half a download).
`Start` lists the directory (or fails to, and the process serves without
synchronisation); then the merge takes one entry after the other: `ReadEntry`,
`LookUpLocal`, and `DropLocal` with `ImportCloud` if the cloud's is greater, or
`KeepLocal` if the row's is. With equal versions the code compares modification
times; the model allows both. Requests are served when the merge is over (`Serve`).

`Upload` leaves a goroutine in `write` behind, which takes `s.mu` to look at the file
(`CheckFile`) and to rename its own into place (`RenameFile`); any number wait for the
mutex, in any order. `DeleteRow` and `RemoveFile` are the two halves of
`DeleteThread`, the second without `s.mu`. `Crash` is possible in every state.
`CloudArrives` is another machine; `Export`, `Import`, `ImportMessages` and
`DeleteByCommand` are the commands, processes of their own that open the same database
while this one runs. `delete-thread` opens it without the synchronisation and so never
removes the file; in `RemoveFile` the file may stay because the error of `os.Remove` is
ignored.

Four variables are there for the properties. `top` is the greatest version since the
last deletion. `calm` says that nothing happened which is meant to take versions
away, or is known to: a deletion under way or with a write still queued, another
machine that replaces a file by an older or unreadable one or while a write holds
`s.mu`, an import between the merge's look-up and its deletion. `behind` says that
something left the file behind the row: no synchronisation, an unreadable file, a
failed write, a kill with a write under way, an import. `gone` marks a thread of
which a deletion left nothing that the code itself would bring back (`Remains`: its file,
a write under way, the merge's copy), and that nobody brought back since.

### ChatSocket

Each message of the browser has `handleSend` (`handler`) and `runStandalone`
(`runner`), with a channel of `Cap` frames between them (`queue`) and a context that
ends by a cancel, by the closing of the connection and when `handleSend` returns
(`cancelled`). All messages of a thread share `session`, which begins with what the
process knows of the thread (`mem`) and never looks into the store. The steps of a
turn are one lock hold, frame or call each: `Frame`, `AppendUser`, `RoundAnswered` or
`RoundFails`, `KeepAnswer`, `Publish`, `Settle`; the handler passes frames
(`PassFrame`), then takes the snapshot of the history, uploads it and tells the
browser (`Drained`, `Snapshot`, `Upload`, `Tell`). `CLITurn` is a turn of amp's
command-line client on the same thread, `ProcessRestart` a restart of the process.
`apart` becomes true when the session does not have what the store has: it began
without it, or the CLI changed the thread since. `unstored` holds the messages whose
upload failed in the database, which the handler logs and reports as done. The names
of the specification begin with `Chat` (`ChatSpec`, `ChatNext`), and the store is
`row`, because one module has the theorems of this one and of `ThreadPersist`. What is
inside a round is `RivetSession`'s matter; the approval frames, which no goroutine
waits for, are left out.

### ClaudeTokens and FileTokens

Tokens are numbers in the order of their issue, and the age of an access token is
what the code distinguishes: fresh, within the five minutes before its end, expired.

In `ClaudeTokens` a caller is a goroutine of one of the processes that share the
keychain's entry. `GetAccessToken` goes through the snapshot of its process, the
entry, the file lock, a second look at the entry, the refresh and the write-back;
reading the entry and storing the snapshot are two steps (`ReadKeychain`,
`StoreSnapshot`) because the command that reads it runs without the lock of the
snapshot. The provider consumes a refresh token when it rotates it, and its answer may
be lost; write-backs may fail; a process may end anywhere, its file lock with it; the
user may log in with Claude Code. `lost` holds the consumed tokens whose successor
never reached the entry: no code can prevent those. A call that yields no token of
the entry ends as the resolver makes it end: with the API key, or on to amp.

In `FileTokens` the program that owns the file is the only one to write it; the
manager refreshes in memory. Whoever needs a refresh while one is under way joins it
(`Ask`, `Results`); the loop ticks, and after a failed refresh loads the file again
(`Reload`), Gemini then trying once more. Both managers are one module, since they
differ in few places: what a file without an expiry means (`FileExpiry`), what is
loaded (`Loaded`), whether tokens rotate, what the constructor does (`AtStart`). An
answer of the provider may leave out how long its token lives: the managers then write
down an hour, while the token may end sooner (`Answered`). `guessed` has the tokens
whose expiry was assumed, those and the ones of a Codex file.

### ProviderRequests

`job[r]` is the goroutine of a request: where it is, its attempts, the response in
hand (with `stale`: its body was closed by the retryer) and what the client has of
the answer. `profile` says which of the ten senders it is, a record of what
distinguishes them: what they retry, whether they stream, under which model they
report, and whether they record an error. `pending` is the logger's map from model,
path and route to the start that waits; a result takes any entry of its model
(`RecordResult`), and `FlushPending` takes what waited for thirty seconds; which those
are is left open. Both take entries out of the map under the logger's lock and insert
them after it, which is a step of its own (`InsertResult`, `InsertFlushed`). `rows` has
what was taken: `taken` until its insert, then `written`, or `refused` when `InsertLog`
failed or the logger has no database, since nobody tries again. Bodies and their
translation between formats are left out, and with them how the final event of a
Codex stream is completed from the items before it (codex_handler.go:150-153).

### Updater

A release is a record of what is decided by: the numbers and the suffix of its tag,
its flags, whether it has an asset and a checksum, whether its program works. `Newer`
is `CompareVersions` with its comparison of suffixes character by character, and
`Candidates` and `Selected` are `selectRelease`. An attempt goes `Found`, `Download`
(damaged or not), `Verify` (skipped without a checksum), `Unpack` and `Unpacked` (into a
directory of the attempt's own), `Probe`, `Stage`, `Copied`, `BackUp`, `Install`,
`Synced`, `Kickstart`, each of which may fail. `archive` is the download, which no code
removes: the next one replaces it. `candidate` is the program in the attempt's extract
directory; `GivesUp`, the deferred clean-up of `Apply`, removes it, or fails to, which is
ignored. A process that is killed removes nothing (`Killed`), `kickstart -k` kills it
before its clean-up, and `left` says that such a directory lies about. `BackUp` takes any
error of `os.Stat` for a missing program: the second rename may then replace one that
has no backup. A file being written is `Torn`. `Crash` may come anywhere, and `Start`
runs what lies at the path. `Rescue` is outside the program: somebody who
finds nothing at the path puts the backup back.

## Runs

Every run ends within two minutes on two cores. The bounds are constants of the
modules: they cap what the environment does, never what the code decides.

| run | instance | what it shows |
|---|---|---|
| `session_prompts` | appends, retries, edits, a disconnect; new, known and only-stored threads, with tool calls of an earlier session, one of them cut short; images | `TypeOK`, `InflightBacked`, `SingleRunUnlessCancelled`, `RequestsWellFormed`, `AnswersReachThread` |
| `session_tools` | all four providers, two calls in two rounds, a forwarded prompt, cancels, an executor that leaves | `PendingBacked`, `UISettles` and, under fairness, `RunsEnd` |
| `writer` | both hooks, two blocks, three writes of each | `TypeOK`, `TextTimed`, `NoSendAfterClose`, `HooksFirst`, the refinement `IsChannel` and, under fairness, `DeltasArrive`, `CloseEnds` |
| `persist` | three sessions, three runs; new, known and server-only threads; failures, restarts | `TypeOK`, `AnswersStored`, `NothingLost` |
| `cloud` | one thread, three versions, three uploads, deletions of both kinds, two changes from other machines, three starts | `TypeOK`, `NothingLost`, `FileCaughtUp`, `DeletedStaysDeleted` |
| `claude_tokens` | two callers in one process, one in another; two tokens; all ages | `TypeOK`, `RefreshedOnce`, `KeychainGood`, `ReturnsUnexpired` |
| `file_tokens` | a caller, the loop, the refresh at start; both managers; three tokens; answers with and without a lifetime | `SentOnce`, `ReturnsUnexpired` and, under fairness, `LoginPickedUp` |
| `updater` | five releases: two betas, a release, one that does not work, a draft; all channels | `TypeOK`, `RunnableKept`, `BackupIsPrevious`, `NeverOlder` |
| `chat` | two messages, a channel of one frame, one turn of the CLI, database errors | `DoneStored` and, under fairness, `CancelEnds` |
| `requests` | two requests of every two of five kinds, two attempts, inserts that fail | `TypeOK`, `StartsKept`, `ResultsOnce` and, under fairness, `GoneEnds` |

Why the bounds are enough:

- session: two runs and three frames are the fewest that let a run meet another's
  leftovers; two rounds (for the limit of 32) and two calls let results be collected
  and the limit be reached;
- writer: a channel of two (for 256) and a buffer of three deltas (for 256 bytes) can
  both be full, partly full and empty while a frame waits;
- persist: three runs let two uploads of one session and one of the next overlap; the
  server's version 9 exceeds what three runs can count up to, version 3 does not. The
  steps that end `calm` are taken but not followed (`StillCalm`), since the properties
  say nothing beyond them. The loss after failed prompts takes five runs: TLC does
  not reach it here, the proof of `NothingForgotten` showed it;
- cloud: three uploads put two goroutines before the mutex while one holds it; a
  second arrival can undo the first; the third start follows a kill within the merge
  of the second. Threads do not interact except through the mutex, so one is enough;
- claude_tokens: the third caller finds what the first two left, in its own process or
  the other; with two tokens one refresh succeeds, so the others meet its leftovers;
- file_tokens: one or two tokens lie in the files at first, and two or one are left
  for a refresh and a login, which so replace each other in either order;
- updater: Beta2 and Beta10 are the pair whose order is surprising, Broken and Draft
  are to be refused, one lacks a checksum; two installations follow each other on
  every channel that has them;
- chat: one message that stores while another is under way, on the same session; a
  channel of one is full after one frame;
- requests: the five kinds are one of each that differ in what the log sees (retries,
  recording of errors, streaming, reporting under another name); of two attempts the
  first is followed by a pause and the second by the end.

Every property has a mutant in `PROJECT.json`: the same definition with a plausible
slip (`MarkIdleSkipped`, `DropLocalAlways`, `LockShared`, `InstallCleansUp`, ...),
under which TLC finds the property violated.

Deadlock is not checked where the system really may stop: all uploads and starts
are used up, all messages of the browser answered, all requests done, or no program
is left that could be started.

### Claims that the code does not keep

| run | the comment | what happens |
|---|---|---|
| `claim_persisted` | inference.go:1506 "Persist the assembled thread (user + assistant + any tool rounds) locally first" | with a server version above the length the second upload of a session repeats the version of the first and is refused |
| `claim_chat_panics` | standalone.go:98-99 "RunStandalone streams one browser-direct assistant turn. It returns Rivet UI frames directly instead of writing them to an amp CLI websocket." | the OpenAI and the custom round (inference.go 2609, 2836) lock the mutex of that websocket, which is nil here: the process panics |

### Also visible in the models, without a run

Traces of the models that a comment of the code, or what a user would expect,
speaks against. They are why the properties have the exceptions they name.

- Cancel, then prompt: two goroutines are in their tool loops, although
  inference.go:252 says "only mutated by the single runLocalInference goroutine".
- A cancel that comes before `inflightCancel` is registered (inference.go:678) stops
  nothing, and one while amp's server answers a forwarded prompt is swallowed.
- After a cancel the second run does not wait for the hydration that the first has
  not finished (inference.go:1262, 1337).
- A prompt between the idle state and `markIdle` (inference.go:541, 2047) is appended
  and never answered.
- The Close frame of an error or of a finished turn, and `error_set`, overtake what is
  still queued (inference.go:1431, 2610, forwarder.go:501).
- The partial history of a session that must not be persisted is published to the
  process (inference.go:425), and the next session uploads it.
- A tool loop that uses up its rounds leaves the client busy (`exhausted` of
  `UISettles`); an abandoned tool leaves its calls unanswered in the history
  (inference.go:2093).
- A retry drops a prompt that starts with an image (`TrimPoint`); one that is the
  first prompt of a connection appends its prompt twice (`HydrateOk`).
- A file that cannot be read keeps all later uploads of its thread from being written
  (icloud.go:115) and is skipped by the merge; the merge walks only files
  (icloud.go:77), so a row without one gets its file only with its next upload.
- An import by the command between the merge's look-up and its deletion is lost.
- A deleted thread comes back with the merge of the next start if its file stayed: the
  error of `os.Remove` is ignored (icloud.go:65), `delete-thread` deletes only the row
  (main.go:234), a kill may come between the two halves, and a write that is queued
  when the thread is deleted writes its file again.
- The browser's session is not updated when the CLI continues the thread: its next
  version is refused or replaces the CLI's turns (`apart`). An upload that fails in the
  database is logged, and the turn reported done (chat_ws.go:145, `unstored`).
- A prompt that failed stays in its session but not in the process-wide history, so an
  upload that is built later can have the greater version and fewer answers than
  those of the next session (inference.go:425, `calm`).
- Of two suffixes the text decides: beta10 is older than beta2 (updater.go:499). After
  an update whose restart failed the same release is installed again, which makes the
  new program its own backup (`repeated`).
- A Codex file does not say when its token expires; half an hour is assumed
  (codex_auth.go:150), also for one that has expired. For an answer without
  `expires_in` it is an hour (codex_auth.go:214, gemini_auth.go:274). Such a token may be
  returned after its end (`guessed`).
- The downloaded archive is never removed, and a restart leaves its extract directory
  behind, since `kickstart -k` kills the process before its deferred clean-up
  (updater.go:162, 178). An error of `os.Stat` that is not about a missing file
  lets the second rename replace the program without a backup (updater.go:369).
- After the last attempt the retryer pauses once more and returns a response whose
  body it has read and closed (retry.go:62-63), although retry.go:78 says "Return last
  retryable response so caller can forward the error": the client gets its status and
  an empty body (`stale`).
- An entry that was taken from the logger's memory is lost when its insert fails, which
  the flush does not even log (logger.go:209, 233); without a database all are.
- Two requests of one model, path and route share an entry of the log, so that the
  start of one is lost, and a result completes whichever entry of its model comes
  first.

### Fairness

Only the code's own steps are fair, never the user, the client, a provider's answer,
another machine or a fault.

- `RivetSession`: weak fairness of each goroutine's steps. Every wait of
  `runLocalInference` has a timeout: hydration 15 s, hooks and tool bootstrap a few
  seconds, tools five minutes, the request its context and the HTTP client's limits;
  deferred calls are not optional. `ToolResult` and the frames are not fair.
- `FrameWriter`: weak fairness of a goroutine that is inside a call, of the hooks, the
  timer, its callbacks and the writer goroutine. The run itself is not fair between
  two writes, so `DeltasArrive` does not rest on a later frame. A websocket write is
  assumed to return: `writer.go` sets no write deadline, so this says that the client
  reads or its connection breaks.
- `ChatSocket`: both goroutines of a message run; writes to the browser have a deadline
  of ten seconds; a round whose context has ended gives up, since its request carries
  that context. A model that does not answer is not fair: `CancelEnds` is about
  messages that were cancelled or left.
- `FileTokens`: the ticker ticks, a refresh ends by the time-out of its HTTP client,
  and minutes pass. `LoginPickedUp` needs the last, because the loop asks only when
  the token in memory gets old.
- `ProviderRequests`: the handler's own steps, and what a context that ended ends. The
  flush loop is not assumed to run. A pause that the provider asked for is not fair
  while the client waits.
- The others are checked for safety, with `Spec` alone.

## Theorems

Proved by TLAPS from `Spec` and the named assumption on the constants of each module,
for any value of them: any number of messages, runs, rounds, hooks, writes, threads,
versions, uploads, starts, processes, callers, tokens, requests, models, releases and
any capacity. The assumptions say that bounds are natural numbers, that placeholders
(`NoMsg`, `Nobody`, `Unreadable`, `Missing`, ...) differ from what they stand beside,
and, for `RivetSession`, `ThreadPersist` and `Updater`, what a thread to begin with, a
stored version and a release are. TLC evaluates them in every run.

**RivetSessionProofs**

- `TypeCorrect`: `TypeOK`, together with `CallsInOrder` (a run that waits for a tool
  waits for one of its own calls), which the type of `chan` under update needs.
- `OneInference`: `InflightBacked` and `SingleRunUnlessCancelled`. Neither is
  inductive. `RunInv` adds `InOrder` (exactly the goroutines 1..runs were started, so
  the one started last is `runs`) and `LockHeld`: before the first cancel an executing
  goroutine is the one started last and `inflight` is set. A prompt then finds
  `inflight` false only if nothing executes, and a `MarkIdle` can only be the current
  goroutine's. With cancels `InflightBacked` needs that a goroutine that ends while
  another was started since only lowers `inflight`.
- `BusyEnds`: `UISettles`, from `BusyBacked`: while the client is shown a busy agent
  and no tool loop was exhausted, some goroutine is in its tool loop (`InLoop`), whose
  every way out corrects what is shown.
- `ChannelsBacked`: `PendingBacked`, from `ToolNamed`: a registered channel names its
  run, round and call, so no two waits share one.
- `HistoryKept`: `RequestsWellFormed`. A history is not well formed all the time: between
  the answer that calls tools and the message with their results it ends in calls. So
  `HistoryInv` says that it is well formed up to the calls of the run that is `Waiting`
  for them, and well formed as a whole for any other executing run (`Good`) and when
  none executes; that there is one such run (`OneRun`, for otherwise another's turn
  could come between); and that what hydration will find is well formed. It says
  nothing once the session is `spoiled`.
- `ThreadComplete`: `AnswersReachThread`, from `ThreadInv`: before the first cancel every
  answer of the history is in the process-wide thread, or its run is about to copy or
  publish (`Reached`); and a copy taken has all answers of the history still when it is
  written (`Copied`), although prompts come and turns are dropped in between.

**FrameWriterProofs**

- `WriterSafe`: `NoSendAfterClose` and `TextTimed`, from `WriterInv`: `Places` (where
  hooks and run may be in each phase), `Mutex` (one holder of `coalMu`),
  `HooksBounded` (no hook acts once the rounds have begun), `ClosedQuiet` and
  `BufferTimed`.
- `TypeCorrect`: `TypeOK`, with channels and frames of any length.
- `RequestsFirst`: `HooksFirst`, for every frame that the run writes after the echo,
  from `TypeOK`, `WriterInv` and `FlowInv`: before the
  rounds nothing is buffered (`ColdQuiet`) and nothing but the echo is written
  (`EchoOnly`); while no write has failed every hook that
  has ended has its request delivered or in the channel (`HooksSeen`), and a frame of
  the answer in the channel is behind all of them (`AnswersBehind`). `HooksFirst` alone
  is not inductive: it says nothing of the frames that are still under way.
- `WriterIsChannel`: the refinement `IsChannel`: `Spec` implements `FrameChannel`. The
  frame writer implements it only as long as everything between a producer and the
  client is in order, which is what `PipeInv` says unless a write has failed: there are
  counts, one per frame in the channel and one before, such that the client has the
  writes up to the first (`Delivered`), each frame leads from its count to the next
  (`Chain`), and what the last does not count lies, in this order, in `held`, in the
  buffer and with the producer itself (`Pending`). `HoldInv`: whoever holds `coalMu` has
  text in hand, and the run has none left behind when it enqueues its own frame. A
  step then is a write, a frame received, or a stutter.

**ThreadPersistProofs**

- `TypeCorrect`: `TypeOK`, for any initial threads. Its one part that is more than a
  type: every version in the store, on the server or under way is greater than the
  number of its messages, because `Build` counts the same snapshot that it uploads.
- `NothingForgotten`, `AnswersKept`: the action property `NothingLost`, and
  `AnswersStored`, from one invariant. An upload replaces what has a lower version,
  so the invariant relates versions to answers, for calm histories (`PersistInv`).
  `Shape`: sessions and runs follow each other, and only the last executes.
  `SafeUploads`: no session that could not hydrate uploads. `Data`: an upload under way
  has its answer and those of whatever its version would replace (`LiveInvs`); of two
  the greater version has the answers of the other (`PairInvs`); the store, if it has
  the thread, has the answers of amp's server (`StoreAhead`); and once the current
  session is hydrated it is above the store and all uploads under way (`WarmInv`), while
  before that all these are below the process-wide history or what the session fetched
  (`ColdInv`). *Below* means no more messages and no other answers; versions are
  bounded by these lengths, or by the version the session found.
- `DoneKept`: `DoneStored` of `ChatSocket`, from `ChatInv`: where the two goroutines of a
  message can be relative to each other (`Stages`), and, unless the session is `apart`,
  that the row and every snapshot on its way to it are prefixes of the session's
  history whose versions follow their lengths (`Kept`). Of two snapshots the later one
  then has the turns of the earlier, in whichever order they are stored.

**ThreadCloudProofs**

- `TypeCorrect`: `TypeOK`.
- `CloudSafe`: `NothingLost`. Alone it is not inductive: the merge deletes the row and
  only then imports the file, and a goroutine that has looked at the file replaces it
  later. `CloudInv` says, for calm threads: `RowAndFile` (neither is above `top`, and
  one of them is it), `WritesFit` (no write under way is above it, and the one that has
  looked at the file is not below the file) and `MergeFits` (the entry the merge has at
  hand is not newer than its file, which for calm threads only grows). `OneHolder` is
  the mutex of the writes, `Phases` keeps merge and requests apart.
- `DeletedStays`: `DeletedStaysDeleted`, from `GoneInv`: a thread that is gone has no
  file, no write under way and no entry of the merge at hand, so nothing can bring it back but
  an upload, an import or another machine, and each of these ends `gone`.
- `FilesCatchUp`: `FileCaughtUp`, from `LateInv`: a thread that is not behind has its
  row's version with a goroutine, or in the file while no goroutine is past its look at
  it; and what the merge has at hand is not newer than its file.

**ClaudeTokensProofs**

- `TypeCorrect`: `TypeOK`, together with `Shaped` (a caller that refreshes has a refresh
  token, one that writes has an access token).
- `OneRefresh`, `EntryGood`: `RefreshedOnce` and `KeychainGood`, from one invariant
  `TokenInv`. They need each other: a caller sends what it read from the entry under
  the lock (`HolderGood`), so it is as good as the entry; the entry has a consumed
  token only while the holder of the lock is about to replace it; and `LockInv` says
  that whoever is between its second look and its write-back is that holder.
- `NothingExpired`: `ReturnsUnexpired`. Every way out of a call but the write-back
  checks the age at its end; for the write-back `WriteUsable` says that what is being
  written has not expired (no five minutes pass while the command runs).

**FileTokensProofs**

- `OneSends`: `SentOnce`, from `SentInv`: one leader at a time, and a refresh token in
  memory that was replaced is one that the file brought back.
- `NothingExpired`: `ReturnsUnexpired`, from `AgeInv`: the recorded expiry is never
  later than the token's own, in memory and in what a caller holds, apart from tokens
  whose expiry was guessed.

**UpdaterProofs**

- `TypeCorrect`: `TypeOK`, with the fact that no attempt begins with the extract
  directory of another (`Ending`: an error and a kill both end the attempt with none of
  its own).
- `Runnable`: `RunnableKept`, from `FilesInv`: what each of the three files holds at each
  place of the swap (the staged copy is whole and probed when it is renamed, the
  backup is what was at the path).
- `OnlyForward`: `NeverOlder`, from `OrderInv`: what may be started next, the path or
  the backup of an empty path, is what ran last or newer than it.
- `WayBack`: `BackupIsPrevious`, from `OwnInv`: until a process outlives its update, the
  path has the version that runs, or, between the two renames, the backup has it.

**ProviderRequestsProofs**

- `TypeCorrect`: `TypeOK`, from `JobsPossible`: attempts are left where one is made.
- `StartKept`, `ResultCounted`: `StartsKept` and `ResultsOnce`, from `LogInv`. Both
  properties count rows, which are lines or inserts that are to come or have failed; the
  invariant says instead which rows there are: the entries of `pending` and the starts of
  `rows` are disjoint, each call has exactly one of them unless its key was used again,
  and each result has one row, which is taken only while its goroutine is to insert it. The
  cardinalities follow from the library's facts about empty and singleton sets.

Every invariant and every safety property of the runs is stated by a theorem. Only
model-checked are the six properties under fairness (`RunsEnd`, `DeltasArrive`,
`CloseEnds`, `LoginPickedUp`, `CancelEnds`, `GoneEnds`): weak fairness speaks of
`ENABLED`, which the prover does not treat. The two claims that the code does not keep
are refuted by TLC.

## Not modelled

- *Remote agent, frame tap, the websocket bridge of the Responses API
  (`websocket_responses.go`) and the older updater in `pkg/util/updater.go`*: nothing
  in the program creates or calls them (`NewRemoteAgent`,
  `NewWebSocketResponsesHandler` have no caller), so there is no order of steps that
  the program can take.
- *Configuration and admin interface*: settings live in memory under one lock, and each
  change writes the whole file. What can go wrong takes one request or one kill: a file
  torn by a kill is read as the defaults at the next start, and `handleRedirects`
  (`admin_handlers.go` 921-929) encodes a map that another request may change. A model
  would restate that.
- *Title generation, self-serve actors, web interface, scripts*: single requests, and
  presentation; nothing else depends on the state they keep.
- *Within the modelled components*: settings, approval and plugin frames of a session,
  compaction of histories, two connections of one thread at once with their sequence
  numbers; the relay from amp's server to the client, which copies frames; the content
  of messages and the translation between the providers' formats; metadata of threads;
  listing, searching and statistics, which are SQL over rows; profiles of the Claude
  keychain; the tool permissions, which decide one call from its arguments. The backup
  command (`main.go` 440) copies the database file without its write-ahead log, which
  the model of the store has not; the restore command (`main.go` 469) puts an older
  database in place of the one that is there. Claude Code and Claude.app may refresh
  the keychain's token themselves, without the file lock or with it (the comments of
  `token_manager.go` 35-37 and 93-95 expect the latter): `ClaudeTokens` has their login
  only. A Gemini CLI request may wait up to fifteen seconds for the one that looks up the
  project id (`gemini_cli_handler.go` 214). A browser that uses a request id again while
  its first message is under way cancels only the later one. What the request log holds
  in memory is lost with the process, which does not flush at its end.

What would come next: two connections of one thread (bind and publish of both, sequence
numbers).
