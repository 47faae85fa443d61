---------------------------- MODULE ProviderRequests ----------------------------
(***************************************************************************)
(* A request to a model provider from its arrival to its line in the       *)
(* request log: the router and the HTTP handlers (cmd/amp-proxy-neo and    *)
(* pkg/provider), the retryer, the rounds of a Rivet session that send     *)
(* their own requests, and the logger, which keeps the start of a request  *)
(* in memory until a result of its model comes, or for thirty seconds, and *)
(* writes what it takes from there to a database that may refuse it.       *)
(* The retries of a Rivet session are those of its Anthropic round.        *)
(***************************************************************************)
EXTENDS Integers, FiniteSets

CONSTANTS
  Reqs,        \* requests
  Models,      \* names of models
  Mixes,       \* what the requests can be: functions from requests to profiles
  NoReq,       \* not a request
  MaxAttempts  \* of the retryer

\* What sends a request.  It tries again after a retryable status ("status"),
\* after an error of the network as well ("all"), or never; it passes a
\* successful answer on as a stream, always or when that was asked for; it
\* reports its result under the model of the body, which is the one after the
\* redirection, or of the path; and it records a request that had no response, or
\* leaves that out.
Handler(api, retries, streams, names, recordsErrors) ==
  [api |-> api, retries |-> retries, streams |-> streams, names |-> names,
   recordsErrors |-> recordsErrors]

ClaudeHandler == Handler("anthropic", "all", "asked", "body", FALSE)
OpenAIHandler == Handler("openai", "all", "asked", "body", FALSE)
OpenAIResponsesHandler == Handler("responses", "all", "asked", "body", FALSE)
CodexHandler == Handler("codex", "all", "always", "body", FALSE)
GeminiHandler == Handler("gemini", "all", "asked", "path", FALSE)
GeminiCLIHandler == Handler("geminiCLI", "all", "asked", "path", FALSE)
AnthropicRound == Handler("anthropic round", "status", "always", "body", TRUE)
OpenAIRound == Handler("openai round", "never", "always", "body", TRUE)
GeminiRound == Handler("gemini round", "never", "always", "body", TRUE)
CustomRound == Handler("custom round", "never", "asked", "body", TRUE)

Rounds == {AnthropicRound, OpenAIRound, GeminiRound, CustomRound}
Handlers == Rounds \cup {ClaudeHandler, OpenAIHandler, OpenAIResponsesHandler,
                         CodexHandler, GeminiHandler, GeminiCLIHandler}
Apis == {h.api : h \in Handlers}

\* target is the model after the redirection, path the one in the path, which
\* stays.
Profiles == [by : Handlers, target : Models, path : Models]

ASSUME RequestsAssumption ==
  /\ NoReq \notin Reqs
  /\ Mixes \subseteq [Reqs -> Profiles]
  /\ MaxAttempts \in Nat \ {0}

Keys == Models \X (Apis \cup {"upstream"})
Statuses == {"none", "ok", "fatal", "retryable"}

VARIABLES
  profile, \* of each request, which never changes
  job,     \* the goroutine of each request: where it is, and
           \*   attempt, last: attempts that are over, and whether a retryable
           \*     response is kept as the last one
           \*   status, stale: of the response in hand, and whether its body
           \*     has been closed
           \*   body: what the client has of the body
  gone,    \* requests whose context has ended
  pending, \* RequestLogger.pending: for each key the request that waits
  rows,    \* what leaves the memory to be a line of the database: the request
           \* it began with, the one whose result it has, and whether it is
           \* taken, has been written, or was refused and is nowhere
  \* For the properties:
  logged,  \* the calls of LogRequest, as request and key
  recorded \* requests whose result was reported

requestVars == <<profile, job, gone>>
logVars == <<pending, rows, logged, recorded>>
vars == <<requestVars, logVars>>

Places == {"new", "try", "wait", "fail", "respond", "read", "stream", "record",
           "insert", "forward", "log upstream", "done"}

At(place) == [pc |-> place, attempt |-> 0, last |-> FALSE, status |-> "none",
              stale |-> FALSE, body |-> "none"]

Init ==
  /\ profile \in Mixes
  /\ job = [r \in Reqs |-> At("new")]
  /\ gone = {}
  /\ pending = [k \in Keys |-> NoReq] /\ rows = {}
  /\ logged = {} /\ recorded = {}

By(r) == profile[r].by
Target(r) == profile[r].target
Reported(r) == IF By(r).names = "path" THEN profile[r].path ELSE Target(r)

Pc(r) == job[r].pc
Becomes(r, state) == job' = [job EXCEPT ![r] = state] /\ UNCHANGED <<profile, gone>>

\* The goroutine ends, and what it knew is gone.
Ends(r) ==
  /\ job' = [job EXCEPT ![r] = At("done")] /\ gone' = gone \ {r}
  /\ UNCHANGED profile

------------------------------------------------------------------------------
(* RequestLogger.                                                           *)

\* The path and the route of a request follow from its handler.
PendingKey(r, api) == <<Target(r), api>>

LogRequest(r, api) ==
  /\ pending' = [pending EXCEPT ![PendingKey(r, api)] = r]
  /\ logged' = logged \cup {<<r, PendingKey(r, api)>>}
  /\ UNCHANGED <<rows, recorded>>

Waiting(model) == {k \in Keys : k[1] = model /\ pending[k] # NoReq}

\* What is taken from the memory under the lock, to be inserted without it.
Row(start, result) == [start |-> start, result |-> result, at |-> "taken"]

Recorded(r) == Ends(r) /\ recorded' = recorded \cup {r}
\* The goroutine inserts next; what it knew of the answer is in the row.
ToInsert(r) == Becomes(r, At("insert")) /\ UNCHANGED recorded

\* Mutant: a result that finds nothing is dropped.
RecordResultOfPending(r) ==
  LET found == Waiting(Reported(r))
  IN /\ \/ \E k \in found : /\ pending' = [pending EXCEPT ![k] = NoReq]
                            /\ rows' = rows \cup {Row(pending[k], r)} /\ ToInsert(r)
        \/ found = {} /\ Recorded(r) /\ UNCHANGED <<pending, rows>>
     /\ UNCHANGED logged

\* Mutant: every entry of the model goes.
RecordResultForModel(r) ==
  LET found == Waiting(Reported(r))
  IN /\ pending' = [k \in Keys |-> IF k \in found THEN NoReq ELSE pending[k]]
     /\ \/ \E k \in found : rows' = rows \cup {Row(pending[k], r)}
        \/ found = {} /\ rows' = rows \cup {Row(NoReq, r)}
     /\ ToInsert(r) /\ UNCHANGED logged

\* Any entry of the model is completed, in the order of a Go map; without one
\* the result gets a line of its own.
RecordResult(r) ==
  LET found == Waiting(Reported(r))
  IN /\ \/ \E k \in found : /\ pending' = [pending EXCEPT ![k] = NoReq]
                            /\ rows' = rows \cup {Row(pending[k], r)}
        \/ found = {} /\ rows' = rows \cup {Row(NoReq, r)} /\ UNCHANGED pending
     /\ ToInsert(r) /\ UNCHANGED logged

\* InsertLog fails, which at most a warning tells, or there is no database.
Insert(row) ==
  /\ row \in rows /\ row.at = "taken"
  /\ \E at \in {"written", "refused"} :
       rows' = (rows \ {row}) \cup {[row EXCEPT !.at = at]}

\* A line without a result is the flush's, which writes them one after another.
Flushing == {row \in rows : row.at = "taken" /\ row.result = NoReq}

\* Entries older than thirty seconds go; which they are is left open.  One
\* goroutine flushes.
FlushPending ==
  /\ Flushing = {}
  /\ \E old \in (SUBSET {k \in Keys : pending[k] # NoReq}) \ {{}} :
       /\ pending' = [k \in Keys |-> IF k \in old THEN NoReq ELSE pending[k]]
       /\ rows' = rows \cup {Row(pending[k], NoReq) : k \in old}
  /\ UNCHANGED <<requestVars, logged, recorded>>

InsertFlushed ==
  (\E row \in Flushing : Insert(row)) /\ UNCHANGED <<requestVars, pending, logged, recorded>>

------------------------------------------------------------------------------
(* The router and the upstream.                                             *)

\* There are credentials: the request is logged and goes to its handler.
Dispatch(r) ==
  Pc(r) = "new" /\ Becomes(r, At("try")) /\ LogRequest(r, By(r).api)

\* There are none, or the route is amp's.
FallBack(r) ==
  /\ Pc(r) = "new" /\ By(r) \notin Rounds
  /\ Becomes(r, At("forward")) /\ UNCHANGED logVars

\* The upstream answered, or did not.  What names no model, or is no POST, is
\* not logged.
Forward(r) ==
  /\ Pc(r) = "forward"
  /\ Becomes(r, At("log upstream")) \/ Ends(r)
  /\ UNCHANGED logVars

\* The start of a forwarded request is logged when it is over.
LogUpstream(r) ==
  Pc(r) = "log upstream" /\ Ends(r) /\ LogRequest(r, "upstream")

------------------------------------------------------------------------------
(* Retryer.Do, and the loop of the Anthropic round.                         *)

\* A response is returned, with its body open or closed.
Returned(status, stale) == [At("respond") EXCEPT !.status = status, !.stale = stale]

\* The last response of a round is returned as it is.
LastTry(r) == \/ By(r).retries = "never"
              \/ By(r).retries = "status" /\ job[r].attempt + 1 = MaxAttempts

\* A response that is not retried.
Answered(r) ==
  /\ Pc(r) = "try"
  /\ \E status \in {"ok", "fatal", "retryable"} :
       /\ status = "retryable" => LastTry(r)
       /\ Becomes(r, Returned(status, FALSE))
  /\ UNCHANGED logVars

\* 429, 502, 503 or 529: the body is read and closed.
Retryable(r) ==
  /\ Pc(r) = "try" /\ ~LastTry(r)
  /\ Becomes(r, [job[r] EXCEPT !.pc = "wait", !.attempt = @ + 1, !.last = TRUE])
  /\ UNCHANGED logVars

\* The request cannot be built.
Malformed(r) ==
  /\ Pc(r) = "try" /\ By(r) \notin Rounds
  /\ Becomes(r, At("fail")) /\ UNCHANGED logVars

\* No response.  A round does not try again.
NetworkError(r) ==
  /\ Pc(r) = "try"
  /\ Becomes(r, IF By(r).retries # "all" THEN At("fail")
                ELSE [job[r] EXCEPT !.pc = "wait", !.attempt = @ + 1])
  /\ UNCHANGED logVars

\* Mutant: one attempt too many.
GivesUpLate(r) == job[r].attempt > MaxAttempts

GivesUp(r) == job[r].attempt = MaxAttempts

\* The wait is over; after the last attempt the retryable response that came
\* last is returned, or the error.
WaitOver(r) ==
  /\ Pc(r) = "wait"
  /\ Becomes(r, IF ~GivesUp(r) THEN [job[r] EXCEPT !.pc = "try"]
                ELSE IF job[r].last THEN Returned("retryable", TRUE) ELSE At("fail"))
  /\ UNCHANGED logVars

\* Mutant: only the timer is waited for.
WaitEndedDeaf(r) == FALSE /\ UNCHANGED vars

WaitEnded(r) ==
  Pc(r) = "wait" /\ r \in gone /\ Becomes(r, At("fail")) /\ UNCHANGED logVars

------------------------------------------------------------------------------
(* The handlers.                                                            *)

\* The HTTP handlers answer 502 and log nothing; a round records the error.
Fail(r) ==
  /\ Pc(r) = "fail"
  /\ IF By(r).recordsErrors THEN Becomes(r, At("record")) ELSE Ends(r)
  /\ UNCHANGED logVars

\* The status goes to the client; a successful stream is passed on line by line.
Respond(r) ==
  /\ Pc(r) = "respond"
  /\ \E how \in {"stream", "read"} :
       /\ how = "stream" => job[r].status = "ok"
       /\ how = "read" => job[r].status # "ok" \/ By(r).streams = "asked"
       /\ Becomes(r, [job[r] EXCEPT !.pc = how])
  /\ UNCHANGED logVars

\* A body that is closed yields nothing.
Read(r) ==
  /\ Pc(r) = "read"
  /\ Becomes(r, [job[r] EXCEPT !.pc = "record",
                               !.body = IF job[r].stale THEN "none" ELSE "whole"])
  /\ UNCHANGED logVars

\* The connection breaks, or the context has ended: what came is kept.
Breaks(r) ==
  /\ Pc(r) \in {"read", "stream"} /\ ~job[r].stale
  /\ Becomes(r, [job[r] EXCEPT !.pc = "record", !.body = "part"])
  /\ UNCHANGED logVars

StreamOver(r) ==
  /\ Pc(r) = "stream"
  /\ Becomes(r, [job[r] EXCEPT !.pc = "record", !.body = "whole"]) /\ UNCHANGED logVars

Record(r) == Pc(r) = "record" /\ RecordResult(r)

InsertResult(r) ==
  /\ Pc(r) = "insert"
  /\ \E row \in rows : row.result = r /\ Insert(row)
  /\ Recorded(r) /\ UNCHANGED <<pending, logged>>

Leave(r) ==
  /\ Pc(r) \notin {"new", "done"} /\ r \notin gone
  /\ gone' = gone \cup {r} /\ UNCHANGED <<profile, job, logVars>>

------------------------------------------------------------------------------
OwnStep(r) ==
  LogUpstream(r) \/ WaitEnded(r) \/ Fail(r) \/ Respond(r) \/ Record(r) \/ InsertResult(r)

\* What ends a request whose context has ended.
Ended(r) == r \in gone /\ (Forward(r) \/ NetworkError(r) \/ Breaks(r) \/ Read(r))

Next ==
  \/ \E r \in Reqs :
       \/ Dispatch(r) \/ FallBack(r) \/ Forward(r) \/ Answered(r)
       \/ Retryable(r) \/ Malformed(r) \/ NetworkError(r) \/ WaitOver(r) \/ OwnStep(r)
       \/ Read(r) \/ Breaks(r) \/ StreamOver(r) \/ Leave(r)
  \/ FlushPending \/ InsertFlushed

Spec == Init /\ [][Next]_vars

\* The goroutines run, and a context that ended ends what waits for the network;
\* the providers promise nothing, and they say how long a wait is.
FairSpec == Spec /\ \A r \in Reqs : WF_vars(OwnStep(r)) /\ WF_vars(Ended(r))

------------------------------------------------------------------------------
TypeOK ==
  /\ profile \in Mixes
  /\ job \in [Reqs -> [pc : Places, attempt : 0 .. MaxAttempts, last : BOOLEAN,
                       status : Statuses, stale : BOOLEAN,
                       body : {"none", "part", "whole"}]]
  /\ gone \subseteq Reqs /\ recorded \subseteq Reqs /\ logged \subseteq Reqs \X Keys
  /\ pending \in [Keys -> Reqs \cup {NoReq}]
  /\ rows \subseteq [start : Reqs \cup {NoReq}, result : Reqs \cup {NoReq},
                     at : {"taken", "written", "refused"}]

Lines(r) == {row \in rows : row.start = r}
Results(r) == {row \in rows : row.result = r}
Held(r) == {k \in Keys : pending[k] = r}

\* The start of a request is in one place at most, whatever results and flushes
\* take the entries: in memory, in the hands of whoever took it from there, in a
\* line of the database, or in an insert that failed, which is the only end that
\* loses it.  It is in none when another request of its model, path and route
\* replaced it.
StartsKept ==
  \A call \in logged :
    LET places == Cardinality(Lines(call[1])) + Cardinality(Held(call[1]))
    IN \/ places = 1
       \/ places = 0 /\ \E other \in logged \ {call} : other[2] = call[2]

\* Every result that a handler reported was given to the database in exactly one
\* insert, so that its tokens are counted once at most, and once if the insert
\* did not fail, although entries may be replaced, flushed or taken by results
\* of other requests.
ResultsOnce ==
  \A r \in recorded :
    Cardinality(Results(r)) = 1 /\ \A row \in Results(r) : row.at # "taken"

\* A client that goes away frees its goroutine, whatever pause the provider
\* asked for and although it may never answer.
GoneEnds == \A r \in Reqs : r \in gone ~> Pc(r) = "done"

==============================================================================
