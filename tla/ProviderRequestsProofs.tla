------------------------ MODULE ProviderRequestsProofs ------------------------
(***************************************************************************)
(* Theorems about ProviderRequests, for any requests, models, handlers and *)
(* numbers of attempts.                                                    *)
(***************************************************************************)
EXTENDS ProviderRequests, FiniteSetTheorems, TLAPS

(***************************************************************************)
(* The goroutine of a request.                                             *)
(***************************************************************************)
Job == [pc : Places, attempt : 0 .. MaxAttempts, last : BOOLEAN,
        status : Statuses, stale : BOOLEAN, body : {"none", "part", "whole"}]

\* A state of the goroutine that can occur: it tries only while attempts are
\* left.
Possible(s) == s \in Job /\ (s.pc = "try" => s.attempt < MaxAttempts)

JobsPossible == \A r \in Reqs : Possible(job[r])

Typed == TypeOK /\ JobsPossible

Rows == [start : Reqs \cup {NoReq}, result : Reqs \cup {NoReq},
         at : {"taken", "written", "refused"}]

\* The log's variables have their types.
LogTypes ==
  /\ recorded \subseteq Reqs /\ logged \subseteq Reqs \X Keys
  /\ pending \in [Keys -> Reqs \cup {NoReq}]
  /\ rows \subseteq Rows

LEMMA AtPossible ==
  ASSUME NEW place \in Places
  PROVE  Possible(At(place))
  <1>1. 0 \in 0 .. MaxAttempts /\ 0 < MaxAttempts
    BY RequestsAssumption
  <1>2. At(place) \in Job
    BY <1>1 DEF At, Job, Statuses
  <1>3. QED
    BY <1>1, <1>2 DEF At, Possible

LEMMA ReturnedPossible ==
  ASSUME NEW status \in Statuses, NEW stale \in BOOLEAN
  PROVE  Possible(Returned(status, stale))
  <1> DEFINE s == At("respond")
  <1>1. Possible(s) /\ s.pc = "respond" /\ s.body = "none"
    BY AtPossible DEF Places, At
  <1> HIDE DEF s
  <1>2. Possible([s EXCEPT !.status = status, !.stale = stale])
    BY <1>1 DEF Possible, Job
  <1>3. QED
    BY <1>2 DEF Returned, s

\* The request goes on in a state that can occur.
LEMMA GoesOn ==
  ASSUME Typed, NEW r \in Reqs, NEW s, Possible(s), Becomes(r, s), LogTypes'
  PROVE  Typed'
  <1>1. job' = [job EXCEPT ![r] = s] /\ UNCHANGED <<profile, gone>>
    BY DEF Becomes
  <1>2. JobsPossible'
    BY <1>1 DEF Typed, TypeOK, JobsPossible, Possible, Job
  <1>3. job' \in [Reqs -> Job]
    BY <1>1 DEF Typed, TypeOK, Possible, Job
  <1>4. QED
    BY <1>1, <1>2, <1>3 DEF Typed, TypeOK, LogTypes, Job, Rows

LEMMA EndsTyped ==
  ASSUME Typed, NEW r \in Reqs, Ends(r), LogTypes'
  PROVE  Typed'
  <1>1. Possible(At("done"))
    BY AtPossible DEF Places
  <1>2. job' = [job EXCEPT ![r] = At("done")] /\ gone' \subseteq Reqs /\ profile' = profile
    BY DEF Ends, Typed, TypeOK
  <1>3. JobsPossible'
    BY <1>1, <1>2 DEF Typed, TypeOK, JobsPossible, Possible, Job
  <1>4. job' \in [Reqs -> Job]
    BY <1>1, <1>2 DEF Typed, TypeOK, Possible, Job
  <1>5. QED
    BY <1>2, <1>3, <1>4 DEF Typed, TypeOK, LogTypes, Job, Rows

LEMMA SameLog ==
  ASSUME Typed, UNCHANGED logVars
  PROVE  LogTypes'
  BY DEF Typed, TypeOK, LogTypes, Rows, logVars

LEMMA KeysOf ==
  ASSUME Typed, NEW r \in Reqs
  PROVE  /\ By(r) \in Handlers /\ PendingKey(r, By(r).api) \in Keys
         /\ PendingKey(r, "upstream") \in Keys
  <1>1. profile[r] \in Profiles
    BY RequestsAssumption DEF Typed, TypeOK
  <1>2. By(r) \in Handlers /\ Target(r) \in Models
    BY <1>1 DEF By, Target, Profiles
  <1>3. By(r).api \in Apis
    BY <1>2 DEF Apis
  <1>4. QED
    BY <1>2, <1>3 DEF PendingKey, Keys

LEMMA LogRequestTypes ==
  ASSUME Typed, NEW r \in Reqs, NEW api, PendingKey(r, api) \in Keys,
         LogRequest(r, api)
  PROVE  LogTypes'
  BY DEF Typed, TypeOK, LogTypes, Rows, LogRequest

LEMMA RecordTypes ==
  ASSUME Typed, NEW r \in Reqs, RecordResult(r)
  PROVE  LogTypes'
  <1>0. UNCHANGED <<recorded, logged>>
    BY DEF RecordResult, ToInsert
  <1>1. CASE \E k \in Waiting(Reported(r)) :
               /\ pending' = [pending EXCEPT ![k] = NoReq]
               /\ rows' = rows \cup {Row(pending[k], r)}
    BY <1>0, <1>1 DEF Typed, TypeOK, LogTypes, Rows, Waiting, Row
  <1>2. CASE rows' = rows \cup {Row(NoReq, r)} /\ UNCHANGED pending
    BY <1>0, <1>2 DEF Typed, TypeOK, LogTypes, Rows, Row
  <1>3. QED
    BY <1>1, <1>2 DEF RecordResult

LEMMA InsertTypes ==
  ASSUME Typed, NEW row, Insert(row), recorded' \subseteq Reqs,
         UNCHANGED <<pending, logged>>
  PROVE  LogTypes'
  <1>1. PICK at \in {"written", "refused"} :
          rows' = (rows \ {row}) \cup {[row EXCEPT !.at = at]}
    BY DEF Insert
  <1>2. row \in Rows /\ rows \subseteq Rows
    BY DEF Insert, Typed, TypeOK, Rows
  <1>3. [row EXCEPT !.at = at] \in Rows
    BY <1>2 DEF Rows
  <1>4. QED
    BY <1>1, <1>2, <1>3 DEF Typed, TypeOK, LogTypes

LEMMA FlushTypes ==
  ASSUME Typed, FlushPending \/ InsertFlushed
  PROVE  LogTypes'
  <1>1. CASE FlushPending
    <2>1. PICK old \in SUBSET {k \in Keys : pending[k] # NoReq} :
            /\ pending' = [k \in Keys |-> IF k \in old THEN NoReq ELSE pending[k]]
            /\ rows' = rows \cup {Row(pending[k], NoReq) : k \in old}
      BY <1>1 DEF FlushPending
    <2>2. pending' \in [Keys -> Reqs \cup {NoReq}]
      BY <2>1 DEF Typed, TypeOK
    <2>3. {Row(pending[k], NoReq) : k \in old} \subseteq Rows
      BY DEF Typed, TypeOK, Row, Rows
    <2>4. UNCHANGED <<logged, recorded>>
      BY <1>1 DEF FlushPending
    <2>5. QED
      BY <2>1, <2>2, <2>3, <2>4 DEF Typed, TypeOK, LogTypes, Rows
  <1>2. CASE InsertFlushed
    BY <1>2, InsertTypes DEF InsertFlushed, Typed, TypeOK
  <1>3. QED
    BY <1>1, <1>2

LEMMA InitTyped == Init => Typed
  <1> SUFFICES ASSUME Init PROVE Typed
    OBVIOUS
  <1>1. Possible(At("new"))
    BY AtPossible DEF Places
  <1>2. JobsPossible /\ job \in [Reqs -> Job]
    BY <1>1 DEF Init, JobsPossible, Possible
  <1>3. QED
    BY <1>2 DEF Init, Typed, TypeOK, Job

\* The retryer.
LEMMA RetryTyped ==
  ASSUME Typed, NEW r \in Reqs,
         \/ Answered(r) \/ Retryable(r) \/ Malformed(r) \/ NetworkError(r)
         \/ WaitOver(r) \/ WaitEnded(r)
  PROVE  Typed'
  <1>0. Possible(job[r]) /\ job[r] \in Job /\ MaxAttempts \in Nat
    BY RequestsAssumption DEF Typed, JobsPossible, Possible
  <1>f. Possible(At("fail"))
    BY AtPossible DEF Places
  <1>l. LogTypes'
    BY SameLog DEF Answered, Retryable, Malformed, NetworkError, WaitOver, WaitEnded
  <1>1. CASE Answered(r)
    <2>1. PICK status \in {"ok", "fatal", "retryable"} : Becomes(r, Returned(status, FALSE))
      BY <1>1 DEF Answered
    <2>2. Possible(Returned(status, FALSE))
      BY ReturnedPossible DEF Statuses
    <2>3. QED
      BY <2>1, <2>2, <1>l, GoesOn
  <1>2. ASSUME NEW last \in BOOLEAN, Pc(r) = "try",
               Becomes(r, [job[r] EXCEPT !.pc = "wait", !.attempt = @ + 1, !.last = last])
        PROVE  Typed'
    <2>1. Possible([job[r] EXCEPT !.pc = "wait", !.attempt = @ + 1, !.last = last])
      <3> DEFINE s == [job[r] EXCEPT !.pc = "wait", !.attempt = @ + 1, !.last = last]
      <3>1. job[r].attempt + 1 \in 0 .. MaxAttempts
        BY <1>0, <1>2 DEF Possible, Job, Pc
      <3>2. s \in Job
        BY <1>0, <3>1 DEF Job, Places
      <3>3. s.pc = "wait"
        BY <1>0, <1>2 DEF Possible, Job, Pc
      <3>4. QED
        BY <3>2, <3>3 DEF Possible
    <2>2. QED
      BY <1>2, <1>l, <2>1, GoesOn
  <1>3. CASE Retryable(r)
    BY <1>2, <1>3 DEF Retryable
  <1>4. CASE Malformed(r) \/ WaitEnded(r)
    BY <1>4, <1>f, <1>l, GoesOn DEF Malformed, WaitEnded
  <1>5. CASE NetworkError(r)
    <2>1. CASE Becomes(r, At("fail"))
      BY <2>1, <1>f, <1>l, GoesOn
    <2>2. CASE Becomes(r, [job[r] EXCEPT !.pc = "wait", !.attempt = @ + 1])
      <3>1. Possible([job[r] EXCEPT !.pc = "wait", !.attempt = @ + 1])
        <4> DEFINE s == [job[r] EXCEPT !.pc = "wait", !.attempt = @ + 1]
        <4>1. job[r].attempt + 1 \in 0 .. MaxAttempts
          BY <1>0, <1>5 DEF NetworkError, Possible, Job, Pc
        <4>2. s \in Job
          BY <1>0, <4>1 DEF Job, Places
        <4>3. s.pc = "wait"
          BY <1>0, <1>5 DEF NetworkError, Possible, Job, Pc
        <4>4. QED
          BY <4>2, <4>3 DEF Possible
      <3>2. QED
        BY <2>2, <3>1, <1>l, GoesOn
    <2>3. QED
      BY <1>5, <2>1, <2>2 DEF NetworkError
  <1>6. CASE WaitOver(r)
    <2>1. CASE ~GivesUp(r) /\ Becomes(r, [job[r] EXCEPT !.pc = "try"])
      <3>1. Possible([job[r] EXCEPT !.pc = "try"])
        <4> DEFINE s == [job[r] EXCEPT !.pc = "try"]
        <4>1. s \in Job
          BY <1>0 DEF Job, Places
        <4>2. /\ s.pc = "try" /\ s.attempt = job[r].attempt
              /\ job[r].attempt \in 0 .. MaxAttempts
          BY <1>0, <1>6 DEF WaitOver, Possible, Job, Pc
        <4>3. QED
          BY <1>0, <2>1, <4>1, <4>2 DEF GivesUp, Possible
      <3>2. QED
        BY <2>1, <3>1, <1>l, GoesOn
    <2>2. CASE Becomes(r, Returned("retryable", TRUE))
      <3>1. Possible(Returned("retryable", TRUE))
        BY ReturnedPossible DEF Statuses
      <3>2. QED
        BY <2>2, <3>1, <1>l, GoesOn
    <2>3. CASE Becomes(r, At("fail"))
      BY <2>3, <1>f, <1>l, GoesOn
    <2>4. QED
      BY <1>6, <2>1, <2>2, <2>3 DEF WaitOver
  <1>7. QED
    BY <1>1, <1>3, <1>4, <1>5, <1>6

\* The handlers.
LEMMA HandlerTyped ==
  ASSUME Typed, NEW r \in Reqs,
         Fail(r) \/ Respond(r) \/ Read(r) \/ Breaks(r) \/ StreamOver(r)
  PROVE  Typed'
  <1>0. Possible(job[r]) /\ job[r] \in Job
    BY DEF Typed, JobsPossible, Possible
  <1>l. LogTypes'
    BY SameLog DEF Fail, Respond, Read, Breaks, StreamOver
  <1>1. CASE Fail(r)
    <2>1. Possible(At("record"))
      BY AtPossible DEF Places
    <2>2. QED
      BY <1>1, <1>l, <2>1, GoesOn, EndsTyped DEF Fail
  <1>2. CASE Respond(r)
    <2>1. PICK how \in {"stream", "read"} : Becomes(r, [job[r] EXCEPT !.pc = how])
      BY <1>2 DEF Respond
    <2>2. Possible([job[r] EXCEPT !.pc = how])
      BY <1>0, <1>2 DEF Respond, Possible, Job, Places, Pc
    <2>3. QED
      BY <1>l, <2>1, <2>2, GoesOn
  <1>3. CASE Read(r)
    <2> DEFINE body == IF job[r].stale THEN "none" ELSE "whole"
    <2>1. Possible([job[r] EXCEPT !.pc = "record", !.body = body])
      BY <1>0, <1>3 DEF Read, Possible, Job, Places, Pc
    <2>2. QED
      BY <1>3, <1>l, <2>1, GoesOn DEF Read
  <1>4. CASE Breaks(r)
    <2>1. Possible([job[r] EXCEPT !.pc = "record", !.body = "part"])
      BY <1>0 DEF Possible, Job, Places
    <2>2. QED
      BY <1>4, <1>l, <2>1, GoesOn DEF Breaks
  <1>5. CASE StreamOver(r)
    <2>1. Possible([job[r] EXCEPT !.pc = "record", !.body = "whole"])
      BY <1>0 DEF Possible, Job, Places
    <2>2. QED
      BY <1>5, <1>l, <2>1, GoesOn DEF StreamOver
  <1>6. QED
    BY <1>1, <1>2, <1>3, <1>4, <1>5

\* The router, the log and the end of a request.
LEMMA RouterTyped ==
  ASSUME Typed, NEW r \in Reqs,
         \/ Dispatch(r) \/ FallBack(r) \/ Forward(r) \/ LogUpstream(r) \/ Record(r)
         \/ InsertResult(r) \/ Leave(r)
  PROVE  Typed'
  <1>1. CASE Dispatch(r)
    <2>1. Possible(At("try"))
      BY AtPossible DEF Places
    <2>2. QED
      BY <1>1, <2>1, KeysOf, LogRequestTypes, GoesOn DEF Dispatch
  <1>2. CASE FallBack(r)
    <2>1. Possible(At("forward"))
      BY AtPossible DEF Places
    <2>2. QED
      BY <1>2, <2>1, SameLog, GoesOn DEF FallBack
  <1>3. CASE Forward(r)
    <2>1. Possible(At("log upstream"))
      BY AtPossible DEF Places
    <2>2. QED
      BY <1>3, <2>1, SameLog, GoesOn, EndsTyped DEF Forward
  <1>4. CASE LogUpstream(r)
    BY <1>4, KeysOf, LogRequestTypes, EndsTyped DEF LogUpstream
  <1>5. CASE Record(r)
    <2>1. Possible(At("insert"))
      BY AtPossible DEF Places
    <2>2. QED
      BY <1>5, <2>1, RecordTypes, GoesOn DEF Record, RecordResult, ToInsert
  <1>6. CASE InsertResult(r)
    <2>1. recorded' \subseteq Reqs
      BY <1>6 DEF InsertResult, Recorded, Typed, TypeOK
    <2>2. QED
      BY <1>6, <2>1, InsertTypes, EndsTyped DEF InsertResult, Recorded
  <1>7. CASE Leave(r)
    BY <1>7 DEF Leave, Typed, TypeOK, JobsPossible, logVars
  <1>8. QED
    BY <1>1, <1>2, <1>3, <1>4, <1>5, <1>6, <1>7

LEMMA FlushTyped ==
  ASSUME Typed, FlushPending \/ InsertFlushed
  PROVE  Typed'
  BY FlushTypes DEF FlushPending, InsertFlushed, Typed, TypeOK, JobsPossible, LogTypes, Rows,
                    requestVars

LEMMA NextTyped == Typed /\ [Next]_vars => Typed'
  <1> SUFFICES ASSUME Typed, [Next]_vars PROVE Typed'
    OBVIOUS
  <1>1. ASSUME NEW r \in Reqs, OwnStep(r) PROVE Typed'
    BY <1>1, RetryTyped, HandlerTyped, RouterTyped DEF OwnStep
  <1>2. ASSUME FlushPending \/ InsertFlushed PROVE Typed'
    BY <1>2, FlushTyped
  <1>3. ASSUME UNCHANGED vars PROVE Typed'
    BY <1>3 DEF Typed, TypeOK, JobsPossible, vars, requestVars, logVars
  <1>4. QED
    BY <1>1, <1>2, <1>3, RetryTyped, HandlerTyped, RouterTyped DEF Next

\* The variables keep their types: no request makes more attempts than it may.
THEOREM TypeCorrect == Spec => []TypeOK
  <1>1. Typed => TypeOK
    BY DEF Typed
  <1>2. QED
    BY <1>1, InitTyped, NextTyped, PTL DEF Spec

(***************************************************************************)
(* The lines of the log.                                                   *)
(***************************************************************************)

\* A request that has not been logged yet may come to be.
Unlogged == {"new", "forward", "log upstream"}

\* Starts: an entry waits under the key of its request, a request has at most
\* one entry or line, and one of them unless its entry was replaced.
StartInv ==
  /\ \A k \in Keys : pending[k] # NoReq => <<pending[k], k>> \in logged
  /\ \A row \in rows : row.start # NoReq =>
       /\ \E k \in Keys : <<row.start, k>> \in logged
       /\ \A k \in Keys : pending[k] # row.start
  /\ \A row, other \in rows :
       row.start # NoReq /\ row.start = other.start => row = other
  /\ \A call \in logged :
       \/ pending[call[2]] = call[1]
       \/ \E row \in rows : row.start = call[1]
       \/ \E other \in logged \ {call} : other[2] = call[2]
  /\ \A call \in logged : Pc(call[1]) \notin Unlogged
  /\ \A call, other \in logged : call[1] = other[1] => call = other

\* Results: each is in one insert, which its own goroutine is about to make or
\* has made.
ResultInv ==
  /\ \A row \in rows : row.result # NoReq =>
       \/ row.result \in recorded /\ row.at # "taken"
       \/ Pc(row.result) = "insert" /\ row.at = "taken"
  /\ \A row, other \in rows :
       row.result # NoReq /\ row.result = other.result => row = other
  /\ \A r \in recorded : \E row \in rows : row.result = r
  /\ \A r \in recorded : Pc(r) = "done"

LogInv == StartInv /\ ResultInv

LEMMA InitLog == Init => LogInv
  BY DEF Init, LogInv, StartInv, ResultInv

\* Most steps leave the log alone, and none of them takes a request back to
\* where it has not been logged.
Quiet(r) ==
  \/ FallBack(r) \/ Forward(r) \/ Answered(r) \/ Retryable(r) \/ Malformed(r)
  \/ NetworkError(r) \/ WaitOver(r) \/ WaitEnded(r) \/ Fail(r) \/ Respond(r)
  \/ StreamOver(r) \/ Read(r) \/ Breaks(r) \/ Leave(r)

LEMMA PcBecomes ==
  ASSUME Typed, NEW r \in Reqs, NEW s, Becomes(r, s)
  PROVE  Pc(r)' = s.pc /\ \A d \in Reqs \ {r} : Pc(d)' = Pc(d)
  BY DEF Typed, TypeOK, Becomes, Pc

LEMMA PcEnds ==
  ASSUME Typed, NEW r \in Reqs, Ends(r)
  PROVE  Pc(r)' = "done" /\ \A d \in Reqs \ {r} : Pc(d)' = Pc(d)
  BY DEF Typed, TypeOK, Ends, Pc, At

LEMMA PcExcept ==
  ASSUME Typed, NEW r \in Reqs, NEW at
  PROVE  /\ [job[r] EXCEPT !.pc = at].pc = at
         /\ At(at).pc = at
         /\ \A status, stale : Returned(status, stale).pc = "respond"
  BY DEF Typed, TypeOK, At, Returned

LEMMA QuietSteps ==
  ASSUME Typed, NEW r \in Reqs, Quiet(r)
  PROVE  /\ UNCHANGED logVars
         /\ \A d \in Reqs \ {r} : Pc(d)' = Pc(d)
         /\ Pc(r)' \in Unlogged => Pc(r) \in Unlogged
         /\ Pc(r) # "done"
         /\ Pc(r) = "insert" => Pc(r)' = "insert"
  <1>j. job[r] \in Job
    BY DEF Typed, TypeOK, Job
  <1>b. ASSUME NEW s, Becomes(r, s), s.pc \notin Unlogged
        PROVE  /\ \A d \in Reqs \ {r} : Pc(d)' = Pc(d)
               /\ Pc(r)' \notin Unlogged
    BY <1>b, PcBecomes
  <1>1. CASE FallBack(r) \/ Forward(r)
    <2>1. Pc(r) \in Unlogged /\ Pc(r) \notin {"done", "insert"} /\ UNCHANGED logVars
      BY <1>1 DEF FallBack, Forward, Unlogged
    <2>2. (\E s : Becomes(r, s)) \/ Ends(r)
      BY <1>1 DEF FallBack, Forward
    <2>3. QED
      BY <2>1, <2>2, PcBecomes, PcEnds
  <1>2. CASE Answered(r)
    <2>1. PICK status : Becomes(r, Returned(status, FALSE))
      BY <1>2 DEF Answered
    <2>2. Returned(status, FALSE).pc \notin Unlogged
      BY PcExcept DEF Unlogged
    <2>3. Pc(r) \notin {"done", "insert"} /\ UNCHANGED logVars
      BY <1>2 DEF Answered
    <2>4. QED
      BY <1>b, <2>1, <2>2, <2>3
  <1>3. CASE Retryable(r)
    <2>1. [job[r] EXCEPT !.pc = "wait", !.attempt = @ + 1, !.last = TRUE].pc = "wait"
      BY <1>j DEF Job
    <2>2. QED
      BY <1>3, <2>1, PcBecomes DEF Retryable, Unlogged
  <1>4. CASE NetworkError(r)
    <2>1. [job[r] EXCEPT !.pc = "wait", !.attempt = @ + 1].pc = "wait"
      BY <1>j DEF Job
    <2>2. At("fail").pc = "fail"
      BY PcExcept
    <2>3. \E s : Becomes(r, s) /\ s.pc \notin Unlogged
      BY <1>4, <2>1, <2>2 DEF NetworkError, Unlogged
    <2>4. Pc(r) \notin {"done", "insert"} /\ UNCHANGED logVars
      BY <1>4 DEF NetworkError
    <2>5. QED
      BY <1>b, <2>3, <2>4
  <1>5. CASE WaitOver(r)
    <2>1. /\ [job[r] EXCEPT !.pc = "try"].pc = "try" /\ At("fail").pc = "fail"
          /\ Returned("retryable", TRUE).pc = "respond"
      BY PcExcept
    <2>2. \E s : Becomes(r, s) /\ s.pc \notin Unlogged
      BY <1>5, <2>1 DEF WaitOver, Unlogged
    <2>3. Pc(r) \notin {"done", "insert"} /\ UNCHANGED logVars
      BY <1>5 DEF WaitOver
    <2>4. QED
      BY <1>b, <2>2, <2>3
  <1>6. CASE Respond(r)
    <2>1. PICK at \in {"stream", "read"} : Becomes(r, [job[r] EXCEPT !.pc = at])
      BY <1>6 DEF Respond
    <2>2. [job[r] EXCEPT !.pc = at].pc \notin Unlogged
      BY PcExcept DEF Unlogged
    <2>3. Pc(r) \notin {"done", "insert"} /\ UNCHANGED logVars
      BY <1>6 DEF Respond
    <2>4. QED
      BY <1>b, <2>1, <2>2, <2>3
  <1>7. CASE Read(r) \/ Breaks(r) \/ StreamOver(r)
    <2>1. \A body : [job[r] EXCEPT !.pc = "record", !.body = body].pc = "record"
      BY <1>j DEF Job
    <2>2. QED
      BY <1>7, <2>1, PcBecomes DEF Read, Breaks, StreamOver, Unlogged
  <1>8. CASE Leave(r)
    BY <1>8 DEF Leave, Pc, logVars
  <1>9. CASE Malformed(r) \/ WaitEnded(r) \/ Fail(r)
    <2>1. Pc(r) \notin {"done", "insert"} /\ UNCHANGED logVars
      BY <1>9 DEF Malformed, WaitEnded, Fail
    <2>2. At("fail").pc = "fail" /\ At("record").pc = "record"
      BY PcExcept
    <2>3. (\E s : Becomes(r, s) /\ s.pc \notin Unlogged) \/ Ends(r)
      BY <1>9, <2>2 DEF Malformed, WaitEnded, Fail, Unlogged
    <2>4. QED
      BY <1>b, <2>1, <2>3, PcEnds DEF Unlogged
  <1>10. QED
    BY <1>1, <1>2, <1>3, <1>4, <1>5, <1>6, <1>7, <1>8, <1>9 DEF Quiet

LEMMA QuietLog ==
  ASSUME Typed, LogInv, NEW r \in Reqs, Quiet(r)
  PROVE  LogInv'
  <1>1. /\ UNCHANGED <<pending, rows, logged, recorded>>
        /\ \A d \in Reqs \ {r} : Pc(d)' = Pc(d)
        /\ Pc(r)' \in Unlogged => Pc(r) \in Unlogged
        /\ r \notin recorded
        /\ Pc(r) = "insert" => Pc(r)' = "insert"
    BY QuietSteps DEF LogInv, ResultInv, logVars
  <1>2. /\ recorded \subseteq Reqs /\ logged \subseteq Reqs \X Keys
        /\ \A row \in rows : row.result # NoReq => row.result \in Reqs
    BY DEF Typed, TypeOK
  <1>3. ResultInv'
    BY <1>1, <1>2 DEF LogInv, ResultInv
  <1>4. \A call \in logged : Pc(call[1])' \notin Unlogged
    BY <1>1, <1>2 DEF LogInv, StartInv
  <1>5. StartInv'
    BY <1>1, <1>4 DEF LogInv, StartInv
  <1>6. QED
    BY <1>3, <1>5 DEF LogInv

\* A request is logged once, so its entry can only replace another's.
LEMMA LogRequestLog ==
  ASSUME Typed, LogInv, NEW r \in Reqs, Dispatch(r) \/ LogUpstream(r)
  PROVE  LogInv'
  <1>1. PICK key \in Keys :
          /\ pending' = [pending EXCEPT ![key] = r]
          /\ logged' = logged \cup {<<r, key>>}
          /\ UNCHANGED <<rows, recorded>>
    BY KeysOf DEF Dispatch, LogUpstream, LogRequest
  <1>2. /\ Pc(r) \in Unlogged
        /\ Pc(r)' \notin Unlogged
        /\ \A d \in Reqs \ {r} : Pc(d)' = Pc(d)
    <2>1. Pc(r) \in Unlogged
      BY DEF Dispatch, LogUpstream, Unlogged
    <2>2. CASE Dispatch(r)
      <3>1. Becomes(r, At("try"))
        BY <2>2 DEF Dispatch
      <3>2. At("try").pc = "try"
        BY PcExcept
      <3>3. QED
        BY <2>1, <3>1, <3>2, PcBecomes DEF Unlogged
    <2>3. CASE LogUpstream(r)
      <3>1. Ends(r)
        BY <2>3 DEF LogUpstream
      <3>2. QED
        BY <2>1, <3>1, PcEnds DEF Unlogged
    <2>4. QED
      BY <2>2, <2>3
  <1>3. /\ recorded \subseteq Reqs /\ logged \subseteq Reqs \X Keys
        /\ pending \in [Keys -> Reqs \cup {NoReq}]
        /\ rows \subseteq Rows
        /\ r # NoReq
    BY RequestsAssumption DEF Typed, TypeOK, Rows
  <1>4. \A k \in Keys : <<r, k>> \notin logged
    BY <1>2 DEF LogInv, StartInv
  <1>5. \A k \in Keys : k # key => pending'[k] = pending[k]
    BY <1>1, <1>3
  <1>6. pending'[key] = r
    BY <1>1, <1>3
  <1>7. ResultInv'
    <2>1. r \notin recorded
      BY <1>2 DEF LogInv, ResultInv, Unlogged
    <2>2. QED
      BY <1>1, <1>2, <1>3, <2>1 DEF LogInv, ResultInv, Unlogged, Rows
  <1>8. \A k \in Keys : pending'[k] # NoReq => <<pending'[k], k>> \in logged'
    BY <1>1, <1>5, <1>6 DEF LogInv, StartInv
  <1>9. \A row \in rows : row.start # NoReq =>
          /\ \E k \in Keys : <<row.start, k>> \in logged'
          /\ \A k \in Keys : pending'[k] # row.start
    <2> SUFFICES ASSUME NEW row \in rows, row.start # NoReq
                 PROVE  /\ \E k \in Keys : <<row.start, k>> \in logged'
                        /\ \A k \in Keys : pending'[k] # row.start
      OBVIOUS
    <2>1. PICK k \in Keys : <<row.start, k>> \in logged
      BY DEF LogInv, StartInv
    <2>2. row.start # r
      BY <1>4, <2>1
    <2>3. \A l \in Keys : pending[l] # row.start
      BY DEF LogInv, StartInv
    <2>4. \A l \in Keys : pending'[l] # row.start
      BY <1>5, <1>6, <2>2, <2>3
    <2>5. QED
      BY <1>1, <2>1, <2>4
  <1>10. ASSUME NEW call \in logged'
         PROVE  \/ pending'[call[2]] = call[1]
                \/ \E row \in rows : row.start = call[1]
                \/ \E other \in logged' \ {call} : other[2] = call[2]
    <2>1. CASE call = <<r, key>>
      BY <2>1, <1>6
    <2>2. CASE call \in logged /\ call[2] = key
      <3>1. <<r, key>> \in logged' \ {call}
        BY <1>1, <1>4, <2>2
      <3>2. QED
        BY <3>1, <2>2
    <2>3. CASE call \in logged /\ call[2] # key
      <3>1. pending'[call[2]] = pending[call[2]]
        BY <1>3, <1>5, <2>3
      <3>2. QED
        BY <1>1, <2>3, <3>1 DEF LogInv, StartInv
    <2>4. QED
      BY <1>1, <2>1, <2>2, <2>3
  <1>11. \A call \in logged' : Pc(call[1])' \notin Unlogged
    BY <1>1, <1>2, <1>3 DEF LogInv, StartInv
  <1>12. \A call, other \in logged' : call[1] = other[1] => call = other
    BY <1>1, <1>3, <1>4 DEF LogInv, StartInv
  <1>13. StartInv'
    BY <1>1, <1>8, <1>9, <1>10, <1>11, <1>12 DEF LogInv, StartInv
  <1>14. QED
    BY <1>7, <1>13 DEF LogInv

\* Entries that leave the memory for lines of their own.
LEMMA TakeEntries ==
  ASSUME Typed, StartInv, NEW old \in SUBSET Keys, NEW result \in Reqs \cup {NoReq},
         \A k \in old : pending[k] # NoReq,
         pending' = [k \in Keys |-> IF k \in old THEN NoReq ELSE pending[k]],
         rows' = rows \cup {Row(pending[k], result) : k \in old},
         UNCHANGED logged, \A call \in logged : Pc(call[1])' \notin Unlogged
  PROVE  StartInv'
  <1>1. /\ logged \subseteq Reqs \X Keys /\ pending \in [Keys -> Reqs \cup {NoReq}]
        /\ rows \subseteq Rows
    BY DEF Typed, TypeOK, Rows
  <1>2. \A k \in Keys : pending'[k] \in {NoReq, pending[k]}
                        /\ (k \in old => pending'[k] = NoReq)
                        /\ (k \notin old => pending'[k] = pending[k])
    OBVIOUS
  <1>3. \A row \in rows' \ rows : \E k \in old :
          row.start = pending[k] /\ row.result = result /\ row = Row(pending[k], result)
    BY DEF Row
  <1>4. \A k \in Keys, l \in Keys : pending[k] # NoReq /\ pending[k] = pending[l] => k = l
    BY DEF StartInv
  <1>5. \A k \in Keys : pending'[k] # NoReq => <<pending'[k], k>> \in logged
    BY <1>2 DEF StartInv
  <1>6. ASSUME NEW row \in rows', row.start # NoReq
        PROVE  /\ \E k \in Keys : <<row.start, k>> \in logged
               /\ \A k \in Keys : pending'[k] # row.start
    <2>1. CASE row \in rows
      BY <1>2, <1>6, <2>1 DEF StartInv
    <2>2. CASE row \notin rows
      <3>1. PICK k \in old : row.start = pending[k]
        BY <1>3, <2>2
      <3>2. <<row.start, k>> \in logged
        BY <1>6, <3>1 DEF StartInv
      <3>3. \A l \in Keys : pending'[l] # row.start
        BY <1>2, <1>4, <1>6, <3>1
      <3>4. QED
        BY <3>2, <3>3
    <2>3. QED
      BY <2>1, <2>2
  <1>7. ASSUME NEW row \in rows', NEW other \in rows',
               row.start # NoReq, row.start = other.start
        PROVE  row = other
    <2>1. CASE row \in rows /\ other \in rows
      BY <1>7, <2>1 DEF StartInv
    <2>2. CASE row \notin rows /\ other \notin rows
      BY <1>3, <1>4, <1>7, <2>2
    <2>3. CASE row \in rows /\ other \notin rows
      BY <1>3, <1>7, <2>3 DEF StartInv
    <2>4. CASE row \notin rows /\ other \in rows
      BY <1>3, <1>7, <2>4 DEF StartInv
    <2>5. QED
      BY <2>1, <2>2, <2>3, <2>4
  <1>8. ASSUME NEW call \in logged
        PROVE  \/ pending'[call[2]] = call[1]
               \/ \E row \in rows' : row.start = call[1]
               \/ \E other \in logged \ {call} : other[2] = call[2]
    <2>1. CASE pending[call[2]] = call[1] /\ call[2] \in old
      <3>1. Row(pending[call[2]], result) \in rows'
        BY <2>1
      <3>2. QED
        BY <2>1, <3>1 DEF Row
    <2>2. CASE pending[call[2]] = call[1] /\ call[2] \notin old
      BY <1>1, <1>2, <2>2
    <2>3. CASE pending[call[2]] # call[1]
      BY <2>3 DEF StartInv
    <2>4. QED
      BY <2>1, <2>2, <2>3
  <1>9. QED
    BY <1>5, <1>6, <1>7, <1>8 DEF StartInv

\* An insert changes no line's start and no line's result.
LEMMA InsertStarts ==
  ASSUME Typed, StartInv, NEW row, Insert(row), UNCHANGED <<pending, logged>>,
         \A call \in logged : Pc(call[1])' \notin Unlogged
  PROVE  StartInv'
  <1>1. PICK at \in {"written", "refused"} :
          rows' = (rows \ {row}) \cup {[row EXCEPT !.at = at]}
    BY DEF Insert
  <1> DEFINE new == [row EXCEPT !.at = at]
  <1>2. row \in rows /\ new.start = row.start
    BY DEF Insert, Typed, TypeOK
  <1> HIDE DEF new
  <1>3. rows' = (rows \ {row}) \cup {new}
    BY <1>1 DEF new
  <1>4. \A line \in rows' : \E old \in rows :
          line.start = old.start /\ (line = old \/ (line = new /\ old = row))
    BY <1>2, <1>3, Zenon
  <1>5. \A line \in rows' : line.start # NoReq =>
          /\ \E k \in Keys : <<line.start, k>> \in logged
          /\ \A k \in Keys : pending[k] # line.start
    BY <1>4 DEF StartInv
  <1>6. ASSUME NEW line \in rows', NEW other \in rows',
               line.start # NoReq, line.start = other.start
        PROVE  line = other
    <2>1. \A old \in rows : old.start = row.start /\ row.start # NoReq => old = row
      BY <1>2 DEF StartInv
    <2>2. CASE line \in rows /\ other \in rows
      BY <1>6, <2>2 DEF StartInv
    <2>3. CASE line = new \/ other = new
      BY <1>2, <1>3, <1>6, <2>1, <2>3
    <2>4. QED
      BY <1>3, <2>2, <2>3
  <1>7. \A call \in logged : (\E line \in rows : line.start = call[1])
                            => \E line \in rows' : line.start = call[1]
    BY <1>2, <1>3
  <1>8. QED
    BY <1>5, <1>6, <1>7 DEF StartInv

LEMMA FlushLog ==
  ASSUME Typed, LogInv, FlushPending
  PROVE  LogInv'
  <1>1. PICK old \in SUBSET {k \in Keys : pending[k] # NoReq} :
          /\ pending' = [k \in Keys |-> IF k \in old THEN NoReq ELSE pending[k]]
          /\ rows' = rows \cup {Row(pending[k], NoReq) : k \in old}
    BY DEF FlushPending
  <1>2. \A r : Pc(r)' = Pc(r)
    BY DEF FlushPending, requestVars, Pc
  <1>3. UNCHANGED <<logged, recorded>> /\ old \in SUBSET Keys
    BY DEF FlushPending
  <1>4. \A call \in logged : Pc(call[1])' \notin Unlogged
    BY <1>2 DEF LogInv, StartInv
  <1>5. StartInv'
    BY <1>1, <1>3, <1>4, TakeEntries DEF LogInv
  <1>6. \A row \in rows' \ rows : row.result = NoReq
    BY <1>1 DEF Row
  <1>7. rows \subseteq rows'
    BY <1>1
  <1>8. ResultInv'
    BY <1>2, <1>3, <1>6, <1>7 DEF LogInv, ResultInv
  <1>9. QED
    BY <1>5, <1>8 DEF LogInv

LEMMA InsertFlushedLog ==
  ASSUME Typed, LogInv, InsertFlushed
  PROVE  LogInv'
  <1>1. PICK row \in rows : row.result = NoReq /\ Insert(row)
    BY DEF InsertFlushed, Flushing
  <1>2. \A r : Pc(r)' = Pc(r)
    BY DEF InsertFlushed, requestVars, Pc
  <1>3. UNCHANGED <<pending, logged, recorded>>
    BY DEF InsertFlushed
  <1>4. StartInv'
    BY <1>1, <1>2, <1>3, InsertStarts DEF LogInv, StartInv
  <1>5. PICK at \in {"written", "refused"} :
          rows' = (rows \ {row}) \cup {[row EXCEPT !.at = at]}
    BY <1>1 DEF Insert
  <1>6. [row EXCEPT !.at = at].result = NoReq
    BY <1>1 DEF Typed, TypeOK
  <1>7. ResultInv'
    <2>1. \A line \in rows' : line.result # NoReq => line \in rows
      BY <1>5, <1>6
    <2>2. \A r \in recorded : \A line \in rows : line.result = r => line \in rows'
      <3>1. NoReq \notin recorded
        BY RequestsAssumption DEF Typed, TypeOK
      <3>2. QED
        BY <1>1, <1>5, <3>1
    <2>3. QED
      BY <1>2, <1>3, <2>1, <2>2 DEF LogInv, ResultInv
  <1>8. QED
    BY <1>4, <1>7 DEF LogInv

\* A result takes an entry to its insert, or goes there alone.
LEMMA RecordLog ==
  ASSUME Typed, LogInv, NEW r \in Reqs, Record(r)
  PROVE  LogInv'
  <1>1. /\ Pc(r) = "record" /\ Pc(r)' = "insert"
        /\ \A d \in Reqs \ {r} : Pc(d)' = Pc(d)
        /\ UNCHANGED <<logged, recorded>>
    BY PcBecomes, PcExcept DEF Record, RecordResult, ToInsert
  <1>2. /\ recorded \subseteq Reqs /\ logged \subseteq Reqs \X Keys
        /\ r # NoReq /\ pending \in [Keys -> Reqs \cup {NoReq}]
        /\ \A row \in rows : row.result # NoReq => row.result \in Reqs
    BY RequestsAssumption DEF Typed, TypeOK
  <1>3. \A call \in logged : Pc(call[1])' \notin Unlogged
    BY <1>1, <1>2 DEF LogInv, StartInv, Unlogged
  <1>4. r \notin recorded
    BY <1>1 DEF LogInv, ResultInv
  <1>5. \E start : rows' = rows \cup {Row(start, r)}
    BY DEF Record, RecordResult
  <1>6. ResultInv'
    <2>1. PICK start : rows' = rows \cup {Row(start, r)}
      BY <1>5
    <2>2. /\ Row(start, r).result = r /\ Row(start, r).at = "taken"
          /\ \A row \in rows : row.result # r
      BY <1>1, <1>2, <1>4 DEF Row, LogInv, ResultInv
    <2>3. QED
      BY <1>1, <1>2, <2>1, <2>2 DEF LogInv, ResultInv
  <1>7. StartInv'
    <2>1. CASE \E k \in Waiting(Reported(r)) :
                 /\ pending' = [pending EXCEPT ![k] = NoReq]
                 /\ rows' = rows \cup {Row(pending[k], r)}
      <3>1. PICK k \in Keys : /\ pending[k] # NoReq
                              /\ pending' = [pending EXCEPT ![k] = NoReq]
                              /\ rows' = rows \cup {Row(pending[k], r)}
        BY <2>1 DEF Waiting
      <3>2. pending' = [l \in Keys |-> IF l \in {k} THEN NoReq ELSE pending[l]]
        BY <1>2, <3>1
      <3>3. rows' = rows \cup {Row(pending[l], r) : l \in {k}}
        BY <3>1
      <3>4. QED
        BY <1>1, <1>3, <3>1, <3>2, <3>3, TakeEntries DEF LogInv
    <2>2. CASE rows' = rows \cup {Row(NoReq, r)} /\ UNCHANGED pending
      <3>1. Row(NoReq, r).start = NoReq
        BY DEF Row
      <3>2. QED
        BY <1>1, <1>3, <2>2, <3>1 DEF LogInv, StartInv
    <2>3. QED
      BY <2>1, <2>2 DEF Record, RecordResult
  <1>8. QED
    BY <1>6, <1>7 DEF LogInv

\* The insert of a result ends its request.
LEMMA InsertResultLog ==
  ASSUME Typed, LogInv, NEW r \in Reqs, InsertResult(r)
  PROVE  LogInv'
  <1>1. PICK row \in rows : row.result = r /\ Insert(row)
    BY DEF InsertResult
  <1>2. /\ Pc(r) = "insert" /\ Pc(r)' = "done"
        /\ \A d \in Reqs \ {r} : Pc(d)' = Pc(d)
        /\ recorded' = recorded \cup {r} /\ UNCHANGED <<pending, logged>>
    BY PcEnds DEF InsertResult, Recorded
  <1>3. /\ recorded \subseteq Reqs /\ logged \subseteq Reqs \X Keys /\ r # NoReq
        /\ \A line \in rows : line.result # NoReq => line.result \in Reqs
    BY RequestsAssumption DEF Typed, TypeOK
  <1>4. \A call \in logged : Pc(call[1])' \notin Unlogged
    BY <1>2, <1>3 DEF LogInv, StartInv, Unlogged
  <1>5. StartInv'
    BY <1>1, <1>2, <1>4, InsertStarts DEF LogInv
  <1>6. PICK at \in {"written", "refused"} :
          rows' = (rows \ {row}) \cup {[row EXCEPT !.at = at]}
    BY <1>1 DEF Insert
  <1> DEFINE new == [row EXCEPT !.at = at]
  <1>7. new.result = r /\ new.at = at /\ at # "taken"
    BY <1>1 DEF Typed, TypeOK
  <1> HIDE DEF new
  <1>8. rows' = (rows \ {row}) \cup {new}
    BY <1>6 DEF new
  <1>9. \A line \in rows : line.result = r => line = row
    BY <1>1, <1>3 DEF LogInv, ResultInv
  <1>10. ResultInv'
    <2>1. \A line \in rows' : line.result # NoReq =>
            \/ line.result \in recorded' /\ line.at # "taken"
            \/ Pc(line.result)' = "insert" /\ line.at = "taken"
      BY <1>2, <1>3, <1>7, <1>8, <1>9 DEF LogInv, ResultInv
    <2>2. \A line, other \in rows' :
            line.result # NoReq /\ line.result = other.result => line = other
      BY <1>7, <1>8, <1>9 DEF LogInv, ResultInv
    <2>3. \A d \in recorded' : \E line \in rows' : line.result = d
      BY <1>1, <1>2, <1>7, <1>8 DEF LogInv, ResultInv
    <2>4. \A d \in recorded' : Pc(d)' = "done"
      BY <1>2, <1>3 DEF LogInv, ResultInv
    <2>5. QED
      BY <2>1, <2>2, <2>3, <2>4 DEF ResultInv
  <1>11. QED
    BY <1>5, <1>10 DEF LogInv

LEMMA NextLog == Typed /\ LogInv /\ [Next]_vars => LogInv'
  <1> SUFFICES ASSUME Typed, LogInv, [Next]_vars PROVE LogInv'
    OBVIOUS
  <1>1. ASSUME NEW r \in Reqs, Quiet(r) PROVE LogInv'
    BY <1>1, QuietLog
  <1>2. ASSUME NEW r \in Reqs, Dispatch(r) \/ LogUpstream(r) PROVE LogInv'
    BY <1>2, LogRequestLog
  <1>3. ASSUME NEW r \in Reqs, Record(r) \/ InsertResult(r) PROVE LogInv'
    BY <1>3, RecordLog, InsertResultLog
  <1>4. ASSUME FlushPending \/ InsertFlushed PROVE LogInv'
    BY <1>4, FlushLog, InsertFlushedLog
  <1>5. ASSUME UNCHANGED vars PROVE LogInv'
    BY <1>5 DEF LogInv, StartInv, ResultInv, Pc, vars, requestVars, logVars
  <1>6. QED
    BY <1>1, <1>2, <1>3, <1>4, <1>5 DEF Next, OwnStep, Quiet

LEMMA Sizes == Cardinality({}) = 0 /\ \A x : Cardinality({x}) = 1
  BY FS_EmptySet, FS_Singleton

\* The start of a logged request is in one place, the memory or what was taken
\* from there for one insert, and in none only when another request replaced its
\* entry: whatever the order of the results, the flushes and the inserts, and
\* whether the inserts fail.
THEOREM StartKept == Spec => []StartsKept
  <1>1. ASSUME Typed, LogInv PROVE StartsKept
    <2> SUFFICES ASSUME NEW call \in logged
                 PROVE  LET places == Cardinality(Lines(call[1])) + Cardinality(Held(call[1]))
                        IN \/ places = 1
                           \/ /\ places = 0
                              /\ \E other \in logged \ {call} : other[2] = call[2]
      BY DEF StartsKept
    <2>1. /\ call[1] \in Reqs /\ call[2] \in Keys /\ call = <<call[1], call[2]>>
          /\ call[1] # NoReq
      BY <1>1, RequestsAssumption DEF Typed, TypeOK
    <2>2. CASE pending[call[2]] = call[1]
      <3>1. Held(call[1]) = {call[2]}
        BY <1>1, <2>1, <2>2 DEF Held, LogInv, StartInv
      <3>2. Lines(call[1]) = {}
        BY <1>1, <2>1, <2>2 DEF Lines, LogInv, StartInv
      <3>3. Cardinality(Held(call[1])) = 1
        BY <3>1, Sizes, Zenon
      <3>4. Cardinality(Lines(call[1])) = 0
        BY <3>2, Sizes, Zenon
      <3>5. QED
        BY <3>3, <3>4
    <2>3. CASE \E row \in rows : row.start = call[1]
      <3>1. PICK row \in rows : row.start = call[1]
        BY <2>3
      <3>2. Lines(call[1]) = {row}
        BY <1>1, <2>1, <3>1 DEF Lines, LogInv, StartInv
      <3>3. Held(call[1]) = {}
        BY <1>1, <2>1, <3>1 DEF Held, LogInv, StartInv
      <3>4. QED
        BY <3>2, <3>3, Sizes
    <2>4. CASE /\ pending[call[2]] # call[1]
               /\ ~ \E row \in rows : row.start = call[1]
      <3>1. Held(call[1]) = {}
        BY <1>1, <2>1, <2>4 DEF Held, LogInv, StartInv
      <3>2. Lines(call[1]) = {}
        BY <2>4 DEF Lines
      <3>3. Cardinality(Held(call[1])) = 0 /\ Cardinality(Lines(call[1])) = 0
        BY <3>1, <3>2, Sizes, Zenon
      <3>4. \E other \in logged \ {call} : other[2] = call[2]
        BY <1>1, <2>4 DEF LogInv, StartInv
      <3>5. QED
        BY <3>3, <3>4
    <2>5. QED
      BY <2>2, <2>3, <2>4
  <1>2. QED
    BY <1>1, InitTyped, NextTyped, InitLog, NextLog, PTL DEF Spec

\* What a handler reported went into one insert, which has been made and may have
\* failed: it is never counted twice, and not at all only when the database
\* refused it.
THEOREM ResultCounted == Spec => []ResultsOnce
  <1>1. ASSUME Typed, LogInv PROVE ResultsOnce
    <2> SUFFICES ASSUME NEW r \in recorded
                 PROVE  Cardinality(Results(r)) = 1 /\ \A row \in Results(r) : row.at # "taken"
      BY DEF ResultsOnce
    <2>1. r # NoReq
      BY <1>1, RequestsAssumption DEF Typed, TypeOK
    <2>2. PICK row \in rows : row.result = r
      BY <1>1 DEF LogInv, ResultInv
    <2>3. Results(r) = {row}
      BY <1>1, <2>1, <2>2 DEF Results, LogInv, ResultInv
    <2>4. row.at # "taken"
      BY <1>1, <2>1, <2>2 DEF LogInv, ResultInv
    <2>5. QED
      BY <2>3, <2>4, Sizes
  <1>2. QED
    BY <1>1, InitTyped, NextTyped, InitLog, NextLog, PTL DEF Spec

==============================================================================
