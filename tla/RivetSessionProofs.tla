------------------------- MODULE RivetSessionProofs -------------------------
(***************************************************************************)
(* Theorems about RivetSession, for every value of its constants.          *)
(***************************************************************************)
EXTENDS RivetSession, SequenceTheorems, TLAPS

(***************************************************************************)
(* Types.                                                                  *)
(***************************************************************************)
LEMMA TurnTypes ==
  /\ \A m \in Msgs : UserTurn(m) \in Turn /\ TextTurn(m) \in Turn
  /\ \A m \in Msgs \cup {NoMsg} : TextTurn(m) \in Turn
  BY SessionAssumption DEF Turn, UserTurn, TextTurn

LEMMA RunTypes ==
  ASSUME TypeOK, NEW r \in Runs
  PROVE  /\ \A n \in 0 .. MaxCalls : AssistantTurn(r, n) \in Turn
         /\ ResultsTurn(r) \in Turn
  BY SessionAssumption
  DEF TypeOK, RunRecord, Turn, AssistantTurn, ResultsTurn, Runs

LEMMA NoRunType == NoRun \in RunRecord
  BY SessionAssumption DEF NoRun, RunRecord, PC, Turn

LEMMA TypeInit == Init => TypeOK
  <1> SUFFICES ASSUME Init PROVE TypeOK
    OBVIOUS
  <1>1. history \in Seq(Turn) /\ thread \in Seq(Turn) /\ stored \in Seq(Turn)
    BY SessionAssumption DEF Init
  <1>2. run \in [Runs -> RunRecord]
    BY NoRunType DEF Init
  <1>3. chan \in [ToolIds -> {"absent", "empty", "full"}]
    BY DEF Init
  <1>4. inflightCancel \in 0 .. MaxRuns /\ runs \in 0 .. MaxRuns
        /\ frames \in 0 .. MaxFrames
    BY SessionAssumption DEF Init
  <1>5. QED
    BY <1>1, <1>2, <1>3, <1>4 DEF Init, TypeOK

LEMMA FrameTypes ==
  ASSUME TypeOK, NEW kind, Frame(kind)
  PROVE  frames' \in 0 .. MaxFrames
  BY SessionAssumption DEF TypeOK, Frame

LEMMA PromptTypes ==
  ASSUME TypeOK, NEW m \in Msgs \cup {NoMsg}, Prompt(m)
  PROVE  /\ run' \in [Runs -> RunRecord] /\ runs' \in 0 .. MaxRuns
         /\ inflight' \in BOOLEAN /\ ui' \in {"sent", "closed"}
  <1>1. CASE CanRun
    <2>1. runs + 1 \in Runs
      BY <1>1, SessionAssumption DEF Prompt, TypeOK, Runs
    <2>2. run' \in [Runs -> RunRecord]
      <3> DEFINE q == [run[runs + 1] EXCEPT !.pc = "spawned", !.prompt = m]
      <3>1. q \in RunRecord
        BY <2>1 DEF TypeOK, RunRecord, PC
      <3>2. run' = [run EXCEPT ![runs + 1] = q]
        BY <1>1, <2>1 DEF Prompt, TypeOK
      <3>3. QED
        BY <2>1, <3>1, <3>2 DEF TypeOK
    <2>3. runs' \in 0 .. MaxRuns
      BY <1>1, <2>1 DEF Prompt, Runs
    <2>4. QED
      BY <1>1, <2>2, <2>3 DEF Prompt, Show
  <1>2. CASE ~CanRun
    BY <1>2 DEF Prompt, Show, TypeOK
  <1>3. QED
    BY <1>1, <1>2

LEMMA ClientTypes == TypeOK /\ Client => TypeOK'
  <1> SUFFICES ASSUME TypeOK, Client PROVE TypeOK'
    OBVIOUS
  <1>1. ASSUME NEW m \in Msgs, ClientAppend(m) PROVE TypeOK'
    <2>1. frames' \in 0 .. MaxFrames
      BY <1>1, FrameTypes DEF ClientAppend
    <2>2. CASE m = lastMsgID
      BY <1>1, <2>1, <2>2 DEF ClientAppend, TypeOK
    <2>3. CASE m # lastMsgID
      <3>1. history' \in Seq(Turn)
        <4>1. history' = Append(history, UserTurn(m))
          BY <1>1, <2>3 DEF ClientAppend
        <4>2. QED
          BY <4>1, TurnTypes DEF TypeOK
      <3>2. Prompt(m)
        BY <1>1, <2>3 DEF ClientAppend
      <3>3. QED
        BY <1>1, <2>1, <2>3, <3>1, <3>2, PromptTypes
        DEF ClientAppend, Meddles, TypeOK
    <2>4. QED
      BY <2>2, <2>3
  <1>2. CASE ClientAppendPassthrough
    BY <1>2, FrameTypes DEF ClientAppendPassthrough, auxVars, TypeOK
  <1>3. CASE ClientRetry
    <2>1. PICK k \in 0 .. Len(history) :
            /\ TrimPoint(k)
            /\ history' = SubSeq(history, 1, k)
            /\ IF k = 0 THEN UNCHANGED <<run, runs, inflight, ui>>
                        ELSE Prompt(history[k].msg)
      BY <1>3 DEF ClientRetry
    <2>2. history' \in Seq(Turn)
      BY <2>1, SubSeqProperties DEF TypeOK
    <2>3. /\ run' \in [Runs -> RunRecord] /\ runs' \in 0 .. MaxRuns
          /\ inflight' \in BOOLEAN /\ ui' \in {"idle", "sent", "busy", "closed"}
      <3>1. CASE k = 0
        BY <2>1, <3>1 DEF TypeOK
      <3>2. CASE k # 0
        <4>1. history[k] \in Turn
          BY <2>1, <3>2 DEF TypeOK
        <4>2. history[k].msg \in Msgs \cup {NoMsg}
          BY <4>1 DEF Turn
        <4>3. QED
          BY <2>1, <3>2, <4>2, PromptTypes
      <3>3. QED
        BY <3>1, <3>2
    <2>4. QED
      BY <1>3, <2>2, <2>3, FrameTypes DEF ClientRetry, Meddles, TypeOK
  <1>4. ASSUME NEW m \in Msgs, ClientEdit(m) PROVE TypeOK'
    <2>1. PICK k \in 0 .. Len(history) :
            history' = IF k = 0 THEN <<>>
                       ELSE Append(SubSeq(history, 1, k - 1), TextTurn(m))
      BY <1>4 DEF ClientEdit
    <2>2. history' \in Seq(Turn)
      <3>1. CASE k = 0
        BY <2>1, <3>1
      <3>2. CASE k # 0
        <4>1. SubSeq(history, 1, k - 1) \in Seq(Turn)
          BY <3>2, SubSeqProperties DEF TypeOK
        <4>2. QED
          BY <2>1, <3>2, <4>1, TurnTypes
      <3>3. QED
        BY <3>1, <3>2
    <2>3. Prompt(m) /\ Frame("edit")
      BY <1>4 DEF ClientEdit
    <2>4. QED
      BY <1>4, <2>2, <2>3, FrameTypes, PromptTypes
      DEF ClientEdit, Meddles, TypeOK
  <1>5. CASE ClientCancel
    <2>1. run' \in [Runs -> RunRecord]
      <3>1. CASE inflightCancel = 0
        BY <1>5, <3>1 DEF ClientCancel, TypeOK
      <3>2. CASE inflightCancel # 0
        <4>1. inflightCancel \in Runs
          BY <3>2, SessionAssumption DEF TypeOK, Runs
        <4>2. run[inflightCancel] \in RunRecord
          BY <4>1 DEF TypeOK
        <4>3. [run[inflightCancel] EXCEPT !.cancelled = TRUE] \in RunRecord
          BY <4>2 DEF RunRecord
        <4>4. run' = [run EXCEPT ![inflightCancel] =
                        [run[inflightCancel] EXCEPT !.cancelled = TRUE]]
          BY <1>5, <3>2, <4>1 DEF ClientCancel, TypeOK
        <4>5. QED
          BY <4>1, <4>3, <4>4 DEF TypeOK
      <3>3. QED
        BY <3>1, <3>2
    <2>2. frames' \in 0 .. MaxFrames
      BY <1>5, FrameTypes DEF ClientCancel
    <2>3. inflightCancel' \in 0 .. MaxRuns
      BY <1>5, SessionAssumption DEF ClientCancel
    <2>4. QED
      BY <1>5, <2>1, <2>2, <2>3 DEF ClientCancel, envVars, TypeOK
  <1>6. ASSUME NEW t \in ToolIds, ToolResult(t) PROVE TypeOK'
    BY <1>6 DEF ToolResult, envVars, auxVars, TypeOK
  <1>7. CASE Disconnect
    BY <1>7, FrameTypes DEF Disconnect, sessionVars, auxVars, TypeOK
  <1>8. CASE UpstreamFinish
    BY <1>8 DEF UpstreamFinish, sessionVars, auxVars, TypeOK
  <1>9. QED
    BY <1>1, <1>2, <1>3, <1>4, <1>5, <1>6, <1>7, <1>8 DEF Client

\* The tool that a run waits for is one of its calls: what makes TypeOK
\* inductive.
CallsInOrder == \A r \in Runs : run[r].call <= run[r].calls

LEMMA BecomeTypes ==
  ASSUME TypeOK, NEW r \in Runs, NEW rec \in RunRecord,
         run' = [run EXCEPT ![r] = rec]
  PROVE  run' \in [Runs -> RunRecord]
  BY DEF TypeOK

LEMMA GoTypes ==
  ASSUME TypeOK, NEW r \in Runs, NEW pc \in PC, Go(r, pc)
  PROVE  run' \in [Runs -> RunRecord]
  <1>1. run \in [Runs -> RunRecord] /\ run[r] \in RunRecord
    BY DEF TypeOK
  <1>2. [run[r] EXCEPT !.pc = pc] \in RunRecord
    BY <1>1 DEF RunRecord
  <1>3. QED
    BY <1>1, <1>2 DEF Go

\* Appending a turn keeps the history a history.
LEMMA HistoryTypes ==
  ASSUME TypeOK, NEW turn \in Turn, history' = Append(history, turn)
  PROVE  history' \in Seq(Turn)
  BY DEF TypeOK

\* Setting a channel keeps the table of channels a table.
LEMMA ToolTypes ==
  ASSUME TypeOK, NEW r \in Runs, NEW n \in Nat
  PROVE  /\ [chan EXCEPT ![Tool(r)] = "absent"]
              \in [ToolIds -> {"absent", "empty", "full"}]
         /\ [chan EXCEPT ![<<r, run[r].round, n>>] = "empty"]
              \in [ToolIds -> {"absent", "empty", "full"}]
         /\ [chan EXCEPT ![Tool(r)] = "absent",
                         ![<<r, run[r].round, n>>] = "empty"]
              \in [ToolIds -> {"absent", "empty", "full"}]
  BY DEF TypeOK

\* The steps of a run, with the four providers' answers taken together.
LEMMA StepCases ==
  ASSUME NEW r, RunStep(r)
  PROVE  \/ RunStart(r) \/ RunPrepare(r)
         \/ HydrateSkip(r) \/ HydrateFails(r) \/ HydrateOk(r)
         \/ (\E p \in Providers : Dispatch(r, p)) \/ DispatchFails(r)
         \/ RequestAccepted(r) \/ RequestFails(r) \/ GeminiFallback(r)
         \/ \E n, calls \in 0 .. MaxCalls :
              At(r, "stream") /\ AppendAnswer(r, n, calls)
         \/ Copy(r) \/ StopRound(r)
         \/ FirstTool(r) \/ NextTool(r) \/ LastTool(r) \/ ToolAbandoned(r)
         \/ NextRound(r) \/ RoundsUsedUp(r)
         \/ ClearCancel(r) \/ MarkIdle(r)
  <1>1. ASSUME NEW n \in 0 .. MaxCalls, NEW ended \in BOOLEAN,
               AnthropicAnswer(r, n, ended)
        PROVE  \E calls \in 0 .. MaxCalls :
                 At(r, "stream") /\ AppendAnswer(r, n, calls)
    <2>1. (IF ended THEN 0 ELSE n) \in 0 .. MaxCalls
      BY SessionAssumption
    <2>2. At(r, "stream") /\ AppendAnswer(r, n, IF ended THEN 0 ELSE n)
      BY <1>1 DEF AnthropicAnswer, Streams
    <2>3. QED
      BY <2>1, <2>2
  <1>2. ASSUME NEW n \in 0 .. MaxCalls,
               GeminiAnswer(r, n) \/ OpenAIAnswer(r, n) \/ CustomAnswer(r, n)
        PROVE  At(r, "stream") /\ AppendAnswer(r, n, n)
    BY <1>2 DEF GeminiAnswer, OpenAIAnswer, CustomAnswer, Streams
  <1>3. QED
    BY <1>1, <1>2 DEF RunStep

LEMMA StepTypes ==
  ASSUME TypeOK, CallsInOrder, NEW r \in Runs, RunStep(r)
  PROVE  TypeOK'
  <1> USE DEF sessionVars, envVars, auxVars
  <1>a. run[r] \in RunRecord
    BY DEF TypeOK
  <1>b. 0 \in 0 .. MaxCalls /\ 1 \in 0 .. MaxRounds /\ <<>> \in Seq(Turn)
    BY SessionAssumption
  <1>1. CASE RunStart(r)
    <2>1. run' \in [Runs -> RunRecord]
      BY <1>1, GoTypes DEF RunStart, PC
    <2>2. inflightCancel' \in 0 .. MaxRuns
      BY <1>1, SessionAssumption DEF RunStart, Runs
    <2>3. QED
      BY <1>1, <2>1, <2>2 DEF RunStart, TypeOK
  <1>2. CASE RunPrepare(r)
    <2>1. Len(history) \in Nat /\ (~hydrated) \in BOOLEAN
      BY DEF TypeOK
    <2>2. [run[r] EXCEPT !.pc = "cold", !.needsHydrate = ~hydrated,
                         !.priorLocalLen = Len(history)] \in RunRecord
      BY <1>a, <2>1 DEF RunRecord, PC
    <2>3. run' \in [Runs -> RunRecord]
      BY <1>2, <2>2, BecomeTypes DEF RunPrepare
    <2>4. QED
      BY <1>2, <2>3 DEF RunPrepare, TypeOK
  <1>3. CASE HydrateSkip(r)
    <2>1. run' \in [Runs -> RunRecord]
      BY <1>3, GoTypes DEF HydrateSkip, PC
    <2>2. QED
      BY <1>3, <2>1 DEF HydrateSkip, TypeOK
  <1>4. CASE HydrateFails(r)
    <2>1. run' \in [Runs -> RunRecord]
      BY <1>4, GoTypes DEF HydrateFails, PC
    <2>2. QED
      BY <1>4, <2>1 DEF HydrateFails, TypeOK
  <1>5. CASE HydrateOk(r)
    <2>1. run' \in [Runs -> RunRecord]
      BY <1>5, GoTypes DEF HydrateOk, PC
    <2>2. TextTurn(run[r].prompt) \in Turn
      BY TurnTypes DEF TypeOK, RunRecord
    <2>3. history' \in Seq(Turn)
      <3>1. Append(stored, TextTurn(run[r].prompt)) \in Seq(Turn)
        BY <2>2 DEF TypeOK
      <3>2. QED
        BY <1>5, <3>1 DEF HydrateOk, TypeOK
    <2>4. QED
      BY <1>5, <2>1, <2>3 DEF HydrateOk, TypeOK
  <1>6. ASSUME NEW p \in Providers, Dispatch(r, p) PROVE TypeOK'
    <2>1. [run[r] EXCEPT !.pc = "request", !.round = 1, !.provider = p]
            \in RunRecord
      BY <1>a, <1>b, SessionAssumption DEF RunRecord, PC
    <2>2. run' \in [Runs -> RunRecord]
      BY <1>6, <2>1, BecomeTypes DEF Dispatch
    <2>3. QED
      BY <1>6, <2>2 DEF Dispatch, TypeOK
  <1>7. CASE DispatchFails(r)
    <2>1. run' \in [Runs -> RunRecord]
      BY <1>7, GoTypes DEF DispatchFails, Fail, PC
    <2>2. QED
      BY <1>7, <2>1 DEF DispatchFails, Fail, TypeOK
  <1>8. CASE RequestAccepted(r)
    <2>1. run' \in [Runs -> RunRecord]
      BY <1>8, GoTypes DEF RequestAccepted, PC
    <2>2. QED
      BY <1>8, <2>1 DEF RequestAccepted, Show, TypeOK
  <1>9. CASE RequestFails(r)
    <2>1. run' \in [Runs -> RunRecord]
      BY <1>9, GoTypes DEF RequestFails, Fail, PC
    <2>2. QED
      BY <1>9, <2>1 DEF RequestFails, Fail, TypeOK
  <1>10. ASSUME NEW n \in 0 .. MaxCalls, NEW calls \in 0 .. MaxCalls,
                AppendAnswer(r, n, calls)
         PROVE  TypeOK'
    <2>1. history' \in Seq(Turn)
      BY <1>10, RunTypes, HistoryTypes DEF AppendAnswer
    <2>2. [run[r] EXCEPT !.pc = "copy", !.calls = calls, !.call = 0]
            \in RunRecord
      BY <1>a, <1>b DEF RunRecord, PC
    <2>3. run' \in [Runs -> RunRecord]
      BY <1>10, <2>2, BecomeTypes DEF AppendAnswer
    <2>4. spoiled' \in BOOLEAN
      BY <1>10 DEF AppendAnswer
    <2>5. QED
      BY <1>10, <2>1, <2>3, <2>4 DEF AppendAnswer, TypeOK
  <1>11. CASE Copy(r)
    <2>1. [run[r] EXCEPT !.pc = "publish", !.copied = history] \in RunRecord
      BY <1>a DEF TypeOK, RunRecord, PC
    <2>2. run' \in [Runs -> RunRecord]
      BY <1>11, <2>1, BecomeTypes DEF Copy
    <2>3. QED
      BY <1>11, <2>2 DEF Copy, TypeOK
  <1>12. run[r].copied \in Seq(Turn)
    BY DEF TypeOK, RunRecord
  <1>13. ASSUME NEW pc \in PC, Publish(r, pc)
         PROVE  run' \in [Runs -> RunRecord] /\ thread' \in Seq(Turn)
    <2>1. [run[r] EXCEPT !.pc = pc, !.copied = <<>>] \in RunRecord
      BY <1>a, <1>b DEF RunRecord
    <2>2. run' \in [Runs -> RunRecord]
      BY <1>13, <2>1, BecomeTypes DEF Publish
    <2>3. QED
      BY <1>12, <1>13, <2>2 DEF Publish
  <1>14. CASE StopRound(r)
    BY <1>13, <1>14 DEF StopRound, Show, TypeOK, PC
  <1>15. CASE RoundsUsedUp(r)
    BY <1>13, <1>15 DEF RoundsUsedUp, TypeOK, PC
  <1>16. CASE FirstTool(r)
    <2>1. 1 \in 0 .. MaxCalls
      BY <1>16, SessionAssumption DEF FirstTool, TypeOK, RunRecord
    <2>2. [run[r] EXCEPT !.pc = "tool", !.call = 1, !.copied = <<>>]
            \in RunRecord
      BY <1>a, <1>b, <2>1 DEF RunRecord, PC
    <2>3. run' \in [Runs -> RunRecord]
      BY <1>16, <2>2, BecomeTypes DEF FirstTool
    <2>4. chan' \in [ToolIds -> {"absent", "empty", "full"}]
      BY <1>16, ToolTypes DEF FirstTool
    <2>5. thread' \in Seq(Turn)
      BY <1>12, <1>16 DEF FirstTool
    <2>6. QED
      BY <1>16, <2>3, <2>4, <2>5 DEF FirstTool, Show, TypeOK
  <1>17. CASE NextTool(r)
    <2>1. run[r].call + 1 \in 0 .. MaxCalls
      <3>1. run[r].call \in 0 .. MaxCalls /\ run[r].calls \in 0 .. MaxCalls
        BY <1>a DEF RunRecord
      <3>2. run[r].call <= run[r].calls /\ run[r].call # run[r].calls
        BY <1>17 DEF NextTool, Collected, CallsInOrder
      <3>3. QED
        BY <3>1, <3>2, SessionAssumption
    <2>2. [run[r] EXCEPT !.call = run[r].call + 1] \in RunRecord
      BY <1>a, <2>1 DEF RunRecord
    <2>3. run' \in [Runs -> RunRecord]
      BY <1>17, <2>2, BecomeTypes DEF NextTool
    <2>4. chan' \in [ToolIds -> {"absent", "empty", "full"}]
      BY <1>17, <2>1, ToolTypes DEF NextTool
    <2>5. QED
      BY <1>17, <2>3, <2>4 DEF NextTool, TypeOK
  <1>18. CASE LastTool(r)
    <2>1. run' \in [Runs -> RunRecord]
      BY <1>18, GoTypes DEF LastTool, PC
    <2>2. history' \in Seq(Turn)
      BY <1>18, RunTypes, HistoryTypes DEF LastTool
    <2>3. chan' \in [ToolIds -> {"absent", "empty", "full"}]
      BY <1>18, ToolTypes DEF LastTool
    <2>4. QED
      BY <1>18, <2>1, <2>2, <2>3 DEF LastTool, TypeOK
  <1>19. CASE ToolAbandoned(r)
    <2>1. run' \in [Runs -> RunRecord]
      BY <1>19, GoTypes DEF ToolAbandoned, Fail, PC
    <2>2. chan' \in [ToolIds -> {"absent", "empty", "full"}]
      BY <1>19, ToolTypes DEF ToolAbandoned
    <2>3. QED
      BY <1>19, <2>1, <2>2 DEF ToolAbandoned, Fail, TypeOK
  <1>20. CASE NextRound(r)
    <2>1. run[r].round + 1 \in 0 .. MaxRounds
      BY <1>20, SessionAssumption DEF NextRound, TypeOK, RunRecord
    <2>2. [run[r] EXCEPT !.pc = "request", !.round = run[r].round + 1,
                         !.calls = 0, !.call = 0, !.copied = <<>>]
            \in RunRecord
      BY <1>a, <1>b, <2>1 DEF RunRecord, PC
    <2>3. run' \in [Runs -> RunRecord]
      BY <1>20, <2>2, BecomeTypes DEF NextRound
    <2>4. thread' \in Seq(Turn)
      BY <1>12, <1>20 DEF NextRound
    <2>5. QED
      BY <1>20, <2>3, <2>4 DEF NextRound, TypeOK
  <1>21. CASE ClearCancel(r)
    <2>1. run' \in [Runs -> RunRecord]
      BY <1>21, GoTypes DEF ClearCancel, PC
    <2>2. inflightCancel' \in 0 .. MaxRuns
      BY <1>21, SessionAssumption DEF ClearCancel
    <2>3. QED
      BY <1>21, <2>1, <2>2 DEF ClearCancel, TypeOK
  <1>22. CASE MarkIdle(r)
    <2>1. [NoRun EXCEPT !.pc = "done"] \in RunRecord
      BY NoRunType DEF RunRecord, PC
    <2>2. run' \in [Runs -> RunRecord]
      BY <1>22, <2>1 DEF MarkIdle, TypeOK
    <2>3. QED
      BY <1>22, <2>2 DEF MarkIdle, TypeOK
  <1>23. CASE GeminiFallback(r)
    <2>1. 2 \in 0 .. MaxRounds /\ "anthropic" \in AllProviders
      BY <1>23, SessionAssumption DEF GeminiFallback, AllProviders
    <2>2. [run[r] EXCEPT !.round = 2, !.provider = "anthropic"] \in RunRecord
      BY <1>a, <2>1 DEF RunRecord
    <2>3. run' \in [Runs -> RunRecord]
      BY <1>23, <2>2, BecomeTypes DEF GeminiFallback
    <2>4. QED
      BY <1>23, <2>3 DEF GeminiFallback, TypeOK
  <1>24. QED
    BY <1>1, <1>2, <1>3, <1>4, <1>5, <1>6, <1>7, <1>8, <1>9, <1>10, <1>11,
       <1>14, <1>15, <1>16, <1>17, <1>18, <1>19, <1>20, <1>21, <1>22,
       <1>23, StepCases

(***************************************************************************)
(* How a step moves the goroutines.                                        *)
(***************************************************************************)
\* No goroutine is started, and none moves (a cancel only marks one).
Unmoved ==
  /\ runs' = runs
  /\ \A q \in Runs :
       /\ run'[q].pc = run[q].pc /\ run'[q].round = run[q].round
       /\ run'[q].calls = run[q].calls /\ run'[q].call = run[q].call

\* A goroutine is started because none was in flight.
Starts ==
  /\ ~inflight /\ inflight'
  /\ runs + 1 \in Runs
  /\ runs' = runs + 1
  /\ \A q \in Runs \ {runs + 1} : run'[q] = run[q]
  /\ \E m : run'[runs + 1] = [run[runs + 1] EXCEPT !.pc = "spawned",
                                                   !.prompt = m]

ClientChange ==
  \/ Unmoved /\ inflight' = inflight /\ cancelUsed' = cancelUsed
  \/ Unmoved /\ ~inflight' /\ cancelUsed'
  \/ Starts /\ cancelUsed' = cancelUsed

LEMMA PromptRuns ==
  ASSUME TypeOK, NEW m, Prompt(m)
  PROVE  Starts \/ (Unmoved /\ inflight' = inflight)
  <1>1. CASE CanRun
    <2>1. runs + 1 \in Runs
      BY <1>1, SessionAssumption DEF Prompt, TypeOK, Runs
    <2>2. run' = [run EXCEPT ![runs + 1] = [run[runs + 1] EXCEPT
                                              !.pc = "spawned", !.prompt = m]]
      BY <1>1 DEF Prompt
    <2>3. \A q \in Runs \ {runs + 1} : run'[q] = run[q]
      BY <2>1, <2>2 DEF TypeOK
    <2>4. run'[runs + 1] = [run[runs + 1] EXCEPT !.pc = "spawned",
                                                 !.prompt = m]
      BY <2>1, <2>2 DEF TypeOK
    <2>5. QED
      BY <1>1, <2>1, <2>3, <2>4 DEF Prompt, CanRun, Starts
  <1>2. CASE ~CanRun
    BY <1>2 DEF Prompt, Unmoved
  <1>3. QED
    BY <1>1, <1>2

LEMMA ClientRuns == TypeOK /\ Client => ClientChange
  <1> SUFFICES ASSUME TypeOK, Client PROVE ClientChange
    OBVIOUS
  <1> USE DEF envVars, auxVars, sessionVars
  <1>1. ASSUME NEW m \in Msgs, ClientAppend(m) PROVE ClientChange
    <2>1. Starts \/ (Unmoved /\ inflight' = inflight)
      <3>1. CASE m = lastMsgID
        BY <1>1, <3>1 DEF ClientAppend, Unmoved
      <3>2. CASE m # lastMsgID
        BY <1>1, <3>2, PromptRuns DEF ClientAppend
      <3>3. QED
        BY <3>1, <3>2
    <2>2. QED
      BY <1>1, <2>1 DEF ClientAppend, ClientChange
  <1>2. CASE ClientAppendPassthrough
    BY <1>2 DEF ClientAppendPassthrough, ClientChange, Unmoved
  <1>3. CASE ClientRetry
    <2>1. Starts \/ (Unmoved /\ inflight' = inflight)
      <3>1. CASE UNCHANGED <<run, runs, inflight, ui>>
        BY <3>1 DEF Unmoved
      <3>2. CASE \E k \in 0 .. Len(history) : Prompt(history[k].msg)
        BY <3>2, PromptRuns
      <3>3. QED
        BY <1>3, <3>1, <3>2 DEF ClientRetry
    <2>2. QED
      BY <1>3, <2>1 DEF ClientRetry, ClientChange
  <1>4. ASSUME NEW m \in Msgs, ClientEdit(m) PROVE ClientChange
    BY <1>4, PromptRuns DEF ClientEdit, ClientChange
  <1>5. CASE ClientCancel
    <2>1. CASE inflightCancel = 0
      BY <1>5, <2>1 DEF ClientCancel, ClientChange, Unmoved
    <2>2. CASE inflightCancel # 0
      <3>1. inflightCancel \in Runs
        BY <2>2, SessionAssumption DEF TypeOK, Runs
      <3>2. \A q \in Runs :
              /\ run'[q].pc = run[q].pc /\ run'[q].round = run[q].round
              /\ run'[q].calls = run[q].calls /\ run'[q].call = run[q].call
        BY <1>5, <2>2, <3>1 DEF ClientCancel, TypeOK, RunRecord
      <3>3. QED
        BY <1>5, <3>2 DEF ClientCancel, ClientChange, Unmoved
    <2>3. QED
      BY <2>1, <2>2
  <1>6. ASSUME NEW t \in ToolIds, ToolResult(t) PROVE ClientChange
    BY <1>6 DEF ToolResult, ClientChange, Unmoved
  <1>7. CASE Disconnect
    BY <1>7 DEF Disconnect, ClientChange, Unmoved
  <1>8. CASE UpstreamFinish
    BY <1>8 DEF UpstreamFinish, ClientChange, Unmoved
  <1>9. QED
    BY <1>1, <1>2, <1>3, <1>4, <1>5, <1>6, <1>7, <1>8 DEF Client

\* A goroutine moves no other one; it drops inflight when it ends, and only
\* then; it leases no more tools than its answer calls.
StepChange(r) ==
  /\ runs' = runs /\ cancelUsed' = cancelUsed
  /\ \A q \in Runs \ {r} : run'[q] = run[q]
  /\ Executing(r)
  /\ \/ run'[r].pc \notin {"none", "done"} /\ inflight' = inflight
     \/ run'[r].pc = "done" /\ ~inflight'
  /\ run[r].call <= run[r].calls => run'[r].call <= run'[r].calls

LEMMA GoChange ==
  ASSUME TypeOK, NEW r \in Runs, NEW pc, Go(r, pc)
  PROVE  /\ \A q \in Runs \ {r} : run'[q] = run[q]
         /\ run'[r] = [run[r] EXCEPT !.pc = pc]
         /\ run'[r].pc = pc /\ run'[r].round = run[r].round
         /\ run'[r].calls = run[r].calls /\ run'[r].call = run[r].call
  BY DEF TypeOK, Go, RunRecord

LEMMA BecomeChange ==
  ASSUME TypeOK, NEW r \in Runs, NEW rec, run' = [run EXCEPT ![r] = rec]
  PROVE  run'[r] = rec /\ \A q \in Runs \ {r} : run'[q] = run[q]
  BY DEF TypeOK

LEMMA GoStep ==
  ASSUME TypeOK, NEW r \in Runs, NEW pc, Executing(r), Go(r, pc),
         pc \notin {"none", "done"},
         runs' = runs, cancelUsed' = cancelUsed, inflight' = inflight
  PROVE  StepChange(r)
  BY GoChange DEF StepChange

LEMMA StepRuns ==
  ASSUME TypeOK, NEW r \in Runs, RunStep(r)
  PROVE  StepChange(r)
  <1> USE DEF envVars, auxVars, sessionVars, At, Executing
  <1>a. run[r] \in RunRecord
    BY DEF TypeOK
  <1>b. /\ run[r].call \in Int /\ run[r].calls \in Int
        /\ run[r].round \in Int /\ run[r].pc \in PC
    BY <1>a DEF RunRecord
  <1>1. CASE RunStart(r)
    <2>1. /\ Executing(r) /\ Go(r, "started") /\ runs' = runs
          /\ cancelUsed' = cancelUsed /\ inflight' = inflight
      BY <1>1 DEF RunStart
    <2>2. QED
      BY <2>1, GoStep
  <1>2. CASE RunPrepare(r)
    <2>1. run'[r] = [run[r] EXCEPT !.pc = "cold", !.needsHydrate = ~hydrated,
                                   !.priorLocalLen = Len(history)]
      BY <1>2, BecomeChange DEF RunPrepare
    <2>2. /\ run'[r].pc = "cold" /\ run'[r].call = run[r].call
          /\ run'[r].calls = run[r].calls
      BY <1>a, <2>1 DEF RunRecord
    <2>3. \A q \in Runs \ {r} : run'[q] = run[q]
      BY <1>2, BecomeChange DEF RunPrepare
    <2>4. QED
      BY <1>2, <2>2, <2>3 DEF StepChange, RunPrepare
  <1>3. CASE HydrateSkip(r)
    <2>1. /\ Executing(r) /\ Go(r, "warm") /\ runs' = runs
          /\ cancelUsed' = cancelUsed /\ inflight' = inflight
      BY <1>3 DEF HydrateSkip
    <2>2. QED
      BY <2>1, GoStep
  <1>4. CASE HydrateFails(r)
    <2>1. /\ Executing(r) /\ Go(r, "warm") /\ runs' = runs
          /\ cancelUsed' = cancelUsed /\ inflight' = inflight
      BY <1>4 DEF HydrateFails, Fail
    <2>2. QED
      BY <2>1, GoStep
  <1>5. CASE HydrateOk(r)
    <2>1. /\ Executing(r) /\ Go(r, "warm") /\ runs' = runs
          /\ cancelUsed' = cancelUsed /\ inflight' = inflight
      BY <1>5 DEF HydrateOk
    <2>2. QED
      BY <2>1, GoStep
  <1>6. ASSUME NEW p \in Providers, Dispatch(r, p) PROVE StepChange(r)
    <2>1. run'[r] = [run[r] EXCEPT !.pc = "request", !.round = 1,
                                   !.provider = p]
      BY <1>6, BecomeChange DEF Dispatch
    <2>2. /\ run'[r].pc = "request" /\ run'[r].call = run[r].call
          /\ run'[r].calls = run[r].calls
      BY <1>a, <2>1 DEF RunRecord
    <2>3. \A q \in Runs \ {r} : run'[q] = run[q]
      BY <1>6, BecomeChange DEF Dispatch
    <2>4. QED
      BY <1>6, <2>2, <2>3 DEF StepChange, Dispatch
  <1>7. CASE DispatchFails(r)
    <2>1. /\ Executing(r) /\ Go(r, "closing") /\ runs' = runs
          /\ cancelUsed' = cancelUsed /\ inflight' = inflight
      BY <1>7 DEF DispatchFails, Fail
    <2>2. QED
      BY <2>1, GoStep
  <1>8. CASE RequestAccepted(r)
    <2>1. /\ Executing(r) /\ Go(r, "stream") /\ runs' = runs
          /\ cancelUsed' = cancelUsed /\ inflight' = inflight
      BY <1>8 DEF RequestAccepted
    <2>2. QED
      BY <2>1, GoStep
  <1>9. CASE RequestFails(r)
    <2>1. /\ Executing(r) /\ Go(r, "closing") /\ runs' = runs
          /\ cancelUsed' = cancelUsed /\ inflight' = inflight
      BY <1>9 DEF RequestFails, Fail
    <2>2. QED
      BY <2>1, GoStep
  <1>10. ASSUME NEW n \in 0 .. MaxCalls, NEW calls \in 0 .. MaxCalls,
                At(r, "stream"), AppendAnswer(r, n, calls)
         PROVE  StepChange(r)
    <2>1. run'[r] = [run[r] EXCEPT !.pc = "copy", !.calls = calls, !.call = 0]
      BY <1>10, BecomeChange DEF AppendAnswer
    <2>2. /\ run'[r].pc = "copy" /\ run'[r].call = 0
          /\ run'[r].calls = calls
      BY <1>a, <2>1 DEF RunRecord
    <2>3. \A q \in Runs \ {r} : run'[q] = run[q]
      BY <1>10, BecomeChange DEF AppendAnswer
    <2>4. run'[r].call <= run'[r].calls
      BY <2>2, SessionAssumption
    <2>5. QED
      BY <1>10, <2>2, <2>3, <2>4 DEF StepChange, AppendAnswer
  <1>11. CASE Copy(r)
    <2>1. run'[r] = [run[r] EXCEPT !.pc = "publish", !.copied = history]
      BY <1>11, BecomeChange DEF Copy
    <2>2. /\ run'[r].pc = "publish" /\ run'[r].call = run[r].call
          /\ run'[r].calls = run[r].calls
      BY <1>a, <2>1 DEF RunRecord
    <2>3. \A q \in Runs \ {r} : run'[q] = run[q]
      BY <1>11, BecomeChange DEF Copy
    <2>4. QED
      BY <1>11, <2>2, <2>3 DEF StepChange, Copy
  <1>12. ASSUME Publish(r, "closing")
         PROVE  /\ \A q \in Runs \ {r} : run'[q] = run[q]
                /\ run'[r].pc = "closing" /\ run'[r].call = run[r].call
                /\ run'[r].calls = run[r].calls
    <2>1. run'[r] = [run[r] EXCEPT !.pc = "closing", !.copied = <<>>]
      BY <1>12, BecomeChange DEF Publish
    <2>2. \A q \in Runs \ {r} : run'[q] = run[q]
      BY <1>12, BecomeChange DEF Publish
    <2>3. QED
      BY <1>a, <2>1, <2>2 DEF RunRecord
  <1>13. CASE StopRound(r)
    BY <1>12, <1>13 DEF StepChange, StopRound, Publish
  <1>14. CASE RoundsUsedUp(r)
    BY <1>12, <1>14 DEF StepChange, RoundsUsedUp, Publish
  <1>15. CASE FirstTool(r)
    <2>1. run'[r] = [run[r] EXCEPT !.pc = "tool", !.call = 1, !.copied = <<>>]
      BY <1>15, BecomeChange DEF FirstTool
    <2>2. /\ run'[r].pc = "tool" /\ run'[r].call = 1
          /\ run'[r].calls = run[r].calls
      BY <1>a, <2>1 DEF RunRecord
    <2>3. \A q \in Runs \ {r} : run'[q] = run[q]
      BY <1>15, BecomeChange DEF FirstTool
    <2>4. QED
      BY <1>15, <1>b, <2>2, <2>3 DEF StepChange, FirstTool
  <1>16. CASE NextTool(r)
    <2>1. run'[r] = [run[r] EXCEPT !.call = run[r].call + 1]
      BY <1>16, BecomeChange DEF NextTool
    <2>2. /\ run'[r].pc = "tool" /\ run'[r].call = run[r].call + 1
          /\ run'[r].calls = run[r].calls
      BY <1>16, <1>a, <2>1 DEF RunRecord, NextTool
    <2>3. \A q \in Runs \ {r} : run'[q] = run[q]
      BY <1>16, BecomeChange DEF NextTool
    <2>4. QED
      BY <1>16, <1>b, <2>2, <2>3 DEF StepChange, NextTool, Collected
  <1>17. CASE LastTool(r)
    <2>1. /\ Executing(r) /\ Go(r, "copy") /\ runs' = runs
          /\ cancelUsed' = cancelUsed /\ inflight' = inflight
      BY <1>17 DEF LastTool
    <2>2. QED
      BY <2>1, GoStep
  <1>18. CASE ToolAbandoned(r)
    <2>1. /\ Executing(r) /\ Go(r, "closing") /\ runs' = runs
          /\ cancelUsed' = cancelUsed /\ inflight' = inflight
      BY <1>18 DEF ToolAbandoned, Fail
    <2>2. QED
      BY <2>1, GoStep
  <1>19. CASE NextRound(r)
    <2>1. run'[r] = [run[r] EXCEPT !.pc = "request",
                                   !.round = run[r].round + 1,
                                   !.calls = 0, !.call = 0, !.copied = <<>>]
      BY <1>19, BecomeChange DEF NextRound
    <2>2. /\ run'[r].pc = "request" /\ run'[r].call = 0
          /\ run'[r].calls = 0
      BY <1>a, <2>1 DEF RunRecord
    <2>3. \A q \in Runs \ {r} : run'[q] = run[q]
      BY <1>19, BecomeChange DEF NextRound
    <2>4. QED
      BY <1>19, <2>2, <2>3 DEF StepChange, NextRound
  <1>20. CASE ClearCancel(r)
    <2>1. /\ Executing(r) /\ Go(r, "cleared") /\ runs' = runs
          /\ cancelUsed' = cancelUsed /\ inflight' = inflight
      BY <1>20 DEF ClearCancel
    <2>2. QED
      BY <2>1, GoStep
  <1>21. CASE MarkIdle(r)
    <2>1. run'[r] = [NoRun EXCEPT !.pc = "done"]
      BY <1>21, BecomeChange DEF MarkIdle
    <2>2. run'[r].pc = "done" /\ run'[r].call = 0 /\ run'[r].calls = 0
      BY <2>1 DEF NoRun
    <2>3. \A q \in Runs \ {r} : run'[q] = run[q]
      BY <1>21, BecomeChange DEF MarkIdle
    <2>4. QED
      BY <1>21, <2>2, <2>3 DEF StepChange, MarkIdle
  <1>22. CASE GeminiFallback(r)
    <2>1. run'[r] = [run[r] EXCEPT !.round = 2, !.provider = "anthropic"]
      BY <1>22, BecomeChange DEF GeminiFallback
    <2>2. /\ run'[r].pc = "request" /\ run'[r].call = run[r].call
          /\ run'[r].calls = run[r].calls
      BY <1>a, <1>22, <2>1 DEF RunRecord, GeminiFallback
    <2>3. \A q \in Runs \ {r} : run'[q] = run[q]
      BY <1>22, BecomeChange DEF GeminiFallback
    <2>4. QED
      BY <1>22, <2>2, <2>3 DEF StepChange, GeminiFallback
  <1>23. QED
    BY <1>1, <1>2, <1>3, <1>4, <1>5, <1>6, <1>7, <1>8, <1>9, <1>10, <1>11,
       <1>13, <1>14, <1>15, <1>16, <1>17, <1>18, <1>19, <1>20, <1>21,
       <1>22, StepCases

(***************************************************************************)
(* Type correctness.                                                       *)
(***************************************************************************)
LEMMA CallsInit == Init => CallsInOrder
  BY DEF Init, CallsInOrder, NoRun

LEMMA CallsNext ==
  TypeOK /\ CallsInOrder /\ [Next]_vars => CallsInOrder'
  <1> SUFFICES ASSUME TypeOK, CallsInOrder, [Next]_vars PROVE CallsInOrder'
    OBVIOUS
  <1>1. CASE UNCHANGED vars
    BY <1>1 DEF vars, CallsInOrder
  <1>2. CASE Client
    <2>1. CASE Unmoved
      BY <2>1 DEF Unmoved, CallsInOrder
    <2>2. CASE Starts
      <3>1. PICK m : run'[runs + 1] = [run[runs + 1] EXCEPT !.pc = "spawned",
                                                            !.prompt = m]
        BY <2>2 DEF Starts
      <3>2. runs + 1 \in Runs /\ run[runs + 1] \in RunRecord
        BY <2>2 DEF Starts, TypeOK
      <3>3. run'[runs + 1].call = run[runs + 1].call
            /\ run'[runs + 1].calls = run[runs + 1].calls
        BY <3>1, <3>2 DEF RunRecord
      <3>4. \A q \in Runs \ {runs + 1} : run'[q] = run[q]
        BY <2>2 DEF Starts
      <3>5. QED
        BY <3>2, <3>3, <3>4 DEF CallsInOrder
    <2>3. QED
      BY <1>2, <2>1, <2>2, ClientRuns DEF ClientChange
  <1>3. ASSUME NEW r \in Runs, RunStep(r) PROVE CallsInOrder'
    BY <1>3, StepRuns DEF StepChange, CallsInOrder
  <1>4. QED
    BY <1>1, <1>2, <1>3 DEF Next, Finished

LEMMA TypeNext ==
  TypeOK /\ CallsInOrder /\ [Next]_vars => TypeOK'
  <1> SUFFICES ASSUME TypeOK, CallsInOrder, [Next]_vars PROVE TypeOK'
    OBVIOUS
  <1>1. CASE UNCHANGED vars
    BY <1>1 DEF vars, sessionVars, envVars, auxVars, TypeOK
  <1>2. QED
    BY <1>1, ClientTypes, StepTypes DEF Next, Finished

\* Every variable keeps its type, whatever the bounds are.
THEOREM TypeCorrect == Spec => [](TypeOK /\ CallsInOrder)
  <1>1. Init => TypeOK /\ CallsInOrder
    BY TypeInit, CallsInit
  <1>2. TypeOK /\ CallsInOrder /\ [Next]_vars => (TypeOK /\ CallsInOrder)'
    BY TypeNext, CallsNext
  <1>3. QED
    BY <1>1, <1>2, PTL DEF Spec

(***************************************************************************)
(* One inference at a time.                                                *)
(*                                                                         *)
(* Neither property is inductive.  Goroutines are numbered in the order in *)
(* which they are started, so the last one is runs (InOrder); inflight is  *)
(* its lock, which a cancel, and nothing else, takes away from it          *)
(* (LockHeld).                                                             *)
(***************************************************************************)
InOrder == \A r \in Runs : run[r].pc = "none" <=> r > runs

LockHeld == ~cancelUsed => \A r \in Runs : Executing(r) => r = runs /\ inflight

RunInv == InOrder /\ InflightBacked /\ LockHeld

LEMMA RunInvInit == Init => RunInv
  BY SessionAssumption
  DEF Init, RunInv, InOrder, InflightBacked, LockHeld, Executing, NoRun, Runs

LEMMA RunInvNext ==
  TypeOK /\ RunInv /\ [Next]_vars => RunInv'
  <1> SUFFICES ASSUME TypeOK, RunInv, [Next]_vars PROVE RunInv'
    OBVIOUS
  <1> USE DEF RunInv, InOrder, InflightBacked, LockHeld, Executing
  <1>a. /\ runs \in Int /\ runs <= MaxRuns /\ Runs = 1 .. MaxRuns
        /\ MaxRuns \in Nat
    BY SessionAssumption DEF TypeOK, Runs
  <1>1. CASE UNCHANGED vars
    BY <1>1 DEF vars, sessionVars, auxVars
  <1>2. CASE Client
    <2>1. CASE Unmoved /\ inflight' = inflight /\ cancelUsed' = cancelUsed
      BY <1>a, <2>1 DEF Unmoved
    <2>2. CASE Unmoved /\ ~inflight' /\ cancelUsed'
      BY <1>a, <2>2 DEF Unmoved
    <2>3. CASE Starts /\ cancelUsed' = cancelUsed
      <3>1. PICK m : run'[runs + 1] = [run[runs + 1] EXCEPT !.pc = "spawned",
                                                            !.prompt = m]
        BY <2>3 DEF Starts
      <3>2. runs + 1 \in Runs /\ run[runs + 1] \in RunRecord
        BY <2>3 DEF Starts, TypeOK
      <3>3. run'[runs + 1].pc = "spawned"
        BY <3>1, <3>2 DEF RunRecord
      <3>4. /\ \A q \in Runs \ {runs + 1} : run'[q] = run[q]
            /\ runs' = runs + 1 /\ ~inflight /\ inflight'
        BY <2>3 DEF Starts
      <3>5. InOrder'
        BY <1>a, <3>2, <3>3, <3>4
      <3>6. InflightBacked'
        BY <1>a, <3>2, <3>3, <3>4
      <3>7. LockHeld'
        BY <2>3, <3>2, <3>3, <3>4
      <3>8. QED
        BY <3>5, <3>6, <3>7
    <2>4. QED
      BY <1>2, <2>1, <2>2, <2>3, ClientRuns DEF ClientChange
  <1>3. ASSUME NEW r \in Runs, RunStep(r) PROVE RunInv'
    <2>1. StepChange(r)
      BY <1>3, StepRuns
    <2>2. runs' = runs /\ \A q \in Runs \ {r} : run'[q] = run[q]
      BY <2>1 DEF StepChange
    <2>3. run[r].pc \notin {"none", "done"}
      BY <2>1 DEF StepChange
    <2>4. CASE run'[r].pc \notin {"none", "done"} /\ inflight' = inflight
      BY <1>a, <2>1, <2>2, <2>3, <2>4 DEF StepChange
    <2>5. CASE run'[r].pc = "done" /\ ~inflight'
      BY <1>a, <2>1, <2>2, <2>3, <2>5 DEF StepChange
    <2>6. QED
      BY <2>1, <2>4, <2>5 DEF StepChange
  <1>4. QED
    BY <1>1, <1>2, <1>3 DEF Next, Finished

\* inflight never outlives the goroutine it stands for, and before the first
\* client_cancel at most one goroutine executes.
THEOREM OneInference == Spec => [](InflightBacked /\ SingleRunUnlessCancelled)
  <1>1. RunInv => InflightBacked /\ SingleRunUnlessCancelled
    BY DEF RunInv, LockHeld, SingleRunUnlessCancelled
  <1>2. QED
    BY <1>1, RunInvInit, RunInvNext, TypeCorrect, PTL DEF Spec

\* r is between its request and its last tool.
InLoop(r) == run[r].pc \in {"request", "stream", "copy", "publish", "tool"}

(***************************************************************************)
(* The client does not go on showing a busy agent.  What is inductive:     *)
(* while it shows one and no run has used up its rounds, some goroutine is *)
(* in its loop, from which every way out but that one emits idle.          *)
(***************************************************************************)
BusyBacked == ui = "busy" /\ ~exhausted => \E r \in Runs : InLoop(r)

\* What a step does to the busy display of its goroutine.
LEMMA StepShows ==
  ASSUME TypeOK, NEW r \in Runs, RunStep(r)
  PROVE  /\ exhausted => exhausted'
         /\ \/ ui' # "busy" \/ exhausted' \/ InLoop(r)'
            \/ ui' = ui /\ ~InLoop(r)
  <1> USE DEF envVars, auxVars, sessionVars, At, InLoop
  <1>1. CASE \/ RunStart(r) \/ RunPrepare(r) \/ HydrateSkip(r)
             \/ HydrateFails(r) \/ HydrateOk(r) \/ ClearCancel(r)
             \/ MarkIdle(r)
    BY <1>1 DEF RunStart, RunPrepare, HydrateSkip, HydrateFails, HydrateOk,
                ClearCancel, MarkIdle
  <1>2. CASE \/ DispatchFails(r) \/ RequestFails(r) \/ StopRound(r)
             \/ ToolAbandoned(r)
    BY <1>2 DEF DispatchFails, RequestFails, StopRound, ToolAbandoned,
                Fail, Show
  <1>3. CASE RoundsUsedUp(r)
    BY <1>3 DEF RoundsUsedUp
  <1>4. ASSUME NEW p \in Providers, Dispatch(r, p)
        PROVE  ui' = ui /\ exhausted' = exhausted /\ ~InLoop(r)
    BY <1>4 DEF Dispatch
  <1>5. CASE RequestAccepted(r)
    BY <1>5, GoChange DEF RequestAccepted
  <1>6. CASE LastTool(r)
    BY <1>6, GoChange DEF LastTool
  <1>7. ASSUME NEW n \in 0 .. MaxCalls, NEW calls \in 0 .. MaxCalls,
               At(r, "stream"), AppendAnswer(r, n, calls)
        PROVE  InLoop(r)' /\ exhausted' = exhausted
    <2>1. run'[r] = [run[r] EXCEPT !.pc = "copy", !.calls = calls, !.call = 0]
      BY <1>7, BecomeChange DEF AppendAnswer
    <2>2. QED
      BY <1>7, <2>1 DEF AppendAnswer, TypeOK, RunRecord
  <1>8. CASE Copy(r)
    <2>1. run'[r] = [run[r] EXCEPT !.pc = "publish", !.copied = history]
      BY <1>8, BecomeChange DEF Copy
    <2>2. QED
      BY <1>8, <2>1 DEF Copy, TypeOK, RunRecord
  <1>9. CASE FirstTool(r)
    <2>1. run'[r] = [run[r] EXCEPT !.pc = "tool", !.call = 1, !.copied = <<>>]
      BY <1>9, BecomeChange DEF FirstTool
    <2>2. QED
      BY <1>9, <2>1 DEF FirstTool, TypeOK, RunRecord
  <1>10. CASE NextTool(r)
    <2>1. run'[r] = [run[r] EXCEPT !.call = run[r].call + 1]
      BY <1>10, BecomeChange DEF NextTool
    <2>2. QED
      BY <1>10, <2>1 DEF NextTool, TypeOK, RunRecord
  <1>11. CASE NextRound(r)
    <2>1. run'[r] = [run[r] EXCEPT !.pc = "request",
                                   !.round = run[r].round + 1,
                                   !.calls = 0, !.call = 0, !.copied = <<>>]
      BY <1>11, BecomeChange DEF NextRound
    <2>2. QED
      BY <1>11, <2>1 DEF NextRound, TypeOK, RunRecord
  <1>12. CASE GeminiFallback(r)
    <2>1. run'[r] = [run[r] EXCEPT !.round = 2, !.provider = "anthropic"]
      BY <1>12, BecomeChange DEF GeminiFallback
    <2>2. QED
      BY <1>12, <2>1 DEF GeminiFallback, TypeOK, RunRecord
  <1>13. QED
    BY <1>1, <1>2, <1>3, <1>4, <1>5, <1>6, <1>7, <1>8, <1>9, <1>10, <1>11,
       <1>12, StepCases

LEMMA ClientShows ==
  Client => ui' \in {ui, "sent"} /\ exhausted' = exhausted
  <1> USE DEF envVars, auxVars, sessionVars, Prompt, Show
  <1>1. ASSUME NEW m \in Msgs, ClientAppend(m) \/ ClientEdit(m)
        PROVE  ui' \in {ui, "sent"} /\ exhausted' = exhausted
    BY <1>1 DEF ClientAppend, ClientEdit
  <1>2. CASE ClientRetry
    BY <1>2 DEF ClientRetry
  <1>3. CASE \/ ClientAppendPassthrough \/ ClientCancel \/ Disconnect
             \/ UpstreamFinish \/ \E t \in ToolIds : ToolResult(t)
    BY <1>3 DEF ClientAppendPassthrough, ClientCancel, Disconnect,
                UpstreamFinish, ToolResult
  <1>4. QED
    BY <1>1, <1>2, <1>3 DEF Client

LEMMA BusyNext ==
  TypeOK /\ InOrder /\ BusyBacked /\ [Next]_vars => BusyBacked'
  <1> SUFFICES ASSUME TypeOK, InOrder, BusyBacked, [Next]_vars
               PROVE  BusyBacked'
    OBVIOUS
  <1>1. CASE UNCHANGED vars
    BY <1>1 DEF vars, envVars, auxVars, BusyBacked, InLoop
  <1>2. CASE Client
    <2> SUFFICES ASSUME ui' = "busy", ~exhausted'
                 PROVE  \E r \in Runs : InLoop(r)'
      BY DEF BusyBacked
    <2>1. PICK r \in Runs : InLoop(r)
      BY <1>2, ClientShows DEF BusyBacked
    <2>2. CASE Unmoved
      BY <2>1, <2>2 DEF Unmoved, InLoop
    <2>3. CASE Starts
      <3>1. runs + 1 \in Runs /\ \A q \in Runs \ {runs + 1} : run'[q] = run[q]
        BY <2>3 DEF Starts
      <3>2. run[runs + 1].pc = "none"
        BY <3>1 DEF InOrder, TypeOK
      <3>3. QED
        BY <2>1, <3>1, <3>2 DEF InLoop
    <2>4. QED
      BY <1>2, <2>2, <2>3, ClientRuns DEF ClientChange
  <1>3. ASSUME NEW r \in Runs, RunStep(r) PROVE BusyBacked'
    <2>1. \A q \in Runs \ {r} : run'[q] = run[q]
      BY <1>3, StepRuns DEF StepChange
    <2>2. CASE ui' # "busy" \/ exhausted' \/ InLoop(r)'
      BY <2>2 DEF BusyBacked
    <2>3. CASE ui' = ui /\ ~InLoop(r)
      BY <1>3, <2>1, <2>3, StepShows DEF BusyBacked, InLoop
    <2>4. QED
      BY <1>3, <2>2, <2>3, StepShows
  <1>4. QED
    BY <1>1, <1>2, <1>3 DEF Next, Finished

\* When every goroutine has ended, and none of them by using up its rounds,
\* the client does not show a busy agent.
THEOREM BusyEnds == Spec => []UISettles
  <1>1. Init => BusyBacked
    BY DEF Init, BusyBacked
  <1>2. RunInv => InOrder
    BY DEF RunInv
  <1>3. BusyBacked => UISettles
    BY DEF BusyBacked, UISettles, Quiet, Executing, InLoop
  <1>4. QED
    BY <1>1, <1>2, <1>3, RunInvInit, RunInvNext, BusyNext, TypeCorrect, PTL
    DEF Spec

(***************************************************************************)
(* A channel is registered exactly while its tool is waited for.  For      *)
(* that the tool which a run waits for must be one that ToolIds names.     *)
(***************************************************************************)
ToolNamed ==
  \A r \in Runs :
    /\ InLoop(r) => run[r].round >= 1
    /\ At(r, "tool") => run[r].call >= 1

\* A run is in its loop only from its first round on.
LEMMA StepNames ==
  ASSUME TypeOK, ToolNamed, NEW r \in Runs, RunStep(r)
  PROVE  /\ InLoop(r)' => run'[r].round >= 1
         /\ run'[r].pc = "tool" => run'[r].call >= 1
  <1> USE DEF envVars, auxVars, sessionVars, At, InLoop
  <1>a. run[r] \in RunRecord /\ run[r].round \in Int /\ run[r].call \in Int
    BY DEF TypeOK, RunRecord
  <1>b. InLoop(r) => run[r].round >= 1
    BY DEF ToolNamed
  <1>c. run[r].pc = "tool" => run[r].call >= 1
    BY DEF ToolNamed
  <1>1. CASE \/ RunStart(r) \/ HydrateSkip(r) \/ HydrateFails(r)
             \/ HydrateOk(r) \/ DispatchFails(r) \/ RequestAccepted(r)
             \/ RequestFails(r) \/ LastTool(r) \/ ToolAbandoned(r)
             \/ ClearCancel(r)
    <2>1. PICK pc \in PC \ {"tool"} :
            Go(r, pc) /\ (pc \in {"stream", "copy"} => InLoop(r))
                      /\ pc \notin {"request", "publish"}
      BY <1>1 DEF RunStart, HydrateSkip, HydrateFails, HydrateOk,
                  DispatchFails, RequestAccepted, RequestFails, LastTool,
                  ToolAbandoned, ClearCancel, Fail, PC
    <2>2. run'[r].pc = pc /\ run'[r].round = run[r].round
      BY <2>1, GoChange
    <2>3. QED
      BY <1>b, <2>1, <2>2
  <1>2. CASE RunPrepare(r)
    <2>1. run'[r] = [run[r] EXCEPT !.pc = "cold", !.needsHydrate = ~hydrated,
                                   !.priorLocalLen = Len(history)]
      BY <1>2, BecomeChange DEF RunPrepare
    <2>2. run'[r].pc = "cold"
      BY <1>a, <2>1 DEF RunRecord
    <2>3. QED
      BY <2>2
  <1>3. ASSUME NEW p \in Providers, Dispatch(r, p)
        PROVE  run'[r].pc = "request" /\ run'[r].round = 1
    <2>1. run'[r] = [run[r] EXCEPT !.pc = "request", !.round = 1,
                                   !.provider = p]
      BY <1>3, BecomeChange DEF Dispatch
    <2>2. QED
      BY <1>a, <2>1 DEF RunRecord
  <1>4. ASSUME NEW n \in 0 .. MaxCalls, NEW calls \in 0 .. MaxCalls,
               At(r, "stream"), AppendAnswer(r, n, calls)
        PROVE  run'[r].round >= 1 /\ run'[r].pc = "copy"
    <2>1. run'[r] = [run[r] EXCEPT !.pc = "copy", !.calls = calls, !.call = 0]
      BY <1>4, BecomeChange DEF AppendAnswer
    <2>2. run'[r].pc = "copy" /\ run'[r].round = run[r].round
      BY <1>a, <2>1 DEF RunRecord
    <2>3. QED
      BY <1>4, <1>b, <2>2
  <1>5. CASE Copy(r)
    <2>1. run'[r] = [run[r] EXCEPT !.pc = "publish", !.copied = history]
      BY <1>5, BecomeChange DEF Copy
    <2>2. run'[r].pc = "publish" /\ run'[r].round = run[r].round
      BY <1>a, <2>1 DEF RunRecord
    <2>3. QED
      BY <1>5, <1>b, <2>2 DEF Copy
  <1>6. CASE StopRound(r) \/ RoundsUsedUp(r)
    <2>1. run'[r] = [run[r] EXCEPT !.pc = "closing", !.copied = <<>>]
      BY <1>6, BecomeChange DEF StopRound, RoundsUsedUp, Publish
    <2>2. run'[r].pc = "closing"
      BY <1>a, <2>1 DEF RunRecord
    <2>3. QED
      BY <2>2
  <1>7. CASE FirstTool(r)
    <2>1. run'[r] = [run[r] EXCEPT !.pc = "tool", !.call = 1, !.copied = <<>>]
      BY <1>7, BecomeChange DEF FirstTool
    <2>2. run'[r].call = 1 /\ run'[r].round = run[r].round
      BY <1>a, <2>1 DEF RunRecord
    <2>3. QED
      BY <1>7, <1>b, <2>2 DEF FirstTool
  <1>8. CASE NextTool(r)
    <2>1. run'[r] = [run[r] EXCEPT !.call = run[r].call + 1]
      BY <1>8, BecomeChange DEF NextTool
    <2>2. run'[r].call = run[r].call + 1 /\ run'[r].round = run[r].round
      BY <1>a, <2>1 DEF RunRecord
    <2>3. QED
      BY <1>8, <1>a, <1>b, <1>c, <2>2 DEF NextTool
  <1>9. CASE NextRound(r)
    <2>1. run'[r] = [run[r] EXCEPT !.pc = "request",
                                   !.round = run[r].round + 1,
                                   !.calls = 0, !.call = 0, !.copied = <<>>]
      BY <1>9, BecomeChange DEF NextRound
    <2>2. run'[r].pc = "request" /\ run'[r].round = run[r].round + 1
      BY <1>a, <2>1 DEF RunRecord
    <2>3. QED
      BY <1>9, <1>a, <1>b, <2>2 DEF NextRound
  <1>10. CASE MarkIdle(r)
    <2>1. run'[r] = [NoRun EXCEPT !.pc = "done"]
      BY <1>10, BecomeChange DEF MarkIdle
    <2>2. QED
      BY <2>1 DEF NoRun
  <1>11. CASE GeminiFallback(r)
    <2>1. run'[r] = [run[r] EXCEPT !.round = 2, !.provider = "anthropic"]
      BY <1>11, BecomeChange DEF GeminiFallback
    <2>2. run'[r].pc = "request" /\ run'[r].round = 2
      BY <1>a, <1>11, <2>1 DEF RunRecord, GeminiFallback
    <2>3. QED
      BY <2>2
  <1>12. QED
    BY <1>1, <1>2, <1>3, <1>4, <1>5, <1>6, <1>7, <1>8, <1>9, <1>10,
       <1>11, StepCases

\* The channels that a step of a run leaves: at most one, of its own tool.
LEMMA StepChannels ==
  ASSUME TypeOK, ToolNamed, CallsInOrder, NEW r \in Runs, RunStep(r)
  PROVE  \/ chan' = chan /\ ~At(r, "tool") /\ ~At(r, "tool")'
         \/ /\ At(r, "tool") /\ ~At(r, "tool")'
            /\ chan' = [chan EXCEPT ![Tool(r)] = "absent"]
         \/ /\ ~At(r, "tool") /\ At(r, "tool")'
            /\ Tool(r)' \in ToolIds
            /\ chan' = [chan EXCEPT ![Tool(r)'] = "empty"]
         \/ /\ At(r, "tool") /\ At(r, "tool")'
            /\ Tool(r) # Tool(r)'
            /\ Tool(r)' \in ToolIds
            /\ chan' = [chan EXCEPT ![Tool(r)] = "absent",
                                    ![Tool(r)'] = "empty"]
  <1> USE DEF sessionVars, envVars, auxVars, At
  <1>a. run[r] \in RunRecord
    BY DEF TypeOK
  <1>b. /\ run[r].round \in 0 .. MaxRounds /\ run[r].call \in 0 .. MaxCalls
        /\ run[r].calls \in 0 .. MaxCalls /\ MaxCalls \in Nat
        /\ MaxRounds \in Nat
    BY <1>a, SessionAssumption DEF RunRecord
  <1>1. CASE \/ RunStart(r) \/ HydrateSkip(r) \/ HydrateFails(r)
             \/ HydrateOk(r) \/ DispatchFails(r) \/ RequestAccepted(r)
             \/ RequestFails(r) \/ ClearCancel(r)
    <2>1. PICK pc \in PC \ {"tool"} :
            Go(r, pc) /\ chan' = chan /\ run[r].pc # "tool"
      BY <1>1 DEF RunStart, HydrateSkip, HydrateFails, HydrateOk,
                  DispatchFails, RequestAccepted, RequestFails, ClearCancel,
                  Fail, PC
    <2>2. QED
      BY <2>1, GoChange
  <1>2. CASE RunPrepare(r)
    <2>1. run'[r] = [run[r] EXCEPT !.pc = "cold", !.needsHydrate = ~hydrated,
                                   !.priorLocalLen = Len(history)]
      BY <1>2, BecomeChange DEF RunPrepare
    <2>2. run'[r].pc = "cold"
      BY <1>a, <2>1 DEF RunRecord
    <2>3. QED
      BY <1>2, <2>2 DEF RunPrepare
  <1>3. ASSUME NEW p \in Providers, Dispatch(r, p)
        PROVE  chan' = chan /\ ~At(r, "tool") /\ ~At(r, "tool")'
    <2>1. run'[r] = [run[r] EXCEPT !.pc = "request", !.round = 1,
                                   !.provider = p]
      BY <1>3, BecomeChange DEF Dispatch
    <2>2. run'[r].pc = "request"
      BY <1>a, <2>1 DEF RunRecord
    <2>3. QED
      BY <1>3, <2>2 DEF Dispatch
  <1>4. ASSUME NEW n \in 0 .. MaxCalls, NEW calls \in 0 .. MaxCalls,
               At(r, "stream"), AppendAnswer(r, n, calls)
        PROVE  chan' = chan /\ ~At(r, "tool") /\ ~At(r, "tool")'
    <2>1. run'[r] = [run[r] EXCEPT !.pc = "copy", !.calls = calls, !.call = 0]
      BY <1>4, BecomeChange DEF AppendAnswer
    <2>2. run'[r].pc = "copy"
      BY <1>a, <2>1 DEF RunRecord
    <2>3. QED
      BY <1>4, <2>2 DEF AppendAnswer
  <1>5. CASE Copy(r)
    <2>1. run'[r] = [run[r] EXCEPT !.pc = "publish", !.copied = history]
      BY <1>5, BecomeChange DEF Copy
    <2>2. run'[r].pc = "publish"
      BY <1>a, <2>1 DEF RunRecord
    <2>3. QED
      BY <1>5, <2>2 DEF Copy
  <1>6. CASE StopRound(r) \/ RoundsUsedUp(r)
    <2>1. run'[r] = [run[r] EXCEPT !.pc = "closing", !.copied = <<>>]
      BY <1>6, BecomeChange DEF StopRound, RoundsUsedUp, Publish
    <2>2. run'[r].pc = "closing"
      BY <1>a, <2>1 DEF RunRecord
    <2>3. QED
      BY <1>6, <2>2 DEF StopRound, RoundsUsedUp, Publish
  <1>7. CASE NextRound(r)
    <2>1. run'[r] = [run[r] EXCEPT !.pc = "request",
                                   !.round = run[r].round + 1,
                                   !.calls = 0, !.call = 0, !.copied = <<>>]
      BY <1>7, BecomeChange DEF NextRound
    <2>2. run'[r].pc = "request"
      BY <1>a, <2>1 DEF RunRecord
    <2>3. QED
      BY <1>7, <2>2 DEF NextRound
  <1>8. CASE MarkIdle(r)
    <2>1. run'[r] = [NoRun EXCEPT !.pc = "done"]
      BY <1>8, BecomeChange DEF MarkIdle
    <2>2. run'[r].pc = "done"
      BY <2>1 DEF NoRun
    <2>3. QED
      BY <1>8, <2>2 DEF MarkIdle
  <1>9. CASE LastTool(r)
    <2>1. run'[r].pc = "copy"
      BY <1>9, GoChange DEF LastTool
    <2>2. QED
      BY <1>9, <2>1 DEF LastTool
  <1>10. CASE ToolAbandoned(r)
    <2>1. run'[r].pc = "closing"
      BY <1>10, GoChange DEF ToolAbandoned, Fail
    <2>2. QED
      BY <1>10, <2>1 DEF ToolAbandoned
  <1>11. CASE FirstTool(r)
    <2>1. run'[r] = [run[r] EXCEPT !.pc = "tool", !.call = 1, !.copied = <<>>]
      BY <1>11, BecomeChange DEF FirstTool
    <2>2. /\ run'[r].pc = "tool" /\ run'[r].call = 1
          /\ run'[r].round = run[r].round
      BY <1>a, <2>1 DEF RunRecord
    <2>3. Tool(r)' = <<r, run[r].round, 1>>
      BY <2>2 DEF Tool
    <2>4. run[r].round >= 1 /\ run[r].calls > 0 /\ run[r].pc # "tool"
      BY <1>11 DEF FirstTool, ToolNamed, InLoop
    <2>5. <<r, run[r].round, 1>> \in ToolIds
      BY <1>b, <2>4 DEF ToolIds
    <2>6. QED
      BY <1>11, <2>2, <2>3, <2>4, <2>5 DEF FirstTool
  <1>12. CASE NextTool(r)
    <2>1. run'[r] = [run[r] EXCEPT !.call = run[r].call + 1]
      BY <1>12, BecomeChange DEF NextTool
    <2>2. /\ run'[r].pc = "tool" /\ run'[r].call = run[r].call + 1
          /\ run'[r].round = run[r].round
      BY <1>12, <1>a, <2>1 DEF RunRecord, NextTool
    <2>3. Tool(r)' = <<r, run[r].round, run[r].call + 1>>
      BY <2>2 DEF Tool
    <2>4. run[r].round >= 1
      BY <1>12 DEF NextTool, ToolNamed, InLoop
    <2>5. run[r].call + 1 \in 1 .. MaxCalls
      BY <1>12, <1>b DEF NextTool, Collected, CallsInOrder
    <2>6. <<r, run[r].round, run[r].call + 1>> \in ToolIds
      BY <1>b, <2>4, <2>5 DEF ToolIds
    <2>7. Tool(r) # Tool(r)'
      BY <1>b, <2>3 DEF Tool
    <2>8. QED
      BY <1>12, <2>2, <2>3, <2>6, <2>7 DEF NextTool
  <1>13. CASE GeminiFallback(r)
    <2>1. run'[r] = [run[r] EXCEPT !.round = 2, !.provider = "anthropic"]
      BY <1>13, BecomeChange DEF GeminiFallback
    <2>2. run'[r].pc = "request"
      BY <1>a, <1>13, <2>1 DEF RunRecord, GeminiFallback
    <2>3. QED
      BY <1>13, <2>2 DEF GeminiFallback
  <1>14. QED
    BY <1>1, <1>2, <1>3, <1>4, <1>5, <1>6, <1>7, <1>8, <1>9, <1>10, <1>11,
       <1>12, <1>13, StepCases

LEMMA ToolNamedNext ==
  TypeOK /\ InOrder /\ ToolNamed /\ [Next]_vars => ToolNamed'
  <1> SUFFICES ASSUME TypeOK, InOrder, ToolNamed, [Next]_vars
               PROVE  ToolNamed'
    OBVIOUS
  <1> USE DEF ToolNamed, InLoop, At
  <1>1. CASE UNCHANGED vars
    BY <1>1 DEF vars
  <1>2. CASE Client
    <2>1. CASE Unmoved
      BY <2>1 DEF Unmoved
    <2>2. CASE Starts
      <3>1. PICK m : run'[runs + 1] = [run[runs + 1] EXCEPT !.pc = "spawned",
                                                            !.prompt = m]
        BY <2>2 DEF Starts
      <3>2. runs + 1 \in Runs /\ run[runs + 1] \in RunRecord
        BY <2>2 DEF Starts, TypeOK
      <3>3. run'[runs + 1].pc = "spawned"
        BY <3>1, <3>2 DEF RunRecord
      <3>4. QED
        BY <2>2, <3>3 DEF Starts
    <2>3. QED
      BY <1>2, <2>1, <2>2, ClientRuns DEF ClientChange
  <1>3. ASSUME NEW r \in Runs, RunStep(r) PROVE ToolNamed'
    <2>1. \A q \in Runs \ {r} : run'[q] = run[q]
      BY <1>3, StepRuns DEF StepChange
    <2>2. QED
      BY <1>3, <2>1, StepNames
  <1>4. QED
    BY <1>1, <1>2, <1>3 DEF Next, Finished

LEMMA PendingClient ==
  ASSUME TypeOK, InOrder, PendingBacked, Client
  PROVE  PendingBacked'
  <1>1. \A t \in ToolIds : chan'[t] # "absent" <=> chan[t] # "absent"
    <2>1. ASSUME NEW t \in ToolIds, ToolResult(t)
          PROVE  \A u \in ToolIds : chan'[u] # "absent" <=> chan[u] # "absent"
      BY <2>1 DEF ToolResult, TypeOK
    <2>2. CASE chan' = chan
      BY <2>2
    <2>3. (\E t \in ToolIds : ToolResult(t)) \/ chan' = chan
      BY DEF Client, ClientAppend, ClientAppendPassthrough, ClientRetry,
             ClientEdit, ClientCancel, Disconnect, UpstreamFinish, sessionVars
    <2>4. QED
      BY <2>1, <2>2, <2>3
  <1>2. \A r \in Runs : /\ At(r, "tool")' <=> At(r, "tool")
                        /\ At(r, "tool") => Tool(r)' = Tool(r)
    <2>1. CASE Unmoved
      BY <2>1 DEF Unmoved, At, Tool
    <2>2. CASE Starts
      <3>1. runs + 1 \in Runs /\ \A q \in Runs \ {runs + 1} : run'[q] = run[q]
        BY <2>2 DEF Starts
      <3>2. PICK m : run'[runs + 1] = [run[runs + 1] EXCEPT !.pc = "spawned",
                                                            !.prompt = m]
        BY <2>2 DEF Starts
      <3>3. run[runs + 1] \in RunRecord /\ run[runs + 1].pc = "none"
        BY <3>1 DEF InOrder, TypeOK
      <3>4. run'[runs + 1].pc = "spawned"
        BY <3>2, <3>3 DEF RunRecord
      <3>5. QED
        BY <3>1, <3>3, <3>4 DEF At, Tool
    <2>3. QED
      BY <2>1, <2>2, ClientRuns DEF ClientChange
  <1>3. \A t \in ToolIds : t[1] \in Runs
    BY DEF ToolIds
  <1>4. QED
    BY <1>1, <1>2, <1>3 DEF PendingBacked

LEMMA PendingStep ==
  ASSUME TypeOK, ToolNamed, CallsInOrder, PendingBacked,
         NEW r \in Runs, RunStep(r)
  PROVE  PendingBacked'
  <1> SUFFICES ASSUME NEW t \in ToolIds
               PROVE  chan'[t] # "absent" <=>
                        At(t[1], "tool")' /\ t = Tool(t[1])'
    BY DEF PendingBacked
  <1>a. t[1] \in Runs
    BY DEF ToolIds
  <1>b. chan[t] # "absent" <=> At(t[1], "tool") /\ t = Tool(t[1])
    BY DEF PendingBacked
  <1>c. Tool(r)[1] = r /\ Tool(r)'[1] = r
    BY DEF Tool
  <1>d. chan \in [ToolIds -> {"absent", "empty", "full"}]
    BY DEF TypeOK
  <1>1. CASE t[1] # r
    <2>1. run'[t[1]] = run[t[1]]
      BY <1>a, <1>1, StepRuns DEF StepChange
    <2>2. t # Tool(r) /\ t # Tool(r)'
      BY <1>1, <1>c
    <2>3. chan'[t] = chan[t]
      BY <1>d, <2>2, StepChannels
    <2>4. QED
      BY <1>b, <2>1, <2>3 DEF At, Tool
  <1>2. CASE t[1] = r
    <2>1. CASE chan' = chan /\ ~At(r, "tool") /\ ~At(r, "tool")'
      BY <1>b, <1>2, <2>1
    <2>2. CASE /\ At(r, "tool") /\ ~At(r, "tool")'
               /\ chan' = [chan EXCEPT ![Tool(r)] = "absent"]
      BY <1>b, <1>d, <1>2, <2>2
    <2>3. CASE /\ ~At(r, "tool") /\ At(r, "tool")'
               /\ Tool(r)' \in ToolIds
               /\ chan' = [chan EXCEPT ![Tool(r)'] = "empty"]
      BY <1>b, <1>d, <1>2, <2>3
    <2>4. CASE /\ At(r, "tool") /\ At(r, "tool")'
               /\ Tool(r) # Tool(r)'
               /\ Tool(r)' \in ToolIds
               /\ chan' = [chan EXCEPT ![Tool(r)] = "absent",
                                       ![Tool(r)'] = "empty"]
      BY <1>b, <1>d, <1>2, <2>4
    <2>5. QED
      BY <2>1, <2>2, <2>3, <2>4, StepChannels
  <1>3. QED
    BY <1>1, <1>2

LEMMA PendingNext ==
  /\ TypeOK /\ CallsInOrder /\ InOrder /\ ToolNamed
  /\ PendingBacked /\ [Next]_vars
  => PendingBacked'
  <1> SUFFICES ASSUME TypeOK, CallsInOrder, InOrder, ToolNamed, PendingBacked,
                      [Next]_vars
               PROVE  PendingBacked'
    OBVIOUS
  <1>1. CASE UNCHANGED vars
    BY <1>1 DEF vars, sessionVars, PendingBacked, At, Tool
  <1>2. QED
    BY <1>1, PendingClient, PendingStep DEF Next, Finished

\* No tool is waited for without a channel, and no channel outlives the wait.
THEOREM ChannelsBacked == Spec => []PendingBacked
  <1>1. Init => ToolNamed /\ PendingBacked
    <2> SUFFICES ASSUME Init PROVE ToolNamed /\ PendingBacked
      OBVIOUS
    <2>1. \A r \in Runs : run[r].pc = "none"
      BY DEF Init, NoRun
    <2>2. \A t \in ToolIds : t[1] \in Runs /\ chan[t] = "absent"
      BY DEF Init, ToolIds
    <2>3. QED
      BY <2>1, <2>2 DEF ToolNamed, PendingBacked, InLoop, At
  <1>2. RunInv => InOrder
    BY DEF RunInv
  <1>3. QED
    BY <1>1, <1>2, RunInvInit, RunInvNext, ToolNamedNext, PendingNext,
       TypeCorrect, PTL
    DEF Spec
(***************************************************************************)
(* Well-formed histories.                                                  *)
(***************************************************************************)
\* A turn that calls a tool, or holds the results of one.
Paired(turn) == turn.kind = "results" \/ (turn.kind = "assistant" /\ turn.calls > 0)

LEMMA WellFormedEmpty == WellFormed(<<>>)
  BY EmptySeq DEF WellFormed

LEMMA WellFormedAppend ==
  ASSUME NEW h \in Seq(Turn), NEW turn \in Turn, WellFormed(h), ~Paired(turn)
  PROVE  Append(h, turn) \in Seq(Turn) /\ WellFormed(Append(h, turn))
  <1> DEFINE g == Append(h, turn)
  <1>1. /\ g \in Seq(Turn) /\ Len(g) = Len(h) + 1 /\ Len(h) \in Nat
        /\ \A i \in 1 .. Len(h) : g[i] = h[i]
        /\ g[Len(h) + 1] = turn
    BY LenProperties, AppendProperties
  <1>2. DOMAIN g = 1 .. Len(g) /\ DOMAIN h = 1 .. Len(h)
    BY <1>1, LenProperties
  <1> HIDE DEF g
  <1>3. ASSUME NEW i \in DOMAIN g
        PROVE  /\ (g[i].kind = "assistant" /\ g[i].calls > 0) =>
                    i < Len(g) /\ Answers(g, i)
               /\ g[i].kind = "results" => i > 1 /\ Answers(g, i - 1)
    <2>1. CASE i = Len(h) + 1
      BY <1>1, <2>1 DEF Paired
    <2>2. CASE i \in 1 .. Len(h)
      <3>1. /\ (h[i].kind = "assistant" /\ h[i].calls > 0) =>
                 i < Len(h) /\ Answers(h, i)
            /\ h[i].kind = "results" => i > 1 /\ Answers(h, i - 1)
        BY <1>2, <2>2 DEF WellFormed
      <3>2. g[i] = h[i]
        BY <1>1, <2>2
      <3>3. ASSUME g[i].kind = "assistant", g[i].calls > 0
            PROVE  i < Len(g) /\ Answers(g, i)
        <4>1. i < Len(h) /\ Answers(h, i)
          BY <3>1, <3>2, <3>3
        <4>2. i + 1 \in 1 .. Len(h)
          BY <1>1, <2>2, <4>1
        <4>3. g[i + 1] = h[i + 1]
          BY <1>1, <4>2
        <4>4. QED
          BY <1>1, <2>2, <3>2, <4>1, <4>3 DEF Answers
      <3>4. ASSUME g[i].kind = "results"
            PROVE  i > 1 /\ Answers(g, i - 1)
        <4>1. i > 1 /\ Answers(h, i - 1)
          BY <3>1, <3>2, <3>4
        <4>2. PICK k \in 1 .. Len(h) : k = i - 1 /\ k + 1 = i
          BY <1>1, <2>2, <4>1
        <4>3. g[k] = h[k] /\ g[k + 1] = h[k + 1]
          BY <1>1, <2>2, <4>2
        <4>4. Answers(h, k)
          BY <4>1, <4>2
        <4>5. Answers(g, k)
          BY <4>3, <4>4 DEF Answers
        <4>6. QED
          BY <4>1, <4>2, <4>5
      <3>5. QED
        BY <3>3, <3>4
    <2>3. QED
      BY <1>1, <1>2, <2>1, <2>2
  <1>4. WellFormed(g)
    BY <1>3 DEF WellFormed
  <1>5. QED
    BY <1>1, <1>4 DEF g

\* What comes before a turn that holds no results.
LEMMA WellFormedBefore ==
  ASSUME NEW h \in Seq(Turn), WellFormed(h), NEW k \in 1 .. Len(h),
         h[k].kind # "results"
  PROVE  SubSeq(h, 1, k - 1) \in Seq(Turn) /\ WellFormed(SubSeq(h, 1, k - 1))
  <1> DEFINE g == SubSeq(h, 1, k - 1)
  <1>1. Len(h) \in Nat /\ DOMAIN h = 1 .. Len(h) /\ \A i \in 1 .. Len(h) : h[i] \in Turn
    BY LenProperties, ElementOfSeq
  <1>2. PICK n \in Nat : n = k - 1 /\ n < Len(h) /\ k = n + 1
    BY <1>1
  <1>3. \A i \in 1 .. n : h[i] \in Turn
    BY <1>1, <1>2
  <1>4. SubSeq(h, 1, n) \in Seq(Turn) /\ Len(SubSeq(h, 1, n)) = n
        /\ \A i \in 1 .. n : SubSeq(h, 1, n)[i] = h[i]
    <2>1. /\ SubSeq(h, 1, n) \in Seq(Turn)
          /\ Len(SubSeq(h, 1, n)) = IF 1 <= n THEN n - 1 + 1 ELSE 0
          /\ \A i \in 1 .. n - 1 + 1 : SubSeq(h, 1, n)[i] = h[1 + i - 1]
      BY <1>3, SubSeqProperties
    <2>2. n - 1 + 1 = n /\ \A i \in 1 .. n : 1 + i - 1 = i
      OBVIOUS
    <2>3. \A i \in 1 .. n : SubSeq(h, 1, n)[i] = h[i]
      BY <2>1, <2>2
    <2>4. Len(SubSeq(h, 1, n)) = n
      BY <2>1
    <2>5. QED
      BY <2>1, <2>3, <2>4
  <1>5. g \in Seq(Turn) /\ Len(g) = n /\ \A i \in 1 .. n : g[i] = h[i]
    BY <1>2, <1>4
  <1> HIDE DEF g
  <1>6. DOMAIN g = 1 .. n
    BY <1>5, LenProperties
  <1>7. ASSUME NEW i \in 1 .. n
        PROVE  /\ (g[i].kind = "assistant" /\ g[i].calls > 0) =>
                    i < n /\ Answers(g, i)
               /\ g[i].kind = "results" => i > 1 /\ Answers(g, i - 1)
    <2>1. i \in DOMAIN h /\ g[i] = h[i] /\ i + 1 \in 1 .. Len(h)
      BY <1>1, <1>2, <1>5
    <2>2. /\ (h[i].kind = "assistant" /\ h[i].calls > 0) =>
               i < Len(h) /\ Answers(h, i)
          /\ h[i].kind = "results" => i > 1 /\ Answers(h, i - 1)
      BY <2>1 DEF WellFormed
    <2>3. ASSUME g[i].kind = "assistant", g[i].calls > 0
          PROVE  i < n /\ Answers(g, i)
      <3>1. Answers(h, i)
        BY <2>1, <2>2, <2>3
      <3>2. i + 1 # k
        BY <3>1 DEF Answers
      <3>3. i < n /\ i + 1 \in 1 .. n
        BY <1>2, <3>2
      <3>4. g[i + 1] = h[i + 1]
        BY <1>5, <3>3
      <3>5. QED
        BY <2>1, <3>1, <3>3, <3>4 DEF Answers
    <2>4. ASSUME g[i].kind = "results"
          PROVE  i > 1 /\ Answers(g, i - 1)
      <3>1. i > 1 /\ Answers(h, i - 1)
        BY <2>1, <2>2, <2>4
      <3>2. PICK j \in 1 .. n : j = i - 1 /\ j + 1 = i
        BY <3>1
      <3>3. g[j] = h[j] /\ g[j + 1] = h[j + 1] /\ Answers(h, j)
        BY <1>5, <3>1, <3>2
      <3>4. Answers(g, j)
        BY <3>3 DEF Answers
      <3>5. QED
        BY <3>1, <3>2, <3>4
    <2>5. QED
      BY <2>3, <2>4
  <1>8. WellFormed(g)
    BY <1>5, <1>6, <1>7 DEF WellFormed
  <1>9. QED
    BY <1>5, <1>8 DEF g

\* Up to a turn that neither calls nor answers.
LEMMA WellFormedUpTo ==
  ASSUME NEW h \in Seq(Turn), WellFormed(h), NEW k \in 1 .. Len(h),
         ~Paired(h[k])
  PROVE  SubSeq(h, 1, k) \in Seq(Turn) /\ WellFormed(SubSeq(h, 1, k))
  <1>1. k \in Nat \ {0} /\ h[k] \in Turn /\ \A i \in 1 .. k : h[i] \in Turn
    BY LenProperties, ElementOfSeq
  <1>2. /\ SubSeq(h, 1, k - 1) \in Seq(Turn) /\ WellFormed(SubSeq(h, 1, k - 1))
    BY WellFormedBefore DEF Paired
  <1>3. SubSeq(h, 1, k) = Append(SubSeq(h, 1, k - 1), h[k])
    <2> DEFINE a == SubSeq(h, 1, k)
               b == SubSeq(h, 1, k - 1)
               c == Append(b, h[k])
    <2>1. /\ a \in Seq(Turn) /\ Len(a) = k
          /\ \A i \in 1 .. k : a[i] = h[i]
      <3>1. /\ a \in Seq(Turn) /\ Len(a) = IF 1 <= k THEN k - 1 + 1 ELSE 0
            /\ \A i \in 1 .. k - 1 + 1 : a[i] = h[1 + i - 1]
        BY <1>1, SubSeqProperties
      <3>2. k - 1 + 1 = k /\ \A i \in 1 .. k : 1 + i - 1 = i
        BY <1>1
      <3> HIDE DEF a
      <3>3. QED
        BY <1>1, <3>1, <3>2
    <2>2. /\ b \in Seq(Turn) /\ Len(b) = k - 1
          /\ \A i \in 1 .. k - 1 : b[i] = h[i]
      <3>1. PICK n \in Nat : n = k - 1 /\ n + 1 = k
        BY <1>1
      <3>2. /\ SubSeq(h, 1, n) \in Seq(Turn)
            /\ Len(SubSeq(h, 1, n)) = IF 1 <= n THEN n - 1 + 1 ELSE 0
            /\ \A i \in 1 .. n - 1 + 1 : SubSeq(h, 1, n)[i] = h[1 + i - 1]
        BY <1>1, <3>1, SubSeqProperties
      <3>3. b = SubSeq(h, 1, n)
        BY <3>1
      <3>4. n - 1 + 1 = n /\ \A i \in 1 .. n : 1 + i - 1 = i
        OBVIOUS
      <3> HIDE DEF b
      <3>5. QED
        BY <3>1, <3>2, <3>3, <3>4
    <2> HIDE DEF a, b
    <2>3. /\ c \in Seq(Turn) /\ Len(c) = k
          /\ \A i \in 1 .. k - 1 : c[i] = b[i]
          /\ c[k] = h[k]
      BY <1>1, <2>2, AppendProperties
    <2> HIDE DEF c
    <2>4. \A i \in 1 .. k : a[i] = c[i]
      BY <1>1, <2>1, <2>2, <2>3
    <2>5. a = c
      BY <1>1, <2>1, <2>3, <2>4, SeqEqual
    <2>6. QED
      BY <2>5 DEF a, b, c
  <1>4. QED
    BY <1>1, <1>2, <1>3, WellFormedAppend

\* The calls of the last turn are answered.
LEMMA WellFormedAnswered ==
  ASSUME NEW h \in Seq(Turn), WellFormed(h), NEW a \in Turn, NEW b \in Turn,
         a.kind = "assistant", a.calls > 0, b.kind = "results",
         a.run = b.run, a.round = b.round, a.calls = b.calls
  PROVE  WellFormed(Append(Append(h, a), b))
  <1> DEFINE f == Append(h, a)
             g == Append(f, b)
  <1>1. PICK n \in Nat : n = Len(h)
    BY LenProperties
  <1>2. /\ f \in Seq(Turn) /\ Len(f) = n + 1
        /\ \A i \in 1 .. n : f[i] = h[i]
        /\ f[n + 1] = a
    BY <1>1, AppendProperties
  <1> HIDE DEF f
  <1>3. /\ g \in Seq(Turn) /\ Len(g) = n + 2
        /\ \A i \in 1 .. n + 1 : g[i] = f[i]
        /\ g[n + 2] = b
    <2>1. /\ g \in Seq(Turn) /\ Len(g) = Len(f) + 1
          /\ \A i \in 1 .. Len(f) : g[i] = f[i]
          /\ g[Len(f) + 1] = b
      BY <1>2, AppendProperties
    <2> HIDE DEF g
    <2>2. QED
      BY <1>2, <2>1
  <1> HIDE DEF g
  <1>4. /\ \A i \in 1 .. n : g[i] = h[i]
        /\ g[n + 1] = a /\ g[n + 2] = b
        /\ DOMAIN g = 1 .. n + 2 /\ DOMAIN h = 1 .. n
    BY <1>1, <1>2, <1>3, LenProperties
  <1>5. Answers(g, n + 1)
    <2>1. PICK m : m = n + 1
      OBVIOUS
    <2>2. m + 1 = n + 2 /\ g[m] = a /\ g[m + 1] = b
      BY <1>4, <2>1
    <2>3. Answers(g, m)
      BY <2>2 DEF Answers
    <2>4. QED
      BY <2>1, <2>3
  <1>6. ASSUME NEW i \in 1 .. n + 2
        PROVE  /\ (g[i].kind = "assistant" /\ g[i].calls > 0) =>
                    i < n + 2 /\ Answers(g, i)
               /\ g[i].kind = "results" => i > 1 /\ Answers(g, i - 1)
    <2>1. CASE i = n + 2
      BY <1>4, <1>5, <2>1
    <2>2. CASE i = n + 1
      BY <1>4, <1>5, <2>2
    <2>3. CASE i \in 1 .. n
      <3>1. /\ (h[i].kind = "assistant" /\ h[i].calls > 0) =>
                 i < n /\ Answers(h, i)
            /\ h[i].kind = "results" => i > 1 /\ Answers(h, i - 1)
        BY <1>1, <1>4, <2>3 DEF WellFormed
      <3>2. g[i] = h[i]
        BY <1>4, <2>3
      <3>3. ASSUME g[i].kind = "assistant", g[i].calls > 0
            PROVE  i < n + 2 /\ Answers(g, i)
        <4>1. i < n /\ Answers(h, i)
          BY <3>1, <3>2, <3>3
        <4>2. g[i + 1] = h[i + 1]
          BY <1>4, <2>3, <4>1
        <4>3. QED
          BY <2>3, <3>2, <4>1, <4>2 DEF Answers
      <3>4. ASSUME g[i].kind = "results"
            PROVE  i > 1 /\ Answers(g, i - 1)
        <4>1. i > 1 /\ Answers(h, i - 1)
          BY <3>1, <3>2, <3>4
        <4>2. PICK k \in 1 .. n : k = i - 1 /\ k + 1 = i
          BY <2>3, <4>1
        <4>3. g[k] = h[k] /\ g[k + 1] = h[k + 1] /\ Answers(h, k)
          BY <1>4, <2>3, <4>1, <4>2
        <4>4. Answers(g, k)
          BY <4>3 DEF Answers
        <4>5. QED
          BY <4>1, <4>2, <4>4
      <3>5. QED
        BY <3>3, <3>4
    <2>4. QED
      BY <2>1, <2>2, <2>3
  <1>7. WellFormed(g)
    BY <1>3, <1>4, <1>6 DEF WellFormed
  <1>8. QED
    BY <1>7 DEF f, g
(***************************************************************************)
(* Every request is well-formed.  What is inductive: while the history is  *)
(* not spoiled at most one run executes, before the first client_cancel or *)
(* after, because a prompt that starts a second one spoils it; and the     *)
(* history is well-formed but for the calls that this run has yet to       *)
(* execute, which its last turn holds.                                     *)
(***************************************************************************)
\* r has calls to execute that no turn answers yet.
Waiting(r) ==
  \/ run[r].pc \in {"copy", "publish"} /\ run[r].calls > 0 /\ run[r].call = 0
  \/ run[r].pc = "tool"

Good(r) ==
  IF Waiting(r)
    THEN run[r].calls > 0 /\
         \E h \in Seq(Turn) :
           WellFormed(h) /\ history = Append(h, AssistantTurn(r, run[r].calls))
    ELSE WellFormed(history)

OneRun == \A r, q \in Runs : Executing(r) /\ Executing(q) => r = q

HistoryInv ==
  ~spoiled => /\ WellFormed(stored) /\ OneRun
              /\ Quiet => WellFormed(history)
              /\ \A r \in Runs : Executing(r) => Good(r)

LEMMA HistoryInit == Init => HistoryInv
  <1> SUFFICES ASSUME Init, ~spoiled
               PROVE  /\ WellFormed(stored) /\ WellFormed(history)
                      /\ \A r \in Runs : ~Executing(r)
    BY DEF HistoryInv, OneRun
  <1>1. WellFormed(history) /\ WellFormed(stored)
    BY DEF Init
  <1>2. \A r \in Runs : run[r].pc = "none"
    BY DEF Init, NoRun
  <1>3. QED
    BY <1>1, <1>2 DEF Executing

LEMMA Trimmed ==
  ASSUME TypeOK, WellFormed(history), NEW k \in 0 .. Len(history), TrimPoint(k)
  PROVE  /\ WellFormed(SubSeq(history, 1, k))
         /\ k > 0 => /\ SubSeq(history, 1, k - 1) \in Seq(Turn)
                     /\ WellFormed(SubSeq(history, 1, k - 1))
  <1>1. history \in Seq(Turn)
    BY DEF TypeOK
  <1>2. CASE k = 0
    <2>1. SubSeq(history, 1, k) = <<>>
      BY <1>2, SubSeqEmpty
    <2>2. WellFormed(SubSeq(history, 1, k))
      BY ONLY <2>1, WellFormedEmpty, Zenon
    <2>3. QED
      BY <1>2, <2>2
  <1>3. CASE k > 0
    <2>1. k \in 1 .. Len(history) /\ history[k].kind = "user"
      BY <1>1, <1>3, LenProperties DEF TrimPoint
    <2>2. history[k].kind # "results" /\ ~Paired(history[k])
      BY <2>1 DEF Paired
    <2>3. QED
      BY <1>1, <2>1, <2>2, WellFormedBefore, WellFormedUpTo
  <1>4. QED
    BY <1>1, <1>2, <1>3, LenProperties

\* What a client frame does to the history.
LEMMA ClientHistory ==
  ASSUME TypeOK, Client
  PROVE  /\ stored' = stored
         /\ \/ UNCHANGED <<history, spoiled>> /\ Unmoved
            \/ spoiled'
            \/ ~spoiled /\ Quiet /\ (WellFormed(history) => WellFormed(history'))
  <1> USE DEF envVars, auxVars, sessionVars
  <1>a. /\ history \in Seq(Turn)
        /\ \A m \in Msgs : /\ UserTurn(m) \in Turn /\ ~Paired(UserTurn(m))
                           /\ TextTurn(m) \in Turn /\ ~Paired(TextTurn(m))
    BY TurnTypes DEF TypeOK, Paired, UserTurn, TextTurn
  <1>b. Meddles => spoiled' \/ (~spoiled /\ Quiet)
    BY DEF Meddles, Quiet
  <1>1. ASSUME NEW m \in Msgs, ClientAppend(m)
        PROVE  /\ stored' = stored
               /\ \/ UNCHANGED <<history, spoiled>> /\ Unmoved
                  \/ spoiled'
                  \/ ~spoiled /\ Quiet /\ (WellFormed(history) => WellFormed(history'))
    <2>1. CASE m = lastMsgID
      BY <1>1, <2>1 DEF ClientAppend, Unmoved
    <2>2. CASE m # lastMsgID
      <3>1. history' = Append(history, UserTurn(m)) /\ Meddles /\ stored' = stored
        BY <1>1, <2>2 DEF ClientAppend
      <3>2. WellFormed(history) => WellFormed(history')
        BY <1>a, <3>1, WellFormedAppend
      <3>3. QED
        BY <1>b, <3>1, <3>2
    <2>3. QED
      BY <2>1, <2>2
  <1>2. CASE ClientRetry
    <2>1. PICK k \in 0 .. Len(history) :
            TrimPoint(k) /\ history' = SubSeq(history, 1, k)
      BY <1>2 DEF ClientRetry
    <2>2. Meddles /\ stored' = stored
      BY <1>2 DEF ClientRetry
    <2>3. WellFormed(history) => WellFormed(history')
      BY <2>1, Trimmed
    <2>4. QED
      BY <1>b, <2>2, <2>3
  <1>3. ASSUME NEW m \in Msgs, ClientEdit(m)
        PROVE  /\ stored' = stored
               /\ \/ spoiled'
                  \/ ~spoiled /\ Quiet /\ (WellFormed(history) => WellFormed(history'))
    <2>1. PICK k \in 0 .. Len(history) :
            /\ TrimPoint(k)
            /\ history' = IF k = 0 THEN <<>>
                          ELSE Append(SubSeq(history, 1, k - 1), TextTurn(m))
      BY <1>3 DEF ClientEdit
    <2>2. Meddles /\ stored' = stored
      BY <1>3 DEF ClientEdit
    <2>3. ASSUME WellFormed(history) PROVE WellFormed(history')
      <3>1. CASE k = 0
        BY <2>1, <3>1, WellFormedEmpty
      <3>2. CASE k # 0
        <4>1. /\ SubSeq(history, 1, k - 1) \in Seq(Turn)
              /\ WellFormed(SubSeq(history, 1, k - 1))
          BY <1>a, <2>1, <2>3, <3>2, Trimmed, LenProperties
        <4>2. QED
          BY <1>a, <2>1, <3>2, <4>1, WellFormedAppend
      <3>3. QED
        BY <3>1, <3>2
    <2>4. QED
      BY <1>b, <2>2, <2>3
  <1>4. CASE ClientCancel
    <2>1. UNCHANGED <<history, spoiled, stored, runs>>
      BY <1>4 DEF ClientCancel
    <2>2. Unmoved
      <3>1. CASE inflightCancel = 0
        BY <1>4, <2>1, <3>1 DEF ClientCancel, Unmoved
      <3>2. CASE inflightCancel # 0
        <4>1. inflightCancel \in Runs
          BY <3>2, SessionAssumption DEF TypeOK, Runs
        <4>2. QED
          BY <1>4, <2>1, <3>2, <4>1 DEF ClientCancel, TypeOK, RunRecord, Unmoved
      <3>3. QED
        BY <3>1, <3>2
    <2>3. QED
      BY <2>1, <2>2
  <1>5. ASSUME NEW t \in ToolIds, ToolResult(t)
        PROVE  stored' = stored /\ UNCHANGED <<history, spoiled>> /\ Unmoved
    BY <1>5 DEF ToolResult, Unmoved
  <1>6. CASE ClientAppendPassthrough \/ Disconnect \/ UpstreamFinish
    BY <1>6 DEF ClientAppendPassthrough, Disconnect, UpstreamFinish, Unmoved
  <1>7. QED
    BY <1>1, <1>2, <1>3, <1>4, <1>5, <1>6 DEF Client
\* What a step of the run itself does to the history.
LEMMA StepGood ==
  ASSUME TypeOK, NEW r \in Runs, RunStep(r), Good(r), WellFormed(stored),
         ~spoiled'
  PROVE  Good(r)'
  <1> USE DEF envVars, auxVars, sessionVars, At
  <1>a. /\ run[r] \in RunRecord /\ history \in Seq(Turn) /\ stored \in Seq(Turn)
        /\ run[r].calls \in Nat /\ run[r].call \in Nat
    BY SessionAssumption DEF TypeOK, RunRecord
  <1>b. ASSUME ~Waiting(r), UNCHANGED history,
               run'[r].pc \notin {"copy", "publish", "tool"}
        PROVE  Good(r)'
    BY <1>b DEF Good, Waiting
  <1>c. ASSUME run'[r].pc \notin {"copy", "publish", "tool"}, WellFormed(history')
        PROVE  Good(r)'
    BY <1>c DEF Good, Waiting
  <1>1. CASE RunStart(r) \/ HydrateSkip(r) \/ HydrateFails(r)
    <2>1. /\ Go(r, "started") \/ Go(r, "warm")
          /\ UNCHANGED history /\ run[r].pc \in {"spawned", "cold"}
      BY <1>1 DEF RunStart, HydrateSkip, HydrateFails
    <2>2. run'[r].pc \in {"started", "warm"}
      BY <2>1, GoChange
    <2>3. QED
      BY <1>b, <2>1, <2>2 DEF Waiting
  <1>2. CASE DispatchFails(r) \/ RequestAccepted(r) \/ RequestFails(r) \/ ClearCancel(r)
    <2>1. /\ Go(r, "closing") \/ Go(r, "stream") \/ Go(r, "cleared")
          /\ UNCHANGED history
          /\ run[r].pc \in {"warm", "request", "stream", "closing"}
      BY <1>2 DEF DispatchFails, RequestAccepted, RequestFails, ClearCancel, Fail
    <2>2. run'[r].pc \in {"closing", "stream", "cleared"}
      BY <2>1, GoChange
    <2>3. QED
      BY <1>b, <2>1, <2>2 DEF Waiting
  <1>3. CASE RunPrepare(r)
    <2>1. run'[r] = [run[r] EXCEPT !.pc = "cold", !.needsHydrate = ~hydrated,
                                   !.priorLocalLen = Len(history)]
      BY <1>3, BecomeChange DEF RunPrepare
    <2>2. run'[r].pc = "cold"
      BY <1>a, <2>1 DEF RunRecord
    <2>3. QED
      BY <1>b, <1>3, <2>2 DEF RunPrepare, Waiting
  <1>4. ASSUME NEW p \in Providers, Dispatch(r, p) PROVE Good(r)'
    <2>1. run'[r] = [run[r] EXCEPT !.pc = "request", !.round = 1, !.provider = p]
      BY <1>4, BecomeChange DEF Dispatch
    <2>2. run'[r].pc = "request"
      BY <1>a, <2>1 DEF RunRecord
    <2>3. QED
      BY <1>b, <1>4, <2>2 DEF Dispatch, Waiting
  <1>5. CASE GeminiFallback(r)
    <2>1. run'[r] = [run[r] EXCEPT !.round = 2, !.provider = "anthropic"]
      BY <1>5, BecomeChange DEF GeminiFallback
    <2>2. run'[r].pc = "request"
      BY <1>a, <1>5, <2>1 DEF RunRecord, GeminiFallback
    <2>3. QED
      BY <1>b, <1>5, <2>2 DEF GeminiFallback, Waiting
  <1>6. CASE MarkIdle(r)
    <2>1. run'[r] = [NoRun EXCEPT !.pc = "done"]
      BY <1>6, BecomeChange DEF MarkIdle
    <2>2. run'[r].pc = "done"
      BY <2>1 DEF NoRun
    <2>3. QED
      BY <1>b, <1>6, <2>2 DEF MarkIdle, Waiting
  <1>7. CASE HydrateOk(r)
    <2>1. run'[r].pc = "warm" /\ ~Waiting(r)
      BY <1>7, GoChange DEF HydrateOk, Waiting
    <2>2. WellFormed(history)
      BY <2>1 DEF Good
    <2>3. TextTurn(run[r].prompt) \in Turn /\ ~Paired(TextTurn(run[r].prompt))
      BY <1>a, TurnTypes DEF RunRecord, Paired, TextTurn, UserTurn
    <2>4. WellFormed(history')
      BY <1>a, <1>7, <2>2, <2>3, WellFormedAppend DEF HydrateOk
    <2>5. QED
      BY <1>c, <2>1, <2>4
  <1>8. ASSUME NEW n \in 0 .. MaxCalls, NEW calls \in 0 .. MaxCalls,
               At(r, "stream"), AppendAnswer(r, n, calls)
        PROVE  Good(r)'
    <2>1. run'[r] = [run[r] EXCEPT !.pc = "copy", !.calls = calls, !.call = 0]
      BY <1>8, BecomeChange DEF AppendAnswer
    <2>2. calls = n /\ history' = Append(history, AssistantTurn(r, n))
      BY <1>8 DEF AppendAnswer
    <2>3. /\ run'[r].pc = "copy" /\ run'[r].calls = n /\ run'[r].call = 0
          /\ run'[r].round = run[r].round
      BY <1>a, <2>1, <2>2 DEF RunRecord
    <2>4. AssistantTurn(r, n)' = AssistantTurn(r, n)
      BY <2>3 DEF AssistantTurn
    <2>5. WellFormed(history)
      BY <1>8 DEF Good, Waiting
    <2>6. CASE n > 0
      <3>1. Waiting(r)'
        BY <2>3, <2>6 DEF Waiting
      <3>2. history' = Append(history, AssistantTurn(r, run[r].calls)')
        BY <2>2, <2>3, <2>4 DEF AssistantTurn
      <3>3. QED
        BY <1>a, <2>3, <2>5, <2>6, <3>1, <3>2 DEF Good
    <2>7. CASE n = 0
      <3>1. ~Waiting(r)'
        BY <2>3, <2>7 DEF Waiting
      <3>2. AssistantTurn(r, n) \in Turn /\ ~Paired(AssistantTurn(r, n))
        BY <2>7, RunTypes DEF Paired, AssistantTurn
      <3>3. WellFormed(history')
        BY <1>a, <2>2, <2>5, <3>2, WellFormedAppend
      <3>4. QED
        BY <3>1, <3>3 DEF Good
    <2>8. QED
      BY <2>6, <2>7
  <1>9. ASSUME UNCHANGED history, Waiting(r)' <=> Waiting(r),
               run'[r].calls = run[r].calls, run'[r].round = run[r].round
        PROVE  Good(r)'
    <2>1. AssistantTurn(r, run[r].calls)' = AssistantTurn(r, run[r].calls)
      BY <1>9 DEF AssistantTurn
    <2>2. QED
      BY <1>9, <2>1 DEF Good
  <1>10. CASE Copy(r)
    <2>1. run'[r] = [run[r] EXCEPT !.pc = "publish", !.copied = history]
      BY <1>10, BecomeChange DEF Copy
    <2>2. /\ run'[r].pc = "publish" /\ run'[r].calls = run[r].calls
          /\ run'[r].call = run[r].call /\ run'[r].round = run[r].round
      BY <1>a, <2>1 DEF RunRecord
    <2>3. QED
      BY <1>9, <1>10, <2>2 DEF Copy, Waiting
  <1>11. CASE StopRound(r) \/ RoundsUsedUp(r)
    <2>1. run'[r] = [run[r] EXCEPT !.pc = "closing", !.copied = <<>>]
      BY <1>11, BecomeChange DEF StopRound, RoundsUsedUp, Publish
    <2>2. run'[r].pc = "closing"
      BY <1>a, <2>1 DEF RunRecord
    <2>3. ~Waiting(r) /\ UNCHANGED history
      BY <1>a, <1>11 DEF StopRound, RoundsUsedUp, Publish, Waiting, Collected
    <2>4. QED
      BY <1>b, <2>2, <2>3
  <1>12. CASE FirstTool(r)
    <2>1. run'[r] = [run[r] EXCEPT !.pc = "tool", !.call = 1, !.copied = <<>>]
      BY <1>12, BecomeChange DEF FirstTool
    <2>2. /\ run'[r].pc = "tool" /\ run'[r].calls = run[r].calls
          /\ run'[r].round = run[r].round
      BY <1>a, <2>1 DEF RunRecord
    <2>3. QED
      BY <1>9, <1>12, <2>2 DEF FirstTool, Waiting
  <1>13. CASE NextTool(r)
    <2>1. run'[r] = [run[r] EXCEPT !.call = run[r].call + 1]
      BY <1>13, BecomeChange DEF NextTool
    <2>2. /\ run'[r].pc = run[r].pc /\ run'[r].calls = run[r].calls
          /\ run'[r].round = run[r].round
      BY <1>a, <2>1 DEF RunRecord
    <2>3. QED
      BY <1>9, <1>13, <2>2 DEF NextTool, Waiting
  <1>14. CASE LastTool(r)
    <2>1. /\ run'[r].pc = "copy" /\ run'[r].calls = run[r].calls
          /\ run'[r].call = run[r].call
      BY <1>14, GoChange DEF LastTool
    <2>2. /\ run[r].call = run[r].calls /\ Waiting(r)
          /\ history' = Append(history, ResultsTurn(r))
      BY <1>14 DEF LastTool, Collected, Waiting
    <2>3. run[r].calls > 0
      BY <2>2 DEF Good
    <2> PICK h \in Seq(Turn) :
          WellFormed(h) /\ history = Append(h, AssistantTurn(r, run[r].calls))
      BY <2>2 DEF Good
    <2> DEFINE a == AssistantTurn(r, run[r].calls)
               b == ResultsTurn(r)
    <2>4. a \in Turn /\ b \in Turn
      BY <1>a, RunTypes DEF RunRecord
    <2>5. /\ a.kind = "assistant" /\ a.calls > 0 /\ b.kind = "results"
          /\ a.run = b.run /\ a.round = b.round /\ a.calls = b.calls
      BY <2>2, <2>3 DEF AssistantTurn, ResultsTurn
    <2>6. history' = Append(Append(h, a), b)
      BY <2>2
    <2> HIDE DEF a, b
    <2>7. WellFormed(history')
      BY <2>4, <2>5, <2>6, WellFormedAnswered
    <2>8. ~Waiting(r)'
      BY <1>a, <2>1, <2>2, <2>3 DEF Waiting
    <2>9. QED
      BY <2>7, <2>8 DEF Good
  <1>15. CASE ToolAbandoned(r)
    BY <1>15 DEF ToolAbandoned
  <1>16. CASE NextRound(r)
    <2>1. run'[r] = [run[r] EXCEPT !.pc = "request",
                                   !.round = run[r].round + 1,
                                   !.calls = 0, !.call = 0, !.copied = <<>>]
      BY <1>16, BecomeChange DEF NextRound
    <2>2. run'[r].pc = "request"
      BY <1>a, <2>1 DEF RunRecord
    <2>3. ~Waiting(r) /\ UNCHANGED history
      BY <1>a, <1>16 DEF NextRound, Waiting, Collected
    <2>4. QED
      BY <1>b, <2>2, <2>3
  <1>17. QED
    BY <1>1, <1>2, <1>3, <1>4, <1>5, <1>6, <1>7, <1>8, <1>10, <1>11, <1>12,
       <1>13, <1>14, <1>15, <1>16, StepCases

\* A step spoils the history for good, and leaves the stored thread alone.
LEMMA StepStored ==
  ASSUME NEW r, RunStep(r)
  PROVE  stored' = stored /\ (spoiled => spoiled')
  <1> USE DEF envVars, auxVars, sessionVars
  <1>1. ASSUME NEW n, NEW calls, AppendAnswer(r, n, calls)
        PROVE  stored' = stored /\ (spoiled => spoiled')
    BY <1>1 DEF AppendAnswer
  <1>2. CASE \/ RunStart(r) \/ RunPrepare(r)
             \/ HydrateSkip(r) \/ HydrateFails(r) \/ HydrateOk(r)
    BY <1>2 DEF RunStart, RunPrepare, HydrateSkip, HydrateFails, HydrateOk
  <1>6. ASSUME NEW p, Dispatch(r, p)
        PROVE  stored' = stored /\ (spoiled => spoiled')
    BY <1>6 DEF Dispatch
  <1>3. CASE \/ DispatchFails(r) \/ RequestAccepted(r) \/ RequestFails(r)
             \/ GeminiFallback(r) \/ Copy(r) \/ StopRound(r)
    BY <1>3 DEF DispatchFails, RequestAccepted, RequestFails, GeminiFallback, Copy,
                StopRound
  <1>4. CASE \/ FirstTool(r) \/ NextTool(r) \/ LastTool(r) \/ ToolAbandoned(r)
             \/ NextRound(r) \/ RoundsUsedUp(r) \/ ClearCancel(r) \/ MarkIdle(r)
    BY <1>4 DEF FirstTool, NextTool, LastTool, ToolAbandoned, NextRound,
                RoundsUsedUp, ClearCancel, MarkIdle
  <1>5. QED
    BY <1>1, <1>2, <1>3, <1>4, <1>6, StepCases

LEMMA HistoryNext ==
  TypeOK /\ InOrder /\ HistoryInv /\ [Next]_vars => HistoryInv'
  <1> SUFFICES ASSUME TypeOK, InOrder, HistoryInv, [Next]_vars, ~spoiled'
               PROVE  /\ WellFormed(stored)' /\ OneRun'
                      /\ Quiet' => WellFormed(history)'
                      /\ \A r \in Runs : Executing(r)' => Good(r)'
    BY DEF HistoryInv
  <1>1. CASE UNCHANGED vars
    BY <1>1 DEF vars, sessionVars, envVars, auxVars, HistoryInv, OneRun, Quiet,
                Executing, Good, Waiting, AssistantTurn
  <1>2. CASE Client
    <2>1. /\ stored' = stored
          /\ \/ UNCHANGED <<history, spoiled>> /\ Unmoved
             \/ ~spoiled /\ Quiet /\ (WellFormed(history) => WellFormed(history'))
      BY <1>2, ClientHistory
    <2>2. CASE UNCHANGED <<history, spoiled>> /\ Unmoved
      <3>1. \A r \in Runs : Executing(r)' <=> Executing(r)
        BY <2>2 DEF Unmoved, Executing
      <3>2. \A r \in Runs : Good(r)' <=> Good(r)
        BY <2>2 DEF Unmoved, Good, Waiting, AssistantTurn
      <3>3. QED
        BY <2>1, <2>2, <3>1, <3>2 DEF HistoryInv, OneRun, Quiet
    <2>3. CASE ~spoiled /\ Quiet /\ (WellFormed(history) => WellFormed(history'))
      <3>1. WellFormed(stored) /\ WellFormed(history')
        BY <2>3 DEF HistoryInv
      <3>2. CASE Unmoved
        BY <2>1, <2>3, <3>1, <3>2 DEF Unmoved, OneRun, Quiet, Executing
      <3>3. CASE Starts
        <4>1. PICK m : run'[runs + 1] = [run[runs + 1] EXCEPT !.pc = "spawned",
                                                              !.prompt = m]
          BY <3>3 DEF Starts
        <4>2. /\ runs + 1 \in Runs /\ run[runs + 1] \in RunRecord
              /\ \A q \in Runs \ {runs + 1} : run'[q] = run[q]
          BY <3>3 DEF Starts, TypeOK
        <4>3. run'[runs + 1].pc = "spawned"
          BY <4>1, <4>2 DEF RunRecord
        <4>4. \A q \in Runs \ {runs + 1} : ~Executing(q)'
          BY <2>3, <4>2 DEF Quiet, Executing
        <4>5. \A q \in Runs : Executing(q)' => Good(q)'
          <5>1. PICK r \in Runs : r = runs + 1
            BY <4>2
          <5>2. Good(r)'
            BY <3>1, <4>3, <5>1 DEF Good, Waiting
          <5>3. QED
            BY <4>4, <5>1, <5>2
        <4>6. OneRun'
          BY <4>4 DEF OneRun
        <4>7. WellFormed(stored)'
          BY <2>1, <3>1
        <4>8. QED
          BY <3>1, <4>5, <4>6, <4>7
      <3>4. QED
        BY <1>2, <3>2, <3>3, ClientRuns DEF ClientChange
    <2>4. QED
      BY <2>1, <2>2, <2>3
  <1>3. ASSUME NEW r \in Runs, RunStep(r)
        PROVE  /\ WellFormed(stored)' /\ OneRun'
               /\ Quiet' => WellFormed(history)'
               /\ \A q \in Runs : Executing(q)' => Good(q)'
    <2>1. stored' = stored /\ ~spoiled
      BY <1>3, StepStored
    <2>2. Executing(r) /\ \A q \in Runs \ {r} : run'[q] = run[q]
      BY <1>3, StepRuns DEF StepChange
    <2>3. WellFormed(stored) /\ Good(r) /\ \A q \in Runs \ {r} : ~Executing(q)
      BY <2>1, <2>2 DEF HistoryInv, OneRun
    <2>4. Good(r)'
      BY <1>3, <2>3, StepGood
    <2>5. \A q \in Runs \ {r} : ~Executing(q)'
      BY <2>2, <2>3 DEF Executing
    <2>6. Quiet' => WellFormed(history)'
      BY <2>4 DEF Quiet, Executing, Good, Waiting
    <2>7. QED
      BY <2>1, <2>3, <2>4, <2>5, <2>6 DEF OneRun
  <1>4. QED
    BY <1>1, <1>2, <1>3 DEF Next, Finished

\* Every request carries a history in which each tool call is answered by
\* the turn that follows, however many rounds, retries, edits and hydrations
\* came before, unless one of the ways to spoil it was taken
\* (observeClient, hydrateFromDTW, runLocalInference's tool loops).
THEOREM HistoryKept == Spec => []RequestsWellFormed
  <1>1. HistoryInv => RequestsWellFormed
    BY DEF HistoryInv, RequestsWellFormed, Good, Waiting, At, Executing
  <1>2. RunInv => InOrder
    BY DEF RunInv
  <1>3. QED
    BY <1>1, <1>2, HistoryInit, HistoryNext, RunInvInit, RunInvNext, TypeCorrect, PTL
    DEF Spec
(***************************************************************************)
(* Every answer reaches the process-wide thread.  The copy that a run is   *)
(* about to publish may be older than the history, but until the first     *)
(* client_cancel only this run appends answers: the client adds prompts    *)
(* and drops turns.                                                        *)
(***************************************************************************)
\* An answer of this session.
Answer(turn) == turn.kind = "assistant" /\ turn.run # 0

\* g has the answers of h.
Keeps(g, h) == \A i \in DOMAIN h : Answer(h[i]) => \E j \in DOMAIN g : g[j] = h[i]

Copying(r) == run[r].pc \in {"copy", "publish"}

Reached ==
  \A i \in DOMAIN history : Answer(history[i]) =>
    \/ \E j \in DOMAIN thread : thread[j] = history[i]
    \/ Copying(history[i].run)

Copied == \A r \in Runs : At(r, "publish") => Keeps(run[r].copied, history)

ThreadInv == Earlier(stored) /\ (~cancelUsed => Reached /\ Copied)

LEMMA ThreadInit == Init => ThreadInv
  <1> SUFFICES ASSUME Init PROVE ThreadInv
    OBVIOUS
  <1> PICK t \in Threads : history = t.bound /\ stored = t.stored
    BY DEF Init
  <1>1. Earlier(history) /\ Earlier(stored)
    BY SessionAssumption
  <1>2. \A i \in DOMAIN history : ~Answer(history[i])
    BY <1>1 DEF Earlier, Answer
  <1>3. \A r \in Runs : run[r].pc = "none"
    BY DEF Init, NoRun
  <1>4. QED
    BY <1>1, <1>2, <1>3 DEF ThreadInv, Reached, Copied, At

LEMMA KeepsSame == ASSUME NEW h PROVE Keeps(h, h)
  BY DEF Keeps

LEMMA KeepsAppend ==
  ASSUME NEW h \in Seq(Turn), NEW turn \in Turn, ~Answer(turn), NEW g, Keeps(g, h)
  PROVE  Keeps(g, Append(h, turn))
  <1> DEFINE f == Append(h, turn)
  <1>1. /\ f \in Seq(Turn) /\ Len(f) = Len(h) + 1 /\ Len(h) \in Nat
        /\ \A i \in 1 .. Len(h) : f[i] = h[i]
        /\ f[Len(h) + 1] = turn
    BY LenProperties, AppendProperties
  <1>2. DOMAIN f = 1 .. Len(f) /\ DOMAIN h = 1 .. Len(h)
    BY <1>1, LenProperties
  <1> HIDE DEF f
  <1>3. ASSUME NEW i \in DOMAIN f, Answer(f[i])
        PROVE  \E j \in DOMAIN g : g[j] = f[i]
    <2>1. i # Len(h) + 1
      BY <1>1, <1>3
    <2>2. i \in DOMAIN h /\ f[i] = h[i]
      BY <1>1, <1>2, <2>1
    <2>3. QED
      BY <1>3, <2>2 DEF Keeps
  <1>4. QED
    BY <1>3 DEF Keeps, f

LEMMA KeepsPrefix ==
  ASSUME NEW h \in Seq(Turn), NEW k \in Nat, k <= Len(h)
  PROVE  SubSeq(h, 1, k) \in Seq(Turn) /\ Keeps(h, SubSeq(h, 1, k))
  <1> DEFINE f == SubSeq(h, 1, k)
  <1>1. \A i \in 1 .. k : h[i] \in Turn
    BY LenProperties, ElementOfSeq
  <1>2. /\ f \in Seq(Turn) /\ Len(f) = k
        /\ \A i \in 1 .. k : f[i] = h[i]
    <2>1. /\ f \in Seq(Turn) /\ Len(f) = IF 1 <= k THEN k - 1 + 1 ELSE 0
          /\ \A i \in 1 .. k - 1 + 1 : f[i] = h[1 + i - 1]
      BY <1>1, SubSeqProperties
    <2>2. k - 1 + 1 = k /\ \A i \in 1 .. k : 1 + i - 1 = i
      OBVIOUS
    <2> HIDE DEF f
    <2>3. QED
      BY <2>1, <2>2
  <1> HIDE DEF f
  <1>3. DOMAIN f = 1 .. k /\ DOMAIN h = 1 .. Len(h) /\ Len(h) \in Nat
    BY <1>2, LenProperties
  <1>4. Keeps(h, f)
    BY <1>2, <1>3 DEF Keeps
  <1>5. QED
    BY <1>2, <1>4 DEF f

\* No client frame adds an answer or touches the copy of a run.
LEMMA ClientAnswers ==
  ASSUME TypeOK, Client, ~cancelUsed'
  PROVE  /\ UNCHANGED <<thread, stored, cancelUsed>>
         /\ run' = run \/ Starts
         /\ Keeps(history, history')
  <1> USE DEF envVars, auxVars, sessionVars
  <1>a. /\ history \in Seq(Turn) /\ Len(history) \in Nat
        /\ \A m \in Msgs : /\ UserTurn(m) \in Turn /\ ~Answer(UserTurn(m))
                           /\ TextTurn(m) \in Turn /\ ~Answer(TextTurn(m))
    BY TurnTypes, LenProperties DEF TypeOK, Answer, UserTurn, TextTurn
  <1>b. Keeps(history, history)
    BY KeepsSame
  <1>c. ASSUME NEW m, Prompt(m) PROVE run' = run \/ Starts
    <2>1. CASE CanRun
      <3>1. ~inflight /\ inflight'
        BY <1>c, <2>1 DEF Prompt, CanRun
      <3>2. QED
        BY <1>c, <3>1, PromptRuns
    <2>2. CASE ~CanRun
      BY <1>c, <2>2 DEF Prompt
    <2>3. QED
      BY <2>1, <2>2
  <1>1. ASSUME NEW m \in Msgs, ClientAppend(m)
        PROVE  /\ UNCHANGED <<thread, stored, cancelUsed>>
               /\ run' = run \/ Starts
               /\ Keeps(history, history')
    <2>1. CASE m = lastMsgID
      BY <1>b, <1>1, <2>1 DEF ClientAppend
    <2>2. CASE m # lastMsgID
      <3>1. /\ history' = Append(history, UserTurn(m)) /\ Prompt(m)
            /\ UNCHANGED <<thread, stored, cancelUsed>>
        BY <1>1, <2>2 DEF ClientAppend
      <3>2. Keeps(history, history')
        BY <1>a, <1>b, <3>1, KeepsAppend
      <3>3. QED
        BY <1>c, <3>1, <3>2
    <2>3. QED
      BY <2>1, <2>2
  <1>2. CASE ClientRetry
    <2>1. PICK k \in 0 .. Len(history) : history' = SubSeq(history, 1, k)
      BY <1>2 DEF ClientRetry
    <2>2. Keeps(history, history')
      BY <1>a, <2>1, KeepsPrefix
    <2>3. run' = run \/ Starts
      BY <1>c, <1>2 DEF ClientRetry
    <2>4. QED
      BY <1>2, <2>2, <2>3 DEF ClientRetry
  <1>3. ASSUME NEW m \in Msgs, ClientEdit(m)
        PROVE  /\ UNCHANGED <<thread, stored, cancelUsed>>
               /\ run' = run \/ Starts
               /\ Keeps(history, history')
    <2>1. PICK k \in 0 .. Len(history) :
            history' = IF k = 0 THEN <<>>
                       ELSE Append(SubSeq(history, 1, k - 1), TextTurn(m))
      BY <1>3 DEF ClientEdit
    <2>2. CASE k = 0
      <3>1. history' = <<>>
        BY <2>1, <2>2
      <3>2. Keeps(history, history')
        BY <3>1 DEF Keeps
      <3>3. QED
        BY <1>c, <1>3, <3>2 DEF ClientEdit
    <2>3. CASE k # 0
      <3>1. PICK n \in Nat : n = k - 1 /\ n <= Len(history)
        BY <1>a, <2>3
      <3>2. /\ SubSeq(history, 1, n) \in Seq(Turn)
            /\ Keeps(history, SubSeq(history, 1, n))
        BY <1>a, <3>1, KeepsPrefix
      <3>3. history' = Append(SubSeq(history, 1, n), TextTurn(m))
        BY <2>1, <2>3, <3>1
      <3>4. Keeps(history, history')
        BY <1>a, <3>2, <3>3, KeepsAppend
      <3>5. QED
        BY <1>c, <1>3, <3>4 DEF ClientEdit
    <2>4. QED
      BY <2>2, <2>3
  <1>4. CASE ClientCancel
    BY <1>4 DEF ClientCancel
  <1>5. ASSUME NEW t \in ToolIds, ToolResult(t)
        PROVE  UNCHANGED <<thread, stored, cancelUsed, run, history>>
    BY <1>5 DEF ToolResult
  <1>6. CASE ClientAppendPassthrough \/ Disconnect \/ UpstreamFinish
    BY <1>b, <1>6 DEF ClientAppendPassthrough, Disconnect, UpstreamFinish
  <1>7. QED
    BY <1>b, <1>1, <1>2, <1>3, <1>4, <1>5, <1>6 DEF Client

LEMMA StepAnswers ==
  ASSUME TypeOK, ThreadInv, ~cancelUsed, NEW r \in Runs, RunStep(r),
         \A q \in Runs \ {r} : ~Executing(q)
  PROVE  Earlier(stored)' /\ Reached' /\ Copied'
  <1> USE DEF envVars, auxVars, sessionVars, At
  <1>a. /\ run[r] \in RunRecord
        /\ history \in Seq(Turn) /\ stored \in Seq(Turn) /\ thread \in Seq(Turn)
        /\ DOMAIN history = 1 .. Len(history) /\ Len(history) \in Nat
        /\ \A i \in 1 .. Len(history) : history[i] \in Turn
    <2>1. history \in Seq(Turn) /\ stored \in Seq(Turn) /\ thread \in Seq(Turn)
      BY DEF TypeOK
    <2>2. \A i \in 1 .. Len(history) : history[i] \in Turn
      BY <2>1, ElementOfSeq
    <2>3. QED
      BY <2>1, <2>2, LenProperties DEF TypeOK
  <1>b. /\ stored' = stored
        /\ \A q \in Runs \ {r} : run'[q] = run[q]
        /\ \A q \in Runs \ {r} : run'[q].pc \notin {"copy", "publish"}
    BY StepRuns, StepStored DEF StepChange, Executing
  <1>c. \A i \in 1 .. Len(history) : Answer(history[i]) =>
          \/ \E j \in DOMAIN thread : thread[j] = history[i]
          \/ history[i].run = r /\ Copying(r)
    <2> SUFFICES ASSUME NEW i \in 1 .. Len(history), Answer(history[i]),
                        Copying(history[i].run)
                 PROVE  history[i].run = r
      BY <1>a DEF ThreadInv, Reached
    <2>1. history[i].run \in Runs
      BY <1>a, SessionAssumption DEF Answer, Turn, Runs
    <2>2. QED
      BY <2>1 DEF Copying, Executing
  <1>d. Earlier(stored)'
    BY <1>b DEF ThreadInv
  <1>e. run'[r].pc # "publish" => Copied'
    BY <1>b DEF Copied
  <1>1. ASSUME ~Copying(r), UNCHANGED <<history, thread>>,
               run'[r].pc # "publish"
        PROVE  Reached' /\ Copied'
    <2>1. ASSUME NEW i \in DOMAIN history', Answer(history'[i])
          PROVE  \E j \in DOMAIN thread' : thread'[j] = history'[i]
      BY <1>1, <1>a, <1>c, <2>1
    <2>2. QED
      BY <1>1, <1>e, <2>1 DEF Reached
  <1>2. CASE RunStart(r) \/ HydrateSkip(r) \/ HydrateFails(r)
    <2>1. /\ Go(r, "started") \/ Go(r, "warm")
          /\ UNCHANGED <<history, thread>> /\ run[r].pc \in {"spawned", "cold"}
      BY <1>2 DEF RunStart, HydrateSkip, HydrateFails
    <2>2. run'[r].pc \in {"started", "warm"}
      BY <2>1, GoChange
    <2>3. QED
      BY <1>1, <1>d, <2>1, <2>2 DEF Copying
  <1>3. CASE DispatchFails(r) \/ RequestAccepted(r) \/ RequestFails(r) \/ ClearCancel(r)
    <2>1. /\ Go(r, "closing") \/ Go(r, "stream") \/ Go(r, "cleared")
          /\ UNCHANGED <<history, thread>>
          /\ run[r].pc \in {"warm", "request", "stream", "closing"}
      BY <1>3 DEF DispatchFails, RequestAccepted, RequestFails, ClearCancel, Fail
    <2>2. run'[r].pc \in {"closing", "stream", "cleared"}
      BY <2>1, GoChange
    <2>3. QED
      BY <1>1, <1>d, <2>1, <2>2 DEF Copying
  <1>4. CASE ToolAbandoned(r)
    <2>1. Go(r, "closing") /\ UNCHANGED <<history, thread>> /\ run[r].pc = "tool"
      BY <1>4 DEF ToolAbandoned, Fail
    <2>2. run'[r].pc \in {"closing"}
      BY <2>1, GoChange
    <2>3. QED
      BY <1>1, <1>d, <2>1, <2>2 DEF Copying
  <1>5. CASE RunPrepare(r) \/ NextTool(r) \/ GeminiFallback(r)
    <2>1. \/ run'[r] = [run[r] EXCEPT !.pc = "cold", !.needsHydrate = ~hydrated,
                                      !.priorLocalLen = Len(history)]
          \/ run'[r] = [run[r] EXCEPT !.call = run[r].call + 1]
          \/ run'[r] = [run[r] EXCEPT !.round = 2, !.provider = "anthropic"]
      BY <1>5, BecomeChange DEF RunPrepare, NextTool, GeminiFallback
    <2>2. run'[r].pc \in {"cold", run[r].pc}
      BY <1>a, <2>1 DEF RunRecord
    <2>3. run[r].pc \in {"started", "tool", "request"} /\ UNCHANGED <<history, thread>>
      BY <1>5 DEF RunPrepare, NextTool, GeminiFallback
    <2>4. QED
      BY <1>1, <1>d, <2>2, <2>3 DEF Copying
  <1>6. ASSUME NEW p \in Providers, Dispatch(r, p) PROVE Reached' /\ Copied'
    <2>1. run'[r] = [run[r] EXCEPT !.pc = "request", !.round = 1, !.provider = p]
      BY <1>6, BecomeChange DEF Dispatch
    <2>2. run'[r].pc = "request"
      BY <1>a, <2>1 DEF RunRecord
    <2>3. QED
      BY <1>1, <1>6, <2>2 DEF Dispatch, Copying
  <1>7. CASE MarkIdle(r)
    <2>1. run'[r] = [NoRun EXCEPT !.pc = "done"]
      BY <1>7, BecomeChange DEF MarkIdle
    <2>2. run'[r].pc = "done"
      BY <2>1 DEF NoRun
    <2>3. QED
      BY <1>1, <1>d, <1>7, <2>2 DEF MarkIdle, Copying
  <1>8. CASE HydrateOk(r)
    <2>1. run'[r].pc = "warm" /\ run[r].pc = "cold" /\ UNCHANGED thread
      BY <1>8, GoChange DEF HydrateOk
    <2>2. CASE history' = history
      BY <1>1, <1>d, <2>1, <2>2 DEF Copying
    <2>3. CASE history' = Append(stored, TextTurn(run[r].prompt))
      <3>1. TextTurn(run[r].prompt) \in Turn /\ ~Answer(TextTurn(run[r].prompt))
        BY <1>a, TurnTypes DEF RunRecord, Answer, TextTurn, UserTurn
      <3>2. Keeps(<<>>, stored)
        BY DEF ThreadInv, Earlier, Keeps, Answer
      <3>3. Keeps(<<>>, history')
        BY <1>a, <2>3, <3>1, <3>2, KeepsAppend
      <3>4. \A i \in DOMAIN history' : ~Answer(history'[i])
        BY <3>3 DEF Keeps
      <3>5. QED
        BY <1>d, <1>e, <2>1, <3>4 DEF Reached
    <2>4. QED
      BY <1>8, <2>2, <2>3 DEF HydrateOk
  <1>9. ASSUME NEW turn \in Turn, history' = Append(history, turn),
               turn.kind = "assistant" => turn.run = r,
               run'[r].pc = "copy", UNCHANGED thread
        PROVE  Reached' /\ Copied'
    <2>1. /\ history' \in Seq(Turn) /\ Len(history') = Len(history) + 1
          /\ \A i \in 1 .. Len(history) : history'[i] = history[i]
          /\ history'[Len(history) + 1] = turn
      BY <1>9, <1>a, AppendProperties
    <2>2. DOMAIN history' = 1 .. Len(history) + 1
      BY <2>1, LenProperties
    <2>3. run'[r].pc \in {"copy", "publish"}
      BY <1>9
    <2>4. ASSUME NEW i \in DOMAIN history', Answer(history'[i])
          PROVE  \/ \E j \in DOMAIN thread' : thread'[j] = history'[i]
                 \/ run'[history'[i].run].pc \in {"copy", "publish"}
      <3>1. CASE i \in 1 .. Len(history)
        <4>1. Answer(history[i]) /\ history'[i] = history[i]
          BY <2>1, <2>4, <3>1
        <4>2. CASE history[i].run = r
          BY <2>3, <4>1, <4>2
        <4>3. CASE history[i].run # r
          BY <1>9, <1>c, <3>1, <4>1, <4>3
        <4>4. QED
          BY <4>2, <4>3
      <3>2. CASE i = Len(history) + 1
        <4>1. history'[i] = turn /\ turn.run = r
          BY <1>9, <2>1, <2>4, <3>2 DEF Answer
        <4>2. QED
          BY <2>3, <4>1
      <3>3. QED
        BY <1>a, <2>2, <3>1, <3>2
    <2>5. QED
      BY <1>9, <1>e, <2>4 DEF Reached, Copying
  <1>10. ASSUME NEW n \in 0 .. MaxCalls, NEW calls \in 0 .. MaxCalls,
                AppendAnswer(r, n, calls)
         PROVE  Reached' /\ Copied'
    <2>1. run'[r] = [run[r] EXCEPT !.pc = "copy", !.calls = calls, !.call = 0]
      BY <1>10, BecomeChange DEF AppendAnswer
    <2>2. run'[r].pc = "copy"
      BY <1>a, <2>1 DEF RunRecord
    <2>3. AssistantTurn(r, n) \in Turn /\ AssistantTurn(r, n).run = r
      BY RunTypes DEF AssistantTurn
    <2>4. history' = Append(history, AssistantTurn(r, n)) /\ UNCHANGED thread
      BY <1>10 DEF AppendAnswer
    <2>5. QED
      BY <1>9, <2>2, <2>3, <2>4
  <1>11. CASE LastTool(r)
    <2>1. run'[r].pc = "copy"
      BY <1>11, GoChange DEF LastTool
    <2>2. ResultsTurn(r) \in Turn /\ ResultsTurn(r).kind # "assistant"
      BY RunTypes DEF ResultsTurn
    <2>3. history' = Append(history, ResultsTurn(r)) /\ UNCHANGED thread
      BY <1>11 DEF LastTool
    <2>4. QED
      BY <1>9, <1>d, <2>1, <2>2, <2>3
  <1>12. CASE Copy(r)
    <2>1. run'[r] = [run[r] EXCEPT !.pc = "publish", !.copied = history]
      BY <1>12, BecomeChange DEF Copy
    <2>2. run'[r].pc = "publish" /\ run'[r].copied = history
      BY <1>a, <2>1 DEF RunRecord
    <2>3. UNCHANGED <<history, thread>>
      BY <1>12 DEF Copy
    <2>4. Copied'
      BY <1>b, <2>2, <2>3, KeepsSame DEF Copied
    <2>5. Reached'
      <3>1. ASSUME NEW i \in DOMAIN history', Answer(history'[i])
            PROVE  \/ \E j \in DOMAIN thread' : thread'[j] = history'[i]
                   \/ run'[history'[i].run].pc \in {"copy", "publish"}
        BY <1>a, <1>c, <2>2, <2>3, <3>1
      <3>2. QED
        BY <3>1 DEF Reached, Copying
    <2>6. QED
      BY <1>d, <2>4, <2>5
  <1>13. CASE StopRound(r) \/ FirstTool(r) \/ NextRound(r) \/ RoundsUsedUp(r)
    <2>1. run[r].pc = "publish" /\ thread' = run[r].copied /\ UNCHANGED history
      BY <1>13 DEF StopRound, FirstTool, NextRound, RoundsUsedUp, Publish
    <2>2. \/ run'[r] = [run[r] EXCEPT !.pc = "closing", !.copied = <<>>]
          \/ run'[r] = [run[r] EXCEPT !.pc = "tool", !.call = 1, !.copied = <<>>]
          \/ run'[r] = [run[r] EXCEPT !.pc = "request", !.round = run[r].round + 1,
                                      !.calls = 0, !.call = 0, !.copied = <<>>]
      BY <1>13, BecomeChange DEF StopRound, FirstTool, NextRound, RoundsUsedUp, Publish
    <2>3. run'[r].pc # "publish"
      BY <1>a, <2>2 DEF RunRecord
    <2>4. Keeps(thread', history')
      BY <2>1 DEF ThreadInv, Copied
    <2>5. Reached'
      BY <2>4 DEF Keeps, Reached
    <2>6. QED
      BY <1>d, <1>e, <2>3, <2>5
  <1>14. QED
    BY <1>d, <1>2, <1>3, <1>4, <1>5, <1>6, <1>7, <1>8, <1>10, <1>11, <1>12, <1>13,
       StepCases

LEMMA ThreadNext ==
  TypeOK /\ RunInv /\ ThreadInv /\ [Next]_vars => ThreadInv'
  <1> SUFFICES ASSUME TypeOK, RunInv, ThreadInv, [Next]_vars PROVE ThreadInv'
    OBVIOUS
  <1>1. CASE UNCHANGED vars
    BY <1>1 DEF vars, sessionVars, envVars, auxVars, ThreadInv, Reached, Copied, At, Copying
  <1>2. CASE Client
    <2>1. stored' = stored
      BY <1>2, ClientHistory
    <2>2. CASE cancelUsed'
      BY <2>1, <2>2 DEF ThreadInv
    <2>3. CASE ~cancelUsed'
      <3>1. /\ UNCHANGED <<thread, stored, cancelUsed>>
            /\ run' = run \/ Starts
            /\ Keeps(history, history')
        BY <1>2, <2>3, ClientAnswers
      <3>2. ASSUME NEW q \in Runs, run[q].pc \in {"copy", "publish"}
            PROVE  run'[q] = run[q]
        <4>1. CASE Starts
          <5>1. runs + 1 \in Runs /\ \A p \in Runs \ {runs + 1} : run'[p] = run[p]
            BY <4>1 DEF Starts
          <5>2. run[runs + 1].pc = "none"
            BY <5>1 DEF RunInv, InOrder, TypeOK
          <5>3. QED
            BY <3>2, <5>1, <5>2
        <4>2. QED
          BY <3>1, <4>1
      <3>3. ASSUME NEW q \in Runs, run'[q].pc = "publish"
            PROVE  run'[q] = run[q]
        <4>1. CASE Starts
          <5>1. PICK m : run'[runs + 1] = [run[runs + 1] EXCEPT !.pc = "spawned",
                                                                !.prompt = m]
            BY <4>1 DEF Starts
          <5>2. /\ runs + 1 \in Runs /\ run[runs + 1] \in RunRecord
                /\ \A p \in Runs \ {runs + 1} : run'[p] = run[p]
            BY <4>1 DEF Starts, TypeOK
          <5>3. run'[runs + 1].pc = "spawned"
            BY <5>1, <5>2 DEF RunRecord
          <5>4. QED
            BY <3>3, <5>2, <5>3
        <4>2. QED
          BY <3>1, <4>1
      <3>4. ASSUME NEW i \in DOMAIN history', Answer(history'[i])
            PROVE  \/ \E j \in DOMAIN thread' : thread'[j] = history'[i]
                   \/ run'[history'[i].run].pc \in {"copy", "publish"}
        <4>1. PICK k \in DOMAIN history : history[k] = history'[i]
          BY <3>1, <3>4 DEF Keeps
        <4>2. CASE \E j \in DOMAIN thread : thread[j] = history[k]
          BY <3>1, <4>1, <4>2
        <4>3. CASE Copying(history[k].run)
          <5>1. history[k] \in Turn
            BY <4>1, LenProperties, ElementOfSeq DEF TypeOK
          <5>2. PICK q \in Runs : q = history[k].run
            BY <3>4, <4>1, <5>1, SessionAssumption DEF Answer, Turn, Runs
          <5>3. run'[q].pc \in {"copy", "publish"}
            BY <3>2, <4>3, <5>2 DEF Copying
          <5>4. QED
            BY <4>1, <5>2, <5>3
        <4>4. QED
          BY <2>3, <3>1, <3>4, <4>1, <4>2, <4>3 DEF ThreadInv, Reached
      <3>5. ASSUME NEW q \in Runs, At(q, "publish")'
            PROVE  Keeps(run'[q].copied, history')
        <4>1. run'[q] = run[q]
          BY <3>3, <3>5 DEF At
        <4>2. Keeps(run[q].copied, history)
          BY <2>3, <3>1, <3>5, <4>1 DEF ThreadInv, Copied, At
        <4>3. Keeps(run[q].copied, history')
          BY <3>1, <4>2 DEF Keeps
        <4>4. QED
          BY <4>1, <4>3
      <3>6. QED
        <4>1. Reached'
          BY <3>4 DEF Reached, Copying
        <4>2. Copied'
          BY <3>5 DEF Copied
        <4>3. QED
          BY <2>1, <4>1, <4>2 DEF ThreadInv
    <2>4. QED
      BY <2>2, <2>3
  <1>3. ASSUME NEW r \in Runs, RunStep(r) PROVE ThreadInv'
    <2>1. cancelUsed' = cancelUsed /\ Executing(r) /\ stored' = stored
      BY <1>3, StepRuns, StepStored DEF StepChange
    <2>2. CASE cancelUsed
      BY <2>1, <2>2 DEF ThreadInv
    <2>3. CASE ~cancelUsed
      <3>1. \A q \in Runs \ {r} : ~Executing(q)
        BY <2>1, <2>3 DEF RunInv, LockHeld
      <3>2. QED
        BY <1>3, <2>3, <3>1, StepAnswers DEF ThreadInv
    <2>4. QED
      BY <2>2, <2>3
  <1>4. QED
    BY <1>1, <1>2, <1>3 DEF Next, Finished

\* Until the first client_cancel every answer of the session that is still in
\* its history is in the process-wide thread, or about to be put there by the
\* run that gave it (persistInMemoryThread).
THEOREM ThreadComplete == Spec => []AnswersReachThread
  <1>1. ThreadInv => AnswersReachThread
    BY DEF ThreadInv, Reached, AnswersReachThread, Answer, Copying
  <1>2. QED
    BY <1>1, ThreadInit, ThreadNext, RunInvInit, RunInvNext, TypeCorrect, PTL DEF Spec

=============================================================================
