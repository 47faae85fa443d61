-------------------------- MODULE FrameWriterProofs --------------------------
(***************************************************************************)
(* Theorems about FrameWriter, for every capacity of the channel, size of  *)
(* the buffer and set of hooks.                                            *)
(***************************************************************************)
EXTENDS FrameWriter, SequenceTheorems, TLAPS

(***************************************************************************)
(* The parts of the types that the proofs need.                            *)
(***************************************************************************)
Places ==
  /\ pc \in [Producers -> PC]
  /\ phase \in {"echo", "cold", "rounds"}
  /\ callbacks \in Nat
  /\ flushing \in BOOLEAN /\ outClosed \in BOOLEAN

(***************************************************************************)
(* coalMu excludes, and whoever holds it to enqueue has emptied the        *)
(* buffer.                                                                 *)
(***************************************************************************)
Mutex ==
  /\ \A p, q \in Producers : pc[p] \in Locked /\ pc[q] \in Locked => p = q
  /\ flushing => \A p \in Producers : pc[p] \notin Locked
  /\ ~Unlocked => buf = <<>>

\* Hooks run in the cold phase only, and never close.
HooksBounded ==
  \A h \in Hooks :
    /\ pc[h] \in {"unborn", "idle", "flush", "flushing", "enqueue", "ended"}
    /\ phase = "echo" => pc[h] = "unborn"
    /\ phase = "rounds" => pc[h] = "ended"

\* From CloseOut on, and already before it, there is nothing left to send.
ClosedQuiet ==
  /\ pc[Main] \in {"close", "closing", "shut", "wait", "ended"} =>
       phase = "rounds"
  /\ pc[Main] \in {"shut", "wait", "ended"} => buf = <<>> /\ ~flushing
  /\ outClosed => pc[Main] \in {"wait", "ended"}

BufferTimed == buf # <<>> => timer = "armed" \/ callbacks > 0

WriterInv == Places /\ Mutex /\ HooksBounded /\ ClosedQuiet /\ BufferTimed

LEMMA WriterInit == Init => WriterInv
  <1> SUFFICES ASSUME Init PROVE WriterInv
    OBVIOUS
  <1>1. \A p \in Producers : pc[p] = IF p = Main THEN "idle" ELSE "unborn"
    BY DEF Init
  <1>2. Places
    BY DEF Init, Places, PC
  <1>3. HooksBounded
    BY <1>1, WriterAssumption DEF Init, HooksBounded, Producers
  <1>4. Mutex /\ ClosedQuiet /\ BufferTimed
    BY <1>1 DEF Init, Mutex, ClosedQuiet, BufferTimed, Unlocked, Locked,
                Producers
  <1>5. QED
    BY <1>2, <1>3, <1>4 DEF WriterInv

\* AppendText ends with coalMu held and the buffer empty, or free and timed.
LEMMA AppendTextEnds ==
  ASSUME NEW text, NEW item, NEW newline, AppendText(text, item, newline)
  PROVE  \/ buf' = <<>> /\ Go(Main, "deltas")
         \/ timer' = "armed" /\ Go(Main, "idle")
  BY DEF AppendText, TakeBuffer

\* Every step keeps the invariant.
LEMMA WriterNext == WriterInv /\ [Next]_vars => WriterInv'
  <1> SUFFICES ASSUME WriterInv, [Next]_vars PROVE WriterInv'
    OBVIOUS
  <1> USE WriterAssumption
      DEF WriterInv, Places, Mutex, HooksBounded, ClosedQuiet, BufferTimed,
          Unlocked, Locked, PC, Producers, bufVars, timeVars, chanVars,
          wireVars, Go
  <1>1. CASE UNCHANGED vars
    BY <1>1 DEF vars
  <1>2. ASSUME NEW p \in Producers, WriteFrame(p) PROVE WriterInv'
    BY <1>2 DEF WriteFrame, MayWrite
  <1>3. ASSUME NEW h \in Hooks, HookDropped(h) PROVE WriterInv'
    BY <1>3 DEF HookDropped
  <1>4. ASSUME NEW p \in Producers, Flush(p) PROVE WriterInv'
    BY <1>4 DEF Flush, TakeBuffer
  <1>5. ASSUME NEW p \in Producers, FlushEnqueue(p) PROVE WriterInv'
    BY <1>5 DEF FlushEnqueue, Enqueue
  <1>6. ASSUME NEW p \in Producers, FrameEnqueue(p) PROVE WriterInv'
    BY <1>6 DEF FrameEnqueue, Enqueue
  <1>7. ASSUME NEW b \in Blocks, NEW newline \in BOOLEAN, Delta(b, newline)
        PROVE  WriterInv'
    <2>1. /\ pc[Main] = "idle" /\ phase = "rounds" /\ Unlocked
          /\ UNCHANGED <<phase, callbacks, flushing, outClosed>>
      BY <1>7 DEF Delta, MayWrite
    <2>2. CASE TakeBuffer(buf) /\ Go(Main, "switch")
      BY <2>1, <2>2 DEF TakeBuffer
    <2>3. CASE buf' = <<>> /\ Go(Main, "deltas")
      BY <2>1, <2>3
    <2>4. CASE timer' = "armed" /\ Go(Main, "idle")
      BY <2>1, <2>4
    <2>5. \/ TakeBuffer(buf) /\ Go(Main, "switch")
          \/ \E item : AppendText(buf, item, newline)
      BY <1>7 DEF Delta
    <2>6. QED
      BY <2>2, <2>3, <2>4, <2>5, AppendTextEnds
  <1>8. ASSUME NEW newline \in BOOLEAN, SwitchEnqueue(newline)
        PROVE  WriterInv'
    <2>1. /\ pc[Main] = "switch" /\ AppendText(<<>>, delta, newline)
          /\ UNCHANGED <<phase, callbacks, flushing, outClosed>>
      BY <1>8 DEF SwitchEnqueue, Enqueue
    <2>2. CASE buf' = <<>> /\ Go(Main, "deltas")
      BY <2>1, <2>2
    <2>3. CASE timer' = "armed" /\ Go(Main, "idle")
      BY <2>1, <2>3
    <2>4. QED
      BY <2>1, <2>2, <2>3, AppendTextEnds
  <1>9. CASE StartHooks
    BY <1>9 DEF StartHooks
  <1>10. CASE HooksDone
    BY <1>10 DEF HooksDone
  <1>11. CASE Close \/ HangUp
    BY <1>11 DEF Close, HangUp
  <1>12. CASE CloseOut \/ CloseReturns
    <2>1. PICK at \in {"wait", "ended"} :
            Go(Main, at) /\ pc[Main] \in {"shut", "wait"}
                         /\ outClosed' \in BOOLEAN
      BY <1>12 DEF CloseOut, CloseReturns
    <2>2. UNCHANGED <<phase, buf, timer, callbacks, flushing>>
      BY <1>12 DEF CloseOut, CloseReturns
    <2>3. QED
      BY <2>1, <2>2
  <1>13. CASE TimerFires
    BY <1>13 DEF TimerFires
  <1>14. CASE Callback
    <2>1. /\ callbacks > 0 /\ callbacks' = callbacks - 1 /\ Unlocked
          /\ UNCHANGED <<pc, phase, outClosed>>
      BY <1>14 DEF Callback
    <2>2. CASE buf = <<>> /\ UNCHANGED <<buf, flushing>>
      BY <2>1, <2>2
    <2>3. CASE buf # <<>> /\ buf' = <<>> /\ flushing'
      BY <2>1, <2>3
    <2>4. QED
      BY <1>14, <2>2, <2>3 DEF Callback, TakeBuffer
  <1>15. CASE CallbackEnqueue
    BY <1>15 DEF CallbackEnqueue, Enqueue
  <1>16. CASE Writer \/ Break \/ Finished
    BY <1>16 DEF Writer, Deliver, Drain, WriterExits, Break, Finished, vars
  <1>17. QED
    BY <1>1, <1>2, <1>3, <1>4, <1>5, <1>6, <1>7, <1>8, <1>9, <1>10, <1>11,
       <1>12, <1>13, <1>14, <1>15, <1>16
    DEF Next, MainStarts, MainGoesOn, HookStep

\* Nobody sends on the closed channel, and text never waits without a timer.
THEOREM WriterSafe == Spec => [](NoSendAfterClose /\ TextTimed)
  <1>1. WriterInv => NoSendAfterClose /\ TextTimed
    BY WriterAssumption
    DEF WriterInv, Places, Mutex, HooksBounded, ClosedQuiet, BufferTimed,
        NoSendAfterClose, TextTimed, Locked, Producers
  <1>2. QED
    BY <1>1, WriterInit, WriterNext, PTL DEF Spec

(***************************************************************************)
(* Types.                                                                  *)
(***************************************************************************)
LEMMA Items ==
  ASSUME NEW p \in Producers, NEW n \in Nat, NEW b \in Blocks \cup {NoBlock}
  PROVE  [by |-> p, n |-> n, block |-> b] \in Item
  BY DEF Item

LEMMA NoItemType == NoItem \in Item
  BY DEF NoItem, Item, Producers

LEMMA EnqueueTypes ==
  ASSUME TypeOK, NEW frame \in Seq(Item), Enqueue(frame)
  PROVE  /\ out' \in Seq(Seq(Item)) /\ delivered' \in Seq(Seq(Item))
         /\ UNCHANGED <<outClosed, done, failed, wire>>
  <1>1. out \in Seq(Seq(Item)) /\ delivered \in Seq(Seq(Item))
    BY DEF TypeOK
  <1>2. Append(out, frame) \in Seq(Seq(Item))
    BY <1>1, AppendProperties
  <1>3. QED
    BY <1>1, <1>2 DEF Enqueue, wireVars

LEMMA TakeBufferTypes ==
  ASSUME TypeOK, TakeBuffer(buf)
  PROVE  buf' \in Seq(Item) /\ held' \in Seq(Item) /\ timer' = "nil"
  BY EmptySeq DEF TypeOK, TakeBuffer

LEMMA AppendTextTypes ==
  ASSUME TypeOK, NEW text \in Seq(Item), NEW item \in Item, NEW newline,
         AppendText(text, item, newline)
  PROVE  /\ buf' \in Seq(Item) /\ held' \in Seq(Item)
         /\ timer' \in {"nil", "armed", "fired"}
         /\ coalBlock' \in Blocks \cup {NoBlock}
         /\ pc' \in [Producers -> PC]
  <1>1. Append(text, item) \in Seq(Item) /\ <<>> \in Seq(Item)
    BY AppendProperties, EmptySeq
  <1>2. item.block \in Blocks \cup {NoBlock}
    BY DEF Item
  <1>3. QED
    BY <1>1, <1>2 DEF TypeOK, AppendText, TakeBuffer, Go, PC

LEMMA TypesInit == Init => TypeOK
  <1> SUFFICES ASSUME Init PROVE TypeOK
    OBVIOUS
  <1>1. /\ pc \in [Producers -> PC] /\ sent \in [Producers -> Nat]
        /\ phase \in {"echo", "cold", "rounds"}
    BY DEF Init, PC
  <1>2. /\ buf \in Seq(Item) /\ held \in Seq(Item)
        /\ out \in Seq(Seq(Item)) /\ delivered \in Seq(Seq(Item))
    BY EmptySeq DEF Init
  <1>3. delta \in Item
    BY NoItemType DEF Init
  <1>4. QED
    BY <1>1, <1>2, <1>3 DEF Init, TypeOK

LEMMA WriteTypes ==
  ASSUME TypeOK, NEW p \in Producers,
         WriteFrame(p) \/ Flush(p) \/ FlushEnqueue(p) \/ FrameEnqueue(p)
  PROVE  TypeOK'
  <1>1. CASE WriteFrame(p)
    <2>1. pc' \in [Producers -> PC] /\ sent' \in [Producers -> Nat]
      BY <1>1 DEF TypeOK, WriteFrame, Go, PC
    <2>2. QED
      BY <1>1, <2>1 DEF TypeOK, WriteFrame, bufVars, timeVars, chanVars, wireVars
  <1>2. CASE Flush(p)
    <2>1. /\ buf' \in Seq(Item) /\ held' \in Seq(Item)
          /\ timer' \in {"nil", "armed", "fired"}
      BY <1>2, TakeBufferTypes DEF TypeOK, Flush
    <2>2. pc' \in [Producers -> PC]
      BY <1>2 DEF TypeOK, Flush, Go, PC
    <2>3. QED
      BY <1>2, <2>1, <2>2 DEF TypeOK, Flush, timeVars, chanVars, wireVars
  <1>3. CASE FlushEnqueue(p)
    <2>1. Enqueue(held) /\ held' = <<>>
      BY <1>3 DEF FlushEnqueue
    <2>2. held \in Seq(Item)
      BY DEF TypeOK
    <2>3. QED
      BY <1>3, <2>1, <2>2, EnqueueTypes DEF TypeOK, FlushEnqueue, Go, PC, timeVars
  <1>4. CASE FrameEnqueue(p)
    <2>1. [by |-> p, n |-> sent[p], block |-> NoBlock] \in Item
      <3>1. sent[p] \in Nat
        BY DEF TypeOK
      <3>2. QED
        BY <3>1, Items
    <2>2. /\ out' \in Seq(Seq(Item)) /\ delivered' \in Seq(Seq(Item))
          /\ UNCHANGED <<outClosed, done, failed, wire>>
      <3>1. <<[by |-> p, n |-> sent[p], block |-> NoBlock]>> \in Seq(Item)
        BY <2>1
      <3>2. QED
        BY <1>4, <3>1, EnqueueTypes DEF FrameEnqueue
    <2>3. QED
      BY <1>4, <2>2 DEF TypeOK, FrameEnqueue, Go, PC, bufVars, timeVars
  <1>5. QED
    BY <1>1, <1>2, <1>3, <1>4

LEMMA DeltaTypes ==
  ASSUME TypeOK, NEW newline \in BOOLEAN,
         (\E b \in Blocks : Delta(b, newline)) \/ SwitchEnqueue(newline)
  PROVE  TypeOK'
  <1>1. CASE \E b \in Blocks : Delta(b, newline)
    <2>1. PICK b \in Blocks : Delta(b, newline)
      BY <1>1
    <2> DEFINE item == [by |-> Main, n |-> sent[Main] + 1, block |-> b]
    <2>2. item \in Item
      <3>1. Main \in Producers /\ sent[Main] + 1 \in Nat
        BY DEF TypeOK, Producers
      <3>2. QED
        BY <3>1, Items
    <2>3. /\ sent' \in [Producers -> Nat]
          /\ UNCHANGED <<phase, echo, timeVars, chanVars, wireVars>>
      BY <2>1 DEF Delta, TypeOK, Producers
    <2>4. \/ TakeBuffer(buf) /\ delta' = item /\ Go(Main, "switch")
             /\ UNCHANGED coalBlock
          \/ AppendText(buf, item, newline) /\ UNCHANGED delta
      BY <2>1 DEF Delta
    <2> HIDE DEF item
    <2>5. CASE TakeBuffer(buf) /\ delta' = item /\ Go(Main, "switch")
               /\ UNCHANGED coalBlock
      <3>1. pc' \in [Producers -> PC]
        BY <2>5 DEF TypeOK, Go, PC
      <3>2. QED
        BY <2>2, <2>3, <2>5, <3>1, TakeBufferTypes
           DEF TypeOK, timeVars, chanVars, wireVars
    <2>6. CASE AppendText(buf, item, newline) /\ UNCHANGED delta
      <3>1. buf \in Seq(Item)
        BY DEF TypeOK
      <3>2. QED
        BY <2>2, <2>3, <2>6, <3>1, AppendTextTypes
           DEF TypeOK, timeVars, chanVars, wireVars
    <2>7. QED
      BY <2>4, <2>5, <2>6
  <1>2. CASE SwitchEnqueue(newline)
    <2>1. Enqueue(held) /\ AppendText(<<>>, delta, newline) /\ delta' = NoItem
      BY <1>2 DEF SwitchEnqueue
    <2>2. held \in Seq(Item) /\ delta \in Item /\ <<>> \in Seq(Item)
      BY EmptySeq DEF TypeOK
    <2>3. QED
      BY <1>2, <2>1, <2>2, EnqueueTypes, AppendTextTypes, NoItemType
         DEF TypeOK, SwitchEnqueue, timeVars
  <1>3. QED
    BY <1>1, <1>2

LEMMA TimerTypes ==
  ASSUME TypeOK, TimerFires \/ Callback \/ CallbackEnqueue
  PROVE  TypeOK'
  <1>1. CASE TimerFires
    BY <1>1 DEF TypeOK, TimerFires, chanVars, wireVars
  <1>2. CASE Callback
    <2>1. /\ buf' \in Seq(Item) /\ held' \in Seq(Item)
          /\ timer' \in {"nil", "armed", "fired"} /\ flushing' \in BOOLEAN
      BY <1>2, TakeBufferTypes DEF TypeOK, Callback
    <2>2. callbacks' \in Nat
      BY <1>2 DEF TypeOK, Callback
    <2>3. QED
      BY <1>2, <2>1, <2>2 DEF TypeOK, Callback, chanVars, wireVars
  <1>3. CASE CallbackEnqueue
    <2>1. held \in Seq(Item) /\ Enqueue(held)
      BY <1>3 DEF TypeOK, CallbackEnqueue
    <2>2. held' \in Seq(Item)
      BY <1>3, EmptySeq DEF CallbackEnqueue
    <2>3. QED
      BY <1>3, <2>1, <2>2, EnqueueTypes DEF TypeOK, CallbackEnqueue
  <1>4. QED
    BY <1>1, <1>2, <1>3

LEMMA WriterTypes ==
  ASSUME TypeOK, Writer \/ Break
  PROVE  TypeOK'
  <1>1. CASE Deliver \/ Drain
    <2>1. out \in Seq(Seq(Item)) /\ delivered \in Seq(Seq(Item)) /\ out # <<>>
      BY <1>1 DEF TypeOK, Deliver, Drain
    <2>4. Head(out) \in Seq(Item) /\ Tail(out) \in Seq(Seq(Item))
      BY <2>1, HeadTailProperties
    <2>5. Append(delivered, Head(out)) \in Seq(Seq(Item))
      BY <2>1, <2>4, AppendProperties
    <2>2. /\ out' \in Seq(Seq(Item)) /\ delivered' \in Seq(Seq(Item))
          /\ failed' \in BOOLEAN
      BY <1>1, <2>1, <2>4, <2>5 DEF TypeOK, Deliver, Drain, wireVars
    <2>3. QED
      BY <1>1, <2>2 DEF TypeOK, Deliver, Drain, bufVars, timeVars, wireVars
  <1>2. CASE WriterExits \/ Break
    BY <1>2 DEF TypeOK, WriterExits, Break, bufVars, timeVars, chanVars, wireVars
  <1>3. QED
    BY <1>1, <1>2 DEF Writer

LEMMA RunTypes ==
  ASSUME TypeOK,
         \/ StartHooks \/ HooksDone \/ HangUp \/ Close \/ CloseOut \/ CloseReturns
         \/ \E h \in Hooks : HookDropped(h)
  PROVE  TypeOK'
  BY DEF TypeOK, StartHooks, HooksDone, HangUp, Close, CloseOut, CloseReturns,
         HookDropped, Go, PC, Producers, bufVars, timeVars, chanVars, wireVars

LEMMA TypesNext == TypeOK /\ [Next]_vars => TypeOK'
  <1> SUFFICES ASSUME TypeOK, [Next]_vars PROVE TypeOK'
    OBVIOUS
  <1>1. CASE UNCHANGED vars
    BY <1>1 DEF TypeOK, vars, bufVars, timeVars, chanVars, wireVars
  <1>2. CASE MainStarts \/ MainGoesOn
    BY <1>2, WriteTypes, DeltaTypes, RunTypes DEF MainStarts, MainGoesOn, Producers
  <1>3. CASE \E h \in Hooks : HookStep(h)
    BY <1>3, WriteTypes, RunTypes DEF HookStep, Producers
  <1>4. CASE TimerFires \/ Callback \/ CallbackEnqueue \/ Writer \/ Break
    BY <1>4, TimerTypes, WriterTypes
  <1>5. CASE Finished
    BY <1>1, <1>5 DEF Finished
  <1>6. QED
    BY <1>1, <1>2, <1>3, <1>4, <1>5 DEF Next

\* The variables keep their types; a callback of the timer is never taken
\* that was not counted, so their number stays a natural.
THEOREM TypeCorrect == Spec => []TypeOK
  BY TypesInit, TypesNext, PTL DEF Spec

(***************************************************************************)
(* The hooks' requests come first.  Every hook that has ended has its      *)
(* request delivered or in the channel, and nothing of the answer is       *)
(* before it there.                                                        *)
(***************************************************************************)
Seen(h, n) ==
  \/ \E j \in 1 .. Len(delivered) : delivered[j][1].by = h
  \/ \E j \in 1 .. n : out[j][1].by = h

\* Text is buffered and flushed in the rounds only.
ColdQuiet ==
  phase # "rounds" =>
    buf = <<>> /\ ~flushing /\ \A p \in Producers : pc[p] \notin Locked

HooksSeen == \A h \in Hooks : pc[h] = "ended" => Seen(h, Len(out))

\* Before the rounds the run has written no more than the echo of the prompt.
EchoOnly == phase # "rounds" => sent[Main] <= echo

AnswersBehind ==
  \A i \in 1 .. Len(out) : OfAnswer(out[i]) => \A h \in Hooks : Seen(h, i - 1)

FlowInv ==
  /\ ColdQuiet /\ EchoOnly
  /\ done => outClosed
  /\ ~failed => HooksSeen /\ AnswersBehind
  /\ HooksFirst

LEMMA FlowInit == Init => FlowInv
  <1> SUFFICES ASSUME Init PROVE FlowInv
    OBVIOUS
  <1>1. ColdQuiet /\ EchoOnly
    BY DEF Init, ColdQuiet, EchoOnly, Locked, Producers
  <1>2. HooksSeen
    BY WriterAssumption DEF Init, HooksSeen, Producers
  <1>3. AnswersBehind /\ HooksFirst
    BY DEF Init, AnswersBehind, HooksFirst
  <1>4. QED
    BY <1>1, <1>2, <1>3 DEF Init, FlowInv

\* A step that leaves the frames alone and lets no hook end.
LEMMA FramesStay ==
  ASSUME FlowInv, UNCHANGED <<echo, out, delivered, failed>>,
         \A h \in Hooks : pc'[h] = "ended" => pc[h] = "ended" \/ failed,
         done' => outClosed', ColdQuiet', EchoOnly'
  PROVE  FlowInv'
  <1>1. ~failed => HooksSeen' /\ AnswersBehind'
    BY DEF FlowInv, HooksSeen, AnswersBehind, OfAnswer, Seen
  <1>2. HooksFirst'
    BY DEF FlowInv, HooksFirst, OfAnswer
  <1>3. QED
    BY <1>1, <1>2 DEF FlowInv

\* A frame goes to the end of the channel; one of the answer only after the
\* hooks have ended.
LEMMA EnqueueFlow ==
  ASSUME TypeOK, FlowInv, NEW frame \in Seq(Item), Enqueue(frame),
         OfAnswer(frame) => \A h \in Hooks : pc[h] = "ended",
         \A h \in Hooks : pc'[h] = "ended" =>
           pc[h] = "ended" \/ (~done /\ frame[1].by = h),
         ColdQuiet', EchoOnly', echo' = echo
  PROVE  FlowInv'
  <1>1. UNCHANGED <<outClosed, done, failed, delivered>>
    BY DEF Enqueue, wireVars
  <1>2. out \in Seq(Seq(Item)) /\ Len(out) \in Nat
    BY LenProperties DEF TypeOK
  <1>3. HooksFirst'
    BY <1>1 DEF FlowInv, HooksFirst, OfAnswer
  <1>4. ASSUME ~failed PROVE HooksSeen' /\ AnswersBehind'
    <2>1. CASE done
      <3>1. out' = out
        BY <2>1 DEF Enqueue
      <3>2. QED
        BY <1>1, <1>4, <2>1, <3>1
           DEF FlowInv, HooksSeen, AnswersBehind, OfAnswer, Seen
    <2>2. CASE ~done
      <3>1. out' = Append(out, frame)
        BY <1>4, <2>2 DEF Enqueue
      <3>2. /\ Len(out') = Len(out) + 1
            /\ \A i \in 1 .. Len(out) : out'[i] = out[i]
            /\ out'[Len(out) + 1] = frame
        BY <1>2, <3>1, AppendProperties
      <3>3. \A h \in Hooks, n \in 0 .. Len(out) : Seen(h, n) => Seen(h, n)'
        <4> SUFFICES ASSUME NEW h \in Hooks, NEW n \in 0 .. Len(out), Seen(h, n)
                     PROVE  Seen(h, n)'
          OBVIOUS
        <4>1. CASE \E j \in 1 .. Len(delivered) : delivered[j][1].by = h
          BY <1>1, <4>1 DEF Seen
        <4>2. CASE \E j \in 1 .. n : out[j][1].by = h
          <5>1. PICK j \in 1 .. n : out[j][1].by = h
            BY <4>2
          <5>2. out'[j] = out[j]
            BY <1>2, <3>2
          <5>3. QED
            BY <5>1, <5>2 DEF Seen
        <4>3. QED
          BY <4>1, <4>2 DEF Seen
      <3>4. PICK len \in 0 .. Len(out) : len = Len(out)
        BY <1>2
      <3>5. HooksSeen'
        <4> SUFFICES ASSUME NEW h \in Hooks, pc'[h] = "ended"
                     PROVE  Seen(h, Len(out))'
          BY DEF HooksSeen
        <4>1. CASE frame[1].by = h
          BY <1>2, <3>2, <4>1 DEF Seen
        <4>2. CASE pc[h] = "ended"
          <5>1. Seen(h, len)
            BY <1>4, <3>4, <4>2 DEF FlowInv, HooksSeen
          <5>2. Seen(h, len)'
            BY <3>3, <5>1
          <5>3. \A j \in 1 .. len : j \in 1 .. Len(out')
            BY <1>2, <3>2, <3>4
          <5>4. QED
            BY <5>2, <5>3 DEF Seen
        <4>3. QED
          BY <4>1, <4>2
      <3>6. AnswersBehind'
        <4> SUFFICES ASSUME NEW i \in 1 .. Len(out'),
                            OfAnswer(out[i])', NEW h \in Hooks
                     PROVE  Seen(h, i - 1)'
          BY DEF AnswersBehind
        <4>1. CASE i \in 1 .. Len(out)
          <5>1. Seen(h, i - 1)
            BY <1>4, <3>2, <4>1 DEF FlowInv, AnswersBehind, OfAnswer
          <5>2. i - 1 \in 0 .. Len(out)
            BY <1>2, <4>1
          <5>3. QED
            BY <3>3, <5>1, <5>2
        <4>2. CASE i = Len(out) + 1
          <5>1. Seen(h, Len(out))
            BY <1>4, <3>2, <4>2 DEF FlowInv, HooksSeen, OfAnswer
          <5>2. i - 1 = Len(out)
            BY <1>2, <4>2
          <5>3. QED
            BY <3>3, <3>4, <5>1, <5>2
        <4>3. QED
          BY <1>2, <3>2, <4>1, <4>2
      <3>7. QED
        BY <3>5, <3>6
    <2>3. QED
      BY <2>1, <2>2
  <1>5. QED
    BY <1>1, <1>3, <1>4 DEF FlowInv

\* A frame goes from the channel to the client.
LEMMA DeliverFlow ==
  ASSUME TypeOK, FlowInv, Deliver, EchoOnly', echo' = echo
  PROVE  FlowInv'
  <1>1. /\ out \in Seq(Seq(Item)) /\ out # <<>> /\ delivered \in Seq(Seq(Item))
        /\ Len(out) \in Nat /\ Len(delivered) \in Nat /\ Len(out) > 0
        /\ ~failed /\ ~failed'
    BY EmptySeq, LenProperties DEF TypeOK, Deliver
  <1>2. /\ Len(out') = Len(out) - 1
        /\ \A i \in 1 .. Len(out') : out'[i] = out[i + 1]
    BY <1>1, HeadTailProperties DEF Deliver
  <1>3. Head(out) = out[1] /\ Head(out) \in Seq(Item)
    BY <1>1, HeadTailProperties
  <1>4. /\ Len(delivered') = Len(delivered) + 1
        /\ \A i \in 1 .. Len(delivered) : delivered'[i] = delivered[i]
        /\ delivered'[Len(delivered) + 1] = out[1]
    BY <1>1, <1>3, AppendProperties DEF Deliver
  <1>5. \A h \in Hooks, n \in 1 .. Len(out) : Seen(h, n) =>
          \/ \E j \in 1 .. Len(delivered') : delivered'[j][1].by = h
          \/ \E j \in 1 .. n - 1 : out'[j][1].by = h
    <2> SUFFICES ASSUME NEW h \in Hooks, NEW n \in 1 .. Len(out), Seen(h, n)
                 PROVE  \/ \E j \in 1 .. Len(delivered') : delivered'[j][1].by = h
                        \/ \E j \in 1 .. n - 1 : out'[j][1].by = h
      OBVIOUS
    <2>1. CASE \E j \in 1 .. Len(delivered) : delivered[j][1].by = h
      <3>1. PICK j \in 1 .. Len(delivered) : delivered[j][1].by = h
        BY <2>1
      <3>2. j \in 1 .. Len(delivered') /\ delivered'[j][1].by = h
        BY <1>1, <1>4, <3>1
      <3>3. QED
        BY <3>2
    <2>2. CASE \E j \in 1 .. n : out[j][1].by = h
      <3>1. PICK j \in 1 .. n : out[j][1].by = h
        BY <2>2
      <3>2. CASE j = 1
        <4>1. delivered'[Len(delivered) + 1][1].by = h
          BY <1>4, <3>1, <3>2
        <4>2. Len(delivered) + 1 \in 1 .. Len(delivered')
          BY <1>1, <1>4
        <4>3. QED
          BY <4>1, <4>2
      <3>3. CASE j > 1
        <4>1. /\ j - 1 \in 1 .. n - 1 /\ j - 1 \in 1 .. Len(out')
              /\ (j - 1) + 1 = j
          BY <1>1, <1>2, <3>3
        <4>2. out'[j - 1] = out[j]
          BY <1>2, <4>1
        <4>3. QED
          BY <3>1, <4>1, <4>2
      <3>4. QED
        BY <3>2, <3>3
    <2>3. QED
      BY <2>1, <2>2 DEF Seen
  <1>6. HooksSeen'
    <2> SUFFICES ASSUME NEW h \in Hooks, pc'[h] = "ended"
                 PROVE  Seen(h, Len(out))'
      BY DEF HooksSeen
    <2>1. Seen(h, Len(out)) /\ Len(out) \in 1 .. Len(out)
      BY <1>1 DEF FlowInv, HooksSeen, Deliver
    <2>2. QED
      BY <1>2, <1>5, <2>1 DEF Seen
  <1>7. AnswersBehind'
    <2> SUFFICES ASSUME NEW i \in 1 .. Len(out'),
                        OfAnswer(out[i])', NEW h \in Hooks
                 PROVE  Seen(h, i - 1)'
      BY DEF AnswersBehind
    <2>1. out'[i] = out[i + 1] /\ i + 1 \in 1 .. Len(out)
      BY <1>1, <1>2
    <2>2. Seen(h, (i + 1) - 1)
      BY <1>1, <2>1 DEF FlowInv, AnswersBehind, OfAnswer
    <2>3. (i + 1) - 1 = i /\ i \in 1 .. Len(out)
      BY <1>1, <1>2
    <2>4. QED
      BY <1>5, <2>2, <2>3 DEF Seen
  <1>8. HooksFirst'
    <2> SUFFICES ASSUME NEW i \in 1 .. Len(delivered'),
                        OfAnswer(delivered[i])', NEW h \in Hooks
                 PROVE  \E j \in 1 .. i - 1 : delivered'[j][1].by = h
      <3>1. DOMAIN delivered' = 1 .. Len(delivered')
        BY <1>1, <1>3, AppendProperties, LenProperties DEF Deliver
      <3>2. QED
        BY <3>1 DEF HooksFirst
    <2>1. CASE i \in 1 .. Len(delivered)
      <3>1. i \in DOMAIN delivered /\ OfAnswer(delivered[i])
        BY <1>1, <1>4, <2>1, LenProperties DEF OfAnswer
      <3>2. PICK j \in 1 .. i - 1 : delivered[j][1].by = h
        BY <3>1 DEF FlowInv, HooksFirst
      <3>3. j \in 1 .. Len(delivered)
        BY <1>1, <2>1
      <3>4. delivered'[j][1].by = h
        BY <1>4, <3>2, <3>3
      <3>5. QED
        BY <3>4
    <2>2. CASE i = Len(delivered) + 1
      <3>1. Seen(h, 1 - 1) /\ 1 - 1 = 0
        BY <1>1, <1>4, <2>2 DEF FlowInv, AnswersBehind, OfAnswer
      <3>2. PICK j \in 1 .. Len(delivered) : delivered[j][1].by = h
        BY <3>1 DEF Seen
      <3>3. j \in 1 .. i - 1 /\ delivered'[j] = delivered[j]
        BY <1>1, <1>4, <2>2
      <3>4. QED
        BY <3>2, <3>3
    <2>3. QED
      BY <1>1, <1>4, <2>1, <2>2
  <1>9. ColdQuiet' /\ (done' => outClosed')
    BY DEF FlowInv, ColdQuiet, Deliver, bufVars, timeVars
  <1>10. QED
    BY <1>6, <1>7, <1>8, <1>9 DEF FlowInv

\* Until the rounds begin nothing is buffered and nobody holds coalMu.
LEMMA ColdStays == WriterInv /\ ColdQuiet /\ [Next]_vars => ColdQuiet'
  <1> SUFFICES ASSUME WriterInv, ColdQuiet, [Next]_vars, phase' # "rounds"
               PROVE  /\ buf' = <<>> /\ ~flushing'
                      /\ \A p \in Producers : pc'[p] \notin Locked
    BY DEF ColdQuiet
  <1> USE DEF WriterInv, Places
  <1>1. phase # "rounds"
    <2> SUFFICES ASSUME phase = "rounds" PROVE phase' = "rounds"
      OBVIOUS
    <2>1. QED
      BY DEF Next, MainStarts, MainGoesOn, HookStep, Writer, Finished, vars,
             bufVars, timeVars, chanVars, wireVars, WriteFrame, Delta,
             StartHooks, HangUp, Close, Flush, FlushEnqueue, FrameEnqueue,
             SwitchEnqueue, HooksDone, CloseOut, CloseReturns, HookDropped,
             Deliver, Drain, WriterExits, TimerFires, Callback,
             CallbackEnqueue, Break
  <1>2. /\ buf = <<>> /\ ~flushing
        /\ \A p \in Producers : pc[p] \notin Locked
    BY <1>1 DEF ColdQuiet
  <1>3. CASE UNCHANGED vars
    BY <1>2, <1>3 DEF vars, bufVars, timeVars
  <1>4. ASSUME NEW p \in Producers,
               WriteFrame(p) \/ Flush(p) \/ FlushEnqueue(p) \/ FrameEnqueue(p)
        PROVE  /\ buf' = <<>> /\ ~flushing'
               /\ \A q \in Producers : pc'[q] \notin Locked
    BY <1>2, <1>4 DEF WriteFrame, Flush, FlushEnqueue, FrameEnqueue, Go,
                      Locked, bufVars, timeVars
  <1>5. ASSUME NEW h \in Hooks, HookDropped(h)
        PROVE  /\ buf' = <<>> /\ ~flushing'
               /\ \A q \in Producers : pc'[q] \notin Locked
    BY <1>2, <1>5 DEF HookDropped, Go, Locked, bufVars, timeVars
  <1>6. CASE \/ StartHooks \/ HooksDone \/ HangUp \/ Close \/ CloseOut
             \/ CloseReturns
    BY <1>2, <1>6 DEF StartHooks, HooksDone, HangUp, Close, CloseOut,
                      CloseReturns, Go, Locked, bufVars, timeVars
  <1>7. ~(\E b \in Blocks, newline \in BOOLEAN : Delta(b, newline))
    BY <1>1 DEF Delta
  <1>8. ~(\E newline \in BOOLEAN : SwitchEnqueue(newline))
    BY <1>2 DEF SwitchEnqueue, Locked, Producers
  <1>9. CASE TimerFires \/ Callback \/ CallbackEnqueue \/ Break \/ Writer
    BY <1>2, <1>9 DEF TimerFires, Callback, CallbackEnqueue, Break, Writer,
                      Deliver, Drain, WriterExits, bufVars, timeVars
  <1>10. QED
    BY <1>3, <1>4, <1>5, <1>6, <1>7, <1>8, <1>9
       DEF Next, MainStarts, MainGoesOn, HookStep, Finished, Producers

\* The echo is what it was, and the run writes more only in the rounds.
LEMMA EchoStays ==
  ASSUME TypeOK, EchoOnly, [Next]_vars
  PROVE  echo' = echo /\ EchoOnly'
  <1>1. sent \in [Producers -> Nat] /\ echo \in 0 .. 1 /\ Main \in Producers
    BY DEF TypeOK, Producers
  <1>2. ASSUME NEW p \in Producers, WriteFrame(p) PROVE echo' = echo /\ EchoOnly'
    <2>1. UNCHANGED <<phase, echo>> /\ sent' = [sent EXCEPT ![p] = @ + 1] /\ MayWrite(p)
      BY <1>2 DEF WriteFrame
    <2>2. p = Main => phase = "rounds" \/ sent[Main] + 1 <= echo
      BY <1>1, <2>1 DEF MayWrite
    <2>3. QED
      BY <1>1, <2>1, <2>2 DEF EchoOnly
  <1>3. ASSUME NEW b \in Blocks, NEW newline \in BOOLEAN, Delta(b, newline)
        PROVE  echo' = echo /\ EchoOnly'
    BY <1>3 DEF Delta, EchoOnly
  <1>4. CASE UNCHANGED <<phase, echo, sent>>
    BY <1>4 DEF EchoOnly
  <1>5. CASE StartHooks \/ HooksDone
    BY <1>5 DEF StartHooks, HooksDone, EchoOnly
  <1>6. ASSUME NEW p \in Producers, Flush(p) \/ FlushEnqueue(p) \/ FrameEnqueue(p)
        PROVE  UNCHANGED <<phase, echo, sent>>
    BY <1>6 DEF Flush, FlushEnqueue, FrameEnqueue
  <1>7. ASSUME NEW h \in Hooks, HookDropped(h) PROVE UNCHANGED <<phase, echo, sent>>
    BY <1>7 DEF HookDropped
  <1>8. ASSUME NEW newline \in BOOLEAN, SwitchEnqueue(newline)
        PROVE  UNCHANGED <<phase, echo, sent>>
    BY <1>8 DEF SwitchEnqueue
  <1>9. CASE HangUp \/ Close \/ CloseOut \/ CloseReturns \/ TimerFires \/ Callback
             \/ CallbackEnqueue \/ Writer \/ Break \/ UNCHANGED vars
    BY <1>4, <1>9 DEF HangUp, Close, CloseOut, CloseReturns, TimerFires, Callback,
                      CallbackEnqueue, Writer, Deliver, Drain, WriterExits, Break, vars
  <1>10. QED
    BY <1>2, <1>3, <1>4, <1>5, <1>6, <1>7, <1>8, <1>9
       DEF Next, MainStarts, MainGoesOn, HookStep, Finished, Producers

\* Steps of the run that neither enqueue nor let a hook end unheard.
LEMMA QuietFlow ==
  ASSUME FlowInv, ColdQuiet', EchoOnly', echo' = echo,
         \/ UNCHANGED vars
         \/ \E p \in Producers : WriteFrame(p) \/ Flush(p)
         \/ \E h \in Hooks : HookDropped(h)
         \/ \E b \in Blocks, newline \in BOOLEAN : Delta(b, newline)
         \/ StartHooks \/ HooksDone \/ HangUp \/ Close \/ CloseOut \/ CloseReturns
         \/ TimerFires \/ Callback \/ WriterExits \/ Break,
         WriterInv
  PROVE  FlowInv'
  <1>1. UNCHANGED <<out, delivered, failed>>
    BY DEF vars, WriteFrame, Flush, HookDropped, Delta, StartHooks, HooksDone,
           HangUp, Close, CloseOut, CloseReturns, TimerFires, Callback,
           WriterExits, Break, chanVars, wireVars
  <1>2. done' => outClosed'
    BY DEF FlowInv, vars, WriteFrame, Flush, HookDropped, Delta, StartHooks,
           HooksDone, HangUp, Close, CloseOut, CloseReturns, TimerFires,
           Callback, WriterExits, Break, chanVars
  <1>3. ASSUME NEW h \in Hooks, pc'[h] = "ended"
        PROVE  pc[h] = "ended" \/ failed
    <2> USE <1>3, WriterAssumption DEF WriterInv, Places, Producers, Go
    <2>1. CASE UNCHANGED vars
      BY <2>1 DEF vars
    <2>2. CASE \E p \in Producers : WriteFrame(p) \/ Flush(p)
      BY <2>2 DEF WriteFrame, Flush
    <2>3. CASE \E g \in Hooks : HookDropped(g)
      BY <2>3 DEF HookDropped
    <2>4. ASSUME NEW b \in Blocks, NEW newline \in BOOLEAN, Delta(b, newline)
          PROVE  pc[h] = "ended"
      BY <2>4 DEF Delta, AppendText
    <2>5. CASE \/ StartHooks \/ HooksDone \/ HangUp \/ Close \/ CloseOut
               \/ CloseReturns \/ TimerFires \/ Callback \/ WriterExits \/ Break
      BY <2>5 DEF StartHooks, HooksDone, HangUp, Close, CloseOut, CloseReturns,
                  TimerFires, Callback, WriterExits, Break
    <2>6. QED
      BY <2>1, <2>2, <2>3, <2>4, <2>5
  <1>4. QED
    BY <1>1, <1>2, <1>3, FramesStay

\* Steps that enqueue a frame.
LEMMA EnqueuesFlow ==
  ASSUME TypeOK, WriterInv, FlowInv, ColdQuiet', EchoOnly', echo' = echo,
         \/ \E p \in Producers : FlushEnqueue(p) \/ FrameEnqueue(p)
         \/ \E newline \in BOOLEAN : SwitchEnqueue(newline)
         \/ CallbackEnqueue
  PROVE  FlowInv'
  <1> USE WriterAssumption DEF Producers
  <1>1. phase = "rounds" => \A h \in Hooks : pc[h] = "ended"
    BY DEF WriterInv, HooksBounded
  <1>2. held \in Seq(Item) /\ pc \in [Producers -> PC]
    BY DEF TypeOK
  <1>3. ASSUME Enqueue(held), phase = "rounds" PROVE FlowInv'
    BY <1>1, <1>2, <1>3, EnqueueFlow
  <1>4. ASSUME NEW p \in Producers, FlushEnqueue(p) PROVE FlowInv'
    BY <1>3, <1>4 DEF FlushEnqueue, FlowInv, ColdQuiet, Locked
  <1>5. ASSUME NEW newline \in BOOLEAN, SwitchEnqueue(newline) PROVE FlowInv'
    BY <1>3, <1>5 DEF SwitchEnqueue, FlowInv, ColdQuiet, Locked
  <1>6. CASE CallbackEnqueue
    BY <1>3, <1>6 DEF CallbackEnqueue, FlowInv, ColdQuiet
  <1>7. ASSUME NEW p \in Producers, FrameEnqueue(p) PROVE FlowInv'
    <2> DEFINE item == [by |-> p, n |-> sent[p], block |-> NoBlock]
    <2>1. item \in Item
      BY DEF TypeOK, Item
    <2> HIDE DEF item
    <2>2. PICK frame : frame = <<item>>
      OBVIOUS
    <2>3. frame \in Seq(Item) /\ frame[1] = item
      BY <2>1, <2>2
    <2> USE DEF item
    <2>4. /\ Enqueue(frame) /\ frame[1].by = p
          /\ OfAnswer(frame) => \A h \in Hooks : pc[h] = "ended"
      BY <1>1, <1>7, <2>2, <2>3 DEF FrameEnqueue, OfAnswer, FlowInv, EchoOnly, TypeOK
    <2>5. ASSUME NEW h \in Hooks, pc'[h] = "ended", pc[h] # "ended"
          PROVE  h = p /\ ~done
      <3>1. h = p /\ pc[h] = "enqueue"
        BY <1>2, <1>7, <2>5 DEF FrameEnqueue, Go
      <3>2. phase # "rounds"
        BY <1>1, <3>1
      <3>3. ~outClosed
        BY <3>2 DEF WriterInv, ClosedQuiet
      <3>4. QED
        BY <3>1, <3>3 DEF FlowInv
    <2>6. QED
      BY <2>3, <2>4, <2>5, EnqueueFlow
  <1>8. QED
    BY <1>4, <1>5, <1>6, <1>7

LEMMA FlowNext ==
  TypeOK /\ WriterInv /\ FlowInv /\ [Next]_vars => FlowInv'
  <1> SUFFICES ASSUME TypeOK, WriterInv, FlowInv, [Next]_vars PROVE FlowInv'
    OBVIOUS
  <1>1. ColdQuiet' /\ EchoOnly' /\ echo' = echo
    BY ColdStays, EchoStays DEF FlowInv
  <1>2. CASE \/ UNCHANGED vars
             \/ \E p \in Producers : WriteFrame(p) \/ Flush(p)
             \/ \E h \in Hooks : HookDropped(h)
             \/ \E b \in Blocks, newline \in BOOLEAN : Delta(b, newline)
             \/ StartHooks \/ HooksDone \/ HangUp \/ Close \/ CloseOut
             \/ CloseReturns \/ TimerFires \/ Callback \/ WriterExits \/ Break
    BY <1>1, <1>2, QuietFlow
  <1>3. CASE \/ \E p \in Producers : FlushEnqueue(p) \/ FrameEnqueue(p)
             \/ \E newline \in BOOLEAN : SwitchEnqueue(newline)
             \/ CallbackEnqueue
    BY <1>1, <1>3, EnqueuesFlow
  <1>4. CASE Deliver
    BY <1>1, <1>4, DeliverFlow
  <1>5. CASE Drain
    <2>1. failed' /\ UNCHANGED <<delivered, done, outClosed>>
      BY <1>5 DEF Drain, wireVars
    <2>2. HooksFirst'
      BY <1>1, <2>1 DEF FlowInv, HooksFirst, OfAnswer
    <2>3. QED
      BY <1>1, <2>1, <2>2 DEF FlowInv
  <1>6. QED
    BY <1>2, <1>3, <1>4, <1>5
       DEF Next, MainStarts, MainGoesOn, HookStep, Writer, Finished, Producers

\* The client has the requests of both hooks before any frame of the answer,
\* which is every frame of the run but the echo of the prompt (deltas, tool calls,
\* states and errors), whatever the capacity of the channel, wherever a flush is
\* interrupted and whenever the connection breaks (runLocalInference, waiting for
\* hooksDone).
THEOREM RequestsFirst == Spec => []HooksFirst
  <1>1. Init => TypeOK /\ WriterInv /\ FlowInv
    BY TypesInit, WriterInit, FlowInit
  <1>2. TypeOK /\ WriterInv /\ FlowInv /\ [Next]_vars
          => (TypeOK /\ WriterInv /\ FlowInv)'
    BY TypesNext, WriterNext, FlowNext
  <1>3. FlowInv => HooksFirst
    BY DEF FlowInv
  <1>4. QED
    BY <1>1, <1>2, <1>3, PTL DEF Spec
(***************************************************************************)
(* The frame writer implements FrameChannel.  While no websocket write has *)
(* failed, the writes of each goroutine are, in their order, with the      *)
(* client, in the channel, in the hands of whoever holds coalMu, in the    *)
(* buffer and in the frame that the goroutine is about to enqueue.  How    *)
(* many writes each frame of the channel follows is given by positions c:  *)
(* c[0] counts what the client has, c[i] what it will have with the first  *)
(* i frames of the channel.                                                *)
(***************************************************************************)
Kinds == Blocks \cup {NoBlock}
Counts == [Producers -> Nat]
Piece(p, n, k, block) == Channel!Frame(p, n, k, block)

\* Frame takes the counts a to the counts b.
Links(frame, a, b) ==
  \E p \in Producers, k \in Nat \ {0}, block \in Kinds :
    /\ block = NoBlock => k = 1
    /\ frame = Piece(p, a[p], k, block)
    /\ b = [a EXCEPT ![p] = a[p] + k]

Chain(c) ==
  /\ c \in [Nat -> Counts]
  /\ \A i \in 1 .. Len(out) : Links(out[i], c[i - 1], c[i])
  /\ \A i \in 0 .. Len(out), p \in Producers : c[i][p] <= sent[p]

Delivered(count) ==
  \A p \in Producers, n \in Nat : Arrived(p, n) <=> n \in 1 .. count[p]

\* A write that was accepted and is neither in the buffer nor in held.
Own(p) == IF pc[p] \in {"flush", "flushing", "enqueue", "switch"} THEN 1 ELSE 0

\* What is not yet in the channel, where count is.
Pending(count) ==
  /\ \A h \in Hooks : count[h] + Own(h) = sent[h]
  /\ count[Main] + Len(held) + Len(buf) + Own(Main) = sent[Main]
  /\ held # <<>> => \E b \in Blocks : held = Piece(Main, count[Main], Len(held), b)
  /\ buf # <<>> => /\ coalBlock \in Blocks
                   /\ buf = Piece(Main, count[Main], Len(buf), coalBlock)
  /\ pc[Main] = "switch" =>
       \E b \in Blocks : delta = [by |-> Main, n |-> sent[Main], block |-> b]

Pipe(c) == Chain(c) /\ Delivered(c[0]) /\ Pending(c[Len(out)])

\* Whoever holds coalMu has text to enqueue, and Main has none left when its
\* own frame is next.
HoldInv ==
  /\ held # <<>> <=> ~Unlocked
  /\ pc[Main] = "enqueue" => buf = <<>> /\ Unlocked

PipeInv == HoldInv /\ (failed \/ \E c : Pipe(c))

\* A piece of text.
LEMMA PieceIs ==
  ASSUME NEW p \in Producers, NEW n \in Nat, NEW k \in Nat, NEW block \in Kinds
  PROVE  /\ Piece(p, n, k, block) \in Seq(Item)
         /\ Len(Piece(p, n, k, block)) = k
         /\ \A i \in 1 .. k :
              Piece(p, n, k, block)[i] = [by |-> p, n |-> n + i, block |-> block]
  <1> DEFINE piece == [i \in 1 .. k |-> [by |-> p, n |-> n + i, block |-> block]]
  <1>1. Piece(p, n, k, block) = piece
    BY DEF Piece, Channel!Frame
  <1>2. \A i \in 1 .. k : [by |-> p, n |-> n + i, block |-> block] \in Item
    BY DEF Item, Kinds
  <1>3. piece \in [1 .. k -> Item]
    BY <1>2
  <1>4. piece \in Seq(Item) /\ Len(piece) = k
    BY <1>3, SeqDef, LenProperties
  <1>5. QED
    BY <1>1, <1>4

\* A piece grows at its end.
LEMMA PieceAppend ==
  ASSUME NEW p \in Producers, NEW n \in Nat, NEW k \in Nat, NEW block \in Kinds
  PROVE  Append(Piece(p, n, k, block), [by |-> p, n |-> n + k + 1, block |-> block])
           = Piece(p, n, k + 1, block)
  <1> DEFINE a == Piece(p, n, k, block)
             item == [by |-> p, n |-> n + k + 1, block |-> block]
             t == Append(a, item)
             b == Piece(p, n, k + 1, block)
  <1>1. /\ a \in Seq(Item) /\ Len(a) = k
        /\ \A i \in 1 .. k : a[i] = [by |-> p, n |-> n + i, block |-> block]
    BY PieceIs
  <1>2. /\ b \in Seq(Item) /\ Len(b) = k + 1
        /\ \A i \in 1 .. k + 1 : b[i] = [by |-> p, n |-> n + i, block |-> block]
    <2>1. PICK l \in Nat : l = k + 1
      OBVIOUS
    <2>2. QED
      BY <2>1, PieceIs
  <1>3. item \in Item
    BY DEF Item, Kinds
  <1> HIDE DEF a, b
  <1>4. /\ t \in Seq(Item) /\ Len(t) = k + 1
        /\ \A i \in 1 .. k : t[i] = a[i]
        /\ t[k + 1] = item
    BY <1>1, <1>3, AppendProperties
  <1> HIDE DEF t
  <1>5. ASSUME NEW i \in 1 .. k + 1 PROVE t[i] = b[i]
    <2>1. CASE i \in 1 .. k
      BY <1>1, <1>2, <1>4, <2>1
    <2>2. CASE i = k + 1
      BY <1>2, <1>4, <2>2
    <2>3. QED
      BY <2>1, <2>2
  <1>6. t = b
    BY <1>2, <1>4, <1>5, SeqEqual
  <1>7. QED
    BY <1>6 DEF t, a, b

LEMMA PieceOne ==
  ASSUME NEW p \in Producers, NEW n \in Nat, NEW block \in Kinds
  PROVE  <<[by |-> p, n |-> n + 1, block |-> block]>> = Piece(p, n, 1, block)
  <1> DEFINE item == [by |-> p, n |-> n + 1, block |-> block]
             t == <<item>>
             b == Piece(p, n, 1, block)
  <1>1. b \in Seq(Item) /\ Len(b) = 1 /\ b[1] = item
    <2>1. PICK l \in Nat : l = 1
      OBVIOUS
    <2> DEFINE c == Piece(p, n, l, block)
    <2>2. /\ c \in Seq(Item) /\ Len(c) = l
          /\ \A i \in 1 .. l : c[i] = [by |-> p, n |-> n + i, block |-> block]
      BY PieceIs
    <2>3. b = c
      BY <2>1
    <2> HIDE DEF b, c
    <2>4. QED
      BY <2>1, <2>2, <2>3
  <1>2. item \in Item
    BY DEF Item, Kinds
  <1> HIDE DEF b, item
  <1>3. t \in Seq(Item) /\ Len(t) = 1 /\ t[1] = item
    BY <1>2
  <1> HIDE DEF t
  <1>4. t = b
    BY <1>1, <1>3, SeqEqual
  <1>5. QED
    BY <1>4 DEF t, b, item

LEMMA LastOfIs ==
  ASSUME NEW n \in Nat, NEW s \in Nat, n <= s, NEW numbers,
         numbers = {m \in 1 .. s : m \in 1 .. n}
  PROVE  LastOf(numbers) = n
  <1>1. n \in numbers \cup {0} /\ \A m \in numbers : m <= n
    OBVIOUS
  <1>2. \A x \in numbers \cup {0} : (\A m \in numbers : m <= x) => x = n
    <2> SUFFICES ASSUME NEW x \in numbers \cup {0}, \A m \in numbers : m <= x
                 PROVE  x = n
      OBVIOUS
    <2>1. x \in Nat /\ x <= n
      OBVIOUS
    <2>2. n <= x
      <3>1. CASE n = 0
        BY <2>1, <3>1
      <3>2. CASE n # 0
        BY <1>1, <3>2
      <3>3. QED
        BY <3>1, <3>2
    <2>3. QED
      BY <2>1, <2>2
  <1>3. QED
    BY <1>1, <1>2 DEF LastOf

(***************************************************************************)
(* Whoever holds coalMu has text to enqueue.                               *)
(***************************************************************************)
LEMMA AppendTextHolds ==
  ASSUME TypeOK, NEW text \in Seq(Item), NEW item \in Item, NEW newline,
         AppendText(text, item, newline)
  PROVE  \/ held' # <<>> /\ Go(Main, "deltas")
         \/ held' = <<>> /\ Go(Main, "idle")
  <1>1. Append(text, item) # <<>>
    BY AppendProperties
  <1>2. QED
    BY <1>1 DEF AppendText, TakeBuffer

LEMMA HoldNext ==
  TypeOK /\ WriterInv /\ HoldInv /\ [Next]_vars => HoldInv'
  <1> SUFFICES ASSUME TypeOK, WriterInv, HoldInv, [Next]_vars PROVE HoldInv'
    OBVIOUS
  <1> USE WriterAssumption
      DEF WriterInv, Places, Mutex, HoldInv, Unlocked, Locked, PC, Producers, Go,
          bufVars, timeVars, chanVars, wireVars
  <1>1. CASE UNCHANGED vars
    BY <1>1 DEF vars
  <1>2. ASSUME NEW p \in Producers, WriteFrame(p) PROVE HoldInv'
    BY <1>2 DEF WriteFrame, MayWrite
  <1>3. ASSUME NEW h \in Hooks, HookDropped(h) PROVE HoldInv'
    BY <1>3 DEF HookDropped
  <1>4. ASSUME NEW p \in Producers, Flush(p) PROVE HoldInv'
    BY <1>4 DEF Flush, TakeBuffer
  <1>5. ASSUME NEW p \in Producers, FlushEnqueue(p) PROVE HoldInv'
    BY <1>5 DEF FlushEnqueue, Enqueue
  <1>6. ASSUME NEW p \in Producers, FrameEnqueue(p) PROVE HoldInv'
    BY <1>6 DEF FrameEnqueue, Enqueue
  <1>7. ASSUME NEW b \in Blocks, NEW newline \in BOOLEAN, Delta(b, newline)
        PROVE  HoldInv'
    <2>1. pc[Main] = "idle" /\ Unlocked /\ UNCHANGED flushing
      BY <1>7 DEF Delta, MayWrite
    <2> DEFINE item == [by |-> Main, n |-> sent[Main] + 1, block |-> b]
    <2>2. item \in Item /\ buf \in Seq(Item)
      BY DEF TypeOK, Item
    <2>3. CASE buf # <<>> /\ held' = buf /\ Go(Main, "switch")
      BY <2>1, <2>3
    <2>4. CASE AppendText(buf, item, newline)
      <3> HIDE DEF item
      <3>1. CASE held' # <<>> /\ Go(Main, "deltas")
        BY <2>1, <3>1
      <3>2. CASE held' = <<>> /\ Go(Main, "idle")
        BY <2>1, <3>2
      <3>3. QED
        BY <2>2, <2>4, <3>1, <3>2, AppendTextHolds
    <2>5. QED
      BY <1>7, <2>3, <2>4 DEF Delta, TakeBuffer
  <1>8. ASSUME NEW newline \in BOOLEAN, SwitchEnqueue(newline)
        PROVE  HoldInv'
    <2>1. /\ pc[Main] = "switch" /\ AppendText(<<>>, delta, newline)
          /\ UNCHANGED flushing
      BY <1>8 DEF SwitchEnqueue
    <2>2. delta \in Item /\ <<>> \in Seq(Item)
      BY EmptySeq DEF TypeOK
    <2>3. CASE held' # <<>> /\ Go(Main, "deltas")
      BY <2>1, <2>3
    <2>4. CASE held' = <<>> /\ Go(Main, "idle")
      BY <2>1, <2>4
    <2>5. QED
      BY <2>1, <2>2, <2>3, <2>4, AppendTextHolds
  <1>9. CASE StartHooks \/ HooksDone
    BY <1>9 DEF StartHooks, HooksDone, HooksBounded
  <1>15. CASE HangUp \/ Close \/ CloseOut \/ CloseReturns \/ TimerFires
    BY <1>15 DEF HangUp, Close, CloseOut, CloseReturns, TimerFires
  <1>13. CASE Writer \/ Break
    BY <1>13 DEF Writer, Deliver, Drain, WriterExits, Break
  <1>14. CASE Finished
    BY <1>1, <1>14 DEF Finished
  <1>10. CASE Callback
    BY <1>10 DEF Callback, TakeBuffer
  <1>11. CASE CallbackEnqueue
    BY <1>11 DEF CallbackEnqueue, Enqueue
  <1>12. QED
    BY <1>1, <1>2, <1>3, <1>4, <1>5, <1>6, <1>7, <1>8, <1>9, <1>10, <1>11, <1>13,
       <1>14, <1>15
    DEF Next, MainStarts, MainGoesOn, HookStep

\* Whoever has a frame to enqueue finds the writer goroutine alive.
LEMMA NotDone ==
  ASSUME WriterInv, FlowInv,
         flushing \/ \E p \in Producers : pc[p] \in Locked \cup {"enqueue"}
  PROVE  ~done
  BY WriterAssumption
  DEF WriterInv, Places, Mutex, HooksBounded, ClosedQuiet, FlowInv, Locked, Producers

(***************************************************************************)
(* The positions of the channel.                                           *)
(***************************************************************************)
\* Only what goroutines still hold changes.
LEMMA PipeStay ==
  ASSUME TypeOK, TypeOK', NEW c, Pipe(c), UNCHANGED <<out, delivered>>,
         \A p \in Producers : sent[p] <= sent'[p],
         Pending(c[Len(out)])'
  PROVE  Pipe(c)'
  <1>1. \A i \in 0 .. Len(out), p \in Producers : c[i][p] \in Nat
    BY LenProperties DEF Pipe, Chain, Counts, TypeOK
  <1>2. \A p \in Producers : sent[p] \in Nat /\ sent'[p] \in Nat
    BY DEF TypeOK
  <1>3. Chain(c)'
    BY <1>1, <1>2 DEF Pipe, Chain
  <1>4. Delivered(c[0])'
    BY DEF Pipe, Delivered, Arrived
  <1>5. QED
    BY <1>3, <1>4 DEF Pipe

\* A frame joins the channel.
LEMMA PipeEnqueue ==
  ASSUME TypeOK, NEW c, Pipe(c), ~failed, ~done, UNCHANGED sent,
         NEW p \in Producers, NEW k \in Nat \ {0}, NEW block \in Kinds,
         block = NoBlock => k = 1,
         NEW q, q = c[Len(out)], NEW new, new = [q EXCEPT ![p] = q[p] + k],
         Enqueue(Piece(p, q[p], k, block)), q[p] + k <= sent[p],
         Pending(new)'
  PROVE  \E d : Pipe(d)'
  <1> DEFINE frame == Piece(p, q[p], k, block)
  <1>0. PICK d : d = [c EXCEPT ![Len(out) + 1] = new]
    OBVIOUS
  <1>1. /\ out \in Seq(Seq(Item)) /\ Len(out) \in Nat
        /\ c \in [Nat -> Counts] /\ q \in Counts /\ q[p] \in Nat
    <2>1. out \in Seq(Seq(Item))
      BY DEF TypeOK
    <2>2. Len(out) \in Nat
      BY <2>1, LenProperties
    <2>3. c \in [Nat -> Counts]
      BY DEF Pipe, Chain
    <2>4. q \in Counts
      BY <2>2, <2>3
    <2>5. QED
      BY <2>1, <2>2, <2>3, <2>4 DEF Counts
  <1>2. new \in Counts
    BY <1>1 DEF Counts
  <1>3. out' = Append(out, frame) /\ UNCHANGED delivered
    BY DEF Enqueue, wireVars
  <1>4. frame \in Seq(Item)
    BY <1>1, PieceIs
  <1> HIDE DEF frame
  <1>5. /\ Len(out') = Len(out) + 1
        /\ \A i \in 1 .. Len(out) : out'[i] = out[i]
        /\ out'[Len(out) + 1] = frame
    BY <1>1, <1>3, <1>4, AppendProperties
  <1>6. /\ d \in [Nat -> Counts] /\ d[Len(out) + 1] = new
        /\ \A i \in 0 .. Len(out) : d[i] = c[i]
    BY <1>0, <1>1, <1>2
  <1>7. Links(out'[Len(out) + 1], q, new)
    BY <1>5 DEF Links, frame
  <1>8. ASSUME NEW i \in 1 .. Len(out')
        PROVE  Links(out'[i], d[i - 1], d[i])
    <2>1. CASE i \in 1 .. Len(out)
      <3>1. Links(out[i], c[i - 1], c[i])
        BY <2>1 DEF Pipe, Chain
      <3>2. d[i - 1] = c[i - 1] /\ d[i] = c[i] /\ out'[i] = out[i]
        BY <1>1, <1>5, <1>6, <2>1
      <3>3. QED
        BY <3>1, <3>2
    <2>2. CASE i = Len(out) + 1
      <3>1. d[i - 1] = q /\ d[i] = new
        BY <1>1, <1>6, <2>2
      <3>2. QED
        BY <1>7, <2>2, <3>1
    <2>3. QED
      BY <1>1, <1>5, <2>1, <2>2
  <1>9. ASSUME NEW i \in 0 .. Len(out'), NEW g \in Producers
        PROVE  d[i][g] <= sent'[g]
    <2>1. CASE i \in 0 .. Len(out)
      BY <1>6, <2>1 DEF Pipe, Chain
    <2>2. CASE i = Len(out) + 1
      <3>1. q[g] <= sent[g]
        BY <1>1 DEF Pipe, Chain
      <3>2. d[i] = new /\ (new[g] = q[g] \/ (g = p /\ new[g] = q[p] + k))
        BY <1>1, <1>6, <2>2 DEF Counts
      <3>3. QED
        BY <3>1, <3>2
    <2>3. QED
      BY <1>1, <1>5, <2>1, <2>2
  <1>10. Chain(d)'
    BY <1>6, <1>8, <1>9 DEF Chain
  <1>11. Delivered(d[0])'
    <2>1. d[0] = c[0]
      BY <1>1, <1>6
    <2>2. QED
      BY <1>3, <2>1 DEF Pipe, Delivered, Arrived
  <1>12. Pending(d[Len(out)])'
    BY <1>5, <1>6
  <1>13. QED
    BY <1>10, <1>11, <1>12 DEF Pipe

\* The write is in one of the frames.
Holds(frames, p, n) ==
  \E i \in DOMAIN frames : \E j \in DOMAIN frames[i] :
    frames[i][j].by = p /\ frames[i][j].n = n

LEMMA HoldsAppend ==
  ASSUME NEW frames \in Seq(Seq(Item)), NEW frame \in Seq(Item),
         NEW p, NEW n
  PROVE  Holds(Append(frames, frame), p, n) <=>
           \/ Holds(frames, p, n)
           \/ \E j \in 1 .. Len(frame) : frame[j].by = p /\ frame[j].n = n
  <1> DEFINE all == Append(frames, frame)
  <1>1. /\ Len(frames) \in Nat
        /\ DOMAIN frames = 1 .. Len(frames)
        /\ DOMAIN frame = 1 .. Len(frame)
    BY LenProperties
  <1>2. /\ all \in Seq(Seq(Item)) /\ Len(all) = Len(frames) + 1
        /\ \A i \in 1 .. Len(frames) : all[i] = frames[i]
        /\ all[Len(frames) + 1] = frame
    BY <1>1, AppendProperties
  <1> HIDE DEF all
  <1>3. DOMAIN all = 1 .. Len(frames) + 1
    BY <1>2, LenProperties
  <1>4. ASSUME Holds(frames, p, n)
        PROVE  Holds(all, p, n)
    <2>1. PICK i \in 1 .. Len(frames) :
            \E j \in DOMAIN frames[i] : frames[i][j].by = p /\ frames[i][j].n = n
      BY <1>1, <1>4 DEF Holds
    <2>2. i \in DOMAIN all /\ all[i] = frames[i]
      BY <1>1, <1>2, <1>3
    <2>3. QED
      BY <2>1, <2>2 DEF Holds
  <1>5. ASSUME NEW j \in 1 .. Len(frame), frame[j].by = p, frame[j].n = n
        PROVE  Holds(all, p, n)
    <2>1. PICK i : i = Len(frames) + 1
      OBVIOUS
    <2>2. i \in DOMAIN all /\ all[i] = frame
      BY <1>1, <1>2, <1>3, <2>1
    <2>3. j \in DOMAIN all[i]
      BY <1>1, <2>2
    <2>4. QED
      BY <1>5, <2>2, <2>3 DEF Holds
  <1>6. ASSUME Holds(all, p, n)
        PROVE  \/ Holds(frames, p, n)
               \/ \E j \in 1 .. Len(frame) : frame[j].by = p /\ frame[j].n = n
    <2>1. PICK i \in 1 .. Len(frames) + 1 :
            \E j \in DOMAIN all[i] : all[i][j].by = p /\ all[i][j].n = n
      BY <1>3, <1>6 DEF Holds
    <2>2. CASE i \in 1 .. Len(frames)
      BY <1>1, <1>2, <2>1, <2>2 DEF Holds
    <2>3. CASE i = Len(frames) + 1
      BY <1>1, <1>2, <2>1, <2>3
    <2>4. QED
      BY <1>1, <2>2, <2>3
  <1>7. QED
    BY <1>4, <1>5, <1>6 DEF all

\* The client receives the first frame of the channel.
LEMMA PipeDeliver ==
  ASSUME TypeOK, NEW c, Pipe(c), Deliver,
         NEW d, d = [i \in Nat |-> c[i + 1]]
  PROVE  Pipe(d)' /\ Links(Head(out), c[0], d[0])
  <1>1. /\ out \in Seq(Seq(Item)) /\ out # <<>> /\ Len(out) \in Nat /\ Len(out) > 0
        /\ c \in [Nat -> Counts] /\ Head(out) = out[1] /\ Head(out) \in Seq(Item)
    <2>1. out \in Seq(Seq(Item)) /\ out # <<>> /\ c \in [Nat -> Counts]
      BY DEF TypeOK, Deliver, Pipe, Chain
    <2>2. Len(out) \in Nat /\ Len(out) > 0
      BY <2>1, LenProperties, EmptySeq
    <2>3. Head(out) = out[1] /\ Head(out) \in Seq(Item)
      BY <2>1, HeadTailProperties
    <2>4. QED
      BY <2>1, <2>2, <2>3
  <1>2. /\ Len(out') = Len(out) - 1
        /\ \A i \in 1 .. Len(out') : out'[i] = out[i + 1]
    BY <1>1, HeadTailProperties DEF Deliver
  <1>3. d \in [Nat -> Counts] /\ \A i \in Nat : d[i] = c[i + 1]
    BY <1>1
  <1>4. UNCHANGED <<pc, sent, buf, held, coalBlock, delta>>
    BY DEF Deliver, bufVars
  <1>5. Chain(d)'
    <2>1. ASSUME NEW i \in 1 .. Len(out') PROVE Links(out'[i], d[i - 1], d[i])
      <3>1. i + 1 \in 1 .. Len(out) /\ (i + 1) - 1 = i /\ i - 1 \in Nat /\ (i - 1) + 1 = i
        BY <1>1, <1>2
      <3>2. Links(out[i + 1], c[(i + 1) - 1], c[i + 1])
        BY <3>1 DEF Pipe, Chain
      <3>3. d[i] = c[i + 1] /\ d[i - 1] = c[i] /\ out'[i] = out[i + 1]
        <4>1. d[i - 1] = c[(i - 1) + 1]
          BY <1>3, <3>1
        <4>2. d[i - 1] = c[i]
          BY <3>1, <4>1
        <4>3. i \in Nat
          BY <1>1, <1>2
        <4>4. QED
          BY <1>2, <1>3, <4>2, <4>3
      <3>4. QED
        BY <3>1, <3>2, <3>3
    <2>2. ASSUME NEW i \in 0 .. Len(out'), NEW p \in Producers PROVE d[i][p] <= sent'[p]
      <3>1. i + 1 \in 0 .. Len(out) /\ d[i] = c[i + 1]
        BY <1>1, <1>2, <1>3
      <3>2. QED
        BY <1>4, <3>1 DEF Pipe, Chain
    <2>3. QED
      BY <1>3, <2>1, <2>2 DEF Chain
  <1>6. Links(Head(out), c[0], d[0])
    <2>1. Links(out[1], c[1 - 1], c[1])
      BY <1>1 DEF Pipe, Chain
    <2>2. 1 - 1 = 0 /\ d[0] = c[1]
      <3>1. d[0] = c[0 + 1]
        BY <1>3
      <3>2. QED
        BY <3>1
    <2>3. QED
      BY <1>1, <2>1, <2>2
  <1>7. Delivered(d[0])'
    <2>1. PICK p \in Producers, k \in Nat \ {0}, block \in Kinds :
            Head(out) = Piece(p, c[0][p], k, block) /\ d[0] = [c[0] EXCEPT ![p] = c[0][p] + k]
      BY <1>6 DEF Links
    <2>2. c[0] \in Counts /\ c[0][p] \in Nat
      BY <1>1 DEF Counts
    <2>6. PICK a \in Nat : a = c[0][p]
      BY <2>2
    <2>7. PICK frame : frame = Head(out)
      OBVIOUS
    <2>8. frame = Piece(p, a, k, block) /\ d[0] = [c[0] EXCEPT ![p] = a + k]
      BY <2>1, <2>6, <2>7
    <2>3. /\ frame \in Seq(Item) /\ Len(frame) = k
          /\ \A j \in 1 .. k : frame[j] = [by |-> p, n |-> a + j, block |-> block]
      <3>1. k \in Nat
        OBVIOUS
      <3>2. /\ Piece(p, a, k, block) \in Seq(Item) /\ Len(Piece(p, a, k, block)) = k
            /\ \A j \in 1 .. k :
                 Piece(p, a, k, block)[j] = [by |-> p, n |-> a + j, block |-> block]
        BY <3>1, PieceIs
      <3>3. QED
        BY <2>8, <3>2
    <2>9. ASSUME NEW n \in Nat
          PROVE  (\E j \in 1 .. k : frame[j].n = n) <=> n \in a + 1 .. a + k
      <3>1. ASSUME NEW j \in 1 .. k, frame[j].n = n
            PROVE  n \in a + 1 .. a + k
        <4>1. frame[j].n = a + j
          BY <2>3
        <4>2. QED
          BY <3>1, <4>1
      <3>2. ASSUME n \in a + 1 .. a + k
            PROVE  \E j \in 1 .. k : frame[j].n = n
        <4>1. PICK j \in 1 .. k : a + j = n
          <5>1. n - a \in 1 .. k /\ a + (n - a) = n
            BY <3>2
          <5>2. QED
            BY <5>1
        <4>2. frame[j] = [by |-> p, n |-> a + j, block |-> block]
          BY <2>3
        <4>3. QED
          BY <4>1, <4>2
      <3>3. QED
        BY <3>1, <3>2
    <2>10. \A j \in 1 .. k : frame[j].by = p
      BY <2>3
    <2>4. ASSUME NEW g \in Producers, NEW n \in Nat
          PROVE  Arrived(g, n)' <=> n \in 1 .. d[0][g]
      <3>1. Arrived(g, n)' <=>
              \/ Arrived(g, n)
              \/ \E j \in 1 .. k : frame[j].by = g /\ frame[j].n = n
        <4>1. delivered' = Append(delivered, frame)
          BY <2>7 DEF Deliver
        <4>2. DOMAIN frame = 1 .. k /\ frame \in Seq(Item)
          BY <2>3, LenProperties
        <4>3. Len(frame) = k
          BY <2>3
        <4>4. Arrived(g, n)' <=>
                \/ Arrived(g, n)
                \/ \E j \in 1 .. Len(frame) : frame[j].by = g /\ frame[j].n = n
          <5>1. Holds(Append(delivered, frame), g, n) <=>
                  \/ Holds(delivered, g, n)
                  \/ \E j \in 1 .. Len(frame) : frame[j].by = g /\ frame[j].n = n
            <6>1. delivered \in Seq(Seq(Item)) /\ frame \in Seq(Item)
              BY <4>2 DEF TypeOK
            <6>2. QED
              BY ONLY <6>1, HoldsAppend
          <5>2. Arrived(g, n) <=> Holds(delivered, g, n)
            BY DEF Arrived, Holds
          <5>3. Arrived(g, n)' <=> Holds(Append(delivered, frame), g, n)
            BY <4>1 DEF Arrived, Holds
          <5>4. QED
            BY <5>1, <5>2, <5>3
        <4>5. QED
          BY <4>3, <4>4
      <3>2. Arrived(g, n) <=> n \in 1 .. c[0][g]
        BY DEF Pipe, Delivered
      <3>3. CASE g # p
        <4>1. d[0][g] = c[0][g]
          BY <2>2, <2>8, <3>3 DEF Counts
        <4>2. QED
          BY <2>10, <3>1, <3>2, <3>3, <4>1
      <3>4. CASE g = p
        <4>1. d[0][g] = a + k /\ c[0][g] = a
          BY <2>2, <2>6, <2>8, <3>4 DEF Counts
        <4>2. Arrived(g, n)' <=> n \in 1 .. a \/ n \in a + 1 .. a + k
          BY <2>9, <2>10, <3>1, <3>2, <3>4, <4>1
        <4>3. QED
          BY <4>1, <4>2
      <3>5. QED
        BY <3>3, <3>4
    <2>5. QED
      BY <2>4 DEF Delivered
  <1>8. Pending(d[Len(out)])'
    <2>1. d[Len(out')] = c[Len(out)]
      BY <1>1, <1>2, <1>3
    <2>2. QED
      BY <1>4, <2>1 DEF Pipe, Pending, Own
  <1>9. QED
    BY <1>5, <1>6, <1>7, <1>8 DEF Pipe
(***************************************************************************)
(* What is not yet in the channel.                                         *)
(***************************************************************************)
LEMMA PipeTypes ==
  ASSUME TypeOK, NEW c, Pipe(c), NEW q, q = c[Len(out)]
  PROVE  /\ q \in Counts /\ \A p \in Producers : q[p] \in Nat /\ q[p] <= sent[p]
         /\ Pending(q)
         /\ Len(held) \in Nat /\ Len(buf) \in Nat
         /\ \A p \in Producers : sent[p] \in Nat
  <1>1. out \in Seq(Seq(Item)) /\ held \in Seq(Item) /\ buf \in Seq(Item)
    BY DEF TypeOK
  <1>2. Len(out) \in Nat /\ Len(held) \in Nat /\ Len(buf) \in Nat
    BY <1>1, LenProperties
  <1>3. c \in [Nat -> Counts] /\ \A p \in Producers : c[Len(out)][p] <= sent[p]
    BY <1>2 DEF Pipe, Chain
  <1>4. q \in Counts
    BY <1>2, <1>3
  <1>5. \A p \in Producers : q[p] \in Nat
    BY <1>4 DEF Counts
  <1>6. QED
    BY <1>2, <1>3, <1>4, <1>5 DEF Pipe, TypeOK

\* The writes of a goroutine change by what it has at hand.
Steady == \A p \in Producers : sent'[p] + Own(p) = sent[p] + Own(p)'

SwitchReady ==
  pc[Main] = "switch" =>
    \E b \in Blocks : delta = [by |-> Main, n |-> sent[Main], block |-> b]

LEMMA PendingStay ==
  ASSUME TypeOK, TypeOK', NEW q \in Counts, Pending(q),
         UNCHANGED <<held, buf, coalBlock>>, Steady, SwitchReady'
  PROVE  Pending(q)'
  <1>1. \A p \in Producers : q[p] \in Nat /\ sent[p] \in Nat /\ sent'[p] \in Nat
    BY DEF Counts, TypeOK
  <1>2. Len(held) \in Nat /\ Len(buf) \in Nat
    BY LenProperties DEF TypeOK
  <1>3. /\ \A h \in Hooks : q[h] + Own(h)' = sent'[h]
        /\ q[Main] + Len(held) + Len(buf) + Own(Main)' = sent'[Main]
    BY <1>1, <1>2 DEF Pending, Steady, Own, Producers
  <1>4. QED
    BY <1>3 DEF Pending, SwitchReady, Own

\* The text of the buffer is taken out, to be enqueued.
LEMMA PendingTaken ==
  ASSUME TypeOK, TypeOK', NEW q \in Counts, Pending(q),
         held = <<>>, buf # <<>>, TakeBuffer(buf), Steady, SwitchReady'
  PROVE  Pending(q)'
  <1>1. \A p \in Producers : q[p] \in Nat /\ sent[p] \in Nat /\ sent'[p] \in Nat
    BY DEF Counts, TypeOK
  <1>2. Len(buf) \in Nat /\ Len(<<>>) = 0
    BY LenProperties, EmptySeq DEF TypeOK
  <1>3. held' = buf /\ buf' = <<>>
    BY DEF TakeBuffer
  <1>4. \A h \in Hooks : q[h] + Own(h)' = sent'[h]
    BY <1>1, <1>2 DEF Pending, Steady, Own, Producers
  <1>5. q[Main] + Len(held') + Len(buf') + Own(Main)' = sent'[Main]
    BY <1>1, <1>2, <1>3 DEF Pending, Steady, Own, Producers
  <1>6. \E b \in Blocks : held' = Piece(Main, q[Main], Len(held'), b)
    BY <1>3 DEF Pending
  <1>7. QED
    BY <1>3, <1>4, <1>5, <1>6 DEF Pending, SwitchReady, Own

\* A delta has joined the text.
LEMMA PendingText ==
  ASSUME NEW q, NEW b \in Blocks, NEW text, Len(text) \in Nat,
         text = Piece(Main, q[Main], Len(text), b),
         coalBlock' = b,
         \/ held' = text /\ buf' = <<>>
         \/ held' = <<>> /\ buf' = text,
         \A h \in Hooks : q[h] + Own(h)' = sent'[h],
         q[Main] \in Nat, q[Main] + Len(text) + Own(Main)' = sent'[Main],
         pc'[Main] # "switch"
  PROVE  Pending(q)'
  <1>1. Len(<<>>) = 0
    BY EmptySeq
  <1>2. q[Main] + Len(held') + Len(buf') + Own(Main)' = sent'[Main]
    <2>1. Len(held') + Len(buf') = Len(text)
      BY <1>1
    <2>2. Len(held') \in Nat /\ Len(buf') \in Nat
      BY <1>1
    <2>3. Own(Main)' \in Nat
      BY DEF Own
    <2>4. QED
      BY <2>1, <2>2, <2>3
  <1>3. /\ held' # <<>> => held' = Piece(Main, q[Main], Len(held'), b)
        /\ buf' # <<>> => buf' = Piece(Main, q[Main], Len(buf'), b)
    OBVIOUS
  <1>4. QED
    BY <1>2, <1>3 DEF Pending, Own

\* The held text is enqueued.
LEMMA HeldEnqueued ==
  ASSUME TypeOK, NEW c, Pipe(c), ~failed, ~done, UNCHANGED sent,
         Enqueue(held), held # <<>>,
         NEW q, q = c[Len(out)], NEW new,
         new = [q EXCEPT ![Main] = q[Main] + Len(held)],
         Pending(new)'
  PROVE  \E d : Pipe(d)'
  <1>1. /\ Pending(q) /\ q[Main] \in Nat /\ Len(held) \in Nat /\ Len(buf) \in Nat
        /\ sent[Main] \in Nat
    BY PipeTypes DEF Producers
  <1>2. PICK b \in Blocks : held = Piece(Main, q[Main], Len(held), b)
    BY <1>1 DEF Pending
  <1>3. PICK k : k = Len(held)
    OBVIOUS
  <1>4. k \in Nat \ {0} /\ held = Piece(Main, q[Main], k, b)
    <2>1. Len(held) # 0
      BY EmptySeq DEF TypeOK
    <2>2. QED
      BY <1>1, <1>2, <1>3, <2>1
  <1>5. b \in Kinds /\ (b = NoBlock => k = 1) /\ Main \in Producers
    BY WriterAssumption DEF Kinds, Producers
  <1>6. q[Main] + k <= sent[Main]
    BY <1>1, <1>3 DEF Pending, Own
  <1>7. Enqueue(Piece(Main, q[Main], k, b)) /\ new = [q EXCEPT ![Main] = q[Main] + k]
    BY <1>3, <1>4
  <1>8. QED
    BY <1>4, <1>5, <1>6, <1>7, PipeEnqueue
(***************************************************************************)
(* The actions.                                                            *)
(***************************************************************************)
\* Steps that enqueue nothing and take nothing out of the buffer.
LEMMA QuietPipe ==
  ASSUME TypeOK, TypeOK', WriterInv, NEW c, Pipe(c),
         \/ UNCHANGED vars
         \/ \E p \in Producers : WriteFrame(p) \/ (Flush(p) /\ buf = <<>>)
         \/ \E h \in Hooks : HookDropped(h)
         \/ StartHooks \/ HooksDone \/ HangUp \/ Close \/ CloseOut
         \/ CloseReturns \/ TimerFires \/ (Callback /\ buf = <<>>)
         \/ WriterExits \/ Break
  PROVE  Pipe(c)'
  <1> PICK q : q = c[Len(out)]
    OBVIOUS
  <1>1. /\ q \in Counts /\ Pending(q)
        /\ \A p \in Producers : sent[p] \in Nat
    BY PipeTypes
  <1>2. /\ UNCHANGED <<held, buf, coalBlock, out, delivered>>
        /\ Steady /\ SwitchReady'
        /\ \A p \in Producers : sent[p] <= sent'[p]
    <2> USE <1>1, WriterAssumption
        DEF Steady, SwitchReady, Own, Go, Producers, TypeOK, bufVars, timeVars,
            chanVars, wireVars
    <2> SwitchReady
      BY <1>1 DEF Pending, SwitchReady
    <2>1. CASE UNCHANGED vars
      BY <2>1 DEF vars
    <2>2. ASSUME NEW p \in Producers, WriteFrame(p)
          PROVE  /\ UNCHANGED <<held, buf, coalBlock, out, delivered>>
                 /\ Steady /\ SwitchReady'
                 /\ \A g \in Producers : sent[g] <= sent'[g]
      BY <2>2 DEF WriteFrame, MayWrite
    <2>3. ASSUME NEW p \in Producers, Flush(p), buf = <<>>
          PROVE  /\ UNCHANGED <<held, buf, coalBlock, out, delivered>>
                 /\ Steady /\ SwitchReady'
                 /\ \A g \in Producers : sent[g] <= sent'[g]
      BY <2>3 DEF Flush
    <2>4. ASSUME NEW h \in Hooks, HookDropped(h)
          PROVE  /\ UNCHANGED <<held, buf, coalBlock, out, delivered>>
                 /\ Steady /\ SwitchReady'
                 /\ \A g \in Producers : sent[g] <= sent'[g]
      BY <2>4 DEF HookDropped
    <2>5. CASE StartHooks
      BY <2>5 DEF StartHooks, WriterInv, HooksBounded
    <2>6. CASE HooksDone \/ HangUp \/ Close \/ CloseOut \/ CloseReturns
      BY <2>6 DEF HooksDone, HangUp, Close, CloseOut, CloseReturns
    <2>7. CASE TimerFires \/ (Callback /\ buf = <<>>) \/ WriterExits \/ Break
      BY <2>7 DEF TimerFires, Callback, WriterExits, Break
    <2>8. QED
      BY <2>1, <2>2, <2>3, <2>4, <2>5, <2>6, <2>7
  <1>3. Pending(q)'
    BY <1>1, <1>2, PendingStay
  <1>4. c[Len(out)]' = q
    BY <1>2
  <1>5. QED
    BY <1>2, <1>3, <1>4, PipeStay

\* flushLocked, called by flush or by the timer.
LEMMA FlushPipe ==
  ASSUME TypeOK, TypeOK', WriterInv, HoldInv, NEW c, Pipe(c), buf # <<>>,
         Callback \/ \E p \in Producers : Flush(p)
  PROVE  Pipe(c)'
  <1> PICK q : q = c[Len(out)]
    OBVIOUS
  <1>1. /\ q \in Counts /\ Pending(q)
        /\ \A p \in Producers : sent[p] \in Nat
    BY PipeTypes
  <1>2. held = <<>>
    BY DEF HoldInv, Flush, Callback
  <1>3. TakeBuffer(buf) /\ UNCHANGED <<sent, coalBlock, delta, out, delivered>>
    BY DEF Flush, Callback, chanVars, wireVars
  <1>4. Steady /\ SwitchReady'
    <2> USE <1>1, WriterAssumption
        DEF Steady, SwitchReady, Own, Go, Producers, TypeOK, Pending
    <2>1. CASE Callback
      BY <1>3, <2>1 DEF Callback
    <2>2. ASSUME NEW p \in Producers, Flush(p)
          PROVE  Steady /\ SwitchReady'
      BY <1>3, <2>2 DEF Flush
    <2>3. QED
      BY <2>1, <2>2
  <1>5. Pending(q)'
    BY <1>1, <1>2, <1>3, <1>4, PendingTaken
  <1>6. c[Len(out)]' = q
    BY <1>3
  <1>7. QED
    BY <1>1, <1>3, <1>5, <1>6, PipeStay

\* What was flushed is enqueued, by Main, by a hook or by the timer.
LEMMA HeldPipe ==
  ASSUME TypeOK, TypeOK', WriterInv, FlowInv, HoldInv, NEW c, Pipe(c), ~failed,
         CallbackEnqueue \/ \E p \in Producers : FlushEnqueue(p)
  PROVE  \E d : Pipe(d)'
  <1> PICK q : q = c[Len(out)]
    OBVIOUS
  <1>1. /\ q \in Counts /\ Pending(q) /\ Len(held) \in Nat /\ Len(buf) \in Nat
        /\ \A p \in Producers : sent[p] \in Nat /\ q[p] \in Nat
    BY PipeTypes
  <1> PICK new : new = [q EXCEPT ![Main] = q[Main] + Len(held)]
    OBVIOUS
  <1>2. flushing \/ \E p \in Producers : pc[p] \in Locked
    BY DEF CallbackEnqueue, FlushEnqueue, Locked
  <1>3. ~done /\ ~Unlocked
    BY <1>2, NotDone DEF Unlocked
  <1>4. buf = <<>> /\ held # <<>>
    BY <1>3 DEF WriterInv, Mutex, HoldInv
  <1>5. Enqueue(held) /\ held' = <<>> /\ UNCHANGED <<sent, buf, coalBlock, delta>>
    BY DEF CallbackEnqueue, FlushEnqueue
  <1>6. \A p \in Producers : Own(p)' = Own(p)
    <2> USE DEF Own, Go, TypeOK
    <2>1. CASE CallbackEnqueue
      BY <2>1 DEF CallbackEnqueue
    <2>2. ASSUME NEW p \in Producers, FlushEnqueue(p)
          PROVE  \A g \in Producers : Own(g)' = Own(g)
      BY <2>2 DEF FlushEnqueue
    <2>3. QED
      BY <2>1, <2>2
  <1>7. pc'[Main] = "switch" => pc[Main] = "switch"
    BY DEF CallbackEnqueue, FlushEnqueue, Go, TypeOK, Producers
  <1>8. Pending(new)'
    <2>1. Len(held') = 0 /\ Len(buf') = 0 /\ Len(buf) = 0
      BY <1>4, <1>5, EmptySeq
    <2>2. /\ new[Main] = q[Main] + Len(held)
          /\ \A h \in Hooks : new[h] = q[h]
      BY <1>1, WriterAssumption DEF Counts, Producers
    <2>3. \A h \in Hooks : new[h] + Own(h)' = sent'[h]
      BY <1>1, <1>5, <1>6, <2>2 DEF Pending, Producers
    <2>4. new[Main] + Len(held') + Len(buf') + Own(Main)' = sent'[Main]
      <3>1. Own(Main)' = Own(Main) /\ Own(Main) \in Nat
        BY <1>6 DEF Own, Producers
      <3>2. QED
        BY <1>1, <1>5, <2>1, <2>2, <3>1 DEF Pending, Producers
    <2>5. pc'[Main] = "switch" =>
            \E b \in Blocks : delta' = [by |-> Main, n |-> sent'[Main], block |-> b]
      BY <1>1, <1>5, <1>7 DEF Pending
    <2>6. QED
      BY <1>4, <1>5, <2>3, <2>4, <2>5 DEF Pending, Own
  <1>9. QED
    BY <1>3, <1>4, <1>5, <1>8, HeldEnqueued

\* A frame that is not a streaming delta is enqueued.
LEMMA FramePipe ==
  ASSUME TypeOK, TypeOK', WriterInv, FlowInv, HoldInv, NEW c, Pipe(c), ~failed,
         NEW p \in Producers, FrameEnqueue(p)
  PROVE  \E d : Pipe(d)'
  <1> PICK q : q = c[Len(out)]
    OBVIOUS
  <1>1. /\ q \in Counts /\ Pending(q) /\ Len(held) \in Nat /\ Len(buf) \in Nat
        /\ \A g \in Producers : sent[g] \in Nat /\ q[g] \in Nat
    BY PipeTypes
  <1> PICK new : new = [q EXCEPT ![p] = q[p] + 1]
    OBVIOUS
  <1>2. pc[p] = "enqueue" /\ UNCHANGED <<sent, held, buf, coalBlock, delta>>
    BY DEF FrameEnqueue, bufVars
  <1>3. ~done
    BY <1>2, NotDone
  <1>4. p = Main => held = <<>> /\ buf = <<>>
    BY <1>2 DEF HoldInv
  <1>5. sent[p] = q[p] + 1
    <2>1. CASE p = Main
      <3>1. Len(held) = 0 /\ Len(buf) = 0 /\ Own(Main) = 1
        BY <1>2, <1>4, <2>1, EmptySeq DEF Own
      <3>2. q[Main] + Len(held) + Len(buf) + Own(Main) = sent[Main]
        BY <1>1 DEF Pending
      <3>3. QED
        BY <1>1, <2>1, <3>1, <3>2
    <2>2. CASE p \in Hooks
      BY <1>1, <1>2, <2>2 DEF Pending, Own
    <2>3. QED
      BY <2>1, <2>2 DEF Producers
  <1>6. Enqueue(Piece(p, q[p], 1, NoBlock))
    <2>1. NoBlock \in Kinds
      BY DEF Kinds
    <2>2. <<[by |-> p, n |-> q[p] + 1, block |-> NoBlock]>> = Piece(p, q[p], 1, NoBlock)
      BY <1>1, <2>1, PieceOne
    <2>3. Enqueue(<<[by |-> p, n |-> sent[p], block |-> NoBlock]>>)
      BY DEF FrameEnqueue
    <2>4. QED
      BY <1>5, <2>2, <2>3
  <1>7. /\ pc'[p] \in {"idle", "ended"}
        /\ \A g \in Producers \ {p} : pc'[g] = pc[g]
    BY DEF FrameEnqueue, Go, TypeOK
  <1>8. new[p] = q[p] + 1 /\ \A g \in Producers \ {p} : new[g] = q[g]
    BY <1>1 DEF Counts
  <1>9. \A g \in Producers : new[g] + Own(g)' = q[g] + Own(g)
    BY <1>1, <1>2, <1>7, <1>8 DEF Own
  <1>10. Pending(new)'
    <2>1. \A h \in Hooks : new[h] + Own(h)' = sent'[h]
      BY <1>1, <1>2, <1>9 DEF Pending, Producers
    <2>2. new[Main] + Len(held') + Len(buf') + Own(Main)' = sent'[Main]
      <3>1. new[Main] + Own(Main)' = q[Main] + Own(Main)
        BY <1>9 DEF Producers
      <3>2. q[Main] + Len(held) + Len(buf) + Own(Main) = sent[Main]
        BY <1>1 DEF Pending
      <3>3. Own(Main) \in Nat /\ Own(Main)' \in Nat /\ new[Main] \in Nat
        BY <1>1, <1>8 DEF Own, Producers
      <3>4. q[Main] \in Nat /\ Len(held) \in Nat /\ Len(buf) \in Nat
        BY <1>1 DEF Producers
      <3>5. new[Main] + Len(held) + Len(buf) + Own(Main)' = sent[Main]
        <4>1. /\ Own(Main) = 0 \/ Own(Main) = 1
              /\ Own(Main)' = 0 \/ Own(Main)' = 1
          BY DEF Own
        <4>2. QED
          BY <3>1, <3>2, <3>3, <3>4, <4>1
      <3>6. QED
        BY <1>2, <3>5
    <2>3. p # Main => new[Main] = q[Main] /\ pc'[Main] = pc[Main]
      BY <1>7, <1>8 DEF Producers
    <2>4. p = Main => held' = <<>> /\ buf' = <<>> /\ pc'[Main] # "switch"
      BY <1>2, <1>4, <1>7
    <2>5. QED
      BY <1>1, <1>2, <2>1, <2>2, <2>3, <2>4 DEF Pending
  <1>11. q[p] + 1 <= sent[p]
    BY <1>1, <1>5
  <1>12. PICK k \in Nat \ {0} : k = 1
    OBVIOUS
  <1>13. QED
    BY <1>2, <1>3, <1>6, <1>10, <1>11, <1>12, PipeEnqueue DEF Kinds
LEMMA AppendTextIs ==
  ASSUME NEW text, NEW item, NEW newline, AppendText(text, item, newline)
  PROVE  /\ coalBlock' = item.block
         /\ \/ held' = Append(text, item) /\ buf' = <<>> /\ Go(Main, "deltas")
            \/ held' = <<>> /\ buf' = Append(text, item) /\ Go(Main, "idle")
  BY DEF AppendText, TakeBuffer

\* A delta joins the text of its block, or follows that of another.
LEMMA DeltaPipe ==
  ASSUME TypeOK, TypeOK', WriterInv, HoldInv, NEW c, Pipe(c),
         NEW b \in Blocks, NEW newline \in BOOLEAN, Delta(b, newline)
  PROVE  Pipe(c)'
  <1> DEFINE item == [by |-> Main, n |-> sent[Main] + 1, block |-> b]
  <1> PICK q : q = c[Len(out)]
    OBVIOUS
  <1>1. /\ q \in Counts /\ Pending(q) /\ Len(held) \in Nat /\ Len(buf) \in Nat
        /\ \A g \in Producers : sent[g] \in Nat /\ q[g] \in Nat
    BY PipeTypes
  <1>2. /\ pc[Main] = "idle" /\ Unlocked
        /\ sent' = [sent EXCEPT ![Main] = sent[Main] + 1]
        /\ UNCHANGED <<out, delivered>>
    BY DEF Delta, MayWrite, chanVars, wireVars
  <1>3. held = <<>> /\ Main \notin Hooks
    BY <1>2, WriterAssumption DEF HoldInv
  <1>4. /\ sent'[Main] = sent[Main] + 1
        /\ \A h \in Hooks : sent'[h] = sent[h]
    BY <1>2, <1>3 DEF TypeOK, Producers
  <1>5. q[Main] + Len(buf) = sent[Main]
    <2>1. Len(held) = 0
      BY <1>3, EmptySeq
    <2>2. q[Main] + Len(held) + Len(buf) = sent[Main]
      BY <1>1, <1>2 DEF Pending, Own, Producers
    <2>3. QED
      BY <1>1, <2>1, <2>2 DEF Producers
  <1>6. item \in Item /\ item.block = b
    BY DEF TypeOK, Item, Producers
  <1>7. ASSUME TakeBuffer(buf), delta' = item, Go(Main, "switch"), buf # <<>>,
               UNCHANGED coalBlock
        PROVE  Pending(q)'
    <2>1. /\ pc'[Main] = "switch"
          /\ \A h \in Hooks : pc'[h] = pc[h]
      BY <1>3, <1>7 DEF Go, TypeOK, Producers
    <2>2. Steady
      BY <1>1, <1>2, <1>4, <2>1 DEF Steady, Own, Producers
    <2>3. SwitchReady'
      BY <1>4, <1>7 DEF SwitchReady
    <2>4. QED
      BY <1>1, <1>3, <1>7, <2>2, <2>3, PendingTaken
  <1>8. ASSUME AppendText(buf, item, newline), buf = <<>> \/ coalBlock = b
        PROVE  Pending(q)'
    <2>1. /\ coalBlock' = b
          /\ \/ /\ held' = Append(buf, item) /\ buf' = <<>>
                /\ Go(Main, "deltas")
             \/ /\ held' = <<>> /\ buf' = Append(buf, item)
                /\ Go(Main, "idle")
      <3> HIDE DEF item
      <3>1. QED
        BY <1>6, <1>8, AppendTextIs
    <2> DEFINE text == Append(buf, item)
    <2>2. Len(text) = Len(buf) + 1 /\ text = Piece(Main, q[Main], Len(buf) + 1, b)
      <3>1. Len(text) = Len(buf) + 1
        <4> HIDE DEF item
        <4>1. QED
          BY <1>6, AppendProperties DEF TypeOK
      <3>2. CASE buf = <<>>
        <4>1. Len(buf) = 0 /\ sent[Main] = q[Main]
          BY <1>1, <1>5, <3>2, EmptySeq DEF Producers
        <4>2. text = <<item>>
          <5> HIDE DEF item
          <5>1. QED
            BY <3>2
        <4>3. <<item>> = Piece(Main, q[Main], 1, b)
          BY <1>1, <4>1, PieceOne DEF Kinds, Producers
        <4>4. QED
          BY <3>1, <4>1, <4>2, <4>3
      <3>3. CASE buf # <<>>
        <4>1. buf = Piece(Main, q[Main], Len(buf), b)
          BY <1>1, <1>8, <3>3 DEF Pending
        <4>2. item = [by |-> Main, n |-> q[Main] + Len(buf) + 1, block |-> b]
          BY <1>5
        <4>3. PICK k \in Nat : k = Len(buf)
          BY <1>1
        <4>4. PICK n \in Nat : n = q[Main]
          BY <1>1 DEF Producers
        <4>5. Append(Piece(Main, n, k, b), [by |-> Main, n |-> n + k + 1, block |-> b])
                = Piece(Main, n, k + 1, b)
          BY PieceAppend DEF Kinds, Producers
        <4>6. QED
          BY <3>1, <4>1, <4>2, <4>3, <4>4, <4>5
      <3>4. QED
        BY <3>2, <3>3
    <2> HIDE DEF text
    <2>3. Own(Main)' = 0 /\ pc'[Main] # "switch"
          /\ \A h \in Hooks : pc'[h] = pc[h]
      BY <1>3, <2>1 DEF Own, Go, TypeOK, Producers
    <2>4. \A h \in Hooks : q[h] + Own(h)' = sent'[h]
      BY <1>1, <1>4, <2>3 DEF Pending, Own
    <2>5. /\ Len(text) \in Nat /\ text = Piece(Main, q[Main], Len(text), b)
          /\ q[Main] \in Nat /\ q[Main] + Len(text) + Own(Main)' = sent'[Main]
      BY <1>1, <1>4, <1>5, <2>2, <2>3 DEF Producers
    <2>6. \/ held' = text /\ buf' = <<>>
          \/ held' = <<>> /\ buf' = text
      BY <2>1 DEF text
    <2>7. QED
      BY <2>1, <2>3, <2>4, <2>5, <2>6, PendingText
  <1>9. Pending(q)'
    BY <1>7, <1>8 DEF Delta
  <1>10. c[Len(out)]' = q
    BY <1>2
  <1>11. \A g \in Producers : sent[g] <= sent'[g]
    BY <1>1, <1>4 DEF Producers
  <1>12. QED
    BY <1>2, <1>9, <1>10, <1>11, PipeStay

\* The other block's text is enqueued and the delta starts its own.
LEMMA SwitchPipe ==
  ASSUME TypeOK, TypeOK', WriterInv, FlowInv, HoldInv, NEW c, Pipe(c), ~failed,
         NEW newline \in BOOLEAN, SwitchEnqueue(newline)
  PROVE  \E d : Pipe(d)'
  <1> PICK q : q = c[Len(out)]
    OBVIOUS
  <1>1. /\ q \in Counts /\ Pending(q) /\ Len(held) \in Nat /\ Len(buf) \in Nat
        /\ \A g \in Producers : sent[g] \in Nat /\ q[g] \in Nat
    BY PipeTypes
  <1> PICK new : new = [q EXCEPT ![Main] = q[Main] + Len(held)]
    OBVIOUS
  <1>2. /\ pc[Main] = "switch" /\ Enqueue(held) /\ AppendText(<<>>, delta, newline)
        /\ UNCHANGED sent
    BY DEF SwitchEnqueue
  <1>3. ~done /\ ~Unlocked /\ Main \notin Hooks
    BY <1>2, NotDone, WriterAssumption DEF Unlocked, Locked, Producers
  <1>4. buf = <<>> /\ held # <<>>
    BY <1>3 DEF WriterInv, Mutex, HoldInv
  <1>5. PICK b \in Blocks : delta = [by |-> Main, n |-> sent[Main], block |-> b]
    BY <1>1, <1>2 DEF Pending
  <1>6. new[Main] = q[Main] + Len(held) /\ \A h \in Hooks : new[h] = q[h]
    BY <1>1, <1>3 DEF Counts, Producers
  <1>7. sent[Main] = new[Main] + 1
    <2>1. Len(buf) = 0 /\ Own(Main) = 1
      BY <1>2, <1>4, EmptySeq DEF Own
    <2>2. q[Main] + Len(held) + Len(buf) + Own(Main) = sent[Main]
      BY <1>1 DEF Pending
    <2>3. QED
      BY <1>1, <1>6, <2>1, <2>2 DEF Producers
  <1>8. PICK text : text = <<delta>>
    OBVIOUS
  <1>9. Append(<<>>, delta) = text
    BY <1>8
  <1>10. text = Piece(Main, new[Main], 1, b)
    <2>1. PICK n \in Nat : n = new[Main]
      BY <1>1, <1>6 DEF Producers
    <2>2. <<[by |-> Main, n |-> n + 1, block |-> b]>> = Piece(Main, n, 1, b)
      BY PieceOne DEF Kinds, Producers
    <2>3. QED
      BY <1>5, <1>7, <1>8, <2>1, <2>2
  <1>11. Len(text) = 1
    BY <1>8
  <1>12. coalBlock' = delta.block /\ delta.block = b
         /\ \/ held' = text /\ buf' = <<>> /\ Go(Main, "deltas")
            \/ held' = <<>> /\ buf' = text /\ Go(Main, "idle")
    BY <1>2, <1>5, <1>9, AppendTextIs
  <1>13. Own(Main)' = 0 /\ pc'[Main] # "switch"
         /\ \A h \in Hooks : pc'[h] = pc[h]
    BY <1>3, <1>12 DEF Own, Go, TypeOK, Producers
  <1>14. \A h \in Hooks : new[h] + Own(h)' = sent'[h]
    BY <1>1, <1>2, <1>6, <1>13 DEF Pending, Own
  <1>15. new[Main] \in Nat /\ new[Main] + Len(text) + Own(Main)' = sent'[Main]
    BY <1>1, <1>2, <1>6, <1>7, <1>11, <1>13 DEF Producers
  <1>16. Pending(new)'
    <2>1. /\ Len(text) \in Nat /\ text = Piece(Main, new[Main], Len(text), b)
          /\ coalBlock' = b
      <3>1. coalBlock' = b
        BY <1>12
      <3>2. PICK k : k = Len(text)
        OBVIOUS
      <3>3. k = 1
        BY <1>11, <3>2
      <3>4. text = Piece(Main, new[Main], k, b)
        BY <1>10, <3>3
      <3>5. QED
        BY <3>1, <3>2, <3>3, <3>4
    <2>2. \/ held' = text /\ buf' = <<>>
          \/ held' = <<>> /\ buf' = text
      BY <1>12
    <2>3. QED
      BY <1>13, <1>14, <1>15, <2>1, <2>2, PendingText
  <1>17. QED
    BY <1>2, <1>3, <1>4, <1>16, HeldEnqueued
LEMMA PipeStarts ==
  ASSUME Init
  PROVE  HoldInv /\ \E c : Pipe(c) /\ c[0] = [p \in Producers |-> 0]
  <1> PICK zero : zero = [p \in Producers |-> 0]
    OBVIOUS
  <1> PICK c : c = [i \in Nat |-> zero]
    OBVIOUS
  <1>1. zero \in Counts /\ \A i \in Nat : c[i] = zero
    BY DEF Counts
  <1>2. /\ Len(out) = 0 /\ Len(held) = 0 /\ Len(buf) = 0
        /\ out = <<>> /\ held = <<>> /\ buf = <<>> /\ delivered = <<>>
    BY EmptySeq DEF Init
  <1>3. \A p \in Producers : /\ pc[p] = IF p = Main THEN "idle" ELSE "unborn"
                             /\ sent[p] = 0 /\ zero[p] = 0
    BY DEF Init
  <1>4. Unlocked
    BY <1>3 DEF Init, Unlocked, Locked
  <1>5. HoldInv
    BY <1>2, <1>3, <1>4 DEF HoldInv, Producers
  <1>6. Chain(c)
    BY <1>1, <1>2, <1>3 DEF Chain
  <1>7. Delivered(c[0])
    BY <1>1, <1>2, <1>3 DEF Delivered, Arrived
  <1>8. Pending(c[Len(out)])
    BY <1>1, <1>2, <1>3 DEF Pending, Own, Producers
  <1>9. QED
    BY <1>1, <1>5, <1>6, <1>7, <1>8 DEF Pipe

LEMMA PipeInit == Init => PipeInv
  BY PipeStarts DEF PipeInv

LEMMA FailedStays == failed /\ [Next]_vars => failed' /\ UNCHANGED <<sent, delivered>>
  <1> SUFFICES ASSUME failed, [Next]_vars PROVE failed' /\ UNCHANGED <<sent, delivered>>
    OBVIOUS
  <1> USE DEF chanVars, wireVars
  <1>1. CASE UNCHANGED vars
    BY <1>1 DEF vars
  <1>2. CASE \E p \in Producers : \/ WriteFrame(p) \/ Flush(p) \/ FlushEnqueue(p)
                                  \/ FrameEnqueue(p) \/ HookDropped(p)
    BY <1>2 DEF WriteFrame, Flush, FlushEnqueue, FrameEnqueue, HookDropped, Enqueue
  <1>3. CASE \/ \E b \in Blocks, newline \in BOOLEAN : Delta(b, newline)
             \/ \E newline \in BOOLEAN : SwitchEnqueue(newline)
             \/ Callback \/ CallbackEnqueue \/ TimerFires
    BY <1>3 DEF Delta, SwitchEnqueue, Callback, CallbackEnqueue, TimerFires, Enqueue
  <1>4. CASE Writer \/ Break
    BY <1>4 DEF Writer, Deliver, Drain, WriterExits, Break
  <1>5. CASE StartHooks \/ HooksDone \/ HangUp \/ Close \/ CloseOut \/ CloseReturns
    BY <1>5 DEF StartHooks, HooksDone, HangUp, Close, CloseOut, CloseReturns
  <1>6. QED
    BY <1>1, <1>2, <1>3, <1>4, <1>5
       DEF Next, MainStarts, MainGoesOn, HookStep, Finished, Producers

LEMMA PipeNext ==
  TypeOK /\ TypeOK' /\ WriterInv /\ FlowInv /\ PipeInv /\ [Next]_vars => PipeInv'
  <1> SUFFICES ASSUME TypeOK, TypeOK', WriterInv, FlowInv, PipeInv, [Next]_vars
               PROVE  PipeInv'
    OBVIOUS
  <1>1. HoldInv /\ HoldInv'
    BY HoldNext DEF PipeInv
  <1>2. CASE failed
    BY <1>1, <1>2, FailedStays DEF PipeInv
  <1>3. ASSUME ~failed
        PROVE  failed' \/ \E d : Pipe(d)'
    <2>1. PICK c : Pipe(c)
      BY <1>3 DEF PipeInv
    <2>2. CASE \/ UNCHANGED vars
               \/ \E p \in Producers : WriteFrame(p) \/ (Flush(p) /\ buf = <<>>)
               \/ \E h \in Hooks : HookDropped(h)
               \/ StartHooks \/ HooksDone \/ HangUp \/ Close \/ CloseOut
               \/ CloseReturns \/ TimerFires \/ (Callback /\ buf = <<>>)
               \/ WriterExits \/ Break
      BY <2>1, <2>2, QuietPipe
    <2>3. CASE buf # <<>> /\ (Callback \/ \E p \in Producers : Flush(p))
      BY <1>1, <2>1, <2>3, FlushPipe
    <2>4. CASE CallbackEnqueue \/ \E p \in Producers : FlushEnqueue(p)
      BY <1>1, <1>3, <2>1, <2>4, HeldPipe
    <2>5. CASE \E p \in Producers : FrameEnqueue(p)
      BY <1>1, <1>3, <2>1, <2>5, FramePipe
    <2>6. CASE \E b \in Blocks, newline \in BOOLEAN : Delta(b, newline)
      BY <1>1, <2>1, <2>6, DeltaPipe
    <2>7. CASE \E newline \in BOOLEAN : SwitchEnqueue(newline)
      BY <1>1, <1>3, <2>1, <2>7, SwitchPipe
    <2>8. CASE Deliver
      BY <2>1, <2>8, PipeDeliver
    <2>9. CASE Drain
      BY <2>9 DEF Drain
    <2>10. QED
      BY <2>2, <2>3, <2>4, <2>5, <2>6, <2>7, <2>8, <2>9
         DEF Next, MainStarts, MainGoesOn, HookStep, Writer, Finished, Producers
  <1>4. QED
    BY <1>1, <1>2, <1>3 DEF PipeInv

(***************************************************************************)
(* The refinement.                                                         *)
(***************************************************************************)
Got == [p \in Producers |-> Received(p)]

LEMMA GotIs ==
  ASSUME TypeOK, NEW c, Pipe(c)
  PROVE  Got = c[0] /\ c[0] \in Counts /\ \A p \in Producers : c[0][p] <= sent[p]
  <1>1. c[0] \in Counts /\ \A p \in Producers : c[0][p] <= sent[p]
    BY LenProperties DEF Pipe, Chain, TypeOK
  <1>2. ASSUME NEW p \in Producers PROVE Received(p) = c[0][p]
    <2>1. c[0][p] \in Nat /\ sent[p] \in Nat
      BY <1>1 DEF Counts, TypeOK
    <2>2. {n \in 1 .. sent[p] : Arrived(p, n)} = {n \in 1 .. sent[p] : n \in 1 .. c[0][p]}
      BY <2>1 DEF Pipe, Delivered
    <2>3. QED
      BY <1>1, <2>1, <2>2, LastOfIs DEF Received
  <1>3. QED
    BY <1>1, <1>2 DEF Got, Counts

LEMMA GotNext ==
  ASSUME TypeOK', NEW c, Pipe(c)'
  PROVE  Got' = c[0] /\ \A p \in Producers : c[0][p] <= sent'[p]
  <1>1. c[0] \in Counts /\ \A p \in Producers : c[0][p] <= sent'[p]
    BY LenProperties DEF Pipe, Chain, TypeOK
  <1>2. ASSUME NEW p \in Producers PROVE Received(p)' = c[0][p]
    <2>1. c[0][p] \in Nat /\ sent'[p] \in Nat
      BY <1>1 DEF Counts, TypeOK
    <2>2. {n \in 1 .. sent'[p] : Arrived(p, n)'} = {n \in 1 .. sent'[p] : n \in 1 .. c[0][p]}
      BY <2>1 DEF Pipe, Delivered
    <2>3. QED
      BY <1>1, <2>1, <2>2, LastOfIs DEF Received
  <1>3. QED
    BY <1>1, <1>2 DEF Got, Counts

LEMMA WriterStep ==
  TypeOK /\ TypeOK' /\ WriterInv /\ FlowInv /\ PipeInv /\ [Next]_vars
    => [Channel!Next]_<<sent, Got, delivered>>
  <1> SUFFICES ASSUME TypeOK, TypeOK', WriterInv, FlowInv, PipeInv, [Next]_vars
               PROVE  Channel!Next \/ UNCHANGED <<sent, Got, delivered>>
    OBVIOUS
  <1>1. ASSUME UNCHANGED <<sent, delivered>>
        PROVE  UNCHANGED <<sent, Got, delivered>>
    BY <1>1 DEF Got, Received, Arrived
  <1>2. ASSUME NEW c, Pipe(c), Pipe(c)', NEW p \in Producers, UNCHANGED delivered,
               sent' = [sent EXCEPT ![p] = @ + 1]
        PROVE  Channel!Next
    <2>1. Got' = Got
      BY <1>2, GotIs, GotNext
    <2>2. Channel!Write(p)
      BY <1>2, <2>1 DEF Channel!Write, Got
    <2>3. QED
      BY <2>2 DEF Channel!Next
  <1>3. CASE failed
    BY <1>1, <1>3, FailedStays
  <1>4. ASSUME ~failed
        PROVE  Channel!Next \/ UNCHANGED <<sent, delivered>>
    <2> PICK c : Pipe(c)
      BY <1>4 DEF PipeInv
    <2>1. ASSUME NEW p \in Producers, WriteFrame(p) PROVE Channel!Next
      <3>1. Pipe(c)'
        BY <2>1, QuietPipe
      <3>2. UNCHANGED delivered /\ sent' = [sent EXCEPT ![p] = @ + 1]
        BY <2>1 DEF WriteFrame, wireVars
      <3>3. QED
        BY <1>2, <3>1, <3>2
    <2>2. ASSUME NEW b \in Blocks, NEW newline \in BOOLEAN, Delta(b, newline)
          PROVE  Channel!Next
      <3>1. Pipe(c)'
        BY <2>2, DeltaPipe DEF PipeInv
      <3>2. UNCHANGED delivered /\ sent' = [sent EXCEPT ![Main] = @ + 1]
        BY <2>2 DEF Delta, wireVars
      <3>3. QED
        BY <1>2, <3>1, <3>2 DEF Producers
    <2>3. CASE Deliver
      <3> PICK d : d = [i \in Nat |-> c[i + 1]]
        OBVIOUS
      <3>1. Pipe(d)' /\ Links(Head(out), c[0], d[0])
        BY <2>3, PipeDeliver
      <3>2. PICK p \in Producers, k \in Nat \ {0}, block \in Kinds :
              /\ block = NoBlock => k = 1
              /\ Head(out) = Piece(p, c[0][p], k, block)
              /\ d[0] = [c[0] EXCEPT ![p] = c[0][p] + k]
        BY <3>1 DEF Links
      <3>3. Got = c[0] /\ c[0] \in Counts
        BY GotIs
      <3>4. Got' = d[0] /\ d[0][p] <= sent'[p]
        BY <3>1, GotNext
      <3>5. UNCHANGED sent /\ delivered' = Append(delivered, Head(out))
        BY <2>3 DEF Deliver
      <3>6. k \in 1 .. sent[p] - Got[p]
        <4>1. c[0][p] \in Nat /\ sent[p] \in Nat
          BY <3>3 DEF Counts, TypeOK
        <4>2. c[0][p] + k <= sent[p]
          BY <3>2, <3>3, <3>4, <3>5 DEF Counts
        <4>3. QED
          BY <3>3, <4>1, <4>2
      <3>7. delivered' = Append(delivered, Channel!Frame(p, Got[p], k, block))
        BY <3>2, <3>3, <3>5 DEF Piece
      <3>8. Got' = [Got EXCEPT ![p] = @ + k]
        BY <3>2, <3>3, <3>4
      <3>9. Channel!Receive(p)
        BY <3>2, <3>5, <3>6, <3>7, <3>8 DEF Channel!Receive, Got, Kinds
      <3>10. QED
        BY <3>9 DEF Channel!Next
    <2>4. CASE UNCHANGED <<sent, delivered>>
      BY <2>4
    <2>5. \/ \E p \in Producers : WriteFrame(p)
          \/ \E b \in Blocks, newline \in BOOLEAN : Delta(b, newline)
          \/ Deliver
          \/ UNCHANGED <<sent, delivered>>
      <3> USE DEF chanVars, wireVars
      <3>1. CASE UNCHANGED vars
        BY <3>1 DEF vars
      <3>2. CASE \E p \in Producers : \/ Flush(p) \/ FlushEnqueue(p)
                                      \/ FrameEnqueue(p) \/ HookDropped(p)
        BY <3>2 DEF Flush, FlushEnqueue, FrameEnqueue, HookDropped, Enqueue
      <3>3. CASE \/ \E newline \in BOOLEAN : SwitchEnqueue(newline)
                 \/ Callback \/ CallbackEnqueue \/ TimerFires
        BY <3>3 DEF SwitchEnqueue, Callback, CallbackEnqueue, TimerFires, Enqueue
      <3>4. CASE Drain \/ WriterExits \/ Break
        BY <3>4 DEF Drain, WriterExits, Break
      <3>5. CASE StartHooks \/ HooksDone \/ HangUp \/ Close \/ CloseOut \/ CloseReturns
        BY <3>5 DEF StartHooks, HooksDone, HangUp, Close, CloseOut, CloseReturns
      <3>6. QED
        BY <3>1, <3>2, <3>3, <3>4, <3>5
           DEF Next, MainStarts, MainGoesOn, HookStep, Writer, Finished, Producers
    <2>6. QED
      BY <2>1, <2>2, <2>3, <2>4, <2>5
  <1>5. QED
    BY <1>1, <1>3, <1>4

\* The frame writer is an ordered channel for each of its producers: whoever
\* flushes the coalesced deltas (Write, Close, the timer, a delta of another
\* block), however full the channel is and whenever a write to the websocket
\* fails, the client has a prefix of what each goroutine wrote, and no frame
\* mixes the deltas of two blocks (frameWriter.Write, appendDelta,
\* flushLocked, enqueueBytes and loop).
THEOREM WriterIsChannel == Spec => IsChannel
  <1>1. Init => TypeOK /\ WriterInv /\ FlowInv /\ PipeInv
    BY TypesInit, WriterInit, FlowInit, PipeInit
  <1>2. TypeOK /\ WriterInv /\ FlowInv /\ PipeInv /\ [Next]_vars
          => (TypeOK /\ WriterInv /\ FlowInv /\ PipeInv)'
    BY TypesNext, WriterNext, FlowNext, PipeNext
  <1>3. Init => Channel!Init
    <2> SUFFICES ASSUME Init PROVE Channel!Init
      OBVIOUS
    <2>1. PICK c : Pipe(c) /\ c[0] = [p \in Producers |-> 0]
      BY PipeStarts
    <2>2. Got = [p \in Producers |-> 0]
      BY <1>1, <2>1, GotIs
    <2>3. QED
      BY <2>2 DEF Init, Channel!Init, Got
  <1>4. TypeOK /\ TypeOK' /\ WriterInv /\ FlowInv /\ PipeInv /\ [Next]_vars
          => [Channel!Next]_<<sent, [p \in Producers |-> Received(p)], delivered>>
    BY WriterStep DEF Got
  <1>5. QED
    BY <1>1, <1>2, <1>3, <1>4, PTL DEF Spec, IsChannel, Channel!Spec

=============================================================================
