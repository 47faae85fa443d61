---------------------------- MODULE FrameWriter -----------------------------
(***************************************************************************)
(* The frame writer of one inference run (internal/neo/rivet/writer.go)    *)
(* and the goroutines of runLocalInference that use it: the run itself     *)
(* (Main) and the two plugin hooks that it starts and waits for.           *)
(*                                                                         *)
(* Streaming deltas of one block are collected in a buffer under coalMu    *)
(* and flushed by a timer, by the buffer's size, by a newline, by a delta  *)
(* of another block and by every other frame.  Frames pass a bounded       *)
(* channel to the writer goroutine, which owns the websocket.  A flush     *)
(* holds coalMu while it waits for room in the channel.                    *)
(*                                                                         *)
(* A frame is the sequence of the writes it carries: one for an ordinary   *)
(* frame, one or more for coalesced deltas.                                *)
(***************************************************************************)
EXTENDS Naturals, Sequences, FiniteSets

CONSTANTS
  Main,      \* the goroutine of the run
  Hooks,     \* the goroutines of the session.start and agent.start hooks
  Blocks,    \* the content blocks (message, index, kind) that are streamed
  NoBlock,   \* what a frame that is not a streaming delta belongs to
  QueueCap,  \* outQueue
  MaxBuf,    \* coalesceBytes, in deltas
  MaxWrites  \* bound: frames and deltas written by Main

Producers == Hooks \cup {Main}

ASSUME WriterAssumption ==
  /\ Main \notin Hooks /\ NoBlock \notin Blocks
  /\ QueueCap \in Nat \ {0} /\ MaxBuf \in Nat \ {0} /\ MaxWrites \in Nat

Item == [by : Producers, n : Nat, block : Blocks \cup {NoBlock}]

VARIABLES
  pc,         \* where each producer is, see PC
  phase,      \* how far the run is: "echo", "cold" (hooks run) or "rounds"
  echo,       \* the frames that Main writes before the hooks: the prompt's echo,
              \* when the client named the message
  sent,       \* how many writes of each producer were accepted
  buf,        \* coalBuf
  coalBlock,  \* coalMsgID, coalBlockIdx and coalKind
  timer,      \* coalTimer: "nil", "armed", or "fired" but not yet reset
  callbacks,  \* timer callbacks that wait for coalMu
  flushing,   \* a timer callback holds coalMu to enqueue
  held,       \* the frame that the holder of coalMu is about to enqueue
  delta,      \* the delta that Main appends once the other block is flushed
  out,        \* the channel to the writer goroutine
  outClosed,  \* the channel was closed
  done,       \* the writer goroutine has exited
  failed,     \* a websocket write has failed
  wire,       \* the websocket: "open", "closing" (Close sent), "broken"
  delivered   \* the frames the client has received

bufVars == <<buf, coalBlock, timer, held, delta>>
timeVars == <<callbacks, flushing>>
chanVars == <<out, outClosed, done, failed>>
wireVars == <<wire, delivered>>
vars == <<pc, phase, echo, sent, bufVars, timeVars, chanVars, wireVars>>

PC == {"unborn",   \* a hook that was not started
       "idle",     \* between two writes
       "flush",    \* in Write: about to flush before its frame
       "flushing", \* holding coalMu: the flushed frame is to be enqueued
       "enqueue",  \* its own frame is to be enqueued
       "switch",   \* holding coalMu: the other block's deltas first
       "deltas",   \* holding coalMu: the deltas are complete
       "close",    \* in Close: about to flush
       "closing",  \* in Close, holding coalMu
       "shut",     \* in Close: about to close the channel
       "wait",     \* in Close: waiting for the writer goroutine
       "ended"}

Locked == {"flushing", "switch", "deltas", "closing"}

\* coalMu is free.
Unlocked == ~flushing /\ \A p \in Producers : pc[p] \notin Locked

NoItem == [by |-> Main, n |-> 0, block |-> NoBlock]

Init ==
  /\ pc = [p \in Producers |-> IF p = Main THEN "idle" ELSE "unborn"]
  /\ phase = "echo" /\ echo \in 0 .. 1
  /\ sent = [p \in Producers |-> 0]
  /\ buf = <<>> /\ coalBlock = NoBlock /\ held = <<>> /\ delta = NoItem
  /\ timer = "nil" /\ callbacks = 0 /\ flushing = FALSE
  /\ out = <<>> /\ outClosed = FALSE /\ done = FALSE /\ failed = FALSE
  /\ wire = "open" /\ delivered = <<>>

Go(p, at) == pc' = [pc EXCEPT ![p] = at]

\* flushLocked takes the text out of the buffer and forgets the timer.  A
\* callback that has fired already will find the buffer empty, or flush what
\* was appended since.
TakeBuffer(text) == held' = text /\ buf' = <<>> /\ timer' = "nil"

\* enqueueBytes: waits for room; drops the frame when the writer goroutine
\* has failed or is gone.
Enqueue(frame) ==
  /\ IF failed \/ done
       THEN out' = out
       ELSE Len(out) < QueueCap /\ out' = Append(out, frame)
  /\ UNCHANGED <<outClosed, done, failed, wireVars>>

(***************************************************************************)
(* Write, for a frame that is not a streaming delta.                       *)
(***************************************************************************)
\* Main echoes the prompt before it starts the hooks, and writes freely after
\* they ended; a hook writes its request and ends.
MayWrite(p) ==
  /\ pc[p] = "idle"
  /\ p = Main => \/ phase = "echo" /\ sent[Main] < echo
                 \/ phase = "rounds" /\ sent[Main] < MaxWrites

\* Mutant: the pending text is not flushed before another frame.
WriteFrameUnflushed(p) ==
  /\ MayWrite(p) /\ ~failed
  /\ Go(p, "enqueue")
  /\ sent' = [sent EXCEPT ![p] = @ + 1]
  /\ UNCHANGED <<phase, echo, bufVars, timeVars, chanVars, wireVars>>

WriteFrame(p) ==
  /\ MayWrite(p) /\ ~failed
  /\ Go(p, "flush")
  /\ sent' = [sent EXCEPT ![p] = @ + 1]
  /\ UNCHANGED <<phase, echo, bufVars, timeVars, chanVars, wireVars>>

\* The client is gone: the write is dropped.
HookDropped(h) ==
  /\ pc[h] = "idle" /\ failed
  /\ Go(h, "ended")
  /\ UNCHANGED <<phase, echo, sent, bufVars, timeVars, chanVars, wireVars>>

\* Mutant: Close does not flush.
FlushInWrite(p) ==
  /\ pc[p] \in {"flush", "close"} /\ Unlocked
  /\ IF buf = <<>> \/ pc[p] = "close"
       THEN /\ Go(p, IF pc[p] = "flush" THEN "enqueue" ELSE "shut")
            /\ UNCHANGED <<buf, timer, held>>
       ELSE Go(p, "flushing") /\ TakeBuffer(buf)
  /\ UNCHANGED <<phase, echo, sent, coalBlock, delta, timeVars, chanVars, wireVars>>

\* flush, called by Write and by Close: nothing to do, or a frame to enqueue
\* with coalMu held.
Flush(p) ==
  /\ pc[p] \in {"flush", "close"} /\ Unlocked
  /\ IF buf = <<>>
       THEN /\ Go(p, IF pc[p] = "flush" THEN "enqueue" ELSE "shut")
            /\ UNCHANGED <<buf, timer, held>>
       ELSE /\ Go(p, IF pc[p] = "flush" THEN "flushing" ELSE "closing")
            /\ TakeBuffer(buf)
  /\ UNCHANGED <<phase, echo, sent, coalBlock, delta, timeVars, chanVars, wireVars>>

\* The flushed frame is enqueued and coalMu released.
FlushEnqueue(p) ==
  /\ pc[p] \in {"flushing", "closing", "deltas"}
  /\ Enqueue(held)
  /\ held' = <<>>
  /\ Go(p, CASE pc[p] = "flushing" -> "enqueue"
             [] pc[p] = "closing" -> "shut"
             [] OTHER -> "idle")
  /\ UNCHANGED <<phase, echo, sent, buf, coalBlock, timer, delta, timeVars>>

FrameEnqueue(p) ==
  /\ pc[p] = "enqueue"
  /\ Enqueue(<<[by |-> p, n |-> sent[p], block |-> NoBlock]>>)
  /\ Go(p, IF p = Main THEN "idle" ELSE "ended")
  /\ UNCHANGED <<phase, echo, sent, bufVars, timeVars>>

(***************************************************************************)
(* Write, for a streaming delta: appendDelta.                              *)
(***************************************************************************)
\* Mutant: the timer is not armed.
AppendTextUntimed(text, item, newline) ==
  /\ coalBlock' = item.block
  /\ IF Len(text) + 1 >= MaxBuf \/ newline
       THEN TakeBuffer(Append(text, item)) /\ Go(Main, "deltas")
       ELSE /\ buf' = Append(text, item)
            /\ held' = <<>>
            /\ Go(Main, "idle")
            /\ UNCHANGED timer

\* The delta joins the text in the buffer, which is flushed when it is large
\* enough or the delta has a newline; else the timer is armed (again).
AppendText(text, item, newline) ==
  /\ coalBlock' = item.block
  /\ IF Len(text) + 1 >= MaxBuf \/ newline
       THEN TakeBuffer(Append(text, item)) /\ Go(Main, "deltas")
       ELSE /\ buf' = Append(text, item)
            /\ timer' = "armed"
            /\ held' = <<>>
            /\ Go(Main, "idle")

Delta(b, newline) ==
  /\ MayWrite(Main) /\ phase = "rounds" /\ ~failed /\ Unlocked
  /\ sent' = [sent EXCEPT ![Main] = @ + 1]
  /\ LET item == [by |-> Main, n |-> sent[Main] + 1, block |-> b] IN
     IF buf # <<>> /\ coalBlock # b
       THEN TakeBuffer(buf) /\ delta' = item /\ Go(Main, "switch")
            /\ UNCHANGED coalBlock
       ELSE AppendText(buf, item, newline) /\ UNCHANGED delta
  /\ UNCHANGED <<phase, echo, timeVars, chanVars, wireVars>>

\* The other block's text is enqueued; coalMu is still held.
SwitchEnqueue(newline) ==
  /\ pc[Main] = "switch"
  /\ Enqueue(held)
  /\ AppendText(<<>>, delta, newline)
  /\ delta' = NoItem
  /\ UNCHANGED <<phase, echo, sent, timeVars>>

TimerFires ==
  /\ timer = "armed"
  /\ timer' = "fired"
  /\ callbacks' = callbacks + 1
  /\ UNCHANGED <<pc, phase, echo, sent, buf, coalBlock, held, delta, flushing,
                 chanVars, wireVars>>

\* Mutant: a stopped timer calls back as well.
CallbackAlways ==
  /\ Unlocked
  /\ callbacks' = callbacks - 1
  /\ IF buf = <<>>
       THEN UNCHANGED <<buf, timer, held, flushing>>
       ELSE TakeBuffer(buf) /\ flushing' = TRUE
  /\ UNCHANGED <<pc, phase, echo, sent, coalBlock, delta, chanVars, wireVars>>

Callback ==
  /\ callbacks > 0 /\ Unlocked
  /\ callbacks' = callbacks - 1
  /\ IF buf = <<>>
       THEN UNCHANGED <<buf, timer, held, flushing>>
       ELSE TakeBuffer(buf) /\ flushing' = TRUE
  /\ UNCHANGED <<pc, phase, echo, sent, coalBlock, delta, chanVars, wireVars>>

CallbackEnqueue ==
  /\ flushing
  /\ Enqueue(held)
  /\ held' = <<>>
  /\ flushing' = FALSE
  /\ UNCHANGED <<pc, phase, echo, sent, buf, coalBlock, timer, delta, callbacks>>

(***************************************************************************)
(* The writer goroutine and the websocket.                                 *)
(***************************************************************************)
Deliver ==
  /\ ~failed /\ out # <<>> /\ wire = "open"
  /\ delivered' = Append(delivered, Head(out))
  /\ out' = Tail(out)
  /\ UNCHANGED <<pc, phase, echo, sent, bufVars, timeVars, outClosed, done, failed,
                 wire>>

\* Mutant: the frame that failed is tried again and again.
DrainRetries ==
  /\ out # <<>> /\ (failed \/ wire # "open")
  /\ failed' = TRUE
  /\ UNCHANGED <<pc, phase, echo, sent, bufVars, timeVars, out, outClosed, done,
                 wireVars>>

\* The websocket write fails; from then on the channel is only drained.
Drain ==
  /\ out # <<>> /\ (failed \/ wire # "open")
  /\ failed' = TRUE
  /\ out' = Tail(out)
  /\ UNCHANGED <<pc, phase, echo, sent, bufVars, timeVars, outClosed, done,
                 wireVars>>

WriterExits ==
  /\ outClosed /\ out = <<>> /\ ~done
  /\ done' = TRUE
  /\ UNCHANGED <<pc, phase, echo, sent, bufVars, timeVars, out, outClosed, failed,
                 wireVars>>

\* The client goes away.
Break ==
  /\ wire # "broken"
  /\ wire' = "broken"
  /\ UNCHANGED <<pc, phase, echo, sent, bufVars, timeVars, chanVars, delivered>>

(***************************************************************************)
(* The run: hooks, hanging up, Close.                                      *)
(***************************************************************************)
StartHooks ==
  /\ phase = "echo" /\ pc[Main] = "idle" /\ sent[Main] = echo
  /\ phase' = "cold"
  /\ pc' = [p \in Producers |-> IF p \in Hooks THEN "idle" ELSE pc[p]]
  /\ UNCHANGED <<echo, sent, bufVars, timeVars, chanVars, wireVars>>

\* Mutant: the run does not wait for its hooks.
HooksLeft ==
  /\ phase = "cold"
  /\ phase' = "rounds"
  /\ UNCHANGED <<pc, echo, sent, bufVars, timeVars, chanVars, wireVars>>

\* <-hooksDone: both hooks have written their request and were answered,
\* cancelled or timed out.
HooksDone ==
  /\ phase = "cold"
  /\ \A h \in Hooks : pc[h] = "ended"
  /\ phase' = "rounds"
  /\ UNCHANGED <<pc, echo, sent, bufVars, timeVars, chanVars, wireVars>>

\* On an error, and when a turn of OpenAI's or of a custom provider is
\* complete, a websocket Close frame is written past the channel.  After it
\* the library refuses every message.
HangUp ==
  /\ phase = "rounds" /\ pc[Main] = "idle" /\ wire = "open"
  /\ wire' = "closing"
  /\ UNCHANGED <<pc, phase, echo, sent, bufVars, timeVars, chanVars, delivered>>

\* The run is over.
Close ==
  /\ phase = "rounds" /\ pc[Main] = "idle"
  /\ Go(Main, "close")
  /\ UNCHANGED <<phase, echo, sent, bufVars, timeVars, chanVars, wireVars>>

CloseOut ==
  /\ pc[Main] = "shut"
  /\ outClosed' = TRUE
  /\ Go(Main, "wait")
  /\ UNCHANGED <<phase, echo, sent, bufVars, timeVars, out, done, failed, wireVars>>

CloseReturns ==
  /\ pc[Main] = "wait" /\ done
  /\ Go(Main, "ended")
  /\ UNCHANGED <<phase, echo, sent, bufVars, timeVars, chanVars, wireVars>>

(***************************************************************************)
(* The specification.                                                      *)
(***************************************************************************)
\* What Main starts when it has something to write, or nothing more.
MainStarts ==
  \/ WriteFrame(Main)
  \/ \E b \in Blocks, newline \in BOOLEAN : Delta(b, newline)
  \/ StartHooks
  \/ HangUp \/ Close

\* What Main does inside a call of the writer, or to leave a wait.
MainGoesOn ==
  \/ Flush(Main) \/ FlushEnqueue(Main) \/ FrameEnqueue(Main)
  \/ \E newline \in BOOLEAN : SwitchEnqueue(newline)
  \/ HooksDone \/ CloseOut \/ CloseReturns

HookStep(h) == \/ WriteFrame(h) \/ HookDropped(h)
               \/ Flush(h) \/ FlushEnqueue(h) \/ FrameEnqueue(h)

Writer == Deliver \/ Drain \/ WriterExits

Finished == pc[Main] = "ended" /\ UNCHANGED vars

Next ==
  \/ MainStarts \/ MainGoesOn \/ \E h \in Hooks : HookStep(h)
  \/ TimerFires \/ Callback \/ CallbackEnqueue
  \/ Writer \/ Break \/ Finished

\* A goroutine inside a call goes on, the timer fires, and a websocket write
\* returns: the client reads, or its connection breaks.  Main may pause for
\* ever between two writes, as it does when the model stalls.
Fairness ==
  /\ WF_vars(MainGoesOn)
  /\ \A h \in Hooks : WF_vars(HookStep(h))
  /\ WF_vars(TimerFires) /\ WF_vars(Callback) /\ WF_vars(CallbackEnqueue)
  /\ WF_vars(Writer)

Spec == Init /\ [][Next]_vars
FairSpec == Spec /\ Fairness

(***************************************************************************)
(* Properties.                                                             *)
(***************************************************************************)
TypeOK ==
  /\ pc \in [Producers -> PC]
  /\ phase \in {"echo", "cold", "rounds"} /\ echo \in 0 .. 1
  /\ sent \in [Producers -> Nat]
  /\ buf \in Seq(Item) /\ held \in Seq(Item)
  /\ delta \in Item /\ coalBlock \in Blocks \cup {NoBlock}
  /\ timer \in {"nil", "armed", "fired"} /\ callbacks \in Nat
  /\ out \in Seq(Seq(Item)) /\ delivered \in Seq(Seq(Item))
  /\ wire \in {"open", "closing", "broken"}
  /\ flushing \in BOOLEAN /\ outClosed \in BOOLEAN
  /\ done \in BOOLEAN /\ failed \in BOOLEAN

\* Text never stays in the buffer for want of a timer: whenever coalMu is
\* free and the buffer is not empty, the timer is armed or a callback of it
\* waits for the lock, however Stop, Reset and a timer that has just fired
\* interleave.
TextTimed == Unlocked /\ buf # <<>> => timer = "armed" \/ callbacks > 0

\* Nobody sends on the closed channel, which would panic: once Close has
\* closed it no goroutine has a frame to enqueue, and no later callback of
\* the timer can come by one.
NoSendAfterClose ==
  outClosed =>
    /\ buf = <<>> /\ ~flushing
    /\ \A p \in Producers : pc[p] \notin Locked \cup {"flush", "enqueue"}

Arrived(p, n) ==
  \E i \in DOMAIN delivered : \E j \in DOMAIN delivered[i] :
    delivered[i][j].by = p /\ delivered[i][j].n = n

\* How many writes of p the client has: the number of the last of them.
LastOf(numbers) == CHOOSE n \in numbers \cup {0} : \A m \in numbers : m <= n
Received(p) == LastOf({n \in 1 .. sent[p] : Arrived(p, n)})

Channel == INSTANCE FrameChannel WITH
  received <- [p \in Producers |-> Received(p)], frames <- delivered

\* The frame writer is an ordered channel for each of its producers: no frame
\* overtakes the deltas that were written before it, whoever flushes them,
\* and no frame mixes deltas of two blocks.
IsChannel == Channel!Spec

\* A frame is of the answer when the run wrote it after the echo of the prompt:
\* its deltas, but also its tool calls, states and errors.
OfAnswer(frame) == frame[1].by = Main /\ frame[1].n > echo

\* The client has the requests of both hooks before any frame of the answer.
HooksFirst ==
  \A i \in DOMAIN delivered : OfAnswer(delivered[i]) =>
    \A h \in Hooks : \E j \in 1 .. i - 1 : delivered[j][1].by = h

\* A delta reaches the client although nothing is written after it.
DeltasArrive ==
  \A n \in 1 .. MaxWrites : sent[Main] >= n ~> Arrived(Main, n) \/ failed

\* Close returns although the client stalls, the connection breaks or the
\* channel is full.
CloseEnds == pc[Main] = "close" ~> pc[Main] = "ended"
=============================================================================
