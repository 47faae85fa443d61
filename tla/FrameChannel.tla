---------------------------- MODULE FrameChannel ----------------------------
(***************************************************************************)
(* What the frame writer of a Rivet session promises to the goroutines     *)
(* that write to it (internal/neo/rivet/writer.go): the client receives    *)
(* what each of them wrote in the order in which it was written, nothing   *)
(* twice and nothing left out in the middle, until the connection fails;   *)
(* and a frame carries one write, or several deltas of one block.          *)
(***************************************************************************)
EXTENDS Naturals, Sequences

CONSTANTS Producers, Blocks, NoBlock

VARIABLES
  sent,      \* how many writes of each producer were accepted
  received,  \* how many of them the client has
  frames     \* the frames it received: the writes that each carries

Frame(p, n, k, block) ==
  [i \in 1 .. k |-> [by |-> p, n |-> n + i, block |-> block]]

Init ==
  /\ sent = [p \in Producers |-> 0] /\ received = [p \in Producers |-> 0]
  /\ frames = <<>>

Write(p) ==
  /\ sent' = [sent EXCEPT ![p] = @ + 1]
  /\ UNCHANGED <<received, frames>>

Receive(p) ==
  \E k \in 1 .. sent[p] - received[p], block \in Blocks \cup {NoBlock} :
    /\ block = NoBlock => k = 1
    /\ frames' = Append(frames, Frame(p, received[p], k, block))
    /\ received' = [received EXCEPT ![p] = @ + k]
    /\ UNCHANGED sent

Next == \E p \in Producers : Write(p) \/ Receive(p)

Spec == Init /\ [][Next]_<<sent, received, frames>>
=============================================================================
