---------------------------- MODULE MCThreadPersist ----------------------------
(* Small instances of ThreadPersist for TLC. *)
EXTENDS ThreadPersist

Exchange == <<Prompt(0), Answer(0)>>

\* Created by the client, and nothing said yet.
Created == [store |-> [v |-> 1, msgs |-> <<>>], upstream |-> NoThread]
\* Stored here by an earlier process, and on amp's server.
Known == [store |-> [v |-> 3, msgs |-> Exchange],
          upstream |-> [v |-> 3, msgs |-> Exchange]]
\* Only on amp's server, written by Neo or by amp, which counts every change.
Elsewhere == [store |-> NoThread, upstream |-> [v |-> 3, msgs |-> Exchange]]
FromAmp == [store |-> NoThread, upstream |-> [v |-> 9, msgs |-> Exchange]]

\* The safety properties say nothing once calm is FALSE, and it stays so:
\* the steps that end it are taken, what follows them is not explored.
StillCalm == calm

AnyThread == {Created, Known, Elsewhere, FromAmp}
================================================================================
