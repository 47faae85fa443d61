--------------------------- MODULE MCRivetSession ---------------------------
(* Small instances of RivetSession for TLC. *)
EXTENDS RivetSession, TLC

CONSTANTS m1, m2, old

Old == [kind |-> "user", msg |-> old, run |-> 0, round |-> 0, calls |-> 0]
OldAnswer == [kind |-> "assistant", msg |-> NoMsg, run |-> 0, round |-> 0,
              calls |-> 0]
OldExchange == <<Old, OldAnswer>>

\* A tool was called, and answered; or its wait was cut short.
OldCall == [OldAnswer EXCEPT !.calls = 1]
OldResults == [OldCall EXCEPT !.kind = "results"]
OldTool == <<Old, OldCall, OldResults, OldAnswer>>
OldCutShort == <<Old, OldCall>>

\* A thread nobody has written to.
NewThread == {[bound |-> <<>>, stored |-> <<>>]}

\* New; known here and stored; stored, but the process was restarted; stored
\* when amp's server had gone on with it, or had cut a tool's wait short.
AnyThread == NewThread \cup
  {[bound |-> OldExchange, stored |-> OldExchange],
   [bound |-> <<>>, stored |-> OldExchange],
   [bound |-> OldExchange, stored |-> OldTool],
   [bound |-> OldTool, stored |-> OldCutShort]}

\* The client comes back to a thread that is known here and stored.
KnownThread == {[bound |-> OldExchange, stored |-> OldExchange]}

\* Messages without images differ in nothing but their name.
Alike == Permutations({m1, m2})
=============================================================================
