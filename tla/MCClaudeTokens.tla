---- MODULE MCClaudeTokens ----
(* Small instances of ClaudeTokens: two goroutines of this process and one  *)
(* of another.                                                              *)
EXTENDS ClaudeTokens

CONSTANTS c1, c2, c3, p1, p2

ThreeCallers == {c1, c2, c3}
TwoProcs == {p1, p2}
Placed == [c \in ThreeCallers |-> IF c = c3 THEN p2 ELSE p1]
====
