---- MODULE MCFileTokens ----
(* A small instance of FileTokens: a caller, the loop and the refresh at     *)
(* start, on the tokens of the two files and two or three that are issued.   *)
EXTENDS FileTokens

CONSTANTS c1

OneCaller == {c1}
====
