---- MODULE MCChatSocket ----
(* A small instance of ChatSocket: two messages on one thread.              *)
EXTENDS ChatSocket

CONSTANTS r1, r2

TwoReqs == {r1, r2}
AllProviders == {"anthropic", "google", "openai"}
====
