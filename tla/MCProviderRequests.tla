---- MODULE MCProviderRequests ----
(* A small instance of ProviderRequests: two requests, of five kinds.  *)
EXTENDS ProviderRequests

CONSTANTS r1, r2, opus, gpt

TwoModels == {opus, gpt}

Kind(by, target, path) == [by |-> by, target |-> target, path |-> path]

\* A redirection changes the model of the body only.
Kinds == << Kind(ClaudeHandler, opus, opus), Kind(AnthropicRound, opus, opus),
            Kind(OpenAIRound, gpt, gpt), Kind(CodexHandler, gpt, gpt),
            Kind(GeminiHandler, opus, gpt) >>

\* Every two of them, once.
Pairs == {[r \in Reqs |-> Kinds[IF r = r1 THEN i ELSE j]] :
            <<i, j>> \in {ij \in (1 .. 5) \X (1 .. 5) : ij[1] <= ij[2]}}
====
