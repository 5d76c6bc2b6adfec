------------------------------ MODULE MCEngine ------------------------------
(* Instances of Engine for TLC. *)
EXTENDS Engine, SequencesExt

CONSTANTS r1, r2, r3

(* Greedy sampling: a token that every earlier token and its place change. *)
MCNextToken(h) == 10 + FoldLeft(LAMBDA acc, t : (3 * acc + t) % 41, 0, h)

MCDefaultContext == [r \in Request |-> 0]

(* A shared prefix, a prompt that is exactly one cached block, a short one. *)
MCPrompt == (r1 :> <<1, 2, 3>>) @@ (r2 :> <<1, 2>>) @@ (r3 :> <<2>>)
MCMaxTokens == (r1 :> 4) @@ (r2 :> 3) @@ (r3 :> 1)
MCContext == (r1 :> 6) @@ (r2 :> 0) @@ (r3 :> 0)

(* Three blocks for requests that need two or more each: suspensions,      *)
(* evictions and replays, and a prompt longer than a prefill chunk.        *)
MCPromptTight == (r1 :> <<1, 2, 3>>) @@ (r2 :> <<4>>) @@ (r3 :> <<5, 6, 7, 8, 9>>)
MCMaxTokensTight == (r1 :> 3) @@ (r2 :> 4) @@ (r3 :> 1)

(* The same pool without chunks. *)
MCPromptThree == (r1 :> <<1, 2, 3>>) @@ (r2 :> <<4>>) @@ (r3 :> <<5, 6>>)
MCMaxTokensThree == [r \in Request |-> 3]

(* A prompt longer than a prefill chunk; that of r2 is its last chunk. *)
MCPromptPoisoned == (r1 :> <<1, 2, 3, 4>>) @@ (r2 :> <<3, 4>>)
MCMaxTokensChunked == (r1 :> 2) @@ (r2 :> 2)
=============================================================================
