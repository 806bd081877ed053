----------------------------- MODULE LLMStreamMC -----------------------------
(* LLMStream on a small instance: session_max_seconds unset, or negative,    *)
(* the only setting that leaves a session without a clock.                   *)
EXTENDS LLMStream

SecondsValues == {0, -1}
=============================================================================
