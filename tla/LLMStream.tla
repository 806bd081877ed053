------------------------------ MODULE LLMStream ------------------------------
(***************************************************************************)
(* One streamed completion: callLLM with callAnthropic or                  *)
(* callOpenAICompatible, the chunk callback ExecuteRunStreaming wraps      *)
(* around the caller's, and the decision taken on the error callLLM        *)
(* returns.  The provider is external: it sends lines, ends its stream or  *)
(* breaks.  Three clocks and the client may end the context of the call in *)
(* the meantime.                                                           *)
(*                                                                         *)
(* A chunk is one of "r" (reasoning), "c" (answer) and the two markers the *)
(* OpenAI-compatible dispatcher puts around reasoning; it counts as one    *)
(* token.  What the model writes contains no marker of its own.            *)
(***************************************************************************)
EXTENDS Integers, SequencesExt

CONSTANTS
  Protocols,      \* subset of {"anthropic", "openai"}
  Seconds,        \* values of session_max_seconds of the agent and the plan
  Budgets,        \* resolved token budgets, 0 for none
  Anomalies,      \* what the provider may do wrong: "status", "network", "line"
  FlushInterval,  \* outputFlushInterval, 50 in the code
  MaxLines        \* bound: lines with text the provider sends

ASSUME StreamAssumption ==
  /\ Protocols \subseteq {"anthropic", "openai"}
  /\ Seconds \subseteq Int /\ Budgets \subseteq Nat
  /\ Anomalies \subseteq {"status", "network", "line"}
  /\ FlushInterval \in Nat \ {0} /\ MaxLines \in Nat

VARIABLES
  \* the call's parameters
  proto, agentSecs, planSecs, budget,
  session,   \* "single": max_sessions is 1; "more": one may follow; "last"
  \* the dispatcher
  at,        \* "post", "read", "closing", "returned" or "decided"
  queue,     \* chunks of the line just read, still to hand to the callback
  thinkingOpen,
  lines,     \* lines with text read so far
  err,       \* scanner.Err(): "none", "ctx" or "network"
  result,    \* what callLLM returned
  \* the contexts
  ctx,       \* "live", or why streamCtx or callLLM's own context ended first
  client,    \* the caller's context has ended
  \* ExecuteRunStreaming
  output,    \* the strings.Builder
  sent,      \* chunks the caller's onChunk has received
  row,       \* the run's output property
  partial,   \* the run's partial_output property
  outcome

setup    == <<proto, agentSecs, planSecs, budget, session>>
callVars == <<at, queue, thinkingOpen, lines, err, result>>
ctxVars  == <<ctx, client>>
runVars  == <<output, sent, row, partial, outcome>>
vars == <<setup, callVars, ctxVars, runVars>>

Chunk == {"<think>", "</think>", "r", "c"}

\* resolveSessionLimits on max_seconds: the first value that is not zero.
MaxSeconds == IF planSecs # 0 THEN planSecs ELSE IF agentSecs # 0 THEN agentSecs ELSE 300

Expired == ctx \in {"session", "call"}   \* ctx.Err() is DeadlineExceeded
Ended   == ctx # "live"

-----------------------------------------------------------------------------
(* Faulty variants of the actions below; no behaviour uses them. *)

\* A flush empties the builder.
ForwardResets ==
  /\ queue # <<>> /\ queue' = Tail(queue)
  /\ sent' = Append(sent, Head(queue))
  /\ IF Len(sent') % FlushInterval = 0
       THEN row' = Append(output, Head(queue)) /\ output' = <<>>
       ELSE UNCHANGED row /\ output' = Append(output, Head(queue))
  /\ ctx' = IF ctx = "live" /\ budget > 0 /\ Len(sent') >= budget THEN "budget" ELSE ctx
  /\ UNCHANGED <<setup, at, thinkingOpen, lines, err, result, client, partial, outcome>>

\* The marker after the loop is missing.
CloseThinkForgets ==
  /\ at = "closing" /\ queue = <<>>
  /\ at' = "returned" /\ thinkingOpen' = FALSE
  /\ result' = IF err = "none" THEN "ok" ELSE IF Expired THEN "deadline"
               ELSE IF err = "ctx" THEN "canceled" ELSE "error"
  /\ UNCHANGED <<setup, queue, lines, err, ctxVars, runVars>>

\* Any error of the call is taken for a session limit.
YieldSignalAny == session # "single" /\ result # "ok"

\* callLLM passes on the caller's context without a timeout of its own.
CallTimeoutMissing == FALSE /\ UNCHANGED vars

-----------------------------------------------------------------------------
Init ==
  /\ proto \in Protocols /\ budget \in Budgets
  /\ agentSecs \in Seconds /\ planSecs \in Seconds
  /\ session \in {"single", "more", "last"}
  /\ at = "post" /\ queue = <<>> /\ thinkingOpen = FALSE /\ lines = 0
  /\ err = "none" /\ result = "none"
  /\ ctx = "live" /\ client = FALSE
  /\ output = <<>> /\ sent = <<>> /\ row = <<>> /\ partial = <<>>
  /\ outcome = "none"

-----------------------------------------------------------------------------
(* The contexts *)

\* The session's wall clock: context.WithTimeout only for a positive limit.
SessionTimeout ==
  /\ ctx = "live" /\ at # "decided" /\ MaxSeconds > 0
  /\ ctx' = "session"
  /\ UNCHANGED <<setup, callVars, client, runVars>>

\* callLLM's own timeout, always set.
CallTimeout ==
  /\ ctx = "live" /\ at \notin {"returned", "decided"}
  /\ ctx' = "call"
  /\ UNCHANGED <<setup, callVars, client, runVars>>

ClientGone ==
  /\ ~client /\ at # "decided"
  /\ client' = TRUE
  /\ ctx' = IF Ended THEN ctx ELSE "client"
  /\ UNCHANGED <<setup, callVars, runVars>>

-----------------------------------------------------------------------------
(* The dispatcher *)

Fail(kind) == at' = "returned" /\ result' = kind

\* postJSON: a response with status 200, or an error.
Post ==
  /\ at = "post"
  /\ \/ at' = "read" /\ UNCHANGED result
     \/ Ended /\ Fail(IF Expired THEN "deadline" ELSE "canceled")
     \/ Anomalies \cap {"status", "network"} # {} /\ Fail("error")
  /\ UNCHANGED <<setup, queue, thinkingOpen, lines, err, ctxVars, runVars>>

\* The callback's chunks for a line with reasoning, with content or both.
Reasoning(open) == (IF open THEN <<>> ELSE <<"<think>">>) \o <<"r">>
Content(open)   == (IF open THEN <<"</think>">> ELSE <<>>) \o <<"c">>

\* scanner.Scan returns a data line.  An Anthropic line has content only.
ReadLine ==
  /\ at = "read" /\ queue = <<>> /\ lines < MaxLines
  /\ lines' = lines + 1
  /\ \/ /\ proto = "openai"
        /\ queue' = Reasoning(thinkingOpen) /\ thinkingOpen' = TRUE
     \/ queue' = Content(thinkingOpen) /\ thinkingOpen' = FALSE
     \/ /\ proto = "openai"
        /\ queue' = Reasoning(thinkingOpen) \o Content(TRUE) /\ thinkingOpen' = FALSE
  /\ UNCHANGED <<setup, at, err, result, ctxVars, runVars>>

\* A line that is not the JSON the dispatcher expects.
Malformed ==
  /\ at = "read" /\ queue = <<>> /\ "line" \in Anomalies
  /\ Fail("decode")
  /\ UNCHANGED <<setup, queue, thinkingOpen, lines, err, ctxVars, runVars>>

\* The stream ends: [DONE] or end of file, a read error, or a read that
\* finds the context ended.  bufio.Scanner hands out an unterminated last line
\* before it reports the error: the JSON cut in the middle does not decode.
StreamEnds ==
  /\ at = "read" /\ queue = <<>>
  /\ \/ /\ at' = "closing" /\ UNCHANGED result
        /\ \/ err' = "none"
           \/ err' = "network" /\ "network" \in Anomalies
           \/ err' = "ctx" /\ Ended
     \/ /\ Ended \/ "network" \in Anomalies
        /\ Fail("decode") /\ UNCHANGED err
  /\ UNCHANGED <<setup, queue, thinkingOpen, lines, ctxVars, runVars>>

\* After the loop: the closing marker, then the error of the scanner.
CloseThink ==
  /\ at = "closing" /\ queue = <<>>
  /\ \/ /\ thinkingOpen
        /\ queue' = <<"</think>">> /\ thinkingOpen' = FALSE
        /\ UNCHANGED <<at, result>>
     \/ /\ ~thinkingOpen
        /\ at' = "returned"
        /\ result' = IF err = "none" THEN "ok" ELSE IF Expired THEN "deadline"
                     ELSE IF err = "ctx" THEN "canceled" ELSE "error"
        /\ UNCHANGED <<queue, thinkingOpen>>
  /\ UNCHANGED <<setup, lines, err, ctxVars, runVars>>

-----------------------------------------------------------------------------
(* ExecuteRunStreaming *)

\* The wrapped callback: builder, caller, token budget, periodic flush.  The
\* flush ignores its error and runs under the caller's context.
Forward ==
  /\ queue # <<>> /\ queue' = Tail(queue)
  /\ output' = Append(output, Head(queue))
  /\ sent' = Append(sent, Head(queue))
  /\ ctx' = IF ctx = "live" /\ budget > 0 /\ Len(sent') >= budget THEN "budget" ELSE ctx
  /\ \/ UNCHANGED row
     \/ Len(sent') % FlushInterval = 0 /\ ~client /\ row' = output'
  /\ UNCHANGED <<setup, at, thinkingOpen, lines, err, result, client, partial, outcome>>

\* isYieldSignal
YieldSignal == session # "single" /\ result \in {"deadline", "canceled"}

\* The closing writes.  A yield and an exhausted chain keep the output in
\* partial_output; any other end keeps it in output, that of an exhausted chain
\* which auto-decomposition completes too.  The write may be lost.
Decide ==
  /\ at = "returned"
  /\ at' = "decided"
  /\ \/ /\ YieldSignal /\ ~client
        /\ partial' = output /\ UNCHANGED row
        /\ outcome' = IF session = "more" THEN "yielded" ELSE "failed"
     \/ /\ YieldSignal /\ session = "last" /\ ~client
        /\ row' = output /\ UNCHANGED partial
        /\ outcome' = "completed"
     \/ /\ ~YieldSignal /\ ~client
        /\ row' = output /\ UNCHANGED partial
        /\ outcome' = IF result = "ok" THEN "completed" ELSE "failed"
     \/ outcome' = "lost" /\ UNCHANGED <<row, partial>>
  /\ UNCHANGED <<setup, queue, thinkingOpen, lines, err, result, ctxVars, output, sent>>

Next == \/ SessionTimeout \/ CallTimeout \/ ClientGone
        \/ Post \/ ReadLine \/ Malformed \/ StreamEnds \/ CloseThink
        \/ Forward \/ Decide

Spec == Init /\ [][Next]_vars

\* The timeout of callLLM fires, a read and a POST under an ended context
\* return, and the code goes on; the provider need not send anything.
Fairness ==
  /\ WF_vars(CallTimeout) /\ WF_vars(Forward) /\ WF_vars(CloseThink) /\ WF_vars(Decide)
  /\ WF_vars(Ended /\ Post) /\ WF_vars(Ended /\ StreamEnds)

FairSpec == Spec /\ Fairness

-----------------------------------------------------------------------------
(* Properties *)

TypeOK ==
  /\ proto \in Protocols /\ budget \in Budgets
  /\ agentSecs \in Seconds /\ planSecs \in Seconds
  /\ session \in {"single", "more", "last"}
  /\ at \in {"post", "read", "closing", "returned", "decided"}
  /\ queue \in Seq(Chunk) /\ (queue # <<>> => at \in {"read", "closing"})
  /\ thinkingOpen \in BOOLEAN /\ (thinkingOpen => proto = "openai")
  /\ lines \in 0..MaxLines
  /\ err \in {"none", "ctx", "network"}
  /\ result \in {"none", "ok", "deadline", "canceled", "error", "decode"}
  /\ result # "none" <=> at \in {"returned", "decided"}
  /\ ctx \in {"live", "budget", "session", "call", "client"} /\ client \in BOOLEAN
  /\ output \in Seq(Chunk) /\ sent \in Seq(Chunk)
  /\ row \in Seq(Chunk) /\ partial \in Seq(Chunk)
  /\ outcome \in {"none", "completed", "failed", "yielded", "lost"}

\* What the client has seen is never contradicted by the row, and nothing of it
\* is missing once the run has ended with its closing write made.
ForwardedIsStored ==
  /\ IsPrefix(row, sent)
  /\ outcome \in {"completed", "failed", "yielded"} => sent \in {row, partial}

\* Before position i of s a think block has been opened and not closed.
InThink(s, i) ==
  \E j \in 1..(i - 1) : s[j] = "<think>" /\ \A k \in (j + 1)..(i - 1) : s[k] # "</think>"

\* Whatever the order of the lines and wherever the stream stops, stripping
\* the think blocks leaves the answer and removes the reasoning; a stored or
\* replayed output leaves no block open unless decoding failed.
AnswerOutsideThink ==
  /\ \A i \in DOMAIN sent : (sent[i] = "c" => ~InThink(sent, i))
                            /\ (sent[i] = "r" => InThink(sent, i))
  /\ result \in {"ok", "deadline", "canceled", "error"} => ~InThink(sent, Len(sent) + 1)

\* A chain is continued only because something ended the call early: a
\* provider's error is never mistaken for a session limit.
YieldOnlyWhenEnded == outcome = "yielded" => Ended

\* However the provider behaves, the call returns and the run is closed.
AlwaysDecides == <>(outcome # "none")

=============================================================================
