----------------------------- MODULE ActionBlock -----------------------------
(***************************************************************************)
(* parseActions: which actions the dispatcher takes out of an LLM answer   *)
(* that may reason in think blocks, quote fences and stop anywhere.        *)
(*                                                                         *)
(* The answer is a sequence of tokens; it grows by one token per step, so  *)
(* every state is a point where the token cap may have cut it:             *)
(*   "<think>", "</think>"  the reasoning markers                          *)
(*   "fence"   ```actions and a newline, which contains closing ticks too  *)
(*   "ticks"   ``` alone                                                   *)
(*   "A", "B"  JSON arrays of actions       "[]"  the empty array          *)
(*   "null"    JSON null                    "prose"  anything else, not    *)
(*                                                   blank                 *)
(***************************************************************************)
EXTENDS Naturals, SequencesExt

CONSTANTS
  Tokens,    \* the tokens of the model's answer
  MaxTokens  \* bound: length of an answer, the request's max_tokens

Actions == {"A", "B", "[]"}   \* what decodes to a list; otherwise (nil, nil) or an error

ASSUME TokenAssumption ==
  /\ Tokens \subseteq {"<think>", "</think>", "fence", "ticks", "null", "prose"} \cup Actions
                     \cup {"[", "]", "{", "}", "word", "label]", "[label", "label[]"}
  /\ MaxTokens \in Nat

VARIABLE output

\* strings.TrimSpace takes the newline of a last fence, which then opens no
\* block; its ticks stay.
TrimSpace(s) == IF s # <<>> /\ s[Len(s)] = "fence" THEN [s EXCEPT ![Len(s)] = "ticks"] ELSE s

-----------------------------------------------------------------------------
(* Faulty variants of the operators below; used by no behaviour. *)

\* The reasoning is searched together with the answer.
StripNothing(s) == TrimSpace(s)

\* strings.LastIndex for strings.Index on the opening fence.
AfterLastFence(s) ==
  LET i == SelectLastInSeq(s, LAMBDA t : t = "fence") IN SubSeq(s, i + 1, Len(s))

-----------------------------------------------------------------------------
\* One pass over s: a token goes to out when it lies in a think block and
\* inside is TRUE, or outside and inside is FALSE.
Take(st, t, inside) ==
  IF st.open
    THEN IF t = "</think>" THEN [st EXCEPT !.open = FALSE]
         ELSE IF inside THEN [st EXCEPT !.out = Append(@, t)] ELSE st
    ELSE IF t = "<think>" THEN [st EXCEPT !.open = TRUE]
         ELSE IF inside THEN st ELSE [st EXCEPT !.out = Append(@, t)]

Scan(s, inside) ==
  LET scan[n \in 0..Len(s)] ==
        IF n = 0 THEN [open |-> FALSE, out |-> <<>>] ELSE Take(scan[n - 1], s[n], inside)
  IN scan

\* A block that is never closed reaches to the end of s.
Part(s, inside) == Scan(s, inside)[Len(s)].out

ExtractThinkContents(s) == Part(s, TRUE)
StripThinkBlocks(s)     == TrimSpace(Part(s, FALSE))

HasFence(s)   == Contains(s, "fence")
AfterFence(s) == LET i == SelectInSeq(s, LAMBDA t : t = "fence") IN SubSeq(s, i + 1, Len(s))
CloseOf(rest) == SelectInSeq(rest, LAMBDA t : t \in {"ticks", "fence"})   \* 0: none

\* decodeActions on the text between the fences.
Decode(raw) ==
  IF Len(raw) # 1 THEN "error"
  ELSE IF raw[1] \in Actions THEN raw[1]
  ELSE IF raw[1] = "null" THEN "nil" ELSE "error"

\* findActionsBlock: the inner text of the first block of s, if it is closed.
FindActionsBlock(s) ==
  IF HasFence(s) /\ CloseOf(AfterFence(s)) > 0
    THEN {SubSeq(AfterFence(s), 1, CloseOf(AfterFence(s)) - 1)} ELSE {}

ParseActions(out) ==
  LET postThink == StripThinkBlocks(out)
      draft == FindActionsBlock(ExtractThinkContents(out))
      rest  == AfterFence(postThink)
  IN IF ~HasFence(postThink) THEN "nil"
     ELSE IF CloseOf(rest) > 0 THEN Decode(SubSeq(rest, 1, CloseOf(rest) - 1))
     ELSE IF draft # {} THEN Decode(CHOOSE raw \in draft : TRUE) ELSE "error"

Init == output = <<>>

Receive(t) == Len(output) < MaxTokens /\ output' = Append(output, t)

Next == \E t \in Tokens : Receive(t)

Spec == Init /\ [][Next]_output

-----------------------------------------------------------------------------
(* The reference: positions of the answer instead of passes over it. *)

InThink(s, i) ==
  \E j \in 1..(i - 1) : s[j] = "<think>" /\ \A k \in (j + 1)..(i - 1) : s[k] # "</think>"

Reasoned(s) == {i \in DOMAIN s : InThink(s, i) /\ s[i] # "</think>"}
Answered(s) == {i \in DOMAIN s : ~InThink(s, i) /\ s[i] # "<think>"}

\* f opens the first block among the positions P.
FirstFence(s, P, f) == f \in P /\ s[f] = "fence" /\ \A i \in P : i < f => s[i] # "fence"

\* Its block is open once something follows; the one opened at f and closed at
\* c holds x and nothing else.
Closes(s, P, f, c) == /\ c \in P /\ c > f /\ s[c] \in {"ticks", "fence"}
                      /\ \A i \in P : f < i /\ i < c => s[i] \notin {"ticks", "fence"}
Holds(s, P, f, c, x) == \E k \in P : {i \in P : f < i /\ i < c} = {k} /\ s[k] = x

Opened(s, P)        == \E f, i \in P : FirstFence(s, P, f) /\ i > f
ClosedIn(s, P)      == \E f, c \in P : FirstFence(s, P, f) /\ Closes(s, P, f, c)
BlockHolds(s, P, x) == \E f, c \in P : FirstFence(s, P, f) /\ Closes(s, P, f, c) /\ Holds(s, P, f, c, x)
Truncated(s)        == Opened(s, Answered(s)) /\ ~ClosedIn(s, Answered(s))

\* Where the actions come from: the answer, or the reasoning when the answer
\* was cut inside its block.
Source(s) == IF Truncated(s) THEN Reasoned(s) ELSE Answered(s)

-----------------------------------------------------------------------------
(* Properties *)

\* The list taken from an answer is the one its first block outside reasoning
\* holds; a draft in the reasoning counts only for an answer cut inside its
\* block, and never overrides an answer that is complete (BUG-09-028). An
\* answer without a block, or cut right after the fence of its first one, has
\* no actions and is no error.
ActionsFromTheRightPlace ==
  /\ \A x \in Actions : ParseActions(output) = x <=> BlockHolds(output, Source(output), x)
  /\ ParseActions(output) = "nil" <=>
       ~Opened(output, Answered(output)) \/ BlockHolds(output, Source(output), "null")

\* Once the block of the answer is closed nothing the model adds, a second
\* block or more reasoning, changes the actions.
ClosedBlockIsFinal ==
  [][ClosedIn(output, Answered(output)) => ParseActions(output') = ParseActions(output)]_output

=============================================================================
