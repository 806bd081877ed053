---------------------------- MODULE IntakeAnswer -----------------------------
(***************************************************************************)
(* parseIntakeFields: which input fields IntakeRun takes out of the same    *)
(* kind of answer, in which the model was asked for a JSON array.  An      *)
(* intake answer is a sequence of                                          *)
(*   "[", "]", "{", "}"   the brackets of JSON, or of a reference in prose *)
(*   "word"               prose, or a string of the JSON                   *)
(*   "label]", "[label", "label[]"                                         *)
(*                        such a string with a closing bracket in it, an   *)
(*                        opening one, or a pair, as in "[optional]"       *)
(* and of the reasoning markers.                                           *)
(***************************************************************************)
EXTENDS ActionBlock

CONSTANT IntakeTokens

IntakeAnswers == ToSet(output) \subseteq IntakeTokens

\* Faulty: the last opening bracket is taken for the match of the closing one.
LastOpen(s, j) == SelectLastInSubSeq(s, 1, j, LAMBDA t : t = "[")

-----------------------------------------------------------------------------
Closing(t) == t \in {"]", "label]", "label[]"}
Opening(t) == t \in {"[", "[label"}
Strings == {"word", "label]", "[label", "label[]"}

\* What a token adds to the brackets that are still to be matched, going back.
Depth(s, i, j) ==
  Cardinality({k \in i..j : s[k] \in {"]", "label]"}}) - Cardinality({k \in i..j : Opening(s[k])})

\* The bracket that matches the closing one at j, scanning back and counting
\* every bracket, those in strings too; 0 for none. A pair never is the match
\* of a later one, and is its own.
MatchOf(s, j) ==
  LET zero == {i \in 1..j : Opening(s[i]) /\ Depth(s, i, j) = 0} IN Max({0} \cup zero)

ExtractJSONArray(s) ==
  LET end == SelectLastInSeq(s, Closing) IN
  IF end = 0 THEN <<>>
  ELSE IF s[end] = "label[]" THEN <<"[", "]">>
  ELSE IF MatchOf(s, end) = 0 THEN <<>> ELSE SubSeq(s, MatchOf(s, end), end)

\* What json.Unmarshal into []intakeField goes through: a list of objects, each
\* with strings and an array of strings; n counts the objects.
Read(st, t) ==
  LET to(l) == [st EXCEPT !.at = l] IN
  CASE st.at = "start" /\ t = "["   -> to("list")
    [] st.at = "list" /\ t = "{"    -> to("field")
    [] st.at = "list" /\ t = "]"    -> to("end")
    [] st.at = "field" /\ t = "["   -> to("options")
    [] st.at = "field" /\ t = "}"   -> [at |-> "list", n |-> st.n + 1]
    [] st.at = "options" /\ t = "]" -> to("field")
    [] st.at \in {"field", "options"} /\ t \in Strings -> st
    [] OTHER -> to("error")

Reading(raw) ==
  LET read[k \in 0..Len(raw)] ==
        IF k = 0 THEN [at |-> "start", n |-> 0] ELSE Read(read[k - 1], raw[k])
  IN read[Len(raw)]

\* The number of fields; nothing for ErrInvalidLLMResponse.
Unmarshal(raw) ==
  LET st == Reading(raw) IN IF st.at = "end" THEN {st.n} ELSE {}

ParseIntakeFields(response) == Unmarshal(ExtractJSONArray(StripThinkBlocks(response)))

-----------------------------------------------------------------------------
\* The model writes for an intake or for an execution.
IntakeNext ==
  \E t \in Tokens : Receive(t) /\ (ToSet(output') \subseteq IntakeTokens
                                    \/ ToSet(output') \cap ({"[", "]", "{", "}"} \cup Strings) = {})

IntakeSpec == Init /\ [][IntakeNext]_output

-----------------------------------------------------------------------------
(* The reference reads the answer forwards. *)

\* at: in prose, a reference in brackets, or the list; n its fields so far.
\* last: the fields of the last list or reference that was completed, {} for a
\* reference; depth: the brackets open since the list began, those in strings
\* counted, 0 for good once a string closed the list's own; lost: the last
\* bracket closed in the list is that of an empty array of options or a pair.
Count(d, t) == IF d = 0 THEN 0
               ELSE IF Opening(t) THEN d + 1 ELSE IF t \in {"]", "label]"} THEN d - 1 ELSE d

Follow(st, t) ==
  LET in == [st EXCEPT !.depth = Count(@, t)] IN
  CASE st.at = "prose" /\ t = "["     -> [st EXCEPT !.at = "start", !.n = 0, !.depth = 1, !.lost = FALSE]
    [] st.at = "prose" /\ t = "word"  -> st
    [] st.at = "start" /\ t = "word"  -> [st EXCEPT !.at = "reference"]
    [] st.at = "reference" /\ t = "word" -> st
    [] st.at = "reference" /\ t = "]" -> [st EXCEPT !.at = "prose", !.last = {}]
    [] st.at \in {"start", "list"} /\ t = "]" ->
         [st EXCEPT !.at = "prose", !.last = IF st.depth = 1 THEN {st.n} ELSE {}]
    [] st.at \in {"start", "list"} /\ t = "{" -> [st EXCEPT !.at = "field"]
    [] st.at = "field" /\ t = "}"     -> [st EXCEPT !.at = "list", !.n = @ + 1]
    [] st.at = "field" /\ t = "["     -> [in EXCEPT !.at = "none"]
    [] st.at = "none" /\ t = "]"      -> [in EXCEPT !.at = "field", !.lost = TRUE, !.last = {}]
    [] st.at = "options" /\ t = "]"   -> [in EXCEPT !.at = "field", !.lost = FALSE, !.last = {}]
    [] st.at \in {"field", "none", "options"} /\ t \in Strings ->
         [in EXCEPT !.at = IF @ = "field" THEN @ ELSE "options",
                    !.lost = IF Closing(t) THEN t = "label[]" ELSE @,
                    !.last = IF Closing(t) THEN {} ELSE @]
    [] OTHER -> [st EXCEPT !.at = "other"]

\* What it has seen after each token; it skips the reasoning.
Following(s) ==
  LET seen[k \in 0..Len(s)] ==
        IF k = 0 THEN [at |-> "prose", n |-> 0, last |-> {}, depth |-> 0, lost |-> FALSE]
        ELSE IF k \in Answered(s) THEN Follow(seen[k - 1], s[k]) ELSE seen[k - 1]
  IN seen

Written == Following(output)[Len(output)]

-----------------------------------------------------------------------------
(* Properties *)

\* Of an answer in the form that was asked for - prose, references in brackets
\* and lists of fields, possibly cut - the fields are those of the last list
\* when nothing in brackets follows it and the brackets in its strings pair up;
\* otherwise the answer is refused, with one exception: cut where an array of
\* no options or a "[]" in a string was the last to be closed, it counts as the
\* empty list, and the run goes on without its fields (extractJSONArray).
FieldsOfTheLastList ==
  IntakeAnswers => LET w == Written IN
    w.at # "other" =>
      ParseIntakeFields(output) = IF w.lost /\ w.at # "prose" THEN {0} ELSE w.last
=============================================================================
