-------------------------- MODULE LLMStream_proofs --------------------------
(* What a streamed call leaves behind, for any limits and any stream.       *)
EXTENDS LLMStream, SequenceTheorems, TLAPS

-----------------------------------------------------------------------------
(* Type correctness *)

\* The chunks of a line.
LEMMA Lines ==
  ASSUME NEW open \in BOOLEAN
  PROVE  /\ Reasoning(open) \in Seq(Chunk) /\ Content(open) \in Seq(Chunk)
         /\ Reasoning(open) \o Content(TRUE) \in Seq(Chunk)
<1>1. <<>> \in Seq(Chunk)
  BY EmptySeq
<1>2. <<"r">> \in Seq(Chunk) /\ <<"<think>">> \in Seq(Chunk)
  BY DEF Chunk
<1>3. <<"c">> \in Seq(Chunk) /\ <<"</think>">> \in Seq(Chunk)
  BY DEF Chunk
<1>4. Reasoning(open) \in Seq(Chunk)
  BY <1>1, <1>2, ConcatProperties DEF Reasoning
<1>5. Content(open) \in Seq(Chunk) /\ Content(TRUE) \in Seq(Chunk)
  BY <1>1, <1>3, ConcatProperties DEF Content
<1> QED
  BY <1>4, <1>5, ConcatProperties

LEMMA InitTyped == Init => TypeOK
<1>1. <<>> \in Seq(Chunk)
  BY EmptySeq
<1>2. 0 \in 0 .. MaxLines
  BY StreamAssumption
<1> SUFFICES ASSUME Init PROVE TypeOK
  OBVIOUS
<1> QED
  BY <1>1, <1>2 DEF Init, TypeOK

LEMMA NextTyped == TypeOK /\ [Next]_vars => TypeOK'
<1> SUFFICES ASSUME TypeOK, [Next]_vars PROVE TypeOK'
  OBVIOUS
<1> USE StreamAssumption DEF TypeOK, setup, callVars, ctxVars, runVars, Fail
<1>1. CASE SessionTimeout
  BY <1>1 DEF SessionTimeout
<1>2. CASE CallTimeout
  BY <1>2 DEF CallTimeout
<1>3. CASE ClientGone
  BY <1>3 DEF ClientGone
<1>4. CASE Post
  BY <1>4 DEF Post
<1>5. CASE ReadLine
  <2>1. queue' \in Seq(Chunk) /\ thinkingOpen' \in BOOLEAN /\ (thinkingOpen' => proto = "openai")
    <3>1. thinkingOpen \in BOOLEAN
      OBVIOUS
    <3>2. \/ queue' = Reasoning(thinkingOpen) /\ proto = "openai" /\ thinkingOpen' = TRUE
          \/ queue' = Content(thinkingOpen) /\ thinkingOpen' = FALSE
          \/ queue' = Reasoning(thinkingOpen) \o Content(TRUE) /\ thinkingOpen' = FALSE
      BY <1>5 DEF ReadLine
    <3> QED
      BY <3>1, <3>2, Lines
  <2> QED
    BY <1>5, <2>1 DEF ReadLine
<1>6. CASE Malformed
  BY <1>6 DEF Malformed
<1>7. CASE StreamEnds
  BY <1>7 DEF StreamEnds
<1>8. CASE CloseThink
  <2>1. <<"</think>">> \in Seq(Chunk)
    BY DEF Chunk
  <2>2. CASE thinkingOpen
    BY <1>8, <2>1, <2>2 DEF CloseThink
  <2>3. CASE ~thinkingOpen
    <3>1. at' = "returned" /\ result' \in {"ok", "deadline", "canceled", "error"}
      BY <1>8, <2>3 DEF CloseThink
    <3>2. queue = <<>> /\ UNCHANGED <<queue, thinkingOpen, lines, err>>
      BY <1>8, <2>3 DEF CloseThink
    <3> QED
      BY <1>8, <3>1, <3>2 DEF CloseThink
  <2> QED
    BY <2>2, <2>3
<1>9. CASE Forward
  <2>1. Head(queue) \in Chunk /\ queue' \in Seq(Chunk)
    BY <1>9, HeadTailProperties DEF Forward
  <2>2. output' \in Seq(Chunk) /\ sent' \in Seq(Chunk) /\ row' \in Seq(Chunk)
    <3>1. output' = Append(output, Head(queue)) /\ sent' = Append(sent, Head(queue))
      BY <1>9 DEF Forward
    <3>2. output' \in Seq(Chunk) /\ sent' \in Seq(Chunk)
      BY <2>1, <3>1, AppendProperties
    <3>3. row' = row \/ row' = output'
      BY <1>9 DEF Forward
    <3> QED
      BY <3>2, <3>3
  <2> QED
    BY <1>9, <2>1, <2>2 DEF Forward
<1>10. CASE Decide
  BY <1>10 DEF Decide
<1>11. CASE UNCHANGED vars
  BY <1>11 DEF vars
<1> QED
  BY <1>1, <1>2, <1>3, <1>4, <1>5, <1>6, <1>7, <1>8, <1>9, <1>10, <1>11 DEF Next

\* Every variable keeps its type.
THEOREM TypeCorrect == Spec => []TypeOK
BY InitTyped, NextTyped, PTL DEF Spec

-----------------------------------------------------------------------------
(* A chain is continued only when something ended the call *)

EndedInv ==
  /\ err = "ctx" => Ended
  /\ result \in {"deadline", "canceled"} => Ended
  /\ outcome = "yielded" => Ended

LEMMA EndedStep == TypeOK /\ EndedInv /\ [Next]_vars => EndedInv'
<1> SUFFICES ASSUME TypeOK, EndedInv, [Next]_vars PROVE EndedInv'
  OBVIOUS
<1> USE DEF TypeOK, EndedInv, Ended, Expired, Fail, setup, callVars, ctxVars, runVars
<1> QED
  BY DEF Next, vars, SessionTimeout, CallTimeout, ClientGone, Post, ReadLine, Malformed,
         StreamEnds, CloseThink, Forward, Decide, YieldSignal

\* A run is yielded only when a clock, the token budget or the client ended
\* the call: a provider's error is never taken for a session limit.
THEOREM YieldsAreLimits == Spec => []YieldOnlyWhenEnded
<1>1. Init => EndedInv
  BY DEF Init, EndedInv
<1>2. EndedInv => YieldOnlyWhenEnded
  BY DEF EndedInv, YieldOnlyWhenEnded
<1> QED
  BY <1>1, <1>2, InitTyped, NextTyped, EndedStep, PTL DEF Spec

-----------------------------------------------------------------------------
(* What was forwarded is stored *)

LEMMA PrefixOfAppend ==
  ASSUME NEW S, NEW s \in Seq(S), NEW t \in Seq(S), NEW e \in S, IsPrefix(s, t)
  PROVE  IsPrefix(s, Append(t, e))
<1>1. Len(s) \in Nat /\ Len(t) \in Nat /\ Len(s) <= Len(t)
  BY LenProperties DEF IsPrefix
<1>2. Append(t, e) \in Seq(S) /\ Len(Append(t, e)) = Len(t) + 1
      /\ \A i \in 1 .. Len(t) : Append(t, e)[i] = t[i]
  BY AppendProperties
<1>3. SubSeq(Append(t, e), 1, Len(s)) = SubSeq(t, 1, Len(s))
  BY <1>1, <1>2
<1> QED
  BY <1>1, <1>2, <1>3 DEF IsPrefix

LEMMA PrefixOfItself ==
  ASSUME NEW S, NEW s \in Seq(S) PROVE IsPrefix(s, s)
BY LenProperties DEF IsPrefix

StoredInv ==
  /\ output = sent
  /\ IsPrefix(row, sent)
  /\ outcome # "none" => at = "decided"
  /\ outcome \in {"completed", "failed", "yielded"} => sent \in {row, partial}

LEMMA StoredStep == TypeOK /\ StoredInv /\ [Next]_vars => StoredInv'
<1> SUFFICES ASSUME TypeOK, StoredInv, [Next]_vars PROVE StoredInv'
  OBVIOUS
<1> USE DEF TypeOK, StoredInv, Fail, setup, callVars, ctxVars, runVars
<1>1. CASE Forward
  <2>1. Head(queue) \in Chunk /\ at # "decided"
    BY <1>1, HeadTailProperties DEF Forward
  <2>2. output' = sent' /\ sent' = Append(sent, Head(queue)) /\ UNCHANGED <<at, outcome>> /\ row' \in {row, sent'}
    BY <1>1 DEF Forward
  <2>3. IsPrefix(row, sent') /\ IsPrefix(sent', sent')
    BY <2>1, <2>2, PrefixOfAppend, PrefixOfItself, AppendProperties
  <2> QED
    BY <2>1, <2>2, <2>3
<1>2. CASE Decide
  <2>1. IsPrefix(sent, sent)
    BY PrefixOfItself
  <2> QED
    BY <1>2, <2>1 DEF Decide
<1>3. CASE Post \/ ReadLine \/ Malformed \/ StreamEnds \/ CloseThink
  BY <1>3 DEF Post, ReadLine, Malformed, StreamEnds, CloseThink
<1>4. CASE SessionTimeout \/ CallTimeout \/ ClientGone \/ UNCHANGED vars
  BY <1>4 DEF SessionTimeout, CallTimeout, ClientGone, vars
<1> QED
  BY <1>1, <1>2, <1>3, <1>4 DEF Next

\* The row never contradicts what the client has seen, and the closing write,
\* when it was made, has all of it.
THEOREM SeenIsStored == Spec => []ForwardedIsStored
<1>1. Init => StoredInv
  BY EmptySeq DEF Init, StoredInv, IsPrefix
<1>2. StoredInv => ForwardedIsStored
  BY DEF StoredInv, ForwardedIsStored
<1> QED
  BY <1>1, <1>2, InitTyped, NextTyped, StoredStep, PTL DEF Spec

-----------------------------------------------------------------------------
(* The answer stays outside the think blocks *)

Placed(s) ==
  \A i \in 1 .. Len(s) : /\ s[i] = "c" => ~InThink(s, i)
                         /\ s[i] = "r" => InThink(s, i)

\* A text whose chunks are where they belong, with a block open at its end or not.
Text(s, open) ==
  /\ s \in Seq(Chunk) /\ Placed(s)
  /\ InThink(s, Len(s) + 1) <=> open

\* What precedes a position decides whether it is in a block.
LEMMA SameBefore ==
  ASSUME NEW s \in Seq(Chunk), NEW t \in Seq(Chunk), Len(s) <= Len(t),
         \A i \in 1 .. Len(s) : t[i] = s[i],
         NEW n \in 1 .. (Len(s) + 1)
  PROVE  InThink(t, n) <=> InThink(s, n)
<1>1. Len(s) \in Nat /\ \A k \in 1 .. (n - 1) : t[k] = s[k]
  BY LenProperties
<1>2. \A j \in 1 .. (n - 1) : \A k \in (j + 1) .. (n - 1) : k \in 1 .. (n - 1)
  OBVIOUS
<1> QED
  BY <1>1, <1>2 DEF InThink

LEMMA AfterChunk ==
  ASSUME NEW s \in Seq(Chunk), NEW e \in Chunk
  PROVE  InThink(Append(s, e), Len(s) + 2)
           <=> (e = "<think>" \/ (e # "</think>" /\ InThink(s, Len(s) + 1)))
<1> DEFINE t == Append(s, e)
           n == Len(s)
<1>1. n \in Nat /\ t[n + 1] = e /\ \A i \in 1 .. n : t[i] = s[i]
  BY LenProperties, AppendProperties
<1> HIDE DEF t, n
<1>2. InThink(t, n + 2) <=> \E j \in 1 .. (n + 1) : t[j] = "<think>" /\ \A k \in (j + 1) .. (n + 1) : t[k] # "</think>"
  BY <1>1 DEF InThink
<1>3. InThink(s, n + 1) <=> \E j \in 1 .. n : s[j] = "<think>" /\ \A k \in (j + 1) .. n : s[k] # "</think>"
  BY <1>1 DEF InThink
<1>4. ASSUME e = "<think>" PROVE InThink(t, n + 2)
  <2>1. n + 1 \in 1 .. (n + 1) /\ (n + 1 + 1) .. (n + 1) = {}
    BY <1>1
  <2> QED
    BY <1>1, <1>2, <1>4, <2>1
<1>5. ASSUME e # "</think>", InThink(s, n + 1) PROVE InThink(t, n + 2)
  <2>1. PICK j \in 1 .. n : s[j] = "<think>" /\ \A k \in (j + 1) .. n : s[k] # "</think>"
    BY <1>3, <1>5
  <2>2. \A k \in (j + 1) .. (n + 1) : t[k] # "</think>"
    BY <1>1, <1>5, <2>1
  <2> QED
    BY <1>1, <1>2, <2>1, <2>2
<1>6. ASSUME InThink(t, n + 2), e # "<think>" PROVE e # "</think>" /\ InThink(s, n + 1)
  <2>1. PICK j \in 1 .. (n + 1) : t[j] = "<think>" /\ \A k \in (j + 1) .. (n + 1) : t[k] # "</think>"
    BY <1>2, <1>6
  <2>2. j \in 1 .. n /\ s[j] = "<think>"
    BY <1>1, <1>6, <2>1
  <2>3. n + 1 \in (j + 1) .. (n + 1)
    BY <1>1, <2>2
  <2>4. \A k \in (j + 1) .. n : s[k] # "</think>"
    BY <1>1, <2>1, <2>2
  <2> QED
    BY <1>1, <1>3, <2>1, <2>2, <2>3, <2>4
<1> QED
  BY <1>4, <1>5, <1>6 DEF t, n

LEMMA AppendPlaced ==
  ASSUME NEW s \in Seq(Chunk), NEW e \in Chunk, Placed(s),
         e = "c" => ~InThink(s, Len(s) + 1),
         e = "r" => InThink(s, Len(s) + 1)
  PROVE  Placed(Append(s, e))
<1> DEFINE t == Append(s, e)
<1>1. /\ t \in Seq(Chunk) /\ Len(s) \in Nat /\ Len(t) = Len(s) + 1
      /\ t[Len(s) + 1] = e /\ \A i \in 1 .. Len(s) : t[i] = s[i]
  BY LenProperties, AppendProperties
<1> HIDE DEF t
<1>2. \A i \in 1 .. (Len(s) + 1) : InThink(t, i) <=> InThink(s, i)
  BY <1>1, SameBefore
<1>3. ASSUME NEW i \in 1 .. Len(t)
      PROVE  (t[i] = "c" => ~InThink(t, i)) /\ (t[i] = "r" => InThink(t, i))
  <2>1. CASE i = Len(s) + 1
    BY <1>1, <1>2, <2>1
  <2>2. CASE i \in 1 .. Len(s)
    BY <1>1, <1>2, <2>2 DEF Placed
  <2> QED
    BY <1>1, <2>1, <2>2
<1> QED
  BY <1>3 DEF Placed, t

\* One chunk more.
LEMMA TextAppend ==
  ASSUME NEW s, NEW open \in BOOLEAN, Text(s, open)
  PROVE  /\ Text(Append(s, "<think>"), TRUE)
         /\ Text(Append(s, "</think>"), FALSE)
         /\ open => Text(Append(s, "r"), TRUE)
         /\ ~open => Text(Append(s, "c"), FALSE)
<1>1. ASSUME NEW e \in Chunk, e = "c" => ~open, e = "r" => open
      PROVE  Text(Append(s, e), e = "<think>" \/ (e # "</think>" /\ open))
  <2>1. s \in Seq(Chunk) /\ Placed(s) /\ (InThink(s, Len(s) + 1) <=> open)
    BY DEF Text
  <2>2. Append(s, e) \in Seq(Chunk) /\ Len(Append(s, e)) + 1 = Len(s) + 2
    BY <2>1, AppendProperties, LenProperties
  <2>3. Placed(Append(s, e))
    BY <1>1, <2>1, AppendPlaced
  <2>4. InThink(Append(s, e), Len(s) + 2) <=> (e = "<think>" \/ (e # "</think>" /\ open))
    BY <2>1, AfterChunk
  <2> QED
    BY <2>2, <2>3, <2>4 DEF Text
<1>2. {"<think>", "</think>", "r", "c"} = Chunk
  BY DEF Chunk
<1>3. Text(Append(s, "<think>"), TRUE) /\ Text(Append(s, "</think>"), FALSE)
  <2>1. Text(Append(s, "<think>"), "<think>" = "<think>" \/ ("<think>" # "</think>" /\ open))
    BY <1>1, <1>2
  <2>2. Text(Append(s, "</think>"), "</think>" = "<think>" \/ ("</think>" # "</think>" /\ open))
    BY <1>1, <1>2
  <2> QED
    BY <2>1, <2>2 DEF Text
<1>4. ASSUME open PROVE Text(Append(s, "r"), TRUE)
  <2>1. Text(Append(s, "r"), "r" = "<think>" \/ ("r" # "</think>" /\ open))
    BY <1>1, <1>2, <1>4
  <2> QED
    BY <1>4, <2>1 DEF Text
<1>5. ASSUME ~open PROVE Text(Append(s, "c"), FALSE)
  <2>1. Text(Append(s, "c"), "c" = "<think>" \/ ("c" # "</think>" /\ open))
    BY <1>1, <1>2, <1>5
  <2> QED
    BY <1>5, <2>1 DEF Text
<1> QED
  BY <1>3, <1>4, <1>5

\* One line more.
LEMMA TextLine ==
  ASSUME NEW s, NEW open \in BOOLEAN, Text(s, open)
  PROVE  /\ Text(s \o Reasoning(open), TRUE)
         /\ Text(s \o Content(open), FALSE)
         /\ Text(s \o (Reasoning(open) \o Content(TRUE)), FALSE)
<1>1. s \in Seq(Chunk) /\ <<>> \in Seq(Chunk)
  BY EmptySeq DEF Text
<1>2. <<"r">> \in Seq(Chunk) /\ <<"<think>">> \in Seq(Chunk)
      /\ <<"c">> \in Seq(Chunk) /\ <<"</think>">> \in Seq(Chunk)
  BY DEF Chunk
<1>3. ASSUME NEW t \in Seq(Chunk), NEW e \in Chunk PROVE t \o <<e>> = Append(t, e)
  BY AppendIsConcat
<1>4. "r" \in Chunk /\ "c" \in Chunk /\ "<think>" \in Chunk /\ "</think>" \in Chunk
  BY DEF Chunk
<1>5. ASSUME NEW t, NEW o \in BOOLEAN, Text(t, o) PROVE Text(t \o Reasoning(o), TRUE)
  <2>1. t \in Seq(Chunk)
    BY <1>5 DEF Text
  <2>2. CASE o
    <3>1. Reasoning(o) = <<"r">>
      BY <1>2, <2>2, ConcatEmptySeq DEF Reasoning
    <3> QED
      BY <1>3, <1>4, <1>5, <2>1, <2>2, <3>1, TextAppend
  <2>3. CASE ~o
    <3>1. t \o Reasoning(o) = (t \o <<"<think>">>) \o <<"r">>
      BY <1>2, <2>1, <2>3, ConcatAssociative DEF Reasoning
    <3>2. Text(t \o <<"<think>">>, TRUE)
      BY <1>3, <1>4, <1>5, <2>1, TextAppend
    <3>3. t \o <<"<think>">> \in Seq(Chunk)
      BY <3>2 DEF Text
    <3>4. Text(Append(t \o <<"<think>">>, "r"), TRUE)
      BY <3>2, TextAppend
    <3> QED
      BY <1>3, <1>4, <3>1, <3>3, <3>4
  <2> QED
    BY <2>2, <2>3
<1>6. ASSUME NEW t, NEW o \in BOOLEAN, Text(t, o) PROVE Text(t \o Content(o), FALSE)
  <2>1. t \in Seq(Chunk)
    BY <1>6 DEF Text
  <2>2. CASE ~o
    <3>1. Content(o) = <<"c">>
      BY <1>2, <2>2, ConcatEmptySeq DEF Content
    <3> QED
      BY <1>3, <1>4, <1>6, <2>1, <2>2, <3>1, TextAppend
  <2>3. CASE o
    <3>1. t \o Content(o) = (t \o <<"</think>">>) \o <<"c">>
      BY <1>2, <2>1, <2>3, ConcatAssociative DEF Content
    <3>2. Text(t \o <<"</think>">>, FALSE)
      BY <1>3, <1>4, <1>6, <2>1, TextAppend
    <3>3. t \o <<"</think>">> \in Seq(Chunk)
      BY <3>2 DEF Text
    <3>4. Text(Append(t \o <<"</think>">>, "c"), FALSE)
      BY <3>2, TextAppend
    <3> QED
      BY <1>3, <1>4, <3>1, <3>3, <3>4
  <2> QED
    BY <2>2, <2>3
<1>7. s \o (Reasoning(open) \o Content(TRUE)) = (s \o Reasoning(open)) \o Content(TRUE)
  <2>1. Reasoning(open) \in Seq(Chunk) /\ Content(TRUE) \in Seq(Chunk)
    BY Lines
  <2>2. \A a, b, c \in Seq(Chunk) : a \o (b \o c) = (a \o b) \o c
    BY ConcatAssociative
  <2> QED
    BY <1>1, <2>1, <2>2, Zenon
<1>8. Text(s \o Reasoning(open), TRUE)
  BY <1>5
<1>9. Text((s \o Reasoning(open)) \o Content(TRUE), FALSE)
  BY <1>6, <1>8
<1> QED
  BY <1>6, <1>7, <1>8, <1>9

\* What was forwarded and what is still queued make a text, open at its end
\* exactly when the dispatcher has thinkingOpen; nothing but a decoding error
\* leaves the dispatcher with a block open.
PlaceInv ==
  /\ Text(sent \o queue, thinkingOpen)
  /\ at = "post" => ~thinkingOpen
  /\ result \in {"ok", "deadline", "canceled", "error"} => ~thinkingOpen

LEMMA PlaceInit == Init => PlaceInv
<1> SUFFICES ASSUME Init PROVE PlaceInv
  OBVIOUS
<1>1. sent \o queue = <<>> /\ <<>> \in Seq(Chunk) /\ Len(<<>>) = 0
  BY EmptySeq, ConcatEmptySeq DEF Init
<1>2. Text(<<>>, FALSE)
  BY <1>1 DEF Text, Placed, InThink
<1> QED
  BY <1>1, <1>2 DEF Init, PlaceInv

LEMMA PlaceStep == TypeOK /\ PlaceInv /\ [Next]_vars => PlaceInv'
<1> SUFFICES ASSUME TypeOK, PlaceInv, [Next]_vars PROVE PlaceInv'
  OBVIOUS
<1> USE DEF setup, callVars, ctxVars, runVars, Fail
<1>1. sent \in Seq(Chunk) /\ queue \in Seq(Chunk) /\ thinkingOpen \in BOOLEAN
  BY DEF TypeOK
<1>2. Text(sent \o queue, thinkingOpen)
  BY DEF PlaceInv
<1>3. CASE ReadLine
  <2>1. queue = <<>> /\ sent' = sent /\ UNCHANGED <<at, result>> /\ at = "read"
    BY <1>3 DEF ReadLine
  <2>2. sent \o queue = sent
    BY <1>1, <2>1, ConcatEmptySeq
  <2>3. Text(sent \o queue', thinkingOpen')
    <3>1. \/ queue' = Reasoning(thinkingOpen) /\ thinkingOpen' = TRUE
          \/ queue' = Content(thinkingOpen) /\ thinkingOpen' = FALSE
          \/ queue' = Reasoning(thinkingOpen) \o Content(TRUE) /\ thinkingOpen' = FALSE
      BY <1>3 DEF ReadLine
    <3> QED
      BY <1>1, <1>2, <2>2, <3>1, TextLine
  <2>4. result = "none"
    BY <2>1 DEF TypeOK
  <2> QED
    BY <2>1, <2>3, <2>4 DEF PlaceInv
<1>4. CASE CloseThink
  <2>1. queue = <<>> /\ sent' = sent /\ at = "closing"
    BY <1>4 DEF CloseThink
  <2>2. sent \o queue = sent
    BY <1>1, <2>1, ConcatEmptySeq
  <2>3. CASE thinkingOpen
    <3>1. queue' = <<"</think>">> /\ thinkingOpen' = FALSE /\ UNCHANGED <<at, result>>
      BY <1>4, <2>3 DEF CloseThink
    <3>2. sent \o <<"</think>">> = Append(sent, "</think>")
      BY <1>1, AppendIsConcat DEF Chunk
    <3>3. Text(Append(sent, "</think>"), FALSE)
      BY <1>1, <1>2, <2>2, TextAppend
    <3> QED
      BY <2>1, <3>1, <3>2, <3>3 DEF PlaceInv
  <2>4. CASE ~thinkingOpen
    <3>1. UNCHANGED <<queue, thinkingOpen>> /\ at' = "returned"
      BY <1>4, <2>1, <2>4 DEF CloseThink
    <3> QED
      BY <1>2, <2>1, <2>4, <3>1 DEF PlaceInv
  <2> QED
    BY <2>3, <2>4
<1>5. CASE Forward
  <2>1. queue # <<>> /\ queue' = Tail(queue) /\ sent' = Append(sent, Head(queue))
        /\ UNCHANGED <<at, thinkingOpen, result>>
    BY <1>5 DEF Forward
  <2>2. Head(queue) \in Chunk /\ Tail(queue) \in Seq(Chunk) /\ queue = <<Head(queue)>> \o Tail(queue)
    BY <1>1, <2>1, HeadTailProperties, ConcatProperties
  <2>3. sent' \o queue' = sent \o queue
    <3>1. Append(sent, Head(queue)) = sent \o <<Head(queue)>>
      BY <1>1, <2>2, AppendIsConcat
    <3>2. (sent \o <<Head(queue)>>) \o Tail(queue) = sent \o (<<Head(queue)>> \o Tail(queue))
      BY <1>1, <2>2, ConcatAssociative
    <3> QED
      BY <2>1, <2>2, <3>1, <3>2
  <2> QED
    BY <2>1, <2>3 DEF PlaceInv
<1>6. CASE Post \/ Malformed \/ StreamEnds
  <2>1. UNCHANGED <<sent, queue, thinkingOpen>> /\ at' # "post"
    BY <1>6 DEF Post, Malformed, StreamEnds
  <2>2. result' \in {"ok", "deadline", "canceled", "error"} => ~thinkingOpen
    BY <1>6 DEF Post, Malformed, StreamEnds, PlaceInv
  <2> QED
    BY <1>2, <2>1, <2>2 DEF PlaceInv
<1>7. CASE Decide \/ SessionTimeout \/ CallTimeout \/ ClientGone \/ UNCHANGED vars
  <2>1. UNCHANGED <<sent, queue, thinkingOpen, result>> /\ (at' = at \/ at' # "post")
    BY <1>7 DEF Decide, SessionTimeout, CallTimeout, ClientGone, vars
  <2> QED
    BY <2>1 DEF PlaceInv
<1> QED
  BY <1>3, <1>4, <1>5, <1>6, <1>7 DEF Next

\* Whatever the order of the lines and wherever the stream stops, the answer
\* is outside the think blocks, the reasoning inside, and only a decoding error
\* leaves a block open.
THEOREM AnswersAreOutside == Spec => []AnswerOutsideThink
<1>1. TypeOK /\ PlaceInv => AnswerOutsideThink
  <2> SUFFICES ASSUME TypeOK, PlaceInv PROVE AnswerOutsideThink
    OBVIOUS
  <2> DEFINE t == sent \o queue
  <2>1. sent \in Seq(Chunk) /\ queue \in Seq(Chunk) /\ Len(sent) \in Nat
    BY LenProperties DEF TypeOK
  <2>2. t \in Seq(Chunk) /\ Len(sent) <= Len(t) /\ \A i \in 1 .. Len(sent) : t[i] = sent[i]
    BY <2>1, ConcatProperties, LenProperties
  <2>3. Placed(t) /\ (InThink(t, Len(t) + 1) <=> thinkingOpen)
    BY DEF PlaceInv, Text
  <2> HIDE DEF t
  <2>4. \A i \in 1 .. (Len(sent) + 1) : InThink(t, i) <=> InThink(sent, i)
    BY <2>1, <2>2, SameBefore
  <2>5. ASSUME NEW i \in DOMAIN sent
        PROVE  (sent[i] = "c" => ~InThink(sent, i)) /\ (sent[i] = "r" => InThink(sent, i))
    <3>1. i \in 1 .. Len(sent) /\ i \in 1 .. Len(t)
      BY <2>1, <2>2, LenProperties
    <3> QED
      BY <2>1, <2>2, <2>3, <2>4, <3>1 DEF Placed
  <2>6. ASSUME result \in {"ok", "deadline", "canceled", "error"}
        PROVE  ~InThink(sent, Len(sent) + 1)
    <3>1. queue = <<>> /\ ~thinkingOpen
      BY <2>6 DEF TypeOK, PlaceInv
    <3>2. t = sent
      BY <2>1, <3>1, ConcatEmptySeq DEF t
    <3> QED
      BY <2>3, <3>1, <3>2
  <2> QED
    BY <2>5, <2>6 DEF AnswerOutsideThink
<1> QED
  BY <1>1, InitTyped, NextTyped, PlaceInit, PlaceStep, PTL DEF Spec
=============================================================================
