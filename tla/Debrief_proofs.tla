--------------------------- MODULE Debrief_proofs ---------------------------
(* The marks of Debrief for any number of writes to any files.              *)
EXTENDS Debrief, TLAPS

Marks == {0} \cup Writes
Text == [Writes -> Marks]

LEMMA WritesAreNumbers == Writes = 1 .. Len(File) /\ Len(File) \in Nat
BY FileAssumption DEF Writes

\* Marking an empty debrief leaves it empty.
LEMMA MarkEmpty == \A k \in Writes : Mark(<<>>, k) = <<>>
<1> SUFFICES ASSUME NEW k \in Writes PROVE Mark(<<>>, k) = <<>>
  OBVIOUS
<1>1. DOMAIN <<>> = {}
  OBVIOUS
<1>2. Mark(<<>>, k) = [i \in {} |-> IF File[i] = File[k] /\ <<>>[i] = 0 THEN k ELSE <<>>[i]]
  BY <1>1 DEF Mark
<1>3. [i \in {} |-> IF File[i] = File[k] /\ <<>>[i] = 0 THEN k ELSE <<>>[i]] = <<>>
  OBVIOUS
<1> QED
  BY <1>2, <1>3

\* Marking keeps the lines, and the mark of every line that has one; the
\* line of the write itself has one afterwards.
LEMMA MarkFull ==
  ASSUME NEW text \in Text, NEW k \in Writes
  PROVE  /\ Mark(text, k) \in Text
         /\ \A i \in Writes : /\ text[i] # 0 => Mark(text, k)[i] = text[i]
                              /\ Mark(text, k)[i] # text[i] => File[i] = File[k] /\ Mark(text, k)[i] = k
         /\ Mark(text, k)[k] # 0
BY WritesAreNumbers DEF Mark, Text, Marks

-----------------------------------------------------------------------------
(* Type correctness *)

\* TypeOK, and a handler about to update has read a debrief.
TypeInv ==
  /\ TypeOK
  /\ \A k \in Writes : at[k] = "update" => seen[k] \in Text

LEMMA InitTyped == Init => TypeInv
<1> SUFFICES ASSUME Init PROVE TypeInv
  OBVIOUS
<1>1. published \in 0 .. Len(File) /\ faults \in Nat /\ crashes \in Nat
  BY WritesAreNumbers DEF Init
<1>2. seen \in [Writes -> {<<>>} \cup [Writes -> {0} \cup Writes]]
  BY DEF Init
<1> QED
  BY <1>1, <1>2 DEF Init, TypeInv, TypeOK

LEMMA NextTyped == TypeInv /\ [Next]_vars => TypeInv'
<1> SUFFICES ASSUME TypeInv, [Next]_vars PROVE TypeInv'
  OBVIOUS
<1> USE WritesAreNumbers DEF TypeInv, TypeOK, Text, Marks
<1>1. CASE PublishWrite
  BY <1>1 DEF PublishWrite
<1>2. CASE WriteRunDebrief
  BY <1>2 DEF WriteRunDebrief
<1>3. CASE WriteRunDebriefFails
  BY <1>3 DEF WriteRunDebriefFails
<1>4. CASE Crash
  BY <1>4 DEF Crash
<1>5. ASSUME NEW k \in Writes, FileWritten(k) PROVE TypeInv'
  BY <1>5 DEF FileWritten
<1>6. ASSUME NEW k \in Writes, ReadDebrief(k) PROVE TypeInv'
  <2>1. debrief = <<>> => Mark(debrief, k) = debrief
    BY MarkEmpty
  <2> QED
    BY <1>6, <2>1 DEF ReadDebrief
<1>7. ASSUME NEW k \in Writes, UpdateDebrief(k) PROVE TypeInv'
  <2>1. seen[k] \in Text /\ debrief' = Mark(seen[k], k)
    BY <1>7 DEF UpdateDebrief
  <2>2. debrief' \in Text
    BY <2>1, MarkFull
  <2> QED
    BY <1>7, <2>2 DEF UpdateDebrief
<1>8. ASSUME NEW k \in Writes, HandlerFails(k) PROVE TypeInv'
  BY <1>8 DEF HandlerFails
<1>9. CASE UNCHANGED vars
  BY <1>9 DEF vars
<1> QED
  BY <1>1, <1>2, <1>3, <1>4, <1>5, <1>6, <1>7, <1>8, <1>9 DEF Next

\* Every variable keeps its type.
THEOREM TypeCorrect == Spec => []TypeOK
<1>1. TypeInv => TypeOK
  BY DEF TypeInv
<1> QED
  BY <1>1, InitTyped, NextTyped, PTL DEF Spec

LEMMA Typed == Spec => []TypeInv
BY InitTyped, NextTyped, PTL DEF Spec

-----------------------------------------------------------------------------
(* No line borrows a commit *)

\* A text whose marks are commits of the right file.
True(text) ==
  \A i \in DOMAIN text : text[i] # 0 => File[text[i]] = File[i] /\ text[i] \in confirmed

\* The debrief is true, and so is every old copy a handler still holds; a
\* handler exists for what Git has confirmed.
TrueInv ==
  /\ True(debrief)
  /\ \A k \in Writes : True(seen[k])
  /\ \A k \in Writes : at[k] # "none" => k \in confirmed

LEMMA TrueStep == TypeInv /\ TrueInv /\ [Next]_vars => TrueInv'
<1> SUFFICES ASSUME TypeInv, TrueInv, [Next]_vars PROVE TrueInv'
  OBVIOUS
<1> USE DEF TypeInv, TypeOK, TrueInv, True
<1>1. CASE PublishWrite
  BY <1>1 DEF PublishWrite
<1>2. CASE WriteRunDebrief
  BY <1>2 DEF WriteRunDebrief
<1>3. CASE WriteRunDebriefFails
  BY <1>3 DEF WriteRunDebriefFails
<1>4. CASE Crash
  BY <1>4 DEF Crash
<1>5. ASSUME NEW k \in Writes, FileWritten(k) PROVE TrueInv'
  BY <1>5 DEF FileWritten
<1>6. ASSUME NEW k \in Writes, ReadDebrief(k) PROVE TrueInv'
  BY <1>6 DEF ReadDebrief
<1>7. ASSUME NEW k \in Writes, UpdateDebrief(k) PROVE TrueInv'
  <2>1. seen[k] \in Text /\ debrief' = Mark(seen[k], k) /\ k \in confirmed
    BY <1>7 DEF UpdateDebrief
  <2>2. True(debrief')
    BY <2>1, MarkFull DEF Text
  <2> QED
    BY <1>7, <2>2 DEF UpdateDebrief
<1>8. ASSUME NEW k \in Writes, HandlerFails(k) PROVE TrueInv'
  BY <1>8 DEF HandlerFails
<1>9. CASE UNCHANGED vars
  BY <1>9 DEF vars
<1> QED
  BY <1>1, <1>2, <1>3, <1>4, <1>5, <1>6, <1>7, <1>8, <1>9 DEF Next

\* Whatever handlers overlap, fail or die, and however old the copy is that
\* one writes back, no line of the debrief names a commit of another file, or
\* one Git has not confirmed (handleFileWritten).
THEOREM NoBorrowedCommit == Spec => []CommittedIsTrue
<1>1. Init => TrueInv
  BY DEF Init, TrueInv, True
<1>2. TrueInv => CommittedIsTrue
  BY DEF TrueInv, True, CommittedIsTrue
<1> QED
  BY <1>1, <1>2, TrueStep, Typed, PTL DEF Spec

-----------------------------------------------------------------------------
(* No confirmation is lost *)

Undisturbed == early = {} /\ overlapped = {} /\ faults = 0 /\ crashes = 0

\* While nothing has gone wrong, at most one handler is between its read and
\* its write, what it read is the debrief, and those that have returned left
\* their line marked.
MarkedInv ==
  /\ Undisturbed =>
       /\ debrief # <<>> => closed
       /\ \A k \in Writes :
            /\ at[k] = "update" => /\ debrief # <<>> /\ seen[k] = debrief
                                   /\ \A j \in Writes \ {k} : at[j] # "update"
            /\ at[k] = "end" => debrief # <<>> /\ debrief[k] # 0
  /\ \A k \in Writes : at[k] = "none" => k \notin confirmed

LEMMA DebriefIsText == TypeInv /\ debrief # <<>> => debrief \in Text
BY DEF TypeInv, TypeOK, Text, Marks

LEMMA MarkedStep == TypeInv /\ MarkedInv /\ [Next]_vars => MarkedInv'
<1> SUFFICES ASSUME TypeInv, MarkedInv, [Next]_vars PROVE MarkedInv'
  OBVIOUS
<1> USE DEF TypeInv, TypeOK, MarkedInv, Undisturbed
<1>1. CASE PublishWrite
  BY <1>1 DEF PublishWrite
<1>2. CASE WriteRunDebrief
  BY <1>2 DEF WriteRunDebrief
<1>3. CASE WriteRunDebriefFails
  BY <1>3 DEF WriteRunDebriefFails
<1>4. CASE Crash
  BY <1>4 DEF Crash
<1>5. ASSUME NEW k \in Writes, FileWritten(k) PROVE MarkedInv'
  BY <1>5 DEF FileWritten
<1>6. ASSUME NEW k \in Writes, ReadDebrief(k) PROVE MarkedInv'
  <2>1. ASSUME Undisturbed' PROVE Undisturbed /\ debrief # <<>> /\ \A j \in Writes \ {k} : at[j] # "update"
    BY <1>6, <2>1 DEF ReadDebrief
  <2>2. ASSUME Undisturbed', at'[k] = "end" PROVE debrief[k] # 0
    <3>1. debrief \in Text /\ Mark(debrief, k) = debrief
      BY <1>6, <2>1, <2>2, DebriefIsText DEF ReadDebrief
    <3> QED
      BY <3>1, MarkFull
  <2> QED
    BY <1>6, <2>1, <2>2 DEF ReadDebrief
<1>7. ASSUME NEW k \in Writes, UpdateDebrief(k) PROVE MarkedInv'
  <2>1. ASSUME Undisturbed' PROVE /\ Undisturbed /\ debrief \in Text
                                  /\ debrief' = Mark(debrief, k)
                                  /\ \A j \in Writes \ {k} : at[j] # "update"
    BY <1>7, <2>1, DebriefIsText DEF UpdateDebrief
  <2>2. ASSUME Undisturbed' PROVE /\ debrief' # <<>> /\ debrief'[k] # 0
                                  /\ \A j \in Writes : debrief[j] # 0 => debrief'[j] # 0
    <3>1. debrief' \in Text /\ Writes # {}
      BY <2>1, <2>2, MarkFull
    <3>2. debrief' # <<>>
      BY <3>1, WritesAreNumbers DEF Text
    <3> QED
      BY <2>1, <2>2, <3>2, MarkFull
  <2> QED
    BY <1>7, <2>1, <2>2 DEF UpdateDebrief
<1>8. ASSUME NEW k \in Writes, HandlerFails(k) PROVE MarkedInv'
  BY <1>8 DEF HandlerFails
<1>9. CASE UNCHANGED vars
  BY <1>9 DEF vars
<1> QED
  BY <1>1, <1>2, <1>3, <1>4, <1>5, <1>6, <1>7, <1>8, <1>9 DEF Next

\* For any number of writes to any files: once everything has run, the line
\* of every confirmed write is marked, unless a confirmation came before the
\* debrief, two handlers overlapped, the store failed or the process died
\* (handleFileWritten).
THEOREM NoConfirmationLost == Spec => []ConfirmedIsMarked
<1>1. Init => MarkedInv
  BY DEF Init, MarkedInv, Undisturbed
<1>2. TypeInv /\ MarkedInv => ConfirmedIsMarked
  BY DEF TypeInv, TypeOK, MarkedInv, Undisturbed, ConfirmedIsMarked, Settled
<1> QED
  BY <1>1, <1>2, MarkedStep, Typed, PTL DEF Spec
=============================================================================
