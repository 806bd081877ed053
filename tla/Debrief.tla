------------------------------- MODULE Debrief -------------------------------
(***************************************************************************)
(* The debrief of one AgentRun.  dispatchActions publishes the run's       *)
(* git.file.write actions one by one and only then stores the debrief, a   *)
(* text with one line per action, all marked [dispatched].  CodeValdGit    *)
(* (external) commits each write and confirms it with git.file.written;    *)
(* every confirmation is handled by a goroutine of its own, which reads    *)
(* the whole debrief, replaces the lines of its file and writes the whole  *)
(* debrief back (handleFileWritten).                                       *)
(***************************************************************************)
EXTENDS Naturals, Sequences

CONSTANTS
  Paths, Branches,
  File,         \* the file (path and branch) of each write, a sequence
  MaxFaults,    \* bound: failed store operations
  MaxCrashes    \* bound: process crashes

ASSUME FileAssumption == File \in Seq(Paths \X Branches)
ASSUME BoundAssumption == MaxFaults \in Nat /\ MaxCrashes \in Nat

Writes == DOMAIN File

VARIABLES
  published,    \* writes published so far: 1 .. published
  closed,       \* dispatchActions is past writeRunDebrief
  debrief,      \* per write its mark: 0 for [dispatched], k for the commit of
                \* write k; <<>> while the property is empty
  confirmed,    \* Git: writes committed and confirmed
  at,           \* the handler of a confirmation: "none", "start", "update", "end"
  seen,         \* the debrief it read
  faults, crashes,
  \* history, read by properties only
  early,        \* handlers that found no debrief
  overlapped    \* handlers that read while another was about to write

vars == <<published, closed, debrief, confirmed, at, seen, faults, crashes, early, overlapped>>

-----------------------------------------------------------------------------
(* Faulty variants of definitions below; no behaviour uses them. *)

\* The branch is not compared.
MarkByPath(text, k) ==
  [i \in DOMAIN text |-> IF File[i][1] = File[k][1] /\ text[i] = 0 THEN k ELSE text[i]]

\* One action too many is published.
PublishWriteTwice ==
  /\ ~closed /\ published <= Len(File)
  /\ published' = published + 1
  /\ UNCHANGED <<closed, debrief, confirmed, at, seen, faults, crashes, early, overlapped>>

\* A debrief with any committed line is taken to be up to date.
ReadGivesUp(k) ==
  /\ at[k] = "start"
  /\ at' = [at EXCEPT ![k] = IF \E i \in DOMAIN debrief : debrief[i] # 0 THEN "end" ELSE "update"]
  /\ seen' = [seen EXCEPT ![k] = debrief]
  /\ early' = IF debrief = <<>> THEN early \cup {k} ELSE early
  /\ overlapped' = IF \E j \in Writes \ {k} : at[j] = "update" THEN overlapped \cup {k} ELSE overlapped
  /\ UNCHANGED <<published, closed, debrief, confirmed, faults, crashes>>

-----------------------------------------------------------------------------
\* strings.ReplaceAll of the [dispatched] lines of k's file.
Mark(text, k) ==
  [i \in DOMAIN text |-> IF File[i] = File[k] /\ text[i] = 0 THEN k ELSE text[i]]

Init ==
  /\ published = 0 /\ closed = FALSE /\ debrief = <<>>
  /\ confirmed = {}
  /\ at = [k \in Writes |-> "none"]
  /\ seen = [k \in Writes |-> <<>>]
  /\ faults = 0 /\ crashes = 0
  /\ early = {} /\ overlapped = {}

\* dispatchActions hands the next git.file.write to Cross.
PublishWrite ==
  /\ ~closed /\ published < Len(File)
  /\ published' = published + 1
  /\ UNCHANGED <<closed, debrief, confirmed, at, seen, faults, crashes, early, overlapped>>

\* writeRunDebrief: every action is listed as [dispatched].
WriteRunDebrief ==
  /\ ~closed /\ published = Len(File)
  /\ closed' = TRUE
  /\ debrief' = [k \in Writes |-> 0]
  /\ UNCHANGED <<published, confirmed, at, seen, faults, crashes, early, overlapped>>

\* Its update fails: logged, and the run has no debrief.
WriteRunDebriefFails ==
  /\ ~closed /\ published = Len(File) /\ faults < MaxFaults
  /\ faults' = faults + 1
  /\ closed' = TRUE
  /\ UNCHANGED <<published, debrief, confirmed, at, seen, crashes, early, overlapped>>

\* Git commits a write; its git.file.written is received and recorded, and the
\* goroutine started.
FileWritten(k) ==
  /\ k <= published /\ k \notin confirmed
  /\ confirmed' = confirmed \cup {k}
  /\ at' = [at EXCEPT ![k] = "start"]
  /\ UNCHANGED <<published, closed, debrief, seen, faults, crashes, early, overlapped>>

\* GetEntity; an empty debrief, or one without a [dispatched] line of the
\* file, ends the handler.
ReadDebrief(k) ==
  /\ at[k] = "start"
  /\ at' = [at EXCEPT ![k] = IF Mark(debrief, k) = debrief THEN "end" ELSE "update"]
  /\ seen' = [seen EXCEPT ![k] = debrief]
  /\ early' = IF debrief = <<>> THEN early \cup {k} ELSE early
  /\ overlapped' = IF \E j \in Writes \ {k} : at[j] = "update" THEN overlapped \cup {k} ELSE overlapped
  /\ UNCHANGED <<published, closed, debrief, confirmed, faults, crashes>>

\* The text it read, with its file's lines replaced, becomes the debrief.
UpdateDebrief(k) ==
  /\ at[k] = "update"
  /\ debrief' = Mark(seen[k], k)
  /\ at' = [at EXCEPT ![k] = "end"]
  /\ UNCHANGED <<published, closed, confirmed, seen, faults, crashes, early, overlapped>>

\* A failed read or update is logged and the confirmation forgotten.
HandlerFails(k) ==
  /\ at[k] \in {"start", "update"} /\ faults < MaxFaults
  /\ faults' = faults + 1
  /\ at' = [at EXCEPT ![k] = "end"]
  /\ UNCHANGED <<published, closed, debrief, confirmed, seen, crashes, early, overlapped>>

\* The process dies: executor and handlers are gone, the confirmations they
\* had acknowledged are not delivered again.
Crash ==
  /\ crashes < MaxCrashes
  /\ crashes' = crashes + 1
  /\ closed' = TRUE
  /\ at' = [k \in Writes |-> IF at[k] = "none" THEN "none" ELSE "end"]
  /\ UNCHANGED <<published, debrief, confirmed, seen, faults, early, overlapped>>

Next ==
  \/ PublishWrite \/ WriteRunDebrief \/ WriteRunDebriefFails \/ Crash
  \/ \E k \in Writes : FileWritten(k) \/ ReadDebrief(k) \/ UpdateDebrief(k) \/ HandlerFails(k)

Spec == Init /\ [][Next]_vars

-----------------------------------------------------------------------------
(* Properties *)

TypeOK ==
  /\ published \in 0 .. Len(File) /\ closed \in BOOLEAN
  /\ debrief \in {<<>>} \cup [Writes -> {0} \cup Writes]
  /\ confirmed \subseteq Writes
  /\ at \in [Writes -> {"none", "start", "update", "end"}]
  /\ seen \in [Writes -> {<<>>} \cup [Writes -> {0} \cup Writes]]
  /\ faults \in Nat /\ crashes \in Nat
  /\ early \subseteq Writes /\ overlapped \subseteq Writes

\* A line that says [committed: sha] names a commit of its own file: whatever
\* the order of confirmations and stale writes, no line borrows the commit of
\* another path or branch.
CommittedIsTrue ==
  \A i \in DOMAIN debrief : debrief[i] # 0 =>
    File[debrief[i]] = File[i] /\ debrief[i] \in confirmed

Settled == closed /\ \A k \in Writes : at[k] \in {"none", "end"}

\* When everything has run, the confirmed lines are the committed ones, unless
\* a confirmation came before the debrief, two handlers overlapped, the store
\* failed or the process died.
ConfirmedIsMarked ==
  Settled /\ early = {} /\ overlapped = {} /\ faults = 0 /\ crashes = 0 =>
    \A k \in confirmed : debrief[k] # 0

=============================================================================
