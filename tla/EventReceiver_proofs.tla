------------------------ MODULE EventReceiver_proofs ------------------------
(* The promises of EventReceiver for every set of events, plans and         *)
(* handlers, and any number of pushes, failures and crashes.                *)
EXTENDS EventReceiver, TLAPS

-----------------------------------------------------------------------------
(* Type correctness *)

LEMMA InitTyped == Init => TypeOK
BY BoundAssumption DEF Init, TypeOK

\* One step at a time: the handlers, the goroutines, Cross and the crash.
LEMMA HandleTyped ==
  ASSUME TypeOK, NEW c \in Calls, Handle(c) \/ \E e \in Events : Push(c, e)
  PROVE  TypeOK'
<1>0. ev[c] \in Events
  BY DEF TypeOK
<1>1. ASSUME NEW e \in Events, Push(c, e) PROVE TypeOK'
  BY <1>1 DEF Push, TypeOK, goVars
<1>2. CASE Check(c)
  BY <1>0, <1>2 DEF Check, TypeOK, crossVars, goVars
<1>3. CASE CheckFails(c)
  BY <1>0, <1>3 DEF CheckFails, TypeOK, crossVars, goVars
<1>4. CASE Record(c)
  BY <1>0, <1>4 DEF Record, TypeOK, crossVars
<1>5. CASE RecordFails(c)
  <2>1. CASE UNCHANGED <<received, unsure>>
    BY <1>0, <1>5, <2>1 DEF RecordFails, TypeOK, crossVars, goVars
  <2>2. CASE received' = [received EXCEPT ![ev[c]] = @ + 1] /\ unsure' = unsure \cup {ev[c]}
    BY <1>0, <1>5, <2>2 DEF RecordFails, TypeOK, crossVars, goVars
  <2> QED
    BY <1>5, <2>1, <2>2 DEF RecordFails
<1>6. CASE Reply(c)
  BY <1>0, <1>6 DEF Reply, TypeOK, goVars
<1> QED
  BY <1>1, <1>2, <1>3, <1>4, <1>5, <1>6 DEF Handle

LEMMA GoTyped ==
  ASSUME TypeOK, NEW e \in Events, Go(e)
  PROVE  TypeOK'
<1>1. CASE Dispatch(e)
  <2>1. PICK S \in SUBSET Plans :
          triggers' = [triggers EXCEPT ![e] = [p \in Plans |-> IF p \in S THEN @[p] + 1 ELSE @[p]]]
    BY <1>1 DEF Dispatch
  <2>2. [p \in Plans |-> IF p \in S THEN triggers[e][p] + 1 ELSE triggers[e][p]] \in [Plans -> Nat]
    BY DEF TypeOK
  <2>3. triggers' \in [Events -> [Plans -> Nat]]
    BY <2>1, <2>2 DEF TypeOK
  <2>4. matching' \in [Events -> Nat]
    BY <1>1 DEF Dispatch, TypeOK
  <2> QED
    BY <1>1, <2>3, <2>4 DEF Dispatch, TypeOK, crossVars, callVars
<1>2. CASE DispatchFails(e)
  BY <1>2 DEF DispatchFails, TypeOK, crossVars, callVars
<1>3. ASSUME NEW p \in Plans, Trigger(e, p) PROVE TypeOK'
  BY <1>3 DEF Trigger, TypeOK, crossVars, callVars
<1> QED
  BY <1>1, <1>2, <1>3 DEF Go

LEMMA NextTyped == TypeOK /\ [Next]_vars => TypeOK'
<1> SUFFICES ASSUME TypeOK, [Next]_vars PROVE TypeOK'
  OBVIOUS
<1>1. CASE Crash
  BY <1>1 DEF Crash, TypeOK, crossVars
<1>2. CASE UNCHANGED vars
  BY <1>2 DEF vars, TypeOK, crossVars, callVars, goVars
<1> QED
  BY <1>1, <1>2, HandleTyped, GoTyped DEF Next

\* Every variable keeps its type, whatever Cross pushes.
THEOREM TypeCorrect == Spec => []TypeOK
<1> QED
  BY InitTyped, NextTyped, PTL DEF Spec

-----------------------------------------------------------------------------
(* What Cross is told *)

\* AckedIsRecorded with the answers still on their way to Cross: NotifyEvent
\* is about to acknowledge only what it has found or written.
AckInv ==
  /\ AckedIsRecorded
  /\ \A c \in Calls : at[c] = "reply" => received[ev[c]] > 0

\* No step takes a record away.
RecordsStay == \A e \in Events : received'[e] >= received[e]

LEMMA NextKeepsRecords == TypeOK /\ [Next]_vars => RecordsStay
<1> SUFFICES ASSUME TypeOK, [Next]_vars PROVE RecordsStay
  OBVIOUS
<1>1. ASSUME NEW c \in Calls, Record(c) \/ RecordFails(c) PROVE RecordsStay
  <2>1. received' = [received EXCEPT ![ev[c]] = @ + 1] \/ UNCHANGED received
    BY <1>1 DEF Record, RecordFails
  <2> QED
    BY <2>1 DEF RecordsStay, TypeOK
<1>2. CASE UNCHANGED received
  BY <1>2 DEF RecordsStay, TypeOK
<1> QED
  BY <1>1, <1>2 DEF Next, Handle, Go, Push, Check, CheckFails, Reply, Dispatch, DispatchFails,
     Trigger, Crash, vars

LEMMA AckStep == TypeOK /\ AckInv /\ [Next]_vars => AckInv'
<1> SUFFICES ASSUME TypeOK, AckInv, [Next]_vars PROVE AckInv'
  OBVIOUS
<1> USE DEF AckInv, AckedIsRecorded
<1>0. RecordsStay /\ TypeOK'
  BY NextKeepsRecords, NextTyped
<1>1. ASSUME NEW c \in Calls, NEW e \in Events, Push(c, e) PROVE AckInv'
  BY <1>1 DEF Push, TypeOK
<1>2. ASSUME NEW c \in Calls, Check(c) PROVE AckInv'
  BY <1>2 DEF Check, TypeOK, crossVars
<1>3. ASSUME NEW c \in Calls, CheckFails(c) PROVE AckInv'
  BY <1>3 DEF CheckFails, TypeOK, crossVars
<1>4. ASSUME NEW c \in Calls, Record(c) PROVE AckInv'
  <2>1. received'[ev[c]] > 0
    BY <1>4 DEF Record, TypeOK
  <2> QED
    BY <1>0, <1>4, <2>1 DEF Record, TypeOK, crossVars, RecordsStay
<1>5. ASSUME NEW c \in Calls, RecordFails(c) PROVE AckInv'
  BY <1>0, <1>5 DEF RecordFails, TypeOK, crossVars, RecordsStay
<1>6. ASSUME NEW c \in Calls, Reply(c) PROVE AckInv'
  BY <1>6 DEF Reply, TypeOK
<1>7. CASE Crash
  BY <1>7 DEF Crash, TypeOK, crossVars
<1>8. CASE (\E e \in Events : Go(e)) \/ UNCHANGED vars
  BY <1>8 DEF Go, Dispatch, DispatchFails, Trigger, vars, crossVars, callVars
<1> QED
  BY <1>1, <1>2, <1>3, <1>4, <1>5, <1>6, <1>7, <1>8 DEF Next, Handle

\* Whatever fails or crashes, Cross is never told that an event arrived of
\* which the store has no row (NotifyEvent).
THEOREM NothingIsDropped == Spec => []AckedIsRecorded
<1>1. Init => AckInv
  BY DEF Init, AckInv, AckedIsRecorded
<1>2. AckInv => AckedIsRecorded
  BY DEF AckInv
<1> QED
  BY <1>1, <1>2, AckStep, TypeCorrect, PTL DEF Spec

-----------------------------------------------------------------------------
(* Dispatches *)

\* Work on plan p for event e: matches awaited, triggers and IntakeRun calls.
Load(e, p) == matching[e] + triggers[e][p] + runs[e][p]

LEMMA CoverStep == TypeOK /\ RunsCoveredByRecords /\ [Next]_vars => RunsCoveredByRecords'
<1> SUFFICES ASSUME TypeOK, RunsCoveredByRecords, [Next]_vars,
                    NEW e \in Events, NEW p \in Plans
             PROVE  Load(e, p)' <= received'[e]
  BY DEF RunsCoveredByRecords, Load
<1>0. /\ Load(e, p) <= received[e]
      /\ matching[e] \in Nat /\ triggers[e][p] \in Nat /\ runs[e][p] \in Nat /\ received[e] \in Nat
  BY DEF RunsCoveredByRecords, Load, TypeOK
<1>1. ASSUME NEW c \in Calls, Record(c) PROVE Load(e, p)' <= received'[e]
  BY <1>0, <1>1 DEF Record, Load, TypeOK
<1>2. ASSUME NEW c \in Calls, RecordFails(c) PROVE Load(e, p)' <= received'[e]
  <2>1. UNCHANGED goVars
    BY <1>2 DEF RecordFails
  <2>2. received'[e] \in Nat /\ received'[e] >= received[e]
    BY NextKeepsRecords, NextTyped DEF RecordsStay, TypeOK
  <2> QED
    BY <1>0, <2>1, <2>2 DEF Load, goVars
<1>3. ASSUME NEW d \in Events, Dispatch(d) PROVE Load(e, p)' <= received'[e]
  <2>1. triggers'[e][p] <= triggers[e][p] + (IF d = e THEN 1 ELSE 0)
    BY <1>0, <1>3 DEF Dispatch, TypeOK
  <2>2. matching'[e] = matching[e] - (IF d = e THEN 1 ELSE 0)
    BY <1>0, <1>3 DEF Dispatch, TypeOK
  <2>3. triggers'[e][p] \in Nat /\ UNCHANGED <<received, runs>>
    BY <1>3, NextTyped DEF Dispatch, TypeOK
  <2> QED
    BY <1>0, <2>1, <2>2, <2>3 DEF Load
<1>4. ASSUME NEW d \in Events, DispatchFails(d) PROVE Load(e, p)' <= received'[e]
  BY <1>0, <1>4 DEF DispatchFails, Load, TypeOK
<1>5. ASSUME NEW d \in Events, NEW q \in Plans, Trigger(d, q) PROVE Load(e, p)' <= received'[e]
  <2>1. CASE d = e /\ q = p
    BY <1>0, <1>5, <2>1 DEF Trigger, Load, TypeOK
  <2>2. CASE d # e \/ q # p
    BY <1>0, <1>5, <2>2 DEF Trigger, Load, TypeOK
  <2> QED
    BY <2>1, <2>2
<1>6. CASE Crash
  BY <1>0, <1>6 DEF Crash, Load
<1>7. CASE UNCHANGED <<received, matching, triggers, runs>>
  BY <1>0, <1>7 DEF Load
<1> QED
  BY <1>1, <1>2, <1>3, <1>4, <1>5, <1>6, <1>7
  DEF Next, Handle, Go, Push, Check, CheckFails, Reply, vars, crossVars, callVars, goVars

\* For every number of pushes, handlers and crashes, a plan is started at most
\* once per row of the event (NotifyEvent starts one Dispatch per row, Dispatch
\* one goroutine per plan).
THEOREM DispatchesAreCovered == Spec => []RunsCoveredByRecords
<1>1. Init => RunsCoveredByRecords
  BY DEF Init, RunsCoveredByRecords
<1> QED
  BY <1>1, CoverStep, TypeCorrect, PTL DEF Spec

-----------------------------------------------------------------------------
(* Rows *)

\* A handler about to write a named event nobody has raced on: it saw no row,
\* there is none yet, and it is the only one about to write that event.
Alone(c) == received[ev[c]] = 0 /\ ~Overlapped(c)

OnceInv ==
  /\ RecordedOnce
  /\ \A c \in Calls : at[c] = "create" /\ ev[c] \notin Unnamed \cup raced => Alone(c)

LEMMA OnceStep == TypeOK /\ OnceInv /\ [Next]_vars => OnceInv'
<1> SUFFICES ASSUME TypeOK, OnceInv, [Next]_vars PROVE OnceInv'
  OBVIOUS
<1> USE DEF OnceInv, RecordedOnce, Alone, Overlapped
<1>1. ASSUME NEW c \in Calls, NEW e \in Events, Push(c, e) PROVE OnceInv'
  BY <1>1 DEF Push, TypeOK
<1>2. ASSUME NEW c \in Calls, Check(c) PROVE OnceInv'
  BY <1>2 DEF Check, TypeOK, crossVars
<1>3. ASSUME NEW c \in Calls, CheckFails(c) PROVE OnceInv'
  BY <1>3 DEF CheckFails, TypeOK, crossVars
<1>4. ASSUME NEW c \in Calls, Record(c) PROVE OnceInv'
  BY <1>4 DEF Record, TypeOK, crossVars
<1>5. ASSUME NEW c \in Calls, RecordFails(c) PROVE OnceInv'
  <2>0. /\ ev[c] \in Events /\ at[c] = "create"
        /\ at' = [at EXCEPT ![c] = "idle"] /\ UNCHANGED <<ev, raced>>
    BY <1>5 DEF RecordFails, TypeOK
  <2>1. CASE UNCHANGED received
    BY <2>0, <2>1 DEF TypeOK
  <2>2. CASE received' = [received EXCEPT ![ev[c]] = @ + 1]
    BY <2>0, <2>2 DEF TypeOK
  <2> QED
    BY <1>5, <2>1, <2>2 DEF RecordFails
<1>6. ASSUME NEW c \in Calls, Reply(c) PROVE OnceInv'
  BY <1>6 DEF Reply, TypeOK
<1>7. CASE Crash
  BY <1>7 DEF Crash, TypeOK, crossVars
<1>8. CASE (\E e \in Events : Go(e)) \/ UNCHANGED vars
  BY <1>8 DEF Go, Dispatch, DispatchFails, Trigger, vars, crossVars, callVars
<1> QED
  BY <1>1, <1>2, <1>3, <1>4, <1>5, <1>6, <1>7, <1>8 DEF Next, Handle

\* For every number of handlers and pushes, only an event without an id, or
\* one whose duplicate check ran beside another push or could not read the
\* store, is ever recorded twice (NotifyEvent).
THEOREM NoDuplicateRows == Spec => []RecordedOnce
<1>1. Init => OnceInv
  BY DEF Init, OnceInv, RecordedOnce
<1>2. OnceInv => RecordedOnce
  BY DEF OnceInv
<1> QED
  BY <1>1, <1>2, OnceStep, TypeCorrect, PTL DEF Spec

-----------------------------------------------------------------------------
(* What became of a row *)

\* AckedIsMatched follows from what is true of every row, acknowledged or not.
RowIsMatched ==
  \A e \in Events : received[e] > 0 =>
    matching[e] > 0 \/ e \in matched \cup dropped \cup unsure

LEMMA MatchStep == TypeOK /\ RowIsMatched /\ [Next]_vars => RowIsMatched'
<1> SUFFICES ASSUME TypeOK, RowIsMatched, [Next]_vars PROVE RowIsMatched'
  OBVIOUS
<1> USE DEF RowIsMatched
<1>1. ASSUME NEW c \in Calls, Record(c) PROVE RowIsMatched'
  BY <1>1 DEF Record, TypeOK
<1>2. ASSUME NEW c \in Calls, RecordFails(c) PROVE RowIsMatched'
  BY <1>2 DEF RecordFails, TypeOK, goVars
<1>3. ASSUME NEW e \in Events, Go(e) PROVE RowIsMatched'
  BY <1>3 DEF Go, Dispatch, DispatchFails, Trigger, TypeOK
<1>4. CASE Crash
  BY <1>4 DEF Crash, TypeOK
<1>5. CASE UNCHANGED <<received, matching, matched, dropped, unsure>>
  BY <1>5
<1> QED
  BY <1>1, <1>2, <1>3, <1>4, <1>5
  DEF Next, Handle, Push, Check, CheckFails, Reply, vars, goVars

\* Whatever the number of pushes, handlers and crashes, an acknowledged event
\* was or will be matched with the work plans, unless MatchWorkPlans failed for
\* it, a crash cut its match short, or its row comes from a write reported as
\* failed (NotifyEvent, Dispatch).
THEOREM AckedIsDispatched == Spec => []AckedIsMatched
<1>1. Init => RowIsMatched
  BY DEF Init, RowIsMatched
<1>2. AckedIsRecorded /\ RowIsMatched => AckedIsMatched
  BY DEF AckedIsRecorded, RowIsMatched, AckedIsMatched
<1> QED
  BY <1>1, <1>2, MatchStep, NothingIsDropped, TypeCorrect, PTL DEF Spec
=============================================================================
