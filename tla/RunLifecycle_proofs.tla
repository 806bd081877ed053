------------------------ MODULE RunLifecycle_proofs ------------------------
(* Invariants of RunLifecycle for every pool of runs, number of actors and *)
(* session limit; what CodeValdWork is told about a run; the shape of a    *)
(* chain of runs where no RPC executes them; and that dispatched tasks get  *)
(* what SessionChain promises where no rollback meets them either.         *)
EXTENDS RunLifecycle, RunPromise, TLAPS

-----------------------------------------------------------------------------
(* Type correctness *)

\* The AgentRun entities.
RunsOK ==
  /\ status \in [Runs -> Status \cup {"none"}]
  /\ task \in [Runs -> BOOLEAN]
  /\ chain \in [Runs -> Chains \cup {NoChain}]
  /\ seg \in [Runs -> Nat]
  /\ linked \in [Runs -> BOOLEAN]
  /\ from \in [Runs -> Runs \cup {NoRun}]

\* The executors.  One in the middle of a call has a run, and between creating
\* the successor and linking it, a successor (run and successorEntity of
\* ExecuteRunStreaming and yieldRun).
ExecOK ==
  /\ pc \in [Procs -> Labels]
  /\ job \in [Procs -> Runs \cup {NoRun}]
  /\ myChain \in [Procs -> Chains \cup {NoChain}]
  /\ mySeg \in [Procs -> Nat]
  /\ next \in [Procs -> Runs \cup {NoRun}]
  /\ gone \subseteq Handlers
  /\ shared \subseteq Runs
  /\ \A p \in Procs :
       /\ pc[p] \notin {"idle", "done"} => job[p] \in Runs
       /\ pc[p] \in {"linkAgent", "linkFrom"} => next[p] \in Runs

RollbacksOK ==
  /\ rbPc \in [Coords -> {"idle", "loop"}]
  /\ rbSnap \in [Coords -> [Runs -> Status \cup {"none"}]]
  /\ rbCur \in [Coords -> Runs \cup {NoRun}]
  /\ rbOut \in [Coords -> [Runs -> {"none", "cancelled", "rolled_back", "skipped"}]]

BootOK ==
  /\ phase \in {"up", "down", "sweep"}
  /\ sweepTodo \subseteq Runs
  /\ crashes \in Nat

HistoryOK == events \subseteq AllEvents /\ lost \subseteq Runs

TypeInv == RunsOK /\ ExecOK /\ RollbacksOK /\ BootOK /\ faults \in Nat /\ HistoryOK

LEMMA InitTyped == Init => TypeInv
BY LimitAssumption DEF Init, TypeInv, RunsOK, ExecOK, RollbacksOK, BootOK, HistoryOK, Status, Labels

LEMMA TypeInvMeaning == TypeInv => TypeOK
BY DEF TypeInv, RunsOK, ExecOK, RollbacksOK, BootOK, HistoryOK, TypeOK

\* The names the actions use are names TypeOK knows.
LEMMA LabelNames ==
  /\ {"intake", "begin", "inputs", "resolve", "started", "llm", "complete", "dispatch",
      "blockless", "announce", "announceSplit", "fail", "announceFail"} \subseteq Labels
  /\ {"idle", "done", "chain", "yield", "announceYield", "successor", "linkAgent", "linkFrom",
      "decomposed", "announceDecomposed"} \subseteq Labels
BY DEF Labels

LEMMA StatusNames ==
  {"pending_intake", "pending_execution", "running", "completed", "failed", "yielded",
   "cancelled", "rolled_back"} \subseteq Status
BY DEF Status, Frozen

LEMMA EventTyped ==
  ASSUME NEW t \in {"task.started", "task.completed", "task.failed", "task.yielded",
                    "run.completed", "run.failed", "run.cancelled", "run.rolled-back",
                    "todo.created"},
         NEW r \in Runs, NEW b \in Procs \cup Coords \cup {"boot"}, NEW s \in BOOLEAN
  PROVE  Event(t, r, b, s) \in AllEvents
BY DEF Event, AllEvents, Topics

LEMMA HasJob ==
  ASSUME ExecOK, NEW p \in Procs, pc[p] \notin {"idle", "done"}
  PROVE  job[p] \in Runs
BY DEF ExecOK

\* The ways the variables of an executor change.
LEMMA ReturnTyped ==
  ASSUME ExecOK, NEW p \in Procs, Return(p)
  PROVE  ExecOK'
BY LabelNames DEF ExecOK, Return

LEMMA GotoTyped ==
  ASSUME ExecOK, NEW p \in Procs, pc[p] \notin {"idle", "done"},
         NEW l \in Labels \ {"linkAgent", "linkFrom"}, Goto(p, l), UNCHANGED Locals
  PROVE  ExecOK'
BY DEF ExecOK, Goto, Locals

LEMMA AdmitTyped ==
  ASSUME RunsOK, ExecOK, NEW p \in Procs, NEW r \in Runs, Admit(p, r)
  PROVE  ExecOK'
BY ReturnTyped, LabelNames DEF RunsOK, ExecOK, Admit, Goto

\* The ways the entities change.
LEMMA SetStatusTyped ==
  ASSUME RunsOK, NEW r, NEW s \in Status, SetStatus(r, s), UNCHANGED Fields
  PROVE  RunsOK'
BY DEF RunsOK, SetStatus, Fields

LEMMA FaultTyped ==
  ASSUME faults \in Nat, NEW p, StoreFails(p) \/ UNCHANGED faults
  PROVE  faults' \in Nat
BY DEF StoreFails

LEMMA ClosingWriteTyped ==
  ASSUME TypeInv, NEW p \in Procs, pc[p] \notin {"idle", "done"}, NEW s \in Status,
         WriteIgnoringError(p, s), UNCHANGED <<Fields, events>>
  PROVE  RunsOK' /\ faults' \in Nat /\ HistoryOK'
<1>1. job[p] \in Runs
  BY HasJob DEF TypeInv
<1>2. CASE SetStatus(job[p], s) /\ UNCHANGED <<faults, lost>>
  BY <1>2, SetStatusTyped DEF TypeInv, HistoryOK
<1>3. CASE StoreFails(p) /\ lost' = lost \cup {job[p]} /\ UNCHANGED status
  BY <1>1, <1>3, FaultTyped DEF TypeInv, HistoryOK, RunsOK, Fields
<1> QED
  BY <1>2, <1>3 DEF WriteIgnoringError

LEMMA ReturningWriteTyped ==
  ASSUME TypeInv, NEW p \in Procs, pc[p] \notin {"idle", "done"}, NEW s \in Status,
         NEW l \in Labels \ {"linkAgent", "linkFrom"},
         WriteOrReturn(p, s, l), UNCHANGED <<Fields, events>>
  PROVE  RunsOK' /\ ExecOK' /\ faults' \in Nat /\ HistoryOK'
<1>1. job[p] \in Runs
  BY HasJob DEF TypeInv
<1>2. CASE SetStatus(job[p], s) /\ Goto(p, l) /\ UNCHANGED <<Locals, faults, lost>>
  BY <1>2, SetStatusTyped, GotoTyped DEF TypeInv, HistoryOK
<1>3. CASE StoreFails(p) /\ Return(p) /\ lost' = lost \cup {job[p]} /\ UNCHANGED status
  BY <1>1, <1>3, FaultTyped, ReturnTyped DEF TypeInv, HistoryOK, RunsOK, Fields
<1>4. CASE StoreFails(p) /\ Return(p) /\ SetStatus(job[p], s) /\ UNCHANGED lost
  BY <1>4, FaultTyped, ReturnTyped, SetStatusTyped DEF TypeInv, HistoryOK
<1> QED
  BY <1>2, <1>3, <1>4 DEF WriteOrReturn

\* New entities and chains take unused ids of the pools.
LEMMA FreshIds ==
  /\ \A r \in FreshRun : r \in Runs /\ status[r] = "none"
  /\ \A c \in FreshChain : c \in Chains
BY DEF FreshRun, FreshChain

LEMMA Frames ==
  /\ RunsOK /\ UNCHANGED runVars => RunsOK'
  /\ ExecOK /\ UNCHANGED execVars => ExecOK'
  /\ RollbacksOK /\ UNCHANGED rbVars => RollbacksOK'
  /\ BootOK /\ UNCHANGED bootVars => BootOK'
  /\ HistoryOK /\ UNCHANGED <<events, lost>> => HistoryOK'
BY DEF RunsOK, ExecOK, RollbacksOK, BootOK, HistoryOK, runVars, execVars, rbVars, bootVars

\* One step of an executor.
LEMMA ExecutorTyped ==
  ASSUME TypeInv, NEW p \in Procs, Call(p) \/ Executor(p) \/ ClientGone(p)
  PROVE  TypeInv'
<1> USE DEF TypeInv
<1>1. CASE IntakeRun(p)
  <2>1. RunsOK'
    BY <1>1, FreshIds, StatusNames DEF IntakeRun, RunsOK, SetStatus
  <2>2. ExecOK'
    BY <1>1, FreshIds, LabelNames DEF IntakeRun, ExecOK, Goto
  <2> QED
    BY <1>1, <2>1, <2>2, Frames DEF IntakeRun, Others
<1>2. CASE IntakeRejected(p)
  BY <1>2, ReturnTyped, Frames DEF IntakeRejected, Others
<1>3. CASE LinkIntake(p)
  <2>1. RunsOK'
    BY <1>3 DEF LinkIntake, RunsOK
  <2>2. ExecOK'
    BY <1>3, ReturnTyped, GotoTyped, LabelNames DEF LinkIntake
  <2>3. faults' \in Nat
    BY <1>3, FaultTyped DEF LinkIntake
  <2> QED
    BY <1>3, <2>1, <2>2, <2>3, Frames DEF LinkIntake, Others
<1>4. CASE BeginExecute(p)
  <2>1. ExecOK'
    BY <1>4, HasJob, AdmitTyped DEF BeginExecute
  <2> QED
    BY <1>4, <2>1, Frames DEF BeginExecute, Others
<1>5. CASE CallExecuteRun(p)
  <2>1. ExecOK'
    BY <1>5, AdmitTyped DEF CallExecuteRun
  <2> QED
    BY <1>5, <2>1, Frames DEF CallExecuteRun, Others
<1>6. CASE StoreInputs(p)
  <2>1. RunsOK' /\ ExecOK'
    BY <1>6, SetStatusTyped, GotoTyped, StatusNames, LabelNames DEF StoreInputs
  <2> QED
    BY <1>6, <2>1, Frames DEF StoreInputs, Others
<1>7. CASE StartRunning(p)
  <2>1. RunsOK' /\ ExecOK'
    BY <1>7, SetStatusTyped, GotoTyped, StatusNames, LabelNames DEF StartRunning
  <2> QED
    BY <1>7, <2>1, Frames DEF StartRunning, Others
<1>8. CASE AgentMissing(p)
  BY <1>8, ReturnTyped, Frames DEF AgentMissing, Others
<1>9. CASE SetupFails(p)
  <2>1. ExecOK' /\ faults' \in Nat /\ job[p] \in Runs
    BY <1>9, HasJob, ReturnTyped, FaultTyped DEF SetupFails
  <2>2. RunsOK'
    BY <1>9, SetStatusTyped, StatusNames, Frames DEF SetupFails, Fields, runVars
  <2>3. HistoryOK'
    BY <1>9, <2>1 DEF SetupFails, HistoryOK
  <2> QED
    BY <1>9, <2>1, <2>2, <2>3, Frames DEF SetupFails, Others
<1>10. CASE AnnounceStarted(p)
  <2>1. ExecOK' /\ job[p] \in Runs
    BY <1>10, HasJob, GotoTyped, LabelNames DEF AnnounceStarted
  <2>2. HistoryOK'
    BY <1>10, <2>1, EventTyped DEF AnnounceStarted, Publish, HistoryOK
  <2> QED
    BY <1>10, <2>1, <2>2, Frames DEF AnnounceStarted, Others
<1>11. CASE LLMReturns(p)
  <2>1. \E l \in Labels \ {"linkAgent", "linkFrom"} : Goto(p, l)
    BY <1>11, LabelNames DEF LLMReturns
  <2>2. ExecOK'
    BY <1>11, <2>1, GotoTyped DEF LLMReturns
  <2> QED
    BY <1>11, <2>2, Frames DEF LLMReturns, Others
<1>12. CASE WriteCompleted(p)
  <2>1. RunsOK' /\ ExecOK' /\ faults' \in Nat /\ HistoryOK'
    BY <1>12, ReturningWriteTyped, StatusNames, LabelNames DEF WriteCompleted
  <2> QED
    BY <1>12, <2>1, Frames DEF WriteCompleted, Others
<1>13. CASE DispatchActions(p)
  <2>1. job[p] \in Runs
    BY <1>13, HasJob DEF DispatchActions
  <2>2. ExecOK'
    BY <1>13, GotoTyped, LabelNames DEF DispatchActions
  <2>3. HistoryOK'
    BY <1>13, <2>1, EventTyped DEF DispatchActions, Publish, HistoryOK
  <2> QED
    BY <1>13, <2>2, <2>3, Frames DEF DispatchActions, Others
<1>14. CASE AnnounceCompleted(p)
  <2>1. job[p] \in Runs
    BY <1>14, HasJob DEF AnnounceCompleted
  <2>2. HistoryOK'
    BY <1>14, <2>1, EventTyped DEF AnnounceCompleted, Publish, HistoryOK
  <2> QED
    BY <1>14, <2>2, ReturnTyped, Frames DEF AnnounceCompleted, Others
<1>15. CASE WriteFailed(p)
  <2>1. RunsOK' /\ faults' \in Nat /\ HistoryOK'
    BY <1>15, ClosingWriteTyped, StatusNames DEF WriteFailed
  <2>2. ExecOK'
    BY <1>15, GotoTyped, LabelNames DEF WriteFailed
  <2> QED
    BY <1>15, <2>1, <2>2, Frames DEF WriteFailed, Others
<1>16. CASE AnnounceFailed(p)
  <2>1. job[p] \in Runs
    BY <1>16, HasJob DEF AnnounceFailed
  <2>2. HistoryOK'
    BY <1>16, <2>1, EventTyped DEF AnnounceFailed, Publish, HistoryOK
  <2> QED
    BY <1>16, <2>2, ReturnTyped, Frames DEF AnnounceFailed, Others
<1>17. CASE WriteDecomposed(p)
  <2>1. RunsOK' /\ ExecOK' /\ faults' \in Nat /\ HistoryOK'
    BY <1>17, ReturningWriteTyped, StatusNames, LabelNames DEF WriteDecomposed
  <2> QED
    BY <1>17, <2>1, Frames DEF WriteDecomposed, Others
<1>18. CASE AnnounceDecomposed(p)
  <2>1. job[p] \in Runs
    BY <1>18, HasJob DEF AnnounceDecomposed
  <2>2. HistoryOK'
    BY <1>18, <2>1, EventTyped DEF AnnounceDecomposed, Publish, HistoryOK
  <2> QED
    BY <1>18, <2>2, ReturnTyped, Frames DEF AnnounceDecomposed, Others
<1>19. CASE BackfillChain(p)
  <2>1. RunsOK'
    BY <1>19, FreshIds DEF BackfillChain, RunsOK
  <2>2. ExecOK'
    BY <1>19, FreshIds, LabelNames DEF BackfillChain, ExecOK, Goto
  <2>3. faults' \in Nat
    BY <1>19, FaultTyped DEF BackfillChain
  <2> QED
    BY <1>19, <2>1, <2>2, <2>3, Frames DEF BackfillChain, Others
<1>20. CASE WriteYielded(p)
  <2>1. RunsOK' /\ faults' \in Nat /\ HistoryOK'
    BY <1>20, ClosingWriteTyped, StatusNames DEF WriteYielded
  <2>2. ExecOK'
    BY <1>20, GotoTyped, LabelNames DEF WriteYielded
  <2> QED
    BY <1>20, <2>1, <2>2, Frames DEF WriteYielded, Others
<1>21. CASE AnnounceYielded(p)
  <2>1. ExecOK' /\ job[p] \in Runs
    BY <1>21, HasJob, GotoTyped, LabelNames DEF AnnounceYielded
  <2>2. HistoryOK'
    BY <1>21, <2>1, EventTyped DEF AnnounceYielded, Publish, HistoryOK
  <2> QED
    BY <1>21, <2>1, <2>2, Frames DEF AnnounceYielded, Others
<1>22. CASE CreateSuccessor(p)
  <2>1. job[p] \in Runs
    BY <1>22, HasJob DEF CreateSuccessor
  <2>2. PICK r \in Runs :
          /\ SetStatus(r, "pending_execution")
          /\ task' = [task EXCEPT ![r] = task[job[p]]]
          /\ chain' = [chain EXCEPT ![r] = myChain[p]]
          /\ seg' = [seg EXCEPT ![r] = mySeg[p] + 1]
          /\ next' = [next EXCEPT ![p] = r]
    BY <1>22, FreshIds DEF CreateSuccessor
  <2>3. myChain[p] \in Chains \cup {NoChain} /\ mySeg[p] + 1 \in Nat
    BY DEF ExecOK
  <2>4. RunsOK'
    BY <1>22, <2>1, <2>2, <2>3, StatusNames DEF CreateSuccessor, RunsOK, SetStatus
  <2>5. ExecOK'
    BY <1>22, <2>2, LabelNames DEF CreateSuccessor, ExecOK, Goto
  <2> QED
    BY <1>22, <2>4, <2>5, Frames DEF CreateSuccessor, Others
<1>23. CASE LinkSuccessorAgent(p)
  <2>1. RunsOK'
    BY <1>23 DEF LinkSuccessorAgent, RunsOK
  <2>2. ExecOK'
    BY <1>23, LabelNames DEF LinkSuccessorAgent, ExecOK, Goto, Locals
  <2> QED
    BY <1>23, <2>1, <2>2, Frames DEF LinkSuccessorAgent, Others
<1>24. CASE SuccessorFails(p)
  <2>1. RunsOK'
    BY <1>24 DEF SuccessorFails, RunsOK
  <2> QED
    BY <1>24, <2>1, ReturnTyped, FaultTyped, Frames DEF SuccessorFails, Others
<1>25. CASE LinkContinuesFrom(p)
  <2>1. RunsOK'
    BY <1>25 DEF LinkContinuesFrom, RunsOK, ExecOK
  <2>2. ExecOK'
    BY <1>25, LabelNames DEF LinkContinuesFrom, ExecOK, Goto
  <2>3. faults' \in Nat
    BY <1>25, FaultTyped DEF LinkContinuesFrom
  <2> QED
    BY <1>25, <2>1, <2>2, <2>3, Frames DEF LinkContinuesFrom, Others
<1>26. CASE ClientGone(p)
  <2>1. ExecOK'
    BY <1>26 DEF ClientGone, ExecOK
  <2> QED
    BY <1>26, <2>1, Frames DEF ClientGone
<1> HIDE DEF TypeInv
<1> QED
  BY <1>1, <1>2, <1>3, <1>4, <1>5, <1>6, <1>7, <1>8, <1>9, <1>10, <1>11, <1>12, <1>13,
     <1>14, <1>15, <1>16, <1>17, <1>18, <1>19, <1>20, <1>21, <1>22, <1>23, <1>24, <1>25, <1>26
  DEF Call, Executor, Setup, Execute, Yield

\* One step of a rollback.
LEMMA RollbackTyped ==
  ASSUME TypeInv, NEW c \in Coords, ListRunsForRollback(c) \/ RollbackStep(c)
  PROVE  TypeInv'
<1> USE DEF TypeInv
<1>1. CASE ListRunsForRollback(c)
  <2>1. RollbacksOK'
    BY <1>1 DEF ListRunsForRollback, RollbacksOK, RunsOK
  <2> QED
    BY <1>1, <2>1, Frames DEF ListRunsForRollback
<1>2. CASE RollbackSkip(c)
  <2>1. RollbacksOK'
    BY <1>2 DEF RollbackSkip, RollbackTodo, RollbacksOK
  <2> QED
    BY <1>2, <2>1, Frames DEF RollbackSkip
<1>3. CASE RollbackPatch(c)
  <2>1. PICK r \in Runs :
          /\ SetStatus(r, RollbackTarget(rbSnap[c][r]))
          /\ rbOut' = [rbOut EXCEPT ![c][r] = RollbackTarget(rbSnap[c][r])]
          /\ rbCur' = [rbCur EXCEPT ![c] = r]
    BY <1>3 DEF RollbackPatch, RollbackTodo
  <2>2. RollbackTarget(rbSnap[c][r]) \in {"cancelled", "rolled_back"}
    BY DEF RollbackTarget
  <2>3. RunsOK'
    BY <1>3, <2>1, <2>2, SetStatusTyped, StatusNames DEF RollbackPatch
  <2>4. RollbacksOK'
    BY <1>3, <2>1, <2>2 DEF RollbackPatch, RollbacksOK
  <2> QED
    BY <1>3, <2>3, <2>4, Frames DEF RollbackPatch
<1>4. CASE RollbackAnnounce(c)
  <2>1. rbCur[c] \in Runs
    BY <1>4 DEF RollbackAnnounce, RollbacksOK
  <2>2. RollbackTopic(rbOut[c][rbCur[c]]) \in {"run.cancelled", "run.rolled-back"}
    BY DEF RollbackTopic
  <2>3. HistoryOK'
    BY <1>4, <2>1, <2>2, EventTyped DEF RollbackAnnounce, Publish, HistoryOK
  <2>4. RollbacksOK'
    BY <1>4 DEF RollbackAnnounce, RollbacksOK
  <2> QED
    BY <1>4, <2>3, <2>4, Frames DEF RollbackAnnounce
<1>5. CASE RollbackFails(c)
  <2>1. RollbacksOK'
    BY <1>5 DEF RollbackFails, RollbackEnds, RollbacksOK
  <2>2. \A s : RollbackTarget(s) \in {"cancelled", "rolled_back"}
    BY DEF RollbackTarget
  <2>3. RunsOK'
    BY <1>5, <2>2, SetStatusTyped, StatusNames, Frames DEF RollbackFails, Fields, runVars
  <2> QED
    BY <1>5, <2>1, <2>3, Frames DEF RollbackFails
<1>6. CASE RollbackReturns(c)
  <2>1. RollbacksOK'
    BY <1>6 DEF RollbackReturns, RollbackEnds, RollbacksOK
  <2> QED
    BY <1>6, <2>1, Frames DEF RollbackReturns
<1> HIDE DEF TypeInv
<1> QED
  BY <1>1, <1>2, <1>3, <1>4, <1>5, <1>6 DEF RollbackStep

\* One step of the process or of the boot sweep.
LEMMA ProcessTyped ==
  ASSUME TypeInv, Crash \/ Reboot
  PROVE  TypeInv'
<1> USE DEF TypeInv
<1>1. CASE Crash
  <2>1. ExecOK'
    BY <1>1, LabelNames DEF Crash, ExecOK
  <2>2. RollbacksOK'
    BY <1>1 DEF Crash, RollbacksOK
  <2>3. BootOK'
    BY <1>1 DEF Crash, BootOK
  <2> QED
    BY <1>1, <2>1, <2>2, <2>3, Frames DEF Crash
<1>2. CASE Boot
  BY <1>2, Frames DEF Boot, BootOK, HistoryOK, bootVars
<1>3. CASE SweepRun
  <2>1. PICK r \in sweepTodo :
          /\ sweepTodo' = sweepTodo \ {r}
          /\ \/ /\ SetStatus(r, "failed")
                /\ Publish({Event("run.failed", r, "boot", FALSE)})
                /\ UNCHANGED <<faults, lost>>
             \/ /\ faults < MaxFaults /\ faults' = faults + 1
                /\ \/ lost' = lost \cup {r} /\ UNCHANGED status
                   \/ SetStatus(r, "failed") /\ UNCHANGED lost
                /\ UNCHANGED events
    BY <1>3 DEF SweepRun
  <2>2. RunsOK'
    BY <1>3, <2>1, SetStatusTyped, StatusNames, Frames DEF SweepRun, Fields, runVars
  <2>3. r \in Runs
    BY <2>1 DEF BootOK
  <2>4. Event("run.failed", r, "boot", FALSE) \in AllEvents
    BY <2>3, EventTyped
  <2>5. HistoryOK' /\ faults' \in Nat
    <3>1. events' \subseteq AllEvents
      BY <2>1, <2>4 DEF Publish, HistoryOK
    <3>2. lost' \subseteq Runs /\ faults' \in Nat
      BY <2>1, <2>3 DEF HistoryOK
    <3> QED
      BY <3>1, <3>2 DEF HistoryOK
  <2>6. BootOK'
    BY <1>3, <2>1 DEF SweepRun, BootOK
  <2> QED
    BY <1>3, <2>2, <2>5, <2>6, Frames DEF SweepRun
<1>4. CASE Serve
  <2>1. BootOK'
    BY <1>4 DEF Serve, BootOK
  <2> QED
    BY <1>4, <2>1, Frames DEF Serve
<1> HIDE DEF TypeInv
<1> QED
  BY <1>1, <1>2, <1>3, <1>4 DEF Reboot

LEMMA NextTyped == TypeInv /\ [Next]_vars => TypeInv'
<1>1. TypeInv /\ UNCHANGED vars => TypeInv'
  BY Frames DEF TypeInv, vars
<1> QED
  BY <1>1, ExecutorTyped, RollbackTyped, ProcessTyped DEF Next

LEMMA Typed == Spec => []TypeInv
BY InitTyped, NextTyped, PTL DEF Spec

\* The store, the executors, the rollbacks and the sweep keep every variable in
\* its type in every behaviour.
THEOREM TypeCorrect == Spec => []TypeOK
BY Typed, TypeInvMeaning, PTL

-----------------------------------------------------------------------------
(* No run is forgotten in running *)

\* What a step of executor p may do without orphaning a run: it leaves the
\* other executors alone, and a run that is in running afterwards is p's own,
\* one it did not hold before, or one whose closing write failed.
Tidy(p) ==
  /\ UNCHANGED bootVars /\ lost \subseteq lost'
  /\ \A q \in Procs \ {p} : pc'[q] = pc[q] /\ job'[q] = job[q]
  /\ \A r \in Runs : status'[r] = "running" =>
       \/ status[r] = "running" /\ ~(pc[p] \in Working /\ job[p] = r)
       \/ pc'[p] \in Working /\ job'[p] = r
       \/ r \in lost'

LEMMA TidyKeeps ==
  ASSUME NoOrphanRunning, NEW p \in Procs, Tidy(p)
  PROVE  NoOrphanRunning'
BY DEF NoOrphanRunning, Tidy, bootVars

\* Moving on or returning touches only the mover.
LEMMA OnlyMover ==
  ASSUME TypeInv, NEW p \in Procs,
         \/ Return(p)
         \/ \E l \in Labels : Goto(p, l) /\ (UNCHANGED job \/ \E r \in Runs : job' = [job EXCEPT ![p] = r])
  PROVE  \A q \in Procs \ {p} : pc'[q] = pc[q] /\ job'[q] = job[q]
BY DEF TypeInv, ExecOK, Return, Goto

\* The closing writes leave the run's row out of running, or the run in lost.
LEMMA ClosingWrite ==
  ASSUME TypeInv, NEW p \in Procs, NEW s \in Status \ {"running"},
         \/ WriteIgnoringError(p, s)
         \/ \E l : WriteOrReturn(p, s, l)
  PROVE  /\ lost \subseteq lost'
         /\ \A r \in Runs : status'[r] = "running" =>
              (status[r] = "running" /\ job[p] # r) \/ r \in lost'
BY DEF TypeInv, RunsOK, WriteIgnoringError, WriteOrReturn, SetStatus

LEMMA ExecutorTidy ==
  ASSUME TypeInv, NEW p \in Procs, Call(p) \/ Executor(p) \/ ClientGone(p)
  PROVE  Tidy(p)
<1> USE DEF Tidy, Working, Others
<1>1. CASE IntakeRun(p)
  BY <1>1, OnlyMover, FreshIds, LabelNames DEF IntakeRun, SetStatus, TypeInv, RunsOK
<1>2. CASE IntakeRejected(p) \/ AgentMissing(p) \/ SuccessorFails(p)
  BY <1>2, OnlyMover DEF IntakeRejected, AgentMissing, SuccessorFails, runVars
<1>17. CASE SetupFails(p)
  BY <1>17, OnlyMover DEF SetupFails, SetStatus, TypeInv, RunsOK
<1>3. CASE LinkIntake(p)
  BY <1>3, OnlyMover, LabelNames DEF LinkIntake, Locals
<1>4. CASE BeginExecute(p)
  BY <1>4, OnlyMover, LabelNames, HasJob DEF BeginExecute, Admit, runVars, TypeInv
<1>5. CASE CallExecuteRun(p)
  BY <1>5, OnlyMover, LabelNames DEF CallExecuteRun, Admit, runVars
<1>6. CASE StoreInputs(p)
  BY <1>6, OnlyMover, LabelNames DEF StoreInputs, SetStatus, Locals, TypeInv, RunsOK
<1>7. CASE StartRunning(p)
  BY <1>7, OnlyMover, LabelNames DEF StartRunning, SetStatus, Locals, Goto, TypeInv, RunsOK, ExecOK
<1>8. CASE AnnounceStarted(p) \/ LLMReturns(p) \/ DispatchActions(p) \/ AnnounceYielded(p)
  BY <1>8, OnlyMover, LabelNames DEF AnnounceStarted, LLMReturns, DispatchActions,
     AnnounceYielded, Goto, Locals, runVars, TypeInv, ExecOK
<1>9. CASE AnnounceCompleted(p) \/ AnnounceFailed(p) \/ AnnounceDecomposed(p)
  BY <1>9, OnlyMover DEF AnnounceCompleted, AnnounceFailed, AnnounceDecomposed, runVars
<1>10. CASE WriteCompleted(p) \/ WriteDecomposed(p)
  <2>1. PICK l \in {"dispatch", "announceDecomposed"} : WriteOrReturn(p, "completed", l)
    BY <1>10 DEF WriteCompleted, WriteDecomposed
  <2>2. \A q \in Procs \ {p} : pc'[q] = pc[q] /\ job'[q] = job[q]
    BY <2>1, OnlyMover, LabelNames DEF WriteOrReturn, Locals
  <2>3. /\ lost \subseteq lost'
        /\ \A r \in Runs : status'[r] = "running" =>
             (status[r] = "running" /\ job[p] # r) \/ r \in lost'
    BY <2>1, ClosingWrite, StatusNames
  <2>4. UNCHANGED bootVars
    BY <1>10 DEF WriteCompleted, WriteDecomposed
  <2> QED
    BY <2>2, <2>3, <2>4
<1>11. CASE WriteFailed(p) \/ WriteYielded(p)
  BY <1>11, OnlyMover, ClosingWrite, StatusNames, LabelNames DEF WriteFailed, WriteYielded, Locals
<1>12. CASE BackfillChain(p)
  BY <1>12, OnlyMover, LabelNames DEF BackfillChain, Goto, TypeInv, ExecOK
<1>13. CASE CreateSuccessor(p)
  BY <1>13, OnlyMover, LabelNames DEF CreateSuccessor, SetStatus, TypeInv, RunsOK
<1>14. CASE LinkSuccessorAgent(p)
  BY <1>14, OnlyMover, LabelNames DEF LinkSuccessorAgent, Locals
<1>15. CASE LinkContinuesFrom(p)
  BY <1>15, OnlyMover, LabelNames DEF LinkContinuesFrom, TypeInv, ExecOK
<1>16. CASE ClientGone(p)
  BY <1>16 DEF ClientGone, runVars
<1> HIDE DEF Tidy
<1> QED
  BY <1>1, <1>2, <1>3, <1>4, <1>5, <1>6, <1>7, <1>8, <1>9, <1>10, <1>11, <1>12, <1>13,
     <1>14, <1>15, <1>16, <1>17 DEF Call, Executor, Setup, Execute, Yield

LEMMA NoOrphanStep == TypeInv /\ NoOrphanRunning /\ [Next]_vars => NoOrphanRunning'
<1> SUFFICES ASSUME TypeInv, NoOrphanRunning, [Next]_vars PROVE NoOrphanRunning'
  OBVIOUS
<1>1. ASSUME NEW p \in Procs, Call(p) \/ Executor(p) \/ ClientGone(p) PROVE NoOrphanRunning'
  BY <1>1, ExecutorTidy, TidyKeeps
<1>2. ASSUME NEW c \in Coords, ListRunsForRollback(c) \/ RollbackStep(c) PROVE NoOrphanRunning'
  <2>1. UNCHANGED <<pc, job, phase, sweepTodo, lost>>
    BY <1>2 DEF ListRunsForRollback, RollbackStep, RollbackSkip, RollbackPatch, RollbackAnnounce,
       RollbackFails, RollbackReturns, execVars, bootVars
  <2>2. \A r \in Runs : status'[r] = "running" => status[r] = "running"
    BY <1>2 DEF ListRunsForRollback, RollbackStep, RollbackSkip, RollbackPatch, RollbackAnnounce,
       RollbackFails, RollbackReturns, RollbackTarget, SetStatus, runVars, TypeInv, RunsOK
  <2> QED
    BY <2>1, <2>2 DEF NoOrphanRunning
<1>3. CASE Crash
  BY <1>3 DEF Crash, NoOrphanRunning
<1>4. CASE Boot
  BY <1>4 DEF Boot, NoOrphanRunning, runVars, execVars
<1>5. CASE SweepRun
  BY <1>5 DEF SweepRun, SetStatus, NoOrphanRunning, execVars, TypeInv, RunsOK
<1>6. CASE Serve
  BY <1>6 DEF Serve, NoOrphanRunning, runVars, execVars
<1>7. CASE UNCHANGED vars
  BY <1>7 DEF vars, runVars, execVars, bootVars, NoOrphanRunning
<1> QED
  BY <1>1, <1>2, <1>3, <1>4, <1>5, <1>6, <1>7 DEF Next, Reboot

\* Whatever executors, rollbacks, store failures and crashes do, a run in
\* running has an executor at work, is on the list of the boot sweep, or is one
\* whose closing write the store refused, or whose start it reported as failed.
THEOREM NoRunForgotten == Spec => []NoOrphanRunning
<1>1. Init => NoOrphanRunning
  BY DEF Init, NoOrphanRunning
<1> QED
  BY <1>1, Typed, NoOrphanStep, PTL DEF Spec

-----------------------------------------------------------------------------
(* No chain grows beyond max_sessions *)

\* SegmentBound is inductive once it also bounds the segment number executors
\* carry, and says that one on its way to a successor has a session left: the
\* comparison is made before the yield and used after four store operations.
SegmentInv ==
  /\ SegmentBound
  /\ \A p \in Procs :
       /\ mySeg[p] <= MaxSessions
       /\ pc[p] \in {"chain", "yield", "announceYield", "successor"} =>
            MaxSessions > 1 /\ mySeg[p] < MaxSessions

\* Most steps carry segment numbers along.
LEMMA SegmentFrame ==
  ASSUME TypeInv, SegmentInv, NEW p \in Procs,
         seg' = seg,
         \A q \in Procs \ {p} : pc'[q] = pc[q] /\ mySeg'[q] = mySeg[q],
         mySeg'[p] <= MaxSessions,
         pc'[p] \in {"chain", "yield", "announceYield", "successor"} =>
           MaxSessions > 1 /\ mySeg'[p] < MaxSessions
  PROVE  SegmentInv'
BY DEF SegmentInv, SegmentBound

\* A return, or a move to a label that is not on the way to a successor.
LEMMA SegmentMove ==
  ASSUME TypeInv, SegmentInv, NEW p \in Procs, seg' = seg,
         \/ Return(p)
         \/ /\ UNCHANGED mySeg
            /\ \E l \in Labels : /\ Goto(p, l)
                                 /\ \/ l \notin {"chain", "yield", "announceYield", "successor"}
                                    \/ MaxSessions > 1 /\ mySeg[p] < MaxSessions
  PROVE  SegmentInv'
<1>1. /\ \A q \in Procs \ {p} : pc'[q] = pc[q] /\ mySeg'[q] = mySeg[q]
      /\ mySeg'[p] <= MaxSessions
      /\ pc'[p] \in {"chain", "yield", "announceYield", "successor"} =>
           MaxSessions > 1 /\ mySeg'[p] < MaxSessions
  BY LimitAssumption DEF TypeInv, ExecOK, SegmentInv, Return, Goto
<1> QED
  BY <1>1, SegmentFrame

LEMMA SegmentExecutor ==
  ASSUME TypeInv, SegmentInv, NEW p \in Procs, Call(p) \/ Executor(p) \/ ClientGone(p)
  PROVE  SegmentInv'
<1>1. CASE IntakeRun(p)
  BY <1>1, LimitAssumption DEF IntakeRun, Goto, SegmentInv, SegmentBound, TypeInv, RunsOK, ExecOK
<1>2. CASE \/ IntakeRejected(p) \/ LinkIntake(p) \/ StoreInputs(p) \/ StartRunning(p)
           \/ AgentMissing(p) \/ SetupFails(p) \/ SuccessorFails(p)
  BY <1>2, SegmentMove, LabelNames DEF IntakeRejected, LinkIntake, StoreInputs, StartRunning,
     AgentMissing, SetupFails, SuccessorFails, Locals, Fields, runVars
<1>3. CASE BeginExecute(p) \/ CallExecuteRun(p)
  <2>1. PICK r \in Runs : Admit(p, r)
    BY <1>3, HasJob DEF BeginExecute, CallExecuteRun, TypeInv
  <2>2. seg' = seg
    BY <1>3 DEF BeginExecute, CallExecuteRun, runVars
  <2>3. CASE Return(p)
    BY <2>2, <2>3, SegmentMove
  <2>4. CASE /\ \E l \in {"inputs", "resolve"} : Goto(p, l)
             /\ mySeg' = [mySeg EXCEPT ![p] = seg[r]]
    <3>1. seg[r] <= MaxSessions
      BY DEF SegmentInv, SegmentBound
    <3>2. pc'[p] \in {"inputs", "resolve"} /\ mySeg'[p] = seg[r]
      BY <2>4 DEF Goto, TypeInv, ExecOK
    <3>3. \A q \in Procs \ {p} : pc'[q] = pc[q] /\ mySeg'[q] = mySeg[q]
      BY <2>4 DEF Goto, TypeInv, ExecOK
    <3> QED
      BY <2>2, <3>1, <3>2, <3>3, SegmentFrame
  <2> QED
    BY <2>1, <2>3, <2>4 DEF Admit
<1>4. CASE \/ AnnounceStarted(p) \/ WriteCompleted(p) \/ DispatchActions(p) \/ AnnounceCompleted(p)
           \/ WriteFailed(p) \/ AnnounceFailed(p) \/ WriteDecomposed(p) \/ AnnounceDecomposed(p)
  BY <1>4, SegmentMove, LabelNames DEF AnnounceStarted, WriteCompleted, DispatchActions,
     AnnounceCompleted, WriteFailed, AnnounceFailed, WriteDecomposed, AnnounceDecomposed,
     WriteOrReturn, Locals, Fields, runVars
<1>5. CASE LLMReturns(p)
  BY <1>5, SegmentMove, LabelNames DEF LLMReturns, Locals, runVars
<1>6. CASE BackfillChain(p)
  <2>1. seg' = seg \/ seg' = [seg EXCEPT ![job[p]] = 1]
    BY <1>6 DEF BackfillChain
  <2>2. SegmentBound'
    BY <2>1, LimitAssumption DEF SegmentInv, SegmentBound, TypeInv, RunsOK
  <2> QED
    BY <1>6, <2>2, LimitAssumption DEF BackfillChain, Goto, SegmentInv, TypeInv, ExecOK
<1>7. CASE WriteYielded(p) \/ AnnounceYielded(p)
  <2>1. MaxSessions > 1 /\ mySeg[p] < MaxSessions
    BY <1>7 DEF WriteYielded, AnnounceYielded, SegmentInv
  <2> QED
    BY <1>7, <2>1, SegmentMove, LabelNames DEF WriteYielded, AnnounceYielded, Locals, Fields, runVars
<1>8. CASE CreateSuccessor(p)
  <2>1. mySeg[p] + 1 <= MaxSessions
    BY <1>8, LimitAssumption DEF CreateSuccessor, SegmentInv, TypeInv, ExecOK
  <2> QED
    BY <1>8, <2>1 DEF CreateSuccessor, Goto, SegmentInv, SegmentBound, TypeInv, RunsOK, ExecOK
<1>9. CASE LinkSuccessorAgent(p) \/ LinkContinuesFrom(p)
  BY <1>9, SegmentMove, LabelNames DEF LinkSuccessorAgent, LinkContinuesFrom, Locals
<1>10. CASE ClientGone(p)
  BY <1>10 DEF ClientGone, SegmentInv, SegmentBound, runVars
<1> QED
  BY <1>1, <1>2, <1>3, <1>4, <1>5, <1>6, <1>7, <1>8, <1>9, <1>10
  DEF Call, Executor, Setup, Execute, Yield

LEMMA SegmentStep == TypeInv /\ SegmentInv /\ [Next]_vars => SegmentInv'
<1> SUFFICES ASSUME TypeInv, SegmentInv, [Next]_vars PROVE SegmentInv'
  OBVIOUS
<1>1. CASE UNCHANGED <<seg, pc, mySeg>>
  BY <1>1 DEF SegmentInv, SegmentBound
<1>2. CASE \E c \in Coords : ListRunsForRollback(c) \/ RollbackStep(c)
  BY <1>1, <1>2 DEF ListRunsForRollback, RollbackStep, RollbackSkip, RollbackPatch,
     RollbackAnnounce, RollbackFails, RollbackReturns, runVars, execVars, Fields
<1>3. CASE Crash
  BY <1>3, LimitAssumption DEF Crash, SegmentInv, SegmentBound, runVars
<1>4. CASE Reboot
  BY <1>1, <1>4 DEF Reboot, Boot, SweepRun, Serve, runVars, execVars, Fields
<1> QED
  BY <1>1, <1>2, <1>3, <1>4, SegmentExecutor DEF Next, vars, runVars, execVars

LEMMA Segmented == Spec => []SegmentInv
<1>1. Init => SegmentInv
  BY LimitAssumption DEF Init, SegmentInv, SegmentBound
<1> QED
  BY <1>1, Typed, SegmentStep, PTL DEF Spec

\* The circuit breaker: whoever executes the runs of a chain, and however often
\* one is executed twice, no segment number exceeds max_sessions.
THEOREM ChainsAreBounded == Spec => []SegmentBound
BY Segmented, PTL DEF SegmentInv

-----------------------------------------------------------------------------
(* Frozen rows *)

\* Nothing but the boot sweep runs before the server listens, and the sweep's
\* list is still accurate when it patches: this is what makes the sweep, which
\* writes without looking as well, harmless to a frozen row.
BootInv ==
  /\ phase # "up" => \A p \in Procs : pc[p] \in {"idle", "done"}
  /\ phase # "up" => \A c \in Coords : rbPc[c] # "loop"
  /\ phase # "sweep" => sweepTodo = {}
  /\ \A r \in sweepTodo : status[r] = "running"

LEMMA BootStep == TypeInv /\ BootInv /\ [Next]_vars => BootInv'
<1> SUFFICES ASSUME TypeInv, BootInv, [Next]_vars PROVE BootInv'
  OBVIOUS
<1>1. ASSUME NEW p \in Procs, Call(p) \/ Executor(p) \/ ClientGone(p) PROVE BootInv'
  <2>1. CASE ClientGone(p)
    BY <2>1 DEF ClientGone, BootInv, runVars, rbVars, bootVars
  <2>2. CASE Call(p) \/ Executor(p)
    <3>1. phase = "up"
      BY <2>2 DEF BootInv, Call, IntakeRun, IntakeRejected, CallExecuteRun, Executor, Setup,
         LinkIntake, BeginExecute, StoreInputs, StartRunning, AgentMissing, SetupFails,
         Execute, AnnounceStarted, LLMReturns, WriteCompleted, DispatchActions,
         AnnounceCompleted, WriteFailed, AnnounceFailed, WriteDecomposed, AnnounceDecomposed,
         Yield, BackfillChain, WriteYielded, AnnounceYielded, CreateSuccessor,
         LinkSuccessorAgent, SuccessorFails, LinkContinuesFrom
    <3>2. UNCHANGED bootVars
      BY <2>2, ExecutorTidy DEF Tidy
    <3> QED
      BY <3>1, <3>2 DEF BootInv, bootVars
  <2> QED
    BY <1>1, <2>1, <2>2
<1>2. ASSUME NEW c \in Coords, ListRunsForRollback(c) \/ RollbackStep(c) PROVE BootInv'
  BY <1>2 DEF BootInv, ListRunsForRollback, RollbackStep, RollbackSkip, RollbackPatch,
     RollbackAnnounce, RollbackFails, RollbackReturns, bootVars
<1>3. CASE Crash
  BY <1>3 DEF Crash, BootInv, TypeInv, RollbacksOK
<1>4. CASE Boot
  BY <1>4 DEF Boot, BootInv, runVars, execVars, rbVars
<1>5. CASE SweepRun
  BY <1>5 DEF SweepRun, SetStatus, BootInv, TypeInv, RunsOK, BootOK, execVars, rbVars
<1>6. CASE Serve
  BY <1>6 DEF Serve, BootInv
<1>7. CASE UNCHANGED vars
  BY <1>7 DEF vars, runVars, execVars, rbVars, bootVars, BootInv
<1> QED
  BY <1>1, <1>2, <1>3, <1>4, <1>5, <1>6, <1>7 DEF Next, Reboot

LEMMA BootHolds == Spec => []BootInv
<1>1. Init => BootInv
  BY DEF Init, BootInv
<1> QED
  BY <1>1, Typed, BootStep, PTL DEF Spec

\* An executor writes the status of its own run only, and only in flight; the
\* run it gets in flight on was not frozen.
LEMMA ExecutorSpares ==
  ASSUME TypeInv, NEW p \in Procs, Call(p) \/ Executor(p) \/ ClientGone(p),
         NEW r \in Runs, status[r] \in Frozen, ~(job[p] = r /\ pc[p] \in InFlight)
  PROVE  status'[r] = status[r] /\ ~(job'[p] = r /\ pc'[p] \in InFlight)
<1> USE DEF InFlight, Working, Frozen
<1>1. CASE IntakeRun(p)
  BY <1>1, FreshIds DEF IntakeRun, Goto, SetStatus, TypeInv, RunsOK, ExecOK
<1>13. CASE SetupFails(p)
  BY <1>13 DEF SetupFails, SetStatus, Return, TypeInv, RunsOK, ExecOK
<1>2. CASE \/ IntakeRejected(p) \/ AgentMissing(p) \/ SuccessorFails(p)
           \/ AnnounceCompleted(p) \/ AnnounceFailed(p) \/ AnnounceDecomposed(p)
  BY <1>2 DEF IntakeRejected, AgentMissing, SuccessorFails, AnnounceCompleted,
     AnnounceFailed, AnnounceDecomposed, Return, runVars, TypeInv, ExecOK
<1>3. CASE LinkIntake(p)
  BY <1>3 DEF LinkIntake, Return, Goto, TypeInv, ExecOK
<1>4. CASE BeginExecute(p) \/ CallExecuteRun(p)
  <2>1. UNCHANGED status
    BY <1>4 DEF BeginExecute, CallExecuteRun, runVars
  <2>2. PICK q \in Runs : Admit(p, q)
    BY <1>4, HasJob DEF BeginExecute, CallExecuteRun, TypeInv
  <2>3. CASE Return(p)
    BY <2>1, <2>3 DEF Return, TypeInv, ExecOK
  <2>4. CASE job' = [job EXCEPT ![p] = q] /\ status[q] \in {"pending_intake", "pending_execution"}
    BY <2>1, <2>4 DEF TypeInv, ExecOK
  <2> QED
    BY <2>2, <2>3, <2>4 DEF Admit
<1>5. CASE StoreInputs(p) \/ StartRunning(p)
  BY <1>5 DEF StoreInputs, StartRunning, SetStatus, Goto, Locals, TypeInv, RunsOK, ExecOK
<1>6. CASE AnnounceStarted(p) \/ LLMReturns(p) \/ DispatchActions(p) \/ AnnounceYielded(p)
  BY <1>6 DEF AnnounceStarted, LLMReturns, DispatchActions, AnnounceYielded, Goto, Locals,
     runVars, TypeInv, ExecOK
<1>7. CASE WriteCompleted(p) \/ WriteDecomposed(p)
  <2>1. job[p] # r /\ \E l : WriteOrReturn(p, "completed", l)
    BY <1>7 DEF WriteCompleted, WriteDecomposed
  <2>2. status'[r] = status[r]
    BY <2>1 DEF WriteOrReturn, SetStatus, TypeInv, RunsOK
  <2>3. job'[p] # r
    BY <2>1, PoolAssumption DEF WriteOrReturn, Return, Locals, TypeInv, ExecOK
  <2> QED
    BY <2>2, <2>3
<1>8. CASE WriteFailed(p) \/ WriteYielded(p)
  BY <1>8 DEF WriteFailed, WriteYielded, WriteIgnoringError, SetStatus, Goto, Locals,
     TypeInv, RunsOK, ExecOK
<1>9. CASE BackfillChain(p)
  BY <1>9, FreshIds DEF BackfillChain, Goto, TypeInv, ExecOK
<1>10. CASE CreateSuccessor(p)
  BY <1>10, FreshIds DEF CreateSuccessor, SetStatus, Goto, TypeInv, RunsOK, ExecOK
<1>11. CASE LinkSuccessorAgent(p) \/ LinkContinuesFrom(p)
  BY <1>11 DEF LinkSuccessorAgent, LinkContinuesFrom, Goto, Locals, TypeInv, ExecOK
<1>12. CASE ClientGone(p)
  BY <1>12 DEF ClientGone, runVars
<1> HIDE DEF InFlight, Working, Frozen
<1> QED
  BY <1>1, <1>2, <1>3, <1>4, <1>5, <1>6, <1>7, <1>8, <1>9, <1>10, <1>11, <1>12, <1>13
  DEF Call, Executor, Setup, Execute, Yield

FrozenStep == \A r \in Runs : status[r] \in Frozen /\ ~Held(r) =>
                status'[r] \in Frozen /\ ~(Held(r))'

LEMMA FrozenNext == TypeInv /\ BootInv /\ [Next]_vars => FrozenStep
<1> SUFFICES ASSUME TypeInv, BootInv, [Next]_vars,
                    NEW r \in Runs, status[r] \in Frozen, ~Held(r)
             PROVE  status'[r] \in Frozen /\ ~(Held(r))'
  BY DEF FrozenStep
<1>1. ASSUME NEW p \in Procs, Call(p) \/ Executor(p) \/ ClientGone(p)
      PROVE  status'[r] \in Frozen /\ ~(Held(r))'
  <2>1. status'[r] = status[r] /\ ~(job'[p] = r /\ pc'[p] \in InFlight)
    BY <1>1, ExecutorSpares DEF Held
  <2>2. \A q \in Procs \ {p} : pc'[q] = pc[q] /\ job'[q] = job[q]
    BY <1>1, ExecutorTidy DEF Tidy
  <2> QED
    BY <2>1, <2>2 DEF Held
<1>2. ASSUME NEW c \in Coords, ListRunsForRollback(c) \/ RollbackStep(c)
      PROVE  status'[r] \in Frozen /\ ~(Held(r))'
  <2>1. UNCHANGED <<pc, job>>
    BY <1>2 DEF ListRunsForRollback, RollbackStep, RollbackSkip, RollbackPatch,
       RollbackAnnounce, RollbackFails, RollbackReturns, execVars
  <2>2. status'[r] \in Frozen
    BY <1>2 DEF ListRunsForRollback, RollbackStep, RollbackSkip, RollbackPatch,
       RollbackAnnounce, RollbackFails, RollbackReturns, RollbackTarget, SetStatus, Frozen,
       runVars, TypeInv, RunsOK
  <2> QED
    BY <2>1, <2>2 DEF Held
<1>3. CASE Crash
  BY <1>3 DEF Crash, Held, InFlight, Working, runVars
<1>4. CASE Boot \/ Serve
  BY <1>4 DEF Boot, Serve, Held, runVars, execVars
<1>5. CASE SweepRun
  BY <1>5 DEF SweepRun, SetStatus, BootInv, Held, Frozen, execVars, TypeInv, RunsOK
<1>6. CASE UNCHANGED vars
  BY <1>6 DEF vars, runVars, execVars, Held
<1> QED
  BY <1>1, <1>2, <1>3, <1>4, <1>5, <1>6 DEF Next, Reboot

\* A frozen row that no executor is in flight on is frozen for good - cancelled
\* or rolled_back, which two rollbacks may still swap - through crashes and
\* boots as well: executors that have not read it yet are refused,
\* and the boot sweep and later rollbacks never put another status in it.
THEOREM FrozenForGood == Spec => FrozenStays
<1>1. TypeInv /\ BootInv /\ [Next]_vars => [FrozenStep]_vars
  BY FrozenNext
<1> QED
  BY <1>1, Typed, BootHolds, PTL DEF Spec, FrozenStays, FrozenStep

-----------------------------------------------------------------------------
(* What CodeValdWork is told *)

Outcome(e) == e.topic \in {"task.completed", "task.failed", "todo.created"}

\* The statuses a run can have once something of its outcome is known: never
\* one that would admit it again.
Past == {"running", "completed", "failed"} \cup Frozen

Pending == {"pending_intake", "pending_execution"}

\* Executor p has found run r dispatchable and is not finished with it.
Bound(p, r) == job[p] = r /\ pc[p] \notin {"idle", "done", "intake", "begin"}

\* Unless two executors read it together, a run has one executor at a time.
Sole == \A r \in Runs : r \notin shared => \A p, q \in Procs : Bound(p, r) /\ Bound(q, r) => p = q

Yielding == {"announceYield", "successor", "linkAgent", "linkFrom"}

\* The row at each place of an executor that has written running.
StatusAt(p) == job[p] \notin shared =>
  /\ pc[p] \in Working => status[job[p]] \in {"running"} \cup Frozen
  /\ pc[p] \in {"dispatch", "blockless", "announce", "announceSplit", "announceDecomposed"} =>
       status[job[p]] \in {"completed"} \cup Frozen
  /\ pc[p] = "announceFail" =>
       \/ status[job[p]] \in {"failed"} \cup Frozen
       \/ job[p] \in lost /\ status[job[p]] \in {"running", "completed"}
  /\ pc[p] \in Yielding => status[job[p]] \in {"yielded", "running"} \cup Frozen

\* A run with sub-tasks is on its way to the announcement that says so.
SplitAt(e, p) == Bound(p, e.run) =>
  /\ pc[p] \in {"announce", "announceSplit"}
  /\ pc[p] = "announce" => ~task[e.run]

\* A run of which something is known is in nobody's hands but in those of the
\* executor that announced its sub-tasks.
Known ==
  \A e \in events : e.run \notin shared =>
    /\ Outcome(e) => status[e.run] \in Past
    /\ Verdict(e) => \A p \in Procs : ~Bound(p, e.run)
    /\ e.topic = "todo.created" => \A p \in Procs : SplitAt(e, p)

Told == VerdictOnce /\ VerdictMatchesStatus /\ DeferredCompletion

VerdictInv == Sole /\ (\A p \in Procs : StatusAt(p)) /\ Known /\ Told

\* What a step of executor p may touch: the row of the run it is bound to and
\* rows it creates; and it gets bound to dispatchable runs only.
Reach(p) ==
  /\ shared \subseteq shared' /\ lost \subseteq lost'
  /\ \A q \in Procs \ {p} : pc'[q] = pc[q] /\ job'[q] = job[q]
  /\ \A r \in Runs :
       /\ status'[r] # status[r] => Bound(p, r) \/ status[r] = "none"
       /\ task'[r] # task[r] => status[r] = "none"
       /\ Bound(p, r)' => \/ Bound(p, r)
                          \/ status[r] \in Pending /\ (r \in shared' \/ ~Contested(p, r))

\* Moving on, or returning.
LEMMA Bindings ==
  ASSUME TypeInv, NEW p \in Procs,
         \/ Return(p)
         \/ /\ pc[p] \notin {"idle", "done", "intake", "begin"}
            /\ \E l \in Labels : Goto(p, l) /\ UNCHANGED <<job, shared>>
         \/ /\ \E l \in {"intake", "begin"} : Goto(p, l)
            /\ UNCHANGED shared /\ \E r : job' = [job EXCEPT ![p] = r]
  PROVE  /\ \A q \in Procs \ {p} : pc'[q] = pc[q] /\ job'[q] = job[q]
         /\ shared \subseteq shared'
         /\ \A r \in Runs : Bound(p, r)' => Bound(p, r)
BY PoolAssumption DEF TypeInv, ExecOK, Return, Goto, Bound

LEMMA ExecutorReach ==
  ASSUME TypeInv, NEW p \in Procs, Call(p) \/ Executor(p) \/ ClientGone(p)
  PROVE  Reach(p)
<1> USE DEF Reach
<1>1. CASE IntakeRun(p)
  BY <1>1, Bindings, FreshIds DEF IntakeRun, SetStatus, TypeInv, RunsOK
<1>2. CASE IntakeRejected(p) \/ AgentMissing(p) \/ SuccessorFails(p)
  BY <1>2, Bindings DEF IntakeRejected, AgentMissing, SuccessorFails, runVars
<1>3. CASE SetupFails(p)
  <2>1. /\ lost \subseteq lost' /\ UNCHANGED task
        /\ \A r \in Runs : status'[r] # status[r] => Bound(p, r)
    BY <1>3, HasJob DEF SetupFails, SetStatus, Fields, Bound, TypeInv, RunsOK
  <2> QED
    BY <1>3, <2>1, Bindings DEF SetupFails
<1>4. CASE LinkIntake(p)
  <2>1. Return(p) \/ (Goto(p, "begin") /\ UNCHANGED Locals /\ job' = [job EXCEPT ![p] = job[p]])
    BY <1>4 DEF LinkIntake, Locals, TypeInv, ExecOK
  <2> QED
    BY <1>4, <2>1, Bindings DEF LinkIntake, Locals
<1>5. CASE BeginExecute(p) \/ CallExecuteRun(p)
  <2>1. UNCHANGED <<status, task, lost>>
    BY <1>5 DEF BeginExecute, CallExecuteRun, runVars
  <2>2. PICK r \in Runs : Admit(p, r)
    BY <1>5, HasJob DEF BeginExecute, CallExecuteRun, TypeInv
  <2>3. CASE Return(p)
    BY <2>1, <2>3, Bindings
  <2>4. CASE /\ status[r] \in Pending /\ job' = [job EXCEPT ![p] = r]
             /\ shared' = IF Contested(p, r) THEN shared \cup {r} ELSE shared
             /\ \E l \in {"inputs", "resolve"} : Goto(p, l)
    <3>1. \A q \in Runs : Bound(p, q)' => q = r
      BY <2>4 DEF Bound, TypeInv, ExecOK
    <3>2. r \in shared' \/ ~Contested(p, r)
      BY <2>4
    <3>3. \A q \in Procs \ {p} : pc'[q] = pc[q] /\ job'[q] = job[q]
      BY <2>4 DEF Goto, TypeInv, ExecOK
    <3> QED
      BY <2>1, <2>4, <3>1, <3>2, <3>3
  <2> QED
    BY <2>2, <2>3, <2>4 DEF Admit, Pending
<1>6. CASE StoreInputs(p) \/ StartRunning(p)
  <2>1. \A r \in Runs : status'[r] # status[r] => Bound(p, r)
    BY <1>6 DEF StoreInputs, StartRunning, SetStatus, Bound, TypeInv, RunsOK
  <2> QED
    BY <1>6, <2>1, Bindings, LabelNames DEF StoreInputs, StartRunning, Locals, Fields
<1>7. CASE AnnounceStarted(p) \/ LLMReturns(p) \/ DispatchActions(p) \/ AnnounceYielded(p)
  BY <1>7, Bindings, LabelNames DEF AnnounceStarted, LLMReturns, DispatchActions, AnnounceYielded,
     Locals, runVars
<1>8. CASE AnnounceCompleted(p) \/ AnnounceFailed(p) \/ AnnounceDecomposed(p)
  BY <1>8, Bindings DEF AnnounceCompleted, AnnounceFailed, AnnounceDecomposed, runVars
<1>9. CASE WriteCompleted(p) \/ WriteDecomposed(p)
  <2>1. PICK l \in {"dispatch", "announceDecomposed"} : WriteOrReturn(p, "completed", l)
    BY <1>9 DEF WriteCompleted, WriteDecomposed
  <2>2. /\ lost \subseteq lost'
        /\ \A r \in Runs : status'[r] # status[r] => Bound(p, r)
    BY <1>9, <2>1 DEF WriteCompleted, WriteDecomposed, WriteOrReturn, SetStatus, Bound, TypeInv, RunsOK
  <2>3. UNCHANGED task /\ (Return(p) \/ (Goto(p, l) /\ UNCHANGED <<job, shared>>))
    BY <1>9, <2>1 DEF WriteCompleted, WriteDecomposed, WriteOrReturn, Locals, Fields
  <2> QED
    BY <1>9, <2>2, <2>3, Bindings, LabelNames DEF WriteCompleted, WriteDecomposed
<1>10. CASE WriteFailed(p) \/ WriteYielded(p)
  <2>1. /\ lost \subseteq lost'
        /\ \A r \in Runs : status'[r] # status[r] => Bound(p, r)
    BY <1>10 DEF WriteFailed, WriteYielded, WriteIgnoringError, SetStatus, Bound, TypeInv, RunsOK
  <2> QED
    BY <1>10, <2>1, Bindings, LabelNames DEF WriteFailed, WriteYielded, Locals, Fields
<1>11. CASE BackfillChain(p)
  BY <1>11, Bindings, LabelNames DEF BackfillChain
<1>12. CASE CreateSuccessor(p)
  BY <1>12, Bindings, FreshIds, LabelNames DEF CreateSuccessor, SetStatus, TypeInv, RunsOK
<1>13. CASE LinkSuccessorAgent(p)
  BY <1>13, Bindings, LabelNames DEF LinkSuccessorAgent, Locals
<1>14. CASE LinkContinuesFrom(p)
  BY <1>14, Bindings DEF LinkContinuesFrom
<1>15. CASE ClientGone(p)
  BY <1>15 DEF ClientGone, runVars, Bound
<1> HIDE DEF Reach
<1> QED
  BY <1>1, <1>2, <1>3, <1>4, <1>5, <1>6, <1>7, <1>8, <1>9, <1>10, <1>11, <1>12, <1>13,
     <1>14, <1>15 DEF Call, Executor, Setup, Execute, Yield

\* No second executor joins one that has written running: it finds the row in
\* a status that is not dispatchable.
LEMMA SoleStep ==
  ASSUME TypeInv, VerdictInv, NEW p \in Procs, Reach(p)
  PROVE  Sole'
<1> SUFFICES ASSUME NEW r \in Runs, r \notin shared',
                    NEW q \in Procs \ {p}, Bound(q, r)', Bound(p, r)'
             PROVE  FALSE
  BY DEF Sole, VerdictInv, Reach, Bound
<1>1. r \notin shared /\ Bound(q, r)
  BY DEF Reach, Bound
<1>2. status[r] \in Pending /\ ~Contested(p, r)
  BY <1>1 DEF Reach, VerdictInv, Sole
<1>3. pc[q] \notin {"inputs", "resolve"}
  BY <1>1, <1>2 DEF Contested, Bound
<1> QED
  BY <1>1, <1>2, <1>3 DEF Bound, VerdictInv, StatusAt, Working, Yielding, Frozen, Pending,
     TypeInv, ExecOK, Labels

\* A step that says nothing of an outcome.
LEMMA QuietStep ==
  ASSUME TypeInv, VerdictInv, NEW p \in Procs, Reach(p),
         pc[p] \notin {"announce", "announceSplit"},
         events \subseteq events', \A e \in events' \ events : ~Outcome(e)
  PROVE  Known' /\ Told'
<1>1. ASSUME NEW e \in events, Outcome(e), e.run \notin shared
      PROVE  /\ e.run \in Runs /\ status'[e.run] = status[e.run] /\ task'[e.run] = task[e.run]
             /\ \A q \in Procs : Bound(q, e.run)' => Bound(q, e.run)
  <2>1. e.run \in Runs
    BY DEF TypeInv, HistoryOK, AllEvents
  <2>2. ~Bound(p, e.run)
    BY <1>1 DEF VerdictInv, Known, SplitAt, Outcome, Verdict
  <2>3. status[e.run] \notin {"none"} \cup Pending
    BY <1>1 DEF VerdictInv, Known, Past, Frozen, Pending
  <2>4. \A q \in Procs \ {p} : Bound(q, e.run)' => Bound(q, e.run)
    BY DEF Reach, Bound
  <2> QED
    BY <2>1, <2>2, <2>3, <2>4 DEF Reach
<1>2. ASSUME NEW e \in events', Outcome(e), e.run \notin shared'
      PROVE  e \in events /\ e.run \notin shared
  BY <1>2 DEF Reach
<1>3. Known'
  <2> SUFFICES ASSUME NEW e \in events', Outcome(e), e.run \notin shared'
               PROVE  /\ status'[e.run] \in Past
                      /\ Verdict(e) => \A q \in Procs : ~Bound(q, e.run)'
                      /\ e.topic = "todo.created" => \A q \in Procs : SplitAt(e, q)'
    BY DEF Known, Outcome, Verdict
  <2>1. status'[e.run] \in Past
    BY <1>1, <1>2 DEF VerdictInv, Known
  <2>2. ASSUME Verdict(e), NEW q \in Procs PROVE ~Bound(q, e.run)'
    BY <1>1, <1>2, <2>2 DEF VerdictInv, Known
  <2>3. ASSUME e.topic = "todo.created", NEW q \in Procs PROVE SplitAt(e, q)'
    <3>1. SplitAt(e, q) /\ ~Bound(p, e.run)
      BY <1>2, <2>3 DEF VerdictInv, Known, SplitAt
    <3>2. (Bound(q, e.run)' => Bound(q, e.run)) /\ task'[e.run] = task[e.run]
      BY <1>1, <1>2
    <3>3. Bound(q, e.run) => pc'[q] = pc[q]
      BY <3>1 DEF Reach
    <3> QED
      BY <3>1, <3>2, <3>3 DEF SplitAt
  <2> QED
    BY <2>1, <2>2, <2>3
<1>4. Told'
  <2>1. VerdictOnce'
    BY <1>2 DEF VerdictInv, Told, VerdictOnce, Verdict, Outcome
  <2>2. VerdictMatchesStatus'
    BY <1>1, <1>2 DEF VerdictInv, Told, VerdictMatchesStatus, Outcome, Reach
  <2>3. DeferredCompletion'
    BY <1>1, <1>2 DEF VerdictInv, Told, DeferredCompletion, Outcome
  <2> QED
    BY <2>1, <2>2, <2>3 DEF Told
<1> QED
  BY <1>3, <1>4

\* The other executors' rows are not touched.
LEMMA StatusElsewhere ==
  ASSUME TypeInv, VerdictInv, NEW p \in Procs, Reach(p), NEW q \in Procs, q # p
  PROVE  StatusAt(q)'
<1> DEFINE There == pc[q] \in Working \cup Yielding \cup {"announceFail"} \cup
             {"dispatch", "blockless", "announce", "announceSplit", "announceDecomposed"}
<1>1. /\ pc'[q] = pc[q] /\ job'[q] = job[q] /\ shared \subseteq shared' /\ lost \subseteq lost'
  BY DEF Reach
<1>2. ASSUME There, job[q] \notin shared PROVE status'[job[q]] = status[job[q]]
  <2>1. job[q] \in Runs /\ Bound(q, job[q])
    BY <1>2, HasJob DEF Bound, Working, Yielding, TypeInv
  <2>2. ~Bound(p, job[q])
    BY <1>2, <2>1 DEF VerdictInv, Sole
  <2>3. status[job[q]] # "none"
    BY <1>2 DEF VerdictInv, StatusAt, Frozen
  <2> QED
    BY <2>1, <2>2, <2>3 DEF Reach
<1> QED
  BY <1>1, <1>2 DEF VerdictInv, StatusAt

\* The mover's row.
LEMMA StatusHere ==
  ASSUME TypeInv, VerdictInv, NEW p \in Procs, Call(p) \/ Executor(p) \/ ClientGone(p)
  PROVE  StatusAt(p)'
<1> USE DEF StatusAt, Working, Yielding
<1>1. CASE Return(p)
  BY <1>1 DEF Return, TypeInv, ExecOK
<1>2. CASE IntakeRun(p) \/ LinkIntake(p) \/ StoreInputs(p)
  BY <1>1, <1>2 DEF IntakeRun, LinkIntake, StoreInputs, Goto, TypeInv, ExecOK
<1>3. CASE BeginExecute(p) \/ CallExecuteRun(p)
  BY <1>1, <1>3 DEF BeginExecute, CallExecuteRun, Admit, Goto, TypeInv, ExecOK
<1>4. CASE IntakeRejected(p) \/ AgentMissing(p) \/ SetupFails(p) \/ SuccessorFails(p)
           \/ AnnounceCompleted(p) \/ AnnounceFailed(p) \/ AnnounceDecomposed(p)
  BY <1>1, <1>4 DEF IntakeRejected, AgentMissing, SetupFails, SuccessorFails, AnnounceCompleted,
     AnnounceFailed, AnnounceDecomposed
<1>5. CASE StartRunning(p)
  BY <1>5, HasJob DEF StartRunning, SetStatus, Goto, Locals, TypeInv, RunsOK, ExecOK
<1>6. CASE AnnounceStarted(p) \/ AnnounceYielded(p) \/ DispatchActions(p)
  BY <1>6 DEF AnnounceStarted, AnnounceYielded, DispatchActions, Goto, Locals, runVars,
     VerdictInv, TypeInv, ExecOK
<1>7. CASE LLMReturns(p)
  <2>1. \E l \in {"complete", "fail", "chain", "yield", "decomposed"} : Goto(p, l)
    BY <1>7 DEF LLMReturns
  <2> QED
    BY <1>7, <2>1 DEF LLMReturns, Goto, Locals, runVars, VerdictInv, TypeInv, ExecOK
<1>8. CASE WriteCompleted(p) \/ WriteDecomposed(p)
  <2>1. \/ Return(p)
        \/ /\ SetStatus(job[p], "completed") /\ UNCHANGED Locals
           /\ \E l \in {"dispatch", "announceDecomposed"} : Goto(p, l)
    BY <1>8 DEF WriteCompleted, WriteDecomposed, WriteOrReturn
  <2>2. job[p] \in Runs
    BY <1>8, HasJob DEF WriteCompleted, WriteDecomposed, TypeInv
  <2> QED
    BY <1>1, <2>1, <2>2 DEF SetStatus, Goto, Locals, TypeInv, RunsOK, ExecOK
<1>9. CASE WriteFailed(p)
  BY <1>9, HasJob DEF WriteFailed, WriteIgnoringError, SetStatus, Goto, Locals, VerdictInv,
     TypeInv, RunsOK, ExecOK
<1>10. CASE WriteYielded(p)
  BY <1>10, HasJob DEF WriteYielded, WriteIgnoringError, SetStatus, Goto, Locals, VerdictInv,
     TypeInv, RunsOK, ExecOK
<1>11. CASE BackfillChain(p)
  BY <1>11 DEF BackfillChain, Goto, VerdictInv, TypeInv, ExecOK
<1>12. CASE CreateSuccessor(p)
  BY <1>12, FreshIds DEF CreateSuccessor, SetStatus, Goto, Frozen, VerdictInv, TypeInv, RunsOK, ExecOK
<1>14. CASE LinkSuccessorAgent(p) \/ LinkContinuesFrom(p)
  BY <1>14 DEF LinkSuccessorAgent, LinkContinuesFrom, Goto, Locals, VerdictInv, TypeInv, ExecOK
<1>13. CASE ClientGone(p)
  BY <1>13 DEF ClientGone, VerdictInv, runVars
<1> HIDE DEF StatusAt, Working, Yielding
<1> QED
  BY <1>2, <1>3, <1>4, <1>5, <1>6, <1>7, <1>8, <1>9, <1>10, <1>11, <1>12, <1>13, <1>14
  DEF Call, Executor, Setup, Execute, Yield

\* The steps that say something: sub-tasks, and the verdicts.
LEMMA SubtasksStep ==
  ASSUME TypeInv, VerdictInv, NEW p \in Procs, Reach(p), DispatchActions(p)
  PROVE  Known' /\ Told'
<1>1. CASE UNCHANGED events
  BY <1>1, QuietStep DEF DispatchActions
<1>2. CASE /\ Publish({Event("todo.created", job[p], p, FALSE)})
           /\ Goto(p, IF task[job[p]] THEN "announceSplit" ELSE "announce")
  <2> PICK n : n = Event("todo.created", job[p], p, FALSE)
    OBVIOUS
  <2>1. /\ job[p] \in Runs /\ Bound(p, job[p])
        /\ job[p] \notin shared => status[job[p]] \in {"completed"} \cup Frozen
        /\ n.topic = "todo.created" /\ n.run = job[p]
    BY HasJob DEF DispatchActions, VerdictInv, StatusAt, TypeInv, Event, Bound
  <2>2. /\ events' = events \cup {n} /\ UNCHANGED <<status, task, lost, job, shared>>
        /\ \A q \in Procs \ {p} : pc'[q] = pc[q]
        /\ pc'[p] = IF task[job[p]] THEN "announceSplit" ELSE "announce"
    BY <1>2 DEF DispatchActions, Publish, Goto, Locals, runVars, TypeInv, ExecOK
  <2>3. \A e \in events : Outcome(e) => e.run # job[p] \/ e.run \in shared
    BY <2>1 DEF VerdictInv, Known, SplitAt, Outcome, Verdict, DispatchActions
  <2>6. \A q \in Procs, r \in Runs : Bound(q, r)' = Bound(q, r)
    BY <2>1, <2>2 DEF Bound
  <2>4. Known'
    <3>1. ASSUME n.run \notin shared, NEW q \in Procs PROVE SplitAt(n, q)'
      <4>1. q # p => ~Bound(q, job[p])
        BY <2>1, <3>1 DEF VerdictInv, Sole
      <4> QED
        BY <2>1, <2>2, <2>6, <4>1 DEF SplitAt
    <3>2. ASSUME NEW e \in events, Outcome(e), e.run \notin shared
          PROVE  /\ status[e.run] \in Past
                 /\ Verdict(e) => \A q \in Procs : ~Bound(q, e.run)'
                 /\ e.topic = "todo.created" => \A q \in Procs : SplitAt(e, q)'
      <4>1. e.run \in Runs /\ e.run # job[p]
        BY <2>3, <3>2 DEF TypeInv, HistoryOK, AllEvents
      <4>2. \A q \in Procs : Bound(q, e.run) => pc'[q] = pc[q]
        BY <2>2, <4>1 DEF Bound
      <4> QED
        BY <2>2, <2>6, <3>2, <4>1, <4>2 DEF VerdictInv, Known, SplitAt
    <3> QED
      BY <2>1, <2>2, <3>1, <3>2 DEF Known, Past, Verdict, Outcome
  <2>5. Told'
    <3>1. \A e \in events' : e \in events \/ (e = n /\ ~Verdict(e))
      BY <2>1, <2>2 DEF Verdict
    <3>2. VerdictOnce'
      BY <2>2, <3>1 DEF VerdictInv, Told, VerdictOnce, Verdict
    <3>3. VerdictMatchesStatus'
      BY <2>2, <3>1 DEF VerdictInv, Told, VerdictMatchesStatus, Verdict
    <3>4. DeferredCompletion'
      <4> SUFFICES ASSUME NEW e \in events', NEW f \in events', e.topic = "todo.created",
                          f.topic = "task.completed", e.run = f.run, task'[e.run], e.run \notin shared
                   PROVE  f.sub
        BY <2>2 DEF DeferredCompletion
      <4>1. f \in events /\ f.run # job[p]
        BY <2>3, <3>1 DEF Verdict, Outcome
      <4>2. e \in events
        BY <2>1, <3>1, <4>1
      <4> QED
        BY <2>2, <4>1, <4>2 DEF VerdictInv, Told, DeferredCompletion
    <3> QED
      BY <3>2, <3>3, <3>4 DEF Told
  <2> QED
    BY <2>4, <2>5
<1> QED
  BY <1>1, <1>2 DEF DispatchActions

\* What a verdict takes: nothing was said before but sub-tasks, which it mentions.
LEMMA VerdictStep ==
  ASSUME TypeInv, VerdictInv, NEW p \in Procs, Bound(p, job[p]),
         NEW v \in events', events \subseteq events',
         \A e \in events' \ events : e = v \/ ~Outcome(e) \/ (e.topic = "todo.created" /\ e.run = job[p] /\ v.sub),
         Verdict(v), v.run = job[p], v.again => \E e \in events : Verdict(e) /\ e.run = job[p],
         Return(p), UNCHANGED <<status, task, lost>>,
         v.topic = "task.completed" /\ job[p] \notin shared =>
           /\ status[job[p]] \in {"completed"} \cup Frozen
           /\ \A e \in events : e.topic = "todo.created" /\ e.run = job[p] /\ task[job[p]] => v.sub,
         v.topic = "task.failed" /\ job[p] \notin shared =>
           \/ status[job[p]] \in {"failed"} \cup Frozen
           \/ job[p] \in lost /\ status[job[p]] \in {"running", "completed"}
  PROVE  Known' /\ Told'
<1>1. job[p] \in Runs /\ (job[p] \notin shared => status[job[p]] \in Past)
  BY HasJob DEF TypeInv, Past, Verdict, Bound
<1>2. /\ \A q \in Procs \ {p} : pc'[q] = pc[q] /\ job'[q] = job[q]
      /\ job'[p] = NoRun /\ UNCHANGED shared
  BY DEF Return, TypeInv, ExecOK
<1>3. ASSUME NEW e \in events, Verdict(e), job[p] \notin shared PROVE e.run # job[p]
  BY <1>1, <1>3 DEF VerdictInv, Known
<1>4. \A e \in events : e.run \in Runs
  BY DEF TypeInv, HistoryOK, AllEvents
<1>7. ASSUME NEW q \in Procs, NEW r \in Runs, Bound(q, r)'
      PROVE  q # p /\ Bound(q, r) /\ (r = job[p] => r \in shared)
  <2>1. q # p /\ Bound(q, r)
    BY <1>2, <1>7, PoolAssumption DEF Bound
  <2> QED
    BY <1>1, <2>1 DEF VerdictInv, Sole
<1>5. Known'
  <2>1. ASSUME NEW e \in events', e.run = job[p], e.run \notin shared
        PROVE  status[e.run] \in Past /\ \A q \in Procs : ~Bound(q, e.run)'
    BY <1>1, <1>7, <2>1
  <2>2. ASSUME NEW e \in events, e.run # job[p], e.run \notin shared
        PROVE  /\ Outcome(e) => status[e.run] \in Past
               /\ Verdict(e) => \A q \in Procs : ~Bound(q, e.run)'
               /\ e.topic = "todo.created" => \A q \in Procs : SplitAt(e, q)'
    BY <1>2, <1>4, <1>7, <2>2 DEF VerdictInv, Known, SplitAt
  <2>3. ASSUME NEW e \in events' \ events, Outcome(e) PROVE e.run = job[p]
    BY <2>3
  <2> QED
    BY <1>2, <2>1, <2>2, <2>3 DEF Known, Outcome, Verdict, SplitAt
<1>6. Told'
  <2>1. \A e \in events' : Verdict(e) => e \in events \/ e = v
    BY DEF Outcome, Verdict
  <2>2. VerdictOnce'
    BY <1>2, <1>3, <2>1 DEF VerdictInv, Told, VerdictOnce
  <2>3. VerdictMatchesStatus'
    BY <1>2, <2>1 DEF VerdictInv, Told, VerdictMatchesStatus, Verdict
  <2>4. DeferredCompletion'
    <3> SUFFICES ASSUME NEW e \in events', NEW f \in events', e.topic = "todo.created",
                        f.topic = "task.completed", e.run = f.run, task[e.run], e.run \notin shared
                 PROVE  f.sub
      BY <1>2 DEF DeferredCompletion
    <3>1. CASE f = v
      BY <3>1 DEF Outcome
    <3>2. CASE f \in events
      <4>1. e.run # job[p]
        BY <1>3, <3>2 DEF Verdict
      <4>2. e \in events
        BY <4>1 DEF Outcome, Verdict
      <4> QED
        BY <3>2, <4>2 DEF VerdictInv, Told, DeferredCompletion
    <3> QED
      BY <2>1, <3>1, <3>2 DEF Verdict
  <2> QED
    BY <2>2, <2>3, <2>4 DEF Told
<1> QED
  BY <1>5, <1>6

LEMMA ExecutorTells ==
  ASSUME TypeInv, VerdictInv, NEW p \in Procs, Call(p) \/ Executor(p) \/ ClientGone(p)
  PROVE  VerdictInv'
<1>1. Reach(p)
  BY ExecutorReach
<1>2. Sole' /\ \A q \in Procs : StatusAt(q)'
  BY <1>1, SoleStep, StatusHere, StatusElsewhere
<1>3. CASE DispatchActions(p)
  BY <1>1, <1>2, <1>3, SubtasksStep DEF VerdictInv
<1>4. CASE AnnounceCompleted(p)
  <2> DEFINE v == Event("task.completed", job[p], p, pc[p] = "announceSplit")
             n == Event("run.completed", job[p], p, FALSE)
  <2>1. events' = events \cup {v, n} /\ v \in events' /\ Return(p) /\ UNCHANGED <<status, task, lost>>
    BY <1>4 DEF AnnounceCompleted, Publish, runVars
  <2>2. /\ v.topic = "task.completed" /\ v.run = job[p] /\ v.sub = (pc[p] = "announceSplit")
        /\ v.again => \E e \in events : Verdict(e) /\ e.run = job[p]
        /\ n.topic = "run.completed"
    BY DEF Event, Verdict
  <2>3. /\ pc[p] \in {"announce", "announceSplit"} /\ Bound(p, job[p])
        /\ job[p] \notin shared => status[job[p]] \in {"completed"} \cup Frozen
    BY <1>4 DEF AnnounceCompleted, VerdictInv, StatusAt, Bound
  <2> HIDE DEF v, n
  <2>4. job[p] \notin shared =>
          \A e \in events : e.topic = "todo.created" /\ e.run = job[p] /\ task[job[p]] => v.sub
    BY <2>2, <2>3 DEF VerdictInv, Known, SplitAt
  <2>5. Known' /\ Told'
    BY <2>1, <2>2, <2>3, <2>4, VerdictStep DEF Verdict, Outcome
  <2> QED
    BY <1>2, <2>5 DEF VerdictInv
<1>5. CASE AnnounceFailed(p)
  <2> DEFINE v == Event("task.failed", job[p], p, FALSE)
             n == Event("run.failed", job[p], p, FALSE)
  <2>1. events' = events \cup {v, n} /\ v \in events' /\ Return(p) /\ UNCHANGED <<status, task, lost>>
    BY <1>5 DEF AnnounceFailed, Publish, runVars
  <2>2. /\ v.topic = "task.failed" /\ v.run = job[p] /\ n.topic = "run.failed"
        /\ v.again => \E e \in events : Verdict(e) /\ e.run = job[p]
    BY DEF Event, Verdict
  <2>3. /\ pc[p] = "announceFail" /\ Bound(p, job[p])
        /\ job[p] \notin shared =>
             \/ status[job[p]] \in {"failed"} \cup Frozen
             \/ job[p] \in lost /\ status[job[p]] \in {"running", "completed"}
    BY <1>5 DEF AnnounceFailed, VerdictInv, StatusAt, Bound
  <2> HIDE DEF v, n
  <2>4. Known' /\ Told'
    BY <2>1, <2>2, <2>3, VerdictStep DEF Verdict, Outcome
  <2> QED
    BY <1>2, <2>4 DEF VerdictInv
<1>6. CASE AnnounceDecomposed(p)
  <2> DEFINE v == Event("task.completed", job[p], p, TRUE)
             t == Event("todo.created", job[p], p, FALSE)
             n == Event("run.completed", job[p], p, FALSE)
  <2>1. events' = events \cup {t, v, n} /\ v \in events' /\ Return(p) /\ UNCHANGED <<status, task, lost>>
    BY <1>6 DEF AnnounceDecomposed, Publish, runVars
  <2>2. /\ v.topic = "task.completed" /\ v.run = job[p] /\ v.sub
        /\ v.again => \E e \in events : Verdict(e) /\ e.run = job[p]
        /\ t.topic = "todo.created" /\ t.run = job[p] /\ n.topic = "run.completed"
    BY DEF Event, Verdict
  <2>3. /\ pc[p] = "announceDecomposed" /\ Bound(p, job[p])
        /\ job[p] \notin shared => status[job[p]] \in {"completed"} \cup Frozen
    BY <1>6 DEF AnnounceDecomposed, VerdictInv, StatusAt, Bound
  <2> HIDE DEF v, t, n
  <2>4. Known' /\ Told'
    BY <2>1, <2>2, <2>3, VerdictStep DEF Verdict, Outcome
  <2> QED
    BY <1>2, <2>4 DEF VerdictInv
<1>7. CASE ~(DispatchActions(p) \/ AnnounceCompleted(p) \/ AnnounceFailed(p) \/ AnnounceDecomposed(p))
  <2>1. CASE AnnounceStarted(p) \/ AnnounceYielded(p)
    <3>1. \E t \in {"task.started", "task.yielded"} :
            events' = events \cup {Event(t, job[p], p, FALSE)} /\ Event(t, job[p], p, FALSE).topic = t
      BY <2>1 DEF AnnounceStarted, AnnounceYielded, Publish, Event
    <3>2. \A e \in events' \ events : ~Outcome(e)
      BY <3>1 DEF Outcome
    <3> QED
      BY <1>1, <1>2, <2>1, <3>1, <3>2, QuietStep DEF AnnounceStarted, AnnounceYielded, VerdictInv
  <2>2. CASE UNCHANGED events /\ pc[p] \notin {"announce", "announceSplit"}
    BY <1>1, <1>2, <2>2, QuietStep DEF VerdictInv
  <2>3. CASE ClientGone(p)
    BY <1>2, <2>3 DEF ClientGone, VerdictInv, Known, Told, SplitAt, Bound, VerdictOnce,
       VerdictMatchesStatus, DeferredCompletion, runVars
  <2>4. ClientGone(p) \/ AnnounceStarted(p) \/ AnnounceYielded(p)
        \/ (UNCHANGED events /\ pc[p] \notin {"announce", "announceSplit"})
    BY <1>7 DEF Call, IntakeRun, IntakeRejected, CallExecuteRun, Executor, Setup,
         LinkIntake, BeginExecute, StoreInputs, StartRunning, AgentMissing, SetupFails,
         Execute, LLMReturns, WriteCompleted, WriteFailed, WriteDecomposed,
         Yield, BackfillChain, WriteYielded, CreateSuccessor,
         LinkSuccessorAgent, SuccessorFails, LinkContinuesFrom, runVars
  <2> QED
    BY <2>1, <2>2, <2>3, <2>4
<1> QED
  BY <1>3, <1>4, <1>5, <1>6, <1>7

LEMMA TellStep == TypeInv /\ BootInv /\ VerdictInv /\ [Next]_vars => VerdictInv'
<1> SUFFICES ASSUME TypeInv, BootInv, VerdictInv, [Next]_vars PROVE VerdictInv'
  OBVIOUS
<1> USE DEF VerdictInv, Sole, Bound, StatusAt, Known, SplitAt, Told, VerdictOnce, VerdictMatchesStatus, DeferredCompletion
<1>1. ASSUME NEW c \in Coords, ListRunsForRollback(c) \/ RollbackStep(c) PROVE VerdictInv'
  <2>1. UNCHANGED <<pc, job, shared, task, lost>>
    BY <1>1 DEF ListRunsForRollback, RollbackStep, RollbackSkip, RollbackPatch, RollbackAnnounce,
       RollbackFails, RollbackReturns, execVars, runVars, Fields
  <2>2. \A r \in Runs : status'[r] = status[r] \/ status'[r] \in Frozen
    BY <1>1 DEF ListRunsForRollback, RollbackStep, RollbackSkip, RollbackPatch, RollbackAnnounce,
       RollbackFails, RollbackReturns, RollbackTarget, SetStatus, runVars, Frozen, TypeInv, RunsOK
  <2>3. events' = events \/ \E e : events' = events \cup {e} /\ ~Outcome(e)
    <3>1. CASE RollbackAnnounce(c)
      <4>1. PICK t \in {"run.cancelled", "run.rolled-back"} :
              events' = events \cup {Event(t, rbCur[c], c, FALSE)}
        BY <3>1 DEF RollbackAnnounce, RollbackTopic, Publish
      <4>2. ~Outcome(Event(t, rbCur[c], c, FALSE))
        BY DEF Outcome, Event
      <4> QED
        BY <4>1, <4>2
    <3>2. CASE ~RollbackAnnounce(c)
      BY <1>1, <3>2 DEF ListRunsForRollback, RollbackStep, RollbackSkip, RollbackPatch,
         RollbackFails, RollbackReturns
    <3> QED
      BY <3>1, <3>2
  <2>4. \A e \in events' : Outcome(e) => e \in events /\ e.run \in Runs
    BY <2>3 DEF TypeInv, HistoryOK, AllEvents
  <2>5. \A p \in Procs : pc[p] \notin {"idle", "done"} => job[p] \in Runs
    BY DEF TypeInv, ExecOK
  <2>6. Sole' /\ \A p \in Procs : StatusAt(p)'
    BY <2>1, <2>2, <2>5 DEF Working, Yielding
  <2>7. Known'
    BY <2>1, <2>2, <2>4 DEF Outcome, Verdict, Past
  <2>8. Told'
    BY <2>1, <2>2, <2>4 DEF Outcome, Verdict
  <2> QED
    BY <2>6, <2>7, <2>8
<1>2. CASE Crash
  <2>1. \A p \in Procs : pc'[p] \in {"idle", "done"}
    BY <1>2 DEF Crash
  <2> QED
    BY <1>2, <2>1 DEF Crash, runVars, Working, Yielding
<1>3. CASE Boot
  BY <1>3 DEF Boot, runVars, execVars
<1>4. CASE Serve \/ UNCHANGED vars
  BY <1>4 DEF Serve, vars, runVars, execVars
<1>5. CASE SweepRun
  <2>1. PICK r \in sweepTodo :
          /\ lost \subseteq lost'
          /\ SetStatus(r, "failed") \/ UNCHANGED status
          /\ Publish({Event("run.failed", r, "boot", FALSE)}) \/ UNCHANGED events
    BY <1>5 DEF SweepRun
  <2>2. r \in Runs /\ status[r] = "running" /\ \A p \in Procs : pc[p] \in {"idle", "done"}
    BY <1>5 DEF SweepRun, BootInv, TypeInv, BootOK
  <2>3. UNCHANGED <<pc, job, shared, task>>
    BY <1>5 DEF SweepRun, execVars, Fields
  <2>4. \A e \in events' : Outcome(e) => e \in events /\ e.run \in Runs
    BY <2>1 DEF TypeInv, HistoryOK, AllEvents, Publish, Event, Outcome
  <2>5. \A q \in Runs : status'[q] = status[q] \/ (status[q] = "running" /\ status'[q] = "failed")
    BY <2>1, <2>2 DEF SetStatus, TypeInv, RunsOK
  <2>6. Sole' /\ \A p \in Procs : StatusAt(p)'
    BY <2>2, <2>3 DEF Working, Yielding
  <2>7. Known'
    BY <2>2, <2>3, <2>4, <2>5 DEF Outcome, Verdict, Past
  <2>8. Told'
    BY <2>1, <2>3, <2>4, <2>5 DEF Outcome, Verdict, Frozen
  <2> QED
    BY <2>6, <2>7, <2>8
<1> HIDE DEF VerdictInv, Sole, Bound, StatusAt, Known, SplitAt, Told, VerdictOnce, VerdictMatchesStatus, DeferredCompletion
<1> QED
  BY <1>1, <1>2, <1>3, <1>4, <1>5, ExecutorTells DEF Next, Reboot

LEMMA Tells == Spec => []VerdictInv
<1>1. Init => VerdictInv
  BY DEF Init, VerdictInv, Sole, Bound, StatusAt, Working, Yielding, Known, Told, VerdictOnce,
     VerdictMatchesStatus, DeferredCompletion
<1> QED
  BY <1>1, Typed, BootHolds, TellStep, PTL DEF Spec

\* CodeValdWork hears one verdict of a run, and hears it once, by however many
\* calls, sessions, rollbacks, crashes and boots the run got there, unless two
\* executors read the run before either had written running.
THEOREM OneVerdict == Spec => []VerdictOnce
<1>1. VerdictInv => VerdictOnce
  BY DEF VerdictInv, Told
<1> QED
  BY <1>1, Tells, PTL

\* And the verdict is what the row says, until a rollback freezes the row, or
\* the store refused the failed status; with the same exception.
THEOREM VerdictsAreTrue == Spec => []VerdictMatchesStatus
<1>1. VerdictInv => VerdictMatchesStatus
  BY DEF VerdictInv, Told
<1> QED
  BY <1>1, Tells, PTL

\* A task whose run announced sub-tasks is completed with HasSubtasks; with the
\* same exception.
THEOREM SubtasksAreMentioned == Spec => []DeferredCompletion
<1>1. VerdictInv => DeferredCompletion
  BY DEF VerdictInv, Told
<1> QED
  BY <1>1, Tells, PTL

-----------------------------------------------------------------------------
(* One executor per run *)

\* Each run has one executor: it came with a dispatched event, or there is only
\* one RPC.  The code does not enforce it (the status check of
\* ExecuteRunStreaming and the write of running are two steps).
Alone == \A p \in Handlers : Procs = {p}

-----------------------------------------------------------------------------
(* Who works on what *)

OwnInv ==
  /\ \A p, q \in Procs : p # q =>
       /\ job[p] \in Runs => job[p] \notin {job[q], next[q]}
       /\ next[p] \in Runs => next[p] \notin {job[q], next[q]}
  /\ \A p \in Procs :
       /\ job[p] \in Runs => status[job[p]] # "none" /\ job[p] # next[p]
       /\ next[p] \in Runs => status[next[p]] # "none"
       /\ pc[p] \in {"idle", "done"} => job[p] = NoRun
       /\ pc[p] \notin {"linkAgent", "linkFrom"} => next[p] = NoRun

\* What a step of an executor leaves alone.
Own(p) ==
  /\ UNCHANGED <<bootVars, rbVars>> /\ lost \subseteq lost'
  /\ \A q \in Procs \ {p} : pc'[q] = pc[q] /\ job'[q] = job[q] /\ next'[q] = next[q]
  /\ \A r \in Runs :
       /\ status'[r] # status[r] => r = job[p] \/ status[r] = "none"
       /\ task'[r] # task[r] => status[r] = "none"
       /\ status'[r] = "none" => status[r] = "none"
  /\ \/ job'[p] \in {NoRun, job[p]}
     \/ job'[p] \in Runs /\ job'[p] = next[p] /\ next'[p] = NoRun
     \/ job'[p] \in Runs /\ status[job'[p]] = "none" /\ status'[job'[p]] # "none"
     \/ job'[p] \in Runs /\ p \in Handlers /\ status[job'[p]] \in {"pending_intake", "pending_execution"}
  /\ \/ next'[p] \in {NoRun, next[p]}
     \/ next'[p] \in Runs /\ status[next'[p]] = "none" /\ status'[next'[p]] # "none"
  /\ pc'[p] \in {"idle", "done"} => job'[p] = NoRun
  /\ pc'[p] \notin {"linkAgent", "linkFrom"} => next'[p] = NoRun
  /\ job'[p] \in Runs => job'[p] # next'[p]

\* Moving on within a call, and returning from it.
LEMMA Moves ==
  ASSUME TypeInv, OwnInv, NEW p \in Procs, pc[p] \notin {"linkAgent", "linkFrom"},
         \/ Return(p)
         \/ \E l \in Labels \ {"idle", "done"} : Goto(p, l) /\ UNCHANGED <<job, next>>
  PROVE  /\ \A q \in Procs \ {p} : pc'[q] = pc[q] /\ job'[q] = job[q] /\ next'[q] = next[q]
         /\ job'[p] \in {NoRun, job[p]} /\ next'[p] = NoRun
         /\ pc'[p] \in {"idle", "done"} => job'[p] = NoRun
         /\ job'[p] \in Runs => job'[p] # next'[p]
BY PoolAssumption DEF TypeInv, ExecOK, OwnInv, Return, Goto

\* The writes of a status.
LEMMA Writes ==
  ASSUME TypeInv, NEW p \in Procs, job[p] \in Runs, NEW s \in Status,
         \/ SetStatus(job[p], s) /\ UNCHANGED lost
         \/ WriteIgnoringError(p, s)
         \/ \E l : WriteOrReturn(p, s, l)
  PROVE  /\ lost \subseteq lost'
         /\ \A r \in Runs : /\ status'[r] # status[r] => r = job[p]
                            /\ status'[r] = "none" => status[r] = "none"
BY DEF TypeInv, RunsOK, SetStatus, WriteIgnoringError, WriteOrReturn, Status, Frozen

LEMMA ExecutorOwn ==
  ASSUME TypeInv, OwnInv, NEW p \in Procs, Call(p) \/ Executor(p) \/ ClientGone(p)
  PROVE  Own(p)
<1> USE DEF Own, Others
<1>1. CASE IntakeRun(p)
  BY <1>1, FreshIds DEF IntakeRun, SetStatus, Goto, OwnInv, TypeInv, RunsOK, ExecOK
<1>2. CASE IntakeRejected(p) \/ AgentMissing(p)
  BY <1>2, Moves DEF IntakeRejected, AgentMissing, runVars
<1>17. CASE SetupFails(p)
  <2>1. /\ lost \subseteq lost' /\ UNCHANGED task
        /\ \A r \in Runs : /\ status'[r] # status[r] => r = job[p]
                           /\ status'[r] = "none" => status[r] = "none"
    BY <1>17 DEF SetupFails, SetStatus, Fields, TypeInv, RunsOK
  <2> QED
    BY <1>17, <2>1, Moves DEF SetupFails
<1>3. CASE LinkIntake(p)
  BY <1>3, Moves, LabelNames DEF LinkIntake, Locals
<1>4. CASE BeginExecute(p)
  <2>1. UNCHANGED <<status, task, lost, bootVars, rbVars>>
    BY <1>4 DEF BeginExecute, runVars
  <2>2. CASE Return(p)
    BY <1>4, <2>1, <2>2, Moves DEF BeginExecute
  <2>3. CASE ~Return(p)
    <3>1. \E l \in {"inputs", "resolve"} : Goto(p, l) /\ job' = [job EXCEPT ![p] = job[p]] /\ UNCHANGED next
      BY <1>4, <2>3 DEF BeginExecute, Admit
    <3>2. UNCHANGED <<job, next>>
      BY <3>1 DEF TypeInv, ExecOK
    <3> QED
      BY <1>4, <2>1, <3>1, <3>2, Moves, LabelNames DEF BeginExecute
  <2> QED
    BY <2>2, <2>3
<1>5. CASE CallExecuteRun(p)
  <2>1. UNCHANGED <<status, task, lost, bootVars, rbVars>> /\ p \in Handlers /\ pc[p] = "idle"
    BY <1>5 DEF CallExecuteRun, runVars
  <2>2. PICK r \in Runs : Admit(p, r)
    BY <1>5 DEF CallExecuteRun
  <2>3. CASE Return(p)
    BY <2>1, <2>3, Moves
  <2>4. CASE ~Return(p)
    BY <2>1, <2>2, <2>4 DEF Admit, Goto, OwnInv, TypeInv, ExecOK
  <2> QED
    BY <2>3, <2>4
<1>6. CASE StoreInputs(p) \/ StartRunning(p)
  BY <1>6, Moves, Writes, HasJob, LabelNames, StatusNames DEF StoreInputs, StartRunning, Locals, Fields, TypeInv
<1>7. CASE AnnounceStarted(p) \/ LLMReturns(p) \/ DispatchActions(p) \/ AnnounceYielded(p)
  BY <1>7, Moves, LabelNames DEF AnnounceStarted, LLMReturns, DispatchActions, AnnounceYielded, Locals, runVars
<1>8. CASE AnnounceCompleted(p) \/ AnnounceFailed(p) \/ AnnounceDecomposed(p)
  BY <1>8, Moves DEF AnnounceCompleted, AnnounceFailed, AnnounceDecomposed, runVars
<1>9. CASE WriteCompleted(p) \/ WriteDecomposed(p)
  <2>1. PICK l \in {"dispatch", "announceDecomposed"} : WriteOrReturn(p, "completed", l)
    BY <1>9 DEF WriteCompleted, WriteDecomposed
  <2>2. Return(p) \/ (Goto(p, l) /\ UNCHANGED <<job, next>>)
    BY <2>1 DEF WriteOrReturn, Locals
  <2> QED
    BY <1>9, <2>1, <2>2, Moves, Writes, HasJob, LabelNames, StatusNames DEF WriteCompleted, WriteDecomposed, Fields, TypeInv
<1>10. CASE WriteFailed(p) \/ WriteYielded(p)
  BY <1>10, Moves, Writes, HasJob, LabelNames, StatusNames DEF WriteFailed, WriteYielded, Locals, Fields, TypeInv
<1>11. CASE BackfillChain(p)
  BY <1>11, Moves, LabelNames DEF BackfillChain
<1>12. CASE CreateSuccessor(p)
  BY <1>12, FreshIds DEF CreateSuccessor, SetStatus, Goto, OwnInv, TypeInv, RunsOK, ExecOK
<1>13. CASE LinkSuccessorAgent(p)
  BY <1>13 DEF LinkSuccessorAgent, Locals, Goto, OwnInv, TypeInv, ExecOK
<1>14. CASE SuccessorFails(p)
  BY <1>14, PoolAssumption DEF SuccessorFails, Return, TypeInv, ExecOK
<1>15. CASE LinkContinuesFrom(p)
  BY <1>15, PoolAssumption DEF LinkContinuesFrom, Goto, OwnInv, TypeInv, ExecOK
<1>16. CASE ClientGone(p)
  BY <1>16 DEF ClientGone, OwnInv, runVars
<1> HIDE DEF Own
<1> QED
  BY <1>1, <1>2, <1>3, <1>4, <1>5, <1>6, <1>7, <1>8, <1>9, <1>10, <1>11, <1>12, <1>13,
     <1>14, <1>15, <1>16, <1>17 DEF Call, Executor, Setup, Execute, Yield

LEMMA OwnStep == Alone /\ TypeInv /\ BootInv /\ OwnInv /\ [Next]_vars => OwnInv'
<1> SUFFICES ASSUME Alone, TypeInv, BootInv, OwnInv, [Next]_vars PROVE OwnInv'
  OBVIOUS
<1>1. ASSUME NEW p \in Procs, Call(p) \/ Executor(p) \/ ClientGone(p) PROVE OwnInv'
  <2>1. Own(p)
    BY <1>1, ExecutorOwn
  <2>2. \A q \in Procs : q # p => p \notin Handlers
    BY DEF Alone
  <2>3. ASSUME NEW q \in Procs, q # p
        PROVE  /\ job'[p] \in Runs => job'[p] \notin {job[q], next[q]}
               /\ next'[p] \in Runs => next'[p] \notin {job[q], next[q]}
    BY <2>1, <2>2, <2>3, PoolAssumption DEF Own, OwnInv
  <2>4. /\ job'[p] \in Runs => status'[job'[p]] # "none"
        /\ next'[p] \in Runs => status'[next'[p]] # "none"
    BY <2>1, PoolAssumption DEF Own, OwnInv
  <2>5. ASSUME NEW q \in Procs, q # p
        PROVE  /\ job[q] \in Runs => status'[job[q]] # "none"
               /\ next[q] \in Runs => status'[next[q]] # "none"
    BY <2>1, <2>5 DEF Own, OwnInv
  <2> QED
    BY <2>1, <2>3, <2>4, <2>5 DEF Own, OwnInv
<1>2. ASSUME UNCHANGED <<pc, job, next>>,
             \A r \in Runs : status'[r] = "none" => status[r] = "none"
      PROVE  OwnInv'
  BY <1>2 DEF OwnInv
<1>3. ASSUME NEW c \in Coords, ListRunsForRollback(c) \/ RollbackStep(c) PROVE OwnInv'
  <2>1. UNCHANGED <<pc, job, next>>
    BY <1>3 DEF ListRunsForRollback, RollbackStep, RollbackSkip, RollbackPatch, RollbackAnnounce,
       RollbackFails, RollbackReturns, execVars
  <2>2. \A r \in Runs : status'[r] = "none" => status[r] = "none"
    BY <1>3 DEF ListRunsForRollback, RollbackStep, RollbackSkip, RollbackPatch, RollbackAnnounce,
       RollbackFails, RollbackReturns, RollbackTarget, SetStatus, runVars, TypeInv, RunsOK
  <2> QED
    BY <1>2, <2>1, <2>2
<1>4. CASE Crash
  BY <1>4, PoolAssumption DEF Crash, OwnInv, runVars
<1>5. CASE Boot \/ Serve \/ UNCHANGED vars
  BY <1>2, <1>5 DEF Boot, Serve, vars, runVars, execVars
<1>6. CASE SweepRun
  BY <1>2, <1>6 DEF SweepRun, SetStatus, execVars, TypeInv, RunsOK
<1> QED
  BY <1>1, <1>3, <1>4, <1>5, <1>6 DEF Next, Reboot

LEMMA OwnInit == Init => OwnInv
BY PoolAssumption DEF Init, OwnInv

LEMMA Owned == ASSUME Alone PROVE Spec => []OwnInv
<1>1. TypeInv /\ BootInv /\ OwnInv /\ [Next]_vars => OwnInv'
  BY OwnStep
<1> QED
  BY <1>1, OwnInit, Typed, BootHolds, PTL DEF Spec

\* Without RPCs no two executors ever read the same run.
LEMMA NothingShared == ASSUME Handlers = {} PROVE Spec => [](OwnInv /\ shared = {})
<1> DEFINE Inv == shared = {}
<1>1. Init => Inv
  BY DEF Init
<1>2. TypeInv /\ OwnInv /\ Inv /\ [Next]_vars => Inv'
  <2> SUFFICES ASSUME TypeInv, OwnInv, shared = {}, [Next]_vars PROVE shared' = {}
    OBVIOUS
  <2>1. ASSUME NEW p \in Procs, BeginExecute(p) PROVE shared' = {}
    <3>1. ~Contested(p, job[p])
      BY <2>1, HasJob DEF BeginExecute, Contested, OwnInv, TypeInv
    <3> QED
      BY <2>1, <3>1 DEF BeginExecute, Admit, Return
  <2>2. ASSUME NEW p \in Procs, Call(p) \/ Executor(p) \/ ClientGone(p), ~BeginExecute(p)
        PROVE  shared' = {}
    BY <2>2 DEF Call, IntakeRun, IntakeRejected, CallExecuteRun, Executor, Setup,
       LinkIntake, StoreInputs, StartRunning, AgentMissing, SetupFails,
       Execute, AnnounceStarted, LLMReturns, WriteCompleted, DispatchActions,
       AnnounceCompleted, WriteFailed, AnnounceFailed, WriteDecomposed, AnnounceDecomposed,
       Yield, BackfillChain, WriteYielded, AnnounceYielded, CreateSuccessor,
       LinkSuccessorAgent, SuccessorFails, LinkContinuesFrom, ClientGone,
       WriteOrReturn, Return, Locals
  <2>3. ASSUME NEW c \in Coords, ListRunsForRollback(c) \/ RollbackStep(c) PROVE shared' = {}
    BY <2>3 DEF ListRunsForRollback, RollbackStep, RollbackSkip, RollbackPatch, RollbackAnnounce,
       RollbackFails, RollbackReturns, execVars
  <2>4. CASE Crash \/ Reboot \/ UNCHANGED vars
    BY <2>4 DEF Crash, Reboot, Boot, SweepRun, Serve, vars, execVars
  <2> QED
    BY <2>1, <2>2, <2>3, <2>4 DEF Next
<1>3. Alone
  BY DEF Alone
<1>4. Spec => []OwnInv
  BY <1>3, Owned
<1> QED
  BY <1>1, <1>2, <1>4, Typed, PTL DEF Spec

-----------------------------------------------------------------------------
(* The sessions of a chain *)

\* Places of an executor on the way to its successor, and after it was created.
Carry == {"inputs", "resolve", "started", "llm", "chain", "yield", "announceYield", "successor"}
After == {"linkAgent", "linkFrom"}

\* The row of a session that stopped for another one, as yieldRun leaves it.
Closed(r) == \/ status[r] \in {"yielded"} \cup Frozen
             \/ r \in lost /\ status[r] \in {"running", "failed"}

\* And nobody will write it again.
Left(r) == Closed(r) /\ \A p \in Procs : next[p] # r /\ (job[p] = r => pc[p] \in After)

\* The chains as the rows have them.
RowsOfChains ==
  /\ \A r \in Runs : /\ chain[r] = NoChain => seg[r] <= 1
                     /\ status[r] = "none" => chain[r] = NoChain /\ seg[r] = 0
  /\ \A q, r \in Runs : chain[q] = chain[r] /\ chain[r] # NoChain =>
       /\ q # r => seg[q] # seg[r]
       /\ seg[q] < seg[r] => Left(q)

\* Where a session comes from.
Origin(r) ==
  /\ \E q \in Runs : /\ Left(q) /\ seg[q] = seg[r] - 1
                     /\ chain[q] = chain[r] \/ (faults > 0 /\ seg[q] = 1 /\ chain[q] = NoChain)
  /\ \A s \in 1 .. (seg[r] - 1) :
       (\E q \in Runs : chain[q] = chain[r] /\ seg[q] = s) \/ (s = 1 /\ faults > 0)

Origins == \A r \in Runs : seg[r] > 1 => Origin(r)

\* What an executor knows of its chain: its run is the last session of it, or
\* the successor it has created.
AtTip(p) ==
  /\ job[p] \in Runs => seg[job[p]] >= 1 /\ chain[job[p]] \in {NoChain, myChain[p]}
  /\ pc[p] \in Carry =>
       /\ mySeg[p] = seg[job[p]]
       /\ chain[job[p]] = myChain[p] \/ (mySeg[p] = 1 /\ faults > 0)
       /\ \A q \in Runs \ {job[p]} : chain[q] = myChain[p] /\ chain[q] # NoChain =>
            seg[q] < mySeg[p] /\ Left(q)
  /\ pc[p] = "chain" => myChain[p] = NoChain
  /\ pc[p] \in {"yield", "announceYield", "successor"} => myChain[p] # NoChain
  /\ pc[p] \in {"announceYield", "successor"} => Closed(job[p])
  /\ pc[p] \in After => /\ myChain[p] # NoChain /\ chain[next[p]] = myChain[p]
                        /\ seg[next[p]] >= 1

\* No two executors carry on the same chain.
Apart == \A p, q \in Procs : p # q /\ myChain[p] # NoChain => myChain[q] # myChain[p]

ChainInv == RowsOfChains /\ Origins /\ Apart /\ \A p \in Procs : AtTip(p)

\* A step that writes no row of somebody else and none behind a successor.
Behind(p) ==
  /\ Own(p) /\ (faults > 0 => faults' > 0)
  /\ pc[p] \in After => UNCHANGED status /\ (job'[p] = job[p] => pc'[p] \in After)
  /\ \A q \in Procs \ {p} : myChain'[q] = myChain[q] /\ mySeg'[q] = mySeg[q]

LEMMA MoreFaults ==
  ASSUME TypeInv, Handlers = {}, NEW p \in Procs, StoreFails(p) PROVE faults' > 0
BY DEF TypeInv, ExecOK, StoreFails

LEMMA ExecutorBehind ==
  ASSUME TypeInv, Handlers = {}, OwnInv, NEW p \in Procs, Call(p) \/ Executor(p) \/ ClientGone(p)
  PROVE  Behind(p)
<1>1. Own(p)
  BY ExecutorOwn
<1>2. faults > 0 => faults' > 0
  <2>1. CASE StoreFails(p)
    BY <2>1, MoreFaults
  <2>2. CASE UNCHANGED faults
    BY <2>2 DEF TypeInv
  <2>3. StoreFails(p) \/ UNCHANGED faults
    BY DEF Call, IntakeRun, IntakeRejected, CallExecuteRun, Executor, Setup,
       LinkIntake, BeginExecute, StoreInputs, StartRunning, AgentMissing, SetupFails,
       Execute, AnnounceStarted, LLMReturns, WriteCompleted, DispatchActions, AnnounceCompleted,
       WriteFailed, AnnounceFailed, WriteDecomposed, AnnounceDecomposed,
       Yield, BackfillChain, WriteYielded, AnnounceYielded, CreateSuccessor,
       LinkSuccessorAgent, SuccessorFails, LinkContinuesFrom, ClientGone,
       WriteOrReturn, WriteIgnoringError
  <2> QED
    BY <2>1, <2>2, <2>3
<1>3. ASSUME pc[p] \in After PROVE UNCHANGED status /\ (job'[p] = job[p] => pc'[p] \in After)
  <2>1. LinkSuccessorAgent(p) \/ LinkContinuesFrom(p) \/ SuccessorFails(p) \/ ClientGone(p)
    BY <1>3 DEF After, Call, IntakeRun, IntakeRejected, CallExecuteRun, Executor, Setup,
       LinkIntake, BeginExecute, StoreInputs, StartRunning, AgentMissing, SetupFails,
       Execute, AnnounceStarted, LLMReturns, WriteCompleted, DispatchActions, AnnounceCompleted,
       WriteFailed, AnnounceFailed, WriteDecomposed, AnnounceDecomposed,
       Yield, BackfillChain, WriteYielded, AnnounceYielded, CreateSuccessor
  <2>2. CASE LinkSuccessorAgent(p)
    BY <2>2 DEF LinkSuccessorAgent, Goto, After, TypeInv, ExecOK
  <2>3. CASE LinkContinuesFrom(p)
    <3>1. job'[p] = next[p] /\ next[p] \in Runs /\ pc[p] = "linkFrom"
      BY <2>3 DEF LinkContinuesFrom, TypeInv, ExecOK
    <3>2. job[p] # next[p]
      BY <3>1 DEF OwnInv
    <3> QED
      BY <2>3, <3>1, <3>2 DEF LinkContinuesFrom
  <2>4. CASE SuccessorFails(p)
    BY <1>3, <2>4, HasJob, PoolAssumption DEF SuccessorFails, Return, After, runVars, TypeInv, ExecOK
  <2>5. CASE ClientGone(p)
    BY <1>3, <2>5 DEF ClientGone, runVars
  <2> QED
    BY <2>1, <2>2, <2>3, <2>4, <2>5
<1>4. \A q \in Procs \ {p} : myChain'[q] = myChain[q] /\ mySeg'[q] = mySeg[q]
  BY DEF TypeInv, ExecOK, Call, IntakeRun, IntakeRejected, CallExecuteRun, Executor, Setup,
       LinkIntake, BeginExecute, StoreInputs, StartRunning, AgentMissing, SetupFails,
       Execute, AnnounceStarted, LLMReturns, WriteCompleted, DispatchActions, AnnounceCompleted,
       WriteFailed, AnnounceFailed, WriteDecomposed, AnnounceDecomposed,
       Yield, BackfillChain, WriteYielded, AnnounceYielded, CreateSuccessor,
       LinkSuccessorAgent, SuccessorFails, LinkContinuesFrom, ClientGone,
       WriteOrReturn, Admit, Return, Locals
<1> QED
  BY <1>1, <1>2, <1>3, <1>4 DEF Behind

\* A session left behind stays so.
LEMMA LeftKept ==
  ASSUME TypeInv, Handlers = {}, OwnInv, NEW p \in Procs, Behind(p), NEW r \in Runs, Left(r)
  PROVE  Left(r)'
<1>1. status[r] # "none" /\ (job[p] = r => pc[p] \in After)
  BY DEF Left, Closed, Frozen
<1>2. status'[r] = status[r] /\ lost \subseteq lost'
  BY <1>1 DEF Behind, Own
<1>3. Closed(r)'
  BY <1>2 DEF Left, Closed
<1>4. next'[p] # r /\ (job'[p] = r => pc'[p] \in After)
  BY <1>1, PoolAssumption DEF Left, Behind, Own
<1>5. ASSUME NEW q \in Procs, q # p PROVE next'[q] # r /\ (job'[q] = r => pc'[q] \in After)
  BY <1>5 DEF Left, Behind, Own
<1> QED
  BY <1>3, <1>4, <1>5 DEF Left

\* What an executor knows outlives a step of another one that leaves its chain alone.
LEMMA OtherTips ==
  ASSUME TypeInv, Handlers = {}, OwnInv, NEW p \in Procs, Behind(p),
         NEW q \in Procs, q # p, AtTip(q),
         \A r \in {job[q], next[q]} \cap Runs : chain'[r] = chain[r] /\ seg'[r] = seg[r],
         \A r \in Runs : chain'[r] = myChain[q] /\ chain'[r] # NoChain =>
                           chain[r] = chain'[r] /\ seg[r] = seg'[r]
  PROVE  AtTip(q)'
<1>1. /\ pc'[q] = pc[q] /\ job'[q] = job[q] /\ next'[q] = next[q]
      /\ myChain'[q] = myChain[q] /\ mySeg'[q] = mySeg[q]
  BY DEF Behind, Own
<1>2. /\ job[q] \in Runs => chain'[job[q]] = chain[job[q]] /\ seg'[job[q]] = seg[job[q]]
      /\ next[q] \in Runs => chain'[next[q]] = chain[next[q]] /\ seg'[next[q]] = seg[next[q]]
  OBVIOUS
<1>3. faults > 0 => faults' > 0
  BY DEF Behind
<1>4. pc[q] \in Carry => job[q] \in Runs
  BY HasJob DEF Carry, TypeInv
<1>5. pc[q] \in After => next[q] \in Runs
  BY DEF After, TypeInv, ExecOK
<1>6. ASSUME pc[q] \in Carry
      PROVE  /\ mySeg[q] = seg'[job[q]]
             /\ chain'[job[q]] = myChain[q] \/ (mySeg[q] = 1 /\ faults' > 0)
             /\ \A r \in Runs \ {job[q]} : chain'[r] = myChain[q] /\ chain'[r] # NoChain =>
                  seg'[r] < mySeg[q] /\ Left(r)'
  <2>1. mySeg[q] = seg'[job[q]] /\ (chain'[job[q]] = myChain[q] \/ (mySeg[q] = 1 /\ faults' > 0))
    BY <1>2, <1>3, <1>4, <1>6 DEF AtTip
  <2>2. ASSUME NEW r \in Runs \ {job[q]}, chain'[r] = myChain[q], chain'[r] # NoChain
        PROVE  seg'[r] < mySeg[q] /\ Left(r)'
    <3>1. chain[r] = chain'[r] /\ seg[r] = seg'[r]
      BY <2>2
    <3>2. seg[r] < mySeg[q] /\ Left(r)
      BY <1>6, <2>2, <3>1 DEF AtTip
    <3> QED
      BY <3>1, <3>2, LeftKept
  <2> QED
    BY <2>1, <2>2
<1>7. ASSUME pc[q] \in {"announceYield", "successor"} PROVE Closed(job[q])'
  <2>1. job[q] \in Runs /\ Closed(job[q]) /\ status[job[q]] # "none"
    BY <1>7, <1>4 DEF Carry, AtTip, OwnInv
  <2>2. status'[job[q]] = status[job[q]] /\ lost \subseteq lost'
    BY <2>1 DEF Behind, Own, OwnInv
  <2> QED
    BY <1>1, <2>1, <2>2 DEF Closed
<1> QED
  BY <1>1, <1>2, <1>4, <1>5, <1>6, <1>7 DEF AtTip


\* A session's origin outlives a step that leaves alone what is in a chain or left behind.
LEMMA OriginKept ==
  ASSUME TypeInv, Handlers = {}, OwnInv, ChainInv, NEW p \in Procs, Behind(p),
         NEW r \in Runs, seg[r] > 1, seg'[r] = seg[r], chain'[r] = chain[r],
         \A q \in Runs : chain[q] # NoChain \/ Left(q) => chain'[q] = chain[q] /\ seg'[q] = seg[q]
  PROVE  Origin(r)'
<1>1. chain[r] # NoChain
  <2>1. seg[r] \in Nat
    BY DEF TypeInv, RunsOK
  <2> QED
    BY <2>1 DEF ChainInv, RowsOfChains
<1>2. PICK q \in Runs : /\ Left(q) /\ seg[q] = seg[r] - 1
                        /\ chain[q] = chain[r] \/ (faults > 0 /\ seg[q] = 1 /\ chain[q] = NoChain)
  BY DEF ChainInv, Origins, Origin
<1>3. Left(q)' /\ chain'[q] = chain[q] /\ seg'[q] = seg[q]
  BY <1>2, LeftKept
<1>4. \A s \in 1 .. (seg[r] - 1) :
        (\E u \in Runs : chain[u] = chain[r] /\ seg[u] = s) \/ (s = 1 /\ faults > 0)
  BY DEF ChainInv, Origins, Origin
<1>5. \A u \in Runs : chain[u] = chain[r] => chain'[u] = chain[u] /\ seg'[u] = seg[u]
  BY <1>1
<1>6. faults > 0 => faults' > 0
  BY DEF Behind
<1> QED
  BY <1>2, <1>3, <1>4, <1>5, <1>6 DEF Origin

\* A step that writes neither chain_id nor segment_number.
LEMMA ChainQuiet ==
  ASSUME TypeInv, Handlers = {}, OwnInv, ChainInv, NEW p \in Procs, Behind(p),
         UNCHANGED <<chain, seg>>, AtTip(p)',
         \/ myChain'[p] \in {NoChain, myChain[p]}
         \/ job[p] \in Runs /\ myChain'[p] = chain[job[p]]
  PROVE  ChainInv'
<1>1. RowsOfChains'
  <2>1. \A r \in Runs : status'[r] = "none" => status[r] = "none"
    BY DEF Behind, Own
  <2> QED
    BY <2>1, LeftKept DEF ChainInv, RowsOfChains
<1>2. Origins'
  BY OriginKept DEF ChainInv, Origins
<1>3. Apart'
  <2>1. myChain'[p] \in {NoChain, myChain[p]}
    BY DEF ChainInv, AtTip
  <2> QED
    BY <2>1 DEF ChainInv, Apart, Behind
<1>4. ASSUME NEW q \in Procs, q # p PROVE AtTip(q)'
  BY <1>4, OtherTips DEF ChainInv
<1> QED
  BY <1>1, <1>2, <1>3, <1>4 DEF ChainInv

\* An executor that only moves on.
LEMMA TipStays ==
  ASSUME TypeInv, Handlers = {}, OwnInv, NEW p \in Procs, Behind(p), AtTip(p), UNCHANGED <<chain, seg>>,
         job'[p] = job[p], next'[p] = next[p], myChain'[p] = myChain[p], mySeg'[p] = mySeg[p],
         pc'[p] \in Carry => pc[p] \in Carry,
         pc'[p] = "chain" => myChain[p] = NoChain,
         pc'[p] \in {"yield", "announceYield", "successor"} => myChain[p] # NoChain,
         pc'[p] \in {"announceYield", "successor"} => Closed(job[p])',
         pc'[p] \in After => pc[p] \in After
  PROVE  AtTip(p)'
<1>1. faults > 0 => faults' > 0
  BY DEF Behind
<1>2. ASSUME pc'[p] \in Carry, NEW q \in Runs \ {job[p]}, chain[q] = myChain[p], chain[q] # NoChain
      PROVE  seg[q] < mySeg[p] /\ Left(q)'
  BY <1>2, LeftKept DEF AtTip
<1> QED
  BY <1>1, <1>2 DEF AtTip

LEMMA TipLeaves ==
  ASSUME TypeInv, NEW p \in Procs, Return(p) PROVE AtTip(p)'
<1>1. job'[p] = NoRun /\ pc'[p] \in {"idle", "done"}
  BY DEF Return, TypeInv, ExecOK
<1> QED
  BY <1>1, PoolAssumption DEF AtTip, Carry, After

\* The run that is admitted is the last session of its chain: had it a later
\* one, it would have been left behind and not be in anybody's hands.
LEMMA TipAdmitted ==
  ASSUME TypeInv, Handlers = {}, OwnInv, ChainInv, NEW p \in Procs, BeginExecute(p)
  PROVE  AtTip(p)' /\ UNCHANGED <<chain, seg>>
         /\ (myChain'[p] = NoChain \/ (job[p] \in Runs /\ myChain'[p] = chain[job[p]]))
<1> DEFINE r == job[p]
<1>1. r \in Runs /\ pc[p] = "begin" /\ UNCHANGED <<chain, seg, status, lost, faults>>
  BY HasJob DEF BeginExecute, runVars, TypeInv
<1>2. CASE Return(p)
  BY <1>1, <1>2, TipLeaves DEF Return, TypeInv, ExecOK
<1>3. CASE /\ pc'[p] \in {"inputs", "resolve"} /\ job'[p] = r /\ next'[p] = next[p]
           /\ myChain'[p] = chain[r] /\ mySeg'[p] = seg[r]
           /\ \A q \in Procs \ {p} : pc'[q] = pc[q] /\ job'[q] = job[q] /\ next'[q] = next[q]
  <2>1. ASSUME NEW q \in Runs \ {r}, chain[q] = chain[r], chain[q] # NoChain
        PROVE  seg[q] < seg[r] /\ Left(q)
    <3>1. ~Left(r)
      BY <1>1 DEF Left, After
    <3>2. seg[q] # seg[r] /\ ~(seg[r] < seg[q])
      BY <1>1, <2>1, <3>1 DEF ChainInv, RowsOfChains
    <3>3. seg[q] \in Nat /\ seg[r] \in Nat
      BY <1>1 DEF TypeInv, RunsOK
    <3>4. seg[q] < seg[r]
      BY <3>2, <3>3
    <3> QED
      BY <1>1, <2>1, <3>4 DEF ChainInv, RowsOfChains
  <2>2. ASSUME NEW q \in Runs \ {r}, Left(q) PROVE Left(q)'
    BY <1>1, <1>3, <2>2 DEF Left, Closed
  <2> QED
    BY <1>1, <1>3, <2>1, <2>2 DEF AtTip, Carry, After, ChainInv
<1> QED
  BY <1>1, <1>2, <1>3 DEF BeginExecute, Admit, Goto, TypeInv, ExecOK


\* The steps of an executor that create no session and no chain.
LEMMA QuietExecutor ==
  ASSUME TypeInv, Handlers = {}, OwnInv, VerdictInv, shared = {}, ChainInv, NEW p \in Procs,
         Call(p) \/ Executor(p) \/ ClientGone(p),
         ~IntakeRun(p), ~BackfillChain(p), ~CreateSuccessor(p)
  PROVE  ChainInv'
<1> USE DEF Carry, After
<1>1. Behind(p) /\ AtTip(p) /\ p \notin Handlers
  BY ExecutorBehind DEF ChainInv
<1>2. CASE IntakeRejected(p) \/ AgentMissing(p) \/ SetupFails(p) \/ SuccessorFails(p)
           \/ AnnounceCompleted(p) \/ AnnounceFailed(p) \/ AnnounceDecomposed(p)
  <2>1. Return(p) /\ UNCHANGED <<chain, seg>>
    BY <1>2 DEF IntakeRejected, AgentMissing, SetupFails, SuccessorFails, AnnounceCompleted,
       AnnounceFailed, AnnounceDecomposed, runVars, Fields
  <2>2. myChain'[p] = NoChain
    BY <2>1 DEF Return, TypeInv, ExecOK
  <2> QED
    BY <1>1, <2>1, <2>2, TipLeaves, ChainQuiet
<1>3. CASE BeginExecute(p)
  BY <1>1, <1>3, TipAdmitted, ChainQuiet
<1>4. CASE LinkIntake(p) \/ StoreInputs(p) \/ StartRunning(p) \/ AnnounceStarted(p)
           \/ DispatchActions(p) \/ WriteCompleted(p) \/ WriteDecomposed(p) \/ WriteFailed(p)
  <2>1. UNCHANGED <<chain, seg>>
    BY <1>4 DEF LinkIntake, StoreInputs, StartRunning, AnnounceStarted, DispatchActions,
       WriteCompleted, WriteDecomposed, WriteFailed, Fields, runVars
  <2>2. CASE Return(p)
    BY <1>1, <2>1, <2>2, TipLeaves, ChainQuiet DEF Return, TypeInv, ExecOK
  <2>3. CASE ~Return(p)
    <3>1. UNCHANGED Locals
      BY <1>1, <1>4, <2>3 DEF LinkIntake, StoreInputs, StartRunning, AnnounceStarted, DispatchActions,
         WriteCompleted, WriteDecomposed, WriteFailed, WriteOrReturn, Locals
    <3>2. /\ pc'[p] \notin {"chain", "yield", "announceYield", "successor"} \cup After
          /\ pc'[p] \in Carry => pc[p] \in Carry
      BY <1>4, <2>3 DEF LinkIntake, StoreInputs, StartRunning, AnnounceStarted, DispatchActions,
         WriteCompleted, WriteDecomposed, WriteFailed, WriteOrReturn, Goto, TypeInv, ExecOK
    <3>3. AtTip(p)'
      BY <1>1, <2>1, <3>1, <3>2, TipStays DEF Locals
    <3> QED
      BY <1>1, <2>1, <3>1, <3>3, ChainQuiet DEF Locals
  <2> QED
    BY <2>2, <2>3
<1>5. CASE LLMReturns(p)
  <2>1. UNCHANGED <<chain, seg, Locals>>
    BY <1>5 DEF LLMReturns, runVars
  <2>2. /\ pc[p] = "llm" /\ pc'[p] \notin {"announceYield", "successor"} \cup After
        /\ pc'[p] = "chain" => myChain[p] = NoChain
        /\ pc'[p] = "yield" => myChain[p] # NoChain
    BY <1>5 DEF LLMReturns, Goto, TypeInv, ExecOK
  <2>3. AtTip(p)'
    BY <1>1, <2>1, <2>2, TipStays DEF Locals
  <2> QED
    BY <1>1, <2>1, <2>3, ChainQuiet DEF Locals
<1>6. CASE WriteYielded(p)
  <2>1. /\ UNCHANGED <<chain, seg, Locals>>
        /\ pc[p] = "yield" /\ pc'[p] = "announceYield" /\ job[p] \in Runs
    BY <1>6, HasJob DEF WriteYielded, Fields, Goto, TypeInv, ExecOK
  <2>2. Closed(job[p])'
    <3>1. status[job[p]] \in {"running"} \cup Frozen
      BY <2>1 DEF VerdictInv, StatusAt, Working
    <3> QED
      BY <1>6, <2>1, <3>1 DEF WriteYielded, WriteIgnoringError, SetStatus, Closed, Locals, TypeInv, RunsOK
  <2>3. AtTip(p)'
    BY <1>1, <2>1, <2>2, TipStays DEF Locals, AtTip
  <2> QED
    BY <1>1, <2>1, <2>3, ChainQuiet DEF Locals
<1>7. CASE AnnounceYielded(p)
  <2>1. /\ UNCHANGED <<chain, seg, Locals, status, lost>>
        /\ pc[p] = "announceYield" /\ pc'[p] = "successor"
    BY <1>7 DEF AnnounceYielded, runVars, Goto, TypeInv, ExecOK
  <2>2. Closed(job[p])'
    BY <1>1, <2>1 DEF AtTip, Closed, Locals
  <2>3. AtTip(p)'
    BY <1>1, <2>1, <2>2, TipStays DEF Locals, AtTip
  <2> QED
    BY <1>1, <2>1, <2>3, ChainQuiet DEF Locals
<1>8. CASE LinkSuccessorAgent(p)
  <2>1. /\ UNCHANGED <<chain, seg, Locals>>
        /\ pc[p] = "linkAgent" /\ pc'[p] = "linkFrom"
    BY <1>8 DEF LinkSuccessorAgent, Goto, TypeInv, ExecOK
  <2>2. AtTip(p)'
    BY <1>1, <2>1, TipStays DEF Locals
  <2> QED
    BY <1>1, <2>1, <2>2, ChainQuiet DEF Locals
<1>9. CASE LinkContinuesFrom(p)
  <2>1. /\ UNCHANGED <<chain, seg, myChain>>
        /\ pc[p] = "linkFrom" /\ pc'[p] = "begin" /\ job'[p] = next[p]
    BY <1>9 DEF LinkContinuesFrom, Goto, TypeInv, ExecOK
  <2>2. AtTip(p)'
    BY <1>1, <2>1 DEF AtTip
  <2> QED
    BY <1>1, <2>1, <2>2, ChainQuiet
<1> QED
  BY <1>1, <1>2, <1>3, <1>4, <1>5, <1>6, <1>7, <1>8, <1>9
  DEF Call, CallExecuteRun, ClientGone, Executor, Setup, Execute, Yield


\* A new run begins no chain yet.
LEMMA IntakeChain ==
  ASSUME TypeInv, Handlers = {}, OwnInv, ChainInv, NEW p \in Procs, IntakeRun(p)
  PROVE  ChainInv'
<1>1. Behind(p)
  BY ExecutorBehind DEF Call
<1>2. PICK n \in Runs : /\ status[n] = "none" /\ status' = [status EXCEPT ![n] = "pending_intake"]
                        /\ seg' = [seg EXCEPT ![n] = 1] /\ job' = [job EXCEPT ![p] = n]
  BY FreshIds DEF IntakeRun, SetStatus
<1>3. UNCHANGED <<chain, myChain>> /\ pc' = [pc EXCEPT ![p] = "intake"]
  BY DEF IntakeRun, Goto
<1>4. chain[n] = NoChain /\ ~Left(n)
  BY <1>2 DEF ChainInv, RowsOfChains, Left, Closed, Frozen
<1>5. \A r \in Runs \ {n} : seg'[r] = seg[r]
  BY <1>2 DEF TypeInv, RunsOK
<1>6. seg'[n] = 1 /\ status'[n] = "pending_intake" /\ \A r \in Runs \ {n} : status'[r] = status[r]
  BY <1>2 DEF TypeInv, RunsOK
<1>7. RowsOfChains'
  <2>1. \A r \in Runs : /\ chain[r] = NoChain => seg'[r] <= 1
                        /\ status'[r] = "none" => chain[r] = NoChain /\ seg'[r] = 0
    BY <1>5, <1>6 DEF ChainInv, RowsOfChains
  <2>2. ASSUME NEW q \in Runs, NEW r \in Runs, chain[q] = chain[r], chain[r] # NoChain
        PROVE  /\ q # r => seg'[q] # seg'[r]
               /\ seg'[q] < seg'[r] => Left(q)'
    BY <1>1, <1>4, <1>5, <2>2, LeftKept DEF ChainInv, RowsOfChains
  <2> QED
    BY <1>3, <2>1, <2>2 DEF RowsOfChains
<1>8. Origins'
  BY <1>1, <1>3, <1>4, <1>5, <1>6, OriginKept DEF ChainInv, Origins
<1>9. Apart'
  BY <1>3 DEF ChainInv, Apart
<1>10. AtTip(p)'
  BY <1>2, <1>3, <1>4, <1>6 DEF AtTip, Carry, After, TypeInv, ExecOK
<1>11. ASSUME NEW q \in Procs, q # p PROVE AtTip(q)'
  <2>1. n \notin {job[q], next[q]}
    BY <1>2 DEF OwnInv
  <2>2. \A r \in {job[q], next[q]} \cap Runs : chain'[r] = chain[r] /\ seg'[r] = seg[r]
    BY <1>3, <1>5, <2>1
  <2>3. \A r \in Runs : chain'[r] = myChain[q] /\ chain'[r] # NoChain => chain[r] = chain'[r] /\ seg[r] = seg'[r]
    BY <1>3, <1>4, <1>5
  <2> QED
    BY <1>1, <1>11, <2>2, <2>3, OtherTips DEF ChainInv
<1> QED
  BY <1>7, <1>8, <1>9, <1>10, <1>11 DEF ChainInv

\* A chain begins: its first session is not behind any other.
LEMMA BackfillStep ==
  ASSUME TypeInv, Handlers = {}, OwnInv, ChainInv, NEW p \in Procs, BackfillChain(p)
  PROVE  ChainInv'
<1> DEFINE r == job[p]
<1>1. Behind(p) /\ AtTip(p)
  BY ExecutorBehind DEF Executor, Yield, ChainInv
<1>2. /\ r \in Runs /\ pc[p] = "chain" /\ myChain[p] = NoChain
      /\ chain[r] = NoChain /\ mySeg[p] = seg[r] /\ seg[r] >= 1
  BY <1>1, HasJob DEF BackfillChain, AtTip, Carry, TypeInv
<1>3. seg[r] = 1
  BY <1>2 DEF ChainInv, RowsOfChains, TypeInv, RunsOK
<1>4. PICK c \in Chains :
        /\ \A u \in Runs : chain[u] # c
        /\ \A q \in Procs : myChain[q] # c
        /\ myChain' = [myChain EXCEPT ![p] = c]
        /\ \/ /\ chain' = [chain EXCEPT ![r] = c]
              /\ seg' = [seg EXCEPT ![r] = 1]
           \/ StoreFails(p) /\ UNCHANGED <<chain, seg>>
  BY DEF BackfillChain, FreshChain
<1>5. /\ mySeg' = [mySeg EXCEPT ![p] = 1] /\ pc' = [pc EXCEPT ![p] = "yield"]
      /\ UNCHANGED <<status, job, next, lost>>
  BY DEF BackfillChain, Goto
<1>6. UNCHANGED seg
  BY <1>2, <1>3, <1>4 DEF TypeInv, RunsOK
<1>7. /\ \A u \in Runs \ {r} : chain'[u] = chain[u]
      /\ chain'[r] = c \/ (chain'[r] = NoChain /\ faults' > 0)
      /\ c # NoChain /\ ~Left(r)
  BY <1>2, <1>4, MoreFaults, PoolAssumption DEF TypeInv, RunsOK, Left, After
<1>8. RowsOfChains'
  <2>1. \A u \in Runs : /\ chain'[u] = NoChain => seg[u] <= 1
                        /\ status[u] = "none" => chain'[u] = NoChain /\ seg[u] = 0
    BY <1>2, <1>3, <1>7 DEF ChainInv, RowsOfChains
  <2>2. ASSUME NEW q \in Runs, NEW u \in Runs, chain'[q] = chain'[u], chain'[u] # NoChain
        PROVE  /\ q # u => seg[q] # seg[u]
               /\ seg[q] < seg[u] => Left(q)'
    <3>1. CASE q = u
      BY <3>1 DEF TypeInv, RunsOK
    <3>2. CASE q # u
      BY <1>1, <1>2, <1>4, <1>7, <2>2, <3>2, LeftKept DEF ChainInv, RowsOfChains
    <3> QED
      BY <3>1, <3>2
  <2> QED
    BY <1>5, <1>6, <2>1, <2>2 DEF RowsOfChains
<1>9. Origins'
  BY <1>1, <1>2, <1>3, <1>6, <1>7, OriginKept DEF ChainInv, Origins
<1>10. Apart'
  BY <1>4 DEF ChainInv, Apart, TypeInv, ExecOK
<1>11. AtTip(p)'
  <2>1. pc'[p] = "yield" /\ mySeg'[p] = 1 /\ myChain'[p] = c /\ job'[p] = r
    BY <1>4, <1>5 DEF TypeInv, ExecOK
  <2>2. \A q \in Runs \ {r} : chain'[q] # c
    BY <1>4, <1>7
  <2> QED
    BY <1>2, <1>3, <1>6, <1>7, <2>1, <2>2 DEF AtTip, Carry, After
<1>12. ASSUME NEW q \in Procs, q # p PROVE AtTip(q)'
  <2>1. r \notin {job[q], next[q]}
    BY <1>2, <1>12 DEF OwnInv
  <2>2. \A u \in {job[q], next[q]} \cap Runs : chain'[u] = chain[u] /\ seg'[u] = seg[u]
    BY <1>6, <1>7, <2>1
  <2>3. \A u \in Runs : chain'[u] = myChain[q] /\ chain'[u] # NoChain => chain[u] = chain'[u] /\ seg[u] = seg'[u]
    BY <1>4, <1>6, <1>7
  <2> QED
    BY <1>1, <1>12, <2>2, <2>3, OtherTips DEF ChainInv
<1> QED
  BY <1>8, <1>9, <1>10, <1>11, <1>12 DEF ChainInv


\* The successor continues the run that yielded, and nothing else does.
LEMMA SuccessorStep ==
  ASSUME TypeInv, Handlers = {}, OwnInv, ChainInv, NEW p \in Procs, CreateSuccessor(p)
  PROVE  ChainInv'
<1>1. Behind(p) /\ AtTip(p)
  BY ExecutorBehind DEF Executor, Yield, ChainInv
<1> PICK r \in Runs : r = job[p]
  BY HasJob DEF CreateSuccessor, TypeInv
<1>2. /\ r = job[p] /\ pc[p] = "successor" /\ myChain[p] # NoChain /\ Closed(r)
      /\ mySeg[p] = seg[r] /\ seg[r] >= 1 /\ seg[r] \in Nat
      /\ chain[r] = myChain[p] \/ (chain[r] = NoChain /\ mySeg[p] = 1 /\ faults > 0)
  BY <1>1, HasJob DEF CreateSuccessor, AtTip, Carry, TypeInv, RunsOK
<1>3. PICK n \in Runs : /\ status[n] = "none" /\ status' = [status EXCEPT ![n] = "pending_execution"]
                        /\ chain' = [chain EXCEPT ![n] = myChain[p]]
                        /\ seg' = [seg EXCEPT ![n] = mySeg[p] + 1]
                        /\ next' = [next EXCEPT ![p] = n]
  BY FreshIds DEF CreateSuccessor, SetStatus
<1>4. UNCHANGED <<job, myChain, mySeg, faults, lost>> /\ pc' = [pc EXCEPT ![p] = "linkAgent"]
  BY DEF CreateSuccessor, Goto
<1>5. chain[n] = NoChain /\ seg[n] = 0 /\ ~Left(n) /\ n # r
  BY <1>2, <1>3 DEF ChainInv, RowsOfChains, Left, Closed, Frozen
<1>6. /\ \A u \in Runs \ {n} : chain'[u] = chain[u] /\ seg'[u] = seg[u] /\ status'[u] = status[u]
      /\ chain'[n] = myChain[p] /\ seg'[n] = seg[r] + 1 /\ status'[n] = "pending_execution"
      /\ next'[p] = n /\ pc'[p] = "linkAgent"
      /\ \A q \in Procs \ {p} : next'[q] = next[q] /\ pc'[q] = pc[q]
  BY <1>2, <1>3, <1>4 DEF TypeInv, RunsOK, ExecOK
<1>7. Left(r)'
  <2>1. Closed(r)'
    BY <1>2, <1>4, <1>5, <1>6 DEF Closed
  <2>2. ASSUME NEW q \in Procs PROVE next'[q] # r /\ (job[q] = r => pc'[q] \in After)
    BY <1>2, <1>5, <1>6 DEF OwnInv, After
  <2> QED
    BY <1>4, <2>1, <2>2 DEF Left
<1>8. ASSUME NEW q \in Runs \ {n}, chain[q] = myChain[p]
      PROVE  seg[q] < seg[r] + 1 /\ Left(q)'
  <2>1. CASE q = r
    BY <1>2, <1>7, <2>1
  <2>2. CASE q # r
    <3>1. seg[q] < mySeg[p] /\ Left(q)
      BY <1>1, <1>2, <1>8, <2>2 DEF AtTip, Carry
    <3>2. seg[q] \in Nat
      BY DEF TypeInv, RunsOK
    <3> QED
      BY <1>1, <1>2, <3>1, <3>2, LeftKept
  <2> QED
    BY <2>1, <2>2
<1>9. RowsOfChains'
  <2>1. \A u \in Runs : /\ chain'[u] = NoChain => seg'[u] <= 1
                        /\ status'[u] = "none" => chain'[u] = NoChain /\ seg'[u] = 0
    BY <1>2, <1>6 DEF ChainInv, RowsOfChains
  <2>2. ASSUME NEW q \in Runs, NEW u \in Runs, chain'[q] = chain'[u], chain'[u] # NoChain
        PROVE  /\ q # u => seg'[q] # seg'[u]
               /\ seg'[q] < seg'[u] => Left(q)'
    <3>1. CASE q # n /\ u # n
      BY <1>1, <1>6, <2>2, <3>1, LeftKept DEF ChainInv, RowsOfChains
    <3>2. CASE q # n /\ u = n
      <4>1. seg[q] < seg[r] + 1 /\ Left(q)'
        BY <1>6, <1>8, <2>2, <3>2
      <4>2. seg[q] \in Nat /\ seg'[q] = seg[q] /\ seg'[u] = seg[r] + 1
        BY <1>6, <3>2 DEF TypeInv, RunsOK
      <4> QED
        BY <1>2, <4>1, <4>2
    <3>3. CASE q = n /\ u # n
      <4>1. seg[u] < seg[r] + 1
        BY <1>6, <1>8, <2>2, <3>3
      <4>2. seg[u] \in Nat /\ seg'[u] = seg[u] /\ seg'[q] = seg[r] + 1
        BY <1>6, <3>3 DEF TypeInv, RunsOK
      <4> QED
        BY <1>2, <4>1, <4>2
    <3>4. CASE q = n /\ u = n
      <4>1. seg'[n] \in Nat
        BY <1>2, <1>6
      <4> QED
        BY <3>4, <4>1
    <3> QED
      BY <3>1, <3>2, <3>3, <3>4
  <2> QED
    BY <2>1, <2>2 DEF RowsOfChains
<1>10. Origin(n)'
  <2>1. seg'[n] - 1 = seg[r] /\ seg'[r] = seg[r] /\ chain'[r] = chain[r]
    BY <1>2, <1>5, <1>6
  <2>2. ASSUME NEW s \in 1 .. seg[r]
        PROVE  (\E q \in Runs : chain'[q] = myChain[p] /\ seg'[q] = s) \/ (s = 1 /\ faults > 0)
    <3>1. CASE chain[r] = NoChain
      BY <1>2, <2>2, <3>1
    <3>2. CASE chain[r] = myChain[p] /\ s = seg[r]
      BY <1>2, <2>1, <3>2
    <3>3. CASE chain[r] = myChain[p] /\ s # seg[r]
      <4>1. s \in 1 .. (seg[r] - 1) /\ seg[r] > 1
        BY <1>2, <2>2, <3>3
      <4>2. (\E q \in Runs : chain[q] = chain[r] /\ seg[q] = s) \/ (s = 1 /\ faults > 0)
        BY <1>2, <4>1 DEF ChainInv, Origins, Origin
      <4> QED
        BY <1>2, <1>5, <1>6, <3>3, <4>2
    <3> QED
      BY <1>2, <3>1, <3>2, <3>3
  <2>3. chain'[r] = chain'[n] \/ (faults' > 0 /\ seg'[r] = 1 /\ chain'[r] = NoChain)
    BY <1>2, <1>4, <1>6, <2>1
  <2> QED
    BY <1>2, <1>4, <1>6, <1>7, <2>1, <2>2, <2>3 DEF Origin
<1>11. Origins'
  BY <1>1, <1>5, <1>6, <1>10, OriginKept DEF ChainInv, Origins
<1>12. Apart'
  BY <1>4 DEF ChainInv, Apart
<1>13. AtTip(p)'
  BY <1>1, <1>2, <1>4, <1>5, <1>6 DEF AtTip, Carry, After
<1>14. ASSUME NEW q \in Procs, q # p PROVE AtTip(q)'
  <2>1. n \notin {job[q], next[q]}
    BY <1>3 DEF OwnInv
  <2>2. \A u \in {job[q], next[q]} \cap Runs : chain'[u] = chain[u] /\ seg'[u] = seg[u]
    BY <1>6, <2>1
  <2>3. \A u \in Runs : chain'[u] = myChain[q] /\ chain'[u] # NoChain => chain[u] = chain'[u] /\ seg[u] = seg'[u]
    <3>1. myChain[p] # myChain[q]
      BY <1>2, <1>14 DEF ChainInv, Apart
    <3> QED
      BY <1>6, <3>1
  <2> QED
    BY <1>1, <1>14, <2>2, <2>3, OtherTips DEF ChainInv
<1> QED
  BY <1>9, <1>11, <1>12, <1>13, <1>14 DEF ChainInv

\* Whatever else happens freezes rows, or ends every call.
LEMMA RestOfChains ==
  ASSUME TypeInv, Handlers = {}, OwnInv, BootInv, ChainInv,
         \/ \E c \in Coords : ListRunsForRollback(c) \/ RollbackStep(c)
         \/ Crash \/ Reboot \/ UNCHANGED vars
  PROVE  ChainInv'
<1>1. UNCHANGED <<chain, seg>>
  BY DEF ListRunsForRollback, RollbackStep, RollbackSkip, RollbackPatch, RollbackAnnounce,
     RollbackFails, RollbackReturns, Crash, Reboot, Boot, SweepRun, Serve, vars, runVars, Fields
<1>2. faults > 0 => faults' > 0
  <2>1. faults' = faults \/ faults' = faults + 1
    BY DEF ListRunsForRollback, RollbackStep, RollbackSkip, RollbackPatch, RollbackAnnounce,
       RollbackFails, RollbackReturns, Crash, Reboot, Boot, SweepRun, Serve, vars
  <2> QED
    BY <2>1 DEF TypeInv
<1>3. ASSUME NEW r \in Runs
      PROVE  /\ status'[r] = "none" => status[r] = "none"
             /\ Closed(r) => Closed(r)'
  <2>1. \/ status'[r] = status[r] \/ status'[r] \in Frozen
        \/ status[r] = "running" /\ status'[r] = "failed"
    BY DEF BootInv, ListRunsForRollback, RollbackStep, RollbackSkip, RollbackPatch, RollbackAnnounce,
       RollbackFails, RollbackReturns, RollbackTarget, SetStatus, Crash, Reboot, Boot, SweepRun, Serve,
       vars, runVars, Fields, TypeInv, RunsOK, Frozen
  <2>2. lost \subseteq lost'
    BY DEF ListRunsForRollback, RollbackStep, RollbackSkip, RollbackPatch, RollbackAnnounce,
       RollbackFails, RollbackReturns, Crash, Reboot, Boot, SweepRun, Serve, vars
  <2> QED
    BY <2>1, <2>2 DEF Closed, Frozen
<1>4. CASE UNCHANGED <<pc, job, next, myChain, mySeg>>
  <2>1. \A r \in Runs : Left(r) => Left(r)'
    BY <1>3, <1>4 DEF Left
  <2>2. RowsOfChains' /\ Apart'
    BY <1>1, <1>3, <1>4, <2>1 DEF ChainInv, RowsOfChains, Apart
  <2>3. Origins'
    BY <1>1, <1>2, <2>1 DEF ChainInv, Origins, Origin
  <2>4. ASSUME NEW p \in Procs PROVE AtTip(p)'
    <3>1. pc[p] \in Carry => job[p] \in Runs
      BY HasJob DEF Carry, TypeInv
    <3> QED
      BY <1>1, <1>2, <1>3, <1>4, <2>1, <3>1 DEF ChainInv, AtTip, Carry
  <2> QED
    BY <2>2, <2>3, <2>4 DEF ChainInv
<1>5. CASE Crash
  <2>1. \A p \in Procs : /\ job'[p] = NoRun /\ next'[p] = NoRun /\ myChain'[p] = NoChain
                         /\ pc'[p] \in {"idle", "done"}
    BY <1>5 DEF Crash
  <2>2. \A r \in Runs : Left(r) => Left(r)'
    BY <1>3, <2>1, PoolAssumption DEF Left
  <2>3. RowsOfChains' /\ Apart'
    BY <1>1, <1>3, <2>1, <2>2 DEF ChainInv, RowsOfChains, Apart
  <2>4. Origins'
    BY <1>1, <1>2, <2>2 DEF ChainInv, Origins, Origin
  <2>5. \A p \in Procs : AtTip(p)'
    BY <2>1, PoolAssumption DEF AtTip, Carry, After
  <2> QED
    BY <2>3, <2>4, <2>5 DEF ChainInv
<1> QED
  BY <1>4, <1>5 DEF ListRunsForRollback, RollbackStep, RollbackSkip, RollbackPatch, RollbackAnnounce,
     RollbackFails, RollbackReturns, Reboot, Boot, SweepRun, Serve, vars, execVars

LEMMA ChainInit == Init => ChainInv
BY PoolAssumption DEF Init, ChainInv, RowsOfChains, Origins, Apart, AtTip, Carry, After

LEMMA Chained == ASSUME Handlers = {} PROVE Spec => []ChainInv
<1>1. TypeInv /\ BootInv /\ OwnInv /\ VerdictInv /\ shared = {} /\ ChainInv /\ [Next]_vars => ChainInv'
  BY IntakeChain, BackfillStep, SuccessorStep, QuietExecutor, RestOfChains DEF Next
<1>2. Spec => [](OwnInv /\ shared = {})
  BY NothingShared
<1> QED
  BY <1>1, <1>2, ChainInit, Typed, BootHolds, Tells, PTL DEF Spec

\* With no RPC in between, a chain is a line of sessions of which one at a
\* time is live, whatever rollbacks, failures, crashes and boots do to its rows.
THEOREM ChainsAreLines == ASSUME Handlers = {} PROVE Spec => []ChainIsALine
<1>1. TypeInv /\ ChainInv => ChainIsALine
  <2> SUFFICES ASSUME TypeInv, ChainInv, NEW r \in Runs, seg[r] > 1
               PROVE  /\ \E q \in Runs :
                           /\ seg[q] = seg[r] - 1
                           /\ chain[q] = chain[r] \/ (faults > 0 /\ seg[q] = 1 /\ chain[q] = NoChain)
                           /\ status[q] \in {"yielded"} \cup Frozen \/ q \in lost
                      /\ \A q \in Runs \ {r} : chain[q] = chain[r] =>
                           /\ seg[q] # seg[r]
                           /\ status[q] \in Live /\ status[r] \in Live => q \in lost \/ r \in lost
    BY DEF ChainIsALine
  <2>1. Origin(r)
    BY DEF ChainInv, Origins
  <2>2. chain[r] # NoChain /\ seg[r] \in Nat
    BY DEF ChainInv, RowsOfChains, TypeInv, RunsOK
  <2>3. ASSUME NEW q \in Runs \ {r}, chain[q] = chain[r]
        PROVE  /\ seg[q] # seg[r]
               /\ status[q] \in Live /\ status[r] \in Live => q \in lost \/ r \in lost
    <3>1. seg[q] # seg[r]
      BY <2>2, <2>3 DEF ChainInv, RowsOfChains
    <3>2. Left(q) \/ Left(r)
      <4>1. seg[q] \in Nat
        BY DEF TypeInv, RunsOK
      <4>2. seg[q] < seg[r] \/ seg[r] < seg[q]
        BY <2>2, <3>1, <4>1
      <4> QED
        BY <2>2, <2>3, <4>2 DEF ChainInv, RowsOfChains
    <3> QED
      BY <3>1, <3>2 DEF Left, Closed, Live, Frozen
  <2> QED
    BY <2>1, <2>3 DEF Origin, Left, Closed
<1>2. Spec => []ChainInv
  BY Chained
<1> QED
  BY <1>1, <1>2, Typed, PTL

\* And a session that carries on replays one stopped row of each session before it.
THEOREM HistoryIsWhole == ASSUME Handlers = {} PROVE Spec => []ReplaysWholeStory
<1>1. TypeInv /\ ChainInv => ReplaysWholeStory
  <2> SUFFICES ASSUME TypeInv, ChainInv, NEW p \in Procs, pc[p] = "resolve", mySeg[p] > 1
               PROVE  LET replayed == LoadChainHistory(myChain[p], mySeg[p]) IN
                      /\ \A q, r \in replayed : seg[q] = seg[r] => q = r
                      /\ \A s \in 1..(mySeg[p] - 1) : (\E r \in replayed : seg[r] = s) \/ (s = 1 /\ faults > 0)
                      /\ \A r \in replayed : status[r] \in {"yielded"} \cup Frozen \/ r \in lost
    BY DEF ReplaysWholeStory
  <2> DEFINE replayed == LoadChainHistory(myChain[p], mySeg[p])
  <2>1. /\ AtTip(p) /\ pc[p] \in Carry /\ job[p] \in Runs
        /\ mySeg[p] = seg[job[p]] /\ mySeg[p] \in Nat /\ chain[job[p]] = myChain[p]
    BY HasJob DEF ChainInv, AtTip, Carry, TypeInv, ExecOK
  <2>2. myChain[p] # NoChain
    BY <2>1 DEF ChainInv, RowsOfChains
  <2>3. \A q, r \in replayed : seg[q] = seg[r] => q = r
    BY DEF LoadChainHistory, ChainInv, RowsOfChains
  <2>4. ASSUME NEW s \in 1..(mySeg[p] - 1)
        PROVE  (\E r \in replayed : seg[r] = s) \/ (s = 1 /\ faults > 0)
    <3>1. (\E r \in Runs : chain[r] = chain[job[p]] /\ seg[r] = s) \/ (s = 1 /\ faults > 0)
      BY <2>1, <2>4 DEF ChainInv, Origins, Origin
    <3>2. s < mySeg[p]
      BY <2>1, <2>4
    <3> QED
      BY <2>1, <2>2, <3>1, <3>2 DEF LoadChainHistory
  <2>5. \A r \in replayed : status[r] \in {"yielded"} \cup Frozen \/ r \in lost
    BY <2>1, <2>2 DEF LoadChainHistory, ChainInv, RowsOfChains, Left, Closed
  <2> QED
    BY <2>3, <2>4, <2>5
<1>2. Spec => []ChainInv
  BY Chained
<1> QED
  BY <1>1, <1>2, Typed, PTL

-----------------------------------------------------------------------------
(* The promise to a trigger *)

\* Where a dispatched call stands between two sessions, and what makes it go
\* on: the row it begins with is still dispatchable, has its agent and carries
\* the next segment number.
OnTrack(p) ==
  /\ pc[p] \in {"idle", "intake"} => mySeg[p] = 0
  /\ pc[p] = "intake" => status[job[p]] = "pending_intake" /\ seg[job[p]] = 1
  /\ pc[p] = "begin" => /\ status[job[p]] \in {"pending_intake", "pending_execution"}
                        /\ linked[job[p]] /\ seg[job[p]] = mySeg[p] + 1
  /\ pc[p] \in {"inputs", "resolve"} => linked[job[p]]
  /\ pc[p] \in After => status[next[p]] = "pending_execution" /\ seg[next[p]] = mySeg[p] + 1
  /\ pc[p] = "linkFrom" => linked[next[p]]
  /\ pc[p] \notin {"idle", "intake", "begin", "done"} => mySeg[p] >= 1
  /\ pc[p] # "done" => \A e \in events : Verdict(e) => e.by # p

TrackInv == \A p \in Procs : OnTrack(p)

\* What a step of p does to the rows another executor goes on with, and to what
\* that one has said.
Aside(p) ==
  /\ \A r \in Runs : /\ seg'[r] # seg[r] => r = job[p] \/ status[r] = "none"
                     /\ linked'[r] # linked[r] => r \in {job[p], next[p]}
  /\ \A q \in Procs \ {p} : mySeg'[q] = mySeg[q]
  /\ \A e \in events' : e \in events \/ e.by = p

LEMMA ExecutorAside ==
  ASSUME TypeInv, NEW p \in Procs, Call(p) \/ Executor(p) \/ ClientGone(p)
  PROVE  Aside(p)
<1>1. \A r \in Runs : seg'[r] # seg[r] => r = job[p] \/ status[r] = "none"
  <2>1. CASE IntakeRun(p) \/ CreateSuccessor(p)
    BY <2>1, FreshIds DEF IntakeRun, CreateSuccessor, TypeInv, RunsOK
  <2>2. CASE BackfillChain(p)
    BY <2>2 DEF BackfillChain, TypeInv, RunsOK
  <2>3. CASE UNCHANGED seg
    BY <2>3
  <2> QED
    BY <2>1, <2>2, <2>3 DEF Call, IntakeRejected, CallExecuteRun, Executor, Setup,
       LinkIntake, BeginExecute, StoreInputs, StartRunning, AgentMissing, SetupFails,
       Execute, AnnounceStarted, LLMReturns, WriteCompleted, DispatchActions, AnnounceCompleted,
       WriteFailed, AnnounceFailed, WriteDecomposed, AnnounceDecomposed,
       Yield, WriteYielded, AnnounceYielded, LinkSuccessorAgent, SuccessorFails,
       LinkContinuesFrom, ClientGone, Fields, runVars
<1>2. \A r \in Runs : linked'[r] # linked[r] => r \in {job[p], next[p]}
  <2>1. CASE LinkIntake(p) \/ LinkSuccessorAgent(p) \/ SuccessorFails(p)
    BY <2>1 DEF LinkIntake, LinkSuccessorAgent, SuccessorFails, TypeInv, RunsOK
  <2>2. CASE UNCHANGED linked
    BY <2>2
  <2> QED
    BY <2>1, <2>2 DEF Call, IntakeRun, IntakeRejected, CallExecuteRun, Executor, Setup,
       BeginExecute, StoreInputs, StartRunning, AgentMissing, SetupFails,
       Execute, AnnounceStarted, LLMReturns, WriteCompleted, DispatchActions, AnnounceCompleted,
       WriteFailed, AnnounceFailed, WriteDecomposed, AnnounceDecomposed,
       Yield, BackfillChain, WriteYielded, AnnounceYielded, CreateSuccessor,
       LinkContinuesFrom, ClientGone, Fields, runVars
<1>3. \A q \in Procs \ {p} : mySeg'[q] = mySeg[q]
  BY DEF TypeInv, ExecOK, Call, IntakeRun, IntakeRejected, CallExecuteRun, Executor, Setup,
       LinkIntake, BeginExecute, StoreInputs, StartRunning, AgentMissing, SetupFails,
       Execute, AnnounceStarted, LLMReturns, WriteCompleted, DispatchActions, AnnounceCompleted,
       WriteFailed, AnnounceFailed, WriteDecomposed, AnnounceDecomposed,
       Yield, BackfillChain, WriteYielded, AnnounceYielded, CreateSuccessor,
       LinkSuccessorAgent, SuccessorFails, LinkContinuesFrom, ClientGone,
       WriteOrReturn, Admit, Return, Locals
<1>4. \A e \in events' : e \in events \/ e.by = p
  <2>1. CASE UNCHANGED events
    BY <2>1
  <2>2. ASSUME \E S : Publish(S) /\ \A e \in S : e.by = p PROVE \A e \in events' : e \in events \/ e.by = p
    BY <2>2 DEF Publish
  <2>3. CASE AnnounceStarted(p) \/ DispatchActions(p) \/ AnnounceYielded(p)
    BY <2>1, <2>2, <2>3 DEF AnnounceStarted, DispatchActions, AnnounceYielded, Event
  <2>4. CASE AnnounceCompleted(p)
    BY <2>2, <2>4 DEF AnnounceCompleted, Event
  <2>5. CASE AnnounceFailed(p)
    BY <2>2, <2>5 DEF AnnounceFailed, Event
  <2>6. CASE AnnounceDecomposed(p)
    BY <2>2, <2>6 DEF AnnounceDecomposed, Event
  <2> QED
    BY <2>1, <2>3, <2>4, <2>5, <2>6 DEF Call, IntakeRun, IntakeRejected, CallExecuteRun, Executor, Setup,
       LinkIntake, BeginExecute, StoreInputs, StartRunning, AgentMissing, SetupFails,
       Execute, LLMReturns, WriteCompleted, WriteFailed, WriteDecomposed,
       Yield, BackfillChain, WriteYielded, CreateSuccessor,
       LinkSuccessorAgent, SuccessorFails, LinkContinuesFrom, ClientGone
<1> QED
  BY <1>1, <1>2, <1>3, <1>4 DEF Aside

LEMMA OthersOnTrack ==
  ASSUME TypeInv, Handlers = {}, OwnInv, TrackInv, NEW p \in Procs, Own(p), Aside(p),
         NEW q \in Procs, q # p
  PROVE  OnTrack(q)'
<1>1. /\ job[q] \in Runs => /\ status'[job[q]] = status[job[q]] /\ seg'[job[q]] = seg[job[q]]
                            /\ linked'[job[q]] = linked[job[q]]
      /\ next[q] \in Runs => /\ status'[next[q]] = status[next[q]] /\ seg'[next[q]] = seg[next[q]]
                             /\ linked'[next[q]] = linked[next[q]]
  BY DEF Own, Aside, OwnInv
<1>2. pc'[q] = pc[q] /\ job'[q] = job[q] /\ next'[q] = next[q] /\ mySeg'[q] = mySeg[q]
  BY DEF Own, Aside
<1>3. /\ pc[q] \notin {"idle", "done"} => job[q] \in Runs
      /\ pc[q] \in After => next[q] \in Runs
  BY DEF TypeInv, ExecOK, After
<1>4. OnTrack(q) /\ \A e \in events' : e \in events \/ e.by # q
  BY DEF TrackInv, Aside
<1> QED
  BY <1>1, <1>2, <1>3, <1>4 DEF OnTrack, After

\* A call that is over has no place to go on from.
LEMMA OverOnTrack ==
  ASSUME TypeInv, Handlers = {}, NEW p \in Procs, Return(p)
  PROVE  OnTrack(p)'
BY DEF Return, OnTrack, After, TypeInv, ExecOK, Procs

LEMMA MoverOnTrack ==
  ASSUME TypeInv, Handlers = {}, OwnInv, ChainInv, TrackInv, NEW p \in Procs,
         Call(p) \/ Executor(p) \/ ClientGone(p)
  PROVE  OnTrack(p)'
<1> USE DEF After
<1>1. OnTrack(p) /\ p \notin Handlers /\ p \in Dispatchers /\ mySeg[p] \in Nat
  BY DEF TrackInv, Procs, TypeInv, ExecOK
<1>2. CASE Return(p)
  BY <1>2, OverOnTrack
<1>3. CASE IntakeRun(p)
  BY <1>1, <1>3, FreshIds DEF IntakeRun, Goto, SetStatus, OnTrack, TypeInv, RunsOK, ExecOK
<1>4. CASE LinkIntake(p) /\ ~Return(p)
  BY <1>1, <1>4, HasJob DEF LinkIntake, Goto, Locals, OnTrack, TypeInv, RunsOK, ExecOK
<1>5. CASE BeginExecute(p) /\ ~Return(p)
  <2>1. mySeg'[p] = seg[job[p]] /\ job'[p] = job[p] /\ pc'[p] \in {"inputs", "resolve"} /\ pc[p] = "begin"
    BY <1>5 DEF BeginExecute, Admit, Goto, TypeInv, ExecOK
  <2> QED
    BY <1>1, <1>5, <2>1 DEF BeginExecute, runVars, OnTrack
<1>6. CASE StoreInputs(p) \/ StartRunning(p)
  BY <1>1, <1>6 DEF StoreInputs, StartRunning, Goto, Locals, Fields, OnTrack, TypeInv, ExecOK
<1>7. CASE AnnounceStarted(p) \/ DispatchActions(p) \/ AnnounceYielded(p)
  <2>1. \A e \in events' : Verdict(e) => e \in events
    BY <1>7 DEF AnnounceStarted, DispatchActions, AnnounceYielded, Publish, Event, Verdict
  <2>2. /\ mySeg' = mySeg /\ pc[p] \notin {"idle", "intake", "begin", "done"}
        /\ pc'[p] \in {"llm", "blockless", "announce", "announceSplit", "successor"}
    BY <1>7 DEF AnnounceStarted, DispatchActions, AnnounceYielded, Goto, Locals, TypeInv, ExecOK
  <2> QED
    BY <1>1, <2>1, <2>2 DEF OnTrack
<1>8. CASE LLMReturns(p)
  <2>1. \E l \in {"complete", "fail", "chain", "yield", "decomposed"} : Goto(p, l)
    BY <1>8 DEF LLMReturns
  <2> QED
    BY <1>1, <1>8, <2>1 DEF LLMReturns, Goto, Locals, OnTrack, TypeInv, ExecOK
<1>9. CASE (WriteCompleted(p) \/ WriteDecomposed(p)) /\ ~Return(p)
  <2>1. /\ \E l \in {"dispatch", "announceDecomposed"} : Goto(p, l) /\ UNCHANGED <<Locals, events>>
        /\ pc[p] \in {"complete", "decomposed"}
    BY <1>9 DEF WriteCompleted, WriteDecomposed, WriteOrReturn
  <2> QED
    BY <1>1, <2>1 DEF Goto, Locals, OnTrack, TypeInv, ExecOK
<1>10. CASE WriteFailed(p) \/ WriteYielded(p)
  BY <1>1, <1>10 DEF WriteFailed, WriteYielded, Goto, Locals, OnTrack, TypeInv, ExecOK
<1>11. CASE BackfillChain(p)
  BY <1>1, <1>11 DEF BackfillChain, Goto, OnTrack, TypeInv, ExecOK
<1>12. CASE CreateSuccessor(p)
  BY <1>1, <1>12, FreshIds DEF CreateSuccessor, Goto, SetStatus, OnTrack, TypeInv, RunsOK, ExecOK
<1>13. CASE LinkSuccessorAgent(p)
  BY <1>1, <1>13 DEF LinkSuccessorAgent, Goto, Locals, OnTrack, TypeInv, RunsOK, ExecOK
<1>14. CASE LinkContinuesFrom(p)
  BY <1>1, <1>14 DEF LinkContinuesFrom, Goto, OnTrack, TypeInv, ExecOK
<1>15. Return(p) \/ ~(IntakeRejected(p) \/ AgentMissing(p) \/ SetupFails(p) \/ SuccessorFails(p)
           \/ AnnounceCompleted(p) \/ AnnounceFailed(p) \/ AnnounceDecomposed(p)
           \/ CallExecuteRun(p) \/ ClientGone(p))
  BY <1>1 DEF IntakeRejected, AgentMissing, SetupFails, SuccessorFails, AnnounceCompleted,
     AnnounceFailed, AnnounceDecomposed, CallExecuteRun, ClientGone
<1> QED
  BY <1>2, <1>3, <1>4, <1>5, <1>6, <1>7, <1>8, <1>9, <1>10, <1>11, <1>12, <1>13, <1>14, <1>15
  DEF Call, Executor, Setup, Execute, Yield

LEMMA TrackStep ==
  ASSUME Handlers = {}, Coords = {}
  PROVE  TypeInv /\ BootInv /\ OwnInv /\ ChainInv /\ TrackInv /\ [Next]_vars => TrackInv'
<1> SUFFICES ASSUME TypeInv, BootInv, OwnInv, ChainInv, TrackInv, [Next]_vars PROVE TrackInv'
  OBVIOUS
<1>1. ASSUME NEW p \in Procs, Call(p) \/ Executor(p) \/ ClientGone(p) PROVE TrackInv'
  BY <1>1, ExecutorOwn, ExecutorAside, OthersOnTrack, MoverOnTrack DEF TrackInv
<1>2. CASE Crash
  <2>1. \A p \in Procs : p \in Dispatchers
    BY DEF Procs
  <2>2. /\ \A p \in Procs : /\ pc'[p] \in {"idle", "done"} /\ mySeg'[p] = mySeg[p]
                            /\ pc'[p] = "idle" => pc[p] = "idle"
        /\ events' = events
    BY <1>2, <2>1 DEF Crash
  <2> QED
    BY <2>2 DEF TrackInv, OnTrack, After
<1>3. CASE Boot \/ SweepRun \/ Serve
  <2>1. /\ UNCHANGED <<pc, mySeg>> /\ \A p \in Procs : pc[p] \in {"idle", "done"}
        /\ \A e \in events' : Verdict(e) => e \in events
    BY <1>3 DEF Boot, SweepRun, Serve, BootInv, execVars, Publish, Event, Verdict
  <2> QED
    BY <2>1 DEF TrackInv, OnTrack, After
<1>4. CASE UNCHANGED vars
  BY <1>4 DEF TrackInv, OnTrack, vars, runVars, execVars
<1> QED
  BY <1>1, <1>2, <1>3, <1>4 DEF Next, Reboot

LEMMA Tracked == ASSUME Handlers = {}, Coords = {} PROVE Spec => []TrackInv
<1>1. Init => TrackInv
  BY DEF Init, TrackInv, OnTrack, After
<1>2. TypeInv /\ BootInv /\ OwnInv /\ ChainInv /\ TrackInv /\ [Next]_vars => TrackInv'
  BY TrackStep
<1>3. Spec => []OwnInv
  BY Owned DEF Alone
<1>4. Spec => []ChainInv
  BY Chained
<1> QED
  BY <1>1, <1>2, <1>3, <1>4, Typed, BootHolds, PTL DEF Spec

\* The steps of SessionChain a step of p can be.
LEMMA SameVerdict ==
  ASSUME NEW p, \A e : Verdict(e) /\ e.by = p => (e \in events' <=> e \in events)
  PROVE  VerdictBy(p)' = VerdictBy(p)
<1>1. {e \in events' : Verdict(e) /\ e.by = p} = {e \in events : Verdict(e) /\ e.by = p}
  OBVIOUS
<1> QED
  BY <1>1 DEF VerdictBy, Verdict

\* Where a session is being prepared.
Waits(p) == pc[p] \in {"inputs", "resolve"}

\* A store failure or nothing, as far as the promise is concerned.
LEMMA PromiseQuiet ==
  ASSUME TypeInv, Handlers = {}, NEW p \in Procs,
         \A q \in Procs : VerdictBy(q)' = VerdictBy(q),
         mySeg' = mySeg,
         \A q \in Procs : (pc'[q] = "done") = (pc[q] = "done") /\ Waits(q)' = Waits(q),
         crashes' = crashes, faults' = faults \/ faults' > 0
  PROVE  [Promise!Next]_Promise!vars
<1>1. Procs = Dispatchers
  BY DEF Procs
<1>2. UNCHANGED <<[q \in Dispatchers |-> mySeg[q]], [q \in Dispatchers |-> VerdictBy(q)],
                  [q \in Dispatchers |-> pc[q] = "done"], [q \in Dispatchers |-> pc[q] \in {"inputs", "resolve"}]>>
  BY <1>1 DEF Waits
<1>3. CASE (crashes > 0 \/ faults > 0)' = (crashes > 0 \/ faults > 0)
  BY <1>2, <1>3 DEF Promise!vars
<1>4. CASE (crashes > 0 \/ faults > 0)'
  BY <1>2, <1>4 DEF Promise!Next, Promise!Disturb
<1> QED
  BY <1>3, <1>4

\* A call that ends without a verdict.
LEMMA PromiseAbandon ==
  ASSUME TypeInv, Handlers = {}, NEW p \in Procs, Return(p), pc[p] # "done",
         events' = events, crashes' = crashes,
         faults' > 0 \/ (mySeg[p] = 0 /\ faults' = faults)
  PROVE  [Promise!Next]_Promise!vars
<1>1. Procs = Dispatchers /\ p \in Dispatchers
  BY DEF Procs
<1>2. /\ [q \in Dispatchers |-> mySeg[q]]' = [q \in Dispatchers |-> mySeg[q]]
      /\ [q \in Dispatchers |-> VerdictBy(q)]' = [q \in Dispatchers |-> VerdictBy(q)]
  <2>1. mySeg' = mySeg
    BY <1>1 DEF Return, TypeInv, ExecOK
  <2>2. \A q \in Dispatchers : VerdictBy(q)' = VerdictBy(q)
    BY SameVerdict
  <2> QED
    BY <2>1, <2>2
<1>3. [q \in Dispatchers |-> pc[q] = "done"]' =
        [q \in Dispatchers |-> [r \in Dispatchers |-> pc[r] = "done"][q] \/ q \in {p}]
  BY <1>1 DEF Return, TypeInv, ExecOK
<1>4. /\ (crashes > 0 \/ faults > 0)' \in {crashes > 0 \/ faults > 0, TRUE}
      /\ (crashes > 0 \/ faults > 0)' \/ [q \in Dispatchers |-> mySeg[q]][p] = 0
  BY <1>1
<1>7. [q \in Dispatchers |-> pc[q] \in {"inputs", "resolve"}]' =
        [q \in Dispatchers |-> [r \in Dispatchers |-> pc[r] \in {"inputs", "resolve"}][q] /\ q \notin {p}]
  <2>1. \A q \in Dispatchers : (pc'[q] \in {"inputs", "resolve"}) = (pc[q] \in {"inputs", "resolve"} /\ q \notin {p})
    BY <1>1 DEF Return, TypeInv, ExecOK
  <2> QED
    BY <2>1, Zenon
<1>5. Promise!Abandon({p})
  BY <1>1, <1>2, <1>3, <1>4, <1>7 DEF Promise!Abandon
<1>6. {p} \in (SUBSET Dispatchers) \ {{}}
  BY <1>1
<1> QED
  BY <1>5, <1>6 DEF Promise!Next

\* A call that ends with one.
LEMMA PromiseConclude ==
  ASSUME TypeInv, Handlers = {}, NEW p \in Procs, OnTrack(p), Return(p), pc[p] # "done", ~Waits(p), mySeg[p] > 0,
         events \subseteq events', \A e \in events' : e \in events \/ e.by = p,
         \E e \in events' : Verdict(e) /\ e.by = p,
         UNCHANGED <<crashes, faults>>
  PROVE  [Promise!Next]_Promise!vars
<1>1. Procs = Dispatchers /\ p \in Dispatchers
  BY DEF Procs
<1>2. [q \in Dispatchers |-> mySeg[q]]' = [q \in Dispatchers |-> mySeg[q]]
  BY <1>1 DEF Return, TypeInv, ExecOK
<1>3. VerdictBy(p)' \in {"completed", "failed"}
  BY DEF VerdictBy
<1>4. \A q \in Dispatchers \ {p} : VerdictBy(q)' = VerdictBy(q)
  BY SameVerdict
<1>5. \E v \in {"completed", "failed"} :
        [q \in Dispatchers |-> VerdictBy(q)]' = [[q \in Dispatchers |-> VerdictBy(q)] EXCEPT ![p] = v]
  BY <1>1, <1>3, <1>4
<1>6. [q \in Dispatchers |-> pc[q] = "done"]' = [[q \in Dispatchers |-> pc[q] = "done"] EXCEPT ![p] = TRUE]
  BY <1>1 DEF Return, TypeInv, ExecOK
<1>8. [q \in Dispatchers |-> pc[q] \in {"inputs", "resolve"}]' = [q \in Dispatchers |-> pc[q] \in {"inputs", "resolve"}]
  BY <1>1 DEF Return, Waits, TypeInv, ExecOK
<1>7. Promise!Conclude(p)
  BY <1>1, <1>2, <1>5, <1>6, <1>8 DEF Promise!Conclude, Waits
<1> QED
  BY <1>1, <1>7 DEF Promise!Next

\* The next session begins.
LEMMA PromiseAdvance ==
  ASSUME TypeInv, Handlers = {}, SegmentInv, NEW p \in Procs, OnTrack(p), BeginExecute(p)
  PROVE  [Promise!Next]_Promise!vars
<1>1. Procs = Dispatchers /\ p \in Dispatchers
  BY DEF Procs
<1>2. job[p] \in Runs /\ pc[p] = "begin"
  BY HasJob DEF BeginExecute, TypeInv
<1>3. /\ mySeg' = [mySeg EXCEPT ![p] = mySeg[p] + 1] /\ mySeg[p] + 1 <= MaxSessions
      /\ \E l \in {"inputs", "resolve"} : pc' = [pc EXCEPT ![p] = l]
  BY <1>2 DEF BeginExecute, Admit, Goto, OnTrack, SegmentInv, SegmentBound
<1>4. mySeg[p] \in Nat /\ MaxSessions \in Nat
  BY LimitAssumption DEF TypeInv, ExecOK
<1>5. UNCHANGED <<events, crashes, faults>>
  BY DEF BeginExecute, Others, bootVars
<1>6. /\ ~[q \in Dispatchers |-> pc[q] = "done"][p]
      /\ [q \in Dispatchers |-> mySeg[q]][p] < MaxSessions
  <2>1. ~[q \in Dispatchers |-> pc[q] = "done"][p]
    BY <1>1, <1>2
  <2>2. mySeg[p] < MaxSessions
    BY <1>3, <1>4
  <2> QED
    BY <1>1, <2>1, <2>2
<1>7. [q \in Dispatchers |-> mySeg[q]]' = [[q \in Dispatchers |-> mySeg[q]] EXCEPT ![p] = @ + 1]
  BY <1>1, <1>3 DEF TypeInv, ExecOK
<1>8. /\ [q \in Dispatchers |-> VerdictBy(q)]' = [q \in Dispatchers |-> VerdictBy(q)]
      /\ [q \in Dispatchers |-> pc[q] = "done"]' = [q \in Dispatchers |-> pc[q] = "done"]
  <2>1. \A q \in Dispatchers : VerdictBy(q)' = VerdictBy(q)
    BY <1>5, SameVerdict
  <2>2. \A q \in Dispatchers : (pc'[q] = "done") = (pc[q] = "done")
    BY <1>1, <1>2, <1>3 DEF TypeInv, ExecOK
  <2> QED
    BY <2>1, <2>2
<1>10. /\ ~[q \in Dispatchers |-> pc[q] \in {"inputs", "resolve"}][p]
       /\ [q \in Dispatchers |-> pc[q] \in {"inputs", "resolve"}]' =
            [[q \in Dispatchers |-> pc[q] \in {"inputs", "resolve"}] EXCEPT ![p] = TRUE]
  <2>1. ~[q \in Dispatchers |-> pc[q] \in {"inputs", "resolve"}][p]
    BY <1>1, <1>2
  <2>2. pc'[p] \in {"inputs", "resolve"} /\ \A q \in Dispatchers \ {p} : pc'[q] = pc[q]
    BY <1>1, <1>3 DEF TypeInv, ExecOK
  <2> QED
    BY <1>1, <2>1, <2>2
<1>9. Promise!Advance(p)
  BY <1>5, <1>6, <1>7, <1>8, <1>10 DEF Promise!Advance
<1> QED
  BY <1>1, <1>9 DEF Promise!Next

\* The session's prompt is complete.
LEMMA PromiseOpen ==
  ASSUME TypeInv, Handlers = {}, NEW p \in Procs, StartRunning(p)
  PROVE  [Promise!Next]_Promise!vars
<1>1. Procs = Dispatchers /\ p \in Dispatchers
  BY DEF Procs
<1>2. /\ pc[p] = "resolve" /\ pc' = [pc EXCEPT ![p] = "started"]
      /\ UNCHANGED <<mySeg, events, crashes, faults>>
  BY DEF StartRunning, Goto, Locals, Others, bootVars
<1>3. \A q \in Dispatchers : VerdictBy(q)' = VerdictBy(q)
  BY <1>2, SameVerdict
<1>4. UNCHANGED <<[q \in Dispatchers |-> mySeg[q]], [q \in Dispatchers |-> VerdictBy(q)],
                  [q \in Dispatchers |-> pc[q] = "done"]>>
  <2>1. \A q \in Dispatchers : (pc'[q] = "done") = (pc[q] = "done")
    BY <1>1, <1>2 DEF TypeInv, ExecOK
  <2> QED
    BY <1>2, <1>3, <2>1
<1>5. [q \in Dispatchers |-> pc[q] \in {"inputs", "resolve"}]' =
        [[q \in Dispatchers |-> pc[q] \in {"inputs", "resolve"}] EXCEPT ![p] = FALSE]
  <2>1. pc'[p] = "started" /\ \A q \in Dispatchers \ {p} : pc'[q] = pc[q]
    BY <1>1, <1>2 DEF TypeInv, ExecOK
  <2>2. /\ (pc'[p] \in {"inputs", "resolve"}) = FALSE
        /\ \A q \in Dispatchers \ {p} : (pc'[q] \in {"inputs", "resolve"}) = (pc[q] \in {"inputs", "resolve"})
    BY <2>1
  <2> QED
    BY <2>2, Zenon
<1>6. [q \in Dispatchers |-> pc[q] \in {"inputs", "resolve"}][p]
  BY <1>1, <1>2
<1>7. Promise!Open(p)
  BY <1>2, <1>4, <1>5, <1>6 DEF Promise!Open
<1> QED
  BY <1>1, <1>7 DEF Promise!Next

\* Every step of an executor is one of them.
LEMMA PromiseExecutor ==
  ASSUME TypeInv, Handlers = {}, ChainInv, SegmentInv, TrackInv, NEW p \in Procs,
         Call(p) \/ Executor(p) \/ ClientGone(p)
  PROVE  [Promise!Next]_Promise!vars
<1>1. OnTrack(p) /\ p \notin Handlers /\ mySeg[p] \in Nat
  BY DEF TrackInv, TypeInv, ExecOK
<1>2. crashes' = crashes
  BY ExecutorTidy DEF Tidy, bootVars
<1>3. CASE BeginExecute(p)
  BY <1>1, <1>3, PromiseAdvance
<1>17. CASE StartRunning(p)
  BY <1>17, PromiseOpen
<1>4. CASE AnnounceCompleted(p) \/ AnnounceFailed(p) \/ AnnounceDecomposed(p)
  <2>1. Return(p) /\ pc[p] # "done" /\ ~Waits(p) /\ UNCHANGED faults /\ events \subseteq events'
    BY <1>4 DEF AnnounceCompleted, AnnounceFailed, AnnounceDecomposed, Publish, Waits
  <2>2. mySeg[p] > 0
    BY <1>1, <1>4 DEF OnTrack, AnnounceCompleted, AnnounceFailed, AnnounceDecomposed
  <2>3. \E e \in events' : Verdict(e) /\ e.by = p
    <3>1. CASE AnnounceCompleted(p)
      <4>1. Event("task.completed", job[p], p, pc[p] = "announceSplit") \in events'
        BY <3>1 DEF AnnounceCompleted, Publish
      <4> QED
        BY <4>1 DEF Verdict, Event
    <3>2. CASE AnnounceFailed(p)
      <4>1. Event("task.failed", job[p], p, FALSE) \in events'
        BY <3>2 DEF AnnounceFailed, Publish
      <4> QED
        BY <4>1 DEF Verdict, Event
    <3>3. CASE AnnounceDecomposed(p)
      <4>1. Event("task.completed", job[p], p, TRUE) \in events'
        BY <3>3 DEF AnnounceDecomposed, Publish
      <4> QED
        BY <4>1 DEF Verdict, Event
    <3> QED
      BY <1>4, <3>1, <3>2, <3>3
  <2>4. \A e \in events' : e \in events \/ e.by = p
    BY ExecutorAside DEF Aside
  <2> QED
    BY <1>1, <1>2, <2>1, <2>2, <2>3, <2>4, PromiseConclude
<1>5. ASSUME Return(p), StoreFails(p), UNCHANGED events, pc[p] # "done"
      PROVE  [Promise!Next]_Promise!vars
  BY <1>2, <1>5, MoreFaults, PromiseAbandon
<1>6. CASE SetupFails(p) \/ SuccessorFails(p)
  BY <1>5, <1>6 DEF SetupFails, SuccessorFails
<1>7. CASE (LinkIntake(p) \/ WriteCompleted(p) \/ WriteDecomposed(p)) /\ Return(p)
  <2>1. /\ UNCHANGED events /\ pc[p] \in {"intake", "complete", "decomposed"}
        /\ pc'[p] = "done"
    BY <1>1, <1>7 DEF LinkIntake, WriteCompleted, WriteDecomposed, Return, TypeInv, ExecOK, Procs
  <2>2. StoreFails(p)
    BY <1>1, <1>7, <2>1 DEF LinkIntake, WriteCompleted, WriteDecomposed, WriteOrReturn, Goto, TypeInv, ExecOK, Procs
  <2> QED
    BY <1>5, <1>7, <2>1, <2>2
<1>8. CASE IntakeRejected(p)
  BY <1>1, <1>2, <1>8, PromiseAbandon DEF IntakeRejected, OnTrack
<1>9. ~AgentMissing(p) /\ ~CallExecuteRun(p) /\ ~ClientGone(p)
  BY <1>1 DEF AgentMissing, CallExecuteRun, ClientGone, OnTrack
<1>10. ASSUME \A q \in Procs : VerdictBy(q)' = VerdictBy(q), mySeg' = mySeg,
              \E l \in Labels \ {"done"} : Goto(p, l) /\ (l \in {"inputs", "resolve"} <=> Waits(p)),
              pc[p] # "done",
              StoreFails(p) \/ UNCHANGED faults
       PROVE  [Promise!Next]_Promise!vars
  <2>1. \A q \in Procs : (pc'[q] = "done") = (pc[q] = "done") /\ Waits(q)' = Waits(q)
    BY <1>10 DEF Goto, Waits, TypeInv, ExecOK
  <2> QED
    BY <1>2, <1>10, <2>1, MoreFaults, PromiseQuiet
<1>11. CASE AnnounceStarted(p) \/ DispatchActions(p) \/ AnnounceYielded(p)
  <2>1. \A e : Verdict(e) => (e \in events' <=> e \in events)
    BY <1>11 DEF AnnounceStarted, DispatchActions, AnnounceYielded, Publish, Event, Verdict
  <2>2. \A q \in Procs : VerdictBy(q)' = VerdictBy(q)
    BY <2>1, SameVerdict
  <2> QED
    BY <1>10, <1>11, <2>2, LabelNames DEF AnnounceStarted, DispatchActions, AnnounceYielded, Locals, Waits
<1>12. ASSUME UNCHANGED events PROVE \A q \in Procs : VerdictBy(q)' = VerdictBy(q)
  BY <1>12, SameVerdict
<1>13. CASE IntakeRun(p) \/ StoreInputs(p) \/ WriteFailed(p) \/ WriteYielded(p)
            \/ CreateSuccessor(p) \/ LinkSuccessorAgent(p) \/ LinkContinuesFrom(p)
  BY <1>10, <1>12, <1>13, LabelNames DEF IntakeRun, StoreInputs, WriteFailed, WriteYielded,
     WriteIgnoringError, CreateSuccessor, LinkSuccessorAgent, LinkContinuesFrom, Locals, Waits
<1>14. CASE (LinkIntake(p) \/ WriteCompleted(p) \/ WriteDecomposed(p)) /\ ~Return(p)
  BY <1>1, <1>10, <1>12, <1>14, LabelNames DEF LinkIntake, WriteCompleted, WriteDecomposed, WriteOrReturn, Locals, Procs, Waits
<1>15. CASE LLMReturns(p)
  <2>1. \E l \in {"complete", "fail", "chain", "yield", "decomposed"} : Goto(p, l)
    BY <1>15 DEF LLMReturns
  <2> QED
    BY <1>10, <1>12, <1>15, <2>1, LabelNames DEF LLMReturns, Locals, Waits
<1>16. CASE BackfillChain(p)
  <2>1. mySeg[p] = 1
    <3>1. /\ pc[p] = "chain" /\ mySeg[p] = seg[job[p]] /\ job[p] \in Runs /\ mySeg[p] >= 1
          /\ chain[job[p]] = NoChain
      BY <1>1, <1>16, HasJob DEF BackfillChain, ChainInv, AtTip, Carry, OnTrack, TypeInv
    <3> QED
      BY <1>1, <3>1 DEF ChainInv, RowsOfChains
  <2>2. mySeg' = mySeg
    BY <1>16, <2>1 DEF BackfillChain, TypeInv, ExecOK
  <2> QED
    BY <1>10, <1>12, <1>16, <2>2, LabelNames DEF BackfillChain, Waits
<1> QED
  BY <1>3, <1>4, <1>6, <1>7, <1>8, <1>9, <1>11, <1>13, <1>14, <1>15, <1>16, <1>17
  DEF Call, Executor, Setup, Execute, Yield

\* A crash gives up every dispatched task it interrupts.
LEMMA PromiseCrash ==
  ASSUME TypeInv, Handlers = {}, Crash
  PROVE  [Promise!Next]_Promise!vars
<1>1. Procs = Dispatchers
  BY DEF Procs
<1>2. /\ [q \in Dispatchers |-> mySeg[q]]' = [q \in Dispatchers |-> mySeg[q]]
      /\ [q \in Dispatchers |-> VerdictBy(q)]' = [q \in Dispatchers |-> VerdictBy(q)]
  <2>1. \A q \in Dispatchers : VerdictBy(q)' = VerdictBy(q)
    BY SameVerdict DEF Crash
  <2> QED
    BY <1>1, <2>1 DEF Crash
<1>3. (crashes > 0 \/ faults > 0)'
  BY DEF Crash, TypeInv, BootOK
<1>4. PICK T : T = {q \in Dispatchers : pc[q] \notin {"idle", "done"}}
  OBVIOUS
<1>5. [q \in Dispatchers |-> pc[q] = "done"]' =
        [q \in Dispatchers |-> [r \in Dispatchers |-> pc[r] = "done"][q] \/ q \in T]
  BY <1>1, <1>4 DEF Crash
<1>8. [q \in Dispatchers |-> pc[q] \in {"inputs", "resolve"}]' =
        [q \in Dispatchers |-> [r \in Dispatchers |-> pc[r] \in {"inputs", "resolve"}][q] /\ q \notin T]
  <2>1. \A q \in Dispatchers : (pc'[q] \in {"inputs", "resolve"}) = (pc[q] \in {"inputs", "resolve"} /\ q \notin T)
    BY <1>1, <1>4 DEF Crash
  <2> QED
    BY <2>1, Zenon
<1>6. CASE T = {}
  <2>2. [q \in Dispatchers |-> pc[q] \in {"inputs", "resolve"}]' = [q \in Dispatchers |-> pc[q] \in {"inputs", "resolve"}]
    <3>1. \A q \in Dispatchers : (pc'[q] \in {"inputs", "resolve"}) = (pc[q] \in {"inputs", "resolve"})
      BY <1>1, <1>4, <1>6 DEF Crash
    <3> QED
      BY <3>1, Zenon
  <2>1. [q \in Dispatchers |-> pc[q] = "done"]' = [q \in Dispatchers |-> pc[q] = "done"]
    BY <1>5, <1>6
  <2> QED
    BY <1>2, <1>3, <2>1, <2>2 DEF Promise!Next, Promise!Disturb
<1>7. CASE T # {}
  <2>1. Promise!Abandon(T)
    BY <1>2, <1>3, <1>4, <1>5, <1>8 DEF Promise!Abandon
  <2>2. T \in (SUBSET Dispatchers) \ {{}}
    BY <1>4, <1>7
  <2> QED
    BY <2>1, <2>2 DEF Promise!Next
<1> QED
  BY <1>6, <1>7

\* The boot sweep speaks of no task.
LEMMA PromiseReboot ==
  ASSUME TypeInv, Handlers = {}, Reboot \/ UNCHANGED vars
  PROVE  [Promise!Next]_Promise!vars
<1>1. \A e : Verdict(e) => (e \in events' <=> e \in events)
  BY DEF Reboot, Boot, SweepRun, Serve, Publish, Event, Verdict, vars
<1>2. UNCHANGED <<pc, mySeg>> /\ crashes' = crashes
  BY DEF Reboot, Boot, SweepRun, Serve, execVars, vars, bootVars
<1>3. faults' = faults \/ faults' > 0
  <2>1. faults' = faults \/ faults' = faults + 1
    BY DEF Reboot, Boot, SweepRun, Serve, vars
  <2> QED
    BY <2>1 DEF TypeInv
<1>4. \A q \in Procs : VerdictBy(q)' = VerdictBy(q)
  BY <1>1, SameVerdict
<1>5. UNCHANGED <<[q \in Dispatchers |-> mySeg[q]], [q \in Dispatchers |-> VerdictBy(q)],
                  [q \in Dispatchers |-> pc[q] = "done"], [q \in Dispatchers |-> pc[q] \in {"inputs", "resolve"}]>>
  BY <1>2, <1>4 DEF Procs
<1>6. CASE (crashes > 0 \/ faults > 0)' = (crashes > 0 \/ faults > 0)
  BY <1>5, <1>6 DEF Promise!vars
<1>7. CASE (crashes > 0 \/ faults > 0)'
  BY <1>5, <1>7 DEF Promise!Next, Promise!Disturb
<1> QED
  BY <1>2, <1>3, <1>6, <1>7

\* Where neither RPCs nor rollbacks touch the runs of dispatched work, the
\* executors implement SessionChain, step by step.
THEOREM PromiseIsKept ==
  ASSUME Handlers = {}, Coords = {}
  PROVE  Spec => Promise!Spec
<1>1. Init => Promise!Init
  <2> SUFFICES ASSUME Init PROVE Promise!Init
    OBVIOUS
  <2>1. \A p \in Dispatchers : VerdictBy(p) = "none"
    BY DEF Init, VerdictBy
  <2>2. \A p \in Dispatchers : mySeg[p] = 0 /\ pc[p] = "idle"
    BY DEF Init, Procs
  <2>3. (crashes > 0 \/ faults > 0) = FALSE
    BY DEF Init
  <2>4. \A p \in Dispatchers : (pc[p] \in {"inputs", "resolve"}) = FALSE
    BY <2>2
  <2> QED
    BY <2>1, <2>2, <2>3, <2>4 DEF Promise!Init
<1>2. TypeInv /\ ChainInv /\ SegmentInv /\ TrackInv /\ [Next]_vars => [Promise!Next]_Promise!vars
  BY PromiseExecutor, PromiseCrash, PromiseReboot DEF Next
<1>3. Spec => []TrackInv
  BY Tracked
<1>4. Spec => []ChainInv
  BY Chained
<1> QED
  BY <1>1, <1>2, <1>3, <1>4, Typed, Segmented, PTL DEF Spec, Promise!Spec

=============================================================================
