---------------------------- MODULE RunLifecycle ----------------------------
(***************************************************************************)
(* The life of an AgentRun in CodeValdAI, at the granularity of one store  *)
(* operation or one batch of consecutive event publications per step.      *)
(*                                                                         *)
(* Three kinds of actors share the AgentRun entities of the store:         *)
(*   - executors: the goroutine RACIDispatcher.Dispatch starts for a       *)
(*     matched work plan (Dispatchers), and the gRPC calls IntakeRun,      *)
(*     ExecuteRun and ExecuteRunStreaming (Handlers);                      *)
(*   - rollbacks: calls of RollbackByWorkflowRun (Coords);                 *)
(*   - the boot sweep ReconcileRunningRuns, before the server listens.     *)
(*                                                                         *)
(* No write of a status re-reads the status it replaces: every executor    *)
(* works from the AgentRun it read when ExecuteRunStreaming began.  All    *)
(* runs of the model are anchored to one WorkflowRun, the one rolled back. *)
(***************************************************************************)
EXTENDS Naturals, FiniteSets

CONSTANTS
  Runs,         \* pool of AgentRun ids
  Chains,       \* pool of chain ids (uuid.New)
  Dispatchers,  \* goroutines of RACIDispatcher, one matched work plan each
  Handlers,     \* concurrent IntakeRun / ExecuteRun[Streaming] RPCs
  Coords,       \* concurrent calls of RollbackByWorkflowRun
  NoRun, NoChain,
  MaxSessions,  \* SessionLimits.MaxSessions, the same for every run
  MaxFaults,    \* bound: store operations that fail while their ctx is live
  MaxCrashes    \* bound: process crashes

ASSUME PoolAssumption == NoRun \notin Runs /\ NoChain \notin Chains
ASSUME ActorAssumption == Dispatchers \cap Handlers = {}
ASSUME LimitAssumption == MaxSessions \in Nat \ {0} /\ MaxFaults \in Nat /\ MaxCrashes \in Nat

VARIABLES
  \* the AgentRun entities and their edges
  status,       \* "none": the entity does not exist yet
  task,         \* task_id is not empty
  chain,        \* chain_id
  seg,          \* segment_number
  linked,       \* the belongs_to_agent edge exists
  from,         \* the continues_from edge, or NoRun
  \* one executor's program counter and local variables
  pc,
  job,          \* the run it executes (parameter runID, and run.ID)
  myChain,      \* run.ChainID as read at the start
  mySeg,        \* run.SegmentNumber as read at the start
  next,         \* successorEntity.ID
  gone,         \* handlers whose client has disconnected: ctx is cancelled
  \* a rollback's program counter and local variables
  rbPc,
  rbSnap,       \* the statuses ListRuns returned
  rbCur,        \* the run patched whose event is still to publish, or NoRun
  rbOut,        \* the slice of the result each run is in
  \* the process
  phase,        \* "up": serving; "down": crashed; "sweep": boot sweep runs
  sweepTodo,    \* rows of the sweep's list still to patch
  faults, crashes,
  \* history, read by properties only
  events,       \* every event handed to the publisher
  lost,         \* runs a failed write left in a status no executor expects
  shared        \* runs two executors read before either had written running

runVars   == <<status, task, chain, seg, linked, from>>
execVars  == <<pc, job, myChain, mySeg, next, gone, shared>>
rbVars    == <<rbPc, rbSnap, rbCur, rbOut>>
bootVars  == <<phase, sweepTodo, crashes>>
vars == <<runVars, execVars, rbVars, bootVars, faults, events, lost>>

Procs  == Dispatchers \cup Handlers
Frozen == {"cancelled", "rolled_back"}
Status == {"pending_intake", "pending_execution", "running", "completed",
           "failed", "yielded"} \cup Frozen

Labels == {"idle", "done", "intake", "begin", "inputs", "resolve", "started",
           "llm", "complete", "dispatch", "blockless", "announce",
           "announceSplit", "fail", "announceFail", "chain", "yield",
           "announceYield", "successor", "linkAgent", "linkFrom", "decomposed",
           "announceDecomposed"}

\* An event handed to CodeValdCross about run r by actor `by`.  sub is
\* HasSubtasks of TaskCompletedPayload, FALSE on every other topic; again tells
\* a repeated publication from the first.
Event(topic, r, by, sub) ==
  [topic |-> topic, run |-> r, by |-> by, sub |-> sub,
   again |-> \E e \in events : e.topic = topic /\ e.run = r /\ e.by = by]
Publish(S) == events' = events \cup S

-----------------------------------------------------------------------------
(* Store operations of an executor *)

Goto(p, l) == pc' = [pc EXCEPT ![p] = l]

\* The handler or the goroutine returns; its ctx ends with it.  A dispatcher
\* starts only once, and its last segment number is kept for the properties.
Return(p) ==
  /\ pc' = [pc EXCEPT ![p] = IF p \in Dispatchers THEN "done" ELSE "idle"]
  /\ job' = [job EXCEPT ![p] = NoRun]
  /\ myChain' = [myChain EXCEPT ![p] = NoChain]
  /\ next' = [next EXCEPT ![p] = NoRun]
  /\ gone' = gone \ {p}
  /\ mySeg' = [mySeg EXCEPT ![p] = IF p \in Dispatchers THEN @ ELSE 0]
  /\ UNCHANGED shared

\* A store operation under p's ctx fails: always possible once the client has
\* gone, otherwise at most MaxFaults times.  A write that fails may have taken
\* effect, its answer lost; where the caller goes on all the same, that is the
\* write that succeeds.
StoreFails(p) ==
  \/ p \in gone /\ UNCHANGED faults
  \/ p \notin gone /\ faults < MaxFaults /\ faults' = faults + 1

\* The id of the next entity to be created: one no entity has, if the pool
\* still holds one.  Nothing compares ids, so which one does not matter.
FreshRun == LET free == {r \in Runs : status[r] = "none"} IN
            IF free = {} THEN {} ELSE {CHOOSE r \in free : TRUE}

\* Another executor has read run r as dispatchable and not yet written running.
Contested(p, r) == \E q \in Procs \ {p} : job[q] = r /\ pc[q] \in {"inputs", "resolve"}

SetStatus(r, s) == status' = [status EXCEPT ![r] = s]

Locals == <<job, myChain, mySeg, next, gone, shared>>

\* An UpdateEntity that writes s on p's run and whose error is ignored.
WriteIgnoringError(p, s) ==
  \/ SetStatus(job[p], s) /\ UNCHANGED <<faults, lost>>
  \/ StoreFails(p) /\ lost' = lost \cup {job[p]} /\ UNCHANGED status

\* An UpdateEntity that writes s on p's run; the call returns its error.
WriteOrReturn(p, s, l) ==
  \/ /\ SetStatus(job[p], s)
     /\ Goto(p, l)
     /\ UNCHANGED <<Locals, faults, lost>>
  \/ /\ StoreFails(p) /\ Return(p)
     /\ \/ lost' = lost \cup {job[p]} /\ UNCHANGED status
        \/ SetStatus(job[p], s) /\ UNCHANGED lost

Fields == <<task, chain, seg, linked, from>>
Others == <<rbVars, bootVars>>

-----------------------------------------------------------------------------
(* Faulty variants of actions below, one plausible slip each.  No behaviour *)
(* uses them: put in the place of the original, each is caught by a property *)
(* of PROJECT.json.                                                          *)

\* The status check of ExecuteRunStreaming is gone.
AdmitAnyStatus(p, r) ==
  /\ Goto(p, IF status[r] = "pending_intake" THEN "inputs" ELSE "resolve")
  /\ job' = [job EXCEPT ![p] = r]
  /\ myChain' = [myChain EXCEPT ![p] = chain[r]]
  /\ mySeg' = [mySeg EXCEPT ![p] = seg[r]]
  /\ shared' = IF Contested(p, r) THEN shared \cup {r} ELSE shared
  /\ UNCHANGED <<next, gone>>

\* <= for < in the comparison with max_sessions.
LLMReturnsOneMore(p) ==
  /\ pc[p] = "llm"
  /\ \/ Goto(p, "complete")
     \/ Goto(p, "fail")
     \/ /\ MaxSessions > 1 /\ mySeg[p] <= MaxSessions
        /\ Goto(p, IF myChain[p] = NoChain THEN "chain" ELSE "yield")
  /\ UNCHANGED <<Locals, runVars, faults, events, lost, Others>>

\* hasSubtasks is dropped on the way to TaskCompletedPayload.
DispatchActionsDropsSubtasks(p) ==
  /\ pc[p] = "dispatch"
  /\ \/ Goto(p, "blockless") /\ UNCHANGED events
     \/ Goto(p, "announce") /\ UNCHANGED events
     \/ /\ Publish({Event("todo.created", job[p], p, FALSE)})
        /\ Goto(p, "announce")
  /\ UNCHANGED <<Locals, runVars, faults, lost, Others>>

\* task.failed is announced, the failed status never written.
WriteFailedForgets(p) ==
  /\ pc[p] \in {"fail", "blockless"}
  /\ Goto(p, "announceFail")
  /\ UNCHANGED <<Locals, runVars, faults, events, lost, Others>>

\* The return after task.failed is missing.
AnnounceFailedFallsThrough(p) ==
  /\ pc[p] = "announceFail"
  /\ Publish({Event("task.failed", job[p], p, FALSE),
              Event("run.failed", job[p], p, FALSE)})
  /\ Goto(p, "announce")
  /\ UNCHANGED <<Locals, runVars, faults, lost, Others>>

\* The run that yields stays in running.
WriteYieldedForgets(p) ==
  /\ pc[p] = "yield"
  /\ Goto(p, "announceYield")
  /\ UNCHANGED <<Locals, runVars, faults, events, lost, Others>>

\* segment_number is incremented twice.
CreateSuccessorSkips(p) ==
  /\ pc[p] = "successor"
  /\ \E r \in FreshRun :
       /\ SetStatus(r, "pending_execution")
       /\ task' = [task EXCEPT ![r] = task[job[p]]]
       /\ chain' = [chain EXCEPT ![r] = myChain[p]]
       /\ seg' = [seg EXCEPT ![r] = mySeg[p] + 2]
       /\ next' = [next EXCEPT ![p] = r]
  /\ Goto(p, "linkAgent")
  /\ UNCHANGED <<linked, from, job, myChain, mySeg, gone, shared, faults, events, lost, Others>>

\* <= for < in the bound on segment_number.
HistoryWithItself(c, maxSegment) == {r \in Runs : c # NoChain /\ chain[r] = c /\ seg[r] <= maxSegment}

\* The continues_from edge points to the chain id instead of the run.
LinkContinuesFromToChain(p) ==
  /\ pc[p] = "linkFrom"
  /\ from' = [from EXCEPT ![next[p]] = myChain[p]]
  /\ job' = [job EXCEPT ![p] = next[p]]
  /\ next' = [next EXCEPT ![p] = NoRun]
  /\ Goto(p, "begin")
  /\ UNCHANGED <<status, task, chain, seg, linked, myChain, mySeg, gone, shared, faults, events, lost, Others>>

\* The boot sweep lists the wrong status.
BootListsPending ==
  /\ phase = "down"
  /\ phase' = "sweep"
  /\ sweepTodo' = {r \in Runs : status[r] = "pending_execution"}
  /\ UNCHANGED <<crashes, runVars, execVars, rbVars, faults, lost, events>>

-----------------------------------------------------------------------------
Init ==
  /\ status = [r \in Runs |-> "none"]
  /\ task = [r \in Runs |-> FALSE]
  /\ chain = [r \in Runs |-> NoChain]
  /\ seg = [r \in Runs |-> 0]
  /\ linked = [r \in Runs |-> FALSE]
  /\ from = [r \in Runs |-> NoRun]
  /\ pc = [p \in Procs |-> "idle"]
  /\ job = [p \in Procs |-> NoRun]
  /\ myChain = [p \in Procs |-> NoChain]
  /\ mySeg = [p \in Procs |-> 0]
  /\ next = [p \in Procs |-> NoRun]
  /\ gone = {}
  /\ rbPc = [c \in Coords |-> "idle"]
  /\ rbSnap = [c \in Coords |-> [r \in Runs |-> "none"]]
  /\ rbCur = [c \in Coords |-> NoRun]
  /\ rbOut = [c \in Coords |-> [r \in Runs |-> "none"]]
  /\ phase = "up" /\ sweepTodo = {}
  /\ faults = 0 /\ crashes = 0
  /\ events = {} /\ lost = {} /\ shared = {}

-----------------------------------------------------------------------------
(* Intake *)

\* IntakeRun up to the creation of the AgentRun.
IntakeRun(p) ==
  /\ phase = "up" /\ pc[p] = "idle"
  /\ \E r \in FreshRun, t \in BOOLEAN :
       /\ SetStatus(r, "pending_intake")
       /\ task' = [task EXCEPT ![r] = t]
       /\ seg' = [seg EXCEPT ![r] = 1]
       /\ job' = [job EXCEPT ![p] = r]
  /\ Goto(p, "intake")
  /\ UNCHANGED <<chain, linked, from, myChain, mySeg, next, gone, shared, faults, events, lost, Others>>

\* A dispatched IntakeRun that returns before it creates the run: unknown
\* agent or provider, failed LLM call, unparseable answer, failed create.
\* Dispatch logs the error and the goroutine ends.
IntakeRejected(p) ==
  /\ phase = "up" /\ pc[p] = "idle" /\ p \in Dispatchers
  /\ Return(p)
  /\ UNCHANGED <<runVars, faults, events, lost, Others>>

\* The belongs_to_agent edge, then the RunFields.  A dispatcher goes on to
\* ExecuteRunStreaming; an RPC answers its client.
LinkIntake(p) ==
  /\ pc[p] = "intake"
  /\ \/ /\ linked' = [linked EXCEPT ![job[p]] = TRUE]
        /\ UNCHANGED faults
        /\ IF p \in Dispatchers THEN Goto(p, "begin") /\ UNCHANGED Locals
                                ELSE Return(p)
     \/ /\ StoreFails(p) /\ Return(p)
        /\ linked' \in {linked, [linked EXCEPT ![job[p]] = TRUE]}
  /\ UNCHANGED <<status, task, chain, seg, from, events, lost, Others>>

-----------------------------------------------------------------------------
(* ExecuteRunStreaming *)

\* GetEntity and the check of the status; anything that is not dispatchable
\* is ErrRunNotIntaked.
Admit(p, r) ==
  \/ /\ \/ status[r] = "pending_intake" /\ Goto(p, "inputs")
        \/ status[r] = "pending_execution" /\ Goto(p, "resolve")
     /\ job' = [job EXCEPT ![p] = r]
     /\ myChain' = [myChain EXCEPT ![p] = chain[r]]
     /\ mySeg' = [mySeg EXCEPT ![p] = seg[r]]
     /\ shared' = IF Contested(p, r) THEN shared \cup {r} ELSE shared
     /\ UNCHANGED <<next, gone>>
  \/ status[r] \notin {"pending_intake", "pending_execution"} /\ Return(p)

\* An ExecuteRun or ExecuteRunStreaming RPC for a run the client knows.
CallExecuteRun(p) ==
  /\ phase = "up" /\ pc[p] = "idle" /\ p \in Handlers
  /\ \E r \in Runs : status[r] # "none" /\ Admit(p, r)
  /\ UNCHANGED <<runVars, faults, events, lost, Others>>

\* The same entry from RACIDispatcher.triggerPlanRun, and from yieldRun for
\* the successor.
BeginExecute(p) ==
  /\ pc[p] = "begin" /\ Admit(p, job[p])
  /\ UNCHANGED <<runVars, faults, events, lost, Others>>

\* RunInputs stored, then pending_execution written.
StoreInputs(p) ==
  /\ pc[p] = "inputs"
  /\ SetStatus(job[p], "pending_execution")
  /\ Goto(p, "resolve")
  /\ UNCHANGED <<Locals, Fields, faults, events, lost, Others>>

\* loadChainHistory: the rows a later session replays to the LLM, whatever
\* their status.
LoadChainHistory(c, maxSegment) == {r \in Runs : c # NoChain /\ chain[r] = c /\ seg[r] < maxSegment}

\* resolveAgentAndProvider finds the agent, the prompt is built, and running
\* is written.
StartRunning(p) ==
  /\ pc[p] = "resolve" /\ linked[job[p]]
  /\ SetStatus(job[p], "running")
  /\ Goto(p, "started")
  /\ UNCHANGED <<Locals, Fields, faults, events, lost, Others>>

\* A run without its belongs_to_agent edge: ErrAgentNotFound, and the run
\* stays in pending_execution.
AgentMissing(p) ==
  /\ pc[p] = "resolve" /\ ~linked[job[p]]
  /\ Return(p)
  /\ UNCHANGED <<runVars, faults, events, lost, Others>>

\* A store operation before the LLM call fails and its error is returned.  The
\* row keeps its status, unless the write that failed has taken effect: then
\* nobody executes a run in running.
SetupFails(p) ==
  /\ pc[p] \in {"begin", "inputs", "resolve"}
  /\ StoreFails(p) /\ Return(p)
  /\ \/ UNCHANGED <<status, lost>>
     \/ pc[p] = "inputs" /\ SetStatus(job[p], "pending_execution") /\ UNCHANGED lost
     \/ /\ pc[p] = "resolve" /\ linked[job[p]]
        /\ SetStatus(job[p], "running") /\ lost' = lost \cup {job[p]}
  /\ UNCHANGED <<Fields, events, Others>>

AnnounceStarted(p) ==
  /\ pc[p] = "started"
  /\ Publish({Event("task.started", job[p], p, FALSE)})
  /\ Goto(p, "llm")
  /\ UNCHANGED <<Locals, runVars, faults, lost, Others>>

\* callLLM returns.  A session limit (deadline or cancellation) is a yield
\* signal when more than one session is allowed: below the limit the run
\* yields, at the limit a run of a task may be decomposed (autoDecompose).
LLMReturns(p) ==
  /\ pc[p] = "llm"
  /\ \E answer \in {"ok", "error", "limit"} :
       CASE answer = "ok" -> Goto(p, "complete")
         [] answer = "limit" /\ MaxSessions > 1 /\ mySeg[p] < MaxSessions ->
              Goto(p, IF myChain[p] = NoChain THEN "chain" ELSE "yield")
         [] answer = "limit" /\ MaxSessions > 1 /\ mySeg[p] >= MaxSessions ->
              \E todos \in IF task[job[p]] THEN BOOLEAN ELSE {FALSE} :
                Goto(p, IF todos THEN "decomposed" ELSE "fail")
         [] OTHER -> Goto(p, "fail")
  /\ UNCHANGED <<Locals, runVars, faults, events, lost, Others>>

\* The answer is stored with status completed; on an error the call returns
\* and nothing is published.
WriteCompleted(p) ==
  /\ pc[p] = "complete"
  /\ WriteOrReturn(p, "completed", "dispatch")
  /\ UNCHANGED <<Fields, events, Others>>

\* dispatchActions: no (or a malformed) actions block, a block without
\* sub-tasks - it may be empty, and its actions are requests to other services
\* that no property reads - or a block with a todo.created or a request to
\* split (HasSubtasks only for the run of a task).
DispatchActions(p) ==
  /\ pc[p] = "dispatch"
  /\ \/ Goto(p, "blockless") /\ UNCHANGED events
     \/ Goto(p, "announce") /\ UNCHANGED events
     \/ /\ Publish({Event("todo.created", job[p], p, FALSE)})
        /\ Goto(p, IF task[job[p]] THEN "announceSplit" ELSE "announce")
  /\ UNCHANGED <<Locals, runVars, faults, lost, Others>>

AnnounceCompleted(p) ==
  /\ pc[p] \in {"announce", "announceSplit"}
  /\ Publish({Event("task.completed", job[p], p, pc[p] = "announceSplit"),
              Event("run.completed", job[p], p, FALSE)})
  /\ Return(p)
  /\ UNCHANGED <<runVars, faults, lost, Others>>

\* status failed after an LLM error, an exhausted chain, or an answer without
\* an actions block.  The error of the write is ignored.
WriteFailed(p) ==
  /\ pc[p] \in {"fail", "blockless"}
  /\ WriteIgnoringError(p, "failed")
  /\ Goto(p, "announceFail")
  /\ UNCHANGED <<Locals, Fields, events, Others>>

AnnounceFailed(p) ==
  /\ pc[p] = "announceFail"
  /\ Publish({Event("task.failed", job[p], p, FALSE),
              Event("run.failed", job[p], p, FALSE)})
  /\ Return(p)
  /\ UNCHANGED <<runVars, faults, lost, Others>>

\* completeAsDecomposed.
WriteDecomposed(p) ==
  /\ pc[p] = "decomposed"
  /\ WriteOrReturn(p, "completed", "announceDecomposed")
  /\ UNCHANGED <<Fields, events, Others>>

AnnounceDecomposed(p) ==
  /\ pc[p] = "announceDecomposed"
  /\ Publish({Event("todo.created", job[p], p, FALSE),
              Event("task.completed", job[p], p, TRUE),
              Event("run.completed", job[p], p, FALSE)})
  /\ Return(p)
  /\ UNCHANGED <<runVars, faults, lost, Others>>

-----------------------------------------------------------------------------
(* yieldRun *)

FreshChain == LET free == {c \in Chains : /\ \A r \in Runs : chain[r] # c
                                          /\ \A p \in Procs : myChain[p] # c} IN
              IF free = {} THEN {} ELSE {CHOOSE c \in free : TRUE}

\* The first yield of a chain: a new chain id, back-filled on the run with
\* segment_number 1.  The error of the write is ignored.
BackfillChain(p) ==
  /\ pc[p] = "chain"
  /\ \E c \in FreshChain :
       /\ myChain' = [myChain EXCEPT ![p] = c]
       /\ \/ /\ chain' = [chain EXCEPT ![job[p]] = c]
             /\ seg' = [seg EXCEPT ![job[p]] = 1]
             /\ UNCHANGED faults
          \/ StoreFails(p) /\ UNCHANGED <<chain, seg>>
  /\ mySeg' = [mySeg EXCEPT ![p] = 1]
  /\ Goto(p, "yield")
  /\ UNCHANGED <<status, task, linked, from, job, next, gone, shared, events, lost, Others>>

WriteYielded(p) ==
  /\ pc[p] = "yield"
  /\ WriteIgnoringError(p, "yielded")
  /\ Goto(p, "announceYield")
  /\ UNCHANGED <<Locals, Fields, events, Others>>

AnnounceYielded(p) ==
  /\ pc[p] = "announceYield"
  /\ Publish({Event("task.yielded", job[p], p, FALSE)})
  /\ Goto(p, "successor")
  /\ UNCHANGED <<Locals, runVars, faults, lost, Others>>

\* The successor is created in pending_execution, one segment further.
CreateSuccessor(p) ==
  /\ pc[p] = "successor"
  /\ \E r \in FreshRun :
       /\ SetStatus(r, "pending_execution")
       /\ task' = [task EXCEPT ![r] = task[job[p]]]
       /\ chain' = [chain EXCEPT ![r] = myChain[p]]
       /\ seg' = [seg EXCEPT ![r] = mySeg[p] + 1]
       /\ next' = [next EXCEPT ![p] = r]
  /\ Goto(p, "linkAgent")
  /\ UNCHANGED <<linked, from, job, myChain, mySeg, gone, shared, faults, events, lost, Others>>

LinkSuccessorAgent(p) ==
  /\ pc[p] = "linkAgent"
  /\ linked' = [linked EXCEPT ![next[p]] = TRUE]
  /\ Goto(p, "linkFrom")
  /\ UNCHANGED <<status, task, chain, seg, from, Locals, faults, events, lost, Others>>

\* A failed creation or agent link is returned: the chain ends here.  (A
\* creation that failed and took effect leaves what a failed link leaves.)
SuccessorFails(p) ==
  /\ pc[p] \in {"successor", "linkAgent"}
  /\ StoreFails(p) /\ Return(p)
  /\ \/ UNCHANGED linked
     \/ pc[p] = "linkAgent" /\ linked' = [linked EXCEPT ![next[p]] = TRUE]
  /\ UNCHANGED <<status, task, chain, seg, from, events, lost, Others>>

\* The continues_from edge (its error is only logged), then the recursive call
\* for the successor on the same goroutine.
LinkContinuesFrom(p) ==
  /\ pc[p] = "linkFrom"
  /\ \/ from' = [from EXCEPT ![next[p]] = job[p]] /\ UNCHANGED faults
     \/ StoreFails(p) /\ UNCHANGED from
  /\ job' = [job EXCEPT ![p] = next[p]]
  /\ next' = [next EXCEPT ![p] = NoRun]
  /\ Goto(p, "begin")
  /\ UNCHANGED <<status, task, chain, seg, linked, myChain, mySeg, gone, shared, events, lost, Others>>

-----------------------------------------------------------------------------
(* RollbackByWorkflowRun *)

\* The call answers or fails; its list and its result go with it.
RollbackEnds(c) ==
  /\ rbPc' = [rbPc EXCEPT ![c] = "idle"]
  /\ rbSnap' = [rbSnap EXCEPT ![c] = [r \in Runs |-> "none"]]
  /\ rbOut' = [rbOut EXCEPT ![c] = [r \in Runs |-> "none"]]
  /\ UNCHANGED rbCur

ListRunsForRollback(c) ==
  /\ phase = "up" /\ rbPc[c] = "idle"
  /\ rbPc' = [rbPc EXCEPT ![c] = "loop"]
  /\ rbSnap' = [rbSnap EXCEPT ![c] = status]
  /\ UNCHANGED <<rbCur, rbOut, runVars, execVars, bootVars, faults, events, lost>>

\* The rows of the list the loop has not reached yet.
RollbackTodo(c) == {r \in Runs : rbSnap[c][r] # "none" /\ rbOut[c][r] = "none"}

\* What the loop does with a row it listed with status s.
RollbackTarget(s) == IF s \in {"completed", "failed"} THEN "rolled_back" ELSE "cancelled"

\* One row already frozen when it was listed.
RollbackSkip(c) ==
  /\ rbPc[c] = "loop" /\ rbCur[c] = NoRun
  /\ \E r \in RollbackTodo(c) :
       /\ rbSnap[c][r] \in Frozen
       /\ rbOut' = [rbOut EXCEPT ![c][r] = "skipped"]
  /\ UNCHANGED <<rbPc, rbSnap, rbCur, runVars, execVars, bootVars, faults, events, lost>>

\* applyTerminalStatus: the row gets the status its LISTED status calls for,
\* whatever its status is by now.
RollbackPatch(c) ==
  /\ rbPc[c] = "loop" /\ rbCur[c] = NoRun
  /\ \E r \in RollbackTodo(c) :
       /\ rbSnap[c][r] \notin Frozen
       /\ SetStatus(r, RollbackTarget(rbSnap[c][r]))
       /\ rbOut' = [rbOut EXCEPT ![c][r] = RollbackTarget(rbSnap[c][r])]
       /\ rbCur' = [rbCur EXCEPT ![c] = r]
  /\ UNCHANGED <<rbPc, rbSnap, Fields, execVars, bootVars, faults, events, lost>>

RollbackTopic(out) == IF out = "cancelled" THEN "run.cancelled" ELSE "run.rolled-back"

RollbackAnnounce(c) ==
  /\ rbPc[c] = "loop" /\ rbCur[c] # NoRun
  /\ Publish({Event(RollbackTopic(rbOut[c][rbCur[c]]), rbCur[c], c, FALSE)})
  /\ rbCur' = [rbCur EXCEPT ![c] = NoRun]
  /\ UNCHANGED <<rbPc, rbSnap, rbOut, runVars, execVars, bootVars, faults, lost>>

\* A failed write of a row, whether it took effect or not, aborts the loop.
RollbackFails(c) ==
  /\ rbPc[c] = "loop" /\ rbCur[c] = NoRun /\ faults < MaxFaults
  /\ \E r \in RollbackTodo(c) :
       /\ rbSnap[c][r] \notin Frozen
       /\ UNCHANGED status \/ SetStatus(r, RollbackTarget(rbSnap[c][r]))
  /\ RollbackEnds(c)
  /\ faults' = faults + 1
  /\ UNCHANGED <<Fields, execVars, bootVars, events, lost>>

RollbackReturns(c) ==
  /\ rbPc[c] = "loop" /\ rbCur[c] = NoRun /\ RollbackTodo(c) = {}
  /\ RollbackEnds(c)
  /\ UNCHANGED <<runVars, execVars, bootVars, faults, events, lost>>

-----------------------------------------------------------------------------
(* The client, the process and the boot sweep *)

\* The client of an RPC disconnects: stream.Context() is cancelled.
ClientGone(p) ==
  /\ p \in Handlers /\ pc[p] # "idle" /\ p \notin gone
  /\ gone' = gone \cup {p}
  /\ UNCHANGED <<runVars, pc, job, myChain, mySeg, next, shared, rbVars, bootVars, faults, events, lost>>

\* The process dies: goroutines and calls end where they are.  A dispatcher
\* that has not started is an event still to come.
Crash ==
  /\ phase # "down" /\ crashes < MaxCrashes
  /\ phase' = "down" /\ crashes' = crashes + 1 /\ sweepTodo' = {}
  /\ pc' = [p \in Procs |-> IF p \in Dispatchers /\ pc[p] # "idle" THEN "done" ELSE "idle"]
  /\ job' = [p \in Procs |-> NoRun]
  /\ myChain' = [p \in Procs |-> NoChain]
  /\ mySeg' = [p \in Procs |-> IF p \in Dispatchers THEN mySeg[p] ELSE 0]
  /\ next' = [p \in Procs |-> NoRun]
  /\ gone' = {} /\ UNCHANGED shared
  /\ rbPc' = [c \in Coords |-> "idle"]
  /\ rbSnap' = [c \in Coords |-> [r \in Runs |-> "none"]]
  /\ rbOut' = [c \in Coords |-> [r \in Runs |-> "none"]]
  /\ rbCur' = [c \in Coords |-> NoRun]
  /\ UNCHANGED <<runVars, faults, events, lost>>

\* Start of the process: ReconcileRunningRuns lists the rows in running.  A
\* failed list is logged and the server starts without a sweep.
Boot ==
  /\ phase = "down"
  /\ \/ /\ phase' = "sweep"
        /\ sweepTodo' = {r \in Runs : status[r] = "running"}
        /\ UNCHANGED <<faults, lost>>
     \/ /\ faults < MaxFaults /\ faults' = faults + 1
        /\ phase' = "up" /\ UNCHANGED sweepTodo
        /\ lost' = lost \cup {r \in Runs : status[r] = "running"}
  /\ UNCHANGED <<crashes, runVars, execVars, rbVars, events>>

\* One row: failed, and only run.failed is published.  A failed write, whether
\* it took effect or not, is logged and the row skipped.
SweepRun ==
  /\ phase = "sweep"
  /\ \E r \in sweepTodo :
       /\ sweepTodo' = sweepTodo \ {r}
       /\ \/ /\ SetStatus(r, "failed")
             /\ Publish({Event("run.failed", r, "boot", FALSE)})
             /\ UNCHANGED <<faults, lost>>
          \/ /\ faults < MaxFaults /\ faults' = faults + 1
             /\ \/ lost' = lost \cup {r} /\ UNCHANGED status
                \/ SetStatus(r, "failed") /\ UNCHANGED lost
             /\ UNCHANGED events
  /\ UNCHANGED <<phase, crashes, Fields, execVars, rbVars>>

\* The gRPC server listens.
Serve ==
  /\ phase = "sweep" /\ sweepTodo = {}
  /\ phase' = "up"
  /\ UNCHANGED <<sweepTodo, crashes, runVars, execVars, rbVars, faults, events, lost>>

-----------------------------------------------------------------------------
Setup(p) == \/ LinkIntake(p) \/ BeginExecute(p) \/ StoreInputs(p)
            \/ StartRunning(p) \/ AgentMissing(p) \/ SetupFails(p)

Execute(p) == \/ AnnounceStarted(p) \/ LLMReturns(p)
              \/ WriteCompleted(p) \/ DispatchActions(p) \/ AnnounceCompleted(p)
              \/ WriteFailed(p) \/ AnnounceFailed(p)
              \/ WriteDecomposed(p) \/ AnnounceDecomposed(p)

Yield(p) == \/ BackfillChain(p) \/ WriteYielded(p) \/ AnnounceYielded(p)
            \/ CreateSuccessor(p) \/ LinkSuccessorAgent(p) \/ SuccessorFails(p)
            \/ LinkContinuesFrom(p)

\* The steps an executor takes by itself once its call has begun.
Executor(p) == Setup(p) \/ Execute(p) \/ Yield(p)

Call(p) == IntakeRun(p) \/ IntakeRejected(p) \/ CallExecuteRun(p)

RollbackStep(c) == \/ RollbackSkip(c) \/ RollbackPatch(c) \/ RollbackAnnounce(c)
                   \/ RollbackFails(c) \/ RollbackReturns(c)

Reboot == Boot \/ SweepRun \/ Serve

Next ==
  \/ \E p \in Procs : Call(p) \/ Executor(p) \/ ClientGone(p)
  \/ \E c \in Coords : ListRunsForRollback(c) \/ RollbackStep(c)
  \/ Crash
  \/ Reboot

Spec == Init /\ [][Next]_vars

\* Goroutines and RPC handlers that have begun run on, rollback loops too, and
\* a process that is down is started again by its supervisor.  Not so at
\* "resolve": buildSystemPrompt makes HTTP requests that nothing bounds in
\* time.  Nobody is obliged to send an event, a call or a rollback, and nothing
\* has to fail.
Fairness == /\ \A p \in Procs : WF_vars(pc[p] # "resolve" /\ Executor(p))
            /\ \A c \in Coords : WF_vars(RollbackStep(c))
            /\ WF_vars(Reboot)

FairSpec == Spec /\ Fairness

-----------------------------------------------------------------------------
(* Properties *)

Topics == {"task.started", "task.completed", "task.failed", "task.yielded",
           "run.completed", "run.failed", "run.cancelled", "run.rolled-back",
           "todo.created"}

AllEvents == [topic : Topics, run : Runs, by : Procs \cup Coords \cup {"boot"},
              sub : BOOLEAN, again : BOOLEAN]

TypeOK ==
  /\ status \in [Runs -> Status \cup {"none"}]
  /\ task \in [Runs -> BOOLEAN]
  /\ chain \in [Runs -> Chains \cup {NoChain}]
  /\ seg \in [Runs -> Nat]
  /\ linked \in [Runs -> BOOLEAN]
  /\ from \in [Runs -> Runs \cup {NoRun}]
  /\ pc \in [Procs -> Labels]
  /\ job \in [Procs -> Runs \cup {NoRun}]
  /\ myChain \in [Procs -> Chains \cup {NoChain}]
  /\ mySeg \in [Procs -> Nat]
  /\ next \in [Procs -> Runs \cup {NoRun}]
  /\ gone \subseteq Handlers
  /\ rbPc \in [Coords -> {"idle", "loop"}]
  /\ rbSnap \in [Coords -> [Runs -> Status \cup {"none"}]]
  /\ rbCur \in [Coords -> Runs \cup {NoRun}]
  /\ rbOut \in [Coords -> [Runs -> {"none", "cancelled", "rolled_back", "skipped"}]]
  /\ phase \in {"up", "down", "sweep"}
  /\ sweepTodo \subseteq Runs
  /\ faults \in Nat /\ crashes \in Nat
  /\ events \subseteq AllEvents
  /\ lost \subseteq Runs /\ shared \subseteq Runs

\* Where an executor has written running and has not yet replaced it.
Working == {"started", "llm", "complete", "fail", "chain", "yield", "decomposed"}

\* Where an executor may still write the status of its run without looking.
InFlight == Working \cup {"inputs", "resolve", "dispatch", "blockless"}

Held(r) == \E p \in Procs : job[p] = r /\ pc[p] \in InFlight

\* A row in running is never forgotten: an executor is working on it, or the
\* process is down, or the boot sweep has it on its list - unless the write
\* that would have closed it failed, or the one that opened it did so after
\* taking effect.  (Boot sweep and the error paths of ExecuteRunStreaming.)
NoOrphanRunning ==
  \A r \in Runs : status[r] = "running" =>
    \/ \E p \in Procs : job[p] = r /\ pc[p] \in Working
    \/ phase = "down"
    \/ phase = "sweep" /\ r \in sweepTodo
    \/ r \in lost

\* The circuit breaker of run-yielded.md: no chain grows beyond max_sessions,
\* whoever executes its runs.
SegmentBound == \A r \in Runs : seg[r] <= MaxSessions

\* A frozen row no executor is in flight on stays within cancelled and
\* rolled_back (rollbacks with stale lists may swap them) and is never picked
\* up again: what a rollback misses, it misses only to executors that had read
\* the run before (status check of ExecuteRunStreaming, boot sweep, rollback).
FrozenStays ==
  [][\A r \in Runs : status[r] \in Frozen /\ ~Held(r) =>
        status'[r] \in Frozen /\ ~(Held(r))']_vars

Verdict(e) == e.topic \in {"task.completed", "task.failed"}

\* CodeValdWork is told once how a run ended: never both completed and failed,
\* and neither twice, whoever calls ExecuteRun again and when (return paths of
\* ExecuteRunStreaming after the LLM call, status check on entry).  The check
\* and the write of running are two steps: two calls may both pass between them.
VerdictOnce ==
  \A e, f \in events : Verdict(e) /\ Verdict(f) /\ e.run = f.run /\ e.run \notin shared =>
    e = f /\ ~e.again

\* What CodeValdWork was told is what the row says, unless a rollback froze
\* the row since or the failed status could not be written; same exception.
VerdictMatchesStatus ==
  \A e \in events : e.run \notin shared =>
    /\ e.topic = "task.completed" => status[e.run] \in {"completed"} \cup Frozen
    /\ e.topic = "task.failed" => status[e.run] \in {"failed"} \cup Frozen \/ e.run \in lost

\* A task whose run announced sub-tasks is not reported as simply finished:
\* HasSubtasks makes CodeValdWork wait for them.  Same exception.
DeferredCompletion ==
  \A e, f \in events : e.topic = "todo.created" /\ f.topic = "task.completed"
                       /\ e.run = f.run /\ task[e.run] /\ e.run \notin shared => f.sub

Live == {"pending_intake", "pending_execution", "running"}

\* A chain is a line of sessions: each session after the first continues
\* exactly one earlier session of the same chain, which has stopped; so two
\* sessions of a chain are never live together (yieldRun's order of writes).
\* yieldRun ignores two errors: a lost yielded write leaves the earlier session
\* looking live, and a lost backfill leaves the first session without its chain.
ChainIsALine ==
  \A r \in Runs : seg[r] > 1 =>
    /\ \E q \in Runs : /\ seg[q] = seg[r] - 1
                       /\ chain[q] = chain[r] \/ (faults > 0 /\ seg[q] = 1 /\ chain[q] = NoChain)
                       /\ status[q] \in {"yielded"} \cup Frozen \/ q \in lost
    /\ \A q \in Runs \ {r} : chain[q] = chain[r] =>
         /\ seg[q] # seg[r]
         /\ status[q] \in Live /\ status[r] \in Live => q \in lost \/ r \in lost

\* A session that carries on replays the whole story and nothing else: of every
\* earlier session one row, which yielded and so holds its partial output.
\* Where yieldRun ignored an error the story has a gap the LLM is not told of:
\* the first session lost its chain id, or one its output (loadChainHistory).
ReplaysWholeStory ==
  \A p \in Procs : pc[p] = "resolve" /\ mySeg[p] > 1 =>
    LET replayed == LoadChainHistory(myChain[p], mySeg[p]) IN
    /\ \A q, r \in replayed : seg[q] = seg[r] => q = r
    /\ \A s \in 1..(mySeg[p] - 1) : (\E r \in replayed : seg[r] = s) \/ (s = 1 /\ faults > 0)
    /\ \A r \in replayed : status[r] \in {"yielded"} \cup Frozen \/ r \in lost

\* Again and again no row is in running: every LLM outcome leads on, and the
\* boot sweep closes what a crash left - unless the write that would have
\* closed the row failed, or the one that opened it after taking effect.
RunningSettles == []<>(\A r \in Runs : status[r] = "running" => r \in lost)

-----------------------------------------------------------------------------
(* What the documentation says and the code does not do: each is violated. *)

\* models.go on AgentRunStatusCancelled: "the terminal state an in-flight run
\* lands in when its parent WorkflowRun is rolled back".  Its executor, which
\* has written running, closes it over the cancelled status.
CancelledIsTerminal ==
  [][\A r \in Runs :
       status[r] = "cancelled" /\ (\E p \in Procs : job[p] = r /\ pc[p] \in Working) =>
         status'[r] = "cancelled"]_vars

\* server.go on ExecuteRunStreaming: "the run always reaches a terminal state
\* regardless of stream health".  A run announced as started and left in
\* running by its executor is refused to every later call.
DisconnectLeavesNoRunning ==
  \A e \in events : e.topic = "task.started" /\ status[e.run] = "running" =>
    phase # "up" \/ \E p \in Procs : job[p] = e.run

=============================================================================
