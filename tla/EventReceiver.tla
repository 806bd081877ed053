---------------------------- MODULE EventReceiver ----------------------------
(***************************************************************************)
(* Receipt of an event pushed by CodeValdCross and its fan-out to work     *)
(* plans: EventReceiverServer.NotifyEvent, RACIDispatcher.Dispatch and     *)
(* triggerPlanRun.  Cross is external: it keeps a delivery pending until   *)
(* NotifyEvent answers without an error and may push it again, also while  *)
(* an earlier push is still being handled.                                 *)
(***************************************************************************)
EXTENDS Naturals

CONSTANTS
  Events,       \* events Cross pushes to this service
  Unnamed,      \* those of them that carry an empty event_id
  Plans,        \* work plans of the agency
  Agentless,    \* those of them without an agent_id
  Calls,        \* concurrent NotifyEvent handlers
  MaxPushes,    \* bound: pushes of one event
  MaxFaults,    \* bound: failed calls of the store or of CodeValdAgency
  MaxCrashes    \* bound: process crashes

ASSUME SubsetAssumption == Unnamed \subseteq Events /\ Agentless \subseteq Plans
ASSUME BoundAssumption == MaxPushes \in Nat /\ MaxFaults \in Nat /\ MaxCrashes \in Nat

VARIABLES
  delivery,   \* Cross: "pending" or "acked"
  pushes,     \* Cross: how often it pushed the event
  at,         \* a handler's position: "idle", "check", "create" or "reply"
  ev,         \* the event it handles
  received,   \* ReceivedEvent entities written for the event
  matching,   \* Dispatch goroutines that have not had their matches yet
  triggers,   \* triggerPlanRun goroutines that have not reached IntakeRun yet
  runs,       \* IntakeRun calls made for the event and the plan
  faults, crashes,
  \* history, read by properties only
  matched,    \* events CodeValdAgency answered with the plans that match
  dropped,    \* events whose goroutine died, or had no answer, before that
  raced,      \* events whose duplicate check could not see an earlier push
  unsure      \* events whose failed write may have left a row

crossVars == <<delivery, pushes>>
callVars  == <<at, ev>>
goVars    == <<matching, triggers, runs>>
vars == <<crossVars, callVars, received, goVars, faults, crashes, matched, dropped, raced, unsure>>

-----------------------------------------------------------------------------
(* Faulty variants of actions below; no behaviour uses them. *)

\* A write that failed is acknowledged all the same.
RecordFailsQuietly(c) ==
  /\ at[c] = "create" /\ faults < MaxFaults
  /\ faults' = faults + 1
  /\ at' = [at EXCEPT ![c] = "reply"]
  /\ UNCHANGED <<crossVars, ev, received, goVars, crashes, matched, dropped, raced, unsure>>

\* The duplicate check looks at the wrong property and never finds a row.
CheckFindsNothing(c) ==
  /\ at[c] = "check"
  /\ at' = [at EXCEPT ![c] = "create"]
  /\ raced' = IF \E d \in Calls \ {c} : at[d] = "create" /\ ev[d] = ev[c]
              THEN raced \cup {ev[c]} ELSE raced
  /\ UNCHANGED <<crossVars, ev, received, goVars, faults, crashes, matched, dropped, unsure>>

\* A duplicate is acknowledged and dispatched again.
CheckRedispatches(c) ==
  /\ at[c] = "check"
  /\ \/ /\ ev[c] \in Unnamed \/ received[ev[c]] = 0
        /\ at' = [at EXCEPT ![c] = "create"]
        /\ UNCHANGED matching
     \/ /\ received[ev[c]] > 0
        /\ matching' = [matching EXCEPT ![ev[c]] = @ + 1]
        /\ at' = [at EXCEPT ![c] = "reply"]
  /\ UNCHANGED <<crossVars, ev, received, triggers, runs, faults, crashes, matched, dropped, raced, unsure>>

\* The new event is recorded, the goroutine never started.
RecordOnly(c) ==
  /\ at[c] = "create"
  /\ received' = [received EXCEPT ![ev[c]] = @ + 1]
  /\ at' = [at EXCEPT ![c] = "reply"]
  /\ UNCHANGED <<crossVars, ev, goVars, faults, crashes, matched, dropped, raced, unsure>>

-----------------------------------------------------------------------------
Init ==
  /\ delivery = [e \in Events |-> "pending"]
  /\ pushes = [e \in Events |-> 0]
  /\ at = [c \in Calls |-> "idle"]
  /\ ev \in [Calls -> Events]
  /\ received = [e \in Events |-> 0]
  /\ matching = [e \in Events |-> 0]
  /\ triggers = [e \in Events |-> [p \in Plans |-> 0]]
  /\ runs = [e \in Events |-> [p \in Plans |-> 0]]
  /\ faults = 0 /\ crashes = 0
  /\ matched = {} /\ dropped = {} /\ raced = {} /\ unsure = {}

-----------------------------------------------------------------------------
(* NotifyEvent *)

\* Cross pushes a delivery it has no answer for.
Push(c, e) ==
  /\ at[c] = "idle" /\ delivery[e] = "pending" /\ pushes[e] < MaxPushes
  /\ pushes' = [pushes EXCEPT ![e] = @ + 1]
  /\ at' = [at EXCEPT ![c] = "check"]
  /\ ev' = [ev EXCEPT ![c] = e]
  /\ UNCHANGED <<delivery, received, goVars, faults, crashes, matched, dropped, raced, unsure>>

\* Another handler is between its own check and its write of the same event.
Overlapped(c) == \E d \in Calls \ {c} : at[d] = "create" /\ ev[d] = ev[c]

\* ListEntities by event_id: a row is found and the push acknowledged without
\* a dispatch, or none is and the event is new.  An empty event_id is not
\* looked up.
Check(c) ==
  /\ at[c] = "check"
  /\ \/ /\ ev[c] \in Unnamed \/ received[ev[c]] = 0
        /\ at' = [at EXCEPT ![c] = "create"]
        /\ raced' = IF Overlapped(c) THEN raced \cup {ev[c]} ELSE raced
     \/ /\ ev[c] \notin Unnamed /\ received[ev[c]] > 0
        /\ at' = [at EXCEPT ![c] = "reply"]
        /\ UNCHANGED raced
  /\ UNCHANGED <<crossVars, ev, received, goVars, faults, crashes, matched, dropped, unsure>>

\* The list fails: the error is not looked at and the event counts as new.
CheckFails(c) ==
  /\ at[c] = "check" /\ ev[c] \notin Unnamed /\ faults < MaxFaults
  /\ faults' = faults + 1
  /\ at' = [at EXCEPT ![c] = "create"]
  /\ raced' = raced \cup {ev[c]}
  /\ UNCHANGED <<crossVars, ev, received, goVars, crashes, matched, dropped, unsure>>

\* The ReceivedEvent is written, then the Dispatch goroutine started.
Record(c) ==
  /\ at[c] = "create"
  /\ received' = [received EXCEPT ![ev[c]] = @ + 1]
  /\ matching' = [matching EXCEPT ![ev[c]] = @ + 1]
  /\ at' = [at EXCEPT ![c] = "reply"]
  /\ UNCHANGED <<crossVars, ev, triggers, runs, faults, crashes, matched, dropped, raced, unsure>>

\* The write fails, with or without a row left in the store: codes.Internal.
RecordFails(c) ==
  /\ at[c] = "create" /\ faults < MaxFaults
  /\ faults' = faults + 1
  /\ at' = [at EXCEPT ![c] = "idle"]
  /\ \/ UNCHANGED <<received, unsure>>
     \/ /\ received' = [received EXCEPT ![ev[c]] = @ + 1]
        /\ unsure' = unsure \cup {ev[c]}
  /\ UNCHANGED <<crossVars, ev, goVars, crashes, matched, dropped, raced>>

\* Cross gets the answer and acks the delivery, or it has stopped waiting.
Reply(c) ==
  /\ at[c] = "reply"
  /\ at' = [at EXCEPT ![c] = "idle"]
  /\ delivery' \in {delivery, [delivery EXCEPT ![ev[c]] = "acked"]}
  /\ UNCHANGED <<pushes, ev, received, goVars, faults, crashes, matched, dropped, raced, unsure>>

-----------------------------------------------------------------------------
(* RACIDispatcher *)

\* MatchWorkPlans answers with the plans that match; one goroutine each.
Dispatch(e) ==
  /\ matching[e] > 0
  /\ matching' = [matching EXCEPT ![e] = @ - 1]
  /\ matched' = matched \cup {e}
  /\ \E S \in SUBSET Plans :
       triggers' = [triggers EXCEPT ![e] = [p \in Plans |-> IF p \in S THEN @[p] + 1 ELSE @[p]]]
  /\ UNCHANGED <<crossVars, callVars, received, runs, faults, crashes, dropped, raced, unsure>>

\* MatchWorkPlans fails: logged, and the event is not tried again.
DispatchFails(e) ==
  /\ matching[e] > 0 /\ faults < MaxFaults
  /\ faults' = faults + 1
  /\ matching' = [matching EXCEPT ![e] = @ - 1]
  /\ dropped' = dropped \cup {e}
  /\ UNCHANGED <<crossVars, callVars, received, triggers, runs, crashes, matched, raced, unsure>>

\* triggerPlanRun: a plan without an agent is left alone, any other gets its
\* IntakeRun.
Trigger(e, p) ==
  /\ triggers[e][p] > 0
  /\ triggers' = [triggers EXCEPT ![e][p] = @ - 1]
  /\ runs' = IF p \in Agentless THEN runs ELSE [runs EXCEPT ![e][p] = @ + 1]
  /\ UNCHANGED <<crossVars, callVars, received, matching, faults, crashes, matched, dropped, raced, unsure>>

\* The process dies and is started again: handlers and goroutines are gone,
\* Cross has no answer for the pushes that were in progress.
Crash ==
  /\ crashes < MaxCrashes
  /\ crashes' = crashes + 1
  /\ at' = [c \in Calls |-> "idle"]
  /\ matching' = [e \in Events |-> 0]
  /\ triggers' = [e \in Events |-> [p \in Plans |-> 0]]
  /\ dropped' = dropped \cup {e \in Events : matching[e] > 0}
  /\ UNCHANGED <<crossVars, ev, received, runs, faults, matched, raced, unsure>>

-----------------------------------------------------------------------------
Handle(c) == Check(c) \/ CheckFails(c) \/ Record(c) \/ RecordFails(c) \/ Reply(c)

Go(e) == Dispatch(e) \/ DispatchFails(e) \/ \E p \in Plans : Trigger(e, p)

Next == \/ \E c \in Calls : Handle(c) \/ \E e \in Events : Push(c, e)
        \/ \E e \in Events : Go(e)
        \/ Crash

Spec == Init /\ [][Next]_vars

-----------------------------------------------------------------------------
(* Properties *)

TypeOK ==
  /\ delivery \in [Events -> {"pending", "acked"}]
  /\ pushes \in [Events -> Nat]
  /\ at \in [Calls -> {"idle", "check", "create", "reply"}]
  /\ ev \in [Calls -> Events]
  /\ received \in [Events -> Nat]
  /\ matching \in [Events -> Nat]
  /\ triggers \in [Events -> [Plans -> Nat]]
  /\ runs \in [Events -> [Plans -> Nat]]
  /\ faults \in Nat /\ crashes \in Nat
  /\ matched \subseteq Events /\ dropped \subseteq Events /\ raced \subseteq Events /\ unsure \subseteq Events

\* Cross never drops an event this service has no record of: the row is
\* written before the answer on every path that answers without an error.
AckedIsRecorded == \A e \in Events : delivery[e] = "acked" => received[e] > 0

\* An event pushed again is not recorded again, unless the pushes overlapped,
\* the duplicate check could not read the store, or the event has no id.
RecordedOnce == \A e \in Events : received[e] > 1 => e \in Unnamed \cup raced

\* A plan is started at most once per record of the event: neither a duplicate
\* push nor a crash multiplies the IntakeRun calls.
RunsCoveredByRecords ==
  \A e \in Events, p \in Plans : matching[e] + triggers[e][p] + runs[e][p] <= received[e]

\* An acknowledged event is matched with the work plans, or will be, and is
\* forgotten in three ways only: MatchWorkPlans failed for it, the process died
\* before that call was answered, or a write of it reported as failed left a
\* row that makes every later push a duplicate.  A crash or a failure that
\* strikes another event, or strikes after the match, is no excuse.
AckedIsMatched ==
  \A e \in Events : delivery[e] = "acked" =>
    matching[e] > 0 \/ e \in matched \cup dropped \cup unsure

=============================================================================
