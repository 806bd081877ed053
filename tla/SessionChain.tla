---------------------------- MODULE SessionChain ----------------------------
(***************************************************************************)
(* What a dispatched task is promised, without runs, store or process: a   *)
(* trigger opens a first session, may continue it in a next one up to      *)
(* MaxSessions, and ends with one verdict for CodeValdWork or is given up. *)
(***************************************************************************)
EXTENDS Naturals

CONSTANTS Triggers, MaxSessions

VARIABLES
  session,  \* the number of the session in progress or last held; 0: none
  waiting,  \* the session is being prepared, from sources nothing bounds in time
  verdict,  \* what was published: "none", "completed" or "failed"
  over,     \* nothing more will happen for this trigger
  broken    \* the process has died or the store has failed at least once

vars == <<session, waiting, verdict, over, broken>>

Init ==
  /\ session = [t \in Triggers |-> 0]
  /\ waiting = [t \in Triggers |-> FALSE]
  /\ verdict = [t \in Triggers |-> "none"]
  /\ over = [t \in Triggers |-> FALSE]
  /\ broken = FALSE

\* A session begins: the first, or the one after a yield.
Advance(t) ==
  /\ ~over[t] /\ ~waiting[t] /\ session[t] < MaxSessions
  /\ session' = [session EXCEPT ![t] = @ + 1]
  /\ waiting' = [waiting EXCEPT ![t] = TRUE]
  /\ UNCHANGED <<verdict, over, broken>>

\* The session has all it needs.
Open(t) ==
  /\ waiting[t]
  /\ waiting' = [waiting EXCEPT ![t] = FALSE]
  /\ UNCHANGED <<session, verdict, over, broken>>

Conclude(t) ==
  /\ ~over[t] /\ ~waiting[t] /\ session[t] > 0
  /\ \E v \in {"completed", "failed"} : verdict' = [verdict EXCEPT ![t] = v]
  /\ over' = [over EXCEPT ![t] = TRUE]
  /\ UNCHANGED <<session, waiting, broken>>

\* Given up without a verdict: refused before the first session, or lost when
\* the process dies or the store fails.  A crash gives up several at once.
Abandon(T) ==
  /\ \A t \in T : ~over[t]
  /\ broken' \in {broken, TRUE}
  /\ broken' \/ \A t \in T : session[t] = 0
  /\ over' = [t \in Triggers |-> over[t] \/ t \in T]
  /\ waiting' = [t \in Triggers |-> waiting[t] /\ t \notin T]
  /\ UNCHANGED <<session, verdict>>

\* A disturbance no trigger is lost to.
Disturb == broken' = TRUE /\ UNCHANGED <<session, waiting, verdict, over>>

Next ==
  \/ \E t \in Triggers : Advance(t) \/ Open(t) \/ Conclude(t)
  \/ \E T \in (SUBSET Triggers) \ {{}} : Abandon(T)
  \/ Disturb

\* A session that has all it needs does not hang.
Fairness == \A t \in Triggers :
  WF_vars(session[t] > 0 /\ ~waiting[t] /\ (Advance(t) \/ Conclude(t) \/ Abandon({t})))

Spec == Init /\ [][Next]_vars
FairSpec == Spec /\ Fairness
=============================================================================
