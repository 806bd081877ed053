----------------------------- MODULE RunPromise -----------------------------
(* What the executors of RunLifecycle promise to the triggers they serve: the *)
(* mapping of RunLifecycle to the abstract SessionChain.                      *)
EXTENDS RunLifecycle

\* The last verdict a dispatcher published.
VerdictBy(p) ==
  LET mine == {e \in events : Verdict(e) /\ e.by = p} IN
  IF mine = {} THEN "none"
  ELSE IF \E e \in mine : e.topic = "task.completed" THEN "completed" ELSE "failed"

Promise == INSTANCE SessionChain WITH
  Triggers <- Dispatchers,
  session <- [p \in Dispatchers |-> mySeg[p]],
  waiting <- [p \in Dispatchers |-> pc[p] \in {"inputs", "resolve"}],
  verdict <- [p \in Dispatchers |-> VerdictBy(p)],
  over <- [p \in Dispatchers |-> pc[p] = "done"],
  broken <- crashes > 0 \/ faults > 0

\* A dispatched task keeps the promise of SessionChain: sessions one by one up
\* to the limit, one verdict at most and only at the end, no session that hangs
\* once its prompt is complete, and none given up as long as neither the process
\* nor the store fails.
KeepsPromise == Promise!FairSpec
=============================================================================
