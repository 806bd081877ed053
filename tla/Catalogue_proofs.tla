-------------------------- MODULE Catalogue_proofs --------------------------
(* What the checks of the catalogue protect, for any number of providers,   *)
(* agents, runs and concurrent calls.                                       *)
EXTENDS Catalogue, FiniteSetTheorems, TLAPS

-----------------------------------------------------------------------------
(* Type correctness *)

\* Where a call stands says which of its variables are set.
CallTyped(c) ==
  /\ at[c] \in {"verify", "list", "unlink", "link", "intake", "linkRun"} => obj[c] \in Agents
  /\ at[c] \in {"create", "verify", "list", "unlink", "link"} => want[c] \in Providers
  /\ at[c] \in {"write", "delete"} => obj[c] \in Objects
  /\ at[c] = "write" /\ want[c] # None => obj[c] \in Agents
  /\ at[c] = "linkRun" => newRun[c] \in Runs

TypeInv == TypeOK /\ \A c \in Calls : CallTyped(c)

\* A call that returns leaves the others alone.
Left(c) ==
  /\ at' = [at EXCEPT ![c] = "idle"] /\ at'[c] = "idle" /\ obj'[c] = None
  /\ late' = late \ {c}
  /\ obj' \in [Calls -> Objects \cup {None}] /\ want' \in [Calls -> Providers \cup {None}]
  /\ field' \in [Calls -> Fields \cup {None}] /\ value' \in [Calls -> Values \cup {None}]
  /\ snap' \in [Calls -> [Fields -> Values \cup {None}]] /\ old' \in [Calls -> SUBSET Edges]
  /\ newRun' \in [Calls -> Runs \cup {None}]
  /\ \A d \in Calls \ {c} : /\ at'[d] = at[d] /\ obj'[d] = obj[d] /\ want'[d] = want[d]
                            /\ snap'[d] = snap[d] /\ old'[d] = old[d] /\ newRun'[d] = newRun[d]

LEMMA Returned ==
  ASSUME TypeInv PROVE \A c \in Calls : Return(c) => Left(c)
BY DEF Return, Idle, Goto, Blank, TypeInv, TypeOK, Left

LEMMA LeftCalls ==
  ASSUME TypeInv, NEW c \in Calls, Left(c) PROVE \A d \in Calls : CallTyped(d)'
<1> SUFFICES ASSUME NEW d \in Calls PROVE CallTyped(d)'
  OBVIOUS
<1>1. CASE d = c
  BY <1>1 DEF Left, CallTyped
<1>2. CASE d # c
  BY <1>2 DEF Left, CallTyped, TypeInv
<1> QED
  BY <1>1, <1>2

\* The three ways of Unlink.
UnlinkFrame == UNCHANGED <<life, props, run, runAgent, faults, stale, crossed, blind>>
UnlinkOne(c) ==
  /\ at[c] = "unlink" /\ UnlinkFrame
  /\ \E e \in old[c] \cap Existing :
       cut' = cut \cup {e} /\ edge' = [edge EXCEPT ![e] = NoEdge] /\ old' = [old EXCEPT ![c] = @ \ {e}]
  /\ UNCHANGED <<at, obj, want, field, value, snap, newRun, late>>
UnlinkGone(c) ==
  at[c] = "unlink" /\ UnlinkFrame /\ old[c] \cap cut # {} /\ Return(c) /\ UNCHANGED <<edge, cut>>
UnlinkDone(c) ==
  at[c] = "unlink" /\ UnlinkFrame /\ old[c] = {} /\ Goto(c, "link") /\ UNCHANGED <<edge, cut, locals, late>>

\* Those of WriteUpdate: it ends the call, goes on to the provider, or finds
\* the entity deleted.
WriteFrame == UNCHANGED <<life, edge, cut, run, runAgent, faults, crossed, blind>>
WriteBack(c) ==
  /\ at[c] = "write" /\ WriteFrame
  /\ props' = [props EXCEPT ![obj[c]] = Rewritten(c)] /\ Return(c)
  /\ stale' = (stale \cup {d \in Calls : at[d] = "write" /\ obj[d] = obj[c]}) \ {c}
WriteOn(c) ==
  /\ at[c] = "write" /\ want[c] # None /\ WriteFrame
  /\ props' = [props EXCEPT ![obj[c]] = Rewritten(c)] /\ Goto(c, "verify") /\ DropRequest(c)
  /\ UNCHANGED late
  /\ stale' = (stale \cup {d \in Calls : at[d] = "write" /\ obj[d] = obj[c]}) \ {c}
WriteLost(c) ==
  at[c] = "write" /\ WriteFrame /\ Return(c) /\ UNCHANGED props /\ stale' = stale \ {c}

\* Those of VerifyProvider.
VerifyFrame == UNCHANGED <<graph, faults, stale, blind>>
VerifyOn(c) ==
  /\ at[c] = "verify" /\ life[want[c]] = "live" /\ Goto(c, "list") /\ UNCHANGED <<locals, late>> /\ VerifyFrame
  /\ crossed' = IF \E d \in Calls \ {c} : Relinking(d, obj[c]) THEN crossed \cup {obj[c]} ELSE crossed
VerifyLost(c) == at[c] = "verify" /\ Return(c) /\ UNCHANGED crossed /\ VerifyFrame

LEMMA WriteSplit ==
  ASSUME NEW c, WriteUpdate(c) PROVE WriteBack(c) \/ WriteOn(c) \/ WriteLost(c)
<1>1. CASE life[obj[c]] = "live" /\ want[c] = None
  BY <1>1 DEF WriteUpdate, WriteBack, WriteFrame
<1>2. CASE life[obj[c]] = "live" /\ want[c] # None
  BY <1>2 DEF WriteUpdate, WriteOn, WriteFrame
<1>3. CASE life[obj[c]] # "live"
  BY <1>3 DEF WriteUpdate, WriteLost, WriteFrame
<1> QED
  BY <1>1, <1>2, <1>3

LEMMA VerifySplit ==
  ASSUME NEW c, VerifyProvider(c) PROVE VerifyOn(c) \/ VerifyLost(c)
BY DEF VerifyProvider, VerifyOn, VerifyLost, VerifyFrame

LEMMA UnlinkSplit ==
  ASSUME NEW c, Unlink(c) PROVE UnlinkOne(c) \/ UnlinkGone(c) \/ UnlinkDone(c)
BY DEF Unlink, UnlinkOne, UnlinkGone, UnlinkDone, UnlinkFrame

LEMMA InitTyped == Init => TypeInv
BY PoolAssumption DEF Init, TypeInv, TypeOK, CallTyped, Blank, NoEdge

LEMMA NextTyped == TypeInv /\ [Next]_vars => TypeInv'
<1> SUFFICES ASSUME TypeInv, [Next]_vars PROVE TypeInv'
  OBVIOUS
<1>0. \A c \in Calls : Return(c) => Left(c)
  BY Returned
<1> USE PoolAssumption, BoundAssumption DEF TypeInv, TypeOK, CallTyped, Objects
<1>1. ASSUME NEW c \in Calls, CreateProvider(c) PROVE TypeInv'
  BY <1>1 DEF CreateProvider, locals, history
<1>2. ASSUME NEW c \in Calls, BeginCreateAgent(c) PROVE TypeInv'
  BY <1>2 DEF BeginCreateAgent, graph, Goto, history, locals
<1>3. ASSUME NEW c \in Calls, CreateAgent(c) PROVE TypeInv'
  BY <1>3 DEF CreateAgent, Goto, history, locals
<1>4. ASSUME NEW c \in Calls, Link(c) PROVE TypeInv'
  BY <1>4 DEF Link, Blank, Return, Idle, Leaving, history, locals, Goto, Blank, Links
<1>5. ASSUME NEW c \in Calls, BeginUpdate(c) PROVE TypeInv'
  BY <1>5 DEF BeginUpdate, graph, Goto, history, locals
<1>6. ASSUME NEW c \in Calls, WriteUpdate(c) PROVE TypeInv'
  <2>1. CASE WriteBack(c)
    <3>1. Left(c)
      BY <2>1, <1>0 DEF WriteBack
    <3>2. TypeOK'
      BY <3>1, <2>1 DEF WriteBack, Left, WriteFrame, Rewritten
    <3> QED
      BY <3>1, <3>2, LeftCalls DEF TypeInv
  <2>2. CASE WriteOn(c)
    BY <1>6, <2>2 DEF WriteOn, WriteFrame, Goto, DropRequest, Rewritten, Blank
  <2>3. CASE WriteLost(c)
    <3>1. Left(c)
      BY <2>3, <1>0 DEF WriteLost
    <3>2. TypeOK'
      BY <3>1, <2>3 DEF WriteLost, Left, WriteFrame
    <3> QED
      BY <3>1, <3>2, LeftCalls DEF TypeInv
  <2> QED
    BY <1>6, <2>1, <2>2, <2>3, WriteSplit
<1>7. ASSUME NEW c \in Calls, VerifyProvider(c) PROVE TypeInv'
  <2>1. CASE VerifyOn(c)
    BY <1>7, <2>1 DEF VerifyOn, VerifyFrame, graph, locals, Goto
  <2>2. CASE VerifyLost(c)
    <3>1. Left(c)
      BY <2>2, <1>0 DEF VerifyLost
    <3>2. TypeOK'
      BY <3>1, <2>2 DEF VerifyLost, Left, VerifyFrame, graph
    <3> QED
      BY <3>1, <3>2, LeftCalls DEF TypeInv
  <2> QED
    BY <1>7, <2>1, <2>2, VerifySplit
<1>8. ASSUME NEW c \in Calls, ListEdges(c) PROVE TypeInv'
  BY <1>8 DEF ListEdges, EdgesOf, Existing, Goto, locals, graph, history
<1>9. ASSUME NEW c \in Calls, Unlink(c) PROVE TypeInv'
  <2>1. CASE UnlinkOne(c)
    BY <1>9, <2>1 DEF UnlinkOne, UnlinkFrame, Existing
  <2>2. CASE UnlinkGone(c)
    <3>1. Left(c)
      BY <2>2, <1>0 DEF UnlinkGone
    <3>2. TypeOK'
      BY <3>1, <2>2 DEF UnlinkGone, Left, UnlinkFrame
    <3> QED
      BY <3>1, <3>2, LeftCalls DEF TypeInv
  <2>3. CASE UnlinkDone(c)
    BY <1>9, <2>3 DEF UnlinkDone, UnlinkFrame, Goto, locals
  <2> QED
    BY <1>9, <2>1, <2>2, <2>3, UnlinkSplit
<1>10. ASSUME NEW c \in Calls, BeginDeleteProvider(c) PROVE TypeInv'
  BY <1>10 DEF BeginDeleteProvider, graph, Goto, history, locals
<1>11. ASSUME NEW c \in Calls, BeginDeleteAgent(c) PROVE TypeInv'
  BY <1>11 DEF BeginDeleteAgent, graph, Goto, history, locals
<1>12. ASSUME NEW c \in Calls, DeleteEntity(c) PROVE TypeInv'
  BY <1>12 DEF DeleteEntity, Idle, Relies, history, locals, Goto, Blank
<1>13. ASSUME NEW c \in Calls, BeginIntakeRun(c) PROVE TypeInv'
  BY <1>13 DEF BeginIntakeRun, graph, Goto, history, locals
<1>14. ASSUME NEW c \in Calls, YieldRun(c) PROVE TypeInv'
  BY <1>14 DEF YieldRun, Goto, ActiveRuns, history, locals
<1>15. ASSUME NEW c \in Calls, CreateRun(c) PROVE TypeInv'
  BY <1>15 DEF CreateRun, Goto, Leaving, history, locals
<1>16. ASSUME NEW c \in Calls, LinkRun(c) PROVE TypeInv'
  BY <1>16 DEF LinkRun, Return, Idle, history, locals, Goto, Blank
<1>17. ASSUME NEW c \in Calls, StoreFails(c) PROVE TypeInv'
  BY <1>17 DEF StoreFails, graph, Return, Idle, Fault, history, locals, Goto, Blank
<1>18. ASSUME NEW r \in Runs, EndRun(r) PROVE TypeInv'
  BY <1>18 DEF EndRun, locals, history
<1>19. CASE UNCHANGED vars
  BY <1>19 DEF vars, graph, locals, history
<1> QED
  BY <1>1, <1>2, <1>3, <1>4, <1>5, <1>6, <1>7, <1>8, <1>9, <1>10,
     <1>11, <1>12, <1>13, <1>14, <1>15, <1>16, <1>17, <1>18, <1>19 DEF Next, Step

\* Every variable keeps its type.
THEOREM TypeCorrect == Spec => []TypeOK
<1>1. TypeInv => TypeOK
  BY DEF TypeInv
<1> QED
  BY <1>1, InitTyped, NextTyped, PTL DEF Spec

LEMMA Typed == Spec => []TypeInv
BY InitTyped, NextTyped, PTL DEF Spec

-----------------------------------------------------------------------------
(* No agent is left with a deleted provider *)

\* The usage check still holds while its call is about to delete, but for the
\* edges made since; a call that relies on a deleted provider is late.
ProviderInv ==
  /\ ProviderKept
  /\ \A c \in Calls, e \in Existing : at[c] = "delete" /\ obj[c] = edge[e].provider => e \in blind
  /\ \A c \in Calls : at[c] \in {"create", "list", "unlink", "link"} /\ life[want[c]] = "deleted"
                       => c \in late

LEMMA ProviderStep == TypeInv /\ ProviderInv /\ [Next]_vars => ProviderInv'
<1> SUFFICES ASSUME TypeInv, ProviderInv, [Next]_vars PROVE ProviderInv'
  OBVIOUS
<1>0. \A c \in Calls : Return(c) => Left(c)
  BY Returned
<1> USE PoolAssumption DEF TypeInv, TypeOK, CallTyped, Objects, ProviderInv, ProviderKept, Existing, Links
<1>1. ASSUME NEW c \in Calls, CreateProvider(c) PROVE ProviderInv'
  BY <1>1 DEF CreateProvider, locals, history
<1>2. ASSUME NEW c \in Calls, BeginCreateAgent(c) PROVE ProviderInv'
  BY <1>2 DEF BeginCreateAgent, graph, Goto, history, locals
<1>3. ASSUME NEW c \in Calls, CreateAgent(c) PROVE ProviderInv'
  BY <1>3 DEF CreateAgent, Goto, history, locals
<1>4. ASSUME NEW c \in Calls, Link(c) PROVE ProviderInv'
  <2>1. PICK e \in Edges : /\ Unused(e) /\ edge' = [edge EXCEPT ![e] = [agent |-> obj[c], provider |-> want[c]]]
                           /\ blind' = IF c \in late \/ Leaving(want[c]) THEN blind \cup {e} ELSE blind
    BY <1>4 DEF Link
  <2>2. Left(c) /\ UNCHANGED life /\ at[c] = "link" /\ obj[c] \in Agents /\ want[c] \in Providers
    BY <1>4, <1>0 DEF Link
  <2>3. \A f \in Existing' : (f \in Existing /\ edge'[f] = edge[f])
                             \/ (f = e /\ edge'[f].provider = want[c])
    <3>1. \A f \in Edges \ {e} : edge'[f] = edge[f]
      BY <2>1
    <3>2. edge'[e] = [agent |-> obj[c], provider |-> want[c]]
      BY <2>1
    <3> SUFFICES ASSUME NEW f \in Existing'
                 PROVE  (f \in Existing /\ edge'[f] = edge[f]) \/ (f = e /\ edge'[f].provider = want[c])
      OBVIOUS
    <3>3. CASE f = e
      BY <3>2, <3>3
    <3>4. CASE f # e
      BY <3>1, <3>4
    <3> QED
      BY <3>3, <3>4
  <2>4. life[want[c]] = "deleted" \/ Leaving(want[c]) => e \in blind'
    BY <2>1, <2>2
  <2>5. \A d \in Calls : at'[d] = "delete" => at[d] = "delete" /\ obj'[d] = obj[d] /\ d # c
    BY <2>2 DEF Left
  <2> QED
    BY <2>1, <2>2, <2>3, <2>4, <2>5 DEF Left, Leaving
<1>5. ASSUME NEW c \in Calls, BeginUpdate(c) PROVE ProviderInv'
  BY <1>5 DEF BeginUpdate, graph, Goto, history, locals
<1>6. ASSUME NEW c \in Calls, WriteUpdate(c) PROVE ProviderInv'
  <2>1. CASE WriteBack(c)
    <3>1. Left(c)
      BY <2>1, <1>0 DEF WriteBack
    <3> QED
      BY <3>1, <2>1 DEF WriteBack, Left, WriteFrame, Rewritten
  <2>2. CASE WriteOn(c)
    BY <1>6, <2>2 DEF WriteOn, WriteFrame, Goto, DropRequest, Rewritten, Blank
  <2>3. CASE WriteLost(c)
    <3>1. Left(c)
      BY <2>3, <1>0 DEF WriteLost
    <3> QED
      BY <3>1, <2>3 DEF WriteLost, Left, WriteFrame
  <2> QED
    BY <1>6, <2>1, <2>2, <2>3, WriteSplit
<1>7. ASSUME NEW c \in Calls, VerifyProvider(c) PROVE ProviderInv'
  <2>1. CASE VerifyOn(c)
    BY <1>7, <2>1 DEF VerifyOn, VerifyFrame, graph, locals, Goto
  <2>2. CASE VerifyLost(c)
    <3>1. Left(c)
      BY <2>2, <1>0 DEF VerifyLost
    <3> QED
      BY <3>1, <2>2 DEF VerifyLost, Left, VerifyFrame, graph
  <2> QED
    BY <1>7, <2>1, <2>2, VerifySplit
<1>8. ASSUME NEW c \in Calls, ListEdges(c) PROVE ProviderInv'
  BY <1>8 DEF ListEdges, EdgesOf, Existing, Goto, locals, graph, history
<1>9. ASSUME NEW c \in Calls, Unlink(c) PROVE ProviderInv'
  <2>1. CASE UnlinkOne(c)
    BY <1>9, <2>1 DEF UnlinkOne, UnlinkFrame, Existing
  <2>2. CASE UnlinkGone(c)
    <3>1. Left(c)
      BY <2>2, <1>0 DEF UnlinkGone
    <3> QED
      BY <3>1, <2>2 DEF UnlinkGone, Left, UnlinkFrame
  <2>3. CASE UnlinkDone(c)
    BY <1>9, <2>3 DEF UnlinkDone, UnlinkFrame, Goto, locals
  <2> QED
    BY <1>9, <2>1, <2>2, <2>3, UnlinkSplit
<1>10. ASSUME NEW c \in Calls, BeginDeleteProvider(c) PROVE ProviderInv'
  BY <1>10 DEF BeginDeleteProvider, graph, Goto, history, locals, EdgesTo
<1>11. ASSUME NEW c \in Calls, BeginDeleteAgent(c) PROVE ProviderInv'
  BY <1>11 DEF BeginDeleteAgent, graph, Goto, history, locals
<1>12. ASSUME NEW c \in Calls, DeleteEntity(c) PROVE ProviderInv'
  BY <1>12 DEF DeleteEntity, Idle, Relies, history, locals, Goto, Blank
<1>13. ASSUME NEW c \in Calls, BeginIntakeRun(c) PROVE ProviderInv'
  BY <1>13 DEF BeginIntakeRun, graph, Goto, history, locals
<1>14. ASSUME NEW c \in Calls, YieldRun(c) PROVE ProviderInv'
  BY <1>14 DEF YieldRun, Goto, ActiveRuns, history, locals
<1>15. ASSUME NEW c \in Calls, CreateRun(c) PROVE ProviderInv'
  BY <1>15 DEF CreateRun, Goto, Leaving, history, locals
<1>16. ASSUME NEW c \in Calls, LinkRun(c) PROVE ProviderInv'
  BY <1>16 DEF LinkRun, Return, Idle, history, locals, Goto, Blank
<1>17. ASSUME NEW c \in Calls, StoreFails(c) PROVE ProviderInv'
  BY <1>17 DEF StoreFails, graph, Return, Idle, Fault, history, locals, Goto, Blank
<1>18. ASSUME NEW r \in Runs, EndRun(r) PROVE ProviderInv'
  BY <1>18 DEF EndRun, locals, history
<1>19. CASE UNCHANGED vars
  BY <1>19 DEF vars, graph, locals, history
<1> QED
  BY <1>1, <1>2, <1>3, <1>4, <1>5, <1>6, <1>7, <1>8, <1>9, <1>10,
     <1>11, <1>12, <1>13, <1>14, <1>15, <1>16, <1>17, <1>18, <1>19 DEF Next, Step

\* For any number of calls, every edge to a deleted provider was made by a call
\* that had looked the provider up before the deletion, or between the check and
\* the write of the deletion (CreateAgent, UpdateAgent, DeleteProvider).
THEOREM ProvidersAreKept == Spec => []ProviderKept
<1>1. Init => ProviderInv
  BY DEF Init, ProviderInv, ProviderKept, Existing
<1>2. ProviderInv => ProviderKept
  BY DEF ProviderInv
<1> QED
  BY <1>1, <1>2, ProviderStep, Typed, PTL DEF Spec

-----------------------------------------------------------------------------
(* No active run is left with a deleted agent *)

\* o is deleted, or its deletion has passed the active-run check.
Doomed(o) == life[o] = "deleted" \/ \E d \in Calls : at[d] = "delete" /\ obj[d] = o

\* A call about to link its run holds an active run of its own that no edge
\* names yet: the run keeps the check from passing until the edge is there.
RunInv ==
  /\ \A r \in ActiveRuns : runAgent[r] # None /\ Doomed(runAgent[r]) => r \in blind
  /\ \A c \in Calls : at[c] = "intake" /\ life[obj[c]] = "deleted" => c \in late
  /\ \A c \in Calls : at[c] = "linkRun" =>
       /\ Doomed(obj[c]) => newRun[c] \in blind
       /\ run[newRun[c]] = "active" /\ runAgent[newRun[c]] = None
       /\ \A d \in Calls \ {c} : at[d] = "linkRun" => newRun[d] # newRun[c]
  /\ \A r \in Runs : run[r] = "none" => runAgent[r] = None

LEMMA RunStep == TypeInv /\ RunInv /\ [Next]_vars => RunInv'
<1> SUFFICES ASSUME TypeInv, RunInv, [Next]_vars PROVE RunInv'
  OBVIOUS
<1>0. \A c \in Calls : Return(c) => Left(c)
  BY Returned
<1> USE PoolAssumption DEF TypeInv, TypeOK, CallTyped, Objects, RunInv, ActiveRuns, Doomed
<1>1. ASSUME NEW c \in Calls, CreateProvider(c) PROVE RunInv'
  BY <1>1 DEF CreateProvider, locals, history
<1>2. ASSUME NEW c \in Calls, BeginCreateAgent(c) PROVE RunInv'
  BY <1>2 DEF BeginCreateAgent, graph, Goto, history, locals
<1>3. ASSUME NEW c \in Calls, CreateAgent(c) PROVE RunInv'
  BY <1>3 DEF CreateAgent, Goto, history, locals
<1>4. ASSUME NEW c \in Calls, Link(c) PROVE RunInv'
  BY <1>4 DEF Link, Return, Idle, Leaving, history, locals, Goto, Blank
<1>5. ASSUME NEW c \in Calls, BeginUpdate(c) PROVE RunInv'
  BY <1>5 DEF BeginUpdate, graph, Goto, history, locals
<1>6. ASSUME NEW c \in Calls, WriteUpdate(c) PROVE RunInv'
  <2>1. CASE WriteBack(c)
    <3>1. Left(c)
      BY <2>1, <1>0 DEF WriteBack
    <3> QED
      BY <3>1, <2>1 DEF WriteBack, Left, WriteFrame, Rewritten
  <2>2. CASE WriteOn(c)
    BY <1>6, <2>2 DEF WriteOn, WriteFrame, Goto, DropRequest, Rewritten, Blank
  <2>3. CASE WriteLost(c)
    <3>1. Left(c)
      BY <2>3, <1>0 DEF WriteLost
    <3> QED
      BY <3>1, <2>3 DEF WriteLost, Left, WriteFrame
  <2> QED
    BY <1>6, <2>1, <2>2, <2>3, WriteSplit
<1>7. ASSUME NEW c \in Calls, VerifyProvider(c) PROVE RunInv'
  <2>1. CASE VerifyOn(c)
    BY <1>7, <2>1 DEF VerifyOn, VerifyFrame, graph, locals, Goto
  <2>2. CASE VerifyLost(c)
    <3>1. Left(c)
      BY <2>2, <1>0 DEF VerifyLost
    <3> QED
      BY <3>1, <2>2 DEF VerifyLost, Left, VerifyFrame, graph
  <2> QED
    BY <1>7, <2>1, <2>2, VerifySplit
<1>8. ASSUME NEW c \in Calls, ListEdges(c) PROVE RunInv'
  BY <1>8 DEF ListEdges, EdgesOf, Existing, Goto, locals, graph, history
<1>9. ASSUME NEW c \in Calls, Unlink(c) PROVE RunInv'
  <2>1. CASE UnlinkOne(c)
    BY <1>9, <2>1 DEF UnlinkOne, UnlinkFrame, Existing
  <2>2. CASE UnlinkGone(c)
    <3>1. Left(c)
      BY <2>2, <1>0 DEF UnlinkGone
    <3> QED
      BY <3>1, <2>2 DEF UnlinkGone, Left, UnlinkFrame
  <2>3. CASE UnlinkDone(c)
    BY <1>9, <2>3 DEF UnlinkDone, UnlinkFrame, Goto, locals
  <2> QED
    BY <1>9, <2>1, <2>2, <2>3, UnlinkSplit
<1>10. ASSUME NEW c \in Calls, BeginDeleteProvider(c) PROVE RunInv'
  BY <1>10 DEF BeginDeleteProvider, graph, Goto, history, locals
<1>11. ASSUME NEW c \in Calls, BeginDeleteAgent(c) PROVE RunInv'
  BY <1>11 DEF BeginDeleteAgent, graph, Goto, history, locals
<1>12. ASSUME NEW c \in Calls, DeleteEntity(c) PROVE RunInv'
  BY <1>12 DEF DeleteEntity, Idle, Relies, history, locals, Goto, Blank
<1>13. ASSUME NEW c \in Calls, BeginIntakeRun(c) PROVE RunInv'
  BY <1>13 DEF BeginIntakeRun, graph, Goto, history, locals
<1>14. ASSUME NEW c \in Calls, YieldRun(c) PROVE RunInv'
  BY <1>14 DEF YieldRun, Goto, ActiveRuns, history, locals
<1>15. ASSUME NEW c \in Calls, CreateRun(c) PROVE RunInv'
  BY <1>15 DEF CreateRun, Goto, Leaving, history, locals
<1>16. ASSUME NEW c \in Calls, LinkRun(c) PROVE RunInv'
  BY <1>16 DEF LinkRun, Return, Idle, history, locals, Goto, Blank
<1>17. ASSUME NEW c \in Calls, StoreFails(c) PROVE RunInv'
  BY <1>17 DEF StoreFails, graph, Return, Idle, Fault, history, locals, Goto, Blank
<1>18. ASSUME NEW r \in Runs, EndRun(r) PROVE RunInv'
  BY <1>18 DEF EndRun, locals, history
<1>19. CASE UNCHANGED vars
  BY <1>19 DEF vars, graph, locals, history
<1> QED
  BY <1>1, <1>2, <1>3, <1>4, <1>5, <1>6, <1>7, <1>8, <1>9, <1>10,
     <1>11, <1>12, <1>13, <1>14, <1>15, <1>16, <1>17, <1>18, <1>19 DEF Next, Step

\* For any number of calls and runs, an active run of a deleted agent was made
\* by a call that had read the agent before the deletion, or between the check
\* and the write of the deletion, or it succeeds such a run (IntakeRun,
\* yieldRun, DeleteAgent's check of the active runs).
THEOREM RunsKeepAgents == Spec => []RunKeepsAgent
<1>1. Init => RunInv
  BY DEF Init, RunInv, ActiveRuns
<1>2. RunInv => RunKeepsAgent
  BY DEF RunInv, RunKeepsAgent, Doomed
<1> QED
  BY <1>1, <1>2, RunStep, Typed, PTL DEF Spec

-----------------------------------------------------------------------------
(* Fields follow requests *)

\* A call that nobody overtook still holds the entity's fields.
SnapInv == \A c \in Calls : at[c] = "write" /\ c \notin stale => snap[c] = props[obj[c]]

LEMMA SnapStep == TypeInv /\ SnapInv /\ [Next]_vars => SnapInv'
<1> SUFFICES ASSUME TypeInv, SnapInv, [Next]_vars PROVE SnapInv'
  OBVIOUS
<1>0. \A c \in Calls : Return(c) => Left(c)
  BY Returned
<1> USE PoolAssumption DEF TypeInv, TypeOK, CallTyped, Objects, SnapInv
<1>1. ASSUME NEW c \in Calls, CreateProvider(c) PROVE SnapInv'
  BY <1>1 DEF CreateProvider, locals, history
<1>2. ASSUME NEW c \in Calls, BeginCreateAgent(c) PROVE SnapInv'
  BY <1>2 DEF BeginCreateAgent, graph, Goto, history, locals
<1>3. ASSUME NEW c \in Calls, CreateAgent(c) PROVE SnapInv'
  BY <1>3 DEF CreateAgent, Goto, history, locals
<1>4. ASSUME NEW c \in Calls, Link(c) PROVE SnapInv'
  BY <1>4 DEF Link, Return, Idle, Leaving, history, locals, Goto, Blank
<1>5. ASSUME NEW c \in Calls, BeginUpdate(c) PROVE SnapInv'
  BY <1>5 DEF BeginUpdate, graph, Goto, history, locals
<1>6. ASSUME NEW c \in Calls, WriteUpdate(c) PROVE SnapInv'
  <2>1. CASE WriteBack(c)
    <3>1. Left(c)
      BY <2>1, <1>0 DEF WriteBack
    <3> QED
      BY <3>1, <2>1 DEF WriteBack, Left, WriteFrame, Rewritten
  <2>2. CASE WriteOn(c)
    BY <1>6, <2>2 DEF WriteOn, WriteFrame, Goto, DropRequest, Rewritten, Blank
  <2>3. CASE WriteLost(c)
    <3>1. Left(c)
      BY <2>3, <1>0 DEF WriteLost
    <3> QED
      BY <3>1, <2>3 DEF WriteLost, Left, WriteFrame
  <2> QED
    BY <1>6, <2>1, <2>2, <2>3, WriteSplit
<1>7. ASSUME NEW c \in Calls, VerifyProvider(c) PROVE SnapInv'
  <2>1. CASE VerifyOn(c)
    BY <1>7, <2>1 DEF VerifyOn, VerifyFrame, graph, locals, Goto
  <2>2. CASE VerifyLost(c)
    <3>1. Left(c)
      BY <2>2, <1>0 DEF VerifyLost
    <3> QED
      BY <3>1, <2>2 DEF VerifyLost, Left, VerifyFrame, graph
  <2> QED
    BY <1>7, <2>1, <2>2, VerifySplit
<1>8. ASSUME NEW c \in Calls, ListEdges(c) PROVE SnapInv'
  BY <1>8 DEF ListEdges, EdgesOf, Existing, Goto, locals, graph, history
<1>9. ASSUME NEW c \in Calls, Unlink(c) PROVE SnapInv'
  <2>1. CASE UnlinkOne(c)
    BY <1>9, <2>1 DEF UnlinkOne, UnlinkFrame, Existing
  <2>2. CASE UnlinkGone(c)
    <3>1. Left(c)
      BY <2>2, <1>0 DEF UnlinkGone
    <3> QED
      BY <3>1, <2>2 DEF UnlinkGone, Left, UnlinkFrame
  <2>3. CASE UnlinkDone(c)
    BY <1>9, <2>3 DEF UnlinkDone, UnlinkFrame, Goto, locals
  <2> QED
    BY <1>9, <2>1, <2>2, <2>3, UnlinkSplit
<1>10. ASSUME NEW c \in Calls, BeginDeleteProvider(c) PROVE SnapInv'
  BY <1>10 DEF BeginDeleteProvider, graph, Goto, history, locals
<1>11. ASSUME NEW c \in Calls, BeginDeleteAgent(c) PROVE SnapInv'
  BY <1>11 DEF BeginDeleteAgent, graph, Goto, history, locals
<1>12. ASSUME NEW c \in Calls, DeleteEntity(c) PROVE SnapInv'
  BY <1>12 DEF DeleteEntity, Idle, Relies, history, locals, Goto, Blank
<1>13. ASSUME NEW c \in Calls, BeginIntakeRun(c) PROVE SnapInv'
  BY <1>13 DEF BeginIntakeRun, graph, Goto, history, locals
<1>14. ASSUME NEW c \in Calls, YieldRun(c) PROVE SnapInv'
  BY <1>14 DEF YieldRun, Goto, ActiveRuns, history, locals
<1>15. ASSUME NEW c \in Calls, CreateRun(c) PROVE SnapInv'
  BY <1>15 DEF CreateRun, Goto, Leaving, history, locals
<1>16. ASSUME NEW c \in Calls, LinkRun(c) PROVE SnapInv'
  BY <1>16 DEF LinkRun, Return, Idle, history, locals, Goto, Blank
<1>17. ASSUME NEW c \in Calls, StoreFails(c) PROVE SnapInv'
  BY <1>17 DEF StoreFails, graph, Return, Idle, Fault, history, locals, Goto, Blank
<1>18. ASSUME NEW r \in Runs, EndRun(r) PROVE SnapInv'
  BY <1>18 DEF EndRun, locals, history
<1>19. CASE UNCHANGED vars
  BY <1>19 DEF vars, graph, locals, history
<1> QED
  BY <1>1, <1>2, <1>3, <1>4, <1>5, <1>6, <1>7, <1>8, <1>9, <1>10,
     <1>11, <1>12, <1>13, <1>14, <1>15, <1>16, <1>17, <1>18, <1>19 DEF Next, Step

\* Only WriteUpdate changes a field.
LEMMA FieldStep ==
  ASSUME TypeInv, SnapInv, [Next]_vars, NEW o \in Objects, NEW f \in Fields, props'[o][f] # props[o][f]
  PROVE  \E c \in Calls : at[c] = "write" /\ at'[c] # "write" /\ obj[c] = o /\ (field[c] = f \/ c \in stale)
<1>1. PICK c \in Calls : WriteUpdate(c)
  BY DEF Next, Step, vars, graph, locals, history, CreateProvider, BeginCreateAgent, CreateAgent, Link,
         BeginUpdate, VerifyProvider, ListEdges, Unlink, BeginDeleteProvider, BeginDeleteAgent,
         DeleteEntity, BeginIntakeRun, YieldRun, CreateRun, LinkRun, StoreFails, EndRun
<1>2. at[c] = "write" /\ at'[c] # "write" /\ props' = [props EXCEPT ![obj[c]] = Rewritten(c)]
  BY <1>1 DEF WriteUpdate, Return, Idle, Goto, TypeInv, TypeOK
<1>3. obj[c] = o
  BY <1>2 DEF TypeInv, TypeOK, CallTyped
<1>4. props'[o][f] = IF f = field[c] THEN value[c] ELSE snap[c][f]
  BY <1>2, <1>3 DEF TypeInv, TypeOK, Rewritten
<1>5. field[c] = f \/ c \in stale
  BY <1>2, <1>3, <1>4 DEF SnapInv
<1> QED
  BY <1>2, <1>3, <1>5

\* A field changes only by the call whose request names it, or by one that
\* was overtaken after it read the entity (the lost update of cloneProps).
THEOREM FieldsAreRequested == Spec => FieldsFollowRequests
<1>1. Init => SnapInv
  BY DEF Init, SnapInv
<1>2. TypeInv /\ SnapInv /\ [Next]_vars =>
      [\A o \in Objects, f \in Fields : props'[o][f] # props[o][f] =>
         \E c \in Calls : at[c] = "write" /\ at'[c] # "write" /\ obj[c] = o
                          /\ (field[c] = f \/ c \in stale)]_vars
  BY FieldStep
<1> QED
  BY <1>1, <1>2, SnapStep, Typed, PTL DEF Spec, FieldsFollowRequests

-----------------------------------------------------------------------------
(* An agent has its provider *)

One(S) == \E e \in Edges : S = {e}

\* Edges are not reused; a call deletes only edges of its agent, and an agent
\* that is not created yet has neither edges nor calls.
EdgeInv ==
  /\ \A e \in Existing : e \notin cut
  /\ \A c \in Calls : at[c] = "unlink" => 
       \A e \in old[c] : e \in cut \/ (e \in Existing /\ edge[e].agent = obj[c])
  /\ \A a \in Agents : life[a] = "unborn" => EdgesOf(a) = {}
  /\ \A c \in Calls : at[c] \in {"write", "verify", "list", "unlink", "link", "delete"} => life[obj[c]] # "unborn"

LEMMA EdgeStep == TypeInv /\ EdgeInv /\ [Next]_vars => EdgeInv'
<1> SUFFICES ASSUME TypeInv, EdgeInv, [Next]_vars PROVE EdgeInv'
  OBVIOUS
<1>0. \A c \in Calls : Return(c) => Left(c)
  BY Returned
<1> USE PoolAssumption DEF TypeInv, TypeOK, CallTyped, Objects, EdgeInv, Existing, EdgesOf, Links
<1>1. ASSUME NEW c \in Calls, CreateProvider(c) PROVE EdgeInv'
  BY <1>1 DEF CreateProvider, locals, history
<1>2. ASSUME NEW c \in Calls, BeginCreateAgent(c) PROVE EdgeInv'
  BY <1>2 DEF BeginCreateAgent, graph, Goto, history, locals
<1>3. ASSUME NEW c \in Calls, CreateAgent(c) PROVE EdgeInv'
  BY <1>3 DEF CreateAgent, Goto, history, locals
<1>4. ASSUME NEW c \in Calls, Link(c) PROVE EdgeInv'
  <2>1. PICK e \in Edges : Unused(e) /\ edge' = [edge EXCEPT ![e] = [agent |-> obj[c], provider |-> want[c]]]
    BY <1>4 DEF Link
  <2>2. life[obj[c]] # "unborn" /\ obj[c] \in Agents /\ want[c] \in Providers /\ UNCHANGED <<life, cut>>
    BY <1>4 DEF Link
  <2>3. Left(c)
    BY <1>4, <1>0 DEF Link
  <2>4. Existing' = Existing \cup {e} /\ e \notin cut
    BY <2>1, <2>2 DEF Unused, NoEdge
  <2> QED
    BY <2>1, <2>2, <2>3, <2>4 DEF Left, Unused, NoEdge
<1>5. ASSUME NEW c \in Calls, BeginUpdate(c) PROVE EdgeInv'
  BY <1>5 DEF BeginUpdate, graph, Goto, history, locals
<1>6. ASSUME NEW c \in Calls, WriteUpdate(c) PROVE EdgeInv'
  <2>1. CASE WriteBack(c)
    <3>1. Left(c)
      BY <2>1, <1>0 DEF WriteBack
    <3> QED
      BY <3>1, <2>1 DEF WriteBack, Left, WriteFrame, Rewritten
  <2>2. CASE WriteOn(c)
    BY <1>6, <2>2 DEF WriteOn, WriteFrame, Goto, DropRequest, Rewritten, Blank
  <2>3. CASE WriteLost(c)
    <3>1. Left(c)
      BY <2>3, <1>0 DEF WriteLost
    <3> QED
      BY <3>1, <2>3 DEF WriteLost, Left, WriteFrame
  <2> QED
    BY <1>6, <2>1, <2>2, <2>3, WriteSplit
<1>7. ASSUME NEW c \in Calls, VerifyProvider(c) PROVE EdgeInv'
  <2>1. CASE VerifyOn(c)
    BY <1>7, <2>1 DEF VerifyOn, VerifyFrame, graph, locals, Goto
  <2>2. CASE VerifyLost(c)
    <3>1. Left(c)
      BY <2>2, <1>0 DEF VerifyLost
    <3> QED
      BY <3>1, <2>2 DEF VerifyLost, Left, VerifyFrame, graph
  <2> QED
    BY <1>7, <2>1, <2>2, VerifySplit
<1>8. ASSUME NEW c \in Calls, ListEdges(c) PROVE EdgeInv'
  BY <1>8 DEF ListEdges, EdgesOf, Existing, Goto, locals, graph, history
<1>9. ASSUME NEW c \in Calls, Unlink(c) PROVE EdgeInv'
  <2>1. CASE UnlinkOne(c)
    <3>1. PICK e \in Existing : /\ e \in old[c] /\ cut' = cut \cup {e}
                                /\ edge' = [edge EXCEPT ![e] = NoEdge]
                                /\ old' = [old EXCEPT ![c] = @ \ {e}]
      BY <2>1 DEF UnlinkOne
    <3>2. Existing' = Existing \ {e}
      BY <3>1
    <3>3. UNCHANGED <<life, at, obj>>
      BY <2>1 DEF UnlinkOne, UnlinkFrame
    <3>4. /\ \A d \in Calls : old'[d] \subseteq old[d]
          /\ \A x \in Existing' : edge'[x] = edge[x]
          /\ \A b \in Agents : EdgesOf(b)' \subseteq EdgesOf(b)
      BY <3>1, <3>2
    <3>5. /\ \A x \in Existing' : x \notin cut'
          /\ \A b \in Agents : life'[b] = "unborn" => EdgesOf(b)' = {}
      BY <3>1, <3>2, <3>3, <3>4
    <3>6. \A d \in Calls : at'[d] = "unlink" =>
            \A x \in old'[d] : x \in cut' \/ (x \in Existing' /\ edge'[x].agent = obj'[d])
      <4> SUFFICES ASSUME NEW d \in Calls, at'[d] = "unlink", NEW x \in old'[d], x \notin cut'
                   PROVE x \in Existing' /\ edge'[x].agent = obj'[d]
        OBVIOUS
      <4>0. at[d] = "unlink" /\ obj'[d] = obj[d] /\ x \in old[d] /\ x \notin cut /\ x # e
        BY <3>1, <3>3, <3>4
      <4>1. x \in Existing /\ edge[x].agent = obj[d]
        BY <4>0
      <4>2. x \in Existing'
        BY <3>2, <4>0, <4>1
      <4> QED
        BY <3>4, <4>0, <4>1, <4>2
    <3> QED
      BY <3>3, <3>5, <3>6
  <2>2. CASE UnlinkGone(c)
    <3>1. Left(c)
      BY <2>2, <1>0 DEF UnlinkGone
    <3> QED
      BY <3>1, <2>2 DEF UnlinkGone, Left, UnlinkFrame
  <2>3. CASE UnlinkDone(c)
    BY <1>9, <2>3 DEF UnlinkDone, UnlinkFrame, Goto, locals
  <2> QED
    BY <1>9, <2>1, <2>2, <2>3, UnlinkSplit
<1>10. ASSUME NEW c \in Calls, BeginDeleteProvider(c) PROVE EdgeInv'
  BY <1>10 DEF BeginDeleteProvider, graph, Goto, history, locals
<1>11. ASSUME NEW c \in Calls, BeginDeleteAgent(c) PROVE EdgeInv'
  BY <1>11 DEF BeginDeleteAgent, graph, Goto, history, locals
<1>12. ASSUME NEW c \in Calls, DeleteEntity(c) PROVE EdgeInv'
  BY <1>12 DEF DeleteEntity, Idle, Relies, history, locals, Goto, Blank
<1>13. ASSUME NEW c \in Calls, BeginIntakeRun(c) PROVE EdgeInv'
  BY <1>13 DEF BeginIntakeRun, graph, Goto, history, locals
<1>14. ASSUME NEW c \in Calls, YieldRun(c) PROVE EdgeInv'
  BY <1>14 DEF YieldRun, Goto, ActiveRuns, history, locals
<1>15. ASSUME NEW c \in Calls, CreateRun(c) PROVE EdgeInv'
  BY <1>15 DEF CreateRun, Goto, Leaving, history, locals
<1>16. ASSUME NEW c \in Calls, LinkRun(c) PROVE EdgeInv'
  BY <1>16 DEF LinkRun, Return, Idle, history, locals, Goto, Blank
<1>17. ASSUME NEW c \in Calls, StoreFails(c) PROVE EdgeInv'
  BY <1>17 DEF StoreFails, graph, Return, Idle, Fault, history, locals, Goto, Blank
<1>18. ASSUME NEW r \in Runs, EndRun(r) PROVE EdgeInv'
  BY <1>18 DEF EndRun, locals, history
<1>19. CASE UNCHANGED vars
  BY <1>19 DEF vars, graph, locals, history
<1> QED
  BY <1>1, <1>2, <1>3, <1>4, <1>5, <1>6, <1>7, <1>8, <1>9, <1>10,
     <1>11, <1>12, <1>13, <1>14, <1>15, <1>16, <1>17, <1>18, <1>19 DEF Next, Step

\* Between the first unlink and the link of the only call that replaces its
\* provider, the edges of an agent are those the call still has to delete.
Linked(a) ==
  /\ \A c, d \in Calls : Relinking(c, a) /\ Relinking(d, a) => c = d
  /\ \A c \in Calls : Relinking(c, a) => /\ at[c] = "list" => One(EdgesOf(a))
                                         /\ at[c] = "unlink" => EdgesOf(a) = old[c]
                                         /\ at[c] = "link" => EdgesOf(a) = {}
  /\ (\A c \in Calls : ~Relinking(c, a)) => One(EdgesOf(a))

LinkInv == \A a \in Agents : faults = 0 /\ life[a] # "unborn" /\ a \notin crossed => Linked(a)

\* The calls that replace the provider of a stay where they are.
Steady(a) ==
  \A d \in Calls : /\ Relinking(d, a)' <=> Relinking(d, a)
                   /\ Relinking(d, a) => at'[d] = at[d] /\ old'[d] = old[d]

\* A step on other agents, or before or after the replacement.
LEMMA Unmoved ==
  ASSUME NEW a \in Agents, Linked(a), EdgesOf(a)' = EdgesOf(a), Steady(a)
  PROVE  Linked(a)'
BY DEF Linked, One, Steady

LEMMA LinkStep == TypeInv /\ EdgeInv /\ LinkInv /\ [Next]_vars => LinkInv'
<1> SUFFICES ASSUME TypeInv, EdgeInv, LinkInv, [Next]_vars,
                    NEW a \in Agents, faults' = 0, life'[a] # "unborn", a \notin crossed'
             PROVE Linked(a)'
  BY DEF LinkInv
<1>0. \A c \in Calls : Return(c) => Left(c)
  BY Returned
<1>a. ASSUME life' = life \/ life[a] # "unborn", faults' = faults, crossed \subseteq crossed' PROVE Linked(a)
  BY <1>a DEF LinkInv
<1> USE PoolAssumption DEF TypeInv, TypeOK, CallTyped, Objects
<1>1. ASSUME NEW c \in Calls, CreateProvider(c) PROVE Linked(a)'
  <2>1. Linked(a)
    BY <1>1, <1>a DEF CreateProvider, locals, history
  <2>2. EdgesOf(a)' = EdgesOf(a)
    BY <1>1 DEF CreateProvider, EdgesOf, Existing, locals, history
  <2>3. Steady(a)
    BY <1>1 DEF Steady, CreateProvider, Relinking, locals, history
  <2> QED
    BY <2>1, <2>2, <2>3, Unmoved
<1>2. ASSUME NEW c \in Calls, BeginCreateAgent(c) PROVE Linked(a)'
  <2>1. Linked(a)
    BY <1>2, <1>a DEF BeginCreateAgent, graph, Goto, history
  <2>2. EdgesOf(a)' = EdgesOf(a)
    BY <1>2 DEF BeginCreateAgent, EdgesOf, Existing, graph, Goto, history
  <2>3. Steady(a)
    BY <1>2 DEF Steady, BeginCreateAgent, Relinking, graph, Goto, history
  <2> QED
    BY <2>1, <2>2, <2>3, Unmoved
<1>3. ASSUME NEW c \in Calls, CreateAgent(c) PROVE Linked(a)'
  <2>1. PICK b \in Agents : life[b] = "unborn" /\ life' = [life EXCEPT ![b] = "live"] /\ obj' = [obj EXCEPT ![c] = b]
    BY <1>3 DEF CreateAgent
  <2>2. at[c] = "create" /\ at' = [at EXCEPT ![c] = "link"] /\ UNCHANGED <<edge, old, faults, crossed>>
    BY <1>3 DEF CreateAgent, Goto, history
  <2>3. EdgesOf(a)' = EdgesOf(a)
    BY <2>2 DEF EdgesOf, Existing
  <2>4. CASE a = b
    <3>1. \A d \in Calls : ~Relinking(d, a)
      BY <2>1, <2>4 DEF EdgeInv, Relinking
    <3>2. \A d \in Calls : Relinking(d, a)' => d = c
      BY <2>1, <2>2, <3>1 DEF Relinking
    <3>3. EdgesOf(a)' = {} /\ Relinking(c, a)' /\ at'[c] = "link"
      BY <2>1, <2>2, <2>3, <2>4 DEF EdgeInv, Relinking
    <3> QED
      BY <3>2, <3>3 DEF Linked
  <2>5. CASE a # b
    <3>1. Linked(a)
      BY <2>1, <2>2, <2>5 DEF LinkInv
    <3>2. Steady(a)
      BY <2>1, <2>2, <2>5 DEF Steady, Relinking
    <3> QED
      BY <2>3, <3>1, <3>2, Unmoved
  <2> QED
    BY <2>4, <2>5
<1>4. ASSUME NEW c \in Calls, Link(c) PROVE Linked(a)'
  <2>1. Linked(a)
    BY <1>4, <1>a DEF Link
  <2>2. PICK e \in Edges : Unused(e) /\ edge' = [edge EXCEPT ![e] = [agent |-> obj[c], provider |-> want[c]]]
    BY <1>4 DEF Link
  <2>3. Left(c) /\ at[c] = "link" /\ obj[c] \in Agents
    BY <1>4, <1>0 DEF Link
  <2>4. CASE obj[c] = a
    <3>1. EdgesOf(a) = {}
      BY <2>1, <2>3, <2>4 DEF Linked, Relinking
    <3>2. EdgesOf(a)' = {e}
      BY <2>2, <2>3, <2>4, <3>1 DEF EdgesOf, Existing, NoEdge
    <3>3. \A d \in Calls : ~Relinking(d, a)'
      BY <2>1, <2>3, <2>4 DEF Linked, Relinking, Left
    <3> QED
      BY <3>2, <3>3 DEF Linked, One
  <2>5. CASE obj[c] # a
    <3>1. EdgesOf(a)' = EdgesOf(a)
      BY <2>2, <2>3, <2>5 DEF EdgesOf, Existing, Unused, NoEdge
    <3>2. Steady(a)
      BY <2>3, <2>5 DEF Steady, Relinking, Left
    <3> QED
      BY <2>1, <3>1, <3>2, Unmoved
  <2> QED
    BY <2>4, <2>5
<1>5. ASSUME NEW c \in Calls, BeginUpdate(c) PROVE Linked(a)'
  <2>1. Linked(a)
    BY <1>5, <1>a DEF BeginUpdate, graph, Goto, history
  <2>2. EdgesOf(a)' = EdgesOf(a)
    BY <1>5 DEF BeginUpdate, EdgesOf, Existing, graph, Goto, history
  <2>3. Steady(a)
    BY <1>5 DEF Steady, BeginUpdate, Relinking, graph, Goto, history
  <2> QED
    BY <2>1, <2>2, <2>3, Unmoved
<1>6. ASSUME NEW c \in Calls, WriteUpdate(c) PROVE Linked(a)'
  <2>1. Linked(a) /\ EdgesOf(a)' = EdgesOf(a) /\ at[c] = "write"
    BY <1>6, <1>a DEF WriteUpdate, EdgesOf, Existing
  <2>2. Left(c) \/ WriteOn(c)
    BY <1>6, <1>0, WriteSplit DEF WriteBack, WriteLost
  <2>3. Steady(a)
    BY <2>1, <2>2 DEF Steady, Left, WriteOn, Goto, DropRequest, Relinking
  <2> QED
    BY <2>1, <2>3, Unmoved
<1>7. ASSUME NEW c \in Calls, VerifyProvider(c) PROVE Linked(a)'
  <2>1. Linked(a) /\ EdgesOf(a)' = EdgesOf(a) /\ at[c] = "verify"
    BY <1>7, <1>a DEF VerifyProvider, graph, EdgesOf, Existing
  <2>2. CASE Left(c) \/ obj[c] # a
    <3>1. Steady(a)
      BY <1>7, <1>0, <2>1, <2>2, VerifySplit DEF Steady, Left, VerifyOn, VerifyLost, Goto, locals, Relinking
    <3> QED
      BY <2>1, <3>1, Unmoved
  <2>3. CASE VerifyOn(c) /\ obj[c] = a
    <3>1. \A d \in Calls : ~Relinking(d, a)
      BY <2>1, <2>3 DEF VerifyOn, Relinking
    <3>2. \A d \in Calls : Relinking(d, a)' <=> d = c
      BY <2>3, <3>1 DEF VerifyOn, Goto, locals, Relinking
    <3>3. One(EdgesOf(a)) /\ at'[c] = "list"
      BY <2>1, <2>3, <3>1 DEF Linked, VerifyOn, Goto
    <3> QED
      BY <2>1, <3>2, <3>3 DEF Linked, One
  <2> QED
    BY <1>7, <1>0, <2>2, <2>3, VerifySplit DEF VerifyLost
<1>8. ASSUME NEW c \in Calls, ListEdges(c) PROVE Linked(a)'
  <2>1. Linked(a) /\ EdgesOf(a)' = EdgesOf(a)
    BY <1>8, <1>a DEF ListEdges, graph, history, EdgesOf, Existing
  <2>2. /\ at[c] = "list" /\ at' = [at EXCEPT ![c] = "unlink"] /\ obj' = obj
        /\ old' = [old EXCEPT ![c] = EdgesOf(obj[c])]
    BY <1>8 DEF ListEdges, Goto
  <2>3. CASE obj[c] = a
    <3>1. \A d \in Calls : Relinking(d, a)' <=> d = c
      BY <2>1, <2>2, <2>3 DEF Linked, Relinking
    <3>2. old'[c] = EdgesOf(a) /\ at'[c] = "unlink"
      BY <2>2, <2>3
    <3> QED
      BY <2>1, <3>1, <3>2 DEF Linked
  <2>4. CASE obj[c] # a
    <3>1. Steady(a)
      BY <2>2, <2>4 DEF Steady, Relinking
    <3> QED
      BY <2>1, <3>1, Unmoved
  <2> QED
    BY <2>3, <2>4
<1>9. ASSUME NEW c \in Calls, Unlink(c) PROVE Linked(a)'
  <2>0. Linked(a) /\ at[c] = "unlink"
    BY <1>9, <1>a DEF Unlink
  <2>1. CASE UnlinkOne(c)
    <3>1. PICK e \in Existing : /\ e \in old[c] /\ edge' = [edge EXCEPT ![e] = NoEdge]
                                /\ old' = [old EXCEPT ![c] = @ \ {e}]
      BY <2>1 DEF UnlinkOne
    <3>2. UNCHANGED <<at, obj>> /\ edge[e].agent = obj[c] /\ e \in Edges
      BY <2>1, <3>1 DEF UnlinkOne, EdgeInv, Existing
    <3>3. EdgesOf(a)' = EdgesOf(a) \ {e}
      BY <3>1 DEF EdgesOf, Existing
    <3>4. \A d \in Calls : Relinking(d, a)' <=> Relinking(d, a)
      BY <3>2 DEF Relinking
    <3>5. CASE obj[c] = a
      <4>1. \A d \in Calls : Relinking(d, a) <=> d = c
        BY <2>0, <3>5 DEF Linked, Relinking
      <4>2. EdgesOf(a) = old[c]
        BY <2>0, <4>1 DEF Linked
      <4>3. EdgesOf(a)' = old'[c] /\ at'[c] = "unlink"
        BY <2>0, <3>1, <3>2, <3>3, <4>2
      <4> QED
        BY <3>4, <4>1, <4>3 DEF Linked
    <3>6. CASE obj[c] # a
      <4>1. EdgesOf(a)' = EdgesOf(a)
        BY <3>2, <3>3, <3>6 DEF EdgesOf
      <4>2. \A d \in Calls : Relinking(d, a) => at'[d] = at[d] /\ old'[d] = old[d]
        BY <3>1, <3>2, <3>6 DEF Relinking
      <4> QED
        BY <2>0, <3>4, <4>1, <4>2, Unmoved DEF Steady
    <3> QED
      BY <3>5, <3>6
  <2>2. CASE UnlinkGone(c)
    <3>1. Left(c) /\ EdgesOf(a)' = EdgesOf(a) /\ old[c] \cap cut # {}
      BY <2>2, <1>0 DEF UnlinkGone, EdgesOf, Existing
    <3>2. obj[c] # a
      BY <2>0, <3>1 DEF Linked, Relinking, EdgeInv, EdgesOf
    <3>3. Steady(a)
      BY <3>1, <3>2 DEF Steady, Relinking, Left
    <3> QED
      BY <2>0, <3>1, <3>3, Unmoved
  <2>3. CASE UnlinkDone(c)
    <3>1. /\ EdgesOf(a)' = EdgesOf(a) /\ old[c] = {} /\ UNCHANGED <<obj, old>>
          /\ at' = [at EXCEPT ![c] = "link"]
      BY <2>3 DEF UnlinkDone, Goto, locals, EdgesOf, Existing
    <3>2. \A d \in Calls : Relinking(d, a)' <=> Relinking(d, a)
      BY <2>0, <3>1 DEF Relinking
    <3>3. CASE obj[c] = a
      <4>1. \A d \in Calls : Relinking(d, a) <=> d = c
        BY <2>0, <3>3 DEF Linked, Relinking
      <4>2. EdgesOf(a)' = {} /\ at'[c] = "link"
        BY <2>0, <3>1, <4>1 DEF Linked
      <4> QED
        BY <3>2, <4>1, <4>2 DEF Linked
    <3>4. CASE obj[c] # a
      BY <2>0, <3>1, <3>2, <3>4, Unmoved DEF Steady, Relinking
    <3> QED
      BY <3>3, <3>4
  <2> QED
    BY <1>9, <2>1, <2>2, <2>3, UnlinkSplit
<1>10. ASSUME NEW c \in Calls, BeginDeleteProvider(c) PROVE Linked(a)'
  <2>1. Linked(a)
    BY <1>10, <1>a DEF BeginDeleteProvider, graph, Goto, history
  <2>2. EdgesOf(a)' = EdgesOf(a)
    BY <1>10 DEF BeginDeleteProvider, EdgesOf, Existing, graph, Goto, history
  <2>3. Steady(a)
    BY <1>10 DEF Steady, BeginDeleteProvider, Relinking, graph, Goto, history
  <2> QED
    BY <2>1, <2>2, <2>3, Unmoved
<1>11. ASSUME NEW c \in Calls, BeginDeleteAgent(c) PROVE Linked(a)'
  <2>1. Linked(a)
    BY <1>11, <1>a DEF BeginDeleteAgent, graph, Goto, history
  <2>2. EdgesOf(a)' = EdgesOf(a)
    BY <1>11 DEF BeginDeleteAgent, EdgesOf, Existing, graph, Goto, history
  <2>3. Steady(a)
    BY <1>11 DEF Steady, BeginDeleteAgent, Relinking, graph, Goto, history
  <2> QED
    BY <2>1, <2>2, <2>3, Unmoved
<1>12. ASSUME NEW c \in Calls, DeleteEntity(c) PROVE Linked(a)'
  <2>1. Linked(a)
    BY <1>12, <1>a DEF DeleteEntity, EdgeInv
  <2>2. EdgesOf(a)' = EdgesOf(a)
    BY <1>12 DEF DeleteEntity, EdgesOf, Existing, Return, Idle, Goto
  <2>3. Steady(a)
    BY <1>12 DEF Steady, DeleteEntity, Relinking, Return, Idle, Goto
  <2> QED
    BY <2>1, <2>2, <2>3, Unmoved
<1>13. ASSUME NEW c \in Calls, BeginIntakeRun(c) PROVE Linked(a)'
  <2>1. Linked(a)
    BY <1>13, <1>a DEF BeginIntakeRun, graph, Goto, history
  <2>2. EdgesOf(a)' = EdgesOf(a)
    BY <1>13 DEF BeginIntakeRun, EdgesOf, Existing, graph, Goto, history
  <2>3. Steady(a)
    BY <1>13 DEF Steady, BeginIntakeRun, Relinking, graph, Goto, history
  <2> QED
    BY <2>1, <2>2, <2>3, Unmoved
<1>14. ASSUME NEW c \in Calls, YieldRun(c) PROVE Linked(a)'
  <2>1. Linked(a)
    BY <1>14, <1>a DEF YieldRun, Goto, history
  <2>2. EdgesOf(a)' = EdgesOf(a)
    BY <1>14 DEF YieldRun, EdgesOf, Existing, Goto, history
  <2>3. Steady(a)
    BY <1>14 DEF Steady, YieldRun, Relinking, Goto, history
  <2> QED
    BY <2>1, <2>2, <2>3, Unmoved
<1>15. ASSUME NEW c \in Calls, CreateRun(c) PROVE Linked(a)'
  <2>1. Linked(a)
    BY <1>15, <1>a DEF CreateRun, Goto
  <2>2. EdgesOf(a)' = EdgesOf(a)
    BY <1>15 DEF CreateRun, EdgesOf, Existing, Goto
  <2>3. Steady(a)
    BY <1>15 DEF Steady, CreateRun, Relinking, Goto
  <2> QED
    BY <2>1, <2>2, <2>3, Unmoved
<1>16. ASSUME NEW c \in Calls, LinkRun(c) PROVE Linked(a)'
  <2>1. Linked(a)
    BY <1>16, <1>a DEF LinkRun, Return, Idle, Goto
  <2>2. EdgesOf(a)' = EdgesOf(a)
    BY <1>16 DEF LinkRun, EdgesOf, Existing, Return, Idle, Goto
  <2>3. Steady(a)
    BY <1>16 DEF Steady, LinkRun, Relinking, Return, Idle, Goto
  <2> QED
    BY <2>1, <2>2, <2>3, Unmoved
<1>17. ASSUME NEW c \in Calls, StoreFails(c) PROVE FALSE
  BY <1>17 DEF StoreFails, Fault
<1>18. ASSUME NEW r \in Runs, EndRun(r) PROVE Linked(a)'
  <2>1. Linked(a) /\ EdgesOf(a)' = EdgesOf(a) /\ UNCHANGED <<at, obj, old>>
    BY <1>18, <1>a DEF EndRun, locals, history, EdgesOf, Existing
  <2> QED
    BY <2>1, Unmoved DEF Steady, Relinking
<1>19. CASE UNCHANGED vars
  <2>1. Linked(a) /\ EdgesOf(a)' = EdgesOf(a) /\ UNCHANGED <<at, obj, old>>
    BY <1>19, <1>a DEF vars, graph, locals, history, EdgesOf, Existing
  <2> QED
    BY <2>1, Unmoved DEF Steady, Relinking
<1> QED
  BY <1>1, <1>2, <1>3, <1>4, <1>5, <1>6, <1>7, <1>8, <1>9, <1>10,
     <1>11, <1>12, <1>13, <1>14, <1>15, <1>16, <1>17, <1>18, <1>19 DEF Next, Step


\* An agent nobody is relinking has exactly one provider, unless two calls
\* replaced it at the same time or a store operation failed half-way (the
\* replacement in UpdateAgent, the two writes of CreateAgent).
THEOREM AgentsHaveTheirProvider == Spec => []AgentHasItsProvider
<1>1. Init => EdgeInv /\ LinkInv
  BY DEF Init, EdgeInv, LinkInv, Existing, EdgesOf, Objects
<1>2. LinkInv => AgentHasItsProvider
  <2> SUFFICES ASSUME LinkInv, NEW a \in Agents, life[a] = "live", a \notin crossed, faults = 0,
                      \A c \in Calls : ~Relinking(c, a)
               PROVE Cardinality(EdgesOf(a)) = 1
    BY DEF AgentHasItsProvider
  <2>1. PICK e \in Edges : EdgesOf(a) = {e}
    BY DEF LinkInv, Linked, One
  <2> QED
    BY <2>1, FS_Singleton
<1> QED
  BY <1>1, <1>2, EdgeStep, LinkStep, Typed, PTL DEF Spec
=============================================================================
