-------------------------- MODULE Provision_proofs --------------------------
(* What boots leave alone, what a whole boot leaves behind and what no boot  *)
(* doubles, for any replicas, plans, files and events.                       *)
EXTENDS Provision, FiniteSetTheorems, SequenceTheorems, TLAPS

-----------------------------------------------------------------------------
(* The records of the replicas *)

Shape == {"at", "agency", "file", "late", "prov", "agent", "i", "made", "old", "todo",
          "whole", "boots"}
Shaped == proc = [p \in Procs |-> proc[p]] /\ \A p \in Procs : DOMAIN proc[p] = Shape

LEMMA FreshShape ==
  ASSUME NEW f
  PROVE  /\ DOMAIN Fresh(f) = Shape /\ Fresh(f).at = "down" /\ Fresh(f).todo = {} /\ Fresh(f).agency = FALSE
         /\ Fresh(f).file = f /\ Fresh(f).late = FALSE /\ Fresh(f).whole = FALSE
         /\ Fresh(f).prov = <<>> /\ Fresh(f).agent = <<>> /\ Fresh(f).i = 1
         /\ Fresh(f).made = 0 /\ Fresh(f).old = {} /\ Fresh(f).boots = 0
BY DEF Fresh, Shape

\* The record new is what is left of r at l.
LeftOf(l, new, r) ==
  /\ DOMAIN new = Shape /\ new.at = l /\ new.boots = r.boots
  /\ l # "down" =>
       /\ new.agency = r.agency /\ new.file = r.file /\ new.made = r.made /\ new.old = r.old
       /\ new.todo = r.todo /\ new.whole = r.whole
  /\ l = "down" =>
       /\ new.agency = FALSE /\ new.file = (CHOOSE f \in Files : TRUE) /\ new.made = 0 /\ new.old = {}
       /\ new.todo = {} /\ new.whole = FALSE
  /\ IF l \in {"down", "listen", "serving"} THEN new.agent = <<>> /\ new.late = FALSE
     ELSE new.agent = r.agent /\ new.late = r.late
  /\ IF l \in {"down", "plans", "wire", "listen", "serving"} THEN new.prov = <<>> /\ new.i = 1
     ELSE new.prov = r.prov /\ new.i = r.i

LEMMA ScopedKeeps ==
  ASSUME NEW r, DOMAIN r = Shape
  PROVE  LeftOf(r.at, Scoped(r), r)
<1>1. CASE r.at \in {"plans", "wire"}
  BY <1>1 DEF Scoped, Shape, LeftOf
<1>2. CASE r.at \in {"listen", "serving"}
  BY <1>2 DEF Scoped, Shape, LeftOf
<1>3. CASE r.at = "down"
  <2> DEFINE new == Fresh(CHOOSE f \in Files : TRUE)
  <2>1. Scoped(r) = [new EXCEPT !.boots = r.boots]
    BY <1>3 DEF Scoped
  <2>2. DOMAIN new = Shape /\ LeftOf("down", [new EXCEPT !.boots = r.boots], r)
    <3>1. /\ DOMAIN new = Shape /\ new.at = "down" /\ new.todo = {} /\ new.agency = FALSE
          /\ new.file = (CHOOSE f \in Files : TRUE) /\ new.late = FALSE /\ new.whole = FALSE
          /\ new.prov = <<>> /\ new.agent = <<>> /\ new.i = 1
          /\ new.made = 0 /\ new.old = {}
      BY FreshShape
    <3> HIDE DEF new
    <3> QED
      BY <3>1 DEF LeftOf, Shape
  <2> HIDE DEF new
  <2> QED
    BY <1>3, <2>1, <2>2
<1>4. CASE r.at \notin {"plans", "wire", "listen", "serving", "down"}
  BY <1>4 DEF Scoped, LeftOf
<1> QED
  BY <1>1, <1>2, <1>3, <1>4

\* The record old of a replica goes on as new: all it can lose is that it is whole.
Alike(new, old) ==
  /\ new.at = old.at /\ new.agency = old.agency /\ new.file = old.file /\ new.late = old.late
  /\ new.prov = old.prov /\ new.agent = old.agent /\ new.i = old.i /\ new.made = old.made
  /\ new.old = old.old /\ new.todo = old.todo /\ new.boots = old.boots
  /\ new.whole = old.whole \/ new.whole = FALSE

Same(q) == Alike(proc'[q], proc[q])

\* p goes to l with the record r.
Moved(p, l, r) ==
  /\ Shaped' /\ LeftOf(l, proc'[p], r)
  /\ \A q \in Procs \ {p} : Same(q)

LEMMA Moves ==
  ASSUME Shaped
  PROVE  \A p \in Procs : \A l, r :
           DOMAIN r = Shape /\ (Go(p, l, r) \/ Wrote(p, l, r)) =>
             Moved(p, l, r) /\ (Wrote(p, l, r) => \A q \in Procs \ {p} : ~proc'[q].whole)
<1> SUFFICES ASSUME NEW p \in Procs, NEW l, NEW r, DOMAIN r = Shape, Go(p, l, r) \/ Wrote(p, l, r)
             PROVE  Moved(p, l, r) /\ (Wrote(p, l, r) => \A q \in Procs \ {p} : ~proc'[q].whole)
  OBVIOUS
<1> DEFINE placed == [r EXCEPT !.at = l]
           new == Scoped(placed)
<1>1. LeftOf(l, new, r)
  <2>1. /\ DOMAIN placed = Shape /\ placed.at = l
        /\ \A x \in Shape \ {"at"} : placed[x] = r[x]
    BY DEF Shape
  <2> HIDE DEF placed
  <2>2. LeftOf(l, new, placed)
    BY <2>1, ScopedKeeps
  <2> HIDE DEF new
  <2> QED
    BY <2>1, <2>2 DEF LeftOf, Shape
<1> HIDE DEF placed
<1>2. ASSUME Go(p, l, r) PROVE Moved(p, l, r)
  <2>1. proc' = [proc EXCEPT ![p] = new]
    BY <1>2 DEF Go, new, placed
  <2> HIDE DEF new
  <2> QED
    BY <1>1, <2>1 DEF Shaped, Moved, LeftOf, Same, Alike
<1>3. ASSUME Wrote(p, l, r) PROVE Moved(p, l, r) /\ \A q \in Procs \ {p} : ~proc'[q].whole
  <2>1. proc' = [q \in Procs |-> IF q = p THEN new ELSE [proc[q] EXCEPT !.whole = FALSE]]
    BY <1>3 DEF Wrote, new, placed
  <2> HIDE DEF new
  <2>2. \A q \in Procs \ {p} :
          /\ DOMAIN [proc[q] EXCEPT !.whole = FALSE] = Shape
          /\ Alike([proc[q] EXCEPT !.whole = FALSE], proc[q]) /\ ~[proc[q] EXCEPT !.whole = FALSE].whole
    BY DEF Shaped, Shape, Alike
  <2> QED
    BY <1>1, <2>1, <2>2 DEF Shaped, Moved, LeftOf, Same
<1> QED
  BY <1>2, <1>3

-----------------------------------------------------------------------------
(* The steps that neither wire a plan nor list the plans *)

\* No replica takes up a plan.
Quiet ==
  /\ Shaped' /\ UNCHANGED <<plans, hand>>
  /\ \A q \in Procs : proc'[q].todo \subseteq proc[q].todo

LEMMA QuietMove ==
  ASSUME Shaped
  PROVE  \A p \in Procs : \A l, r :
           /\ DOMAIN r = Shape /\ r.todo \subseteq proc[p].todo
           /\ Go(p, l, r) \/ Wrote(p, l, r)
           /\ UNCHANGED <<plans, hand>>
           => Quiet
<1> SUFFICES ASSUME NEW p \in Procs, NEW l, NEW r,
                    DOMAIN r = Shape, r.todo \subseteq proc[p].todo,
                    Go(p, l, r) \/ Wrote(p, l, r), UNCHANGED <<plans, hand>>
             PROVE  Quiet
  OBVIOUS
<1>1. Moved(p, l, r)
  BY Moves
<1> QED
  BY <1>1 DEF Moved, LeftOf, Quiet, Same, Alike

QuietStep(p) ==
  \/ Start(p) \/ ListProviders(p) \/ CreateProvider(p) \/ ListAgents(p) \/ CreateAgent(p) \/ WriteAgent(p)
  \/ ListEdges(p) \/ Unlink(p) \/ Link(p) \/ Listen(p) \/ Expire(p) \/ Crash(p)

LEMMA QuietSteps == ASSUME Shaped, NEW p \in Procs, QuietStep(p) PROVE Quiet
<1> DEFINE Plain(r) == DOMAIN r = Shape /\ r.todo \subseteq proc[p].todo
<1>1. \A l, r : Plain(r) /\ (Go(p, l, r) \/ Wrote(p, l, r)) /\ UNCHANGED <<plans, hand>> => Quiet
  BY QuietMove
<1>2. DOMAIN proc[p] = Shape
  BY DEF Shaped
<1>3. Plain(proc[p]) /\ Plain(NotWhole(p))
  BY <1>2 DEF NotWhole, Shape
<1>4. /\ \A x, y : Plain([proc[p] EXCEPT !.file = x, !.prov = y]) /\ Plain([proc[p] EXCEPT !.file = x, !.whole = y])
      /\ \A x : /\ Plain([proc[p] EXCEPT !.file = x]) /\ Plain([proc[p] EXCEPT !.prov = x])
               /\ Plain([proc[p] EXCEPT !.agent = x]) /\ Plain([proc[p] EXCEPT !.made = x])
               /\ Plain([proc[p] EXCEPT !.i = x]) /\ Plain([proc[p] EXCEPT !.old = x])
      /\ \A x : Plain([proc[p] EXCEPT !.late = x])
      /\ \A x, y : Plain([proc[p] EXCEPT !.made = x, !.whole = y]) /\ Plain([proc[p] EXCEPT !.i = x, !.whole = y])
      /\ \A x, y, z : Plain([proc[p] EXCEPT !.i = x, !.old = y, !.whole = z])
      /\ \A x, y, z : Plain([proc[p] EXCEPT !.i = x, !.agent = y, !.made = z])
      /\ \A x, y, z : Plain([proc[p] EXCEPT !.agency = x, !.boots = y, !.whole = z])
      /\ Plain(Skipped(p))
  BY <1>2 DEF Shape, Skipped
<1> HIDE DEF Plain
<1> USE DEF At, store
<1>5. CASE ListProviders(p)
  BY <1>1, <1>3, <1>4, <1>5 DEF ListProviders
<1>6. CASE CreateProvider(p)
  BY <1>1, <1>3, <1>4, <1>6 DEF CreateProvider
<1>7. CASE ListAgents(p)
  BY <1>1, <1>3, <1>4, <1>7 DEF ListAgents
<1>8. CASE CreateAgent(p)
  BY <1>1, <1>3, <1>4, <1>8 DEF CreateAgent
<1>9. CASE WriteAgent(p)
  BY <1>1, <1>3, <1>4, <1>9 DEF WriteAgent, Skip
<1>10. CASE ListEdges(p)
  BY <1>1, <1>3, <1>4, <1>10 DEF ListEdges, Skip
<1>11. CASE Unlink(p)
  BY <1>1, <1>3, <1>4, <1>11 DEF Unlink, Skip
<1>12. CASE Link(p)
  BY <1>1, <1>3, <1>4, <1>12 DEF Link
<1>13. CASE Listen(p)
  BY <1>1, <1>3, <1>4, <1>13 DEF Listen
<1>14. CASE Expire(p)
  BY <1>1, <1>3, <1>4, <1>14 DEF Expire, Booting
<1>15. CASE Crash(p)
  BY <1>1, <1>3, <1>4, <1>15 DEF Crash
<1>16. CASE Start(p)
  BY <1>1, <1>3, <1>4, <1>16 DEF Start
<1> QED
  BY <1>5, <1>6, <1>7, <1>8, <1>9, <1>10, <1>11, <1>12, <1>13, <1>14, <1>15, <1>16 DEF QuietStep

-----------------------------------------------------------------------------
(* The invariant *)

\* A plan the operator wired is on nobody's list of plans to wire.
WiringInv ==
  /\ plans = [w \in Plans |-> plans[w]] /\ hand = [w \in Plans |-> hand[w]]
  /\ \A w \in Plans : hand[w] # 0 => /\ plans[w] = hand[w]
                                     /\ \A p \in Procs : w \notin proc[p].todo

BootInv == Shaped /\ WiringInv

LEMMA InitBoot == Init => BootInv
<1> SUFFICES ASSUME Init PROVE BootInv
  OBVIOUS
<1> DEFINE new == Fresh(CHOOSE f \in Files : TRUE)
<1>1. DOMAIN new = Shape /\ new.at = "down"
  BY FreshShape
<1>2. proc = [p \in Procs |-> new] /\ plans = [w \in Plans |-> 0] /\ hand = plans
  BY DEF Init
<1> HIDE DEF new
<1> QED
  BY <1>1, <1>2 DEF BootInv, Shaped, WiringInv

LEMMA QuietKeeps == BootInv /\ Quiet => BootInv'
BY DEF BootInv, Quiet, WiringInv

LEMMA BootStep == BootInv /\ [Next]_vars => BootInv'
<1> SUFFICES ASSUME BootInv, [Next]_vars PROVE BootInv'
  OBVIOUS
<1>0. Shaped
  BY DEF BootInv
<1>1. ASSUME NEW p \in Procs, QuietStep(p) PROVE BootInv'
  BY <1>0, <1>1, QuietSteps, QuietKeeps
<1>2. ASSUME NEW p \in Procs, ListPlans(p) PROVE BootInv'
  <2>1. DOMAIN proc[p] = Shape /\ proc[p].at = "plans" /\ UNCHANGED <<plans, hand>>
    BY <1>0, <1>2 DEF ListPlans, At, store, Shaped
  <2>2. DOMAIN NotWhole(p) = Shape /\ NotWhole(p).todo = proc[p].todo
    BY <2>1 DEF NotWhole, Shape
  <2>3. CASE Go(p, "listen", proc[p]) \/ Go(p, "listen", NotWhole(p))
    BY <1>0, <2>1, <2>2, <2>3, QuietMove, QuietKeeps
  <2>4. ASSUME NEW l, l # "down", Go(p, l, [proc[p] EXCEPT !.todo = Unwired(p)]) PROVE BootInv'
    <3> DEFINE r == [proc[p] EXCEPT !.todo = Unwired(p)]
    <3>1. DOMAIN r = Shape /\ r.todo = Unwired(p)
      BY <2>1 DEF Shape
    <3>2. Moved(p, l, r)
      BY <1>0, <2>4, <3>1, Moves
    <3>3. \A w \in Plans : hand[w] # 0 => w \notin Unwired(p)
      BY DEF BootInv, WiringInv, Unwired
    <3> HIDE DEF r
    <3> QED
      BY <2>1, <2>4, <3>1, <3>2, <3>3 DEF Moved, LeftOf, Same, Alike, BootInv, WiringInv
  <2> QED
    BY <1>2, <2>3, <2>4 DEF ListPlans
<1>3. ASSUME NEW p \in Procs, NEW w \in Plans, WirePlan(p, w) PROVE BootInv'
  <2> DEFINE rest == proc[p].todo \ {w}
             next == IF rest = {} THEN "listen" ELSE "wire"
  <2>1. /\ DOMAIN proc[p] = Shape /\ proc[p].at = "wire" /\ w \in proc[p].todo
        /\ UNCHANGED hand /\ \E a : plans' \in {plans, [plans EXCEPT ![w] = a]}
    BY <1>0, <1>3 DEF WirePlan, At, Shaped
  <2>2. PICK r : Wrote(p, next, r) /\ DOMAIN r = Shape /\ r.todo \subseteq proc[p].todo
    <3>1. \/ Wrote(p, next, [proc[p] EXCEPT !.todo = rest])
          \/ Wrote(p, next, [proc[p] EXCEPT !.todo = rest, !.whole = FALSE])
      BY <1>3 DEF WirePlan
    <3> DEFINE r1 == [proc[p] EXCEPT !.todo = rest]
               r2 == [proc[p] EXCEPT !.todo = rest, !.whole = FALSE]
    <3>2. DOMAIN r1 = Shape /\ r1.todo = rest /\ DOMAIN r2 = Shape /\ r2.todo = rest
      BY <2>1 DEF Shape
    <3>3. Wrote(p, next, r1) \/ Wrote(p, next, r2)
      BY <3>1
    <3> HIDE DEF r1, r2, next
    <3> QED
      BY <3>2, <3>3
  <2>3. next # "down"
    OBVIOUS
  <2> HIDE DEF next
  <2>4. Moved(p, next, r)
    BY <1>0, <2>2, Moves
  <2>5. hand[w] = 0
    BY <2>1 DEF BootInv, WiringInv
  <2> QED
    BY <2>1, <2>2, <2>3, <2>4, <2>5 DEF Moved, LeftOf, Same, Alike, BootInv, WiringInv
<1>4. CASE EditFile
  BY <1>0, <1>4 DEF EditFile, OperatorWrites, BootInv, Shaped, WiringInv, Shape
<1>5. ASSUME NEW a, DeleteAgent(a) PROVE BootInv'
  BY <1>0, <1>5 DEF DeleteAgent, OperatorWrites, BootInv, Shaped, WiringInv, Shape
<1>6. ASSUME NEW w \in Plans, EditPlan(w) PROVE BootInv'
  <2>1. Shaped' /\ \A q \in Procs : Same(q)
    BY <1>0, <1>6 DEF EditPlan, OperatorWrites, Shaped, Same, Alike, Shape
  <2>2. PICK a : /\ plans' = [plans EXCEPT ![w] = a]
                 /\ hand' = [hand EXCEPT ![w] = IF \E p \in Procs : w \in proc[p].todo THEN 0 ELSE a]
    BY <1>6 DEF EditPlan
  <2>3. WiringInv'
    BY <2>1, <2>2 DEF BootInv, WiringInv, Same, Alike
  <2> QED
    BY <2>1, <2>3 DEF BootInv
<1>7. CASE UNCHANGED vars
  BY <1>7 DEF vars, store, BootInv, Shaped, WiringInv
<1> QED
  BY <1>1, <1>2, <1>3, <1>4, <1>5, <1>6, <1>7 DEF Next, Step, QuietStep, Operator

LEMMA Booted == Spec => []BootInv
BY InitBoot, BootStep, PTL DEF Spec

\* A plan the operator wired keeps its agent whatever boots run and wherever
\* they are cut, unless one had listed the plan as unwired before.
THEOREM WiringIsKept == Spec => []OperatorWiringKept
<1>1. BootInv => OperatorWiringKept
  BY DEF BootInv, WiringInv, OperatorWiringKept
<1> QED
  BY <1>1, Booted, PTL

-----------------------------------------------------------------------------
(* Types.  Of the replicas they are stated of a record r that is at l, and   *)
(* of the store ps, as (providers, agents), to serve before and after a step. *)

Places == Booting \cup {"down", "serving"}
Looping == {"create", "write", "edges", "unlink", "link"}

Edges == [to : Nat \ {0}, by : Procs, boot : 1 .. (MaxEvents + 1)]
Entities == [name : AgentNames, limit : 0 .. MaxLimit, edges : SUBSET Edges, live : BOOLEAN]

StoreOK ==
  /\ file \in Files /\ events \in 0 .. MaxEvents /\ clash \in BOOLEAN
  /\ providers \in Seq(ProviderNames) /\ agents \in Seq(Entities)
  /\ \A a \in DOMAIN agents : \A e \in agents[a].edges : e.to <= Len(providers)
  /\ plans \in [Plans -> 0 .. Len(agents)] /\ hand \in [Plans -> 0 .. Len(agents)]

FieldsOK(r) ==
  /\ r.file \in Files /\ r.todo \subseteq Plans
  /\ r.late \in BOOLEAN /\ r.whole \in BOOLEAN /\ r.agency \in BOOLEAN
  /\ r.prov \in Seq(Nat) /\ r.agent \in Seq(Nat) /\ r.made \in Nat
  /\ r.i \in 1 .. (Len(r.file.agents) + 1)

\* The ids of the file's entries are ids of entities with their names.
IdsOK(r, ps, as) ==
  /\ \A k \in DOMAIN r.prov : r.prov[k] # 0 =>
       r.prov[k] \in DOMAIN ps /\ ps[r.prov[k]] = r.file.providers[k]
  /\ \A k \in DOMAIN r.agent : r.agent[k] # 0 =>
       r.agent[k] \in DOMAIN as /\ as[r.agent[k]].name = r.file.agents[k].name
  /\ r.made # 0 => r.made \in DOMAIN as

\* Each start of a replica but the first took one of the events so far.
CountOK(l, r, ev) == r.boots \in Nat /\ IF l = "down" THEN r.boots <= ev ELSE r.boots \in 1 .. (ev + 1)

\* The agent the loop is at, and its entity.
Entry(r) == r.file.agents[r.i]
Hand(r) == IF r.made # 0 THEN r.made ELSE r.agent[r.i]

\* Some entry has no id yet.
Unknown(ids) == \E k \in DOMAIN ids : ids[k] = 0

\* Where a boot is tells what it has looked up.
PlaceOK(l, r, as) ==
  /\ l \in Places
  /\ l = "provide" => Unknown(r.prov)
  /\ l \in {"agents"} \cup Looping => ~Unknown(r.prov)
  /\ l \in Looping => r.i <= Len(r.file.agents)
  /\ l # "link" => r.made = 0
  /\ l \in {"down", "bootstrap", "provide", "agents"} => r.i = 1 /\ r.agent = <<>>
  /\ l \in {"down", "bootstrap"} => r.prov = <<>>
  /\ l \in {"provide", "agents"} \cup Looping => DOMAIN r.prov = DOMAIN r.file.providers
  /\ l \in {"plans", "wire"} \cup Looping => DOMAIN r.agent = DOMAIN r.file.agents
  /\ l = "create" => r.agent[r.i] = 0
  /\ l \in {"write", "edges", "unlink", "link"} => Hand(r) # 0 /\ as[Hand(r)].name = Entry(r).name
  /\ l \in {"edges", "unlink", "link"} => Entry(r).provider # 0
  /\ l = "wire" => \A w \in r.todo : Wires(r.file, w)

ReplicaOK(l, r, ps, as, ev) ==
  FieldsOK(r) /\ IdsOK(r, ps, as) /\ CountOK(l, r, ev) /\ PlaceOK(l, r, as)

TypeInv == StoreOK /\ \A p \in Procs : ReplicaOK(proc[p].at, proc[p], providers, agents, events)

-----------------------------------------------------------------------------
(* Names *)

Unique(ps, as) ==
  /\ \A a, b \in DOMAIN ps : ps[a] = ps[b] /\ OneProvider(ps[a]) => a = b
  /\ \A a, b \in DOMAIN as :
       as[a].live /\ as[b].live /\ as[a].name = as[b].name /\ OneAgent(as[a].name) => a = b

\* No live agent has the name n.
Nobody(n, as) == \A a \in DOMAIN as : ~(as[a].live /\ as[a].name = n)

\* What a boot does not know is not there, but for the agent it has just made.
Missing(l, r, ps, as) ==
  /\ l = "provide" => \A k \in DOMAIN r.prov :
       r.prov[k] = 0 /\ OneProvider(r.file.providers[k]) => \A i \in DOMAIN ps : ps[i] # r.file.providers[k]
  /\ l \in Looping => \A k \in DOMAIN r.agent :
       /\ r.agent[k] = 0 /\ ~(l = "link" /\ r.made # 0 /\ k = r.i)
       /\ OneAgent(r.file.agents[k].name)
       => Nobody(r.file.agents[k].name, as)

NameInv == ~clash => /\ Unique(providers, agents)
                     /\ \A p \in Procs : Missing(proc[p].at, proc[p], providers, agents)

-----------------------------------------------------------------------------
(* A whole boot *)

\* Agent a of the store is as s, an agent of the file f, says.
Limited(s, a, as) == a \in DOMAIN as /\ as[a].live /\ as[a].name = s.name /\ (s.limit # 0 => as[a].limit = s.limit)
Attached(f, s, a, ps, as) ==
  s.provider # 0 => \E e \in as[a].edges : as[a].edges = {e} /\ ps[e.to] = f.providers[s.provider]
Settled(f, s, a, ps, as) == Limited(s, a, as) /\ Attached(f, s, a, ps, as)

\* Entry j of the agents of r's file is the only one of its name.
Single(r, j) == Once(AgentNamesOf(r.file), r.file.agents[j].name)

\* The first n agents of r's file have ids, and those that are declared once
\* are settled.
SettledTo(n, r, ps, as) ==
  \A j \in 1 .. n : /\ r.agent[j] # 0
                    /\ Single(r, j) => Settled(r.file, r.file.agents[j], r.agent[j], ps, as)

\* Plan w of the file has an agent, if r has a client and the file wires it.
Wired(w, r, pl) == r.agency /\ Wires(r.file, w) => pl[w] # 0

Done(l, r, ps, as, pl) ==
  /\ l \in Looping => SettledTo(r.i - 1, r, ps, as)
  /\ l \in {"edges", "unlink", "link"} => Limited(Entry(r), Hand(r), as)
  /\ l = "unlink" => as[Hand(r)].edges = r.old
  /\ l = "link" => as[Hand(r)].edges = {}
  /\ l \in {"plans", "wire"} => SettledTo(Len(r.file.agents), r, ps, as)
  /\ l = "wire" => \A w \in Plans \ r.todo : Wired(w, r, pl)
  /\ l \in {"listen", "serving"} =>
       /\ \A j \in DOMAIN r.file.agents :
            Single(r, j) => \E a \in DOMAIN as : Settled(r.file, r.file.agents[j], a, ps, as)
       /\ \A w \in Plans : Wired(w, r, pl)

WholeInv == \A p \in Procs : proc[p].whole => Done(proc[p].at, proc[p], providers, agents, plans)

AllInv == Shaped /\ TypeInv /\ NameInv /\ WholeInv

-----------------------------------------------------------------------------
(* Facts about the file and the lookups *)

LEMMA FileFields ==
  ASSUME NEW f \in Files
  PROVE  /\ f.providers \in Seq(ProviderNames) /\ Len(f.providers) \in Nat
         /\ DOMAIN f.providers = 1 .. Len(f.providers)
         /\ Len(f.agents) \in Nat /\ DOMAIN f.agents = 1 .. Len(f.agents)
         /\ \A i \in DOMAIN f.agents : /\ f.agents[i].name \in AgentNames
                                       /\ f.agents[i].provider \in 0 .. Len(f.providers)
                                       /\ f.agents[i].limit \in 0 .. MaxLimit
         /\ \A k \in DOMAIN f.providers : f.providers[k] \in ProviderNames
         /\ f.wiring \in [Plans -> 0 .. Len(f.agents) \cup {None}]
<1> DEFINE Specs == [name : AgentNames, provider : 0 .. Len(f.providers), limit : 0 .. MaxLimit]
<1>1. /\ f.providers \in Seq(ProviderNames) /\ f.agents \in Seq(Specs)
      /\ f.wiring \in [Plans -> 0 .. Len(f.agents) \cup {None}]
  BY Zenon, FileAssumption
<1> HIDE DEF Specs
<1>2. /\ DOMAIN f.providers = 1 .. Len(f.providers) /\ Len(f.providers) \in Nat
      /\ Len(f.agents) \in Nat /\ DOMAIN f.agents = 1 .. Len(f.agents)
  BY <1>1, LenProperties
<1>3. \A i \in DOMAIN f.agents : f.agents[i] \in Specs
  BY <1>1, <1>2, ElementOfSeq
<1>4. \A i \in DOMAIN f.providers : f.providers[i] \in ProviderNames
  BY <1>1, <1>2, ElementOfSeq
<1> QED
  BY <1>1, <1>2, <1>3, <1>4 DEF Specs

\* Another agent than one that is declared once has another name.
LEMMA OnceApart ==
  ASSUME NEW f, NEW i \in DOMAIN f.agents, NEW j \in DOMAIN f.agents, i # j,
         Once(AgentNamesOf(f), f.agents[i].name)
  PROVE  f.agents[j].name # f.agents[i].name
BY DEF Once, AgentNamesOf

LEMMA OneAgentOnce == \A f \in Files : \A n : OneAgent(n) => Once(AgentNamesOf(f), n)
BY DEF OneAgent

\* A sequence by its places.
LEMMA FnIsSeq ==
  ASSUME NEW S, NEW n \in Nat, NEW m \in [1 .. n -> S]
  PROVE  m \in Seq(S) /\ Len(m) = n
<1>1. m \in Seq(S)
  BY SeqDef
<1>2. DOMAIN m = 1 .. Len(m) /\ Len(m) \in Nat /\ DOMAIN m = 1 .. n
  BY <1>1, LenProperties
<1> QED
  BY <1>1, <1>2

\* The first of the ids that are missing is one of them.
LEMMA FirstMissing ==
  ASSUME NEW ids \in Seq(Nat), Unknown(ids)
  PROVE  \A k : k = SelectInSeq(ids, LAMBDA id : id = 0) => k \in DOMAIN ids /\ ids[k] = 0
<1> DEFINE I == {i \in 1 .. Len(ids) : ids[i] = 0}
<1>1. DOMAIN ids = 1 .. Len(ids)
  BY LenProperties
<1>2. I \subseteq Nat /\ I # {}
  BY <1>1 DEF Unknown
<1>3. \E x \in I : \A y \in I : x <= y
  <2>1. PICK x \in I : \A y \in I : <<y, x>> \notin OpToRel(<, Nat)
    BY <1>2, NatLessThanWellFounded, WFMin
  <2>2. \A y \in I : ~(y < x)
    BY <1>2, <2>1 DEF OpToRel
  <2> QED
    BY <1>2, <2>2
<1>4. Min(I) \in I
  BY <1>3 DEF Min
<1>5. SelectInSeq(ids, LAMBDA id : id = 0) = Min(I)
  BY Zenon, <1>2 DEF SelectInSeq
<1>6. \A k : k = Min(I) => k \in DOMAIN ids /\ ids[k] = 0
  BY <1>1, <1>4
<1> HIDE DEF I
<1> QED
  BY Zenon, <1>5, <1>6

-----------------------------------------------------------------------------
(* Replicas over a store that grows *)

\* ps2, as2 is a later store than ps, as: entities keep their names.
Grows(ps, as, ps2, as2) ==
  /\ DOMAIN ps \subseteq DOMAIN ps2 /\ \A i \in DOMAIN ps : ps2[i] = ps[i]
  /\ DOMAIN as \subseteq DOMAIN as2 /\ \A a \in DOMAIN as : as2[a].name = as[a].name

LEMMA HandKnown ==
  ASSUME NEW r, NEW ps, NEW as, NEW l \in Looping, FieldsOK(r), IdsOK(r, ps, as), PlaceOK(l, r, as)
  PROVE  /\ r.i \in DOMAIN r.file.agents /\ Entry(r).name \in AgentNames /\ Entry(r).limit \in 0 .. MaxLimit
         /\ l # "create" => Hand(r) \in DOMAIN as /\ as[Hand(r)].name = Entry(r).name
<1>1. r.i \in DOMAIN r.file.agents /\ Entry(r).name \in AgentNames /\ Entry(r).limit \in 0 .. MaxLimit
  <2>1. r.file \in Files /\ r.i \in 1 .. (Len(r.file.agents) + 1)
    BY DEF FieldsOK
  <2>2. r.i <= Len(r.file.agents)
    BY DEF PlaceOK
  <2>3. /\ Len(r.file.agents) \in Nat /\ DOMAIN r.file.agents = 1 .. Len(r.file.agents)
        /\ \A i \in DOMAIN r.file.agents : /\ r.file.agents[i].name \in AgentNames
                                           /\ r.file.agents[i].limit \in 0 .. MaxLimit
    BY <2>1, FileFields
  <2>4. r.i \in DOMAIN r.file.agents
    BY <2>1, <2>2, <2>3
  <2> QED
    BY <2>3, <2>4 DEF Entry
<1> QED
  BY <1>1 DEF IdsOK, PlaceOK, Hand, Looping, FieldsOK

\* Ids stay good of a record with the same file over a store that grows.
LEMMA IdsLast ==
  ASSUME NEW r, NEW r2, NEW ps, NEW as, NEW ps2, NEW as2, Grows(ps, as, ps2, as2), IdsOK(r, ps, as),
         r2.file = r.file, r2.prov = r.prov, r2.agent = r.agent, r2.made = r.made \/ r2.made = 0
  PROVE  IdsOK(r2, ps2, as2)
<1>1. ASSUME NEW k \in DOMAIN r.prov, r.prov[k] # 0
      PROVE  r.prov[k] \in DOMAIN ps2 /\ ps2[r.prov[k]] = r.file.providers[k]
  <2>1. r.prov[k] \in DOMAIN ps /\ ps[r.prov[k]] = r.file.providers[k]
    BY <1>1 DEF IdsOK
  <2> QED
    BY <2>1 DEF Grows
<1>2. ASSUME NEW k \in DOMAIN r.agent, r.agent[k] # 0
      PROVE  r.agent[k] \in DOMAIN as2 /\ as2[r.agent[k]].name = r.file.agents[k].name
  <2>1. r.agent[k] \in DOMAIN as /\ as[r.agent[k]].name = r.file.agents[k].name
    BY <1>2 DEF IdsOK
  <2> QED
    BY <2>1 DEF Grows
<1>3. r2.made # 0 => r2.made \in DOMAIN as2
  BY DEF IdsOK, Grows
<1> QED
  BY <1>1, <1>2, <1>3 DEF IdsOK

LEMMA OnLooking ==
  ASSUME NEW ps, NEW as, NEW ps2, NEW as2, Grows(ps, as, ps2, as2),
         NEW ev \in Nat, NEW ev2 \in Nat, ev <= ev2,
         NEW r, NEW new, Alike(new, r), ReplicaOK(r.at, r, ps, as, ev)
  PROVE  ReplicaOK(new.at, new, ps2, as2, ev2)
<1>1. FieldsOK(new)
  BY DEF ReplicaOK, FieldsOK, Alike
<1>2. CountOK(new.at, new, ev2)
  BY DEF ReplicaOK, CountOK, Alike
<1>3. IdsOK(new, ps2, as2)
  <2>1. IdsOK(r, ps, as)
    BY DEF ReplicaOK
  <2> QED
    BY <2>1, IdsLast DEF Alike
<1>4. Entry(new) = Entry(r) /\ Hand(new) = Hand(r)
  BY DEF Alike, Entry, Hand
<1>5. r.at \in Looping /\ r.at # "create" => Hand(r) \in DOMAIN as
  BY HandKnown DEF ReplicaOK
<1>6. PlaceOK(new.at, new, as2)
  BY <1>4, <1>5 DEF ReplicaOK, PlaceOK, Alike, Grows, Looping
<1> QED
  BY <1>1, <1>2, <1>3, <1>6 DEF ReplicaOK

\* What a replica that lands at l keeps of what holds of its record r.
LEMMA Lands ==
  ASSUME NEW ps, NEW as, NEW pl, NEW ev, NEW l, NEW r, NEW new, LeftOf(l, new, r), file \in Files
  PROVE  /\ /\ FieldsOK(r) /\ IdsOK(r, ps, as) /\ CountOK(l, r, ev)
            /\ l = "down" \/ PlaceOK(l, r, as)
            => ReplicaOK(l, new, ps, as, ev)
         /\ Missing(l, r, ps, as) => Missing(l, new, ps, as)
         /\ new.whole => r.whole /\ (Done(l, r, ps, as, pl) => Done(l, new, ps, as, pl))
<1>1. (CHOOSE f \in Files : TRUE) \in Files
  OBVIOUS
<1>2. <<>> \in Seq(Nat) /\ DOMAIN <<>> = {}
  BY EmptySeq
<1>3. l \in Looping => Entry(new) = Entry(r) /\ Hand(new) = Hand(r)
  BY DEF LeftOf, Entry, Hand, Looping
<1>4. ASSUME FieldsOK(r), IdsOK(r, ps, as), CountOK(l, r, ev), l = "down" \/ PlaceOK(l, r, as)
      PROVE  ReplicaOK(l, new, ps, as, ev)
  <2>1. new.file \in Files
    BY <1>1, <1>4 DEF LeftOf, FieldsOK
  <2>2. new.i \in 1 .. (Len(new.file.agents) + 1)
    <3>1. Len(new.file.agents) \in Nat
      BY <2>1, FileFields
    <3> QED
      BY <1>4, <3>1 DEF LeftOf, FieldsOK
  <2>3. FieldsOK(new)
    <3>1. new.todo \subseteq Plans
      BY <1>4 DEF LeftOf, FieldsOK
    <3>2. new.late \in BOOLEAN /\ new.whole \in BOOLEAN /\ new.agency \in BOOLEAN
      BY <1>4 DEF LeftOf, FieldsOK
    <3>3. new.prov \in Seq(Nat) /\ new.agent \in Seq(Nat)
      <4>1. r.prov \in Seq(Nat) /\ r.agent \in Seq(Nat) /\ <<>> \in Seq(Nat)
        BY <1>2, <1>4 DEF FieldsOK
      <4>2. (new.prov = r.prov \/ new.prov = <<>>) /\ (new.agent = r.agent \/ new.agent = <<>>)
        BY DEF LeftOf
      <4> QED
        BY Zenon, <4>1, <4>2
    <3>4. new.made \in Nat
      BY <1>4 DEF LeftOf, FieldsOK
    <3> QED
      BY <2>1, <2>2, <3>1, <3>2, <3>3, <3>4 DEF FieldsOK
  <2>4. IdsOK(new, ps, as) /\ CountOK(l, new, ev)
    BY <1>2, <1>4 DEF LeftOf, IdsOK, CountOK
  <2>5. PlaceOK(l, new, as)
    BY <1>3, <1>4 DEF LeftOf, PlaceOK, Looping, Places
  <2> QED
    BY <2>3, <2>4, <2>5 DEF ReplicaOK
<1>5. Missing(l, r, ps, as) => Missing(l, new, ps, as)
  BY <1>3 DEF LeftOf, Missing, Looping
<1>6. ASSUME new.whole, Done(l, r, ps, as, pl) PROVE Done(l, new, ps, as, pl)
  <2>1. l # "down" /\ new.file = r.file /\ new.agency = r.agency /\ new.todo = r.todo /\ new.old = r.old
    BY <1>6 DEF LeftOf
  <2>2. l \in Looping => new.i = r.i
    BY DEF LeftOf, Looping
  <2>3. l \in Looping \cup {"plans", "wire"} => new.agent = r.agent
    BY DEF LeftOf, Looping
  <2>4. /\ \A j : Single(new, j) <=> Single(r, j)
        /\ \A w : Wired(w, new, pl) <=> Wired(w, r, pl)
    BY <2>1 DEF Single, Wired
  <2> QED
    BY <1>3, <1>6, <2>1, <2>2, <2>3, <2>4 DEF Done, SettledTo, Looping
<1>7. new.whole => r.whole
  BY DEF LeftOf
<1> QED
  BY <1>4, <1>5, <1>6, <1>7

-----------------------------------------------------------------------------
(* A step of one replica: what is to be shown of the record it goes on with *)

LandsOK(l, r, ps, as, pl, ev) ==
  /\ DOMAIN r = Shape /\ FieldsOK(r) /\ IdsOK(r, ps, as) /\ CountOK(l, r, ev)
  /\ l = "down" \/ PlaceOK(l, r, as)
  /\ ~clash => Missing(l, r, ps, as)
  /\ r.whole => Done(l, r, ps, as, pl)

\* Without a write.
LEMMA Goes ==
  ASSUME AllInv, NEW p \in Procs
  PROVE  \A l, r :
           /\ LandsOK(l, r, providers, agents, plans, events') /\ Go(p, l, r)
           /\ events' \in 0 .. MaxEvents /\ events <= events' /\ UNCHANGED <<file, store, hand>>
           => AllInv'
<1> SUFFICES ASSUME NEW l, NEW r, LandsOK(l, r, providers, agents, plans, events'), Go(p, l, r),
                    events' \in 0 .. MaxEvents, events <= events', UNCHANGED <<file, store, hand>>
             PROVE  AllInv'
  OBVIOUS
<1>1. Moved(p, l, r) /\ clash' = clash /\ UNCHANGED <<providers, agents, plans>>
  BY Moves DEF AllInv, LandsOK, Go, store
<1>2. StoreOK' /\ file \in Files /\ events \in Nat /\ events' \in Nat
  BY <1>1, BoundAssumption DEF AllInv, TypeInv, StoreOK
<1>3. /\ ReplicaOK(l, proc'[p], providers, agents, events')
      /\ ~clash => Missing(l, proc'[p], providers, agents)
      /\ proc'[p].whole => Done(l, proc'[p], providers, agents, plans)
      /\ proc'[p].at = l
  <2>1. LeftOf(l, proc'[p], r) /\ proc'[p].at = l
    BY <1>1 DEF Moved, LeftOf
  <2> QED
    BY <1>2, <2>1, Lands DEF LandsOK
<1>4. ASSUME NEW q \in Procs \ {p}
      PROVE  /\ ReplicaOK(proc'[q].at, proc'[q], providers, agents, events')
             /\ ~clash => Missing(proc'[q].at, proc'[q], providers, agents)
             /\ proc'[q].whole => Done(proc'[q].at, proc'[q], providers, agents, plans)
  <2>1. Alike(proc'[q], proc[q])
    BY <1>1 DEF Moved, Same
  <2>2. ReplicaOK(proc[q].at, proc[q], providers, agents, events) /\ Grows(providers, agents, providers, agents)
    BY DEF AllInv, TypeInv, Grows
  <2>3. Entry(proc'[q]) = Entry(proc[q]) /\ Hand(proc'[q]) = Hand(proc[q])
    BY <2>1 DEF Alike, Entry, Hand
  <2>4. ReplicaOK(proc'[q].at, proc'[q], providers, agents, events')
    BY <1>2, <2>1, <2>2, OnLooking
  <2>5. ~clash => Missing(proc'[q].at, proc'[q], providers, agents)
    BY <2>1, <2>3 DEF AllInv, NameInv, Missing, Alike
  <2>6. proc'[q].whole => Done(proc'[q].at, proc'[q], providers, agents, plans)
    <3> SUFFICES ASSUME proc'[q].whole PROVE Done(proc'[q].at, proc'[q], providers, agents, plans)
      OBVIOUS
    <3>1. Done(proc[q].at, proc[q], providers, agents, plans)
      BY <2>1 DEF AllInv, WholeInv, Alike
    <3>2. /\ \A j : Single(proc'[q], j) <=> Single(proc[q], j)
          /\ \A w : Wired(w, proc'[q], plans) <=> Wired(w, proc[q], plans)
      BY <2>1 DEF Single, Wired, Alike
    <3> QED
      BY <2>1, <2>3, <3>1, <3>2 DEF Done, SettledTo, Alike
  <2> QED
    BY <2>4, <2>5, <2>6
<1>5. TypeInv'
  BY <1>1, <1>2, <1>3, <1>4 DEF TypeInv
<1>6. NameInv' /\ WholeInv'
  BY <1>1, <1>3, <1>4 DEF AllInv, NameInv, WholeInv
<1> QED
  BY <1>1, <1>5, <1>6 DEF AllInv, Moved

\* With a write: no other boot is whole now, and if the names are still to be
\* unique no other one is under way.
LEMMA Writes ==
  ASSUME AllInv, NEW p \in Procs, StoreOK', Grows(providers, agents, providers', agents'), events <= events',
         ~clash => Unique(providers', agents')
  PROVE  \A l, r : LandsOK(l, r, providers', agents', plans', events') /\ Wrote(p, l, r) => AllInv'
<1> SUFFICES ASSUME NEW l, NEW r, LandsOK(l, r, providers', agents', plans', events'), Wrote(p, l, r)
             PROVE  AllInv'
  OBVIOUS
<1>1. /\ Moved(p, l, r) /\ \A q \in Procs \ {p} : ~proc'[q].whole
      /\ ~clash' => ~clash /\ \A q \in Procs \ {p} : proc[q].at \notin Booting
  BY Moves DEF AllInv, LandsOK, Wrote
<1>2. file \in Files /\ events \in Nat /\ events' \in Nat
  BY BoundAssumption DEF AllInv, TypeInv, StoreOK
<1>3. /\ ReplicaOK(l, proc'[p], providers', agents', events')
      /\ ~clash => Missing(l, proc'[p], providers', agents')
      /\ proc'[p].whole => Done(l, proc'[p], providers', agents', plans')
      /\ proc'[p].at = l
  <2>1. LeftOf(l, proc'[p], r) /\ proc'[p].at = l
    BY <1>1 DEF Moved, LeftOf
  <2> QED
    BY <1>2, <2>1, Lands DEF LandsOK
<1>4. ASSUME NEW q \in Procs \ {p}
      PROVE  /\ ReplicaOK(proc'[q].at, proc'[q], providers', agents', events')
             /\ ~clash' => Missing(proc'[q].at, proc'[q], providers', agents')
             /\ ~proc'[q].whole
  <2>1. Alike(proc'[q], proc[q])
    BY <1>1 DEF Moved, Same
  <2>2. ReplicaOK(proc[q].at, proc[q], providers, agents, events)
    BY DEF AllInv, TypeInv
  <2>3. ReplicaOK(proc'[q].at, proc'[q], providers', agents', events')
    BY <1>2, <2>1, <2>2, OnLooking
  <2>4. ~clash' => Missing(proc'[q].at, proc'[q], providers', agents')
    BY <1>1, <2>1 DEF Missing, Alike, Booting, Looping
  <2> QED
    BY <1>1, <2>3, <2>4
<1>5. TypeInv'
  BY <1>3, <1>4 DEF TypeInv
<1>6. NameInv' /\ WholeInv'
  BY <1>1, <1>3, <1>4 DEF AllInv, NameInv, WholeInv
<1> QED
  BY <1>1, <1>5, <1>6 DEF AllInv, Moved

-----------------------------------------------------------------------------
(* What the steps of a boot have in common *)

LEMMA CallsCount ==
  ASSUME AllInv, NEW p, Answered(p) \/ Refused(p) \/ Event \/ UNCHANGED events
  PROVE  /\ events \in Nat /\ events' \in Nat /\ events' \in 0 .. MaxEvents /\ events <= events'
         /\ Event => events' = events + 1
BY BoundAssumption DEF AllInv, TypeInv, StoreOK, Answered, Refused, Event

LEMMA AtHand ==
  ASSUME AllInv, NEW p \in Procs
  PROVE  /\ DOMAIN proc[p] = Shape /\ FieldsOK(proc[p]) /\ IdsOK(proc[p], providers, agents)
         /\ CountOK(proc[p].at, proc[p], events) /\ PlaceOK(proc[p].at, proc[p], agents)
         /\ ~clash => Missing(proc[p].at, proc[p], providers, agents) /\ Unique(providers, agents)
         /\ proc[p].whole => Done(proc[p].at, proc[p], providers, agents, plans)
BY DEF AllInv, Shaped, TypeInv, ReplicaOK, NameInv, WholeInv

LEMMA SameFields ==
  ASSUME NEW s, NEW r, FieldsOK(s), r.file = s.file, r.late = s.late, r.agency = s.agency,
         r.whole = s.whole \/ r.whole = FALSE, r.todo \subseteq s.todo,
         r.prov \in Seq(Nat), r.agent \in Seq(Nat), r.made \in Nat,
         r.i = s.i \/ r.i \in 1 .. (Len(s.file.agents) + 1)
  PROVE  FieldsOK(r)
<1>1. r.file \in Files /\ r.todo \subseteq Plans
  BY DEF FieldsOK
<1>2. r.late \in BOOLEAN /\ r.whole \in BOOLEAN /\ r.agency \in BOOLEAN
  BY DEF FieldsOK
<1>3. r.i \in 1 .. (Len(r.file.agents) + 1)
  BY DEF FieldsOK
<1> QED
  BY <1>1, <1>2, <1>3 DEF FieldsOK

LEMMA NoGrowth == Grows(providers, agents, providers, agents)
BY DEF Grows

\* A boot of p that is given up goes on with r.
Stopped(r, p) ==
  /\ DOMAIN r = Shape /\ r.made = 0 /\ r.whole = FALSE
  /\ r.file = proc[p].file /\ r.late = proc[p].late
  /\ r.prov = proc[p].prov /\ r.agent = proc[p].agent /\ r.i = proc[p].i
  /\ r.todo = proc[p].todo /\ r.agency = proc[p].agency /\ r.boots = proc[p].boots

LEMMA Stops ==
  ASSUME AllInv, NEW p \in Procs, proc[p].at # "down", NEW ev \in Nat, events <= ev,
         NEW ps, NEW as, NEW pl, Grows(providers, agents, ps, as), NEW r, Stopped(r, p)
  PROVE  LandsOK("listen", r, ps, as, pl, ev)
<1>1. FieldsOK(r)
  <2>1. /\ FieldsOK(proc[p]) /\ proc[p].prov \in Seq(Nat)
        /\ proc[p].agent \in Seq(Nat)
    BY AtHand DEF FieldsOK
  <2>2. /\ r.file = proc[p].file /\ r.late = proc[p].late /\ r.agency = proc[p].agency
        /\ r.whole = FALSE /\ r.todo \subseteq proc[p].todo /\ r.prov \in Seq(Nat)
        /\ r.agent \in Seq(Nat) /\ r.made \in Nat /\ r.i = proc[p].i
    BY <2>1 DEF Stopped
  <2> QED
    BY <2>1, <2>2, SameFields
<1>2. IdsOK(r, ps, as)
  <2>1. IdsOK(proc[p], providers, agents)
    BY AtHand
  <2> QED
    BY <2>1, IdsLast DEF Stopped
<1>3. events \in Nat
  BY DEF AllInv, TypeInv, StoreOK
<1>4. CountOK("listen", r, ev)
  BY <1>3, AtHand DEF CountOK, Stopped
<1>5. PlaceOK("listen", r, as) /\ Missing("listen", r, ps, as)
  BY DEF PlaceOK, Missing, Looping, Places, Booting, Stopped
<1> QED
  BY <1>1, <1>2, <1>4, <1>5 DEF LandsOK, Stopped

LEMMA NotWholeStops ==
  ASSUME AllInv, NEW p \in Procs, proc[p].at \notin {"down", "link"}
  PROVE  Stopped(NotWhole(p), p)
<1>1. DOMAIN proc[p] = Shape /\ proc[p].made = 0
  BY AtHand DEF PlaceOK
<1> QED
  BY <1>1 DEF NotWhole, Stopped, Shape

\* A call that is not answered ends the boot.
LEMMA GivesUp ==
  ASSUME AllInv, NEW p \in Procs, proc[p].at \notin {"down", "link"},
         Answered(p) \/ Refused(p) \/ Event \/ UNCHANGED events,
         Go(p, "listen", NotWhole(p)), UNCHANGED <<file, store, hand>>
  PROVE  AllInv'
<1>1. Stopped(NotWhole(p), p)
  BY NotWholeStops
<1>2. LandsOK("listen", NotWhole(p), providers, agents, plans, events')
  BY <1>1, CallsCount, NoGrowth, Stops
<1> QED
  BY <1>2, CallsCount, Goes

\* Where the loop is with the agent r is at.
Loop(r) ==
  IF r.i > Len(r.file.agents) THEN "plans" ELSE IF r.agent[r.i] # 0 THEN "write" ELSE "create"

LEMMA LoopIsAgentAt ==
  ASSUME NEW r, FieldsOK(r), DOMAIN r.agent = DOMAIN r.file.agents
  PROVE  AgentAt(r.i, r.agent) = Loop(r)
<1>1. /\ Len(r.agent) \in Nat /\ DOMAIN r.agent = 1 .. Len(r.agent)
      /\ Len(r.file.agents) \in Nat /\ DOMAIN r.file.agents = 1 .. Len(r.file.agents)
  BY FileFields, LenProperties DEF FieldsOK
<1>2. Len(r.agent) = Len(r.file.agents)
  <2> DEFINE a == Len(r.agent)
             b == Len(r.file.agents)
  <2>1. a \in Nat /\ b \in Nat /\ 1 .. a = 1 .. b
    BY <1>1
  <2> HIDE DEF a, b
  <2>2. a = b
    BY <2>1
  <2> QED
    BY <2>2 DEF a, b
<1> QED
  BY <1>2 DEF AgentAt, Loop

AllKnown(r, as) == \A k \in DOMAIN r.agent :
  r.agent[k] = 0 /\ OneAgent(r.file.agents[k].name) => Nobody(r.file.agents[k].name, as)

LEMMA LoopsOn ==
  ASSUME NEW ps, NEW as, NEW pl, NEW ev, NEW r, DOMAIN r = Shape, FieldsOK(r), IdsOK(r, ps, as),
         CountOK("create", r, ev), r.made = 0, ~Unknown(r.prov),
         DOMAIN r.prov = DOMAIN r.file.providers, DOMAIN r.agent = DOMAIN r.file.agents,
         ~clash => AllKnown(r, as), r.whole => SettledTo(r.i - 1, r, ps, as)
  PROVE  LandsOK(Loop(r), r, ps, as, pl, ev)
<1>1. Len(r.file.agents) \in Nat /\ r.i \in 1 .. (Len(r.file.agents) + 1)
  BY FileFields DEF FieldsOK
<1>2. r.i <= Len(r.file.agents) => r.i \in DOMAIN r.agent
  BY <1>1, FileFields DEF FieldsOK
<1>3. PlaceOK(Loop(r), r, as) /\ CountOK(Loop(r), r, ev)
  <2>1. CASE Loop(r) = "plans"
    BY <2>1 DEF PlaceOK, CountOK, Looping, Places, Booting
  <2>2. CASE Loop(r) = "write"
    <3>1. r.i <= Len(r.file.agents) /\ r.agent[r.i] # 0
      BY <1>1, <2>2 DEF Loop
    <3>2. Hand(r) # 0 /\ as[Hand(r)].name = Entry(r).name
      BY <1>2, <3>1 DEF Hand, IdsOK, Entry
    <3> QED
      BY <2>2, <3>1, <3>2 DEF PlaceOK, CountOK, Looping, Places, Booting
  <2>3. CASE Loop(r) = "create"
    <3>1. r.i <= Len(r.file.agents) /\ r.agent[r.i] = 0
      BY <1>1, <2>3 DEF Loop
    <3> QED
      BY <2>3, <3>1 DEF PlaceOK, CountOK, Looping, Places, Booting
  <2> QED
    BY <2>1, <2>2, <2>3 DEF Loop
<1>4. ~clash => Missing(Loop(r), r, ps, as)
  BY DEF Loop, Missing, AllKnown, Looping
<1>5. r.i > Len(r.file.agents) => r.i - 1 = Len(r.file.agents)
  BY <1>1
<1>6. r.whole => Done(Loop(r), r, ps, as, pl)
  BY <1>5 DEF Loop, Done, Looping
<1> QED
  BY <1>3, <1>4, <1>6 DEF LandsOK

\* The loop goes on, the update of this agent lost.
LEMMA SkippedFields ==
  ASSUME AllInv, NEW p \in Procs, proc[p].at \in {"write", "edges", "unlink", "link"}, proc[p].made = 0
  PROVE  LET r == Skipped(p) IN
    /\ DOMAIN r = Shape /\ r.whole = FALSE /\ r.i = proc[p].i + 1 /\ r.made = 0
    /\ r.file = proc[p].file /\ r.late = proc[p].late
    /\ r.prov = proc[p].prov /\ r.agent = proc[p].agent
    /\ r.todo = proc[p].todo /\ r.agency = proc[p].agency /\ r.boots = proc[p].boots
    /\ FieldsOK(r) /\ ~Unknown(r.prov)
    /\ DOMAIN r.prov = DOMAIN r.file.providers /\ DOMAIN r.agent = DOMAIN r.file.agents
    /\ Onward(p) = Loop(r)
<1> DEFINE r == Skipped(p)
<1>1. /\ DOMAIN r = Shape /\ r.whole = FALSE /\ r.i = proc[p].i + 1 /\ r.made = 0
      /\ r.file = proc[p].file /\ r.late = proc[p].late
      /\ r.prov = proc[p].prov /\ r.agent = proc[p].agent
      /\ r.todo = proc[p].todo /\ r.agency = proc[p].agency /\ r.boots = proc[p].boots
  BY AtHand DEF Shape, NextAgent, Skipped
<1>2. proc[p].i \in 1 .. Len(proc[p].file.agents) /\ Len(proc[p].file.agents) \in Nat
  BY AtHand, FileFields DEF PlaceOK, FieldsOK, Looping
<1>3. ~Unknown(r.prov) /\ DOMAIN r.prov = DOMAIN r.file.providers /\ DOMAIN r.agent = DOMAIN r.file.agents
  BY <1>1, AtHand DEF PlaceOK, Looping
<1>4. Onward(p) = AgentAt(r.i, r.agent)
  BY <1>1 DEF Onward, NextAgent
<1> HIDE DEF r
<1>5. FieldsOK(r)
  <2>1. FieldsOK(proc[p]) /\ proc[p].prov \in Seq(Nat) /\ proc[p].agent \in Seq(Nat)
    BY AtHand DEF FieldsOK
  <2>2. r.i \in 1 .. (Len(proc[p].file.agents) + 1)
    BY <1>1, <1>2
  <2>3. r.todo \subseteq proc[p].todo /\ r.prov \in Seq(Nat) /\ r.agent \in Seq(Nat) /\ r.made \in Nat
    BY <1>1, <2>1
  <2> QED
    BY <1>1, <2>1, <2>2, <2>3, SameFields
<1>6. AgentAt(r.i, r.agent) = Loop(r)
  BY <1>3, <1>5, LoopIsAgentAt
<1> QED
  BY <1>1, <1>3, <1>4, <1>5, <1>6 DEF r

\* It lands well over any later store on which its ids are still good.
LEMMA SkippedLands ==
  ASSUME AllInv, NEW p \in Procs, proc[p].at \in {"write", "edges", "unlink", "link"}, proc[p].made = 0,
         NEW ps, NEW as, NEW pl, NEW ev \in Nat, events <= ev, IdsOK(proc[p], ps, as),
         ~clash => AllKnown(proc[p], as)
  PROVE  LandsOK(Onward(p), Skipped(p), ps, as, pl, ev)
<1> DEFINE r == Skipped(p)
<1>1. /\ DOMAIN r = Shape /\ r.whole = FALSE /\ r.made = 0 /\ r.file = proc[p].file
      /\ r.prov = proc[p].prov /\ r.agent = proc[p].agent /\ r.boots = proc[p].boots
      /\ FieldsOK(r) /\ ~Unknown(r.prov)
      /\ DOMAIN r.prov = DOMAIN r.file.providers /\ DOMAIN r.agent = DOMAIN r.file.agents
      /\ Onward(p) = Loop(r)
  BY SkippedFields
<1> HIDE DEF r
<1>2. events \in Nat /\ CountOK(proc[p].at, proc[p], events)
  BY AtHand DEF AllInv, TypeInv, StoreOK
<1>6. proc[p].at # "down"
  OBVIOUS
<1>7. CountOK("create", r, ev)
  BY <1>1, <1>2, <1>6 DEF CountOK
<1>3. IdsOK(r, ps, as) /\ CountOK("create", r, ev)
  BY <1>1, <1>7 DEF IdsOK
<1>4. ~clash => AllKnown(r, as)
  BY <1>1 DEF AllKnown
<1>5. LandsOK(Loop(r), r, ps, as, pl, ev)
  BY <1>1, <1>3, <1>4, LoopsOn
<1> QED
  BY <1>1, <1>5 DEF r

LEMMA Skips ==
  ASSUME AllInv, NEW p \in Procs, proc[p].at \in {"write", "edges", "unlink"},
         Answered(p) \/ Refused(p), Skip(p), UNCHANGED <<file, store, hand>>
  PROVE  AllInv'
<1>1. proc[p].made = 0 /\ IdsOK(proc[p], providers, agents)
  BY AtHand DEF PlaceOK
<1>2. ~clash => AllKnown(proc[p], agents)
  BY AtHand DEF Missing, AllKnown, Looping
<1>3. LandsOK(Onward(p), Skipped(p), providers, agents, plans, events')
  BY <1>1, <1>2, CallsCount, SkippedLands
<1> QED
  BY <1>3, CallsCount, Goes DEF Skip

-----------------------------------------------------------------------------
(* The steps of a boot *)

LEMMA StartKeeps == ASSUME AllInv, NEW p \in Procs, Start(p) PROVE AllInv'
<1> USE DEF At
<1>1. proc[p].at = "down" /\ DOMAIN proc[p] = Shape /\ UNCHANGED <<file, store, hand>>
  BY AtHand DEF Start
<1>2. events \in Nat /\ events' \in Nat /\ events' \in 0 .. MaxEvents /\ events <= events'
  BY CallsCount DEF Start
<1>3. /\ FieldsOK(proc[p]) /\ IdsOK(proc[p], providers, agents) /\ proc[p].made = 0
      /\ proc[p].i = 1 /\ CountOK("down", proc[p], events)
  BY <1>1, AtHand DEF PlaceOK
<1>4. CASE Event /\ Go(p, "down", proc[p])
  <2>1. CountOK("down", proc[p], events')
    BY <1>2, <1>3 DEF CountOK
  <2>2. Missing("down", proc[p], providers, agents) /\ Done("down", proc[p], providers, agents, plans)
    BY DEF Missing, Done, Looping
  <2>3. LandsOK("down", proc[p], providers, agents, plans, events')
    BY <1>1, <1>3, <2>1, <2>2 DEF LandsOK
  <2> QED
    BY <1>1, <1>2, <1>4, <2>3, Goes
<1>5. ASSUME NEW client \in BOOLEAN,
             Go(p, "bootstrap", [proc[p] EXCEPT !.agency = client, !.boots = @ + 1, !.whole = TRUE])
      PROVE  AllInv'
  <2> DEFINE r == [proc[p] EXCEPT !.agency = client, !.boots = @ + 1, !.whole = TRUE]
  <2>1. /\ DOMAIN r = Shape /\ r.whole = TRUE /\ r.agency = client
        /\ r.boots = proc[p].boots + 1 /\ r.file = proc[p].file /\ r.late = proc[p].late
        /\ r.prov = proc[p].prov /\ r.agent = proc[p].agent /\ r.i = proc[p].i /\ r.made = 0
        /\ r.todo = proc[p].todo
    BY <1>1, <1>3 DEF Shape
  <2>2. Go(p, "bootstrap", r)
    BY <1>5
  <2> HIDE DEF r
  <2>3. FieldsOK(r)
    <3>1. r.whole \in BOOLEAN /\ r.late \in BOOLEAN /\ r.agency \in BOOLEAN
      BY <1>3, <2>1 DEF FieldsOK
    <3> QED
      BY <1>3, <2>1, <3>1 DEF FieldsOK
  <2>4. IdsOK(r, providers, agents)
    BY <1>3, <2>1 DEF IdsOK
  <2>5. CountOK("bootstrap", r, events')
    BY <1>2, <1>3, <2>1 DEF CountOK
  <2>6. PlaceOK("down", proc[p], agents)
    BY <1>1, AtHand
  <2>7. /\ PlaceOK("bootstrap", r, agents) /\ Missing("bootstrap", r, providers, agents)
        /\ Done("bootstrap", r, providers, agents, plans)
    BY <1>3, <2>1, <2>6 DEF PlaceOK, Missing, Done, Looping, Places, Booting
  <2>8. LandsOK("bootstrap", r, providers, agents, plans, events')
    BY <2>1, <2>3, <2>4, <2>5, <2>7 DEF LandsOK
  <2> QED
    BY <1>1, <1>2, <2>2, <2>8, Goes
<1> QED
  BY <1>4, <1>5 DEF Start

LEMMA ListsProviders == ASSUME AllInv, NEW p \in Procs, ListProviders(p) PROVE AllInv'
<1> USE DEF At
<1>1. proc[p].at = "bootstrap" /\ DOMAIN proc[p] = Shape /\ UNCHANGED <<file, store, hand>>
  BY AtHand DEF ListProviders
<1>2. events \in Nat /\ events' \in Nat /\ events' \in 0 .. MaxEvents /\ events <= events'
  BY CallsCount DEF ListProviders
<1>3. /\ FieldsOK(proc[p]) /\ IdsOK(proc[p], providers, agents) /\ proc[p].made = 0
      /\ proc[p].i = 1 /\ CountOK("bootstrap", proc[p], events)
      /\ proc[p].prov = <<>> /\ proc[p].agent = <<>>
      /\ DOMAIN proc[p].prov = {} /\ DOMAIN proc[p].agent = {}
  BY <1>1, AtHand DEF PlaceOK
<1>4. file \in Files /\ Len(file.agents) \in Nat
  BY FileFields DEF AllInv, TypeInv, StoreOK
<1>5. ASSUME NEW r, DOMAIN r = Shape, r.file = file, r.prov \in Seq(Nat),
             \A k \in DOMAIN r.prov : r.prov[k] # 0 => r.prov[k] \in DOMAIN providers /\ providers[r.prov[k]] = file.providers[k],
             r.whole = proc[p].whole \/ r.whole = FALSE, r.late = proc[p].late,
             r.agent = proc[p].agent, r.made = proc[p].made, r.i = proc[p].i,
             r.todo = proc[p].todo, r.agency = proc[p].agency, r.boots = proc[p].boots
      PROVE  FieldsOK(r) /\ IdsOK(r, providers, agents) /\ \A l \in Booting : CountOK(l, r, events')
  <2>1. FieldsOK(r)
    <3>1. r.whole \in BOOLEAN /\ r.late \in BOOLEAN /\ r.agency \in BOOLEAN
      BY <1>3, <1>5 DEF FieldsOK
    <3> QED
      BY <1>3, <1>4, <1>5, <3>1 DEF FieldsOK
  <2>2. IdsOK(r, providers, agents)
    BY <1>3, <1>5 DEF IdsOK
  <2> QED
    BY <1>2, <1>3, <1>5, <2>1, <2>2 DEF CountOK, Booting
<1>6. CASE Go(p, "listen", [proc[p] EXCEPT !.file = file]) /\ file.providers = <<>> /\ file.agents = <<>>
  <2> DEFINE r == [proc[p] EXCEPT !.file = file]
  <2>1. /\ DOMAIN r = Shape /\ r.file = file /\ r.prov = proc[p].prov /\ r.whole = proc[p].whole
        /\ r.late = proc[p].late
        /\ r.agent = proc[p].agent /\ r.made = proc[p].made /\ r.i = proc[p].i
        /\ r.todo = proc[p].todo /\ r.agency = proc[p].agency /\ r.boots = proc[p].boots
    BY <1>1 DEF Shape
  <2> HIDE DEF r
  <2>2. FieldsOK(r) /\ IdsOK(r, providers, agents) /\ CountOK("listen", r, events')
    BY <1>3, <1>5, <2>1 DEF FieldsOK, IdsOK, Booting
  <2>3. PlaceOK("listen", r, agents) /\ Missing("listen", r, providers, agents)
    BY <1>3, <2>1 DEF PlaceOK, Missing, Looping, Places, Booting
  <2>4. DOMAIN r.file.agents = {} /\ \A w \in Plans : ~Wires(r.file, w)
    <3>1. DOMAIN r.file.agents = {} /\ Len(r.file.agents) \in Nat /\ DOMAIN r.file.agents = 1 .. Len(r.file.agents)
      BY <1>4, <1>6, <2>1, FileFields
    <3>2. Len(r.file.agents) = 0
      <4>1. 1 \notin 1 .. Len(r.file.agents)
        BY <3>1
      <4> QED
        BY <3>1, <4>1
    <3>3. r.file.wiring \in [Plans -> 0 .. 0 \cup {None}]
      BY <1>4, <2>1, <3>2, FileFields
    <3> QED
      BY <3>1, <3>3 DEF Wires
  <2>5. Done("listen", r, providers, agents, plans)
    BY <2>4 DEF Done, Wired, Looping
  <2>6. LandsOK("listen", r, providers, agents, plans, events')
    BY <2>1, <2>2, <2>3, <2>5 DEF LandsOK
  <2> QED
    BY <1>1, <1>2, <1>6, <2>6, Goes DEF r
<1>7. CASE Go(p, "listen", [proc[p] EXCEPT !.file = file, !.whole = FALSE])
  <2> DEFINE r == [proc[p] EXCEPT !.file = file, !.whole = FALSE]
  <2>1. /\ DOMAIN r = Shape /\ r.file = file /\ r.prov = proc[p].prov /\ r.whole = FALSE
        /\ r.late = proc[p].late
        /\ r.agent = proc[p].agent /\ r.made = proc[p].made /\ r.i = proc[p].i
        /\ r.todo = proc[p].todo /\ r.agency = proc[p].agency /\ r.boots = proc[p].boots
    BY <1>1 DEF Shape
  <2> HIDE DEF r
  <2>2. FieldsOK(r) /\ IdsOK(r, providers, agents) /\ CountOK("listen", r, events')
    BY <1>3, <1>5, <2>1 DEF FieldsOK, IdsOK, Booting
  <2>3. PlaceOK("listen", r, agents) /\ Missing("listen", r, providers, agents)
    BY <1>3, <2>1 DEF PlaceOK, Missing, Looping, Places, Booting
  <2>4. LandsOK("listen", r, providers, agents, plans, events')
    BY <2>1, <2>2, <2>3 DEF LandsOK
  <2> QED
    BY <1>1, <1>2, <1>7, <2>4, Goes DEF r
<1>8. ASSUME NEW m, m \in [DOMAIN file.providers -> 0 .. (Len(providers) + Len(agents))],
             \A k \in DOMAIN file.providers :
               IF Named(providers, file.providers[k]) = {} THEN m[k] = 0 ELSE m[k] \in Named(providers, file.providers[k]),
             Go(p, AfterProviders(m), [proc[p] EXCEPT !.file = file, !.prov = m])
      PROVE  AllInv'
  <2> DEFINE r == [proc[p] EXCEPT !.file = file, !.prov = m]
             l == AfterProviders(m)
  <2>1. /\ DOMAIN r = Shape /\ r.file = file /\ r.prov = m /\ r.whole = proc[p].whole
        /\ r.late = proc[p].late
        /\ r.agent = proc[p].agent /\ r.made = proc[p].made /\ r.i = proc[p].i
        /\ r.todo = proc[p].todo /\ r.agency = proc[p].agency /\ r.boots = proc[p].boots
    BY <1>1 DEF Shape
  <2>2. Go(p, l, r)
    BY <1>8
  <2>3. l \in {"provide", "agents"} /\ (l = "provide" <=> Unknown(m))
    BY DEF AfterProviders, Unknown
  <2> HIDE DEF r, l
  <2>4. providers \in Seq(ProviderNames) /\ agents \in Seq(Entities)
    BY DEF AllInv, TypeInv, StoreOK
  <2>5. /\ Len(providers) \in Nat /\ Len(agents) \in Nat /\ DOMAIN providers \subseteq Nat \ {0}
        /\ Len(file.providers) \in Nat /\ DOMAIN file.providers = 1 .. Len(file.providers)
    BY <1>4, <2>4, LenProperties, FileFields
  <2>6. r.prov \in Seq(Nat)
    <3>1. m \in [1 .. Len(file.providers) -> Nat]
      BY <1>8, <2>5
    <3> QED
      BY <2>1, <2>5, <3>1, FnIsSeq
  <2>7. /\ DOMAIN r.prov = DOMAIN r.file.providers
        /\ \A k \in DOMAIN r.prov :
             /\ r.prov[k] # 0 => r.prov[k] \in DOMAIN providers /\ providers[r.prov[k]] = file.providers[k]
             /\ r.prov[k] = 0 => \A i \in DOMAIN providers : providers[i] # file.providers[k]
    BY <1>8, <2>1, <2>5 DEF Named
  <2>8. FieldsOK(r) /\ IdsOK(r, providers, agents) /\ CountOK(l, r, events')
    BY <1>5, <2>1, <2>3, <2>6, <2>7 DEF Booting
  <2>9. PlaceOK(l, r, agents)
    BY <1>3, <2>1, <2>3, <2>7 DEF PlaceOK, Looping, Places, Booting
  <2>10. Missing(l, r, providers, agents) /\ Done(l, r, providers, agents, plans)
    BY <2>1, <2>3, <2>7 DEF Missing, Done, Looping
  <2>11. LandsOK(l, r, providers, agents, plans, events')
    BY <2>1, <2>8, <2>9, <2>10 DEF LandsOK
  <2> QED
    BY <1>1, <1>2, <2>2, <2>11, Goes
<1> QED
  <2> DEFINE found == [k \in DOMAIN file.providers |-> Named(providers, file.providers[k])]
  <2>1. \/ Go(p, "listen", [proc[p] EXCEPT !.file = file]) /\ file.providers = <<>> /\ file.agents = <<>>
        \/ Go(p, "listen", [proc[p] EXCEPT !.file = file, !.whole = FALSE])
        \/ \E m \in IdsOf(found, file.providers) :
             Go(p, AfterProviders(m), [proc[p] EXCEPT !.file = file, !.prov = m])
    BY Zenon DEF ListProviders
  <2>2. ASSUME NEW m \in IdsOf(found, file.providers)
        PROVE  /\ m \in [DOMAIN file.providers -> 0 .. (Len(providers) + Len(agents))]
               /\ \A k \in DOMAIN file.providers :
                    IF Named(providers, file.providers[k]) = {} THEN m[k] = 0
                    ELSE m[k] \in Named(providers, file.providers[k])
    BY Zenon, <2>2 DEF IdsOf
  <2> QED
    BY Zenon, <1>6, <1>7, <1>8, <2>1, <2>2

LEMMA CreatesProvider == ASSUME AllInv, NEW p \in Procs, CreateProvider(p) PROVE AllInv'
<1> USE DEF At
<1> DEFINE f == proc[p].file
           k == SelectInSeq(proc[p].prov, LAMBDA id : id = 0)
           n == f.providers[k]
<1>1. /\ proc[p].at = "provide" /\ DOMAIN proc[p] = Shape
      /\ UNCHANGED file /\ UNCHANGED agents /\ UNCHANGED plans /\ UNCHANGED hand
  BY AtHand DEF CreateProvider
<1>2. events \in Nat /\ events' \in Nat /\ events' \in 0 .. MaxEvents /\ events <= events'
  BY CallsCount DEF CreateProvider
<1>3. /\ FieldsOK(proc[p]) /\ IdsOK(proc[p], providers, agents) /\ proc[p].made = 0
      /\ proc[p].i = 1 /\ CountOK("provide", proc[p], events) /\ Unknown(proc[p].prov)
      /\ f \in Files /\ DOMAIN proc[p].prov = DOMAIN f.providers /\ proc[p].prov \in Seq(Nat) /\ proc[p].agent \in Seq(Nat)
      /\ ~clash => /\ Unique(providers, agents)
                   /\ \A x \in DOMAIN proc[p].prov : proc[p].prov[x] = 0 /\ OneProvider(f.providers[x])
                        => \A i \in DOMAIN providers : providers[i] # f.providers[x]
  BY <1>1, AtHand DEF PlaceOK, FieldsOK, Missing
<1>4. k \in DOMAIN proc[p].prov /\ proc[p].prov[k] = 0 /\ n \in ProviderNames
  <2>1. proc[p].prov \in Seq(Nat) /\ Unknown(proc[p].prov)
    BY <1>3
  <2>2. \A x : x = SelectInSeq(proc[p].prov, LAMBDA id : id = 0) => x \in DOMAIN proc[p].prov /\ proc[p].prov[x] = 0
    BY Zenon, <2>1, FirstMissing
  <2>3. k \in DOMAIN proc[p].prov /\ proc[p].prov[k] = 0
    BY Zenon, <2>2
  <2> HIDE DEF k
  <2> QED
    BY <1>3, <2>3, FileFields
<1>5. \/ UNCHANGED providers /\ Go(p, "listen", NotWhole(p))
      \/ providers' = Append(providers, n) /\ Wrote(p, "listen", NotWhole(p))
      \/ /\ providers' = Append(providers, n)
         /\ Wrote(p, AfterProviders([proc[p].prov EXCEPT ![k] = Len(providers) + 1]),
                  [proc[p] EXCEPT !.prov = [proc[p].prov EXCEPT ![k] = Len(providers) + 1]])
  BY Zenon DEF CreateProvider
<1>0. n = f.providers[k] /\ f = proc[p].file
  OBVIOUS
<1> HIDE DEF f, n, k
<1>6. CASE UNCHANGED providers /\ Go(p, "listen", NotWhole(p))
  <2>1. Answered(p) \/ Refused(p)
    BY DEF CreateProvider
  <2> QED
    BY <1>1, <1>6, <2>1, GivesUp DEF store
<1>7. ASSUME providers' = Append(providers, n)
      PROVE  /\ StoreOK' \/ clash' \notin BOOLEAN
             /\ Grows(providers, agents, providers', agents')
             /\ DOMAIN providers' = DOMAIN providers \cup {Len(providers) + 1}
             /\ providers'[Len(providers) + 1] = n /\ Len(providers) \in Nat
             /\ ~clash => Unique(providers', agents')
  <2>1. StoreOK
    BY DEF AllInv, TypeInv
  <2>2. providers \in Seq(ProviderNames)
    BY <2>1 DEF StoreOK
  <2>3. /\ providers' \in Seq(ProviderNames) /\ Len(providers') = Len(providers) + 1
        /\ Len(providers) \in Nat /\ DOMAIN providers = 1 .. Len(providers)
        /\ DOMAIN providers' = 1 .. Len(providers') /\ providers'[Len(providers) + 1] = n
        /\ \A i \in 1 .. Len(providers) : providers'[i] = providers[i]
    BY <1>4, <1>7, <2>2, AppendProperties, LenProperties
  <2>4. \A a \in DOMAIN agents : \A e \in agents[a].edges : e.to <= Len(providers')
    <3>1. ASSUME NEW a \in DOMAIN agents, NEW e \in agents[a].edges PROVE e.to <= Len(providers')
      <4>1. agents \in Seq(Entities) /\ e.to <= Len(providers)
        BY <2>1 DEF StoreOK
      <4>2. agents[a] \in Entities
        BY <4>1, LenProperties
      <4>3. e.to \in Nat
        BY <4>2 DEF Entities, Edges
      <4> QED
        BY <2>3, <4>1, <4>3
    <3> QED
      BY <3>1
  <2>5. StoreOK' \/ clash' \notin BOOLEAN
    BY <1>1, <1>2, <2>1, <2>3, <2>4 DEF StoreOK
  <2>6. Grows(providers, agents, providers', agents')
    BY <1>1, <2>3 DEF Grows
  <2>7. DOMAIN providers' = DOMAIN providers \cup {Len(providers) + 1}
    BY <2>3
  <2>8. ~clash => Unique(providers', agents')
    <3> SUFFICES ASSUME ~clash PROVE Unique(providers', agents')
      OBVIOUS
    <3>1. OneProvider(n) => \A i \in DOMAIN providers : providers[i] # n
      BY <1>0, <1>3, <1>4
    <3>2. \A i, j \in DOMAIN providers' : providers'[i] = providers'[j] /\ OneProvider(providers'[i]) => i = j
      BY <1>3, <2>3, <2>7, <3>1 DEF Unique
    <3> QED
      BY <1>1, <1>3, <3>2 DEF Unique
  <2> QED
    BY <2>3, <2>5, <2>6, <2>7, <2>8
<1>8. CASE providers' = Append(providers, n) /\ Wrote(p, "listen", NotWhole(p))
  <2>1. clash' \in BOOLEAN
    BY <1>8 DEF Wrote
  <2>2. LandsOK("listen", NotWhole(p), providers', agents', plans', events')
    BY <1>1, <1>2, <1>7, <1>8, NotWholeStops, Stops
  <2> QED
    BY <1>2, <1>7, <1>8, <2>1, <2>2, Writes
<1>9. ASSUME providers' = Append(providers, n),
             Wrote(p, AfterProviders([proc[p].prov EXCEPT ![k] = Len(providers) + 1]),
                   [proc[p] EXCEPT !.prov = [proc[p].prov EXCEPT ![k] = Len(providers) + 1]])
      PROVE  AllInv'
  <2> DEFINE known == [proc[p].prov EXCEPT ![k] = Len(providers) + 1]
             r == [proc[p] EXCEPT !.prov = known]
             l == AfterProviders(known)
  <2>1. /\ DOMAIN r = Shape /\ r.file = f /\ r.prov = known /\ r.whole = proc[p].whole
        /\ r.late = proc[p].late
        /\ r.agent = proc[p].agent /\ r.made = 0 /\ r.i = 1
        /\ r.todo = proc[p].todo /\ r.agency = proc[p].agency /\ r.boots = proc[p].boots
    BY <1>1, <1>3 DEF Shape, f
  <2>2. Wrote(p, l, r) /\ clash' \in BOOLEAN
    BY <1>9 DEF Wrote
  <2>3. l \in {"provide", "agents"} /\ (l = "provide" <=> Unknown(known))
    BY DEF AfterProviders, Unknown
  <2>4. /\ known \in Seq(Nat) /\ DOMAIN known = DOMAIN proc[p].prov /\ known[k] = Len(providers) + 1
        /\ \A x \in DOMAIN known : x # k => known[x] = proc[p].prov[x]
    <3>1. proc[p].prov \in Seq(Nat) /\ Len(providers) + 1 \in Nat /\ k \in 1 .. Len(proc[p].prov)
      BY <1>3, <1>4, <1>7, <1>9, LenProperties
    <3>2. known \in Seq(Nat)
      BY <3>1, ExceptSeq
    <3> QED
      BY <1>4, <3>2
  <2> HIDE DEF r, l, known
  <2>5. FieldsOK(r)
    <3>1. r.todo \subseteq proc[p].todo /\ r.made \in Nat /\ r.i = proc[p].i /\ f = proc[p].file
      BY <1>3, <2>1 DEF f
    <3> QED
      BY <1>3, <2>1, <2>4, <3>1, SameFields
  <2>6. IdsOK(r, providers', agents')
    <3>1. IdsOK(proc[p], providers', agents')
      BY <1>3, <1>7, <1>9, IdsLast
    <3>2. ASSUME NEW x \in DOMAIN known, known[x] # 0
          PROVE  known[x] \in DOMAIN providers' /\ providers'[known[x]] = f.providers[x]
      <4>1. CASE x = k
        BY <1>0, <1>7, <1>9, <2>4, <4>1
      <4>2. CASE x # k
        BY <1>0, <2>4, <3>1, <3>2, <4>2 DEF IdsOK
      <4> QED
        BY <4>1, <4>2
    <3> QED
      BY <1>0, <2>1, <3>1, <3>2 DEF IdsOK
  <2>7. CountOK(l, r, events')
    BY <1>2, <1>3, <2>1, <2>3 DEF CountOK
  <2>8. PlaceOK(l, r, agents')
    <3>1. PlaceOK("provide", proc[p], agents)
      BY <1>1, AtHand
    <3> QED
      BY <1>0, <1>3, <2>1, <2>3, <2>4, <3>1 DEF PlaceOK, Looping, Places, Booting
  <2>9. ~clash => Missing(l, r, providers', agents')
    <3> SUFFICES ASSUME ~clash, NEW x \in DOMAIN r.prov, r.prov[x] = 0, OneProvider(r.file.providers[x]),
                        NEW i \in DOMAIN providers'
                 PROVE  providers'[i] # r.file.providers[x]
      BY <2>3 DEF Missing, Looping
    <3>1. x # k /\ proc[p].prov[x] = 0 /\ x \in DOMAIN f.providers
      BY <1>3, <1>7, <1>9, <2>1, <2>4
    <3>2. n # f.providers[x]
      BY <1>0, <1>3, <1>4, <2>1, <3>1 DEF OneProvider, Once
    <3>3. i \in DOMAIN providers => providers'[i] = providers[i]
      BY <1>7, <1>9 DEF Grows
    <3> QED
      BY <1>3, <1>7, <1>9, <2>1, <3>1, <3>2, <3>3
  <2>10. LandsOK(l, r, providers', agents', plans', events')
    BY <2>1, <2>3, <2>5, <2>6, <2>7, <2>8, <2>9 DEF LandsOK, Done, Looping
  <2> QED
    BY <1>2, <1>7, <1>9, <2>2, <2>10, Writes
<1> QED
  BY <1>5, <1>6, <1>8, <1>9

LEMMA ListsAgents == ASSUME AllInv, NEW p \in Procs, ListAgents(p) PROVE AllInv'
<1> USE DEF At
<1>1. proc[p].at = "agents" /\ DOMAIN proc[p] = Shape /\ UNCHANGED <<file, store, hand>>
  BY AtHand DEF ListAgents
<1>2. events \in Nat /\ events' \in Nat /\ events' \in 0 .. MaxEvents /\ events <= events'
  BY CallsCount DEF ListAgents
<1>3. /\ FieldsOK(proc[p]) /\ IdsOK(proc[p], providers, agents) /\ proc[p].made = 0 /\ proc[p].i = 1
      /\ CountOK("agents", proc[p], events) /\ ~Unknown(proc[p].prov)
      /\ DOMAIN proc[p].prov = DOMAIN proc[p].file.providers /\ proc[p].file \in Files
  BY <1>1, AtHand DEF PlaceOK, FieldsOK
<1>4. CASE Go(p, "listen", NotWhole(p))
  <2>1. Answered(p) \/ Refused(p)
    BY DEF ListAgents
  <2> QED
    BY <1>1, <1>4, <2>1, GivesUp
<1>5. ASSUME NEW m, m \in [DOMAIN proc[p].file.agents -> 0 .. (Len(providers) + Len(agents))],
             \A k \in DOMAIN proc[p].file.agents : LET n == proc[p].file.agents[k].name IN
               IF AgentsNamed(n) = {} THEN m[k] = 0 ELSE m[k] \in AgentsNamed(n),
             Go(p, AgentAt(1, m), [proc[p] EXCEPT !.agent = m])
      PROVE  AllInv'
  <2> DEFINE r == [proc[p] EXCEPT !.agent = m]
  <2>1. /\ DOMAIN r = Shape /\ r.file = proc[p].file /\ r.prov = proc[p].prov /\ r.whole = proc[p].whole
        /\ r.late = proc[p].late /\ r.agent = m /\ r.made = 0 /\ r.i = 1
        /\ r.todo = proc[p].todo /\ r.agency = proc[p].agency /\ r.boots = proc[p].boots
    BY <1>1, <1>3 DEF Shape
  <2>2. Go(p, AgentAt(1, m), r)
    BY <1>5
  <2> HIDE DEF r
  <2>3. providers \in Seq(ProviderNames) /\ agents \in Seq(Entities)
    BY DEF AllInv, TypeInv, StoreOK
  <2>4. /\ Len(providers) \in Nat /\ Len(agents) \in Nat /\ DOMAIN agents \subseteq Nat \ {0}
        /\ Len(r.file.agents) \in Nat /\ DOMAIN r.file.agents = 1 .. Len(r.file.agents)
    BY <1>3, <2>1, <2>3, LenProperties, FileFields
  <2>5. m \in Seq(Nat)
    <3>1. m \in [1 .. Len(r.file.agents) -> Nat]
      BY <1>5, <2>1, <2>4
    <3> QED
      BY <2>4, <3>1, FnIsSeq
  <2>6. /\ DOMAIN r.agent = DOMAIN r.file.agents
        /\ \A k \in DOMAIN m : m[k] # 0 => m[k] \in DOMAIN agents /\ agents[m[k]].name = r.file.agents[k].name
        /\ \A k \in DOMAIN m : m[k] = 0 => Nobody(r.file.agents[k].name, agents)
    BY <1>5, <2>1, <2>4 DEF AgentsNamed, Nobody
  <2>7. FieldsOK(r)
    <3>1. r.todo \subseteq proc[p].todo /\ r.made \in Nat /\ r.i = proc[p].i /\ r.prov \in Seq(Nat)
      BY <1>3, <2>1 DEF FieldsOK
    <3> QED
      BY <1>3, <2>1, <2>5, <3>1, SameFields
  <2>8. IdsOK(r, providers, agents) /\ CountOK("create", r, events') /\ AllKnown(r, agents)
    BY <1>2, <1>3, <2>1, <2>6 DEF IdsOK, CountOK, AllKnown
  <2>9. SettledTo(r.i - 1, r, providers, agents)
    BY <2>1 DEF SettledTo
  <2>10. LandsOK(Loop(r), r, providers, agents, plans, events')
    BY <1>3, <2>1, <2>6, <2>7, <2>8, <2>9, LoopsOn
  <2>11. AgentAt(1, m) = Loop(r)
    BY <2>1, <2>6, <2>7, LoopIsAgentAt
  <2> QED
    BY <1>1, <1>2, <2>2, <2>10, <2>11, Goes
<1> QED
  <2> DEFINE names == AgentNamesOf(proc[p].file)
             found == [k \in DOMAIN names |-> AgentsNamed(names[k])]
  <2>1. \/ Go(p, "listen", NotWhole(p))
        \/ \E m \in IdsOf(found, names) : Go(p, AgentAt(1, m), [proc[p] EXCEPT !.agent = m])
    BY Zenon DEF ListAgents
  <2>2. ASSUME NEW m \in IdsOf(found, names)
        PROVE  /\ m \in [DOMAIN names -> 0 .. (Len(providers) + Len(agents))]
               /\ \A k \in DOMAIN names :
                    IF AgentsNamed(names[k]) = {} THEN m[k] = 0 ELSE m[k] \in AgentsNamed(names[k])
    BY Zenon, <2>2 DEF IdsOf
  <2>3. /\ DOMAIN names = DOMAIN proc[p].file.agents
        /\ \A k \in DOMAIN proc[p].file.agents : names[k] = proc[p].file.agents[k].name
    BY DEF AgentNamesOf
  <2> HIDE DEF names
  <2>4. ASSUME NEW m \in IdsOf(found, names), Go(p, AgentAt(1, m), [proc[p] EXCEPT !.agent = m])
        PROVE  AllInv'
    <3>1. /\ m \in [DOMAIN proc[p].file.agents -> 0 .. (Len(providers) + Len(agents))]
          /\ \A k \in DOMAIN proc[p].file.agents : LET n == proc[p].file.agents[k].name IN
               IF AgentsNamed(n) = {} THEN m[k] = 0 ELSE m[k] \in AgentsNamed(n)
      BY Zenon, <2>2, <2>3
    <3> QED
      BY Zenon, <1>5, <2>4, <3>1
  <2> QED
    BY Zenon, <1>4, <2>1, <2>4

\* Agents settled stay so, whatever becomes of one of another name.
LEMMA KeepsSettled ==
  ASSUME NEW r, NEW ps, NEW as, NEW as2, NEW a, FieldsOK(r), r.i <= Len(r.file.agents),
         SettledTo(r.i - 1, r, ps, as),
         \A b \in DOMAIN as : b # a => b \in DOMAIN as2 /\ as2[b] = as[b],
         a \in DOMAIN as => as[a].name = Entry(r).name
  PROVE  SettledTo(r.i - 1, r, ps, as2)
<1> SUFFICES ASSUME NEW j \in 1 .. (r.i - 1)
             PROVE  /\ r.agent[j] # 0
                    /\ Single(r, j) => Settled(r.file, r.file.agents[j], r.agent[j], ps, as2)
  BY DEF SettledTo
<1> DEFINE s == r.file.agents[j]
           b == r.agent[j]
<1>1. b # 0 /\ (Single(r, j) => Settled(r.file, s, b, ps, as))
  BY DEF SettledTo
<1>2. r.i \in DOMAIN r.file.agents /\ j \in DOMAIN r.file.agents /\ j # r.i
  BY FileFields DEF FieldsOK
<1>3. ASSUME Single(r, j) PROVE Settled(r.file, s, b, ps, as2)
  <2>1. Entry(r).name # s.name
    BY <1>2, <1>3, OnceApart DEF Entry, Single
  <2>2. b \in DOMAIN as /\ as[b].name = s.name
    BY <1>1, <1>3 DEF Settled, Limited
  <2>3. b \in DOMAIN as2 /\ as2[b] = as[b]
    BY <2>1, <2>2
  <2> HIDE DEF s, b
  <2> QED
    BY <1>1, <1>3, <2>3 DEF Settled, Limited, Attached
<1> QED
  BY <1>1, <1>3

\* CreateAgent's entity in the store.
LEMMA Adds ==
  ASSUME AllInv, NEW new \in Entities, new.edges = {}, agents' = Append(agents, new), events' \in 0 .. MaxEvents,
         UNCHANGED file, UNCHANGED providers, UNCHANGED plans, UNCHANGED hand,
         ~clash /\ OneAgent(new.name) => Nobody(new.name, agents)
  PROVE  /\ StoreOK' \/ clash' \notin BOOLEAN
         /\ Grows(providers, agents, providers', agents')
         /\ ~clash => Unique(providers', agents')
         /\ Len(agents) \in Nat /\ Len(agents) + 1 \in DOMAIN agents' /\ agents'[Len(agents) + 1] = new
         /\ Len(agents) + 1 \notin DOMAIN agents
         /\ \A a \in DOMAIN agents : a \in DOMAIN agents' /\ agents'[a] = agents[a]
         /\ \A a \in DOMAIN agents' : a \in DOMAIN agents \/ a = Len(agents) + 1
<1>1. StoreOK
  BY DEF AllInv, TypeInv
<1>2. agents \in Seq(Entities)
  BY <1>1 DEF StoreOK
<1>3. /\ agents' \in Seq(Entities) /\ Len(agents') = Len(agents) + 1
      /\ Len(agents) \in Nat /\ DOMAIN agents = 1 .. Len(agents)
      /\ DOMAIN agents' = 1 .. Len(agents') /\ agents'[Len(agents) + 1] = new
      /\ \A i \in 1 .. Len(agents) : agents'[i] = agents[i]
  BY <1>2, AppendProperties, LenProperties
<1>4. \A a \in DOMAIN agents' : \A e \in agents'[a].edges : e.to <= Len(providers)
  BY <1>1, <1>3 DEF StoreOK
<1>5. /\ plans \in [Plans -> 0 .. Len(agents)] /\ hand \in [Plans -> 0 .. Len(agents)]
      /\ 0 .. Len(agents) \subseteq 0 .. Len(agents')
  BY <1>1, <1>3 DEF StoreOK
<1>6. plans \in [Plans -> 0 .. Len(agents')] /\ hand \in [Plans -> 0 .. Len(agents')]
  BY <1>5
<1>7. StoreOK' \/ clash' \notin BOOLEAN
  BY <1>1, <1>3, <1>4, <1>6 DEF StoreOK
<1>8. Grows(providers, agents, providers', agents')
  BY <1>3 DEF Grows
<1>9. ~clash => Unique(providers', agents')
  <2>1. ~clash => Unique(providers, agents)
    BY DEF AllInv, NameInv
  <2> QED
    BY <1>3, <2>1 DEF Unique, Nobody
<1> QED
  BY <1>3, <1>7, <1>8, <1>9

LEMMA CreatesAgent == ASSUME AllInv, NEW p \in Procs, CreateAgent(p) PROVE AllInv'
<1> USE DEF At
<1> DEFINE s == Declared(p)
           new == [name |-> s.name, limit |-> s.limit, edges |-> {}, live |-> TRUE]
<1>1. /\ proc[p].at = "create" /\ DOMAIN proc[p] = Shape
      /\ UNCHANGED file /\ UNCHANGED providers /\ UNCHANGED plans /\ UNCHANGED hand
  BY AtHand DEF CreateAgent
<1>2. events \in Nat /\ events' \in Nat /\ events' \in 0 .. MaxEvents /\ events <= events'
  BY CallsCount DEF CreateAgent
<1>3. /\ FieldsOK(proc[p]) /\ IdsOK(proc[p], providers, agents) /\ proc[p].made = 0
      /\ CountOK("create", proc[p], events) /\ PlaceOK("create", proc[p], agents)
      /\ ~clash => Missing("create", proc[p], providers, agents)
      /\ proc[p].whole => Done("create", proc[p], providers, agents, plans)
  BY <1>1, AtHand DEF PlaceOK
<1>4. /\ s = Entry(proc[p]) /\ s.name \in AgentNames /\ s.limit \in 0 .. MaxLimit
      /\ proc[p].agent[proc[p].i] = 0 /\ proc[p].i <= Len(proc[p].file.agents)
      /\ proc[p].i \in DOMAIN proc[p].file.agents /\ DOMAIN proc[p].agent = DOMAIN proc[p].file.agents
      /\ proc[p].file \in Files
  BY <1>3, HandKnown DEF Declared, Entry, PlaceOK, Looping, FieldsOK
<1> HIDE DEF s
<1>5. /\ new \in Entities /\ new.edges = {} /\ new.live = TRUE /\ new.name = s.name /\ new.limit = s.limit
  BY <1>4 DEF Entities
<1>6. ~clash /\ OneAgent(new.name) => Nobody(new.name, agents)
  BY <1>3, <1>4, <1>5 DEF Missing, Looping, Entry
<1>7. \/ Go(p, "listen", NotWhole(p)) /\ UNCHANGED agents
      \/ agents' = Append(agents, new) /\ Wrote(p, "listen", NotWhole(p))
      \/ /\ agents' = Append(agents, new) /\ ProviderID(p) # 0
         /\ Wrote(p, "link", [proc[p] EXCEPT !.made = Len(agents) + 1])
  BY DEF CreateAgent, s
<1> HIDE DEF new
<1>8. CASE Go(p, "listen", NotWhole(p)) /\ UNCHANGED agents
  <2>1. Answered(p) \/ Refused(p) \/ UNCHANGED events
    BY DEF CreateAgent
  <2> QED
    BY <1>1, <1>8, <2>1, GivesUp DEF store
<1>9. CASE agents' = Append(agents, new) /\ Wrote(p, "listen", NotWhole(p))
  <2>1. clash' \in BOOLEAN
    BY <1>9 DEF Wrote
  <2>2. /\ StoreOK' /\ Grows(providers, agents, providers', agents') /\ (~clash => Unique(providers', agents'))
    BY <1>1, <1>2, <1>5, <1>6, <1>9, <2>1, Adds
  <2>3. LandsOK("listen", NotWhole(p), providers', agents', plans', events')
    BY <1>1, <1>2, <2>2, NotWholeStops, Stops
  <2> QED
    BY <1>2, <1>9, <2>2, <2>3, Writes
<1>10. CASE /\ agents' = Append(agents, new) /\ ProviderID(p) # 0
            /\ Wrote(p, "link", [proc[p] EXCEPT !.made = Len(agents) + 1])
  <2> DEFINE a == Len(agents) + 1
             r == [proc[p] EXCEPT !.made = a]
  <2>1. clash' \in BOOLEAN
    BY <1>10 DEF Wrote
  <2>2. /\ StoreOK' /\ Grows(providers, agents, providers', agents') /\ (~clash => Unique(providers', agents'))
        /\ a \in DOMAIN agents' /\ agents'[a] = new /\ a \notin DOMAIN agents
        /\ a \in Nat /\ a # 0
        /\ \A b \in DOMAIN agents : b \in DOMAIN agents' /\ agents'[b] = agents[b]
        /\ \A b \in DOMAIN agents' : b \in DOMAIN agents \/ b = a
    BY <1>1, <1>2, <1>5, <1>6, <1>10, <2>1, Adds
  <2>3. /\ DOMAIN r = Shape /\ r.file = proc[p].file /\ r.prov = proc[p].prov /\ r.whole = proc[p].whole
        /\ r.late = proc[p].late /\ r.agent = proc[p].agent /\ r.made = a
        /\ r.i = proc[p].i /\ r.todo = proc[p].todo /\ r.agency = proc[p].agency /\ r.boots = proc[p].boots
    BY <1>1 DEF Shape
  <2>4. Wrote(p, "link", r)
    BY <1>10
  <2> HIDE DEF r, a
  <2>5. Entry(r) = s /\ Hand(r) = a
    BY <1>4, <2>2, <2>3 DEF Entry, Hand
  <2>6. FieldsOK(r)
    <3>1. /\ r.todo \subseteq proc[p].todo /\ r.made \in Nat /\ r.prov \in Seq(Nat)
          /\ r.agent \in Seq(Nat)
      BY <1>3, <2>2, <2>3 DEF FieldsOK
    <3> QED
      BY <1>3, <2>3, <3>1, SameFields
  <2>7. IdsOK(r, providers', agents')
    BY <1>1, <1>3, <2>2, <2>3 DEF IdsOK
  <2>8. CountOK("link", r, events')
    BY <1>2, <1>3, <2>3 DEF CountOK
  <2>9. PlaceOK("link", r, agents')
    <3>1. s.provider # 0
      BY <1>10 DEF ProviderID, s
    <3> QED
      BY <1>3, <1>4, <1>5, <2>2, <2>3, <2>5, <3>1 DEF PlaceOK, Looping, Places, Booting
  <2>10. ~clash => Missing("link", r, providers', agents')
    <3> SUFFICES ASSUME ~clash, NEW k \in DOMAIN r.agent, r.agent[k] = 0, k # r.i, OneAgent(r.file.agents[k].name)
                 PROVE  Nobody(r.file.agents[k].name, agents')
      BY <2>2, <2>3 DEF Missing, Looping
    <3>1. Nobody(r.file.agents[k].name, agents)
      BY <1>3, <2>3 DEF Missing, Looping
    <3>2. s.name # r.file.agents[k].name
      BY <1>4, <2>3, OnceApart, OneAgentOnce DEF Entry
    <3> QED
      BY <1>5, <2>2, <3>1, <3>2 DEF Nobody
  <2>11. r.whole => Done("link", r, providers', agents', plans')
    <3>1. SUFFICES ASSUME r.whole PROVE Done("link", r, providers', agents', plans')
      OBVIOUS
    <3>2. SettledTo(r.i - 1, r, providers, agents)
      BY <1>3, <2>3, <3>1 DEF Done, SettledTo, Single, Looping
    <3>3. r.i <= Len(r.file.agents)
      BY <1>4, <2>3
    <3>4. SettledTo(r.i - 1, r, providers', agents')
      BY <1>1, <2>2, <2>6, <3>2, <3>3, KeepsSettled
    <3>5. Limited(Entry(r), Hand(r), agents') /\ agents'[Hand(r)].edges = {}
      BY <1>5, <2>2, <2>5 DEF Limited
    <3> QED
      BY <3>4, <3>5 DEF Done, Looping
  <2>12. LandsOK("link", r, providers', agents', plans', events')
    BY <2>3, <2>6, <2>7, <2>8, <2>9, <2>10, <2>11 DEF LandsOK
  <2> QED
    BY <1>2, <2>2, <2>4, <2>12, Writes
<1> QED
  BY <1>7, <1>8, <1>9, <1>10

\* Another value ent for the entity a.
LEMMA Sets ==
  ASSUME AllInv, NEW a \in DOMAIN agents, NEW ent \in Entities, ent.name = agents[a].name,
         ent.live => agents[a].live, \A e \in ent.edges : e.to <= Len(providers),
         agents' = [agents EXCEPT ![a] = ent], events' \in 0 .. MaxEvents,
         UNCHANGED file, UNCHANGED providers, UNCHANGED plans, UNCHANGED hand
  PROVE  /\ StoreOK' \/ clash' \notin BOOLEAN
         /\ Grows(providers, agents, providers', agents')
         /\ ~clash => Unique(providers', agents')
         /\ DOMAIN agents' = DOMAIN agents /\ agents'[a] = ent
         /\ \A b \in DOMAIN agents : b # a => agents'[b] = agents[b]
<1>1. StoreOK
  BY DEF AllInv, TypeInv
<1>2. agents \in Seq(Entities)
  BY <1>1 DEF StoreOK
<1>3. Len(agents) \in Nat /\ DOMAIN agents = 1 .. Len(agents)
  BY <1>2, LenProperties
<1>4. a \in 1 .. Len(agents)
  BY <1>3
<1>5. agents' \in Seq(Entities) /\ Len(agents') = Len(agents)
  BY <1>2, <1>4, ExceptSeq
<1>6. /\ DOMAIN agents' = DOMAIN agents /\ agents'[a] = ent
      /\ \A b \in DOMAIN agents : b # a => agents'[b] = agents[b]
  OBVIOUS
<1>7. \A b \in DOMAIN agents' : \A e \in agents'[b].edges : e.to <= Len(providers)
  BY <1>1, <1>6 DEF StoreOK
<1>8. StoreOK' \/ clash' \notin BOOLEAN
  BY <1>1, <1>5, <1>7 DEF StoreOK
<1>9. Grows(providers, agents, providers', agents')
  BY <1>6 DEF Grows
<1>10. ~clash => Unique(providers', agents')
  <2>1. ~clash => Unique(providers, agents)
    BY DEF AllInv, NameInv
  <2>2. \A b \in DOMAIN agents : agents'[b].name = agents[b].name /\ (agents'[b].live => agents[b].live)
    BY <1>6
  <2> QED
    BY <1>6, <2>1, <2>2 DEF Unique
<1> QED
  BY <1>6, <1>8, <1>9, <1>10

\* One more agent is settled.
LEMMA OneMoreSettled ==
  ASSUME NEW r, NEW r2, NEW ps, NEW as, FieldsOK(r), r.i <= Len(r.file.agents), SettledTo(r.i - 1, r, ps, as),
         r2.file = r.file, r2.i = r.i + 1,
         \A k \in DOMAIN r.file.agents : k # r.i => r2.agent[k] = r.agent[k],
         r2.agent[r.i] # 0, Settled(r.file, Entry(r), r2.agent[r.i], ps, as)
  PROVE  SettledTo(r2.i - 1, r2, ps, as)
<1> SUFFICES ASSUME NEW j \in 1 .. (r2.i - 1)
             PROVE  /\ r2.agent[j] # 0
                    /\ Single(r2, j) => Settled(r2.file, r2.file.agents[j], r2.agent[j], ps, as)
  BY DEF SettledTo
<1>1. j \in DOMAIN r.file.agents /\ j \in 1 .. r.i /\ r.i \in Nat
  BY FileFields DEF FieldsOK
<1>2. CASE j = r.i
  BY <1>2 DEF Entry
<1>3. CASE j # r.i
  <2>1. j \in 1 .. (r.i - 1)
    BY <1>1, <1>3
  <2> QED
    BY <1>1, <1>3, <2>1 DEF SettledTo, Single
<1> QED
  BY <1>2, <1>3

\* The id of the declared provider, if the file declares it.
LEMMA ProviderKnown ==
  ASSUME AllInv, NEW p \in Procs, proc[p].at \in Looping
  PROVE  LET s == Entry(proc[p]) IN
    /\ ProviderID(p) # 0 <=> s.provider # 0
    /\ ProviderID(p) # 0 => /\ ProviderID(p) \in DOMAIN providers
                            /\ providers[ProviderID(p)] = proc[p].file.providers[s.provider]
<1> DEFINE k == Entry(proc[p]).provider
<1>1. /\ ~Unknown(proc[p].prov) /\ proc[p].file \in Files /\ IdsOK(proc[p], providers, agents)
      /\ DOMAIN proc[p].prov = DOMAIN proc[p].file.providers /\ proc[p].i \in DOMAIN proc[p].file.agents
  BY AtHand, FileFields DEF PlaceOK, FieldsOK
<1>2. k # 0 => k \in DOMAIN proc[p].prov
  BY <1>1, FileFields DEF Entry
<1>3. ProviderID(p) = IF k = 0 THEN 0 ELSE proc[p].prov[k]
  BY DEF ProviderID, Declared, Entry
<1> HIDE DEF k
<1>4. k # 0 => proc[p].prov[k] # 0
  BY <1>1, <1>2 DEF Unknown
<1>5. k # 0 => /\ proc[p].prov[k] \in DOMAIN providers
               /\ providers[proc[p].prov[k]] = proc[p].file.providers[k]
  BY <1>1, <1>2, <1>4 DEF IdsOK
<1> QED
  BY <1>3, <1>4, <1>5 DEF k

\* What holds of a replica whose loop is at an agent that exists.
LEMMA InLoop ==
  ASSUME AllInv, NEW p \in Procs, proc[p].at \in {"write", "edges", "unlink", "link"}
  PROVE  /\ Declared(p) = Entry(proc[p]) /\ Hand(proc[p]) \in DOMAIN agents
         /\ proc[p].made = 0 => Hand(proc[p]) = proc[p].agent[proc[p].i]
         /\ agents[Hand(proc[p])].name = Entry(proc[p]).name /\ agents[Hand(proc[p])] \in Entities
         /\ Entry(proc[p]).name \in AgentNames /\ Entry(proc[p]).limit \in 0 .. MaxLimit
         /\ proc[p].i \in 1 .. Len(proc[p].file.agents) /\ proc[p].i <= Len(proc[p].file.agents)
         /\ proc[p].i + 1 \in 1 .. (Len(proc[p].file.agents) + 1)
         /\ \A e \in agents[Hand(proc[p])].edges : e.to <= Len(providers)
         /\ Len(providers) \in Nat /\ DOMAIN providers = 1 .. Len(providers)
         /\ ~Unknown(proc[p].prov) /\ proc[p].i \in DOMAIN proc[p].file.agents
         /\ DOMAIN proc[p].prov = DOMAIN proc[p].file.providers
         /\ DOMAIN proc[p].agent = DOMAIN proc[p].file.agents
<1>1. proc[p].at \in Looping /\ proc[p].at # "create"
  BY DEF Looping
<1>2. /\ Declared(p) = Entry(proc[p]) /\ (proc[p].made = 0 => Hand(proc[p]) = proc[p].agent[proc[p].i])
  BY DEF Declared, Entry, Hand
<1>3. /\ Hand(proc[p]) \in DOMAIN agents /\ agents[Hand(proc[p])].name = Entry(proc[p]).name
      /\ Entry(proc[p]).name \in AgentNames /\ Entry(proc[p]).limit \in 0 .. MaxLimit
  BY <1>1, AtHand, HandKnown
<1>4. StoreOK
  BY DEF AllInv, TypeInv
<1>5. agents \in Seq(Entities) /\ providers \in Seq(ProviderNames)
  BY <1>4 DEF StoreOK
<1>6. agents[Hand(proc[p])] \in Entities
  BY <1>3, <1>5, LenProperties
<1>7. \A e \in agents[Hand(proc[p])].edges : e.to <= Len(providers)
  BY <1>3, <1>4 DEF StoreOK
<1>8. Len(providers) \in Nat /\ DOMAIN providers = 1 .. Len(providers)
  BY <1>5, LenProperties
<1>9. /\ proc[p].i \in 1 .. Len(proc[p].file.agents) /\ proc[p].i <= Len(proc[p].file.agents)
      /\ proc[p].i + 1 \in 1 .. (Len(proc[p].file.agents) + 1)
  BY <1>1, AtHand, FileFields DEF PlaceOK, FieldsOK
<1>10. /\ ~Unknown(proc[p].prov) /\ proc[p].i \in DOMAIN proc[p].file.agents
       /\ DOMAIN proc[p].prov = DOMAIN proc[p].file.providers
       /\ DOMAIN proc[p].agent = DOMAIN proc[p].file.agents
  BY <1>1, AtHand, FileFields DEF PlaceOK, FieldsOK, Looping
<1> QED
  BY <1>2, <1>3, <1>6, <1>7, <1>8, <1>9, <1>10

LEMMA WritesAgent == ASSUME AllInv, NEW p \in Procs, WriteAgent(p) PROVE AllInv'
<1> USE DEF At
<1> DEFINE s == Entry(proc[p])
           a == Hand(proc[p])
           ent == [agents[a] EXCEPT !.limit = IF s.limit = 0 THEN @ ELSE s.limit]
           r == [proc[p] EXCEPT !.i = NextAgent(p)]
<1>1. /\ proc[p].at = "write" /\ DOMAIN proc[p] = Shape
      /\ UNCHANGED file /\ UNCHANGED providers /\ UNCHANGED plans /\ UNCHANGED hand
  BY AtHand DEF WriteAgent
<1>2. events \in Nat /\ events' \in Nat /\ events' \in 0 .. MaxEvents /\ events <= events'
  BY CallsCount DEF WriteAgent
<1>3. /\ FieldsOK(proc[p]) /\ IdsOK(proc[p], providers, agents) /\ proc[p].made = 0
      /\ CountOK("write", proc[p], events) /\ PlaceOK("write", proc[p], agents)
      /\ ~clash => AllKnown(proc[p], agents)
      /\ proc[p].whole => SettledTo(proc[p].i - 1, proc[p], providers, agents)
  BY <1>1, AtHand DEF PlaceOK, Missing, Done, Looping, AllKnown
<1>4. Declared(p) = s /\ a = proc[p].agent[proc[p].i] /\ a \in DOMAIN agents
  BY <1>1, <1>3, InLoop
<1>5. \/ UNCHANGED agents /\ Skip(p)
      \/ /\ agents[a].live /\ agents' = [agents EXCEPT ![a] = ent]
         /\ \/ ProviderID(p) # 0 /\ Wrote(p, "edges", proc[p])
            \/ ProviderID(p) = 0 /\ Wrote(p, Onward(p), r)
            \/ Wrote(p, Onward(p), Skipped(p))
  BY <1>4 DEF WriteAgent
<1>6. CASE UNCHANGED agents /\ Skip(p)
  <2>1. Answered(p) \/ Refused(p)
    BY DEF WriteAgent
  <2> QED
    BY <1>1, <1>6, <2>1, Skips DEF store
<1>7. ASSUME agents[a].live, agents' = [agents EXCEPT ![a] = ent], clash' \in BOOLEAN
      PROVE  /\ StoreOK' /\ Grows(providers, agents, providers', agents') /\ (~clash => Unique(providers', agents'))
             /\ DOMAIN agents' = DOMAIN agents /\ agents'[a] = ent
             /\ \A b \in DOMAIN agents : b # a => agents'[b] = agents[b]
             /\ ent.name = s.name /\ Limited(s, a, agents')
             /\ IdsOK(proc[p], providers', agents') /\ (~clash => AllKnown(proc[p], agents'))
             /\ proc[p].whole => SettledTo(proc[p].i - 1, proc[p], providers', agents')
  <2>1. /\ agents[a] \in Entities /\ agents[a].name = s.name /\ s.limit \in 0 .. MaxLimit
        /\ \A e \in agents[a].edges : e.to <= Len(providers)
    BY <1>1, InLoop
  <2>2. /\ ent \in Entities /\ ent.name = agents[a].name /\ ent.live = agents[a].live /\ ent.edges = agents[a].edges
        /\ (s.limit # 0 => ent.limit = s.limit)
    BY <2>1 DEF Entities
  <2> HIDE DEF ent, a, s
  <2>3. /\ StoreOK' /\ Grows(providers, agents, providers', agents') /\ (~clash => Unique(providers', agents'))
        /\ DOMAIN agents' = DOMAIN agents /\ agents'[a] = ent
        /\ \A b \in DOMAIN agents : b # a => agents'[b] = agents[b]
    BY <1>1, <1>2, <1>4, <1>7, <2>1, <2>2, Sets
  <2>4. \A b \in DOMAIN agents : agents'[b].name = agents[b].name /\ agents'[b].live = agents[b].live
    BY <2>2, <2>3
  <2>5. Limited(s, a, agents')
    BY <1>4, <1>7, <2>1, <2>2, <2>3 DEF Limited
  <2>6. IdsOK(proc[p], providers', agents') /\ (~clash => AllKnown(proc[p], agents'))
    <3>1. IdsOK(proc[p], providers', agents')
      BY <1>3, <2>3, IdsLast
    <3>2. \A n : Nobody(n, agents) => Nobody(n, agents')
      BY <2>3, <2>4 DEF Nobody
    <3> QED
      BY <1>3, <3>1, <3>2 DEF AllKnown
  <2>7. proc[p].whole => SettledTo(proc[p].i - 1, proc[p], providers', agents')
    <3>1. proc[p].i <= Len(proc[p].file.agents) /\ (a \in DOMAIN agents => agents[a].name = Entry(proc[p]).name)
      BY <1>1, <2>1, InLoop DEF s
    <3> QED
      BY <1>1, <1>3, <2>3, <3>1, KeepsSettled
  <2> QED
    BY <2>1, <2>2, <2>3, <2>5, <2>6, <2>7
<1>8. CASE /\ agents[a].live /\ agents' = [agents EXCEPT ![a] = ent]
           /\ ProviderID(p) # 0 /\ Wrote(p, "edges", proc[p])
  <2>1. clash' \in BOOLEAN
    BY <1>8 DEF Wrote
  <2>2. Entry(proc[p]).provider # 0
    BY <1>1, <1>8, ProviderKnown DEF Looping
  <2> HIDE DEF ent
  <2>3. PlaceOK("edges", proc[p], agents')
    BY <1>3, <1>4, <1>7, <1>8, <2>1, <2>2 DEF PlaceOK, Looping, Places, Booting
  <2>4. ~clash => Missing("edges", proc[p], providers', agents')
    BY <1>7, <1>8, <2>1 DEF Missing, AllKnown, Looping
  <2>5. proc[p].whole => Done("edges", proc[p], providers', agents', plans')
    BY <1>7, <1>8, <2>1 DEF Done, Looping
  <2>6. CountOK("edges", proc[p], events')
    BY <1>2, <1>3 DEF CountOK
  <2>7. LandsOK("edges", proc[p], providers', agents', plans', events')
    BY <1>1, <1>3, <1>7, <1>8, <2>1, <2>3, <2>4, <2>5, <2>6 DEF LandsOK
  <2> QED
    BY <1>2, <1>7, <1>8, <2>1, <2>7, Writes
<1>9. CASE /\ agents[a].live /\ agents' = [agents EXCEPT ![a] = ent]
           /\ ProviderID(p) = 0 /\ Wrote(p, Onward(p), r)
  <2>1. clash' \in BOOLEAN
    BY <1>9 DEF Wrote
  <2>2. Entry(proc[p]).provider = 0
    BY <1>1, <1>9, ProviderKnown DEF Looping
  <2>3. /\ DOMAIN r = Shape /\ r.file = proc[p].file /\ r.prov = proc[p].prov /\ r.whole = proc[p].whole
        /\ r.late = proc[p].late /\ r.agent = proc[p].agent /\ r.made = 0
        /\ r.i = proc[p].i + 1 /\ r.todo = proc[p].todo /\ r.agency = proc[p].agency /\ r.boots = proc[p].boots
    BY <1>1, <1>3 DEF Shape, NextAgent
  <2> HIDE DEF r, ent
  <2>4. /\ ~Unknown(r.prov) /\ DOMAIN r.prov = DOMAIN r.file.providers
        /\ DOMAIN r.agent = DOMAIN r.file.agents
    BY <1>1, <2>3, InLoop
  <2>5. FieldsOK(r)
    <3>1. /\ r.todo \subseteq proc[p].todo /\ r.made \in Nat /\ r.prov \in Seq(Nat)
          /\ r.agent \in Seq(Nat) /\ r.i \in 1 .. (Len(proc[p].file.agents) + 1)
      BY <1>1, <1>3, <2>3, InLoop DEF FieldsOK
    <3> QED
      BY <1>3, <2>3, <3>1, SameFields
  <2>6. IdsOK(r, providers', agents') /\ CountOK("create", r, events') /\ (~clash => AllKnown(r, agents'))
    <3>1. IdsOK(r, providers', agents')
      BY <1>7, <1>9, <2>1, <2>3, IdsLast DEF Grows
    <3>2. CountOK("create", r, events')
      BY <1>2, <1>3, <2>3 DEF CountOK
    <3>3. ~clash => AllKnown(r, agents')
      BY <1>7, <1>9, <2>1, <2>3 DEF AllKnown
    <3> QED
      BY <3>1, <3>2, <3>3
  <2>7. r.whole => SettledTo(r.i - 1, r, providers', agents')
    <3>1. r.agent[proc[p].i] # 0 /\ Settled(proc[p].file, s, r.agent[proc[p].i], providers', agents')
      BY <1>3, <1>4, <1>7, <1>9, <2>1, <2>2, <2>3 DEF Settled, Attached, PlaceOK
    <3>2. proc[p].i <= Len(proc[p].file.agents)
      BY <1>1, InLoop
    <3> QED
      BY <1>3, <1>7, <1>9, <2>1, <2>3, <3>1, <3>2, OneMoreSettled
  <2>8. Onward(p) = Loop(r)
    BY <2>3, <2>4, <2>5, LoopIsAgentAt DEF Onward, NextAgent
  <2>9. LandsOK(Loop(r), r, providers', agents', plans', events')
    BY <2>3, <2>4, <2>5, <2>6, <2>7, LoopsOn
  <2> QED
    BY <1>2, <1>7, <1>9, <2>1, <2>8, <2>9, Writes
<1>10. CASE /\ agents[a].live /\ agents' = [agents EXCEPT ![a] = ent]
            /\ Wrote(p, Onward(p), Skipped(p))
  <2>1. clash' \in BOOLEAN
    BY <1>10 DEF Wrote
  <2> HIDE DEF ent
  <2>2. LandsOK(Onward(p), Skipped(p), providers', agents', plans', events')
    BY <1>1, <1>2, <1>3, <1>7, <1>10, <2>1, SkippedLands
  <2> QED
    BY <1>2, <1>7, <1>10, <2>1, <2>2, Writes
<1> QED
  BY <1>5, <1>6, <1>8, <1>9, <1>10

LEMMA ListsEdges == ASSUME AllInv, NEW p \in Procs, ListEdges(p) PROVE AllInv'
<1> USE DEF At
<1> DEFINE s == Entry(proc[p])
           a == Hand(proc[p])
           es == agents[a].edges
           l == IF es = {} THEN "link" ELSE "unlink"
           r == [proc[p] EXCEPT !.old = es]
<1>1. proc[p].at = "edges" /\ DOMAIN proc[p] = Shape /\ UNCHANGED <<file, store, hand>>
  BY AtHand DEF ListEdges
<1>2. events \in Nat /\ events' \in Nat /\ events' \in 0 .. MaxEvents /\ events <= events'
  BY CallsCount DEF ListEdges
<1>3. /\ FieldsOK(proc[p]) /\ IdsOK(proc[p], providers, agents) /\ proc[p].made = 0
      /\ CountOK("edges", proc[p], events) /\ PlaceOK("edges", proc[p], agents)
      /\ ~clash => Missing("edges", proc[p], providers, agents)
      /\ proc[p].whole => Done("edges", proc[p], providers, agents, plans)
  BY <1>1, AtHand DEF PlaceOK
<1>4. a = proc[p].agent[proc[p].i]
  BY <1>1, <1>3, InLoop
<1>5. Skip(p) \/ Go(p, l, r)
  BY <1>4 DEF ListEdges
<1>6. CASE Skip(p)
  <2>1. Answered(p) \/ Refused(p)
    BY DEF ListEdges
  <2> QED
    BY <1>1, <1>6, <2>1, Skips
<1>7. CASE Go(p, l, r)
  <2>1. /\ DOMAIN r = Shape /\ r.file = proc[p].file /\ r.prov = proc[p].prov /\ r.whole = proc[p].whole
        /\ r.late = proc[p].late /\ r.agent = proc[p].agent /\ r.made = 0
        /\ r.i = proc[p].i /\ r.todo = proc[p].todo /\ r.agency = proc[p].agency /\ r.boots = proc[p].boots
        /\ r.old = es
    BY <1>1, <1>3 DEF Shape
  <2>2. l \in {"unlink", "link"} /\ (l = "link" => es = {})
    OBVIOUS
  <2>3. Entry(r) = s /\ Hand(r) = a
    BY <1>3, <2>1 DEF Entry, Hand
  <2> HIDE DEF r, l, s, a
  <2>4. FieldsOK(r)
    <3>1. /\ r.todo \subseteq proc[p].todo /\ r.made \in Nat /\ r.prov \in Seq(Nat)
          /\ r.agent \in Seq(Nat)
      BY <1>3, <2>1 DEF FieldsOK
    <3> QED
      BY <1>3, <2>1, <3>1, SameFields
  <2>5. IdsOK(r, providers, agents) /\ CountOK(l, r, events')
    BY <1>2, <1>3, <2>1, <2>2 DEF IdsOK, CountOK
  <2>6. PlaceOK(l, r, agents)
    BY <1>3, <2>1, <2>2, <2>3 DEF PlaceOK, Looping, Places, Booting, s, a
  <2>7. ~clash => Missing(l, r, providers, agents)
    BY <1>3, <2>1, <2>2 DEF Missing, Looping
  <2>8. r.whole => Done(l, r, providers, agents, plans)
    BY <1>3, <2>1, <2>2, <2>3 DEF Done, SettledTo, Single, Looping, s, a
  <2>9. LandsOK(l, r, providers, agents, plans, events')
    BY <2>1, <2>4, <2>5, <2>6, <2>7, <2>8 DEF LandsOK
  <2> QED
    BY <1>1, <1>2, <1>7, <2>9, Goes
<1> QED
  BY <1>5, <1>6, <1>7

\* The entity at hand gets other edges.
WithEdges(ent, es) == [ent EXCEPT !.edges = es]
EdgesSet(p, es) ==
  /\ es \in SUBSET Edges /\ \A e \in es : e.to <= Len(providers)
  /\ agents' = [agents EXCEPT ![Hand(proc[p])] = WithEdges(agents[Hand(proc[p])], es)]
  /\ events' \in 0 .. MaxEvents /\ clash' \in BOOLEAN
  /\ file' = file /\ providers' = providers /\ plans' = plans /\ hand' = hand

LEMMA SetsEdges ==
  ASSUME AllInv, NEW p \in Procs, proc[p].at \in {"unlink", "link"}, NEW es, EdgesSet(p, es)
  PROVE  /\ StoreOK' /\ Grows(providers, agents, providers', agents') /\ (~clash => Unique(providers', agents'))
         /\ Hand(proc[p]) \in DOMAIN agents'
         /\ agents'[Hand(proc[p])].edges = es /\ agents'[Hand(proc[p])].name = Entry(proc[p]).name
         /\ IdsOK(proc[p], providers', agents')
         /\ \A n : Nobody(n, agents) => Nobody(n, agents')
         /\ proc[p].whole => /\ SettledTo(proc[p].i - 1, proc[p], providers', agents')
                             /\ Limited(Entry(proc[p]), Hand(proc[p]), agents')
<1> DEFINE s == Entry(proc[p])
           a == Hand(proc[p])
           ent == WithEdges(agents[a], es)
<1>1. /\ a \in DOMAIN agents /\ agents[a] \in Entities /\ agents[a].name = s.name
      /\ proc[p].i <= Len(proc[p].file.agents)
  BY InLoop
<1>2. /\ ent \in Entities /\ ent.name = agents[a].name /\ ent.live = agents[a].live /\ ent.edges = es
      /\ ent.limit = agents[a].limit
  BY <1>1 DEF Entities, WithEdges, EdgesSet
<1>3. /\ agents' = [agents EXCEPT ![a] = ent] /\ \A e \in ent.edges : e.to <= Len(providers)
      /\ events' \in 0 .. MaxEvents /\ clash' \in BOOLEAN
      /\ file' = file /\ providers' = providers /\ plans' = plans /\ hand' = hand
  BY <1>2 DEF EdgesSet
<1>4. /\ FieldsOK(proc[p]) /\ IdsOK(proc[p], providers, agents)
      /\ proc[p].whole => SettledTo(proc[p].i - 1, proc[p], providers, agents) /\ Limited(s, a, agents)
  BY AtHand DEF Done, Looping
<1> HIDE DEF ent, a, s
<1>5. /\ StoreOK' /\ Grows(providers, agents, providers', agents') /\ (~clash => Unique(providers', agents'))
      /\ DOMAIN agents' = DOMAIN agents /\ agents'[a] = ent
      /\ \A b \in DOMAIN agents : b # a => agents'[b] = agents[b]
  BY <1>1, <1>2, <1>3, Sets
<1>6. \A b \in DOMAIN agents : agents'[b].name = agents[b].name /\ agents'[b].live = agents[b].live
  BY <1>2, <1>5
<1>7. IdsOK(proc[p], providers', agents')
  BY <1>3, <1>4, <1>5, <1>6 DEF IdsOK
<1>8. proc[p].whole => SettledTo(proc[p].i - 1, proc[p], providers', agents')
  BY <1>1, <1>3, <1>4, <1>5, KeepsSettled DEF s
<1>9. proc[p].whole => Limited(s, a, agents')
  BY <1>1, <1>2, <1>4, <1>5 DEF Limited
<1>10. \A n : Nobody(n, agents) => Nobody(n, agents')
  BY <1>5, <1>6 DEF Nobody
<1> QED
  BY <1>1, <1>2, <1>5, <1>7, <1>8, <1>9, <1>10 DEF s, a

LEMMA Unlinks == ASSUME AllInv, NEW p \in Procs, Unlink(p) PROVE AllInv'
<1> USE DEF At
<1> DEFINE s == Entry(proc[p])
           a == Hand(proc[p])
<1>1. /\ proc[p].at = "unlink" /\ DOMAIN proc[p] = Shape
      /\ UNCHANGED file /\ UNCHANGED providers /\ UNCHANGED plans /\ UNCHANGED hand
  BY AtHand DEF Unlink
<1>2. events \in Nat /\ events' \in Nat /\ events' \in 0 .. MaxEvents /\ events <= events'
  BY CallsCount DEF Unlink
<1>3. /\ FieldsOK(proc[p]) /\ IdsOK(proc[p], providers, agents) /\ proc[p].made = 0
      /\ CountOK("unlink", proc[p], events) /\ PlaceOK("unlink", proc[p], agents)
      /\ ~clash => Missing("unlink", proc[p], providers, agents)
      /\ proc[p].whole => Done("unlink", proc[p], providers, agents, plans)
  BY <1>1, AtHand DEF PlaceOK
<1>4. a = proc[p].agent[proc[p].i]
  BY <1>1, <1>3, InLoop
<1>5. \/ UNCHANGED agents /\ Skip(p)
      \/ \E e \in proc[p].old \cap agents[a].edges :
           /\ agents' = [agents EXCEPT ![a].edges = agents[a].edges \ {e}]
           /\ \/ Wrote(p, IF proc[p].old = {e} THEN "link" ELSE "unlink", [proc[p] EXCEPT !.old = proc[p].old \ {e}])
              \/ Wrote(p, Onward(p), Skipped(p))
  BY <1>4 DEF Unlink
<1>6. CASE UNCHANGED agents /\ Skip(p)
  <2>1. Answered(p) \/ Refused(p)
    BY DEF Unlink
  <2> QED
    BY <1>1, <1>6, <2>1, Skips DEF store
<1>7. ASSUME NEW e \in proc[p].old \cap agents[a].edges,
             agents' = [agents EXCEPT ![a].edges = agents[a].edges \ {e}],
             Wrote(p, IF proc[p].old = {e} THEN "link" ELSE "unlink", [proc[p] EXCEPT !.old = proc[p].old \ {e}])
      PROVE  AllInv'
  <2> DEFINE es == agents[a].edges \ {e}
             l == IF proc[p].old = {e} THEN "link" ELSE "unlink"
             r == [proc[p] EXCEPT !.old = proc[p].old \ {e}]
  <2>1. Wrote(p, l, r) /\ clash' \in BOOLEAN
    BY <1>7 DEF Wrote
  <2>2. EdgesSet(p, es)
    <3>1. agents[a] \in Entities /\ \A x \in agents[a].edges : x.to <= Len(providers)
      BY <1>1, InLoop
    <3> QED
      BY <1>1, <1>2, <1>7, <2>1, <3>1 DEF Entities, WithEdges, EdgesSet
  <2>4. /\ DOMAIN r = Shape /\ r.file = proc[p].file /\ r.prov = proc[p].prov /\ r.whole = proc[p].whole
        /\ r.late = proc[p].late /\ r.agent = proc[p].agent /\ r.made = 0
        /\ r.i = proc[p].i /\ r.todo = proc[p].todo /\ r.agency = proc[p].agency /\ r.boots = proc[p].boots
        /\ r.old = proc[p].old \ {e}
    BY <1>1, <1>3 DEF Shape
  <2>5. l \in {"unlink", "link"} /\ (l = "link" => proc[p].old \ {e} = {})
    OBVIOUS
  <2>7. proc[p].whole => es = proc[p].old \ {e}
    BY <1>3 DEF Done
  <2> HIDE DEF r, l
  <2>3. /\ StoreOK' /\ Grows(providers, agents, providers', agents') /\ (~clash => Unique(providers', agents'))
        /\ agents'[a].edges = es /\ agents'[a].name = s.name /\ IdsOK(proc[p], providers', agents')
        /\ \A n : Nobody(n, agents) => Nobody(n, agents')
        /\ proc[p].whole => SettledTo(proc[p].i - 1, proc[p], providers', agents') /\ Limited(s, a, agents')
    <3>1. proc[p].at \in {"unlink", "link"}
      BY <1>1
    <3> HIDE DEF es
    <3> QED
      BY <2>2, <3>1, SetsEdges
  <2>6. Entry(r) = s /\ Hand(r) = a
    BY <1>3, <2>4 DEF Entry, Hand
  <2> HIDE DEF s, a, es
  <2>8. FieldsOK(r)
    <3>1. /\ r.todo \subseteq proc[p].todo /\ r.made \in Nat /\ r.prov \in Seq(Nat)
          /\ r.agent \in Seq(Nat)
      BY <1>3, <2>4 DEF FieldsOK
    <3> QED
      BY <1>3, <2>4, <3>1, SameFields
  <2>9. IdsOK(r, providers', agents') /\ CountOK(l, r, events')
    BY <1>2, <1>3, <2>3, <2>4, <2>5 DEF IdsOK, CountOK
  <2>10. PlaceOK(l, r, agents')
    BY <1>3, <2>3, <2>4, <2>5, <2>6 DEF PlaceOK, Looping, Places, Booting, s, a
  <2>11. ~clash => Missing(l, r, providers', agents')
    BY <1>3, <2>3, <2>4, <2>5 DEF Missing, Looping
  <2>12. r.whole => Done(l, r, providers', agents', plans')
    BY <2>3, <2>4, <2>5, <2>6, <2>7 DEF Done, SettledTo, Single, Looping
  <2>13. LandsOK(l, r, providers', agents', plans', events')
    BY <2>4, <2>8, <2>9, <2>10, <2>11, <2>12 DEF LandsOK
  <2> QED
    BY <1>2, <2>1, <2>3, <2>13, Writes
<1>8. ASSUME NEW e \in proc[p].old \cap agents[a].edges,
             agents' = [agents EXCEPT ![a].edges = agents[a].edges \ {e}],
             Wrote(p, Onward(p), Skipped(p))
      PROVE  AllInv'
  <2> DEFINE es == agents[a].edges \ {e}
  <2>1. clash' \in BOOLEAN
    BY <1>8 DEF Wrote
  <2>2. EdgesSet(p, es)
    <3>1. agents[a] \in Entities /\ \A x \in agents[a].edges : x.to <= Len(providers)
      BY <1>1, InLoop
    <3> QED
      BY <1>1, <1>2, <1>8, <2>1, <3>1 DEF Entities, WithEdges, EdgesSet
  <2>3. /\ StoreOK' /\ Grows(providers, agents, providers', agents') /\ (~clash => Unique(providers', agents'))
        /\ IdsOK(proc[p], providers', agents') /\ \A n : Nobody(n, agents) => Nobody(n, agents')
    <3>1. proc[p].at \in {"unlink", "link"}
      BY <1>1
    <3> HIDE DEF es
    <3> QED
      BY <2>2, <3>1, SetsEdges
  <2>4. ~clash => AllKnown(proc[p], agents')
    BY <1>3, <2>3 DEF Missing, AllKnown, Looping
  <2>5. LandsOK(Onward(p), Skipped(p), providers', agents', plans', events')
    BY <1>1, <1>2, <1>3, <2>3, <2>4, SkippedLands
  <2> QED
    BY <1>2, <1>8, <2>3, <2>5, Writes
<1> QED
  BY <1>5, <1>6, <1>7, <1>8

LEMMA Links == ASSUME AllInv, NEW p \in Procs, Link(p) PROVE AllInv'
<1> USE DEF At
<1> DEFINE s == Entry(proc[p])
           n == s.name
           a == Hand(proc[p])
           known == [proc[p].agent EXCEPT ![proc[p].i] = a]
           edge == [to |-> ProviderID(p), by |-> p, boot |-> proc[p].boots]
           es == agents[a].edges \cup {edge}
           linked == [agents EXCEPT ![a] = WithEdges(agents[a], es)]
           r1 == [proc[p] EXCEPT !.i = NextAgent(p), !.agent = known, !.made = 0]
           r2 == [proc[p] EXCEPT !.made = 0, !.whole = FALSE]
<1>1. /\ proc[p].at = "link" /\ DOMAIN proc[p] = Shape
      /\ UNCHANGED file /\ UNCHANGED providers /\ UNCHANGED plans /\ UNCHANGED hand
  BY AtHand DEF Link
<1>2. events \in Nat /\ events' \in Nat /\ events' \in 0 .. MaxEvents /\ events <= events'
  BY CallsCount DEF Link
<1>3. /\ FieldsOK(proc[p]) /\ IdsOK(proc[p], providers, agents)
      /\ CountOK("link", proc[p], events) /\ PlaceOK("link", proc[p], agents)
      /\ ~clash => Missing("link", proc[p], providers, agents)
      /\ proc[p].whole => Done("link", proc[p], providers, agents, plans)
  BY <1>1, AtHand
<1>4. /\ Declared(p) = s /\ a \in DOMAIN agents /\ agents[a] \in Entities /\ agents[a].name = n
      /\ n \in AgentNames /\ \A e \in agents[a].edges : e.to <= Len(providers)
      /\ ProviderID(p) \in DOMAIN providers /\ providers[ProviderID(p)] = proc[p].file.providers[s.provider]
      /\ Len(providers) \in Nat /\ DOMAIN providers = 1 .. Len(providers)
      /\ proc[p].i + 1 \in 1 .. (Len(proc[p].file.agents) + 1) /\ proc[p].i <= Len(proc[p].file.agents)
      /\ ~Unknown(proc[p].prov) /\ a # 0 /\ proc[p].i \in DOMAIN proc[p].file.agents
      /\ DOMAIN proc[p].prov = DOMAIN proc[p].file.providers /\ DOMAIN proc[p].agent = DOMAIN proc[p].file.agents
      /\ proc[p].file \in Files
  <2>1. s.provider # 0 /\ a # 0 /\ proc[p].file \in Files
    BY <1>3 DEF PlaceOK, FieldsOK
  <2>2. proc[p].at \in Looping
    BY <1>1 DEF Looping
  <2> QED
    BY <1>1, <2>1, <2>2, ProviderKnown, InLoop
<1>5. a = IF proc[p].made # 0 THEN proc[p].made ELSE proc[p].agent[proc[p].i]
  BY <1>4 DEF Hand
<1>6. \/ agents' = linked /\ Wrote(p, Onward(p), r1)
      \/ agents' \in {agents, linked} /\ Wrote(p, "listen", r2)
      \/ proc[p].made = 0 /\ agents' \in {agents, linked} /\ Wrote(p, Onward(p), Skipped(p))
  BY <1>4, <1>5 DEF Link, WithEdges
<1>7. /\ known \in Seq(Nat) /\ DOMAIN known = DOMAIN proc[p].agent /\ known[proc[p].i] = a
      /\ \A k \in DOMAIN known : k # proc[p].i => known[k] = proc[p].agent[k]
  <2>1. proc[p].agent \in Seq(Nat) /\ a \in Nat
    <3>1. agents \in Seq(Entities)
      BY DEF AllInv, TypeInv, StoreOK
    <3> QED
      BY <1>3, <1>4, <3>1, LenProperties DEF FieldsOK
  <2>2. proc[p].i \in DOMAIN proc[p].agent /\ DOMAIN proc[p].agent = 1 .. Len(proc[p].agent)
    BY <1>4, <2>1, LenProperties
  <2> HIDE DEF a, n
  <2>3. known \in Seq(Nat)
    BY <2>1, <2>2, ExceptSeq
  <2> QED
    BY <2>2, <2>3
<1>8. clash' \in BOOLEAN
  BY <1>6 DEF Wrote
<1>9. edge \in Edges /\ edge.to = ProviderID(p)
  <2>1. proc[p].boots \in 1 .. (MaxEvents + 1)
    BY <1>2, <1>3, BoundAssumption DEF CountOK, AllInv, TypeInv, StoreOK
  <2> QED
    BY <1>4, <2>1 DEF Edges
<1> HIDE DEF s, n, a, known
<1>10. ASSUME agents' = linked
       PROVE  EdgesSet(p, es)
  BY <1>1, <1>2, <1>4, <1>8, <1>9, <1>10 DEF EdgesSet, Entities, a
<1> HIDE DEF edge, es, linked, r1, r2
<1>11. ASSUME agents' \in {agents, linked}
       PROVE  /\ StoreOK' /\ Grows(providers, agents, providers', agents') /\ (~clash => Unique(providers', agents'))
              /\ IdsOK(proc[p], providers', agents')
              /\ \A x : Nobody(x, agents) => Nobody(x, agents')
  <2>1. CASE agents' = linked
    <3>1. EdgesSet(p, es) /\ proc[p].at \in {"unlink", "link"}
      BY <1>1, <1>10, <2>1
    <3> QED
      BY <3>1, SetsEdges
  <2>2. CASE agents' = agents
    <3>1. StoreOK /\ (~clash => Unique(providers, agents))
      BY DEF AllInv, TypeInv, NameInv
    <3>2. StoreOK'
      BY <1>1, <1>2, <1>8, <2>2, <3>1 DEF StoreOK
    <3> QED
      BY <1>1, <1>3, <2>2, <3>1, <3>2, NoGrowth
  <2> QED
    BY <1>11, <2>1, <2>2
<1>12. CASE agents' = linked /\ Wrote(p, Onward(p), r1)
  <2>1. /\ DOMAIN r1 = Shape /\ r1.file = proc[p].file /\ r1.prov = proc[p].prov /\ r1.whole = proc[p].whole
        /\ r1.late = proc[p].late /\ r1.agent = known /\ r1.made = 0
        /\ r1.i = proc[p].i + 1 /\ r1.todo = proc[p].todo /\ r1.agency = proc[p].agency /\ r1.boots = proc[p].boots
    BY <1>1 DEF Shape, NextAgent, r1
  <2>2. FieldsOK(r1)
    <3>1. r1.todo \subseteq proc[p].todo /\ r1.made \in Nat /\ r1.prov \in Seq(Nat)
      BY <1>3, <2>1 DEF FieldsOK
    <3> QED
      BY <1>3, <1>4, <1>7, <2>1, <3>1, SameFields
  <2>3. /\ ~Unknown(r1.prov) /\ DOMAIN r1.prov = DOMAIN r1.file.providers
        /\ DOMAIN r1.agent = DOMAIN r1.file.agents
    BY <1>4, <1>7, <2>1
  <2>4. EdgesSet(p, es) /\ proc[p].at \in {"unlink", "link"}
    BY <1>1, <1>10, <1>12
  <2>5. /\ a \in DOMAIN agents' /\ agents'[a].edges = es /\ agents'[a].name = n
        /\ proc[p].whole => SettledTo(proc[p].i - 1, proc[p], providers', agents') /\ Limited(s, a, agents')
    BY <2>4, SetsEdges DEF s, a, n
  <2>6. IdsOK(r1, providers', agents')
    BY <1>4, <1>7, <1>11, <1>12, <2>1, <2>5 DEF IdsOK, n, s, Entry
  <2>7. CountOK("create", r1, events')
    BY <1>2, <1>3, <2>1 DEF CountOK
  <2>8. ~clash => AllKnown(r1, agents')
    <3> SUFFICES ASSUME ~clash, NEW k \in DOMAIN r1.agent, r1.agent[k] = 0, OneAgent(r1.file.agents[k].name)
                 PROVE  Nobody(r1.file.agents[k].name, agents')
      BY DEF AllKnown
    <3>1. k # proc[p].i /\ proc[p].agent[k] = 0 /\ k \in DOMAIN proc[p].agent
      BY <1>4, <1>7, <2>1
    <3>2. Nobody(r1.file.agents[k].name, agents)
      BY <1>3, <2>1, <3>1 DEF Missing, Looping
    <3> QED
      BY <1>11, <1>12, <3>2
  <2>9. r1.whole => SettledTo(r1.i - 1, r1, providers', agents')
    <3>1. SUFFICES ASSUME r1.whole PROVE SettledTo(r1.i - 1, r1, providers', agents')
      OBVIOUS
    <3>2. es = {edge}
      BY <1>3, <2>1, <3>1 DEF Done, es, a
    <3>3. r1.agent[proc[p].i] = a /\ Settled(proc[p].file, s, a, providers', agents')
      BY <1>1, <1>4, <1>7, <1>9, <2>1, <2>5, <3>1, <3>2 DEF Settled, Attached
    <3>4. \A k \in DOMAIN proc[p].file.agents : k # proc[p].i => r1.agent[k] = proc[p].agent[k]
      BY <1>4, <1>7, <2>1
    <3> QED
      BY <1>3, <1>4, <2>1, <2>5, <3>1, <3>3, <3>4, OneMoreSettled DEF s
  <2>10. LandsOK(Loop(r1), r1, providers', agents', plans', events')
    BY <2>1, <2>2, <2>3, <2>6, <2>7, <2>8, <2>9, LoopsOn
  <2>11. AgentAt(r1.i, r1.agent) = Loop(r1)
    BY <2>2, <2>3, LoopIsAgentAt
  <2>12. AgentAt(NextAgent(p), known) = Onward(p)
    <3>1. /\ Len(known) = Len(proc[p].agent) /\ Len(known) \in Nat /\ DOMAIN known = 1 .. Len(known)
          /\ NextAgent(p) \in Nat /\ NextAgent(p) > proc[p].i /\ NextAgent(p) > 0 /\ proc[p].i \in Nat
      <4>1. proc[p].agent \in Seq(Nat) /\ proc[p].i \in 1 .. Len(proc[p].file.agents) /\ proc[p].i \in DOMAIN proc[p].agent
        BY <1>1, <1>3, <1>4, InLoop DEF FieldsOK
      <4>2. /\ Len(known) = Len(proc[p].agent)
            /\ Len(known) \in Nat /\ DOMAIN known = 1 .. Len(known)
        BY <1>7, <4>1, LenProperties, ExceptSeq DEF known
      <4>3. proc[p].i \in Nat
        BY <4>1
      <4> QED
        BY <4>1, <4>2, <4>3 DEF NextAgent
    <3>2. CASE NextAgent(p) > Len(known)
      BY <3>1, <3>2 DEF AgentAt, Onward
    <3>3. CASE NextAgent(p) <= Len(known)
      <4>1. known[NextAgent(p)] = proc[p].agent[NextAgent(p)]
        BY <1>7, <3>1, <3>3
      <4> QED
        BY <3>1, <3>3, <4>1 DEF AgentAt, Onward
    <3> QED
      BY <3>1, <3>2, <3>3
  <2>13. AgentAt(r1.i, r1.agent) = Onward(p)
    BY <2>1, <2>12 DEF NextAgent
  <2> QED
    BY <1>2, <1>11, <1>12, <2>10, <2>11, <2>13, Writes
<1>13. CASE agents' \in {agents, linked} /\ Wrote(p, "listen", r2)
  <2>1. Stopped(r2, p)
    BY <1>1 DEF Stopped, Shape, r2
  <2>2. LandsOK("listen", r2, providers', agents', plans', events')
    BY <1>1, <1>2, <1>11, <1>13, <2>1, Stops
  <2> QED
    BY <1>2, <1>11, <1>13, <2>2, Writes
<1>14. CASE proc[p].made = 0 /\ agents' \in {agents, linked} /\ Wrote(p, Onward(p), Skipped(p))
  <2>1. ~clash => AllKnown(proc[p], agents')
    BY <1>3, <1>11, <1>14 DEF Missing, AllKnown, Looping
  <2>2. LandsOK(Onward(p), Skipped(p), providers', agents', plans', events')
    BY <1>1, <1>2, <1>11, <1>14, <2>1, SkippedLands
  <2> QED
    BY <1>2, <1>11, <1>14, <2>2, Writes
<1> QED
  BY <1>6, <1>12, <1>13, <1>14

\* With every agent settled and every plan wired a boot is done.
LEMMA DoneAtListen ==
  ASSUME NEW r, NEW ps, NEW as, NEW pl, FieldsOK(r), SettledTo(Len(r.file.agents), r, ps, as),
         \A w \in Plans : Wired(w, r, pl)
  PROVE  Done("listen", r, ps, as, pl)
<1>1. ASSUME NEW j \in DOMAIN r.file.agents, Single(r, j)
      PROVE  \E a \in DOMAIN as : Settled(r.file, r.file.agents[j], a, ps, as)
  <2>1. j \in 1 .. Len(r.file.agents)
    BY FileFields DEF FieldsOK
  <2> QED
    BY <1>1, <2>1 DEF SettledTo, Settled, Limited
<1> QED
  BY <1>1 DEF Done, Looping

LEMMA ListsPlans == ASSUME AllInv, NEW p \in Procs, ListPlans(p) PROVE AllInv'
<1> USE DEF At
<1> DEFINE f == proc[p].file
           r == [proc[p] EXCEPT !.todo = Unwired(p)]
           l == IF Unwired(p) = {} THEN "listen" ELSE "wire"
<1>1. proc[p].at = "plans" /\ DOMAIN proc[p] = Shape /\ UNCHANGED <<file, store, hand>>
  BY AtHand DEF ListPlans
<1>2. events \in Nat /\ events' \in Nat /\ events' \in 0 .. MaxEvents /\ events <= events'
  BY CallsCount DEF ListPlans
<1>3. /\ FieldsOK(proc[p]) /\ IdsOK(proc[p], providers, agents) /\ proc[p].made = 0
      /\ CountOK("plans", proc[p], events) /\ DOMAIN proc[p].agent = DOMAIN f.agents
      /\ proc[p].whole => SettledTo(Len(proc[p].file.agents), proc[p], providers, agents)
  BY <1>1, AtHand DEF PlaceOK, Done
<1>5. \/ /\ ~proc[p].agency \/ \A w \in Plans : f.wiring[w] = None
         /\ Go(p, "listen", proc[p])
      \/ Go(p, l, r)
      \/ Go(p, "listen", NotWhole(p))
  BY DEF ListPlans
<1>6. CASE Go(p, "listen", NotWhole(p))
  <2>1. Answered(p) \/ Refused(p) \/ UNCHANGED events
    BY DEF ListPlans
  <2> QED
    BY <1>1, <1>6, <2>1, GivesUp
<1>7. CASE /\ ~proc[p].agency \/ \A w \in Plans : f.wiring[w] = None
           /\ Go(p, "listen", proc[p])
  <2>1. PlaceOK("listen", proc[p], agents) /\ Missing("listen", proc[p], providers, agents)
        /\ CountOK("listen", proc[p], events')
    BY <1>2, <1>3 DEF PlaceOK, Missing, CountOK, Looping, Places, Booting
  <2>2. \A w \in Plans : Wired(w, proc[p], plans)
    BY <1>7 DEF Wired, Wires
  <2>3. LandsOK("listen", proc[p], providers, agents, plans, events')
    BY <1>1, <1>3, <2>1, <2>2, DoneAtListen DEF LandsOK
  <2> QED
    BY <1>1, <1>2, <1>7, <2>3, Goes
<1>8. CASE Go(p, l, r)
  <2>1. /\ DOMAIN r = Shape /\ r.file = f /\ r.prov = proc[p].prov /\ r.whole = proc[p].whole
        /\ r.late = proc[p].late /\ r.agent = proc[p].agent /\ r.made = 0
        /\ r.i = proc[p].i /\ r.todo = Unwired(p) /\ r.agency = proc[p].agency /\ r.boots = proc[p].boots
    BY <1>1, <1>3 DEF Shape, f
  <2>2. l \in {"listen", "wire"} /\ (l = "listen" => Unwired(p) = {})
    OBVIOUS
  <2>3. /\ Unwired(p) \subseteq Plans /\ \A w \in Unwired(p) : Wires(f, w)
        /\ \A w \in Plans \ Unwired(p) : Wired(w, r, plans)
    BY <2>1 DEF Unwired, Wired
  <2> HIDE DEF r, l
  <2>4. FieldsOK(r)
    <3>1. r.late \in BOOLEAN /\ r.whole \in BOOLEAN /\ r.agency \in BOOLEAN
      BY <1>3, <2>1 DEF FieldsOK
    <3> QED
      BY <1>3, <2>1, <2>3, <3>1 DEF FieldsOK, f
  <2>5. IdsOK(r, providers, agents) /\ CountOK(l, r, events')
    BY <1>2, <1>3, <2>1, <2>2 DEF IdsOK, CountOK
  <2>6. PlaceOK(l, r, agents) /\ Missing(l, r, providers, agents)
    BY <1>3, <2>1, <2>2, <2>3 DEF PlaceOK, Missing, Looping, Places, Booting
  <2>7. r.whole => Done(l, r, providers, agents, plans)
    <3>1. r.whole => SettledTo(Len(r.file.agents), r, providers, agents)
      BY <1>3, <2>1 DEF SettledTo, Single, f
    <3>2. CASE l = "listen"
      BY <2>2, <2>3, <2>4, <3>1, <3>2, DoneAtListen
    <3>3. CASE l = "wire"
      BY <2>1, <2>3, <3>1, <3>3 DEF Done, Looping
    <3> QED
      BY <2>2, <3>2, <3>3
  <2>8. LandsOK(l, r, providers, agents, plans, events')
    BY <2>1, <2>4, <2>5, <2>6, <2>7 DEF LandsOK
  <2> QED
    BY <1>1, <1>2, <1>8, <2>8, Goes
<1> QED
  BY <1>5, <1>6, <1>7, <1>8

LEMMA WiresPlan == ASSUME AllInv, NEW p \in Procs, NEW w \in Plans, WirePlan(p, w) PROVE AllInv'
<1> USE DEF At
<1> DEFINE f == proc[p].file
           k == f.wiring[w]
           rest == proc[p].todo \ {w}
           l == IF rest = {} THEN "listen" ELSE "wire"
           wired == [plans EXCEPT ![w] = proc[p].agent[k]]
           r1 == [proc[p] EXCEPT !.todo = rest]
           r2 == [proc[p] EXCEPT !.todo = rest, !.whole = FALSE]
<1>1. /\ proc[p].at = "wire" /\ DOMAIN proc[p] = Shape /\ w \in proc[p].todo
      /\ UNCHANGED file /\ UNCHANGED providers /\ UNCHANGED agents /\ UNCHANGED hand
  BY AtHand DEF WirePlan
<1>2. events \in Nat /\ events' \in Nat /\ events' \in 0 .. MaxEvents /\ events <= events'
  BY CallsCount DEF WirePlan
<1>3. /\ FieldsOK(proc[p]) /\ IdsOK(proc[p], providers, agents) /\ proc[p].made = 0
      /\ CountOK("wire", proc[p], events)
      /\ \A x \in proc[p].todo : Wires(f, x)
      /\ DOMAIN proc[p].agent = DOMAIN f.agents
      /\ proc[p].whole => /\ SettledTo(Len(f.agents), proc[p], providers, agents)
                          /\ \A x \in Plans \ proc[p].todo : Wired(x, proc[p], plans)
  BY <1>1, AtHand DEF PlaceOK, Done
<1>4. f \in Files /\ k \in DOMAIN f.agents /\ k \in 1 .. Len(f.agents)
  BY <1>1, <1>3, FileFields DEF FieldsOK, Wires
<1>5. StoreOK /\ plans \in [Plans -> 0 .. Len(agents)] /\ agents \in Seq(Entities)
  BY DEF AllInv, TypeInv, StoreOK
<1>6. Len(agents) \in Nat /\ DOMAIN agents = 1 .. Len(agents)
  BY <1>5, LenProperties
<1>7. \/ plans' = wired /\ Wrote(p, l, r1)
      \/ plans' \in {plans, wired} /\ Wrote(p, l, r2)
  BY DEF WirePlan
<1>8. clash' \in BOOLEAN
  BY <1>7 DEF Wrote
<1>9. wired \in [Plans -> 0 .. Len(agents)] /\ wired[w] = proc[p].agent[k] /\ \A x \in Plans \ {w} : wired[x] = plans[x]
  <2>1. proc[p].agent[k] \in 0 .. Len(agents)
    BY <1>3, <1>4, <1>6 DEF IdsOK
  <2> HIDE DEF k
  <2> QED
    BY <1>5, <2>1
<1>10. l \in {"listen", "wire"} /\ (l = "listen" => rest = {}) /\ rest \subseteq proc[p].todo
  OBVIOUS
<1>11. /\ DOMAIN r1 = Shape /\ r1.file = f /\ r1.prov = proc[p].prov /\ r1.whole = proc[p].whole
       /\ r1.late = proc[p].late /\ r1.agent = proc[p].agent /\ r1.made = 0
       /\ r1.i = proc[p].i /\ r1.todo = rest /\ r1.agency = proc[p].agency /\ r1.boots = proc[p].boots
  BY <1>1, <1>3 DEF Shape
<1>12. /\ DOMAIN r2 = Shape /\ r2.file = f /\ r2.prov = proc[p].prov /\ r2.whole = FALSE
       /\ r2.late = proc[p].late /\ r2.agent = proc[p].agent /\ r2.made = 0
       /\ r2.i = proc[p].i /\ r2.todo = rest /\ r2.agency = proc[p].agency /\ r2.boots = proc[p].boots
  BY <1>1, <1>3 DEF Shape
<1> HIDE DEF wired, l, r1, r2
<1>13. StoreOK' /\ Grows(providers, agents, providers', agents') /\ (~clash => Unique(providers', agents'))
  <2>1. plans' \in [Plans -> 0 .. Len(agents)]
    BY <1>5, <1>7, <1>9
  <2>2. ~clash => Unique(providers, agents)
    BY DEF AllInv, NameInv
  <2> QED
    BY <1>1, <1>2, <1>5, <1>8, <2>1, <2>2, NoGrowth DEF StoreOK
<1>14. ASSUME NEW r, r = r1 \/ r = r2, r.whole => plans' = wired /\ proc[p].whole
       PROVE  LandsOK(l, r, providers', agents', plans', events')
  <2>1. /\ DOMAIN r = Shape /\ r.file = proc[p].file /\ r.prov = proc[p].prov
        /\ r.whole = proc[p].whole \/ r.whole = FALSE
        /\ r.late = proc[p].late /\ r.agent = proc[p].agent /\ r.made = 0
        /\ r.i = proc[p].i /\ r.todo = rest /\ r.agency = proc[p].agency /\ r.boots = proc[p].boots
    BY <1>11, <1>12, <1>14
  <2>2. FieldsOK(r)
    <3>1. /\ r.todo \subseteq proc[p].todo /\ r.made \in Nat /\ r.prov \in Seq(Nat)
          /\ r.agent \in Seq(Nat)
      BY <1>3, <2>1 DEF FieldsOK
    <3> QED
      BY <1>3, <2>1, <3>1, SameFields
  <2>3. IdsOK(r, providers', agents') /\ CountOK(l, r, events')
    BY <1>1, <1>2, <1>3, <1>10, <2>1 DEF IdsOK, CountOK
  <2>4. PlaceOK(l, r, agents') /\ Missing(l, r, providers', agents')
    BY <1>3, <1>10, <2>1 DEF PlaceOK, Missing, Looping, Places, Booting
  <2>5. ASSUME r.whole PROVE Done(l, r, providers', agents', plans')
    <3>1. SettledTo(Len(r.file.agents), r, providers', agents')
      BY <1>1, <1>3, <1>14, <2>1, <2>5 DEF SettledTo, Single
    <3>2. wired[w] # 0
      <4>1. proc[p].agent[k] # 0
        BY <1>3, <1>4, <1>14, <2>5 DEF SettledTo
      <4> QED
        BY <1>9, <4>1
    <3>3. \A x \in Plans \ rest : Wired(x, r, plans')
      BY <1>3, <1>9, <1>14, <2>1, <2>5, <3>2 DEF Wired
    <3>4. CASE l = "listen"
      BY <1>10, <2>2, <3>1, <3>3, <3>4, DoneAtListen
    <3>5. CASE l = "wire"
      BY <2>1, <3>1, <3>3, <3>5 DEF Done, Looping
    <3> QED
      BY <1>10, <3>4, <3>5
  <2> QED
    BY <2>1, <2>2, <2>3, <2>4, <2>5 DEF LandsOK
<1>15. CASE plans' = wired /\ Wrote(p, l, r1)
  BY <1>2, <1>11, <1>13, <1>14, <1>15, Writes
<1>16. CASE plans' \in {plans, wired} /\ Wrote(p, l, r2)
  BY <1>2, <1>12, <1>13, <1>14, <1>16, Writes
<1> QED
  BY <1>7, <1>15, <1>16

LEMMA Listens == ASSUME AllInv, NEW p \in Procs, Listen(p) \/ Expire(p) \/ Crash(p) PROVE AllInv'
<1> USE DEF At
<1>1. proc[p].at # "down" /\ DOMAIN proc[p] = Shape /\ UNCHANGED <<file, store, hand>>
  BY AtHand DEF Listen, Expire, Crash, Booting
<1>2. events \in Nat /\ events' \in Nat /\ events' \in 0 .. MaxEvents /\ events <= events' /\ (Event => events' = events + 1)
  BY CallsCount DEF Listen, Expire, Crash
<1>3. /\ FieldsOK(proc[p]) /\ IdsOK(proc[p], providers, agents)
      /\ CountOK(proc[p].at, proc[p], events) /\ PlaceOK(proc[p].at, proc[p], agents)
      /\ ~clash => Missing(proc[p].at, proc[p], providers, agents)
      /\ proc[p].whole => Done(proc[p].at, proc[p], providers, agents, plans)
  BY AtHand
<1>4. CASE Event /\ Go(p, "down", proc[p])
  <2>1. CountOK("down", proc[p], events')
    BY <1>1, <1>2, <1>3, <1>4 DEF CountOK
  <2>2. LandsOK("down", proc[p], providers, agents, plans, events')
    BY <1>1, <1>3, <2>1 DEF LandsOK, Missing, Done, Looping
  <2> QED
    BY <1>1, <1>2, <1>4, <2>2, Goes
<1>5. CASE proc[p].at = "listen" /\ Go(p, "serving", proc[p])
  <2>1. CountOK("serving", proc[p], events')
    BY <1>1, <1>2, <1>3 DEF CountOK
  <2>2. /\ PlaceOK("serving", proc[p], agents) /\ Missing("serving", proc[p], providers, agents)
        /\ proc[p].whole => Done("serving", proc[p], providers, agents, plans)
    BY <1>3, <1>5 DEF PlaceOK, Missing, Done, Looping, Places, Single, Wired
  <2>3. LandsOK("serving", proc[p], providers, agents, plans, events')
    BY <1>1, <1>3, <2>1, <2>2 DEF LandsOK
  <2> QED
    BY <1>1, <1>2, <1>5, <2>3, Goes
<1>6. CASE proc[p].at \in Booting /\ Go(p, proc[p].at, [proc[p] EXCEPT !.late = TRUE])
  <2> DEFINE r == [proc[p] EXCEPT !.late = TRUE]
             l == proc[p].at
  <2>1. /\ DOMAIN r = Shape /\ r.file = proc[p].file /\ r.prov = proc[p].prov /\ r.whole = proc[p].whole
        /\ r.late = TRUE /\ r.agent = proc[p].agent /\ r.made = proc[p].made
        /\ r.i = proc[p].i /\ r.todo = proc[p].todo /\ r.agency = proc[p].agency /\ r.boots = proc[p].boots
        /\ r.old = proc[p].old
    BY <1>1 DEF Shape
  <2> HIDE DEF r
  <2>2. Entry(r) = Entry(proc[p]) /\ Hand(r) = Hand(proc[p])
    BY <2>1 DEF Entry, Hand
  <2>3. FieldsOK(r)
    <3>1. r.late \in BOOLEAN /\ r.whole \in BOOLEAN /\ r.agency \in BOOLEAN
      BY <1>3, <2>1 DEF FieldsOK
    <3> QED
      BY <1>3, <2>1, <3>1 DEF FieldsOK
  <2>4. IdsOK(r, providers, agents) /\ CountOK(l, r, events')
    BY <1>1, <1>2, <1>3, <2>1 DEF IdsOK, CountOK
  <2>5. PlaceOK(l, r, agents)
    BY <1>3, <2>1, <2>2 DEF PlaceOK
  <2>6. ~clash => Missing(l, r, providers, agents)
    BY <1>3, <2>1, <2>2 DEF Missing
  <2>7. r.whole => Done(l, r, providers, agents, plans)
    BY <1>3, <2>1, <2>2 DEF Done, SettledTo, Wired, Single
  <2>8. LandsOK(l, r, providers, agents, plans, events')
    BY <2>1, <2>3, <2>4, <2>5, <2>6, <2>7 DEF LandsOK
  <2>9. Go(p, l, r)
    BY <1>6 DEF r
  <2> QED
    BY <1>1, <1>2, <2>8, <2>9, Goes
<1> QED
  BY <1>4, <1>5, <1>6 DEF Listen, Expire, Crash

-----------------------------------------------------------------------------
(* The operator *)

LEMMA OperatorKeeps ==
  ASSUME AllInv, OperatorWrites, StoreOK', Grows(providers, agents, providers', agents'),
         ~clash => Unique(providers', agents'),
         \A n : Nobody(n, agents) => Nobody(n, agents')
  PROVE  AllInv'
<1>1. /\ proc' = [q \in Procs |-> [proc[q] EXCEPT !.whole = FALSE]] /\ providers' = providers /\ clash' = clash
      /\ events \in Nat /\ events' \in Nat /\ events <= events'
  BY BoundAssumption DEF OperatorWrites, Event, AllInv, TypeInv, StoreOK
<1>2. Shaped' /\ \A q \in Procs : Alike(proc'[q], proc[q]) /\ ~proc'[q].whole
  BY <1>1 DEF AllInv, Shaped, Shape, Alike
<1>3. ASSUME NEW q \in Procs
      PROVE  /\ ReplicaOK(proc'[q].at, proc'[q], providers', agents', events')
             /\ ~clash => Missing(proc'[q].at, proc'[q], providers', agents')
  <2>1. Alike(proc'[q], proc[q])
    BY <1>2
  <2>2. ReplicaOK(proc[q].at, proc[q], providers, agents, events)
    BY DEF AllInv, TypeInv
  <2>3. ReplicaOK(proc'[q].at, proc'[q], providers', agents', events')
    BY <1>1, <2>1, <2>2, OnLooking
  <2>4. Entry(proc'[q]) = Entry(proc[q])
    BY <2>1 DEF Alike, Entry
  <2>5. ~clash => Missing(proc[q].at, proc[q], providers, agents)
    BY AtHand
  <2>6. ~clash => Missing(proc'[q].at, proc'[q], providers', agents')
    <3>1. providers' = providers /\ \A n : Nobody(n, agents) => Nobody(n, agents')
      BY <1>1
    <3> QED
      BY <2>1, <2>5, <3>1 DEF Missing, Alike
  <2> QED
    BY <2>3, <2>6
<1> QED
  BY <1>1, <1>2, <1>3 DEF AllInv, TypeInv, NameInv, WholeInv

LEMMA EditsFile == AllInv /\ EditFile => AllInv'
<1> SUFFICES ASSUME AllInv, EditFile PROVE AllInv'
  OBVIOUS
<1>1. /\ OperatorWrites /\ file' \in Files /\ UNCHANGED agents /\ UNCHANGED plans
      /\ UNCHANGED hand /\ UNCHANGED providers /\ UNCHANGED clash /\ events' \in 0 .. MaxEvents
  BY CallsCount DEF EditFile, OperatorWrites
<1>2. StoreOK /\ (~clash => Unique(providers, agents))
  BY DEF AllInv, TypeInv, NameInv
<1>3. StoreOK'
  BY <1>1, <1>2 DEF StoreOK
<1> QED
  BY <1>1, <1>2, <1>3, NoGrowth, OperatorKeeps

LEMMA DeletesAgent == ASSUME AllInv, NEW a \in DOMAIN agents, DeleteAgent(a) PROVE AllInv'
<1> DEFINE ent == [agents[a] EXCEPT !.live = FALSE, !.edges = {}]
<1>1. /\ OperatorWrites /\ UNCHANGED file /\ UNCHANGED plans
      /\ UNCHANGED hand /\ UNCHANGED providers /\ UNCHANGED clash /\ events' \in 0 .. MaxEvents
      /\ agents' = [agents EXCEPT ![a] = ent] /\ clash' \in BOOLEAN
  BY CallsCount DEF DeleteAgent, OperatorWrites, AllInv, TypeInv, StoreOK
<1>2. agents \in Seq(Entities)
  BY DEF AllInv, TypeInv, StoreOK
<1>3. agents[a] \in Entities
  BY <1>2, LenProperties
<1>4. ent \in Entities /\ ent.name = agents[a].name /\ ent.live = FALSE /\ ent.edges = {}
  BY <1>3 DEF Entities
<1> HIDE DEF ent
<1>5. /\ StoreOK' /\ Grows(providers, agents, providers', agents') /\ (~clash => Unique(providers', agents'))
      /\ DOMAIN agents' = DOMAIN agents /\ agents'[a] = ent
      /\ \A b \in DOMAIN agents : b # a => agents'[b] = agents[b]
  BY <1>1, <1>4, Sets
<1>6. \A n : Nobody(n, agents) => Nobody(n, agents')
  BY <1>4, <1>5 DEF Nobody
<1> QED
  BY <1>1, <1>5, <1>6, OperatorKeeps

LEMMA EditsPlan == ASSUME AllInv, NEW w \in Plans, EditPlan(w) PROVE AllInv'
<1>1. /\ OperatorWrites /\ UNCHANGED file /\ UNCHANGED agents
      /\ UNCHANGED providers /\ UNCHANGED clash /\ events' \in 0 .. MaxEvents
  BY CallsCount DEF EditPlan, OperatorWrites
<1>2. PICK a \in 0 .. Len(agents) :
        /\ plans' = [plans EXCEPT ![w] = a]
        /\ hand' = [hand EXCEPT ![w] = IF \E p \in Procs : w \in proc[p].todo THEN 0 ELSE a]
  BY DEF EditPlan
<1>3. StoreOK /\ (~clash => Unique(providers, agents))
  BY DEF AllInv, TypeInv, NameInv
<1>4. Len(agents) \in Nat
  BY <1>3, LenProperties DEF StoreOK
<1>5. plans' \in [Plans -> 0 .. Len(agents)] /\ hand' \in [Plans -> 0 .. Len(agents)]
  BY <1>2, <1>3, <1>4 DEF StoreOK
<1>6. StoreOK'
  BY <1>1, <1>3, <1>5 DEF StoreOK
<1> QED
  BY <1>1, <1>3, <1>6, NoGrowth, OperatorKeeps

-----------------------------------------------------------------------------
(* The theorems *)

LEMMA InitAll == Init => AllInv
<1> SUFFICES ASSUME Init PROVE AllInv
  OBVIOUS
<1> DEFINE new == Fresh(CHOOSE f \in Files : TRUE)
<1>1. /\ file \in Files /\ providers = <<>> /\ agents = <<>> /\ plans = [w \in Plans |-> 0] /\ hand = plans
      /\ events = 0 /\ clash = FALSE /\ proc = [p \in Procs |-> new]
  BY DEF Init
<1>2. /\ DOMAIN new = Shape /\ new.at = "down" /\ new.todo = {} /\ new.agency = FALSE /\ new.file \in Files
      /\ new.late = FALSE /\ new.whole = FALSE
      /\ new.prov = <<>> /\ new.agent = <<>> /\ new.i = 1
      /\ new.made = 0 /\ new.old = {} /\ new.boots = 0
  BY <1>1, FreshShape
<1> HIDE DEF new
<1>3. StoreOK
  <2>1. providers \in Seq(ProviderNames) /\ agents \in Seq(Entities) /\ Len(agents) = 0
    BY <1>1, EmptySeq
  <2>2. plans \in [Plans -> 0 .. Len(agents)] /\ hand \in [Plans -> 0 .. Len(agents)]
    BY <1>1, <2>1
  <2>3. \A a \in DOMAIN agents : \A e \in agents[a].edges : e.to <= Len(providers)
    BY <1>1
  <2>4. events \in 0 .. MaxEvents /\ clash \in BOOLEAN
    <3>1. events \in 0 .. MaxEvents
      BY <1>1, BoundAssumption
    <3>2. clash \in BOOLEAN
      BY Zenon, <1>1
    <3> QED
      BY <3>1, <3>2
  <2> QED
    BY <1>1, <2>1, <2>2, <2>3, <2>4 DEF StoreOK
<1>4. FieldsOK(new)
  <2>1. Len(new.file.agents) \in Nat
    BY <1>2, FileFields
  <2>2. <<>> \in Seq(Nat)
    BY EmptySeq
  <2>3. new.late \in BOOLEAN /\ new.whole \in BOOLEAN /\ new.agency \in BOOLEAN
    BY <1>2
  <2>4. new.i \in 1 .. (Len(new.file.agents) + 1) /\ new.made \in Nat
    BY <1>2, <2>1
  <2> QED
    BY <1>2, <2>2, <2>3, <2>4 DEF FieldsOK
<1>5. IdsOK(new, providers, agents) /\ CountOK("down", new, events) /\ PlaceOK("down", new, agents)
  BY <1>1, <1>2 DEF IdsOK, CountOK, PlaceOK, Looping, Places
<1>6. Missing("down", new, providers, agents) /\ Unique(providers, agents)
  BY <1>1 DEF Missing, Unique, Looping
<1> QED
  BY <1>1, <1>2, <1>3, <1>4, <1>5, <1>6 DEF AllInv, Shaped, TypeInv, ReplicaOK, NameInv, WholeInv

LEMMA AllStep == AllInv /\ [Next]_vars => AllInv'
<1> SUFFICES ASSUME AllInv, [Next]_vars PROVE AllInv'
  OBVIOUS
<1>1. ASSUME NEW p \in Procs, Step(p) PROVE AllInv'
  BY <1>1, StartKeeps, ListsProviders, CreatesProvider, ListsAgents, CreatesAgent, WritesAgent, ListsEdges,
     Unlinks, Links, ListsPlans, WiresPlan, Listens DEF Step
<1>2. ASSUME NEW p \in Procs, Expire(p) \/ Crash(p) PROVE AllInv'
  BY <1>2, Listens
<1>3. CASE Operator
  BY <1>3, EditsFile, DeletesAgent, EditsPlan DEF Operator
<1>4. CASE UNCHANGED vars
  BY <1>4 DEF vars, store, AllInv, Shaped, TypeInv, StoreOK, NameInv, WholeInv
<1> QED
  BY <1>1, <1>2, <1>3, <1>4 DEF Next

LEMMA Always == Spec => []AllInv
BY InitAll, AllStep, PTL DEF Spec

\* The store, the replicas' records and the ids they know of the file's entries are well formed.
THEOREM TypeCorrect == Spec => []TypeOK
<1>1. ASSUME AllInv PROVE TypeOK
  <2>1. StoreOK
    BY <1>1 DEF AllInv, TypeInv
  <2>2. agents \in Seq(Entities) /\ providers \in Seq(ProviderNames)
    BY <2>1 DEF StoreOK
  <2>3. /\ Len(agents) \in Nat /\ DOMAIN agents = 1 .. Len(agents)
        /\ Len(providers) \in Nat /\ DOMAIN providers = 1 .. Len(providers)
        /\ \A a \in DOMAIN agents : agents[a] \in Entities
    BY <2>2, LenProperties, ElementOfSeq
  <2>4. ASSUME NEW a \in DOMAIN agents
        PROVE  /\ agents[a].name \in AgentNames /\ agents[a].limit \in 0 .. MaxLimit /\ agents[a].live \in BOOLEAN
               /\ \A e \in agents[a].edges : e.to \in DOMAIN providers /\ e.by \in Procs /\ e.boot \in 1 .. (MaxEvents + 1)
    <3>1. agents[a] \in Entities
      BY <2>3
    <3>2. ASSUME NEW e \in agents[a].edges
          PROVE  e.to \in DOMAIN providers /\ e.by \in Procs /\ e.boot \in 1 .. (MaxEvents + 1)
      <4>1. e \in Edges /\ e.to <= Len(providers)
        BY <2>1, <3>1 DEF Entities, StoreOK
      <4> QED
        BY <2>3, <4>1 DEF Edges
    <3> QED
      BY <3>1, <3>2 DEF Entities
  <2>5. ASSUME NEW p \in Procs
        PROVE  LET r == proc[p] IN
                 /\ r.at \in Booting \cup {"down", "serving"}
                 /\ r.prov \in Seq(0 .. Len(providers)) /\ r.agent \in Seq(0 .. Len(agents))
                 /\ r.made \in 0 .. Len(agents)
                 /\ r.i \in 1 .. (Len(r.file.agents) + 1) /\ r.todo \subseteq Plans
                 /\ {r.agency, r.late, r.whole} \subseteq BOOLEAN /\ r.boots \in 0 .. (MaxEvents + 1)
    <3>1. /\ FieldsOK(proc[p]) /\ IdsOK(proc[p], providers, agents)
          /\ CountOK(proc[p].at, proc[p], events) /\ PlaceOK(proc[p].at, proc[p], agents)
      BY <1>1, AtHand
    <3>2. /\ proc[p].prov \in Seq(0 .. Len(providers)) /\ proc[p].agent \in Seq(0 .. Len(agents))
          /\ proc[p].made \in 0 .. Len(agents)
      <4>1. /\ Len(proc[p].prov) \in Nat /\ DOMAIN proc[p].prov = 1 .. Len(proc[p].prov)
            /\ Len(proc[p].agent) \in Nat /\ DOMAIN proc[p].agent = 1 .. Len(proc[p].agent)
            /\ proc[p].prov = [k \in DOMAIN proc[p].prov |-> proc[p].prov[k]]
            /\ proc[p].agent = [k \in DOMAIN proc[p].agent |-> proc[p].agent[k]]
        BY <3>1, LenProperties, SeqDef DEF FieldsOK
      <4>2. proc[p].prov \in [1 .. Len(proc[p].prov) -> 0 .. Len(providers)]
        <5>1. \A k \in DOMAIN proc[p].prov : proc[p].prov[k] \in 0 .. Len(providers)
          BY <2>3, <3>1 DEF IdsOK
        <5> QED
          BY <4>1, <5>1
      <4>3. proc[p].agent \in [1 .. Len(proc[p].agent) -> 0 .. Len(agents)]
        <5>1. \A k \in DOMAIN proc[p].agent : proc[p].agent[k] \in 0 .. Len(agents)
          BY <2>3, <3>1 DEF IdsOK
        <5> QED
          BY <4>1, <5>1
      <4>4. proc[p].made \in 0 .. Len(agents)
        BY <2>3, <3>1 DEF FieldsOK, IdsOK
      <4> QED
        BY <4>1, <4>2, <4>3, <4>4, FnIsSeq
    <3>3. proc[p].boots \in 0 .. (MaxEvents + 1)
      BY <2>1, <3>1, BoundAssumption DEF StoreOK, CountOK
    <3>4. {proc[p].agency, proc[p].late, proc[p].whole} \subseteq BOOLEAN
      BY <3>1 DEF FieldsOK
    <3> QED
      BY <3>1, <3>2, <3>3, <3>4 DEF FieldsOK, PlaceOK, Places
  <2> QED
    BY <2>1, <2>4, <2>5 DEF StoreOK, TypeOK
<1> QED
  BY <1>1, Always, PTL

\* However often the service was started, stopped half way or cut off from the
\* store, no name has two providers or two live agents, unless two replicas
\* have booted over each other or some file declares that name twice.
THEOREM NamesAreUnique == Spec => []NamesUnique
<1>1. AllInv => NamesUnique
  BY DEF AllInv, NameInv, Unique, NamesUnique
<1> QED
  BY <1>1, Always, PTL

\* A service that came up with no call failing and nobody else writing has
\* every agent that is declared once with its declared provider alone and its
\* declared limit, and, if it has an Agency client, no declared plan without an
\* agent.
THEOREM BootsProvision == Spec => []BootProvisions
<1>1. ASSUME AllInv PROVE BootProvisions
  <2> SUFFICES ASSUME NEW p \in Procs, proc[p].at = "serving", proc[p].whole
               PROVE  LET f == proc[p].file IN
                 /\ \A i \in DOMAIN f.agents : LET s == f.agents[i] IN
                      Once(AgentNamesOf(f), s.name) =>
                        \E a \in AgentsNamed(s.name) :
                          /\ s.limit # 0 => agents[a].limit = s.limit
                          /\ s.provider # 0 => /\ Cardinality(agents[a].edges) = 1
                                               /\ \A e \in agents[a].edges : providers[e.to] = f.providers[s.provider]
                 /\ proc[p].agency => \A w \in Plans : Wires(f, w) => plans[w] # 0
    BY DEF BootProvisions, At
  <2>1. Done("serving", proc[p], providers, agents, plans)
    BY <1>1, AtHand
  <2> DEFINE f == proc[p].file
  <2>2. ASSUME NEW i \in DOMAIN f.agents, Once(AgentNamesOf(f), f.agents[i].name)
        PROVE  \E a \in AgentsNamed(f.agents[i].name) :
                 /\ f.agents[i].limit # 0 => agents[a].limit = f.agents[i].limit
                 /\ f.agents[i].provider # 0 =>
                      /\ Cardinality(agents[a].edges) = 1
                      /\ \A e \in agents[a].edges : providers[e.to] = f.providers[f.agents[i].provider]
    <3> DEFINE s == f.agents[i]
    <3>1. PICK a \in DOMAIN agents : Settled(f, s, a, providers, agents)
      BY <2>1, <2>2 DEF Done, Single
    <3> HIDE DEF s, f
    <3>2. a \in AgentsNamed(s.name) /\ (s.limit # 0 => agents[a].limit = s.limit)
      BY <3>1 DEF Settled, Limited, AgentsNamed
    <3>3. ASSUME s.provider # 0
          PROVE  /\ Cardinality(agents[a].edges) = 1
                 /\ \A e \in agents[a].edges : providers[e.to] = f.providers[s.provider]
      <4>1. PICK e \in agents[a].edges : agents[a].edges = {e} /\ providers[e.to] = f.providers[s.provider]
        BY <3>1, <3>3 DEF Settled, Attached
      <4>2. Cardinality({e}) = 1
        BY FS_Singleton
      <4> QED
        BY <4>1, <4>2
    <3> QED
      BY <3>2, <3>3 DEF s
  <2>3. proc[p].agency => \A w \in Plans : Wires(f, w) => plans[w] # 0
    BY <2>1 DEF Done, Wired
  <2> QED
    BY <2>2, <2>3
<1> QED
  BY <1>1, Always, PTL
=============================================================================
